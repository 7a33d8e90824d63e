----------------------------- MODULE FleetEnroll -----------------------------
(***************************************************************************)
(* The container start-up path of the agent as the code runs it           *)
(* (internal/pkg/agent/cmd/container.go): runContainerCmd calls           *)
(* shouldFleetEnroll, whose local checks run in one step and whose         *)
(* acknowledge probe (ackFleet: backoff.Retry with a ConstantBackOff and a *)
(* counter) runs one attempt per step through FleetAuthRoundTripper.  The  *)
(* Fleet administrator may revoke any API key at any time, and the         *)
(* container may be stopped at any point.                                  *)
(***************************************************************************)
EXTENDS Naturals, FiniteSets

CONSTANTS Ids, URLs, Tokens, Empty, NoConfig, MaxKeys,
          MaxRetries   \* ackFleet's maxRetries (3 in the code)

ASSUME MaxRetries \in Nat \ {0}

VARIABLES stored,     \* the agent configuration on disk, or NoConfig
          validKeys,  \* API keys the Fleet server accepts
          nextKey,    \* the last API key the server issued
          setup,      \* the setup configuration of the current start
          pc,         \* where runContainerCmd is
          retries,    \* ackFleet's retries counter
          decision,   \* what shouldFleetEnroll returned in this start
          sawInvalid  \* history: a probe attempt of this start got a 401

vars == <<stored, validKeys, nextKey, setup, pc, retries, decision, sawInvalid>>

A == INSTANCE EnrollDecision WITH
    phase <- IF pc \in {"acking", "waiting"} THEN "deciding" ELSE pc

Setups == A!Setups
Configs == A!Configs
PCs == {"stopped", "deciding", "acking", "waiting", "enrolling", "running"}

-----------------------------------------------------------------------------
(* FleetAuthRoundTripper.RoundTrip: a transport error is returned as is; a *)
(* 401 from the server becomes ErrInvalidAPIKey.  "neterr" stands for any  *)
(* error other than ErrInvalidAPIKey (transport failure, 5xx).             *)
AckResponses(key) ==
    {"neterr"} \cup IF key \in validKeys THEN {"ok"} ELSE {"invalid"}

\* Plausible bug: the ErrInvalidAPIKey case is dropped and a 401 is retried.
IsPermanentRetry401(r, attempt) == attempt = MaxRetries
\* Plausible bug: the attempt counter is compared off by one.
IsPermanentOffByOne(r, attempt) == attempt > MaxRetries

\* ackFleet's operation: which failures stop backoff.Retry (backoff.Permanent).
IsPermanent(r, attempt) == r = "invalid" \/ attempt = MaxRetries

\* Plausible bug: the requested id is compared even when none is requested.
IdMismatchNoGuard(s, st) == s.id # st.id

\* shouldFleetEnroll: a requested agent id differing from the stored one.
IdMismatch(s, st) == s.id # Empty /\ s.id # st.id

\* shouldFleetEnroll: the stored hash and the setup token both present and
\* ComparePBKDF2HashAndPassword reports a mismatch.
HashMismatch(hash, token) == hash # Empty /\ token # Empty /\ hash # token

\* The checks made before any network call, in the code's order.
LocalMismatch(s, st) ==
    \/ IdMismatch(s, st)
    \/ s.url \notin st.hosts
    \/ HashMismatch(st.enrollHash, s.token)
    \/ HashMismatch(st.replaceHash, s.replace)

\* Plausible bug: each token's hash is stored in the other token's field.
BackfillSwapped(st, s) ==
    [st EXCEPT !.enrollHash  = IF @ = Empty /\ s.replace # Empty THEN s.replace ELSE @,
               !.replaceHash = IF @ = Empty /\ s.token # Empty THEN s.token ELSE @]

\* The hash backfill after a successful probe (GeneratePBKDF2FromPassword).
Backfill(st, s) ==
    [st EXCEPT !.enrollHash  = IF @ = Empty /\ s.token # Empty THEN s.token ELSE @,
               !.replaceHash = IF @ = Empty /\ s.replace # Empty THEN s.replace ELSE @]

\* shouldFleetEnroll returns d and runContainerCmd acts on it.
Return(d) ==
    /\ decision' = d
    /\ pc' = CASE d = "skip"   -> "running"
               [] d = "enroll" -> "enrolling"
               [] d = "error"  -> "stopped"

-----------------------------------------------------------------------------
\* Before the first start no setup has been read; any value stands for it.
Init ==
    /\ pc = "stopped"
    /\ setup = CHOOSE s \in Setups : TRUE
    /\ A!AInit
    /\ retries = 0
    /\ sawInvalid = FALSE

\* The container starts with the setup configuration of its environment.
Start ==
    /\ pc = "stopped"
    /\ setup' \in Setups
    /\ pc' = "deciding" /\ decision' = "none"
    /\ retries' = 0 /\ sawInvalid' = FALSE
    /\ UNCHANGED <<stored, validKeys, nextKey>>

\* shouldFleetEnroll up to the probe: flags, stat, store load, local checks.
ShouldFleetEnroll ==
    /\ pc = "deciding"
    /\ UNCHANGED <<stored, validKeys, nextKey, setup, retries, sawInvalid>>
    /\ CASE ~setup.enroll     -> Return("skip")
         [] setup.force       -> Return("enroll")
         [] stored = NoConfig -> Return("enroll")
         [] OTHER ->
              \/ Return("error")   \* store open/load/decode, hash decode or compare error
              \/ /\ LocalMismatch(setup, stored)
                 /\ Return("enroll")
              \/ /\ ~LocalMismatch(setup, stored)
                 /\ pc' = "acking" /\ UNCHANGED decision

\* The rest of shouldFleetEnroll after ackFleet returned nil: backfill the
\* missing hashes and persist them with SafelyStoreAgentInfo when any was
\* added; a failed store is returned as an error.
ProbeSucceeded ==
    LET new == Backfill(stored, setup) IN
    IF new = stored
    THEN Return("skip") /\ UNCHANGED stored
    ELSE \/ stored' = new /\ Return("skip")
         \/ Return("error") /\ UNCHANGED stored

\* Plausible bug: the counter is declared inside the operation, so every
\* attempt counts as the first.
AckAttemptLocalCounter ==
    /\ pc = "acking"
    /\ retries' = 1 /\ pc' = "waiting"
    /\ UNCHANGED <<stored, validKeys, nextKey, setup, decision, sawInvalid>>

\* One call of ackFleet's operation: retries++ and ackCMD.Execute sends the
\* empty ack.
AckAttempt ==
    /\ pc = "acking"
    /\ retries' = retries + 1 /\ pc' = "waiting"
    /\ UNCHANGED <<stored, validKeys, nextKey, setup, decision, sawInvalid>>

\* The ack returns, through FleetAuthRoundTripper, with what the server says
\* of the key now; the operation's switch decides whether backoff.Retry
\* tries again (after the constant 1 s interval) and, when it returns,
\* shouldFleetEnroll's switch decides.
AckResponse ==
    /\ pc = "waiting"
    /\ UNCHANGED <<validKeys, nextKey, setup, retries>>
    /\ \E r \in AckResponses(stored.apiKey) :
          /\ sawInvalid' = (sawInvalid \/ r = "invalid")
          /\ CASE r = "ok" -> ProbeSucceeded
               [] IsPermanent(r, retries) ->
                    /\ Return(IF r = "invalid" THEN "enroll" ELSE "error")
                    /\ UNCHANGED stored
               [] OTHER -> pc' = "acking" /\ UNCHANGED <<stored, decision>>

\* runContainerCmd when enrollment is needed: fetch a token from Kibana if
\* none is set, run the enroll subcommand, then run the agent.  The enroll
\* command writes a fresh configuration and the server issues a new key;
\* any failure makes the container exit.
Enroll ==
    /\ pc = "enrolling"
    /\ UNCHANGED <<setup, retries, decision, sawInvalid>>
    /\ \/ pc' = "stopped" /\ UNCHANGED <<stored, validKeys, nextKey>>
       \/ /\ nextKey < MaxKeys
          /\ \E tok \in (IF setup.token # Empty THEN {setup.token} ELSE Tokens),
                id \in (IF setup.id # Empty THEN {setup.id} ELSE Ids) :
                stored' = [id |-> id, hosts |-> {setup.url}, enrollHash |-> tok,
                           replaceHash |-> setup.replace, apiKey |-> nextKey + 1]
          /\ nextKey' = nextKey + 1
          /\ validKeys' = validKeys \cup {nextKey + 1}
          /\ pc' = "running"

\* The container is stopped or killed at any point.
Stop ==
    /\ pc # "stopped"
    /\ pc' = "stopped"
    /\ UNCHANGED <<stored, validKeys, nextKey, setup, retries, decision, sawInvalid>>

\* An administrator un-enrolls the agent in Kibana: its API key is revoked.
Revoke ==
    /\ \E k \in validKeys : validKeys' = validKeys \ {k}
    /\ UNCHANGED <<stored, nextKey, setup, pc, retries, decision, sawInvalid>>

Next == Start \/ ShouldFleetEnroll \/ AckAttempt \/ AckResponse \/ Enroll \/ Stop \/ Revoke

(* shouldFleetEnroll and each ackFleet attempt are steps of the start-up  *)
(* goroutine and are taken once enabled (weak fairness).  An ack is        *)
(* assumed to return, with any answer, as the Fleet client's HTTP          *)
(* transport bounds every request; no answer in particular is assumed.     *)
(* Starting, stopping, enrolling and revoking are left to the environment  *)
(* and get no fairness.                                                    *)
Fairness == WF_vars(ShouldFleetEnroll) /\ WF_vars(AckAttempt) /\ WF_vars(AckResponse)

Spec == Init /\ [][Next]_vars /\ Fairness

-----------------------------------------------------------------------------
TypeOK ==
    /\ stored \in Configs \cup {NoConfig}
    /\ validKeys \subseteq A!Keys
    /\ nextKey \in 0..MaxKeys
    /\ setup \in Setups
    /\ pc \in PCs
    /\ retries \in 0..MaxRetries
    /\ decision \in {"none", "skip", "enroll", "error"}
    /\ sawInvalid \in BOOLEAN

\* Revoked credentials are never ignored: once any probe attempt of this
\* start got ErrInvalidAPIKey, shouldFleetEnroll returns true, not an
\* error after further retries (ackFleet's Permanent on ErrInvalidAPIKey).
InvalidKeyMeansEnroll ==
    sawInvalid /\ decision # "none" => decision = "enroll"

\* Idempotence (spec section 8): after shouldFleetEnroll said "no need" and
\* backfilled the hashes, the same setup passes every local check against
\* what is now on disk, so the next start with it does not re-enroll.
Idempotent ==
    pc = "running" /\ decision = "skip" /\ setup.enroll
        => ~LocalMismatch(setup, stored)

\* The multi-step decision implements the one-step contract of
\* EnrollDecision: it never enrolls without a reason the contract names,
\* never skips with a revoked key, and never rewrites an existing hash.
Refines == A!ASpec

\* Every start that reaches shouldFleetEnroll gets its answer: the ack probe
\* stops after its third attempt whatever the server answers, so the
\* container goes on to enroll, to run, or to exit with the error, and is
\* never left retrying while the server is down.
DecisionReached ==
    pc = "deciding" ~> pc \in {"enrolling", "running", "stopped"}

=============================================================================
