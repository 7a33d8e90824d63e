--------------------------- MODULE EnrollDecision ---------------------------
(***************************************************************************)
(* Abstract specification of the container start-up of a Fleet-managed    *)
(* agent: on every start the agent decides, in ONE atomic step, whether it *)
(* must (re-)enroll, as promised by the decision tree of spec section 4.5, *)
(* then enrolls or runs.  Stored identity, the Fleet server's set of valid *)
(* API keys and the operator's setup configuration are its state.          *)
(*                                                                         *)
(* FleetEnroll (the code's multi-step decision with its retried probe) is *)
(* shown to implement this module.                                         *)
(***************************************************************************)
EXTENDS Naturals, FiniteSets

CONSTANTS
    Ids,      \* agent identities that can be requested or assigned
    URLs,     \* Fleet URLs an operator can configure
    Tokens,   \* enrollment / replace tokens (a stored hash is the token it verifies)
    Empty,    \* the empty string: no id, no token, no hash
    NoConfig, \* no agent configuration file on disk
    MaxKeys   \* API keys the Fleet server can issue in one behaviour

ASSUME /\ Empty \notin Ids \cup URLs \cup Tokens
       /\ MaxKeys \in Nat \ {0}

Keys == 1..MaxKeys

\* The setup configuration read from the environment at container start.
Setups == [enroll: BOOLEAN, force: BOOLEAN, id: Ids \cup {Empty},
           url: URLs, token: Tokens \cup {Empty}, replace: Tokens \cup {Empty}]

\* The persisted agent configuration (fleet.enc) as far as enrollment reads it.
Configs == [id: Ids, hosts: SUBSET URLs, enrollHash: Tokens \cup {Empty},
            replaceHash: Tokens \cup {Empty}, apiKey: Keys]

Phases == {"stopped", "deciding", "enrolling", "running"}

VARIABLES stored, validKeys, nextKey, setup, phase, decision
avars == <<stored, validKeys, nextKey, setup, phase, decision>>

-----------------------------------------------------------------------------
(* The contract.  Local reasons to enroll are judged against the stored    *)
(* record; only when there is none does the server's view of the key       *)
(* decide.                                                                 *)
LocalReason(s, st) ==
    \/ s.force
    \/ st = NoConfig
    \/ s.id # Empty /\ s.id # st.id
    \/ s.url \notin st.hosts
    \/ \E h \in {<<st.enrollHash, s.token>>, <<st.replaceHash, s.replace>>} :
           h[1] # Empty /\ h[2] # Empty /\ h[1] # h[2]

\* After a successful validation every hash the record lacks is filled in
\* from the requested token; no existing hash is replaced.
Completed(st, s) ==
    [st EXCEPT !.enrollHash  = IF @ = Empty THEN s.token ELSE @,
               !.replaceHash = IF @ = Empty THEN s.replace ELSE @]

\* A failure is allowed only once a record exists and must be read.
MayFail(s) == s.enroll /\ ~s.force /\ stored # NoConfig

AInit ==
    /\ \/ /\ stored = NoConfig /\ validKeys = {} /\ nextKey = 0
       \/ /\ stored \in [id: Ids, hosts: {{u} : u \in URLs},
                         enrollHash: Tokens \cup {Empty},
                         replaceHash: {Empty}, apiKey: {1}]
          /\ validKeys = {1} /\ nextKey = 1
    /\ setup \in Setups
    /\ phase = "stopped"
    /\ decision = "none"

AStart ==
    /\ phase = "stopped"
    /\ setup' \in Setups
    /\ phase' = "deciding" /\ decision' = "none"
    /\ UNCHANGED <<stored, validKeys, nextKey>>

ADecide ==
    /\ phase = "deciding"
    /\ UNCHANGED <<validKeys, nextKey, setup>>
    /\ \/ /\ ~setup.enroll
          /\ decision' = "skip" /\ phase' = "running" /\ UNCHANGED stored
       \/ /\ setup.enroll
          /\ \/ LocalReason(setup, stored)
             \/ stored.apiKey \notin validKeys
          /\ decision' = "enroll" /\ phase' = "enrolling" /\ UNCHANGED stored
       \/ /\ setup.enroll
          /\ ~LocalReason(setup, stored)
          /\ stored.apiKey \in validKeys
          /\ stored' = Completed(stored, setup)
          /\ decision' = "skip" /\ phase' = "running"
       \/ /\ MayFail(setup)
          /\ decision' = "error" /\ phase' = "stopped" /\ UNCHANGED stored

\* Enrollment writes a fresh record for the setup and the server issues a key.
AEnroll ==
    /\ phase = "enrolling"
    /\ UNCHANGED <<setup, decision>>
    /\ \/ phase' = "stopped" /\ UNCHANGED <<stored, validKeys, nextKey>>
       \/ /\ nextKey < MaxKeys
          /\ \E tok \in (IF setup.token # Empty THEN {setup.token} ELSE Tokens),
                id \in (IF setup.id # Empty THEN {setup.id} ELSE Ids) :
                stored' = [id |-> id, hosts |-> {setup.url}, enrollHash |-> tok,
                           replaceHash |-> setup.replace, apiKey |-> nextKey + 1]
          /\ nextKey' = nextKey + 1
          /\ validKeys' = validKeys \cup {nextKey + 1}
          /\ phase' = "running"

AStop ==
    /\ phase # "stopped"
    /\ phase' = "stopped"
    /\ UNCHANGED <<stored, validKeys, nextKey, setup, decision>>

ARevoke ==
    /\ \E k \in validKeys : validKeys' = validKeys \ {k}
    /\ UNCHANGED <<stored, nextKey, setup, phase, decision>>

ANext == AStart \/ ADecide \/ AEnroll \/ AStop \/ ARevoke

ASpec == AInit /\ [][ANext]_avars

=============================================================================
