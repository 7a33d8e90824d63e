----------------------------- MODULE KibanaFetch -----------------------------
(***************************************************************************)
(* The enrollment-token lookup of runContainerCmd when no token is set and *)
(* Fleet Server is not enabled (internal/pkg/agent/cmd/container.go):      *)
(* kibanaFetchPolicy then kibanaFetchToken, each GET made by performGET,   *)
(* which retries a failed request up to RetryMaxCount times.  Kibana may   *)
(* fail any request.                                                       *)
(***************************************************************************)
EXTENDS Naturals, SequencesExt

CONSTANTS
    Policies,      \* the policies Kibana lists, in its order
    Keys,          \* the enrollment API keys Kibana lists, in its order
    Cfgs,          \* setup configurations: policyName, tokenName, fleetServer, policyID
    Empty,         \* the empty string
    None,          \* "not found"
    RetryMaxCount  \* KIBANA_REQUEST_RETRY_COUNT

ASSUME RetryMaxCount \in Nat

VARIABLES cfg,      \* the setup configuration
          step,     \* which GET is in progress, or where the lookup ended
          attempt,  \* performGET's loop index
          policy,   \* the policy kibanaFetchPolicy selected
          key,      \* the key findKey selected
          token     \* the token runContainerCmd passes to buildEnrollArgs

vars == <<cfg, step, attempt, policy, key, token>>

Fetching == {"policies", "keys", "detail"}

-----------------------------------------------------------------------------
\* findPolicy: the first policy matching the configured criterion.
FindPolicy(c, items) ==
    LET policyID == IF c.fleetServer THEN c.policyID ELSE Empty
        Match(p) == CASE policyID # Empty      -> p.id = policyID
                      [] c.policyName # Empty -> p.name = c.policyName
                      [] c.fleetServer         -> p.isDefaultFleetServer
                      [] OTHER                 -> p.isDefault
        i == SelectInSeq(items, Match)
    IN IF i = 0 THEN None ELSE items[i]

\* tokenNameStrip + TrimSpace: the " (<uuid>)" suffix Fleet appends is removed.
StripName(name) == name.base

\* findKey: the first key of the policy whose stripped name is tokenName.
FindKey(items, p, tokenName) ==
    LET i == SelectInSeq(items, LAMBDA k : StripName(k.name) = tokenName
                                           /\ k.policyID = p.id)
    IN IF i = 0 THEN None ELSE items[i]

\* What Kibana answers to the GET of each step.
Body(s) == CASE s = "policies" -> Policies
             [] s = "keys"     -> Keys
             [] s = "detail"   -> key

\* The zero value the response variable keeps when no GET succeeded.
ZeroBody(s) == CASE s = "policies" -> <<>>
                 [] s = "keys"     -> <<>>
                 [] s = "detail"   -> [apiKey |-> Empty]

\* performGET returned, with the decoded body; the caller goes on with it.
Continue(body) ==
    CASE step = "policies" ->
           LET p == FindPolicy(cfg, body) IN
           /\ IF p = None THEN step' = "failed" /\ UNCHANGED policy
                          ELSE step' = "keys" /\ policy' = p
           /\ attempt' = 0 /\ UNCHANGED <<key, token>>
      [] step = "keys" ->
           LET k == FindKey(body, policy, cfg.tokenName) IN
           /\ IF k = None THEN step' = "failed" /\ UNCHANGED key
                          ELSE step' = "detail" /\ key' = k
           /\ attempt' = 0 /\ UNCHANGED <<policy, token>>
      [] step = "detail" ->
           /\ token' = body.apiKey
           /\ step' = "enroll"
           /\ UNCHANGED <<attempt, policy, key>>

-----------------------------------------------------------------------------
Init ==
    /\ cfg \in Cfgs
    /\ step = "policies"
    /\ attempt = 0
    /\ policy = None /\ key = None /\ token = Empty

\* performGET: the request fails or answers non-200; log, sleep, retry.
GetFails ==
    /\ step \in Fetching
    /\ attempt < RetryMaxCount
    /\ attempt' = attempt + 1
    /\ UNCHANGED <<cfg, step, policy, key, token>>

\* performGET: a 200 answer is decoded into the response; a json.Unmarshal
\* error is returned, and the caller returns it.
GetSucceeds ==
    /\ step \in Fetching
    /\ attempt < RetryMaxCount
    /\ \/ Continue(Body(step))
       \/ step' = "failed" /\ UNCHANGED <<attempt, policy, key, token>>
    /\ UNCHANGED cfg

\* performGET: the loop ends and it returns lastErr, which nothing assigned.
GetGivesUp ==
    /\ step \in Fetching
    /\ attempt = RetryMaxCount
    /\ Continue(ZeroBody(step))
    /\ UNCHANGED cfg

Next == GetFails \/ GetSucceeds \/ GetGivesUp

Spec == Init /\ [][Next]_vars

-----------------------------------------------------------------------------
TypeOK ==
    /\ cfg \in Cfgs
    /\ step \in Fetching \cup {"failed", "enroll"}
    /\ attempt \in 0..RetryMaxCount

\* A lookup that reaches the enroll command hands it the secret of the key
\* it selected: a Kibana outage ends in an error (spec section 7: transient
\* errors are retried a bounded number of times, then propagated), never
\* in an enrollment without a token.
TokenIsKeySecret ==
    step = "enroll" => token = key.apiKey

=============================================================================
