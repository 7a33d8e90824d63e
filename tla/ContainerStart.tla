---------------------------- MODULE ContainerStart ----------------------------
(***************************************************************************)
(* The container command of the agent (internal/pkg/agent/cmd/container.go)*)
(* as a process: containerCmd sets the paths, reads the setup              *)
(* configuration, in Elastic Cloud mode may start the legacy APM Server    *)
(* with a goroutine that waits for it, then calls wg.Done() and sends      *)
(* SIGTERM to the agent; runContainerCmd obtains a service token (Fleet    *)
(* Server mode), decides, fetches an enrollment token, runs enroll and     *)
(* then the agent until SIGTERM; containerCmd then waits for the APM       *)
(* Server (wg.Wait) and, deferred, stops it.                               *)
(*                                                                         *)
(* shouldFleetEnroll is modelled in FleetEnroll and the Kibana lookup in   *)
(* KibanaFetch; here each is one step with the outcomes those modules     *)
(* show.  The APM Server may exit at any time, and docker stop sends one   *)
(* SIGTERM to the agent (PID 1) only.                                      *)
(***************************************************************************)
EXTENDS Naturals

CONSTANTS Cfgs   \* setup configurations, as far as the start-up path reads them

(* A configuration: ELASTIC_AGENT_CLOUD, APM_SERVER_PATH set, fleet-setup  *)
(* or credentials file present, FLEET_SERVER_ENABLE, the first service-    *)
(* token source ensureServiceToken finds (the Fleet Server's token, the   *)
(* Kibana one only, the Fleet Server's or Kibana's token path, username    *)
(* and password, none), FLEET_ENROLLMENT_TOKEN set, FLEET_URL set.         *)
ASSUME Cfgs \subseteq [cloud: BOOLEAN, apmPath: BOOLEAN, configFiles: BOOLEAN,
                       fleetServer: BOOLEAN,
                       svc: {"token", "kbToken", "esPath", "kbPath", "userpass", "none"},
                       enrollToken: BOOLEAN, url: BOOLEAN]

VARIABLES
    cfg,       \* the setup configuration
    pc,        \* where the main goroutine is
    runAgent,  \* containerCmd's runAgent
    svcToken,  \* which of ServiceToken ("value") and ServiceTokenPath ("path") are set
    token,     \* the enrollment token runContainerCmd passes to buildEnrollArgs
    args,      \* the credential and destination flags of the enroll command run
    apm,       \* the legacy APM Server process
    watcher,   \* the goroutine waiting for the APM Server
    wg,        \* containerCmd's WaitGroup counter
    sigterm    \* a SIGTERM is pending for the agent process

vars == <<cfg, pc, runAgent, svcToken, token, args, apm, watcher, wg, sigterm>>

-----------------------------------------------------------------------------
\* The flags of buildEnrollArgs that carry credentials and destination;
\* paths, tags, certificates and timeouts are left out.
EnrollArgs(c, svc, tok) ==
    (IF c.fleetServer
     THEN {"--fleet-server-es"}
          \cup (IF "path" \in svc THEN {"--fleet-server-service-token-path"}
                ELSE IF "value" \in svc THEN {"--fleet-server-service-token"}
                ELSE {})
          \cup (IF c.url THEN {"--url"} ELSE {})
     ELSE {"--url"})
    \cup (IF tok = "set" THEN {"--enrollment-token"} ELSE {})

\* buildEnrollArgs fails without FLEET_URL unless Fleet Server is enabled.
EnrollArgsError(c) == ~c.fleetServer /\ ~c.url

\* The Fleet Server's service token sources (FleetServer.Elasticsearch's
\* ServiceToken and ServiceTokenPath) set in the configuration as read.
InitialSvc(c) == CASE c.svc = "token"  -> {"value"}
                   [] c.svc = "esPath" -> {"path"}
                   [] OTHER            -> {}

\* Where runContainerCmd starts, given runAgent.
AgentEntry(ra) == CASE ~ra            -> "wait"
                    [] cfg.fleetServer -> "svctoken"
                    [] OTHER           -> "decide"

\* runContainerCmd returned an error: containerCmd goes on to wg.Wait().
Fail == pc' = "wait"

-----------------------------------------------------------------------------
Init ==
    /\ cfg \in Cfgs
    /\ pc = "log"
    /\ runAgent = FALSE
    /\ svcToken = InitialSvc(cfg)
    /\ token = IF cfg.enrollToken THEN "set" ELSE "empty"
    /\ args = {}
    /\ apm = "none" /\ watcher = "none" /\ wg = 0
    /\ sigterm = FALSE

\* The command's Run, logContainerCmd: with LOGS_PATH set, MkdirAll and
\* os.Create of elastic-agent-startup.log, whose failure is logged and ends
\* the process with os.Exit(1); then containerCmd.
LogContainerCmd ==
    /\ pc = "log"
    /\ pc' \in {"exited", "setPaths"}
    /\ UNCHANGED <<cfg, runAgent, svcToken, token, args, apm, watcher, wg, sigterm>>

\* setPaths, defaultAccessConfig, then fleet-setup.yml and credentials.yml.
LoadConfig ==
    /\ pc = "setPaths"
    /\ UNCHANGED <<cfg, svcToken, token, args, apm, watcher, wg, sigterm>>
    /\ \/ pc' = "exited" /\ UNCHANGED runAgent     \* any of them fails
       \/ /\ runAgent' = (~cfg.cloud \/ cfg.configFiles)
          /\ pc' = IF cfg.cloud /\ cfg.apmPath THEN "apm" ELSE AgentEntry(runAgent')

\* runLegacyAPMServer: the platform detail, the runtime specs and the apm
\* input spec are loaded, and the binary is started with the path flags the
\* environment sets; any of these fails, or the process runs.
RunLegacyAPMServer == {"failed", "running"}

\* os.FindProcess and runLegacyAPMServer; on success wg.Add(1), the
\* goroutine, and the deferred apmProc.Stop.
StartApm ==
    /\ pc = "apm"
    /\ UNCHANGED <<cfg, runAgent, svcToken, token, args, sigterm>>
    /\ \E r \in RunLegacyAPMServer :
          \/ r = "failed" /\ pc' = "exited" /\ UNCHANGED <<apm, watcher, wg>>
          \/ /\ r = "running"
             /\ apm' = "running" /\ watcher' = "waiting" /\ wg' = 1
             /\ pc' = AgentEntry(runAgent)

\* ensureServiceToken: keep a token that is set, the Kibana one or the
\* Fleet Server's ("There's already a service token"); else read the Fleet
\* Server then the Kibana token path; else request a token from Kibana with
\* username/password.  A read, request, status >= 400 or decode failure,
\* or no username/password, is an error.
EnsureServiceToken ==
    /\ pc = "svctoken"
    /\ UNCHANGED <<cfg, runAgent, token, args, apm, watcher, wg, sigterm>>
    /\ CASE cfg.svc \in {"token", "kbToken"} -> pc' = "decide" /\ UNCHANGED svcToken
         [] cfg.svc = "esPath" ->
              \/ pc' = "decide" /\ svcToken' = {"value", "path"}
              \/ Fail /\ UNCHANGED svcToken
         [] cfg.svc \in {"kbPath", "userpass"} ->
              \/ pc' = "decide" /\ svcToken' = {"value"}
              \/ Fail /\ UNCHANGED svcToken
         [] cfg.svc = "none" -> Fail /\ UNCHANGED svcToken

\* shouldFleetEnroll (FleetEnroll): skip, enroll, or an error.
Decide ==
    /\ pc = "decide"
    /\ UNCHANGED <<cfg, runAgent, svcToken, token, args, apm, watcher, wg, sigterm>>
    /\ \/ pc' = "run"
       \/ pc' = IF token = "empty" /\ ~cfg.fleetServer THEN "fetch" ELSE "enroll"
       \/ Fail

\* kibanaClient, kibanaFetchPolicy, kibanaFetchToken (KibanaFetch): an
\* error, the key's secret, or the empty token performGET's nil lastErr
\* lets through.
FetchToken ==
    /\ pc = "fetch"
    /\ UNCHANGED <<cfg, runAgent, svcToken, args, apm, watcher, wg, sigterm>>
    /\ \/ Fail /\ UNCHANGED token
       \/ pc' = "enroll" /\ token' \in {"set", "empty"}

\* os.Executable, buildEnrollArgs, then the enroll command is started and
\* waited for; any failure is returned.
Enroll ==
    /\ pc = "enroll"
    /\ UNCHANGED <<cfg, runAgent, svcToken, token, apm, watcher, wg, sigterm>>
    /\ \/ Fail /\ UNCHANGED args
       \/ /\ ~EnrollArgsError(cfg)
          /\ args' = EnrollArgs(cfg, svcToken, token)
          /\ pc' = "run"

\* run() handles a pending SIGTERM: the agent shuts down and returns.
RunStops ==
    /\ pc = "run" /\ sigterm
    /\ pc' = "wait" /\ sigterm' = FALSE
    /\ UNCHANGED <<cfg, runAgent, svcToken, token, args, apm, watcher, wg>>

\* run() returns an error of its own.
RunFails ==
    /\ pc = "run"
    /\ Fail
    /\ UNCHANGED <<cfg, runAgent, svcToken, token, args, apm, watcher, wg, sigterm>>

\* wg.Wait() returns; containerCmd returns and the deferred apmProc.Stop
\* stops the APM Server if it still runs.
WaitReturns ==
    /\ pc = "wait" /\ wg = 0
    /\ pc' = "exited"
    /\ apm' = IF apm = "running" THEN "stopped" ELSE apm
    /\ UNCHANGED <<cfg, runAgent, svcToken, token, args, watcher, wg, sigterm>>

\* A SIGTERM outside run() ends the process (Go's default disposition).
Killed ==
    /\ sigterm /\ pc \notin {"run", "exited"}
    /\ pc' = "exited" /\ sigterm' = FALSE
    /\ UNCHANGED <<cfg, runAgent, svcToken, token, args, apm, watcher, wg>>

-----------------------------------------------------------------------------
\* The APM Server exits by itself, with status 0 or not.
ApmExits ==
    /\ apm = "running"
    /\ apm' \in {"exitedOk", "exitedErr"}
    /\ UNCHANGED <<cfg, pc, runAgent, svcToken, token, args, watcher, wg, sigterm>>

\* Plausible bug: the goroutine returns on a failed APM Server before
\* wg.Done() and the signal.
WatcherReturnsOnError ==
    /\ watcher = "waiting" /\ apm \in {"exitedOk", "exitedErr", "stopped"}
    /\ IF apm = "exitedErr"
       THEN watcher' = "signalled" /\ UNCHANGED wg
       ELSE watcher' = "done" /\ wg' = wg - 1
    /\ UNCHANGED <<cfg, pc, runAgent, svcToken, token, args, apm, sigterm>>

\* Plausible bug: a deferred wg.Done() added beside the explicit one.
WatcherDoubleDone ==
    /\ watcher = "waiting" /\ apm \in {"exitedOk", "exitedErr", "stopped"}
    /\ watcher' = "done" /\ wg' = wg - 2
    /\ UNCHANGED <<cfg, pc, runAgent, svcToken, token, args, apm, sigterm>>

\* The goroutine: apmProc.Process.Wait() returns, a failure is logged, and
\* wg.Done() is called.
WatcherDone ==
    /\ watcher = "waiting" /\ apm \in {"exitedOk", "exitedErr", "stopped"}
    /\ watcher' = "done" /\ wg' = wg - 1
    /\ UNCHANGED <<cfg, pc, runAgent, svcToken, token, args, apm, sigterm>>

\* The goroutine then sends SIGTERM to the agent process.
WatcherSignals ==
    /\ watcher = "done"
    /\ watcher' = "signalled"
    /\ sigterm' = (pc # "exited")
    /\ UNCHANGED <<cfg, pc, runAgent, svcToken, token, args, apm, wg>>

\* docker stop: one SIGTERM to the agent, PID 1, and not to the APM Server.
DockerStop ==
    /\ pc \notin {"exited"} /\ ~sigterm
    /\ sigterm' = TRUE
    /\ UNCHANGED <<cfg, pc, runAgent, svcToken, token, args, apm, watcher, wg>>

Next ==
    \/ LogContainerCmd \/ LoadConfig \/ StartApm \/ EnsureServiceToken \/ Decide \/ FetchToken
    \/ Enroll \/ RunStops \/ RunFails \/ WaitReturns \/ Killed
    \/ ApmExits \/ WatcherDone \/ WatcherSignals \/ DockerStop

(* Every step of the agent's own code, and of the APM goroutine, is taken  *)
(* once enabled (weak fairness): they are runnable goroutines and the      *)
(* network calls among them are bounded by retries and timeouts.  The APM  *)
(* Server exiting, run() failing and docker stop are the environment's     *)
(* choice and get no fairness.                                             *)
Fairness ==
    /\ WF_vars(LogContainerCmd) /\ WF_vars(LoadConfig) /\ WF_vars(StartApm) /\ WF_vars(EnsureServiceToken)
    /\ WF_vars(Decide) /\ WF_vars(FetchToken) /\ WF_vars(Enroll)
    /\ WF_vars(RunStops) /\ WF_vars(WaitReturns) /\ WF_vars(Killed)
    /\ WF_vars(WatcherDone) /\ WF_vars(WatcherSignals)

Spec == Init /\ [][Next]_vars /\ Fairness

-----------------------------------------------------------------------------
TypeOK ==
    /\ cfg \in Cfgs
    /\ pc \in {"log", "setPaths", "apm", "svctoken", "decide", "fetch", "enroll",
              "run", "wait", "exited"}
    /\ runAgent \in BOOLEAN
    /\ svcToken \subseteq {"value", "path"}
    /\ token \in {"set", "empty"}
    /\ apm \in {"none", "running", "exitedOk", "exitedErr", "stopped"}
    /\ watcher \in {"none", "waiting", "done", "signalled"}
    /\ wg \in 0..1
    /\ sigterm \in BOOLEAN

\* In Fleet Server mode the enroll command always gets a service token or
\* its path: ensureServiceToken either fills one in from the configured
\* sources or Kibana, or fails the start before enroll runs.
FleetServerEnrollHasServiceToken ==
    args # {} /\ cfg.fleetServer =>
        args \cap {"--fleet-server-service-token",
                   "--fleet-server-service-token-path"} # {}

\* When the legacy APM Server stops, for any reason, the container ends:
\* its goroutine releases wg.Wait() and SIGTERMs the agent wherever the
\* main goroutine is.
ApmExitEndsContainer ==
    (apm \in {"exitedOk", "exitedErr"}) ~> (pc = "exited")

\* Once the agent side is done (run() returned after a SIGTERM, or any step
\* of runContainerCmd failed), containerCmd returns and its deferred
\* apmProc.Stop shuts the legacy APM Server down.
AgentDoneMeansExit ==
    (pc = "wait" /\ runAgent) ~> (pc = "exited")

=============================================================================
