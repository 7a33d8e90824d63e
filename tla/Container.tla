------------------------------ MODULE Container ------------------------------
(***************************************************************************)
(* The container as a whole (internal/pkg/agent/cmd/container.go): the     *)
(* start-up path of ContainerStart, whose setPaths step is the one of      *)
(* ContainerPaths for the "start" process, commands run with docker exec   *)
(* while the container runs, and the container started again on the same *)
(* volume after it ended, for any reason.                                  *)
(*                                                                         *)
(* The two components share the setPaths step: the start-up path waits at *)
(* "setPaths" while ContainerPaths' start process runs it; a failure there *)
(* ends containerCmd, and whenever containerCmd ends its process is gone.  *)
(***************************************************************************)
EXTENDS Naturals

CONSTANTS Cfgs

VARIABLES
    cfg, pc, runAgent, svcToken, token, args, apm, watcher, wg, sigterm,
    base, pathsFile,
    procs   \* ContainerPaths' pc: where the start and the exec processes are

S == INSTANCE ContainerStart
P == INSTANCE ContainerPaths WITH pc <- procs

startVars == <<cfg, pc, runAgent, svcToken, token, args, apm, watcher, wg, sigterm>>
pathVars == <<base, pathsFile, procs>>
vars == <<startVars, pathVars>>

\* When containerCmd ends, the start process has stopped.
StartEndsWith(p) ==
    procs' = IF p = "exited" THEN [procs EXCEPT !["start"] = "stopped"] ELSE procs

-----------------------------------------------------------------------------
Init == S!Init /\ P!Init

\* logContainerCmd, then containerCmd enters setPaths.
LogContainerCmd ==
    /\ S!LogContainerCmd
    /\ IF pc' = "setPaths" THEN P!Start("start") ELSE UNCHANGED pathVars

\* One step of setPaths in the start process; its failure is containerCmd's.
SetPathsStep ==
    /\ pc = "setPaths"
    /\ \/ P!SetPaths("start") \/ P!CopyFile("start") \/ P!Dirs("start")
       \/ P!WritePaths
    /\ pc' = IF procs'["start"] = "stopped" THEN "exited" ELSE pc
    /\ UNCHANGED <<cfg, runAgent, svcToken, token, args, apm, watcher, wg, sigterm>>

\* The rest of containerCmd, once setPaths returned nil.
LoadConfig ==
    /\ procs["start"] = "started"
    /\ S!LoadConfig
    /\ StartEndsWith(pc') /\ UNCHANGED <<base, pathsFile>>

\* Any other step of the start-up path or of the APM goroutine.
StartStep(A) == A /\ StartEndsWith(pc') /\ UNCHANGED <<base, pathsFile>>

\* docker exec runs a command in the running container; its steps.
ExecStep ==
    /\ UNCHANGED startVars
    /\ \/ pc # "exited" /\ P!Start("exec")
       \/ P!TryContainerLoadPaths
       \/ P!SetPaths("exec") \/ P!CopyFile("exec") \/ P!Dirs("exec")
       \/ P!Crash("exec")

\* The container is killed (docker kill, out of memory): every process in
\* it stops where it is.
ContainerKilled ==
    /\ pc # "exited"
    /\ pc' = "exited"
    /\ apm' = IF apm = "running" THEN "stopped" ELSE apm
    /\ procs' = [q \in P!Procs |-> "stopped"]
    /\ UNCHANGED <<cfg, runAgent, svcToken, token, args, watcher, wg, sigterm, base, pathsFile>>

\* The container ended and its exec processes with it; it is started again
\* on the same volume and with the same environment (a restart policy, or
\* docker restart).
Restart ==
    /\ pc = "exited"
    /\ pc' = "log" /\ runAgent' = FALSE
    /\ svcToken' = S!InitialSvc(cfg)
    /\ token' = IF cfg.enrollToken THEN "set" ELSE "empty"
    /\ args' = {} /\ apm' = "none" /\ watcher' = "none" /\ wg' = 0
    /\ sigterm' = FALSE
    /\ procs' = [q \in P!Procs |-> "stopped"]
    /\ UNCHANGED <<cfg, base, pathsFile>>

Next ==
    \/ LogContainerCmd \/ SetPathsStep \/ LoadConfig
    \/ StartStep(S!StartApm) \/ StartStep(S!EnsureServiceToken) \/ StartStep(S!Decide)
    \/ StartStep(S!FetchToken) \/ StartStep(S!Enroll) \/ StartStep(S!RunStops)
    \/ StartStep(S!RunFails) \/ StartStep(S!WaitReturns) \/ StartStep(S!Killed)
    \/ StartStep(S!ApmExits) \/ StartStep(S!WatcherDone) \/ StartStep(S!WatcherSignals)
    \/ StartStep(S!DockerStop)
    \/ ExecStep \/ ContainerKilled \/ Restart

(* The code's own steps are weakly fair, as in ContainerStart; the exec    *)
(* commands, the kill and the restart are the environment's and get none. *)
Fairness ==
    /\ WF_vars(LogContainerCmd) /\ WF_vars(SetPathsStep) /\ WF_vars(LoadConfig)
    /\ WF_vars(StartStep(S!StartApm)) /\ WF_vars(StartStep(S!EnsureServiceToken))
    /\ WF_vars(StartStep(S!Decide)) /\ WF_vars(StartStep(S!FetchToken))
    /\ WF_vars(StartStep(S!Enroll)) /\ WF_vars(StartStep(S!RunStops))
    /\ WF_vars(StartStep(S!WaitReturns)) /\ WF_vars(StartStep(S!Killed))
    /\ WF_vars(StartStep(S!WatcherDone)) /\ WF_vars(StartStep(S!WatcherSignals))

Spec == Init /\ [][Next]_vars /\ Fairness

-----------------------------------------------------------------------------
TypeOK ==
    /\ S!TypeOK
    /\ base \in {"absent", "torn", "whole"}
    /\ pathsFile \in {"absent", "empty", "whole"}
    /\ procs \in [P!Procs -> {"stopped", "load", "setPaths", "copying", "dirs",
                              "writing", "started", "defaults"}]

\* When the legacy APM Server exits, the container ends: the goroutine's
\* wg.Done() and SIGTERM reach containerCmd wherever it is.
ApmExitEndsContainer == S!ApmExitEndsContainer

\* Past setPaths, while the agent starts and runs, container-paths.yml is
\* complete on the volume, so that a docker exec command loads the paths
\* this start chose, whatever a killed earlier start left behind.
AgentRunsWithPathsFile ==
    pc \in {"apm", "svctoken", "decide", "fetch", "enroll", "run", "wait"}
        => pathsFile = "whole"

=============================================================================
