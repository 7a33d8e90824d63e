---------------------------- MODULE ContainerPaths ----------------------------
(***************************************************************************)
(* setPaths(..., writePaths = true) as containerCmd calls it on every      *)
(* container start (internal/pkg/agent/cmd/container.go): create the       *)
(* config and state directories, copy the default elastic-agent.yml into   *)
(* the config path when none is there (copyFile), create the log           *)
(* directories, and persist the paths in container-paths.yml               *)
(* (writeContainerPaths).  The files live on a volume that survives the    *)
(* container, which can be killed at any point and started again.         *)
(* A command run in the same container (docker exec elastic-agent ...)    *)
(* calls tryContainerLoadPaths, which, when container-paths.yml exists,    *)
(* loads it and calls setPaths(..., writePaths = false): it may copy       *)
(* elastic-agent.yml at the same time as the start.                        *)
(***************************************************************************)
EXTENDS Naturals

Procs == {"start", "exec"}   \* containerCmd, and a command run with docker exec

VARIABLES
    base,       \* elastic-agent.yml in the config path: absent, torn or whole
    pathsFile,  \* container-paths.yml in the state path: absent, empty or whole
    pc          \* pc[p]: where process p is

vars == <<base, pathsFile, pc>>

-----------------------------------------------------------------------------
\* A fresh volume, or one a previous container completed (setPaths writes
\* container-paths.yml after elastic-agent.yml).
Init ==
    /\ \E v \in {"absent", "whole"} : base = v /\ pathsFile = v
    /\ pc = [p \in Procs |-> "stopped"]

\* Process p moves to l.
Goto(p, l) == pc' = [pc EXCEPT ![p] = l]

\* The container starts (containerCmd calls setPaths first), or a command
\* is run in it.
Start(p) ==
    /\ pc[p] = "stopped"
    /\ Goto(p, IF p = "start" THEN "setPaths" ELSE "load")
    /\ UNCHANGED <<base, pathsFile>>

\* tryContainerLoadPaths: no container-paths.yml, nothing to do (the
\* command runs with the default paths, and not setPaths); else
\* config.LoadFile and UnpackTo (an empty file unpacks to empty paths,
\* which setPaths replaces by the environment's) and setPaths.
TryContainerLoadPaths ==
    /\ pc["exec"] = "load"
    /\ UNCHANGED <<base, pathsFile>>
    /\ \/ pathsFile = "absent" /\ Goto("exec", "defaults")
       \/ pathsFile # "absent" /\ Goto("exec", "setPaths")
       \/ pathsFile # "absent" /\ Goto("exec", "stopped")   \* load or unpack fails

\* setPaths up to the copy: MkdirAll of the config and data directories,
\* then os.Stat of elastic-agent.yml; when it does not exist copyFile
\* opens the source and creates the destination (O_CREATE|O_WRONLY).
SetPaths(p) ==
    /\ pc[p] = "setPaths"
    /\ UNCHANGED pathsFile
    /\ \/ Goto(p, "stopped") /\ UNCHANGED base       \* MkdirAll or os.Open fails
       \/ base = "absent" /\ base' = "torn" /\ Goto(p, "copying")
       \/ base # "absent" /\ Goto(p, "dirs") /\ UNCHANGED base

\* copyFile's io.Copy; two copies write the same bytes from offset 0, so
\* the one that completes leaves the file whole.
CopyFile(p) ==
    /\ pc[p] = "copying"
    /\ UNCHANGED pathsFile
    /\ \/ Goto(p, "stopped") /\ UNCHANGED base       \* OpenFile or io.Copy fails
       \/ base' = "whole" /\ Goto(p, "dirs")

\* The paths package is set, LOGS_PATH and the internal log directory are
\* created; with writePaths, writeContainerPaths creates (truncates)
\* container-paths.yml.
Dirs(p) ==
    /\ pc[p] = "dirs"
    /\ UNCHANGED base
    /\ \/ Goto(p, "stopped") /\ UNCHANGED pathsFile  \* MkdirAll or os.Create fails
       \/ p = "start" /\ pathsFile' = "empty" /\ Goto(p, "writing")
       \/ p = "exec" /\ Goto(p, "started") /\ UNCHANGED pathsFile

\* Plausible bug: the error of the write is ignored.
WritePathsIgnoresError ==
    /\ pc["start"] = "writing"
    /\ UNCHANGED base
    /\ Goto("start", "started")
    /\ pathsFile' \in {"empty", "whole"}

\* writeContainerPaths: yaml.Marshal and fp.Write; an error is returned and
\* containerCmd exits.
WritePaths ==
    /\ pc["start"] = "writing"
    /\ UNCHANGED base
    /\ \/ Goto("start", "stopped") /\ UNCHANGED pathsFile
       \/ pathsFile' = "whole" /\ Goto("start", "started")

\* A process is killed or ends at any point; the files stay as they are.
Crash(p) ==
    /\ pc[p] # "stopped"
    /\ Goto(p, "stopped")
    /\ UNCHANGED <<base, pathsFile>>

Next ==
    \/ TryContainerLoadPaths \/ WritePaths
    \/ \E p \in Procs : Start(p) \/ SetPaths(p) \/ CopyFile(p) \/ Dirs(p) \/ Crash(p)

Spec == Init /\ [][Next]_vars

-----------------------------------------------------------------------------
\* Once setPaths returned nil, the agent, or the command, reads a complete
\* elastic-agent.yml ("ensure that the elastic-agent.yml exists"), whatever
\* earlier starts left behind.
StartedWithWholeConfig == \A p \in Procs : pc[p] = "started" => base = "whole"

=============================================================================
