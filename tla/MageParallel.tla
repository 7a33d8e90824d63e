----------------------------- MODULE MageParallel -----------------------------
(***************************************************************************)
(* ParallelCtx of dev-tools/mage/common.go: every function is run in its  *)
(* own goroutine; a goroutine takes a slot of the process-wide semaphore   *)
(* parallelJobs() (capacity numParallel()) before it runs its function and *)
(* gives it back in a deferred function that first recovers a panic and    *)
(* calls wg.Done().  Errors and recovered panics are appended to errs      *)
(* under a mutex; after wg.Wait() the caller panics if errs is not empty.  *)
(* A function may itself call ParallelCtx (a nested call), which shares    *)
(* the same semaphore.                                                     *)
(***************************************************************************)
EXTENDS Naturals, FiniteSets

CONSTANTS
    Calls,        \* the ParallelCtx calls of one mage run
    Top,          \* the call made by the mage target itself
    Jobs,         \* the functions passed to those calls
    JobsOf,       \* JobsOf[c]: the functions passed to call c
    NestedOf,     \* NestedOf[j]: the call function j makes, or None
    None,
    MaxParallel   \* numParallel(): MAX_PARALLEL, or the CPU count, at least 1

ASSUME /\ Top \in Calls
       /\ JobsOf \in [Calls -> SUBSET Jobs]
       /\ NestedOf \in [Jobs -> Calls \cup {None}]
       /\ MaxParallel \in Nat \ {0}

VARIABLES
    cpc,      \* cpc[c]: where the caller of ParallelCtx call c is
    wg,       \* wg[c]: the WaitGroup counter of call c
    errs,     \* errs[c]: the functions whose error or panic call c recorded
    jpc,      \* jpc[j]: where the goroutine of function j is
    outcome,  \* outcome[j]: how function j ended
    sem       \* len(parallelJobs()): the slots taken

vars == <<cpc, wg, errs, jpc, outcome, sem>>

Outcomes == {"ok", "err", "panic"}

\* The call that function j was passed to.
CallOf(j) == CHOOSE c \in Calls : j \in JobsOf[c]

Ended(c) == cpc[c] \in {"returned", "panicked"}

-----------------------------------------------------------------------------
\* fw(ctx) returns (or panics) with outcome o; a returned error is appended
\* to errs under mu.
Finish(j, o) ==
    /\ outcome' = [outcome EXCEPT ![j] = o]
    /\ errs' = IF o = "err" THEN [errs EXCEPT ![CallOf(j)] = @ \cup {j}] ELSE errs
    /\ jpc' = [jpc EXCEPT ![j] = "deferred"]

-----------------------------------------------------------------------------
Init ==
    /\ cpc = [c \in Calls |-> IF c = Top THEN "launching" ELSE "idle"]
    /\ wg = [c \in Calls |-> 0]
    /\ errs = [c \in Calls |-> {}]
    /\ jpc = [j \in Jobs |-> "idle"]
    /\ outcome = [j \in Jobs |-> "none"]
    /\ sem = 0

\* The loop of ParallelCtx: wg.Add(1) and a goroutine for every function.
Launch(c) ==
    /\ cpc[c] = "launching"
    /\ wg' = [wg EXCEPT ![c] = Cardinality(JobsOf[c])]
    /\ jpc' = [j \in Jobs |-> IF j \in JobsOf[c] THEN "acquire" ELSE jpc[j]]
    /\ cpc' = [cpc EXCEPT ![c] = "waiting"]
    /\ UNCHANGED <<errs, outcome, sem>>

\* Plausible bug: the semaphore channel is made without a capacity bound.
AcquireUnbounded(j) ==
    /\ jpc[j] = "acquire"
    /\ sem' = sem + 1
    /\ jpc' = [jpc EXCEPT ![j] = "run"]
    /\ UNCHANGED <<cpc, wg, errs, outcome>>

\* parallelJobs() <- 1: blocks while every slot is taken.
Acquire(j) ==
    /\ jpc[j] = "acquire"
    /\ sem < MaxParallel
    /\ sem' = sem + 1
    /\ jpc' = [jpc EXCEPT ![j] = "run"]
    /\ UNCHANGED <<cpc, wg, errs, outcome>>

\* fw(ctx) runs: it ends with an outcome, or makes its nested ParallelCtx call.
Run(j) ==
    /\ jpc[j] = "run"
    /\ UNCHANGED <<wg, sem>>
    /\ \/ /\ NestedOf[j] = None
          /\ \E o \in Outcomes : Finish(j, o)
          /\ UNCHANGED cpc
       \/ /\ NestedOf[j] # None
          /\ cpc' = [cpc EXCEPT ![NestedOf[j]] = "launching"]
          /\ jpc' = [jpc EXCEPT ![j] = "nested"]
          /\ UNCHANGED <<errs, outcome>>

\* The nested ParallelCtx returned to fw, or panicked through it.
NestedReturns(j) ==
    /\ jpc[j] = "nested"
    /\ Ended(NestedOf[j])
    /\ \E o \in IF cpc[NestedOf[j]] = "panicked" THEN {"panic"} ELSE Outcomes :
          Finish(j, o)
    /\ UNCHANGED <<cpc, wg, sem>>

\* Plausible bug: the recovered value is dropped instead of appended.
DeferredNoRecover(j) ==
    /\ jpc[j] = "deferred"
    /\ wg' = [wg EXCEPT ![CallOf(j)] = @ - 1]
    /\ jpc' = [jpc EXCEPT ![j] = "release"]
    /\ UNCHANGED <<cpc, errs, outcome, sem>>

\* The deferred function: recover() a panic into errs under mu, wg.Done().
Deferred(j) ==
    /\ jpc[j] = "deferred"
    /\ errs' = IF outcome[j] = "panic"
               THEN [errs EXCEPT ![CallOf(j)] = @ \cup {j}] ELSE errs
    /\ wg' = [wg EXCEPT ![CallOf(j)] = @ - 1]
    /\ jpc' = [jpc EXCEPT ![j] = "release"]
    /\ UNCHANGED <<cpc, outcome, sem>>

\* Plausible bug: the slot is given back after fw returns, not deferred, so
\* a panicking function never gives it back.
ReleaseOnlyOnReturn(j) ==
    /\ jpc[j] = "release"
    /\ sem' = IF outcome[j] = "panic" THEN sem ELSE sem - 1
    /\ jpc' = [jpc EXCEPT ![j] = "done"]
    /\ UNCHANGED <<cpc, wg, errs, outcome>>

\* The last statement of the deferred function: <-parallelJobs().
Release(j) ==
    /\ jpc[j] = "release"
    /\ sem' = sem - 1
    /\ jpc' = [jpc EXCEPT ![j] = "done"]
    /\ UNCHANGED <<cpc, wg, errs, outcome>>

\* wg.Wait() returns; ParallelCtx panics when errs is not empty.
Wait(c) ==
    /\ cpc[c] = "waiting"
    /\ wg[c] = 0
    /\ cpc' = [cpc EXCEPT ![c] = IF errs[c] # {} THEN "panicked" ELSE "returned"]
    /\ UNCHANGED <<wg, errs, jpc, outcome, sem>>

Next ==
    \/ \E c \in Calls : Launch(c) \/ Wait(c)
    \/ \E j \in Jobs : Acquire(j) \/ Run(j) \/ NestedReturns(j)
                       \/ Deferred(j) \/ Release(j)

(* The Go scheduler runs every runnable goroutine (weak fairness).  A      *)
(* goroutine blocked sending on the full semaphore is queued FIFO in the   *)
(* channel's send queue and is handed the next freed slot, so a sender     *)
(* whose send is enabled infinitely often gets in (strong fairness).       *)
Fairness ==
    /\ \A c \in Calls : WF_vars(Launch(c)) /\ WF_vars(Wait(c))
    /\ \A j \in Jobs : /\ SF_vars(Acquire(j))
                       /\ WF_vars(Run(j)) /\ WF_vars(NestedReturns(j))
                       /\ WF_vars(Deferred(j)) /\ WF_vars(Release(j))

Spec == Init /\ [][Next]_vars /\ Fairness

-----------------------------------------------------------------------------
TypeOK ==
    /\ cpc \in [Calls -> {"idle", "launching", "waiting", "returned", "panicked"}]
    /\ wg \in [Calls -> Nat]
    /\ errs \in [Calls -> SUBSET Jobs]
    /\ jpc \in [Jobs -> {"idle", "acquire", "run", "nested", "deferred",
                         "release", "done"}]
    /\ outcome \in [Jobs -> Outcomes \cup {"none"}]
    /\ sem \in 0..MaxParallel

\* No failure is lost: when wg.Wait() returns, errs holds every function of
\* the call that returned an error or panicked, because each goroutine
\* records its failure before its deferred wg.Done().
FailuresReported ==
    \A c \in Calls :
        Ended(c) => errs[c] = {j \in JobsOf[c] : outcome[j] \in {"err", "panic"}}

\* The mage target's ParallelCtx call eventually returns or panics: no
\* goroutine waits forever for a semaphore slot.
Termination == <>Ended(Top)

=============================================================================
