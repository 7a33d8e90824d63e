--------------------------- MODULE MCMageParallel ---------------------------
(* A mage target runs three functions in parallel; the first of them runs  *)
(* a fourth in a nested ParallelCtx call.                                  *)
EXTENDS MageParallel

MCCalls == {"target", "nested"}
MCJobs == {"j1", "j2", "j3", "j4"}
MCJobsOf == [c \in MCCalls |-> IF c = "target" THEN {"j1", "j2", "j3"} ELSE {"j4"}]
MCNestedOf == [j \in MCJobs |-> IF j = "j1" THEN "nested" ELSE None]
=============================================================================
