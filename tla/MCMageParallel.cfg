\* Two slots: the nested call competes with j2 and j3 for the slot j1 does
\* not hold.
CONSTANTS
    Calls <- MCCalls
    Top = "target"
    Jobs <- MCJobs
    JobsOf <- MCJobsOf
    NestedOf <- MCNestedOf
    None = None
    MaxParallel = 2
SPECIFICATION Spec
INVARIANT TypeOK
INVARIANT FailuresReported
PROPERTY Termination
\* The mage target returns: the process really stops there.
CHECK_DEADLOCK FALSE
