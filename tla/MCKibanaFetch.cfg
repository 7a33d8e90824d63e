CONSTANTS
    Policies <- MCPolicies
    Keys <- MCKeys
    Cfgs <- MCCfgs
    Empty = Empty
    None = None
    RetryMaxCount = 2

SPECIFICATION Spec

INVARIANT TokenIsKeySecret

\* The lookup is one call that returns: its final states have no successor.
CHECK_DEADLOCK FALSE
