CONSTANTS
    Masks <- MCMasks
    Paths <- MCPaths
    Top = "top"
    Dirs <- MCDirs
    Kids <- MCKids
SPECIFICATION Spec
\* FixPermissions returns: there is nothing more to do.
CHECK_DEADLOCK FALSE
INVARIANT WalkAppliesAll
