CONSTANTS
    Scalars = {a, b}
    Null = Null
    MaxLen = 3
SPECIFICATION Spec
INVARIANT MatchesReference
\* One evaluation per argument list.
CHECK_DEADLOCK FALSE
