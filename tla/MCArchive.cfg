CONSTANTS
    Dests <- MCDests
    Names <- MCNames
    Targets <- MCTargets
    NamePrefixPairs <- MCNamePrefixPairs
    MaxEntries = 2

SPECIFICATION Spec

INVARIANT EntriesStayInside

CHECK_DEADLOCK FALSE
