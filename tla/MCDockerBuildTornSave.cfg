CONSTANTS
    Files <- MCFiles
    ExtraTags <- MCExtraTags
    MainTag = "main"
    OutputFile = Empty
    Empty = Empty
    Retries = 3
SPECIFICATION Spec
INVARIANT ArtifactsComplete
\* Build returns, with nil or an error: the mage target ends there.
CHECK_DEADLOCK FALSE
