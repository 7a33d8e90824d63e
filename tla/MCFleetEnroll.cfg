CONSTANTS
    Ids <- MCIds
    URLs <- MCURLs
    Tokens <- MCTokens
    Empty = Empty
    NoConfig = NoConfig
    MaxKeys = 3
    MaxRetries = 3

SPECIFICATION Spec

INVARIANT TypeOK
INVARIANT InvalidKeyMeansEnroll
INVARIANT Idempotent
PROPERTY Refines
PROPERTY DecisionReached
