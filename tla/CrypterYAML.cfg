SPECIFICATION Spec
CONSTANTS
    Callers = {1, 2}
    Buffers = {b1, b2}
    Nonces = {n1, n2, n3, n4, n5, n6, n7, n8, n9}
    Key = "key"
    NoBuffer = NoBuffer
    NoNonce = NoNonce
    Files <- SomeFiles
    Trees <- AllTrees
    SecretKeys = {"pw"}
    OtherKey = "other"
    MaxCalls = 3
INVARIANTS
    NonceUnique
    EncryptExact
    DecryptStrict
    MeaningKept
\* Nobody has to call.
CHECK_DEADLOCK FALSE
