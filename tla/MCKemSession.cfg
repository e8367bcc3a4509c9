\* One session on either backend: partial and interrupted entropy, one refused
\* request, and up to two changes to ciphertext or secret key.
CONSTANTS
    PkLen = 6
    CtLen = 5
    SsLen = 2
    Stride = 3
    Pad = 1
    SymCells = 2
    MaxChunk = 3
    MaxCoins = 10
    MaxFailures = 1
    MaxChanges = 2
SPECIFICATION FairSpec
INVARIANTS
    TypeOK
    DummyExact
    MlkemExact
    FreshCoins
PROPERTIES
    CallsReturn
