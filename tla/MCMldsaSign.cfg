\* Two keys, 625 masks, all challenges of weight two; any hint bytes, either
\* message and any key at verification.
CONSTANTS
    m1 = m1
    m2 = m2
    K = 2
    N = 4
    Omega = 2
    Q = 73
    L = 1
    D = 3
    Gamma1 = 8
    Gamma2 = 9
    Beta = 2
    Eta = 1
    KeyMaterial <- SomeKeys
    Masks <- SomeMasks
    Balls <- AllBalls
    Messages = {m1, m2}
    MaxNonce = 1
SPECIFICATION Spec
SYMMETRY Symmetry
INVARIANTS
    VerifiesAsSigned
    HintsUnique
    MaskHides
