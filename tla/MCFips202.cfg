\* Two contexts, messages of up to four bytes in pieces of up to three,
\* outputs of up to four bytes in pieces of up to three.
CONSTANTS
    c1 = c1
    c2 = c2
    Contexts = {c1, c2}
    Rate = 2
    Digest = 1
    Inputs <- Pieces
    Requests = {1, 2, 3}
    MaxIn = 4
    MaxOut = 4
SPECIFICATION Spec
SYMMETRY Symmetry
INVARIANTS
    TypeOK
    RoomForSuffix
    StreamsDistinct
PROPERTIES
    ImplementsXof
