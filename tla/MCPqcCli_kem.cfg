\* One user's keygen, encaps and decaps in any order, on both backends, with
\* a fault.
CONSTANTS
    e1 = e1
    e2 = e2
    p1 = p1
    p2 = p2
    Procs = {p1}
    Entropy = {e1, e2}
    Messages <- OneMessage
    Commands = {"keygen", "encaps", "decaps"}
    MlkemRef = TRUE
    MldsaRef = TRUE
    MaxFaults = 1
    Layouts <- AnyLayout
SPECIFICATION Spec
SYMMETRY Symmetry
INVARIANTS
    TypeOK
    SecretsWiped
    PairOnDisk
    ScriptAgrees
PROPERTIES
    NoEarlyTruncation
