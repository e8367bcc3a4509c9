\* One keygen on a full disk: is everything saved when it exits 0?
CONSTANTS
    e1 = e1
    e2 = e2
    p1 = p1
    p2 = p2
    Procs = {p1}
    Entropy = {e1}
    Messages <- OneMessage
    Commands = {"keygen"}
    MlkemRef = TRUE
    MldsaRef = TRUE
    MaxFaults = 1
    Layouts <- OneLayout
SPECIFICATION Spec
INVARIANTS
    ExitZeroMeansSaved
