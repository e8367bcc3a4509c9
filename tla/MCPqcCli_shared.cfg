\* Two processes running keygen and encaps at once on the same files, with a fault:
\* does each command end, and is anything torn where none strikes?
CONSTANTS
    e1 = e1
    e2 = e2
    p1 = p1
    p2 = p2
    Procs = {p1, p2}
    Entropy = {e1}
    Messages <- OneMessage
    Commands = {"keygen", "encaps"}
    MlkemRef = FALSE
    MldsaRef = FALSE
    MaxFaults = 1
    Layouts <- OneLayout
SPECIFICATION FairSpec
INVARIANTS
    NothingTorn
PROPERTIES
    CommandsEnd
