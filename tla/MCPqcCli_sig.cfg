\* One user's sig-keygen, sign and verify, the message changing, on both backends, with
\* two faults.
CONSTANTS
    e1 = e1
    e2 = e2
    p1 = p1
    p2 = p2
    Procs = {p1}
    Entropy = {e1, e2}
    Messages <- TwoMessages
    Commands = {"sig-keygen", "sign", "verify"}
    MlkemRef = TRUE
    MldsaRef = TRUE
    MaxFaults = 2
    Layouts <- OneLayout
SPECIFICATION Spec
SYMMETRY Symmetry
INVARIANTS
    VerifyVouches
