\* One synchronised client whose ciphertext is changed: is the failure reported?
CONSTANTS
    client = client
    other = other
    e1 = e1
    e2 = e2
    NoThread = NoThread
    NoLock = NoLock
    Threads = {client}
    Clients = {client}
    Entropy = {e1}
    Builds = {TRUE}
    MlkemReturns = {0}
    Disciplines = {NoThread}
    MaxFaults = 0
SPECIFICATION Spec
INVARIANTS
    FailureIsReported
