\* One client, another thread that reselects at any moment, one short buffer
\* per session, one NULL per call, primitives that may fail, both builds, with
\* and without a lock held for whole sessions.
CONSTANTS
    client = client
    other = other
    e1 = e1
    e2 = e2
    NoThread = NoThread
    NoLock = NoLock
    Threads = {client, other}
    Clients = {client}
    Entropy = {e1, e2}
    Builds = {TRUE, FALSE}
    MlkemReturns = {0, 1}
    Disciplines = {NoThread, NoLock}
    MaxFaults = 1
SPECIFICATION Spec
SYMMETRY Symmetry
INVARIANTS
    TypeOK
    NoOverrun
    PairWhole
    DummyVerdict
    MlkemVerdict
    LockedSessionsAgree
