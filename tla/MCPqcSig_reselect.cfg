\* One client, a thread that reselects at any moment, one short buffer per
\* session, one NULL per call, an oversized signature buffer, both builds.
CONSTANTS
    client = client
    other = other
    e1 = e1
    e2 = e2
    m1 = m1
    m2 = m2
    Threads = {client, other}
    Clients = {client}
    Entropy = {e1, e2}
    Messages = {m1, m2}
    Builds = {TRUE, FALSE}
    KeypairReturns = {0, 1}
    SignReturns <- SignMayFail
    MaxSlack = 1
    MaxFaults = 1
SPECIFICATION Spec
SYMMETRY Symmetry
INVARIANTS
    TypeOK
    SigNoOverrun
    VerifyExact
    HonestUseSucceeds
