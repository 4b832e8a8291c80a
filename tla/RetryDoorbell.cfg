\* A keyed send to one address, retried with another.
SPECIFICATION ServiceSpec
CONSTANTS
    None = None
    a1 = a1
    a2 = a2
    s1 = s1
    s2 = s2
    r1 = r1
    q1 = q1
    q2 = q2
    w1 = w1
    Accounts = {a1, a2}
    Sessions = {s1, s2}
    Rooms = {r1}
    Secrets = {p1, p2, p3}
    Permissions <- Users
    Initial <- User
    Urls = {}
    LoopbackUrls = {}
    Cards = {}
    Keys = {k1}
    Nonces = {n1}
    Bodies = {b1}
    Times = {1}
    MaxMessages = 1
    MaxAcks = 0
    SendSlots = {q1}
    WaitSlots = {}
    Client <- Clients
    Targets <- DirectAndRoom
INVARIANTS
    DoorbellNamesTheMailsAddress
