\* One keyed send and every retry of it.
SPECIFICATION Spec
CONSTANTS
    None = None
    Accounts = {a1, a2}
    Sessions = {s1}
    Rooms = {r1}
    Secrets = {p1, p2}
    Permissions <- UsersAndOperators
    Urls = {}
    LoopbackUrls = {}
    Cards = {}
    Keys = {k1}
    Nonces = {n1}
    Bodies = {b1}
    Times = {1, 2}
    MaxMessages = 2
    MaxAcks = 1
INVARIANTS
    RepeatSendReturnsOriginal
