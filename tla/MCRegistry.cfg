\* The registry alone: secrets, listeners, rooms, sessions; no mail.
SPECIFICATION Spec
CONSTANTS
    None = None
    Accounts = {a1, a2}
    Sessions = {s1, s2}
    Rooms = {r1}
    Secrets = {p1, p2, p3, p4}
    Permissions <- UsersAndOperators
    Urls = {home, away}
    LoopbackUrls = {home}
    Cards = {card}
    Keys = {k1}
    Nonces = {n1}
    Bodies = {b1}
    Times = {1}
    MaxMessages = 0
    MaxAcks = 0
SYMMETRY Symmetry
INVARIANTS
    TypeOK
    SecretsNameOneAccount
PROPERTIES
    NoOldSecretGainsAccess
