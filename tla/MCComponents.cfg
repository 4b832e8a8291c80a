\* Small instances of the components that stand alone.
CONSTANTS
    None = None
    \* SendPipeline
    bob = bob
    carol = carol
    b1 = b1
    c1 = c1
    t1 = t1
    t2 = t2
    Peers = {bob, carol}
    OwnerOf <- MCOwner
    Txns = {t1, t2}
    RotationMsgs = 2
    ChunkSize = 1
    MaxIdentity = 1
    MaxMishaps = 2
    \* RoomKeyInbox
    Timeline <- MCTimeline
    RetryCapacity = 1
    MaxMail = 2
    MaxInboxFaults = 1
    \* MegolmRatchet
    Base = 3
    Holders = {h1, h2}
    Indexes = {0, 3, 9, 26, 27}
    MaxGroupIndex = 28
    \* OlmSession
    Opener = opener
    Answerer = answerer
    MaxReceivingChains = 2
    MaxMessageKeys = 1
    MaxMessageGap = 2
    MaxOlmSent = 7
    MaxFallbackSent = 6
    \* KeySupply
    OtkTarget = 1
    MaxOtks = 2
    MaxFallbacks = 3
    MaxUploads = 2
    MaxLetters = 1
    \* RecordLog
    MaxBatches = 4
    MaxLogFaults = 4
    \* Retention
    d1 = d1
    d2 = d2
    u1 = u1
    u2 = u2
    Readers = {d1, d2}
    ReaderOwner <- MCReaderOwner
    PageLimit = 1
    AckGrace = 0
    StaleDevice = 0
    Ttl = 1
    KeepLast = 0
    PurgeBatch = 1
    MaxPosts = 2
    MaxClock = 1
    MaxRetentionFaults = 1
    \* Typing
    q1 = q1
    q2 = q2
    TypingRooms = {q1, q2}
    Typists = {y1}
    Watchers = {w1}
    ThrottleWindow = 1
    MaxTimeout = 1
    MaxTypingClock = 2
    MaxGen = 3
    \* Startup
    s1 = s1
    s2 = s2
    s3 = s3
    Daemons = {s1, s2, s3}
    MaxStartFaults = 2
    \* Membership
    p0 = p0
    p1 = p1
    p2 = p2
    People = {p0, p1, p2}
    Founder = p0
    InSpace = {p1, p2}
    PowerLevels = {0, 50, 100}
    Tunable = {"users_default"}
    MaxPuts = 2
SYMMETRY Symmetric
SPECIFICATION ComponentsSpec
CHECK_DEADLOCK FALSE
INVARIANTS
    ComponentsTypeOK
    KeysStayWithMembers
    RecipientsCanRead
    ReadableIsRead
    OneEventPerIndex
    ReceiversFollowTheSender
    MessageKeysAreUsedOnce
    NextMessageOpens
    KeysOnOfferAreHeld
    ClaimedKeysOpen
    AckedFramesAreReplayed
    TypistsAreShown
    OperatorCanSignIn
    ServingIsControllable
PROPERTIES
    SessionsOnlyImprove
    PurgedWasDelivered
    AuthorityFlowsDown
