\* Three requests over one lane of each kind, crashes and failing writes at any point.
CONSTANTS
    None = None
    room = room
    Rooms <- OneRoom
    CommandLanes <- MixedLanes
    MaxRequests = 3
    OtherLimit = 1
    MaxFailures = 1
SPECIFICATION Spec
INVARIANTS
    TypeOK
    SentIsDurable
    FreshIds
    LaneLimits
    DiskMatchesMemory
PROPERTIES
    AccountDataNeverRegresses
