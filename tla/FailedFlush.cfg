\* One room send, a failing write, and a restart.
CONSTANTS
    None = None
    room = room
    Rooms <- OneRoom
    CommandLanes <- RoomOnly
    MaxRequests = 2
    OtherLimit = 1
    MaxFailures = 1
SPECIFICATION Spec
INVARIANTS
    FlushBeforeSend
