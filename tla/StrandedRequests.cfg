\* A room send and an account data write released by one step.
CONSTANTS
    None = None
    room = room
    Rooms <- OneRoom
    CommandLanes <- RoomAndAccountData
    MaxRequests = 3
    OtherLimit = 1
    MaxFailures = 1
SPECIFICATION Spec
INVARIANTS
    NothingStranded
