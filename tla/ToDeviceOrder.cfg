\* Two to-device requests and a sync.
CONSTANTS
    None = None
    room = room
    Rooms <- OneRoom
    CommandLanes <- ToDeviceOnly
    MaxRequests = 3
    OtherLimit = 1
    MaxFailures = 1
SPECIFICATION Spec
INVARIANTS
    ToDeviceInOrder
