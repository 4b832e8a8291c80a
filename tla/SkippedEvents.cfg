\* One device that was away for more messages than a page holds.
SPECIFICATION Spec
CONSTANTS
  alice = alice
  phone = phone
  laptop = laptop
  Users <- OneUser
  Devices <- OneDevice
  Owner <- AliceOwns
  Limit = 1
  Cap = 1
  MaxWrites <- OneReader
  MaxFaults <- NoFault
  None = None
INVARIANTS
  EventsStayWithinReach
