\* One account, polled by one device with more faults or by two with fewer.
SPECIFICATION Spec
CONSTANTS
  alice = alice
  phone = phone
  laptop = laptop
  Users <- OneUser
  Devices <- TwoDevices
  Owner <- AliceOwns
  Limit = 1
  Cap = 1
  MaxWrites <- FewWrites
  MaxFaults <- FewFaults
  None = None
INVARIANTS
  TypeOK
  ToDeviceIsKeptUntilHeld
  TokenCoversToDevice
  NoLostWake
  UnlimitedPageIsComplete
PROPERTIES
  ToDeviceArrives
