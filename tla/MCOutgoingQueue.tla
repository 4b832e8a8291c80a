-------------------------- MODULE MCOutgoingQueue --------------------------
(* Instances of OutgoingQueue for TLC. *)
EXTENDS OutgoingQueue

CONSTANTS room

OneRoom == {room}
\* One lane of each kind: a room is like to-device, one flag and ciphertext.
MixedLanes == {"AccountData", "Other", room}
ToDeviceOnly == {"ToDevice"}
RoomOnly == {room}
RoomAndAccountData == {room, "AccountData"}

=============================================================================
