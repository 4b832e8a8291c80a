-------------------------- MODULE MCHomeserverSync --------------------------
(* Instances of HomeserverSync for TLC.                                    *)
EXTENDS HomeserverSync

CONSTANTS alice, phone, laptop

OneUser == {alice}
TwoDevices == {phone, laptop}
OneDevice == {phone}
AliceOwns == [d \in Devices |-> alice]

(* Two devices that poll meet in the registry; a device that polls alone   *)
(* gets more to read.                                                      *)
FewWrites == (TwoDevices :> 1) @@ (OneDevice :> 3)
FewFaults == (TwoDevices :> 1) @@ (OneDevice :> 2)
OneReader == OneDevice :> 4
NoFault == OneDevice :> 0
=============================================================================
