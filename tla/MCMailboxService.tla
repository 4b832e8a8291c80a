-------------------------- MODULE MCMailboxService --------------------------
(* Instances of MailboxService for TLC. *)
EXTENDS MailboxService

CONSTANTS a1, a2, s1, s2, r1, q1, q2, w1

User == [may_send |-> TRUE, may_read |-> TRUE, operator |-> FALSE]
Users == {User}

(* The senders are sessions of a2, the reader is a session of a1. *)
Clients ==
    [slot \in SendSlots \cup WaitSlots |->
        IF slot \in WaitSlots THEN SessionAddress(a1, s1) ELSE SessionAddress(a2, s2)]

DirectAndRoom == {Direct(a1), RoomAddress(r1)}
=============================================================================
