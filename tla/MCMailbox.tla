----------------------------- MODULE MCMailbox -----------------------------
(* Instances of Mailbox for TLC: MCRegistry.cfg, where the registry is     *)
(* large and no mail flows, and MCMailbox.cfg, where mail flows over a     *)
(* small registry.                                                         *)
EXTENDS Mailbox, TLC

User == [may_send |-> TRUE, may_read |-> TRUE, operator |-> FALSE]
Operator == [may_send |-> FALSE, may_read |-> FALSE, operator |-> TRUE]

Users == {User}
UsersAndOperators == {User, Operator}

Symmetry == Permutations(Accounts) \cup Permutations(Secrets) \cup Permutations(Sessions)
=============================================================================
