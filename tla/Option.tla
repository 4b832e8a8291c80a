-------------------------------- MODULE Option --------------------------------
(***************************************************************************)
(* The absent value: what a Rust Option holds when it is None, shared by   *)
(* the modules that are checked together.                                  *)
(***************************************************************************)
CONSTANT None
===============================================================================
