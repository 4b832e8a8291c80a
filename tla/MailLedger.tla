----------------------------- MODULE MailLedger -----------------------------
(***************************************************************************)
(* What the mailbox promises about mail, with everything else forgotten: a *)
(* set of letters that only grows, a ledger that names at most one letter  *)
(* per sender and key, and receipts of which the first one counts.  This   *)
(* is the contract of `MailStore::insert_message` and                      *)
(* `MailStore::record_ack` (crates/mail4agent-core/src/store.rs), and      *)
(* module Mailbox is shown to implement it.                                *)
(***************************************************************************)

CONSTANTS
    Keys,     \* idempotency keys
    Readers,  \* whoever may acknowledge a letter
    Instants  \* when

VARIABLES letters, claims, receipts

ledgerVars == <<letters, claims, receipts>>

Init ==
    /\ letters = {}
    /\ claims = {}
    /\ receipts = {}

(* A letter without a key is a new letter every time. *)
Post(letter) ==
    /\ letter \notin letters
    /\ letters' = letters \cup {letter}
    /\ UNCHANGED <<claims, receipts>>

(* A letter with a key is stored together with its claim, and only when    *)
(* its sender has not used the key before.                                 *)
PostKeyed(letter, key) ==
    /\ letter \notin letters
    /\ \A row \in claims : ~(row.sender = letter.from /\ row.key = key)
    /\ letters' = letters \cup {letter}
    /\ claims' = claims \cup {[sender |-> letter.from, key |-> key, message |-> letter]}
    /\ UNCHANGED receipts

(* The first receipt of a letter by a reader is the one on file. *)
Acknowledge(letter, reader, now) ==
    /\ letter \in letters
    /\ \A row \in receipts : ~(row.message = letter /\ row.reader = reader)
    /\ receipts' = receipts \cup {[message |-> letter, reader |-> reader, at |-> now]}
    /\ UNCHANGED <<letters, claims>>

Next ==
    \/ \E letter \in letters' : Post(letter)
    \/ \E letter \in letters', key \in Keys : PostKeyed(letter, key)
    \/ \E letter \in letters, reader \in Readers, now \in Instants :
            Acknowledge(letter, reader, now)

Spec == Init /\ [][Next]_ledgerVars
=============================================================================
