------------------------------ MODULE Mailbox ------------------------------
(***************************************************************************)
(* The mailbox engine over its SQLite store: `MailboxEngine`               *)
(* (crates/mail4agent-core/src/engine.rs) and `SqliteMailStore`            *)
(* (crates/mail4agent-store-sqlite/src/store.rs).                          *)
(*                                                                         *)
(* Every operation runs under the daemon's one engine lock, so each is one *)
(* atomic action here.  A refused call changes nothing and is a stuttering *)
(* step.  A message id is the hash of every field of the message, modelled *)
(* as the message itself: two messages have the same id exactly when all   *)
(* the hashed fields agree.                                                *)
(***************************************************************************)
EXTENDS Naturals, FiniteSets

CONSTANTS
    Accounts,     \* participant ids
    Sessions,     \* session ids
    Rooms,        \* room ids
    Secrets,      \* bearer secrets the generator can mint
    Permissions,  \* permission records an operator may grant
    Urls,         \* well-formed listener URLs
    LoopbackUrls, \* those of them that name the loopback host
    Cards,        \* what a session may declare about itself
    Keys,         \* idempotency keys
    Nonces,       \* random nonces of unkeyed sends
    Bodies,       \* message contents
    Times,        \* readings of the clock, in milliseconds
    MaxMessages,  \* bound: messages stored
    MaxAcks,      \* bound: acknowledgements stored
    None          \* absence: no record, no key, no listener

ASSUME PermissionsAssumption ==
    Permissions \subseteq [may_send : BOOLEAN, may_read : BOOLEAN, operator : BOOLEAN]

ASSUME SaltAssumption == Keys \cap Nonces = {}

ASSUME NoneAssumption == None \notin Keys \cup Nonces \cup Urls \cup Cards \cup Accounts

ASSUME TimesAssumption == Times \subseteq Nat

ASSUME LoopbackAssumption == LoopbackUrls \subseteq Urls

VARIABLES
    participants,  \* the participants table: id -> row, or None
    minted,        \* history: every secret generated so far
    handed,        \* history: the secrets handed back to a caller
    rooms,         \* the rooms table
    room_members,  \* the room_members table, rows <<room, participant>>
    sessions,      \* the sessions table: id -> row, or None
    messages,      \* the messages table
    idempotency,   \* the idempotency ledger, rows (sender, key, message)
    acks           \* the acks table, rows (message, reader, time)

registryVars == <<participants, minted, handed, rooms, room_members, sessions>>
mailVars == <<messages, idempotency, acks>>
vars == <<registryVars, mailVars>>

-----------------------------------------------------------------------------
(* Addresses *)

Direct(a) == [kind |-> "direct", account |-> a]
SessionAddress(a, s) == [kind |-> "session", account |-> a, session |-> s]
RoomAddress(r) == [kind |-> "room", room |-> r]

DirectAddresses == {Direct(a) : a \in Accounts}
SessionAddresses == {SessionAddress(a, s) : a \in Accounts, s \in Sessions}
Identities == DirectAddresses \cup SessionAddresses
Addresses == Identities \cup {RoomAddress(r) : r \in Rooms}

-----------------------------------------------------------------------------
(* Records *)

Participant == [secret : Secrets, perms : Permissions, listener_url : LoopbackUrls \cup {None}]
SessionRecord == [account : Accounts, declared : Cards \cup {None}]
Message == [from : Identities, to : Addresses, body : Bodies, at : Times, salt : Keys \cup Nonces]
LedgerRow == [sender : Identities, key : Keys, message : Message]
AckRow == [message : Message, reader : Identities, at : Times]

ASSUME RowAssumption == None \notin Participant \cup SessionRecord

Registered(a) == participants[a] # None
Members(r) == {a \in Accounts : <<r, a>> \in room_members}

-----------------------------------------------------------------------------
(* Registry: participants and their secrets *)

(* The account a presented secret authenticates as. *)
Authenticates(secret, a) == Registered(a) /\ participants[a].secret = secret

Init ==
    /\ participants = [a \in Accounts |-> None]
    /\ minted = {}
    /\ handed = {}
    /\ rooms = {}
    /\ room_members = {}
    /\ sessions = [s \in Sessions |-> None]
    /\ messages = {}
    /\ idempotency = {}
    /\ acks = {}

(* Faulty variant: the generator may repeat itself. *)
GenerateSecretRepeating(secret) == minted' = minted \cup {secret}

(* `generate_secret`: 32 random bytes, never the same twice. *)
GenerateSecret(secret) ==
    /\ secret \notin minted
    /\ minted' = minted \cup {secret}

(* Faulty variant: the new row takes a digest that may be in use. *)
RegisterParticipantWithUsedSecret(a, perms, secret) ==
    /\ ~Registered(a)
    /\ minted' = minted \cup {secret}
    /\ participants' =
         [participants EXCEPT ![a] = [secret |-> secret, perms |-> perms, listener_url |-> None]]
    /\ handed' = handed \cup {secret}
    /\ UNCHANGED <<rooms, room_members, sessions, mailVars>>

RegisterParticipant(a, perms, secret) ==
    /\ ~Registered(a)
    /\ GenerateSecret(secret)
    /\ participants' =
         [participants EXCEPT ![a] = [secret |-> secret, perms |-> perms, listener_url |-> None]]
    /\ handed' = handed \cup {secret}
    /\ UNCHANGED <<rooms, room_members, sessions, mailVars>>

(* Only the participants row goes: memberships, sessions and mail stay. *)
DeregisterParticipant(a) ==
    /\ Registered(a)
    /\ participants' = [participants EXCEPT ![a] = None]
    /\ UNCHANGED <<minted, handed, rooms, room_members, sessions, mailVars>>

RotateParticipantSecret(a, secret) ==
    /\ Registered(a)
    /\ GenerateSecret(secret)
    /\ participants' = [participants EXCEPT ![a].secret = secret]
    /\ handed' = handed \cup {secret}
    /\ UNCHANGED <<rooms, room_members, sessions, mailVars>>

(* Rotation whose new secret is thrown away. *)
RevokeParticipantSecret(a, secret) ==
    /\ Registered(a)
    /\ GenerateSecret(secret)
    /\ participants' = [participants EXCEPT ![a].secret = secret]
    /\ UNCHANGED <<handed, rooms, room_members, sessions, mailVars>>

(* Faulty variant: the URL is stored without `validate_listener_url`. *)
SetListenerUnchecked(a, url) ==
    /\ Registered(a)
    /\ participants' = [participants EXCEPT ![a].listener_url = url]
    /\ UNCHANGED <<minted, handed, rooms, room_members, sessions, mailVars>>

SetListener(a, url) ==
    /\ url \in LoopbackUrls
    /\ Registered(a)
    /\ participants' = [participants EXCEPT ![a].listener_url = url]
    /\ UNCHANGED <<minted, handed, rooms, room_members, sessions, mailVars>>

RemoveListener(a) ==
    /\ Registered(a)
    /\ participants' = [participants EXCEPT ![a].listener_url = None]
    /\ UNCHANGED <<minted, handed, rooms, room_members, sessions, mailVars>>

-----------------------------------------------------------------------------
(* Registry: rooms and sessions *)

CreateRoom(r) ==
    /\ r \notin rooms
    /\ rooms' = rooms \cup {r}
    /\ UNCHANGED <<participants, minted, handed, room_members, sessions, mailVars>>

AddRoomMember(r, a) ==
    /\ r \in rooms
    /\ Registered(a)
    /\ room_members' = room_members \cup {<<r, a>>}
    /\ UNCHANGED <<participants, minted, handed, rooms, sessions, mailVars>>

RemoveRoomMember(r, a) ==
    /\ r \in rooms
    /\ room_members' = room_members \ {<<r, a>>}
    /\ UNCHANGED <<participants, minted, handed, rooms, sessions, mailVars>>

(* Faulty variant: a session moves to whichever account presents it. *)
EnsureSessionMoving(a, s) ==
    /\ Registered(a)
    /\ sessions' =
         [sessions EXCEPT ![s] =
            [account |-> a, declared |-> IF sessions[s] = None THEN None ELSE sessions[s].declared]]
    /\ UNCHANGED <<participants, minted, handed, rooms, room_members, mailVars>>

(* The first sight of a session binds it to the account; every later one   *)
(* refreshes the row and keeps what the session declared.  A session on    *)
(* file under another account is refused (SessionAccountMismatch).         *)
EnsureSession(a, s) ==
    /\ Registered(a)
    /\ sessions[s] # None => sessions[s].account = a
    /\ sessions' =
         [sessions EXCEPT ![s] =
            [account |-> a, declared |-> IF sessions[s] = None THEN None ELSE sessions[s].declared]]
    /\ UNCHANGED <<participants, minted, handed, rooms, room_members, mailVars>>

SetDeclared(s, card) ==
    /\ sessions[s] # None
    /\ sessions' = [sessions EXCEPT ![s].declared = card]
    /\ UNCHANGED <<participants, minted, handed, rooms, room_members, mailVars>>

-----------------------------------------------------------------------------
(* Identities and what they may do *)

SessionBelongs(i) ==
    i.kind = "session" =>
        /\ sessions[i.session] # None
        /\ sessions[i.session].account = i.account

(* `resolve_identity`, for an address that can act. *)
Resolves(i) == SessionBelongs(i) /\ Registered(i.account)

PermsOf(i) == participants[i.account].perms
MayRead(i) == PermsOf(i).may_read \/ PermsOf(i).operator

(* The recipient check of `send`: a session address needs the session, not *)
(* its account, to be on file.                                             *)
Deliverable(to) ==
    CASE to.kind = "direct"  -> Registered(to.account)
      [] to.kind = "session" -> SessionBelongs(to)
      [] to.kind = "room"    -> to.room \in rooms

(* Faulty variant: mail to a session opens to every session of its account. *)
IsReadableByAccount(m, i) ==
    \/ PermsOf(i).operator
    \/ m.to.kind \in {"direct", "session"} /\ m.to.account = i.account
    \/ m.to.kind = "room" /\ m.to.room \in rooms /\ i.account \in Members(m.to.room)

IsReadable(m, i) ==
    \/ PermsOf(i).operator
    \/ m.to.kind = "direct" /\ m.to.account = i.account
    \/ m.to.kind = "session" /\ m.to = i
    \/ m.to.kind = "room" /\ m.to.room \in rooms /\ i.account \in Members(m.to.room)

-----------------------------------------------------------------------------
(* Sending *)

(* What goes into the hash last: the key, or fresh random bytes. *)
Salts(key) ==
    IF key = None
    THEN {n \in Nonces : \A m \in messages : m.salt # n}
    ELSE {key}

DeriveMessageId(sender, to, body, now, salt) ==
    [from |-> sender, to |-> to, body |-> body, at |-> now, salt |-> salt]

LedgerOf(sender, key) == {row \in idempotency : row.sender = sender /\ row.key = key}

(* Faulty variant: the ledger is not consulted. *)
InsertOutcomeIgnoringLedger(m, key) ==
    IF m \in messages THEN "unavailable" ELSE "inserted"

(* The SQLite insert: the messages row first, whose primary key is the     *)
(* message id, then the ledger row.  A conflict on the first is an error   *)
(* of the store; a conflict on the second rolls back and names the earlier *)
(* message.                                                                *)
InsertOutcome(m, key) ==
    IF m \in messages THEN "unavailable"
    ELSE IF key # None /\ LedgerOf(m.from, key) # {} THEN "deduplicated"
    ELSE "inserted"

InsertMessage(m, key) ==
    IF InsertOutcome(m, key) = "inserted"
    THEN /\ messages' = messages \cup {m}
         /\ idempotency' =
              idempotency \cup
                (IF key = None THEN {} ELSE {[sender |-> m.from, key |-> key, message |-> m]})
    ELSE UNCHANGED <<messages, idempotency>>

Send(sender, to, body, key, now, salt) ==
    /\ Resolves(sender)
    /\ PermsOf(sender).may_send
    /\ Deliverable(to)
    /\ LET m == DeriveMessageId(sender, to, body, now, salt)
       IN  /\ InsertOutcome(m, key) = "inserted" => Cardinality(messages) < MaxMessages
           /\ InsertMessage(m, key)
    /\ UNCHANGED <<acks, registryVars>>

-----------------------------------------------------------------------------
(* Reading *)

AckedBy(m, i) == \E row \in acks : row.message = m /\ row.reader = i

(* Faulty variant: a later acknowledgement overwrites the first. *)
AckOverwriting(i, m, now) ==
    /\ Resolves(i)
    /\ MayRead(i)
    /\ IsReadable(m, i)
    /\ AckedBy(m, i) \/ Cardinality(acks) < MaxAcks
    /\ acks' = {row \in acks : row.message # m \/ row.reader # i}
                \cup {[message |-> m, reader |-> i, at |-> now]}
    /\ UNCHANGED <<messages, idempotency, registryVars>>

(* `record_ack`: the first acknowledgement of a message by a reader wins. *)
Ack(i, m, now) ==
    /\ Resolves(i)
    /\ MayRead(i)
    /\ IsReadable(m, i)
    /\ AckedBy(m, i) \/ Cardinality(acks) < MaxAcks
    /\ acks' = acks \cup
         (IF AckedBy(m, i) THEN {} ELSE {[message |-> m, reader |-> i, at |-> now]})
    /\ UNCHANGED <<messages, idempotency, registryVars>>

RoomsContaining(a) == {r \in Rooms : <<r, a>> \in room_members}

(* `own_messages`: mail to the identity itself, to its account when it is  *)
(* a session, and to the rooms its account is in now.                      *)
OwnMessages(i, since) ==
    {m \in messages :
        /\ m.at >= since
        /\ \/ m.to = i
           \/ i.kind = "session" /\ m.to = Direct(i.account)
           \/ \E r \in RoomsContaining(i.account) : m.to = RoomAddress(r)}

(* `count_unread`: an author has read its own messages. *)
Unread(i) == {m \in OwnMessages(i, 0) : m.from # i /\ ~AckedBy(m, i)}

-----------------------------------------------------------------------------
Next ==
    \/ \E a \in Accounts, perms \in Permissions, secret \in Secrets :
            RegisterParticipant(a, perms, secret)
    \/ \E a \in Accounts : DeregisterParticipant(a)
    \/ \E a \in Accounts, secret \in Secrets : RotateParticipantSecret(a, secret)
    \/ \E a \in Accounts, secret \in Secrets : RevokeParticipantSecret(a, secret)
    \/ \E a \in Accounts, url \in Urls : SetListener(a, url)
    \/ \E a \in Accounts : RemoveListener(a)
    \/ \E r \in Rooms : CreateRoom(r)
    \/ \E r \in Rooms, a \in Accounts : AddRoomMember(r, a)
    \/ \E r \in Rooms, a \in Accounts : RemoveRoomMember(r, a)
    \/ \E a \in Accounts, s \in Sessions : EnsureSession(a, s)
    \/ \E s \in Sessions, card \in Cards \cup {None} : SetDeclared(s, card)
    \/ \E sender \in Identities, to \in Addresses, body \in Bodies, now \in Times :
            \E key \in Keys \cup {None} : \E salt \in Salts(key) :
                Send(sender, to, body, key, now, salt)
    \/ \E i \in Identities, now \in Times : \E m \in messages : Ack(i, m, now)

Spec == Init /\ [][Next]_vars
-----------------------------------------------------------------------------
(* Properties *)

(* Every table holds rows of its own shape. *)
TypeOK ==
    /\ participants \in [Accounts -> Participant \cup {None}]
    /\ minted \subseteq Secrets
    /\ handed \subseteq minted
    /\ rooms \subseteq Rooms
    /\ room_members \subseteq rooms \X Accounts
    /\ sessions \in [Sessions -> SessionRecord \cup {None}]
    /\ messages \subseteq Message
    /\ idempotency \subseteq LedgerRow
    /\ acks \subseteq AckRow

(* `authenticate` looks a participant up by the digest of its secret: the  *)
(* lookup names one account at most, because no two registered accounts    *)
(* ever hold the same secret.                                              *)
SecretsNameOneAccount ==
    \A a, b \in Accounts : \A secret \in Secrets :
        Authenticates(secret, a) /\ Authenticates(secret, b) => a = b

(* A secret that was handed out before never gains access to an account it *)
(* did not open: once rotated, revoked or deregistered away it stays dead, *)
(* through any later rotation or re-registration of the same id.           *)
NoOldSecretGainsAccess ==
    [][\A secret \in handed, a \in Accounts :
          Authenticates(secret, a)' => Authenticates(secret, a)]_vars

(* Mail keeps meaning what it meant when it was sent: every session a      *)
(* stored message names as its author or its addressee is on file under    *)
(* the account the address gives, whatever was registered, deregistered or *)
(* re-attested since (`ensure_session` never moves a session).             *)
AddressesStayBound ==
    \A m \in messages :
        /\ SessionBelongs(m.from)
        /\ m.to.kind = "session" => SessionBelongs(m.to)

(* One send per key: the ledger and the messages table agree, each keyed   *)
(* message is claimed by exactly its own sender and key, and a key of a    *)
(* sender never names two messages (`send`, `insert_message`).             *)
OneMessagePerKey ==
    /\ \A row \in idempotency :
          /\ row.message \in messages
          /\ row.message.from = row.sender
          /\ row.message.salt = row.key
    /\ \A m \in messages :
          m.salt \in Keys => [sender |-> m.from, key |-> m.salt, message |-> m] \in idempotency
    /\ \A row, other \in idempotency :
          row.sender = other.sender /\ row.key = other.key => row = other

(* The two answers to "may this identity read this message" agree: what    *)
(* `inbox` lists for an identity (`own_messages`) is what `message_get`    *)
(* and `ack` accept from it (`is_readable`), so everything counted unread  *)
(* can be acknowledged; an operator may only be let in to more.            *)
InboxAgreesWithReadability ==
    \A i \in Identities :
        Resolves(i) =>
            LET readable == {m \in messages : IsReadable(m, i)}
            IN  /\ OwnMessages(i, 0) \subseteq readable
                /\ ~PermsOf(i).operator => OwnMessages(i, 0) = readable

(* The contract a repeated send is documented to have: a retry with the    *)
(* same sender and key, whatever the clock says, is recognised and         *)
(* answered with the original message.                                     *)
RepeatSendReturnsOriginal ==
    \A row \in idempotency : \A now \in Times :
        InsertOutcome([row.message EXCEPT !.at = now], row.key) = "deduplicated"

(* The mailbox implements the ledger of module MailLedger: mail is never   *)
(* lost or altered, keys are claimed once, acknowledgements never change.  *)
Ledger == INSTANCE MailLedger
            WITH Readers <- Identities, Instants <- Times,
                 letters <- messages, claims <- idempotency, receipts <- acks

ImplementsLedger == Ledger!Spec
=============================================================================
