--------------------------- MODULE MailboxService ---------------------------
(***************************************************************************)
(* The daemon's asynchronous facade over the mailbox engine:               *)
(* `MailboxService` (src/service.rs) as the routes of src/routes/mail.rs   *)
(* call it.  A request authenticates, attests its session and only then    *)
(* acts, each under its own acquisition of the engine lock, so requests    *)
(* interleave between any two of these steps.                              *)
(*                                                                         *)
(* A send reads the clock, commits, works out whose mail it is, and then   *)
(* wakes waiting readers and spawns the doorbell of each account's         *)
(* listener.  A waiting inbox subscribes, checks, parks and checks again.  *)
(***************************************************************************)
EXTENDS Mailbox

CONSTANTS
    SendSlots,   \* bound: sends in flight, doorbells included
    WaitSlots,   \* bound: waiting inbox calls in flight
    Client,      \* slot -> the session address of the process that uses it
    Targets,     \* bound: the addresses mail is sent to
    Initial      \* the permissions of the accounts already on file

ASSUME ClientAssumption ==
    /\ Client \in [SendSlots \cup WaitSlots -> SessionAddresses]
    /\ Targets \subseteq Addresses

VARIABLES
    sends,     \* send slot -> the request in flight, or None
    bells,     \* doorbells spawned and not yet posted
    waits      \* wait slot -> the inbox call in flight, or None

svcVars == <<sends, bells, waits>>
allVars == <<vars, svcVars>>

-----------------------------------------------------------------------------
(* A daemon starts over a mailbox that is already on disk: its accounts    *)
(* registered, its rooms created, nobody in them, no mail yet.             *)
SecretOf == CHOOSE f \in [Accounts -> Secrets] : \A a, b \in Accounts : f[a] = f[b] => a = b

ServiceInit ==
    /\ participants =
         [a \in Accounts |-> [secret |-> SecretOf[a], perms |-> Initial, listener_url |-> None]]
    /\ minted = {SecretOf[a] : a \in Accounts}
    /\ handed = minted
    /\ rooms = Rooms
    /\ room_members = {}
    /\ sessions = [s \in Sessions |-> None]
    /\ messages = {}
    /\ idempotency = {}
    /\ acks = {}
    /\ sends = [q \in SendSlots |-> None]
    /\ bells = {}
    /\ waits = [w \in WaitSlots |-> None]

(* Somebody holds a secret that authenticates as the account. *)
HoldsSecret(a) == \E secret \in handed : Authenticates(secret, a)

(* The session check of `ensure_session`, which `resolve_session` runs on  *)
(* every request.                                                          *)
SessionAccepted(a, s) == Registered(a) /\ (sessions[s] # None => sessions[s].account = a)

-----------------------------------------------------------------------------
(* POST /mail/send *)

InPhase(q, phase) == sends[q] # None /\ sends[q].phase = phase
Waiting(w, phase) == waits[w] # None /\ waits[w].phase = phase

BeginSend(q, to, body, key) ==
    /\ sends[q] = None
    /\ \A bell \in bells : bell.slot # q
    /\ \/ LedgerOf(Client[q], key) # {}
       \/ Cardinality(messages) + Cardinality({p \in SendSlots : sends[p] # None}) < MaxMessages
    /\ HoldsSecret(Client[q].account)
    /\ sends' = [sends EXCEPT ![q] =
         [phase |-> "authenticated", from |-> Client[q],
          to |-> to, body |-> body, key |-> key]]
    /\ UNCHANGED <<vars, bells, waits>>

(* `resolve_session`, then `send` reads the wall clock, before it asks for *)
(* the engine lock: sends commit in any order of their stamps.             *)
SendResolve(q, now) ==
    /\ InPhase(q, "authenticated")
    /\ LET request == sends[q]
       IN  IF SessionAccepted(request.from.account, request.from.session)
           THEN /\ EnsureSession(request.from.account, request.from.session)
                /\ sends' = [sends EXCEPT ![q] =
                     [phase |-> "stamped", from |-> request.from, to |-> request.to,
                      body |-> request.body, key |-> request.key, now |-> now]]
           ELSE /\ sends' = [sends EXCEPT ![q] = None]
                /\ UNCHANGED vars
    /\ UNCHANGED <<bells, waits>>

(* Faulty variant: a deduplicated send names the message it would have     *)
(* stored.                                                                 *)
ReturnedMessageOfRetry(m, key) == m

(* The id a successful send returns. *)
ReturnedMessage(m, key) ==
    IF InsertOutcome(m, key) = "deduplicated"
    THEN (CHOOSE row \in LedgerOf(m.from, key) : TRUE).message
    ELSE m

SendAccepted(request) ==
    Resolves(request.from) /\ PermsOf(request.from).may_send /\ Deliverable(request.to)

(* Faulty variant: a send the engine refuses is never answered. *)
SendCommitDroppingErrors(q) ==
    /\ InPhase(q, "stamped")
    /\ LET r == sends[q]
       IN  /\ SendAccepted(r)
           /\ \E salt \in Salts(r.key) :
                LET m == DeriveMessageId(r.from, r.to, r.body, r.now, salt)
                IN  /\ InsertOutcome(m, r.key) # "unavailable"
                    /\ Send(r.from, r.to, r.body, r.key, r.now, salt)
                    /\ sends' = [sends EXCEPT ![q] =
                         [phase |-> "committed", from |-> r.from, to |-> r.to,
                          message |-> ReturnedMessage(m, r.key)]]
    /\ UNCHANGED <<bells, waits>>

(* `engine.send` under the lock.  A deduplicated send goes on exactly like *)
(* a first one; a refused one returns its error.                           *)
SendCommit(q) ==
    /\ InPhase(q, "stamped")
    /\ LET r == sends[q]
       IN  \/ /\ SendAccepted(r)
              /\ \E salt \in Salts(r.key) :
                   LET m == DeriveMessageId(r.from, r.to, r.body, r.now, salt)
                   IN  /\ InsertOutcome(m, r.key) # "unavailable"
                       /\ Send(r.from, r.to, r.body, r.key, r.now, salt)
                       /\ sends' = [sends EXCEPT ![q] =
                            [phase |-> "committed", from |-> r.from, to |-> r.to,
                             message |-> ReturnedMessage(m, r.key)]]
           \/ /\ SendAccepted(r) =>
                   InsertOutcome(DeriveMessageId(r.from, r.to, r.body, r.now, r.key), r.key)
                     = "unavailable"
              /\ sends' = [sends EXCEPT ![q] = None]
              /\ UNCHANGED vars
    /\ UNCHANGED <<bells, waits>>

(* `accounts_for`: the one account of a direct or session address, or the  *)
(* room's members at this moment.                                          *)
AccountsFor(to) ==
    IF to.kind = "room" THEN Members(to.room) ELSE {to.account}

Addressed(q, accounts) ==
    sends' = [sends EXCEPT ![q] =
        [phase |-> "addressed", from |-> sends[q].from, to |-> sends[q].to,
         message |-> sends[q].message, accounts |-> accounts]]

SendAddress(q) ==
    /\ InPhase(q, "committed")
    /\ Addressed(q, AccountsFor(sends[q].to))
    /\ UNCHANGED <<vars, bells, waits>>

(* History: a stored message that will ring for no one is noted with every *)
(* call past its check; one that has yet to check will find it there.      *)
Unrung(m) ==
    [w \in WaitSlots |->
        IF Waiting(w, "checked") \/ Waiting(w, "parked")
        THEN [waits[w] EXCEPT !.unrung = @ \cup {m}]
        ELSE waits[w]]

(* A room whose members cannot be read notifies no one. *)
SendAddressFails(q) ==
    /\ InPhase(q, "committed")
    /\ sends[q].to.kind = "room"
    /\ Addressed(q, {})
    /\ waits' = Unrung(sends[q].message)
    /\ UNCHANGED <<vars, bells>>

(* `notify_accounts` wakes every reader of these accounts subscribed now,  *)
(* and one background task per account takes its doorbell.                 *)
Notified(accounts) ==
    [w \in WaitSlots |->
        IF /\ waits[w] # None
           /\ waits[w].phase # "authenticated"
           /\ waits[w].reader.account \in accounts
        THEN [waits[w] EXCEPT !.heard = TRUE]
        ELSE waits[w]]

SendRing(q) ==
    /\ InPhase(q, "addressed")
    /\ waits' = Notified(sends[q].accounts)
    /\ bells' = bells \cup
         {[slot |-> q, account |-> a, to |-> sends[q].to, from |-> sends[q].from,
           message |-> sends[q].message] : a \in sends[q].accounts}
    /\ sends' = [sends EXCEPT ![q] = None]
    /\ UNCHANGED vars

(* The sender's connection closes and the handler is dropped where it      *)
(* awaits.  A closure it has handed to the blocking pool still runs, so a  *)
(* committed message stays, and is never rung.                             *)
SenderLeaves(q) ==
    /\ sends[q] # None
    /\ waits' = IF InPhase(q, "committed") \/ InPhase(q, "addressed")
                THEN Unrung(sends[q].message) ELSE waits
    /\ sends' = [sends EXCEPT ![q] = None]
    /\ UNCHANGED <<vars, bells>>

(* `spawn_listener_delivery`: the task looks the listener up, posts to it  *)
(* if there is one and ends, whatever came of it; nothing is retried.      *)
DeliverBell(bell) ==
    /\ bells' = bells \ {bell}
    /\ UNCHANGED <<vars, sends, waits>>

-----------------------------------------------------------------------------
(* POST /mail/inbox with wait_secs *)

BeginInbox(w, since) ==
    /\ waits[w] = None
    /\ HoldsSecret(Client[w].account)
    /\ waits' = [waits EXCEPT ![w] =
         [phase |-> "authenticated", reader |-> Client[w], since |-> since]]
    /\ UNCHANGED <<vars, sends, bells>>

(* A subscription hears every notification that follows it. `joined` and   *)
(* `unrung` are histories: the rooms the account was added to, and the     *)
(* messages whose notification was dropped, since the last check.          *)
Subscribed(reader, since, expired) ==
    [phase |-> "subscribed", reader |-> reader, since |-> since,
     heard |-> FALSE, expired |-> expired, joined |-> {}, unrung |-> {}]

InboxResolve(w) ==
    /\ Waiting(w, "authenticated")
    /\ LET call == waits[w]
       IN  IF SessionAccepted(call.reader.account, call.reader.session)
           THEN /\ EnsureSession(call.reader.account, call.reader.session)
                /\ waits' = [waits EXCEPT ![w] = Subscribed(call.reader, call.since, FALSE)]
           ELSE /\ waits' = [waits EXCEPT ![w] = None]
                /\ UNCHANGED vars
    /\ UNCHANGED <<sends, bells>>

InboxRefused(reader) == ~Resolves(reader) \/ ~MayRead(reader)

(* `inbox_once`: an error or a page answers at once. *)
InboxCheck(w) ==
    /\ Waiting(w, "subscribed")
    /\ LET call == waits[w]
       IN  waits' = [waits EXCEPT ![w] =
             IF InboxRefused(call.reader) \/ OwnMessages(call.reader, call.since) # {}
             THEN None
             ELSE [call EXCEPT !.phase = "checked"]]
    /\ UNCHANGED <<vars, sends, bells>>

(* Faulty variant: the subscription is created after the check. *)
InboxParkSubscribingLate(w) ==
    /\ Waiting(w, "checked")
    /\ waits' = [waits EXCEPT ![w] =
         IF waits[w].expired THEN None ELSE [@ EXCEPT !.phase = "parked", !.heard = FALSE]]
    /\ UNCHANGED <<vars, sends, bells>>

(* An expired wait answers the empty page; otherwise the call awaits its   *)
(* subscription, and what it has heard meanwhile counts.                   *)
InboxPark(w) ==
    /\ Waiting(w, "checked")
    /\ waits' = [waits EXCEPT ![w] =
         IF waits[w].expired THEN None ELSE [@ EXCEPT !.phase = "parked"]]
    /\ UNCHANGED <<vars, sends, bells>>

(* Faulty variant: the deadline does not end the park. *)
InboxWakeOnlyWhenHeard(w) ==
    /\ Waiting(w, "parked")
    /\ waits[w].heard
    /\ waits' = [waits EXCEPT ![w] =
         Subscribed(waits[w].reader, waits[w].since, waits[w].expired)]
    /\ UNCHANGED <<vars, sends, bells>>

InboxWake(w) ==
    /\ Waiting(w, "parked")
    /\ waits[w].heard \/ waits[w].expired
    /\ waits' = [waits EXCEPT ![w] =
         Subscribed(waits[w].reader, waits[w].since, waits[w].expired)]
    /\ UNCHANGED <<vars, sends, bells>>

Deadline(w) ==
    /\ waits[w] # None /\ waits[w].phase # "authenticated"
    /\ ~waits[w].expired
    /\ waits' = [waits EXCEPT ![w].expired = TRUE]
    /\ UNCHANGED <<vars, sends, bells>>

(* The reader's connection closes. *)
ReaderLeaves(w) ==
    /\ waits[w] # None
    /\ waits' = [waits EXCEPT ![w] = None]
    /\ UNCHANGED <<vars, sends, bells>>

-----------------------------------------------------------------------------
(* Everything else that happens meanwhile *)

(* Membership changes wake nobody. *)
AdminAddRoomMember(r, a) ==
    /\ AddRoomMember(r, a)
    /\ waits' = [w \in WaitSlots |->
         IF (Waiting(w, "checked") \/ Waiting(w, "parked")) /\ waits[w].reader.account = a
         THEN [waits[w] EXCEPT !.joined = @ \cup {r}]
         ELSE waits[w]]
    /\ UNCHANGED <<sends, bells>>

AdminRemoveRoomMember(r, a) == RemoveRoomMember(r, a) /\ UNCHANGED svcVars

AdminDeregister(a) == DeregisterParticipant(a) /\ UNCHANGED svcVars

AdminRegister(a, perms, secret) == RegisterParticipant(a, perms, secret) /\ UNCHANGED svcVars

(* A restart loses every request and every doorbell in flight; the tables  *)
(* are on disk.                                                            *)
Restart ==
    /\ sends' = [q \in SendSlots |-> None]
    /\ waits' = [w \in WaitSlots |-> None]
    /\ bells' = {}
    /\ UNCHANGED vars

ServiceNext ==
    \/ \E q \in SendSlots, to \in Targets, body \in Bodies, key \in Keys \cup {None} :
          BeginSend(q, to, body, key)
    \/ \E q \in SendSlots, now \in Times : SendResolve(q, now)
    \/ \E q \in SendSlots : SendCommit(q)
    \/ \E q \in SendSlots : SendAddress(q)
    \/ \E q \in SendSlots : SendAddressFails(q)
    \/ \E q \in SendSlots : SendRing(q)
    \/ \E q \in SendSlots : SenderLeaves(q)
    \/ \E bell \in bells : DeliverBell(bell)
    \/ \E w \in WaitSlots, since \in Times \cup {0} : BeginInbox(w, since)
    \/ \E w \in WaitSlots : InboxResolve(w)
    \/ \E w \in WaitSlots : InboxCheck(w)
    \/ \E w \in WaitSlots : InboxPark(w)
    \/ \E w \in WaitSlots : InboxWake(w)
    \/ \E w \in WaitSlots : Deadline(w)
    \/ \E w \in WaitSlots : ReaderLeaves(w)
    \/ \E r \in Rooms, a \in Accounts : AdminAddRoomMember(r, a)
    \/ \E r \in Rooms, a \in Accounts : AdminRemoveRoomMember(r, a)
    \/ \E a \in Accounts : AdminDeregister(a)
    \/ \E a \in Accounts, perms \in Permissions, secret \in Secrets :
          AdminRegister(a, perms, secret)
    \/ Restart

(* The runtime schedules every task that can run, and a wait's timer fires. *)
Fairness ==
    /\ \A q \in SendSlots :
          WF_allVars(\E now \in Times : SendResolve(q, now)) /\ WF_allVars(SendCommit(q))
            /\ WF_allVars(SendAddress(q)) /\ WF_allVars(SendRing(q))
    /\ \A w \in WaitSlots :
          WF_allVars(InboxResolve(w)) /\ WF_allVars(InboxCheck(w))
            /\ WF_allVars(InboxPark(w)) /\ WF_allVars(InboxWake(w)) /\ WF_allVars(Deadline(w))
    /\ WF_allVars(\E bell \in bells : DeliverBell(bell))

ServiceSpec == ServiceInit /\ [][ServiceNext]_allVars /\ Fairness
-----------------------------------------------------------------------------
(* Properties *)

(* The send in flight that will still wake the readers of the message. *)
StillToRing(m, a) ==
    \E q \in SendSlots :
        \/ InPhase(q, "committed") /\ sends[q].message = m
        \/ InPhase(q, "addressed") /\ sends[q].message = m /\ a \in sends[q].accounts

(* No lost wake-up: a call that is parked and has heard nothing has nothing *)
(* to read, unless the send of that message has yet to ring.  The gaps of  *)
(* the code are named, and each exempts only the calls it finds past their *)
(* check: joining a room while parked wakes nobody, and neither does a     *)
(* room whose members could not be read, or a sender who leaves after the  *)
(* commit and before the ring (`inbox_wait`, `send`, `room_members`).      *)
NoLostWakeup ==
    \A w \in WaitSlots :
        Waiting(w, "parked") /\ ~waits[w].heard =>
            \A m \in OwnMessages(waits[w].reader, waits[w].since) :
                \/ StillToRing(m, waits[w].reader.account)
                \/ m.to.kind = "room" /\ m.to.room \in waits[w].joined
                \/ m \in waits[w].unrung

(* Waking and ringing come after the write has committed: a doorbell names *)
(* a stored message and its true author, also when the daemon restarted or *)
(* the send was a deduplicated retry (`send`).                             *)
BellsFollowCommit ==
    \A bell \in bells :
        bell.message \in messages /\ bell.message.from = bell.from

(* What README says a doorbell carries: "the address the mail was actually *)
(* for".                                                                   *)
DoorbellNamesTheMailsAddress ==
    \A bell \in bells : bell.to = bell.message.to

(* Every waiting inbox call is answered: by mail, by its deadline or by a  *)
(* refusal (`inbox_wait`).                                                 *)
EveryPollIsAnswered ==
    \A w \in WaitSlots : waits[w] # None ~> waits[w] = None

(* Every send returns and every doorbell it spawned is taken: neither      *)
(* waits for a listener, a reader or a room (`send`,                       *)
(* `spawn_listener_delivery`).                                             *)
EverySendSettles ==
    \A q \in SendSlots :
        sends[q] # None ~> sends[q] = None /\ \A bell \in bells : bell.slot # q
=============================================================================
