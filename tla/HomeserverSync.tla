--------------------------- MODULE HomeserverSync ---------------------------
(***************************************************************************)
(* `GET /sync` of the homeserver (crates/mail4agent-server): one writer    *)
(* gives every row of the store a number of the same stream, a device's    *)
(* poll reads the rows after its token and parks when there are none, and  *)
(* a wake that carries no data tells it to read again.                     *)
(*                                                                         *)
(* A stream id is issued in the transaction that inserts its row, so the   *)
(* store is the sequence `log`, whose i-th row has stream id i, and its    *)
(* length is the counter.  There is one room.  Its senders are outside the *)
(* model; the users here join it and read it.  `queue` holds the           *)
(* to-device rows that are still stored.                                   *)
(*                                                                         *)
(* A poll reads the store statement by statement on a pooled reader and no *)
(* transaction spans them, so other requests run between its steps.  In    *)
(* the registry of parked polls a `KeyEntry` counts wakes; what a poll     *)
(* asks of the count is whether it moved since the poll registered, which  *)
(* is the field `woken` of the poll.                                       *)
(*                                                                         *)
(* Left out: room state, receipts, account data, typing, presence, device  *)
(* lists, invites and leaves, filters and `full_state`, and retention (the *)
(* ack a poll records and the purge that uses it).  A token above the      *)
(* counter needs a store restored from a backup, which is left out too.    *)
(***************************************************************************)
EXTENDS Naturals, Sequences, FiniteSets, SequencesExt

CONSTANTS
  Users,      \* the accounts whose devices poll
  Devices,    \* their devices
  Owner,      \* the account of each device
  Limit,      \* events in one timeline page (SYNC_TIMELINE_DEFAULT_LIMIT)
  Cap,        \* to-device messages in one response (SYNC_TO_DEVICE_CAP)
  MaxWrites,  \* bound, for each set of devices that poll: sends and joins
  MaxFaults,  \* bound, for each such set: lost answers and restarts
  None        \* no token, no entry, no device

ASSUME SyncAssumption ==
  /\ Owner \in [Devices -> Users]
  /\ Limit \in Nat \ {0} /\ Cap \in Nat \ {0}
  /\ DOMAIN MaxWrites \subseteq SUBSET Devices /\ DOMAIN MaxFaults = DOMAIN MaxWrites
  /\ \A D \in DOMAIN MaxWrites : MaxWrites[D] \in Nat /\ MaxFaults[D] \in Nat
  /\ None \notin Nat \cup Users \cup Devices

VARIABLES
  log,       \* every row ever stored; the index is the stream id
  seen,      \* the transaction ids recorded in txn_dedup
  joined,    \* each user's m.room.member event, 0 before the user joins
  queue,     \* the stream ids in to_device_messages
  keyed,     \* LiveRegistry.keys: each user's entry, None when absent
  due,       \* the wakes that committed writes still owe
  suspended, \* the writes whose handler has not resumed since the commit
  poll,      \* each device's GET /sync
  token,     \* the device's own: the next_batch it stored last
  inbox,     \* the device's own: the to-device messages it received
  online,    \* the devices of this run: the ones that poll and get messages
  faults

store  == <<log, seen, joined, queue>>
client == <<token, inbox, online>>
wakes  == <<due, suspended>>
vars   == <<store, keyed, wakes, poll, client, faults>>

-----------------------------------------------------------------------------
Txn   == 1..MaxWrites[online]
Entry == 1..(Cardinality(Devices) + Cardinality(Users))

(* `write` is a history: the last stream id of the row's transaction,      *)
(* which names the write that stored it.                                   *)
Row == [kind : {"message", "member", "to_device"}, dev : Devices \cup {None}, write : Nat]

RoomEvents == {i \in DOMAIN log : log[i].kind # "to_device"}

(* `max_stream_id`: the value of the counter.                              *)
Counter == Len(log)

(* A faulty variant: the counter's value before the update.                *)
NextStreamIdsTooLow(n) == Counter..(Counter + n - 1)

(* `next_stream_id`, n times in one transaction: the values after each     *)
(* update of the counter.                                                  *)
NextStreamIds(n) == (Counter + 1)..(Counter + n)

Stream(since) == IF since = None THEN 0 ELSE since

(* ORDER BY stream_id ASC LIMIT n, and DESC LIMIT n.                       *)
Oldest(rows, n) == {i \in rows : Cardinality({j \in rows : j < i}) < n}
Newest(rows, n) == {i \in rows : Cardinality({j \in rows : j > i}) < n}

Least(rows)    == CHOOSE i \in rows : \A j \in rows : i <= j
Greatest(rows) == CHOOSE i \in rows : \A j \in rows : i >= j

-----------------------------------------------------------------------------
NoPage == [sent |-> FALSE, events |-> {}, limited |-> FALSE, prev |-> 0]

Idle == [pc |-> "idle", entry |-> None, woken |-> FALSE, upto |-> 0,
         page |-> NoPage, direct |-> {}, batch |-> 0, unwoken |-> {}]

Init ==
  /\ log = <<>> /\ seen = {} /\ queue = {}
  /\ joined = [u \in Users |-> 0]
  /\ keyed = [u \in Users |-> None]
  /\ due = {} /\ suspended = {}
  /\ poll = [d \in Devices |-> Idle]
  /\ token = [d \in Devices |-> None]
  /\ inbox = [d \in Devices |-> {}]
  /\ online \in DOMAIN MaxWrites
  /\ faults = 0

-----------------------------------------------------------------------------
(* The writers.  A handler awaits the commit, made under the one writer    *)
(* connection, and afterwards wakes the users it returned, one by one and  *)
(* without another await: `due`.                                           *)

Members(u) == joined[u] > 0

Writes == Cardinality(seen) + Cardinality({u \in Users : Members(u)})

(* The ids a sender has not used yet are interchangeable: it takes them in *)
(* order, and may repeat any it used.                                      *)
Fresh(t) == t = Cardinality(seen) + 1 /\ Writes < MaxWrites[online]

(* The wakes of a write, whose handler has yet to take up the result.      *)
Owes(write, users) ==
  /\ due' = due \cup {<<write, u>> : u \in users}
  /\ suspended' = suspended \cup {write : u \in users}

(* PUT /rooms/{id}/send: `apply_send` and `insert_timeline_event_deduped`. *)
(* A transaction id that is recorded stores nothing and wakes nobody.      *)
SendEvent(t) ==
  /\ t \in seen \/ Fresh(t)
  /\ IF t \in seen
     THEN UNCHANGED <<log, seen, wakes>>
     ELSE /\ log' = Append(log, [kind |-> "message", dev |-> None, write |-> Counter + 1])
          /\ seen' = seen \cup {t}
          /\ Owes(Counter + 1, {v \in Users : Members(v)})
  /\ UNCHANGED <<joined, queue, keyed, poll, client, faults>>

(* PUT /sendToDevice: `apply_send_to_device`, one row per target, in the   *)
(* order in which a hash map gives them, in one transaction.               *)
SendToDevice(t, D) ==
  /\ t \in seen \/ Fresh(t)
  /\ IF t \in seen
     THEN UNCHANGED <<log, seen, queue, wakes>>
     ELSE /\ \E order \in SetToSeqs(D) :
               log' = log \o [i \in DOMAIN order |->
                               [kind |-> "to_device", dev |-> order[i],
                                write |-> Counter + Cardinality(D)]]
          /\ seen' = seen \cup {t}
          /\ queue' = queue \cup NextStreamIds(Cardinality(D))
          /\ Owes(Counter + Cardinality(D), {Owner[d] : d \in D})
  /\ UNCHANGED <<joined, keyed, poll, client, faults>>

(* POST /join: the member event is a row of the stream like any other.     *)
Join(u) ==
  /\ ~Members(u)
  /\ Writes < MaxWrites[online]
  /\ log' = Append(log, [kind |-> "member", dev |-> None, write |-> Counter + 1])
  /\ joined' = [joined EXCEPT ![u] = Counter + 1]
  /\ Owes(Counter + 1, {v \in Users : Members(v)} \cup {u})
  /\ UNCHANGED <<seen, queue, keyed, poll, client, faults>>

-----------------------------------------------------------------------------
(* The registry of parked polls (live.rs).                                 *)

(* A registration is counted in its entry's `interest` until its drop has  *)
(* decremented the count.                                                  *)
Holders(e) == {d \in Devices : poll[d].entry = e /\ poll[d].pc # "pruning"}

(* `wake`: under the lock of the map, the entry that the map holds for the *)
(* user moves its generation and notifies its waiters.  No entry, no wake. *)
Wake(w) ==
  /\ w \in due
  /\ due' = due \ {w}
  /\ suspended' = suspended \ {w[1]}
  /\ poll' = [d \in Devices |->
                IF keyed[w[2]] # None /\ poll[d].entry = keyed[w[2]]
                THEN [poll[d] EXCEPT !.woken = poll[d].pc # "pruning"]
                ELSE poll[d]]
  /\ UNCHANGED <<store, keyed, client, faults>>

(* The writer's connection closes while its handler awaits: the handler is *)
(* dropped, the commit stands and its wakes are never given.  A poll that  *)
(* has read its position before the write keeps it as a history.           *)
WriterLeaves(write) ==
  /\ suspended' = suspended \ {write}
  /\ due' = {w \in due : w[1] # write}
  /\ poll' = [d \in Devices |->
                IF /\ <<write, Owner[d]>> \in due
                   /\ poll[d].pc \in {"positioned", "paged", "built", "parked"}
                   /\ poll[d].upto < write
                THEN [poll[d] EXCEPT !.unwoken = @ \cup {write}]
                ELSE poll[d]]
  /\ UNCHANGED <<store, keyed, client, faults>>

FreeEntry ==
  CHOOSE e \in Entry : /\ \A d \in Devices : poll[d].entry # e
                       /\ \A u \in Users : keyed[u] # e

(* A request starts, or goes round its loop, by `register`, before it      *)
(* reads the store: the user's entry, made when the map has none, and the  *)
(* generation it has now.  Its `since` is the token the device stored.     *)
Register(d) ==
  LET u == Owner[d]
      e == IF keyed[u] # None THEN keyed[u] ELSE FreeEntry
  IN /\ d \in online
     /\ poll[d].pc = "idle"
     /\ keyed' = [keyed EXCEPT ![u] = e]
     /\ poll' = [poll EXCEPT ![d] = [Idle EXCEPT !.pc = "registered", !.entry = e]]
     /\ UNCHANGED <<store, wakes, client, faults>>

(* `Registration::drop`, first half: the count goes down without the lock. *)
(* Only the drop that took it to zero goes on to the map.                  *)
Dropped(d) ==
  IF Holders(poll[d].entry) = {d}
  THEN [Idle EXCEPT !.pc = "pruning", !.entry = poll[d].entry]
  ELSE Idle

(* A faulty variant: a drop that does not compare the entries.             *)
RemovesAnyEntry(d) == Holders(poll[d].entry) = {}

(* Whether the drop removes the entry of the map: it is the same entry,    *)
(* and nobody registered since the count went to zero.                     *)
Removes(d) == keyed[Owner[d]] = poll[d].entry /\ Holders(poll[d].entry) = {}

(* The second half, under the lock.                                        *)
Prune(d) ==
  /\ poll[d].pc = "pruning"
  /\ keyed' = IF Removes(d) THEN [keyed EXCEPT ![Owner[d]] = None] ELSE keyed
  /\ poll' = [poll EXCEPT ![d] = Idle]
  /\ UNCHANGED <<store, wakes, client, faults>>

-----------------------------------------------------------------------------
(* One GET /sync (http/sync.rs, sync.rs).                                  *)

(* The position a device asks from; a token above the counter is none of   *)
(* this store, and is answered as if it were absent.                       *)
Since(d) == IF Stream(token[d]) > Counter THEN None ELSE token[d]

(* A faulty variant: what the answer is about to carry goes as well.       *)
DeliveredUpToTheCounter(d) == {i \in queue : log[i].dev = d}

(* `delete_to_device_up_to`: the rows a token proves the device holds.     *)
Delivered(d) == {i \in queue : log[i].dev = d /\ i <= Stream(Since(d))}

(* The position of the answer is read, and the device's rows at or below   *)
(* its token go.  No other request reads those rows, so the two statements *)
(* are one step.                                                           *)
ReadPosition(d) ==
  /\ poll[d].pc = "registered"
  /\ poll' = [poll EXCEPT ![d].pc = "positioned", ![d].upto = Counter]
  /\ queue' = queue \ Delivered(d)
  /\ UNCHANGED <<log, seen, joined, keyed, wakes, client, faults>>

(* A faulty variant: the last row of the window is left out.               *)
ChangedBefore(since, upto) == \E i \in RoomEvents : since < i /\ i < upto

(* `rooms_changed_in_window`: rows of the room in (since, upto].           *)
Changed(since, upto) == \E i \in RoomEvents : since < i /\ i <= upto

(* The newest events up to `upto`, as an initial sync or a join gets them. *)
FullPage(upto) ==
  LET rows == Newest({i \in RoomEvents : i <= upto}, Limit + 1)
      cut  == Cardinality(rows) > Limit
  IN [rows |-> IF cut THEN rows \ {Least(rows)} ELSE rows, limited |-> cut]

(* The events after the token: Limit + 1 of them in stream order, of which *)
(* the first go when there are more than Limit.                            *)
NextPage(since) ==
  LET rows == Oldest({i \in RoomEvents : i > since}, Limit + 1)
  IN [rows |-> Newest(rows, Limit), limited |-> Cardinality(rows) > Limit]

(* `build_join_room_block` behind the prefilter of changed rooms.          *)
RoomBlock(u, since, upto) ==
  LET from  == Stream(since)
      full  == since = None \/ joined[u] > from
      page  == IF full THEN FullPage(upto) ELSE NextPage(from)
  IN IF /\ Members(u)
        /\ since = None \/ Changed(from, upto)
        /\ full \/ page.rows # {}
     THEN [sent |-> TRUE, events |-> page.rows, limited |-> page.limited,
           prev |-> IF page.rows = {} THEN 0 ELSE Least(page.rows) - 1]
     ELSE NoPage

ReadRooms(d) ==
  /\ poll[d].pc = "positioned"
  /\ poll' = [poll EXCEPT ![d].pc = "paged",
                          ![d].page = RoomBlock(Owner[d], Since(d), poll[d].upto)]
  /\ UNCHANGED <<store, keyed, wakes, client, faults>>

(* `to_device_for`: the stored rows of the device after its token.         *)
Pending(d) == {i \in queue : log[i].dev = d /\ i > Stream(Since(d))}

(* Faulty variants: the position of the snapshot whatever was cut off, and *)
(* a position below the last message delivered.                            *)
NextBatchIgnoringTheCap(d) == poll[d].upto

NextBatchBelowTheLast(d) ==
  IF Cardinality(Pending(d)) > Cap
  THEN Greatest(Oldest(Pending(d), Cap)) - 1
  ELSE poll[d].upto

(* The stream position of `next_batch`: what the answer covers, which is   *)
(* less than `upto` when the to-device messages did not all fit.           *)
NextBatch(d) ==
  IF Cardinality(Pending(d)) > Cap
  THEN Greatest(Oldest(Pending(d), Cap))
  ELSE poll[d].upto

ReadToDevice(d) ==
  /\ poll[d].pc = "paged"
  /\ poll' = [poll EXCEPT ![d].pc = "built",
                          ![d].direct = Oldest(Pending(d), Cap),
                          ![d].batch = NextBatch(d)]
  /\ UNCHANGED <<store, keyed, wakes, client, faults>>

(* `sync_response_is_empty`.                                               *)
Empty(d) == ~poll[d].page.sent /\ poll[d].direct = {}

(* The answer goes out because it says something or because the request's  *)
(* time is over (at once, or when the wait ran out), and the registration  *)
(* is dropped.  The device, which is external, stores the answer and its   *)
(* token together.                                                         *)
Answer(d) ==
  LET p == poll[d]
  IN /\ p.pc \in {"built", "parked"}
     /\ token' = [token EXCEPT ![d] = p.batch]
     /\ inbox' = [inbox EXCEPT ![d] = @ \cup p.direct]
     /\ poll' = [poll EXCEPT ![d] = Dropped(d)]
     /\ UNCHANGED <<store, keyed, wakes, online, faults>>

(* `Registration::wait`: a wake since the registration is a reason to read *)
(* again, otherwise the request parks.  The loop drops this registration   *)
(* before it makes the next one.                                           *)
Wait(d) ==
  /\ poll[d].pc = "built"
  /\ Empty(d)
  /\ poll' = [poll EXCEPT ![d] = IF poll[d].woken
                                 THEN Dropped(d)
                                 ELSE [poll[d] EXCEPT !.pc = "parked"]]
  /\ UNCHANGED <<store, keyed, wakes, client, faults>>

Notified(d) ==
  /\ poll[d].pc = "parked"
  /\ poll[d].woken
  /\ poll' = [poll EXCEPT ![d] = Dropped(d)]
  /\ UNCHANGED <<store, keyed, wakes, client, faults>>

-----------------------------------------------------------------------------
(* The answer does not arrive, or the connection breaks while the handler  *)
(* runs: the registration is dropped, and the device asks again with the   *)
(* token it has.                                                           *)
Lose(d) ==
  /\ faults < MaxFaults[online]
  /\ poll[d].pc \in {"registered", "positioned", "paged", "built", "parked"}
  /\ poll' = [poll EXCEPT ![d] = Dropped(d)]
  /\ faults' = faults + 1
  /\ UNCHANGED <<store, keyed, wakes, client>>

(* The process stops and starts: the store stays, the registry, the polls  *)
(* and the wakes that were still owed are gone.                            *)
Restart ==
  /\ faults < MaxFaults[online]
  /\ poll' = [d \in Devices |-> Idle]
  /\ keyed' = [u \in Users |-> None]
  /\ due' = {} /\ suspended' = {}
  /\ faults' = faults + 1
  /\ UNCHANGED <<store, client>>

-----------------------------------------------------------------------------
PollStep(d) ==
  \/ Register(d) \/ ReadPosition(d) \/ ReadRooms(d) \/ ReadToDevice(d)
  \/ Answer(d) \/ Wait(d) \/ Notified(d) \/ Prune(d)

Next ==
  \/ \E t \in Txn : SendEvent(t)
  \/ \E t \in Txn, D \in SUBSET online \ {{}} : SendToDevice(t, D)
  \/ \E u \in Users : Join(u)
  \/ \E w \in due : Wake(w)
  \/ \E write \in suspended : WriterLeaves(write)
  \/ \E d \in Devices : PollStep(d) \/ Lose(d)
  \/ Restart

(* A device polls again when its poll ends, a request that runs reaches    *)
(* its end (a parked one at the latest when its time is over, thirty       *)
(* seconds at most), and a handler that committed reaches its wakes unless *)
(* its client leaves.                                                      *)
Fairness ==
  /\ \A d \in Devices : WF_vars(PollStep(d))
  /\ WF_vars(\E w \in due : Wake(w))

Spec == Init /\ [][Next]_vars /\ Fairness

-----------------------------------------------------------------------------
Page == [sent : BOOLEAN, events : SUBSET DOMAIN log, limited : BOOLEAN,
         prev : 0..Counter]

Phase == {"idle", "registered", "positioned", "paged", "built", "parked", "pruning"}

Token == (0..Counter) \cup {None}

TypeOK ==
  /\ log \in Seq(Row) /\ seen \subseteq Txn
  /\ joined \in [Users -> 0..Counter]
  /\ queue \subseteq {i \in DOMAIN log : log[i].kind = "to_device"}
  /\ token \in [Devices -> Token]
  /\ keyed \in [Users -> Entry \cup {None}]
  /\ due \subseteq (DOMAIN log) \X Users /\ suspended \subseteq DOMAIN log
  /\ poll \in [Devices ->
       [pc : Phase, entry : Entry \cup {None}, woken : BOOLEAN,
        upto : 0..Counter, page : Page, direct : SUBSET DOMAIN log,
        batch : 0..Counter, unwoken : SUBSET DOMAIN log]]
  /\ inbox \in [Devices -> SUBSET DOMAIN log]
  /\ faults \in 0..MaxFaults[online]

(* The to-device rows that were ever addressed to a device.                *)
Addressed(d) == {i \in DOMAIN log : log[i].dev = d}

(* A to-device message leaves the store only once its device has it: a     *)
(* lost answer, a cut-off one and a restart all leave what is missing to   *)
(* be asked for again (the delete of `build_sync_response`).               *)
ToDeviceIsKeptUntilHeld ==
  \A d \in Devices : Addressed(d) \ queue \subseteq inbox[d]

(* The position an answer hands out covers every message of the device at  *)
(* or below it, the cap of a response notwithstanding (`effective_upto`).  *)
TokenCoversToDevice ==
  \A d \in Devices : {i \in Addressed(d) : i <= Stream(token[d])} \subseteq inbox[d]

(* The rows that a read of the store would now tell the device's poll of,  *)
(* and the write that announced one to its user: its own, or the join that *)
(* made the room's earlier rows the user's.                                *)
News(d) ==
  Pending(d) \cup
    {i \in RoomEvents : Members(Owner[d]) /\ i > Stream(Since(d))}

Announced(d, i) ==
  IF i \in RoomEvents /\ i < joined[Owner[d]] THEN joined[Owner[d]] ELSE log[i].write

(* A poll never sleeps on news whose wake has come and gone: while it is   *)
(* parked and not woken, a handler still owes its user a wake (`register`  *)
(* before the read, the prune of an entry).  The one gap is named row by   *)
(* row: a writer that left between its commit and its wakes.               *)
NoLostWake ==
  \A d \in Devices :
    poll[d].pc = "parked" /\ ~poll[d].woken =>
      \A i \in News(d) :
        (\E w \in due : w[2] = Owner[d]) \/ Announced(d, i) \in poll[d].unwoken

(* An answer whose page is not marked `limited` leaves no hole: it carries *)
(* every event of the room between the token it was asked with and the     *)
(* position it covers (`build_join_room_block`, `rooms_changed_in_window`). *)
UnlimitedPageIsComplete ==
  \A d \in Devices :
    LET p == poll[d]
    IN p.pc = "built" /\ ~p.page.limited /\ joined[Owner[d]] \in 1..p.upto =>
         {i \in RoomEvents : /\ Stream(Since(d)) < i
                             /\ i <= p.upto /\ i <= p.batch} \subseteq p.page.events

(* What an answer's position passes, it carries or leaves within reach: an *)
(* event of the room that is not in a limited page can be paged back to    *)
(* from the `prev_batch` of the page ("keep only the newest `limit`").     *)
EventsStayWithinReach ==
  \A d \in Devices :
    LET p == poll[d]
    IN p.pc = "built" /\ p.page.limited =>
         {i \in RoomEvents : i <= p.upto /\ i <= p.batch}
           \subseteq p.page.events \cup 1..p.page.prev

(* Every to-device message reaches its device, whatever is lost on the way *)
(* and however many wait behind the cap.                                   *)
ToDeviceArrives ==
  \A d \in Devices :
    [](d \in online /\ Addressed(d) # {} => <>(Addressed(d) \subseteq inbox[d]))

=============================================================================
