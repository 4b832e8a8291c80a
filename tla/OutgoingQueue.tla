--------------------------- MODULE OutgoingQueue ---------------------------
(***************************************************************************)
(* The sending side of the messenger client: the outgoing request queue    *)
(* with its lanes (mail4agent-messenger/outgoing_queue.rs), the flush gate *)
(* that holds a request back until what it depends on is on disk           *)
(* (persist.rs), the counters the core mints ids from (core.rs), the       *)
(* shell's file-per-record `persist` (mail4agent-messenger-shell/lib.rs)   *)
(* and the drive loop that executes what the queue releases                *)
(* (m4a-agent/engine/driver.rs).  The process may stop at any point and    *)
(* reopen from what is on disk; a write of a record may fail.              *)
(*                                                                         *)
(* Abstractions.  A request is its id, its lane, the ratchet index its     *)
(* ciphertext was made with and the flush epoch it waits for.  The ratchet *)
(* stands for the outbound Megolm session and the Olm session records: one *)
(* counter, advanced by every encrypted request.  `now_ms` is the caller's *)
(* input, so a retry's delay is a request being in `backoff` until the     *)
(* caller supplies a late enough time; how long the delay is, is left out. *)
(* Every request id comes from one counter, so enqueue order is id order   *)
(* (`OutgoingQueue::load` sorts by id for the same reason).                *)
(***************************************************************************)
EXTENDS Integers, FiniteSets, Sequences, SequencesExt

CONSTANTS
    Rooms,          \* room ids: each is a lane of its own
    CommandLanes,   \* the lanes commands of the host enqueue on
    MaxRequests,    \* bound on the request counter
    MaxFailures,    \* bound on the record writes that fail
    OtherLimit,     \* OTHER_LANE_CONCURRENCY
    None            \* Option::None

ASSUME LanesAssumption ==
    CommandLanes \subseteq {"ToDevice", "AccountData", "Other"} \union Rooms
ASSUME LimitAssumption == MaxRequests \in Nat /\ MaxFailures \in Nat /\ OtherLimit \in Nat \ {0}
ASSUME RoomsAssumption ==
    Rooms \intersect {"Sync", "ToDevice", "AccountData", "Other"} = {}

VARIABLES
    counter,   \* Counters.next_request_id in memory
    ratchet,   \* the outbound ratchet in memory: the next index to encrypt with
    pending,   \* OutgoingQueue.pending (and the store's copy of it)
    in_flight, \* ids released and not yet completed or retried
    busy,      \* sync_in_flight, to_device_in_flight, room_in_flight
    backoff,   \* ids whose retry_not_before_ms has not come yet
    dirty,     \* FlushGate.pending: the keys marked since the last batch
    next_batch,\* FlushGate.next_batch_id
    unacked,   \* FlushGate.unacked_batches
    batches,   \* MessengerCore.pending_flush_batches
    writing,   \* the batch `persist` is writing, None between batches
    disk,      \* the record files of the session directory
    phase,     \* where the drive loop is
    todo,      \* requests the step still has to execute, in order
    flight,    \* the sync request on the worker thread, or None
    sent,      \* ratchet indices of the ciphertext that left the process
    held,      \* id of the account data write the server holds, -1 if none
    failures,  \* how many times writing a record has failed so far
    restored   \* ids of the requests the running process read from disk

queueVars == <<counter, ratchet, pending, in_flight, busy, backoff>>
gateVars == <<dirty, next_batch, unacked, batches>>
driverVars == <<phase, todo, flight>>
worldVars == <<sent, held>>
vars == <<queueVars, gateVars, writing, disk, driverVars, worldVars, failures, restored>>

-----------------------------------------------------------------------------
(* Types.                                                                  *)

Ids == 0 .. MaxRequests - 1
Lanes == {"Sync", "ToDevice", "AccountData", "Other"} \union Rooms
\* The lanes whose occupation the queue keeps a flag for.
FlaggedLanes == {"Sync", "ToDevice"} \union Rooms
\* The lanes whose requests carry ciphertext.
Encrypted == {"ToDevice"} \union Rooms
\* At most three batches come of one request: its counters, its record, its
\* deletion; a reopened process adds one for the syncs it discards.
BatchIds == 0 .. 3 * MaxRequests + 1
PendingRequest ==
    [id : Ids, lane : Lanes, index : -1 .. MaxRequests - 1, required_seq : BatchIds]
Keys == {<<"counters">>, <<"ratchet">>} \union {<<"pending", i>> : i \in Ids}
RecordOps == [key : {<<"counters">>, <<"ratchet">>}, value : 0 .. MaxRequests]
             \union [key : Keys, value : PendingRequest]
             \union [key : Keys, value : {None}]
Batch == [id : BatchIds, ops : Seq(RecordOps)]

IdsOf(S) == {r.id : r \in S}
MaxOf(S) == CHOOSE x \in S : \A y \in S : y =< x

-----------------------------------------------------------------------------
(* FlushGate.                                                              *)

\* The order a batch's records are written in: by storage key, deletions last.
WriteOrder(keys, deleted) ==
    LET Rank(k) == (IF k \in deleted THEN 2 * MaxRequests ELSE 0)
                   + (IF k = <<"counters">> THEN 0
                      ELSE IF k = <<"ratchet">> THEN 1 ELSE 2 + k[2])
    IN  SetToSortSeq(keys, LAMBDA j, k : Rank(j) < Rank(k))

\* The batch drained from the keys marked dirty, given what the store holds: a
\* request that is no longer pending is a deletion.
BatchOf(keys, id, c, i, requests) ==
    LET Record(k) == {r \in requests : <<"pending", r.id>> = k}
        Value(k) == IF k = <<"counters">> THEN c
                    ELSE IF k = <<"ratchet">> THEN i
                    ELSE IF Record(k) = {} THEN None ELSE CHOOSE r \in Record(k) : TRUE
        Deleted == {k \in keys : Value(k) = None}
        order == WriteOrder(keys, Deleted)
    IN  [id |-> id, ops |-> [n \in 1 .. Len(order) |->
                                [key |-> order[n], value |-> Value(order[n])]]]

\* Faulty variant of IsReleased: the range stops short of the required batch.
IsReleasedExclusive(required, open) == \A b \in open : b >= required

\* Every batch up to the required one has been acknowledged.
IsReleased(required, open) == \A b \in open : b > required

-----------------------------------------------------------------------------
(* Completing a request takes it out of the queue and marks its record     *)
(* deleted; a retry only gives its lane back.                              *)

\* Faulty variant of ClearInFlight: the lane's flag is left set.
ClearInFlightKeepingFlag(r) ==
    /\ in_flight' = in_flight \ {r.id}
    /\ UNCHANGED busy

ClearInFlight(r) ==
    /\ in_flight' = in_flight \ {r.id}
    /\ busy' = busy \ {r.lane}

\* Faulty variants of Complete: the id stays in flight, or the record is not
\* marked deleted.
CompleteStillInFlight(r) ==
    /\ pending' = pending \ {r}
    /\ UNCHANGED <<in_flight, busy>>
    /\ backoff' = backoff \ {r.id}
    /\ dirty' = dirty \union {<<"pending", r.id>>}
    /\ UNCHANGED <<next_batch, unacked, batches>>

CompleteKeepingRecord(r) ==
    /\ pending' = pending \ {r}
    /\ ClearInFlight(r)
    /\ backoff' = backoff \ {r.id}
    /\ UNCHANGED gateVars

Complete(r) ==
    /\ pending' = pending \ {r}
    /\ ClearInFlight(r)
    /\ backoff' = backoff \ {r.id}
    /\ dirty' = dirty \union {<<"pending", r.id>>}
    /\ UNCHANGED <<next_batch, unacked, batches>>

Retry(r) ==
    /\ ClearInFlight(r)
    /\ backoff' = backoff \union {r.id}
    /\ UNCHANGED <<pending, gateVars>>

-----------------------------------------------------------------------------
(* Enqueuing.  Minting the id saves the counters, encrypting saves the     *)
(* ratchet, and only then is everything dirty sealed into the batch the    *)
(* request must wait for; the request's own record is dirty afterwards and *)
(* rides in a later batch.  An id that is already pending is a no-op.      *)

Enqueue(lane) ==
    LET id == counter
        i == IF lane \in Encrypted THEN ratchet ELSE -1
        keys == dirty \union {<<"counters">>}
                      \union (IF lane \in Encrypted THEN {<<"ratchet">>} ELSE {})
        r == [id |-> id, lane |-> lane, index |-> i, required_seq |-> next_batch]
    IN  /\ counter < MaxRequests
        /\ counter' = counter + 1
        /\ ratchet' = IF lane \in Encrypted THEN ratchet + 1 ELSE ratchet
        /\ IF id \in IdsOf(pending)
           THEN dirty' = keys /\ UNCHANGED <<pending, next_batch, unacked, batches>>
           ELSE /\ batches' = Append(batches,
                                BatchOf(keys, next_batch, counter', ratchet', pending))
                /\ unacked' = unacked \union {next_batch}
                /\ next_batch' = next_batch + 1
                /\ pending' = pending \union {r}
                /\ dirty' = {<<"pending", id>>}

\* A command of the host queues one request and the host persists; handling a
\* response while a step runs queues one too, and the step persists later.
Dispatch(lane) ==
    /\ phase \in {"idle", "run"}
    /\ Enqueue(lane)
    /\ phase' = IF phase = "idle" THEN "settle" ELSE phase
    /\ UNCHANGED <<in_flight, busy, backoff, writing, disk, todo, flight, worldVars,
                   failures, restored>>

-----------------------------------------------------------------------------
(* persist: take one batch after another, write its records one by one,    *)
(* acknowledge it.  A record that cannot be written ends the call with an  *)
(* error; the batch it belonged to has already left the core.              *)

Persisting == phase \in {"flush", "reflush", "settle"}
NothingToPersist == writing = None /\ batches = <<>> /\ dirty = {}

PersistTake ==
    /\ Persisting /\ writing = None
    /\ \/ /\ batches # <<>>
          /\ writing' = Head(batches)
          /\ batches' = Tail(batches)
          /\ UNCHANGED <<dirty, next_batch, unacked>>
       \/ /\ batches = <<>> /\ dirty # {}
          /\ writing' = BatchOf(dirty, next_batch, counter, ratchet, pending)
          /\ unacked' = unacked \union {next_batch}
          /\ next_batch' = next_batch + 1
          /\ dirty' = {}
          /\ UNCHANGED batches
    /\ UNCHANGED <<queueVars, disk, driverVars, worldVars, failures, restored>>

\* The file of a record is replaced, created or removed.
Written(d, op) ==
    CASE op.key = <<"counters">> -> [d EXCEPT !.counter = op.value]
      [] op.key = <<"ratchet">> -> [d EXCEPT !.ratchet = op.value]
      [] OTHER -> [d EXCEPT !.pending =
                     {r \in @ : r.id # op.key[2]}
                     \union (IF op.value = None THEN {} ELSE {op.value})]

PersistWrite ==
    /\ writing # None /\ writing.ops # <<>>
    /\ disk' = Written(disk, Head(writing.ops))
    /\ writing' = [writing EXCEPT !.ops = Tail(@)]
    /\ UNCHANGED <<queueVars, gateVars, driverVars, worldVars, failures, restored>>

\* FlushGate::ack
PersistAck ==
    /\ writing # None /\ writing.ops = <<>>
    /\ unacked' = unacked \ {writing.id}
    /\ writing' = None
    /\ UNCHANGED <<queueVars, dirty, next_batch, batches, disk, driverVars, worldVars,
                   failures, restored>>

PersistFails ==
    /\ writing # None /\ writing.ops # <<>>
    /\ failures < MaxFailures
    /\ writing' = None
    /\ phase' = "idle"
    /\ failures' = failures + 1
    /\ UNCHANGED <<queueVars, gateVars, disk, todo, flight, worldVars, restored>>

\* The call that only had to persist returns.
Settle ==
    /\ phase = "settle" /\ NothingToPersist
    /\ phase' = "idle"
    /\ UNCHANGED <<queueVars, gateVars, writing, disk, todo, flight, worldVars, failures,
                   restored>>

-----------------------------------------------------------------------------
(* Driver::step.                                                           *)

StartStep ==
    /\ phase = "idle"
    /\ phase' = "flush"
    /\ UNCHANGED <<queueVars, gateVars, writing, disk, todo, flight, worldVars, failures,
                   restored>>

\* OutgoingQueue::releasable: in id order, whatever is not in flight, not
\* backing off, flushed, and whose lane has room once the earlier ones are out.
\* Only the oldest account data write is ever a candidate.
Eligible(r, open) ==
    r.id \notin in_flight /\ r.id \notin backoff /\ IsReleased(r.required_seq, open)

\* Faulty variant of HasRoom: account data is one in flight at a time, but a
\* write that backs off does not hold the later ones back.
HasRoomOvertaking(r, requests, open) ==
    LET Lane == {e \in requests : e.lane = r.lane}
    IN  IF r.lane = "Other"
        THEN Cardinality({e \in Lane : e.id \in in_flight \/ (e.id < r.id /\ Eligible(e, open))})
                < OtherLimit
        ELSE \A e \in Lane : e.id \notin in_flight /\ (e.id < r.id => ~ Eligible(e, open))

HasRoom(r, requests, open) ==
    LET Earlier == {e \in requests : e.lane = r.lane /\ e.id < r.id}
        Ahead == {e \in Earlier : Eligible(e, open)}
    IN  CASE r.lane = "AccountData" -> Earlier = {}
          [] r.lane = "Other" ->
                Cardinality(Ahead \union {e \in requests : e.lane = "Other" /\ e.id \in in_flight})
                    < OtherLimit
          [] OTHER -> r.lane \notin busy /\ Ahead = {}

Releasable(requests, open) ==
    {r \in requests : Eligible(r, open) /\ HasRoom(r, requests, open)}

\* MessengerCore::ensure_sync_enqueued: one /sync is always wanted.
EnsureSyncEnqueued ==
    IF counter = MaxRequests \/ \E r \in pending : r.lane = "Sync"
    THEN UNCHANGED <<counter, ratchet, pending, gateVars>>
    ELSE Enqueue("Sync")

\* What is released is in flight at once; the sync goes to its worker, the
\* others are executed here, in order.
Release(out) ==
    LET others == {r \in out : r.lane # "Sync"}
    IN  /\ in_flight' = in_flight \union IdsOf(out)
        /\ busy' = busy \union ({r.lane : r \in out} \intersect FlaggedLanes)
        /\ todo' = SetToSortSeq(others, LAMBDA r, s : r.id < s.id)
        /\ flight' = IF out = others THEN flight ELSE CHOOSE r \in out : r.lane = "Sync"
        /\ phase' = IF out # {} THEN "run" ELSE IF phase = "flush" THEN "reflush" ELSE "idle"

\* release_after_flush: everything is on disk, a sync is minted if none is
\* pending, and what may go is released.  When that is nothing, the step
\* persists and asks once more.
ReleaseAfterFlush ==
    /\ phase \in {"flush", "reflush"} /\ NothingToPersist
    /\ EnsureSyncEnqueued
    /\ Release(Releasable(pending', unacked'))
    /\ UNCHANGED <<backoff, writing, disk, worldVars, failures, restored>>

\* The request's bytes leave the process; the server may apply it.
Sends(r, applied) ==
    /\ sent' = IF r.index >= 0 THEN sent \union {r.index} ELSE sent
    /\ held' = IF applied /\ r.lane = "AccountData" THEN r.id ELSE held

Executing == phase = "run" /\ todo # <<>>

\* roundtrip with a 2xx (applied) or a terminal error answer (not applied).
Answered(applied) ==
    /\ Executing
    /\ Sends(Head(todo), applied)
    /\ Complete(Head(todo))
    /\ todo' = Tail(todo)
    /\ UNCHANGED <<counter, ratchet, writing, disk, phase, flight, failures, restored>>

\* roundtrip with a 429 or 5xx answer, which may come after the write was applied.
ToldToRetry(applied) ==
    /\ Executing
    /\ Sends(Head(todo), applied)
    /\ Retry(Head(todo))
    /\ todo' = Tail(todo)
    /\ UNCHANGED <<counter, ratchet, writing, disk, phase, flight, failures, restored>>

\* roundtrip without an answer: the step ends with the error, and the requests
\* released after this one are not executed.
TransportError(applied) ==
    /\ Executing
    /\ Sends(Head(todo), applied)
    /\ Retry(Head(todo))
    /\ todo' = <<>>
    /\ phase' = "idle"
    /\ UNCHANGED <<counter, ratchet, writing, disk, flight, failures, restored>>

StepExecuted ==
    /\ phase = "run" /\ todo = <<>>
    /\ phase' = "settle"
    /\ UNCHANGED <<queueVars, gateVars, writing, disk, todo, flight, worldVars, failures,
                   restored>>

\* harvest_sync: the worker's answer is fed to the core, then persisted.
HarvestSync ==
    /\ phase = "idle" /\ flight # None
    /\ Complete(flight) \/ Retry(flight)
    /\ flight' = None
    /\ phase' = "settle"
    /\ UNCHANGED <<counter, ratchet, writing, disk, todo, worldVars, failures, restored>>

\* The poll failed, timed out or was abandoned: nothing is persisted.
DropFlight ==
    /\ phase = "idle" /\ flight # None
    /\ Retry(flight)
    /\ flight' = None
    /\ UNCHANGED <<counter, ratchet, writing, disk, phase, todo, worldVars, failures, restored>>

\* A later `now_ms` makes a retried request releasable again.
BackoffElapses(id) ==
    /\ id \in backoff
    /\ backoff' = backoff \ {id}
    /\ UNCHANGED <<counter, ratchet, pending, in_flight, busy, gateVars, writing, disk,
                   driverVars, worldVars, failures, restored>>

-----------------------------------------------------------------------------
(* MessengerCore::open from the files of the session directory: nothing is *)
(* in flight, no backoff, a fresh gate; a restored sync is discarded and   *)
(* the request counter is moved past every restored request.               *)

\* Faulty variant of RestoreCounter: only the persisted value counts.
RestoreCounterAsPersisted(persisted, ids) == persisted

RestoreCounter(persisted, ids) ==
    IF ids = {} THEN persisted ELSE MaxOf({persisted, MaxOf(ids) + 1})

Reopen ==
    LET syncs == {r \in disk.pending : r.lane = "Sync"}
        c == RestoreCounter(disk.counter, IdsOf(disk.pending))
    IN  /\ counter' = c
        /\ ratchet' = disk.ratchet
        /\ pending' = disk.pending \ syncs
        /\ dirty' = {<<"pending", r.id>> : r \in syncs}
                    \union (IF c = disk.counter THEN {} ELSE {<<"counters">>})
        /\ in_flight' = {} /\ busy' = {} /\ backoff' = {}
        /\ next_batch' = 0 /\ unacked' = {} /\ batches' = <<>>
        /\ writing' = None
        /\ phase' = "idle" /\ todo' = <<>> /\ flight' = None
        /\ restored' = IdsOf(disk.pending)
        /\ UNCHANGED <<disk, worldVars, failures>>

-----------------------------------------------------------------------------
Init ==
    /\ counter = 0 /\ ratchet = 0 /\ pending = {}
    /\ in_flight = {} /\ busy = {} /\ backoff = {}
    /\ dirty = {} /\ next_batch = 0 /\ unacked = {} /\ batches = <<>>
    /\ writing = None
    /\ disk = [counter |-> 0, ratchet |-> 0, pending |-> {}]
    /\ phase = "idle" /\ todo = <<>> /\ flight = None
    /\ sent = {} /\ held = -1
    /\ failures = 0 /\ restored = {}

Next ==
    \/ \E lane \in CommandLanes : Dispatch(lane)
    \/ PersistTake
    \/ PersistWrite
    \/ PersistAck
    \/ PersistFails
    \/ Settle
    \/ StartStep
    \/ ReleaseAfterFlush
    \/ \E applied \in BOOLEAN : Answered(applied)
    \/ \E applied \in BOOLEAN : ToldToRetry(applied)
    \/ \E applied \in BOOLEAN : TransportError(applied)
    \/ StepExecuted
    \/ HarvestSync
    \/ DropFlight
    \/ \E id \in Ids : BackoffElapses(id)
    \/ Reopen

Spec == Init /\ [][Next]_vars

-----------------------------------------------------------------------------
(* Properties.                                                             *)

\* The state has the shape the Rust types give it: requests, batches and files
\* hold what OutgoingQueue, FlushGate and the record files can hold.
TypeOK ==
    /\ counter \in 0 .. MaxRequests /\ ratchet \in 0 .. MaxRequests
    /\ pending \subseteq PendingRequest
    /\ in_flight \subseteq IdsOf(pending) /\ backoff \subseteq IdsOf(pending)
    /\ busy \subseteq FlaggedLanes
    /\ dirty \subseteq Keys
    /\ next_batch \in BatchIds /\ unacked \subseteq BatchIds
    /\ batches \in Seq(Batch) /\ writing \in Batch \union {None}
    /\ disk \in [counter : 0 .. MaxRequests, ratchet : 0 .. MaxRequests,
                 pending : SUBSET PendingRequest]
    /\ phase \in {"idle", "flush", "reflush", "run", "settle"}
    /\ todo \in Seq(PendingRequest) /\ flight \in PendingRequest \union {None}
    /\ sent \subseteq 0 .. MaxRequests - 1 /\ held \in -1 .. MaxRequests - 1
    /\ failures \in 0 .. MaxFailures /\ restored \subseteq Ids

\* The barrier of persist.rs: ciphertext that has left the process was made with
\* a ratchet whose advance is on disk, so no restart can use the index again.
FlushBeforeSend == \A i \in sent : disk.ratchet > i

\* The barrier holds while no write of a record fails, and even after one for
\* every request the running process queued itself: a batch that was not
\* written is never acknowledged, so what waits for it is never released.
SentIsDurable ==
    /\ failures = 0 => FlushBeforeSend
    /\ \A r \in pending :
          r.id \in in_flight \ restored => disk.ratchet > r.index

\* OutgoingQueue::enqueue drops a request whose id is already pending, and a
\* record file is replaced by id: the next id is past every request the queue
\* or the disk knows, across crashes and failed writes.
FreshIds == \A r \in pending \union disk.pending : r.id < counter

\* Lanes: one request of a room, of to-device and of sync in flight, the oldest
\* write only for account data, OTHER_LANE_CONCURRENCY for the rest; and the
\* sync the lane admits finds the driver's worker slot free.
LaneLimits ==
    LET Flying(lane) == {r \in pending : r.lane = lane /\ r.id \in in_flight}
    IN  /\ \A lane \in FlaggedLanes :
              Cardinality(Flying(lane)) = (IF lane \in busy THEN 1 ELSE 0)
        /\ \A r \in Flying("AccountData") : \A e \in pending :
              e.lane = "AccountData" => r.id =< e.id
        /\ Cardinality(Flying("Other")) =< OtherLimit
        /\ Flying("Sync") = (IF flight = None THEN {} ELSE {flight})

\* Account data writes replace a whole value, so an older one must never land
\* after a newer one: not when a retry is due, not when a crash makes the queue
\* send again what the server may already hold (as long as no write failed).
AccountDataNeverRegresses == [][failures' = 0 => held' >= held]_vars

\* When the host has nothing left to persist, the files hold exactly the state
\* the core has in memory: a crash then loses nothing.
DiskMatchesMemory ==
    NothingToPersist /\ failures = 0 =>
        disk = [counter |-> counter, ratchet |-> ratchet, pending |-> pending]

\* A request that is in flight is one the driver is executing or still will
\* execute: its lane is not held by a request nobody drives any more.
NothingStranded ==
    failures = 0 =>
    in_flight = IdsOf(ToSet(todo)) \union (IF flight = None THEN {} ELSE {flight.id})

\* Lane::ToDevice is strictly ordered across retries: the request in flight is
\* the oldest one pending.
ToDeviceInOrder ==
    failures = 0 => \A r, e \in pending :
        r.lane = "ToDevice" /\ e.lane = "ToDevice" /\ r.id \in in_flight => r.id =< e.id

=============================================================================
