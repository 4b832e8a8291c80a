------------------------------ MODULE Retention ------------------------------
(***************************************************************************)
(* The homeserver's delivery-window retention (retention.rs) with the      *)
(* polls that feed it (http/sync.rs): a /sync with a token is the device's *)
(* acknowledgement of everything up to that token, and every pass of the   *)
(* purge drops the messages of a closed room that every live device of     *)
(* every joined member has acknowledged, or that are older than the TTL.   *)
(*                                                                         *)
(* There is one room; its messages and its membership events are numbered  *)
(* by stream id.  A tick of the clock stands for any stretch of time; the  *)
(* windows of the policy are numbers of ticks in the same order as in the  *)
(* code.                                                                   *)
(***************************************************************************)
EXTENDS Option, Integers, Sequences, FiniteSets, FiniteSetsExt

CONSTANTS
    Readers, ReaderOwner,        \* the devices, and the account of each
    PageLimit,                   \* messages in one timeline page
    AckGrace, StaleDevice, Ttl,  \* ack_grace_ms, stale_device_ms, ttl_ms
    KeepLast, PurgeBatch,        \* keep_last, PURGE_BATCH
    MaxPosts, MaxClock, MaxRetentionFaults   \* bounds

ASSUME RetentionAssumption ==
    /\ DOMAIN ReaderOwner = Readers
    /\ {PageLimit, PurgeBatch} \subseteq Nat \ {0}
    /\ {AckGrace, StaleDevice, Ttl, KeepLast, MaxPosts, MaxClock, MaxRetentionFaults} \subseteq Nat
    /\ AckGrace < Ttl /\ None \notin Nat

VARIABLES
    clock,
    postedAt,   \* origin_server_ts of each event ever stored, by stream id
    moves,      \* the membership events: stream id to account
    kept,       \* the messages still stored
    present,    \* the accounts whose membership is join
    acks,       \* device_acks: the stream id and time of each device, or None
    since,      \* each device's own token, None before its first answer
    answer,     \* the /sync answer on its way to each device, or None
    owed,       \* the stored messages posted while its account was joined that
                \* each device has not received
    passed,     \* the ones among them that a limited page left out of an answer
    retentionFaults

retentionVars ==
    <<clock, postedAt, moves, kept, present, acks, since, answer, owed, passed, retentionFaults>>

\* The answer of a poll that has recorded its ack and not read its page.
Pending == [events |-> {}, skipped |-> {}, upto |-> -1]

RoomOf(us) == {d \in Readers : ReaderOwner[d] \in us}
Accounts == {ReaderOwner[d] : d \in Readers}

RetentionInit ==
    /\ clock = 0 /\ postedAt = <<>> /\ moves = <<>> /\ kept = {}
    /\ present \in SUBSET Accounts \ {{}}
    /\ acks = [d \in Readers |-> None] /\ since = [d \in Readers |-> None]
    /\ answer = [d \in Readers |-> None]
    /\ owed = [d \in Readers |-> {}] /\ passed = [d \in Readers |-> {}]
    /\ retentionFaults = 0

----------------------------------------------------------------------------
PostMessage ==
    /\ Len(postedAt) < MaxPosts
    /\ LET e == Len(postedAt) + 1
       IN  /\ postedAt' = Append(postedAt, clock)
           /\ kept' = kept \cup {e}
           /\ owed' = [d \in Readers |->
                  IF d \in RoomOf(present) THEN owed[d] \cup {e} ELSE owed[d]]
    /\ UNCHANGED <<clock, moves, present, acks, since, answer, passed, retentionFaults>>

RetentionTick ==
    /\ clock < MaxClock
    /\ clock' = clock + 1
    /\ UNCHANGED <<postedAt, moves, kept, present, acks, since, answer, owed, passed, retentionFaults>>

\* An account leaves, and what it had not fetched is no longer owed to it, or
\* it joins again.  Either is an event of the room, and is never purged.
MemberChanges ==
    /\ retentionFaults < MaxRetentionFaults
    /\ retentionFaults' = retentionFaults + 1
    /\ postedAt' = Append(postedAt, clock)
    /\ \E u \in Accounts :
        /\ moves' = [e \in DOMAIN moves \cup {Len(postedAt) + 1} |->
                        IF e \in DOMAIN moves THEN moves[e] ELSE u]
        /\ present' = IF u \in present THEN present \ {u} ELSE present \cup {u}
        /\ owed' = [d \in Readers |-> IF ReaderOwner[d] = u THEN {} ELSE owed[d]]
        /\ passed' = [d \in Readers |-> IF ReaderOwner[d] = u THEN {} ELSE passed[d]]
    /\ UNCHANGED <<clock, kept, acks, since, answer>>

\* record_device_ack: an older token never moves the ack back.
RecordDeviceAck(d, t) ==
    acks' = [acks EXCEPT ![d] =
        [stream |-> IF acks[d] = None \/ acks[d].stream < t THEN t ELSE acks[d].stream,
         at |-> clock]]

\* A poll begins with a write of its own: the token is recorded as the device's
\* ack.
PollRecordsAck(d) ==
    /\ answer[d] = None
    /\ IF since[d] = None THEN UNCHANGED acks ELSE RecordDeviceAck(d, since[d])
    /\ answer' = [answer EXCEPT ![d] = Pending]
    /\ UNCHANGED <<clock, postedAt, moves, kept, present, since, owed, passed, retentionFaults>>

LastOf(es, n) == {e \in es : Cardinality({f \in es : f > e}) < n}
FirstOf(es, n) == {e \in es : Cardinality({f \in es : f < e}) < n}

\* A first sync, and one whose account joined after its token, see the room
\* from its beginning.
FullView(d) ==
    since[d] = None \/ \E e \in DOMAIN moves : moves[e] = ReaderOwner[d] /\ e > since[d]

\* build_join_room_block: the last page of the room, or, after a token, the
\* first PageLimit + 1 events without the oldest ones in excess.
TimelinePage(d, es) ==
    LastOf(IF FullView(d) THEN es ELSE FirstOf(es, PageLimit + 1), PageLimit)

\* The answer is read in a second step; its token is the stream counter.  No room
\* filter: only sliding sync, which is not modelled, passes one.
PollReadsPage(d) ==
    /\ answer[d] = Pending
    /\ LET fresh == {e \in kept \cup DOMAIN moves :
                        d \in RoomOf(present) /\ (FullView(d) \/ e > since[d])}
           page == TimelinePage(d, fresh)
       IN  answer' = [answer EXCEPT ![d] =
               [events |-> page, skipped |-> fresh \ page, upto |-> Len(postedAt)]]
    /\ UNCHANGED <<clock, postedAt, moves, kept, present, acks, since, owed, passed, retentionFaults>>

\* The device stores the answer and its token.
AnswerArrives(d) ==
    /\ answer[d] \notin {None, Pending}
    /\ owed' = [owed EXCEPT ![d] = @ \ answer[d].events]
    /\ passed' = [passed EXCEPT ![d] = @ \cup (answer[d].skipped \cap owed[d])]
    /\ since' = [since EXCEPT ![d] = answer[d].upto]
    /\ answer' = [answer EXCEPT ![d] = None]
    /\ UNCHANGED <<clock, postedAt, moves, kept, present, acks, retentionFaults>>

\* The answer is lost: the device polls again with the token it has.
AnswerLost(d) ==
    /\ answer[d] # None
    /\ retentionFaults < MaxRetentionFaults
    /\ retentionFaults' = retentionFaults + 1
    /\ answer' = [answer EXCEPT ![d] = None]
    /\ UNCHANGED <<clock, postedAt, moves, kept, present, acks, since, owed, passed>>

----------------------------------------------------------------------------
\* A device that never acked, or acked within the window, holds deletion back.
Stale(d) == acks[d] # None /\ clock - acks[d].at > StaleDevice

\* Faulty variant of AckBound: a device that never acked is ignored like a
\* stale one.
AckBoundIgnoringNewcomers ==
    LET holding == {d \in RoomOf(present) : acks[d] # None /\ ~ Stale(d)}
    IN  IF holding = {} THEN -1 ELSE Min({acks[d].stream : d \in holding})

\* The lowest stream id acknowledged by every device that holds deletion back;
\* -1 when one of them never acked, or when there is none.
AckBound ==
    LET holding == {d \in RoomOf(present) : ~ Stale(d)}
    IN  IF holding = {} \/ \E d \in holding : acks[d] = None THEN -1
        ELSE Min({acks[d].stream : d \in holding})

\* eligible_ids.
Purgeable ==
    {e \in kept :
        /\ Cardinality({f \in kept : f > e}) >= KeepLast
        /\ \/ e <= AckBound /\ postedAt[e] <= clock - AckGrace
           \/ postedAt[e] <= clock - Ttl}

\* purge_delivered_events: one transaction drops at most a batch.
PurgeDeliveredEvents ==
    /\ \E batch \in SUBSET Purgeable :
        /\ batch # {}
        /\ Cardinality(batch) = Min({Cardinality(Purgeable), PurgeBatch})
        /\ kept' = kept \ batch
        /\ owed' = [d \in Readers |-> owed[d] \ batch]
        /\ passed' = [d \in Readers |-> passed[d] \ batch]
    /\ UNCHANGED <<clock, postedAt, moves, present, acks, since, answer, retentionFaults>>

RetentionNext ==
    \/ PostMessage \/ RetentionTick \/ MemberChanges \/ PurgeDeliveredEvents
    \/ \E d \in Readers :
        \/ PollRecordsAck(d) \/ PollReadsPage(d)
        \/ AnswerArrives(d) \/ AnswerLost(d)

RetentionSpec == RetentionInit /\ [][RetentionNext]_retentionVars

----------------------------------------------------------------------------
\* Shapes of the store and of the devices' tokens.
RetentionTypeOK ==
    /\ kept \cup DOMAIN moves \subseteq DOMAIN postedAt /\ kept \cap DOMAIN moves = {}
    /\ \A d \in Readers :
        /\ acks[d] # None => acks[d].stream \in 0 .. Len(postedAt) /\ acks[d].at <= clock
        /\ passed[d] \subseteq owed[d] /\ owed[d] \subseteq kept

\* A message younger than the TTL is purged only when every device of a joined
\* member that holds deletion back, and for which it was posted, was sent it in
\* an answer it stored; the one exception is what a limited page left out,
\* which the token acknowledges although the device never saw it.
PurgedWasDelivered ==
    [][\A e \in kept \ kept' : clock - postedAt[e] < Ttl =>
           \A d \in RoomOf(present) :
               ~ Stale(d) /\ e \in owed[d] => e \in passed[d]]_retentionVars
=============================================================================
