--------------------------- MODULE RetentionProofs ---------------------------
(***************************************************************************)
(* What the purge may drop, for every set of devices, any page and batch   *)
(* size, any windows, and any number of messages, lost answers and         *)
(* membership changes.                                                     *)
(***************************************************************************)
EXTENDS Retention, WellFoundedInduction, TLAPS

(* A set of stream ids has a least one, the one `Min` names. *)
LEMMA LeastStreamId ==
    ASSUME NEW S \in SUBSET Nat, S # {}
    PROVE  Min(S) \in S /\ \A n \in S : Min(S) <= n
<1>1. \E x \in S : \A y \in S : ~ (<<y, x>> \in OpToRel(<, Nat))
  BY WFMin, NatLessThanWellFounded
<1>2. PICK x \in S : \A y \in S : ~ (<<y, x>> \in OpToRel(<, Nat))
  BY <1>1
<1>3. ASSUME NEW y \in S
      PROVE  x <= y
  <2>1. <<y, x>> \in Nat \X Nat /\ ~ (y < x)
    BY <1>2 DEF OpToRel
  <2> QED
    BY <2>1
<1> QED
  BY <1>3 DEF Min

-----------------------------------------------------------------------------
Answers == [events : SUBSET Nat, skipped : SUBSET Nat, upto : Nat]

\* Shapes the argument needs.
Shapes ==
    /\ clock \in Nat /\ postedAt \in Seq(Nat) /\ kept \subseteq 1 .. Len(postedAt)
    /\ DOMAIN moves \subseteq Nat
    /\ acks \in [Readers -> {None} \cup [stream : Nat, at : Nat]]
    /\ since \in [Readers -> {None} \cup Nat]
    /\ answer \in [Readers -> {None, Pending} \cup Answers]
    /\ owed \in [Readers -> SUBSET kept]
    /\ passed \in [Readers -> SUBSET Nat]

\* A message lies behind the token of a device.
Behind(d, e) == since[d] # None /\ e <= since[d]

\* The inductive invariant, for one device.  What lies behind its token the device
\* has, or it was left out of a page; what an answer steps over it contains or
\* leaves out; and no ack is ahead of the token.
DeviceInv(d) ==
    /\ owed[d] # {} => ReaderOwner[d] \in present
    /\ since[d] # None => since[d] <= Len(postedAt)
    /\ acks[d] # None => since[d] # None /\ acks[d].stream <= since[d]
    /\ \A e \in owed[d] : Behind(d, e) => e \in passed[d]
    /\ answer[d] \notin {None, Pending} =>
        /\ answer[d].upto <= Len(postedAt)
        /\ since[d] # None => since[d] <= answer[d].upto
        /\ \A e \in owed[d] :
            e <= answer[d].upto /\ ~ Behind(d, e) => e \in answer[d].events \cup answer[d].skipped

RetentionInv == Shapes /\ \A d \in Readers : DeviceInv(d)

(* Stream ids are numbers. *)
LEMMA StreamIds ==
    ASSUME Shapes
    PROVE  /\ Len(postedAt) \in Nat
           /\ \A e \in kept : e \in Nat /\ 1 <= e /\ e <= Len(postedAt)
           /\ \A d \in Readers : owed[d] \subseteq kept
<1>1. Len(postedAt) \in Nat
  BY DEF Shapes
<1>2. ASSUME NEW e \in kept
      PROVE  e \in Nat /\ 1 <= e /\ e <= Len(postedAt)
  <2>1. e \in 1 .. Len(postedAt)
    BY DEF Shapes
  <2> QED
    BY <1>1, <2>1
<1>3. \A d \in Readers : owed[d] \subseteq kept
  BY DEF Shapes
<1> QED
  BY <1>1, <1>2, <1>3

(* It holds of an empty room. *)
LEMMA RetentionInvInit ==
    ASSUME RetentionInit
    PROVE  RetentionInv
BY RetentionAssumption DEF RetentionInit, RetentionInv, Shapes, DeviceInv, Behind

(* A new message is ahead of every token and of every answer. *)
LEMMA PostKeeps ==
    ASSUME RetentionInv, PostMessage
    PROVE  RetentionInv'
<1> DEFINE n == Len(postedAt) + 1
<1>1. Shapes /\ \A d \in Readers : DeviceInv(d)
  BY DEF RetentionInv
<1>2. postedAt' \in Seq(Nat) /\ Len(postedAt') = n /\ Len(postedAt) \in Nat
  BY <1>1 DEF PostMessage, Shapes
<1>3. kept' = kept \cup {n}
  BY DEF PostMessage
<1>4. owed' \in [Readers -> SUBSET kept']
  BY <1>1, <1>3 DEF PostMessage, Shapes
<1>5. UNCHANGED <<clock, moves, present, acks, since, answer, passed>>
  BY DEF PostMessage
<1>6. Shapes'
  <2>1. kept' \subseteq 1 .. Len(postedAt')
    <3>1. ASSUME NEW e \in kept'
          PROVE  e \in 1 .. Len(postedAt')
      BY <1>1, <1>2, <1>3, StreamIds
    <3> QED
      BY <3>1
  <2> QED
    BY <1>1, <1>2, <1>4, <1>5, <2>1 DEF Shapes
<1>7. ASSUME NEW d \in Readers
      PROVE  DeviceInv(d)'
  <2>1. owed'[d] \subseteq owed[d] \cup {n} /\ owed[d] \subseteq Nat
    BY <1>1, StreamIds DEF PostMessage, Shapes
  <2>2. n \in owed'[d] => ReaderOwner[d] \in present \/ n \in owed[d]
    BY DEF PostMessage, RoomOf
  <2>3. since[d] \in {None} \cup Nat /\ answer[d] \in {None, Pending} \cup Answers
    BY <1>1 DEF Shapes
  <2>4. DeviceInv(d)
    BY <1>1
  <2> QED
    BY <1>2, <1>5, <2>1, <2>2, <2>3, <2>4 DEF DeviceInv, Behind, Answers
<1> QED
  BY <1>6, <1>7 DEF RetentionInv

(* A membership event is ahead of every token; what the account was owed is dropped. *)
LEMMA MoveKeeps ==
    ASSUME RetentionInv, MemberChanges
    PROVE  RetentionInv'
<1>1. Shapes /\ \A d \in Readers : DeviceInv(d)
  BY DEF RetentionInv
<1>2. postedAt' \in Seq(Nat) /\ Len(postedAt') = Len(postedAt) + 1 /\ Len(postedAt) \in Nat
  BY <1>1 DEF MemberChanges, Shapes
<1>3. PICK u \in Accounts :
        /\ DOMAIN moves' = DOMAIN moves \cup {Len(postedAt) + 1}
        /\ present' = IF u \in present THEN present \ {u} ELSE present \cup {u}
        /\ owed' = [d \in Readers |-> IF ReaderOwner[d] = u THEN {} ELSE owed[d]]
        /\ passed' = [d \in Readers |-> IF ReaderOwner[d] = u THEN {} ELSE passed[d]]
  BY DEF MemberChanges
<1>4. UNCHANGED <<clock, kept, acks, since, answer>>
  BY DEF MemberChanges
<1>5. Shapes'
  <2>1. kept' \subseteq 1 .. Len(postedAt') /\ DOMAIN moves' \subseteq Nat
    <3>1. ASSUME NEW e \in kept'
          PROVE  e \in 1 .. Len(postedAt')
      BY <1>1, <1>2, <1>4, StreamIds
    <3> QED
      BY <1>1, <1>2, <1>3, <3>1 DEF Shapes
  <2>2. owed' \in [Readers -> SUBSET kept'] /\ passed' \in [Readers -> SUBSET Nat]
    BY <1>1, <1>3, <1>4 DEF Shapes
  <2> QED
    BY <1>1, <1>2, <1>4, <2>1, <2>2 DEF Shapes
<1>6. ASSUME NEW d \in Readers
      PROVE  DeviceInv(d)'
  <2>1. DeviceInv(d) /\ since[d] \in {None} \cup Nat /\ answer[d] \in {None, Pending} \cup Answers
    BY <1>1 DEF Shapes
  <2>2. CASE ReaderOwner[d] = u
    BY <1>2, <1>3, <1>4, <2>1, <2>2 DEF DeviceInv, Behind, Answers
  <2>3. CASE ReaderOwner[d] # u
    BY <1>2, <1>3, <1>4, <2>1, <2>3 DEF DeviceInv, Behind, Answers
  <2> QED
    BY <2>2, <2>3
<1> QED
  BY <1>5, <1>6 DEF RetentionInv

(* A poll records the token it came with as the device's ack. *)
LEMMA AckKeeps ==
    ASSUME RetentionInv, NEW r \in Readers, PollRecordsAck(r)
    PROVE  RetentionInv'
<1>1. Shapes /\ \A d \in Readers : DeviceInv(d)
  BY DEF RetentionInv
<1>2. UNCHANGED <<clock, postedAt, moves, kept, present, since, owed, passed>>
  BY DEF PollRecordsAck
<1>3. /\ answer' \in [Readers -> {None, Pending} \cup Answers]
      /\ answer'[r] = Pending /\ \A d \in Readers \ {r} : answer'[d] = answer[d]
  BY <1>1 DEF PollRecordsAck, Shapes
<1>4. CASE since[r] = None
  <2>1. acks' = acks
    BY <1>4 DEF PollRecordsAck
  <2> QED
    BY <1>1, <1>2, <1>3, <2>1 DEF RetentionInv, Shapes, DeviceInv, Behind
<1>5. CASE since[r] # None
  <2>1. since[r] \in Nat /\ clock \in Nat
    BY <1>1, <1>5 DEF Shapes
  <2> DEFINE new == [stream |-> IF acks[r] = None \/ acks[r].stream < since[r] THEN since[r]
                                ELSE acks[r].stream,
                     at |-> clock]
  <2>2. acks' = [acks EXCEPT ![r] = new]
    BY <1>5 DEF PollRecordsAck, RecordDeviceAck
  <2>3. acks[r] # None => acks[r].stream \in Nat /\ acks[r].stream <= since[r]
    BY <1>1 DEF Shapes, DeviceInv
  <2>4. new \in [stream : Nat, at : Nat] /\ new.stream <= since[r]
    BY <2>1, <2>3
  <2> HIDE DEF new
  <2>5. /\ acks' \in [Readers -> {None} \cup [stream : Nat, at : Nat]]
        /\ acks'[r] = new /\ \A d \in Readers \ {r} : acks'[d] = acks[d]
    BY <1>1, <2>2, <2>4 DEF Shapes
  <2>6. Shapes'
    BY <1>1, <1>2, <1>3, <2>5 DEF Shapes
  <2>7. ASSUME NEW d \in Readers
        PROVE  DeviceInv(d)'
    <3>1. DeviceInv(d)
      BY <1>1
    <3>2. CASE d = r
      BY <1>2, <1>3, <1>5, <2>4, <2>5, <3>1, <3>2 DEF DeviceInv, Behind
    <3>3. CASE d # r
      BY <1>2, <1>3, <2>5, <3>1, <3>3 DEF DeviceInv, Behind
    <3> QED
      BY <3>2, <3>3
  <2> QED
    BY <2>6, <2>7 DEF RetentionInv
<1> QED
  BY <1>4, <1>5

(* A page is part of what it is taken from. *)
LEMMA PageIsPart ==
    ASSUME NEW d, NEW es
    PROVE  TimelinePage(d, es) \subseteq es
BY DEF TimelinePage, LastOf, FirstOf

(* The page that is read contains or leaves out everything owed beyond the token. *)
LEMMA PageKeeps ==
    ASSUME RetentionInv, NEW r \in Readers, PollReadsPage(r)
    PROVE  RetentionInv'
<1>1. Shapes /\ \A d \in Readers : DeviceInv(d)
  BY DEF RetentionInv
<1> DEFINE fresh == {e \in kept \cup DOMAIN moves :
                        r \in RoomOf(present) /\ (FullView(r) \/ e > since[r])}
           page == TimelinePage(r, fresh)
           new == [events |-> page, skipped |-> fresh \ page, upto |-> Len(postedAt)]
<1>2. answer' = [answer EXCEPT ![r] = new]
  BY DEF PollReadsPage
<1>3. UNCHANGED <<clock, postedAt, moves, kept, present, acks, since, owed, passed>>
  BY DEF PollReadsPage
<1>4. page \subseteq fresh /\ fresh \subseteq Nat /\ Len(postedAt) \in Nat
  <2>1. kept \subseteq Nat /\ DOMAIN moves \subseteq Nat /\ Len(postedAt) \in Nat
    BY <1>1, StreamIds DEF Shapes
  <2>2. fresh \subseteq Nat
    BY <2>1
  <2>3. page \subseteq fresh
    BY PageIsPart
  <2> QED
    BY <2>1, <2>2, <2>3
<1>5. ASSUME NEW e \in owed[r], ~ Behind(r, e)
      PROVE  e \in fresh
  <2>1. e \in kept /\ e \in Nat /\ 1 <= e /\ since[r] \in {None} \cup Nat
    BY <1>1, StreamIds DEF Shapes
  <2>2. r \in RoomOf(present)
    BY <1>1 DEF DeviceInv, RoomOf
  <2>3. FullView(r) \/ e > since[r]
    BY <1>5, <2>1 DEF Behind, FullView
  <2> QED
    BY <2>1, <2>2, <2>3
<1> HIDE DEF fresh, page
<1>6. new \in Answers /\ new.upto = Len(postedAt) /\ fresh \subseteq new.events \cup new.skipped
  <2>1. page \in SUBSET Nat /\ fresh \ page \in SUBSET Nat
    BY <1>4
  <2> QED
    BY <1>4, <2>1 DEF Answers
<1> HIDE DEF new
<1>7. /\ answer' \in [Readers -> {None, Pending} \cup Answers]
      /\ answer'[r] = new /\ \A d \in Readers \ {r} : answer'[d] = answer[d]
  BY <1>1, <1>2, <1>6 DEF Shapes
<1>8. Shapes'
  BY <1>1, <1>3, <1>7 DEF Shapes
<1>9. ASSUME NEW d \in Readers
      PROVE  DeviceInv(d)'
  <2>1. DeviceInv(d) /\ since[d] \in {None} \cup Nat
    BY <1>1 DEF Shapes
  <2>2. CASE d = r
    <3>1. new.upto <= Len(postedAt) /\ (since[d] # None => since[d] <= new.upto)
      BY <1>4, <1>6, <2>1 DEF DeviceInv
    <3>2. \A e \in owed[d] : ~ Behind(d, e) => e \in new.events \cup new.skipped
      BY <1>5, <1>6, <2>2
    <3> QED
      BY <1>3, <1>7, <2>1, <2>2, <3>1, <3>2 DEF DeviceInv, Behind
  <2>3. CASE d # r
    BY <1>3, <1>7, <2>1, <2>3 DEF DeviceInv, Behind
  <2> QED
    BY <2>2, <2>3
<1> QED
  BY <1>8, <1>9 DEF RetentionInv

(* The device stores an answer: what it steps over is received or passed. *)
LEMMA ArrivalKeeps ==
    ASSUME RetentionInv, NEW r \in Readers, AnswerArrives(r)
    PROVE  RetentionInv'
<1>1. Shapes /\ \A d \in Readers : DeviceInv(d)
  BY DEF RetentionInv
<1> DEFINE a == answer[r]
<1>2. a \in Answers /\ a \notin {None, Pending}
  BY <1>1 DEF AnswerArrives, Shapes
<1>3. UNCHANGED <<clock, postedAt, moves, kept, present, acks>>
  BY DEF AnswerArrives
<1>4. /\ owed' = [owed EXCEPT ![r] = owed[r] \ a.events]
      /\ passed' = [passed EXCEPT ![r] = passed[r] \cup (a.skipped \cap owed[r])]
      /\ since' = [since EXCEPT ![r] = a.upto]
      /\ answer' = [answer EXCEPT ![r] = None]
  BY DEF AnswerArrives
<1>5. a.upto \in Nat /\ a.events \subseteq Nat /\ a.skipped \subseteq Nat
  BY <1>2 DEF Answers
<1>6. Shapes'
  BY <1>1, <1>3, <1>4, <1>5 DEF Shapes
<1>7. ASSUME NEW d \in Readers
      PROVE  DeviceInv(d)'
  <2>1. /\ DeviceInv(d) /\ since[d] \in {None} \cup Nat /\ owed[d] \subseteq Nat
        /\ acks[d] # None => acks[d].stream \in Nat
    BY <1>1, StreamIds DEF Shapes
  <2>2. CASE d = r
    <3>1. /\ owed'[d] = owed[d] \ a.events /\ passed'[d] = passed[d] \cup (a.skipped \cap owed[d])
          /\ since'[d] = a.upto /\ answer'[d] = None
      BY <1>1, <1>4, <2>2 DEF Shapes
    <3>2. a.upto # None
      BY <1>5, RetentionAssumption
    <3>3. \A e \in owed[d] : e <= a.upto => e \in passed[d] \cup a.events \cup a.skipped
      BY <1>2, <2>1, <2>2 DEF DeviceInv
    <3>4. Len(postedAt) \in Nat
      BY <1>1 DEF Shapes
    <3> QED
      BY <1>2, <1>3, <1>5, <2>1, <2>2, <3>1, <3>2, <3>3, <3>4 DEF DeviceInv, Behind
  <2>3. CASE d # r
    <3>1. owed'[d] = owed[d] /\ passed'[d] = passed[d] /\ since'[d] = since[d] /\ answer'[d] = answer[d]
      BY <1>1, <1>4, <2>3 DEF Shapes
    <3> QED
      BY <1>3, <2>1, <3>1 DEF DeviceInv, Behind
  <2> QED
    BY <2>2, <2>3
<1> QED
  BY <1>6, <1>7 DEF RetentionInv

(* An answer is lost, time passes, someone leaves or joins, messages are purged. *)
LEMMA RetentionInvStep ==
    ASSUME RetentionInv, [RetentionNext]_retentionVars
    PROVE  RetentionInv'
<1> USE DEF RetentionInv, Shapes, DeviceInv, Behind
<1>1. CASE RetentionTick
  BY <1>1 DEF RetentionTick
<1>2. CASE MemberChanges
  BY <1>2, MoveKeeps
<1>3. CASE PurgeDeliveredEvents
  <2>1. PICK batch : /\ kept' = kept \ batch
                     /\ owed' = [d \in Readers |-> owed[d] \ batch]
                     /\ passed' = [d \in Readers |-> passed[d] \ batch]
    BY <1>3 DEF PurgeDeliveredEvents
  <2>2. UNCHANGED <<clock, postedAt, moves, present, acks, since, answer>>
    BY <1>3 DEF PurgeDeliveredEvents
  <2>3. kept' \subseteq 1 .. Len(postedAt')
    BY <2>1, <2>2
  <2>4. owed' \in [Readers -> SUBSET kept'] /\ passed' \in [Readers -> SUBSET Nat]
    BY <2>1
  <2>5. Shapes'
    BY <2>2, <2>3, <2>4
  <2> QED
    BY <2>1, <2>2, <2>5
<1>4. ASSUME NEW r \in Readers, AnswerLost(r)
      PROVE  RetentionInv'
  BY <1>4 DEF AnswerLost
<1>5. CASE UNCHANGED retentionVars
  BY <1>5 DEF retentionVars
<1> QED
  BY <1>1, <1>2, <1>3, <1>4, <1>5, PostKeeps, AckKeeps, PageKeeps, ArrivalKeeps
  DEF RetentionNext

(* The inductive invariant is an invariant. *)
LEMMA RetentionInvHolds == RetentionSpec => []RetentionInv
<1>1. RetentionInit => RetentionInv
  BY RetentionInvInit
<1>2. RetentionInv /\ [RetentionNext]_retentionVars => RetentionInv'
  BY RetentionInvStep
<1> QED
  BY <1>1, <1>2, PTL DEF RetentionSpec

-----------------------------------------------------------------------------
\* What PurgedWasDelivered says of one step.
DropsDelivered ==
    \A e \in kept \ kept' : clock - postedAt[e] < Ttl =>
        \A d \in RoomOf(present) : ~ Stale(d) /\ e \in owed[d] => e \in passed[d]

(* What the bound of eligible_ids covers lies behind the token of every device
   that holds deletion back. *)
LEMMA BoundIsBehind ==
    ASSUME RetentionInv, NEW e \in Nat, e <= AckBound, NEW d \in RoomOf(present), ~ Stale(d)
    PROVE  Behind(d, e)
<1> DEFINE holding == {r \in RoomOf(present) : ~ Stale(r)}
           streams == {acks[r].stream : r \in holding}
<1>1. d \in holding /\ holding \subseteq Readers
  BY DEF RoomOf
<1>2. AckBound # -1
  BY SMT
<1>3. (\A r \in holding : acks[r] # None) /\ AckBound = Min(streams)
  BY <1>2 DEF AckBound
<1>4. streams \in SUBSET Nat /\ acks[d].stream \in streams
  BY <1>1, <1>3 DEF RetentionInv, Shapes
<1> HIDE DEF streams
<1>5. Min(streams) \in Nat /\ Min(streams) <= acks[d].stream /\ acks[d].stream \in Nat
  BY <1>4, LeastStreamId
<1>6. since[d] # None /\ acks[d].stream <= since[d] /\ since[d] \in Nat
  BY <1>1, <1>3 DEF RetentionInv, DeviceInv, Shapes
<1> QED
  BY <1>3, <1>5, <1>6 DEF Behind

(* A purge drops nothing younger than the TTL that such a device has not passed. *)
LEMMA PurgeDropsDelivered ==
    ASSUME RetentionInv, PurgeDeliveredEvents
    PROVE  DropsDelivered
<1>1. SUFFICES ASSUME NEW e \in kept \ kept', clock - postedAt[e] < Ttl,
                      NEW d \in RoomOf(present), ~ Stale(d), e \in owed[d]
               PROVE  e \in passed[d]
  BY DEF DropsDelivered
<1>2. e \in Purgeable
  BY DEF PurgeDeliveredEvents
<1>3. e \in Nat /\ 1 <= e /\ e <= Len(postedAt) /\ postedAt[e] \in Nat /\ clock \in Nat
  <2>1. e \in Nat /\ 1 <= e /\ e <= Len(postedAt)
    BY StreamIds DEF RetentionInv
  <2> QED
    BY <2>1 DEF RetentionInv, Shapes
<1>4. e <= AckBound
  BY <1>1, <1>2, <1>3, RetentionAssumption DEF Purgeable
<1>5. Behind(d, e) /\ d \in Readers
  BY <1>1, <1>3, <1>4, BoundIsBehind DEF RoomOf
<1> QED
  BY <1>1, <1>5 DEF RetentionInv, DeviceInv

(* The purge drops only what was delivered (retention.rs): a message younger than
   the TTL goes only when every device of a joined member that holds deletion back
   received it, or was sent a limited page that left it out. *)
THEOREM PurgedWasDeliveredHolds == RetentionSpec => PurgedWasDelivered
<1>1. RetentionInv /\ [RetentionNext]_retentionVars => [DropsDelivered]_retentionVars
  <2>1. ASSUME RetentionInv, RetentionNext
        PROVE  DropsDelivered
    <3>1. CASE PurgeDeliveredEvents
      BY <2>1, <3>1, PurgeDropsDelivered
    <3>2. CASE kept \subseteq kept'
      BY <3>2 DEF DropsDelivered
    <3> QED
      BY <2>1, <3>1, <3>2 DEF RetentionNext, PostMessage, RetentionTick, MemberChanges,
         PollRecordsAck, PollReadsPage, AnswerArrives, AnswerLost
  <2> QED
    BY <2>1
<1>2. RetentionSpec => [][DropsDelivered]_retentionVars
  BY <1>1, RetentionInvHolds, PTL DEF RetentionSpec
<1> QED
  BY <1>2 DEF PurgedWasDelivered, DropsDelivered
=============================================================================
