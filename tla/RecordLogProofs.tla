--------------------------- MODULE RecordLogProofs ---------------------------
(***************************************************************************)
(* The record log never loses an acknowledged batch, for any number of     *)
(* batches, failed writes, failed cuts and crashes.                        *)
(***************************************************************************)
EXTENDS RecordLog, TLAPS

Frames == [batch : Nat, whole : BOOLEAN]

\* Only the last frame may be torn, and batches are in the order they were taken.
Orderly(frames) ==
    /\ frames \in Seq(Frames)
    /\ \A i \in 1 .. Len(frames) - 1 : frames[i].whole
    /\ \A i \in 1 .. Len(frames) - 1 : frames[i].batch < frames[i + 1].batch

\* Every batch of acked is in a whole frame among the first n.
Holds(frames, n, acked) ==
    \A b \in acked : \E i \in 1 .. n : frames[i].whole /\ frames[i].batch = b

(* replay stops at the last frame of an orderly log, or just before it. *)
LEMMA ReplayStops ==
    ASSUME NEW frames, Orderly(frames)
    PROVE  /\ ValidFrames(frames) \in 0 .. Len(frames)
           /\ \A i \in 1 .. ValidFrames(frames) : frames[i].whole
           /\ ValidFrames(frames) < Len(frames) => ~ frames[ValidFrames(frames) + 1].whole
           /\ Len(frames) - 1 <= ValidFrames(frames)
<1> DEFINE P(n) == /\ \A i \in 1 .. n : frames[i].whole
                   /\ n < Len(frames) => ~ frames[n + 1].whole
<1>1. Len(frames) \in Nat
  BY DEF Orderly
<1>2. \E n \in 0 .. Len(frames) : P(n)
  <2>1. CASE Len(frames) = 0
    BY <2>1
  <2>2. CASE Len(frames) # 0 /\ frames[Len(frames)].whole
    <3>1. \A i \in 1 .. Len(frames) : frames[i].whole
      BY <1>1, <2>2 DEF Orderly
    <3> QED
      BY <1>1, <3>1
  <2>3. CASE Len(frames) # 0 /\ ~ frames[Len(frames)].whole
    <3>1. Len(frames) - 1 \in 0 .. Len(frames) /\ P(Len(frames) - 1)
      BY <1>1, <2>3 DEF Orderly
    <3> QED
      BY <3>1
  <2> QED
    BY <2>1, <2>2, <2>3
<1>3. ValidFrames(frames) \in 0 .. Len(frames) /\ P(ValidFrames(frames))
  <2>1. ValidFrames(frames) = CHOOSE n \in 0 .. Len(frames) : P(n)
    BY DEF ValidFrames
  <2> HIDE DEF P
  <2> QED
    BY <1>2, <2>1
<1>4. ASSUME ValidFrames(frames) < Len(frames) - 1
      PROVE  FALSE
  BY <1>1, <1>3, <1>4 DEF Orderly
<1> QED
  BY <1>1, <1>3, <1>4

\* The inductive invariant.  The log is orderly and holds what was acknowledged;
\* while an append is in progress, the frames before it do.
LogInv ==
    /\ taken \in Nat /\ Orderly(records)
    /\ \A i \in 1 .. Len(records) : records[i].batch <= taken
    /\ Holds(records, Len(records), ackedFrames)
    /\ writing = None /\ ~ broken => \A i \in 1 .. Len(records) : records[i].whole
    /\ writing # None =>
        /\ writing \in Appends /\ writing.batch <= taken
        /\ writing.prev <= Len(records)
        /\ Len(records) <= writing.prev + (IF writing.torn THEN 1 ELSE 0)
        /\ \A i \in 1 .. writing.prev : records[i].whole /\ records[i].batch < writing.batch
        /\ Holds(records, writing.prev, ackedFrames)

(* It holds of an empty log. *)
LEMMA LogInvInit ==
    ASSUME LogInit
    PROVE  LogInv
BY LogAssumption DEF LogInit, LogInv, Orderly, Holds

(* A frame behind an orderly log of whole frames with lower batches. *)
LEMMA AppendKeeps ==
    ASSUME Orderly(records), \A i \in 1 .. Len(records) : records[i].whole,
           NEW f \in Frames, \A i \in 1 .. Len(records) : records[i].batch < f.batch
    PROVE  /\ Orderly(Append(records, f))
           /\ Len(Append(records, f)) = Len(records) + 1
           /\ \A i \in 1 .. Len(records) : Append(records, f)[i] = records[i]
           /\ Append(records, f)[Len(records) + 1] = f
<1>1. /\ records \in Seq(Frames) /\ Len(records) \in Nat
  BY DEF Orderly
<1>2. /\ Append(records, f) \in Seq(Frames)
      /\ Len(Append(records, f)) = Len(records) + 1
      /\ \A i \in 1 .. Len(records) : Append(records, f)[i] = records[i]
      /\ Append(records, f)[Len(records) + 1] = f
  BY <1>1
<1>3. \A i \in 1 .. Len(records) - 1 : records[i].batch < records[i + 1].batch
  BY DEF Orderly
<1>4. ASSUME NEW i \in 1 .. Len(records)
      PROVE  Append(records, f)[i].batch < Append(records, f)[i + 1].batch
  <2>1. CASE i = Len(records)
    BY <1>1, <1>2, <2>1
  <2>2. CASE i # Len(records)
    BY <1>1, <1>2, <1>3, <2>2
  <2> QED
    BY <2>1, <2>2
<1> QED
  BY <1>1, <1>2, <1>4 DEF Orderly

(* A cut at or before the end. *)
LEMMA CutKeeps ==
    ASSUME NEW frames, Orderly(frames), NEW n \in 0 .. Len(frames)
    PROVE  /\ Orderly(SubSeq(frames, 1, n))
           /\ Len(SubSeq(frames, 1, n)) = n
           /\ \A i \in 1 .. n : SubSeq(frames, 1, n)[i] = frames[i]
<1>1. frames \in Seq(Frames) /\ Len(frames) \in Nat
  BY DEF Orderly
<1>2. /\ SubSeq(frames, 1, n) \in Seq(Frames)
      /\ Len(SubSeq(frames, 1, n)) = n
      /\ \A i \in 1 .. n : SubSeq(frames, 1, n)[i] = frames[i]
  BY <1>1
<1> QED
  BY <1>1, <1>2 DEF Orderly

(* What a failed or an interrupted write leaves behind the frames before it. *)
LEMMA LeftoverKeeps ==
    ASSUME LogInv, writing # None, ~ writing.torn, NEW rest \in LeftBehind(writing.batch)
    PROVE  /\ Orderly(records \o rest)
           /\ Len(records \o rest) \in {Len(records), Len(records) + 1}
           /\ \A i \in 1 .. Len(records) : (records \o rest)[i] = records[i]
           /\ \A i \in 1 .. Len(records \o rest) : (records \o rest)[i].batch <= taken
<1>1. /\ records \in Seq(Frames) /\ Len(records) \in Nat /\ Orderly(records)
      /\ writing \in Appends /\ writing.batch <= taken /\ Len(records) = writing.prev
      /\ \A i \in 1 .. Len(records) : records[i].whole /\ records[i].batch < writing.batch
      /\ \A i \in 1 .. Len(records) : records[i].batch <= taken
  BY DEF LogInv, Orderly, Appends
<1>2. CASE rest = <<>>
  <2>1. records \o rest = records
    BY <1>1, <1>2
  <2> QED
    BY <1>1, <2>1
<1>3. ASSUME NEW w \in BOOLEAN, rest = <<[batch |-> writing.batch, whole |-> w]>>
      PROVE  /\ Orderly(records \o rest)
             /\ Len(records \o rest) \in {Len(records), Len(records) + 1}
             /\ \A i \in 1 .. Len(records) : (records \o rest)[i] = records[i]
             /\ \A i \in 1 .. Len(records \o rest) : (records \o rest)[i].batch <= taken
  <2> DEFINE f == [batch |-> writing.batch, whole |-> w]
  <2>1. f \in Frames /\ f.batch = writing.batch
    BY <1>1 DEF Frames, Appends
  <2> HIDE DEF f
  <2>2. records \o rest = Append(records, f)
    BY <1>1, <1>3, <2>1 DEF f
  <2>3. /\ Orderly(Append(records, f))
        /\ Len(Append(records, f)) = Len(records) + 1
        /\ \A i \in 1 .. Len(records) : Append(records, f)[i] = records[i]
        /\ Append(records, f)[Len(records) + 1] = f
    BY <1>1, <2>1, AppendKeeps
  <2>4. ASSUME NEW i \in 1 .. Len(records) + 1
        PROVE  Append(records, f)[i].batch <= taken
    <3>1. CASE i = Len(records) + 1
      BY <1>1, <2>1, <2>3, <3>1
    <3>2. CASE i \in 1 .. Len(records)
      BY <1>1, <2>3, <3>2
    <3> QED
      BY <1>1, <3>1, <3>2
  <2> QED
    BY <2>2, <2>3, <2>4
<1> QED
  BY <1>2, <1>3 DEF LeftBehind

(* Every step of the writer, and every crash, keeps the invariant. *)
LEMMA LogInvStep ==
    ASSUME LogInv, [LogNext]_logVars
    PROVE  LogInv'
<1>0. Len(records) \in Nat
  BY DEF LogInv, Orderly
<1>1. CASE TakeBatch
  <2>1. writing'.batch = taken + 1 /\ writing'.prev = Len(records) /\ ~ writing'.torn
        /\ writing' \in Appends
    BY <1>0, <1>1 DEF TakeBatch, LogInv, Appends
  <2>2. UNCHANGED <<records, broken, ackedFrames>> /\ taken' = taken + 1 /\ writing = None /\ ~ broken
    BY <1>1 DEF TakeBatch
  <2>3. \A i \in 1 .. Len(records) : records[i].whole /\ records[i].batch <= taken /\ records[i].batch \in Nat
    <3>1. records \in Seq(Frames) /\ \A i \in 1 .. Len(records) : records[i].whole /\ records[i].batch <= taken
      BY <2>2 DEF LogInv, Orderly
    <3>2. \A i \in 1 .. Len(records) : records[i] \in Frames
      BY <3>1
    <3> QED
      BY <3>1, <3>2 DEF Frames
  <2> QED
    BY <1>0, <2>1, <2>2, <2>3 DEF LogInv, Holds
<1>2. CASE AppendSynced
  <2> DEFINE f == [batch |-> writing.batch, whole |-> TRUE]
  <2>1. f \in Frames /\ f.batch = writing.batch /\ f.whole
    BY <1>2 DEF AppendSynced, LogInv, Frames, Appends
  <2>2. records' = Append(records, f) /\ ackedFrames' = ackedFrames \cup {writing.batch}
        /\ writing' = None /\ UNCHANGED <<broken, taken>>
    BY <1>2 DEF AppendSynced
  <2>3. /\ writing.batch <= taken /\ Orderly(records)
        /\ \A i \in 1 .. Len(records) : records[i].whole /\ records[i].batch < writing.batch
        /\ \A i \in 1 .. Len(records) : records[i].batch <= taken
        /\ Holds(records, Len(records), ackedFrames) /\ taken \in Nat
    BY <1>0, <1>2 DEF AppendSynced, LogInv, Appends
  <2> HIDE DEF f
  <2>4. /\ Orderly(Append(records, f))
        /\ Len(Append(records, f)) = Len(records) + 1
        /\ \A i \in 1 .. Len(records) : Append(records, f)[i] = records[i]
        /\ Append(records, f)[Len(records) + 1] = f
    BY <2>1, <2>3, AppendKeeps
  <2>5. \A i \in 1 .. Len(records') : records'[i].whole /\ records'[i].batch <= taken
    BY <1>0, <2>1, <2>2, <2>3, <2>4
  <2>6. Holds(records', Len(records'), ackedFrames')
    BY <1>0, <2>1, <2>2, <2>3, <2>4 DEF Holds
  <2> QED
    BY <2>2, <2>3, <2>4, <2>5, <2>6 DEF LogInv
<1>3. CASE AppendFails
  <2>1. PICK rest \in LeftBehind(writing.batch) : records' = records \o rest
    BY <1>3 DEF AppendFails
  <2>2. writing # None /\ ~ writing.torn /\ writing' = [writing EXCEPT !.torn = TRUE]
        /\ UNCHANGED <<broken, taken, ackedFrames>>
    BY <1>3 DEF AppendFails
  <2>3. /\ Orderly(records')
        /\ Len(records') \in {Len(records), Len(records) + 1}
        /\ \A i \in 1 .. Len(records) : records'[i] = records[i]
        /\ \A i \in 1 .. Len(records') : records'[i].batch <= taken
    BY <2>1, <2>2, LeftoverKeeps
  <2>4. /\ writing' \in Appends /\ writing'.torn
        /\ writing'.batch = writing.batch /\ writing'.prev = writing.prev
        /\ writing.prev = Len(records)
    <3>1. /\ writing \in Appends /\ writing.prev <= Len(records)
          /\ Len(records) <= writing.prev + 0
      BY <2>2 DEF LogInv
    <3>2. writing.prev \in Nat
      BY <3>1 DEF Appends
    <3>3. writing' \in Appends /\ writing'.torn /\ writing'.batch = writing.batch
          /\ writing'.prev = writing.prev
      BY <2>2, <3>1 DEF Appends
    <3> QED
      BY <1>0, <3>1, <3>2, <3>3
  <2>5. Holds(records', Len(records), ackedFrames) /\ Holds(records', Len(records'), ackedFrames)
    BY <1>0, <2>2, <2>3 DEF LogInv, Holds
  <2>6. \A i \in 1 .. writing'.prev : records'[i].whole /\ records'[i].batch < writing'.batch
    BY <1>0, <2>2, <2>3, <2>4 DEF LogInv
  <2>7. /\ writing' # None /\ writing'.batch <= taken' /\ taken' \in Nat
        /\ writing'.prev <= Len(records') /\ Len(records') <= writing'.prev + 1
    <3>1. writing.batch <= taken /\ taken \in Nat
      BY <2>2 DEF LogInv
    <3>2. writing' # None
      BY <2>4, LogAssumption
    <3>3. writing.prev <= Len(records') /\ Len(records') <= writing.prev + 1
      BY <1>0, <2>3, <2>4
    <3> QED
      BY <2>2, <2>4, <3>1, <3>2, <3>3
  <2> QED
    BY <2>2, <2>3, <2>4, <2>5, <2>6, <2>7 DEF LogInv
<1>4. CASE CutBack
  <2>1. writing # None /\ writing.torn /\ records' = SubSeq(records, 1, writing.prev)
        /\ UNCHANGED <<taken, ackedFrames>>
    BY <1>4 DEF CutBack
  <2>2. writing.prev \in 0 .. Len(records)
    BY <1>0, <2>1 DEF LogInv, Appends
  <2>3. /\ Orderly(records') /\ Len(records') = writing.prev
        /\ \A i \in 1 .. writing.prev : records'[i] = records[i]
    BY <2>1, <2>2, CutKeeps DEF LogInv
  <2>4. \A i \in 1 .. Len(records') : records'[i].whole /\ records'[i].batch < writing.batch
                                       /\ records'[i].batch <= taken
    BY <1>0, <2>1, <2>2, <2>3 DEF LogInv
  <2>5. Holds(records', Len(records'), ackedFrames')
    BY <2>1, <2>2, <2>3 DEF LogInv, Holds
  <2>6. CASE writing.try = 1
    <3>1. writing' = [writing EXCEPT !.try = 2, !.torn = FALSE]
      BY <1>4, <2>6 DEF CutBack
    <3>2. writing' \in Appends /\ writing'.batch = writing.batch /\ writing'.prev = writing.prev
          /\ ~ writing'.torn
      <4>1. writing \in Appends
        BY <2>1 DEF LogInv
      <4>2. writing' = [batch |-> writing.batch, prev |-> writing.prev, try |-> 2, torn |-> FALSE]
        BY <3>1, <4>1 DEF Appends
      <4>3. writing.batch \in Nat /\ writing.prev \in Nat
        BY <4>1 DEF Appends
      <4> QED
        BY <4>2, <4>3 DEF Appends
    <3> QED
      BY <2>1, <2>2, <2>3, <2>4, <2>5, <3>2, LogAssumption DEF LogInv
  <2>7. CASE writing.try # 1
    <3>1. writing' = None
      BY <1>4, <2>7 DEF CutBack
    <3> QED
      BY <2>1, <2>3, <2>4, <2>5, <3>1 DEF LogInv
  <2> QED
    BY <2>6, <2>7
<1>5. CASE CutFails
  BY <1>5 DEF CutFails, LogInv
<1>6. CASE CrashAndBoot
  <2>1. PICK rest \in IF writing = None \/ writing.torn THEN {<<>>} ELSE LeftBehind(writing.batch) :
            records' = SubSeq(records \o rest, 1, ValidFrames(records \o rest))
    BY <1>6 DEF CrashAndBoot
  <2>2. writing' = None /\ UNCHANGED <<taken, ackedFrames>>
    BY <1>6 DEF CrashAndBoot
  <2> DEFINE found == records \o rest
  <2>3. /\ Orderly(found) /\ Len(records) <= Len(found)
        /\ \A i \in 1 .. Len(records) : found[i] = records[i]
        /\ \A i \in 1 .. Len(found) : found[i].batch <= taken
    <3>1. CASE writing = None \/ writing.torn
      <4>1. found = records
        BY <2>1, <3>1 DEF LogInv, Orderly
      <4> QED
        BY <1>0, <4>1 DEF LogInv
    <3>2. CASE ~ (writing = None \/ writing.torn)
      BY <1>0, <2>1, <3>2, LeftoverKeeps
    <3> QED
      BY <3>1, <3>2
  <2> HIDE DEF found
  <2> DEFINE n == ValidFrames(found)
  <2>4. /\ n \in 0 .. Len(found) /\ (\A i \in 1 .. n : found[i].whole)
        /\ n < Len(found) => ~ found[n + 1].whole
        /\ Len(found) - 1 <= n
    BY <2>3, ReplayStops
  <2>5. records' = SubSeq(found, 1, n)
    BY <2>1 DEF found
  <2> HIDE DEF n
  <2>6. Len(found) \in Nat
    BY <2>3 DEF Orderly
  <2>7. /\ Orderly(records') /\ Len(records') = n
        /\ \A i \in 1 .. n : records'[i] = found[i]
    BY <2>3, <2>4, <2>5, CutKeeps
  <2>8. Holds(records', n, ackedFrames)
    <3>1. ASSUME NEW b \in ackedFrames
          PROVE  \E i \in 1 .. n : records'[i].whole /\ records'[i].batch = b
      <4>1. PICK i \in 1 .. Len(records) : records[i].whole /\ records[i].batch = b
        BY DEF LogInv, Holds
      <4>2. i \in 1 .. Len(found) /\ found[i].whole /\ found[i].batch = b
        BY <1>0, <2>3, <2>6, <4>1
      <4>3. i \in 1 .. n
        BY <2>4, <2>6, <4>2
      <4> QED
        BY <2>7, <4>2, <4>3
    <3> QED
      BY <3>1 DEF Holds
  <2>9. \A i \in 1 .. n : records'[i].whole /\ records'[i].batch <= taken
    BY <2>3, <2>4, <2>6, <2>7
  <2> QED
    BY <2>2, <2>7, <2>8, <2>9 DEF LogInv
<1>7. CASE UNCHANGED logVars
  BY <1>7 DEF logVars, LogInv
<1> QED
  BY <1>1, <1>2, <1>3, <1>4, <1>5, <1>6, <1>7 DEF LogNext

(* A batch whose append returned is never lost (persist_log.rs): whatever writes,
   cuts and crashes follow, a boot at any moment replays it, in the order taken. *)
THEOREM AckedFramesAreReplayedHolds == LogSpec => []AckedFramesAreReplayed
<1>1. LogInit => LogInv
  BY LogInvInit
<1>2. LogInv /\ [LogNext]_logVars => LogInv'
  BY LogInvStep
<1>3. LogInv => AckedFramesAreReplayed
  <2> SUFFICES ASSUME LogInv PROVE AckedFramesAreReplayed
    OBVIOUS
  <2> DEFINE n == ValidFrames(records)
  <2>1. /\ n \in 0 .. Len(records) /\ Len(records) - 1 <= n /\ Len(records) \in Nat
        /\ n < Len(records) => ~ records[n + 1].whole
    BY ReplayStops DEF LogInv, Orderly
  <2> HIDE DEF n
  <2>2. ASSUME NEW b \in ackedFrames
        PROVE  \E i \in 1 .. n : records[i].batch = b
    <3>1. PICK i \in 1 .. Len(records) : records[i].whole /\ records[i].batch = b
      BY DEF LogInv, Holds
    <3> QED
      BY <2>1, <3>1
  <2>3. \A i \in 1 .. n - 1 : records[i].batch < records[i + 1].batch
    BY <2>1 DEF LogInv, Orderly
  <2> QED
    BY <2>2, <2>3 DEF AckedFramesAreReplayed, Replayed, n
<1> QED
  BY <1>1, <1>2, <1>3, PTL DEF LogSpec
=============================================================================
