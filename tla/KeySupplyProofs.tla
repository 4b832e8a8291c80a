--------------------------- MODULE KeySupplyProofs ---------------------------
(***************************************************************************)
(* What the homeserver may hand out in a device's name, for every target   *)
(* count and any number of keys, uploads and letters.                      *)
(***************************************************************************)
EXTENDS KeySupply, FiniteSetTheorems, TLAPS

AccountShape == [nextOtk : Nat, unpublished : SUBSET Nat, private : SUBSET Nat, nextFb : Nat,
                 fallback : {None} \cup Nat, previous : {None} \cup Nat, fbPublished : BOOLEAN]
UploadShape == [otks : SUBSET Nat, fallback : {None} \cup Nat, taken : BOOLEAN]
OfferedShape == [otks : SUBSET Nat, claimed : SUBSET Nat, fallback : {None} \cup Nat,
                 used : BOOLEAN]
LetterShape == [key : Nat, fallback : BOOLEAN]

Shapes(a, us, o, ls, lo, re, gi, un) ==
    /\ a \in AccountShape /\ us \in SUBSET UploadShape /\ o \in OfferedShape
    /\ ls \in SUBSET LetterShape /\ lo \in SUBSET LetterShape
    /\ re \in SUBSET Nat /\ gi \in SUBSET Nat /\ un \in SUBSET Nat

\* One-time keys.  A key the account no longer holds was claimed; a claimed key that
\* is on offer was uploaded again; a letter's key is held or was uploaded again.
OtkInv(a, us, o, ls, lo, re) ==
    /\ a.unpublished \subseteq a.private
    /\ \A k \in a.private \cup o.otks : k < a.nextOtk
    /\ \A u \in us : \A k \in u.otks : k < a.nextOtk
    /\ \A k \in Nat : k < a.nextOtk => k \in a.private \cup o.claimed
    /\ o.otks \cap o.claimed \subseteq re
    /\ \A l \in ls : ~ l.fallback => l.key \in o.claimed /\ l.key \in a.private \cup re
    /\ \A l \in lo : ~ l.fallback => l.key \in re

\* A fallback key that may be, or become, the one on offer: the newest, the one before
\* it while the newest is unpublished, one overtaken on the server, or one whose
\* successor counts as published without having been sent.
Offerable(a, gi, un, f) ==
    \/ f = a.fallback
    \/ f = a.previous /\ ~ a.fbPublished
    \/ \E g \in gi : g > f
    \/ f + 1 \in un

FallbackInv(a, us, o, ls, lo, gi, un) ==
    /\ a.nextFb = 0 => a.fallback = None /\ a.fbPublished
    /\ a.nextFb > 0 => a.fallback = a.nextFb - 1
    /\ a.nextFb <= 1 => a.previous = None
    /\ a.nextFb > 1 => a.previous = a.nextFb - 2
    /\ o.fallback # None => o.fallback < a.nextFb /\ Offerable(a, gi, un, o.fallback)
    /\ \A u \in us : u.fallback # None =>
        /\ u.fallback < a.nextFb /\ Offerable(a, gi, un, u.fallback)
        /\ u.taken => u.fallback \in gi
    /\ \A l \in ls : l.fallback => l.key < a.nextFb
    /\ \A l \in lo : l.fallback => l.key + 1 < a.nextFb - 1

SupplyInv ==
    /\ Shapes(account, uploads, offered, letters, lost, resent, given, unsent)
    /\ OtkInv(account, uploads, offered, letters, lost, resent)
    /\ FallbackInv(account, uploads, offered, letters, lost, given, unsent)
    /\ counts # None => counts.otks \in Nat /\ counts.unusedFallback \in BOOLEAN

-----------------------------------------------------------------------------
(* Topping up the one-time keys. *)
LEMMA TopUp ==
    ASSUME NEW a, NEW us, NEW o, NEW ls, NEW lo, NEW re, NEW gi, NEW un, NEW n \in Nat,
           Shapes(a, us, o, ls, lo, re, gi, un), OtkInv(a, us, o, ls, lo, re),
           FallbackInv(a, us, o, ls, lo, gi, un)
    PROVE  LET b == GenerateOtks(a, n)
           IN  /\ Shapes(b, us, o, ls, lo, re, gi, un)
               /\ OtkInv(b, us, o, ls, lo, re)
               /\ FallbackInv(b, us, o, ls, lo, gi, un)
<1> DEFINE new == a.nextOtk .. a.nextOtk + n - 1
           b == GenerateOtks(a, n)
<1>1. a \in AccountShape
  BY DEF Shapes
<1>2. /\ b.nextOtk = a.nextOtk + n /\ b.unpublished = a.unpublished \cup new
      /\ b.private = a.private \cup new /\ b.nextFb = a.nextFb
      /\ b.fallback = a.fallback /\ b.previous = a.previous
      /\ b.fbPublished = a.fbPublished
  BY <1>1 DEF GenerateOtks, AccountShape
<1>3. a.nextOtk \in Nat /\ new \subseteq Nat
  BY <1>1 DEF AccountShape
<1>4. b \in AccountShape
  <2>1. /\ a.nextOtk + n \in Nat /\ a.unpublished \cup new \in SUBSET Nat
        /\ a.private \cup new \in SUBSET Nat
    BY <1>1, <1>3 DEF AccountShape
  <2> HIDE DEF new
  <2>2. [a EXCEPT !.nextOtk = a.nextOtk + n, !.unpublished = a.unpublished \cup new,
                  !.private = a.private \cup new] \in AccountShape
    BY <1>1, <2>1, Zenon DEF AccountShape
  <2> QED
    BY <2>2 DEF GenerateOtks, new
<1>5. \A k \in Nat : k \in new <=> a.nextOtk <= k /\ k < a.nextOtk + n
  BY <1>3
<1> HIDE DEF new, b
<1>6. Shapes(b, us, o, ls, lo, re, gi, un)
  BY <1>4 DEF Shapes
<1>7. OtkInv(b, us, o, ls, lo, re)
  <2>1. b.unpublished \subseteq b.private
    BY <1>2 DEF OtkInv
  <2>2. \A k \in b.private \cup o.otks : k < b.nextOtk
    <3>1. a.private \subseteq Nat /\ o.otks \subseteq Nat
      BY <1>1 DEF Shapes, AccountShape, OfferedShape
    <3>2. \A k \in a.private \cup o.otks : k \in Nat /\ k < a.nextOtk
      BY <3>1 DEF OtkInv
    <3>3. \A k \in new : k < a.nextOtk + n
      BY <1>3, <1>5
    <3>4. \A k \in a.private \cup o.otks : k < a.nextOtk + n
      BY <1>3, <3>2
    <3> QED
      BY <1>2, <3>3, <3>4, Zenon
  <2>3. \A u \in us : \A k \in u.otks : k < b.nextOtk
    BY <1>2, <1>3 DEF OtkInv, Shapes, UploadShape
  <2>4. \A k \in Nat : k < b.nextOtk => k \in b.private \cup o.claimed
    BY <1>2, <1>3, <1>5 DEF OtkInv
  <2> QED
    BY <1>2, <2>1, <2>2, <2>3, <2>4 DEF OtkInv
<1>8. FallbackInv(b, us, o, ls, lo, gi, un)
  BY <1>2 DEF FallbackInv, Offerable
<1> QED
  BY <1>6, <1>7, <1>8 DEF b

(* A new fallback key, made when the one before it counts as published. *)
LEMMA NewFallback ==
    ASSUME NEW a, NEW us, NEW o, NEW ls, NEW lo, NEW re, NEW gi, NEW un,
           Shapes(a, us, o, ls, lo, re, gi, un), OtkInv(a, us, o, ls, lo, re),
           FallbackInv(a, us, o, ls, lo, gi, un), a.fbPublished
    PROVE  LET b == GenerateFallback(a)
           IN  /\ Shapes(b, us, o, ls, lo, re, gi, un)
               /\ OtkInv(b, us, o, ls, lo, re)
               /\ FallbackInv(b, us, o, ls, lo, gi, un)
<1> DEFINE b == GenerateFallback(a)
<1>1. a \in AccountShape
  BY DEF Shapes
<1>2. /\ b.nextOtk = a.nextOtk /\ b.unpublished = a.unpublished /\ b.private = a.private
      /\ b.nextFb = a.nextFb + 1 /\ b.fallback = a.nextFb /\ b.previous = a.fallback
      /\ b.fbPublished = FALSE
  BY <1>1 DEF GenerateFallback, AccountShape
<1>3. a.nextFb \in Nat
  BY <1>1 DEF AccountShape
<1>4. b \in AccountShape
  <2>1. /\ a.nextFb + 1 \in Nat /\ a.nextFb \in {None} \cup Nat
        /\ a.fallback \in {None} \cup Nat /\ FALSE \in BOOLEAN
    BY <1>1 DEF AccountShape
  <2>2. [a EXCEPT !.nextFb = a.nextFb + 1, !.previous = a.fallback, !.fallback = a.nextFb,
                  !.fbPublished = FALSE] \in AccountShape
    BY <1>1, <2>1, Zenon DEF AccountShape
  <2> QED
    BY <2>2 DEF GenerateFallback
<1> HIDE DEF b
<1>5. Shapes(b, us, o, ls, lo, re, gi, un)
  BY <1>4 DEF Shapes
<1>6. OtkInv(b, us, o, ls, lo, re)
  BY <1>2 DEF OtkInv
<1>7. ASSUME NEW f \in Nat, Offerable(a, gi, un, f)
      PROVE  Offerable(b, gi, un, f)
  BY <1>2, <1>7 DEF Offerable
<1>8. FallbackInv(b, us, o, ls, lo, gi, un)
  <2>1. /\ b.nextFb = 0 => b.fallback = None /\ b.fbPublished
        /\ b.nextFb > 0 => b.fallback = b.nextFb - 1
        /\ b.nextFb <= 1 => b.previous = None
        /\ b.nextFb > 1 => b.previous = b.nextFb - 2
    BY <1>2, <1>3 DEF FallbackInv
  <2>2. o.fallback # None => o.fallback < b.nextFb /\ Offerable(b, gi, un, o.fallback)
    <3>1. o.fallback # None => o.fallback \in Nat
      BY DEF Shapes, OfferedShape
    <3>2. o.fallback # None => o.fallback < a.nextFb /\ Offerable(a, gi, un, o.fallback)
      BY DEF FallbackInv
    <3> QED
      BY <1>2, <1>3, <1>7, <3>1, <3>2
  <2>3. ASSUME NEW u \in us, u.fallback # None
        PROVE  /\ u.fallback < b.nextFb /\ Offerable(b, gi, un, u.fallback)
               /\ u.taken => u.fallback \in gi
    <3>1. u.fallback \in Nat
      BY <2>3 DEF Shapes, UploadShape
    <3>2. /\ u.fallback < a.nextFb /\ Offerable(a, gi, un, u.fallback)
          /\ u.taken => u.fallback \in gi
      BY <2>3 DEF FallbackInv
    <3> QED
      BY <1>2, <1>3, <1>7, <3>1, <3>2
  <2>4. \A l \in ls : l.fallback => l.key < b.nextFb
    BY <1>2, <1>3 DEF FallbackInv, Shapes, LetterShape
  <2>5. \A l \in lo : l.fallback => l.key + 1 < b.nextFb - 1
    BY <1>2, <1>3 DEF FallbackInv, Shapes, LetterShape
  <2> QED
    BY <2>1, <2>2, <2>3, <2>4, <2>5 DEF FallbackInv
<1> QED
  BY <1>5, <1>6, <1>8 DEF b

(* Queueing an upload of what is unpublished. *)
LEMMA QueueUpload ==
    ASSUME NEW a, NEW us, NEW o, NEW ls, NEW lo, NEW re, NEW gi, NEW un,
           Shapes(a, us, o, ls, lo, re, gi, un), OtkInv(a, us, o, ls, lo, re),
           FallbackInv(a, us, o, ls, lo, gi, un)
    PROVE  LET vs == us \cup {KeysUpload(a)}
           IN  /\ Shapes(a, vs, o, ls, lo, re, gi, un)
               /\ OtkInv(a, vs, o, ls, lo, re)
               /\ FallbackInv(a, vs, o, ls, lo, gi, un)
<1> DEFINE u == KeysUpload(a)
           vs == us \cup {u}
<1>1. a \in AccountShape
  BY DEF Shapes
<1>2. /\ u.otks = a.unpublished /\ u.fallback = UnpublishedFallback(a) /\ u.taken = FALSE
      /\ u \in UploadShape
  BY <1>1 DEF KeysUpload, UnpublishedFallback, AccountShape, UploadShape
<1> HIDE DEF u
<1>3. Shapes(a, vs, o, ls, lo, re, gi, un)
  BY <1>2 DEF Shapes
<1>4. OtkInv(a, vs, o, ls, lo, re)
  BY <1>2 DEF OtkInv
<1>5. u.fallback # None => u.fallback < a.nextFb /\ Offerable(a, gi, un, u.fallback)
  BY <1>1, <1>2 DEF UnpublishedFallback, FallbackInv, Offerable, AccountShape
<1>6. FallbackInv(a, vs, o, ls, lo, gi, un)
  BY <1>2, <1>5 DEF FallbackInv
<1> QED
  BY <1>3, <1>4, <1>6 DEF u

-----------------------------------------------------------------------------
(* The keys on offer are finitely many: what a /sync answer counts is a number. *)
LEMMA OfferIsCounted ==
    ASSUME SupplyInv
    PROVE  Cardinality(offered.otks) \in Nat
<1>1. account.nextOtk \in Nat /\ offered.otks \subseteq Nat
  BY DEF SupplyInv, Shapes, AccountShape, OfferedShape
<1>2. \A k \in offered.otks : k < account.nextOtk
  BY DEF SupplyInv, OtkInv
<1>3. offered.otks \subseteq 0 .. account.nextOtk - 1
  BY <1>1, <1>2
<1>4. IsFiniteSet(0 .. account.nextOtk - 1)
  BY <1>1, FS_Interval
<1> QED
  BY <1>3, <1>4, FS_Subset, FS_CardinalityType

(* The device starts with no keys anywhere. *)
LEMMA SupplyStarts ==
    ASSUME SupplyAssumption, SupplyInit
    PROVE  SupplyInv
<1>1. Shapes(account, uploads, offered, letters, lost, resent, given, unsent)
  BY DEF SupplyInit, Shapes, AccountShape, OfferedShape
<1>2. OtkInv(account, uploads, offered, letters, lost, resent)
  BY DEF SupplyInit, OtkInv
<1>3. FallbackInv(account, uploads, offered, letters, lost, given, unsent)
  BY DEF SupplyInit, FallbackInv
<1> QED
  BY <1>1, <1>2, <1>3 DEF SupplyInit, SupplyInv

(* ingest_sync, step 3. *)
LEMMA CountsKeep ==
    ASSUME SupplyAssumption, SupplyInv, SyncCountsArrive
    PROVE  SupplyInv'
<1> DEFINE Inv(a, us) ==
        /\ Shapes(a, us, offered, letters, lost, resent, given, unsent)
        /\ OtkInv(a, us, offered, letters, lost, resent)
        /\ FallbackInv(a, us, offered, letters, lost, given, unsent)
        topped == IF account.unpublished = {} /\ counts.otks < OtkTarget
                  THEN GenerateOtks(account, OtkTarget - counts.otks) ELSE account
        a == OnSyncCounts(account, counts)
<1>1. Inv(account, uploads) /\ counts.otks \in Nat
  BY DEF SupplyInv, SyncCountsArrive
<1>2. Inv(topped, uploads)
  <2>1. CASE account.unpublished = {} /\ counts.otks < OtkTarget
    <3>1. OtkTarget - counts.otks \in Nat
      BY <1>1, <2>1 DEF SupplyAssumption
    <3>2. Inv(GenerateOtks(account, OtkTarget - counts.otks), uploads)
      BY <1>1, <3>1, TopUp
    <3> QED
      BY <2>1, <3>2
  <2> QED
    BY <1>1, <2>1
<1>3. Inv(a, uploads)
  <2> HIDE DEF topped
  <2>1. a = IF ~ counts.unusedFallback /\ UnpublishedFallback(topped) = None
            THEN GenerateFallback(topped) ELSE topped
    BY DEF OnSyncCounts, topped
  <2>2. CASE ~ counts.unusedFallback /\ UnpublishedFallback(topped) = None
    <3>1. topped \in AccountShape
      BY <1>2 DEF Shapes
    <3>2. topped.fbPublished
      <4>1. CASE topped.nextFb = 0
        BY <1>2, <4>1 DEF FallbackInv
      <4>2. CASE topped.nextFb # 0
        <5>1. topped.nextFb \in Nat /\ topped.nextFb > 0
          BY <3>1, <4>2 DEF AccountShape
        <5>2. topped.fallback = topped.nextFb - 1
          BY <1>2, <5>1 DEF FallbackInv
        <5>3. topped.fallback # None
          BY <5>1, <5>2 DEF SupplyAssumption
        <5> QED
          BY <2>2, <5>3 DEF UnpublishedFallback
      <4> QED
        BY <4>1, <4>2
    <3>3. Inv(GenerateFallback(topped), uploads)
      BY <1>2, <3>2, NewFallback
    <3> QED
      BY <2>1, <2>2, <3>3
  <2> QED
    BY <1>2, <2>1, <2>2
<1> HIDE DEF a
<1>4. Inv(a, uploads \cup {KeysUpload(a)})
  BY <1>3, QueueUpload
<1>5. /\ account' = a /\ uploads' \in {uploads, uploads \cup {KeysUpload(a)}}
      /\ counts' = None /\ UNCHANGED <<offered, letters, lost, resent, given, unsent>>
  BY DEF SyncCountsArrive, a
<1>6. Inv(account', uploads')
  BY <1>3, <1>4, <1>5
<1> QED
  BY <1>5, <1>6 DEF SupplyInv

(* on_keys_upload_response: a fallback key that counts as published from here on was *)
(* given to the server with this upload, or is recorded as unsent.                   *)
LEMMA AnswerKeeps ==
    ASSUME SupplyAssumption, SupplyInv, UploadAnswered
    PROVE  SupplyInv'
<1>1. PICK u \in uploads :
        /\ u.taken
        /\ account' = [account EXCEPT !.unpublished = {}, !.fbPublished = TRUE]
        /\ unsent' = IF UnpublishedFallback(account) \in {None, u.fallback} THEN unsent
                     ELSE unsent \cup {account.fallback}
        /\ uploads' = uploads \ {u}
        /\ UNCHANGED <<offered, counts, letters, lost, resent, given>>
  BY DEF UploadAnswered
<1>2. account \in AccountShape
  BY DEF SupplyInv, Shapes
<1>3. account' \in AccountShape
  <2>1. {} \in SUBSET Nat /\ TRUE \in BOOLEAN
    OBVIOUS
  <2> QED
    BY <1>1, <1>2, <2>1, Zenon DEF AccountShape
<1>4. /\ account'.nextOtk = account.nextOtk /\ account'.unpublished = {}
      /\ account'.private = account.private /\ account'.nextFb = account.nextFb
      /\ account'.fallback = account.fallback /\ account'.previous = account.previous
      /\ account'.fbPublished = TRUE
  BY <1>1, <1>2 DEF AccountShape
<1>5. UnpublishedFallback(account) # None => account.fallback \in Nat /\ ~ account.fbPublished
  BY <1>2 DEF UnpublishedFallback, AccountShape
<1>6. unsent' \in SUBSET Nat /\ unsent \subseteq unsent'
  BY <1>1, <1>5 DEF SupplyInv, Shapes, UnpublishedFallback
<1>7. Shapes(account, uploads, offered, letters, lost, resent, given, unsent)'
  BY <1>1, <1>3, <1>6 DEF SupplyInv, Shapes
<1>8. OtkInv(account, uploads, offered, letters, lost, resent)'
  BY <1>1, <1>4 DEF SupplyInv, OtkInv
<1>9. ASSUME NEW f \in Nat, Offerable(account, given, unsent, f), f < account.nextFb
      PROVE  Offerable(account', given, unsent', f)
  <2>1. CASE f = account.previous /\ ~ account.fbPublished
    <3>1. account.nextFb \in Nat /\ account.nextFb > 1
      BY <1>2, <2>1 DEF SupplyInv, FallbackInv, AccountShape, SupplyAssumption
    <3>2. f = account.nextFb - 2 /\ account.fallback = account.nextFb - 1
      BY <2>1, <3>1 DEF SupplyInv, FallbackInv
    <3>3. account.fallback = f + 1 /\ account.fallback > f /\ account.fallback \in Nat
      BY <3>1, <3>2
    <3>4. UnpublishedFallback(account) = account.fallback /\ account.fallback # None
      BY <2>1, <3>3 DEF UnpublishedFallback, SupplyAssumption
    <3>5. CASE account.fallback = u.fallback
      <4>1. account.fallback \in given
        BY <1>1, <3>4, <3>5 DEF SupplyInv, FallbackInv
      <4> QED
        BY <3>3, <4>1 DEF Offerable
    <3>6. CASE account.fallback # u.fallback
      <4>1. account.fallback \in unsent'
        BY <1>1, <3>4, <3>6
      <4> QED
        BY <3>3, <4>1 DEF Offerable
    <3> QED
      BY <3>5, <3>6
  <2>2. CASE ~ (f = account.previous /\ ~ account.fbPublished)
    BY <1>4, <1>6, <1>9, <2>2 DEF Offerable
  <2> QED
    BY <2>1, <2>2
<1>10. FallbackInv(account', uploads', offered', letters', lost', given', unsent')
  <2>1. offered.fallback # None => /\ offered.fallback < account.nextFb
                                   /\ Offerable(account', given, unsent', offered.fallback)
    <3>1. offered.fallback # None => offered.fallback \in Nat
      BY DEF SupplyInv, Shapes, OfferedShape
    <3> QED
      BY <1>9, <3>1 DEF SupplyInv, FallbackInv
  <2>2. \A v \in uploads : v.fallback # None =>
            /\ v.fallback < account.nextFb /\ Offerable(account', given, unsent', v.fallback)
            /\ v.taken => v.fallback \in given
    <3>1. \A v \in uploads : v.fallback # None => v.fallback \in Nat
      BY DEF SupplyInv, Shapes, UploadShape
    <3> QED
      BY <1>9, <3>1 DEF SupplyInv, FallbackInv
  <2>3. uploads' \subseteq uploads
    BY <1>1
  <2> QED
    BY <1>1, <1>4, <2>1, <2>2, <2>3 DEF SupplyInv, FallbackInv
<1> QED
  BY <1>1, <1>7, <1>8, <1>10 DEF SupplyInv

(* create_inbound_session: the key of a letter leaves the account, claimed. *)
LEMMA LetterKeeps ==
    ASSUME SupplyAssumption, SupplyInv, LetterArrives
    PROVE  SupplyInv'
<1>1. PICK l \in letters :
        LET held == IF l.fallback THEN l.key \in {account.fallback, account.previous}
                    ELSE l.key \in account.private
        IN  /\ letters' = letters \ {l}
            /\ lost' = IF held THEN lost ELSE lost \cup {l}
            /\ account' = IF l.fallback THEN account ELSE RemoveSecretKey(account, l.key)
            /\ UNCHANGED <<uploads, offered, counts, resent, given, unsent>>
  BY DEF LetterArrives
<1>2. /\ account \in AccountShape /\ l \in LetterShape /\ letters \in SUBSET LetterShape
      /\ lost \in SUBSET LetterShape
  BY DEF SupplyInv, Shapes
<1>3. CASE l.fallback
  <2>1. account' = account /\ lost' \subseteq lost \cup {l}
    BY <1>1, <1>3
  <2>2. Shapes(account, uploads, offered, letters, lost, resent, given, unsent)'
    BY <1>1, <1>2, <2>1 DEF SupplyInv, Shapes
  <2>3. OtkInv(account, uploads, offered, letters, lost, resent)'
    BY <1>1, <1>3, <2>1 DEF SupplyInv, OtkInv
  <2>4. l \in lost' /\ l \notin lost => l.key + 1 < account.nextFb - 1
    <3>1. l \in lost' /\ l \notin lost => l.key \notin {account.fallback, account.previous}
      BY <1>1, <1>3
    <3>2. l.key \in Nat /\ account.nextFb \in Nat /\ l.key < account.nextFb
      BY <1>2, <1>3 DEF SupplyInv, FallbackInv, AccountShape, LetterShape
    <3>3. /\ account.fallback = account.nextFb - 1
          /\ account.nextFb > 1 => account.previous = account.nextFb - 2
      BY <3>2 DEF SupplyInv, FallbackInv
    <3> QED
      BY <3>1, <3>2, <3>3
  <2>5. FallbackInv(account, uploads, offered, letters, lost, given, unsent)'
    <3>1. \A m \in lost' : m.fallback => m.key + 1 < account.nextFb - 1
      BY <2>1, <2>4 DEF SupplyInv, FallbackInv
    <3> QED
      BY <1>1, <2>1, <3>1 DEF SupplyInv, FallbackInv
  <2> QED
    BY <1>1, <2>2, <2>3, <2>5 DEF SupplyInv
<1>4. CASE ~ l.fallback
  <2>1. account' = RemoveSecretKey(account, l.key) /\ lost' \subseteq lost \cup {l}
    BY <1>1, <1>4
  <2>2. account' \in AccountShape
    <3>1. /\ account.private \ {l.key} \in SUBSET Nat
          /\ account.unpublished \ {l.key} \in SUBSET Nat
      BY <1>2 DEF AccountShape
    <3> QED
      BY <1>2, <2>1, <3>1, Zenon DEF RemoveSecretKey, AccountShape
  <2>3. /\ account'.nextOtk = account.nextOtk
        /\ account'.unpublished = account.unpublished \ {l.key}
        /\ account'.private = account.private \ {l.key} /\ account'.nextFb = account.nextFb
        /\ account'.fallback = account.fallback /\ account'.previous = account.previous
        /\ account'.fbPublished = account.fbPublished
    BY <1>2, <2>1 DEF RemoveSecretKey, AccountShape
  <2>4. Shapes(account, uploads, offered, letters, lost, resent, given, unsent)'
    BY <1>1, <1>2, <2>1, <2>2 DEF SupplyInv, Shapes
  <2>5. OtkInv(account, uploads, offered, letters, lost, resent)'
    <3>1. l.key \in offered.claimed /\ l.key \in account.private \cup resent
      BY <1>4 DEF SupplyInv, OtkInv
    <3>2. /\ account'.unpublished \subseteq account'.private
          /\ \A k \in account'.private \cup offered'.otks : k < account'.nextOtk
          /\ \A u \in uploads' : \A k \in u.otks : k < account'.nextOtk
          /\ offered'.otks \cap offered'.claimed \subseteq resent'
      BY <1>1, <2>3 DEF SupplyInv, OtkInv
    <3>3. \A k \in Nat : k < account'.nextOtk => k \in account'.private \cup offered'.claimed
      BY <1>1, <2>3, <3>1 DEF SupplyInv, OtkInv
    <3>4. \A m \in letters' : ~ m.fallback =>
            m.key \in offered'.claimed /\ m.key \in account'.private \cup resent'
      <4>1. ASSUME NEW m \in letters', ~ m.fallback
            PROVE  m.key # l.key
        BY <1>1, <1>2, <1>4, <4>1 DEF LetterShape
      <4> QED
        BY <1>1, <2>3, <4>1 DEF SupplyInv, OtkInv
    <3>5. \A m \in lost' : ~ m.fallback => m.key \in resent'
      <4>1. l \in lost' => l \in lost \/ l.key \notin account.private
        BY <1>1, <1>4
      <4> QED
        BY <1>1, <2>1, <3>1, <4>1 DEF SupplyInv, OtkInv
    <3> QED
      BY <3>2, <3>3, <3>4, <3>5 DEF OtkInv
  <2>6. FallbackInv(account, uploads, offered, letters, lost, given, unsent)'
    BY <1>1, <1>4, <2>1, <2>3 DEF SupplyInv, FallbackInv, Offerable
  <2> QED
    BY <1>1, <2>4, <2>5, <2>6 DEF SupplyInv
<1> QED
  BY <1>3, <1>4

(* apply_keys_upload: what an upload carries is offerable, and is recorded as given. *)
LEMMA TakingKeeps ==
    ASSUME SupplyAssumption, SupplyInv, ServerTakesUpload
    PROVE  SupplyInv'
<1>1. PICK u \in uploads :
        /\ offered' = [offered EXCEPT
               !.otks = @ \cup u.otks,
               !.fallback = IF u.fallback = None THEN @ ELSE u.fallback,
               !.used = @ /\ u.fallback = None]
        /\ resent' = resent \cup (u.otks \cap offered.claimed)
        /\ given' = given \cup ({u.fallback} \ {None})
        /\ uploads' = (uploads \ {u}) \cup {[u EXCEPT !.taken = TRUE]}
        /\ UNCHANGED <<account, counts, letters, lost, unsent>>
  BY DEF ServerTakesUpload
<1> DEFINE f == IF u.fallback = None THEN offered.fallback ELSE u.fallback
           sent == [u EXCEPT !.taken = TRUE]
<1>2. offered \in OfferedShape /\ u \in UploadShape /\ uploads \in SUBSET UploadShape
  BY DEF SupplyInv, Shapes
<1>3. /\ sent \in UploadShape /\ sent.otks = u.otks /\ sent.fallback = u.fallback
  BY <1>2 DEF UploadShape
<1>4. /\ offered'.otks = offered.otks \cup u.otks /\ offered'.claimed = offered.claimed
      /\ offered'.fallback = f
  BY <1>1, <1>2 DEF OfferedShape
<1>5. offered' \in OfferedShape
  <2>1. /\ offered.otks \cup u.otks \in SUBSET Nat /\ f \in {None} \cup Nat
        /\ (offered.used /\ u.fallback = None) \in BOOLEAN
    BY <1>2 DEF OfferedShape, UploadShape
  <2> HIDE DEF f
  <2>2. offered' = [offered EXCEPT !.otks = offered.otks \cup u.otks, !.fallback = f,
                                   !.used = (offered.used /\ u.fallback = None)]
    BY <1>1 DEF f
  <2> QED
    BY <1>2, <2>1, <2>2, Zenon DEF OfferedShape
<1>6. given' \in SUBSET Nat /\ given \subseteq given' /\ (u.fallback # None => u.fallback \in given')
  BY <1>1, <1>2 DEF SupplyInv, Shapes, UploadShape
<1>7. resent' \in SUBSET Nat /\ resent \subseteq resent'
  BY <1>1, <1>2 DEF SupplyInv, Shapes, UploadShape
<1> HIDE DEF sent
<1>8. uploads' \subseteq uploads \cup {sent}
  BY <1>1 DEF sent
<1>9. Shapes(account, uploads, offered, letters, lost, resent, given, unsent)'
  BY <1>1, <1>2, <1>3, <1>5, <1>6, <1>7, <1>8 DEF SupplyInv, Shapes
<1>10. OtkInv(account, uploads, offered, letters, lost, resent)'
  <2>1. /\ account.unpublished \subseteq account.private
        /\ \A k \in account.private \cup offered'.otks : k < account.nextOtk
        /\ \A v \in uploads' : \A k \in v.otks : k < account.nextOtk
    BY <1>3, <1>4, <1>8 DEF SupplyInv, OtkInv
  <2>2. offered'.otks \cap offered'.claimed \subseteq resent'
    BY <1>1, <1>4 DEF SupplyInv, OtkInv
  <2> QED
    BY <1>1, <1>4, <1>7, <2>1, <2>2 DEF SupplyInv, OtkInv
<1>11. ASSUME NEW g \in Nat, Offerable(account, given, unsent, g)
       PROVE  Offerable(account, given', unsent, g)
  BY <1>6, <1>11 DEF Offerable
<1>12. FallbackInv(account, uploads', offered', letters, lost, given', unsent)
  <2>1. ASSUME NEW v \in uploads, v.fallback # None
        PROVE  /\ v.fallback < account.nextFb /\ Offerable(account, given', unsent, v.fallback)
               /\ v.taken => v.fallback \in given'
    <3>1. v.fallback \in Nat
      BY <1>2, <2>1 DEF UploadShape
    <3>2. /\ v.fallback < account.nextFb /\ Offerable(account, given, unsent, v.fallback)
          /\ v.taken => v.fallback \in given
      BY <2>1 DEF SupplyInv, FallbackInv
    <3> QED
      BY <1>6, <1>11, <3>1, <3>2
  <2>2. ASSUME NEW v \in uploads', v.fallback # None
        PROVE  /\ v.fallback < account.nextFb /\ Offerable(account, given', unsent, v.fallback)
               /\ v.taken => v.fallback \in given'
    BY <1>3, <1>6, <1>8, <2>1, <2>2
  <2>3. f # None => f < account.nextFb /\ Offerable(account, given', unsent, f)
    <3>1. offered.fallback # None => offered.fallback \in Nat
      BY <1>2 DEF OfferedShape
    <3> QED
      BY <1>11, <2>1, <3>1 DEF SupplyInv, FallbackInv
  <2> QED
    BY <1>4, <2>2, <2>3 DEF SupplyInv, FallbackInv
<1> QED
  BY <1>1, <1>9, <1>10, <1>12 DEF SupplyInv

(* claim_one_time_key, a one-time key: it leaves the table in the step it is handed out. *)
LEMMA ClaimKeeps ==
    ASSUME SupplyAssumption, SupplyInv, ClaimOneTimeKey
    PROVE  SupplyInv'
<1>1. PICK k \in offered.otks :
        /\ letters' = letters \cup {[key |-> k, fallback |-> FALSE]}
        /\ offered' = [offered EXCEPT !.otks = @ \ {k}, !.claimed = @ \cup {k}]
        /\ UNCHANGED <<account, uploads, counts, lost, resent, given, unsent>>
  BY DEF ClaimOneTimeKey
<1> DEFINE l == [key |-> k, fallback |-> FALSE]
<1>2. offered \in OfferedShape /\ k \in Nat
  BY DEF SupplyInv, Shapes, OfferedShape
<1>3. /\ offered'.otks = offered.otks \ {k} /\ offered'.claimed = offered.claimed \cup {k}
      /\ offered'.fallback = offered.fallback
  BY <1>1, <1>2 DEF OfferedShape
<1>4. offered' \in OfferedShape
  <2>1. offered.otks \ {k} \in SUBSET Nat /\ offered.claimed \cup {k} \in SUBSET Nat
    BY <1>2 DEF OfferedShape
  <2> QED
    BY <1>1, <1>2, <2>1, Zenon DEF OfferedShape
<1>5. l \in LetterShape /\ l.key = k /\ ~ l.fallback
  BY <1>2 DEF LetterShape
<1> HIDE DEF l
<1>6. letters' = letters \cup {l}
  BY <1>1 DEF l
<1>7. Shapes(account, uploads, offered, letters, lost, resent, given, unsent)'
  BY <1>1, <1>4, <1>5, <1>6 DEF SupplyInv, Shapes
<1>8. k \in account.private \cup resent
  BY <1>2 DEF SupplyInv, OtkInv
<1>9. OtkInv(account, uploads, offered, letters, lost, resent)'
  BY <1>1, <1>3, <1>5, <1>6, <1>8 DEF SupplyInv, OtkInv
<1>10. FallbackInv(account, uploads, offered, letters, lost, given, unsent)'
  BY <1>1, <1>3, <1>5, <1>6 DEF SupplyInv, FallbackInv
<1> QED
  BY <1>1, <1>7, <1>9, <1>10 DEF SupplyInv

(* claim_one_time_key, the fallback key. *)
LEMMA ClaimFallbackKeeps ==
    ASSUME SupplyAssumption, SupplyInv, ClaimFallbackKey
    PROVE  SupplyInv'
<1> DEFINE l == [key |-> offered.fallback, fallback |-> TRUE]
<1>1. /\ letters' = letters \cup {l} /\ offered.fallback # None
      /\ offered' = [offered EXCEPT !.used = TRUE]
      /\ UNCHANGED <<account, uploads, counts, lost, resent, given, unsent>>
  BY DEF ClaimFallbackKey
<1>2. offered \in OfferedShape /\ offered.fallback \in Nat
  BY <1>1 DEF SupplyInv, Shapes, OfferedShape
<1>3. /\ offered'.otks = offered.otks /\ offered'.claimed = offered.claimed
      /\ offered'.fallback = offered.fallback /\ offered' \in OfferedShape
  BY <1>1, <1>2 DEF OfferedShape
<1>4. l \in LetterShape /\ l.key = offered.fallback /\ l.fallback
  BY <1>2 DEF LetterShape
<1> HIDE DEF l
<1>5. Shapes(account, uploads, offered, letters, lost, resent, given, unsent)'
  BY <1>1, <1>3, <1>4 DEF SupplyInv, Shapes
<1>6. OtkInv(account, uploads, offered, letters, lost, resent)'
  BY <1>1, <1>3, <1>4 DEF SupplyInv, OtkInv
<1>7. FallbackInv(account, uploads, offered, letters, lost, given, unsent)'
  BY <1>1, <1>3, <1>4 DEF SupplyInv, FallbackInv
<1> QED
  BY <1>1, <1>5, <1>6, <1>7 DEF SupplyInv

(* A /sync answer reads the counts and nothing changes. *)
LEMMA CountingKeeps ==
    ASSUME SupplyAssumption, SupplyInv, ServerCounts
    PROVE  SupplyInv'
<1>1. counts'.otks \in Nat /\ counts'.unusedFallback \in BOOLEAN
  BY OfferIsCounted DEF ServerCounts
<1>2. UNCHANGED <<account, uploads, offered, letters, lost, resent, given, unsent>>
  BY DEF ServerCounts
<1> QED
  BY <1>1, <1>2 DEF SupplyInv

-----------------------------------------------------------------------------
\* SupplyInv is an invariant of every behaviour.
LEMMA SupplyInvHolds == SupplySpec => []SupplyInv
<1> USE SupplyAssumption
<1>1. SupplyInit => SupplyInv
  BY SupplyStarts
<1>2. SupplyInv /\ [SupplyNext]_supplyVars => SupplyInv'
  <2> SUFFICES ASSUME SupplyInv, [SupplyNext]_supplyVars
               PROVE  SupplyInv'
    OBVIOUS
  <2>1. CASE UNCHANGED supplyVars
    BY <2>1 DEF supplyVars, SupplyInv
  <2> QED
    BY <2>1, CountsKeep, AnswerKeeps, LetterKeeps, TakingKeeps, CountingKeeps, ClaimKeeps,
       ClaimFallbackKeeps DEF SupplyNext
<1> QED
  BY <1>1, <1>2, PTL DEF SupplySpec

\* Every key the homeserver can hand out is one the device still holds, but for
\* the three exceptions KeysOnOfferAreHeld names, whatever the number of keys,
\* uploads in the queue and lost answers.
THEOREM KeysOnOfferAreHeldHolds == SupplySpec => []KeysOnOfferAreHeld
<1>1. SupplyInv => KeysOnOfferAreHeld
  <2> SUFFICES ASSUME SupplyInv
               PROVE  KeysOnOfferAreHeld
    OBVIOUS
  <2>1. offered.otks \subseteq Nat
    BY DEF SupplyInv, Shapes, OfferedShape
  <2>2. offered.otks \subseteq account.private \cup resent
    BY <2>1 DEF SupplyInv, OtkInv
  <2> QED
    BY <2>2 DEF SupplyInv, FallbackInv, Offerable, KeysOnOfferAreHeld
<1> QED
  BY <1>1, SupplyInvHolds, PTL

\* A letter that could not be opened was under a one-time key uploaded again after
\* its claim, or under a fallback key two generations old.
THEOREM ClaimedKeysOpenHolds == SupplySpec => []ClaimedKeysOpen
<1>1. SupplyInv => ClaimedKeysOpen
  BY DEF SupplyInv, OtkInv, FallbackInv, ClaimedKeysOpen
<1> QED
  BY <1>1, SupplyInvHolds, PTL
=============================================================================
