-------------------------- MODULE SendPipelineProofs --------------------------
(***************************************************************************)
(* Room keys reach only the members they are meant for, for any peers,     *)
(* devices, number of messages, chunk size and number of mishaps.          *)
(***************************************************************************)
EXTENDS SendPipeline, FiniteSetTheorems, TLAPS

WorkFields == {"tracked", "known", "olm", "out", "queue", "state", "calls", "enc", "missed",
               "answered", "overtaken", "view"}
IsWork(w) == DOMAIN w = WorkFields

Sent(ks, cs) ==
    ks \union UNION {{<<c.session, c.index, k>> : k \in c.to} : c \in {c \in cs : c.kind = "share"}}

\* The device published this identity, now or earlier.
Past(pub, k) == pub[k[1]] = Gone \/ (pub[k[1]] \in Nat /\ k[2] <= pub[k[1]])
\* One identity per device.
OnePerDevice(ks) == \A j, k \in ks : j[1] = k[1] => j = k

CallOK(pub, c) ==
    /\ {"kind", "owner"} \subseteq DOMAIN c
    /\ c.kind = "share" => /\ {"session", "index", "to"} \subseteq DOMAIN c
                           /\ c.session \in Nat /\ c.index \in Nat
                           /\ c.to \subseteq Keyed /\ c.to # {}
    /\ c.kind = "query" =>
        /\ {"users", "answer"} \subseteq DOMAIN c
        /\ c.answer # None =>
            /\ c.answer \subseteq Keyed /\ OnePerDevice(c.answer)
            /\ \A a \in c.answer : OwnerOf[a[1]] \in c.users /\ Past(pub, a)

Shapes(w, ks, pub) ==
    /\ IsWork(w) /\ w.known \subseteq Keyed /\ ks \subseteq Nat \X Nat \X Keyed
    /\ w.out # None => w.out \in OutboundRecord
    /\ \A c \in w.calls : CallOK(pub, c)
    /\ \A m \in w.enc : m.session \in Nat /\ m.index \in Nat

\* The stored device lists.
ListsInv(w, pub) == OnePerDevice(w.known) /\ \A k \in w.known : Past(pub, k)

\* The identity a key was sent to is not the device's any more, or an older answer
\* was applied after it.
Excused(w, pub, k) == pub[k[1]] # k[2] \/ k \in w.overtaken

\* Where a key y = <<session, index, (device, identity)>> stands to the session in use:
\* it is no later; a stored identity older than the one it was sent to came from an
\* overtaken answer; its device is a recorded recipient, of a member seen at step 3.
KeyInv(w, pub, y) ==
    /\ w.out # None /\ Past(pub, y[3])
    /\ y[1] <= w.out.id /\ (y[1] = w.out.id => y[2] <= w.out.index)
    /\ \A k \in w.known : k[1] = y[3][1] /\ k[2] < y[3][2] => y[3] \in w.overtaken
    /\ y[1] = w.out.id =>
        /\ y[3][1] \in w.out.shared \/ Excused(w, pub, y[3])
        /\ OwnerOf[y[3][1]] \in w.view.users \/ Excused(w, pub, y[3])

\* The recorded recipients are devices of members seen at step 3.
RecipientsInv(w) == w.out # None => \A d \in w.out.shared : OwnerOf[d] \in w.view.users

\* A message is behind the session's index, and the keys that open it are with the
\* members it was meant for.
MessageInv(w, pub, keys, m) ==
    /\ w.out # None
    /\ m.session <= w.out.id /\ (m.session = w.out.id => m.index < w.out.index)
    /\ \A y \in keys : y[1] = m.session /\ y[2] <= m.index =>
          OwnerOf[y[3][1]] \in m.users \/ Excused(w, pub, y[3])
    /\ \A k \in m.answered : OwnerOf[k[1]] \in m.users \/ k \in m.strays

PipeInv(w, ks, pub) ==
    /\ Shapes(w, ks, pub) /\ ListsInv(w, pub) /\ RecipientsInv(w)
    /\ \A y \in Sent(ks, w.calls) : KeyInv(w, pub, y)
    /\ \A m \in w.enc : MessageInv(w, pub, Sent(ks, w.calls), m)

Published == published \in [Devices -> Identities \union {None, Gone}]

SendInv == Published /\ PipeInv(Working, keysAt, published)

-------------------------------------------------------------------------------
(* A chunk of recipients is a part of the recipients, and not empty. *)
LEMMA ChunkIsPart ==
    ASSUME SendAssumption, NEW devs, IsFiniteSet(devs), NEW c \in Chunks(devs)
    PROVE  c \subseteq devs /\ c # {}
<1> DEFINE s == Enumeration(devs)
           n == Len(s)
<1>1. s \in [1 .. Cardinality(devs) -> devs]
  <2>1. Cardinality(devs) \in Nat /\ ExistsBijection(1 .. Cardinality(devs), devs)
    BY FS_CardinalityType
  <2>2. PICK f \in Bijection(1 .. Cardinality(devs), devs) : TRUE
    BY <2>1 DEF ExistsBijection
  <2>3. f \in [1 .. Cardinality(devs) -> devs] /\ IsInjective(f)
    BY <2>2 DEF Bijection, Injection, Surjection, IsInjective
  <2> QED
    BY <2>3 DEF Enumeration
<1>2. Cardinality(devs) \in Nat
  BY FS_CardinalityType
<1>3. n = Cardinality(devs)
  BY <1>1, <1>2
<1> HIDE DEF s
<1>4. PICK i \in {j \in 1..n : (j - 1) % ChunkSize = 0} :
        c = {s[j] : j \in i..IF i + ChunkSize - 1 < n THEN i + ChunkSize - 1 ELSE n}
  BY DEF Chunks, s
<1>5. ASSUME NEW j \in i..IF i + ChunkSize - 1 < n THEN i + ChunkSize - 1 ELSE n
      PROVE  s[j] \in devs
  <2>1. i \in 1..n /\ ChunkSize \in Nat /\ n \in Nat
    BY <1>2, <1>3 DEF SendAssumption
  <2>2. j \in 1..n
    BY <1>5, <2>1
  <2> QED
    BY <1>1, <1>3, <2>2
<1>6. i \in i..IF i + ChunkSize - 1 < n THEN i + ChunkSize - 1 ELSE n
  BY <1>2, <1>3 DEF SendAssumption
<1> QED
  BY <1>4, <1>5, <1>6, ZenonT(60)

(* Stored device lists are finite. *)
LEMMA KeyedIsFinite ==
    ASSUME SendAssumption
    PROVE  IsFiniteSet(Keyed) /\ \A k \in Keyed : k[1] \in Devices /\ k[2] \in Nat
<1>1. IsFiniteSet(Devices) /\ IsFiniteSet(0..MaxIdentity)
  BY FS_Interval DEF SendAssumption, Devices
<1>2. IsFiniteSet(Keyed)
  BY <1>1, FS_Product DEF Keyed, Identities
<1> QED
  BY <1>2 DEF Keyed, Identities, SendAssumption

(* The keys sent, one by one. *)
LEMMA SentKeys ==
    ASSUME NEW ks, NEW cs
    PROVE  \A y : y \in Sent(ks, cs) <=>
              \/ y \in ks
              \/ \E c \in cs : c.kind = "share" /\ \E k \in c.to : y = <<c.session, c.index, k>>
BY DEF Sent

(* What the invariant says of one key sent or queued. *)
LEMMA SentShape ==
    ASSUME NEW w, NEW ks, NEW pub, PipeInv(w, ks, pub), NEW y \in Sent(ks, w.calls)
    PROVE  y[1] \in Nat /\ y[2] \in Nat /\ y[3] \in Keyed /\ KeyInv(w, pub, y)
<1>1. KeyInv(w, pub, y)
  BY DEF PipeInv
<1>2. CASE y \in ks
  <2>1. y \in Nat \X Nat \X Keyed
    BY <1>2 DEF PipeInv, Shapes
  <2> QED
    BY <1>1, <2>1
<1>3. CASE \E c \in w.calls : c.kind = "share" /\ \E k \in c.to : y = <<c.session, c.index, k>>
  <2>1. PICK c \in w.calls : c.kind = "share" /\ \E k \in c.to : y = <<c.session, c.index, k>>
    BY <1>3
  <2>2. CallOK(pub, c)
    BY DEF PipeInv, Shapes
  <2>3. c.session \in Nat /\ c.index \in Nat /\ c.to \subseteq Keyed
    BY <2>1, <2>2 DEF CallOK
  <2>4. PICK k \in c.to : y = <<c.session, c.index, k>>
    BY <2>1
  <2> QED
    BY <1>1, <2>3, <2>4
<1> QED
  BY <1>2, <1>3, SentKeys

(* Steps that send no key and touch no key state keep the invariant. *)
LEMMA Transfer ==
    ASSUME NEW w, NEW x, NEW ks, NEW js, NEW pub,
           PipeInv(w, ks, pub), IsWork(x),
           x.known = w.known, x.out = w.out, x.enc = w.enc, x.overtaken = w.overtaken,
           x.view = w.view,
           js \subseteq Nat \X Nat \X Keyed, \A c \in x.calls : CallOK(pub, c),
           Sent(js, x.calls) \subseteq Sent(ks, w.calls)
    PROVE  PipeInv(x, js, pub)
<1>1. Shapes(x, js, pub)
  BY DEF PipeInv, Shapes
<1>2. ListsInv(x, pub)
  BY DEF PipeInv, ListsInv
<1>3. \A y \in Sent(js, x.calls) : KeyInv(x, pub, y)
  BY DEF PipeInv, KeyInv, Excused
<1>4. \A m \in x.enc : MessageInv(x, pub, Sent(js, x.calls), m)
  BY DEF PipeInv, MessageInv, Excused
<1>5. RecipientsInv(x)
  BY DEF PipeInv, RecipientsInv
<1> QED
  BY <1>1, <1>2, <1>3, <1>4, <1>5 DEF PipeInv

(* ... in particular those that only add requests of other kinds. *)
LEMMA TransferCalls ==
    ASSUME NEW w, NEW x, NEW ks, NEW pub,
           PipeInv(w, ks, pub), IsWork(x),
           x.known = w.known, x.out = w.out, x.enc = w.enc, x.overtaken = w.overtaken,
           x.view = w.view,
           \A c \in x.calls : c \in w.calls \/ (CallOK(pub, c) /\ c.kind # "share")
    PROVE  PipeInv(x, ks, pub)
<1>1. \A c \in x.calls : CallOK(pub, c)
  BY DEF PipeInv, Shapes
<1>2. Sent(ks, x.calls) \subseteq Sent(ks, w.calls)
  BY SentKeys
<1>3. ks \subseteq Nat \X Nat \X Keyed
  BY DEF PipeInv, Shapes
<1> QED
  BY <1>1, <1>2, <1>3, Transfer

-------------------------------------------------------------------------------
(* The room's FIFO and the phases of its sends hold no keys. *)
LEMMA QueueKeeps ==
    ASSUME NEW w, NEW ks, NEW pub, NEW q, PipeInv(w, ks, pub)
    PROVE  PipeInv([w EXCEPT !.queue = q], ks, pub)
<1> DEFINE x == [w EXCEPT !.queue = q]
<1>1. IsWork(w)
  BY DEF PipeInv, Shapes
<1>2. /\ IsWork(x) /\ x.known = w.known /\ x.out = w.out /\ x.enc = w.enc
      /\ x.overtaken = w.overtaken /\ x.view = w.view /\ x.calls = w.calls
  BY <1>1 DEF IsWork, WorkFields
<1> HIDE DEF x
<1> QED
  BY <1>2, TransferCalls, ZenonT(60) DEF x

LEMMA StateKeeps ==
    ASSUME NEW w, NEW ks, NEW pub, NEW s, PipeInv(w, ks, pub)
    PROVE  PipeInv([w EXCEPT !.state = s], ks, pub)
<1> DEFINE x == [w EXCEPT !.state = s]
<1>1. IsWork(w)
  BY DEF PipeInv, Shapes
<1>2. /\ IsWork(x) /\ x.known = w.known /\ x.out = w.out /\ x.enc = w.enc
      /\ x.overtaken = w.overtaken /\ x.view = w.view /\ x.calls = w.calls
  BY <1>1 DEF IsWork, WorkFields
<1> HIDE DEF x
<1> QED
  BY <1>2, TransferCalls, ZenonT(60) DEF x

LEMMA PhaseKeeps ==
    ASSUME NEW w, NEW ks, NEW pub, NEW t, NEW p, PipeInv(w, ks, pub)
    PROVE  PipeInv(SetPhase(w, t, p), ks, pub)
<1> DEFINE x == SetPhase(w, t, p)
<1>1. IsWork(w)
  BY DEF PipeInv, Shapes
<1>2. /\ IsWork(x) /\ x.known = w.known /\ x.out = w.out /\ x.enc = w.enc
      /\ x.overtaken = w.overtaken /\ x.view = w.view /\ x.calls = w.calls
  BY <1>1 DEF SetPhase, IsWork, WorkFields
<1> HIDE DEF x
<1> QED
  BY <1>2, TransferCalls DEF x

(* begin_awaiting_send: the room event's request joins the others. *)
LEMMA AwaitKeeps ==
    ASSUME NEW w, NEW ks, NEW pub, NEW t, PipeInv(w, ks, pub)
    PROVE  PipeInv(AwaitSend(w, t), ks, pub)
<1> DEFINE x == AwaitSend(w, t)
           c == [kind |-> "send", owner |-> t, wire |-> w.state[t].wire]
<1>1. IsWork(w)
  BY DEF PipeInv, Shapes
<1>2. /\ IsWork(x) /\ x.known = w.known /\ x.out = w.out /\ x.enc = w.enc
      /\ x.overtaken = w.overtaken /\ x.view = w.view /\ x.calls = w.calls \union {c}
  BY <1>1 DEF AwaitSend, SetPhase, IsWork, WorkFields
<1>3. CallOK(pub, c) /\ c.kind # "share"
  BY DEF CallOK
<1> HIDE DEF x, c
<1> QED
  BY <1>2, <1>3, TransferCalls DEF x

(* finish_encrypt_and_send: the keys that open the new message went to devices of the *)
(* members seen at step 3.                                                            *)
LEMMA EncryptKeeps ==
    ASSUME SendAssumption, NEW w, NEW ks, NEW pub, NEW t, PipeInv(w, ks, pub), w.out # None
    PROVE  PipeInv(EncryptAndSend(w, t), ks, pub)
<1> DEFINE asked == {k \in Keyed : <<w.out.id, k>> \in w.answered}
           m == [txn |-> t, session |-> w.out.id, index |-> w.out.index,
                 users |-> w.view.users, devices |-> w.view.devices,
                 answered |-> asked, strays |-> {k \in asked : k[1] \notin w.out.shared}]
           x == [EncryptEvent(w, t) EXCEPT !.state[t].wire = <<w.out.id, w.out.index>>]
<1>1. IsWork(w) /\ w.out \in OutboundRecord
  BY DEF PipeInv, Shapes
<1>2. /\ IsWork(x) /\ x.known = w.known /\ x.out = [w.out EXCEPT !.index = @ + 1]
      /\ x.enc = w.enc \union {m} /\ x.overtaken = w.overtaken /\ x.view = w.view
      /\ x.calls = w.calls
  BY <1>1 DEF EncryptEvent, IsWork, WorkFields
<1>3. /\ x.out \in OutboundRecord /\ x.out # None
      /\ x.out.id = w.out.id /\ x.out.index = w.out.index + 1 /\ x.out.shared = w.out.shared
  BY <1>1, <1>2 DEF OutboundRecord, SendAssumption
<1>4. /\ m.session = w.out.id /\ m.index = w.out.index /\ m.users = w.view.users
      /\ \A k \in m.answered : k[1] \in w.out.shared \/ k \in m.strays
  OBVIOUS
<1>0. w.out.id \in Nat /\ w.out.index \in Nat
  BY <1>1 DEF OutboundRecord
<1> HIDE DEF x, m
<1>5. Shapes(x, ks, pub)
  BY <1>0, <1>2, <1>3, <1>4 DEF PipeInv, Shapes
<1>6. ListsInv(x, pub)
  BY <1>2 DEF PipeInv, ListsInv
<1>7. \A y \in Sent(ks, w.calls) : y[1] \in Nat /\ y[2] \in Nat
  BY SentKeys DEF PipeInv, Shapes, CallOK
<1>8. \A y \in Sent(ks, w.calls) : KeyInv(x, pub, y)
  BY <1>0, <1>2, <1>3, <1>7 DEF PipeInv, KeyInv, Excused
<1>9. \A n \in w.enc : MessageInv(x, pub, Sent(ks, w.calls), n)
  BY <1>0, <1>2, <1>3 DEF PipeInv, Shapes, MessageInv, Excused
<1>10. MessageInv(x, pub, Sent(ks, w.calls), m)
  <2>1. \A k \in m.answered : OwnerOf[k[1]] \in m.users \/ k \in m.strays
    BY <1>4, ZenonT(60) DEF PipeInv, RecipientsInv
  <2> QED
    BY <1>0, <1>2, <1>3, <1>4, <2>1 DEF PipeInv, KeyInv, MessageInv, Excused
<1>11. RecipientsInv(x)
  BY <1>2, <1>3 DEF PipeInv, RecipientsInv
<1>12. PipeInv(x, ks, pub)
  BY <1>2, <1>5, <1>6, <1>8, <1>9, <1>10, <1>11 DEF PipeInv
<1> QED
  BY <1>12, AwaitKeeps DEF EncryptAndSend, x

(* ensure_outbound_session: a session that is kept has recipients of present members *)
(* only; a new one has a new id.                                                     *)
LEMMA SessionInUse ==
    ASSUME SendAssumption, NEW out, NEW users, NEW devices, out # None => out \in OutboundRecord
    PROVE  LET old == Session(out, users, devices)
           IN  /\ old \in OutboundRecord /\ \A d \in old.shared : OwnerOf[d] \in users
               /\ \/ out # None /\ old = out /\ \A d \in out.shared : OwnerOf[d] \in users
                  \/ out = None \/ out.id < old.id
<1>1. CASE MustRotate(out, users, devices)
  <2>1. Session(out, users, devices) =
          [id |-> IF out = None THEN 1 ELSE out.id + 1, index |-> 0, shared |-> {}]
    BY <1>1 DEF Session
  <2> QED
    BY <2>1 DEF OutboundRecord
<1>2. CASE ~ MustRotate(out, users, devices)
  <2>1. Session(out, users, devices) = out
    BY <1>2 DEF Session
  <2>2. out # None /\ \A d \in out.shared : OwnerOf[d] \in users
    BY <1>2 DEF MustRotate
  <2> QED
    BY <2>1, <2>2
<1> QED
  BY <1>1, <1>2

(* A key shared at the session's own index with a recorded recipient. *)
LEMMA FreshKey ==
    ASSUME SendAssumption, NEW x, NEW pub, NEW k \in Keyed, x.out \in OutboundRecord,
           x.out # None, ListsInv(x, pub), k \in x.known, k[1] \in x.out.shared,
           OwnerOf[k[1]] \in x.view.users
    PROVE  KeyInv(x, pub, <<x.out.id, x.out.index, k>>)
<1>1. x.out.id \in Nat /\ x.out.index \in Nat
  BY DEF OutboundRecord
<1>2. Past(pub, k) /\ OnePerDevice(x.known)
  BY DEF ListsInv
<1>3. k[2] \in Nat
  BY KeyedIsFinite
<1>4. \A j \in x.known : ~ (j[1] = k[1] /\ j[2] < k[2])
  BY <1>2, <1>3 DEF OnePerDevice
<1> DEFINE y == <<x.out.id, x.out.index, k>>
<1>5. y[1] = x.out.id /\ y[2] = x.out.index /\ y[3] = k
  OBVIOUS
<1> HIDE DEF y
<1>6. KeyInv(x, pub, y)
  BY <1>1, <1>2, <1>4, <1>5, SMTT(30) DEF KeyInv
<1> QED
  BY <1>6 DEF y

(* Step 3 up to the decision between sharing and encrypting: the session in use, its *)
(* new recipients, and the shares for the ones with an Olm session.                  *)
LEMMA SharingKeeps ==
    ASSUME SendAssumption, NEW w, NEW x, NEW ks, NEW pub, NEW t, NEW users, NEW sessioned,
           NEW old, NEW new, NEW shares,
           PipeInv(w, ks, pub), IsWork(x), new \subseteq OfUsers(w.known, users),
           sessioned \subseteq new, old = Session(w.out, users, OfUsers(w.known, users)),
           x.out = WithRecipients(old, new), shares = ShareCalls(t, x.out, sessioned),
           x.calls = w.calls \union shares, x.known = w.known, x.enc = w.enc,
           x.overtaken = w.overtaken, x.view.users = users
    PROVE  PipeInv(x, ks, pub) /\ x.out # None
<1>1. w.out # None => w.out \in OutboundRecord
  BY DEF PipeInv, Shapes
<1>2. /\ old \in OutboundRecord /\ \A d \in old.shared : OwnerOf[d] \in users
      /\ \/ w.out # None /\ old = w.out /\ \A d \in w.out.shared : OwnerOf[d] \in users
         \/ w.out = None \/ w.out.id < old.id
  BY <1>1, SessionInUse
<1>3. /\ w.known \subseteq Keyed /\ new \subseteq w.known
      /\ \A k \in new : k \in Keyed /\ k[1] \in Devices /\ OwnerOf[k[1]] \in users
  BY KeyedIsFinite DEF OfUsers, PipeInv, Shapes
<1>4. /\ x.out \in OutboundRecord /\ x.out.id = old.id /\ x.out.index = old.index
      /\ x.out.shared = old.shared \union {k[1] : k \in new} /\ x.out # None
  BY <1>2, <1>3 DEF WithRecipients, OutboundRecord, SendAssumption, Devices
<1>5. \A c \in Chunks(sessioned) : c \subseteq new /\ c # {}
  <2>1. IsFiniteSet(sessioned)
    BY <1>3, KeyedIsFinite, FS_Subset
  <2> QED
    BY <2>1, ChunkIsPart
<1>6. old.id \in Nat /\ old.index \in Nat
  BY <1>2, ZenonT(60) DEF OutboundRecord
<1>7. ASSUME NEW c \in shares
      PROVE  /\ CallOK(pub, c) /\ c.kind = "share" /\ c.session = old.id
             /\ c.index = old.index /\ c.to \subseteq new
  <2>1. PICK d \in Chunks(sessioned) :
          c = [kind |-> "share", owner |-> t, session |-> x.out.id, index |-> x.out.index,
               to |-> d]
    BY <1>7 DEF ShareCalls
  <2> QED
    BY <1>3, <1>4, <1>5, <1>6, <2>1, ZenonT(60) DEF CallOK
<1>8. ASSUME NEW y \in Sent(ks, x.calls)
      PROVE  \/ y \in Sent(ks, w.calls)
             \/ \E k \in new : y = <<old.id, old.index, k>>
  BY <1>7, <1>8, SentKeys, SMTT(30)
<1>9. \A y \in Sent(ks, w.calls) : y[1] \in Nat /\ y[2] \in Nat
  BY SentShape
<1>10. w.out # None => w.out.id \in Nat /\ w.out.index \in Nat
  BY <1>1, ZenonT(60) DEF OutboundRecord
<1>11. Shapes(x, ks, pub)
  BY <1>4, <1>7, ZenonT(60) DEF PipeInv, Shapes
<1>12. ListsInv(x, pub)
  BY ZenonT(60) DEF PipeInv, ListsInv
<1>13. ASSUME NEW y \in Sent(ks, w.calls)
       PROVE  KeyInv(x, pub, y)
  <2>1. KeyInv(w, pub, y) /\ y[1] \in Nat /\ y[2] \in Nat
    BY <1>9, ZenonT(60) DEF PipeInv
  <2>2. CASE old = w.out /\ \A d \in w.out.shared : OwnerOf[d] \in users
    BY <1>4, <2>1, <2>2, ZenonT(60) DEF KeyInv, Excused
  <2>3. CASE w.out.id < old.id
    BY <1>4, <1>6, <1>10, <2>1, <2>3, SMTT(30) DEF KeyInv
  <2> QED
    BY <1>2, <2>1, <2>2, <2>3, ZenonT(60) DEF KeyInv
<1>14. ASSUME NEW k \in new
       PROVE  KeyInv(x, pub, <<old.id, old.index, k>>)
  <2>1. k \in Keyed /\ k \in x.known /\ k[1] \in x.out.shared /\ OwnerOf[k[1]] \in x.view.users
    BY <1>3, <1>4, ZenonT(60)
  <2>2. KeyInv(x, pub, <<x.out.id, x.out.index, k>>)
    BY <1>4, <1>12, <2>1, FreshKey, ZenonT(60)
  <2> QED
    BY <1>4, <2>2, ZenonT(60)
<1>15. ASSUME NEW m \in w.enc
       PROVE  MessageInv(x, pub, Sent(ks, x.calls), m)
  <2>1. MessageInv(w, pub, Sent(ks, w.calls), m) /\ m.session \in Nat /\ m.index \in Nat
    BY DEF PipeInv, Shapes
  <2>2. m.session <= x.out.id /\ (m.session = x.out.id => m.index < x.out.index)
    <3>1. /\ w.out # None /\ m.session <= w.out.id
          /\ m.session = w.out.id => m.index < w.out.index
      BY <2>1, ZenonT(60) DEF MessageInv
    <3>2. CASE old = w.out
      BY <1>4, <3>1, <3>2, ZenonT(60)
    <3>3. CASE w.out.id < old.id
      BY <1>4, <1>6, <1>10, <2>1, <3>1, <3>3, SMTT(30)
    <3> QED
      BY <1>2, <3>1, <3>2, <3>3
  <2>3. ASSUME NEW y \in Sent(ks, x.calls), y[1] = m.session, y[2] <= m.index
        PROVE  OwnerOf[y[3][1]] \in m.users \/ Excused(x, pub, y[3])
    <3>1. y \in Sent(ks, w.calls)
      <4>1. ASSUME NEW k \in new, y = <<old.id, old.index, k>>
            PROVE  FALSE
        <5>1. y[1] = old.id /\ y[2] = old.index
          BY <4>1
        <5>2. m.session = x.out.id /\ x.out.index <= m.index
          BY <1>4, <2>3, <5>1, ZenonT(60)
        <5>3. m.index < x.out.index
          BY <2>2, <5>2, ZenonT(60)
        <5>4. m.index \in Nat /\ x.out.index \in Nat
          BY <1>4, <1>6, <2>1, ZenonT(60)
        <5> QED
          BY <5>2, <5>3, <5>4, SMTT(30)
      <4> QED
        BY <1>8, <4>1, ZenonT(60)
    <3> QED
      BY <2>1, <2>3, <3>1, ZenonT(60) DEF MessageInv, Excused
  <2>4. \A k \in m.answered : OwnerOf[k[1]] \in m.users \/ k \in m.strays
    BY <2>1 DEF MessageInv
  <2> QED
    BY <1>4, <2>2, <2>3, <2>4, ZenonT(60) DEF MessageInv
<1>16. \A y \in Sent(ks, x.calls) : KeyInv(x, pub, y)
  BY <1>8, <1>13, <1>14
<1>17. RecipientsInv(x)
  BY <1>2, <1>3, <1>4, ZenonT(60) DEF RecipientsInv
<1> QED
  BY <1>4, <1>11, <1>12, <1>15, <1>16, <1>17, ZenonT(60) DEF PipeInv

(* begin_share_or_encrypt. *)
LEMMA ShareKeeps ==
    ASSUME SendAssumption, NEW w, NEW ks, NEW pub, NEW t, PipeInv(w, ks, pub)
    PROVE  PipeInv(ShareOrEncrypt(w, t), ks, pub)
<1> DEFINE users == Recipients(roomView)
           devices == OfUsers(w.known, users)
           old == Session(w.out, users, devices)
           new == NewRecipients(old, devices)
           out == WithRecipients(old, new)
           sessioned == new \ SessionsMissing(w, new)
           shares == ShareCalls(t, out, sessioned)
           x == Share(w, t)
<1>1. IsWork(w)
  BY ZenonT(60) DEF PipeInv, Shapes
<1>2. new \subseteq devices /\ sessioned \subseteq new
  BY DEF NewRecipients
<1>3. x = [w EXCEPT !.out = out, !.calls = @ \union shares,
                    !.missed = @ \union {<<out.id, k>> : k \in new \ sessioned},
                    !.view = [users |-> users, devices |-> devices],
                    !.state[t].pending = shares]
  BY DEF Share
<1> HIDE DEF x, out, shares, sessioned, new, old, devices, users
<1>4. /\ IsWork(x) /\ x.out = out /\ x.calls = w.calls \union shares /\ x.known = w.known
      /\ x.enc = w.enc /\ x.overtaken = w.overtaken
      /\ x.view = [users |-> users, devices |-> devices]
  BY <1>1, <1>3, ZenonT(60) DEF IsWork, WorkFields
<1>5. PipeInv(x, ks, pub) /\ x.out # None
  <2>1. shares = ShareCalls(t, x.out, sessioned)
    BY <1>4 DEF shares
  <2>2. x.out = WithRecipients(old, new) /\ x.view.users = users
    BY <1>4 DEF out
  <2>3. /\ old = Session(w.out, users, OfUsers(w.known, users))
        /\ new \subseteq OfUsers(w.known, users)
    BY <1>2 DEF old, devices
  <2> QED
    BY <1>2, <1>4, <2>1, <2>2, <2>3, SharingKeeps, SMTT(60)
<1>6. PipeInv(SetPhase(x, t, "share"), ks, pub)
  BY <1>5, PhaseKeeps
<1>7. PipeInv(EncryptAndSend(x, t), ks, pub)
  BY <1>5, EncryptKeeps
<1> QED
  BY <1>6, <1>7 DEF ShareOrEncrypt, x

(* begin_keys_claim_or_share. *)
LEMMA ClaimKeeps ==
    ASSUME SendAssumption, NEW w, NEW ks, NEW pub, NEW t, PipeInv(w, ks, pub)
    PROVE  PipeInv(ClaimOrShare(w, t), ks, pub)
<1> DEFINE missing == SessionsMissing(w, OfUsers(w.known, Recipients(roomView)))
           c == [kind |-> "claim", owner |-> t, devices |-> missing]
           x == [SetPhase(w, t, "claim") EXCEPT !.calls = @ \union {c}]
<1>1. IsWork(w)
  BY DEF PipeInv, Shapes
<1> HIDE DEF missing
<1>2. CallOK(pub, c) /\ c.kind # "share"
  BY DEF CallOK
<1> HIDE DEF c
<1>3. /\ IsWork(x) /\ x.known = w.known /\ x.out = w.out /\ x.enc = w.enc
      /\ x.overtaken = w.overtaken /\ x.view = w.view /\ x.calls = w.calls \union {c}
  BY <1>1, ZenonT(60) DEF SetPhase, IsWork, WorkFields
<1> HIDE DEF x
<1>4. PipeInv(x, ks, pub)
  BY <1>2, <1>3, TransferCalls
<1>5. ClaimOrShare(w, t) = IF missing = {} THEN ShareOrEncrypt(w, t) ELSE x
  BY DEF ClaimOrShare, missing, c, x
<1> QED
  BY <1>4, <1>5, ShareKeeps

(* begin_key_pipeline. *)
LEMMA PipelineKeeps ==
    ASSUME SendAssumption, NEW w, NEW ks, NEW pub, NEW t, PipeInv(w, ks, pub)
    PROVE  PipeInv(KeyPipeline(w, t), ks, pub)
<1> DEFINE users == Recipients(roomView)
           marked == MarkUntracked(w, users)
           c == Query(t, Outdated(marked))
           x == [SetPhase(marked, t, "query") EXCEPT !.calls = @ \union {c}]
<1>1. IsWork(w)
  BY DEF PipeInv, Shapes
<1>2. /\ IsWork(marked) /\ marked.known = w.known /\ marked.out = w.out /\ marked.enc = w.enc
      /\ marked.overtaken = w.overtaken /\ marked.view = w.view /\ marked.calls = w.calls
  BY <1>1, ZenonT(60) DEF MarkUntracked, IsWork, WorkFields
<1> HIDE DEF marked, users
<1>3. CallOK(pub, c) /\ c.kind # "share"
  BY DEF CallOK, Query
<1> HIDE DEF c
<1>4. /\ IsWork(x) /\ x.known = w.known /\ x.out = w.out /\ x.enc = w.enc
      /\ x.overtaken = w.overtaken /\ x.view = w.view /\ x.calls = w.calls \union {c}
  BY <1>2 DEF SetPhase, IsWork, WorkFields
<1> HIDE DEF x
<1>5. PipeInv(x, ks, pub)
  BY <1>3, <1>4, TransferCalls
<1>6. KeyPipeline(w, t) = IF \A p \in users : marked.tracked[p] = "current"
                          THEN ClaimOrShare(w, t) ELSE x
  BY DEF KeyPipeline, users, marked, c, x
<1> QED
  BY <1>5, <1>6, ClaimKeeps

(* start_send_pipeline. *)
LEMMA StartKeeps ==
    ASSUME SendAssumption, NEW w, NEW ks, NEW pub, NEW t, PipeInv(w, ks, pub)
    PROVE  PipeInv(StartPipeline(w, t), ks, pub)
BY AwaitKeeps, PipelineKeeps DEF StartPipeline

(* start_new_send / retry_send, and finish_active_send. *)
LEMMA EnqueueKeeps ==
    ASSUME SendAssumption, NEW w, NEW ks, NEW pub, NEW t, PipeInv(w, ks, pub)
    PROVE  PipeInv(Enqueue(w, t), ks, pub)
<1>1. PipeInv([w EXCEPT !.queue = Append(w.queue, t)], ks, pub)
  BY QueueKeeps, ZenonT(60)
<1> QED
  BY <1>1, StartKeeps DEF Enqueue

LEMMA FinishKeeps ==
    ASSUME SendAssumption, NEW w, NEW ks, NEW pub, NEW t, PipeInv(w, ks, pub)
    PROVE  PipeInv(Finish(w, t), ks, pub)
<1> DEFINE q == SelectSeq(w.queue, LAMBDA u : u # t)
           x == [w EXCEPT !.queue = q]
<1>1. Finish(w, t) = IF q = <<>> THEN x ELSE StartPipeline(x, Head(q))
  BY DEF Finish
<1> HIDE DEF q
<1>2. PipeInv(x, ks, pub)
  BY QueueKeeps
<1> HIDE DEF x
<1> QED
  BY <1>1, <1>2, StartKeeps

-------------------------------------------------------------------------------
(* A request that is answered leaves the queue. *)
LEMMA WithoutKeeps ==
    ASSUME NEW w, NEW ks, NEW pub, NEW c, PipeInv(w, ks, pub)
    PROVE  PipeInv(Without(w, c), ks, pub) /\ Without(w, c).calls = w.calls \ {c}
<1> DEFINE x == Without(w, c)
<1>1. IsWork(w)
  BY DEF PipeInv, Shapes
<1>2. /\ IsWork(x) /\ x.known = w.known /\ x.out = w.out /\ x.enc = w.enc
      /\ x.overtaken = w.overtaken /\ x.view = w.view /\ x.calls = w.calls \ {c}
  BY <1>1 DEF Without, IsWork, WorkFields
<1> HIDE DEF x
<1> QED
  BY <1>2, TransferCalls DEF x

(* Lists of different devices are one per device together. *)
LEMMA OnePerDeviceUnion ==
    ASSUME NEW A, NEW B, OnePerDevice(A), OnePerDevice(B), \A j \in A, k \in B : j[1] # k[1]
    PROVE  OnePerDevice(A \union B)
BY ZenonT(60) DEF OnePerDevice

(* on_keys_query_response: a recipient forgotten because the answer names another *)
(* identity has changed keys, or the answer is older than the key it was sent.    *)
LEMMA LearnKeeps ==
    ASSUME SendAssumption, NEW w, NEW ks, NEW pub, NEW c, PipeInv(w, ks, pub),
           Sent(ks, w.calls) \subseteq KeysSent(w.calls),
           c.answer \subseteq Keyed, OnePerDevice(c.answer),
           \A a \in c.answer : OwnerOf[a[1]] \in c.users /\ Past(pub, a)
    PROVE  PipeInv(LearnDevices(w, c), ks, pub)
<1> DEFINE changed == {k[1] : k \in {k \in w.known : \E a \in c.answer :
                                         a[1] = k[1] /\ a[2] # k[2]}}
           back == {a \in c.answer : /\ w.out # None /\ a[1] \in w.out.shared
                                     /\ \A k \in w.known : k[1] # a[1]}
           late == {k \in {y[3] : y \in KeysSent(w.calls)} :
                       \E a \in c.answer : a[1] = k[1] /\ a[2] < k[2]}
           x == LearnDevices(w, c)
<1>1. IsWork(w) /\ w.known \subseteq Keyed /\ (w.out # None => w.out \in OutboundRecord)
  BY DEF PipeInv, Shapes
<1>2. x = [w EXCEPT !.known = {k \in @ : OwnerOf[k[1]] \notin c.users} \union c.answer,
                    !.tracked = [p \in Peers |-> IF p \in c.users THEN "current" ELSE @[p]],
                    !.out = ForgetShared(@, changed),
                    !.missed = @ \union {<<w.out.id, a>> : a \in back},
                    !.overtaken = @ \union late]
  BY DEF LearnDevices
<1>3. \A d : d \in changed <=> \E k \in w.known : \E a \in c.answer :
                                   d = k[1] /\ a[1] = k[1] /\ a[2] # k[2]
  OBVIOUS
<1>4. \A y \in Sent(ks, w.calls) : \A a \in c.answer :
        a[1] = y[3][1] /\ a[2] < y[3][2] => y[3] \in late
  OBVIOUS
<1> HIDE DEF x, changed, back, late
<1>5. /\ IsWork(x) /\ x.known = {k \in w.known : OwnerOf[k[1]] \notin c.users} \union c.answer
      /\ x.out = ForgetShared(w.out, changed) /\ x.enc = w.enc
      /\ x.overtaken = w.overtaken \union late /\ x.view = w.view /\ x.calls = w.calls
  BY <1>1, <1>2 DEF IsWork, WorkFields
<1>6. /\ c.answer \subseteq Keyed /\ OnePerDevice(c.answer)
      /\ \A a \in c.answer : OwnerOf[a[1]] \in c.users /\ Past(pub, a)
  OBVIOUS
<1>7. /\ w.out = None => x.out = None
      /\ w.out # None => /\ x.out \in OutboundRecord /\ x.out # None
                         /\ x.out.id = w.out.id /\ x.out.index = w.out.index
                         /\ x.out.shared = w.out.shared \ changed
  BY <1>1, <1>5, ZenonT(60) DEF ForgetShared, OutboundRecord, SendAssumption
<1>8. Shapes(x, ks, pub)
  BY <1>5, <1>6, <1>7 DEF PipeInv, Shapes
<1>9. ListsInv(x, pub)
  <2>0. OnePerDevice(w.known) /\ \A k \in w.known : Past(pub, k)
    BY ZenonT(60) DEF PipeInv, ListsInv
  <2>1. OnePerDevice(x.known)
    <3> DEFINE kept == {k \in w.known : OwnerOf[k[1]] \notin c.users}
    <3>1. OnePerDevice(kept)
      BY <2>0, ZenonT(60) DEF OnePerDevice
    <3>2. \A j \in kept, k \in c.answer : j[1] # k[1]
      BY <1>6, ZenonT(60)
    <3>3. x.known = kept \union c.answer
      BY <1>5, ZenonT(60)
    <3> HIDE DEF kept
    <3> QED
      BY <1>6, <3>1, <3>2, <3>3, OnePerDeviceUnion, ZenonT(60)
  <2>2. \A k \in x.known : Past(pub, k)
    BY <1>5, <1>6, <2>0, ZenonT(60)
  <2> QED
    BY <2>1, <2>2, ZenonT(60) DEF ListsInv
<1>10. \A k : Excused(w, pub, k) => Excused(x, pub, k)
  BY <1>5, ZenonT(60) DEF Excused
<1>11. ASSUME NEW y \in Sent(ks, w.calls)
       PROVE  KeyInv(x, pub, y)
  <2>1. KeyInv(w, pub, y)
    BY DEF PipeInv
  <2>2. y[3] \in Keyed
    BY SentShape
  <2>3. y[3][2] \in Nat
    BY <2>2, KeyedIsFinite, ZenonT(60)
  <2>4. \A k \in x.known : k[1] = y[3][1] /\ k[2] < y[3][2] => y[3] \in x.overtaken
    BY <1>4, <1>5, <2>1, ZenonT(60) DEF KeyInv
  <2>5. ASSUME y[3][1] \in changed
        PROVE  Excused(x, pub, y[3])
    <3>1. PICK k \in w.known, a \in c.answer : y[3][1] = k[1] /\ a[1] = k[1] /\ a[2] # k[2]
      <4>1. \E k \in w.known : \E a \in c.answer : y[3][1] = k[1] /\ a[1] = k[1] /\ a[2] # k[2]
        BY <1>3, <2>5, SMTT(30)
      <4> QED
        BY <4>1, Zenon
    <3>2. a[2] \in Nat /\ k[2] \in Nat /\ Past(pub, a) /\ Past(pub, k)
      BY <1>1, <1>6, KeyedIsFinite, ZenonT(60) DEF PipeInv, ListsInv
    <3>3. CASE a[2] < y[3][2]
      BY <1>4, <1>5, <3>1, <3>3, ZenonT(60) DEF Excused
    <3>4. CASE a[2] > y[3][2]
      <4>1. pub[a[1]] # y[3][2]
        BY <2>3, <3>2, <3>4 DEF Past, Gone
      <4> QED
        BY <3>1, <4>1, Zenon DEF Excused
    <3>5. CASE k[2] > y[3][2]
      <4>1. pub[k[1]] # y[3][2]
        BY <2>3, <3>2, <3>5 DEF Past, Gone
      <4> QED
        BY <3>1, <4>1, Zenon DEF Excused
    <3>6. CASE k[2] < y[3][2]
      BY <1>5, <2>1, <3>1, <3>6, ZenonT(60) DEF KeyInv, Excused
    <3> QED
      BY <2>3, <3>1, <3>2, <3>3, <3>4, <3>5, <3>6, SMTT(30)
  <2> QED
    BY <1>5, <1>7, <1>10, <2>1, <2>4, <2>5, ZenonT(60) DEF KeyInv
<1>12. ASSUME NEW m \in w.enc
       PROVE  MessageInv(x, pub, Sent(ks, w.calls), m)
  <2>1. MessageInv(w, pub, Sent(ks, w.calls), m)
    BY ZenonT(60) DEF PipeInv
  <2>2. /\ x.out # None /\ m.session <= x.out.id
        /\ m.session = x.out.id => m.index < x.out.index
    BY <1>7, <2>1 DEF MessageInv
  <2>3. \A y \in Sent(ks, w.calls) : y[1] = m.session /\ y[2] <= m.index =>
          OwnerOf[y[3][1]] \in m.users \/ Excused(x, pub, y[3])
    BY <1>10, <2>1, ZenonT(60) DEF MessageInv
  <2>4. \A k \in m.answered : OwnerOf[k[1]] \in m.users \/ k \in m.strays
    BY <2>1, ZenonT(60) DEF MessageInv
  <2> QED
    BY <2>2, <2>3, <2>4, ZenonT(60) DEF MessageInv
<1>13. RecipientsInv(x)
  BY <1>5, <1>7, ZenonT(60) DEF PipeInv, RecipientsInv
<1>14. PipeInv(x, ks, pub)
  BY <1>5, <1>8, <1>9, <1>11, <1>12, <1>13, ZenonT(60) DEF PipeInv
<1> QED
  BY <1>14 DEF x

LEMMA LearnFields ==
    ASSUME NEW w, NEW c, IsWork(w)
    PROVE  LET x == LearnDevices(w, c)
           IN  /\ x.enc = w.enc /\ x.view = w.view /\ x.calls = w.calls
               /\ w.overtaken \subseteq x.overtaken
BY DEF LearnDevices, IsWork, WorkFields

(* The device lists of an answer without its change of the session. *)
LEMMA LearnListsKeeps ==
    ASSUME NEW w, NEW x, NEW z, NEW ks, NEW pub, PipeInv(w, ks, pub), PipeInv(x, ks, pub),
           IsWork(z), x.enc = w.enc, x.view = w.view, x.calls = w.calls,
           w.overtaken \subseteq x.overtaken,
           z.known = x.known, z.out = w.out, z.enc = w.enc, z.overtaken = x.overtaken,
           z.view = w.view, z.calls = w.calls
    PROVE  PipeInv(z, ks, pub)
<1>1. Shapes(z, ks, pub)
  BY DEF PipeInv, Shapes
<1>2. ListsInv(z, pub) /\ RecipientsInv(z)
  BY DEF PipeInv, ListsInv, RecipientsInv
<1>3. \A k : Excused(w, pub, k) => Excused(z, pub, k)
  BY DEF Excused
<1>4. ASSUME NEW y \in Sent(ks, z.calls)
      PROVE  KeyInv(z, pub, y)
  <2>1. KeyInv(w, pub, y) /\ KeyInv(x, pub, y)
    BY DEF PipeInv
  <2> QED
    BY <1>3, <2>1, ZenonT(60) DEF KeyInv
<1>5. ASSUME NEW m \in z.enc
      PROVE  MessageInv(z, pub, Sent(ks, z.calls), m)
  <2>1. MessageInv(w, pub, Sent(ks, z.calls), m)
    BY DEF PipeInv
  <2> QED
    BY <1>3, <2>1, ZenonT(60) DEF MessageInv
<1> QED
  BY <1>1, <1>2, <1>4, <1>5, ZenonT(60) DEF PipeInv

-------------------------------------------------------------------------------
(* The state after a call is what the call worked out. *)
LEMMA PutKeeps ==
    ASSUME NEW w, NEW ks, NEW pub, PipeInv(w, ks, pub), Put(w)
    PROVE  PipeInv(Working', ks, pub)
<1> DEFINE x == Working'
<1>1. /\ IsWork(x) /\ x.known = known' /\ x.out = outbound' /\ x.enc = encrypted'
      /\ x.overtaken = overtaken' /\ x.view = shareView' /\ x.calls = calls'
  BY ZenonT(60) DEF Working, IsWork, WorkFields
<1> HIDE DEF x
<1>2. /\ x.known = w.known /\ x.out = w.out /\ x.enc = w.enc
      /\ x.overtaken = w.overtaken /\ x.view = w.view /\ x.calls = w.calls
  BY <1>1, ZenonT(60) DEF Put
<1> QED
  BY <1>1, <1>2, TransferCalls, ZenonT(60) DEF x

LEMMA WorkingFields ==
    /\ IsWork(Working) /\ Working.known = known /\ Working.out = outbound
    /\ Working.enc = encrypted /\ Working.overtaken = overtaken /\ Working.view = shareView
    /\ Working.calls = calls
BY DEF Working, IsWork, WorkFields

(* The keys on their way or delivered when a handler starts: its invariant is kept over *)
(* them all, whatever it answers or removes, because a crash may bring a request back.  *)
AllSent == Sent(keysAt, calls)

LEMMA HandlerStarts ==
    ASSUME SendInv
    PROVE  PipeInv(Working, AllSent, published)
<1>1. PipeInv(Working, keysAt, published)
  BY DEF SendInv
<1>2. AllSent \subseteq Nat \X Nat \X Keyed
  <2> SUFFICES ASSUME NEW y \in AllSent PROVE y \in Nat \X Nat \X Keyed
    OBVIOUS
  <2>1. CASE y \in keysAt
    BY <1>1, <2>1 DEF PipeInv, Shapes
  <2>2. CASE \E c \in calls : c.kind = "share" /\ \E k \in c.to : y = <<c.session, c.index, k>>
    <3>1. PICK c \in calls : c.kind = "share" /\ \E k \in c.to : y = <<c.session, c.index, k>>
      BY <2>2
    <3>2. CallOK(published, c)
      BY <1>1, WorkingFields DEF PipeInv, Shapes
    <3> QED
      BY <3>1, <3>2 DEF CallOK
  <2> QED
    BY <2>1, <2>2, SentKeys DEF AllSent
<1>3. Sent(AllSent, calls) \subseteq Sent(keysAt, calls)
  BY SentKeys DEF AllSent
<1>4. \A c \in calls : CallOK(published, c)
  BY <1>1, WorkingFields DEF PipeInv, Shapes
<1> QED
  BY <1>1, <1>2, <1>3, <1>4, Transfer, WorkingFields, ZenonT(60)

(* MessengerCore::open: the requests read back lose their owners and keep their keys. *)
LEMMA ReopenedCalls ==
    ASSUME NEW pub, NEW cs, \A c \in cs : CallOK(pub, c)
    PROVE  /\ \A b \in Reopened(cs) : CallOK(pub, b)
           /\ \A ks : Sent(ks, Reopened(cs)) \subseteq Sent(ks, cs)
<1>1. ASSUME NEW b \in Reopened(cs)
      PROVE  /\ CallOK(pub, b)
             /\ b.kind = "share" => \E c \in cs : /\ c.kind = "share" /\ c.to = b.to
                                                  /\ c.session = b.session /\ c.index = b.index
  <2>1. PICK c \in cs : b = IF c.kind = "query" THEN [c EXCEPT !.owner = None, !.answer = None]
                            ELSE [c EXCEPT !.owner = None]
    BY DEF Reopened
  <2>2. CallOK(pub, c)
    OBVIOUS
  <2>3. CASE c.kind = "query"
    BY <2>1, <2>2, <2>3 DEF CallOK
  <2>4. CASE c.kind # "query"
    BY <2>1, <2>2, <2>4 DEF CallOK
  <2> QED
    BY <2>3, <2>4, ZenonT(60)
<1>2. \A ks : Sent(ks, Reopened(cs)) \subseteq Sent(ks, cs)
  BY <1>1, SentKeys, SMTT(30)
<1> QED
  BY <1>1, <1>2

(* A crash in the middle of a flush: the session record, the lists and the messages are *)
(* the handler's, the requests are some of those before and after it.                   *)
LEMMA CrashKeeps ==
    ASSUME SendInv, NEW w, NEW z, NEW kept, NEW js, PipeInv(w, AllSent, published),
           kept \subseteq calls \union w.calls, js \subseteq AllSent, IsWork(z),
           z.known = w.known, z.out = w.out, z.enc = w.enc, z.overtaken = w.overtaken,
           z.view = w.view, z.calls = Reopened(kept)
    PROVE  PipeInv(z, js, published)
<1>1. \A c \in kept : CallOK(published, c)
  BY WorkingFields DEF SendInv, PipeInv, Shapes
<1>2. \A c \in z.calls : CallOK(published, c)
  BY <1>1, ReopenedCalls
<1>3. Sent(js, z.calls) \subseteq Sent(js, kept)
  BY <1>1, ReopenedCalls
<1>4. Sent(js, kept) \subseteq Sent(AllSent, w.calls)
  BY SentKeys, SMTT(30) DEF AllSent
<1>5. js \subseteq Nat \X Nat \X Keyed
  BY DEF PipeInv, Shapes
<1> QED
  BY <1>2, <1>3, <1>4, <1>5, Transfer, ZenonT(60)

LEMMA CrashedFields ==
    ASSUME NEW w, NEW n, NEW kept, IsWork(w)
    PROVE  LET z == Crashed(w, n, kept)
           IN  /\ IsWork(z) /\ z.known = w.known /\ z.out = w.out /\ z.enc = w.enc
               /\ z.overtaken = w.overtaken /\ z.view = w.view /\ z.calls = Reopened(kept)
BY ZenonT(60) DEF Crashed, IsWork, WorkFields

(* A handler whose result keeps the invariant keeps it when it is cut short, too. *)
LEMMA HandledKeeps ==
    ASSUME SendInv, NEW w, NEW m, PipeInv(w, AllSent, published), Handled(w, m),
           keysAt' \subseteq AllSent
    PROVE  PipeInv(Working', keysAt', published)
<1>1. IsWork(w)
  BY DEF PipeInv, Shapes
<1>2. CASE Put(w)
  <2>1. Sent(keysAt', w.calls) \subseteq Sent(AllSent, w.calls)
    BY SentKeys
  <2>2. keysAt' \subseteq Nat \X Nat \X Keyed /\ \A c \in w.calls : CallOK(published, c)
    BY DEF PipeInv, Shapes
  <2>3. PipeInv(w, keysAt', published)
    BY <1>1, <2>1, <2>2, Transfer, ZenonT(60)
  <2> QED
    BY <1>2, <2>3, PutKeeps
<1>3. ASSUME NEW n, NEW kept, kept \subseteq calls \union w.calls, Put(Crashed(w, n, kept))
      PROVE  PipeInv(Working', keysAt', published)
  <2> DEFINE z == Crashed(w, n, kept)
  <2>1. /\ IsWork(z) /\ z.known = w.known /\ z.out = w.out /\ z.enc = w.enc
        /\ z.overtaken = w.overtaken /\ z.view = w.view /\ z.calls = Reopened(kept)
    BY <1>1, CrashedFields, ZenonT(60)
  <2> HIDE DEF z
  <2>2. PipeInv(z, keysAt', published)
    BY <1>3, <2>1, CrashKeeps
  <2> QED
    BY <1>3, <2>2, PutKeeps DEF z
<1>4. \/ Put(w)
      \/ \E n : Put(Crashed(w, n, calls))
      \/ \E kept \in SUBSET (w.calls \ calls) :
            Put(Crashed(w, 3, (calls \intersect w.calls) \union kept))
  BY ZenonT(60) DEF Handled
<1> QED
  BY <1>2, <1>3, <1>4

(* start_new_send and retry_send. *)
LEMMA UserKeeps ==
    ASSUME SendAssumption, SendInv, NEW t \in Txns, Send(t) \/ RetrySend(t)
    PROVE  SendInv'
<1> DEFINE ready == [Working EXCEPT !.state[t] = [phase |-> "queued", wire |-> None,
                                                  pending |-> {}]]
<1>1. PipeInv(Working, AllSent, published)
  BY HandlerStarts
<1>2. PipeInv(ready, AllSent, published)
  BY <1>1, StateKeeps, ZenonT(60)
<1>3. PipeInv(SetPhase(Working, t, "queued"), AllSent, published)
  BY <1>1, PhaseKeeps
<1> HIDE DEF ready
<1>4. PICK w : PipeInv(w, AllSent, published) /\ Handled(Enqueue(w, t), 0)
  BY <1>2, <1>3 DEF Send, RetrySend, ready
<1>5. UNCHANGED <<published, keysAt>>
  BY DEF Send, RetrySend, world
<1>6. PipeInv(Enqueue(w, t), AllSent, published)
  BY <1>4, EnqueueKeeps
<1>7. PipeInv(Working', keysAt', published)
  BY <1>4, <1>5, <1>6, HandledKeeps, SentKeys DEF AllSent
<1> QED
  BY <1>5, <1>7 DEF SendInv, Published

(* answer_room_key_request queues no share and leaves the session record alone. *)
LEMMA AskedKeeps ==
    ASSUME NEW w, NEW ks, NEW pub, NEW asks, PipeInv(w, ks, pub)
    PROVE  PipeInv(AnswerKeyRequests(w, asks), ks, pub)
<1> DEFINE x == AnswerKeyRequests(w, asks)
<1>1. IsWork(w)
  BY DEF PipeInv, Shapes
<1>2. /\ IsWork(x) /\ x.known = w.known /\ x.out = w.out /\ x.enc = w.enc
      /\ x.overtaken = w.overtaken /\ x.view = w.view /\ x.calls = w.calls
  BY <1>1 DEF AnswerKeyRequests, IsWork, WorkFields
<1> HIDE DEF x
<1> QED
  BY <1>2, TransferCalls DEF x

(* A crash before the session record of a /keys/query answer is written. *)
LEMMA CrashedAfterDevicesKeeps ==
    ASSUME SendAssumption, SendInv, NEW w, NEW c, NEW us \in SUBSET c.users,
           PipeInv(w, AllSent, published), Sent(AllSent, w.calls) \subseteq KeysSent(w.calls),
           c.kind = "query", c.answer # None, CallOK(published, c),
           keysAt' \subseteq AllSent, Put(CrashedAfterDevices(w, c, us))
    PROVE  PipeInv(Working', keysAt', published)
<1> DEFINE part == [c EXCEPT !.users = us, !.answer = OfUsers(@, us)]
           x == LearnDevices(w, part)
           z == [x EXCEPT !.out = w.out]
           v == Crashed(z, 1, calls)
           r == CrashedAfterDevices(w, c, us)
<1>1. /\ part.kind = "query" /\ part.users = us /\ part.answer = OfUsers(c.answer, us)
      /\ {"kind", "owner", "users", "answer"} \subseteq DOMAIN part
  BY ZenonT(60) DEF CallOK
<1>2. \E n : r = [v EXCEPT !.missed = n]
  BY DEF CrashedAfterDevices
<1> HIDE DEF part, r
<1>3. /\ part.answer \subseteq Keyed /\ OnePerDevice(part.answer)
      /\ \A a \in part.answer : OwnerOf[a[1]] \in part.users /\ Past(published, a)
  BY <1>1, ZenonT(60) DEF CallOK, OfUsers, OnePerDevice
<1>4. /\ PipeInv(x, AllSent, published) /\ x.enc = w.enc /\ x.view = w.view
      /\ x.calls = w.calls /\ w.overtaken \subseteq x.overtaken
  <2>1. PipeInv(x, AllSent, published)
    BY <1>3, LearnKeeps, ZenonT(60)
  <2>2. IsWork(w)
    BY ZenonT(60) DEF PipeInv, Shapes
  <2> QED
    BY <2>1, <2>2, LearnFields
<1> HIDE DEF x
<1>5. IsWork(w) /\ IsWork(x)
  BY <1>4 DEF PipeInv, Shapes
<1>6. /\ IsWork(z) /\ z.known = x.known /\ z.out = w.out /\ z.enc = w.enc
      /\ z.overtaken = x.overtaken /\ z.view = w.view /\ z.calls = w.calls
  BY <1>4, <1>5 DEF IsWork, WorkFields
<1> HIDE DEF z
<1>7. PipeInv(z, AllSent, published)
  BY <1>4, <1>6, LearnListsKeeps, ZenonT(60)
<1>8. /\ IsWork(v) /\ v.known = z.known /\ v.out = z.out /\ v.enc = z.enc
      /\ v.overtaken = z.overtaken /\ v.view = z.view /\ v.calls = Reopened(calls)
  BY <1>6, CrashedFields
<1> HIDE DEF v
<1>9. /\ IsWork(r) /\ r.known = z.known /\ r.out = z.out /\ r.enc = z.enc
      /\ r.overtaken = z.overtaken /\ r.view = z.view /\ r.calls = Reopened(calls)
  BY <1>2, <1>8 DEF IsWork, WorkFields
<1>10. PipeInv(r, keysAt', published)
  BY <1>7, <1>9, CrashKeeps, ZenonT(60)
<1> QED
  BY <1>10, PutKeeps DEF r

(* on_keys_query_response and what follows it. *)
LEMMA QueryDoneKeeps ==
    ASSUME SendAssumption, SendInv, KeysQueryDone
    PROVE  SendInv'
<1>1. PICK c \in calls :
        /\ c.kind = "query" /\ c.answer # None
        /\ LET w == Without(Working, c)
               learned == LearnDevices(w, c)
           IN \/ \E asks :
                    LET x == AnswerKeyRequests(learned, asks)
                    IN Handled(IF Owned(x, c) THEN ClaimOrShare(x, c.owner) ELSE x,
                               Cardinality(asks))
              \/ \E us \in SUBSET c.users : Put(CrashedAfterDevices(w, c, us))
        /\ UNCHANGED <<world, roomView, keysAt>>
  BY ZenonT(60) DEF KeysQueryDone
<1> DEFINE w == Without(Working, c)
           learned == LearnDevices(w, c)
<1>2. CallOK(published, c)
  BY WorkingFields, ZenonT(60) DEF SendInv, PipeInv, Shapes
<1>3. PipeInv(w, AllSent, published) /\ w.calls = calls \ {c}
  BY HandlerStarts, WithoutKeeps, WorkingFields, ZenonT(60)
<1> HIDE DEF w
<1>4. Sent(AllSent, w.calls) \subseteq KeysSent(w.calls)
  <2>1. \A cs : KeysSent(cs) = Sent(keysAt, cs)
    BY DEF KeysSent, Sent
  <2>2. ASSUME NEW y \in Sent(AllSent, w.calls)
        PROVE  y \in Sent(keysAt, w.calls)
    <3>1. \/ y \in keysAt
          \/ \E b \in calls : b.kind = "share" /\ \E k \in b.to : y = <<b.session, b.index, k>>
      <4>1. \/ y \in AllSent
            \/ \E b \in w.calls : b.kind = "share" /\ \E k \in b.to : y = <<b.session, b.index, k>>
        BY <2>2, SentKeys, SMTT(30)
      <4>2. CASE y \in AllSent
        <5>1. y \in Sent(keysAt, calls)
          BY <4>2, Zenon DEF AllSent
        <5> QED
          BY <5>1, SentKeys
      <4> QED
        BY <1>3, <4>1, <4>2
    <3>2. \A b \in calls : b.kind = "share" => b \in w.calls
      BY <1>1, <1>3
    <3> QED
      BY <3>1, <3>2, SentKeys, ZenonT(60)
  <2> QED
    BY <2>1, <2>2
<1>5. PipeInv(learned, AllSent, published)
  <2>1. /\ c.answer \subseteq Keyed /\ OnePerDevice(c.answer)
        /\ \A a \in c.answer : OwnerOf[a[1]] \in c.users /\ Past(published, a)
    BY <1>1, <1>2 DEF CallOK
  <2> QED
    BY <1>3, <1>4, <2>1, LearnKeeps
<1> HIDE DEF learned
<1>6. keysAt' \subseteq AllSent
  BY <1>1, SentKeys DEF AllSent
<1>7. ASSUME NEW asks,
             LET x == AnswerKeyRequests(learned, asks)
             IN Handled(IF Owned(x, c) THEN ClaimOrShare(x, c.owner) ELSE x, Cardinality(asks))
      PROVE  PipeInv(Working', keysAt', published)
  <2> DEFINE x == AnswerKeyRequests(learned, asks)
  <2>1. PipeInv(x, AllSent, published)
    BY <1>5, AskedKeeps
  <2>2. Handled(IF Owned(x, c) THEN ClaimOrShare(x, c.owner) ELSE x, Cardinality(asks))
    BY <1>7
  <2> HIDE DEF x
  <2>3. PipeInv(ClaimOrShare(x, c.owner), AllSent, published)
    BY <2>1, ClaimKeeps, ZenonT(60)
  <2> QED
    BY <1>6, <2>1, <2>2, <2>3, HandledKeeps
<1>8. ASSUME NEW us \in SUBSET c.users, Put(CrashedAfterDevices(w, c, us))
      PROVE  PipeInv(Working', keysAt', published)
  BY <1>1, <1>2, <1>3, <1>4, <1>6, <1>8, CrashedAfterDevicesKeeps, ZenonT(60)
<1>9. PipeInv(Working', keysAt', published)
  BY <1>1, <1>7, <1>8 DEF w, learned
<1> QED
  BY <1>1, <1>9 DEF SendInv, Published, world

(* on_keys_claim_response and what follows it. *)
LEMMA ClaimDoneKeeps ==
    ASSUME SendAssumption, SendInv, KeysClaimDone
    PROVE  SendInv'
<1>0. PICK c \in calls :
        \E got :
            LET w == Without(Working, c)
            IN /\ Handled(IF Owned(w, c)
                          THEN ShareOrEncrypt([w EXCEPT !.olm = @ \union got], c.owner)
                          ELSE w, 0)
               /\ UNCHANGED <<world, roomView, keysAt>>
  BY ZenonT(60) DEF KeysClaimDone
<1>1. PICK got :
        LET w == Without(Working, c)
        IN /\ Handled(IF Owned(w, c)
                      THEN ShareOrEncrypt([w EXCEPT !.olm = @ \union got], c.owner)
                      ELSE w, 0)
           /\ UNCHANGED <<world, roomView, keysAt>>
  BY <1>0, ZenonT(60)
<1> DEFINE w == Without(Working, c)
           x == [w EXCEPT !.olm = @ \union got]
<1>2. PipeInv(w, AllSent, published)
  BY HandlerStarts, WithoutKeeps
<1> HIDE DEF w
<1>3. /\ IsWork(x) /\ x.known = w.known /\ x.out = w.out /\ x.enc = w.enc
      /\ x.overtaken = w.overtaken /\ x.view = w.view /\ x.calls = w.calls
  BY <1>2, ZenonT(60) DEF PipeInv, Shapes, IsWork, WorkFields
<1> HIDE DEF x
<1>4. PipeInv(x, AllSent, published)
  BY <1>2, <1>3, TransferCalls
<1>5. PipeInv(ShareOrEncrypt(x, c.owner), AllSent, published)
  BY <1>4, ShareKeeps
<1>6. Handled(IF Owned(w, c) THEN ShareOrEncrypt(x, c.owner) ELSE w, 0)
  BY <1>1 DEF w, x
<1>7. keysAt' \subseteq AllSent
  BY <1>1, SentKeys DEF AllSent
<1>8. PipeInv(Working', keysAt', published)
  BY <1>2, <1>5, <1>6, <1>7, HandledKeeps
<1> QED
  BY <1>1, <1>8 DEF SendInv, Published, world

(* A share was accepted: the key moves from the queue to the device. *)
LEMMA ShareDoneKeeps ==
    ASSUME SendAssumption, SendInv, ShareDone
    PROVE  SendInv'
<1>1. PICK c \in calls :
        /\ c.kind = "share"
        /\ keysAt' = keysAt \union {<<c.session, c.index, k>> : k \in c.to}
        /\ LET w == Without(Working, c)
               waiting == Owned(w, c) /\ w.state[c.owner].phase = "share"
               rest == w.state[c.owner].pending \ {c}
           IN Handled(IF ~waiting THEN w
                      ELSE IF rest # {} THEN [w EXCEPT !.state[c.owner].pending = rest]
                      ELSE EncryptAndSend([w EXCEPT !.state[c.owner].pending = {}], c.owner), 0)
        /\ UNCHANGED <<world, roomView>>
  BY ZenonT(60) DEF ShareDone
<1> DEFINE w == Without(Working, c)
           rest == w.state[c.owner].pending \ {c}
           u == [w EXCEPT !.state[c.owner].pending = rest]
           v == [w EXCEPT !.state[c.owner].pending = {}]
<1>2. PipeInv(Working, keysAt, published) /\ CallOK(published, c)
  BY WorkingFields DEF SendInv, PipeInv, Shapes
<1>3. PipeInv(w, AllSent, published)
  BY HandlerStarts, WithoutKeeps
<1>4. w.out = outbound /\ IsWork(w)
  BY WorkingFields DEF Without, IsWork, WorkFields
<1> HIDE DEF w, rest
<1>5. keysAt' \subseteq AllSent
  BY <1>1, SentKeys DEF AllSent
<1>6. w.out # None
  <2>1. PICK k \in c.to : TRUE
    BY <1>1, <1>2 DEF CallOK
  <2>2. <<c.session, c.index, k>> \in Sent(keysAt, calls)
    BY <1>1, SentKeys
  <2> QED
    BY <1>2, <1>4, <2>2, WorkingFields, ZenonT(60) DEF PipeInv, KeyInv
<1>7. PipeInv(u, AllSent, published) /\ PipeInv(v, AllSent, published) /\ v.out = w.out
  BY <1>3, <1>4, StateKeeps, ZenonT(60) DEF IsWork, WorkFields
<1> HIDE DEF u, v
<1>8. PipeInv(EncryptAndSend(v, c.owner), AllSent, published)
  BY <1>6, <1>7, EncryptKeeps
<1>9. \E z \in {w, u, EncryptAndSend(v, c.owner)} : Handled(z, 0)
  BY <1>1 DEF w, u, v, rest
<1>10. PipeInv(Working', keysAt', published)
  BY <1>3, <1>5, <1>7, <1>8, <1>9, HandledKeeps
<1> QED
  BY <1>1, <1>10, ZenonT(60) DEF SendInv, Published, world

(* complete_send_success. *)
LEMMA SendDoneKeeps ==
    ASSUME SendAssumption, SendInv, SendDone
    PROVE  SendInv'
<1>1. PICK c \in calls :
        LET w == Without(Working, c)
        IN /\ Handled(IF Owned(w, c) THEN Finish([w EXCEPT !.state[c.owner] = None], c.owner)
                      ELSE w, 0)
           /\ UNCHANGED <<world, roomView, keysAt>>
  BY ZenonT(60) DEF SendDone
<1> DEFINE w == Without(Working, c)
           x == [w EXCEPT !.state[c.owner] = None]
<1>2. PipeInv(w, AllSent, published)
  BY HandlerStarts, WithoutKeeps
<1> HIDE DEF w
<1>3. PipeInv(x, AllSent, published)
  BY <1>2, StateKeeps, ZenonT(60)
<1> HIDE DEF x
<1>4. PipeInv(Finish(x, c.owner), AllSent, published)
  BY <1>3, FinishKeeps
<1>5. Handled(IF Owned(w, c) THEN Finish(x, c.owner) ELSE w, 0)
  BY <1>1 DEF w, x
<1>6. keysAt' \subseteq AllSent
  BY <1>1, SentKeys DEF AllSent
<1>7. PipeInv(Working', keysAt', published)
  BY <1>2, <1>4, <1>5, <1>6, HandledKeeps
<1> QED
  BY <1>1, <1>7 DEF SendInv, Published, world

(* fail_send. *)
LEMMA RefusedKeeps ==
    ASSUME SendAssumption, SendInv, RequestRefused
    PROVE  SendInv'
<1>1. PICK c \in calls :
        LET w == [Without(Working, c) EXCEPT !.missed =
                    IF c.kind = "share" THEN @ \union {<<c.session, k>> : k \in c.to} ELSE @]
        IN /\ Handled(IF Owned(w, c) THEN Finish(SetPhase(w, c.owner, "failed"), c.owner)
                      ELSE w, 1)
           /\ UNCHANGED <<world, roomView, keysAt>>
  BY ZenonT(60) DEF RequestRefused
<1> DEFINE v == Without(Working, c)
           w == [v EXCEPT !.missed =
                    IF c.kind = "share" THEN @ \union {<<c.session, k>> : k \in c.to} ELSE @]
<1>2. PipeInv(v, AllSent, published)
  BY HandlerStarts, WithoutKeeps
<1> HIDE DEF v
<1>3. /\ IsWork(w) /\ w.known = v.known /\ w.out = v.out /\ w.enc = v.enc
      /\ w.overtaken = v.overtaken /\ w.view = v.view /\ w.calls = v.calls
  BY <1>2 DEF PipeInv, Shapes, IsWork, WorkFields
<1>4. Handled(IF Owned(w, c) THEN Finish(SetPhase(w, c.owner, "failed"), c.owner) ELSE w, 1)
  BY <1>1 DEF v
<1> HIDE DEF w
<1>5. PipeInv(w, AllSent, published)
  BY <1>2, <1>3, TransferCalls
<1>6. PipeInv(Finish(SetPhase(w, c.owner, "failed"), c.owner), AllSent, published)
  BY <1>5, PhaseKeeps, FinishKeeps
<1>7. keysAt' \subseteq AllSent
  BY <1>1, SentKeys DEF AllSent
<1>8. PipeInv(Working', keysAt', published)
  BY <1>4, <1>5, <1>6, <1>7, HandledKeeps
<1> QED
  BY <1>1, <1>8 DEF SendInv, Published, world

(* A restart between two handlers. *)
LEMMA RestartKeeps ==
    ASSUME SendInv, Restart
    PROVE  SendInv'
<1>1. /\ calls' = Reopened(calls)
      /\ UNCHANGED <<published, keysAt, known, outbound, encrypted, overtaken, shareView>>
  BY ZenonT(60) DEF Restart, world
<1>2. keysAt \subseteq AllSent
  BY Zenon DEF AllSent, Sent
<1>3. IsWork(Working') /\ Working'.known = known' /\ Working'.out = outbound'
      /\ Working'.enc = encrypted' /\ Working'.overtaken = overtaken'
      /\ Working'.view = shareView' /\ Working'.calls = calls'
  BY DEF Working, IsWork, WorkFields
<1>4. PipeInv(Working', keysAt, published)
  BY <1>1, <1>2, <1>3, HandlerStarts, CrashKeeps, WorkingFields, ZenonT(60)
<1> QED
  BY <1>1, <1>4 DEF SendInv, Published

(* Steps that only queue or answer queries: a sync, and the server's answer, which is *)
(* the identities published now.                                                      *)
LEMMA QueriesKeep ==
    ASSUME SendInv, UNCHANGED <<published, keysAt, known, outbound, encrypted, overtaken,
                                shareView>>,
           \A c \in calls' : c \in calls \/ (CallOK(published, c) /\ c.kind # "share")
    PROVE  SendInv'
<1>1. /\ IsWork(Working') /\ Working'.known = known /\ Working'.out = outbound
      /\ Working'.enc = encrypted /\ Working'.overtaken = overtaken
      /\ Working'.view = shareView /\ Working'.calls = calls'
  BY ZenonT(60) DEF Working, IsWork, WorkFields
<1>2. PipeInv(Working', keysAt, published)
  <2>1. PipeInv(Working, keysAt, published)
    BY ZenonT(60) DEF SendInv
  <2>2. \A c \in Working'.calls : c \in Working.calls \/ (CallOK(published, c) /\ c.kind # "share")
    BY <1>1, WorkingFields
  <2>3. /\ Working'.known = Working.known /\ Working'.out = Working.out
        /\ Working'.enc = Working.enc /\ Working'.overtaken = Working.overtaken
        /\ Working'.view = Working.view
    BY <1>1, WorkingFields
  <2> QED
    BY <1>1, <2>1, <2>2, <2>3, TransferCalls, ZenonT(60)
<1> QED
  BY <1>2 DEF SendInv, Published

LEMMA SyncKeeps ==
    ASSUME SendInv, Sync
    PROVE  SendInv'
<1>1. \A us : CallOK(published, Query(None, us)) /\ Query(None, us).kind # "share"
  BY ZenonT(60) DEF CallOK, Query
<1>2. PICK asks, tr, cs :
        /\ Put([AnswerKeyRequests(Working, asks) EXCEPT !.tracked = tr, !.calls = @ \union cs])
        /\ \A c \in cs : \E us : c = Query(None, us)
        /\ UNCHANGED <<published, keysAt>>
  <2> DEFINE listed == OnDeviceLists(tracked, Changed, Left)
             roomed == TrackJoined(listed)
             first == {p \in Peers : listed[p] = "outdated"}
             second == {p \in Peers : roomed[p] = "outdated"}
             cs == (IF first # {} THEN {Query(None, first)} ELSE {})
                   \union (IF ~(second \subseteq first) THEN {Query(None, second)} ELSE {})
  <2>1. \A c \in cs : \E us : c = Query(None, us)
    BY ZenonT(60)
  <2>2. PICK asks :
          /\ Put([AnswerKeyRequests(Working, asks) EXCEPT
                !.tracked = roomed,
                !.calls = @ \union (IF first # {} THEN {Query(None, first)} ELSE {})
                            \union (IF ~(second \subseteq first) THEN {Query(None, second)} ELSE {})])
          /\ UNCHANGED <<published, keysAt>>
    BY ZenonT(60) DEF Sync
  <2> DEFINE z == AnswerKeyRequests(Working, asks)
  <2>3. z.calls \union (IF first # {} THEN {Query(None, first)} ELSE {})
                \union (IF ~(second \subseteq first) THEN {Query(None, second)} ELSE {})
          = z.calls \union cs
    OBVIOUS
  <2>4. Put([z EXCEPT !.tracked = roomed, !.calls = @ \union cs])
    BY <2>2, <2>3, ZenonT(60)
  <2> HIDE DEF cs, roomed, z
  <2> QED
    BY <2>1, <2>2, <2>4 DEF z
<1> DEFINE x == [AnswerKeyRequests(Working, asks) EXCEPT !.tracked = tr, !.calls = @ \union cs]
<1>3. /\ x.known = known /\ x.out = outbound /\ x.enc = encrypted /\ x.overtaken = overtaken
      /\ x.view = shareView /\ x.calls = calls \union cs
  BY DEF AnswerKeyRequests, Working
<1>4. Put(x)
  BY <1>2
<1> HIDE DEF x
<1>5. UNCHANGED <<known, outbound, encrypted, overtaken, shareView>> /\ calls' = calls \union cs
  BY <1>3, <1>4 DEF Put
<1> QED
  BY <1>1, <1>2, <1>5, QueriesKeep, ZenonT(60)

LEMMA AnswersKeep ==
    ASSUME SendAssumption, SendInv, ServerAnswersQuery
    PROVE  SendInv'
<1>1. PICK c \in calls :
        /\ c.kind = "query"
        /\ calls' = (calls \ {c}) \union {[c EXCEPT !.answer =
               {k \in Keyed : /\ OwnerOf[k[1]] \in c.users
                              /\ Visible(OwnerOf[k[1]])
                              /\ published[k[1]] = k[2]}]}
        /\ UNCHANGED <<published, keysAt, known, outbound, encrypted, overtaken, shareView>>
  BY ZenonT(60) DEF ServerAnswersQuery, world
<1> DEFINE answer == {k \in Keyed : /\ OwnerOf[k[1]] \in c.users
                                    /\ Visible(OwnerOf[k[1]]) /\ published[k[1]] = k[2]}
           b == [c EXCEPT !.answer = answer]
<1>2. CallOK(published, c)
  BY WorkingFields, ZenonT(60) DEF SendInv, PipeInv, Shapes
<1>3. OnePerDevice(answer)
  BY DEF OnePerDevice, Keyed
<1>4. \A a \in answer : a \in Keyed /\ OwnerOf[a[1]] \in c.users /\ Past(published, a)
  BY KeyedIsFinite DEF Past
<1> HIDE DEF answer
<1>5. /\ b.kind = "query" /\ b.users = c.users /\ b.answer = answer
      /\ {"kind", "owner", "users", "answer"} \subseteq DOMAIN b
  BY <1>1, <1>2, ZenonT(60) DEF CallOK
<1> HIDE DEF b
<1>6. CallOK(published, b) /\ b.kind # "share"
  BY <1>3, <1>4, <1>5 DEF CallOK
<1>7. calls' = (calls \ {c}) \union {b}
  BY <1>1 DEF b, answer
<1> QED
  BY <1>1, <1>6, <1>7, QueriesKeep

(* A device publishes newer keys or is deleted: what was published stays in the past, *)
(* and an identity that was replaced stays replaced.                                  *)
LEMMA DeviceKeeps ==
    ASSUME SendAssumption, SendInv, NEW d \in Devices, DeviceMoves(d)
    PROVE  SendInv'
<1>1. PICK v \in Identities \union {Gone} :
        /\ IF published[d] = None THEN v = 0
           ELSE published[d] # Gone /\ (v = Gone \/ v > published[d])
        /\ published' = [published EXCEPT ![d] = v]
  BY ZenonT(60) DEF DeviceMoves
<1>2. UNCHANGED <<tracked, known, olm, outbound, sendQueue, sendState, calls, keysAt,
                  encrypted, missed, answered, overtaken, shareView>>
  BY DEF DeviceMoves
<1>3. Working' = Working
  BY <1>2 DEF Working
<1>4. Published' /\ \A e \in Devices : published'[e] = IF e = d THEN v ELSE published[e]
  BY <1>1 DEF SendInv, Published
<1>5. ASSUME NEW k \in Keyed, Past(published, k)
      PROVE  /\ Past(published', k)
             /\ published[k[1]] # k[2] => published'[k[1]] # k[2]
  <2>1. k[1] \in Devices /\ k[2] \in Nat /\ v \in Nat \union {Gone}
    BY KeyedIsFinite DEF Identities, SendAssumption
  <2>2. CASE k[1] # d
    BY <1>4, <1>5, <2>1, <2>2 DEF Past
  <2>3. CASE k[1] = d
    <3>1. published[d] \in Nat /\ k[2] <= published[d] /\ (v = Gone \/ v > published[d])
      BY <1>1, <1>5, <2>3 DEF Past, Gone, SendAssumption
    <3> QED
      BY <1>4, <2>1, <2>3, <3>1, SMTT(30) DEF Past, Gone
  <2> QED
    BY <2>2, <2>3
<1> DEFINE w == Working
<1>6. PipeInv(w, keysAt, published)
  BY ZenonT(60) DEF SendInv
<1> HIDE DEF w
<1>7. ASSUME NEW c, CallOK(published, c)
      PROVE  CallOK(published', c)
  BY <1>5, <1>7, ZenonT(60) DEF CallOK
<1>8. Shapes(w, keysAt, published')
  BY <1>6, <1>7, ZenonT(60) DEF PipeInv, Shapes
<1>9. ListsInv(w, published')
  <2>1. w.known \subseteq Keyed /\ OnePerDevice(w.known) /\ \A k \in w.known : Past(published, k)
    BY <1>6, ZenonT(60) DEF PipeInv, ListsInv, Shapes
  <2> QED
    BY <1>5, <2>1, ZenonT(60) DEF ListsInv
<1>10. ASSUME NEW y \in Sent(keysAt, w.calls)
       PROVE  y[3] \in Keyed /\ Past(published, y[3])
  <2>1. y[3] \in Keyed /\ KeyInv(w, published, y)
    BY <1>6, SentShape, ZenonT(60)
  <2> QED
    BY <2>1 DEF KeyInv
<1>11. ASSUME NEW y \in Sent(keysAt, w.calls)
       PROVE  /\ Past(published', y[3])
              /\ Excused(w, published, y[3]) => Excused(w, published', y[3])
  BY <1>5, <1>10, ZenonT(60) DEF Excused
<1>12. ASSUME NEW y \in Sent(keysAt, w.calls)
       PROVE  KeyInv(w, published', y)
  <2>1. KeyInv(w, published, y)
    BY <1>6, ZenonT(60) DEF PipeInv
  <2> QED
    BY <1>11, <2>1, ZenonT(60) DEF KeyInv
<1>13. ASSUME NEW m \in w.enc
       PROVE  MessageInv(w, published', Sent(keysAt, w.calls), m)
  <2>1. MessageInv(w, published, Sent(keysAt, w.calls), m)
    BY <1>6, ZenonT(60) DEF PipeInv
  <2> QED
    BY <1>11, <2>1, ZenonT(60) DEF MessageInv
<1>14. PipeInv(w, keysAt, published')
  BY <1>6, <1>8, <1>9, <1>12, <1>13, ZenonT(60) DEF PipeInv
<1> QED
  BY <1>2, <1>3, <1>4, <1>14, ZenonT(60) DEF SendInv, w

-------------------------------------------------------------------------------
(* Nothing is known, sent or encrypted at the start. *)
LEMMA PipelineStarts ==
    ASSUME SendAssumption, SendInit
    PROVE  SendInv
<1>1. Published
  BY DEF SendInit, Published, Identities, SendAssumption
<1>2. /\ known = {} /\ outbound = None /\ calls = {} /\ keysAt = {} /\ encrypted = {}
  BY DEF SendInit
<1>3. Sent(keysAt, calls) = {}
  <2>1. \A y : y \notin Sent({}, {})
    BY SentKeys
  <2> QED
    BY <1>2, <2>1
<1>4. Shapes(Working, keysAt, published) /\ ListsInv(Working, published)
  BY <1>2, WorkingFields DEF Shapes, ListsInv, OnePerDevice
<1>5. RecipientsInv(Working)
  BY <1>2, WorkingFields DEF RecipientsInv
<1> QED
  BY <1>1, <1>2, <1>3, <1>4, <1>5, WorkingFields, ZenonT(60) DEF SendInv, PipeInv

LEMMA SendInvHolds == SendSpec => []SendInv
<1> USE SendAssumption
<1>1. SendInit => SendInv
  BY PipelineStarts, ZenonT(60)
<1>2. SendInv /\ [SendNext]_sendVars => SendInv'
  <2> SUFFICES ASSUME SendInv, [SendNext]_sendVars
               PROVE  SendInv'
    BY ZenonT(60)
  <2>1. CASE UNCHANGED sendVars
    BY <2>1, ZenonT(60) DEF sendVars, SendInv, Working, Published
  <2>2. ASSUME NEW p \in Peers, MemberMoves(p)
        PROVE  SendInv'
    <3>1. UNCHANGED <<published, tracked, known, olm, outbound, sendQueue, sendState, calls,
                      keysAt, encrypted, missed, answered, overtaken, shareView>>
      BY <2>2 DEF MemberMoves
    <3> QED
      BY <3>1 DEF SendInv, Working, Published
  <2> QED
    BY <2>1, <2>2, UserKeeps, AnswersKeep, QueryDoneKeeps, ClaimDoneKeeps, ShareDoneKeeps,
       SendDoneKeeps, RefusedKeeps, RestartKeeps, SyncKeeps, DeviceKeeps, ZenonT(60) DEF SendNext
<1> QED
  BY <1>1, <1>2, PTL DEF SendSpec

\* A room key that opens a message was sent only to devices of the members the message
\* was meant for, but for shares to identities that were replaced, deleted or overtaken
\* and answers to key requests of devices the session does not record: over any
\* interleaving of sends, failures, crashes in the middle of a flush, restarts, syncs,
\* key requests and answers out of order.
THEOREM KeysStayWithMembersHolds == SendSpec => []KeysStayWithMembers
<1>1. SendInv => KeysStayWithMembers
  <2> SUFFICES ASSUME SendInv, NEW m \in encrypted
               PROVE  /\ \A x \in keysAt : x[1] = m.session /\ x[2] <= m.index =>
                           \/ OwnerOf[x[3][1]] \in m.users
                           \/ published[x[3][1]] # x[3][2]
                           \/ x[3] \in overtaken
                      /\ \A k \in m.answered : OwnerOf[k[1]] \in m.users \/ k \in m.strays
    BY ZenonT(60) DEF KeysStayWithMembers
  <2>1. MessageInv(Working, published, Sent(keysAt, calls), m)
    BY WorkingFields DEF SendInv, PipeInv
  <2>2. keysAt \subseteq Sent(keysAt, calls)
    BY SentKeys
  <2> QED
    BY <2>1, <2>2, WorkingFields, ZenonT(60) DEF MessageInv, Excused
<1> QED
  BY <1>1, SendInvHolds, PTL
===============================================================================
