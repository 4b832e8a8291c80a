---------------------------- MODULE TypingProofs ----------------------------
(***************************************************************************)
(* What a device is shown of the typing notifications, for every set of    *)
(* rooms, users and devices, any windows and any number of changes.        *)
(***************************************************************************)
EXTENDS Typing, TLAPS

UserStates == [active : BOOLEAN, expires : Int, accepted : Int]
UserTables == UNION {[S -> UserStates] : S \in SUBSET Typists}
RoomStates == [serial : Nat, users : UserTables]

NewsTables == UNION {[S -> SUBSET Typists] : S \in SUBSET TypingRooms}
Polls ==
    [now : Int, gen : Nat, check : SUBSET TypingRooms, build : SUBSET TypingRooms, news : NewsTables]
WatcherStates ==
    [token : {None} \cup Nat, view : [TypingRooms -> SUBSET Typists], poll : {None} \cup Polls]

\* The registry: no stamp is ahead of the counter.
RegistryOK ==
    /\ typingClock \in Nat /\ nextGen \in Nat
    /\ DOMAIN typing \subseteq TypingRooms
    /\ \A r \in DOMAIN typing : typing[r] \in RoomStates /\ typing[r].serial <= nextGen

\* A step of the registry: the active users of a room grow only with a stamp
\* above every earlier one.
Evolves ==
    /\ RegistryOK' /\ nextGen <= nextGen'
    /\ \A r \in DOMAIN typing' :
        \/ Active(typing'[r]) = {}
        \/ typing'[r].serial > nextGen
        \/ /\ r \in DOMAIN typing
           /\ typing'[r].serial = typing[r].serial /\ Active(typing'[r]) \subseteq Active(typing[r])

-----------------------------------------------------------------------------
(* Reaping a room keeps its shape, only clears flags, and stamps it when it does. *)
LEMMA ReapFacts ==
    ASSUME NEW room \in RoomStates, NEW now \in Int, nextGen \in Nat
    PROVE  /\ Reap(room, now) \in RoomStates
           /\ Active(Reap(room, now)) \subseteq Active(room)
           /\ Reap(room, now).serial =
                IF Expired(room, now) = {} THEN room.serial ELSE nextGen + 1
<1> DEFINE gone == Expired(room, now)
           known == {u \in DOMAIN room.users :
                        \/ u \in Active(room) \ gone
                        \/ now - room.users[u].accepted <= ThrottleWindow}
           cleared == [u \in known |-> [room.users[u] EXCEPT !.active = @ /\ u \notin gone]]
           serial == IF gone = {} THEN room.serial ELSE nextGen + 1
<1>1. Reap(room, now) = [serial |-> serial, users |-> cleared]
  BY DEF Reap
<1>2. PICK S \in SUBSET Typists : room.users \in [S -> UserStates]
  BY DEF RoomStates, UserTables
<1>3. known \in SUBSET Typists /\ known \subseteq S
  BY <1>2
<1> HIDE DEF known
<1>4. ASSUME NEW u \in known
      PROVE  /\ [room.users[u] EXCEPT !.active = @ /\ u \notin gone] \in UserStates
             /\ [room.users[u] EXCEPT !.active = @ /\ u \notin gone].active => room.users[u].active
  <2>1. room.users[u] \in UserStates
    BY <1>2, <1>3
  <2> QED
    BY <2>1 DEF UserStates
<1>5. cleared \in [known -> UserStates]
  BY <1>4
<1>6. cleared \in UserTables
  BY <1>3, <1>5 DEF UserTables
<1>7. serial \in Nat
  BY DEF RoomStates
<1>8. Active(Reap(room, now)) \subseteq Active(room)
  BY <1>1, <1>2, <1>3, <1>4 DEF Active
<1> HIDE DEF serial, cleared
<1>9. Reap(room, now) \in RoomStates /\ Reap(room, now).serial = serial
  BY <1>1, <1>6, <1>7 DEF RoomStates
<1> QED
  BY <1>8, <1>9 DEF serial

(* Storing a room evolves the registry if the room itself evolved. *)
LEMMA StoreEvolves ==
    ASSUME RegistryOK, NEW r \in TypingRooms, NEW room \in RoomStates,
           typing' = WithRoom(r, room), UNCHANGED typingClock,
           nextGen' \in Nat, nextGen <= nextGen', room.serial <= nextGen',
           \/ Active(room) = {}
           \/ room.serial > nextGen
           \/ /\ r \in DOMAIN typing
              /\ room.serial = typing[r].serial /\ Active(room) \subseteq Active(typing[r])
    PROVE  Evolves
<1>1. DOMAIN typing' = DOMAIN typing \cup {r} /\ typing'[r] = room
      /\ \A s \in DOMAIN typing \ {r} : typing'[s] = typing[s]
  BY DEF WithRoom
<1>2. ASSUME NEW s \in DOMAIN typing'
      PROVE  typing'[s] \in RoomStates /\ typing'[s].serial <= nextGen'
  <2>1. CASE s = r
    BY <1>1, <2>1
  <2>2. CASE s # r
    <3>1. typing'[s] = typing[s] /\ typing[s] \in RoomStates /\ typing[s].serial <= nextGen
      BY <1>1, <1>2, <2>2 DEF RegistryOK
    <3>2. typing[s].serial \in Nat
      BY <3>1 DEF RoomStates
    <3> QED
      BY <3>1, <3>2 DEF RegistryOK
  <2> QED
    BY <2>1, <2>2
<1>3. RegistryOK'
  BY <1>1, <1>2 DEF RegistryOK
<1> QED
  BY <1>1, <1>3 DEF Evolves

(* A read reaps one room and leaves the others; what it reports is what it leaves. *)
LEMMA ReadEvolves ==
    ASSUME RegistryOK, NEW r \in TypingRooms, NEW now \in Int, ReadRoom(r, now),
           UNCHANGED typingClock
    PROVE  /\ Evolves
           /\ \A s \in DOMAIN typing' \ {r} : s \in DOMAIN typing /\ typing'[s] = typing[s]
           /\ r \in DOMAIN typing' =>
                /\ r \in DOMAIN typing
                /\ TypingSerial(r, now) = typing'[r].serial
                /\ TypingUsers(r, now) = Active(typing'[r])
                /\ \/ typing'[r].serial > nextGen
                   \/ /\ typing'[r].serial = typing[r].serial
                      /\ Active(typing'[r]) \subseteq Active(typing[r])
           /\ TypingSerial(r, now) \in Nat
           /\ TypingUsers(r, now) \in SUBSET Typists
<1>1. CASE r \notin DOMAIN typing
  <2>1. typing' = typing /\ nextGen' = nextGen
    BY <1>1 DEF ReadRoom
  <2>2. nextGen \in Nat /\ nextGen <= nextGen
    BY DEF RegistryOK
  <2>3. RegistryOK'
    BY <2>1 DEF RegistryOK
  <2> QED
    BY <1>1, <2>1, <2>2, <2>3 DEF Evolves, TypingSerial, TypingUsers
<1>2. CASE r \in DOMAIN typing
  <2> DEFINE room == Reap(typing[r], now)
  <2>1. nextGen \in Nat /\ typing[r] \in RoomStates /\ typing[r].serial <= nextGen
        /\ typing[r].serial \in Nat
    BY <1>2 DEF RegistryOK, RoomStates
  <2>2. /\ room \in RoomStates /\ Active(room) \subseteq Active(typing[r])
        /\ room.serial = IF Expired(typing[r], now) = {} THEN typing[r].serial ELSE nextGen + 1
    BY <2>1, ReapFacts
  <2>3. /\ typing' = IF room.users = <<>> THEN Restrict(typing, DOMAIN typing \ {r})
                     ELSE WithRoom(r, room)
        /\ nextGen' = IF Expired(typing[r], now) = {} THEN nextGen ELSE nextGen + 1
    BY <1>2 DEF ReadRoom
  <2>4. TypingSerial(r, now) = room.serial /\ TypingUsers(r, now) = Active(room)
    BY <1>2 DEF TypingSerial, TypingUsers
  <2>5. Active(room) \in SUBSET Typists
    BY <2>2 DEF Active, RoomStates, UserTables
  <2> HIDE DEF room
  <2>6. /\ nextGen' \in Nat /\ nextGen <= nextGen' /\ room.serial <= nextGen' /\ room.serial \in Nat
        /\ \/ room.serial > nextGen
           \/ room.serial = typing[r].serial /\ Active(room) \subseteq Active(typing[r])
    BY <2>1, <2>2, <2>3
  <2>7. CASE room.users = <<>>
    <3>1. DOMAIN typing' = DOMAIN typing \ {r} /\ \A s \in DOMAIN typing' : typing'[s] = typing[s]
      BY <2>3, <2>7 DEF Restrict
    <3>2. ASSUME NEW s \in DOMAIN typing'
          PROVE  typing'[s] \in RoomStates /\ typing'[s].serial <= nextGen'
      <4>1. typing'[s] = typing[s] /\ typing[s] \in RoomStates /\ typing[s].serial <= nextGen
        BY <3>1, <3>2 DEF RegistryOK
      <4>2. typing[s].serial \in Nat
        BY <4>1 DEF RoomStates
      <4> QED
        BY <2>1, <2>6, <4>1, <4>2
    <3>3. RegistryOK'
      BY <2>6, <3>1, <3>2 DEF RegistryOK
    <3> QED
      BY <2>4, <2>5, <2>6, <3>1, <3>3 DEF Evolves
  <2>8. CASE room.users # <<>>
    <3>1. typing' = WithRoom(r, room)
      BY <2>3, <2>8
    <3>2. Evolves
      BY <1>2, <2>2, <2>6, <3>1, StoreEvolves
    <3>3. DOMAIN typing' = DOMAIN typing \cup {r} /\ typing'[r] = room
          /\ \A s \in DOMAIN typing \ {r} : typing'[s] = typing[s]
      BY <3>1 DEF WithRoom
    <3> QED
      BY <1>2, <2>4, <2>5, <2>6, <3>2, <3>3
  <2> QED
    BY <2>7, <2>8
<1> QED
  BY <1>1, <1>2

(* The entry set_typing works on has the shape of a room. *)
LEMMA EntryFacts ==
    ASSUME RegistryOK, NEW r \in TypingRooms
    PROVE  /\ Entry(r) \in RoomStates /\ Entry(r).serial <= nextGen
           /\ r \in DOMAIN typing => Entry(r) = typing[r]
           /\ r \notin DOMAIN typing => Active(Entry(r)) = {}
<1>1. <<>> \in UserTables
  <2>1. <<>> \in [{} -> UserStates]
    OBVIOUS
  <2> QED
    BY <2>1 DEF UserTables
<1> QED
  BY <1>1 DEF Entry, RegistryOK, RoomStates, Active

(* A user starts or keeps typing. *)
LEMMA StartEvolves ==
    ASSUME RegistryOK, NEW r \in TypingRooms, NEW u \in Typists,
           NEW timeout \in 1 .. MaxTimeout, StartTyping(r, u, timeout)
    PROVE  Evolves
<1> DEFINE room == Entry(r)
           starts == ~ (u \in DOMAIN room.users /\ room.users[u].active)
           state == [active |-> TRUE, expires |-> typingClock + timeout, accepted |-> typingClock]
           users == [v \in DOMAIN room.users \cup {u} |-> IF v = u THEN state ELSE room.users[v]]
           new == [serial |-> IF starts THEN nextGen + 1 ELSE room.serial, users |-> users]
<1>1. room \in RoomStates /\ room.serial <= nextGen /\ room.serial \in Nat /\ nextGen \in Nat
      /\ typingClock \in Nat /\ (r \in DOMAIN typing => room = typing[r])
      /\ (r \notin DOMAIN typing => Active(room) = {})
  BY EntryFacts DEF RegistryOK, RoomStates
<1>2. typing' = WithRoom(r, new) /\ nextGen' = (IF starts THEN nextGen + 1 ELSE nextGen)
      /\ UNCHANGED typingClock
  BY DEF StartTyping
<1> HIDE DEF room
<1>3. PICK S \in SUBSET Typists : room.users \in [S -> UserStates]
  BY <1>1 DEF RoomStates, UserTables
<1>4. state \in UserStates
  BY <1>1, TypingAssumption DEF UserStates
<1>5. users \in [S \cup {u} -> UserStates]
  <2> HIDE DEF state
  <2> QED
    BY <1>3, <1>4
<1>6. users \in UserTables
  <2>1. S \cup {u} \in SUBSET Typists
    OBVIOUS
  <2> QED
    BY <1>5, <2>1 DEF UserTables
<1>7. ~ starts => Active(new) \subseteq Active(room)
  BY DEF Active
<1> HIDE DEF users
<1>8. new \in RoomStates /\ new.serial = IF starts THEN nextGen + 1 ELSE room.serial
  BY <1>1, <1>6 DEF RoomStates
<1> HIDE DEF new
<1>9. CASE starts
  <2>1. new.serial > nextGen /\ nextGen' \in Nat /\ nextGen <= nextGen' /\ new.serial <= nextGen'
    BY <1>1, <1>2, <1>8, <1>9
  <2> QED
    BY <1>2, <1>8, <2>1, StoreEvolves
<1>10. CASE ~ starts
  <2>1. new.serial = room.serial /\ nextGen' \in Nat /\ nextGen <= nextGen' /\ new.serial <= nextGen'
    BY <1>1, <1>2, <1>8, <1>10
  <2>2. Active(new) \subseteq Active(room)
    BY <1>7, <1>10
  <2>3. \/ Active(new) = {}
        \/ r \in DOMAIN typing /\ new.serial = typing[r].serial /\ Active(new) \subseteq Active(typing[r])
    BY <1>1, <2>1, <2>2
  <2> QED
    BY <1>2, <1>8, <2>1, <2>3, StoreEvolves
<1> QED
  BY <1>9, <1>10

(* A user stops typing, or says so without having typed. *)
LEMMA StopEvolves ==
    ASSUME RegistryOK, NEW r \in TypingRooms, NEW u \in Typists, StopTyping(r, u)
    PROVE  Evolves
<1> DEFINE room == Entry(r)
           stops == u \in Active(room)
           users == [v \in DOMAIN room.users |->
                        IF v = u /\ stops
                        THEN [active |-> FALSE, expires |-> typingClock,
                              accepted |-> room.users[v].accepted]
                        ELSE room.users[v]]
           new == [serial |-> IF stops THEN nextGen + 1 ELSE room.serial, users |-> users]
<1>1. room \in RoomStates /\ room.serial <= nextGen /\ room.serial \in Nat /\ nextGen \in Nat
      /\ typingClock \in Nat /\ (r \in DOMAIN typing => room = typing[r])
      /\ (r \notin DOMAIN typing => Active(room) = {})
  BY EntryFacts DEF RegistryOK, RoomStates
<1>2. typing' = WithRoom(r, new) /\ nextGen' = (IF stops THEN nextGen + 1 ELSE nextGen)
      /\ UNCHANGED typingClock
  BY DEF StopTyping
<1> HIDE DEF room
<1>3. PICK S \in SUBSET Typists : room.users \in [S -> UserStates]
  BY <1>1 DEF RoomStates, UserTables
<1>4. ASSUME NEW v \in S
      PROVE  /\ [active |-> FALSE, expires |-> typingClock, accepted |-> room.users[v].accepted]
                    \in UserStates
             /\ room.users[v] \in UserStates
  <2>1. room.users[v] \in UserStates
    BY <1>3
  <2>2. room.users[v].accepted \in Int
    BY <2>1 DEF UserStates
  <2> QED
    BY <1>1, <2>1, <2>2 DEF UserStates
<1>5. users \in [S -> UserStates]
  BY <1>3, <1>4
<1>6. users \in UserTables
  BY <1>5 DEF UserTables
<1>7. ~ stops => Active(new) \subseteq Active(room)
  BY DEF Active
<1> HIDE DEF users
<1>8. new \in RoomStates /\ new.serial = IF stops THEN nextGen + 1 ELSE room.serial
  BY <1>1, <1>6 DEF RoomStates
<1> HIDE DEF new
<1>9. CASE stops
  <2>1. new.serial > nextGen /\ nextGen' \in Nat /\ nextGen <= nextGen' /\ new.serial <= nextGen'
    BY <1>1, <1>2, <1>8, <1>9
  <2> QED
    BY <1>2, <1>8, <2>1, StoreEvolves
<1>10. CASE ~ stops
  <2>1. new.serial = room.serial /\ nextGen' \in Nat /\ nextGen <= nextGen' /\ new.serial <= nextGen'
    BY <1>1, <1>2, <1>8, <1>10
  <2>2. Active(new) \subseteq Active(room)
    BY <1>7, <1>10
  <2>3. \/ Active(new) = {}
        \/ r \in DOMAIN typing /\ new.serial = typing[r].serial /\ Active(new) \subseteq Active(typing[r])
    BY <1>1, <2>1, <2>2
  <2> QED
    BY <1>2, <1>8, <2>1, <2>3, StoreEvolves
<1> QED
  BY <1>9, <1>10

-----------------------------------------------------------------------------
\* What a device will have of a room once it takes the answer being built.
Told(w, r) ==
    LET p == watchers[w].poll
    IN  IF r \in DOMAIN p.news THEN p.news[r] ELSE watchers[w].view[r]

\* The device of an answer in progress: the rooms already dealt with are shown up
\* to the generation the answer will carry.
PollOK(w) ==
    LET p == watchers[w].poll IN
    /\ p.gen <= nextGen
    /\ watchers[w].token # None => watchers[w].token <= p.gen
    /\ watchers[w].token = None => p.check = {}
    /\ DOMAIN p.news \cap (p.check \cup p.build) = {}
    /\ \A r \in DOMAIN typing \ (p.check \cup p.build) :
        typing[r].serial <= p.gen => Active(typing[r]) \subseteq Told(w, r)

\* The inductive invariant, for one device.
WatcherOK(w) ==
    /\ watchers[w].token # None =>
        /\ watchers[w].token <= nextGen
        /\ \A r \in DOMAIN typing :
            typing[r].serial <= watchers[w].token => Active(typing[r]) \subseteq watchers[w].view[r]
    /\ watchers[w].poll # None => PollOK(w)

TypingInv ==
    /\ RegistryOK
    /\ watchers \in [Watchers -> WatcherStates]
    /\ \A w \in Watchers : WatcherOK(w)

(* It holds of an empty registry. *)
LEMMA TypingInvInit ==
    ASSUME TypingInit
    PROVE  TypingInv
<1>1. RegistryOK
  BY DEF TypingInit, RegistryOK
<1>2. watchers \in [Watchers -> WatcherStates]
  BY DEF TypingInit, WatcherStates
<1> QED
  BY <1>1, <1>2 DEF TypingInv, WatcherOK, TypingInit

(* Whatever happens to the registry, a device it does not concern stays shown. *)
LEMMA OthersStayShown ==
    ASSUME TypingInv, Evolves, NEW w \in Watchers, watchers'[w] = watchers[w]
    PROVE  WatcherOK(w)'
<1> DEFINE t == watchers[w].token
           p == watchers[w].poll
<1>1. nextGen \in Nat /\ nextGen' \in Nat /\ nextGen <= nextGen' /\ WatcherOK(w)
  BY DEF TypingInv, Evolves, RegistryOK
<1>2. t \in {None} \cup Nat /\ p \in {None} \cup Polls
  BY DEF TypingInv, WatcherStates
<1>3. \A r \in DOMAIN typing' : typing'[r].serial \in Nat
  BY DEF Evolves, RegistryOK, RoomStates
<1>4. ASSUME NEW r \in DOMAIN typing', NEW n \in Nat, n <= nextGen, typing'[r].serial <= n
      PROVE  \/ Active(typing'[r]) = {}
             \/ /\ r \in DOMAIN typing /\ typing[r].serial <= n
                /\ Active(typing'[r]) \subseteq Active(typing[r])
  BY <1>1, <1>3, <1>4 DEF Evolves
<1>5. t # None => /\ t <= nextGen'
                  /\ \A r \in DOMAIN typing' : typing'[r].serial <= t =>
                        Active(typing'[r]) \subseteq watchers[w].view[r]
  BY <1>1, <1>2, <1>4 DEF WatcherOK
<1>6. ASSUME p # None
      PROVE  PollOK(w)'
  <2>1. p.gen \in Nat /\ p.gen <= nextGen /\ PollOK(w)
    BY <1>1, <1>2, <1>6 DEF WatcherOK, PollOK, Polls
  <2>2. \A r \in TypingRooms : Told(w, r)' = Told(w, r)
    BY DEF Told
  <2>3. DOMAIN typing' \subseteq TypingRooms
    BY DEF Evolves, RegistryOK
  <2>4. \A r \in DOMAIN typing' \ (p.check \cup p.build) :
            typing'[r].serial <= p.gen => Active(typing'[r]) \subseteq Told(w, r)
    BY <1>4, <2>1 DEF PollOK
  <2> QED
    BY <1>1, <2>1, <2>2, <2>3, <2>4 DEF PollOK
<1> QED
  BY <1>5, <1>6 DEF WatcherOK

(* The answer in progress is replaced; the device keeps its token and its view. *)
LEMMA PollReplaced ==
    ASSUME TypingInv, NEW w \in Watchers, NEW new \in Polls, Polling(w, new)
    PROVE  /\ watchers' \in [Watchers -> WatcherStates]
           /\ \A v \in Watchers \ {w} : watchers'[v] = watchers[v]
           /\ watchers'[w].poll = new
           /\ watchers'[w].token = watchers[w].token /\ watchers'[w].view = watchers[w].view
<1>1. watchers \in [Watchers -> WatcherStates] /\ watchers[w] \in WatcherStates
  BY DEF TypingInv
<1>2. [watchers[w] EXCEPT !.poll = new] \in WatcherStates
  BY <1>1 DEF WatcherStates
<1> QED
  BY <1>1, <1>2 DEF Polling, WatcherStates

(* A device whose answer advances by one step stays shown, if the new answer is. *)
LEMMA PollAdvances ==
    ASSUME TypingInv, Evolves, NEW w \in Watchers, NEW new \in Polls, Polling(w, new),
           /\ new.gen <= nextGen
           /\ watchers[w].token # None => watchers[w].token <= new.gen
           /\ watchers[w].token = None => new.check = {}
           /\ DOMAIN new.news \cap (new.check \cup new.build) = {}
           /\ \A r \in DOMAIN typing' \ (new.check \cup new.build) :
                typing'[r].serial <= new.gen =>
                    Active(typing'[r]) \subseteq
                        (IF r \in DOMAIN new.news THEN new.news[r] ELSE watchers[w].view[r])
    PROVE  TypingInv'
<1>1. /\ watchers' \in [Watchers -> WatcherStates]
      /\ \A v \in Watchers \ {w} : watchers'[v] = watchers[v]
      /\ watchers'[w].poll = new
      /\ watchers'[w].token = watchers[w].token /\ watchers'[w].view = watchers[w].view
  BY PollReplaced
<1>2. nextGen \in Nat /\ nextGen' \in Nat /\ nextGen <= nextGen' /\ new.gen \in Nat
      /\ watchers[w].token \in {None} \cup Nat
  BY DEF TypingInv, Evolves, RegistryOK, Polls, WatcherStates
<1>3. PollOK(w)'
  <2>1. new.gen <= nextGen'
    BY <1>2
  <2>2. \A r \in TypingRooms : Told(w, r)' =
            (IF r \in DOMAIN new.news THEN new.news[r] ELSE watchers[w].view[r])
    BY <1>1 DEF Told
  <2>3. DOMAIN typing' \subseteq TypingRooms
    BY DEF Evolves, RegistryOK
  <2> QED
    BY <1>1, <2>1, <2>2, <2>3 DEF PollOK
<1>4. ASSUME watchers[w].token # None
      PROVE  /\ watchers[w].token <= nextGen'
             /\ \A r \in DOMAIN typing' : typing'[r].serial <= watchers[w].token =>
                    Active(typing'[r]) \subseteq watchers[w].view[r]
  <2>1. /\ watchers[w].token <= nextGen
        /\ \A r \in DOMAIN typing : typing[r].serial <= watchers[w].token =>
                Active(typing[r]) \subseteq watchers[w].view[r]
    BY <1>4 DEF TypingInv, WatcherOK
  <2>2. \A r \in DOMAIN typing' : typing'[r].serial \in Nat
    BY DEF Evolves, RegistryOK, RoomStates
  <2> QED
    BY <1>2, <1>4, <2>1, <2>2 DEF Evolves
<1>5. WatcherOK(w)'
  BY <1>1, <1>3, <1>4 DEF WatcherOK
<1>6. \A v \in Watchers \ {w} : WatcherOK(v)'
  BY <1>1, OthersStayShown
<1>7. RegistryOK'
  BY DEF Evolves
<1> QED
  BY <1>1, <1>5, <1>6, <1>7 DEF TypingInv

(* A /sync begins. *)
LEMMA BeginKeeps ==
    ASSUME TypingInv, NEW w \in Watchers, BeginTypingSync(w)
    PROVE  TypingInv'
<1> DEFINE new == [now |-> typingClock, gen |-> nextGen,
                   check |-> IF watchers[w].token = None THEN {} ELSE TypingRooms,
                   build |-> IF watchers[w].token = None THEN TypingRooms ELSE {},
                   news |-> <<>>]
<1>1. RegistryOK /\ nextGen \in Nat /\ typingClock \in Nat /\ WatcherOK(w)
      /\ DOMAIN typing \subseteq TypingRooms
  BY DEF TypingInv, RegistryOK
<1>2. UNCHANGED <<typingClock, nextGen, typing>> /\ Polling(w, new)
  BY DEF BeginTypingSync
<1>3. Evolves
  BY <1>1, <1>2 DEF Evolves, RegistryOK
<1>4. <<>> \in NewsTables /\ DOMAIN <<>> = {}
  <2>1. <<>> \in [{} -> SUBSET Typists]
    OBVIOUS
  <2> QED
    BY <2>1 DEF NewsTables
<1>5. new \in Polls
  BY <1>1, <1>4 DEF Polls
<1>6. /\ new.gen = nextGen /\ new.check \cup new.build = TypingRooms /\ DOMAIN new.news = {}
      /\ watchers[w].token = None => new.check = {}
  BY <1>4
<1>7. watchers[w].token # None => watchers[w].token <= nextGen
  BY <1>1 DEF WatcherOK
<1> HIDE DEF new
<1>8. DOMAIN typing' \ (new.check \cup new.build) = {}
  BY <1>1, <1>2, <1>6
<1> QED
  BY <1>1, <1>2, <1>3, <1>5, <1>6, <1>7, <1>8, PollAdvances

(* The facts of an answer in progress that its next step starts from. *)
LEMMA PollFacts ==
    ASSUME TypingInv, NEW w \in Watchers, watchers[w].poll # None
    PROVE  LET p == watchers[w].poll IN
           /\ p \in Polls /\ p.now \in Int /\ p.gen \in Nat
           /\ RegistryOK /\ nextGen \in Nat
           /\ watchers[w].token \in {None} \cup Nat
           /\ PollOK(w) /\ WatcherOK(w)
BY DEF TypingInv, WatcherOK, WatcherStates, Polls, RegistryOK

(* What a read leaves of a room that is not concerned stays shown to the answer. *)
LEMMA SettledStaysShown ==
    ASSUME TypingInv, Evolves, NEW w \in Watchers, watchers[w].poll # None,
           NEW s \in DOMAIN typing', s \in DOMAIN typing, typing'[s] = typing[s],
           s \notin watchers[w].poll.check \cup watchers[w].poll.build,
           typing'[s].serial <= watchers[w].poll.gen
    PROVE  Active(typing'[s]) \subseteq Told(w, s)
BY PollFacts DEF PollOK

(* The prefilter looks at one room. *)
LEMMA PrefilterKeeps ==
    ASSUME TypingInv, NEW w \in Watchers, NEW r \in TypingRooms, NEW other \in BOOLEAN,
           PrefilterRoom(w, r, other)
    PROVE  TypingInv'
<1> DEFINE p == watchers[w].poll
           t == watchers[w].token
           build == IF other \/ TypingSerial(r, p.now) > t THEN p.build \cup {r} ELSE p.build
           new == [p EXCEPT !.check = p.check \ {r}, !.build = build]
<1>1. p # None /\ r \in p.check /\ Polling(w, new) /\ ReadRoom(r, p.now) /\ UNCHANGED typingClock
  BY DEF PrefilterRoom
<1>2. /\ p \in Polls /\ p.now \in Int /\ p.gen \in Nat /\ RegistryOK /\ nextGen \in Nat
      /\ t \in {None} \cup Nat /\ PollOK(w) /\ WatcherOK(w)
  BY <1>1, PollFacts
<1>3. t # None
  BY <1>1, <1>2 DEF PollOK
<1>4. /\ Evolves
      /\ \A s \in DOMAIN typing' \ {r} : s \in DOMAIN typing /\ typing'[s] = typing[s]
      /\ r \in DOMAIN typing' =>
          /\ r \in DOMAIN typing
          /\ TypingSerial(r, p.now) = typing'[r].serial
          /\ \/ typing'[r].serial > nextGen
             \/ /\ typing'[r].serial = typing[r].serial
                /\ Active(typing'[r]) \subseteq Active(typing[r])
      /\ TypingSerial(r, p.now) \in Nat
  BY <1>1, <1>2, ReadEvolves
<1>5. build \in SUBSET TypingRooms
  BY <1>2 DEF Polls
<1> HIDE DEF build
<1>6. /\ new \in Polls /\ new.check = p.check \ {r} /\ new.build = build
      /\ new.gen = p.gen /\ new.news = p.news
  BY <1>2, <1>5 DEF Polls
<1> HIDE DEF new
<1>7. /\ p.gen <= nextGen /\ t <= p.gen /\ t <= nextGen
      /\ DOMAIN p.news \cap (p.check \cup p.build) = {}
  BY <1>2, <1>3 DEF PollOK, WatcherOK
<1>8. DOMAIN new.news \cap (new.check \cup new.build) = {}
  BY <1>1, <1>6, <1>7 DEF build
<1>9. ASSUME NEW s \in DOMAIN typing' \ (new.check \cup new.build), typing'[s].serial <= new.gen
      PROVE  Active(typing'[s]) \subseteq
                 (IF s \in DOMAIN new.news THEN new.news[s] ELSE watchers[w].view[s])
  <2>1. CASE s # r
    <3>1. s \in DOMAIN typing /\ typing'[s] = typing[s] /\ s \notin p.check \cup p.build
      BY <1>4, <1>6, <1>9, <2>1 DEF build
    <3>2. Active(typing'[s]) \subseteq Told(w, s)
      BY <1>1, <1>4, <1>6, <1>9, <3>1, SettledStaysShown
    <3> QED
      BY <1>6, <3>2 DEF Told
  <2>2. CASE s = r
    <3>1. ~ (TypingSerial(r, p.now) > t) /\ s \notin DOMAIN new.news
      BY <1>1, <1>6, <1>7, <1>9, <2>2 DEF build
    <3>2. typing'[r].serial \in Nat /\ typing'[r].serial <= t
      BY <1>2, <1>3, <1>4, <1>9, <2>2, <3>1
    <3>3. typing'[r].serial = typing[r].serial /\ Active(typing'[r]) \subseteq Active(typing[r])
          /\ r \in DOMAIN typing
      BY <1>2, <1>3, <1>4, <1>7, <1>9, <2>2, <3>2
    <3>4. Active(typing[r]) \subseteq watchers[w].view[r]
      BY <1>2, <1>3, <3>2, <3>3 DEF WatcherOK
    <3> QED
      BY <2>2, <3>1, <3>3, <3>4
  <2> QED
    BY <2>1, <2>2
<1> QED
  BY <1>1, <1>3, <1>4, <1>6, <1>7, <1>8, <1>9, PollAdvances

(* A room's block is built. *)
LEMMA BuildKeeps ==
    ASSUME TypingInv, NEW w \in Watchers, NEW r \in TypingRooms, BuildTypingBlock(w, r)
    PROVE  TypingInv'
<1> DEFINE p == watchers[w].poll
           t == watchers[w].token
           fresh == t = None \/ TypingSerial(r, p.now) > t
           told == [s \in DOMAIN p.news \cup {r} |->
                       IF s = r THEN TypingUsers(r, p.now) ELSE p.news[s]]
           news == IF fresh THEN told ELSE p.news
           new == [p EXCEPT !.build = p.build \ {r}, !.news = news]
<1>1. /\ p # None /\ p.check = {} /\ r \in p.build /\ Polling(w, new)
      /\ ReadRoom(r, p.now) /\ UNCHANGED typingClock
  BY DEF BuildTypingBlock
<1>2. /\ p \in Polls /\ p.now \in Int /\ p.gen \in Nat /\ RegistryOK /\ nextGen \in Nat
      /\ t \in {None} \cup Nat /\ PollOK(w) /\ WatcherOK(w)
  BY <1>1, PollFacts
<1>3. /\ Evolves
      /\ \A s \in DOMAIN typing' \ {r} : s \in DOMAIN typing /\ typing'[s] = typing[s]
      /\ r \in DOMAIN typing' =>
          /\ r \in DOMAIN typing
          /\ TypingSerial(r, p.now) = typing'[r].serial
          /\ TypingUsers(r, p.now) = Active(typing'[r])
          /\ \/ typing'[r].serial > nextGen
             \/ /\ typing'[r].serial = typing[r].serial
                /\ Active(typing'[r]) \subseteq Active(typing[r])
      /\ TypingSerial(r, p.now) \in Nat
      /\ TypingUsers(r, p.now) \in SUBSET Typists
  BY <1>1, <1>2, ReadEvolves
<1>4. told \in NewsTables
  <2>1. PICK S \in SUBSET TypingRooms : p.news \in [S -> SUBSET Typists]
    BY <1>2 DEF Polls, NewsTables
  <2>2. told \in [S \cup {r} -> SUBSET Typists]
    BY <1>3, <2>1
  <2>3. S \cup {r} \in SUBSET TypingRooms
    OBVIOUS
  <2> QED
    BY <2>2, <2>3 DEF NewsTables
<1>5. DOMAIN told = DOMAIN p.news \cup {r} /\ told[r] = TypingUsers(r, p.now)
      /\ \A s \in DOMAIN p.news \ {r} : told[s] = p.news[s]
  OBVIOUS
<1> HIDE DEF told
<1>6. news \in NewsTables
  BY <1>2, <1>4 DEF Polls
<1> HIDE DEF news
<1>7. /\ new \in Polls /\ new.check = {} /\ new.build = p.build \ {r}
      /\ new.gen = p.gen /\ new.news = news
  BY <1>1, <1>2, <1>6 DEF Polls
<1> HIDE DEF new
<1>8. /\ p.gen <= nextGen /\ (t # None => t <= p.gen /\ t <= nextGen)
      /\ DOMAIN p.news \cap (p.check \cup p.build) = {}
  BY <1>2 DEF PollOK, WatcherOK
<1>9. DOMAIN new.news \cap (new.check \cup new.build) = {}
  BY <1>1, <1>5, <1>7, <1>8 DEF news
<1>10. ASSUME NEW s \in DOMAIN typing' \ (new.check \cup new.build), typing'[s].serial <= new.gen
       PROVE  Active(typing'[s]) \subseteq
                  (IF s \in DOMAIN new.news THEN new.news[s] ELSE watchers[w].view[s])
  <2>1. CASE s # r
    <3>1. s \in DOMAIN typing /\ typing'[s] = typing[s] /\ s \notin p.check \cup p.build
      BY <1>1, <1>3, <1>7, <1>10, <2>1
    <3>2. Active(typing'[s]) \subseteq Told(w, s)
      BY <1>1, <1>3, <1>7, <1>10, <3>1, SettledStaysShown
    <3>3. (s \in DOMAIN new.news <=> s \in DOMAIN p.news)
          /\ (s \in DOMAIN p.news => new.news[s] = p.news[s])
      BY <1>5, <1>7, <2>1 DEF news
    <3> QED
      BY <3>2, <3>3 DEF Told
  <2>2. CASE s = r /\ fresh
    BY <1>3, <1>5, <1>7, <1>10, <2>2 DEF news
  <2>3. CASE s = r /\ ~ fresh
    <3>1. s \notin DOMAIN new.news
      BY <1>1, <1>7, <1>8, <2>3 DEF news
    <3>2. t # None /\ typing'[r].serial \in Nat /\ typing'[r].serial <= t
      BY <1>2, <1>3, <1>10, <2>3
    <3>3. typing'[r].serial = typing[r].serial /\ Active(typing'[r]) \subseteq Active(typing[r])
          /\ r \in DOMAIN typing
      BY <1>2, <1>3, <1>8, <1>10, <2>3, <3>2
    <3>4. Active(typing[r]) \subseteq watchers[w].view[r]
      BY <1>2, <3>2, <3>3 DEF WatcherOK
    <3> QED
      BY <2>3, <3>1, <3>3, <3>4
  <2> QED
    BY <2>1, <2>2, <2>3
<1> QED
  BY <1>1, <1>3, <1>7, <1>8, <1>9, <1>10, PollAdvances

(* The device takes the answer. *)
LEMMA TakeKeeps ==
    ASSUME TypingInv, NEW w \in Watchers, TakeTypingAnswer(w)
    PROVE  TypingInv'
<1> DEFINE p == watchers[w].poll
           view == [r \in TypingRooms |-> IF r \in DOMAIN p.news THEN p.news[r] ELSE watchers[w].view[r]]
           new == [token |-> p.gen, view |-> view, poll |-> None]
<1>1. /\ p # None /\ p.check = {} /\ p.build = {}
      /\ watchers' = [watchers EXCEPT ![w] = new]
      /\ UNCHANGED <<typingClock, nextGen, typing>>
  BY DEF TakeTypingAnswer, TokenGen
<1>2. /\ p \in Polls /\ p.gen \in Nat /\ RegistryOK /\ nextGen \in Nat /\ PollOK(w)
      /\ watchers[w] \in WatcherStates /\ watchers \in [Watchers -> WatcherStates]
  BY <1>1, PollFacts DEF TypingInv
<1>3. view \in [TypingRooms -> SUBSET Typists]
  BY <1>2 DEF Polls, NewsTables, WatcherStates
<1>4. \A r \in TypingRooms : view[r] = Told(w, r)
  BY DEF Told
<1> HIDE DEF view
<1>5. new \in WatcherStates /\ new.token = p.gen /\ new.view = view /\ new.poll = None
  BY <1>2, <1>3 DEF WatcherStates
<1> HIDE DEF new
<1>6. /\ watchers' \in [Watchers -> WatcherStates] /\ watchers'[w] = new
      /\ \A v \in Watchers \ {w} : watchers'[v] = watchers[v]
  BY <1>1, <1>2, <1>5
<1>7. Evolves
  BY <1>1, <1>2 DEF Evolves, RegistryOK
<1>8. WatcherOK(w)'
  <2>1. \A r \in DOMAIN typing : typing[r].serial <= p.gen => Active(typing[r]) \subseteq view[r]
    BY <1>1, <1>2, <1>4 DEF PollOK, RegistryOK
  <2>2. p.gen <= nextGen
    BY <1>2 DEF PollOK
  <2> QED
    BY <1>1, <1>5, <1>6, <2>1, <2>2 DEF WatcherOK
<1> QED
  BY <1>6, <1>7, <1>8, OthersStayShown DEF TypingInv, Evolves

(* Every step keeps the invariant. *)
LEMMA TypingInvStep ==
    ASSUME TypingInv, [TypingNext]_typingVars
    PROVE  TypingInv'
<1>1. ASSUME Evolves, UNCHANGED watchers
      PROVE  TypingInv'
  BY <1>1, OthersStayShown DEF TypingInv, Evolves
<1>2. CASE TypingTick \/ UNCHANGED typingVars
  <2>1. UNCHANGED <<nextGen, typing, watchers>> /\ typingClock' \in Nat
    BY <1>2 DEF TypingTick, typingVars, TypingInv, RegistryOK
  <2>2. Evolves
    BY <2>1 DEF Evolves, RegistryOK, TypingInv
  <2> QED
    BY <1>1, <2>1, <2>2
<1>3. ASSUME NEW r \in TypingRooms, NEW u \in Typists, StopTyping(r, u)
      PROVE  TypingInv'
  BY <1>1, <1>3, StopEvolves DEF StopTyping, TypingInv
<1>4. ASSUME NEW r \in TypingRooms, NEW u \in Typists, NEW timeout \in 1 .. MaxTimeout,
             StartTyping(r, u, timeout)
      PROVE  TypingInv'
  BY <1>1, <1>4, StartEvolves DEF StartTyping, TypingInv
<1> QED
  BY <1>2, <1>3, <1>4, BeginKeeps, PrefilterKeeps, BuildKeeps, TakeKeeps DEF TypingNext

(* A token never steps over someone who began to type (sync.rs, typing.rs): a room
   whose last change is not above a device's token shows that device everyone
   who is typing in it, however reads, changes and expiries interleave. *)
THEOREM TypistsAreShownHolds == TypingSpec => []TypistsAreShown
<1>1. TypingInit => TypingInv
  BY TypingInvInit
<1>2. TypingInv /\ [TypingNext]_typingVars => TypingInv'
  BY TypingInvStep
<1>3. TypingInv => TypistsAreShown
  BY DEF TypingInv, WatcherOK, TypistsAreShown
<1> QED
  BY <1>1, <1>2, <1>3, PTL DEF TypingSpec
=============================================================================
