-------------------------------- MODULE Typing --------------------------------
(***************************************************************************)
(* The typing notifications of the homeserver (typing.rs) and the part of  *)
(* /sync that reports them (sync.rs).  The registry is in memory behind    *)
(* its own lock, so the reads one /sync makes (the generation, each room   *)
(* of the prefilter, each room of the answer) are separate steps, between  *)
(* which users start and stop and flags run out.                           *)
(*                                                                         *)
(* The clock counts throttle windows.                                      *)
(***************************************************************************)
EXTENDS Option, Integers, FiniteSets, Functions

CONSTANTS
    TypingRooms, Typists, Watchers,   \* rooms, members who type, devices that sync
    ThrottleWindow, MaxTimeout,       \* TYPING_THROTTLE_WINDOW, TYPING_MAX_TIMEOUT_MS
    MaxTypingClock, MaxGen            \* bounds: the clock, and the changes members make

ASSUME TypingAssumption ==
    {ThrottleWindow, MaxTimeout} \subseteq Nat \ {0} /\ {MaxTypingClock, MaxGen} \subseteq Nat

VARIABLES
    typingClock,
    nextGen,     \* the counter every room's serial is stamped from
    typing,      \* the rooms in the registry: serial, and the state of each known user
    watchers     \* token and view of each device, and the /sync it is in, or None

typingVars == <<typingClock, nextGen, typing, watchers>>

TypingInit ==
    /\ typingClock = 0 /\ nextGen = 0 /\ typing = <<>>
    /\ watchers = [w \in Watchers |->
           [token |-> None, view |-> [r \in TypingRooms |-> {}], poll |-> None]]

----------------------------------------------------------------------------
Active(room) == {u \in DOMAIN room.users : room.users[u].active}

\* reap_room: flags that ran out are cleared, stamping the room once, and a user
\* who is not typing is forgotten once outside the throttle window.
Expired(room, now) == {u \in Active(room) : room.users[u].expires <= now}

Reap(room, now) ==
    LET gone == Expired(room, now)
        known == {u \in DOMAIN room.users :
                     \/ u \in Active(room) \ gone
                     \/ now - room.users[u].accepted <= ThrottleWindow}
    IN  [serial |-> IF gone = {} THEN room.serial ELSE nextGen + 1,
         users |-> [u \in known |->
                       [room.users[u] EXCEPT !.active = @ /\ u \notin gone]]]

WithRoom(r, room) == [s \in DOMAIN typing \cup {r} |-> IF s = r THEN room ELSE typing[s]]

\* What every read does to the registry: reap the room, count the stamp, and
\* drop the room when nobody in it is remembered.
ReadRoom(r, now) ==
    IF r \notin DOMAIN typing THEN UNCHANGED <<typing, nextGen>>
    ELSE LET room == Reap(typing[r], now)
         IN  /\ typing' = IF room.users = <<>> THEN Restrict(typing, DOMAIN typing \ {r})
                          ELSE WithRoom(r, room)
             /\ nextGen' = IF Expired(typing[r], now) = {} THEN nextGen ELSE nextGen + 1

\* typing_serial and typing_users, as the read finds them; 0 and nobody for a
\* room that is not in the registry.
TypingSerial(r, now) == IF r \in DOMAIN typing THEN Reap(typing[r], now).serial ELSE 0
TypingUsers(r, now) == IF r \in DOMAIN typing THEN Active(Reap(typing[r], now)) ELSE {}

----------------------------------------------------------------------------
Entry(r) == IF r \in DOMAIN typing THEN typing[r] ELSE [serial |-> 0, users |-> <<>>]

\* set_typing with typing = true: a repeat inside the throttle window changes
\* nothing, a refresh moves the expiry, a start stamps the room.
StartTyping(r, u, timeout) ==
    LET room == Entry(r)
        known == u \in DOMAIN room.users
        starts == ~ (known /\ room.users[u].active)
        state == [active |-> TRUE, expires |-> typingClock + timeout, accepted |-> typingClock]
    IN  /\ nextGen < MaxGen
        /\ known => typingClock - room.users[u].accepted >= ThrottleWindow
        /\ typing' = WithRoom(r,
               [serial |-> IF starts THEN nextGen + 1 ELSE room.serial,
                users |-> [v \in DOMAIN room.users \cup {u} |->
                              IF v = u THEN state ELSE room.users[v]]])
        /\ nextGen' = IF starts THEN nextGen + 1 ELSE nextGen
        /\ UNCHANGED <<typingClock, watchers>>

\* set_typing with typing = false: the room enters the registry even when the
\* user was not typing there.
StopTyping(r, u) ==
    LET room == Entry(r)
        stops == u \in Active(room)
    IN  /\ nextGen < MaxGen
        /\ typing' = WithRoom(r,
               [serial |-> IF stops THEN nextGen + 1 ELSE room.serial,
                users |-> [v \in DOMAIN room.users |->
                    IF v = u /\ stops
                    THEN [active |-> FALSE, expires |-> typingClock,
                          accepted |-> room.users[v].accepted]
                    ELSE room.users[v]]])
        /\ nextGen' = IF stops THEN nextGen + 1 ELSE nextGen
        /\ UNCHANGED <<typingClock, watchers>>

TypingTick ==
    /\ typingClock < MaxTypingClock
    /\ typingClock' = typingClock + 1
    /\ UNCHANGED <<nextGen, typing, watchers>>

----------------------------------------------------------------------------
Polling(w, p) == watchers' = [watchers EXCEPT ![w].poll = p]

\* build_sync_response takes the time and the generation before it looks at any
\* room; `check` is what the prefilter has still to look at (nothing on an
\* initial sync) and `build` the rooms that will have a block.
BeginTypingSync(w) ==
    /\ watchers[w].poll = None
    /\ Polling(w,
           [now |-> typingClock, gen |-> nextGen,
            check |-> IF watchers[w].token = None THEN {} ELSE TypingRooms,
            build |-> IF watchers[w].token = None THEN TypingRooms ELSE {},
            news |-> <<>>])
    /\ UNCHANGED <<typingClock, nextGen, typing>>

\* The prefilter: a room is built when its serial is above the token's, or when
\* something else happened in it (`other`).
PrefilterRoom(w, r, other) ==
    LET p == watchers[w].poll IN
    /\ p # None
    /\ r \in p.check
    /\ Polling(w, [p EXCEPT
           !.check = @ \ {r},
           !.build = IF other \/ TypingSerial(r, p.now) > watchers[w].token
                     THEN @ \cup {r} ELSE @])
    /\ ReadRoom(r, p.now)
    /\ UNCHANGED typingClock

\* The room's block reads the serial again, and lists who is typing when it is
\* above the token's.  The code locks the registry for each of the two reads; a
\* change in between is stamped above the answer's token.
BuildTypingBlock(w, r) ==
    LET p == watchers[w].poll
        full == watchers[w].token = None
    IN  /\ p # None
        /\ p.check = {} /\ r \in p.build
        /\ Polling(w, [p EXCEPT
               !.build = @ \ {r},
               !.news = IF full \/ TypingSerial(r, p.now) > watchers[w].token
                        THEN [s \in DOMAIN @ \cup {r} |->
                                 IF s = r THEN TypingUsers(r, p.now) ELSE @[s]]
                        ELSE @])
        /\ ReadRoom(r, p.now)
        /\ UNCHANGED typingClock

\* Faulty variant of TokenGen: the generation is read when the answer is complete.
TokenGenLate(p) == nextGen

\* The generation next_batch carries: the one read before any room.
TokenGen(p) == p.gen

\* The whole answer has been built: the device replaces the typists of every
\* room it lists and keeps the token.
TakeTypingAnswer(w) ==
    LET p == watchers[w].poll IN
    /\ p # None
    /\ p.check = {} /\ p.build = {}
    /\ watchers' = [watchers EXCEPT ![w] =
           [token |-> TokenGen(p),
            view |-> [r \in TypingRooms |->
                         IF r \in DOMAIN p.news THEN p.news[r] ELSE watchers[w].view[r]],
            poll |-> None]]
    /\ UNCHANGED <<typingClock, nextGen, typing>>

TypingNext ==
    \/ TypingTick
    \/ \E r \in TypingRooms, u \in Typists :
        StopTyping(r, u) \/ \E timeout \in 1 .. MaxTimeout : StartTyping(r, u, timeout)
    \/ \E w \in Watchers :
        \/ BeginTypingSync(w) \/ TakeTypingAnswer(w)
        \/ \E r \in TypingRooms :
            BuildTypingBlock(w, r) \/ \E other \in BOOLEAN : PrefilterRoom(w, r, other)

TypingSpec == TypingInit /\ [][TypingNext]_typingVars

----------------------------------------------------------------------------
\* Shapes, and no stamp is ahead of the counter.
TypingTypeOK ==
    /\ DOMAIN typing \subseteq TypingRooms
    /\ \A r \in DOMAIN typing :
        typing[r].serial \in 0 .. nextGen /\ DOMAIN typing[r].users \subseteq Typists
    /\ \A w \in Watchers : watchers[w].token \in {None} \cup 0 .. nextGen

\* A token never steps over someone who began to type: a room whose last change
\* is not above the token of a device shows that device everyone who is typing
\* in it.
TypistsAreShown ==
    \A w \in Watchers, r \in DOMAIN typing :
        watchers[w].token # None /\ typing[r].serial <= watchers[w].token
            => Active(typing[r]) \subseteq watchers[w].view[r]
=============================================================================
