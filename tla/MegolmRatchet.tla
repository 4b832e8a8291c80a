--------------------------- MODULE MegolmRatchet ---------------------------
(***************************************************************************)
(* The Megolm ratchet of the forked vodozemac crate and the sessions built *)
(* on it: the sender's GroupSession, which advances one index per message, *)
(* and the receivers' InboundGroupSessions, which jump to any later index, *)
(* go back to the first index they know, are exported, imported, merged,   *)
(* advanced and restored from a pickle.                                    *)
(*                                                                         *)
(* The counter is written in base Base (256 in the code) with four digits, *)
(* one per ratchet part.  A part is the symbolic term its bytes are the    *)
(* hash of: the sequence of seeds applied to it since the first ratchet.   *)
(***************************************************************************)
EXTENDS Option, Integers, Sequences

CONSTANTS
    Base,            \* the values of one digit of the counter
    Holders,         \* the receivers' sessions
    Indexes,         \* the message indexes the receivers are given
    MaxGroupIndex    \* bound: the messages of the sender

ASSUME MegolmAssumption ==
    /\ Base \in Nat \ {0, 1}
    /\ MaxGroupIndex \in 0 .. Base ^ 4 - 1
    /\ Indexes \subseteq 0 .. MaxGroupIndex

VARIABLES
    groupRatchet,    \* GroupSession.ratchet
    groupKeys,       \* the ratchet parts each sent message was encrypted with
    groupSessions    \* the InboundGroupSession of each holder, or None

megolmVars == <<groupRatchet, groupKeys, groupSessions>>

Parts == 0 .. 3
Digit(c, j) == c \div (Base ^ (3 - j))

\* Hash part `from` into every part of `tos`, the slowest one last.
Update(parts, from, tos) ==
    [k \in Parts |-> IF k \in tos THEN Append(parts[from], k) ELSE parts[k]]

\* Faulty variant of Slowest: an index whose last digit is zero is taken for
\* one that only moves the fastest part.
SlowestOffByOne(c) ==
    CHOOSE h \in Parts : /\ c % (Base ^ (4 - h)) = 0 \/ h = 3
                         /\ \A i \in 0 .. h - 1 : c % (Base ^ (4 - i)) # 0

\* The slowest part that moves when the counter becomes c.
Slowest(c) ==
    CHOOSE h \in Parts : /\ c % (Base ^ (3 - h)) = 0
                         /\ \A i \in 0 .. h - 1 : c % (Base ^ (3 - i)) # 0

Advance(r) ==
    LET c == (r.counter + 1) % (Base ^ 4)
        h == Slowest(c)
    IN  [counter |-> c, parts |-> Update(r.parts, h, h .. 3)]

\* One turn of the loop of advance_to: part j is rehashed up to the digit of n.
AdvancePart(r, n, j) ==
    LET diff == (Digit(n, j) - Digit(r.counter, j)) % Base
        steps == IF diff = 0 /\ n < r.counter THEN Base ELSE diff
        bumped == r.parts[j] \o [i \in 1 .. steps - 1 |-> j]
    IN  IF steps = 0 THEN r
        ELSE [counter |-> Digit(n, j) * (Base ^ (3 - j)),
              parts |-> Update([r.parts EXCEPT ![j] = bumped], j, j .. 3)]

AdvanceTo(r, n) ==
    AdvancePart(AdvancePart(AdvancePart(AdvancePart(r, n, 0), n, 1), n, 2), n, 3)

InboundFrom(r) == [initial |-> r, latest |-> r]

\* The ratchet of index i, and the session it leaves: the latest ratchet only
\* moves forward unless an older index is asked for, when it restarts from the
\* first known one.
FindRatchet(s, i) ==
    IF s.initial.counter = i THEN [session |-> s, ratchet |-> s.initial]
    ELSE IF s.initial.counter < i THEN
        LET from == IF s.latest.counter <= i THEN s.latest ELSE s.initial
            r == IF s.latest.counter = i THEN s.latest ELSE AdvanceTo(from, i)
        IN  [session |-> [s EXCEPT !.latest = r], ratchet |-> r]
    ELSE [session |-> s, ratchet |-> None]

\* Whether a and b hold the same ratchet, and both sessions afterwards.
Connected(a, b) ==
    LET ours == FindRatchet(a, b.initial.counter)
        theirs == FindRatchet(b, a.initial.counter)
    IN  IF ours.ratchet # None
        THEN [a |-> ours.session, b |-> b, same |-> ours.ratchet = b.initial]
        ELSE [a |-> a, b |-> theirs.session, same |-> theirs.ratchet = a.initial]

MegolmInit ==
    /\ groupRatchet = [counter |-> 0, parts |-> [k \in Parts |-> <<k>>]]
    /\ groupKeys = <<>>
    /\ groupSessions = [h \in Holders |-> None]

Held == {h \in Holders : groupSessions[h] # None}

\* GroupSession::encrypt: the message takes the current parts, then the ratchet
\* moves on.
GroupEncrypt ==
    /\ Len(groupKeys) < MaxGroupIndex
    /\ groupKeys' = Append(groupKeys, groupRatchet.parts)
    /\ groupRatchet' = Advance(groupRatchet)
    /\ UNCHANGED groupSessions

\* A holder is given the sender's session key at its current index.
GroupShare ==
    /\ groupRatchet.counter \in Indexes
    /\ \E h \in Holders \ Held :
        groupSessions' = [groupSessions EXCEPT ![h] = InboundFrom(groupRatchet)]
    /\ UNCHANGED <<groupRatchet, groupKeys>>

\* A message of index i arrives, in any order and any number of times.
GroupDecrypt ==
    /\ \E h \in Held, i \in Indexes :
        /\ i < Len(groupKeys)
        /\ groupSessions' = [groupSessions EXCEPT
               ![h] = FindRatchet(groupSessions[h], i).session]
    /\ UNCHANGED <<groupRatchet, groupKeys>>

\* Holder h exports its session at index i and holder g imports it.
GroupExport ==
    /\ \E h \in Held, g \in Holders \ Held, i \in Indexes :
        LET found == FindRatchet(groupSessions[h], i)
        IN  /\ found.ratchet # None
            /\ groupSessions' = [groupSessions EXCEPT
                   ![h] = found.session, ![g] = InboundFrom(found.ratchet)]
    /\ UNCHANGED <<groupRatchet, groupKeys>>

\* h merges the session of g into its own and takes the lower first index.
GroupMerge ==
    /\ \E h, g \in Held :
        LET c == Connected(groupSessions[h], groupSessions[g])
            best == IF c.a.initial.counter <= c.b.initial.counter
                    THEN c.a.initial ELSE c.b.initial
        IN  /\ h # g
            /\ groupSessions' = [groupSessions EXCEPT ![g] = c.b,
                   ![h] = IF c.same THEN InboundFrom(best) ELSE c.a]
    /\ UNCHANGED <<groupRatchet, groupKeys>>

\* InboundGroupSession::advance_to gives up the indexes below i.
GroupForget ==
    /\ \E h \in Held, i \in Indexes :
        LET s == groupSessions[h]
            r == AdvanceTo(s.initial, i)
        IN  /\ s.initial.counter < i
            /\ groupSessions' = [groupSessions EXCEPT ![h] =
                   [initial |-> r,
                    latest |-> IF s.latest.counter < i THEN r ELSE s.latest]]
    /\ UNCHANGED <<groupRatchet, groupKeys>>

\* A session restored from its pickle starts again from its first known index;
\* the pickle does not carry the latest ratchet.
GroupRestore ==
    /\ \E h \in Held :
        groupSessions' = [groupSessions EXCEPT
            ![h] = InboundFrom(groupSessions[h].initial)]
    /\ UNCHANGED <<groupRatchet, groupKeys>>

MegolmNext ==
    \/ GroupEncrypt \/ GroupShare \/ GroupDecrypt \/ GroupExport
    \/ GroupMerge \/ GroupForget \/ GroupRestore

MegolmSpec == MegolmInit /\ [][MegolmNext]_megolmVars

----------------------------------------------------------------------------
Ratchets == [counter : 0 .. MaxGroupIndex, parts : [Parts -> Seq(Parts)]]

\* Shapes of the sender's ratchet and of the receivers' sessions.
MegolmTypeOK ==
    /\ groupRatchet \in Ratchets
    /\ groupKeys \in Seq([Parts -> Seq(Parts)])
    /\ \A h \in Held :
        /\ groupSessions[h].initial \in Ratchets
        /\ groupSessions[h].latest \in Ratchets
        /\ groupSessions[h].initial.counter <= groupSessions[h].latest.counter

\* The jump of advance_to agrees with the sender's single steps: whatever a
\* session was asked before, every message at or after its first known index
\* is opened with exactly the key it was encrypted with, and two sessions of
\* the same sender are always connected, so neither is refused by merge.
ReceiversFollowTheSender ==
    /\ \A h \in Held, i \in Indexes :
        LET found == FindRatchet(groupSessions[h], i)
        IN  i < Len(groupKeys) /\ groupSessions[h].initial.counter <= i
            => found.ratchet # None /\ found.ratchet.parts = groupKeys[i + 1]
    /\ \A h, g \in Held : Connected(groupSessions[h], groupSessions[g]).same
=============================================================================
