---------------------------- MODULE MCComponents ----------------------------
(***************************************************************************)
(* One run for the components that share no state with each other: every   *)
(* behaviour is a behaviour of one of them, chosen in the initial state,   *)
(* while the others stay where they start.  The reachable states are the   *)
(* sum of theirs.                                                          *)
(***************************************************************************)
EXTENDS SendPipeline, RoomKeyInbox, MegolmRatchet, OlmSession, KeySupply, RecordLog,
        Retention, Typing, Startup, Membership

CONSTANTS
    bob, carol, b1, c1, t1, t2,   \* SendPipeline: two peers with a device each, two sends
    d1, d2, u1, u2,               \* Retention: two devices of two accounts
    q1, q2,                       \* Typing: two rooms
    s1, s2, s3,                   \* Startup: three starts
    p0, p1, p2                    \* Membership: the founder and two others

MCOwner == (b1 :> bob) @@ (c1 :> carol)
MCTimeline ==
    <<[session |-> 1, index |-> 0], [session |-> 1, index |-> 1], [session |-> 1, index |-> 1]>>
MCReaderOwner == (d1 :> u1) @@ (d2 :> u2)

\* One swap exchanges the twins of every component at once.
Twins == <<<<bob, carol>>, <<b1, c1>>, <<t1, t2>>, <<d1, d2>>, <<u1, u2>>, <<q1, q2>>,
           <<s1, s2>>, <<p1, p2>>>>
Twin(x) ==
    LET pair == Twins[CHOOSE i \in DOMAIN Twins : x \in {Twins[i][1], Twins[i][2]}]
    IN  IF x = pair[1] THEN pair[2] ELSE pair[1]
Symmetric ==
    {[x \in {bob, carol, b1, c1, t1, t2, d1, d2, u1, u2, q1, q2, s1, s2, p1, p2} |->
        IF swapped THEN Twin(x) ELSE x] : swapped \in BOOLEAN}

----------------------------------------------------------------------------
VARIABLE part   \* the component that moves

componentVars ==
    <<part, sendVars, inboxVars, megolmVars, olmVars, supplyVars, logVars,
      retentionVars, typingVars, startVars, memberVars>>

ComponentsInit ==
    /\ part \in {"send", "inbox", "megolm", "olm", "supply", "log",
                 "retention", "typing", "startup", "membership"}
    /\ SendInit /\ InboxInit /\ MegolmInit /\ OlmInit /\ SupplyInit /\ LogInit
    /\ RetentionInit /\ TypingInit /\ StartupInit /\ MembershipInit
    \* one initial state for each of the other components
    /\ part = "membership" \/ publicRoom
    /\ part = "retention" \/ present = Accounts
    /\ part = "olm" \/ claimed = "one_time"

SendPart == part = "send" /\ SendNext
    /\ UNCHANGED <<part, inboxVars, megolmVars, olmVars, supplyVars, logVars,
                   retentionVars, typingVars, startVars, memberVars>>
InboxPart == part = "inbox" /\ InboxNext
    /\ UNCHANGED <<part, sendVars, megolmVars, olmVars, supplyVars, logVars,
                   retentionVars, typingVars, startVars, memberVars>>
MegolmPart == part = "megolm" /\ MegolmNext
    /\ UNCHANGED <<part, sendVars, inboxVars, olmVars, supplyVars, logVars,
                   retentionVars, typingVars, startVars, memberVars>>
OlmPart == part = "olm" /\ OlmNext
    /\ UNCHANGED <<part, sendVars, inboxVars, megolmVars, supplyVars, logVars,
                   retentionVars, typingVars, startVars, memberVars>>
SupplyPart == part = "supply" /\ SupplyNext
    /\ UNCHANGED <<part, sendVars, inboxVars, megolmVars, olmVars, logVars,
                   retentionVars, typingVars, startVars, memberVars>>
LogPart == part = "log" /\ LogNext
    /\ UNCHANGED <<part, sendVars, inboxVars, megolmVars, olmVars, supplyVars,
                   retentionVars, typingVars, startVars, memberVars>>
RetentionPart == part = "retention" /\ RetentionNext
    /\ UNCHANGED <<part, sendVars, inboxVars, megolmVars, olmVars, supplyVars, logVars,
                   typingVars, startVars, memberVars>>
TypingPart == part = "typing" /\ TypingNext
    /\ UNCHANGED <<part, sendVars, inboxVars, megolmVars, olmVars, supplyVars, logVars,
                   retentionVars, startVars, memberVars>>
StartupPart == part = "startup" /\ StartupNext
    /\ UNCHANGED <<part, sendVars, inboxVars, megolmVars, olmVars, supplyVars, logVars,
                   retentionVars, typingVars, memberVars>>
MembershipPart == part = "membership" /\ MembershipNext
    /\ UNCHANGED <<part, sendVars, inboxVars, megolmVars, olmVars, supplyVars, logVars,
                   retentionVars, typingVars, startVars>>

ComponentsNext ==
    \/ SendPart \/ InboxPart \/ MegolmPart \/ OlmPart \/ SupplyPart \/ LogPart
    \/ RetentionPart \/ TypingPart \/ StartupPart \/ MembershipPart

ComponentsSpec == ComponentsInit /\ [][ComponentsNext]_componentVars

\* Shapes of the state of the component that moves; the others' never changes.
ComponentsTypeOK ==
    /\ part = "send" => SendTypeOK
    /\ part = "inbox" => InboxTypeOK
    /\ part = "megolm" => MegolmTypeOK
    /\ part = "olm" => OlmTypeOK
    /\ part = "supply" => SupplyTypeOK
    /\ part = "log" => LogTypeOK
    /\ part = "retention" => RetentionTypeOK
    /\ part = "typing" => TypingTypeOK
    /\ part = "startup" => StartupTypeOK
    /\ part = "membership" => MembershipTypeOK
=============================================================================
