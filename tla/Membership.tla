----------------------------- MODULE Membership -----------------------------
(***************************************************************************)
(* Who is in a room of the homeserver and who may decide about it          *)
(* (rooms.rs, http/rooms.rs, the power levels of store.rs, the restricted  *)
(* joins of spaces.rs).  One room, from its creation; every request is one *)
(* transaction on the writer connection, so a handler is one action.       *)
(*                                                                         *)
(* The room's join_rule column is set when the room is made and no later   *)
(* request writes it; m.room.join_rules only matters to a join when it is  *)
(* restricted.                                                             *)
(***************************************************************************)
EXTENDS Option, Integers, Functions

CONSTANTS
    People, Founder,      \* the users, and the one who creates the room
    InSpace,              \* the users joined to the space a restricted room allows
    PowerLevels,          \* the levels members write, and the two defaults
    Tunable,              \* the thresholds members change
    MaxPuts               \* bound: power level events after the first

Thresholds == {"users_default", "state_default", "kick", "ban", "invite"}

ASSUME MembershipAssumption ==
    /\ Founder \in People /\ None \notin {"join", "invite", "ban"}
    /\ Tunable \subseteq Thresholds
    /\ PowerLevels \subseteq Int /\ {0, 50, 100} \subseteq PowerLevels
    /\ MaxPuts \in Nat

VARIABLES
    membership,   \* room_members: join, invite, leave, ban, or None
    powers,       \* m.room.power_levels: users, and the thresholds that are written
    publicRoom,   \* the join_rule column
    restricted,   \* whether m.room.join_rules is restricted to InSpace
    puts,
    actor         \* who made the last request

memberVars == <<membership, powers, publicRoom, restricted, puts, actor>>

ScalarDefault(f) == IF f = "users_default" THEN 0 ELSE 50

\* power_levels_content: the founder has 100 and every threshold is written; a
\* group may let everyone invite.
MembershipInit ==
    /\ membership = [u \in People |-> IF u = Founder THEN "join" ELSE None]
    /\ publicRoom \in BOOLEAN
    /\ \E invite \in IF publicRoom THEN {50} ELSE {0, 50} :
           powers = [users |-> [u \in {Founder} |-> 100],
                     scalars |-> [f \in Thresholds |->
                                     IF f = "invite" THEN invite ELSE ScalarDefault(f)]]
    /\ restricted = FALSE /\ puts = 0 /\ actor = Founder

----------------------------------------------------------------------------
Scalar(pl, f) == IF f \in DOMAIN pl.scalars THEN pl.scalars[f] ELSE ScalarDefault(f)

\* user_level, event_level of a state event, can.
UserLevel(pl, u) == IF u \in DOMAIN pl.users THEN pl.users[u] ELSE Scalar(pl, "users_default")
MaySetState(pl, u) == UserLevel(pl, u) >= Scalar(pl, "state_default")
Can(pl, f, u) == UserLevel(pl, u) >= Scalar(pl, f)

\* Faulty variant of CanActOn: reaching the threshold is enough.
CanActOnAnyone(pl, f, by, u, leaving) ==
    (leaving /\ by = u) \/ Can(pl, f, by)

\* can_act_on: the threshold and a strictly higher level, or one's own leave.
CanActOn(pl, f, by, u, leaving) ==
    \/ leaving /\ by = u
    \/ Can(pl, f, by) /\ UserLevel(pl, by) > UserLevel(pl, u)

\* validate_power_levels_change: a threshold that changes, and a level that is
\* written, stay at or below the sender's; nobody else's listed level changes
\* when it is not below the sender's.
ValidChange(old, new, by) ==
    LET mine == UserLevel(old, by) IN
    /\ \A f \in DOMAIN old.scalars \cup DOMAIN new.scalars :
        Scalar(old, f) # Scalar(new, f) => Scalar(old, f) <= mine /\ Scalar(new, f) <= mine
    /\ \A u \in DOMAIN old.users \cup DOMAIN new.users :
        UserLevel(old, u) # UserLevel(new, u) =>
            /\ u = by \/ UserLevel(old, u) < mine
            /\ UserLevel(new, u) <= mine

----------------------------------------------------------------------------
Become(u, m) == membership' = [membership EXCEPT ![u] = m]

\* apply_invite.
InviteMember(by, u) ==
    /\ by # u /\ membership[by] = "join"
    /\ Can(powers, "invite", by)
    /\ membership[u] \in {None, "leave"}
    /\ Become(u, "invite") /\ actor' = by
    /\ UNCHANGED <<powers, publicRoom, restricted, puts>>

\* decide_and_apply_join.
JoinRoom(u) ==
    /\ \/ membership[u] = "invite"
       \/ membership[u] \in {None, "leave"} /\ (publicRoom \/ (restricted /\ u \in InSpace))
    /\ Become(u, "join") /\ actor' = u
    /\ UNCHANGED <<powers, publicRoom, restricted, puts>>

\* apply_leave: a member leaves or an invitation is turned down.
LeaveRoom(u) ==
    /\ membership[u] \in {"join", "invite"}
    /\ Become(u, "leave") /\ actor' = u
    /\ UNCHANGED <<powers, publicRoom, restricted, puts>>

\* apply_membership_power_action, for a kick, a ban and an unban.
PowerAction(by, u, f, from, to) ==
    /\ membership[by] = "join"
    /\ CanActOn(powers, f, by, u, to = "leave")
    /\ membership[u] \in from
    /\ Become(u, to) /\ actor' = by
    /\ UNCHANGED <<powers, publicRoom, restricted, puts>>

KickMember(by, u) == PowerAction(by, u, "kick", {"join", "invite"}, "leave")
BanMember(by, u) == PowerAction(by, u, "ban", {"join", "invite", "leave", "ban", None}, "ban")
UnbanMember(by, u) == PowerAction(by, u, "ban", {"ban"}, "leave")

\* forget_membership.
ForgetRoom(u) ==
    /\ membership[u] = "leave"
    /\ Become(u, None) /\ actor' = u
    /\ UNCHANGED <<powers, publicRoom, restricted, puts>>

\* The power level events a member may write: the stored one with one user's
\* entry taken out or written, or with one threshold changed.
WithoutUser(pl, u) == [pl EXCEPT !.users = Restrict(@, DOMAIN @ \ {u})]
WithUser(pl, u, level) ==
    [pl EXCEPT !.users = [v \in DOMAIN @ \cup {u} |-> IF v = u THEN level ELSE @[v]]]
WithThreshold(pl, f, level) == [pl EXCEPT !.scalars[f] = level]

Edited(pl) ==
    {WithoutUser(pl, u) : u \in People}
    \cup {WithUser(pl, u, level) : u \in People, level \in PowerLevels}
    \cup {WithThreshold(pl, f, level) : f \in Tunable, level \in PowerLevels}

\* apply_put_state of m.room.power_levels.
PutPowerLevels(by) ==
    /\ puts < MaxPuts /\ puts' = puts + 1
    /\ membership[by] = "join"
    /\ MaySetState(powers, by)
    /\ \E new \in Edited(powers) : ValidChange(powers, new, by) /\ powers' = new
    /\ actor' = by
    /\ UNCHANGED <<membership, publicRoom, restricted>>

\* apply_put_state of m.room.join_rules: the column stays as it was.
PutJoinRules(by) ==
    /\ membership[by] = "join"
    /\ MaySetState(powers, by)
    /\ restricted' = ~ restricted
    /\ actor' = by
    /\ UNCHANGED <<membership, powers, publicRoom, puts>>

MembershipNext ==
    \E u \in People :
        \/ JoinRoom(u) \/ LeaveRoom(u) \/ ForgetRoom(u) \/ PutPowerLevels(u) \/ PutJoinRules(u)
        \/ \E v \in People :
            InviteMember(u, v) \/ KickMember(u, v) \/ BanMember(u, v) \/ UnbanMember(u, v)

MembershipSpec == MembershipInit /\ [][MembershipNext]_memberVars

----------------------------------------------------------------------------
\* Shapes of the tables.
MembershipTypeOK ==
    /\ membership \in [People -> {"join", "invite", "leave", "ban", None}]
    /\ DOMAIN powers.users \subseteq People
    /\ Range(powers.users) \cup Range(powers.scalars) \subseteq PowerLevels

\* A user whose level another user's request takes from the default alone, before
\* and after it.
Unlisted(u) == u \notin DOMAIN powers.users \cup DOMAIN powers'.users

\* Authority flows down: a request never takes membership, an invitation or a
\* ban away from someone who is not below its sender, never changes the level of
\* such a user unless the user has it from users_default alone, and never
\* raises anyone above the sender.
AuthorityFlowsDown ==
    [][\A u \in People \ {actor'} :
           /\ UserLevel(powers, u) >= UserLevel(powers, actor') =>
                /\ membership[u] \in {"join", "invite", "ban"} => membership'[u] = membership[u]
                /\ UserLevel(powers', u) # UserLevel(powers, u) => Unlisted(u)
           /\ UserLevel(powers', u) > UserLevel(powers, u) =>
                UserLevel(powers', u) <= UserLevel(powers, actor')]_memberVars
=============================================================================
