-------------------------- MODULE MembershipProofs --------------------------
(***************************************************************************)
(* Authority in a room, for every set of users and of levels and for any   *)
(* number of power level events.                                           *)
(***************************************************************************)
EXTENDS Membership, TLAPS

\* What a stored m.room.power_levels looks like.
PowerContent ==
    [users : UNION {[S -> PowerLevels] : S \in SUBSET People}, scalars : [Thresholds -> PowerLevels]]

\* The inductive invariant.
RoomOK ==
    /\ powers \in PowerContent
    /\ DOMAIN membership = People /\ membership = [u \in People |-> membership[u]]

(* Every level such an event gives is one of the levels, an integer. *)
LEMMA LevelsAreIntegers ==
    ASSUME NEW pl \in PowerContent
    PROVE  /\ \A u \in People : UserLevel(pl, u) \in Int
           /\ \A f \in Thresholds : Scalar(pl, f) \in Int
<1>1. PICK S \in SUBSET People : pl.users \in [S -> PowerLevels]
  BY DEF PowerContent
<1>2. pl.scalars \in [Thresholds -> PowerLevels]
  BY DEF PowerContent
<1>3. \A f \in Thresholds : Scalar(pl, f) \in Int
  BY <1>2, MembershipAssumption DEF Scalar
<1>4. \A u \in People : UserLevel(pl, u) \in Int
  BY <1>1, <1>3, MembershipAssumption DEF UserLevel, Thresholds
<1> QED
  BY <1>3, <1>4

(* The event a room is created with is one. *)
LEMMA FirstRoomOK ==
    ASSUME MembershipInit
    PROVE  RoomOK
<1>1. PICK invite \in {0, 50} :
          powers = [users |-> [u \in {Founder} |-> 100],
                    scalars |-> [f \in Thresholds |->
                                    IF f = "invite" THEN invite ELSE ScalarDefault(f)]]
  BY DEF MembershipInit
<1>2. [u \in {Founder} |-> 100] \in UNION {[S -> PowerLevels] : S \in SUBSET People}
  <2>1. {Founder} \in SUBSET People
    BY MembershipAssumption
  <2>2. [u \in {Founder} |-> 100] \in [{Founder} -> PowerLevels]
    BY MembershipAssumption
  <2> QED
    BY <2>1, <2>2
<1>3. [f \in Thresholds |-> IF f = "invite" THEN invite ELSE ScalarDefault(f)]
          \in [Thresholds -> PowerLevels]
  BY MembershipAssumption DEF ScalarDefault
<1> QED
  BY <1>1, <1>2, <1>3 DEF RoomOK, PowerContent, MembershipInit

(* An edit of one is one: whatever entry or threshold a member writes. *)
LEMMA EditsAreWellFormed ==
    ASSUME NEW pl \in PowerContent, NEW new \in Edited(pl)
    PROVE  new \in PowerContent
<1>1. PICK S \in SUBSET People : pl.users \in [S -> PowerLevels]
  BY DEF PowerContent
<1>2. ASSUME NEW u \in People
      PROVE  WithoutUser(pl, u) \in PowerContent
  <2>1. Restrict(pl.users, DOMAIN pl.users \ {u}) \in [S \ {u} -> PowerLevels]
    BY <1>1 DEF Restrict
  <2>2. S \ {u} \in SUBSET People
    OBVIOUS
  <2> QED
    BY <2>1, <2>2 DEF PowerContent, WithoutUser
<1>3. ASSUME NEW u \in People, NEW level \in PowerLevels
      PROVE  WithUser(pl, u, level) \in PowerContent
  <2>1. [v \in DOMAIN pl.users \cup {u} |-> IF v = u THEN level ELSE pl.users[v]]
            \in [S \cup {u} -> PowerLevels]
    BY <1>1
  <2>2. S \cup {u} \in SUBSET People
    OBVIOUS
  <2> QED
    BY <2>1, <2>2 DEF PowerContent, WithUser
<1>4. ASSUME NEW f \in Tunable, NEW level \in PowerLevels
      PROVE  WithThreshold(pl, f, level) \in PowerContent
  BY MembershipAssumption DEF PowerContent, WithThreshold
<1> QED
  BY <1>2, <1>3, <1>4 DEF Edited

(* Every request keeps the stored event well formed. *)
LEMMA RoomStep ==
    ASSUME RoomOK, [MembershipNext]_memberVars
    PROVE  RoomOK'
<1>1. CASE UNCHANGED <<powers, membership>>
  BY <1>1 DEF RoomOK
<1>2. ASSUME NEW u \in People, NEW m, UNCHANGED powers, Become(u, m)
      PROVE  RoomOK'
  BY <1>2 DEF RoomOK, Become
<1>3. ASSUME NEW u \in People, PutPowerLevels(u)
      PROVE  RoomOK'
  BY <1>3, EditsAreWellFormed DEF RoomOK, PutPowerLevels
<1> QED
  BY <1>1, <1>2, <1>3 DEF MembershipNext, memberVars, JoinRoom, LeaveRoom, ForgetRoom,
     PutJoinRules, InviteMember, KickMember, BanMember, UnbanMember, PowerAction

\* What AuthorityFlowsDown says of one step.
FlowsDown ==
    \A u \in People \ {actor'} :
        /\ UserLevel(powers, u) >= UserLevel(powers, actor') =>
            /\ membership[u] \in {"join", "invite", "ban"} => membership'[u] = membership[u]
            /\ UserLevel(powers', u) # UserLevel(powers, u) => Unlisted(u)
        /\ UserLevel(powers', u) > UserLevel(powers, u) =>
            UserLevel(powers', u) <= UserLevel(powers, actor')

(* A request that leaves the levels alone and changes at most the membership of
   its sender, of someone outside the room or of someone below the sender. *)
LEMMA MembershipStepFlowsDown ==
    ASSUME RoomOK, UNCHANGED powers, NEW by \in People, actor' = by, NEW u \in People,
           NEW to, Become(u, to),
           \/ u = by
           \/ membership[u] \in {None, "leave"}
           \/ UserLevel(powers, by) > UserLevel(powers, u)
    PROVE  FlowsDown
<1>1. \A v \in People : UserLevel(powers, v) \in Int
  BY LevelsAreIntegers DEF RoomOK
<1>2. \A v \in People \ {u} : membership'[v] = membership[v]
  BY DEF Become, RoomOK
<1>3. ~ UserLevel(powers, by) > UserLevel(powers, u) /\ u # by
          => membership[u] \notin {"join", "invite", "ban"}
  BY MembershipAssumption
<1> QED
  BY <1>1, <1>2, <1>3 DEF FlowsDown

(* A power level event that validate_power_levels_change accepts. *)
LEMMA PowerStepFlowsDown ==
    ASSUME RoomOK, NEW by \in People, PutPowerLevels(by)
    PROVE  FlowsDown
<1>1. PICK new \in Edited(powers) : ValidChange(powers, new, by) /\ powers' = new
  BY DEF PutPowerLevels
<1>2. actor' = by /\ membership' = membership
  BY DEF PutPowerLevels
<1>3. powers \in PowerContent /\ new \in PowerContent
  BY <1>1, EditsAreWellFormed DEF RoomOK
<1>4. \A v \in People : UserLevel(powers, v) \in Int /\ UserLevel(new, v) \in Int
  BY <1>3, LevelsAreIntegers
<1>5. ASSUME NEW u \in People \ {by}, u \in DOMAIN powers.users \cup DOMAIN new.users,
             UserLevel(powers, u) # UserLevel(new, u)
      PROVE  UserLevel(powers, u) < UserLevel(powers, by)
             /\ UserLevel(new, u) <= UserLevel(powers, by)
  BY <1>1, <1>5 DEF ValidChange
<1>6. ASSUME NEW u \in People \ {by}, u \notin DOMAIN powers.users \cup DOMAIN new.users,
             UserLevel(powers, u) # UserLevel(new, u)
      PROVE  UserLevel(new, u) <= UserLevel(powers, by)
  <2>1. Scalar(powers, "users_default") # Scalar(new, "users_default")
    BY <1>6 DEF UserLevel
  <2>2. "users_default" \in DOMAIN powers.scalars
    BY <1>3 DEF PowerContent, Thresholds
  <2> QED
    BY <1>1, <1>6, <2>1, <2>2 DEF ValidChange, UserLevel
<1>7. ASSUME NEW u \in People \ {by}
      PROVE  /\ UserLevel(powers, u) >= UserLevel(powers, by)
                   /\ UserLevel(new, u) # UserLevel(powers, u)
                 => u \notin DOMAIN powers.users \cup DOMAIN new.users
             /\ UserLevel(new, u) > UserLevel(powers, u)
                 => UserLevel(new, u) <= UserLevel(powers, by)
  BY <1>4, <1>5, <1>6
<1> QED
  BY <1>1, <1>2, <1>7 DEF FlowsDown, Unlisted

(* Every request of every member. *)
LEMMA RequestsFlowDown ==
    ASSUME RoomOK, MembershipNext
    PROVE  FlowsDown
<1>1. ASSUME NEW u \in People, JoinRoom(u) \/ LeaveRoom(u) \/ ForgetRoom(u)
      PROVE  FlowsDown
  BY <1>1, MembershipStepFlowsDown DEF JoinRoom, LeaveRoom, ForgetRoom
<1>2. ASSUME NEW u \in People, PutPowerLevels(u)
      PROVE  FlowsDown
  BY <1>2, PowerStepFlowsDown
<1>3. ASSUME NEW u \in People, PutJoinRules(u)
      PROVE  FlowsDown
  BY <1>3, LevelsAreIntegers DEF PutJoinRules, FlowsDown, RoomOK
<1>4. ASSUME NEW u \in People, NEW v \in People, InviteMember(u, v)
      PROVE  FlowsDown
  BY <1>4, MembershipStepFlowsDown DEF InviteMember
<1>5. ASSUME NEW u \in People, NEW v \in People, NEW f, NEW from, NEW to,
             PowerAction(u, v, f, from, to)
      PROVE  FlowsDown
  BY <1>5, MembershipStepFlowsDown DEF PowerAction, CanActOn
<1> QED
  BY <1>1, <1>2, <1>3, <1>4, <1>5 DEF MembershipNext, KickMember, BanMember, UnbanMember

(* The stored power level event is well formed for ever. *)
LEMMA RoomOKHolds == MembershipSpec => []RoomOK
<1>1. MembershipInit => RoomOK
  BY FirstRoomOK
<1>2. RoomOK /\ [MembershipNext]_memberVars => RoomOK'
  BY RoomStep
<1> QED
  BY <1>1, <1>2, PTL DEF MembershipSpec

(* Authority flows down (store.rs, rooms.rs): no sequence of joins, invitations,
   kicks, bans and power level events lets a request touch a user who is not below
   its sender, or raise anyone above the sender, whatever the levels and the
   thresholds are; only a level held from users_default alone may be moved by an
   equal or a lower sender. *)
THEOREM AuthorityFlowsDownHolds == MembershipSpec => AuthorityFlowsDown
<1>1. RoomOK /\ [MembershipNext]_memberVars => [FlowsDown]_memberVars
  BY RequestsFlowDown
<1>2. MembershipSpec => [][FlowsDown]_memberVars
  BY <1>1, RoomOKHolds, PTL DEF MembershipSpec
<1> QED
  BY <1>2 DEF AuthorityFlowsDown, FlowsDown
=============================================================================
