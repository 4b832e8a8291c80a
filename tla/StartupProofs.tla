--------------------------- MODULE StartupProofs ---------------------------
(***************************************************************************)
(* What holds of the daemon's start, handoff and exit for any number of    *)
(* starts and of faults.                                                   *)
(***************************************************************************)
EXTENDS Startup, TLAPS

Stages ==
    {"new", "controlled", "unregistered", "minting", "writing", "bootstrapped", "serving",
     "handing", "releasing", "failing", "dropping", "over"}

\* The stages of a start that may come to serve, or serves.
OnItsWay ==
    {"controlled", "unregistered", "minting", "writing", "bootstrapped", "serving", "handing"}

\* The inductive invariant.  A minter finds the key path as free as it was when it
\* looked, unless an operator has been registered since; a start keeps the token
\* it wrote, or is recorded as eclipsed, from its first step on, and a token
\* written while an exit is about to remove its own is recorded.
StartInv ==
    /\ stage \in [Daemons -> Stages]
    /\ operator \in Daemons \cup {None} /\ tokenFile \in Daemons \cup {None}
    /\ keyFile \in Daemons \cup {None, "torn"}
    /\ \A d, e \in Listening : d = e
    /\ \A d \in Daemons :
        /\ stage[d] = "minting" /\ operator = None => keyFile = None
        /\ stage[d] = "writing" => operator = d /\ keyFile = None
        /\ stage[d] \in OnItsWay => tokenFile = d \/ d \in eclipsed
        /\ stage[d] = "dropping" => tokenFile \in {d, None} \cup eclipsed
    /\ OperatorCanSignIn

(* The invariant holds before the first start. *)
LEMMA StartInvInit ==
    ASSUME StartupInit
    PROVE  StartInv
BY StartupAssumption
   DEF StartupInit, StartInv, Stages, OnItsWay, Listening, At, OperatorCanSignIn

(* Every step of every daemon and of the operator keeps it. *)
LEMMA StartInvStep ==
    ASSUME StartInv, [StartupNext]_startVars
    PROVE  StartInv'
<1> USE StartupAssumption
<1> USE DEF StartInv, Stages, OnItsWay, Listening, At, OperatorCanSignIn, Go
<1>1. CASE PickUpKey
  BY <1>1 DEF PickUpKey
<1>2. CASE ReplaceDatabase
  BY <1>2 DEF ReplaceDatabase, Running
<1>3. ASSUME NEW d \in Daemons, CreateControl(d)
      PROVE  StartInv'
  BY <1>3 DEF CreateControl, Running
<1>4. ASSUME NEW d \in Daemons, OperatorLookup(d)
      PROVE  StartInv'
  BY <1>4 DEF OperatorLookup
<1>5. ASSUME NEW d \in Daemons, CheckKeyPath(d)
      PROVE  StartInv'
  BY <1>5 DEF CheckKeyPath, KeyPathIsFree
<1>6. ASSUME NEW d \in Daemons, MintOperator(d)
      PROVE  StartInv'
  BY <1>6 DEF MintOperator
<1>7. ASSUME NEW d \in Daemons, WriteKeyFile(d)
      PROVE  StartInv'
  BY <1>7 DEF WriteKeyFile
<1>8. ASSUME NEW d \in Daemons, WriteKeyFileFails(d)
      PROVE  StartInv'
  BY <1>8 DEF WriteKeyFileFails, LeaveTornKey, Fault
<1>9. ASSUME NEW d \in Daemons, BindListener(d)
      PROVE  StartInv'
  BY <1>9 DEF BindListener
<1>10. ASSUME NEW d \in Daemons, NEW on \in BOOLEAN, ControlDrain(d, on)
       PROVE  StartInv'
  BY <1>10 DEF ControlDrain
<1>11. ASSUME NEW d \in Daemons, ControlHandoff(d)
       PROVE  StartInv'
  BY <1>11 DEF ControlHandoff
<1>12. ASSUME NEW d \in Daemons, ReleaseListener(d)
       PROVE  StartInv'
  BY <1>12 DEF ReleaseListener
<1>13. ASSUME NEW d \in Daemons, DropReadsToken(d)
       PROVE  StartInv'
  BY <1>13 DEF DropReadsToken, OwnsTokenFile
<1>14. ASSUME NEW d \in Daemons, DropRemovesToken(d)
       PROVE  StartInv'
  BY <1>14 DEF DropRemovesToken
<1>15. ASSUME NEW d \in Daemons, DaemonKilled(d)
       PROVE  StartInv'
  BY <1>15 DEF DaemonKilled, LeaveTornKey, Fault, Running
<1>16. CASE UNCHANGED startVars
  BY <1>16 DEF startVars
<1> QED
  BY <1>1, <1>2, <1>3, <1>4, <1>5, <1>6, <1>7, <1>8, <1>9, <1>10, <1>11, <1>12, <1>13,
     <1>14, <1>15, <1>16 DEF StartupNext

(* The inductive invariant is an invariant. *)
LEMMA StartInvHolds == StartupSpec => []StartInv
<1>1. StartupInit => StartInv
  BY StartInvInit
<1>2. StartInv /\ [StartupNext]_startVars => StartInv'
  BY StartInvStep
<1> QED
  BY <1>1, <1>2, PTL DEF StartupSpec

(* The operator in the database is someone (bootstrap.rs): whichever starts race
   and whatever key file an earlier database left behind, its secret is written,
   picked up or about to be written, unless its own start died or could not write
   the file between minting and writing. *)
THEOREM OperatorCanSignInHolds == StartupSpec => []OperatorCanSignIn
<1>1. StartInv => OperatorCanSignIn
  BY DEF StartInv
<1> QED
  BY <1>1, StartInvHolds, PTL

(* The daemon that serves can be drained and handed over (control.rs): the token
   file holds its token unless a later start replaced it, or an exit that was
   about to remove its own token took it away. *)
THEOREM ServingIsControllableHolds == StartupSpec => []ServingIsControllable
<1>1. StartInv => ServingIsControllable
  BY DEF StartInv, ServingIsControllable, Listening, At, OnItsWay
<1> QED
  BY <1>1, StartInvHolds, PTL
=============================================================================
