------------------------------- MODULE Startup -------------------------------
(***************************************************************************)
(* Starting, handing over and stopping the mailbox daemon (src/lib.rs):    *)
(* the control token (control.rs), the first-boot operator and its key     *)
(* file (bootstrap.rs), the listener, the handoff and the exit.  Several   *)
(* daemons of one user share the database, the two files and the address;  *)
(* a successor is started while its predecessor still serves.              *)
(*                                                                         *)
(* Every daemon has its own control token, and the operator's secret is    *)
(* named by the daemon that minted it.                                     *)
(***************************************************************************)
EXTENDS Option, Naturals, FiniteSets

CONSTANTS Daemons, MaxStartFaults   \* one element per start of the daemon; bound

ASSUME StartupAssumption == MaxStartFaults \in Nat /\ {None, "torn"} \cap Daemons = {}

VARIABLES
    stage,       \* where each start is
    operator,    \* the secret the registered operator authenticates with, or None
    keyFile,     \* the secret in operator-key.raw, "torn" or None
    pickedUp,    \* secrets the operator took and whose file they removed
    tokenFile,   \* the daemon whose token is in control.token, or None
    draining,    \* the daemons that refuse new mail
    orphaned,    \* secrets whose daemon died between minting and writing them
    eclipsed,    \* daemons whose token a later start replaced, or which wrote it
                 \* while an exit was about to remove its own
    startFaults

startVars == <<stage, operator, keyFile, pickedUp, tokenFile, draining, orphaned, eclipsed, startFaults>>

At(s) == {d \in Daemons : stage[d] = s}
Listening == At("serving") \cup At("handing")
Running == {d \in Daemons : stage[d] \notin {"new", "over"}}
Go(d, s) == stage' = [stage EXCEPT ![d] = s]

StartupInit ==
    /\ stage = [d \in Daemons |-> "new"]
    /\ operator = None /\ keyFile = None /\ pickedUp = {} /\ tokenFile = None
    /\ draining = {} /\ orphaned = {} /\ eclipsed = {} /\ startFaults = 0

----------------------------------------------------------------------------
\* Control::create writes a fresh token over whatever the file holds, before
\* the operator is looked up and the address is bound.
CreateControl(d) ==
    /\ stage[d] = "new"
    /\ Go(d, "controlled")
    /\ tokenFile' = d
    /\ eclipsed' = eclipsed \cup (Running \cap {tokenFile})
                            \cup (IF At("dropping") = {} THEN {} ELSE {d})
    /\ UNCHANGED <<operator, keyFile, pickedUp, draining, orphaned, startFaults>>

\* ensure_bootstrap_operator: nothing to do once an operator is registered.
OperatorLookup(d) ==
    /\ stage[d] = "controlled"
    /\ Go(d, IF operator = None THEN "unregistered" ELSE "bootstrapped")
    /\ UNCHANGED <<operator, keyFile, pickedUp, tokenFile, draining, orphaned, eclipsed, startFaults>>

\* Faulty variant of KeyPathIsFree: the key file is not looked at before minting.
KeyPathIsFreeUnchecked == TRUE

\* The check before minting.
KeyPathIsFree == keyFile = None

CheckKeyPath(d) ==
    /\ stage[d] = "unregistered"
    /\ Go(d, IF KeyPathIsFree THEN "minting" ELSE "failing")
    /\ UNCHANGED <<operator, keyFile, pickedUp, tokenFile, draining, orphaned, eclipsed, startFaults>>

\* register_participant: a second start that got as far finds the id taken.
MintOperator(d) ==
    /\ stage[d] = "minting"
    /\ IF operator = None
       THEN operator' = d /\ Go(d, "writing")
       ELSE UNCHANGED operator /\ Go(d, "failing")
    /\ UNCHANGED <<keyFile, pickedUp, tokenFile, draining, orphaned, eclipsed, startFaults>>

\* write_key_file_fresh: create_new refuses a file that is there.
WriteKeyFile(d) ==
    /\ stage[d] = "writing"
    /\ IF keyFile = None
       THEN keyFile' = d /\ Go(d, "bootstrapped")
       ELSE UNCHANGED keyFile /\ Go(d, "failing")
    /\ UNCHANGED <<operator, pickedUp, tokenFile, draining, orphaned, eclipsed, startFaults>>

\* TcpListener::bind: one daemon at a time has the address.
BindListener(d) ==
    /\ stage[d] = "bootstrapped"
    /\ Go(d, IF Listening = {} THEN "serving" ELSE "failing")
    /\ UNCHANGED <<operator, keyFile, pickedUp, tokenFile, draining, orphaned, eclipsed, startFaults>>

\* POST /control/drain, by a caller who read the daemon's token from the file.
ControlDrain(d, on) ==
    /\ d \in Listening /\ tokenFile = d
    /\ draining' = IF on THEN draining \cup {d} ELSE draining \ {d}
    /\ UNCHANGED <<stage, operator, keyFile, pickedUp, tokenFile, orphaned, eclipsed, startFaults>>

\* POST /control/handoff: drain, and release the listener after a while.
ControlHandoff(d) ==
    /\ stage[d] = "serving" /\ tokenFile = d
    /\ draining' = draining \cup {d}
    /\ Go(d, "handing")
    /\ UNCHANGED <<operator, keyFile, pickedUp, tokenFile, orphaned, eclipsed, startFaults>>

\* The handoff's delay is over, or a shutdown signal arrives.
ReleaseListener(d) ==
    /\ d \in Listening
    /\ Go(d, "releasing")
    /\ UNCHANGED <<operator, keyFile, pickedUp, tokenFile, draining, orphaned, eclipsed, startFaults>>

----------------------------------------------------------------------------
\* Faulty variant of OwnsTokenFile: an exit removes the file whoever wrote it.
OwnsTokenFileUnchecked(d) == tokenFile # None

\* Drop reads the file and compares it with its own token...
OwnsTokenFile(d) == tokenFile = d

DropReadsToken(d) ==
    /\ stage[d] \in {"releasing", "failing"}
    /\ Go(d, IF OwnsTokenFile(d) THEN "dropping" ELSE "over")
    /\ draining' = draining \ {d}
    /\ UNCHANGED <<operator, keyFile, pickedUp, tokenFile, orphaned, eclipsed, startFaults>>

\* ... and removes whatever is there by then.
DropRemovesToken(d) ==
    /\ stage[d] = "dropping"
    /\ Go(d, "over")
    /\ tokenFile' = None
    /\ UNCHANGED <<operator, keyFile, pickedUp, draining, orphaned, eclipsed, startFaults>>

Fault == startFaults < MaxStartFaults /\ startFaults' = startFaults + 1

\* A write that did not finish leaves no file, or one without the secret; a file
\* that was there is not touched.
LeaveTornKey ==
    keyFile' \in IF keyFile = None THEN {None, "torn"} ELSE {keyFile}

\* The process is killed: nothing is dropped.  A secret not yet written is lost
\* with it.
DaemonKilled(d) ==
    /\ Fault
    /\ d \in Running
    /\ Go(d, "over")
    /\ draining' = draining \ {d}
    /\ IF stage[d] = "writing"
       THEN orphaned' = orphaned \cup {d} /\ LeaveTornKey
       ELSE UNCHANGED <<orphaned, keyFile>>
    /\ UNCHANGED <<operator, pickedUp, tokenFile, eclipsed>>

\* The key file cannot be written: the start fails with the operator registered.
WriteKeyFileFails(d) ==
    /\ Fault
    /\ stage[d] = "writing"
    /\ Go(d, "failing")
    /\ orphaned' = orphaned \cup {d}
    /\ LeaveTornKey
    /\ UNCHANGED <<operator, pickedUp, tokenFile, draining, eclipsed>>

\* The operator takes the secret, if there is one, and removes the file.
PickUpKey ==
    /\ keyFile # None
    /\ pickedUp' = pickedUp \cup ({keyFile} \cap Daemons)
    /\ keyFile' = None
    /\ UNCHANGED <<stage, operator, tokenFile, draining, orphaned, eclipsed, startFaults>>

\* With no daemon up, the database is replaced by an empty one.
ReplaceDatabase ==
    /\ Fault
    /\ Running = {}
    /\ operator' = None
    /\ UNCHANGED <<stage, keyFile, pickedUp, tokenFile, draining, orphaned, eclipsed>>

StartupNext ==
    \/ PickUpKey \/ ReplaceDatabase
    \/ \E d \in Daemons :
        \/ CreateControl(d) \/ OperatorLookup(d) \/ CheckKeyPath(d) \/ MintOperator(d)
        \/ WriteKeyFile(d) \/ WriteKeyFileFails(d) \/ BindListener(d)
        \/ ControlHandoff(d) \/ ReleaseListener(d) \/ DropReadsToken(d) \/ DropRemovesToken(d)
        \/ DaemonKilled(d)
        \/ \E on \in BOOLEAN : ControlDrain(d, on)

StartupSpec == StartupInit /\ [][StartupNext]_startVars

----------------------------------------------------------------------------
\* Shapes, and at most one daemon has the address.
StartupTypeOK ==
    /\ {operator, tokenFile} \subseteq Daemons \cup {None}
    /\ keyFile \in Daemons \cup {None, "torn"}
    /\ draining \subseteq Listening \cup At("releasing")
    /\ Cardinality(Listening) <= 1

\* The operator in the database is someone: its secret is in the key file, was
\* picked up from it, or is about to be written, whichever starts raced and
\* whatever file an earlier database left behind; only a start that died or
\* could not write between minting and writing leaves an operator nobody can be.
OperatorCanSignIn ==
    operator # None =>
        \/ keyFile = operator \/ operator \in pickedUp
        \/ stage[operator] = "writing" \/ operator \in orphaned

\* The daemon that serves can be drained and handed over: the token file holds
\* its token unless a later start replaced it, or an exit that had just
\* found its own token there removed the new one.
ServingIsControllable ==
    \A d \in Listening : tokenFile = d \/ d \in eclipsed
=============================================================================
