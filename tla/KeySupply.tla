------------------------------ MODULE KeySupply ------------------------------
(***************************************************************************)
(* One device's supply of one-time and fallback keys: the Olm account that *)
(* makes and holds them (crypto/account.rs over vodozemac's account), the  *)
(* uploads waiting in the outgoing queue, the homeserver's key tables      *)
(* (keys.rs, key_ops.rs) and the first letters of the devices that claimed *)
(* a key.                                                                  *)
(*                                                                         *)
(* Keys are numbered in the order they are generated.  An upload stays in  *)
(* the queue until it is answered; it is sent again when the answer is     *)
(* lost, and one that backs off may be overtaken by a later one.           *)
(***************************************************************************)
EXTENDS Option, Integers, FiniteSets

CONSTANTS
    OtkTarget,      \* one_time_key_target (25 in the code)
    MaxOtks,        \* bound: one-time keys ever generated
    MaxFallbacks,   \* bound: fallback keys ever generated
    MaxUploads,     \* bound: uploads waiting at once
    MaxLetters      \* bound: letters on their way at once

ASSUME SupplyAssumption ==
    OtkTarget \in Nat /\ MaxOtks \in Nat /\ MaxFallbacks \in Nat
    /\ MaxUploads \in Nat /\ MaxLetters \in Nat /\ None \notin Nat

VARIABLES
    account,    \* the Olm account's keys
    uploads,    \* keys/upload requests waiting for their answer
    offered,    \* the homeserver's one_time_keys and fallback_keys rows
    counts,     \* the counts of a /sync answer on its way, or None
    letters,    \* pre-key messages on their way: the key each one claimed
    lost,       \* the claimed keys of letters that could not be opened
    resent,     \* one-time keys the server was given again after a claim
    given,      \* fallback keys the server was ever given
    unsent      \* fallback keys marked published by another upload's answer

supplyVars == <<account, uploads, offered, counts, letters, lost, resent, given, unsent>>

SupplyInit ==
    /\ account = [nextOtk |-> 0, unpublished |-> {}, private |-> {},
                  nextFb |-> 0, fallback |-> None, previous |-> None, fbPublished |-> TRUE]
    /\ uploads = {}
    /\ offered = [otks |-> {}, claimed |-> {}, fallback |-> None, used |-> FALSE]
    /\ counts = None
    /\ letters = {} /\ lost = {} /\ resent = {} /\ given = {} /\ unsent = {}

----------------------------------------------------------------------------
\* OneTimeKeys::generate.
GenerateOtks(a, n) ==
    LET new == a.nextOtk .. a.nextOtk + n - 1
    IN  [a EXCEPT !.nextOtk = @ + n, !.unpublished = @ \cup new, !.private = @ \cup new]

\* Faulty variant of RemoveSecretKey: a key whose upload is not answered stays
\* in the unpublished ones.
RemoveSecretKeyOnly(a, k) == [a EXCEPT !.private = @ \ {k}]

\* OneTimeKeys::remove_secret_key.
RemoveSecretKey(a, k) == [a EXCEPT !.private = @ \ {k}, !.unpublished = @ \ {k}]

\* Faulty variant of GenerateFallback: the key it replaces is not kept.
GenerateFallbackAlone(a) ==
    [a EXCEPT !.nextFb = @ + 1, !.previous = None, !.fallback = a.nextFb,
              !.fbPublished = FALSE]

\* FallbackKeys::generate_fallback_key: the replaced key is kept, the one
\* before it is dropped.
GenerateFallback(a) ==
    [a EXCEPT !.nextFb = @ + 1, !.previous = a.fallback, !.fallback = a.nextFb,
              !.fbPublished = FALSE]

UnpublishedFallback(a) == IF a.fbPublished THEN None ELSE a.fallback

\* on_sync_counts: top up when nothing generated still waits to be uploaded.
OnSyncCounts(a, c) ==
    LET topped == IF a.unpublished = {} /\ c.otks < OtkTarget
                  THEN GenerateOtks(a, OtkTarget - c.otks) ELSE a
    IN  IF ~ c.unusedFallback /\ UnpublishedFallback(topped) = None
        THEN GenerateFallback(topped) ELSE topped

\* keys_upload_request: whatever is unpublished now.
KeysUpload(a) == [otks |-> a.unpublished, fallback |-> UnpublishedFallback(a), taken |-> FALSE]

\* ingest_sync, step 3: the account is topped up, and an upload of everything
\* unpublished is queued even when an earlier one is still waiting.
SyncCountsArrive ==
    /\ counts # None
    /\ LET a == OnSyncCounts(account, counts)
           u == KeysUpload(a)
       IN  /\ a.nextOtk <= MaxOtks /\ a.nextFb <= MaxFallbacks
           /\ account' = a
           /\ uploads' = IF u.otks = {} /\ u.fallback = None THEN uploads
                         ELSE uploads \cup {u}
           /\ Cardinality(uploads') <= MaxUploads
    /\ counts' = None
    /\ UNCHANGED <<offered, letters, lost, resent, given, unsent>>

\* on_keys_upload_response: every key unpublished NOW counts as published.
UploadAnswered ==
    \E u \in uploads :
        /\ u.taken
        /\ account' = [account EXCEPT !.unpublished = {}, !.fbPublished = TRUE]
        /\ unsent' = IF UnpublishedFallback(account) \in {None, u.fallback} THEN unsent
                     ELSE unsent \cup {account.fallback}
        /\ uploads' = uploads \ {u}
        /\ UNCHANGED <<offered, counts, letters, lost, resent, given>>

\* The first letter of a device that claimed key k: the session is created, and
\* a one-time key is removed from the account, only if the account holds it.
LetterArrives ==
    \E l \in letters :
        LET held == IF l.fallback THEN l.key \in {account.fallback, account.previous}
                    ELSE l.key \in account.private
        IN  /\ letters' = letters \ {l}
            /\ lost' = IF held THEN lost ELSE lost \cup {l}
            /\ account' = IF l.fallback THEN account
                          ELSE RemoveSecretKey(account, l.key)
            /\ UNCHANGED <<uploads, offered, counts, resent, given, unsent>>

----------------------------------------------------------------------------
\* apply_keys_upload: keys not in the table are inserted, whether or not they
\* were there before; the fallback key replaces the one stored and is unused.
\* The upload may have been taken before: its answer was lost.
ServerTakesUpload ==
    \E u \in uploads :
        /\ offered' = [offered EXCEPT
               !.otks = @ \cup u.otks,
               !.fallback = IF u.fallback = None THEN @ ELSE u.fallback,
               !.used = @ /\ u.fallback = None]
        /\ resent' = resent \cup (u.otks \cap offered.claimed)
        /\ given' = given \cup ({u.fallback} \ {None})
        /\ uploads' = (uploads \ {u}) \cup {[u EXCEPT !.taken = TRUE]}
        /\ UNCHANGED <<account, counts, letters, lost, unsent>>

\* The counts a /sync answer reports.
ServerCounts ==
    /\ counts = None
    /\ counts' = [otks |-> Cardinality(offered.otks),
                  unusedFallback |-> offered.fallback # None /\ ~ offered.used]
    /\ UNCHANGED <<account, uploads, offered, letters, lost, resent, given, unsent>>

\* Faulty variant of ClaimOneTimeKey: the key handed out is read, not deleted.
ClaimOneTimeKeyReading ==
    /\ Cardinality(letters) < MaxLetters
    /\ \E k \in offered.otks :
        /\ letters' = letters \cup {[key |-> k, fallback |-> FALSE]}
        /\ offered' = [offered EXCEPT !.claimed = @ \cup {k}]
    /\ UNCHANGED <<account, uploads, counts, lost, resent, given, unsent>>

\* claim_one_time_key: the first key by the text of its id, which is any of them
\* here, is deleted and handed out.
ClaimOneTimeKey ==
    /\ Cardinality(letters) < MaxLetters
    /\ \E k \in offered.otks :
        /\ letters' = letters \cup {[key |-> k, fallback |-> FALSE]}
        /\ offered' = [offered EXCEPT !.otks = @ \ {k}, !.claimed = @ \cup {k}]
    /\ UNCHANGED <<account, uploads, counts, lost, resent, given, unsent>>

\* With none left the fallback key is handed out, marked used and kept.
ClaimFallbackKey ==
    /\ Cardinality(letters) < MaxLetters
    /\ offered.otks = {} /\ offered.fallback # None
    /\ letters' = letters \cup {[key |-> offered.fallback, fallback |-> TRUE]}
    /\ offered' = [offered EXCEPT !.used = TRUE]
    /\ UNCHANGED <<account, uploads, counts, lost, resent, given, unsent>>

SupplyNext ==
    \/ SyncCountsArrive \/ UploadAnswered \/ LetterArrives \/ ServerTakesUpload
    \/ ServerCounts \/ ClaimOneTimeKey \/ ClaimFallbackKey

SupplySpec == SupplyInit /\ [][SupplyNext]_supplyVars

----------------------------------------------------------------------------
\* Shapes of the account and of the key tables.
SupplyTypeOK ==
    /\ account.unpublished \subseteq account.private
    /\ account.private \subseteq 0 .. account.nextOtk - 1
    /\ {account.fallback, account.previous} \subseteq {None} \cup 0 .. account.nextFb - 1
    /\ offered.otks \subseteq 0 .. account.nextOtk - 1
    /\ offered.fallback \in {None} \cup 0 .. account.nextFb - 1

\* Every key the homeserver can hand out is one the device still holds, through
\* top-ups, lost answers and overtaken uploads, except a one-time key uploaded
\* again after its claim, a fallback key put back by an overtaken upload, and
\* one whose successor was marked published by the answer to an upload that did
\* not carry it.
KeysOnOfferAreHeld ==
    /\ offered.otks \subseteq account.private \cup resent
    /\ offered.fallback # None =>
        \/ offered.fallback \in {account.fallback, account.previous}
        \/ \E g \in given : g > offered.fallback
        \/ offered.fallback + 1 \in unsent

\* A letter under a one-time key opens unless that key had been uploaded again
\* after a claim; one under a fallback key opens unless two newer ones were
\* generated before it arrived.
ClaimedKeysOpen ==
    \A l \in lost :
        IF l.fallback THEN l.key + 1 < account.nextFb - 1 ELSE l.key \in resent
=============================================================================
