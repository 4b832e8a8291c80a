----------------------------- MODULE RoomKeyInbox -----------------------------
(***************************************************************************)
(* The receiving side of room keys on one device: to-device messages are   *)
(* decrypted or kept until their sender's device is known, room keys are   *)
(* merged into inbound sessions, timeline events are decrypted or kept     *)
(* pending, and missing sessions are asked for.  core.rs (ingest_sync and  *)
(* what it calls), group_sessions.rs and the decrypting half of            *)
(* olm_sessions.rs.                                                        *)
(*                                                                         *)
(* Two senders: the author of every event, and a room admin who may        *)
(* forward the author's sessions.  A room key is its session and the       *)
(* first message index it opens.  No code of the repository sends          *)
(* m.room_key.withheld, so it is left out.                                 *)
(***************************************************************************)
EXTENDS Integers, FiniteSets, Sequences, SequencesExt, Option

CONSTANTS
    Timeline,       \* the events the author sends: a sequence of [session, index]
    RetryCapacity,  \* UNKNOWN_SENDER_RETRY_CAPACITY
    MaxMail,        \* bound: to-device messages sent to this device
    MaxInboxFaults  \* bound: failed ingests, refused queries, restarts

ASSUME InboxAssumption ==
    /\ RetryCapacity \in Nat \ {0} /\ MaxMail \in Nat /\ MaxInboxFaults \in Nat
    /\ \A e \in 1..Len(Timeline) : Timeline[e].index \in Nat

VARIABLES
    mail,          \* to-device messages on the server, in stream order
    eventCount,    \* how much of Timeline the server holds
    mailPos,       \* to-device messages behind the saved sync token
    eventPos,      \* events behind the saved sync token
    lists,         \* [Senders -> {"no", "outdated", "current"}]: tracked device lists
    devicesOf,     \* senders whose device is in the store
    queryOut,      \* a keys query is out
    claimOut,      \* senders a one-time-key claim is out for
    claimTried,    \* history_claim_tried
    sessionsWith,  \* senders there is an Olm session with
    olmUsed,       \* mail already decrypted once: Olm refuses it a second time
    retryQueue,    \* unknown_sender_retry
    inbound,       \* [Sessions -> record or None]: stored inbound sessions
    pendingDecrypt,\* events kept for another attempt
    shown,         \* events this process has decrypted
    asked,         \* key_requests_sent
    requests,      \* key requests on the server, not yet seen by the author
    lostRetry,     \* sessions whose arrival a failed ingest forgot to follow up
    inboxFaults

inboxVars == <<mail, eventCount, mailPos, eventPos, lists, devicesOf, queryOut, claimOut,
               claimTried, sessionsWith, olmUsed, retryQueue, inbound, pendingDecrypt,
               shown, asked, requests, lostRetry, inboxFaults>>

Senders == {"author", "admin"}
Sessions == {Timeline[e].session : e \in 1..Len(Timeline)}

InboxInit ==
    /\ mail = <<>> /\ eventCount = 0 /\ mailPos = 0 /\ eventPos = 0
    /\ lists = [s \in Senders |-> "no"] /\ devicesOf = {} /\ queryOut = FALSE
    /\ claimOut = {} /\ claimTried = {} /\ sessionsWith = {} /\ olmUsed = {}
    /\ retryQueue = <<>> /\ inbound = [s \in Sessions |-> None]
    /\ pendingDecrypt = {} /\ shown = {} /\ asked = {} /\ requests = {}
    /\ lostRetry = {} /\ inboxFaults = 0

-------------------------------------------------------------------------------
(* The client's state as a record, so that the steps of one call compose.  *)

Here == [lists |-> lists, dev |-> devicesOf, olmUsed |-> olmUsed, with |-> sessionsWith, retry |-> retryQueue,
         inb |-> inbound, pend |-> pendingDecrypt, shown |-> shown, asked |-> asked,
         req |-> requests, claim |-> claimOut, tried |-> claimTried, newly |-> {}]

Keep(h) ==
    /\ lists' = h.lists /\ devicesOf' = h.dev /\ olmUsed' = h.olmUsed /\ sessionsWith' = h.with
    /\ retryQueue' = h.retry /\ inbound' = h.inb /\ pendingDecrypt' = h.pend
    /\ shown' = h.shown /\ asked' = h.asked /\ requests' = h.req
    /\ claimOut' = h.claim /\ claimTried' = h.tried

InboxFault == inboxFaults < MaxInboxFaults /\ inboxFaults' = inboxFaults + 1

\* Faulty variant of Merge: the later share replaces the stored session.
MergeOverwriting(old, first, bound) ==
    [first |-> first, bound |-> bound, replay |-> <<>>]

\* merge_inbound_session: a share is taken when it is new, or opens more than
\* the stored session does and comes from the sender that one is bound to.
Merge(old, first, bound) ==
    IF old = None THEN [first |-> first, bound |-> bound, replay |-> <<>>]
    ELSE IF first < old.first /\ bound = old.bound THEN [old EXCEPT !.first = first]
    ELSE old

\* forward_binding: whom a forwarded session is bound to, None to drop it
ForwardBinding(h) == IF "author" \in h.dev THEN "author" ELSE None

\* receive_room_key (always followed up) / receive_forwarded_room_key (only when
\* it improved the store)
ReceiveKey(h, m) ==
    LET bound == IF m.kind = "key" THEN m.from ELSE ForwardBinding(h)
        merged == Merge(h.inb[m.session], m.index, bound)
    IN IF bound = None THEN h
       ELSE [h EXCEPT !.inb[m.session] = merged,
                      !.newly = IF m.kind = "key" \/ merged # h.inb[m.session]
                                THEN @ \union {m.session} ELSE @]

\* queue_unknown_sender_retry: the oldest falls out when the queue is full
QueueRetry(h, i) ==
    LET q == Append(h.retry, i)
    IN [h EXCEPT !.retry = IF Len(q) > RetryCapacity THEN Tail(q) ELSE q]

\* decrypt_to_device + process_to_device_event for the mail at position i
ProcessToDevice(h, i) ==
    LET m == mail[i]
    IN IF m.from \notin h.dev
       THEN QueueRetry([h EXCEPT !.lists[m.from] = "outdated"], i)
       ELSE IF i \in h.olmUsed THEN h
       ELSE ReceiveKey([h EXCEPT !.olmUsed = @ \union {i}, !.with = @ \union {m.from}], m)

ProcessAll(h, is) == FoldLeft(ProcessToDevice, h, is)

\* request_missing_room_key: once per process; devices there is no Olm session
\* with are claimed first, once, and the request waits for the claim.
RequestKey(h, s) ==
    LET missing == (h.dev \ h.with) \ h.tried
    IN IF s \in h.asked \/ h.dev = {} THEN h
       ELSE IF missing # {} THEN [h EXCEPT !.tried = @ \union missing, !.claim = @ \union missing]
       ELSE IF h.dev \intersect h.with = {} THEN h
       ELSE [h EXCEPT !.asked = @ \union {s},
                      !.req = @ \union {<<s, to>> : to \in h.dev \intersect h.with}]

\* Faulty variant of Opens: the replay record is not consulted.
OpensReplayed(h, e) ==
    LET r == h.inb[Timeline[e].session]
    IN r # None /\ r.first <= Timeline[e].index /\ r.bound = "author"

\* decrypt_event's checks: the session is there, reaches back to the index, is
\* bound to the sender, and the index has not opened another event.
Opens(h, e) ==
    LET r == h.inb[Timeline[e].session]
        i == Timeline[e].index
    IN /\ r # None /\ r.first <= i /\ r.bound = "author"
       /\ \A x \in 1..Len(r.replay) : r.replay[x][1] = i => r.replay[x][2] = e

\* decrypt_new_timeline_events / retry_decrypt_one for one event
Decrypt(h, e) ==
    LET s == Timeline[e].session
        entry == <<Timeline[e].index, e>>
        r == h.inb[s].replay
    IN IF Opens(h, e)
       THEN [h EXCEPT !.inb[s].replay = IF \E x \in 1..Len(r) : r[x] = entry THEN r
                                        ELSE SortSeq(Append(r, entry), LAMBDA a, b : a[2] < b[2]),
                      !.shown = @ \union {e}, !.pend = @ \ {e}]
       ELSE [IF h.inb[s] = None THEN RequestKey(h, s) ELSE h EXCEPT !.pend = @ \union {e}]

DecryptAll(h, es) ==
    FoldLeft(Decrypt, h, SelectSeq([e \in 1..Len(Timeline) |-> e], LAMBDA e : e \in es))

\* Faulty variant of RetryPending: only what arrives later is decrypted.
RetryPendingNothing(h) == h

\* retry_pending_for_session, for every session that was just received
RetryPending(h) ==
    DecryptAll(h, {e \in h.pend : Timeline[e].session \in h.newly})

-------------------------------------------------------------------------------
(* The client's actions.                                                   *)

NewMail == [i \in 1..Len(mail) - mailPos |-> mailPos + i]

\* ingest_sync: to-device, then the keys query, then the rooms' events, then what
\* the new sessions open; the token moves last.
InboxSync ==
    /\ mailPos < Len(mail) \/ eventPos < eventCount
    /\ LET a == ProcessAll(Here, NewMail)
           b == DecryptAll(a, eventPos + 1..eventCount)
       IN /\ Keep(RetryPending(b))
          /\ queryOut' = (queryOut \/ \E s \in Senders : a.lists[s] = "outdated")
    /\ mailPos' = Len(mail) /\ eventPos' = eventCount
    /\ UNCHANGED <<mail, eventCount, lostRetry, inboxFaults>>

\* The same, ending in an error while the rooms are applied: the to-device part
\* stays, the token does not move, the sessions to follow up are forgotten.
IngestFails ==
    /\ InboxFault
    /\ mailPos < Len(mail) /\ eventPos < eventCount
    /\ LET a == ProcessAll(Here, NewMail)
       IN /\ Keep(a)
          /\ queryOut' = (queryOut \/ \E s \in Senders : a.lists[s] = "outdated")
          /\ lostRetry' = lostRetry \union a.newly
    /\ UNCHANGED <<mail, eventCount, mailPos, eventPos>>

\* on_keys_query_response, then retry_unknown_sender_queue: the queue is taken
\* whole and processed again
QueryAnswered ==
    /\ queryOut /\ queryOut' = FALSE
    /\ LET out == {s \in Senders : lists[s] = "outdated"}
           h == [Here EXCEPT !.dev = @ \union out, !.retry = <<>>,
                             !.lists = [s \in Senders |-> IF s \in out THEN "current" ELSE @[s]]]
       IN Keep(RetryPending(ProcessAll(h, retryQueue)))
    /\ UNCHANGED <<mail, eventCount, mailPos, eventPos, lostRetry, inboxFaults>>

\* The server refuses the query: the users stay outdated until the next sync.
QueryRefused ==
    /\ InboxFault /\ queryOut /\ queryOut' = FALSE
    /\ Keep(Here)
    /\ UNCHANGED <<mail, eventCount, mailPos, eventPos, lostRetry>>

\* on_keys_claim_response for a history claim, then retry_missing_room_keys
ClaimAnswered ==
    /\ claimOut # {}
    /\ \E got \in SUBSET claimOut :
        Keep(DecryptAll([Here EXCEPT !.claim = {}, !.with = @ \union got], pendingDecrypt))
    /\ UNCHANGED <<mail, eventCount, mailPos, eventPos, queryOut, lostRetry, inboxFaults>>

\* decrypt_loaded_timeline, at the start of every drive
DecryptLoaded ==
    /\ Keep(DecryptAll(Here, pendingDecrypt)) /\ lostRetry' = {}
    /\ UNCHANGED <<mail, eventCount, mailPos, eventPos, queryOut, inboxFaults>>

\* ingest_room_messages_response: a page of history, events seen before included
BackPage ==
    /\ eventPos > 0 /\ Keep(DecryptAll(Here, 1..eventPos))
    /\ UNCHANGED <<mail, eventCount, mailPos, eventPos, queryOut, lostRetry, inboxFaults>>

\* A crash: the store and the saved token are kept, the rest is memory only.
InboxRestart ==
    /\ InboxFault
    /\ Keep([Here EXCEPT !.retry = <<>>, !.pend = {}, !.shown = {}, !.asked = {},
                         !.claim = {}, !.tried = {}])
    /\ lostRetry' = {}
    /\ UNCHANGED <<mail, eventCount, mailPos, eventPos, queryOut>>

-------------------------------------------------------------------------------
(* The other side: the author posts events and shares keys, at the index   *)
(* the session has reached; the author and the admin answer key requests   *)
(* with what they hold (the author from index 0, the admin from index 1).  *)

Mail(m) == Len(mail) < MaxMail /\ mail' = Append(mail, m)

AuthorPosts ==
    /\ eventCount < Len(Timeline) /\ eventCount' = eventCount + 1
    /\ UNCHANGED <<mail, mailPos, eventPos, lists, devicesOf, queryOut, claimOut, claimTried,
                   sessionsWith, olmUsed, retryQueue, inbound, pendingDecrypt, shown, asked,
                   requests, lostRetry, inboxFaults>>

AuthorShares ==
    /\ \E s \in Sessions :
        LET sent == {e \in 1..eventCount : Timeline[e].session = s}
            index == IF sent = {} THEN 0 ELSE 1 + Max({Timeline[e].index : e \in sent})
        IN Mail([from |-> "author", kind |-> "key", session |-> s, index |-> index])
    /\ UNCHANGED <<eventCount, mailPos, eventPos, lists, devicesOf, queryOut, claimOut,
                   claimTried, sessionsWith, olmUsed, retryQueue, inbound, pendingDecrypt,
                   shown, asked, requests, lostRetry, inboxFaults>>

\* answer_room_key_request
AnswerRequest ==
    \E q \in requests :
        /\ requests' = requests \ {q}
        /\ Mail([from |-> q[2], kind |-> "forward", session |-> q[1],
                 index |-> IF q[2] = "author" THEN 0 ELSE 1])
        /\ UNCHANGED <<eventCount, mailPos, eventPos, lists, devicesOf, queryOut, claimOut,
                       claimTried, sessionsWith, olmUsed, retryQueue, inbound, pendingDecrypt,
                       shown, asked, lostRetry, inboxFaults>>

\* ingest_sync's device_lists: a sender becomes tracked, or its list changed
ListChanges ==
    \E s \in Senders :
        /\ lists[s] = "no" /\ lists' = [lists EXCEPT ![s] = "outdated"] /\ queryOut' = TRUE
        /\ UNCHANGED <<mail, eventCount, mailPos, eventPos, devicesOf, claimOut, claimTried,
                       sessionsWith, olmUsed, retryQueue, inbound, pendingDecrypt, shown,
                       asked, requests, lostRetry, inboxFaults>>

InboxNext ==
    \/ InboxSync \/ IngestFails \/ QueryAnswered \/ QueryRefused \/ ClaimAnswered
    \/ DecryptLoaded \/ BackPage \/ InboxRestart
    \/ AuthorPosts \/ AuthorShares \/ AnswerRequest \/ ListChanges

InboxSpec == InboxInit /\ [][InboxNext]_inboxVars

-------------------------------------------------------------------------------
(* Properties.                                                             *)

InboxTypeOK ==
    /\ lists \in [Senders -> {"no", "outdated", "current"}]
    /\ Len(retryQueue) <= RetryCapacity
    /\ pendingDecrypt \subseteq 1..eventPos /\ shown \subseteq 1..eventPos
    /\ \A s \in Sessions : inbound[s] # None =>
          inbound[s].first \in Nat /\ inbound[s].bound \in Senders

\* An event never stays undecryptable once the device holds a key that opens it,
\* in whatever order keys, device lists and events arrive: every path that stores
\* a session follows it up - except an ingest that failed after storing it, until
\* the next drive.
ReadableIsRead ==
    \A e \in pendingDecrypt :
        Opens(Here, e) => Timeline[e].session \in lostRetry

\* One message index authenticates one event: two events with the same ciphertext
\* (a resend the server stored twice) are never both shown, before or after a
\* restart, whichever page brings them.
OneEventPerIndex ==
    \A e, f \in shown :
        Timeline[e].session = Timeline[f].session /\ Timeline[e].index = Timeline[f].index => e = f

\* A stored inbound session only improves: it never loses reach, changes the
\* sender it is bound to, or forgets which event an index opened.
SessionsOnlyImprove ==
    [][\A s \in Sessions : inbound[s] # None =>
          /\ inbound'[s] # None
          /\ inbound'[s].first <= inbound[s].first
          /\ inbound'[s].bound = inbound[s].bound
          /\ \A x \in ToSet(inbound[s].replay) : x \in ToSet(inbound'[s].replay)]_inboxVars
===============================================================================
