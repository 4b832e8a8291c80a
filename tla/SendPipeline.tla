----------------------------- MODULE SendPipeline -----------------------------
(***************************************************************************)
(* The client's encrypted-send pipeline for one room: MessengerCore's      *)
(* begin_key_pipeline -> begin_keys_claim_or_share ->                      *)
(* begin_share_or_encrypt -> finish_encrypt_and_send, with the device      *)
(* tracker and the outbound half of the group session manager under it.    *)
(* Syncs, device resets and membership changes happen while a step's       *)
(* request is out; requests of the Other lane are answered in any order.   *)
(*                                                                         *)
(* A device is its id and the identity keys it has published: <<d, v>>.    *)
(* The homeserver's side (published, member) is the answer side of         *)
(* key_ops.rs; what it reports of members and device lists arrives with a  *)
(* sync.  The store and the outgoing queue survive a restart, the sends    *)
(* in progress do not; a crash while a handler's records are being written *)
(* keeps some of them.  A sync may bring a key request, answered in a room *)
(* whose history may be forwarded.  No caller ever sets `blocked`, so it   *)
(* is left out, as is the account's own second device, which is treated    *)
(* like any peer's.                                                        *)
(***************************************************************************)
EXTENDS Integers, FiniteSets, Sequences, Functions, Option

CONSTANTS
    Peers,          \* the other users of the room
    OwnerOf,        \* OwnerOf[d]: the peer whose device d is
    Txns,           \* transaction ids of the messages sent
    RotationMsgs,   \* m.room.encryption's rotation_period_msgs
    ChunkSize,      \* MAX_DEVICES_PER_SEND_TO_DEVICE_REQUEST
    MaxIdentity,    \* bound: identities a device publishes are 0..MaxIdentity
    MaxMishaps      \* bound: membership and device changes, key requests, refusals, crashes

\* OutboundGroupSessionRecord: the session, its next message index, its recipients
OutboundRecord == [id : Nat, index : Nat, shared : SUBSET DOMAIN OwnerOf]

ASSUME SendAssumption ==
    /\ RotationMsgs \in Nat \ {0} /\ ChunkSize \in Nat \ {0}
    /\ MaxIdentity \in Nat /\ MaxMishaps \in Nat
    /\ DOMAIN OwnerOf # {} /\ IsFiniteSet(DOMAIN OwnerOf)
    /\ \A d \in DOMAIN OwnerOf : OwnerOf[d] \in Peers
    /\ None \notin Int /\ None \notin OutboundRecord

VARIABLES
    member,      \* [Peers -> {"out", "invite", "join"}]: the room, on the server
    published,   \* [Devices -> identity, None or Gone]: the device_keys rows
    changes,     \* users whose list changed since the client's last sync
    joins,       \* users with a join event since the client's last sync
    roomView,    \* the membership the client has applied from its syncs
    tracked,     \* [Peers -> {"no", "outdated", "current"}]: tracked_users
    known,       \* SUBSET (device, identity): the stored device lists
    olm,         \* (device, identity) pairs with an Olm session
    outbound,    \* the outbound session record, or None
    sendQueue,   \* pending_sends: the room's FIFO, its front in progress
    sendState,   \* [Txns -> phase record or None]: send_state
    calls,       \* requests handed to the outgoing queue and not answered
    keysAt,      \* (session, index, device, identity): room keys delivered
    encrypted,   \* what was encrypted, with the pipeline's view at step 3
    missed,      \* (session, device): not sent the key though recorded as shared
    answered,    \* (session, (device, identity)): key requests answered
    overtaken,   \* (device, identity) sent a key, then undone by an older answer
    shareView,   \* the members and devices seen by the running send's step 3
    mishaps

sendVars == <<member, published, changes, joins, roomView, tracked, known, olm, outbound,
              sendQueue, sendState, calls, keysAt, encrypted, missed, answered, overtaken,
              shareView, mishaps>>
world == <<member, published, changes, joins>>

Devices == DOMAIN OwnerOf
Identities == 0..MaxIdentity
Gone == -1   \* a deleted device: its id is never minted again
Keyed == Devices \X Identities
\* encrypted_room_member_ids: everyone joined or invited in the client's view
Recipients(view) == {p \in Peers : view[p] \in {"join", "invite"}}
OfUsers(devs, us) == {k \in devs : OwnerOf[k[1]] \in us}

SendInit ==
    /\ member = [p \in Peers |-> "join"] /\ roomView = member
    /\ published \in [Devices -> {0, None}]
    /\ \A p \in Peers : \E d \in Devices : OwnerOf[d] = p /\ published[d] = 0
    /\ changes = {} /\ joins = {} /\ tracked = [p \in Peers |-> "no"]
    /\ known = {} /\ olm = {} /\ outbound = None
    /\ sendQueue = <<>> /\ sendState = [t \in Txns |-> None]
    /\ calls = {} /\ keysAt = {} /\ encrypted = {} /\ missed = {} /\ answered = {}
    /\ overtaken = {}
    /\ shareView = [users |-> {}, devices |-> {}]
    /\ mishaps = 0

-------------------------------------------------------------------------------
(* What a step of the pipeline works on, so that the steps that fall       *)
(* through to the next one in the same call compose as functions.          *)

Working == [tracked |-> tracked, known |-> known, olm |-> olm, out |-> outbound,
            queue |-> sendQueue, state |-> sendState, calls |-> calls,
            enc |-> encrypted, missed |-> missed, answered |-> answered,
            overtaken |-> overtaken, view |-> shareView]

Put(w) ==
    /\ tracked' = w.tracked /\ known' = w.known /\ olm' = w.olm /\ outbound' = w.out
    /\ sendQueue' = w.queue /\ sendState' = w.state /\ calls' = w.calls
    /\ encrypted' = w.enc /\ missed' = w.missed /\ answered' = w.answered
    /\ overtaken' = w.overtaken /\ shareView' = w.view

Mishaps(n) == mishaps + n <= MaxMishaps /\ mishaps' = mishaps + n
Mishap == Mishaps(1)

\* MessengerCore::open: the requests are read back, without the sends that own
\* them; an answer on its way to the old process is lost.
Reopened(cs) ==
    {IF c.kind = "query" THEN [c EXCEPT !.owner = None, !.answer = None]
     ELSE [c EXCEPT !.owner = None] : c \in cs}

\* What a crash leaves of a handler that would have ended in w.  persist writes a
\* batch record by record in the order of the keys: devices, the outbound session,
\* Olm sessions, tracked users; the answered request is deleted after them.  n of the
\* last three were written.  A request the handler queued is in a later batch than
\* what it rests on (seal_for_request); `kept` are the requests on disk.  A message
\* encrypted by the handler stays in `encrypted`, whether or not it can still leave.
Crashed(w, n, kept) ==
    [w EXCEPT !.olm = IF n >= 2 THEN @ ELSE olm,
              !.tracked = IF n >= 3 THEN @ ELSE tracked,
              !.queue = <<>>, !.state = [t \in Txns |-> None], !.calls = Reopened(kept),
              !.missed = @ \union UNION {{<<c.session, k>> : k \in c.to} :
                             c \in {c \in w.calls \ (calls \union kept) : c.kind = "share"}}]

\* A handler that ends in w, with m mishaps on the way: all of it is flushed before a
\* request leaves, or the process dies in the middle of the flush.
Handled(w, m) ==
    \/ Put(w) /\ Mishaps(m)
    \/ Mishaps(m + 1) /\ \E n \in 1..3 : Put(Crashed(w, n, calls))
    \/ /\ Mishaps(m + 1)
       /\ \E kept \in SUBSET (w.calls \ calls) :
            /\ kept # w.calls \ calls
            /\ Put(Crashed(w, 3, (calls \intersect w.calls) \union kept))

SetPhase(w, t, p) == [w EXCEPT !.state[t].phase = p]

Outdated(w) == {p \in Peers : w.tracked[p] = "outdated"}

Query(owner, users) == [kind |-> "query", owner |-> owner, users |-> users, answer |-> None]

\* begin_awaiting_send: the room event goes out from its cached wire body
AwaitSend(w, t) ==
    [SetPhase(w, t, "send") EXCEPT
        !.calls = @ \union {[kind |-> "send", owner |-> t, wire |-> w.state[t].wire]}]

\* encrypt_event: consume the next message index of the stored session
EncryptEvent(w, t) ==
    LET asked == {k \in Keyed : <<w.out.id, k>> \in w.answered}
        m == [txn |-> t, session |-> w.out.id, index |-> w.out.index,
              users |-> w.view.users, devices |-> w.view.devices,
              answered |-> asked, strays |-> {k \in asked : k[1] \notin w.out.shared}]
    IN [w EXCEPT !.out.index = @ + 1, !.enc = @ \union {m}]

\* finish_encrypt_and_send: the ciphertext is cached for any retry
EncryptAndSend(w, t) ==
    AwaitSend([EncryptEvent(w, t) EXCEPT !.state[t].wire = <<w.out.id, w.out.index>>], t)

\* Faulty variant of MustRotate: a recipient who left does not end the session.
MustRotateIgnoringLeavers(out, users, devices) ==
    \/ out = None
    \/ out.index >= RotationMsgs
    \/ \E d \in out.shared : OwnerOf[d] \in users /\ \A k \in devices : k[1] # d

\* ensure_outbound_session: when the current session is given up
MustRotate(out, users, devices) ==
    \/ out = None
    \/ out.index >= RotationMsgs
    \/ \E d \in out.shared : OwnerOf[d] \notin users
    \/ \E d \in out.shared : \A k \in devices : k[1] # d

\* The devices in some order: SetToSeq, without the weight of SequencesExt in the
\* proofs.
Enumeration(devs) == CHOOSE f \in [1 .. Cardinality(devs) -> devs] : IsInjective(f)

\* chunk_recipients_for_send_to_device
Chunks(devs) ==
    LET s == Enumeration(devs)
        n == Len(s)
    IN {{s[j] : j \in i..IF i + ChunkSize - 1 < n THEN i + ChunkSize - 1 ELSE n} :
            i \in {j \in 1..n : (j - 1) % ChunkSize = 0}}

\* ensure_outbound_session: the session to use, and who is not a recipient of it
Session(out, users, devices) ==
    IF MustRotate(out, users, devices)
    THEN [id |-> IF out = None THEN 1 ELSE out.id + 1, index |-> 0, shared |-> {}]
    ELSE out
NewRecipients(out, devices) == {k \in devices : k[1] \notin out.shared}

\* sessions_missing_for
SessionsMissing(w, devices) == devices \ w.olm

WithRecipients(out, new) == [out EXCEPT !.shared = @ \union {k[1] : k \in new}]

\* build_room_key_send_to_device_body, for each chunk of the recipients
ShareCalls(t, out, devs) ==
    {[kind |-> "share", owner |-> t, session |-> out.id, index |-> out.index, to |-> c] :
        c \in Chunks(devs)}

\* begin_share_or_encrypt: every new recipient is recorded as shared, the ones
\* with an Olm session are sent the key
Share(w, t) ==
    LET users == Recipients(roomView)
        devices == OfUsers(w.known, users)
        old == Session(w.out, users, devices)
        new == NewRecipients(old, devices)
        out == WithRecipients(old, new)
        sessioned == new \ SessionsMissing(w, new)
        shares == ShareCalls(t, out, sessioned)
    IN [w EXCEPT !.out = out, !.calls = @ \union shares,
                 !.missed = @ \union {<<out.id, k>> : k \in new \ sessioned},
                 !.view = [users |-> users, devices |-> devices],
                 !.state[t].pending = shares]
ShareOrEncrypt(w, t) ==
    LET x == Share(w, t)
    IN IF x.state[t].pending # {} THEN SetPhase(x, t, "share") ELSE EncryptAndSend(x, t)

\* begin_keys_claim_or_share
ClaimOrShare(w, t) ==
    LET missing == SessionsMissing(w, OfUsers(w.known, Recipients(roomView)))
    IN IF missing = {} THEN ShareOrEncrypt(w, t)
       ELSE [SetPhase(w, t, "claim") EXCEPT
                !.calls = @ \union {[kind |-> "claim", owner |-> t, devices |-> missing]}]

\* mark_outdated_or_untracked
MarkUntracked(w, users) ==
    [w EXCEPT !.tracked =
        [p \in Peers |-> IF p \in users /\ @[p] = "no" THEN "outdated" ELSE @[p]]]

\* begin_key_pipeline
KeyPipeline(w, t) ==
    LET users == Recipients(roomView)
        marked == MarkUntracked(w, users)
    IN IF \A p \in users : marked.tracked[p] = "current" THEN ClaimOrShare(w, t)
       ELSE [SetPhase(marked, t, "query") EXCEPT
                !.calls = @ \union {Query(t, Outdated(marked))}]

\* start_send_pipeline: a retry reuses its ciphertext
StartPipeline(w, t) ==
    IF w.state[t].wire # None THEN AwaitSend(w, t) ELSE KeyPipeline(w, t)

\* start_new_send / retry_send: join the room's FIFO, start at once if alone
Enqueue(w, t) ==
    LET q == [w EXCEPT !.queue = Append(@, t)]
    IN IF w.queue = <<>> THEN StartPipeline(q, t) ELSE q

\* finish_active_send: leave the FIFO and start the next send
Finish(w, t) ==
    LET q == SelectSeq(w.queue, LAMBDA u : u # t)
        x == [w EXCEPT !.queue = q]
    IN IF q = <<>> THEN x ELSE StartPipeline(x, Head(q))

-------------------------------------------------------------------------------
(* The user.                                                               *)

\* start_new_send
Send(t) ==
    /\ sendState[t] = None /\ \A m \in encrypted : m.txn # t
    /\ Handled(Enqueue([Working EXCEPT !.state[t] = [phase |-> "queued", wire |-> None,
                                                     pending |-> {}]], t), 0)
    /\ UNCHANGED <<world, roomView, keysAt>>

\* retry_send: a failed send again, with its ciphertext if it has one
RetrySend(t) ==
    /\ sendState[t] # None /\ sendState[t].phase = "failed"
    /\ Handled(Enqueue(SetPhase(Working, t, "queued"), t), 0)
    /\ UNCHANGED <<world, roomView, keysAt>>

-------------------------------------------------------------------------------
(* Responses.  A request leaves the queue when its answer is processed.    *)

Without(w, c) == [w EXCEPT !.calls = @ \ {c}]
\* The send a request belongs to, if it is still known to this process
Owned(w, c) == c.owner # None /\ w.state[c.owner] # None

\* peers_sharing_a_room_with: whom the server lets the caller see
Visible(p) == member[p] # "out"

\* The server answers /keys/query from the rows of the users the caller sees.
ServerAnswersQuery ==
    \E c \in calls :
        /\ c.kind = "query" /\ c.answer = None
        /\ calls' = (calls \ {c}) \union {[c EXCEPT !.answer =
               {k \in Keyed : /\ OwnerOf[k[1]] \in c.users
                              /\ Visible(OwnerOf[k[1]])
                              /\ published[k[1]] = k[2]}]}
        /\ UNCHANGED <<world, roomView, tracked, known, olm, outbound, sendQueue,
                       sendState, keysAt, encrypted, missed, answered, overtaken, shareView,
                       mishaps>>

\* Faulty variant of ForgetShared: a device that changed keys stays a recipient.
ForgetSharedNothing(out, devs) == out

\* forget_shared_device
ForgetShared(out, devs) ==
    IF out = None THEN None ELSE [out EXCEPT !.shared = @ \ devs]

\* The room keys on their way or delivered, as (session, index, device, identity)
KeysSent(cs) ==
    keysAt \union UNION {{<<c.session, c.index, k>> : k \in c.to} : c \in {c \in cs : c.kind = "share"}}

\* on_keys_query_response: the lists asked for are replaced and marked current;
\* a device whose keys changed is forgotten as a recipient of the session.
LearnDevices(w, c) ==
    LET changed == {k[1] : k \in {k \in w.known : \E a \in c.answer :
                                      a[1] = k[1] /\ a[2] # k[2]}}
        back == {a \in c.answer : /\ w.out # None /\ a[1] \in w.out.shared
                                  /\ \A k \in w.known : k[1] # a[1]}
    IN [w EXCEPT !.known = {k \in @ : OwnerOf[k[1]] \notin c.users} \union c.answer,
                 !.tracked = [p \in Peers |-> IF p \in c.users THEN "current" ELSE @[p]],
                 !.out = ForgetShared(@, changed),
                 !.missed = @ \union {<<w.out.id, a>> : a \in back},
                 !.overtaken = @ \union {k \in {x[3] : x \in KeysSent(w.calls)} :
                                  \E a \in c.answer : a[1] = k[1] /\ a[2] < k[2]}]

\* The key requests that may reach the client in state w: none, or one for a session
\* this device has created, from a stored device (decrypt_to_device refuses others).
KeyRequests(w) ==
    {{}} \union (IF w.out = None THEN {} ELSE {{r} : r \in (1..w.out.id) \X w.known})

\* process_to_device_event and answer_room_key_request: the letter opened, so there
\* is an Olm session with the asker; a member is sent the key from its first index,
\* and is not recorded as a recipient.  The request this queues belongs to no send,
\* and its answer changes nothing: the key counts as sent from here on.
AnswerKeyRequests(w, asks) ==
    [w EXCEPT !.olm = @ \union {r[2] : r \in asks},
              !.answered = @ \union {r \in asks : OwnerOf[r[2][1]] \in Recipients(roomView)}]

\* A crash after the device records of the users `us` in a /keys/query answer were
\* written and before forget_shared_device's change of the session: a device that
\* changed its keys stays a recorded recipient.
CrashedAfterDevices(w, c, us) ==
    LET part == [c EXCEPT !.users = us, !.answer = OfUsers(@, us)]
        x == LearnDevices(w, part)
        unforgotten == {a \in part.answer : w.out # None /\ a[1] \in w.out.shared \ x.out.shared}
    IN [Crashed([x EXCEPT !.out = w.out], 1, calls) EXCEPT
            !.missed = @ \union {<<w.out.id, a>> : a \in unforgotten}]

KeysQueryDone ==
    \E c \in calls :
        /\ c.kind = "query" /\ c.answer # None
        /\ LET w == Without(Working, c)
               learned == LearnDevices(w, c)
           IN \/ \E asks \in KeyRequests(learned) :   \* retry_unknown_sender_queue
                    LET x == AnswerKeyRequests(learned, asks)
                    IN Handled(IF Owned(x, c) THEN ClaimOrShare(x, c.owner) ELSE x,
                               Cardinality(asks))
              \/ Mishap /\ \E us \in SUBSET c.users : Put(CrashedAfterDevices(w, c, us))
        /\ UNCHANGED <<world, roomView, keysAt>>

\* on_keys_claim_response: a session with each device that had a key left; a key
\* signed by an identity other than the stored one is refused.
KeysClaimDone ==
    \E c \in calls :
        /\ c.kind = "claim"
        /\ LET w == Without(Working, c)
               open == {k \in c.devices : /\ published[k[1]] = k[2]
                                          /\ Visible(OwnerOf[k[1]])}
           IN \E got \in SUBSET open :
                Handled(IF Owned(w, c)
                        THEN ShareOrEncrypt([w EXCEPT !.olm = @ \union got], c.owner)
                        ELSE w, 0)
        /\ UNCHANGED <<world, roomView, keysAt>>

\* A share was accepted; the last one of the running send encrypts the message.
ShareDone ==
    \E c \in calls :
        /\ c.kind = "share"
        /\ keysAt' = keysAt \union {<<c.session, c.index, k>> : k \in c.to}
        /\ LET w == Without(Working, c)
               waiting == Owned(w, c) /\ w.state[c.owner].phase = "share"
               rest == w.state[c.owner].pending \ {c}
           IN Handled(IF ~waiting THEN w
                      ELSE IF rest # {} THEN [w EXCEPT !.state[c.owner].pending = rest]
                      ELSE EncryptAndSend([w EXCEPT !.state[c.owner].pending = {}], c.owner), 0)
        /\ UNCHANGED <<world, roomView>>

\* complete_send_success
SendDone ==
    \E c \in calls :
        /\ c.kind = "send"
        /\ LET w == Without(Working, c)
           IN Handled(IF Owned(w, c) THEN Finish([w EXCEPT !.state[c.owner] = None], c.owner)
                      ELSE w, 0)
        /\ UNCHANGED <<world, roomView, keysAt>>

\* A non-retryable 4xx: fail_send for the send that owns the request.
RequestRefused ==
    \E c \in calls :
        /\ LET w == [Without(Working, c) EXCEPT !.missed =
                       IF c.kind = "share" THEN @ \union {<<c.session, k>> : k \in c.to} ELSE @]
           IN Handled(IF Owned(w, c) THEN Finish(SetPhase(w, c.owner, "failed"), c.owner)
                      ELSE w, 1)
        /\ UNCHANGED <<world, roomView, keysAt>>

\* MessengerCore::open after a crash between two handlers: the store and the queued
\* requests are read back; send_state, pending_sends and send_request_owner start
\* empty.
Restart ==
    /\ Mishap
    /\ sendQueue' = <<>> /\ sendState' = [t \in Txns |-> None] /\ calls' = Reopened(calls)
    /\ UNCHANGED <<world, roomView, tracked, known, olm, outbound, keysAt, encrypted,
                   missed, answered, overtaken, shareView>>

\* device_list_delta: what the server reports of device lists in a sync window
Changed == {p \in changes : Visible(p)} \union {p \in Peers : roomView[p] = "out" /\ Visible(p)}
Left == {p \in Peers : roomView[p] # "out" /\ ~Visible(p)}

\* on_device_lists
OnDeviceLists(tr, changed, left) ==
    [p \in Peers |-> CASE p \in changed -> "outdated"
                       [] p \in left /\ tr[p] # "no" -> "current"
                       [] OTHER -> tr[p]]

\* track_joined_members
TrackJoined(tr) == OnDeviceLists(tr, joins, {})

\* ingest_sync: the key requests among the to-device messages (step 1), device_lists
\* (2), the first keys query (4), the rooms (5) and, when they brought new members,
\* the second query (5b).  The token is written last: a sync cut short by a crash is
\* read again.
Sync ==
    LET listed == OnDeviceLists(tracked, Changed, Left)
        roomed == TrackJoined(listed)
        first == {p \in Peers : listed[p] = "outdated"}
        second == {p \in Peers : roomed[p] = "outdated"}
    IN \E asks \in KeyRequests(Working) :
       /\ changes # {} \/ joins # {} \/ roomView # member \/ asks # {}
       /\ Mishaps(Cardinality(asks))
       /\ Put([AnswerKeyRequests(Working, asks) EXCEPT
                !.tracked = roomed,
                !.calls = @ \union (IF first # {} THEN {Query(None, first)} ELSE {})
                            \union (IF ~(second \subseteq first) THEN {Query(None, second)} ELSE {})])
       /\ roomView' = member /\ changes' = {} /\ joins' = {}
       /\ UNCHANGED <<member, published, keysAt>>

-------------------------------------------------------------------------------
(* The world: the other members and their devices.                         *)

MemberMoves(p) ==
    /\ Mishap
    /\ \E s \in {"out", "invite", "join"} :
        /\ s # member[p] /\ ~(member[p] = "join" /\ s = "invite")
        /\ member' = [member EXCEPT ![p] = s]
        /\ joins' = IF s = "join" THEN joins \union {p} ELSE joins
    /\ UNCHANGED <<published, changes, roomView, tracked, known, olm, outbound, sendQueue,
                   sendState, calls, keysAt, encrypted, missed, answered, overtaken,
                   shareView>>

\* upsert_device_keys (a new device, or an authenticated identity reset) and
\* delete_device: each logs a device-list change for the owner.
DeviceMoves(d) ==
    /\ Mishap
    /\ \E v \in Identities \union {Gone} :
        /\ IF published[d] = None THEN v = 0
           ELSE published[d] # Gone /\ (v = Gone \/ v > published[d])
        /\ published' = [published EXCEPT ![d] = v]
    /\ changes' = changes \union {OwnerOf[d]}
    /\ UNCHANGED <<member, joins, roomView, tracked, known, olm, outbound, sendQueue,
                   sendState, calls, keysAt, encrypted, missed, answered, overtaken,
                   shareView>>

SendNext ==
    \/ \E t \in Txns : Send(t) \/ RetrySend(t)
    \/ ServerAnswersQuery \/ KeysQueryDone \/ KeysClaimDone \/ ShareDone \/ SendDone
    \/ RequestRefused \/ Restart \/ Sync
    \/ \E p \in Peers : MemberMoves(p)
    \/ \E d \in Devices : DeviceMoves(d)

SendSpec == SendInit /\ [][SendNext]_sendVars

-------------------------------------------------------------------------------
(* Properties.                                                             *)

SendTypeOK ==
    /\ member \in [Peers -> {"out", "invite", "join"}] /\ roomView \in [Peers -> {"out", "invite", "join"}]
    /\ published \in [Devices -> Identities \union {None, Gone}]
    /\ tracked \in [Peers -> {"no", "outdated", "current"}]
    /\ known \subseteq Keyed /\ olm \subseteq Keyed
    /\ outbound = None \/ (outbound \in OutboundRecord /\ outbound.index <= RotationMsgs)
    /\ \A i \in 1..Len(sendQueue) : sendState[sendQueue[i]] # None

\* A room key reaches only the members it is meant for: whoever was sent a key that
\* opens a message was a member of the room, in the sender's view, when the message
\* passed the key-sharing step.  A key a send shared is excepted when the identity it
\* was sent to has since been replaced or deleted, or an older /keys/query answer was
\* applied after it: forget_shared_device takes such a device out of the session's
\* recipients.  A key sent to answer a key request covers the messages encrypted after
\* the answer (the earlier ones are what was asked for), and is excepted when the
\* device was not a recorded recipient when the message was encrypted: the answer does
\* not record it, so its leaving does not end the session.  It rests on the session
\* rotating when a recipient leaves, over shares still in the queue of sends that
\* failed and of an earlier process.
KeysStayWithMembers ==
    \A m \in encrypted :
        /\ \A x \in keysAt :
            x[1] = m.session /\ x[2] <= m.index =>
                \/ OwnerOf[x[3][1]] \in m.users
                \/ published[x[3][1]] # x[3][2]
                \/ x[3] \in overtaken
        /\ \A k \in m.answered : OwnerOf[k[1]] \in m.users \/ k \in m.strays

\* A message is never encrypted before its recipients' keys are on their way:
\* every device of a member known at the key-sharing step was sent a key that
\* opens it, or the request is still queued, or it is one of the recorded
\* exceptions: it had no Olm session left to claim; its share was refused; its id was
\* still a recorded recipient when it came back with a list that an answer applied
\* out of order had emptied; or a crash in the middle of a flush kept the session
\* record that names it and lost the share, or kept its changed identity and lost the
\* change to the session record.
RecipientsCanRead ==
    \A m \in encrypted : \A k \in m.devices :
        \/ \E x \in keysAt : x[1] = m.session /\ x[2] <= m.index /\ x[3] = k
        \/ \E c \in calls : c.kind = "share" /\ c.session = m.session /\ c.index <= m.index /\ k \in c.to
        \/ <<m.session, k>> \in missed
===============================================================================
