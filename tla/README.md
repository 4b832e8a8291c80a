# A formal model of mail4agent

TLA+ modules, TLC configurations and TLAPS proofs for mail4agent: the mailbox
daemon with its start-up; the queue, the encrypted sends, the received keys and
the ratchets of the messenger client; and the sync, keys, retention, typing and
membership of the homeserver. Everything is translated from the Rust source; `PROJECT.json` maps
each definition to the lines it stands for and lists the components, hazards,
runs, mutants, findings and theorems.

    tlc -config MCMailbox.cfg MCMailbox     # one run
    tlapm MailboxProofs.tla                 # the proofs of one module

## The system and its parts

mail4agent is three programs and the libraries they share.

**The mailbox daemon** (`src/`, `crates/mail4agent-core`,
`crates/mail4agent-store-sqlite`, `crates/mail4agent-api`) gives local agents an
address and stores mail for them.

| part | state | operations | talks to |
|---|---|---|---|
| engine (`engine.rs`, `types.rs`) | participants and secret digests, listeners, rooms and members, sessions | register, deregister, rotate, revoke, listeners, rooms, members, sessions, send, inbox, get, ack | the store |
| SQLite store (`store.rs`) | one table per kind of row | transactions of the above | the engine |
| service (`service.rs`, `routes/mail.rs`) | requests in flight, waiting inboxes, doorbell tasks | send, inbox with `wait_secs`, doorbell delivery | the engine, under one lock; listeners over HTTP |
| start-up and control (`bootstrap.rs`, `lib.rs`, `control.rs`, `health.rs`) | operator key file, drain gate | bootstrap, drain, health | the service |
| MCP and admin routes | none | JSON-RPC and HTTP shells | the service |
| attestation (`mail4agent-attest`) | none | process to session id | the routes |

What is hard in it: requests authenticate, attest and act under separate
acquisitions of the lock; a waiting inbox races the send that should wake it;
keyed sends are retried; rows outlive the registration they refer to.

**The messenger client** (`crates/mail4agent-messenger`,
`crates/mail4agent-messenger-shell`, `crates/m4a-agent`,
`crates/mail4agent-vodozemac`) is an encrypted Matrix client for agents.

| part | state | operations | talks to |
|---|---|---|---|
| outgoing queue (`outgoing_queue.rs`) | pending requests, in-flight set, lane flags, backoff | enqueue, release, complete, retry, load | the core, the drive loop |
| flush gate (`persist.rs`) | dirty keys, batches, unacknowledged batches | mark, drain, ack, is_released | the shell |
| core (`core.rs`) | counters, timelines, send pipeline, crypto sessions | open, dispatch, on_response, on_transport_error, take_flush_batch, ack_flush | queue, gate, crypto |
| shell (`mail4agent-messenger-shell`) | record files; listening machine, wake policy | persist, listen, heal, deliver | core, disk, host process |
| drive loop (`m4a-agent/src/engine/driver.rs`) | the step, the sync worker | step, roundtrip, harvest, abandon | core, the network |
| record log (`persist_log.rs`) | append-only file | append, snapshot, replay | no caller yet |
| agent runtime (`m4a-agent`), Grok bridge | push link, vault, identities, courier | connect, back up, deliver | core, homeserver |

What is hard in it: the process may stop between any two record writes, a write
may fail, an answer may be lost after the server acted, and ciphertext must not
leave before the ratchet it used is on disk.

**The homeserver** (`crates/mail4agent-server`, `crates/mail4agent-server-bin`,
`crates/m4a-matrix-core`, `crates/m4a-edge`) stores rooms and delivers events,
keys and to-device messages.

| part | state | operations | talks to |
|---|---|---|---|
| event store and sync (`store.rs`, `sync.rs`, `messaging.rs`, `http/sync.rs`) | one stream of numbered rows, transaction ids | send, join, sync | the devices |
| long-poll registry (`live.rs`) | one entry per user with interest and generation | register, wake, wait, drop | sync, every writer |
| to-device queue, keys, devices (`keys.rs`, `key_ops.rs`) | queued messages, one-time keys, device lists | sendToDevice, upload, claim, query | sync |
| rooms, membership, spaces (`rooms.rs`, `spaces.rs`) | state events, power levels | create, join, invite, leave, kick | store |
| typing and receipts (`typing.rs`, `ephemeral.rs`) | in-memory typing flags with a generation | set, expire, report | sync |
| retention (`retention.rs`) | acknowledgements of devices | record, purge every ten minutes | store |
| federation (`federation.rs`, `fed_rooms.rs`, `f3.rs`, `dag.rs`) | event graph, outgoing transactions | accept, resolve, deliver | other servers |
| media, push, public pages | blobs, counters | upload, notify, render | clients |

What is hard in it: a sync reads statement by statement while writers go on, a
wake carries no data and must not be missed, answers are lost, pages and queues
are cut at a limit, and all that is in memory is gone after a restart.

**Product kit** (`m4a-product-kit`, `m4a-product-example`, `m4a-seam`,
`m4a-keys`): tokens, nicknames and tiers on top of the homeserver.

## Modules

| module | models | source |
|---|---|---|
| `Mailbox` | the engine over its store | `crates/mail4agent-core/src/engine.rs`, `crates/mail4agent-store-sqlite/src/store.rs` |
| `MailLedger` | what the store promises about mail, abstractly | the contracts of `MailStore` |
| `MailboxService` | the asynchronous service, over `Mailbox` | `src/service.rs`, `src/routes/mail.rs` |
| `OutgoingQueue` | queue, gate, persist and drive loop of the client, composed | see above |
| `HomeserverSync` | stream, to-device queue, long-poll registry and `/sync` | see above |
| `SendPipeline` | encrypted sends of a client: query, claim, share, encrypt, send; the device tracker; the homeserver's answers | `core.rs`, `group_sessions.rs`, `device_tracker.rs`, `key_ops.rs` |
| `RoomKeyInbox` | received room keys, pending events, key requests and forwards | `core.rs`, `group_sessions.rs`, `olm_sessions.rs` |
| `KeySupply` | one-time and fallback keys of a device, from the account to the claim | `crypto/account.rs`, vodozemac's account, `keys.rs`, `key_ops.rs` |
| `OlmSession` | the double ratchet of two devices | `olm/session/*.rs`, `olm/account/mod.rs` of the vodozemac fork |
| `MegolmRatchet` | the group ratchet and the sessions on it | `megolm/*.rs` of the vodozemac fork |
| `RecordLog` | the append-only record log | `persist_log.rs` |
| `Startup` | start, bootstrap, handoff and exit of the daemon | `src/lib.rs`, `src/bootstrap.rs`, `src/control.rs` |
| `Retention` | device acks and the purge of delivered events | `retention.rs`, `http/sync.rs`, `sync.rs` |
| `Typing` | typing flags and their part of `/sync` | `typing.rs`, `sync.rs` |
| `Membership` | membership and power levels of a room | `rooms.rs`, `store.rs`, `http/rooms.rs` |
| `Option` | the value `None` the modules share | |
| `*Proofs` | theorems about the module of that name | |
| `MC*` | instances for TLC | |

Definitions whose comment calls them faulty are deliberate bugs: each property
has one that breaks it, so that no property holds by accident.

### Mailbox

Each table is a variable, each operation of `MailboxEngine` an action. The daemon
runs every operation under one lock, so an operation is one step. A refused call
changes nothing. `minted` and `handed` are histories of the secrets generated and
returned to a caller. A message id is a hash of all fields and is modelled as the
message itself; the salt of an unkeyed send is a nonce not used before.
`InsertOutcome` keeps the order of the statements of `insert_message`: the
messages row, then the ledger row. `OwnMessages` is the query of the inbox,
`IsReadable` the check of `message_get` and `ack`; they are separate pieces of
code and are compared. `Deregister` removes the participants row only, as the
code does.

### MailLedger

Letters only grow, a sender's key claims one letter, the first receipt counts.
`Mailbox` implements it with `letters <- messages`, `claims <- idempotency`,
`receipts <- acks`.

### MailboxService

It extends `Mailbox` and splits a send into authenticate, attest and stamp,
commit, find the accounts, ring; and a waiting inbox into authenticate, attest
and subscribe, check, park, wake. Administration and restarts happen in between.
A subscription hears what comes after it, which is what tokio's `Notify` gives
the code. A handler runs only while its connection is open: `SenderLeaves` and
`ReaderLeaves` end a request at any of its awaits, so a send may commit and
never ring. The histories `joined` and `unrung` of a waiting inbox name the gaps
the code accepts: joining a room wakes nobody, and neither does mail whose
sender left before the ring or whose room's members could not be read.

### OutgoingQueue

A request is an id, a lane, the ratchet index of its ciphertext and the batch it
must wait for. `Enqueue` seals what is dirty into a batch before the request's
own record is marked, as the code does. `persist` takes a batch, writes its
records one by one in the order of the code, and acknowledges; a failed write
drops the batch, which has left the core by then. `Reopen` is a crash at any
point followed by `MessengerCore::open`. `sent` (indices that left) and `held`
(the account data the server has) are the outside world. One ratchet counter
stands for all sessions.

### HomeserverSync

The log is the sequence of rows and a stream id is an index of it, because the
id is issued in the transaction that stores the row. A poll registers, reads the
position and deletes the to-device rows its token covers, reads the room, reads
the to-device rows, and answers, parks or goes round. The registry keeps the
identity of its entries: dropping the last registration of an entry decrements
without the lock and removes it under the lock, in two steps. A write commits
and wakes in two steps, and `WriterLeaves` is the writer whose connection closes
in between: its handler is dropped and nobody is woken for the row (`unwoken`).
An answer may be lost and the server may restart. The device is external: it
stores an answer and its token together.

### SendPipeline

A device is its id and the identity keys it has published. A send waits in the
room's queue until it is the first, then goes through the steps of the code:
query the lists that are outdated, claim keys for devices without an Olm
session, share the room key with devices not yet recorded as recipients,
encrypt, send. Each step ends with a request, and its answer continues the send
that owns it. Between them members come and go, devices are replaced or
deleted, syncs arrive, requests are refused, and the process restarts: the store
and the queue survive, the sends in progress do not. `Working` gathers the
fields one call changes, so that a handler is a composition of the functions
the code composes. `keysAt`, `encrypted`, `missed`, `answered` and `overtaken`
are histories of what left and of the exceptions below.

Every handler ends in `Handled`: nothing it queued leaves before all it changed
is on disk, so a crash before the flush is a crash before the handler; but the
flush writes a batch record by record, in the order of the record keys (devices,
outbound session, Olm sessions, tracked users, deletions), and the record of a
request in a later batch than what the request rests on. A crash in the middle
keeps a prefix: the session without some of the shares it records, or the device
lists without the session's change (`CrashedAfterDevices`). The answered request
is deleted last and is asked again. The cut is made inside one handler; records
of several handlers flushed together are not interleaved further.

A sync, and the retry of undecryptable mail after a key query, may bring a key
request for any session the device has created, from a stored device. A member
is sent the key from its first index and is not recorded as a recipient
(`AnswerKeyRequests`); the room is one whose history may be forwarded. The
answer counts as delivered at once, the deduplication of repeated requests is
left out, and a request counts as a mishap.

### RoomKeyInbox

One device, an author and a forwarding admin. A sync brings to-device mail,
device lists and events, processed in the order of `ingest_sync`; mail from a
device not known waits in a bounded queue for the next key query. `Merge` keeps
the better of two sessions; `Opens` is the check of `decrypt_event` with its
replay table. Every path that stores a session retries the events pending on
it. An ingest may fail after part of its work; a restart drops what is in memory
and `decrypt_loaded_timeline` starts over.

### KeySupply

Keys are numbered as they are generated. The account holds private keys, the
unpublished ones and two fallback keys; uploads wait in the queue, may be sent
again after a lost answer and may overtake each other; the server's upsert
leaves a key it has alone, and a claim removes a one-time key or marks the
fallback used. `resent`, `given` and `unsent` are histories that name the
exceptions.

### OlmSession and MegolmRatchet

Key material is symbolic: an Olm chain is the sequence of Diffie-Hellman pairs
that led to it, a Megolm part the sequence of seeds hashed into it. Two keys are
equal exactly when the code would compute equal bytes. Olm mail is delivered in
any order, any number of times or never, with the limits on chains, skipped keys
and gaps. The session is opened with a one-time key, which the answerer removes,
or with the fallback key, which it keeps: a pre-key letter its session refuses,
or no longer matches, then makes a new inbound session (`InboundSession`), which
reopens old letters (`olmReopened`) and leaves the opener behind (`forked`).
A failed decryption leaves the stored session as it was. The Megolm counter has four digits of base `Base`; the sender steps
and receivers jump, export, import, merge and restore.

### RecordLog

A log is a sequence of frames, each whole or torn. `append_frame` is a write, on
failure a cut back, and one more attempt; the cut may fail, which stops the
writer, and the process may die at any point. Boot replays up to the first frame
that is not whole and cuts the rest.

### Startup

One element of `Daemons` per start, sharing the database, the operator key file,
the control token file and the address. Each read or write of a shared thing is
a step. `orphaned` holds starts that ended between minting the operator and
writing its key; `eclipsed` the ones whose token a later start overwrote or an
exit removed.

### Retention and Typing

In `Retention` a poll records its token as the device's ack, in a write of its
own, reads its page in a second step, and its answer arrives or is lost.
Messages and membership events share the stream; only messages are purged. The
page follows `build_join_room_block`: the last events of the room in a full
view, otherwise the first `limit + 1` after the token without the oldest in
excess. In `Typing` a read of the registry reaps what expired, as in the code,
and a sync reads the generation, the rooms and the typists in steps of its own;
the question whether a room changed and the list of who types there, two reads in
the code, are one step (`BuildTypingBlock`): a change between the two is stamped
above the generation the answer carries.

### Membership

One room and every request about who is in it, as one transaction each. A
power-levels event is any edit of one user's level or one threshold that
`validate_power_levels_change` lets through.

## Runs

Runs that pass:

| run | question | instance | size |
|---|---|---|---|
| `registry` | Can a dead secret come back, or a secret open two accounts, through any order of registry operations? | 2 accounts, 4 secrets, 2 sessions, a room, a good and a bad URL | 10,004 states |
| `mailbox` | Do stored mail, ledger, inbox and receipts stay consistent while the registry changes? | 2 accounts, users and operators, 1 session, 1 room, 1 key, 1 nonce, 2 instants, 2 messages, 1 ack | 194,286 states |
| `service` | Is a wake-up lost, does a doorbell run ahead of the commit, does every call end? | 1 sender, 1 waiting reader, direct and room mail, 1 message, either side leaving, restarts | 109,560 states |
| `queue` | What can a crash, a lost answer or a failed write do to the client's queue? | 3 requests over a room, account data and one other lane, 1 failed write, any number of crashes | 1,278,579 states |
| `sync` | Are to-device messages kept and delivered, is a wake lost, does an unlimited page have a hole? | 1 account; 2 devices with 1 write and 1 fault, or 1 device with 3 writes and 2 faults; limit 1, cap 1 | 146,683 states |
| `components` | Does each of ten further components keep its promise? | below | 635,115 states |

`components` chooses one of the ten modules in the initial state and lets only
that one move, so its states are the sum of theirs:

| part | instance | states |
|---|---|---|
| `SendPipeline` | 2 peers with a device each, 2 sends, 2 identities, rotation after 2 messages, chunks of 1, 2 mishaps | 178,000 |
| `RoomKeyInbox` | 3 events, two of them with one index; 2 mails, a retry queue of 1, 1 fault | 31,000 |
| `MegolmRatchet` | base 3, 28 messages, 2 receivers at the indexes 0, 3, 9, 26, 27 | 5,000 |
| `OlmSession` | 7 messages under a one-time key or 6 under the fallback key, 2 chains, 1 skipped key, gap 2 | 36,000 |
| `KeySupply` | target 1, 2 one-time and 3 fallback keys, 2 uploads, 1 letter | 61,000 |
| `RecordLog` | 4 batches, 4 faults | 1,100 |
| `Retention` | 2 accounts with a device each, 2 posts, page 1, batch 1, 1 fault | 196,000 |
| `Typing` | 2 rooms, 1 typist, 1 device, 3 changes, 3 instants | 28,000 |
| `Startup` | 3 starts, 2 faults | 58,000 |
| `Membership` | the founder and 2 others, levels 0, 50, 100, 2 power-level events on users and `users_default` | 42,000 |

Their properties:

- `SecretsNameOneAccount`, `NoOldSecretGainsAccess`: a secret names one account,
  and one handed out before never gains access again.
- `AddressesStayBound`: the sessions stored mail names stay with their accounts.
- `OneMessagePerKey`, `ImplementsLedger`: messages and ledger agree, and mail,
  claims and receipts are never lost or changed.
- `InboxAgreesWithReadability`: the inbox and the read check give one answer.
- `NoLostWakeup`, `BellsFollowCommit`, `EveryPollIsAnswered`, `EverySendSettles`.
- `SentIsDurable`: while no write failed, ciphertext that left used a ratchet
  whose advance is on disk; after a failure the same holds for what the running
  process itself queued.
- `FreshIds`, `LaneLimits`, `DiskMatchesMemory`, `AccountDataNeverRegresses`.
- `ToDeviceIsKeptUntilHeld`, `TokenCoversToDevice`, `ToDeviceArrives`: a message
  is deleted only after its device has it, a position never passes one the
  device lacks, and each arrives in the end.
- `NoLostWake`: a parked poll with something to read is owed a wake.
- `UnlimitedPageIsComplete`: a page not marked limited has no hole.
- `KeysStayWithMembers`: whoever was sent a key that opens a message, by a share
  or in answer to a key request, was a member, in the sender's view, at its
  key-sharing step. `RecipientsCanRead`: every
  device known at that step was sent such a key, or it is queued.
- `ReadableIsRead`: no event stays undecryptable while its key is there.
  `OneEventPerIndex`: an index authenticates one event. `SessionsOnlyImprove`.
- `ReceiversFollowTheSender`: jumping agrees with stepping.
- `MessageKeysAreUsedOnce`, `NextMessageOpens`: no Olm message opens twice but a
  pre-key letter under the fallback key, and the two ends never drift apart
  unless such a letter has made the session anew.
- `KeysOnOfferAreHeld`, `ClaimedKeysOpen`: the server hands out keys the device
  holds, and letters under them open.
- `AckedFramesAreReplayed`: an acknowledged batch survives every crash.
- `PurgedWasDelivered`: nothing young is purged that a live device lacks.
- `TypistsAreShown`: a token never steps over somebody who began to type.
- `OperatorCanSignIn`, `ServingIsControllable`: the operator has a secret
  somebody can know, and the daemon that listens has its token on file.
- `AuthorityFlowsDown`: no request acts on somebody not below its sender.

Several of these hold only up to exceptions, which are part of the property and
are worth a reader's attention:

- A device without an Olm session when keys are shared, or whose share the
  server refused, stays in the recorded recipients of the session and is not
  sent the key again (`missed`). The same happens to the recipients of a share
  whose record a crash lost after the session record was written, and to a
  device whose new identity was written before a crash lost the session's
  change.
- A device that was sent the current session's key because it asked for it is
  not recorded as a recipient: when it was not one before, its owner's leaving
  does not rotate the session (`strays`).
- A send, or a write to the homeserver, whose client disconnects after the commit
  wakes nobody (`unrung`, `unwoken`): the mail waits for the next wake-up or the
  deadline of the poll.
- The fallback key is kept after use, so a replayed pre-key letter opens again
  (`olmReopened`), and one that is not taken by its session replaces it
  (`forked`).
- Answers of two key queries applied out of order restore an older device
  (`overtaken`; `on_keys_query_response` does not compare ages).
- A one-time key whose upload is repeated after it was claimed is offered a
  second time (`resent`); an overtaken upload puts an old fallback key back
  (`given`); the answer to an upload marks a fallback key published that the
  upload did not carry (`unsent`).
- `retention.rs` says a token "proves the device holds every event up to N"; a
  limited page makes that untrue, and what it left out may be purged (`passed`).
- `Control::create` overwrites the token file before the address is bound, so a
  second start that cannot bind leaves the running daemon without its token
  (`eclipsed`). A start that dies before it writes the operator's key leaves an
  operator nobody can be (`orphaned`).
- `validate_power_levels_change` looks at users named in `users` only, so a
  change of `users_default` reaches peers of equal level that have it from there
  (`Unlisted`).

Runs that show a disagreement between the code and what the repository says:

| run | what happens |
|---|---|
| `repeat_send` | A keyed retry in the same millisecond with the same content collides on the message id before the ledger is asked, and is answered with a store error instead of the original. |
| `retry_doorbell` | A keyed retry to another address rings that address's listener for the first message. |
| `to_device_order` | A to-device request that backs off is overtaken by the next, though the lane is documented as strictly ordered. |
| `stranded_requests` | After a transport error the other requests of the step stay in flight with nobody to drive them. |
| `failed_flush` | After one failed record write and a restart, ciphertext leaves although its ratchet is not on disk. |
| `skipped_events` | A sync over more than limit + 1 new events of a room passes the newest of them: they are not in the page, and `prev_batch` only leads backwards. |

Quotes and lines are under `findings` in `PROJECT.json`.

### Bounds

Two accounts are needed for one to take what belongs to the other. Four secrets
allow two registrations, a rotation and a registration after a deregistration.
Two messages are the least for a key to name two, and two instants separate a
retry in the same millisecond from a later one. One sender and one reader
contain the race of a wake-up. Three requests let one back off, one overtake and
one occupy its lane, and any number of restarts is allowed. Two polls of one
user meet in a registry entry. A limit and a cap of one are reached with two
rows, so three writes exceed both. The bounds on messages, acks, requests,
writes and faults are conjuncts of guards and are named in the modules.
The accounts, secrets and sessions of `Mailbox` are symmetric; no run with
liveness uses symmetry.

In `components`, two peers are needed for one to leave while the other stays;
two sends meet in the queue, and one identity change with one crash, key request,
refusal or move fill the two mishaps. That the exception `strays` is taken needs
three. Two events of one index are the least for a
replay. With base 3, message 27 is where the third digit rolls over. Seven Olm
messages turn the ratchet often enough to evict a chain. Three fallback keys are
the least for one to be forgotten. A page of one and two posts give a limited
page. Three starts are a daemon, its successor and a failed one. The twins of
each part are swapped by a symmetry; none of these properties is liveness.

Deadlock is checked in every run but `components`, whose parts stop at their
bounds. That some step is always possible says little
here, since a restart, or a call that changes nothing, always is; the liveness
properties are what rules out that requests wait on each other.

### Fairness

Only liveness needs it. In `MailboxService` each step of a started request and
each spawned task is weakly fair (tokio runs what is runnable), and so is the
deadline of a wait (a timer). Starting requests, administration, failures,
clients that leave and restarts are not fair. In `HomeserverSync` the steps of a poll and the wakes a
handler owes are weakly fair: a handler whose connection stays open runs to its
end (one whose connection closes has left, which is not fair), a parked request ends
after thirty seconds at most, and a client polls again when its poll ends. That
last part is an assumption about the client. Faults are bounded, so a device
is not assumed to get through against losses that never stop.

## What is proved

`MailboxProofs` proves, for all constants that satisfy the assumptions:

| theorem | states | rests on |
|---|---|---|
| `TypeCorrect` | `Spec => []TypeOK` | inductive as it stands; the loopback rule and memberships of existing rooms are part of it |
| `SecretsAreUnique` | `Spec => []SecretsNameOneAccount` | needs the stronger invariant that every secret held was generated: only then is a fresh secret nobody's |
| `OldSecretsStayDead` | `Spec => NoOldSecretGainsAccess` | `SecretStep`: an operation opens an account only with a secret never generated before |
| `MailStaysBound` | `Spec => []AddressesStayBound` | `SessionsStayBound`: no step moves a session |
| `KeysNameOneMessage` | `Spec => []OneMessagePerKey` | `SendStep`: a send adds nothing, an unkeyed message, or a keyed one with its first claim |
| `InboxIsReadable` | `Spec => []InboxAgreesWithReadability` | follows from the type invariant, by kind of address |
| `LedgerRefinement` | `Spec => ImplementsLedger` | `SendStep`, and a case distinction on the first receipt |

The other proof modules:

| theorem | inductive invariant | why it is needed |
|---|---|---|
| `StartupProofs!OperatorCanSignInHolds`, `ServingIsControllableHolds` | `StartInv` | a start that mints has found no key file and one that writes is the operator; only one daemon listens; every start on its way owns the token file or is eclipsed |
| `MembershipProofs!AuthorityFlowsDownHolds` | `RoomOK` | the shapes of levels and memberships; the rest is one case per request, from its checks |
| `RetentionProofs!PurgedWasDeliveredHolds` | `RetentionInv` | an ack is never ahead of the device's token, and what is owed behind a token was passed over; an answer on its way accounts for everything up to its own token |
| `RecordLogProofs!AckedFramesAreReplayedHolds` | `LogInv` | only the last frame may be torn, and acknowledged ones lie before the append in progress |
| `TypingProofs!TypistsAreShownHolds` | `TypingInv` | what a sync has read so far against the generation it read first |
| `KeySupplyProofs!KeysOnOfferAreHeldHolds`, `ClaimedKeysOpenHolds` | `SupplyInv` | where each key may be: unpublished, in an upload, on offer, claimed, in a letter |
| `SendPipelineProofs!KeysStayWithMembersHolds` | `SendInv` | every key sent or queued under the current session belongs to a recorded recipient of it who was in the last view, so a leaver forces a rotation before the next message; it is kept over every key that was on its way when a handler began, because a crash may bring an answered request back, and every recorded recipient was in the last view, which covers the answered key requests |

Each is `Spec => []P`, or `Spec => [][A]_vars` for the two action properties,
from the assumption its component's module names: the constants are of their
kind, `None` is none of the values, the account's grace is shorter than the TTL,
and a peer's devices are finitely many. Bounds on counters are arbitrary.

The assumptions of `MailboxProofs`, all in `Mailbox` and evaluated by TLC: permissions are records
of three flags; keys and nonces are disjoint (the code hashes them into the same
place, and a nonce is sixteen random bytes, so the model takes them as
different); `None` is none of the values; times are naturals; loopback URLs are
URLs. The model also takes the generator of secrets and the hash as free of
collisions. The bounds `MaxMessages` and `MaxAcks` are arbitrary in the proofs.

Only model-checked: everything about `MailboxService`, `OutgoingQueue`,
`HomeserverSync`, `RoomKeyInbox`, `OlmSession` and `MegolmRatchet`, the property
`RecipientsCanRead`, and all liveness, which the prover does not reach. What the
ratchets compute is defined by repetition over a counter and would need
induction over data.

## Not modelled

- Pure I/O and formatting (HTTP and JSON-RPC shells, configuration, health,
  logging, rendering), SQL migrations, cryptographic primitives, kernel tables.
- Federation: state resolution over signed events between servers is larger than
  all that is modelled here, and a few-node instance would say little.
- The listening machine of the shell with its healing loop, wake policy and
  provider chain; the agent's push link and vault; the product kit. They could be
  modelled and are not yet.
- The Grok bridge follows an external program the repository does not contain.
- Cross-signing, key backup, secret storage and verification of the client;
  timelines as displayed, backfill, receipts, account data.
- In `HomeserverSync`: other rooms, state and lazy members, receipts, account
  data, presence, invites and leaves, filters, `full_state`, a store restored
  from a backup. Retention acks and typing are in modules of their own.
- In `OutgoingQueue`: torn record files, the length of delays, the content of
  answers.
- In `SendPipeline`: other rooms, the account's own second device, which is
  treated like a peer's, `blocked`, which no caller sets, a crash in the
  middle of writing a sync (its token is written last, so it is read again), and
  letters from devices that are not stored, which mark their owner outdated as a
  reported device-list change does.
- In `RoomKeyInbox`: `m.room_key.withheld`, which no code sends.
- In `KeySupply`: the cap of 5000 private keys.
- In `RecordLog`: the compaction into a snapshot.
- Sliding sync. The `only_rooms` filter it passes to the builder of a page is left
  out of `HomeserverSync`, `Retention` and `Typing`.
- In `Retention`: transaction ids, federated rooms, whose events are kept as
  skeletons, and public rooms, which are not purged.
- In `Typing`: restarts of the server. The registry is seeded with zero, so
  tokens of an earlier process are ahead of every change; and the stop of a
  typist can be missed, because the first reader to reap a room forgets its
  serial. Both are listed as hazards; the property is about starts.
- In `Membership`: room upgrade, direct-message pairing, aliases, the `events`
  and `notifications` maps and `events_default`.
