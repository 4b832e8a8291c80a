----------------------------- MODULE OlmSession -----------------------------
(***************************************************************************)
(* The Olm session of the forked vodozemac crate, as `decrypt_to_device`   *)
(* and `encrypt_to_device` of the messenger keep it: a double ratchet      *)
(* between the device that claimed a key (Opener) and the device that      *)
(* published it (Answerer), over to-device mail that may be lost, delayed, *)
(* repeated and reordered.  The key is a one-time key, or the fallback key *)
(* that the server hands out when those have run out.                      *)
(*                                                                         *)
(* Key material is symbolic.  A ratchet key is its owner and a number; a   *)
(* root key, and the chain derived with it, is the sequence of the         *)
(* Diffie-Hellman pairs that led to it; a message opens in a chain exactly *)
(* when it was encrypted in the same one.                                  *)
(***************************************************************************)
EXTENDS Option, Integers, FiniteSets, Sequences, SequencesExt

CONSTANTS
    Opener, Answerer,   \* the two ends
    MaxReceivingChains, \* MAX_RECEIVING_CHAINS (5 in the code)
    MaxMessageKeys,     \* MAX_MESSAGE_KEYS (40 in the code)
    MaxMessageGap,      \* MAX_MESSAGE_GAP (2000 in the code)
    MaxOlmSent,         \* bound: the messages encrypted by both ends
    MaxFallbackSent     \* the same bound when the key is a fallback key

ASSUME OlmAssumption ==
    /\ Opener # Answerer
    /\ MaxReceivingChains \in Nat \ {0} /\ MaxMessageKeys \in Nat \ {0}
    /\ MaxMessageGap \in Nat /\ MaxOlmSent \in Nat /\ MaxFallbackSent \in 0 .. MaxOlmSent

VARIABLES
    ends,        \* the stored Session of each end; None until the answerer has one
    claimed,     \* the claimed key in the answerer's account; None once used up
    wire,        \* every message encrypted so far
    olmOpened,   \* the messages that were decrypted
    olmReopened, \* the messages that were decrypted a second time
    forked       \* history: a session that had answered was made anew

olmVars == <<ends, claimed, wire, olmOpened, olmReopened, forked>>

Ends == {Opener, Answerer}
Peer(e) == CHOOSE p \in Ends : p # e

\* The last `cap` elements of s: what an ArrayVec of that capacity holds when
\* a push into a full one first drops the oldest.
Newest(s, cap) == SubSeq(s, IF Len(s) > cap THEN Len(s) - cap + 1 ELSE 1, Len(s))

NewChain(key, root) == [key |-> key, root |-> root, index |-> 0, skipped |-> <<>>]

\* InactiveDoubleRatchet::activate: a new ratchet key starts a sending chain.
Activate(s) ==
    IF s.active THEN s
    ELSE [s EXCEPT !.active = TRUE, !.own = s.own + 1, !.index = 0,
                   !.root = Append(s.root, {<<s.self, s.own + 1>>, s.remote})]

\* Session::encrypt: activate when needed, then take the next message key.
\* Until something was received the message carries the session's keys.
EncryptOlm(s) ==
    LET a == Activate(s)
    IN  [session |-> [a EXCEPT !.index = a.index + 1],
         message |-> [from |-> a.self, key |-> <<a.self, a.own>>, root |-> a.root,
                      index |-> a.index, prekey |-> a.chains = <<>>]]

\* Faulty variant of ChainDecrypt: a stored message key stays after its use.
ChainDecryptKeeping(c, m) ==
    IF m.index - c.index > MaxMessageGap \/ m.root # c.root THEN None
    ELSE IF m.index < c.index THEN
        IF m.index \notin ToSet(c.skipped) THEN None ELSE c
    ELSE LET gap == [i \in 1 .. m.index - c.index |-> c.index + i - 1]
             kept == Newest(gap, MaxMessageKeys)
         IN  [c EXCEPT !.index = m.index + 1,
                       !.skipped = Newest(c.skipped \o kept, MaxMessageKeys)]

\* ReceiverChain::decrypt: an index already passed needs its stored key, which
\* is then removed; a later one advances the chain and stores the keys it
\* skips, the newest MaxMessageKeys of them.  None is an error, and leaves the
\* chain as it was.
ChainDecrypt(c, m) ==
    IF m.index - c.index > MaxMessageGap \/ m.root # c.root THEN None
    ELSE IF m.index < c.index THEN
        IF m.index \notin ToSet(c.skipped) THEN None
        ELSE [c EXCEPT !.skipped = SelectSeq(@, LAMBDA i : i # m.index)]
    ELSE LET gap == [i \in 1 .. m.index - c.index |-> c.index + i - 1]
             kept == Newest(gap, MaxMessageKeys)
         IN  [c EXCEPT !.index = m.index + 1,
                       !.skipped = Newest(c.skipped \o kept, MaxMessageKeys)]

\* Faulty variant of AdvanceSession: the root key turns, the sending chain
\* does not.
AdvanceSessionHalfway(s, m) ==
    LET a == Activate(s)
        root == Append(a.root, {<<a.self, a.own>>, m.key})
        chain == ChainDecrypt(NewChain(m.key, root), m)
    IN  IF chain = None THEN None
        ELSE [a EXCEPT !.root = root, !.remote = m.key,
                       !.chains = Newest(Append(s.chains, chain), MaxReceivingChains)]

\* A message under an unknown ratchet key: the other end answered.  An inactive
\* ratchet is activated first; the message must open in the new chain.
AdvanceSession(s, m) ==
    LET a == Activate(s)
        root == Append(a.root, {<<a.self, a.own>>, m.key})
        chain == ChainDecrypt(NewChain(m.key, root), m)
    IN  IF chain = None THEN None
        ELSE [a EXCEPT !.active = FALSE, !.root = root, !.remote = m.key,
                       !.chains = Newest(Append(s.chains, chain), MaxReceivingChains)]

\* Session::decrypt_decoded.  None is an error; what it did to the session is
\* dropped with the unpickled copy it was tried on.
DecryptOlm(s, m) ==
    LET at == SelectInSeq(s.chains, LAMBDA c : c.key = m.key)
        chain == ChainDecrypt(s.chains[at], m)
    IN  IF at = 0 THEN AdvanceSession(s, m)
        ELSE IF chain = None THEN None
        ELSE [s EXCEPT !.chains[at] = chain]

\* The ratchet keys an end has drawn; a new one is none of these.
Drawn(e) == {m.key : m \in {w \in wire : w.from = e}}

\* Account::create_inbound_session: find_one_time_key looks among the one-time
\* and the fallback keys, and the letter must open in the session made with it.
InboundSession(m) ==
    IF claimed = None THEN None
    ELSE DecryptOlm([self |-> Answerer, active |-> FALSE, own |-> Cardinality(Drawn(Answerer)),
                     root |-> <<>>, remote |-> m.key, index |-> 0,
                     chains |-> <<NewChain(m.key, <<>>)>>], m)

\* What the stored session of the end e makes of message m.
KnownSession(e, m) == IF ends[e] = None THEN None ELSE DecryptOlm(ends[e], m)

\* decrypt_to_device: the session that is saved, None when m is refused.  A
\* pre-key letter that the stored session refuses makes a session anew, which
\* has the same id and takes its place.
ReceiveOlm(e, m) ==
    IF KnownSession(e, m) # None \/ ~ m.prekey THEN KnownSession(e, m) ELSE InboundSession(m)

OlmInit ==
    /\ ends = [e \in Ends |-> IF e = Answerer THEN None ELSE
           [self |-> Opener, active |-> TRUE, own |-> 1, root |-> <<>>,
            remote |-> None, index |-> 0, chains |-> <<>>]]
    /\ claimed \in {"one_time", "fallback"}
    /\ wire = {}
    /\ olmOpened = {} /\ olmReopened = {} /\ forked = FALSE

OlmSend(e) ==
    /\ ends[e] # None
    /\ Cardinality(wire) < IF claimed = "fallback" THEN MaxFallbackSent ELSE MaxOlmSent
    /\ LET sent == EncryptOlm(ends[e])
       IN  /\ ends' = [ends EXCEPT ![e] = sent.session]
           /\ wire' = wire \cup {sent.message}
    /\ UNCHANGED <<claimed, olmOpened, olmReopened, forked>>

\* Any message sent to e arrives: late, out of order, or again.  A session made
\* with a one-time key removes the key; a fallback key stays.
OlmDeliver(e) ==
    \E m \in wire :
        LET got == ReceiveOlm(e, m)
            anew == got # None /\ KnownSession(e, m) = None
        IN  /\ m.from = Peer(e)
            /\ got # None
            /\ ends' = [ends EXCEPT ![e] = got]
            /\ claimed' = IF anew /\ claimed = "one_time" THEN None ELSE claimed
            /\ olmOpened' = olmOpened \cup {m}
            /\ olmReopened' = olmReopened \cup ({m} \cap olmOpened)
            /\ forked' = (forked \/ (anew /\ Drawn(e) # {}))
            /\ UNCHANGED wire

OlmNext == \E e \in Ends : OlmSend(e) \/ OlmDeliver(e)

OlmSpec == OlmInit /\ [][OlmNext]_olmVars

----------------------------------------------------------------------------
\* Shapes of the two sessions; the stores stay within their capacity.
OlmTypeOK ==
    /\ claimed \in {"one_time", "fallback", None} /\ forked \in BOOLEAN
    /\ \A m \in wire : m.from \in Ends /\ m.index \in 0 .. MaxOlmSent
    /\ \A e \in Ends : ends[e] # None =>
        /\ ends[e].active \in BOOLEAN
        /\ Len(ends[e].chains) <= MaxReceivingChains
        /\ \A i \in 1 .. Len(ends[e].chains) :
            Len(ends[e].chains[i].skipped) <= MaxMessageKeys

\* A message key is used once: however messages are delayed, repeated or
\* reordered, across chain turns, evictions and sessions made anew, none is
\* decrypted twice.  The exception is the code's: a fallback key is not removed
\* by its use, so the letters of the chain it opened, and no others, can be
\* opened again (`find_one_time_key`, `create_inbound_session`).
MessageKeysAreUsedOnce ==
    \A m \in olmReopened : claimed = "fallback" /\ m.prekey

\* The two ends never drift apart: in every reachable state the next message
\* either end encrypts opens at the other end, when it is not more than the
\* allowed gap ahead of what that end has seen of the chain.  The exception is
\* the code's: a repeated letter under a fallback key can replace a session that
\* has already answered, whose answers the new one knows nothing of
\* (`decrypt_to_device`).
NextMessageOpens ==
    forked \/ \A e \in Ends : ends[e] # None =>
        LET m == EncryptOlm(ends[e]).message
            p == ends[Peer(e)]
            seen == IF p = None THEN {} ELSE {c \in ToSet(p.chains) : c.key = m.key}
            from == IF seen = {} THEN 0 ELSE (CHOOSE c \in seen : TRUE).index
        IN  m.index - from <= MaxMessageGap => ReceiveOlm(Peer(e), m) # None
=============================================================================
