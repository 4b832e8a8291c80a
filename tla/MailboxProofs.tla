--------------------------- MODULE MailboxProofs ---------------------------
(***************************************************************************)
(* What holds of the mailbox for every set of accounts, sessions, rooms,   *)
(* keys, messages and times, and for every bound.                          *)
(***************************************************************************)
EXTENDS Mailbox, TLAPS

-----------------------------------------------------------------------------
(* Type correctness *)

(* Every operation of the engine leaves rows of the right shape. *)
LEMMA TypeStep ==
    ASSUME TypeOK, [Next]_vars
    PROVE  TypeOK'
<1> USE DEF TypeOK, Registered
<1>1. ASSUME NEW a \in Accounts, NEW perms \in Permissions, NEW secret \in Secrets,
             RegisterParticipant(a, perms, secret)
      PROVE  TypeOK'
  BY <1>1 DEF RegisterParticipant, GenerateSecret, Participant, mailVars
<1>2. ASSUME NEW a \in Accounts, DeregisterParticipant(a)
      PROVE  TypeOK'
  BY <1>2 DEF DeregisterParticipant, mailVars
<1>3. ASSUME NEW a \in Accounts, NEW secret \in Secrets, RotateParticipantSecret(a, secret)
      PROVE  TypeOK'
  BY <1>3 DEF RotateParticipantSecret, GenerateSecret, Participant, mailVars
<1>4. ASSUME NEW a \in Accounts, NEW secret \in Secrets, RevokeParticipantSecret(a, secret)
      PROVE  TypeOK'
  BY <1>4 DEF RevokeParticipantSecret, GenerateSecret, Participant, mailVars
<1>5. ASSUME NEW a \in Accounts, NEW url \in Urls, SetListener(a, url)
      PROVE  TypeOK'
  BY <1>5 DEF SetListener, Participant, mailVars
<1>6. ASSUME NEW a \in Accounts, RemoveListener(a)
      PROVE  TypeOK'
  BY <1>6 DEF RemoveListener, Participant, mailVars
<1>7. ASSUME NEW r \in Rooms, CreateRoom(r)
      PROVE  TypeOK'
  BY <1>7 DEF CreateRoom, mailVars
<1>8. ASSUME NEW r \in Rooms, NEW a \in Accounts, AddRoomMember(r, a)
      PROVE  TypeOK'
  BY <1>8 DEF AddRoomMember, mailVars
<1>9. ASSUME NEW r \in Rooms, NEW a \in Accounts, RemoveRoomMember(r, a)
      PROVE  TypeOK'
  BY <1>9 DEF RemoveRoomMember, mailVars
<1>10. ASSUME NEW a \in Accounts, NEW s \in Sessions, EnsureSession(a, s)
       PROVE  TypeOK'
  BY <1>10 DEF EnsureSession, SessionRecord, mailVars
<1>11. ASSUME NEW s \in Sessions, NEW card \in Cards \cup {None}, SetDeclared(s, card)
       PROVE  TypeOK'
  BY <1>11 DEF SetDeclared, SessionRecord, mailVars
<1>12. ASSUME NEW sender \in Identities, NEW to \in Addresses, NEW body \in Bodies,
              NEW now \in Times, NEW key \in Keys \cup {None}, NEW salt \in Salts(key),
              Send(sender, to, body, key, now, salt)
       PROVE  TypeOK'
  <2> DEFINE m == DeriveMessageId(sender, to, body, now, salt)
  <2>1. m \in Message
    BY DEF DeriveMessageId, Message, Salts
  <2>2. m.from = sender
    BY DEF DeriveMessageId
  <2>3. messages' \subseteq Message
    BY <1>12, <2>1 DEF Send, InsertMessage
  <2>4. idempotency' \subseteq LedgerRow
    BY <1>12, <2>1, <2>2 DEF Send, InsertMessage, LedgerRow
  <2> QED
    BY <1>12, <2>3, <2>4 DEF Send, registryVars
<1>13. ASSUME NEW i \in Identities, NEW now \in Times, NEW m \in messages, Ack(i, m, now)
       PROVE  TypeOK'
  <2>1. m \in Message
    OBVIOUS
  <2>2. acks' \subseteq AckRow
    BY <1>13, <2>1 DEF Ack, AckRow
  <2> QED
    BY <1>13, <2>2 DEF Ack, registryVars
<1>14. CASE UNCHANGED vars
  BY <1>14 DEF vars, registryVars, mailVars
<1> QED
  BY <1>1, <1>2, <1>3, <1>4, <1>5, <1>6, <1>7, <1>8, <1>9, <1>10, <1>11, <1>12, <1>13, <1>14
     DEF Next

(* In every reachable state listener URLs are on the loopback host,        *)
(* memberships are of rooms that exist and every row has its shape.        *)
THEOREM TypeCorrect == Spec => []TypeOK
<1>1. Init => TypeOK
  BY DEF Init, TypeOK
<1>2. TypeOK /\ [Next]_vars => TypeOK'
  BY TypeStep
<1> QED
  BY <1>1, <1>2, PTL DEF Spec

-----------------------------------------------------------------------------
(* Secrets *)

(* Every secret on file was generated: with the freshness of a generated   *)
(* secret, this is why two accounts never hold the same one.               *)
SecretsAreMinted ==
    \A a \in Accounts : Registered(a) => participants[a].secret \in minted

SecretsInv == TypeOK /\ SecretsAreMinted /\ SecretsNameOneAccount

(* The two things a step can do to secrets. *)
NobodyGains ==
    /\ minted' = minted
    /\ \A b \in Accounts, q \in Secrets : Authenticates(q, b)' => Authenticates(q, b)

OpensWithNew(a, secret) ==
    /\ secret \notin minted
    /\ minted' = minted \cup {secret}
    /\ \A b \in Accounts, q \in Secrets :
          Authenticates(q, b)' => \/ b = a /\ q = secret
                                  \/ Authenticates(q, b)

(* Every operation either opens no account with a secret that did not open *)
(* it before, or opens one account with a secret never generated before.   *)
LEMMA SecretStep ==
    ASSUME TypeOK, [Next]_vars
    PROVE  NobodyGains \/ \E a \in Accounts, secret \in Secrets : OpensWithNew(a, secret)
<1> USE DEF TypeOK, Authenticates, Registered
<1>1. ASSUME NEW a \in Accounts, NEW perms \in Permissions, NEW secret \in Secrets,
             RegisterParticipant(a, perms, secret)
      PROVE  OpensWithNew(a, secret)
  BY <1>1 DEF RegisterParticipant, GenerateSecret, OpensWithNew
<1>2. ASSUME NEW a \in Accounts, DeregisterParticipant(a)
      PROVE  NobodyGains
  BY <1>2 DEF DeregisterParticipant, NobodyGains
<1>3. ASSUME NEW a \in Accounts, NEW secret \in Secrets, RotateParticipantSecret(a, secret)
      PROVE  OpensWithNew(a, secret)
  BY <1>3 DEF RotateParticipantSecret, GenerateSecret, OpensWithNew, Participant
<1>4. ASSUME NEW a \in Accounts, NEW secret \in Secrets, RevokeParticipantSecret(a, secret)
      PROVE  OpensWithNew(a, secret)
  BY <1>4 DEF RevokeParticipantSecret, GenerateSecret, OpensWithNew, Participant
<1>5. ASSUME NEW a \in Accounts, NEW url \in Urls, SetListener(a, url)
      PROVE  NobodyGains
  BY <1>5 DEF SetListener, NobodyGains, Participant
<1>6. ASSUME NEW a \in Accounts, RemoveListener(a)
      PROVE  NobodyGains
  BY <1>6 DEF RemoveListener, NobodyGains, Participant
<1>7. CASE UNCHANGED <<participants, minted>>
  BY <1>7 DEF NobodyGains
<1>8. (\E r \in Rooms : CreateRoom(r)) => UNCHANGED <<participants, minted>>
  BY DEF CreateRoom
<1>9. (\E r \in Rooms, a \in Accounts : AddRoomMember(r, a) \/ RemoveRoomMember(r, a))
        => UNCHANGED <<participants, minted>>
  BY DEF AddRoomMember, RemoveRoomMember
<1>10. (\E a \in Accounts, s \in Sessions : EnsureSession(a, s))
         => UNCHANGED <<participants, minted>>
  BY DEF EnsureSession
<1>11. (\E s \in Sessions, card \in Cards \cup {None} : SetDeclared(s, card))
         => UNCHANGED <<participants, minted>>
  BY DEF SetDeclared
<1>12. ASSUME NEW sender, NEW to, NEW body, NEW key, NEW now, NEW salt,
              Send(sender, to, body, key, now, salt)
       PROVE  UNCHANGED <<participants, minted>>
  BY <1>12 DEF Send, registryVars
<1>13. ASSUME NEW i, NEW m, NEW now, Ack(i, m, now)
       PROVE  UNCHANGED <<participants, minted>>
  BY <1>13 DEF Ack, registryVars
<1>14. CASE UNCHANGED vars
  BY <1>7, <1>14 DEF vars, registryVars
<1> QED
  BY <1>1, <1>2, <1>3, <1>4, <1>5, <1>6, <1>7, <1>8, <1>9, <1>10, <1>11, <1>12, <1>13, <1>14
     DEF Next

(* `authenticate` never has two accounts to choose from.  The invariant    *)
(* needs SecretsAreMinted: only then is a freshly generated secret known   *)
(* to be nobody else's.                                                    *)
THEOREM SecretsAreUnique == Spec => []SecretsNameOneAccount
<1>1. Init => SecretsInv
  BY DEF Init, SecretsInv, TypeOK, SecretsAreMinted, SecretsNameOneAccount, Authenticates, Registered
<1>2. SecretsInv /\ [Next]_vars => SecretsInv'
  <2> SUFFICES ASSUME SecretsInv, [Next]_vars
               PROVE  SecretsInv'
    OBVIOUS
  <2>1. TypeOK /\ TypeOK'
    BY TypeStep DEF SecretsInv
  <2>2. \A a \in Accounts, q \in Secrets : Authenticates(q, a) => q \in minted
    BY DEF SecretsInv, SecretsAreMinted, Authenticates
  <2>3. \A a \in Accounts, q \in Secrets : Authenticates(q, a)' => q \in minted'
    BY <2>1, <2>2, SecretStep DEF NobodyGains, OpensWithNew
  <2>4. SecretsAreMinted'
    BY <2>1, <2>3 DEF SecretsAreMinted, Authenticates, TypeOK, Registered, Participant
  <2>5. SecretsNameOneAccount'
    BY <2>1, <2>2, SecretStep DEF NobodyGains, OpensWithNew, SecretsInv, SecretsNameOneAccount
  <2> QED
    BY <2>1, <2>4, <2>5 DEF SecretsInv
<1>3. SecretsInv => SecretsNameOneAccount
  BY DEF SecretsInv
<1> QED
  BY <1>1, <1>2, <1>3, PTL DEF Spec

(* A secret handed out before never opens an account it did not open: a    *)
(* rotated, revoked or deregistered credential stays dead for good.        *)
THEOREM OldSecretsStayDead == Spec => NoOldSecretGainsAccess
<1>1. TypeOK /\ [Next]_vars =>
        [\A secret \in handed, a \in Accounts :
            Authenticates(secret, a)' => Authenticates(secret, a)]_vars
  <2> SUFFICES ASSUME TypeOK, [Next]_vars,
                      NEW secret \in handed, NEW a \in Accounts, Authenticates(secret, a)'
               PROVE  Authenticates(secret, a)
    OBVIOUS
  <2>1. secret \in minted /\ secret \in Secrets
    BY DEF TypeOK
  <2> QED
    BY <2>1, SecretStep DEF NobodyGains, OpensWithNew
<1> QED
  BY <1>1, TypeCorrect, PTL DEF Spec, NoOldSecretGainsAccess

-----------------------------------------------------------------------------
(* Mail *)

(* Steps that touch neither sessions nor mail. *)
LEMMA RegistryStep ==
    ASSUME Next
    PROVE  \/ UNCHANGED <<sessions, messages, idempotency, acks>>
           \/ /\ \E a \in Accounts, s \in Sessions : EnsureSession(a, s)
              /\ UNCHANGED mailVars
           \/ /\ \E s \in Sessions, card \in Cards \cup {None} : SetDeclared(s, card)
              /\ UNCHANGED mailVars
           \/ /\ \E sender \in Identities, to \in Addresses, body \in Bodies, now \in Times :
                    \E key \in Keys \cup {None} : \E salt \in Salts(key) :
                        Send(sender, to, body, key, now, salt)
              /\ UNCHANGED <<sessions, acks>>
           \/ /\ \E i \in Identities, now \in Times : \E m \in messages : Ack(i, m, now)
              /\ UNCHANGED <<sessions, messages, idempotency>>
<1>1. ASSUME NEW a, NEW perms, NEW secret, RegisterParticipant(a, perms, secret)
      PROVE  UNCHANGED <<sessions, messages, idempotency, acks>>
  BY <1>1 DEF RegisterParticipant, mailVars
<1>2. ASSUME NEW a, NEW x,
             \/ DeregisterParticipant(a) \/ RotateParticipantSecret(a, x)
             \/ RevokeParticipantSecret(a, x) \/ SetListener(a, x) \/ RemoveListener(a)
      PROVE  UNCHANGED <<sessions, messages, idempotency, acks>>
  BY <1>2 DEF DeregisterParticipant, RotateParticipantSecret, RevokeParticipantSecret,
              SetListener, RemoveListener, mailVars
<1>3. ASSUME NEW r, NEW a, CreateRoom(r) \/ AddRoomMember(r, a) \/ RemoveRoomMember(r, a)
      PROVE  UNCHANGED <<sessions, messages, idempotency, acks>>
  BY <1>3 DEF CreateRoom, AddRoomMember, RemoveRoomMember, mailVars
<1>4. ASSUME NEW a, NEW s, EnsureSession(a, s)
      PROVE  UNCHANGED mailVars
  BY <1>4 DEF EnsureSession
<1>5. ASSUME NEW s, NEW card, SetDeclared(s, card)
      PROVE  UNCHANGED mailVars
  BY <1>5 DEF SetDeclared
<1>6. ASSUME NEW sender, NEW to, NEW body, NEW key, NEW now, NEW salt,
             Send(sender, to, body, key, now, salt)
      PROVE  UNCHANGED <<sessions, acks>>
  BY <1>6 DEF Send, registryVars
<1>7. ASSUME NEW i, NEW m, NEW now, Ack(i, m, now)
      PROVE  UNCHANGED <<sessions, messages, idempotency>>
  BY <1>7 DEF Ack, registryVars
<1> QED
  BY <1>1, <1>2, <1>3, <1>4, <1>5, <1>6, <1>7 DEF Next

(* No step takes a session away from the account it is on file under. *)
LEMMA SessionsStayBound ==
    ASSUME TypeOK, [Next]_vars,
           NEW s \in Sessions, sessions[s] # None
    PROVE  sessions'[s] # None /\ sessions'[s].account = sessions[s].account
<1>1. ASSUME NEW a \in Accounts, NEW t \in Sessions, EnsureSession(a, t)
      PROVE  sessions'[s] # None /\ sessions'[s].account = sessions[s].account
  <2>1. CASE t = s
    <3>1. sessions'[s] \in SessionRecord
      BY <1>1, <2>1 DEF EnsureSession, TypeOK, SessionRecord
    <3>2. sessions'[s].account = a /\ sessions[s].account = a
      BY <1>1, <2>1 DEF EnsureSession, TypeOK
    <3> QED
      BY <3>1, <3>2, RowAssumption
  <2>2. CASE t # s
    BY <1>1, <2>2 DEF EnsureSession, TypeOK
  <2> QED
    BY <2>1, <2>2
<1>2. ASSUME NEW t \in Sessions, NEW card \in Cards \cup {None}, SetDeclared(t, card)
      PROVE  sessions'[s] # None /\ sessions'[s].account = sessions[s].account
  <2>1. sessions'[s] \in SessionRecord
    BY <1>2 DEF SetDeclared, TypeOK, SessionRecord
  <2>2. sessions'[s].account = sessions[s].account
    BY <1>2 DEF SetDeclared, TypeOK, SessionRecord
  <2> QED
    BY <2>1, <2>2, RowAssumption
<1>3. CASE UNCHANGED sessions
  BY <1>3
<1>4. CASE UNCHANGED vars
  BY <1>3, <1>4 DEF vars, registryVars
<1> QED
  BY <1>1, <1>2, <1>3, <1>4, RegistryStep

(* An identity is a direct or a session address, and names an account; an  *)
(* address of kind session names a session on file.                        *)
LEMMA AddressKinds ==
    /\ \A i \in Identities :
          /\ i.kind \in {"direct", "session"}
          /\ i.account \in Accounts
          /\ i.kind = "direct" => i = Direct(i.account)
          /\ i.kind = "session" => i.session \in Sessions
    /\ \A t \in Addresses :
          /\ t \in Identities \/ (t.kind = "room" /\ t.room \in Rooms /\ t = RoomAddress(t.room))
          /\ t.kind = "session" => t \in Identities
BY DEF Identities, Addresses, DirectAddresses, SessionAddresses, Direct, SessionAddress, RoomAddress

(* What is bound stays bound. *)
LEMMA BelongsStep ==
    ASSUME TypeOK, [Next]_vars, NEW i \in Identities, SessionBelongs(i)
    PROVE  SessionBelongs(i)'
BY AddressKinds, SessionsStayBound DEF SessionBelongs

(* Stored mail always names sessions on file under the accounts it gives.  *)
(* A session is checked once, when the mail is sent, and never moves.      *)
THEOREM MailStaysBound == Spec => []AddressesStayBound
<1>1. Init => AddressesStayBound
  BY DEF Init, AddressesStayBound
<1>2. TypeOK /\ AddressesStayBound /\ [Next]_vars => AddressesStayBound'
  <2> SUFFICES ASSUME TypeOK, AddressesStayBound, [Next]_vars
               PROVE  AddressesStayBound'
    OBVIOUS
  <2>1. ASSUME NEW m \in messages
        PROVE  SessionBelongs(m.from)' /\ (m.to.kind = "session" => SessionBelongs(m.to)')
    <3>1. m.from \in Identities /\ m.to \in Addresses
      BY DEF TypeOK, Message
    <3> QED
      BY <3>1, BelongsStep, AddressKinds DEF AddressesStayBound
  <2>2. ASSUME NEW m \in messages' \ messages
        PROVE  SessionBelongs(m.from)' /\ (m.to.kind = "session" => SessionBelongs(m.to)')
    <3>1. PICK sender \in Identities, to \in Addresses, body \in Bodies, now \in Times :
            \E key \in Keys \cup {None} : \E salt \in Salts(key) :
                Send(sender, to, body, key, now, salt)
      BY <2>2, RegistryStep DEF vars, mailVars
    <3>2. PICK key \in Keys \cup {None} : \E salt \in Salts(key) :
            Send(sender, to, body, key, now, salt)
      BY <3>1
    <3>3. PICK salt \in Salts(key) : Send(sender, to, body, key, now, salt)
      BY <3>2
    <3>4. m.from = sender /\ m.to = to
      BY <2>2, <3>3 DEF Send, InsertMessage, DeriveMessageId
    <3>5. SessionBelongs(sender) /\ (to.kind = "session" => SessionBelongs(to))
      BY <3>3 DEF Send, Resolves, Deliverable
    <3> QED
      BY <3>4, <3>5, BelongsStep, AddressKinds
  <2> QED
    BY <2>1, <2>2 DEF AddressesStayBound
<1> QED
  BY <1>1, <1>2, TypeCorrect, PTL DEF Spec

-----------------------------------------------------------------------------
(* Keys *)

(* What a send adds: nothing, an unkeyed message under a nonce, or a keyed *)
(* message together with its first claim.                                  *)
LEMMA SendStep ==
    ASSUME NEW sender \in Identities, NEW to \in Addresses, NEW body \in Bodies,
           NEW now \in Times, NEW key \in Keys \cup {None}, NEW salt \in Salts(key),
           Send(sender, to, body, key, now, salt),
           NEW m, m = DeriveMessageId(sender, to, body, now, salt)
    PROVE  /\ m.from = sender /\ m.salt = salt
           /\ UNCHANGED acks
           /\ \/ UNCHANGED <<messages, idempotency>>
              \/ /\ m \notin messages
                 /\ messages' = messages \cup {m}
                 /\ \/ m.salt \in Nonces /\ UNCHANGED idempotency
                    \/ /\ key \in Keys /\ m.salt = key
                       /\ \A row \in idempotency : ~(row.sender = m.from /\ row.key = key)
                       /\ idempotency' =
                            idempotency \cup {[sender |-> m.from, key |-> key, message |-> m]}
<1>1. m.from = sender /\ m.salt = salt
  BY DEF DeriveMessageId
<1>2. UNCHANGED acks /\ InsertMessage(m, key)
  BY DEF Send
<1>3. CASE InsertOutcome(m, key) # "inserted"
  BY <1>1, <1>2, <1>3 DEF InsertMessage
<1>4. CASE InsertOutcome(m, key) = "inserted" /\ key = None
  <2>1. m \notin messages
    BY <1>4 DEF InsertOutcome
  <2>2. m.salt \in Nonces
    BY <1>1, <1>4 DEF Salts
  <2>3. messages' = messages \cup {m} /\ idempotency' = idempotency
    BY <1>2, <1>4 DEF InsertMessage
  <2> QED
    BY <1>1, <1>2, <2>1, <2>2, <2>3
<1>5. CASE InsertOutcome(m, key) = "inserted" /\ key # None
  <2>1. m \notin messages /\ LedgerOf(m.from, key) = {}
    BY <1>5 DEF InsertOutcome
  <2>2. key \in Keys /\ m.salt = key
    BY <1>1, <1>5 DEF Salts
  <2>3. /\ messages' = messages \cup {m}
        /\ idempotency' = idempotency \cup {[sender |-> m.from, key |-> key, message |-> m]}
    BY <1>2, <1>5 DEF InsertMessage
  <2>4. \A row \in idempotency : ~(row.sender = m.from /\ row.key = key)
    BY <2>1 DEF LedgerOf
  <2> QED
    BY <1>1, <1>2, <2>1, <2>2, <2>3, <2>4
<1> QED
  BY <1>3, <1>4, <1>5

(* The messages table and the idempotency ledger agree in every reachable  *)
(* state, whatever mixture of keyed and unkeyed sends and retries arrived. *)
THEOREM KeysNameOneMessage == Spec => []OneMessagePerKey
<1>1. Init => OneMessagePerKey
  BY DEF Init, OneMessagePerKey
<1>2. TypeOK /\ OneMessagePerKey /\ [Next]_vars => OneMessagePerKey'
  <2> SUFFICES ASSUME TypeOK, OneMessagePerKey, [Next]_vars
               PROVE  OneMessagePerKey'
    OBVIOUS
  <2>1. CASE UNCHANGED <<messages, idempotency>>
    BY <2>1 DEF OneMessagePerKey
  <2>2. ASSUME NEW sender \in Identities, NEW to \in Addresses, NEW body \in Bodies,
               NEW now \in Times, NEW key \in Keys \cup {None}, NEW salt \in Salts(key),
               Send(sender, to, body, key, now, salt)
        PROVE  OneMessagePerKey'
    <3> DEFINE m == DeriveMessageId(sender, to, body, now, salt)
               claim == [sender |-> m.from, key |-> key, message |-> m]
    <3>1. \/ UNCHANGED <<messages, idempotency>>
          \/ /\ m \notin messages
             /\ messages' = messages \cup {m}
             /\ \/ m.salt \in Nonces /\ UNCHANGED idempotency
                \/ /\ key \in Keys /\ m.salt = key
                   /\ \A row \in idempotency : ~(row.sender = m.from /\ row.key = key)
                   /\ idempotency' = idempotency \cup {claim}
      BY <2>2, SendStep
    <3> HIDE DEF m
    <3>2. CASE messages' = messages \cup {m} /\ m.salt \in Nonces /\ UNCHANGED idempotency
      BY <3>2, SaltAssumption DEF OneMessagePerKey
    <3>3. CASE /\ key \in Keys /\ m.salt = key
               /\ \A row \in idempotency : ~(row.sender = m.from /\ row.key = key)
               /\ messages' = messages \cup {m}
               /\ idempotency' = idempotency \cup {claim}
      <4>1. claim.sender = m.from /\ claim.key = key /\ claim.message = m
        OBVIOUS
      <4> QED
        BY <3>3, <4>1 DEF OneMessagePerKey
    <3> QED
      BY <2>1, <3>1, <3>2, <3>3
  <2> QED
    BY <2>1, <2>2, RegistryStep DEF vars, mailVars
<1> QED
  BY <1>1, <1>2, TypeCorrect, PTL DEF Spec

-----------------------------------------------------------------------------
(* Reading *)

(* What the inbox lists for an identity and what message_get and ack       *)
(* accept from it are the same messages; an operator may read more.        *)
THEOREM InboxIsReadable == Spec => []InboxAgreesWithReadability
<1>1. TypeOK => InboxAgreesWithReadability
  <2> SUFFICES ASSUME TypeOK, NEW i \in Identities, NEW m \in messages
               PROVE  /\ m \in OwnMessages(i, 0) => IsReadable(m, i)
                      /\ ~PermsOf(i).operator /\ IsReadable(m, i) => m \in OwnMessages(i, 0)
    BY DEF InboxAgreesWithReadability, OwnMessages
  <2>1. m.to \in Addresses /\ m.at \in Nat
    BY TimesAssumption DEF TypeOK, Message
  <2>2. m \in OwnMessages(i, 0) <=>
          \/ m.to = i
          \/ i.kind = "session" /\ m.to = Direct(i.account)
          \/ \E r \in RoomsContaining(i.account) : m.to = RoomAddress(r)
    <3>1. m.at >= 0
      BY <2>1
    <3> QED
      BY <3>1 DEF OwnMessages
  <2>3. /\ \A a : Direct(a).kind = "direct" /\ Direct(a).account = a
        /\ \A r : RoomAddress(r).kind = "room" /\ RoomAddress(r).room = r
    BY DEF Direct, RoomAddress
  <2>4. CASE m.to.kind = "direct"
    <3>1. m.to = Direct(m.to.account)
      BY <2>1, <2>4, AddressKinds
    <3>2. m \in OwnMessages(i, 0) <=> m.to.account = i.account
      BY <2>2, <2>3, <2>4, <3>1, AddressKinds
    <3>3. IsReadable(m, i) <=> PermsOf(i).operator \/ m.to.account = i.account
      BY <2>4 DEF IsReadable
    <3> QED
      BY <3>2, <3>3
  <2>5. CASE m.to.kind = "session"
    <3>1. m \in OwnMessages(i, 0) <=> m.to = i
      BY <2>2, <2>3, <2>5
    <3>2. IsReadable(m, i) <=> PermsOf(i).operator \/ m.to = i
      BY <2>5 DEF IsReadable
    <3> QED
      BY <3>1, <3>2
  <2>6. CASE m.to.kind = "room"
    <3>1. m.to = RoomAddress(m.to.room) /\ m.to.room \in Rooms /\ m.to # i
      BY <2>1, <2>6, AddressKinds
    <3>2. m \in OwnMessages(i, 0) <=> <<m.to.room, i.account>> \in room_members
      BY <2>2, <2>3, <2>6, <3>1 DEF RoomsContaining
    <3>3. i.account \in Accounts
      BY AddressKinds
    <3>4. IsReadable(m, i) <=> PermsOf(i).operator \/ <<m.to.room, i.account>> \in room_members
      BY <2>6, <3>3 DEF IsReadable, Members, TypeOK
    <3> QED
      BY <3>2, <3>4
  <2> QED
    BY <2>1, <2>4, <2>5, <2>6, AddressKinds
<1> QED
  BY <1>1, TypeCorrect, PTL

-----------------------------------------------------------------------------
(* Refinement *)

(* The mailbox implements MailLedger: registry operations and refused or   *)
(* deduplicated sends stutter, a first send posts, a first acknowledgement *)
(* acknowledges.                                                           *)
THEOREM LedgerRefinement == Spec => ImplementsLedger
<1>1. Init => Ledger!Init
  BY DEF Init, Ledger!Init
<1>2. TypeOK /\ [Next]_vars => [Ledger!Next]_<<messages, idempotency, acks>>
  <2> SUFFICES ASSUME TypeOK, [Next]_vars
               PROVE  Ledger!Next \/ UNCHANGED <<messages, idempotency, acks>>
    OBVIOUS
  <2>1. ASSUME NEW sender \in Identities, NEW to \in Addresses, NEW body \in Bodies,
               NEW now \in Times, NEW key \in Keys \cup {None}, NEW salt \in Salts(key),
               Send(sender, to, body, key, now, salt)
        PROVE  Ledger!Next \/ UNCHANGED <<messages, idempotency, acks>>
    <3> DEFINE m == DeriveMessageId(sender, to, body, now, salt)
    <3>1. /\ UNCHANGED acks
          /\ \/ UNCHANGED <<messages, idempotency>>
             \/ /\ m \notin messages
                /\ messages' = messages \cup {m}
                /\ \/ m.salt \in Nonces /\ UNCHANGED idempotency
                   \/ /\ key \in Keys /\ m.salt = key
                      /\ \A row \in idempotency : ~(row.sender = m.from /\ row.key = key)
                      /\ idempotency' =
                           idempotency \cup {[sender |-> m.from, key |-> key, message |-> m]}
      BY <2>1, SendStep
    <3> HIDE DEF m
    <3> QED
      BY <3>1 DEF Ledger!Next, Ledger!Post, Ledger!PostKeyed
  <2>2. ASSUME NEW i \in Identities, NEW now \in Times, NEW m \in messages, Ack(i, m, now)
        PROVE  Ledger!Next \/ UNCHANGED <<messages, idempotency, acks>>
    <3>1. CASE AckedBy(m, i)
      BY <2>2, <3>1 DEF Ack
    <3>2. CASE ~AckedBy(m, i)
      <4>1. Ledger!Acknowledge(m, i, now)
        BY <2>2, <3>2 DEF Ack, AckedBy, Ledger!Acknowledge
      <4> QED
        BY <4>1 DEF Ledger!Next
    <3> QED
      BY <3>1, <3>2
  <2> QED
    BY <2>1, <2>2, RegistryStep DEF vars, mailVars
<1> QED
  BY <1>1, <1>2, TypeCorrect, PTL DEF Spec, ImplementsLedger, Ledger!Spec, Ledger!ledgerVars
=============================================================================
