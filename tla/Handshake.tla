------------------------------ MODULE Handshake ------------------------------
(***************************************************************************)
(* Sessions between devices: startSession and decryptEnvelope              *)
(* (packages/crypto/src/session.ts) over the prekeys of PreKeys and the    *)
(* ratchet of Ratchet, as the messenger calls them (ensureSession,         *)
(* sendPayload, handleDelivered).  Messages may be late, reordered, lost   *)
(* or repeated; a device may start again, which loses its sessions and     *)
(* prekeys, and may forget a conversation.                                 *)
(* The root secret of a handshake is the set of the secrets that went into *)
(* it; transcript and identities are fixed by its ephemeral key.           *)
(***************************************************************************)
EXTENDS PreKeys, Ratchet

CONSTANT MaxSends   \* bound: messages sent

VARIABLES
  sessions,   \* the messenger's sessions Map: at most one for each peer
  fetching,   \* ensureSession calls between fetchBundle and startSession
  sent,       \* every message sent
  arrived,    \* those delivered at least once
  accepted    \* history: handshakes answered, a sequence of preambles

vars == <<preKeyVars, sessions, fetching, sent, arrived, accepted>>

Preamble == [ephemeral : Nat, oneTime : SUBSET Nat]

\* disturbed is history: the ratchet was handed a message that is not of this
\* handshake, or that had arrived before.
Session  == [ratchet : RatchetState, pending : SUBSET Preamble,
             establishedBy : Nat, disturbed : BOOLEAN]
Envelope == [from : Device, to : Device, preamble : SUBSET Preamble, msg : Message]

Init ==
  /\ PreKeysInit
  /\ sessions = [d \in Device |-> [e \in Device |-> {}]]
  /\ fetching = {}
  /\ sent = {} /\ arrived = {}
  /\ accepted = <<>>

RootSecret(ephemeral, signedSecret, oneTimeSecrets) ==
  <<{ephemeral, signedSecret} \cup oneTimeSecrets>>

\* start: nothing of an earlier life's sessions is restored.
Start(d) ==
  /\ StartStore(d)
  /\ sessions' = [sessions EXCEPT ![d] = [e \in Device |-> {}]]
  /\ fetching' = {i \in fetching : issued[i].by # d}
  /\ UNCHANGED <<sent, arrived, accepted>>

\* deleteConversation, and the session dropped by acceptIdentityChange.
Forget(d, e) ==
  /\ sessions[d][e] # {}
  /\ sessions' = [sessions EXCEPT ![d][e] = {}]
  /\ UNCHANGED <<preKeyVars, fetching, sent, arrived, accepted>>

\* ensureSession finds no session and asks for a bundle.
Fetch(d, e) ==
  /\ starts[d] > 0
  /\ sessions[d][e] = {}
  /\ TakeBundle(d, e)
  /\ fetching' = fetching \cup {Len(issued')}
  /\ UNCHANGED <<sessions, sent, arrived, accepted>>

NewSession(bundle) ==
  [ratchet |-> InitialiseInitiator(
     RootSecret(nextKey, bundle.signed, {k.key : k \in bundle.oneTime}),
     KeyPair(nextKey + 1), bundle.signed),
   pending |-> {[ephemeral |-> nextKey, oneTime |-> Ids(bundle.oneTime)]},
   establishedBy |-> Zero, disturbed |-> FALSE]

Sealing(d, e, s) ==
  [from |-> d, to |-> e, preamble |-> s.pending, msg |-> Sealed(s.ratchet)]

\* The answer comes: the new session replaces whatever is there by now, and
\* the message ensureSession was called for, if any, goes out with it.
StartSession(i) ==
  LET b == issued[i]
      s == NewSession(b)
  IN  /\ i \in fetching
      /\ nextKey + 1 < MaxKeys
      /\ fetching' = fetching \ {i}
      /\ nextKey' = nextKey + 2
      /\ \/ /\ sessions' = [sessions EXCEPT ![b.by][b.of] = {s}]
            /\ UNCHANGED sent
         \/ /\ Cardinality(sent) < MaxSends
            /\ sessions' = [sessions EXCEPT ![b.by][b.of] =
                              {[s EXCEPT !.ratchet = AfterEncrypt(@)]}]
            /\ sent' = sent \cup {Sealing(b.by, b.of, s)}
      /\ UNCHANGED <<starts, store, topUp, directory, issued, arrived, accepted>>

\* sendPayload over the session that is there.
Send(d, e) ==
  \E s \in sessions[d][e] :
    /\ CanEncrypt(s.ratchet)
    /\ Cardinality(sent) < MaxSends
    /\ sent' = sent \cup {Sealing(d, e, s)}
    /\ sessions' = [sessions EXCEPT ![d][e] = {[s EXCEPT !.ratchet = AfterEncrypt(@)]}]
    /\ UNCHANGED <<preKeyVars, fetching, arrived, accepted>>

-----------------------------------------------------------------------------
(* Receiving.                                                              *)

\* The initiator repeats its preamble until it hears from the responder; the
\* session its first message established takes the repetitions.
RoutedByNothing(s, m) == m.preamble = {}

RoutedTo(s, m) ==
  m.preamble = {} \/ \E p \in m.preamble : p.ephemeral = s.establishedBy

\* decryptEnvelope over an existing session.
InSession(s, m) == RatchetDecrypt(s.ratchet, m.msg, nextKey)

NextKeyAfter(result) ==
  IF result.state.sending.pub = nextKey THEN nextKey + 1 ELSE nextKey

HandshakeOf(root) == root[1]

ReceiveInSession(d, m) ==
  \E s \in sessions[d][m.from] :
    LET result == InSession(s, m) IN
    /\ RoutedTo(s, m)
    /\ sessions' = [sessions EXCEPT ![d][m.from] =
         {[s EXCEPT !.ratchet = result.state,
                    !.pending = IF result.ok /\ m.preamble = {} THEN {} ELSE @,
                    !.disturbed = \/ @ \/ m \in arrived
                                  \/ HandshakeOf(m.msg.mk.id) # HandshakeOf(s.ratchet.rootKey)]}]
    /\ nextKey' = NextKeyAfter(result)
    /\ UNCHANGED <<starts, store, topUp, directory, issued, accepted>>

\* The secrets a preamble names, looked up by id.
OneTimeFor(d, p) == {k \in store[d].oneTime : k.id \in p.oneTime}

Holds(d, p) == Ids(OneTimeFor(d, p)) = p.oneTime

\* respondToHandshake, and the first message over the ratchet it gives.
Answer(d, p, m) ==
  RatchetDecrypt(
    InitialiseResponder(
      RootSecret(p.ephemeral, store[d].signed.sec, {k.key : k \in OneTimeFor(d, p)}),
      store[d].signed),
    m.msg, nextKey)

\* One-time keys consumed whether or not the message opens, and as in the code.
ConsumeAlways(oneTime, p, ok) == {k \in oneTime : k.id \notin p.oneTime}

Consumed(oneTime, p, ok) ==
  IF ok THEN {k \in oneTime : k.id \notin p.oneTime} ELSE oneTime

\* A ratchet that works on its own copy of the pair, and the code's, which
\* shares it with the store: the first turn wipes the secret there too.
OwnCopy(pair) == pair

SharedPairAfterTurn(pair) == [pair EXCEPT !.sec = Zero]

Respond(d, m) ==
  \E p \in m.preamble :
    LET result == Answer(d, p, m) IN
    /\ Holds(d, p)
    /\ store' = [store EXCEPT ![d].signed = SharedPairAfterTurn(@),
                              ![d].oneTime = Consumed(@, p, result.ok)]
    /\ IF result.ok
       THEN /\ sessions' = [sessions EXCEPT ![d][m.from] =
                 {[ratchet |-> result.state, pending |-> {},
                   establishedBy |-> p.ephemeral, disturbed |-> FALSE]}]
            /\ nextKey' = NextKeyAfter(result)
            /\ accepted' = Append(accepted, [by |-> d, preamble |-> p])
       ELSE UNCHANGED <<sessions, nextKey, accepted>>
    /\ UNCHANGED <<starts, topUp, directory, issued>>

Refused(d, m) ==
  /\ m.preamble = {} \/ \E p \in m.preamble : ~Holds(d, p)
  /\ UNCHANGED <<preKeyVars, sessions, accepted>>

\* handleDelivered.
Receive(d) ==
  \E m \in sent :
    /\ m.to = d /\ starts[d] > 0
    /\ nextKey < MaxKeys
    /\ arrived' = arrived \cup {m}
    /\ IF \E s \in sessions[d][m.from] : RoutedTo(s, m)
       THEN ReceiveInSession(d, m)
       ELSE Respond(d, m) \/ Refused(d, m)
    /\ UNCHANGED <<fetching, sent>>

Others == UNCHANGED <<sessions, fetching, sent, arrived, accepted>>

Next ==
  \/ \E d \in Device :
       \/ Start(d) \/ Receive(d)
       \/ SeeCount(d) /\ Others
       \/ Replenish(d) /\ Others
       \/ \E e \in Device \ {d} : Fetch(d, e) \/ Send(d, e) \/ Forget(d, e)
  \/ \E i \in fetching : StartSession(i)

Spec == Init /\ [][Next]_vars

-----------------------------------------------------------------------------
\* The values the variables range over, and one session for each peer.
TypeOK ==
  /\ PreKeysTypeOK
  /\ \A d, e \in Device : sessions[d][e] \subseteq Session /\ Cardinality(sessions[d][e]) <= 1
  /\ fetching \subseteq DOMAIN issued
  /\ arrived \subseteq sent /\ sent \subseteq Envelope
  /\ accepted \in Seq([by : Device, preamble : Preamble])

\* A handshake is answered once, however often its messages come, also after
\* the conversation was forgotten or the device started again, and even when
\* it named no one-time key (decryptEnvelope, session.ts:296-369).
AnsweredOnce ==
  \A i, j \in DOMAIN accepted :
    accepted[i].preamble.ephemeral = accepted[j].preamble.ephemeral => i = j

\* A one-time prekey waits for the handshake it was handed out for: as long as
\* its device lives, its secret is there until that handshake is answered and
\* gone afterwards, whatever else arrives and fails (session.ts:364-369).
Answered(b) ==
  \E i \in DOMAIN accepted :
    accepted[i].by = b.of /\ b.oneTime # {} /\ accepted[i].preamble.oneTime = Ids(b.oneTime)

OneTimeSecretsWait ==
  \A i \in DOMAIN issued :
    LET b == issued[i] IN
    starts[b.of] = 1 =>
      IF Answered(b) THEN b.oneTime \cap store[b.of].oneTime = {}
                     ELSE b.oneTime \subseteq store[b.of].oneTime

\* Two sessions of one handshake, neither handed a message that is not its own,
\* understand each other: every message of theirs that has not arrived will
\* open, in any order, with or without the preamble.
Paired(s, t) ==
  /\ HandshakeOf(s.ratchet.rootKey) = HandshakeOf(t.ratchet.rootKey)
  /\ ~s.disturbed /\ ~t.disturbed

SessionsUnderstand ==
  \A m \in sent \ arrived :
    \A s \in sessions[m.from][m.to], t \in sessions[m.to][m.from] :
      Paired(s, t) /\ HandshakeOf(m.msg.mk.id) = HandshakeOf(t.ratchet.rootKey) =>
        RoutedTo(t, m) /\ InSession(t, m).ok

\* session.ts:177-178 calls the signed prekey "the one ratchet-capable key the
\* responder is guaranteed to hold": a device that published one holds it for
\* as long as it lives.
SignedPreKeyHeld ==
  \A d \in Device : starts[d] = 1 => store[d].signed.sec = store[d].signed.pub

\* messenger.ts:240 and docs/SECURITY.md:174: to re-handshake after a restart
\* "costs one round trip and is always safe", so what a running device's
\* directory entry hands out are keys the device has.
PublishedKeysAreHeld ==
  \A d \in Device : starts[d] > 0 =>
    \A account \in directory[d] : account.signed = store[d].signed.pub
=============================================================================
