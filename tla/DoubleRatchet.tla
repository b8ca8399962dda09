---------------------------- MODULE DoubleRatchet ----------------------------
(***************************************************************************)
(* Two sides of one session, as startSession and decryptEnvelope leave     *)
(* them after a handshake, and the relay between them: any message sent    *)
(* may arrive late, out of order or never, and when Duplicates is TRUE     *)
(* more than once (the client handles what its socket drains and what      *)
(* sync() fetches without comparing them).                                 *)
(***************************************************************************)
EXTENDS Ratchet, FiniteSets

CONSTANTS
  Duplicates,   \* may the relay hand over a message again?
  MaxSends,     \* bound: messages each side sends
  MaxKeys       \* bound: key pairs ever generated (a replay can cost one each)

ASSUME DeliveryMode == Duplicates \in BOOLEAN

Side == {"initiator", "responder"}
Peer(p) == IF p = "initiator" THEN "responder" ELSE "initiator"

VARIABLES
  session,      \* RatchetState of each side
  sent,         \* every message ever sealed, with its sender
  arrived,      \* those the relay has handed over at least once
  delivered,    \* those decrypted and handed to the application
  nextKey,      \* generateDhKeyPair: the next unused key pair
  evicted,      \* history: message keys the skipped cache dropped
  staleArrival  \* history: a message came whose chain and key were both gone

vars == <<session, sent, arrived, delivered, nextKey, evicted, staleArrival>>

SignedPreKey == 1
FirstRatchetKey == 2

Init ==
  /\ session = [p \in Side |->
       IF p = "initiator"
       THEN InitialiseInitiator(<<>>, KeyPair(FirstRatchetKey), SignedPreKey)
       ELSE InitialiseResponder(<<>>, KeyPair(SignedPreKey))]
  /\ sent = {} /\ arrived = {} /\ delivered = {}
  /\ nextKey = FirstRatchetKey + 1
  /\ evicted = {}
  /\ staleArrival = FALSE

SentBy(p) == {m \in sent : m.from = p}

\* ratchetEncrypt, and the envelope's way to the relay.
Send(p) ==
  /\ CanEncrypt(session[p])
  /\ Cardinality(SentBy(p)) < MaxSends
  /\ sent' = sent \cup {[from |-> p, msg |-> Sealed(session[p])]}
  /\ session' = [session EXCEPT ![p] = AfterEncrypt(@)]
  /\ UNCHANGED <<arrived, delivered, nextKey, evicted, staleArrival>>

SkippedKeys(s) == {s.skipped[i].mk : i \in DOMAIN s.skipped}

\* A message of a chain this side has left, with no key kept for it: it was
\* read before, or its key was evicted.
LeftBehind(s, msg) ==
  /\ SkippedFor(s, msg) = {}
  /\ s.receiving # msg.key
  /\ IsStrictPrefix(msg.mk.id, s.rootKey)

\* ratchetDecrypt of one envelope, whatever became of it before.
Receive(p) ==
  \E m \in SentBy(Peer(p)) :
    LET s      == session[p]
        result == RatchetDecrypt(s, m.msg, nextKey)
        after  == result.state
    IN  /\ Duplicates \/ m \notin arrived
        /\ nextKey <= MaxKeys
        /\ arrived' = arrived \cup {m}
        /\ session' = [session EXCEPT ![p] = after]
        /\ delivered' = IF result.ok THEN delivered \cup {m} ELSE delivered
        /\ nextKey' = IF after.sending.pub = nextKey THEN nextKey + 1 ELSE nextKey
        /\ evicted' = evicted \cup
             (SkippedKeys(s) \ (SkippedKeys(after) \cup {m.msg.mk}))
        /\ staleArrival' = (staleArrival \/ LeftBehind(s, m.msg))
        /\ UNCHANGED sent

Next == \E p \in Side : Send(p) \/ Receive(p)

Spec == Init /\ [][Next]_vars

-----------------------------------------------------------------------------
Envelope == [from : Side, msg : Message]

\* The values the variables range over; a chain key has advanced as often as
\* its counter says, and the skipped cache respects its bound.
TypeOK ==
  /\ session \in [Side -> RatchetState]
  /\ \A p \in Side :
       /\ session[p].sendingChainKey.pos = session[p].sentCount
       /\ session[p].receivingChainKey.pos = session[p].receivedCount
       /\ Len(session[p].skipped) <= MaxSkippedKeys
  /\ sent \subseteq Envelope
  /\ delivered \subseteq arrived /\ arrived \subseteq sent
  /\ nextKey \in Key
  /\ evicted \subseteq Chain
  /\ staleArrival \in BOOLEAN

\* A message key seals one message, whichever side sent it and however often
\* either side was re-keyed, by genuine turns or by replays (ratchetEncrypt,
\* performDhRatchet): a key used twice is a nonce used twice.
MessageKeysUnique ==
  \A m1, m2 \in sent : m1.msg.mk = m2.msg.mk => m1 = m2

\* Nothing decrypted once decrypts again: the key of a delivered message is
\* neither in the skipped cache nor ahead in a chain (tryDecryptWithSkipped
\* deletes, the chain moves on).
NoSecondAcceptance ==
  \A m \in delivered : ~RatchetDecrypt(session[Peer(m.from)], m.msg, nextKey).ok

\* Forward secrecy of both ends: whoever copies either device now can not
\* compute the key of a message already read, not even through the root key.
DeliveredKeysErased ==
  \A m \in delivered, p \in Side : ~Derives(session[p], m.msg.mk)

\* Post-compromise security of performDhRatchet: whoever copied a side's state
\* cannot follow it through its next turn, because the new sending chain
\* needs a secret that was not there to be copied.
TurnsHeal ==
  [][\A p \in Side :
       session'[p].rootKey # session[p].rootKey =>
         ~Follows(session[p], session'[p].sendingChainKey.id)]_vars

\* A gap larger than the code will close for this message.
TooFar(s, msg) ==
  IF s.receiving = msg.key
  THEN msg.n > s.receivedCount + MaxSkipPerChain
  ELSE \/ msg.n > MaxSkipPerChain
       \/ s.receivingChainKey # NoChain /\ msg.prev > s.receivedCount + MaxSkipPerChain

\* The relay owes p this message, and p has not refused the size of its gap
\* or dropped its key on purpose.
Owed(m) ==
  /\ m \in sent \ arrived
  /\ m.msg.mk \notin evicted
  /\ SkippedFor(session[Peer(m.from)], m.msg) = {} =>
       ~TooFar(session[Peer(m.from)], m.msg)

\* Whatever the order of arrival, what has not arrived yet will decrypt when
\* it does: skipping, closing a chain and evicting lose no other message.
OutOfOrderDecrypts ==
  ~staleArrival =>
    \A m \in sent : Owed(m) => RatchetDecrypt(session[Peer(m.from)], m.msg, nextKey).ok

\* doubleRatchet.ts:451-459 and docs/PROTOCOL.md say more: what fails to
\* authenticate leaves the state untouched, so that no message that comes
\* again desynchronises a live session.
SessionSurvivesReplays ==
  \A m \in sent : Owed(m) => RatchetDecrypt(session[Peer(m.from)], m.msg, nextKey).ok
=============================================================================
