------------------------- MODULE DoubleRatchetProofs -------------------------
(***************************************************************************)
(* For any number of messages, any bounds of the skipped cache and any     *)
(* arrivals, repeated ones included: no message key seals two messages.    *)
(*                                                                         *)
(* The argument.  generateDhKeyPair never repeats a pair, so pairs can be  *)
(* numbered in the order they are made.  A sending chain is derived last   *)
(* from its own pair and one of the peer's that already existed: the larger*)
(* number of that output is the sender's, so chains of different pairs, of *)
(* either side, differ; within a chain sentCount tells the messages apart. *)
(* The skipped cache plays no part in this: it needs only that receiving   *)
(* leaves the sending half alone or starts it again from a fresh pair.     *)
(*                                                                         *)
(* And what was decrypted once is gone from both ends.  The keys of a side *)
(* that may still decrypt are those ahead in its receiving chain and those *)
(* it kept, each once and behind the chain it came from; a turn derives    *)
(* chains longer than any before.  The chains of the two sides are derived *)
(* at alternate agreements: the parity of their length tells them apart.   *)
(*                                                                         *)
(* And what has not arrived will open.  As long as no message of a left    *)
(* chain comes whose key is gone, the roots of the two sides differ by one *)
(* agreement at most, and the key of each message not yet here is ahead in *)
(* the receiver's chain, in its cache, or of the chain it enters next.     *)
(***************************************************************************)
EXTENDS DoubleRatchet, RatchetProofs

\* The last agreement of a chain of pair k met an older key of the other side.
ChainOf(c, k) ==
  /\ c.id # <<>>
  /\ \E x \in c.id[Len(c.id)] : x < k /\ c.id[Len(c.id)] = {x, k}

SideInv(p) ==
  LET s == session[p] IN
  /\ Shaped(s)
  /\ s.sending.pub = s.sending.sec /\ s.sending.pub < nextKey
  /\ s.sendingChainKey = NoChain \/ ChainOf(s.sendingChainKey, s.sending.pub)
  /\ s.sendingChainKey.pos = s.sentCount

\* A message was sealed with a chain of the pair its header names; while that
\* pair is still its sender's, with an earlier position of the current chain.
MessageInv(m) ==
  /\ m = [from |-> m.from, msg |-> m.msg]
  /\ m.from \in Side
  /\ m.msg \in Message
  /\ m.msg.key < nextKey
  /\ ChainOf(m.msg.mk, m.msg.key)
  /\ m.msg.mk.pos = m.msg.n
  /\ \A p \in Side : m.msg.key = session[p].sending.pub =>
       /\ m.from = p
       /\ m.msg.mk.id = session[p].sendingChainKey.id
       /\ m.msg.n < session[p].sentCount

SameKeyInv ==
  \A m1, m2 \in sent : m1.msg.key = m2.msg.key =>
    /\ m1.msg.mk.id = m2.msg.mk.id
    /\ m1.msg.n = m2.msg.n => m1 = m2

KeyInv ==
  /\ nextKey \in Key
  /\ DOMAIN session = Side
  /\ \A p \in Side : SideInv(p)
  /\ session["initiator"].sending.pub # session["responder"].sending.pub
  /\ \A m \in sent : MessageInv(m)
  /\ SameKeyInv

-----------------------------------------------------------------------------
(* The invariant.                                                          *)

LEMMA InitKeyInv == Init => KeyInv
<1> SUFFICES ASSUME Init PROVE KeyInv
  OBVIOUS
<1> DEFINE i0    == session["initiator"]
           r0    == session["responder"]
           root0 == <<{2, 1}>>
<1>1. i0 = InitialiseInitiator(<<>>, KeyPair(2), 1) /\ r0 = InitialiseResponder(<<>>, KeyPair(1))
  BY DEF Init, Side, SignedPreKey, FirstRatchetKey
<1>2. Append(<<>>, Dh(KeyPair(2), 1)) = root0
  BY DEF Dh, KeyPair
<1>3. /\ i0.sending = KeyPair(2) /\ i0.sentCount = 0 /\ i0.sendingChainKey = ChainFrom(root0)
      /\ Shaped(i0)
  <2>1. root0 \in Seq(Output) /\ NoChain \in Chain /\ ChainFrom(root0) \in Chain
    BY DEF Output, Key, Chain, NoChain, ChainFrom
  <2>2. KeyPair(2) \in [pub : Key, sec : Key]
    BY DEF KeyPair, Key
  <2>3. i0 = [rootKey |-> root0, sending |-> KeyPair(2), receiving |-> 1,
              sendingChainKey |-> ChainFrom(root0), receivingChainKey |-> NoChain,
              sentCount |-> 0, receivedCount |-> 0, previousSentCount |-> 0,
              skipped |-> <<>>]
    BY <1>1, <1>2 DEF InitialiseInitiator
  <2>4. QED
    BY <2>1, <2>2, <2>3 DEF Shaped, Fields
<1>4. /\ r0.sending = KeyPair(1) /\ r0.sentCount = 0 /\ r0.sendingChainKey = NoChain
      /\ Shaped(r0)
  <2>1. <<>> \in Seq(Output) /\ NoChain \in Chain
    BY DEF Output, Key, Chain, NoChain
  <2>2. KeyPair(1) \in [pub : Key, sec : Key]
    BY DEF KeyPair, Key
  <2>3. QED
    BY <1>1, <2>1, <2>2 DEF InitialiseResponder, Shaped, Fields
<1>5. SideInv("initiator")
  <2>1. ChainOf(ChainFrom(root0), 2) /\ ChainFrom(root0).pos = 0
    BY DEF ChainOf, ChainFrom
  <2>2. i0.sending.pub = 2 /\ i0.sending.sec = 2 /\ nextKey = 3
    BY <1>3 DEF Init, KeyPair, FirstRatchetKey
  <2>3. QED
    BY <1>3, <2>1, <2>2 DEF SideInv
<1>6. SideInv("responder")
  <2>1. NoChain.pos = 0
    BY DEF NoChain
  <2>2. r0.sending.pub = 1 /\ r0.sending.sec = 1 /\ nextKey = 3
    BY <1>4 DEF Init, KeyPair, FirstRatchetKey
  <2>3. QED
    BY <1>4, <2>1, <2>2 DEF SideInv
<1>7. i0.sending.pub # r0.sending.pub
  BY <1>3, <1>4 DEF KeyPair
<1>8. QED
  BY <1>5, <1>6, <1>7 DEF KeyInv, Init, Side, SameKeyInv, Key, FirstRatchetKey

\* ratchetEncrypt uses a position of its chain that no message has used.
LEMMA SendKeepsKeyInv ==
  ASSUME KeyInv, NEW p \in Side, Send(p)
  PROVE  KeyInv'
<1> DEFINE s == session[p]
           t == AfterEncrypt(s)
<1>0. PICK e : e = [from |-> p, msg |-> Sealed(s)]
  OBVIOUS
<1>1. /\ SideInv(p) /\ Shaped(s) /\ CanEncrypt(s) /\ UNCHANGED nextKey
      /\ sent' = sent \cup {e} /\ session' = [session EXCEPT ![p] = t]
  BY <1>0 DEF KeyInv, SideInv, Send
<1>2. /\ s.sendingChainKey \in Chain /\ s.sentCount \in Nat
      /\ ChainOf(s.sendingChainKey, s.sending.pub)
  BY <1>1 DEF Shaped, SideInv, CanEncrypt
<1>3. /\ Advanced(s.sendingChainKey, 1) \in Chain
      /\ Advanced(s.sendingChainKey, 1).id = s.sendingChainKey.id
      /\ Advanced(s.sendingChainKey, 1).pos = s.sendingChainKey.pos + 1
  BY <1>2, AdvancedChain
<1>4. t = [s EXCEPT !.sendingChainKey = Advanced(s.sendingChainKey, 1),
                    !.sentCount = s.sentCount + 1]
  BY DEF AfterEncrypt
<1>5. /\ Shaped(t) /\ t.sending = s.sending /\ t.sentCount = s.sentCount + 1
      /\ t.sendingChainKey = Advanced(s.sendingChainKey, 1)
  BY <1>1, <1>2, <1>3, <1>4, SMTT(30) DEF Shaped, Fields
<1> HIDE DEF t
<1>6. DOMAIN session' = Side /\ session'[p] = t /\ \A q \in Side \ {p} : session'[q] = session[q]
  BY <1>1 DEF KeyInv
<1>7. ASSUME NEW q \in Side PROVE SideInv(q)'
  <2>1. CASE q = p
    <3>1. ChainOf(t.sendingChainKey, t.sending.pub)
      BY <1>2, <1>3, <1>5 DEF ChainOf
    <3>2. t.sendingChainKey.pos = t.sentCount
      BY <1>1, <1>2, <1>3, <1>5 DEF SideInv
    <3>3. t.sending.pub = t.sending.sec /\ t.sending.pub < nextKey'
      BY <1>1, <1>5 DEF SideInv
    <3>4. QED
      BY <1>5, <1>6, <2>1, <3>1, <3>2, <3>3 DEF SideInv
  <2>2. CASE q # p
    BY <1>1, <1>6, <2>2 DEF KeyInv, SideInv
  <2>3. QED
    BY <2>1, <2>2
<1>8. \A q \in Side : session'[q].sending = session[q].sending
  BY <1>5, <1>6
<1>9. session'["initiator"].sending.pub # session'["responder"].sending.pub
  BY <1>8 DEF KeyInv, Side
<1>10. ASSUME NEW m \in sent PROVE MessageInv(m)'
  <2>1. MessageInv(m)
    BY DEF KeyInv
  <2>2. ASSUME NEW q \in Side, m.msg.key = session'[q].sending.pub
        PROVE  /\ m.from = q /\ m.msg.mk.id = session'[q].sendingChainKey.id
               /\ m.msg.n < session'[q].sentCount
    <3>1. /\ m.from = q /\ m.msg.mk.id = session[q].sendingChainKey.id
          /\ m.msg.n < session[q].sentCount
      BY <1>8, <2>1, <2>2 DEF MessageInv
    <3>2. CASE q # p
      BY <1>6, <3>1, <3>2
    <3>3. CASE q = p
      <4>1. m.msg.n \in Nat
        BY <2>1 DEF MessageInv, Message
      <4>2. QED
        BY <1>2, <1>3, <1>5, <1>6, <3>1, <3>3, <4>1
    <3>4. QED
      BY <3>2, <3>3
  <2>3. QED
    BY <1>1, <2>1, <2>2 DEF MessageInv
<1>11. /\ e.from = p /\ e.msg = Sealed(s) /\ e = [from |-> e.from, msg |-> e.msg]
       /\ e.msg.key = s.sending.pub /\ e.msg.n = s.sentCount
       /\ e.msg.mk = s.sendingChainKey /\ e.msg \in Message
  <2>1. s.sending.pub \in Key /\ s.previousSentCount \in Nat
    BY <1>1 DEF Shaped
  <2>2. QED
    BY <1>0, <1>2, <2>1 DEF Sealed, Message
<1>12. MessageInv(e)'
  <2>1. e.msg.key < nextKey' /\ e.msg.mk.pos = e.msg.n /\ ChainOf(e.msg.mk, e.msg.key)
    BY <1>1, <1>2, <1>11 DEF SideInv
  <2>2. ASSUME NEW q \in Side, e.msg.key = session'[q].sending.pub
        PROVE  /\ e.from = q /\ e.msg.mk.id = session'[q].sendingChainKey.id
               /\ e.msg.n < session'[q].sentCount
    <3>1. q = p
      BY <1>8, <1>11, <2>2 DEF KeyInv, Side
    <3>2. QED
      BY <1>2, <1>3, <1>5, <1>6, <1>11, <3>1
  <2>3. QED
    BY <1>11, <2>1, <2>2 DEF MessageInv
<1>13. SameKeyInv'
  <2>1. ASSUME NEW m \in sent, m.msg.key = e.msg.key
        PROVE  m.msg.mk.id = e.msg.mk.id /\ m.msg.n # e.msg.n
    <3>1. m.msg.mk.id = s.sendingChainKey.id /\ m.msg.n < s.sentCount /\ m.msg.n \in Nat
      BY <1>11, <2>1 DEF KeyInv, MessageInv, Message
    <3>2. QED
      BY <1>2, <1>11, <3>1
  <2>2. QED
    BY <1>1, <2>1 DEF KeyInv, SameKeyInv
<1>14. nextKey' \in Key /\ \A m \in sent' : MessageInv(m)'
  BY <1>1, <1>10, <1>12 DEF KeyInv
<1>15. QED
  BY <1>6, <1>7, <1>9, <1>13, <1>14 DEF KeyInv

\* ratchetDecrypt: the sending half is as it was, or new from a fresh pair
\* that no header has named yet.
LEMMA ReceiveKeepsKeyInv ==
  ASSUME KeyInv, NEW p \in Side, Receive(p)
  PROVE  KeyInv'
<1>0. PICK m \in sent :
        /\ session' = [session EXCEPT ![p] = RatchetDecrypt(session[p], m.msg, nextKey).state]
        /\ nextKey' = IF RatchetDecrypt(session[p], m.msg, nextKey).state.sending.pub = nextKey
                      THEN nextKey + 1 ELSE nextKey
        /\ UNCHANGED sent
  BY Zenon DEF Receive, SentBy
<1>1. PICK t :
        /\ t = RatchetDecrypt(session[p], m.msg, nextKey).state
        /\ session' = [session EXCEPT ![p] = t]
        /\ nextKey' = IF t.sending.pub = nextKey THEN nextKey + 1 ELSE nextKey
        /\ UNCHANGED sent
  BY <1>0, Zenon
<1> DEFINE s == session[p]
<1>2. /\ Shaped(s) /\ SideInv(p) /\ nextKey \in Nat
      /\ m.msg \in Message /\ m.msg.key \in Nat /\ m.msg.key < nextKey
  BY DEF KeyInv, SideInv, MessageInv, Key, Message
<1>3. SameSending(s, t) \/ FreshSending(s, t, m.msg.key, nextKey)
  BY <1>1, <1>2, DecryptSending DEF Key
<1>4. DOMAIN session' = Side /\ session'[p] = t /\ \A q \in Side \ {p} : session'[q] = session[q]
  BY <1>1 DEF KeyInv
<1>5. nextKey' \in Nat /\ nextKey <= nextKey'
  BY <1>1, <1>2
<1>6. \A q \in Side \ {p} : session[q].sending.pub \in Nat /\ session[q].sending.pub < nextKey
  BY DEF KeyInv, SideInv, Shaped, Key
<1>7. SideInv(p)' /\ \A q \in Side \ {p} : session'[p].sending.pub # session[q].sending.pub
  <2>1. CASE SameSending(s, t)
    <3>1. /\ t.sending.pub = t.sending.sec /\ t.sending.pub < nextKey'
          /\ t.sending.pub \in Nat
      BY <1>2, <1>5, <2>1 DEF SideInv, SameSending, Shaped, Key
    <3>2. \A q \in Side \ {p} : session[p].sending.pub # session[q].sending.pub
      BY DEF KeyInv, Side
    <3>3. QED
      BY <1>2, <1>4, <2>1, <3>1, <3>2 DEF SideInv, SameSending
  <2>2. CASE FreshSending(s, t, m.msg.key, nextKey)
    <3>1. t.sending.pub = nextKey /\ t.sending.sec = nextKey
      BY <2>2 DEF FreshSending, KeyPair
    <3>2. nextKey' = nextKey + 1
      BY <1>1, <3>1
    <3>3. ChainOf(t.sendingChainKey, nextKey)
      BY <1>2, <2>2 DEF FreshSending, ChainOf
    <3>4. QED
      BY <1>2, <1>4, <1>6, <2>2, <3>1, <3>2, <3>3 DEF SideInv, FreshSending
  <2>3. QED
    BY <1>3, <2>1, <2>2
<1>8. ASSUME NEW q \in Side \ {p} PROVE SideInv(q)'
  BY <1>2, <1>4, <1>5, <1>6 DEF KeyInv, SideInv
<1>9. session'["initiator"].sending.pub # session'["responder"].sending.pub
  BY <1>4, <1>7 DEF Side
<1>10. ASSUME NEW n \in sent PROVE MessageInv(n)'
  <2>1. MessageInv(n) /\ n.msg.key \in Nat
    BY DEF KeyInv, MessageInv, Message, Key
  <2>2. n.msg.key < nextKey'
    BY <1>2, <1>5, <2>1 DEF MessageInv
  <2>3. ASSUME NEW q \in Side, n.msg.key = session'[q].sending.pub
        PROVE  /\ n.from = q /\ n.msg.mk.id = session'[q].sendingChainKey.id
               /\ n.msg.n < session'[q].sentCount
    <3>1. CASE q = p /\ FreshSending(s, t, m.msg.key, nextKey)
      <4>1. n.msg.key = nextKey
        BY <1>4, <2>3, <3>1 DEF FreshSending, KeyPair
      <4>2. QED
        BY <1>2, <2>1, <4>1 DEF MessageInv
    <3>2. CASE q = p /\ SameSending(s, t)
      BY <1>4, <2>1, <2>3, <3>2 DEF MessageInv, SameSending
    <3>3. CASE q # p
      BY <1>4, <2>1, <2>3, <3>3 DEF MessageInv
    <3>4. QED
      BY <1>3, <3>1, <3>2, <3>3
  <2>4. QED
    BY <2>1, <2>2, <2>3 DEF MessageInv
<1>11. SameKeyInv'
  BY <1>1 DEF KeyInv, SameKeyInv
<1>12. QED
  <2>1. \A q \in Side : SideInv(q)'
    BY <1>7, <1>8
  <2>2. \A n \in sent' : MessageInv(n)'
    BY <1>1, <1>10
  <2>3. QED
    BY <1>4, <1>5, <1>9, <1>11, <2>1, <2>2 DEF KeyInv, Key

\* The strengthening of MessageKeysUnique holds in every reachable state.
THEOREM KeyInvariance == Spec => []KeyInv
<1>1. KeyInv /\ [Next]_vars => KeyInv'
  <2> SUFFICES ASSUME KeyInv, [Next]_vars PROVE KeyInv'
    OBVIOUS
  <2>1. ASSUME NEW p \in Side, Send(p) PROVE KeyInv'
    BY <2>1, SendKeepsKeyInv
  <2>2. ASSUME NEW p \in Side, Receive(p) PROVE KeyInv'
    BY <2>2, ReceiveKeepsKeyInv
  <2>3. CASE UNCHANGED vars
    BY <2>3 DEF vars, KeyInv, SideInv, MessageInv, SameKeyInv
  <2>4. QED
    BY <2>1, <2>2, <2>3 DEF Next
<1>2. QED
  BY InitKeyInv, <1>1, PTL DEF Spec

\* Chains with one origin belong to one pair.
LEMMA OnePairPerChain ==
  ASSUME NEW c \in Chain, NEW k1 \in Nat, NEW k2 \in Nat, ChainOf(c, k1), ChainOf(c, k2)
  PROVE  k1 = k2
<1> DEFINE out == c.id[Len(c.id)]
<1>1. out \in SUBSET Nat
  BY DEF Chain, Output, Key, ChainOf
<1>2. PICK x1 \in out : x1 < k1 /\ out = {x1, k1}
  BY DEF ChainOf
<1>3. PICK x2 \in out : x2 < k2 /\ out = {x2, k2}
  BY DEF ChainOf
<1>4. x1 \in Nat /\ x2 \in Nat
  BY <1>1
<1> HIDE DEF out
<1>5. k1 \in {x2, k2} /\ k2 \in {x1, k1}
  BY <1>2, <1>3
<1>6. QED
  BY <1>2, <1>3, <1>4, <1>5

\* No message key of a session ever seals two messages (ratchetEncrypt).
THEOREM KeysNeverReused == Spec => []MessageKeysUnique
<1>1. KeyInv => MessageKeysUnique
  <2> SUFFICES ASSUME KeyInv, NEW m1 \in sent, NEW m2 \in sent, m1.msg.mk = m2.msg.mk
               PROVE  m1 = m2
    BY DEF MessageKeysUnique
  <2>1. /\ ChainOf(m1.msg.mk, m1.msg.key) /\ ChainOf(m2.msg.mk, m2.msg.key)
        /\ m1.msg.n = m2.msg.n
    BY DEF KeyInv, MessageInv
  <2>2. m1.msg.key \in Nat /\ m2.msg.key \in Nat
    BY DEF KeyInv, MessageInv, Message, Key
  <2>3. m1.msg.mk \in Chain
    BY DEF KeyInv, MessageInv, Message
  <2>4. ChainOf(m1.msg.mk, m2.msg.key)
    BY <2>1
  <2>5. m1.msg.key = m2.msg.key
    BY <2>1, <2>2, <2>3, <2>4, OnePairPerChain
  <2>6. QED
    BY <2>1, <2>5 DEF KeyInv, SameKeyInv
<1>2. QED
  BY KeyInvariance, <1>1, PTL

\* A turn of performDhRatchet cannot be followed by who copied the state
\* before it: its last agreement needs the fresh secret or the peer's.
THEOREM CopiedStateGoesStale == Spec => TurnsHeal
<1> DEFINE Healed(p) == session'[p].rootKey # session[p].rootKey =>
                          ~Follows(session[p], session'[p].sendingChainKey.id)
<1>1. ASSUME KeyInv, Next, NEW p \in Side PROVE Healed(p)
  <2>1. ASSUME NEW q \in Side, Send(q) PROVE Healed(p)
    <3>1. session' = [session EXCEPT ![q] = AfterEncrypt(session[q])]
      BY <2>1 DEF Send
    <3>2. Shaped(session[q]) /\ DOMAIN session = Side
      BY <1>1 DEF KeyInv, SideInv
    <3>3. AfterEncrypt(session[q]).rootKey = session[q].rootKey
      BY <3>2, SMTT(30) DEF AfterEncrypt, Shaped, Fields
    <3>4. QED
      BY <3>1, <3>2, <3>3
  <2>2. ASSUME NEW q \in Side, Receive(q) PROVE Healed(p)
    <3>0. PICK m \in sent :
            /\ m.from = Peer(q)
            /\ session' = [session EXCEPT ![q] =
                              RatchetDecrypt(session[q], m.msg, nextKey).state]
      BY <2>2, Zenon DEF Receive, SentBy
    <3>1. PICK t :
            /\ m.from = Peer(q)
            /\ t = RatchetDecrypt(session[q], m.msg, nextKey).state
            /\ session' = [session EXCEPT ![q] = t]
      BY <3>0, Zenon
    <3> DEFINE s    == session[q]
               root == t.sendingChainKey.id
    <3>2. /\ Shaped(s) /\ SideInv(q) /\ nextKey \in Key /\ DOMAIN session = Side
          /\ MessageInv(m) /\ m.msg \in Message
      BY <1>1 DEF KeyInv, SideInv, MessageInv
    <3>3. SameSending(s, t) \/ FreshSending(s, t, m.msg.key, nextKey)
      BY <3>1, <3>2, DecryptSending
    <3>4. CASE p # q \/ SameSending(s, t)
      BY <3>1, <3>2, <3>4 DEF SameSending
    <3>5. CASE p = q /\ FreshSending(s, t, m.msg.key, nextKey)
      <4>1. s.sending.sec # m.msg.key
        BY <3>1, <3>2 DEF SideInv, MessageInv, Peer, Side
      <4>2. s.sending.sec # nextKey
        BY <3>2 DEF SideInv, Shaped, Key
      <4>3. s.sending.sec \notin root[Len(root)]
        BY <3>5, <4>1, <4>2 DEF FreshSending
      <4>4. Len(s.rootKey) \in Nat /\ Len(root) \in Nat /\ Len(s.rootKey) < Len(root)
        BY <3>2, <3>5 DEF FreshSending, Shaped, Chain
      <4>5. ~Follows(s, root)
        BY <4>3, <4>4 DEF Follows
      <4>6. QED
        BY <3>1, <3>2, <3>5, <4>5
    <3>6. QED
      BY <3>3, <3>4, <3>5
  <2>3. QED
    BY <1>1, <2>1, <2>2 DEF Next
<1>2. KeyInv /\ Next => \A p \in Side : Healed(p)
  BY <1>1
<1>3. UNCHANGED vars => \A p \in Side : Healed(p)
  BY DEF vars
<1>4. QED
  BY KeyInvariance, <1>2, <1>3, PTL DEF TurnsHeal, Spec

-----------------------------------------------------------------------------
(* What each side can still decrypt.                                       *)

SideParity(p) == IF p = "initiator" THEN 1 ELSE 0

SpentInv ==
  /\ session \in [Side -> RatchetState]
  /\ \A p \in Side :
       Whole(session[p]) /\ Parity(Len(session[p].rootKey)) = SideParity(p)
  /\ \A m \in sent :
       /\ Len(m.msg.mk.id) <= Len(session[m.from].rootKey)
       /\ Parity(Len(m.msg.mk.id)) = SideParity(m.from)
  /\ delivered \subseteq arrived /\ arrived \subseteq sent
  /\ \A m \in delivered : Spent(session[Peer(m.from)], m.msg.mk)
  /\ evicted \subseteq Chain /\ staleArrival \in BOOLEAN

LEMMA InitSpentInv == Init => SpentInv
<1> SUFFICES ASSUME Init PROVE SpentInv
  OBVIOUS
<1>1. /\ DOMAIN session = Side /\ session = [p \in Side |-> session[p]]
      /\ session["initiator"] = InitialiseInitiator(<<>>, KeyPair(2), 1)
      /\ session["responder"] = InitialiseResponder(<<>>, KeyPair(1))
  BY DEF Init, Side, SignedPreKey, FirstRatchetKey
<1>2. /\ <<>> \in Seq(Output) /\ KeyPair(1) \in [pub : Key, sec : Key]
      /\ KeyPair(2) \in [pub : Key, sec : Key] /\ 1 \in Key
  BY DEF KeyPair, Key
<1>3. Whole(session["initiator"]) /\ Len(session["initiator"].rootKey) = 1
  <2>1. PICK root \in Seq(Output) : root = <<>>
    BY <1>2
  <2>2. LET s == InitialiseInitiator(root, KeyPair(2), 1)
        IN  Whole(s) /\ Len(s.rootKey) = Len(root) + 1
    BY <1>2, InitiatorWhole
  <2>3. QED
    BY <1>1, <2>1, <2>2
<1>4. Whole(session["responder"]) /\ Len(session["responder"].rootKey) = 0
  <2>1. Whole(session["responder"]) /\ session["responder"].rootKey = <<>>
    BY <1>1, <1>2, ResponderWhole
  <2>2. QED
    BY <2>1
<1>5. Parity(1) = 1 /\ Parity(0) = 0
  BY DEF Parity
<1>6. ASSUME NEW p \in Side
      PROVE  /\ Whole(session[p]) /\ Parity(Len(session[p].rootKey)) = SideParity(p)
             /\ session[p] \in RatchetState
  BY <1>3, <1>4, <1>5 DEF Side, SideParity, Whole
<1>7. session \in [Side -> RatchetState]
  BY <1>1, <1>6
<1>8. QED
  BY <1>6, <1>7 DEF SpentInv, Init

\* A message is sealed with the sender's own chain.
LEMMA SendKeepsSpentInv ==
  ASSUME KeyInv, SpentInv, NEW p \in Side, Send(p)
  PROVE  SpentInv'
<1>0. PICK e : e = [from |-> p, msg |-> Sealed(session[p])]
  OBVIOUS
<1>1. PICK t :
        /\ t = AfterEncrypt(session[p])
        /\ session' = [session EXCEPT ![p] = t]
  BY DEF Send
<1> DEFINE s == session[p]
<1>2. /\ sent' = sent \cup {e} /\ CanEncrypt(s)
      /\ UNCHANGED <<arrived, delivered, nextKey, evicted, staleArrival>>
  BY <1>0 DEF Send
<1>3. Whole(s) /\ Parity(Len(s.rootKey)) = SideParity(p)
  BY DEF SpentInv
<1>4. Moves(s, t) /\ t.rootKey = s.rootKey
  BY <1>1, <1>2, <1>3, EncryptMoves
<1>5. Whole(t) /\ t \in RatchetState
  BY <1>4 DEF Moves, Whole
<1>6. /\ session' \in [Side -> RatchetState]
      /\ session'[p] = t /\ \A q \in Side \ {p} : session'[q] = session[q]
  BY <1>1, <1>5 DEF SpentInv
<1>7. \A q \in Side : session'[q].rootKey = session[q].rootKey
  BY <1>4, <1>6
<1>8. \A q \in Side : Whole(session'[q]) /\ Parity(Len(session'[q].rootKey)) = SideParity(q)
  BY <1>5, <1>6, <1>7 DEF SpentInv
<1>9. /\ e.from = p /\ e.msg.mk = s.sendingChainKey
      /\ Len(e.msg.mk.id) <= Len(s.rootKey)
      /\ Parity(Len(e.msg.mk.id)) = SideParity(p)
  <2>1. e.from = p /\ e.msg.mk = s.sendingChainKey
    BY <1>0 DEF Sealed
  <2>2. QED
    BY <1>2, <1>3, <2>1 DEF Whole, CanEncrypt
<1>10. ASSUME NEW m \in sent'
       PROVE  /\ Len(m.msg.mk.id) <= Len(session'[m.from].rootKey)
              /\ Parity(Len(m.msg.mk.id)) = SideParity(m.from)
  <2>1. CASE m = e
    BY <1>7, <1>9, <2>1
  <2>2. CASE m \in sent
    <3>1. m.from \in Side
      BY <2>2 DEF KeyInv, MessageInv
    <3>2. QED
      BY <1>7, <2>2, <3>1 DEF SpentInv
  <2>3. QED
    BY <1>2, <2>1, <2>2
<1>11. ASSUME NEW m \in delivered PROVE Spent(session'[Peer(m.from)], m.msg.mk)
  <2>1. m \in sent /\ Spent(session[Peer(m.from)], m.msg.mk)
    BY DEF SpentInv
  <2>2. m.msg.mk \in Chain /\ Peer(m.from) \in Side
    BY <2>1 DEF KeyInv, MessageInv, Message, Peer, Side
  <2>3. CASE Peer(m.from) = p
    BY <1>4, <1>6, <2>1, <2>2, <2>3 DEF Moves
  <2>4. CASE Peer(m.from) # p
    BY <1>6, <2>1, <2>2, <2>4
  <2>5. QED
    BY <2>3, <2>4
<1>12. QED
  BY <1>2, <1>6, <1>8, <1>10, <1>11 DEF SpentInv

LEMMA ReceiveKeepsSpentInv ==
  ASSUME KeyInv, SpentInv, NEW p \in Side, Receive(p)
  PROVE  SpentInv'
<1>0. PICK m \in sent :
        /\ m.from = Peer(p)
        /\ session' = [session EXCEPT ![p] = RatchetDecrypt(session[p], m.msg, nextKey).state]
        /\ arrived' = arrived \cup {m} /\ UNCHANGED sent
        /\ delivered' = IF RatchetDecrypt(session[p], m.msg, nextKey).ok
                        THEN delivered \cup {m} ELSE delivered
        /\ evicted' = evicted \cup
             (SkippedKeys(session[p]) \
                (SkippedKeys(RatchetDecrypt(session[p], m.msg, nextKey).state)
                   \cup {m.msg.mk}))
        /\ staleArrival' = (staleArrival \/ LeftBehind(session[p], m.msg))
  BY Zenon DEF Receive, SentBy
<1>1. PICK r : r = RatchetDecrypt(session[p], m.msg, nextKey)
  OBVIOUS
<1>2. /\ session' = [session EXCEPT ![p] = r.state]
      /\ arrived' = arrived \cup {m} /\ UNCHANGED sent
      /\ delivered' = IF r.ok THEN delivered \cup {m} ELSE delivered
      /\ evicted' \subseteq evicted \cup SkippedKeys(session[p])
      /\ staleArrival' = (staleArrival \/ LeftBehind(session[p], m.msg))
  BY <1>0, <1>1, Zenon
<1> DEFINE s == session[p]
           t == r.state
<1>3. /\ Whole(s) /\ Parity(Len(s.rootKey)) = SideParity(p)
      /\ m.msg \in Message /\ m.msg.mk \in Chain /\ nextKey \in Key
  BY DEF SpentInv, KeyInv, MessageInv, Message
<1>4. /\ Moves(s, t)
      /\ r.ok => Spent(t, m.msg.mk)
  BY <1>1, <1>3, DecryptMoves
<1>5. Whole(t) /\ t \in RatchetState
  BY <1>4 DEF Moves, Whole
<1> HIDE DEF t
<1>6. /\ session' \in [Side -> RatchetState]
      /\ session'[p] = t /\ \A q \in Side \ {p} : session'[q] = session[q]
  BY <1>2, <1>5 DEF SpentInv, t
<1>7. ASSUME NEW q \in Side
      PROVE  /\ Whole(session'[q]) /\ Parity(Len(session'[q].rootKey)) = SideParity(q)
             /\ Len(session[q].rootKey) <= Len(session'[q].rootKey)
             /\ Len(session[q].rootKey) \in Nat /\ Len(session'[q].rootKey) \in Nat
  <2>1. Whole(session[q]) /\ Len(session[q].rootKey) \in Nat
    BY WholeTypes DEF SpentInv
  <2>2. CASE q = p
    <3>1. Len(t.rootKey) \in Nat
      BY <1>5, WholeTypes
    <3>2. QED
      BY <1>3, <1>4, <1>6, <2>1, <2>2, <3>1 DEF Moves
  <2>3. CASE q # p
    BY <1>6, <2>1, <2>3 DEF SpentInv
  <2>4. QED
    BY <2>2, <2>3
<1>8. ASSUME NEW n \in sent
      PROVE  /\ Len(n.msg.mk.id) <= Len(session'[n.from].rootKey)
             /\ Parity(Len(n.msg.mk.id)) = SideParity(n.from)
  <2>1. n.from \in Side /\ Len(n.msg.mk.id) \in Nat
    BY DEF KeyInv, MessageInv, Message, Chain
  <2>2. /\ Len(n.msg.mk.id) <= Len(session[n.from].rootKey)
        /\ Parity(Len(n.msg.mk.id)) = SideParity(n.from)
    BY DEF SpentInv
  <2>3. /\ Len(session[n.from].rootKey) <= Len(session'[n.from].rootKey)
        /\ Len(session[n.from].rootKey) \in Nat /\ Len(session'[n.from].rootKey) \in Nat
    BY <1>7, <2>1
  <2>4. \A a, b, c \in Nat : a <= b /\ b <= c => a <= c
    OBVIOUS
  <2>5. Len(n.msg.mk.id) <= Len(session'[n.from].rootKey)
    BY <2>1, <2>2, <2>3, <2>4, Zenon
  <2>6. QED
    BY <2>2, <2>5
<1>9. ASSUME NEW n \in delivered' PROVE Spent(session'[Peer(n.from)], n.msg.mk)
  <2>1. CASE n \in delivered
    <3>1. n \in sent /\ Spent(session[Peer(n.from)], n.msg.mk)
      BY <2>1 DEF SpentInv
    <3>2. n.msg.mk \in Chain /\ Peer(n.from) \in Side
      BY <3>1 DEF KeyInv, MessageInv, Message, Peer, Side
    <3>3. CASE Peer(n.from) = p
      BY <1>4, <1>6, <3>1, <3>2, <3>3 DEF Moves
    <3>4. CASE Peer(n.from) # p
      BY <1>6, <3>1, <3>2, <3>4
    <3>5. QED
      BY <3>3, <3>4
  <2>2. CASE n \notin delivered
    <3>1. n = m /\ r.ok
      BY <1>2, <2>2
    <3>2. Peer(n.from) = p
      BY <1>0, <3>1 DEF Peer, Side
    <3>3. QED
      BY <1>4, <1>6, <3>1, <3>2
  <2>3. QED
    BY <2>1, <2>2
<1>10. evicted' \subseteq Chain
  <2>1. s.skipped \in Seq(Skipped)
    BY <1>3, WholeTypes
  <2>2. SkippedKeys(s) \subseteq Chain
    <3>1. ASSUME NEW i \in DOMAIN s.skipped PROVE s.skipped[i].mk \in Chain
      <4>1. s.skipped[i] \in Skipped
        BY <2>1
      <4>2. QED
        BY <4>1 DEF Skipped
    <3>2. QED
      BY <3>1 DEF SkippedKeys
  <2>3. QED
    BY <1>2, <2>2 DEF SpentInv
<1>11. staleArrival' \in BOOLEAN
  <2>1. LeftBehind(s, m.msg) \in BOOLEAN
    BY DEF LeftBehind
  <2>2. QED
    BY <1>2, <2>1 DEF SpentInv
<1>12. delivered' \subseteq arrived' /\ arrived' \subseteq sent'
  BY <1>2 DEF SpentInv
<1>13. QED
  BY <1>2, <1>6, <1>7, <1>8, <1>9, <1>10, <1>11, <1>12 DEF SpentInv

\* Each side is whole, and what it has read it cannot read again.
THEOREM SpentInvariance == Spec => []SpentInv
<1>1. KeyInv /\ SpentInv /\ [Next]_vars => SpentInv'
  <2> SUFFICES ASSUME KeyInv, SpentInv, [Next]_vars PROVE SpentInv'
    OBVIOUS
  <2>1. ASSUME NEW p \in Side, Send(p) PROVE SpentInv'
    BY <2>1, SendKeepsSpentInv
  <2>2. ASSUME NEW p \in Side, Receive(p) PROVE SpentInv'
    BY <2>2, ReceiveKeepsSpentInv
  <2>3. CASE UNCHANGED vars
    BY <2>3 DEF vars, SpentInv
  <2>4. QED
    BY <2>1, <2>2, <2>3 DEF Next
<1>2. QED
  BY InitSpentInv, KeyInvariance, <1>1, PTL DEF Spec

\* The states that rememberSkipped, performDhRatchet and the commits leave:
\* chain keys go with their counters and the cache keeps its bound.
THEOREM SessionsWellTyped == Spec => []TypeOK
<1>1. KeyInv /\ SpentInv => TypeOK
  <2> SUFFICES ASSUME KeyInv, SpentInv PROVE TypeOK
    OBVIOUS
  <2>1. ASSUME NEW p \in Side
        PROVE  /\ session[p].sendingChainKey.pos = session[p].sentCount
               /\ session[p].receivingChainKey.pos = session[p].receivedCount
               /\ Len(session[p].skipped) <= MaxSkippedKeys
    BY DEF SpentInv, Whole, CacheOK
  <2>2. sent \subseteq Envelope
    <3> SUFFICES ASSUME NEW m \in sent PROVE m \in Envelope
      OBVIOUS
    <3>1. m = [from |-> m.from, msg |-> m.msg] /\ m.from \in Side /\ m.msg \in Message
      BY DEF KeyInv, MessageInv
    <3>2. QED
      BY <3>1 DEF Envelope
  <2>3. QED
    BY <2>1, <2>2 DEF TypeOK, SpentInv, KeyInv
<1>2. QED
  BY KeyInvariance, SpentInvariance, <1>1, PTL

\* A message that was delivered decrypts no second time (ratchetDecrypt).
THEOREM DeliveredOnce == Spec => []NoSecondAcceptance
<1>1. KeyInv /\ SpentInv => NoSecondAcceptance
  <2> SUFFICES ASSUME KeyInv, SpentInv, NEW m \in delivered
               PROVE  ~ RatchetDecrypt(session[Peer(m.from)], m.msg, nextKey).ok
    BY DEF NoSecondAcceptance
  <2>1. m \in sent /\ Spent(session[Peer(m.from)], m.msg.mk)
    BY DEF SpentInv
  <2>2. m.msg \in Message /\ Peer(m.from) \in Side /\ nextKey \in Key
    BY <2>1 DEF KeyInv, MessageInv, Peer, Side
  <2>3. Whole(session[Peer(m.from)])
    BY <2>2 DEF SpentInv
  <2>4. QED
    BY <2>1, <2>2, <2>3, DecryptMoves
<1>2. QED
  BY KeyInvariance, SpentInvariance, <1>1, PTL

\* Equal length and a common beginning: the same sequence.
LEMMA NoLongerPrefix ==
  ASSUME NEW S, NEW a \in Seq(S), NEW b \in Seq(S), Len(b) <= Len(a)
  PROVE  ~ IsStrictPrefix(a, b)
<1> SUFFICES ASSUME IsPrefix(a, b) PROVE a = b
  BY DEF IsStrictPrefix
<1>1. Len(a) = Len(b) /\ SubSeq(a, 1, Len(a)) = SubSeq(b, 1, Len(a))
  BY DEF IsPrefix
<1>2. QED
  BY <1>1

\* Neither end keeps anything that leads to the key of a delivered message
\* (the wipes and deletions of doubleRatchet.ts).
THEOREM DeliveredIsForgotten == Spec => []DeliveredKeysErased
<1>1. KeyInv /\ SpentInv => DeliveredKeysErased
  <2> SUFFICES ASSUME KeyInv, SpentInv, NEW m \in delivered, NEW p \in Side
               PROVE  ~ Derives(session[p], m.msg.mk)
    BY DEF DeliveredKeysErased
  <2> DEFINE s == session[p]
             mk == m.msg.mk
  <2>1. /\ m \in sent /\ Spent(session[Peer(m.from)], mk) /\ MessageInv(m)
        /\ Len(mk.id) <= Len(session[m.from].rootKey)
        /\ Parity(Len(mk.id)) = SideParity(m.from)
    BY DEF SpentInv, KeyInv
  <2>2. /\ m.from \in Side /\ mk \in Chain /\ m.msg \in Message
        /\ p = m.from \/ p = Peer(m.from)
    BY <2>1 DEF MessageInv, Message, Side, Peer
  <2>3. /\ Whole(s) /\ Parity(Len(s.rootKey)) = SideParity(p) /\ SideInv(p)
        /\ s.rootKey \in Seq(Output) /\ s.sendingChainKey \in Chain
    BY WholeTypes DEF SpentInv, KeyInv
  <2>4. Len(mk.id) <= Len(s.rootKey)
    BY <2>1, <2>2 DEF Spent
  <2>5. ~ IsStrictPrefix(s.rootKey, mk.id)
    BY <2>2, <2>3, <2>4, NoLongerPrefix DEF Chain
  <2>6. CASE p = m.from
    <3>1. \A i \in DOMAIN s.skipped : s.skipped[i].mk # mk
      BY <2>1, <2>3, <2>6 DEF Whole
    <3>2. ~ Reaches(s.receivingChainKey, mk)
      BY <2>1, <2>3, <2>6 DEF Whole, Reaches
    <3>3. ~ Reaches(s.sendingChainKey, mk)
      <4> SUFFICES ASSUME s.sendingChainKey # NoChain, s.sendingChainKey.id = mk.id,
                          s.sendingChainKey.pos <= mk.pos
                   PROVE  FALSE
        BY DEF Reaches
      <4>1. ChainOf(s.sendingChainKey, s.sending.pub) /\ ChainOf(mk, m.msg.key)
        BY <2>1, <2>3 DEF SideInv, MessageInv
      <4>2. ChainOf(mk, s.sending.pub)
        BY <4>1 DEF ChainOf
      <4>3. m.msg.key \in Nat /\ s.sending.pub \in Nat
        BY <2>2, <2>3 DEF Message, Key, SideInv, Shaped
      <4>4. m.msg.key = s.sending.pub
        BY <2>2, <4>1, <4>2, <4>3, OnePairPerChain
      <4>5. mk.pos < s.sentCount /\ s.sendingChainKey.pos = s.sentCount
        BY <2>1, <2>3, <4>4 DEF MessageInv, SideInv
      <4>6. mk.pos \in Nat /\ s.sentCount \in Nat
        BY <2>2, <2>3 DEF Chain, SideInv, Shaped
      <4>7. QED
        BY <4>5, <4>6
    <3>4. QED
      BY <2>5, <3>1, <3>2, <3>3 DEF Derives
  <2>7. CASE p = Peer(m.from)
    <3>1. SideParity(p) # SideParity(m.from)
      BY <2>2, <2>7 DEF SideParity, Peer, Side
    <3>2. ~ Reaches(s.sendingChainKey, mk)
      BY <2>1, <2>3, <3>1 DEF Whole, Reaches
    <3>3. QED
      BY <2>1, <2>5, <2>7, <3>2 DEF Derives, Spent
  <2>8. QED
    BY <2>2, <2>6, <2>7
<1>2. QED
  BY KeyInvariance, SpentInvariance, <1>1, PTL

-----------------------------------------------------------------------------
(* What has not arrived yet.                                              *)

\* What p sealed, and the keys that need not be there any more.
Sealings(p) == {m.msg : m \in SentBy(p)}
Gone == {m.msg.mk : m \in arrived} \cup evicted

InStepOf(p) ==
  InStep(session[p], session[Peer(p)], Sealings(p), Sealings(Peer(p)), Gone, Gone)

\* Between two calls the sides are in step, unless a message of a left chain
\* arrived whose key was gone: that one re-keys the session for nothing.
StepInv == ~staleArrival => \A p \in Side : InStepOf(p)

LEMMA Peers ==
  ASSUME NEW p \in Side
  PROVE  Peer(p) \in Side /\ Peer(Peer(p)) = p /\ Peer(p) # p /\ Side = {p, Peer(p)}
  BY DEF Peer, Side

\* initialiseInitiator and initialiseResponder.
LEMMA InitStepInv == Init => StepInv
<1> SUFFICES ASSUME Init PROVE \A p \in Side : InStepOf(p)
  BY DEF StepInv
<1>1. /\ session["initiator"] = InitialiseInitiator(<<>>, KeyPair(2), 1)
      /\ session["responder"] = InitialiseResponder(<<>>, KeyPair(1))
  BY DEF Init, Side, SignedPreKey, FirstRatchetKey
<1>2. Sealings("initiator") = {} /\ Sealings("responder") = {}
  BY DEF Init, Sealings, SentBy
<1>3. PICK root \in Seq(Output) : root = <<>>
  <2>1. <<>> \in Seq(Output)
    OBVIOUS
  <2>2. QED
    BY <2>1
<1>4. /\ 1 \in Key /\ 2 \in Key /\ 1 # Zero /\ 2 # Zero /\ 1 # 2
  BY DEF Key, Zero
<1>5. InStep(session["initiator"], session["responder"], {}, {}, Gone, Gone)
  BY <1>1, <1>3, <1>4, StartInStep
<1>6. InStep(session["responder"], session["initiator"], {}, {}, Gone, Gone)
  BY <1>5, InStepSwap
<1>7. QED
  BY <1>2, <1>5, <1>6 DEF InStepOf, Side, Peer

\* The relation is symmetric.
LEMMA OneSideInStep ==
  ASSUME NEW p \in Side, InStepOf(p)
  PROVE  \A q \in Side : InStepOf(q)
<1>1. InStepOf(Peer(p))
  BY Peers, InStepSwap DEF InStepOf
<1>2. QED
  BY <1>1, Peers

\* ratchetEncrypt.
LEMMA SendKeepsStepInv ==
  ASSUME SpentInv, StepInv, NEW p \in Side, Send(p)
  PROVE  StepInv'
<1> SUFFICES ASSUME ~ staleArrival PROVE InStepOf(p)'
  <2>1. staleArrival' = staleArrival
    BY DEF Send
  <2>2. InStepOf(p)' => \A q \in Side : InStepOf(q)'
    <3>1. ASSUME InStepOf(p)' PROVE InStepOf(Peer(p))'
      BY <3>1, Peers, InStepSwap DEF InStepOf
    <3>2. QED
      BY <3>1, Peers
  <2>3. QED
    BY <2>1, <2>2 DEF StepInv
<1>1. PICK s : s = session[p]
  OBVIOUS
<1>2. PICK t : t = session[Peer(p)]
  OBVIOUS
<1>3. /\ CanEncrypt(s) /\ sent' = sent \cup {[from |-> p, msg |-> Sealed(s)]}
      /\ session' = [session EXCEPT ![p] = AfterEncrypt(s)]
      /\ UNCHANGED <<arrived, evicted>>
  BY <1>1 DEF Send
<1>4. Whole(s) /\ Whole(t) /\ DOMAIN session = Side
  BY <1>1, <1>2, Peers DEF SpentInv
<1>5. InStep(s, t, Sealings(p), Sealings(Peer(p)), Gone, Gone)
  BY <1>1, <1>2 DEF StepInv, InStepOf
<1>6. InStep(AfterEncrypt(s), t, Sealings(p) \cup {Sealed(s)}, Sealings(Peer(p)), Gone, Gone)
  BY <1>3, <1>4, <1>5, SealInStep
<1>7. session'[p] = AfterEncrypt(s) /\ session'[Peer(p)] = t
  BY <1>2, <1>3, <1>4, Peers
<1>8. Sealings(p)' = Sealings(p) \cup {Sealed(s)}
  <2>1. PICK e : e = [from |-> p, msg |-> Sealed(s)]
    OBVIOUS
  <2>2. e.from = p /\ e.msg = Sealed(s)
    BY <2>1
  <2>3. SentBy(p)' = SentBy(p) \cup {e}
    BY <1>3, <2>1, <2>2 DEF SentBy
  <2>4. QED
    BY <2>2, <2>3 DEF Sealings
<1>9. Sealings(Peer(p))' = Sealings(Peer(p)) /\ Gone' = Gone
  BY <1>3, Peers DEF Sealings, SentBy, Gone
<1>10. QED
  BY <1>6, <1>7, <1>8, <1>9 DEF InStepOf

\* The pair generateDhKeyPair would give now.
LEMMA NextIsNew ==
  ASSUME KeyInv, NEW p \in Side
  PROVE  NewPair(session[Peer(p)], session[p], Sealings(p), nextKey)
<1>1. /\ nextKey \in Nat /\ session[p].sending.pub \in Nat /\ session[p].sending.pub < nextKey
  BY DEF KeyInv, SideInv, Shaped, Key
<1>2. \A w \in Sealings(p) : w.key < nextKey /\ w.key \in Nat
  BY DEF KeyInv, MessageInv, Message, Key, Sealings, SentBy
<1>3. nextKey # Zero
  BY <1>1 DEF Zero
<1>4. QED
  BY <1>1, <1>2, <1>3 DEF NewPair, Key

\* ratchetDecrypt, also when it throws half-way.
LEMMA ReceiveKeepsStepInv ==
  ASSUME KeyInv, SpentInv, StepInv, NEW p \in Side, Receive(p)
  PROVE  StepInv'
<1>0. PICK m \in SentBy(Peer(p)) :
        /\ session' = [session EXCEPT ![p] = RatchetDecrypt(session[p], m.msg, nextKey).state]
        /\ arrived' = arrived \cup {m} /\ UNCHANGED sent
        /\ evicted' = evicted \cup
             (SkippedKeys(session[p]) \
                (SkippedKeys(RatchetDecrypt(session[p], m.msg, nextKey).state)
                   \cup {m.msg.mk}))
        /\ staleArrival' = (staleArrival \/ LeftBehind(session[p], m.msg))
  BY Zenon DEF Receive
<1> SUFFICES ASSUME ~ staleArrival, ~ LeftBehind(session[p], m.msg) PROVE InStepOf(p)'
  <2>1. InStepOf(p)' => \A q \in Side : InStepOf(q)'
    <3>1. ASSUME InStepOf(p)' PROVE InStepOf(Peer(p))'
      BY <3>1, Peers, InStepSwap DEF InStepOf
    <3>2. QED
      BY <3>1, Peers
  <2>2. QED
    BY <1>0, <2>1 DEF StepInv
<1>1. PICK s : s = session[Peer(p)]
  OBVIOUS
<1>2. PICK t : t = session[p]
  OBVIOUS
<1>3. PICK u : u = RatchetDecrypt(t, m.msg, nextKey).state
  OBVIOUS
<1>4. Whole(s) /\ Whole(t) /\ DOMAIN session = Side
  BY <1>1, <1>2, Peers DEF SpentInv
<1>5. InStep(s, t, Sealings(Peer(p)), Sealings(p), Gone, Gone)
  BY <1>1, <1>2, Peers DEF StepInv, InStepOf
<1>6. m.msg \in Sealings(Peer(p))
  BY DEF Sealings
<1>7. Timely(s, t, m.msg)
  <2>1. m.msg.key = s.sending.pub \/ IsStrictPrefix(m.msg.mk.id, t.rootKey)
    BY <1>5, <1>6 DEF InStep, Stream
  <2>2. QED
    BY <1>2, <2>1 DEF Timely, LeftBehind
<1>8. NewPair(s, t, Sealings(p), nextKey)
  BY <1>1, <1>2, NextIsNew
<1>9. /\ Stream(s, u, Sealings(Peer(p)),
                Gone \cup {m.msg.mk} \cup (Cached(t.skipped) \ Cached(u.skipped)),
                MaxSkippedKeys)
      /\ Stream(u, s, Sealings(p), Gone, MaxSkippedKeys)
      /\ Leads(s, u) \/ Leads(u, s)
  BY <1>3, <1>4, <1>5, <1>6, <1>7, <1>8, ReceiveInStep
<1>10. session'[p] = u /\ session'[Peer(p)] = s
  BY <1>0, <1>1, <1>2, <1>3, <1>4, Peers
<1>11. \A q \in Side : Sealings(q)' = Sealings(q)
  BY <1>0 DEF Sealings, SentBy
<1>12. /\ Gone \cup {m.msg.mk} \cup (Cached(t.skipped) \ Cached(u.skipped)) \subseteq Gone'
       /\ Gone \subseteq Gone'
  <2>1. evicted' = evicted \cup (Cached(t.skipped) \ (Cached(u.skipped) \cup {m.msg.mk}))
    BY <1>0, <1>2, <1>3 DEF SkippedKeys, Cached
  <2>2. arrived' = arrived \cup {m}
    BY <1>0
  <2>3. QED
    BY <2>1, <2>2 DEF Gone
<1>13. /\ Stream(s, u, Sealings(Peer(p)), Gone', MaxSkippedKeys)
       /\ Stream(u, s, Sealings(p), Gone', MaxSkippedKeys)
  BY <1>9, <1>12, StreamGone
<1>14. InStep(u, s, Sealings(p), Sealings(Peer(p)), Gone', Gone')
  BY <1>9, <1>13 DEF InStep
<1>15. QED
  BY <1>10, <1>11, <1>14, Peers DEF InStepOf

\* ratchetEncrypt and ratchetDecrypt keep the two sides in step: each holds the
\* key of every message the other sealed, unless it arrived or was evicted.
THEOREM StepInvariance == Spec => []StepInv
<1>1. KeyInv /\ SpentInv /\ StepInv /\ [Next]_vars => StepInv'
  <2> SUFFICES ASSUME KeyInv, SpentInv, StepInv, [Next]_vars PROVE StepInv'
    OBVIOUS
  <2>1. ASSUME NEW p \in Side, Send(p) PROVE StepInv'
    BY <2>1, SendKeepsStepInv
  <2>2. ASSUME NEW p \in Side, Receive(p) PROVE StepInv'
    BY <2>2, ReceiveKeepsStepInv
  <2>3. CASE UNCHANGED vars
    BY <2>3 DEF vars, StepInv, InStepOf, Sealings, SentBy, Gone
  <2>4. QED
    BY <2>1, <2>2, <2>3 DEF Next
<1>2. QED
  BY InitStepInv, KeyInvariance, SpentInvariance, <1>1, PTL DEF Spec

\* A message that is late opens when it comes, in whatever order, unless its key
\* was evicted or its gap exceeds MAX_SKIP_PER_CHAIN, for any number of messages
\* and turns and any bounds of the cache, and as long as no message of a left
\* chain came whose key was gone (tryDecryptWithSkipped, skipReceivingKeys,
\* performDhRatchet in doubleRatchet.ts).
THEOREM LateMessagesDecrypt == Spec => []OutOfOrderDecrypts
<1>1. KeyInv /\ SpentInv /\ StepInv /\ MessageKeysUnique => OutOfOrderDecrypts
  <2> SUFFICES ASSUME KeyInv, SpentInv, StepInv, MessageKeysUnique, ~ staleArrival,
                      NEW m \in sent, Owed(m)
               PROVE  RatchetDecrypt(session[Peer(m.from)], m.msg, nextKey).ok
    BY DEF OutOfOrderDecrypts
  <2>1. PICK p \in Side : p = Peer(m.from) /\ m.from = Peer(p)
    BY Peers DEF KeyInv, MessageInv
  <2>2. PICK s : s = session[Peer(p)]
    OBVIOUS
  <2>3. PICK t : t = session[p]
    OBVIOUS
  <2>4. Whole(s) /\ Whole(t)
    BY <2>2, <2>3, Peers DEF SpentInv
  <2>5. InStep(s, t, Sealings(Peer(p)), Sealings(p), Gone, Gone)
    BY <2>2, <2>3, Peers DEF StepInv, InStepOf
  <2>6. m.msg \in Sealings(Peer(p)) /\ m.msg \in Message
    BY <2>1 DEF Sealings, SentBy, KeyInv, MessageInv
  <2>7. m.msg.mk \notin Gone
    <3>1. m \notin arrived /\ m.msg.mk \notin evicted /\ arrived \subseteq sent
      BY DEF Owed, SpentInv
    <3>2. QED
      BY <3>1 DEF Gone, MessageKeysUnique
  <2>8. SkippedFor(t, m.msg) = {} => WithinReach(t, m.msg)
    <3>1. /\ t.receivedCount \in Nat /\ m.msg.n \in Nat /\ m.msg.prev \in Nat
          /\ MaxSkipPerChain \in Nat
      BY <2>4, <2>6, WholeTypes, SkipBounds DEF Message
    <3>2. SkippedFor(t, m.msg) = {} => ~ TooFar(t, m.msg)
      BY <2>1, <2>3 DEF Owed
    <3>3. QED
      BY <3>1, <3>2 DEF TooFar, WithinReach
  <2>9. NewPair(s, t, Sealings(p), nextKey)
    BY <2>2, <2>3, NextIsNew
  <2>10. RatchetDecrypt(t, m.msg, nextKey).ok
    BY <2>4, <2>5, <2>6, <2>7, <2>8, <2>9, DecryptsInStep
  <2>11. QED
    BY <2>1, <2>3, <2>10
<1>2. QED
  BY KeyInvariance, SpentInvariance, StepInvariance, KeysNeverReused, <1>1, PTL
=============================================================================
