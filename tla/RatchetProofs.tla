---------------------------- MODULE RatchetProofs ----------------------------
(***************************************************************************)
(* What the operators of Ratchet do to a state, for any bounds of the      *)
(* skipped cache and any message, whether the call succeeds or throws.     *)
(*                                                                         *)
(* First the sending half, which receiving keeps or replaces by a fresh    *)
(* turn; this is all the uniqueness of keys needs. Then the keys a state   *)
(* can still open with, the receiving chain and the skipped cache, and     *)
(* what happens to them: Moves. The loop of skipReceivingKeys is argued    *)
(* by a least counterexample (LeastNumber).                                *)
(*                                                                         *)
(* Last what two sides of a session can read of each other: InStep, which  *)
(* every call keeps, and under which a message that is not gone opens.     *)
(***************************************************************************)
EXTENDS Ratchet, SequenceTheorems, WellFoundedInduction, TLAPS, FiniteSetTheorems

Fields == {"rootKey", "sending", "receiving", "sendingChainKey",
           "receivingChainKey", "sentCount", "receivedCount",
           "previousSentCount", "skipped"}

\* s has the fields of a RatchetState; skipped may be anything.
Shaped(s) ==
  /\ DOMAIN s = Fields
  /\ s.rootKey \in Seq(Output)
  /\ s.sending \in [pub : Key, sec : Key]
  /\ s.sendingChainKey \in Chain
  /\ s.receivingChainKey \in Chain
  /\ s.sentCount \in Nat /\ s.receivedCount \in Nat /\ s.previousSentCount \in Nat

-----------------------------------------------------------------------------
(* What receiving does to the sending half of a state and its root key.    *)

SameSending(s, t) ==
  /\ Shaped(t)
  /\ t.sending = s.sending /\ t.sendingChainKey = s.sendingChainKey
  /\ t.sentCount = s.sentCount /\ t.rootKey = s.rootKey

FreshSending(s, t, peerKey, fresh) ==
  /\ Shaped(t)
  /\ t.rootKey = t.sendingChainKey.id
  /\ \A i \in 1 .. Len(s.rootKey) : t.rootKey[i] = s.rootKey[i]
  /\ Len(s.rootKey) < Len(t.sendingChainKey.id)
  /\ t.sending = KeyPair(fresh)
  /\ t.sendingChainKey.pos = 0 /\ t.sentCount = 0
  /\ t.sendingChainKey.id # <<>>
  /\ t.sendingChainKey.id[Len(t.sendingChainKey.id)] = {fresh, peerKey}

\* advanceChain keeps the chain's origin and counts its steps.
LEMMA AdvancedChain ==
  ASSUME NEW c \in Chain, NEW k \in Nat
  PROVE  /\ Advanced(c, k) \in Chain
         /\ Advanced(c, k).id = c.id /\ Advanced(c, k).pos = c.pos + k
  BY SMT DEF Chain, Advanced

\* Storing skipped keys and moving the receiving chain up leaves the sending
\* half and the root key alone.
LEMMA CaughtUpKeepsSending ==
  ASSUME NEW s, Shaped(s), NEW until \in Nat, until >= s.receivedCount
  PROVE  SameSending(s, CaughtUp(s, until))
<1>1. s.receivedCount \in Nat /\ s.receivingChainKey \in Chain
  BY DEF Shaped
<1>2. until - s.receivedCount \in Nat
  BY <1>1
<1>3. Advanced(s.receivingChainKey, until - s.receivedCount) \in Chain
  BY <1>1, <1>2, AdvancedChain
<1>4. CaughtUp(s, until) =
        [s EXCEPT !.skipped = RememberAll(@, KeysAhead(s, until)),
                  !.receivingChainKey = Advanced(s.receivingChainKey, until - s.receivedCount),
                  !.receivedCount = until]
  BY DEF CaughtUp
<1>5. QED
  BY <1>3, <1>4, SMTT(30) DEF SameSending, Shaped, Fields

\* The state of a result.
LEMMA DoneState ==
  ASSUME NEW s
  PROVE  Done(TRUE, s).state = s /\ Done(FALSE, s).state = s
  BY DEF Done

\* skipReceivingKeys touches the receiving half only.
LEMMA SkipKeepsSending ==
  ASSUME NEW s, Shaped(s), NEW until \in Nat
  PROVE  SameSending(s, SkipReceivingKeys(s, until).state)
<1>1. SameSending(s, s)
  BY DEF SameSending
<1>2. CASE s.receivingChainKey = NoChain \/ s.receiving = Zero \/ until < s.receivedCount
  <2>1. SkipReceivingKeys(s, until) = Done(TRUE, s)
    BY <1>2, Zenon DEF SkipReceivingKeys
  <2>2. QED
    BY <1>1, <2>1, DoneState
<1>3. CASE ~(s.receivingChainKey = NoChain \/ s.receiving = Zero \/ until < s.receivedCount)
  <2>1. until >= s.receivedCount
    <3>1. s.receivedCount \in Nat
      BY DEF Shaped
    <3>2. QED
      BY <1>3, <3>1
  <2>2. SameSending(s, CaughtUp(s, until))
    BY <2>1, CaughtUpKeepsSending
  <2>3. CASE SkipReceivingKeys(s, until) = Done(FALSE, s)
    BY <1>1, <2>3, DoneState
  <2>4. CASE SkipReceivingKeys(s, until) = Done(TRUE, CaughtUp(s, until))
    BY <2>2, <2>4, DoneState
  <2>5. QED
    BY <1>3, <2>3, <2>4, Zenon DEF SkipReceivingKeys
<1>4. QED
  BY <1>2, <1>3

\* performDhRatchet leaves the sending half alone (it threw) or starts it from
\* the fresh pair and the key the header named.
LEMMA PerformSending ==
  ASSUME NEW s, Shaped(s), NEW m \in Message, NEW fresh \in Key
  PROVE  LET t == PerformDhRatchet(s, m, fresh).state
         IN  SameSending(s, t) \/ FreshSending(s, t, m.key, fresh)
<1> DEFINE closed == CloseChain(s, m)
           c      == closed.state
           pair   == NextPair(s, fresh)
           root1  == Append(c.rootKey, Dh(s.sending, m.key))
           root2  == Append(root1, Dh(pair, m.key))
           t      == [c EXCEPT
             !.previousSentCount = c.sentCount, !.sentCount = 0,
             !.receivedCount = 0, !.receiving = m.key,
             !.receivingChainKey = ChainFrom(root1),
             !.rootKey = root2, !.sending = pair,
             !.sendingChainKey = ChainFrom(root2)]
<1>1. m.prev \in Nat /\ m.key \in Key
  BY DEF Message
<1>2. SameSending(s, c)
  BY <1>1, SkipKeepsSending DEF CloseChain
<1>3. Shaped(c)
  BY <1>2 DEF SameSending
<1>4. CASE ~closed.ok
  <2>1. PerformDhRatchet(s, m, fresh) = closed
    BY <1>4, Zenon DEF PerformDhRatchet
  <2>2. QED
    BY <1>2, <2>1
<1>5. CASE closed.ok
  <2>1. PerformDhRatchet(s, m, fresh).state = t
    BY <1>5, DoneState, Zenon DEF PerformDhRatchet
  <2>2. pair = KeyPair(fresh) /\ pair \in [pub : Key, sec : Key] /\ pair.sec = fresh
    BY DEF NextPair, KeyPair
  <2>3. Dh(s.sending, m.key) \in Output /\ Dh(pair, m.key) = {fresh, m.key}
    BY <1>1, <2>2 DEF Dh, Output, Shaped
  <2>4. root1 \in Seq(Output) /\ Len(root1) = Len(s.rootKey) + 1
    BY <1>2, <1>3, <2>3 DEF Shaped, SameSending
  <2>5. Dh(pair, m.key) \in Output
    BY <1>1, <2>3 DEF Output
  <2>6. /\ root2 \in Seq(Output) /\ root2 # <<>>
        /\ root2[Len(root2)] = {fresh, m.key}
        /\ Len(root2) = Len(s.rootKey) + 2 /\ Len(s.rootKey) \in Nat
    <3>1. Len(s.rootKey) \in Nat
      BY DEF Shaped
    <3>2. root2 \in Seq(Output) /\ Len(root2) = Len(root1) + 1
      BY <2>4, <2>5
    <3>3. root2[Len(root2)] = {fresh, m.key}
      BY <2>3, <2>4, <2>5
    <3>4. QED
      BY <2>4, <3>1, <3>2, <3>3
  <2>7. \A i \in 1 .. Len(s.rootKey) : root2[i] = s.rootKey[i]
    <3>1. c.rootKey = s.rootKey /\ s.rootKey \in Seq(Output) /\ Len(s.rootKey) \in Nat
      BY <1>2 DEF SameSending, Shaped
    <3>2. \A i \in 1 .. Len(s.rootKey) : root1[i] = s.rootKey[i]
      BY <2>3, <3>1
    <3>3. QED
      BY <2>4, <2>5, <3>1, <3>2
  <2>8. /\ ChainFrom(root1) \in Chain /\ ChainFrom(root2) \in Chain
        /\ ChainFrom(root2).id = root2 /\ ChainFrom(root2).pos = 0
    BY <2>4, <2>6 DEF ChainFrom, Chain
  <2> HIDE DEF closed, c, pair, root1, root2
  <2>9. /\ DOMAIN t = Fields /\ t.rootKey = root2 /\ t.sending = pair
        /\ t.sendingChainKey = ChainFrom(root2)
        /\ t.receivingChainKey = ChainFrom(root1)
        /\ t.sentCount = 0 /\ t.receivedCount = 0
        /\ t.previousSentCount = c.sentCount
    BY <1>3, SMTT(30) DEF Shaped, Fields
  <2> HIDE DEF t
  <2>10. Shaped(t)
    BY <1>3, <2>2, <2>6, <2>8, <2>9 DEF Shaped
  <2>11. FreshSending(s, t, m.key, fresh)
    BY <2>2, <2>6, <2>7, <2>8, <2>9, <2>10 DEF FreshSending
  <2>12. QED
    BY <2>1, <2>11
<1>6. QED
  BY <1>4, <1>5

\* Both relations survive what leaves the sending half alone.
LEMMA SendingComposes ==
  ASSUME NEW s, NEW t, NEW u, NEW peerKey, NEW fresh, SameSending(t, u),
         SameSending(s, t) \/ FreshSending(s, t, peerKey, fresh)
  PROVE  SameSending(s, u) \/ FreshSending(s, u, peerKey, fresh)
  BY DEF SameSending, FreshSending

\* The commit moves the receiving chain one step.
LEMMA CommitKeepsSending ==
  ASSUME NEW s, Shaped(s)
  PROVE  SameSending(s, CommitReceived(s))
<1>0. s.receivingChainKey \in Chain /\ s.receivedCount \in Nat
  BY DEF Shaped
<1>1. Advanced(s.receivingChainKey, 1) \in Chain /\ s.receivedCount + 1 \in Nat
  BY <1>0, AdvancedChain
<1>2. CommitReceived(s) =
        [s EXCEPT !.receivingChainKey = Advanced(s.receivingChainKey, 1),
                  !.receivedCount = s.receivedCount + 1]
  BY DEF CommitReceived
<1>3. QED
  BY <1>1, <1>2, SMTT(30) DEF SameSending, Shaped, Fields

\* Deleting a used skipped key changes the cache only.
LEMMA ConsumeKeepsSending ==
  ASSUME NEW s, Shaped(s), NEW i
  PROVE  SameSending(s, ConsumeSkipped(s, i))
  BY SMTT(30) DEF ConsumeSkipped, SameSending, Shaped, Fields

\* decryptInChain: whatever it returns, and wherever it throws.
LEMMA InChainSending ==
  ASSUME NEW s, Shaped(s), NEW m \in Message, NEW fresh \in Key
  PROVE  LET t == DecryptInChain(s, m, fresh).state
         IN  SameSending(s, t) \/ FreshSending(s, t, m.key, fresh)
<1> DEFINE turned == IF s.receiving = m.key THEN Done(TRUE, s)
                                            ELSE PerformDhRatchet(s, m, fresh)
           caught == IF turned.ok THEN SkipReceivingKeys(turned.state, m.n) ELSE turned
           c      == caught.state
<1>1. m.n \in Nat /\ SameSending(s, s)
  BY DEF Message, SameSending
<1>2. SameSending(s, turned.state) \/ FreshSending(s, turned.state, m.key, fresh)
  <2>1. CASE s.receiving = m.key
    BY <1>1, <2>1, DoneState, Zenon
  <2>2. CASE s.receiving # m.key
    BY <2>2, PerformSending, Zenon
  <2>3. QED
    BY <2>1, <2>2
<1>3. Shaped(turned.state)
  BY <1>2 DEF SameSending, FreshSending
<1>4. SameSending(s, c) \/ FreshSending(s, c, m.key, fresh)
  <2> HIDE DEF turned
  <2>1. SameSending(turned.state, SkipReceivingKeys(turned.state, m.n).state)
    BY <1>1, <1>3, SkipKeepsSending
  <2>2. LET u == SkipReceivingKeys(turned.state, m.n).state
        IN  SameSending(s, u) \/ FreshSending(s, u, m.key, fresh)
    BY <1>2, <2>1, SendingComposes, Zenon
  <2>3. QED
    BY <1>2, <2>2, Zenon
<1>5. Shaped(c)
  BY <1>4 DEF SameSending, FreshSending
<1>6. \/ SameSending(s, CommitReceived(c))
      \/ FreshSending(s, CommitReceived(c), m.key, fresh)
  <2> HIDE DEF c
  <2> QED
    BY <1>4, <1>5, CommitKeepsSending, SendingComposes, Zenon
<1>7. \/ DecryptInChain(s, m, fresh) = Done(TRUE, CommitReceived(c))
      \/ DecryptInChain(s, m, fresh) = Done(FALSE, c)
  BY Zenon DEF DecryptInChain
<1>8. QED
  BY <1>4, <1>6, <1>7, DoneState, Zenon

\* ratchetDecrypt as a whole.
LEMMA DecryptSending ==
  ASSUME NEW s, Shaped(s), NEW m \in Message, NEW fresh \in Key
  PROVE  LET t == RatchetDecrypt(s, m, fresh).state
         IN  SameSending(s, t) \/ FreshSending(s, t, m.key, fresh)
<1>1. CASE SkippedFor(s, m) = {}
  BY <1>1, InChainSending, Zenon DEF RatchetDecrypt
<1>2. CASE SkippedFor(s, m) # {}
  <2>1. SameSending(s, TryDecryptWithSkipped(s, m).state)
    <3> DEFINE i == CHOOSE i \in SkippedFor(s, m) : TRUE
    <3>1. \/ TryDecryptWithSkipped(s, m) = Done(TRUE, ConsumeSkipped(s, i))
          \/ TryDecryptWithSkipped(s, m) = Done(FALSE, s)
      BY Zenon DEF TryDecryptWithSkipped
    <3>2. SameSending(s, s) /\ SameSending(s, ConsumeSkipped(s, i))
      BY ConsumeKeepsSending DEF SameSending
    <3>3. QED
      BY <3>1, <3>2, DoneState, Zenon
  <2>2. QED
    BY <1>2, <2>1, Zenon DEF RatchetDecrypt
<1>3. QED
  BY <1>1, <1>2

-----------------------------------------------------------------------------
(* Sending, and the two ends of a handshake.                               *)

\* encrypt counts a message; what the chain was derived with stays.
LEMMA EncryptKeepsRoot ==
  ASSUME NEW s, Shaped(s)
  PROVE  /\ Shaped(AfterEncrypt(s))
         /\ AfterEncrypt(s).rootKey = s.rootKey
         /\ AfterEncrypt(s).sendingChainKey.id = s.sendingChainKey.id
<1>1. s.sendingChainKey \in Chain /\ s.sentCount \in Nat
  BY DEF Shaped
<1>2. /\ Advanced(s.sendingChainKey, 1) \in Chain /\ s.sentCount + 1 \in Nat
      /\ Advanced(s.sendingChainKey, 1).id = s.sendingChainKey.id
  <2>1. /\ Advanced(s.sendingChainKey, 1) \in Chain
        /\ Advanced(s.sendingChainKey, 1).id = s.sendingChainKey.id
    BY <1>1, AdvancedChain
  <2>2. QED
    BY <1>1, <2>1
<1>3. AfterEncrypt(s) =
        [s EXCEPT !.sendingChainKey = Advanced(s.sendingChainKey, 1),
                  !.sentCount = s.sentCount + 1]
  BY DEF AfterEncrypt
<1>4. QED
  BY <1>2, <1>3, SMTT(30) DEF Shaped, Fields

LEMMA SealedMessage ==
  ASSUME NEW s, Shaped(s)
  PROVE  Sealed(s) \in Message /\ Sealed(s).mk = s.sendingChainKey
BY SMT DEF Sealed, Message, Shaped, Chain, Key

\* The initiator's chain is derived with the handshake's root secret.
LEMMA InitiatorState ==
  ASSUME NEW root \in Seq(Output), root # <<>>, NEW pair \in [pub : Key, sec : Key],
         NEW peerKey \in Key
  PROVE  LET s == InitialiseInitiator(root, pair, peerKey)
         IN  /\ Shaped(s)
             /\ s.rootKey # <<>> /\ s.rootKey[1] = root[1]
             /\ s.sendingChainKey.id = s.rootKey
<1> DEFINE s == InitialiseInitiator(root, pair, peerKey)
           full == Append(root, Dh(pair, peerKey))
<1>1. Dh(pair, peerKey) \in Output
  BY DEF Dh, Output
<1>2. full \in Seq(Output) /\ full # <<>> /\ full[1] = root[1]
  BY <1>1
<1> HIDE DEF full
<1>3. /\ ChainFrom(full) \in Chain /\ ChainFrom(full).id = full /\ NoChain \in Chain
  BY <1>2 DEF ChainFrom, Chain, NoChain
<1>4. /\ DOMAIN s = Fields /\ s.rootKey = full /\ s.sending = pair
      /\ s.sendingChainKey = ChainFrom(full) /\ s.receivingChainKey = NoChain
      /\ s.sentCount = 0 /\ s.receivedCount = 0 /\ s.previousSentCount = 0
  BY SMTT(30) DEF InitialiseInitiator, Fields, full
<1> HIDE DEF s
<1>5. QED
  BY <1>2, <1>3, <1>4 DEF Shaped, s

\* The responder's state, before its first message.
LEMMA ResponderState ==
  ASSUME NEW root \in Seq(Output), NEW pair \in [pub : Key, sec : Key]
  PROVE  LET s == InitialiseResponder(root, pair)
         IN  /\ Shaped(s)
             /\ s.rootKey = root /\ s.sending = pair /\ s.receiving = Zero
             /\ s.receivingChainKey = NoChain /\ s.receivedCount = 0 /\ s.skipped = <<>>
<1> DEFINE s == InitialiseResponder(root, pair)
<1>1. NoChain \in Chain
  BY DEF Chain, NoChain
<1>2. /\ DOMAIN s = Fields /\ s.rootKey = root /\ s.sending = pair /\ s.receiving = Zero
      /\ s.sendingChainKey = NoChain /\ s.receivingChainKey = NoChain /\ s.skipped = <<>>
      /\ s.sentCount = 0 /\ s.receivedCount = 0 /\ s.previousSentCount = 0
  BY SMTT(30) DEF InitialiseResponder, Fields
<1> HIDE DEF s
<1>3. QED
  BY <1>1, <1>2 DEF Shaped, s

\* Where a chain starts empty nothing is skipped, and catching up keeps what
\* the chain was derived with.
LEMMA SkipKeepsChain ==
  ASSUME NEW s, Shaped(s), NEW until \in Nat
  PROVE  LET t == SkipReceivingKeys(s, until).state
         IN  /\ t.receivingChainKey.id = s.receivingChainKey.id
             /\ s.receivingChainKey = NoChain => SkipReceivingKeys(s, until) = Done(TRUE, s)
<1>1. /\ DOMAIN s = Fields /\ s.receivingChainKey \in Chain /\ s.receivedCount \in Nat
  BY DEF Shaped
<1>2. CASE s.receivingChainKey = NoChain \/ s.receiving = Zero \/ until < s.receivedCount
  <2>1. SkipReceivingKeys(s, until) = Done(TRUE, s)
    BY <1>2, Zenon DEF SkipReceivingKeys
  <2>2. QED
    BY <2>1, DoneState
<1>3. CASE ~(s.receivingChainKey = NoChain \/ s.receiving = Zero \/ until < s.receivedCount)
  <2>1. until - s.receivedCount \in Nat
    BY <1>1, <1>3
  <2>2. CaughtUp(s, until).receivingChainKey = Advanced(s.receivingChainKey, until - s.receivedCount)
    BY <1>1, SMTT(30) DEF CaughtUp, Fields
  <2>3. CaughtUp(s, until).receivingChainKey.id = s.receivingChainKey.id
    BY <1>1, <2>1, <2>2, AdvancedChain
  <2>4. \/ SkipReceivingKeys(s, until) = Done(FALSE, s)
        \/ SkipReceivingKeys(s, until) = Done(TRUE, CaughtUp(s, until))
    BY <1>3, Zenon DEF SkipReceivingKeys
  <2>5. QED
    BY <1>3, <2>3, <2>4, DoneState
<1>4. QED
  BY <1>2, <1>3

\* A responder whose first turn fails has no chain; after it, the chain is
\* derived with the handshake's root secret and one agreement.
LEMMA FirstTurn ==
  ASSUME NEW root \in Seq(Output), NEW pair \in [pub : Key, sec : Key],
         NEW m \in Message, NEW fresh \in Key
  PROVE  LET t == PerformDhRatchet(InitialiseResponder(root, pair), m, fresh).state
         IN  Shaped(t) /\ t.receivingChainKey.id = Append(root, Dh(pair, m.key))
<1> DEFINE s == InitialiseResponder(root, pair)
           c == CloseChain(s, m).state
           next == NextPair(s, fresh)
           root1 == Append(c.rootKey, Dh(s.sending, m.key))
           root2 == Append(root1, Dh(next, m.key))
           t == [c EXCEPT
             !.previousSentCount = c.sentCount, !.sentCount = 0,
             !.receivedCount = 0, !.receiving = m.key,
             !.receivingChainKey = ChainFrom(root1),
             !.rootKey = root2, !.sending = next,
             !.sendingChainKey = ChainFrom(root2)]
<1>1. /\ Shaped(s) /\ s.rootKey = root /\ s.sending = pair /\ s.receivingChainKey = NoChain
  BY ResponderState
<1> HIDE DEF s
<1>2. m.prev \in Nat
  BY DEF Message
<1>3. CloseChain(s, m) = Done(TRUE, s)
  BY <1>1, <1>2, SkipKeepsChain, Zenon DEF CloseChain
<1>4. CloseChain(s, m).ok /\ c = s
  BY <1>3 DEF Done
<1>5. PerformDhRatchet(s, m, fresh).state = t
  BY <1>4, DoneState, Zenon DEF PerformDhRatchet
<1>6. Shaped(PerformDhRatchet(s, m, fresh).state)
  BY <1>1, PerformSending DEF SameSending, FreshSending
<1>7. root1 = Append(root, Dh(pair, m.key))
  BY <1>1, <1>4
<1>8. DOMAIN c = Fields
  BY <1>1, <1>4 DEF Shaped
<1> HIDE DEF c, root1, root2, next
<1>9. t.receivingChainKey = ChainFrom(root1)
  BY <1>8, SMTT(30) DEF Fields
<1> HIDE DEF t
<1>10. t.receivingChainKey.id = root1
  BY <1>9 DEF ChainFrom
<1>11. QED
  BY <1>5, <1>6, <1>7, <1>10 DEF s

\* A responder opens nothing that was not sealed with its root secret.
LEMMA ResponderOpens ==
  ASSUME NEW root \in Seq(Output), root # <<>>, NEW pair \in [pub : Key, sec : Key],
         NEW m \in Message, NEW fresh \in Key,
         RatchetDecrypt(InitialiseResponder(root, pair), m, fresh).ok
  PROVE  m.mk.id[1] = root[1]
<1> DEFINE s == InitialiseResponder(root, pair)
           turned == IF s.receiving = m.key THEN Done(TRUE, s)
                                            ELSE PerformDhRatchet(s, m, fresh)
           caught == IF turned.ok THEN SkipReceivingKeys(turned.state, m.n) ELSE turned
           c      == caught.state
<1>1. /\ Shaped(s) /\ s.receiving = Zero /\ s.receivingChainKey = NoChain /\ s.skipped = <<>>
  BY ResponderState
<1>2. m.n \in Nat /\ m.key \in Key
  BY DEF Message
<1>3. SkippedFor(s, m) = {}
  BY <1>1 DEF SkippedFor
<1>4. RatchetDecrypt(s, m, fresh) = DecryptInChain(s, m, fresh)
  BY <1>3, Zenon DEF RatchetDecrypt
<1>5. DecryptInChain(s, m, fresh).ok
  BY <1>4
<1>6. caught.ok /\ c.receivingChainKey # NoChain /\ c.receivingChainKey = m.mk
  <2>1. \/ /\ caught.ok /\ c.receivingChainKey # NoChain /\ c.receivingChainKey = m.mk
        \/ DecryptInChain(s, m, fresh) = Done(FALSE, c)
    BY Zenon DEF DecryptInChain
  <2>2. ~Done(FALSE, c).ok
    BY DEF Done
  <2>3. QED
    BY <1>5, <2>1, <2>2, Zenon
<1>7. CASE s.receiving = m.key
  <2>1. turned = Done(TRUE, s) /\ turned.ok /\ turned.state = s
    BY <1>7, Zenon, DoneState DEF Done
  <2>2. SkipReceivingKeys(s, m.n) = Done(TRUE, s)
    BY <1>1, <1>2, SkipKeepsChain
  <2>3. c = s
    BY <2>1, <2>2, DoneState
  <2>4. QED
    BY <1>1, <1>6, <2>3
<1>8. CASE s.receiving # m.key
  <2>1. turned = PerformDhRatchet(s, m, fresh)
    BY <1>8, Zenon
  <2>2. Shaped(turned.state) /\ turned.state.receivingChainKey.id = Append(root, Dh(pair, m.key))
    <3>1. /\ Shaped(PerformDhRatchet(s, m, fresh).state)
          /\ PerformDhRatchet(s, m, fresh).state.receivingChainKey.id
               = Append(root, Dh(pair, m.key))
      BY FirstTurn
    <3>2. QED
      BY <2>1, <3>1, Zenon
  <2>3. c.receivingChainKey.id = turned.state.receivingChainKey.id
    <3>1. CASE turned.ok
      BY <1>2, <2>2, <3>1, SkipKeepsChain, Zenon
    <3>2. CASE ~turned.ok
      BY <3>2, Zenon
    <3>3. QED
      BY <3>1, <3>2
  <2>4. m.mk.id = Append(root, Dh(pair, m.key))
    BY <1>6, <2>2, <2>3, Zenon
  <2>5. Dh(pair, m.key) \in Output
    BY <1>2 DEF Dh, Output
  <2>6. QED
    BY <2>4, <2>5
<1>9. QED
  BY <1>7, <1>8
-----------------------------------------------------------------------------
(* A loop is a function on the positions it has passed; what is true of it *)
(* is argued from the first position where it would be false.              *)

\* A set of numbers that is not empty has a least one.
LEMMA LeastNumber ==
  ASSUME NEW T, T \subseteq Nat, T # {}
  PROVE  \E n \in T : \A m \in T : n <= m
<1> DEFINE R == OpToRel(<, Nat)
<1>1. IsWellFoundedOn(R, Nat)
  BY NatLessThanWellFounded
<1>2. \A x, y \in Nat : x < y => <<x, y>> \in R
  BY DEF OpToRel
<1> HIDE DEF R
<1>3. PICK n \in T : \A m \in T : ~ (<<m, n>> \in R)
  BY <1>1, WFMin
<1>4. ASSUME NEW m \in T PROVE n <= m
  <2>1. m \in Nat /\ n \in Nat /\ ~ (<<m, n>> \in R)
    BY <1>3
  <2>2. ~ (m < n)
    BY <1>2, <2>1
  <2>3. QED
    BY <2>1, <2>2
<1>5. QED
  BY <1>4

\* The states of the cache while the loop of skipReceivingKeys stores the
\* first n of the entries.
RememberRun(run, skipped, entries, n) ==
  run = [i \in 0 .. n |->
           IF i = 0 THEN skipped ELSE RememberSkipped(run[i - 1], entries[i])]

LEMMA RunSteps ==
  ASSUME NEW q, NEW es, NEW n \in Nat, NEW run, RememberRun(run, q, es, n)
  PROVE  /\ DOMAIN run = 0 .. n
         /\ run[0] = q
         /\ \A i \in 1 .. n : run[i] = RememberSkipped(run[i - 1], es[i])
<1>1. /\ DOMAIN run = 0 .. n
      /\ \A i \in 0 .. n : run[i] = IF i = 0 THEN q ELSE RememberSkipped(run[i - 1], es[i])
  BY Zenon DEF RememberRun
<1>2. 0 \in 0 .. n /\ \A i \in 1 .. n : i \in 0 .. n /\ i # 0
  OBVIOUS
<1>3. QED
  BY <1>1, <1>2

LEMMA RunExists ==
  ASSUME NEW q, NEW es, NEW N \in Nat
  PROVE  \E run : RememberRun(run, q, es, N)
<1> DEFINE Missing == {n \in 0 .. N : \A run : ~ RememberRun(run, q, es, n)}
<1> SUFFICES ASSUME Missing # {} PROVE FALSE
  OBVIOUS
<1>1. Missing \subseteq Nat
  OBVIOUS
<1>2. PICK n \in Missing : \A m \in Missing : n <= m
  BY <1>1, LeastNumber
<1>3. n \in 0 .. N /\ \A run : ~ RememberRun(run, q, es, n)
  OBVIOUS
<1>4. CASE n = 0
  <2> DEFINE g == [i \in 0 .. 0 |-> q]
  <2>1. \A i \in 0 .. 0 : i = 0
    OBVIOUS
  <2>2. g = [i \in 0 .. 0 |-> IF i = 0 THEN q ELSE RememberSkipped(g[i - 1], es[i])]
    BY <2>1, Zenon
  <2> HIDE DEF g
  <2>3. QED
    BY <1>3, <1>4, <2>2 DEF RememberRun
<1>5. CASE n # 0
  <2>1. n - 1 \in 0 .. N /\ n - 1 < n /\ ~ (n <= n - 1)
    BY <1>3, <1>5
  <2>2. n - 1 \notin Missing
    BY <1>2, <2>1
  <2>12. PICK k : k = n - 1
    OBVIOUS
  <2>3. PICK f : RememberRun(f, q, es, k)
    BY <2>1, <2>2, <2>12
  <2>4. /\ f[0] = q
        /\ \A i \in 1 .. n - 1 : f[i] = RememberSkipped(f[i - 1], es[i])
    <3>1. k \in Nat
      BY <2>1, <2>12
    <3>2. f[0] = q /\ \A i \in 1 .. k : f[i] = RememberSkipped(f[i - 1], es[i])
      BY <2>3, <3>1, RunSteps
    <3>3. QED
      BY <2>12, <3>2
  <2> DEFINE g == [i \in 0 .. n |->
                     IF i = n THEN RememberSkipped(f[n - 1], es[n]) ELSE f[i]]
  <2>5. \A i \in 0 .. n : i # 0 => i - 1 \in 0 .. n /\ i - 1 # n
    BY <1>3
  <2>6. \A i \in 0 .. n : i # 0 => g[i - 1] = f[i - 1]
    BY <2>5
  <2>7. \A i \in 0 .. n : i # 0 /\ i # n => i \in 1 .. n - 1
    BY <1>3
  <2>8. ASSUME NEW i \in 0 .. n
        PROVE  g[i] = IF i = 0 THEN q ELSE RememberSkipped(g[i - 1], es[i])
    <3>1. CASE i = 0
      BY <1>5, <2>4, <3>1
    <3>2. CASE i = n
      BY <1>5, <2>6, <3>2
    <3>3. CASE i # 0 /\ i # n
      <4>1. g[i] = f[i]
        BY <3>3
      <4>2. f[i] = RememberSkipped(f[i - 1], es[i])
        BY <2>4, <2>7, <3>3
      <4>3. g[i - 1] = f[i - 1]
        BY <2>6, <3>3
      <4> HIDE DEF g
      <4>4. QED
        BY <3>3, <4>1, <4>2, <4>3
    <3>4. QED
      BY <3>1, <3>2, <3>3
  <2>9. g = [i \in 0 .. n |-> g[i]]
    OBVIOUS
  <2> HIDE DEF g
  <2>10. g = [i \in 0 .. n |-> IF i = 0 THEN q ELSE RememberSkipped(g[i - 1], es[i])]
    BY <2>8, <2>9, Zenon
  <2>11. QED
    BY <1>3, <2>10 DEF RememberRun
<1>6. QED
  BY <1>4, <1>5

\* RememberAll is where such a run ends.
LEMMA RememberAllRun ==
  ASSUME NEW q, NEW es, Len(es) \in Nat
  PROVE  \E run : RememberRun(run, q, es, Len(es)) /\ RememberAll(q, es) = run[Len(es)]
<1> DEFINE r == CHOOSE run : RememberRun(run, q, es, Len(es))
<1>1. RememberRun(r, q, es, Len(es))
  BY RunExists
<1>2. RememberAll(q, es) = r[Len(es)]
  BY Zenon DEF RememberAll, RememberRun
<1>3. QED
  BY <1>1, <1>2

-----------------------------------------------------------------------------
(* The skipped cache.                                                      *)

\* Within its bound, and no key kept twice.
CacheOK(q) ==
  /\ q \in Seq(Skipped) /\ Len(q) <= MaxSkippedKeys
  /\ \A i, j \in DOMAIN q : q[i].mk = q[j].mk => i = j

\* Every entry of r is one of q; or one of q, or e.
Within(r, q)  == \A i \in DOMAIN r : \E j \in DOMAIN q : r[i] = q[j]
From(r, q, e) == \A i \in DOMAIN r : r[i] = e \/ \E j \in DOMAIN q : r[i] = q[j]

LEMMA RemovedOne ==
  ASSUME NEW S, NEW q \in Seq(S), NEW i \in DOMAIN q
  PROVE  LET r == RemoveAt(q, i)
         IN  /\ r \in Seq(S) /\ Len(r) = Len(q) - 1
             /\ \A j \in DOMAIN r : j \in Nat /\ r[j] = q[IF j < i THEN j ELSE j + 1]
             /\ \A j \in DOMAIN r : (IF j < i THEN j ELSE j + 1) \in DOMAIN q \ {i}
<1> DEFINE a == SubSeq(q, 1, i - 1)
           b == SubSeq(q, i + 1, Len(q))
<1>1. i \in 1 .. Len(q) /\ Len(q) \in Nat
  OBVIOUS
<1>2. /\ a \in Seq(S) /\ Len(a) = i - 1
      /\ \A j \in 1 .. i - 1 : a[j] = q[j]
  BY <1>1
<1>3. /\ b \in Seq(S) /\ Len(b) = Len(q) - i
      /\ \A j \in 1 .. Len(q) - i : b[j] = q[i + j]
  BY <1>1
<1> DEFINE r == RemoveAt(q, i)
<1>4. r = a \o b
  BY DEF RemoveAt
<1> HIDE DEF a, b, r
<1>5. r \in Seq(S) /\ Len(r) = Len(q) - 1
  BY <1>1, <1>2, <1>3, <1>4
<1>6. ASSUME NEW j \in 1 .. Len(q) - 1
      PROVE  r[j] = q[IF j < i THEN j ELSE j + 1]
  <2>1. CASE j < i
    BY <1>1, <1>2, <1>3, <1>4, <2>1
  <2>2. CASE ~(j < i)
    <3>1. j - (i - 1) \in 1 .. Len(q) - i /\ i + (j - (i - 1)) = j + 1
      BY <1>1, <2>2
    <3>2. r[j] = b[j - (i - 1)]
      <4>1. j \in 1 .. Len(a) + Len(b) /\ j > Len(a) /\ Len(a) \in Nat /\ Len(b) \in Nat
        BY <1>1, <1>2, <1>3, <2>2
      <4>2. (a \o b)[j] = b[j - Len(a)]
        <5>1. \A k \in 1 .. Len(a) + Len(b) :
                (a \o b)[k] = IF k <= Len(a) THEN a[k] ELSE b[k - Len(a)]
          BY <1>2, <1>3, ConcatProperties
        <5>2. ~(j <= Len(a))
          BY <1>2, <2>2, <4>1
        <5>3. QED
          BY <4>1, <5>1, <5>2, Zenon
      <4>3. QED
        BY <1>2, <1>4, <4>2
    <3>3. QED
      BY <1>3, <2>2, <3>1, <3>2
  <2>3. QED
    BY <2>1, <2>2
<1>7. DOMAIN r = 1 .. Len(q) - 1
  BY <1>5
<1>8. QED
  BY <1>1, <1>5, <1>6, <1>7 DEF r

LEMMA RemovedKeeps ==
  ASSUME NEW q, CacheOK(q), NEW i \in DOMAIN q
  PROVE  LET r == RemoveAt(q, i)
         IN  /\ CacheOK(r) /\ Len(r) < MaxSkippedKeys
             /\ Within(r, q)
             /\ \A j \in DOMAIN r : r[j].mk # q[i].mk
<1> DEFINE r == RemoveAt(q, i)
           at(j) == IF j < i THEN j ELSE j + 1
<1>1. q \in Seq(Skipped)
  BY DEF CacheOK
<1>2. /\ r \in Seq(Skipped) /\ Len(r) = Len(q) - 1
      /\ \A j \in DOMAIN r : j \in Nat /\ r[j] = q[at(j)]
      /\ \A j \in DOMAIN r : at(j) \in DOMAIN q \ {i}
  BY <1>1, RemovedOne
<1> HIDE DEF r
<1>3. \A j, k \in DOMAIN r : at(j) = at(k) => j = k
  BY <1>1, <1>2
<1>4. Len(r) < MaxSkippedKeys /\ Len(r) <= MaxSkippedKeys
  BY <1>1, <1>2, SkipBounds DEF CacheOK
<1> HIDE DEF at
<1>5. \A j, k \in DOMAIN r : r[j].mk = r[k].mk => j = k
  BY <1>2, <1>3 DEF CacheOK
<1>6. \A j \in DOMAIN r : r[j].mk # q[i].mk
  BY <1>2 DEF CacheOK
<1>7. Within(r, q)
  BY <1>2 DEF Within
<1>8. QED
  BY <1>2, <1>4, <1>5, <1>6, <1>7 DEF CacheOK, r

LEMMA AppendedKeeps ==
  ASSUME NEW q, CacheOK(q), Len(q) < MaxSkippedKeys, NEW e \in Skipped,
         \A i \in DOMAIN q : q[i].mk # e.mk
  PROVE  CacheOK(Append(q, e)) /\ From(Append(q, e), q, e)
<1> DEFINE r == Append(q, e)
<1>1. q \in Seq(Skipped) /\ Len(q) \in Nat /\ DOMAIN q = 1 .. Len(q)
  BY DEF CacheOK
<1>2. /\ r \in Seq(Skipped) /\ Len(r) = Len(q) + 1 /\ DOMAIN r = 1 .. Len(q) + 1
      /\ \A j \in 1 .. Len(q) : r[j] = q[j]
      /\ r[Len(q) + 1] = e
  BY <1>1
<1> HIDE DEF r
<1>3. Len(r) <= MaxSkippedKeys
  BY <1>1, <1>2, SkipBounds
<1>4. \A j, k \in DOMAIN r : r[j].mk = r[k].mk => j = k
  <2> SUFFICES ASSUME NEW j \in DOMAIN r, NEW k \in DOMAIN r, r[j].mk = r[k].mk
               PROVE  j = k
    OBVIOUS
  <2>1. ASSUME NEW i \in DOMAIN r
        PROVE  (i \in DOMAIN q /\ r[i] = q[i]) \/ (i = Len(q) + 1 /\ r[i] = e)
    BY <1>1, <1>2
  <2>2. QED
    BY <2>1 DEF CacheOK
<1>5. From(r, q, e)
  BY <1>1, <1>2 DEF From
<1>6. QED
  BY <1>2, <1>3, <1>4, <1>5 DEF CacheOK, r

\* rememberSkipped evicts or replaces at most, and stores the entry.
LEMMA RememberKeeps ==
  ASSUME NEW q, CacheOK(q), NEW e \in Skipped, \A i \in DOMAIN q : q[i].mk # e.mk
  PROVE  CacheOK(RememberSkipped(q, e)) /\ From(RememberSkipped(q, e), q, e)
<1> DEFINE kept == IF Len(q) >= MaxSkippedKeys THEN Tail(q) ELSE q
           same == Replaced(kept, e)
           rest == IF same = {} THEN kept ELSE RemoveAt(kept, CHOOSE i \in same : TRUE)
<1>1. RememberSkipped(q, e) = Append(rest, e)
  BY DEF RememberSkipped
<1>2. q \in Seq(Skipped) /\ Len(q) \in Nat
  BY DEF CacheOK
<1>3. CacheOK(kept) /\ Len(kept) < MaxSkippedKeys /\ Within(kept, q)
  <2>1. CASE Len(q) >= MaxSkippedKeys
    <3>1. kept = Tail(q) /\ Len(q) > 0 /\ q # <<>>
      BY <1>2, <2>1, SkipBounds
    <3>2. 1 \in DOMAIN q /\ RemoveAt(q, 1) = Tail(q)
      <4> DEFINE r == RemoveAt(q, 1)
      <4>1. 1 \in DOMAIN q
        BY <1>2, <3>1
      <4>2. /\ r \in Seq(Skipped) /\ Len(r) = Len(q) - 1
            /\ \A j \in DOMAIN r : j \in Nat /\ r[j] = q[IF j < 1 THEN j ELSE j + 1]
        BY <1>2, <4>1, RemovedOne
      <4> HIDE DEF r
      <4>3. \A j \in 1 .. Len(q) - 1 : r[j] = q[j + 1]
        BY <1>2, <4>2
      <4>4. /\ Tail(q) \in Seq(Skipped) /\ Len(Tail(q)) = Len(q) - 1
            /\ \A j \in 1 .. Len(q) - 1 : Tail(q)[j] = q[j + 1]
        BY <1>2, <3>1
      <4>5. r = Tail(q)
        BY <1>2, <4>2, <4>3, <4>4
      <4>6. QED
        BY <4>1, <4>5 DEF r
    <3>3. QED
      BY <3>1, <3>2, RemovedKeeps
  <2>2. CASE ~(Len(q) >= MaxSkippedKeys)
    <3>1. kept = q /\ Len(q) < MaxSkippedKeys
      BY <1>2, <2>2, SkipBounds
    <3>2. QED
      BY <3>1 DEF Within
  <2>3. QED
    BY <2>1, <2>2
<1> HIDE DEF kept
<1>4. CacheOK(rest) /\ Len(rest) < MaxSkippedKeys /\ Within(rest, kept)
  <2>1. CASE same = {}
    BY <1>3, <2>1 DEF Within
  <2>2. CASE same # {}
    <3>1. PICK i \in same : rest = RemoveAt(kept, i)
      BY <2>2, Zenon
    <3>2. i \in DOMAIN kept
      BY DEF Replaced
    <3>3. QED
      BY <1>3, <3>1, <3>2, RemovedKeeps
  <2>3. QED
    BY <2>1, <2>2
<1> HIDE DEF rest, same
<1>5. Within(rest, q)
  BY <1>3, <1>4 DEF Within
<1>6. \A i \in DOMAIN rest : rest[i].mk # e.mk
  BY <1>5 DEF Within
<1>7. CacheOK(Append(rest, e)) /\ From(Append(rest, e), rest, e)
  BY <1>4, <1>6, AppendedKeeps
<1>8. From(Append(rest, e), q, e)
  BY <1>5, <1>7 DEF From, Within
<1>9. QED
  BY <1>1, <1>7, <1>8

\* Every entry of r is one of q, or one of the first n of es.
FromBoth(r, q, es, n) ==
  \A i \in DOMAIN r : \/ \E j \in DOMAIN q : r[i] = q[j]
                      \/ \E j \in 1 .. n : r[i] = es[j]

\* The loop of skipReceivingKeys: every iteration keeps what one keeps.
LEMMA RememberAllKeeps ==
  ASSUME NEW q, CacheOK(q), NEW es \in Seq(Skipped),
         \A i, j \in DOMAIN es : es[i].mk = es[j].mk => i = j,
         \A i \in DOMAIN q, j \in DOMAIN es : q[i].mk # es[j].mk
  PROVE  CacheOK(RememberAll(q, es)) /\ FromBoth(RememberAll(q, es), q, es, Len(es))
<1>1. PICK N \in Nat : N = Len(es)
  OBVIOUS
<1>2. PICK run : RememberRun(run, q, es, N) /\ RememberAll(q, es) = run[N]
  BY <1>1, RememberAllRun
<1>3. run[0] = q /\ \A i \in 1 .. N : run[i] = RememberSkipped(run[i - 1], es[i])
  BY <1>2, RunSteps
<1> DEFINE Good(n) == CacheOK(run[n]) /\ FromBoth(run[n], q, es, n)
           Bad == {n \in 0 .. N : ~ Good(n)}
<1>4. Bad = {}
  <2> SUFFICES ASSUME Bad # {} PROVE FALSE
    OBVIOUS
  <2>1. Bad \subseteq Nat
    OBVIOUS
  <2>2. PICK n \in Bad : \A m \in Bad : n <= m
    BY <2>1, LeastNumber
  <2>3. n \in 0 .. N /\ ~ Good(n)
    OBVIOUS
  <2>4. n # 0
    <3>1. Good(0)
      BY <1>3 DEF FromBoth
    <3>2. QED
      BY <2>3, <3>1
  <2>5. PICK k : k = n - 1
    OBVIOUS
  <2>6. k \in 0 .. N /\ n = k + 1 /\ ~ (n <= k) /\ n \in 1 .. N /\ k \in Nat
    BY <2>3, <2>4, <2>5
  <2>7. Good(k)
    BY <2>2, <2>6
  <2>8. run[n] = RememberSkipped(run[k], es[n])
    BY <1>3, <2>5, <2>6
  <2>9. es[n] \in Skipped /\ n \in DOMAIN es
    BY <1>1, <2>6
  <2>10. \A i \in DOMAIN run[k] : run[k][i].mk # es[n].mk
    <3> SUFFICES ASSUME NEW i \in DOMAIN run[k] PROVE run[k][i].mk # es[n].mk
      OBVIOUS
    <3>1. CASE \E j \in DOMAIN q : run[k][i] = q[j]
      BY <2>9, <3>1
    <3>2. CASE \E j \in 1 .. k : run[k][i] = es[j]
      <4>1. PICK j \in 1 .. k : run[k][i] = es[j]
        BY <3>2
      <4>2. j \in DOMAIN es /\ j # n
        BY <1>1, <2>6
      <4>3. QED
        BY <2>9, <4>1, <4>2
    <3>3. QED
      BY <2>7, <3>1, <3>2 DEF FromBoth
  <2>11. CacheOK(run[n]) /\ From(run[n], run[k], es[n])
    BY <2>7, <2>8, <2>9, <2>10, RememberKeeps
  <2>12. FromBoth(run[n], q, es, n)
    <3> SUFFICES ASSUME NEW i \in DOMAIN run[n]
                 PROVE  \/ \E j \in DOMAIN q : run[n][i] = q[j]
                        \/ \E j \in 1 .. n : run[n][i] = es[j]
      BY DEF FromBoth
    <3>1. CASE run[n][i] = es[n]
      <4>1. n \in 1 .. n
        BY <2>6
      <4>2. QED
        BY <3>1, <4>1
    <3>2. CASE \E j \in DOMAIN run[k] : run[n][i] = run[k][j]
      <4>1. PICK j \in DOMAIN run[k] : run[n][i] = run[k][j]
        BY <3>2
      <4>2. \/ \E l \in DOMAIN q : run[k][j] = q[l]
            \/ \E l \in 1 .. k : run[k][j] = es[l]
        BY <2>7 DEF FromBoth
      <4>3. 1 .. k \subseteq 1 .. n
        BY <2>6
      <4>4. QED
        BY <4>1, <4>2, <4>3
    <3>3. QED
      BY <2>11, <3>1, <3>2 DEF From
  <2>13. QED
    BY <2>3, <2>11, <2>12
<1>5. Good(N)
  BY <1>1, <1>4
<1>6. QED
  BY <1>1, <1>2, <1>5

-----------------------------------------------------------------------------
(* A whole state: its counters and its chains go together, its cache keeps *)
(* keys of chains no longer than its root key and behind its receiving     *)
(* chain, and the chains it sends and receives in are derived at alternate *)
(* agreements.                                                             *)

Parity(n) == n % 2

LEMMA ParitySteps ==
  ASSUME NEW n \in Nat
  PROVE  Parity(n + 1) # Parity(n) /\ Parity(n + 2) = Parity(n)
  BY DEF Parity

Whole(s) ==
  /\ s \in RatchetState
  /\ s.sendingChainKey.pos = s.sentCount
  /\ s.receivingChainKey.pos = s.receivedCount
  /\ CacheOK(s.skipped)
  /\ Len(s.sendingChainKey.id) <= Len(s.rootKey)
  /\ Len(s.receivingChainKey.id) <= Len(s.rootKey)
  /\ s.sendingChainKey # NoChain =>
       Parity(Len(s.sendingChainKey.id)) = Parity(Len(s.rootKey))
  /\ s.receivingChainKey # NoChain =>
       Parity(Len(s.receivingChainKey.id)) # Parity(Len(s.rootKey))
  /\ \A i \in DOMAIN s.skipped :
       LET mk == s.skipped[i].mk IN
       /\ Len(mk.id) <= Len(s.rootKey)
       /\ Parity(Len(mk.id)) # Parity(Len(s.rootKey))
       /\ mk.id = s.receivingChainKey.id => mk.pos < s.receivedCount

\* s cannot decrypt with k any more.
Spent(s, k) ==
  /\ Len(k.id) <= Len(s.rootKey)
  /\ ~ Reaches(s.receivingChainKey, k)
  /\ \A i \in DOMAIN s.skipped : s.skipped[i].mk # k

\* What receiving may do to a whole state.
Moves(s, t) ==
  /\ Whole(t)
  /\ Len(s.rootKey) <= Len(t.rootKey)
  /\ Parity(Len(t.rootKey)) = Parity(Len(s.rootKey))
  /\ \A k \in Chain : Spent(s, k) => Spent(t, k)

LEMMA WholeTypes ==
  ASSUME NEW s, Whole(s)
  PROVE  /\ s.rootKey \in Seq(Output) /\ Len(s.rootKey) \in Nat
         /\ s.sending \in [pub : Key, sec : Key] /\ s.receiving \in Key
         /\ s.sendingChainKey \in Chain /\ s.receivingChainKey \in Chain
         /\ s.sentCount \in Nat /\ s.receivedCount \in Nat /\ s.previousSentCount \in Nat
         /\ s.skipped \in Seq(Skipped)
         /\ Shaped(s)
<1>1. s \in RatchetState
  BY DEF Whole
<1>2. QED
  BY <1>1 DEF RatchetState, Shaped, Fields

LEMMA StateRecord ==
  ASSUME NEW s \in RatchetState
  PROVE  s = [rootKey |-> s.rootKey, sending |-> s.sending, receiving |-> s.receiving,
              sendingChainKey |-> s.sendingChainKey,
              receivingChainKey |-> s.receivingChainKey,
              sentCount |-> s.sentCount, receivedCount |-> s.receivedCount,
              previousSentCount |-> s.previousSentCount, skipped |-> s.skipped]
  BY DEF RatchetState

LEMMA MovesSelf ==
  ASSUME NEW s, Whole(s)
  PROVE  Moves(s, s)
<1>1. Len(s.rootKey) \in Nat
  BY WholeTypes
<1>2. QED
  BY <1>1 DEF Moves

LEMMA MovesCompose ==
  ASSUME NEW s, NEW t, NEW u, Whole(s), Moves(s, t), Moves(t, u)
  PROVE  Moves(s, u)
<1>1. Len(s.rootKey) \in Nat /\ Len(t.rootKey) \in Nat /\ Len(u.rootKey) \in Nat
  BY WholeTypes DEF Moves
<1>2. Len(s.rootKey) <= Len(u.rootKey)
  BY <1>1 DEF Moves
<1>3. QED
  BY <1>2 DEF Moves

\* The keys skipped over are those of the receiving chain, in order.
LEMMA KeysAheadEntries ==
  ASSUME NEW s, Whole(s), NEW until \in Nat, until >= s.receivedCount
  PROVE  LET es == KeysAhead(s, until)
         IN  /\ es \in Seq(Skipped)
             /\ \A i \in DOMAIN es :
                  /\ i \in Nat /\ i >= 1
                  /\ s.receivedCount + i <= until
                  /\ es[i].mk \in Chain
                  /\ es[i].mk.id = s.receivingChainKey.id
                  /\ es[i].mk.pos = s.receivedCount + (i - 1)
<1> DEFINE es == KeysAhead(s, until)
           key(i) == [key |-> s.receiving, n |-> s.receivedCount + i - 1,
                      mk |-> Advanced(s.receivingChainKey, i - 1)]
<1>1. /\ s.receivingChainKey \in Chain /\ s.receivedCount \in Nat /\ s.receiving \in Key
      /\ s.receivingChainKey.pos = s.receivedCount
  BY WholeTypes DEF Whole
<1>2. until - s.receivedCount \in Nat
  BY <1>1
<1>3. es = [i \in 1 .. until - s.receivedCount |-> key(i)]
  BY DEF KeysAhead
<1>4. ASSUME NEW i \in 1 .. until - s.receivedCount
      PROVE  /\ key(i) \in Skipped
             /\ key(i).mk \in Chain /\ key(i).mk.id = s.receivingChainKey.id
             /\ key(i).mk.pos = s.receivedCount + (i - 1)
  <2>1. i - 1 \in Nat /\ s.receivedCount + i - 1 \in Nat
    BY <1>1
  <2>2. /\ Advanced(s.receivingChainKey, i - 1) \in Chain
        /\ Advanced(s.receivingChainKey, i - 1).id = s.receivingChainKey.id
        /\ Advanced(s.receivingChainKey, i - 1).pos = s.receivingChainKey.pos + (i - 1)
    BY <1>1, <2>1, AdvancedChain
  <2>3. QED
    BY <1>1, <2>1, <2>2 DEF Skipped
<1> HIDE DEF key, es
<1>5. DOMAIN es = 1 .. until - s.receivedCount /\ \A i \in DOMAIN es : es[i] = key(i)
  BY <1>3
<1>6. es \in Seq(Skipped)
  BY <1>2, <1>3, <1>4
<1>7. QED
  BY <1>1, <1>2, <1>4, <1>5, <1>6 DEF es

LEMMA CaughtUpFields ==
  ASSUME NEW s, Whole(s), NEW until
  PROVE  LET t == CaughtUp(s, until)
         IN  /\ t = [rootKey |-> s.rootKey, sending |-> s.sending,
                     receiving |-> s.receiving, sendingChainKey |-> s.sendingChainKey,
                     receivingChainKey |->
                       Advanced(s.receivingChainKey, until - s.receivedCount),
                     sentCount |-> s.sentCount, receivedCount |-> until,
                     previousSentCount |-> s.previousSentCount,
                     skipped |-> RememberAll(s.skipped, KeysAhead(s, until))]
<1> DEFINE ck == Advanced(s.receivingChainKey, until - s.receivedCount)
           q  == RememberAll(s.skipped, KeysAhead(s, until))
<1>1. CaughtUp(s, until) = [s EXCEPT !.skipped = q, !.receivingChainKey = ck,
                                     !.receivedCount = until]
  BY DEF CaughtUp
<1>2. s \in RatchetState
  BY DEF Whole
<1> HIDE DEF ck, q
<1>3. s = [rootKey |-> s.rootKey, sending |-> s.sending, receiving |-> s.receiving,
           sendingChainKey |-> s.sendingChainKey,
           receivingChainKey |-> s.receivingChainKey,
           sentCount |-> s.sentCount, receivedCount |-> s.receivedCount,
           previousSentCount |-> s.previousSentCount, skipped |-> s.skipped]
  BY <1>2, StateRecord
<1>4. QED
  BY <1>1, <1>3 DEF ck, q

LEMMA CaughtUpMoves ==
  ASSUME NEW s, Whole(s), NEW until \in Nat, until >= s.receivedCount,
         s.receivingChainKey # NoChain
  PROVE  Moves(s, CaughtUp(s, until))
<1> DEFINE es == KeysAhead(s, until)
           q  == RememberAll(s.skipped, es)
           ck == Advanced(s.receivingChainKey, until - s.receivedCount)
           t  == CaughtUp(s, until)
<1>1. /\ s.rootKey \in Seq(Output) /\ Len(s.rootKey) \in Nat
      /\ s.sending \in [pub : Key, sec : Key] /\ s.receiving \in Key
      /\ s.sendingChainKey \in Chain /\ s.receivingChainKey \in Chain
      /\ s.sentCount \in Nat /\ s.receivedCount \in Nat /\ s.previousSentCount \in Nat
      /\ s.receivingChainKey.pos = s.receivedCount /\ CacheOK(s.skipped)
  BY WholeTypes DEF Whole
<1>2. /\ es \in Seq(Skipped)
      /\ \A i \in DOMAIN es :
           /\ i \in Nat /\ i >= 1 /\ s.receivedCount + i <= until
           /\ es[i].mk \in Chain
           /\ es[i].mk.id = s.receivingChainKey.id
           /\ es[i].mk.pos = s.receivedCount + (i - 1)
  BY KeysAheadEntries
<1>3. /\ ck \in Chain /\ ck.id = s.receivingChainKey.id /\ ck.pos = until
  <2>1. until - s.receivedCount \in Nat
    BY <1>1
  <2>2. /\ ck \in Chain /\ ck.id = s.receivingChainKey.id
        /\ ck.pos = s.receivingChainKey.pos + (until - s.receivedCount)
    BY <1>1, <2>1, AdvancedChain
  <2>3. QED
    BY <1>1, <2>2
<1> HIDE DEF es
<1>4. CacheOK(q) /\ FromBoth(q, s.skipped, es, Len(es))
  <2>1. \A i, j \in DOMAIN es : es[i].mk = es[j].mk => i = j
    <3> SUFFICES ASSUME NEW i \in DOMAIN es, NEW j \in DOMAIN es, es[i].mk = es[j].mk
                 PROVE  i = j
      OBVIOUS
    <3>1. s.receivedCount + (i - 1) = s.receivedCount + (j - 1) /\ i \in Nat /\ j \in Nat
      BY <1>2
    <3>2. QED
      BY <1>1, <3>1
  <2>2. \A i \in DOMAIN s.skipped, j \in DOMAIN es : s.skipped[i].mk # es[j].mk
    <3> SUFFICES ASSUME NEW i \in DOMAIN s.skipped, NEW j \in DOMAIN es,
                        s.skipped[i].mk = es[j].mk
                 PROVE  FALSE
      OBVIOUS
    <3>1. /\ es[j].mk.id = s.receivingChainKey.id /\ j \in Nat /\ j >= 1
          /\ es[j].mk.pos = s.receivedCount + (j - 1)
      BY <1>2
    <3>2. es[j].mk.pos < s.receivedCount
      BY <3>1 DEF Whole
    <3>3. QED
      BY <1>1, <3>1, <3>2
  <2>3. QED
    BY <1>1, <1>2, <2>1, <2>2, RememberAllKeeps
<1>5. /\ t.rootKey = s.rootKey /\ t.sendingChainKey = s.sendingChainKey
      /\ t.receivingChainKey = ck /\ t.sentCount = s.sentCount
      /\ t.receivedCount = until /\ t.skipped = q /\ t \in RatchetState
  <2>1. t = [rootKey |-> s.rootKey, sending |-> s.sending,
             receiving |-> s.receiving, sendingChainKey |-> s.sendingChainKey,
             receivingChainKey |-> ck,
             sentCount |-> s.sentCount, receivedCount |-> until,
             previousSentCount |-> s.previousSentCount, skipped |-> q]
    BY CaughtUpFields DEF es
  <2> HIDE DEF t, q, ck
  <2>2. q \in Seq(Skipped)
    BY <1>4 DEF CacheOK
  <2>3. QED
    BY <1>1, <1>3, <2>1, <2>2 DEF RatchetState
<1> HIDE DEF t, q, ck
<1>6. ASSUME NEW i \in DOMAIN q
      PROVE  \/ \E j \in DOMAIN s.skipped : q[i] = s.skipped[j]
             \/ \E j \in DOMAIN es : q[i] = es[j]
  <2>1. DOMAIN es = 1 .. Len(es)
    BY <1>2
  <2>2. QED
    BY <1>4, <2>1 DEF FromBoth
<1>7. Len(s.receivingChainKey.id) <= Len(s.rootKey)
  BY DEF Whole
<1>8. Parity(Len(s.receivingChainKey.id)) # Parity(Len(s.rootKey))
  BY DEF Whole
<1>9. ASSUME NEW i \in DOMAIN q
      PROVE  LET mk == q[i].mk IN
             /\ Len(mk.id) <= Len(s.rootKey)
             /\ Parity(Len(mk.id)) # Parity(Len(s.rootKey))
             /\ mk.id = ck.id => mk.pos < until
  <2>1. CASE \E j \in DOMAIN s.skipped : q[i] = s.skipped[j]
    <3>1. PICK j \in DOMAIN s.skipped : q[i] = s.skipped[j]
      BY <2>1
    <3>2. /\ Len(q[i].mk.id) <= Len(s.rootKey)
          /\ Parity(Len(q[i].mk.id)) # Parity(Len(s.rootKey))
          /\ q[i].mk.id = s.receivingChainKey.id => q[i].mk.pos < s.receivedCount
      BY <3>1 DEF Whole
    <3>3. q[i].mk.pos \in Nat
      <4>1. s.skipped \in Seq(Skipped)
        BY WholeTypes
      <4>2. q[i] \in Skipped
        BY <3>1, <4>1
      <4>3. QED
        BY <4>2 DEF Skipped, Chain
    <3>4. QED
      BY <1>1, <1>3, <3>2, <3>3
  <2>2. CASE \E j \in DOMAIN es : q[i] = es[j]
    <3>1. PICK j \in DOMAIN es : q[i] = es[j]
      BY <2>2
    <3>2. /\ q[i].mk.id = s.receivingChainKey.id /\ j \in Nat
          /\ q[i].mk.pos = s.receivedCount + (j - 1) /\ s.receivedCount + j <= until
      BY <1>2, <3>1
    <3>3. q[i].mk.pos < until
      BY <1>1, <3>2
    <3>4. QED
      BY <1>7, <1>8, <3>2, <3>3
  <2>3. QED
    BY <1>6, <2>1, <2>2
<1>10. Whole(t)
  <2>1. ck # NoChain => Parity(Len(ck.id)) # Parity(Len(s.rootKey))
    BY <1>3, <1>8
  <2>2. Len(ck.id) <= Len(s.rootKey)
    BY <1>3, <1>7
  <2>3. QED
    BY <1>3, <1>4, <1>5, <1>9, <2>1, <2>2 DEF Whole
<1>11. ASSUME NEW k \in Chain, Spent(s, k) PROVE Spent(t, k)
  <2>1. k.id # s.receivingChainKey.id \/ ~ (s.receivedCount <= k.pos)
    BY <1>1, <1>11 DEF Spent, Reaches
  <2>2. k.pos \in Nat
    BY DEF Chain
  <2>3. ~ Reaches(ck, k)
    BY <1>1, <1>3, <2>1, <2>2 DEF Reaches
  <2>4. ASSUME NEW i \in DOMAIN q PROVE q[i].mk # k
    <3>1. CASE \E j \in DOMAIN s.skipped : q[i] = s.skipped[j]
      BY <1>11, <3>1 DEF Spent
    <3>2. CASE \E j \in DOMAIN es : q[i] = es[j]
      <4>1. PICK j \in DOMAIN es : q[i] = es[j]
        BY <3>2
      <4>2. /\ q[i].mk.id = s.receivingChainKey.id /\ j \in Nat /\ j >= 1
            /\ q[i].mk.pos = s.receivedCount + (j - 1)
        BY <1>2, <4>1
      <4>3. s.receivedCount <= q[i].mk.pos
        BY <1>1, <4>2
      <4>4. QED
        BY <2>1, <4>2, <4>3
    <3>3. QED
      BY <1>6, <3>1, <3>2
  <2>5. QED
    BY <1>5, <1>11, <2>3, <2>4 DEF Spent
<1>12. QED
  BY <1>1, <1>5, <1>10, <1>11 DEF Moves, t

LEMMA SkipMoves ==
  ASSUME NEW s, Whole(s), NEW until \in Nat
  PROVE  Moves(s, SkipReceivingKeys(s, until).state)
<1>1. CASE s.receivingChainKey = NoChain \/ s.receiving = Zero \/ until < s.receivedCount
  <2>1. SkipReceivingKeys(s, until) = Done(TRUE, s)
    BY <1>1, Zenon DEF SkipReceivingKeys
  <2>2. QED
    BY <2>1, DoneState, MovesSelf
<1>2. CASE ~(s.receivingChainKey = NoChain \/ s.receiving = Zero \/ until < s.receivedCount)
  <2>1. until >= s.receivedCount
    <3>1. s.receivedCount \in Nat
      BY WholeTypes
    <3>2. QED
      BY <1>2, <3>1
  <2>2. Moves(s, CaughtUp(s, until))
    BY <1>2, <2>1, CaughtUpMoves
  <2>3. Moves(s, s)
    BY MovesSelf
  <2>4. \/ SkipReceivingKeys(s, until) = Done(FALSE, s)
        \/ SkipReceivingKeys(s, until) = Done(TRUE, CaughtUp(s, until))
    BY <1>2, Zenon DEF SkipReceivingKeys
  <2>5. QED
    BY <2>2, <2>3, <2>4, DoneState
<1>3. QED
  BY <1>1, <1>2

\* performDhRatchet: both chains it derives are longer than anything kept.
LEMMA PerformMoves ==
  ASSUME NEW s, Whole(s), NEW m \in Message, NEW fresh \in Key
  PROVE  Moves(s, PerformDhRatchet(s, m, fresh).state)
<1> DEFINE closed == CloseChain(s, m)
           c      == closed.state
           pair   == NextPair(s, fresh)
           root1  == Append(c.rootKey, Dh(s.sending, m.key))
           root2  == Append(root1, Dh(pair, m.key))
           t      == [c EXCEPT
             !.previousSentCount = c.sentCount, !.sentCount = 0,
             !.receivedCount = 0, !.receiving = m.key,
             !.receivingChainKey = ChainFrom(root1),
             !.rootKey = root2, !.sending = pair,
             !.sendingChainKey = ChainFrom(root2)]
<1>1. m.prev \in Nat /\ m.key \in Key
  BY DEF Message
<1>2. Moves(s, c)
  BY <1>1, SkipMoves DEF CloseChain
<1>3. CASE ~closed.ok
  <2>1. PerformDhRatchet(s, m, fresh) = closed
    BY <1>3, Zenon DEF PerformDhRatchet
  <2>2. QED
    BY <1>2, <2>1
<1>4. CASE closed.ok
  <2>1. PerformDhRatchet(s, m, fresh).state = t
    BY <1>4, DoneState, Zenon DEF PerformDhRatchet
  <2>2. Whole(c)
    BY <1>2 DEF Moves
  <2>3. pair \in [pub : Key, sec : Key]
    BY DEF NextPair, KeyPair
  <2>4. Dh(s.sending, m.key) \in Output /\ Dh(pair, m.key) \in Output
    <3>1. s.sending \in [pub : Key, sec : Key]
      BY WholeTypes
    <3>2. QED
      BY <1>1, <2>3, <3>1 DEF Dh, Output
  <2> HIDE DEF c, closed, pair
  <2>5. /\ c.rootKey \in Seq(Output) /\ Len(c.rootKey) \in Nat /\ c.sentCount \in Nat
        /\ c \in RatchetState /\ c.skipped \in Seq(Skipped) /\ CacheOK(c.skipped)
    BY <2>2, WholeTypes DEF Whole
  <2>6. /\ root1 \in Seq(Output) /\ Len(root1) = Len(c.rootKey) + 1
        /\ root2 \in Seq(Output) /\ Len(root2) = Len(c.rootKey) + 2
    <3>1. root1 \in Seq(Output) /\ Len(root1) = Len(c.rootKey) + 1
      BY <2>4, <2>5
    <3> HIDE DEF root1
    <3>2. root2 \in Seq(Output) /\ Len(root2) = Len(root1) + 1
      BY <2>4, <3>1
    <3>3. QED
      BY <2>5, <3>1, <3>2
  <2> HIDE DEF root1, root2
  <2>7. /\ ChainFrom(root1) \in Chain /\ ChainFrom(root2) \in Chain
        /\ ChainFrom(root1).id = root1 /\ ChainFrom(root2).id = root2
        /\ ChainFrom(root1).pos = 0 /\ ChainFrom(root2).pos = 0
    BY <2>6 DEF ChainFrom, Chain
  <2>8. t = [rootKey |-> root2, sending |-> pair, receiving |-> m.key,
             sendingChainKey |-> ChainFrom(root2), receivingChainKey |-> ChainFrom(root1),
             sentCount |-> 0, receivedCount |-> 0,
             previousSentCount |-> c.sentCount, skipped |-> c.skipped]
    <3>1. c = [rootKey |-> c.rootKey, sending |-> c.sending, receiving |-> c.receiving,
               sendingChainKey |-> c.sendingChainKey,
               receivingChainKey |-> c.receivingChainKey,
               sentCount |-> c.sentCount, receivedCount |-> c.receivedCount,
               previousSentCount |-> c.previousSentCount, skipped |-> c.skipped]
      BY <2>5, StateRecord
    <3>2. t = [c EXCEPT
             !.previousSentCount = c.sentCount, !.sentCount = 0,
             !.receivedCount = 0, !.receiving = m.key,
             !.receivingChainKey = ChainFrom(root1),
             !.rootKey = root2, !.sending = pair,
             !.sendingChainKey = ChainFrom(root2)]
      OBVIOUS
    <3> HIDE DEF t
    <3>3. QED
      BY <3>1, <3>2
  <2> HIDE DEF t
  <2>9. /\ t \in RatchetState /\ t.rootKey = root2 /\ t.skipped = c.skipped
        /\ t.sendingChainKey = ChainFrom(root2) /\ t.receivingChainKey = ChainFrom(root1)
        /\ t.sentCount = 0 /\ t.receivedCount = 0
    BY <1>1, <2>3, <2>5, <2>6, <2>7, <2>8 DEF RatchetState
  <2>10. /\ Parity(Len(root2)) = Parity(Len(c.rootKey))
         /\ Parity(Len(root1)) # Parity(Len(root2))
    BY <2>5, <2>6, ParitySteps
  <2>11. ASSUME NEW i \in DOMAIN c.skipped
         PROVE  LET mk == c.skipped[i].mk IN
                /\ Len(mk.id) <= Len(root2)
                /\ Parity(Len(mk.id)) # Parity(Len(root2))
                /\ mk.id # root1
    <3>1. /\ Len(c.skipped[i].mk.id) <= Len(c.rootKey)
          /\ Parity(Len(c.skipped[i].mk.id)) # Parity(Len(c.rootKey))
      BY <2>2 DEF Whole
    <3>2. Len(c.skipped[i].mk.id) \in Nat
      <4>1. c.skipped[i] \in Skipped
        BY <2>5
      <4>2. QED
        BY <4>1 DEF Skipped, Chain
    <3>3. QED
      BY <2>5, <2>6, <2>10, <3>1, <3>2
  <2>12. Whole(t)
    <3>1. Len(root1) <= Len(root2) /\ Len(root2) <= Len(root2)
      BY <2>5, <2>6
    <3>2. QED
      BY <2>5, <2>7, <2>9, <2>10, <2>11, <3>1 DEF Whole
  <2>13. ASSUME NEW k \in Chain, Spent(c, k) PROVE Spent(t, k)
    <3>1. Len(k.id) <= Len(c.rootKey) /\ Len(k.id) \in Nat
      BY <2>13 DEF Spent, Chain
    <3>2. Len(k.id) <= Len(root2) /\ k.id # root1
      BY <2>5, <2>6, <3>1
    <3>3. ~ Reaches(ChainFrom(root1), k)
      BY <2>7, <3>2 DEF Reaches
    <3>4. QED
      BY <2>9, <2>13, <3>2, <3>3 DEF Spent
  <2>14. Moves(c, t)
    <3>1. Len(c.rootKey) <= Len(root2)
      BY <2>5, <2>6
    <3>2. QED
      BY <2>9, <2>10, <2>12, <2>13, <3>1 DEF Moves
  <2>15. Moves(s, t)
    BY <1>2, <2>14, MovesCompose DEF c
  <2>16. QED
    BY <2>1, <2>15
<1>5. QED
  BY <1>3, <1>4

\* The commit moves the receiving chain past the key that opened a message.
LEMMA CommitMoves ==
  ASSUME NEW s, Whole(s), s.receivingChainKey # NoChain
  PROVE  Moves(s, CommitReceived(s)) /\ Spent(CommitReceived(s), s.receivingChainKey)
<1> DEFINE ck == Advanced(s.receivingChainKey, 1)
           n  == s.receivedCount + 1
           t  == CommitReceived(s)
<1>1. /\ s.rootKey \in Seq(Output) /\ Len(s.rootKey) \in Nat
      /\ s.receivingChainKey \in Chain /\ s.receivedCount \in Nat
      /\ s.receivingChainKey.pos = s.receivedCount /\ s \in RatchetState
      /\ s.skipped \in Seq(Skipped)
      /\ Len(s.receivingChainKey.id) <= Len(s.rootKey)
      /\ Parity(Len(s.receivingChainKey.id)) # Parity(Len(s.rootKey))
  BY WholeTypes DEF Whole
<1>2. /\ ck \in Chain /\ ck.id = s.receivingChainKey.id /\ ck.pos = n /\ n \in Nat
  <2>1. ck \in Chain /\ ck.id = s.receivingChainKey.id /\ ck.pos = s.receivingChainKey.pos + 1
    BY <1>1, AdvancedChain
  <2>2. QED
    BY <1>1, <2>1
<1>3. t = [s EXCEPT !.receivingChainKey = ck, !.receivedCount = n]
  BY DEF CommitReceived
<1> HIDE DEF ck, t
<1>4. /\ t \in RatchetState /\ t.rootKey = s.rootKey /\ t.skipped = s.skipped
      /\ t.sendingChainKey = s.sendingChainKey /\ t.receivingChainKey = ck
      /\ t.sentCount = s.sentCount /\ t.receivedCount = n
  <2>1. t = [rootKey |-> s.rootKey, sending |-> s.sending, receiving |-> s.receiving,
             sendingChainKey |-> s.sendingChainKey, receivingChainKey |-> ck,
             sentCount |-> s.sentCount, receivedCount |-> n,
             previousSentCount |-> s.previousSentCount, skipped |-> s.skipped]
    <3>1. s = [rootKey |-> s.rootKey, sending |-> s.sending, receiving |-> s.receiving,
               sendingChainKey |-> s.sendingChainKey,
               receivingChainKey |-> s.receivingChainKey,
               sentCount |-> s.sentCount, receivedCount |-> s.receivedCount,
               previousSentCount |-> s.previousSentCount, skipped |-> s.skipped]
      BY <1>1, StateRecord
    <3> HIDE DEF n
    <3>2. QED
      BY <1>3, <3>1
  <2> HIDE DEF n
  <2>2. QED
    BY <1>1, <1>2, <2>1 DEF RatchetState
<1>5. ASSUME NEW i \in DOMAIN s.skipped
      PROVE  LET mk == s.skipped[i].mk IN
             /\ Len(mk.id) <= Len(s.rootKey)
             /\ Parity(Len(mk.id)) # Parity(Len(s.rootKey))
             /\ mk.id = ck.id => mk.pos < n
             /\ mk # s.receivingChainKey
  <2>1. /\ Len(s.skipped[i].mk.id) <= Len(s.rootKey)
        /\ Parity(Len(s.skipped[i].mk.id)) # Parity(Len(s.rootKey))
        /\ s.skipped[i].mk.id = s.receivingChainKey.id =>
             s.skipped[i].mk.pos < s.receivedCount
    BY DEF Whole
  <2>2. s.skipped[i].mk.pos \in Nat
    <3>1. s.skipped[i] \in Skipped
      BY <1>1
    <3>2. QED
      BY <3>1 DEF Skipped, Chain
  <2>3. QED
    BY <1>1, <1>2, <2>1, <2>2
<1>6. Whole(t)
  BY <1>1, <1>2, <1>4, <1>5 DEF Whole
<1>7. ASSUME NEW k \in Chain, Spent(s, k) PROVE Spent(t, k)
  <2>1. k.id # s.receivingChainKey.id \/ ~ (s.receivedCount <= k.pos)
    BY <1>1, <1>7 DEF Spent, Reaches
  <2>2. k.pos \in Nat
    BY DEF Chain
  <2>3. ~ Reaches(ck, k)
    BY <1>1, <1>2, <2>1, <2>2 DEF Reaches
  <2>4. QED
    BY <1>4, <1>7, <2>3 DEF Spent
<1>8. Spent(t, s.receivingChainKey)
  <2>1. ~ Reaches(ck, s.receivingChainKey)
    BY <1>1, <1>2 DEF Reaches
  <2>2. QED
    BY <1>1, <1>4, <1>5, <2>1 DEF Spent
<1>9. QED
  BY <1>1, <1>4, <1>6, <1>7, <1>8 DEF Moves, t

\* A used skipped key is gone: no other entry has it.
LEMMA ConsumeMoves ==
  ASSUME NEW s, Whole(s), NEW i \in DOMAIN s.skipped
  PROVE  Moves(s, ConsumeSkipped(s, i)) /\ Spent(ConsumeSkipped(s, i), s.skipped[i].mk)
<1> DEFINE q == RemoveAt(s.skipped, i)
           t == ConsumeSkipped(s, i)
           k0 == s.skipped[i].mk
<1>1. /\ s \in RatchetState /\ CacheOK(s.skipped) /\ Len(s.rootKey) \in Nat
      /\ s.receivingChainKey.pos = s.receivedCount /\ s.receivedCount \in Nat
      /\ s.skipped \in Seq(Skipped)
  BY WholeTypes DEF Whole
<1>2. /\ CacheOK(q) /\ Within(q, s.skipped) /\ \A j \in DOMAIN q : q[j].mk # k0
  BY <1>1, RemovedKeeps
<1>3. t = [s EXCEPT !.skipped = q]
  BY DEF ConsumeSkipped
<1> HIDE DEF q, t
<1>4. /\ t \in RatchetState /\ t.rootKey = s.rootKey /\ t.skipped = q
      /\ t.sendingChainKey = s.sendingChainKey
      /\ t.receivingChainKey = s.receivingChainKey
      /\ t.sentCount = s.sentCount /\ t.receivedCount = s.receivedCount
  <2>1. q \in Seq(Skipped)
    BY <1>2 DEF CacheOK
  <2>2. QED
    BY <1>1, <1>3, <2>1, SMTT(30) DEF RatchetState
<1>5. Whole(t)
  BY <1>1, <1>2, <1>4 DEF Whole, Within
<1>6. ASSUME NEW k \in Chain, Spent(s, k) PROVE Spent(t, k)
  BY <1>2, <1>4, <1>6 DEF Spent, Within
<1>7. Spent(t, k0)
  <2>1. /\ Len(k0.id) <= Len(s.rootKey)
        /\ k0.id = s.receivingChainKey.id => k0.pos < s.receivedCount
    BY DEF Whole
  <2>2. k0.pos \in Nat
    <3>1. s.skipped[i] \in Skipped
      BY <1>1
    <3>2. QED
      BY <3>1 DEF Skipped, Chain
  <2>3. ~ Reaches(s.receivingChainKey, k0)
    BY <1>1, <2>1, <2>2 DEF Reaches
  <2> HIDE DEF k0
  <2>4. QED
    BY <1>2, <1>4, <2>1, <2>3 DEF Spent
<1>8. QED
  BY <1>1, <1>4, <1>5, <1>6, <1>7 DEF Moves, t

\* What decryptInChain has before it tries the message.
CaughtBefore(s, m, fresh) ==
  LET turned == IF s.receiving = m.key THEN Done(TRUE, s)
                                       ELSE PerformDhRatchet(s, m, fresh)
  IN  IF turned.ok THEN SkipReceivingKeys(turned.state, m.n) ELSE turned

LEMMA CaughtMoves ==
  ASSUME NEW s, Whole(s), NEW m \in Message, NEW fresh \in Key
  PROVE  Moves(s, CaughtBefore(s, m, fresh).state)
<1> DEFINE turned == IF s.receiving = m.key THEN Done(TRUE, s)
                                            ELSE PerformDhRatchet(s, m, fresh)
<1>1. m.n \in Nat
  BY DEF Message
<1>2. Moves(s, turned.state)
  <2>1. CASE s.receiving = m.key
    BY <2>1, MovesSelf, DoneState, Zenon
  <2>2. CASE s.receiving # m.key
    BY <2>2, PerformMoves, Zenon
  <2>3. QED
    BY <2>1, <2>2
<1>3. Whole(turned.state)
  BY <1>2 DEF Moves
<1>4. CaughtBefore(s, m, fresh) =
        IF turned.ok THEN SkipReceivingKeys(turned.state, m.n) ELSE turned
  BY Zenon DEF CaughtBefore
<1> HIDE DEF turned
<1>5. Moves(turned.state, SkipReceivingKeys(turned.state, m.n).state)
  BY <1>1, <1>3, SkipMoves
<1>6. Moves(s, SkipReceivingKeys(turned.state, m.n).state)
  BY <1>2, <1>5, MovesCompose
<1>7. QED
  BY <1>2, <1>4, <1>6, Zenon

\* decryptInChain opens a message with the next key of the chain it caught up
\* with, or throws with that chain.
LEMMA InChainResult ==
  ASSUME NEW s, NEW m, NEW fresh
  PROVE  LET c == CaughtBefore(s, m, fresh).state
             r == DecryptInChain(s, m, fresh)
         IN  \/ /\ r = Done(TRUE, CommitReceived(c))
                /\ c.receivingChainKey # NoChain /\ c.receivingChainKey = m.mk
             \/ r = Done(FALSE, c)
  BY Zenon DEF DecryptInChain, CaughtBefore

\* ratchetDecrypt on a whole state.  It never leaves a state half changed that
\* a later message could trip over; what it opened cannot be opened again, and
\* what could not be opened stays so.
LEMMA DecryptMoves ==
  ASSUME NEW s, Whole(s), NEW m \in Message, NEW fresh \in Key
  PROVE  LET r == RatchetDecrypt(s, m, fresh)
         IN  /\ Moves(s, r.state)
             /\ r.ok => Spent(r.state, m.mk)
             /\ Spent(s, m.mk) => ~ r.ok
<1> DEFINE r == RatchetDecrypt(s, m, fresh)
<1>1. m.mk \in Chain
  BY DEF Message
<1>2. ~ Done(FALSE, s).ok /\ \A t : ~ Done(FALSE, t).ok
  BY DEF Done
<1>3. CASE SkippedFor(s, m) # {}
  <2>1. PICK i \in SkippedFor(s, m) :
           r = IF s.skipped[i].mk = m.mk THEN Done(TRUE, ConsumeSkipped(s, i))
                                         ELSE Done(FALSE, s)
    BY <1>3, Zenon DEF RatchetDecrypt, TryDecryptWithSkipped
  <2>2. i \in DOMAIN s.skipped
    BY DEF SkippedFor
  <2>3. Moves(s, ConsumeSkipped(s, i)) /\ Spent(ConsumeSkipped(s, i), s.skipped[i].mk)
    BY <2>2, ConsumeMoves
  <2>4. Moves(s, s)
    BY MovesSelf
  <2> HIDE DEF r
  <2>5. CASE s.skipped[i].mk = m.mk
    <3>1. r = Done(TRUE, ConsumeSkipped(s, i))
      BY <2>1, <2>5
    <3>2. ~ Spent(s, m.mk)
      BY <2>2, <2>5 DEF Spent
    <3>3. QED
      BY <2>3, <2>5, <3>1, <3>2, DoneState DEF r
  <2>6. CASE s.skipped[i].mk # m.mk
    <3>1. r = Done(FALSE, s)
      BY <2>1, <2>6
    <3>2. QED
      BY <1>2, <2>4, <3>1, DoneState DEF r
  <2>7. QED
    BY <2>5, <2>6
<1>4. CASE SkippedFor(s, m) = {}
  <2> DEFINE c == CaughtBefore(s, m, fresh).state
  <2>1. r = DecryptInChain(s, m, fresh)
    BY <1>4, Zenon DEF RatchetDecrypt
  <2>2. \/ /\ r = Done(TRUE, CommitReceived(c))
           /\ c.receivingChainKey # NoChain /\ c.receivingChainKey = m.mk
        \/ r = Done(FALSE, c)
    BY <2>1, InChainResult
  <2>3. Moves(s, c) /\ Whole(c)
    BY CaughtMoves DEF Moves
  <2> HIDE DEF c, r
  <2>4. CASE r = Done(FALSE, c)
    BY <1>2, <2>3, <2>4, DoneState DEF r
  <2>5. CASE /\ r = Done(TRUE, CommitReceived(c))
             /\ c.receivingChainKey # NoChain /\ c.receivingChainKey = m.mk
    <3>1. Moves(c, CommitReceived(c)) /\ Spent(CommitReceived(c), m.mk)
      BY <2>3, <2>5, CommitMoves
    <3>2. Moves(s, CommitReceived(c))
      BY <2>3, <3>1, MovesCompose
    <3>3. ~ Spent(c, m.mk)
      <4>1. m.mk.pos <= m.mk.pos
        BY <1>1 DEF Chain
      <4>2. QED
        BY <2>5, <4>1 DEF Spent, Reaches
    <3>4. ~ Spent(s, m.mk)
      BY <1>1, <2>3, <3>3 DEF Moves
    <3>5. QED
      BY <2>5, <3>1, <3>2, <3>4, DoneState DEF r
  <2>6. QED
    BY <2>2, <2>4, <2>5
<1>5. QED
  BY <1>3, <1>4

\* ratchetEncrypt leaves the receiving half alone.
LEMMA EncryptMoves ==
  ASSUME NEW s, Whole(s), CanEncrypt(s)
  PROVE  /\ Moves(s, AfterEncrypt(s))
         /\ AfterEncrypt(s).rootKey = s.rootKey
<1> DEFINE ck == Advanced(s.sendingChainKey, 1)
           n  == s.sentCount + 1
           t  == AfterEncrypt(s)
<1>1. /\ Len(s.rootKey) \in Nat /\ s \in RatchetState
      /\ s.sendingChainKey \in Chain /\ s.sentCount \in Nat
      /\ s.sendingChainKey.pos = s.sentCount
      /\ Len(s.sendingChainKey.id) <= Len(s.rootKey)
      /\ s.sendingChainKey # NoChain
      /\ Parity(Len(s.sendingChainKey.id)) = Parity(Len(s.rootKey))
  BY WholeTypes DEF Whole, CanEncrypt
<1>2. ck \in Chain /\ ck.id = s.sendingChainKey.id /\ ck.pos = n /\ n \in Nat
  <2>1. ck \in Chain /\ ck.id = s.sendingChainKey.id /\ ck.pos = s.sendingChainKey.pos + 1
    BY <1>1, AdvancedChain
  <2>2. QED
    BY <1>1, <2>1
<1>3. t = [s EXCEPT !.sendingChainKey = ck, !.sentCount = n]
  BY DEF AfterEncrypt
<1> HIDE DEF ck, t, n
<1>4. /\ t \in RatchetState /\ t.rootKey = s.rootKey /\ t.skipped = s.skipped
      /\ t.sendingChainKey = ck /\ t.receivingChainKey = s.receivingChainKey
      /\ t.sentCount = n /\ t.receivedCount = s.receivedCount
  <2>1. s = [rootKey |-> s.rootKey, sending |-> s.sending, receiving |-> s.receiving,
             sendingChainKey |-> s.sendingChainKey,
             receivingChainKey |-> s.receivingChainKey,
             sentCount |-> s.sentCount, receivedCount |-> s.receivedCount,
             previousSentCount |-> s.previousSentCount, skipped |-> s.skipped]
    BY <1>1, StateRecord
  <2>2. t = [rootKey |-> s.rootKey, sending |-> s.sending, receiving |-> s.receiving,
             sendingChainKey |-> ck, receivingChainKey |-> s.receivingChainKey,
             sentCount |-> n, receivedCount |-> s.receivedCount,
             previousSentCount |-> s.previousSentCount, skipped |-> s.skipped]
    BY <1>3, <2>1
  <2>3. QED
    BY <1>1, <1>2, <2>2 DEF RatchetState
<1>5. Whole(t)
  BY <1>1, <1>2, <1>4 DEF Whole
<1>6. \A k \in Chain : Spent(s, k) => Spent(t, k)
  BY <1>4 DEF Spent
<1>7. QED
  BY <1>1, <1>4, <1>5, <1>6 DEF Moves, t

\* The two ends of a handshake start whole.
LEMMA InitiatorWhole ==
  ASSUME NEW root \in Seq(Output), NEW pair \in [pub : Key, sec : Key], NEW peerKey \in Key
  PROVE  LET s == InitialiseInitiator(root, pair, peerKey)
         IN  Whole(s) /\ Len(s.rootKey) = Len(root) + 1
<1> DEFINE full == Append(root, Dh(pair, peerKey))
           s == InitialiseInitiator(root, pair, peerKey)
<1>1. full \in Seq(Output) /\ Len(full) = Len(root) + 1 /\ Len(full) \in Nat
  <2>1. Dh(pair, peerKey) \in Output
    BY DEF Dh, Output
  <2>2. QED
    BY <2>1
<1> HIDE DEF full
<1>2. /\ ChainFrom(full) \in Chain /\ ChainFrom(full).id = full /\ ChainFrom(full).pos = 0
      /\ NoChain \in Chain /\ NoChain.pos = 0 /\ Len(NoChain.id) = 0
  BY <1>1 DEF ChainFrom, Chain, NoChain
<1>3. s = [rootKey |-> full, sending |-> pair, receiving |-> peerKey,
           sendingChainKey |-> ChainFrom(full), receivingChainKey |-> NoChain,
           sentCount |-> 0, receivedCount |-> 0, previousSentCount |-> 0,
           skipped |-> <<>>]
  BY DEF InitialiseInitiator, full
<1> HIDE DEF s
<1>4. /\ s \in RatchetState /\ s.rootKey = full /\ s.skipped = <<>>
      /\ s.sendingChainKey = ChainFrom(full) /\ s.receivingChainKey = NoChain
      /\ s.sentCount = 0 /\ s.receivedCount = 0
  BY <1>1, <1>2, <1>3 DEF RatchetState
<1>5. CacheOK(s.skipped) /\ DOMAIN s.skipped = {}
  BY <1>4, SkipBounds DEF CacheOK
<1>6. QED
  BY <1>1, <1>2, <1>4, <1>5 DEF Whole, s

LEMMA ResponderWhole ==
  ASSUME NEW root \in Seq(Output), NEW pair \in [pub : Key, sec : Key]
  PROVE  LET s == InitialiseResponder(root, pair)
         IN  Whole(s) /\ s.rootKey = root
<1> DEFINE s == InitialiseResponder(root, pair)
<1>1. /\ NoChain \in Chain /\ NoChain.pos = 0 /\ Len(NoChain.id) = 0 /\ Len(root) \in Nat
  BY DEF Chain, NoChain
<1>2. s = [rootKey |-> root, sending |-> pair, receiving |-> Zero,
           sendingChainKey |-> NoChain, receivingChainKey |-> NoChain,
           sentCount |-> 0, receivedCount |-> 0, previousSentCount |-> 0,
           skipped |-> <<>>]
  BY DEF InitialiseResponder
<1> HIDE DEF s
<1>3. /\ s \in RatchetState /\ s.rootKey = root /\ s.skipped = <<>>
      /\ s.sendingChainKey = NoChain /\ s.receivingChainKey = NoChain
      /\ s.sentCount = 0 /\ s.receivedCount = 0
  BY <1>1, <1>2 DEF RatchetState, Zero, Key
<1>4. CacheOK(s.skipped) /\ DOMAIN s.skipped = {}
  BY <1>3, SkipBounds DEF CacheOK
<1>5. QED
  BY <1>1, <1>3, <1>4 DEF Whole, s

-----------------------------------------------------------------------------
(* What two sides of a session can read of each other.  The invariant,     *)
(* and what the loop of skipReceivingKeys leaves of the latest entries.    *)

\* A message of A carries this key and number.
Numbered(A, key, n) == \E w \in A : w.key = key /\ w.n = n

\* What s has sealed is A: one chain for each of its pairs, and in each chain
\* every number up to the last.
Sends(s, A) ==
  /\ s.sending.pub = s.sending.sec /\ s.sending.pub # Zero
  /\ s.sendingChainKey # NoChain => s.sendingChainKey.id # <<>>
  /\ A \subseteq Message
  /\ \A m \in A :
       /\ m.key # Zero /\ m.mk.id # <<>> /\ m.mk.pos = m.n
       /\ m.key = s.sending.pub <=> m.mk.id = s.sendingChainKey.id
       /\ m.key = s.sending.pub => m.n < s.sentCount /\ m.prev = s.previousSentCount
       /\ \A n \in 0 .. m.n : Numbered(A, m.key, n)
       /\ \A w \in A : m.key = w.key <=> m.mk.id = w.mk.id
  /\ s.sendingChainKey # NoChain =>
       \A n \in 0 .. s.sentCount - 1 : Numbered(A, s.sending.pub, n)

\* The keys of the last r entries of a cache.
Latest(q, r) == {q[i].mk : i \in {j \in DOMAIN q : Len(q) - j < r}}

CacheOf(q, A) ==
  \A i \in DOMAIN q : \E w \in A : w.key = q[i].key /\ w.n = q[i].n /\ w.mk = q[i].mk

Ahead(t, m) ==
  m.key = t.receiving /\ t.receivingChainKey # NoChain /\ t.receivedCount <= m.n

\* m is of a chain that t has not entered yet.
ToEnter(s, t, m) == m.key = s.sending.pub /\ m.key # t.receiving

\* The way from s to t: t keeps keys of messages of A only, and of each it has
\* the key, ahead or among its latest r, unless the key is in gone.
Stream(s, t, A, gone, r) ==
  /\ Sends(s, A)
  /\ CacheOf(t.skipped, A)
  /\ t.receivingChainKey # NoChain =>
       \E w \in A : w.key = t.receiving /\ w.mk.id = t.receivingChainKey.id
  /\ \A m \in A :
       /\ m.key = s.sending.pub \/ IsStrictPrefix(m.mk.id, t.rootKey)
       /\ m.mk \in gone \/ m.mk \in Latest(t.skipped, r) \/ Ahead(t, m) \/ ToEnter(s, t, m)
  /\ t.receiving = s.sending.pub =>
       t.receivingChainKey.id = s.sendingChainKey.id /\ t.receivedCount <= s.sentCount
  /\ t.receiving # s.sending.pub /\ t.receivingChainKey # NoChain =>
       /\ \A n \in 0 .. s.previousSentCount - 1 : Numbered(A, t.receiving, n)
       /\ \A m \in A : m.key = t.receiving => m.n < s.previousSentCount

\* s turned last: its root is one agreement ahead, which t derives with the
\* first message that reaches it.
Leads(s, t) ==
  /\ s.rootKey = Append(t.rootKey, {s.sending.pub, t.sending.pub})
  /\ s.receiving = t.sending.pub /\ t.receiving # s.sending.pub
  /\ s.sendingChainKey # NoChain /\ s.sendingChainKey.id = s.rootKey
  /\ t.sendingChainKey = NoChain \/ t.sendingChainKey.id = t.rootKey

\* s has sealed A and t has sealed B, and each can open what the other sealed
\* but for the keys that are gone from the way to it.
InStep(s, t, A, B, goneA, goneB) ==
  /\ Stream(s, t, A, goneA, MaxSkippedKeys) /\ Stream(t, s, B, goneB, MaxSkippedKeys)
  /\ Leads(s, t) \/ Leads(t, s)

-----------------------------------------------------------------------------
LEMMA LatestMore ==
  ASSUME NEW q \in Seq(Skipped), NEW j \in Nat, NEW k \in Nat, j <= k
  PROVE  Latest(q, j) \subseteq Latest(q, k)
<1>1. Len(q) \in Nat /\ DOMAIN q \subseteq Nat
  OBVIOUS
<1>2. ASSUME NEW i \in DOMAIN q, Len(q) - i < j PROVE Len(q) - i < k
  BY <1>1, <1>2
<1>3. QED
  BY <1>2 DEF Latest

\* A cache within its bound is all among its latest entries.
LEMMA LatestAll ==
  ASSUME NEW q \in Seq(Skipped), NEW k \in Nat, Len(q) <= k
  PROVE  \A i \in DOMAIN q : q[i].mk \in Latest(q, k)
<1>1. Len(q) \in Nat /\ DOMAIN q = 1 .. Len(q)
  OBVIOUS
<1>2. ASSUME NEW i \in DOMAIN q PROVE Len(q) - i < k
  BY <1>1
<1>3. QED
  BY <1>2 DEF Latest

LEMMA LatestIsCached ==
  ASSUME NEW q, NEW k, NEW mk \in Latest(q, k)
  PROVE  \E i \in DOMAIN q : q[i].mk = mk
  BY DEF Latest

Bounded(q) == q \in Seq(Skipped) /\ Len(q) <= MaxSkippedKeys

\* rememberSkipped of an entry that replaces none evicts the oldest at most.
LEMMA RememberLatest ==
  ASSUME NEW q, Bounded(q), NEW e \in Skipped,
         \A i \in DOMAIN q : ~ (q[i].key = e.key /\ q[i].n = e.n),
         NEW r, r = RememberSkipped(q, e)
  PROVE  /\ Bounded(r)
         /\ From(r, q, e)
         /\ e.mk \in Latest(r, 1)
         /\ \A k \in Nat : k < MaxSkippedKeys => Latest(q, k) \subseteq Latest(r, k + 1)
<1> DEFINE kept == IF Len(q) >= MaxSkippedKeys THEN Tail(q) ELSE q
           same == Replaced(kept, e)
<1>1. /\ q \in Seq(Skipped) /\ Len(q) \in Nat
      /\ MaxSkippedKeys \in Nat /\ MaxSkippedKeys > 0 /\ Len(q) <= MaxSkippedKeys
  BY SkipBounds DEF Bounded
<1>0. DOMAIN q = 1 .. Len(q)
  BY <1>1
<1>2. PICK d \in {0, 1} :
        /\ d = 1 => Len(q) = MaxSkippedKeys
        /\ kept \in Seq(Skipped) /\ Len(kept) = Len(q) - d /\ Len(kept) < MaxSkippedKeys
        /\ \A i \in DOMAIN kept : i + d \in DOMAIN q /\ kept[i] = q[i + d]
        /\ \A i \in DOMAIN q : i > d => i - d \in DOMAIN kept /\ kept[i - d] = q[i]
  <2>1. CASE Len(q) >= MaxSkippedKeys
    <3>1. kept = Tail(q) /\ q # <<>> /\ Len(q) = MaxSkippedKeys
      <4>1. kept = Tail(q)
        BY <2>1
      <4>2. Len(q) = MaxSkippedKeys /\ Len(q) > 0
        BY <1>1, <2>1
      <4>3. QED
        BY <4>1, <4>2
    <3>2. /\ Tail(q) \in Seq(Skipped) /\ Len(Tail(q)) = Len(q) - 1
          /\ \A i \in 1 .. Len(q) - 1 : Tail(q)[i] = q[i + 1]
      BY <1>1, <3>1
    <3> HIDE DEF kept
    <3>3. DOMAIN kept = 1 .. Len(q) - 1
      BY <3>1, <3>2
    <3>4. \A i \in DOMAIN kept : i + 1 \in DOMAIN q /\ kept[i] = q[i + 1]
      BY <1>0, <1>1, <3>1, <3>2, <3>3
    <3>5. \A i \in DOMAIN q : i > 1 => i - 1 \in DOMAIN kept /\ kept[i - 1] = q[i]
      <4> SUFFICES ASSUME NEW i \in DOMAIN q, i > 1
                   PROVE  i - 1 \in DOMAIN kept /\ kept[i - 1] = q[i]
        OBVIOUS
      <4>1. i - 1 \in DOMAIN kept /\ (i - 1) + 1 = i
        BY <1>0, <1>1, <3>3
      <4>2. QED
        BY <3>4, <4>1
    <3>6. Len(kept) = Len(q) - 1 /\ kept \in Seq(Skipped) /\ Len(kept) < MaxSkippedKeys
      BY <1>1, <3>1, <3>2
    <3>7. QED
      BY <3>1, <3>4, <3>5, <3>6
  <2>2. CASE ~ (Len(q) >= MaxSkippedKeys)
    <3>1. kept = q /\ Len(q) < MaxSkippedKeys
      BY <1>1, <2>2
    <3> HIDE DEF kept
    <3>2. PICK d \in {0, 1} : d = 0
      OBVIOUS
    <3>3. \A i \in DOMAIN q : i + d = i /\ i - d = i
      BY <1>0, <1>1, <3>2
    <3>4. /\ d = 1 => Len(q) = MaxSkippedKeys
          /\ Len(kept) = Len(q) - d /\ Len(kept) < MaxSkippedKeys
      BY <1>1, <3>1, <3>2
    <3>5. /\ \A i \in DOMAIN kept : i + d \in DOMAIN q /\ kept[i] = q[i + d]
          /\ \A i \in DOMAIN q : i > d => i - d \in DOMAIN kept /\ kept[i - d] = q[i]
      BY <3>1, <3>3
    <3>6. kept \in Seq(Skipped)
      BY <1>1, <3>1
    <3>7. QED
      BY <3>4, <3>5, <3>6, Zenon
  <2>3. QED
    BY <2>1, <2>2
<1> HIDE DEF kept
<1>3. same = {}
  <2> SUFFICES ASSUME NEW i \in DOMAIN kept, kept[i].key = e.key, kept[i].n = e.n
               PROVE  FALSE
    BY DEF Replaced
  <2>1. i + d \in DOMAIN q /\ kept[i] = q[i + d]
    BY <1>2
  <2>2. QED
    BY <2>1
<1>4. r = Append(kept, e)
  BY <1>3 DEF RememberSkipped, kept
<1> HIDE DEF same
<1>5. /\ r \in Seq(Skipped) /\ Len(r) = Len(kept) + 1 /\ DOMAIN r = 1 .. Len(kept) + 1
      /\ \A i \in DOMAIN kept : i \in DOMAIN r /\ r[i] = kept[i]
      /\ r[Len(kept) + 1] = e
  BY <1>2, <1>4
<1>6. DOMAIN kept = 1 .. Len(kept)
  BY <1>2
<1>7. From(r, q, e)
  <2> SUFFICES ASSUME NEW i \in DOMAIN r PROVE r[i] = e \/ \E j \in DOMAIN q : r[i] = q[j]
    BY DEF From
  <2>1. i = Len(kept) + 1 \/ i \in DOMAIN kept
    BY <1>2, <1>5, <1>6
  <2>2. QED
    BY <1>2, <1>5, <2>1
<1>8. e.mk \in Latest(r, 1)
  <2>1. Len(kept) + 1 \in DOMAIN r /\ Len(r) - (Len(kept) + 1) < 1
    BY <1>2, <1>5
  <2>2. QED
    BY <1>5, <2>1 DEF Latest
<1>9. ASSUME NEW k \in Nat, k < MaxSkippedKeys, NEW mk \in Latest(q, k)
      PROVE  mk \in Latest(r, k + 1)
  <2>1. PICK i \in DOMAIN q : Len(q) - i < k /\ q[i].mk = mk
    BY <1>9 DEF Latest
  <2>2. i \in Nat /\ i >= 1 /\ (d = 0 \/ d = 1) /\ Len(q) \in Nat
    BY <1>0, <1>1
  <2>3. Len(kept) \in Nat /\ Len(r) = Len(kept) + 1 /\ Len(kept) = Len(q) - d
    BY <1>2, <1>5
  <2>4. i > d
    BY <1>1, <1>2, <1>9, <2>1, <2>2
  <2>5. i - d \in DOMAIN r /\ r[i - d] = q[i]
    BY <1>2, <1>5, <2>4
  <2>6. Len(r) - (i - d) < k + 1
    BY <1>9, <2>1, <2>2, <2>3
  <2>7. QED
    BY <2>1, <2>5, <2>6 DEF Latest
<1>10. Len(r) <= MaxSkippedKeys
  <2>1. Len(r) = Len(kept) + 1 /\ Len(kept) \in Nat /\ Len(kept) < MaxSkippedKeys
    BY <1>2, <1>5
  <2>2. QED
    BY <1>1, <2>1
<1>11. QED
  BY <1>5, <1>7, <1>8, <1>9, <1>10 DEF Bounded

\* The loop of skipReceivingKeys: what was among the latest k is still there,
\* as many places further down as were stored, and so is what was stored.
LEMMA RememberAllLatest ==
  ASSUME NEW q, Bounded(q), NEW es \in Seq(Skipped),
         \A i, j \in DOMAIN es : es[i].key = es[j].key /\ es[i].n = es[j].n => i = j,
         \A i \in DOMAIN q, j \in DOMAIN es : ~ (q[i].key = es[j].key /\ q[i].n = es[j].n),
         NEW k \in Nat, k + Len(es) <= MaxSkippedKeys
  PROVE  LET r == RememberAll(q, es)
         IN  /\ Latest(q, k) \subseteq Latest(r, k + Len(es))
             /\ \A j \in DOMAIN es : es[j].mk \in Latest(r, k + Len(es))
             /\ FromBoth(r, q, es, Len(es))
<1>1. PICK N \in Nat : N = Len(es)
  OBVIOUS
<1>2. PICK run : RememberRun(run, q, es, N) /\ RememberAll(q, es) = run[N]
  BY <1>1, RememberAllRun
<1>3. run[0] = q /\ \A i \in 1 .. N : run[i] = RememberSkipped(run[i - 1], es[i])
  BY <1>2, RunSteps
<1> DEFINE Good(n) == /\ Bounded(run[n])
                      /\ FromBoth(run[n], q, es, n)
                      /\ Latest(q, k) \subseteq Latest(run[n], k + n)
                      /\ \A j \in 1 .. n : es[j].mk \in Latest(run[n], k + n)
           Bad == {n \in 0 .. N : ~ Good(n)}
<1>4. Bad = {}
  <2> SUFFICES ASSUME Bad # {} PROVE FALSE
    OBVIOUS
  <2>1. Bad \subseteq Nat
    OBVIOUS
  <2>2. PICK n \in Bad : \A m \in Bad : n <= m
    BY <2>1, LeastNumber
  <2>3. n \in 0 .. N /\ ~ Good(n)
    OBVIOUS
  <2>4. n # 0
    <3>1. Good(0)
      BY <1>3 DEF FromBoth
    <3>2. QED
      BY <2>3, <3>1
  <2>5. PICK l : l = n - 1
    OBVIOUS
  <2>6. /\ l \in 0 .. N /\ n = l + 1 /\ ~ (n <= l) /\ n \in 1 .. N /\ l \in Nat
        /\ k + l \in Nat /\ k + l < MaxSkippedKeys /\ (k + l) + 1 = k + n /\ 1 <= k + n
        /\ k + n \in Nat
    BY <1>1, <2>3, <2>4, <2>5, SkipBounds
  <2>7. Good(l)
    BY <2>2, <2>6
  <2>8. run[n] = RememberSkipped(run[l], es[n])
    BY <1>3, <2>5, <2>6
  <2>9. es[n] \in Skipped /\ n \in DOMAIN es
    BY <1>1, <2>6
  <2>10. \A i \in DOMAIN run[l] : ~ (run[l][i].key = es[n].key /\ run[l][i].n = es[n].n)
    <3> SUFFICES ASSUME NEW i \in DOMAIN run[l],
                        run[l][i].key = es[n].key, run[l][i].n = es[n].n
                 PROVE  FALSE
      OBVIOUS
    <3>1. CASE \E j \in DOMAIN q : run[l][i] = q[j]
      BY <2>9, <3>1
    <3>2. CASE \E j \in 1 .. l : run[l][i] = es[j]
      <4>1. PICK j \in 1 .. l : run[l][i] = es[j]
        BY <3>2
      <4>2. j \in DOMAIN es /\ j # n
        BY <1>1, <2>6
      <4>3. QED
        BY <2>9, <4>1, <4>2
    <3>3. QED
      BY <2>7, <3>1, <3>2 DEF FromBoth
  <2> HIDE DEF Bad
  <2>11. /\ Bounded(run[n])
         /\ From(run[n], run[l], es[n])
         /\ es[n].mk \in Latest(run[n], 1)
         /\ Latest(run[l], k + l) \subseteq Latest(run[n], (k + l) + 1)
    BY <2>6, <2>7, <2>8, <2>9, <2>10, RememberLatest
  <2>12. FromBoth(run[n], q, es, n)
    <3> SUFFICES ASSUME NEW i \in DOMAIN run[n]
                 PROVE  \/ \E j \in DOMAIN q : run[n][i] = q[j]
                        \/ \E j \in 1 .. n : run[n][i] = es[j]
      BY DEF FromBoth
    <3>1. n \in 1 .. n /\ 1 .. l \subseteq 1 .. n
      BY <2>6
    <3>2. CASE run[n][i] = es[n]
      BY <3>1, <3>2
    <3>3. CASE \E j \in DOMAIN run[l] : run[n][i] = run[l][j]
      <4>1. PICK j \in DOMAIN run[l] : run[n][i] = run[l][j]
        BY <3>3
      <4>2. \/ \E x \in DOMAIN q : run[l][j] = q[x]
            \/ \E x \in 1 .. l : run[l][j] = es[x]
        BY <2>7 DEF FromBoth
      <4>3. QED
        BY <3>1, <4>1, <4>2
    <3>4. QED
      BY <2>11, <3>2, <3>3 DEF From
  <2>13. Latest(run[n], 1) \subseteq Latest(run[n], k + n)
    BY <2>6, <2>11, LatestMore DEF Bounded
  <2>14. ASSUME NEW j \in 1 .. n PROVE es[j].mk \in Latest(run[n], k + n)
    <3>1. j = n \/ j \in 1 .. l
      BY <2>6
    <3>2. QED
      BY <2>6, <2>7, <2>11, <2>13, <3>1
  <2>15. Latest(q, k) \subseteq Latest(run[n], k + n)
    BY <2>6, <2>7, <2>11
  <2>16. QED
    BY <2>3, <2>11, <2>12, <2>14, <2>15
<1>5. Good(N)
  <2>1. N \in 0 .. N /\ N \notin Bad
    BY <1>4
  <2>2. QED
    BY <2>1
<1>6. DOMAIN es = 1 .. N
  BY <1>1
<1>7. QED
  BY <1>1, <1>2, <1>5, <1>6

-----------------------------------------------------------------------------
(* ratchetEncrypt.                                                         *)

\* What s seals with, and what it opens with.
SameSealing(s, t) ==
  /\ t.sending = s.sending /\ t.sendingChainKey = s.sendingChainKey
  /\ t.sentCount = s.sentCount /\ t.previousSentCount = s.previousSentCount

SameOpening(s, t) ==
  /\ t.rootKey = s.rootKey /\ t.receiving = s.receiving
  /\ t.receivingChainKey = s.receivingChainKey /\ t.receivedCount = s.receivedCount
  /\ t.skipped = s.skipped

LEMMA StreamSame ==
  ASSUME NEW s, NEW s1, NEW t, NEW t1, NEW A, NEW g, NEW g1, NEW r, Stream(s, t, A, g, r),
         SameSealing(s, s1), SameOpening(t, t1), g \subseteq g1
  PROVE  Stream(s1, t1, A, g1, r)
<1>1. Sends(s1, A)
  BY DEF Stream, Sends, SameSealing
<1>2. ASSUME NEW m \in A
      PROVE  /\ m.key = s1.sending.pub \/ IsStrictPrefix(m.mk.id, t1.rootKey)
             /\ \/ m.mk \in g1 \/ m.mk \in Latest(t1.skipped, r)
                \/ Ahead(t1, m) \/ ToEnter(s1, t1, m)
  BY DEF Stream, SameSealing, SameOpening, Ahead, ToEnter
<1>3. CacheOf(t1.skipped, A)
  BY DEF Stream, SameOpening
<1>4. /\ t1.receivingChainKey # NoChain =>
           \E w \in A : w.key = t1.receiving /\ w.mk.id = t1.receivingChainKey.id
      /\ t1.receiving = s1.sending.pub =>
           t1.receivingChainKey.id = s1.sendingChainKey.id /\ t1.receivedCount <= s1.sentCount
      /\ t1.receiving # s1.sending.pub /\ t1.receivingChainKey # NoChain =>
           /\ \A n \in 0 .. s1.previousSentCount - 1 : Numbered(A, t1.receiving, n)
           /\ \A m \in A : m.key = t1.receiving => m.n < s1.previousSentCount
  BY DEF Stream, SameSealing, SameOpening
<1>5. QED
  BY <1>1, <1>2, <1>3, <1>4 DEF Stream

LEMMA EncryptFields ==
  ASSUME NEW s, Whole(s)
  PROVE  LET t == AfterEncrypt(s)
         IN  /\ SameOpening(s, t) /\ t.sending = s.sending
             /\ t.previousSentCount = s.previousSentCount
             /\ t.sentCount = s.sentCount + 1 /\ t.sentCount \in Nat
             /\ t.sendingChainKey.id = s.sendingChainKey.id
             /\ t.sendingChainKey.pos = s.sentCount + 1
<1> DEFINE ck == Advanced(s.sendingChainKey, 1)
           t  == AfterEncrypt(s)
<1>1. /\ s \in RatchetState /\ s.sendingChainKey \in Chain /\ s.sentCount \in Nat
      /\ s.sendingChainKey.pos = s.sentCount
  BY WholeTypes DEF Whole
<1>2. ck.id = s.sendingChainKey.id /\ ck.pos = s.sentCount + 1
  BY <1>1, AdvancedChain
<1>3. t = [s EXCEPT !.sendingChainKey = ck, !.sentCount = s.sentCount + 1]
  BY DEF AfterEncrypt
<1>4. s = [rootKey |-> s.rootKey, sending |-> s.sending, receiving |-> s.receiving,
           sendingChainKey |-> s.sendingChainKey,
           receivingChainKey |-> s.receivingChainKey,
           sentCount |-> s.sentCount, receivedCount |-> s.receivedCount,
           previousSentCount |-> s.previousSentCount, skipped |-> s.skipped]
  BY <1>1, StateRecord
<1> HIDE DEF ck, t
<1>5. t = [rootKey |-> s.rootKey, sending |-> s.sending, receiving |-> s.receiving,
           sendingChainKey |-> ck, receivingChainKey |-> s.receivingChainKey,
           sentCount |-> s.sentCount + 1, receivedCount |-> s.receivedCount,
           previousSentCount |-> s.previousSentCount, skipped |-> s.skipped]
  BY <1>3, <1>4
<1>6. QED
  BY <1>1, <1>2, <1>5 DEF SameOpening, t

\* ratchetEncrypt: one more message, with the next number of its chain.
LEMMA SealStream ==
  ASSUME NEW s, Whole(s), CanEncrypt(s), NEW t, NEW A, NEW g, NEW r, Stream(s, t, A, g, r),
         t.receivedCount \in Nat
  PROVE  Stream(AfterEncrypt(s), t, A \cup {Sealed(s)}, g, r)
<1>0. PICK e : e = Sealed(s)
  OBVIOUS
<1>1. PICK u : u = AfterEncrypt(s)
  OBVIOUS
<1> DEFINE B == A \cup {e}
<1>2. /\ u.sending = s.sending /\ u.previousSentCount = s.previousSentCount
      /\ u.sentCount = s.sentCount + 1 /\ u.sentCount \in Nat
      /\ u.sendingChainKey.id = s.sendingChainKey.id
  BY <1>1, EncryptFields
<1>3. /\ s.sending \in [pub : Key, sec : Key] /\ s.sendingChainKey \in Chain
      /\ s.sentCount \in Nat /\ s.previousSentCount \in Nat
      /\ s.sendingChainKey.pos = s.sentCount /\ s.sendingChainKey # NoChain
  BY WholeTypes DEF Whole, CanEncrypt
<1>4. /\ e.key = s.sending.pub /\ e.prev = s.previousSentCount /\ e.n = s.sentCount
      /\ e.mk = s.sendingChainKey /\ e \in Message
  BY <1>0, <1>3 DEF Sealed, Message
<1>5. /\ Sends(s, A) /\ s.sendingChainKey.id # <<>> /\ A \subseteq Message
      /\ s.sending.pub = s.sending.sec /\ s.sending.pub # Zero
  BY <1>3 DEF Stream, Sends
<1>6. ASSUME NEW k, NEW n, Numbered(A, k, n) PROVE Numbered(B, k, n)
  BY <1>6 DEF Numbered
<1>7. \A n \in 0 .. s.sentCount : Numbered(B, s.sending.pub, n)
  <2> SUFFICES ASSUME NEW n \in 0 .. s.sentCount PROVE Numbered(B, s.sending.pub, n)
    OBVIOUS
  <2>1. CASE n = s.sentCount
    BY <1>4, <2>1 DEF Numbered
  <2>2. CASE n # s.sentCount
    <3>1. n \in 0 .. s.sentCount - 1
      BY <1>3, <2>2
    <3>2. QED
      BY <1>3, <1>5, <1>6, <3>1 DEF Sends
  <2>3. QED
    BY <2>1, <2>2
<1>8. ASSUME NEW m \in B
      PROVE  /\ m.key # Zero /\ m.mk.id # <<>> /\ m.mk.pos = m.n
             /\ m.key = u.sending.pub <=> m.mk.id = u.sendingChainKey.id
             /\ m.key = u.sending.pub => m.n < u.sentCount /\ m.prev = u.previousSentCount
             /\ \A n \in 0 .. m.n : Numbered(B, m.key, n)
             /\ \A w \in B : m.key = w.key <=> m.mk.id = w.mk.id
  <2>1. ASSUME NEW w \in A
        PROVE  /\ w.key # Zero /\ w.mk.id # <<>> /\ w.mk.pos = w.n
               /\ w.key = s.sending.pub <=> w.mk.id = s.sendingChainKey.id
               /\ w.key = s.sending.pub => w.n < s.sentCount /\ w.prev = s.previousSentCount
               /\ \A n \in 0 .. w.n : Numbered(A, w.key, n)
               /\ \A v \in A : w.key = v.key <=> w.mk.id = v.mk.id
    BY <1>5 DEF Sends
  <2>2. CASE m = e
    <3>1. m.key # Zero /\ m.mk.id # <<>> /\ m.mk.pos = m.n
      BY <1>3, <1>4, <1>5, <2>2
    <3>2. /\ m.key = u.sending.pub <=> m.mk.id = u.sendingChainKey.id
          /\ m.key = u.sending.pub => m.n < u.sentCount /\ m.prev = u.previousSentCount
      BY <1>2, <1>3, <1>4, <2>2
    <3>3. \A n \in 0 .. m.n : Numbered(B, m.key, n)
      BY <1>4, <1>7, <2>2
    <3>4. \A w \in B : m.key = w.key <=> m.mk.id = w.mk.id
      BY <1>4, <2>1, <2>2
    <3>5. QED
      BY <3>1, <3>2, <3>3, <3>4
  <2>3. CASE m \in A
    <3>1. m.n \in Nat
      BY <1>5, <2>3 DEF Message
    <3>2. m.key = u.sending.pub => m.n < u.sentCount /\ m.prev = u.previousSentCount
      BY <1>2, <1>3, <2>1, <2>3, <3>1
    <3>3. \A n \in 0 .. m.n : Numbered(B, m.key, n)
      BY <1>6, <2>1, <2>3
    <3>4. \A w \in B : m.key = w.key <=> m.mk.id = w.mk.id
      BY <1>4, <2>1, <2>3
    <3>5. QED
      BY <1>2, <2>1, <2>3, <3>2, <3>3, <3>4
  <2>4. QED
    BY <2>2, <2>3
<1>9. Sends(u, B)
  <2>1. u.sendingChainKey # NoChain =>
          /\ u.sendingChainKey.id # <<>>
          /\ \A n \in 0 .. u.sentCount - 1 : Numbered(B, u.sending.pub, n)
    <3>1. u.sentCount - 1 = s.sentCount
      BY <1>2, <1>3
    <3>2. \A n \in 0 .. u.sentCount - 1 : Numbered(B, u.sending.pub, n)
      BY <1>2, <1>7, <3>1
    <3>3. QED
      BY <1>2, <1>5, <3>2
  <2>2. B \subseteq Message
    BY <1>4, <1>5
  <2> HIDE DEF B
  <2>3. QED
    BY <1>2, <1>5, <1>8, <2>1, <2>2 DEF Sends
<1>10. CacheOf(t.skipped, B)
  BY DEF Stream, CacheOf
<1>11. /\ t.receivingChainKey # NoChain =>
            \E w \in B : w.key = t.receiving /\ w.mk.id = t.receivingChainKey.id
       /\ t.receiving = u.sending.pub =>
            t.receivingChainKey.id = u.sendingChainKey.id /\ t.receivedCount <= u.sentCount
       /\ t.receiving # u.sending.pub /\ t.receivingChainKey # NoChain =>
            /\ \A n \in 0 .. u.previousSentCount - 1 : Numbered(B, t.receiving, n)
            /\ \A m \in B : m.key = t.receiving => m.n < u.previousSentCount
  <2>1. t.receivingChainKey # NoChain =>
            \E w \in B : w.key = t.receiving /\ w.mk.id = t.receivingChainKey.id
    BY DEF Stream
  <2>2. t.receiving = u.sending.pub =>
            t.receivingChainKey.id = u.sendingChainKey.id /\ t.receivedCount <= u.sentCount
    BY <1>2, <1>3 DEF Stream
  <2>3. ASSUME t.receiving # u.sending.pub, t.receivingChainKey # NoChain
        PROVE  /\ \A n \in 0 .. u.previousSentCount - 1 : Numbered(B, t.receiving, n)
               /\ \A m \in B : m.key = t.receiving => m.n < u.previousSentCount
    BY <1>2, <1>4, <1>6, <2>3 DEF Stream
  <2>4. QED
    BY <2>1, <2>2, <2>3
<1>12. ASSUME NEW m \in B
       PROVE  /\ m.key = u.sending.pub \/ IsStrictPrefix(m.mk.id, t.rootKey)
              /\ \/ m.mk \in g \/ m.mk \in Latest(t.skipped, r)
                 \/ Ahead(t, m) \/ ToEnter(u, t, m)
  <2>1. CASE m \in A
    <3>1. /\ m.key = s.sending.pub \/ IsStrictPrefix(m.mk.id, t.rootKey)
          /\ \/ m.mk \in g \/ m.mk \in Latest(t.skipped, r)
             \/ Ahead(t, m) \/ ToEnter(s, t, m)
      BY <2>1 DEF Stream
    <3>2. QED
      BY <1>2, <3>1 DEF ToEnter
  <2>2. CASE m = e
    <3>1. CASE t.receiving = e.key
      <4>1. t.receivingChainKey.id # <<>> /\ t.receivedCount <= s.sentCount
        BY <1>4, <1>5, <3>1 DEF Stream
      <4>2. t.receivingChainKey # NoChain
        BY <4>1 DEF NoChain
      <4>3. QED
        BY <1>2, <1>4, <2>2, <3>1, <4>1, <4>2 DEF Ahead
    <3>2. CASE t.receiving # e.key
      BY <1>2, <1>4, <2>2, <3>2 DEF ToEnter
    <3>3. QED
      BY <3>1, <3>2
  <2>3. QED
    BY <2>1, <2>2
<1> HIDE DEF B
<1>13. Stream(u, t, B, g, r)
  BY <1>9, <1>10, <1>11, <1>12 DEF Stream
<1>14. QED
  BY <1>0, <1>1, <1>13 DEF B

-----------------------------------------------------------------------------
(* skipReceivingKeys.                                                      *)

\* The entries for the keys skipped over.
LEMMA AheadEntry ==
  ASSUME NEW t, Whole(t), NEW until \in Nat, until >= t.receivedCount
  PROVE  LET es == KeysAhead(t, until)
         IN  /\ es \in Seq(Skipped) /\ Len(es) = until - t.receivedCount
             /\ DOMAIN es = 1 .. until - t.receivedCount
             /\ \A i \in DOMAIN es :
                  /\ es[i].key = t.receiving /\ es[i].n = t.receivedCount + (i - 1)
                  /\ es[i].mk \in Chain
                  /\ es[i].mk.id = t.receivingChainKey.id /\ es[i].mk.pos = es[i].n
<1> DEFINE es == KeysAhead(t, until)
<1>1. t.receivedCount \in Nat /\ until - t.receivedCount \in Nat
  <2>1. t.receivedCount \in Nat
    BY WholeTypes
  <2>2. QED
    BY <2>1
<1>2. es = [i \in 1 .. until - t.receivedCount |->
              [key |-> t.receiving, n |-> t.receivedCount + i - 1,
               mk |-> Advanced(t.receivingChainKey, i - 1)]]
  BY DEF KeysAhead
<1>3. /\ es \in Seq(Skipped)
      /\ \A i \in DOMAIN es : /\ es[i].mk \in Chain
                              /\ es[i].mk.id = t.receivingChainKey.id
                              /\ es[i].mk.pos = t.receivedCount + (i - 1)
  BY KeysAheadEntries
<1> HIDE DEF es
<1>4. DOMAIN es = 1 .. until - t.receivedCount
  BY <1>2
<1>5. Len(es) = until - t.receivedCount
  BY <1>1, <1>3, <1>4
<1>6. ASSUME NEW i \in DOMAIN es
      PROVE  es[i].key = t.receiving /\ es[i].n = t.receivedCount + (i - 1)
  <2>1. i \in Nat /\ t.receivedCount + i - 1 = t.receivedCount + (i - 1)
    BY <1>1, <1>4
  <2>2. QED
    BY <1>2, <1>4, <2>1
<1>7. QED
  BY <1>3, <1>4, <1>5, <1>6 DEF es

\* The chain that is open belongs to one pair.
LEMMA ReceivingChain ==
  ASSUME NEW s, NEW t, NEW A, NEW g, NEW k, Stream(s, t, A, g, k),
         t.receivingChainKey # NoChain
  PROVE  /\ t.receivingChainKey.id # <<>> /\ t.receiving # Zero
         /\ \A m \in A : m.key = t.receiving <=> m.mk.id = t.receivingChainKey.id
<1>1. PICK w \in A : w.key = t.receiving /\ w.mk.id = t.receivingChainKey.id
  BY DEF Stream
<1>2. QED
  BY <1>1 DEF Stream, Sends

\* skipReceivingKeys: the keys skipped over are now in the cache.
LEMMA SkipStream ==
  ASSUME NEW s, NEW t, Whole(t), NEW A, NEW g, NEW k \in Nat, Stream(s, t, A, g, k),
         t.receivingChainKey # NoChain, NEW until \in Nat, until >= t.receivedCount,
         until - t.receivedCount <= MaxSkipPerChain, k + MaxSkipPerChain <= MaxSkippedKeys,
         \A n \in 0 .. until - 1 : Numbered(A, t.receiving, n),
         t.receiving = s.sending.pub => until <= s.sentCount
  PROVE  Stream(s, CaughtUp(t, until), A, g, k + MaxSkipPerChain)
<1> DEFINE es == KeysAhead(t, until)
           q  == RememberAll(t.skipped, es)
<1>1. /\ t.receivedCount \in Nat /\ t.skipped \in Seq(Skipped)
      /\ t.receivingChainKey \in Chain
      /\ Len(t.skipped) <= MaxSkippedKeys
      /\ t.receivingChainKey.pos = t.receivedCount
      /\ MaxSkipPerChain \in Nat /\ until - t.receivedCount \in Nat
  <2>1. /\ t.receivedCount \in Nat /\ t.skipped \in Seq(Skipped)
        /\ t.receivingChainKey \in Chain /\ Len(t.skipped) <= MaxSkippedKeys
        /\ t.receivingChainKey.pos = t.receivedCount
    BY WholeTypes DEF Whole, CacheOK
  <2>2. QED
    BY <2>1, SkipBounds
<1>2. /\ es \in Seq(Skipped) /\ Len(es) = until - t.receivedCount
      /\ DOMAIN es = 1 .. until - t.receivedCount
      /\ \A i \in DOMAIN es :
           /\ es[i].key = t.receiving /\ es[i].n = t.receivedCount + (i - 1)
           /\ es[i].mk \in Chain
           /\ es[i].mk.id = t.receivingChainKey.id /\ es[i].mk.pos = es[i].n
  BY AheadEntry
<1> HIDE DEF es
<1>3. /\ t.receivingChainKey.id # <<>> /\ t.receiving # Zero
      /\ \A m \in A : m.key = t.receiving <=> m.mk.id = t.receivingChainKey.id
  BY ReceivingChain
<1>4. /\ A \subseteq Message /\ \A m \in A : m.mk.pos = m.n
      /\ \A m \in A : m.mk \in Chain /\ m.n \in Nat
  <2>1. A \subseteq Message /\ \A m \in A : m.mk.pos = m.n
    BY DEF Stream, Sends
  <2>2. QED
    BY <2>1 DEF Message
<1>5. \A i, j \in DOMAIN es : es[i].key = es[j].key /\ es[i].n = es[j].n => i = j
  <2> SUFFICES ASSUME NEW i \in DOMAIN es, NEW j \in DOMAIN es, es[i].n = es[j].n
               PROVE  i = j
    OBVIOUS
  <2>1. i \in Nat /\ j \in Nat /\ t.receivedCount + (i - 1) = t.receivedCount + (j - 1)
    BY <1>1, <1>2
  <2>2. QED
    BY <1>1, <2>1
<1>6. \A i \in DOMAIN t.skipped, j \in DOMAIN es :
        ~ (t.skipped[i].key = es[j].key /\ t.skipped[i].n = es[j].n)
  <2> SUFFICES ASSUME NEW i \in DOMAIN t.skipped, NEW j \in DOMAIN es,
                      t.skipped[i].key = es[j].key, t.skipped[i].n = es[j].n
               PROVE  FALSE
    OBVIOUS
  <2>1. PICK w \in A : /\ w.key = t.skipped[i].key /\ w.n = t.skipped[i].n
                       /\ w.mk = t.skipped[i].mk
    BY DEF Stream, CacheOf
  <2>2. w.mk.id = t.receivingChainKey.id
    BY <1>2, <1>3, <2>1
  <2>3. w.n < t.receivedCount
    BY <1>4, <2>1, <2>2 DEF Whole
  <2>4. j \in Nat /\ j >= 1 /\ w.n = t.receivedCount + (j - 1)
    BY <1>1, <1>2, <2>1
  <2>5. QED
    BY <1>1, <2>3, <2>4
<1>7. /\ Latest(t.skipped, k) \subseteq Latest(q, k + Len(es))
      /\ \A j \in DOMAIN es : es[j].mk \in Latest(q, k + Len(es))
      /\ FromBoth(q, t.skipped, es, Len(es))
  <2>1. k + Len(es) <= MaxSkippedKeys
    BY <1>1, <1>2, SkipBounds
  <2>2. Bounded(t.skipped)
    BY <1>1 DEF Bounded
  <2>3. QED
    BY <1>2, <1>5, <1>6, <2>1, <2>2, RememberAllLatest
<1>8. PICK u : u = CaughtUp(t, until)
  OBVIOUS
<1>9. /\ u.rootKey = t.rootKey /\ u.receiving = t.receiving /\ u.receivedCount = until
      /\ u.receivingChainKey = Advanced(t.receivingChainKey, until - t.receivedCount)
      /\ u.skipped = q
  BY <1>8, CaughtUpFields DEF es
<1>10. u.receivingChainKey.id = t.receivingChainKey.id /\ u.receivingChainKey # NoChain
  <2>1. u.receivingChainKey.id = t.receivingChainKey.id
    BY <1>1, <1>9, AdvancedChain
  <2>2. QED
    BY <1>3, <2>1 DEF NoChain
<1>11. Whole(u)
  BY <1>8, CaughtUpMoves DEF Moves
<1>12. Latest(q, k + Len(es)) \subseteq Latest(q, k + MaxSkipPerChain)
  <2>1. q \in Seq(Skipped)
    BY <1>9, <1>11, WholeTypes
  <2>2. /\ k + Len(es) \in Nat /\ k + MaxSkipPerChain \in Nat
        /\ k + Len(es) <= k + MaxSkipPerChain
    BY <1>1, <1>2
  <2> HIDE DEF q
  <2>3. QED
    BY <2>1, <2>2, LatestMore
<1> HIDE DEF q
\* The message with the number of an entry has its key.
<1>13. ASSUME NEW j \in DOMAIN es, NEW w \in A, w.key = t.receiving, w.n = es[j].n
       PROVE  w.mk = es[j].mk
  <2>1. /\ w.mk \in Chain /\ es[j].mk \in Chain
        /\ w.mk.id = es[j].mk.id /\ w.mk.pos = es[j].mk.pos
    BY <1>2, <1>3, <1>4, <1>13
  <2>2. QED
    BY <2>1 DEF Chain
<1>14. CacheOf(q, A)
  <2> SUFFICES ASSUME NEW i \in DOMAIN q
               PROVE  \E w \in A : w.key = q[i].key /\ w.n = q[i].n /\ w.mk = q[i].mk
    BY DEF CacheOf
  <2>1. CASE \E j \in DOMAIN t.skipped : q[i] = t.skipped[j]
    BY <2>1 DEF Stream, CacheOf
  <2>2. CASE \E j \in 1 .. Len(es) : q[i] = es[j]
    <3>1. PICK j \in DOMAIN es : q[i] = es[j]
      BY <1>2, <2>2
    <3>2. es[j].n \in 0 .. until - 1
      BY <1>1, <1>2
    <3>3. PICK w \in A : w.key = t.receiving /\ w.n = es[j].n
      BY <3>2 DEF Numbered
    <3>4. w.mk = es[j].mk
      BY <1>13, <3>3
    <3>5. QED
      BY <1>2, <3>1, <3>3, <3>4
  <2>3. QED
    BY <1>7, <2>1, <2>2 DEF FromBoth
<1>15. ASSUME NEW m \in A
       PROVE  /\ m.key = s.sending.pub \/ IsStrictPrefix(m.mk.id, u.rootKey)
              /\ \/ m.mk \in g \/ m.mk \in Latest(u.skipped, k + MaxSkipPerChain)
                 \/ Ahead(u, m) \/ ToEnter(s, u, m)
  <2>1. /\ m.key = s.sending.pub \/ IsStrictPrefix(m.mk.id, u.rootKey)
        /\ m.mk \in g \/ m.mk \in Latest(t.skipped, k) \/ Ahead(t, m) \/ ToEnter(s, t, m)
    BY <1>9 DEF Stream
  <2>2. ToEnter(s, t, m) => ToEnter(s, u, m)
    BY <1>9 DEF ToEnter
  <2>3. m.mk \in Latest(t.skipped, k) => m.mk \in Latest(u.skipped, k + MaxSkipPerChain)
    BY <1>7, <1>9, <1>12
  <2>4. ASSUME Ahead(t, m), m.n < until
        PROVE  m.mk \in Latest(u.skipped, k + MaxSkipPerChain)
    <3>1. m.key = t.receiving /\ m.n \in Nat /\ t.receivedCount <= m.n
      BY <1>4, <2>4 DEF Ahead
    <3>2. PICK j \in 1 .. until - t.receivedCount : j = m.n - t.receivedCount + 1
      BY <1>1, <2>4, <3>1
    <3>3. j \in DOMAIN es /\ es[j].n = m.n
      BY <1>1, <1>2, <3>1, <3>2
    <3>4. m.mk = es[j].mk
      BY <1>13, <3>1, <3>3
    <3>5. QED
      BY <1>7, <1>9, <1>12, <3>3, <3>4
  <2>5. ASSUME Ahead(t, m), ~ (m.n < until)
        PROVE  Ahead(u, m)
    BY <1>4, <1>9, <1>10, <2>5 DEF Ahead
  <2>6. QED
    BY <2>1, <2>2, <2>3, <2>4, <2>5
<1>16. /\ \E w \in A : w.key = u.receiving /\ w.mk.id = u.receivingChainKey.id
       /\ u.receiving = s.sending.pub =>
            u.receivingChainKey.id = s.sendingChainKey.id /\ u.receivedCount <= s.sentCount
       /\ u.receiving # s.sending.pub =>
            /\ \A n \in 0 .. s.previousSentCount - 1 : Numbered(A, u.receiving, n)
            /\ \A m \in A : m.key = u.receiving => m.n < s.previousSentCount
  BY <1>9, <1>10 DEF Stream
<1>17. Sends(s, A) /\ CacheOf(u.skipped, A)
  BY <1>9, <1>14 DEF Stream
<1>18. QED
  BY <1>8, <1>15, <1>16, <1>17 DEF Stream

-----------------------------------------------------------------------------
(* The commit, and prefixes.                                               *)

LEMMA CommitFields ==
  ASSUME NEW s, Whole(s)
  PROVE  CommitReceived(s) =
           [rootKey |-> s.rootKey, sending |-> s.sending, receiving |-> s.receiving,
            sendingChainKey |-> s.sendingChainKey,
            receivingChainKey |-> Advanced(s.receivingChainKey, 1),
            sentCount |-> s.sentCount, receivedCount |-> s.receivedCount + 1,
            previousSentCount |-> s.previousSentCount, skipped |-> s.skipped]
<1> DEFINE ck == Advanced(s.receivingChainKey, 1)
           n  == s.receivedCount + 1
           t  == CommitReceived(s)
<1>1. t = [s EXCEPT !.receivingChainKey = ck, !.receivedCount = n]
  BY DEF CommitReceived
<1>2. s = [rootKey |-> s.rootKey, sending |-> s.sending, receiving |-> s.receiving,
           sendingChainKey |-> s.sendingChainKey,
           receivingChainKey |-> s.receivingChainKey,
           sentCount |-> s.sentCount, receivedCount |-> s.receivedCount,
           previousSentCount |-> s.previousSentCount, skipped |-> s.skipped]
  BY StateRecord DEF Whole
<1> HIDE DEF ck, n, t
<1>3. t = [rootKey |-> s.rootKey, sending |-> s.sending, receiving |-> s.receiving,
           sendingChainKey |-> s.sendingChainKey, receivingChainKey |-> ck,
           sentCount |-> s.sentCount, receivedCount |-> n,
           previousSentCount |-> s.previousSentCount, skipped |-> s.skipped]
  BY <1>1, <1>2
<1>4. QED
  BY <1>3 DEF ck, n, t

\* The commit spends the key that opened the message, and no other.
LEMMA CommitStream ==
  ASSUME NEW s, s.sentCount \in Nat, NEW t, Whole(t), NEW A, NEW g, NEW k,
         Stream(s, t, A, g, k), t.receivingChainKey # NoChain,
         NEW m \in A, t.receivingChainKey = m.mk
  PROVE  Stream(s, CommitReceived(t), A, g \cup {m.mk}, k)
<1>1. PICK u : u = CommitReceived(t)
  OBVIOUS
<1>2. /\ u.rootKey = t.rootKey /\ u.receiving = t.receiving /\ u.skipped = t.skipped
      /\ u.receivingChainKey = Advanced(t.receivingChainKey, 1)
      /\ u.receivedCount = t.receivedCount + 1
  BY <1>1, CommitFields
<1>3. /\ t.receivingChainKey \in Chain /\ t.receivedCount \in Nat
      /\ t.receivingChainKey.pos = t.receivedCount
  BY WholeTypes DEF Whole
<1>4. /\ t.receivingChainKey.id # <<>>
      /\ \A w \in A : w.key = t.receiving <=> w.mk.id = t.receivingChainKey.id
  BY ReceivingChain
<1>5. u.receivingChainKey.id = t.receivingChainKey.id /\ u.receivingChainKey # NoChain
  <2>1. u.receivingChainKey.id = t.receivingChainKey.id
    BY <1>2, <1>3, AdvancedChain
  <2>2. QED
    BY <1>4, <2>1 DEF NoChain
<1>6. /\ A \subseteq Message
      /\ \A w \in A : w.mk.pos = w.n /\ w.n \in Nat /\ w.mk \in Chain
  BY DEF Stream, Sends, Message
<1>7. m.key = t.receiving /\ m.n = t.receivedCount
  BY <1>3, <1>4, <1>6
<1>8. u.receiving = s.sending.pub =>
        u.receivingChainKey.id = s.sendingChainKey.id /\ u.receivedCount <= s.sentCount
  <2> SUFFICES ASSUME t.receiving = s.sending.pub
               PROVE  u.receivingChainKey.id = s.sendingChainKey.id
                      /\ u.receivedCount <= s.sentCount
    BY <1>2
  <2>1. t.receivingChainKey.id = s.sendingChainKey.id
    BY DEF Stream
  <2>2. m.n < s.sentCount
    BY <1>7 DEF Stream, Sends
  <2>3. QED
    BY <1>2, <1>3, <1>5, <1>7, <2>1, <2>2
<1>9. ASSUME NEW w \in A, Ahead(t, w), w.mk # m.mk
      PROVE  Ahead(u, w)
  <2>1. w.key = t.receiving /\ t.receivedCount <= w.n
    BY <1>9 DEF Ahead
  <2>2. w.mk.id = m.mk.id
    BY <1>4, <2>1
  <2>3. w.n # m.n
    BY <1>6, <1>9, <2>2 DEF Chain
  <2>4. u.receivedCount <= w.n
    BY <1>2, <1>3, <1>6, <1>7, <2>1, <2>3
  <2>5. QED
    BY <1>2, <1>5, <2>1, <2>4 DEF Ahead
<1>10. ASSUME NEW w \in A
       PROVE  /\ w.key = s.sending.pub \/ IsStrictPrefix(w.mk.id, u.rootKey)
              /\ \/ w.mk \in g \cup {m.mk} \/ w.mk \in Latest(u.skipped, k)
                 \/ Ahead(u, w) \/ ToEnter(s, u, w)
  <2>1. /\ w.key = s.sending.pub \/ IsStrictPrefix(w.mk.id, u.rootKey)
        /\ w.mk \in g \/ w.mk \in Latest(u.skipped, k) \/ Ahead(t, w) \/ ToEnter(s, t, w)
    BY <1>2 DEF Stream
  <2>2. ToEnter(s, t, w) => ToEnter(s, u, w)
    BY <1>2 DEF ToEnter
  <2>3. QED
    BY <1>9, <2>1, <2>2
<1>11. /\ \E w \in A : w.key = u.receiving /\ w.mk.id = u.receivingChainKey.id
       /\ u.receiving # s.sending.pub =>
            /\ \A n \in 0 .. s.previousSentCount - 1 : Numbered(A, u.receiving, n)
            /\ \A w \in A : w.key = u.receiving => w.n < s.previousSentCount
  BY <1>2, <1>5 DEF Stream
<1>12. Sends(s, A) /\ CacheOf(u.skipped, A)
  BY <1>2 DEF Stream
<1>13. QED
  BY <1>1, <1>8, <1>10, <1>11, <1>12 DEF Stream

LEMMA PrefixElements ==
  ASSUME NEW S, NEW a \in Seq(S), NEW b \in Seq(S)
  PROVE  IsPrefix(a, b) <=> Len(a) <= Len(b) /\ \A i \in 1 .. Len(a) : a[i] = b[i]
<1>1. SubSeq(a, 1, Len(a)) = a
  OBVIOUS
<1>2. ASSUME Len(a) <= Len(b)
      PROVE  /\ SubSeq(b, 1, Len(a)) \in Seq(S) /\ Len(SubSeq(b, 1, Len(a))) = Len(a)
             /\ \A i \in 1 .. Len(a) : SubSeq(b, 1, Len(a))[i] = b[i]
  BY <1>2
<1>3. ASSUME Len(a) <= Len(b), \A i \in 1 .. Len(a) : a[i] = b[i]
      PROVE  a = SubSeq(b, 1, Len(a))
  <2>1. PICK c : c = SubSeq(b, 1, Len(a))
    OBVIOUS
  <2>2. c \in Seq(S) /\ Len(c) = Len(a) /\ \A i \in 1 .. Len(a) : c[i] = b[i]
    BY <1>2, <1>3, <2>1
  <2>3. a = c
    BY <1>3, <2>2
  <2>4. QED
    BY <2>1, <2>3
<1>4. QED
  BY <1>1, <1>2, <1>3 DEF IsPrefix

\* A root key is a strict prefix of the one an agreement makes of it.
LEMMA PrefixSteps ==
  ASSUME NEW S, NEW a \in Seq(S), NEW b \in Seq(S), NEW x \in S
  PROVE  /\ IsStrictPrefix(b, Append(b, x))
         /\ IsStrictPrefix(a, b) => IsStrictPrefix(a, Append(b, x))
         /\ IsStrictPrefix(a, b) => Len(a) < Len(b)
<1>1. PICK c : c = Append(b, x)
  OBVIOUS
<1>2. c \in Seq(S) /\ Len(c) = Len(b) + 1 /\ \A i \in 1 .. Len(b) : c[i] = b[i]
  BY <1>1
<1>3. IsStrictPrefix(b, c)
  <2>1. Len(b) <= Len(c) /\ b # c
    BY <1>2
  <2>2. QED
    BY <1>2, <2>1, PrefixElements DEF IsStrictPrefix
<1>4. ASSUME IsStrictPrefix(a, b)
      PROVE  Len(a) < Len(b)
  <2>1. a # b /\ Len(a) <= Len(b) /\ \A i \in 1 .. Len(a) : a[i] = b[i]
    BY <1>4, PrefixElements DEF IsStrictPrefix
  <2>2. Len(a) = Len(b) => a = b
    BY <2>1
  <2>3. QED
    BY <2>1, <2>2
<1>5. ASSUME IsStrictPrefix(a, b)
      PROVE  IsStrictPrefix(a, c)
  <2>1. Len(a) < Len(b) /\ \A i \in 1 .. Len(a) : a[i] = b[i]
    BY <1>4, <1>5, PrefixElements DEF IsStrictPrefix
  <2>2. Len(a) <= Len(c) /\ a # c
    BY <1>2, <2>1
  <2>3. \A i \in 1 .. Len(a) : a[i] = c[i]
    BY <1>2, <2>1
  <2>4. QED
    BY <1>2, <2>2, <2>3, PrefixElements DEF IsStrictPrefix
<1>6. QED
  BY <1>1, <1>3, <1>4, <1>5

-----------------------------------------------------------------------------
(* performDhRatchet.                                                       *)

\* What performDhRatchet makes of a state whose old chain is closed.
Turned(c, key, fresh) ==
  LET root1 == Append(c.rootKey, {c.sending.sec, key})
      root2 == Append(root1, {fresh, key})
  IN  [rootKey |-> root2, sending |-> KeyPair(fresh), receiving |-> key,
       sendingChainKey |-> ChainFrom(root2), receivingChainKey |-> ChainFrom(root1),
       sentCount |-> 0, receivedCount |-> 0, previousSentCount |-> c.sentCount,
       skipped |-> c.skipped]

LEMMA PerformFields ==
  ASSUME NEW s, Whole(s), NEW m \in Message, NEW fresh \in Key, CloseChain(s, m).ok
  PROVE  PerformDhRatchet(s, m, fresh) =
           Done(TRUE, Turned(CloseChain(s, m).state, m.key, fresh))
<1> DEFINE closed == CloseChain(s, m)
           c      == closed.state
           pair   == NextPair(s, fresh)
           root1  == Append(c.rootKey, Dh(s.sending, m.key))
           root2  == Append(root1, Dh(pair, m.key))
           t      == [c EXCEPT
             !.previousSentCount = c.sentCount, !.sentCount = 0,
             !.receivedCount = 0, !.receiving = m.key,
             !.receivingChainKey = ChainFrom(root1),
             !.rootKey = root2, !.sending = pair,
             !.sendingChainKey = ChainFrom(root2)]
<1>1. m.prev \in Nat /\ Shaped(s)
  BY WholeTypes DEF Message
<1>2. Whole(c) /\ c.sending = s.sending
  BY <1>1, SkipMoves, SkipKeepsSending DEF CloseChain, Moves, SameSending
<1>3. PerformDhRatchet(s, m, fresh) = Done(TRUE, t)
  BY Zenon DEF PerformDhRatchet
<1>4. root1 = Append(c.rootKey, {c.sending.sec, m.key}) /\ pair = KeyPair(fresh)
  BY <1>2 DEF Dh, NextPair
<1>5. root2 = Append(root1, {fresh, m.key})
  BY <1>4 DEF Dh, KeyPair
<1>6. c = [rootKey |-> c.rootKey, sending |-> c.sending, receiving |-> c.receiving,
           sendingChainKey |-> c.sendingChainKey,
           receivingChainKey |-> c.receivingChainKey,
           sentCount |-> c.sentCount, receivedCount |-> c.receivedCount,
           previousSentCount |-> c.previousSentCount, skipped |-> c.skipped]
  BY <1>2, StateRecord DEF Whole
<1>7. t = [c EXCEPT
         !.previousSentCount = c.sentCount, !.sentCount = 0,
         !.receivedCount = 0, !.receiving = m.key,
         !.receivingChainKey = ChainFrom(root1),
         !.rootKey = root2, !.sending = pair,
         !.sendingChainKey = ChainFrom(root2)]
  OBVIOUS
<1> HIDE DEF c, closed, root1, root2, pair, t
<1>8. t = [rootKey |-> root2, sending |-> pair, receiving |-> m.key,
           sendingChainKey |-> ChainFrom(root2), receivingChainKey |-> ChainFrom(root1),
           sentCount |-> 0, receivedCount |-> 0,
           previousSentCount |-> c.sentCount, skipped |-> c.skipped]
  BY <1>6, <1>7
<1>9. t = Turned(c, m.key, fresh)
  BY <1>4, <1>5, <1>8, Zenon DEF Turned
<1>10. QED
  BY <1>3, <1>9 DEF c, closed

\* u is c turned to s, which led.
Follower(s, c, fresh, u) ==
  /\ u.rootKey = Append(s.rootKey, {fresh, s.sending.pub})
  /\ u.sending.pub = fresh /\ u.sending.sec = fresh
  /\ u.receiving = s.sending.pub
  /\ u.sendingChainKey.id = u.rootKey /\ u.sendingChainKey # NoChain
  /\ u.receivingChainKey.id = s.rootKey /\ u.receivingChainKey # NoChain
  /\ u.sentCount = 0 /\ u.receivedCount = 0
  /\ u.previousSentCount = c.sentCount /\ u.skipped = c.skipped
  /\ {fresh, s.sending.pub} \in Output

LEMMA TurnRoots ==
  ASSUME NEW s, Whole(s), NEW c, Whole(c), Leads(s, c), c.sending.pub = c.sending.sec,
         NEW fresh \in Key
  PROVE  Follower(s, c, fresh, Turned(c, s.sending.pub, fresh))
<1> DEFINE u     == Turned(c, s.sending.pub, fresh)
           root1 == Append(c.rootKey, {c.sending.sec, s.sending.pub})
           root2 == Append(root1, {fresh, s.sending.pub})
<1>1. /\ s.rootKey \in Seq(Output) /\ c.rootKey \in Seq(Output)
      /\ s.sending.pub \in Key /\ c.sending.pub \in Key
  BY WholeTypes
<1>2. root1 = s.rootKey
  BY DEF Leads
<1>3. {fresh, s.sending.pub} \in Output /\ {c.sending.sec, s.sending.pub} \in Output
  BY <1>1 DEF Output
<1>4. root1 # <<>> /\ root2 # <<>>
  <2>1. root1 \in Seq(Output) /\ Len(root1) = Len(c.rootKey) + 1
    BY <1>1, <1>3
  <2> HIDE DEF root1
  <2>2. Len(root2) = Len(root1) + 1
    BY <1>3, <2>1
  <2>3. QED
    BY <1>1, <2>1, <2>2
<1>5. u = [rootKey |-> root2, sending |-> KeyPair(fresh), receiving |-> s.sending.pub,
           sendingChainKey |-> ChainFrom(root2), receivingChainKey |-> ChainFrom(root1),
           sentCount |-> 0, receivedCount |-> 0, previousSentCount |-> c.sentCount,
           skipped |-> c.skipped]
  BY Zenon DEF Turned
<1> HIDE DEF root1, root2, u
<1>6. /\ ChainFrom(root1).id = root1 /\ ChainFrom(root2).id = root2
      /\ ChainFrom(root1) # NoChain /\ ChainFrom(root2) # NoChain
  BY <1>4 DEF ChainFrom, NoChain
<1>7. KeyPair(fresh).pub = fresh /\ KeyPair(fresh).sec = fresh
  BY DEF KeyPair
<1>8. u.rootKey = Append(s.rootKey, {fresh, s.sending.pub})
  BY <1>2, <1>5 DEF root2
<1>9. QED
  BY <1>2, <1>3, <1>5, <1>6, <1>7, <1>8 DEF Follower, u

\* What s sealed with its new chain is ahead in the chain c has entered.
LEMMA TurnStreamIn ==
  ASSUME NEW s, Whole(s), NEW c, Whole(c), Leads(s, c),
         NEW A, NEW g, NEW k, Stream(s, c, A, g, k),
         \A w \in A : ~ Ahead(c, w),
         NEW m \in A, m.key = s.sending.pub,
         NEW fresh, NEW u, Follower(s, c, fresh, u)
  PROVE  Stream(s, u, A, g, k)
<1>1. /\ u.rootKey = Append(s.rootKey, {fresh, s.sending.pub})
      /\ u.receiving = s.sending.pub
      /\ u.receivingChainKey.id = s.rootKey /\ u.receivingChainKey # NoChain
      /\ u.receivedCount = 0 /\ u.skipped = c.skipped
      /\ {fresh, s.sending.pub} \in Output
  BY DEF Follower
<1>2. s.sendingChainKey.id = s.rootKey /\ s.rootKey = Append(c.rootKey, {s.sending.pub, c.sending.pub})
  BY DEF Leads
<1>3. s.sentCount \in Nat /\ s.rootKey \in Seq(Output) /\ c.rootKey \in Seq(Output)
  BY WholeTypes
<1>4. Sends(s, A) /\ CacheOf(u.skipped, A)
  BY <1>1 DEF Stream
<1>5. \A w \in A : w.n \in Nat /\ w.mk.id \in Seq(Output)
  BY <1>4 DEF Sends, Message, Chain
<1>6. ASSUME NEW w \in A, IsStrictPrefix(w.mk.id, c.rootKey)
      PROVE  IsStrictPrefix(w.mk.id, u.rootKey)
  <2>1. {s.sending.pub, c.sending.pub} \in Output
    BY WholeTypes DEF Output
  <2>2. IsStrictPrefix(w.mk.id, s.rootKey)
    BY <1>2, <1>3, <1>5, <1>6, <2>1, PrefixSteps
  <2>3. QED
    BY <1>1, <1>3, <1>5, <2>2, PrefixSteps
<1>7. ASSUME NEW w \in A
      PROVE  /\ w.key = s.sending.pub \/ IsStrictPrefix(w.mk.id, u.rootKey)
             /\ \/ w.mk \in g \/ w.mk \in Latest(u.skipped, k)
                \/ Ahead(u, w) \/ ToEnter(s, u, w)
  <2>1. /\ w.key = s.sending.pub \/ IsStrictPrefix(w.mk.id, c.rootKey)
        /\ w.mk \in g \/ w.mk \in Latest(u.skipped, k) \/ ToEnter(s, c, w)
    BY <1>1 DEF Stream
  <2>2. ToEnter(s, c, w) => Ahead(u, w)
    BY <1>1, <1>5 DEF ToEnter, Ahead
  <2>3. QED
    BY <1>6, <2>1, <2>2
<1>8. \E w \in A : w.key = u.receiving /\ w.mk.id = u.receivingChainKey.id
  BY <1>1, <1>2, <1>4 DEF Sends
<1>9. u.receivingChainKey.id = s.sendingChainKey.id /\ u.receivedCount <= s.sentCount
  BY <1>1, <1>2, <1>3
<1>10. QED
  BY <1>1, <1>4, <1>7, <1>8, <1>9 DEF Stream

\* What c sealed with the chain it has left stays where s had it.
LEMMA TurnStreamOut ==
  ASSUME NEW s, Whole(s), NEW c, Whole(c), Leads(s, c),
         NEW B, NEW g, NEW k, Stream(c, s, B, g, k),
         NEW fresh \in Key, fresh # Zero, fresh # c.sending.pub, \A w \in B : w.key # fresh,
         NEW u, Follower(s, c, fresh, u)
  PROVE  Stream(u, s, B, g, k) /\ Leads(u, s)
<1>1. c.sending.pub = c.sending.sec
  BY DEF Stream, Sends
<1>2. /\ u.rootKey = Append(s.rootKey, {fresh, s.sending.pub})
      /\ u.sending.pub = fresh /\ u.sending.sec = fresh
      /\ u.receiving = s.sending.pub
      /\ u.sendingChainKey.id = u.rootKey /\ u.sendingChainKey # NoChain
      /\ u.sentCount = 0 /\ u.previousSentCount = c.sentCount
      /\ {fresh, s.sending.pub} \in Output
  BY DEF Follower
<1>3. /\ s.rootKey \in Seq(Output) /\ c.rootKey \in Seq(Output)
      /\ {s.sending.pub, c.sending.pub} \in Output
      /\ c.sentCount \in Nat
  BY WholeTypes DEF Output
<1>4. /\ s.rootKey = Append(c.rootKey, {s.sending.pub, c.sending.pub})
      /\ s.receiving = c.sending.pub /\ s.sendingChainKey.id = s.rootKey
      /\ c.sendingChainKey = NoChain \/ c.sendingChainKey.id = c.rootKey
  BY DEF Leads
<1>5. Sends(c, B)
  BY DEF Stream
<1>6. \A w \in B : w.mk.id \in Seq(Output)
  BY <1>5 DEF Sends, Message, Chain
<1>7. ASSUME NEW w \in B
      PROVE  IsStrictPrefix(w.mk.id, s.rootKey) /\ w.mk.id # u.rootKey
  <2>1. IsStrictPrefix(w.mk.id, s.rootKey)
    <3>1. CASE w.key = c.sending.pub
      <4>1. w.mk.id = c.sendingChainKey.id /\ w.mk.id # <<>>
        BY <1>5, <3>1 DEF Sends
      <4>2. w.mk.id = c.rootKey
        BY <1>4, <4>1 DEF NoChain
      <4>3. QED
        BY <1>3, <1>4, <4>2, PrefixSteps
    <3>2. CASE w.key # c.sending.pub
      BY <3>2 DEF Stream
    <3>3. QED
      BY <3>1, <3>2
  <2>2. IsStrictPrefix(w.mk.id, u.rootKey)
    BY <1>2, <1>3, <1>6, <2>1, PrefixSteps
  <2>3. QED
    BY <2>1, <2>2 DEF IsStrictPrefix
<1>8. Sends(u, B)
  <2>1. u.sendingChainKey.id # <<>>
    <3>1. u.rootKey \in Seq(Output) /\ Len(u.rootKey) = Len(s.rootKey) + 1
      BY <1>2, <1>3
    <3>2. QED
      BY <1>2, <1>3, <3>1
  <2>2. B \subseteq Message
    BY <1>5 DEF Sends
  <2>3. ASSUME NEW w \in B
        PROVE  /\ w.key # Zero /\ w.mk.id # <<>> /\ w.mk.pos = w.n
               /\ \A n \in 0 .. w.n : Numbered(B, w.key, n)
               /\ \A v \in B : w.key = v.key <=> w.mk.id = v.mk.id
    BY <1>5 DEF Sends
  <2>4. ASSUME NEW w \in B
        PROVE  /\ w.key # u.sending.pub
               /\ w.mk.id # u.sendingChainKey.id
    BY <1>2, <1>7
  <2>5. \A n \in 0 .. u.sentCount - 1 : Numbered(B, u.sending.pub, n)
    BY <1>2
  <2>6. QED
    BY <1>2, <2>1, <2>2, <2>3, <2>4, <2>5 DEF Sends
<1>9. ASSUME NEW w \in B
      PROVE  w.mk \in g \/ w.mk \in Latest(s.skipped, k) \/ Ahead(s, w)
  BY <1>4 DEF Stream, ToEnter
<1>10. ASSUME s.receivingChainKey # NoChain
       PROVE  /\ \A n \in 0 .. u.previousSentCount - 1 : Numbered(B, s.receiving, n)
              /\ \A w \in B : w.key = s.receiving => w.n < u.previousSentCount
  <2>1. s.receivingChainKey.id # <<>> /\ s.receivingChainKey.id = c.sendingChainKey.id
    BY <1>4, <1>10, ReceivingChain DEF Stream
  <2>2. c.sendingChainKey # NoChain
    BY <2>1 DEF NoChain
  <2>3. QED
    BY <1>2, <1>4, <1>5, <2>2 DEF Sends
<1>11. CacheOf(s.skipped, B)
       /\ (s.receivingChainKey # NoChain =>
             \E w \in B : w.key = s.receiving /\ w.mk.id = s.receivingChainKey.id)
  BY DEF Stream
<1>12. s.receiving # u.sending.pub
  BY <1>2, <1>4
<1>13. Stream(u, s, B, g, k)
  BY <1>7, <1>8, <1>9, <1>10, <1>11, <1>12 DEF Stream
<1>14. Leads(u, s)
  BY <1>2, <1>4, <1>12 DEF Leads
<1>15. QED
  BY <1>13, <1>14

-----------------------------------------------------------------------------
(* The way through ratchetDecrypt.                                         *)

\* No turn lies between t and u.
SameTurn(t, u) ==
  SameSealing(t, u) /\ u.rootKey = t.rootKey /\ u.receiving = t.receiving

LEMMA SameTurnLeads ==
  ASSUME NEW s, NEW t, NEW u, SameTurn(t, u), Leads(s, t) \/ Leads(t, s)
  PROVE  Leads(s, u) \/ Leads(u, s)
  BY DEF SameTurn, SameSealing, Leads

LEMMA SameTurnStream ==
  ASSUME NEW s, NEW t, NEW u, SameTurn(t, u), NEW B, NEW g, NEW k, Stream(t, s, B, g, k)
  PROVE  Stream(u, s, B, g, k)
  BY StreamSame DEF SameTurn, SameOpening

LEMMA StreamMore ==
  ASSUME NEW s, NEW t, t.skipped \in Seq(Skipped), NEW A, NEW g, NEW j \in Nat, NEW k \in Nat,
         j <= k, Stream(s, t, A, g, j)
  PROVE  Stream(s, t, A, g, k)
<1>1. Latest(t.skipped, j) \subseteq Latest(t.skipped, k)
  BY LatestMore
<1>2. QED
  BY <1>1 DEF Stream

LEMMA CaughtUpTurn ==
  ASSUME NEW t, Whole(t), NEW until
  PROVE  SameTurn(t, CaughtUp(t, until))
  BY CaughtUpFields DEF SameTurn, SameSealing

LEMMA CommitTurn ==
  ASSUME NEW t, Whole(t)
  PROVE  SameTurn(t, CommitReceived(t)) /\ CommitReceived(t).skipped = t.skipped
  BY CommitFields DEF SameTurn, SameSealing

\* t on its way through ratchetDecrypt: of the other side's messages it has the
\* key among its latest k, ahead, or has had it.
OnTheWay(s, t, A, B, g, g0, k) ==
  /\ Whole(t)
  /\ Stream(s, t, A, g0, k) /\ Stream(t, s, B, g, MaxSkippedKeys)
  /\ Leads(s, t) \/ Leads(t, s)

LEMMA SkipOnTheWay ==
  ASSUME NEW s, NEW t, NEW A, NEW B, NEW g, NEW g0, NEW k \in Nat,
         OnTheWay(s, t, A, B, g, g0, k), k + MaxSkipPerChain <= MaxSkippedKeys,
         NEW until \in Nat,
         t.receivingChainKey # NoChain => \A n \in 0 .. until - 1 : Numbered(A, t.receiving, n),
         t.receiving = s.sending.pub => until <= s.sentCount
  PROVE  LET r == SkipReceivingKeys(t, until)
         IN  /\ OnTheWay(s, r.state, A, B, g, g0, k + MaxSkipPerChain)
             /\ SameTurn(t, r.state)
             /\ r.ok => \A n \in Nat : n < until =>
                  r.state.receivingChainKey = NoChain \/ n < r.state.receivedCount
<1> DEFINE r == SkipReceivingKeys(t, until)
           K == k + MaxSkipPerChain
<1>1. /\ Whole(t) /\ Stream(s, t, A, g0, k) /\ Stream(t, s, B, g, MaxSkippedKeys)
      /\ Leads(s, t) \/ Leads(t, s)
  BY DEF OnTheWay
<1>2. t.receivedCount \in Nat /\ t.skipped \in Seq(Skipped)
  BY <1>1, WholeTypes
<1>3. K \in Nat /\ k <= K
  BY SkipBounds
<1>4. OnTheWay(s, t, A, B, g, g0, K) /\ SameTurn(t, t)
  BY <1>1, <1>2, <1>3, StreamMore DEF OnTheWay, SameTurn, SameSealing
<1> HIDE DEF K
<1>5. CASE t.receivingChainKey = NoChain \/ t.receiving = Zero \/ until < t.receivedCount
  <2>1. r = Done(TRUE, t)
    BY <1>5, Zenon DEF SkipReceivingKeys
  <2>2. t.receiving = Zero => t.receivingChainKey = NoChain
    BY <1>1, ReceivingChain
  <2>3. \A n \in Nat : n < until => t.receivingChainKey = NoChain \/ n < t.receivedCount
    BY <1>2, <1>5, <2>2
  <2>4. QED
    BY <1>4, <2>1, <2>3 DEF Done, K
<1>6. CASE ~ (t.receivingChainKey = NoChain \/ t.receiving = Zero \/ until < t.receivedCount)
  <2>1. CASE until - t.receivedCount > MaxSkipPerChain
    <3>1. r = Done(FALSE, t)
      BY <1>6, <2>1, Zenon DEF SkipReceivingKeys
    <3>2. QED
      BY <1>4, <3>1 DEF Done, K
  <2>2. CASE ~ (until - t.receivedCount > MaxSkipPerChain)
    <3>1. PICK u : u = CaughtUp(t, until)
      OBVIOUS
    <3>2. r = Done(TRUE, u)
      BY <1>6, <2>2, <3>1, Zenon DEF SkipReceivingKeys
    <3>3. until >= t.receivedCount /\ until - t.receivedCount <= MaxSkipPerChain
      BY <1>2, <1>6, <2>2, SkipBounds
    <3>4. Stream(s, u, A, g0, K)
      BY <1>1, <1>6, <3>1, <3>3, SkipStream DEF K
    <3>5. SameTurn(t, u) /\ u.receivedCount = until
      BY <1>1, <3>1, CaughtUpTurn, CaughtUpFields
    <3>6. Whole(u)
      BY <1>1, <1>6, <3>1, <3>3, CaughtUpMoves DEF Moves
    <3>7. Stream(u, s, B, g, MaxSkippedKeys) /\ (Leads(s, u) \/ Leads(u, s))
      BY <1>1, <3>5, SameTurnStream, SameTurnLeads
    <3>8. OnTheWay(s, u, A, B, g, g0, K)
      BY <3>4, <3>6, <3>7 DEF OnTheWay
    <3>9. QED
      BY <3>2, <3>5, <3>8 DEF Done, K
  <2>3. QED
    BY <2>1, <2>2
<1>7. QED
  BY <1>5, <1>6

\* performDhRatchet for a message of the chain to enter.
LEMMA TurnOnTheWay ==
  ASSUME NEW s, Whole(s), NEW t, NEW A, NEW B, NEW g, NEW g0,
         OnTheWay(s, t, A, B, g, g0, 0), NEW m \in A, ToEnter(s, t, m),
         NEW fresh \in Key, fresh # Zero, fresh # t.sending.pub, \A w \in B : w.key # fresh
  PROVE  LET r == PerformDhRatchet(t, m, fresh)
         IN  /\ OnTheWay(s, r.state, A, B, g, g0, MaxSkipPerChain)
             /\ r.ok = CloseChain(t, m).ok
             /\ r.ok => /\ r.state.receiving = m.key /\ r.state.receivedCount = 0
                        /\ r.state.receivingChainKey # NoChain
                        /\ r.state.receivingChainKey.id = s.rootKey
<1> DEFINE closed == CloseChain(t, m)
           c      == closed.state
           r      == PerformDhRatchet(t, m, fresh)
<1>1. Whole(t) /\ Stream(s, t, A, g0, 0) /\ m.key = s.sending.pub /\ m.key # t.receiving
  BY DEF OnTheWay, ToEnter
<1>2. /\ m \in Message /\ m.prev \in Nat /\ m.prev = s.previousSentCount
      /\ \A w \in A : w.n \in Nat
  BY <1>1 DEF Stream, Sends, Message
<1>3. /\ OnTheWay(s, c, A, B, g, g0, MaxSkipPerChain) /\ SameTurn(t, c)
      /\ closed.ok => \A n \in Nat : n < m.prev =>
           c.receivingChainKey = NoChain \/ n < c.receivedCount
  <2>1. t.receivingChainKey # NoChain => \A n \in 0 .. m.prev - 1 : Numbered(A, t.receiving, n)
    BY <1>1, <1>2 DEF Stream
  <2>2. 0 \in Nat /\ 0 + MaxSkipPerChain = MaxSkipPerChain /\ MaxSkipPerChain <= MaxSkippedKeys
    BY SkipBounds
  <2>3. QED
    BY <1>1, <1>2, <2>1, <2>2, SkipOnTheWay DEF CloseChain
<1>4. CASE ~ closed.ok
  <2>1. r = closed
    BY <1>4, Zenon DEF PerformDhRatchet
  <2>2. QED
    BY <1>3, <1>4, <2>1
<1>5. CASE closed.ok
  <2>1. PICK u : u = Turned(c, s.sending.pub, fresh)
    OBVIOUS
  <2>2. r = Done(TRUE, u)
    BY <1>1, <1>2, <1>5, <2>1, PerformFields
  <2> HIDE DEF c, closed, r
  <2>3. /\ Whole(c) /\ Stream(s, c, A, g0, MaxSkipPerChain)
        /\ Stream(c, s, B, g, MaxSkippedKeys)
        /\ c.receiving # s.sending.pub /\ fresh # c.sending.pub
    BY <1>1, <1>3 DEF OnTheWay, SameTurn, SameSealing
  <2>4. Leads(s, c)
    BY <1>3, <2>3 DEF OnTheWay, Leads
  <2>5. \A w \in A : ~ Ahead(c, w)
    <3> SUFFICES ASSUME NEW w \in A, Ahead(c, w) PROVE FALSE
      OBVIOUS
    <3>1. w.key = c.receiving /\ c.receivingChainKey # NoChain /\ c.receivedCount <= w.n
      BY DEF Ahead
    <3>2. w.n < m.prev
      BY <1>2, <2>3, <3>1 DEF Stream
    <3>3. w.n < c.receivedCount
      BY <1>2, <1>3, <1>5, <3>1, <3>2
    <3>4. c.receivedCount \in Nat
      BY <2>3, WholeTypes
    <3>5. QED
      BY <1>2, <3>1, <3>3, <3>4
  <2>6. Follower(s, c, fresh, u)
    <3>1. c.sending.pub = c.sending.sec
      BY <2>3 DEF Stream, Sends
    <3>2. QED
      BY <2>1, <2>3, <2>4, <3>1, TurnRoots
  <2>7. Stream(s, u, A, g0, MaxSkipPerChain)
    BY <1>1, <2>3, <2>4, <2>5, <2>6, TurnStreamIn
  <2>8. Stream(u, s, B, g, MaxSkippedKeys) /\ Leads(u, s)
    BY <2>3, <2>4, <2>6, TurnStreamOut
  <2>9. Whole(u)
    BY <1>1, <1>2, <2>2, PerformMoves DEF Moves, Done, r
  <2>10. OnTheWay(s, u, A, B, g, g0, MaxSkipPerChain)
    BY <2>7, <2>8, <2>9 DEF OnTheWay
  <2>11. /\ u.receiving = m.key /\ u.receivedCount = 0
         /\ u.receivingChainKey # NoChain /\ u.receivingChainKey.id = s.rootKey
    BY <1>1, <2>6 DEF Follower
  <2>12. QED
    BY <1>5, <2>2, <2>10, <2>11 DEF Done, r, closed
<1>6. QED
  BY <1>4, <1>5

\* Whatever the message, if it is not of a chain t has left.
LEMMA CaughtOnTheWay ==
  ASSUME NEW s, Whole(s), NEW t, NEW A, NEW B, NEW g, NEW g0,
         OnTheWay(s, t, A, B, g, g0, 0), NEW m \in A,
         t.receiving = m.key \/ ToEnter(s, t, m),
         NEW fresh \in Key, fresh # Zero, fresh # t.sending.pub, \A w \in B : w.key # fresh
  PROVE  OnTheWay(s, CaughtBefore(t, m, fresh).state, A, B, g, g0, MaxSkippedKeys)
<1> DEFINE turned == IF t.receiving = m.key THEN Done(TRUE, t)
                                            ELSE PerformDhRatchet(t, m, fresh)
           K == MaxSkipPerChain
<1>1. /\ 0 \in Nat /\ K \in Nat /\ 0 <= K /\ K + K \in Nat
      /\ K + K <= MaxSkippedKeys /\ K <= MaxSkippedKeys /\ MaxSkippedKeys \in Nat
  BY SkipBounds
<1>2. ASSUME NEW u, NEW j \in Nat, NEW k \in Nat, j <= k, OnTheWay(s, u, A, B, g, g0, j)
      PROVE  OnTheWay(s, u, A, B, g, g0, k)
  BY <1>2, StreamMore, WholeTypes DEF OnTheWay
<1>3. /\ OnTheWay(s, turned.state, A, B, g, g0, K)
      /\ turned.ok => turned.state.receiving = m.key
  <2>1. CASE t.receiving = m.key
    <3>1. turned.state = t
      BY <2>1 DEF Done
    <3> HIDE DEF turned
    <3>2. QED
      BY <1>1, <1>2, <2>1, <3>1
  <2>2. CASE t.receiving # m.key
    <3>1. turned = PerformDhRatchet(t, m, fresh)
      BY <2>2
    <3>2. ToEnter(s, t, m)
      BY <2>2
    <3> HIDE DEF turned
    <3>3. QED
      BY <3>1, <3>2, TurnOnTheWay
  <2>3. QED
    BY <2>1, <2>2
<1>4. CaughtBefore(t, m, fresh) =
        IF turned.ok THEN SkipReceivingKeys(turned.state, m.n) ELSE turned
  BY Zenon DEF CaughtBefore
<1> HIDE DEF turned
<1>5. CASE ~ turned.ok
  BY <1>1, <1>2, <1>3, <1>4, <1>5
<1>6. CASE turned.ok
  <2>1. PICK u : u = turned.state
    OBVIOUS
  <2>2. /\ Sends(s, A) /\ OnTheWay(s, u, A, B, g, g0, K)
        /\ u.receiving = m.key
    BY <1>3, <1>6, <2>1 DEF OnTheWay, Stream
  <2>3. /\ m.n \in Nat
        /\ \A n \in 0 .. m.n : Numbered(A, m.key, n)
        /\ m.key = s.sending.pub => m.n < s.sentCount
    BY <2>2 DEF Sends, Message
  <2>4. \A n \in 0 .. m.n - 1 : Numbered(A, u.receiving, n)
    BY <2>2, <2>3
  <2>5. u.receiving = s.sending.pub => m.n <= s.sentCount
    <3>1. s.sentCount \in Nat
      BY WholeTypes
    <3>2. QED
      BY <2>2, <2>3, <3>1
  <2>6. OnTheWay(s, SkipReceivingKeys(u, m.n).state, A, B, g, g0, K + K)
    BY <1>1, <2>2, <2>3, <2>4, <2>5, SkipOnTheWay
  <2>7. OnTheWay(s, SkipReceivingKeys(u, m.n).state, A, B, g, g0, MaxSkippedKeys)
    BY <1>1, <1>2, <2>6
  <2>8. QED
    BY <1>4, <1>6, <2>1, <2>7
<1>7. QED
  BY <1>5, <1>6

-----------------------------------------------------------------------------
(* The skipped cache.                                                      *)

Cached(q) == {q[i].mk : i \in DOMAIN q}

\* Whoever has the key of a message of A in the cache finds it there.
LEMMA CachedOpens ==
  ASSUME NEW s, NEW t, NEW A, NEW g, NEW k, Stream(s, t, A, g, k), NEW m \in A
  PROVE  /\ \A i \in SkippedFor(t, m) : t.skipped[i].mk = m.mk
         /\ m.mk \in Cached(t.skipped) => SkippedFor(t, m) # {}
<1>1. /\ A \subseteq Message
      /\ \A w \in A : /\ w.mk.pos = w.n /\ w.mk \in Chain
                      /\ \A v \in A : w.key = v.key <=> w.mk.id = v.mk.id
  BY DEF Stream, Sends, Message
<1>2. \A i \in DOMAIN t.skipped :
        \E w \in A : w.key = t.skipped[i].key /\ w.n = t.skipped[i].n /\ w.mk = t.skipped[i].mk
  BY DEF Stream, CacheOf
<1>3. ASSUME NEW i \in SkippedFor(t, m)
      PROVE  t.skipped[i].mk = m.mk
  <2>1. i \in DOMAIN t.skipped /\ t.skipped[i].key = m.key /\ t.skipped[i].n = m.n
    BY DEF SkippedFor
  <2>2. PICK w \in A : w.key = m.key /\ w.n = m.n /\ w.mk = t.skipped[i].mk
    BY <1>2, <2>1
  <2>3. w.mk.id = m.mk.id /\ w.mk.pos = m.mk.pos
    BY <1>1, <2>2
  <2>4. QED
    BY <1>1, <2>2, <2>3 DEF Chain
<1>4. ASSUME m.mk \in Cached(t.skipped)
      PROVE  SkippedFor(t, m) # {}
  <2>1. PICK i \in DOMAIN t.skipped : t.skipped[i].mk = m.mk
    BY <1>4 DEF Cached
  <2>2. PICK w \in A : w.key = t.skipped[i].key /\ w.n = t.skipped[i].n /\ w.mk = m.mk
    BY <1>2, <2>1
  <2>3. w.key = m.key /\ w.n = m.n
    BY <1>1, <2>2
  <2>4. i \in SkippedFor(t, m)
    BY <2>2, <2>3 DEF SkippedFor
  <2>5. QED
    BY <2>4
<1>5. QED
  BY <1>3, <1>4

\* Opening m with a key of the cache.
Opened(t, m, fresh) ==
  \E i \in DOMAIN t.skipped :
    /\ t.skipped[i].mk = m.mk
    /\ RatchetDecrypt(t, m, fresh) = Done(TRUE, ConsumeSkipped(t, i))

LEMMA CachedResult ==
  ASSUME NEW s, NEW t, NEW A, NEW g, NEW k, Stream(s, t, A, g, k), NEW m \in A,
         SkippedFor(t, m) # {}, NEW fresh
  PROVE  Opened(t, m, fresh)
<1> DEFINE i == CHOOSE i \in SkippedFor(t, m) : TRUE
<1>1. i \in SkippedFor(t, m)
  OBVIOUS
<1>2. RatchetDecrypt(t, m, fresh) =
        IF t.skipped[i].mk = m.mk THEN Done(TRUE, ConsumeSkipped(t, i)) ELSE Done(FALSE, t)
  BY Zenon DEF RatchetDecrypt, TryDecryptWithSkipped
<1> HIDE DEF i
<1>3. t.skipped[i].mk = m.mk
  BY <1>1, CachedOpens
<1>4. i \in DOMAIN t.skipped
  BY <1>1 DEF SkippedFor
<1>5. QED
  BY <1>2, <1>3, <1>4, Zenon DEF Opened

LEMMA ConsumeFields ==
  ASSUME NEW s, Whole(s), NEW i
  PROVE  SameTurn(s, ConsumeSkipped(s, i))
         /\ ConsumeSkipped(s, i).skipped = RemoveAt(s.skipped, i)
         /\ ConsumeSkipped(s, i).receivingChainKey = s.receivingChainKey
         /\ ConsumeSkipped(s, i).receivedCount = s.receivedCount
<1> DEFINE q == RemoveAt(s.skipped, i)
           t == ConsumeSkipped(s, i)
<1>1. t = [s EXCEPT !.skipped = q]
  BY DEF ConsumeSkipped
<1>2. s = [rootKey |-> s.rootKey, sending |-> s.sending, receiving |-> s.receiving,
           sendingChainKey |-> s.sendingChainKey,
           receivingChainKey |-> s.receivingChainKey,
           sentCount |-> s.sentCount, receivedCount |-> s.receivedCount,
           previousSentCount |-> s.previousSentCount, skipped |-> s.skipped]
  BY StateRecord DEF Whole
<1> HIDE DEF q, t
<1>3. t = [rootKey |-> s.rootKey, sending |-> s.sending, receiving |-> s.receiving,
           sendingChainKey |-> s.sendingChainKey,
           receivingChainKey |-> s.receivingChainKey,
           sentCount |-> s.sentCount, receivedCount |-> s.receivedCount,
           previousSentCount |-> s.previousSentCount, skipped |-> q]
  BY <1>1, <1>2
<1>4. QED
  BY <1>3 DEF q, t, SameTurn, SameSealing

\* A used key leaves the cache, and no other does.
LEMMA RemovedOthers ==
  ASSUME NEW q \in Seq(Skipped), NEW i \in DOMAIN q
  PROVE  /\ \A l \in DOMAIN q : l # i => \E j \in DOMAIN RemoveAt(q, i) : RemoveAt(q, i)[j] = q[l]
         /\ \A j \in DOMAIN RemoveAt(q, i) : \E l \in DOMAIN q : RemoveAt(q, i)[j] = q[l]
<1>1. PICK r : r = RemoveAt(q, i)
  OBVIOUS
<1>2. /\ r \in Seq(Skipped) /\ Len(r) = Len(q) - 1
      /\ \A j \in DOMAIN r : j \in Nat /\ r[j] = q[IF j < i THEN j ELSE j + 1]
      /\ \A j \in DOMAIN r : (IF j < i THEN j ELSE j + 1) \in DOMAIN q \ {i}
  BY <1>1, RemovedOne
<1>3. DOMAIN q = 1 .. Len(q) /\ Len(q) \in Nat /\ DOMAIN r = 1 .. Len(r)
  BY <1>2
<1>4. ASSUME NEW l \in DOMAIN q, l # i
      PROVE  \E j \in DOMAIN r : r[j] = q[l]
  <2>1. CASE l < i
    <3>1. l \in DOMAIN r
      BY <1>2, <1>3, <2>1
    <3>2. QED
      BY <1>2, <2>1, <3>1
  <2>2. CASE ~ (l < i)
    <3>1. l \in Nat /\ i \in Nat /\ l > i /\ i >= 1 /\ l <= Len(q) /\ Len(q) \in Nat
      BY <1>3, <1>4, <2>2
    <3>2. PICK j \in 1 .. Len(q) - 1 : j + 1 = l
      <4>1. l - 1 \in 1 .. Len(q) - 1 /\ (l - 1) + 1 = l
        BY <3>1
      <4>2. QED
        BY <4>1
    <3>3. j \in DOMAIN r /\ ~ (j < i)
      BY <1>2, <1>3, <3>1, <3>2
    <3>4. r[j] = q[l]
      BY <1>2, <3>2, <3>3
    <3>5. QED
      BY <3>3, <3>4
  <2>3. QED
    BY <2>1, <2>2
<1>5. \A j \in DOMAIN r : \E l \in DOMAIN q : r[j] = q[l]
  BY <1>2
<1>6. QED
  BY <1>1, <1>4, <1>5

LEMMA ConsumeStream ==
  ASSUME NEW s, NEW t, Whole(t), NEW A, NEW g, Stream(s, t, A, g, MaxSkippedKeys),
         NEW i \in DOMAIN t.skipped
  PROVE  Stream(s, ConsumeSkipped(t, i), A, g \cup {t.skipped[i].mk}, MaxSkippedKeys)
<1>1. PICK u : u = ConsumeSkipped(t, i)
  OBVIOUS
<1>2. PICK q : q = RemoveAt(t.skipped, i)
  OBVIOUS
<1>3. t.skipped \in Seq(Skipped) /\ Len(t.skipped) <= MaxSkippedKeys
  BY WholeTypes DEF Whole, CacheOK
<1>4. /\ q \in Seq(Skipped) /\ Len(q) = Len(t.skipped) - 1
      /\ \A l \in DOMAIN t.skipped : l # i => \E j \in DOMAIN q : q[j] = t.skipped[l]
      /\ \A j \in DOMAIN q : \E l \in DOMAIN t.skipped : q[j] = t.skipped[l]
  BY <1>2, <1>3, RemovedOne, RemovedOthers
<1>5. /\ u.rootKey = t.rootKey /\ u.receiving = t.receiving /\ u.skipped = q
      /\ u.receivingChainKey = t.receivingChainKey /\ u.receivedCount = t.receivedCount
  BY <1>1, <1>2, ConsumeFields DEF SameTurn
<1>6. \A j \in DOMAIN q : q[j].mk \in Latest(q, MaxSkippedKeys)
  <2>1. Len(q) <= MaxSkippedKeys /\ MaxSkippedKeys \in Nat
    BY <1>3, <1>4, SkipBounds
  <2>2. QED
    BY <1>4, <2>1, LatestAll
<1>7. CacheOf(q, A)
  BY <1>4 DEF Stream, CacheOf
<1>8. ASSUME NEW w \in A, w.mk \in Latest(t.skipped, MaxSkippedKeys)
      PROVE  w.mk \in g \cup {t.skipped[i].mk} \/ w.mk \in Latest(q, MaxSkippedKeys)
  <2>1. PICK l \in DOMAIN t.skipped : t.skipped[l].mk = w.mk
    BY <1>8, LatestIsCached
  <2>2. QED
    BY <1>4, <1>6, <2>1
<1>9. ASSUME NEW w \in A
      PROVE  /\ w.key = s.sending.pub \/ IsStrictPrefix(w.mk.id, u.rootKey)
             /\ \/ w.mk \in g \cup {t.skipped[i].mk} \/ w.mk \in Latest(u.skipped, MaxSkippedKeys)
                \/ Ahead(u, w) \/ ToEnter(s, u, w)
  <2>1. /\ w.key = s.sending.pub \/ IsStrictPrefix(w.mk.id, t.rootKey)
        /\ \/ w.mk \in g \/ w.mk \in Latest(t.skipped, MaxSkippedKeys)
           \/ Ahead(t, w) \/ ToEnter(s, t, w)
    BY DEF Stream
  <2>2. /\ Ahead(t, w) => Ahead(u, w)
        /\ ToEnter(s, t, w) => ToEnter(s, u, w)
    BY <1>5 DEF Ahead, ToEnter
  <2>3. QED
    BY <1>5, <1>8, <2>1, <2>2
<1>10. /\ Sends(s, A) /\ CacheOf(u.skipped, A)
       /\ u.receivingChainKey # NoChain =>
            \E w \in A : w.key = u.receiving /\ w.mk.id = u.receivingChainKey.id
       /\ u.receiving = s.sending.pub =>
            u.receivingChainKey.id = s.sendingChainKey.id /\ u.receivedCount <= s.sentCount
       /\ u.receiving # s.sending.pub /\ u.receivingChainKey # NoChain =>
            /\ \A n \in 0 .. s.previousSentCount - 1 : Numbered(A, u.receiving, n)
            /\ \A w \in A : w.key = u.receiving => w.n < s.previousSentCount
  BY <1>5, <1>7 DEF Stream
<1>11. QED
  BY <1>1, <1>9, <1>10 DEF Stream

-----------------------------------------------------------------------------
(* ratchetDecrypt.                                                         *)

\* m is of a chain t has open or may enter, or its key is in the cache.
Timely(s, t, m) == SkippedFor(t, m) # {} \/ t.receiving = m.key \/ m.key = s.sending.pub

\* A pair that neither side has announced.
NewPair(s, t, B, fresh) ==
  fresh \in Key /\ fresh # Zero /\ fresh # t.sending.pub /\ \A w \in B : w.key # fresh

\* What the cache holds before the call counts as gone while the call lasts.
LEMMA StreamStart ==
  ASSUME NEW s, NEW t, NEW A, NEW g, NEW k, Stream(s, t, A, g, k)
  PROVE  Stream(s, t, A, g \cup Cached(t.skipped), 0)
<1>1. \A mk \in Latest(t.skipped, k) : mk \in Cached(t.skipped)
  BY LatestIsCached DEF Cached
<1>2. QED
  BY <1>1 DEF Stream

\* Only what the cache has lost in the end is gone.
LEMMA StreamEnd ==
  ASSUME NEW s, NEW u, Whole(u), NEW A, NEW g, NEW h, NEW q,
         Stream(s, u, A, g \cup Cached(q) \cup h, MaxSkippedKeys)
  PROVE  Stream(s, u, A, g \cup h \cup (Cached(q) \ Cached(u.skipped)), MaxSkippedKeys)
<1>1. \A mk \in Cached(u.skipped) : mk \in Latest(u.skipped, MaxSkippedKeys)
  <2>1. u.skipped \in Seq(Skipped) /\ Len(u.skipped) <= MaxSkippedKeys /\ MaxSkippedKeys \in Nat
    BY WholeTypes, SkipBounds DEF Whole, CacheOK
  <2>2. QED
    BY <2>1, LatestAll DEF Cached
<1>2. QED
  BY <1>1 DEF Stream

\* ratchetDecrypt leaves the two sides in step, whatever the message and
\* whatever became of it, if only its chain is not one that t has left.
LEMMA ReceiveInStep ==
  ASSUME NEW s, Whole(s), NEW t, Whole(t), NEW A, NEW B, NEW g, NEW h,
         InStep(s, t, A, B, g, h),
         NEW m \in A, Timely(s, t, m), NEW fresh, NewPair(s, t, B, fresh),
         NEW u, u = RatchetDecrypt(t, m, fresh).state
  PROVE  /\ Stream(s, u, A, g \cup {m.mk} \cup (Cached(t.skipped) \ Cached(u.skipped)),
                   MaxSkippedKeys)
         /\ Stream(u, s, B, h, MaxSkippedKeys)
         /\ Leads(s, u) \/ Leads(u, s)
<1> DEFINE g0 == g \cup Cached(t.skipped)
<1>1. /\ Stream(s, t, A, g, MaxSkippedKeys) /\ Stream(t, s, B, h, MaxSkippedKeys)
      /\ Leads(s, t) \/ Leads(t, s)
  BY DEF InStep
<1>2. m \in Message
  BY <1>1 DEF Stream, Sends
<1>3. Whole(u)
  BY <1>2, DecryptMoves DEF Moves, NewPair
<1>4. CASE SkippedFor(t, m) # {}
  <2>1. PICK i \in DOMAIN t.skipped :
          /\ t.skipped[i].mk = m.mk
          /\ RatchetDecrypt(t, m, fresh) = Done(TRUE, ConsumeSkipped(t, i))
    <3>1. Opened(t, m, fresh)
      BY <1>1, <1>4, CachedResult
    <3>2. QED
      BY <3>1, Zenon DEF Opened
  <2>2. u = ConsumeSkipped(t, i)
    BY <2>1 DEF Done
  <2>3. Stream(s, u, A, g \cup {m.mk}, MaxSkippedKeys)
    <3>1. Stream(s, ConsumeSkipped(t, i), A, g \cup {t.skipped[i].mk}, MaxSkippedKeys)
      BY <1>1, ConsumeStream
    <3>2. QED
      BY <2>1, <2>2, <3>1
  <2>4. Stream(s, u, A, g \cup {m.mk} \cup (Cached(t.skipped) \ Cached(u.skipped)), MaxSkippedKeys)
    BY <2>3 DEF Stream
  <2>5. SameTurn(t, u)
    BY <2>2, ConsumeFields
  <2>6. QED
    BY <1>1, <2>4, <2>5, SameTurnStream, SameTurnLeads
<1>5. CASE SkippedFor(t, m) = {}
  <2>1. PICK c : c = CaughtBefore(t, m, fresh).state
    OBVIOUS
  <2>2. \/ u = CommitReceived(c) /\ c.receivingChainKey # NoChain /\ c.receivingChainKey = m.mk
        \/ u = c
    <3>1. RatchetDecrypt(t, m, fresh) = DecryptInChain(t, m, fresh)
      BY <1>5, Zenon DEF RatchetDecrypt
    <3>2. PICK d : d = DecryptInChain(t, m, fresh)
      OBVIOUS
    <3>3. \/ /\ d = Done(TRUE, CommitReceived(c))
             /\ c.receivingChainKey # NoChain /\ c.receivingChainKey = m.mk
          \/ d = Done(FALSE, c)
      BY <2>1, <3>2, InChainResult
    <3>4. u = d.state
      BY <3>1, <3>2
    <3>5. QED
      BY <3>3, <3>4 DEF Done
  <2>3. OnTheWay(s, c, A, B, h, g0, MaxSkippedKeys)
    <3>1. OnTheWay(s, t, A, B, h, g0, 0)
      BY <1>1, StreamStart DEF OnTheWay
    <3>2. t.receiving = m.key \/ ToEnter(s, t, m)
      BY <1>5 DEF Timely, ToEnter
    <3>3. QED
      BY <2>1, <3>1, <3>2, CaughtOnTheWay DEF NewPair
  <2>4. /\ Whole(c) /\ Stream(s, c, A, g0, MaxSkippedKeys)
        /\ Stream(c, s, B, h, MaxSkippedKeys) /\ (Leads(s, c) \/ Leads(c, s))
    BY <2>3 DEF OnTheWay
  <2>5. /\ Stream(s, u, A, g0 \cup {m.mk}, MaxSkippedKeys)
        /\ SameTurn(c, u)
    <3>1. CASE u = CommitReceived(c) /\ c.receivingChainKey # NoChain /\ c.receivingChainKey = m.mk
      <4>1. s.sentCount \in Nat
        BY WholeTypes
      <4>2. QED
        BY <2>4, <3>1, <4>1, CommitStream, CommitTurn
    <3>2. CASE u = c
      BY <2>4, <3>2 DEF Stream, SameTurn, SameSealing
    <3>3. QED
      BY <2>2, <3>1, <3>2
  <2>6. Stream(s, u, A, g \cup {m.mk} \cup (Cached(t.skipped) \ Cached(u.skipped)), MaxSkippedKeys)
    BY <1>3, <2>5, StreamEnd
  <2>7. QED
    BY <2>4, <2>5, <2>6, SameTurnStream, SameTurnLeads
<1>6. QED
  BY <1>4, <1>5

\* The gaps the code will close for m.
WithinReach(t, m) ==
  IF t.receiving = m.key
  THEN m.n <= t.receivedCount + MaxSkipPerChain
  ELSE /\ m.n <= MaxSkipPerChain
       /\ t.receivingChainKey # NoChain => m.prev <= t.receivedCount + MaxSkipPerChain

\* The key of m lies ahead in the chain c has open.
LEMMA OpensAhead ==
  ASSUME NEW c, Whole(c), c.receivingChainKey # NoChain, c.receiving # Zero,
         NEW m \in Message, m.mk.id # <<>>, m.mk.id = c.receivingChainKey.id, m.mk.pos = m.n,
         c.receivedCount <= m.n, m.n <= c.receivedCount + MaxSkipPerChain
  PROVE  LET r == SkipReceivingKeys(c, m.n)
         IN  /\ r.ok /\ r.state.receivingChainKey # NoChain
             /\ m.n = r.state.receivedCount /\ r.state.receivingChainKey = m.mk
<1>1. /\ c.receivedCount \in Nat /\ m.n \in Nat /\ MaxSkipPerChain \in Nat
      /\ c.receivingChainKey \in Chain /\ m.mk \in Chain
      /\ c.receivingChainKey.pos = c.receivedCount
  BY WholeTypes, SkipBounds DEF Whole, Message
<1>2. /\ ~ (m.n < c.receivedCount) /\ ~ (m.n - c.receivedCount > MaxSkipPerChain)
      /\ m.n - c.receivedCount \in Nat /\ c.receivedCount + (m.n - c.receivedCount) = m.n
  BY <1>1
<1>3. SkipReceivingKeys(c, m.n) = Done(TRUE, CaughtUp(c, m.n))
  BY <1>2, Zenon DEF SkipReceivingKeys
<1>4. PICK u : u = CaughtUp(c, m.n)
  OBVIOUS
<1>5. /\ u.receivedCount = m.n
      /\ u.receivingChainKey = Advanced(c.receivingChainKey, m.n - c.receivedCount)
  BY <1>4, CaughtUpFields
<1>6. u.receivingChainKey \in Chain /\ u.receivingChainKey.id = m.mk.id
      /\ u.receivingChainKey.pos = m.mk.pos
  <2>1. /\ u.receivingChainKey \in Chain
        /\ u.receivingChainKey.id = c.receivingChainKey.id
        /\ u.receivingChainKey.pos = c.receivingChainKey.pos + (m.n - c.receivedCount)
    <3>1. PICK j \in Nat : j = m.n - c.receivedCount
      BY <1>2
    <3>2. u.receivingChainKey = Advanced(c.receivingChainKey, j)
      BY <1>5, <3>1
    <3>3. PICK x \in Chain : x = c.receivingChainKey
      BY <1>1
    <3>4. Advanced(x, j) \in Chain /\ Advanced(x, j).id = x.id /\ Advanced(x, j).pos = x.pos + j
      BY AdvancedChain
    <3>5. QED
      BY <3>1, <3>2, <3>3, <3>4
  <2>2. QED
    BY <1>1, <1>2, <2>1
<1>7. u.receivingChainKey = m.mk
  BY <1>1, <1>6 DEF Chain
<1>8. u.receivingChainKey # NoChain
  BY <1>7 DEF NoChain
<1>9. QED
  BY <1>3, <1>4, <1>5, <1>7, <1>8 DEF Done

\* What is not gone decrypts, if the code closes the gap before it.
LEMMA DecryptsInStep ==
  ASSUME NEW s, Whole(s), NEW t, Whole(t), NEW A, NEW B, NEW g, NEW h,
         InStep(s, t, A, B, g, h),
         NEW m \in A, m.mk \notin g, SkippedFor(t, m) = {} => WithinReach(t, m),
         NEW fresh, NewPair(s, t, B, fresh)
  PROVE  RatchetDecrypt(t, m, fresh).ok
<1>1. /\ Stream(s, t, A, g, MaxSkippedKeys) /\ Stream(t, s, B, h, MaxSkippedKeys)
      /\ Leads(s, t) \/ Leads(t, s)
  BY DEF InStep
<1>2. /\ m \in Message /\ m.n \in Nat /\ m.prev \in Nat
      /\ m.key # Zero /\ m.mk.id # <<>> /\ m.mk.pos = m.n
      /\ m.key = s.sending.pub => m.mk.id = s.sendingChainKey.id
  BY <1>1 DEF Stream, Sends, Message
<1>3. CASE SkippedFor(t, m) # {}
  BY <1>1, <1>3, CachedResult DEF Opened, Done
<1>4. CASE SkippedFor(t, m) = {}
  <2>1. Ahead(t, m) \/ ToEnter(s, t, m)
    <3>1. m.mk \notin Latest(t.skipped, MaxSkippedKeys)
      BY <1>1, <1>4, CachedOpens, LatestIsCached DEF Cached
    <3>2. QED
      BY <1>1, <3>1 DEF Stream
  <2>2. PICK r : r = CaughtBefore(t, m, fresh)
    OBVIOUS
  <2>3. /\ r.ok /\ r.state.receivingChainKey # NoChain
        /\ m.n = r.state.receivedCount /\ r.state.receivingChainKey = m.mk
    <3>1. CASE Ahead(t, m)
      <4>1. /\ m.key = t.receiving /\ t.receivingChainKey # NoChain /\ t.receivedCount <= m.n
            /\ m.n <= t.receivedCount + MaxSkipPerChain
        BY <1>4, <3>1 DEF Ahead, WithinReach
      <4>2. m.mk.id = t.receivingChainKey.id
        BY <1>1, <4>1, ReceivingChain
      <4>3. r = SkipReceivingKeys(t, m.n)
        BY <2>2, <4>1 DEF CaughtBefore, Done
      <4>4. QED
        BY <1>2, <4>1, <4>2, <4>3, OpensAhead
    <3>2. CASE ToEnter(s, t, m)
      <4>1. /\ m.key = s.sending.pub /\ t.receiving # m.key /\ m.n <= MaxSkipPerChain
            /\ t.receivingChainKey # NoChain => m.prev <= t.receivedCount + MaxSkipPerChain
        BY <1>4, <3>2 DEF ToEnter, WithinReach
      <4>2. m.mk.id = s.rootKey
        BY <1>1, <1>2, <4>1 DEF Leads
      <4>3. CloseChain(t, m).ok
        <5>1. t.receivedCount \in Nat /\ MaxSkipPerChain \in Nat
          BY WholeTypes, SkipBounds
        <5>2. t.receivingChainKey = NoChain \/ ~ (m.prev - t.receivedCount > MaxSkipPerChain)
          BY <1>2, <4>1, <5>1
        <5>3. QED
          BY <5>2 DEF CloseChain, SkipReceivingKeys, Done
      <4>4. PICK p : p = PerformDhRatchet(t, m, fresh)
        OBVIOUS
      <4>5. OnTheWay(s, t, A, B, h, g \cup Cached(t.skipped), 0)
        BY <1>1, StreamStart DEF OnTheWay
      <4>6. /\ p.ok /\ Whole(p.state)
            /\ p.state.receiving = m.key /\ p.state.receivedCount = 0
            /\ p.state.receivingChainKey # NoChain
            /\ p.state.receivingChainKey.id = s.rootKey
        BY <3>2, <4>3, <4>4, <4>5, TurnOnTheWay DEF NewPair, OnTheWay
      <4>7. r = SkipReceivingKeys(p.state, m.n)
        BY <2>2, <4>1, <4>4, <4>6 DEF CaughtBefore
      <4>8. 0 <= m.n /\ m.n <= 0 + MaxSkipPerChain
        BY <1>2, <4>1, SkipBounds
      <4>9. QED
        BY <1>2, <4>2, <4>6, <4>7, <4>8, OpensAhead
    <3>3. QED
      BY <2>1, <3>1, <3>2
  <2>4. RatchetDecrypt(t, m, fresh) = DecryptInChain(t, m, fresh)
    BY <1>4, Zenon DEF RatchetDecrypt
  <2>5. DecryptInChain(t, m, fresh) = Done(TRUE, CommitReceived(r.state))
    BY <2>2, <2>3, Zenon DEF DecryptInChain, CaughtBefore
  <2>6. QED
    BY <2>4, <2>5 DEF Done
<1>5. QED
  BY <1>3, <1>4

-----------------------------------------------------------------------------
(* The start of a session, and both sides of it.                           *)

LEMMA InStepSwap ==
  ASSUME NEW s, NEW t, NEW A, NEW B, NEW g, NEW h, InStep(s, t, A, B, g, h)
  PROVE  InStep(t, s, B, A, h, g)
  BY DEF InStep

\* startSession and the prekeys of the other side: the initiator leads.
LEMMA StartInStep ==
  ASSUME NEW root \in Seq(Output), NEW k \in Key, NEW spk \in Key, k # Zero, spk # Zero, spk # k,
         NEW g, NEW h, NEW s, s = InitialiseInitiator(root, KeyPair(k), spk),
         NEW t, t = InitialiseResponder(root, KeyPair(spk))
  PROVE  InStep(s, t, {}, {}, g, h) /\ Leads(s, t)
<1> DEFINE root1 == Append(root, {k, spk})
<1>1. {k, spk} \in Output /\ root1 # <<>>
  <2>1. {k, spk} \in Output
    BY DEF Output
  <2>2. root1 \in Seq(Output) /\ Len(root1) = Len(root) + 1
    BY <2>1
  <2>3. QED
    BY <2>1, <2>2
<1>2. KeyPair(k).pub = k /\ KeyPair(k).sec = k /\ KeyPair(spk).pub = spk /\ KeyPair(spk).sec = spk
  BY DEF KeyPair
<1>3. Append(root, Dh(KeyPair(k), spk)) = root1
  BY <1>2 DEF Dh
<1> HIDE DEF root1
<1>4. ChainFrom(root1).id = root1 /\ ChainFrom(root1) # NoChain /\ NoChain.id = <<>>
  BY <1>1 DEF ChainFrom, NoChain
<1>5. /\ s.rootKey = root1 /\ s.sending = KeyPair(k) /\ s.receiving = spk
      /\ s.sendingChainKey = ChainFrom(root1) /\ s.receivingChainKey = NoChain
      /\ s.sentCount = 0 /\ s.receivedCount = 0 /\ s.skipped = <<>>
  BY <1>3 DEF InitialiseInitiator
<1>6. /\ t.rootKey = root /\ t.sending = KeyPair(spk) /\ t.receiving = Zero
      /\ t.sendingChainKey = NoChain /\ t.receivingChainKey = NoChain
      /\ t.sentCount = 0 /\ t.receivedCount = 0 /\ t.skipped = <<>>
  BY DEF InitialiseResponder
<1>7. Leads(s, t)
  BY <1>2, <1>4, <1>5, <1>6 DEF Leads, root1
<1>8. CacheOf(<<>>, {})
  BY DEF CacheOf
<1>9. Sends(s, {}) /\ Sends(t, {})
  BY <1>1, <1>2, <1>4, <1>5, <1>6 DEF Sends
<1>10. Stream(s, t, {}, g, MaxSkippedKeys)
  BY <1>2, <1>5, <1>6, <1>8, <1>9 DEF Stream
<1>11. Stream(t, s, {}, h, MaxSkippedKeys)
  BY <1>2, <1>4, <1>5, <1>6, <1>8, <1>9 DEF Stream
<1>12. QED
  BY <1>7, <1>10, <1>11 DEF InStep

\* ratchetEncrypt leaves the two sides in step.
LEMMA SealInStep ==
  ASSUME NEW s, Whole(s), CanEncrypt(s), NEW t, Whole(t), NEW A, NEW B, NEW g, NEW h,
         InStep(s, t, A, B, g, h)
  PROVE  InStep(AfterEncrypt(s), t, A \cup {Sealed(s)}, B, g, h)
<1>1. PICK u : u = AfterEncrypt(s)
  OBVIOUS
<1>2. /\ Stream(s, t, A, g, MaxSkippedKeys) /\ Stream(t, s, B, h, MaxSkippedKeys)
      /\ Leads(s, t) \/ Leads(t, s)
  BY DEF InStep
<1>3. Stream(u, t, A \cup {Sealed(s)}, g, MaxSkippedKeys)
  BY <1>1, <1>2, SealStream, WholeTypes
<1>4. SameOpening(s, u) /\ u.sending = s.sending /\ u.sendingChainKey.id = s.sendingChainKey.id
  BY <1>1, EncryptFields
<1>5. Stream(t, u, B, h, MaxSkippedKeys)
  BY <1>2, <1>4, StreamSame DEF SameSealing
<1>6. u.sendingChainKey.id # <<>>
  BY <1>2, <1>4 DEF Stream, Sends, CanEncrypt
<1>7. Leads(s, t) => Leads(u, t)
  BY <1>4, <1>6 DEF Leads, SameOpening, NoChain
<1>8. Leads(t, s) => Leads(t, u)
  BY <1>4 DEF Leads, SameOpening, CanEncrypt
<1>9. QED
  BY <1>1, <1>2, <1>3, <1>5, <1>7, <1>8 DEF InStep

LEMMA StreamGone ==
  ASSUME NEW s, NEW t, NEW A, NEW g, NEW g1, NEW k, Stream(s, t, A, g, k), g \subseteq g1
  PROVE  Stream(s, t, A, g1, k)
  BY StreamSame DEF SameSealing, SameOpening

LEMMA InStepGone ==
  ASSUME NEW s, NEW t, NEW A, NEW B, NEW g, NEW h, NEW g1, NEW h1,
         InStep(s, t, A, B, g, h), g \subseteq g1, h \subseteq h1
  PROVE  InStep(s, t, A, B, g1, h1)
  BY StreamGone DEF InStep

-----------------------------------------------------------------------------
(* How many messages there can be.                                         *)

\* N different things of a finite set.
LEMMA DifferentOnes ==
  ASSUME NEW A, IsFiniteSet(A), NEW N \in Nat, NEW f \in [1 .. N -> A],
         \A i, j \in 1 .. N : f[i] = f[j] => i = j
  PROVE  N <= Cardinality(A)
<1> SUFFICES ASSUME ~ (N <= Cardinality(A)) PROVE FALSE
  OBVIOUS
<1>1. Cardinality(A) \in Nat
  BY FS_CardinalityType
<1>2. IsFiniteSet(1 .. N) /\ Cardinality(1 .. N) = N
  <2>1. 1 \in Int /\ N \in Int
    OBVIOUS
  <2>2. IsFiniteSet(1 .. N) /\ Cardinality(1 .. N) = IF 1 > N THEN 0 ELSE N - 1 + 1
    BY <2>1, FS_Interval
  <2>3. QED
    BY <2>2
<1>3. Cardinality(A) < Cardinality(1 .. N)
  BY <1>1, <1>2
<1>4. \E i, j \in 1 .. N : i # j /\ f[i] = f[j]
  BY <1>2, <1>3, FS_PigeonHole
<1>5. QED
  BY <1>4

\* As many messages as their chain has numbers.
LEMMA NumbersCount ==
  ASSUME NEW A, IsFiniteSet(A), NEW key, NEW k \in Nat,
         \A n \in 0 .. k - 1 : Numbered(A, key, n)
  PROVE  k <= Cardinality(A)
<1> DEFINE f == [i \in 1 .. k |-> CHOOSE w \in A : w.key = key /\ w.n = i - 1]
<1>1. ASSUME NEW i \in 1 .. k PROVE f[i] \in A /\ f[i].n = i - 1
  <2>1. i - 1 \in 0 .. k - 1
    OBVIOUS
  <2>2. \E w \in A : w.key = key /\ w.n = i - 1
    BY <2>1 DEF Numbered
  <2>3. f[i] = CHOOSE w \in A : w.key = key /\ w.n = i - 1
    OBVIOUS
  <2> HIDE DEF f
  <2>4. QED
    BY <2>2, <2>3
<1>2. f \in [1 .. k -> A]
  BY <1>1
<1> HIDE DEF f
<1>3. ASSUME NEW i \in 1 .. k, NEW j \in 1 .. k, f[i] = f[j] PROVE i = j
  <2>1. i - 1 = j - 1 /\ i \in Nat /\ j \in Nat
    BY <1>1, <1>3
  <2>2. QED
    BY <2>1
<1>4. QED
  BY <1>2, <1>3, DifferentOnes

\* No more messages than the cache has room for.
Few(A) == IsFiniteSet(A) /\ Cardinality(A) <= MaxSkippedKeys

\* Entries of a cache and entries to store, all different and all of A.
LEMMA EntriesCount ==
  ASSUME NEW A, IsFiniteSet(A), NEW q \in Seq(Skipped), NEW es \in Seq(Skipped),
         \A i \in DOMAIN q : \E w \in A : w.mk = q[i].mk,
         \A i \in DOMAIN es : \E w \in A : w.mk = es[i].mk,
         \A i, j \in DOMAIN q : q[i].mk = q[j].mk => i = j,
         \A i, j \in DOMAIN es : es[i].mk = es[j].mk => i = j,
         \A i \in DOMAIN q, j \in DOMAIN es : q[i].mk # es[j].mk
  PROVE  Len(q) + Len(es) <= Cardinality(A)
<1>1. PICK N \in Nat : N = Len(q)
  OBVIOUS
<1>2. PICK M \in Nat : M = Len(es)
  OBVIOUS
<1>3. DOMAIN q = 1 .. N /\ DOMAIN es = 1 .. M
  BY <1>1, <1>2
<1> DEFINE mk(i) == IF i <= N THEN q[i].mk ELSE es[i - N].mk
           f == [i \in 1 .. N + M |-> CHOOSE w \in A : w.mk = mk(i)]
<1>4. ASSUME NEW i \in 1 .. N + M
      PROVE  /\ i <= N => i \in DOMAIN q
             /\ ~ (i <= N) => i - N \in DOMAIN es
  <2>1. i <= N => i \in 1 .. N
    OBVIOUS
  <2>2. ~ (i <= N) => i - N \in 1 .. M
    OBVIOUS
  <2>3. QED
    BY <1>3, <2>1, <2>2
<1>5. ASSUME NEW i \in 1 .. N + M PROVE \E w \in A : w.mk = mk(i)
  BY <1>4
<1>6. ASSUME NEW i \in 1 .. N + M PROVE f[i] \in A /\ f[i].mk = mk(i)
  <2>1. f[i] = CHOOSE w \in A : w.mk = mk(i)
    OBVIOUS
  <2> HIDE DEF f, mk
  <2>2. QED
    BY <1>5, <2>1
<1>7. f \in [1 .. N + M -> A]
  <2>1. \A i \in 1 .. N + M : f[i] \in A
    BY <1>6
  <2>2. QED
    BY <2>1
<1> HIDE DEF f
<1>8. ASSUME NEW i \in 1 .. N + M, NEW j \in 1 .. N + M, mk(i) = mk(j) PROVE i = j
  <2>1. CASE i <= N /\ j <= N
    BY <1>4, <1>8, <2>1
  <2>2. CASE ~ (i <= N) /\ ~ (j <= N)
    <3>1. i - N = j - N
      BY <1>4, <1>8, <2>2
    <3>2. QED
      BY <3>1
  <2>3. CASE i <= N /\ ~ (j <= N)
    BY <1>4, <1>8, <2>3
  <2>4. CASE ~ (i <= N) /\ j <= N
    BY <1>4, <1>8, <2>4
  <2>5. QED
    BY <2>1, <2>2, <2>3, <2>4
<1> HIDE DEF mk
<1>9. \A i, j \in 1 .. N + M : f[i] = f[j] => i = j
  <2> SUFFICES ASSUME NEW i \in 1 .. N + M, NEW j \in 1 .. N + M, f[i] = f[j] PROVE i = j
    OBVIOUS
  <2>1. mk(i) = mk(j)
    BY <1>6
  <2>2. QED
    BY <1>8, <2>1
<1>10. N + M \in Nat
  OBVIOUS
<1>11. PICK K \in Nat : K = N + M
  BY <1>10
<1>12. K <= Cardinality(A)
  BY <1>7, <1>9, <1>11, DifferentOnes
<1>13. QED
  BY <1>1, <1>2, <1>11, <1>12

-----------------------------------------------------------------------------
(* Few messages: nothing is evicted, and every gap is closed.              *)

\* With as few messages on the way as the cache has room for, the loop of
\* skipReceivingKeys evicts nothing.
LEMMA CaughtUpKeepsCache ==
  ASSUME NEW s, NEW t, Whole(t), NEW A, NEW g, NEW k, Stream(s, t, A, g, k), Few(A),
         t.receivingChainKey # NoChain, NEW until \in Nat, until >= t.receivedCount,
         \A n \in 0 .. until - 1 : Numbered(A, t.receiving, n)
  PROVE  Cached(t.skipped) \subseteq Cached(CaughtUp(t, until).skipped)
<1> DEFINE es == KeysAhead(t, until)
           q  == t.skipped
           r  == RememberAll(q, es)
<1>1. /\ t.receivedCount \in Nat /\ q \in Seq(Skipped)
      /\ t.receivingChainKey.pos = t.receivedCount
      /\ Len(q) <= MaxSkippedKeys /\ until - t.receivedCount \in Nat
      /\ \A i, j \in DOMAIN q : q[i].mk = q[j].mk => i = j
  <2>1. /\ t.receivedCount \in Nat /\ q \in Seq(Skipped) /\ Len(q) <= MaxSkippedKeys
        /\ t.receivingChainKey.pos = t.receivedCount
        /\ \A i, j \in DOMAIN q : q[i].mk = q[j].mk => i = j
    BY WholeTypes DEF Whole, CacheOK
  <2> HIDE DEF q
  <2>2. QED
    BY <2>1
<1>2. /\ es \in Seq(Skipped) /\ Len(es) = until - t.receivedCount
      /\ DOMAIN es = 1 .. until - t.receivedCount
      /\ \A i \in DOMAIN es :
           /\ es[i].key = t.receiving /\ es[i].n = t.receivedCount + (i - 1)
           /\ es[i].mk \in Chain
           /\ es[i].mk.id = t.receivingChainKey.id /\ es[i].mk.pos = es[i].n
  BY AheadEntry
<1>3. CaughtUp(t, until).skipped = r
  BY CaughtUpFields
<1> HIDE DEF es
<1>4. /\ \A m \in A : m.key = t.receiving <=> m.mk.id = t.receivingChainKey.id
      /\ \A m \in A : m.mk.pos = m.n /\ m.mk \in Chain /\ m.n \in Nat
      /\ \A i \in DOMAIN q : \E w \in A : w.key = q[i].key /\ w.n = q[i].n /\ w.mk = q[i].mk
  <2>1. \A m \in A : m.key = t.receiving <=> m.mk.id = t.receivingChainKey.id
    BY ReceivingChain
  <2>2. A \subseteq Message /\ \A m \in A : m.mk.pos = m.n
    BY DEF Stream, Sends
  <2>3. \A i \in DOMAIN q : \E w \in A : w.key = q[i].key /\ w.n = q[i].n /\ w.mk = q[i].mk
    BY DEF Stream, CacheOf
  <2>4. QED
    BY <2>1, <2>2, <2>3 DEF Message
<1>5. \A i \in DOMAIN q, j \in DOMAIN es : ~ (q[i].mk.id = es[j].mk.id /\ q[i].mk.pos = es[j].mk.pos)
  <2> SUFFICES ASSUME NEW i \in DOMAIN q, NEW j \in DOMAIN es,
                      q[i].mk.id = es[j].mk.id, q[i].mk.pos = es[j].mk.pos
               PROVE  FALSE
    OBVIOUS
  <2>1. q[i].mk.id = t.receivingChainKey.id => q[i].mk.pos < t.receivedCount
    BY DEF Whole
  <2>2. j \in Nat /\ j >= 1 /\ q[i].mk.pos = t.receivedCount + (j - 1)
    BY <1>1, <1>2
  <2>3. q[i].mk.pos < t.receivedCount
    BY <1>2, <2>1
  <2>4. QED
    BY <1>1, <2>2, <2>3
<1>6. \A i \in DOMAIN q, j \in DOMAIN es : ~ (q[i].key = es[j].key /\ q[i].n = es[j].n)
  <2> SUFFICES ASSUME NEW i \in DOMAIN q, NEW j \in DOMAIN es,
                      q[i].key = es[j].key, q[i].n = es[j].n
               PROVE  FALSE
    OBVIOUS
  <2>1. PICK w \in A : w.key = q[i].key /\ w.n = q[i].n /\ w.mk = q[i].mk
    BY <1>4
  <2>2. q[i].mk.id = es[j].mk.id /\ q[i].mk.pos = es[j].mk.pos
    BY <1>2, <1>4, <2>1
  <2>3. QED
    BY <1>5, <2>2
<1>7. \A i, j \in DOMAIN es : es[i].mk.pos = es[j].mk.pos => i = j
  <2> SUFFICES ASSUME NEW i \in DOMAIN es, NEW j \in DOMAIN es, es[i].mk.pos = es[j].mk.pos
               PROVE  i = j
    OBVIOUS
  <2>1. i \in Nat /\ j \in Nat /\ t.receivedCount + (i - 1) = t.receivedCount + (j - 1)
    BY <1>1, <1>2
  <2>2. QED
    BY <1>1, <2>1
<1>8. \A j \in DOMAIN es : \E w \in A : w.mk = es[j].mk
  <2> SUFFICES ASSUME NEW j \in DOMAIN es PROVE \E w \in A : w.mk = es[j].mk
    OBVIOUS
  <2>1. es[j].n \in 0 .. until - 1
    BY <1>1, <1>2
  <2>2. PICK w \in A : w.key = t.receiving /\ w.n = es[j].n
    BY <2>1 DEF Numbered
  <2>3. /\ w.mk \in Chain /\ es[j].mk \in Chain
        /\ w.mk.id = es[j].mk.id /\ w.mk.pos = es[j].mk.pos
    BY <1>2, <1>4, <2>2
  <2>4. w.mk = es[j].mk
    BY <2>3 DEF Chain
  <2>5. QED
    BY <2>4
<1>9. Len(q) + Len(es) <= MaxSkippedKeys
  <2>1. IsFiniteSet(A) /\ Cardinality(A) <= MaxSkippedKeys /\ Cardinality(A) \in Nat
    BY FS_CardinalityType DEF Few
  <2>2. Len(q) + Len(es) <= Cardinality(A)
    <3>1. \A i \in DOMAIN q : \E w \in A : w.mk = q[i].mk
      BY <1>4
    <3>2. \A i, j \in DOMAIN es : es[i].mk = es[j].mk => i = j
      BY <1>7
    <3>3. \A i \in DOMAIN q, j \in DOMAIN es : q[i].mk # es[j].mk
      BY <1>5
    <3> HIDE DEF q
    <3>4. QED
      BY <1>1, <1>2, <1>8, <2>1, <3>1, <3>2, <3>3, EntriesCount
  <2> HIDE DEF q
  <2>3. Len(q) \in Nat /\ Len(es) \in Nat
    BY <1>1, <1>2
  <2>4. QED
    BY <2>1, <2>2, <2>3, SkipBounds
<1>10. Latest(q, Len(q)) \subseteq Latest(r, Len(q) + Len(es))
  <2>1. Bounded(q) /\ Len(q) \in Nat
    BY <1>1 DEF Bounded
  <2>2. \A i, j \in DOMAIN es : es[i].key = es[j].key /\ es[i].n = es[j].n => i = j
    BY <1>2, <1>7
  <2> HIDE DEF q
  <2>3. QED
    BY <1>2, <1>6, <1>9, <2>1, <2>2, RememberAllLatest
<1>11. \A i \in DOMAIN q : q[i].mk \in Latest(q, Len(q))
  BY <1>1, LatestAll
<1> HIDE DEF q, r
<1>12. Cached(q) \subseteq Cached(r)
  BY <1>10, <1>11, LatestIsCached DEF Cached
<1>13. QED
  BY <1>3, <1>12 DEF q

\* skipReceivingKeys, whether or not there is a gap to close.
LEMMA SkipKeepsCache ==
  ASSUME NEW s, NEW t, Whole(t), NEW A, NEW g, NEW k, Stream(s, t, A, g, k), Few(A),
         NEW until \in Nat,
         t.receivingChainKey # NoChain => \A n \in 0 .. until - 1 : Numbered(A, t.receiving, n)
  PROVE  Cached(t.skipped) \subseteq Cached(SkipReceivingKeys(t, until).state.skipped)
<1>1. t.receivedCount \in Nat
  BY WholeTypes
<1>2. \/ SkipReceivingKeys(t, until).state = t
      \/ /\ SkipReceivingKeys(t, until).state = CaughtUp(t, until)
         /\ t.receivingChainKey # NoChain /\ ~ (until < t.receivedCount)
  BY Zenon, DoneState DEF SkipReceivingKeys
<1>3. CASE SkipReceivingKeys(t, until).state = t
  BY <1>3
<1>4. CASE /\ SkipReceivingKeys(t, until).state = CaughtUp(t, until)
           /\ t.receivingChainKey # NoChain /\ ~ (until < t.receivedCount)
  <2>1. until >= t.receivedCount
    BY <1>1, <1>4
  <2>2. QED
    BY <1>4, <2>1, CaughtUpKeepsCache
<1>5. QED
  BY <1>2, <1>3, <1>4

\* Whatever ratchetDecrypt does before it tries the message.
LEMMA CaughtKeepsCache ==
  ASSUME NEW s, Whole(s), NEW t, NEW A, NEW B, NEW g, NEW g0,
         OnTheWay(s, t, A, B, g, g0, 0), Few(A), NEW m \in A,
         t.receiving = m.key \/ ToEnter(s, t, m),
         NEW fresh \in Key, fresh # Zero, fresh # t.sending.pub, \A w \in B : w.key # fresh
  PROVE  Cached(t.skipped) \subseteq Cached(CaughtBefore(t, m, fresh).state.skipped)
<1> DEFINE turned == IF t.receiving = m.key THEN Done(TRUE, t)
                                            ELSE PerformDhRatchet(t, m, fresh)
<1>1. /\ Whole(t) /\ Stream(s, t, A, g0, 0) /\ m \in Message
      /\ \A n \in 0 .. m.n : Numbered(A, m.key, n)
  BY DEF OnTheWay, Stream, Sends
<1>2. m.n \in Nat /\ m.prev \in Nat
  BY <1>1 DEF Message
<1>3. /\ Cached(t.skipped) \subseteq Cached(turned.state.skipped)
      /\ \E k : OnTheWay(s, turned.state, A, B, g, g0, k)
      /\ turned.ok => turned.state.receiving = m.key
  <2>1. CASE t.receiving = m.key
    <3>1. turned.state = t
      BY <2>1 DEF Done
    <3> HIDE DEF turned
    <3>2. QED
      BY <2>1, <3>1
  <2>2. CASE t.receiving # m.key
    <3>1. turned = PerformDhRatchet(t, m, fresh) /\ ToEnter(s, t, m)
      BY <2>2
    <3> HIDE DEF turned
    <3>2. /\ OnTheWay(s, turned.state, A, B, g, g0, MaxSkipPerChain)
          /\ turned.ok = CloseChain(t, m).ok
          /\ turned.ok => turned.state.receiving = m.key
      BY <3>1, TurnOnTheWay
    <3>3. PICK c : c = CloseChain(t, m).state
      OBVIOUS
    <3>4. Cached(t.skipped) \subseteq Cached(c.skipped)
      <4>1. m.key = s.sending.pub /\ t.receiving # s.sending.pub /\ m.prev = s.previousSentCount
        BY <1>1, <3>1 DEF ToEnter, Stream, Sends
      <4>2. t.receivingChainKey # NoChain =>
              \A n \in 0 .. m.prev - 1 : Numbered(A, t.receiving, n)
        BY <1>1, <4>1 DEF Stream
      <4>3. QED
        BY <1>1, <1>2, <3>3, <4>2, SkipKeepsCache DEF CloseChain
    <3>5. turned.state.skipped = c.skipped
      <4>1. CASE ~ CloseChain(t, m).ok
        <5>1. turned = CloseChain(t, m)
          BY <3>1, <4>1, Zenon DEF PerformDhRatchet
        <5>2. QED
          BY <3>3, <5>1
      <4>2. CASE CloseChain(t, m).ok
        <5>1. PICK v : v = Turned(c, m.key, fresh)
          OBVIOUS
        <5>2. turned = Done(TRUE, v)
          BY <1>1, <1>2, <3>1, <3>3, <4>2, <5>1, PerformFields
        <5>3. v.skipped = c.skipped
          BY <5>1 DEF Turned
        <5>4. QED
          BY <5>2, <5>3 DEF Done
      <4>3. QED
        BY <4>1, <4>2
    <3>6. QED
      BY <3>2, <3>4, <3>5
  <2>3. QED
    BY <2>1, <2>2
<1>4. CaughtBefore(t, m, fresh) =
        IF turned.ok THEN SkipReceivingKeys(turned.state, m.n) ELSE turned
  BY Zenon DEF CaughtBefore
<1> HIDE DEF turned
<1>5. CASE ~ turned.ok
  BY <1>3, <1>4, <1>5
<1>6. CASE turned.ok
  <2>1. PICK v : v = turned.state
    OBVIOUS
  <2>2. PICK k : OnTheWay(s, v, A, B, g, g0, k)
    BY <1>3, <2>1
  <2>3. Whole(v) /\ Stream(s, v, A, g0, k) /\ v.receiving = m.key
    BY <1>3, <1>6, <2>1, <2>2 DEF OnTheWay
  <2>4. \A n \in 0 .. m.n - 1 : Numbered(A, v.receiving, n)
    BY <1>1, <1>2, <2>3
  <2>5. Cached(v.skipped) \subseteq Cached(SkipReceivingKeys(v, m.n).state.skipped)
    BY <1>2, <2>3, <2>4, SkipKeepsCache
  <2>6. QED
    BY <1>3, <1>4, <1>6, <2>1, <2>5
<1>7. QED
  BY <1>5, <1>6

\* ratchetDecrypt takes no key out of the cache but the one it opens m with.
LEMMA ReceiveKeepsCache ==
  ASSUME NEW s, Whole(s), NEW t, Whole(t), NEW A, NEW B, NEW g, NEW h,
         InStep(s, t, A, B, g, h), Few(A),
         NEW m \in A, Timely(s, t, m), NEW fresh, NewPair(s, t, B, fresh),
         NEW u, u = RatchetDecrypt(t, m, fresh).state
  PROVE  Cached(t.skipped) \ Cached(u.skipped) \subseteq {m.mk}
<1>1. /\ Stream(s, t, A, g, MaxSkippedKeys) /\ Stream(t, s, B, h, MaxSkippedKeys)
      /\ Leads(s, t) \/ Leads(t, s)
  BY DEF InStep
<1>2. CASE SkippedFor(t, m) # {}
  <2>1. PICK i \in DOMAIN t.skipped :
          /\ t.skipped[i].mk = m.mk
          /\ RatchetDecrypt(t, m, fresh) = Done(TRUE, ConsumeSkipped(t, i))
    <3>1. Opened(t, m, fresh)
      BY <1>1, <1>2, CachedResult
    <3>2. QED
      BY <3>1, Zenon DEF Opened
  <2>2. u = ConsumeSkipped(t, i)
    BY <2>1 DEF Done
  <2>3. u.skipped = RemoveAt(t.skipped, i)
    BY <2>2, ConsumeFields
  <2>4. \A l \in DOMAIN t.skipped : l # i => \E j \in DOMAIN u.skipped : u.skipped[j] = t.skipped[l]
    BY <2>3, WholeTypes, RemovedOthers
  <2>5. ASSUME NEW l \in DOMAIN t.skipped, t.skipped[l].mk # m.mk
        PROVE  t.skipped[l].mk \in Cached(u.skipped)
    <3>1. PICK j \in DOMAIN u.skipped : u.skipped[j] = t.skipped[l]
      BY <2>1, <2>4, <2>5
    <3>2. QED
      BY <3>1 DEF Cached
  <2>6. QED
    BY <2>5 DEF Cached
<1>3. CASE SkippedFor(t, m) = {}
  <2>1. PICK c : c = CaughtBefore(t, m, fresh).state
    OBVIOUS
  <2>2. u = CommitReceived(c) \/ u = c
    <3>1. RatchetDecrypt(t, m, fresh) = DecryptInChain(t, m, fresh)
      BY <1>3, Zenon DEF RatchetDecrypt
    <3>2. PICK d : d = DecryptInChain(t, m, fresh)
      OBVIOUS
    <3>3. d = Done(TRUE, CommitReceived(c)) \/ d = Done(FALSE, c)
      BY <2>1, <3>2, InChainResult
    <3>4. u = d.state
      BY <3>1, <3>2
    <3>5. QED
      BY <3>3, <3>4 DEF Done
  <2>3. /\ OnTheWay(s, t, A, B, h, g \cup Cached(t.skipped), 0)
        /\ t.receiving = m.key \/ ToEnter(s, t, m)
    <3>1. OnTheWay(s, t, A, B, h, g \cup Cached(t.skipped), 0)
      BY <1>1, StreamStart DEF OnTheWay
    <3>2. t.receiving = m.key \/ ToEnter(s, t, m)
      BY <1>3 DEF Timely, ToEnter
    <3>3. QED
      BY <3>1, <3>2
  <2>4. /\ Cached(t.skipped) \subseteq Cached(c.skipped)
        /\ Whole(c)
    <3>1. Cached(t.skipped) \subseteq Cached(c.skipped)
      BY <2>1, <2>3, CaughtKeepsCache DEF NewPair
    <3>2. Whole(c)
      BY <2>1, <2>3, CaughtOnTheWay DEF NewPair, OnTheWay
    <3>3. QED
      BY <3>1, <3>2
  <2>5. u.skipped = c.skipped
    BY <2>2, <2>4, CommitTurn
  <2>6. QED
    BY <2>4, <2>5
<1>4. QED
  BY <1>2, <1>3

\* A message whose key is not gone is of no chain t has left for good.
LEMMA TimelyUnlessGone ==
  ASSUME NEW s, NEW t, NEW A, NEW B, NEW g, NEW h, InStep(s, t, A, B, g, h),
         NEW m \in A, m.mk \notin g
  PROVE  Timely(s, t, m)
<1>1. Stream(s, t, A, g, MaxSkippedKeys)
  BY DEF InStep
<1>2. m.mk \in Latest(t.skipped, MaxSkippedKeys) \/ Ahead(t, m) \/ ToEnter(s, t, m)
  BY <1>1 DEF Stream
<1>3. m.mk \in Latest(t.skipped, MaxSkippedKeys) => SkippedFor(t, m) # {}
  BY <1>1, CachedOpens, LatestIsCached DEF Cached
<1>4. QED
  BY <1>2, <1>3 DEF Timely, Ahead, ToEnter

\* Among as few messages as the code skips in one chain there is no gap that it
\* does not close.
LEMMA ShortReach ==
  ASSUME NEW s, NEW t, Whole(t), NEW A, NEW B, NEW g, NEW h, InStep(s, t, A, B, g, h),
         NEW m \in A, m.mk \notin g, SkippedFor(t, m) = {},
         IsFiniteSet(A), Cardinality(A) <= MaxSkipPerChain
  PROVE  WithinReach(t, m)
<1>1. Stream(s, t, A, g, MaxSkippedKeys)
  BY DEF InStep
<1>2. /\ m \in Message /\ m.n \in Nat /\ m.prev \in Nat
      /\ \A n \in 0 .. m.n : Numbered(A, m.key, n)
      /\ m.key = s.sending.pub => m.prev = s.previousSentCount
  BY <1>1 DEF Stream, Sends, Message
<1>3. t.receivedCount \in Nat /\ MaxSkipPerChain \in Nat /\ Cardinality(A) \in Nat
  BY WholeTypes, SkipBounds, FS_CardinalityType
<1>4. m.n <= MaxSkipPerChain
  <2>1. m.n + 1 \in Nat /\ \A n \in 0 .. (m.n + 1) - 1 : Numbered(A, m.key, n)
    BY <1>2
  <2>2. m.n + 1 <= Cardinality(A)
    BY <2>1, NumbersCount
  <2>3. QED
    BY <1>2, <1>3, <2>2
<1>5. CASE t.receiving = m.key
  <2>1. m.n <= t.receivedCount + MaxSkipPerChain
    BY <1>2, <1>3, <1>4
  <2>2. QED
    BY <1>5, <2>1 DEF WithinReach
<1>6. CASE t.receiving # m.key
  <2>1. ToEnter(s, t, m)
    <3>1. m.mk \notin Latest(t.skipped, MaxSkippedKeys)
      BY <1>1, CachedOpens, LatestIsCached DEF Cached
    <3>2. QED
      BY <1>1, <1>6, <3>1 DEF Stream, Ahead
  <2>2. ASSUME t.receivingChainKey # NoChain
        PROVE  m.prev <= t.receivedCount + MaxSkipPerChain
    <3>1. \A n \in 0 .. m.prev - 1 : Numbered(A, t.receiving, n)
      BY <1>1, <1>2, <2>1, <2>2 DEF Stream, ToEnter
    <3>2. m.prev <= Cardinality(A)
      BY <1>2, <3>1, NumbersCount
    <3>3. QED
      BY <1>2, <1>3, <3>2
  <2>3. QED
    BY <1>4, <1>6, <2>2 DEF WithinReach
<1>7. QED
  BY <1>5, <1>6
=============================================================================
