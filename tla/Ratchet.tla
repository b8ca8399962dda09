------------------------------- MODULE Ratchet -------------------------------
(***************************************************************************)
(* The Double Ratchet of packages/crypto/src/doubleRatchet.ts as operators *)
(* on one side's RatchetState.  Cryptography is symbolic:                  *)
(*   - a key pair is [pub, sec]; both halves carry the pair's number, a    *)
(*     wiped secret (Uint8Array.fill(0)) reads as Zero;                    *)
(*   - a Diffie-Hellman output is the set of the two secrets that met, so  *)
(*     both sides compute the same value exactly when both are intact;     *)
(*   - a root key is the sequence of outputs absorbed so far;              *)
(*   - a chain key is [id, pos]: the root it was derived with, and how     *)
(*     often it advanced.  The message key of a position is that record.   *)
(* The AEAD opens a message exactly when the derived message key is the    *)
(* one it was sealed with: its header is authenticated with it.            *)
(***************************************************************************)
EXTENDS Naturals, Sequences, SequencesExt

CONSTANTS
  MaxSkipPerChain,  \* MAX_SKIP_PER_CHAIN (1000 in the code)
  MaxSkippedKeys    \* MAX_SKIPPED_KEYS (2000 in the code)

\* Two gaps may be closed by one message, one in the chain it ends and one in
\* the chain it starts; the code's bounds leave room for both.
ASSUME SkipBounds ==
  /\ MaxSkipPerChain \in Nat
  /\ MaxSkippedKeys \in Nat \ {0}
  /\ 2 * MaxSkipPerChain <= MaxSkippedKeys

Zero    == 0                           \* a wiped secret, or no key at all
NoChain == [id |-> <<>>, pos |-> 0]    \* an undefined chain key

KeyPair(k)     == [pub |-> k, sec |-> k]
Dh(pair, pub)  == {pair.sec, pub}
ChainFrom(root) == [id |-> root, pos |-> 0]
Advanced(chain, steps) == [chain EXCEPT !.pos = @ + steps]

Key       == Nat
Output    == SUBSET Key
Chain     == [id : Seq(Output), pos : Nat]
Skipped   == [key : Key, n : Nat, mk : Chain]
RatchetState ==
  [rootKey : Seq(Output), sending : [pub : Key, sec : Key], receiving : Key,
   sendingChainKey : Chain, receivingChainKey : Chain,
   sentCount : Nat, receivedCount : Nat, previousSentCount : Nat,
   skipped : Seq(Skipped)]
Message   == [key : Key, prev : Nat, n : Nat, mk : Chain]

-----------------------------------------------------------------------------
(* Key agreement gave both sides rootSecret; the initiator knows the       *)
(* responder's signed prekey and may send at once, the responder may not.  *)

InitialiseInitiator(rootSecret, pair, peerKey) ==
  LET root == Append(rootSecret, Dh(pair, peerKey))
  IN  [rootKey |-> root, sending |-> pair, receiving |-> peerKey,
       sendingChainKey |-> ChainFrom(root), receivingChainKey |-> NoChain,
       sentCount |-> 0, receivedCount |-> 0, previousSentCount |-> 0,
       skipped |-> <<>>]

InitialiseResponder(rootSecret, signedPreKeyPair) ==
  [rootKey |-> rootSecret, sending |-> signedPreKeyPair, receiving |-> Zero,
   sendingChainKey |-> NoChain, receivingChainKey |-> NoChain,
   sentCount |-> 0, receivedCount |-> 0, previousSentCount |-> 0,
   skipped |-> <<>>]

-----------------------------------------------------------------------------
(* Sending.                                                                *)

CanEncrypt(s) == s.sendingChainKey # NoChain

Sealed(s) ==
  [key |-> s.sending.pub, prev |-> s.previousSentCount, n |-> s.sentCount,
   mk |-> s.sendingChainKey]

\* A sender that forgets to advance the chain it has used.
AfterEncryptStuck(s) == [s EXCEPT !.sentCount = @ + 1]

AfterEncrypt(s) ==
  [s EXCEPT !.sendingChainKey = Advanced(@, 1), !.sentCount = @ + 1]

-----------------------------------------------------------------------------
(* Receiving.  Every step of ratchetDecrypt may throw after it has changed *)
(* the state: a result says whether it went on and with which state.       *)

Done(ok, s) == [ok |-> ok, state |-> s]

\* The Map keeps one entry per id; the sequence keeps them oldest first.
RememberUnbounded(skipped, entry) == Append(skipped, entry)

Replaced(skipped, entry) ==
  {i \in DOMAIN skipped : skipped[i].key = entry.key /\ skipped[i].n = entry.n}

RememberSkipped(skipped, entry) ==
  LET kept == IF Len(skipped) >= MaxSkippedKeys THEN Tail(skipped) ELSE skipped
      same == Replaced(kept, entry)
  IN  Append(IF same = {} THEN kept ELSE RemoveAt(kept, CHOOSE i \in same : TRUE), entry)

\* The loop of skipReceivingKeys.
RememberAll(skipped, entries) ==
  LET after[i \in 0 .. Len(entries)] ==
        IF i = 0 THEN skipped ELSE RememberSkipped(after[i - 1], entries[i])
  IN  after[Len(entries)]

\* The keys of the positions from..until-1 of the receiving chain.
KeysAhead(s, until) ==
  [i \in 1 .. until - s.receivedCount |->
     [key |-> s.receiving, n |-> s.receivedCount + i - 1,
      mk |-> Advanced(s.receivingChainKey, i - 1)]]

CaughtUp(s, until) ==
  [s EXCEPT !.skipped = RememberAll(@, KeysAhead(s, until)),
            !.receivingChainKey = Advanced(@, until - s.receivedCount),
            !.receivedCount = until]

SkipReceivingKeys(s, until) ==
  IF s.receivingChainKey = NoChain \/ s.receiving = Zero \/ until < s.receivedCount
  THEN Done(TRUE, s)
  ELSE IF until - s.receivedCount > MaxSkipPerChain
       THEN Done(FALSE, s)
       ELSE Done(TRUE, CaughtUp(s, until))

\* Late messages of the chain the peer has left must stay decryptable.
CloseNothing(s, m) == Done(TRUE, s)

CloseChain(s, m) == SkipReceivingKeys(s, m.prev)

\* A re-key that keeps the pair it already has, and one with a new pair.
SamePair(s, fresh) == s.sending

NextPair(s, fresh) == KeyPair(fresh)

\* The peer moved to a new ratchet key: close the old receiving chain, derive
\* the new one, then a fresh sending pair and its chain.
PerformDhRatchet(s, m, fresh) ==
  LET closed == CloseChain(s, m)
      c      == closed.state
      pair   == NextPair(s, fresh)
      root1  == Append(c.rootKey, Dh(s.sending, m.key))
      root2  == Append(root1, Dh(pair, m.key))
  IN  IF ~closed.ok THEN closed
      ELSE Done(TRUE, [c EXCEPT
             !.previousSentCount = c.sentCount, !.sentCount = 0,
             !.receivedCount = 0, !.receiving = m.key,
             !.receivingChainKey = ChainFrom(root1),
             !.rootKey = root2, !.sending = pair,
             !.sendingChainKey = ChainFrom(root2)])

SkippedFor(s, m) == {i \in DOMAIN s.skipped :
                       s.skipped[i].key = m.key /\ s.skipped[i].n = m.n}

\* A skipped key that stays in the cache after it has opened its message.
ConsumeSkippedLeaky(s, i) == s

ConsumeSkipped(s, i) == [s EXCEPT !.skipped = RemoveAt(@, i)]

TryDecryptWithSkipped(s, m) ==
  LET i == CHOOSE i \in SkippedFor(s, m) : TRUE
  IN  IF s.skipped[i].mk = m.mk THEN Done(TRUE, ConsumeSkipped(s, i))
                                ELSE Done(FALSE, s)

\* A commit that counts the message but keeps the chain key that opened it.
CommitCountOnly(c) == [c EXCEPT !.receivedCount = @ + 1]

CommitReceived(c) ==
  [c EXCEPT !.receivingChainKey = Advanced(@, 1), !.receivedCount = @ + 1]

DecryptInChain(s, m, fresh) ==
  LET turned == IF s.receiving = m.key THEN Done(TRUE, s)
                                       ELSE PerformDhRatchet(s, m, fresh)
      caught == IF turned.ok THEN SkipReceivingKeys(turned.state, m.n) ELSE turned
      c      == caught.state
      opens  == /\ caught.ok
                /\ c.receivingChainKey # NoChain
                /\ m.n = c.receivedCount
                /\ c.receivingChainKey = m.mk
  IN  IF opens THEN Done(TRUE, CommitReceived(c)) ELSE Done(FALSE, c)

RatchetDecrypt(s, m, fresh) ==
  IF SkippedFor(s, m) # {} THEN TryDecryptWithSkipped(s, m)
                           ELSE DecryptInChain(s, m, fresh)

-----------------------------------------------------------------------------
(* What a side could still compute: the message keys of its skipped cache, *)
(* those ahead in its chains, and those of a chain it can enter with its   *)
(* root key and its own secret.                                            *)

Reaches(chain, mk) ==
  chain # NoChain /\ chain.id = mk.id /\ chain.pos <= mk.pos

Derives(s, mk) ==
  \/ \E i \in DOMAIN s.skipped : s.skipped[i].mk = mk
  \/ Reaches(s.sendingChainKey, mk)
  \/ Reaches(s.receivingChainKey, mk)
  \/ /\ IsStrictPrefix(s.rootKey, mk.id)
     /\ s.sending.sec \in mk.id[Len(s.rootKey) + 1]

\* A root key reached from s by agreements that each used s's own secret.
Follows(s, root) ==
  /\ IsPrefix(s.rootKey, root)
  /\ \A i \in Len(s.rootKey) + 1 .. Len(root) : s.sending.sec \in root[i]
=============================================================================
