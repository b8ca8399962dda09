------------------------------- MODULE PreKeys -------------------------------
(***************************************************************************)
(* Prekeys on both sides of the relay: every device's InMemoryPreKeyStore  *)
(* (packages/crypto/src/preKeyStore.ts), made anew by each Messenger.start,*)
(* and the directory of published keys in the relay's store.               *)
(* Classical and ML-KEM one-time keys are generated, uploaded, capped,     *)
(* handed out and consumed together: one key stands for the pair of them,  *)
(* and one signed key for the two of a generation.  Nothing rotates signed *)
(* keys: the store keeps the generation its constructor made, under the    *)
(* same id in every life.  Key pairs are numbered in the order they are    *)
(* made.                                                                   *)
(***************************************************************************)
EXTENDS Naturals, Sequences, SequencesExt, FiniteSets

CONSTANTS
  Device,
  Batch,       \* ONE_TIME_PREKEY_TARGET, and what a replenishment adds (100)
  LowWater,    \* PREKEY_LOW_WATER (20)
  Cap,         \* LIMITS.maxOneTimePreKeys (500)
  MaxStarts,   \* bound: lives of all devices together
  MaxIssued,   \* bound: bundles handed out
  MaxKeys      \* bound: key pairs made

ASSUME Pools == /\ Batch \in Nat \ {0} /\ LowWater \in Nat /\ Cap \in Nat
                /\ MaxKeys \in Nat

VARIABLES
  starts,      \* lives each device has had
  store,       \* its InMemoryPreKeyStore
  topUp,       \* devices that saw a low preKeyCount and have not uploaded yet
  directory,   \* the AccountRecord's published prekeys
  issued,      \* every bundle handed out, in order
  nextKey      \* the next unused key pair

preKeyVars == <<starts, store, topUp, directory, issued, nextKey>>

Secret    == Nat                          \* 0 once wiped
OneTime   == [id : Nat, key : Nat]
StoreType == [signed : [pub : Nat, sec : Secret], oneTime : SUBSET OneTime, nextId : Nat]
Account   == [signed : Nat, oneTime : Seq(OneTime)]
Bundle    == [by : Device, of : Device, signed : Nat, oneTime : SUBSET OneTime]

Ids(keys) == {k.id : k \in keys}

PreKeysInit ==
  /\ starts = [d \in Device |-> 0]
  /\ store = [d \in Device |-> [signed |-> [pub |-> 0, sec |-> 0], oneTime |-> {}, nextId |-> 1]]
  /\ topUp = {}
  /\ directory = [d \in Device |-> {}]
  /\ issued = <<>>
  /\ nextKey = 1

\* count new one-time keys, in the order they are published.
Generated(firstId, firstKey) ==
  [i \in 1 .. Batch |-> [id |-> firstId + i - 1, key |-> firstKey + i - 1]]

\* Ids that start over with every batch, and the code's.
NextIdStuck(id) == id

NextId(id) == id + Batch

\* Map.set for each key.
Added(oneTime, keys) == {k \in oneTime : k.id \notin Ids(keys)} \cup keys

FreshStore(signed, keys) ==
  [signed |-> [pub |-> signed, sec |-> signed], oneTime |-> ToSet(keys), nextId |-> NextId(1)]

\* An upload that is not cut, and the code's.
Uncapped(keys) == keys

Capped(keys) == SubSeq(keys, 1, IF Len(keys) < Cap THEN Len(keys) ELSE Cap)

Lives == FoldFunction(+, 0, starts)

\* start: a new store; registering is idempotent, so a later life publishes
\* nothing.
StartStore(d) ==
  LET keys == Generated(1, nextKey + 1) IN
  /\ Lives < MaxStarts
  /\ nextKey + Batch < MaxKeys
  /\ starts' = [starts EXCEPT ![d] = @ + 1]
  /\ store' = [store EXCEPT ![d] = FreshStore(nextKey, keys)]
  /\ directory' = [directory EXCEPT ![d] =
       IF @ = {} THEN {[signed |-> nextKey, oneTime |-> Capped(keys)]} ELSE @]
  /\ topUp' = topUp \ {d}
  /\ nextKey' = nextKey + 1 + Batch
  /\ UNCHANGED issued

Front1(keys) == IF keys = <<>> THEN {} ELSE {Head(keys)}

\* A directory that copies the key instead of taking it, and the code's.
KeptOne(keys) == keys

WithoutFirst(keys) == IF keys = <<>> THEN keys ELSE Tail(keys)

\* GET /v1/keys/:address by device d.
TakeBundle(d, e) ==
  /\ Len(issued) < MaxIssued
  /\ \E account \in directory[e] :
       /\ issued' = Append(issued, [by |-> d, of |-> e, signed |-> account.signed,
                                    oneTime |-> Front1(account.oneTime)])
       /\ directory' = [directory EXCEPT ![e] =
            {[account EXCEPT !.oneTime = WithoutFirst(@)]}]
  /\ UNCHANGED <<starts, store, topUp, nextKey>>

\* replenishPreKeysIfNeeded, to the answer of preKeyCount.
SeeCount(d) ==
  /\ starts[d] > 0
  /\ \E account \in directory[d] : Len(account.oneTime) < LowWater
  /\ topUp' = topUp \cup {d}
  /\ UNCHANGED <<starts, store, directory, issued, nextKey>>

\* The rest of it: new keys, kept here and uploaded.
Replenish(d) ==
  LET keys == Generated(store[d].nextId, nextKey) IN
  /\ d \in topUp
  /\ nextKey + Batch <= MaxKeys
  /\ topUp' = topUp \ {d}
  /\ store' = [store EXCEPT ![d].oneTime = Added(@, ToSet(keys)),
                            ![d].nextId = NextId(@)]
  /\ directory' = [directory EXCEPT ![d] =
       {[account EXCEPT !.oneTime = Capped(@ \o keys)] : account \in @}]
  /\ nextKey' = nextKey + Batch
  /\ UNCHANGED <<starts, issued>>

-----------------------------------------------------------------------------
\* The published pool respects the relay's cap, and no device holds more keys
\* than it made.
PreKeysTypeOK ==
  /\ starts \in [Device -> Nat]
  /\ store \in [Device -> StoreType]
  /\ topUp \subseteq Device
  /\ \A d \in Device :
       /\ directory[d] \subseteq Account /\ Cardinality(directory[d]) <= 1
       /\ \A account \in directory[d] : Len(account.oneTime) <= Cap
  /\ issued \in Seq(Bundle)
  /\ nextKey \in Nat

Pooled(d) == UNION {ToSet(account.oneTime) : account \in directory[d]}

\* A one-time prekey reaches one initiator at most: what is in the pool has
\* never been handed out, and no two bundles carry the same key, whatever is
\* uploaded in between and however often a device starts again
\* (takeOneTimePreKeys, store.ts:104-118).
OneTimePreKeysHandedOutOnce ==
  /\ \A i, j \in DOMAIN issued : i # j => issued[i].oneTime \cap issued[j].oneTime = {}
  /\ \A i \in DOMAIN issued, d \in Device : issued[i].oneTime \cap Pooled(d) = {}
=============================================================================
