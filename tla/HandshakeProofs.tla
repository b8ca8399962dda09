--------------------------- MODULE HandshakeProofs ---------------------------
(***************************************************************************)
(* For any devices, pool sizes, restarts and arrivals: no one-time prekey  *)
(* is handed out twice, and one that was handed out waits in its device's  *)
(* store until the handshake that names it is answered; no device answers  *)
(* a handshake twice; and two sessions of one handshake understand each    *)
(* other.                                                                  *)
(*                                                                         *)
(* The argument for the first: the keys in the directory's pools and in    *)
(* the bundles handed out are pairwise different and older than nextKey.   *)
(* An upload adds newer ones, cutting it takes some away, and a bundle     *)
(* moves the first of a pool.                                              *)
(* For the second: on a device in its first life every id in circulation   *)
(* belongs to one key, what is in the pool is in the store, and every      *)
(* preamble names the ids of a bundle that was handed out.  An answer      *)
(* therefore takes exactly the keys of the bundle it answers.              *)
(* For the third: an answer computes a root with the responder's signed    *)
(* prekey and the first turn wipes that prekey.  What was sealed carries   *)
(* the ephemeral key and the root of its handshake as a tag; of a tag at   *)
(* most one device has a secret, and none once it was answered.  An        *)
(* ephemeral key has one root, and no two devices share a key.             *)
(* The types of all of it rest on the operators' lemmas of RatchetProofs.  *)
(* For the last: a handshake has an initiator and a responder, told by its *)
(* newest secret, and what the responder says of it follows an answer.  So *)
(* until the answer the initiator is in step, in the sense of              *)
(* RatchetProofs, with the ratchet the answer will make, and from then on  *)
(* with the session it made.                                               *)
(***************************************************************************)
EXTENDS Handshake, RatchetProofs, FiniteSetTheorems

DirectoryShape ==
  /\ nextKey \in Nat
  /\ store \in [Device -> StoreType]
  /\ directory \in [Device -> SUBSET Account]
  /\ \A d \in Device : \A a1, a2 \in directory[d] : a1 = a2
  /\ issued \in Seq(Bundle)

Made(key) == key \in Nat /\ key < nextKey

PoolsDistinct ==
  \A d \in Device : \A a \in directory[d] : \A i \in 1 .. Len(a.oneTime) :
    /\ Made(a.oneTime[i].key)
    /\ \A e \in Device : \A b \in directory[e] : \A j \in 1 .. Len(b.oneTime) :
         a.oneTime[i].key = b.oneTime[j].key => d = e /\ i = j

IssuedGone ==
  \A n \in 1 .. Len(issued) : \A k \in issued[n].oneTime :
    /\ Made(k.key)
    /\ \A d \in Device : \A a \in directory[d] : \A i \in 1 .. Len(a.oneTime) :
         a.oneTime[i].key # k.key
    /\ \A m \in 1 .. Len(issued) : \A l \in issued[m].oneTime :
         k.key = l.key => n = m

PoolInv == DirectoryShape /\ PoolsDistinct /\ IssuedGone

\* What is cut off an upload is its end.
LEMMA CappedPart ==
  ASSUME NEW keys \in Seq(OneTime)
  PROVE  /\ Capped(keys) \in Seq(OneTime)
         /\ Len(Capped(keys)) <= Len(keys)
         /\ \A i \in 1 .. Len(Capped(keys)) : Capped(keys)[i] = keys[i]
<1> DEFINE m == IF Len(keys) < Cap THEN Len(keys) ELSE Cap
<1>1. m \in Nat /\ m <= Len(keys)
  BY Pools
<1>2. Capped(keys) = SubSeq(keys, 1, m)
  BY DEF Capped
<1> HIDE DEF m
<1>3. SubSeq(keys, 1, m) \in Seq(OneTime) /\ Len(SubSeq(keys, 1, m)) = m
  BY <1>1
<1>4. \A i \in 1 .. m : SubSeq(keys, 1, m)[i] = keys[i]
  BY <1>1
<1>5. QED
  BY <1>1, <1>2, <1>3, <1>4

LEMMA JoinedPools ==
  ASSUME NEW pool \in Seq(OneTime), NEW keys \in Seq(OneTime)
  PROVE  /\ pool \o keys \in Seq(OneTime)
         /\ Len(pool \o keys) = Len(pool) + Len(keys)
         /\ \A i \in 1 .. Len(pool) : (pool \o keys)[i] = pool[i]
  OBVIOUS

\* A batch's keys are consecutive.
LEMMA GeneratedKeys ==
  ASSUME NEW id \in Nat, NEW key \in Nat
  PROVE  /\ Generated(id, key) \in Seq(OneTime)
         /\ Len(Generated(id, key)) = Batch
         /\ \A i \in 1 .. Batch : Generated(id, key)[i].key = key + i - 1
         /\ ToSet(Generated(id, key)) \subseteq OneTime
<1>1. Generated(id, key) \in [1 .. Batch -> OneTime]
  BY Pools DEF Generated, OneTime
<1>2. DOMAIN Generated(id, key) = 1 .. Batch
  BY DEF Generated
<1>3. Generated(id, key) \in Seq(OneTime) /\ Len(Generated(id, key)) = Batch
  BY <1>1, <1>2, Pools
<1>4. \A i \in 1 .. Batch : Generated(id, key)[i].key = key + i - 1
  BY Pools DEF Generated
<1>5. ToSet(Generated(id, key)) \subseteq OneTime
  BY <1>1, <1>2 DEF ToSet
<1>6. QED
  BY <1>3, <1>4, <1>5

-----------------------------------------------------------------------------
(* The three things a step may do to the pools.                            *)

\* Nothing, while keys are made for something else.
LEMMA UntouchedPools ==
  ASSUME PoolInv, nextKey' \in Nat, nextKey <= nextKey', store' \in [Device -> StoreType],
         directory' = directory, issued' = issued
  PROVE  PoolInv'
<1>1. DirectoryShape'
  BY DEF PoolInv, DirectoryShape
<1>2. ASSUME NEW key, Made(key) PROVE Made(key)'
  BY <1>2 DEF Made, PoolInv, DirectoryShape
<1>3. PoolsDistinct'
  BY <1>2 DEF PoolInv, PoolsDistinct
<1>4. IssuedGone'
  BY <1>2 DEF PoolInv, IssuedGone
<1>5. QED
  BY <1>1, <1>3, <1>4 DEF PoolInv

\* One device's pool becomes one whose keys are different, each the key that
\* was in its place before or one not made before.
LEMMA UploadedPool ==
  ASSUME PoolInv, nextKey' \in Nat, nextKey <= nextKey', store' \in [Device -> StoreType],
         NEW d \in Device, NEW new \in Account,
         directory' = [directory EXCEPT ![d] = {new}], issued' = issued,
         \A i \in 1 .. Len(new.oneTime) :
           /\ Made(new.oneTime[i].key)'
           /\ \/ ~Made(new.oneTime[i].key)
              \/ \E a \in directory[d] :
                   i \in 1 .. Len(a.oneTime) /\ a.oneTime[i] = new.oneTime[i],
         \A i, j \in 1 .. Len(new.oneTime) :
           new.oneTime[i].key = new.oneTime[j].key => i = j
  PROVE  PoolInv'
<1>1. DirectoryShape'
  BY DEF PoolInv, DirectoryShape
<1>2. ASSUME NEW key, Made(key) PROVE Made(key)'
  BY <1>2 DEF Made, PoolInv, DirectoryShape
<1>3. \A e \in Device : directory'[e] = IF e = d THEN {new} ELSE directory[e]
  BY DEF PoolInv, DirectoryShape
<1>4. ASSUME NEW e \in Device, e # d, NEW b \in directory[e], NEW j \in 1 .. Len(b.oneTime),
             NEW i \in 1 .. Len(new.oneTime)
      PROVE  new.oneTime[i].key # b.oneTime[j].key
  <2>1. Made(b.oneTime[j].key)
    BY DEF PoolInv, PoolsDistinct
  <2>2. CASE ~Made(new.oneTime[i].key)
    BY <2>1, <2>2
  <2>3. ASSUME NEW a \in directory[d], i \in 1 .. Len(a.oneTime), a.oneTime[i] = new.oneTime[i]
        PROVE  new.oneTime[i].key # b.oneTime[j].key
    <3>1. a.oneTime[i].key # b.oneTime[j].key
      BY <1>4, <2>3 DEF PoolInv, PoolsDistinct
    <3>2. QED
      BY <2>3, <3>1
  <2>4. QED
    BY <2>2, <2>3
<1>5. PoolsDistinct'
  <2>1. SUFFICES ASSUME NEW e \in Device, NEW a \in directory'[e], NEW i \in 1 .. Len(a.oneTime),
                        NEW f \in Device, NEW b \in directory'[f], NEW j \in 1 .. Len(b.oneTime)
        PROVE  /\ Made(a.oneTime[i].key)'
               /\ a.oneTime[i].key = b.oneTime[j].key => e = f /\ i = j
    BY DEF PoolsDistinct
  <2>2. CASE e = d /\ f = d
    BY <1>3, <2>2
  <2>3. CASE e = d /\ f # d
    BY <1>3, <1>4, <2>3
  <2>4. CASE e # d /\ f = d
    <3>1. a \in directory[e] /\ b = new
      BY <1>3, <2>4
    <3>2. Made(a.oneTime[i].key)'
      BY <1>2, <3>1 DEF PoolInv, PoolsDistinct
    <3>3. QED
      BY <1>4, <2>4, <3>1, <3>2
  <2>5. CASE e # d /\ f # d
    BY <1>2, <1>3, <2>5 DEF PoolInv, PoolsDistinct
  <2>6. QED
    BY <2>2, <2>3, <2>4, <2>5
<1>6. IssuedGone'
  <2>1. SUFFICES ASSUME NEW n \in 1 .. Len(issued), NEW k \in issued[n].oneTime
        PROVE  /\ Made(k.key)'
               /\ \A e \in Device : \A a \in directory'[e] : \A i \in 1 .. Len(a.oneTime) :
                    a.oneTime[i].key # k.key
               /\ \A m \in 1 .. Len(issued) : \A l \in issued[m].oneTime :
                    k.key = l.key => n = m
    BY DEF IssuedGone
  <2>2. Made(k.key)
    BY DEF PoolInv, IssuedGone
  <2>3. ASSUME NEW i \in 1 .. Len(new.oneTime) PROVE new.oneTime[i].key # k.key
    <3>1. CASE ~Made(new.oneTime[i].key)
      BY <2>2, <3>1
    <3>2. ASSUME NEW a \in directory[d], i \in 1 .. Len(a.oneTime), a.oneTime[i] = new.oneTime[i]
          PROVE  new.oneTime[i].key # k.key
      <4>1. a.oneTime[i].key # k.key
        BY <3>2 DEF PoolInv, IssuedGone
      <4>2. QED
        BY <3>2, <4>1
    <3>3. QED
      BY <3>1, <3>2
  <2>4. ASSUME NEW e \in Device, NEW a \in directory'[e], NEW i \in 1 .. Len(a.oneTime)
        PROVE  a.oneTime[i].key # k.key
    <3>1. CASE e = d
      BY <1>3, <2>3, <3>1
    <3>2. CASE e # d
      BY <1>3, <3>2 DEF PoolInv, IssuedGone
    <3>3. QED
      BY <3>1, <3>2
  <2>5. QED
    BY <1>2, <2>2, <2>4 DEF PoolInv, IssuedGone
<1>7. QED
  BY <1>1, <1>5, <1>6 DEF PoolInv

-----------------------------------------------------------------------------
(* The steps.                                                              *)

LEMMA StartStep ==
  ASSUME PoolInv, NEW d \in Device, StartStore(d)
  PROVE  PoolInv'
<1> DEFINE keys == Generated(1, nextKey + 1)
           new  == [signed |-> nextKey, oneTime |-> Capped(keys)]
<1>1. nextKey \in Nat /\ nextKey' = nextKey + 1 + Batch /\ nextKey <= nextKey' /\ nextKey' \in Nat
  BY Pools DEF PoolInv, DirectoryShape, StartStore
<1>2. nextKey + 1 \in Nat /\ 1 \in Nat
  BY <1>1
<1>3. /\ keys \in Seq(OneTime) /\ Len(keys) = Batch /\ ToSet(keys) \subseteq OneTime
      /\ \A i \in 1 .. Batch : keys[i].key = nextKey + 1 + i - 1
  BY <1>2, GeneratedKeys
<1>4. /\ directory' = [directory EXCEPT ![d] = IF directory[d] = {} THEN {new} ELSE directory[d]]
      /\ store' = [store EXCEPT ![d] = FreshStore(nextKey, keys)]
      /\ issued' = issued
  BY DEF StartStore
<1> HIDE DEF keys
<1>5. store' \in [Device -> StoreType]
  BY <1>1, <1>3, <1>4, Pools
  DEF PoolInv, DirectoryShape, FreshStore, StoreType, Secret, NextId
<1>6. CASE directory[d] # {}
  <2>1. directory' = directory
    BY <1>4, <1>6 DEF PoolInv, DirectoryShape
  <2>2. QED
    BY <1>1, <1>4, <1>5, <2>1, UntouchedPools
<1>7. CASE directory[d] = {}
  <2>1. /\ Capped(keys) \in Seq(OneTime) /\ Len(Capped(keys)) <= Batch
        /\ \A i \in 1 .. Len(Capped(keys)) : Capped(keys)[i] = keys[i]
    BY <1>3, CappedPart
  <2>2. new \in Account
    BY <1>1, <2>1 DEF Account
  <2>3. \A i \in 1 .. Len(Capped(keys)) : i \in 1 .. Batch /\ i \in Nat
    BY <2>1, Pools
  <2>4. \A i \in 1 .. Len(new.oneTime) : new.oneTime[i].key = nextKey + i /\ i \in 1 .. Batch
    BY <1>1, <1>3, <2>1, <2>3
  <2>5. directory' = [directory EXCEPT ![d] = {new}]
    BY <1>4, <1>7
  <2> HIDE DEF new
  <2>6. PICK account \in Account : account = new
    BY <2>2
  <2>7. \A i \in 1 .. Len(account.oneTime) :
          account.oneTime[i].key = nextKey + i /\ i \in 1 .. Batch
    BY <2>4, <2>6
  <2>8. \A i \in 1 .. Len(account.oneTime) :
          Made(account.oneTime[i].key)' /\ ~Made(account.oneTime[i].key)
    BY <1>1, <2>7, Pools DEF Made
  <2>9. \A i, j \in 1 .. Len(account.oneTime) :
          account.oneTime[i].key = account.oneTime[j].key => i = j
    BY <1>1, <2>7
  <2>10. QED
    BY <1>1, <1>4, <1>5, <2>5, <2>6, <2>8, <2>9, UploadedPool
<1>8. QED
  BY <1>6, <1>7

LEMMA ReplenishStep ==
  ASSUME PoolInv, NEW d \in Device, Replenish(d)
  PROVE  PoolInv'
<1> DEFINE keys == Generated(store[d].nextId, nextKey)
           new(a) == [a EXCEPT !.oneTime = Capped(@ \o keys)]
<1>1. nextKey \in Nat /\ nextKey' = nextKey + Batch /\ nextKey <= nextKey' /\ nextKey' \in Nat
  BY Pools DEF PoolInv, DirectoryShape, Replenish
<1>2. store[d] \in StoreType
  BY DEF PoolInv, DirectoryShape
<1>3. store[d].nextId \in Nat
  BY <1>2 DEF StoreType
<1>4. /\ keys \in Seq(OneTime) /\ Len(keys) = Batch /\ ToSet(keys) \subseteq OneTime
      /\ \A i \in 1 .. Batch : keys[i].key = nextKey + i - 1
  BY <1>1, <1>3, GeneratedKeys
<1>5. /\ directory' = [directory EXCEPT ![d] = {new(a) : a \in directory[d]}]
      /\ store' = [store EXCEPT ![d].oneTime = Added(@, ToSet(keys)), ![d].nextId = NextId(@)]
      /\ issued' = issued
  BY DEF Replenish
<1> HIDE DEF keys
<1>6. store' \in [Device -> StoreType]
  <2>1. Added(store[d].oneTime, ToSet(keys)) \in SUBSET OneTime
    BY <1>2, <1>4 DEF Added, StoreType
  <2>2. NextId(store[d].nextId) \in Nat
    BY <1>3, Pools DEF NextId
  <2>3. [store[d] EXCEPT !.oneTime = Added(@, ToSet(keys)), !.nextId = NextId(@)] \in StoreType
    BY <1>2, <2>1, <2>2 DEF StoreType
  <2>4. QED
    BY <1>5, <2>3 DEF PoolInv, DirectoryShape
<1>7. CASE directory[d] = {}
  <2>1. directory' = directory
    BY <1>5, <1>7 DEF PoolInv, DirectoryShape
  <2>2. QED
    BY <1>1, <1>5, <1>6, <2>1, UntouchedPools
<1>8. ASSUME NEW old \in directory[d] PROVE PoolInv'
  <2> DEFINE pool == old.oneTime \o keys
  <2>1. directory[d] = {old} /\ old \in Account
    BY <1>8 DEF PoolInv, DirectoryShape
  <2>2. old.oneTime \in Seq(OneTime) /\ Len(old.oneTime) \in Nat
    BY <2>1 DEF Account
  <2>3. /\ pool \in Seq(OneTime)
        /\ Len(pool) = Len(old.oneTime) + Batch
        /\ \A i \in 1 .. Len(old.oneTime) : pool[i] = old.oneTime[i]
        /\ \A i \in Len(old.oneTime) + 1 .. Len(pool) : pool[i] = keys[i - Len(old.oneTime)]
    <3>1. pool \in Seq(OneTime) /\ Len(pool) = Len(old.oneTime) + Len(keys)
      BY <1>4, <2>2, JoinedPools
    <3>2. \A i \in 1 .. Len(old.oneTime) : pool[i] = old.oneTime[i]
      BY <1>4, <2>2, JoinedPools
    <3>3. \A i \in Len(old.oneTime) + 1 .. Len(pool) : pool[i] = keys[i - Len(old.oneTime)]
      BY <1>4, <2>2, <3>1, Pools
    <3>4. QED
      BY <1>4, <3>1, <3>2, <3>3
  <2> HIDE DEF pool
  <2>4. /\ Capped(pool) \in Seq(OneTime) /\ Len(Capped(pool)) <= Len(pool)
        /\ \A i \in 1 .. Len(Capped(pool)) : Capped(pool)[i] = pool[i]
    BY <2>3, CappedPart
  <2>5. new(old) \in Account /\ new(old).oneTime = Capped(pool)
    BY <2>1, <2>4 DEF Account, pool
  <2>6. directory' = [directory EXCEPT ![d] = {new(old)}]
    BY <1>5, <2>1
  <2> HIDE DEF new
  <2>7. PICK account \in Account : account = new(old)
    BY <2>5
  <2>8. ASSUME NEW i \in 1 .. Len(account.oneTime)
        PROVE  /\ i \in Nat
               /\ \/ /\ i \in 1 .. Len(old.oneTime)
                     /\ account.oneTime[i] = old.oneTime[i]
                  \/ /\ i > Len(old.oneTime) /\ i - Len(old.oneTime) \in 1 .. Batch
                     /\ account.oneTime[i].key = nextKey + (i - Len(old.oneTime)) - 1
    <3>1. i \in 1 .. Len(Capped(pool)) /\ i \in 1 .. Len(pool)
      BY <2>3, <2>4, <2>5, <2>7, <2>2, Pools
    <3>2. account.oneTime[i] = pool[i]
      BY <2>4, <2>5, <2>7, <3>1
    <3>3. CASE i \in 1 .. Len(old.oneTime)
      BY <2>3, <3>2, <3>3
    <3>4. CASE i \notin 1 .. Len(old.oneTime)
      <4>1. i \in Nat /\ i > Len(old.oneTime) /\ i - Len(old.oneTime) \in 1 .. Batch
            /\ i \in Len(old.oneTime) + 1 .. Len(pool)
        BY <2>2, <2>3, <3>1, <3>4, Pools
      <4>2. account.oneTime[i] = keys[i - Len(old.oneTime)]
        BY <2>3, <3>2, <4>1
      <4>3. QED
        BY <1>4, <4>1, <4>2
    <3>5. QED
      BY <3>3, <3>4
  <2>9. ASSUME NEW i \in 1 .. Len(old.oneTime) PROVE Made(old.oneTime[i].key)
    BY DEF PoolInv, PoolsDistinct
  <2>10. \A n \in 1 .. Batch : ~Made(nextKey + n - 1)
    BY <1>1, Pools DEF Made
  <2>11. \A i \in 1 .. Len(account.oneTime) :
           /\ Made(account.oneTime[i].key)'
           /\ \/ ~Made(account.oneTime[i].key)
              \/ \E a \in directory[d] :
                   i \in 1 .. Len(a.oneTime) /\ a.oneTime[i] = account.oneTime[i]
    <3>1. SUFFICES ASSUME NEW i \in 1 .. Len(account.oneTime)
          PROVE  /\ Made(account.oneTime[i].key)'
                 /\ \/ ~Made(account.oneTime[i].key)
                    \/ /\ i \in 1 .. Len(old.oneTime)
                       /\ old.oneTime[i] = account.oneTime[i]
      BY <1>8
    <3>2. CASE i \in 1 .. Len(old.oneTime) /\ account.oneTime[i] = old.oneTime[i]
      <4>1. Made(account.oneTime[i].key)
        BY <2>9, <3>2
      <4>2. QED
        BY <1>1, <3>2, <4>1 DEF Made
    <3>3. CASE /\ i > Len(old.oneTime) /\ i - Len(old.oneTime) \in 1 .. Batch
               /\ account.oneTime[i].key = nextKey + (i - Len(old.oneTime)) - 1
      <4>1. \A n \in 1 .. Batch :
              /\ nextKey + n - 1 \in Nat
              /\ nextKey + n - 1 < nextKey'
              /\ ~(nextKey + n - 1 < nextKey)
        BY <1>1, Pools
      <4>2. QED
        BY <3>3, <4>1 DEF Made
    <3>4. QED
      BY <2>8, <3>2, <3>3
  <2>12. \A i, j \in 1 .. Len(account.oneTime) :
           account.oneTime[i].key = account.oneTime[j].key => i = j
    <3>1. SUFFICES ASSUME NEW i \in 1 .. Len(account.oneTime), NEW j \in 1 .. Len(account.oneTime),
                          account.oneTime[i].key = account.oneTime[j].key
          PROVE  i = j
      OBVIOUS
    <3>2. CASE i \in 1 .. Len(old.oneTime) /\ account.oneTime[i] = old.oneTime[i]
      <4>1. CASE j \in 1 .. Len(old.oneTime) /\ account.oneTime[j] = old.oneTime[j]
        <5>1. old.oneTime[i].key = old.oneTime[j].key
          BY <3>1, <3>2, <4>1
        <5>2. QED
          BY <3>2, <4>1, <5>1 DEF PoolInv, PoolsDistinct
      <4>2. CASE /\ j > Len(old.oneTime) /\ j - Len(old.oneTime) \in 1 .. Batch
                 /\ account.oneTime[j].key = nextKey + (j - Len(old.oneTime)) - 1
        <5>1. Made(account.oneTime[j].key)
          BY <2>9, <3>1, <3>2
        <5>2. QED
          BY <2>10, <4>2, <5>1
      <4>3. QED
        BY <2>8, <4>1, <4>2
    <3>3. CASE /\ i > Len(old.oneTime) /\ i - Len(old.oneTime) \in 1 .. Batch
               /\ account.oneTime[i].key = nextKey + (i - Len(old.oneTime)) - 1
      <4>1. CASE j \in 1 .. Len(old.oneTime) /\ account.oneTime[j] = old.oneTime[j]
        <5>1. Made(account.oneTime[i].key)
          BY <2>9, <3>1, <4>1
        <5>2. QED
          BY <2>10, <3>3, <5>1
      <4>2. CASE /\ j > Len(old.oneTime) /\ j - Len(old.oneTime) \in 1 .. Batch
                 /\ account.oneTime[j].key = nextKey + (j - Len(old.oneTime)) - 1
        <5>1. /\ i - Len(old.oneTime) \in Nat /\ j - Len(old.oneTime) \in Nat
              /\ i \in Nat /\ j \in Nat
          BY <2>8, <3>3, <4>2, Pools
        <5>2. nextKey + (i - Len(old.oneTime)) - 1 = nextKey + (j - Len(old.oneTime)) - 1
          BY <3>1, <3>3, <4>2
        <5>3. QED
          BY <1>1, <2>2, <5>1, <5>2
      <4>3. QED
        BY <2>8, <4>1, <4>2
    <3>4. QED
      BY <2>8, <3>2, <3>3
  <2>13. QED
    BY <1>1, <1>5, <1>6, <2>6, <2>7, <2>11, <2>12, UploadedPool
<1>9. QED
  BY <1>7, <1>8

LEMMA TakeStep ==
  ASSUME PoolInv, NEW d \in Device, NEW e \in Device, TakeBundle(d, e)
  PROVE  PoolInv'
<1>1. PICK old \in directory[e] :
        /\ issued' = Append(issued, [by |-> d, of |-> e, signed |-> old.signed,
                                     oneTime |-> Front1(old.oneTime)])
        /\ directory' = [directory EXCEPT ![e] =
             {[old EXCEPT !.oneTime = WithoutFirst(@)]}]
  BY DEF TakeBundle
<1>2. nextKey' = nextKey /\ store' = store
  BY DEF TakeBundle
<1>3. /\ old \in Account /\ old.oneTime \in Seq(OneTime) /\ Len(old.oneTime) \in Nat
      /\ directory[e] = {old} /\ old.signed \in Nat
  BY DEF PoolInv, DirectoryShape, Account
<1> DEFINE bundle == [by |-> d, of |-> e, signed |-> old.signed, oneTime |-> Front1(old.oneTime)]
           new    == [old EXCEPT !.oneTime = WithoutFirst(@)]
<1>4. /\ new \in Account
      /\ \A i \in 1 .. Len(new.oneTime) :
           i \in Nat /\ i + 1 \in 1 .. Len(old.oneTime) /\ new.oneTime[i] = old.oneTime[i + 1]
  <2>1. /\ WithoutFirst(old.oneTime) \in Seq(OneTime)
        /\ \A i \in 1 .. Len(WithoutFirst(old.oneTime)) :
             /\ i \in Nat /\ i + 1 \in 1 .. Len(old.oneTime)
             /\ WithoutFirst(old.oneTime)[i] = old.oneTime[i + 1]
    BY <1>3 DEF WithoutFirst
  <2>2. QED
    BY <1>3, <2>1 DEF Account
<1>5. /\ bundle \in Bundle
      /\ \A k \in bundle.oneTime : 1 \in 1 .. Len(old.oneTime) /\ k = old.oneTime[1]
  <2>1. /\ Front1(old.oneTime) \subseteq OneTime
        /\ \A k \in Front1(old.oneTime) : 1 \in 1 .. Len(old.oneTime) /\ k = old.oneTime[1]
    BY <1>3 DEF Front1
  <2>2. QED
    BY <1>3, <2>1 DEF Bundle
<1>6. issued' = Append(issued, bundle) /\ directory' = [directory EXCEPT ![e] = {new}]
  BY <1>1
<1> HIDE DEF bundle, new
<1>7. DirectoryShape'
  BY <1>2, <1>4, <1>5, <1>6 DEF PoolInv, DirectoryShape
<1>8. \A f \in Device : directory'[f] = IF f = e THEN {new} ELSE directory[f]
  BY <1>6 DEF PoolInv, DirectoryShape
<1>9. \A key : Made(key)' <=> Made(key)
  BY <1>2 DEF Made
\* What is in a pool now was in that pool before, one place further on in e's.
<1>10. ASSUME NEW f \in Device, NEW a \in directory'[f], NEW i \in 1 .. Len(a.oneTime)
       PROVE  i \in Nat /\ \E b \in directory[f] : \E j \in 1 .. Len(b.oneTime) :
                /\ b.oneTime[j] = a.oneTime[i]
                /\ j = IF f = e THEN i + 1 ELSE i
  <2>1. CASE f = e
    <3>1. a = new
      BY <1>8, <2>1
    <3>2. i \in Nat /\ i + 1 \in 1 .. Len(old.oneTime) /\ new.oneTime[i] = old.oneTime[i + 1]
      BY <1>4, <1>10, <3>1
    <3>3. QED
      BY <1>3, <2>1, <3>1, <3>2
  <2>2. CASE f # e
    <3>1. a \in directory[f]
      BY <1>8, <2>2
    <3>2. a.oneTime \in Seq(OneTime)
      BY <3>1 DEF PoolInv, DirectoryShape, Account
    <3>3. i \in Nat
      BY <3>2
    <3>4. QED
      BY <2>2, <3>1, <3>3
  <2>3. QED
    BY <2>1, <2>2
<1>11. PoolsDistinct'
  <2>1. SUFFICES ASSUME NEW f \in Device, NEW a \in directory'[f], NEW i \in 1 .. Len(a.oneTime),
                        NEW g \in Device, NEW b \in directory'[g], NEW j \in 1 .. Len(b.oneTime)
        PROVE  /\ Made(a.oneTime[i].key)
               /\ a.oneTime[i].key = b.oneTime[j].key => f = g /\ i = j
    BY <1>9 DEF PoolsDistinct
  <2>2. PICK oa \in directory[f] : \E oi \in 1 .. Len(oa.oneTime) :
          oa.oneTime[oi] = a.oneTime[i] /\ oi = IF f = e THEN i + 1 ELSE i
    BY <1>10
  <2>3. PICK oi \in 1 .. Len(oa.oneTime) :
          oa.oneTime[oi] = a.oneTime[i] /\ oi = IF f = e THEN i + 1 ELSE i
    BY <2>2
  <2>4. PICK ob \in directory[g] : \E oj \in 1 .. Len(ob.oneTime) :
          ob.oneTime[oj] = b.oneTime[j] /\ oj = IF g = e THEN j + 1 ELSE j
    BY <1>10
  <2>5. PICK oj \in 1 .. Len(ob.oneTime) :
          ob.oneTime[oj] = b.oneTime[j] /\ oj = IF g = e THEN j + 1 ELSE j
    BY <2>4
  <2>6. /\ Made(oa.oneTime[oi].key)
        /\ oa.oneTime[oi].key = ob.oneTime[oj].key => f = g /\ oi = oj
    BY DEF PoolInv, PoolsDistinct
  <2>7. i \in Nat /\ j \in Nat
    BY <1>10
  <2>8. QED
    BY <2>3, <2>5, <2>6, <2>7
<1>12. IssuedGone'
  <2>1. /\ Len(issued) \in Nat /\ Len(issued') = Len(issued) + 1
        /\ \A n \in 1 .. Len(issued) : issued'[n] = issued[n]
        /\ issued'[Len(issued) + 1] = bundle
    BY <1>5, <1>6 DEF PoolInv, DirectoryShape
  <2>2. \A n \in 1 .. Len(issued') :
          \/ n \in 1 .. Len(issued) /\ issued'[n] = issued[n]
          \/ n = Len(issued) + 1 /\ issued'[n] = bundle
    BY <2>1
  <2>3. ASSUME NEW k \in bundle.oneTime
        PROVE  /\ Made(k.key)
               /\ \A n \in 1 .. Len(issued) : \A l \in issued[n].oneTime : k.key # l.key
               /\ \A f \in Device : \A a \in directory'[f] : \A i \in 1 .. Len(a.oneTime) :
                    a.oneTime[i].key # k.key
    <3>1. old \in directory[e] /\ 1 \in 1 .. Len(old.oneTime) /\ k = old.oneTime[1]
      BY <1>3, <1>5
    <3>2. Made(k.key)
      BY <3>1 DEF PoolInv, PoolsDistinct
    <3>3. \A n \in 1 .. Len(issued) : \A l \in issued[n].oneTime : k.key # l.key
      BY <3>1 DEF PoolInv, IssuedGone
    <3>4. ASSUME NEW f \in Device, NEW a \in directory'[f], NEW i \in 1 .. Len(a.oneTime)
          PROVE  a.oneTime[i].key # k.key
      <4>1. PICK b \in directory[f] : \E j \in 1 .. Len(b.oneTime) :
              b.oneTime[j] = a.oneTime[i] /\ j = IF f = e THEN i + 1 ELSE i
        BY <1>10
      <4>2. PICK j \in 1 .. Len(b.oneTime) :
              b.oneTime[j] = a.oneTime[i] /\ j = IF f = e THEN i + 1 ELSE i
        BY <4>1
      <4>3. b.oneTime[j].key = old.oneTime[1].key => f = e /\ j = 1
        BY <3>1 DEF PoolInv, PoolsDistinct
      <4>4. i \in Nat /\ i # 0
        <5>1. i \in Nat
          BY <1>10
        <5>2. QED
          BY <5>1
      <4>5. QED
        BY <3>1, <4>2, <4>3, <4>4
    <3>5. QED
      BY <3>2, <3>3, <3>4
  <2>4. ASSUME NEW n \in 1 .. Len(issued), NEW k \in issued[n].oneTime
        PROVE  /\ Made(k.key)
               /\ \A m \in 1 .. Len(issued) : \A l \in issued[m].oneTime : k.key = l.key => n = m
               /\ \A f \in Device : \A a \in directory'[f] : \A i \in 1 .. Len(a.oneTime) :
                    a.oneTime[i].key # k.key
    <3>1. ASSUME NEW f \in Device, NEW a \in directory'[f], NEW i \in 1 .. Len(a.oneTime)
          PROVE  a.oneTime[i].key # k.key
      <4>1. PICK b \in directory[f] : \E j \in 1 .. Len(b.oneTime) : b.oneTime[j] = a.oneTime[i]
        BY <1>10
      <4>2. PICK j \in 1 .. Len(b.oneTime) : b.oneTime[j] = a.oneTime[i]
        BY <4>1
      <4>3. b.oneTime[j].key # k.key
        BY DEF PoolInv, IssuedGone
      <4>4. QED
        BY <4>2, <4>3
    <3>2. QED
      BY <3>1 DEF PoolInv, IssuedGone
  <2>5. ASSUME NEW n \in 1 .. Len(issued'), NEW k \in issued'[n].oneTime
        PROVE  /\ Made(k.key)
               /\ \A f \in Device : \A a \in directory'[f] : \A i \in 1 .. Len(a.oneTime) :
                    a.oneTime[i].key # k.key
               /\ \A m \in 1 .. Len(issued') : \A l \in issued'[m].oneTime :
                    k.key = l.key => n = m
    <3>1. CASE n \in 1 .. Len(issued) /\ issued'[n] = issued[n]
      BY <2>2, <2>3, <2>4, <3>1
    <3>2. CASE n = Len(issued) + 1 /\ issued'[n] = bundle
      BY <2>2, <2>3, <3>2
    <3>3. QED
      BY <2>2, <3>1, <3>2
  <2>6. QED
    BY <1>9, <2>5 DEF IssuedGone
<1>13. QED
  BY <1>7, <1>11, <1>12 DEF PoolInv

LEMMA ReceiveStep ==
  ASSUME PoolInv, NEW d \in Device, Receive(d)
  PROVE  PoolInv'
<1>1. nextKey \in Nat /\ store \in [Device -> StoreType]
  BY DEF PoolInv, DirectoryShape
<1>2. PICK m \in sent :
        IF \E s \in sessions[d][m.from] : RoutedTo(s, m)
        THEN ReceiveInSession(d, m)
        ELSE Respond(d, m) \/ Refused(d, m)
  BY DEF Receive
<1>3. CASE ReceiveInSession(d, m)
  <2>1. nextKey' \in {nextKey, nextKey + 1} /\ UNCHANGED <<store, directory, issued>>
    BY <1>3 DEF ReceiveInSession, NextKeyAfter
  <2>2. QED
    BY <1>1, <2>1, UntouchedPools
<1>4. CASE Respond(d, m)
  <2>1. PICK p \in m.preamble :
          LET result == Answer(d, p, m) IN
          /\ store' = [store EXCEPT ![d].signed = SharedPairAfterTurn(@),
                                    ![d].oneTime = Consumed(@, p, result.ok)]
          /\ nextKey' \in {nextKey, nextKey + 1}
          /\ UNCHANGED <<directory, issued>>
    BY <1>4 DEF Respond, NextKeyAfter
  <2> DEFINE ok == Answer(d, p, m).ok
  <2>2. store' = [store EXCEPT ![d].signed = SharedPairAfterTurn(@),
                               ![d].oneTime = Consumed(@, p, ok)]
    BY <2>1
  <2> HIDE DEF ok
  <2>3. store[d] \in StoreType
    BY <1>1
  <2>4. SharedPairAfterTurn(store[d].signed) \in [pub : Nat, sec : Secret]
    BY <2>3 DEF StoreType, SharedPairAfterTurn, Secret, Zero
  <2>5. Consumed(store[d].oneTime, p, ok) \in SUBSET OneTime
    BY <2>3 DEF StoreType, Consumed
  <2>6. [store[d] EXCEPT !.signed = SharedPairAfterTurn(@),
                         !.oneTime = Consumed(@, p, ok)] \in StoreType
    BY <2>3, <2>4, <2>5 DEF StoreType
  <2>7. store' \in [Device -> StoreType]
    BY <1>1, <2>2, <2>6
  <2>8. QED
    BY <1>1, <2>1, <2>7, UntouchedPools
<1>5. CASE Refused(d, m)
  <2>1. UNCHANGED <<store, directory, issued, nextKey>>
    BY <1>5 DEF Refused, preKeyVars
  <2>2. QED
    BY <1>1, <2>1, UntouchedPools
<1>6. QED
  BY <1>2, <1>3, <1>4, <1>5

LEMMA InitPoolInv == Init => PoolInv
<1> SUFFICES ASSUME Init PROVE PoolInv
  OBVIOUS
<1>1. /\ issued = <<>> /\ nextKey = 1 /\ directory = [d \in Device |-> {}]
      /\ store = [d \in Device |-> [signed |-> [pub |-> 0, sec |-> 0], oneTime |-> {}, nextId |-> 1]]
  BY DEF Init, PreKeysInit
<1>2. [signed |-> [pub |-> 0, sec |-> 0], oneTime |-> {}, nextId |-> 1] \in StoreType
  BY DEF StoreType, Secret
<1>3. DirectoryShape
  BY <1>1, <1>2 DEF DirectoryShape
<1>4. PoolsDistinct /\ IssuedGone
  BY <1>1 DEF PoolsDistinct, IssuedGone
<1>5. QED
  BY <1>3, <1>4 DEF PoolInv

LEMMA NextKeepsPoolInv == PoolInv /\ [Next]_vars => PoolInv'
<1> SUFFICES ASSUME PoolInv, [Next]_vars PROVE PoolInv'
  OBVIOUS
<1>1. nextKey \in Nat /\ store \in [Device -> StoreType]
  BY DEF PoolInv, DirectoryShape
<1>2. ASSUME NEW d \in Device, Start(d) PROVE PoolInv'
  BY <1>2, StartStep DEF Start
<1>3. ASSUME NEW d \in Device, Receive(d) PROVE PoolInv'
  BY <1>3, ReceiveStep
<1>4. ASSUME NEW d \in Device, SeeCount(d) PROVE PoolInv'
  BY <1>1, <1>4, UntouchedPools DEF SeeCount
<1>5. ASSUME NEW d \in Device, Replenish(d) PROVE PoolInv'
  BY <1>5, ReplenishStep
<1>6. ASSUME NEW d \in Device, NEW e \in Device, Fetch(d, e) PROVE PoolInv'
  BY <1>6, TakeStep DEF Fetch
<1>7. ASSUME NEW d \in Device, NEW e \in Device, Send(d, e) \/ Forget(d, e) PROVE PoolInv'
  <2>1. UNCHANGED <<store, directory, issued, nextKey>>
    BY <1>7 DEF Send, Forget, preKeyVars
  <2>2. QED
    BY <1>1, <2>1, UntouchedPools
<1>8. ASSUME NEW i \in fetching, StartSession(i) PROVE PoolInv'
  <2>1. nextKey' = nextKey + 2 /\ UNCHANGED <<store, directory, issued>>
    BY <1>8 DEF StartSession
  <2>2. QED
    BY <1>1, <2>1, UntouchedPools
<1>9. CASE UNCHANGED vars
  <2>1. UNCHANGED <<store, directory, issued, nextKey>>
    BY <1>9 DEF vars, preKeyVars
  <2>2. QED
    BY <1>1, <2>1, UntouchedPools
<1>10. QED
  BY <1>2, <1>3, <1>4, <1>5, <1>6, <1>7, <1>8, <1>9 DEF Next

LEMMA PoolInvServesOnce == PoolInv => OneTimePreKeysHandedOutOnce
<1> SUFFICES ASSUME PoolInv PROVE OneTimePreKeysHandedOutOnce
  OBVIOUS
<1>1. DOMAIN issued = 1 .. Len(issued)
  BY DEF PoolInv, DirectoryShape
<1>2. ASSUME NEW i \in DOMAIN issued, NEW j \in DOMAIN issued, i # j
      PROVE  issued[i].oneTime \cap issued[j].oneTime = {}
  BY <1>1, <1>2 DEF PoolInv, IssuedGone
<1>3. ASSUME NEW n \in DOMAIN issued, NEW d \in Device
      PROVE  issued[n].oneTime \cap Pooled(d) = {}
  <2>1. SUFFICES ASSUME NEW k \in issued[n].oneTime, k \in Pooled(d) PROVE FALSE
    OBVIOUS
  <2>2. PICK a \in directory[d] : k \in ToSet(a.oneTime)
    BY <2>1 DEF Pooled
  <2>3. a.oneTime \in Seq(OneTime)
    BY DEF PoolInv, DirectoryShape, Account
  <2>4. PICK i \in 1 .. Len(a.oneTime) : k = a.oneTime[i]
    BY <2>2, <2>3 DEF ToSet
  <2>5. QED
    BY <1>1, <2>4 DEF PoolInv, IssuedGone
<1>4. QED
  BY <1>2, <1>3 DEF OneTimePreKeysHandedOutOnce

-----------------------------------------------------------------------------
\* However many devices fetch, start again, run low and top up, in whatever
\* order, the directory hands a one-time prekey to one initiator at most, and
\* an upload never brings one back.
THEOREM PreKeysServeOnce == Spec => []OneTimePreKeysHandedOutOnce
<1>1. Spec => []PoolInv
  BY InitPoolInv, NextKeepsPoolInv, PTL DEF Spec
<1>2. QED
  BY <1>1, PoolInvServesOnce, PTL
-----------------------------------------------------------------------------
(* One-time secrets.                                                       *)

\* A preamble names the one-time keys of a bundle of its addressee.
Named(e, p) ==
  /\ p \in Preamble
  /\ \E n \in 1 .. Len(issued) : issued[n].of = e /\ p.oneTime = Ids(issued[n].oneTime)

SessionFields == {"ratchet", "pending", "establishedBy", "disturbed"}

SessionNames(e, s) == DOMAIN s = SessionFields /\ \A p \in s.pending : Named(e, p)

EnvelopeNames(m) == m.from \in Device /\ \A p \in m.preamble : Named(m.to, p)

\* Every preamble there is, sent, to be sent, or answered.
NamesIssued ==
  /\ fetching \subseteq 1 .. Len(issued)
  /\ DOMAIN sessions = Device
  /\ \A d \in Device : /\ DOMAIN sessions[d] = Device
                       /\ \A e \in Device : \A s \in sessions[d][e] : SessionNames(e, s)
  /\ \A m \in sent : EnvelopeNames(m)
  /\ accepted \in Seq([by : Device, preamble : Preamble])
  /\ \A j \in 1 .. Len(accepted) : Named(accepted[j].by, accepted[j].preamble)

OfDevice(d) == {n \in 1 .. Len(issued) : issued[n].of = d}

\* The one-time keys of d that it holds or that were handed out.
Circulating(d) == store[d].oneTime \cup UNION {issued[n].oneTime : n \in OfDevice(d)}

NotBegun(d) ==
  /\ directory[d] = {} /\ d \notin topUp /\ OfDevice(d) = {}
  /\ \A j \in 1 .. Len(accepted) : accepted[j].by # d

Waits(n) ==
  LET b == issued[n]
  IN  IF Answered(b) THEN b.oneTime \cap store[b.of].oneTime = {}
                     ELSE b.oneTime \subseteq store[b.of].oneTime

\* In its first life a device's ids are different, below the next one, and what
\* it published and nobody took is there.
FirstLife(d) ==
  /\ \A k \in Circulating(d) : k.id < store[d].nextId
  /\ \A k, l \in Circulating(d) : k.id = l.id => k = l
  /\ Pooled(d) \subseteq store[d].oneTime
  /\ \A n \in OfDevice(d) : Waits(n)

Life(d) == (starts[d] = 0 => NotBegun(d)) /\ (starts[d] = 1 => FirstLife(d))

WaitInv ==
  /\ PoolInv
  /\ starts \in [Device -> Nat]
  /\ NamesIssued
  /\ \A d \in Device : Life(d)

-----------------------------------------------------------------------------
(* Preambles.                                                              *)

\* Handing out a bundle, or nothing, leaves what was handed out in its place.
IssuedGrows ==
  /\ issued' \in Seq(Bundle) /\ Len(issued) <= Len(issued')
  /\ \A n \in 1 .. Len(issued) : n \in 1 .. Len(issued') /\ issued'[n] = issued[n]

LEMMA IssuedKept ==
  ASSUME PoolInv, issued' = issued
  PROVE  IssuedGrows
BY DEF PoolInv, DirectoryShape, IssuedGrows

LEMMA NamedStays ==
  ASSUME IssuedGrows, NEW e, NEW p, Named(e, p)
  PROVE  Named(e, p)'
BY DEF IssuedGrows, Named

LEMMA SessionNamesStay ==
  ASSUME IssuedGrows, NEW e, NEW s, SessionNames(e, s)
  PROVE  SessionNames(e, s)'
BY NamedStays DEF SessionNames

Puts(d, e, S) == sessions' = [sessions EXCEPT ![d][e] = S]

LEMMA SessionPut ==
  ASSUME NamesIssued, NEW d \in Device, NEW e \in Device, NEW S, Puts(d, e, S)
  PROVE  /\ DOMAIN sessions' = Device
         /\ \A x \in Device :
              /\ DOMAIN sessions'[x] = Device
              /\ \A y \in Device :
                   sessions'[x][y] = IF x = d /\ y = e THEN S ELSE sessions[x][y]
BY DEF NamesIssued, Puts

AnswersName ==
  /\ accepted' \in Seq([by : Device, preamble : Preamble])
  /\ \A j \in 1 .. Len(accepted') : Named(accepted[j].by, accepted[j].preamble)'

\* A step after which every session, envelope and answer is an old one or
\* names a bundle too.
LEMMA NamesStay ==
  ASSUME NamesIssued, IssuedGrows, fetching' \subseteq 1 .. Len(issued'),
         DOMAIN sessions' = Device,
         \A d \in Device : /\ DOMAIN sessions'[d] = Device
                           /\ \A e \in Device : \A s \in sessions'[d][e] :
                                s \in sessions[d][e] \/ SessionNames(e, s)',
         \A m \in sent' : m \in sent \/ EnvelopeNames(m)',
         accepted' = accepted \/ AnswersName
  PROVE  NamesIssued'
<1>1. \A d \in Device : \A e \in Device : \A s \in sessions'[d][e] : SessionNames(e, s)'
  BY SessionNamesStay DEF NamesIssued
<1>2. \A m \in sent' : EnvelopeNames(m)'
  BY NamedStays DEF NamesIssued, EnvelopeNames
<1>3. AnswersName
  <2>1. CASE accepted' = accepted
    <3>1. \A j \in 1 .. Len(accepted) : Named(accepted[j].by, accepted[j].preamble)
      BY DEF NamesIssued
    <3>2. ASSUME NEW j \in 1 .. Len(accepted') PROVE Named(accepted[j].by, accepted[j].preamble)'
      <4>1. PICK e : e = accepted[j].by
        OBVIOUS
      <4>2. PICK p : p = accepted[j].preamble
        OBVIOUS
      <4>3. Named(e, p)'
        BY <2>1, <3>1, <4>1, <4>2, NamedStays
      <4>4. QED
        BY <2>1, <4>1, <4>2, <4>3 DEF Named
    <3>3. QED
      BY <2>1, <3>2 DEF NamesIssued, AnswersName
  <2>2. QED
    BY <2>1
<1>4. QED
  BY <1>1, <1>2, <1>3 DEF NamesIssued, AnswersName

\* The same with one session put, or dropped.
LEMMA NamesPut ==
  ASSUME NamesIssued, IssuedGrows, fetching' \subseteq 1 .. Len(issued'),
         NEW d \in Device, NEW e \in Device, NEW S, Puts(d, e, S),
         \A s \in S : SessionNames(e, s)',
         \A m \in sent' : m \in sent \/ EnvelopeNames(m)',
         accepted' = accepted \/ AnswersName
  PROVE  NamesIssued'
<1>1. /\ DOMAIN sessions' = Device
      /\ \A x \in Device :
           /\ DOMAIN sessions'[x] = Device
           /\ \A y \in Device :
                sessions'[x][y] = IF x = d /\ y = e THEN S ELSE sessions[x][y]
  BY SessionPut
<1>2. \A x \in Device : \A y \in Device : \A s \in sessions'[x][y] :
        s \in sessions[x][y] \/ SessionNames(y, s)'
  BY <1>1
<1>3. QED
  BY <1>1, <1>2, NamesStay

LEMMA NamesUntouched ==
  ASSUME NamesIssued, IssuedGrows, UNCHANGED <<fetching, sessions, sent, accepted>>
  PROVE  NamesIssued'
<1>1. fetching' \subseteq 1 .. Len(issued')
  BY DEF NamesIssued, IssuedGrows
<1>2. QED
  BY <1>1, NamesStay DEF NamesIssued

LEMMA StartNames ==
  ASSUME WaitInv, NEW d \in Device, Start(d)
  PROVE  NamesIssued'
<1>1. IssuedGrows
  BY IssuedKept DEF WaitInv, Start, StartStore
<1>2. fetching' \subseteq 1 .. Len(issued') /\ sent' = sent /\ accepted' = accepted
  BY DEF WaitInv, NamesIssued, Start, StartStore
<1>3. sessions' = [sessions EXCEPT ![d] = [e \in Device |-> {}]]
  BY DEF Start
<1>4. /\ DOMAIN sessions' = Device
      /\ \A x \in Device : /\ DOMAIN sessions'[x] = Device
                           /\ \A y \in Device : \A s \in sessions'[x][y] : s \in sessions[x][y]
  BY <1>3 DEF WaitInv, NamesIssued
<1>5. NamesIssued
  BY DEF WaitInv
<1>6. QED
  BY <1>1, <1>2, <1>4, <1>5, NamesStay

LEMMA ForgetNames ==
  ASSUME WaitInv, NEW d \in Device, NEW e \in Device, Forget(d, e)
  PROVE  NamesIssued'
<1>1. IssuedGrows
  BY IssuedKept DEF WaitInv, Forget, preKeyVars
<1>2. fetching' = fetching /\ sent' = sent /\ accepted' = accepted /\ issued' = issued
  BY DEF Forget, preKeyVars
<1>3. Puts(d, e, {})
  BY DEF Forget, Puts
<1>4. NamesIssued /\ fetching' \subseteq 1 .. Len(issued')
  BY <1>2 DEF WaitInv, NamesIssued
<1>5. QED
  BY <1>1, <1>2, <1>3, <1>4, NamesPut

\* A bundle is added at the end.
LEMMA TakenLast ==
  ASSUME PoolInv, NEW d \in Device, NEW e \in Device, TakeBundle(d, e)
  PROVE  /\ IssuedGrows
         /\ Len(issued') = Len(issued) + 1 /\ Len(issued) \in Nat
         /\ \E a \in directory[e] :
              /\ issued'[Len(issued')].of = e
              /\ issued'[Len(issued')].oneTime = Front1(a.oneTime)
              /\ directory' = [directory EXCEPT ![e] = {[a EXCEPT !.oneTime = WithoutFirst(@)]}]
<1>1. PICK a \in directory[e] :
        /\ issued' = Append(issued, [by |-> d, of |-> e, signed |-> a.signed,
                                     oneTime |-> Front1(a.oneTime)])
        /\ directory' = [directory EXCEPT ![e] = {[a EXCEPT !.oneTime = WithoutFirst(@)]}]
  BY DEF TakeBundle
<1> DEFINE b == [by |-> d, of |-> e, signed |-> a.signed, oneTime |-> Front1(a.oneTime)]
<1>2. issued \in Seq(Bundle) /\ a \in Account
  BY DEF PoolInv, DirectoryShape
<1>3. Front1(a.oneTime) \subseteq OneTime
  BY <1>2 DEF Front1, Account
<1>4. b \in Bundle /\ b.of = e /\ b.oneTime = Front1(a.oneTime)
  BY <1>2, <1>3 DEF Bundle, Account
<1> HIDE DEF b
<1>5. issued' = Append(issued, b)
  BY <1>1 DEF b
<1>6. /\ issued' \in Seq(Bundle) /\ Len(issued') = Len(issued) + 1 /\ Len(issued) \in Nat
      /\ issued'[Len(issued')] = b
      /\ \A n \in 1 .. Len(issued) : issued'[n] = issued[n]
  BY <1>2, <1>4, <1>5
<1>7. IssuedGrows
  BY <1>6 DEF IssuedGrows
<1>8. QED
  BY <1>1, <1>4, <1>6, <1>7

LEMMA FetchNames ==
  ASSUME WaitInv, NEW d \in Device, NEW e \in Device, Fetch(d, e)
  PROVE  NamesIssued'
<1>1. TakeBundle(d, e) /\ PoolInv /\ NamesIssued
  BY DEF Fetch, WaitInv
<1>2. IssuedGrows /\ Len(issued') = Len(issued) + 1 /\ Len(issued) \in Nat
  BY <1>1, TakenLast
<1>3. /\ fetching' = fetching \cup {Len(issued')}
      /\ sessions' = sessions /\ sent' = sent /\ accepted' = accepted
  BY DEF Fetch
<1>4. fetching' \subseteq 1 .. Len(issued')
  <2>1. fetching \subseteq 1 .. Len(issued)
    BY <1>1 DEF NamesIssued
  <2>2. \A n \in 1 .. Len(issued) : n \in 1 .. Len(issued')
    BY <1>2
  <2>3. Len(issued') \in 1 .. Len(issued')
    BY <1>2
  <2>4. QED
    BY <1>3, <2>1, <2>2, <2>3
<1>5. DOMAIN sessions = Device /\ \A x \in Device : DOMAIN sessions[x] = Device
  BY <1>1 DEF NamesIssued
<1>6. QED
  BY <1>1, <1>2, <1>3, <1>4, <1>5, NamesStay

LEMMA StartSessionNames ==
  ASSUME WaitInv, NEW i \in fetching, StartSession(i)
  PROVE  NamesIssued'
<1>1. NamesIssued /\ IssuedGrows /\ i \in 1 .. Len(issued)
  BY IssuedKept DEF WaitInv, StartSession, NamesIssued
<1>2. PICK b : b = issued[i]
  OBVIOUS
<1>3. PICK s : s = NewSession(b)
  OBVIOUS
<1>4. PICK t : t = [s EXCEPT !.ratchet = AfterEncrypt(@)]
  OBVIOUS
<1>5. PICK m : m = Sealing(b.by, b.of, s)
  OBVIOUS
<1>6. /\ fetching' \subseteq 1 .. Len(issued') /\ accepted' = accepted
      /\ \/ Puts(b.by, b.of, {s}) /\ sent' = sent
         \/ Puts(b.by, b.of, {t}) /\ sent' = sent \cup {m}
  BY <1>1, <1>2, <1>3, <1>4, <1>5 DEF StartSession, NamesIssued, Puts
<1>7. b \in Bundle /\ nextKey \in Nat
  BY <1>1, <1>2 DEF WaitInv, PoolInv, DirectoryShape
<1>8. b.by \in Device /\ b.of \in Device /\ b.oneTime \subseteq OneTime
  BY <1>7 DEF Bundle
<1>9. s.pending = {[ephemeral |-> nextKey, oneTime |-> Ids(b.oneTime)]} /\ DOMAIN s = SessionFields
  BY <1>3 DEF NewSession, SessionFields
<1>10. \A p \in s.pending : Named(b.of, p)
  <2>1. Ids(b.oneTime) \in SUBSET Nat
    BY <1>8 DEF Ids, OneTime
  <2>2. [ephemeral |-> nextKey, oneTime |-> Ids(b.oneTime)] \in Preamble
    BY <1>7, <2>1 DEF Preamble
  <2>3. QED
    BY <1>1, <1>2, <1>9, <2>2 DEF Named
<1>11. /\ t.pending = s.pending /\ DOMAIN t = SessionFields
       /\ m.from = b.by /\ m.to = b.of /\ m.preamble = s.pending
  BY <1>4, <1>5, <1>9 DEF SessionFields, Sealing
<1>12. SessionNames(b.of, s)' /\ SessionNames(b.of, t)' /\ EnvelopeNames(m)'
  <2>1. SessionNames(b.of, s) /\ SessionNames(b.of, t)
    BY <1>9, <1>10, <1>11 DEF SessionNames
  <2>2. QED
    BY <1>1, <1>8, <1>10, <1>11, <2>1, SessionNamesStay, NamedStays DEF EnvelopeNames
<1>13. PICK u : SessionNames(b.of, u)' /\ Puts(b.by, b.of, {u})
  BY <1>6, <1>12
<1>14. \A k \in sent' : k \in sent \/ EnvelopeNames(k)'
  BY <1>6, <1>12
<1>15. QED
  BY <1>1, <1>6, <1>8, <1>13, <1>14, NamesPut

LEMMA SendNames ==
  ASSUME WaitInv, NEW d \in Device, NEW e \in Device, Send(d, e)
  PROVE  NamesIssued'
<1>1. NamesIssued /\ IssuedGrows /\ issued' = issued
  BY IssuedKept DEF WaitInv, Send, preKeyVars
<1>2. PICK s \in sessions[d][e] :
        /\ sent' = sent \cup {Sealing(d, e, s)}
        /\ sessions' = [sessions EXCEPT ![d][e] = {[s EXCEPT !.ratchet = AfterEncrypt(@)]}]
  BY DEF Send
<1>3. fetching' = fetching /\ accepted' = accepted
  BY DEF Send
<1>11. PICK t : t = [s EXCEPT !.ratchet = AfterEncrypt(@)]
  OBVIOUS
<1>4. SessionNames(e, s)
  BY <1>1 DEF NamesIssued
<1>5. t.pending = s.pending /\ DOMAIN t = SessionFields
  BY <1>4, <1>11 DEF SessionNames, SessionFields
<1>6. SessionNames(e, t)'
  <2>1. SessionNames(e, t)
    BY <1>4, <1>5 DEF SessionNames
  <2>2. QED
    BY <1>1, <2>1, SessionNamesStay
<1>7. \A m \in sent' : m \in sent \/ EnvelopeNames(m)'
  <2>1. PICK k : k = Sealing(d, e, s)
    OBVIOUS
  <2>2. k.from = d /\ k.to = e /\ k.preamble = s.pending
    BY <2>1 DEF Sealing
  <2>3. EnvelopeNames(k)'
    BY <1>1, <1>4, <2>2, NamedStays DEF SessionNames, EnvelopeNames
  <2>4. QED
    BY <1>2, <2>1, <2>3
<1>8. fetching' \subseteq 1 .. Len(issued')
  BY <1>1, <1>3 DEF NamesIssued
<1>9. Puts(d, e, {t})
  BY <1>2, <1>11 DEF Puts
<1>10. QED
  BY <1>1, <1>3, <1>6, <1>7, <1>8, <1>9, NamesPut

LEMMA ReceiveNames ==
  ASSUME WaitInv, NEW d \in Device, Receive(d)
  PROVE  NamesIssued'
<1>1. PICK m \in sent :
        /\ IF \E s \in sessions[d][m.from] : RoutedTo(s, m)
           THEN ReceiveInSession(d, m)
           ELSE Respond(d, m) \/ Refused(d, m)
        /\ m.to = d /\ UNCHANGED <<fetching, sent>>
  BY DEF Receive
<1>2. NamesIssued /\ fetching' \subseteq 1 .. Len(issued)
  BY <1>1 DEF WaitInv, NamesIssued
<1>3. m.from \in Device
  BY <1>2 DEF NamesIssued, EnvelopeNames
<1>4. CASE ReceiveInSession(d, m)
  <2>1. IssuedGrows /\ issued' = issued /\ accepted' = accepted
    BY <1>4, IssuedKept DEF WaitInv, ReceiveInSession
  <2>2. PICK s \in sessions[d][m.from] : \E r : \E left \in SUBSET s.pending : \E h :
          Puts(d, m.from, {[s EXCEPT !.ratchet = r, !.pending = left, !.disturbed = h]})
    <3>1. PICK s \in sessions[d][m.from] :
            Puts(d, m.from,
              {[s EXCEPT !.ratchet = InSession(s, m).state,
                         !.pending = IF InSession(s, m).ok /\ m.preamble = {} THEN {} ELSE @,
                         !.disturbed = \/ @ \/ m \in arrived
                            \/ HandshakeOf(m.msg.mk.id) # HandshakeOf(s.ratchet.rootKey)]})
      BY <1>4 DEF ReceiveInSession, Puts
    <3>2. (IF InSession(s, m).ok /\ m.preamble = {} THEN {} ELSE s.pending) \in SUBSET s.pending
      OBVIOUS
    <3>3. QED
      BY <3>1, <3>2
  <2>9. PICK r : \E left \in SUBSET s.pending : \E h :
          Puts(d, m.from, {[s EXCEPT !.ratchet = r, !.pending = left, !.disturbed = h]})
    BY <2>2
  <2>10. PICK left \in SUBSET s.pending : \E h :
          Puts(d, m.from, {[s EXCEPT !.ratchet = r, !.pending = left, !.disturbed = h]})
    BY <2>9
  <2>11. PICK h : Puts(d, m.from, {[s EXCEPT !.ratchet = r, !.pending = left, !.disturbed = h]})
    BY <2>10
  <2>3. PICK t : t = [s EXCEPT !.ratchet = r, !.pending = left, !.disturbed = h]
    OBVIOUS
  <2>4. SessionNames(m.from, s)
    BY <1>2, <1>3 DEF NamesIssued
  <2>5. DOMAIN t = SessionFields /\ t.pending \subseteq s.pending
    BY <2>3, <2>4 DEF SessionNames, SessionFields
  <2>6. SessionNames(m.from, t)'
    <3>1. SessionNames(m.from, t)
      BY <2>4, <2>5 DEF SessionNames
    <3>2. QED
      BY <2>1, <3>1, SessionNamesStay
  <2>7. Puts(d, m.from, {t})
    BY <2>3, <2>11
  <2>8. QED
    BY <1>1, <1>2, <1>3, <2>1, <2>6, <2>7, NamesPut
<1>5. CASE Respond(d, m)
  <2>1. IssuedGrows /\ issued' = issued
    BY <1>5, IssuedKept DEF WaitInv, Respond
  <2>2. PICK p \in m.preamble :
          \/ /\ \E r : Puts(d, m.from, {[ratchet |-> r, pending |-> {},
                                         establishedBy |-> p.ephemeral, disturbed |-> FALSE]})
             /\ accepted' = Append(accepted, [by |-> d, preamble |-> p])
          \/ UNCHANGED <<sessions, accepted>>
    BY <1>5 DEF Respond, Puts
  <2>3. CASE UNCHANGED <<sessions, accepted>>
    BY <1>1, <1>2, <2>1, <2>3, NamesUntouched
  <2>4. CASE /\ \E r : Puts(d, m.from, {[ratchet |-> r, pending |-> {},
                                         establishedBy |-> p.ephemeral, disturbed |-> FALSE]})
             /\ accepted' = Append(accepted, [by |-> d, preamble |-> p])
    <3>1. PICK r : Puts(d, m.from, {[ratchet |-> r, pending |-> {},
                                     establishedBy |-> p.ephemeral, disturbed |-> FALSE]})
      BY <2>4
    <3>2. PICK t : t = [ratchet |-> r, pending |-> {},
                        establishedBy |-> p.ephemeral, disturbed |-> FALSE]
      OBVIOUS
    <3>3. SessionNames(m.from, t)'
      BY <3>2 DEF SessionNames, SessionFields
    <3>4. Puts(d, m.from, {t})
      BY <3>1, <3>2
    <3>5. Named(d, p)
      BY <1>1, <1>2 DEF NamesIssued, EnvelopeNames
    <3>6. AnswersName
      <4> DEFINE answer == [by |-> d, preamble |-> p]
      <4>1. answer \in [by : Device, preamble : Preamble] /\ answer.by = d /\ answer.preamble = p
        BY <3>5 DEF Named
      <4>2. accepted' = Append(accepted, answer)
        BY <2>4
      <4> HIDE DEF answer
      <4>3. /\ accepted \in Seq([by : Device, preamble : Preamble])
            /\ \A j \in 1 .. Len(accepted) : Named(accepted[j].by, accepted[j].preamble)
        BY <1>2 DEF NamesIssued
      <4>4. /\ accepted' \in Seq([by : Device, preamble : Preamble])
            /\ \A j \in 1 .. Len(accepted') :
                 (j \in 1 .. Len(accepted) /\ accepted'[j] = accepted[j]) \/ accepted'[j] = answer
        BY <4>1, <4>2, <4>3
      <4>5. \A j \in 1 .. Len(accepted') : Named(accepted'[j].by, accepted'[j].preamble)
        BY <3>5, <4>1, <4>3, <4>4
      <4>6. \A j \in 1 .. Len(accepted') : Named(accepted[j].by, accepted[j].preamble)'
        BY <2>1, <4>5 DEF Named
      <4>7. QED
        BY <4>4, <4>6 DEF AnswersName
    <3>7. QED
      BY <1>1, <1>2, <1>3, <2>1, <3>3, <3>4, <3>6, NamesPut
  <2>5. QED
    BY <2>2, <2>3, <2>4
<1>6. CASE Refused(d, m)
  <2>1. IssuedGrows /\ UNCHANGED <<sessions, accepted>>
    BY <1>6, IssuedKept DEF WaitInv, Refused, preKeyVars
  <2>2. QED
    BY <1>1, <1>2, <2>1, NamesUntouched
<1>7. QED
  BY <1>1, <1>4, <1>5, <1>6

-----------------------------------------------------------------------------
(* Lives.                                                                  *)

HasAnswered(d, ids) ==
  \E j \in DOMAIN accepted : accepted[j].by = d /\ accepted[j].preamble.oneTime = ids

LEMMA AnsweredIs ==
  ASSUME NEW b
  PROVE  Answered(b) <=> b.oneTime # {} /\ HasAnswered(b.of, Ids(b.oneTime))
BY DEF Answered, HasAnswered

LEMMA PoolPlaces ==
  ASSUME PoolInv, NEW d \in Device, NEW k
  PROVE  k \in Pooled(d) <=> \E a \in directory[d] : \E i \in 1 .. Len(a.oneTime) : k = a.oneTime[i]
<1>1. \A a \in directory[d] : DOMAIN a.oneTime = 1 .. Len(a.oneTime)
  BY DEF PoolInv, DirectoryShape, Account
<1>2. \A a \in directory[d] : k \in ToSet(a.oneTime) <=> \E i \in 1 .. Len(a.oneTime) : k = a.oneTime[i]
  BY <1>1 DEF ToSet
<1>3. QED
  BY <1>2 DEF Pooled

BundlesStay(d) ==
  OfDevice(d)' = OfDevice(d) /\ \A n \in OfDevice(d) : issued'[n] = issued[n]

AnswersStay(d) == \A ids : HasAnswered(d, ids)' <=> HasAnswered(d, ids)

LEMMA AllStays ==
  ASSUME PoolInv, issued' = issued, accepted' = accepted, NEW d
  PROVE  BundlesStay(d) /\ AnswersStay(d)
BY DEF BundlesStay, AnswersStay, OfDevice, HasAnswered

LEMMA LifeStays ==
  ASSUME WaitInv, NEW d \in Device, BundlesStay(d), AnswersStay(d),
         store'[d].oneTime = store[d].oneTime, store'[d].nextId = store[d].nextId,
         starts'[d] = starts[d], directory'[d] = directory[d],
         d \in topUp' => d \in topUp \/ starts[d] # 0,
         NamesIssued'
  PROVE  Life(d)'
<1>1. Life(d)
  BY DEF WaitInv
<1>2. ASSUME starts[d] = 0 PROVE NotBegun(d)'
  <2>1. NotBegun(d)
    BY <1>1, <1>2 DEF Life
  <2>2. OfDevice(d)' = {}
    BY <2>1 DEF BundlesStay, NotBegun
  <2>3. ASSUME NEW j \in 1 .. Len(accepted') PROVE accepted'[j].by # d
    <3>1. DOMAIN accepted' = 1 .. Len(accepted') /\ DOMAIN accepted = 1 .. Len(accepted)
      BY DEF NamesIssued, WaitInv
    <3>2. PICK ids : ids = accepted'[j].preamble.oneTime
      OBVIOUS
    <3>3. ~HasAnswered(d, ids)
      BY <2>1, <3>1 DEF NotBegun, HasAnswered
    <3>4. ~HasAnswered(d, ids)'
      BY <3>3 DEF AnswersStay
    <3>5. QED
      BY <3>1, <3>2, <3>4 DEF HasAnswered
  <2>4. QED
    BY <1>2, <2>1, <2>2, <2>3 DEF NotBegun
<1>3. ASSUME starts[d] = 1 PROVE FirstLife(d)'
  <2>1. FirstLife(d)
    BY <1>1, <1>3 DEF Life
  <2>2. Circulating(d)' = Circulating(d)
    BY DEF BundlesStay, Circulating
  <2>3. Pooled(d)' = Pooled(d)
    BY DEF Pooled
  <2>4. ASSUME NEW n \in OfDevice(d) PROVE Waits(n)'
    <3>1. PICK b : b = issued[n]
      OBVIOUS
    <3>2. issued'[n] = b /\ b.of = d
      BY <3>1 DEF BundlesStay, OfDevice
    <3>3. Answered(b)' <=> Answered(b)
      <4>1. Answered(b) <=> b.oneTime # {} /\ HasAnswered(d, Ids(b.oneTime))
        BY <3>2, AnsweredIs
      <4>2. Answered(b)' <=> b.oneTime # {} /\ HasAnswered(d, Ids(b.oneTime))'
        BY <3>2 DEF Answered, HasAnswered
      <4>3. QED
        BY <4>1, <4>2 DEF AnswersStay
    <3>4. Waits(n)
      BY <2>1 DEF FirstLife
    <3>5. IF Answered(b) THEN b.oneTime \cap store[d].oneTime = {}
                         ELSE b.oneTime \subseteq store[d].oneTime
      BY <3>1, <3>2, <3>4 DEF Waits
    <3>6. IF Answered(b)' THEN b.oneTime \cap store'[d].oneTime = {}
                          ELSE b.oneTime \subseteq store'[d].oneTime
      BY <3>3, <3>5
    <3>7. Answered(issued[n])' <=> Answered(b)'
      BY <3>2 DEF Answered
    <3>8. QED
      BY <3>2, <3>6, <3>7 DEF Waits
  <2>5. QED
    BY <2>1, <2>2, <2>3, <2>4 DEF FirstLife, BundlesStay
<1>4. QED
  BY <1>2, <1>3 DEF Life

\* A step that only moves nextKey, the low marks and what is not of prekeys.
LEMMA LivesStay ==
  ASSUME WaitInv, NamesIssued', UNCHANGED <<starts, store, directory, issued, accepted>>,
         \A d \in topUp' : d \in topUp \/ starts[d] # 0
  PROVE  \A d \in Device : Life(d)'
<1>1. \A d : BundlesStay(d) /\ AnswersStay(d)
  BY AllStays DEF WaitInv
<1>2. QED
  BY <1>1, LifeStays

\* Batches.
LEMMA GeneratedIds ==
  ASSUME NEW id \in Nat, NEW key \in Nat
  PROVE  /\ \A k \in ToSet(Generated(id, key)) : k.id >= id /\ k.id < NextId(id) /\ k.id \in Nat
         /\ \A k, l \in ToSet(Generated(id, key)) : k.id = l.id => k = l
<1>1. DOMAIN Generated(id, key) = 1 .. Batch
  BY DEF Generated
<1>2. \A i \in 1 .. Batch : Generated(id, key)[i] = [id |-> id + i - 1, key |-> key + i - 1]
  BY DEF Generated
<1>3. \A k \in ToSet(Generated(id, key)) :
        \E i \in 1 .. Batch : k = [id |-> id + i - 1, key |-> key + i - 1]
  BY <1>1, <1>2 DEF ToSet
<1>4. \A i \in 1 .. Batch : id + i - 1 >= id /\ id + i - 1 < id + Batch /\ id + i - 1 \in Nat
  BY Pools
<1>5. \A i, j \in 1 .. Batch : id + i - 1 = id + j - 1 => i = j
  BY Pools
<1>6. \A k \in ToSet(Generated(id, key)) : k.id >= id /\ k.id < NextId(id) /\ k.id \in Nat
  BY <1>3, <1>4 DEF NextId
<1>7. ASSUME NEW k \in ToSet(Generated(id, key)), NEW l \in ToSet(Generated(id, key)), k.id = l.id
      PROVE  k = l
  <2>1. PICK i \in 1 .. Batch : k = [id |-> id + i - 1, key |-> key + i - 1]
    BY <1>3
  <2>2. PICK j \in 1 .. Batch : l = [id |-> id + j - 1, key |-> key + j - 1]
    BY <1>3
  <2>3. id + i - 1 = id + j - 1
    BY <1>7, <2>1, <2>2
  <2>4. QED
    BY <1>5, <2>1, <2>2, <2>3
<1>8. QED
  BY <1>6, <1>7

\* What an upload leaves in a pool comes from the pool or the batch.
LEMMA CappedFrom ==
  ASSUME NEW pool \in Seq(OneTime), NEW keys \in Seq(OneTime),
         NEW i \in 1 .. Len(Capped(pool \o keys))
  PROVE  \/ \E j \in 1 .. Len(pool) : Capped(pool \o keys)[i] = pool[j]
         \/ Capped(pool \o keys)[i] \in ToSet(keys)
<1>1. pool \o keys \in Seq(OneTime) /\ Len(pool \o keys) = Len(pool) + Len(keys)
  OBVIOUS
<1>2. i \in 1 .. Len(pool \o keys) /\ Capped(pool \o keys)[i] = (pool \o keys)[i]
  <2>1. /\ Capped(pool \o keys) \in Seq(OneTime)
        /\ Len(Capped(pool \o keys)) <= Len(pool \o keys)
        /\ \A j \in 1 .. Len(Capped(pool \o keys)) : Capped(pool \o keys)[j] = (pool \o keys)[j]
    BY <1>1, CappedPart
  <2>2. QED
    BY <1>1, <2>1
<1>3. CASE i <= Len(pool)
  <2>1. i \in 1 .. Len(pool) /\ (pool \o keys)[i] = pool[i]
    BY <1>1, <1>2, <1>3
  <2>2. QED
    BY <1>2, <2>1
<1>4. CASE ~(i <= Len(pool))
  <2>1. i - Len(pool) \in 1 .. Len(keys) /\ (pool \o keys)[i] = keys[i - Len(pool)]
    BY <1>1, <1>2, <1>4
  <2>2. keys[i - Len(pool)] \in ToSet(keys)
    BY <2>1 DEF ToSet
  <2>3. QED
    BY <1>2, <2>1, <2>2
<1>5. QED
  BY <1>3, <1>4

LEMMA StartLife ==
  ASSUME WaitInv, NEW d \in Device, Start(d), NamesIssued'
  PROVE  \A e \in Device : Life(e)'
<1> DEFINE keys == Generated(1, nextKey + 1)
           fresh == [signed |-> nextKey, oneTime |-> Capped(keys)]
<1>1. /\ starts' = [starts EXCEPT ![d] = @ + 1]
      /\ store' = [store EXCEPT ![d] = FreshStore(nextKey, keys)]
      /\ directory' = [directory EXCEPT ![d] = IF @ = {} THEN {fresh} ELSE @]
      /\ topUp' = topUp \ {d} /\ issued' = issued /\ accepted' = accepted
  BY DEF Start, StartStore
<1>2. /\ PoolInv /\ nextKey \in Nat /\ starts \in [Device -> Nat]
      /\ DOMAIN store = Device /\ DOMAIN directory = Device
  BY DEF WaitInv, PoolInv, DirectoryShape
<1>3. /\ keys \in Seq(OneTime)
      /\ \A k \in ToSet(keys) : k.id < NextId(1)
      /\ \A k, l \in ToSet(keys) : k.id = l.id => k = l
  BY <1>2, GeneratedKeys, GeneratedIds, 1 \in Nat, nextKey + 1 \in Nat
<1> HIDE DEF keys
<1>4. ASSUME NEW e \in Device, e # d PROVE Life(e)'
  <2>1. /\ store'[e] = store[e] /\ starts'[e] = starts[e] /\ directory'[e] = directory[e]
        /\ e \in topUp' => e \in topUp
    BY <1>1, <1>2, <1>4
  <2>2. BundlesStay(e) /\ AnswersStay(e)
    BY <1>1, <1>2, AllStays
  <2>3. QED
    BY <2>1, <2>2, LifeStays
<1>5. Life(d)'
  <2>1. starts'[d] = starts[d] + 1 /\ starts[d] \in Nat
    BY <1>1, <1>2
  <2>2. CASE starts[d] # 0
    <3>1. starts'[d] # 0 /\ starts'[d] # 1
      BY <2>1, <2>2
    <3>2. QED
      BY <3>1 DEF Life
  <2>3. CASE starts[d] = 0
    <3>1. NotBegun(d)
      BY <2>3 DEF WaitInv, Life
    <3>2. OfDevice(d)' = {}
      BY <1>1, <3>1 DEF NotBegun, OfDevice
    <3>3. store'[d].oneTime = ToSet(keys) /\ store'[d].nextId = NextId(1)
      BY <1>1, <1>2 DEF FreshStore
    <3>4. Circulating(d)' = ToSet(keys)
      BY <3>2, <3>3 DEF Circulating
    <3>5. Pooled(d)' \subseteq ToSet(keys)
      <4>1. directory'[d] = {fresh}
        BY <1>1, <1>2, <3>1 DEF NotBegun
      <4>2. Pooled(d)' = ToSet(Capped(keys))
        BY <4>1 DEF Pooled
      <4>3. /\ Capped(keys) \in Seq(OneTime) /\ Len(Capped(keys)) <= Len(keys)
            /\ \A i \in 1 .. Len(Capped(keys)) : Capped(keys)[i] = keys[i]
        BY <1>3, CappedPart
      <4>4. \A i \in 1 .. Len(Capped(keys)) : Capped(keys)[i] \in ToSet(keys)
        BY <1>3, <4>3 DEF ToSet
      <4>5. QED
        BY <4>2, <4>3, <4>4 DEF ToSet
    <3>6. FirstLife(d)'
      BY <1>3, <3>2, <3>3, <3>4, <3>5 DEF FirstLife
    <3>7. QED
      BY <2>1, <2>3, <3>6 DEF Life
  <2>4. QED
    BY <2>2, <2>3
<1>6. QED
  BY <1>4, <1>5

LEMMA IssuedTyped ==
  ASSUME PoolInv
  PROVE  \A n \in 1 .. Len(issued) : issued[n] \in Bundle /\ issued[n].oneTime \subseteq OneTime
<1>1. \A n \in 1 .. Len(issued) : issued[n] \in Bundle
  BY DEF PoolInv, DirectoryShape
<1>2. QED
  BY <1>1 DEF Bundle

\* Nothing is done for a device that has not begun.
LEMMA Begun ==
  ASSUME WaitInv, NEW d \in Device, d \in topUp \/ directory[d] # {}
  PROVE  starts[d] # 0 /\ (starts[d] = 1 => FirstLife(d))
BY DEF WaitInv, Life, NotBegun

LEMMA ReplenishLife ==
  ASSUME WaitInv, NEW d \in Device, Replenish(d), Others, NamesIssued'
  PROVE  \A e \in Device : Life(e)'
<1> DEFINE keys == Generated(store[d].nextId, nextKey)
<1>1. /\ starts' = starts /\ topUp' = topUp \ {d} /\ issued' = issued /\ accepted' = accepted
      /\ store' = [store EXCEPT ![d].oneTime = Added(@, ToSet(keys)), ![d].nextId = NextId(@)]
      /\ directory' = [directory EXCEPT ![d] =
           {[account EXCEPT !.oneTime = Capped(@ \o keys)] : account \in @}]
  BY DEF Replenish, Others
<1>2. /\ PoolInv /\ nextKey \in Nat /\ starts \in [Device -> Nat]
      /\ store \in [Device -> StoreType] /\ DOMAIN directory = Device
      /\ directory[d] \subseteq Account
  BY DEF WaitInv, PoolInv, DirectoryShape
<1>3. /\ store[d].nextId \in Nat /\ store[d].oneTime \subseteq OneTime
      /\ DOMAIN store[d] = {"signed", "oneTime", "nextId"}
  BY <1>2 DEF StoreType
<1>4. /\ keys \in Seq(OneTime)
      /\ \A k \in ToSet(keys) : /\ k.id >= store[d].nextId /\ k.id < NextId(store[d].nextId)
                                /\ k.id \in Nat
      /\ \A k, l \in ToSet(keys) : k.id = l.id => k = l
  BY <1>2, <1>3, GeneratedKeys, GeneratedIds
<1> HIDE DEF keys
<1>5. \A e : BundlesStay(e) /\ AnswersStay(e)
  BY <1>1, <1>2, AllStays
<1>6. ASSUME NEW e \in Device, e # d PROVE Life(e)'
  <2>1. /\ store'[e] = store[e] /\ starts'[e] = starts[e] /\ directory'[e] = directory[e]
        /\ e \in topUp' => e \in topUp
    BY <1>1, <1>2, <1>6
  <2>2. QED
    BY <1>5, <2>1, LifeStays
<1>7. starts[d] # 0 /\ (starts[d] = 1 => FirstLife(d))
  BY Begun DEF Replenish
<1>8. ASSUME starts[d] = 1 PROVE FirstLife(d)'
  <2>1. FirstLife(d)
    BY <1>7, <1>8
  <2>2. \A k \in Circulating(d) : k.id < store[d].nextId
    BY <2>1 DEF FirstLife
  <2>3. store'[d].oneTime = store[d].oneTime \cup ToSet(keys)
    <3>1. store'[d].oneTime = Added(store[d].oneTime, ToSet(keys))
      BY <1>1, <1>2, <1>3
    <3>2. \A k \in store[d].oneTime : k.id < store[d].nextId /\ k.id \in Nat
      BY <1>3, <2>2 DEF Circulating, OneTime
    <3>3. \A k \in store[d].oneTime : k.id \notin Ids(ToSet(keys))
      BY <1>3, <1>4, <3>2 DEF Ids
    <3>4. QED
      BY <3>1, <3>3 DEF Added
  <2>4. store'[d].nextId = NextId(store[d].nextId) /\ store'[d].nextId >= store[d].nextId
        /\ store'[d].nextId \in Nat
    BY <1>1, <1>2, <1>3, Pools DEF NextId
  <2>5. OfDevice(d)' = OfDevice(d) /\ OfDevice(d) \subseteq 1 .. Len(issued)
        /\ \A n \in OfDevice(d) : issued'[n] = issued[n]
    BY <1>5 DEF BundlesStay, OfDevice
  <2>6. Circulating(d)' = Circulating(d) \cup ToSet(keys)
    BY <2>3, <2>5 DEF Circulating
  <2>7. \A k \in Circulating(d) : k.id \in Nat
    <3>1. \A n \in OfDevice(d) : issued[n].oneTime \subseteq OneTime
      BY <1>2, <2>5, IssuedTyped
    <3>2. QED
      BY <1>3, <3>1 DEF Circulating, OneTime
  <2>8. \A k \in Circulating(d)' : k.id < store'[d].nextId
    BY <1>3, <1>4, <2>2, <2>4, <2>6, <2>7
  <2>9. \A k, l \in Circulating(d)' : k.id = l.id => k = l
    <3>1. \A k \in Circulating(d) : \A l \in ToSet(keys) : k.id # l.id
      BY <1>3, <1>4, <2>2, <2>7
    <3>2. \A k, l \in Circulating(d) : k.id = l.id => k = l
      BY <2>1 DEF FirstLife
    <3>3. QED
      BY <1>4, <2>6, <3>1, <3>2
  <2>10. Pooled(d)' \subseteq store'[d].oneTime
    <3>1. SUFFICES ASSUME NEW k \in Pooled(d)' PROVE k \in Pooled(d) \cup ToSet(keys)
      BY <2>1, <2>3 DEF FirstLife
    <3>2. directory'[d] = {[a EXCEPT !.oneTime = Capped(@ \o keys)] : a \in directory[d]}
      BY <1>1, <1>2
    <3>3. PICK a \in directory[d] : k \in ToSet([a EXCEPT !.oneTime = Capped(@ \o keys)].oneTime)
      BY <3>1, <3>2 DEF Pooled
    <3>4. a.oneTime \in Seq(OneTime) /\ [a EXCEPT !.oneTime = Capped(@ \o keys)].oneTime = Capped(a.oneTime \o keys)
      BY <1>2, <3>3 DEF Account
    <3>5. Capped(a.oneTime \o keys) \in Seq(OneTime)
      BY <1>4, <3>4, CappedPart, JoinedPools
    <3>6. PICK i \in 1 .. Len(Capped(a.oneTime \o keys)) : k = Capped(a.oneTime \o keys)[i]
      BY <3>3, <3>4, <3>5 DEF ToSet
    <3>7. (\E j \in 1 .. Len(a.oneTime) : k = a.oneTime[j]) \/ k \in ToSet(keys)
      BY <1>4, <3>4, <3>6, CappedFrom
    <3>8. QED
      BY <1>2, <3>3, <3>7, PoolPlaces
  <2>11. ASSUME NEW n \in OfDevice(d) PROVE Waits(n)'
    <3>1. PICK b : b = issued[n]
      OBVIOUS
    <3>2. b.of = d /\ issued'[n] = b /\ b.oneTime \subseteq Circulating(d)
      BY <2>5, <3>1 DEF OfDevice, Circulating
    <3>3. b.oneTime \cap ToSet(keys) = {}
      BY <1>3, <1>4, <2>2, <2>7, <3>2
    <3>4. IF Answered(b) THEN b.oneTime \cap store[d].oneTime = {}
                         ELSE b.oneTime \subseteq store[d].oneTime
      BY <2>1, <3>1, <3>2 DEF FirstLife, Waits
    <3>5. IF Answered(b) THEN b.oneTime \cap store'[d].oneTime = {}
                         ELSE b.oneTime \subseteq store'[d].oneTime
      BY <2>3, <3>3, <3>4
    <3>6. Answered(issued[n])' <=> Answered(b)
      BY <1>1, <3>1 DEF Answered
    <3>7. QED
      BY <3>2, <3>5, <3>6 DEF Waits
  <2>12. QED
    BY <2>5, <2>8, <2>9, <2>10, <2>11 DEF FirstLife
<1>9. QED
  BY <1>1, <1>6, <1>7, <1>8 DEF Life

LEMMA FetchLife ==
  ASSUME WaitInv, NEW d \in Device, NEW e \in Device, Fetch(d, e), NamesIssued'
  PROVE  \A x \in Device : Life(x)'
<1>1. PoolInv /\ TakeBundle(d, e) /\ NamesIssued
  BY DEF WaitInv, Fetch
<1>2. PICK a \in directory[e] :
        /\ issued'[Len(issued')].of = e
        /\ issued'[Len(issued')].oneTime = Front1(a.oneTime)
        /\ directory' = [directory EXCEPT ![e] = {[a EXCEPT !.oneTime = WithoutFirst(@)]}]
  BY <1>1, TakenLast
<1>3. IssuedGrows /\ Len(issued') = Len(issued) + 1 /\ Len(issued) \in Nat
  BY <1>1, TakenLast
<1>4. UNCHANGED <<starts, store, topUp, accepted>>
  BY DEF Fetch, TakeBundle
<1>5. \A n \in 1 .. Len(issued') : n \in 1 .. Len(issued) \/ n = Len(issued')
  BY <1>3
<1>6. /\ Len(issued') \in 1 .. Len(issued') /\ Len(issued') \notin 1 .. Len(issued)
      /\ \A n \in 1 .. Len(issued) : n \in 1 .. Len(issued') /\ issued'[n] = issued[n]
  BY <1>3 DEF IssuedGrows
<1>7. ASSUME NEW x \in Device, x # e PROVE Life(x)'
  <2>1. OfDevice(x)' = OfDevice(x)
    BY <1>2, <1>5, <1>6, <1>7 DEF OfDevice
  <2>2. BundlesStay(x)
    BY <1>6, <2>1 DEF BundlesStay, OfDevice
  <2>3. AnswersStay(x)
    BY <1>4 DEF AnswersStay, HasAnswered
  <2>4. directory'[x] = directory[x]
    BY <1>1, <1>2, <1>7 DEF PoolInv, DirectoryShape
  <2>5. QED
    BY <1>4, <2>2, <2>3, <2>4, LifeStays
<1>8. starts[e] # 0 /\ (starts[e] = 1 => FirstLife(e))
  BY <1>2, Begun
<1>9. ASSUME starts[e] = 1 PROVE FirstLife(e)'
  <2>1. FirstLife(e)
    BY <1>8, <1>9
  <2>2. a \in Account /\ a.oneTime \in Seq(OneTime)
    BY <1>1, <1>2 DEF PoolInv, DirectoryShape, Account
  <2>3. PICK b : b = issued'[Len(issued')]
    OBVIOUS
  <2>4. b.of = e /\ \A k \in b.oneTime : 1 \in 1 .. Len(a.oneTime) /\ k = a.oneTime[1]
    BY <1>2, <2>2, <2>3 DEF Front1
  <2>5. \A k \in b.oneTime : k \in Pooled(e)
    BY <1>1, <1>2, <2>4, PoolPlaces
  <2>6. b.oneTime \subseteq store[e].oneTime
    BY <2>1, <2>5 DEF FirstLife
  <2>7. OfDevice(e)' = OfDevice(e) \cup {Len(issued')} /\ OfDevice(e) \subseteq 1 .. Len(issued)
    BY <1>2, <1>5, <1>6 DEF OfDevice
  <2>8. Circulating(e)' = Circulating(e)
    <3>1. Circulating(e)' = store'[e].oneTime \cup UNION {issued'[n].oneTime : n \in OfDevice(e)'}
      BY DEF Circulating
    <3>2. \A k : (\E n \in OfDevice(e)' : k \in issued'[n].oneTime)
               <=> (k \in b.oneTime \/ \E n \in OfDevice(e) : k \in issued[n].oneTime)
      BY <1>6, <2>3, <2>7
    <3>3. QED
      BY <1>4, <2>6, <3>1, <3>2 DEF Circulating
  <2>9. Pooled(e)' \subseteq Pooled(e)
    <3>1. SUFFICES ASSUME NEW k \in Pooled(e)' PROVE k \in Pooled(e)
      OBVIOUS
    <3>2. directory'[e] = {[a EXCEPT !.oneTime = WithoutFirst(@)]}
      BY <1>1, <1>2 DEF PoolInv, DirectoryShape
    <3>3. k \in ToSet(WithoutFirst(a.oneTime))
      BY <2>2, <3>1, <3>2 DEF Pooled, Account
    <3>4. PICK i \in DOMAIN WithoutFirst(a.oneTime) : k = WithoutFirst(a.oneTime)[i]
      BY <3>3 DEF ToSet
    <3>5. i + 1 \in 1 .. Len(a.oneTime) /\ k = a.oneTime[i + 1]
      BY <2>2, <3>4 DEF WithoutFirst
    <3>6. QED
      BY <1>1, <1>2, <3>5, PoolPlaces
  <2>10. ~Answered(b)
    <3>1. SUFFICES ASSUME Answered(b) PROVE FALSE
      OBVIOUS
    <3>2. PICK k : k \in b.oneTime
      BY <3>1 DEF Answered
    <3>3. PICK j \in DOMAIN accepted :
            accepted[j].by = e /\ accepted[j].preamble.oneTime = Ids(b.oneTime)
      BY <2>4, <3>1 DEF Answered
    <3>4. Named(e, accepted[j].preamble)
      BY <1>1, <3>3 DEF NamesIssued
    <3>5. PICK n \in 1 .. Len(issued) : issued[n].of = e /\ Ids(b.oneTime) = Ids(issued[n].oneTime)
      BY <3>3, <3>4 DEF Named
    <3>6. k.id \in Ids(issued[n].oneTime)
      BY <3>2, <3>5 DEF Ids
    <3>7. PICK l \in issued[n].oneTime : l.id = k.id
      BY <3>6 DEF Ids
    <3>8. k \in Circulating(e) /\ l \in Circulating(e)
      BY <2>6, <3>2, <3>5, <3>7 DEF Circulating, OfDevice
    <3>9. l = k
      BY <2>1, <3>7, <3>8 DEF FirstLife
    <3>10. a.oneTime[1].key # l.key
      BY <1>1, <1>2, <2>4, <3>2, <3>5, <3>7 DEF PoolInv, IssuedGone
    <3>11. QED
      BY <2>4, <3>2, <3>9, <3>10
  <2>11. ASSUME NEW n \in OfDevice(e)' PROVE Waits(n)'
    <3>1. CASE n = Len(issued')
      <4>1. Answered(issued[n])' <=> Answered(b)
        BY <1>4, <2>3, <3>1 DEF Answered
      <4>2. QED
        BY <1>4, <2>3, <2>4, <2>6, <2>10, <3>1, <4>1 DEF Waits
    <3>2. CASE n \in OfDevice(e)
      <4>1. issued'[n] = issued[n] /\ issued[n].of = e
        BY <1>6, <3>2 DEF OfDevice
      <4>2. Answered(issued[n])' <=> Answered(issued[n])
        BY <1>4, <4>1 DEF Answered
      <4>3. Waits(n)
        BY <2>1, <3>2 DEF FirstLife
      <4>4. QED
        BY <1>4, <4>1, <4>2, <4>3 DEF Waits
    <3>3. QED
      BY <2>7, <3>1, <3>2
  <2>12. QED
    BY <1>4, <2>1, <2>8, <2>9, <2>11 DEF FirstLife
<1>10. QED
  BY <1>4, <1>7, <1>8, <1>9 DEF Life

\* An answer takes exactly the keys of the bundle it answers.
LEMMA AnswerLife ==
  ASSUME WaitInv, NEW d \in Device, NEW p, Named(d, p), starts[d] # 0,
         UNCHANGED <<starts, topUp, directory, issued>>,
         store' = [store EXCEPT ![d].signed = SharedPairAfterTurn(@),
                                ![d].oneTime = {k \in @ : k.id \notin p.oneTime}],
         accepted' = Append(accepted, [by |-> d, preamble |-> p]),
         NamesIssued'
  PROVE  \A e \in Device : Life(e)'
<1> DEFINE answer == [by |-> d, preamble |-> p]
<1>1. /\ PoolInv /\ NamesIssued /\ store \in [Device -> StoreType]
      /\ DOMAIN store[d] = {"signed", "oneTime", "nextId"}
  BY DEF WaitInv, PoolInv, DirectoryShape, StoreType
<1>2. answer.by = d /\ answer.preamble = p
  OBVIOUS
<1>3. accepted' = Append(accepted, answer)
  OBVIOUS
<1> HIDE DEF answer
<1>4. /\ accepted \in Seq([by : Device, preamble : Preamble])
      /\ p \in Preamble
  BY <1>1 DEF NamesIssued, Named
<1>5. /\ \A j \in DOMAIN accepted : j \in DOMAIN accepted' /\ accepted'[j] = accepted[j]
      /\ \A j \in DOMAIN accepted' : j \in DOMAIN accepted \/ accepted'[j] = answer
      /\ \E j \in DOMAIN accepted' : accepted'[j] = answer
  <2>1. /\ DOMAIN accepted = 1 .. Len(accepted) /\ DOMAIN accepted' = 1 .. Len(accepted) + 1
        /\ Len(accepted) \in Nat
        /\ \A j \in 1 .. Len(accepted) : accepted'[j] = accepted[j]
        /\ accepted'[Len(accepted) + 1] = answer
    BY <1>3, <1>4
  <2>2. QED
    BY <2>1
<1>6. \A e, ids : HasAnswered(e, ids)' <=> HasAnswered(e, ids) \/ (e = d /\ ids = p.oneTime)
  BY <1>2, <1>5 DEF HasAnswered
<1>7. ASSUME NEW e \in Device, e # d PROVE Life(e)'
  <2>1. BundlesStay(e) /\ AnswersStay(e)
    BY <1>6, <1>7 DEF BundlesStay, OfDevice, AnswersStay
  <2>2. store'[e] = store[e]
    BY <1>1, <1>7
  <2>3. QED
    BY <2>1, <2>2, LifeStays
<1>8. ASSUME starts[d] = 1 PROVE FirstLife(d)'
  <2>1. FirstLife(d)
    BY <1>8 DEF WaitInv, Life
  <2>2. /\ store'[d].oneTime = {k \in store[d].oneTime : k.id \notin p.oneTime}
        /\ store'[d].nextId = store[d].nextId
    BY <1>1
  <2>3. OfDevice(d)' = OfDevice(d) /\ Pooled(d)' = Pooled(d)
    BY DEF OfDevice, Pooled
  <2>4. Circulating(d)' \subseteq Circulating(d)
    <3>1. Circulating(d)' = store'[d].oneTime \cup UNION {issued[n].oneTime : n \in OfDevice(d)}
      BY <2>3 DEF Circulating
    <3>2. QED
      BY <2>2, <3>1 DEF Circulating
  <2>5. PICK n \in OfDevice(d) : p.oneTime = Ids(issued[n].oneTime)
    BY DEF Named, OfDevice
  \* Whose key has one of these ids is that bundle.
  <2>6. ASSUME NEW k \in Circulating(d), k.id \in p.oneTime PROVE k \in issued[n].oneTime
    <3>1. PICK l \in issued[n].oneTime : l.id = k.id
      BY <2>5, <2>6 DEF Ids
    <3>2. l \in Circulating(d)
      BY <2>5, <3>1 DEF Circulating
    <3>3. QED
      BY <2>1, <2>6, <3>1, <3>2 DEF FirstLife
  <2>7. Pooled(d)' \subseteq store'[d].oneTime
    <3>1. SUFFICES ASSUME NEW k \in Pooled(d) PROVE k \in store'[d].oneTime
      BY <2>3
    <3>2. k \in store[d].oneTime
      BY <2>1 DEF FirstLife
    <3>3. k \notin issued[n].oneTime
      BY <1>1, <2>5, PoolPlaces DEF PoolInv, IssuedGone, OfDevice
    <3>4. QED
      BY <2>2, <2>6, <3>2, <3>3 DEF Circulating
  <2>8. ASSUME NEW m \in OfDevice(d) PROVE Waits(m)'
    <3>1. PICK b : b = issued[m]
      OBVIOUS
    <3>2. b.of = d /\ b.oneTime \subseteq Circulating(d)
      BY <3>1 DEF OfDevice, Circulating
    <3>3. IF Answered(b) THEN b.oneTime \cap store[d].oneTime = {}
                         ELSE b.oneTime \subseteq store[d].oneTime
      BY <2>1, <3>1, <3>2 DEF FirstLife, Waits
    <3>4. Answered(b)' <=> Answered(b) \/ (b.oneTime # {} /\ Ids(b.oneTime) = p.oneTime)
      <4>1. Answered(b)' <=> b.oneTime # {} /\ HasAnswered(d, Ids(b.oneTime))'
        BY <3>2 DEF Answered, HasAnswered
      <4>2. QED
        BY <1>6, <3>2, <4>1, AnsweredIs
    <3>5. IF Answered(b)' THEN b.oneTime \cap store'[d].oneTime = {}
                          ELSE b.oneTime \subseteq store'[d].oneTime
      <4>1. CASE Answered(b)
        BY <2>2, <3>3, <3>4, <4>1
      <4>2. CASE ~Answered(b) /\ b.oneTime # {} /\ Ids(b.oneTime) = p.oneTime
        BY <2>2, <3>4, <4>2 DEF Ids
      <4>3. CASE ~Answered(b) /\ ~(b.oneTime # {} /\ Ids(b.oneTime) = p.oneTime)
        <5>1. \A k \in b.oneTime : k.id \notin p.oneTime
          <6>1. SUFFICES ASSUME NEW k \in b.oneTime, k.id \in p.oneTime PROVE FALSE
            OBVIOUS
          <6>2. k \in issued[n].oneTime
            BY <2>6, <3>2, <6>1
          <6>3. n = m
            BY <1>1, <2>5, <3>1, <6>1, <6>2 DEF PoolInv, IssuedGone, OfDevice
          <6>4. QED
            BY <2>5, <3>1, <4>3, <6>1, <6>3
        <5>2. QED
          BY <2>2, <3>3, <3>4, <4>3, <5>1
      <4>4. QED
        BY <4>1, <4>2, <4>3
    <3>6. Answered(issued[m])' <=> Answered(b)'
      BY <3>1 DEF Answered
    <3>7. QED
      BY <3>1, <3>2, <3>5, <3>6 DEF Waits
  <2>9. QED
    BY <2>1, <2>2, <2>3, <2>4, <2>7, <2>8 DEF FirstLife
<1>9. QED
  BY <1>7, <1>8 DEF Life

LEMMA ReceiveLife ==
  ASSUME WaitInv, NEW d \in Device, Receive(d), NamesIssued'
  PROVE  \A e \in Device : Life(e)'
<1>1. starts[d] # 0
  BY DEF WaitInv, Receive
<1>2. PICK m \in sent :
        /\ m.to = d
        /\ IF \E s \in sessions[d][m.from] : RoutedTo(s, m)
           THEN ReceiveInSession(d, m)
           ELSE Respond(d, m) \/ Refused(d, m)
  BY DEF Receive
<1>3. CASE ReceiveInSession(d, m)
  BY <1>3, LivesStay DEF ReceiveInSession
<1>4. CASE Refused(d, m)
  BY <1>4, LivesStay DEF Refused, preKeyVars
<1>5. CASE Respond(d, m)
  <2>1. PICK p \in m.preamble :
          /\ store' = [store EXCEPT ![d].signed = SharedPairAfterTurn(@),
                                    ![d].oneTime = Consumed(@, p, Answer(d, p, m).ok)]
          /\ IF Answer(d, p, m).ok
             THEN accepted' = Append(accepted, [by |-> d, preamble |-> p])
             ELSE accepted' = accepted
          /\ UNCHANGED <<starts, topUp, directory, issued>>
    BY <1>5 DEF Respond
  <2>2. CASE Answer(d, p, m).ok
    <3>1. Named(d, p)
      BY <1>2 DEF WaitInv, NamesIssued, EnvelopeNames
    <3>2. store' = [store EXCEPT ![d].signed = SharedPairAfterTurn(@),
                                 ![d].oneTime = {k \in @ : k.id \notin p.oneTime}]
      BY <2>1, <2>2 DEF Consumed
    <3>3. QED
      BY <1>1, <2>1, <2>2, <3>1, <3>2, AnswerLife
  <2>3. CASE ~Answer(d, p, m).ok
    <3>1. store' = [store EXCEPT ![d].signed = SharedPairAfterTurn(@), ![d].oneTime = @]
      BY <2>1, <2>3 DEF Consumed
    <3>2. store \in [Device -> StoreType]
      BY DEF WaitInv, PoolInv, DirectoryShape
    <3>3. \A e \in Device : store'[e].oneTime = store[e].oneTime /\ store'[e].nextId = store[e].nextId
      BY <3>1, <3>2 DEF StoreType
    <3>4. \A e : BundlesStay(e) /\ AnswersStay(e)
      BY <2>1, <2>3, AllStays DEF WaitInv
    <3>5. QED
      BY <2>1, <3>3, <3>4, LifeStays
  <2>4. QED
    BY <2>2, <2>3
<1>6. QED
  BY <1>2, <1>3, <1>4, <1>5

LEMMA InitWaits == Init => WaitInv
<1> SUFFICES ASSUME Init PROVE WaitInv
  OBVIOUS
<1>1. /\ starts = [d \in Device |-> 0] /\ directory = [d \in Device |-> {}] /\ topUp = {}
      /\ issued = <<>> /\ fetching = {} /\ sent = {} /\ accepted = <<>>
      /\ sessions = [d \in Device |-> [e \in Device |-> {}]]
  BY DEF Init, PreKeysInit
<1>2. NamesIssued
  BY <1>1 DEF NamesIssued
<1>3. \A d \in Device : Life(d)
  BY <1>1 DEF Life, NotBegun, OfDevice
<1>4. QED
  BY <1>1, <1>2, <1>3, InitPoolInv DEF WaitInv

LEMMA NextKeepsWaiting == WaitInv /\ [Next]_vars => WaitInv'
<1> SUFFICES ASSUME WaitInv, [Next]_vars PROVE WaitInv'
  OBVIOUS
<1>1. PoolInv' /\ PoolInv /\ starts \in [Device -> Nat] /\ NamesIssued
  BY NextKeepsPoolInv DEF WaitInv
<1>2. ASSUME NamesIssued', \A d \in Device : Life(d)', starts' = starts PROVE WaitInv'
  BY <1>1, <1>2 DEF WaitInv
<1>3. ASSUME NEW d \in Device, Start(d) PROVE WaitInv'
  <2>1. starts' \in [Device -> Nat]
    BY <1>1, <1>3 DEF Start, StartStore
  <2>2. QED
    BY <1>1, <1>3, <2>1, StartNames, StartLife DEF WaitInv
<1>4. ASSUME NEW d \in Device, Receive(d) PROVE WaitInv'
  <2>1. starts' = starts
    BY <1>4 DEF Receive, ReceiveInSession, Respond, Refused, preKeyVars
  <2>2. QED
    BY <1>2, <1>4, <2>1, ReceiveNames, ReceiveLife
<1>5. ASSUME NEW d \in Device, SeeCount(d), Others PROVE WaitInv'
  <2>1. UNCHANGED <<starts, store, directory, issued, accepted>>
    BY <1>5 DEF SeeCount, Others
  <2>2. NamesIssued'
    BY <1>1, <1>5, <2>1, IssuedKept, NamesUntouched DEF Others
  <2>3. \A e \in topUp' : e \in topUp \/ starts[e] # 0
    BY <1>1, <1>5 DEF SeeCount
  <2>4. QED
    BY <1>2, <2>1, <2>2, <2>3, LivesStay
<1>6. ASSUME NEW d \in Device, Replenish(d), Others PROVE WaitInv'
  <2>1. issued' = issued /\ starts' = starts
    BY <1>6 DEF Replenish
  <2>2. NamesIssued'
    BY <1>1, <1>6, <2>1, IssuedKept, NamesUntouched DEF Others
  <2>3. QED
    BY <1>2, <1>6, <2>1, <2>2, ReplenishLife
<1>7. ASSUME NEW d \in Device, NEW e \in Device, Fetch(d, e) PROVE WaitInv'
  <2>1. starts' = starts
    BY <1>7 DEF Fetch, TakeBundle
  <2>2. QED
    BY <1>2, <1>7, <2>1, FetchNames, FetchLife
<1>8. ASSUME NEW d \in Device, NEW e \in Device, Send(d, e) \/ Forget(d, e) PROVE WaitInv'
  <2>1. UNCHANGED <<starts, store, topUp, directory, issued, accepted>>
    BY <1>8 DEF Send, Forget, preKeyVars
  <2>2. QED
    BY <1>2, <1>8, <2>1, SendNames, ForgetNames, LivesStay
<1>9. ASSUME NEW i \in fetching, StartSession(i) PROVE WaitInv'
  <2>1. UNCHANGED <<starts, store, topUp, directory, issued, accepted>>
    BY <1>9 DEF StartSession
  <2>2. QED
    BY <1>2, <1>9, <2>1, StartSessionNames, LivesStay
<1>10. CASE UNCHANGED vars
  <2>1. UNCHANGED <<starts, store, topUp, directory, issued, fetching, sessions, sent, accepted>>
    BY <1>10 DEF vars, preKeyVars
  <2>2. NamesIssued'
    BY <1>1, <2>1, IssuedKept, NamesUntouched
  <2>3. QED
    BY <1>2, <2>1, <2>2, LivesStay
<1>11. QED
  BY <1>3, <1>4, <1>5, <1>6, <1>7, <1>8, <1>9, <1>10 DEF Next

-----------------------------------------------------------------------------
\* However devices start, top up, fetch, forget and answer, and whatever fails
\* to open, the secret of a one-time prekey that was handed out stays until the
\* handshake that named it is answered, and is gone from then on.
THEOREM OneTimeSecretsAlwaysWait == Spec => []OneTimeSecretsWait
<1>1. Spec => []WaitInv
  BY InitWaits, NextKeepsWaiting, PTL DEF Spec
<1>2. WaitInv => OneTimeSecretsWait
  <2>1. SUFFICES ASSUME WaitInv, NEW n \in DOMAIN issued, starts[issued[n].of] = 1
        PROVE  Waits(n)
    BY DEF OneTimeSecretsWait, Waits
  <2>2. n \in 1 .. Len(issued) /\ issued[n].of \in Device
    <3>1. PoolInv /\ DOMAIN issued = 1 .. Len(issued)
      BY <2>1 DEF WaitInv, PoolInv, DirectoryShape
    <3>2. QED
      BY <2>1, <3>1, IssuedTyped DEF Bundle
  <2>3. FirstLife(issued[n].of)
    BY <2>1, <2>2 DEF WaitInv, Life
  <2>4. QED
    BY <2>2, <2>3 DEF FirstLife, OfDevice
<1>3. QED
  BY <1>1, <1>2, PTL

-----------------------------------------------------------------------------
(* Handshakes answered once.  The root secret of a handshake holds the     *)
(* responder's signed prekey, and opening its first message wipes that     *)
(* prekey: nobody who is asked again has it.                               *)

SecretOf(d) == store[d].signed.sec

Usable(key) == key \in Nat /\ 0 < key /\ key < nextKey

\* No device's signed prekey, neither now nor later.
OneTimeKey(key) == Usable(key) /\ \A d \in Device : SecretOf(d) # key

KeysApart ==
  /\ nextKey \in Nat /\ 0 < nextKey
  /\ \A d \in Device : SecretOf(d) \in Nat /\ SecretOf(d) < nextKey
  /\ \A d, e \in Device : SecretOf(d) = SecretOf(e) /\ SecretOf(d) # Zero => d = e

AccountKeys(a) == Usable(a.signed) /\ \A i \in 1 .. Len(a.oneTime) : OneTimeKey(a.oneTime[i].key)

BundleKeys(b) == Usable(b.signed) /\ \A k \in b.oneTime : OneTimeKey(k.key)

PublishedKeys ==
  /\ \A d \in Device : \A a \in directory[d] : AccountKeys(a)
  /\ \A n \in 1 .. Len(issued) : BundleKeys(issued[n])

\* As long as a session repeats its preamble, its chain is of that handshake.
SessionRoot(s) ==
  /\ Shaped(s.ratchet)
  /\ s.pending # {} => /\ s.ratchet.rootKey # <<>>
                       /\ HandshakeOf(s.ratchet.sendingChainKey.id) = HandshakeOf(s.ratchet.rootKey)

RootsShaped ==
  /\ \A d, e \in Device : \A s \in sessions[d][e] : SessionRoot(s)
  /\ \A m \in sent : m.msg \in Message

\* The secrets of the handshake with ephemeral key x, as what was sealed, or
\* will be, with its preamble says.
Tagged(x, secrets) ==
  \/ \E m \in sent : \E p \in m.preamble :
       p.ephemeral = x /\ secrets = HandshakeOf(m.msg.mk.id)
  \/ \E d, e \in Device : \E s \in sessions[d][e] : \E p \in s.pending :
       p.ephemeral = x /\ secrets = HandshakeOf(s.ratchet.rootKey)

HasAnsweredTo(x) == \E j \in 1 .. Len(accepted) : accepted[j].preamble.ephemeral = x

\* At most one device could answer, and none once one has.
TagSafe(x, secrets) ==
  /\ x \in Nat /\ x < nextKey
  /\ \A k \in secrets : Usable(k)
  /\ \A d, e \in Device : SecretOf(d) \in secrets /\ SecretOf(e) \in secrets => d = e
  /\ HasAnsweredTo(x) => \A d \in Device : SecretOf(d) \notin secrets

OneRoot ==
  /\ \A x : \A secrets : Tagged(x, secrets) => TagSafe(x, secrets)
  /\ \A x : \A g, h : Tagged(x, g) /\ Tagged(x, h) => g = h
  /\ \A x : HasAnsweredTo(x) => x \in Nat /\ x < nextKey

OnceInv ==
  /\ WaitInv
  /\ KeysApart
  /\ PublishedKeys
  /\ RootsShaped
  /\ OneRoot
  /\ AnsweredOnce

\* What every step does to the signed prekeys: nothing, wipe one, or make one.
SecretsAge ==
  /\ nextKey' \in Nat /\ nextKey <= nextKey'
  /\ \A d \in Device :
       \/ SecretOf(d)' = SecretOf(d)
       \/ SecretOf(d)' = Zero
       \/ SecretOf(d)' \in Nat /\ nextKey <= SecretOf(d)' /\ SecretOf(d)' < nextKey'
  /\ \A d, e \in Device : SecretOf(d)' = SecretOf(e)' /\ nextKey <= SecretOf(d)' => d = e

LEMMA KeysStayApart ==
  ASSUME KeysApart, SecretsAge
  PROVE  KeysApart'
BY DEF KeysApart, SecretsAge, Zero

LEMMA UsableStays ==
  ASSUME KeysApart, SecretsAge, NEW key, Usable(key)
  PROVE  Usable(key)'
BY DEF KeysApart, SecretsAge, Usable

LEMMA OneTimeKeyStays ==
  ASSUME KeysApart, SecretsAge, NEW key, OneTimeKey(key)
  PROVE  OneTimeKey(key)'
<1>1. Usable(key)' /\ Usable(key)
  BY UsableStays DEF OneTimeKey
<1>2. ASSUME NEW d \in Device PROVE SecretOf(d)' # key
  BY <1>1 DEF OneTimeKey, SecretsAge, Usable, KeysApart, Zero
<1>3. QED
  BY <1>1, <1>2 DEF OneTimeKey

LEMMA PublishedStay ==
  ASSUME KeysApart, SecretsAge, PublishedKeys, UNCHANGED <<directory, issued>>
  PROVE  PublishedKeys'
<1>1. ASSUME NEW a, AccountKeys(a) PROVE AccountKeys(a)'
  BY <1>1, UsableStays, OneTimeKeyStays DEF AccountKeys
<1>2. ASSUME NEW b, BundleKeys(b) PROVE BundleKeys(b)'
  BY <1>2, UsableStays, OneTimeKeyStays DEF BundleKeys
<1>3. \A d \in Device : \A a \in directory'[d] : AccountKeys(a)'
  BY <1>1 DEF PublishedKeys
<1>4. ASSUME NEW n \in 1 .. Len(issued') PROVE BundleKeys(issued[n])'
  <2>1. PICK b : b = issued[n]
    OBVIOUS
  <2>2. BundleKeys(b)'
    BY <1>2, <2>1 DEF PublishedKeys
  <2>3. QED
    BY <2>1, <2>2 DEF BundleKeys
<1>5. QED
  BY <1>3, <1>4 DEF PublishedKeys

LEMMA TagStaysSafe ==
  ASSUME KeysApart, SecretsAge, NEW x, NEW secrets, TagSafe(x, secrets), accepted' = accepted
  PROVE  TagSafe(x, secrets)'
<1>1. \A k \in secrets : Usable(k)'
  BY UsableStays DEF TagSafe
<1>2. \A d \in Device : SecretOf(d)' \in secrets => SecretOf(d)' = SecretOf(d)
  BY DEF TagSafe, Usable, SecretsAge, KeysApart, Zero
<1>3. x \in Nat /\ x < nextKey'
  BY DEF TagSafe, SecretsAge, KeysApart
<1>4. HasAnsweredTo(x)' <=> HasAnsweredTo(x)
  BY DEF HasAnsweredTo
<1>5. QED
  BY <1>1, <1>2, <1>3, <1>4 DEF TagSafe

LEMMA AccountKeysStay ==
  ASSUME KeysApart, SecretsAge, NEW a, AccountKeys(a)
  PROVE  AccountKeys(a)'
BY UsableStays, OneTimeKeyStays DEF AccountKeys

LEMMA BundleKeysStay ==
  ASSUME KeysApart, SecretsAge, NEW b, BundleKeys(b)
  PROVE  BundleKeys(b)'
BY UsableStays, OneTimeKeyStays DEF BundleKeys

\* One device publishes, or a bundle is handed out.
LEMMA PublishedPut ==
  ASSUME KeysApart, SecretsAge, PublishedKeys, PoolInv, NEW d \in Device, NEW S,
         directory' = [directory EXCEPT ![d] = S],
         \A a \in S : AccountKeys(a)',
         \A n \in 1 .. Len(issued') : \E b : issued'[n] = b /\ BundleKeys(b)'
  PROVE  PublishedKeys'
<1>1. \A e \in Device : directory'[e] = IF e = d THEN S ELSE directory[e]
  BY DEF PoolInv, DirectoryShape
<1>2. \A e \in Device : \A a \in directory'[e] : AccountKeys(a)'
  BY <1>1, AccountKeysStay DEF PublishedKeys
<1>3. ASSUME NEW n \in 1 .. Len(issued') PROVE BundleKeys(issued[n])'
  <2>1. PICK b : issued'[n] = b /\ BundleKeys(b)'
    OBVIOUS
  <2>2. QED
    BY <2>1 DEF BundleKeys
<1>4. QED
  BY <1>2, <1>3 DEF PublishedKeys

\* The bundles of before, for PublishedPut.
LEMMA BundlesKept ==
  ASSUME KeysApart, SecretsAge, PublishedKeys, issued' = issued
  PROVE  \A n \in 1 .. Len(issued') : \E b : issued'[n] = b /\ BundleKeys(b)'
<1>1. SUFFICES ASSUME NEW n \in 1 .. Len(issued) PROVE \E b : issued[n] = b /\ BundleKeys(b)'
  OBVIOUS
<1>2. PICK b : b = issued[n]
  OBVIOUS
<1>3. BundleKeys(b)'
  BY <1>2, BundleKeysStay DEF PublishedKeys
<1>4. QED
  BY <1>2, <1>3

LEMMA SecretsUntouched ==
  ASSUME KeysApart, nextKey' \in Nat, nextKey <= nextKey',
         \A d \in Device : SecretOf(d)' = SecretOf(d)
  PROVE  SecretsAge
BY DEF KeysApart, SecretsAge

LEMMA StartKeys ==
  ASSUME PoolInv, KeysApart, PublishedKeys, NEW d \in Device, StartStore(d)
  PROVE  SecretsAge /\ PublishedKeys'
<1>1. /\ nextKey \in Nat /\ 0 < nextKey /\ nextKey' = nextKey + 1 + Batch
      /\ nextKey' \in Nat /\ nextKey < nextKey' /\ nextKey + 1 \in Nat /\ 1 \in Nat
  BY Pools DEF KeysApart, StartStore
<1>2. PICK keys \in Seq(OneTime) :
        /\ keys = Generated(1, nextKey + 1) /\ Len(keys) = Batch
        /\ \A i \in 1 .. Batch : keys[i].key = nextKey + 1 + i - 1
  BY <1>1, GeneratedKeys
<1> DEFINE new == [signed |-> nextKey, oneTime |-> Capped(keys)]
<1>3. /\ directory' = [directory EXCEPT ![d] = IF directory[d] = {} THEN {new} ELSE directory[d]]
      /\ store' = [store EXCEPT ![d] = FreshStore(nextKey, keys)]
      /\ issued' = issued /\ store \in [Device -> StoreType]
  BY <1>2 DEF StartStore, PoolInv, DirectoryShape
<1>4. \A e \in Device : SecretOf(e)' = IF e = d THEN nextKey ELSE SecretOf(e)
  BY <1>3 DEF SecretOf, FreshStore
<1>5. SecretsAge
  BY <1>1, <1>4 DEF SecretsAge, KeysApart
<1>6. \A e \in Device : SecretOf(e)' <= nextKey /\ SecretOf(e)' \in Nat
  BY <1>1, <1>4 DEF KeysApart
<1>7. \A key : key \in Nat /\ nextKey <= key /\ key < nextKey' => Usable(key)'
  BY <1>1 DEF Usable
<1>8. \A i \in 1 .. Batch : OneTimeKey(keys[i].key)'
  <2>1. SUFFICES ASSUME NEW i \in 1 .. Batch PROVE OneTimeKey(keys[i].key)'
    OBVIOUS
  <2>2. PICK key : key = keys[i].key
    OBVIOUS
  <2>3. key = nextKey + i /\ i \in Nat /\ 0 < i /\ key \in Nat /\ key < nextKey'
    BY <1>1, <1>2, <2>2, Pools
  <2>4. OneTimeKey(key)'
    BY <1>1, <1>6, <1>7, <2>3 DEF OneTimeKey
  <2>5. QED
    BY <2>2, <2>4
<1>9. PICK a : a = new
  OBVIOUS
<1>10. AccountKeys(a)'
  <2>1. a.signed = nextKey /\ a.oneTime = Capped(keys)
    BY <1>9
  <2>2. Usable(a.signed)'
    BY <1>1, <1>7, <2>1
  <2>3. /\ Capped(keys) \in Seq(OneTime) /\ Len(Capped(keys)) <= Batch
        /\ \A i \in 1 .. Len(Capped(keys)) : Capped(keys)[i] = keys[i]
    BY <1>2, CappedPart
  <2>4. \A i \in 1 .. Len(Capped(keys)) : i \in 1 .. Batch
    BY <2>3, Pools
  <2>5. \A i \in 1 .. Len(a.oneTime) : OneTimeKey(a.oneTime[i].key)'
    BY <1>8, <2>1, <2>3, <2>4
  <2>6. QED
    BY <2>2, <2>5 DEF AccountKeys
<1>11. CASE directory[d] = {}
  <2>1. directory' = [directory EXCEPT ![d] = {a}]
    BY <1>3, <1>9, <1>11
  <2>2. \A b \in {a} : AccountKeys(b)'
    BY <1>10
  <2>3. \A n \in 1 .. Len(issued') : \E b : issued'[n] = b /\ BundleKeys(b)'
    BY <1>3, <1>5, BundlesKept
  <2>4. PublishedKeys'
    BY <1>5, <2>1, <2>2, <2>3, PublishedPut
  <2>5. QED
    BY <1>5, <2>4
<1>12. CASE directory[d] # {}
  <2>1. directory' = directory
    BY <1>3, <1>12 DEF PoolInv, DirectoryShape
  <2>2. QED
    BY <1>3, <1>5, <2>1, PublishedStay
<1>13. QED
  BY <1>11, <1>12

LEMMA JoinedEnd ==
  ASSUME NEW pool \in Seq(OneTime), NEW keys \in Seq(OneTime)
  PROVE  \A i \in Len(pool) + 1 .. Len(pool) + Len(keys) : (pool \o keys)[i] = keys[i - Len(pool)]
  OBVIOUS

LEMMA ReplenishKeys ==
  ASSUME PoolInv, KeysApart, PublishedKeys, NEW d \in Device, Replenish(d)
  PROVE  SecretsAge /\ PublishedKeys'
<1>1. /\ nextKey \in Nat /\ 0 < nextKey /\ nextKey' = nextKey + Batch
      /\ nextKey' \in Nat /\ nextKey <= nextKey'
  BY Pools DEF KeysApart, Replenish
<1>2. /\ store[d] \in StoreType /\ store \in [Device -> StoreType]
  BY DEF PoolInv, DirectoryShape
<1>3. PICK keys \in Seq(OneTime) :
        /\ keys = Generated(store[d].nextId, nextKey) /\ Len(keys) = Batch
        /\ \A i \in 1 .. Batch : keys[i].key = nextKey + i - 1
  <2>1. store[d].nextId \in Nat
    BY <1>2 DEF StoreType
  <2>2. QED
    BY <1>1, <2>1, GeneratedKeys
<1> DEFINE new(a) == [a EXCEPT !.oneTime = Capped(@ \o keys)]
<1>4. /\ directory' = [directory EXCEPT ![d] = {new(a) : a \in directory[d]}]
      /\ store' = [store EXCEPT ![d].oneTime = Added(@, ToSet(keys)), ![d].nextId = NextId(@)]
      /\ issued' = issued
  BY <1>3 DEF Replenish
<1>5. \A e \in Device : SecretOf(e)' = SecretOf(e)
  BY <1>2, <1>4 DEF SecretOf, StoreType
<1>6. SecretsAge
  BY <1>1, <1>5, SecretsUntouched
<1>7. ASSUME NEW i \in 1 .. Batch PROVE OneTimeKey(keys[i].key)'
  <2>1. PICK key : key = keys[i].key
    OBVIOUS
  <2>2. key \in Nat /\ nextKey <= key /\ key < nextKey'
    BY <1>1, <1>3, <2>1, Pools
  <2>3. OneTimeKey(key)'
    BY <1>1, <1>5, <2>2 DEF OneTimeKey, Usable, KeysApart
  <2>4. QED
    BY <2>1, <2>3
<1>8. ASSUME NEW a \in directory[d] PROVE AccountKeys(new(a))'
  <2>1. a \in Account /\ a.oneTime \in Seq(OneTime) /\ Len(a.oneTime) \in Nat
    BY DEF PoolInv, DirectoryShape, Account
  <2>2. AccountKeys(a)'
    BY <1>6, AccountKeysStay DEF PublishedKeys
  <2>3. PICK pool \in Seq(OneTime) : pool = a.oneTime \o keys
    BY <1>3, <2>1, JoinedPools
  <2>4. /\ Len(pool) = Len(a.oneTime) + Batch
        /\ \A i \in 1 .. Len(a.oneTime) : pool[i] = a.oneTime[i]
        /\ \A i \in Len(a.oneTime) + 1 .. Len(pool) : pool[i] = keys[i - Len(a.oneTime)]
    <3> DEFINE joined == a.oneTime \o keys
    <3>1. Len(joined) = Len(a.oneTime) + Batch
      BY <1>3, <2>1, JoinedPools
    <3>2. \A i \in 1 .. Len(a.oneTime) : joined[i] = a.oneTime[i]
      BY <1>3, <2>1, JoinedPools
    <3>3. \A i \in Len(a.oneTime) + 1 .. Len(joined) : joined[i] = keys[i - Len(a.oneTime)]
      BY <1>3, <2>1, <3>1, JoinedEnd
    <3> HIDE DEF joined
    <3>4. pool = joined
      BY <2>3 DEF joined
    <3>5. QED
      BY <3>1, <3>2, <3>3, <3>4
  <2>5. ASSUME NEW i \in 1 .. Len(pool) PROVE OneTimeKey(pool[i].key)'
    <3>1. CASE i \in 1 .. Len(a.oneTime)
      BY <2>2, <2>4, <3>1 DEF AccountKeys
    <3>2. CASE i \notin 1 .. Len(a.oneTime)
      <4>1. i \in Len(a.oneTime) + 1 .. Len(pool) /\ i - Len(a.oneTime) \in 1 .. Batch
        BY <2>1, <2>4, <3>2, Pools
      <4>2. QED
        BY <1>7, <2>4, <4>1
    <3>3. QED
      BY <3>1, <3>2
  <2>6. /\ Len(Capped(pool)) <= Len(pool) /\ Capped(pool) \in Seq(OneTime)
        /\ \A i \in 1 .. Len(Capped(pool)) : Capped(pool)[i] = pool[i]
    BY CappedPart
  <2>7. \A i \in 1 .. Len(Capped(pool)) : i \in 1 .. Len(pool)
    BY <2>6
  <2>8. PICK b : b = new(a)
    OBVIOUS
  <2>9. b.signed = a.signed /\ b.oneTime = Capped(pool)
    BY <2>1, <2>3, <2>8 DEF Account
  <2>10. AccountKeys(b)'
    BY <2>2, <2>5, <2>6, <2>7, <2>9 DEF AccountKeys
  <2>11. QED
    BY <2>8, <2>10
<1>9. PICK S : S = {new(a) : a \in directory[d]}
  OBVIOUS
<1>10. \A b \in S : AccountKeys(b)'
  <2>1. ASSUME NEW a \in directory[d], NEW b, b = new(a) PROVE AccountKeys(b)'
    BY <1>8, <2>1
  <2> HIDE DEF new
  <2>2. QED
    BY <1>9, <2>1
<1>11. \A n \in 1 .. Len(issued') : \E b : issued'[n] = b /\ BundleKeys(b)'
  BY <1>4, <1>6, BundlesKept
<1>12. directory' = [directory EXCEPT ![d] = S]
  BY <1>4, <1>9
<1>13. QED
  BY <1>6, <1>10, <1>11, <1>12, PublishedPut

LEMMA TakeKeys ==
  ASSUME PoolInv, KeysApart, PublishedKeys, NEW d \in Device, NEW e \in Device, TakeBundle(d, e)
  PROVE  SecretsAge /\ PublishedKeys'
<1>1. PICK a \in directory[e] :
        /\ issued' = Append(issued, [by |-> d, of |-> e, signed |-> a.signed,
                                     oneTime |-> Front1(a.oneTime)])
        /\ directory' = [directory EXCEPT ![e] = {[a EXCEPT !.oneTime = WithoutFirst(@)]}]
        /\ store' = store /\ nextKey' = nextKey
  BY DEF TakeBundle
<1>2. SecretsAge
  BY <1>1, SecretsUntouched DEF SecretOf, KeysApart
<1>3. a \in Account /\ a.oneTime \in Seq(OneTime)
  BY DEF PoolInv, DirectoryShape, Account
<1>4. AccountKeys(a)'
  BY <1>2, AccountKeysStay DEF PublishedKeys
<1>5. PICK left : left = [a EXCEPT !.oneTime = WithoutFirst(@)]
  OBVIOUS
<1>6. left.signed = a.signed /\ left.oneTime = WithoutFirst(a.oneTime)
  BY <1>3, <1>5 DEF Account
<1>7. AccountKeys(left)'
  <2>1. ASSUME NEW i \in 1 .. Len(left.oneTime) PROVE OneTimeKey(left.oneTime[i].key)'
    <3>1. i + 1 \in 1 .. Len(a.oneTime) /\ left.oneTime[i] = a.oneTime[i + 1]
      BY <1>3, <1>6 DEF WithoutFirst
    <3>2. QED
      BY <1>4, <3>1 DEF AccountKeys
  <2>2. QED
    BY <1>4, <1>6, <2>1 DEF AccountKeys
<1>8. PICK b : b = [by |-> d, of |-> e, signed |-> a.signed, oneTime |-> Front1(a.oneTime)]
  OBVIOUS
<1>9. BundleKeys(b)'
  <2>1. \A k \in b.oneTime : 1 \in 1 .. Len(a.oneTime) /\ k = a.oneTime[1]
    BY <1>3, <1>8 DEF Front1
  <2>2. QED
    BY <1>4, <1>8, <2>1 DEF AccountKeys, BundleKeys
<1>10. \A n \in 1 .. Len(issued') : \E c : issued'[n] = c /\ BundleKeys(c)'
  <2>1. SUFFICES ASSUME NEW n \in 1 .. Len(issued') PROVE \E c : issued'[n] = c /\ BundleKeys(c)'
    OBVIOUS
  <2>2. issued \in Seq(Bundle) /\ issued' = Append(issued, b)
    BY <1>1, <1>8 DEF PoolInv, DirectoryShape
  <2>3. \/ n \in 1 .. Len(issued) /\ issued'[n] = issued[n]
        \/ issued'[n] = b
    BY <2>2
  <2>4. CASE n \in 1 .. Len(issued) /\ issued'[n] = issued[n]
    <3>1. PICK c : c = issued[n]
      OBVIOUS
    <3>2. BundleKeys(c)'
      BY <1>2, <2>4, <3>1, BundleKeysStay DEF PublishedKeys
    <3>3. QED
      BY <2>4, <3>1, <3>2
  <2>5. QED
    BY <1>9, <2>3, <2>4
<1>11. \A c \in {left} : AccountKeys(c)'
  BY <1>7
<1>12. directory' = [directory EXCEPT ![e] = {left}]
  BY <1>1, <1>5
<1>13. QED
  BY <1>2, <1>10, <1>11, <1>12, PublishedPut

-----------------------------------------------------------------------------
(* Tags.                                                                   *)

\* Of this session, or of this message.
SessionTag(s, x, secrets) ==
  \E p \in s.pending : p.ephemeral = x /\ secrets = HandshakeOf(s.ratchet.rootKey)

MessageTag(m, x, secrets) ==
  \E p \in m.preamble : p.ephemeral = x /\ secrets = HandshakeOf(m.msg.mk.id)

LEMMA TaggedIs ==
  ASSUME NEW x, NEW secrets
  PROVE  /\ Tagged(x, secrets) <=>
              \/ \E m \in sent : MessageTag(m, x, secrets)
              \/ \E d, e \in Device : \E s \in sessions[d][e] : SessionTag(s, x, secrets)
         /\ Tagged(x, secrets)' <=>
              \/ \E m \in sent' : MessageTag(m, x, secrets)
              \/ \E d, e \in Device : \E s \in sessions'[d][e] : SessionTag(s, x, secrets)
BY DEF Tagged, MessageTag, SessionTag

\* Sessions and messages of before, and none else.
TagsKept ==
  /\ RootsShaped'
  /\ \A x : \A secrets : Tagged(x, secrets)' => Tagged(x, secrets)

LEMMA SessionsKept ==
  ASSUME RootsShaped, sent' = sent,
         \A d, e \in Device : sessions'[d][e] \subseteq sessions[d][e]
  PROVE  TagsKept
<1>1. RootsShaped'
  BY DEF RootsShaped
<1>2. ASSUME NEW x, NEW secrets, Tagged(x, secrets)' PROVE Tagged(x, secrets)
  BY <1>2, TaggedIs
<1>3. QED
  BY <1>1, <1>2 DEF TagsKept

\* One session put, and perhaps messages sent, with the tags there were and
\* those of T.
LEMMA TagsPut ==
  ASSUME NamesIssued, RootsShaped, NEW d \in Device, NEW e \in Device, NEW t, NEW T,
         Puts(d, e, {t}), SessionRoot(t),
         \A x : \A g : SessionTag(t, x, g) => Tagged(x, g) \/ <<x, g>> \in T,
         \A m \in sent' :
           \/ m \in sent
           \/ /\ m.msg \in Message
              /\ \A x : \A g : MessageTag(m, x, g) => Tagged(x, g) \/ <<x, g>> \in T
  PROVE  /\ RootsShaped'
         /\ \A x : \A g : Tagged(x, g)' => Tagged(x, g) \/ <<x, g>> \in T
<1>1. \A x \in Device : \A y \in Device :
        sessions'[x][y] = IF x = d /\ y = e THEN {t} ELSE sessions[x][y]
  BY SessionPut
<1>2. RootsShaped'
  <2>1. \A x, y \in Device : \A s \in sessions'[x][y] : SessionRoot(s)
    BY <1>1 DEF RootsShaped
  <2>2. \A m \in sent' : m.msg \in Message
    BY DEF RootsShaped
  <2>3. QED
    BY <2>1, <2>2 DEF RootsShaped
<1>3. ASSUME NEW x, NEW g, Tagged(x, g)' PROVE Tagged(x, g) \/ <<x, g>> \in T
  <2>1. \/ \E m \in sent' : MessageTag(m, x, g)
        \/ \E y, z \in Device : \E s \in sessions'[y][z] : SessionTag(s, x, g)
    BY <1>3, TaggedIs
  <2>2. ASSUME NEW m \in sent', MessageTag(m, x, g) PROVE Tagged(x, g) \/ <<x, g>> \in T
    BY <2>2, TaggedIs
  <2>3. ASSUME NEW y \in Device, NEW z \in Device, NEW s \in sessions'[y][z], SessionTag(s, x, g)
        PROVE  Tagged(x, g) \/ <<x, g>> \in T
    <3>1. s = t \/ s \in sessions[y][z]
      BY <1>1
    <3>2. QED
      BY <2>3, <3>1, TaggedIs
  <2>4. QED
    BY <2>1, <2>2, <2>3
<1>4. QED
  BY <1>2, <1>3

LEMMA TagsPutKept ==
  ASSUME NamesIssued, RootsShaped, NEW d \in Device, NEW e \in Device, NEW t,
         Puts(d, e, {t}), SessionRoot(t),
         \A x : \A g : SessionTag(t, x, g) => Tagged(x, g),
         \A m \in sent' :
           \/ m \in sent
           \/ /\ m.msg \in Message
              /\ \A x : \A g : MessageTag(m, x, g) => Tagged(x, g)
  PROVE  TagsKept
<1>1. PICK T : T = {}
  OBVIOUS
<1>2. \A x : \A g : SessionTag(t, x, g) => Tagged(x, g) \/ <<x, g>> \in T
  OBVIOUS
<1>3. \A m \in sent' :
        \/ m \in sent
        \/ /\ m.msg \in Message
           /\ \A x : \A g : MessageTag(m, x, g) => Tagged(x, g) \/ <<x, g>> \in T
  OBVIOUS
<1>4. /\ RootsShaped'
      /\ \A x : \A g : Tagged(x, g)' => Tagged(x, g) \/ <<x, g>> \in T
  BY <1>2, <1>3, TagsPut
<1>5. QED
  BY <1>1, <1>4 DEF TagsKept

\* Where no answer is given and no tag made, nothing becomes unsafe.
LEMMA OneRootStays ==
  ASSUME KeysApart, SecretsAge, OneRoot, TagsKept, accepted' = accepted
  PROVE  OneRoot'
<1>1. ASSUME NEW x, NEW g, Tagged(x, g)' PROVE TagSafe(x, g)'
  BY <1>1, TagStaysSafe DEF OneRoot, TagsKept
<1>2. \A x : \A g, h : Tagged(x, g)' /\ Tagged(x, h)' => g = h
  BY DEF OneRoot, TagsKept
<1>3. \A x : HasAnsweredTo(x)' => x \in Nat /\ x < nextKey'
  <2>1. \A x : HasAnsweredTo(x)' => HasAnsweredTo(x)
    BY DEF HasAnsweredTo
  <2>2. \A x : HasAnsweredTo(x) => x \in Nat /\ x < nextKey
    BY DEF OneRoot
  <2>3. nextKey \in Nat /\ nextKey' \in Nat /\ nextKey <= nextKey'
    BY DEF KeysApart, SecretsAge
  <2>4. QED
    BY <2>1, <2>2, <2>3
<1>4. QED
  BY <1>1, <1>2, <1>3 DEF OneRoot

LEMMA OnceStays ==
  ASSUME OnceInv, WaitInv', SecretsAge, PublishedKeys', TagsKept, accepted' = accepted
  PROVE  OnceInv'
<1>1. KeysApart' /\ OneRoot'
  BY KeysStayApart, OneRootStays DEF OnceInv
<1>2. RootsShaped'
  BY DEF TagsKept
<1>3. AnsweredOnce'
  BY DEF OnceInv, AnsweredOnce
<1>4. QED
  BY <1>1, <1>2, <1>3 DEF OnceInv

\* Where no key pair changes hands.
LEMMA OnceStaysQuiet ==
  ASSUME OnceInv, WaitInv', nextKey' \in Nat, nextKey <= nextKey', store' = store,
         UNCHANGED <<directory, issued, accepted>>, TagsKept
  PROVE  OnceInv'
<1>1. KeysApart /\ PublishedKeys
  BY DEF OnceInv
<1>2. SecretsAge
  BY <1>1, SecretsUntouched DEF SecretOf
<1>3. QED
  BY <1>1, <1>2, PublishedStay, OnceStays

\* What a session seals carries its tag, and sealing changes no tag.
LEMMA SealingTag ==
  ASSUME NEW d, NEW e, NEW s, DOMAIN s = SessionFields, SessionRoot(s),
         NEW m, m = Sealing(d, e, s), NEW t, t = [s EXCEPT !.ratchet = AfterEncrypt(@)]
  PROVE  /\ m.msg \in Message
         /\ \A x : \A g : MessageTag(m, x, g) => SessionTag(s, x, g)
         /\ SessionRoot(t)
         /\ \A x : \A g : SessionTag(t, x, g) => SessionTag(s, x, g)
<1>1. Shaped(s.ratchet)
  BY DEF SessionRoot
<1>2. m.preamble = s.pending /\ m.msg = Sealed(s.ratchet)
  BY DEF Sealing
<1>3. m.msg \in Message /\ m.msg.mk = s.ratchet.sendingChainKey
  BY <1>1, <1>2, SealedMessage
<1>4. t.ratchet = AfterEncrypt(s.ratchet) /\ t.pending = s.pending
  BY DEF SessionFields
<1>5. /\ Shaped(t.ratchet) /\ t.ratchet.rootKey = s.ratchet.rootKey
      /\ t.ratchet.sendingChainKey.id = s.ratchet.sendingChainKey.id
  BY <1>1, <1>4, EncryptKeepsRoot
<1>6. ASSUME NEW x, NEW g, MessageTag(m, x, g) PROVE SessionTag(s, x, g)
  BY <1>2, <1>3, <1>6 DEF MessageTag, SessionTag, SessionRoot
<1>7. SessionRoot(t)
  BY <1>4, <1>5 DEF SessionRoot
<1>8. ASSUME NEW x, NEW g, SessionTag(t, x, g) PROVE SessionTag(s, x, g)
  BY <1>4, <1>5, <1>8 DEF SessionTag
<1>9. QED
  BY <1>3, <1>6, <1>7, <1>8

\* Receiving may turn the ratchet, and keeps what it was rooted in.
LEMMA DecryptTag ==
  ASSUME NEW s, SessionRoot(s), NEW m \in Message, NEW fresh \in Nat,
         NEW t, t.ratchet = RatchetDecrypt(s.ratchet, m, fresh).state, t.pending \subseteq s.pending
  PROVE  /\ SessionRoot(t)
         /\ \A x : \A g : SessionTag(t, x, g) => SessionTag(s, x, g)
<1>1. PICK u : u = t.ratchet
  OBVIOUS
<1>2. PICK r : r = s.ratchet
  OBVIOUS
<1>3. Shaped(r) /\ fresh \in Key
  BY <1>2 DEF SessionRoot, Key
<1>4. SameSending(r, u) \/ FreshSending(r, u, m.key, fresh)
  <2>1. u = RatchetDecrypt(r, m, fresh).state
    BY <1>1, <1>2
  <2>2. QED
    BY <1>3, <2>1, DecryptSending
<1>5. Shaped(u)
  BY <1>4 DEF SameSending, FreshSending
<1>6. ASSUME t.pending # {}
      PROVE  /\ u.rootKey # <<>> /\ HandshakeOf(u.rootKey) = HandshakeOf(r.rootKey)
             /\ HandshakeOf(u.sendingChainKey.id) = HandshakeOf(u.rootKey)
  <2>1. /\ r.rootKey # <<>> /\ r.rootKey \in Seq(Output)
        /\ HandshakeOf(r.sendingChainKey.id) = HandshakeOf(r.rootKey)
    BY <1>2, <1>3, <1>6 DEF SessionRoot, Shaped
  <2>2. 1 \in 1 .. Len(r.rootKey)
    BY <2>1
  <2>3. CASE SameSending(r, u)
    BY <2>1, <2>3 DEF SameSending
  <2>4. CASE FreshSending(r, u, m.key, fresh)
    BY <2>2, <2>4 DEF FreshSending, HandshakeOf
  <2>5. QED
    BY <1>4, <2>3, <2>4
<1>7. SessionRoot(t)
  BY <1>1, <1>5, <1>6 DEF SessionRoot
<1>8. ASSUME NEW x, NEW g, SessionTag(t, x, g) PROVE SessionTag(s, x, g)
  BY <1>1, <1>2, <1>6, <1>8 DEF SessionTag
<1>9. QED
  BY <1>7, <1>8

-----------------------------------------------------------------------------
(* The steps that answer nothing.                                          *)

LEMMA SendOnce ==
  ASSUME OnceInv, WaitInv', NEW d \in Device, NEW e \in Device, Send(d, e)
  PROVE  OnceInv'
<1>1. NamesIssued /\ RootsShaped /\ nextKey \in Nat
  BY DEF OnceInv, WaitInv, KeysApart
<1>2. PICK s \in sessions[d][e] :
        /\ sent' = sent \cup {Sealing(d, e, s)}
        /\ sessions' = [sessions EXCEPT ![d][e] = {[s EXCEPT !.ratchet = AfterEncrypt(@)]}]
  BY DEF Send
<1>3. UNCHANGED <<store, directory, issued, nextKey, accepted>>
  BY DEF Send, preKeyVars
<1>4. PICK t : t = [s EXCEPT !.ratchet = AfterEncrypt(@)]
  OBVIOUS
<1>5. PICK m : m = Sealing(d, e, s)
  OBVIOUS
<1>6. DOMAIN s = SessionFields /\ SessionRoot(s)
  BY <1>1 DEF NamesIssued, SessionNames, RootsShaped
<1>7. /\ m.msg \in Message
      /\ \A x : \A g : MessageTag(m, x, g) => SessionTag(s, x, g)
      /\ SessionRoot(t)
      /\ \A x : \A g : SessionTag(t, x, g) => SessionTag(s, x, g)
  BY <1>4, <1>5, <1>6, SealingTag
<1>8. \A x : \A g : SessionTag(s, x, g) => Tagged(x, g)
  BY <1>2, TaggedIs
<1>9. Puts(d, e, {t})
  BY <1>2, <1>4 DEF Puts
<1>10. \A k \in sent' :
         \/ k \in sent
         \/ /\ k.msg \in Message
            /\ \A x : \A g : MessageTag(k, x, g) => Tagged(x, g)
  BY <1>2, <1>5, <1>7, <1>8
<1>11. \A x : \A g : SessionTag(t, x, g) => Tagged(x, g)
  BY <1>7, <1>8
<1>12. TagsKept
  BY <1>1, <1>7, <1>9, <1>10, <1>11, TagsPutKept
<1>13. QED
  BY <1>1, <1>3, <1>12, OnceStaysQuiet

LEMMA NextKeyGrows ==
  ASSUME nextKey \in Nat, NEW result
  PROVE  NextKeyAfter(result) \in Nat /\ nextKey <= NextKeyAfter(result)
<1>1. NextKeyAfter(result) = nextKey + 1 \/ NextKeyAfter(result) = nextKey
  BY Zenon DEF NextKeyAfter
<1>2. QED
  BY <1>1

LEMMA ReceiveInSessionOnce ==
  ASSUME OnceInv, WaitInv', NEW d \in Device, NEW m \in sent, ReceiveInSession(d, m), sent' = sent
  PROVE  OnceInv'
<1>1. NamesIssued /\ RootsShaped /\ nextKey \in Nat
  BY DEF OnceInv, WaitInv, KeysApart
<1>2. m.from \in Device /\ m.msg \in Message
  BY <1>1 DEF NamesIssued, EnvelopeNames, RootsShaped
<1>3. PICK s \in sessions[d][m.from] :
        /\ Puts(d, m.from,
              {[s EXCEPT !.ratchet = InSession(s, m).state,
                         !.pending = IF InSession(s, m).ok /\ m.preamble = {} THEN {} ELSE @,
                         !.disturbed = \/ @ \/ m \in arrived
                            \/ HandshakeOf(m.msg.mk.id) # HandshakeOf(s.ratchet.rootKey)]})
        /\ nextKey' = NextKeyAfter(InSession(s, m))
  BY DEF ReceiveInSession, Puts
<1>4. UNCHANGED <<store, directory, issued, accepted>>
  BY DEF ReceiveInSession
<1>5. DOMAIN s = SessionFields /\ SessionRoot(s)
  BY <1>1, <1>2 DEF NamesIssued, SessionNames, RootsShaped
<1>6. PICK t : t = [s EXCEPT !.ratchet = InSession(s, m).state,
                             !.pending = IF InSession(s, m).ok /\ m.preamble = {} THEN {} ELSE @,
                             !.disturbed = \/ @ \/ m \in arrived
                                \/ HandshakeOf(m.msg.mk.id) # HandshakeOf(s.ratchet.rootKey)]
  OBVIOUS
<1>7. t.ratchet = InSession(s, m).state /\ t.pending \subseteq s.pending
  BY <1>5, <1>6 DEF SessionFields
<1>8. t.ratchet = RatchetDecrypt(s.ratchet, m.msg, nextKey).state
  BY <1>7 DEF InSession
<1>9. /\ SessionRoot(t)
      /\ \A x : \A g : SessionTag(t, x, g) => SessionTag(s, x, g)
  BY <1>1, <1>2, <1>5, <1>7, <1>8, DecryptTag
<1>10. \A x : \A g : SessionTag(t, x, g) => Tagged(x, g)
  BY <1>2, <1>9, TaggedIs
<1>11. Puts(d, m.from, {t})
  BY <1>3, <1>6
<1>12. TagsKept
  BY <1>1, <1>2, <1>9, <1>10, <1>11, TagsPutKept
<1>13. nextKey' \in Nat /\ nextKey <= nextKey'
  BY <1>1, <1>3, NextKeyGrows
<1>14. QED
  BY <1>4, <1>12, <1>13, OnceStaysQuiet

\* A handshake begins: its tag is new, and of the devices only the one whose
\* signed prekey the bundle names could answer.
LEMMA NewTagSafe ==
  ASSUME KeysApart, SecretsAge, NEW b, BundleKeys(b), OneRoot,
         nextKey' = nextKey + 2, \A d \in Device : SecretOf(d)' = SecretOf(d),
         accepted' = accepted,
         NEW x, x = nextKey, NEW g, g = {x, b.signed} \cup {k.key : k \in b.oneTime}
  PROVE  TagSafe(x, g)'
<1>1. nextKey \in Nat /\ 0 < nextKey
  BY DEF KeysApart
<1>2. Usable(x)' /\ Usable(b.signed)'
  BY <1>1, UsableStays DEF Usable, BundleKeys
<1>3. \A k \in b.oneTime : Usable(k.key)'
  BY UsableStays DEF BundleKeys, OneTimeKey
<1>4. \A k \in g : Usable(k)'
  BY <1>2, <1>3
<1>5. ASSUME NEW d \in Device, SecretOf(d) \in g PROVE SecretOf(d) = b.signed
  <2>1. SecretOf(d) # x
    BY <1>1 DEF KeysApart
  <2>2. \A k \in b.oneTime : SecretOf(d) # k.key
    BY DEF BundleKeys, OneTimeKey
  <2>3. QED
    BY <1>5, <2>1, <2>2
<1>6. b.signed # Zero
  BY DEF BundleKeys, Usable, Zero
<1>7. \A d, e \in Device : SecretOf(d)' \in g /\ SecretOf(e)' \in g => d = e
  BY <1>5, <1>6 DEF KeysApart
<1>8. ~HasAnsweredTo(x)'
  <2>1. HasAnsweredTo(x)' => HasAnsweredTo(x)
    BY DEF HasAnsweredTo
  <2>2. HasAnsweredTo(x) => x < nextKey
    BY DEF OneRoot
  <2>3. QED
    BY <1>1, <2>1, <2>2
<1>9. QED
  BY <1>1, <1>4, <1>7, <1>8 DEF TagSafe

LEMMA StartSessionOnce ==
  ASSUME OnceInv, WaitInv', NEW i \in fetching, StartSession(i)
  PROVE  OnceInv'
<1>1. /\ NamesIssued /\ RootsShaped /\ KeysApart /\ OneRoot /\ PublishedKeys /\ AnsweredOnce
      /\ nextKey \in Nat /\ issued \in Seq(Bundle)
  BY DEF OnceInv, WaitInv, KeysApart, PoolInv, DirectoryShape
<1>2. i \in 1 .. Len(issued)
  BY <1>1 DEF NamesIssued
<1>3. PICK b : b = issued[i]
  OBVIOUS
<1>4. BundleKeys(b) /\ b \in Bundle /\ b.by \in Device /\ b.of \in Device /\ b.oneTime \subseteq OneTime
  <2>1. b \in Bundle
    BY <1>1, <1>2, <1>3, IssuedTyped DEF OnceInv, WaitInv
  <2>2. QED
    BY <1>1, <1>2, <1>3, <2>1 DEF PublishedKeys, Bundle
<1>5. PICK s : s = NewSession(b)
  OBVIOUS
<1>6. PICK t : t = [s EXCEPT !.ratchet = AfterEncrypt(@)]
  OBVIOUS
<1>7. PICK m : m = Sealing(b.by, b.of, s)
  OBVIOUS
<1>8. /\ nextKey' = nextKey + 2 /\ UNCHANGED <<store, directory, issued, accepted>>
      /\ \/ Puts(b.by, b.of, {s}) /\ sent' = sent
         \/ Puts(b.by, b.of, {t}) /\ sent' = sent \cup {m}
  BY <1>3, <1>5, <1>6, <1>7 DEF StartSession, Puts
<1>9. PICK x : x = nextKey
  OBVIOUS
<1>10. PICK g : g = {x, b.signed} \cup {k.key : k \in b.oneTime}
  OBVIOUS
<1>11. g \in Output /\ b.signed \in Key
  BY <1>1, <1>4, <1>9, <1>10 DEF Output, Key, Bundle, OneTime
<1>12. /\ DOMAIN s = SessionFields
       /\ s.ratchet = InitialiseInitiator(<<g>>, KeyPair(x + 1), b.signed)
       /\ \A p \in s.pending : p.ephemeral = x
  BY <1>5, <1>9, <1>10 DEF NewSession, SessionFields, RootSecret
<1>13. /\ Shaped(s.ratchet) /\ s.ratchet.rootKey # <<>> /\ s.ratchet.rootKey[1] = g
       /\ s.ratchet.sendingChainKey.id = s.ratchet.rootKey
  <2>1. <<g>> \in Seq(Output) /\ <<g>> # <<>> /\ <<g>>[1] = g
    BY <1>11
  <2>2. KeyPair(x + 1) \in [pub : Key, sec : Key]
    BY <1>1, <1>9 DEF KeyPair, Key
  <2>3. PICK root : root = <<g>>
    OBVIOUS
  <2>4. PICK pair : pair = KeyPair(x + 1)
    OBVIOUS
  <2>5. root \in Seq(Output) /\ root # <<>> /\ root[1] = g /\ pair \in [pub : Key, sec : Key]
    BY <2>1, <2>2, <2>3, <2>4
  <2>6. s.ratchet = InitialiseInitiator(root, pair, b.signed)
    BY <1>12, <2>3, <2>4
  <2>7. QED
    BY <1>11, <2>5, <2>6, InitiatorState
<1>14. SessionRoot(s)
  BY <1>13 DEF SessionRoot
<1>15. \A y : \A h : SessionTag(s, y, h) => y = x /\ h = g
  BY <1>12, <1>13 DEF SessionTag, HandshakeOf
<1>16. /\ m.msg \in Message
       /\ \A y : \A h : MessageTag(m, y, h) => SessionTag(s, y, h)
       /\ SessionRoot(t)
       /\ \A y : \A h : SessionTag(t, y, h) => SessionTag(s, y, h)
  BY <1>6, <1>7, <1>12, <1>14, SealingTag
<1>17. PICK T : T = {<<x, g>>}
  OBVIOUS
<1>18. /\ RootsShaped'
       /\ \A y : \A h : Tagged(y, h)' => Tagged(y, h) \/ <<y, h>> \in T
  <2>1. PICK u : /\ Puts(b.by, b.of, {u}) /\ SessionRoot(u)
                 /\ \A y : \A h : SessionTag(u, y, h) => y = x /\ h = g
    BY <1>8, <1>14, <1>15, <1>16
  <2>2. \A y : \A h : SessionTag(u, y, h) => Tagged(y, h) \/ <<y, h>> \in T
    BY <1>17, <2>1
  <2>3. \A k \in sent' :
          \/ k \in sent
          \/ /\ k.msg \in Message
             /\ \A y : \A h : MessageTag(k, y, h) => Tagged(y, h) \/ <<y, h>> \in T
    <3>1. \A y : \A h : MessageTag(m, y, h) => <<y, h>> \in T
      BY <1>15, <1>16, <1>17
    <3>2. QED
      BY <1>8, <1>16, <3>1
  <2>4. QED
    BY <1>1, <1>4, <2>1, <2>2, <2>3, TagsPut
<1>19. \A y : \A h : Tagged(y, h)' => Tagged(y, h) \/ (y = x /\ h = g)
  BY <1>17, <1>18
<1>20. (\A d \in Device : SecretOf(d)' = SecretOf(d)) /\ SecretsAge
  BY <1>1, <1>8, SecretsUntouched DEF SecretOf
<1>21. TagSafe(x, g)'
  BY <1>1, <1>4, <1>8, <1>9, <1>10, <1>20, NewTagSafe
<1>22. \A h : ~Tagged(x, h)
  BY <1>1, <1>9 DEF OneRoot, TagSafe
<1>23. OneRoot'
  <2>1. ASSUME NEW y, NEW h, Tagged(y, h)' PROVE TagSafe(y, h)'
    <3>1. CASE Tagged(y, h)
      BY <1>1, <1>8, <1>20, <3>1, TagStaysSafe DEF OneRoot
    <3>2. CASE y = x /\ h = g
      BY <1>21, <3>2
    <3>3. QED
      BY <1>19, <2>1, <3>1, <3>2
  <2>2. \A y : \A h, k : Tagged(y, h)' /\ Tagged(y, k)' => h = k
    BY <1>1, <1>19, <1>22 DEF OneRoot
  <2>3. ASSUME NEW y, HasAnsweredTo(y)' PROVE y \in Nat /\ y < nextKey'
    <3>1. HasAnsweredTo(y)
      BY <1>8, <2>3 DEF HasAnsweredTo
    <3>2. QED
      BY <1>1, <1>8, <3>1 DEF OneRoot
  <2>4. QED
    BY <2>1, <2>2, <2>3 DEF OneRoot
<1>24. AnsweredOnce' /\ KeysApart' /\ PublishedKeys'
  BY <1>1, <1>8, <1>20, KeysStayApart, PublishedStay DEF AnsweredOnce
<1>25. QED
  BY <1>18, <1>23, <1>24 DEF OnceInv

LEMMA StartOnce ==
  ASSUME OnceInv, WaitInv', NEW d \in Device, Start(d)
  PROVE  OnceInv'
<1>1. StartStore(d) /\ sent' = sent /\ accepted' = accepted
  BY DEF Start
<1>2. PoolInv /\ KeysApart /\ PublishedKeys /\ RootsShaped /\ NamesIssued
  BY DEF OnceInv, WaitInv
<1>3. SecretsAge /\ PublishedKeys'
  BY <1>1, <1>2, StartKeys
<1>4. sessions' = [sessions EXCEPT ![d] = [e \in Device |-> {}]]
  BY DEF Start
<1>5. \A x, y \in Device : sessions'[x][y] \subseteq sessions[x][y]
  BY <1>2, <1>4 DEF NamesIssued
<1>6. TagsKept
  BY <1>1, <1>2, <1>5, SessionsKept
<1>7. QED
  BY <1>1, <1>3, <1>6, OnceStays

LEMMA ForgetOnce ==
  ASSUME OnceInv, WaitInv', NEW d \in Device, NEW e \in Device, Forget(d, e)
  PROVE  OnceInv'
<1>1. NamesIssued /\ RootsShaped /\ nextKey \in Nat
  BY DEF OnceInv, WaitInv, KeysApart
<1>2. UNCHANGED <<store, directory, issued, nextKey, accepted, sent>>
  BY DEF Forget, preKeyVars
<1>3. Puts(d, e, {})
  BY DEF Forget, Puts
<1>4. \A x, y \in Device : sessions'[x][y] \subseteq sessions[x][y]
  BY <1>1, <1>3, SessionPut
<1>5. TagsKept
  BY <1>1, <1>2, <1>4, SessionsKept
<1>6. QED
  BY <1>1, <1>2, <1>5, OnceStaysQuiet

\* Sessions and messages left alone.
LEMMA TagsUntouched ==
  ASSUME OnceInv, UNCHANGED <<sessions, sent>>
  PROVE  TagsKept
<1>1. RootsShaped
  BY DEF OnceInv
<1>2. QED
  BY <1>1, SessionsKept

LEMMA FetchOnce ==
  ASSUME OnceInv, WaitInv', NEW d \in Device, NEW e \in Device, Fetch(d, e)
  PROVE  OnceInv'
<1>1. TakeBundle(d, e) /\ UNCHANGED <<sessions, sent, accepted>>
  BY DEF Fetch
<1>2. SecretsAge /\ PublishedKeys'
  BY <1>1, TakeKeys DEF OnceInv, WaitInv
<1>3. QED
  BY <1>1, <1>2, TagsUntouched, OnceStays

LEMMA ReplenishOnce ==
  ASSUME OnceInv, WaitInv', NEW d \in Device, Replenish(d), Others
  PROVE  OnceInv'
<1>1. UNCHANGED <<sessions, sent, accepted>>
  BY DEF Others
<1>2. SecretsAge /\ PublishedKeys'
  BY ReplenishKeys DEF OnceInv, WaitInv
<1>3. QED
  BY <1>1, <1>2, TagsUntouched, OnceStays

LEMMA UntouchedOnce ==
  ASSUME OnceInv, WaitInv',
         UNCHANGED <<store, directory, issued, nextKey, sessions, sent, accepted>>
  PROVE  OnceInv'
<1>1. nextKey \in Nat
  BY DEF OnceInv, KeysApart
<1>2. QED
  BY <1>1, TagsUntouched, OnceStaysQuiet

-----------------------------------------------------------------------------
(* The answer.                                                             *)

\* Whoever opens the first message over the ratchet of its answer has the
\* signed prekey the message was sealed for.
LEMMA AnswerHolds ==
  ASSUME KeysApart, store \in [Device -> StoreType], NEW d \in Device, NEW p \in Preamble,
         NEW m, m.msg \in Message, Answer(d, p, m).ok
  PROVE  SecretOf(d) \in HandshakeOf(m.msg.mk.id)
<1>1. /\ store[d] \in StoreType /\ nextKey \in Key
  BY DEF KeysApart, Key
<1>2. /\ store[d].signed \in [pub : Key, sec : Key]
      /\ \A k \in store[d].oneTime : k.key \in Nat
  BY <1>1 DEF StoreType, OneTime, Secret, Key
<1>3. PICK g : g = {p.ephemeral, store[d].signed.sec} \cup {k.key : k \in OneTimeFor(d, p)}
  OBVIOUS
<1>4. g \in Output /\ SecretOf(d) \in g
  <2>1. \A k \in OneTimeFor(d, p) : k.key \in Nat
    BY <1>2 DEF OneTimeFor
  <2>2. p.ephemeral \in Nat /\ store[d].signed.sec \in Nat
    BY <1>2 DEF Preamble, Key
  <2>3. QED
    BY <1>3, <2>1, <2>2 DEF Output, Key, SecretOf
<1>5. PICK root : root = <<g>>
  OBVIOUS
<1>6. root \in Seq(Output) /\ root # <<>> /\ root[1] = g
  <2>1. <<g>> \in Seq(Output) /\ <<g>> # <<>> /\ <<g>>[1] = g
    BY <1>4
  <2>2. QED
    BY <1>5, <2>1
<1>7. RatchetDecrypt(InitialiseResponder(root, store[d].signed), m.msg, nextKey).ok
  <2>1. root = RootSecret(p.ephemeral, store[d].signed.sec, {k.key : k \in OneTimeFor(d, p)})
    BY <1>3, <1>5 DEF RootSecret
  <2>2. QED
    BY <2>1 DEF Answer
<1>8. m.msg.mk.id[1] = g
  <2>1. PICK pair : pair = store[d].signed
    OBVIOUS
  <2>2. pair \in [pub : Key, sec : Key]
    BY <1>2, <2>1
  <2>3. RatchetDecrypt(InitialiseResponder(root, pair), m.msg, nextKey).ok
    BY <1>7, <2>1
  <2>4. m.msg.mk.id[1] = root[1]
    BY <1>1, <1>6, <2>2, <2>3, ResponderOpens
  <2>5. QED
    BY <1>6, <2>4
<1>9. QED
  BY <1>4, <1>8 DEF HandshakeOf

\* The ratchet of the answer, whatever the message did to it.
LEMMA AnswerWhole ==
  ASSUME KeysApart, store \in [Device -> StoreType], NEW d \in Device, NEW p \in Preamble,
         NEW m, m.msg \in Message
  PROVE  Whole(Answer(d, p, m).state)
<1>1. /\ store[d] \in StoreType /\ nextKey \in Key
  BY DEF KeysApart, Key
<1>2. /\ store[d].signed \in [pub : Key, sec : Key]
      /\ \A k \in store[d].oneTime : k.key \in Nat
  BY <1>1 DEF StoreType, OneTime, Secret, Key
<1>3. PICK root : root = RootSecret(p.ephemeral, store[d].signed.sec, {k.key : k \in OneTimeFor(d, p)})
  OBVIOUS
<1>4. root \in Seq(Output)
  <2>1. PICK g : g = {p.ephemeral, store[d].signed.sec} \cup {k.key : k \in OneTimeFor(d, p)}
    OBVIOUS
  <2>2. g \in Output
    <3>1. \A k \in OneTimeFor(d, p) : k.key \in Nat
      BY <1>2 DEF OneTimeFor
    <3>2. p.ephemeral \in Nat /\ store[d].signed.sec \in Nat
      BY <1>2 DEF Preamble, Key
    <3>3. QED
      BY <2>1, <3>1, <3>2 DEF Output, Key
  <2>3. root = <<g>>
    BY <1>3, <2>1 DEF RootSecret
  <2>4. QED
    BY <2>2, <2>3
<1>5. PICK s : s = InitialiseResponder(root, store[d].signed)
  OBVIOUS
<1>6. Whole(s)
  <2>1. PICK pair : pair = store[d].signed
    OBVIOUS
  <2>2. QED
    BY <1>2, <1>4, <1>5, <2>1, ResponderWhole
<1>7. PICK msg \in Message : msg = m.msg
  OBVIOUS
<1>8. Moves(s, RatchetDecrypt(s, msg, nextKey).state)
  BY <1>1, <1>6, DecryptMoves
<1>9. Answer(d, p, m) = RatchetDecrypt(s, msg, nextKey)
  BY <1>3, <1>5, <1>7 DEF Answer
<1>10. QED
  BY <1>8, <1>9 DEF Moves

\* The prekey that answered is wiped; nobody else has it.
LEMMA AnsweredSafe ==
  ASSUME KeysApart, SecretsAge, OneRoot, TagsKept, NEW d \in Device, NEW x, NEW g,
         Tagged(x, g), SecretOf(d) \in g, SecretOf(d)' = Zero,
         \A e \in Device : e # d => SecretOf(e)' = SecretOf(e),
         \A y : HasAnsweredTo(y)' => HasAnsweredTo(y) \/ y = x
  PROVE  OneRoot'
<1>1. /\ nextKey \in Nat /\ nextKey' \in Nat /\ nextKey <= nextKey'
      /\ TagSafe(x, g)
  BY DEF KeysApart, SecretsAge, OneRoot
<1>2. ASSUME NEW y, NEW h, Tagged(y, h) PROVE TagSafe(y, h)'
  <2>1. TagSafe(y, h)
    BY <1>2 DEF OneRoot
  <2>2. \A k \in h : Usable(k)'
    BY <2>1, UsableStays DEF TagSafe
  <2>3. Zero \notin h
    BY <2>1 DEF TagSafe, Usable, Zero
  <2>4. \A e \in Device : SecretOf(e)' \in h => e # d /\ SecretOf(e) \in h
    BY <2>3
  <2>5. y \in Nat /\ y < nextKey'
    BY <1>1, <2>1 DEF TagSafe
  <2>6. \A e, f \in Device : SecretOf(e)' \in h /\ SecretOf(f)' \in h => e = f
    BY <2>1, <2>4 DEF TagSafe
  <2>7. ASSUME HasAnsweredTo(y)', NEW e \in Device, SecretOf(e)' \in h PROVE FALSE
    <3>1. e # d /\ SecretOf(e) \in h
      BY <2>4, <2>7
    <3>2. CASE HasAnsweredTo(y)
      BY <2>1, <3>1, <3>2 DEF TagSafe
    <3>3. CASE y = x
      <4>1. h = g
        BY <1>2, <3>3 DEF OneRoot
      <4>2. QED
        BY <1>1, <3>1, <4>1 DEF TagSafe
    <3>4. QED
      BY <2>7, <3>2, <3>3
  <2>8. QED
    BY <2>2, <2>5, <2>6, <2>7 DEF TagSafe
<1>3. ASSUME NEW y, NEW h, Tagged(y, h)' PROVE TagSafe(y, h)'
  BY <1>2, <1>3 DEF TagsKept
<1>4. \A y : \A h, k : Tagged(y, h)' /\ Tagged(y, k)' => h = k
  BY DEF OneRoot, TagsKept
<1>5. ASSUME NEW y, HasAnsweredTo(y)' PROVE y \in Nat /\ y < nextKey'
  <2>1. HasAnsweredTo(y) \/ y = x
    BY <1>5
  <2>2. y \in Nat /\ y < nextKey
    BY <1>1, <2>1 DEF OneRoot, TagSafe
  <2>3. QED
    BY <1>1, <2>2
<1>6. QED
  BY <1>3, <1>4, <1>5 DEF OneRoot

LEMMA RespondOnce ==
  ASSUME OnceInv, WaitInv', NEW d \in Device, NEW m \in sent, m.to = d, Respond(d, m), sent' = sent
  PROVE  OnceInv'
<1>1. /\ NamesIssued /\ RootsShaped /\ KeysApart /\ OneRoot /\ PublishedKeys /\ AnsweredOnce
      /\ nextKey \in Nat /\ store \in [Device -> StoreType]
  BY DEF OnceInv, WaitInv, KeysApart, PoolInv, DirectoryShape
<1>2. m.from \in Device /\ m.msg \in Message /\ EnvelopeNames(m)
  BY <1>1 DEF NamesIssued, EnvelopeNames, RootsShaped
<1>3. PICK p \in m.preamble :
        /\ store' = [store EXCEPT ![d].signed = SharedPairAfterTurn(@),
                                  ![d].oneTime = Consumed(@, p, Answer(d, p, m).ok)]
        /\ IF Answer(d, p, m).ok
           THEN /\ sessions' = [sessions EXCEPT ![d][m.from] =
                     {[ratchet |-> Answer(d, p, m).state, pending |-> {},
                       establishedBy |-> p.ephemeral, disturbed |-> FALSE]}]
                /\ nextKey' = NextKeyAfter(Answer(d, p, m))
                /\ accepted' = Append(accepted, [by |-> d, preamble |-> p])
           ELSE UNCHANGED <<sessions, nextKey, accepted>>
        /\ UNCHANGED <<directory, issued>>
  BY DEF Respond
<1>4. p \in Preamble
  BY <1>2 DEF EnvelopeNames, Named
<1>5. /\ SecretOf(d)' = Zero
      /\ \A e \in Device : e # d => SecretOf(e)' = SecretOf(e)
  <2>1. store[d] \in StoreType
    BY <1>1
  <2>2. QED
    BY <1>1, <1>3, <2>1 DEF SecretOf, StoreType, SharedPairAfterTurn
<1>6. nextKey' \in Nat /\ nextKey <= nextKey'
  BY <1>1, <1>3, NextKeyGrows
<1>7. SecretsAge
  BY <1>1, <1>5, <1>6 DEF SecretsAge, KeysApart, Zero
<1>8. PublishedKeys'
  BY <1>1, <1>3, <1>7, PublishedStay
<1>9. CASE ~Answer(d, p, m).ok
  BY <1>3, <1>7, <1>8, <1>9, TagsUntouched, OnceStays
<1>10. CASE Answer(d, p, m).ok
  <2>1. PICK t : t = [ratchet |-> Answer(d, p, m).state, pending |-> {},
                      establishedBy |-> p.ephemeral, disturbed |-> FALSE]
    OBVIOUS
  <2>2. t.ratchet = Answer(d, p, m).state /\ t.pending = {}
    BY <2>1
  <2>3. SessionRoot(t)
    <3>1. Whole(Answer(d, p, m).state)
      BY <1>1, <1>2, <1>4, AnswerWhole
    <3>2. PICK r : r = t.ratchet
      OBVIOUS
    <3>3. Shaped(r)
      BY <2>2, <3>1, <3>2, WholeTypes
    <3>4. QED
      BY <2>2, <3>2, <3>3 DEF SessionRoot
  <2>4. Puts(d, m.from, {t})
    BY <1>3, <1>10, <2>1 DEF Puts
  <2>5. \A x : \A g : SessionTag(t, x, g) => Tagged(x, g)
    BY <2>2 DEF SessionTag
  <2>6. TagsKept
    BY <1>1, <1>2, <2>3, <2>4, <2>5, TagsPutKept
  <2>7. PICK g : g = HandshakeOf(m.msg.mk.id)
    OBVIOUS
  <2>8. PICK x : x = p.ephemeral
    OBVIOUS
  <2>9. Tagged(x, g) /\ SecretOf(d) \in g
    BY <1>1, <1>2, <1>4, <1>10, <2>7, <2>8, AnswerHolds DEF Tagged
  <2>10. PICK answer : answer = [by |-> d, preamble |-> p]
    OBVIOUS
  <2>11. accepted \in Seq([by : Device, preamble : Preamble]) /\ accepted' = Append(accepted, answer)
    BY <1>1, <1>3, <1>10, <2>10 DEF NamesIssued
  <2>12. /\ DOMAIN accepted = 1 .. Len(accepted) /\ DOMAIN accepted' = 1 .. Len(accepted')
         /\ \A j \in 1 .. Len(accepted') :
              \/ j \in 1 .. Len(accepted) /\ accepted'[j] = accepted[j]
              \/ j = Len(accepted) + 1 /\ accepted'[j] = answer
    BY <2>11
  <2>13. answer.preamble.ephemeral = x
    BY <2>8, <2>10
  <2>14. \A y : HasAnsweredTo(y)' => HasAnsweredTo(y) \/ y = x
    BY <2>12, <2>13 DEF HasAnsweredTo
  <2>15. OneRoot'
    BY <1>1, <1>5, <1>7, <2>6, <2>9, <2>14, AnsweredSafe
  <2>16. ~HasAnsweredTo(x)
    BY <1>1, <2>9 DEF OneRoot, TagSafe
  <2>17. AnsweredOnce'
    <3>1. SUFFICES ASSUME NEW i \in DOMAIN accepted', NEW j \in DOMAIN accepted',
                          accepted'[i].preamble.ephemeral = accepted'[j].preamble.ephemeral
                   PROVE  i = j
      BY DEF AnsweredOnce
    <3>2. \A k \in 1 .. Len(accepted) : accepted[k].preamble.ephemeral # x
      BY <2>16 DEF HasAnsweredTo
    <3>3. CASE i \in 1 .. Len(accepted) /\ accepted'[i] = accepted[i]
      BY <1>1, <2>12, <2>13, <3>1, <3>2, <3>3 DEF AnsweredOnce
    <3>4. CASE i = Len(accepted) + 1 /\ accepted'[i] = answer
      BY <2>12, <2>13, <3>1, <3>2, <3>4
    <3>5. QED
      BY <2>12, <3>1, <3>3, <3>4
  <2>18. RootsShaped' /\ KeysApart'
    BY <1>1, <1>7, <2>6, KeysStayApart DEF TagsKept
  <2>19. QED
    BY <1>8, <2>15, <2>17, <2>18 DEF OnceInv
<1>11. QED
  BY <1>9, <1>10

LEMMA ReceiveOnce ==
  ASSUME OnceInv, WaitInv', NEW d \in Device, Receive(d)
  PROVE  OnceInv'
<1>1. PICK m \in sent :
        /\ m.to = d
        /\ IF \E s \in sessions[d][m.from] : RoutedTo(s, m)
           THEN ReceiveInSession(d, m)
           ELSE Respond(d, m) \/ Refused(d, m)
        /\ sent' = sent
  BY DEF Receive
<1>2. CASE ReceiveInSession(d, m)
  BY <1>1, <1>2, ReceiveInSessionOnce
<1>3. CASE Respond(d, m)
  BY <1>1, <1>3, RespondOnce
<1>4. CASE Refused(d, m)
  BY <1>1, <1>4, UntouchedOnce DEF Refused, preKeyVars
<1>5. QED
  BY <1>1, <1>2, <1>3, <1>4

LEMMA InitOnce == Init => OnceInv
<1> SUFFICES ASSUME Init PROVE OnceInv
  OBVIOUS
<1>1. /\ store = [d \in Device |-> [signed |-> [pub |-> 0, sec |-> 0], oneTime |-> {}, nextId |-> 1]]
      /\ directory = [d \in Device |-> {}] /\ nextKey = 1
      /\ issued = <<>> /\ sent = {} /\ accepted = <<>>
      /\ sessions = [d \in Device |-> [e \in Device |-> {}]]
  BY DEF Init, PreKeysInit
<1>2. KeysApart
  BY <1>1 DEF KeysApart, SecretOf, Zero
<1>3. PublishedKeys /\ RootsShaped /\ AnsweredOnce
  BY <1>1 DEF PublishedKeys, RootsShaped, AnsweredOnce
<1>4. OneRoot
  BY <1>1 DEF OneRoot, Tagged, HasAnsweredTo
<1>5. QED
  BY <1>2, <1>3, <1>4, InitWaits DEF OnceInv

LEMMA NextKeepsOnce == OnceInv /\ [Next]_vars => OnceInv'
<1> SUFFICES ASSUME OnceInv, [Next]_vars PROVE OnceInv'
  OBVIOUS
<1>1. WaitInv'
  BY NextKeepsWaiting DEF OnceInv
<1>2. ASSUME NEW d \in Device, SeeCount(d), Others PROVE OnceInv'
  BY <1>1, <1>2, UntouchedOnce DEF SeeCount, Others
<1>3. CASE UNCHANGED vars
  BY <1>1, <1>3, UntouchedOnce DEF vars, preKeyVars
<1>4. QED
  BY <1>1, <1>2, <1>3, StartOnce, ReceiveOnce, ReplenishOnce, FetchOnce, SendOnce, ForgetOnce,
     StartSessionOnce DEF Next

-----------------------------------------------------------------------------
\* However often and in whatever order its messages come, after conversations
\* were forgotten and devices started again, and whatever the other devices
\* answer in between, a handshake is answered once at most.
THEOREM HandshakesAnsweredOnce == Spec => []AnsweredOnce
<1>1. Spec => []OnceInv
  BY InitOnce, NextKeepsOnce, PTL DEF Spec
<1>2. OnceInv => AnsweredOnce
  BY DEF OnceInv
<1>3. QED
  BY <1>1, <1>2, PTL

-----------------------------------------------------------------------------
(* Types.  The ratchets of all sessions stay whole, as DoubleRatchetProofs *)
(* shows of one conversation, and no step leaves two sessions for a peer.  *)

WholeSession(s) == s \in Session /\ Whole(s.ratchet)

OneSession(S) == S = {} \/ \E s : S = {s} /\ WholeSession(s)

PoolsCapped == \A d \in Device : \A a \in directory[d] : Len(a.oneTime) <= Cap

TypeInv ==
  /\ OnceInv
  /\ topUp \subseteq Device
  /\ PoolsCapped
  /\ arrived \subseteq sent /\ sent \subseteq Envelope
  /\ \A d, e \in Device : OneSession(sessions[d][e])

LEMMA OneSessionPut ==
  ASSUME TypeInv, NEW d \in Device, NEW e \in Device, NEW S, Puts(d, e, S), OneSession(S)
  PROVE  \A x, y \in Device : OneSession(sessions'[x][y])
<1>1. NamesIssued
  BY DEF TypeInv, OnceInv, WaitInv
<1>2. \A x, y \in Device : sessions'[x][y] = IF x = d /\ y = e THEN S ELSE sessions[x][y]
  BY <1>1, SessionPut
<1>3. \A x, y \in Device : OneSession(sessions[x][y])
  BY DEF TypeInv
<1>4. ASSUME NEW x \in Device, NEW y \in Device PROVE OneSession(sessions'[x][y])
  <2>1. CASE x = d /\ y = e
    <3>1. sessions'[x][y] = S
      BY <1>2, <2>1
    <3>2. QED
      BY <3>1
  <2>2. CASE ~(x = d /\ y = e)
    <3>1. sessions'[x][y] = sessions[x][y]
      BY <1>2, <2>2
    <3>2. QED
      BY <1>3, <3>1
  <2>3. QED
    BY <2>1, <2>2
<1>5. QED
  BY <1>4

\* Sealing a message, and the session after it.
LEMMA SealingWhole ==
  ASSUME NEW d \in Device, NEW e \in Device, NEW s, WholeSession(s), CanEncrypt(s.ratchet),
         NEW m, m = Sealing(d, e, s), NEW t, t = [s EXCEPT !.ratchet = AfterEncrypt(@)]
  PROVE  WholeSession(t) /\ m \in Envelope
<1>1. s \in Session /\ Whole(s.ratchet)
  BY DEF WholeSession
<1>2. Moves(s.ratchet, AfterEncrypt(s.ratchet))
  BY <1>1, EncryptMoves
<1>3. PICK r : r = AfterEncrypt(s.ratchet)
  OBVIOUS
<1>4. Whole(r) /\ r \in RatchetState
  BY <1>2, <1>3 DEF Moves, Whole
<1>5. t = [s EXCEPT !.ratchet = r]
  BY <1>3
<1>6. t \in Session /\ t.ratchet = r
  BY <1>1, <1>4, <1>5 DEF Session
<1>7. m.msg \in Message /\ s.pending \in SUBSET Preamble
  <2>1. Shaped(s.ratchet)
    BY <1>1, WholeTypes
  <2>2. m.msg = Sealed(s.ratchet)
    BY DEF Sealing
  <2>3. m.msg \in Message
    BY <2>1, <2>2, SealedMessage
  <2>4. QED
    BY <1>1, <2>3 DEF Session
<1>8. PICK msg : msg = Sealed(s.ratchet)
  OBVIOUS
<1>9. m = [from |-> d, to |-> e, preamble |-> s.pending, msg |-> msg] /\ msg \in Message
  BY <1>7, <1>8 DEF Sealing
<1>10. m \in Envelope
  BY <1>7, <1>9 DEF Envelope
<1>11. QED
  BY <1>4, <1>6, <1>10 DEF WholeSession

LEMMA SendTypes ==
  ASSUME TypeInv, OnceInv', NEW d \in Device, NEW e \in Device, Send(d, e)
  PROVE  TypeInv'
<1>1. PICK s \in sessions[d][e] :
        /\ CanEncrypt(s.ratchet)
        /\ sent' = sent \cup {Sealing(d, e, s)}
        /\ sessions' = [sessions EXCEPT ![d][e] = {[s EXCEPT !.ratchet = AfterEncrypt(@)]}]
  BY DEF Send
<1>2. UNCHANGED <<topUp, directory, arrived>>
  BY DEF Send, preKeyVars
<1>3. WholeSession(s)
  <2>1. OneSession(sessions[d][e])
    BY DEF TypeInv
  <2>2. QED
    BY <1>1, <2>1 DEF OneSession
<1>4. PICK m : m = Sealing(d, e, s)
  OBVIOUS
<1>5. PICK t : t = [s EXCEPT !.ratchet = AfterEncrypt(@)]
  OBVIOUS
<1>6. WholeSession(t) /\ m \in Envelope
  BY <1>1, <1>3, <1>4, <1>5, SealingWhole
<1>7. Puts(d, e, {t}) /\ OneSession({t}) /\ sent' = sent \cup {m}
  BY <1>1, <1>4, <1>5, <1>6 DEF Puts, OneSession
<1>8. \A x, y \in Device : OneSession(sessions'[x][y])
  BY <1>7, OneSessionPut
<1>9. QED
  BY <1>2, <1>6, <1>7, <1>8 DEF TypeInv, PoolsCapped

LEMMA ForgetTypes ==
  ASSUME TypeInv, OnceInv', NEW d \in Device, NEW e \in Device, Forget(d, e)
  PROVE  TypeInv'
<1>1. Puts(d, e, {}) /\ OneSession({})
  BY DEF Forget, Puts, OneSession
<1>2. \A x, y \in Device : OneSession(sessions'[x][y])
  BY <1>1, OneSessionPut
<1>3. UNCHANGED <<topUp, directory, arrived, sent>>
  BY DEF Forget, preKeyVars
<1>4. QED
  BY <1>2, <1>3 DEF TypeInv, PoolsCapped

\* A step that touches no session and sends nothing.
LEMMA TypesUntouched ==
  ASSUME TypeInv, OnceInv', UNCHANGED sessions, arrived' \subseteq sent, UNCHANGED sent,
         topUp' \subseteq Device, PoolsCapped'
  PROVE  TypeInv'
BY DEF TypeInv

LEMMA CappedLength ==
  ASSUME NEW keys \in Seq(OneTime)
  PROVE  Len(Capped(keys)) <= Cap
<1> DEFINE m == IF Len(keys) < Cap THEN Len(keys) ELSE Cap
<1>1. m \in Nat /\ m <= Len(keys) /\ m <= Cap
  BY Pools
<1>2. Capped(keys) = SubSeq(keys, 1, m)
  BY DEF Capped
<1> HIDE DEF m
<1>3. Len(SubSeq(keys, 1, m)) = m
  BY <1>1
<1>4. QED
  BY <1>1, <1>2, <1>3

LEMMA StartTypes ==
  ASSUME TypeInv, OnceInv', NEW d \in Device, Start(d)
  PROVE  TypeInv'
<1>1. /\ NamesIssued /\ nextKey \in Nat /\ directory \in [Device -> SUBSET Account]
  BY DEF TypeInv, OnceInv, WaitInv, PoolInv, DirectoryShape
<1>2. /\ sessions' = [sessions EXCEPT ![d] = [e \in Device |-> {}]]
      /\ topUp' = topUp \ {d} /\ UNCHANGED <<sent, arrived>>
  BY DEF Start, StartStore
<1>3. PICK keys : keys = Generated(1, nextKey + 1)
  OBVIOUS
<1>4. directory' = [directory EXCEPT ![d] =
        IF @ = {} THEN {[signed |-> nextKey, oneTime |-> Capped(keys)]} ELSE @]
  BY <1>3 DEF Start, StartStore
<1>5. keys \in Seq(OneTime)
  BY <1>1, <1>3, GeneratedKeys
<1>6. PoolsCapped'
  <2>1. Len(Capped(keys)) <= Cap
    BY <1>5, CappedLength
  <2>2. ASSUME NEW e \in Device, NEW a \in directory'[e] PROVE Len(a.oneTime) <= Cap
    <3>1. CASE a \in directory[e]
      BY <3>1 DEF TypeInv, PoolsCapped
    <3>2. CASE a = [signed |-> nextKey, oneTime |-> Capped(keys)]
      BY <2>1, <3>2
    <3>3. QED
      BY <1>1, <1>4, <2>2, <3>1, <3>2
  <2>3. QED
    BY <2>2 DEF PoolsCapped
<1>7. ASSUME NEW x \in Device, NEW y \in Device PROVE OneSession(sessions'[x][y])
  <2>1. OneSession(sessions[x][y]) /\ OneSession({})
    BY DEF TypeInv, OneSession
  <2>2. sessions'[x][y] = {} \/ sessions'[x][y] = sessions[x][y]
    BY <1>1, <1>2 DEF NamesIssued
  <2>3. QED
    BY <2>1, <2>2
<1>8. QED
  BY <1>2, <1>6, <1>7 DEF TypeInv

LEMMA ReplenishTypes ==
  ASSUME TypeInv, OnceInv', NEW d \in Device, Replenish(d), Others
  PROVE  TypeInv'
<1>1. /\ nextKey \in Nat /\ directory \in [Device -> SUBSET Account]
      /\ store \in [Device -> StoreType]
  BY DEF TypeInv, OnceInv, WaitInv, PoolInv, DirectoryShape
<1>2. PICK keys : keys = Generated(store[d].nextId, nextKey)
  OBVIOUS
<1>3. /\ topUp' = topUp \ {d}
      /\ directory' = [directory EXCEPT ![d] =
           {[account EXCEPT !.oneTime = Capped(@ \o keys)] : account \in @}]
  BY <1>2 DEF Replenish
<1>4. keys \in Seq(OneTime)
  <2>1. store[d].nextId \in Nat
    BY <1>1 DEF StoreType
  <2>2. QED
    BY <1>1, <1>2, <2>1, GeneratedKeys
<1>5. PoolsCapped'
  <2>1. ASSUME NEW e \in Device, NEW a \in directory'[e] PROVE Len(a.oneTime) <= Cap
    <3>1. CASE a \in directory[e]
      BY <3>1 DEF TypeInv, PoolsCapped
    <3>2. CASE \E b \in directory[d] : a = [b EXCEPT !.oneTime = Capped(@ \o keys)]
      <4>1. PICK b \in directory[d] : a = [b EXCEPT !.oneTime = Capped(@ \o keys)]
        BY <3>2
      <4>2. b \in Account /\ b.oneTime \in Seq(OneTime)
        BY <1>1 DEF Account
      <4>3. b.oneTime \o keys \in Seq(OneTime)
        BY <1>4, <4>2
      <4>4. a.oneTime = Capped(b.oneTime \o keys)
        BY <4>1, <4>2 DEF Account
      <4>5. QED
        BY <4>3, <4>4, CappedLength
    <3>3. QED
      BY <1>1, <1>3, <2>1, <3>1, <3>2
  <2>2. QED
    BY <2>1 DEF PoolsCapped
<1>6. QED
  BY <1>3, <1>5, TypesUntouched DEF TypeInv, Others

LEMMA FetchTypes ==
  ASSUME TypeInv, OnceInv', NEW d \in Device, NEW e \in Device, Fetch(d, e)
  PROVE  TypeInv'
<1>1. /\ directory \in [Device -> SUBSET Account] /\ PoolInv
  BY DEF TypeInv, OnceInv, WaitInv, PoolInv, DirectoryShape
<1>2. PICK b \in directory[e] :
        directory' = [directory EXCEPT ![e] = {[b EXCEPT !.oneTime = WithoutFirst(@)]}]
  BY DEF Fetch, TakeBundle
<1>3. /\ b \in Account /\ b.oneTime \in Seq(OneTime) /\ Len(b.oneTime) <= Cap
  BY <1>1 DEF Account, TypeInv, PoolsCapped
<1>4. Len(WithoutFirst(b.oneTime)) <= Len(b.oneTime)
  <2>1. CASE b.oneTime = <<>>
    BY <1>3, <2>1 DEF WithoutFirst
  <2>2. CASE b.oneTime # <<>>
    BY <1>3, <2>2 DEF WithoutFirst
  <2>3. QED
    BY <2>1, <2>2
<1>5. PoolsCapped'
  <2>1. ASSUME NEW x \in Device, NEW a \in directory'[x] PROVE Len(a.oneTime) <= Cap
    <3>1. CASE a \in directory[x]
      BY <3>1 DEF TypeInv, PoolsCapped
    <3>2. CASE a = [b EXCEPT !.oneTime = WithoutFirst(@)]
      <4>1. a.oneTime = WithoutFirst(b.oneTime)
        BY <1>3, <3>2 DEF Account
      <4>2. Len(b.oneTime) \in Nat /\ Len(a.oneTime) \in Nat
        BY <1>3, <4>1 DEF WithoutFirst
      <4>3. QED
        BY <1>3, <1>4, <4>1, <4>2, Pools
    <3>3. QED
      BY <1>1, <1>2, <2>1, <3>1, <3>2
  <2>2. QED
    BY <2>1 DEF PoolsCapped
<1>6. UNCHANGED <<sessions, sent, arrived, topUp>>
  BY DEF Fetch, TakeBundle
<1>7. QED
  BY <1>5, <1>6, TypesUntouched DEF TypeInv

LEMMA SeeCountTypes ==
  ASSUME TypeInv, OnceInv', NEW d \in Device, SeeCount(d), Others
  PROVE  TypeInv'
<1>1. topUp' = topUp \cup {d} /\ UNCHANGED <<directory, sessions, sent, arrived>>
  BY DEF SeeCount, Others
<1>2. QED
  BY <1>1, TypesUntouched DEF TypeInv, PoolsCapped

LEMMA StartSessionTypes ==
  ASSUME TypeInv, OnceInv', NEW i \in fetching, StartSession(i)
  PROVE  TypeInv'
<1>1. /\ NamesIssued /\ nextKey \in Nat /\ issued \in Seq(Bundle) /\ PoolInv
  BY DEF TypeInv, OnceInv, WaitInv, PoolInv, DirectoryShape
<1>2. PICK b : b = issued[i]
  OBVIOUS
<1>3. b \in Bundle /\ b.by \in Device /\ b.of \in Device /\ b.oneTime \subseteq OneTime
  <2>1. i \in 1 .. Len(issued)
    BY <1>1 DEF NamesIssued
  <2>2. b \in Bundle
    BY <1>1, <1>2, <2>1, IssuedTyped
  <2>3. QED
    BY <2>2 DEF Bundle
<1>4. PICK s : s = NewSession(b)
  OBVIOUS
<1>5. PICK t : t = [s EXCEPT !.ratchet = AfterEncrypt(@)]
  OBVIOUS
<1>6. PICK m : m = Sealing(b.by, b.of, s)
  OBVIOUS
<1>7. /\ UNCHANGED <<topUp, directory, arrived>>
      /\ \/ Puts(b.by, b.of, {s}) /\ sent' = sent
         \/ Puts(b.by, b.of, {t}) /\ sent' = sent \cup {m}
  BY <1>2, <1>4, <1>5, <1>6 DEF StartSession, Puts
<1>8. PICK root : root = RootSecret(nextKey, b.signed, {k.key : k \in b.oneTime})
  OBVIOUS
<1>9. PICK pair : pair = KeyPair(nextKey + 1)
  OBVIOUS
<1>10. root \in Seq(Output) /\ root # <<>> /\ pair \in [pub : Key, sec : Key] /\ b.signed \in Key
  <2>1. PICK g : g = {nextKey, b.signed} \cup {k.key : k \in b.oneTime}
    OBVIOUS
  <2>2. g \in Output /\ b.signed \in Key
    BY <1>1, <1>3, <2>1 DEF Output, Key, Bundle, OneTime
  <2>3. root = <<g>>
    BY <1>8, <2>1 DEF RootSecret
  <2>4. root \in Seq(Output) /\ root # <<>>
    BY <2>2, <2>3
  <2>5. pair \in [pub : Key, sec : Key]
    BY <1>1, <1>9 DEF KeyPair, Key
  <2>6. QED
    BY <2>2, <2>4, <2>5
<1>11. PICK r : r = InitialiseInitiator(root, pair, b.signed)
  OBVIOUS
<1>12. Whole(r) /\ r \in RatchetState
  <2>1. Whole(r)
    BY <1>10, <1>11, InitiatorWhole
  <2>2. QED
    BY <2>1 DEF Whole
<1>13. PICK p : p = [ephemeral |-> nextKey, oneTime |-> Ids(b.oneTime)]
  OBVIOUS
<1>14. p \in Preamble
  <2>1. Ids(b.oneTime) \in SUBSET Nat
    BY <1>3 DEF Ids, OneTime
  <2>2. QED
    BY <1>1, <1>13, <2>1 DEF Preamble
<1>15. s = [ratchet |-> r, pending |-> {p}, establishedBy |-> Zero, disturbed |-> FALSE]
  BY <1>4, <1>8, <1>9, <1>11, <1>13 DEF NewSession
<1>16. WholeSession(s) /\ s.ratchet = r
  <2>1. Zero \in Nat
    BY DEF Zero
  <2>2. s \in Session /\ s.ratchet = r
    BY <1>12, <1>14, <1>15, <2>1 DEF Session
  <2>3. QED
    BY <1>12, <2>2 DEF WholeSession
<1>17. CanEncrypt(s.ratchet)
  <2>1. r.sendingChainKey.id # <<>>
    BY <1>10, <1>11, InitiatorState
  <2>2. QED
    BY <1>16, <2>1 DEF CanEncrypt, NoChain
<1>18. WholeSession(t) /\ m \in Envelope
  BY <1>3, <1>5, <1>6, <1>16, <1>17, SealingWhole
<1>19. OneSession({s}) /\ OneSession({t})
  BY <1>16, <1>18 DEF OneSession
<1>20. \A x, y \in Device : OneSession(sessions'[x][y])
  <2>1. PICK u : Puts(b.by, b.of, {u}) /\ OneSession({u})
    BY <1>7, <1>19
  <2>2. QED
    BY <1>3, <2>1, OneSessionPut
<1>21. arrived' \subseteq sent' /\ sent' \subseteq Envelope
  BY <1>7, <1>18 DEF TypeInv
<1>22. QED
  BY <1>7, <1>20, <1>21 DEF TypeInv, PoolsCapped

LEMMA ReceiveInSessionTypes ==
  ASSUME TypeInv, OnceInv', NEW d \in Device, NEW m \in sent, ReceiveInSession(d, m),
         arrived' = arrived \cup {m}, UNCHANGED sent
  PROVE  TypeInv'
<1>1. PICK s \in sessions[d][m.from] :
        sessions' = [sessions EXCEPT ![d][m.from] =
         {[s EXCEPT !.ratchet = InSession(s, m).state,
                    !.pending = IF InSession(s, m).ok /\ m.preamble = {} THEN {} ELSE @,
                    !.disturbed = \/ @ \/ m \in arrived
                                  \/ HandshakeOf(m.msg.mk.id) # HandshakeOf(s.ratchet.rootKey)]}]
  BY DEF ReceiveInSession
<1>2. UNCHANGED <<topUp, directory>>
  BY DEF ReceiveInSession
<1>3. /\ m \in Envelope /\ m.from \in Device /\ m.msg \in Message /\ nextKey \in Key
  BY DEF TypeInv, Envelope, OnceInv, KeysApart, Key
<1>4. WholeSession(s)
  <2>1. OneSession(sessions[d][m.from])
    BY <1>3 DEF TypeInv
  <2>2. QED
    BY <1>1, <2>1 DEF OneSession
<1>5. PICK r : r = InSession(s, m).state
  OBVIOUS
<1>6. Whole(r) /\ r \in RatchetState
  <2>1. PICK q : q = s.ratchet
    OBVIOUS
  <2>2. Whole(q)
    BY <1>4, <2>1 DEF WholeSession
  <2>3. PICK msg \in Message : msg = m.msg
    BY <1>3
  <2>4. Moves(q, RatchetDecrypt(q, msg, nextKey).state)
    BY <1>3, <2>2, DecryptMoves
  <2>5. r = RatchetDecrypt(q, msg, nextKey).state
    BY <1>5, <2>1, <2>3 DEF InSession
  <2>6. QED
    BY <2>4, <2>5 DEF Moves, Whole
<1>7. PICK left : left = IF InSession(s, m).ok /\ m.preamble = {} THEN {} ELSE s.pending
  OBVIOUS
<1>8. PICK h : h = (\/ s.disturbed \/ m \in arrived
                    \/ HandshakeOf(m.msg.mk.id) # HandshakeOf(s.ratchet.rootKey))
  OBVIOUS
<1>9. PICK t : t = [s EXCEPT !.ratchet = r, !.pending = left, !.disturbed = h]
  OBVIOUS
<1>10. Puts(d, m.from, {t})
  BY <1>1, <1>5, <1>7, <1>8, <1>9 DEF Puts
<1>11. left \in SUBSET Preamble /\ h \in BOOLEAN
  BY <1>4, <1>7, <1>8 DEF WholeSession, Session
<1>12. t \in Session /\ t.ratchet = r
  BY <1>4, <1>6, <1>9, <1>11 DEF WholeSession, Session
<1>13. OneSession({t})
  BY <1>6, <1>12 DEF OneSession, WholeSession
<1>14. \A x, y \in Device : OneSession(sessions'[x][y])
  BY <1>3, <1>10, <1>13, OneSessionPut
<1>15. QED
  BY <1>2, <1>14 DEF TypeInv, PoolsCapped

LEMMA RespondTypes ==
  ASSUME TypeInv, OnceInv', NEW d \in Device, NEW m \in sent, Respond(d, m),
         arrived' = arrived \cup {m}, UNCHANGED sent
  PROVE  TypeInv'
<1>1. PICK p \in m.preamble :
        /\ \/ sessions' = [sessions EXCEPT ![d][m.from] =
                 {[ratchet |-> Answer(d, p, m).state, pending |-> {},
                   establishedBy |-> p.ephemeral, disturbed |-> FALSE]}]
           \/ UNCHANGED sessions
        /\ UNCHANGED <<topUp, directory>>
  BY DEF Respond
<1>2. /\ m \in Envelope /\ m.from \in Device /\ m.msg \in Message /\ p \in Preamble
      /\ KeysApart /\ store \in [Device -> StoreType]
  BY <1>1 DEF TypeInv, Envelope, OnceInv, WaitInv, PoolInv, DirectoryShape
<1>3. PICK r : r = Answer(d, p, m).state
  OBVIOUS
<1>4. Whole(r) /\ r \in RatchetState
  <2>1. Whole(r)
    BY <1>2, <1>3, AnswerWhole
  <2>2. QED
    BY <2>1 DEF Whole
<1>5. PICK t : t = [ratchet |-> r, pending |-> {}, establishedBy |-> p.ephemeral, disturbed |-> FALSE]
  OBVIOUS
<1>6. OneSession({t})
  <2>1. t \in Session /\ t.ratchet = r
    BY <1>2, <1>4, <1>5 DEF Session, Preamble
  <2>2. QED
    BY <1>4, <2>1 DEF OneSession, WholeSession
<1>7. \A x, y \in Device : OneSession(sessions'[x][y])
  <2>1. CASE Puts(d, m.from, {t})
    BY <1>2, <1>6, <2>1, OneSessionPut
  <2>2. CASE UNCHANGED sessions
    BY <2>2 DEF TypeInv
  <2>3. QED
    BY <1>1, <1>3, <1>5, <2>1, <2>2 DEF Puts
<1>8. QED
  BY <1>1, <1>7 DEF TypeInv, PoolsCapped

LEMMA ReceiveTypes ==
  ASSUME TypeInv, OnceInv', NEW d \in Device, Receive(d)
  PROVE  TypeInv'
<1>1. PICK m \in sent :
        /\ m.to = d
        /\ IF \E s \in sessions[d][m.from] : RoutedTo(s, m)
           THEN ReceiveInSession(d, m)
           ELSE Respond(d, m) \/ Refused(d, m)
        /\ arrived' = arrived \cup {m} /\ UNCHANGED sent
  BY DEF Receive
<1>2. CASE ReceiveInSession(d, m)
  BY <1>1, <1>2, ReceiveInSessionTypes
<1>3. CASE Respond(d, m)
  BY <1>1, <1>3, RespondTypes
<1>4. CASE Refused(d, m)
  BY <1>1, <1>4, TypesUntouched DEF Refused, preKeyVars, TypeInv, PoolsCapped
<1>5. QED
  BY <1>1, <1>2, <1>3, <1>4

LEMMA InitTypes == Init => TypeInv
<1> SUFFICES ASSUME Init PROVE TypeInv
  OBVIOUS
<1>1. OnceInv
  BY InitOnce
<1>2. /\ topUp = {} /\ directory = [d \in Device |-> {}] /\ sent = {} /\ arrived = {}
      /\ sessions = [d \in Device |-> [e \in Device |-> {}]]
  BY DEF Init, PreKeysInit
<1>3. \A d, e \in Device : OneSession(sessions[d][e])
  BY <1>2 DEF OneSession
<1>4. QED
  BY <1>1, <1>2, <1>3 DEF TypeInv, PoolsCapped

LEMMA NextKeepsTypes == TypeInv /\ [Next]_vars => TypeInv'
<1> SUFFICES ASSUME TypeInv, [Next]_vars PROVE TypeInv'
  OBVIOUS
<1>1. OnceInv'
  BY NextKeepsOnce DEF TypeInv
<1>2. CASE UNCHANGED vars
  BY <1>1, <1>2, TypesUntouched DEF vars, preKeyVars, TypeInv, PoolsCapped
<1>3. QED
  BY <1>1, <1>2, StartTypes, ReceiveTypes, SeeCountTypes, ReplenishTypes, FetchTypes, SendTypes,
     ForgetTypes, StartSessionTypes DEF Next

LEMMA TypeInvTypes == TypeInv => TypeOK
<1> SUFFICES ASSUME TypeInv PROVE TypeOK
  OBVIOUS
<1>1. /\ starts \in [Device -> Nat] /\ NamesIssued
      /\ nextKey \in Nat /\ store \in [Device -> StoreType]
      /\ directory \in [Device -> SUBSET Account] /\ issued \in Seq(Bundle)
      /\ \A d \in Device : \A a1, a2 \in directory[d] : a1 = a2
  BY DEF TypeInv, OnceInv, WaitInv, PoolInv, DirectoryShape
<1>2. \A x : Cardinality({x}) = 1
  BY FS_Singleton
<1>3. Cardinality({}) = 0
  BY FS_EmptySet
<1>4. ASSUME NEW d \in Device
      PROVE  /\ directory[d] \subseteq Account /\ Cardinality(directory[d]) <= 1
             /\ \A a \in directory[d] : Len(a.oneTime) <= Cap
  <2>1. directory[d] = {} \/ \E a : directory[d] = {a}
    BY <1>1
  <2>2. Cardinality(directory[d]) <= 1
    <3>1. CASE directory[d] = {}
      BY <1>3, <3>1
    <3>2. CASE \E a : directory[d] = {a}
      <4>1. PICK a : directory[d] = {a}
        BY <3>2
      <4>2. Cardinality({a}) = 1
        BY <1>2
      <4>3. Cardinality(directory[d]) = 1
        BY <4>1, <4>2
      <4>4. QED
        BY <4>3
    <3>3. QED
      BY <2>1, <3>1, <3>2
  <2>3. QED
    BY <1>1, <2>2 DEF TypeInv, PoolsCapped
<1>5. PreKeysTypeOK
  BY <1>1, <1>4 DEF PreKeysTypeOK, TypeInv
<1>6. ASSUME NEW d \in Device, NEW e \in Device
      PROVE  sessions[d][e] \subseteq Session /\ Cardinality(sessions[d][e]) <= 1
  <2>1. OneSession(sessions[d][e])
    BY DEF TypeInv
  <2>2. CASE sessions[d][e] = {}
    BY <1>3, <2>2
  <2>3. CASE \E s : sessions[d][e] = {s} /\ WholeSession(s)
    <3>1. PICK s : sessions[d][e] = {s} /\ WholeSession(s)
      BY <2>3
    <3>2. Cardinality({s}) = 1
      BY <1>2
    <3>3. Cardinality(sessions[d][e]) = 1
      BY <3>1, <3>2
    <3>4. QED
      BY <3>1, <3>3 DEF WholeSession
  <2>4. QED
    BY <2>1, <2>2, <2>3 DEF OneSession
<1>7. fetching \subseteq DOMAIN issued
  BY <1>1 DEF NamesIssued
<1>8. QED
  BY <1>1, <1>5, <1>6, <1>7 DEF TypeOK, TypeInv, NamesIssued

\* Whatever arrives and fails, and however often devices start again, forget
\* and are answered: one session for each peer, with a cache in its bounds,
\* published pools in theirs, and bundles and preambles of the right shape.
THEOREM HandshakesWellTyped == Spec => []TypeOK
<1>1. Spec => []TypeInv
  BY InitTypes, NextKeepsTypes, PTL DEF Spec
<1>2. QED
  BY <1>1, TypeInvTypes, PTL

-----------------------------------------------------------------------------
(* Roles.  Whoever's key is the newest secret of a handshake began it; its *)
(* messages carry the preamble or follow an answer.                        *)

RootOf(s) == HandshakeOf(s.ratchet.rootKey)

Of(m) == HandshakeOf(m.msg.mk.id)

Newest(x, h) == x \in h /\ \A k \in h : k <= x

\* The handshake was answered.
Closed(h) == \E x \in h : Newest(x, h) /\ HasAnsweredTo(x)

SessionBase(s) ==
  /\ s.ratchet.rootKey # <<>> /\ \A k \in RootOf(s) : Usable(k)
  /\ s.ratchet.sendingChainKey # NoChain =>
       s.ratchet.sendingChainKey.id # <<>> /\ HandshakeOf(s.ratchet.sendingChainKey.id) = RootOf(s)
  /\ Made(s.ratchet.sending.pub)

MessageBase(m) ==
  m.msg.mk.id # <<>> /\ (\A k \in Of(m) : Usable(k)) /\ Made(m.msg.key)

\* s is the session of d with e.
RoleOfSession(s, d, e, by, of) ==
  IF s.establishedBy = Zero
  THEN d = by /\ e = of /\ \A p \in s.pending : Newest(p.ephemeral, RootOf(s))
  ELSE /\ d = of /\ e = by /\ s.pending = {}
       /\ Newest(s.establishedBy, RootOf(s)) /\ HasAnsweredTo(s.establishedBy)

RoleOfMessage(m, by, of) ==
  \/ m.from = by /\ m.to = of /\ \A p \in m.preamble : Newest(p.ephemeral, Of(m))
  \/ m.from = of /\ m.to = by /\ m.preamble = {} /\ Closed(Of(m))

\* The sessions and messages of the handshake h that by began with of.
Assigned(h, by, of) ==
  /\ \A d, e \in Device : \A s \in sessions[d][e] : RootOf(s) = h => RoleOfSession(s, d, e, by, of)
  /\ \A m \in sent : Of(m) = h => RoleOfMessage(m, by, of)

RoleInv ==
  /\ TypeInv
  /\ \A d, e \in Device : \A s \in sessions[d][e] : d # e /\ SessionBase(s)
  /\ \A m \in sent : m.from # m.to /\ MessageBase(m)
  /\ \A h : \E by, of : Assigned(h, by, of)
  /\ \A n \in 1 .. Len(issued) : issued[n].by # issued[n].of
  /\ \A d \in Device : SecretOf(d) # Zero => SecretOf(d) = store[d].signed.pub

-----------------------------------------------------------------------------
(* How the roles stay.                                                     *)

AnswersGrow == \A x : HasAnsweredTo(x) => HasAnsweredTo(x)'

KeysGrow == nextKey \in Nat /\ nextKey' \in Nat /\ nextKey <= nextKey'

LEMMA BaseStays ==
  ASSUME KeysGrow
  PROVE  /\ \A s : SessionBase(s) => SessionBase(s)'
         /\ \A m : MessageBase(m) => MessageBase(m)'
<1>1. \A k : Usable(k) => Usable(k)'
  BY DEF KeysGrow, Usable
<1>2. \A k : Made(k) => Made(k)'
  BY DEF KeysGrow, Made
<1>3. QED
  BY <1>1, <1>2 DEF SessionBase, MessageBase

LEMMA RolesMonotone ==
  ASSUME AnswersGrow
  PROVE  /\ \A h : Closed(h) => Closed(h)'
         /\ \A s, d, e, by, of : RoleOfSession(s, d, e, by, of) => RoleOfSession(s, d, e, by, of)'
         /\ \A m, by, of : RoleOfMessage(m, by, of) => RoleOfMessage(m, by, of)'
<1>1. \A h : Closed(h) => Closed(h)'
  BY DEF AnswersGrow, Closed
<1>2. \A s, d, e, by, of : RoleOfSession(s, d, e, by, of) => RoleOfSession(s, d, e, by, of)'
  BY DEF AnswersGrow, RoleOfSession
<1>3. \A m, by, of : RoleOfMessage(m, by, of) => RoleOfMessage(m, by, of)'
  BY <1>1 DEF RoleOfMessage
<1>4. QED
  BY <1>1, <1>2, <1>3

\* What a step adds to the handshake h is in the roles by and of.
NewRoles(h, by, of) ==
  /\ \A d, e \in Device : \A s \in sessions'[d][e] :
       s \in sessions[d][e] \/ (RootOf(s) = h => RoleOfSession(s, d, e, by, of)')
  /\ \A m \in sent' : m \in sent \/ (Of(m) = h => RoleOfMessage(m, by, of)')

LEMMA RolesStay ==
  ASSUME RoleInv, TypeInv', AnswersGrow, KeysGrow,
         \A d, e \in Device : \A s \in sessions'[d][e] :
           s \in sessions[d][e] \/ (d # e /\ SessionBase(s)'),
         \A m \in sent' : m \in sent \/ (m.from # m.to /\ MessageBase(m)'),
         \A h : \E by, of : Assigned(h, by, of) /\ NewRoles(h, by, of),
         \A n \in 1 .. Len(issued') : issued'[n].by # issued'[n].of,
         \A d \in Device : SecretOf(d)' # Zero => SecretOf(d)' = store'[d].signed.pub
  PROVE  RoleInv'
<1>1. \A d, e \in Device : \A s \in sessions'[d][e] : d # e /\ SessionBase(s)'
  BY BaseStays DEF RoleInv
<1>2. \A m \in sent' : m.from # m.to /\ MessageBase(m)'
  BY BaseStays DEF RoleInv
<1>3. ASSUME NEW h PROVE \E by, of : Assigned(h, by, of)'
  <2>1. PICK by, of : Assigned(h, by, of) /\ NewRoles(h, by, of)
    OBVIOUS
  <2>2. \A d, e \in Device : \A s \in sessions'[d][e] :
          RootOf(s) = h => RoleOfSession(s, d, e, by, of)'
    BY <2>1, RolesMonotone DEF Assigned, NewRoles
  <2>3. \A m \in sent' : Of(m) = h => RoleOfMessage(m, by, of)'
    BY <2>1, RolesMonotone DEF Assigned, NewRoles
  <2>4. Assigned(h, by, of)'
    BY <2>2, <2>3 DEF Assigned
  <2>5. QED
    BY <2>4
<1>4. QED
  BY <1>1, <1>2, <1>3 DEF RoleInv

\* Where nothing is sent and no session begins.
LEMMA RolesKept ==
  ASSUME RoleInv, TypeInv', KeysGrow, sent' = sent, accepted' = accepted,
         \A d, e \in Device : sessions'[d][e] \subseteq sessions[d][e],
         \A n \in 1 .. Len(issued') : issued'[n].by # issued'[n].of,
         \A d \in Device : SecretOf(d)' # Zero => SecretOf(d)' = store'[d].signed.pub
  PROVE  RoleInv'
<1>1. AnswersGrow
  BY DEF AnswersGrow, HasAnsweredTo
<1>2. \A h, by, of : NewRoles(h, by, of)
  BY DEF NewRoles
<1>3. \A h : \E by, of : Assigned(h, by, of) /\ NewRoles(h, by, of)
  BY <1>2 DEF RoleInv
<1>4. QED
  BY <1>1, <1>3, RolesStay

\* Where one session is put, in the roles its handshake has.
LEMMA RolesPut ==
  ASSUME RoleInv, TypeInv', AnswersGrow, KeysGrow,
         NEW d \in Device, NEW e \in Device, NEW t, Puts(d, e, {t}),
         d # e, SessionBase(t)',
         \A by, of : Assigned(RootOf(t), by, of) => RoleOfSession(t, d, e, by, of)',
         \A m \in sent' :
           \/ m \in sent
           \/ /\ m.from # m.to /\ MessageBase(m)'
              /\ \A by, of : Assigned(Of(m), by, of) => RoleOfMessage(m, by, of)',
         issued' = issued,
         \A x \in Device : SecretOf(x)' # Zero => SecretOf(x)' = store'[x].signed.pub
  PROVE  RoleInv'
<1>1. \A x, y \in Device : sessions'[x][y] = IF x = d /\ y = e THEN {t} ELSE sessions[x][y]
  BY SessionPut DEF RoleInv, TypeInv, OnceInv, WaitInv
<1>2. ASSUME NEW x \in Device, NEW y \in Device, NEW s \in sessions'[x][y], s \notin sessions[x][y]
      PROVE  x = d /\ y = e /\ s = t
  BY <1>1, <1>2
<1>3. ASSUME NEW h, NEW by, NEW of, Assigned(h, by, of) PROVE NewRoles(h, by, of)
  <2>1. \A x, y \in Device : \A s \in sessions'[x][y] :
          s \in sessions[x][y] \/ (RootOf(s) = h => RoleOfSession(s, x, y, by, of)')
    BY <1>2, <1>3
  <2>2. \A m \in sent' : m \in sent \/ (Of(m) = h => RoleOfMessage(m, by, of)')
    BY <1>3
  <2>3. QED
    BY <2>1, <2>2 DEF NewRoles
<1>4. \A h : \E by, of : Assigned(h, by, of) /\ NewRoles(h, by, of)
  BY <1>3 DEF RoleInv
<1>5. \A x, y \in Device : \A s \in sessions'[x][y] :
        s \in sessions[x][y] \/ (x # y /\ SessionBase(s)')
  BY <1>2
<1>6. \A n \in 1 .. Len(issued') : issued'[n].by # issued'[n].of
  BY DEF RoleInv
<1>7. \A m \in sent' : m \in sent \/ (m.from # m.to /\ MessageBase(m)')
  OBVIOUS
<1>8. QED
  BY <1>4, <1>5, <1>6, <1>7, RolesStay

-----------------------------------------------------------------------------
\* Sealing: message and session stay in their handshake.
LEMMA SealingRole ==
  ASSUME NEW d, NEW e, NEW s, WholeSession(s), SessionBase(s), CanEncrypt(s.ratchet),
         NEW m, m = Sealing(d, e, s), NEW t, t = [s EXCEPT !.ratchet = AfterEncrypt(@)]
  PROVE  /\ RootOf(t) = RootOf(s) /\ SessionBase(t)
         /\ t.ratchet = AfterEncrypt(s.ratchet) /\ t.pending = s.pending
         /\ t.establishedBy = s.establishedBy /\ t.disturbed = s.disturbed
         /\ m.from = d /\ m.to = e /\ m.preamble = s.pending /\ m.msg = Sealed(s.ratchet)
         /\ Of(m) = RootOf(s) /\ MessageBase(m)
<1>1. s \in Session /\ Whole(s.ratchet)
  BY DEF WholeSession
<1>2. PICK r : r = AfterEncrypt(s.ratchet)
  OBVIOUS
<1>3. PICK q : q = s.ratchet
  OBVIOUS
<1>4. t.ratchet = r /\ t.pending = s.pending
      /\ t.establishedBy = s.establishedBy /\ t.disturbed = s.disturbed
  BY <1>1, <1>2 DEF Session
<1>5. m.from = d /\ m.to = e /\ m.preamble = s.pending /\ m.msg = Sealed(s.ratchet)
  BY DEF Sealing
<1>6. Whole(q) /\ Shaped(q) /\ CanEncrypt(q)
  BY <1>1, <1>3, WholeTypes
<1>7. /\ r.rootKey = q.rootKey /\ r.sendingChainKey.id = q.sendingChainKey.id
      /\ r.sending = q.sending
  BY <1>2, <1>3, <1>6, EncryptKeepsRoot, EncryptFields
<1>8. m.msg.mk = q.sendingChainKey /\ m.msg.key = q.sending.pub
  <2>1. Sealed(q).mk = q.sendingChainKey /\ Sealed(q).key = q.sending.pub
    BY DEF Sealed
  <2>2. QED
    BY <1>3, <1>5, <2>1
<1>9. RootOf(t) = RootOf(s) /\ SessionBase(t)
  BY <1>3, <1>4, <1>6, <1>7 DEF RootOf, SessionBase, CanEncrypt
<1>10. Of(m) = RootOf(s) /\ MessageBase(m)
  BY <1>3, <1>6, <1>8 DEF Of, MessageBase, SessionBase, CanEncrypt
<1>11. QED
  BY <1>2, <1>4, <1>5, <1>9, <1>10

\* Receiving: the session stays in its handshake.
LEMMA DecryptRole ==
  ASSUME KeysGrow, NEW s, Whole(s.ratchet), SessionBase(s), NEW m \in Message,
         NEW result, result = RatchetDecrypt(s.ratchet, m, nextKey),
         nextKey' = NextKeyAfter(result),
         NEW t, t.ratchet = result.state
  PROVE  RootOf(t) = RootOf(s) /\ SessionBase(t)'
<1>1. PICK r : r = s.ratchet
  OBVIOUS
<1>2. PICK u : u = result.state
  OBVIOUS
<1>3. nextKey \in Nat /\ nextKey \in Key
  BY DEF KeysGrow, Key
<1>4. SameSending(r, u) \/ FreshSending(r, u, m.key, nextKey)
  <2>1. u = RatchetDecrypt(r, m, nextKey).state /\ Shaped(r)
    BY <1>1, <1>2, WholeTypes
  <2>2. QED
    BY <1>3, <2>1, DecryptSending
<1>5. r.rootKey # <<>> /\ r.rootKey \in Seq(Output) /\ 1 \in 1 .. Len(r.rootKey)
  <2>1. r.rootKey # <<>> /\ r.rootKey \in Seq(Output)
    BY <1>1, WholeTypes DEF SessionBase
  <2>2. QED
    BY <2>1
<1>6. /\ u.rootKey # <<>> /\ u.rootKey[1] = r.rootKey[1]
      /\ u.sendingChainKey # NoChain =>
           u.sendingChainKey.id # <<>> /\ u.sendingChainKey.id[1] = u.rootKey[1]
  <2>1. r.sendingChainKey # NoChain =>
          r.sendingChainKey.id # <<>> /\ r.sendingChainKey.id[1] = r.rootKey[1]
    BY <1>1 DEF SessionBase, RootOf, HandshakeOf
  <2>2. CASE SameSending(r, u)
    BY <1>5, <2>1, <2>2 DEF SameSending
  <2>3. CASE FreshSending(r, u, m.key, nextKey)
    BY <1>5, <2>3 DEF FreshSending
  <2>4. QED
    BY <1>4, <2>2, <2>3
<1>7. Made(u.sending.pub)'
  <2>1. CASE u.sending.pub = nextKey
    <3>1. nextKey' = nextKey + 1
      BY <1>2, <2>1 DEF NextKeyAfter
    <3>2. QED
      BY <1>3, <2>1, <3>1 DEF Made
  <2>2. CASE u.sending.pub # nextKey
    <3>1. u.sending = r.sending
      BY <1>4, <2>2 DEF SameSending, FreshSending, KeyPair
    <3>2. Made(r.sending.pub)
      BY <1>1 DEF SessionBase
    <3>3. QED
      BY <3>1, <3>2 DEF Made, KeysGrow
  <2>3. QED
    BY <2>1, <2>2
<1>8. RootOf(t) = RootOf(s)
  BY <1>1, <1>2, <1>6 DEF RootOf, HandshakeOf
<1>9. \A k \in RootOf(t) : Usable(k)'
  BY <1>8 DEF SessionBase, Usable, KeysGrow
<1>10. QED
  BY <1>2, <1>6, <1>7, <1>8, <1>9 DEF SessionBase, RootOf, HandshakeOf

\* The one session for a peer.
LEMMA TheSession ==
  ASSUME TypeInv, NEW d \in Device, NEW e \in Device, NEW s \in sessions[d][e]
  PROVE  WholeSession(s) /\ sessions[d][e] = {s}
<1>1. OneSession(sessions[d][e])
  BY DEF TypeInv
<1>2. QED
  BY <1>1 DEF OneSession

LEMMA SendRoles ==
  ASSUME RoleInv, TypeInv', NEW d \in Device, NEW e \in Device, Send(d, e)
  PROVE  RoleInv'
<1>1. PICK s \in sessions[d][e] :
        /\ CanEncrypt(s.ratchet)
        /\ sent' = sent \cup {Sealing(d, e, s)}
        /\ sessions' = [sessions EXCEPT ![d][e] = {[s EXCEPT !.ratchet = AfterEncrypt(@)]}]
  BY DEF Send
<1>2. UNCHANGED <<store, issued, nextKey, accepted>>
  BY DEF Send, preKeyVars
<1>3. WholeSession(s) /\ SessionBase(s) /\ d # e
  BY <1>1, TheSession DEF RoleInv
<1>4. PICK m : m = Sealing(d, e, s)
  OBVIOUS
<1>5. PICK t : t = [s EXCEPT !.ratchet = AfterEncrypt(@)]
  OBVIOUS
<1>6. /\ RootOf(t) = RootOf(s) /\ SessionBase(t)
      /\ t.pending = s.pending /\ t.establishedBy = s.establishedBy
      /\ m.from = d /\ m.to = e /\ m.preamble = s.pending
      /\ Of(m) = RootOf(s) /\ MessageBase(m)
  BY <1>1, <1>3, <1>4, <1>5, SealingRole
<1>7. KeysGrow /\ AnswersGrow
  BY <1>2 DEF KeysGrow, AnswersGrow, HasAnsweredTo, RoleInv, TypeInv, OnceInv, KeysApart
<1>8. SessionBase(t)' /\ MessageBase(m)'
  BY <1>6, <1>7, BaseStays
<1>9. ASSUME NEW by, NEW of, Assigned(RootOf(s), by, of)
      PROVE  RoleOfSession(t, d, e, by, of)' /\ RoleOfMessage(m, by, of)'
  <2>1. RoleOfSession(s, d, e, by, of)
    BY <1>1, <1>9 DEF Assigned
  <2>2. RoleOfSession(t, d, e, by, of)
    BY <1>6, <2>1 DEF RoleOfSession
  <2>3. RoleOfMessage(m, by, of)
    BY <1>6, <2>1 DEF RoleOfSession, RoleOfMessage, Closed, Newest
  <2>4. QED
    BY <1>7, <2>2, <2>3, RolesMonotone
<1>10. Puts(d, e, {t}) /\ sent' = sent \cup {m}
  BY <1>1, <1>4, <1>5 DEF Puts
<1>11. \A x \in Device : SecretOf(x)' # Zero => SecretOf(x)' = store'[x].signed.pub
  BY <1>2 DEF RoleInv, SecretOf
<1>12. QED
  BY <1>2, <1>3, <1>6, <1>7, <1>8, <1>9, <1>10, <1>11, RolesPut

LEMMA RoleContext ==
  ASSUME RoleInv
  PROVE  /\ NamesIssued /\ KeysApart /\ PublishedKeys /\ OneRoot /\ PoolInv
         /\ nextKey \in Nat /\ 0 < nextKey /\ issued \in Seq(Bundle)
         /\ store \in [Device -> StoreType]
         /\ accepted \in Seq([by : Device, preamble : Preamble])
BY DEF RoleInv, TypeInv, OnceInv, WaitInv, KeysApart, PoolInv, DirectoryShape, NamesIssued

LEMMA ReceiveInSessionRoles ==
  ASSUME RoleInv, TypeInv', NEW d \in Device, NEW m \in sent, ReceiveInSession(d, m), sent' = sent
  PROVE  RoleInv'
<1>1. PICK s \in sessions[d][m.from] :
        /\ sessions' = [sessions EXCEPT ![d][m.from] =
             {[s EXCEPT !.ratchet = InSession(s, m).state,
                    !.pending = IF InSession(s, m).ok /\ m.preamble = {} THEN {} ELSE @,
                    !.disturbed = \/ @ \/ m \in arrived
                                  \/ HandshakeOf(m.msg.mk.id) # HandshakeOf(s.ratchet.rootKey)]}]
        /\ nextKey' = NextKeyAfter(InSession(s, m))
  BY DEF ReceiveInSession
<1>2. UNCHANGED <<store, issued, accepted>>
  BY DEF ReceiveInSession
<1>3. m.from \in Device /\ m.msg \in Message
  BY DEF RoleInv, TypeInv, Envelope
<1>4. WholeSession(s) /\ SessionBase(s) /\ d # m.from
  BY <1>1, <1>3, TheSession DEF RoleInv
<1>5. PICK t : t = [s EXCEPT !.ratchet = InSession(s, m).state,
                    !.pending = IF InSession(s, m).ok /\ m.preamble = {} THEN {} ELSE @,
                    !.disturbed = \/ @ \/ m \in arrived
                                  \/ HandshakeOf(m.msg.mk.id) # HandshakeOf(s.ratchet.rootKey)]
  OBVIOUS
<1>6. /\ t.ratchet = InSession(s, m).state /\ t.pending \subseteq s.pending
      /\ t.establishedBy = s.establishedBy
  BY <1>4, <1>5 DEF WholeSession, Session
<1>7. KeysGrow /\ AnswersGrow
  BY <1>1, <1>2, NextKeyGrows, RoleContext DEF KeysGrow, AnswersGrow, HasAnsweredTo
<1>8. RootOf(t) = RootOf(s) /\ SessionBase(t)'
  <2>1. PICK result : result = RatchetDecrypt(s.ratchet, m.msg, nextKey)
    OBVIOUS
  <2>2. nextKey' = NextKeyAfter(result) /\ t.ratchet = result.state
    BY <1>1, <1>6, <2>1 DEF InSession
  <2>3. Whole(s.ratchet)
    BY <1>4 DEF WholeSession
  <2>4. QED
    BY <1>3, <1>4, <1>7, <2>1, <2>2, <2>3, DecryptRole
<1>9. ASSUME NEW by, NEW of, Assigned(RootOf(t), by, of)
      PROVE  RoleOfSession(t, d, m.from, by, of)'
  <2>1. RoleOfSession(s, d, m.from, by, of)
    BY <1>1, <1>3, <1>8, <1>9 DEF Assigned
  <2>2. RoleOfSession(t, d, m.from, by, of)
    BY <1>6, <1>8, <2>1 DEF RoleOfSession
  <2>3. QED
    BY <1>7, <2>2, RolesMonotone
<1>10. Puts(d, m.from, {t})
  BY <1>1, <1>5 DEF Puts
<1>11. \A x \in Device : SecretOf(x)' # Zero => SecretOf(x)' = store'[x].signed.pub
  BY <1>2 DEF RoleInv, SecretOf
<1>12. QED
  BY <1>2, <1>3, <1>4, <1>7, <1>8, <1>9, <1>10, <1>11, RolesPut

-----------------------------------------------------------------------------
(* Answers.                                                                *)

\* Whoever opens the first message computed its root.
LEMMA AnswerRoot ==
  ASSUME RoleInv, NEW d \in Device, NEW m \in sent, NEW p \in m.preamble, Answer(d, p, m).ok
  PROVE  /\ SecretOf(d) \in Of(m) /\ SecretOf(d) # Zero /\ Usable(SecretOf(d))
         /\ <<Of(m)>> \in Seq(Output)
         /\ Answer(d, p, m) =
              RatchetDecrypt(InitialiseResponder(<<Of(m)>>, KeyPair(SecretOf(d))), m.msg, nextKey)
<1>1. /\ store[d] \in StoreType /\ nextKey \in Key /\ m.msg \in Message /\ p \in Preamble
      /\ KeysApart /\ store \in [Device -> StoreType]
  BY RoleContext DEF Key, RoleInv, TypeInv, Envelope
<1>2. /\ store[d].signed \in [pub : Key, sec : Key]
      /\ \A k \in store[d].oneTime : k.key \in Nat
  BY <1>1 DEF StoreType, OneTime, Secret, Key
<1>3. PICK g : g = {p.ephemeral, store[d].signed.sec} \cup {k.key : k \in OneTimeFor(d, p)}
  OBVIOUS
<1>4. g \in Output
  <2>1. \A k \in OneTimeFor(d, p) : k.key \in Nat
    BY <1>2 DEF OneTimeFor
  <2>2. p.ephemeral \in Nat /\ store[d].signed.sec \in Nat
    BY <1>1, <1>2 DEF Preamble, Key
  <2>3. QED
    BY <1>3, <2>1, <2>2 DEF Output, Key
<1>5. PICK root : root = <<g>>
  OBVIOUS
<1>6. root \in Seq(Output) /\ root # <<>> /\ root[1] = g
  <2>1. <<g>> \in Seq(Output) /\ <<g>> # <<>> /\ <<g>>[1] = g
    BY <1>4
  <2>2. QED
    BY <1>5, <2>1
<1>7. PICK pair : pair = store[d].signed
  OBVIOUS
<1>8. Answer(d, p, m) = RatchetDecrypt(InitialiseResponder(root, pair), m.msg, nextKey)
  <2>1. root = RootSecret(p.ephemeral, store[d].signed.sec, {k.key : k \in OneTimeFor(d, p)})
    BY <1>3, <1>5 DEF RootSecret
  <2>2. QED
    BY <1>7, <2>1 DEF Answer
<1>9. m.msg.mk.id[1] = g
  <2>1. pair \in [pub : Key, sec : Key]
    BY <1>2, <1>7
  <2>2. RatchetDecrypt(InitialiseResponder(root, pair), m.msg, nextKey).ok
    BY <1>8
  <2>3. m.msg.mk.id[1] = root[1]
    BY <1>1, <1>6, <2>1, <2>2, ResponderOpens
  <2>4. QED
    BY <1>6, <2>3
<1>10. Of(m) = g
  BY <1>9 DEF Of, HandshakeOf
<1>11. SecretOf(d) \in Of(m)
  BY <1>3, <1>10 DEF SecretOf
<1>12. Usable(SecretOf(d)) /\ SecretOf(d) # Zero
  BY <1>11 DEF RoleInv, MessageBase, Usable, Zero
<1>13. pair = KeyPair(SecretOf(d))
  <2>1. pair.sec = SecretOf(d) /\ pair.pub = SecretOf(d)
    BY <1>7, <1>12 DEF SecretOf, RoleInv
  <2>2. QED
    BY <1>2, <1>7, <2>1 DEF KeyPair
<1>14. QED
  BY <1>5, <1>6, <1>8, <1>10, <1>11, <1>12, <1>13

\* The session of an answer belongs to the handshake of the message.
LEMMA AnswerRole ==
  ASSUME RoleInv, KeysGrow, NEW d \in Device, NEW m \in sent, NEW p \in m.preamble,
         Answer(d, p, m).ok, nextKey' = NextKeyAfter(Answer(d, p, m)),
         NEW t, t.ratchet = Answer(d, p, m).state
  PROVE  RootOf(t) = Of(m) /\ SessionBase(t)'
<1>1. PICK g : g = Of(m)
  OBVIOUS
<1>2. PICK k : k = SecretOf(d)
  OBVIOUS
<1>3. PICK r : r = InitialiseResponder(<<g>>, KeyPair(k))
  OBVIOUS
<1>4. /\ Usable(k) /\ k # Zero /\ <<g>> \in Seq(Output)
      /\ Answer(d, p, m) = RatchetDecrypt(r, m.msg, nextKey)
  BY <1>1, <1>2, <1>3, AnswerRoot
<1>5. KeyPair(k) \in [pub : Key, sec : Key] /\ KeyPair(k).pub = k
  BY <1>4 DEF KeyPair, Key, Usable
<1>6. PICK root \in Seq(Output) : root = <<g>>
  BY <1>4
<1>7. Whole(r)
  BY <1>3, <1>5, <1>6, ResponderWhole
<1>8. r.rootKey = <<g>> /\ r.sending = KeyPair(k) /\ r.sendingChainKey = NoChain
  BY <1>3 DEF InitialiseResponder
<1>9. PICK v : v = [ratchet |-> r]
  OBVIOUS
<1>10. v.ratchet = r
  BY <1>9
<1>11. RootOf(v) = g
  BY <1>8, <1>10 DEF RootOf, HandshakeOf
<1>12. SessionBase(v)
  <2>1. \A x \in g : Usable(x)
    BY <1>1 DEF RoleInv, MessageBase
  <2>2. Made(k) /\ <<g>> # <<>>
    BY <1>4 DEF Usable, Made
  <2>3. QED
    BY <1>5, <1>8, <1>10, <1>11, <2>1, <2>2 DEF SessionBase
<1>13. PICK result : result = Answer(d, p, m)
  OBVIOUS
<1>14. m.msg \in Message
  BY DEF RoleInv, TypeInv, Envelope
<1>15. /\ result = RatchetDecrypt(v.ratchet, m.msg, nextKey) /\ Whole(v.ratchet)
       /\ nextKey' = NextKeyAfter(result) /\ t.ratchet = result.state
  BY <1>4, <1>7, <1>10, <1>13
<1>16. RootOf(t) = RootOf(v) /\ SessionBase(t)'
  BY <1>12, <1>14, <1>15, DecryptRole
<1>17. QED
  BY <1>1, <1>11, <1>16

\* The history of answers grows.
LEMMA AnswerAppended ==
  ASSUME accepted \in Seq([by : Device, preamble : Preamble]), NEW a,
         accepted' = Append(accepted, a)
  PROVE  AnswersGrow /\ HasAnsweredTo(a.preamble.ephemeral)'
<1>1. PICK n \in Nat : n = Len(accepted)
  OBVIOUS
<1>2. /\ Len(accepted') = n + 1 /\ accepted'[n + 1] = a
      /\ \A j \in 1 .. n : accepted'[j] = accepted[j]
  BY <1>1
<1>3. ASSUME NEW x, HasAnsweredTo(x) PROVE HasAnsweredTo(x)'
  <2>1. PICK j \in 1 .. n : accepted[j].preamble.ephemeral = x
    BY <1>1, <1>3 DEF HasAnsweredTo
  <2>2. j \in 1 .. Len(accepted') /\ accepted'[j].preamble.ephemeral = x
    BY <1>2, <2>1
  <2>3. QED
    BY <2>2 DEF HasAnsweredTo
<1>4. n + 1 \in 1 .. Len(accepted')
  BY <1>2
<1>5. HasAnsweredTo(a.preamble.ephemeral)'
  BY <1>2, <1>4 DEF HasAnsweredTo
<1>6. QED
  BY <1>3, <1>5 DEF AnswersGrow

\* After an answer, or the attempt, its device's signed prekey is wiped.
LEMMA SecretsAfterAnswer ==
  ASSUME RoleInv, NEW d \in Device, NEW p, NEW ok,
         store' = [store EXCEPT ![d].signed = SharedPairAfterTurn(@),
                                ![d].oneTime = Consumed(@, p, ok)]
  PROVE  /\ SecretOf(d)' = Zero /\ \A x \in Device : x # d => SecretOf(x)' = SecretOf(x)
         /\ \A x \in Device : SecretOf(x)' # Zero => SecretOf(x)' = store'[x].signed.pub
<1>1. store \in [Device -> StoreType] /\ store[d] \in StoreType
  BY RoleContext
<1>2. SecretOf(d)' = Zero
  BY <1>1 DEF SecretOf, StoreType, SharedPairAfterTurn
<1>3. \A x \in Device : x # d => store'[x] = store[x]
  BY <1>1
<1>4. \A x \in Device : SecretOf(x)' # Zero => SecretOf(x)' = store'[x].signed.pub
  BY <1>2, <1>3 DEF RoleInv, SecretOf
<1>5. QED
  BY <1>2, <1>3, <1>4 DEF SecretOf

LEMMA RespondRoles ==
  ASSUME RoleInv, TypeInv', NEW d \in Device, NEW m \in sent, m.to = d, Respond(d, m), sent' = sent
  PROVE  RoleInv'
<1>1. PICK p \in m.preamble :
        /\ store' = [store EXCEPT ![d].signed = SharedPairAfterTurn(@),
                                  ![d].oneTime = Consumed(@, p, Answer(d, p, m).ok)]
        /\ IF Answer(d, p, m).ok
           THEN /\ sessions' = [sessions EXCEPT ![d][m.from] =
                     {[ratchet |-> Answer(d, p, m).state, pending |-> {},
                       establishedBy |-> p.ephemeral, disturbed |-> FALSE]}]
                /\ nextKey' = NextKeyAfter(Answer(d, p, m))
                /\ accepted' = Append(accepted, [by |-> d, preamble |-> p])
           ELSE UNCHANGED <<sessions, nextKey, accepted>>
        /\ UNCHANGED <<directory, issued>>
  BY DEF Respond
<1>2. \A x \in Device : SecretOf(x)' # Zero => SecretOf(x)' = store'[x].signed.pub
  BY <1>1, SecretsAfterAnswer
<1>3. KeysGrow
  BY <1>1, NextKeyGrows, RoleContext DEF KeysGrow
<1>4. CASE ~ Answer(d, p, m).ok
  BY <1>1, <1>2, <1>3, <1>4, RolesKept DEF RoleInv
<1>5. CASE Answer(d, p, m).ok
  <2>1. PICK t : t = [ratchet |-> Answer(d, p, m).state, pending |-> {},
                      establishedBy |-> p.ephemeral, disturbed |-> FALSE]
    OBVIOUS
  <2>2. /\ t.ratchet = Answer(d, p, m).state /\ t.pending = {}
        /\ t.establishedBy = p.ephemeral
    BY <2>1
  <2>3. Puts(d, m.from, {t}) /\ nextKey' = NextKeyAfter(Answer(d, p, m))
    BY <1>1, <1>5, <2>1 DEF Puts
  <2>4. RootOf(t) = Of(m) /\ SessionBase(t)'
    BY <1>3, <1>5, <2>2, <2>3, AnswerRole
  <2>5. PICK a : a = [by |-> d, preamble |-> p]
    OBVIOUS
  <2>6. accepted' = Append(accepted, a) /\ a.preamble.ephemeral = p.ephemeral
    BY <1>1, <1>5, <2>5
  <2>7. AnswersGrow /\ HasAnsweredTo(p.ephemeral)'
    BY <2>6, RoleContext, AnswerAppended
  <2>8. m.from \in Device /\ m.from # m.to
    BY DEF RoleInv, TypeInv, Envelope
  <2>9. ASSUME NEW by, NEW of, Assigned(RootOf(t), by, of)
        PROVE  RoleOfSession(t, d, m.from, by, of)'
    <3>1. RoleOfMessage(m, by, of)
      BY <2>4, <2>9 DEF Assigned
    <3>2. m.from = by /\ m.to = of /\ Newest(p.ephemeral, Of(m))
      BY <1>1, <3>1 DEF RoleOfMessage
    <3>3. p.ephemeral # Zero
      BY <3>2 DEF Newest, RoleInv, MessageBase, Usable, Zero
    <3>4. QED
      BY <2>2, <2>4, <2>7, <3>2, <3>3 DEF RoleOfSession
  <2>10. QED
    BY <1>1, <1>2, <1>3, <2>3, <2>4, <2>7, <2>8, <2>9, RolesPut
<1>6. QED
  BY <1>4, <1>5

\* The secrets of the handshake that startSession begins.
NewSecrets(b) == {nextKey, b.signed} \cup {k.key : k \in b.oneTime}

\* s is the session that startSession begins with the secrets g and the
\* ephemeral key x.
Beginning(b, s, g, x) ==
  /\ b.by \in Device /\ b.of \in Device /\ b.by # b.of
  /\ Usable(b.signed) /\ (\A k \in g : k = x \/ Usable(k)) /\ <<g>> \in Seq(Output)
  /\ s.ratchet = InitialiseInitiator(<<g>>, KeyPair(x + 1), b.signed)
  /\ (\A p \in s.pending : p.ephemeral = x)
  /\ s.establishedBy = Zero /\ ~ s.disturbed
  /\ WholeSession(s) /\ CanEncrypt(s.ratchet)
  /\ s.ratchet.rootKey # <<>> /\ s.ratchet.rootKey[1] = g
  /\ s.ratchet.sendingChainKey.id = s.ratchet.rootKey
  /\ s.ratchet.sending = KeyPair(x + 1)

\* What startSession makes, before the message that goes out with it.
LEMMA NewSessionFields ==
  ASSUME RoleInv, NEW i \in fetching, NEW b, b = issued[i], NEW s, s = NewSession(b),
         NEW g, g = NewSecrets(b)
  PROVE  Beginning(b, s, g, nextKey)
<1>1. i \in 1 .. Len(issued) /\ issued \in Seq(Bundle) /\ nextKey \in Nat /\ PublishedKeys
  BY RoleContext DEF NamesIssued
<1>2. /\ b \in Bundle /\ b.by \in Device /\ b.of \in Device /\ b.by # b.of
      /\ b.oneTime \subseteq OneTime /\ BundleKeys(b)
  <2>1. b \in Bundle
    BY <1>1, IssuedTyped, RoleContext
  <2>2. QED
    BY <1>1, <2>1 DEF RoleInv, Bundle, PublishedKeys
<1>3. Usable(b.signed) /\ \A k \in g : k = nextKey \/ Usable(k)
  BY <1>2 DEF BundleKeys, OneTimeKey, NewSecrets
<1>4. g \in Output /\ b.signed \in Key
  BY <1>1, <1>2 DEF Output, Key, Bundle, OneTime, NewSecrets
<1>5. PICK root \in Seq(Output) : root = <<g>>
  <2>1. <<g>> \in Seq(Output)
    BY <1>4
  <2>2. QED
    BY <2>1, Zenon
<1>6. PICK pair : pair = KeyPair(nextKey + 1)
  OBVIOUS
<1>7. pair \in [pub : Key, sec : Key] /\ root # <<>> /\ root[1] = g
  BY <1>1, <1>5, <1>6 DEF KeyPair, Key
<1>8. PICK r : r = InitialiseInitiator(root, pair, b.signed)
  OBVIOUS
<1>9. /\ Whole(r) /\ r.rootKey # <<>> /\ r.rootKey[1] = g
      /\ r.sendingChainKey.id = r.rootKey /\ r.sending = pair
  <2>1. r.sending = pair
    BY <1>8 DEF InitialiseInitiator
  <2>2. QED
    BY <1>4, <1>7, <1>8, <2>1, InitiatorWhole, InitiatorState
<1>10. PICK q : q = [ephemeral |-> nextKey, oneTime |-> Ids(b.oneTime)]
  OBVIOUS
<1>11. q \in Preamble /\ q.ephemeral = nextKey
  <2>1. Ids(b.oneTime) \in SUBSET Nat
    BY <1>2 DEF Ids, OneTime
  <2>2. QED
    BY <1>1, <1>10, <2>1 DEF Preamble
<1>12. s = [ratchet |-> r, pending |-> {q}, establishedBy |-> Zero, disturbed |-> FALSE]
  <2>1. root = RootSecret(nextKey, b.signed, {k.key : k \in b.oneTime})
    BY <1>5 DEF RootSecret, NewSecrets
  <2>2. QED
    BY <1>6, <1>8, <1>10, <2>1 DEF NewSession
<1>13. /\ s.ratchet = r /\ (\A p \in s.pending : p.ephemeral = nextKey)
       /\ s.establishedBy = Zero /\ ~ s.disturbed
  BY <1>11, <1>12
<1>14. WholeSession(s)
  <2>1. Zero \in Nat /\ r \in RatchetState
    BY <1>9 DEF Zero, Whole
  <2>2. s \in Session
    BY <1>11, <1>12, <2>1 DEF Session
  <2>3. QED
    BY <1>9, <1>13, <2>2 DEF WholeSession
<1>15. CanEncrypt(s.ratchet)
  BY <1>9, <1>13 DEF CanEncrypt, NoChain
<1>16. QED
  BY <1>2, <1>3, <1>4, <1>5, <1>6, <1>8, <1>9, <1>13, <1>14, <1>15 DEF Beginning

LEMMA StartSessionRoles ==
  ASSUME RoleInv, TypeInv', NEW i \in fetching, StartSession(i)
  PROVE  RoleInv'
<1>1. PICK b : b = issued[i]
  OBVIOUS
<1>2. PICK s : s = NewSession(b)
  OBVIOUS
<1>3. PICK t : t = [s EXCEPT !.ratchet = AfterEncrypt(@)]
  OBVIOUS
<1>4. PICK m : m = Sealing(b.by, b.of, s)
  OBVIOUS
<1>5. /\ nextKey' = nextKey + 2 /\ UNCHANGED <<store, issued, accepted>>
      /\ \/ Puts(b.by, b.of, {s}) /\ sent' = sent
         \/ Puts(b.by, b.of, {t}) /\ sent' = sent \cup {m}
  BY <1>1, <1>2, <1>3, <1>4 DEF StartSession, Puts
<1>6. PICK x : x = nextKey
  OBVIOUS
<1>7. PICK g : g = NewSecrets(b)
  OBVIOUS
<1>8. /\ b.by \in Device /\ b.of \in Device /\ b.by # b.of
      /\ (\A k \in g : k = x \/ Usable(k))
      /\ (\A p \in s.pending : p.ephemeral = x)
      /\ s.establishedBy = Zero
      /\ WholeSession(s) /\ CanEncrypt(s.ratchet)
      /\ s.ratchet.rootKey # <<>> /\ RootOf(s) = g
      /\ s.ratchet.sendingChainKey.id = s.ratchet.rootKey
      /\ s.ratchet.sending = KeyPair(x + 1)
  <2>1. Beginning(b, s, g, x)
    BY <1>1, <1>2, <1>6, <1>7, NewSessionFields
  <2>2. QED
    BY <2>1 DEF Beginning, RootOf, HandshakeOf
<1>9. nextKey \in Nat /\ 0 < nextKey /\ x \in g
  BY <1>6, <1>7, RoleContext DEF NewSecrets
<1>10. KeysGrow /\ AnswersGrow
  BY <1>5, <1>9 DEF KeysGrow, AnswersGrow, HasAnsweredTo
<1>11. Newest(x, g)
  BY <1>6, <1>8, <1>9 DEF Newest, Usable
<1>12. \A k \in g : Usable(k)'
  BY <1>5, <1>6, <1>8, <1>9 DEF Usable
<1>13. SessionBase(s)'
  <2>1. Made(s.ratchet.sending.pub)'
    BY <1>5, <1>6, <1>8, <1>9 DEF Made, KeyPair
  <2>2. s.ratchet.sendingChainKey # NoChain =>
          s.ratchet.sendingChainKey.id # <<>> /\ HandshakeOf(s.ratchet.sendingChainKey.id) = RootOf(s)
    BY <1>8 DEF RootOf
  <2>3. QED
    BY <1>8, <1>12, <2>1, <2>2 DEF SessionBase
<1>14. /\ RootOf(t) = g /\ t.pending = s.pending /\ t.establishedBy = Zero
       /\ SessionBase(t)'
       /\ m.from = b.by /\ m.to = b.of /\ m.preamble = s.pending
       /\ Of(m) = g /\ MessageBase(m)'
  <2>1. PICK u : u = AfterEncrypt(s.ratchet)
    OBVIOUS
  <2>2. PICK q : q = s.ratchet
    OBVIOUS
  <2>3. Whole(q) /\ Shaped(q) /\ s \in Session
    BY <1>8, <2>2, WholeTypes DEF WholeSession
  <2>4. u.rootKey = q.rootKey /\ u.sendingChainKey.id = q.sendingChainKey.id /\ u.sending = q.sending
    BY <2>1, <2>2, <2>3, EncryptKeepsRoot, EncryptFields
  <2>5. t.ratchet = u /\ t.pending = s.pending /\ t.establishedBy = s.establishedBy
    BY <1>3, <2>1, <2>3 DEF Session
  <2>6. RootOf(t) = g
    BY <1>8, <2>2, <2>4, <2>5 DEF RootOf
  <2>7. SessionBase(t)'
    BY <1>8, <1>13, <2>2, <2>4, <2>5, <2>6 DEF SessionBase, RootOf
  <2>8. /\ m.from = b.by /\ m.to = b.of /\ m.preamble = s.pending
        /\ m.msg.mk = q.sendingChainKey /\ m.msg.key = q.sending.pub
    <3>1. m.from = b.by /\ m.to = b.of /\ m.preamble = s.pending /\ m.msg = Sealed(s.ratchet)
      BY <1>4 DEF Sealing
    <3>2. Sealed(q).mk = q.sendingChainKey /\ Sealed(q).key = q.sending.pub
      BY DEF Sealed
    <3>3. QED
      BY <2>2, <3>1, <3>2
  <2>9. Of(m) = g
    BY <1>8, <2>2, <2>8 DEF Of, RootOf
  <2>10. MessageBase(m)'
    <3>1. m.msg.mk.id # <<>>
      BY <1>8, <2>2, <2>8
    <3>2. Made(m.msg.key)'
      BY <1>13, <2>2, <2>8 DEF SessionBase
    <3>3. QED
      BY <1>12, <2>9, <3>1, <3>2 DEF MessageBase
  <2>11. QED
    BY <1>8, <2>5, <2>6, <2>7, <2>8, <2>9, <2>10
\* Nothing there was is of this handshake.
<1>15. /\ \A y, z \in Device : \A r \in sessions[y][z] : RootOf(r) # g
       /\ \A w \in sent : Of(w) # g
  <2>1. ~ Usable(x)
    BY <1>6, <1>9 DEF Usable
  <2>2. QED
    BY <1>9, <2>1 DEF RoleInv, SessionBase, MessageBase
<1>16. \A y, z \in Device : \A r \in sessions'[y][z] :
         r \in sessions[y][z] \/ (y = b.by /\ z = b.of /\ (r = s \/ r = t))
  <2>1. NamesIssued
    BY RoleContext
  <2>2. PICK S : Puts(b.by, b.of, S) /\ S \subseteq {s, t}
    BY <1>5
  <2>3. \A y, z \in Device : sessions'[y][z] = IF y = b.by /\ z = b.of THEN S ELSE sessions[y][z]
    BY <1>8, <2>1, <2>2, SessionPut
  <2>4. QED
    BY <2>2, <2>3
<1>17. \A w \in sent' : w \in sent \/ w = m
  BY <1>5
<1>18. /\ RoleOfSession(s, b.by, b.of, b.by, b.of)' /\ RoleOfSession(t, b.by, b.of, b.by, b.of)'
       /\ RoleOfMessage(m, b.by, b.of)'
  <2>1. \A p \in s.pending : Newest(p.ephemeral, g)
    BY <1>8, <1>11
  <2>2. QED
    BY <1>8, <1>14, <2>1 DEF RoleOfSession, RoleOfMessage
<1>19. ASSUME NEW h PROVE \E by, of : Assigned(h, by, of) /\ NewRoles(h, by, of)
  <2>1. CASE h = g
    <3>1. Assigned(h, b.by, b.of)
      BY <1>15, <2>1 DEF Assigned
    <3>2. NewRoles(h, b.by, b.of)
      <4>1. \A y, z \in Device : \A r \in sessions'[y][z] :
              r \in sessions[y][z] \/ RoleOfSession(r, y, z, b.by, b.of)'
        BY <1>16, <1>18
      <4>2. \A w \in sent' : w \in sent \/ RoleOfMessage(w, b.by, b.of)'
        BY <1>17, <1>18
      <4>3. QED
        BY <4>1, <4>2 DEF NewRoles
    <3>3. QED
      BY <3>1, <3>2
  <2>2. CASE h # g
    <3>1. PICK by, of : Assigned(h, by, of)
      BY DEF RoleInv
    <3>2. \A y, z \in Device : \A r \in sessions'[y][z] : r \in sessions[y][z] \/ RootOf(r) # h
      BY <1>8, <1>14, <1>16, <2>2
    <3>3. \A w \in sent' : w \in sent \/ Of(w) # h
      BY <1>14, <1>17, <2>2
    <3>4. NewRoles(h, by, of)
      BY <3>2, <3>3 DEF NewRoles
    <3>5. QED
      BY <3>1, <3>4
  <2>3. QED
    BY <2>1, <2>2
<1>20. \A y, z \in Device : \A r \in sessions'[y][z] :
         r \in sessions[y][z] \/ (y # z /\ SessionBase(r)')
  BY <1>8, <1>13, <1>14, <1>16
<1>21. \A w \in sent' : w \in sent \/ (w.from # w.to /\ MessageBase(w)')
  BY <1>8, <1>14, <1>17
<1>22. /\ \A n \in 1 .. Len(issued') : issued'[n].by # issued'[n].of
       /\ \A d \in Device : SecretOf(d)' # Zero => SecretOf(d)' = store'[d].signed.pub
  BY <1>5 DEF RoleInv, SecretOf
<1>23. QED
  BY <1>10, <1>19, <1>20, <1>21, <1>22, RolesStay

-----------------------------------------------------------------------------
(* The other steps.                                                        *)

LEMMA StartRoles ==
  ASSUME RoleInv, TypeInv', NEW d \in Device, Start(d)
  PROVE  RoleInv'
<1>1. /\ StartStore(d) /\ sent' = sent /\ accepted' = accepted
      /\ sessions' = [sessions EXCEPT ![d] = [e \in Device |-> {}]]
  BY DEF Start
<1>2. /\ PoolInv /\ KeysApart /\ PublishedKeys /\ NamesIssued /\ nextKey \in Nat
      /\ store \in [Device -> StoreType]
  BY RoleContext
<1>3. SecretsAge
  BY <1>1, <1>2, StartKeys
<1>4. KeysGrow
  BY <1>2, <1>3 DEF SecretsAge, KeysGrow
<1>5. \A x, y \in Device : sessions'[x][y] \subseteq sessions[x][y]
  BY <1>1, <1>2 DEF NamesIssued
<1>6. PICK keys : store' = [store EXCEPT ![d] = FreshStore(nextKey, keys)] /\ issued' = issued
  BY <1>1 DEF StartStore
<1>7. \A x \in Device : SecretOf(x)' # Zero => SecretOf(x)' = store'[x].signed.pub
  <2>1. store'[d] = FreshStore(nextKey, keys) /\ \A x \in Device : x # d => store'[x] = store[x]
    BY <1>2, <1>6
  <2>2. store'[d].signed.sec = store'[d].signed.pub
    BY <2>1 DEF FreshStore
  <2>3. QED
    BY <2>1, <2>2 DEF RoleInv, SecretOf
<1>8. QED
  BY <1>1, <1>4, <1>5, <1>6, <1>7, RolesKept DEF RoleInv

LEMMA ForgetRoles ==
  ASSUME RoleInv, TypeInv', NEW d \in Device, NEW e \in Device, Forget(d, e)
  PROVE  RoleInv'
<1>1. Puts(d, e, {}) /\ UNCHANGED <<store, issued, nextKey, accepted, sent>>
  BY DEF Forget, Puts, preKeyVars
<1>2. \A x, y \in Device : sessions'[x][y] \subseteq sessions[x][y]
  BY <1>1, SessionPut, RoleContext
<1>3. KeysGrow
  BY <1>1, RoleContext DEF KeysGrow
<1>4. \A x \in Device : SecretOf(x)' # Zero => SecretOf(x)' = store'[x].signed.pub
  BY <1>1 DEF RoleInv, SecretOf
<1>5. QED
  BY <1>1, <1>2, <1>3, <1>4, RolesKept DEF RoleInv

\* Where sessions, messages, answers, bundles and signed prekeys stay.
LEMMA RolesUntouched ==
  ASSUME RoleInv, TypeInv', KeysGrow, UNCHANGED <<sessions, sent, accepted, issued>>,
         \A x \in Device : store'[x].signed = store[x].signed
  PROVE  RoleInv'
<1>1. \A x \in Device : SecretOf(x)' # Zero => SecretOf(x)' = store'[x].signed.pub
  BY DEF RoleInv, SecretOf
<1>2. QED
  BY <1>1, RolesKept DEF RoleInv

LEMMA FetchRoles ==
  ASSUME RoleInv, TypeInv', NEW d \in Device, NEW e \in Device, d # e, Fetch(d, e)
  PROVE  RoleInv'
<1>1. TakeBundle(d, e) /\ UNCHANGED <<sessions, sent, accepted>>
  BY DEF Fetch
<1>2. PICK a : /\ issued' = Append(issued, [by |-> d, of |-> e, signed |-> a.signed,
                                             oneTime |-> Front1(a.oneTime)])
               /\ UNCHANGED <<store, nextKey>>
  BY <1>1 DEF TakeBundle
<1>3. \A n \in 1 .. Len(issued') : issued'[n].by # issued'[n].of
  <2>1. PICK b : b = [by |-> d, of |-> e, signed |-> a.signed, oneTime |-> Front1(a.oneTime)]
    OBVIOUS
  <2>2. issued \in Seq(Bundle) /\ issued' = Append(issued, b) /\ b.by = d /\ b.of = e
    BY <1>2, <2>1, RoleContext
  <2>3. \A n \in 1 .. Len(issued') :
          (n \in 1 .. Len(issued) /\ issued'[n] = issued[n]) \/ issued'[n] = b
    BY <2>2
  <2>4. QED
    BY <2>2, <2>3 DEF RoleInv
<1>4. KeysGrow
  BY <1>2, RoleContext DEF KeysGrow
<1>5. \A x \in Device : SecretOf(x)' # Zero => SecretOf(x)' = store'[x].signed.pub
  BY <1>2 DEF RoleInv, SecretOf
<1>6. QED
  BY <1>1, <1>3, <1>4, <1>5, RolesKept

LEMMA ReplenishRoles ==
  ASSUME RoleInv, TypeInv', NEW d \in Device, Replenish(d), Others
  PROVE  RoleInv'
<1>1. UNCHANGED <<sessions, sent, accepted, issued>>
  BY DEF Others, Replenish
<1>2. KeysGrow
  <2>1. SecretsAge
    BY RoleContext, ReplenishKeys
  <2>2. QED
    BY <2>1, RoleContext DEF SecretsAge, KeysGrow
<1>3. \A x \in Device : store'[x].signed = store[x].signed
  <2>1. store \in [Device -> StoreType] /\ store[d] \in StoreType
    BY RoleContext
  <2>2. PICK o, n : store' = [store EXCEPT ![d].oneTime = o, ![d].nextId = n]
    BY DEF Replenish
  <2>3. QED
    BY <2>1, <2>2 DEF StoreType
<1>4. QED
  BY <1>1, <1>2, <1>3, RolesUntouched

LEMMA ReceiveRoles ==
  ASSUME RoleInv, TypeInv', NEW d \in Device, Receive(d)
  PROVE  RoleInv'
<1>1. PICK m \in sent :
        /\ m.to = d
        /\ IF \E s \in sessions[d][m.from] : RoutedTo(s, m)
           THEN ReceiveInSession(d, m)
           ELSE Respond(d, m) \/ Refused(d, m)
        /\ sent' = sent
  BY DEF Receive
<1>2. CASE ReceiveInSession(d, m)
  BY <1>1, <1>2, ReceiveInSessionRoles
<1>3. CASE Respond(d, m)
  BY <1>1, <1>3, RespondRoles
<1>4. CASE Refused(d, m)
  BY <1>1, <1>4, RolesUntouched, RoleContext DEF Refused, preKeyVars, KeysGrow
<1>5. QED
  BY <1>1, <1>2, <1>3, <1>4

LEMMA InitRoles == Init => RoleInv
<1> SUFFICES ASSUME Init PROVE RoleInv
  OBVIOUS
<1>1. /\ store = [d \in Device |-> [signed |-> [pub |-> 0, sec |-> 0], oneTime |-> {}, nextId |-> 1]]
      /\ issued = <<>> /\ sent = {}
      /\ sessions = [d \in Device |-> [e \in Device |-> {}]]
  BY DEF Init, PreKeysInit
<1>2. \A h : \E by, of : Assigned(h, by, of)
  BY <1>1 DEF Assigned
<1>3. QED
  BY <1>1, <1>2, InitTypes DEF RoleInv, SecretOf

LEMMA NextKeepsRoles == RoleInv /\ [Next]_vars => RoleInv'
<1> SUFFICES ASSUME RoleInv, [Next]_vars PROVE RoleInv'
  OBVIOUS
<1>1. TypeInv'
  BY NextKeepsTypes DEF RoleInv
<1>2. ASSUME NEW d \in Device, SeeCount(d), Others PROVE RoleInv'
  BY <1>1, <1>2, RolesUntouched, RoleContext DEF SeeCount, Others, KeysGrow
<1>3. CASE UNCHANGED vars
  BY <1>1, <1>3, RolesUntouched, RoleContext DEF vars, preKeyVars, KeysGrow
<1>4. ASSUME NEW d \in Device, NEW e \in Device \ {d}, Fetch(d, e) PROVE RoleInv'
  BY <1>1, <1>4, FetchRoles
<1>5. QED
  BY <1>1, <1>2, <1>3, <1>4, StartRoles, ReceiveRoles, ReplenishRoles, SendRoles, ForgetRoles,
     StartSessionRoles DEF Next

-----------------------------------------------------------------------------
(* Two sessions of one handshake are in step, and an initiator's session   *)
(* that nobody answered is in step with the one its answer will make.      *)

\* What d sent to e in the handshake h, and the keys of what has arrived of it.
Envelopes(d, e, h) == {m \in sent : m.from = d /\ m.to = e /\ Of(m) = h}

Msgs(d, e, h) == {m.msg : m \in Envelopes(d, e, h)}

GoneMsgs(d, e, h) == {m.msg.mk : m \in Envelopes(d, e, h) \cap arrived}

Distinct(d, e, h) == \A m, w \in Envelopes(d, e, h) : m.msg.mk = w.msg.mk => m = w

\* What the responder's ratchet will be when it answers s.
Virtual(s) == InitialiseResponder(<<RootOf(s)>>, KeyPair(s.ratchet.receiving))

\* s has sealed A and nothing came back.
Opening(s, A) ==
  s.ratchet.receiving # Zero /\ InStep(s.ratchet, Virtual(s), A, {}, {}, {})

Expecting(s) == ~ s.disturbed /\ s.establishedBy = Zero /\ ~ Closed(RootOf(s))

\* The only secret of a device in the handshake is the one s turned with.
Waiting(d, e, s) ==
  /\ Opening(s, Msgs(d, e, RootOf(s)))
  /\ \A x \in Device : SecretOf(x) \in RootOf(s) => SecretOf(x) = s.ratchet.receiving
  /\ Distinct(d, e, RootOf(s))

Together(d, e, s, t) ==
  LET h == RootOf(s)
  IN  /\ InStep(s.ratchet, t.ratchet, Msgs(d, e, h), Msgs(e, d, h),
                GoneMsgs(d, e, h), GoneMsgs(e, d, h))
      /\ Distinct(d, e, h) /\ Distinct(e, d, h)

\* d has sent e no more in h than the gap the code closes.
Short(d, e, h) ==
  IsFiniteSet(Msgs(d, e, h)) /\ Cardinality(Msgs(d, e, h)) <= MaxSkipPerChain

Near(d, e, s, t) == Paired(s, t) /\ Short(d, e, RootOf(s)) /\ Short(e, d, RootOf(s))

PairsInStep ==
  \A d, e \in Device : \A s \in sessions[d][e] :
    /\ Expecting(s) => Waiting(d, e, s)
    /\ \A t \in sessions[e][d] : Near(d, e, s, t) => Together(d, e, s, t)

PairInv == RoleInv /\ PairsInStep

-----------------------------------------------------------------------------
(* What was sent and what has arrived.                                     *)

LEMMA PairedRoots ==
  ASSUME NEW s, NEW t
  PROVE  Paired(s, t) <=> RootOf(s) = RootOf(t) /\ ~ s.disturbed /\ ~ t.disturbed
BY DEF Paired, RootOf

LEMMA TogetherSwap ==
  ASSUME NEW d, NEW e, NEW s, NEW t, RootOf(s) = RootOf(t), Together(d, e, s, t)
  PROVE  Together(e, d, t, s)
BY InStepSwap DEF Together

LEMMA EnvelopesSent ==
  ASSUME NEW d, NEW e, NEW h
  PROVE  /\ Envelopes(d, e, h) \subseteq sent
         /\ \A x \in Msgs(d, e, h) : \E m \in Envelopes(d, e, h) : x = m.msg
         /\ \A m \in Envelopes(d, e, h) : m.msg \in Msgs(d, e, h)
BY DEF Envelopes, Msgs

\* With no message between the two, nothing they sent each other changes.
LEMMA EnvelopesStay ==
  ASSUME NEW d, NEW e, NEW h, sent \subseteq sent', arrived \subseteq arrived',
         \A m \in sent' : m \in sent \/ ~ (m.from = d /\ m.to = e /\ Of(m) = h)
  PROVE  /\ Envelopes(d, e, h)' = Envelopes(d, e, h)
         /\ Msgs(d, e, h)' = Msgs(d, e, h)
         /\ Distinct(d, e, h)' = Distinct(d, e, h)
         /\ GoneMsgs(d, e, h) \subseteq GoneMsgs(d, e, h)'
<1>1. Envelopes(d, e, h)' = Envelopes(d, e, h)
  BY DEF Envelopes, Of
<1>2. QED
  BY <1>1 DEF Msgs, Distinct, GoneMsgs

\* One message more from d to e.
LEMMA EnvelopesMore ==
  ASSUME NEW d, NEW e, NEW h, NEW m, m.from = d, m.to = e, Of(m) = h,
         sent' = sent \cup {m}, arrived' = arrived
  PROVE  /\ Envelopes(d, e, h)' = Envelopes(d, e, h) \cup {m}
         /\ Msgs(d, e, h)' = Msgs(d, e, h) \cup {m.msg}
         /\ GoneMsgs(d, e, h) \subseteq GoneMsgs(d, e, h)'
<1>1. Envelopes(d, e, h)' = Envelopes(d, e, h) \cup {m}
  BY DEF Envelopes, Of
<1>2. QED
  BY <1>1 DEF Msgs, GoneMsgs

LEMMA ShortIsFew ==
  ASSUME NEW d, NEW e, NEW h, Short(d, e, h)
  PROVE  Few(Msgs(d, e, h))
<1>1. Cardinality(Msgs(d, e, h)) \in Nat
  BY FS_CardinalityType DEF Short
<1>2. QED
  BY <1>1, SkipBounds DEF Short, Few

\* Nothing sent is taken back.
LEMMA ShortBefore ==
  ASSUME sent \subseteq sent', NEW d, NEW e, NEW h, Short(d, e, h)'
  PROVE  Short(d, e, h)
<1>1. PICK A, B : A = Msgs(d, e, h) /\ B = Msgs(d, e, h)'
  OBVIOUS
<1>2. A \subseteq B
  BY <1>1 DEF Msgs, Envelopes, Of
<1>3. IsFiniteSet(B) /\ Cardinality(B) <= MaxSkipPerChain
  BY <1>1 DEF Short
<1>4. IsFiniteSet(A) /\ Cardinality(A) <= Cardinality(B)
  BY <1>2, <1>3, FS_Subset
<1>5. Cardinality(A) \in Nat /\ Cardinality(B) \in Nat
  BY <1>3, <1>4, FS_CardinalityType
<1>6. QED
  BY <1>1, <1>3, <1>4, <1>5, SkipBounds DEF Short

LEMMA NearBefore ==
  ASSUME sent \subseteq sent', NEW d, NEW e, NEW s, NEW t, Near(d, e, s, t)'
  PROVE  Near(d, e, s, t)
BY ShortBefore DEF Near, Paired, RootOf

LEMMA NearSwap ==
  ASSUME NEW d, NEW e, NEW s, NEW t, Near(d, e, s, t)
  PROVE  Near(e, d, t, s)
BY PairedRoots DEF Near

\* A pair made now is new to both.
LEMMA NextKeyIsNew ==
  ASSUME RoleInv, NEW s, NEW t, Made(t.sending.pub), NEW d, NEW e, NEW h,
         NEW B, B \subseteq Msgs(d, e, h)
  PROVE  NewPair(s, t, B, nextKey)
<1>1. nextKey \in Nat /\ 0 < nextKey
  BY RoleContext
<1>2. \A w \in B : Made(w.key)
  BY EnvelopesSent DEF RoleInv, MessageBase
<1>3. QED
  BY <1>1, <1>2 DEF NewPair, Made, Key, Zero

\* What has not arrived is not gone.
LEMMA NotGone ==
  ASSUME NEW d, NEW e, NEW h, Distinct(d, e, h), NEW m \in Envelopes(d, e, h), m \notin arrived
  PROVE  m.msg.mk \notin GoneMsgs(d, e, h)
BY DEF Distinct, GoneMsgs

LEMMA VirtualWhole ==
  ASSUME NEW s, WholeSession(s), s.ratchet.rootKey # <<>>
  PROVE  <<RootOf(s)>> \in Seq(Output) /\ Whole(Virtual(s))
<1>1. s.ratchet.rootKey \in Seq(Output) /\ s.ratchet.receiving \in Key
  BY DEF WholeSession, Whole, RatchetState
<1>2. RootOf(s) \in Output
  BY <1>1 DEF RootOf, HandshakeOf
<1>3. PICK root : root = <<RootOf(s)>>
  OBVIOUS
<1>4. root \in Seq(Output)
  BY <1>2, <1>3
<1>5. PICK pair : pair = KeyPair(s.ratchet.receiving)
  OBVIOUS
<1>6. pair \in [pub : Key, sec : Key]
  BY <1>1, <1>5 DEF KeyPair
<1>7. Whole(InitialiseResponder(root, pair))
  BY <1>4, <1>6, ResponderWhole
<1>8. QED
  BY <1>3, <1>4, <1>5, <1>7 DEF Virtual

-----------------------------------------------------------------------------
(* Sessions that a step does not touch.                                    *)

LEMMA WaitingStays ==
  ASSUME nextKey \in Nat, SecretsAge,
         NEW d, NEW e, NEW s, SessionBase(s), Waiting(d, e, s),
         sent \subseteq sent', arrived \subseteq arrived',
         \A m \in sent' : m \in sent \/ ~ (m.from = d /\ m.to = e)
  PROVE  Waiting(d, e, s)'
<1>1. PICK h : h = RootOf(s)
  OBVIOUS
<1>2. Msgs(d, e, h)' = Msgs(d, e, h) /\ Distinct(d, e, h)' = Distinct(d, e, h)
  BY EnvelopesStay
<1>3. ASSUME NEW x \in Device, SecretOf(x)' \in h
      PROVE  SecretOf(x)' = s.ratchet.receiving
  <2>1. Usable(SecretOf(x)')
    BY <1>1, <1>3 DEF SessionBase
  <2>2. SecretOf(x)' = SecretOf(x)
    BY <2>1 DEF SecretsAge, Usable, Zero
  <2>3. QED
    BY <1>1, <1>3, <2>2 DEF Waiting
<1>4. Opening(s, Msgs(d, e, h)) /\ Distinct(d, e, h)
  BY <1>1 DEF Waiting
<1>5. Opening(s, Msgs(d, e, h)') /\ Distinct(d, e, h)'
  BY <1>2, <1>4
<1>6. QED
  BY <1>1, <1>3, <1>5 DEF Waiting, Opening, Virtual, RootOf

LEMMA TogetherStays ==
  ASSUME NEW d, NEW e, NEW s, NEW t, Together(d, e, s, t),
         sent \subseteq sent', arrived \subseteq arrived',
         \A m \in sent' : m \in sent \/ ~ ((m.from = d /\ m.to = e) \/ (m.from = e /\ m.to = d))
  PROVE  Together(d, e, s, t)'
<1>1. PICK h : h = RootOf(s)
  OBVIOUS
<1>2. /\ Msgs(d, e, h)' = Msgs(d, e, h) /\ Distinct(d, e, h)' = Distinct(d, e, h)
      /\ GoneMsgs(d, e, h) \subseteq GoneMsgs(d, e, h)'
  BY EnvelopesStay
<1>3. /\ Msgs(e, d, h)' = Msgs(e, d, h) /\ Distinct(e, d, h)' = Distinct(e, d, h)
      /\ GoneMsgs(e, d, h) \subseteq GoneMsgs(e, d, h)'
  BY EnvelopesStay
<1>4. /\ InStep(s.ratchet, t.ratchet, Msgs(d, e, h), Msgs(e, d, h),
                GoneMsgs(d, e, h), GoneMsgs(e, d, h))
      /\ Distinct(d, e, h) /\ Distinct(e, d, h)
  BY <1>1 DEF Together
<1>5. InStep(s.ratchet, t.ratchet, Msgs(d, e, h), Msgs(e, d, h),
             GoneMsgs(d, e, h)', GoneMsgs(e, d, h)')
  BY <1>2, <1>3, <1>4, InStepGone
<1>6. QED
  BY <1>1, <1>2, <1>3, <1>4, <1>5 DEF Together, RootOf

LEMMA StillExpecting ==
  ASSUME AnswersGrow, NEW s, Expecting(s)'
  PROVE  Expecting(s)
<1>1. Closed(RootOf(s)) => Closed(RootOf(s))'
  BY RolesMonotone DEF RootOf
<1>2. QED
  BY <1>1 DEF Expecting, RootOf

\* Steps that make no session and send nothing.
LEMMA PairsKept ==
  ASSUME PairInv, SecretsAge, AnswersGrow, sent' = sent, arrived \subseteq arrived',
         \A d, e \in Device : sessions'[d][e] \subseteq sessions[d][e]
  PROVE  PairsInStep'
<1>1. SUFFICES ASSUME NEW d \in Device, NEW e \in Device, NEW s \in sessions'[d][e]
               PROVE  /\ Expecting(s)' => Waiting(d, e, s)'
                      /\ \A t \in sessions'[e][d] : Near(d, e, s, t)' => Together(d, e, s, t)'
  BY DEF PairsInStep
<1>2. s \in sessions[d][e] /\ SessionBase(s)
  BY <1>1 DEF PairInv, RoleInv
<1>3. Expecting(s)' => Waiting(d, e, s)'
  <2>1. SUFFICES ASSUME Expecting(s)' PROVE Waiting(d, e, s)'
    OBVIOUS
  <2>2. Expecting(s)
    BY <2>1, StillExpecting
  <2>3. Waiting(d, e, s)
    BY <1>2, <2>2 DEF PairInv, PairsInStep
  <2>4. QED
    BY <1>2, <2>3, WaitingStays, RoleContext DEF PairInv
<1>4. ASSUME NEW t \in sessions'[e][d], Near(d, e, s, t)' PROVE Together(d, e, s, t)'
  <2>1. Together(d, e, s, t)
    BY <1>2, <1>4, NearBefore DEF PairInv, PairsInStep
  <2>2. \A m \in sent' : m \in sent \/ ~ ((m.from = d /\ m.to = e) \/ (m.from = e /\ m.to = d))
    OBVIOUS
  <2>3. sent \subseteq sent'
    OBVIOUS
  <2>4. QED
    BY <2>1, <2>2, <2>3, TogetherStays
<1>5. QED
  BY <1>3, <1>4

\* Steps that replace the session of d with e, which may send.
LEMMA PairsPut ==
  ASSUME PairInv, SecretsAge, AnswersGrow,
         NEW d \in Device, NEW e \in Device, d # e, NEW t, Puts(d, e, {t}),
         sent \subseteq sent', arrived \subseteq arrived',
         \A m \in sent' : m \in sent \/ (m.from = d /\ m.to = e),
         Expecting(t)' => Waiting(d, e, t)',
         \A r \in sessions[e][d] : Near(d, e, t, r)' => Together(d, e, t, r)'
  PROVE  PairsInStep'
<1>1. SUFFICES ASSUME NEW x \in Device, NEW y \in Device, NEW s \in sessions'[x][y]
               PROVE  /\ Expecting(s)' => Waiting(x, y, s)'
                      /\ \A r \in sessions'[y][x] : Near(x, y, s, r)' => Together(x, y, s, r)'
  BY DEF PairsInStep
<1>2. \A u, v \in Device : sessions'[u][v] = IF u = d /\ v = e THEN {t} ELSE sessions[u][v]
  BY RoleContext, SessionPut DEF PairInv
<1>3. Expecting(s)' => Waiting(x, y, s)'
  <2>1. SUFFICES ASSUME Expecting(s)' PROVE Waiting(x, y, s)'
    OBVIOUS
  <2>2. CASE x = d /\ y = e
    BY <1>1, <1>2, <2>1, <2>2
  <2>3. CASE ~ (x = d /\ y = e)
    <3>1. s \in sessions[x][y] /\ SessionBase(s)
      BY <1>1, <1>2, <2>3 DEF PairInv, RoleInv
    <3>2. Expecting(s)
      BY <2>1, StillExpecting
    <3>3. Waiting(x, y, s)
      BY <3>1, <3>2 DEF PairInv, PairsInStep
    <3>4. \A m \in sent' : m \in sent \/ ~ (m.from = x /\ m.to = y)
      BY <2>3
    <3>5. QED
      BY <3>1, <3>3, <3>4, WaitingStays, RoleContext DEF PairInv
  <2>4. QED
    BY <2>2, <2>3
<1>4. ASSUME NEW r \in sessions'[y][x], Near(x, y, s, r)' PROVE Together(x, y, s, r)'
  <2>1. CASE x = d /\ y = e
    BY <1>1, <1>2, <1>4, <2>1
  <2>2. CASE y = d /\ x = e
    <3>1. s \in sessions[e][d] /\ r = t
      BY <1>1, <1>2, <1>4, <2>2
    <3>2. Near(d, e, t, s)'
      BY <1>4, <2>2, <3>1, PairedRoots DEF Near, Paired, RootOf
    <3>3. Together(d, e, t, s)'
      BY <3>1, <3>2
    <3>4. RootOf(t) = RootOf(s)
      BY <3>2 DEF Near, Paired, RootOf
    <3>5. Together(e, d, s, t)'
      <4>1. /\ InStep(t.ratchet, s.ratchet, Msgs(d, e, RootOf(t))', Msgs(e, d, RootOf(t))',
                      GoneMsgs(d, e, RootOf(t))', GoneMsgs(e, d, RootOf(t))')
            /\ Distinct(d, e, RootOf(t))' /\ Distinct(e, d, RootOf(t))'
        BY <3>3 DEF Together, RootOf
      <4>2. InStep(s.ratchet, t.ratchet, Msgs(e, d, RootOf(t))', Msgs(d, e, RootOf(t))',
                   GoneMsgs(e, d, RootOf(t))', GoneMsgs(d, e, RootOf(t))')
        BY <4>1, InStepSwap
      <4>3. QED
        BY <3>4, <4>1, <4>2 DEF Together, RootOf
    <3>6. QED
      BY <2>2, <3>1, <3>5
  <2>3. CASE ~ (x = d /\ y = e) /\ ~ (y = d /\ x = e)
    <3>1. s \in sessions[x][y] /\ r \in sessions[y][x]
      BY <1>1, <1>2, <1>4, <2>3
    <3>2. Together(x, y, s, r)
      BY <1>4, <3>1, NearBefore DEF PairInv, PairsInStep
    <3>3. \A m \in sent' :
            m \in sent \/ ~ ((m.from = x /\ m.to = y) \/ (m.from = y /\ m.to = x))
      <4>1. SUFFICES ASSUME NEW m \in sent', m \notin sent
                     PROVE  ~ ((m.from = x /\ m.to = y) \/ (m.from = y /\ m.to = x))
        OBVIOUS
      <4>2. m.from = d /\ m.to = e
        BY <4>1
      <4>3. QED
        BY <2>3, <4>2
    <3>4. QED
      BY <3>2, <3>3, TogetherStays
  <2>4. QED
    BY <2>1, <2>2, <2>3
<1>5. QED
  BY <1>3, <1>4

-----------------------------------------------------------------------------
(* Sealing.                                                                *)

LEMMA OpeningSeals ==
  ASSUME NEW s, WholeSession(s), s.ratchet.rootKey # <<>>, CanEncrypt(s.ratchet),
         NEW A, Opening(s, A),
         NEW t, RootOf(t) = RootOf(s), t.ratchet = AfterEncrypt(s.ratchet)
  PROVE  Opening(t, A \cup {Sealed(s.ratchet)})
<1>1. t.ratchet.receiving = s.ratchet.receiving
  BY DEF AfterEncrypt, WholeSession, Whole, RatchetState
<1>2. Virtual(t) = Virtual(s)
  BY <1>1 DEF Virtual
<1>3. Whole(s.ratchet) /\ Whole(Virtual(s))
  BY VirtualWhole DEF WholeSession
<1>4. InStep(AfterEncrypt(s.ratchet), Virtual(s), A \cup {Sealed(s.ratchet)}, {}, {}, {})
  BY <1>3, SealInStep DEF Opening
<1>5. QED
  BY <1>1, <1>2, <1>4 DEF Opening

LEMMA SealedIsNew ==
  ASSUME NEW s, Whole(s), NEW A, Sends(s, A), NEW m \in A
  PROVE  m.mk # s.sendingChainKey
<1>1. SUFFICES ASSUME m.mk = s.sendingChainKey PROVE FALSE
  OBVIOUS
<1>2. m.key = s.sending.pub /\ m.n < s.sentCount /\ m.mk.pos = m.n
  BY <1>1 DEF Sends
<1>3. m.n = s.sentCount /\ s.sentCount \in Nat
  BY <1>1, <1>2 DEF Whole, RatchetState
<1>4. QED
  BY <1>2, <1>3

LEMMA DistinctSeals ==
  ASSUME NEW d, NEW e, NEW h, Distinct(d, e, h), NEW s, Whole(s), Sends(s, Msgs(d, e, h)),
         NEW m, m.msg = Sealed(s), Envelopes(d, e, h)' = Envelopes(d, e, h) \cup {m}
  PROVE  Distinct(d, e, h)'
<1>1. m.msg.mk = s.sendingChainKey
  BY DEF Sealed
<1>2. \A w \in Envelopes(d, e, h) : w.msg.mk # m.msg.mk
  BY <1>1, EnvelopesSent, SealedIsNew
<1>3. QED
  BY <1>2 DEF Distinct

LEMMA SendPairs ==
  ASSUME PairInv, SecretsAge, AnswersGrow,
         NEW d \in Device, NEW e \in Device, d # e, Send(d, e)
  PROVE  PairsInStep'
<1>1. PICK s \in sessions[d][e] :
        /\ CanEncrypt(s.ratchet)
        /\ sent' = sent \cup {Sealing(d, e, s)}
        /\ Puts(d, e, {[s EXCEPT !.ratchet = AfterEncrypt(@)]})
        /\ UNCHANGED <<store, arrived, accepted>>
  BY DEF Send, Puts, preKeyVars
<1>2. PICK t : t = [s EXCEPT !.ratchet = AfterEncrypt(@)]
  OBVIOUS
<1>3. PICK m : m = Sealing(d, e, s)
  OBVIOUS
<1>4. WholeSession(s) /\ SessionBase(s)
  BY <1>1, TheSession DEF PairInv, RoleInv
<1>5. PICK h : h = RootOf(s)
  OBVIOUS
<1>6. /\ RootOf(t) = h
      /\ t.ratchet = AfterEncrypt(s.ratchet)
      /\ t.establishedBy = s.establishedBy /\ t.disturbed = s.disturbed
      /\ m.from = d /\ m.to = e /\ m.msg = Sealed(s.ratchet) /\ Of(m) = h
  BY <1>1, <1>2, <1>3, <1>4, <1>5, SealingRole
<1>7. s.ratchet.rootKey # <<>> /\ Whole(s.ratchet)
  BY <1>4 DEF SessionBase, WholeSession
<1>8. /\ Envelopes(d, e, h)' = Envelopes(d, e, h) \cup {m}
      /\ Msgs(d, e, h)' = Msgs(d, e, h) \cup {Sealed(s.ratchet)}
      /\ GoneMsgs(d, e, h) \subseteq GoneMsgs(d, e, h)'
  BY <1>1, <1>3, <1>6, EnvelopesMore
<1>9. /\ Msgs(e, d, h)' = Msgs(e, d, h) /\ Distinct(e, d, h)' = Distinct(e, d, h)
      /\ GoneMsgs(e, d, h) \subseteq GoneMsgs(e, d, h)'
  <2>1. \A w \in sent' : w \in sent \/ ~ (w.from = e /\ w.to = d /\ Of(w) = h)
    BY <1>1, <1>3, <1>6
  <2>2. QED
    BY <1>1, <2>1, EnvelopesStay
<1>10. Expecting(t)' => Waiting(d, e, t)'
  <2>1. SUFFICES ASSUME Expecting(t)' PROVE Waiting(d, e, t)'
    OBVIOUS
  <2>2. Expecting(s)
    <3>1. Expecting(t)
      BY <2>1, StillExpecting
    <3>2. QED
      BY <1>5, <1>6, <3>1 DEF Expecting
  <2>3. Waiting(d, e, s)
    BY <1>1, <2>2 DEF PairInv, PairsInStep
  <2>4. Opening(s, Msgs(d, e, h)) /\ Distinct(d, e, h)
    BY <1>5, <2>3 DEF Waiting
  <2>5. Opening(t, Msgs(d, e, h)')
    BY <1>1, <1>4, <1>5, <1>6, <1>7, <1>8, <2>4, OpeningSeals
  <2>6. Distinct(d, e, h)'
    <3>1. Sends(s.ratchet, Msgs(d, e, h))
      BY <2>4 DEF Opening, InStep, Stream
    <3>2. QED
      BY <1>6, <1>7, <1>8, <2>4, <3>1, DistinctSeals
  <2>7. \A x \in Device : SecretOf(x)' \in h => SecretOf(x)' = t.ratchet.receiving
    <3>1. t.ratchet.receiving = s.ratchet.receiving
      BY <1>6, <1>7 DEF AfterEncrypt, Whole, RatchetState
    <3>2. QED
      BY <1>1, <1>5, <2>3, <3>1 DEF Waiting, SecretOf
  <2>8. QED
    BY <1>6, <2>5, <2>6, <2>7 DEF Waiting, Opening, Virtual, RootOf
<1>11. ASSUME NEW r \in sessions[e][d], Near(d, e, t, r)' PROVE Together(d, e, t, r)'
  <2>1. Near(d, e, s, r)
    <3>1. Near(d, e, t, r)
      BY <1>1, <1>11, NearBefore
    <3>2. QED
      BY <1>5, <1>6, <3>1, PairedRoots DEF Near
  <2>2. Together(d, e, s, r)
    BY <1>1, <1>11, <2>1 DEF PairInv, PairsInStep
  <2>3. /\ InStep(s.ratchet, r.ratchet, Msgs(d, e, h), Msgs(e, d, h),
                  GoneMsgs(d, e, h), GoneMsgs(e, d, h))
        /\ Distinct(d, e, h) /\ Distinct(e, d, h)
    BY <1>5, <2>2 DEF Together
  <2>4. Whole(r.ratchet)
    BY <1>11, TheSession DEF PairInv, RoleInv, WholeSession
  <2>5. InStep(t.ratchet, r.ratchet, Msgs(d, e, h)', Msgs(e, d, h),
               GoneMsgs(d, e, h), GoneMsgs(e, d, h))
    BY <1>1, <1>6, <1>7, <1>8, <2>3, <2>4, SealInStep
  <2>6. InStep(t.ratchet, r.ratchet, Msgs(d, e, h)', Msgs(e, d, h)',
               GoneMsgs(d, e, h)', GoneMsgs(e, d, h)')
    BY <1>8, <1>9, <2>5, InStepGone
  <2>7. Distinct(d, e, h)'
    <3>1. Sends(s.ratchet, Msgs(d, e, h))
      BY <2>3 DEF InStep, Stream
    <3>2. QED
      BY <1>6, <1>7, <1>8, <2>3, <3>1, DistinctSeals
  <2>8. QED
    BY <1>6, <1>9, <2>3, <2>6, <2>7 DEF Together, RootOf
<1>12. QED
  BY <1>1, <1>2, <1>3, <1>6, <1>10, <1>11, PairsPut

-----------------------------------------------------------------------------
(* Arrivals.                                                               *)

\* v takes a message of r that has not arrived.
LEMMA ArrivalInStep ==
  ASSUME RoleInv, sent' = sent,
         NEW d, NEW e, NEW h, Short(e, d, h), NEW r, Whole(r), NEW v, Whole(v), Made(v.sending.pub),
         NEW B, B \subseteq Msgs(d, e, h), NEW G, G \subseteq GoneMsgs(e, d, h), NEW H,
         InStep(r, v, Msgs(e, d, h), B, G, H),
         NEW m \in Envelopes(e, d, h), m.msg.mk \notin G, arrived' = arrived \cup {m},
         NEW u, u = RatchetDecrypt(v, m.msg, nextKey).state
  PROVE  InStep(r, u, Msgs(e, d, h), B, GoneMsgs(e, d, h)', H)
<1>1. PICK A : A = Msgs(e, d, h)
  OBVIOUS
<1>2. Few(A)
  BY <1>1, ShortIsFew
<1>3. PICK w : w = m.msg
  OBVIOUS
<1>4. w \in A
  BY <1>1, <1>3, EnvelopesSent
<1>5. InStep(r, v, A, B, G, H) /\ w.mk \notin G
  BY <1>1, <1>3
<1>6. Timely(r, v, w)
  BY <1>4, <1>5, TimelyUnlessGone
<1>7. NewPair(r, v, B, nextKey)
  BY NextKeyIsNew
<1>8. u = RatchetDecrypt(v, w, nextKey).state
  BY <1>3
<1>9. PICK lost : lost = Cached(v.skipped) \ Cached(u.skipped)
  OBVIOUS
<1>10. lost \subseteq {w.mk}
  BY <1>2, <1>4, <1>5, <1>6, <1>7, <1>8, <1>9, ReceiveKeepsCache
<1>11. /\ Stream(r, u, A, G \cup {w.mk} \cup lost, MaxSkippedKeys)
       /\ Stream(u, r, B, H, MaxSkippedKeys)
       /\ Leads(r, u) \/ Leads(u, r)
  BY <1>4, <1>5, <1>6, <1>7, <1>8, <1>9, ReceiveInStep
<1>12. InStep(r, u, A, B, G \cup {w.mk} \cup lost, H)
  BY <1>11 DEF InStep
<1>13. G \cup {w.mk} \cup lost \subseteq GoneMsgs(e, d, h)'
  <2>1. Envelopes(e, d, h)' = Envelopes(e, d, h)
    BY DEF Envelopes, Of
  <2>2. w.mk \in GoneMsgs(e, d, h)' /\ GoneMsgs(e, d, h) \subseteq GoneMsgs(e, d, h)'
    BY <1>3, <2>1 DEF GoneMsgs
  <2>3. QED
    BY <1>10, <2>2
<1>14. QED
  BY <1>1, <1>12, <1>13, InStepGone

LEMMA ReceiveInSessionPairs ==
  ASSUME PairInv, SecretsAge, AnswersGrow,
         NEW d \in Device, NEW m \in sent, m.to = d, ReceiveInSession(d, m), sent' = sent,
         arrived' = arrived \cup {m}
  PROVE  PairsInStep'
<1>1. PICK s \in sessions[d][m.from] :
        /\ sessions' = [sessions EXCEPT ![d][m.from] =
             {[s EXCEPT !.ratchet = InSession(s, m).state,
                    !.pending = IF InSession(s, m).ok /\ m.preamble = {} THEN {} ELSE @,
                    !.disturbed = \/ @ \/ m \in arrived
                                  \/ HandshakeOf(m.msg.mk.id) # HandshakeOf(s.ratchet.rootKey)]}]
        /\ nextKey' = NextKeyAfter(InSession(s, m))
  BY DEF ReceiveInSession
<1>2. UNCHANGED <<store, issued, accepted>>
  BY DEF ReceiveInSession
<1>3. PICK e \in Device : e = m.from
  BY DEF PairInv, RoleInv, TypeInv, Envelope
<1>4. WholeSession(s) /\ SessionBase(s) /\ d # e /\ m.msg \in Message /\ s \in sessions[d][e]
  BY <1>1, <1>3, TheSession DEF PairInv, RoleInv, TypeInv, Envelope
<1>5. PICK t : t = [s EXCEPT !.ratchet = InSession(s, m).state,
                    !.pending = IF InSession(s, m).ok /\ m.preamble = {} THEN {} ELSE @,
                    !.disturbed = \/ @ \/ m \in arrived
                                  \/ HandshakeOf(m.msg.mk.id) # HandshakeOf(s.ratchet.rootKey)]
  OBVIOUS
<1>6. /\ t.ratchet = RatchetDecrypt(s.ratchet, m.msg, nextKey).state
      /\ t.establishedBy = s.establishedBy
      /\ ~ t.disturbed => ~ s.disturbed /\ m \notin arrived /\ Of(m) = RootOf(s)
  BY <1>4, <1>5 DEF WholeSession, Session, InSession, Of, RootOf
<1>7. Puts(d, e, {t})
  BY <1>1, <1>3, <1>5 DEF Puts
<1>8. RootOf(t) = RootOf(s)
  <2>1. PICK result : result = RatchetDecrypt(s.ratchet, m.msg, nextKey)
    OBVIOUS
  <2>2. nextKey' = NextKeyAfter(result) /\ t.ratchet = result.state
    BY <1>1, <1>6, <2>1 DEF InSession
  <2>3. KeysGrow
    BY <2>2, NextKeyGrows, RoleContext DEF KeysGrow, PairInv
  <2>4. QED
    BY <1>4, <2>1, <2>2, <2>3, DecryptRole DEF WholeSession
\* Whoever hears from the responder knows that it answered.
<1>9. ~ Expecting(t)'
  <2>1. SUFFICES ASSUME Expecting(t)' PROVE FALSE
    OBVIOUS
  <2>2. /\ s.establishedBy = Zero /\ ~ t.disturbed /\ ~ Closed(RootOf(s))
    BY <1>6, <1>8, <2>1, StillExpecting DEF Expecting
  <2>3. PICK by, of : Assigned(RootOf(s), by, of)
    BY DEF PairInv, RoleInv
  <2>4. d = by
    BY <1>3, <1>4, <2>2, <2>3 DEF Assigned, RoleOfSession
  <2>5. RoleOfMessage(m, by, of)
    BY <1>6, <2>2, <2>3 DEF Assigned
  <2>6. QED
    BY <1>3, <1>4, <1>6, <2>2, <2>4, <2>5 DEF RoleOfMessage
<1>10. ASSUME NEW r \in sessions[e][d], Near(d, e, t, r)' PROVE Together(d, e, t, r)'
  <2>1. PICK h : h = RootOf(s)
    OBVIOUS
  <2>2. ~ t.disturbed /\ Near(e, d, r, s) /\ RootOf(r) = h /\ RootOf(t) = h /\ Short(e, d, h)
    <3>1. Near(d, e, t, r)
      BY <1>10, NearBefore
    <3>2. QED
      BY <1>6, <1>8, <2>1, <3>1, PairedRoots DEF Near
  <2>3. Together(e, d, r, s)
    BY <1>4, <1>10, <2>2 DEF PairInv, PairsInStep
  <2>4. /\ InStep(r.ratchet, s.ratchet, Msgs(e, d, h), Msgs(d, e, h),
                  GoneMsgs(e, d, h), GoneMsgs(d, e, h))
        /\ Distinct(e, d, h) /\ Distinct(d, e, h)
    BY <2>2, <2>3 DEF Together
  <2>5. m \in Envelopes(e, d, h) /\ m \notin arrived
    BY <1>3, <1>6, <2>1, <2>2 DEF Envelopes
  <2>6. m.msg.mk \notin GoneMsgs(e, d, h)
    BY <2>4, <2>5, NotGone
  <2>7. Whole(r.ratchet) /\ Whole(s.ratchet) /\ Made(s.ratchet.sending.pub)
    BY <1>4, <1>10, TheSession DEF PairInv, RoleInv, WholeSession, SessionBase
  <2>8. InStep(r.ratchet, t.ratchet, Msgs(e, d, h), Msgs(d, e, h),
               GoneMsgs(e, d, h)', GoneMsgs(d, e, h))
    BY <1>6, <2>2, <2>4, <2>5, <2>6, <2>7, ArrivalInStep DEF PairInv
  <2>9. /\ Msgs(e, d, h)' = Msgs(e, d, h) /\ Distinct(e, d, h)' = Distinct(e, d, h)
        /\ Msgs(d, e, h)' = Msgs(d, e, h) /\ Distinct(d, e, h)' = Distinct(d, e, h)
        /\ GoneMsgs(d, e, h) \subseteq GoneMsgs(d, e, h)'
    BY EnvelopesStay
  <2>10. InStep(r.ratchet, t.ratchet, Msgs(e, d, h)', Msgs(d, e, h)',
                GoneMsgs(e, d, h)', GoneMsgs(d, e, h)')
    BY <2>8, <2>9, InStepGone
  <2>11. InStep(t.ratchet, r.ratchet, Msgs(d, e, h)', Msgs(e, d, h)',
                GoneMsgs(d, e, h)', GoneMsgs(e, d, h)')
    BY <2>10, InStepSwap
  <2>12. QED
    BY <2>2, <2>4, <2>9, <2>11 DEF Together, RootOf
<1>11. QED
  BY <1>4, <1>7, <1>9, <1>10, PairsPut

\* Whose key is answered is the newest of its handshake, which nobody had
\* answered, and what the answer turns with is what the initiator turned with.
LEMMA AnswerAwaited ==
  ASSUME PairInv, NEW d \in Device, NEW e \in Device, NEW m \in sent, m.from = e, m.to = d,
         NEW p \in m.preamble, Answer(d, p, m).ok
  PROVE  /\ Newest(p.ephemeral, Of(m)) /\ ~ Closed(Of(m)) /\ Envelopes(d, e, Of(m)) = {}
         /\ \A r \in sessions[e][d] :
              RootOf(r) = Of(m) /\ ~ r.disturbed =>
                Waiting(e, d, r) /\ SecretOf(d) = r.ratchet.receiving
<1>1. SecretOf(d) \in Of(m) /\ \A k \in Of(m) : k \in Nat
  BY AnswerRoot DEF PairInv, RoleInv, MessageBase, Usable
<1>2. PICK by, of : Assigned(Of(m), by, of)
  BY DEF PairInv, RoleInv
<1>3. d # e
  BY DEF PairInv, RoleInv
<1>4. by = e /\ of = d /\ Newest(p.ephemeral, Of(m))
  BY <1>2 DEF Assigned, RoleOfMessage
<1>5. ~ Closed(Of(m))
  <2>1. SUFFICES ASSUME Closed(Of(m)) PROVE FALSE
    OBVIOUS
  <2>2. PICK x \in Of(m) : Newest(x, Of(m)) /\ HasAnsweredTo(x)
    BY <2>1 DEF Closed
  <2>3. x = p.ephemeral
    BY <1>1, <1>4, <2>2 DEF Newest
  <2>4. Tagged(x, Of(m))
    BY <2>3 DEF Tagged, Of
  <2>5. TagSafe(x, Of(m))
    BY <2>4, RoleContext DEF OneRoot, PairInv
  <2>6. QED
    BY <1>1, <2>2, <2>5 DEF TagSafe
<1>6. Envelopes(d, e, Of(m)) = {}
  BY <1>2, <1>3, <1>4, <1>5 DEF Envelopes, Assigned, RoleOfMessage
<1>7. ASSUME NEW r \in sessions[e][d], RootOf(r) = Of(m), ~ r.disturbed
      PROVE  Waiting(e, d, r) /\ SecretOf(d) = r.ratchet.receiving
  <2>1. r.establishedBy = Zero
    BY <1>2, <1>3, <1>4, <1>7 DEF Assigned, RoleOfSession
  <2>2. Expecting(r)
    BY <1>5, <1>7, <2>1 DEF Expecting
  <2>3. Waiting(e, d, r)
    BY <1>7, <2>2 DEF PairInv, PairsInStep
  <2>4. QED
    BY <1>1, <1>7, <2>3 DEF Waiting
<1>8. QED
  BY <1>4, <1>5, <1>6, <1>7

LEMMA RespondPairs ==
  ASSUME PairInv, SecretsAge, AnswersGrow,
         NEW d \in Device, NEW m \in sent, m.to = d, Respond(d, m), sent' = sent,
         arrived' = arrived \cup {m}
  PROVE  PairsInStep'
<1>1. PICK p \in m.preamble :
        IF Answer(d, p, m).ok
        THEN /\ sessions' = [sessions EXCEPT ![d][m.from] =
                  {[ratchet |-> Answer(d, p, m).state, pending |-> {},
                    establishedBy |-> p.ephemeral, disturbed |-> FALSE]}]
             /\ nextKey' = NextKeyAfter(Answer(d, p, m))
             /\ accepted' = Append(accepted, [by |-> d, preamble |-> p])
        ELSE UNCHANGED <<sessions, nextKey, accepted>>
  BY DEF Respond
<1>2. CASE ~ Answer(d, p, m).ok
  BY <1>1, <1>2, PairsKept
<1>3. CASE Answer(d, p, m).ok
  <2>1. PICK t : t = [ratchet |-> Answer(d, p, m).state, pending |-> {},
                      establishedBy |-> p.ephemeral, disturbed |-> FALSE]
    OBVIOUS
  <2>2. t.ratchet = Answer(d, p, m).state
    BY <2>1
  <2>3. PICK e \in Device : e = m.from
    BY DEF PairInv, RoleInv, TypeInv, Envelope
  <2>4. d # e /\ Puts(d, e, {t}) /\ nextKey' = NextKeyAfter(Answer(d, p, m))
    BY <1>1, <1>3, <2>1, <2>3 DEF Puts, PairInv, RoleInv
  <2>5. PICK h : h = Of(m)
    OBVIOUS
  <2>6. RootOf(t) = h
    <3>1. KeysGrow
      BY <2>4, NextKeyGrows, RoleContext DEF KeysGrow, PairInv
    <3>2. QED
      BY <1>3, <2>2, <2>4, <2>5, <3>1, AnswerRole DEF PairInv
  <2>7. /\ Newest(p.ephemeral, h) /\ Envelopes(d, e, h) = {}
        /\ \A r \in sessions[e][d] :
             RootOf(r) = h /\ ~ r.disturbed =>
               Waiting(e, d, r) /\ SecretOf(d) = r.ratchet.receiving
    BY <1>3, <2>3, <2>5, AnswerAwaited
  <2>8. ~ Expecting(t)'
    <3>1. PICK a : a = [by |-> d, preamble |-> p]
      OBVIOUS
    <3>2. accepted' = Append(accepted, a) /\ a.preamble.ephemeral = p.ephemeral
      BY <1>1, <1>3, <3>1
    <3>3. HasAnsweredTo(p.ephemeral)'
      BY <3>2, RoleContext, AnswerAppended DEF PairInv
    <3>4. Closed(RootOf(t))'
      BY <2>6, <2>7, <3>3 DEF Closed, Newest, RootOf
    <3>5. QED
      BY <3>4 DEF Expecting
  <2>9. ASSUME NEW r \in sessions[e][d], Near(d, e, t, r)' PROVE Together(d, e, t, r)'
    <3>1. RootOf(r) = h /\ ~ r.disturbed /\ Short(e, d, h)
      <4>1. Near(d, e, t, r)
        BY <2>9, NearBefore
      <4>2. QED
        BY <2>6, <4>1, PairedRoots DEF Near
    <3>2. Waiting(e, d, r) /\ SecretOf(d) = r.ratchet.receiving
      BY <2>7, <2>9, <3>1
    <3>3. PICK v : v = Virtual(r)
      OBVIOUS
    <3>4. InStep(r.ratchet, v, Msgs(e, d, h), {}, {}, {}) /\ Distinct(e, d, h)
      BY <3>1, <3>2, <3>3 DEF Waiting, Opening
    <3>5. Whole(r.ratchet) /\ Whole(v)
      <4>1. WholeSession(r) /\ SessionBase(r)
        BY <2>9, TheSession DEF PairInv, RoleInv
      <4>2. QED
        BY <3>3, <4>1, VirtualWhole DEF WholeSession, SessionBase
    <3>6. /\ Made(v.sending.pub)
          /\ t.ratchet = RatchetDecrypt(v, m.msg, nextKey).state
      <4>1. /\ Usable(SecretOf(d))
            /\ Answer(d, p, m) =
                 RatchetDecrypt(InitialiseResponder(<<h>>, KeyPair(SecretOf(d))), m.msg, nextKey)
        BY <1>3, <2>5, AnswerRoot DEF PairInv
      <4>2. v = InitialiseResponder(<<h>>, KeyPair(SecretOf(d)))
        BY <3>1, <3>2, <3>3 DEF Virtual
      <4>3. v.sending.pub = SecretOf(d)
        BY <4>2 DEF InitialiseResponder, KeyPair
      <4>4. QED
        BY <2>2, <4>1, <4>2, <4>3 DEF Usable, Made
    <3>7. m \in Envelopes(e, d, h)
      BY <2>3, <2>5 DEF Envelopes
    <3>8. Msgs(d, e, h) = {}
      BY <2>7 DEF Msgs
    <3>9. InStep(r.ratchet, t.ratchet, Msgs(e, d, h), {}, GoneMsgs(e, d, h)', {})
      <4>1. PICK none : none = {}
        OBVIOUS
      <4>2. /\ none \subseteq Msgs(d, e, h) /\ none \subseteq GoneMsgs(e, d, h)
            /\ m.msg.mk \notin none
        BY <4>1
      <4>3. InStep(r.ratchet, v, Msgs(e, d, h), none, none, none)
        BY <3>4, <4>1
      <4>4. RoleInv /\ Short(e, d, h)
        BY <3>1 DEF PairInv
      <4>5. InStep(r.ratchet, t.ratchet, Msgs(e, d, h), none, GoneMsgs(e, d, h)', none)
        BY <3>5, <3>6, <3>7, <4>2, <4>3, <4>4, ArrivalInStep
      <4>6. QED
        BY <4>1, <4>5
    <3>10. /\ Msgs(e, d, h)' = Msgs(e, d, h) /\ Distinct(e, d, h)' = Distinct(e, d, h)
           /\ Msgs(d, e, h)' = {} /\ Distinct(d, e, h)' = Distinct(d, e, h)
      BY <3>8, EnvelopesStay
    <3>11. Distinct(d, e, h)
      BY <2>7 DEF Distinct
    <3>12. InStep(t.ratchet, r.ratchet, Msgs(d, e, h)', Msgs(e, d, h)', {}, GoneMsgs(e, d, h)')
      BY <3>9, <3>10, InStepSwap
    <3>13. InStep(t.ratchet, r.ratchet, Msgs(d, e, h)', Msgs(e, d, h)',
                  GoneMsgs(d, e, h)', GoneMsgs(e, d, h)')
      BY <3>12, InStepGone
    <3>14. QED
      BY <2>6, <3>4, <3>10, <3>11, <3>13 DEF Together, RootOf
  <2>10. QED
    BY <2>4, <2>8, <2>9, PairsPut
<1>4. QED
  BY <1>2, <1>3

-----------------------------------------------------------------------------
(* A new handshake.                                                        *)

LEMMA BeginningOpens ==
  ASSUME NEW b, NEW s, NEW g, NEW x \in Nat, Beginning(b, s, g, x), b.signed < x
  PROVE  Opening(s, {})
<1>1. PICK root : root = <<g>>
  OBVIOUS
<1>2. root \in Seq(Output) /\ RootOf(s) = g
  BY <1>1 DEF Beginning, RootOf, HandshakeOf
<1>3. PICK k : k = x + 1
  OBVIOUS
<1>4. b.signed \in Key /\ b.signed # Zero /\ k \in Key /\ k # Zero /\ b.signed # k
  BY <1>3 DEF Beginning, Usable, Key, Zero
<1>5. s.ratchet = InitialiseInitiator(root, KeyPair(k), b.signed)
  BY <1>1, <1>3 DEF Beginning
<1>6. s.ratchet.receiving = b.signed
  BY <1>5 DEF InitialiseInitiator
<1>7. Virtual(s) = InitialiseResponder(root, KeyPair(b.signed))
  BY <1>1, <1>2, <1>6 DEF Virtual
<1>8. InStep(s.ratchet, Virtual(s), {}, {}, {}, {})
  BY <1>2, <1>4, <1>5, <1>7, StartInStep
<1>9. QED
  BY <1>4, <1>6, <1>8 DEF Opening

\* Of the secrets of a handshake only the signed prekey is one of a device.
LEMMA NewSecretsApart ==
  ASSUME RoleInv, NEW i \in fetching, NEW b, b = issued[i], NEW x \in Device,
         SecretOf(x) \in NewSecrets(b)
  PROVE  SecretOf(x) = b.signed
<1>1. i \in 1 .. Len(issued) /\ PublishedKeys /\ KeysApart
  BY RoleContext DEF NamesIssued
<1>2. BundleKeys(b) /\ SecretOf(x) < nextKey /\ SecretOf(x) \in Nat /\ nextKey \in Nat
  BY <1>1 DEF PublishedKeys, KeysApart
<1>3. QED
  BY <1>2 DEF BundleKeys, OneTimeKey, NewSecrets

LEMMA StartSessionPairs ==
  ASSUME PairInv, SecretsAge, AnswersGrow, NEW i \in fetching, StartSession(i)
  PROVE  PairsInStep'
<1>1. PICK b : b = issued[i]
  OBVIOUS
<1>2. PICK s : s = NewSession(b)
  OBVIOUS
<1>3. PICK t : t = [s EXCEPT !.ratchet = AfterEncrypt(@)]
  OBVIOUS
<1>4. PICK m : m = Sealing(b.by, b.of, s)
  OBVIOUS
<1>5. /\ UNCHANGED <<store, arrived, accepted>>
      /\ \/ Puts(b.by, b.of, {s}) /\ sent' = sent
         \/ Puts(b.by, b.of, {t}) /\ sent' = sent \cup {m}
  BY <1>1, <1>2, <1>3, <1>4 DEF StartSession, Puts
<1>6. PICK x : x = nextKey
  OBVIOUS
<1>7. PICK g : g = NewSecrets(b)
  OBVIOUS
<1>8. Beginning(b, s, g, x)
  BY <1>1, <1>2, <1>6, <1>7, NewSessionFields DEF PairInv
<1>9. x \in Nat /\ x \in g /\ ~ Usable(x) /\ b.signed < x
  BY <1>6, <1>7, <1>8, RoleContext DEF NewSecrets, Usable, Beginning, PairInv
<1>10. PICK d \in Device, e \in Device : d = b.by /\ e = b.of /\ d # e
  BY <1>8 DEF Beginning
<1>11. RootOf(s) = g /\ s.ratchet.rootKey # <<>> /\ WholeSession(s) /\ CanEncrypt(s.ratchet)
  BY <1>8 DEF Beginning, RootOf, HandshakeOf
<1>12. /\ RootOf(t) = g /\ t.ratchet = AfterEncrypt(s.ratchet)
       /\ m.from = d /\ m.to = e /\ m.msg = Sealed(s.ratchet) /\ Of(m) = g
  <2>1. /\ s.ratchet.sendingChainKey.id = s.ratchet.rootKey
        /\ t.ratchet = AfterEncrypt(s.ratchet)
    BY <1>3, <1>8, <1>11 DEF Beginning, WholeSession, Session
  <2>2. t.ratchet.rootKey = s.ratchet.rootKey
    BY <1>11, <2>1 DEF AfterEncrypt, WholeSession, Whole, RatchetState
  <2>3. m.from = d /\ m.to = e /\ m.msg = Sealed(s.ratchet)
    BY <1>4, <1>10 DEF Sealing
  <2>4. m.msg.mk = s.ratchet.sendingChainKey
    BY <2>3 DEF Sealed
  <2>5. QED
    BY <1>11, <2>1, <2>2, <2>3, <2>4 DEF RootOf, Of, HandshakeOf
\* Nothing there was is of this handshake.
<1>13. /\ \A r \in sessions[e][d] : RootOf(r) # g
       /\ Envelopes(d, e, g) = {} /\ Msgs(d, e, g) = {}
  BY <1>9 DEF PairInv, RoleInv, SessionBase, MessageBase, Envelopes, Msgs
<1>14. Opening(s, {})
  BY <1>8, <1>9, BeginningOpens
<1>15. \A y \in Device : SecretOf(y)' \in g => SecretOf(y)' = s.ratchet.receiving
  <2>1. s.ratchet.receiving = b.signed
    BY <1>8 DEF Beginning, InitialiseInitiator
  <2>2. QED
    BY <1>1, <1>5, <1>7, <2>1, NewSecretsApart DEF PairInv, SecretOf
<1>16. CASE Puts(d, e, {s}) /\ sent' = sent
  <2>1. Msgs(d, e, g)' = {} /\ Envelopes(d, e, g)' = {}
    BY <1>5, <1>13, <1>16, EnvelopesStay
  <2>2. Waiting(d, e, s)'
    BY <1>11, <1>14, <1>15, <2>1 DEF Waiting, Distinct, Opening, Virtual, RootOf
  <2>3. \A r \in sessions[e][d] : ~ Near(d, e, s, r)'
    BY <1>11, <1>13 DEF Near, Paired, RootOf
  <2>4. QED
    BY <1>5, <1>10, <1>16, <2>2, <2>3, PairsPut
<1>17. CASE Puts(d, e, {t}) /\ sent' = sent \cup {m}
  <2>1. Envelopes(d, e, g)' = {m} /\ Msgs(d, e, g)' = {Sealed(s.ratchet)}
    <3>1. /\ Envelopes(d, e, g)' = Envelopes(d, e, g) \cup {m}
          /\ Msgs(d, e, g)' = Msgs(d, e, g) \cup {m.msg}
      BY <1>5, <1>12, <1>17, EnvelopesMore
    <3>2. QED
      BY <1>12, <1>13, <3>1
  <2>2. Opening(t, {Sealed(s.ratchet)})
    <3>1. PICK A : A = {}
      OBVIOUS
    <3>2. Opening(t, A \cup {Sealed(s.ratchet)})
      BY <1>11, <1>12, <1>14, <3>1, OpeningSeals
    <3>3. QED
      BY <3>1, <3>2
  <2>3. t.ratchet.receiving = s.ratchet.receiving
    BY <1>11, <1>12 DEF AfterEncrypt, WholeSession, Whole, RatchetState
  <2>4. Waiting(d, e, t)'
    BY <1>12, <1>15, <2>1, <2>2, <2>3 DEF Waiting, Distinct, Opening, Virtual, RootOf
  <2>5. \A r \in sessions[e][d] : ~ Near(d, e, t, r)'
    BY <1>12, <1>13 DEF Near, Paired, RootOf
  <2>6. QED
    BY <1>5, <1>10, <1>12, <1>17, <2>4, <2>5, PairsPut
<1>18. QED
  BY <1>5, <1>10, <1>16, <1>17

-----------------------------------------------------------------------------
\* Steps that touch neither the sessions nor the answers nor the signed prekeys.
LEMMA PairsUntouched ==
  ASSUME PairInv, nextKey' \in Nat, nextKey <= nextKey',
         UNCHANGED <<sessions, sent, accepted>>, arrived \subseteq arrived',
         \A x \in Device : SecretOf(x)' = SecretOf(x)
  PROVE  PairsInStep'
<1>1. SecretsAge
  BY SecretsUntouched, RoleContext DEF PairInv
<1>2. AnswersGrow
  BY DEF AnswersGrow, HasAnsweredTo
<1>3. QED
  BY <1>1, <1>2, PairsKept

LEMMA StartPairs ==
  ASSUME PairInv, NEW d \in Device, Start(d)
  PROVE  PairsInStep'
<1>1. /\ StartStore(d) /\ sent' = sent /\ accepted' = accepted /\ arrived' = arrived
      /\ sessions' = [sessions EXCEPT ![d] = [e \in Device |-> {}]]
  BY DEF Start
<1>2. SecretsAge
  BY <1>1, StartKeys, RoleContext DEF PairInv
<1>3. NamesIssued
  BY RoleContext DEF PairInv
<1>4. \A x, y \in Device : sessions'[x][y] \subseteq sessions[x][y]
  BY <1>1, <1>3 DEF NamesIssued
<1>5. AnswersGrow
  BY <1>1 DEF AnswersGrow, HasAnsweredTo
<1>6. QED
  BY <1>1, <1>2, <1>4, <1>5, PairsKept

LEMMA ForgetPairs ==
  ASSUME PairInv, NEW d \in Device, NEW e \in Device, Forget(d, e)
  PROVE  PairsInStep'
<1>1. Puts(d, e, {}) /\ UNCHANGED <<store, nextKey, accepted, sent, arrived>>
  BY DEF Forget, Puts, preKeyVars
<1>2. \A x, y \in Device : sessions'[x][y] \subseteq sessions[x][y]
  BY <1>1, SessionPut, RoleContext DEF PairInv
<1>3. SecretsAge
  BY <1>1, SecretsUntouched, RoleContext DEF PairInv, SecretOf
<1>4. AnswersGrow
  BY <1>1 DEF AnswersGrow, HasAnsweredTo
<1>5. QED
  BY <1>1, <1>2, <1>3, <1>4, PairsKept

LEMMA FetchPairs ==
  ASSUME PairInv, NEW d \in Device, NEW e \in Device, Fetch(d, e)
  PROVE  PairsInStep'
<1>1. /\ UNCHANGED <<sessions, sent, accepted, arrived>>
      /\ UNCHANGED <<store, nextKey>>
  BY DEF Fetch, TakeBundle
<1>2. QED
  BY <1>1, PairsUntouched, RoleContext DEF PairInv, SecretOf

LEMMA ReplenishPairs ==
  ASSUME PairInv, NEW d \in Device, Replenish(d), Others
  PROVE  PairsInStep'
<1>1. UNCHANGED <<sessions, sent, accepted, arrived>>
  BY DEF Others
<1>2. SecretsAge
  BY ReplenishKeys, RoleContext DEF PairInv
<1>3. AnswersGrow
  BY <1>1 DEF AnswersGrow, HasAnsweredTo
<1>4. QED
  BY <1>1, <1>2, <1>3, PairsKept

\* What arrives is answered, taken or refused.
LEMMA ReceivePairs ==
  ASSUME PairInv, NEW d \in Device, Receive(d)
  PROVE  PairsInStep'
<1>1. PICK m \in sent :
        /\ m.to = d /\ arrived' = arrived \cup {m} /\ sent' = sent
        /\ IF \E s \in sessions[d][m.from] : RoutedTo(s, m)
           THEN ReceiveInSession(d, m)
           ELSE Respond(d, m) \/ Refused(d, m)
  BY DEF Receive
<1>2. CASE ReceiveInSession(d, m)
  <2>1. PICK s \in sessions[d][m.from] : nextKey' = NextKeyAfter(InSession(s, m))
    BY <1>2 DEF ReceiveInSession
  <2>2. UNCHANGED <<store, accepted>>
    BY <1>2 DEF ReceiveInSession
  <2>3. nextKey' \in Nat /\ nextKey <= nextKey'
    BY <2>1, NextKeyGrows, RoleContext DEF PairInv
  <2>4. SecretsAge
    BY <2>2, <2>3, SecretsUntouched, RoleContext DEF PairInv, SecretOf
  <2>5. AnswersGrow
    BY <2>2 DEF AnswersGrow, HasAnsweredTo
  <2>6. QED
    BY <1>1, <1>2, <2>4, <2>5, ReceiveInSessionPairs
<1>3. CASE Respond(d, m)
  <2>1. PICK p \in m.preamble :
          /\ store' = [store EXCEPT ![d].signed = SharedPairAfterTurn(@),
                                    ![d].oneTime = Consumed(@, p, Answer(d, p, m).ok)]
          /\ \/ nextKey' = NextKeyAfter(Answer(d, p, m)) /\
                accepted' = Append(accepted, [by |-> d, preamble |-> p])
             \/ UNCHANGED <<nextKey, accepted>>
    BY <1>3 DEF Respond
  <2>2. SecretOf(d)' = Zero /\ \A x \in Device : x # d => SecretOf(x)' = SecretOf(x)
    BY <2>1, SecretsAfterAnswer DEF PairInv
  <2>3. nextKey' \in Nat /\ nextKey <= nextKey'
    BY <2>1, NextKeyGrows, RoleContext DEF PairInv
  <2>4. SecretsAge
    BY <2>2, <2>3, RoleContext DEF PairInv, KeysApart, SecretsAge, Zero
  <2>5. AnswersGrow
    <3>1. CASE UNCHANGED accepted
      BY <3>1 DEF AnswersGrow, HasAnsweredTo
    <3>2. CASE accepted' = Append(accepted, [by |-> d, preamble |-> p])
      BY <3>2, RoleContext, AnswerAppended DEF PairInv
    <3>3. QED
      BY <2>1, <3>1, <3>2
  <2>6. QED
    BY <1>1, <1>3, <2>4, <2>5, RespondPairs
<1>4. CASE Refused(d, m)
  BY <1>1, <1>4, PairsUntouched, RoleContext DEF Refused, preKeyVars, PairInv, SecretOf
<1>5. QED
  BY <1>1, <1>2, <1>3, <1>4

LEMMA NextKeepsPairs ==
  ASSUME PairInv, [Next]_vars
  PROVE  PairInv'
<1>1. RoleInv'
  BY NextKeepsRoles DEF PairInv
<1>2. ASSUME UNCHANGED vars PROVE PairsInStep'
  <2>1. UNCHANGED <<sessions, sent, accepted, arrived, store, nextKey>>
    BY <1>2 DEF vars, preKeyVars
  <2>2. nextKey' \in Nat /\ nextKey <= nextKey' /\ \A x \in Device : SecretOf(x)' = SecretOf(x)
    BY <2>1, RoleContext DEF PairInv, SecretOf
  <2>3. QED
    BY <2>1, <2>2, PairsUntouched
<1>3. ASSUME NEW d \in Device, SeeCount(d), Others PROVE PairsInStep'
  BY <1>3, PairsUntouched, RoleContext DEF SeeCount, Others, PairInv, SecretOf
<1>4. ASSUME NEW d \in Device, NEW e \in Device \ {d}, Send(d, e) PROVE PairsInStep'
  <2>1. UNCHANGED <<store, nextKey, accepted>>
    BY <1>4 DEF Send, preKeyVars
  <2>2. SecretsAge
    BY <2>1, SecretsUntouched, RoleContext DEF PairInv, SecretOf
  <2>3. AnswersGrow
    BY <2>1 DEF AnswersGrow, HasAnsweredTo
  <2>4. QED
    BY <1>4, <2>2, <2>3, SendPairs
<1>5. ASSUME NEW i \in fetching, StartSession(i) PROVE PairsInStep'
  <2>1. UNCHANGED <<store, accepted>> /\ nextKey' = nextKey + 2
    BY <1>5 DEF StartSession
  <2>2. nextKey' \in Nat /\ nextKey <= nextKey'
    BY <2>1, RoleContext DEF PairInv
  <2>3. SecretsAge
    BY <2>1, <2>2, SecretsUntouched, RoleContext DEF PairInv, SecretOf
  <2>4. AnswersGrow
    BY <2>1 DEF AnswersGrow, HasAnsweredTo
  <2>5. QED
    BY <1>5, <2>3, <2>4, StartSessionPairs
<1>6. PairsInStep'
  <2>1. ASSUME NEW d \in Device, Start(d) \/ Receive(d) PROVE PairsInStep'
    BY <2>1, StartPairs, ReceivePairs
  <2>2. ASSUME NEW d \in Device, Replenish(d), Others PROVE PairsInStep'
    BY <2>2, ReplenishPairs
  <2>3. ASSUME NEW d \in Device, NEW e \in Device \ {d}, Fetch(d, e) \/ Forget(d, e)
        PROVE  PairsInStep'
    BY <2>3, FetchPairs, ForgetPairs
  <2>4. QED
    BY <1>2, <1>3, <1>4, <1>5, <2>1, <2>2, <2>3 DEF Next
<1>7. QED
  BY <1>1, <1>6 DEF PairInv

LEMMA InitPairs ==
  ASSUME Init
  PROVE  PairInv
<1>1. \A d, e \in Device : sessions[d][e] = {}
  BY DEF Init
<1>2. QED
  BY <1>1, InitRoles DEF PairInv, PairsInStep

\* SessionsUnderstand of conversations whose directions are short, for any
\* number of messages sent in all.
ShortSessionsUnderstand ==
  \A m \in sent \ arrived :
    \A s \in sessions[m.from][m.to], t \in sessions[m.to][m.from] :
      Near(m.from, m.to, s, t) /\ HandshakeOf(m.msg.mk.id) = HandshakeOf(t.ratchet.rootKey) =>
        RoutedTo(t, m) /\ InSession(t, m).ok

\* The session that a handshake established takes its preamble, and what waits
\* of the other side opens.
LEMMA PairsUnderstand ==
  ASSUME PairInv
  PROVE  ShortSessionsUnderstand
<1>1. SUFFICES ASSUME NEW m \in sent \ arrived,
                      NEW s \in sessions[m.from][m.to], NEW t \in sessions[m.to][m.from],
                      Near(m.from, m.to, s, t),
                      HandshakeOf(m.msg.mk.id) = HandshakeOf(t.ratchet.rootKey)
               PROVE  RoutedTo(t, m) /\ InSession(t, m).ok
  BY DEF ShortSessionsUnderstand
<1>2. PICK d \in Device, e \in Device : d = m.from /\ e = m.to
  BY DEF PairInv, RoleInv, TypeInv, Envelope
<1>3. PICK h : h = RootOf(s)
  OBVIOUS
<1>4. /\ s \in sessions[d][e] /\ t \in sessions[e][d] /\ d # e
      /\ RootOf(t) = h /\ Of(m) = h
  BY <1>1, <1>2, <1>3, PairedRoots DEF PairInv, RoleInv, Near, Of, RootOf
<1>5. RoutedTo(t, m)
  <2>1. SUFFICES ASSUME NEW p \in m.preamble PROVE p.ephemeral = t.establishedBy
    BY DEF RoutedTo
  <2>2. PICK by, of : Assigned(h, by, of)
    BY DEF PairInv, RoleInv
  <2>3. d = by /\ e = of /\ Newest(p.ephemeral, h)
    BY <1>2, <1>4, <2>1, <2>2 DEF Assigned, RoleOfMessage
  <2>4. RoleOfSession(t, e, d, by, of)
    BY <1>4, <2>2 DEF Assigned
  <2>5. Newest(t.establishedBy, h)
    BY <1>4, <2>3, <2>4 DEF RoleOfSession
  <2>6. \A k \in h : k \in Nat
    BY <1>3, <1>4 DEF PairInv, RoleInv, SessionBase, Usable
  <2>7. QED
    BY <2>3, <2>5, <2>6 DEF Newest
<1>6. /\ InStep(s.ratchet, t.ratchet, Msgs(d, e, h), Msgs(e, d, h),
                GoneMsgs(d, e, h), GoneMsgs(e, d, h))
      /\ Distinct(d, e, h)
  <2>1. Near(d, e, s, t)
    BY <1>1, <1>2
  <2>2. Together(d, e, s, t)
    BY <1>4, <2>1 DEF PairInv, PairsInStep
  <2>3. QED
    BY <1>3, <2>2 DEF Together
<1>7. m \in Envelopes(d, e, h) /\ m.msg \in Msgs(d, e, h)
  BY <1>1, <1>2, <1>4 DEF Envelopes, Msgs
<1>8. m.msg.mk \notin GoneMsgs(d, e, h)
  BY <1>1, <1>6, <1>7, NotGone
<1>9. Whole(s.ratchet) /\ Whole(t.ratchet) /\ Made(t.ratchet.sending.pub)
  BY <1>4, TheSession DEF PairInv, RoleInv, WholeSession, SessionBase
<1>10. NewPair(s.ratchet, t.ratchet, Msgs(e, d, h), nextKey)
  BY <1>9, NextKeyIsNew DEF PairInv
<1>11. IsFiniteSet(Msgs(d, e, h)) /\ Cardinality(Msgs(d, e, h)) <= MaxSkipPerChain
  BY <1>1, <1>2, <1>3 DEF Near, Short
<1>12. SkippedFor(t.ratchet, m.msg) = {} => WithinReach(t.ratchet, m.msg)
  BY <1>6, <1>7, <1>8, <1>9, <1>11, ShortReach
<1>13. RatchetDecrypt(t.ratchet, m.msg, nextKey).ok
  BY <1>6, <1>7, <1>8, <1>9, <1>10, <1>12, DecryptsInStep
<1>14. QED
  BY <1>5, <1>13 DEF InSession

-----------------------------------------------------------------------------
\* Two sessions of one handshake that were handed nothing but its messages, each
\* once, understand each other while neither has sent more in it than the gap the
\* ratchet closes: whatever has not arrived is routed to the other session and
\* opens there, in any order, with the preamble or without, whatever
\* conversations were begun, answered, forgotten or lost with a restart in
\* between (decryptEnvelope, session.ts:281-369).
THEOREM ShortSessionsAlwaysUnderstand == Spec => []ShortSessionsUnderstand
<1>1. Init => PairInv
  BY InitPairs
<1>2. PairInv /\ [Next]_vars => PairInv'
  BY NextKeepsPairs
<1>3. PairInv => ShortSessionsUnderstand
  BY PairsUnderstand
<1>4. QED
  BY <1>1, <1>2, <1>3, PTL DEF Spec

-----------------------------------------------------------------------------
(* With a bound on what is sent in all, as the runs have one, every        *)
(* conversation is short.                                                  *)

SentCounted == IsFiniteSet(sent) /\ Cardinality(sent) <= MaxSends

\* What is sent in all is no more than the gap the code closes.
ShortConversations == MaxSends \in Nat /\ MaxSends <= MaxSkipPerChain

LEMMA SentMore ==
  ASSUME MaxSends \in Nat, SentCounted, NEW m,
         \/ sent' = sent
         \/ sent' = sent \cup {m} /\ Cardinality(sent) < MaxSends
  PROVE  SentCounted'
<1>1. IsFiniteSet(sent) /\ Cardinality(sent) \in Nat /\ Cardinality(sent) <= MaxSends
  BY FS_CardinalityType DEF SentCounted
<1>2. CASE sent' = sent
  BY <1>1, <1>2 DEF SentCounted
<1>3. CASE sent' = sent \cup {m} /\ Cardinality(sent) < MaxSends
  <2>1. PICK more : more = sent \cup {m}
    OBVIOUS
  <2>2. /\ IsFiniteSet(more)
        /\ Cardinality(more) = Cardinality(sent) \/ Cardinality(more) = Cardinality(sent) + 1
    BY <1>1, <2>1, FS_AddElement
  <2>3. Cardinality(more) <= MaxSends
    BY <1>1, <1>3, <2>2
  <2>4. QED
    BY <1>3, <2>1, <2>2, <2>3 DEF SentCounted
<1>4. QED
  BY <1>2, <1>3

LEMMA NextKeepsCount ==
  ASSUME MaxSends \in Nat, SentCounted, [Next]_vars
  PROVE  SentCounted'
<1>1. CASE sent' = sent
  BY <1>1, SentMore
<1>2. ASSUME NEW d \in Device, NEW e \in Device, Send(d, e) PROVE SentCounted'
  BY <1>2, SentMore DEF Send
<1>3. ASSUME NEW i \in fetching, StartSession(i) PROVE SentCounted'
  BY <1>3, SentMore DEF StartSession
<1>4. QED
  BY <1>1, <1>2, <1>3 DEF Next, vars, Start, Receive, Others, Fetch, Forget

LEMMA AllShort ==
  ASSUME ShortConversations, SentCounted, NEW d, NEW e, NEW h
  PROVE  Short(d, e, h)
<1>1. PICK E, A : E = Envelopes(d, e, h) /\ A = Msgs(d, e, h)
  OBVIOUS
<1>2. E \subseteq sent /\ A = {m.msg : m \in E}
  BY <1>1 DEF Envelopes, Msgs
<1>3. IsFiniteSet(E) /\ Cardinality(E) <= Cardinality(sent)
  BY <1>2, FS_Subset DEF SentCounted
<1>4. PICK f : f = [m \in E |-> m.msg]
  OBVIOUS
<1>5. f \in Surjection(E, A)
  BY <1>2, <1>4 DEF Surjection
<1>6. IsFiniteSet(A) /\ Cardinality(A) <= Cardinality(E)
  BY <1>3, <1>5, FS_Surjection
<1>7. Cardinality(sent) \in Nat /\ Cardinality(E) \in Nat /\ Cardinality(A) \in Nat
  BY <1>3, <1>6, FS_CardinalityType DEF SentCounted
<1>8. QED
  BY <1>1, <1>3, <1>6, <1>7, SkipBounds DEF SentCounted, ShortConversations, Short

LEMMA InitCount ==
  ASSUME MaxSends \in Nat, Init
  PROVE  SentCounted
BY FS_EmptySet DEF Init, SentCounted

\* The same of all sessions where no more is sent in all than the gap the ratchet
\* closes, as in the run: two sessions of one handshake, neither handed a foreign
\* or repeated message, understand each other (session.ts:281-369).
THEOREM SessionsAlwaysUnderstand ==
  ASSUME ShortConversations
  PROVE  Spec => []SessionsUnderstand
<1>1. MaxSends \in Nat
  BY DEF ShortConversations
<1>2. Init => SentCounted
  BY <1>1, InitCount
<1>3. SentCounted /\ [Next]_vars => SentCounted'
  BY <1>1, NextKeepsCount
<1>4. SentCounted /\ ShortSessionsUnderstand => SessionsUnderstand
  BY AllShort DEF ShortSessionsUnderstand, SessionsUnderstand, Near
<1>5. QED
  BY <1>2, <1>3, <1>4, ShortSessionsAlwaysUnderstand, PTL DEF Spec
=============================================================================
