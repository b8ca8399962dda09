----------------------------- MODULE RelayProofs -----------------------------
(***************************************************************************)
(* For any accounts, connections and bounds: the relay's queues lose       *)
(* nothing in silence, an authenticated connection misses nothing, tokens  *)
(* are earned once, and only key holders read.  The limiter bounds its     *)
(* table and its clients.                                                  *)
(***************************************************************************)
EXTENDS Relay, RateLimiter, FiniteSetTheorems, WellFoundedInduction, TLAPS

-----------------------------------------------------------------------------
(* The overflow of a queue.                                                *)

\* A set of numbers that is not empty has a smallest one.
LEMMA Smallest ==
  ASSUME NEW S \in SUBSET Nat, S # {}
  PROVE  \E x \in S : \A y \in S : x <= y
<1>1. PICK x \in S : \A y \in S : <<y, x>> \notin OpToRel(<, Nat)
  BY NatLessThanWellFounded, WFMin
<1>2. \A y \in S : ~(y < x)
  BY <1>1 DEF OpToRel
<1>3. QED
  BY <1>2

\* What the overflow leaves fits the queue.
LEMMA OverflowFits ==
  ASSUME NEW held \in SUBSET Nat, IsFiniteSet(held)
  PROVE  Overflow(held) \subseteq held /\ Cardinality(Overflow(held)) <= MaxQueue
<1>1. Overflow(held) \subseteq held
  BY DEF Overflow
<1>2. CASE Overflow(held) = {}
  BY <1>1, <1>2, FS_EmptySet, QueueHolds
<1>3. CASE Overflow(held) # {}
  <2>1. PICK x \in Overflow(held) : \A y \in Overflow(held) : x <= y
    BY <1>1, <1>3, Smallest
  <2> DEFINE newer == {k \in held : k >= x}
  <2>2. Cardinality(newer) <= MaxQueue
    BY <2>1 DEF Overflow
  <2>3. Overflow(held) \subseteq newer
    BY <1>1, <2>1
  <2>4. IsFiniteSet(newer)
    BY FS_Subset
  <2>5. /\ Cardinality(Overflow(held)) <= Cardinality(newer)
        /\ Cardinality(Overflow(held)) \in Nat /\ Cardinality(newer) \in Nat
    <3> HIDE DEF newer
    <3>1. IsFiniteSet(Overflow(held))
      BY <2>3, <2>4, FS_Subset
    <3>2. QED
      BY <2>3, <2>4, <3>1, FS_Subset, FS_CardinalityType
  <2>6. QED
    BY <1>1, <2>2, <2>5, QueueHolds
<1>4. QED
  BY <1>2, <1>3

\* What it drops has MaxQueue newer messages after it.
LEMMA OverflowDropsOldest ==
  ASSUME NEW top \in Nat, NEW held \in SUBSET (1 .. top), NEW n \in held \ Overflow(held)
  PROVE  n + MaxQueue <= top
<1> DEFINE newer == {k \in held : k >= n}
<1>1. n \in 1 .. top /\ newer \subseteq n .. top
  <2>1. n \in held /\ held \subseteq 1 .. top
    OBVIOUS
  <2>2. \A k \in held : k >= n => k \in n .. top
    BY <2>1
  <2>3. QED
    BY <2>1, <2>2
<1>2. /\ IsFiniteSet(n .. top) /\ Cardinality(n .. top) = top - n + 1
  BY <1>1, FS_Interval
<1>3. Cardinality(newer) <= top - n + 1 /\ Cardinality(newer) \in Nat
  <2> HIDE DEF newer
  <2>1. IsFiniteSet(newer) /\ Cardinality(newer) <= Cardinality(n .. top)
    BY <1>1, <1>2, FS_Subset
  <2>2. QED
    BY <1>2, <2>1, FS_CardinalityType
<1>4. ~(Cardinality(newer) <= MaxQueue)
  BY DEF Overflow
<1>5. QED
  BY <1>1, <1>3, <1>4, QueueHolds

-----------------------------------------------------------------------------
(* Types.                                                                  *)

\* Messages stay messages, and an account's numbers stay its numbers.
LEMMA AcceptedGrows ==
  ASSUME TypeOK, Next
  PROVE  /\ \A a \in Address : Accepted(a) \subseteq Accepted(a)'
         /\ Messages \subseteq Messages'
         /\ \A a \in Address : \A n \in Accepted(a) : received'[a][n] = received[a][n]
<1>1. CASE UNCHANGED received
  BY <1>1 DEF Accepted, Messages
<1>2. CASE \E a \in Address : received' = [received EXCEPT ![a] = Append(@, now)]
  <2>1. PICK a \in Address : received' = [received EXCEPT ![a] = Append(@, now)]
    BY <1>2
  <2>2. \A b \in Address : /\ received[b] \in Seq(Nat) /\ Len(received[b]) \in Nat
                           /\ b # a => received'[b] = received[b]
    BY <2>1 DEF TypeOK
  <2>3. received'[a] = Append(received[a], now)
    BY <2>1 DEF TypeOK
  <2>4. /\ Len(received'[a]) = Len(received[a]) + 1
        /\ \A n \in 1 .. Len(received[a]) : received'[a][n] = received[a][n]
    BY <2>2, <2>3 DEF TypeOK, AuthTypeOK
  <2>5. /\ \A b \in Address : Accepted(b) \subseteq Accepted(b)'
        /\ \A b \in Address : \A n \in Accepted(b) : received'[b][n] = received[b][n]
    <3>1. SUFFICES ASSUME NEW b \in Address
                   PROVE  /\ Accepted(b) \subseteq Accepted(b)'
                          /\ \A n \in Accepted(b) : received'[b][n] = received[b][n]
      OBVIOUS
    <3>2. CASE b = a
      BY <2>2, <2>4, <3>2 DEF Accepted
    <3>3. CASE b # a
      BY <2>2, <3>3 DEF Accepted
    <3>4. QED
      BY <3>2, <3>3
  <2>6. Messages \subseteq Messages'
    BY <2>5 DEF Messages
  <2>7. QED
    BY <2>5, <2>6
<1>3. QED
  BY <1>1, <1>2 DEF Next, Register, AskChallenge, Login, Enqueue, Acknowledge,
     SocketAuthenticate, Push, Drain, Close, Refuse, Housekeeping, Clock,
     storeVars

\* The queue, the history of acknowledgements and the receive times.
StoreTypeOK ==
  /\ received \in [Address -> Seq(Nat)]
  /\ queue \in [Address -> SUBSET Nat] /\ acked \in [Address -> SUBSET Nat]
  /\ \A a \in Address : /\ queue[a] \subseteq Accepted(a)
                        /\ acked[a] \subseteq Accepted(a)
                        /\ Cardinality(queue[a]) <= MaxQueue

\* A part of a queue still fits.
LEMMA PartFits ==
  ASSUME StoreTypeOK, NEW a \in Address, NEW part \in SUBSET queue[a]
  PROVE  /\ IsFiniteSet(queue[a])
         /\ Cardinality(part) <= MaxQueue
<1>1. IsFiniteSet(queue[a])
  <2>1. Len(received[a]) \in Nat /\ queue[a] \subseteq 1 .. Len(received[a])
    BY DEF StoreTypeOK, Accepted
  <2>2. IsFiniteSet(1 .. Len(received[a]))
    BY <2>1, FS_Interval
  <2>3. QED
    BY <2>1, <2>2, FS_Subset
<1>2. Cardinality(part) \in Nat /\ Cardinality(queue[a]) \in Nat
  BY <1>1, FS_Subset, FS_CardinalityType
<1>3. Cardinality(part) <= Cardinality(queue[a]) /\ Cardinality(queue[a]) <= MaxQueue
  BY <1>1, FS_Subset DEF StoreTypeOK
<1>4. QED
  BY <1>1, <1>2, <1>3, QueueHolds

\* enqueue keeps a queue within its bound.
LEMMA EnqueueStoreType ==
  ASSUME TypeOK, Next, NEW a \in Address, Enqueue(a)
  PROVE  StoreTypeOK'
<1> DEFINE n == Len(received[a]) + 1
<1>1. StoreTypeOK /\ now \in Nat
  BY DEF TypeOK, StoreTypeOK, AuthTypeOK
<1>2. /\ received' = [received EXCEPT ![a] = Append(received[a], now)]
      /\ queue' = [queue EXCEPT ![a] = Overflow(queue[a] \cup {n})]
      /\ acked' = acked
  BY DEF Enqueue
<1>3. received[a] \in Seq(Nat) /\ n \in Nat /\ received'[a] = Append(received[a], now)
  BY <1>1, <1>2 DEF StoreTypeOK
<1>4. n \in Accepted(a)'
  BY <1>1, <1>3 DEF Accepted
<1>5. queue[a] \cup {n} \in SUBSET Nat /\ IsFiniteSet(queue[a] \cup {n})
  BY <1>1, <1>3, PartFits, FS_AddElement DEF StoreTypeOK
<1>6. /\ Overflow(queue[a] \cup {n}) \subseteq queue[a] \cup {n}
      /\ Cardinality(Overflow(queue[a] \cup {n})) <= MaxQueue
  <2> HIDE DEF n
  <2>1. QED
    BY <1>5, OverflowFits
<1>7. queue'[a] \subseteq Accepted(a)'
  BY <1>1, <1>2, <1>4, <1>6, AcceptedGrows DEF StoreTypeOK
<1>8. received' \in [Address -> Seq(Nat)]
  BY <1>1, <1>2, <1>3 DEF StoreTypeOK
<1>9. queue' \in [Address -> SUBSET Nat]
  BY <1>1, <1>2, <1>5, <1>6 DEF StoreTypeOK
<1>10. \A b \in Address : queue'[b] = IF b = a THEN Overflow(queue[a] \cup {n}) ELSE queue[b]
  BY <1>1, <1>2 DEF StoreTypeOK
<1> HIDE DEF n
<1>11. ASSUME NEW b \in Address
       PROVE  /\ queue'[b] \subseteq Accepted(b)' /\ Cardinality(queue'[b]) <= MaxQueue
              /\ acked'[b] \subseteq Accepted(b)'
  BY <1>1, <1>2, <1>6, <1>7, <1>10, AcceptedGrows DEF StoreTypeOK
<1>12. QED
  BY <1>1, <1>2, <1>8, <1>9, <1>11 DEF StoreTypeOK

\* The other steps that touch a store take messages out, or nothing.
LEMMA StoreTypeStep ==
  ASSUME TypeOK, Next
  PROVE  StoreTypeOK'
<1>1. StoreTypeOK
  BY DEF TypeOK, StoreTypeOK
<1>2. CASE \E a \in Address : Enqueue(a)
  BY <1>2, EnqueueStoreType
<1>3. CASE \E a \in Address : Acknowledge(a)
  <2>1. PICK a \in Address, m \in Messages :
          /\ queue' = [queue EXCEPT ![a] = {n \in queue[a] : <<a, n>> \notin {m}}]
          /\ acked' = [acked EXCEPT ![a] = acked[a] \cup {n \in Accepted(a) : <<a, n>> = m}]
          /\ received' = received
    BY <1>3 DEF Acknowledge, Remove
  <2>2. Cardinality({n \in queue[a] : <<a, n>> \notin {m}}) <= MaxQueue
    BY <1>1, PartFits
  <2>3. Accepted(a) \subseteq Nat
    BY DEF Accepted
  <2>4. \A b \in Address : Accepted(b)' = Accepted(b)
    BY <2>1 DEF Accepted
  <2>5. /\ queue' \in [Address -> SUBSET Nat] /\ acked' \in [Address -> SUBSET Nat]
    BY <1>1, <2>1, <2>3 DEF StoreTypeOK
  <2>6. ASSUME NEW b \in Address
        PROVE  /\ queue'[b] \subseteq Accepted(b)' /\ Cardinality(queue'[b]) <= MaxQueue
               /\ acked'[b] \subseteq Accepted(b)'
    <3>1. CASE b = a
      <4>1. /\ queue'[b] = {n \in queue[a] : <<a, n>> \notin {m}}
            /\ acked'[b] = acked[a] \cup {n \in Accepted(a) : <<a, n>> = m}
        BY <1>1, <2>1, <3>1 DEF StoreTypeOK
      <4>2. QED
        BY <1>1, <2>2, <2>4, <3>1, <4>1 DEF StoreTypeOK
    <3>2. CASE b # a
      BY <1>1, <2>1, <2>4, <3>2 DEF StoreTypeOK
    <3>3. QED
      BY <3>1, <3>2
  <2>7. QED
    BY <1>1, <2>1, <2>5, <2>6 DEF StoreTypeOK
<1>4. CASE Housekeeping
  <2>1. /\ queue' = [a \in Address |-> Kept(a)] /\ received' = received /\ acked' = acked
    BY <1>4 DEF Housekeeping
  <2>2. \A a \in Address : Kept(a) \subseteq queue[a] /\ Cardinality(Kept(a)) <= MaxQueue
    BY <1>1, PartFits DEF Kept
  <2>3. \A b \in Address : Accepted(b)' = Accepted(b)
    BY <2>1 DEF Accepted
  <2>4. queue' \in [Address -> SUBSET Nat]
    BY <1>1, <2>1, <2>2 DEF StoreTypeOK
  <2>5. \A b \in Address : /\ queue'[b] \subseteq Accepted(b)
                           /\ Cardinality(queue'[b]) <= MaxQueue
    BY <1>1, <2>1, <2>2 DEF StoreTypeOK
  <2>6. QED
    BY <1>1, <2>1, <2>3, <2>4, <2>5 DEF StoreTypeOK
<1>5. CASE UNCHANGED <<received, queue, acked>>
  BY <1>1, <1>5 DEF StoreTypeOK, Accepted
<1>6. QED
  BY <1>2, <1>3, <1>4, <1>5 DEF Next, Register, AskChallenge, Login, SocketAuthenticate,
     Push, Drain, Close, Refuse, Clock, storeVars

\* Challenges, tokens and grants.
LEMMA AuthTypeStep ==
  ASSUME AuthTypeOK, Next
  PROVE  AuthTypeOK'
<1>1. /\ now \in Nat /\ drawn \in Nat /\ challenges \subseteq Challenge
      /\ tokens \subseteq Token /\ grants \subseteq Grant
  BY DEF AuthTypeOK
<1>2. ASSUME NEW a \in Address, IssueChallenge(a) PROVE AuthTypeOK'
  <2>1. [value |-> drawn + 1, address |-> a, expiresAt |-> now + ChallengeTtl] \in Challenge
    BY <1>1, TtlsAreTimes DEF Challenge
  <2>2. QED
    BY <1>1, <1>2, <2>1 DEF AuthTypeOK, IssueChallenge
<1>3. ASSUME NEW a \in Address, NEW value, NEW signer \in Address,
             Authenticate(a, value, signer)
      PROVE  AuthTypeOK'
  <2>1. challenges' \subseteq Challenge /\ now' = now
    BY <1>1, <1>3 DEF Authenticate, Spend
  <2>2. CASE UNCHANGED <<drawn, tokens, grants>>
    BY <1>1, <2>1, <2>2 DEF AuthTypeOK
  <2>3. ASSUME NEW r \in challenges,
               drawn' = drawn + 1,
               tokens' = tokens \cup
                 {[token |-> drawn + 1, address |-> a, expiresAt |-> now + TokenTtl]},
               grants' = grants \cup
                 {[token |-> drawn + 1, address |-> a, by |-> signer, at |-> now, for |-> r]}
        PROVE  AuthTypeOK'
    <3>1. [token |-> drawn + 1, address |-> a, expiresAt |-> now + TokenTtl] \in Token
      BY <1>1, TtlsAreTimes DEF Token
    <3>2. [token |-> drawn + 1, address |-> a, by |-> signer, at |-> now, for |-> r] \in Grant
      BY <1>1 DEF Grant
    <3>3. QED
      BY <1>1, <2>1, <2>3, <3>1, <3>2 DEF AuthTypeOK
  <2>4. QED
    BY <1>3, <2>2, <2>3 DEF Authenticate
<1>4. CASE Prune \/ \E token \in Drawn : RefuseExpired(token)
  BY <1>1, <1>4 DEF AuthTypeOK, Prune, Unexpired, RefuseExpired
<1>5. CASE Tick
  BY <1>1, <1>5 DEF AuthTypeOK, Tick
<1>6. CASE UNCHANGED authVars
  BY <1>1, <1>6 DEF AuthTypeOK, authVars
<1>7. QED
  BY <1>2, <1>3, <1>4, <1>5, <1>6 DEF Next, Register, AskChallenge, Login, Enqueue,
     Acknowledge, SocketAuthenticate, Push, Drain, Close, Refuse, Housekeeping, Clock

SocketTypeOK ==
  /\ sockets \in [Address -> SUBSET Conn]
  /\ address \in [Conn -> SUBSET Address]
  /\ open \subseteq Conn
  /\ pushing \subseteq Messages
  /\ draining \subseteq [conn : Conn, batch : SUBSET Messages]
  /\ inbox \in [Conn -> SUBSET Messages]
  /\ provenBy \in [Conn -> SUBSET Address]

\* What a set of connections is sent.
LEMMA SentEffect ==
  ASSUME NEW conns, NEW messages, NEW c \in Conn
  PROVE  /\ c \in conns \cap open => Sent(conns, messages)[c] = inbox[c] \cup messages
         /\ c \notin conns \cap open => Sent(conns, messages)[c] = inbox[c]
  BY DEF Sent

\* Sockets, and the handlers between two awaits.
LEMMA SocketTypeStep ==
  ASSUME TypeOK, Next
  PROVE  SocketTypeOK'
<1>1. SocketTypeOK /\ grants \subseteq Grant /\ queue \in [Address -> SUBSET Nat]
      /\ received \in [Address -> Seq(Nat)]
      /\ (\A a \in Address : queue[a] \subseteq Accepted(a)) /\ Messages \subseteq Messages'
  BY AcceptedGrows DEF TypeOK, AuthTypeOK, SocketTypeOK
<1>2. ASSUME NEW a \in Address, Enqueue(a) PROVE SocketTypeOK'
  <2>1. <<a, Len(received[a]) + 1>> \in Messages'
    BY <1>1, <1>2, QueueHolds DEF Enqueue, Messages, Accepted, TypeOK, AuthTypeOK
  <2>2. QED
    BY <1>1, <1>2, <2>1 DEF SocketTypeOK, Enqueue, socketVars
<1>3. ASSUME NEW m \in pushing, Push(m) PROVE SocketTypeOK'
  <2>1. Sent(sockets[m[1]], {m}) \in [Conn -> SUBSET Messages]
    BY <1>1 DEF Sent, SocketTypeOK
  <2>2. QED
    BY <1>1, <1>3, <2>1 DEF SocketTypeOK, Push
<1>4. ASSUME NEW d \in draining, Drain(d) PROVE SocketTypeOK'
  <2>1. Sent({d.conn}, d.batch) \in [Conn -> SUBSET Messages]
    BY <1>1 DEF Sent, SocketTypeOK
  <2>2. QED
    BY <1>1, <1>4, <2>1 DEF SocketTypeOK, Drain
<1>5. ASSUME NEW a \in Address, NEW c \in Conn, SocketAuthenticate(c, a) PROVE SocketTypeOK'
  <2>1. Snapshot(a) \in SUBSET Messages
    BY <1>1 DEF Snapshot, Messages
  <2>2. QED
    BY <1>1, <1>5, <2>1 DEF SocketTypeOK, SocketAuthenticate, Grant
<1>6. ASSUME NEW c \in Conn, Close(c) PROVE SocketTypeOK'
  BY <1>1, <1>6 DEF SocketTypeOK, Close
<1>7. CASE UNCHANGED <<socketVars, pushing, draining>>
  BY <1>1, <1>7 DEF SocketTypeOK, socketVars
<1>8. QED
  BY <1>2, <1>3, <1>4, <1>5, <1>6, <1>7 DEF Next, Register, AskChallenge, Login,
     Acknowledge, Refuse, Housekeeping, Clock

\* Type correctness: in particular no queue outgrows its bound.
THEOREM RelayTypes == Spec => []TypeOK
<1>1. Init => TypeOK
  <2> SUFFICES ASSUME Init PROVE TypeOK
    OBVIOUS
  <2>1. AuthTypeOK
    BY DEF Init, AuthInit, AuthTypeOK
  <2>2. \A a \in Address : queue[a] = {} /\ acked[a] = {} /\ Cardinality(queue[a]) <= MaxQueue
    BY FS_EmptySet, QueueHolds DEF Init
  <2>3. QED
    BY <2>1, <2>2 DEF Init, TypeOK
<1>2. TypeOK /\ [Next]_vars => TypeOK'
  <2> SUFFICES ASSUME TypeOK, [Next]_vars PROVE TypeOK'
    OBVIOUS
  <2>1. CASE Next
    <3>1. AuthTypeOK' /\ StoreTypeOK' /\ SocketTypeOK'
      BY <2>1, AuthTypeStep, StoreTypeStep, SocketTypeStep DEF TypeOK
    <3>2. accounts' \subseteq Address
      BY <2>1 DEF TypeOK, Next, Register, AskChallenge, Login, Enqueue, Acknowledge,
         SocketAuthenticate, Push, Drain, Close, Refuse, Housekeeping, Clock, storeVars
    <3>3. QED
      BY <3>1, <3>2 DEF TypeOK, StoreTypeOK, SocketTypeOK
  <2>2. CASE UNCHANGED vars
    BY <2>2 DEF TypeOK, AuthTypeOK, Accepted, Messages, vars, authVars, storeVars, socketVars
  <2>3. QED
    BY <2>1, <2>2
<1>3. QED
  BY <1>1, <1>2, PTL DEF Spec

-----------------------------------------------------------------------------
(* Nothing is lost in silence.                                             *)

\* A message that is neither queued nor acknowledged.
Missing(a, n) == n \in Accepted(a) \ (queue[a] \cup acked[a])
Excused(a, n) ==
  now - received[a][n] >= MessageTtl \/ n + MaxQueue <= Len(received[a])

\* Only the three ways out make a message go missing.
LEMMA LossStep ==
  ASSUME TypeOK, Next, NEW a \in Address, NEW n, Missing(a, n)',
         Missing(a, n) => Excused(a, n)
  PROVE  Excused(a, n)'
<1>1. /\ now \in Nat /\ received \in [Address -> Seq(Nat)] /\ queue \in [Address -> SUBSET Nat]
      /\ acked \in [Address -> SUBSET Nat] /\ Len(received[a]) \in Nat
      /\ queue[a] \subseteq Accepted(a)
  BY DEF TypeOK, AuthTypeOK
<1>2. ASSUME n \in Accepted(a) PROVE received'[a][n] = received[a][n] /\ received[a][n] \in Nat
  BY <1>1, <1>2, AcceptedGrows DEF Accepted
<1>3. ASSUME NEW b \in Address, Enqueue(b) PROVE Excused(a, n)'
  <2>1. /\ received' = [received EXCEPT ![b] = Append(received[b], now)]
        /\ queue' = [queue EXCEPT ![b] = Overflow(queue[b] \cup {Len(received[b]) + 1})]
        /\ acked' = acked /\ now' = now
    BY <1>3 DEF Enqueue, authVars
  <2>2. CASE b # a
    BY <1>1, <2>1, <2>2 DEF Missing, Excused, Accepted
  <2>3. CASE b = a
    <3> DEFINE top  == Len(received[a]) + 1
               held == queue[a] \cup {top}
    <3>1. Len(received'[a]) = top /\ queue'[a] = Overflow(held) /\ top \in Nat
      BY <1>1, <2>1, <2>3
    <3>2. held \in SUBSET (1 .. top)
      BY <1>1 DEF Accepted
    <3>3. CASE n \in held
      <4>1. n \in held \ Overflow(held)
        BY <3>1, <3>3 DEF Missing
      <4> HIDE DEF held, top
      <4>2. n + MaxQueue <= top
        BY <3>1, <3>2, <4>1, OverflowDropsOldest
      <4>3. QED
        BY <3>1, <4>2 DEF Excused
    <3>4. CASE n \notin held
      <4>1. Missing(a, n)
        BY <1>1, <2>1, <3>1, <3>4 DEF Missing, Accepted
      <4>2. n \in Accepted(a) /\ n \in Nat
        BY <4>1 DEF Missing, Accepted
      <4>3. now' = now /\ received'[a][n] = received[a][n]
        BY <1>2, <2>1, <4>2
      <4>4. CASE now - received[a][n] >= MessageTtl
        BY <4>3, <4>4 DEF Excused
      <4>5. CASE n + MaxQueue <= Len(received[a])
        <5>1. n + MaxQueue <= top
          BY <1>1, <4>2, <4>5, QueueHolds
        <5>2. QED
          BY <3>1, <5>1 DEF Excused
      <4>6. QED
        BY <4>1, <4>4, <4>5 DEF Excused
    <3>5. QED
      BY <3>3, <3>4
  <2>4. QED
    BY <2>2, <2>3
<1>4. ASSUME NEW b \in Address, Acknowledge(b) PROVE Excused(a, n)'
  <2>1. PICK m : /\ queue' = [queue EXCEPT ![b] = {k \in queue[b] : <<b, k>> \notin {m}}]
                 /\ acked' = [acked EXCEPT ![b] = acked[b] \cup {k \in Accepted(b) : <<b, k>> = m}]
                 /\ received' = received /\ now' = now
    BY <1>4 DEF Acknowledge, Remove, authVars
  <2>2. Missing(a, n)
    BY <1>1, <2>1 DEF Missing, Accepted
  <2>3. QED
    BY <2>1, <2>2 DEF Excused
<1>5. CASE Housekeeping
  <2>1. queue' = [b \in Address |-> Kept(b)] /\ UNCHANGED <<now, received, acked>>
    BY <1>5 DEF Housekeeping, Prune
  <2>2. CASE n \in queue[a]
    <3>1. n \in Accepted(a) /\ n \notin Kept(a)
      BY <1>1, <2>1, <2>2 DEF Missing
    <3>2. ~(now - received[a][n] < MessageTtl)
      BY <2>2, <3>1 DEF Kept
    <3>3. QED
      BY <1>1, <1>2, <2>1, <3>1, <3>2, QueueHolds DEF Excused
  <2>3. CASE n \notin queue[a]
    BY <2>1, <2>3 DEF Missing, Excused, Accepted
  <2>4. QED
    BY <2>2, <2>3
<1>6. CASE Clock
  <2>1. now' = now + 1 /\ UNCHANGED <<received, queue, acked>>
    BY <1>6 DEF Clock, Tick, storeVars
  <2>2. Missing(a, n) /\ n \in Accepted(a)
    BY <2>1 DEF Missing, Accepted
  <2>3. QED
    BY <1>1, <1>2, <2>1, <2>2, QueueHolds DEF Excused
<1>7. CASE UNCHANGED <<now, received, queue, acked>>
  BY <1>7 DEF Missing, Excused, Accepted
<1>8. QED
  BY <1>3, <1>4, <1>5, <1>6, <1>7 DEF Next, Register, AskChallenge, Login, IssueChallenge,
     Authenticate, SocketAuthenticate, Push, Drain, Close, Refuse, RefuseExpired,
     storeVars, authVars

\* Accepted messages leave by acknowledgement, age or overflow only.
THEOREM NothingIsLostSilently == Spec => []NothingLostSilently
<1> DEFINE Inv == \A a \in Address : \A n : Missing(a, n) => Excused(a, n)
<1>1. Init => Inv
  BY DEF Init, Missing, Accepted
<1>2. TypeOK /\ Inv /\ [Next]_vars => Inv'
  <2> SUFFICES ASSUME TypeOK, Inv, [Next]_vars PROVE Inv'
    OBVIOUS
  <2>1. CASE Next
    <3>1. SUFFICES ASSUME NEW a \in Address, NEW n, Missing(a, n)' PROVE Excused(a, n)'
      OBVIOUS
    <3>2. QED
      BY <2>1, <3>1, LossStep
  <2>2. CASE UNCHANGED vars
    BY <2>2 DEF Missing, Excused, Accepted, vars, authVars, storeVars
  <2>3. QED
    BY <2>1, <2>2
<1>3. Inv => NothingLostSilently
  BY DEF NothingLostSilently, Missing, Excused
<1> HIDE DEF Inv
<1>4. QED
  BY <1>1, <1>2, <1>3, RelayTypes, PTL DEF Spec

-----------------------------------------------------------------------------
(* Delivery to authenticated connections.                                  *)

\* Message n of a has been sent to c, or a handler will still send it.
OnItsWay(c, a, n) ==
  \/ <<a, n>> \in inbox[c]
  \/ <<a, n>> \in pushing
  \/ \E d \in draining : d.conn = c /\ <<a, n>> \in d.batch

Listening(c, a) == c \in sockets[a] \cap open

\* Nothing but a push or a drain ends a message's way, and these end it by
\* sending it to whoever listens.
LEMMA DeliveryStep ==
  ASSUME TypeOK, Next, NEW a \in Address, NEW c \in Conn, NEW n,
         Listening(c, a)', n \in queue'[a],
         Listening(c, a) /\ n \in queue[a] => OnItsWay(c, a, n)
  PROVE  OnItsWay(c, a, n)'
<1>1. /\ queue \in [Address -> SUBSET Nat] /\ inbox \in [Conn -> SUBSET Messages]
      /\ sockets \in [Address -> SUBSET Conn] /\ received \in [Address -> Seq(Nat)]
      /\ queue[a] \subseteq Accepted(a) /\ open \subseteq Conn
  BY DEF TypeOK
<1>2. ASSUME NEW b \in Address, Enqueue(b) PROVE OnItsWay(c, a, n)'
  <2> DEFINE new == Len(received[b]) + 1
  <2>1. /\ queue' = [queue EXCEPT ![b] = Overflow(queue[b] \cup {new})]
        /\ pushing' = pushing \cup {<<b, new>>}
        /\ UNCHANGED <<sockets, open, inbox, draining>>
    BY <1>2 DEF Enqueue, socketVars
  <2>2. n \in queue[a] \/ (b = a /\ n = new)
    BY <1>1, <2>1 DEF Overflow
  <2>3. QED
    BY <2>1, <2>2 DEF OnItsWay, Listening
<1>3. ASSUME NEW m \in pushing, Push(m) PROVE OnItsWay(c, a, n)'
  <2>1. /\ pushing' = pushing \ {m} /\ inbox' = Sent(sockets[m[1]], {m})
        /\ UNCHANGED <<sockets, open, draining, queue>>
    BY <1>3 DEF Push, storeVars
  <2>2. OnItsWay(c, a, n) /\ c \in sockets[a] \cap open
    BY <2>1 DEF Listening
  <2>3. inbox[c] \subseteq inbox'[c]
    BY <2>1, SentEffect
  <2>4. CASE m = <<a, n>>
    BY <2>1, <2>2, <2>4, SentEffect DEF OnItsWay
  <2>5. CASE m # <<a, n>>
    BY <2>1, <2>2, <2>3, <2>5 DEF OnItsWay
  <2>6. QED
    BY <2>4, <2>5
<1>4. ASSUME NEW d \in draining, Drain(d) PROVE OnItsWay(c, a, n)'
  <2>1. /\ draining' = draining \ {d} /\ inbox' = Sent({d.conn}, d.batch)
        /\ UNCHANGED <<sockets, open, pushing, queue>>
    BY <1>4 DEF Drain, storeVars
  <2>2. OnItsWay(c, a, n) /\ c \in open
    BY <2>1 DEF Listening
  <2>3. inbox[c] \subseteq inbox'[c]
    BY <2>1, SentEffect
  <2>4. CASE d.conn = c /\ <<a, n>> \in d.batch
    BY <2>1, <2>2, <2>4, SentEffect DEF OnItsWay
  <2>5. CASE ~(d.conn = c /\ <<a, n>> \in d.batch)
    BY <2>1, <2>2, <2>3, <2>5 DEF OnItsWay
  <2>6. QED
    BY <2>4, <2>5
<1>5. ASSUME NEW k \in Conn, NEW b \in Address, SocketAuthenticate(k, b)
      PROVE  OnItsWay(c, a, n)'
  <2>1. /\ sockets' = [sockets EXCEPT ![b] = sockets[b] \cup {k}]
        /\ draining' = draining \cup {[conn |-> k, batch |-> Snapshot(b)]}
        /\ UNCHANGED <<open, pushing, inbox, queue>>
    BY <1>5 DEF SocketAuthenticate, storeVars
  <2>2. CASE k = c /\ b = a
    <3>1. <<a, n>> \in Snapshot(a)
      BY <2>1 DEF Snapshot
    <3>2. PICK d : d = [conn |-> c, batch |-> Snapshot(a)]
      OBVIOUS
    <3>3. d.conn = c /\ <<a, n>> \in d.batch /\ d \in draining'
      BY <2>1, <2>2, <3>1, <3>2
    <3>4. QED
      BY <3>3 DEF OnItsWay
  <2>3. CASE ~(k = c /\ b = a)
    <3>1. Listening(c, a)
      BY <1>1, <2>1, <2>3 DEF Listening
    <3>2. QED
      BY <2>1, <3>1 DEF OnItsWay
  <2>4. QED
    BY <2>2, <2>3
<1>6. ASSUME NEW k \in Conn, Close(k) PROVE OnItsWay(c, a, n)'
  <2>1. /\ open' = open \ {k}
        /\ sockets' = [b \in Address |-> IF b \in address[k] THEN sockets[b] \ {k} ELSE sockets[b]]
        /\ inbox' = [inbox EXCEPT ![k] = {}]
        /\ UNCHANGED <<pushing, draining, queue>>
    BY <1>6 DEF Close, storeVars
  <2>2. Listening(c, a) /\ c # k
    BY <2>1 DEF Listening
  <2>3. inbox'[c] = inbox[c]
    BY <1>1, <2>1, <2>2
  <2>4. QED
    BY <2>1, <2>2, <2>3 DEF OnItsWay
<1>7. ASSUME queue'[a] \subseteq queue[a], UNCHANGED <<socketVars, pushing, draining>>
      PROVE  OnItsWay(c, a, n)'
  BY <1>7 DEF OnItsWay, Listening, socketVars
<1>8. ASSUME NEW b \in Address, Acknowledge(b)
      PROVE  queue'[a] \subseteq queue[a] /\ UNCHANGED <<socketVars, pushing, draining>>
  BY <1>1, <1>8 DEF Acknowledge, Remove
<1>9. ASSUME Housekeeping
      PROVE  queue'[a] \subseteq queue[a] /\ UNCHANGED <<socketVars, pushing, draining>>
  BY <1>1, <1>9 DEF Housekeeping, Kept
<1>10. QED
  BY <1>2, <1>3, <1>4, <1>5, <1>6, <1>7, <1>8, <1>9 DEF Next, Register, AskChallenge,
     Login, Refuse, Clock, storeVars

\* However enqueue, push, register and drain interleave, a connection that is
\* registered and open gets everything that is queued.
THEOREM NoDeliveryIsMissed == Spec => []NoMissedDelivery
<1> DEFINE Inv == \A a \in Address, c \in Conn : \A n \in queue[a] :
                    Listening(c, a) => OnItsWay(c, a, n)
<1>1. Init => Inv
  BY DEF Init
<1>2. TypeOK /\ Inv /\ [Next]_vars => Inv'
  <2> SUFFICES ASSUME TypeOK, Inv, [Next]_vars PROVE Inv'
    OBVIOUS
  <2>1. CASE Next
    <3>1. SUFFICES ASSUME NEW a \in Address, NEW c \in Conn, NEW n \in queue'[a],
                          Listening(c, a)'
                   PROVE  OnItsWay(c, a, n)'
      OBVIOUS
    <3>2. QED
      BY <2>1, <3>1, DeliveryStep
  <2>2. CASE UNCHANGED vars
    <3>1. UNCHANGED <<queue, sockets, open, inbox, pushing, draining>>
      BY <2>2 DEF vars, storeVars, socketVars
    <3>2. SUFFICES ASSUME NEW a \in Address, NEW c \in Conn, NEW n \in queue'[a],
                          Listening(c, a)'
                   PROVE  OnItsWay(c, a, n)'
      OBVIOUS
    <3>3. Listening(c, a) /\ n \in queue[a]
      BY <3>1, <3>2 DEF Listening
    <3>4. OnItsWay(c, a, n)
      BY <3>3
    <3>5. QED
      BY <3>1, <3>4 DEF OnItsWay
  <2>3. QED
    BY <2>1, <2>2
<1>3. TypeOK /\ Inv => NoMissedDelivery
  BY DEF NoMissedDelivery, Listening, OnItsWay, TypeOK
<1> HIDE DEF Inv
<1>4. QED
  BY <1>1, <1>2, <1>3, RelayTypes, PTL DEF Spec

-----------------------------------------------------------------------------
(* Who may read.                                                           *)

\* A challenge that earned a token is spent, and no two challenges share a
\* value; the numbers drawn so far bound both.
EarnInv ==
  /\ EarnedOnce
  /\ \A r \in challenges : r.value <= drawn
  /\ \A r1, r2 \in challenges : r1.value = r2.value => r1 = r2
  /\ \A g \in grants : g.for.value <= drawn
  /\ \A g \in grants, r \in challenges : r.value # g.for.value

\* A login spends its challenge before the grant.
LEMMA EarnStep ==
  ASSUME AuthTypeOK, EarnInv, Next
  PROVE  EarnInv'
<1>1. /\ now \in Nat /\ drawn \in Nat /\ challenges \subseteq Challenge
      /\ tokens \subseteq Token /\ grants \subseteq Grant
      /\ \A r \in challenges : r.value \in Nat
      /\ \A g \in grants : g.for.value \in Nat
  BY DEF AuthTypeOK, Challenge, Grant
<1>2. ASSUME NEW a \in Address, IssueChallenge(a) PROVE EarnInv'
  <2>1. PICK c : c = [value |-> drawn + 1, address |-> a, expiresAt |-> now + ChallengeTtl]
    OBVIOUS
  <2>2. /\ drawn' = drawn + 1 /\ challenges' = challenges \cup {c} /\ grants' = grants
        /\ c.value = drawn + 1
    BY <1>2, <2>1 DEF IssueChallenge
  <2>3. /\ \A r \in challenges' : r.value <= drawn'
        /\ \A g \in grants' : g.for.value <= drawn'
    BY <1>1, <2>2 DEF EarnInv
  <2>4. \A r \in challenges : r.value # c.value
    BY <1>1, <2>2 DEF EarnInv
  <2>5. \A g \in grants : g.for.value # c.value
    BY <1>1, <2>2 DEF EarnInv
  <2>6. EarnedOnce'
    BY <2>2 DEF EarnInv, EarnedOnce
  <2>7. QED
    BY <2>2, <2>3, <2>4, <2>5, <2>6 DEF EarnInv
<1>3. ASSUME NEW a \in Address, NEW value, NEW signer \in Address,
             Authenticate(a, value, signer)
      PROVE  EarnInv'
  <2>1. challenges' = Spend(value)
    BY <1>3 DEF Authenticate
  <2>2. CASE UNCHANGED <<drawn, grants>>
    BY <2>1, <2>2 DEF EarnInv, EarnedOnce, Spend
  <2>3. CASE ~ UNCHANGED <<drawn, grants>>
    <3>1. PICK r \in challenges :
            /\ r.value = value /\ Accepts(r, a, signer)
            /\ drawn' = drawn + 1
            /\ grants' = grants \cup
                 {[token |-> drawn + 1, address |-> a, by |-> signer, at |-> now, for |-> r]}
      BY <1>3, <2>3 DEF Authenticate
    <3>2. PICK g : g = [token |-> drawn + 1, address |-> a, by |-> signer, at |-> now, for |-> r]
      OBVIOUS
    <3>3. /\ g.by = g.address /\ g.for = r /\ g.for.address = g.address
          /\ g.at <= g.for.expiresAt /\ grants' = grants \cup {g}
      BY <3>1, <3>2 DEF Accepts
    <3>4. \A h \in grants : h.for.value # r.value
      BY <3>1 DEF EarnInv
    <3>5. EarnedOnce'
      BY <3>3, <3>4 DEF EarnInv, EarnedOnce
    <3>6. \A k \in challenges' : k \in challenges /\ k.value # r.value
      BY <2>1, <3>1 DEF Spend
    <3>7. /\ \A k \in challenges' : k.value <= drawn'
          /\ \A h \in grants' : h.for.value <= drawn'
      BY <1>1, <3>1, <3>3, <3>6 DEF EarnInv
    <3>8. \A h \in grants', k \in challenges' : k.value # h.for.value
      BY <3>3, <3>6 DEF EarnInv
    <3>9. QED
      BY <3>5, <3>6, <3>7, <3>8 DEF EarnInv
  <2>4. QED
    BY <2>2, <2>3
<1>4. CASE challenges' \subseteq challenges /\ UNCHANGED <<drawn, grants>>
  BY <1>4 DEF EarnInv, EarnedOnce
<1>5. QED
  BY <1>2, <1>3, <1>4 DEF Next, Register, AskChallenge, Login, Enqueue, Acknowledge,
     SocketAuthenticate, Push, Drain, Close, Refuse, RefuseExpired, Housekeeping, Prune,
     Unexpired, Clock, Tick, authVars

\* Every token was earned by its own key, once per challenge.
THEOREM TokensAreEarned == Spec => []EarnedOnce
<1>1. Init => EarnInv
  BY DEF Init, AuthInit, EarnInv, EarnedOnce
<1>2. TypeOK /\ EarnInv /\ [Next]_vars => EarnInv'
  <2>1. CASE UNCHANGED vars
    BY <2>1 DEF EarnInv, EarnedOnce, vars, authVars
  <2>2. QED
    BY <2>1, EarnStep DEF TypeOK
<1>3. EarnInv => EarnedOnce
  BY DEF EarnInv
<1>4. QED
  BY <1>1, <1>2, <1>3, RelayTypes, PTL DEF Spec

\* Where a message of an account is or is about to go, its key was proven.
ReadInv ==
  /\ OnlyKeyHoldersRead
  /\ \A r \in tokens : \E g \in grants : g.token = r.token /\ g.by = r.address
  /\ \A a \in Address : \A c \in sockets[a] : a \in provenBy[c]
  /\ \A d \in draining : \A m \in d.batch : m[1] \in provenBy[d.conn]

\* A grant is only added, and a new token comes with one.
LEMMA TokensHaveGrants ==
  ASSUME Next, EarnInv',
         \A r \in tokens : \E g \in grants : g.token = r.token /\ g.by = r.address
  PROVE  \A r \in tokens' : \E g \in grants' : g.token = r.token /\ g.by = r.address
<1>1. ASSUME NEW a \in Address, NEW value, NEW signer \in Address,
             Authenticate(a, value, signer), NEW r \in tokens'
      PROVE  \E g \in grants' : g.token = r.token /\ g.by = r.address
  <2>1. CASE UNCHANGED <<tokens, grants>>
    BY <1>1, <2>1
  <2>2. CASE ~ UNCHANGED <<tokens, grants>>
    <3>1. PICK c \in challenges :
            /\ tokens' = tokens \cup
                 {[token |-> drawn + 1, address |-> a, expiresAt |-> now + TokenTtl]}
            /\ grants' = grants \cup
                 {[token |-> drawn + 1, address |-> a, by |-> signer, at |-> now, for |-> c]}
      BY <1>1, <2>2 DEF Authenticate
    <3>2. PICK g : g = [token |-> drawn + 1, address |-> a, by |-> signer, at |-> now, for |-> c]
      OBVIOUS
    <3>3. g \in grants' /\ g.token = drawn + 1 /\ g.address = a
      BY <3>1, <3>2
    <3>4. g.by = a
      BY <3>3 DEF EarnInv, EarnedOnce
    <3>5. CASE r \in tokens
      BY <3>1, <3>5
    <3>6. CASE r \notin tokens
      <4>1. r.token = drawn + 1 /\ r.address = a
        BY <1>1, <3>1, <3>6
      <4>2. QED
        BY <3>3, <3>4, <4>1
    <3>7. QED
      BY <3>5, <3>6
  <2>3. QED
    BY <2>1, <2>2
<1>2. CASE tokens' \subseteq tokens /\ grants' = grants
  BY <1>2
<1>3. QED
  BY <1>1, <1>2 DEF Next, Register, AskChallenge, IssueChallenge, Login, Enqueue,
     Acknowledge, SocketAuthenticate, Push, Drain, Close, Refuse, RefuseExpired,
     Housekeeping, Prune, Unexpired, Clock, Tick, authVars

\* A connection is only ever sent what it may read.
LEMMA ReadStep ==
  ASSUME TypeOK, EarnInv', ReadInv, Next
  PROVE  ReadInv'
<1>1. /\ inbox \in [Conn -> SUBSET Messages] /\ sockets \in [Address -> SUBSET Conn]
      /\ provenBy \in [Conn -> SUBSET Address] /\ pushing \subseteq Messages
      /\ draining \subseteq [conn : Conn, batch : SUBSET Messages]
  BY DEF TypeOK
<1>2. \A r \in tokens' : \E g \in grants' : g.token = r.token /\ g.by = r.address
  BY TokensHaveGrants DEF ReadInv
<1>3. ASSUME NEW m \in pushing, Push(m) PROVE ReadInv'
  <2>1. /\ draining' = draining /\ inbox' = Sent(sockets[m[1]], {m})
        /\ UNCHANGED <<sockets, provenBy>>
    BY <1>3 DEF Push
  <2>2. m[1] \in Address
    BY <1>1 DEF Messages
  <2>3. ASSUME NEW c \in Conn, NEW k \in inbox'[c] PROVE k[1] \in provenBy[c]
    BY <2>1, <2>2, <2>3, SentEffect DEF ReadInv, OnlyKeyHoldersRead
  <2>4. QED
    BY <1>2, <2>1, <2>3 DEF ReadInv, OnlyKeyHoldersRead
<1>4. ASSUME NEW d \in draining, Drain(d) PROVE ReadInv'
  <2>1. /\ draining' = draining \ {d} /\ inbox' = Sent({d.conn}, d.batch)
        /\ UNCHANGED <<sockets, provenBy>>
    BY <1>4 DEF Drain
  <2>2. ASSUME NEW c \in Conn, NEW k \in inbox'[c] PROVE k[1] \in provenBy[c]
    <3>1. CASE k \in inbox[c]
      BY <3>1 DEF ReadInv, OnlyKeyHoldersRead
    <3>2. CASE k \notin inbox[c]
      <4>1. c = d.conn /\ k \in d.batch
        BY <2>1, <2>2, <3>2, SentEffect
      <4>2. QED
        BY <4>1 DEF ReadInv
    <3>3. QED
      BY <3>1, <3>2
  <2>3. QED
    BY <1>2, <2>1, <2>2 DEF ReadInv, OnlyKeyHoldersRead
<1>5. ASSUME NEW c \in Conn, NEW a \in Address, SocketAuthenticate(c, a) PROVE ReadInv'
  <2>1. PICK token : /\ Resolves(token, a)
                     /\ provenBy' = [provenBy EXCEPT ![c] =
                          provenBy[c] \cup {g.by : g \in {g \in grants : g.token = token}}]
    BY <1>5 DEF SocketAuthenticate
  <2>2. PICK d : d = [conn |-> c, batch |-> Snapshot(a)]
    OBVIOUS
  <2>3. /\ sockets' = [sockets EXCEPT ![a] = sockets[a] \cup {c}]
        /\ draining' = draining \cup {d} /\ inbox' = inbox
        /\ d.conn = c /\ \A m \in d.batch : m[1] = a
    BY <1>5, <2>2 DEF SocketAuthenticate, Snapshot
  <2>4. /\ \A k \in Conn : provenBy[k] \subseteq provenBy'[k]
        /\ provenBy'[c] = provenBy[c] \cup {g.by : g \in {g \in grants : g.token = token}}
    BY <1>1, <2>1
  <2>5. a \in provenBy'[c]
    <3>1. PICK g \in grants : g.token = token /\ g.by = a
      BY <2>1 DEF Resolves, ReadInv
    <3>2. QED
      BY <2>4, <3>1
  <2>6. \A k \in Conn : \A m \in inbox'[k] : m[1] \in provenBy'[k]
    BY <2>3, <2>4 DEF ReadInv, OnlyKeyHoldersRead
  <2>7. \A b \in Address : \A k \in sockets'[b] : b \in provenBy'[k]
    <3>1. SUFFICES ASSUME NEW b \in Address, NEW k \in sockets'[b] PROVE b \in provenBy'[k]
      OBVIOUS
    <3>2. CASE k \in sockets[b]
      BY <1>1, <2>4, <3>2 DEF ReadInv
    <3>3. CASE k \notin sockets[b]
      <4>1. b = a /\ k = c
        BY <1>1, <2>3, <3>1, <3>3
      <4>2. QED
        BY <2>5, <4>1
    <3>4. QED
      BY <3>2, <3>3
  <2>8. \A e \in draining' : \A m \in e.batch : m[1] \in provenBy'[e.conn]
    <3>1. SUFFICES ASSUME NEW e \in draining', NEW m \in e.batch PROVE m[1] \in provenBy'[e.conn]
      OBVIOUS
    <3>2. CASE e \in draining
      <4>1. e.conn \in Conn
        BY <1>1, <3>2
      <4>2. QED
        BY <2>4, <3>2, <4>1 DEF ReadInv
    <3>3. CASE e = d
      BY <2>3, <2>5, <3>3
    <3>4. QED
      BY <2>3, <3>2, <3>3
  <2>9. QED
    BY <1>2, <2>6, <2>7, <2>8 DEF ReadInv, OnlyKeyHoldersRead
<1>6. ASSUME NEW c \in Conn, Close(c) PROVE ReadInv'
  <2>1. /\ \A k \in Conn : inbox'[k] \subseteq inbox[k]
        /\ \A a \in Address : sockets'[a] \subseteq sockets[a]
        /\ UNCHANGED <<provenBy, draining>>
    BY <1>1, <1>6 DEF Close
  <2>2. QED
    BY <1>2, <2>1 DEF ReadInv, OnlyKeyHoldersRead
<1>7. CASE UNCHANGED <<inbox, sockets, provenBy, draining>>
  BY <1>2, <1>7 DEF ReadInv, OnlyKeyHoldersRead
<1>8. QED
  BY <1>3, <1>4, <1>5, <1>6, <1>7 DEF Next, Register, AskChallenge, Login, Enqueue,
     Acknowledge, Refuse, Housekeeping, Clock, socketVars

\* What a connection is sent is for accounts whose key it has proven.
THEOREM OnlyKeyHoldersEverRead == Spec => []OnlyKeyHoldersRead
<1>1. Init => EarnInv /\ ReadInv
  BY DEF Init, AuthInit, EarnInv, EarnedOnce, ReadInv, OnlyKeyHoldersRead
<1>2. TypeOK /\ EarnInv /\ [Next]_vars => EarnInv'
  <2>1. CASE UNCHANGED vars
    BY <2>1 DEF EarnInv, EarnedOnce, vars, authVars
  <2>2. QED
    BY <2>1, EarnStep DEF TypeOK
<1>3. TypeOK /\ EarnInv' /\ ReadInv /\ [Next]_vars => ReadInv'
  <2>1. CASE UNCHANGED vars
    BY <2>1 DEF ReadInv, OnlyKeyHoldersRead, vars, authVars, socketVars
  <2>2. QED
    BY <2>1, ReadStep
<1>4. ReadInv => OnlyKeyHoldersRead
  BY DEF ReadInv
<1>5. QED
  BY <1>1, <1>2, <1>3, <1>4, RelayTypes, PTL DEF Spec
-----------------------------------------------------------------------------
(* What a closed connection leaves.                                        *)

\* Only an open connection is registered, and closing one takes it out of the
\* set of its latest address.
LEMMA ClosedStep ==
  ASSUME TypeOK, ClosedAreForgotten, Next
  PROVE  ClosedAreForgotten'
<1>1. sockets \in [Address -> SUBSET Conn] /\ address \in [Conn -> SUBSET Address]
  BY DEF TypeOK
<1>2. ASSUME NEW c \in Conn, NEW b \in Address, SocketAuthenticate(c, b)
      PROVE  ClosedAreForgotten'
  <2>1. /\ c \in open /\ open' = open
        /\ \A k \in Conn \ {c} : address'[k] = address[k]
        /\ \A a \in Address : sockets'[a] \subseteq sockets[a] \cup {c}
    BY <1>1, <1>2 DEF SocketAuthenticate
  <2>2. SUFFICES ASSUME NEW a \in Address, NEW k \in sockets'[a] \ open'
                 PROVE  a \notin address'[k]
    BY DEF ClosedAreForgotten
  <2>3. k \in sockets[a] \ open /\ k # c
    BY <2>1, <2>2
  <2>4. QED
    BY <1>1, <2>1, <2>3 DEF ClosedAreForgotten
<1>3. ASSUME NEW c \in Conn, Close(c) PROVE ClosedAreForgotten'
  <2>1. /\ open' = open \ {c} /\ address' = address
        /\ \A a \in Address :
             sockets'[a] = IF a \in address[c] THEN sockets[a] \ {c} ELSE sockets[a]
    BY <1>3 DEF Close, authVars
  <2>2. SUFFICES ASSUME NEW a \in Address, NEW k \in sockets'[a] \ open'
                 PROVE  a \notin address'[k]
    BY DEF ClosedAreForgotten
  <2>3. CASE k = c
    BY <2>1, <2>2, <2>3
  <2>4. CASE k # c
    BY <2>1, <2>2, <2>4 DEF ClosedAreForgotten
  <2>5. QED
    BY <2>3, <2>4
<1>4. CASE UNCHANGED <<sockets, address, open>>
  BY <1>4 DEF ClosedAreForgotten
<1>5. QED
  BY <1>2, <1>3, <1>4 DEF Next, Register, AskChallenge, Login, Enqueue, Acknowledge, Push,
     Drain, Refuse, Housekeeping, Clock, socketVars

\* A connection that has closed is under no address but earlier ones of its own:
\* the close handler deletes it from the set of the latest (relay.ts:405).
THEOREM ClosedAreAlwaysForgotten == Spec => []ClosedAreForgotten
<1>1. Init => ClosedAreForgotten
  BY DEF Init, ClosedAreForgotten
<1>2. TypeOK /\ ClosedAreForgotten /\ [Next]_vars => ClosedAreForgotten'
  <2>1. CASE UNCHANGED vars
    BY <2>1 DEF ClosedAreForgotten, vars, socketVars
  <2>2. QED
    BY <2>1, ClosedStep
<1>3. QED
  BY <1>1, <1>2, RelayTypes, PTL DEF Spec

-----------------------------------------------------------------------------
(* The relay implements a mailbox for each account.                        *)

\* Receive times follow the order of acceptance, and the clock.
Ordered ==
  \A a \in Address : \A i, j \in Accepted(a) :
    i <= j => received[a][i] <= received[a][j] /\ received[a][j] <= now

\* A new message is the latest, and the clock only moves on.
LEMMA OrderStep ==
  ASSUME TypeOK, Ordered, Next
  PROVE  Ordered'
<1>1. /\ now \in Nat /\ received \in [Address -> Seq(Nat)]
      /\ \A a \in Address : Len(received[a]) \in Nat
  BY DEF TypeOK, AuthTypeOK
<1>2. \A a \in Address : \A n \in Accepted(a) : received[a][n] \in Nat
  BY <1>1 DEF Accepted
<1>3. ASSUME NEW b \in Address, Enqueue(b) PROVE Ordered'
  <2> DEFINE top == Len(received[b]) + 1
  <2>1. received' = [received EXCEPT ![b] = Append(received[b], now)] /\ now' = now
    BY <1>3 DEF Enqueue, authVars
  <2>2. /\ Len(received'[b]) = top /\ received'[b][top] = now
        /\ \A n \in Accepted(b) : received'[b][n] = received[b][n]
    BY <1>1, <2>1 DEF Accepted
  <2>3. SUFFICES ASSUME NEW a \in Address, NEW i \in Accepted(a)', NEW j \in Accepted(a)', i <= j
                 PROVE  received'[a][i] <= received'[a][j] /\ received'[a][j] <= now'
    BY DEF Ordered
  <2>4. CASE a # b
    BY <1>1, <2>1, <2>3, <2>4 DEF Ordered, Accepted
  <2>5. CASE a = b
    <3>1. i \in Accepted(b) \cup {top} /\ j \in Accepted(b) \cup {top}
      BY <1>1, <2>2, <2>3, <2>5 DEF Accepted
    <3>2. CASE j = top
      <4>1. received'[b][i] <= now
        <5>1. CASE i \in Accepted(b)
          <6>1. i \in Nat
            BY <1>1, <5>1 DEF Accepted
          <6>2. received[b][i] <= now
            BY <5>1, <6>1 DEF Ordered
          <6>3. QED
            BY <2>2, <5>1, <6>2
        <5>2. CASE i = top
          BY <1>1, <2>2, <5>2
        <5>3. QED
          BY <3>1, <5>1, <5>2
      <4> HIDE DEF top
      <4>2. received'[b][j] = now /\ now' = now /\ now <= now
        BY <1>1, <2>1, <2>2, <3>2
      <4>3. QED
        BY <2>5, <4>1, <4>2
    <3>3. CASE j # top
      <4>1. i \in Accepted(b) /\ j \in Accepted(b)
        BY <1>1, <2>3, <3>1, <3>3 DEF Accepted
      <4>2. received[b][i] <= received[b][j] /\ received[b][j] <= now
        BY <2>3, <4>1 DEF Ordered
      <4>3. QED
        BY <2>1, <2>2, <2>5, <4>1, <4>2
    <3>4. QED
      BY <3>2, <3>3
  <2>6. QED
    BY <2>4, <2>5
<1>4. CASE Clock
  <2>1. now' = now + 1 /\ received' = received
    BY <1>4 DEF Clock, Tick, storeVars
  <2>2. QED
    BY <1>1, <1>2, <2>1 DEF Ordered, Accepted
<1>5. CASE UNCHANGED <<now, received>>
  BY <1>5 DEF Ordered, Accepted
<1>6. QED
  BY <1>3, <1>4, <1>5 DEF Next, Register, AskChallenge, Login, IssueChallenge, Authenticate,
     SocketAuthenticate, Push, Drain, Close, Refuse, RefuseExpired, Acknowledge, Housekeeping,
     Prune, storeVars, authVars

-----------------------------------------------------------------------------
(* Each step of the relay is a step of the boxes, or none.                 *)

\* The mapped state, and what it is made of.
Count == [a \in Address |-> Len(received[a])]
Stale == [a \in Address |-> {n \in Accepted(a) : now - received[a][n] >= MessageTtl}]

\* A message just enqueued is not stale, the others are what they were.
LEMMA PostStep ==
  ASSUME TypeOK, TypeOK', NEW a \in Address, Enqueue(a)
  PROVE  M!Post(a)
<1> DEFINE n == Len(received[a]) + 1
           kept == Overflow(queue[a] \cup {n})
<1>1. /\ now \in Nat /\ received \in [Address -> Seq(Nat)] /\ queue \in [Address -> SUBSET Nat]
      /\ Len(received[a]) \in Nat /\ queue[a] \subseteq 1 .. Len(received[a])
  BY DEF TypeOK, AuthTypeOK, Accepted
<1>2. /\ received' = [received EXCEPT ![a] = Append(received[a], now)]
      /\ queue' = [queue EXCEPT ![a] = kept]
      /\ now' = now /\ acked' = acked
  BY DEF Enqueue, authVars
<1>3. Count' = [Count EXCEPT ![a] = n] /\ Count[a] + 1 = n
  <2>1. \A b \in Address : Len(received'[b]) = IF b = a THEN n ELSE Len(received[b])
    BY <1>1, <1>2
  <2>2. QED
    BY <2>1 DEF Count
<1>4. Stale' = Stale
  <2>1. SUFFICES ASSUME NEW b \in Address PROVE Stale'[b] = Stale[b]
    BY DEF Stale
  <2>2. CASE b # a
    BY <1>1, <1>2, <2>2 DEF Stale, Accepted
  <2>3. CASE b = a
    <3>1. /\ Accepted(a)' = Accepted(a) \cup {n} /\ received'[a][n] = now
          /\ \A k \in Accepted(a) : received'[a][k] = received[a][k]
      BY <1>1, <1>2 DEF Accepted
    <3>2. ~(now - now >= MessageTtl) /\ n \notin Accepted(a)
      BY <1>1, QueueHolds DEF Accepted
    <3>3. QED
      BY <1>1, <1>2, <2>3, <3>1, <3>2 DEF Stale
  <2>4. QED
    BY <2>2, <2>3
<1>5. kept \in SUBSET (queue[a] \cup {n}) /\ Cardinality(kept) <= MaxQueue
  <2>1. queue'[a] = kept
    BY <1>1, <1>2
  <2>2. kept \subseteq queue[a] \cup {n}
    BY DEF Overflow
  <2>3. QED
    BY <2>1, <2>2 DEF TypeOK
<1>6. n \in kept
  <2> DEFINE newer == {k \in queue[a] \cup {n} : k >= n}
  <2>1. newer = {n}
    BY <1>1
  <2>2. Cardinality({n}) = 1
    BY FS_Singleton
  <2>3. Cardinality(newer) <= MaxQueue
    <3> HIDE DEF newer, n
    <3>1. QED
      BY <2>1, <2>2, QueueHolds
  <2>4. QED
    BY <2>3 DEF Overflow
<1>7. ASSUME NEW k \in queue[a] \ kept PROVE k + MaxQueue <= n
  <2>1. queue[a] \cup {n} \in SUBSET (1 .. n) /\ n \in Nat
    BY <1>1
  <2>2. k \in (queue[a] \cup {n}) \ Overflow(queue[a] \cup {n})
    BY <1>7
  <2> HIDE DEF n
  <2>3. QED
    BY <2>1, <2>2, OverflowDropsOldest
<1> HIDE DEF n, kept
<1>8. M!Cardinality(kept) <= MaxQueue
  BY <1>5 DEF M!Cardinality, Cardinality
<1>9. QED
  BY <1>2, <1>3, <1>4, <1>5, <1>6, <1>7, <1>8 DEF M!Post, Count, Stale

\* An account's acknowledgement takes one of its own out, or nothing.
LEMMA TakeStep ==
  ASSUME TypeOK, NEW a \in Address, Acknowledge(a)
  PROVE  M!Take(a) \/ UNCHANGED <<queue, acked, received, now>>
<1>1. PICK m \in Messages :
        /\ queue' = [queue EXCEPT ![a] = {n \in queue[a] : <<a, n>> \notin {m}}]
        /\ acked' = [acked EXCEPT ![a] = acked[a] \cup {n \in Accepted(a) : <<a, n>> = m}]
        /\ received' = received /\ now' = now
  BY DEF Acknowledge, Remove, authVars
<1>2. queue \in [Address -> SUBSET Nat] /\ acked \in [Address -> SUBSET Nat]
  BY DEF TypeOK
<1>3. PICK b \in Address : \E k \in Accepted(b) : m = <<b, k>>
  BY DEF Messages
<1> PICK k \in Accepted(b) : m = <<b, k>>
  BY <1>3
<1>4. CASE b # a
  <2>1. queue' = queue /\ acked' = acked
    BY <1>1, <1>2, <1>3, <1>4
  <2>2. QED
    BY <1>1, <2>1
<1>5. CASE b = a
  <2>1. /\ queue' = [queue EXCEPT ![a] = queue[a] \ {k}]
        /\ acked' = [acked EXCEPT ![a] = acked[a] \cup {k}]
    <3>1. {n \in queue[a] : <<a, n>> \notin {m}} = queue[a] \ {k}
      BY <1>3, <1>5
    <3>2. {n \in Accepted(a) : <<a, n>> = m} = {k}
      BY <1>3, <1>5
    <3>3. QED
      BY <1>1, <3>1, <3>2
  <2>2. Count' = Count /\ Stale' = Stale /\ k \in 1 .. Count[a]
    BY <1>1, <1>3, <1>5 DEF Count, Stale, Accepted
  <2>3. QED
    BY <2>1, <2>2 DEF M!Take, Count, Stale
<1>6. QED
  BY <1>4, <1>5

\* Housekeeping takes out what is stale.
LEMMA ExpireStep ==
  ASSUME TypeOK, Housekeeping
  PROVE  M!Expire
<1>1. /\ queue' = [a \in Address |-> Kept(a)]
      /\ received' = received /\ acked' = acked /\ now' = now
  BY DEF Housekeeping, Prune
<1>2. /\ now \in Nat /\ received \in [Address -> Seq(Nat)]
      /\ \A a \in Address : queue[a] \subseteq Accepted(a)
      /\ \A a \in Address : \A n \in Accepted(a) : received[a][n] \in Nat
  BY DEF TypeOK, AuthTypeOK, Accepted
<1>3. \A a \in Address : Kept(a) = queue[a] \ Stale[a]
  BY <1>2, QueueHolds DEF Kept, Stale
<1>4. Count' = Count /\ Stale' = Stale
  BY <1>1 DEF Count, Stale, Accepted
<1>5. QED
  BY <1>1, <1>3, <1>4 DEF M!Expire, Count, Stale

\* As the clock moves on, the oldest become stale first.
LEMMA AgeStep ==
  ASSUME TypeOK, Ordered, Clock
  PROVE  M!Age
<1>1. now' = now + 1 /\ received' = received /\ queue' = queue /\ acked' = acked
  BY DEF Clock, Tick, storeVars
<1>2. /\ now \in Nat /\ received \in [Address -> Seq(Nat)]
      /\ \A a \in Address : Accepted(a) \subseteq Nat /\ Accepted(a)' = Accepted(a)
      /\ \A a \in Address : \A n \in Accepted(a) : received[a][n] \in Nat
  BY <1>1 DEF TypeOK, AuthTypeOK, Accepted
<1>3a. ASSUME NEW a \in Address
      PROVE  \A n : n \in Stale'[a] <=>
                     n \in Accepted(a) /\ (now + 1) - received[a][n] >= MessageTtl
  <2>1. Stale'[a] = {n \in Accepted(a)' : now' - received'[a][n] >= MessageTtl}
    BY DEF Stale
  <2>2. \A n : n \in Stale'[a] <=>
                n \in Accepted(a)' /\ now' - received'[a][n] >= MessageTtl
    BY <2>1
  <2>3. Accepted(a)' = Accepted(a) /\ received'[a] = received[a] /\ now' = now + 1
    BY <1>1, <1>2
  <2>4. ASSUME NEW n
        PROVE  n \in Stale'[a] <=> n \in Accepted(a) /\ (now + 1) - received[a][n] >= MessageTtl
    <3>1. received'[a][n] = received[a][n]
      BY <2>3
    <3>2. now' - received'[a][n] = (now + 1) - received[a][n]
      BY <2>3, <3>1
    <3>3. QED
      BY <2>2, <2>3, <3>2, Zenon
  <2>5. QED
    BY <2>4
<1>3. ASSUME NEW a \in Address
      PROVE  /\ Stale[a] \subseteq Stale'[a] /\ Stale'[a] \subseteq 1 .. Count[a]
             /\ Stale'[a] \in SUBSET Nat
  BY <1>1, <1>2, QueueHolds DEF Stale, Count, Accepted
<1>4. ASSUME NEW a \in Address, NEW n \in Stale'[a], NEW k \in 1 .. n PROVE k \in Stale'[a]
  <2>1. n \in Accepted(a) /\ (now + 1) - received[a][n] >= MessageTtl
    BY <1>3a
  <2>2. k \in Accepted(a) /\ k <= n
    BY <1>2, <2>1 DEF Accepted, TypeOK
  <2>3. received[a][k] <= received[a][n]
    BY <2>1, <2>2 DEF Ordered
  <2>4. received[a][k] \in Nat /\ received[a][n] \in Nat /\ now \in Nat /\ MessageTtl \in Nat
    BY <1>2, <2>1, <2>2, QueueHolds
  <2>5. (now + 1) - received[a][k] >= MessageTtl
    BY <2>1, <2>3, <2>4
  <2>6. QED
    BY <1>3a, <2>2, <2>5
<1>5. Stale' \in [Address -> SUBSET Nat] /\ Count' = Count
  BY <1>1, <1>3 DEF Stale, Count
<1>6. \A a \in Address : \A n \in Stale'[a] : 1 .. n \subseteq Stale'[a]
  BY <1>4
<1>7. QED
  BY <1>1, <1>3, <1>5, <1>6 DEF M!Age, Count, Stale

LEMMA MailboxStep ==
  ASSUME TypeOK, TypeOK', Ordered, Next
  PROVE  M!Next \/ UNCHANGED M!vars
<1>1. CASE \E a \in Address : Enqueue(a)
  BY <1>1, PostStep DEF M!Next
<1>2. ASSUME NEW a \in Address, Acknowledge(a) PROVE M!Next \/ UNCHANGED M!vars
  <2>1. CASE M!Take(a)
    BY <2>1 DEF M!Next
  <2>2. CASE UNCHANGED <<queue, acked, received, now>>
    BY <2>2 DEF M!vars, Accepted
  <2>3. QED
    BY <1>2, <2>1, <2>2, TakeStep
<1>3. CASE Housekeeping
  BY <1>3, ExpireStep DEF M!Next
<1>4. CASE Clock
  BY <1>4, AgeStep DEF M!Next
<1>5. CASE UNCHANGED <<queue, acked, received, now>>
  BY <1>5 DEF M!vars, Accepted
<1>6. QED
  BY <1>1, <1>2, <1>3, <1>4, <1>5 DEF Next, Register, AskChallenge, Login, IssueChallenge,
     Authenticate, SocketAuthenticate, Push, Drain, Close, Refuse, RefuseExpired, storeVars,
     authVars

\* The relay is a mailbox for each of its accounts.
THEOREM RelayIsMailbox == Spec => IsMailbox
<1>1. Init => Ordered /\ M!Init
  <2>1. SUFFICES ASSUME Init PROVE Ordered /\ M!Init
    OBVIOUS
  <2>2. \A a \in Address : Len(received[a]) = 0 /\ Accepted(a) = {}
    BY <2>1 DEF Init, Accepted
  <2>3. QED
    BY <2>1, <2>2 DEF Init, M!Init, Ordered
<1>2. TypeOK /\ TypeOK' /\ Ordered /\ [Next]_vars => Ordered' /\ [M!Next]_(M!vars)
  <2>1. SUFFICES ASSUME TypeOK, TypeOK', Ordered, [Next]_vars
                 PROVE  Ordered' /\ [M!Next]_(M!vars)
    OBVIOUS
  <2>2. CASE Next
    BY <2>1, <2>2, OrderStep, MailboxStep
  <2>3. CASE UNCHANGED vars
    BY <2>1, <2>3 DEF vars, storeVars, authVars, Ordered, Accepted, M!vars
  <2>4. QED
    BY <2>1, <2>2, <2>3
<1>3. QED
  BY <1>1, <1>2, RelayTypes, PTL DEF Spec, IsMailbox, M!Spec

-----------------------------------------------------------------------------
(* The limiter in front of the messages route, on its own: for every limit,*)
(* window and table size its table is bounded, and so is each client.      *)

LimiterTypes ==
  /\ clock \in Nat
  /\ Tracked \subseteq Client /\ buckets \in [Tracked -> Bucket]
  /\ opened \in [Client -> Int] /\ passed \in [Client -> Nat]

\* A bucket counts what was let through since its client's window began; a
\* client without a bucket has no open window.
BucketsCount ==
  \A k \in Client \ forgotten :
    /\ k \in Tracked => /\ opened[k] = buckets[k].windowStart
                        /\ passed[k] = buckets[k].count
    /\ k \notin Tracked => Lapsed(opened[k])

LimiterInv == LimiterTypes /\ TableIsBounded /\ BucketsCount /\ WindowIsHonoured

\* What is kept leaves room for one more bucket.
LEMMA RoomForOne ==
  ASSUME Sizes, TableIsBounded,
         NEW kept \in IF Cardinality(Tracked) >= MaxTracked THEN Spared ELSE {Tracked}
  PROVE  kept \subseteq Tracked /\ IsFiniteSet(kept) /\ Cardinality(kept) < MaxTracked
<1>1. IsFiniteSet(Tracked) /\ Cardinality(Tracked) \in Nat /\ Cardinality(Tracked) <= MaxTracked
  BY FS_CardinalityType DEF TableIsBounded
<1>2. CASE Cardinality(Tracked) < MaxTracked
  BY <1>1, <1>2 DEF Sizes
<1>3. CASE Cardinality(Tracked) >= MaxTracked
  <2>1. Live \subseteq Tracked /\ IsFiniteSet(Live) /\ Cardinality(Live) \in Nat
        /\ Cardinality(Live) <= Cardinality(Tracked)
    BY <1>1, FS_Subset, FS_CardinalityType DEF Live
  <2>2. CASE Cardinality(Live) < MaxTracked
    BY <1>3, <2>1, <2>2 DEF Spared
  <2>3. CASE Cardinality(Live) >= MaxTracked
    <3>1. PICK gone \in Oldest : kept = Live \ gone
      <4>1. kept \in Spared
        BY <1>3
      <4>2. Spared = {Live \ gone : gone \in Oldest}
        BY <2>1, <2>3 DEF Spared, Sizes
      <4> QED
        BY <4>1, <4>2
    <3>2. gone \subseteq Live /\ Cardinality(gone) = Dropped
      BY <3>1 DEF Oldest
    <3>3. IsFiniteSet(kept) /\ kept \subseteq Tracked
      BY <2>1, <3>1, FS_Difference
    <3>4. Cardinality(kept) = Cardinality(Live) - Cardinality(Live \cap gone)
      BY <2>1, <3>1, FS_Difference
    <3>5. Live \cap gone = gone
      BY <3>2
    <3>6. Cardinality(kept) = Cardinality(Live) - Dropped
      BY <3>2, <3>4, <3>5
    <3>7. Dropped \in Nat /\ Dropped > 0 /\ MaxTracked \in Nat
      BY DEF Sizes
    <3>8. Cardinality(kept) < MaxTracked
      BY <1>1, <2>1, <3>6, <3>7
    <3> QED
      BY <3>3, <3>8
  <2> QED
    BY <2>1, <2>2, <2>3 DEF Sizes
<1> QED
  BY <1>1, <1>2, <1>3 DEF Sizes

LEMMA OpenWindowKeepsLimiter ==
  ASSUME Sizes, LimiterInv, NEW k \in Client, OpenWindow(k)
  PROVE  LimiterInv'
<1> USE DEF LimiterInv
<1>1. PICK kept \in IF Cardinality(Tracked) >= MaxTracked THEN Spared ELSE {Tracked} :
        /\ buckets' = [j \in kept \cup {k} |->
             IF j = k THEN [count |-> 1, windowStart |-> clock] ELSE buckets[j]]
        /\ forgotten' = forgotten \cup (Live \ kept)
  BY DEF OpenWindow
<1>2. kept \subseteq Tracked /\ IsFiniteSet(kept) /\ Cardinality(kept) < MaxTracked
  BY <1>1, RoomForOne
<1>3. clock' = clock /\ (k \in Tracked => Lapsed(buckets[k].windowStart)) /\ Counted(k)
  BY DEF OpenWindow
<1>4. Tracked' = kept \cup {k}
  BY <1>1 DEF Tracked
<1>5. LimiterTypes'
  <2>1. opened' \in [Client -> Int] /\ passed' \in [Client -> Nat]
    BY <1>3 DEF Counted, LimiterTypes
  <2>2. \A j \in kept : buckets[j] \in Bucket
    BY <1>2 DEF LimiterTypes
  <2>3. [count |-> 1, windowStart |-> clock] \in Bucket
    BY DEF LimiterTypes, Bucket
  <2> QED
    BY <1>1, <1>2, <1>3, <1>4, <2>1, <2>2, <2>3 DEF LimiterTypes
<1>6. TableIsBounded'
  <2>1. IsFiniteSet(kept \cup {k}) /\ Cardinality(kept \cup {k}) <= Cardinality(kept) + 1
    <3>1. Cardinality(kept) \in Nat
      BY <1>2, FS_CardinalityType
    <3>2. /\ IsFiniteSet(kept \cup {k})
          /\ Cardinality(kept \cup {k}) =
               IF k \in kept THEN Cardinality(kept) ELSE Cardinality(kept) + 1
      BY <1>2, FS_AddElement, Zenon
    <3> QED
      BY <3>1, <3>2
  <2> QED
    BY <1>2, <1>4, <2>1, FS_CardinalityType DEF TableIsBounded, Sizes
<1>7. k \notin forgotten' => opened'[k] = clock /\ passed'[k] = 1
  <2>1. k \notin forgotten => Lapsed(opened[k])
    BY <1>3 DEF BucketsCount
  <2> QED
    BY <1>1, <1>3, <2>1 DEF Counted, LimiterTypes
<1>8. \A j \in Client \ {k} : opened'[j] = opened[j] /\ passed'[j] = passed[j]
  BY <1>3 DEF Counted, LimiterTypes
<1>9. BucketsCount'
  <2> SUFFICES ASSUME NEW j \in Client, j \notin forgotten'
               PROVE  /\ j \in Tracked' => /\ opened'[j] = buckets'[j].windowStart
                                           /\ passed'[j] = buckets'[j].count
                      /\ j \notin Tracked' => Lapsed(opened[j])'
    BY DEF BucketsCount
  <2>1. CASE j = k
    BY <1>1, <1>4, <1>7, <2>1
  <2>2. CASE j # k /\ j \in kept
    BY <1>1, <1>2, <1>4, <1>8, <2>2 DEF BucketsCount
  <2>3. CASE j # k /\ j \notin kept
    <3>1. j \notin forgotten /\ j \notin Live /\ j \notin Tracked'
      BY <1>1, <1>4, <2>3
    <3>2. Lapsed(opened[j])
      BY <3>1 DEF BucketsCount, Live
    <3> QED
      BY <1>3, <1>8, <2>3, <3>1, <3>2 DEF Lapsed
  <2> QED
    BY <2>1, <2>2, <2>3
<1>10. WindowIsHonoured'
  <2> SUFFICES ASSUME NEW j \in Client, j \notin forgotten'
               PROVE  passed'[j] <= Limit
    BY DEF WindowIsHonoured
  <2>1. CASE j = k
    BY <1>7, <2>1 DEF Sizes
  <2>2. CASE j # k
    BY <1>1, <1>8, <2>2 DEF WindowIsHonoured
  <2> QED
    BY <2>1, <2>2
<1> QED
  BY <1>5, <1>6, <1>9, <1>10

LEMMA AdmitKeepsLimiter ==
  ASSUME Sizes, LimiterInv, NEW k \in Client, Admit(k)
  PROVE  LimiterInv'
<1> USE DEF LimiterInv
<1>1. /\ k \in Tracked /\ ~Lapsed(buckets[k].windowStart) /\ buckets[k].count < Limit
      /\ buckets' = [buckets EXCEPT ![k].count = @ + 1]
      /\ Counted(k) /\ clock' = clock /\ forgotten' = forgotten
  BY DEF Admit
<1>2. Tracked' = Tracked
  BY <1>1 DEF Tracked
<1>3. \A j \in Tracked : buckets[j] \in Bucket
  BY DEF LimiterTypes
<1>4. /\ buckets'[k] = [buckets[k] EXCEPT !.count = @ + 1]
      /\ \A j \in Tracked \ {k} : buckets'[j] = buckets[j]
  BY <1>1 DEF LimiterTypes
<1>5. buckets'[k] \in Bucket /\ buckets'[k].count = buckets[k].count + 1
      /\ buckets'[k].windowStart = buckets[k].windowStart
  BY <1>1, <1>3, <1>4 DEF Bucket
<1>6. LimiterTypes'
  <2>1. opened' \in [Client -> Int] /\ passed' \in [Client -> Nat]
    BY <1>1 DEF Counted, LimiterTypes
  <2>2. buckets' \in [Tracked -> Bucket]
    BY <1>1, <1>3, <1>4, <1>5 DEF LimiterTypes
  <2> QED
    BY <1>1, <1>2, <2>1, <2>2 DEF LimiterTypes
<1>7. TableIsBounded'
  BY <1>2 DEF TableIsBounded
<1>8. k \notin forgotten => /\ opened' = opened /\ passed'[k] = passed[k] + 1
                            /\ passed'[k] = buckets'[k].count
                            /\ opened'[k] = buckets'[k].windowStart
  BY <1>1, <1>5 DEF Counted, BucketsCount, LimiterTypes
<1>9. \A j \in Client \ {k} : opened'[j] = opened[j] /\ passed'[j] = passed[j]
  BY <1>1 DEF Counted, LimiterTypes
<1>10. BucketsCount'
  <2> SUFFICES ASSUME NEW j \in Client, j \notin forgotten'
               PROVE  /\ j \in Tracked' => /\ opened'[j] = buckets'[j].windowStart
                                           /\ passed'[j] = buckets'[j].count
                      /\ j \notin Tracked' => Lapsed(opened[j])'
    BY DEF BucketsCount
  <2>1. CASE j = k
    BY <1>1, <1>2, <1>8, <2>1
  <2>2. CASE j # k
    BY <1>1, <1>2, <1>4, <1>9, <2>2 DEF BucketsCount, Lapsed
  <2> QED
    BY <2>1, <2>2
<1>11. WindowIsHonoured'
  <2> SUFFICES ASSUME NEW j \in Client, j \notin forgotten'
               PROVE  passed'[j] <= Limit
    BY DEF WindowIsHonoured
  <2>1. CASE j = k
    BY <1>1, <1>3, <1>5, <1>8, <2>1 DEF Sizes, Bucket
  <2>2. CASE j # k
    BY <1>1, <1>9, <2>2 DEF WindowIsHonoured
  <2> QED
    BY <2>1, <2>2
<1> QED
  BY <1>6, <1>7, <1>10, <1>11

LEMMA TimePassesKeepsLimiter ==
  ASSUME Sizes, LimiterInv, TimePasses
  PROVE  LimiterInv'
<1> USE DEF LimiterInv
<1>1. clock' = clock + 1 /\ buckets' = buckets /\ opened' = opened /\ passed' = passed
      /\ forgotten' = forgotten
  BY DEF TimePasses
<1>2. Tracked' = Tracked
  BY <1>1 DEF Tracked
<1>3. LimiterTypes' /\ TableIsBounded' /\ WindowIsHonoured'
  BY <1>1, <1>2 DEF LimiterTypes, TableIsBounded, WindowIsHonoured
<1>4. \A k \in Client : Lapsed(opened[k]) => Lapsed(opened[k])'
  BY <1>1 DEF Lapsed, LimiterTypes, Sizes
<1>5. BucketsCount'
  BY <1>1, <1>2, <1>4 DEF BucketsCount
<1> QED
  BY <1>3, <1>5

\* The table never holds more buckets than MAX_TRACKED_KEYS, and a client with an
\* open window is let through at most Limit times in it unless a full table
\* dropped it: evictStale forgets nothing else (rateLimit.ts:31-60).
THEOREM LimiterHolds ==
  ASSUME Sizes
  PROVE  LimiterSpec => [](TableIsBounded /\ WindowIsHonoured)
<1>1. LimiterInit => LimiterInv
  <2> SUFFICES ASSUME LimiterInit PROVE LimiterInv
    OBVIOUS
  <2>1. Tracked = {}
    BY DEF LimiterInit, Tracked
  <2>2. LimiterTypes
    BY <2>1 DEF LimiterInit, LimiterTypes, Sizes
  <2>3. TableIsBounded
    BY <2>1, FS_EmptySet DEF TableIsBounded, Sizes
  <2>4. BucketsCount /\ WindowIsHonoured
    BY <2>1 DEF LimiterInit, BucketsCount, WindowIsHonoured, Lapsed, Sizes
  <2> QED
    BY <2>2, <2>3, <2>4 DEF LimiterInv
<1>2. LimiterInv /\ [LimiterNext]_limiterVars => LimiterInv'
  <2> SUFFICES ASSUME LimiterInv, [LimiterNext]_limiterVars PROVE LimiterInv'
    OBVIOUS
  <2>1. CASE TimePasses
    BY <2>1, TimePassesKeepsLimiter
  <2>2. ASSUME NEW k \in Client, OpenWindow(k) PROVE LimiterInv'
    BY <2>2, OpenWindowKeepsLimiter
  <2>3. ASSUME NEW k \in Client, Admit(k) PROVE LimiterInv'
    BY <2>3, AdmitKeepsLimiter
  <2>4. CASE UNCHANGED limiterVars
    BY <2>4 DEF limiterVars, LimiterInv, LimiterTypes, TableIsBounded, BucketsCount, WindowIsHonoured, Tracked, Lapsed
  <2>5. ASSUME NEW k \in Client, Deny(k) PROVE LimiterInv'
    BY <2>4, <2>5 DEF Deny
  <2> QED
    BY <2>1, <2>2, <2>3, <2>4, <2>5 DEF LimiterNext, Allow
<1> QED
  BY <1>1, <1>2, PTL DEF LimiterSpec, LimiterInv
=============================================================================
