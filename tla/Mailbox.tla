------------------------------- MODULE Mailbox -------------------------------
(***************************************************************************)
(* What the relay promises an account, seen from outside: the contract of  *)
(* the RelayStore interface, without sessions, sockets, handlers or a      *)
(* clock.                                                                  *)
(*                                                                         *)
(* Messages are numbered as they are accepted.  One waits until its owner  *)
(* takes it out; only the oldest go without that, when newer ones fill the *)
(* box or when their time is up.                                           *)
(***************************************************************************)
EXTENDS Naturals, FiniteSets

CONSTANTS
  Box,       \* addresses
  Capacity   \* LIMITS.maxQueueLength

VARIABLES
  accepted,  \* how many messages each box was ever sent
  waiting,   \* those it holds
  taken,     \* those its owner has acknowledged
  stale      \* those whose time is up

vars == <<accepted, waiting, taken, stale>>

Init ==
  /\ accepted = [b \in Box |-> 0]
  /\ waiting = [b \in Box |-> {}]
  /\ taken = [b \in Box |-> {}]
  /\ stale = [b \in Box |-> {}]

\* A new message is in; a message that makes room for it has Capacity newer ones.
Post(b) ==
  LET n == accepted[b] + 1 IN
  /\ accepted' = [accepted EXCEPT ![b] = n]
  /\ \E kept \in SUBSET (waiting[b] \cup {n}) :
       /\ n \in kept /\ Cardinality(kept) <= Capacity
       /\ \A k \in waiting[b] \ kept : k + Capacity <= n
       /\ waiting' = [waiting EXCEPT ![b] = kept]
  /\ UNCHANGED <<taken, stale>>

\* The owner takes one of its own messages out, and no one else's.
Take(b) ==
  /\ \E n \in 1 .. accepted[b] :
       /\ waiting' = [waiting EXCEPT ![b] = @ \ {n}]
       /\ taken' = [taken EXCEPT ![b] = @ \cup {n}]
  /\ UNCHANGED <<accepted, stale>>

\* Time runs out for the oldest first.
Age ==
  /\ stale' \in [Box -> SUBSET Nat]
  /\ \A b \in Box : /\ stale[b] \subseteq stale'[b] /\ stale'[b] \subseteq 1 .. accepted[b]
                     /\ \A n \in stale'[b] : 1 .. n \subseteq stale'[b]
  /\ UNCHANGED <<accepted, waiting, taken>>

\* What is stale goes, and nothing else does.
Expire ==
  /\ waiting' = [b \in Box |-> waiting[b] \ stale[b]]
  /\ UNCHANGED <<accepted, taken, stale>>

Next == Age \/ Expire \/ \E b \in Box : Post(b) \/ Take(b)

Spec == Init /\ [][Next]_vars
==============================================================================
