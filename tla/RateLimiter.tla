----------------------------- MODULE RateLimiter -----------------------------
(***************************************************************************)
(* The relay's fixed-window limiter on POST /v1/messages                   *)
(* (packages/relay/src/rateLimit.ts; relay.ts:269), one bucket for each    *)
(* client address, in a table whose size is bounded.  Time only passes.    *)
(***************************************************************************)
EXTENDS Integers, FiniteSets

CONSTANTS
  Client,       \* the request addresses
  Limit,        \* sendRateLimit (120)
  Window,       \* the window's length (one minute)
  MaxTracked,   \* MAX_TRACKED_KEYS (100 000)
  Dropped       \* a tenth of it, dropped when every bucket is live

VARIABLES
  clock,
  buckets,      \* the Map: a function on the clients it tracks
  opened,       \* history: when each client's last window began
  passed,       \* history: its requests let through since
  forgotten     \* history: clients dropped while their window was open

limiterVars == <<clock, buckets, opened, passed, forgotten>>

Bucket == [count : Nat, windowStart : Nat]

LimiterInit ==
  /\ clock = 0
  /\ buckets = [k \in {} |-> 0]
  /\ opened = [k \in Client |-> -Window]
  /\ passed = [k \in Client |-> 0]
  /\ forgotten = {}

Tracked == DOMAIN buckets

Lapsed(start) == clock - start >= Window

Live == {k \in Tracked : ~Lapsed(buckets[k].windowStart)}

\* The oldest first; the sort leaves equals in the order of the Map.
Oldest ==
  {gone \in SUBSET Live :
     /\ Cardinality(gone) = Dropped
     /\ \A j \in gone, k \in Live \ gone : buckets[j].windowStart <= buckets[k].windowStart}

\* evictStale: what may be left.
Spared == IF Cardinality(Live) < MaxTracked THEN {Live} ELSE {Live \ gone : gone \in Oldest}

\* A window of the client's own reckoning.
Counted(k) ==
  IF Lapsed(opened[k])
  THEN /\ opened' = [opened EXCEPT ![k] = clock]
       /\ passed' = [passed EXCEPT ![k] = 1]
  ELSE /\ passed' = [passed EXCEPT ![k] = @ + 1]
       /\ UNCHANGED opened

OpenWindow(k) ==
  /\ k \in Tracked => Lapsed(buckets[k].windowStart)
  /\ \E kept \in IF Cardinality(Tracked) >= MaxTracked THEN Spared ELSE {Tracked} :
       /\ buckets' = [j \in kept \cup {k} |->
            IF j = k THEN [count |-> 1, windowStart |-> clock] ELSE buckets[j]]
       /\ forgotten' = forgotten \cup (Live \ kept)
  /\ Counted(k)
  /\ UNCHANGED clock

Admit(k) ==
  /\ k \in Tracked
  /\ ~Lapsed(buckets[k].windowStart) /\ buckets[k].count < Limit
  /\ buckets' = [buckets EXCEPT ![k].count = @ + 1]
  /\ Counted(k)
  /\ UNCHANGED <<clock, forgotten>>

Deny(k) ==
  /\ k \in Tracked
  /\ ~Lapsed(buckets[k].windowStart) /\ buckets[k].count >= Limit
  /\ UNCHANGED limiterVars

Allow(k) == OpenWindow(k) \/ Admit(k) \/ Deny(k)

TimePasses ==
  /\ clock' = clock + 1
  /\ UNCHANGED <<buckets, opened, passed, forgotten>>

LimiterNext == TimePasses \/ \E k \in Client : Allow(k)

LimiterSpec == LimiterInit /\ [][LimiterNext]_limiterVars

-----------------------------------------------------------------------------
\* The bounds the code sets.
Sizes ==
  /\ Limit \in Nat \ {0} /\ Window \in Nat \ {0}
  /\ MaxTracked \in Nat \ {0} /\ Dropped \in 1 .. MaxTracked

\* rateLimit.ts:10-12: the table is itself bounded, so that a spray of addresses
\* does not turn the limiter into a memory leak.
TableIsBounded == IsFiniteSet(Tracked) /\ Cardinality(Tracked) <= MaxTracked

\* A client that was not dropped from a full table while its window was open has
\* at most Limit requests let through in a window, whatever others send and
\* however often the table is swept (allow, rateLimit.ts:31-44).
WindowIsHonoured == \A k \in Client \ forgotten : passed[k] <= Limit
=============================================================================
