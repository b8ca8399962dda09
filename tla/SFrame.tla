------------------------------- MODULE SFrame -------------------------------
(***************************************************************************)
(* One direction of a call's media, packages/crypto/src/sframe.ts: a sender*)
(* that numbers its frames, a network that loses, reorders and repeats     *)
(* them and lets anyone put in frames of their own, and a receiver with a  *)
(* replay window.  A frame's key and nonce are derived from the call key   *)
(* and its counter: the counter stands for both.  A frame authenticates    *)
(* when it is one the sender sealed.                                       *)
(***************************************************************************)
EXTENDS Integers, FiniteSets

CONSTANTS
  MaxFrameCounter,  \* MAX_FRAME_COUNTER (2^48 - 1 in the code)
  ReplayWindow      \* REPLAY_WINDOW (1024 in the code)

ASSUME FrameBounds == MaxFrameCounter \in Nat /\ ReplayWindow \in Nat \ {0}

VARIABLES
  counter,   \* SframeSender.counter: the next frame's
  receiver,  \* SframeReceiver: highestCounter and seen
  sealed,    \* counters of the frames sent
  accepted   \* counters of the frames decrypted

sframeVars == <<counter, receiver, sealed, accepted>>

Counter  == 0 .. MaxFrameCounter
Genuine(c) == [counter |-> c, genuine |-> TRUE]

SFrameInit ==
  /\ counter = 0
  /\ receiver = [highestCounter |-> -1, seen |-> {}]
  /\ sealed = {} /\ accepted = {}

\* A sender that wraps around, and the code's.
WrappedAfter(c) == (c + 1) % (MaxFrameCounter + 1)

CounterAfter(c) == c + 1

\* encryptFrame refuses when the counter is exhausted.
EncryptFrame ==
  /\ counter <= MaxFrameCounter
  /\ sealed' = sealed \cup {counter}
  /\ counter' = CounterAfter(counter)
  /\ UNCHANGED <<receiver, accepted>>

\* A window one frame wider than what seen remembers, and the code's.
TooOldByLess(r, c) == r.highestCounter >= 0 /\ c + ReplayWindow < r.highestCounter

TooOld(r, c) == r.highestCounter >= 0 /\ c + ReplayWindow <= r.highestCounter

Passes(r, c) == c \in Counter /\ c \notin r.seen /\ ~TooOld(r, c)

\* Without the cleanup, and with it.
Untrimmed(seen, highest) == seen

Trimmed(seen, highest) ==
  {c \in seen : highest > ReplayWindow => c > highest - ReplayWindow}

Committed(r, c) ==
  LET highest == IF c > r.highestCounter THEN c ELSE r.highestCounter
  IN  [highestCounter |-> highest, seen |-> Trimmed(r.seen \cup {c}, highest)]

\* A receiver that notes a frame before it authenticates, and the code's.
AfterFrameEager(r, f) == IF Passes(r, f.counter) THEN Committed(r, f.counter) ELSE r

Decrypts(r, f) == Passes(r, f.counter) /\ f.genuine

AfterFrame(r, f) == IF Decrypts(r, f) THEN Committed(r, f.counter) ELSE r

\* decryptFrame of whatever arrives; every refusal leaves the receiver alone.
DecryptFrame(f) ==
  /\ receiver' = AfterFrame(receiver, f)
  /\ accepted' = IF Decrypts(receiver, f) THEN accepted \cup {f.counter} ELSE accepted
  /\ UNCHANGED <<counter, sealed>>

\* What may arrive: any counter, in range or just out of it.
Arriving == {f \in [counter : -1 .. MaxFrameCounter + 1, genuine : BOOLEAN] :
               f.genuine => f.counter \in sealed}

SFrameNext == EncryptFrame \/ \E f \in Arriving : DecryptFrame(f)

SFrameSpec == SFrameInit /\ [][SFrameNext]_sframeVars

-----------------------------------------------------------------------------
\* The values the variables range over; the replay memory stays bounded by the
\* window, however long the call.
SFrameTypeOK ==
  /\ counter \in 0 .. MaxFrameCounter + 1
  /\ sealed \subseteq Counter /\ accepted \subseteq sealed
  /\ receiver.highestCounter \in -1 .. MaxFrameCounter
  /\ receiver.seen \subseteq Counter
  /\ Cardinality(receiver.seen) <= ReplayWindow + 1

\* The next frame's key and nonce have sealed nothing yet, up to and past the
\* end of the counter (encryptFrame, sframe.ts:120-125).
NonceNeverReused == counter \notin sealed

\* A frame decrypted once never decrypts again, whether it is still remembered
\* or has been dropped from the set (decryptFrame, sframe.ts:155-187).
AcceptedOnce == \A c \in accepted : ~Decrypts(receiver, Genuine(c))

\* A frame that was sent, has not been played and is not older than the window
\* will decrypt: no forged or reordered frame locks it out (sframe.ts:142-145).
WindowStaysOpen ==
  \A c \in sealed \ accepted :
    c + ReplayWindow > receiver.highestCounter => Decrypts(receiver, Genuine(c))
=============================================================================
