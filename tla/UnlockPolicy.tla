---------------------------- MODULE UnlockPolicy ----------------------------
(***************************************************************************)
(* core/unlockPolicy.ts: how often a passphrase may be tried.  An attempt  *)
(* state is the record the code keeps; what the keystore holds for it is   *)
(* that record with the way it reads back: "absent", "unreadable" (not     *)
(* JSON, or numbers that make no sense) or "stored".                       *)
(***************************************************************************)
EXTENDS Integers, FiniteSetsExt

CONSTANTS
  FreeAttempts,  \* policy.freeAttempts
  BaseLockout,   \* policy.baseLockoutMs
  MaxLockout     \* policy.maxLockoutMs

ASSUME LockoutGrows ==
  FreeAttempts \in Nat /\ BaseLockout \in Nat \ {0} /\ MaxLockout \in Nat \ {0}

AttemptState(failures, at) == [failures |-> failures, lastFailureAt |-> at]

EmptyAttemptState == AttemptState(0, 0)

Entry(state) == [reads |-> "stored", failures |-> state.failures,
                 lastFailureAt |-> state.lastFailureAt]
NoEntry         == [Entry(EmptyAttemptState) EXCEPT !.reads = "absent"]
UnreadableEntry == [Entry(EmptyAttemptState) EXCEPT !.reads = "unreadable"]

\* What the failures so far cost, before any of it has passed.
Lockout(failures) ==
  IF failures <= FreeAttempts THEN 0
  ELSE Min({BaseLockout * 2 ^ Min({failures - FreeAttempts - 1, 20}), MaxLockout})

lockoutRemainingMs(state, now) ==
  LET elapsed == now - state.lastFailureAt IN
  IF elapsed < 0 THEN Lockout(state.failures)
  ELSE Max({0, Lockout(state.failures) - elapsed})

canAttempt(state, now) == lockoutRemainingMs(state, now) = 0

\* A failure that starts the count again, and the code's.
RecordFailureAfresh(state, now) == AttemptState(1, now)

recordFailure(state, now) == AttemptState(state.failures + 1, now)

recordSuccess == EmptyAttemptState

\* Unreadable counts as one failure past the allowance, at this moment;
\* absent counts as none.
parseAttemptState(entry, now) ==
  CASE entry.reads = "absent"     -> EmptyAttemptState
    [] entry.reads = "unreadable" -> AttemptState(FreeAttempts + 1, now)
    [] entry.reads = "stored"     -> AttemptState(entry.failures, entry.lastFailureAt)
=============================================================================
