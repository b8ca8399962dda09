----------------------------- MODULE DeviceProofs -----------------------------
(***************************************************************************)
(* For any policy, grace period, clock and number of starts: an identity   *)
(* is drawn whole, a lock finds every key, leaves what it does not         *)
(* interrupt in order and comes due however long the process slept, and a  *)
(* guess costs the time the policy says, on a clock that may be set.       *)
(***************************************************************************)
EXTENDS Device, FiniteSetTheorems, TLAPS

\* Where a start is between vaultRef and its end.
Online == {"initialise", "signing", "exchange", "binding", "register", "sync"}
Place  == {"unused", "open", "recording", "resetting", "wrapping", "done"} \cup Online

FailureRecord == [failures : Nat, lastFailureAt : Nat]
StartRecord   == [pc : Place, right : BOOLEAN, record : FailureRecord, failed : BOOLEAN]
SocketRecord  == [state : {"none", "open", "waiting"}, closedByUs : BOOLEAN]
AttemptRecord == [reads : {"absent", "unreadable", "stored"}, failures : Nat, lastFailureAt : Nat]
TaskStep      == {"remember", "store", "pair"}

\* What the variables hold; Start and tasks are finite.
Shape ==
  /\ clock \in 0 .. MaxClock
  /\ wrapper \in Key \ {Zero}
  /\ attempts \in AttemptRecord
  /\ parts \in [Part -> Key \ {Zero}]
  /\ rows \in [pairing : Key, peer : Key, messages : SUBSET Key]
  /\ app \in {"active", "inactive", "background"}
  /\ starts \in [Start -> StartRecord]
  /\ dataKey \in [Start -> Key]
  /\ socket \in [Start -> SocketRecord]
  /\ tasks \subseteq [of : Start, step : TaskStep]
  /\ mate \in 0 .. MaxStarts /\ mail \in 0 .. MaxStarts
  /\ busy \in BOOLEAN /\ surprised \in BOOLEAN /\ swallowed \in BOOLEAN

-----------------------------------------------------------------------------
(* Keys, tasks and places.                                                 *)

LEMMA KeyNumbers ==
  /\ Start \subseteq Nat \ {0} /\ NoKey = 0 /\ 0 \notin DataKey /\ Zero \notin DataKey
  /\ Earlier \in DataKey /\ Start \subseteq DataKey /\ NoKey # Zero
  /\ Key = DataKey \cup {NoKey, Zero} /\ Zero \notin Start /\ MaxStarts \in Nat
BY Bounds DEF Start, DataKey, Key, NoKey, Zero, Earlier

LEMMA TaskFields ==
  ASSUME NEW t, NEW step
  PROVE  /\ Task(t, step).of = t /\ Task(t, step).step = step
         /\ \A s, other : Task(s, other) = Task(t, step) => s = t /\ other = step
<1>1. \A s, other : Task(s, other).of = s /\ Task(s, other).step = other
  BY DEF Task
<1>2. QED
  BY <1>1

LEMMA TaskTyped ==
  ASSUME NEW t \in Start, NEW step \in TaskStep
  PROVE  Task(t, step) \in [of : Start, step : TaskStep]
BY DEF Task

LEMMA TaskIs ==
  ASSUME Shape, NEW k \in tasks
  PROVE  k.of \in Start /\ k.step \in TaskStep /\ k = Task(k.of, k.step)
<1>1. k \in [of : Start, step : TaskStep]
  BY DEF Shape
<1>2. QED
  BY <1>1 DEF Task

\* Start t is at pc, with or without having failed; the others are where they were.
Puts(t, pc, failed) ==
  /\ starts' \in [Start -> StartRecord]
  /\ starts'[t].pc = pc /\ starts'[t].failed = failed
  /\ \A s \in Start \ {t} : starts'[s] = starts[s]

LEMMA StartPut ==
  ASSUME Shape, NEW t \in Start, NEW r \in StartRecord, starts' = [starts EXCEPT ![t] = r]
  PROVE  Puts(t, r.pc, r.failed) /\ starts'[t] = r
BY DEF Shape, Puts

LEMMA GotoPut ==
  ASSUME Shape, NEW t \in Start, NEW pc \in Place, Goto(t, pc)
  PROVE  Puts(t, pc, starts[t].failed)
<1> DEFINE r == [starts[t] EXCEPT !.pc = pc]
<1>1. starts[t] \in StartRecord
  BY DEF Shape
<1>2. r \in StartRecord /\ r.pc = pc /\ r.failed = starts[t].failed
  BY <1>1 DEF StartRecord
<1>3. starts' = [starts EXCEPT ![t] = r]
  BY DEF Goto
<1> HIDE DEF r
<1>4. QED
  BY <1>2, <1>3, StartPut

LEMMA ReturnPut ==
  ASSUME Shape, NEW t \in Start, Return(t)
  PROVE  Puts(t, "done", FALSE) /\ busy' = FALSE
<1> DEFINE r == [Unused EXCEPT !.pc = "done"]
<1>1. r \in StartRecord /\ r.pc = "done" /\ r.failed = FALSE
  BY DEF Unused, StartRecord, FailureRecord, EmptyAttemptState, AttemptState, Place
<1>2. starts' = [starts EXCEPT ![t] = r] /\ busy' = FALSE
  BY DEF Return
<1> HIDE DEF r
<1>3. QED
  BY <1>1, <1>2, StartPut

LEMMA ThrowPut ==
  ASSUME Shape, NEW t \in Start, Throw(t)
  PROVE  Puts(t, "done", TRUE) /\ busy' = FALSE /\ route' = route
<1> DEFINE r == [Unused EXCEPT !.pc = "done", !.failed = TRUE]
<1>1. r \in StartRecord /\ r.pc = "done" /\ r.failed = TRUE
  BY DEF Unused, StartRecord, FailureRecord, EmptyAttemptState, AttemptState, Place
<1>2. starts' = [starts EXCEPT ![t] = r] /\ busy' = FALSE /\ route' = route
  BY DEF Throw
<1> HIDE DEF r
<1>3. QED
  BY <1>1, <1>2, StartPut

-----------------------------------------------------------------------------
(* The invariant.                                                          *)

\* The screens are disabled while a start or a pairing is under way: there is
\* never more than one.
Alone ==
  /\ busy = ((\E t \in Start : InFlight(t)) \/ \E t \in Start : Task(t, "pair") \in tasks)
  /\ \A s, t \in Start : InFlight(s) /\ InFlight(t) => s = t
  /\ \A s, t \in Start : Task(s, "pair") \in tasks /\ Task(t, "pair") \in tasks => s = t
  /\ \A s, t \in Start : InFlight(s) => Task(t, "pair") \notin tasks

\* A key is where lock() finds it, or between its making and the refs, or left
\* by a start that failed; what the refs hold came from a start that is on its
\* way, failed, or showed the first screen.
KeysFound ==
  /\ current \in 0 .. MaxStarts
  /\ \A t \in Start : starts[t].failed => At(t, "done")
  /\ \A t \in Start : dataKey[t] \in DataKey =>
       t = current \/ starts[t].pc \in {"resetting", "wrapping"} \/ starts[t].failed
  /\ \A t \in Start : starts[t].pc \in {"resetting", "wrapping"} => dataKey[t] \in DataKey
  /\ current # 0 =>
       /\ dataKey[current] \in DataKey
       /\ starts[current].pc \in Online \cup {"done"}
       /\ InFlight(current) \/ starts[current].failed \/ route \in {"pair", "main"}
  /\ \A t \in Start : InFlight(t) => route \in {"create", "unlock"}

\* The entries are written in order by one start, and the last one only after
\* the others.
PartsInOrder ==
  /\ parts["binding"] # 0 => IdentityWhole /\ Whole
  /\ \A t \in Start : starts[t].pc \in Part => parts["binding"] = 0
  /\ \A t \in Start : starts[t].pc \in {"exchange", "binding"} => parts["signing"] = t
  /\ \A t \in Start : starts[t].pc = "binding" => parts["exchange"] = t

HasTask(t) == \E step \in TaskStep : Task(t, step) \in tasks

\* Whoever writes or reads rows has the wrapper's key, until a lock comes while
\* something is under way.
OneKey ==
  /\ \A t \in Start : At(t, "wrapping") => wrapper = NoKey /\ dataKey[t] = t
  /\ ~surprised =>
       /\ rows.pairing \in {NoKey, wrapper} /\ rows.peer \in {NoKey, wrapper}
       /\ \A key \in rows.messages : key \in {NoKey, wrapper}
       /\ ~swallowed
       /\ route \in {"pair", "main"} => current # 0
       /\ \A t \in Start :
            \/ starts[t].pc \in Online \cup {"resetting"} \/ t = current
            \/ socket[t].state # "none" \/ HasTask(t)
            => dataKey[t] = wrapper /\ wrapper # NoKey
       /\ \A t \in Start : starts[t].pc \in Online => t = current
       /\ \A t \in Start : Task(t, "pair") \in tasks => current # 0

\* The moment on record is the first of the spell; what has passed since, on a
\* clock that was not turned back, is at least the real time away.
AwayMeasured ==
  /\ timer \in BOOLEAN /\ turned \in BOOLEAN /\ away \in Nat
  /\ app = "active" => backgroundedAt = {}
  /\ app # "active" => \E at \in Nat : /\ backgroundedAt = {at}
                                       /\ ~turned => at + away <= clock

\* The record is what was tried and not lost, less the guess under way, and it
\* is no older than the time since, with what the clock was set forward by; so
\* is the record that the guess under way will put in its place.
GuessesCounted ==
  /\ since \in Nat /\ tried \in Nat /\ wrong \in Nat /\ lost \in Nat
  /\ attempts.reads # "stored" => attempts.failures = 0
  /\ (\A t \in Start : ~At(t, "recording")) => wrong = attempts.failures + lost
  /\ attempts.failures > 0 => since >= MaxLockout \/ clock - attempts.lastFailureAt <= since
  /\ \A t \in Start : At(t, "recording") =>
       /\ wrong = attempts.failures + lost + 1
       /\ starts[t].record.failures = attempts.failures + 1
       /\ tried >= MaxLockout \/ clock - starts[t].record.lastFailureAt <= tried

DeviceInv ==
  Shape /\ Alone /\ KeysFound /\ PartsInOrder /\ OneKey /\ AwayMeasured /\ GuessesCounted

-----------------------------------------------------------------------------
(* What leaves a part of it as it was.                                     *)

LEMMA AloneStays ==
  ASSUME Alone, busy' = busy, \A t \in Start : InFlight(t)' <=> InFlight(t),
         \A t \in Start : Task(t, "pair") \in tasks' <=> Task(t, "pair") \in tasks
  PROVE  Alone'
BY DEF Alone

LEMMA AwayStays ==
  ASSUME AwayMeasured, UNCHANGED <<clock, lifecycle>>
  PROVE  AwayMeasured'
BY DEF AwayMeasured, lifecycle

LEMMA GuessesStay ==
  ASSUME GuessesCounted, UNCHANGED <<clock, attempts, guesses>>,
         \A t \in Start : At(t, "recording")' <=> At(t, "recording"),
         \A t \in Start : At(t, "recording") => starts'[t] = starts[t]
  PROVE  GuessesCounted'
BY DEF GuessesCounted, guesses

LEMMA PartsStay ==
  ASSUME PartsInOrder, parts' = parts,
         \A t \in Start : starts'[t].pc \in Part => starts[t].pc = starts'[t].pc
  PROVE  PartsInOrder'
BY DEF PartsInOrder, IdentityWhole, Whole, Part

LEMMA OneKeyStays ==
  ASSUME OneKey, UNCHANGED <<rows, wrapper, swallowed, current, dataKey, surprised>>,
         tasks' \subseteq tasks,
         \A t \in Start : socket'[t].state # "none" => socket[t].state # "none",
         route' \in {"pair", "main"} => route \in {"pair", "main"},
         \A t \in Start : starts'[t].pc \in Online \cup {"resetting", "wrapping"} =>
           \/ starts[t].pc = starts'[t].pc
           \/ starts[t].pc \in Online /\ starts'[t].pc \in Online
  PROVE  OneKey'
<1>1. \A t \in Start : HasTask(t)' => HasTask(t)
  BY DEF HasTask
<1>2. \A t \in Start : At(t, "wrapping")' => wrapper' = NoKey /\ dataKey'[t] = t
  BY DEF OneKey, At, Online
<1>3. ASSUME ~surprised
      PROVE  /\ \A t \in Start :
                  \/ starts'[t].pc \in Online \cup {"resetting"} \/ t = current'
                  \/ socket'[t].state # "none" \/ HasTask(t)'
                  => dataKey'[t] = wrapper' /\ wrapper' # NoKey
             /\ \A t \in Start : starts'[t].pc \in Online => t = current'
             /\ \A t \in Start : Task(t, "pair") \in tasks' => current' # 0
  BY <1>1, <1>3 DEF OneKey
<1>4. QED
  BY <1>2, <1>3 DEF OneKey

\* A start that is on its way is alone, and no pairing is under way with it.
LEMMA OnlyStart ==
  ASSUME DeviceInv, NEW t \in Start, InFlight(t)
  PROVE  /\ \A s \in Start \ {t} : ~InFlight(s)
         /\ \A s \in Start : Task(s, "pair") \notin tasks
         /\ busy = TRUE /\ route \in {"create", "unlock"}
BY DEF DeviceInv, Alone, KeysFound

LEMMA FlightGoesOn ==
  ASSUME DeviceInv, NEW t \in Start, InFlight(t), NEW pc \in Place \ {"unused", "done"},
         NEW failed, Puts(t, pc, failed), UNCHANGED <<tasks, busy>>
  PROVE  Alone'
<1>1. \A s \in Start : InFlight(s)' <=> InFlight(s)
  BY DEF Puts, InFlight
<1>2. QED
  BY <1>1, AloneStays DEF DeviceInv

LEMMA FlightEnds ==
  ASSUME DeviceInv, NEW t \in Start, InFlight(t), NEW failed, Puts(t, "done", failed),
         tasks' = tasks, busy' = FALSE
  PROVE  Alone'
<1>1. \A s \in Start : ~InFlight(s)'
  BY OnlyStart DEF Puts, InFlight
<1>2. \A s \in Start : Task(s, "pair") \notin tasks'
  BY OnlyStart
<1>3. QED
  BY <1>1, <1>2 DEF Alone

\* A start that ends, having failed or with no key of its own to leave.
LEMMA KeysAfterEnd ==
  ASSUME DeviceInv, NEW t \in Start, InFlight(t), NEW failed \in BOOLEAN, Puts(t, "done", failed),
         UNCHANGED <<current, dataKey, route>>,
         failed \/ starts[t].pc \in {"open", "recording"}
  PROVE  KeysFound'
<1>1. Shape /\ KeysFound
  BY DEF DeviceInv
<1>2. \A s \in Start : ~InFlight(s)'
  BY OnlyStart DEF Puts, InFlight
<1>3. ASSUME NEW s \in Start
      PROVE  /\ starts'[s].failed => starts'[s].pc = "done"
             /\ dataKey'[s] \in DataKey =>
                  s = current' \/ starts'[s].pc \in {"resetting", "wrapping"} \/ starts'[s].failed
             /\ starts'[s].pc \notin {"resetting", "wrapping"}
  BY <1>1, <1>2, <1>3 DEF Puts, KeysFound, InFlight, At
<1>4. ASSUME current # 0
      PROVE  /\ dataKey'[current] \in DataKey
             /\ starts'[current].pc \in Online \cup {"done"}
             /\ starts'[current].failed \/ route' \in {"pair", "main"}
  <2>1. current \in Start
    BY <1>1, <1>4 DEF KeysFound, Start
  <2>2. CASE current = t
    BY <1>1, <1>4, <2>1, <2>2 DEF Puts, KeysFound, Online
  <2>3. CASE current # t
    <3>1. ~InFlight(current)
      BY <2>1, <2>3, OnlyStart
    <3>2. QED
      BY <1>1, <1>4, <2>1, <2>3, <3>1 DEF Puts, KeysFound
  <2>4. QED
    BY <2>2, <2>3
<1>5. QED
  BY <1>1, <1>2, <1>3, <1>4 DEF KeysFound, At

\* A start that goes on from one place to another where it owns its key as before.
LEMMA KeysGoOn ==
  ASSUME DeviceInv, NEW t \in Start, InFlight(t), NEW pc \in Place, Puts(t, pc, starts[t].failed),
         UNCHANGED <<current, dataKey, route>>,
         \/ starts[t].pc \in Online /\ pc \in Online
         \/ starts[t].pc = "open" /\ pc = "recording"
  PROVE  KeysFound'
<1>1. Shape /\ KeysFound /\ starts[t].failed = FALSE
  <2>1. starts[t].failed \in BOOLEAN
    BY DEF DeviceInv, Shape, StartRecord
  <2>2. QED
    BY <2>1 DEF DeviceInv, KeysFound, InFlight, At
<1>2. \A s \in Start : InFlight(s)' <=> InFlight(s)
  BY DEF Puts, InFlight, Online
<1>3. ASSUME NEW s \in Start
      PROVE  /\ starts'[s].failed => starts'[s].pc = "done"
             /\ dataKey'[s] \in DataKey =>
                  s = current' \/ starts'[s].pc \in {"resetting", "wrapping"} \/ starts'[s].failed
             /\ starts'[s].pc \in {"resetting", "wrapping"} => dataKey'[s] \in DataKey
  BY <1>1, <1>3 DEF Puts, KeysFound, At, Online
<1>4. ASSUME current # 0
      PROVE  /\ dataKey'[current] \in DataKey
             /\ starts'[current].pc \in Online \cup {"done"}
             /\ InFlight(current)' \/ starts'[current].failed \/ route' \in {"pair", "main"}
  <2>1. current \in Start
    BY <1>1, <1>4 DEF KeysFound, Start
  <2>2. QED
    BY <1>1, <1>2, <1>4, <2>1 DEF Puts, KeysFound, Online
<1>5. QED
  BY <1>1, <1>2, <1>3, <1>4 DEF KeysFound, At

-----------------------------------------------------------------------------
(* Unlocking or creating the vault.                                        *)

LEMMA SubmitStep ==
  ASSUME DeviceInv, NEW right \in BOOLEAN, Submit(right)
  PROVE  DeviceInv'
<1>1. Shape /\ Alone /\ KeysFound /\ ~busy /\ route \in {"create", "unlock"}
  BY DEF DeviceInv, Submit
<1>2. PICK t \in Start :
        /\ At(t, "unused")
        /\ starts' = [starts EXCEPT ![t] = [@ EXCEPT !.pc = "open", !.right = right]]
  BY DEF Submit
<1> DEFINE r == [starts[t] EXCEPT !.pc = "open", !.right = right]
<1>3. r \in StartRecord /\ r.pc = "open" /\ r.failed = starts[t].failed
  <2>1. starts[t] \in StartRecord
    BY <1>1 DEF Shape
  <2>2. QED
    BY <2>1 DEF StartRecord, Place
<1>4. starts' = [starts EXCEPT ![t] = r]
  BY <1>2
<1> HIDE DEF r
<1>5. Puts(t, "open", starts[t].failed)
  BY <1>1, <1>3, <1>4, StartPut DEF Puts
<1>6. starts[t].failed = FALSE
  <2>1. starts[t].failed \in BOOLEAN
    BY <1>1 DEF Shape, StartRecord
  <2>2. QED
    BY <1>1, <1>2, <2>1 DEF KeysFound, At
<1>7. /\ busy' = TRUE
      /\ UNCHANGED <<Elsewhere, keystore, rows, route, current, dataKey, socket, tasks, guesses>>
  BY DEF Submit
<1>8. \A s \in Start : ~InFlight(s) /\ Task(s, "pair") \notin tasks
  BY <1>1 DEF Alone
<1>9. Shape'
  BY <1>1, <1>5, <1>7 DEF Shape, Puts, Elsewhere, keystore, lifecycle, wire
<1>10. Alone'
  BY <1>5, <1>7, <1>8 DEF Alone, Puts, InFlight
<1>11. KeysFound'
  <2>1. ASSUME NEW s \in Start
        PROVE  /\ starts'[s].failed => starts'[s].pc = "done"
               /\ dataKey'[s] \in DataKey =>
                    s = current' \/ starts'[s].pc \in {"resetting", "wrapping"} \/ starts'[s].failed
               /\ starts'[s].pc \in {"resetting", "wrapping"} => dataKey'[s] \in DataKey
    BY <1>1, <1>2, <1>5, <1>6, <1>7, <2>1 DEF Puts, KeysFound, At
  <2>2. ASSUME current # 0
        PROVE  /\ dataKey'[current] \in DataKey
               /\ starts'[current].pc \in Online \cup {"done"}
               /\ starts'[current].failed \/ route' \in {"pair", "main"}
    <3>1. current \in Start
      BY <1>1, <2>2 DEF KeysFound, Start
    <3>2. current # t
      BY <1>1, <1>2, <2>2 DEF KeysFound, At, Online
    <3>3. QED
      BY <1>1, <1>5, <1>7, <1>8, <2>2, <3>1, <3>2 DEF Puts, KeysFound
  <2>3. QED
    BY <1>1, <1>7, <2>1, <2>2 DEF KeysFound, At
<1>12. PartsInOrder'
  BY <1>5, <1>7, PartsStay DEF DeviceInv, Puts, Part, keystore
<1>13. OneKey'
  BY <1>5, <1>7, OneKeyStays DEF DeviceInv, Puts, Online, Elsewhere, keystore
<1>14. AwayMeasured'
  BY <1>7, AwayStays DEF DeviceInv, Elsewhere
<1>15. GuessesCounted'
  BY <1>2, <1>5, <1>7, GuessesStay DEF DeviceInv, Puts, At, Elsewhere, keystore
<1>16. QED
  BY <1>9, <1>10, <1>11, <1>12, <1>13, <1>14, <1>15 DEF DeviceInv

LEMMA RefuseStep ==
  ASSUME DeviceInv, NEW t \in Start, Refuse(t)
  PROVE  DeviceInv'
<1>1. Shape /\ InFlight(t) /\ starts[t].pc = "open"
  BY DEF DeviceInv, Refuse, At, InFlight
<1>2. Puts(t, "done", FALSE) /\ busy' = FALSE
  BY <1>1, ReturnPut DEF Refuse
<1>3. UNCHANGED <<Elsewhere, keystore, rows, route, current, dataKey, socket, tasks, guesses>>
  BY DEF Refuse
<1>4. Shape'
  BY <1>1, <1>2, <1>3 DEF Shape, Puts, Elsewhere, keystore, lifecycle, wire
<1>5. Alone'
  BY <1>1, <1>2, <1>3, FlightEnds
<1>6. KeysFound'
  BY <1>1, <1>2, <1>3, KeysAfterEnd
<1>7. PartsInOrder'
  BY <1>2, <1>3, PartsStay DEF DeviceInv, Puts, Part, keystore
<1>8. OneKey'
  BY <1>2, <1>3, OneKeyStays DEF DeviceInv, Puts, Online, Elsewhere, keystore
<1>9. AwayMeasured'
  BY <1>3, AwayStays DEF DeviceInv, Elsewhere
<1>10. GuessesCounted'
  BY <1>1, <1>2, <1>3, GuessesStay DEF DeviceInv, Puts, At, Elsewhere, keystore
<1>11. QED
  BY <1>4, <1>5, <1>6, <1>7, <1>8, <1>9, <1>10 DEF DeviceInv

\* What throws at any of the awaits after the passphrase.
LEMMA FailsStep ==
  ASSUME DeviceInv, NEW t \in Start, Fails(t)
  PROVE  DeviceInv'
<1>1. Shape /\ InFlight(t) /\ starts[t].pc # "recording"
  BY DEF DeviceInv, Fails, At, InFlight, Part
<1>2. Puts(t, "done", TRUE) /\ busy' = FALSE /\ route' = route
  BY <1>1, ThrowPut DEF Fails
<1>3. UNCHANGED <<Elsewhere, keystore, rows, current, dataKey, socket, tasks, guesses>>
  BY DEF Fails
<1>4. Shape'
  BY <1>1, <1>2, <1>3 DEF Shape, Puts, Elsewhere, keystore, lifecycle, wire
<1>5. Alone'
  BY <1>1, <1>2, <1>3, FlightEnds
<1>6. KeysFound'
  BY <1>1, <1>2, <1>3, KeysAfterEnd
<1>7. PartsInOrder'
  BY <1>2, <1>3, PartsStay DEF DeviceInv, Puts, Part, keystore
<1>8. OneKey'
  BY <1>2, <1>3, OneKeyStays DEF DeviceInv, Puts, Online, Elsewhere, keystore
<1>9. AwayMeasured'
  BY <1>3, AwayStays DEF DeviceInv, Elsewhere
<1>10. GuessesCounted'
  BY <1>1, <1>2, <1>3, GuessesStay DEF DeviceInv, Puts, At, Elsewhere, keystore
<1>11. QED
  BY <1>4, <1>5, <1>6, <1>7, <1>8, <1>9, <1>10 DEF DeviceInv

\* A record that does not parse is a lock-out that has not begun to pass.
LEMMA LockoutTyped ==
  ASSUME NEW n \in Nat
  PROVE  Lockout(n) \in Int /\ Lockout(n) <= MaxLockout
<1> DEFINE long == BaseLockout * 2 ^ Min({n - FreeAttempts - 1, 20})
<1>1. CASE n <= FreeAttempts
  BY <1>1, LockoutGrows DEF Lockout
<1>2. CASE ~(n <= FreeAttempts)
  <2>1. Min({n - FreeAttempts - 1, 20}) \in Nat
    BY <1>2, LockoutGrows DEF Min
  <2>2. 2 ^ Min({n - FreeAttempts - 1, 20}) \in Int
    BY <2>1
  <2>3. long \in Int
    BY <2>2, LockoutGrows
  <2> HIDE DEF long
  <2>4. Min({long, MaxLockout}) \in Int /\ Min({long, MaxLockout}) <= MaxLockout
    BY <2>3, LockoutGrows DEF Min
  <2>5. Lockout(n) = Min({long, MaxLockout})
    BY <1>2 DEF Lockout, long
  <2>6. QED
    BY <2>4, <2>5
<1>3. QED
  BY <1>1, <1>2

LEMMA FirstLockout == Lockout(FreeAttempts + 1) > 0
<1> DEFINE n == FreeAttempts + 1
<1>1. n - FreeAttempts - 1 = 0 /\ ~(n <= FreeAttempts)
  BY LockoutGrows
<1> HIDE DEF n
<1>2. Min({n - FreeAttempts - 1, 20}) = 0
  BY <1>1 DEF Min
<1>3. BaseLockout * 2 ^ Min({n - FreeAttempts - 1, 20}) = BaseLockout
  <2>1. 2 ^ 0 = 1
    OBVIOUS
  <2>2. QED
    BY <1>2, <2>1, LockoutGrows
<1>4. Lockout(n) = Min({BaseLockout * 2 ^ Min({n - FreeAttempts - 1, 20}), MaxLockout})
  BY <1>1 DEF Lockout
<1>5. Min({BaseLockout, MaxLockout}) > 0
  BY LockoutGrows DEF Min
<1>6. QED
  BY <1>3, <1>4, <1>5 DEF n

\* What may be attempted has waited the lock-out, by the clock that is there.
LEMMA AttemptWaited ==
  ASSUME NEW state, state.failures \in Nat, state.lastFailureAt \in Int, NEW now \in Int,
         canAttempt(state, now)
  PROVE  Lockout(state.failures) <= 0 \/ Lockout(state.failures) <= now - state.lastFailureAt
<1> DEFINE lockout == Lockout(state.failures)
           elapsed == now - state.lastFailureAt
<1>1. lockout \in Int /\ elapsed \in Int
  BY LockoutTyped
<1>2. (IF elapsed < 0 THEN lockout ELSE Max({0, lockout - elapsed})) = 0
  BY DEF canAttempt, lockoutRemainingMs
<1> HIDE DEF lockout, elapsed
<1>3. CASE elapsed < 0
  BY <1>1, <1>2, <1>3 DEF lockout
<1>4. CASE ~(elapsed < 0)
  <2>1. Max({0, lockout - elapsed}) >= lockout - elapsed
    BY <1>1 DEF Max
  <2>2. lockout <= elapsed
    BY <1>1, <1>2, <1>4, <2>1
  <2>3. QED
    BY <2>2 DEF lockout, elapsed
<1>5. QED
  BY <1>3, <1>4

LEMMA UnreadableRefuses ==
  ASSUME Shape, canAttempt(parseAttemptState(attempts, clock), clock)
  PROVE  attempts.reads # "unreadable"
<1> SUFFICES ASSUME attempts.reads = "unreadable" PROVE FALSE
  OBVIOUS
<1>1. parseAttemptState(attempts, clock) = AttemptState(FreeAttempts + 1, clock)
  BY DEF parseAttemptState
<1>2. clock \in Int /\ clock - clock = 0 /\ FreeAttempts + 1 \in Nat
  BY Bounds, LockoutGrows DEF Shape
<1> DEFINE state == AttemptState(FreeAttempts + 1, clock)
<1>3. state.failures = FreeAttempts + 1 /\ state.lastFailureAt = clock
  BY DEF AttemptState
<1> HIDE DEF state
<1>4. canAttempt(state, clock)
  BY <1>1 DEF state
<1>5. Lockout(FreeAttempts + 1) <= 0
  BY <1>2, <1>3, <1>4, AttemptWaited
<1>6. QED
  BY <1>2, <1>5, FirstLockout, LockoutTyped

\* A record that can be read is read as what it holds.
LEMMA ReadsAsHeld ==
  ASSUME Shape, GuessesCounted, attempts.reads # "unreadable", NEW at, NEW state,
         state = parseAttemptState(attempts, at)
  PROVE  /\ state.failures = attempts.failures /\ state.failures \in Nat
         /\ state.lastFailureAt \in Nat
         /\ state.failures > 0 => state.lastFailureAt = attempts.lastFailureAt
<1>1. attempts.failures \in Nat /\ attempts.lastFailureAt \in Nat
      /\ attempts.reads \in {"absent", "stored"}
  BY DEF Shape, AttemptRecord
<1>2. CASE attempts.reads = "absent"
  <2>1. state.failures = 0 /\ state.lastFailureAt = 0
    BY <1>2 DEF parseAttemptState, EmptyAttemptState, AttemptState
  <2>2. QED
    BY <1>2, <2>1 DEF GuessesCounted
<1>3. CASE attempts.reads = "stored"
  <2>1. state.failures = attempts.failures /\ state.lastFailureAt = attempts.lastFailureAt
    BY <1>3 DEF parseAttemptState, AttemptState
  <2>2. QED
    BY <1>1, <2>1
<1>4. QED
  BY <1>1, <1>2, <1>3

\* A guess that may be made comes as long after the last one on record as the
\* policy says, in real time.
LEMMA GuessWaited ==
  ASSUME DeviceInv, NEW t \in Start, At(t, "open"),
         canAttempt(parseAttemptState(attempts, clock), clock)
  PROVE  since >= Lockout(wrong - lost) /\ wrong - lost = attempts.failures
<1> DEFINE state == parseAttemptState(attempts, clock)
<1>1. Shape /\ GuessesCounted /\ attempts.reads # "unreadable" /\ clock \in Nat
  BY UnreadableRefuses, Bounds DEF DeviceInv, Shape
<1>2. /\ state.failures = attempts.failures /\ state.failures \in Nat
      /\ state.lastFailureAt \in Nat
      /\ state.failures > 0 => state.lastFailureAt = attempts.lastFailureAt
  BY <1>1, ReadsAsHeld
<1> HIDE DEF state
<1>3. Lockout(state.failures) <= 0 \/ Lockout(state.failures) <= clock - state.lastFailureAt
  BY <1>1, <1>2, AttemptWaited DEF state
<1>4. \A s \in Start : ~At(s, "recording")
  BY OnlyStart DEF InFlight, At
<1>5. wrong - lost = state.failures
  BY <1>1, <1>2, <1>4 DEF GuessesCounted
<1>6. since \in Nat /\ Lockout(state.failures) \in Int /\ Lockout(state.failures) <= MaxLockout
  BY <1>1, <1>2, LockoutTyped DEF GuessesCounted
<1>7. since >= Lockout(state.failures)
  <2>1. CASE state.failures = 0
    <3>1. Lockout(0) = 0
      BY LockoutGrows DEF Lockout
    <3>2. QED
      BY <1>6, <2>1, <3>1
  <2>2. CASE state.failures > 0
    <3>1. since >= MaxLockout \/ clock - state.lastFailureAt <= since
      BY <1>1, <1>2, <2>2 DEF GuessesCounted
    <3>2. QED
      BY <1>1, <1>2, <1>3, <1>6, <3>1, LockoutGrows
  <2>3. QED
    BY <1>2, <2>1, <2>2
<1>8. QED
  BY <1>2, <1>5, <1>7

LEMMA TryRightStep ==
  ASSUME DeviceInv, NEW t \in Start, At(t, "open"), wrapper # NoKey,
         NEW key \in UnlockVault(starts[t].right, wrapper),
         dataKey' = [dataKey EXCEPT ![t] = key], Goto(t, "resetting"),
         UNCHANGED <<Elsewhere, keystore, rows, screen, current, socket, tasks, guesses>>
  PROVE  DeviceInv'
<1>1. Shape /\ KeysFound /\ OneKey /\ InFlight(t) /\ starts[t].pc = "open"
  BY DEF DeviceInv, At, InFlight
<1>2. key = wrapper /\ key \in DataKey
  BY <1>1, KeyNumbers DEF UnlockVault, Shape
<1>3. Puts(t, "resetting", starts[t].failed)
  BY <1>1, GotoPut DEF Place
<1>4. dataKey' \in [Start -> Key] /\ dataKey'[t] = wrapper
      /\ \A s \in Start \ {t} : dataKey'[s] = dataKey[s]
  BY <1>1, <1>2, KeyNumbers DEF Shape
<1>5. t # current /\ t \in Start /\ current \in 0 .. MaxStarts
  BY <1>1, KeyNumbers DEF KeysFound, At, Online
<1>6. Shape'
  BY <1>1, <1>3, <1>4 DEF Shape, Puts, Elsewhere, keystore, lifecycle, screen, wire
<1>7. Alone'
  BY <1>1, <1>3, FlightGoesOn DEF screen, Place
<1>8. KeysFound'
  <2>1. starts[t].failed = FALSE
    <3>1. starts[t].failed \in BOOLEAN
      BY <1>1 DEF Shape, StartRecord
    <3>2. QED
      BY <1>1, <3>1 DEF KeysFound, At
  <2>2. ASSUME NEW s \in Start
        PROVE  /\ starts'[s].failed => starts'[s].pc = "done"
               /\ dataKey'[s] \in DataKey =>
                    s = current' \/ starts'[s].pc \in {"resetting", "wrapping"} \/ starts'[s].failed
               /\ starts'[s].pc \in {"resetting", "wrapping"} => dataKey'[s] \in DataKey
    BY <1>1, <1>2, <1>3, <1>4, <2>1 DEF Puts, KeysFound, At
  <2>3. \A s \in Start : InFlight(s)' <=> InFlight(s)
    BY <1>1, <1>3 DEF Puts, InFlight
  <2>4. ASSUME current # 0
        PROVE  /\ dataKey'[current] \in DataKey
               /\ starts'[current].pc \in Online \cup {"done"}
               /\ InFlight(current)' \/ starts'[current].failed \/ route' \in {"pair", "main"}
    <3>1. current \in Start
      BY <1>1, <2>4 DEF KeysFound, Start
    <3>2. starts'[current] = starts[current] /\ dataKey'[current] = dataKey[current]
      BY <1>3, <1>4, <1>5, <3>1 DEF Puts
    <3>3. QED
      BY <1>1, <2>3, <2>4, <3>1, <3>2 DEF KeysFound, screen
  <2>5. QED
    BY <1>1, <2>2, <2>3, <2>4 DEF KeysFound, At, screen
<1>9. PartsInOrder'
  BY <1>3, PartsStay DEF DeviceInv, Puts, Part, keystore
<1>10. OneKey'
  <2>1. \A s \in Start : s # t => starts'[s] = starts[s] /\ dataKey'[s] = dataKey[s]
    BY <1>3, <1>4 DEF Puts
  <2>2. /\ starts'[t].pc = "resetting" /\ dataKey'[t] = wrapper
        /\ wrapper' = wrapper /\ wrapper # NoKey
    BY <1>3, <1>4 DEF Puts, keystore
  <2>3. \A s \in Start : HasTask(s)' <=> HasTask(s)
    BY DEF HasTask
  <2>4. \A s \in Start : starts'[s].pc = "wrapping" => wrapper' = NoKey /\ dataKey'[s] = s
    BY <1>1, <2>1, <2>2 DEF OneKey, At
  <2>5. QED
    BY <1>1, <2>1, <2>2, <2>3, <2>4 DEF OneKey, Online, At, Elsewhere, keystore, screen
<1>11. AwayMeasured'
  BY AwayStays DEF DeviceInv, Elsewhere
<1>12. GuessesCounted'
  BY <1>1, <1>3, GuessesStay DEF DeviceInv, Puts, At, Elsewhere, keystore
<1>13. QED
  BY <1>6, <1>7, <1>8, <1>9, <1>10, <1>11, <1>12 DEF DeviceInv

LEMMA TryWrongStep ==
  ASSUME DeviceInv, NEW t \in Start, At(t, "open"),
         canAttempt(parseAttemptState(attempts, clock), clock),
         starts' = [starts EXCEPT ![t].pc = "recording",
                      ![t].record = recordFailure(parseAttemptState(attempts, clock), clock)],
         wrong' = wrong + 1, tried' = 0,
         UNCHANGED <<Elsewhere, keystore, rows, screen, current, dataKey, socket, tasks, since, lost>>
  PROVE  DeviceInv'
<1>1. Shape /\ InFlight(t) /\ starts[t].pc = "open" /\ clock \in Nat
  BY Bounds DEF DeviceInv, At, InFlight, Shape
<1> DEFINE state == parseAttemptState(attempts, clock)
           record == recordFailure(state, clock)
           r == [starts[t] EXCEPT !.pc = "recording", !.record = record]
<1>0. /\ attempts.reads # "unreadable" /\ GuessesCounted
      /\ record \in FailureRecord /\ record.lastFailureAt = clock
      /\ record.failures = attempts.failures + 1
  <2>1. attempts.reads # "unreadable" /\ GuessesCounted
    BY <1>1, UnreadableRefuses DEF DeviceInv
  <2>2. state.failures = attempts.failures /\ state.failures \in Nat
    BY <1>1, <2>1, ReadsAsHeld
  <2> HIDE DEF state
  <2>3. record = [failures |-> state.failures + 1, lastFailureAt |-> clock]
    BY DEF recordFailure, AttemptState
  <2>4. QED
    BY <1>1, <2>1, <2>2, <2>3 DEF FailureRecord
<1> HIDE DEF record, state
<1>2. r \in StartRecord /\ r.pc = "recording" /\ r.record = record /\ r.failed = starts[t].failed
  <2>1. starts[t] \in StartRecord
    BY <1>1 DEF Shape
  <2>2. QED
    BY <1>0, <1>1, <2>1 DEF StartRecord, Place
<1>3. starts' = [starts EXCEPT ![t] = r]
  BY DEF r, record, state
<1> HIDE DEF r
<1>4. Puts(t, "recording", starts[t].failed) /\ starts'[t].record = record
  BY <1>1, <1>2, <1>3, StartPut DEF Puts
<1>5. Shape'
  BY <1>1, <1>4 DEF Shape, Puts, Elsewhere, keystore, lifecycle, screen, wire
<1>6. Alone'
  BY <1>1, <1>4, FlightGoesOn DEF screen, Place
<1>7. KeysFound'
  BY <1>1, <1>4, KeysGoOn DEF screen, Place
<1>8. PartsInOrder'
  BY <1>4, PartsStay DEF DeviceInv, Puts, Part, keystore
<1>9. OneKey'
  BY <1>4, OneKeyStays DEF DeviceInv, Puts, Online, Elsewhere, keystore, screen
<1>10. AwayMeasured'
  BY AwayStays DEF DeviceInv, Elsewhere
<1>11. GuessesCounted'
  <2>1. GuessesCounted /\ attempts.failures \in Nat /\ lost \in Nat
    BY <1>0, <1>1 DEF Shape, AttemptRecord, GuessesCounted
  <2>2. \A s \in Start : ~At(s, "recording")
    BY <1>1, OnlyStart DEF InFlight, At
  <2>3. \A s \in Start : At(s, "recording")' <=> s = t
    BY <1>4, <2>2 DEF Puts, At
  <2>4. wrong = attempts.failures + lost
    BY <2>1, <2>2 DEF GuessesCounted
  <2>5. /\ since' = since /\ lost' = lost /\ attempts' = attempts /\ clock' = clock
        /\ clock - clock <= 0
    BY <1>1 DEF Elsewhere, keystore
  <2>6. \A s \in Start : At(s, "recording")' =>
          /\ wrong' = attempts'.failures + lost' + 1
          /\ starts'[s].record.failures = attempts'.failures + 1
          /\ tried' >= MaxLockout \/ clock' - starts'[s].record.lastFailureAt <= tried'
    <3>1. wrong' = attempts'.failures + lost' + 1 /\ record.failures = attempts'.failures + 1
      BY <1>0, <2>1, <2>4, <2>5
    <3>2. clock' - record.lastFailureAt <= tried'
      BY <1>0, <2>5
    <3>3. QED
      BY <1>4, <2>3, <3>1, <3>2
  <2>7. ~(\A s \in Start : ~At(s, "recording")')
    BY <2>3
  <2>8. wrong' \in Nat /\ tried' \in Nat
    BY <2>1 DEF GuessesCounted
  <2>9. QED
    BY <2>1, <2>5, <2>6, <2>7, <2>8 DEF GuessesCounted
<1>12. QED
  BY <1>5, <1>6, <1>7, <1>8, <1>9, <1>10, <1>11 DEF DeviceInv

LEMMA RecordStep ==
  ASSUME DeviceInv, NEW t \in Start, Record(t)
  PROVE  DeviceInv'
<1> DEFINE record == starts[t].record
<1>1. /\ Shape /\ GuessesCounted /\ InFlight(t) /\ starts[t].pc = "recording"
      /\ record \in FailureRecord /\ clock \in Nat
  BY Bounds DEF DeviceInv, Record, At, InFlight, Shape, StartRecord
<1>2. attempts' = Entry(record)
  BY DEF Record
<1> HIDE DEF record
<1>3. record.failures \in Nat /\ record.lastFailureAt \in Nat
  BY <1>1 DEF FailureRecord
<1>4. /\ attempts' \in AttemptRecord /\ attempts'.reads = "stored"
      /\ attempts'.failures = record.failures /\ attempts'.lastFailureAt = record.lastFailureAt
  BY <1>2, <1>3 DEF Entry, AttemptRecord
<1>5. Puts(t, "done", FALSE) /\ busy' = FALSE
  BY <1>1, ReturnPut DEF Record
<1>6. /\ UNCHANGED <<Elsewhere, wrapper, parts, rows, route, current, dataKey, socket, tasks, wrong>>
      /\ since' = tried /\ tried' = MaxLockout /\ UNCHANGED lost
  BY DEF Record, record
<1>7. Shape'
  BY <1>1, <1>4, <1>5, <1>6 DEF Shape, Puts, Elsewhere, lifecycle, wire
<1>8. Alone'
  BY <1>1, <1>5, <1>6, FlightEnds
<1>9. KeysFound'
  BY <1>1, <1>5, <1>6, KeysAfterEnd
<1>10. PartsInOrder'
  BY <1>5, <1>6, PartsStay DEF DeviceInv, Puts, Part
<1>11. OneKey'
  BY <1>5, <1>6, OneKeyStays DEF DeviceInv, Puts, Online, Elsewhere
<1>12. AwayMeasured'
  BY <1>6, AwayStays DEF DeviceInv, Elsewhere
<1>13. GuessesCounted'
  <2>1. \A s \in Start : ~At(s, "recording")'
    BY <1>1, <1>5, OnlyStart DEF Puts, InFlight, At
  <2>2. /\ wrong = attempts.failures + lost + 1 /\ record.failures = attempts.failures + 1
        /\ tried >= MaxLockout \/ clock - record.lastFailureAt <= tried
    BY <1>1 DEF GuessesCounted, At, record
  <2>3. tried \in Nat /\ wrong \in Nat /\ lost \in Nat /\ attempts.failures \in Nat
    BY <1>1 DEF GuessesCounted, Shape, AttemptRecord
  <2>4. wrong = record.failures + lost' /\ lost' \in Nat
    BY <1>3, <1>6, <2>2, <2>3
  <2>5. since' >= MaxLockout \/ clock' - attempts'.lastFailureAt <= since'
    BY <1>4, <1>6, <2>2 DEF Elsewhere
  <2>6. QED
    BY <1>4, <1>6, <2>1, <2>3, <2>4, <2>5, LockoutGrows DEF GuessesCounted
<1>14. QED
  BY <1>7, <1>8, <1>9, <1>10, <1>11, <1>12, <1>13 DEF DeviceInv

LEMMA RecordFailsStep ==
  ASSUME DeviceInv, NEW t \in Start, RecordFails(t)
  PROVE  DeviceInv'
<1>1. /\ Shape /\ GuessesCounted /\ InFlight(t) /\ starts[t].pc = "recording"
  BY DEF DeviceInv, RecordFails, At, InFlight
<1>2. Puts(t, "done", TRUE) /\ busy' = FALSE /\ route' = route
  BY <1>1, ThrowPut DEF RecordFails
<1>3. /\ UNCHANGED <<Elsewhere, keystore, rows, current, dataKey, socket, tasks, since, wrong>>
      /\ lost' = lost + 1 /\ tried' = MaxLockout
  BY DEF RecordFails
<1>4. Shape'
  BY <1>1, <1>2, <1>3 DEF Shape, Puts, Elsewhere, keystore, lifecycle, wire
<1>5. Alone'
  BY <1>1, <1>2, <1>3, FlightEnds
<1>6. KeysFound'
  BY <1>1, <1>2, <1>3, KeysAfterEnd
<1>7. PartsInOrder'
  BY <1>2, <1>3, PartsStay DEF DeviceInv, Puts, Part, keystore
<1>8. OneKey'
  BY <1>2, <1>3, OneKeyStays DEF DeviceInv, Puts, Online, Elsewhere, keystore
<1>9. AwayMeasured'
  BY <1>3, AwayStays DEF DeviceInv, Elsewhere
<1>10. GuessesCounted'
  <2>1. \A s \in Start : ~At(s, "recording")'
    BY <1>1, <1>2, OnlyStart DEF Puts, InFlight, At
  <2>2. wrong = attempts.failures + lost + 1
    BY <1>1 DEF GuessesCounted, At
  <2>3. attempts.failures \in Nat /\ lost \in Nat
    BY <1>1 DEF GuessesCounted, Shape, AttemptRecord
  <2>4. wrong' = attempts'.failures + lost' /\ lost' \in Nat /\ tried' \in Nat
    BY <1>3, <2>2, <2>3, LockoutGrows DEF keystore
  <2>5. QED
    BY <1>1, <1>3, <2>1, <2>4 DEF GuessesCounted, Elsewhere, keystore
<1>11. QED
  BY <1>4, <1>5, <1>6, <1>7, <1>8, <1>9, <1>10 DEF DeviceInv

\* The refs now hold this start's vault; what they held was of one that failed.
LEMMA KeysAfterRefer ==
  ASSUME DeviceInv, NEW t \in Start, starts[t].pc \in {"resetting", "wrapping"},
         Puts(t, "initialise", starts[t].failed), current' = t, UNCHANGED <<dataKey, route>>
  PROVE  KeysFound'
<1>1. Shape /\ KeysFound /\ InFlight(t)
  BY DEF DeviceInv, InFlight
<1>2. \A s \in Start \ {t} : ~InFlight(s)
  BY <1>1, OnlyStart
<1>3. starts[t].failed = FALSE
  <2>1. starts[t].failed \in BOOLEAN
    BY <1>1 DEF Shape, StartRecord
  <2>2. QED
    BY <1>1, <2>1 DEF KeysFound, At
<1>4. ASSUME NEW s \in Start, s # t, dataKey[s] \in DataKey
      PROVE  starts[s].failed
  <2>1. ~InFlight(s) /\ s # 0
    BY <1>2, <1>4, KeyNumbers
  <2>2. CASE s = current
    BY <1>1, <2>1, <2>2, OnlyStart DEF KeysFound
  <2>3. CASE s # current
    BY <1>1, <1>4, <2>1, <2>3 DEF KeysFound, InFlight
  <2>4. QED
    BY <2>2, <2>3
<1>5. ASSUME NEW s \in Start
      PROVE  /\ starts'[s].failed => starts'[s].pc = "done"
             /\ dataKey'[s] \in DataKey =>
                  s = current' \/ starts'[s].pc \in {"resetting", "wrapping"} \/ starts'[s].failed
             /\ starts'[s].pc \in {"resetting", "wrapping"} => dataKey'[s] \in DataKey
             /\ InFlight(s)' => route' \in {"create", "unlock"}
  BY <1>1, <1>2, <1>3, <1>4, <1>5 DEF Puts, KeysFound, At, InFlight
<1>6. /\ current' \in 0 .. MaxStarts /\ dataKey'[t] \in DataKey
      /\ starts'[t].pc = "initialise"
  BY <1>1, Bounds DEF Puts, KeysFound, Start
<1>7. QED
  BY <1>5, <1>6 DEF KeysFound, At, InFlight, Online

LEMMA ResetStep ==
  ASSUME DeviceInv, NEW t \in Start, Reset(t)
  PROVE  DeviceInv'
<1>1. Shape /\ OneKey /\ GuessesCounted /\ InFlight(t) /\ starts[t].pc = "resetting"
  BY DEF DeviceInv, Reset, At, InFlight
<1>2. Puts(t, "initialise", starts[t].failed)
  BY <1>1, GotoPut DEF Reset, Refer, Place, Online
<1>3. /\ UNCHANGED <<Elsewhere, wrapper, parts, rows, screen, dataKey, socket, tasks, tried>>
      /\ wrong' = 0 /\ lost' = 0 /\ since' = MaxLockout /\ current' = t
  BY DEF Reset, Refer
<1>4. /\ attempts' \in AttemptRecord /\ attempts'.reads = "stored" /\ attempts'.failures = 0
  <2>1. attempts' = [reads |-> "stored", failures |-> 0, lastFailureAt |-> 0]
    BY DEF Reset, Entry, recordSuccess, EmptyAttemptState, AttemptState
  <2>2. QED
    BY <2>1 DEF AttemptRecord
<1>5. Shape'
  BY <1>1, <1>2, <1>3, <1>4 DEF Shape, Puts, Elsewhere, lifecycle, screen, wire
<1>6. Alone'
  BY <1>1, <1>2, <1>3, FlightGoesOn DEF screen, Place, Online
<1>7. KeysFound'
  BY <1>1, <1>2, <1>3, KeysAfterRefer DEF screen
<1>8. PartsInOrder'
  BY <1>2, <1>3, PartsStay DEF DeviceInv, Puts, Part
<1>9. OneKey'
  <2>1. \A s \in Start \ {t} : ~InFlight(s) /\ starts'[s] = starts[s]
    BY <1>1, <1>2, OnlyStart DEF Puts
  <2>2. \A s \in Start : HasTask(s)' <=> HasTask(s)
    BY <1>3 DEF HasTask
  <2>3. \A s \in Start : starts'[s].pc # "wrapping"
    BY <1>2, <2>1 DEF Puts, InFlight
  <2>4. \A s \in Start : starts'[s].pc \in Online \cup {"resetting"} => s = t
    BY <1>2, <2>1 DEF Puts, InFlight, Online
  <2>5. ~surprised => dataKey[t] = wrapper /\ wrapper # NoKey
    BY <1>1 DEF OneKey
  <2>6. t # 0
    BY KeyNumbers
  <2>7. QED
    BY <1>1, <1>3, <2>2, <2>3, <2>4, <2>5, <2>6 DEF OneKey, At, Elsewhere, screen
<1>10. AwayMeasured'
  BY <1>3, AwayStays DEF DeviceInv, Elsewhere
<1>11. GuessesCounted'
  <2>1. \A s \in Start : ~At(s, "recording")'
    BY <1>1, <1>2, OnlyStart DEF Puts, InFlight, At
  <2>2. QED
    BY <1>1, <1>3, <1>4, <2>1, LockoutGrows DEF GuessesCounted
<1>12. QED
  BY <1>5, <1>6, <1>7, <1>8, <1>9, <1>10, <1>11 DEF DeviceInv

LEMMA CreateStep ==
  ASSUME DeviceInv, NEW t \in Start, Create(t)
  PROVE  DeviceInv'
<1>1. Shape /\ KeysFound /\ OneKey /\ InFlight(t) /\ starts[t].pc = "open" /\ wrapper = NoKey
  BY DEF DeviceInv, Create, At, InFlight
<1>2. Puts(t, "wrapping", starts[t].failed)
  BY <1>1, GotoPut DEF Create, Place
<1>3. dataKey' = [dataKey EXCEPT ![t] = t]
  BY DEF Create, CreateVault
<1>4. /\ dataKey' \in [Start -> Key] /\ dataKey'[t] = t /\ t \in DataKey /\ t # 0
      /\ \A s \in Start \ {t} : dataKey'[s] = dataKey[s]
  BY <1>1, <1>3, KeyNumbers DEF Shape
<1>5. UNCHANGED <<Elsewhere, keystore, rows, screen, current, socket, tasks, guesses>>
  BY DEF Create
<1>6. t # current
  BY <1>1, <1>4 DEF KeysFound, Online
<1>7. Shape'
  BY <1>1, <1>2, <1>4, <1>5 DEF Shape, Puts, Elsewhere, keystore, lifecycle, screen, wire
<1>8. Alone'
  BY <1>1, <1>2, <1>5, FlightGoesOn DEF screen, Place
<1>9. \A s \in Start : InFlight(s)' <=> InFlight(s)
  BY <1>1, <1>2 DEF Puts, InFlight
<1>10. KeysFound'
  <2>1. starts[t].failed = FALSE
    <3>1. starts[t].failed \in BOOLEAN
      BY <1>1 DEF Shape, StartRecord
    <3>2. QED
      BY <1>1, <3>1 DEF KeysFound, At
  <2>2. ASSUME NEW s \in Start
        PROVE  /\ starts'[s].failed => starts'[s].pc = "done"
               /\ dataKey'[s] \in DataKey =>
                    s = current' \/ starts'[s].pc \in {"resetting", "wrapping"} \/ starts'[s].failed
               /\ starts'[s].pc \in {"resetting", "wrapping"} => dataKey'[s] \in DataKey
    BY <1>1, <1>2, <1>4, <1>5, <2>1 DEF Puts, KeysFound, At
  <2>3. ASSUME current # 0
        PROVE  /\ dataKey'[current] \in DataKey
               /\ starts'[current].pc \in Online \cup {"done"}
               /\ InFlight(current)' \/ starts'[current].failed \/ route' \in {"pair", "main"}
    <3>1. current \in Start
      BY <1>1, <2>3 DEF KeysFound, Start
    <3>2. starts'[current] = starts[current] /\ dataKey'[current] = dataKey[current]
      BY <1>2, <1>4, <1>6, <3>1 DEF Puts
    <3>3. QED
      BY <1>1, <1>5, <1>9, <2>3, <3>1, <3>2 DEF KeysFound, screen
  <2>4. QED
    BY <1>1, <1>5, <1>9, <2>2, <2>3 DEF KeysFound, At, screen
<1>11. PartsInOrder'
  BY <1>2, <1>5, PartsStay DEF DeviceInv, Puts, Part, keystore
<1>12. OneKey'
  <2>1. \A s \in Start : HasTask(s)' <=> HasTask(s)
    BY <1>5 DEF HasTask
  <2>2. \A s \in Start : s # t => starts'[s] = starts[s] /\ dataKey'[s] = dataKey[s]
    BY <1>2, <1>4 DEF Puts
  <2>3. starts'[t].pc = "wrapping"
    BY <1>2 DEF Puts
  <2>4. ~surprised => socket[t].state = "none" /\ ~HasTask(t)
    BY <1>1, KeyNumbers DEF OneKey, Shape, SocketRecord
  <2>5. QED
    BY <1>1, <1>4, <1>5, <1>6, <2>1, <2>2, <2>3, <2>4 DEF OneKey, At, Online, Elsewhere, keystore,
       screen
<1>13. AwayMeasured'
  BY <1>5, AwayStays DEF DeviceInv, Elsewhere
<1>14. GuessesCounted'
  BY <1>1, <1>2, <1>5, GuessesStay DEF DeviceInv, Puts, At, Elsewhere, keystore
<1>15. QED
  BY <1>7, <1>8, <1>10, <1>11, <1>12, <1>13, <1>14 DEF DeviceInv

LEMMA WrapStep ==
  ASSUME DeviceInv, NEW t \in Start, Wrap(t)
  PROVE  DeviceInv'
<1>1. /\ Shape /\ OneKey /\ InFlight(t) /\ starts[t].pc = "wrapping"
      /\ wrapper = NoKey /\ dataKey[t] = t
  BY DEF DeviceInv, Wrap, At, InFlight, OneKey
<1>2. Puts(t, "initialise", starts[t].failed)
  BY <1>1, GotoPut DEF Wrap, Refer, Place, Online
<1>3. /\ UNCHANGED <<Elsewhere, attempts, parts, rows, screen, dataKey, socket, tasks, guesses>>
      /\ wrapper' = t /\ current' = t
  BY DEF Wrap, Refer, CreateVault
<1>4. t # NoKey /\ t \in Key \ {Zero} /\ t # 0
  BY KeyNumbers
<1>5. Shape'
  BY <1>1, <1>2, <1>3, <1>4 DEF Shape, Puts, Elsewhere, lifecycle, screen, wire
<1>6. Alone'
  BY <1>1, <1>2, <1>3, FlightGoesOn DEF screen, Place, Online
<1>7. KeysFound'
  BY <1>1, <1>2, <1>3, KeysAfterRefer DEF screen
<1>8. PartsInOrder'
  BY <1>2, <1>3, PartsStay DEF DeviceInv, Puts, Part
<1>9. OneKey'
  <2>1. \A s \in Start \ {t} : ~InFlight(s) /\ starts'[s] = starts[s]
    BY <1>1, <1>2, OnlyStart DEF Puts
  <2>2. \A s \in Start : HasTask(s)' <=> HasTask(s)
    BY <1>3 DEF HasTask
  <2>3. \A s \in Start : starts'[s].pc # "wrapping"
    BY <1>2, <2>1 DEF Puts, InFlight
  <2>4. \A s \in Start : starts'[s].pc \in Online \cup {"resetting"} => s = t
    BY <1>2, <2>1 DEF Puts, InFlight, Online
  <2>5. ~surprised => \A s \in Start : socket[s].state = "none" /\ ~HasTask(s)
    BY <1>1 DEF OneKey, Shape, SocketRecord
  <2>6. QED
    BY <1>1, <1>3, <1>4, <2>2, <2>3, <2>4, <2>5 DEF OneKey, At, Elsewhere, screen
<1>10. AwayMeasured'
  BY <1>3, AwayStays DEF DeviceInv, Elsewhere
<1>11. GuessesCounted'
  BY <1>1, <1>2, <1>3, GuessesStay DEF DeviceInv, Puts, At, Elsewhere
<1>12. QED
  BY <1>5, <1>6, <1>7, <1>8, <1>9, <1>10, <1>11 DEF DeviceInv

-----------------------------------------------------------------------------
(* Bringing the messenger online.                                          *)

LEMMA InitialiseStep ==
  ASSUME DeviceInv, NEW t \in Start, Initialise(t)
  PROVE  DeviceInv'
<1> DEFINE pc == IF Whole THEN "register" ELSE "signing"
<1>1. Shape /\ InFlight(t) /\ starts[t].pc = "initialise"
  BY DEF DeviceInv, Initialise, At, InFlight
<1>2. pc \in {"register", "signing"} /\ (~Whole <=> pc = "signing")
  OBVIOUS
<1>3. Goto(t, pc)
  BY DEF Initialise
<1> HIDE DEF pc
<1>4. Puts(t, pc, starts[t].failed)
  BY <1>1, <1>2, <1>3, GotoPut DEF Place, Online
<1>5. UNCHANGED <<Elsewhere, keystore, rows, screen, current, dataKey, socket, tasks, guesses>>
  BY DEF Initialise
<1>6. Shape'
  BY <1>1, <1>4, <1>5 DEF Shape, Puts, Elsewhere, keystore, lifecycle, screen, wire
<1>7. Alone'
  BY <1>1, <1>2, <1>4, <1>5, FlightGoesOn DEF screen, Place, Online
<1>8. KeysFound'
  BY <1>1, <1>2, <1>4, <1>5, KeysGoOn DEF screen, Place, Online
<1>9. PartsInOrder'
  <2>1. PartsInOrder /\ parts' = parts
    BY <1>5 DEF DeviceInv, keystore
  <2>2. pc = "signing" => parts["binding"] = 0
    BY <1>2, <2>1 DEF PartsInOrder
  <2>3. QED
    BY <1>2, <1>4, <2>1, <2>2 DEF PartsInOrder, Puts, IdentityWhole, Whole, Part
<1>10. OneKey'
  BY <1>1, <1>2, <1>4, <1>5, OneKeyStays DEF DeviceInv, Puts, Online, Elsewhere, keystore, screen
<1>11. AwayMeasured'
  BY <1>5, AwayStays DEF DeviceInv, Elsewhere
<1>12. GuessesCounted'
  BY <1>1, <1>2, <1>4, <1>5, GuessesStay DEF DeviceInv, Puts, At, Elsewhere, keystore
<1>13. QED
  BY <1>6, <1>7, <1>8, <1>9, <1>10, <1>11, <1>12 DEF DeviceInv

LEMMA StorePartStep ==
  ASSUME DeviceInv, NEW t \in Start, NEW p \in Part, StorePart(t, p)
  PROVE  DeviceInv'
<1> DEFINE pc == AfterPart[p]
<1>1. Shape /\ InFlight(t) /\ starts[t].pc = p /\ p \in Online
  BY DEF DeviceInv, StorePart, At, InFlight, Part, Online
<1>2. /\ p = "signing" => pc = "exchange"
      /\ p = "exchange" => pc = "binding"
      /\ p = "binding" => pc = "register"
      /\ pc \in Online /\ pc \in Place \ {"unused", "done"} /\ pc \notin {"recording", "signing"}
  BY DEF AfterPart, Part, Online, Place
<1>3. Goto(t, pc)
  BY DEF StorePart
<1> HIDE DEF pc
<1>4. Puts(t, pc, starts[t].failed)
  BY <1>1, <1>2, <1>3, GotoPut
<1>5. UNCHANGED <<Elsewhere, wrapper, attempts, rows, screen, current, dataKey, socket, tasks,
                  guesses>>
  BY DEF StorePart
<1>6. /\ parts' \in [Part -> Key \ {Zero}] /\ parts'[p] = t /\ t # 0
      /\ \A q \in Part \ {p} : parts'[q] = parts[q]
  BY <1>1, KeyNumbers DEF StorePart, WritePart, Shape
<1>7. Shape'
  BY <1>1, <1>4, <1>5, <1>6 DEF Shape, Puts, Elsewhere, lifecycle, screen, wire
<1>8. Alone'
  BY <1>1, <1>2, <1>4, <1>5, FlightGoesOn DEF screen
<1>9. KeysFound'
  BY <1>1, <1>2, <1>4, <1>5, KeysGoOn DEF screen, Place, Online
<1>10. PartsInOrder'
  <2>1. PartsInOrder
    BY DEF DeviceInv
  <2>2. \A s \in Start : s # t => starts'[s].pc \notin Part
    BY <1>1, <1>4, OnlyStart DEF Puts, InFlight, Part
  <2>3. starts'[t].pc = pc
    BY <1>4 DEF Puts
  <2>4. CASE p = "signing"
    <3>1. parts'["binding"] = 0 /\ parts'["signing"] = t
      BY <1>1, <1>6, <2>1, <2>4 DEF PartsInOrder, Part
    <3>2. QED
      BY <1>2, <2>2, <2>3, <2>4, <3>1 DEF PartsInOrder, Part
  <2>5. CASE p = "exchange"
    <3>1. parts'["binding"] = 0 /\ parts'["signing"] = t /\ parts'["exchange"] = t
      BY <1>1, <1>6, <2>1, <2>5 DEF PartsInOrder, Part
    <3>2. QED
      BY <1>2, <2>2, <2>3, <2>5, <3>1 DEF PartsInOrder, Part
  <2>6. CASE p = "binding"
    <3>1. parts'["binding"] = t /\ parts'["signing"] = t /\ parts'["exchange"] = t
      BY <1>1, <1>6, <2>1, <2>6 DEF PartsInOrder, Part
    <3>2. IdentityWhole' /\ Whole'
      BY <1>6, <3>1 DEF IdentityWhole, Whole, Part
    <3>3. \A s \in Start : starts'[s].pc \notin Part
      BY <1>2, <2>2, <2>3, <2>6 DEF Part
    <3>4. QED
      BY <3>2, <3>3 DEF PartsInOrder, Part
  <2>7. QED
    BY <2>4, <2>5, <2>6 DEF Part
<1>11. OneKey'
  BY <1>1, <1>2, <1>4, <1>5, OneKeyStays DEF DeviceInv, Puts, Online, Elsewhere, screen
<1>12. AwayMeasured'
  BY <1>5, AwayStays DEF DeviceInv, Elsewhere
<1>13. GuessesCounted'
  BY <1>1, <1>2, <1>4, <1>5, GuessesStay DEF DeviceInv, Puts, At, Elsewhere, Online
<1>14. QED
  BY <1>7, <1>8, <1>9, <1>10, <1>11, <1>12, <1>13 DEF DeviceInv

\* Socket t is s, the others are what they were.
PutSocket(t, s) ==
  /\ socket' \in [Start -> SocketRecord]
  /\ socket'[t] = s /\ \A u \in Start \ {t} : socket'[u] = socket[u]

LEMMA SocketPut ==
  ASSUME Shape, NEW t \in Start, NEW s \in SocketRecord, socket' = [socket EXCEPT ![t] = s]
  PROVE  PutSocket(t, s)
BY DEF Shape, PutSocket

LEMMA OpenPut ==
  ASSUME Shape, NEW t \in Start, NEW state \in {"none", "open", "waiting"},
         socket' = [socket EXCEPT ![t].state = state]
  PROVE  socket' \in [Start -> SocketRecord] /\ socket'[t].state = state
         /\ \A u \in Start \ {t} : socket'[u] = socket[u]
<1> DEFINE s == [socket[t] EXCEPT !.state = state]
<1>1. s \in SocketRecord /\ s.state = state
  BY DEF Shape, SocketRecord
<1>2. socket' = [socket EXCEPT ![t] = s]
  OBVIOUS
<1> HIDE DEF s
<1>3. QED
  BY <1>1, <1>2, SocketPut DEF PutSocket

LEMMA ConnectStep ==
  ASSUME DeviceInv, NEW t \in Start, Connect(t)
  PROVE  DeviceInv'
<1>1. Shape /\ OneKey /\ InFlight(t) /\ starts[t].pc = "register"
  BY DEF DeviceInv, Connect, At, InFlight
<1>2. Puts(t, "sync", starts[t].failed)
  BY <1>1, GotoPut DEF Connect, Place, Online
<1>3. /\ UNCHANGED <<Elsewhere, keystore, rows, screen, current, dataKey, tasks, guesses>>
      /\ socket' = [socket EXCEPT ![t].state = "open"]
  BY DEF Connect
<1>4. socket' \in [Start -> SocketRecord] /\ \A u \in Start \ {t} : socket'[u] = socket[u]
  BY <1>1, <1>3, OpenPut
<1>5. Shape'
  BY <1>1, <1>2, <1>3, <1>4 DEF Shape, Puts, Elsewhere, keystore, lifecycle, screen, wire
<1>6. Alone'
  BY <1>1, <1>2, <1>3, FlightGoesOn DEF screen, Place, Online
<1>7. KeysFound'
  BY <1>1, <1>2, <1>3, KeysGoOn DEF screen, Place, Online
<1>8. PartsInOrder'
  BY <1>2, <1>3, PartsStay DEF DeviceInv, Puts, Part, keystore
<1>9. OneKey'
  <2>1. \A s \in Start : HasTask(s)' <=> HasTask(s)
    BY <1>3 DEF HasTask
  <2>2. starts'[t].pc = "sync" /\ \A s \in Start : s # t => starts'[s] = starts[s]
    BY <1>2 DEF Puts
  <2>3. \A s \in Start : s # t => socket'[s] = socket[s]
    BY <1>4
  <2>4. ~surprised => t = current /\ dataKey[t] = wrapper /\ wrapper # NoKey
    BY <1>1 DEF OneKey, Online
  <2>5. QED
    BY <1>1, <1>3, <2>1, <2>2, <2>3, <2>4 DEF OneKey, At, Online, Elsewhere, keystore, screen
<1>10. AwayMeasured'
  BY <1>3, AwayStays DEF DeviceInv, Elsewhere
<1>11. GuessesCounted'
  BY <1>1, <1>2, <1>3, GuessesStay DEF DeviceInv, Puts, At, Elsewhere, keystore
<1>12. QED
  BY <1>5, <1>6, <1>7, <1>8, <1>9, <1>10, <1>11 DEF DeviceInv

\* What is read under the key that wrote it is not refused.
LEMMA WrapperReads ==
  ASSUME Shape, wrapper # NoKey, NEW row \in {NoKey, wrapper}
  PROVE  ~GetThrows(wrapper, row)
BY DEF GetThrows, Decrypts

\* What is written and read while the start has the wrapper's key opens under it.
LEMMA SyncStep ==
  ASSUME DeviceInv, NEW t \in Start, Sync(t)
  PROVE  DeviceInv'
<1>1. Shape /\ Alone /\ KeysFound /\ OneKey /\ starts[t].pc = "sync" /\ dataKey[t] \in Key
  BY DEF DeviceInv, Sync, At, Shape
<1>2. /\ UNCHANGED <<clock, lifecycle, surprised, keystore, mate, screen, current, starts, dataKey,
                     socket, tasks, guesses>>
      /\ mail' = 0
  BY DEF Sync
<1>3. \/ UNCHANGED <<rows, swallowed>>
      \/ /\ rows' = rows
         /\ swallowed' = (swallowed \/ ~surprised)
         /\ GetThrows(dataKey[t], rows.peer)
      \/ /\ rows' = [rows EXCEPT !.messages = @ \cup {EncryptRecord(dataKey[t])}]
         /\ swallowed' = swallowed
  BY DEF Sync, Swallow
<1>4. rows' \in [pairing : Key, peer : Key, messages : SUBSET Key] /\ swallowed' \in BOOLEAN
  <2>1. rows \in [pairing : Key, peer : Key, messages : SUBSET Key]
    BY <1>1 DEF Shape
  <2>2. swallowed \in BOOLEAN /\ surprised \in BOOLEAN
    BY <1>1 DEF Shape
  <2>3. swallowed' \in BOOLEAN
    BY <1>3, <2>2
  <2>4. CASE rows' = rows
    BY <2>1, <2>3, <2>4
  <2>5. CASE rows' = [rows EXCEPT !.messages = @ \cup {EncryptRecord(dataKey[t])}]
    <3>1. EncryptRecord(dataKey[t]) \in Key
      BY <1>1 DEF EncryptRecord
    <3>2. QED
      BY <2>1, <2>3, <2>5, <3>1
  <2>6. QED
    BY <1>3, <2>4, <2>5
<1>5. Shape'
  BY <1>1, <1>2, <1>4, KeyNumbers DEF Shape, keystore, lifecycle, screen
<1>6. Alone' /\ KeysFound'
  BY <1>1, <1>2 DEF Alone, KeysFound, InFlight, At, screen
<1>7. PartsInOrder'
  BY <1>2, PartsStay DEF DeviceInv, keystore
<1>8. OneKey'
  <2>1. \A s \in Start : HasTask(s)' <=> HasTask(s)
    BY <1>2 DEF HasTask
  <2>2. ASSUME ~surprised
        PROVE  /\ rows'.pairing \in {NoKey, wrapper} /\ rows'.peer \in {NoKey, wrapper}
               /\ \A key \in rows'.messages : key \in {NoKey, wrapper}
               /\ ~swallowed'
    <3>1. /\ dataKey[t] = wrapper /\ wrapper # NoKey /\ ~swallowed
          /\ rows.pairing \in {NoKey, wrapper} /\ rows.peer \in {NoKey, wrapper}
          /\ \A key \in rows.messages : key \in {NoKey, wrapper}
      BY <1>1, <2>2 DEF OneKey, Online
    <3>2. ~GetThrows(dataKey[t], rows.peer)
      BY <1>1, <3>1, WrapperReads
    <3>3. CASE rows' = rows
      BY <1>3, <3>1, <3>2, <3>3
    <3>4. CASE /\ rows' = [rows EXCEPT !.messages = @ \cup {EncryptRecord(dataKey[t])}]
               /\ swallowed' = swallowed
      BY <1>1, <3>1, <3>4 DEF Shape, EncryptRecord
    <3>5. QED
      BY <1>3, <3>3, <3>4
  <2>3. QED
    BY <1>1, <1>2, <2>1, <2>2 DEF OneKey, At, keystore, screen
<1>9. AwayMeasured'
  BY <1>2, AwayStays DEF DeviceInv
<1>10. GuessesCounted'
  BY <1>2, GuessesStay DEF DeviceInv, At, keystore
<1>11. QED
  BY <1>5, <1>6, <1>7, <1>8, <1>9, <1>10 DEF DeviceInv

LEMMA GoOnlineStep ==
  ASSUME DeviceInv, NEW t \in Start, GoOnline(t)
  PROVE  DeviceInv'
<1>1. Shape /\ KeysFound /\ OneKey /\ InFlight(t) /\ starts[t].pc = "sync"
  BY DEF DeviceInv, GoOnline, At, InFlight
<1>2. Puts(t, "done", FALSE) /\ busy' = FALSE
  BY <1>1, ReturnPut DEF GoOnline
<1>3. /\ UNCHANGED <<Elsewhere, keystore, rows, current, dataKey, socket, tasks, guesses>>
      /\ route' \in {"pair", "main"}
  BY DEF GoOnline
<1>4. Shape'
  BY <1>1, <1>2, <1>3 DEF Shape, Puts, Elsewhere, keystore, lifecycle, wire
<1>5. Alone'
  BY <1>1, <1>2, <1>3, FlightEnds
<1>6. \A s \in Start : ~InFlight(s)'
  BY <1>1, <1>2, OnlyStart DEF Puts, InFlight
<1>7. KeysFound'
  <2>1. dataKey[t] \in DataKey => t = current
    <3>1. starts[t].failed \in BOOLEAN /\ (starts[t].failed => starts[t].pc = "done")
      BY <1>1 DEF Shape, StartRecord, KeysFound, At
    <3>2. QED
      BY <1>1, <3>1 DEF KeysFound
  <2>2. ASSUME NEW s \in Start
        PROVE  /\ starts'[s].failed => starts'[s].pc = "done"
               /\ dataKey'[s] \in DataKey =>
                    s = current' \/ starts'[s].pc \in {"resetting", "wrapping"} \/ starts'[s].failed
               /\ starts'[s].pc \notin {"resetting", "wrapping"}
    BY <1>1, <1>2, <1>3, <1>6, <2>1, <2>2 DEF Puts, KeysFound, InFlight, At
  <2>3. ASSUME current # 0
        PROVE  dataKey'[current] \in DataKey /\ starts'[current].pc \in Online \cup {"done"}
    <3>1. current \in Start
      BY <1>1, <2>3 DEF KeysFound, Start
    <3>2. QED
      BY <1>1, <1>2, <1>3, <2>3, <3>1 DEF Puts, KeysFound
  <2>4. QED
    BY <1>1, <1>3, <1>6, <2>2, <2>3 DEF KeysFound, At
<1>8. PartsInOrder'
  BY <1>2, <1>3, PartsStay DEF DeviceInv, Puts, Part, keystore
<1>9. OneKey'
  <2>1. \A s \in Start : HasTask(s)' <=> HasTask(s)
    BY <1>3 DEF HasTask
  <2>2. \A s \in Start : starts'[s].pc \notin Online \cup {"resetting", "wrapping"}
    BY <1>6 DEF InFlight, Online
  <2>3. ~surprised => current # 0
    BY <1>1, KeyNumbers DEF OneKey, Online
  <2>4. QED
    BY <1>1, <1>3, <2>1, <2>2, <2>3 DEF OneKey, At, Elsewhere, keystore
<1>10. AwayMeasured'
  BY <1>3, AwayStays DEF DeviceInv, Elsewhere
<1>11. GuessesCounted'
  BY <1>1, <1>2, <1>3, GuessesStay DEF DeviceInv, Puts, At, Elsewhere, keystore
<1>12. QED
  BY <1>4, <1>5, <1>7, <1>8, <1>9, <1>10, <1>11 DEF DeviceInv

-----------------------------------------------------------------------------
(* Locking.                                                                *)

LEMMA LockShape ==
  ASSUME Shape, KeysFound, Lock
  PROVE  /\ dataKey' \in [Start -> Key] /\ socket' \in [Start -> SocketRecord]
         /\ busy' = busy /\ current' = 0 /\ route' = "unlock" /\ surprised' \in BOOLEAN
         /\ \A t \in Start : t # current => dataKey'[t] = dataKey[t] /\ socket'[t] = socket[t]
         /\ \A t \in Start : t = current => /\ dataKey'[t] \notin DataKey
                                            /\ dataKey[t] # NoKey => dataKey'[t] # NoKey
                                            /\ socket'[t].state \in {"none", "waiting"}
                                            /\ socket'[t].state # "none" =>
                                                 socket[t].state = "waiting"
<1>1. /\ current' = 0 /\ route' = "unlock" /\ busy' = busy
      /\ surprised' = (surprised \/ UnderWay)
  BY DEF Lock, BusyAfterLock
<1>2. surprised' \in BOOLEAN
  BY <1>1
<1>3. CASE current = 0
  <2>1. UNCHANGED <<socket, dataKey>>
    BY <1>3 DEF Lock
  <2>2. QED
    BY <1>1, <1>2, <1>3, <2>1, KeyNumbers DEF Shape
<1>4. CASE current # 0
  <2>1. current \in Start
    BY <1>4 DEF KeysFound, Start
  <2>2. /\ socket' = [socket EXCEPT ![current] = Close(socket[current])]
        /\ dataKey' = [dataKey EXCEPT ![current] = LockVault(dataKey[current])]
    BY <1>4 DEF Lock
  <2>3. /\ LockVault(dataKey[current]) \in {NoKey, Zero}
        /\ dataKey[current] # NoKey => LockVault(dataKey[current]) # NoKey
    BY KeyNumbers DEF LockVault
  <2>4. /\ Close(socket[current]) \in SocketRecord
        /\ Close(socket[current]).state \in {"none", "waiting"}
        /\ Close(socket[current]).state # "none" => socket[current].state = "waiting"
    <3>1. socket[current] \in SocketRecord
      BY <2>1 DEF Shape
    <3>2. NoSocket \in SocketRecord /\ NoSocket.state = "none"
      BY DEF NoSocket, SocketRecord
    <3>3. CASE socket[current].state = "waiting"
      BY <3>1, <3>3 DEF Close, SocketRecord
    <3>4. CASE socket[current].state # "waiting"
      BY <3>2, <3>4 DEF Close
    <3>5. QED
      BY <3>3, <3>4
  <2> QED
    BY <1>1, <1>2, <2>1, <2>2, <2>3, <2>4, KeyNumbers DEF Shape
<1>5. QED
  BY <1>3, <1>4

\* Whatever the refs held is gone; what a start or a socket under way still
\* reaches, it reaches from then on as surprised.
LEMMA LockKeys ==
  ASSUME DeviceInv, Lock, UNCHANGED <<keystore, rows, starts, tasks, swallowed>>
  PROVE  KeysFound' /\ OneKey'
<1>1. Shape /\ KeysFound /\ OneKey
  BY DEF DeviceInv
<1>2. /\ dataKey' \in [Start -> Key] /\ socket' \in [Start -> SocketRecord]
      /\ current' = 0 /\ route' = "unlock"
      /\ \A t \in Start : t # current => dataKey'[t] = dataKey[t] /\ socket'[t] = socket[t]
      /\ \A t \in Start : t = current => /\ dataKey'[t] \notin DataKey
                                         /\ socket'[t].state # "none" =>
                                              socket[t].state = "waiting"
  BY <1>1, LockShape
<1>3. \A t \in Start : starts[t].pc \in {"resetting", "wrapping"} => t # current
  BY <1>1, KeyNumbers DEF KeysFound, Online
<1>4. KeysFound'
  <2>1. current' \in 0 .. MaxStarts /\ current' = 0
    BY <1>2, KeyNumbers
  <2>2. ASSUME NEW t \in Start, dataKey'[t] \in DataKey
        PROVE  starts'[t].pc \in {"resetting", "wrapping"} \/ starts'[t].failed
    BY <1>1, <1>2, <2>2 DEF KeysFound
  <2>3. ASSUME NEW t \in Start, starts'[t].pc \in {"resetting", "wrapping"}
        PROVE  dataKey'[t] \in DataKey
    BY <1>1, <1>2, <1>3, <2>3 DEF KeysFound
  <2>4. \A t \in Start : starts'[t].failed => At(t, "done")'
    BY <1>1 DEF KeysFound, At
  <2>5. QED
    BY <1>2, <2>1, <2>2, <2>3, <2>4 DEF KeysFound
<1>5. OneKey'
  <2>1. \A t \in Start : At(t, "wrapping")' => wrapper' = NoKey /\ dataKey'[t] = t
    BY <1>1, <1>2, <1>3 DEF OneKey, At, keystore
  <2>2. ASSUME ~surprised'
        PROVE  /\ ~surprised /\ tasks' = {}
               /\ \A t \in Start : ~InFlight(t) /\ socket[t].state # "waiting"
    BY <2>2 DEF Lock, UnderWay
  <2>3. ASSUME ~surprised', NEW t \in Start
        PROVE  /\ starts'[t].pc \notin Online \cup {"resetting"} /\ t # current' /\ ~HasTask(t)'
               /\ Task(t, "pair") \notin tasks'
               /\ socket'[t].state # "none" => dataKey'[t] = wrapper /\ wrapper # NoKey
    <3>1. starts'[t].pc \notin Online \cup {"resetting"}
      BY <2>2, <2>3 DEF InFlight, Online
    <3>2. ~HasTask(t)' /\ Task(t, "pair") \notin tasks'
      BY <2>2, <2>3 DEF HasTask
    <3>3. socket'[t].state # "none" => t # current
      BY <1>2, <2>2, <2>3
    <3>4. QED
      BY <1>1, <1>2, <2>2, <2>3, <3>1, <3>2, <3>3, KeyNumbers DEF OneKey
  <2>4. QED
    BY <1>1, <1>2, <2>1, <2>2, <2>3 DEF OneKey, keystore
<1>6. QED
  BY <1>4, <1>5

LEMMA RestStays ==
  ASSUME DeviceInv, UNCHANGED <<wrapper, parts, rows, screen, current, starts, dataKey, socket, tasks,
                                swallowed, surprised>>
  PROVE  Alone' /\ KeysFound' /\ PartsInOrder' /\ OneKey'
<1>1. Alone'
  BY DEF DeviceInv, Alone, InFlight, screen
<1>2. KeysFound'
  BY DEF DeviceInv, KeysFound, InFlight, At, screen
<1>3. PartsInOrder'
  BY PartsStay DEF DeviceInv
<1>4. OneKey'
  BY OneKeyStays DEF DeviceInv, screen
<1>5. QED
  BY <1>1, <1>2, <1>3, <1>4

\* The lifecycle moves, and locks or not.
LEMMA LifecycleStep ==
  ASSUME DeviceInv, app' \in {"active", "inactive", "background"}, AwayMeasured',
         Lock \/ UNCHANGED <<socket, dataKey, current, screen, surprised>>,
         UNCHANGED <<clock, keystore, rows, starts, tasks, wire, guesses, swallowed>>
  PROVE  DeviceInv'
<1>1. GuessesCounted'
  BY GuessesStay DEF DeviceInv, At, keystore
<1>2. PartsInOrder'
  BY PartsStay DEF DeviceInv, keystore
<1>3. CASE Lock
  <2>1. KeysFound' /\ OneKey'
    BY <1>3, LockKeys
  <2>2. /\ dataKey' \in [Start -> Key] /\ socket' \in [Start -> SocketRecord]
        /\ busy' = busy /\ surprised' \in BOOLEAN
    BY <1>3, LockShape DEF DeviceInv
  <2>3. Shape'
    BY <2>2 DEF DeviceInv, Shape, keystore, wire
  <2>4. Alone'
    BY <2>2 DEF DeviceInv, Alone, InFlight
  <2>5. QED
    BY <1>1, <1>2, <2>1, <2>3, <2>4 DEF DeviceInv
<1>4. CASE UNCHANGED <<socket, dataKey, current, screen, surprised>>
  <2>1. Alone' /\ KeysFound' /\ OneKey'
    BY <1>4, RestStays DEF keystore
  <2>2. Shape'
    BY <1>4 DEF DeviceInv, Shape, keystore, screen, wire
  <2>3. QED
    BY <1>1, <1>2, <2>1, <2>2 DEF DeviceInv
<1>5. QED
  BY <1>3, <1>4

LEMMA LeaveStep ==
  ASSUME DeviceInv, NEW state, Leave(state)
  PROVE  DeviceInv'
<1>1. AwayMeasured /\ clock \in Nat
  BY Bounds DEF DeviceInv, Shape
<1>2. /\ app' \in {"inactive", "background"} /\ backgroundedAt' = LeftAt
      /\ timer' = (timer \/ backgroundedAt = {})
      /\ away' = IF backgroundedAt = {} THEN 0 ELSE away
      /\ turned' = (turned /\ backgroundedAt # {}) /\ clock' = clock
  BY DEF Leave
<1>3. timer' \in BOOLEAN /\ turned' \in BOOLEAN
  BY <1>2
<1>4. CASE backgroundedAt = {}
  <2>1. backgroundedAt' = {clock} /\ away' = 0 /\ clock + 0 <= clock
    BY <1>1, <1>2, <1>4 DEF LeftAt
  <2>2. AwayMeasured'
    BY <1>1, <1>2, <1>3, <2>1 DEF AwayMeasured
  <2>3. QED
    BY <1>2, <2>2, LifecycleStep DEF Leave
<1>5. CASE backgroundedAt # {}
  <2>1. backgroundedAt' = backgroundedAt /\ away' = away /\ (turned' <=> turned)
    BY <1>2, <1>5 DEF LeftAt
  <2>2. AwayMeasured'
    BY <1>1, <1>2, <1>3, <1>5, <2>1 DEF AwayMeasured
  <2>3. QED
    BY <1>2, <2>2, LifecycleStep DEF Leave
<1>6. QED
  BY <1>4, <1>5

LEMMA ResumeStep ==
  ASSUME DeviceInv, Resume
  PROVE  DeviceInv'
<1>1. /\ app' = "active" /\ backgroundedAt' = {} /\ timer' = FALSE /\ away' = 0 /\ turned' = FALSE
      /\ Lock \/ UNCHANGED <<socket, dataKey, current, screen, surprised>>
      /\ UNCHANGED <<clock, keystore, rows, starts, tasks, wire, guesses, swallowed>>
  BY DEF Resume
<1>2. AwayMeasured'
  BY <1>1 DEF AwayMeasured
<1>3. QED
  BY <1>1, <1>2, LifecycleStep

LEMMA TimerFiresStep ==
  ASSUME DeviceInv, TimerFires
  PROVE  DeviceInv'
<1>1. /\ Lock /\ timer' = FALSE /\ UNCHANGED <<app, backgroundedAt, away, turned>>
      /\ UNCHANGED <<clock, keystore, rows, starts, tasks, wire, guesses, swallowed>>
  BY DEF TimerFires
<1>2. AwayMeasured' /\ app' \in {"active", "inactive", "background"}
  BY <1>1 DEF DeviceInv, AwayMeasured, Shape
<1>3. QED
  BY <1>1, <1>2, LifecycleStep

-----------------------------------------------------------------------------
(* Time, and the end of the process.                                       *)

LEMMA PassedIs ==
  ASSUME NEW ticks \in Nat, NEW more \in Nat, NEW limit \in Nat
  PROVE  /\ Passed(ticks, more, limit) \in Nat
         /\ Passed(ticks, more, limit) <= ticks + more
         /\ Passed(ticks, more, limit) \in {ticks + more, limit}
<1>1. CASE ticks + more <= limit
  <2>1. Passed(ticks, more, limit) = ticks + more
    BY <1>1 DEF Passed, Min
  <2>2. QED
    BY <2>1
<1>2. CASE ~(ticks + more <= limit)
  <2>1. Passed(ticks, more, limit) = limit
    BY <1>2 DEF Passed, Min
  <2>2. QED
    BY <1>2, <2>1
<1>3. QED
  BY <1>1, <1>2

\* No record gets older than what has passed since, as long as that gains what
\* the clock does.
LEMMA GuessesAge ==
  ASSUME DeviceInv, NEW more \in Nat, Gain(more), clock' \in Nat, clock' <= clock + more,
         UNCHANGED <<attempts, starts, wrong, lost>>
  PROVE  GuessesCounted'
<1>1. Shape /\ GuessesCounted /\ clock \in Nat
  BY Bounds DEF DeviceInv, Shape
<1>2. /\ since' = Passed(since, more, MaxLockout)
      /\ tried' = IF \E t \in Start : At(t, "recording") THEN Passed(tried, more, MaxLockout)
                  ELSE tried
  BY DEF Gain
<1>3. since \in Nat /\ tried \in Nat /\ MaxLockout \in Nat
  BY <1>1, LockoutGrows DEF GuessesCounted
<1>4. since' \in Nat /\ since' \in {since + more, MaxLockout}
  BY <1>2, <1>3, PassedIs
<1>5. /\ Passed(tried, more, MaxLockout) \in Nat
      /\ Passed(tried, more, MaxLockout) \in {tried + more, MaxLockout}
  BY <1>3, PassedIs
<1>6. tried' \in Nat
  BY <1>2, <1>3, <1>5
<1>7. attempts.failures > 0 => since' >= MaxLockout \/ clock' - attempts.lastFailureAt <= since'
  <2>1. attempts.lastFailureAt \in Nat
    BY <1>1 DEF Shape, AttemptRecord
  <2>2. ASSUME attempts.failures > 0
        PROVE  since >= MaxLockout \/ clock - attempts.lastFailureAt <= since
    BY <1>1, <2>2 DEF GuessesCounted
  <2>3. QED
    BY <1>1, <1>3, <1>4, <2>1, <2>2
<1>8. ASSUME NEW t \in Start, At(t, "recording")
      PROVE  tried' >= MaxLockout \/ clock' - starts[t].record.lastFailureAt <= tried'
  <2>1. starts[t].record.lastFailureAt \in Nat
    BY <1>1 DEF Shape, StartRecord, FailureRecord
  <2>2. tried' \in {tried + more, MaxLockout}
    BY <1>2, <1>5, <1>8
  <2>3. tried >= MaxLockout \/ clock - starts[t].record.lastFailureAt <= tried
    BY <1>1, <1>8 DEF GuessesCounted
  <2>4. QED
    BY <1>1, <1>3, <2>1, <2>2, <2>3
<1>9. \A t \in Start : At(t, "recording")' <=> At(t, "recording")
  BY DEF At
<1>10. QED
  BY <1>1, <1>4, <1>6, <1>7, <1>8, <1>9 DEF GuessesCounted

LEMMA TickStep ==
  ASSUME DeviceInv, Tick
  PROVE  DeviceInv'
<1>1. Shape /\ AwayMeasured
  BY DEF DeviceInv
<1>2. /\ clock' = clock + 1 /\ clock \in Nat /\ clock' \in 0 .. MaxClock
      /\ Gain(1)
      /\ away' = IF app = "active" THEN away ELSE Passed(away, 1, Grace)
  BY <1>1, Bounds DEF Tick, Shape
<1>3. UNCHANGED <<keystore, rows, app, backgroundedAt, timer, turned, screen, current, starts,
                  dataKey, socket, tasks, wire, wrong, lost, swallowed, surprised>>
  BY DEF Tick
<1>4. Shape'
  BY <1>1, <1>2, <1>3 DEF Shape, keystore, screen, wire
<1>5. Alone' /\ KeysFound' /\ PartsInOrder' /\ OneKey'
  BY <1>3, RestStays DEF keystore
<1>6. AwayMeasured'
  <2>1. CASE app = "active"
    BY <1>1, <1>2, <1>3, <2>1 DEF AwayMeasured
  <2>2. CASE app # "active"
    <3>1. away \in Nat /\ Grace \in Nat
      BY <1>1, Bounds DEF AwayMeasured
    <3>2. away' \in Nat /\ away' <= away + 1
      BY <1>2, <2>2, <3>1, PassedIs
    <3>3. PICK at \in Nat : backgroundedAt = {at} /\ (~turned => at + away <= clock)
      BY <1>1, <2>2 DEF AwayMeasured
    <3>4. ~turned => at + away' <= clock'
      BY <1>2, <3>1, <3>2, <3>3
    <3>5. QED
      BY <1>1, <1>3, <2>2, <3>2, <3>3, <3>4 DEF AwayMeasured
  <2>3. QED
    BY <2>1, <2>2
<1>7. GuessesCounted'
  BY <1>2, <1>3, GuessesAge DEF keystore
<1>8. QED
  BY <1>4, <1>5, <1>6, <1>7 DEF DeviceInv

\* Forward, the moment on record is only longer ago; back, it is turned.
LEMMA SetClockStep ==
  ASSUME DeviceInv, SetClock
  PROVE  DeviceInv'
<1>1. Shape /\ AwayMeasured /\ clock \in Nat
  BY Bounds DEF DeviceInv, Shape
<1>2. PICK at \in 0 .. MaxClock \ {clock} :
        /\ clock' = at
        /\ turned' = (turned \/ (app # "active" /\ at < clock))
        /\ Gain(Max({0, at - clock}))
  BY DEF SetClock
<1>3. UNCHANGED <<keystore, rows, app, backgroundedAt, timer, away, screen, current, starts,
                  dataKey, socket, tasks, wire, wrong, lost, swallowed, surprised>>
  BY DEF SetClock
<1>4. at \in 0 .. MaxClock /\ at \in Nat
  BY Bounds
<1>5. Shape'
  BY <1>1, <1>2, <1>3, <1>4 DEF Shape, keystore, screen, wire
<1>6. Alone' /\ KeysFound' /\ PartsInOrder' /\ OneKey'
  BY <1>3, RestStays DEF keystore
<1>7. AwayMeasured'
  <2>1. turned' \in BOOLEAN /\ (~turned' => ~turned /\ (app = "active" \/ clock <= at))
    <3>1. turned' \in BOOLEAN /\ (~turned' => ~turned /\ (app = "active" \/ ~(at < clock)))
      BY <1>2
    <3>2. ~(at < clock) => clock <= at
      BY <1>1, <1>4
    <3>3. QED
      BY <3>1, <3>2
  <2>2. CASE app = "active"
    BY <1>1, <1>3, <2>1, <2>2 DEF AwayMeasured
  <2>3. CASE app # "active"
    <3>1. PICK left \in Nat : backgroundedAt = {left} /\ (~turned => left + away <= clock)
      BY <1>1, <2>3 DEF AwayMeasured
    <3>2. away \in Nat
      BY <1>1 DEF AwayMeasured
    <3>3. ~turned' => left + away <= clock'
      BY <1>1, <1>2, <1>4, <2>1, <2>3, <3>1, <3>2
    <3>4. QED
      BY <1>1, <1>3, <2>1, <2>3, <3>1, <3>3 DEF AwayMeasured
  <2>4. QED
    BY <2>2, <2>3
<1>8. GuessesCounted'
  <2> DEFINE more == Max({0, at - clock})
  <2>1. more \in Nat /\ at <= clock + more
    BY <1>1, <1>4 DEF Max
  <2>2. Gain(more) /\ clock' = at
    BY <1>2
  <2> HIDE DEF more
  <2>3. QED
    BY <1>3, <1>4, <2>1, <2>2, GuessesAge DEF keystore
<1>9. QED
  BY <1>5, <1>6, <1>7, <1>8 DEF DeviceInv

\* What was on record counts as lost.
LEMMA LoseAttemptsStep ==
  ASSUME DeviceInv, LoseAttempts
  PROVE  DeviceInv'
<1>1. Shape /\ GuessesCounted
  BY DEF DeviceInv
<1>2. /\ attempts' \in {NoEntry, UnreadableEntry} /\ lost' = wrong
      /\ \E t \in Start : At(t, "open")
      /\ UNCHANGED <<Elsewhere, wrapper, parts, rows, screen, current, starts, dataKey, socket,
                     tasks, since, tried, wrong>>
  BY DEF LoseAttempts
<1>3. /\ attempts' \in AttemptRecord /\ attempts'.failures = 0
  BY <1>2 DEF NoEntry, UnreadableEntry, Entry, EmptyAttemptState, AttemptState, AttemptRecord
<1>4. Shape'
  BY <1>1, <1>2, <1>3 DEF Shape, Elsewhere, lifecycle, screen, wire
<1>5. Alone' /\ KeysFound' /\ PartsInOrder' /\ OneKey'
  BY <1>2, RestStays DEF Elsewhere
<1>6. AwayMeasured'
  BY <1>2, AwayStays DEF DeviceInv, Elsewhere
<1>7. GuessesCounted'
  <2>1. wrong' \in Nat /\ wrong' = attempts'.failures + lost' /\ lost' \in Nat
    BY <1>1, <1>2, <1>3 DEF GuessesCounted
  <2>2. \A t \in Start : ~At(t, "recording")'
    <3>1. \A t \in Start : ~At(t, "recording")
      BY <1>2, OnlyStart DEF InFlight, At
    <3>2. QED
      BY <1>2, <3>1 DEF At, Elsewhere
  <2>3. QED
    BY <1>1, <1>2, <1>3, <2>1, <2>2 DEF GuessesCounted
<1>8. QED
  BY <1>4, <1>5, <1>6, <1>7 DEF DeviceInv

LEMMA RestartStep ==
  ASSUME DeviceInv, Restart
  PROVE  DeviceInv'
<1>1. Shape /\ KeysFound /\ OneKey /\ GuessesCounted
  BY DEF DeviceInv
<1>2. /\ starts' = [t \in Start |-> IF At(t, "unused") THEN Unused ELSE [Unused EXCEPT !.pc = "done"]]
      /\ lost' = lost + Cardinality({t \in Start : At(t, "recording")})
      /\ tried' = MaxLockout
      /\ dataKey' = [t \in Start |-> NoKey] /\ socket' = [t \in Start |-> NoSocket]
      /\ tasks' = {} /\ current' = 0 /\ busy' = FALSE
      /\ app' = "active" /\ backgroundedAt' = {} /\ timer' = FALSE /\ away' = 0 /\ turned' = FALSE
      /\ route' \in {"create", "unlock"}
      /\ UNCHANGED <<clock, keystore, rows, wire, since, wrong, swallowed, surprised>>
  BY DEF Restart
<1>3. /\ starts' \in [Start -> StartRecord]
      /\ \A t \in Start : starts'[t].pc \in {"unused", "done"} /\ starts'[t].failed = FALSE
  <2>1. /\ Unused \in StartRecord /\ [Unused EXCEPT !.pc = "done"] \in StartRecord
        /\ Unused.pc = "unused" /\ [Unused EXCEPT !.pc = "done"].pc = "done"
        /\ Unused.failed = FALSE /\ [Unused EXCEPT !.pc = "done"].failed = FALSE
    BY DEF Unused, StartRecord, FailureRecord, EmptyAttemptState, AttemptState, Place
  <2>2. \A t \in Start : starts'[t] \in {Unused, [Unused EXCEPT !.pc = "done"]}
    BY <1>2
  <2>3. QED
    BY <1>2, <2>1, <2>2
<1>4. socket' \in [Start -> SocketRecord] /\ \A t \in Start : socket'[t].state = "none"
  BY <1>2 DEF NoSocket, SocketRecord
<1>5. dataKey' \in [Start -> Key] /\ \A t \in Start : dataKey'[t] = NoKey
  BY <1>2, KeyNumbers
<1>6. Shape'
  BY <1>1, <1>2, <1>3, <1>4, <1>5 DEF Shape, keystore, wire
<1>7. Alone'
  BY <1>2, <1>3 DEF Alone, InFlight
<1>8. KeysFound'
  BY <1>2, <1>3, <1>5, KeyNumbers DEF KeysFound, InFlight, At
<1>9. PartsInOrder'
  BY <1>2, <1>3, PartsStay DEF DeviceInv, Part, keystore
<1>10. OneKey'
  <2>1. \A t \in Start : ~HasTask(t)' /\ t # current'
    BY <1>2, KeyNumbers DEF HasTask
  <2>2. \A t \in Start : starts'[t].pc \notin Online \cup {"resetting", "wrapping"}
    BY <1>3 DEF Online
  <2>3. QED
    BY <1>1, <1>2, <1>4, <2>1, <2>2 DEF OneKey, At, keystore
<1>11. AwayMeasured'
  BY <1>2 DEF AwayMeasured
<1>12. GuessesCounted'
  <2> DEFINE recording == {t \in Start : At(t, "recording")}
  <2>1. \A t \in Start : ~At(t, "recording")'
    BY <1>3 DEF At
  <2>2. wrong = attempts.failures + lost' /\ lost' \in Nat
    <3>1. attempts.failures \in Nat /\ lost \in Nat
      BY <1>1 DEF GuessesCounted, Shape, AttemptRecord
    <3>2. CASE recording = {}
      <4>1. Cardinality(recording) = 0
        BY <3>2, FS_EmptySet
      <4>2. wrong = attempts.failures + lost
        BY <1>1, <3>2 DEF GuessesCounted
      <4>3. QED
        BY <1>2, <3>1, <4>1, <4>2
    <3>3. CASE recording # {}
      <4>1. PICK t \in Start : At(t, "recording")
        BY <3>3
      <4>2. recording = {t}
        BY <4>1, OnlyStart DEF InFlight, At
      <4>3. Cardinality(recording) = 1
        BY <4>2, FS_Singleton
      <4>4. wrong = attempts.failures + lost + 1
        BY <1>1, <4>1 DEF GuessesCounted
      <4>5. QED
        BY <1>2, <3>1, <4>3, <4>4
    <3>4. QED
      BY <3>2, <3>3
  <2>3. QED
    BY <1>1, <1>2, <2>1, <2>2, LockoutGrows DEF GuessesCounted, keystore
<1>13. QED
  BY <1>6, <1>7, <1>8, <1>9, <1>10, <1>11, <1>12 DEF DeviceInv

-----------------------------------------------------------------------------
(* The socket, delivered messages, pairing.                                *)

LEMMA OthersStay ==
  ASSUME DeviceInv, UNCHANGED Others
  PROVE  PartsInOrder' /\ AwayMeasured' /\ GuessesCounted'
<1>1. UNCHANGED <<clock, keystore, lifecycle, mate, current, starts, dataKey, guesses, surprised>>
  BY DEF Others
<1>2. PartsInOrder'
  BY <1>1, PartsStay DEF DeviceInv, keystore
<1>3. AwayMeasured'
  BY <1>1, AwayStays DEF DeviceInv
<1>4. GuessesCounted'
  BY <1>1, GuessesStay DEF DeviceInv, At, keystore
<1>5. QED
  BY <1>2, <1>3, <1>4

\* A socket that is there goes from one state to another, or away.
LEMMA SocketMoves ==
  ASSUME DeviceInv, NEW t \in Start, socket[t].state # "none", NEW s \in SocketRecord,
         socket' = [socket EXCEPT ![t] = s],
         UNCHANGED <<Others, rows, screen, tasks, mail, swallowed>>
  PROVE  DeviceInv'
<1>1. PutSocket(t, s)
  BY SocketPut DEF DeviceInv
<1>2. Alone' /\ KeysFound'
  BY DEF DeviceInv, Alone, KeysFound, InFlight, At, Others, screen
<1>3. Shape'
  BY <1>1 DEF DeviceInv, Shape, PutSocket, Others, keystore, lifecycle, screen
<1>4. OneKey'
  BY <1>1, OneKeyStays DEF DeviceInv, PutSocket, Others, keystore, screen
<1>5. QED
  BY <1>2, <1>3, <1>4, OthersStay DEF DeviceInv

LEMMA PeerWritesStep ==
  ASSUME DeviceInv, NEW t \in Start, PeerWrites(t)
  PROVE  DeviceInv'
<1>1. /\ mail' = t /\ mate' = t
      /\ UNCHANGED <<clock, keystore, lifecycle, rows, screen, current, starts, dataKey, socket,
                     tasks, guesses, swallowed, surprised>>
  BY DEF PeerWrites
<1>2. t \in 0 .. MaxStarts
  BY Bounds DEF Start
<1>3. Shape'
  BY <1>1, <1>2 DEF DeviceInv, Shape, keystore, lifecycle, screen
<1>4. Alone' /\ KeysFound' /\ PartsInOrder' /\ OneKey'
  BY <1>1, RestStays DEF keystore
<1>5. AwayMeasured' /\ GuessesCounted'
  BY <1>1, AwayStays, GuessesStay DEF DeviceInv, At, keystore
<1>6. QED
  BY <1>3, <1>4, <1>5 DEF DeviceInv

LEMMA DropStep ==
  ASSUME DeviceInv, NEW t \in Start, Drop(t)
  PROVE  DeviceInv'
<1> DEFINE s == IF socket[t].closedByUs THEN NoSocket ELSE [socket[t] EXCEPT !.state = "waiting"]
<1>1. socket[t] \in SocketRecord /\ NoSocket \in SocketRecord
  BY DEF DeviceInv, Shape, NoSocket, SocketRecord
<1>2. s \in SocketRecord
  BY <1>1 DEF SocketRecord
<1>3. socket' = [socket EXCEPT ![t] = s] /\ socket[t].state # "none"
  BY DEF Drop
<1> HIDE DEF s
<1>4. QED
  BY <1>2, <1>3, SocketMoves DEF Drop

LEMMA ReopenStep ==
  ASSUME DeviceInv, NEW t \in Start, Reopen(t)
  PROVE  DeviceInv'
<1> DEFINE s == [socket[t] EXCEPT !.state = "open"]
<1>1. s \in SocketRecord
  BY DEF DeviceInv, Shape, SocketRecord
<1>2. socket' = [socket EXCEPT ![t] = s] /\ socket[t].state # "none"
  BY DEF Reopen
<1> HIDE DEF s
<1>3. QED
  BY <1>1, <1>2, SocketMoves DEF Reopen

\* The pairing tasks are those there were, and nothing moved but tasks, mail and swallowed.
LEMMA TasksMove ==
  ASSUME DeviceInv, UNCHANGED <<Others, rows, screen, socket>>,
         tasks' \subseteq [of : Start, step : TaskStep], swallowed' \in BOOLEAN,
         mail' \in 0 .. MaxStarts,
         \A s \in Start : Task(s, "pair") \in tasks' <=> Task(s, "pair") \in tasks,
         ~surprised => /\ ~swallowed'
                       /\ \A s \in Start : HasTask(s)' => dataKey[s] = wrapper /\ wrapper # NoKey
  PROVE  DeviceInv'
<1>1. Shape'
  BY DEF DeviceInv, Shape, Others, keystore, lifecycle, screen
<1>2. Alone'
  BY AloneStays DEF DeviceInv, InFlight, Others, screen
<1>3. KeysFound'
  BY DEF DeviceInv, KeysFound, InFlight, At, Others, screen
<1>4. OneKey'
  BY DEF DeviceInv, OneKey, At, Others, keystore, screen
<1>5. QED
  BY <1>1, <1>2, <1>3, <1>4, OthersStay DEF DeviceInv

\* A handler under way that no lock has surprised has the wrapper's key.
LEMMA TaskHasKey ==
  ASSUME DeviceInv, ~surprised, NEW s \in Start, HasTask(s)
  PROVE  dataKey[s] = wrapper /\ wrapper # NoKey
BY DEF DeviceInv, OneKey

LEMMA TaskTurns ==
  ASSUME DeviceInv, NEW t \in Start, NEW s \in Start, NEW from \in TaskStep, NEW to \in TaskStep,
         Task(t, from) \in tasks, HasTask(s)',
         tasks' \subseteq (tasks \ {Task(t, from)}) \cup {Task(t, to)}
  PROVE  HasTask(s)
<1>1. PICK step \in TaskStep : Task(s, step) \in tasks'
  BY DEF HasTask
<1>2. CASE Task(s, step) \in tasks
  BY <1>2 DEF HasTask
<1>3. CASE Task(s, step) = Task(t, to)
  BY <1>3, TaskFields DEF HasTask
<1>4. QED
  BY <1>1, <1>2, <1>3

LEMMA DeliverStep ==
  ASSUME DeviceInv, NEW t \in Start, Deliver(t)
  PROVE  DeviceInv'
<1>1. /\ socket[t].state = "open" /\ mail' = 0
      /\ tasks' = tasks \cup {Task(t, "remember")} \/ tasks' = tasks
      /\ UNCHANGED <<Others, rows, screen, socket, swallowed>>
  BY DEF Deliver
<1>2. Task(t, "remember") \in [of : Start, step : TaskStep]
  BY TaskTyped DEF TaskStep
<1>3. /\ tasks' \subseteq [of : Start, step : TaskStep] /\ swallowed' \in BOOLEAN
      /\ mail' \in 0 .. MaxStarts
  BY <1>1, <1>2, KeyNumbers DEF DeviceInv, Shape
<1>4. \A s \in Start : Task(s, "pair") \in tasks' <=> Task(s, "pair") \in tasks
  BY <1>1, TaskFields
<1>5. ASSUME ~surprised
      PROVE  /\ ~swallowed'
             /\ \A s \in Start : HasTask(s)' => dataKey[s] = wrapper /\ wrapper # NoKey
  <2>1. ~swallowed /\ dataKey[t] = wrapper /\ wrapper # NoKey
    BY <1>1, <1>5 DEF DeviceInv, OneKey
  <2>2. \A s \in Start : HasTask(s)' => HasTask(s) \/ s = t
    BY <1>1, TaskFields DEF HasTask
  <2>3. QED
    BY <1>1, <1>5, <2>1, <2>2, TaskHasKey
<1>6. QED
  BY <1>1, <1>3, <1>4, <1>5, TasksMove

LEMMA RememberStep ==
  ASSUME DeviceInv, NEW t \in Start, Remember(t)
  PROVE  DeviceInv'
<1>1. /\ Task(t, "remember") \in tasks /\ UNCHANGED <<Others, rows, screen, socket, mail>>
      /\ tasks' \subseteq (tasks \ {Task(t, "remember")}) \cup {Task(t, "store")}
      /\ tasks \ {Task(t, "remember")} \subseteq tasks'
      /\ \/ swallowed' = swallowed
         \/ /\ GetThrows(dataKey[t], rows.peer)
            /\ swallowed' = (swallowed \/ (socket[t].state = "open" /\ ~surprised))
  BY DEF Remember, Finish, Advance, Swallow
<1>2. /\ tasks' \subseteq [of : Start, step : TaskStep] /\ swallowed' \in BOOLEAN
      /\ mail' \in 0 .. MaxStarts
  <2>1. Task(t, "store") \in [of : Start, step : TaskStep]
    BY TaskTyped DEF TaskStep
  <2>2. swallowed' \in BOOLEAN
    BY <1>1 DEF DeviceInv, Shape
  <2>3. QED
    BY <1>1, <2>1, <2>2 DEF DeviceInv, Shape
<1>3. \A s \in Start : Task(s, "pair") \in tasks' <=> Task(s, "pair") \in tasks
  BY <1>1, TaskFields
<1>4. ASSUME ~surprised
      PROVE  /\ ~swallowed'
             /\ \A s \in Start : HasTask(s)' => dataKey[s] = wrapper /\ wrapper # NoKey
  <2>1. HasTask(t) /\ \A s \in Start : HasTask(s)' => HasTask(s)
    BY <1>1, TaskTurns DEF HasTask, TaskStep
  <2>2. dataKey[t] = wrapper /\ wrapper # NoKey
    BY <1>4, <2>1, TaskHasKey
  <2>3. ~swallowed /\ rows.peer \in {NoKey, wrapper}
    BY <1>4 DEF DeviceInv, OneKey
  <2>4. ~GetThrows(dataKey[t], rows.peer)
    BY <2>2, <2>3, WrapperReads DEF DeviceInv
  <2>5. QED
    BY <1>1, <1>4, <2>1, <2>3, <2>4, TaskHasKey
<1>5. QED
  BY <1>1, <1>2, <1>3, <1>4, TasksMove

LEMMA StoreStep ==
  ASSUME DeviceInv, NEW t \in Start, Store(t)
  PROVE  DeviceInv'
<1>1. Shape /\ OneKey
  BY DEF DeviceInv
<1>2. /\ Task(t, "store") \in tasks /\ tasks' = tasks \ {Task(t, "store")}
      /\ rows' = [rows EXCEPT !.messages = rows.messages \cup {dataKey[t]}]
      /\ UNCHANGED <<Others, screen, socket, mail, swallowed>>
  BY DEF Store, Finish, EncryptRecord
<1>3. /\ rows' \in [pairing : Key, peer : Key, messages : SUBSET Key]
      /\ rows'.pairing = rows.pairing /\ rows'.peer = rows.peer
      /\ rows'.messages = rows.messages \cup {dataKey[t]}
  BY <1>1, <1>2 DEF Shape
<1>4. Shape'
  BY <1>1, <1>2, <1>3 DEF Shape, Others, keystore, lifecycle, screen
<1>5. \A s \in Start : Task(s, "pair") \in tasks' <=> Task(s, "pair") \in tasks
  BY <1>2, TaskFields
<1>6. Alone'
  BY <1>2, <1>5, AloneStays DEF DeviceInv, InFlight, Others, screen
<1>7. KeysFound'
  BY <1>2 DEF DeviceInv, KeysFound, InFlight, At, Others, screen
<1>8. OneKey'
  <2>1. \A s \in Start : HasTask(s)' => HasTask(s)
    BY <1>2 DEF HasTask
  <2>2. ~surprised => dataKey[t] = wrapper
    BY <1>2, TaskHasKey DEF HasTask, TaskStep
  <2>3. QED
    BY <1>1, <1>2, <1>3, <2>1, <2>2 DEF OneKey, At, Others, keystore, screen
<1>9. QED
  BY <1>2, <1>4, <1>6, <1>7, <1>8, OthersStay DEF DeviceInv

LEMMA PairStep ==
  ASSUME DeviceInv, NEW t \in Start, Pair(t)
  PROVE  DeviceInv'
<1>1. Shape /\ Alone /\ OneKey
  BY DEF DeviceInv
<1>2. /\ route = "pair" /\ ~busy /\ t = current /\ busy' = TRUE /\ route' = route
      /\ rows' = [rows EXCEPT !.peer = dataKey[t]] /\ tasks' = tasks \cup {Task(t, "pair")}
      /\ UNCHANGED <<Others, socket, mail, swallowed>>
  BY DEF Pair, EncryptRecord
<1>3. /\ rows' \in [pairing : Key, peer : Key, messages : SUBSET Key]
      /\ rows'.pairing = rows.pairing /\ rows'.peer = dataKey[t]
      /\ rows'.messages = rows.messages
  BY <1>1, <1>2 DEF Shape
<1>4. \A s \in Start : ~InFlight(s) /\ Task(s, "pair") \notin tasks
  BY <1>1, <1>2 DEF Alone
<1>5. Task(t, "pair") \in [of : Start, step : TaskStep]
  BY TaskTyped DEF TaskStep
<1>6. Shape'
  BY <1>1, <1>2, <1>3, <1>5 DEF Shape, Others, keystore, lifecycle
<1>7. \A s \in Start : Task(s, "pair") \in tasks' <=> s = t
  BY <1>2, <1>4, TaskFields
<1>8. Alone'
  BY <1>2, <1>4, <1>7 DEF Alone, InFlight, Others
<1>9. KeysFound'
  BY <1>2 DEF DeviceInv, KeysFound, InFlight, At, Others
<1>10. OneKey'
  <2>1. \A s \in Start : HasTask(s)' => HasTask(s) \/ s = t
    BY <1>2, TaskFields DEF HasTask
  <2>2. current # 0
    BY <1>2, KeyNumbers
  <2>3. QED
    BY <1>1, <1>2, <1>3, <2>1, <2>2 DEF OneKey, At, Others, keystore
<1>11. QED
  BY <1>2, <1>6, <1>8, <1>9, <1>10, OthersStay DEF DeviceInv

LEMMA PairedStep ==
  ASSUME DeviceInv, NEW t \in Start, Paired(t)
  PROVE  DeviceInv'
<1>1. Shape /\ Alone /\ OneKey
  BY DEF DeviceInv
<1>2. /\ Task(t, "pair") \in tasks /\ tasks' = tasks \ {Task(t, "pair")}
      /\ rows' = [rows EXCEPT !.pairing = dataKey[t]]
      /\ route' = "main" /\ busy' = FALSE /\ UNCHANGED <<Others, socket, mail, swallowed>>
  BY DEF Paired, Finish, EncryptRecord
<1>3. /\ rows' \in [pairing : Key, peer : Key, messages : SUBSET Key]
      /\ rows'.pairing = dataKey[t] /\ rows'.peer = rows.peer
      /\ rows'.messages = rows.messages
  BY <1>1, <1>2 DEF Shape
<1>4. \A s \in Start : ~InFlight(s) /\ Task(s, "pair") \notin tasks'
  BY <1>1, <1>2 DEF Alone
<1>5. Shape'
  BY <1>1, <1>2, <1>3 DEF Shape, Others, keystore, lifecycle
<1>6. Alone'
  BY <1>2, <1>4 DEF Alone, InFlight, Others
<1>7. KeysFound'
  BY <1>2, <1>4 DEF DeviceInv, KeysFound, InFlight, At, Others
<1>8. OneKey'
  <2>1. \A s \in Start : HasTask(s)' => HasTask(s)
    BY <1>2 DEF HasTask
  <2>2. ~surprised => dataKey[t] = wrapper /\ current # 0
    BY <1>1, <1>2, TaskHasKey DEF HasTask, TaskStep, OneKey
  <2>3. QED
    BY <1>1, <1>2, <1>3, <1>4, <2>1, <2>2 DEF OneKey, At, Others, keystore
<1>9. QED
  BY <1>2, <1>5, <1>6, <1>7, <1>8, OthersStay DEF DeviceInv

-----------------------------------------------------------------------------
(* The invariant holds.                                                    *)

LEMMA InitHolds ==
  ASSUME Init
  PROVE  DeviceInv
<1>1. PICK has \in Installed :
        LET key == IF has = "nothing" THEN NoKey ELSE Earlier
            paired == IF has = "paired" THEN Earlier ELSE NoKey IN
        /\ wrapper = key /\ parts = [p \in Part |-> key]
        /\ rows = [pairing |-> paired, peer |-> paired, messages |-> {}]
        /\ attempts \in IF has = "nothing" THEN {NoEntry}
             ELSE {NoEntry, Entry(AttemptState(MaxFailures, 0))}
        /\ wrong = attempts.failures
        /\ since = IF wrong = 0 THEN MaxLockout ELSE 0
        /\ route = IF has = "nothing" THEN "create" ELSE "unlock"
  BY DEF Init
<1>2. /\ clock = 0 /\ app = "active" /\ backgroundedAt = {} /\ timer = FALSE /\ away = 0
      /\ turned = FALSE /\ busy = FALSE /\ current = 0 /\ starts = [t \in Start |-> Unused]
      /\ dataKey = [t \in Start |-> NoKey] /\ socket = [t \in Start |-> NoSocket] /\ tasks = {}
      /\ mate = 0 /\ mail = 0
      /\ tried = MaxLockout /\ lost = 0 /\ swallowed = FALSE /\ surprised = FALSE
  BY DEF Init
<1>3. /\ attempts \in AttemptRecord
      /\ attempts.reads # "stored" => attempts.failures = 0
      /\ attempts.lastFailureAt = 0
  <2>1. attempts \in {NoEntry, Entry(AttemptState(MaxFailures, 0))}
    BY <1>1
  <2>2. Entry(AttemptState(MaxFailures, 0))
          = [reads |-> "stored", failures |-> MaxFailures, lastFailureAt |-> 0]
    BY DEF Entry, AttemptState
  <2>3. NoEntry = [reads |-> "absent", failures |-> 0, lastFailureAt |-> 0]
    BY DEF NoEntry, Entry, EmptyAttemptState, AttemptState
  <2>4. QED
    BY <2>1, <2>2, <2>3, Bounds DEF AttemptRecord
<1>4. /\ wrapper \in {NoKey, Earlier} /\ parts = [p \in Part |-> wrapper]
      /\ rows \in [pairing : {NoKey, wrapper}, peer : {NoKey, wrapper}, messages : {{}}]
      /\ route \in {"create", "unlock"}
  <2>1. \/ wrapper = NoKey /\ rows = [pairing |-> NoKey, peer |-> NoKey, messages |-> {}]
        \/ wrapper = Earlier /\ \E paired \in {NoKey, Earlier} :
             rows = [pairing |-> paired, peer |-> paired, messages |-> {}]
    BY <1>1 DEF Installed
  <2>2. QED
    BY <1>1, <2>1
<1>5. starts \in [Start -> StartRecord] /\ \A t \in Start : starts[t].pc = "unused" /\ ~starts[t].failed
  BY <1>2 DEF Unused, StartRecord, FailureRecord, EmptyAttemptState, AttemptState, Place
<1>6. socket \in [Start -> SocketRecord] /\ \A t \in Start : socket[t].state = "none"
  BY <1>2 DEF NoSocket, SocketRecord
<1>7. Shape
  <2>1. {NoKey, wrapper} \subseteq Key /\ {NoKey, wrapper} \subseteq Key \ {Zero}
    BY <1>4, KeyNumbers
  <2>2. rows \in [pairing : Key, peer : Key, messages : SUBSET Key]
    BY <1>4, <2>1
  <2>3. parts \in [Part -> Key \ {Zero}] /\ dataKey \in [Start -> Key]
    BY <1>2, <1>4, <2>1
  <2>4. /\ wrapper \in Key \ {Zero} /\ clock \in 0 .. MaxClock
        /\ mate \in 0 .. MaxStarts /\ mail \in 0 .. MaxStarts
    BY <1>2, <2>1, Bounds
  <2>5. QED
    BY <1>2, <1>3, <1>5, <1>6, <2>2, <2>3, <2>4 DEF Shape
<1>8. Alone /\ KeysFound
  <2>1. \A t \in Start : ~InFlight(t) /\ Task(t, "pair") \notin tasks
    BY <1>2, <1>5 DEF InFlight
  <2>2. Alone
    BY <1>2, <2>1 DEF Alone
  <2>3. current \in 0 .. MaxStarts /\ \A t \in Start : dataKey[t] \notin DataKey
    BY <1>2, KeyNumbers
  <2>4. KeysFound
    BY <1>2, <1>5, <2>1, <2>3 DEF KeysFound
  <2>5. QED
    BY <2>2, <2>4
<1>9. PartsInOrder
  <2>1. \A p \in Part, q \in Part : parts[p] = parts[q]
    BY <1>4
  <2>2. QED
    BY <1>5, <2>1 DEF PartsInOrder, IdentityWhole, Whole, Part
<1>10. OneKey
  <2>1. \A t \in Start : ~HasTask(t) /\ t # current
    BY <1>2, KeyNumbers DEF HasTask
  <2>2. rows.pairing \in {NoKey, wrapper} /\ rows.peer \in {NoKey, wrapper} /\ rows.messages = {}
    BY <1>4
  <2>3. QED
    BY <1>2, <1>4, <1>5, <1>6, <2>1, <2>2 DEF OneKey, At, Online
<1>11. AwayMeasured
  BY <1>2 DEF AwayMeasured
<1>12. GuessesCounted
  <2>1. attempts.failures \in Nat /\ wrong = attempts.failures + lost
    BY <1>1, <1>2, <1>3 DEF AttemptRecord
  <2>2. since \in Nat /\ tried \in Nat /\ lost \in Nat /\ wrong \in Nat
    BY <1>1, <1>2, <2>1, LockoutGrows
  <2>3. clock - attempts.lastFailureAt <= since
    BY <1>2, <1>3, <2>2
  <2>4. \A t \in Start : ~At(t, "recording")
    BY <1>5 DEF At
  <2>5. QED
    BY <1>3, <2>1, <2>2, <2>3, <2>4 DEF GuessesCounted
<1>13. QED
  BY <1>7, <1>8, <1>9, <1>10, <1>11, <1>12 DEF DeviceInv

LEMMA TryStep ==
  ASSUME DeviceInv, NEW t \in Start, Try(t)
  PROVE  DeviceInv'
<1>1. /\ At(t, "open") /\ wrapper # NoKey
      /\ canAttempt(parseAttemptState(attempts, clock), clock)
      /\ UNCHANGED <<Elsewhere, keystore, rows, screen, current, socket, tasks, since, lost>>
  BY DEF Try
<1>2. CASE \E key \in UnlockVault(starts[t].right, wrapper) :
             /\ dataKey' = [dataKey EXCEPT ![t] = key]
             /\ Goto(t, "resetting") /\ UNCHANGED <<wrong, tried>>
  BY <1>1, <1>2, TryRightStep DEF guesses
<1>3. CASE /\ starts' = [starts EXCEPT ![t].pc = "recording",
                         ![t].record = recordFailure(parseAttemptState(attempts, clock), clock)]
           /\ wrong' = wrong + 1 /\ tried' = 0 /\ UNCHANGED dataKey
  BY <1>1, <1>3, TryWrongStep
<1>4. QED
  BY <1>2, <1>3 DEF Try

LEMMA NextHolds ==
  ASSUME DeviceInv, [Next]_vars
  PROVE  DeviceInv'
<1>1. ASSUME NEW right \in BOOLEAN, Submit(right)
      PROVE  DeviceInv'
  BY <1>1, SubmitStep
<1>2. ASSUME NEW t \in Start,
             Refuse(t) \/ Try(t) \/ Record(t) \/ RecordFails(t) \/ Reset(t) \/ Create(t) \/ Wrap(t)
      PROVE  DeviceInv'
  BY <1>2, RefuseStep, TryStep, RecordStep, RecordFailsStep, ResetStep, CreateStep, WrapStep
<1>3. ASSUME NEW t \in Start,
             Initialise(t) \/ (\E p \in Part : StorePart(t, p)) \/ Connect(t)
             \/ Sync(t) \/ GoOnline(t) \/ Fails(t)
      PROVE  DeviceInv'
  BY <1>3, InitialiseStep, StorePartStep, ConnectStep, SyncStep, GoOnlineStep, FailsStep
<1>4. ASSUME NEW t \in Start,
             \/ Drop(t) \/ Reopen(t) \/ PeerWrites(t) \/ Deliver(t) \/ Remember(t) \/ Store(t)
             \/ Pair(t) \/ Paired(t)
      PROVE  DeviceInv'
  BY <1>4, DropStep, ReopenStep, PeerWritesStep, DeliverStep, RememberStep, StoreStep, PairStep, PairedStep
<1>5. ASSUME NEW state, Leave(state)
      PROVE  DeviceInv'
  BY <1>5, LeaveStep
<1>6. CASE Resume \/ TimerFires
  BY <1>6, ResumeStep, TimerFiresStep
<1>7. CASE Tick \/ SetClock \/ LoseAttempts \/ Restart
  BY <1>7, TickStep, SetClockStep, LoseAttemptsStep, RestartStep
<1>8. CASE UNCHANGED vars
  <2>1. /\ AwayMeasured' /\ UNCHANGED <<keystore, screen, lifecycle>>
        /\ UNCHANGED <<clock, rows, starts, tasks, wire, guesses, swallowed, socket, dataKey, current,
                       surprised>>
    BY <1>8, AwayStays DEF vars, DeviceInv
  <2>2. app' \in {"active", "inactive", "background"}
    BY <2>1 DEF DeviceInv, Shape, lifecycle
  <2>3. QED
    BY <2>1, <2>2, LifecycleStep
<1>9. QED
  BY <1>1, <1>2, <1>3, <1>4, <1>5, <1>6, <1>7, <1>8 DEF Next

THEOREM AlwaysDeviceInv == Spec => []DeviceInv
<1>1. Init => DeviceInv
  BY InitHolds
<1>2. DeviceInv /\ [Next]_vars => DeviceInv'
  BY NextHolds
<1>3. QED
  BY <1>1, <1>2, PTL DEF Spec

-----------------------------------------------------------------------------
(* How a start moves, and what that says of keys and guesses.              *)

\* Only a passphrase the counter let be tried is recorded, and only a start
\* that has its key comes online.
Moves(t) ==
  /\ starts'[t].pc = "recording" =>
       At(t, "recording") \/ canAttempt(parseAttemptState(attempts, clock), clock)
  /\ starts'[t].pc \in Online => starts[t].pc \in Online \cup {"resetting", "wrapping"}

LEMMA PutsMoves ==
  ASSUME NEW s \in Start, NEW pc, NEW failed, Puts(s, pc, failed), pc # "recording",
         pc \in Online => starts[s].pc \in Online \cup {"resetting", "wrapping"}
  PROVE  \A t \in Start : Moves(t)
BY DEF Puts, Moves, At

LEMMA AnyMoves ==
  ASSUME DeviceInv, [Next]_vars
  PROVE  \A t \in Start : Moves(t)
<1>0. Shape
  BY DEF DeviceInv
<1>1. ASSUME NEW right \in BOOLEAN, Submit(right)
      PROVE  \A t \in Start : Moves(t)
  <2>1. PICK s \in Start : starts' = [starts EXCEPT ![s] = [@ EXCEPT !.pc = "open", !.right = right]]
    BY <1>1 DEF Submit
  <2> DEFINE r == [starts[s] EXCEPT !.pc = "open", !.right = right]
  <2>2. r \in StartRecord /\ r.pc = "open"
    BY <1>0 DEF Shape, StartRecord, Place
  <2>3. starts' = [starts EXCEPT ![s] = r]
    BY <2>1
  <2> HIDE DEF r
  <2>4. Puts(s, "open", r.failed)
    BY <1>0, <2>2, <2>3, StartPut
  <2>5. QED
    BY <2>4, PutsMoves DEF Online
<1>2. ASSUME NEW s \in Start, Refuse(s) \/ Record(s) \/ GoOnline(s)
      PROVE  \A t \in Start : Moves(t)
  <2>1. Return(s)
    BY <1>2 DEF Refuse, Record, GoOnline
  <2>2. QED
    BY <1>0, <2>1, ReturnPut, PutsMoves DEF Online
<1>3. ASSUME NEW s \in Start, RecordFails(s) \/ Fails(s)
      PROVE  \A t \in Start : Moves(t)
  <2>1. Throw(s)
    BY <1>3 DEF RecordFails, Fails
  <2>2. QED
    BY <1>0, <2>1, ThrowPut, PutsMoves DEF Online
<1>4. ASSUME NEW s \in Start, Try(s)
      PROVE  \A t \in Start : Moves(t)
  <2>1. canAttempt(parseAttemptState(attempts, clock), clock)
    BY <1>4 DEF Try
  <2>2. CASE Goto(s, "resetting")
    BY <1>0, <2>2, GotoPut, PutsMoves DEF Place, Online
  <2>3. CASE starts' = [starts EXCEPT ![s].pc = "recording",
                          ![s].record = recordFailure(parseAttemptState(attempts, clock), clock)]
    <3> DEFINE state  == parseAttemptState(attempts, clock)
               record == recordFailure(state, clock)
               r      == [starts[s] EXCEPT !.pc = "recording", !.record = record]
    <3>0. record \in FailureRecord
      <4>1. clock \in Nat /\ GuessesCounted /\ attempts.reads # "unreadable"
        BY <2>1, UnreadableRefuses, Bounds DEF DeviceInv, Shape
      <4>2. state.failures \in Nat
        BY <4>1, ReadsAsHeld DEF DeviceInv
      <4> HIDE DEF state
      <4>3. record = [failures |-> state.failures + 1, lastFailureAt |-> clock]
        BY DEF recordFailure, AttemptState
      <4>4. QED
        BY <4>1, <4>2, <4>3 DEF FailureRecord
    <3> HIDE DEF record, state
    <3>1. r \in StartRecord /\ r.pc = "recording"
      <4>1. starts[s] \in StartRecord
        BY DEF DeviceInv, Shape
      <4>2. QED
        BY <3>0, <4>1 DEF StartRecord, Place
    <3>2. starts' = [starts EXCEPT ![s] = r]
      BY <2>3 DEF r, record, state
    <3> HIDE DEF r
    <3>3. Puts(s, "recording", r.failed)
      BY <1>0, <3>1, <3>2, StartPut
    <3>4. QED
      BY <2>1, <3>3 DEF Puts, Moves, Online
  <2>4. QED
    BY <1>4, <2>2, <2>3 DEF Try
<1>5. ASSUME NEW s \in Start, Create(s)
      PROVE  \A t \in Start : Moves(t)
  <2>1. Goto(s, "wrapping")
    BY <1>5 DEF Create
  <2>2. QED
    BY <1>0, <2>1, GotoPut, PutsMoves DEF Place, Online
<1>6. ASSUME NEW s \in Start, Reset(s) \/ Wrap(s)
      PROVE  \A t \in Start : Moves(t)
  <2>1. Goto(s, "initialise") /\ starts[s].pc \in {"resetting", "wrapping"}
    BY <1>6 DEF Reset, Wrap, Refer, At
  <2>2. QED
    BY <1>0, <2>1, GotoPut, PutsMoves DEF Place, Online
<1>7. ASSUME NEW s \in Start,
             Initialise(s) \/ (\E p \in Part : StorePart(s, p)) \/ Connect(s)
      PROVE  \A t \in Start : Moves(t)
  <2>1. starts[s].pc \in Online
    BY <1>7 DEF Initialise, StorePart, Connect, At, Online, Part
  <2>2. PICK pc \in Online : Goto(s, pc)
    BY <1>7 DEF Initialise, StorePart, Connect, AfterPart, Online, Part
  <2>3. QED
    BY <1>0, <2>1, <2>2, GotoPut, PutsMoves DEF Place, Online
<1>8. CASE Restart
  <2>1. \A t \in Start : starts'[t].pc \in {"unused", "done"}
    BY <1>8 DEF Restart, Unused
  <2>2. QED
    BY <2>1 DEF Moves, Online
<1>9. CASE starts' = starts
  BY <1>9 DEF Moves, At, Online
<1>10. ASSUME NEW s \in Start,
              \/ Drop(s) \/ Reopen(s) \/ Sync(s) \/ PeerWrites(s) \/ Deliver(s)
              \/ Remember(s) \/ Store(s) \/ Pair(s) \/ Paired(s)
       PROVE  starts' = starts
  BY <1>10 DEF Drop, Reopen, Sync, PeerWrites, Deliver, Remember, Store, Pair, Paired, Others
<1>11. ASSUME NEW state, Leave(state)
       PROVE  starts' = starts
  BY <1>11 DEF Leave
<1>12. ASSUME Resume \/ TimerFires \/ Tick \/ SetClock \/ LoseAttempts \/ UNCHANGED vars
       PROVE  starts' = starts
  BY <1>12 DEF Resume, TimerFires, Tick, SetClock, LoseAttempts, vars
<1>13. QED
  BY <1>1, <1>2, <1>3, <1>4, <1>5, <1>6, <1>7, <1>8, <1>9, <1>10, <1>11, <1>12 DEF Next

\* Whoever may come to write has a key, its own or the zeros a lock left.
Keyed ==
  /\ NoKey \notin rows.messages
  /\ \A t \in Start : starts[t].pc \in Online \/ socket[t].state # "none" \/ HasTask(t) =>
       dataKey[t] # NoKey

LEMMA KeyedStep ==
  ASSUME DeviceInv, Keyed, [Next]_vars
  PROVE  Keyed'
<1>1. Shape /\ KeysFound
  BY DEF DeviceInv
<1>2. \A t \in Start : starts[t].pc \in Online \cup {"resetting", "wrapping"} => dataKey[t] # NoKey
  BY <1>1, KeyNumbers DEF Keyed, KeysFound
<1>3. \A t \in Start : starts'[t].pc \in Online => dataKey[t] # NoKey
  BY <1>1, <1>2, AnyMoves DEF Moves
<1>4. ASSUME rows'.messages = rows.messages, \A t \in Start : dataKey[t] # NoKey => dataKey'[t] # NoKey,
             \A t \in Start : socket'[t].state # "none" => dataKey[t] # NoKey,
             \A t \in Start : HasTask(t)' => dataKey[t] # NoKey
      PROVE  Keyed'
  BY <1>3, <1>4 DEF Keyed
<1>5. (tasks' \subseteq tasks) => \A t \in Start : HasTask(t)' => dataKey[t] # NoKey
  BY DEF HasTask, Keyed
<1>6. ASSUME UNCHANGED <<rows, dataKey, socket, tasks>>
      PROVE  Keyed'
  BY <1>4, <1>5, <1>6 DEF Keyed
<1>7. ASSUME NEW right \in BOOLEAN, Submit(right)
      PROVE  Keyed'
  BY <1>6, <1>7 DEF Submit
<1>8. ASSUME NEW t \in Start,
             \/ Refuse(t) \/ Record(t) \/ RecordFails(t) \/ Reset(t) \/ Wrap(t) \/ Fails(t)
             \/ Initialise(t) \/ (\E p \in Part : StorePart(t, p)) \/ GoOnline(t)
             \/ PeerWrites(t)
      PROVE  Keyed'
  BY <1>6, <1>8
  DEF Refuse, Record, RecordFails, Reset, Wrap, Fails, Initialise, StorePart, GoOnline, PeerWrites
<1>9. ASSUME NEW t \in Start, Try(t) \/ Create(t)
      PROVE  Keyed'
  <2>1. UNCHANGED <<rows, socket, tasks>>
    BY <1>9 DEF Try, Create
  <2>2. PICK key \in Key \ {NoKey} : dataKey' \in {dataKey, [dataKey EXCEPT ![t] = key]}
    BY <1>1, <1>9, KeyNumbers DEF Try, Create, CreateVault, UnlockVault, Shape
  <2>3. \A s \in Start : dataKey[s] # NoKey => dataKey'[s] # NoKey
    BY <1>1, <2>2 DEF Shape
  <2>4. QED
    BY <1>4, <1>5, <2>1, <2>3 DEF Keyed
<1>10. ASSUME NEW t \in Start, Connect(t) \/ Drop(t) \/ Reopen(t)
       PROVE  Keyed'
  <2>1. UNCHANGED <<rows, dataKey, tasks>> /\ dataKey[t] # NoKey
    BY <1>2, <1>10 DEF Connect, Drop, Reopen, Others, Keyed, At, Online
  <2>2. \A s \in Start : s # t => socket'[s] = socket[s]
    BY <1>1, <1>10 DEF Connect, Drop, Reopen, Shape
  <2>3. QED
    BY <1>4, <1>5, <2>1, <2>2 DEF Keyed
<1>11. ASSUME NEW t \in Start, Deliver(t) \/ Remember(t) \/ Pair(t)
       PROVE  Keyed'
  <2>1. UNCHANGED <<dataKey, socket>> /\ rows'.messages = rows.messages
    BY <1>1, <1>11 DEF Deliver, Remember, Pair, Others, Shape
  <2>2. dataKey[t] # NoKey
    BY <1>1, <1>11, KeyNumbers DEF Deliver, Remember, Pair, Keyed, HasTask, TaskStep, KeysFound
  <2>3. PICK step \in TaskStep : tasks' \subseteq tasks \cup {Task(t, step)}
    BY <1>11 DEF Deliver, Remember, Pair, Advance, Finish, TaskStep
  <2>4. \A s \in Start : HasTask(s)' => HasTask(s) \/ s = t
    BY <2>3, TaskFields DEF HasTask
  <2>5. QED
    BY <1>4, <2>1, <2>2, <2>4 DEF Keyed
<1>12. ASSUME NEW t \in Start, Sync(t) \/ Store(t) \/ Paired(t)
       PROVE  Keyed'
  <2>1. UNCHANGED <<dataKey, socket>> /\ tasks' \subseteq tasks /\ dataKey[t] # NoKey
    BY <1>12 DEF Sync, Store, Paired, Others, Finish, Keyed, HasTask, TaskStep, At, Online
  <2>2. rows'.messages \subseteq rows.messages \cup {dataKey[t]}
    BY <1>1, <1>12 DEF Sync, Store, Paired, EncryptRecord, Shape
  <2>3. QED
    BY <1>3, <1>5, <2>1, <2>2 DEF Keyed
<1>13. CASE Lock /\ UNCHANGED <<rows, tasks>>
  <2>1. /\ \A t \in Start : dataKey[t] # NoKey => dataKey'[t] # NoKey
        /\ \A t \in Start : socket'[t].state # "none" => socket[t].state # "none"
    BY <1>1, <1>13, LockShape
  <2>2. QED
    BY <1>4, <1>5, <1>13, <2>1 DEF Keyed
<1>14. ASSUME NEW state, Leave(state)
       PROVE  Keyed'
  BY <1>6, <1>14 DEF Leave
<1>15. CASE Resume \/ TimerFires \/ Tick \/ SetClock \/ LoseAttempts \/ UNCHANGED vars
  BY <1>6, <1>13, <1>15 DEF Resume, TimerFires, Tick, SetClock, LoseAttempts, vars
<1>16. CASE Restart
  <2>1. /\ rows' = rows /\ tasks' = {} /\ \A t \in Start : socket'[t].state = "none"
        /\ \A t \in Start : starts'[t].pc \in {"unused", "done"}
    BY <1>16 DEF Restart, NoSocket, Unused
  <2>2. QED
    BY <2>1 DEF Keyed, HasTask, Online
<1>17. QED
  BY <1>7, <1>8, <1>9, <1>10, <1>11, <1>12, <1>14, <1>15, <1>16 DEF Next

LEMMA AlwaysKeyed == Spec => []Keyed
<1>1. Init => Keyed
  <2>1. Init => /\ rows.messages = {} /\ tasks = {} /\ \A t \in Start : socket[t].state = "none"
                /\ \A t \in Start : starts[t].pc = "unused"
    BY DEF Init, NoSocket, Unused
  <2>2. QED
    BY <2>1 DEF Keyed, HasTask, Online
<1>2. DeviceInv /\ Keyed /\ [Next]_vars => Keyed'
  BY KeyedStep
<1>3. QED
  BY <1>1, <1>2, AlwaysDeviceInv, PTL DEF Spec

-----------------------------------------------------------------------------
(* The properties.                                                         *)

\* At most one start, or the pairing in its place, is in the set TypeOK counts.
LEMMA OneUnderWay ==
  ASSUME DeviceInv
  PROVE  Cardinality({t \in Start : InFlight(t)}
                       \cup {k.of : k \in {k \in tasks : k.step = "pair"}}) <= 1
<1> DEFINE S == {t \in Start : InFlight(t)} \cup {k.of : k \in {k \in tasks : k.step = "pair"}}
<1>1. \A t \in S : t \in Start /\ (InFlight(t) \/ Task(t, "pair") \in tasks)
  <2>1. \A k \in tasks : k.step = "pair" => k.of \in Start /\ Task(k.of, "pair") \in tasks
    BY TaskIs DEF DeviceInv
  <2>2. QED
    BY <2>1
<1>2. \A s, t \in S : s = t
  BY <1>1 DEF DeviceInv, Alone
<1> HIDE DEF S
<1>3. CASE S = {}
  <2>1. Cardinality(S) = 0
    BY <1>3, FS_EmptySet
  <2>2. QED
    BY <2>1 DEF S
<1>4. CASE S # {}
  <2>1. PICK t \in S : S = {t}
    BY <1>2, <1>4
  <2>2. Cardinality(S) = 1
    BY <2>1, FS_Singleton
  <2>3. QED
    BY <2>2 DEF S
<1>5. QED
  BY <1>3, <1>4

\* Every variable keeps to its values; the refs name a vault that was made;
\* one start or pairing at a time is under way, for busy disables the screens
\* (App.tsx:162, 299).
THEOREM DeviceTypes == Spec => []TypeOK
<1>1. ASSUME DeviceInv, Keyed
      PROVE  TypeOK
  <2>1. Shape /\ Alone /\ KeysFound /\ AwayMeasured
    BY <1>1 DEF DeviceInv
  <2>2. /\ clock \in 0 .. MaxClock /\ wrapper \in Key \ {Zero}
        /\ parts \in [Part -> Key \ {Zero}] /\ dataKey \in [Start -> Key]
        /\ app \in {"active", "inactive", "background"}
    BY <2>1 DEF Shape
  <2>3. attempts.reads \in {"absent", "unreadable", "stored"}
    BY <2>1 DEF Shape, AttemptRecord
  <2>4. rows \in [pairing : Key, peer : Key, messages : SUBSET (Key \ {NoKey})]
    <3>1. rows.messages \subseteq Key \ {NoKey}
      BY <1>1, <2>1 DEF Shape, Keyed
    <3>2. QED
      BY <2>1, <3>1 DEF Shape
  <2>5. (app = "active") = (backgroundedAt = {})
    <3>1. (app = "active") <=> (backgroundedAt = {})
      BY <2>1 DEF AwayMeasured
    <3>2. QED
      BY <3>1
  <2>6. current \in 0 .. MaxStarts /\ (current # 0 => dataKey[current] \in DataKey)
    BY <2>1 DEF KeysFound
  <2>7. \A t \in Start : socket[t].state \in {"none", "open", "waiting"}
    BY <2>1 DEF Shape, SocketRecord
  <2>8. busy = ((\E t \in Start : InFlight(t)) \/ \E t \in Start : Task(t, "pair") \in tasks)
    BY <2>1 DEF Alone
  <2>9. {mate, mail} \subseteq 0 .. MaxStarts
    BY <2>1 DEF Shape
  <2>10. QED
    BY <1>1, <2>2, <2>3, <2>4, <2>5, <2>6, <2>7, <2>8, <2>9, OneUnderWay DEF TypeOK
<1>2. QED
  BY <1>1, AlwaysDeviceInv, AlwaysKeyed, PTL

\* Crashes and failures between the three keystore writes never make a whole
\* of two identities (messenger.ts:167-194): the binding is written last.
THEOREM IdentityAlwaysWhole == Spec => []IdentityWhole
<1>1. DeviceInv => IdentityWhole
  <2>1. Whole => parts["binding"] # 0
    BY DEF Whole, Part
  <2>2. QED
    BY <2>1 DEF DeviceInv, PartsInOrder, IdentityWhole
<1>2. QED
  BY <1>1, AlwaysDeviceInv, PTL

\* A data key in memory is one lock() finds through vaultRef, one of a start
\* under way, or one a failed start left (App.tsx:209, 296-300).
THEOREM KeysAreAlwaysLocked == Spec => []KeysAreLocked
<1>1. DeviceInv => KeysAreLocked
  BY DEF DeviceInv, KeysFound, KeysAreLocked, InFlight
<1>2. QED
  BY <1>1, AlwaysDeviceInv, PTL

\* After a lock that interrupts nothing every row opens under the wrapper's key,
\* no message that opened is acknowledged without being in one, no messenger of a
\* wiped vault is connected and no screen shows without its vault
\* (App.tsx:344-363, messenger.ts:541-560).
THEOREM LockIsAlwaysOrderly == Spec => []LockIsOrderly
<1>1. DeviceInv => LockIsOrderly
  <2>1. DeviceInv => wrapper # Zero
    BY DEF DeviceInv, Shape
  <2>2. QED
    BY <2>1 DEF DeviceInv, OneKey, LockIsOrderly
<1>2. QED
  BY <1>1, AlwaysDeviceInv, PTL

\* Coming back after the grace period locks though the timer never ran, unless
\* the clock was turned back (screenSecurity.ts:86-90).
THEOREM LockAlwaysComesDue == Spec => LockComesDue
<1>1. ASSUME DeviceInv, Resume, away >= Grace, ~turned, NEW t \in Start, dataKey'[t] \in DataKey
      PROVE  InFlight(t) \/ starts[t].failed
  <2>1. Shape /\ KeysFound /\ AwayMeasured /\ clock \in Nat /\ Grace \in Nat
    BY <1>1, Bounds DEF DeviceInv, Shape
  <2>2. PICK at \in Nat : backgroundedAt = {at} /\ at + away <= clock
    BY <1>1, <2>1 DEF Resume, AwayMeasured
  <2>3. away \in Nat
    BY <2>1 DEF AwayMeasured
  <2>4. clock - at >= Grace
    BY <1>1, <2>1, <2>2, <2>3
  <2>5. shouldLock(backgroundedAt)
    BY <2>2, <2>4 DEF shouldLock
  <2>6. Lock
    BY <1>1, <2>5 DEF Resume
  <2>7. t # current /\ dataKey[t] \in DataKey
    BY <1>1, <2>1, <2>6, LockShape
  <2>8. QED
    BY <2>1, <2>7 DEF KeysFound, InFlight
<1>2. DeviceInv /\ [Next]_vars
        => [Resume /\ away >= Grace /\ ~turned =>
              \A t \in Start : dataKey'[t] \in DataKey => InFlight(t) \/ starts[t].failed]_vars
  BY <1>1
<1>3. QED
  BY <1>2, AlwaysDeviceInv, PTL DEF Spec, LockComesDue

\* A passphrase found wrong was tried no sooner after the last recorded one
\* than the policy says, in real time less what the clock was set forward by:
\* neither setting it back nor ending the process gains anything, and a record
\* that is lost takes only its own failures along
\* (App.tsx:174-199, unlockPolicy.ts:69-101).
THEOREM GuessesAlwaysCostTime == Spec => GuessesCostTime
<1>1. ASSUME DeviceInv, [Next]_vars, NEW t \in Start, At(t, "open"), starts'[t].pc = "recording"
      PROVE  since >= Lockout(wrong - lost)
  <2>1. Shape /\ ~At(t, "recording")
    BY <1>1 DEF DeviceInv, At
  <2>2. canAttempt(parseAttemptState(attempts, clock), clock)
    BY <1>1, <2>1, AnyMoves DEF Moves
  <2>3. QED
    BY <1>1, <2>2, GuessWaited
<1>2. DeviceInv /\ [Next]_vars
        => [\A t \in Start :
              At(t, "open") /\ starts'[t].pc = "recording" => since >= Lockout(wrong - lost)]_vars
  BY <1>1
<1>3. QED
  BY <1>2, AlwaysDeviceInv, PTL DEF Spec, GuessesCostTime
===============================================================================
