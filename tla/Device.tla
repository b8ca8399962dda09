-------------------------------- MODULE Device --------------------------------
(***************************************************************************)
(* The application shell of one phone: App.tsx's start and lock, with the  *)
(* vault, the unlock policy, the keystore, lifecycle lock and socket they  *)
(* use, and of the messenger what touches them: the identity it makes and  *)
(* the rows it writes.                                                     *)
(*                                                                         *)
(* JavaScript runs one step at a time, from one await to the next, so a    *)
(* lock, which is synchronous, falls between two steps of everything else. *)
(* The relay is reached or not: its own behaviour is in Relay.             *)
(***************************************************************************)
EXTENDS UnlockPolicy, Vault

CONSTANTS
  Grace,      \* BACKGROUND_LOCK_GRACE_MS
  MaxClock,   \* bound: the wall clock
  MaxStarts,  \* bound: calls of start, over all lives of the process
  MaxFailures, \* bound: failures on record at first
  MaxMail,    \* bound: messages that wait at the relay
  Losses      \* bound: what the attempts' entry may turn into

ASSUME Bounds ==
  /\ Grace \in Nat \ {0} /\ MaxClock \in Nat /\ MaxFailures \in Nat
  /\ MaxStarts \in 1 .. (Zero - 2) /\ MaxMail \in {0, 1}

VARIABLES
  clock,        \* Date.now()
  wrapper,      \* keystore: VAULT_KEY
  attempts,     \* keystore: ATTEMPTS_KEY
  parts,        \* keystore: the three identity entries, by the start that drew them
  rows,         \* database: the key each row, or set of rows, is sealed under
  app,          \* AppState
  backgroundedAt, \* of startLifecycleLock; a set of at most one
  timer,        \* its timeout is pending
  route, busy,  \* React state
  current,      \* the start whose vault, messenger and socket the refs hold; 0 none
  starts,       \* calls of start: where each is
  dataKey,      \* the Vault object each made
  socket,       \* the WebSocketTransport each made
  tasks,        \* asynchronous handlers under way
  mate,         \* peer: the start whose messenger its session is with; 0 none
  mail,         \* relay: the start to whose session what waits is sealed; 0 nothing
  since,        \* history: what has passed since the last recorded failure, to
                \*   MaxLockout: real time, and what the clock was set forward by
  tried,        \* history: the same, since a wrong passphrase not yet recorded
  away,         \* history: real time since the app was last active, to Grace
  turned,       \* history: the clock was set back since then
  wrong,        \* history: wrong passphrases since the last recorded success
  lost,         \* history: those of them whose record was not written, or was lost
  swallowed,    \* history: a message was acknowledged that opened and is in no row
  surprised     \* history: a lock came while something was under way

keystore == <<wrapper, attempts, parts>>
lifecycle == <<app, backgroundedAt, timer, away, turned>>
screen == <<route, busy>>
guesses == <<since, tried, wrong, lost>>
wire == <<mate, mail>>
vars == <<clock, keystore, rows, lifecycle, screen, current, starts, dataKey, socket,
          tasks, wire, guesses, swallowed, surprised>>

Start == 1 .. MaxStarts
Part  == {"signing", "exchange", "binding"}

\* A call of start holds, over an await, the failure that it will put on record.
Unused == [pc |-> "unused", right |-> FALSE, record |-> EmptyAttemptState, failed |-> FALSE]
NoSocket == [state |-> "none", closedByUs |-> FALSE]

InFlight(t) == starts[t].pc \notin {"unused", "done"}
At(t, pc)   == starts[t].pc = pc

\* The vault, identity and pairing of an earlier life of the installation.
Earlier == Zero - 1

Installed == {"nothing", "unpaired", "paired"}

\* A fresh installation, or one that has been used, with some wrong
\* passphrases on record.
Init ==
  /\ clock = 0
  /\ \E has \in Installed :
       LET key == IF has = "nothing" THEN NoKey ELSE Earlier
           paired == IF has = "paired" THEN Earlier ELSE NoKey IN
       /\ wrapper = key /\ parts = [p \in Part |-> key]
       /\ rows = [pairing |-> paired, peer |-> paired, messages |-> {}]
       /\ attempts \in IF has = "nothing" THEN {NoEntry}
            ELSE {NoEntry, Entry(AttemptState(MaxFailures, 0))}
       /\ wrong = attempts.failures
       /\ since = IF wrong = 0 THEN MaxLockout ELSE 0
       /\ route = IF has = "nothing" THEN "create" ELSE "unlock"
  /\ app = "active" /\ backgroundedAt = {} /\ timer = FALSE /\ away = 0 /\ turned = FALSE
  /\ busy = FALSE
  /\ current = 0
  /\ starts = [t \in Start |-> Unused]
  /\ dataKey = [t \in Start |-> NoKey]
  /\ socket = [t \in Start |-> NoSocket]
  /\ tasks = {} /\ mate = 0 /\ mail = 0
  /\ tried = MaxLockout /\ lost = 0
  /\ swallowed = FALSE /\ surprised = FALSE

-----------------------------------------------------------------------------
(* start: create or unlock the vault.                                      *)

Goto(t, pc) == starts' = [starts EXCEPT ![t].pc = pc]

\* Of interest until a lock has surprised something.
Swallow(happens) == swallowed' = (swallowed \/ (happens /\ ~surprised))

\* The function returns: busy ends with it, whichever way.
Return(t) == starts' = [starts EXCEPT ![t] = [Unused EXCEPT !.pc = "done"]] /\ busy' = FALSE

\* It throws into its catch, which shows the message.
Throw(t) ==
  /\ starts' = [starts EXCEPT ![t] = [Unused EXCEPT !.pc = "done", !.failed = TRUE]]
  /\ busy' = FALSE
  /\ UNCHANGED route

Elsewhere == <<clock, lifecycle, wire, swallowed, surprised>>

\* The onboarding screen submits once at a time.
Submit(right) ==
  /\ route \in {"create", "unlock"} /\ ~busy
  /\ \E t \in Start :
       /\ At(t, "unused") /\ \A s \in 1 .. (t - 1) : ~At(s, "unused")
       /\ starts' = [starts EXCEPT ![t] = [@ EXCEPT !.pc = "open", !.right = right]]
  /\ busy' = TRUE
  /\ UNCHANGED <<Elsewhere, keystore, rows, route, current, dataKey, socket, tasks, guesses>>

\* The stored wrapper and counter are read, and the passphrase tried if the
\* counter lets it.
Refuse(t) ==
  /\ At(t, "open")
  /\ wrapper # NoKey /\ ~canAttempt(parseAttemptState(attempts, clock), clock)
  /\ Return(t)
  /\ UNCHANGED <<Elsewhere, keystore, rows, route, current, dataKey, socket, tasks, guesses>>

Try(t) ==
  /\ At(t, "open")
  /\ wrapper # NoKey /\ canAttempt(parseAttemptState(attempts, clock), clock)
  /\ \/ \E key \in UnlockVault(starts[t].right, wrapper) :
          /\ dataKey' = [dataKey EXCEPT ![t] = key]
          /\ Goto(t, "resetting")
          /\ UNCHANGED <<wrong, tried>>
     \/ /\ UnlockVault(starts[t].right, wrapper) = {}
        /\ starts' = [starts EXCEPT ![t].pc = "recording",
                         ![t].record = recordFailure(parseAttemptState(attempts, clock), clock)]
        /\ wrong' = wrong + 1 /\ tried' = 0
        /\ UNCHANGED dataKey
  /\ UNCHANGED <<Elsewhere, keystore, rows, screen, current, socket, tasks, since, lost>>

\* secrets.set of the failure, then the return; it may fail instead.
Record(t) ==
  /\ At(t, "recording")
  /\ attempts' = Entry(starts[t].record)
  /\ since' = tried /\ tried' = MaxLockout /\ UNCHANGED lost
  /\ Return(t)
  /\ UNCHANGED <<Elsewhere, wrapper, parts, rows, route, current, dataKey, socket, tasks, wrong>>

RecordFails(t) ==
  /\ At(t, "recording")
  /\ Throw(t)
  /\ lost' = lost + 1 /\ tried' = MaxLockout
  /\ UNCHANGED <<Elsewhere, keystore, rows, current, dataKey, socket, tasks, since, wrong>>

\* vaultRef and messengerRef: from here on a lock finds them.
Refer(t) == current' = t /\ Goto(t, "initialise")

Reset(t) ==
  /\ At(t, "resetting")
  /\ attempts' = Entry(recordSuccess)
  /\ wrong' = 0 /\ lost' = 0 /\ since' = MaxLockout /\ UNCHANGED tried
  /\ Refer(t)
  /\ UNCHANGED <<Elsewhere, wrapper, parts, rows, screen, dataKey, socket, tasks>>

Create(t) ==
  /\ At(t, "open") /\ wrapper = NoKey
  /\ dataKey' = [dataKey EXCEPT ![t] = CreateVault(t).dataKey]
  /\ Goto(t, "wrapping")
  /\ UNCHANGED <<Elsewhere, keystore, rows, screen, current, socket, tasks, guesses>>

Wrap(t) ==
  /\ At(t, "wrapping")
  /\ wrapper' = CreateVault(t).wrapped
  /\ Refer(t)
  /\ UNCHANGED <<Elsewhere, attempts, parts, rows, screen, dataKey, socket, tasks, guesses>>

-----------------------------------------------------------------------------
(* start: bring the messenger online.                                      *)

Whole == \A p \in Part : parts[p] # 0

\* Writing only the entries that are missing, and the code's.
FillPart(p, t)  == [parts EXCEPT ![p] = IF @ = 0 THEN t ELSE @]
WritePart(p, t) == [parts EXCEPT ![p] = t]

\* initialise: a stored identity is whole, or another one is drawn.
Initialise(t) ==
  /\ At(t, "initialise")
  /\ Goto(t, IF Whole THEN "register" ELSE "signing")
  /\ UNCHANGED <<Elsewhere, keystore, rows, screen, current, dataKey, socket, tasks, guesses>>

AfterPart == [signing |-> "exchange", exchange |-> "binding", binding |-> "register"]

StorePart(t, p) ==
  /\ At(t, p)
  /\ parts' = WritePart(p, t)
  /\ Goto(t, AfterPart[p])
  /\ UNCHANGED <<Elsewhere, wrapper, attempts, rows, screen, current, dataKey, socket, tasks,
                 guesses>>

\* The pairing is read under the vault's key, the relay registers and
\* authenticates; then the call manager and the socket.
Connect(t) ==
  /\ At(t, "register")
  /\ ~GetThrows(dataKey[t], rows.pairing)
  /\ socket' = [socket EXCEPT ![t].state = "open"]
  /\ Goto(t, "sync")
  /\ UNCHANGED <<Elsewhere, keystore, rows, screen, current, dataKey, tasks, guesses>>

\* What waits is sealed to one messenger's session; lock() destroys its end of
\* it where it wipes the vault, and a process takes it along.
Opens(t, u) == u = t /\ dataKey[t] # Zero

\* sync() fetches what waits and acknowledges it, opened and stored or not.
Sync(t) ==
  /\ At(t, "sync") /\ mail # 0
  /\ mail' = 0
  /\ IF ~Opens(t, mail)
     THEN UNCHANGED <<rows, swallowed>>
     ELSE IF GetThrows(dataKey[t], rows.peer)
     THEN Swallow(TRUE) /\ UNCHANGED rows
     ELSE rows' = [rows EXCEPT !.messages = @ \cup {EncryptRecord(dataKey[t])}]
          /\ UNCHANGED swallowed
  /\ UNCHANGED <<clock, lifecycle, surprised, keystore, mate, screen, current, starts, dataKey,
                 socket, tasks, guesses>>

\* The first lists; then the first screen, whatever has happened to the refs since.
GoOnline(t) ==
  /\ At(t, "sync") /\ mail = 0
  /\ route' = IF rows.pairing = NoKey THEN "pair" ELSE "main"
  /\ Return(t)
  /\ UNCHANGED <<Elsewhere, keystore, rows, current, dataKey, socket, tasks, guesses>>

\* What is awaited throws: the keystore, the relay, a row that does not open.
Fails(t) ==
  /\ \E pc \in Part \cup {"resetting", "wrapping", "register", "sync"} : At(t, pc)
  /\ Throw(t)
  /\ UNCHANGED <<Elsewhere, keystore, rows, current, dataKey, socket, tasks, guesses>>

-----------------------------------------------------------------------------
(* Locking.                                                                *)

\* A close() that leaves the connection, and the code's, which leaves a
\* reconnection that is already scheduled.
CloseLater(s) == [s EXCEPT !.closedByUs = TRUE]

Close(s) == IF s.state = "waiting" THEN [s EXCEPT !.closedByUs = TRUE] ELSE NoSocket

UnderWay == tasks # {} \/ \E t \in Start : InFlight(t) \/ socket[t].state = "waiting"

\* A lock that lets the screen be used again at once, and the code's.
BusyAfterLockCleared == FALSE
BusyAfterLock        == busy

\* What lock() does: close, drop the refs, destroy the messenger's sessions, wipe,
\* back to the passphrase.  The key that is wiped stands for the sessions too.
Lock ==
  /\ IF current = 0 THEN UNCHANGED <<socket, dataKey>>
     ELSE /\ socket' = [socket EXCEPT ![current] = Close(@)]
          /\ dataKey' = [dataKey EXCEPT ![current] = LockVault(@)]
  /\ current' = 0
  /\ route' = "unlock"
  /\ busy' = BusyAfterLock
  /\ surprised' = (surprised \/ UnderWay)

\* Every event counting anew, and the code: the first of a spell counts.
LeftAtLatest == {clock}

LeftAt == IF backgroundedAt = {} THEN {clock} ELSE backgroundedAt

Leave(state) ==
  /\ app # state /\ app # "background" /\ state \in {"inactive", "background"}
  /\ app' = state
  /\ backgroundedAt' = LeftAt
  /\ timer' = (timer \/ backgroundedAt = {})
  /\ away' = IF backgroundedAt = {} THEN 0 ELSE away
  /\ turned' = (turned /\ backgroundedAt # {})
  /\ UNCHANGED <<clock, keystore, rows, screen, current, starts, dataKey, socket, tasks,
                 wire, guesses, swallowed, surprised>>

shouldLock(left) == \E at \in left : clock < at \/ clock - at >= Grace

Resume ==
  /\ app # "active"
  /\ app' = "active" /\ backgroundedAt' = {} /\ timer' = FALSE
  /\ IF shouldLock(backgroundedAt) THEN Lock
     ELSE UNCHANGED <<socket, dataKey, current, screen, surprised>>
  /\ away' = 0 /\ turned' = FALSE
  /\ UNCHANGED <<clock, keystore, rows, starts, tasks, wire, guesses, swallowed>>

\* The grace period's timeout; a frozen process may never run it.
TimerFires ==
  /\ timer /\ away >= Grace
  /\ timer' = FALSE
  /\ Lock
  /\ UNCHANGED <<clock, keystore, rows, app, backgroundedAt, away, turned, starts, tasks,
                 wire, guesses, swallowed>>

-----------------------------------------------------------------------------
(* The socket, delivered messages, pairing.                                *)

Others == <<clock, keystore, lifecycle, mate, current, starts, dataKey, guesses, surprised>>

\* onclose: a reconnection is scheduled unless it was us.
Drop(t) ==
  /\ socket[t].state = "open"
  /\ socket' = [socket EXCEPT ![t] = IF @.closedByUs THEN NoSocket ELSE [@ EXCEPT !.state = "waiting"]]
  /\ UNCHANGED <<Others, rows, screen, tasks, mail, swallowed>>

\* The scheduled open() does not look at closedByUs.
Reopen(t) ==
  /\ socket[t].state = "waiting"
  /\ socket' = [socket EXCEPT ![t].state = "open"]
  /\ UNCHANGED <<Others, rows, screen, tasks, mail, swallowed>>

Task(t, step) == [of |-> t, step |-> step]
Advance(t, from, to) == tasks' = (tasks \ {Task(t, from)}) \cup {Task(t, to)}
Finish(t, from) == tasks' = tasks \ {Task(t, from)}

\* The peer writes in the session it has, or in one that was just made with a
\* messenger that is connected.
PeerWrites(t) ==
  /\ mail = 0 /\ MaxMail = 1
  /\ \/ t = mate
     \/ socket[t].state = "open" /\ rows.peer # NoKey /\ dataKey[t] # Zero
  /\ mail' = t /\ mate' = t
  /\ UNCHANGED <<clock, keystore, lifecycle, rows, screen, current, starts, dataKey, socket, tasks,
                 guesses, swallowed, surprised>>

\* The socket hands over what waits.  If it opens, sessionMeta and the contact
\* are read and it is written; if it does not, or a read throws, the handler is
\* over, and acknowledged like any other while the socket is open.
Deliver(t) ==
  /\ socket[t].state = "open" /\ mail # 0
  /\ \A s \in {"remember", "store"} : Task(t, s) \notin tasks
  /\ mail' = 0
  /\ tasks' = tasks \cup (IF Opens(t, mail) THEN {Task(t, "remember")} ELSE {})
  /\ UNCHANGED <<Others, rows, screen, socket, swallowed>>

Remember(t) ==
  /\ Task(t, "remember") \in tasks
  /\ IF GetThrows(dataKey[t], rows.peer)
     THEN Finish(t, "remember") /\ Swallow(socket[t].state = "open")
     ELSE Advance(t, "remember", "store") /\ UNCHANGED swallowed
  /\ UNCHANGED <<Others, rows, screen, socket, mail>>

\* messages.put, under whatever the key is by now.
Store(t) ==
  /\ Task(t, "store") \in tasks
  /\ rows' = [rows EXCEPT !.messages = @ \cup {EncryptRecord(dataKey[t])}]
  /\ Finish(t, "store")
  /\ UNCHANGED <<Others, screen, socket, mail, swallowed>>

\* pairWithCode, from its screen.
Pair(t) ==
  /\ route = "pair" /\ ~busy /\ t = current
  /\ busy' = TRUE
  /\ rows' = [rows EXCEPT !.peer = EncryptRecord(dataKey[t])]
  /\ tasks' = tasks \cup {Task(t, "pair")}
  /\ UNCHANGED <<Others, route, socket, mail, swallowed>>

Paired(t) ==
  /\ Task(t, "pair") \in tasks
  /\ Finish(t, "pair")
  /\ rows' = [rows EXCEPT !.pairing = EncryptRecord(dataKey[t])]
  /\ route' = "main"
  /\ busy' = FALSE
  /\ UNCHANGED <<Others, socket, mail, swallowed>>

-----------------------------------------------------------------------------
(* Time, and the end of the process.                                       *)

Passed(ticks, more, limit) == Min({ticks + more, limit})

\* Both histories of the last guess, when the clock has gained that much.
Gain(more) ==
  /\ since' = Passed(since, more, MaxLockout)
  /\ tried' = IF \E t \in Start : At(t, "recording") THEN Passed(tried, more, MaxLockout) ELSE tried

Tick ==
  /\ clock < MaxClock
  /\ clock' = clock + 1
  /\ Gain(1)
  /\ away' = IF app = "active" THEN away ELSE Passed(away, 1, Grace)
  /\ UNCHANGED <<keystore, rows, app, backgroundedAt, timer, turned, screen, current, starts,
                 dataKey, socket, tasks, wire, wrong, lost, swallowed, surprised>>

\* The user or the network sets the clock, to any time: back, or forward.
SetClock ==
  /\ \E at \in 0 .. MaxClock \ {clock} :
       /\ clock' = at
       /\ turned' = (turned \/ (app # "active" /\ at < clock))
       /\ Gain(Max({0, at - clock}))
  /\ UNCHANGED <<keystore, rows, app, backgroundedAt, timer, away, screen, current, starts,
                 dataKey, socket, tasks, wire, wrong, lost, swallowed, surprised>>

\* The keystore loses the attempts' entry, or it no longer parses.  A start that
\* is about to read it is the first to notice, whenever it happened.
LoseAttempts ==
  /\ attempts.reads = "stored" /\ (\E t \in Start : At(t, "open"))
  /\ attempts' \in {e \in {NoEntry, UnreadableEntry} : e.reads \in Losses}
  /\ lost' = wrong
  /\ UNCHANGED <<Elsewhere, wrapper, parts, rows, screen, current, starts, dataKey, socket, tasks,
                 since, tried, wrong>>

\* The process ends and is launched again: readEitherMode decides the mode.
Restart ==
  /\ \E t \in Start : ~At(t, "unused")
  /\ starts' = [t \in Start |-> IF At(t, "unused") THEN Unused
                                ELSE [Unused EXCEPT !.pc = "done"]]
  /\ lost' = lost + Cardinality({t \in Start : At(t, "recording")})
  /\ tried' = MaxLockout
  /\ dataKey' = [t \in Start |-> NoKey]
  /\ socket' = [t \in Start |-> NoSocket]
  /\ tasks' = {} /\ current' = 0
  /\ app' = "active" /\ backgroundedAt' = {} /\ timer' = FALSE /\ away' = 0 /\ turned' = FALSE
  /\ route' = IF wrapper = NoKey THEN "create" ELSE "unlock"
  /\ busy' = FALSE
  /\ UNCHANGED <<clock, keystore, rows, wire, since, wrong, swallowed, surprised>>

Next ==
  \/ \E right \in BOOLEAN : Submit(right)
  \/ \E t \in Start :
       \/ Refuse(t) \/ Try(t) \/ Record(t) \/ RecordFails(t) \/ Reset(t) \/ Create(t) \/ Wrap(t)
       \/ Initialise(t) \/ (\E p \in Part : StorePart(t, p)) \/ Connect(t) \/ Sync(t)
       \/ GoOnline(t) \/ Fails(t) \/ Drop(t) \/ Reopen(t) \/ PeerWrites(t) \/ Deliver(t)
       \/ Remember(t) \/ Store(t) \/ Pair(t) \/ Paired(t)
  \/ \E state \in {"inactive", "background"} : Leave(state)
  \/ Resume \/ TimerFires \/ Tick \/ SetClock \/ LoseAttempts \/ Restart

Spec == Init /\ [][Next]_vars

-----------------------------------------------------------------------------
(* Properties.                                                             *)

DataKey == Start \cup {Earlier}
Key == DataKey \cup {NoKey, Zero}

\* Every variable keeps to its values, the refs name a vault that was made,
\* and at most one start, or the pairing in its place, is under way: the
\* screens are disabled by busy (OnboardingScreen.tsx:43, App.tsx:162, 299).
TypeOK ==
  /\ clock \in 0 .. MaxClock
  /\ wrapper \in Key \ {Zero}
  /\ attempts.reads \in {"absent", "unreadable", "stored"}
  /\ parts \in [Part -> Key \ {Zero}]
  /\ rows \in [pairing : Key, peer : Key, messages : SUBSET (Key \ {NoKey})]
  /\ app \in {"active", "inactive", "background"} /\ (app = "active") = (backgroundedAt = {})
  /\ {mate, mail} \subseteq 0 .. MaxStarts
  /\ current \in 0 .. MaxStarts /\ (current # 0 => dataKey[current] \in DataKey)
  /\ dataKey \in [Start -> Key]
  /\ \A t \in Start : socket[t].state \in {"none", "open", "waiting"}
  /\ busy = ((\E t \in Start : InFlight(t)) \/ \E t \in Start : Task(t, "pair") \in tasks)
  /\ Cardinality({t \in Start : InFlight(t)} \cup {k.of : k \in {k \in tasks : k.step = "pair"}})
       <= 1

\* The identity entries, written one by one with crashes and failures in
\* between, never make a whole of two identities: what initialise takes as
\* stored was drawn at once (messenger.ts:167-194).
IdentityWhole == Whole => \A p \in Part, q \in Part : parts[p] = parts[q]

\* The n-th wrong passphrase is tried no sooner after the n-1st than the policy
\* says: in real time, less what the clock is set forward by meanwhile, which the
\* record cannot know; setting it back gains nothing, nor does a restart.  Guesses
\* whose record was not written or was lost do not count
\* (App.tsx:174-199, unlockPolicy.ts:69-101).
GuessesCostTime ==
  [][\A t \in Start :
       At(t, "open") /\ starts'[t].pc = "recording" => since >= Lockout(wrong - lost)]_vars

\* What unlockPolicy.ts:19-21 and 119-122 say: without a record, after guesses
\* whose record is gone, the vault is locked for the base interval.
AbsentIsLocked ==
  attempts.reads = "absent" /\ lost > 0 => ~canAttempt(parseAttemptState(attempts, clock), clock)

\* What unlockPolicy.ts:40 and 119-121 say: no lock-out is for good, a damaged
\* record costs its owner the base interval.
LockoutsEnd ==
  LET later == clock + MaxLockout IN
  attempts.reads = "unreadable" => canAttempt(parseAttemptState(attempts, later), later)

\* Nobody resumes into an open vault after the grace period or longer, though
\* the timer never ran (screenSecurity.ts:86-90), unless the clock was turned
\* back; only a start under way can still open one.
LockComesDue ==
  [][Resume /\ away >= Grace /\ ~turned =>
       \A t \in Start : dataKey'[t] \in DataKey => InFlight(t) \/ starts[t].failed]_vars

\* A data key is in memory only where lock() will find it, while its start is
\* under way, or where a start that failed left it (App.tsx:209, 296-300).
KeysAreLocked ==
  \A t \in Start : dataKey[t] \in DataKey => t = current \/ InFlight(t) \/ starts[t].failed

\* A lock that finds nothing under way leaves the phone in order: every row opens
\* under the key in the wrapper, no message that opened is acknowledged without
\* being in one, no messenger is connected whose vault is wiped, and no screen
\* shows without its vault (App.tsx:6-8, 344-363, messenger.ts:541-560).
LockIsOrderly ==
  ~surprised =>
    /\ \A key \in {rows.pairing, rows.peer} \cup rows.messages : key \in {NoKey, wrapper}
    /\ ~swallowed
    /\ \A t \in Start : dataKey[t] = Zero => socket[t].state = "none"
    /\ route \in {"pair", "main"} => current # 0

\* What App.tsx:340-342 says: nothing is lost with the sessions a lock drops, so
\* that nothing sealed to one of them is acknowledged unread.
SessionsAreNoLoss ==
  [][\A u \in Start : mail = u /\ mail' = 0 /\ dataKey[u] = Zero => surprised]_vars

\* What App.tsx:4-8 says: no screen that can read messages without its vault.
ScreensNeedVault == route \in {"pair", "main"} => current # 0
=============================================================================
