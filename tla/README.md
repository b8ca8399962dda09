# A verification of astro_data_bank

The repository is an end-to-end encrypted messenger and voice caller: a
TypeScript crypto core (`packages/crypto`), a relay that stores and forwards
sealed envelopes (`packages/relay`), wire types (`packages/protocol`) and a
React Native client (`apps/mobile`). This directory holds TLA+ models of its
stateful parts, TLC configurations that check them on small instances, and
TLAPS proofs of the results that matter most for every value of the constants.

    tlc -config DoubleRatchet.cfg DoubleRatchet     # one run
    tlapm DoubleRatchetProofs.tla                   # one proof module

## 1. The system

| Component | State it keeps | Operations | What makes it correct |
|---|---|---|---|
| Double Ratchet (`doubleRatchet.ts`, `session.ts`) | root key, two chains and their counters, own pair, peer's key, skipped-key cache | `ratchetEncrypt`, `ratchetDecrypt` (skipped key, DH turn, skip, commit) | a message key seals once, opens once, is gone afterwards; a turn heals a copied state; reordering loses nothing |
| Handshake (`pqxdh.ts`, `session.ts`, `preKeyStore.ts`) | prekey pools, sessions and their `establishedBy` / `pendingPreKey` | `startSession`, `decryptEnvelope`, replenish, rotate | one-time keys used once; both sides end on the same session; a handshake in flight is answerable |
| Identity, safety number (`identity.ts`, `safetyNumber.ts`) | none | sign, verify a bundle, compare | a bundle's keys are its identity's, for their use; equal numbers mean equal keys |
| Sealed envelope, padding, wire (`envelope.ts`) | none | seal, open | opens for its recipient alone, and names its sender |
| SFrame (`sframe.ts`) | frame counter; highest counter and seen set | `encryptFrame`, `decryptFrame` | no nonce twice, no frame twice, no frame locked out |
| Relay authentication (`auth.ts`) | challenges, tokens | issue, authenticate, resolve, prune | a token is earned by its key, a challenge is spent once |
| Relay queues, sockets (`relay.ts`, `store.ts`) | accounts, queues, the `sockets` map | register, send, push, authenticate/drain, acknowledge, close, housekeeping | no message missed, none lost in silence, nobody else's read or removed |
| Prekey directory (`store.ts`, `relay.ts`) | published prekeys per account | upload, fetch bundle | a one-time prekey is handed out once |
| Rate limiter (`rateLimit.ts`) | a bucket per client, in a bounded table | `allow`, `evictStale` | bounded memory; nobody exceeds the limit unless a full table forgot them |
| Messenger, pairing (`messenger.ts`, `pairing.ts`) | sessions, contacts, pins, messages, conversations, paired peer | send, `handleDelivered`, receipts, identity change, sweep | marks mean what they say; what was acknowledged is stored; only known keys are sealed to |
| Relay client, transport | token, socket, reconnect timer | connect, reconnect, close | a closed socket costs no message |
| Calls (`callManager.ts`, `callKeys.ts`, `webrtc.ts`) | call state, engine, media keys | offer, answer, hang up, teardown | keys installed once per call, both ends agree |
| Shell, vault, storage, unlock and lock policy (`App.tsx`, `vault.ts`, `storage.ts`, `unlockPolicy.ts`, `lockPolicy.ts`, `screenSecurity.ts`) | route, refs, data key, keystore entries, failure record, background timer | start, lock, leave, resume, pair | a lock finds the key and leaves rows, sockets and screens in order; guesses cost time |

How they meet: a client's messenger drives the ratchet and posts envelopes to
the relay; the relay pushes each to the account's connected sockets and keeps it
until it is acknowledged; the client handles what its socket drains and what
`sync()` fetches, without comparing the two. Calls exchange offers and answers
as messages and then protect media with SFrame under a key both ends derive.

Everything is single-threaded JavaScript: a function runs undisturbed to its next
`await`, and that is where the hard behaviours come from, with messages that are
late, reordered or repeated, state lost at a restart, caches at their limits and
counters at their ends. `PROJECT.json` lists these hazards line by line, with the
properties that would catch each one.

## 2. The modules

### Ratchet, DoubleRatchet

`Ratchet` holds `doubleRatchet.ts` as operators on a `RatchetState` record with
the source's field names; `DoubleRatchet` puts two such states and a network
around them. Cryptography is symbolic. A key pair has a number, a wiped secret is
`Zero`; a Diffie-Hellman output is the set of the two secrets in it; a root key is
the sequence of outputs absorbed; a chain key is its root and how often it was
advanced; the message key of a position is that record. Sealing and opening agree
exactly when the message keys do, since the AEAD covers the header. The
derivations (HKDF, nonce, associated data, padding) carry no state and are not
modelled.

Every step of `ratchetDecrypt` that can throw returns `[ok, state]`, and the state
of a failed call is kept as the code keeps it: `performDhRatchet` and
`skipReceivingKeys` write to the live object before the message authenticates.
`Receive` is one whole `ratchetDecrypt`, which has no `await`. The network is a
set: any message sent may be the next to arrive, again if `Duplicates`.

### AuthService, Relay

`AuthService` is `auth.ts` with its two maps; `Relay` extends it with the store
and the sockets. Handlers are split at their awaits, and a method of the in-memory
store takes effect when it is called: `Enqueue` then `Push` for a send,
`SocketAuthenticate` (registers the socket and takes the snapshot of the queue)
then `Drain` for a socket. The interface `RelayStore` is meant to be implemented
over a database too; this models the implementation in the repository. The ids of
messages, challenges and tokens are numbers in order of creation, for `random`
does not repeat. A signature is the name of the key that made it. A list of ids to
acknowledge is as many acknowledgements. Requests that change nothing here
(`GET /v1/messages`, rate-limited or malformed ones) have no action. The relay
keeps everything in memory: after a restart it is in its initial state, with
clients that must register again, so a run is one life of the process.

`accounts`, `queue`, `sockets`, `address` are the code's variables. `received`
holds every acceptance time, so that the properties can speak of messages that are
gone; `inbox`, `acked`, `provenBy` and `grants` are history of the same kind.

### SFrame

One direction of a call. Key and nonce of a frame are functions of the call key
and the counter, so the counter stands for both. What arrives is any counter from
one below the range to one above it, genuine (one that was sealed) or forged. The
lower half of `decryptFrame`, parsing, cannot fail otherwise.

### PreKeys, Handshake, HandshakeMC

`PreKeys` is every device's `InMemoryPreKeyStore` and the directory half of the
relay's store; `Handshake` puts sessions over it and the operators of `Ratchet`
inside them, so a message of a session opens or fails as the ratchet decides.
The root secret of a handshake is the set of the secrets that went into it.
Classical and ML-KEM one-time keys are made, uploaded, cut, handed out and
consumed together, so one key stands for both; a device publishes one generation
of signed keys, for `rotateSignedPreKeys` and `issueBundle` have no caller.

`ensureSession` is split at its await: `Fetch` takes a bundle, `StartSession`
starts the session and, if it was called for a message, sends that too, whatever
has happened since. Replenishing is split in the same way (`SeeCount`,
`Replenish`). `Start` is a new life: a new store, no sessions, and a registration
that changes the directory only the first time. `Receive` is `handleDelivered` with
the whole of `decryptEnvelope`: an existing session takes the message, or the
preamble is answered, or the call is refused. `Respond` keeps the alias of the code:
`initialiseResponder` shares the signed pair with the store, and the first turn
wipes it there too, also when the message then fails. Pinned identities and the
pairing lock are left out; both only refuse.

`disturbed` and `accepted` are history. `HandshakeMC` adds the symmetry set.

### Calls

Two `CallManager`s, the engines they make and the signals between them. A handler
is split where it awaits an engine or `sendSignal`, and what waits is a task that
resumes at any later time, or never; closing an engine and installing keys await
nothing real in `webrtc.ts` and are one step with what follows. Several handlers of
one device may wait at once, as `App.tsx` starts each without waiting for the last.
A signal is handled once at most, for the ratchet refuses repeats, and may stay
under way for ever; sending one may fail after or before it was delivered.

Optional fields are sets of at most one. Engines are numbered in order of creation,
and the number stands for the engine's certificate and description; a call's
number stands for its media secret. Two engines connect when each holds the
other's description, and an engine takes one answer: that is the external WebRTC
stack. `capable` is what `detectFrameTransformSupport` found. The peer's identity is
known, since a signal was decrypted from it or `warmPeerIdentity` ran first.

### Mailbox

The contract of the `RelayStore` interface as an abstract box for each account: a
message waits until its owner takes it, and only the oldest go without that.
`Relay` instantiates it (`M`, `IsMailbox`): acceptance times become numbers of
messages, `queue` and `acked` are what waits and what was taken, and a message is
stale when its age has reached the limit. Sessions, sockets and handlers are
hidden. A reader who only needs the store's promise reads this module.

### UnlockPolicy, Vault, Device

`UnlockPolicy` is `unlockPolicy.ts` as operators on its record; an entry of the
keystore is absent, unreadable or stored. `Vault` is `vault.ts` and what
`storage.ts` adds: data keys are numbers, the wiped key is `Zero`, and a row is the
key it was sealed under, for a wiped array goes on encrypting without complaint.

`Device` is one phone: `App.tsx`'s `start` from the passphrase to the first screen,
split at each `await` that a lock, a crash or a failure can fall into; `lock`, which
is synchronous and acts on whatever the refs hold; the lifecycle lock with its timer
and its decision at resume; the socket with the reconnection that `close` does not
cancel; a delivered message between its first read and its write; pairing. Every
start keeps its own vault and socket, as the closures do, so that a start overtaken
by a lock goes on with what it captured. `Restart` ends the process anywhere.

A lock also destroys the sessions of the messenger (`App.tsx:346-351`), and the next
start makes a new one. The wiped data key of a start stands for its destroyed sessions.
`PeerWrites` is the peer, which goes on writing in the session it has (`mate`); what
waits at the relay (`mail`) opens only with the start that has the other end of it.
`Sync` and `Deliver` acknowledge it in any case, as `handleDelivered` does.

The clock is `Date.now()`, which `SetClock` sets back and forward; `LoseAttempts` is a
keystore whose failure record is gone or no longer parses, seen where `start` reads it. `since`, `tried` and `away`
are history and not seen by the code: `away` is real time, the other two count what
the clock was set forward by as well, since the record cannot tell.

### Contacts

Who the phone talks to: `pairWithCode`, `ensureSession` with its pin check,
`handleDelivered` with the pairing lock and `rememberPeer`, `markVerified`,
`acceptIdentityChange`, `loadPins`, split at their awaits and interleaved up to two
at a time. An identity stands for its keys and its address. The relay answers a
request for a bundle with any identity's, since `fetchBundle` checks signatures and
not the address (`addressMatches` has no caller). What happens inside a session is
`Handshake`'s.

`markVerified` is split at its await: the contact is read, then put back with its mark
(`MarkPut`), then pinned. A press of accept drops session, pin and identity
(`AcceptChange`) and takes the key of whatever answers its request (`AcceptFetched`).
The history `compared` holds the identity whose number the screen showed at the press,
`taken` the keys that came; the properties keep the two apart, and from the scanned
ones.

### Messages

The rows of messages and of the peer's conversation: `sendText`, `onPayload`,
`sync`'s acknowledgements, the chat screen, the sweep of disappearing messages. A
record that a method built or read stays as it was until it is put, which is what
makes overwriting possible. What the relay keeps for this phone may be handed over
by the socket or by `sync()`, in any order; opening uses the key up, and handing
over twice fails the second time. After `Restart` the phone cannot open what was
sealed to its former start. A note sealed to the present one may not open either: the
peer may have sealed it under a wiped prekey or in a session that crossed this phone's
(`Enqueue` chooses), and a handing over that fails may take the keys of other notes with
it (`Undecryptable`), as a second delivery does to the ratchet. `unopened`, `broken` and
`uncounted` say which of these became of a note. The peer is the same program, seen as what it stores
and sends. Receipts are off in the application, on its side and the peer's; the
module lets the peer send them, for `Messenger` handles them, and only of the kind
`delivered`, as no caller sends the other.

### Identity, Agreement

`identity.ts`, `safetyNumber.ts`, `envelope.ts` and `pqxdh.ts` as operators on
symbolic keys, with no state: a signature is a record of the signer and the
transcript, a Diffie-Hellman output the set of the two keys that met, a derived key
the record of all that went into it. Decapsulating under another key gives another
secret, as ML-KEM does. The iterated hash of a fingerprint is one-to-one. They exist
for the theorems of section 5, one of which says when the two sides of a handshake
have the same root: what `Handshake` and `DoubleRatchet` take for granted.

### RateLimiter

`allow` and `evictStale` on the Map as a function on the clients it tracks. When
the table is full of live buckets a tenth, the oldest, is dropped; equal ages are
dropped in any choice. `opened`, `passed` and `forgotten` are each client's own
reckoning.

## 3. The runs

| Run | Shows | Bounds and why they suffice |
|---|---|---|
| `ratchet` | types and cache bound, `MessageKeysUnique`, `NoSecondAcceptance`, `DeliveredKeysErased`, `OutOfOrderDecrypts`, `TurnsHeal` | 5 messages a side and 6 pairs: two full turns each, gaps in the chain being left and the one entered, and a cache of 2 that overflows when three messages stay out; a gap of 2 exceeds the per-chain limit of 1 |
| `ratchet_replay` | **violated**: `SessionSurvivesReplays` | 3 messages a side |
| `relay` | types, `NoMissedDelivery`, `NothingLostSilently`, `ConnectedReceives`, `IsMailbox` | 1 account, 2 connections, a queue of 1 with 2 messages (overflow), 1 tick (tokens, challenges and messages all expire) |
| `relay_accounts` | `EarnedOnce`, `OnlyKeyHoldersRead`, `ClosedAreForgotten` | 2 accounts, 1 connection, 4 random values: both log in once, or one twice, with every signer, any earlier value as the challenge, and any id acknowledged |
| `handshake` | types and pool cap, `OneTimePreKeysHandedOutOnce`, `AnsweredOnce`, `OneTimeSecretsWait`, `SessionsUnderstand` | 2 devices, 3 lives between them (one restart), 2 bundles and 3 messages; batches of 2 and a cap of 1, so that pools are cut, run out and are topped up; 16 key pairs leave six for turns, sessions and a top-up after three starts; devices are interchangeable and no liveness is checked, so symmetry is sound |
| `handshake_signed_key` | **violated**: `SignedPreKeyHeld` | as `handshake` |
| `handshake_restart` | **violated**: `PublishedKeysAreHeld` | as `handshake` |
| `sframe` | bounded memory, `NonceNeverReused`, `AcceptedOnce`, `WindowStaysOpen` | 12 counters and a window of 3: the window slides over four times its width and the sender runs out |
| `calls` | types, `FreshFrameKeys`, `SameWords`, `EndedLeavesNothing` | 2 devices, 2 calls and 3 engines: a call answered twice, a call placed while another is being torn down, both placing at once |
| `device` | types, `IdentityWhole`, `KeysAreLocked`, `LockIsOrderly`, `GuessesCostTime`, `LockComesDue` | 2 starts over any number of lives of the process, on a fresh, an unpaired or a paired installation with no or two failures on record, which may get lost or stop parsing: a lock-out is waited for, passes, and is doubled by the next failure; 2 clock values, set back and forward any number of times; a grace of 1; 1 message waiting at a time |
| `contacts` | `OnlyPairedSessions`, `SealedToKnown`, `VerifiedIsOneKey` | 2 identities to meet, 2 handlers at once, 3 messages sealed, any number of restarts, presses of accept and bundles served: every pair of methods overlaps at every await |
| `messages` | `TicksAreEarned`, `AckedIsKept`, `ConversationAgrees`, `NothingOverstays` | 1 text and 1 note with their receipt, a timer of 1 tick, one restart: sending, second deliveries, receiving, the chat screen and the sweep overlap freely, and a row put back after its deletion expires again |

Deadlock is checked for `SFrame`, where the receiver can always be handed
something; the other systems stop when the bound on messages, keys or engines is reached,
or when the user, the peer and the relay do nothing more. The type invariants of
`Contacts` and `Messages` hold in the same instances and are left out of the runs'
properties.

`OutOfOrderDecrypts` is about messages that have not arrived yet. It excludes
messages whose key the cache dropped (`evicted`), gaps larger than the code will
close (`TooFar`) and any state after a message of a left chain arrived whose key
was gone (`staleArrival`). The last exclusion is not harmless and
`SessionSurvivesReplays` is the same property without it.

`AnsweredOnce` holds of handshakes that name no one-time key only because the
first turn wipes the shared signed pair, the same line that violates
`SignedPreKeyHeld`: a repair of the second needs another guard for the first.
`SessionsUnderstand` is about two sessions of one handshake. When two devices open
sessions to each other at once, each may end on the one the other opened, and
neither code nor documents say how that should be resolved.

`SameWords` and `EndedLeavesNothing` exclude states in which a call was answered
twice: then the words may differ and the first engine is never closed (section 4).
`EndedLeavesNothing` speaks of a device with no handler waiting and of calls that
went through `endCall`: a call that `answerCall` refuses, because frames cannot be
encrypted, keeps the caller's secret until the next call.

`ClosedAreForgotten` is what is left of "sockets currently connected" (section 4).

`MessageKeysUnique` is about sessions that are not destroyed. `destroySession` zeroes
the ratchet's keys in place (section 4).

`LockIsOrderly` speaks of locks that found nothing under way, a scheduled reconnection
included, and of messages that opened; it does not say that a lock costs no message,
for it does (`SessionsAreNoLoss`, section 4). `KeysAreLocked` leaves out starts under
way and starts that failed, whose key no ref may point to. `GuessesCostTime` counts the
guesses whose record was written and is still there, and takes what the clock is set
forward by for time that passed: `lockoutRemainingMs` compares two readings of
`Date.now()` and cannot do otherwise. A clock that is set back only makes the wait
longer. `LockComesDue` leaves out resumes after the clock was set back during the spell:
`shouldLock` notices a clock before the beginning of the spell, not one that only lost
some of it.

`OnlyPairedSessions` and `SealedToKnown` allow, besides the scanned key, the one that a
press of accept had its own request answered with. They say that no other key gets in,
whatever is served before, after or meanwhile; they do not say that the user knows the
key that did, or that it is the paired one (section 4). `VerifiedIsOneKey` leaves out
addresses for which another method ran during one of the verify screen's, or a restart
cut one off: each then puts back a contact it read before.

`AckedIsKept` says that a note that opened is stored or about to be when the relay drops
it, unless its own handler threw or died before that. Notes that do not open are
acknowledged by the code and are not in it. `ConversationAgrees` leaves out the time
after two methods on the row have overlapped, one of which loses its update; a note that
was stored and whose handler then failed before counting it is in its row and not in
the count, which the property says.

**Fairness.** `Relay` assumes weak fairness of `Push` and `Drain`, which are the
continuations of handlers whose awaited promise the in-memory store has already
resolved, so that the event loop runs them. `ConnectedReceives` says that a message
queued while an authenticated connection is registered for its account reaches that
connection's inbox, or the connection closes. In the second case it stays queued for
the next one, which `NoMissedDelivery` is about. `Messages` assumes weak fairness of
`purgeExpired`, which an interval of 30 seconds calls for as long as the app is open
(`App.tsx:305-313`), and of the deletions it has asked the database for. Nothing is
assumed of clients, peers, the network, the clock or the other timers.

## 4. What disagrees with the repository's own words

* **A repeated message can end a session** (`ratchet_replay`). `ratchetDecrypt`
  re-keys for any header key that is not the current one, before it authenticates
  the message (`doubleRatchet.ts:425`). A message of a chain already left, handed
  over again after its key was used, makes the receiver close the live chain and
  derive new keys from an old one; the peer's next message does not open. The
  comment at 451-452 and `docs/PROTOCOL.md:174-175` promise the opposite.
* **The first session wipes the signed prekey** (`handshake_signed_key`).
  `initialiseResponder` takes the store's signed pair by reference, and the first
  turn of the ratchet zeroes its secret (`doubleRatchet.ts:375`). The next device
  that uses the published key cannot be answered. The comment at
  `session.ts:177-178` calls it the key "the responder is guaranteed to hold".
* **A restarted device is not reachable with its published keys**
  (`handshake_restart`). `Messenger.start` makes new prekeys, the relay keeps those
  of the first registration, and both number them from 1. `messenger.ts:240-241`
  and `docs/SECURITY.md:174-175` say that to handshake again "is always safe".

These three are shown by runs. Eight more statements of the repository are written
down in the modules beside the properties that do hold, each with a configuration of
its own, and TLC finds a behaviour of the code that violates each one:

* **A lock costs messages** (`SessionsAreNoLoss`, `DeviceSessions.cfg`). `lock()`
  destroys the live sessions (`App.tsx:346-351`), "for no benefit" in keeping them
  (340-342); the peer is not told and goes on in its own. What it writes until the next
  unlock does not open then, and `sync()` acknowledges it all the same
  (`messenger.ts:554-560`, `618-633`).
* **A start can show a screen without a vault** (`ScreensNeedVault`,
  `DeviceScreens.cfg`). A start that a lock overtakes goes on and sets its route
  (`App.tsx:291`), where lines 4-8 promise that the vault is unlocked before any screen
  that can read messages.
* **An absent failure record makes the next guess free** (`AbsentIsLocked`,
  `DeviceAbsent.cfg`). `unlockPolicy.ts:19-21` and `119-122` say that an absent counter
  is a lock-out for the base interval; line 133, and `pairing.test.ts:299-301`, take it
  for a first run.
* **An unreadable failure record locks out for good** (`LockoutsEnd`,
  `DeviceForGood.cfg`). It counts as a failure of the present moment at each reading
  (`unlockPolicy.ts:129-132`), a refused start records nothing, and only a success
  rewrites it. Line 40 says that the owner is never locked out permanently, and
  `docs/ASSESSMENT.md:132-133` that corrupting the counter "imposes a lockout".
* **A press of accept ends the pin of the pairing** (`PinnedForGood`,
  `ContactsPaired.cfg`). `pairing.ts:13-17`: "the peer's identity key is pinned
  permanently", a change is "a hard stop, not a prompt". The verify screen prompts; after
  the press the paired address has the new key, and sessions are made with it, for
  `decideOutbound` looks at the address alone.
* **The accepted key is not the compared one** (`AcceptedWasCompared`,
  `ContactsCompared.cfg`). `VerifyScreen.tsx:56` asks to "compare the new number below
  before you accept it", and its button (89) says "I compared it". The number is that of
  the identity on file; the key accepted is that of a bundle fetched after the press
  (`messenger.ts:726-727`), and nothing compares it with the address.
  `relayClient.ts:155` says that a relay "cannot substitute keys".
* **A message is acknowledged while it is being stored** (`AckedWhenProcessed`,
  `MessagesAcked.cfg`). `sync` is to "process everything queued, then acknowledge"
  (`messenger.ts:618`). The socket drains the same queue: handed over a second time, a
  message fails, is answered with its id, and is acknowledged while the first handling
  is between two awaits.
* **The disappearing timer can be overwritten** (`TimerIsKept`, `MessagesTimer.cfg`).
  `touchConversation` and `markRead` put back the conversation they read before the
  timer was set (`messenger.ts:251-258`, `754-772`, `796-802`); `contacts.test.ts:128-141`
  expects the timer to persist.

The others below were met while modelling. The first three of them are statements TLC
refutes when they are added to a configuration (`ConnectedIsKeyed` and
`TornDownStaysEnded` in `Calls.cfg`; for the first, that `sockets[a]` is always a subset
of `open`, in `RelayAccounts.cfg`); the rest are what the exclusions of section 3 stand
for, or follow from the code directly.

Relay and calls:

* A closed connection can stay registered. Authenticating a socket a second time, as
  another account, leaves it in the first account's set for good (`relay.ts:349-352`,
  `405-410`), where the comment at 101 says "currently connected". Delivery is not
  affected, memory is.
* Answering twice can carry a call without frame encryption. Nothing marks a call as
  being answered (`callManager.ts:223`); a second tap starts a second engine, which
  gets both sets of keys, while the first connects. Lines 276-277 promise keys before
  the call is reported connected.
* A call can come back after it ended. `answerCall` sets `connecting` after its
  signal was sent (`callManager.ts:256`), whatever has happened; a hang-up handled in
  between is undone. `call.test.ts:301-306` expects the call to be over. For the same
  reason an `endCall` that was sending its notification ends the next call if that has
  begun by then (line 371).
* `App`'s `muted` is never reset between calls, and `setMuted` does nothing before the
  engine has its local stream: the screen can say muted while the microphone is live.
* Messages sent over the socket pass no rate limiter (`relay.ts:367-389`). A token
  lives a day and is renewed only by `initialise`.

Locking and unlocking:

* A start, a pairing or a delivered message that a lock overtakes goes on with the
  wiped key, and its rows are sealed under 32 zero bytes, where `storage.ts:11-13` and
  `App.tsx:6-8` say that nothing can be read after a lock. If it is the pairing's row,
  every later start fails on it.
* A start that fails after the vault was opened leaves it open; a second one replaces
  the refs, and no lock reaches the first vault any more.
* A reconnection that was scheduled before the lock opens the socket after it, and what
  it delivers is acknowledged and not stored.
* A lock before the first vault was written shows the unlock screen, whose passphrase
  then makes a vault without the confirmation the other screen asks for.
* A guess whose record could not be written is not counted. A clock that is set forward
  shortens the lock-out, also one recorded while the clock was back
  (`unlockPolicy.ts:82-85`).
* A lock can zero a session that is about to be used: `destroySession` reaches
  `destroyRatchet` (`session.ts:415-417`), which wipes keys in place, and a `sendText`
  suspended at its `messages.put` still finds the session in its messenger's Map and
  seals under the zeroed chain key. No model has this.

Messages and contacts:

* A text whose process was killed stays `pending`. It becomes `sent` also when the
  relay had no account for the address. `sent` overwrites a `delivered` that was
  faster.
* What waits at the relay when the phone restarts is lost, as after a lock. So is what a
  peer sealed under the wiped prekey, in a session that crossed this phone's, or in one
  that a repeated message has re-keyed: it does not open and is acknowledged.
* A note that is stored and whose handler then fails is in its row and not in the unread
  count.
* `rememberPeer` and `addContactFromCode` write the identity before the contact, and the
  methods of the verify screen put back a contact read earlier: contact, pin and
  identity on file may then differ.

## 5. What is proved

The proofs assume only the named ASSUMEs (`Sizes` and `ShortConversations`
are hypotheses of their theorems):
`SkipBounds` and `DeliveryMode` (`Ratchet`, `DoubleRatchet`), `TtlsAreTimes` and
`QueueHolds` (`AuthService`, `Relay`), `FrameBounds` (`SFrame`), `Pools` (`PreKeys`),
`TimersAreTimes` and `IdsDiffer` (`Messages`), `LockoutGrows` (`UnlockPolicy`), `Bounds`
(`Device`), `CallBounds` (`Calls`).
`SkipBounds` asks that the cache hold the gaps of two chains, as 2000 holds two of
1000. `IdsDiffer` says that texts and notes have different ids: both are random UUIDs.
`LockoutGrows` only says that the lock-outs are positive numbers.

* **`DoubleRatchetProofs`.** `KeysNeverReused` and `CopiedStateGoesStale`, for any
  number of messages, turns and replays. `MessageKeysUnique` says nothing of the
  keys still to be used, so it is not inductive. `KeyInv` adds that a message of a
  sending chain still in use has a smaller number than the chain's next, that the
  last output of such a chain is the side's own pair with an older pair of the
  peer, so that chains of different pairs have different roots, and that no pair
  beyond `nextKey` occurs anywhere. The receiving half of the state is irrelevant to
  it: a lemma per operator of `RatchetProofs` says that it keeps the sending half or
  replaces it by a fresh turn, whether the call succeeds or throws.

  `SessionsWellTyped`, `DeliveredOnce` and `DeliveredIsForgotten` are about that other
  half, for any bounds of the cache and any arrivals. What a side can still open is what
  is ahead in its receiving chain and what its cache holds. `Whole` says that the cache
  keeps its bound and holds each key once, of its own chain only ones behind the position
  reached, and of other chains none longer than the root; `Spent(s, k)` that `k` is
  neither ahead nor in the cache, nor of a chain still to come, as those are longer.
  `SpentInv` adds that every delivered key is spent at its receiver, and that the chains
  of the two sides are derived at alternate agreements: the parity of a chain's length
  tells them apart, so that neither device's state derives a delivered key. TLC checked
  `SpentInv` on the instance of the run `ratchet` before it was proved.

  `LateMessagesDecrypt` says that something does open, so it needs what the two sides
  have in common, message by message. `StepInv` says that they are in step as long as
  no message of a left chain arrived whose key was gone: `InStep(s, t, A, B, gone)` has
  one of the two lead, its root being one agreement ahead, which the other derives with
  the first message that reaches it; and a `Stream` in each direction, by which every
  message of `A` that `s` sealed is numbered without holes in a chain of its own, and
  its key is ahead in `t`'s chain, in `t`'s cache, of the chain `t` enters next, or in
  `gone`. That a late message of an earlier chain must be in the cache then leaves one
  case in which the receiver turns, and in that case it derives the very chain of the
  sender. TLC checked `StepInv` on the instance of the run `ratchet` before it was
  proved.
* **`RatchetProofs`**, the operators behind both proofs about sessions. `Moves(s, t)`
  is what every call does to the keys a state can open with: it stays `Whole`, and what
  is spent stays spent. It composes, so a lemma for each of skipping, turning, consuming
  and committing gives `DecryptMoves` for the whole of `ratchetDecrypt`: a message that
  opens leaves its key spent, and one whose key is spent throws. Calls that throw
  half-way are included. The loop of `skipReceivingKeys` is a function on the prefixes of
  what it stores; a property that every step keeps holds after the last, for otherwise
  there would be a least prefix without it (`LeastNumber`).

  `StartInStep`, `SealInStep` and `ReceiveInStep` are the steps of `InStep`, and
  `DecryptsInStep` its use: a message whose key is not gone, within the gaps the code
  closes, opens. The last entries of the cache are followed through the loop one by one
  (`RememberAllLatest`), for what a message stores must not push out what the same
  message stored before: that is why the cache must hold the gaps of two chains.
  For `HandshakeProofs` a second group counts: of no more messages than the gap the
  code closes (`Few`, `ShortReach`), none is out of reach and none is evicted
  (`ReceiveKeepsCache`), and what is not gone never makes its receiver turn wrongly
  (`TimelyUnlessGone`).
* **`RelayProofs`.** All six safety properties of the relay. The type invariant
  needs that `Overflow` keeps at most `MaxQueue` numbers, and
  `NothingLostSilently` that what it drops has `MaxQueue` larger ones above it:
  two lemmas on finite sets of numbers. `NoMissedDelivery` is inductive once it is
  known that a queued message of an account is one of its accepted ones.
  `EarnedOnce` is strengthened with: every pending challenge is different from
  those already exchanged, and every number in use is at most `drawn`.
  `OnlyKeyHoldersRead` with: every token in the map has its grant, and what is
  being drained or pushed to a registered connection is for an account proven on
  it. `ClosedAreForgotten` is inductive with the types.

  `RelayIsMailbox`: `Relay` implements `Mailbox`. Each handler maps to one step of the
  box or to none. `Post` is the step that needs work: the acceptance numbers that
  `Overflow` keeps are the newest, so that what it drops has `MaxQueue` newer ones.

  `LimiterHolds`, the limiter in front of `Post`, for any number of clients, limit, window
  and table. The invariant adds that a tracked bucket agrees with its client's own
  reckoning: a bucket that lapsed or was swept belongs to a window that is over, or to a
  client in `forgotten`. That the table keeps room needs the cardinality of what a sweep
  leaves.
* **`CallsProofs`**, the calls and their media. All four properties of `Calls`, for any
  devices, calls, engines and media keys, and any arrivals. `TypeInv` gives `TypeOK`;
  it needs that an optional field holds at most one value. The rest starts from
  `CallsInv`: the first engine made for a call is its caller's and every other is its
  callee's, and every signal, task and manager names engines of its own call, whatever
  is late or lost; and from `OneGuest`: a call is offered to one device only.
  - `FreshInv`: a caller's engine takes one answer, and a callee's engine is in one
    createAnswer, so that the two engines of a key meet once on each side; hence
    `FreshFrameKeys`.
  - `WordsInv`: an open engine is the one its manager holds, and a manager's fingerprints
    are those of the two engines of its call; hence `SameWords`. It holds until an answer
    is started twice, which is the exception the property makes.
  - `EndInv`: a call is offered once, to a device that has not heard of it, so that
    nothing that is still on its way takes up what was torn down; hence
    `EndedLeavesNothing`.

  TLC checked each on the instance of the run `calls` before it was proved.

  Of `SFrame`, all four properties. `WindowInv` relates the two inequalities of the
  code: a counter accepted is remembered, or so old that the age test refuses it.
* **`HandshakeProofs`.** `PreKeysServeOnce`, for any devices, restarts, pools and
  arrivals. The property compares keys that exist; `PoolInv` adds that every key in
  a pool or a bundle is older than `nextKey`, and that no two pools, and no two
  places of one, hold the same key. A step does one of three things to the pools,
  a lemma each: nothing, an upload (the keys that were there, in their places, then
  new ones, cut at the end), or taking the first.

  `OneTimeSecretsWait` adds `WaitInv`: every preamble, whether pending in a session, sent
  or answered, names the ids of a bundle its addressee's pool gave out (`NamesIssued`); on
  a device in its first life ids are never used for two keys, what is in its pool is in
  its store, and each bundle's keys are there or were answered (`Life`). Without the first
  life it is false, and the model says so: ids start again at 1 with every store.

  `AnsweredOnce` holds although a handshake may name no one-time key, and its reason is a
  line written for another purpose: answering ends in a turn, and the turn wipes the
  signed prekey the answer needed. `OnceInv` follows that secret. Whatever was sealed
  with a preamble, or will be by a session that still sends one, is tagged with the
  ephemeral key and the secrets of its handshake (`Tagged`). An ephemeral key has one
  set of secrets (`OneRoot`); at most one device's signed prekey is among them, for no
  two devices ever have the same (`KeysApart`); and once it was answered, none is
  (`TagSafe`). A message that opens was sealed under the root the answer computes, so
  the answer's own secret is in its tag. TLC checked `OnceInv` on the instance of the run
  `handshake` before it was proved.

  `TypeOK` needs it all and that every session's ratchet is `Whole` (`TypeInv`), since
  the cache keeps its bound only together with what `Whole` says of the chains.

  `SessionsUnderstand` joins the two halves of the project: it says of any two sessions
  of one handshake what `LateMessagesDecrypt` says of the two of one conversation. The
  invariant has two layers. `RoleInv` gives every handshake an initiator and a
  responder: its newest secret is the initiator's ephemeral key, messages with a preamble
  go one way, and the responder's sessions and messages exist only once the handshake was
  answered (`Closed`). So an initiator that has heard nothing may be alone for long, its
  peer restarted or never reached. `PairsInStep` says what holds of it until then
  (`Waiting`): it is in step with the ratchet the answer would make (`Virtual`), and the
  only secret of a device in its root is the one its first turn used, so the answer,
  whenever it comes, makes that ratchet. From the answer on the two sessions are in step
  (`Together`), where what has arrived counts as gone. TLC checked both layers on the
  instance of the run `handshake` before they were proved.

  Two theorems come of it. `ShortSessionsAlwaysUnderstand` has no hypothesis and is about
  pairs of sessions of which neither has sent more than `MaxSkipPerChain` (1000 in the
  code) messages to the other: beyond that a gap may be too large or a key evicted, and
  then the property is false, as `OutOfOrderDecrypts` says in detail.
  `SessionsAlwaysUnderstand` is the run's property under the hypothesis that no more is
  sent in all (`ShortConversations`), which the run's bounds satisfy.
* **`ContactsProofs`.** All three properties of `Contacts`, for any identities and any
  number of methods under way. `OnlyPairedSessions` rests on the order of the screens:
  until there is a pairing nothing is under way but one pairing, so that no method that
  began before it can store a session after it (`PairingInv`). `SealedToKnown` needs, of
  every contact, session and send under way, that its key is the scanned one of its own
  address or came as the answer to a press of accept for it; that a contact is never
  removed makes the pin check of `ensureSession` compare with such a key, which is what
  keeps out every other bundle. `VerifiedIsOneKey` needs what each method has read or written
  and still counts on (`StillSo`), and that on an undisturbed address a method of the
  verify screen runs alone.

  `RootsAgree`, about the operators of `Agreement`: the responder derives the
  initiator's root exactly when the secrets it finds under the ids are those of the
  bundle. So a key of another life, or a wiped one, gives a different root and no error,
  which is why `Handshake` may keep of a root only the secrets in it, and why the two
  violations of section 4 show as messages that do not open. `RootsTellHandshakesApart`,
  `SealedForOne`, `BundleKeysAreSigned` and `SafetyNumbersAgree` are about the
  transcript, the envelope, the bundle and the number two people compare. They hold of
  the symbolic operators, by case analysis.
* **`MessagesProofs`.** The three safety properties of `Messages`, for any texts, notes,
  timers and restarts, and any number of handlers under way. One invariant serves all
  (`Inv`). `TextOK` says of a text that its mark is earned and that each thing that could
  still change the mark is too: a request seen answered was answered, and a receipt sent
  or being handled is of a text the peer stored. `NoteOK` says of a note that one that
  is about to be acknowledged is stored, in the hands of its handler, was tried and did
  not open, or had its handler fail; and that a note is opened once, then stored, then
  counted. Which notes open is left to chance, so the theorems assume nothing of it.
  `RowAgrees` is the property with the finiteness of what was counted. A lemma per
  action shows the part it touches; `TextStays` and `NoteStays` say that the others do
  not notice.
* **`DeviceProofs`.** `TypeOK`, `IdentityWhole`, `KeysAreLocked`, `LockIsOrderly`, and
  the action properties `LockComesDue` and `GuessesCostTime`, for any policy, grace
  period and clock and any number of starts. `DeviceInv` has a part for each:
  - `Alone`: the screens' `busy` is exactly "a start or a pairing is under way", so there
    is never more than one. Everything else rests on it.
  - `KeysFound`: a data key is where `lock()` finds it, or on its way from the wrapped
    blob to the refs, or left by a start that failed; hence `KeysAreLocked`.
  - `PartsInOrder`: the three entries of an identity are written in order by one start,
    the last only after the others, so that a kill between two leaves an identity that
    the next start reads as absent, and never one of two halves.
  - `OneKey`: whoever writes or reads rows has the wrapper's key, until a lock comes
    while something is under way; hence `LockIsOrderly`.
  - `AwayMeasured`: the moment on record is the first of the spell and, on a clock that
    was not turned back, at most `clock - away`; hence `LockComesDue`.
  - `GuessesCounted`: the record holds the wrong guesses less those lost, and the one
    that a guess under way is about to write holds one more; neither is older than what
    has passed since, with what the clock was set forward by (`GuessesAge`); hence
    `GuessesCostTime`. A record that is lost takes its guesses along, and an unreadable
    one lets nobody try. That the lock-out `Lockout`
    is at most `MaxLockout`, and that of the first failure past the free attempts is
    positive, are lemmas.

  `TypeOK` needs a second layer, `Keyed`: whoever may come to write has some key, its
  own or the zeros that a lock left.

Every safety invariant and action property of the runs is proved. Model-checked only:
`ConnectedReceives` and `NothingOverstays`, liveness properties, which are out of the
prover's reach. The limiter is proved and not run: its state is small and its two
properties are the theorem.

## 6. What is not modelled

Byte formats, padding, base64 and key derivation: they carry no state. The relay
process's start, proxy and containers, Android configuration, layout and styling. The
WebRTC stack and the operating system's keystore, which are native code. Mute,
`confirmSas` and ICE candidates. `start` reads the wrapped vault in the keystore's
present mode although the route was chosen by reading both; the mode never changes in
`Device`. What a send does that a lock catches before it seals (section 4). What the application never calls: `AuthService.revoke`,
`rotateSignedPreKeys`, `issueBundle`, `changePassphrase`, `unpair`,
`renamePairedPeer`, `exportIdentityBackup`, the route `new-conversation`.

## 7. What could come next

1. An abstract conversation, what two people may rely on, that `Messages` over `Relay`
   implements for two phones.
2. Mute and `confirmSas` in `Calls`.
