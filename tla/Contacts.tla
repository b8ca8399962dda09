------------------------------- MODULE Contacts -------------------------------
(***************************************************************************)
(* Who a phone talks to: pairing, contacts, pins and sessions of           *)
(* core/messenger.ts in 'paired' mode, with pairing.ts.                    *)
(*                                                                         *)
(* An address is a hash of an identity's signing key, so identities stand  *)
(* for their addresses and their keys.  A handler runs undisturbed from one*)
(* await to the next; what it has read before an await stays what it read. *)
(* The relay answers a bundle request with any identity whose signatures   *)
(* verify: fetchBundle does not compare it with the address asked for, the *)
(* contact's key does.                                                     *)
(***************************************************************************)
EXTENDS Naturals, FiniteSets

CONSTANTS
  Identity,  \* the identities that may be met, this phone's own excepted
  Task,      \* bound: handlers under way at once
  MaxSealed  \* bound: messages sealed

VARIABLES
  pairing,      \* this.pairing, and the row it is loaded from: sets of at most one
  pairingRow,
  contact,      \* rows of contacts: key and verification, by address
  meta,         \* rows of sessions: the peer's identity, by address
  pin,          \* pinnedKeyCache
  session,      \* the sessions Map: the identity each is with
  tasks,        \* asynchronous methods under way
  scanned,      \* history: identities whose codes the user scanned
  compared,     \* history: identities whose numbers the screen showed at a press of accept
  taken,        \* history: keys the relay served for those presses, with their address
  sealed,       \* history: the messages sealed, by address, with the key each is for
  disturbed     \* history: addresses with a method overtaken by the verify screen's, or cut off

rows   == <<pairingRow, contact, meta>>
memory == <<pairing, pin, session>>
history == <<scanned, compared, taken, sealed>>
vars   == <<rows, memory, tasks, history, disturbed>>

None == [key |-> {}, verification |-> "none"]
Contact(k, v) == [key |-> {k}, verification |-> v]

Idle == [op |-> "idle", of |-> {}, with |-> {}]
Call(op, a)      == [op |-> op, of |-> {a}, with |-> {}]
Knows(op, a, ks) == [op |-> op, of |-> {a}, with |-> ks]
Doing(t, op, a)  == tasks[t].op = op /\ tasks[t].of = {a}
Becomes(t, task) == tasks' = [tasks EXCEPT ![t] = task] /\ UNCHANGED disturbed

\* The methods of the verify screen, and the first step of any.
VerifyOps == {"markPut", "markPin", "acceptFetch"}

Begins(t, task) ==
  /\ tasks[t] = Idle
  /\ tasks' = [tasks EXCEPT ![t] = task]
  /\ disturbed' = disturbed \cup
       {a \in task.of : \E s \in Task :
          a \in tasks[s].of /\ {tasks[s].op, task.op} \cap VerifyOps # {}}

Init ==
  /\ pairing = {} /\ pairingRow = {}
  /\ contact = [a \in Identity |-> None]
  /\ meta = [a \in Identity |-> {}]
  /\ pin = [a \in Identity |-> {}]
  /\ session = [a \in Identity |-> {}]
  /\ tasks = [t \in Task |-> Idle]
  /\ scanned = {} /\ compared = {} /\ taken = {} /\ sealed = {} /\ disturbed = {}

-----------------------------------------------------------------------------
(* Pairing.                                                                *)

PairOps == {"pairContact", "pairRow"}

\* The pair screen, disabled while busy.  parseVerificationQrPayload has
\* checked the code; addContactFromCode begins with the identity's row.
PairWithCode(t, k) ==
  /\ pairing = {}
  /\ \A s \in Task : tasks[s].op \notin PairOps
  /\ scanned' = scanned \cup {k}
  /\ meta' = [meta EXCEPT ![k] = {k}]
  /\ Begins(t, Call("pairContact", k))
  /\ UNCHANGED <<pairingRow, contact, memory, compared, taken, sealed>>

\* The contact, verified from the start, and its pin.
PairContact(t, k) ==
  /\ Doing(t, "pairContact", k)
  /\ contact' = [contact EXCEPT ![k] = Contact(k, "verified")]
  /\ pin' = [pin EXCEPT ![k] = {k}]
  /\ Becomes(t, Call("pairRow", k))
  /\ UNCHANGED <<pairingRow, meta, pairing, session, history>>

PairRow(t, k) ==
  /\ Doing(t, "pairRow", k)
  /\ pairingRow' = contact[k].key /\ pairing' = contact[k].key
  /\ Becomes(t, Idle)
  /\ UNCHANGED <<contact, meta, pin, session, history>>

decideOutbound(a) == pairing = {a}

\* A lock that lets anybody write to a device without a pairing, and the code's
\* for a sender, whose address is its key's.
DecideInboundOpen(a) == pairing = {} \/ pairing = {a}
decideInbound(a)     == pairing = {a}

-----------------------------------------------------------------------------
(* Sending: sendPayload and ensureSession.                                 *)

Seal(a, ks) == sealed' = sealed \cup {<<a, k>> : k \in ks}

SendOps == {"sendFetch", "sendCheck", "sendMeta"}

\* From the chat of a contact.  With a session it is sealed at once.
Send(t, a) ==
  /\ contact[a] # None
  /\ Cardinality(sealed) < MaxSealed
  /\ decideOutbound(a)
  /\ IF session[a] # {}
     THEN Seal(a, session[a]) /\ UNCHANGED <<tasks, disturbed>>
     ELSE Begins(t, Call("sendFetch", a)) /\ UNCHANGED sealed
  /\ UNCHANGED <<rows, memory, scanned, compared, taken>>

\* The bundle arrives: of the address, or whatever the relay serves for it.
SendFetched(t, a) ==
  /\ Doing(t, "sendFetch", a)
  /\ \E k \in Identity : Becomes(t, Knows("sendCheck", a, {k}))
  /\ UNCHANGED <<rows, memory, history>>

\* No bundle: the send fails.
SendFails(t, a) ==
  /\ Doing(t, "sendFetch", a)
  /\ Becomes(t, Idle)
  /\ UNCHANGED <<rows, memory, history>>

\* A pin check that lets a changed key pass, and the code's: the contact as it
\* is now must have the key presented.
AnyKey(c, ks)   == TRUE
KnownKey(c, ks) == c = None \/ c.key = ks

Flag(a) == contact' = [contact EXCEPT ![a].verification = "changed"]

SendChecked(t, a) ==
  LET presented == tasks[t].with IN
  /\ Doing(t, "sendCheck", a)
  /\ IF KnownKey(contact[a], presented)
     THEN /\ session' = [session EXCEPT ![a] = presented]
          /\ contact' = IF contact[a] # None THEN contact
               ELSE [contact EXCEPT ![a] = [key |-> presented, verification |-> "unverified"]]
          /\ Becomes(t, [tasks[t] EXCEPT !.op = "sendMeta"])
     ELSE Flag(a) /\ Becomes(t, Idle) /\ UNCHANGED session
  /\ UNCHANGED <<pairingRow, meta, pairing, pin, history>>

\* Its identity on file; then the message is sealed to the session this call
\* got, whatever the Map holds by now.
SendSealed(t, a) ==
  /\ Doing(t, "sendMeta", a)
  /\ meta' = [meta EXCEPT ![a] = tasks[t].with]
  /\ Seal(a, tasks[t].with)
  /\ Becomes(t, Idle)
  /\ UNCHANGED <<pairingRow, contact, memory, scanned, compared, taken>>

-----------------------------------------------------------------------------
(* Receiving: handleDelivered and rememberPeer.                            *)

\* An envelope that decrypts, from an identity.  A pin for another key, or the
\* pairing lock, ends it; otherwise the session is stored.
Receive(t, k) ==
  /\ pin[k] \subseteq {k}
  /\ decideInbound(k)
  /\ session' = [session EXCEPT ![k] = {k}]
  /\ Begins(t, Call("receiveMeta", k))
  /\ UNCHANGED <<rows, pairing, pin, history>>

RememberIdentity(t, k) ==
  /\ Doing(t, "receiveMeta", k)
  /\ meta' = [meta EXCEPT ![k] = IF @ = {} THEN {k} ELSE @]
  /\ Becomes(t, Call("receiveContact", k))
  /\ UNCHANGED <<pairingRow, contact, memory, history>>

RememberContact(t, k) ==
  /\ Doing(t, "receiveContact", k)
  /\ IF contact[k] = None THEN contact' = [contact EXCEPT ![k] = Contact(k, "unverified")]
     ELSE IF contact[k].key # {k} THEN Flag(k)
     ELSE UNCHANGED contact
  /\ Becomes(t, Idle)
  /\ UNCHANGED <<pairingRow, meta, memory, history>>

-----------------------------------------------------------------------------
(* The verify screen.                                                      *)

\* Its button needs a safety number, which comes from the identity on file.
\* The contact as it is read is put back, with its mark.
MarkVerified(t, a) ==
  /\ contact[a].verification = "unverified" /\ meta[a] # {}
  /\ Begins(t, Knows("markPut", a, contact[a].key))
  /\ UNCHANGED <<rows, memory, history>>

MarkPut(t, a) ==
  /\ Doing(t, "markPut", a)
  /\ contact' = [contact EXCEPT ![a] = [key |-> tasks[t].with, verification |-> "verified"]]
  /\ Becomes(t, [tasks[t] EXCEPT !.op = "markPin"])
  /\ UNCHANGED <<pairingRow, meta, memory, history>>

\* A pin beside an older one, and the code's.
PinnedToo(a, ks) == [pin EXCEPT ![a] = @ \cup ks]
Pinned(a, ks)    == [pin EXCEPT ![a] = ks]

MarkPinned(t, a) ==
  /\ Doing(t, "markPin", a)
  /\ pin' = Pinned(a, tasks[t].with)
  /\ Becomes(t, Idle)
  /\ UNCHANGED <<rows, pairing, session, history>>

\* An identity that stays on file, and the code's.
FiledStill(a) == meta
Unfiled(a)    == [meta EXCEPT ![a] = {}]

\* acceptIdentityChange drops the session, the pin and the identity first.  The
\* screen shows the number of the identity on file.
AcceptChange(t, a) ==
  /\ contact[a].verification = "changed"
  /\ compared' = compared \cup {<<a, k>> : k \in meta[a]}
  /\ session' = [session EXCEPT ![a] = {}]
  /\ pin' = [pin EXCEPT ![a] = {}]
  /\ meta' = Unfiled(a)
  /\ Begins(t, Call("acceptFetch", a))
  /\ UNCHANGED <<pairingRow, contact, pairing, scanned, taken, sealed>>

\* The contact gets the key of the bundle this request is answered with,
\* whichever the refused one had.
AcceptFetched(t, a) ==
  /\ Doing(t, "acceptFetch", a)
  /\ \E k \in Identity :
       /\ contact' = [contact EXCEPT ![a] = Contact(k, "unverified")]
       /\ taken' = taken \cup {<<a, k>>}
  /\ Becomes(t, Idle)
  /\ UNCHANGED <<pairingRow, meta, memory, scanned, compared, sealed>>

AcceptFails(t, a) ==
  /\ Doing(t, "acceptFetch", a)
  /\ Becomes(t, Idle)
  /\ UNCHANGED <<rows, memory, history>>

-----------------------------------------------------------------------------
(* The process ends, or the vault is locked and opened again: rows stay,   *)
(* and loadPins brings back the pins of verified contacts.                 *)

PinsOf(contacts) ==
  [a \in Identity |-> IF contacts[a].verification = "verified" THEN contacts[a].key ELSE {}]

Restart ==
  /\ pairing' = pairingRow
  /\ pin' = PinsOf(contact)
  /\ session' = [a \in Identity |-> {}]
  /\ tasks' = [t \in Task |-> Idle]
  /\ disturbed' = disturbed \cup UNION {tasks[t].of : t \in Task}
  /\ UNCHANGED <<rows, history>>

Next ==
  \/ \E t \in Task, a \in Identity :
       \/ PairWithCode(t, a) \/ PairContact(t, a) \/ PairRow(t, a)
       \/ Send(t, a) \/ SendFetched(t, a) \/ SendFails(t, a) \/ SendChecked(t, a)
       \/ SendSealed(t, a)
       \/ Receive(t, a) \/ RememberIdentity(t, a) \/ RememberContact(t, a)
       \/ MarkVerified(t, a) \/ MarkPut(t, a) \/ MarkPinned(t, a)
       \/ AcceptChange(t, a) \/ AcceptFetched(t, a) \/ AcceptFails(t, a)
  \/ Restart

Spec == Init /\ [][Next]_vars

-----------------------------------------------------------------------------
(* Properties.                                                             *)

AtMostOne(s) == \A x, y \in s : x = y
KeySet == {ks \in SUBSET Identity : AtMostOne(ks)}

\* Every variable keeps to its values; at most one identity is paired, pinned
\* or on file for an address.
TypeOK ==
  /\ pairing \in KeySet /\ pairingRow \in KeySet
  /\ contact \in [Identity -> [key : KeySet,
                   verification : {"none", "unverified", "verified", "changed"}]]
  /\ meta \in [Identity -> KeySet] /\ pin \in [Identity -> KeySet]
  /\ session \in [Identity -> KeySet]

\* However handlers, the pairing and restarts interleave, a session in the Map
\* is at the paired address and, whatever bundles the relay serves, with the
\* identity whose code was scanned; only a press of accept lets another in, the
\* one key its own request was answered with (messenger.ts:327-354, 532-548).
OnlyPairedSessions ==
  \A a \in Identity : session[a] # {} =>
    /\ pairing = {a}
    /\ \A k \in session[a] : (k = a /\ k \in scanned) \/ <<a, k>> \in taken

\* A message is sealed to the key its address belongs to, from a code the user
\* scanned; only after a press of accept to another, the one its own request was
\* answered with and none served before or after (messenger.ts:339-354, 717-731).
SealedToKnown ==
  \A m \in sealed : (m[1] = m[2] /\ m[2] \in scanned) \/ m \in taken

\* What pairing.ts:13-25 says of this lock: the identity key is pinned for good,
\* a change of it a hard stop, so that a session is with the paired identity.
PinnedForGood == \A a \in Identity : session[a] \subseteq pairing

\* What the verify screen says at the press (VerifyScreen.tsx:52-56, 89): a key
\* is accepted whose number the user was shown.
AcceptedWasCompared == taken \subseteq compared

\* The safety number shown, the contact and the pin of a verified contact are
\* about one key, after refused and half-done changes too (messenger.ts:706-731,
\* 742-748).  Not so when another method ran during one of the verify screen's,
\* each puts back the contact it read before, or when the process ended between
\* the writes of one (messenger.ts:395-428, 298-317).
VerifiedIsOneKey ==
  \A a \in Identity \ disturbed :
    contact[a].verification = "verified" /\ (\A t \in Task : a \notin tasks[t].of) =>
      meta[a] \cup pin[a] \subseteq contact[a].key
=============================================================================
