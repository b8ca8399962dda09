---------------------------- MODULE ContactsProofs ----------------------------
(***************************************************************************)
(* Who is talked to and under which keys, for any identities and any       *)
(* number of handlers under way.                                           *)
(***************************************************************************)
EXTENDS Contacts, Agreement, TLAPS

TaskOp == {"idle", "pairContact", "pairRow", "sendFetch", "sendCheck", "sendMeta",
           "receiveMeta", "receiveContact", "markPut", "markPin", "acceptFetch"}
TaskRecord == [op : TaskOp, of : KeySet, with : KeySet]
ContactRecord == [key : KeySet, verification : {"none", "unverified", "verified", "changed"}]

TypesInv == TypeOK /\ tasks \in [Task -> TaskRecord]

-----------------------------------------------------------------------------
(* The pairing.  Until there is one, nothing is under way but pairings,    *)
(* one at a time; from then on it does not change.                         *)

Talking == SendOps \cup {"receiveMeta", "receiveContact"}

Unpaired ==
  pairing = {} =>
    /\ \A t \in Task : tasks[t].op \in PairOps \cup {"idle"}
    /\ \A a \in Identity : /\ contact[a].verification \in {"none", "verified"}
                            /\ contact[a].key \subseteq {a}

PairsOne ==
  \A t \in Task : tasks[t].op \in PairOps =>
    /\ pairing = {} /\ tasks[t].of \subseteq scanned
    /\ \A s \in Task : tasks[s].op \in PairOps => s = t
    /\ tasks[t].op = "pairRow" => \A a \in tasks[t].of : contact[a].key = {a}

TalksToPaired ==
  \A t \in Task : \A a \in tasks[t].of :
    /\ tasks[t].op \in Talking => pairing = {a}
    /\ tasks[t].op \in SendOps => contact[a].verification # "none"

\* A contact without a verification is one that is not there.
Filed == \A a \in Identity : contact[a].verification = "none" => contact[a] = None

\* A session in the Map is at the paired address.
AtPaired == \A a \in Identity : session[a] # {} => pairing = {a}

PairingHolds ==
  /\ pairingRow = pairing /\ pairing \subseteq scanned
  /\ Unpaired /\ PairsOne /\ TalksToPaired /\ AtPaired

PairingInv == Filed /\ PairingHolds

-----------------------------------------------------------------------------
(* The keys messages are sealed to.                                        *)

Trusted(a) == {k \in Identity : (a = k /\ k \in scanned) \/ <<a, k>> \in taken}

\* The methods that put or seal to the keys they hold.
KeyOps == {"sendMeta", "markPut"}

KeysInv ==
  /\ \A a \in Identity : contact[a].key \subseteq Trusted(a) /\ session[a] \subseteq Trusted(a)
  /\ \A t \in Task : \A a \in tasks[t].of :
       tasks[t].op \in KeyOps => tasks[t].with \subseteq Trusted(a)
  /\ SealedToKnown

-----------------------------------------------------------------------------
(* One key for a contact.  On an undisturbed address a method of the       *)
(* verify screen is alone.                                                 *)

VerifiesAlone ==
  \A s, u \in Task : \A a \in (tasks[s].of \cap tasks[u].of) \ disturbed :
    tasks[s].op \in VerifyOps => u = s

\* What a method has read of a contact, or written for it, is still so.
StillSo(t, a) ==
  /\ tasks[t].op \in {"markPut", "markPin", "sendMeta"} => tasks[t].with = contact[a].key
  /\ tasks[t].op = "markPut" => contact[a].verification = "unverified"
  /\ tasks[t].op = "acceptFetch" => meta[a] = {} /\ pin[a] = {}

Remembering(a) == \E t \in Task : tasks[t].op = "receiveContact" /\ a \in tasks[t].of

OneKey(a) ==
  /\ \A t \in Task : a \in tasks[t].of => StillSo(t, a)
  /\ contact[a].verification # "none" => contact[a].key # {}
  /\ pin[a] \subseteq contact[a].key
  /\ meta[a] \subseteq contact[a].key \cup {a}
  /\ contact[a].verification \notin {"none", "changed"} /\ ~Remembering(a)
       => meta[a] \subseteq contact[a].key

OneKeyInv ==
  /\ VerifiesAlone
  /\ \A t \in Task : tasks[t].op = "idle" => tasks[t].of = {}
  /\ \A a \in Identity \ disturbed : OneKey(a)

\* A step about one address, and of one method.
About(a) ==
  \A b \in Identity \ {a} :
    contact'[b] = contact[b] /\ meta'[b] = meta[b] /\ pin'[b] = pin[b]

Local(t, a) ==
  /\ tasks[t].of \subseteq {a} /\ tasks'[t].of \subseteq {a}
  /\ \A s \in Task \ {t} : tasks'[s] = tasks[s]
  /\ About(a)
  /\ disturbed \subseteq disturbed'

-----------------------------------------------------------------------------
LEMMA KeySetFacts ==
  /\ {} \in KeySet /\ \A k \in Identity : {k} \in KeySet
BY DEF KeySet, AtMostOne

LEMMA TypesStep ==
  ASSUME TypesInv, [Next]_vars
  PROVE  TypesInv'
<1>1. /\ pairing \in KeySet /\ pairingRow \in KeySet
      /\ contact \in [Identity -> ContactRecord]
      /\ meta \in [Identity -> KeySet] /\ pin \in [Identity -> KeySet]
      /\ session \in [Identity -> KeySet]
      /\ tasks \in [Task -> TaskRecord]
  BY DEF TypesInv, TypeOK, ContactRecord
<1>2. /\ {} \in KeySet /\ \A k \in Identity : {k} \in KeySet
  BY KeySetFacts
<1>3. ASSUME NEW a \in Identity, Flag(a) PROVE contact' \in [Identity -> ContactRecord]
  BY <1>1, <1>3 DEF Flag, ContactRecord
<1>4. ASSUME NEW a \in Identity, NEW k \in Identity,
             contact' = [contact EXCEPT ![a] = Contact(k, "unverified")]
      PROVE  contact' \in [Identity -> ContactRecord]
  BY <1>1, <1>2, <1>4 DEF ContactRecord, Contact
<1>5. ASSUME NEW t \in Task, Becomes(t, Idle) PROVE tasks' \in [Task -> TaskRecord]
  BY <1>1, <1>2, <1>5 DEF Becomes, Idle, TaskRecord, TaskOp
<1>6. pairing' \in KeySet /\ pairingRow' \in KeySet /\ contact' \in [Identity -> ContactRecord]
      /\ meta' \in [Identity -> KeySet] /\ pin' \in [Identity -> KeySet]
      /\ session' \in [Identity -> KeySet] /\ tasks' \in [Task -> TaskRecord]
      => TypesInv'
  BY DEF TypesInv, TypeOK, ContactRecord
<1>7. ASSUME NEW t \in Task, NEW a \in Identity, PairWithCode(t, a) PROVE TypesInv'
  BY <1>1, <1>2, <1>6, <1>7 DEF PairWithCode, Begins, Call, memory, TaskRecord, TaskOp, ContactRecord
<1>8. ASSUME NEW t \in Task, NEW a \in Identity, PairContact(t, a) PROVE TypesInv'
  BY <1>1, <1>2, <1>6, <1>8 DEF PairContact, Becomes, Call, Contact, history, TaskRecord, TaskOp, ContactRecord
<1>9. ASSUME NEW t \in Task, NEW a \in Identity, PairRow(t, a) PROVE TypesInv'
  BY <1>1, <1>2, <1>6, <1>9 DEF PairRow, Becomes, Idle, history, TaskRecord, TaskOp, ContactRecord
<1>10. ASSUME NEW t \in Task, NEW a \in Identity, Send(t, a) PROVE TypesInv'
  <2>1. CASE session[a] # {}
    BY <1>1, <1>6, <2>1, <1>10 DEF Send, rows, memory
  <2>2. CASE session[a] = {}
    <3>1. tasks' = [tasks EXCEPT ![t] = Call("sendFetch", a)]
      BY <2>2, <1>10 DEF Send, Begins
    <3>2. tasks' \in [Task -> TaskRecord]
      BY <1>1, <1>2, <3>1 DEF Call, TaskRecord, TaskOp
    <3> QED
      BY <1>1, <1>6, <3>2, <1>10 DEF Send, rows, memory
  <2> QED
    BY <2>1, <2>2
<1>11. ASSUME NEW t \in Task, NEW a \in Identity, SendFetched(t, a) PROVE TypesInv'
  <2>1. PICK k \in Identity : Becomes(t, Knows("sendCheck", a, {k}))
    BY <1>11 DEF SendFetched
  <2> QED
    BY <1>1, <1>2, <1>6, <2>1, <1>11 DEF SendFetched, Becomes, Knows, rows, memory, history, TaskRecord, TaskOp
<1>12. ASSUME NEW t \in Task, NEW a \in Identity, SendFails(t, a) PROVE TypesInv'
  BY <1>1, <1>2, <1>6, <1>12 DEF SendFails, Becomes, Idle, rows, memory, history, TaskRecord, TaskOp, ContactRecord
<1>13. ASSUME NEW t \in Task, NEW a \in Identity, SendChecked(t, a) PROVE TypesInv'
  <2>1. tasks[t].with \in KeySet
    BY <1>1 DEF TaskRecord
  <2>2. CASE KnownKey(contact[a], tasks[t].with)
    <3>1. session' = [session EXCEPT ![a] = tasks[t].with]
      BY <2>2, <1>13 DEF SendChecked
    <3>2. session' \in [Identity -> KeySet]
      BY <1>1, <2>1, <3>1
    <3>3. contact' \in [Identity -> ContactRecord]
      <4>1. [key |-> tasks[t].with, verification |-> "unverified"] \in ContactRecord
        BY <2>1 DEF ContactRecord
      <4>2. \/ contact' = contact
            \/ contact' = [contact EXCEPT ![a] = [key |-> tasks[t].with, verification |-> "unverified"]]
        BY <2>2, <1>13 DEF SendChecked
      <4> QED
        BY <1>1, <4>1, <4>2
    <3>4. tasks' = [tasks EXCEPT ![t] = [tasks[t] EXCEPT !.op = "sendMeta"]]
      BY <2>2, <1>13 DEF SendChecked, Becomes
    <3>5. tasks' \in [Task -> TaskRecord]
      BY <1>1, <3>4 DEF TaskRecord, TaskOp
    <3> QED
      BY <1>1, <1>6, <3>2, <3>3, <3>5, <1>13 DEF SendChecked
  <2>3. CASE ~KnownKey(contact[a], tasks[t].with)
    BY <1>1, <1>3, <1>5, <1>6, <2>3, <1>13 DEF SendChecked
  <2> QED
    BY <2>2, <2>3
<1>14. ASSUME NEW t \in Task, NEW a \in Identity, SendSealed(t, a) PROVE TypesInv'
  BY <1>1, <1>2, <1>6, <1>14 DEF SendSealed, Doing, Becomes, Idle, memory, TaskRecord, TaskOp, ContactRecord
<1>15. ASSUME NEW t \in Task, NEW a \in Identity, Receive(t, a) PROVE TypesInv'
  BY <1>1, <1>2, <1>6, <1>15 DEF Receive, Begins, Call, rows, history, TaskRecord, TaskOp, ContactRecord
<1>16. ASSUME NEW t \in Task, NEW a \in Identity, RememberIdentity(t, a) PROVE TypesInv'
  BY <1>1, <1>2, <1>6, <1>16 DEF RememberIdentity, Becomes, Call, memory, history, TaskRecord, TaskOp, ContactRecord
<1>17. ASSUME NEW t \in Task, NEW a \in Identity, RememberContact(t, a) PROVE TypesInv'
  <2>1. contact' \in [Identity -> ContactRecord]
    BY <1>1, <1>3, <1>4, <1>17 DEF RememberContact
  <2> QED
    BY <1>1, <1>5, <1>6, <2>1, <1>17 DEF RememberContact, memory
<1>18. ASSUME NEW t \in Task, NEW a \in Identity, MarkVerified(t, a) PROVE TypesInv'
  BY <1>1, <1>2, <1>6, <1>18 DEF MarkVerified, Begins, Knows, rows, memory, history, TaskRecord, TaskOp, ContactRecord
<1>18a. ASSUME NEW t \in Task, NEW a \in Identity, MarkPut(t, a) PROVE TypesInv'
  BY <1>1, <1>2, <1>6, <1>18a DEF MarkPut, Doing, Becomes, memory, history, TaskRecord, TaskOp, ContactRecord
<1>19. ASSUME NEW t \in Task, NEW a \in Identity, MarkPinned(t, a) PROVE TypesInv'
  BY <1>1, <1>2, <1>6, <1>19 DEF MarkPinned, Doing, Becomes, Idle, Pinned, rows, history, TaskRecord, TaskOp, ContactRecord
<1>20. ASSUME NEW t \in Task, NEW a \in Identity, AcceptChange(t, a) PROVE TypesInv'
  BY <1>1, <1>2, <1>6, <1>20 DEF AcceptChange, Begins, Call, Unfiled, history, TaskRecord, TaskOp, ContactRecord
<1>21. ASSUME NEW t \in Task, NEW a \in Identity, AcceptFetched(t, a) PROVE TypesInv'
  <2>1. contact' \in [Identity -> ContactRecord]
    BY <1>4, <1>21 DEF AcceptFetched
  <2> QED
    BY <1>1, <1>5, <1>6, <2>1, <1>21 DEF AcceptFetched, memory
<1>22. ASSUME NEW t \in Task, NEW a \in Identity, AcceptFails(t, a) PROVE TypesInv'
  BY <1>1, <1>2, <1>6, <1>22 DEF AcceptFails, Becomes, Idle, rows, memory, history, TaskRecord, TaskOp, ContactRecord
<1>23. CASE Restart
  <2>1. pin' \in [Identity -> KeySet] /\ session' \in [Identity -> KeySet]
    BY <1>1, <1>2, <1>23 DEF Restart, PinsOf, ContactRecord
  <2>2. tasks' \in [Task -> TaskRecord]
    BY <1>2, <1>23 DEF Restart, Idle, TaskRecord, TaskOp
  <2> QED
    BY <1>1, <1>6, <2>1, <2>2, <1>23 DEF Restart, rows
<1>24. CASE UNCHANGED vars
  BY <1>1, <1>6, <1>24 DEF vars, rows, memory
<1> QED
  BY <1>7, <1>8, <1>9, <1>10, <1>11, <1>12, <1>13, <1>14, <1>15, <1>16, <1>17, <1>18, <1>18a, <1>19, <1>20, <1>21, <1>22, <1>23, <1>24 DEF Next

\* No step makes a contact go.
LEMMA ContactsStay ==
  ASSUME TypesInv, [Next]_vars
  PROVE  \A b \in Identity : contact'[b].verification = "none" => contact'[b] = contact[b]
<1> DEFINE Stay == \A b \in Identity : contact'[b].verification = "none" => contact'[b] = contact[b]
<1>1. contact \in [Identity -> ContactRecord]
  BY DEF TypesInv, TypeOK, ContactRecord
<1>2. ASSUME NEW a \in Identity, NEW c,
             contact' = [contact EXCEPT ![a] = c], c.verification # "none"
      PROVE  Stay
  BY <1>1, <1>2
<1>3. ASSUME NEW a \in Identity, Flag(a) PROVE Stay
  BY <1>1, <1>3 DEF Flag, ContactRecord
<1>4. ASSUME NEW a \in Identity, NEW k, NEW v, v # "none",
             contact' = [contact EXCEPT ![a] = Contact(k, v)]
      PROVE  Stay
  BY <1>2, <1>4 DEF Contact
<1>5. ASSUME NEW t \in Task, NEW a \in Identity, PairContact(t, a) PROVE Stay
  BY <1>4, <1>5 DEF PairContact
<1>6. ASSUME NEW t \in Task, NEW a \in Identity, SendChecked(t, a) PROVE Stay
  <2>1. \/ contact' = contact
        \/ contact' = [contact EXCEPT ![a] = [key |-> tasks[t].with, verification |-> "unverified"]]
        \/ Flag(a)
    BY <1>6 DEF SendChecked
  <2>2. CASE contact' = contact
    BY <2>2
  <2>3. CASE contact' = [contact EXCEPT ![a] = [key |-> tasks[t].with, verification |-> "unverified"]]
    <3> DEFINE c == [key |-> tasks[t].with, verification |-> "unverified"]
    <3>1. c.verification # "none" /\ contact' = [contact EXCEPT ![a] = c]
      BY <2>3
    <3> HIDE DEF c
    <3> QED
      BY <1>2, <3>1
  <2>4. CASE Flag(a)
    BY <1>3, <2>4
  <2> QED
    BY <2>1, <2>2, <2>3, <2>4
<1>7. ASSUME NEW t \in Task, NEW a \in Identity, RememberContact(t, a) PROVE Stay
  BY <1>3, <1>4, <1>7 DEF RememberContact
<1>8. ASSUME NEW t \in Task, NEW a \in Identity, MarkPut(t, a) PROVE Stay
  BY <1>1, <1>8 DEF MarkPut, ContactRecord
<1>9. ASSUME NEW t \in Task, NEW a \in Identity, AcceptFetched(t, a) PROVE Stay
  BY <1>4, <1>9 DEF AcceptFetched
<1>10. ASSUME UNCHANGED contact PROVE Stay
  BY <1>10
<1>11. ASSUME NEW t \in Task, NEW a \in Identity,
              \/ PairWithCode(t, a) \/ PairRow(t, a) \/ Send(t, a) \/ SendFetched(t, a)
              \/ SendFails(t, a) \/ SendSealed(t, a) \/ Receive(t, a) \/ RememberIdentity(t, a)
              \/ MarkVerified(t, a) \/ MarkPinned(t, a) \/ AcceptChange(t, a) \/ AcceptFails(t, a)
       PROVE  UNCHANGED contact
  BY <1>11 DEF rows, PairWithCode, PairRow, Send, SendFetched, SendFails, SendSealed, Receive,
     RememberIdentity, MarkVerified, MarkPinned, AcceptChange, AcceptFails
<1>12. ASSUME Restart \/ UNCHANGED vars PROVE UNCHANGED contact
  BY <1>12 DEF Restart, vars, rows
<1> HIDE DEF Stay
<1>13. Stay
  BY <1>5, <1>6, <1>7, <1>8, <1>9, <1>10, <1>11, <1>12 DEF Next
<1> QED
  BY <1>13 DEF Stay

\* The tasks as they are written.
LEMMA TaskFields ==
  /\ Idle.op = "idle" /\ Idle.of = {}
  /\ \A op \in TaskOp, a \in Identity : Call(op, a).op = op /\ Call(op, a).of = {a}
  /\ \A op \in TaskOp, a \in Identity, ks \in KeySet :
       Knows(op, a, ks).op = op /\ Knows(op, a, ks).of = {a} /\ Knows(op, a, ks).with = ks
<1>1. Idle.op = "idle" /\ Idle.of = {}
  BY DEF Idle
<1>2. ASSUME NEW op \in TaskOp, NEW a \in Identity
      PROVE  Call(op, a).op = op /\ Call(op, a).of = {a}
  BY DEF Call
<1>3. ASSUME NEW op \in TaskOp, NEW a \in Identity, NEW ks \in KeySet
      PROVE  Knows(op, a, ks).op = op /\ Knows(op, a, ks).of = {a} /\ Knows(op, a, ks).with = ks
  BY DEF Knows
<1> QED
  BY <1>1, <1>2, <1>3

\* One task changes at a time.
LEMMA TaskWritten ==
  ASSUME TypesInv, NEW t \in Task, NEW task, tasks' = [tasks EXCEPT ![t] = task]
  PROVE  tasks'[t] = task /\ \A s \in Task : s # t => tasks'[s] = tasks[s]
BY DEF TypesInv

LEMMA PairingStep ==
  ASSUME TypesInv, PairingInv, [Next]_vars
  PROVE  PairingInv'
<1>1. /\ contact \in [Identity -> ContactRecord] /\ session \in [Identity -> KeySet]
      /\ tasks \in [Task -> TaskRecord]
  BY DEF TypesInv, TypeOK, ContactRecord
<1>0. \A b \in Identity : contact'[b].verification = "none" => contact'[b] = contact[b]
  BY ContactsStay
<1>f. Filed'
  BY <1>0 DEF PairingInv, Filed
<1>g. \A b \in Identity : contact[b].verification # "none" => contact'[b].verification # "none"
  BY <1>0
<1>h. \A s \in Task : tasks[s].of \subseteq Identity
  BY <1>1 DEF TaskRecord, KeySet
<1> USE DEF PairOps, SendOps, Talking, TaskRecord, ContactRecord
<1>2. ASSUME NEW t \in Task, NEW a \in Identity, PairWithCode(t, a) PROVE PairingHolds'
  <2>a. (pairingRow = pairing /\ pairing \subseteq scanned)'
    BY <1>1, <1>g, <1>2 DEF PairWithCode, Begins, Call, memory, PairingInv, PairingHolds, PairsOne
  <2>b. Unpaired'
    <3>1. /\ tasks'[t] = Call("pairContact", a)
          /\ \A s \in Task : s # t => tasks'[s] = tasks[s]
      BY <1>2, TaskWritten DEF PairWithCode, Begins
    <3>2. tasks'[t].op = "pairContact"
      <4>1. tasks'[t] = Call("pairContact", a)
        BY <3>1
      <4>2. Call("pairContact", a).op = "pairContact"
        BY TaskFields DEF TaskOp
      <4>3. tasks'[t].op = Call("pairContact", a).op
        BY <4>1
      <4> QED
        BY <4>2, <4>3
    <3>3. \A s \in Task : tasks'[s].op \in PairOps \cup {"idle"}
      BY <3>1, <3>2, <1>2 DEF PairWithCode, PairingInv, PairingHolds, Unpaired
    <3> QED
      BY <3>3, <1>2 DEF PairWithCode, PairingInv, PairingHolds, Unpaired
  <2>c. PairsOne'
    BY <1>1, <1>g, <1>2 DEF PairWithCode, Begins, Call, memory, PairingInv, PairingHolds, PairsOne, Unpaired
  <2>d. TalksToPaired'
    BY <1>1, <1>g, <1>2 DEF PairWithCode, Begins, Call, memory, PairingInv, PairingHolds, TalksToPaired, Unpaired, PairsOne
  <2>e. AtPaired'
    BY <1>1, <1>g, <1>2 DEF PairWithCode, Begins, Call, memory, PairingInv, PairingHolds, AtPaired, PairsOne
  <2> QED
    BY <2>a, <2>b, <2>c, <2>d, <2>e DEF PairingHolds
<1>3. ASSUME NEW t \in Task, NEW a \in Identity, PairContact(t, a) PROVE PairingHolds'
  <2>1. pairing = {} /\ tasks[t].of = {a} /\ a \in scanned
    BY <1>3 DEF PairContact, Doing, PairingInv, PairingHolds, PairsOne
  <2>2. contact' = [contact EXCEPT ![a] = Contact(a, "verified")]
        /\ tasks' = [tasks EXCEPT ![t] = Call("pairRow", a)]
    BY <1>3 DEF PairContact, Becomes
  <2>3. /\ tasks'[t].op = "pairRow" /\ tasks'[t].of = {a}
        /\ \A s \in Task : s # t => tasks'[s] = tasks[s]
    <3>1. tasks'[t] = Call("pairRow", a) /\ \A s \in Task : s # t => tasks'[s] = tasks[s]
      BY <2>2, TaskWritten
    <3> QED
      BY <3>1, TaskFields DEF TaskOp
  <2>4. /\ contact'[a].key = {a} /\ contact'[a].verification = "verified"
        /\ \A b \in Identity : b # a => contact'[b] = contact[b]
    BY <1>1, <2>2 DEF Contact
  <2>5. UNCHANGED <<pairing, scanned>>
    BY <1>3 DEF PairContact, history
  <2>a. (pairingRow = pairing /\ pairing \subseteq scanned)'
    BY <1>1, <1>g, <2>1, <2>2, <1>3 DEF PairContact, Doing, Call, Contact, history, PairingInv, PairingHolds, PairsOne
  <2>b. Unpaired'
    BY <2>1, <2>3, <2>4, <2>5 DEF PairingInv, PairingHolds, Unpaired
  <2>c. PairsOne'
    <3>1. tasks[t].op = "pairContact"
      BY <1>3 DEF PairContact, Doing
    <3>2. \A s \in Task : tasks[s].op \in PairOps => s = t
      BY <3>1 DEF PairingInv, PairingHolds, PairsOne
    <3> QED
      BY <2>1, <2>3, <2>4, <2>5, <3>2 DEF PairsOne
  <2>d. TalksToPaired'
    BY <1>1, <1>g, <2>1, <2>2, <1>3 DEF PairContact, Doing, Call, Contact, history, PairingInv, PairingHolds, TalksToPaired, Unpaired, PairsOne
  <2>e. AtPaired'
    BY <1>1, <1>g, <2>1, <2>2, <1>3 DEF PairContact, Doing, Call, Contact, history, PairingInv, PairingHolds, AtPaired, PairsOne
  <2> QED
    BY <2>a, <2>b, <2>c, <2>d, <2>e DEF PairingHolds
<1>4. ASSUME NEW t \in Task, NEW a \in Identity, PairRow(t, a) PROVE PairingHolds'
  <2>a. (pairingRow = pairing /\ pairing \subseteq scanned)'
    BY <1>1, <1>g, <1>4 DEF PairRow, Doing, Becomes, Idle, history, PairingInv, PairingHolds, PairsOne
  <2>b. Unpaired'
    BY <1>1, <1>g, <1>4 DEF PairRow, Doing, Becomes, Idle, history, PairingInv, PairingHolds, Unpaired, PairsOne
  <2>c. PairsOne'
    BY <1>1, <1>g, <1>4 DEF PairRow, Doing, Becomes, Idle, history, PairingInv, PairingHolds, PairsOne, Unpaired
  <2>d. TalksToPaired'
    BY <1>1, <1>g, <1>4 DEF PairRow, Doing, Becomes, Idle, history, PairingInv, PairingHolds, TalksToPaired, Unpaired, PairsOne
  <2>e. AtPaired'
    BY <1>1, <1>g, <1>4 DEF PairRow, Doing, Becomes, Idle, history, PairingInv, PairingHolds, AtPaired, PairsOne
  <2> QED
    BY <2>a, <2>b, <2>c, <2>d, <2>e DEF PairingHolds
<1>5. ASSUME NEW t \in Task, NEW a \in Identity, Send(t, a) PROVE PairingHolds'
  <2>1. pairing = {a} /\ contact[a].verification # "none"
    BY <1>5 DEF Send, decideOutbound, PairingInv, Filed
  <2>2. tasks' = tasks \/ tasks' = [tasks EXCEPT ![t] = Call("sendFetch", a)]
    BY <1>5 DEF Send, Begins
  <2>a. (pairingRow = pairing /\ pairing \subseteq scanned)'
    BY <1>1, <1>g, <2>1, <2>2, <1>5 DEF Send, Call, rows, memory, PairingInv, PairingHolds, PairsOne
  <2>b. Unpaired'
    BY <1>1, <1>g, <2>1, <2>2, <1>5 DEF Send, Call, rows, memory, PairingInv, PairingHolds, Unpaired, PairsOne
  <2>c. PairsOne'
    <3>1. \A s \in Task : tasks[s].op \notin PairOps
      BY <2>1 DEF PairingInv, PairingHolds, PairsOne
    <3>2. CASE tasks' = tasks
      BY <3>1, <3>2 DEF PairsOne
    <3>3. CASE tasks' = [tasks EXCEPT ![t] = Call("sendFetch", a)]
      <4>1. tasks'[t].op = "sendFetch" /\ \A s \in Task : s # t => tasks'[s] = tasks[s]
        <5>1. tasks'[t] = Call("sendFetch", a) /\ \A s \in Task : s # t => tasks'[s] = tasks[s]
          BY <3>3, TaskWritten
        <5> QED
          BY <5>1, TaskFields DEF TaskOp
      <4> QED
        BY <3>1, <4>1 DEF PairsOne
    <3> QED
      BY <2>2, <3>2, <3>3
  <2>d. TalksToPaired'
    <3>1. UNCHANGED <<pairing, contact>>
      BY <1>5 DEF Send, rows, memory
    <3>2. CASE tasks' = tasks
      BY <3>1, <3>2 DEF PairingInv, PairingHolds, TalksToPaired
    <3>3. CASE tasks' = [tasks EXCEPT ![t] = Call("sendFetch", a)]
      <4>1. /\ tasks'[t].op = "sendFetch" /\ tasks'[t].of = {a}
            /\ \A s \in Task : s # t => tasks'[s] = tasks[s]
        <5>1. tasks'[t] = Call("sendFetch", a) /\ \A s \in Task : s # t => tasks'[s] = tasks[s]
          BY <3>3, TaskWritten
        <5> QED
          BY <5>1, TaskFields DEF TaskOp
      <4> QED
        BY <2>1, <3>1, <4>1 DEF PairingInv, PairingHolds, TalksToPaired
    <3> QED
      BY <2>2, <3>2, <3>3
  <2>e. AtPaired'
    BY <1>1, <1>g, <2>1, <2>2, <1>5 DEF Send, Call, rows, memory, PairingInv, PairingHolds, AtPaired, PairsOne
  <2> QED
    BY <2>a, <2>b, <2>c, <2>d, <2>e DEF PairingHolds
<1>6. ASSUME NEW t \in Task, NEW a \in Identity, SendFetched(t, a) PROVE PairingHolds'
  <2>1. PICK k \in Identity : tasks' = [tasks EXCEPT ![t] = Knows("sendCheck", a, {k})]
    BY <1>6 DEF SendFetched, Becomes
  <2>2. pairing = {a} /\ contact[a].verification # "none"
    BY <1>6 DEF SendFetched, Doing, PairingInv, PairingHolds, TalksToPaired
  <2> QED
    BY <1>1, <1>g, <2>1, <2>2, <1>6 DEF SendFetched, Knows, rows, memory, history, PairingInv, PairingHolds, Unpaired, PairsOne, TalksToPaired, AtPaired
<1>7. ASSUME NEW t \in Task, NEW a \in Identity, SendFails(t, a) PROVE PairingHolds'
  BY <1>1, <1>g, <1>7 DEF SendFails, Doing, Becomes, Idle, rows, memory, history, PairingInv, PairingHolds, Unpaired, PairsOne, TalksToPaired, AtPaired
<1>8. ASSUME NEW t \in Task, NEW a \in Identity, SendChecked(t, a) PROVE PairingHolds'
  <2>1. pairing = {a} /\ contact[a].verification # "none" /\ tasks[t].of = {a}
    BY <1>8 DEF SendChecked, Doing, PairingInv, PairingHolds, TalksToPaired
  <2>3. \/ tasks' = [tasks EXCEPT ![t] = [tasks[t] EXCEPT !.op = "sendMeta"]]
        \/ tasks' = [tasks EXCEPT ![t] = Idle]
    BY <1>8 DEF SendChecked, Becomes
  <2>4. \A b \in Identity : session'[b] # {} => session[b] # {} \/ b = a
    BY <1>1, <1>g, <1>8 DEF SendChecked
  <2>5. /\ \/ tasks'[t].op = "sendMeta" /\ tasks'[t].of = {a}
           \/ tasks'[t].op = "idle" /\ tasks'[t].of = {}
        /\ \A s \in Task : s # t => tasks'[s] = tasks[s]
    <3>1. CASE tasks' = [tasks EXCEPT ![t] = [tasks[t] EXCEPT !.op = "sendMeta"]]
      <4>1. [tasks[t] EXCEPT !.op = "sendMeta"].op = "sendMeta"
            /\ [tasks[t] EXCEPT !.op = "sendMeta"].of = tasks[t].of
        BY <1>1
      <4> QED
        BY <2>1, <3>1, <4>1, TaskWritten
    <3>2. CASE tasks' = [tasks EXCEPT ![t] = Idle]
      <4>1. tasks'[t] = Idle /\ \A s \in Task : s # t => tasks'[s] = tasks[s]
        BY <3>2, TaskWritten
      <4> QED
        BY <4>1, TaskFields
    <3> QED
      BY <2>3, <3>1, <3>2
  <2>6. UNCHANGED pairing
    BY <1>8 DEF SendChecked
  <2>a. (pairingRow = pairing /\ pairing \subseteq scanned)'
    BY <1>1, <1>g, <2>1, <2>3, <2>4, <1>8 DEF SendChecked, Idle, history, PairingInv, PairingHolds, PairsOne
  <2>b. Unpaired'
    BY <1>1, <1>g, <2>1, <2>3, <2>4, <1>8 DEF SendChecked, Idle, history, PairingInv, PairingHolds, Unpaired, PairsOne
  <2>c. PairsOne'
    <3>1. \A s \in Task : tasks[s].op \notin PairOps
      BY <2>1 DEF PairingInv, PairingHolds, PairsOne
    <3> QED
      BY <2>5, <3>1 DEF PairsOne
  <2>d. TalksToPaired'
    <3> HIDE DEF TaskRecord, ContactRecord
    <3> QED
      BY <1>1, <1>g, <2>1, <2>5, <2>6 DEF PairingInv, PairingHolds, TalksToPaired
  <2>e. AtPaired'
    BY <1>1, <1>g, <2>1, <2>3, <2>4, <1>8 DEF SendChecked, Idle, history, PairingInv, PairingHolds, AtPaired, PairsOne
  <2> QED
    BY <2>a, <2>b, <2>c, <2>d, <2>e DEF PairingHolds
<1>9. ASSUME NEW t \in Task, NEW a \in Identity, SendSealed(t, a) PROVE PairingHolds'
  BY <1>1, <1>g, <1>9 DEF SendSealed, Doing, Becomes, Idle, memory, PairingInv, PairingHolds, Unpaired, PairsOne, TalksToPaired, AtPaired
<1>10. ASSUME NEW t \in Task, NEW a \in Identity, Receive(t, a) PROVE PairingHolds'
  BY <1>1, <1>g, <1>10 DEF Receive, Begins, Call, decideInbound, rows, history, PairingInv, PairingHolds, Unpaired, PairsOne, TalksToPaired, AtPaired
<1>11. ASSUME NEW t \in Task, NEW a \in Identity, RememberIdentity(t, a) PROVE PairingHolds'
  BY <1>1, <1>g, <1>11 DEF RememberIdentity, Doing, Becomes, Call, memory, history, PairingInv, PairingHolds, Unpaired, PairsOne, TalksToPaired, AtPaired
<1>12. ASSUME NEW t \in Task, NEW a \in Identity, RememberContact(t, a) PROVE PairingHolds'
  <2>1. pairing = {a} /\ tasks[t].of = {a}
    BY <1>12 DEF RememberContact, Doing, PairingInv, PairingHolds, TalksToPaired
  <2>a. (pairingRow = pairing /\ pairing \subseteq scanned)'
    BY <1>1, <1>g, <2>1, <1>12 DEF RememberContact, Becomes, Idle, memory, history, PairingInv, PairingHolds, PairsOne
  <2>b. Unpaired'
    BY <1>1, <1>g, <2>1, <1>12 DEF RememberContact, Becomes, Idle, memory, history, PairingInv, PairingHolds, Unpaired, PairsOne
  <2>c. PairsOne'
    BY <1>1, <1>g, <2>1, <1>12 DEF RememberContact, Becomes, Idle, memory, history, PairingInv, PairingHolds, PairsOne, Unpaired
  <2>d. TalksToPaired'
    <3>0. tasks' = [tasks EXCEPT ![t] = Idle]
      BY <1>12 DEF RememberContact, Becomes
    <3>1. /\ tasks'[t].of = {} /\ \A s \in Task : s # t => tasks'[s] = tasks[s]
      <4>1. tasks'[t] = Idle /\ \A s \in Task : s # t => tasks'[s] = tasks[s]
        BY <3>0, TaskWritten
      <4> QED
        BY <4>1, TaskFields
    <3>2. UNCHANGED pairing
      BY <1>12 DEF RememberContact, memory
    <3> HIDE DEF TaskRecord, ContactRecord
    <3> QED
      BY <1>g, <3>1, <3>2, <1>h DEF PairingInv, PairingHolds, TalksToPaired
  <2>e. AtPaired'
    BY <1>1, <1>g, <2>1, <1>12 DEF RememberContact, Becomes, Idle, memory, history, PairingInv, PairingHolds, AtPaired, PairsOne
  <2> QED
    BY <2>a, <2>b, <2>c, <2>d, <2>e DEF PairingHolds
<1>13. ASSUME NEW t \in Task, NEW a \in Identity, MarkVerified(t, a) PROVE PairingHolds'
  <2>1. pairing # {}
    BY <1>1, <1>g, <1>13 DEF MarkVerified, Contact, PairingInv, PairingHolds, Unpaired
  <2>3. tasks' = [tasks EXCEPT ![t] = Knows("markPut", a, contact[a].key)]
    BY <1>13 DEF MarkVerified, Begins
  <2>a. (pairingRow = pairing /\ pairing \subseteq scanned)'
    BY <1>1, <1>g, <2>1, <2>3, <1>13 DEF MarkVerified, Knows, rows, memory, history, PairingInv, PairingHolds, PairsOne
  <2>b. Unpaired'
    BY <1>1, <1>g, <2>1, <2>3, <1>13 DEF MarkVerified, Knows, rows, memory, history, PairingInv, PairingHolds, Unpaired, PairsOne
  <2>c. PairsOne'
    BY <1>1, <1>g, <2>1, <2>3, <1>13 DEF MarkVerified, Knows, rows, memory, history, PairingInv, PairingHolds, PairsOne, Unpaired
  <2>d. TalksToPaired'
    <3>1. /\ tasks'[t].op = "markPut" /\ \A s \in Task : s # t => tasks'[s] = tasks[s]
      <4>1. contact[a].key \in KeySet
        BY <1>1
      <4> QED
        <5>1. tasks'[t] = Knows("markPut", a, contact[a].key) /\ \A s \in Task : s # t => tasks'[s] = tasks[s]
          BY <2>3, TaskWritten
        <5> QED
          BY <5>1, <4>1, TaskFields DEF TaskOp
    <3>2. UNCHANGED pairing
      BY <1>13 DEF MarkVerified, memory
    <3> HIDE DEF TaskRecord, ContactRecord
    <3> QED
      BY <1>g, <3>1, <3>2, <1>h DEF PairingInv, PairingHolds, TalksToPaired
  <2>e. AtPaired'
    BY <1>1, <1>g, <2>1, <2>3, <1>13 DEF MarkVerified, Knows, memory, history, PairingInv, PairingHolds, AtPaired, PairsOne
  <2> QED
    BY <2>a, <2>b, <2>c, <2>d, <2>e DEF PairingHolds
<1>13a. ASSUME NEW t \in Task, NEW a \in Identity, MarkPut(t, a) PROVE PairingHolds'
  <2>1. pairing # {}
    BY <1>1, <1>g, <1>13a DEF MarkPut, Doing, PairOps, PairingInv, PairingHolds, Unpaired
  <2>2. /\ tasks'[t].op = "markPin" /\ \A s \in Task : s # t => tasks'[s] = tasks[s]
        /\ UNCHANGED <<pairing, pairingRow, scanned, session>>
    BY <1>1, <1>13a DEF MarkPut, Becomes, memory, history
  <2>3. TalksToPaired'
    BY <1>g, <2>2, <1>h DEF PairingInv, PairingHolds, TalksToPaired, Talking, SendOps
  <2>4. Unpaired' /\ PairsOne' /\ AtPaired'
    BY <1>g, <2>1, <2>2 DEF PairingInv, PairingHolds, Unpaired, PairsOne, PairOps, AtPaired
  <2> QED
    BY <1>g, <2>2, <2>3, <2>4 DEF PairingInv, PairingHolds
<1>14. ASSUME NEW t \in Task, NEW a \in Identity, MarkPinned(t, a) PROVE PairingHolds'
  BY <1>1, <1>g, <1>14 DEF MarkPinned, Doing, Becomes, Idle, Pinned, rows, history, PairingInv, PairingHolds, Unpaired, PairsOne, TalksToPaired, AtPaired
<1>15. ASSUME NEW t \in Task, NEW a \in Identity, AcceptChange(t, a) PROVE PairingHolds'
  <2>1. pairing # {}
    BY <1>1, <1>g, <1>15 DEF AcceptChange, Contact, PairingInv, PairingHolds, Unpaired
  <2>2. tasks' = [tasks EXCEPT ![t] = Call("acceptFetch", a)]
    BY <1>15 DEF AcceptChange, Begins
  <2> QED
    BY <1>1, <1>g, <2>1, <2>2, <1>15 DEF AcceptChange, Call, history, PairingInv, PairingHolds, Unpaired, PairsOne, TalksToPaired, AtPaired
<1>16. ASSUME NEW t \in Task, NEW a \in Identity, AcceptFetched(t, a) PROVE PairingHolds'
  <2>1. pairing # {}
    BY <1>1, <1>g, <1>16 DEF AcceptFetched, Doing, PairingInv, PairingHolds, Unpaired
  <2>a. (pairingRow = pairing /\ pairing \subseteq scanned)'
    BY <1>1, <1>g, <2>1, <1>16 DEF AcceptFetched, Becomes, Idle, memory, PairingInv, PairingHolds, PairsOne
  <2>b. Unpaired'
    BY <1>1, <1>g, <2>1, <1>16 DEF AcceptFetched, Becomes, Idle, memory, PairingInv, PairingHolds, Unpaired, PairsOne
  <2>c. PairsOne'
    BY <1>1, <1>g, <2>1, <1>16 DEF AcceptFetched, Becomes, Idle, memory, PairingInv, PairingHolds, PairsOne, Unpaired
  <2>d. TalksToPaired'
    <3>0. tasks' = [tasks EXCEPT ![t] = Idle]
      BY <1>16 DEF AcceptFetched, Becomes
    <3>1. /\ tasks'[t].of = {} /\ \A s \in Task : s # t => tasks'[s] = tasks[s]
      <4>1. tasks'[t] = Idle /\ \A s \in Task : s # t => tasks'[s] = tasks[s]
        BY <3>0, TaskWritten
      <4> QED
        BY <4>1, TaskFields
    <3>2. UNCHANGED pairing
      BY <1>16 DEF AcceptFetched, memory
    <3> HIDE DEF TaskRecord, ContactRecord
    <3> QED
      BY <1>g, <3>1, <3>2, <1>h DEF PairingInv, PairingHolds, TalksToPaired
  <2>e. AtPaired'
    BY <1>1, <1>g, <2>1, <1>16 DEF AcceptFetched, Becomes, Idle, memory, PairingInv, PairingHolds, AtPaired, PairsOne
  <2> QED
    BY <2>a, <2>b, <2>c, <2>d, <2>e DEF PairingHolds
<1>17. ASSUME NEW t \in Task, NEW a \in Identity, AcceptFails(t, a) PROVE PairingHolds'
  BY <1>1, <1>g, <1>17 DEF AcceptFails, Doing, Becomes, Idle, rows, memory, history, PairingInv, PairingHolds, Unpaired, PairsOne, TalksToPaired, AtPaired
<1>18. ASSUME Restart PROVE PairingHolds'
  BY <1>1, <1>g, <1>18 DEF Restart, Idle, rows, history, PairingInv, PairingHolds, Unpaired, PairsOne, TalksToPaired, AtPaired
<1>19. ASSUME UNCHANGED vars PROVE PairingHolds'
  BY <1>1, <1>g, <1>19 DEF vars, rows, memory, history, PairingInv, PairingHolds, Unpaired, PairsOne, TalksToPaired, AtPaired
<1> QED
  BY <1>f, <1>2, <1>3, <1>4, <1>5, <1>6, <1>7, <1>8, <1>9, <1>10, <1>11, <1>12, <1>13, <1>13a, <1>14, <1>15, <1>16, <1>17, <1>18, <1>19 DEF Next, PairingInv

-----------------------------------------------------------------------------
\* What a step may do to the keys: others stay, new ones are trusted.
LEMMA KeysKept ==
  ASSUME TypesInv, KeysInv, scanned \subseteq scanned', taken \subseteq taken',
         \A b \in Identity : \/ contact'[b].key = contact[b].key
                             \/ contact'[b].key \subseteq Trusted(b)',
         \A b \in Identity : \/ session'[b] \subseteq session[b]
                             \/ session'[b] \subseteq Trusted(b)',
         \A s \in Task : \/ tasks'[s] = tasks[s]
                          \/ tasks'[s].op \notin KeyOps
                          \/ \A b \in tasks'[s].of : tasks'[s].with \subseteq Trusted(b)',
         \A m \in sealed' : m \in sealed \/ \E b, k \in Identity : m = <<b, k>> /\ k \in Trusted(b)'
  PROVE  KeysInv'
<1>1. \A b \in Identity : Trusted(b) \subseteq Trusted(b)'
  BY DEF Trusted
<1>2. \A b \in Identity : contact'[b].key \subseteq Trusted(b)'
  BY <1>1 DEF KeysInv
<1>3. \A b \in Identity : session'[b] \subseteq Trusted(b)'
  BY <1>1 DEF KeysInv
<1>4. \A s \in Task : tasks[s].of \subseteq Identity
  BY DEF TypesInv, TaskRecord, KeySet
<1>5. \A s \in Task : \A b \in tasks'[s].of :
        tasks'[s].op \in KeyOps => tasks'[s].with \subseteq Trusted(b)'
  BY <1>1, <1>4 DEF KeysInv
<1>6. ASSUME NEW m \in sealed' PROVE (m[1] = m[2] /\ m[2] \in scanned') \/ m \in taken'
  <2>1. CASE m \in sealed
    BY <2>1 DEF KeysInv, SealedToKnown
  <2>2. ASSUME NEW b \in Identity, NEW k \in Identity, m = <<b, k>>, k \in Trusted(b)'
        PROVE (m[1] = m[2] /\ m[2] \in scanned') \/ m \in taken'
    BY <2>2 DEF Trusted
  <2> QED
    BY <2>1, <2>2
<1>7. SealedToKnown'
  BY <1>6 DEF SealedToKnown
<1> QED
  BY <1>2, <1>3, <1>5, <1>7 DEF KeysInv

LEMMA KeysStep ==
  ASSUME TypesInv, PairingInv, KeysInv, [Next]_vars
  PROVE  KeysInv'
<1>1. /\ contact \in [Identity -> ContactRecord] /\ session \in [Identity -> KeySet]
      /\ tasks \in [Task -> TaskRecord]
  BY DEF TypesInv, TypeOK, ContactRecord
<1> DEFINE TasksKept == \A s \in Task : tasks'[s] = tasks[s] \/ tasks'[s].op \notin KeyOps
<1>2. ASSUME NEW t \in Task, NEW task, tasks' = [tasks EXCEPT ![t] = task], task.op \notin KeyOps
      PROVE  TasksKept
  BY <1>1, <1>2
<1>3. ASSUME NEW t \in Task, NEW op \in TaskOp \ KeyOps, NEW a \in Identity,
             tasks' = [tasks EXCEPT ![t] = Call(op, a)]
      PROVE  TasksKept
  BY <1>2, <1>3, TaskFields
<1>4. ASSUME NEW t \in Task, tasks' = [tasks EXCEPT ![t] = Idle] PROVE TasksKept
  BY <1>2, <1>4, TaskFields DEF KeyOps
<1>6. ASSUME NEW t \in Task, NEW a \in Identity, PairWithCode(t, a) PROVE KeysInv'
  <2>1. TasksKept
    BY <1>3, <1>6 DEF PairWithCode, Begins, TaskOp, KeyOps
  <2> QED
    BY <2>1, <1>6, KeysKept DEF PairWithCode, memory
<1>7. ASSUME NEW t \in Task, NEW a \in Identity, PairContact(t, a) PROVE KeysInv'
  <2>1. TasksKept
    BY <1>3, <1>7 DEF PairContact, Becomes, TaskOp, KeyOps
  <2>2. a \in scanned
    BY <1>7 DEF PairContact, Doing, PairOps, PairingInv, PairingHolds, PairsOne
  <2>3. UNCHANGED <<session, scanned, taken, sealed>>
    BY <1>7 DEF PairContact, history
  <2>4. contact'[a].key = {a} /\ \A b \in Identity : b # a => contact'[b] = contact[b]
    BY <1>1, <1>7 DEF PairContact, Contact
  <2>5. {a} \subseteq Trusted(a)'
    BY <2>2, <2>3 DEF Trusted
  <2> QED
    BY <2>1, <2>3, <2>4, <2>5, KeysKept
<1>8. ASSUME NEW t \in Task, NEW a \in Identity, PairRow(t, a) PROVE KeysInv'
  <2>1. TasksKept
    BY <1>4, <1>8 DEF PairRow, Becomes
  <2> QED
    BY <2>1, <1>8, KeysKept DEF PairRow, history
<1>9. ASSUME NEW t \in Task, NEW a \in Identity, Send(t, a) PROVE KeysInv'
  <2>1. UNCHANGED <<contact, session, scanned, taken>>
    BY <1>9 DEF Send, rows, memory
  <2>2. CASE session[a] # {}
    <3>1. UNCHANGED tasks /\ sealed' = sealed \cup {<<a, k>> : k \in session[a]}
      BY <2>2, <1>9 DEF Send, Seal
    <3>2. session[a] \subseteq Trusted(a)' /\ session[a] \subseteq Identity
      BY <2>1 DEF KeysInv, Trusted
    <3>3. \A m \in sealed' : m \in sealed \/ \E b, k \in Identity : m = <<b, k>> /\ k \in Trusted(b)'
      BY <3>1, <3>2
    <3> QED
      BY <2>1, <3>1, <3>3, KeysKept
  <2>3. CASE session[a] = {}
    <3>1. TasksKept
      BY <1>3, <2>3, <1>9 DEF Send, Begins, TaskOp, KeyOps
    <3>2. UNCHANGED sealed
      BY <2>3, <1>9 DEF Send
    <3> QED
      BY <2>1, <3>1, <3>2, KeysKept
  <2> QED
    BY <2>2, <2>3
<1>10. ASSUME NEW t \in Task, NEW a \in Identity, SendFetched(t, a) PROVE KeysInv'
  <2>1. PICK k \in Identity : tasks' = [tasks EXCEPT ![t] = Knows("sendCheck", a, {k})]
    BY <1>10 DEF SendFetched, Becomes
  <2>2. Knows("sendCheck", a, {k}).op \notin KeyOps
    BY DEF Knows, KeyOps
  <2>3. TasksKept
    BY <1>2, <2>1, <2>2
  <2> QED
    BY <2>3, <1>10, KeysKept DEF SendFetched, rows, memory, history
<1>11. ASSUME NEW t \in Task, NEW a \in Identity, SendFails(t, a) PROVE KeysInv'
  <2>1. TasksKept
    BY <1>4, <1>11 DEF SendFails, Becomes
  <2> QED
    BY <2>1, <1>11, KeysKept DEF SendFails, rows, memory, history
<1>12. ASSUME NEW t \in Task, NEW a \in Identity, SendChecked(t, a) PROVE KeysInv'
  <2>1. tasks[t].of = {a} /\ contact[a].verification # "none"
    BY <1>12 DEF SendChecked, Doing, SendOps, Talking, PairingInv, PairingHolds, TalksToPaired
  <2>2. contact[a] # None
    BY <2>1 DEF None
  <2>3. UNCHANGED <<scanned, taken, sealed>>
    BY <1>12 DEF SendChecked, history
  <2>4. CASE KnownKey(contact[a], tasks[t].with)
    <3>1. tasks[t].with = contact[a].key
      BY <2>2, <2>4 DEF KnownKey
    <3>2. UNCHANGED contact
      BY <2>2, <2>4, <1>12 DEF SendChecked
    <3>3. tasks[t].with \subseteq Trusted(a)'
      BY <2>3, <3>1 DEF KeysInv, Trusted
    <3>4. \A b \in Identity : session'[b] \subseteq session[b] \/ session'[b] \subseteq Trusted(b)'
      BY <1>1, <2>4, <3>3, <1>12 DEF SendChecked
    <3>5. tasks' = [tasks EXCEPT ![t] = [tasks[t] EXCEPT !.op = "sendMeta"]]
      BY <2>4, <1>12 DEF SendChecked, Becomes
    <3>6. [tasks[t] EXCEPT !.op = "sendMeta"].of = {a}
          /\ [tasks[t] EXCEPT !.op = "sendMeta"].with = tasks[t].with
      BY <1>1, <2>1 DEF TaskRecord
    <3>7. tasks'[t].of = {a} /\ tasks'[t].with = tasks[t].with
          /\ \A s \in Task : s # t => tasks'[s] = tasks[s]
      BY <3>5, <3>6, TaskWritten
    <3> QED
      BY <2>3, <3>2, <3>3, <3>4, <3>7, KeysKept
  <2>5. CASE ~KnownKey(contact[a], tasks[t].with)
    <3>1. TasksKept
      BY <1>4, <2>5, <1>12 DEF SendChecked, Becomes
    <3>2. \A b \in Identity : contact'[b].key = contact[b].key
      BY <1>1, <2>5, <1>12 DEF SendChecked, Flag, ContactRecord
    <3>3. UNCHANGED session
      BY <2>5, <1>12 DEF SendChecked
    <3> QED
      BY <2>3, <3>1, <3>2, <3>3, KeysKept
  <2> QED
    BY <2>4, <2>5
<1>13. ASSUME NEW t \in Task, NEW a \in Identity, SendSealed(t, a) PROVE KeysInv'
  <2>1. UNCHANGED <<contact, session, scanned, taken>>
    BY <1>13 DEF SendSealed, memory
  <2>2. TasksKept
    BY <1>4, <1>13 DEF SendSealed, Becomes
  <2>3. tasks[t].with \subseteq Trusted(a)' /\ tasks[t].with \subseteq Identity
    BY <2>1, <1>13 DEF SendSealed, Doing, KeysInv, KeyOps, Trusted
  <2>4. sealed' = sealed \cup {<<a, k>> : k \in tasks[t].with}
    BY <1>13 DEF SendSealed, Seal
  <2>5. \A m \in sealed' : m \in sealed \/ \E b, k \in Identity : m = <<b, k>> /\ k \in Trusted(b)'
    BY <2>3, <2>4
  <2>6. \A b \in Identity : contact'[b].key = contact[b].key /\ session'[b] \subseteq session[b]
    BY <2>1
  <2>7. scanned \subseteq scanned' /\ taken \subseteq taken'
    BY <2>1
  <2> QED
    BY <2>2, <2>5, <2>6, <2>7, KeysKept
<1>14. ASSUME NEW t \in Task, NEW a \in Identity, Receive(t, a) PROVE KeysInv'
  <2>1. TasksKept
    BY <1>3, <1>14 DEF Receive, Begins, TaskOp, KeyOps
  <2>2. a \in Trusted(a)'
    BY <1>14 DEF Receive, history, decideInbound, PairingInv, PairingHolds, Trusted
  <2>3. \A b \in Identity : session'[b] \subseteq session[b] \/ session'[b] \subseteq Trusted(b)'
    BY <1>1, <2>2, <1>14 DEF Receive
  <2>4. UNCHANGED <<contact, scanned, taken, sealed>>
    BY <1>14 DEF Receive, rows, history
  <2> QED
    BY <2>1, <2>3, <2>4, KeysKept
<1>15. ASSUME NEW t \in Task, NEW a \in Identity, RememberIdentity(t, a) PROVE KeysInv'
  <2>1. TasksKept
    BY <1>3, <1>15 DEF RememberIdentity, Becomes, TaskOp, KeyOps
  <2> QED
    BY <2>1, <1>15, KeysKept DEF RememberIdentity, memory, history
<1>16. ASSUME NEW t \in Task, NEW a \in Identity, RememberContact(t, a) PROVE KeysInv'
  <2>1. TasksKept
    BY <1>4, <1>16 DEF RememberContact, Becomes
  <2>2. UNCHANGED <<session, scanned, taken, sealed>>
    BY <1>16 DEF RememberContact, memory, history
  <2>3. a \in Trusted(a)'
    BY <2>2, <1>16 DEF RememberContact, Doing, Talking, PairingInv, PairingHolds, TalksToPaired, Trusted
  <2>4. \A b \in Identity : contact'[b].key = contact[b].key \/ contact'[b].key \subseteq Trusted(b)'
    <3>1. CASE contact' = [contact EXCEPT ![a] = Contact(a, "unverified")]
      BY <1>1, <2>3, <3>1 DEF Contact
    <3>2. CASE Flag(a)
      BY <1>1, <3>2 DEF Flag, ContactRecord
    <3> QED
      BY <3>1, <3>2, <1>16 DEF RememberContact
  <2> QED
    BY <2>1, <2>2, <2>4, KeysKept
<1>17. ASSUME NEW t \in Task, NEW a \in Identity, MarkVerified(t, a) PROVE KeysInv'
  <2>1. tasks' = [tasks EXCEPT ![t] = Knows("markPut", a, contact[a].key)]
    BY <1>17 DEF MarkVerified, Begins
  <2>2. /\ Knows("markPut", a, contact[a].key).of = {a}
        /\ Knows("markPut", a, contact[a].key).with = contact[a].key
    BY DEF Knows
  <2>3. UNCHANGED <<contact, session, scanned, taken, sealed>>
    BY <1>17 DEF MarkVerified, rows, memory, history
  <2>4. contact[a].key \subseteq Trusted(a)'
    BY <2>3 DEF KeysInv, Trusted
  <2>5. \A s \in Task : \/ tasks'[s] = tasks[s]
                        \/ \A b \in tasks'[s].of : tasks'[s].with \subseteq Trusted(b)'
    BY <2>1, <2>2, <2>4, TaskWritten
  <2> QED
    BY <2>3, <2>5, KeysKept
<1>17a. ASSUME NEW t \in Task, NEW a \in Identity, MarkPut(t, a) PROVE KeysInv'
  <2>1. UNCHANGED <<session, scanned, taken, sealed>>
    BY <1>17a DEF MarkPut, memory, history
  <2>2. TasksKept
    BY <1>1, <1>17a DEF MarkPut, Becomes, KeyOps
  <2>3. tasks[t].with \subseteq Trusted(a)'
    BY <2>1, <1>17a DEF MarkPut, Doing, KeysInv, KeyOps, Trusted
  <2>4. contact'[a].key = tasks[t].with /\ \A b \in Identity : b # a => contact'[b] = contact[b]
    BY <1>1, <1>17a DEF MarkPut
  <2> QED
    BY <2>1, <2>2, <2>3, <2>4, KeysKept
<1>18. ASSUME NEW t \in Task, NEW a \in Identity, MarkPinned(t, a) PROVE KeysInv'
  <2>1. TasksKept
    BY <1>4, <1>18 DEF MarkPinned, Becomes
  <2> QED
    BY <2>1, <1>18, KeysKept DEF MarkPinned, rows, history
<1>19. ASSUME NEW t \in Task, NEW a \in Identity, AcceptChange(t, a) PROVE KeysInv'
  <2>1. TasksKept
    BY <1>3, <1>19 DEF AcceptChange, Begins, TaskOp, KeyOps
  <2>2. \A b \in Identity : session'[b] \subseteq session[b]
    BY <1>1, <1>19 DEF AcceptChange
  <2>3. UNCHANGED <<contact, scanned, taken, sealed>>
    BY <1>19 DEF AcceptChange, history
  <2> QED
    BY <2>1, <2>2, <2>3, KeysKept
<1>20. ASSUME NEW t \in Task, NEW a \in Identity, AcceptFetched(t, a) PROVE KeysInv'
  <2>1. TasksKept
    BY <1>4, <1>20 DEF AcceptFetched, Becomes
  <2>2. PICK k \in Identity : /\ contact' = [contact EXCEPT ![a] = Contact(k, "unverified")]
                              /\ taken' = taken \cup {<<a, k>>}
    BY <1>20 DEF AcceptFetched
  <2>3. {k} \subseteq Trusted(a)'
    BY <2>2 DEF Trusted
  <2>4. contact'[a].key = {k} /\ \A b \in Identity : b # a => contact'[b] = contact[b]
    BY <1>1, <2>2 DEF Contact
  <2>5. UNCHANGED <<session, scanned, sealed>>
    BY <1>20 DEF AcceptFetched, memory
  <2>6. taken \subseteq taken'
    BY <2>2
  <2> QED
    BY <2>1, <2>3, <2>4, <2>5, <2>6, KeysKept
<1>21. ASSUME NEW t \in Task, NEW a \in Identity, AcceptFails(t, a) PROVE KeysInv'
  <2>1. TasksKept
    BY <1>4, <1>21 DEF AcceptFails, Becomes
  <2> QED
    BY <2>1, <1>21, KeysKept DEF AcceptFails, rows, memory, history
<1>22. ASSUME Restart PROVE KeysInv'
  <2>1. TasksKept
    BY <1>22, TaskFields DEF Restart, KeyOps
  <2>2. \A b \in Identity : session'[b] \subseteq session[b]
    BY <1>22 DEF Restart
  <2> QED
    BY <2>1, <2>2, <1>22, KeysKept DEF Restart, rows, history
<1>23. ASSUME UNCHANGED vars PROVE KeysInv'
  BY <1>23, KeysKept DEF vars, rows, memory, history
<1> QED
  BY <1>6, <1>7, <1>8, <1>9, <1>10, <1>11, <1>12, <1>13, <1>14, <1>15, <1>16, <1>17, <1>17a, <1>18,
     <1>19, <1>20, <1>21, <1>22, <1>23 DEF Next

-----------------------------------------------------------------------------
\* A step of a method leaves the verify screen's alone.
LEMMA VerifiesAloneBegins ==
  ASSUME TypesInv, VerifiesAlone, NEW t \in Task, NEW task, Begins(t, task)
  PROVE  VerifiesAlone'
<1>1. tasks'[t] = task /\ \A s \in Task : s # t => tasks'[s] = tasks[s]
  BY TaskWritten DEF Begins
<1>2. disturbed' = disturbed \cup
       {a \in task.of : \E s \in Task :
          a \in tasks[s].of /\ {tasks[s].op, task.op} \cap VerifyOps # {}}
  BY DEF Begins
<1> SUFFICES ASSUME NEW s \in Task, NEW u \in Task,
                    NEW a \in (tasks'[s].of \cap tasks'[u].of) \ disturbed',
                    tasks'[s].op \in VerifyOps, u # s
             PROVE  FALSE
  BY DEF VerifiesAlone
<1>3. CASE s # t /\ u # t
  BY <1>1, <1>2, <1>3 DEF VerifiesAlone
<1>4. CASE s = t
  BY <1>1, <1>2, <1>4
<1>5. CASE u = t
  BY <1>1, <1>2, <1>5
<1> QED
  BY <1>3, <1>4, <1>5

LEMMA VerifiesAloneGoesOn ==
  ASSUME TypesInv, VerifiesAlone, NEW t \in Task, NEW task, Becomes(t, task),
         task.of \subseteq tasks[t].of, task.op \in VerifyOps => tasks[t].op \in VerifyOps
  PROVE  VerifiesAlone'
<1>1. tasks'[t] = task /\ \A s \in Task : s # t => tasks'[s] = tasks[s]
  BY TaskWritten DEF Becomes
<1>2. UNCHANGED disturbed
  BY DEF Becomes
<1> QED
  BY <1>1, <1>2 DEF VerifiesAlone

\* The address of a step is the one there is something to show about.
LEMMA OneKeyElsewhere ==
  ASSUME TypesInv, OneKeyInv, NEW t \in Task, NEW a \in Identity, Local(t, a),
         NEW b \in Identity \ disturbed', b # a
  PROVE  OneKey(b)'
<1>1. OneKey(b) /\ contact'[b] = contact[b] /\ meta'[b] = meta[b] /\ pin'[b] = pin[b]
  BY DEF Local, About, OneKeyInv
<1>2. \A s \in Task : b \in tasks'[s].of => tasks'[s] = tasks[s]
  BY DEF Local
<1>3. \A s \in Task : b \in tasks[s].of => tasks'[s] = tasks[s]
  BY DEF Local
<1>4. Remembering(b)' <=> Remembering(b)
  BY <1>2, <1>3 DEF Remembering
<1> QED
  BY <1>1, <1>2, <1>4 DEF OneKey, StillSo

LEMMA OneKeyLocally ==
  ASSUME TypesInv, OneKeyInv, NEW t \in Task, NEW a \in Identity, Local(t, a),
         VerifiesAlone', tasks'[t].op = "idle" => tasks'[t].of = {},
         a \notin disturbed' => OneKey(a)'
  PROVE  OneKeyInv'
<1>1. \A s \in Task : tasks'[s].op = "idle" => tasks'[s].of = {}
  BY DEF OneKeyInv, Local
<1>2. \A b \in Identity \ disturbed' : OneKey(b)'
  BY OneKeyElsewhere
<1> QED
  BY <1>1, <1>2 DEF OneKeyInv

LEMMA OneKeyBegins ==
  ASSUME TypesInv, OneKeyInv, NEW t \in Task, NEW a \in Identity, NEW task, Begins(t, task),
         task.of = {a}, task.op # "idle", About(a), a \notin disturbed' => OneKey(a)'
  PROVE  OneKeyInv'
<1>1. tasks'[t] = task /\ \A s \in Task : s # t => tasks'[s] = tasks[s]
  BY TaskWritten DEF Begins
<1>2. tasks[t].of = {} /\ disturbed \subseteq disturbed'
  BY TaskFields DEF Begins
<1>3. Local(t, a)
  BY <1>1, <1>2 DEF Local
<1>4. VerifiesAlone'
  BY VerifiesAloneBegins DEF OneKeyInv
<1> QED
  BY <1>1, <1>3, <1>4, OneKeyLocally

LEMMA OneKeyGoesOn ==
  ASSUME TypesInv, OneKeyInv, NEW t \in Task, NEW a \in Identity, NEW task, Becomes(t, task),
         tasks[t].of = {a}, task.of \subseteq {a},
         task.op \in VerifyOps => tasks[t].op \in VerifyOps,
         task.op = "idle" => task.of = {}, About(a), a \notin disturbed => OneKey(a)'
  PROVE  OneKeyInv'
<1>1. tasks'[t] = task /\ \A s \in Task : s # t => tasks'[s] = tasks[s]
  BY TaskWritten DEF Becomes
<1>2. UNCHANGED disturbed
  BY DEF Becomes
<1>3. Local(t, a)
  BY <1>1, <1>2 DEF Local
<1>4. VerifiesAlone'
  BY VerifiesAloneGoesOn DEF OneKeyInv
<1> QED
  BY <1>1, <1>2, <1>3, <1>4, OneKeyLocally

\* The methods that rely on nothing of the contact.
Quiet == {"idle", "pairContact", "pairRow", "sendFetch", "sendCheck", "receiveMeta"}

LEMMA OneKeyStep ==
  ASSUME TypesInv, PairingInv, OneKeyInv, [Next]_vars
  PROVE  OneKeyInv'
<1>1. /\ contact \in [Identity -> ContactRecord]
      /\ meta \in [Identity -> KeySet] /\ pin \in [Identity -> KeySet]
      /\ tasks \in [Task -> TaskRecord]
  BY DEF TypesInv, TypeOK, ContactRecord
<1>2. ASSUME NEW t \in Task, NEW task, Begins(t, task) \/ Becomes(t, task)
      PROVE  /\ tasks'[t] = task /\ \A s \in Task : s # t => tasks'[s] = tasks[s]
             /\ disturbed \subseteq disturbed'
  <2>1. tasks' = [tasks EXCEPT ![t] = task] /\ disturbed \subseteq disturbed'
    BY <1>2 DEF Begins, Becomes
  <2> QED
    BY <2>1, TaskWritten
<1>3. ASSUME NEW t \in Task, NEW a \in Identity, NEW task, Begins(t, task) \/ Becomes(t, task),
             UNCHANGED <<contact, meta, pin>>, task.op \in Quiet,
             tasks[t].op \in Quiet \cup VerifyOps, a \notin disturbed'
      PROVE  OneKey(a)'
  <2>1. /\ tasks'[t] = task /\ \A s \in Task : s # t => tasks'[s] = tasks[s]
        /\ a \notin disturbed
    BY <1>2, <1>3
  <2>2. OneKey(a)
    BY <2>1 DEF OneKeyInv
  <2>3. Remembering(a)' <=> Remembering(a)
    BY <1>3, <2>1 DEF Remembering, Quiet, VerifyOps
  <2>4. \A s \in Task : a \in tasks'[s].of => StillSo(s, a)'
    BY <1>3, <2>1, <2>2 DEF OneKey, StillSo, Quiet
  <2> QED
    BY <1>3, <2>2, <2>3, <2>4 DEF OneKey
<1>4. ASSUME NEW t \in Task, NEW a \in Identity, NEW task, Begins(t, task),
             UNCHANGED <<contact, meta, pin>>, task.op \in Quiet \ {"idle"}, task.of = {a}
      PROVE  OneKeyInv'
  <2>1. tasks[t].op \in Quiet
    BY <1>4, TaskFields DEF Begins, Quiet
  <2>2. a \notin disturbed' => OneKey(a)'
    BY <1>3, <1>4, <2>1
  <2> QED
    BY <1>4, <2>2, OneKeyBegins DEF About
<1>5. ASSUME NEW t \in Task, NEW a \in Identity, NEW task, Becomes(t, task),
             UNCHANGED <<contact, meta, pin>>, task.op \in Quiet, task.of \subseteq {a},
             task.op = "idle" => task.of = {},
             tasks[t].op \in Quiet \cup VerifyOps, tasks[t].of = {a}
      PROVE  OneKeyInv'
  <2>1. a \notin disturbed => OneKey(a)'
    BY <1>3, <1>5 DEF Becomes
  <2> QED
    BY <1>5, <2>1, OneKeyGoesOn DEF About, Quiet, VerifyOps
\* On an undisturbed address a method of the verify screen has no company.
<1>6. ASSUME NEW s \in Task, NEW u \in Task, NEW a \in Identity, a \notin disturbed,
             a \in tasks[s].of, a \in tasks[u].of, tasks[s].op \in VerifyOps
      PROVE  u = s
  BY <1>6 DEF OneKeyInv, VerifiesAlone
<1>7. ASSUME NEW t \in Task, NEW a \in Identity, PairWithCode(t, a) PROVE OneKeyInv'
  <2>1. Begins(t, Call("pairContact", a)) /\ UNCHANGED <<contact, pin>> /\ pairing = {}
    BY <1>7 DEF PairWithCode, memory
  <2>2. Call("pairContact", a).op = "pairContact" /\ Call("pairContact", a).of = {a}
    BY TaskFields DEF TaskOp
  <2>3. meta'[a] = {a} /\ \A b \in Identity : b # a => meta'[b] = meta[b]
    BY <1>1, <1>7 DEF PairWithCode
  <2>4. ASSUME a \notin disturbed' PROVE OneKey(a)'
    <3>1. /\ tasks'[t].op = "pairContact" /\ \A s \in Task : s # t => tasks'[s] = tasks[s]
          /\ a \notin disturbed
      BY <1>2, <2>1, <2>2, <2>4
    <3>2. \A s \in Task : tasks'[s].op \in {"idle", "pairContact", "pairRow"}
      BY <2>1, <3>1 DEF PairingInv, PairingHolds, Unpaired, PairOps
    <3>3. \A s \in Task : StillSo(s, a)'
      BY <3>2 DEF StillSo
    <3>4. OneKey(a) /\ contact[a].verification \in {"none", "verified"} /\ contact[a].key \subseteq {a}
      BY <2>1, <3>1 DEF OneKeyInv, PairingInv, PairingHolds, Unpaired
    <3> QED
      BY <2>1, <2>3, <3>3, <3>4 DEF OneKey
  <2> QED
    BY <2>1, <2>2, <2>3, <2>4, OneKeyBegins DEF About
<1>8. ASSUME NEW t \in Task, NEW a \in Identity, PairContact(t, a) PROVE OneKeyInv'
  <2>1. Becomes(t, Call("pairRow", a)) /\ UNCHANGED <<meta, disturbed>>
        /\ tasks[t].op = "pairContact" /\ tasks[t].of = {a}
    BY <1>8 DEF PairContact, Becomes, Doing
  <2>2. Call("pairRow", a).op = "pairRow" /\ Call("pairRow", a).of = {a}
    BY TaskFields DEF TaskOp
  <2>3. contact'[a].key = {a} /\ contact'[a].verification = "verified"
        /\ \A b \in Identity : b # a => contact'[b] = contact[b]
    BY <1>1, <1>8 DEF PairContact, Contact
  <2>4. pin'[a] = {a} /\ \A b \in Identity : b # a => pin'[b] = pin[b]
    BY <1>1, <1>8 DEF PairContact
  <2>5. ASSUME a \notin disturbed PROVE OneKey(a)'
    <3>1. pairing = {} /\ contact[a].key \subseteq {a}
      BY <2>1 DEF PairingInv, PairingHolds, PairsOne, Unpaired, PairOps
    <3>2. tasks'[t].op = "pairRow" /\ \A s \in Task : s # t => tasks'[s] = tasks[s]
      BY <1>2, <2>1, <2>2
    <3>3. \A s \in Task : tasks'[s].op \in {"idle", "pairContact", "pairRow"}
      BY <3>1, <3>2 DEF PairingInv, PairingHolds, Unpaired, PairOps
    <3>4. \A s \in Task : StillSo(s, a)'
      BY <3>3 DEF StillSo
    <3>5. meta'[a] \subseteq {a}
      BY <2>1, <2>5, <3>1 DEF OneKeyInv, OneKey
    <3> QED
      BY <2>3, <2>4, <3>4, <3>5 DEF OneKey
  <2> QED
    BY <2>1, <2>2, <2>3, <2>4, <2>5, OneKeyGoesOn DEF About, VerifyOps
<1>9. ASSUME NEW t \in Task, NEW a \in Identity, PairRow(t, a) PROVE OneKeyInv'
  BY <1>5, <1>9, TaskFields DEF PairRow, Doing, Quiet
<1>10. ASSUME NEW t \in Task, NEW a \in Identity, Send(t, a) PROVE OneKeyInv'
  <2>1. CASE session[a] # {}
    <3>1. UNCHANGED <<contact, meta, pin, tasks, disturbed>>
      BY <2>1, <1>10 DEF Send, rows, memory
    <3> QED
      BY <3>1 DEF OneKeyInv, VerifiesAlone, OneKey, StillSo, Remembering
  <2>2. CASE session[a] = {}
    <3>1. Begins(t, Call("sendFetch", a)) /\ UNCHANGED <<contact, meta, pin>>
      BY <2>2, <1>10 DEF Send, rows, memory
    <3>2. Call("sendFetch", a).op = "sendFetch" /\ Call("sendFetch", a).of = {a}
      BY TaskFields DEF TaskOp
    <3> QED
      BY <1>4, <3>1, <3>2 DEF Quiet
  <2> QED
    BY <2>1, <2>2
<1>11. ASSUME NEW t \in Task, NEW a \in Identity, SendFetched(t, a) PROVE OneKeyInv'
  <2>1. PICK k \in Identity : Becomes(t, Knows("sendCheck", a, {k}))
    BY <1>11 DEF SendFetched
  <2>2. Knows("sendCheck", a, {k}).op = "sendCheck" /\ Knows("sendCheck", a, {k}).of = {a}
    BY DEF Knows
  <2>3. /\ UNCHANGED <<contact, meta, pin>>
        /\ tasks[t].op = "sendFetch" /\ tasks[t].of = {a}
    BY <1>11 DEF SendFetched, Doing, rows, memory
  <2> QED
    BY <1>5, <2>1, <2>2, <2>3 DEF Quiet
<1>12. ASSUME NEW t \in Task, NEW a \in Identity, SendFails(t, a) PROVE OneKeyInv'
  BY <1>5, <1>12, TaskFields DEF SendFails, Doing, Quiet, rows, memory
<1>13. ASSUME NEW t \in Task, NEW a \in Identity, SendChecked(t, a) PROVE OneKeyInv'
  <2>1. tasks[t].op = "sendCheck" /\ tasks[t].of = {a} /\ UNCHANGED <<meta, pin>>
    BY <1>13 DEF SendChecked, Doing
  <2>2. contact[a].verification # "none" /\ contact[a] # None
    BY <2>1 DEF None, SendOps, PairingInv, PairingHolds, TalksToPaired
  <2>3. CASE KnownKey(contact[a], tasks[t].with)
    <3> DEFINE task == [tasks[t] EXCEPT !.op = "sendMeta"]
    <3>1. Becomes(t, task) /\ UNCHANGED <<contact, disturbed>> /\ tasks[t].with = contact[a].key
      BY <2>2, <2>3, <1>13 DEF SendChecked, KnownKey, Becomes
    <3>2. task.op = "sendMeta" /\ task.of = {a} /\ task.with = contact[a].key
      BY <1>1, <2>1, <3>1 DEF TaskRecord
    <3> HIDE DEF task
    <3>3. ASSUME a \notin disturbed PROVE OneKey(a)'
      <4>1. OneKey(a)
        BY <3>3 DEF OneKeyInv
      <4>2. tasks'[t] = task /\ \A s \in Task : s # t => tasks'[s] = tasks[s]
        BY <1>2, <3>1
      <4>3. Remembering(a)' <=> Remembering(a)
        BY <2>1, <3>2, <4>2 DEF Remembering
      <4>4. \A s \in Task : a \in tasks'[s].of => StillSo(s, a)'
        BY <2>1, <3>1, <3>2, <4>1, <4>2 DEF OneKey, StillSo
      <4> QED
        BY <2>1, <3>1, <4>1, <4>3, <4>4 DEF OneKey
    <3> QED
      BY <2>1, <3>1, <3>2, <3>3, OneKeyGoesOn DEF About, VerifyOps
  <2>4. CASE ~KnownKey(contact[a], tasks[t].with)
    <3>1. Becomes(t, Idle) /\ UNCHANGED disturbed /\ Flag(a)
      BY <2>4, <1>13 DEF SendChecked, Becomes
    <3>2. /\ contact'[a].key = contact[a].key /\ contact'[a].verification = "changed"
          /\ \A b \in Identity : b # a => contact'[b] = contact[b]
      BY <1>1, <3>1 DEF Flag, ContactRecord
    <3>3. ASSUME a \notin disturbed PROVE OneKey(a)'
      <4>1. OneKey(a)
        BY <3>3 DEF OneKeyInv
      <4>2. tasks'[t].of = {} /\ \A s \in Task : s # t => tasks'[s] = tasks[s]
        BY <1>2, <3>1, TaskFields
      <4>0. \A s \in Task : a \in tasks'[s].of => tasks'[s].op \notin VerifyOps
        BY <1>6, <2>1, <3>3, <4>2 DEF VerifyOps
      <4>3. \A s \in Task : a \in tasks'[s].of => StillSo(s, a)'
        BY <2>1, <3>2, <4>0, <4>1, <4>2 DEF OneKey, StillSo, VerifyOps
      <4> QED
        BY <2>1, <2>2, <3>2, <4>1, <4>3 DEF OneKey
    <3> QED
      BY <2>1, <3>1, <3>2, <3>3, TaskFields, OneKeyGoesOn DEF About, VerifyOps
  <2> QED
    BY <2>3, <2>4
<1>14. ASSUME NEW t \in Task, NEW a \in Identity, SendSealed(t, a) PROVE OneKeyInv'
  <2>1. /\ tasks[t].op = "sendMeta" /\ tasks[t].of = {a}
        /\ Becomes(t, Idle) /\ UNCHANGED <<contact, pin, disturbed>>
    BY <1>14 DEF SendSealed, Doing, Becomes, memory
  <2>2. meta'[a] = tasks[t].with /\ \A b \in Identity : b # a => meta'[b] = meta[b]
    BY <1>1, <1>14 DEF SendSealed
  <2>3. ASSUME a \notin disturbed PROVE OneKey(a)'
    <3>1. OneKey(a) /\ tasks[t].with = contact[a].key
      BY <2>1, <2>3 DEF OneKeyInv, OneKey, StillSo
    <3>2. tasks'[t].of = {} /\ \A s \in Task : s # t => tasks'[s] = tasks[s]
      BY <1>2, <2>1, TaskFields
    <3>3. \A s \in Task : a \in tasks'[s].of => tasks'[s].op # "acceptFetch"
      BY <1>6, <2>1, <2>3, <3>2 DEF VerifyOps
    <3>4. \A s \in Task : a \in tasks'[s].of => StillSo(s, a)'
      BY <2>1, <3>1, <3>2, <3>3 DEF OneKey, StillSo
    <3> QED
      BY <2>1, <2>2, <3>1, <3>4 DEF OneKey
  <2> QED
    BY <2>1, <2>2, <2>3, TaskFields, OneKeyGoesOn DEF About, VerifyOps
<1>15. ASSUME NEW t \in Task, NEW a \in Identity, Receive(t, a) PROVE OneKeyInv'
  <2>1. Begins(t, Call("receiveMeta", a)) /\ UNCHANGED <<contact, meta, pin>>
    BY <1>15 DEF Receive, rows
  <2>2. Call("receiveMeta", a).op = "receiveMeta" /\ Call("receiveMeta", a).of = {a}
    BY TaskFields DEF TaskOp
  <2> QED
    BY <1>4, <2>1, <2>2 DEF Quiet
<1>16. ASSUME NEW t \in Task, NEW a \in Identity, RememberIdentity(t, a) PROVE OneKeyInv'
  <2>1. /\ tasks[t].op = "receiveMeta" /\ tasks[t].of = {a}
        /\ Becomes(t, Call("receiveContact", a)) /\ UNCHANGED <<contact, pin, disturbed>>
    BY <1>16 DEF RememberIdentity, Doing, Becomes, memory
  <2>2. Call("receiveContact", a).op = "receiveContact" /\ Call("receiveContact", a).of = {a}
    BY TaskFields DEF TaskOp
  <2>3. meta'[a] \in {meta[a], {a}} /\ \A b \in Identity : b # a => meta'[b] = meta[b]
    BY <1>1, <1>16 DEF RememberIdentity
  <2>4. ASSUME a \notin disturbed PROVE OneKey(a)'
    <3>1. OneKey(a)
      BY <2>4 DEF OneKeyInv
    <3>2. /\ tasks'[t].op = "receiveContact" /\ tasks'[t].of = {a}
          /\ \A s \in Task : s # t => tasks'[s] = tasks[s]
      BY <1>2, <2>1, <2>2
    <3>3. \A s \in Task : a \in tasks'[s].of => tasks'[s].op # "acceptFetch"
      BY <1>6, <2>1, <2>4, <3>2 DEF VerifyOps
    <3>4. \A s \in Task : a \in tasks'[s].of => StillSo(s, a)'
      BY <2>1, <3>1, <3>2, <3>3 DEF OneKey, StillSo
    <3>5. Remembering(a)'
      BY <3>2 DEF Remembering
    <3> QED
      BY <2>1, <2>3, <3>1, <3>4, <3>5 DEF OneKey
  <2> QED
    BY <2>1, <2>2, <2>3, <2>4, OneKeyGoesOn DEF About, VerifyOps
<1>17. ASSUME NEW t \in Task, NEW a \in Identity, RememberContact(t, a) PROVE OneKeyInv'
  <2>1. /\ tasks[t].op = "receiveContact" /\ tasks[t].of = {a}
        /\ Becomes(t, Idle) /\ UNCHANGED <<meta, pin, disturbed>>
    BY <1>17 DEF RememberContact, Doing, Becomes, memory
  <2>2. \A b \in Identity : b # a => contact'[b] = contact[b]
    BY <1>1, <1>17 DEF RememberContact, Flag
  <2>3. ASSUME a \notin disturbed PROVE OneKey(a)'
    <3>1. OneKey(a)
      BY <2>3 DEF OneKeyInv
    <3>2. tasks'[t].of = {} /\ \A s \in Task : s # t => tasks'[s] = tasks[s]
      BY <1>2, <2>1, TaskFields
    <3>3. \A s \in Task : a \in tasks'[s].of => tasks'[s].op \notin VerifyOps
      BY <1>6, <2>1, <2>3, <3>2
    <3>4. CASE contact[a] = None
      <4>1. contact'[a].key = {a} /\ contact'[a].verification = "unverified"
        BY <1>1, <3>4, <1>17 DEF RememberContact, Contact
      <4>2. contact[a].verification = "none" /\ contact[a].key = {}
        BY <3>4 DEF None
      <4>3. \A s \in Task : a \in tasks'[s].of => tasks'[s].op # "sendMeta"
        BY <3>2, <4>2 DEF PairingInv, PairingHolds, TalksToPaired, SendOps
      <4>4. \A s \in Task : a \in tasks'[s].of => StillSo(s, a)'
        BY <3>3, <4>3 DEF StillSo, VerifyOps
      <4> QED
        BY <2>1, <3>1, <4>1, <4>2, <4>4 DEF OneKey
    <3>5. CASE contact[a] # None /\ contact[a].key # {a}
      <4>1. contact'[a].key = contact[a].key /\ contact'[a].verification = "changed"
        BY <1>1, <3>5, <1>17 DEF RememberContact, Flag, ContactRecord
      <4>2. contact[a].verification # "none"
        BY <3>5 DEF PairingInv, Filed
      <4>3. \A s \in Task : a \in tasks'[s].of => StillSo(s, a)'
        BY <3>1, <3>2, <3>3, <4>1 DEF OneKey, StillSo, VerifyOps
      <4> QED
        BY <2>1, <3>1, <4>1, <4>2, <4>3 DEF OneKey
    <3>6. CASE contact[a] # None /\ contact[a].key = {a}
      <4>1. UNCHANGED contact
        BY <3>6, <1>17 DEF RememberContact
      <4>2. \A s \in Task : a \in tasks'[s].of => StillSo(s, a)'
        BY <3>1, <3>2, <3>3, <4>1 DEF OneKey, StillSo, VerifyOps
      <4> QED
        BY <2>1, <3>1, <3>6, <4>1, <4>2 DEF OneKey
    <3> QED
      BY <3>4, <3>5, <3>6
  <2> QED
    BY <2>1, <2>2, <2>3, TaskFields, OneKeyGoesOn DEF About, VerifyOps
<1>18. ASSUME NEW t \in Task, NEW a \in Identity, MarkVerified(t, a) PROVE OneKeyInv'
  <2> DEFINE task == Knows("markPut", a, contact[a].key)
  <2>1. Begins(t, task) /\ UNCHANGED <<contact, meta, pin>> /\ contact[a].verification = "unverified"
    BY <1>18 DEF MarkVerified, rows, memory
  <2>2. task.op = "markPut" /\ task.of = {a} /\ task.with = contact[a].key
    BY DEF Knows
  <2> HIDE DEF task
  <2>4. ASSUME a \notin disturbed' PROVE OneKey(a)'
    <3>1. /\ tasks'[t] = task /\ \A s \in Task : s # t => tasks'[s] = tasks[s]
          /\ a \notin disturbed
      BY <1>2, <2>1, <2>4
    <3>2. OneKey(a) /\ tasks[t].op = "idle"
      BY <2>1, <3>1, TaskFields DEF OneKeyInv, Begins
    <3>3. Remembering(a)' <=> Remembering(a)
      BY <2>2, <3>1, <3>2 DEF Remembering
    <3>4. \A s \in Task : a \in tasks'[s].of => StillSo(s, a)'
      BY <2>1, <2>2, <3>1, <3>2 DEF OneKey, StillSo
    <3> QED
      BY <2>1, <3>2, <3>3, <3>4 DEF OneKey
  <2> QED
    BY <2>1, <2>2, <2>4, OneKeyBegins DEF About
<1>18a. ASSUME NEW t \in Task, NEW a \in Identity, MarkPut(t, a) PROVE OneKeyInv'
  <2> DEFINE task == [tasks[t] EXCEPT !.op = "markPin"]
  <2>1. /\ tasks[t].op = "markPut" /\ tasks[t].of = {a}
        /\ Becomes(t, task) /\ UNCHANGED <<meta, pin, disturbed>>
    BY <1>18a DEF MarkPut, Doing, Becomes, memory
  <2>2. task.op = "markPin" /\ task.of = {a} /\ task.with = tasks[t].with
    BY <1>1, <2>1 DEF TaskRecord
  <2>3. /\ contact'[a].key = tasks[t].with /\ contact'[a].verification = "verified"
        /\ \A b \in Identity : b # a => contact'[b] = contact[b]
    BY <1>1, <1>18a DEF MarkPut
  <2> HIDE DEF task
  <2>4. ASSUME a \notin disturbed PROVE OneKey(a)'
    <3>1. OneKey(a) /\ tasks[t].with = contact[a].key /\ contact[a].verification = "unverified"
      BY <2>1, <2>4 DEF OneKeyInv, OneKey, StillSo
    <3>2. tasks'[t] = task /\ \A s \in Task : s # t => tasks'[s] = tasks[s]
      BY <1>2, <2>1
    <3>3. \A s \in Task : a \in tasks[s].of => s = t
      BY <1>6, <2>1, <2>4 DEF VerifyOps
    <3>4. ~Remembering(a)
      BY <2>1, <3>3 DEF Remembering
    <3>5. \A s \in Task : a \in tasks'[s].of => StillSo(s, a)'
      BY <2>2, <2>3, <3>1, <3>2, <3>3 DEF StillSo
    <3>6. meta[a] \subseteq contact[a].key
      BY <3>1, <3>4 DEF OneKey
    <3> QED
      BY <2>1, <2>3, <3>1, <3>5, <3>6 DEF OneKey
  <2> QED
    BY <2>1, <2>2, <2>3, <2>4, OneKeyGoesOn DEF About, VerifyOps
<1>19. ASSUME NEW t \in Task, NEW a \in Identity, MarkPinned(t, a) PROVE OneKeyInv'
  <2>1. /\ tasks[t].op = "markPin" /\ tasks[t].of = {a}
        /\ Becomes(t, Idle) /\ UNCHANGED <<contact, meta, disturbed>>
    BY <1>19 DEF MarkPinned, Doing, Becomes, rows
  <2>2. pin'[a] = tasks[t].with /\ \A b \in Identity : b # a => pin'[b] = pin[b]
    BY <1>1, <1>19 DEF MarkPinned, Pinned
  <2>3. ASSUME a \notin disturbed PROVE OneKey(a)'
    <3>1. OneKey(a) /\ tasks[t].with = contact[a].key
      BY <2>1, <2>3 DEF OneKeyInv, OneKey, StillSo
    <3>2. tasks'[t].of = {} /\ \A s \in Task : s # t => tasks'[s] = tasks[s]
      BY <1>2, <2>1, TaskFields
    <3>3. \A s \in Task : a \notin tasks'[s].of
      BY <1>6, <2>1, <2>3, <3>2 DEF VerifyOps
    <3>4. ~Remembering(a)
      BY <1>6, <2>1, <2>3 DEF Remembering, VerifyOps
    <3> QED
      BY <2>1, <2>2, <3>1, <3>3, <3>4 DEF OneKey
  <2> QED
    BY <2>1, <2>2, <2>3, TaskFields, OneKeyGoesOn DEF About, VerifyOps
<1>20. ASSUME NEW t \in Task, NEW a \in Identity, AcceptChange(t, a) PROVE OneKeyInv'
  <2>1. Begins(t, Call("acceptFetch", a)) /\ UNCHANGED contact /\ contact[a].verification = "changed"
    BY <1>20 DEF AcceptChange
  <2>2. Call("acceptFetch", a).op = "acceptFetch" /\ Call("acceptFetch", a).of = {a}
    BY TaskFields DEF TaskOp
  <2>3. /\ meta'[a] = {} /\ pin'[a] = {}
        /\ \A b \in Identity : b # a => meta'[b] = meta[b] /\ pin'[b] = pin[b]
    BY <1>1, <1>20 DEF AcceptChange, Unfiled
  <2>4. ASSUME a \notin disturbed' PROVE OneKey(a)'
    <3>1. /\ tasks'[t].op = "acceptFetch" /\ \A s \in Task : s # t => tasks'[s] = tasks[s]
          /\ a \notin disturbed
      BY <1>2, <2>1, <2>2, <2>4
    <3>2. OneKey(a)
      BY <3>1 DEF OneKeyInv
    <3>3. \A s \in Task : a \in tasks'[s].of => StillSo(s, a)'
      BY <2>1, <2>3, <3>1, <3>2 DEF OneKey, StillSo
    <3> QED
      BY <2>1, <2>3, <3>2, <3>3 DEF OneKey
  <2> QED
    BY <2>1, <2>2, <2>3, <2>4, OneKeyBegins DEF About
<1>21. ASSUME NEW t \in Task, NEW a \in Identity, AcceptFetched(t, a) PROVE OneKeyInv'
  <2>1. /\ tasks[t].op = "acceptFetch" /\ tasks[t].of = {a}
        /\ Becomes(t, Idle) /\ UNCHANGED <<meta, pin, disturbed>>
    BY <1>21 DEF AcceptFetched, Doing, Becomes, memory
  <2>2. PICK k \in Identity : contact' = [contact EXCEPT ![a] = Contact(k, "unverified")]
    BY <1>21 DEF AcceptFetched
  <2>3. contact'[a].key = {k} /\ \A b \in Identity : b # a => contact'[b] = contact[b]
    BY <1>1, <2>2 DEF Contact
  <2>4. ASSUME a \notin disturbed PROVE OneKey(a)'
    <3>1. meta[a] = {} /\ pin[a] = {}
      BY <2>1, <2>4 DEF OneKeyInv, OneKey, StillSo
    <3>2. tasks'[t].of = {} /\ \A s \in Task : s # t => tasks'[s] = tasks[s]
      BY <1>2, <2>1, TaskFields
    <3>3. \A s \in Task : a \notin tasks'[s].of
      BY <1>6, <2>1, <2>4, <3>2 DEF VerifyOps
    <3> QED
      BY <2>1, <2>3, <3>1, <3>3 DEF OneKey
  <2> QED
    BY <2>1, <2>3, <2>4, TaskFields, OneKeyGoesOn DEF About, VerifyOps
<1>22. ASSUME NEW t \in Task, NEW a \in Identity, AcceptFails(t, a) PROVE OneKeyInv'
  <2>1. /\ tasks[t].op = "acceptFetch" /\ tasks[t].of = {a}
        /\ Becomes(t, Idle) /\ UNCHANGED <<contact, meta, pin>>
    BY <1>22 DEF AcceptFails, Doing, rows, memory
  <2> QED
    BY <1>5, <2>1, TaskFields DEF Quiet, VerifyOps
<1>23. ASSUME Restart PROVE OneKeyInv'
  <2>1. /\ \A t \in Task : tasks'[t] = Idle
        /\ disturbed' = disturbed \cup UNION {tasks[t].of : t \in Task}
        /\ UNCHANGED <<contact, meta>>
    BY <1>23 DEF Restart, rows
  <2>2. \A t \in Task : tasks'[t].of = {}
    BY <2>1, TaskFields
  <2>3. VerifiesAlone'
    BY <2>2 DEF VerifiesAlone
  <2>4. ASSUME NEW a \in Identity \ disturbed' PROVE OneKey(a)'
    <3>1. OneKey(a)
      BY <2>1, <2>4 DEF OneKeyInv
    <3>2. ~Remembering(a)
      BY <2>1, <2>4 DEF Remembering
    <3>3. pin'[a] \subseteq contact[a].key
      BY <1>23 DEF Restart, PinsOf
    <3> QED
      BY <2>1, <2>2, <3>1, <3>2, <3>3 DEF OneKey
  <2> QED
    BY <2>2, <2>3, <2>4 DEF OneKeyInv
<1>24. ASSUME UNCHANGED vars PROVE OneKeyInv'
  BY <1>24 DEF vars, rows, memory, OneKeyInv, VerifiesAlone, OneKey, StillSo, Remembering
<1> QED
  BY <1>7, <1>8, <1>9, <1>10, <1>11, <1>12, <1>13, <1>14, <1>15, <1>16, <1>17, <1>18,
     <1>18a, <1>19, <1>20, <1>21, <1>22, <1>23, <1>24 DEF Next

-----------------------------------------------------------------------------
LEMMA ContactsInit ==
  ASSUME Init
  PROVE  TypesInv /\ PairingInv /\ KeysInv /\ OneKeyInv
<1>1. TypesInv
  BY KeySetFacts DEF Init, TypesInv, TypeOK, None, Idle, TaskRecord, TaskOp
<1>2. PairingInv
  BY DEF Init, PairingInv, Filed, PairingHolds, Unpaired, PairsOne, TalksToPaired,
         AtPaired, None, Idle, PairOps, SendOps, Talking
<1>3. KeysInv
  BY DEF Init, KeysInv, SealedToKnown, None, Idle
<1>4. OneKeyInv
  BY DEF Init, OneKeyInv, VerifiesAlone, OneKey, StillSo, Remembering, None, Idle
<1> QED
  BY <1>1, <1>2, <1>3, <1>4

LEMMA ContactsHold == Spec => [](TypesInv /\ PairingInv /\ KeysInv /\ OneKeyInv)
<1>1. Init => TypesInv /\ PairingInv /\ KeysInv /\ OneKeyInv
  BY ContactsInit
<1>2. TypesInv /\ PairingInv /\ KeysInv /\ OneKeyInv /\ [Next]_vars
        => (TypesInv /\ PairingInv /\ KeysInv /\ OneKeyInv)'
  BY TypesStep, PairingStep, KeysStep, OneKeyStep
<1> QED
  BY <1>1, <1>2, PTL DEF Spec

\* Every variable of the phone's contacts keeps to its values.
THEOREM ContactsTyped == Spec => []TypeOK
<1>1. TypesInv => TypeOK
  BY DEF TypesInv
<1> QED
  BY <1>1, ContactsHold, PTL

\* However handlers, the pairing and restarts interleave, a session in the Map
\* is at the paired address and with the identity whose code was scanned, or with
\* the key that the request of a press of accept was answered with
\* (messenger.ts:327-354, 532-548).
THEOREM PairedOnly == Spec => []OnlyPairedSessions
<1>1. PairingInv /\ KeysInv => OnlyPairedSessions
  BY DEF PairingInv, PairingHolds, AtPaired, KeysInv, Trusted, OnlyPairedSessions
<1> QED
  BY <1>1, ContactsHold, PTL

\* Whatever bundles the relay answers with and whatever is under way when they
\* come, a message is sealed to the key of a scanned code, whose address it is; to
\* another only once a press of accept took it from the relay, and then to that
\* one (messenger.ts:339-354, 717-731).
THEOREM SealedToKnownKeys == Spec => []SealedToKnown
<1>1. KeysInv => SealedToKnown
  BY DEF KeysInv
<1> QED
  BY <1>1, ContactsHold, PTL

\* On an address no method of the verify screen was disturbed on, the safety
\* number shown, the contact and the pin of a verified contact are about one key,
\* after refused, half-done and accepted changes too (messenger.ts:706-731).
THEOREM VerifiedKeysAgree == Spec => []VerifiedIsOneKey
<1>1. OneKeyInv => VerifiedIsOneKey
  <2> SUFFICES ASSUME OneKeyInv, NEW a \in Identity \ disturbed,
                      contact[a].verification = "verified",
                      \A t \in Task : a \notin tasks[t].of
               PROVE  meta[a] \cup pin[a] \subseteq contact[a].key
    BY DEF VerifiedIsOneKey
  <2>1. ~Remembering(a)
    BY DEF Remembering
  <2> QED
    BY <2>1 DEF OneKeyInv, OneKey
<1> QED
  BY <1>1, ContactsHold, PTL

-----------------------------------------------------------------------------
(* What identities, envelopes and handshakes guarantee, for all keys.      *)

\* What a bundle that was verified holds is what its identity made: each key was
\* signed under its id and as the kind of key it is used as, so a KEM prekey in
\* the place of a signed prekey is refused (verifyPreKeyBundle, identity.ts:263).
THEOREM BundleKeysAreSigned ==
  ASSUME NEW b \in PreKeyBundle, VerifyPreKeyBundle(b)
  PROVE  /\ b.signedPreKey =
              CreateSignedPreKey(b.identity, b.signedPreKey.id, b.signedPreKey.key)
         /\ b.signedKemPreKey =
              CreateSignedKemPreKey(b.identity, b.signedKemPreKey.id, b.signedKemPreKey.key)
         /\ ~VerifyPreKeyBundle([b EXCEPT !.signedPreKey = b.signedKemPreKey])
<1> DEFINE signed == b.signedPreKey
           kem    == b.signedKemPreKey
<1>1. /\ signed \in SignedPreKeys /\ kem \in SignedPreKeys
      /\ signed.signature = Sign(b.identity.signing, SignedPreKeyText(b.identity, signed.id, signed.key))
      /\ kem.signature = Sign(b.identity.signing, SignedKemPreKeyText(b.identity, kem.id, kem.key))
  BY DEF VerifyPreKeyBundle, Verify, PreKeyBundle
<1>2. signed = CreateSignedPreKey(b.identity, signed.id, signed.key)
  BY <1>1 DEF CreateSignedPreKey, SignedPreKeys
<1>3. kem = CreateSignedKemPreKey(b.identity, kem.id, kem.key)
  BY <1>1 DEF CreateSignedKemPreKey, SignedPreKeys
<1>4. kem.signature # Sign(b.identity.signing, SignedPreKeyText(b.identity, kem.id, kem.key))
  <2>1. Sign(b.identity.signing, SignedKemPreKeyText(b.identity, kem.id, kem.key)).over.context
          = "kem prekey"
    BY DEF Sign, SignedKemPreKeyText, SigningTranscript
  <2>2. Sign(b.identity.signing, SignedPreKeyText(b.identity, kem.id, kem.key)).over.context
          = "signed prekey"
    BY DEF Sign, SignedPreKeyText, SigningTranscript
  <2> HIDE DEF kem
  <2> QED
    BY <1>1, <2>1, <2>2
<1>5. ~VerifyPreKeyBundle([b EXCEPT !.signedPreKey = b.signedKemPreKey])
  BY <1>4 DEF VerifyPreKeyBundle, Verify, PreKeyBundle
<1> QED
  BY <1>2, <1>3, <1>5

\* Two people compare equal numbers exactly when both devices hold the same two
\* keys, whichever of them each calls its own (safetyNumber, safetyNumber.ts:85).
THEOREM SafetyNumbersAgree ==
  ASSUME NEW a \in PublicIdentity, NEW b \in PublicIdentity,
         NEW c \in PublicIdentity, NEW d \in PublicIdentity
  PROVE  SafetyNumber(a, b) = SafetyNumber(c, d)
           <=> {a.signing, b.signing} = {c.signing, d.signing}
<1>1. a.signing \in Nat /\ b.signing \in Nat /\ c.signing \in Nat /\ d.signing \in Nat
  BY DEF PublicIdentity, Key
<1> QED
  BY <1>1 DEF SafetyNumber, IdentityFingerprint

\* An envelope opens for its recipient, with the sender and the payload that went
\* in, and for nobody else, whatever address it was delivered to
\* (sealEnvelope and openEnvelope, envelope.ts:105-221).
THEOREM SealedForOne ==
  ASSUME NEW sender \in PublicIdentity, VerifyIdentityBinding(sender),
         NEW recipient \in PublicIdentity, NEW self \in PublicIdentity,
         NEW ephemeral \in Key, NEW kind, NEW payload, NEW address,
         NEW envelope \in SealEnvelope(sender, recipient, ephemeral, kind, payload)
  PROVE  OpenEnvelope(self, [envelope EXCEPT !.recipientAddress = address]) =
           IF self.exchange = recipient.exchange /\ self.signing = recipient.signing
           THEN {[senderIdentity |-> sender, kind |-> kind, payload |-> payload]}
           ELSE {}
<1> DEFINE keys  == EnvelopeKeys(Dh(ephemeral, recipient.exchange), ephemeral, recipient.exchange)
           text  == SenderProofTranscript(ephemeral, AddressOf(recipient), kind, payload)
           inner == [identity |-> sender, proof |-> Sign(sender.signing, text),
                     kind |-> kind, payload |-> payload]
           given == [envelope EXCEPT !.recipientAddress = address]
           own   == EnvelopeKeys(Dh(self.exchange, ephemeral), ephemeral, self.exchange)
           Proven(x) == Verify(x.identity.signing,
                          SenderProofTranscript(ephemeral, AddressOf(self), x.kind, x.payload),
                          x.proof)
<1>1. given.ephemeral = ephemeral /\ given.ciphertext = AeadEncrypt(keys, inner)
  BY DEF SealEnvelope
<1>2. AeadDecrypt(own, given.ciphertext) = IF keys = own THEN {inner} ELSE {}
  BY <1>1 DEF AeadEncrypt, AeadDecrypt
<1>3. keys = own <=> self.exchange = recipient.exchange
  BY DEF EnvelopeKeys, Dh
<1>4. Proven(inner) <=> self.signing = recipient.signing
  <2>1. Proven(inner) <=> text = SenderProofTranscript(ephemeral, AddressOf(self), kind, payload)
    BY DEF Verify, Sign
  <2> QED
    BY <2>1 DEF SenderProofTranscript, AddressOf
<1>5. VerifyIdentityBinding(inner.identity)
  OBVIOUS
<1>6. OpenEnvelope(self, given) =
        {[senderIdentity |-> x.identity, kind |-> x.kind, payload |-> x.payload] :
           x \in {y \in AeadDecrypt(own, given.ciphertext) :
                    VerifyIdentityBinding(y.identity) /\ Proven(y)}}
  BY <1>1 DEF OpenEnvelope
<1>7. {y \in AeadDecrypt(own, given.ciphertext) : VerifyIdentityBinding(y.identity) /\ Proven(y)}
        = IF self.exchange = recipient.exchange /\ self.signing = recipient.signing
          THEN {inner} ELSE {}
  BY <1>2, <1>3, <1>4, <1>5
<1>8. CASE self.exchange = recipient.exchange /\ self.signing = recipient.signing
  <2>1. OpenEnvelope(self, given) =
          {[senderIdentity |-> x.identity, kind |-> x.kind, payload |-> x.payload] : x \in {inner}}
    BY <1>6, <1>7, <1>8
  <2>2. inner.identity = sender /\ inner.kind = kind /\ inner.payload = payload
    OBVIOUS
  <2> HIDE DEF inner, given
  <2>3. OpenEnvelope(self, given) = {[senderIdentity |-> sender, kind |-> kind, payload |-> payload]}
    BY <2>1, <2>2
  <2> QED
    BY <1>8, <2>3 DEF given
<1>9. CASE ~(self.exchange = recipient.exchange /\ self.signing = recipient.signing)
  <2>1. OpenEnvelope(self, given) = {}
    BY <1>6, <1>7, <1>9
  <2> QED
    BY <1>9, <2>1
<1> QED
  BY <1>8, <1>9

\* Both sides of an exchange compute the same, and only they (dh, primitives.ts:171).
LEMMA DhAgrees ==
  ASSUME NEW x, NEW y, NEW z
  PROVE  Dh(x, y) = Dh(y, x) /\ (Dh(x, y) = Dh(y, z) <=> x = z)
BY DEF Dh

\* The responder derives the initiator's root secret exactly when what it holds
\* under the ids is what the bundle was made of; a prekey of another life under
\* the same id, or a wiped one, gives another root and no error
\* (initiateHandshake, pqxdh.ts:145; respondToHandshake, pqxdh.ts:210).
THEOREM RootsAgree ==
  ASSUME NEW alice \in PublicIdentity, NEW bob \in PublicIdentity,
         NEW bundle \in PreKeyBundle, bundle.identity = bob,
         NEW ephemeral \in Key, NEW fresh \in Key,
         NEW found \in Found,
         NEW r \in RespondToHandshake(bob, alice,
                     InitiateHandshake(alice, bundle, ephemeral, fresh), found)
  PROVE  LET h == InitiateHandshake(alice, bundle, ephemeral, fresh) IN
         /\ r.associatedData = h.associatedData
         /\ r.rootSecret = h.rootSecret
              <=> /\ found.signed = bundle.signedPreKey.key
                  /\ found.oneTime = bundle.oneTimePreKey.key
                  /\ KemChoice(found.oneTimeKem, found.signedKem) =
                       KemChoice(bundle.oneTimeKemPreKey.key, bundle.signedKemPreKey.key)
<1> DEFINE h    == InitiateHandshake(alice, bundle, ephemeral, fresh)
           spk  == bundle.signedPreKey.key
           opk  == bundle.oneTimePreKey
           kpk  == KemChoice(bundle.oneTimeKemPreKey.key, bundle.signedKemPreKey.key)
           held == KemChoice(found.oneTimeKem, found.signedKem)
           text == HandshakeTranscript(alice, bob, ephemeral, [to |-> kpk, fresh |-> fresh],
                                       KeyIds(bundle))
           sent == Secrets(Dh(alice.exchange, spk), Dh(ephemeral, bob.exchange), Dh(ephemeral, spk),
                           IF opk = Absent THEN {} ELSE Dh(ephemeral, opk.key),
                           [under |-> kpk, fresh |-> fresh])
           got  == Secrets(Dh(found.signed, alice.exchange), Dh(bob.exchange, ephemeral),
                           Dh(found.signed, ephemeral),
                           IF found.oneTime = 0 THEN {} ELSE Dh(found.oneTime, ephemeral),
                           [under |-> held, fresh |-> fresh])
<1>1. /\ h.rootSecret = DeriveRootSecret(sent, text)
      /\ h.associatedData = AssociatedData(alice, bob)
      /\ h.ephemeral = ephemeral /\ h.ciphertext = [to |-> kpk, fresh |-> fresh]
      /\ h.keyIds = KeyIds(bundle)
  BY DEF InitiateHandshake, KemEncapsulate
<1>2. /\ r.rootSecret = DeriveRootSecret(got, text)
      /\ r.associatedData = AssociatedData(alice, bob)
      /\ IdsMatch(KeyIds(bundle), found)
  BY <1>1 DEF RespondToHandshake, KemDecapsulate
<1>3. r.rootSecret = h.rootSecret <=> got = sent
  BY <1>1, <1>2 DEF DeriveRootSecret
<1>4. opk = Absent <=> found.oneTime = 0
  BY <1>2 DEF IdsMatch, KeyIds, OptionalId
<1>5. CASE opk = Absent
  <2>1. opk.key = 0 /\ found.oneTime = 0
    BY <1>4, <1>5 DEF Absent
  <2>2. /\ got = <<Dh(found.signed, alice.exchange), Dh(bob.exchange, ephemeral),
                   Dh(found.signed, ephemeral), [under |-> held, fresh |-> fresh]>>
        /\ sent = <<Dh(alice.exchange, spk), Dh(ephemeral, bob.exchange), Dh(ephemeral, spk),
                    [under |-> kpk, fresh |-> fresh]>>
    BY <1>5, <2>1 DEF Secrets
  <2> HIDE DEF got, sent, spk, held, kpk
  <2>3. got = sent <=> /\ Dh(found.signed, alice.exchange) = Dh(alice.exchange, spk)
                       /\ Dh(bob.exchange, ephemeral) = Dh(ephemeral, bob.exchange)
                       /\ Dh(found.signed, ephemeral) = Dh(ephemeral, spk)
                       /\ held = kpk
    BY <2>2
  <2>4. got = sent <=> found.signed = spk /\ held = kpk
    BY <2>3, DhAgrees
  <2> QED
    BY <1>1, <1>2, <1>3, <2>1, <2>4 DEF spk, held, kpk
<1>6. CASE opk # Absent
  <2>1. found.oneTime # 0
    BY <1>4, <1>6
  <2>2. /\ got = <<Dh(found.signed, alice.exchange), Dh(bob.exchange, ephemeral),
                   Dh(found.signed, ephemeral), Dh(found.oneTime, ephemeral),
                   [under |-> held, fresh |-> fresh]>>
        /\ sent = <<Dh(alice.exchange, spk), Dh(ephemeral, bob.exchange), Dh(ephemeral, spk),
                    Dh(ephemeral, opk.key), [under |-> kpk, fresh |-> fresh]>>
    BY <1>6, <2>1 DEF Secrets, Dh
  <2> HIDE DEF got, sent, spk, opk, held, kpk
  <2>3. got = sent <=> /\ Dh(found.signed, alice.exchange) = Dh(alice.exchange, spk)
                       /\ Dh(bob.exchange, ephemeral) = Dh(ephemeral, bob.exchange)
                       /\ Dh(found.signed, ephemeral) = Dh(ephemeral, spk)
                       /\ Dh(found.oneTime, ephemeral) = Dh(ephemeral, opk.key)
                       /\ held = kpk
    BY <2>2
  <2>4. got = sent <=> found.signed = spk /\ found.oneTime = opk.key /\ held = kpk
    BY <2>3, DhAgrees
  <2> QED
    BY <1>1, <1>2, <1>3, <2>4 DEF spk, opk, held, kpk
<1> QED
  BY <1>5, <1>6

\* No two handshakes share a root secret: it fixes both parties, the ephemeral
\* key and the ids of the prekeys (handshakeTranscript, pqxdh.ts:104).
THEOREM RootsTellHandshakesApart ==
  ASSUME NEW a, NEW b, NEW m, NEW n, NEW e, NEW f, NEW x, NEW y,
         InitiateHandshake(a, m, e, x).rootSecret = InitiateHandshake(b, n, f, y).rootSecret
  PROVE  /\ e = f /\ KeyIds(m) = KeyIds(n)
         /\ a.signing = b.signing /\ a.exchange = b.exchange
         /\ m.identity.signing = n.identity.signing
         /\ m.identity.exchange = n.identity.exchange
<1> DEFINE text(i, j, k, z) ==
             HandshakeTranscript(i, j.identity, k,
               KemEncapsulate(KemChoice(j.oneTimeKemPreKey.key, j.signedKemPreKey.key), z).ciphertext,
               KeyIds(j))
<1>1. /\ InitiateHandshake(a, m, e, x).rootSecret.salt = text(a, m, e, x)
      /\ InitiateHandshake(b, n, f, y).rootSecret.salt = text(b, n, f, y)
  BY DEF InitiateHandshake, DeriveRootSecret
<1>2. text(a, m, e, x) = text(b, n, f, y)
  BY <1>1
<1>3. /\ text(a, m, e, x).ephemeral = e /\ text(b, n, f, y).ephemeral = f
      /\ text(a, m, e, x).ids = KeyIds(m) /\ text(b, n, f, y).ids = KeyIds(n)
      /\ text(a, m, e, x).parties = AssociatedData(a, m.identity)
      /\ text(b, n, f, y).parties = AssociatedData(b, n.identity)
  BY DEF HandshakeTranscript
<1> QED
  BY <1>2, <1>3 DEF AssociatedData
=============================================================================
