------------------------------- MODULE Messages -------------------------------
(***************************************************************************)
(* The messages and the conversation a phone keeps: sendText, onPayload,   *)
(* sync, the conversation's row and the sweep of disappearing messages of  *)
(* core/messenger.ts, as App.tsx calls them.                               *)
(*                                                                         *)
(* A method runs undisturbed from one await to the next; a row it has read *)
(* or built stays as it was until it is put.  The database carries out its *)
(* calls in the order they are made, so a put happens when it is called.   *)
(* The peer runs the same program: it is seen here only as what it takes   *)
(* and sends.  A receipt is named by the text it is about.                 *)
(***************************************************************************)
EXTENDS Integers, FiniteSets

CONSTANTS
  Text,         \* texts this phone's user may write
  Note,         \* texts the peer's user may write
  Timer,        \* the choices of the disappearing timer, 0 for off
  MaxClock,     \* bound: the clock
  MaxStarts     \* bound: times the app is started

ASSUME TimersAreTimes == Timer \subseteq Nat /\ 0 \in Timer

\* Ids are random, whoever draws them.
ASSUME IdsDiffer == Text \cap Note = {}

VARIABLES
  clock,
  row,      \* rows of messages, by id
  conv,     \* the row of the peer's conversation
  out,      \* by text: where sendText is, when the text expires, the row read
  inn,      \* by note: where onPayload is, the row read
  receipt,  \* by text: where onPayload is with its receipt, the row read
  queue,    \* relay: what waits for this phone until acknowledged
  acks,     \* acknowledgements on their way
  mail,     \* relay: what waits for the peer
  readable, \* what has been sealed to this phone's present keys and not been opened
  current,  \* whether the peer's session is with this start of the app
  sweep,    \* expired rows that a pass has read and will delete
  screen,   \* what the chat screen has under way, the row read
  starts

VARIABLES
  answered, \* history: texts whose sending the relay has confirmed
  held,     \* history: texts the peer has stored
  old,      \* history: texts written before the present start
  acked,    \* history: what the relay has dropped because it was acknowledged
  kept,     \* history: notes stored
  unopened, \* history: notes that could not be opened when they were handed over
  broken,   \* history: notes whose handler threw or was cut off before it stored them
  fresh,    \* history: notes stored, not counted by the time of the last markRead
  uncounted, \* history: notes whose handler ended so after it stored them, before it counted
  asked,    \* history: the timer last asked for
  torn      \* history: a row of the conversation was put over one it had not read

phone   == <<clock, row, conv, out, inn, receipt, sweep, screen, starts>>
wire    == <<queue, acks, mail, readable, current>>
fates   == <<unopened, broken, fresh, uncounted>>
history == <<answered, held, old, acked, kept, fates, asked, torn>>
vars    == <<phone, wire, history>>

Id      == Text \cup Note
Never   == -1

NoRow == [of |-> "nobody", status |-> "none", expires |-> Never]
Row(of, status, expires) == [of |-> of, status |-> status, expires |-> expires]

\* expiresAt, set only when a timer is.
Expiry(t) == IF t = 0 THEN Never ELSE clock + t
Overdue(r) == r.expires # Never /\ r.expires <= clock

NoConversation == [unread |-> 0, timer |-> 0]

AtStep(step) == [step |-> step, seen |-> NoConversation]
Nothing == AtStep("none")
NoReceipt == [step |-> "none", seen |-> NoRow]
Ended(step) == [step |-> step, expires |-> Never, seen |-> NoConversation]

Init ==
  /\ clock = 0
  /\ row = [i \in Id |-> NoRow]
  /\ conv = NoConversation          \* put by addContactFromCode at pairing
  /\ out = [m \in Text |-> Ended("none")]
  /\ inn = [n \in Note |-> Nothing]
  /\ receipt = [m \in Text |-> NoReceipt]
  /\ queue = {} /\ acks = {} /\ mail = {} /\ readable = {} /\ current = TRUE
  /\ sweep = {}
  /\ screen = Nothing
  /\ starts = 1
  /\ answered = {} /\ held = {} /\ old = {} /\ acked = {}
  /\ kept = {} /\ unopened = {} /\ broken = {} /\ fresh = {} /\ uncounted = {} /\ asked = 0 /\ torn = FALSE

\* Putting back a conversation read some awaits ago.
PutConversation(seen, c) ==
  /\ conv' = c
  /\ torn' = (torn \/ conv # seen)

\* touchConversation, whose preview and time are left out; and with a fresh
\* row in place of the one read, as if `existing ?? ...` were not there.
TouchAfresh(seen, delta) ==
  PutConversation(seen, [NoConversation EXCEPT !.unread = seen.unread + delta])
Touch(seen, delta) == PutConversation(seen, [seen EXCEPT !.unread = @ + delta])

-----------------------------------------------------------------------------
(* Sending.                                                                *)

At(m, step) == out[m].step = step
Moves(m, step) == out' = [out EXCEPT ![m].step = step]
Ends(m, step) == out' = [out EXCEPT ![m] = Ended(step)]

\* The text's row comes first.  The timer is the one the screen shows, whose
\* list may not have been refreshed since the user set it.
Compose(m) ==
  /\ At(m, "none")
  /\ \E t \in {0, conv.timer} :
       /\ out' = [out EXCEPT ![m].step = "written", ![m].expires = Expiry(t)]
       /\ row' = [row EXCEPT ![m] = Row("me", "pending", Expiry(t))]
  /\ UNCHANGED <<clock, conv, inn, receipt, sweep, screen, starts, wire, history>>

\* sendPayload seals it and the relay takes it; for an address without an
\* account it only says so.  The answer may be lost on its way back.
Accept(m) ==
  /\ At(m, "written")
  /\ mail' \in {mail, mail \cup {m}}
  /\ \E heard \in BOOLEAN :
       /\ Moves(m, IF heard THEN "accepted" ELSE "unheard")
       /\ answered' = IF heard THEN answered \cup {m} ELSE answered
  /\ UNCHANGED <<clock, row, conv, inn, receipt, sweep, screen, starts, queue, acks, readable,
                 current, held, old, acked, kept, fates, asked, torn>>

\* A text marked as sent before its request has been answered.
SendHopes(m) ==
  /\ out[m].step \in {"written", "accepted"}
  /\ Moves(m, "sent")
  /\ row' = [row EXCEPT ![m] = Row("me", "sent", out[m].expires)]
  /\ UNCHANGED <<clock, conv, inn, receipt, sweep, screen, starts, wire, history>>

\* The record held since Compose is put, whatever the row has become.
SendReturns(m) ==
  /\ At(m, "accepted")
  /\ Moves(m, "sent")
  /\ row' = [row EXCEPT ![m] = Row("me", "sent", out[m].expires)]
  /\ UNCHANGED <<clock, conv, inn, receipt, sweep, screen, starts, wire, history>>

\* No session to be had, too large, refused by a limiter, or unanswered.
SendThrows(m) ==
  /\ out[m].step \in {"written", "unheard"}
  /\ Ends(m, "threw")
  /\ row' = [row EXCEPT ![m] = Row("me", "failed", out[m].expires)]
  /\ UNCHANGED <<clock, conv, inn, receipt, sweep, screen, starts, wire, history>>

SendReads(m) ==
  /\ At(m, "sent")
  /\ out' = [out EXCEPT ![m].step = "touching", ![m].seen = conv]
  /\ UNCHANGED <<clock, row, conv, inn, receipt, sweep, screen, starts, wire, history>>

SendTouches(m) ==
  /\ At(m, "touching")
  /\ Ends(m, "over")
  /\ Touch(out[m].seen, 0)
  /\ UNCHANGED <<clock, row, inn, receipt, sweep, screen, starts, wire, answered, held,
                 old, acked, kept, fates, asked>>

-----------------------------------------------------------------------------
(* The peer, and what the relay keeps for this phone.                      *)

\* A session with this start may be one this phone cannot read in all the same:
\* its handshake named a wiped prekey, crossed this phone's own, or a message
\* handed over again has turned the ratchet.
Enqueue(i, session) ==
  /\ queue' = queue \cup {i}
  /\ \E opens \in {FALSE, session} : readable' = IF opens THEN readable \cup {i} ELSE readable

\* It stores a text, which may renew its session, and may send a receipt.  A
\* text it cannot open is one that stays where it is.
PeerStores(m) ==
  /\ m \in mail
  /\ mail' = mail \ {m}
  /\ held' = held \cup {m}
  /\ current' = (current \/ m \notin old)
  /\ \/ Enqueue(m, current')
     \/ UNCHANGED <<queue, readable>>
  /\ UNCHANGED <<phone, acks, answered, old, acked, kept, fates, asked, torn>>

PeerSends(n) ==
  /\ inn[n].step = "none"
  /\ inn' = [inn EXCEPT ![n].step = "queued"]
  /\ Enqueue(n, current)
  /\ UNCHANGED <<clock, row, conv, out, receipt, sweep, screen, starts, acks, mail, current,
                 history>>

-----------------------------------------------------------------------------
(* Receiving: the socket hands over a message whenever it likes, and sync  *)
(* all that wait.  An id that is handed over twice fails the second time.  *)

\* decryptEnvelope throws, and handleDelivered answers with the id all the same,
\* also while an earlier handing over of it is still being stored.  What it does
\* to the ratchet before it throws stays: others that wait may not open after it.
Undecryptable(i) ==
  /\ i \in queue \ (readable \cup acks)
  /\ acks' = acks \cup {i}
  /\ readable' \in SUBSET readable
  /\ unopened' = unopened \cup {n \in Note : n = i /\ inn[n].step = "queued"}
  /\ UNCHANGED <<phone, queue, mail, current, answered, held, old, acked, kept, broken, fresh,
                 uncounted, asked, torn>>

\* Opened once, at which its key is gone; rememberPeer follows.
OpenNote(n) ==
  /\ n \in queue \cap readable
  /\ readable' = readable \ {n}
  /\ inn' = [inn EXCEPT ![n].step = "opened"]
  /\ UNCHANGED <<clock, row, conv, out, receipt, sweep, screen, starts, queue, acks, mail,
                 current, history>>

StoreNote(n) ==
  /\ inn[n].step = "opened"
  /\ \E t \in Timer : row' = [row EXCEPT ![n] = Row("peer", "delivered", Expiry(t))]
  /\ inn' = [inn EXCEPT ![n].step = "stored"]
  /\ kept' = kept \cup {n}
  /\ fresh' = fresh \cup {n}
  /\ UNCHANGED <<clock, conv, out, receipt, sweep, screen, starts, wire, answered, held,
                 old, acked, unopened, broken, uncounted, asked, torn>>

NoteReads(n) ==
  /\ inn[n].step = "stored"
  /\ inn' = [inn EXCEPT ![n] = [step |-> "touching", seen |-> conv]]
  /\ UNCHANGED <<clock, row, conv, out, receipt, sweep, screen, starts, wire, history>>

\* The receipt it sends is the peer's business; sent or not, the id is answered.
NoteTouches(n) ==
  /\ inn[n].step = "touching"
  /\ inn' = [inn EXCEPT ![n] = AtStep("over")]
  /\ Touch(inn[n].seen, 1)
  /\ acks' = acks \cup {n}
  /\ UNCHANGED <<clock, row, out, receipt, sweep, screen, starts, queue, mail, readable, current,
                 answered, held, old, acked, kept, fates, asked>>

\* The handlers that throw, or are cut off, before they store or before they count.
Counting == {"stored", "touching"}
CutOff(notes) ==
  /\ broken' = broken \cup {n \in notes : inn[n].step = "opened"}
  /\ uncounted' = uncounted \cup {n \in notes : inn[n].step \in Counting}

\* A row that cannot be read or written: not ok, but acknowledged.
NoteThrows(n) ==
  /\ inn[n].step \in {"opened"} \cup Counting
  /\ inn' = [inn EXCEPT ![n] = AtStep("over")]
  /\ acks' = acks \cup {n}
  /\ CutOff({n})
  /\ UNCHANGED <<clock, row, conv, out, receipt, sweep, screen, starts, queue, mail, readable,
                 current, answered, held, old, acked, kept, unopened, fresh, asked, torn>>

OpenReceipt(m) ==
  /\ m \in queue \cap readable
  /\ readable' = readable \ {m}
  /\ receipt' = [receipt EXCEPT ![m].step = "opened"]
  /\ UNCHANGED <<clock, row, conv, out, inn, sweep, screen, starts, queue, acks, mail, current,
                 history>>

\* Only a row that is there and is this phone's own.
ReceiptReads(m) ==
  /\ receipt[m].step = "opened"
  /\ IF row[m].of = "me"
     THEN /\ receipt' = [receipt EXCEPT ![m] = [step |-> "read", seen |-> row[m]]]
          /\ UNCHANGED acks
     ELSE /\ receipt' = [receipt EXCEPT ![m] = NoReceipt]
          /\ acks' = acks \cup {m}
  /\ UNCHANGED <<clock, row, conv, out, inn, sweep, screen, starts, queue, mail, readable,
                 current, history>>

ReceiptWrites(m) ==
  /\ receipt[m].step = "read"
  /\ row' = [row EXCEPT ![m] = [receipt[m].seen EXCEPT !.status = "delivered"]]
  /\ receipt' = [receipt EXCEPT ![m] = NoReceipt]
  /\ acks' = acks \cup {m}
  /\ UNCHANGED <<clock, conv, out, inn, sweep, screen, starts, queue, mail, readable, current,
                 history>>

\* The relay drops what is acknowledged, or the whole of what waits.  An
\* acknowledgement that gets lost is one that never arrives: a second delivery
\* would only ask for it again.
AckEverything(i) ==
  /\ i \in acks
  /\ acks' = acks \ {i}
  /\ queue' = {}
  /\ acked' = acked \cup queue
  /\ UNCHANGED <<phone, mail, readable, current, answered, held, old, kept, fates,
                 asked, torn>>
Ack(i) ==
  /\ i \in acks
  /\ acks' = acks \ {i}
  /\ queue' = queue \ {i}
  /\ acked' = acked \cup {i}
  /\ UNCHANGED <<phone, mail, readable, current, answered, held, old, kept, fates,
                 asked, torn>>

-----------------------------------------------------------------------------
(* The chat screen.                                                        *)

\* openChat: the history, whose expired rows go one at a time as a sweep's do;
\* and, some awaits later, markRead.
OpenChat ==
  /\ screen.step = "none"
  /\ screen' = AtStep("history")
  /\ sweep' = sweep \cup {i \in Id : Overdue(row[i])}
  /\ UNCHANGED <<clock, row, conv, out, inn, receipt, starts, wire, history>>

MarkReadReads ==
  /\ screen.step = "history"
  /\ screen' = [step |-> "marking", seen |-> conv]
  /\ UNCHANGED <<clock, row, conv, out, inn, receipt, sweep, starts, wire, history>>

MarkReadWrites ==
  /\ screen.step = "marking"
  /\ screen' = Nothing
  /\ PutConversation(screen.seen, [screen.seen EXCEPT !.unread = 0])
  /\ fresh' = {n \in fresh : inn[n].step \in Counting}
  /\ UNCHANGED <<clock, row, out, inn, receipt, sweep, starts, wire, answered, held, old,
                 acked, kept, unopened, broken, uncounted, asked>>

\* Bound: the user turns the timer on once.
setDisappearTimer ==
  /\ screen.step = "none" /\ asked = 0
  /\ screen' = [step |-> "timing", seen |-> conv]
  /\ UNCHANGED <<clock, row, conv, out, inn, receipt, sweep, starts, wire, history>>

TimerWrites ==
  /\ screen.step = "timing"
  /\ screen' = Nothing
  /\ \E t \in Timer \ {0} :
       /\ PutConversation(screen.seen, [screen.seen EXCEPT !.timer = t])
       /\ asked' = t
  /\ UNCHANGED <<clock, row, out, inn, receipt, sweep, starts, wire, answered, held, old,
                 acked, kept, fates>>

-----------------------------------------------------------------------------
(* Disappearing messages, and the end of a run of the app.                 *)

\* A sweep that spares what the user wrote, and the code's: it reads every row,
\* and deletes the expired ones one at a time.
PurgeNotes ==
  /\ \E i \in Note : Overdue(row[i])
  /\ sweep' = sweep \cup {i \in Note : Overdue(row[i])}
  /\ UNCHANGED <<clock, row, conv, out, inn, receipt, screen, starts, wire, history>>
purgeExpired ==
  /\ \E i \in Id : Overdue(row[i])
  /\ sweep' = sweep \cup {i \in Id : Overdue(row[i])}
  /\ UNCHANGED <<clock, row, conv, out, inn, receipt, screen, starts, wire, history>>

Delete(i) ==
  /\ i \in sweep
  /\ sweep' = sweep \ {i}
  /\ row' = [row EXCEPT ![i] = NoRow]
  /\ UNCHANGED <<clock, conv, out, inn, receipt, screen, starts, wire, history>>

Tick ==
  /\ clock < MaxClock
  /\ clock' = clock + 1
  /\ UNCHANGED <<row, conv, out, inn, receipt, sweep, screen, starts, wire, history>>

\* Whatever was under way is gone, with the sessions and the prekeys; the rows
\* are there.  New prekeys do not replace those the relay hands out, so only a
\* session this phone opens is one the peer can write in.
Restart ==
  /\ starts < MaxStarts
  /\ starts' = starts + 1
  /\ out' = [m \in Text |-> IF out[m].step \in {"none", "over", "threw"} THEN out[m]
                            ELSE Ended("killed")]
  /\ inn' = [n \in Note |-> IF inn[n].step \in {"none", "queued", "over"} THEN inn[n]
                            ELSE AtStep("killed")]
  /\ receipt' = [m \in Text |-> NoReceipt]
  /\ screen' = Nothing
  /\ sweep' = {}
  /\ acks' = {} /\ readable' = {} /\ current' = FALSE
  /\ old' = {m \in Text : out[m].step # "none"}
  /\ CutOff(Note)
  /\ UNCHANGED <<clock, row, conv, queue, mail, answered, held, acked, kept, unopened, fresh,
                 asked, torn>>

-----------------------------------------------------------------------------
SendStep(m) ==
  \/ Accept(m) \/ SendReturns(m) \/ SendThrows(m)
  \/ SendReads(m) \/ SendTouches(m)

NoteStep(n) == StoreNote(n) \/ NoteReads(n) \/ NoteTouches(n) \/ NoteThrows(n)

ReceiptStep(m) == ReceiptReads(m) \/ ReceiptWrites(m)

DeleteStep == \E i \in Id : Delete(i)

Next ==
  \/ \E m \in Text : Compose(m) \/ SendStep(m) \/ PeerStores(m) \/ OpenReceipt(m) \/ ReceiptStep(m)
  \/ \E n \in Note : PeerSends(n) \/ OpenNote(n) \/ NoteStep(n)
  \/ \E i \in Id : Undecryptable(i) \/ Ack(i)
  \/ OpenChat \/ MarkReadReads \/ MarkReadWrites \/ setDisappearTimer \/ TimerWrites
  \/ purgeExpired \/ DeleteStep \/ Tick \/ Restart

\* The interval goes on firing, and the database deletes what it is asked to.
Fairness == WF_vars(purgeExpired) /\ WF_vars(DeleteStep)

Spec == Init /\ [][Next]_vars /\ Fairness

-----------------------------------------------------------------------------
RowOK(r) == r.of \in {"me", "peer", "nobody"} /\ r.expires \in Nat \cup {Never}
            /\ r.status \in {"none", "pending", "sent", "delivered", "failed"}
ConversationOK(c) == c.unread \in Nat /\ c.timer \in Timer

\* What the collections and the suspended methods hold.
TypeOK ==
  /\ \A i \in Id : RowOK(row[i])
  /\ ConversationOK(conv) /\ ConversationOK(screen.seen)
  /\ \A m \in Text : RowOK(receipt[m].seen) /\ ConversationOK(out[m].seen)
  /\ \A n \in Note : ConversationOK(inn[n].seen)
  /\ queue \subseteq Id /\ acks \subseteq Id /\ mail \subseteq Text /\ readable \subseteq queue
  /\ sweep \subseteq Id

\* The marks under a text mean what they say, whatever overwrites them: one
\* tick, that the relay confirmed it; two, that the peer has it; a cross, that
\* sendText threw.
TicksAreEarned ==
  \A m \in Text :
    /\ row[m].status = "sent" => m \in answered
    /\ row[m].status = "delivered" => m \in held
    /\ row[m].status = "failed" => out[m].step = "threw"

\* Overlapping deliveries, restarts and failing handlers notwithstanding, the
\* relay drops on this phone's word only what the phone has taken on: a note that
\* opened is stored or about to be, unless its own handler threw or was cut off
\* before that; any other was tried and did not open (messenger.ts:554-560).
AckedIsKept ==
  \A n \in Note \cap acked :
    n \in kept \cup unopened \cup broken \/ inn[n].step = "opened"

Counted == {n \in fresh \ uncounted : inn[n].step \notin Counting}

\* As long as no two methods that read and put the conversation's row have
\* overlapped, the timer is the one the user set, and the unread count is the
\* notes stored since the last markRead, less those that are still to be counted
\* and those whose handler threw or was cut off before it did (messenger.ts:580).
ConversationAgrees ==
  ~torn =>
    /\ conv.unread = Cardinality(Counted)
    /\ conv.timer = asked

\* What messenger.ts:618 says of sync: everything is processed, then acknowledged.
AckedWhenProcessed ==
  \A n \in Note \cap acked : inn[n].step \notin {"opened"} \cup Counting

\* What messenger.ts:251 and contacts.test.ts:135-139 say: the timer set for a
\* conversation is the one it has.
TimerIsKept == conv.timer = asked

\* Messages whose time has come do not stay: again and again no row is past it,
\* although a send or a receipt may put one back that a sweep has deleted.
NothingOverstays ==
  []<>(\A i \in Id : ~Overdue(row[i]))

===============================================================================
