---------------------------- MODULE MessagesProofs ----------------------------
(***************************************************************************)
(* For any texts, notes, timers, restarts and any number of methods under  *)
(* way: the marks under a text are earned, what the relay was told to drop *)
(* was stored, did not open or was lost with its handler, and until two    *)
(* methods overlap the conversation's row is what the others left of it.   *)
(***************************************************************************)
EXTENDS Messages, FiniteSetTheorems, TLAPS

\* What the variables hold; unlike TypeOK it says which fields a row, a
\* conversation and a suspended method have.
Rows == [of : {"me", "peer", "nobody"},
         status : {"none", "pending", "sent", "delivered", "failed"},
         expires : Nat \cup {Never}]
Conversations == [unread : Nat, timer : Timer]

OutSteps == {"none", "written", "accepted", "unheard", "sent", "touching", "over", "threw",
             "killed"}
NoteSteps == {"none", "queued", "opened", "stored", "touching", "over", "killed"}
ReceiptSteps == {"none", "opened", "read"}
ScreenSteps == {"none", "history", "marking", "timing"}

Outs     == [step : OutSteps, expires : Nat \cup {Never}, seen : Conversations]
Inns     == [step : NoteSteps, seen : Conversations]
Receipts == [step : ReceiptSteps, seen : Rows]
Screens  == [step : ScreenSteps, seen : Conversations]

PhoneShape ==
  /\ clock \in Nat
  /\ row \in [Id -> Rows]
  /\ conv \in Conversations
  /\ out \in [Text -> Outs]
  /\ inn \in [Note -> Inns]
  /\ receipt \in [Text -> Receipts]
  /\ screen \in Screens

WireShape == queue \subseteq Id /\ acks \subseteq Id /\ mail \subseteq Text /\ fresh \subseteq Note

Shape == PhoneShape /\ WireShape

\* The values that the methods write.
LEMMA Written ==
  /\ NoRow \in Rows /\ NoConversation \in Conversations
  /\ Nothing \in Inns /\ Nothing \in Screens /\ NoReceipt \in Receipts
  /\ \A step \in NoteSteps : AtStep(step) \in Inns /\ AtStep(step).step = step
  /\ \A step \in OutSteps : Ended(step) \in Outs /\ Ended(step).step = step
  /\ NoReceipt.step = "none" /\ Nothing.step = "none"
BY TimersAreTimes DEF NoRow, Rows, NoConversation, Conversations, Nothing, AtStep, Inns, Screens,
   NoReceipt, Receipts, Ended, Outs, NoteSteps, OutSteps, ReceiptSteps, ScreenSteps, Never

LEMMA RowWritten ==
  ASSUME NEW of \in {"me", "peer", "nobody"},
         NEW status \in {"none", "pending", "sent", "delivered", "failed"},
         NEW expires \in Nat \cup {Never}
  PROVE  Row(of, status, expires) \in Rows /\ Row(of, status, expires).status = status
BY DEF Row, Rows

LEMMA ExpiryWritten ==
  ASSUME clock \in Nat, NEW t \in Timer
  PROVE  Expiry(t) \in Nat \cup {Never}
BY TimersAreTimes DEF Expiry, Never

LEMMA InitShape == Init => Shape
<1> SUFFICES ASSUME Init PROVE Shape
  OBVIOUS
<1>1. clock \in Nat /\ row \in [Id -> Rows] /\ conv \in Conversations
  BY Written DEF Init
<1>2. out \in [Text -> Outs] /\ inn \in [Note -> Inns] /\ receipt \in [Text -> Receipts]
      /\ screen \in Screens
  BY Written DEF Init, OutSteps, NoteSteps, Nothing
<1>3. WireShape
  BY DEF Init, WireShape
<1>4. QED
  BY <1>1, <1>2, <1>3 DEF Shape, PhoneShape

-----------------------------------------------------------------------------
(* Putting a row, and moving a method on.                                  *)

LEMMA RowPut ==
  ASSUME Shape, NEW i \in Id, NEW r \in Rows, row' = [row EXCEPT ![i] = r]
  PROVE  row' \in [Id -> Rows] /\ row'[i] = r /\ \A j \in Id \ {i} : row'[j] = row[j]
BY DEF Shape, PhoneShape

LEMMA OutPut ==
  ASSUME Shape, NEW m \in Text, NEW o \in Outs, out' = [out EXCEPT ![m] = o]
  PROVE  out' \in [Text -> Outs] /\ out'[m] = o /\ \A k \in Text \ {m} : out'[k] = out[k]
BY DEF Shape, PhoneShape

LEMMA OutMoves ==
  ASSUME Shape, NEW m \in Text, NEW step \in OutSteps, Moves(m, step)
  PROVE  /\ out' \in [Text -> Outs] /\ out'[m].step = step
         /\ \A k \in Text \ {m} : out'[k] = out[k]
<1> DEFINE o == [out[m] EXCEPT !.step = step]
<1>1. out[m] \in Outs
  BY DEF Shape, PhoneShape
<1>2. o \in Outs /\ o.step = step
  BY <1>1 DEF Outs
<1>3. out' = [out EXCEPT ![m] = o]
  BY DEF Moves
<1>4. QED
  BY <1>2, <1>3, OutPut

LEMMA InnPut ==
  ASSUME Shape, NEW n \in Note, NEW h \in Inns, inn' = [inn EXCEPT ![n] = h]
  PROVE  inn' \in [Note -> Inns] /\ inn'[n] = h /\ \A k \in Note \ {n} : inn'[k] = inn[k]
BY DEF Shape, PhoneShape

LEMMA InnMoves ==
  ASSUME Shape, NEW n \in Note, NEW step \in NoteSteps, inn' = [inn EXCEPT ![n].step = step]
  PROVE  /\ inn' \in [Note -> Inns] /\ inn'[n].step = step
         /\ \A k \in Note \ {n} : inn'[k] = inn[k]
<1> DEFINE h == [inn[n] EXCEPT !.step = step]
<1>1. inn[n] \in Inns
  BY DEF Shape, PhoneShape
<1>2. h \in Inns /\ h.step = step
  BY <1>1 DEF Inns
<1>3. inn' = [inn EXCEPT ![n] = h]
  OBVIOUS
<1>4. QED
  BY <1>2, <1>3, InnPut

LEMMA ReceiptPut ==
  ASSUME Shape, NEW m \in Text, NEW r \in Receipts, receipt' = [receipt EXCEPT ![m] = r]
  PROVE  /\ receipt' \in [Text -> Receipts] /\ receipt'[m] = r
         /\ \A k \in Text \ {m} : receipt'[k] = receipt[k]
BY DEF Shape, PhoneShape

\* The conversation's row is put back with one field changed.
LEMMA ConversationWritten ==
  ASSUME NEW c \in Conversations, NEW u \in Nat, NEW t \in Timer
  PROVE  /\ [c EXCEPT !.unread = u] \in Conversations /\ [c EXCEPT !.timer = t] \in Conversations
         /\ [c EXCEPT !.unread = u].unread = u /\ [c EXCEPT !.unread = u].timer = c.timer
         /\ [c EXCEPT !.timer = t].timer = t /\ [c EXCEPT !.timer = t].unread = c.unread
BY DEF Conversations

LEMMA Touched ==
  ASSUME NEW c \in Conversations, NEW delta \in {0, 1}, Touch(c, delta)
  PROVE  /\ conv' \in Conversations
         /\ conv'.unread = c.unread + delta /\ conv'.timer = c.timer
         /\ torn' = (torn \/ conv # c)
<1>1. c.unread + delta \in Nat /\ c.timer \in Timer
  BY DEF Conversations
<1>2. conv' = [c EXCEPT !.unread = c.unread + delta] /\ torn' = (torn \/ conv # c)
  BY DEF Touch, PutConversation
<1>3. QED
  BY <1>1, <1>2, ConversationWritten

-----------------------------------------------------------------------------
(* The invariant.                                                          *)

\* What is known of a text: the marks under it, that a request seen answered
\* was, and that nobody but the peer, who has it, sends a receipt for it.
TextOK(m) ==
  /\ row[m].status = "sent" => m \in answered
  /\ row[m].status = "delivered" => m \in held
  /\ row[m].status = "failed" => out[m].step = "threw"
  /\ out[m].step = "accepted" => m \in answered
  /\ receipt[m].step # "none" => m \in held
  /\ m \in queue => m \in held

\* What is known of a note: what is to be acknowledged has a fate; a handler that
\* is past the opening has stored its note or lost it; a note is opened once, and
\* is fresh from its storing on, at least until it is counted.
NoteOK(n) ==
  /\ n \in acks \cup acked => n \in kept \cup unopened \cup broken \/ inn[n].step = "opened"
  /\ inn[n].step \in {"over", "killed"} => n \in kept \cup broken
  /\ inn[n].step \in Counting => n \in kept \cap fresh
  /\ n \in readable => inn[n].step = "queued"
  /\ n \in queue => inn[n].step # "none"
  /\ n \in fresh => inn[n].step \in Counting \cup {"over", "killed"}
  /\ n \in uncounted => inn[n].step \in {"over", "killed"}

\* The conversation's row, as long as no two methods overlapped.
RowAgrees == IsFiniteSet(Counted) /\ ConversationAgrees

IsCounted(n) == n \in fresh /\ n \notin uncounted /\ inn[n].step \notin Counting

Inv ==
  /\ Shape
  /\ \A m \in Text : TextOK(m)
  /\ \A n \in Note : NoteOK(n)
  /\ RowAgrees

SameText(m) ==
  /\ row'[m] = row[m] /\ out'[m] = out[m] /\ receipt'[m] = receipt[m]
  /\ m \in queue' => m \in queue

SameNote(n) ==
  /\ inn'[n] = inn[n]
  /\ n \in readable' => n \in readable
  /\ n \in queue' => n \in queue
  /\ n \in acks' \cup acked' => n \in acks \cup acked
  /\ n \in fresh' <=> n \in fresh
  /\ n \in uncounted' <=> n \in uncounted

TextHistoryGrows == answered \subseteq answered' /\ held \subseteq held'
NoteHistoryGrows == kept \subseteq kept' /\ unopened \subseteq unopened' /\ broken \subseteq broken'

LEMMA TextStays ==
  ASSUME NEW m \in Text, TextOK(m), SameText(m), TextHistoryGrows
  PROVE  TextOK(m)'
BY DEF TextOK, SameText, TextHistoryGrows

LEMMA NoteStays ==
  ASSUME NEW n \in Note, NoteOK(n), SameNote(n), NoteHistoryGrows
  PROVE  NoteOK(n)'
BY DEF NoteOK, SameNote, NoteHistoryGrows

\* A step about no text, or about one, and about no note, or about one.
LEMMA TextsStay ==
  ASSUME Inv, TextHistoryGrows, \A m \in Text : SameText(m)
  PROVE  (\A m \in Text : TextOK(m))'
BY TextStays DEF Inv

LEMMA OneText ==
  ASSUME Inv, TextHistoryGrows, NEW m \in Text, TextOK(m)',
         \A k \in Text \ {m} : SameText(k)
  PROVE  (\A k \in Text : TextOK(k))'
<1>1. \A k \in Text \ {m} : TextOK(k)'
  BY TextStays DEF Inv
<1>2. QED
  BY <1>1

LEMMA NotesStay ==
  ASSUME Inv, NoteHistoryGrows, \A n \in Note : SameNote(n)
  PROVE  (\A n \in Note : NoteOK(n))'
BY NoteStays DEF Inv

LEMMA OneNote ==
  ASSUME Inv, NoteHistoryGrows, NEW n \in Note, NoteOK(n)',
         \A k \in Note \ {n} : SameNote(k)
  PROVE  (\A k \in Note : NoteOK(k))'
<1>1. \A k \in Note \ {n} : NoteOK(k)'
  BY NoteStays DEF Inv
<1>2. QED
  BY <1>1

\* A step after which the same notes have been counted.
LEMMA RowKept ==
  ASSUME Inv, UNCHANGED <<conv, asked, torn>>, fresh' \subseteq Note,
         \A n \in Note : IsCounted(n)' <=> IsCounted(n)
  PROVE  RowAgrees'
<1>1. fresh \subseteq Note
  BY DEF Inv, Shape, WireShape
<1>2. Counted' = Counted
  BY <1>1 DEF Counted, IsCounted
<1>3. QED
  BY <1>2 DEF Inv, RowAgrees, ConversationAgrees

LEMMA RowStays ==
  ASSUME Inv, UNCHANGED <<conv, asked, torn, inn, fresh, uncounted>>
  PROVE  RowAgrees'
<1>1. fresh' \subseteq Note /\ \A n \in Note : IsCounted(n)' <=> IsCounted(n)
  BY DEF Inv, Shape, WireShape, IsCounted
<1>2. QED
  BY <1>1, RowKept

\* A step of a note that is not counted before it, nor after it.
LEMMA RowWaits ==
  ASSUME Inv, UNCHANGED <<conv, asked, torn>>, fresh' \subseteq Note,
         NEW n \in Note, ~IsCounted(n), ~IsCounted(n)',
         \A k \in Note \ {n} : SameNote(k)
  PROVE  RowAgrees'
<1>1. \A k \in Note : IsCounted(k)' <=> IsCounted(k)
  BY DEF SameNote, IsCounted
<1>2. QED
  BY <1>1, RowKept

-----------------------------------------------------------------------------
(* Sending.                                                                *)

LEMMA ComposeStep ==
  ASSUME Inv, NEW m \in Text, Compose(m)
  PROVE  Inv'
<1>1. Shape /\ clock \in Nat /\ conv \in Conversations /\ m \in Id
  BY DEF Inv, Shape, PhoneShape, Id
<1>2. PICK t \in {0, conv.timer} :
        /\ out' = [out EXCEPT ![m].step = "written", ![m].expires = Expiry(t)]
        /\ row' = [row EXCEPT ![m] = Row("me", "pending", Expiry(t))]
  BY DEF Compose
<1>3. Expiry(t) \in Nat \cup {Never}
  <2>1. t \in Timer
    BY <1>1, TimersAreTimes DEF Conversations
  <2>2. QED
    BY <1>1, <2>1, ExpiryWritten
<1> DEFINE r == Row("me", "pending", Expiry(t))
           o == [out[m] EXCEPT !.step = "written", !.expires = Expiry(t)]
<1>4. r \in Rows /\ r.status = "pending"
  BY <1>3, RowWritten
<1>5. o \in Outs /\ o.step = "written"
  <2>1. out[m] \in Outs
    BY <1>1 DEF Shape, PhoneShape
  <2>2. QED
    BY <1>3, <2>1 DEF Outs, OutSteps
<1>6. out' = [out EXCEPT ![m] = o]
  BY <1>2
<1>7. row' = [row EXCEPT ![m] = r]
  BY <1>2
<1> HIDE DEF r, o
<1>8. /\ out' \in [Text -> Outs] /\ out'[m] = o /\ \A k \in Text \ {m} : out'[k] = out[k]
      /\ row' \in [Id -> Rows] /\ row'[m] = r /\ \A k \in Id \ {m} : row'[k] = row[k]
  BY <1>1, <1>4, <1>5, <1>6, <1>7, OutPut, RowPut
<1>9. UNCHANGED <<clock, conv, inn, receipt, screen, queue, acks, mail, readable, history>>
  BY DEF Compose, wire, history, fates
<1>10. Shape'
  BY <1>1, <1>8, <1>9 DEF Shape, PhoneShape, WireShape, history, fates
<1>11. (\A k \in Text : TextOK(k))'
  <2>1. TextHistoryGrows /\ \A k \in Text \ {m} : SameText(k)
    BY <1>8, <1>9 DEF TextHistoryGrows, SameText, Id, history, fates
  <2>2. TextOK(m)'
    <3>1. TextOK(m)
      BY DEF Inv
    <3>2. QED
      BY <1>4, <1>5, <1>8, <1>9, <3>1 DEF TextOK, history, fates
  <2>3. QED
    BY <2>1, <2>2, OneText
<1>12. (\A n \in Note : NoteOK(n))'
  BY <1>9, NotesStay DEF NoteHistoryGrows, SameNote, history, fates
<1>13. RowAgrees'
  BY <1>9, RowStays DEF history, fates
<1>14. QED
  BY <1>10, <1>11, <1>12, <1>13 DEF Inv

LEMMA AcceptStep ==
  ASSUME Inv, NEW m \in Text, Accept(m)
  PROVE  Inv'
<1>1. Shape
  BY DEF Inv
<1>2. PICK heard \in BOOLEAN :
        /\ Moves(m, IF heard THEN "accepted" ELSE "unheard")
        /\ answered' = IF heard THEN answered \cup {m} ELSE answered
  BY DEF Accept
<1> DEFINE step == IF heard THEN "accepted" ELSE "unheard"
<1>3. step \in OutSteps
  BY DEF OutSteps
<1>4. Moves(m, step)
  BY <1>2
<1>5. /\ out' \in [Text -> Outs] /\ out'[m].step = step
      /\ \A k \in Text \ {m} : out'[k] = out[k]
  BY <1>1, <1>3, <1>4, OutMoves
<1>6. /\ UNCHANGED <<clock, row, conv, inn, receipt, screen, queue, acks, readable, held, acked,
                     kept, fates, asked, torn>>
      /\ mail' \in {mail, mail \cup {m}}
  BY DEF Accept
<1>7. Shape'
  BY <1>1, <1>5, <1>6 DEF Shape, PhoneShape, WireShape, fates
<1>8. (\A k \in Text : TextOK(k))'
  <2>1. TextHistoryGrows /\ \A k \in Text \ {m} : SameText(k)
    BY <1>2, <1>5, <1>6 DEF TextHistoryGrows, SameText
  <2>2. TextOK(m)'
    <3>1. TextOK(m) /\ out[m].step # "threw"
      BY DEF Inv, Accept, At
    <3>2. step = "accepted" => m \in answered'
      BY <1>2
    <3>3. answered \subseteq answered'
      BY <1>2
    <3>4. QED
      BY <1>5, <1>6, <3>1, <3>2, <3>3 DEF TextOK
  <2>3. QED
    BY <2>1, <2>2, OneText
<1>9. (\A n \in Note : NoteOK(n))'
  BY <1>6, NotesStay DEF NoteHistoryGrows, SameNote, fates
<1>10. RowAgrees'
  BY <1>6, RowStays DEF fates
<1>11. QED
  BY <1>7, <1>8, <1>9, <1>10 DEF Inv

LEMMA SendReturnsStep ==
  ASSUME Inv, NEW m \in Text, SendReturns(m)
  PROVE  Inv'
<1> DEFINE r == Row("me", "sent", out[m].expires)
<1>1. Shape /\ m \in Id
  BY DEF Inv, Id
<1>2. r \in Rows /\ r.status = "sent"
  <2>1. out[m].expires \in Nat \cup {Never}
    BY <1>1 DEF Shape, PhoneShape, Outs
  <2>2. QED
    BY <2>1, RowWritten
<1>3. Moves(m, "sent") /\ row' = [row EXCEPT ![m] = r]
  BY DEF SendReturns
<1> HIDE DEF r
<1>4. /\ out' \in [Text -> Outs] /\ out'[m].step = "sent"
      /\ \A k \in Text \ {m} : out'[k] = out[k]
      /\ row' \in [Id -> Rows] /\ row'[m] = r /\ \A k \in Id \ {m} : row'[k] = row[k]
  BY <1>1, <1>2, <1>3, OutMoves, RowPut DEF OutSteps
<1>5. UNCHANGED <<clock, conv, inn, receipt, screen, queue, acks, mail, readable, history>>
  BY DEF SendReturns, wire, history, fates
<1>6. Shape'
  BY <1>1, <1>4, <1>5 DEF Shape, PhoneShape, WireShape, history, fates
<1>7. (\A k \in Text : TextOK(k))'
  <2>1. TextHistoryGrows /\ \A k \in Text \ {m} : SameText(k)
    BY <1>4, <1>5 DEF TextHistoryGrows, SameText, Id, history, fates
  <2>2. TextOK(m)'
    <3>1. TextOK(m) /\ out[m].step = "accepted"
      BY DEF Inv, SendReturns, At
    <3>2. QED
      BY <1>2, <1>4, <1>5, <3>1 DEF TextOK, history, fates
  <2>3. QED
    BY <2>1, <2>2, OneText
<1>8. (\A n \in Note : NoteOK(n))'
  BY <1>5, NotesStay DEF NoteHistoryGrows, SameNote, history, fates
<1>9. RowAgrees'
  BY <1>5, RowStays DEF history, fates
<1>10. QED
  BY <1>6, <1>7, <1>8, <1>9 DEF Inv

LEMMA SendThrowsStep ==
  ASSUME Inv, NEW m \in Text, SendThrows(m)
  PROVE  Inv'
<1> DEFINE r == Row("me", "failed", out[m].expires)
<1>1. Shape /\ m \in Id
  BY DEF Inv, Id
<1>2. r \in Rows /\ r.status = "failed"
  <2>1. out[m].expires \in Nat \cup {Never}
    BY <1>1 DEF Shape, PhoneShape, Outs
  <2>2. QED
    BY <2>1, RowWritten
<1>3. out' = [out EXCEPT ![m] = Ended("threw")] /\ row' = [row EXCEPT ![m] = r]
  BY DEF SendThrows, Ends
<1>4. Ended("threw") \in Outs /\ Ended("threw").step = "threw"
  BY Written DEF OutSteps
<1> HIDE DEF r
<1>5. /\ out' \in [Text -> Outs] /\ out'[m] = Ended("threw")
      /\ \A k \in Text \ {m} : out'[k] = out[k]
      /\ row' \in [Id -> Rows] /\ row'[m] = r /\ \A k \in Id \ {m} : row'[k] = row[k]
  BY <1>1, <1>2, <1>3, <1>4, OutPut, RowPut
<1>6. UNCHANGED <<clock, conv, inn, receipt, screen, queue, acks, mail, readable, history>>
  BY DEF SendThrows, wire, history, fates
<1>7. Shape'
  BY <1>1, <1>5, <1>6 DEF Shape, PhoneShape, WireShape, history, fates
<1>8. (\A k \in Text : TextOK(k))'
  <2>1. TextHistoryGrows /\ \A k \in Text \ {m} : SameText(k)
    BY <1>5, <1>6 DEF TextHistoryGrows, SameText, Id, history, fates
  <2>2. TextOK(m)'
    <3>1. TextOK(m)
      BY DEF Inv
    <3>2. QED
      BY <1>2, <1>4, <1>5, <1>6, <3>1 DEF TextOK, history, fates
  <2>3. QED
    BY <2>1, <2>2, OneText
<1>9. (\A n \in Note : NoteOK(n))'
  BY <1>6, NotesStay DEF NoteHistoryGrows, SameNote, history, fates
<1>10. RowAgrees'
  BY <1>6, RowStays DEF history, fates
<1>11. QED
  BY <1>7, <1>8, <1>9, <1>10 DEF Inv

LEMMA SendReadsStep ==
  ASSUME Inv, NEW m \in Text, SendReads(m)
  PROVE  Inv'
<1> DEFINE o == [out[m] EXCEPT !.step = "touching", !.seen = conv]
<1>1. Shape
  BY DEF Inv
<1>2. o \in Outs /\ o.step = "touching"
  <2>1. out[m] \in Outs /\ conv \in Conversations
    BY <1>1 DEF Shape, PhoneShape
  <2>2. QED
    BY <2>1 DEF Outs, OutSteps
<1>3. out' = [out EXCEPT ![m] = o]
  BY DEF SendReads
<1> HIDE DEF o
<1>4. out' \in [Text -> Outs] /\ out'[m] = o /\ \A k \in Text \ {m} : out'[k] = out[k]
  BY <1>1, <1>2, <1>3, OutPut
<1>5. UNCHANGED <<clock, row, conv, inn, receipt, screen, queue, acks, mail, readable, history>>
  BY DEF SendReads, wire, history, fates
<1>6. Shape'
  BY <1>1, <1>4, <1>5 DEF Shape, PhoneShape, WireShape, history, fates
<1>7. (\A k \in Text : TextOK(k))'
  <2>1. TextHistoryGrows /\ \A k \in Text \ {m} : SameText(k)
    BY <1>4, <1>5 DEF TextHistoryGrows, SameText, history, fates
  <2>2. TextOK(m)'
    <3>1. TextOK(m) /\ out[m].step = "sent"
      BY DEF Inv, SendReads, At
    <3>2. QED
      BY <1>2, <1>4, <1>5, <3>1 DEF TextOK, history, fates
  <2>3. QED
    BY <2>1, <2>2, OneText
<1>8. (\A n \in Note : NoteOK(n))'
  BY <1>5, NotesStay DEF NoteHistoryGrows, SameNote, history, fates
<1>9. RowAgrees'
  BY <1>5, RowStays DEF history, fates
<1>10. QED
  BY <1>6, <1>7, <1>8, <1>9 DEF Inv

LEMMA SendTouchesStep ==
  ASSUME Inv, NEW m \in Text, SendTouches(m)
  PROVE  Inv'
<1>1. Shape
  BY DEF Inv
<1>2. out' = [out EXCEPT ![m] = Ended("over")] /\ Touch(out[m].seen, 0)
  BY DEF SendTouches, Ends
<1>3. Ended("over") \in Outs /\ Ended("over").step = "over"
  BY Written DEF OutSteps
<1>4. out' \in [Text -> Outs] /\ out'[m] = Ended("over") /\ \A k \in Text \ {m} : out'[k] = out[k]
  BY <1>1, <1>2, <1>3, OutPut
<1>5. out[m].seen \in Conversations
  BY <1>1 DEF Shape, PhoneShape, Outs
<1>6. /\ conv' \in Conversations
      /\ conv'.unread = out[m].seen.unread + 0 /\ conv'.timer = out[m].seen.timer
      /\ torn' = (torn \/ conv # out[m].seen)
  BY <1>2, <1>5, Touched
<1>7. UNCHANGED <<clock, row, inn, receipt, screen, queue, acks, mail, readable, answered, held,
                  acked, kept, fates, asked>>
  BY DEF SendTouches, wire
<1>8. Shape'
  BY <1>1, <1>4, <1>6, <1>7 DEF Shape, PhoneShape, WireShape, fates
<1>9. (\A k \in Text : TextOK(k))'
  <2>1. TextHistoryGrows /\ \A k \in Text \ {m} : SameText(k)
    BY <1>4, <1>7 DEF TextHistoryGrows, SameText
  <2>2. TextOK(m)'
    <3>1. TextOK(m) /\ out[m].step = "touching"
      BY DEF Inv, SendTouches, At
    <3>2. QED
      BY <1>3, <1>4, <1>7, <3>1 DEF TextOK
  <2>3. QED
    BY <2>1, <2>2, OneText
<1>10. (\A n \in Note : NoteOK(n))'
  BY <1>7, NotesStay DEF NoteHistoryGrows, SameNote, fates
<1>11. RowAgrees'
  <2>1. RowAgrees
    BY DEF Inv
  <2>2. out[m].seen.unread \in Nat
    BY <1>5 DEF Conversations
  <2>3. ~torn' => ~torn /\ conv = out[m].seen
    BY <1>6
  <2>4. ~torn' => conv'.unread = conv.unread /\ conv'.timer = conv.timer
    BY <1>6, <2>2, <2>3
  <2>5. Counted' = Counted /\ asked' = asked
    BY <1>7 DEF Counted, fates
  <2>6. QED
    BY <2>1, <2>3, <2>4, <2>5 DEF RowAgrees, ConversationAgrees
<1>12. QED
  BY <1>8, <1>9, <1>10, <1>11 DEF Inv

-----------------------------------------------------------------------------
(* The peer, and the receipts it sends.                                    *)

LEMMA PeerStoresStep ==
  ASSUME Inv, NEW m \in Text, PeerStores(m)
  PROVE  Inv'
<1>1. Shape /\ m \in Id
  BY DEF Inv, Id
<1>2. /\ UNCHANGED <<phone, acks, answered, acked, kept, fates, asked, torn>>
      /\ mail' \subseteq mail /\ held' = held \cup {m}
      /\ queue' \in {queue, queue \cup {m}}
      /\ queue' \cap Note = queue \cap Note /\ readable' \in {readable, readable \cup {m}}
  BY IdsDiffer DEF PeerStores, Enqueue
<1>3. Shape'
  BY <1>1, <1>2 DEF Shape, PhoneShape, WireShape, phone, fates
<1>4. (\A k \in Text : TextOK(k))'
  <2>1. TextHistoryGrows /\ \A k \in Text \ {m} : SameText(k)
    BY <1>2 DEF TextHistoryGrows, SameText, phone
  <2>2. TextOK(m)'
    <3>1. TextOK(m)
      BY DEF Inv
    <3>2. QED
      BY <1>2, <3>1 DEF TextOK, phone
  <2>3. QED
    BY <2>1, <2>2, OneText
<1>5. (\A n \in Note : NoteOK(n))'
  <2>1. NoteHistoryGrows /\ \A n \in Note : SameNote(n)
    BY <1>2, IdsDiffer DEF NoteHistoryGrows, SameNote, phone, fates
  <2>2. QED
    BY <2>1, NotesStay
<1>6. RowAgrees'
  BY <1>2, RowStays DEF phone, fates
<1>7. QED
  BY <1>3, <1>4, <1>5, <1>6 DEF Inv

LEMMA OpenReceiptStep ==
  ASSUME Inv, NEW m \in Text, OpenReceipt(m)
  PROVE  Inv'
<1> DEFINE r == [receipt[m] EXCEPT !.step = "opened"]
<1>1. Shape
  BY DEF Inv
<1>2. r \in Receipts /\ r.step = "opened"
  <2>1. receipt[m] \in Receipts
    BY <1>1 DEF Shape, PhoneShape
  <2>2. QED
    BY <2>1 DEF Receipts, ReceiptSteps
<1>3. receipt' = [receipt EXCEPT ![m] = r]
  BY DEF OpenReceipt
<1> HIDE DEF r
<1>4. /\ receipt' \in [Text -> Receipts] /\ receipt'[m] = r
      /\ \A k \in Text \ {m} : receipt'[k] = receipt[k]
  BY <1>1, <1>2, <1>3, ReceiptPut
<1>5. /\ m \in queue /\ readable' = readable \ {m}
      /\ UNCHANGED <<clock, row, conv, out, inn, screen, queue, acks, mail, history>>
  BY DEF OpenReceipt
<1>6. Shape'
  BY <1>1, <1>4, <1>5 DEF Shape, PhoneShape, WireShape, history, fates
<1>7. (\A k \in Text : TextOK(k))'
  <2>1. TextHistoryGrows /\ \A k \in Text \ {m} : SameText(k)
    BY <1>4, <1>5 DEF TextHistoryGrows, SameText, history, fates
  <2>2. TextOK(m)'
    <3>1. TextOK(m)
      BY DEF Inv
    <3>2. QED
      BY <1>5, <3>1 DEF TextOK, history, fates
  <2>3. QED
    BY <2>1, <2>2, OneText
<1>8. (\A n \in Note : NoteOK(n))'
  <2>1. NoteHistoryGrows /\ \A n \in Note : SameNote(n)
    BY <1>5, IdsDiffer DEF NoteHistoryGrows, SameNote, history, fates
  <2>2. QED
    BY <2>1, NotesStay
<1>9. RowAgrees'
  BY <1>5, RowStays DEF history, fates
<1>10. QED
  BY <1>6, <1>7, <1>8, <1>9 DEF Inv

LEMMA ReceiptReadsStep ==
  ASSUME Inv, NEW m \in Text, ReceiptReads(m)
  PROVE  Inv'
<1>1. Shape /\ m \in Id
  BY DEF Inv, Id
<1>2. PICK r \in Receipts : receipt' = [receipt EXCEPT ![m] = r]
  <2>1. CASE row[m].of = "me"
    <3>1. [step |-> "read", seen |-> row[m]] \in Receipts
      BY <1>1 DEF Shape, PhoneShape, Receipts, ReceiptSteps
    <3>2. QED
      BY <2>1, <3>1 DEF ReceiptReads
  <2>2. CASE row[m].of # "me"
    BY <2>2, Written DEF ReceiptReads
  <2>3. QED
    BY <2>1, <2>2
<1>3. /\ receipt' \in [Text -> Receipts] /\ receipt'[m] = r
      /\ \A k \in Text \ {m} : receipt'[k] = receipt[k]
  BY <1>1, <1>2, ReceiptPut
<1>4. /\ acks' \in {acks, acks \cup {m}}
      /\ UNCHANGED <<clock, row, conv, out, inn, screen, queue, mail, readable, history>>
  BY DEF ReceiptReads
<1>5. Shape'
  BY <1>1, <1>3, <1>4 DEF Shape, PhoneShape, WireShape, history, fates
<1>6. (\A k \in Text : TextOK(k))'
  <2>1. TextHistoryGrows /\ \A k \in Text \ {m} : SameText(k)
    BY <1>3, <1>4 DEF TextHistoryGrows, SameText, history, fates
  <2>2. TextOK(m)'
    <3>1. TextOK(m) /\ receipt[m].step = "opened"
      BY DEF Inv, ReceiptReads
    <3>2. QED
      BY <1>4, <3>1 DEF TextOK, history, fates
  <2>3. QED
    BY <2>1, <2>2, OneText
<1>7. (\A n \in Note : NoteOK(n))'
  <2>1. NoteHistoryGrows /\ \A n \in Note : SameNote(n)
    BY <1>4, IdsDiffer DEF NoteHistoryGrows, SameNote, history, fates
  <2>2. QED
    BY <2>1, NotesStay
<1>8. RowAgrees'
  BY <1>4, RowStays DEF history, fates
<1>9. QED
  BY <1>5, <1>6, <1>7, <1>8 DEF Inv

LEMMA ReceiptWritesStep ==
  ASSUME Inv, NEW m \in Text, ReceiptWrites(m)
  PROVE  Inv'
<1> DEFINE r == [receipt[m].seen EXCEPT !.status = "delivered"]
<1>1. Shape /\ m \in Id
  BY DEF Inv, Id
<1>2. r \in Rows /\ r.status = "delivered"
  <2>1. receipt[m].seen \in Rows
    BY <1>1 DEF Shape, PhoneShape, Receipts
  <2>2. QED
    BY <2>1 DEF Rows
<1>3. row' = [row EXCEPT ![m] = r] /\ receipt' = [receipt EXCEPT ![m] = NoReceipt]
  BY DEF ReceiptWrites
<1> HIDE DEF r
<1>4. /\ receipt' \in [Text -> Receipts] /\ receipt'[m] = NoReceipt
      /\ \A k \in Text \ {m} : receipt'[k] = receipt[k]
      /\ row' \in [Id -> Rows] /\ row'[m] = r /\ \A k \in Id \ {m} : row'[k] = row[k]
  BY <1>1, <1>2, <1>3, Written, ReceiptPut, RowPut
<1>5. /\ acks' = acks \cup {m}
      /\ UNCHANGED <<clock, conv, out, inn, screen, queue, mail, readable, history>>
  BY DEF ReceiptWrites
<1>6. Shape'
  BY <1>1, <1>4, <1>5 DEF Shape, PhoneShape, WireShape, history, fates
<1>7. (\A k \in Text : TextOK(k))'
  <2>1. TextHistoryGrows /\ \A k \in Text \ {m} : SameText(k)
    BY <1>4, <1>5 DEF TextHistoryGrows, SameText, Id, history, fates
  <2>2. TextOK(m)'
    <3>1. TextOK(m) /\ receipt[m].step = "read"
      BY DEF Inv, ReceiptWrites
    <3>2. QED
      BY <1>2, <1>4, <1>5, <3>1, Written DEF TextOK, history, fates
  <2>3. QED
    BY <2>1, <2>2, OneText
<1>8. (\A n \in Note : NoteOK(n))'
  <2>1. NoteHistoryGrows /\ \A n \in Note : SameNote(n)
    BY <1>5, IdsDiffer DEF NoteHistoryGrows, SameNote, history, fates
  <2>2. QED
    BY <2>1, NotesStay
<1>9. RowAgrees'
  BY <1>5, RowStays DEF history, fates
<1>10. QED
  BY <1>6, <1>7, <1>8, <1>9 DEF Inv

-----------------------------------------------------------------------------
(* Notes.                                                                  *)

LEMMA PeerSendsStep ==
  ASSUME Inv, NEW n \in Note, PeerSends(n)
  PROVE  Inv'
<1>1. Shape /\ n \in Id /\ "queued" \in NoteSteps
  BY DEF Inv, Id, NoteSteps
<1>2. /\ inn' \in [Note -> Inns] /\ inn'[n].step = "queued"
      /\ \A k \in Note \ {n} : inn'[k] = inn[k]
  BY <1>1, InnMoves DEF PeerSends
<1>3. /\ UNCHANGED <<clock, row, conv, out, receipt, screen, acks, mail, answered, held, acked,
                     kept, fates, asked, torn>>
      /\ queue' = queue \cup {n}
      /\ readable' \in {readable, readable \cup {n}}
  BY DEF PeerSends, Enqueue, history
<1>4. Shape'
  BY <1>1, <1>2, <1>3 DEF Shape, PhoneShape, WireShape, fates
<1>5. (\A m \in Text : TextOK(m))'
  <2>1. TextHistoryGrows /\ \A m \in Text : SameText(m)
    BY <1>3, IdsDiffer DEF TextHistoryGrows, SameText
  <2>2. QED
    BY <2>1, TextsStay
<1>6. NoteOK(n) /\ inn[n].step = "none" /\ \A k \in Note \ {n} : SameNote(k)
  BY <1>2, <1>3 DEF Inv, PeerSends, SameNote, fates
<1>7. (\A k \in Note : NoteOK(k))'
  <2>1. NoteHistoryGrows
    BY <1>3 DEF NoteHistoryGrows, fates
  <2>2. NoteOK(n)'
    BY <1>2, <1>3, <1>6 DEF NoteOK, Counting, fates
  <2>3. QED
    BY <1>6, <2>1, <2>2, OneNote
<1>8. RowAgrees'
  <2>1. ~IsCounted(n) /\ ~IsCounted(n)'
    BY <1>3, <1>6 DEF NoteOK, IsCounted, Counting, fates
  <2>2. fresh' \subseteq Note
    BY <1>4 DEF Shape, WireShape
  <2>3. QED
    BY <1>3, <1>6, <2>1, <2>2, RowWaits
<1>9. QED
  BY <1>4, <1>5, <1>7, <1>8 DEF Inv

LEMMA OpenNoteStep ==
  ASSUME Inv, NEW n \in Note, OpenNote(n)
  PROVE  Inv'
<1>1. Shape /\ "opened" \in NoteSteps
  BY DEF Inv, NoteSteps
<1>2. /\ inn' \in [Note -> Inns] /\ inn'[n].step = "opened"
      /\ \A k \in Note \ {n} : inn'[k] = inn[k]
  BY <1>1, InnMoves DEF OpenNote
<1>3. /\ UNCHANGED <<clock, row, conv, out, receipt, screen, queue, acks, mail, history>>
      /\ readable' = readable \ {n}
  BY DEF OpenNote
<1>4. Shape'
  BY <1>1, <1>2, <1>3 DEF Shape, PhoneShape, WireShape, history, fates
<1>5. (\A m \in Text : TextOK(m))'
  <2>1. TextHistoryGrows /\ \A m \in Text : SameText(m)
    BY <1>3 DEF TextHistoryGrows, SameText, history, fates
  <2>2. QED
    BY <2>1, TextsStay
<1>6. /\ NoteOK(n) /\ n \in readable /\ inn[n].step = "queued"
      /\ \A k \in Note \ {n} : SameNote(k)
  BY <1>2, <1>3 DEF Inv, OpenNote, NoteOK, SameNote, history, fates
<1>7. (\A k \in Note : NoteOK(k))'
  <2>1. NoteHistoryGrows
    BY <1>3 DEF NoteHistoryGrows, history, fates
  <2>2. NoteOK(n)'
    BY <1>2, <1>3, <1>6 DEF NoteOK, Counting, history, fates
  <2>3. QED
    BY <1>6, <2>1, <2>2, OneNote
<1>8. RowAgrees'
  <2>1. ~IsCounted(n) /\ ~IsCounted(n)'
    BY <1>3, <1>6 DEF NoteOK, IsCounted, Counting, history, fates
  <2>2. fresh' \subseteq Note
    BY <1>4 DEF Shape, WireShape
  <2>3. QED
    BY <1>3, <1>6, <2>1, <2>2, RowWaits DEF history
<1>9. QED
  BY <1>4, <1>5, <1>7, <1>8 DEF Inv

LEMMA StoreNoteStep ==
  ASSUME Inv, NEW n \in Note, StoreNote(n)
  PROVE  Inv'
<1>1. Shape /\ n \in Id /\ "stored" \in NoteSteps
  BY DEF Inv, Id, NoteSteps
<1>2. /\ inn' \in [Note -> Inns] /\ inn'[n].step = "stored"
      /\ \A k \in Note \ {n} : inn'[k] = inn[k]
  BY <1>1, InnMoves DEF StoreNote
<1>3. PICK t \in Timer : row' = [row EXCEPT ![n] = Row("peer", "delivered", Expiry(t))]
  BY DEF StoreNote
<1>4. row' \in [Id -> Rows] /\ \A j \in Id \ {n} : row'[j] = row[j]
  <2>1. Expiry(t) \in Nat \cup {Never}
    BY <1>1, ExpiryWritten DEF Shape, PhoneShape
  <2>2. Row("peer", "delivered", Expiry(t)) \in Rows
    BY <2>1, RowWritten
  <2>3. QED
    BY <1>1, <1>3, <2>2, RowPut
<1>5. /\ UNCHANGED <<clock, conv, out, receipt, screen, queue, acks, mail, readable, answered,
                     held, acked, unopened, broken, uncounted, asked, torn>>
      /\ kept' = kept \cup {n} /\ fresh' = fresh \cup {n}
  BY DEF StoreNote, wire
<1>6. Shape'
  BY <1>1, <1>2, <1>4, <1>5 DEF Shape, PhoneShape, WireShape
<1>7. (\A m \in Text : TextOK(m))'
  <2>1. TextHistoryGrows /\ \A m \in Text : SameText(m)
    BY <1>4, <1>5, IdsDiffer DEF TextHistoryGrows, SameText, Id
  <2>2. QED
    BY <2>1, TextsStay
<1>8. NoteOK(n) /\ inn[n].step = "opened" /\ \A k \in Note \ {n} : SameNote(k)
  BY <1>2, <1>5 DEF Inv, StoreNote, SameNote
<1>9. (\A k \in Note : NoteOK(k))'
  <2>1. NoteHistoryGrows
    BY <1>5 DEF NoteHistoryGrows
  <2>2. NoteOK(n)'
    BY <1>2, <1>5, <1>8 DEF NoteOK, Counting
  <2>3. QED
    BY <1>8, <2>1, <2>2, OneNote
<1>10. RowAgrees'
  <2>1. ~IsCounted(n) /\ ~IsCounted(n)'
    BY <1>2, <1>8 DEF NoteOK, IsCounted, Counting
  <2>2. fresh' \subseteq Note
    BY <1>6 DEF Shape, WireShape
  <2>3. QED
    BY <1>5, <1>8, <2>1, <2>2, RowWaits
<1>11. QED
  BY <1>6, <1>7, <1>9, <1>10 DEF Inv

LEMMA NoteReadsStep ==
  ASSUME Inv, NEW n \in Note, NoteReads(n)
  PROVE  Inv'
<1> DEFINE h == [step |-> "touching", seen |-> conv]
<1>1. Shape /\ conv \in Conversations
  BY DEF Inv, Shape, PhoneShape
<1>2. h \in Inns /\ h.step = "touching"
  BY <1>1 DEF Inns, NoteSteps
<1>3. inn' = [inn EXCEPT ![n] = h]
  BY DEF NoteReads
<1> HIDE DEF h
<1>4. inn' \in [Note -> Inns] /\ inn'[n] = h /\ \A k \in Note \ {n} : inn'[k] = inn[k]
  BY <1>1, <1>2, <1>3, InnPut
<1>5. UNCHANGED <<clock, row, conv, out, receipt, screen, queue, acks, mail, readable, history>>
  BY DEF NoteReads, wire
<1>6. Shape'
  BY <1>1, <1>4, <1>5 DEF Shape, PhoneShape, WireShape, history, fates
<1>7. (\A m \in Text : TextOK(m))'
  <2>1. TextHistoryGrows /\ \A m \in Text : SameText(m)
    BY <1>5 DEF TextHistoryGrows, SameText, history, fates
  <2>2. QED
    BY <2>1, TextsStay
<1>8. NoteOK(n) /\ inn[n].step = "stored" /\ \A k \in Note \ {n} : SameNote(k)
  BY <1>4, <1>5 DEF Inv, NoteReads, SameNote, history, fates
<1>9. (\A k \in Note : NoteOK(k))'
  <2>1. NoteHistoryGrows
    BY <1>5 DEF NoteHistoryGrows, history, fates
  <2>2. NoteOK(n)'
    BY <1>2, <1>4, <1>5, <1>8 DEF NoteOK, Counting, history, fates
  <2>3. QED
    BY <1>8, <2>1, <2>2, OneNote
<1>10. RowAgrees'
  <2>1. ~IsCounted(n) /\ ~IsCounted(n)'
    BY <1>2, <1>4, <1>8 DEF IsCounted, Counting
  <2>2. fresh' \subseteq Note
    BY <1>6 DEF Shape, WireShape
  <2>3. QED
    BY <1>5, <1>8, <2>1, <2>2, RowWaits DEF history
<1>11. QED
  BY <1>6, <1>7, <1>9, <1>10 DEF Inv

LEMMA NoteTouchesStep ==
  ASSUME Inv, NEW n \in Note, NoteTouches(n)
  PROVE  Inv'
<1>1. Shape /\ n \in Id
  BY DEF Inv, Id
<1>2. inn' = [inn EXCEPT ![n] = AtStep("over")] /\ Touch(inn[n].seen, 1)
  BY DEF NoteTouches
<1>3. AtStep("over") \in Inns /\ AtStep("over").step = "over"
  BY Written DEF NoteSteps
<1>4. inn' \in [Note -> Inns] /\ inn'[n].step = "over" /\ \A k \in Note \ {n} : inn'[k] = inn[k]
  BY <1>1, <1>2, <1>3, InnPut
<1>5. inn[n].seen \in Conversations
  BY <1>1 DEF Shape, PhoneShape, Inns
<1>6. /\ conv' \in Conversations
      /\ conv'.unread = inn[n].seen.unread + 1 /\ conv'.timer = inn[n].seen.timer
      /\ torn' = (torn \/ conv # inn[n].seen)
  BY <1>2, <1>5, Touched
<1>7. /\ UNCHANGED <<clock, row, out, receipt, screen, queue, mail, readable, answered, held,
                     acked, kept, fates, asked>>
      /\ acks' = acks \cup {n}
  BY DEF NoteTouches
<1>8. Shape'
  BY <1>1, <1>4, <1>6, <1>7 DEF Shape, PhoneShape, WireShape, fates
<1>9. (\A m \in Text : TextOK(m))'
  <2>1. TextHistoryGrows /\ \A m \in Text : SameText(m)
    BY <1>7 DEF TextHistoryGrows, SameText
  <2>2. QED
    BY <2>1, TextsStay
<1>10. NoteOK(n) /\ inn[n].step = "touching"
  BY DEF Inv, NoteTouches
<1>11. (\A k \in Note : NoteOK(k))'
  <2>1. NoteHistoryGrows /\ \A k \in Note \ {n} : SameNote(k)
    BY <1>4, <1>7 DEF NoteHistoryGrows, SameNote, fates
  <2>2. NoteOK(n)'
    BY <1>4, <1>7, <1>10 DEF NoteOK, Counting, fates
  <2>3. QED
    BY <2>1, <2>2, OneNote
<1>12. RowAgrees'
  <2>1. RowAgrees /\ IsFiniteSet(Counted)
    BY DEF Inv, RowAgrees
  <2>2. n \notin Counted /\ n \in fresh \ uncounted
    BY <1>10 DEF NoteOK, Counted, Counting
  <2>3. Counted' = Counted \cup {n}
    <3>1. UNCHANGED <<fresh, uncounted>> /\ fresh \subseteq Note
      BY <1>1, <1>7 DEF fates, Shape, WireShape
    <3>2. \A k \in Note : k \in Counted' <=> k \in Counted \/ k = n
      BY <1>4, <2>2, <3>1 DEF Counted, Counting
    <3>3. QED
      BY <3>1, <3>2 DEF Counted
  <2>4. IsFiniteSet(Counted') /\ Cardinality(Counted') = Cardinality(Counted) + 1
    BY <2>1, <2>2, <2>3, FS_AddElement
  <2>5. ~torn' => ~torn /\ conv = inn[n].seen
    BY <1>6
  <2>6. ~torn' => conv'.unread = conv.unread + 1 /\ conv'.timer = conv.timer
    BY <1>6, <2>5
  <2>7. QED
    BY <1>7, <2>1, <2>4, <2>5, <2>6 DEF RowAgrees, ConversationAgrees
<1>13. QED
  BY <1>8, <1>9, <1>11, <1>12 DEF Inv

LEMMA NoteThrowsStep ==
  ASSUME Inv, NEW n \in Note, NoteThrows(n)
  PROVE  Inv'
<1>1. Shape /\ n \in Id
  BY DEF Inv, Id
<1>2. AtStep("over") \in Inns /\ AtStep("over").step = "over"
  BY Written DEF NoteSteps
<1>3. inn' \in [Note -> Inns] /\ inn'[n].step = "over" /\ \A k \in Note \ {n} : inn'[k] = inn[k]
  BY <1>1, <1>2, InnPut DEF NoteThrows
<1>4. /\ UNCHANGED <<clock, row, conv, out, receipt, screen, queue, mail, readable, answered,
                     held, acked, kept, unopened, fresh, asked, torn>>
      /\ acks' = acks \cup {n} /\ CutOff({n})
  BY DEF NoteThrows
<1>5. /\ broken' = IF inn[n].step = "opened" THEN broken \cup {n} ELSE broken
      /\ uncounted' = IF inn[n].step \in Counting THEN uncounted \cup {n} ELSE uncounted
  BY <1>4 DEF CutOff
<1>6. Shape'
  BY <1>1, <1>3, <1>4 DEF Shape, PhoneShape, WireShape
<1>7. (\A m \in Text : TextOK(m))'
  <2>1. TextHistoryGrows /\ \A m \in Text : SameText(m)
    BY <1>4 DEF TextHistoryGrows, SameText
  <2>2. QED
    BY <2>1, TextsStay
<1>8. /\ NoteOK(n) /\ inn[n].step \in {"opened"} \cup Counting
      /\ \A k \in Note \ {n} : SameNote(k)
  BY <1>3, <1>4, <1>5 DEF Inv, NoteThrows, SameNote
<1>9. (\A k \in Note : NoteOK(k))'
  <2>1. NoteHistoryGrows
    BY <1>4, <1>5 DEF NoteHistoryGrows
  <2>2. NoteOK(n)'
    BY <1>3, <1>4, <1>5, <1>8 DEF NoteOK, Counting
  <2>3. QED
    BY <1>8, <2>1, <2>2, OneNote
<1>10. RowAgrees'
  <2>1. ~IsCounted(n) /\ ~IsCounted(n)'
    BY <1>3, <1>4, <1>5, <1>8 DEF NoteOK, IsCounted, Counting
  <2>2. fresh' \subseteq Note
    BY <1>6 DEF Shape, WireShape
  <2>3. QED
    BY <1>4, <1>8, <2>1, <2>2, RowWaits
<1>11. QED
  BY <1>6, <1>7, <1>9, <1>10 DEF Inv

-----------------------------------------------------------------------------
(* The relay, the chat screen and the sweep.                               *)

\* A note that does not open, and an id that is answered.
LEMMA UndecryptableStep ==
  ASSUME Inv, NEW i \in Id, Undecryptable(i)
  PROVE  Inv'
<1>1. Shape
  BY DEF Inv
<1>2. /\ UNCHANGED <<phone, queue, mail, answered, held, acked, kept, broken, fresh, uncounted,
                     asked, torn>>
      /\ i \in queue /\ acks' = acks \cup {i} /\ readable' \subseteq readable
      /\ unopened' = unopened \cup {n \in Note : n = i /\ inn[n].step = "queued"}
  BY DEF Undecryptable
<1>3. Shape'
  BY <1>1, <1>2 DEF Shape, PhoneShape, WireShape, phone
<1>4. (\A m \in Text : TextOK(m))'
  <2>1. TextHistoryGrows /\ \A m \in Text : SameText(m)
    BY <1>2 DEF TextHistoryGrows, SameText, phone
  <2>2. QED
    BY <2>1, TextsStay
<1>5. (\A n \in Note : NoteOK(n))'
  <2>1. ASSUME NEW n \in Note PROVE NoteOK(n)'
    <3>1. NoteOK(n) /\ inn[n].step \in NoteSteps
      BY <1>1 DEF Inv, Shape, PhoneShape, Inns
    <3>2. CASE n = i
      <4>1. inn[n].step = "queued" => n \in unopened'
        BY <1>2, <3>2
      <4>2. n \in queue /\ unopened \subseteq unopened'
        BY <1>2, <3>2
      <4>3. QED
        BY <1>2, <3>1, <4>1, <4>2 DEF NoteOK, NoteSteps, Counting, phone
    <3>3. CASE n # i
      <4>1. unopened \subseteq unopened' /\ (n \in acks' <=> n \in acks)
        BY <1>2, <3>3
      <4>2. QED
        BY <1>2, <3>1, <4>1 DEF NoteOK, Counting, phone
    <3>4. QED
      BY <3>2, <3>3
  <2>2. QED
    BY <2>1
<1>6. RowAgrees'
  BY <1>2, RowStays DEF phone
<1>7. QED
  BY <1>3, <1>4, <1>5, <1>6 DEF Inv

LEMMA AckStep ==
  ASSUME Inv, NEW i \in Id, Ack(i)
  PROVE  Inv'
<1>1. Shape
  BY DEF Inv
<1>2. /\ UNCHANGED <<phone, mail, readable, answered, held, kept, fates, asked, torn>>
      /\ queue' \subseteq queue /\ acks' \cup acked' \subseteq acks \cup acked
      /\ acks' \subseteq acks
  BY DEF Ack
<1>3. Shape'
  BY <1>1, <1>2 DEF Shape, PhoneShape, WireShape, phone, fates
<1>4. (\A m \in Text : TextOK(m))'
  <2>1. TextHistoryGrows /\ \A m \in Text : SameText(m)
    BY <1>2 DEF TextHistoryGrows, SameText, phone
  <2>2. QED
    BY <2>1, TextsStay
<1>5. (\A n \in Note : NoteOK(n))'
  <2>1. NoteHistoryGrows /\ \A n \in Note : SameNote(n)
    BY <1>2 DEF NoteHistoryGrows, SameNote, phone, fates
  <2>2. QED
    BY <2>1, NotesStay
<1>6. RowAgrees'
  BY <1>2, RowStays DEF phone, fates
<1>7. QED
  BY <1>3, <1>4, <1>5, <1>6 DEF Inv

\* A screen that only reads, a sweep that only looks, and the clock.
LEMMA LookingStep ==
  ASSUME Inv, OpenChat \/ MarkReadReads \/ setDisappearTimer \/ purgeExpired \/ Tick
  PROVE  Inv'
<1>1. Shape
  BY DEF Inv
<1>2. UNCHANGED <<row, conv, out, inn, receipt, wire, history>>
  BY DEF OpenChat, MarkReadReads, setDisappearTimer, purgeExpired, Tick
<1>3. screen' \in Screens /\ clock' \in Nat
  BY <1>1, TimersAreTimes DEF OpenChat, MarkReadReads, setDisappearTimer, purgeExpired, Tick, AtStep,
     NoConversation, Screens, ScreenSteps, Conversations, Shape, PhoneShape
<1>4. Shape'
  BY <1>1, <1>2, <1>3 DEF Shape, PhoneShape, WireShape, wire, history, fates
<1>5. (\A m \in Text : TextOK(m))'
  <2>1. TextHistoryGrows /\ \A m \in Text : SameText(m)
    BY <1>2 DEF TextHistoryGrows, SameText, wire, history, fates
  <2>2. QED
    BY <2>1, TextsStay
<1>6. (\A n \in Note : NoteOK(n))'
  <2>1. NoteHistoryGrows /\ \A n \in Note : SameNote(n)
    BY <1>2 DEF NoteHistoryGrows, SameNote, wire, history, fates
  <2>2. QED
    BY <2>1, NotesStay
<1>7. RowAgrees'
  BY <1>2, RowStays DEF history, fates
<1>8. QED
  BY <1>4, <1>5, <1>6, <1>7 DEF Inv

\* markRead puts the conversation it read back without its count: what is still to
\* be counted stays fresh.
LEMMA MarkReadStep ==
  ASSUME Inv, MarkReadWrites
  PROVE  Inv'
<1>1. Shape /\ conv \in Conversations /\ screen.seen \in Conversations
  BY DEF Inv, Shape, PhoneShape, Screens
<1>2. /\ UNCHANGED <<clock, row, out, inn, receipt, wire, answered, held, acked, kept, unopened,
                     broken, uncounted, asked>>
      /\ screen' \in Screens /\ fresh' = {n \in fresh : inn[n].step \in Counting}
  BY Written DEF MarkReadWrites
<1>3. conv' = [screen.seen EXCEPT !.unread = 0] /\ torn' = (torn \/ conv # screen.seen)
  BY DEF MarkReadWrites, PutConversation
<1>4. conv' \in Conversations /\ conv'.unread = 0 /\ conv'.timer = screen.seen.timer
  <2>1. screen.seen.timer \in Timer /\ 0 \in Nat
    BY <1>1 DEF Conversations
  <2>2. QED
    BY <1>1, <1>3, <2>1, ConversationWritten
<1>5. Shape'
  BY <1>1, <1>2, <1>4 DEF Shape, PhoneShape, WireShape, wire
<1>6. (\A m \in Text : TextOK(m))'
  <2>1. TextHistoryGrows /\ \A m \in Text : SameText(m)
    BY <1>2 DEF TextHistoryGrows, SameText, wire
  <2>2. QED
    BY <2>1, TextsStay
<1>7. (\A n \in Note : NoteOK(n))'
  <2>1. ASSUME NEW n \in Note PROVE NoteOK(n)'
    <3>1. NoteOK(n)
      BY DEF Inv
    <3>2. n \in fresh' <=> n \in fresh /\ inn[n].step \in Counting
      BY <1>2
    <3>3. QED
      BY <1>2, <3>1, <3>2 DEF NoteOK, Counting, wire
  <2>2. QED
    BY <2>1
<1>8. RowAgrees'
  <2>1. RowAgrees
    BY DEF Inv
  <2>2. ~torn' => ~torn /\ conv = screen.seen
    BY <1>3
  <2>3. Counted' = {}
    BY <1>2 DEF Counted
  <2>4. QED
    BY <1>2, <1>4, <2>1, <2>2, <2>3, FS_EmptySet DEF RowAgrees, ConversationAgrees
<1>9. QED
  BY <1>5, <1>6, <1>7, <1>8 DEF Inv

\* The conversation that was read is put back with another timer.
LEMMA TimerWritesStep ==
  ASSUME Inv, TimerWrites
  PROVE  Inv'
<1>1. Shape /\ conv \in Conversations /\ screen.seen \in Conversations
  BY DEF Inv, Shape, PhoneShape, Screens
<1>2. UNCHANGED <<clock, row, out, inn, receipt, wire, answered, held, acked, kept, fates>>
  BY DEF TimerWrites
<1>3. screen' \in Screens
  BY Written DEF TimerWrites
<1>4. PICK t \in Timer \ {0} :
        /\ conv' = [screen.seen EXCEPT !.timer = t] /\ torn' = (torn \/ conv # screen.seen)
        /\ asked' = t
  BY DEF TimerWrites, PutConversation
<1>5. conv' \in Conversations /\ conv'.unread = screen.seen.unread /\ conv'.timer = asked'
  <2>1. screen.seen.unread \in Nat
    BY <1>1 DEF Conversations
  <2>2. QED
    BY <1>1, <1>4, <2>1, ConversationWritten
<1>6. Shape'
  BY <1>1, <1>2, <1>3, <1>5 DEF Shape, PhoneShape, WireShape, wire, fates
<1>7. (\A m \in Text : TextOK(m))'
  <2>1. TextHistoryGrows /\ \A m \in Text : SameText(m)
    BY <1>2 DEF TextHistoryGrows, SameText, wire
  <2>2. QED
    BY <2>1, TextsStay
<1>8. (\A n \in Note : NoteOK(n))'
  <2>1. NoteHistoryGrows /\ \A n \in Note : SameNote(n)
    BY <1>2 DEF NoteHistoryGrows, SameNote, wire, fates
  <2>2. QED
    BY <2>1, NotesStay
<1>9. RowAgrees'
  <2>1. RowAgrees
    BY DEF Inv
  <2>2. ~torn' => ~torn /\ conv = screen.seen
    BY <1>4
  <2>3. Counted' = Counted
    BY <1>2 DEF Counted, fates
  <2>4. QED
    BY <1>5, <2>1, <2>2, <2>3 DEF RowAgrees, ConversationAgrees
<1>10. QED
  BY <1>6, <1>7, <1>8, <1>9 DEF Inv

LEMMA DeleteRowStep ==
  ASSUME Inv, NEW i \in Id, Delete(i)
  PROVE  Inv'
<1>1. Shape
  BY DEF Inv
<1>2. NoRow \in Rows /\ NoRow.status = "none"
  BY Written DEF NoRow
<1>3. row' \in [Id -> Rows] /\ row'[i] = NoRow /\ \A j \in Id \ {i} : row'[j] = row[j]
  BY <1>1, <1>2, RowPut DEF Delete
<1>4. UNCHANGED <<clock, conv, out, inn, receipt, screen, wire, history>>
  BY DEF Delete
<1>5. Shape'
  BY <1>1, <1>3, <1>4 DEF Shape, PhoneShape, WireShape, wire, history, fates
<1>6. (\A m \in Text : TextOK(m))'
  <2>1. ASSUME NEW m \in Text PROVE TextOK(m)'
    <3>1. TextOK(m)
      BY DEF Inv
    <3>2. row'[m] = row[m] \/ row'[m].status = "none"
      BY <1>2, <1>3 DEF Id
    <3>3. QED
      BY <1>4, <3>1, <3>2 DEF TextOK, wire, history, fates
  <2>2. QED
    BY <2>1
<1>7. (\A n \in Note : NoteOK(n))'
  <2>1. NoteHistoryGrows /\ \A n \in Note : SameNote(n)
    BY <1>4 DEF NoteHistoryGrows, SameNote, wire, history, fates
  <2>2. QED
    BY <2>1, NotesStay
<1>8. RowAgrees'
  BY <1>4, RowStays DEF history, fates
<1>9. QED
  BY <1>5, <1>6, <1>7, <1>8 DEF Inv

\* The app is started anew: what was under way is gone, broken if it was not stored
\* yet and uncounted if it was, and what was over stays so.
LEMMA RestartStep ==
  ASSUME Inv, Restart
  PROVE  Inv'
<1>1. Shape
  BY DEF Inv
<1>2. /\ UNCHANGED <<clock, row, conv, queue, mail, answered, held, acked, kept, unopened,
                     fresh, asked, torn>>
      /\ acks' = {} /\ readable' = {} /\ screen' = Nothing
      /\ receipt' = [m \in Text |-> NoReceipt]
      /\ broken' = broken \cup {n \in Note : inn[n].step = "opened"}
      /\ uncounted' = uncounted \cup {n \in Note : inn[n].step \in Counting}
  BY DEF Restart, CutOff
<1>3. out' \in [Text -> Outs]
  <2>1. \A m \in Text : out[m] \in Outs /\ Ended("killed") \in Outs
    BY <1>1, Written DEF Shape, PhoneShape, OutSteps
  <2>2. QED
    BY <2>1 DEF Restart
<1>4. \A m \in Text : /\ out[m].step = "threw" => out'[m].step = "threw"
                      /\ out'[m].step # "accepted"
  <2>1. Ended("killed").step = "killed"
    BY Written DEF OutSteps
  <2>2. QED
    BY <2>1 DEF Restart
<1>5. /\ inn' \in [Note -> Inns]
      /\ \A n \in Note : \/ inn[n].step \in {"none", "queued", "over"} /\ inn'[n] = inn[n]
                         \/ inn[n].step \notin {"none", "queued", "over"} /\ inn'[n].step = "killed"
  <2>1. AtStep("killed") \in Inns /\ AtStep("killed").step = "killed"
    BY Written DEF NoteSteps
  <2>2. \A n \in Note : inn[n] \in Inns
    BY <1>1 DEF Shape, PhoneShape
  <2>3. QED
    BY <2>1, <2>2 DEF Restart
<1>6. Shape'
  BY <1>1, <1>2, <1>3, <1>5, Written DEF Shape, PhoneShape, WireShape
<1>7. (\A m \in Text : TextOK(m))'
  <2>1. ASSUME NEW m \in Text PROVE TextOK(m)'
    <3>1. TextOK(m) /\ receipt'[m].step = "none"
      BY <1>2, Written DEF Inv
    <3>2. QED
      BY <1>2, <1>4, <3>1 DEF TextOK
  <2>2. QED
    BY <2>1
<1>8. (\A n \in Note : NoteOK(n))'
  <2>1. ASSUME NEW n \in Note PROVE NoteOK(n)'
    <3>1. NoteOK(n) /\ inn[n].step \in NoteSteps
      BY <1>1 DEF Inv, Shape, PhoneShape, Inns
    <3>2. CASE inn[n].step \in {"none", "queued", "over"}
      <4>1. inn'[n] = inn[n] /\ (n \in broken' <=> n \in broken)
            /\ (n \in uncounted' <=> n \in uncounted)
        BY <1>2, <1>5, <3>2 DEF Counting
      <4>2. QED
        BY <1>2, <3>1, <3>2, <4>1 DEF NoteOK, Counting
    <3>3. CASE inn[n].step \notin {"none", "queued", "over"}
      <4>1. inn'[n].step = "killed"
        BY <1>5, <3>3
      <4>2. n \in kept \cup broken'
        BY <1>2, <3>1, <3>3 DEF NoteOK, NoteSteps, Counting
      <4>3. QED
        BY <1>2, <4>1, <4>2 DEF NoteOK, Counting
    <3>4. QED
      BY <3>2, <3>3
  <2>2. QED
    BY <2>1
<1>9. RowAgrees'
  <2>1. ASSUME NEW n \in Note PROVE IsCounted(n)' <=> IsCounted(n)
    <3>1. NoteOK(n) /\ inn[n].step \in NoteSteps
      BY <1>1 DEF Inv, Shape, PhoneShape, Inns
    <3>2. CASE inn[n].step \in {"none", "queued", "over"}
      BY <1>2, <1>5, <3>2 DEF IsCounted, Counting
    <3>3. CASE inn[n].step \in Counting
      <4>1. n \in uncounted'
        BY <1>2, <3>3
      <4>2. QED
        BY <3>3, <4>1 DEF IsCounted
    <3>4. CASE inn[n].step = "opened"
      BY <1>2, <3>1, <3>4 DEF NoteOK, IsCounted, Counting
    <3>5. CASE inn[n].step = "killed"
      BY <1>2, <1>5, <3>5 DEF IsCounted, Counting
    <3>6. QED
      BY <3>1, <3>2, <3>3, <3>4, <3>5 DEF NoteSteps, Counting
  <2>2. fresh' \subseteq Note
    BY <1>6 DEF Shape, WireShape
  <2>3. QED
    BY <1>2, <2>1, <2>2, RowKept
<1>10. QED
  BY <1>6, <1>7, <1>8, <1>9 DEF Inv

-----------------------------------------------------------------------------
(* The theorems.                                                           *)

LEMMA InvStarts == Init => Inv
<1> SUFFICES ASSUME Init PROVE Inv
  OBVIOUS
<1>1. Shape
  BY InitShape
<1>2. ASSUME NEW m \in Text PROVE TextOK(m)
  <2>1. row[m].status = "none" /\ out[m].step = "none" /\ receipt[m].step = "none" /\ queue = {}
    BY Written DEF Init, Id, NoRow, OutSteps
  <2>2. QED
    BY <2>1 DEF TextOK
<1>3. ASSUME NEW n \in Note PROVE NoteOK(n)
  <2>1. inn[n].step = "none"
    BY Written DEF Init
  <2>2. QED
    BY <2>1 DEF NoteOK, Init, Counting
<1>4. RowAgrees
  <2>1. Counted = {}
    BY DEF Init, Counted
  <2>2. QED
    BY <2>1, FS_EmptySet DEF Init, RowAgrees, ConversationAgrees, NoConversation
<1>5. QED
  BY <1>1, <1>2, <1>3, <1>4 DEF Inv

LEMMA InvStep == Inv /\ [Next]_vars => Inv'
<1> SUFFICES ASSUME Inv, [Next]_vars PROVE Inv'
  OBVIOUS
<1>1. ASSUME NEW m \in Text,
             Compose(m) \/ SendStep(m) \/ PeerStores(m) \/ OpenReceipt(m) \/ ReceiptStep(m)
      PROVE  Inv'
  BY <1>1, ComposeStep, AcceptStep, SendReturnsStep, SendThrowsStep, SendReadsStep,
     SendTouchesStep, PeerStoresStep, OpenReceiptStep, ReceiptReadsStep, ReceiptWritesStep
     DEF SendStep, ReceiptStep
<1>2. ASSUME NEW n \in Note, PeerSends(n) \/ OpenNote(n) \/ NoteStep(n) PROVE Inv'
  BY <1>2, PeerSendsStep, OpenNoteStep, StoreNoteStep, NoteReadsStep, NoteTouchesStep,
     NoteThrowsStep DEF NoteStep
<1>3. ASSUME NEW i \in Id, Undecryptable(i) \/ Ack(i) PROVE Inv'
  BY <1>3, UndecryptableStep, AckStep
<1>4. CASE OpenChat \/ MarkReadReads \/ MarkReadWrites \/ setDisappearTimer \/ TimerWrites
  BY <1>4, LookingStep, MarkReadStep, TimerWritesStep
<1>5. CASE purgeExpired \/ DeleteStep \/ Tick \/ Restart
  BY <1>5, LookingStep, DeleteRowStep, RestartStep DEF DeleteStep
<1>6. CASE UNCHANGED vars
  <2>1. Shape' /\ RowAgrees'
    BY <1>6 DEF Inv, vars, phone, wire, history, fates, Shape, PhoneShape, WireShape, RowAgrees,
       ConversationAgrees, Counted, IsCounted
  <2>2. (\A m \in Text : TextOK(m))' /\ (\A n \in Note : NoteOK(n))'
    BY <1>6 DEF Inv, vars, phone, wire, history, fates, TextOK, NoteOK
  <2>3. QED
    BY <2>1, <2>2 DEF Inv
<1>7. QED
  BY <1>1, <1>2, <1>3, <1>4, <1>5, <1>6 DEF Next

LEMMA MessagesInv == Spec => []Inv
<1>1. QED
  BY InvStarts, InvStep, PTL DEF Spec

\* One tick only for a text whose request the relay answered, two only for one
\* the peer has stored, a cross only where sendText threw, whatever puts back a
\* row it has held for long (sendText, onPayload).
THEOREM TicksAreAlwaysEarned == Spec => []TicksAreEarned
<1>1. Inv => TicksAreEarned
  BY DEF Inv, TextOK, TicksAreEarned
<1>2. QED
  BY <1>1, MessagesInv, PTL

\* A note the relay has dropped because the phone acknowledged it is stored, or
\* opened and about to be, unless it did not open when it was handed over or its
\* handler threw or was cut off before it stored it (handleDelivered).
THEOREM AckedIsAlwaysKept == Spec => []AckedIsKept
<1>1. Inv => AckedIsKept
  BY DEF Inv, NoteOK, AckedIsKept
<1>2. QED
  BY <1>1, MessagesInv, PTL

\* Until two methods that read and put it overlap, the conversation's row has the
\* timer asked for and counts each note stored since the last markRead once, except
\* those whose handler is not that far, or threw or was cut off before it was
\* (touchConversation, markRead, setDisappearTimer).
THEOREM ConversationAlwaysAgrees == Spec => []ConversationAgrees
<1>1. Inv => ConversationAgrees
  BY DEF Inv, RowAgrees
<1>2. QED
  BY <1>1, MessagesInv, PTL
=============================================================================
