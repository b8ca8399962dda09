-------------------------------- MODULE Calls --------------------------------
(***************************************************************************)
(* Voice calls: a CallManager on each device                               *)
(* (apps/mobile/src/core/callManager.ts) over signals that arrive late, in *)
(* any order or never, with the media engines of platform/webrtc.ts and    *)
(* the keys of packages/crypto/src/callKeys.ts.                            *)
(* A function runs undisturbed between its awaits; what waits is a task.   *)
(* Closing an engine and installing keys in it await nothing real and are  *)
(* one step with what follows.  An engine's number stands for its DTLS     *)
(* fingerprint and its session description, a call's for its media secret. *)
(* Candidates, mute and the user's confirmation of the words are left out. *)
(***************************************************************************)
EXTENDS Naturals, Sequences, FiniteSets

CONSTANTS
  Device,
  MaxCalls,     \* bound: calls placed
  MaxEngines    \* bound: media engines made

ASSUME CallBounds == MaxCalls \in Nat /\ MaxEngines \in Nat

VARIABLES
  capable,      \* devices whose platform transforms encoded frames
  manager,      \* each device's CallManager
  engines,      \* every media engine, in order of creation
  tasks,        \* handlers waiting for their engine or for sendSignal
  signals,      \* signals under way
  calls,        \* calls placed so far
  installed,    \* history: frame keys installed, in order
  tornDown      \* history: calls each device has torn down

vars == <<capable, manager, engines, tasks, signals, calls, installed, tornDown>>

Number == Nat \ {0}
State  == {"ringing-outgoing", "ringing-incoming", "connecting", "connected", "ended"}
Keys   == [secret : Number, call : Number, caller : Device, callee : Device,
           callerFingerprint : Number, calleeFingerprint : Number]
Call   == [id : Number, peer : Device, state : State, words : SUBSET Keys]

\* Fields that may be undefined are sets of at most one.
Manager == [current : SUBSET Call, engine : SUBSET Number, keys : SUBSET Keys,
            mediaSecret : SUBSET Number, localFingerprint : SUBSET Number,
            remoteFingerprint : SUBSET Number, pendingOfferSdp : SUBSET Number]
Engine  == [by : Device, call : Number, open : BOOLEAN, remote : SUBSET Number,
            connected : BOOLEAN]
Signal  == [kind : {"call-offer", "call-answer", "call-hangup"}, from : Device,
            to : Device, call : Number, sdp : SUBSET Number]
Task    == [awaits : {"createOffer", "createAnswer", "acceptAnswer",
                      "answerSent", "hangupSent", "refusalSent"},
            by : Device, peer : Device, call : Number, engine : SUBSET Number,
            sdp : SUBSET Number]

Idle == [current |-> {}, engine |-> {}, keys |-> {}, mediaSecret |-> {},
         localFingerprint |-> {}, remoteFingerprint |-> {}, pendingOfferSdp |-> {}]

Init ==
  /\ capable \in SUBSET Device
  /\ manager = [d \in Device |-> Idle]
  /\ engines = <<>>
  /\ tasks = {} /\ signals = {}
  /\ calls = 0
  /\ installed = <<>>
  /\ tornDown = {}

-----------------------------------------------------------------------------
Live(d) == \E c \in manager[d].current : c.state # "ended"

Current(d, id) == \E c \in manager[d].current : c.id = id

SetState(m, state) == [m EXCEPT !.current = {[c EXCEPT !.state = state] : c \in @}]

Open(es) == \A e \in es : engines[e].open

NewEngine(d, id) ==
  Append(engines, [by |-> d, call |-> id, open |-> TRUE, remote |-> {}, connected |-> FALSE])

SignalTo(d, peer, kind, id, sdp) ==
  [kind |-> kind, from |-> d, to |-> peer, call |-> id, sdp |-> sdp]

\* The key derivation without the certificates, and the code's.
Unbound(secret, id, caller, callee, callerFp, calleeFp) ==
  [secret |-> secret, call |-> id, caller |-> caller, callee |-> callee,
   callerFingerprint |-> 1, calleeFingerprint |-> 1]

DeriveCallKeys(secret, id, caller, callee, callerFp, calleeFp) ==
  [secret |-> secret, call |-> id, caller |-> caller, callee |-> callee,
   callerFingerprint |-> callerFp, calleeFingerprint |-> calleeFp]

\* Fingerprints in the order local, remote for both roles, and the code's.
OwnFirst(role, d, c, s, l, r) ==
  IF role = "caller" THEN DeriveCallKeys(s, c.id, d, c.peer, l, r)
                     ELSE DeriveCallKeys(s, c.id, c.peer, d, l, r)

ForRole(role, d, c, s, l, r) ==
  IF role = "caller" THEN DeriveCallKeys(s, c.id, d, c.peer, l, r)
                     ELSE DeriveCallKeys(s, c.id, c.peer, d, r, l)

\* deriveAndInstallKeys: the keys, or none when it throws.
Derived(d, m, role) ==
  {ForRole(role, d, c, s, l, r) :
     c \in m.current, s \in m.mediaSecret, l \in m.localFingerprint, r \in m.remoteFingerprint}

\* New keys next to the old ones, and the code's.
WithBothKeys(m, ks) ==
  [m EXCEPT !.keys = @ \cup ks, !.current = {[c EXCEPT !.words = ks] : c \in @}]

WithKeys(m, ks) ==
  [m EXCEPT !.keys = ks, !.current = {[c EXCEPT !.words = ks] : c \in @}]

\* installFrameKeys on the engine that is there.
Install(d, m, role, ks) ==
  installed' = IF ks = {} \/ m.engine = {} THEN installed
               ELSE Append(installed, [by |-> d, engine |-> m.engine, keys |-> ks,
                                       send |-> role])

-----------------------------------------------------------------------------
(* Placing a call.                                                         *)

\* placeCall, to createOffer; a device that cannot encrypt frames throws
\* before it changes anything.
PlaceCall(d, peer) ==
  LET id == calls + 1
      e  == Len(engines) + 1
  IN  /\ ~Live(d) /\ d \in capable
      /\ calls < MaxCalls /\ Len(engines) < MaxEngines
      /\ calls' = id
      /\ engines' = NewEngine(d, id)
      /\ manager' = [manager EXCEPT
           ![d].current = {[id |-> id, peer |-> peer, state |-> "ringing-outgoing", words |-> {}]},
           ![d].engine = {e},
           ![d].mediaSecret = {id}]
      /\ tasks' = tasks \cup {[awaits |-> "createOffer", by |-> d, peer |-> peer, call |-> id,
                              engine |-> {e}, sdp |-> {}]}
      /\ UNCHANGED <<capable, signals, installed, tornDown>>

\* The rest of it; the state no longer depends on what becomes of sendSignal.
OfferMade(t) ==
  /\ t.awaits = "createOffer" /\ Open(t.engine)
  /\ tasks' = tasks \ {t}
  /\ manager' = [manager EXCEPT ![t.by].localFingerprint = t.engine]
  /\ signals' = signals \cup {SignalTo(t.by, t.peer, "call-offer", t.call, t.engine)}
  /\ UNCHANGED <<capable, engines, calls, installed, tornDown>>

\* onAnswer, to acceptAnswer.  Where the engine has gone, so has the secret, and
\* the rest throws at once.
ReceiveAnswer(s) ==
  /\ s.kind = "call-answer"
  /\ signals' = signals \ {s}
  /\ IF \E c \in manager[s.to].current : c.id = s.call /\ c.peer = s.from
     THEN /\ manager' = [manager EXCEPT ![s.to].remoteFingerprint = s.sdp]
          /\ tasks' = tasks \cup
               {[awaits |-> "acceptAnswer", by |-> s.to, peer |-> s.from, call |-> s.call,
                 engine |-> {e}, sdp |-> s.sdp] : e \in manager[s.to].engine}
     ELSE UNCHANGED <<manager, tasks>>
  /\ UNCHANGED <<capable, engines, calls, installed, tornDown>>

\* The rest of it.  An engine takes one answer.
AnswerAccepted(t) ==
  LET m  == manager[t.by]
      ks == Derived(t.by, m, "caller")
  IN  /\ t.awaits = "acceptAnswer" /\ Open(t.engine)
      /\ \A e \in t.engine : engines[e].remote = {}
      /\ tasks' = tasks \ {t}
      /\ engines' = [e \in DOMAIN engines |->
           IF e \in t.engine THEN [engines[e] EXCEPT !.remote = t.sdp] ELSE engines[e]]
      /\ Install(t.by, m, "caller", ks)
      /\ manager' = [manager EXCEPT ![t.by] =
           IF ks = {} THEN @ ELSE SetState(WithKeys(@, ks), "connecting")]
      /\ UNCHANGED <<capable, signals, calls, tornDown>>

-----------------------------------------------------------------------------
(* Taking a call.                                                          *)

\* onOffer.
ReceiveOffer(s) ==
  /\ s.kind = "call-offer"
  /\ IF Live(s.to)
     THEN /\ signals' = (signals \ {s}) \cup
               {SignalTo(s.to, s.from, "call-hangup", s.call, {})}
          /\ UNCHANGED manager
     ELSE /\ signals' = signals \ {s}
          /\ manager' = [manager EXCEPT
               ![s.to].current = {[id |-> s.call, peer |-> s.from,
                                   state |-> "ringing-incoming", words |-> {}]},
               ![s.to].mediaSecret = {s.call},
               ![s.to].remoteFingerprint = s.sdp,
               ![s.to].pendingOfferSdp = s.sdp]
  /\ UNCHANGED <<capable, engines, tasks, calls, installed, tornDown>>

Ringing(d, c) ==
  /\ c \in manager[d].current
  /\ c.state = "ringing-incoming" /\ manager[d].pendingOfferSdp # {}

\* answerCall, to createAnswer.
AnswerCall(d) ==
  \E c \in manager[d].current :
    LET e == Len(engines) + 1 IN
    /\ Ringing(d, c)
    /\ d \in capable
    /\ Len(engines) < MaxEngines
    /\ engines' = NewEngine(d, c.id)
    /\ manager' = [manager EXCEPT ![d].engine = {e}]
    /\ tasks' = tasks \cup {[awaits |-> "createAnswer", by |-> d, peer |-> c.peer, call |-> c.id,
                            engine |-> {e}, sdp |-> manager[d].pendingOfferSdp]}
    /\ UNCHANGED <<capable, signals, calls, installed, tornDown>>

\* answerCall where frames cannot be encrypted: its engine is closed unused.
RefuseCall(d) ==
  \E c \in manager[d].current :
    /\ Ringing(d, c)
    /\ d \notin capable
    /\ signals' = signals \cup {SignalTo(d, c.peer, "call-hangup", c.id, {})}
    /\ tasks' = tasks \cup {[awaits |-> "refusalSent", by |-> d, peer |-> c.peer, call |-> c.id,
                            engine |-> {}, sdp |-> {}]}
    /\ UNCHANGED <<capable, manager, engines, calls, installed, tornDown>>

\* createAnswer has returned: keys, and the answer on its way.
AnswerMade(t) ==
  LET m  == [manager[t.by] EXCEPT !.localFingerprint = t.engine, !.pendingOfferSdp = {}]
      ks == Derived(t.by, m, "callee")
  IN  /\ t.awaits = "createAnswer" /\ Open(t.engine)
      /\ engines' = [e \in DOMAIN engines |->
           IF e \in t.engine THEN [engines[e] EXCEPT !.remote = t.sdp] ELSE engines[e]]
      /\ Install(t.by, m, "callee", ks)
      /\ IF ks = {}
         THEN /\ manager' = [manager EXCEPT ![t.by] = m]
              /\ tasks' = tasks \ {t}
              /\ UNCHANGED signals
         ELSE /\ manager' = [manager EXCEPT ![t.by] = WithKeys(m, ks)]
              /\ tasks' = (tasks \ {t}) \cup {[t EXCEPT !.awaits = "answerSent"]}
              /\ signals' = signals \cup
                   {SignalTo(t.by, t.peer, "call-answer", t.call, t.engine)}
      /\ UNCHANGED <<capable, calls, tornDown>>

\* sendSignal has returned, to the last line of answerCall or of its refusal.
SignalSent(t) ==
  /\ \/ t.awaits = "answerSent" /\ manager' = [manager EXCEPT ![t.by] = SetState(@, "connecting")]
     \/ t.awaits = "refusalSent" /\ manager' = [manager EXCEPT ![t.by] = SetState(@, "ended")]
  /\ tasks' = tasks \ {t}
  /\ UNCHANGED <<capable, engines, signals, calls, installed, tornDown>>

\* A promise is rejected, or the engine is closed and it never settles.
Fails(t) ==
  /\ t.awaits # "hangupSent"
  /\ tasks' = tasks \ {t}
  /\ UNCHANGED <<capable, manager, engines, signals, calls, installed, tornDown>>

-----------------------------------------------------------------------------
(* The media connection and the end.                                       *)

\* What endCall leaves of the manager: secrets wiped, and the engine gone too.
SecretsWiped(m) ==
  [SetState(m, "ended") EXCEPT
     !.keys = {}, !.mediaSecret = {}, !.localFingerprint = {},
     !.remoteFingerprint = {}, !.pendingOfferSdp = {}]

WithoutCall(m) == [SecretsWiped(m) EXCEPT !.engine = {}]

Teardown(d) ==
  LET m == manager[d] IN
  /\ manager' = [manager EXCEPT ![d] = WithoutCall(@)]
  /\ engines' = [e \in DOMAIN engines |->
       IF e \in m.engine THEN [engines[e] EXCEPT !.open = FALSE] ELSE engines[e]]
  /\ tornDown' = tornDown \cup {[by |-> d, call |-> c.id] : c \in m.current}
  /\ UNCHANGED <<capable, calls, installed>>

\* Both ends hold each other's description.
Linked(e) ==
  \E f \in engines[e].remote :
    engines[e].open /\ engines[f].open /\ engines[f].remote = {e}

Connects(e) ==
  LET d == engines[e].by IN
  /\ Linked(e) /\ ~engines[e].connected
  /\ engines' = [engines EXCEPT ![e].connected = TRUE]
  /\ manager' = IF Current(d, engines[e].call)
                THEN [manager EXCEPT ![d] = SetState(@, "connected")]
                ELSE manager
  /\ UNCHANGED <<capable, tasks, signals, calls, installed, tornDown>>

Disconnects(e) ==
  /\ engines[e].open /\ engines[e].remote # {}
  /\ Current(engines[e].by, engines[e].call)
  /\ Teardown(engines[e].by)
  /\ UNCHANGED <<tasks, signals>>

\* endCall by the user: a call that has ended is only torn down again.
HangUp(d) ==
  \E c \in manager[d].current :
    IF c.state = "ended"
    THEN Teardown(d) /\ UNCHANGED <<tasks, signals>>
    ELSE /\ signals' = signals \cup {SignalTo(d, c.peer, "call-hangup", c.id, {})}
         /\ tasks' = tasks \cup {[awaits |-> "hangupSent", by |-> d, peer |-> c.peer,
                                 call |-> c.id, engine |-> {}, sdp |-> {}]}
         /\ UNCHANGED <<capable, manager, engines, calls, installed, tornDown>>

\* The notification was sent, or not: whatever call is there by now ends.
HangupSent(t) ==
  /\ t.awaits = "hangupSent"
  /\ tasks' = tasks \ {t}
  /\ Teardown(t.by)
  /\ UNCHANGED signals

ReceiveHangup(s) ==
  /\ s.kind = "call-hangup"
  /\ signals' = signals \ {s}
  /\ IF Current(s.to, s.call)
     THEN Teardown(s.to)
     ELSE UNCHANGED <<capable, manager, engines, calls, installed, tornDown>>
  /\ UNCHANGED tasks

Next ==
  \/ \E d \in Device :
       \/ \E peer \in Device \ {d} : PlaceCall(d, peer)
       \/ AnswerCall(d) \/ RefuseCall(d) \/ HangUp(d)
  \/ \E t \in tasks :
       \/ OfferMade(t) \/ AnswerAccepted(t) \/ AnswerMade(t)
       \/ SignalSent(t) \/ HangupSent(t) \/ Fails(t)
  \/ \E s \in signals : ReceiveOffer(s) \/ ReceiveAnswer(s) \/ ReceiveHangup(s)
  \/ \E e \in DOMAIN engines : Connects(e) \/ Disconnects(e)

Spec == Init /\ [][Next]_vars

-----------------------------------------------------------------------------
\* The values the variables range over; an optional field holds one value.
TypeOK ==
  /\ capable \subseteq Device
  /\ manager \in [Device -> Manager]
  /\ \A d \in Device : \A f \in DOMAIN manager[d] : Cardinality(manager[d][f]) <= 1
  /\ engines \in Seq(Engine)
  /\ tasks \subseteq Task /\ signals \subseteq Signal
  /\ calls \in 0 .. MaxCalls
  /\ \A i \in DOMAIN installed : installed[i].keys \subseteq Keys
  /\ tornDown \subseteq [by : Device, call : Number]

\* Frames are numbered from zero whenever keys are installed, so no sending key
\* may be installed twice, on one engine or on two, at one end or at both
\* (deriveCallKeys; webrtc.ts:189).
FreshFrameKeys ==
  \A i, j \in DOMAIN installed :
    installed[i].keys = installed[j].keys /\ installed[i].send = installed[j].send => i = j

AnsweredTwice ==
  \E e, f \in DOMAIN engines :
    e # f /\ engines[e].by = engines[f].by /\ engines[e].call = engines[f].call

\* Two ends that both show words for a call show the same, unless somebody's
\* answer was started twice: a call hung up, refused or placed meanwhile leaves
\* no fingerprint or secret behind that gets into another's keys
\* (deriveAndInstallKeys).
SameWords ==
  AnsweredTwice \/
  \A d, e \in Device : \A c \in manager[d].current, k \in manager[e].current :
    c.id = k.id /\ c.words # {} /\ k.words # {} => c.words = k.words

\* A call that was torn down and for which nothing is pending has left nothing:
\* no key, no secret, and no engine with a running microphone
\* (endCall, callManager.ts:371-383).
EndedLeavesNothing ==
  AnsweredTwice \/
  \A d \in Device :
    /\ \A t \in tasks : t.by # d
    /\ \A c \in manager[d].current : c.state = "ended" /\ [by |-> d, call |-> c.id] \in tornDown
    => /\ manager[d].keys = {} /\ manager[d].mediaSecret = {} /\ manager[d].engine = {}
       /\ \A e \in DOMAIN engines : engines[e].by = d => ~engines[e].open

\* callManager.ts:276-277: keys are installed "before the call is reported
\* connected, so media is never carried under DTLS-SRTP alone".
ConnectedIsKeyed ==
  \A e \in DOMAIN engines :
    LET d == engines[e].by IN
    /\ engines[e].open /\ engines[e].connected
    /\ \E c \in manager[d].current : c.id = engines[e].call /\ c.state = "connected"
    => \E i \in DOMAIN installed : installed[i].engine = {e}

\* test/call.test.ts:305-306: the peer is told when we hang up, and its call "is
\* ended" from then on.
TornDownStaysEnded ==
  \A d \in Device : \A c \in manager[d].current :
    [by |-> d, call |-> c.id] \in tornDown => c.state = "ended"
=============================================================================
