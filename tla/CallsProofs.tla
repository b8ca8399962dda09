----------------------------- MODULE CallsProofs -----------------------------
(***************************************************************************)
(* For any devices, calls and engines.  Of the call managers: no sending   *)
(* key is installed twice, both ends of a call show the same words, and a  *)
(* call torn down leaves nothing, the last two unless an answer was started*)
(* twice.  Of the media, for every counter width and replay window: no     *)
(* nonce is reused, no frame is accepted twice, no frame within the window *)
(* is locked out, and the replay memory is bounded.                        *)
(*                                                                         *)
(* The argument for the calls: the first engine made for a call is its     *)
(* caller's and every other its callee's, whatever is late or lost; every  *)
(* signal, task and manager names engines of its own call (CallsInv), and  *)
(* a call is offered to one device (OneGuest).  For the keys: a caller's   *)
(* engine takes one answer, and a callee's engine is in one createAnswer   *)
(* (FreshInv).  For the words: an open engine is the one its manager holds,*)
(* and the manager's fingerprints are of the two engines of its call       *)
(* (WordsInv).  For the end: a call is offered once and to a device that   *)
(* has not heard of it, so what was torn down is not taken up (EndInv).    *)
(* For the media: a frame the receiver accepted is still in seen, or lies  *)
(* at or below highestCounter - ReplayWindow, which is exactly what the    *)
(* window check refuses.                                                   *)
(***************************************************************************)
EXTENDS Calls, SFrame, FiniteSetTheorems, TLAPS

AtMostOne(S) == \A x, y \in S : x = y

Single(m) ==
  /\ AtMostOne(m.current) /\ AtMostOne(m.engine) /\ AtMostOne(m.keys)
  /\ AtMostOne(m.mediaSecret) /\ AtMostOne(m.localFingerprint)
  /\ AtMostOne(m.remoteFingerprint) /\ AtMostOne(m.pendingOfferSdp)

Installation == [by : Device, engine : SUBSET Number, keys : SUBSET Keys,
                 send : {"caller", "callee"}]

TypeInv ==
  /\ capable \subseteq Device
  /\ manager \in [Device -> Manager]
  /\ \A d \in Device : Single(manager[d])
  /\ engines \in Seq(Engine)
  /\ tasks \subseteq Task /\ \A t \in tasks : AtMostOne(t.engine) /\ AtMostOne(t.sdp)
  /\ signals \subseteq Signal /\ \A s \in signals : AtMostOne(s.sdp)
  /\ calls \in 0 .. MaxCalls
  /\ installed \in Seq(Installation)
  /\ tornDown \subseteq [by : Device, call : Number]

-----------------------------------------------------------------------------
(* What the actions do, field by field.                                    *)

ManagerOf(cur, eng, ks, ms, lf, rf, po) ==
  [current |-> cur, engine |-> eng, keys |-> ks, mediaSecret |-> ms,
   localFingerprint |-> lf, remoteFingerprint |-> rf, pendingOfferSdp |-> po]

\* Only d's manager changes, to n.
Puts(d, n) ==
  /\ n \in Manager /\ Single(n) /\ manager'[d] = n
  /\ manager' \in [Device -> Manager]
  /\ \A x \in Device \ {d} : manager'[x] = manager[x]

LEMMA PutManager ==
  ASSUME TypeInv, NEW d \in Device, NEW n, n \in Manager, Single(n),
         manager' = [x \in Device |-> manager'[x]], manager'[d] = n,
         \A x \in Device \ {d} : manager'[x] = manager[x]
  PROVE  Puts(d, n) /\ \A x \in Device : Single(manager'[x])
<1>1. manager \in [Device -> Manager] /\ \A x \in Device : Single(manager[x])
  BY DEF TypeInv
<1>2. /\ manager' \in [Device -> Manager] /\ manager'[d] = n
      /\ \A x \in Device \ {d} : manager'[x] = manager[x]
  BY <1>1
<1>3. ASSUME NEW x \in Device PROVE Single(manager'[x])
  <2>1. CASE x = d
    <3>1. manager'[x] = n
      BY <1>2, <2>1
    <3>2. QED
      BY <3>1
  <2>2. CASE x # d
    <3>1. manager'[x] = manager[x]
      BY <1>2, <2>2
    <3>2. QED
      BY <1>1, <3>1
  <2>3. QED
    BY <2>1, <2>2
<1>4. QED
  BY <1>2, <1>3 DEF Puts

LEMMA ManagerFields ==
  ASSUME NEW m \in Manager
  PROVE  /\ m = ManagerOf(m.current, m.engine, m.keys, m.mediaSecret, m.localFingerprint,
                          m.remoteFingerprint, m.pendingOfferSdp)
         /\ m.current \in SUBSET Call /\ m.engine \in SUBSET Number /\ m.keys \in SUBSET Keys
         /\ m.mediaSecret \in SUBSET Number /\ m.localFingerprint \in SUBSET Number
         /\ m.remoteFingerprint \in SUBSET Number /\ m.pendingOfferSdp \in SUBSET Number
BY DEF Manager, ManagerOf

LEMMA OfFields ==
  ASSUME NEW cur \in SUBSET Call, NEW eng \in SUBSET Number, NEW ks \in SUBSET Keys,
         NEW ms \in SUBSET Number, NEW lf \in SUBSET Number, NEW rf \in SUBSET Number,
         NEW po \in SUBSET Number, NEW n, n = ManagerOf(cur, eng, ks, ms, lf, rf, po)
  PROVE  /\ n \in Manager
         /\ n.current = cur /\ n.engine = eng /\ n.keys = ks /\ n.mediaSecret = ms
         /\ n.localFingerprint = lf /\ n.remoteFingerprint = rf /\ n.pendingOfferSdp = po
BY DEF Manager, ManagerOf

\* d's manager becomes n, for a call c to peer.
CallPlaced(d, peer, n, c) ==
  /\ Puts(d, n) /\ \A x \in Device : Single(manager'[x])
  /\ c \in Call /\ n.current = {c} /\ n.engine = {Len(engines) + 1}
  /\ c.id = calls + 1 /\ c.peer = peer /\ c.state = "ringing-outgoing" /\ c.words = {}
  /\ n.mediaSecret = {calls + 1} /\ n.keys = manager[d].keys
  /\ n.localFingerprint = manager[d].localFingerprint
  /\ n.remoteFingerprint = manager[d].remoteFingerprint
  /\ n.pendingOfferSdp = manager[d].pendingOfferSdp

LEMMA PlaceCallEffect ==
  ASSUME TypeInv, NEW d \in Device, NEW peer \in Device \ {d}, PlaceCall(d, peer)
  PROVE  \E n, c : CallPlaced(d, peer, n, c)
<1>1. PICK m : m = manager[d]
  OBVIOUS
<1>2. PICK c : c = [id |-> calls + 1, peer |-> peer, state |-> "ringing-outgoing", words |-> {}]
  OBVIOUS
<1>3. PICK e : e = Len(engines) + 1
  OBVIOUS
<1>4. PICK id : id = calls + 1
  OBVIOUS
<1>5. /\ manager' = [manager EXCEPT ![d].current = {c}, ![d].engine = {e}, ![d].mediaSecret = {id}]
      /\ manager \in [Device -> Manager] /\ m \in Manager /\ Single(m)
  BY <1>1, <1>2, <1>3, <1>4 DEF PlaceCall, TypeInv
<1>6. e \in Number /\ id \in Number
  BY <1>3, <1>4, CallBounds DEF TypeInv, Number
<1>7. /\ c \in Call /\ c.id = calls + 1 /\ c.peer = peer
      /\ c.state = "ringing-outgoing" /\ c.words = {}
  BY <1>2, <1>4, <1>6 DEF Call, State
<1>8. PICK n : n = ManagerOf({c}, {e}, m.keys, {id}, m.localFingerprint, m.remoteFingerprint,
                             m.pendingOfferSdp)
  OBVIOUS
<1>9. /\ manager' = [x \in Device |-> manager'[x]] /\ manager'[d] = n
      /\ \A x \in Device \ {d} : manager'[x] = manager[x]
  <2>1. /\ manager' = [x \in Device |-> manager'[x]]
        /\ manager'[d] = [m EXCEPT !.current = {c}, !.engine = {e}, !.mediaSecret = {id}]
        /\ \A x \in Device \ {d} : manager'[x] = manager[x]
    BY <1>1, <1>5
  <2>2. m = ManagerOf(m.current, m.engine, m.keys, m.mediaSecret, m.localFingerprint,
                      m.remoteFingerprint, m.pendingOfferSdp)
    BY <1>5, ManagerFields
  <2>3. QED
    BY <1>8, <2>1, <2>2 DEF ManagerOf
<1>10. /\ n \in Manager /\ n.current = {c} /\ n.engine = {e} /\ n.keys = m.keys
       /\ n.mediaSecret = {id} /\ n.localFingerprint = m.localFingerprint
       /\ n.remoteFingerprint = m.remoteFingerprint /\ n.pendingOfferSdp = m.pendingOfferSdp
  BY <1>5, <1>6, <1>7, <1>8, ManagerFields, OfFields
<1>11. Single(n)
  BY <1>5, <1>10 DEF Single, AtMostOne
<1>12. Puts(d, n) /\ \A x \in Device : Single(manager'[x])
  BY <1>9, <1>10, <1>11, PutManager
<1>13. CallPlaced(d, peer, n, c)
  BY <1>1, <1>3, <1>4, <1>7, <1>10, <1>12 DEF CallPlaced
<1>14. QED
  BY <1>13

-----------------------------------------------------------------------------
(* The helpers on a manager.                                               *)

\* The same call, if any; its state and words may be others.
SameCalls(m, n) ==
  /\ \A c \in n.current : \E b \in m.current : b.id = c.id /\ b.peer = c.peer
  /\ \A b \in m.current : \E c \in n.current : b.id = c.id /\ b.peer = c.peer

LEMMA CallFields ==
  ASSUME NEW c \in Call
  PROVE  /\ c = [id |-> c.id, peer |-> c.peer, state |-> c.state, words |-> c.words]
         /\ c.id \in Number /\ c.peer \in Device /\ c.state \in State /\ c.words \in SUBSET Keys
BY DEF Call

LEMMA CallInState ==
  ASSUME NEW b \in Call, NEW state \in State, NEW c, c = [b EXCEPT !.state = state]
  PROVE  c \in Call /\ c.id = b.id /\ c.peer = b.peer /\ c.words = b.words /\ c.state = state
<1>1. /\ b = [id |-> b.id, peer |-> b.peer, state |-> b.state, words |-> b.words]
      /\ b.id \in Number /\ b.peer \in Device /\ b.words \in SUBSET Keys
  BY CallFields
<1>2. c = [id |-> b.id, peer |-> b.peer, state |-> state, words |-> b.words]
  BY <1>1
<1>3. QED
  BY <1>1, <1>2 DEF Call

LEMMA CallInWords ==
  ASSUME NEW b \in Call, NEW ks \in SUBSET Keys, NEW c, c = [b EXCEPT !.words = ks]
  PROVE  c \in Call /\ c.id = b.id /\ c.peer = b.peer /\ c.words = ks /\ c.state = b.state
<1>1. /\ b = [id |-> b.id, peer |-> b.peer, state |-> b.state, words |-> b.words]
      /\ b.id \in Number /\ b.peer \in Device /\ b.state \in State
  BY CallFields
<1>2. c = [id |-> b.id, peer |-> b.peer, state |-> b.state, words |-> ks]
  BY <1>1
<1>3. QED
  BY <1>1, <1>2 DEF Call

LEMMA SetStateFields ==
  ASSUME NEW m \in Manager, Single(m), NEW state \in State, NEW n, n = SetState(m, state)
  PROVE  /\ n \in Manager /\ Single(n) /\ SameCalls(m, n)
         /\ \A c \in n.current : /\ c.state = state
                                 /\ \E b \in m.current : b.id = c.id /\ b.words = c.words
         /\ n.engine = m.engine /\ n.keys = m.keys /\ n.mediaSecret = m.mediaSecret
         /\ n.localFingerprint = m.localFingerprint
         /\ n.remoteFingerprint = m.remoteFingerprint /\ n.pendingOfferSdp = m.pendingOfferSdp
<1>1. PICK cur : cur = {[c EXCEPT !.state = state] : c \in m.current}
  OBVIOUS
<1>2. /\ m.current \in SUBSET Call
      /\ n = ManagerOf(cur, m.engine, m.keys, m.mediaSecret, m.localFingerprint,
                       m.remoteFingerprint, m.pendingOfferSdp)
  <2>1. m = ManagerOf(m.current, m.engine, m.keys, m.mediaSecret, m.localFingerprint,
                      m.remoteFingerprint, m.pendingOfferSdp)
    BY ManagerFields
  <2>2. n = [m EXCEPT !.current = cur]
    BY <1>1 DEF SetState
  <2>3. QED
    BY <2>1, <2>2, ManagerFields DEF ManagerOf
<1>3. \A c \in cur : \E b \in m.current : c = [b EXCEPT !.state = state]
  BY <1>1
<1>4. \A b \in m.current : \E c \in cur : c = [b EXCEPT !.state = state]
  BY <1>1
<1>5. ASSUME NEW c \in cur
      PROVE  /\ c \in Call /\ c.state = state
             /\ \E b \in m.current : b.id = c.id /\ b.peer = c.peer /\ b.words = c.words
  BY <1>2, <1>3, CallInState
<1>6. ASSUME NEW b \in m.current PROVE \E c \in cur : b.id = c.id /\ b.peer = c.peer
  BY <1>2, <1>4, CallInState
<1>7. AtMostOne(cur)
  BY <1>3 DEF Single, AtMostOne
<1>8. /\ n \in Manager /\ n.current = cur
      /\ n.engine = m.engine /\ n.keys = m.keys /\ n.mediaSecret = m.mediaSecret
      /\ n.localFingerprint = m.localFingerprint
      /\ n.remoteFingerprint = m.remoteFingerprint /\ n.pendingOfferSdp = m.pendingOfferSdp
  <2>1. cur \in SUBSET Call
    BY <1>5
  <2>2. QED
    BY <1>2, <2>1, ManagerFields, OfFields
<1>9. Single(n)
  BY <1>7, <1>8 DEF Single
<1>10. QED
  BY <1>5, <1>6, <1>8, <1>9 DEF SameCalls

LEMMA WithKeysFields ==
  ASSUME NEW m \in Manager, Single(m), NEW ks \in SUBSET Keys, AtMostOne(ks),
         NEW n, n = WithKeys(m, ks)
  PROVE  /\ n \in Manager /\ Single(n) /\ SameCalls(m, n)
         /\ \A c \in n.current : /\ c.words = ks
                                 /\ \E b \in m.current : b.id = c.id /\ b.state = c.state
         /\ n.engine = m.engine /\ n.keys = ks /\ n.mediaSecret = m.mediaSecret
         /\ n.localFingerprint = m.localFingerprint
         /\ n.remoteFingerprint = m.remoteFingerprint /\ n.pendingOfferSdp = m.pendingOfferSdp
<1>1. PICK cur : cur = {[c EXCEPT !.words = ks] : c \in m.current}
  OBVIOUS
<1>2. /\ m.current \in SUBSET Call
      /\ n = ManagerOf(cur, m.engine, ks, m.mediaSecret, m.localFingerprint,
                       m.remoteFingerprint, m.pendingOfferSdp)
  <2>1. m = ManagerOf(m.current, m.engine, m.keys, m.mediaSecret, m.localFingerprint,
                      m.remoteFingerprint, m.pendingOfferSdp)
    BY ManagerFields
  <2>2. n = [m EXCEPT !.keys = ks, !.current = cur]
    BY <1>1 DEF WithKeys
  <2>3. QED
    BY <2>1, <2>2, ManagerFields DEF ManagerOf
<1>3. \A c \in cur : \E b \in m.current : c = [b EXCEPT !.words = ks]
  BY <1>1
<1>4. \A b \in m.current : \E c \in cur : c = [b EXCEPT !.words = ks]
  BY <1>1
<1>5. ASSUME NEW c \in cur
      PROVE  /\ c \in Call /\ c.words = ks
             /\ \E b \in m.current : b.id = c.id /\ b.peer = c.peer /\ b.state = c.state
  <2>1. PICK b \in m.current : c = [b EXCEPT !.words = ks]
    BY <1>3
  <2>2. b \in Call
    BY <1>2
  <2>3. c \in Call /\ c.id = b.id /\ c.peer = b.peer /\ c.words = ks /\ c.state = b.state
    BY <2>1, <2>2, CallInWords
  <2>4. QED
    BY <2>3
<1>6. ASSUME NEW b \in m.current PROVE \E c \in cur : b.id = c.id /\ b.peer = c.peer
  <2>1. PICK c \in cur : c = [b EXCEPT !.words = ks]
    BY <1>4
  <2>2. b \in Call
    BY <1>2
  <2>3. c.id = b.id /\ c.peer = b.peer
    BY <2>1, <2>2, CallInWords
  <2>4. QED
    BY <2>3
<1>7. AtMostOne(cur)
  BY <1>3 DEF Single, AtMostOne
<1>8. /\ n \in Manager /\ n.current = cur
      /\ n.engine = m.engine /\ n.keys = ks /\ n.mediaSecret = m.mediaSecret
      /\ n.localFingerprint = m.localFingerprint
      /\ n.remoteFingerprint = m.remoteFingerprint /\ n.pendingOfferSdp = m.pendingOfferSdp
  <2>1. cur \in SUBSET Call
    BY <1>5
  <2>2. QED
    BY <1>2, <2>1, ManagerFields, OfFields
<1>9. Single(n)
  BY <1>7, <1>8 DEF Single
<1>10. QED
  BY <1>5, <1>6, <1>8, <1>9 DEF SameCalls

LEMMA WithoutCallFields ==
  ASSUME NEW m \in Manager, Single(m), NEW n, n = WithoutCall(m)
  PROVE  /\ n \in Manager /\ Single(n) /\ SameCalls(m, n)
         /\ \A c \in n.current : /\ c.state = "ended"
                                 /\ \E b \in m.current : b.id = c.id /\ b.words = c.words
         /\ n.engine = {} /\ n.keys = {} /\ n.mediaSecret = {} /\ n.localFingerprint = {}
         /\ n.remoteFingerprint = {} /\ n.pendingOfferSdp = {}
<1>1. PICK q : q = SetState(m, "ended")
  OBVIOUS
<1>2. "ended" \in State
  BY DEF State
<1>3. /\ q \in Manager /\ Single(q) /\ SameCalls(m, q)
      /\ \A c \in q.current : /\ c.state = "ended"
                              /\ \E b \in m.current : b.id = c.id /\ b.words = c.words
  BY <1>1, <1>2, SetStateFields
<1>4. n = ManagerOf(q.current, {}, {}, {}, {}, {}, {})
  <2>1. q = ManagerOf(q.current, q.engine, q.keys, q.mediaSecret, q.localFingerprint,
                      q.remoteFingerprint, q.pendingOfferSdp)
    BY <1>3, ManagerFields
  <2>2. PICK w : w = SecretsWiped(m)
    OBVIOUS
  <2>3. w = [q EXCEPT !.keys = {}, !.mediaSecret = {}, !.localFingerprint = {},
                      !.remoteFingerprint = {}, !.pendingOfferSdp = {}]
    BY <1>1, <2>2 DEF SecretsWiped
  <2>4. w = ManagerOf(q.current, q.engine, {}, {}, {}, {}, {})
    BY <2>1, <2>3 DEF ManagerOf
  <2>5. n = [w EXCEPT !.engine = {}]
    BY <2>2 DEF WithoutCall
  <2>6. QED
    BY <2>4, <2>5 DEF ManagerOf
<1>5. q.current \in SUBSET Call
  BY <1>3, ManagerFields
<1>6. /\ n \in Manager /\ n.current = q.current
      /\ n.engine = {} /\ n.keys = {} /\ n.mediaSecret = {} /\ n.localFingerprint = {}
      /\ n.remoteFingerprint = {} /\ n.pendingOfferSdp = {}
  BY <1>4, <1>5, OfFields
<1>7. Single(n) /\ SameCalls(m, n)
  BY <1>3, <1>6 DEF Single, AtMostOne, SameCalls
<1>8. QED
  BY <1>3, <1>6, <1>7

\* The keys of the one call, if every part is there.
LEMMA DerivedKeys ==
  ASSUME NEW d \in Device, NEW m \in Manager, Single(m), NEW role, NEW ks, ks = Derived(d, m, role)
  PROVE  /\ ks \in SUBSET Keys /\ AtMostOne(ks)
         /\ \A k \in ks : \E c \in m.current : \E l \in m.localFingerprint : \E r \in m.remoteFingerprint :
              /\ k.secret \in m.mediaSecret /\ k.call = c.id
              /\ role = "caller" => /\ k.caller = d /\ k.callee = c.peer
                                    /\ k.callerFingerprint = l /\ k.calleeFingerprint = r
              /\ role = "callee" => /\ k.caller = c.peer /\ k.callee = d
                                    /\ k.callerFingerprint = r /\ k.calleeFingerprint = l
<1>1. /\ m.current \in SUBSET Call /\ m.mediaSecret \in SUBSET Number
      /\ m.localFingerprint \in SUBSET Number /\ m.remoteFingerprint \in SUBSET Number
  BY ManagerFields
<1>2. \A k \in ks : \E c \in m.current, s \in m.mediaSecret, l \in m.localFingerprint,
                       r \in m.remoteFingerprint : k = ForRole(role, d, c, s, l, r)
  BY DEF Derived
<1>3. AtMostOne(ks)
  <2>1. SUFFICES ASSUME NEW k \in ks, NEW j \in ks PROVE k = j
    BY DEF AtMostOne
  <2>2. PICK c \in m.current, s \in m.mediaSecret, l \in m.localFingerprint,
             r \in m.remoteFingerprint : k = ForRole(role, d, c, s, l, r)
    BY <1>2
  <2>3. PICK c2 \in m.current, s2 \in m.mediaSecret, l2 \in m.localFingerprint,
             r2 \in m.remoteFingerprint : j = ForRole(role, d, c2, s2, l2, r2)
    BY <1>2
  <2>4. c = c2 /\ s = s2 /\ l = l2 /\ r = r2
    BY DEF Single, AtMostOne
  <2>5. QED
    BY <2>2, <2>3, <2>4
<1>4. ASSUME NEW k \in ks
      PROVE  /\ k \in Keys
             /\ \E c \in m.current : \E l \in m.localFingerprint : \E r \in m.remoteFingerprint :
                  /\ k.secret \in m.mediaSecret /\ k.call = c.id
                  /\ role = "caller" => /\ k.caller = d /\ k.callee = c.peer
                                        /\ k.callerFingerprint = l /\ k.calleeFingerprint = r
                  /\ role = "callee" => /\ k.caller = c.peer /\ k.callee = d
                                        /\ k.callerFingerprint = r /\ k.calleeFingerprint = l
  <2>1. PICK c \in m.current, s \in m.mediaSecret, l \in m.localFingerprint,
             r \in m.remoteFingerprint : k = ForRole(role, d, c, s, l, r)
    BY <1>2
  <2>2. /\ c.id \in Number /\ c.peer \in Device /\ s \in Number /\ l \in Number /\ r \in Number
    BY <1>1, CallFields
  <2>3. CASE role = "caller"
    <3>1. k = [secret |-> s, call |-> c.id, caller |-> d, callee |-> c.peer,
               callerFingerprint |-> l, calleeFingerprint |-> r]
      BY <2>1, <2>3 DEF ForRole, DeriveCallKeys
    <3>2. QED
      BY <2>2, <2>3, <3>1 DEF Keys
  <2>4. CASE role # "caller"
    <3>1. k = [secret |-> s, call |-> c.id, caller |-> c.peer, callee |-> d,
               callerFingerprint |-> r, calleeFingerprint |-> l]
      BY <2>1, <2>4 DEF ForRole, DeriveCallKeys
    <3>2. QED
      BY <2>2, <2>4, <3>1 DEF Keys
  <2>5. QED
    BY <2>3, <2>4
<1>5. QED
  BY <1>3, <1>4

\* m with other fingerprints, and the rest of it as it was.
SameBut(m, n, lf, rf) ==
  /\ n.current = m.current /\ n.engine = m.engine /\ n.keys = m.keys
  /\ n.mediaSecret = m.mediaSecret /\ n.localFingerprint = lf
  /\ n.remoteFingerprint = rf /\ n.pendingOfferSdp = m.pendingOfferSdp

LEMMA LocalPut ==
  ASSUME TypeInv, NEW d \in Device, NEW v \in SUBSET Number, AtMostOne(v),
         manager' = [manager EXCEPT ![d].localFingerprint = v]
  PROVE  \E n : /\ Puts(d, n) /\ \A x \in Device : Single(manager'[x])
                /\ SameBut(manager[d], n, v, manager[d].remoteFingerprint)
<1>1. PICK m : m = manager[d]
  OBVIOUS
<1>2. manager \in [Device -> Manager] /\ m \in Manager /\ Single(m)
  BY <1>1 DEF TypeInv
<1>3. PICK n : n = ManagerOf(m.current, m.engine, m.keys, m.mediaSecret, v,
                             m.remoteFingerprint, m.pendingOfferSdp)
  OBVIOUS
<1>4. /\ manager' = [x \in Device |-> manager'[x]] /\ manager'[d] = n
      /\ \A x \in Device \ {d} : manager'[x] = manager[x]
  <2>1. /\ manager' = [x \in Device |-> manager'[x]]
        /\ manager'[d] = [m EXCEPT !.localFingerprint = v]
        /\ \A x \in Device \ {d} : manager'[x] = manager[x]
    BY <1>1, <1>2
  <2>2. m = ManagerOf(m.current, m.engine, m.keys, m.mediaSecret, m.localFingerprint,
                      m.remoteFingerprint, m.pendingOfferSdp)
    BY <1>2, ManagerFields
  <2>3. QED
    BY <1>3, <2>1, <2>2 DEF ManagerOf
<1>5. n \in Manager /\ SameBut(m, n, v, m.remoteFingerprint)
  BY <1>2, <1>3, ManagerFields, OfFields DEF SameBut
<1>6. Single(n)
  BY <1>2, <1>5 DEF Single, SameBut
<1>7. QED
  BY <1>1, <1>4, <1>5, <1>6, PutManager

LEMMA RemotePut ==
  ASSUME TypeInv, NEW d \in Device, NEW v \in SUBSET Number, AtMostOne(v),
         manager' = [manager EXCEPT ![d].remoteFingerprint = v]
  PROVE  \E n : /\ Puts(d, n) /\ \A x \in Device : Single(manager'[x])
                /\ SameBut(manager[d], n, manager[d].localFingerprint, v)
<1>1. PICK m : m = manager[d]
  OBVIOUS
<1>2. manager \in [Device -> Manager] /\ m \in Manager /\ Single(m)
  BY <1>1 DEF TypeInv
<1>3. PICK n : n = ManagerOf(m.current, m.engine, m.keys, m.mediaSecret, m.localFingerprint,
                             v, m.pendingOfferSdp)
  OBVIOUS
<1>4. /\ manager' = [x \in Device |-> manager'[x]] /\ manager'[d] = n
      /\ \A x \in Device \ {d} : manager'[x] = manager[x]
  <2>1. /\ manager' = [x \in Device |-> manager'[x]]
        /\ manager'[d] = [m EXCEPT !.remoteFingerprint = v]
        /\ \A x \in Device \ {d} : manager'[x] = manager[x]
    BY <1>1, <1>2
  <2>2. m = ManagerOf(m.current, m.engine, m.keys, m.mediaSecret, m.localFingerprint,
                      m.remoteFingerprint, m.pendingOfferSdp)
    BY <1>2, ManagerFields
  <2>3. QED
    BY <1>3, <2>1, <2>2 DEF ManagerOf
<1>5. n \in Manager /\ SameBut(m, n, m.localFingerprint, v)
  BY <1>2, <1>3, ManagerFields, OfFields DEF SameBut
<1>6. Single(n)
  BY <1>2, <1>5 DEF Single, SameBut
<1>7. QED
  BY <1>1, <1>4, <1>5, <1>6, PutManager

\* answerCall's engine.
EngineTaken(d, e, n) ==
  /\ Puts(d, n) /\ \A x \in Device : Single(manager'[x])
  /\ n.current = manager[d].current /\ n.engine = {e}
  /\ n.keys = manager[d].keys /\ n.mediaSecret = manager[d].mediaSecret
  /\ n.localFingerprint = manager[d].localFingerprint
  /\ n.remoteFingerprint = manager[d].remoteFingerprint
  /\ n.pendingOfferSdp = manager[d].pendingOfferSdp

LEMMA EnginePut ==
  ASSUME TypeInv, NEW d \in Device, NEW e \in Number,
         manager' = [manager EXCEPT ![d].engine = {e}]
  PROVE  \E n : EngineTaken(d, e, n)
<1>1. PICK m : m = manager[d]
  OBVIOUS
<1>2. manager \in [Device -> Manager] /\ m \in Manager /\ Single(m)
  BY <1>1 DEF TypeInv
<1>3. PICK n : n = ManagerOf(m.current, {e}, m.keys, m.mediaSecret, m.localFingerprint,
                             m.remoteFingerprint, m.pendingOfferSdp)
  OBVIOUS
<1>4. /\ manager' = [x \in Device |-> manager'[x]] /\ manager'[d] = n
      /\ \A x \in Device \ {d} : manager'[x] = manager[x]
  <2>1. /\ manager' = [x \in Device |-> manager'[x]]
        /\ manager'[d] = [m EXCEPT !.engine = {e}]
        /\ \A x \in Device \ {d} : manager'[x] = manager[x]
    BY <1>1, <1>2
  <2>2. m = ManagerOf(m.current, m.engine, m.keys, m.mediaSecret, m.localFingerprint,
                      m.remoteFingerprint, m.pendingOfferSdp)
    BY <1>2, ManagerFields
  <2>3. QED
    BY <1>3, <2>1, <2>2 DEF ManagerOf
<1>5. /\ n \in Manager /\ n.current = m.current /\ n.engine = {e} /\ n.keys = m.keys
      /\ n.mediaSecret = m.mediaSecret /\ n.localFingerprint = m.localFingerprint
      /\ n.remoteFingerprint = m.remoteFingerprint /\ n.pendingOfferSdp = m.pendingOfferSdp
  BY <1>2, <1>3, ManagerFields, OfFields
<1>6. Single(n)
  BY <1>2, <1>5 DEF Single, AtMostOne
<1>7. Puts(d, n) /\ \A x \in Device : Single(manager'[x])
  BY <1>4, <1>5, <1>6, PutManager
<1>8. EngineTaken(d, e, n)
  BY <1>1, <1>5, <1>7 DEF EngineTaken
<1>9. QED
  BY <1>8

\* A whole manager put in place of d's.
LEMMA WholePut ==
  ASSUME TypeInv, NEW d \in Device, NEW n \in Manager, Single(n),
         manager' = [manager EXCEPT ![d] = n]
  PROVE  Puts(d, n) /\ \A x \in Device : Single(manager'[x])
<1>1. /\ manager' = [x \in Device |-> manager'[x]] /\ manager'[d] = n
      /\ \A x \in Device \ {d} : manager'[x] = manager[x]
  BY DEF TypeInv
<1>2. QED
  BY <1>1, PutManager

\* onOffer, on a device without a call.
OfferTaken(d, id, peer, v, n, c) ==
  /\ Puts(d, n) /\ \A x \in Device : Single(manager'[x])
  /\ c \in Call /\ n.current = {c} /\ c.id = id /\ c.peer = peer
  /\ c.state = "ringing-incoming" /\ c.words = {}
  /\ n.mediaSecret = {id} /\ n.remoteFingerprint = v /\ n.pendingOfferSdp = v
  /\ n.engine = manager[d].engine /\ n.keys = manager[d].keys
  /\ n.localFingerprint = manager[d].localFingerprint

LEMMA OfferPut ==
  ASSUME TypeInv, NEW d \in Device, NEW id \in Number, NEW peer \in Device,
         NEW v \in SUBSET Number, AtMostOne(v),
         manager' = [manager EXCEPT
           ![d].current = {[id |-> id, peer |-> peer, state |-> "ringing-incoming", words |-> {}]},
           ![d].mediaSecret = {id}, ![d].remoteFingerprint = v, ![d].pendingOfferSdp = v]
  PROVE  \E n, c : OfferTaken(d, id, peer, v, n, c)
<1>1. PICK m : m = manager[d]
  OBVIOUS
<1>2. PICK c : c = [id |-> id, peer |-> peer, state |-> "ringing-incoming", words |-> {}]
  OBVIOUS
<1>3. /\ manager' = [manager EXCEPT ![d].current = {c}, ![d].mediaSecret = {id},
                       ![d].remoteFingerprint = v, ![d].pendingOfferSdp = v]
      /\ manager \in [Device -> Manager] /\ m \in Manager /\ Single(m)
  BY <1>1, <1>2 DEF TypeInv
<1>4. /\ c \in Call /\ c.id = id /\ c.peer = peer
      /\ c.state = "ringing-incoming" /\ c.words = {}
  BY <1>2 DEF Call, State
<1>5. PICK n : n = ManagerOf({c}, m.engine, m.keys, {id}, m.localFingerprint, v, v)
  OBVIOUS
<1>6. /\ manager' = [x \in Device |-> manager'[x]] /\ manager'[d] = n
      /\ \A x \in Device \ {d} : manager'[x] = manager[x]
  <2>1. /\ manager' = [x \in Device |-> manager'[x]]
        /\ manager'[d] = [m EXCEPT !.current = {c}, !.mediaSecret = {id},
                            !.remoteFingerprint = v, !.pendingOfferSdp = v]
        /\ \A x \in Device \ {d} : manager'[x] = manager[x]
    BY <1>1, <1>3
  <2>2. m = ManagerOf(m.current, m.engine, m.keys, m.mediaSecret, m.localFingerprint,
                      m.remoteFingerprint, m.pendingOfferSdp)
    BY <1>3, ManagerFields
  <2>3. PICK w : w = [m EXCEPT !.current = {c}, !.mediaSecret = {id},
                        !.remoteFingerprint = v, !.pendingOfferSdp = v]
    OBVIOUS
  <2>4. w = n
    <3>1. PICK cur, ms : cur = {c} /\ ms = {id}
      OBVIOUS
    <3>2. w = [m EXCEPT !.current = cur, !.mediaSecret = ms, !.remoteFingerprint = v,
                        !.pendingOfferSdp = v]
      BY <2>3, <3>1
    <3>3. w = ManagerOf(cur, m.engine, m.keys, ms, m.localFingerprint, v, v)
      BY ONLY <2>2, <3>2 DEF ManagerOf
    <3>4. QED
      BY <1>5, <3>1, <3>3
  <2>5. QED
    BY <2>1, <2>3, <2>4
<1>7. /\ n \in Manager /\ n.current = {c} /\ n.engine = m.engine /\ n.keys = m.keys
      /\ n.mediaSecret = {id} /\ n.localFingerprint = m.localFingerprint
      /\ n.remoteFingerprint = v /\ n.pendingOfferSdp = v
  BY <1>3, <1>4, <1>5, ManagerFields, OfFields
<1>8. Single(n)
  BY <1>3, <1>7 DEF Single, AtMostOne
<1>9. Puts(d, n) /\ \A x \in Device : Single(manager'[x])
  BY <1>6, <1>7, <1>8, PutManager
<1>10. OfferTaken(d, id, peer, v, n, c)
  BY <1>1, <1>4, <1>7, <1>9 DEF OfferTaken
<1>11. QED
  BY <1>10

-----------------------------------------------------------------------------
(* What the actions do to the engines.                                     *)

LEMMA EngineFields ==
  ASSUME TypeInv, NEW e \in 1 .. Len(engines)
  PROVE  /\ engines[e] \in Engine
         /\ engines[e] = [by |-> engines[e].by, call |-> engines[e].call, open |-> engines[e].open,
                          remote |-> engines[e].remote, connected |-> engines[e].connected]
         /\ engines[e].by \in Device /\ engines[e].call \in Number
         /\ engines[e].open \in BOOLEAN /\ engines[e].remote \in SUBSET Number
         /\ engines[e].connected \in BOOLEAN
<1>1. engines[e] \in Engine
  BY DEF TypeInv
<1>2. QED
  BY <1>1 DEF Engine

LEMMA EngineShape ==
  ASSUME NEW r \in Engine
  PROVE  /\ r = [by |-> r.by, call |-> r.call, open |-> r.open, remote |-> r.remote,
                 connected |-> r.connected]
         /\ r.by \in Device /\ r.call \in Number /\ r.open \in BOOLEAN
         /\ r.remote \in SUBSET Number /\ r.connected \in BOOLEAN
BY DEF Engine

LEMMA ClosedEngine ==
  ASSUME NEW r \in Engine, NEW q, q = [r EXCEPT !.open = FALSE]
  PROVE  /\ q \in Engine /\ q.by = r.by /\ q.call = r.call /\ q.remote = r.remote
         /\ q.open = FALSE
<1>1. /\ r = [by |-> r.by, call |-> r.call, open |-> r.open, remote |-> r.remote,
              connected |-> r.connected]
      /\ r.by \in Device /\ r.call \in Number /\ r.open \in BOOLEAN
      /\ r.remote \in SUBSET Number /\ r.connected \in BOOLEAN
  BY EngineShape
<1>2. q = [by |-> r.by, call |-> r.call, open |-> FALSE, remote |-> r.remote,
           connected |-> r.connected]
  BY <1>1
<1>3. QED
  BY <1>1, <1>2 DEF Engine

LEMMA ConnectedEngine ==
  ASSUME NEW r \in Engine, NEW q, q = [r EXCEPT !.connected = TRUE]
  PROVE  /\ q \in Engine /\ q.by = r.by /\ q.call = r.call /\ q.remote = r.remote
         /\ q.open = r.open
<1>1. /\ r = [by |-> r.by, call |-> r.call, open |-> r.open, remote |-> r.remote,
              connected |-> r.connected]
      /\ r.by \in Device /\ r.call \in Number /\ r.open \in BOOLEAN
      /\ r.remote \in SUBSET Number /\ r.connected \in BOOLEAN
  BY EngineShape
<1>2. q = [by |-> r.by, call |-> r.call, open |-> r.open, remote |-> r.remote,
           connected |-> TRUE]
  BY <1>1
<1>3. QED
  BY <1>1, <1>2 DEF Engine

LEMMA EngineMade ==
  ASSUME TypeInv, NEW d \in Device, NEW id \in Number, engines' = NewEngine(d, id)
  PROVE  /\ engines' \in Seq(Engine) /\ Len(engines') = Len(engines) + 1
         /\ \A e \in 1 .. Len(engines) : engines'[e] = engines[e]
         /\ engines'[Len(engines) + 1].by = d /\ engines'[Len(engines) + 1].call = id
         /\ engines'[Len(engines) + 1].remote = {}
<1>1. PICK r : r = [by |-> d, call |-> id, open |-> TRUE, remote |-> {}, connected |-> FALSE]
  OBVIOUS
<1>2. engines' = Append(engines, r) /\ engines \in Seq(Engine)
  BY <1>1 DEF NewEngine, TypeInv
<1>3. r \in Engine /\ r.by = d /\ r.call = id /\ r.remote = {}
  BY <1>1 DEF Engine
<1>4. /\ engines' \in Seq(Engine) /\ Len(engines') = Len(engines) + 1
      /\ \A e \in 1 .. Len(engines) : engines'[e] = engines[e]
      /\ engines'[Len(engines) + 1] = r
  BY <1>2, <1>3
<1>5. QED
  BY <1>3, <1>4

\* The engines with v for the remote description of those in S.
Told(S, v) ==
  [e \in DOMAIN engines |->
     IF e \in S THEN [engines[e] EXCEPT !.remote = v] ELSE engines[e]]

LEMMA SequenceOf ==
  ASSUME NEW S, NEW N \in Nat, NEW f, f \in [1 .. N -> S]
  PROVE  f \in Seq(S) /\ Len(f) = N
<1>1. f \in Seq(S)
  OBVIOUS
<1>2. DOMAIN f = 1 .. N /\ DOMAIN f = 1 .. Len(f) /\ Len(f) \in Nat
  BY <1>1
<1>3. QED
  BY <1>1, <1>2

LEMMA EnginesTold ==
  ASSUME TypeInv, NEW S, NEW v \in SUBSET Number, engines' = Told(S, v)
  PROVE  /\ engines' \in Seq(Engine) /\ Len(engines') = Len(engines)
         /\ \A e \in 1 .. Len(engines) :
              /\ engines'[e].by = engines[e].by /\ engines'[e].call = engines[e].call
              /\ engines'[e].open = engines[e].open
              /\ engines'[e].remote = IF e \in S THEN v ELSE engines[e].remote
<1>1. engines \in Seq(Engine) /\ DOMAIN engines = 1 .. Len(engines)
  BY DEF TypeInv
<1>2. \A e \in 1 .. Len(engines) :
        engines'[e] = IF e \in S THEN [engines[e] EXCEPT !.remote = v] ELSE engines[e]
  BY <1>1 DEF Told
<1>3. ASSUME NEW e \in 1 .. Len(engines)
      PROVE  /\ engines'[e] \in Engine
             /\ engines'[e].by = engines[e].by /\ engines'[e].call = engines[e].call
             /\ engines'[e].open = engines[e].open
             /\ engines'[e].remote = IF e \in S THEN v ELSE engines[e].remote
  <2>1. PICK r : r = engines[e]
    OBVIOUS
  <2>2. /\ r = [by |-> r.by, call |-> r.call, open |-> r.open,
               remote |-> r.remote, connected |-> r.connected]
        /\ r \in Engine /\ r.by \in Device /\ r.call \in Number /\ r.open \in BOOLEAN
        /\ r.connected \in BOOLEAN
    BY <2>1, EngineFields
  <2>3. CASE e \in S
    <3>1. engines'[e] = [r EXCEPT !.remote = v]
      BY <1>2, <2>1, <2>3
    <3>2. engines'[e] = [by |-> r.by, call |-> r.call, open |-> r.open,
                         remote |-> v, connected |-> r.connected]
      BY <2>2, <3>1
    <3>3. QED
      BY <2>1, <2>2, <2>3, <3>2 DEF Engine
  <2>4. CASE e \notin S
    BY <1>2, <2>1, <2>2, <2>4
  <2>5. QED
    BY <2>3, <2>4
<1>4. engines' \in Seq(Engine) /\ Len(engines') = Len(engines)
  <2>1. PICK N \in Nat : N = Len(engines)
    BY DEF TypeInv
  <2>2. engines' = [e \in 1 .. N |-> engines'[e]] /\ \A e \in 1 .. N : engines'[e] \in Engine
    BY <1>1, <1>3, <2>1 DEF Told
  <2>3. engines' \in [1 .. N -> Engine]
    BY <2>2
  <2>4. QED
    BY <2>1, <2>3, SequenceOf
<1>5. QED
  BY <1>3, <1>4

LEMMA EnginesClosed ==
  ASSUME TypeInv, NEW S,
         engines' = [e \in DOMAIN engines |->
           IF e \in S THEN [engines[e] EXCEPT !.open = FALSE] ELSE engines[e]]
  PROVE  /\ engines' \in Seq(Engine) /\ Len(engines') = Len(engines)
         /\ \A e \in 1 .. Len(engines) :
              /\ engines'[e].by = engines[e].by /\ engines'[e].call = engines[e].call
              /\ engines'[e].remote = engines[e].remote
              /\ engines'[e].open = (engines[e].open /\ e \notin S)
<1>1. engines \in Seq(Engine) /\ DOMAIN engines = 1 .. Len(engines)
  BY DEF TypeInv
<1>2. \A e \in 1 .. Len(engines) :
        engines'[e] = IF e \in S THEN [engines[e] EXCEPT !.open = FALSE] ELSE engines[e]
  BY <1>1
<1>3. ASSUME NEW e \in 1 .. Len(engines)
      PROVE  /\ engines'[e] \in Engine
             /\ engines'[e].by = engines[e].by /\ engines'[e].call = engines[e].call
             /\ engines'[e].remote = engines[e].remote
             /\ engines'[e].open = (engines[e].open /\ e \notin S)
  <2>1. engines[e] \in Engine
    BY EngineFields
  <2>2. PICK r \in Engine : r = engines[e]
    BY <2>1
  <2>3. CASE e \in S
    <3>1. PICK q : q = [r EXCEPT !.open = FALSE]
      OBVIOUS
    <3>2. /\ q \in Engine /\ q.by = r.by /\ q.call = r.call /\ q.remote = r.remote
          /\ q.open = FALSE
      BY <3>1, ClosedEngine
    <3>3. engines'[e] = q
      BY <1>2, <2>2, <2>3, <3>1
    <3>4. QED
      BY <2>2, <2>3, <3>2, <3>3
  <2>4. CASE e \notin S
    <3>1. engines'[e] = engines[e]
      BY <1>2, <2>4
    <3>2. engines[e].open \in BOOLEAN
      BY EngineFields
    <3>3. QED
      BY <2>1, <2>4, <3>1, <3>2
  <2>5. QED
    BY <2>3, <2>4
<1>4. engines' \in Seq(Engine) /\ Len(engines') = Len(engines)
  <2>1. PICK N \in Nat : N = Len(engines)
    BY <1>1
  <2>2. engines' = [e \in 1 .. N |-> engines'[e]] /\ \A e \in 1 .. N : engines'[e] \in Engine
    BY <1>1, <1>3, <2>1
  <2>3. engines' \in [1 .. N -> Engine]
    BY <2>2
  <2>4. QED
    BY <2>1, <2>3, SequenceOf
<1>5. QED
  BY <1>3, <1>4

LEMMA EngineConnected ==
  ASSUME TypeInv, NEW x \in DOMAIN engines, engines' = [engines EXCEPT ![x].connected = TRUE]
  PROVE  /\ engines' \in Seq(Engine) /\ Len(engines') = Len(engines)
         /\ \A e \in 1 .. Len(engines) :
              /\ engines'[e].by = engines[e].by /\ engines'[e].call = engines[e].call
              /\ engines'[e].remote = engines[e].remote /\ engines'[e].open = engines[e].open
<1>1. engines \in Seq(Engine) /\ DOMAIN engines = 1 .. Len(engines)
  BY DEF TypeInv
<1>2. \A e \in 1 .. Len(engines) :
        engines'[e] = IF e = x THEN [engines[e] EXCEPT !.connected = TRUE] ELSE engines[e]
  BY <1>1
<1>3. ASSUME NEW e \in 1 .. Len(engines)
      PROVE  /\ engines'[e] \in Engine
             /\ engines'[e].by = engines[e].by /\ engines'[e].call = engines[e].call
             /\ engines'[e].remote = engines[e].remote /\ engines'[e].open = engines[e].open
  <2>1. engines[e] \in Engine
    BY EngineFields
  <2>2. PICK r \in Engine : r = engines[e]
    BY <2>1
  <2>3. CASE e = x
    <3>1. PICK q : q = [r EXCEPT !.connected = TRUE]
      OBVIOUS
    <3>2. /\ q \in Engine /\ q.by = r.by /\ q.call = r.call /\ q.remote = r.remote
          /\ q.open = r.open
      BY <3>1, ConnectedEngine
    <3>3. engines'[e] = q
      BY <1>2, <2>2, <2>3, <3>1
    <3>4. QED
      BY <2>2, <3>2, <3>3
  <2>4. CASE e # x
    BY <1>2, <2>1, <2>4
  <2>5. QED
    BY <2>3, <2>4
<1>4. engines' \in Seq(Engine) /\ Len(engines') = Len(engines)
  <2>1. PICK N \in Nat : N = Len(engines)
    BY <1>1
  <2>2. DOMAIN engines' = 1 .. N /\ engines' = [e \in 1 .. N |-> engines'[e]]
    BY <1>1, <2>1
  <2>3. PICK f : f = engines'
    OBVIOUS
  <2>4. f = [e \in 1 .. N |-> f[e]] /\ \A e \in 1 .. N : f[e] \in Engine
    BY <1>3, <2>1, <2>2, <2>3
  <2>5. f \in [1 .. N -> Engine]
    BY <2>4
  <2>6. f \in Seq(Engine) /\ Len(f) = N
    BY <2>5, SequenceOf
  <2>7. QED
    BY <2>1, <2>3, <2>6, Zenon
<1>5. QED
  BY <1>3, <1>4

-----------------------------------------------------------------------------
(* Tasks, signals and installations.                                       *)

TaskOf(awaits, d, peer, id, engine, sdp) ==
  [awaits |-> awaits, by |-> d, peer |-> peer, call |-> id, engine |-> engine, sdp |-> sdp]

LEMMA TaskFields ==
  ASSUME NEW awaits \in {"createOffer", "createAnswer", "acceptAnswer",
                         "answerSent", "hangupSent", "refusalSent"},
         NEW d \in Device, NEW peer \in Device, NEW id \in Number,
         NEW engine \in SUBSET Number, NEW sdp \in SUBSET Number,
         NEW u, u = TaskOf(awaits, d, peer, id, engine, sdp)
  PROVE  /\ u \in Task /\ u.awaits = awaits /\ u.by = d /\ u.peer = peer /\ u.call = id
         /\ u.engine = engine /\ u.sdp = sdp
BY DEF Task, TaskOf

LEMMA TaskShape ==
  ASSUME NEW t \in Task
  PROVE  /\ t = TaskOf(t.awaits, t.by, t.peer, t.call, t.engine, t.sdp)
         /\ t.by \in Device /\ t.peer \in Device /\ t.call \in Number
         /\ t.engine \in SUBSET Number /\ t.sdp \in SUBSET Number
BY DEF Task, TaskOf

LEMMA SignalFields ==
  ASSUME NEW d \in Device, NEW peer \in Device, NEW id \in Number, NEW sdp \in SUBSET Number,
         NEW kind \in {"call-offer", "call-answer", "call-hangup"},
         NEW s, s = SignalTo(d, peer, kind, id, sdp)
  PROVE  /\ s \in Signal /\ s.kind = kind /\ s.from = d /\ s.to = peer /\ s.call = id
         /\ s.sdp = sdp
BY DEF Signal, SignalTo

LEMMA SignalShape ==
  ASSUME NEW s \in Signal
  PROVE  /\ s.from \in Device /\ s.to \in Device /\ s.call \in Number /\ s.sdp \in SUBSET Number
BY DEF Signal

LEMMA InstallEffect ==
  ASSUME TypeInv, NEW d \in Device, NEW m \in Manager, NEW role \in {"caller", "callee"},
         NEW ks \in SUBSET Keys, Install(d, m, role, ks)
  PROVE  /\ installed' \in Seq(Installation)
         /\ \/ installed' = installed
            \/ /\ ks # {} /\ m.engine # {} /\ Len(installed') = Len(installed) + 1
               /\ \A i \in 1 .. Len(installed) : installed'[i] = installed[i]
               /\ installed'[Len(installed) + 1].by = d
               /\ installed'[Len(installed) + 1].keys = ks
               /\ installed'[Len(installed) + 1].send = role
<1>1. PICK r : r = [by |-> d, engine |-> m.engine, keys |-> ks, send |-> role]
  OBVIOUS
<1>2. r \in Installation /\ r.by = d /\ r.keys = ks /\ r.send = role
  BY <1>1, ManagerFields DEF Installation
<1>3. installed \in Seq(Installation)
  BY DEF TypeInv
<1>4. CASE ks = {} \/ m.engine = {}
  BY <1>3, <1>4 DEF Install
<1>5. CASE ~(ks = {} \/ m.engine = {})
  <2>1. installed' = Append(installed, r)
    BY <1>1, <1>5 DEF Install
  <2>2. /\ installed' \in Seq(Installation) /\ Len(installed') = Len(installed) + 1
        /\ \A i \in 1 .. Len(installed) : installed'[i] = installed[i]
        /\ installed'[Len(installed) + 1] = r
    BY <1>2, <1>3, <2>1
  <2>3. QED
    BY <1>2, <1>5, <2>2
<1>6. QED
  BY <1>4, <1>5

-----------------------------------------------------------------------------
(* What the composite steps do to a manager.                               *)

\* n keeps the call of m, if it has one; pending offers go, never come, and the
\* engine stays or goes.
Keeps(m, n) ==
  /\ SameCalls(m, n)
  /\ \A c \in n.current : \E b \in m.current :
       b.id = c.id /\ (c.state = b.state \/ c.state # "ringing-incoming")
  /\ n.pendingOfferSdp \subseteq m.pendingOfferSdp
  /\ n.engine = m.engine \/ n.engine = {}

LEMMA KeepsItself == \A m : Keeps(m, m)
BY DEF Keeps, SameCalls

\* The manager m of a caller d that takes an answer becomes n, with the keys ks.
AnswerTaken(d, m, n, ks) ==
  /\ Puts(d, n) /\ \A x \in Device : Single(manager'[x])
  /\ ks = Derived(d, m, "caller") /\ ks \in SUBSET Keys /\ Install(d, m, "caller", ks)
  /\ Keeps(m, n) /\ n.engine = m.engine /\ n.mediaSecret = m.mediaSecret
  /\ n.localFingerprint = m.localFingerprint
  /\ n.remoteFingerprint = m.remoteFingerprint /\ n.pendingOfferSdp = m.pendingOfferSdp
  /\ ks = {} => n = m
  /\ ks # {} => /\ \A c \in n.current : c.state = "connecting" /\ c.words = ks
                /\ n.keys = ks

LEMMA AnswerAcceptedEffect ==
  ASSUME TypeInv, NEW t \in tasks, AnswerAccepted(t)
  PROVE  \E n, ks : AnswerTaken(t.by, manager[t.by], n, ks)
<1>1. t \in Task /\ t.by \in Device
  BY TaskShape DEF TypeInv
<1>2. PICK d \in Device : d = t.by
  BY <1>1
<1>3. PICK m : m = manager[d]
  OBVIOUS
<1>4. m \in Manager /\ Single(m)
  BY <1>3 DEF TypeInv
<1>5. PICK ks : ks = Derived(d, m, "caller")
  OBVIOUS
<1>6. /\ Install(d, m, "caller", ks)
      /\ manager' = [manager EXCEPT ![d] =
           IF ks = {} THEN @ ELSE SetState(WithKeys(@, ks), "connecting")]
  BY <1>2, <1>3, <1>5 DEF AnswerAccepted
<1>7. ks \in SUBSET Keys /\ AtMostOne(ks)
  BY <1>4, <1>5, DerivedKeys
<1>8. CASE ks = {}
  <2>1. manager' = [manager EXCEPT ![d] = m]
    BY <1>3, <1>6, <1>8
  <2>2. Puts(d, m) /\ \A x \in Device : Single(manager'[x])
    BY <1>4, <2>1, WholePut
  <2>3. AnswerTaken(d, m, m, ks)
    BY <1>5, <1>6, <1>7, <1>8, <2>2, KeepsItself DEF AnswerTaken
  <2>4. QED
    BY <1>2, <1>3, <2>3
<1>9. CASE ks # {}
  <2>1. PICK w : w = WithKeys(m, ks)
    OBVIOUS
  <2>2. PICK n : n = SetState(w, "connecting")
    OBVIOUS
  <2>3. /\ w \in Manager /\ Single(w) /\ SameCalls(m, w)
        /\ \A c \in w.current : /\ c.words = ks
                                /\ \E b \in m.current : b.id = c.id /\ b.state = c.state
        /\ w.engine = m.engine /\ w.keys = ks /\ w.mediaSecret = m.mediaSecret
        /\ w.localFingerprint = m.localFingerprint
        /\ w.remoteFingerprint = m.remoteFingerprint /\ w.pendingOfferSdp = m.pendingOfferSdp
    BY <1>4, <1>7, <2>1, WithKeysFields
  <2>4. "connecting" \in State
    BY DEF State
  <2>5. /\ n \in Manager /\ Single(n) /\ SameCalls(w, n)
        /\ \A c \in n.current : /\ c.state = "connecting"
                                /\ \E b \in w.current : b.id = c.id /\ b.words = c.words
        /\ n.engine = w.engine /\ n.keys = w.keys /\ n.mediaSecret = w.mediaSecret
        /\ n.localFingerprint = w.localFingerprint
        /\ n.remoteFingerprint = w.remoteFingerprint /\ n.pendingOfferSdp = w.pendingOfferSdp
    BY <2>2, <2>3, <2>4, SetStateFields
  <2>6. SameCalls(m, n)
    BY <2>3, <2>5 DEF SameCalls
  <2>7. \A c \in n.current : c.state = "connecting" /\ c.words = ks
    BY <2>3, <2>5
  <2>8. Keeps(m, n)
    BY <2>3, <2>5, <2>6, <2>7 DEF Keeps, SameCalls
  <2>9. manager' = [manager EXCEPT ![d] = n]
    BY <1>3, <1>6, <1>9, <2>1, <2>2
  <2>10. Puts(d, n) /\ \A x \in Device : Single(manager'[x])
    BY <2>5, <2>9, WholePut
  <2>11. /\ n.engine = m.engine /\ n.keys = ks /\ n.mediaSecret = m.mediaSecret
         /\ n.localFingerprint = m.localFingerprint
         /\ n.remoteFingerprint = m.remoteFingerprint /\ n.pendingOfferSdp = m.pendingOfferSdp
    BY <2>3, <2>5
  <2>12. AnswerTaken(d, m, n, ks)
    BY <1>5, <1>6, <1>7, <1>9, <2>7, <2>8, <2>10, <2>11 DEF AnswerTaken
  <2>13. QED
    BY <1>2, <1>3, <2>12
<1>10. QED
  BY <1>8, <1>9

\* The manager that derives the callee's keys.
Answering(m, v) == [m EXCEPT !.localFingerprint = v, !.pendingOfferSdp = {}]

LEMMA AnsweringFields ==
  ASSUME NEW m \in Manager, Single(m), NEW v \in SUBSET Number, AtMostOne(v),
         NEW w, w = Answering(m, v)
  PROVE  /\ w \in Manager /\ Single(w) /\ Keeps(m, w)
         /\ w.current = m.current /\ w.engine = m.engine /\ w.keys = m.keys
         /\ w.mediaSecret = m.mediaSecret /\ w.localFingerprint = v
         /\ w.remoteFingerprint = m.remoteFingerprint /\ w.pendingOfferSdp = {}
<1>1. m = ManagerOf(m.current, m.engine, m.keys, m.mediaSecret, m.localFingerprint,
                    m.remoteFingerprint, m.pendingOfferSdp)
  BY ManagerFields
<1>2. w = ManagerOf(m.current, m.engine, m.keys, m.mediaSecret, v, m.remoteFingerprint, {})
  BY <1>1 DEF ManagerOf, Answering
<1>3. {} \in SUBSET Number
  OBVIOUS
<1>4. /\ w \in Manager /\ w.current = m.current /\ w.engine = m.engine /\ w.keys = m.keys
      /\ w.mediaSecret = m.mediaSecret /\ w.localFingerprint = v
      /\ w.remoteFingerprint = m.remoteFingerprint /\ w.pendingOfferSdp = {}
  BY <1>2, <1>3, ManagerFields, OfFields
<1>5. Single(w) /\ Keeps(m, w)
  BY <1>4 DEF Single, AtMostOne, Keeps, SameCalls
<1>6. QED
  BY <1>4, <1>5

\* The manager m of d, which answered with the task t, becomes n; the keys ks are
\* derived from w.
AnswerGiven(d, t, m, n, w, ks) ==
  /\ Puts(d, n) /\ \A x \in Device : Single(manager'[x])
  /\ w \in Manager /\ Single(w) /\ w.current = m.current /\ w.engine = m.engine
  /\ w.mediaSecret = m.mediaSecret /\ w.localFingerprint = t.engine
  /\ w.remoteFingerprint = m.remoteFingerprint /\ w.keys = m.keys
  /\ ks = Derived(d, w, "callee") /\ ks \in SUBSET Keys /\ Install(d, w, "callee", ks)
  /\ Keeps(m, n) /\ n.engine = m.engine /\ n.mediaSecret = m.mediaSecret
  /\ n.localFingerprint = t.engine /\ n.remoteFingerprint = m.remoteFingerprint
  /\ n.pendingOfferSdp = {}
  /\ \A c \in n.current : \E b \in m.current : b.id = c.id /\ b.state = c.state
  /\ ks = {} => n = w
  /\ ks # {} => (\A c \in n.current : c.words = ks) /\ n.keys = ks
  /\ ks = {} => tasks' = tasks \ {t} /\ signals' = signals
  /\ ks # {} => /\ tasks' = (tasks \ {t}) \cup
                     {TaskOf("answerSent", t.by, t.peer, t.call, t.engine, t.sdp)}
                /\ signals' = signals \cup
                     {SignalTo(t.by, t.peer, "call-answer", t.call, t.engine)}

LEMMA AnswerMadeEffect ==
  ASSUME TypeInv, NEW t \in tasks, AnswerMade(t)
  PROVE  \E n, w, ks : AnswerGiven(t.by, t, manager[t.by], n, w, ks)
<1>1. /\ t \in Task /\ t.by \in Device /\ t.engine \in SUBSET Number /\ AtMostOne(t.engine)
      /\ t = TaskOf(t.awaits, t.by, t.peer, t.call, t.engine, t.sdp)
  BY TaskShape DEF TypeInv
<1>2. PICK d \in Device : d = t.by
  BY <1>1
<1>3. PICK m : m = manager[d]
  OBVIOUS
<1>4. m \in Manager /\ Single(m)
  BY <1>3 DEF TypeInv
<1>5. PICK w : w = Answering(m, t.engine)
  OBVIOUS
<1>6. /\ w \in Manager /\ Single(w) /\ Keeps(m, w)
      /\ w.current = m.current /\ w.engine = m.engine /\ w.keys = m.keys
      /\ w.mediaSecret = m.mediaSecret /\ w.localFingerprint = t.engine
      /\ w.remoteFingerprint = m.remoteFingerprint /\ w.pendingOfferSdp = {}
  BY <1>1, <1>4, <1>5, AnsweringFields
<1>7. PICK ks : ks = Derived(d, w, "callee")
  OBVIOUS
<1>8. /\ Install(d, w, "callee", ks)
      /\ IF ks = {}
         THEN /\ manager' = [manager EXCEPT ![d] = w]
              /\ tasks' = tasks \ {t} /\ signals' = signals
         ELSE /\ manager' = [manager EXCEPT ![d] = WithKeys(w, ks)]
              /\ tasks' = (tasks \ {t}) \cup {[t EXCEPT !.awaits = "answerSent"]}
              /\ signals' = signals \cup
                   {SignalTo(t.by, t.peer, "call-answer", t.call, t.engine)}
  BY <1>2, <1>3, <1>5, <1>7 DEF AnswerMade, Answering
<1>9. [t EXCEPT !.awaits = "answerSent"]
        = TaskOf("answerSent", t.by, t.peer, t.call, t.engine, t.sdp)
  BY <1>1 DEF TaskOf
<1>10. ks \in SUBSET Keys /\ AtMostOne(ks)
  BY <1>6, <1>7, DerivedKeys
<1>11. CASE ks = {}
  <2>1. Puts(d, w) /\ \A x \in Device : Single(manager'[x])
    BY <1>6, <1>8, <1>11, WholePut
  <2>2. AnswerGiven(d, t, m, w, w, ks)
    BY <1>6, <1>7, <1>8, <1>10, <1>11, <2>1 DEF AnswerGiven
  <2>3. QED
    BY <1>2, <1>3, <2>2
<1>12. CASE ks # {}
  <2>1. PICK n : n = WithKeys(w, ks)
    OBVIOUS
  <2>2. /\ n \in Manager /\ Single(n) /\ SameCalls(w, n)
        /\ \A c \in n.current : /\ c.words = ks
                                /\ \E b \in w.current : b.id = c.id /\ b.state = c.state
        /\ n.engine = w.engine /\ n.keys = ks /\ n.mediaSecret = w.mediaSecret
        /\ n.localFingerprint = w.localFingerprint
        /\ n.remoteFingerprint = w.remoteFingerprint /\ n.pendingOfferSdp = w.pendingOfferSdp
    BY <1>6, <1>10, <2>1, WithKeysFields
  <2>3. Puts(d, n) /\ \A x \in Device : Single(manager'[x])
    BY <1>8, <1>12, <2>1, <2>2, WholePut
  <2>4. Keeps(m, n)
    BY <1>6, <2>2 DEF Keeps, SameCalls
  <2>5. /\ tasks' = (tasks \ {t}) \cup
             {TaskOf("answerSent", t.by, t.peer, t.call, t.engine, t.sdp)}
        /\ signals' = signals \cup {SignalTo(t.by, t.peer, "call-answer", t.call, t.engine)}
    BY <1>8, <1>9, <1>12
  <2>6. AnswerGiven(d, t, m, n, w, ks)
    BY <1>6, <1>7, <1>8, <1>10, <1>12, <2>2, <2>3, <2>4, <2>5 DEF AnswerGiven
  <2>7. QED
    BY <1>2, <1>3, <2>6
<1>13. QED
  BY <1>11, <1>12

\* A step that only sets the state of d's call.
StateSet(d, state, m, n) ==
  /\ Puts(d, n) /\ \A x \in Device : Single(manager'[x])
  /\ Keeps(m, n)
  /\ \A c \in n.current : /\ c.state = state
                          /\ \E b \in m.current : b.id = c.id /\ b.words = c.words
  /\ n.engine = m.engine /\ n.keys = m.keys /\ n.mediaSecret = m.mediaSecret
  /\ n.localFingerprint = m.localFingerprint
  /\ n.remoteFingerprint = m.remoteFingerprint /\ n.pendingOfferSdp = m.pendingOfferSdp

LEMMA StatePut ==
  ASSUME TypeInv, NEW d \in Device, NEW state \in State, state # "ringing-incoming",
         manager' = [manager EXCEPT ![d] = SetState(@, state)]
  PROVE  \E n : StateSet(d, state, manager[d], n)
<1>1. PICK m : m = manager[d]
  OBVIOUS
<1>2. m \in Manager /\ Single(m)
  BY <1>1 DEF TypeInv
<1>3. PICK n : n = SetState(m, state)
  OBVIOUS
<1>4. /\ n \in Manager /\ Single(n) /\ SameCalls(m, n)
      /\ \A c \in n.current : /\ c.state = state
                              /\ \E b \in m.current : b.id = c.id /\ b.words = c.words
      /\ n.engine = m.engine /\ n.keys = m.keys /\ n.mediaSecret = m.mediaSecret
      /\ n.localFingerprint = m.localFingerprint
      /\ n.remoteFingerprint = m.remoteFingerprint /\ n.pendingOfferSdp = m.pendingOfferSdp
  BY <1>2, <1>3, SetStateFields
<1>5. Keeps(m, n)
  BY <1>4 DEF Keeps
<1>6. manager' = [manager EXCEPT ![d] = n]
  BY <1>1, <1>3
<1>7. Puts(d, n) /\ \A x \in Device : Single(manager'[x])
  BY <1>4, <1>6, WholePut
<1>8. StateSet(d, state, m, n)
  BY <1>4, <1>5, <1>7 DEF StateSet
<1>9. QED
  BY <1>1, <1>8

TornDown(d, m, n) ==
  /\ Puts(d, n) /\ \A x \in Device : Single(manager'[x])
  /\ Keeps(m, n)
  /\ \A c \in n.current : /\ c.state = "ended"
                          /\ \E b \in m.current : b.id = c.id /\ b.words = c.words
  /\ n.engine = {} /\ n.keys = {} /\ n.mediaSecret = {} /\ n.localFingerprint = {}
  /\ n.remoteFingerprint = {} /\ n.pendingOfferSdp = {}

LEMMA TeardownEffect ==
  ASSUME TypeInv, NEW d \in Device, Teardown(d)
  PROVE  /\ \E n : TornDown(d, manager[d], n)
         /\ engines' \in Seq(Engine) /\ Len(engines') = Len(engines)
         /\ \A e \in 1 .. Len(engines) :
              /\ engines'[e].by = engines[e].by /\ engines'[e].call = engines[e].call
              /\ engines'[e].remote = engines[e].remote
              /\ engines'[e].open = (engines[e].open /\ e \notin manager[d].engine)
         /\ tornDown \subseteq tornDown'
         /\ tornDown' \subseteq [by : Device, call : Number]
         /\ \A c \in manager[d].current : [by |-> d, call |-> c.id] \in tornDown'
         /\ \A x \in tornDown' \ tornDown : \E c \in manager[d].current :
              x = [by |-> d, call |-> c.id]
         /\ UNCHANGED <<capable, calls, installed>>
<1>1. PICK m : m = manager[d]
  OBVIOUS
<1>2. m \in Manager /\ Single(m)
  BY <1>1 DEF TypeInv
<1>3. /\ manager' = [manager EXCEPT ![d] = WithoutCall(@)]
      /\ engines' = [e \in DOMAIN engines |->
           IF e \in m.engine THEN [engines[e] EXCEPT !.open = FALSE] ELSE engines[e]]
      /\ tornDown' = tornDown \cup {[by |-> d, call |-> c.id] : c \in m.current}
      /\ UNCHANGED <<capable, calls, installed>>
  BY <1>1 DEF Teardown
<1>4. PICK n : n = WithoutCall(m)
  OBVIOUS
<1>5. /\ n \in Manager /\ Single(n) /\ SameCalls(m, n)
      /\ \A c \in n.current : /\ c.state = "ended"
                              /\ \E b \in m.current : b.id = c.id /\ b.words = c.words
      /\ n.engine = {} /\ n.keys = {} /\ n.mediaSecret = {} /\ n.localFingerprint = {}
      /\ n.remoteFingerprint = {} /\ n.pendingOfferSdp = {}
  BY <1>2, <1>4, WithoutCallFields
<1>6. Keeps(m, n)
  BY <1>5 DEF Keeps
<1>7. manager' = [manager EXCEPT ![d] = n]
  BY <1>1, <1>3, <1>4
<1>8. Puts(d, n) /\ \A x \in Device : Single(manager'[x])
  BY <1>5, <1>7, WholePut
<1>9. \A c \in m.current : c.id \in Number
  BY <1>2, ManagerFields, CallFields
<1>10. /\ tornDown \subseteq tornDown' /\ tornDown' \subseteq [by : Device, call : Number]
       /\ \A c \in m.current : [by |-> d, call |-> c.id] \in tornDown'
       /\ \A x \in tornDown' \ tornDown : \E c \in m.current : x = [by |-> d, call |-> c.id]
  BY <1>3, <1>9 DEF TypeInv
<1>11. /\ engines' \in Seq(Engine) /\ Len(engines') = Len(engines)
       /\ \A e \in 1 .. Len(engines) :
            /\ engines'[e].by = engines[e].by /\ engines'[e].call = engines[e].call
            /\ engines'[e].remote = engines[e].remote
            /\ engines'[e].open = (engines[e].open /\ e \notin m.engine)
  BY <1>3, EnginesClosed
<1>12. \E k : TornDown(d, manager[d], k)
  <2>1. TornDown(d, m, n)
    BY <1>5, <1>6, <1>8 DEF TornDown
  <2>2. QED
    BY <1>1, <2>1
<1>13. /\ \A c \in manager[d].current : [by |-> d, call |-> c.id] \in tornDown'
       /\ \A x \in tornDown' \ tornDown : \E c \in manager[d].current :
            x = [by |-> d, call |-> c.id]
       /\ \A e \in 1 .. Len(engines) :
            engines'[e].open = (engines[e].open /\ e \notin manager[d].engine)
  BY <1>1, <1>10, <1>11
<1>14. QED
  BY <1>3, <1>10, <1>11, <1>12, <1>13

-----------------------------------------------------------------------------
(* Types.                                                                  *)

LEMMA TypesOfTasks ==
  ASSUME TypeInv, NEW S, S \subseteq Task, \A u \in S : AtMostOne(u.engine) /\ AtMostOne(u.sdp),
         tasks' \subseteq tasks \cup S
  PROVE  tasks' \subseteq Task /\ \A u \in tasks' : AtMostOne(u.engine) /\ AtMostOne(u.sdp)
<1>1. \A u \in tasks' : u \in tasks \/ u \in S
  OBVIOUS
<1>2. QED
  BY <1>1 DEF TypeInv

LEMMA OneMoreTask ==
  ASSUME TypeInv, NEW u \in Task, AtMostOne(u.engine), AtMostOne(u.sdp),
         tasks' \subseteq tasks \cup {u}
  PROVE  tasks' \subseteq Task /\ \A k \in tasks' : AtMostOne(k.engine) /\ AtMostOne(k.sdp)
<1>1. \A k \in tasks' : k \in tasks \/ k = u
  OBVIOUS
<1>2. QED
  BY <1>1 DEF TypeInv

LEMMA OneMoreSignal ==
  ASSUME TypeInv, NEW s \in Signal, AtMostOne(s.sdp), signals' \subseteq signals \cup {s}
  PROVE  signals' \subseteq Signal /\ \A k \in signals' : AtMostOne(k.sdp)
<1>1. \A k \in signals' : k \in signals \/ k = s
  OBVIOUS
<1>2. QED
  BY <1>1 DEF TypeInv

Singles == AtMostOne({}) /\ \A x : AtMostOne({x})

LEMMA SetsOfOne == Singles
BY DEF AtMostOne, Singles

\* What a step on the managers and engines leaves well typed.
ManagersTyped == manager' \in [Device -> Manager] /\ \A x \in Device : Single(manager'[x])

LEMMA Assemble ==
  ASSUME TypeInv, ManagersTyped, capable' = capable, engines' \in Seq(Engine),
         tasks' \subseteq Task, \A u \in tasks' : AtMostOne(u.engine) /\ AtMostOne(u.sdp),
         signals' \subseteq Signal, \A s \in signals' : AtMostOne(s.sdp),
         calls' \in 0 .. MaxCalls, installed' \in Seq(Installation),
         tornDown' \subseteq [by : Device, call : Number]
  PROVE  TypeInv'
BY DEF TypeInv, ManagersTyped

LEMMA SameTyped ==
  ASSUME TypeInv
  PROVE  /\ manager' = manager => ManagersTyped
         /\ engines' = engines => engines' \in Seq(Engine)
         /\ tasks' \subseteq tasks =>
              tasks' \subseteq Task /\ \A u \in tasks' : AtMostOne(u.engine) /\ AtMostOne(u.sdp)
         /\ signals' \subseteq signals => signals' \subseteq Signal /\ \A s \in signals' : AtMostOne(s.sdp)
         /\ calls' = calls => calls' \in 0 .. MaxCalls
         /\ installed' = installed => installed' \in Seq(Installation)
         /\ tornDown' = tornDown => tornDown' \subseteq [by : Device, call : Number]
         /\ \A d \in Device : \A n : Puts(d, n) => manager' \in [Device -> Manager]
BY DEF TypeInv, ManagersTyped, Puts

\* Teardown and the tasks and signals around it.
LEMMA TeardownTyped ==
  ASSUME TypeInv, NEW d \in Device, Teardown(d), tasks' \subseteq tasks, signals' \subseteq signals
  PROVE  TypeInv'
<1>1. /\ \E n : TornDown(d, manager[d], n)
      /\ engines' \in Seq(Engine) /\ tornDown' \subseteq [by : Device, call : Number]
      /\ UNCHANGED <<capable, calls, installed>>
  BY TeardownEffect
<1>2. ManagersTyped
  BY <1>1 DEF Puts, ManagersTyped, TornDown
<1>3. QED
  BY <1>1, <1>2, SameTyped, Assemble

LEMMA DeviceTyped ==
  ASSUME TypeInv, NEW d \in Device,
         \/ \E peer \in Device \ {d} : PlaceCall(d, peer)
         \/ AnswerCall(d) \/ RefuseCall(d) \/ HangUp(d)
  PROVE  TypeInv'
<1>1. ASSUME NEW peer \in Device \ {d}, PlaceCall(d, peer) PROVE TypeInv'
  <2>1. PICK e : e = Len(engines) + 1
    OBVIOUS
  <2>2. PICK id : id = calls + 1
    OBVIOUS
  <2>3. e \in Number /\ id \in Number
    BY <2>1, <2>2, CallBounds DEF TypeInv, Number
  <2>4. PICK u : u = TaskOf("createOffer", d, peer, id, {e}, {})
    OBVIOUS
  <2>5. /\ calls < MaxCalls /\ calls' = id /\ engines' = NewEngine(d, id)
        /\ tasks' = tasks \cup {u}
        /\ UNCHANGED <<capable, signals, installed, tornDown>>
    BY <1>1, <2>1, <2>2, <2>4 DEF PlaceCall, TaskOf
  <2>6. u \in Task /\ AtMostOne(u.engine) /\ AtMostOne(u.sdp)
    <3>1. u \in Task /\ u.engine = {e} /\ u.sdp = {}
      BY <2>3, <2>4, TaskFields
    <3>2. QED
      BY <3>1, SetsOfOne DEF Singles
  <2>7. tasks' \subseteq Task /\ \A k \in tasks' : AtMostOne(k.engine) /\ AtMostOne(k.sdp)
    BY <2>5, <2>6, OneMoreTask
  <2>8. engines' \in Seq(Engine)
    BY <2>3, <2>5, EngineMade
  <2>9. ManagersTyped
    BY <1>1, PlaceCallEffect DEF Puts, ManagersTyped, CallPlaced
  <2>10. calls' \in 0 .. MaxCalls
    BY <2>2, <2>5, CallBounds DEF TypeInv
  <2>11. QED
    BY <2>5, <2>7, <2>8, <2>9, <2>10, SameTyped, Assemble
<1>2. CASE AnswerCall(d)
  <2>1. PICK c \in manager[d].current :
          /\ engines' = NewEngine(d, c.id)
          /\ manager' = [manager EXCEPT ![d].engine = {Len(engines) + 1}]
          /\ tasks' = tasks \cup {TaskOf("createAnswer", d, c.peer, c.id, {Len(engines) + 1},
                                         manager[d].pendingOfferSdp)}
          /\ UNCHANGED <<capable, signals, calls, installed, tornDown>>
    BY <1>2 DEF AnswerCall, TaskOf
  <2>2. PICK e : e = Len(engines) + 1
    OBVIOUS
  <2>3. e \in Number
    BY <2>2 DEF TypeInv, Number
  <2>4. manager[d] \in Manager /\ Single(manager[d])
    BY DEF TypeInv
  <2>5. PICK p \in SUBSET Number : p = manager[d].pendingOfferSdp
    BY <2>4, ManagerFields
  <2>6. AtMostOne(p) /\ c \in Call /\ c.id \in Number /\ c.peer \in Device
    BY <2>4, <2>5, ManagerFields, CallFields DEF Single
  <2>7. PICK u : u = TaskOf("createAnswer", d, c.peer, c.id, {e}, p)
    OBVIOUS
  <2>8. u \in Task /\ AtMostOne(u.engine) /\ AtMostOne(u.sdp)
    <3>1. u \in Task /\ u.engine = {e} /\ u.sdp = p
      BY <2>3, <2>6, <2>7, TaskFields
    <3>2. QED
      BY <2>6, <3>1, SetsOfOne DEF Singles
  <2>9. tasks' \subseteq Task /\ \A k \in tasks' : AtMostOne(k.engine) /\ AtMostOne(k.sdp)
    BY <2>1, <2>2, <2>5, <2>6, <2>7, <2>8, OneMoreTask
  <2>10. engines' \in Seq(Engine)
    BY <2>1, <2>6, EngineMade
  <2>11. ManagersTyped
    BY <2>1, <2>2, <2>3, EnginePut DEF Puts, ManagersTyped, EngineTaken
  <2>12. QED
    BY <2>1, <2>9, <2>10, <2>11, SameTyped, Assemble
<1>3. CASE RefuseCall(d)
  <2>1. PICK c \in manager[d].current :
          /\ signals' = signals \cup {SignalTo(d, c.peer, "call-hangup", c.id, {})}
          /\ tasks' = tasks \cup {TaskOf("refusalSent", d, c.peer, c.id, {}, {})}
          /\ UNCHANGED <<capable, manager, engines, calls, installed, tornDown>>
    BY <1>3 DEF RefuseCall, TaskOf
  <2>2. c \in Call /\ c.id \in Number /\ c.peer \in Device
    BY ManagerFields, CallFields DEF TypeInv
  <2>3. PICK u : u = TaskOf("refusalSent", d, c.peer, c.id, {}, {})
    OBVIOUS
  <2>4. PICK s : s = SignalTo(d, c.peer, "call-hangup", c.id, {})
    OBVIOUS
  <2>5. /\ u \in Task /\ AtMostOne(u.engine) /\ AtMostOne(u.sdp)
        /\ s \in Signal /\ AtMostOne(s.sdp)
    BY <2>2, <2>3, <2>4, TaskFields, SignalFields, SetsOfOne DEF Singles
  <2>6. tasks' \subseteq Task /\ \A k \in tasks' : AtMostOne(k.engine) /\ AtMostOne(k.sdp)
    BY <2>1, <2>3, <2>5, OneMoreTask
  <2>7. signals' \subseteq Signal /\ \A k \in signals' : AtMostOne(k.sdp)
    BY <2>1, <2>4, <2>5, OneMoreSignal
  <2>8. QED
    BY <2>1, <2>6, <2>7, SameTyped, Assemble
<1>4. CASE HangUp(d)
  <2>1. PICK c \in manager[d].current :
          IF c.state = "ended"
          THEN Teardown(d) /\ UNCHANGED <<tasks, signals>>
          ELSE /\ signals' = signals \cup {SignalTo(d, c.peer, "call-hangup", c.id, {})}
               /\ tasks' = tasks \cup {TaskOf("hangupSent", d, c.peer, c.id, {}, {})}
               /\ UNCHANGED <<capable, manager, engines, calls, installed, tornDown>>
    BY <1>4 DEF HangUp, TaskOf
  <2>2. CASE c.state = "ended"
    BY <2>1, <2>2, TeardownTyped
  <2>3. CASE c.state # "ended"
    <3>1. c \in Call /\ c.id \in Number /\ c.peer \in Device
      BY ManagerFields, CallFields DEF TypeInv
    <3>2. PICK u : u = TaskOf("hangupSent", d, c.peer, c.id, {}, {})
      OBVIOUS
    <3>3. PICK s : s = SignalTo(d, c.peer, "call-hangup", c.id, {})
      OBVIOUS
    <3>4. /\ u \in Task /\ AtMostOne(u.engine) /\ AtMostOne(u.sdp)
          /\ s \in Signal /\ AtMostOne(s.sdp)
      BY <3>1, <3>2, <3>3, TaskFields, SignalFields, SetsOfOne DEF Singles
    <3>5. tasks' \subseteq Task /\ \A k \in tasks' : AtMostOne(k.engine) /\ AtMostOne(k.sdp)
      BY <2>1, <2>3, <3>2, <3>4, OneMoreTask
    <3>6. signals' \subseteq Signal /\ \A k \in signals' : AtMostOne(k.sdp)
      BY <2>1, <2>3, <3>3, <3>4, OneMoreSignal
    <3>7. QED
      BY <2>1, <2>3, <3>5, <3>6, SameTyped, Assemble
  <2>4. QED
    BY <2>2, <2>3
<1>5. QED
  BY <1>1, <1>2, <1>3, <1>4

LEMMA TaskTyped ==
  ASSUME TypeInv, NEW t \in tasks,
         \/ OfferMade(t) \/ AnswerAccepted(t) \/ AnswerMade(t)
         \/ SignalSent(t) \/ HangupSent(t) \/ Fails(t)
  PROVE  TypeInv'
<1>1. /\ t \in Task /\ t.by \in Device /\ t.peer \in Device /\ t.call \in Number
      /\ t.engine \in SUBSET Number /\ t.sdp \in SUBSET Number
      /\ AtMostOne(t.engine) /\ AtMostOne(t.sdp)
  BY TaskShape DEF TypeInv
<1>2. CASE OfferMade(t)
  <2>1. PICK s : s = SignalTo(t.by, t.peer, "call-offer", t.call, t.engine)
    OBVIOUS
  <2>2. s \in Signal /\ AtMostOne(s.sdp)
    BY <1>1, <2>1, SignalFields
  <2>3. /\ tasks' \subseteq tasks /\ signals' = signals \cup {s}
        /\ manager' = [manager EXCEPT ![t.by].localFingerprint = t.engine]
        /\ UNCHANGED <<capable, engines, calls, installed, tornDown>>
    BY <1>2, <2>1 DEF OfferMade
  <2>4. ManagersTyped
    BY <1>1, <2>3, LocalPut DEF Puts, ManagersTyped
  <2>5. signals' \subseteq Signal /\ \A k \in signals' : AtMostOne(k.sdp)
    BY <1>1, <2>2, <2>3, OneMoreSignal
  <2>6. QED
    BY <2>3, <2>4, <2>5, SameTyped, Assemble
<1>3. CASE AnswerAccepted(t)
  <2>1. /\ tasks' \subseteq tasks
        /\ engines' = Told(t.engine, t.sdp)
        /\ UNCHANGED <<capable, signals, calls, tornDown>>
    BY <1>3 DEF AnswerAccepted, Told
  <2>2. engines' \in Seq(Engine)
    BY <1>1, <2>1, EnginesTold
  <2>3. PICK n, ks : AnswerTaken(t.by, manager[t.by], n, ks)
    BY <1>3, AnswerAcceptedEffect
  <2>4. manager[t.by] \in Manager
    BY <1>1 DEF TypeInv
  <2>5. installed' \in Seq(Installation)
    BY <1>1, <2>3, <2>4, InstallEffect DEF AnswerTaken
  <2>6. ManagersTyped
    BY <2>3 DEF Puts, ManagersTyped, AnswerTaken
  <2>7. QED
    BY <2>1, <2>2, <2>5, <2>6, SameTyped, Assemble
<1>4. CASE AnswerMade(t)
  <2>1. /\ engines' = Told(t.engine, t.sdp)
        /\ UNCHANGED <<capable, calls, tornDown>>
    BY <1>4 DEF AnswerMade, Told
  <2>2. engines' \in Seq(Engine)
    BY <1>1, <2>1, EnginesTold
  <2>3. PICK n, w, ks : AnswerGiven(t.by, t, manager[t.by], n, w, ks)
    BY <1>4, AnswerMadeEffect
  <2>4. installed' \in Seq(Installation)
    BY <1>1, <2>3, InstallEffect DEF AnswerGiven
  <2>5. ManagersTyped
    BY <2>3 DEF Puts, ManagersTyped, AnswerGiven
  <2>6. PICK u : u = TaskOf("answerSent", t.by, t.peer, t.call, t.engine, t.sdp)
    OBVIOUS
  <2>7. PICK s : s = SignalTo(t.by, t.peer, "call-answer", t.call, t.engine)
    OBVIOUS
  <2>8. /\ u \in Task /\ AtMostOne(u.engine) /\ AtMostOne(u.sdp)
        /\ s \in Signal /\ AtMostOne(s.sdp)
    BY <1>1, <2>6, <2>7, TaskFields, SignalFields, SetsOfOne DEF Singles
  <2>9. tasks' \subseteq tasks \cup {u} /\ signals' \subseteq signals \cup {s}
    BY <2>3, <2>6, <2>7 DEF AnswerGiven
  <2>10. tasks' \subseteq Task /\ \A k \in tasks' : AtMostOne(k.engine) /\ AtMostOne(k.sdp)
    BY <2>8, <2>9, OneMoreTask
  <2>11. signals' \subseteq Signal /\ \A k \in signals' : AtMostOne(k.sdp)
    BY <1>1, <2>8, <2>9, OneMoreSignal
  <2>12. QED
    BY <2>1, <2>2, <2>4, <2>5, <2>10, <2>11, SameTyped, Assemble
<1>5. CASE SignalSent(t)
  <2>1. /\ tasks' \subseteq tasks
        /\ UNCHANGED <<capable, engines, signals, calls, installed, tornDown>>
        /\ \/ manager' = [manager EXCEPT ![t.by] = SetState(@, "connecting")]
           \/ manager' = [manager EXCEPT ![t.by] = SetState(@, "ended")]
    BY <1>5 DEF SignalSent
  <2>2. {"connecting", "ended"} \subseteq State
    BY DEF State
  <2>3. ManagersTyped
    BY <1>1, <2>1, <2>2, StatePut DEF Puts, ManagersTyped, StateSet
  <2>4. QED
    BY <2>1, <2>3, SameTyped, Assemble
<1>6. CASE HangupSent(t)
  <2>1. tasks' \subseteq tasks /\ Teardown(t.by) /\ signals' = signals
    BY <1>6 DEF HangupSent
  <2>2. QED
    BY <1>1, <2>1, TeardownTyped
<1>7. CASE Fails(t)
  <2>1. tasks' \subseteq tasks
        /\ UNCHANGED <<capable, manager, engines, signals, calls, installed, tornDown>>
    BY <1>7 DEF Fails
  <2>2. QED
    BY <2>1, SameTyped, Assemble
<1>8. QED
  BY <1>2, <1>3, <1>4, <1>5, <1>6, <1>7

LEMMA SignalTyped ==
  ASSUME TypeInv, NEW s \in signals, ReceiveOffer(s) \/ ReceiveAnswer(s) \/ ReceiveHangup(s)
  PROVE  TypeInv'
<1>1. /\ s \in Signal /\ s.from \in Device /\ s.to \in Device /\ s.call \in Number
      /\ s.sdp \in SUBSET Number /\ AtMostOne(s.sdp)
  BY SignalShape DEF TypeInv
<1>2. CASE ReceiveOffer(s) /\ Live(s.to)
  <2>1. PICK q : q = SignalTo(s.to, s.from, "call-hangup", s.call, {})
    OBVIOUS
  <2>2. /\ signals' \subseteq signals \cup {q}
        /\ UNCHANGED <<capable, manager, engines, tasks, calls, installed, tornDown>>
    BY <1>2, <2>1 DEF ReceiveOffer
  <2>3. q \in Signal /\ AtMostOne(q.sdp)
    BY <1>1, <2>1, SignalFields, SetsOfOne DEF Singles
  <2>4. signals' \subseteq Signal /\ \A k \in signals' : AtMostOne(k.sdp)
    BY <2>2, <2>3, OneMoreSignal
  <2>5. QED
    BY <2>2, <2>4, SameTyped, Assemble
<1>3. CASE ReceiveOffer(s) /\ ~Live(s.to)
  <2>1. /\ signals' \subseteq signals
        /\ manager' = [manager EXCEPT
             ![s.to].current = {[id |-> s.call, peer |-> s.from, state |-> "ringing-incoming",
                                 words |-> {}]},
             ![s.to].mediaSecret = {s.call}, ![s.to].remoteFingerprint = s.sdp,
             ![s.to].pendingOfferSdp = s.sdp]
        /\ UNCHANGED <<capable, engines, tasks, calls, installed, tornDown>>
    BY <1>3 DEF ReceiveOffer
  <2>2. ManagersTyped
    BY <1>1, <2>1, OfferPut DEF Puts, ManagersTyped, OfferTaken
  <2>3. QED
    BY <2>1, <2>2, SameTyped, Assemble
<1>4. CASE ReceiveAnswer(s)
  <2>1. /\ signals' \subseteq signals
        /\ UNCHANGED <<capable, engines, calls, installed, tornDown>>
        /\ \/ UNCHANGED <<manager, tasks>>
           \/ /\ manager' = [manager EXCEPT ![s.to].remoteFingerprint = s.sdp]
              /\ tasks' = tasks \cup {TaskOf("acceptAnswer", s.to, s.from, s.call, {e}, s.sdp) :
                                       e \in manager[s.to].engine}
    BY <1>4 DEF ReceiveAnswer, TaskOf
  <2>2. CASE UNCHANGED <<manager, tasks>>
    BY <2>1, <2>2, SameTyped, Assemble
  <2>3. CASE /\ manager' = [manager EXCEPT ![s.to].remoteFingerprint = s.sdp]
             /\ tasks' = tasks \cup {TaskOf("acceptAnswer", s.to, s.from, s.call, {e}, s.sdp) :
                                       e \in manager[s.to].engine}
    <3>1. ManagersTyped
      BY <1>1, <2>3, RemotePut DEF Puts, ManagersTyped
    <3>2. manager[s.to].engine \in SUBSET Number
      BY <1>1, ManagerFields DEF TypeInv
    <3>3. PICK S : S = {TaskOf("acceptAnswer", s.to, s.from, s.call, {e}, s.sdp) :
                         e \in manager[s.to].engine}
      OBVIOUS
    <3>4. ASSUME NEW u \in S PROVE u \in Task /\ AtMostOne(u.engine) /\ AtMostOne(u.sdp)
      <4>1. PICK e \in manager[s.to].engine :
              u = TaskOf("acceptAnswer", s.to, s.from, s.call, {e}, s.sdp)
        BY <3>3
      <4>2. u \in Task /\ u.engine = {e} /\ u.sdp = s.sdp
        BY <1>1, <3>2, <4>1, TaskFields
      <4>3. QED
        BY <1>1, <4>2, SetsOfOne DEF Singles
    <3>5. tasks' \subseteq tasks \cup S
      BY <2>3, <3>3
    <3>6. S \subseteq Task /\ \A u \in S : AtMostOne(u.engine) /\ AtMostOne(u.sdp)
      BY <3>4
    <3>7. tasks' \subseteq Task /\ \A k \in tasks' : AtMostOne(k.engine) /\ AtMostOne(k.sdp)
      BY <3>5, <3>6, TypesOfTasks
    <3>8. QED
      BY <2>1, <3>1, <3>7, SameTyped, Assemble
  <2>4. QED
    BY <2>1, <2>2, <2>3
<1>5. CASE ReceiveHangup(s)
  <2>1. /\ signals' \subseteq signals /\ tasks' = tasks
        /\ \/ Teardown(s.to)
           \/ UNCHANGED <<capable, manager, engines, calls, installed, tornDown>>
    BY <1>5 DEF ReceiveHangup
  <2>2. CASE Teardown(s.to)
    BY <1>1, <2>1, <2>2, TeardownTyped
  <2>3. CASE UNCHANGED <<capable, manager, engines, calls, installed, tornDown>>
    BY <2>1, <2>3, SameTyped, Assemble
  <2>4. QED
    BY <2>1, <2>2, <2>3
<1>6. QED
  BY <1>2, <1>3, <1>4, <1>5

LEMMA EngineTyped ==
  ASSUME TypeInv, NEW e \in DOMAIN engines, Connects(e) \/ Disconnects(e)
  PROVE  TypeInv'
<1>1. e \in 1 .. Len(engines) /\ engines[e].by \in Device
  <2>1. e \in 1 .. Len(engines)
    BY DEF TypeInv
  <2>2. QED
    BY <2>1, EngineFields
<1>2. CASE Connects(e)
  <2>1. /\ engines' = [engines EXCEPT ![e].connected = TRUE]
        /\ manager' = IF Current(engines[e].by, engines[e].call)
                      THEN [manager EXCEPT ![engines[e].by] = SetState(@, "connected")]
                      ELSE manager
        /\ UNCHANGED <<capable, tasks, signals, calls, installed, tornDown>>
    BY <1>2 DEF Connects
  <2>2. engines' \in Seq(Engine)
    BY <2>1, EngineConnected
  <2>3. "connected" \in State
    BY DEF State
  <2>4. ManagersTyped
    <3>1. CASE Current(engines[e].by, engines[e].call)
      <4>1. manager' = [manager EXCEPT ![engines[e].by] = SetState(@, "connected")]
        BY <2>1, <3>1
      <4>2. QED
        BY <1>1, <2>3, <4>1, StatePut DEF Puts, ManagersTyped, StateSet
    <3>2. CASE ~Current(engines[e].by, engines[e].call)
      BY <2>1, <3>2, SameTyped
    <3>3. QED
      BY <3>1, <3>2
  <2>5. QED
    BY <2>1, <2>2, <2>4, SameTyped, Assemble
<1>3. CASE Disconnects(e)
  <2>1. Teardown(engines[e].by) /\ tasks' = tasks /\ signals' = signals
    BY <1>3 DEF Disconnects
  <2>2. QED
    BY <1>1, <2>1, TeardownTyped
<1>4. QED
  BY <1>2, <1>3

LEMMA CallsTyped == TypeInv /\ [Next]_vars => TypeInv'
<1> SUFFICES ASSUME TypeInv, [Next]_vars PROVE TypeInv'
  OBVIOUS
<1>2. CASE UNCHANGED vars
  <2>1. UNCHANGED <<capable, manager, engines, tasks, signals, calls, installed, tornDown>>
    BY <1>2 DEF vars
  <2>2. QED
    BY <2>1, SameTyped, Assemble
<1>3. CASE Next
  BY <1>3, DeviceTyped, TaskTyped, SignalTyped, EngineTyped DEF Next
<1>4. QED
  BY <1>2, <1>3

LEMMA InitTyped == Init => TypeInv
<1> SUFFICES ASSUME Init PROVE TypeInv
  OBVIOUS
<1>2. PICK m : m = ManagerOf({}, {}, {}, {}, {}, {}, {})
  OBVIOUS
<1>3. /\ m \in Manager /\ m.current = {} /\ m.engine = {} /\ m.keys = {} /\ m.mediaSecret = {}
      /\ m.localFingerprint = {} /\ m.remoteFingerprint = {} /\ m.pendingOfferSdp = {}
  BY <1>2, OfFields
<1>4. Single(m)
  BY <1>3 DEF Single, AtMostOne
<1>5. manager = [d \in Device |-> m]
  BY <1>2 DEF Init, Idle, ManagerOf
<1>6. calls \in 0 .. MaxCalls
  BY CallBounds DEF Init
<1>7. QED
  BY <1>3, <1>4, <1>5, <1>6 DEF Init, TypeInv

\* The fields of every CallManager, engine, signal and handler: an optional one
\* holds one value, whatever arrives in whatever order (callManager.ts:74-86).
THEOREM CallsWellTyped == Spec => []TypeOK
<1>1. TypeInv => TypeOK
  <2> SUFFICES ASSUME TypeInv PROVE TypeOK
    OBVIOUS
  <2>2. ASSUME NEW S, AtMostOne(S) PROVE Cardinality(S) <= 1
    <3>1. CASE S = {}
      BY <3>1, FS_EmptySet
    <3>2. CASE S # {}
      <4>1. PICK x \in S : TRUE
        BY <3>2
      <4>2. S = {x}
        BY <2>2, <4>1 DEF AtMostOne
      <4>3. QED
        BY <4>2, FS_Singleton
    <3>3. QED
      BY <3>1, <3>2
  <2>3. ASSUME NEW d \in Device, NEW f \in DOMAIN manager[d] PROVE AtMostOne(manager[d][f])
    <3>1. PICK m \in Manager : m = manager[d]
      BY DEF TypeInv
    <3>2. f \in {"current", "engine", "keys", "mediaSecret", "localFingerprint",
                 "remoteFingerprint", "pendingOfferSdp"}
      BY <3>1 DEF Manager
    <3>3. Single(m)
      BY <3>1 DEF TypeInv
    <3>4. AtMostOne(m[f])
      BY <3>2, <3>3 DEF Single
    <3>5. QED
      BY <3>1, <3>4
  <2>4. ASSUME NEW i \in DOMAIN installed PROVE installed[i].keys \subseteq Keys
    <3>1. installed[i] \in Installation
      BY DEF TypeInv
    <3>2. QED
      BY <3>1 DEF Installation
  <2>5. QED
    BY <2>2, <2>3, <2>4 DEF TypeInv, TypeOK
<1>2. QED
  BY <1>1, InitTyped, CallsTyped, PTL DEF Spec

-----------------------------------------------------------------------------
(* Which engine is whose.                                                  *)

Eng == 1 .. Len(engines)

\* The first engine made for a call belongs to who placed it, the others to
\* who answered it.
Placed(e) == e \in Eng /\ \A f \in Eng : f < e => engines[f].call # engines[e].call

Places(d, id, e)  == Placed(e) /\ engines[e].by = d /\ engines[e].call = id
Answers(d, id, e) == e \in Eng /\ ~Placed(e) /\ engines[e].by = d /\ engines[e].call = id

SignalInv(s) ==
  /\ s.kind = "call-offer" =>
       /\ s.to # s.from /\ \E e \in Eng : s.sdp = {e} /\ Places(s.from, s.call, e)
  /\ s.kind = "call-answer" =>
       /\ \E e \in Eng : Places(s.to, s.call, e)
       /\ \E f \in Eng : s.sdp = {f} /\ Answers(s.from, s.call, f)

TaskInv(t) ==
  /\ t.awaits = "createOffer" =>
       /\ t.peer # t.by /\ \E e \in Eng : t.engine = {e} /\ Places(t.by, t.call, e)
  /\ t.awaits = "acceptAnswer" =>
       /\ \E e \in Eng : t.engine = {e} /\ Places(t.by, t.call, e)
       /\ \E f \in Eng : t.sdp = {f} /\ Answers(t.peer, t.call, f)
  /\ t.awaits = "createAnswer" =>
       /\ \E f \in Eng : t.engine = {f} /\ Answers(t.by, t.call, f)
       /\ \E e \in Eng : t.sdp = {e} /\ Places(t.peer, t.call, e)
  /\ t.awaits = "refusalSent" => t.by \notin capable

PlacedBy(d, c) ==
  /\ c.state # "ringing-incoming"
  /\ \E e \in Eng : Places(d, c.id, e) /\ manager[d].engine \subseteq {e}
TakenBy(d, c) ==
  /\ \E e \in Eng : Places(c.peer, c.id, e) /\ manager[d].pendingOfferSdp \subseteq {e}
  /\ \A f \in manager[d].engine : Answers(d, c.id, f)

ManagerInv(d) ==
  /\ \A c \in manager[d].current : c.peer # d /\ (PlacedBy(d, c) \/ TakenBy(d, c))
  /\ ~Live(d) => manager[d].engine = {}
  /\ manager[d].engine # {} => d \in capable
  /\ \A e \in Eng : Placed(e) /\ engines[e].by = d /\ engines[e].open => manager[d].engine = {e}

CallsInv ==
  /\ \A e \in Eng : engines[e].call \in 1 .. calls
  /\ \A s \in signals : SignalInv(s)
  /\ \A t \in tasks : TaskInv(t)
  /\ \A d \in Device : ManagerInv(d)

EnginesGrow ==
  /\ engines' \in Seq(Engine) /\ Len(engines) <= Len(engines')
  /\ \A e \in Eng :
       /\ engines'[e].by = engines[e].by /\ engines'[e].call = engines[e].call
       /\ engines'[e].open => engines[e].open
       /\ engines[e].remote # {} => engines'[e].remote # {}

LEMMA TeardownGrows ==
  ASSUME TypeInv, NEW d \in Device, Teardown(d)
  PROVE  EnginesGrow /\ Len(engines') = Len(engines)
<1>1. /\ engines' \in Seq(Engine) /\ Len(engines') = Len(engines)
      /\ \A e \in 1 .. Len(engines) :
           /\ engines'[e].by = engines[e].by /\ engines'[e].call = engines[e].call
           /\ engines'[e].remote = engines[e].remote
           /\ engines'[e].open = (engines[e].open /\ e \notin manager[d].engine)
  BY TeardownEffect
<1>2. Len(engines) \in Nat
  BY DEF TypeInv
<1>3. \A e \in 1 .. Len(engines) : engines'[e].open => engines[e].open
  BY <1>1
<1>4. QED
  BY <1>1, <1>2, <1>3 DEF EnginesGrow, Eng

LEMMA TellingGrows ==
  ASSUME TypeInv, NEW S, NEW v \in SUBSET Number, v # {}, engines' = Told(S, v)
  PROVE  EnginesGrow /\ Len(engines') = Len(engines)
<1>1. /\ engines' \in Seq(Engine) /\ Len(engines') = Len(engines)
      /\ \A e \in 1 .. Len(engines) :
           /\ engines'[e].by = engines[e].by /\ engines'[e].call = engines[e].call
           /\ engines'[e].open = engines[e].open
           /\ engines'[e].remote = IF e \in S THEN v ELSE engines[e].remote
  BY EnginesTold
<1>2. Len(engines) \in Nat
  BY DEF TypeInv
<1>3. QED
  BY <1>1, <1>2 DEF EnginesGrow, Eng

LEMMA MakingGrows ==
  ASSUME TypeInv, NEW d \in Device, NEW id \in Number, engines' = NewEngine(d, id)
  PROVE  EnginesGrow /\ Len(engines') = Len(engines) + 1
<1>1. /\ engines' \in Seq(Engine) /\ Len(engines') = Len(engines) + 1
      /\ \A e \in 1 .. Len(engines) : engines'[e] = engines[e]
  BY EngineMade
<1>2. Len(engines) \in Nat
  BY DEF TypeInv
<1>3. QED
  BY <1>1, <1>2 DEF EnginesGrow, Eng

LEMMA ConnectingGrows ==
  ASSUME TypeInv, NEW x \in DOMAIN engines, engines' = [engines EXCEPT ![x].connected = TRUE]
  PROVE  EnginesGrow /\ Len(engines') = Len(engines)
<1>1. /\ engines' \in Seq(Engine) /\ Len(engines') = Len(engines)
      /\ \A e \in 1 .. Len(engines) :
           /\ engines'[e].by = engines[e].by /\ engines'[e].call = engines[e].call
           /\ engines'[e].remote = engines[e].remote /\ engines'[e].open = engines[e].open
  BY EngineConnected
<1>2. Len(engines) \in Nat
  BY DEF TypeInv
<1>3. QED
  BY <1>1, <1>2 DEF EnginesGrow, Eng

LEMMA KeepingGrows ==
  ASSUME TypeInv, engines' = engines
  PROVE  EnginesGrow /\ Len(engines') = Len(engines)
BY DEF TypeInv, EnginesGrow

\* Who placed and who answered with an engine never changes.
LEMMA EnginesStand ==
  ASSUME TypeInv, EnginesGrow
  PROVE  /\ \A e \in Eng : e \in Eng' /\ (Placed(e)' <=> Placed(e))
         /\ \A d, id, e : Places(d, id, e) => Places(d, id, e)'
         /\ \A d, id, e : Answers(d, id, e) => Answers(d, id, e)'
         /\ \A d, id : \A e \in Eng : /\ Places(d, id, e)' => Places(d, id, e)
                                     /\ Answers(d, id, e)' => Answers(d, id, e)
<1>1. /\ Len(engines) \in Nat /\ Len(engines') \in Nat /\ Len(engines) <= Len(engines')
      /\ \A e \in 1 .. Len(engines) :
           engines'[e].by = engines[e].by /\ engines'[e].call = engines[e].call
  BY DEF TypeInv, EnginesGrow, Eng
<1>2. ASSUME NEW e \in Eng PROVE e \in Eng' /\ (Placed(e)' <=> Placed(e))
  <2>1. e \in Eng' /\ \A f \in Eng' : f < e => f \in Eng
    BY <1>1 DEF Eng
  <2>2. \A f \in Eng : f \in Eng'
    BY <1>1 DEF Eng
  <2>3. \A f \in Eng : engines'[f].call = engines[f].call
    BY <1>1 DEF Eng
  <2>4. QED
    BY <2>1, <2>2, <2>3 DEF Placed
<1>3. \A e \in Eng : engines'[e].by = engines[e].by /\ engines'[e].call = engines[e].call
  BY <1>1 DEF Eng
<1>4. QED
  BY <1>2, <1>3 DEF Places, Answers, Placed

LEMMA PlacedOnce ==
  ASSUME TypeInv, NEW d, NEW x, NEW id, NEW e, NEW f, Places(d, id, e), Places(x, id, f)
  PROVE  e = f /\ d = x
<1>1. e \in Nat /\ f \in Nat
  BY DEF Places, Placed, Eng, TypeInv
<1>2. ~(e < f) /\ ~(f < e)
  BY DEF Places, Placed
<1>3. QED
  BY <1>1, <1>2 DEF Places

LEMMA NotBoth ==
  ASSUME NEW d, NEW x, NEW id, NEW i, NEW e, Places(d, id, e), Answers(x, i, e)
  PROVE  FALSE
BY DEF Places, Answers

LEMMA SignalsStand ==
  ASSUME TypeInv, EnginesGrow, NEW s, SignalInv(s)
  PROVE  SignalInv(s)'
BY EnginesStand DEF SignalInv

LEMMA TasksStand ==
  ASSUME TypeInv, EnginesGrow, capable' = capable, NEW t, TaskInv(t)
  PROVE  TaskInv(t)'
BY EnginesStand DEF TaskInv

\* A manager that keeps its call, and its engine unless that is closed.
LEMMA ManagerStands ==
  ASSUME TypeInv, EnginesGrow, capable' = capable, NEW d \in Device, ManagerInv(d),
         Keeps(manager[d], manager'[d]),
         ~Live(d)' => manager'[d].engine = {},
         manager'[d].engine = manager[d].engine \/ \A e \in manager[d].engine : ~engines'[e].open,
         \A e \in Eng' : e \in Eng \/ engines'[e].by # d
  PROVE  ManagerInv(d)'
<1>1. ASSUME NEW c \in manager'[d].current
      PROVE  c.peer # d /\ (PlacedBy(d, c)' \/ TakenBy(d, c)')
  <2>1. PICK b \in manager[d].current : b.id = c.id /\ b.peer = c.peer
    BY DEF Keeps, SameCalls
  <2>2. PICK a \in manager[d].current :
          a.id = c.id /\ (c.state = a.state \/ c.state # "ringing-incoming")
    BY DEF Keeps
  <2>3. a = b
    BY DEF TypeInv, Single, AtMostOne
  <2>4. b.peer # d /\ (PlacedBy(d, b) \/ TakenBy(d, b))
    BY DEF ManagerInv
  <2>5. CASE PlacedBy(d, b)
    <3>1. PICK e \in Eng : Places(d, b.id, e) /\ manager[d].engine \subseteq {e}
      BY <2>5 DEF PlacedBy
    <3>2. e \in Eng' /\ Places(d, c.id, e)' /\ manager'[d].engine \subseteq {e}
      BY <2>1, <3>1, EnginesStand DEF Keeps
    <3>3. c.state # "ringing-incoming"
      BY <2>2, <2>3, <2>5 DEF PlacedBy
    <3>4. QED
      BY <2>1, <2>4, <3>2, <3>3 DEF PlacedBy
  <2>6. CASE TakenBy(d, b)
    <3>1. PICK e \in Eng : Places(b.peer, b.id, e) /\ manager[d].pendingOfferSdp \subseteq {e}
      BY <2>6 DEF TakenBy
    <3>2. e \in Eng' /\ Places(c.peer, c.id, e)' /\ manager'[d].pendingOfferSdp \subseteq {e}
      BY <2>1, <3>1, EnginesStand DEF Keeps
    <3>3. \A f \in manager'[d].engine : Answers(d, c.id, f)'
      BY <2>1, <2>6, EnginesStand DEF Keeps, TakenBy
    <3>4. QED
      BY <2>1, <2>4, <3>2, <3>3 DEF TakenBy
  <2>7. QED
    BY <2>1, <2>4, <2>5, <2>6
<1>2. manager'[d].engine # {} => d \in capable'
  BY DEF ManagerInv, Keeps
<1>3. ASSUME NEW e \in Eng', Placed(e)', engines'[e].by = d, engines'[e].open
      PROVE  manager'[d].engine = {e}
  <2>1. e \in Eng
    BY <1>3
  <2>2. Placed(e) /\ engines[e].by = d /\ engines[e].open
    BY <1>3, <2>1, EnginesStand DEF EnginesGrow
  <2>3. manager[d].engine = {e}
    BY <2>1, <2>2 DEF ManagerInv
  <2>4. QED
    BY <1>3, <2>3
<1>4. QED
  BY <1>1, <1>2, <1>3 DEF ManagerInv

-----------------------------------------------------------------------------
(* Every engine, signal, task and manager agrees on who calls whom.        *)

\* The steps that make no engine and begin no call.
LEMMA CallsKept ==
  ASSUME TypeInv, CallsInv, EnginesGrow, Len(engines') = Len(engines),
         capable' = capable, calls' = calls,
         \A x \in Device :
           /\ Keeps(manager[x], manager'[x])
           /\ ~Live(x)' => manager'[x].engine = {}
           /\ \/ manager'[x].engine = manager[x].engine
              \/ \A e \in manager[x].engine : ~engines'[e].open,
         \A s \in signals' : s \in signals \/ SignalInv(s)',
         \A t \in tasks' : t \in tasks \/ TaskInv(t)'
  PROVE  CallsInv'
<1>1. ASSUME NEW e \in Eng' PROVE e \in Eng /\ engines'[e].call \in 1 .. calls'
  BY <1>1 DEF Eng, CallsInv, EnginesGrow
<1>2. \A s \in signals' : SignalInv(s)'
  BY SignalsStand DEF CallsInv
<1>3. \A t \in tasks' : TaskInv(t)'
  BY TasksStand DEF CallsInv
<1>4. ASSUME NEW d \in Device PROVE ManagerInv(d)'
  BY <1>1, ManagerStands DEF CallsInv
<1>5. QED
  BY <1>1, <1>2, <1>3, <1>4 DEF CallsInv

\* Only d's manager moves, and it keeps its call.
LEMMA OneKeeps ==
  ASSUME TypeInv, CallsInv, NEW d \in Device, NEW n, Puts(d, n), Keeps(manager[d], n),
         ~(\E c \in n.current : c.state # "ended") => n.engine = {},
         n.engine = manager[d].engine \/ \A e \in manager[d].engine : ~engines'[e].open
  PROVE  \A x \in Device :
           /\ Keeps(manager[x], manager'[x])
           /\ ~Live(x)' => manager'[x].engine = {}
           /\ \/ manager'[x].engine = manager[x].engine
              \/ \A e \in manager[x].engine : ~engines'[e].open
<1>1. SUFFICES ASSUME NEW x \in Device
      PROVE  /\ Keeps(manager[x], manager'[x])
             /\ ~Live(x)' => manager'[x].engine = {}
             /\ \/ manager'[x].engine = manager[x].engine
                \/ \A e \in manager[x].engine : ~engines'[e].open
  OBVIOUS
<1>2. CASE x = d
  <2>1. manager'[x] = n
    BY <1>2 DEF Puts
  <2>2. QED
    BY <1>2, <2>1 DEF Live
<1>3. CASE x # d
  <2>1. manager'[x] = manager[x]
    BY <1>3 DEF Puts
  <2>2. ~Live(x)' => ~Live(x)
    BY <2>1 DEF Live
  <2>3. ~Live(x) => manager[x].engine = {}
    BY DEF CallsInv, ManagerInv
  <2>4. QED
    BY <2>1, <2>2, <2>3, KeepsItself
<1>4. QED
  BY <1>2, <1>3

LEMMA NoneMoves ==
  ASSUME TypeInv, CallsInv, manager' = manager
  PROVE  \A x \in Device :
           /\ Keeps(manager[x], manager'[x])
           /\ ~Live(x)' => manager'[x].engine = {}
           /\ \/ manager'[x].engine = manager[x].engine
              \/ \A e \in manager[x].engine : ~engines'[e].open
<1>1. \A x \in Device : (~Live(x)' => ~Live(x)) /\ (~Live(x) => manager[x].engine = {})
  BY DEF CallsInv, ManagerInv, Live
<1>2. QED
  BY <1>1, KeepsItself

\* The state of d's call changes only to what is not ended, or not at all.
LEMMA StillEngaged ==
  ASSUME TypeInv, CallsInv, NEW d \in Device, NEW n, SameCalls(manager[d], n),
         n.engine = manager[d].engine,
         \/ \A c \in n.current : c.state # "ended"
         \/ \A c \in n.current : \E b \in manager[d].current : b.id = c.id /\ b.state = c.state
  PROVE  ~(\E c \in n.current : c.state # "ended") => n.engine = {}
<1>1. SUFFICES ASSUME \A c \in n.current : c.state = "ended" PROVE n.engine = {}
  OBVIOUS
<1>2. ASSUME NEW b \in manager[d].current PROVE b.state = "ended"
  <2>1. PICK c \in n.current : b.id = c.id
    BY DEF SameCalls
  <2>2. PICK a \in manager[d].current : a.id = c.id /\ a.state = c.state
    BY <1>1, <2>1
  <2>3. a = b
    BY DEF TypeInv, Single, AtMostOne
  <2>4. QED
    BY <1>1, <2>1, <2>2, <2>3
<1>3. ~Live(d)
  BY <1>2 DEF Live
<1>4. QED
  BY <1>3 DEF CallsInv, ManagerInv

LEMMA TeardownKeepsCalls ==
  ASSUME TypeInv, CallsInv, NEW d \in Device, Teardown(d),
         tasks' \subseteq tasks, signals' \subseteq signals
  PROVE  CallsInv'
<1>1. PICK n : Puts(d, n) /\ Keeps(manager[d], n) /\ n.engine = {}
  BY TeardownEffect DEF TornDown
<1>2. /\ \A e \in 1 .. Len(engines) :
           engines'[e].open = (engines[e].open /\ e \notin manager[d].engine)
      /\ UNCHANGED <<capable, calls>>
  BY TeardownEffect
<1>3. \A e \in manager[d].engine : e \in 1 .. Len(engines)
  BY DEF CallsInv, ManagerInv, Live, PlacedBy, TakenBy, Answers, Eng
<1>4. \A e \in manager[d].engine : ~engines'[e].open
  BY <1>2, <1>3
<1>5. EnginesGrow /\ Len(engines') = Len(engines)
  BY TeardownGrows
<1>6. \A x \in Device :
           /\ Keeps(manager[x], manager'[x])
           /\ ~Live(x)' => manager'[x].engine = {}
           /\ \/ manager'[x].engine = manager[x].engine
              \/ \A e \in manager[x].engine : ~engines'[e].open
  BY <1>1, <1>4, OneKeeps
<1>7. QED
  BY <1>2, <1>5, <1>6, CallsKept

\* Only the tasks and signals change.
LEMMA QuietKeepsCalls ==
  ASSUME TypeInv, CallsInv,
         capable' = capable, manager' = manager, engines' = engines, calls' = calls,
         \A s \in signals' : s \in signals \/ s.kind = "call-hangup",
         \A t \in tasks' :
           \/ t \in tasks \/ t.awaits = "hangupSent"
           \/ t.awaits = "refusalSent" /\ t.by \notin capable
  PROVE  CallsInv'
<1>1. EnginesGrow /\ Len(engines') = Len(engines)
  BY KeepingGrows
<1>2. \A x \in Device :
           /\ Keeps(manager[x], manager'[x])
           /\ ~Live(x)' => manager'[x].engine = {}
           /\ \/ manager'[x].engine = manager[x].engine
              \/ \A e \in manager[x].engine : ~engines'[e].open
  BY NoneMoves
<1>3. \A s \in signals' : s \in signals \/ SignalInv(s)'
  BY DEF SignalInv
<1>4. \A t \in tasks' : t \in tasks \/ TaskInv(t)'
  BY DEF TaskInv
<1>5. QED
  BY <1>1, <1>2, <1>3, <1>4, CallsKept

-----------------------------------------------------------------------------
(* The device's own methods.                                               *)

LEMMA PlaceCallKeepsCalls ==
  ASSUME TypeInv, CallsInv, NEW d \in Device, NEW peer \in Device \ {d}, PlaceCall(d, peer)
  PROVE  CallsInv'
<1>1. PICK e : e = Len(engines) + 1
  OBVIOUS
<1>2. PICK id : id = calls + 1
  OBVIOUS
<1>3. /\ e \in Number /\ id \in Number /\ calls \in Nat /\ Len(engines) \in Nat
  BY <1>1, <1>2, CallBounds DEF TypeInv, Number
<1>4. PICK u : u = TaskOf("createOffer", d, peer, id, {e}, {})
  OBVIOUS
<1>5. /\ u \in Task /\ u.awaits = "createOffer" /\ u.by = d /\ u.peer = peer /\ u.call = id
      /\ u.engine = {e}
  BY <1>3, <1>4, TaskFields
<1>6. /\ ~Live(d) /\ d \in capable
      /\ calls' = id /\ engines' = NewEngine(d, id) /\ tasks' = tasks \cup {u}
      /\ UNCHANGED <<capable, signals>>
  BY <1>1, <1>2, <1>4 DEF PlaceCall, TaskOf
<1>7. PICK n, c :
           /\ Puts(d, n) /\ n.current = {c} /\ n.engine = {e}
           /\ c.id = id /\ c.peer = peer /\ c.state = "ringing-outgoing"
  <2>1. PICK n, c : CallPlaced(d, peer, n, c)
    BY PlaceCallEffect
  <2>2. QED
    BY <1>1, <1>2, <2>1 DEF CallPlaced
<1>8. /\ EnginesGrow /\ Len(engines') = e
      /\ \A f \in Eng : engines'[f] = engines[f]
      /\ engines'[e].by = d /\ engines'[e].call = id
  BY <1>1, <1>3, <1>6, EngineMade, MakingGrows DEF Eng
<1>9. Eng' = Eng \cup {e} /\ e \in Eng'
  BY <1>1, <1>3, <1>8 DEF Eng
<1>10. \A f \in Eng : engines[f].call \in 1 .. calls
  BY DEF CallsInv
<1>11. \A f \in Eng' : engines'[f].call \in 1 .. calls'
  <2>1. calls' = id /\ id = calls + 1 /\ id \in 1 .. calls'
    BY <1>2, <1>3, <1>6
  <2>2. ASSUME NEW f \in Eng PROVE engines'[f].call \in 1 .. calls'
    <3>1. engines'[f].call = engines[f].call /\ engines[f].call \in 1 .. calls
      BY <1>8, <1>10
    <3>2. QED
      BY <1>3, <2>1, <3>1
  <2>3. QED
    BY <1>8, <1>9, <2>1, <2>2
<1>12. Places(d, id, e)'
  <2>1. \A f \in Eng' : f < e => engines'[f].call # id
    BY <1>2, <1>3, <1>8, <1>9, <1>10
  <2>2. QED
    BY <1>8, <1>9, <2>1 DEF Places, Placed
<1>13. \A t \in tasks' : TaskInv(t)'
  <2>1. TaskInv(u)'
    BY <1>5, <1>9, <1>12 DEF TaskInv
  <2>2. QED
    BY <1>6, <1>8, <2>1, TasksStand DEF CallsInv
<1>14. \A s \in signals' : SignalInv(s)'
  BY <1>6, <1>8, SignalsStand DEF CallsInv
<1>15. ManagerInv(d)'
  <2>1. manager'[d] = n
    BY <1>7 DEF Puts
  <2>2. PlacedBy(d, c)'
    BY <1>7, <1>9, <1>12, <2>1 DEF PlacedBy
  <2>3. Live(d)'
    BY <1>7, <2>1 DEF Live
  <2>4. ASSUME NEW f \in Eng', Placed(f)', engines'[f].by = d, engines'[f].open
        PROVE  manager'[d].engine = {f}
    <3>1. CASE f = e
      BY <1>7, <2>1, <3>1
    <3>2. CASE f \in Eng
      <4>1. Placed(f) /\ engines[f].by = d /\ engines[f].open
        BY <1>8, <2>4, <3>2, EnginesStand
      <4>2. manager[d].engine = {f} /\ manager[d].engine = {}
        BY <1>6, <3>2, <4>1 DEF CallsInv, ManagerInv
      <4>3. QED
        BY <4>2
    <3>3. QED
      BY <1>9, <3>1, <3>2
  <2>5. QED
    BY <1>6, <1>7, <2>1, <2>2, <2>3, <2>4 DEF ManagerInv
<1>16. ASSUME NEW x \in Device, x # d PROVE ManagerInv(x)'
  <2>1. manager'[x] = manager[x]
    BY <1>7, <1>16 DEF Puts
  <2>2. ~Live(x)' => manager'[x].engine = {}
    BY <2>1 DEF CallsInv, ManagerInv, Live
  <2>3. \A f \in Eng' : f \in Eng \/ engines'[f].by # x
    BY <1>8, <1>9, <1>16
  <2>4. Keeps(manager[x], manager'[x]) /\ ManagerInv(x)
    BY <2>1, KeepsItself DEF CallsInv
  <2>5. QED
    BY <1>6, <1>8, <2>1, <2>2, <2>3, <2>4, ManagerStands
<1>17. QED
  BY <1>11, <1>13, <1>14, <1>15, <1>16 DEF CallsInv

LEMMA AnswerCallKeepsCalls ==
  ASSUME TypeInv, CallsInv, NEW d \in Device, AnswerCall(d)
  PROVE  CallsInv'
<1>1. PICK c \in manager[d].current :
        /\ c.state = "ringing-incoming" /\ manager[d].pendingOfferSdp # {} /\ d \in capable
        /\ engines' = NewEngine(d, c.id)
        /\ manager' = [manager EXCEPT ![d].engine = {Len(engines) + 1}]
        /\ tasks' = tasks \cup {TaskOf("createAnswer", d, c.peer, c.id, {Len(engines) + 1},
                                       manager[d].pendingOfferSdp)}
        /\ UNCHANGED <<capable, signals, calls>>
  BY DEF AnswerCall, Ringing, TaskOf
<1>2. PICK e : e = Len(engines) + 1
  OBVIOUS
<1>3. e \in Number /\ Len(engines) \in Nat
  BY <1>2 DEF TypeInv, Number
<1>4. manager[d] \in Manager /\ Single(manager[d])
  BY DEF TypeInv
<1>5. PICK p \in SUBSET Number : p = manager[d].pendingOfferSdp
  BY <1>4, ManagerFields
<1>6. c \in Call /\ c.id \in Number /\ c.peer \in Device
  BY <1>4, ManagerFields, CallFields
<1>7. PICK u : u = TaskOf("createAnswer", d, c.peer, c.id, {e}, p)
  OBVIOUS
<1>8. /\ u \in Task /\ u.awaits = "createAnswer" /\ u.by = d /\ u.peer = c.peer
      /\ u.call = c.id /\ u.engine = {e} /\ u.sdp = p
  BY <1>3, <1>6, <1>7, TaskFields
<1>9. tasks' = tasks \cup {u}
  BY <1>1, <1>2, <1>5, <1>7
<1>10. PICK n : /\ Puts(d, n) /\ n.current = manager[d].current /\ n.engine = {e}
                /\ n.pendingOfferSdp = manager[d].pendingOfferSdp
  <2>1. PICK n : EngineTaken(d, e, n)
    BY <1>1, <1>2, <1>3, EnginePut
  <2>2. QED
    BY <2>1 DEF EngineTaken
<1>11. /\ EnginesGrow /\ Len(engines') = e
       /\ \A f \in Eng : engines'[f] = engines[f]
       /\ engines'[e].by = d /\ engines'[e].call = c.id
  BY <1>1, <1>2, <1>3, <1>6, EngineMade, MakingGrows DEF Eng
<1>12. Eng' = Eng \cup {e} /\ e \in Eng' /\ e \notin Eng
  BY <1>2, <1>3, <1>11 DEF Eng
<1>13. c.peer # d /\ TakenBy(d, c)
  BY <1>1 DEF CallsInv, ManagerInv, PlacedBy
<1>14. PICK a \in Eng : Places(c.peer, c.id, a) /\ p \subseteq {a}
  BY <1>5, <1>13 DEF TakenBy
<1>15. a < e /\ engines[a].call = c.id /\ c.id \in 1 .. calls /\ p = {a}
  <2>1. a < e
    BY <1>2, <1>3 DEF Eng
  <2>2. engines[a].call = c.id
    BY <1>14 DEF Places
  <2>3. c.id \in 1 .. calls
    BY <2>2 DEF CallsInv
  <2>4. QED
    BY <1>1, <1>5, <1>14, <2>1, <2>2, <2>3
<1>16. Answers(d, c.id, e)' /\ ~Placed(e)'
  BY <1>11, <1>12, <1>15 DEF Answers, Placed
<1>17. \A f \in Eng' : engines'[f].call \in 1 .. calls'
  BY <1>1, <1>11, <1>12, <1>15 DEF CallsInv
<1>18. Places(c.peer, c.id, a)' /\ a \in Eng'
  BY <1>11, <1>12, <1>14, EnginesStand
<1>19. \A t \in tasks' : TaskInv(t)'
  <2>1. TaskInv(u)'
    BY <1>8, <1>12, <1>15, <1>16, <1>18 DEF TaskInv
  <2>2. QED
    BY <1>1, <1>9, <1>11, <2>1, TasksStand DEF CallsInv
<1>20. \A s \in signals' : SignalInv(s)'
  BY <1>1, <1>11, SignalsStand DEF CallsInv
<1>21. ManagerInv(d)'
  <2>1. manager'[d] = n
    BY <1>10 DEF Puts
  <2>2. \A b \in n.current : b = c
    BY <1>4, <1>10 DEF Single, AtMostOne
  <2>3. TakenBy(d, c)'
    BY <1>5, <1>10, <1>14, <1>16, <1>18, <2>1 DEF TakenBy
  <2>4. Live(d)'
    BY <1>1, <1>10, <2>1 DEF Live
  <2>5. ASSUME NEW f \in Eng', Placed(f)', engines'[f].by = d, engines'[f].open
        PROVE  manager'[d].engine = {f}
    <3>1. f \in Eng
      BY <1>12, <1>16, <2>5
    <3>2. Placed(f) /\ engines[f].by = d /\ engines[f].open
      BY <1>11, <2>5, <3>1, EnginesStand
    <3>3. manager[d].engine = {f}
      BY <3>1, <3>2 DEF CallsInv, ManagerInv
    <3>4. ~Placed(f)
      BY <1>13, <3>3 DEF TakenBy, Answers
    <3>5. QED
      BY <3>2, <3>4
  <2>6. QED
    BY <1>1, <1>10, <1>13, <2>1, <2>2, <2>3, <2>4, <2>5 DEF ManagerInv
<1>22. ASSUME NEW x \in Device, x # d PROVE ManagerInv(x)'
  <2>1. manager'[x] = manager[x]
    BY <1>10, <1>22 DEF Puts
  <2>2. ~Live(x)' => manager'[x].engine = {}
    BY <2>1 DEF CallsInv, ManagerInv, Live
  <2>3. \A f \in Eng' : f \in Eng \/ engines'[f].by # x
    BY <1>11, <1>12, <1>22
  <2>4. Keeps(manager[x], manager'[x]) /\ ManagerInv(x)
    BY <2>1, KeepsItself DEF CallsInv
  <2>5. QED
    BY <1>1, <1>11, <2>1, <2>2, <2>3, <2>4, ManagerStands
<1>23. QED
  BY <1>17, <1>19, <1>20, <1>21, <1>22 DEF CallsInv

LEMMA DeviceKeepsCalls ==
  ASSUME TypeInv, CallsInv, NEW d \in Device,
         \/ \E peer \in Device \ {d} : PlaceCall(d, peer)
         \/ AnswerCall(d) \/ RefuseCall(d) \/ HangUp(d)
  PROVE  CallsInv'
<1>1. CASE RefuseCall(d)
  <2>1. PICK c \in manager[d].current :
          /\ d \notin capable
          /\ signals' = signals \cup {SignalTo(d, c.peer, "call-hangup", c.id, {})}
          /\ tasks' = tasks \cup {TaskOf("refusalSent", d, c.peer, c.id, {}, {})}
          /\ UNCHANGED <<capable, manager, engines, calls, installed, tornDown>>
    BY <1>1 DEF RefuseCall, TaskOf
  <2>2. QED
    BY <2>1, QuietKeepsCalls DEF SignalTo, TaskOf
<1>2. CASE HangUp(d)
  <2>1. PICK c \in manager[d].current :
          IF c.state = "ended"
          THEN Teardown(d) /\ UNCHANGED <<tasks, signals>>
          ELSE /\ signals' = signals \cup {SignalTo(d, c.peer, "call-hangup", c.id, {})}
               /\ tasks' = tasks \cup {TaskOf("hangupSent", d, c.peer, c.id, {}, {})}
               /\ UNCHANGED <<capable, manager, engines, calls, installed, tornDown>>
    BY <1>2 DEF HangUp, TaskOf
  <2>2. CASE c.state = "ended"
    BY <2>1, <2>2, TeardownKeepsCalls
  <2>3. CASE c.state # "ended"
    BY <2>1, <2>3, QuietKeepsCalls DEF SignalTo, TaskOf
  <2>4. QED
    BY <2>2, <2>3
<1>3. QED
  BY <1>1, <1>2, PlaceCallKeepsCalls, AnswerCallKeepsCalls

-----------------------------------------------------------------------------
(* What resumes and what arrives.                                          *)

LEMMA TaskKeepsCalls ==
  ASSUME TypeInv, CallsInv, NEW t \in tasks,
         \/ OfferMade(t) \/ AnswerAccepted(t) \/ AnswerMade(t)
         \/ SignalSent(t) \/ HangupSent(t) \/ Fails(t)
  PROVE  CallsInv'
<1>1. /\ t \in Task /\ t.by \in Device /\ t.peer \in Device /\ t.call \in Number
      /\ t.engine \in SUBSET Number /\ t.sdp \in SUBSET Number
      /\ AtMostOne(t.engine) /\ AtMostOne(t.sdp) /\ TaskInv(t)
  BY TaskShape DEF TypeInv, CallsInv
<1>2. CASE OfferMade(t)
  <2>1. PICK s : s = SignalTo(t.by, t.peer, "call-offer", t.call, t.engine)
    OBVIOUS
  <2>2. /\ s \in Signal /\ s.kind = "call-offer" /\ s.from = t.by /\ s.to = t.peer
        /\ s.call = t.call /\ s.sdp = t.engine
    BY <1>1, <2>1, SignalFields
  <2>3. /\ t.awaits = "createOffer" /\ tasks' \subseteq tasks /\ signals' = signals \cup {s}
        /\ manager' = [manager EXCEPT ![t.by].localFingerprint = t.engine]
        /\ UNCHANGED <<capable, engines, calls>>
    BY <1>2, <2>1 DEF OfferMade
  <2>4. PICK n : /\ Puts(t.by, n)
                 /\ SameBut(manager[t.by], n, t.engine, manager[t.by].remoteFingerprint)
    BY <1>1, <2>3, LocalPut
  <2>5. n.current = manager[t.by].current /\ n.engine = manager[t.by].engine
        /\ n.pendingOfferSdp = manager[t.by].pendingOfferSdp
    BY <2>4 DEF SameBut
  <2>6. Keeps(manager[t.by], n) /\ SameCalls(manager[t.by], n)
    BY <2>5 DEF Keeps, SameCalls
  <2>7. ~(\E c \in n.current : c.state # "ended") => n.engine = {}
    BY <1>1, <2>5, <2>6, StillEngaged
  <2>8. \A x \in Device :
           /\ Keeps(manager[x], manager'[x])
           /\ ~Live(x)' => manager'[x].engine = {}
           /\ \/ manager'[x].engine = manager[x].engine
              \/ \A e \in manager[x].engine : ~engines'[e].open
    BY <1>1, <2>4, <2>5, <2>6, <2>7, OneKeeps
  <2>9. EnginesGrow /\ Len(engines') = Len(engines)
    BY <2>3, KeepingGrows
  <2>10. SignalInv(s)
    BY <1>1, <2>2, <2>3 DEF TaskInv, SignalInv
  <2>11. \A q \in signals' : q \in signals \/ SignalInv(q)'
    BY <2>3, <2>9, <2>10, SignalsStand
  <2>12. QED
    BY <2>3, <2>8, <2>9, <2>11, CallsKept
<1>3. CASE AnswerAccepted(t)
  <2>1. /\ t.awaits = "acceptAnswer" /\ tasks' \subseteq tasks /\ engines' = Told(t.engine, t.sdp)
        /\ UNCHANGED <<capable, signals, calls>>
    BY <1>3 DEF AnswerAccepted, Told
  <2>2. t.sdp # {}
    BY <1>1, <2>1 DEF TaskInv
  <2>3. EnginesGrow /\ Len(engines') = Len(engines)
    BY <1>1, <2>1, <2>2, TellingGrows
  <2>4. PICK n, ks : AnswerTaken(t.by, manager[t.by], n, ks)
    BY <1>3, AnswerAcceptedEffect
  <2>5. /\ Puts(t.by, n) /\ Keeps(manager[t.by], n) /\ SameCalls(manager[t.by], n)
        /\ n.engine = manager[t.by].engine
        /\ \/ \A c \in n.current : c.state # "ended"
           \/ \A c \in n.current : \E b \in manager[t.by].current :
                b.id = c.id /\ b.state = c.state
    BY <2>4 DEF AnswerTaken, Keeps
  <2>6. ~(\E c \in n.current : c.state # "ended") => n.engine = {}
    BY <1>1, <2>5, StillEngaged
  <2>7. \A x \in Device :
           /\ Keeps(manager[x], manager'[x])
           /\ ~Live(x)' => manager'[x].engine = {}
           /\ \/ manager'[x].engine = manager[x].engine
              \/ \A e \in manager[x].engine : ~engines'[e].open
    BY <1>1, <2>5, <2>6, OneKeeps
  <2>8. QED
    BY <2>1, <2>3, <2>7, CallsKept
<1>4. CASE AnswerMade(t)
  <2>1. /\ t.awaits = "createAnswer" /\ engines' = Told(t.engine, t.sdp)
        /\ UNCHANGED <<capable, calls>>
    BY <1>4 DEF AnswerMade, Told
  <2>2. t.sdp # {}
    BY <1>1, <2>1 DEF TaskInv
  <2>3. EnginesGrow /\ Len(engines') = Len(engines)
    BY <1>1, <2>1, <2>2, TellingGrows
  <2>4. PICK n, w, ks : AnswerGiven(t.by, t, manager[t.by], n, w, ks)
    BY <1>4, AnswerMadeEffect
  <2>5. /\ Puts(t.by, n) /\ Keeps(manager[t.by], n) /\ n.engine = manager[t.by].engine
        /\ ~(\E c \in n.current : c.state # "ended") => n.engine = {}
    <3>1. /\ Puts(t.by, n) /\ Keeps(manager[t.by], n) /\ n.engine = manager[t.by].engine
          /\ SameCalls(manager[t.by], n)
          /\ \A c \in n.current : \E b \in manager[t.by].current :
               b.id = c.id /\ b.state = c.state
      BY <2>4 DEF AnswerGiven, Keeps
    <3>2. QED
      BY <1>1, <3>1, StillEngaged
  <2>6. \A x \in Device :
           /\ Keeps(manager[x], manager'[x])
           /\ ~Live(x)' => manager'[x].engine = {}
           /\ \/ manager'[x].engine = manager[x].engine
              \/ \A e \in manager[x].engine : ~engines'[e].open
    BY <1>1, <2>5, OneKeeps
  <2>7. PICK u : u = TaskOf("answerSent", t.by, t.peer, t.call, t.engine, t.sdp)
    OBVIOUS
  <2>8. PICK s : s = SignalTo(t.by, t.peer, "call-answer", t.call, t.engine)
    OBVIOUS
  <2>9. /\ u \in Task /\ u.awaits = "answerSent" /\ s \in Signal /\ s.kind = "call-answer"
        /\ s.from = t.by /\ s.to = t.peer /\ s.call = t.call /\ s.sdp = t.engine
    BY <1>1, <2>7, <2>8, TaskFields, SignalFields
  <2>10. tasks' \subseteq tasks \cup {u} /\ signals' \subseteq signals \cup {s}
    BY <2>4, <2>7, <2>8 DEF AnswerGiven
  <2>11. TaskInv(u)' /\ SignalInv(s)'
    <3>1. SignalInv(s)
      BY <1>1, <2>1, <2>9 DEF TaskInv, SignalInv
    <3>2. QED
      BY <2>3, <2>9, <3>1, SignalsStand DEF TaskInv
  <2>12. /\ \A q \in signals' : q \in signals \/ SignalInv(q)'
         /\ \A q \in tasks' : q \in tasks \/ TaskInv(q)'
    BY <2>10, <2>11
  <2>13. QED
    BY <2>1, <2>3, <2>6, <2>12, CallsKept
<1>5. CASE SignalSent(t)
  <2>1. /\ tasks' \subseteq tasks
        /\ UNCHANGED <<capable, engines, signals, calls>>
        /\ \/ manager' = [manager EXCEPT ![t.by] = SetState(@, "connecting")]
           \/ t.awaits = "refusalSent" /\ manager' = [manager EXCEPT ![t.by] = SetState(@, "ended")]
    BY <1>5 DEF SignalSent
  <2>2. {"connecting", "ended"} \subseteq State
    BY DEF State
  <2>3. EnginesGrow /\ Len(engines') = Len(engines)
    BY <2>1, KeepingGrows
  <2>4. PICK n : /\ Puts(t.by, n) /\ Keeps(manager[t.by], n) /\ SameCalls(manager[t.by], n)
                 /\ n.engine = manager[t.by].engine
                 /\ ~(\E c \in n.current : c.state # "ended") => n.engine = {}
    <3>1. CASE manager' = [manager EXCEPT ![t.by] = SetState(@, "connecting")]
      <4>1. PICK n : /\ Puts(t.by, n) /\ Keeps(manager[t.by], n) /\ SameCalls(manager[t.by], n)
                     /\ n.engine = manager[t.by].engine
                     /\ \A c \in n.current : c.state = "connecting"
        <5>1. PICK n : StateSet(t.by, "connecting", manager[t.by], n)
          BY <1>1, <2>2, <3>1, StatePut
        <5>2. QED
          BY <5>1 DEF StateSet, Keeps
      <4>2. ~(\E c \in n.current : c.state # "ended") => n.engine = {}
        BY <1>1, <4>1, StillEngaged
      <4>3. QED
        BY <4>1, <4>2
    <3>2. CASE /\ t.awaits = "refusalSent"
               /\ manager' = [manager EXCEPT ![t.by] = SetState(@, "ended")]
      <4>1. PICK n : /\ Puts(t.by, n) /\ Keeps(manager[t.by], n) /\ SameCalls(manager[t.by], n)
                     /\ n.engine = manager[t.by].engine
        <5>1. PICK n : StateSet(t.by, "ended", manager[t.by], n)
          BY <1>1, <2>2, <3>2, StatePut
        <5>2. QED
          BY <5>1 DEF StateSet, Keeps
      <4>2. manager[t.by].engine = {}
        BY <1>1, <3>2 DEF TaskInv, CallsInv, ManagerInv
      <4>3. QED
        BY <4>1, <4>2
    <3>3. QED
      BY <2>1, <3>1, <3>2
  <2>5. \A x \in Device :
           /\ Keeps(manager[x], manager'[x])
           /\ ~Live(x)' => manager'[x].engine = {}
           /\ \/ manager'[x].engine = manager[x].engine
              \/ \A e \in manager[x].engine : ~engines'[e].open
    BY <1>1, <2>4, OneKeeps
  <2>6. QED
    BY <2>1, <2>3, <2>5, CallsKept
<1>6. CASE HangupSent(t)
  <2>1. tasks' \subseteq tasks /\ Teardown(t.by) /\ signals' = signals
    BY <1>6 DEF HangupSent
  <2>2. QED
    BY <1>1, <2>1, TeardownKeepsCalls
<1>7. CASE Fails(t)
  <2>1. tasks' \subseteq tasks
        /\ UNCHANGED <<capable, manager, engines, signals, calls>>
    BY <1>7 DEF Fails
  <2>2. QED
    BY <2>1, QuietKeepsCalls
<1>8. QED
  BY <1>2, <1>3, <1>4, <1>5, <1>6, <1>7

LEMMA SignalKeepsCalls ==
  ASSUME TypeInv, CallsInv, NEW s \in signals,
         ReceiveOffer(s) \/ ReceiveAnswer(s) \/ ReceiveHangup(s)
  PROVE  CallsInv'
<1>1. /\ s \in Signal /\ s.from \in Device /\ s.to \in Device /\ s.call \in Number
      /\ s.sdp \in SUBSET Number /\ AtMostOne(s.sdp) /\ SignalInv(s)
  BY SignalShape DEF TypeInv, CallsInv
<1>2. CASE ReceiveOffer(s) /\ Live(s.to)
  <2>1. /\ signals' \subseteq signals \cup
             {SignalTo(s.to, s.from, "call-hangup", s.call, {})}
        /\ UNCHANGED <<capable, manager, engines, tasks, calls>>
    BY <1>2 DEF ReceiveOffer
  <2>2. QED
    BY <2>1, QuietKeepsCalls DEF SignalTo
<1>3. CASE ReceiveOffer(s) /\ ~Live(s.to)
  <2>1. PICK d \in Device : d = s.to
    BY <1>1
  <2>2. /\ s.kind = "call-offer" /\ signals' \subseteq signals
        /\ manager' = [manager EXCEPT
             ![d].current = {[id |-> s.call, peer |-> s.from, state |-> "ringing-incoming",
                              words |-> {}]},
             ![d].mediaSecret = {s.call}, ![d].remoteFingerprint = s.sdp,
             ![d].pendingOfferSdp = s.sdp]
        /\ UNCHANGED <<capable, engines, tasks, calls>>
    BY <1>3, <2>1 DEF ReceiveOffer
  <2>3. PICK n, c :
           /\ Puts(d, n) /\ n.current = {c} /\ c.id = s.call /\ c.peer = s.from
           /\ c.state = "ringing-incoming" /\ n.pendingOfferSdp = s.sdp
           /\ n.engine = manager[d].engine
    <3>1. PICK n, c : OfferTaken(d, s.call, s.from, s.sdp, n, c)
      BY <1>1, <2>2, OfferPut
    <3>2. QED
      BY <3>1 DEF OfferTaken
  <2>4. EnginesGrow /\ Len(engines') = Len(engines) /\ Eng' = Eng
    BY <2>2, KeepingGrows DEF Eng
  <2>5. ~Live(d) /\ manager[d].engine = {} /\ manager'[d] = n
    BY <1>3, <2>1, <2>3 DEF CallsInv, ManagerInv, Puts
  <2>6. PICK e \in Eng : s.sdp = {e} /\ Places(s.from, s.call, e) /\ s.to # s.from
    BY <1>1, <2>2 DEF SignalInv
  <2>7. ManagerInv(d)'
    <3>1. Places(c.peer, c.id, e)'
      BY <2>3, <2>4, <2>6, EnginesStand
    <3>2. TakenBy(d, c)'
      BY <2>3, <2>4, <2>5, <2>6, <3>1 DEF TakenBy
    <3>3. Live(d)'
      BY <2>3, <2>5 DEF Live
    <3>4. ASSUME NEW f \in Eng', Placed(f)', engines'[f].by = d, engines'[f].open
          PROVE  manager'[d].engine = {f}
      <4>1. f \in Eng /\ Placed(f) /\ engines[f].by = d /\ engines[f].open
        BY <2>2, <2>4, <3>4, EnginesStand
      <4>2. QED
        BY <2>5, <4>1 DEF CallsInv, ManagerInv
    <3>5. QED
      BY <2>1, <2>3, <2>5, <2>6, <3>2, <3>3, <3>4 DEF ManagerInv
  <2>8. ASSUME NEW x \in Device, x # d PROVE ManagerInv(x)'
    <3>1. manager'[x] = manager[x]
      BY <2>3, <2>8 DEF Puts
    <3>2. ~Live(x)' => manager'[x].engine = {}
      BY <3>1 DEF CallsInv, ManagerInv, Live
    <3>3. Keeps(manager[x], manager'[x]) /\ ManagerInv(x)
      BY <3>1, KeepsItself DEF CallsInv
    <3>4. QED
      BY <2>2, <2>4, <3>1, <3>2, <3>3, ManagerStands
  <2>9. \A q \in signals' : SignalInv(q)'
    BY <2>2, <2>4, SignalsStand DEF CallsInv
  <2>10. \A t \in tasks' : TaskInv(t)'
    BY <2>2, <2>4, TasksStand DEF CallsInv
  <2>11. \A f \in Eng' : engines'[f].call \in 1 .. calls'
    BY <2>2, <2>4 DEF CallsInv
  <2>12. QED
    BY <2>7, <2>8, <2>9, <2>10, <2>11 DEF CallsInv
<1>4. CASE ReceiveAnswer(s)
  <2>1. /\ s.kind = "call-answer" /\ signals' \subseteq signals
        /\ UNCHANGED <<capable, engines, calls>>
        /\ \/ UNCHANGED <<manager, tasks>>
           \/ /\ \E c \in manager[s.to].current : c.id = s.call /\ c.peer = s.from
              /\ manager' = [manager EXCEPT ![s.to].remoteFingerprint = s.sdp]
              /\ tasks' = tasks \cup {TaskOf("acceptAnswer", s.to, s.from, s.call, {e}, s.sdp) :
                                       e \in manager[s.to].engine}
    BY <1>4 DEF ReceiveAnswer, TaskOf
  <2>2. CASE UNCHANGED <<manager, tasks>>
    BY <2>1, <2>2, QuietKeepsCalls
  <2>3. CASE /\ \E c \in manager[s.to].current : c.id = s.call /\ c.peer = s.from
             /\ manager' = [manager EXCEPT ![s.to].remoteFingerprint = s.sdp]
             /\ tasks' = tasks \cup {TaskOf("acceptAnswer", s.to, s.from, s.call, {e}, s.sdp) :
                                       e \in manager[s.to].engine}
    <3>1. PICK n : /\ Puts(s.to, n)
                   /\ SameBut(manager[s.to], n, manager[s.to].localFingerprint, s.sdp)
      BY <1>1, <2>3, RemotePut
    <3>2. /\ n.current = manager[s.to].current /\ n.engine = manager[s.to].engine
          /\ n.pendingOfferSdp = manager[s.to].pendingOfferSdp
      BY <3>1 DEF SameBut
    <3>3. Keeps(manager[s.to], n) /\ SameCalls(manager[s.to], n)
      BY <3>2 DEF Keeps, SameCalls
    <3>4. ~(\E c \in n.current : c.state # "ended") => n.engine = {}
      BY <1>1, <3>2, <3>3, StillEngaged
    <3>5. \A x \in Device :
             /\ Keeps(manager[x], manager'[x])
             /\ ~Live(x)' => manager'[x].engine = {}
             /\ \/ manager'[x].engine = manager[x].engine
                \/ \A e \in manager[x].engine : ~engines'[e].open
      BY <1>1, <3>1, <3>2, <3>3, <3>4, OneKeeps
    <3>6. EnginesGrow /\ Len(engines') = Len(engines)
      BY <2>1, KeepingGrows
    <3>7. ASSUME NEW u \in tasks', u \notin tasks PROVE TaskInv(u)'
      <4>1. PICK e \in manager[s.to].engine :
              u = TaskOf("acceptAnswer", s.to, s.from, s.call, {e}, s.sdp)
        BY <2>3, <3>7
      <4>2. manager[s.to].engine \in SUBSET Number
        BY <1>1, ManagerFields DEF TypeInv
      <4>3. /\ u.awaits = "acceptAnswer" /\ u.by = s.to /\ u.peer = s.from /\ u.call = s.call
            /\ u.engine = {e} /\ u.sdp = s.sdp
        BY <1>1, <4>1, <4>2, TaskFields
      <4>4. /\ \E a \in Eng : Places(s.to, s.call, a)
            /\ \E f \in Eng : s.sdp = {f} /\ Answers(s.from, s.call, f)
        BY <1>1, <2>1 DEF SignalInv
      <4>5. PICK c \in manager[s.to].current : c.id = s.call /\ c.peer = s.from
        BY <2>3
      <4>6. c.peer # s.to /\ (PlacedBy(s.to, c) \/ TakenBy(s.to, c))
        BY <1>1 DEF CallsInv, ManagerInv
      <4>7. PlacedBy(s.to, c)
        BY <4>4, <4>5, <4>6, PlacedOnce DEF TakenBy
      <4>8. PICK a \in Eng : Places(s.to, s.call, a) /\ manager[s.to].engine \subseteq {a}
        BY <4>5, <4>7 DEF PlacedBy
      <4>9. e = a
        BY <4>1, <4>8
      <4>10. TaskInv(u)
        BY <4>3, <4>4, <4>8, <4>9 DEF TaskInv
      <4>11. QED
        BY <2>1, <3>6, <4>10, TasksStand
    <3>8. QED
      BY <2>1, <3>5, <3>6, <3>7, CallsKept
  <2>4. QED
    BY <2>1, <2>2, <2>3
<1>5. CASE ReceiveHangup(s)
  <2>1. /\ signals' \subseteq signals /\ tasks' = tasks
        /\ \/ Teardown(s.to)
           \/ UNCHANGED <<capable, manager, engines, calls>>
    BY <1>5 DEF ReceiveHangup
  <2>2. CASE Teardown(s.to)
    BY <1>1, <2>1, <2>2, TeardownKeepsCalls
  <2>3. CASE UNCHANGED <<capable, manager, engines, calls>>
    BY <2>1, <2>3, QuietKeepsCalls
  <2>4. QED
    BY <2>1, <2>2, <2>3
<1>6. QED
  BY <1>2, <1>3, <1>4, <1>5

LEMMA EngineKeepsCalls ==
  ASSUME TypeInv, CallsInv, NEW e \in DOMAIN engines, Connects(e) \/ Disconnects(e)
  PROVE  CallsInv'
<1>1. e \in 1 .. Len(engines) /\ engines[e].by \in Device
  <2>1. e \in 1 .. Len(engines)
    BY DEF TypeInv
  <2>2. QED
    BY <2>1, EngineFields
<1>2. CASE Connects(e)
  <2>1. /\ engines' = [engines EXCEPT ![e].connected = TRUE]
        /\ manager' = IF Current(engines[e].by, engines[e].call)
                      THEN [manager EXCEPT ![engines[e].by] = SetState(@, "connected")]
                      ELSE manager
        /\ UNCHANGED <<capable, tasks, signals, calls, installed, tornDown>>
    BY <1>2 DEF Connects
  <2>2. EnginesGrow /\ Len(engines') = Len(engines)
    BY <2>1, ConnectingGrows
  <2>3. "connected" \in State
    BY DEF State
  <2>4. \A x \in Device :
           /\ Keeps(manager[x], manager'[x])
           /\ ~Live(x)' => manager'[x].engine = {}
           /\ \/ manager'[x].engine = manager[x].engine
              \/ \A f \in manager[x].engine : ~engines'[f].open
    <3>1. CASE Current(engines[e].by, engines[e].call)
      <4>1. PICK d \in Device : d = engines[e].by
        BY <1>1
      <4>2. manager' = [manager EXCEPT ![d] = SetState(@, "connected")]
        BY <2>1, <3>1, <4>1
      <4>3. PICK n : /\ Puts(d, n) /\ Keeps(manager[d], n) /\ SameCalls(manager[d], n)
                     /\ n.engine = manager[d].engine
                     /\ \A c \in n.current : c.state = "connected"
        <5>1. PICK n : StateSet(d, "connected", manager[d], n)
          BY <2>3, <4>2, StatePut
        <5>2. QED
          BY <5>1 DEF StateSet, Keeps
      <4>4. ~(\E c \in n.current : c.state # "ended") => n.engine = {}
        BY <4>3, StillEngaged
      <4>5. QED
        BY <4>3, <4>4, OneKeeps
    <3>2. CASE ~Current(engines[e].by, engines[e].call)
      BY <2>1, <3>2, NoneMoves
    <3>3. QED
      BY <3>1, <3>2
  <2>5. QED
    BY <2>1, <2>2, <2>4, CallsKept
<1>3. CASE Disconnects(e)
  <2>1. Teardown(engines[e].by) /\ tasks' = tasks /\ signals' = signals
    BY <1>3 DEF Disconnects
  <2>2. QED
    BY <1>1, <2>1, TeardownKeepsCalls
<1>4. QED
  BY <1>2, <1>3

LEMMA CallsInvariance == TypeInv /\ CallsInv /\ [Next]_vars => CallsInv'
<1> SUFFICES ASSUME TypeInv, CallsInv, [Next]_vars PROVE CallsInv'
  OBVIOUS
<1>1. CASE UNCHANGED vars
  <2>1. UNCHANGED <<capable, manager, engines, tasks, signals, calls>>
    BY <1>1 DEF vars
  <2>2. QED
    BY <2>1, QuietKeepsCalls
<1>2. CASE Next
  BY <1>2, DeviceKeepsCalls, TaskKeepsCalls, SignalKeepsCalls, EngineKeepsCalls DEF Next
<1>3. QED
  BY <1>1, <1>2

LEMMA InitCalls == Init => CallsInv
<1> SUFFICES ASSUME Init PROVE CallsInv
  OBVIOUS
<1>1. Eng = {} /\ signals = {} /\ tasks = {}
  BY DEF Init, Eng
<1>2. ASSUME NEW d \in Device PROVE manager[d].current = {} /\ manager[d].engine = {}
  BY DEF Init, Idle
<1>3. QED
  BY <1>1, <1>2 DEF CallsInv, ManagerInv, Live

-----------------------------------------------------------------------------
(* The steps that make no engine and begin no call.                        *)

GuestsStay ==
  /\ EnginesGrow /\ Len(engines') = Len(engines) /\ calls' = calls
  /\ \A x \in Device : SameCalls(manager[x], manager'[x])
  /\ \A t \in tasks' : t.awaits \in {"createOffer", "createAnswer"} => t \in tasks
  /\ \A s \in signals' : s.kind = "call-offer" =>
       \/ s \in signals
       \/ \E t \in tasks : t.awaits = "createOffer" /\ t.call = s.call /\ t.peer = s.to

\* Only d's manager moves, and it keeps its call.
LEMMA OneStays ==
  ASSUME NEW d \in Device, NEW n, Puts(d, n), Keeps(manager[d], n)
  PROVE  \A x \in Device : SameCalls(manager[x], manager'[x])
<1>1. \A x \in Device \ {d} : manager'[x] = manager[x]
  BY DEF Puts
<1>2. manager'[d] = n
  BY DEF Puts
<1>3. QED
  BY <1>1, <1>2 DEF SameCalls, Keeps

LEMMA NoneStirs ==
  ASSUME manager' = manager
  PROVE  \A x \in Device : SameCalls(manager[x], manager'[x])
BY DEF SameCalls

LEMMA TeardownStays ==
  ASSUME TypeInv, NEW d \in Device, Teardown(d), tasks' \subseteq tasks, signals' \subseteq signals
  PROVE  GuestsStay
<1>1. PICK n : TornDown(d, manager[d], n)
  BY TeardownEffect
<1>2. \A x \in Device : SameCalls(manager[x], manager'[x])
  BY <1>1, OneStays DEF TornDown
<1>3. calls' = calls
  BY TeardownEffect
<1>4. QED
  BY <1>2, <1>3, TeardownGrows DEF GuestsStay

LEMMA QuietStays ==
  ASSUME TypeInv, manager' = manager, engines' = engines, calls' = calls,
         \A s \in signals' : s \in signals \/ s.kind = "call-hangup",
         \A t \in tasks' : t \in tasks \/ t.awaits \in {"hangupSent", "refusalSent"}
  PROVE  GuestsStay
BY KeepingGrows, NoneStirs DEF GuestsStay

LEMMA TaskStays ==
  ASSUME TypeInv, CallsInv, NEW t \in tasks,
         \/ OfferMade(t) \/ AnswerAccepted(t) \/ AnswerMade(t)
         \/ SignalSent(t) \/ HangupSent(t) \/ Fails(t)
  PROVE  GuestsStay
<1>1. /\ t \in Task /\ t.by \in Device /\ t.peer \in Device /\ t.call \in Number
      /\ t.engine \in SUBSET Number /\ t.sdp \in SUBSET Number
      /\ AtMostOne(t.engine) /\ AtMostOne(t.sdp) /\ TaskInv(t)
  BY TaskShape DEF TypeInv, CallsInv
<1>2. CASE OfferMade(t)
  <2>1. PICK s : s = SignalTo(t.by, t.peer, "call-offer", t.call, t.engine)
    OBVIOUS
  <2>2. s.to = t.peer /\ s.call = t.call
    BY <1>1, <2>1, SignalFields
  <2>3. /\ t.awaits = "createOffer" /\ tasks' \subseteq tasks /\ signals' = signals \cup {s}
        /\ manager' = [manager EXCEPT ![t.by].localFingerprint = t.engine]
        /\ engines' = engines /\ calls' = calls
    BY <1>2, <2>1 DEF OfferMade
  <2>4. PICK n : /\ Puts(t.by, n)
                 /\ SameBut(manager[t.by], n, t.engine, manager[t.by].remoteFingerprint)
    BY <1>1, <2>3, LocalPut
  <2>5. Keeps(manager[t.by], n)
    BY <2>4 DEF Keeps, SameCalls, SameBut
  <2>6. \A x \in Device : SameCalls(manager[x], manager'[x])
    BY <1>1, <2>4, <2>5, OneStays
  <2>7. QED
    BY <2>2, <2>3, <2>6, KeepingGrows DEF GuestsStay
<1>3. CASE AnswerAccepted(t)
  <2>1. /\ t.awaits = "acceptAnswer" /\ tasks' \subseteq tasks /\ engines' = Told(t.engine, t.sdp)
        /\ signals' = signals /\ calls' = calls
    BY <1>3 DEF AnswerAccepted, Told
  <2>2. t.sdp # {}
    BY <1>1, <2>1 DEF TaskInv
  <2>3. EnginesGrow /\ Len(engines') = Len(engines)
    BY <1>1, <2>1, <2>2, TellingGrows
  <2>4. PICK n, ks : AnswerTaken(t.by, manager[t.by], n, ks)
    BY <1>3, AnswerAcceptedEffect
  <2>5. \A x \in Device : SameCalls(manager[x], manager'[x])
    BY <1>1, <2>4, OneStays DEF AnswerTaken
  <2>6. QED
    BY <2>1, <2>3, <2>5 DEF GuestsStay
<1>4. CASE AnswerMade(t)
  <2>1. /\ t.awaits = "createAnswer" /\ engines' = Told(t.engine, t.sdp)
        /\ calls' = calls
    BY <1>4 DEF AnswerMade, Told
  <2>2. t.sdp # {}
    BY <1>1, <2>1 DEF TaskInv
  <2>3. EnginesGrow /\ Len(engines') = Len(engines)
    BY <1>1, <2>1, <2>2, TellingGrows
  <2>4. PICK n, w, ks : AnswerGiven(t.by, t, manager[t.by], n, w, ks)
    BY <1>4, AnswerMadeEffect
  <2>5. \A x \in Device : SameCalls(manager[x], manager'[x])
    BY <1>1, <2>4, OneStays DEF AnswerGiven
  <2>6. PICK u : u = TaskOf("answerSent", t.by, t.peer, t.call, t.engine, t.sdp)
    OBVIOUS
  <2>7. PICK s : s = SignalTo(t.by, t.peer, "call-answer", t.call, t.engine)
    OBVIOUS
  <2>8. u.awaits = "answerSent" /\ s.kind = "call-answer"
    BY <2>6, <2>7 DEF TaskOf, SignalTo
  <2>9. tasks' \subseteq tasks \cup {u} /\ signals' \subseteq signals \cup {s}
    BY <2>4, <2>6, <2>7 DEF AnswerGiven
  <2>10. /\ \A q \in tasks' : q.awaits \in {"createOffer", "createAnswer"} => q \in tasks
         /\ \A q \in signals' : q.kind = "call-offer" => q \in signals
    BY <2>8, <2>9
  <2>11. QED
    BY <2>1, <2>3, <2>5, <2>10 DEF GuestsStay
<1>5. CASE SignalSent(t)
  <2>1. /\ tasks' \subseteq tasks /\ engines' = engines /\ signals' = signals /\ calls' = calls
        /\ \E state \in {"connecting", "ended"} :
             manager' = [manager EXCEPT ![t.by] = SetState(@, state)]
    BY <1>5 DEF SignalSent
  <2>2. PICK state \in {"connecting", "ended"} :
          manager' = [manager EXCEPT ![t.by] = SetState(@, state)]
    BY <2>1
  <2>3. state \in State /\ state # "ringing-incoming"
    BY DEF State
  <2>4. PICK n : StateSet(t.by, state, manager[t.by], n)
    BY <1>1, <2>2, <2>3, StatePut
  <2>5. \A x \in Device : SameCalls(manager[x], manager'[x])
    BY <1>1, <2>4, OneStays DEF StateSet
  <2>6. QED
    BY <2>1, <2>5, KeepingGrows DEF GuestsStay
<1>6. CASE HangupSent(t)
  <2>1. tasks' \subseteq tasks /\ Teardown(t.by) /\ signals' = signals
    BY <1>6 DEF HangupSent
  <2>2. QED
    BY <1>1, <2>1, TeardownStays
<1>7. CASE Fails(t)
  <2>1. /\ tasks' \subseteq tasks /\ manager' = manager /\ engines' = engines
        /\ signals' = signals /\ calls' = calls
    BY <1>7 DEF Fails
  <2>2. QED
    BY <2>1, QuietStays
<1>8. QED
  BY <1>2, <1>3, <1>4, <1>5, <1>6, <1>7

LEMMA SignalStays ==
  ASSUME TypeInv, CallsInv, NEW s \in signals,
         (ReceiveOffer(s) /\ Live(s.to)) \/ ReceiveAnswer(s) \/ ReceiveHangup(s)
  PROVE  GuestsStay
<1>1. /\ s \in Signal /\ s.from \in Device /\ s.to \in Device /\ s.call \in Number
      /\ s.sdp \in SUBSET Number /\ AtMostOne(s.sdp)
  BY SignalShape DEF TypeInv, CallsInv
<1>2. CASE ReceiveOffer(s) /\ Live(s.to)
  <2>1. /\ signals' \subseteq signals \cup
             {SignalTo(s.to, s.from, "call-hangup", s.call, {})}
        /\ manager' = manager /\ engines' = engines /\ tasks' = tasks /\ calls' = calls
    BY <1>2 DEF ReceiveOffer
  <2>2. QED
    BY <2>1, QuietStays DEF SignalTo
<1>3. CASE ReceiveAnswer(s)
  <2>1. /\ signals' \subseteq signals /\ engines' = engines /\ calls' = calls
        /\ \/ UNCHANGED <<manager, tasks>>
           \/ /\ manager' = [manager EXCEPT ![s.to].remoteFingerprint = s.sdp]
              /\ tasks' = tasks \cup {TaskOf("acceptAnswer", s.to, s.from, s.call, {e}, s.sdp) :
                                       e \in manager[s.to].engine}
    BY <1>3 DEF ReceiveAnswer, TaskOf
  <2>2. CASE UNCHANGED <<manager, tasks>>
    BY <2>1, <2>2, QuietStays
  <2>3. CASE /\ manager' = [manager EXCEPT ![s.to].remoteFingerprint = s.sdp]
             /\ tasks' = tasks \cup {TaskOf("acceptAnswer", s.to, s.from, s.call, {e}, s.sdp) :
                                       e \in manager[s.to].engine}
    <3>1. PICK n : /\ Puts(s.to, n)
                   /\ SameBut(manager[s.to], n, manager[s.to].localFingerprint, s.sdp)
      BY <1>1, <2>3, RemotePut
    <3>2. Keeps(manager[s.to], n)
      BY <3>1 DEF Keeps, SameCalls, SameBut
    <3>3. \A x \in Device : SameCalls(manager[x], manager'[x])
      BY <1>1, <3>1, <3>2, OneStays
    <3>4. \A t \in tasks' : t \in tasks \/ t.awaits = "acceptAnswer"
      BY <2>3 DEF TaskOf
    <3>5. QED
      BY <2>1, <3>3, <3>4, KeepingGrows DEF GuestsStay
  <2>4. QED
    BY <2>1, <2>2, <2>3
<1>4. CASE ReceiveHangup(s)
  <2>1. /\ signals' \subseteq signals /\ tasks' = tasks
        /\ \/ Teardown(s.to)
           \/ manager' = manager /\ engines' = engines /\ calls' = calls
    BY <1>4 DEF ReceiveHangup
  <2>2. CASE Teardown(s.to)
    BY <1>1, <2>1, <2>2, TeardownStays
  <2>3. CASE manager' = manager /\ engines' = engines /\ calls' = calls
    BY <2>1, <2>3, QuietStays
  <2>4. QED
    BY <2>1, <2>2, <2>3
<1>5. QED
  BY <1>2, <1>3, <1>4

LEMMA EngineStays ==
  ASSUME TypeInv, CallsInv, NEW e \in DOMAIN engines, Connects(e) \/ Disconnects(e)
  PROVE  GuestsStay
<1>1. e \in 1 .. Len(engines) /\ engines[e].by \in Device
  <2>1. e \in 1 .. Len(engines)
    BY DEF TypeInv
  <2>2. QED
    BY <2>1, EngineFields
<1>2. CASE Connects(e)
  <2>1. /\ engines' = [engines EXCEPT ![e].connected = TRUE]
        /\ manager' = IF Current(engines[e].by, engines[e].call)
                      THEN [manager EXCEPT ![engines[e].by] = SetState(@, "connected")]
                      ELSE manager
        /\ tasks' = tasks /\ signals' = signals /\ calls' = calls
    BY <1>2 DEF Connects
  <2>2. "connected" \in State
    BY DEF State
  <2>3. \A x \in Device : SameCalls(manager[x], manager'[x])
    <3>1. CASE Current(engines[e].by, engines[e].call)
      <4>1. manager' = [manager EXCEPT ![engines[e].by] = SetState(@, "connected")]
        BY <2>1, <3>1
      <4>2. PICK n : StateSet(engines[e].by, "connected", manager[engines[e].by], n)
        BY <1>1, <2>2, <4>1, StatePut
      <4>3. QED
        BY <1>1, <4>2, OneStays DEF StateSet
    <3>2. CASE ~Current(engines[e].by, engines[e].call)
      BY <2>1, <3>2, NoneStirs
    <3>3. QED
      BY <3>1, <3>2
  <2>4. QED
    BY <2>1, <2>3, ConnectingGrows DEF GuestsStay
<1>3. CASE Disconnects(e)
  <2>1. Teardown(engines[e].by) /\ tasks' = tasks /\ signals' = signals
    BY <1>3 DEF Disconnects
  <2>2. QED
    BY <1>1, <2>1, TeardownStays
<1>4. QED
  BY <1>2, <1>3

LEMMA StepKinds ==
  ASSUME TypeInv, CallsInv, [Next]_vars
  PROVE  \/ GuestsStay
         \/ \E d \in Device : (\E peer \in Device \ {d} : PlaceCall(d, peer)) \/ AnswerCall(d)
         \/ \E s \in signals : ReceiveOffer(s) /\ ~Live(s.to)
<1>1. CASE UNCHANGED vars
  BY <1>1, QuietStays DEF vars
<1>2. ASSUME NEW d \in Device, RefuseCall(d) PROVE GuestsStay
  <2>1. PICK c \in manager[d].current :
          /\ signals' = signals \cup {SignalTo(d, c.peer, "call-hangup", c.id, {})}
          /\ tasks' = tasks \cup {TaskOf("refusalSent", d, c.peer, c.id, {}, {})}
          /\ manager' = manager /\ engines' = engines /\ calls' = calls
    BY <1>2 DEF RefuseCall, TaskOf
  <2>2. QED
    BY <2>1, QuietStays DEF SignalTo, TaskOf
<1>3. ASSUME NEW d \in Device, HangUp(d) PROVE GuestsStay
  <2>1. PICK c \in manager[d].current :
          IF c.state = "ended"
          THEN Teardown(d) /\ UNCHANGED <<tasks, signals>>
          ELSE /\ signals' = signals \cup {SignalTo(d, c.peer, "call-hangup", c.id, {})}
               /\ tasks' = tasks \cup {TaskOf("hangupSent", d, c.peer, c.id, {}, {})}
               /\ manager' = manager /\ engines' = engines /\ calls' = calls
    BY <1>3 DEF HangUp, TaskOf
  <2>2. CASE c.state = "ended"
    BY <2>1, <2>2, TeardownStays
  <2>3. CASE c.state # "ended"
    BY <2>1, <2>3, QuietStays DEF SignalTo, TaskOf
  <2>4. QED
    BY <2>2, <2>3
<1>4. CASE Next
  BY <1>2, <1>3, <1>4, TaskStays, SignalStays, EngineStays DEF Next
<1>5. QED
  BY <1>1, <1>4

-----------------------------------------------------------------------------
(* Frame keys.                                                             *)

FreshInv ==
  /\ \A t, u \in tasks :
       t.awaits = "createAnswer" /\ u.awaits = "createAnswer" /\ t.engine = u.engine => t = u
  /\ \A i \in DOMAIN installed : \E k \in installed[i].keys :
       /\ installed[i].keys = {k}
       /\ installed[i].send = "caller" =>
            \E e \in Eng : Placed(e) /\ engines[e].call = k.call /\ engines[e].remote # {}
       /\ installed[i].send = "callee" =>
            /\ k.calleeFingerprint \in Eng
            /\ \A t \in tasks : t.awaits = "createAnswer" => k.calleeFingerprint \notin t.engine

\* What is said of one installation; FreshInv says it of all.
KeyUsed(i, k) ==
  /\ installed[i].keys = {k}
  /\ installed[i].send = "caller" =>
       \E e \in Eng : Placed(e) /\ engines[e].call = k.call /\ engines[e].remote # {}
  /\ installed[i].send = "callee" =>
       /\ k.calleeFingerprint \in Eng
       /\ \A t \in tasks : t.awaits = "createAnswer" => k.calleeFingerprint \notin t.engine

LEMMA KeyStaysUsed ==
  ASSUME TypeInv, CallsInv, EnginesGrow, NEW i, NEW k, KeyUsed(i, k), installed'[i] = installed[i],
         \A t \in tasks' : t.awaits = "createAnswer" =>
           t \in tasks \/ \A e \in Eng : e \notin t.engine
  PROVE  KeyUsed(i, k)'
<1>1. installed'[i].keys = {k} /\ installed'[i].send = installed[i].send
  BY DEF KeyUsed
<1>2. ASSUME installed[i].send = "caller"
      PROVE  \E e \in Eng' : Placed(e)' /\ engines'[e].call = k.call /\ engines'[e].remote # {}
  <2>1. PICK e \in Eng : Placed(e) /\ engines[e].call = k.call /\ engines[e].remote # {}
    BY <1>2 DEF KeyUsed
  <2>2. e \in Eng' /\ Placed(e)' /\ engines'[e].call = k.call /\ engines'[e].remote # {}
    BY <2>1, EnginesStand DEF EnginesGrow
  <2>3. QED
    BY <2>2
<1>3. ASSUME installed[i].send = "callee"
      PROVE  /\ k.calleeFingerprint \in Eng'
             /\ \A t \in tasks' : t.awaits = "createAnswer" => k.calleeFingerprint \notin t.engine
  BY <1>3, EnginesStand DEF KeyUsed
<1>4. QED
  BY <1>1, <1>2, <1>3 DEF KeyUsed

LEMMA FreshKept ==
  ASSUME TypeInv, CallsInv, FreshInv, FreshFrameKeys, EnginesGrow, installed' = installed,
         \A t \in tasks' : t.awaits = "createAnswer" => t \in tasks
  PROVE  FreshInv' /\ FreshFrameKeys'
<1>1. ASSUME NEW i \in DOMAIN installed' PROVE \E k \in installed'[i].keys : KeyUsed(i, k)'
  <2>1. i \in DOMAIN installed /\ installed'[i] = installed[i]
    BY <1>1
  <2>2. PICK k \in installed[i].keys : KeyUsed(i, k)
    BY <2>1 DEF FreshInv, KeyUsed
  <2>3. QED
    BY <2>1, <2>2, KeyStaysUsed
<1>2. FreshInv'
  BY <1>1 DEF FreshInv, KeyUsed
<1>3. QED
  BY <1>2 DEF FreshFrameKeys

\* An installation of keys that nobody sent with before.
LEMMA InstalledFresh ==
  ASSUME TypeInv, FreshFrameKeys, NEW d \in Device, NEW m \in Manager,
         NEW role \in {"caller", "callee"}, NEW ks \in SUBSET Keys, Install(d, m, role, ks),
         \A i \in DOMAIN installed : installed[i].send = role => installed[i].keys # ks
  PROVE  FreshFrameKeys'
<1>1. CASE installed' = installed
  BY <1>1 DEF FreshFrameKeys
<1>2. CASE /\ Len(installed') = Len(installed) + 1
           /\ \A i \in 1 .. Len(installed) : installed'[i] = installed[i]
           /\ installed'[Len(installed) + 1].keys = ks
           /\ installed'[Len(installed) + 1].send = role
  <2>1. /\ installed' \in Seq(Installation) /\ installed \in Seq(Installation)
        /\ Len(installed) \in Nat
    BY InstallEffect DEF TypeInv
  <2>2. PICK l \in Nat : l = Len(installed)
    BY <2>1
  <2>3. DOMAIN installed = 1 .. l /\ DOMAIN installed' = 1 .. l + 1
    BY <1>2, <2>1, <2>2
  <2>4. SUFFICES ASSUME NEW i \in 1 .. l + 1, NEW j \in 1 .. l + 1,
                        installed'[i].keys = installed'[j].keys,
                        installed'[i].send = installed'[j].send
                 PROVE  i = j
    BY <2>3 DEF FreshFrameKeys
  <2>5. CASE i \in 1 .. l /\ j \in 1 .. l
    BY <1>2, <2>2, <2>3, <2>4, <2>5 DEF FreshFrameKeys
  <2>6. CASE i = l + 1 /\ j \in 1 .. l
    BY <1>2, <2>2, <2>3, <2>4, <2>6
  <2>7. CASE j = l + 1 /\ i \in 1 .. l
    BY <1>2, <2>2, <2>3, <2>4, <2>7
  <2>8. CASE i = l + 1 /\ j = l + 1
    BY <2>8
  <2>9. QED
    BY <2>2, <2>5, <2>6, <2>7, <2>8
<1>3. QED
  BY <1>1, <1>2, InstallEffect

LEMMA InstalledWhere ==
  ASSUME TypeInv, NEW d \in Device, NEW m \in Manager, NEW role \in {"caller", "callee"},
         NEW ks \in SUBSET Keys, Install(d, m, role, ks), NEW i \in DOMAIN installed'
  PROVE  \/ i \in DOMAIN installed /\ installed'[i] = installed[i]
         \/ ks # {} /\ installed'[i].keys = ks /\ installed'[i].send = role
<1>1. /\ installed' \in Seq(Installation) /\ installed \in Seq(Installation)
      /\ Len(installed) \in Nat
  BY InstallEffect DEF TypeInv
<1>2. CASE installed' = installed
  BY <1>2
<1>3. CASE /\ ks # {} /\ Len(installed') = Len(installed) + 1
           /\ \A j \in 1 .. Len(installed) : installed'[j] = installed[j]
           /\ installed'[Len(installed) + 1].keys = ks
           /\ installed'[Len(installed) + 1].send = role
  <2>1. PICK l \in Nat : l = Len(installed)
    BY <1>1
  <2>2. DOMAIN installed = 1 .. l /\ DOMAIN installed' = 1 .. l + 1
    BY <1>1, <1>3, <2>1
  <2>3. i \in 1 .. l \/ i = l + 1
    BY <2>1, <2>2
  <2>4. QED
    BY <1>3, <2>1, <2>2, <2>3
<1>4. QED
  BY <1>2, <1>3, InstallEffect

\* The caller's keys belong to the call of the engine that takes the answer.
LEMMA AcceptingEngine ==
  ASSUME TypeInv, CallsInv, NEW t \in tasks, t.awaits = "acceptAnswer", Open(t.engine)
  PROVE  \E e \in Eng : /\ t.engine = {e} /\ Places(t.by, t.call, e)
                        /\ manager[t.by].engine = {e}
                        /\ \A c \in manager[t.by].current : c.id = t.call /\ PlacedBy(t.by, c)
<1>1. PICK e \in Eng : t.engine = {e} /\ Places(t.by, t.call, e)
  BY DEF CallsInv, TaskInv
<1>2. t.by \in Device
  BY TaskShape DEF TypeInv
<1>3. manager[t.by].engine = {e}
  <2>1. Placed(e) /\ engines[e].by = t.by /\ engines[e].open
    BY <1>1 DEF Places, Open
  <2>2. QED
    BY <1>2, <2>1 DEF CallsInv, ManagerInv
<1>4. ASSUME NEW c \in manager[t.by].current PROVE c.id = t.call /\ PlacedBy(t.by, c)
  <2>1. PlacedBy(t.by, c) \/ TakenBy(t.by, c)
    BY <1>2 DEF CallsInv, ManagerInv
  <2>2. ~TakenBy(t.by, c)
    BY <1>1, <1>3 DEF TakenBy, Answers, Places
  <2>3. PICK f \in Eng : Places(t.by, c.id, f) /\ manager[t.by].engine \subseteq {f}
    BY <2>1, <2>2 DEF PlacedBy
  <2>4. e = f
    BY <1>3, <2>3
  <2>5. QED
    BY <1>1, <2>1, <2>2, <2>3, <2>4 DEF Places
<1>5. QED
  BY <1>1, <1>3, <1>4

LEMMA AcceptedFresh ==
  ASSUME TypeInv, CallsInv, FreshInv, FreshFrameKeys, NEW t \in tasks, AnswerAccepted(t)
  PROVE  FreshInv' /\ FreshFrameKeys'
<1>1. t.by \in Device /\ t.sdp \in SUBSET Number
  BY TaskShape DEF TypeInv
<1>2. /\ t.awaits = "acceptAnswer" /\ Open(t.engine) /\ tasks' \subseteq tasks
      /\ \A e \in t.engine : engines[e].remote = {}
      /\ engines' = Told(t.engine, t.sdp)
  BY DEF AnswerAccepted, Told
<1>3. t.sdp # {}
  BY <1>2 DEF CallsInv, TaskInv
<1>4. EnginesGrow
  BY <1>1, <1>2, <1>3, TellingGrows
<1>5. PICK n, ks : AnswerTaken(t.by, manager[t.by], n, ks)
  BY AnswerAcceptedEffect
<1>6. /\ ks = Derived(t.by, manager[t.by], "caller") /\ ks \in SUBSET Keys
      /\ Install(t.by, manager[t.by], "caller", ks)
      /\ manager[t.by] \in Manager /\ Single(manager[t.by])
  BY <1>1, <1>5 DEF AnswerTaken, TypeInv
<1>7. PICK e \in Eng : /\ t.engine = {e} /\ Places(t.by, t.call, e)
                       /\ \A c \in manager[t.by].current : c.id = t.call
  BY <1>2, AcceptingEngine
<1>8. ASSUME NEW k \in ks PROVE k.call = t.call /\ ks = {k}
  <2>1. AtMostOne(ks) /\ \E c \in manager[t.by].current : k.call = c.id
    BY <1>1, <1>6, DerivedKeys
  <2>2. QED
    BY <1>7, <2>1 DEF AtMostOne
<1>9. e \in Eng' /\ Placed(e)' /\ engines'[e].call = t.call /\ engines'[e].remote # {}
  <2>1. engines'[e].remote = t.sdp
    BY <1>1, <1>2, <1>7, EnginesTold DEF Eng
  <2>2. QED
    BY <1>3, <1>4, <1>7, <2>1, EnginesStand DEF Places, EnginesGrow
<1>10. ASSUME NEW i \in DOMAIN installed, installed[i].send = "caller" PROVE installed[i].keys # ks
  <2>1. PICK k \in installed[i].keys :
          /\ installed[i].keys = {k}
          /\ \E f \in Eng : Placed(f) /\ engines[f].call = k.call /\ engines[f].remote # {}
    BY <1>10 DEF FreshInv
  <2>2. PICK f \in Eng : Placed(f) /\ engines[f].call = k.call /\ engines[f].remote # {}
    BY <2>1
  <2>3. SUFFICES ASSUME k \in ks PROVE FALSE
    BY <2>1
  <2>4. Places(engines[f].by, t.call, f)
    BY <1>8, <2>2, <2>3 DEF Places
  <2>5. f = e
    BY <1>7, <2>4, PlacedOnce
  <2>6. QED
    BY <1>2, <1>7, <2>2, <2>5
<1>11. FreshFrameKeys'
  BY <1>1, <1>6, <1>10, InstalledFresh
<1>12. ASSUME NEW i \in DOMAIN installed' PROVE \E k \in installed'[i].keys : KeyUsed(i, k)'
  <2>1. ASSUME i \in DOMAIN installed, installed'[i] = installed[i]
        PROVE  \E k \in installed'[i].keys : KeyUsed(i, k)'
    <3>1. PICK k \in installed[i].keys : KeyUsed(i, k)
      BY <2>1 DEF FreshInv, KeyUsed
    <3>2. QED
      BY <1>2, <1>4, <2>1, <3>1, KeyStaysUsed
  <2>2. ASSUME ks # {}, installed'[i].keys = ks, installed'[i].send = "caller"
        PROVE  \E k \in installed'[i].keys : KeyUsed(i, k)'
    <3>1. PICK k \in ks : k.call = t.call /\ ks = {k}
      BY <1>8, <2>2
    <3>2. KeyUsed(i, k)'
      BY <1>9, <2>2, <3>1 DEF KeyUsed
    <3>3. QED
      BY <2>2, <3>1, <3>2
  <2>3. \/ i \in DOMAIN installed /\ installed'[i] = installed[i]
        \/ ks # {} /\ installed'[i].keys = ks /\ installed'[i].send = "caller"
    BY <1>1, <1>6, <1>12, InstalledWhere
  <2>4. QED
    BY <2>1, <2>2, <2>3
<1>13. FreshInv'
  BY <1>2, <1>12 DEF FreshInv, KeyUsed
<1>14. QED
  BY <1>11, <1>13

LEMMA EnginesStood ==
  ASSUME TypeInv, EnginesGrow, NEW d, NEW id, NEW e \in Eng
  PROVE  /\ Places(d, id, e)' => Places(d, id, e)
         /\ Answers(d, id, e)' => Answers(d, id, e)
<1>1. (Placed(e)' <=> Placed(e)) /\ engines'[e].by = engines[e].by /\ engines'[e].call = engines[e].call
  BY EnginesStand DEF EnginesGrow
<1>2. QED
  BY <1>1 DEF Places, Answers

LEMMA AnsweredFresh ==
  ASSUME TypeInv, CallsInv, FreshInv, FreshFrameKeys, NEW t \in tasks, AnswerMade(t)
  PROVE  FreshInv' /\ FreshFrameKeys'
<1>1. t.by \in Device /\ t.sdp \in SUBSET Number
  BY TaskShape DEF TypeInv
<1>2. t.awaits = "createAnswer" /\ engines' = Told(t.engine, t.sdp)
  BY DEF AnswerMade, Told
<1>3. t.sdp # {}
  BY <1>2 DEF CallsInv, TaskInv
<1>4. EnginesGrow
  BY <1>1, <1>2, <1>3, TellingGrows
<1>5. PICK n, w, ks : AnswerGiven(t.by, t, manager[t.by], n, w, ks)
  BY AnswerMadeEffect
<1>6. /\ ks = Derived(t.by, w, "callee") /\ ks \in SUBSET Keys
      /\ Install(t.by, w, "callee", ks) /\ w \in Manager /\ Single(w)
      /\ w.localFingerprint = t.engine
  BY <1>5 DEF AnswerGiven
<1>7. PICK f \in Eng : t.engine = {f}
  BY <1>2 DEF CallsInv, TaskInv
<1>8. ASSUME NEW k \in ks PROVE k.calleeFingerprint = f /\ ks = {k}
  <2>1. AtMostOne(ks) /\ \E l \in w.localFingerprint : k.calleeFingerprint = l
    BY <1>1, <1>6, DerivedKeys
  <2>2. QED
    BY <1>6, <1>7, <2>1 DEF AtMostOne
<1>9. \A u \in tasks' : u.awaits = "createAnswer" => u \in tasks /\ u # t
  BY <1>5 DEF AnswerGiven, TaskOf
<1>10. \A u \in tasks' : u.awaits = "createAnswer" => f \notin u.engine
  <2>1. ASSUME NEW u \in tasks', u.awaits = "createAnswer", f \in u.engine PROVE FALSE
    <3>1. u \in tasks /\ u # t
      BY <1>9, <2>1
    <3>2. PICK g \in Eng : u.engine = {g}
      BY <2>1, <3>1 DEF CallsInv, TaskInv
    <3>3. u.engine = t.engine
      BY <1>7, <2>1, <3>2
    <3>4. QED
      BY <1>2, <2>1, <3>1, <3>3 DEF FreshInv
  <2>2. QED
    BY <2>1
<1>11. ASSUME NEW i \in DOMAIN installed, installed[i].send = "callee" PROVE installed[i].keys # ks
  <2>1. PICK k \in installed[i].keys :
          /\ installed[i].keys = {k}
          /\ \A u \in tasks : u.awaits = "createAnswer" => k.calleeFingerprint \notin u.engine
    BY <1>11 DEF FreshInv
  <2>2. SUFFICES ASSUME k \in ks PROVE FALSE
    BY <2>1
  <2>3. QED
    BY <1>2, <1>7, <1>8, <2>1, <2>2
<1>12. FreshFrameKeys'
  BY <1>1, <1>6, <1>11, InstalledFresh
<1>13. ASSUME NEW i \in DOMAIN installed' PROVE \E k \in installed'[i].keys : KeyUsed(i, k)'
  <2>1. ASSUME i \in DOMAIN installed, installed'[i] = installed[i]
        PROVE  \E k \in installed'[i].keys : KeyUsed(i, k)'
    <3>1. PICK k \in installed[i].keys : KeyUsed(i, k)
      BY <2>1 DEF FreshInv, KeyUsed
    <3>2. QED
      BY <1>4, <1>9, <2>1, <3>1, KeyStaysUsed
  <2>2. ASSUME ks # {}, installed'[i].keys = ks, installed'[i].send = "callee"
        PROVE  \E k \in installed'[i].keys : KeyUsed(i, k)'
    <3>1. PICK k \in ks : k.calleeFingerprint = f /\ ks = {k}
      BY <1>8, <2>2
    <3>2. f \in Eng'
      BY <1>4, EnginesStand
    <3>3. KeyUsed(i, k)'
      BY <1>10, <2>2, <3>1, <3>2 DEF KeyUsed
    <3>4. QED
      BY <2>2, <3>1, <3>3
  <2>3. \/ i \in DOMAIN installed /\ installed'[i] = installed[i]
        \/ ks # {} /\ installed'[i].keys = ks /\ installed'[i].send = "callee"
    BY <1>1, <1>6, <1>13, InstalledWhere
  <2>4. QED
    BY <2>1, <2>2, <2>3
<1>14. FreshInv'
  BY <1>9, <1>13 DEF FreshInv, KeyUsed
<1>15. QED
  BY <1>12, <1>14

LEMMA AnsweringFresh ==
  ASSUME TypeInv, CallsInv, FreshInv, FreshFrameKeys, NEW d \in Device, AnswerCall(d)
  PROVE  FreshInv' /\ FreshFrameKeys'
<1>1. PICK c \in manager[d].current :
        /\ engines' = NewEngine(d, c.id) /\ installed' = installed
        /\ tasks' = tasks \cup {TaskOf("createAnswer", d, c.peer, c.id, {Len(engines) + 1},
                                       manager[d].pendingOfferSdp)}
  BY DEF AnswerCall, TaskOf
<1>2. PICK e : e = Len(engines) + 1
  OBVIOUS
<1>3. Len(engines) \in Nat /\ e \notin Eng
  BY <1>2 DEF TypeInv, Eng
<1>4. PICK u : u = TaskOf("createAnswer", d, c.peer, c.id, {e}, manager[d].pendingOfferSdp)
  OBVIOUS
<1>5. u.engine = {e} /\ tasks' = tasks \cup {u}
  BY <1>1, <1>2, <1>4 DEF TaskOf
<1>6. EnginesGrow
  <2>1. c.id \in Number
    BY ManagerFields, CallFields DEF TypeInv
  <2>2. QED
    BY <1>1, <2>1, MakingGrows
<1>7. \A t \in tasks : t.awaits = "createAnswer" => \E f \in Eng : t.engine = {f}
  BY DEF CallsInv, TaskInv
<1>8. \A s, t \in tasks' :
        s.awaits = "createAnswer" /\ t.awaits = "createAnswer" /\ s.engine = t.engine => s = t
  <2>1. \A t \in tasks : t.awaits = "createAnswer" => t.engine # u.engine
    BY <1>3, <1>5, <1>7
  <2>2. \A t \in tasks' : t \in tasks \/ t = u
    BY <1>5
  <2>3. QED
    BY <2>1, <2>2 DEF FreshInv
<1>9. \A t \in tasks' : t.awaits = "createAnswer" => t \in tasks \/ \A f \in Eng : f \notin t.engine
  BY <1>3, <1>5
<1>10. ASSUME NEW i \in DOMAIN installed' PROVE \E k \in installed'[i].keys : KeyUsed(i, k)'
  <2>1. i \in DOMAIN installed /\ installed'[i] = installed[i]
    BY <1>1, <1>10
  <2>2. PICK k \in installed[i].keys : KeyUsed(i, k)
    BY <2>1 DEF FreshInv, KeyUsed
  <2>3. QED
    BY <1>6, <1>9, <2>1, <2>2, KeyStaysUsed
<1>11. FreshInv'
  BY <1>8, <1>10 DEF FreshInv, KeyUsed
<1>12. QED
  BY <1>1, <1>11 DEF FreshFrameKeys

LEMMA FreshInvariance ==
  TypeInv /\ CallsInv /\ FreshInv /\ FreshFrameKeys /\ [Next]_vars => FreshInv' /\ FreshFrameKeys'
<1> SUFFICES ASSUME TypeInv, CallsInv, FreshInv, FreshFrameKeys, [Next]_vars
             PROVE  FreshInv' /\ FreshFrameKeys'
  OBVIOUS
<1>1. CASE \E t \in tasks : AnswerAccepted(t) \/ AnswerMade(t)
  BY <1>1, AcceptedFresh, AnsweredFresh
<1>2. CASE \E d \in Device : AnswerCall(d)
  BY <1>2, AnsweringFresh
<1>3. CASE ~(\E t \in tasks : AnswerAccepted(t) \/ AnswerMade(t)) /\ ~(\E d \in Device : AnswerCall(d))
  <2>1. installed' = installed
    BY <1>3 DEF Next, vars, PlaceCall, RefuseCall, HangUp, Teardown, OfferMade, SignalSent, HangupSent,
       Fails, ReceiveOffer, ReceiveAnswer, ReceiveHangup, Connects, Disconnects
  <2>2. CASE GuestsStay
    <3>1. \A t \in tasks' : t.awaits = "createAnswer" => t \in tasks
      BY <2>2 DEF GuestsStay
    <3>2. QED
      BY <2>1, <2>2, <3>1, FreshKept DEF GuestsStay
  <2>3. ASSUME NEW d \in Device, NEW peer \in Device \ {d}, PlaceCall(d, peer)
        PROVE  FreshInv' /\ FreshFrameKeys'
    <3>1. /\ engines' = NewEngine(d, calls + 1)
          /\ tasks' = tasks \cup {TaskOf("createOffer", d, peer, calls + 1, {Len(engines) + 1}, {})}
      BY <2>3 DEF PlaceCall, TaskOf
    <3>2. calls + 1 \in Number
      BY CallBounds DEF TypeInv, Number
    <3>3. EnginesGrow
      BY <3>1, <3>2, MakingGrows
    <3>4. \A t \in tasks' : t.awaits = "createAnswer" => t \in tasks
      BY <3>1 DEF TaskOf
    <3>5. QED
      BY <2>1, <3>3, <3>4, FreshKept
  <2>4. ASSUME NEW s \in signals, ReceiveOffer(s) PROVE FreshInv' /\ FreshFrameKeys'
    <3>1. engines' = engines /\ tasks' = tasks
      BY <2>4 DEF ReceiveOffer
    <3>2. QED
      BY <2>1, <3>1, FreshKept, KeepingGrows
  <2>5. QED
    BY <1>3, <2>2, <2>3, <2>4, StepKinds
<1>4. QED
  BY <1>1, <1>2, <1>3

LEMMA InitFresh == Init => FreshInv /\ FreshFrameKeys
BY DEF Init, FreshInv, FreshFrameKeys

\* No sending key is installed twice: a caller's engine takes one answer, and an
\* answer's engine derives keys once.
THEOREM KeysAlwaysFresh == Spec => []FreshFrameKeys
<1>1. Init => TypeInv /\ CallsInv /\ FreshInv /\ FreshFrameKeys
  BY InitTyped, InitCalls, InitFresh
<1>2. /\ TypeInv /\ CallsInv /\ FreshInv /\ FreshFrameKeys /\ [Next]_vars
      => (TypeInv /\ CallsInv /\ FreshInv /\ FreshFrameKeys)'
  BY CallsTyped, CallsInvariance, FreshInvariance
<1>3. QED
  BY <1>1, <1>2, PTL DEF Spec

-----------------------------------------------------------------------------
(* Each call has one guest.                                                *)

Invited(id, q) ==
  \/ \E t \in tasks : t.awaits = "createOffer" /\ t.call = id /\ t.peer = q
  \/ \E s \in signals : s.kind = "call-offer" /\ s.call = id /\ s.to = q
  \/ \E c \in manager[q].current : c.id = id /\ \E e \in Eng : Places(c.peer, id, e)
  \/ \E d \in Device : \E c \in manager[d].current :
       c.id = id /\ c.peer = q /\ \E e \in Eng : Places(d, id, e)
  \/ \E e \in Eng : Answers(q, id, e)

OneGuest == \A id \in 1 .. calls : \A q, r \in Device : Invited(id, q) /\ Invited(id, r) => q = r

\* Whoever is invited to a call was called when it was placed.
LEMMA GuestsCounted ==
  ASSUME TypeInv, CallsInv, NEW id, NEW q \in Device, Invited(id, q)
  PROVE  id \in 1 .. calls
<1>1. \A d, e : Places(d, id, e) \/ Answers(d, id, e) => id \in 1 .. calls
  BY DEF Places, Placed, Answers, CallsInv
<1>2. QED
  BY <1>1 DEF Invited, CallsInv, TaskInv, SignalInv

LEMMA GuestsKept ==
  ASSUME TypeInv, CallsInv, OneGuest, GuestsStay
  PROVE  OneGuest'
<1>1. /\ EnginesGrow /\ Eng' = Eng /\ calls' = calls
      /\ \A x \in Device : SameCalls(manager[x], manager'[x])
  BY DEF GuestsStay, Eng
<1>2. ASSUME NEW id, NEW q \in Device, Invited(id, q)' PROVE Invited(id, q)
  <2>1. ASSUME NEW t \in tasks', t.awaits = "createOffer", t.call = id, t.peer = q
        PROVE  Invited(id, q)
    BY <2>1 DEF GuestsStay, Invited
  <2>2. ASSUME NEW s \in signals', s.kind = "call-offer", s.call = id, s.to = q
        PROVE  Invited(id, q)
    BY <2>2 DEF GuestsStay, Invited
  <2>3. ASSUME NEW c \in manager'[q].current, c.id = id, NEW e \in Eng', Places(c.peer, id, e)'
        PROVE  Invited(id, q)
    <3>1. PICK b \in manager[q].current : b.id = c.id /\ b.peer = c.peer
      BY <1>1 DEF SameCalls
    <3>2. Places(b.peer, id, e)
      BY <1>1, <2>3, <3>1, EnginesStood
    <3>3. QED
      BY <1>1, <2>3, <3>1, <3>2 DEF Invited
  <2>4. ASSUME NEW d \in Device, NEW c \in manager'[d].current, c.id = id, c.peer = q,
               NEW e \in Eng', Places(d, id, e)'
        PROVE  Invited(id, q)
    <3>1. PICK b \in manager[d].current : b.id = c.id /\ b.peer = c.peer
      BY <1>1 DEF SameCalls
    <3>2. Places(d, id, e)
      BY <1>1, <2>4, EnginesStood
    <3>3. QED
      BY <1>1, <2>4, <3>1, <3>2 DEF Invited
  <2>5. ASSUME NEW e \in Eng', Answers(q, id, e)' PROVE Invited(id, q)
    BY <1>1, <2>5, EnginesStood DEF Invited
  <2>6. QED
    BY <1>2, <2>1, <2>2, <2>3, <2>4, <2>5 DEF Invited
<1>3. QED
  BY <1>1, <1>2 DEF OneGuest

LEMMA PlacedGuest ==
  ASSUME TypeInv, CallsInv, OneGuest, NEW d \in Device, NEW peer \in Device \ {d},
         PlaceCall(d, peer)
  PROVE  OneGuest'
<1>1. PICK id : id = calls + 1
  OBVIOUS
<1>2. PICK e : e = Len(engines) + 1
  OBVIOUS
<1>3. /\ id \in Number /\ calls \in Nat /\ id \notin 1 .. calls /\ Len(engines) \in Nat
      /\ e \in Number
  BY <1>1, <1>2, CallBounds DEF TypeInv, Number
<1>4. PICK u : u = TaskOf("createOffer", d, peer, id, {e}, {})
  OBVIOUS
<1>5. u.peer = peer /\ u.call = id
  BY <1>4 DEF TaskOf
<1>6. /\ calls' = id /\ engines' = NewEngine(d, id) /\ signals' = signals
      /\ tasks' = tasks \cup {u}
  BY <1>1, <1>2, <1>4 DEF PlaceCall, TaskOf
<1>7. /\ EnginesGrow /\ Len(engines') = e
      /\ engines'[e].by = d /\ engines'[e].call = id
  BY <1>2, <1>3, <1>6, EngineMade, MakingGrows
<1>8. Eng' = Eng \cup {e} /\ e \notin Eng
  BY <1>2, <1>3, <1>7 DEF Eng
<1>9. PICK n, c : CallPlaced(d, peer, n, c)
  BY PlaceCallEffect
<1>10. /\ manager'[d].current = {c} /\ c.id = id /\ c.peer = peer
       /\ \A x \in Device \ {d} : manager'[x] = manager[x]
  BY <1>1, <1>9 DEF CallPlaced, Puts
<1>11. \A x \in Device : \A b \in manager[x].current : b.id \in 1 .. calls
  <2>1. SUFFICES ASSUME NEW x \in Device, NEW b \in manager[x].current PROVE b.id \in 1 .. calls
    OBVIOUS
  <2>2. PICK f \in Eng : engines[f].call = b.id
    BY DEF CallsInv, ManagerInv, PlacedBy, TakenBy, Places
  <2>3. QED
    BY <2>2 DEF CallsInv
<1>12. \A t \in tasks : t.awaits = "createOffer" => t.call # id
  BY <1>3 DEF CallsInv, TaskInv, Places
<1>13. \A s \in signals : s.kind = "call-offer" => s.call # id
  BY <1>3 DEF CallsInv, SignalInv, Places
<1>14. \A f \in Eng : engines'[f].call # id
  BY <1>3, <1>7 DEF EnginesGrow, CallsInv
<1>15. Places(d, id, e)'
  <2>1. \A f \in Eng' : f < e => engines'[f].call # id
    BY <1>2, <1>3, <1>8, <1>14
  <2>2. QED
    BY <1>7, <1>8, <2>1 DEF Places, Placed
<1>16. ASSUME NEW q \in Device, Invited(id, q)' PROVE q = peer
  <2>1. ASSUME NEW t \in tasks', t.awaits = "createOffer", t.call = id, t.peer = q PROVE q = peer
    BY <1>5, <1>6, <1>12, <2>1
  <2>2. ASSUME NEW s \in signals', s.kind = "call-offer", s.call = id, s.to = q PROVE q = peer
    BY <1>6, <1>13, <2>2
  <2>3. ASSUME NEW b \in manager'[q].current, b.id = id, NEW f \in Eng', Places(b.peer, id, f)'
        PROVE  q = peer
    <3>1. q = d /\ b = c
      BY <1>3, <1>10, <1>11, <2>3
    <3>2. f = e
      BY <1>8, <1>14, <2>3 DEF Places
    <3>3. c.peer = d
      BY <1>7, <2>3, <3>1, <3>2 DEF Places
    <3>4. QED
      BY <1>10, <3>3
  <2>4. ASSUME NEW x \in Device, NEW b \in manager'[x].current, b.id = id, b.peer = q
        PROVE  q = peer
    BY <1>3, <1>10, <1>11, <2>4
  <2>5. ASSUME NEW f \in Eng', Answers(q, id, f)' PROVE q = peer
    <3>1. f = e
      BY <1>8, <1>14, <2>5 DEF Answers
    <3>2. QED
      BY <1>15, <2>5, <3>1 DEF Answers, Places
  <2>6. QED
    BY <1>16, <2>1, <2>2, <2>3, <2>4, <2>5 DEF Invited
<1>17. ASSUME NEW i \in 1 .. calls, NEW q \in Device, Invited(i, q)' PROVE Invited(i, q)
  <2>1. i # id
    BY <1>3
  <2>2. ASSUME NEW t \in tasks', t.awaits = "createOffer", t.call = i, t.peer = q
        PROVE  Invited(i, q)
    BY <1>5, <1>6, <2>1, <2>2 DEF Invited
  <2>3. ASSUME NEW s \in signals', s.kind = "call-offer", s.call = i, s.to = q PROVE Invited(i, q)
    BY <1>6, <2>3 DEF Invited
  <2>4. \A x, f : Places(x, i, f)' \/ Answers(x, i, f)' => f \in Eng
    BY <1>7, <1>8, <2>1 DEF Places, Placed, Answers
  <2>5. ASSUME NEW b \in manager'[q].current, b.id = i, NEW f \in Eng', Places(b.peer, i, f)'
        PROVE  Invited(i, q)
    <3>1. b \in manager[q].current
      BY <1>10, <2>1, <2>5
    <3>2. f \in Eng /\ Places(b.peer, i, f)
      BY <1>7, <2>4, <2>5, <3>1, EnginesStood
    <3>3. QED
      BY <2>5, <3>1, <3>2 DEF Invited
  <2>6. ASSUME NEW x \in Device, NEW b \in manager'[x].current, b.id = i, b.peer = q,
               NEW f \in Eng', Places(x, i, f)'
        PROVE  Invited(i, q)
    <3>1. b \in manager[x].current
      BY <1>10, <2>1, <2>6
    <3>2. f \in Eng /\ Places(x, i, f)
      BY <1>7, <2>4, <2>6, EnginesStood
    <3>3. QED
      BY <2>6, <3>1, <3>2 DEF Invited
  <2>7. ASSUME NEW f \in Eng', Answers(q, i, f)' PROVE Invited(i, q)
    <3>1. f \in Eng /\ Answers(q, i, f)
      BY <1>7, <2>4, <2>7, EnginesStood
    <3>2. QED
      BY <3>1 DEF Invited
  <2>8. QED
    BY <1>17, <2>2, <2>3, <2>5, <2>6, <2>7 DEF Invited
<1>18. \A i \in 1 .. calls' : i \in 1 .. calls \/ i = id
  BY <1>1, <1>3, <1>6
<1>19. QED
  BY <1>16, <1>17, <1>18 DEF OneGuest

LEMMA AnsweringGuest ==
  ASSUME TypeInv, CallsInv, OneGuest, NEW d \in Device, AnswerCall(d)
  PROVE  OneGuest'
<1>1. PICK c \in manager[d].current :
        /\ c.state = "ringing-incoming"
        /\ engines' = NewEngine(d, c.id)
        /\ manager' = [manager EXCEPT ![d].engine = {Len(engines) + 1}]
        /\ tasks' = tasks \cup {TaskOf("createAnswer", d, c.peer, c.id, {Len(engines) + 1},
                                       manager[d].pendingOfferSdp)}
        /\ signals' = signals /\ calls' = calls
  BY DEF AnswerCall, Ringing, TaskOf
<1>2. PICK e : e = Len(engines) + 1
  OBVIOUS
<1>3. e \in Number /\ Len(engines) \in Nat /\ c.id \in Number
  BY <1>2, ManagerFields, CallFields DEF TypeInv, Number
<1>4. /\ EnginesGrow /\ Len(engines') = e
      /\ engines'[e].by = d /\ engines'[e].call = c.id
  BY <1>1, <1>2, <1>3, EngineMade, MakingGrows
<1>5. Eng' = Eng \cup {e} /\ e \notin Eng
  BY <1>2, <1>3, <1>4 DEF Eng
<1>6. PICK n : EngineTaken(d, e, n)
  BY <1>1, <1>2, <1>3, EnginePut
<1>7. \A x \in Device : manager'[x].current = manager[x].current
  BY <1>6 DEF EngineTaken, Puts
<1>8. PICK a \in Eng : Places(c.peer, c.id, a)
  BY <1>1 DEF CallsInv, ManagerInv, PlacedBy, TakenBy
<1>9. ~Placed(e)' /\ Invited(c.id, d)
  <2>1. a < e /\ a \in Eng' /\ engines'[a].call = c.id
    BY <1>2, <1>3, <1>4, <1>5, <1>8 DEF Eng, Places, EnginesGrow
  <2>2. QED
    BY <1>4, <1>8, <2>1 DEF Placed, Invited
<1>10. ASSUME NEW i, NEW q \in Device, Invited(i, q)' PROVE Invited(i, q)
  <2>1. \A t \in tasks' : t.awaits = "createOffer" => t \in tasks
    BY <1>1 DEF TaskOf
  <2>2. \A x, f : Places(x, i, f)' => f \in Eng /\ Places(x, i, f)
    <3>1. SUFFICES ASSUME NEW x, NEW f, Places(x, i, f)' PROVE f \in Eng /\ Places(x, i, f)
      OBVIOUS
    <3>2. f \in Eng
      BY <1>5, <1>9, <3>1 DEF Places, Placed
    <3>3. QED
      BY <1>4, <3>1, <3>2, EnginesStood
  <2>3. ASSUME NEW f \in Eng', Answers(q, i, f)' PROVE Invited(i, q)
    <3>1. CASE f = e
      BY <1>4, <1>9, <2>3, <3>1 DEF Answers
    <3>2. CASE f \in Eng
      <4>1. Answers(q, i, f)
        BY <1>4, <2>3, <3>2, EnginesStood
      <4>2. QED
        BY <3>2, <4>1 DEF Invited
    <3>3. QED
      BY <1>5, <3>1, <3>2
  <2>4. QED
    BY <1>1, <1>7, <1>10, <2>1, <2>2, <2>3 DEF Invited
<1>11. QED
  BY <1>1, <1>10 DEF OneGuest

LEMMA OfferedGuest ==
  ASSUME TypeInv, CallsInv, OneGuest, NEW s \in signals, ReceiveOffer(s), ~Live(s.to)
  PROVE  OneGuest'
<1>1. /\ s \in Signal /\ s.from \in Device /\ s.to \in Device /\ s.call \in Number
      /\ s.sdp \in SUBSET Number /\ AtMostOne(s.sdp) /\ SignalInv(s)
  BY SignalShape DEF TypeInv, CallsInv
<1>2. PICK d \in Device : d = s.to
  BY <1>1
<1>3. /\ s.kind = "call-offer" /\ signals' \subseteq signals
      /\ manager' = [manager EXCEPT
           ![d].current = {[id |-> s.call, peer |-> s.from, state |-> "ringing-incoming",
                            words |-> {}]},
           ![d].mediaSecret = {s.call}, ![d].remoteFingerprint = s.sdp,
           ![d].pendingOfferSdp = s.sdp]
      /\ engines' = engines /\ tasks' = tasks /\ calls' = calls
  BY <1>2 DEF ReceiveOffer
<1>4. PICK n, c : OfferTaken(d, s.call, s.from, s.sdp, n, c)
  BY <1>1, <1>3, OfferPut
<1>5. /\ manager'[d].current = {c} /\ c.id = s.call /\ c.peer = s.from
      /\ \A x \in Device \ {d} : manager'[x] = manager[x]
  BY <1>4 DEF OfferTaken, Puts
<1>6. EnginesGrow /\ Eng' = Eng
  BY <1>3, KeepingGrows DEF Eng
<1>7. Invited(s.call, d)
  BY <1>2, <1>3 DEF Invited
<1>8. PICK a \in Eng : Places(s.from, s.call, a) /\ s.to # s.from
  BY <1>1, <1>3 DEF SignalInv
<1>10. ASSUME NEW i, NEW q \in Device, Invited(i, q)' PROVE Invited(i, q)
  <2>1. ASSUME NEW b \in manager'[q].current, b.id = i, NEW f \in Eng', Places(b.peer, i, f)'
        PROVE  Invited(i, q)
    <3>1. CASE q = d
      BY <1>5, <1>7, <2>1, <3>1
    <3>2. CASE q # d
      <4>1. b \in manager[q].current /\ Places(b.peer, i, f) /\ f \in Eng
        BY <1>5, <1>6, <2>1, <3>2, EnginesStood
      <4>2. QED
        BY <2>1, <4>1 DEF Invited
    <3>3. QED
      BY <3>1, <3>2
  <2>2. ASSUME NEW x \in Device, NEW b \in manager'[x].current, b.id = i, b.peer = q,
               NEW f \in Eng', Places(x, i, f)'
        PROVE  Invited(i, q)
    <3>1. Places(x, i, f) /\ f \in Eng
      BY <1>6, <2>2, EnginesStood
    <3>2. x # d
      <4>1. SUFFICES ASSUME x = d PROVE FALSE
        OBVIOUS
      <4>2. i = s.call
        BY <1>5, <2>2, <4>1
      <4>3. s.from = d
        BY <1>8, <3>1, <4>1, <4>2, PlacedOnce
      <4>4. QED
        BY <1>2, <1>8, <4>3
    <3>3. b \in manager[x].current
      BY <1>5, <2>2, <3>2
    <3>4. QED
      BY <2>2, <3>1, <3>3 DEF Invited
  <2>3. ASSUME NEW f \in Eng', Answers(q, i, f)' PROVE Invited(i, q)
    BY <1>6, <2>3, EnginesStood DEF Invited
  <2>4. ASSUME NEW t \in tasks', t.awaits = "createOffer", t.call = i, t.peer = q
        PROVE  Invited(i, q)
    BY <1>3, <2>4 DEF Invited
  <2>5. ASSUME NEW r \in signals', r.kind = "call-offer", r.call = i, r.to = q PROVE Invited(i, q)
    BY <1>3, <2>5 DEF Invited
  <2>6. QED
    BY <1>10, <2>1, <2>2, <2>3, <2>4, <2>5 DEF Invited
<1>11. QED
  BY <1>3, <1>10 DEF OneGuest

LEMMA GuestInvariance == TypeInv /\ CallsInv /\ OneGuest /\ [Next]_vars => OneGuest'
BY StepKinds, GuestsKept, PlacedGuest, AnsweringGuest, OfferedGuest

LEMMA InitGuest == Init => OneGuest
BY CallBounds DEF Init, OneGuest

-----------------------------------------------------------------------------
(* The words of a call.                                                    *)

\* A key that both ends of call id derive, from the engines it was made with.
RightWords(id, k) ==
  /\ k.secret = id /\ k.call = id
  /\ Places(k.caller, id, k.callerFingerprint)
  /\ Answers(k.callee, id, k.calleeFingerprint)

Fits(d) ==
  /\ \A e \in Eng : engines[e].by = d /\ engines[e].open => manager[d].engine = {e}
  /\ manager[d].localFingerprint \subseteq manager[d].engine
  /\ \A s \in manager[d].mediaSecret : \E c \in manager[d].current : c.id = s
  /\ \A c \in manager[d].current : \A e \in Eng :
       Places(c.peer, c.id, e) => manager[d].remoteFingerprint \subseteq {e}
  /\ \A c \in manager[d].current : \A k \in c.words : RightWords(c.id, k)

\* The fingerprint an unanswered engine's manager holds is of who answered it.
AskedRight(t) ==
  t.awaits = "acceptAnswer" /\ Open(t.engine) =>
    \A f \in manager[t.by].remoteFingerprint : \E q \in Device : Answers(q, t.call, f)

WordsInv == (\A d \in Device : Fits(d)) /\ \A t \in tasks : AskedRight(t)

\* A device's call is the one its engine was made for.
LEMMA OwnCall ==
  ASSUME TypeInv, NEW d \in Device, ManagerInv(d), NEW c \in manager[d].current,
         NEW e, manager[d].engine = {e}, NEW x, NEW i
  PROVE  /\ Places(x, i, e) => PlacedBy(d, c) /\ c.id = i /\ x = d
         /\ Answers(x, i, e) => TakenBy(d, c) /\ c.id = i /\ x = d
<1>1. PlacedBy(d, c) \/ TakenBy(d, c)
  BY DEF ManagerInv
<1>2. ASSUME PlacedBy(d, c) PROVE Places(d, c.id, e)
  BY <1>2 DEF PlacedBy
<1>3. ASSUME TakenBy(d, c) PROVE Answers(d, c.id, e)
  BY <1>3 DEF TakenBy
<1>4. QED
  BY <1>1, <1>2, <1>3 DEF Places, Answers

\* No engine of a step is the first of a call that a device has already.
LEMMA PlacedBefore ==
  ASSUME TypeInv, TypeInv', CallsInv, EnginesGrow, NEW d \in Device,
         NEW c \in manager[d].current, NEW x, NEW e, Places(x, c.id, e)'
  PROVE  e \in Eng /\ Places(x, c.id, e)
<1>1. PICK y, f : f \in Eng /\ Places(y, c.id, f)
  BY DEF CallsInv, ManagerInv, PlacedBy, TakenBy
<1>2. Places(y, c.id, f)'
  BY <1>1, EnginesStand
<1>3. e \in Nat /\ f \in Nat
  BY <1>2 DEF Places, Placed, Eng, TypeInv
<1>4. ~(e < f) /\ ~(f < e)
  BY <1>2 DEF Places, Placed
<1>5. e = f
  BY <1>3, <1>4
<1>6. QED
  BY <1>1, <1>5, EnginesStood

LEMMA RightStays ==
  ASSUME TypeInv, EnginesGrow, NEW id, NEW k, RightWords(id, k)
  PROVE  RightWords(id, k)'
BY EnginesStand DEF RightWords

\* What a manager keeps, or drops, where no fingerprint, secret or word is new.
Calm(m, n) ==
  /\ SameCalls(m, n)
  /\ \A c \in n.current : \E b \in m.current : b.id = c.id /\ c.words \subseteq b.words
  /\ n.mediaSecret \subseteq m.mediaSecret
  /\ n.localFingerprint \subseteq m.localFingerprint
  /\ n.remoteFingerprint \subseteq m.remoteFingerprint
  /\ n.engine = m.engine \/ n.localFingerprint = {}

LEMMA CalmFits ==
  ASSUME TypeInv, TypeInv', CallsInv, EnginesGrow, NEW d \in Device, Fits(d),
         Calm(manager[d], manager'[d]),
         manager'[d].engine = manager[d].engine \/ \A e \in manager[d].engine : ~engines'[e].open,
         \A e \in Eng' : e \in Eng \/ engines'[e].by # d
  PROVE  Fits(d)'
<1>1. ASSUME NEW e \in Eng', engines'[e].by = d, engines'[e].open
      PROVE  manager'[d].engine = {e}
  <2>1. e \in Eng /\ engines[e].by = d /\ engines[e].open
    BY <1>1 DEF EnginesGrow
  <2>2. manager[d].engine = {e}
    BY <2>1 DEF Fits
  <2>3. QED
    BY <1>1, <2>2
<1>2. manager'[d].localFingerprint \subseteq manager'[d].engine
  BY DEF Fits, Calm
<1>3. ASSUME NEW s \in manager'[d].mediaSecret PROVE \E c \in manager'[d].current : c.id = s
  BY <1>3 DEF Fits, Calm, SameCalls
<1>4. ASSUME NEW c \in manager'[d].current, NEW e \in Eng', Places(c.peer, c.id, e)'
      PROVE  manager'[d].remoteFingerprint \subseteq {e}
  <2>1. PICK b \in manager[d].current : b.id = c.id /\ b.peer = c.peer
    BY DEF Calm, SameCalls
  <2>2. e \in Eng /\ Places(b.peer, b.id, e)
    BY <1>4, <2>1, PlacedBefore
  <2>3. QED
    BY <2>1, <2>2 DEF Fits, Calm
<1>5. ASSUME NEW c \in manager'[d].current, NEW k \in c.words PROVE RightWords(c.id, k)'
  <2>1. PICK b \in manager[d].current : b.id = c.id /\ c.words \subseteq b.words
    BY DEF Calm
  <2>2. RightWords(c.id, k)
    BY <1>5, <2>1 DEF Fits
  <2>3. QED
    BY <2>2, RightStays
<1>6. QED
  BY <1>1, <1>2, <1>3, <1>4, <1>5 DEF Fits

LEMMA AskedStays ==
  ASSUME TypeInv, CallsInv, EnginesGrow, NEW t \in tasks, AskedRight(t),
         manager'[t.by].remoteFingerprint \subseteq manager[t.by].remoteFingerprint
  PROVE  AskedRight(t)'
<1>1. SUFFICES ASSUME t.awaits = "acceptAnswer", Open(t.engine)',
                      NEW f \in manager'[t.by].remoteFingerprint
               PROVE  \E q \in Device : Answers(q, t.call, f)'
  BY DEF AskedRight
<1>2. \A e \in t.engine : e \in Eng
  BY <1>1 DEF CallsInv, TaskInv
<1>3. Open(t.engine)
  BY <1>1, <1>2 DEF Open, EnginesGrow
<1>4. PICK q \in Device : Answers(q, t.call, f)
  BY <1>1, <1>3 DEF AskedRight
<1>5. QED
  BY <1>4, EnginesStand

\* A manager that keeps its engine.
LEMMA EngineKeptFits ==
  ASSUME TypeInv, TypeInv', CallsInv, EnginesGrow, Len(engines') = Len(engines),
         NEW d \in Device, Fits(d), NEW n, manager'[d] = n, SameCalls(manager[d], n),
         n.engine = manager[d].engine, n.mediaSecret \subseteq manager[d].mediaSecret,
         n.localFingerprint \subseteq n.engine,
         \A c \in manager[d].current : \A e \in Eng :
           Places(c.peer, c.id, e) => n.remoteFingerprint \subseteq {e},
         \A c \in n.current : \A k \in c.words : RightWords(c.id, k)
  PROVE  Fits(d)'
<1>1. \A e \in Eng' : engines'[e].by = d /\ engines'[e].open => manager'[d].engine = {e}
  BY DEF Fits, EnginesGrow, Eng
<1>2. \A s \in manager'[d].mediaSecret : \E c \in manager'[d].current : c.id = s
  BY DEF Fits, SameCalls
<1>3. ASSUME NEW c \in manager'[d].current, NEW e \in Eng', Places(c.peer, c.id, e)'
      PROVE  manager'[d].remoteFingerprint \subseteq {e}
  <2>1. PICK b \in manager[d].current : b.id = c.id /\ b.peer = c.peer
    BY DEF SameCalls
  <2>2. e \in Eng /\ Places(b.peer, b.id, e)
    BY <1>3, <2>1, PlacedBefore
  <2>3. QED
    BY <2>1, <2>2
<1>4. \A c \in manager'[d].current : \A k \in c.words : RightWords(c.id, k)'
  BY RightStays
<1>5. QED
  BY <1>1, <1>2, <1>3, <1>4 DEF Fits

LEMMA OthersFit ==
  ASSUME TypeInv, TypeInv', CallsInv, EnginesGrow, NEW d \in Device, NEW n, Puts(d, n),
         \A x \in Device : Fits(x), Fits(d)',
         \A e \in Eng' : e \in Eng \/ engines'[e].by = d
  PROVE  \A x \in Device : Fits(x)'
<1>1. ASSUME NEW x \in Device, x # d PROVE Fits(x)'
  <2>1. manager'[x] = manager[x]
    BY <1>1 DEF Puts
  <2>2. Calm(manager[x], manager'[x])
    BY <2>1 DEF Calm, SameCalls
  <2>3. QED
    BY <1>1, <2>1, <2>2, CalmFits
<1>2. QED
  BY <1>1

LEMMA CalmWords ==
  ASSUME TypeInv, TypeInv', CallsInv, WordsInv, EnginesGrow, Len(engines') = Len(engines),
         \A x \in Device : /\ Calm(manager[x], manager'[x])
                           /\ \/ manager'[x].engine = manager[x].engine
                              \/ \A e \in manager[x].engine : ~engines'[e].open,
         \A t \in tasks' : t \in tasks \/ t.awaits # "acceptAnswer"
  PROVE  WordsInv'
<1>1. Eng' = Eng
  BY DEF Eng
<1>2. \A x \in Device : Fits(x)'
  BY <1>1, CalmFits DEF WordsInv
<1>3. ASSUME NEW t \in tasks', t \in tasks PROVE AskedRight(t)'
  <2>1. t.by \in Device
    BY <1>3, TaskShape DEF TypeInv
  <2>2. manager'[t.by].remoteFingerprint \subseteq manager[t.by].remoteFingerprint
    BY <2>1 DEF Calm
  <2>3. QED
    BY <1>3, <2>2, AskedStays DEF WordsInv
<1>4. \A t \in tasks' : AskedRight(t)'
  BY <1>3 DEF AskedRight
<1>5. QED
  BY <1>2, <1>4 DEF WordsInv

\* Only d's manager moves, calmly.
LEMMA OneCalm ==
  ASSUME NEW d \in Device, NEW n, Puts(d, n), Calm(manager[d], n),
         n.engine = manager[d].engine \/ \A e \in manager[d].engine : ~engines'[e].open
  PROVE  \A x \in Device : /\ Calm(manager[x], manager'[x])
                           /\ \/ manager'[x].engine = manager[x].engine
                              \/ \A e \in manager[x].engine : ~engines'[e].open
<1>1. ASSUME NEW x \in Device, x # d
      PROVE  Calm(manager[x], manager'[x]) /\ manager'[x].engine = manager[x].engine
  BY <1>1 DEF Puts, Calm, SameCalls
<1>2. manager'[d] = n
  BY DEF Puts
<1>3. QED
  BY <1>1, <1>2

LEMMA NoneCalm ==
  ASSUME manager' = manager
  PROVE  \A x \in Device : /\ Calm(manager[x], manager'[x])
                           /\ \/ manager'[x].engine = manager[x].engine
                              \/ \A e \in manager[x].engine : ~engines'[e].open
BY DEF Calm, SameCalls

LEMMA TeardownCalm ==
  ASSUME TypeInv, TypeInv', CallsInv, WordsInv, NEW d \in Device, Teardown(d),
         tasks' \subseteq tasks
  PROVE  WordsInv'
<1>1. PICK n : TornDown(d, manager[d], n)
  BY TeardownEffect
<1>2. Calm(manager[d], n) /\ Puts(d, n)
  BY <1>1 DEF TornDown, Calm, Keeps
<1>3. EnginesGrow /\ Len(engines') = Len(engines)
  BY TeardownGrows
<1>4. \A e \in manager[d].engine : ~engines'[e].open
  <2>1. \A e \in manager[d].engine : e \in 1 .. Len(engines)
    BY DEF CallsInv, ManagerInv, PlacedBy, TakenBy, Places, Placed, Answers, Eng, Live
  <2>2. QED
    BY <2>1, TeardownEffect
<1>5. QED
  BY <1>2, <1>3, <1>4, OneCalm, CalmWords

LEMMA QuietCalm ==
  ASSUME TypeInv, TypeInv', CallsInv, WordsInv, manager' = manager, engines' = engines,
         \A t \in tasks' : t \in tasks \/ t.awaits # "acceptAnswer"
  PROVE  WordsInv'
BY KeepingGrows, NoneCalm, CalmWords

\* A manager whose call changes state, and nothing else.
LEMMA StateCalm ==
  ASSUME TypeInv, TypeInv', CallsInv, WordsInv, EnginesGrow, Len(engines') = Len(engines),
         NEW d \in Device, NEW state, NEW n, StateSet(d, state, manager[d], n),
         tasks' \subseteq tasks
  PROVE  WordsInv'
<1>1. Calm(manager[d], n) /\ Puts(d, n) /\ n.engine = manager[d].engine
  BY DEF StateSet, Calm, Keeps
<1>2. QED
  BY <1>1, OneCalm, CalmWords

LEMMA OfferMadeWords ==
  ASSUME TypeInv, TypeInv', CallsInv, WordsInv, NEW t \in tasks, OfferMade(t)
  PROVE  WordsInv'
<1>1. t.by \in Device /\ t.engine \in SUBSET Number /\ AtMostOne(t.engine)
  BY TaskShape DEF TypeInv
<1>2. /\ t.awaits = "createOffer" /\ Open(t.engine) /\ tasks' \subseteq tasks
      /\ manager' = [manager EXCEPT ![t.by].localFingerprint = t.engine]
      /\ engines' = engines
  BY DEF OfferMade
<1>3. EnginesGrow /\ Len(engines') = Len(engines) /\ Eng' = Eng
  BY <1>2, KeepingGrows DEF Eng
<1>4. PICK n : /\ Puts(t.by, n)
               /\ SameBut(manager[t.by], n, t.engine, manager[t.by].remoteFingerprint)
  BY <1>1, <1>2, LocalPut
<1>5. PICK e \in Eng : t.engine = {e} /\ Places(t.by, t.call, e)
  BY <1>2 DEF CallsInv, TaskInv
<1>6. manager[t.by].engine = {e}
  BY <1>1, <1>2, <1>5 DEF WordsInv, Fits, Places, Open
<1>7. Fits(t.by)'
  <2>1. /\ SameCalls(manager[t.by], n) /\ manager'[t.by] = n
        /\ n.current = manager[t.by].current
        /\ n.engine = manager[t.by].engine /\ n.mediaSecret = manager[t.by].mediaSecret
        /\ n.localFingerprint = n.engine
        /\ n.remoteFingerprint = manager[t.by].remoteFingerprint
    BY <1>4, <1>5, <1>6 DEF Puts, SameBut, SameCalls
  <2>2. Fits(t.by)
    BY <1>1 DEF WordsInv
  <2>3. /\ \A c \in manager[t.by].current : \A f \in Eng :
             Places(c.peer, c.id, f) => n.remoteFingerprint \subseteq {f}
        /\ \A c \in n.current : \A k \in c.words : RightWords(c.id, k)
    BY <2>1, <2>2 DEF Fits
  <2>4. QED
    BY <1>1, <1>3, <2>1, <2>2, <2>3, EngineKeptFits
<1>8. \A x \in Device : Fits(x)'
  BY <1>1, <1>3, <1>4, <1>7, OthersFit DEF WordsInv
<1>9. ASSUME NEW u \in tasks' PROVE AskedRight(u)'
  <2>1. u \in tasks /\ u.by \in Device
    BY <1>2, TaskShape DEF TypeInv
  <2>2. manager'[u.by].remoteFingerprint = manager[u.by].remoteFingerprint
    BY <1>4, <2>1 DEF Puts, SameBut
  <2>3. QED
    BY <1>3, <2>1, <2>2, AskedStays DEF WordsInv
<1>10. QED
  BY <1>8, <1>9 DEF WordsInv

\* The caller's keys.
LEMMA AcceptedWords ==
  ASSUME TypeInv, TypeInv', CallsInv, OneGuest, WordsInv, NEW t \in tasks, AnswerAccepted(t)
  PROVE  WordsInv'
<1>1. t.by \in Device /\ t.sdp \in SUBSET Number
  BY TaskShape DEF TypeInv
<1>2. /\ t.awaits = "acceptAnswer" /\ Open(t.engine) /\ tasks' \subseteq tasks
      /\ engines' = Told(t.engine, t.sdp)
  BY DEF AnswerAccepted, Told
<1>3. t.sdp # {}
  BY <1>2 DEF CallsInv, TaskInv
<1>4. EnginesGrow /\ Len(engines') = Len(engines) /\ Eng' = Eng
  BY <1>1, <1>2, <1>3, TellingGrows DEF Eng
<1>5. PICK m : m = manager[t.by]
  OBVIOUS
<1>6. PICK n, ks : AnswerTaken(t.by, m, n, ks)
  BY <1>5, AnswerAcceptedEffect
<1>7. /\ ks = Derived(t.by, m, "caller") /\ m \in Manager /\ Single(m) /\ Fits(t.by)
  BY <1>1, <1>5, <1>6 DEF AnswerTaken, TypeInv, WordsInv
<1>8. PICK e \in Eng : /\ t.engine = {e} /\ Places(t.by, t.call, e) /\ m.engine = {e}
                       /\ \A c \in m.current : c.id = t.call
  BY <1>2, <1>5, AcceptingEngine
<1>9. t.call \in 1 .. calls
  BY <1>8 DEF CallsInv, Places
<1>10. ASSUME NEW k \in ks PROVE RightWords(t.call, k)
  <2>1. PICK c \in m.current, l \in m.localFingerprint, r \in m.remoteFingerprint :
          /\ k.secret \in m.mediaSecret /\ k.call = c.id /\ k.caller = t.by /\ k.callee = c.peer
          /\ k.callerFingerprint = l /\ k.calleeFingerprint = r
    BY <1>1, <1>7, DerivedKeys
  <2>2. c.id = t.call /\ k.secret = t.call
    BY <1>5, <1>7, <1>8, <2>1 DEF Fits
  <2>3. l = e
    BY <1>5, <1>7, <1>8, <2>1 DEF Fits
  <2>4. PICK q \in Device : Answers(q, t.call, r)
    BY <1>2, <1>5, <2>1 DEF WordsInv, AskedRight
  <2>5. Invited(t.call, q)
    BY <2>4 DEF Invited, Answers
  <2>6. c.peer \in Device
    BY <1>7, ManagerFields, CallFields
  <2>7. Invited(t.call, c.peer)
    BY <1>1, <1>5, <1>8, <2>2 DEF Invited
  <2>8. q = c.peer
    BY <1>9, <2>5, <2>6, <2>7 DEF OneGuest
  <2>9. QED
    BY <1>8, <2>1, <2>2, <2>3, <2>4, <2>8 DEF RightWords
<1>11. Fits(t.by)'
  <2>1. /\ SameCalls(m, n) /\ manager'[t.by] = n /\ n.engine = m.engine
        /\ n.mediaSecret = m.mediaSecret /\ n.localFingerprint = m.localFingerprint
        /\ n.remoteFingerprint = m.remoteFingerprint
    BY <1>6 DEF AnswerTaken, Puts, Keeps
  <2>2. ASSUME NEW c \in n.current, NEW k \in c.words PROVE RightWords(c.id, k)
    <3>1. CASE ks = {}
      BY <1>5, <1>6, <1>7, <2>2, <3>1 DEF AnswerTaken, Fits
    <3>2. CASE ks # {}
      <4>1. c.words = ks
        BY <1>6, <3>2 DEF AnswerTaken
      <4>2. c.id = t.call
        BY <1>8, <2>1 DEF SameCalls
      <4>3. QED
        BY <1>10, <2>2, <4>1, <4>2
    <3>3. QED
      BY <3>1, <3>2
  <2>3. /\ n.localFingerprint \subseteq n.engine
        /\ \A c \in m.current : \A f \in Eng :
             Places(c.peer, c.id, f) => n.remoteFingerprint \subseteq {f}
    BY <1>5, <1>7, <2>1 DEF Fits
  <2>4. QED
    BY <1>1, <1>4, <1>5, <1>7, <2>1, <2>2, <2>3, EngineKeptFits
<1>12. \A x \in Device : Fits(x)'
  BY <1>1, <1>4, <1>6, <1>11, OthersFit DEF WordsInv, AnswerTaken
<1>13. ASSUME NEW u \in tasks' PROVE AskedRight(u)'
  <2>1. u \in tasks /\ u.by \in Device
    BY <1>2, TaskShape DEF TypeInv
  <2>2. manager'[u.by].remoteFingerprint = manager[u.by].remoteFingerprint
    BY <1>5, <1>6, <2>1 DEF AnswerTaken, Puts
  <2>3. QED
    BY <1>4, <2>1, <2>2, AskedStays DEF WordsInv
<1>14. QED
  BY <1>12, <1>13 DEF WordsInv

\* The callee's keys.
LEMMA AnsweredWords ==
  ASSUME TypeInv, TypeInv', CallsInv, WordsInv, NEW t \in tasks, AnswerMade(t)
  PROVE  WordsInv'
<1>1. t.by \in Device /\ t.sdp \in SUBSET Number
  BY TaskShape DEF TypeInv
<1>2. t.awaits = "createAnswer" /\ Open(t.engine) /\ engines' = Told(t.engine, t.sdp)
  BY DEF AnswerMade, Told
<1>3. t.sdp # {}
  BY <1>2 DEF CallsInv, TaskInv
<1>4. EnginesGrow /\ Len(engines') = Len(engines) /\ Eng' = Eng
  BY <1>1, <1>2, <1>3, TellingGrows DEF Eng
<1>5. PICK m : m = manager[t.by]
  OBVIOUS
<1>6. PICK n, w, ks : AnswerGiven(t.by, t, m, n, w, ks)
  BY <1>5, AnswerMadeEffect
<1>7. /\ ks = Derived(t.by, w, "callee") /\ w \in Manager /\ Single(w) /\ Fits(t.by)
      /\ w.current = m.current /\ w.mediaSecret = m.mediaSecret
      /\ w.localFingerprint = t.engine /\ w.remoteFingerprint = m.remoteFingerprint
  BY <1>1, <1>5, <1>6 DEF AnswerGiven, WordsInv
<1>8. PICK f \in Eng : t.engine = {f} /\ Answers(t.by, t.call, f)
  BY <1>2 DEF CallsInv, TaskInv
<1>9. m.engine = {f}
  BY <1>2, <1>5, <1>7, <1>8 DEF Fits, Answers, Open
<1>10. \A c \in m.current : TakenBy(t.by, c) /\ c.id = t.call
  BY <1>1, <1>5, <1>8, <1>9, OwnCall DEF CallsInv
<1>11. ASSUME NEW k \in ks PROVE RightWords(t.call, k)
  <2>1. PICK c \in w.current, l \in w.localFingerprint, r \in w.remoteFingerprint :
          /\ k.secret \in w.mediaSecret /\ k.call = c.id /\ k.caller = c.peer /\ k.callee = t.by
          /\ k.callerFingerprint = r /\ k.calleeFingerprint = l
    BY <1>1, <1>7, DerivedKeys
  <2>2. c.id = t.call /\ k.secret = t.call
    BY <1>5, <1>7, <1>10, <2>1 DEF Fits
  <2>3. l = f
    BY <1>7, <1>8, <2>1
  <2>4. PICK e \in Eng : Places(c.peer, c.id, e)
    BY <1>7, <1>10, <2>1 DEF TakenBy
  <2>5. r = e
    BY <1>5, <1>7, <2>1, <2>4 DEF Fits
  <2>6. QED
    BY <1>8, <2>1, <2>2, <2>3, <2>4, <2>5 DEF RightWords
<1>12. Fits(t.by)'
  <2>1. /\ SameCalls(m, n) /\ manager'[t.by] = n /\ n.engine = m.engine
        /\ n.mediaSecret = m.mediaSecret /\ n.localFingerprint = t.engine
        /\ n.remoteFingerprint = m.remoteFingerprint
    BY <1>6 DEF AnswerGiven, Puts, Keeps
  <2>2. ASSUME NEW c \in n.current, NEW k \in c.words PROVE RightWords(c.id, k)
    <3>1. CASE ks = {}
      <4>1. c \in m.current
        BY <1>6, <1>7, <3>1 DEF AnswerGiven
      <4>2. QED
        BY <1>5, <1>7, <2>2, <4>1 DEF Fits
    <3>2. CASE ks # {}
      <4>1. c.words = ks
        BY <1>6, <3>2 DEF AnswerGiven
      <4>2. c.id = t.call
        BY <1>10, <2>1 DEF SameCalls
      <4>3. QED
        BY <1>11, <2>2, <4>1, <4>2
    <3>3. QED
      BY <3>1, <3>2
  <2>3. /\ n.localFingerprint \subseteq n.engine
        /\ \A c \in m.current : \A g \in Eng :
             Places(c.peer, c.id, g) => n.remoteFingerprint \subseteq {g}
    BY <1>5, <1>7, <1>8, <1>9, <2>1 DEF Fits
  <2>4. QED
    BY <1>1, <1>4, <1>5, <1>7, <2>1, <2>2, <2>3, EngineKeptFits
<1>13. \A x \in Device : Fits(x)'
  BY <1>1, <1>4, <1>6, <1>12, OthersFit DEF WordsInv, AnswerGiven
<1>14. \A u \in tasks' : u \in tasks \/ u.awaits = "answerSent"
  BY <1>6 DEF AnswerGiven, TaskOf
<1>15. ASSUME NEW u \in tasks' PROVE AskedRight(u)'
  <2>1. CASE u \in tasks
    <3>1. u.by \in Device
      BY <2>1, TaskShape DEF TypeInv
    <3>2. manager'[u.by].remoteFingerprint = manager[u.by].remoteFingerprint
      BY <1>5, <1>6, <3>1 DEF AnswerGiven, Puts
    <3>3. QED
      BY <1>4, <2>1, <3>2, AskedStays DEF WordsInv
  <2>2. CASE u \notin tasks
    BY <1>14, <2>2 DEF AskedRight
  <2>3. QED
    BY <2>1, <2>2
<1>16. QED
  BY <1>13, <1>15 DEF WordsInv

LEMMA AnswerReceivedWords ==
  ASSUME TypeInv, TypeInv', CallsInv, WordsInv, NEW s \in signals, ReceiveAnswer(s)
  PROVE  WordsInv'
<1>1. s.from \in Device /\ s.to \in Device /\ s.sdp \in SUBSET Number /\ AtMostOne(s.sdp)
  BY SignalShape DEF TypeInv
<1>2. /\ s.kind = "call-answer" /\ engines' = engines
      /\ IF \E c \in manager[s.to].current : c.id = s.call /\ c.peer = s.from
         THEN /\ manager' = [manager EXCEPT ![s.to].remoteFingerprint = s.sdp]
              /\ tasks' = tasks \cup {TaskOf("acceptAnswer", s.to, s.from, s.call, {e}, s.sdp) :
                                       e \in manager[s.to].engine}
         ELSE UNCHANGED <<manager, tasks>>
  BY DEF ReceiveAnswer, TaskOf
<1>3. EnginesGrow /\ Len(engines') = Len(engines) /\ Eng' = Eng
  BY <1>2, KeepingGrows DEF Eng
<1>4. CASE ~\E c \in manager[s.to].current : c.id = s.call /\ c.peer = s.from
  BY <1>2, <1>4, QuietCalm
<1>5. CASE \E c \in manager[s.to].current : c.id = s.call /\ c.peer = s.from
  <2>1. PICK m : m = manager[s.to]
    OBVIOUS
  <2>2. PICK n : Puts(s.to, n) /\ SameBut(m, n, m.localFingerprint, s.sdp)
    BY <1>1, <1>2, <1>5, <2>1, RemotePut
  <2>3. PICK b \in m.current : b.id = s.call
    BY <1>5, <2>1
  <2>4. \A c \in m.current : c = b
    BY <1>1, <2>1 DEF TypeInv, Single, AtMostOne
  <2>5. PICK e, f : /\ Places(s.to, s.call, e) /\ s.sdp = {f} /\ Answers(s.from, s.call, f)
    BY <1>2 DEF CallsInv, SignalInv
  <2>6. b.peer # s.to /\ Fits(s.to)
    BY <1>1, <2>1 DEF CallsInv, ManagerInv, WordsInv
  <2>7. Fits(s.to)'
    <3>1. /\ SameCalls(m, n) /\ manager'[s.to] = n /\ n.current = m.current
          /\ n.engine = m.engine /\ n.mediaSecret = m.mediaSecret
          /\ n.localFingerprint = m.localFingerprint
      BY <2>2 DEF Puts, SameBut, SameCalls
    <3>2. ASSUME NEW c \in m.current, NEW g \in Eng, Places(c.peer, c.id, g)
          PROVE  n.remoteFingerprint \subseteq {g}
      <4>1. Places(b.peer, s.call, g)
        BY <2>3, <2>4, <3>2
      <4>2. QED
        BY <2>5, <2>6, <4>1, PlacedOnce
    <3>3. /\ n.localFingerprint \subseteq n.engine
          /\ \A c \in n.current : \A k \in c.words : RightWords(c.id, k)
      BY <2>1, <2>6, <3>1 DEF Fits
    <3>4. QED
      BY <1>1, <1>3, <2>1, <2>6, <3>1, <3>2, <3>3, EngineKeptFits
  <2>8. \A x \in Device : Fits(x)'
    BY <1>1, <1>3, <2>2, <2>7, OthersFit DEF WordsInv
  <2>9. ASSUME NEW t \in tasks', t.awaits = "acceptAnswer", Open(t.engine)',
               NEW g \in manager'[t.by].remoteFingerprint
        PROVE  \E q \in Device : Answers(q, t.call, g)
    <3>1. CASE t \in tasks /\ t.by # s.to
      <4>1. t.by \in Device
        BY <3>1, TaskShape DEF TypeInv
      <4>2. manager'[t.by] = manager[t.by]
        BY <2>2, <3>1, <4>1 DEF Puts
      <4>3. Open(t.engine)
        BY <1>2, <2>9 DEF Open
      <4>4. QED
        BY <2>9, <3>1, <4>2, <4>3 DEF WordsInv, AskedRight
    <3>2. CASE t \in tasks /\ t.by = s.to
      <4>1. Open(t.engine)
        BY <1>2, <2>9 DEF Open
      <4>2. b.id = t.call
        BY <2>1, <2>3, <2>9, <3>2, <4>1, AcceptingEngine
      <4>3. g = f
        BY <2>2, <2>5, <2>9, <3>2 DEF Puts, SameBut
      <4>4. QED
        BY <1>1, <2>3, <2>5, <4>2, <4>3
    <3>3. CASE t \notin tasks
      <4>1. t.by = s.to /\ t.call = s.call
        BY <1>2, <1>5, <3>3 DEF TaskOf
      <4>2. g = f
        BY <2>2, <2>5, <2>9, <4>1 DEF Puts, SameBut
      <4>3. QED
        BY <1>1, <2>5, <4>1, <4>2
    <3>4. QED
      BY <3>1, <3>2, <3>3
  <2>10. ASSUME NEW t \in tasks' PROVE AskedRight(t)'
    BY <1>3, <2>9, EnginesStand DEF AskedRight
  <2>11. QED
    BY <2>8, <2>10 DEF WordsInv
<1>6. QED
  BY <1>4, <1>5

\* A device that takes up a call where it has no engine.
LEMMA TakenUpAsked ==
  ASSUME TypeInv, CallsInv, WordsInv, EnginesGrow, NEW d \in Device, NEW n, Puts(d, n),
         ~Live(d), \A t \in tasks' : t \in tasks \/ t.awaits # "acceptAnswer"
  PROVE  \A t \in tasks' : AskedRight(t)'
<1>1. manager[d].engine = {}
  BY DEF CallsInv, ManagerInv
<1>2. ASSUME NEW t \in tasks', t.awaits = "acceptAnswer", Open(t.engine)' PROVE AskedRight(t)'
  <2>1. t \in tasks /\ t.by \in Device
    BY <1>2, TaskShape DEF TypeInv
  <2>2. \A e \in t.engine : e \in Eng
    BY <1>2, <2>1 DEF CallsInv, TaskInv
  <2>3. Open(t.engine)
    BY <1>2, <2>2 DEF Open, EnginesGrow
  <2>4. manager[t.by].engine # {}
    BY <1>2, <2>1, <2>3, AcceptingEngine
  <2>5. manager'[t.by] = manager[t.by]
    BY <1>1, <2>1, <2>4 DEF Puts
  <2>6. QED
    BY <2>1, <2>5, AskedStays DEF WordsInv
<1>3. QED
  BY <1>2 DEF AskedRight

LEMMA OfferTakenWords ==
  ASSUME TypeInv, TypeInv', CallsInv, WordsInv, NEW s \in signals, ReceiveOffer(s), ~Live(s.to)
  PROVE  WordsInv'
<1>1. /\ s \in Signal /\ s.from \in Device /\ s.to \in Device /\ s.call \in Number
      /\ s.sdp \in SUBSET Number /\ AtMostOne(s.sdp)
  BY SignalShape DEF TypeInv
<1>2. PICK d \in Device : d = s.to
  BY <1>1
<1>3. /\ s.kind = "call-offer"
      /\ manager' = [manager EXCEPT
           ![d].current = {[id |-> s.call, peer |-> s.from, state |-> "ringing-incoming",
                            words |-> {}]},
           ![d].mediaSecret = {s.call}, ![d].remoteFingerprint = s.sdp,
           ![d].pendingOfferSdp = s.sdp]
      /\ engines' = engines /\ tasks' = tasks
  BY <1>2 DEF ReceiveOffer
<1>4. PICK n, c : OfferTaken(d, s.call, s.from, s.sdp, n, c)
  BY <1>1, <1>3, OfferPut
<1>5. /\ Puts(d, n) /\ manager'[d] = n /\ n.current = {c} /\ c.id = s.call /\ c.peer = s.from
      /\ c.words = {} /\ n.mediaSecret = {s.call} /\ n.remoteFingerprint = s.sdp
      /\ n.engine = manager[d].engine /\ n.localFingerprint = manager[d].localFingerprint
  BY <1>4 DEF OfferTaken, Puts
<1>6. EnginesGrow /\ Eng' = Eng
  BY <1>3, KeepingGrows DEF Eng
<1>7. PICK e \in Eng : s.sdp = {e} /\ Places(s.from, s.call, e)
  BY <1>3 DEF CallsInv, SignalInv
<1>8. Fits(d)'
  <2>1. \A f \in Eng' : engines'[f].by = d /\ engines'[f].open => manager'[d].engine = {f}
    BY <1>3, <1>5, <1>6 DEF WordsInv, Fits
  <2>2. manager'[d].localFingerprint \subseteq manager'[d].engine
    BY <1>5 DEF WordsInv, Fits
  <2>3. ASSUME NEW b \in manager'[d].current, NEW f \in Eng', Places(b.peer, b.id, f)'
        PROVE  manager'[d].remoteFingerprint \subseteq {f}
    <3>1. Places(s.from, s.call, f)
      BY <1>5, <1>6, <2>3, EnginesStood
    <3>2. QED
      BY <1>5, <1>7, <3>1, PlacedOnce
  <2>4. QED
    BY <1>5, <2>1, <2>2, <2>3 DEF Fits
<1>9. \A x \in Device : Fits(x)'
  BY <1>5, <1>6, <1>8, OthersFit DEF WordsInv
<1>10. QED
  BY <1>2, <1>3, <1>5, <1>6, <1>9, TakenUpAsked DEF WordsInv

LEMMA PlacedWords ==
  ASSUME TypeInv, TypeInv', CallsInv, WordsInv, NEW d \in Device, NEW peer \in Device \ {d},
         PlaceCall(d, peer)
  PROVE  WordsInv'
<1>1. PICK id : id = calls + 1
  OBVIOUS
<1>2. PICK e : e = Len(engines) + 1
  OBVIOUS
<1>3. id \in Number /\ id \notin 1 .. calls /\ Len(engines) \in Nat /\ e \in Number
  BY <1>1, <1>2, CallBounds DEF TypeInv, Number
<1>4. /\ engines' = NewEngine(d, id) /\ ~Live(d)
      /\ tasks' = tasks \cup {TaskOf("createOffer", d, peer, id, {e}, {})}
  BY <1>1, <1>2 DEF PlaceCall, TaskOf
<1>5. /\ EnginesGrow /\ Len(engines') = e /\ engines'[e].by = d /\ engines'[e].call = id
  BY <1>2, <1>3, <1>4, EngineMade, MakingGrows
<1>6. Eng' = Eng \cup {e} /\ e \notin Eng
  BY <1>2, <1>3, <1>5 DEF Eng
<1>7. PICK n, c : CallPlaced(d, peer, n, c)
  BY PlaceCallEffect
<1>8. /\ Puts(d, n) /\ manager'[d] = n /\ n.current = {c} /\ c.id = id /\ c.peer = peer
      /\ c.words = {} /\ n.mediaSecret = {id} /\ n.engine = {e}
      /\ n.localFingerprint = manager[d].localFingerprint
  BY <1>1, <1>2, <1>7 DEF CallPlaced, Puts
<1>9. manager[d].engine = {} /\ Fits(d)
  BY <1>4 DEF CallsInv, ManagerInv, WordsInv
<1>10. Fits(d)'
  <2>1. ASSUME NEW f \in Eng', engines'[f].by = d, engines'[f].open PROVE f = e
    <3>1. SUFFICES ASSUME f \in Eng PROVE FALSE
      BY <1>6, <2>1
    <3>2. engines[f].by = d /\ engines[f].open
      BY <1>5, <2>1, <3>1 DEF EnginesGrow
    <3>3. QED
      BY <1>9, <3>1, <3>2 DEF Fits
  <2>2. manager'[d].localFingerprint = {}
    BY <1>8, <1>9 DEF Fits
  <2>3. ASSUME NEW f \in Eng' PROVE ~Places(peer, id, f)'
    <3>1. CASE f = e
      BY <1>5, <3>1 DEF Places
    <3>2. CASE f \in Eng
      <4>1. engines'[f].call \in 1 .. calls
        BY <1>5, <3>2 DEF EnginesGrow, CallsInv
      <4>2. QED
        BY <1>3, <4>1 DEF Places
    <3>3. QED
      BY <1>6, <3>1, <3>2
  <2>4. QED
    BY <1>8, <2>1, <2>2, <2>3 DEF Fits
<1>11. \A x \in Device : Fits(x)'
  BY <1>5, <1>6, <1>8, <1>10, OthersFit DEF WordsInv
<1>12. \A t \in tasks' : t \in tasks \/ t.awaits # "acceptAnswer"
  BY <1>4 DEF TaskOf
<1>13. QED
  BY <1>4, <1>5, <1>8, <1>11, <1>12, TakenUpAsked DEF WordsInv

\* An answer started once: there was no engine for the call.
LEMMA AnswerCallWords ==
  ASSUME TypeInv, TypeInv', CallsInv, WordsInv, ~AnsweredTwice', NEW d \in Device, AnswerCall(d)
  PROVE  WordsInv'
<1>1. PICK c \in manager[d].current :
        /\ c.state = "ringing-incoming"
        /\ engines' = NewEngine(d, c.id)
        /\ manager' = [manager EXCEPT ![d].engine = {Len(engines) + 1}]
        /\ tasks' = tasks \cup {TaskOf("createAnswer", d, c.peer, c.id, {Len(engines) + 1},
                                       manager[d].pendingOfferSdp)}
  BY DEF AnswerCall, Ringing, TaskOf
<1>2. PICK e : e = Len(engines) + 1
  OBVIOUS
<1>3. e \in Number /\ Len(engines) \in Nat /\ c.id \in Number
  BY <1>2, ManagerFields, CallFields DEF TypeInv, Number
<1>4. /\ EnginesGrow /\ Len(engines') = e
      /\ engines'[e].by = d /\ engines'[e].call = c.id
  BY <1>1, <1>2, <1>3, EngineMade, MakingGrows
<1>5. Eng' = Eng \cup {e} /\ e \notin Eng /\ Eng' = DOMAIN engines'
  BY <1>2, <1>3, <1>4 DEF Eng, EnginesGrow
<1>6. PICK n : EngineTaken(d, e, n)
  BY <1>1, <1>2, <1>3, EnginePut
<1>7. /\ Puts(d, n) /\ manager'[d] = n /\ n.current = manager[d].current /\ n.engine = {e}
      /\ n.mediaSecret = manager[d].mediaSecret
      /\ n.localFingerprint = manager[d].localFingerprint
      /\ n.remoteFingerprint = manager[d].remoteFingerprint
  BY <1>6 DEF EngineTaken, Puts
<1>8. manager[d].engine = {} /\ Fits(d)
  <2>1. TakenBy(d, c)
    BY <1>1 DEF CallsInv, ManagerInv, PlacedBy
  <2>2. SUFFICES ASSUME NEW f \in manager[d].engine PROVE FALSE
    BY DEF WordsInv
  <2>3. f \in Eng /\ engines[f].by = d /\ engines[f].call = c.id
    BY <2>1 DEF TakenBy, Answers
  <2>4. f \in Eng' /\ e \in Eng' /\ f # e /\ engines'[f].by = d /\ engines'[f].call = c.id
    BY <1>4, <1>5, <2>3 DEF EnginesGrow
  <2>5. QED
    BY <1>4, <1>5, <2>4 DEF AnsweredTwice
<1>9. Fits(d)'
  <2>1. ASSUME NEW f \in Eng', engines'[f].by = d, engines'[f].open PROVE f = e
    <3>1. SUFFICES ASSUME f \in Eng PROVE FALSE
      BY <1>5, <2>1
    <3>2. engines[f].by = d /\ engines[f].open
      BY <1>4, <2>1, <3>1 DEF EnginesGrow
    <3>3. QED
      BY <1>8, <3>1, <3>2 DEF Fits
  <2>2. manager'[d].localFingerprint = {}
    BY <1>7, <1>8 DEF Fits
  <2>3. ASSUME NEW b \in manager'[d].current, NEW f \in Eng', Places(b.peer, b.id, f)'
        PROVE  manager'[d].remoteFingerprint \subseteq {f}
    <3>1. f \in Eng /\ Places(b.peer, b.id, f)
      BY <1>4, <1>7, <2>3, PlacedBefore
    <3>2. QED
      BY <1>7, <1>8, <2>3, <3>1 DEF Fits
  <2>4. \A b \in manager'[d].current : \A k \in b.words : RightWords(b.id, k)'
    BY <1>4, <1>7, <1>8, RightStays DEF Fits
  <2>5. QED
    BY <1>7, <1>8, <2>1, <2>2, <2>3, <2>4 DEF Fits
<1>10. \A x \in Device : Fits(x)'
  BY <1>4, <1>5, <1>7, <1>9, OthersFit DEF WordsInv
<1>11. ASSUME NEW t \in tasks' PROVE AskedRight(t)'
  <2>1. CASE t \in tasks
    <3>1. t.by \in Device
      BY <2>1, TaskShape DEF TypeInv
    <3>2. manager'[t.by].remoteFingerprint = manager[t.by].remoteFingerprint
      BY <1>7, <3>1 DEF Puts
    <3>3. QED
      BY <1>4, <2>1, <3>2, AskedStays DEF WordsInv
  <2>2. CASE t \notin tasks
    BY <1>1, <2>2 DEF AskedRight, TaskOf
  <2>3. QED
    BY <2>1, <2>2
<1>12. QED
  BY <1>10, <1>11 DEF WordsInv

LEMMA AlwaysGrows ==
  ASSUME TypeInv, CallsInv, [Next]_vars
  PROVE  EnginesGrow
<1>1. ASSUME NEW d \in Device, NEW peer \in Device \ {d}, PlaceCall(d, peer) PROVE EnginesGrow
  <2>1. PICK id : id = calls + 1
    OBVIOUS
  <2>2. id \in Number /\ engines' = NewEngine(d, id)
    BY <1>1, <2>1, CallBounds DEF PlaceCall, TypeInv, Number
  <2>3. QED
    BY <2>2, MakingGrows
<1>2. ASSUME NEW d \in Device, AnswerCall(d) PROVE EnginesGrow
  <2>1. PICK c \in manager[d].current : engines' = NewEngine(d, c.id)
    BY <1>2 DEF AnswerCall
  <2>2. c.id \in Number
    BY ManagerFields, CallFields DEF TypeInv
  <2>3. QED
    BY <2>1, <2>2, MakingGrows
<1>3. ASSUME NEW s \in signals, ReceiveOffer(s) PROVE EnginesGrow
  <2>1. engines' = engines
    BY <1>3 DEF ReceiveOffer
  <2>2. QED
    BY <2>1, KeepingGrows
<1>4. QED
  BY <1>1, <1>2, <1>3, StepKinds DEF GuestsStay

LEMMA TwiceIsForGood ==
  ASSUME TypeInv, EnginesGrow, AnsweredTwice
  PROVE  AnsweredTwice'
<1>1. DOMAIN engines = Eng /\ DOMAIN engines' = Eng'
  BY DEF TypeInv, EnginesGrow, Eng
<1>2. PICK e \in Eng, f \in Eng :
        e # f /\ engines[e].by = engines[f].by /\ engines[e].call = engines[f].call
  BY <1>1 DEF AnsweredTwice
<1>3. e \in Eng' /\ f \in Eng'
  BY EnginesStand
<1>4. QED
  BY <1>1, <1>2, <1>3 DEF AnsweredTwice, EnginesGrow

LEMMA TaskWords ==
  ASSUME TypeInv, TypeInv', CallsInv, OneGuest, WordsInv, NEW t \in tasks,
         \/ OfferMade(t) \/ AnswerAccepted(t) \/ AnswerMade(t)
         \/ SignalSent(t) \/ HangupSent(t) \/ Fails(t)
  PROVE  WordsInv'
<1>1. t.by \in Device
  BY TaskShape DEF TypeInv
<1>2. CASE SignalSent(t)
  <2>1. tasks' \subseteq tasks /\ engines' = engines
    BY <1>2 DEF SignalSent
  <2>2. PICK state \in {"connecting", "ended"} :
          manager' = [manager EXCEPT ![t.by] = SetState(@, state)]
    BY <1>2 DEF SignalSent
  <2>3. state \in State /\ state # "ringing-incoming"
    BY DEF State
  <2>4. PICK n : StateSet(t.by, state, manager[t.by], n)
    BY <1>1, <2>2, <2>3, StatePut
  <2>5. QED
    BY <1>1, <2>1, <2>4, KeepingGrows, StateCalm
<1>3. CASE HangupSent(t)
  <2>1. tasks' \subseteq tasks /\ Teardown(t.by)
    BY <1>3 DEF HangupSent
  <2>2. QED
    BY <1>1, <2>1, TeardownCalm
<1>4. CASE Fails(t)
  BY <1>4, QuietCalm DEF Fails
<1>5. QED
  BY <1>2, <1>3, <1>4, OfferMadeWords, AcceptedWords, AnsweredWords

LEMMA SignalWords ==
  ASSUME TypeInv, TypeInv', CallsInv, WordsInv, NEW s \in signals,
         ReceiveOffer(s) \/ ReceiveAnswer(s) \/ ReceiveHangup(s)
  PROVE  WordsInv'
<1>1. s.to \in Device
  BY SignalShape DEF TypeInv
<1>2. CASE ReceiveOffer(s) /\ Live(s.to)
  <2>1. manager' = manager /\ engines' = engines /\ tasks' = tasks
    BY <1>2 DEF ReceiveOffer
  <2>2. QED
    BY <2>1, QuietCalm
<1>3. CASE ReceiveHangup(s)
  <2>1. /\ tasks' = tasks
        /\ Teardown(s.to) \/ (manager' = manager /\ engines' = engines)
    BY <1>3 DEF ReceiveHangup
  <2>2. CASE Teardown(s.to)
    BY <1>1, <2>1, <2>2, TeardownCalm
  <2>3. CASE manager' = manager /\ engines' = engines
    BY <2>1, <2>3, QuietCalm
  <2>4. QED
    BY <2>1, <2>2, <2>3
<1>4. QED
  BY <1>2, <1>3, OfferTakenWords, AnswerReceivedWords

LEMMA EngineWords ==
  ASSUME TypeInv, TypeInv', CallsInv, WordsInv, NEW e \in DOMAIN engines,
         Connects(e) \/ Disconnects(e)
  PROVE  WordsInv'
<1>1. engines[e].by \in Device
  <2>1. e \in 1 .. Len(engines)
    BY DEF TypeInv
  <2>2. QED
    BY <2>1, EngineFields
<1>2. CASE Connects(e)
  <2>1. /\ engines' = [engines EXCEPT ![e].connected = TRUE]
        /\ manager' = IF Current(engines[e].by, engines[e].call)
                      THEN [manager EXCEPT ![engines[e].by] = SetState(@, "connected")]
                      ELSE manager
        /\ tasks' = tasks
    BY <1>2 DEF Connects
  <2>2. "connected" \in State
    BY DEF State
  <2>3. EnginesGrow /\ Len(engines') = Len(engines)
    BY <2>1, ConnectingGrows
  <2>4. CASE Current(engines[e].by, engines[e].call)
    <3>1. manager' = [manager EXCEPT ![engines[e].by] = SetState(@, "connected")]
      BY <2>1, <2>4
    <3>2. PICK n : StateSet(engines[e].by, "connected", manager[engines[e].by], n)
      BY <1>1, <2>2, <3>1, StatePut
    <3>3. QED
      BY <1>1, <2>1, <2>3, <3>2, StateCalm
  <2>5. CASE ~Current(engines[e].by, engines[e].call)
    <3>1. manager' = manager
      BY <2>1, <2>5
    <3>2. QED
      BY <2>1, <2>3, <3>1, NoneCalm, CalmWords
  <2>6. QED
    BY <2>4, <2>5
<1>3. CASE Disconnects(e)
  <2>1. Teardown(engines[e].by) /\ tasks' = tasks
    BY <1>3 DEF Disconnects
  <2>2. QED
    BY <1>1, <2>1, TeardownCalm
<1>4. QED
  BY <1>2, <1>3

LEMMA DeviceWords ==
  ASSUME TypeInv, TypeInv', CallsInv, WordsInv, ~AnsweredTwice', NEW d \in Device,
         \/ \E peer \in Device \ {d} : PlaceCall(d, peer)
         \/ AnswerCall(d) \/ RefuseCall(d) \/ HangUp(d)
  PROVE  WordsInv'
<1>1. CASE RefuseCall(d)
  <2>1. PICK c \in manager[d].current :
          /\ tasks' = tasks \cup {TaskOf("refusalSent", d, c.peer, c.id, {}, {})}
          /\ manager' = manager /\ engines' = engines
    BY <1>1 DEF RefuseCall, TaskOf
  <2>2. QED
    BY <2>1, QuietCalm DEF TaskOf
<1>2. CASE HangUp(d)
  <2>1. PICK c \in manager[d].current :
          IF c.state = "ended"
          THEN Teardown(d) /\ UNCHANGED <<tasks, signals>>
          ELSE /\ tasks' = tasks \cup {TaskOf("hangupSent", d, c.peer, c.id, {}, {})}
               /\ manager' = manager /\ engines' = engines
    BY <1>2 DEF HangUp, TaskOf
  <2>2. CASE c.state = "ended"
    BY <2>1, <2>2, TeardownCalm
  <2>3. CASE c.state # "ended"
    BY <2>1, <2>3, QuietCalm DEF TaskOf
  <2>4. QED
    BY <2>2, <2>3
<1>3. QED
  BY <1>1, <1>2, PlacedWords, AnswerCallWords

LEMMA WordsInvariance ==
  TypeInv /\ TypeInv' /\ CallsInv /\ OneGuest /\ (AnsweredTwice \/ WordsInv) /\ [Next]_vars
    => (AnsweredTwice \/ WordsInv)'
<1> SUFFICES ASSUME TypeInv, TypeInv', CallsInv, OneGuest, AnsweredTwice \/ WordsInv, [Next]_vars,
                    ~AnsweredTwice'
             PROVE  WordsInv'
  OBVIOUS
<1>1. WordsInv
  BY AlwaysGrows, TwiceIsForGood
<1>2. CASE UNCHANGED vars
  BY <1>1, <1>2, QuietCalm DEF vars
<1>3. CASE Next
  BY <1>1, <1>3, TaskWords, SignalWords, EngineWords, DeviceWords DEF Next
<1>4. QED
  BY <1>2, <1>3

LEMMA InitWords == Init => WordsInv
<1> SUFFICES ASSUME Init PROVE WordsInv
  OBVIOUS
<1>1. Eng = {} /\ tasks = {}
  BY DEF Init, Eng
<1>2. \A d \in Device : manager[d].current = {} /\ manager[d].mediaSecret = {}
                        /\ manager[d].localFingerprint = {}
  BY DEF Init, Idle
<1>3. QED
  BY <1>1, <1>2 DEF WordsInv, Fits

\* Two keys made from the engines of one call are one.
LEMMA RightWordsAgree ==
  ASSUME TypeInv, CallsInv, OneGuest, ~AnsweredTwice, NEW id, NEW j \in Keys, NEW k \in Keys,
         RightWords(id, j), RightWords(id, k)
  PROVE  j = k
<1>1. j.secret = k.secret /\ j.call = k.call
  BY DEF RightWords
<1>2. j.caller = k.caller /\ j.callerFingerprint = k.callerFingerprint
  BY PlacedOnce DEF RightWords
<1>3. j.callee \in Device /\ k.callee \in Device
  BY DEF Keys
<1>4. Invited(id, j.callee) /\ Invited(id, k.callee)
  BY DEF RightWords, Invited, Answers
<1>5. j.callee = k.callee
  BY <1>3, <1>4, GuestsCounted DEF OneGuest
<1>6. j.calleeFingerprint = k.calleeFingerprint
  BY <1>5 DEF RightWords, Answers, AnsweredTwice, Eng, TypeInv
<1>7. QED
  BY <1>1, <1>2, <1>5, <1>6 DEF Keys

\* Two ends that show words for a call show the same, unless an answer was
\* started twice (deriveAndInstallKeys).
THEOREM WordsAlwaysAgree == Spec => []SameWords
<1>1. Init => TypeInv /\ CallsInv /\ OneGuest /\ (AnsweredTwice \/ WordsInv)
  BY InitTyped, InitCalls, InitGuest, InitWords
<1>2. /\ TypeInv /\ CallsInv /\ OneGuest /\ (AnsweredTwice \/ WordsInv) /\ [Next]_vars
      => (TypeInv /\ CallsInv /\ OneGuest /\ (AnsweredTwice \/ WordsInv))'
  BY CallsTyped, CallsInvariance, GuestInvariance, WordsInvariance
<1>3. TypeInv /\ CallsInv /\ OneGuest /\ (AnsweredTwice \/ WordsInv) => SameWords
  <2> SUFFICES ASSUME TypeInv, CallsInv, OneGuest, WordsInv, ~AnsweredTwice,
                      NEW d \in Device, NEW e \in Device, NEW c \in manager[d].current,
                      NEW b \in manager[e].current, c.id = b.id, c.words # {}, b.words # {}
               PROVE  c.words = b.words
    BY DEF SameWords
  <2>1. c.words \subseteq Keys /\ b.words \subseteq Keys
    BY ManagerFields, CallFields DEF TypeInv
  <2>2. /\ \A k \in c.words : RightWords(c.id, k)
        /\ \A k \in b.words : RightWords(c.id, k)
    BY DEF WordsInv, Fits
  <2>3. \A j \in c.words, k \in b.words : j = k
    BY <2>1, <2>2, RightWordsAgree
  <2>4. QED
    BY <2>3
<1>4. QED
  BY <1>1, <1>2, <1>3, PTL DEF Spec

-----------------------------------------------------------------------------
(* What a call leaves behind.                                              *)

\* Device q has neither taken up call id nor torn it down.
Unheard(q, id) ==
  [by |-> q, call |-> id] \notin tornDown /\ \A c \in manager[q].current : c.id # id

Leaves(d) ==
  /\ manager[d].keys = {} /\ manager[d].mediaSecret = {}
  /\ manager[d].engine = {} /\ manager[d].pendingOfferSdp = {}

Offering(t) == t.awaits = "createOffer"
Offer(s)    == s.kind = "call-offer"

\* A call is offered once: in the making, on its way, or heard.
OffersInv ==
  /\ \A x \in tornDown : x.call \in 1 .. calls
  /\ \A t, u \in tasks : Offering(t) /\ Offering(u) /\ t.call = u.call => t = u
  /\ \A s, r \in signals : Offer(s) /\ Offer(r) /\ s.call = r.call => s = r
  /\ \A t \in tasks, s \in signals : Offering(t) /\ Offer(s) => t.call # s.call
  /\ \A t \in tasks : Offering(t) => Unheard(t.peer, t.call)
  /\ \A s \in signals : Offer(s) => Unheard(s.to, s.call)

Emptied(d) ==
  (\A c \in manager[d].current : [by |-> d, call |-> c.id] \in tornDown) => Leaves(d)

EndInv == OffersInv /\ \A d \in Device : Emptied(d)

\* A step by which no device takes up a call.
Draining ==
  /\ calls' = calls
  /\ \A x \in Device : SameCalls(manager[x], manager'[x]) /\ (Leaves(x) => Leaves(x)')
  /\ \A y \in tornDown' : \/ y \in tornDown
                          \/ /\ y.by \in Device /\ Leaves(y.by)'
                             /\ \E c \in manager[y.by].current : c.id = y.call
  /\ tornDown \subseteq tornDown'
  /\ \A t \in tasks' : Offering(t) => t \in tasks
  /\ \A s \in signals' : Offer(s) =>
       \/ s \in signals
       \/ \E t \in tasks : /\ Offering(t) /\ t \notin tasks'
                           /\ s = SignalTo(t.by, t.peer, "call-offer", t.call, t.engine)

LEMMA CurrentCounted ==
  ASSUME TypeInv, CallsInv, NEW d \in Device, NEW c \in manager[d].current
  PROVE  c.id \in 1 .. calls
<1>1. PICK f \in Eng : engines[f].call = c.id
  BY DEF CallsInv, ManagerInv, PlacedBy, TakenBy, Places
<1>2. QED
  BY <1>1 DEF CallsInv

LEMMA OffersCounted ==
  ASSUME TypeInv, CallsInv
  PROVE  /\ \A t \in tasks : Offering(t) => t.call \in 1 .. calls /\ t.peer \in Device
         /\ \A s \in signals : Offer(s) => s.call \in 1 .. calls /\ s.to \in Device
<1>1. ASSUME NEW t \in tasks, Offering(t) PROVE t.call \in 1 .. calls /\ t.peer \in Device
  BY <1>1, TaskShape DEF TypeInv, Offering, CallsInv, TaskInv, Places
<1>2. ASSUME NEW s \in signals, Offer(s) PROVE s.call \in 1 .. calls /\ s.to \in Device
  BY <1>2, SignalShape DEF TypeInv, Offer, CallsInv, SignalInv, Places
<1>3. QED
  BY <1>1, <1>2

LEMMA DrainingKeeps ==
  ASSUME TypeInv, CallsInv, EndInv, Draining
  PROVE  EndInv'
<1>1. ASSUME NEW x \in tornDown' PROVE x.call \in 1 .. calls'
  <2>1. CASE x \in tornDown
    BY <2>1 DEF EndInv, OffersInv, Draining
  <2>2. CASE x \notin tornDown
    BY <2>2, CurrentCounted DEF Draining
  <2>3. QED
    BY <2>1, <2>2
<1>2. ASSUME NEW q \in Device, NEW id, Unheard(q, id) PROVE Unheard(q, id)'
  <2>1. \A c \in manager'[q].current : c.id # id
    BY <1>2 DEF Unheard, Draining, SameCalls
  <2>2. [by |-> q, call |-> id] \notin tornDown'
    BY <1>2 DEF Unheard, Draining
  <2>3. QED
    BY <2>1, <2>2 DEF Unheard
<1>3. ASSUME NEW s \in signals', Offer(s), s \notin signals
      PROVE  \E t \in tasks : /\ Offering(t) /\ t \notin tasks' /\ s.call = t.call /\ s.to = t.peer
                              /\ s = SignalTo(t.by, t.peer, "call-offer", t.call, t.engine)
  BY <1>3 DEF Draining, SignalTo
<1>4. \A t, u \in tasks' : Offering(t) /\ Offering(u) /\ t.call = u.call => t = u
  BY DEF EndInv, OffersInv, Draining
<1>5. ASSUME NEW s \in signals', NEW r \in signals', Offer(s), Offer(r), s.call = r.call PROVE s = r
  <2>1. CASE s \in signals /\ r \in signals
    BY <1>5, <2>1 DEF EndInv, OffersInv
  <2>2. CASE s \in signals /\ r \notin signals
    BY <1>3, <1>5, <2>2 DEF EndInv, OffersInv
  <2>3. CASE s \notin signals /\ r \in signals
    BY <1>3, <1>5, <2>3 DEF EndInv, OffersInv
  <2>4. CASE s \notin signals /\ r \notin signals
    BY <1>3, <1>5, <2>4 DEF EndInv, OffersInv
  <2>5. QED
    BY <2>1, <2>2, <2>3, <2>4
<1>6. ASSUME NEW t \in tasks', NEW s \in signals', Offering(t), Offer(s) PROVE t.call # s.call
  <2>1. t \in tasks
    BY <1>6 DEF Draining
  <2>2. CASE s \in signals
    BY <1>6, <2>1, <2>2 DEF EndInv, OffersInv
  <2>3. CASE s \notin signals
    BY <1>3, <1>6, <2>1, <2>3 DEF EndInv, OffersInv
  <2>4. QED
    BY <2>2, <2>3
<1>7. ASSUME NEW t \in tasks', Offering(t) PROVE Unheard(t.peer, t.call)'
  <2>1. t \in tasks /\ t.peer \in Device /\ Unheard(t.peer, t.call)
    BY <1>7, OffersCounted DEF EndInv, OffersInv, Draining
  <2>2. QED
    BY <1>2, <2>1
<1>8. ASSUME NEW s \in signals', Offer(s) PROVE Unheard(s.to, s.call)'
  <2>1. s.to \in Device /\ Unheard(s.to, s.call)
    BY <1>3, <1>8, OffersCounted DEF EndInv, OffersInv
  <2>2. QED
    BY <1>2, <2>1
<1>9. ASSUME NEW d \in Device, \A c \in manager'[d].current : [by |-> d, call |-> c.id] \in tornDown'
      PROVE  Leaves(d)'
  <2>1. CASE \A c \in manager'[d].current : [by |-> d, call |-> c.id] \in tornDown
    <3>1. \A c \in manager[d].current : [by |-> d, call |-> c.id] \in tornDown
      BY <2>1 DEF Draining, SameCalls
    <3>2. Leaves(d)
      BY <3>1 DEF EndInv, Emptied
    <3>3. QED
      BY <3>2 DEF Draining
  <2>2. CASE \E c \in manager'[d].current : [by |-> d, call |-> c.id] \notin tornDown
    BY <1>9, <2>2 DEF Draining
  <2>3. QED
    BY <2>1, <2>2
<1>10. OffersInv'
  BY <1>1, <1>4, <1>5, <1>6, <1>7, <1>8 DEF OffersInv
<1>11. QED
  BY <1>9, <1>10 DEF EndInv, Emptied

LEMMA PlacedEnds ==
  ASSUME TypeInv, CallsInv, EndInv, NEW d \in Device, NEW peer \in Device \ {d},
         PlaceCall(d, peer)
  PROVE  EndInv'
<1>1. PICK id : id = calls + 1
  OBVIOUS
<1>2. id \in Number /\ id \notin 1 .. calls /\ 1 .. calls' = 1 .. calls \cup {id}
  BY <1>1, CallBounds DEF TypeInv, Number, PlaceCall
<1>3. PICK u : u = TaskOf("createOffer", d, peer, id, {Len(engines) + 1}, {})
  OBVIOUS
<1>4. Offering(u) /\ u.peer = peer /\ u.call = id
  BY <1>3 DEF TaskOf, Offering
<1>5. tasks' = tasks \cup {u} /\ signals' = signals /\ tornDown' = tornDown
  BY <1>1, <1>3 DEF PlaceCall, TaskOf
<1>6. PICK n, c : CallPlaced(d, peer, n, c)
  BY PlaceCallEffect
<1>7. /\ manager'[d].current = {c} /\ c.id = id
      /\ \A x \in Device \ {d} : manager'[x] = manager[x]
  BY <1>1, <1>6 DEF CallPlaced, Puts
<1>8. ASSUME NEW q \in Device, NEW i \in 1 .. calls, Unheard(q, i) PROVE Unheard(q, i)'
  BY <1>2, <1>5, <1>7, <1>8 DEF Unheard
<1>9. [by |-> d, call |-> id] \notin tornDown /\ [by |-> peer, call |-> id] \notin tornDown
  BY <1>2 DEF EndInv, OffersInv
<1>10. Unheard(peer, id)'
  BY <1>2, <1>5, <1>7, <1>9, CurrentCounted DEF Unheard
<1>11. \A t \in tasks : Offering(t) => t.call # id
  BY <1>2, OffersCounted
<1>12. \A s \in signals : Offer(s) => s.call # id
  BY <1>2, OffersCounted
<1>13. OffersInv'
  <2>1. \A x \in tornDown' : x.call \in 1 .. calls'
    BY <1>2, <1>5 DEF EndInv, OffersInv
  <2>2. \A t, v \in tasks' : Offering(t) /\ Offering(v) /\ t.call = v.call => t = v
    BY <1>4, <1>5, <1>11 DEF EndInv, OffersInv
  <2>3. \A s, r \in signals' : Offer(s) /\ Offer(r) /\ s.call = r.call => s = r
    BY <1>5 DEF EndInv, OffersInv
  <2>4. \A t \in tasks', s \in signals' : Offering(t) /\ Offer(s) => t.call # s.call
    BY <1>4, <1>5, <1>12 DEF EndInv, OffersInv
  <2>5. \A t \in tasks' : Offering(t) => Unheard(t.peer, t.call)'
    BY <1>4, <1>5, <1>8, <1>10, OffersCounted DEF EndInv, OffersInv
  <2>6. \A s \in signals' : Offer(s) => Unheard(s.to, s.call)'
    BY <1>5, <1>8, OffersCounted DEF EndInv, OffersInv
  <2>7. QED
    BY <2>1, <2>2, <2>3, <2>4, <2>5, <2>6 DEF OffersInv
<1>14. ASSUME NEW x \in Device PROVE Emptied(x)'
  <2>1. CASE x = d
    BY <1>5, <1>7, <1>9, <2>1 DEF Emptied
  <2>2. CASE x # d
    BY <1>5, <1>7, <2>2 DEF EndInv, Emptied, Leaves
  <2>3. QED
    BY <2>1, <2>2
<1>15. QED
  BY <1>13, <1>14 DEF EndInv

LEMMA OfferedEnds ==
  ASSUME TypeInv, CallsInv, EndInv, NEW s \in signals, ReceiveOffer(s), ~Live(s.to)
  PROVE  EndInv'
<1>1. /\ s \in Signal /\ s.from \in Device /\ s.to \in Device /\ s.call \in Number
      /\ s.sdp \in SUBSET Number /\ AtMostOne(s.sdp)
  BY SignalShape DEF TypeInv
<1>2. PICK d \in Device : d = s.to
  BY <1>1
<1>3. /\ Offer(s) /\ signals' = signals \ {s}
      /\ manager' = [manager EXCEPT
           ![d].current = {[id |-> s.call, peer |-> s.from, state |-> "ringing-incoming",
                            words |-> {}]},
           ![d].mediaSecret = {s.call}, ![d].remoteFingerprint = s.sdp,
           ![d].pendingOfferSdp = s.sdp]
      /\ tasks' = tasks /\ calls' = calls /\ tornDown' = tornDown
  BY <1>2 DEF ReceiveOffer, Offer
<1>4. PICK n, c : OfferTaken(d, s.call, s.from, s.sdp, n, c)
  BY <1>1, <1>3, OfferPut
<1>5. /\ manager'[d].current = {c} /\ c.id = s.call
      /\ \A x \in Device \ {d} : manager'[x] = manager[x]
  BY <1>4 DEF OfferTaken, Puts
<1>6. Unheard(d, s.call)
  BY <1>2, <1>3 DEF EndInv, OffersInv
<1>7. ASSUME NEW q \in Device, NEW id, id # s.call, Unheard(q, id) PROVE Unheard(q, id)'
  BY <1>3, <1>5, <1>7 DEF Unheard
<1>8. \A t \in tasks : Offering(t) => t.call # s.call
  BY <1>3 DEF EndInv, OffersInv
<1>9. \A r \in signals' : Offer(r) => r \in signals /\ r.call # s.call
  BY <1>3 DEF EndInv, OffersInv
<1>10. OffersInv'
  <2>1. /\ \A t \in tasks' : Offering(t) => Unheard(t.peer, t.call)'
        /\ \A r \in signals' : Offer(r) => Unheard(r.to, r.call)'
    BY <1>3, <1>7, <1>8, <1>9, OffersCounted DEF EndInv, OffersInv
  <2>2. QED
    BY <1>3, <2>1 DEF EndInv, OffersInv
<1>11. ASSUME NEW x \in Device PROVE Emptied(x)'
  <2>1. CASE x = d
    BY <1>3, <1>5, <1>6, <2>1 DEF Emptied, Unheard
  <2>2. CASE x # d
    BY <1>3, <1>5, <2>2 DEF EndInv, Emptied, Leaves
  <2>3. QED
    BY <2>1, <2>2
<1>12. QED
  BY <1>10, <1>11 DEF EndInv

\* Only d's manager moves, from m to n.
LEMMA OneDrains ==
  ASSUME NEW d \in Device, NEW n, Puts(d, n), SameCalls(manager[d], n), Leaves(d) => Leaves(d)'
  PROVE  \A x \in Device : SameCalls(manager[x], manager'[x]) /\ (Leaves(x) => Leaves(x)')
<1>1. ASSUME NEW x \in Device, x # d
      PROVE  SameCalls(manager[x], manager'[x]) /\ (Leaves(x) => Leaves(x)')
  BY <1>1 DEF Puts, SameCalls, Leaves
<1>2. manager'[d] = n
  BY DEF Puts
<1>3. QED
  BY <1>1, <1>2

LEMMA NoneDrains ==
  ASSUME manager' = manager
  PROVE  \A x \in Device : SameCalls(manager[x], manager'[x]) /\ (Leaves(x) => Leaves(x)')
BY DEF SameCalls, Leaves

LEMMA TeardownDrains ==
  ASSUME TypeInv, NEW d \in Device, Teardown(d), tasks' \subseteq tasks, signals' \subseteq signals
  PROVE  Draining
<1>1. PICK n : TornDown(d, manager[d], n)
  BY TeardownEffect
<1>2. /\ Puts(d, n) /\ SameCalls(manager[d], n) /\ Leaves(d)'
  BY <1>1 DEF TornDown, Keeps, Leaves, Puts
<1>3. \A x \in Device : SameCalls(manager[x], manager'[x]) /\ (Leaves(x) => Leaves(x)')
  BY <1>2, OneDrains
<1>4. /\ tornDown \subseteq tornDown' /\ calls' = calls
      /\ \A y \in tornDown' \ tornDown : \E c \in manager[d].current : y = [by |-> d, call |-> c.id]
  BY TeardownEffect
<1>5. QED
  BY <1>2, <1>3, <1>4 DEF Draining

LEMMA QuietDrains ==
  ASSUME TypeInv, calls' = calls, tornDown' = tornDown,
         \A x \in Device : SameCalls(manager[x], manager'[x]) /\ (Leaves(x) => Leaves(x)'),
         \A t \in tasks' : t \in tasks \/ t.awaits # "createOffer",
         \A s \in signals' : s \in signals \/ s.kind # "call-offer"
  PROVE  Draining
BY DEF Draining, Offering, Offer

LEMMA TaskDrains ==
  ASSUME TypeInv, CallsInv, NEW t \in tasks,
         \/ OfferMade(t) \/ AnswerAccepted(t) \/ AnswerMade(t)
         \/ SignalSent(t) \/ HangupSent(t) \/ Fails(t)
  PROVE  Draining
<1>1. /\ t.by \in Device /\ t.engine \in SUBSET Number /\ AtMostOne(t.engine)
  BY TaskShape DEF TypeInv
<1>2. CASE OfferMade(t)
  <2>1. /\ t.awaits = "createOffer" /\ tasks' = tasks \ {t}
        /\ signals' = signals \cup {SignalTo(t.by, t.peer, "call-offer", t.call, t.engine)}
        /\ manager' = [manager EXCEPT ![t.by].localFingerprint = t.engine]
        /\ calls' = calls /\ tornDown' = tornDown
    BY <1>2 DEF OfferMade
  <2>2. PICK n : /\ Puts(t.by, n)
                 /\ SameBut(manager[t.by], n, t.engine, manager[t.by].remoteFingerprint)
    BY <1>1, <2>1, LocalPut
  <2>3. SameCalls(manager[t.by], n) /\ (Leaves(t.by) => Leaves(t.by)')
    BY <2>2 DEF SameBut, SameCalls, Leaves, Puts
  <2>4. \A x \in Device : SameCalls(manager[x], manager'[x]) /\ (Leaves(x) => Leaves(x)')
    BY <1>1, <2>2, <2>3, OneDrains
  <2>5. \A s \in signals' : s \in signals \/
          (Offering(t) /\ t \notin tasks' /\ s = SignalTo(t.by, t.peer, "call-offer", t.call, t.engine))
    BY <2>1 DEF Offering
  <2>6. QED
    BY <2>1, <2>4, <2>5 DEF Draining
<1>3. CASE AnswerAccepted(t)
  <2>1. tasks' \subseteq tasks /\ signals' = signals /\ calls' = calls /\ tornDown' = tornDown
    BY <1>3 DEF AnswerAccepted
  <2>2. PICK n, ks : AnswerTaken(t.by, manager[t.by], n, ks)
    BY <1>3, AnswerAcceptedEffect
  <2>3. Puts(t.by, n) /\ SameCalls(manager[t.by], n) /\ ks = Derived(t.by, manager[t.by], "caller")
    BY <2>2 DEF AnswerTaken, Keeps
  <2>4. ASSUME Leaves(t.by) PROVE Leaves(t.by)'
    <3>1. ks = {}
      BY <2>3, <2>4 DEF Derived, Leaves
    <3>2. n = manager[t.by]
      BY <2>2, <3>1 DEF AnswerTaken
    <3>3. QED
      BY <2>3, <2>4, <3>2 DEF Leaves, Puts
  <2>5. \A x \in Device : SameCalls(manager[x], manager'[x]) /\ (Leaves(x) => Leaves(x)')
    BY <1>1, <2>3, <2>4, OneDrains
  <2>6. QED
    BY <2>1, <2>5, QuietDrains
<1>4. CASE AnswerMade(t)
  <2>1. t.awaits = "createAnswer" /\ calls' = calls /\ tornDown' = tornDown
    BY <1>4 DEF AnswerMade
  <2>2. PICK n, w, ks : AnswerGiven(t.by, t, manager[t.by], n, w, ks)
    BY <1>4, AnswerMadeEffect
  <2>3. /\ Puts(t.by, n) /\ SameCalls(manager[t.by], n) /\ ks = Derived(t.by, w, "callee")
        /\ w.mediaSecret = manager[t.by].mediaSecret /\ w.keys = manager[t.by].keys
        /\ n.engine = manager[t.by].engine /\ n.mediaSecret = manager[t.by].mediaSecret
        /\ n.pendingOfferSdp = {} /\ (ks = {} => n = w)
    BY <2>2 DEF AnswerGiven, Keeps
  <2>4. ASSUME Leaves(t.by) PROVE Leaves(t.by)'
    <3>1. ks = {}
      BY <2>3, <2>4 DEF Derived, Leaves
    <3>2. n.keys = {}
      BY <2>3, <2>4, <3>1 DEF Leaves
    <3>3. QED
      BY <2>3, <2>4, <3>2 DEF Leaves, Puts
  <2>5. \A x \in Device : SameCalls(manager[x], manager'[x]) /\ (Leaves(x) => Leaves(x)')
    BY <1>1, <2>3, <2>4, OneDrains
  <2>6. \A u \in tasks' : u \in tasks \/ u.awaits # "createOffer"
    BY <2>2 DEF AnswerGiven, TaskOf
  <2>7. \A s \in signals' : s \in signals \/ s.kind # "call-offer"
    BY <2>2 DEF AnswerGiven, SignalTo
  <2>8. QED
    BY <2>1, <2>5, <2>6, <2>7, QuietDrains
<1>5. CASE SignalSent(t)
  <2>1. tasks' \subseteq tasks /\ signals' = signals /\ calls' = calls /\ tornDown' = tornDown
    BY <1>5 DEF SignalSent
  <2>2. PICK state \in {"connecting", "ended"} :
          manager' = [manager EXCEPT ![t.by] = SetState(@, state)]
    BY <1>5 DEF SignalSent
  <2>3. state \in State /\ state # "ringing-incoming"
    BY DEF State
  <2>4. PICK n : StateSet(t.by, state, manager[t.by], n)
    BY <1>1, <2>2, <2>3, StatePut
  <2>5. Puts(t.by, n) /\ SameCalls(manager[t.by], n) /\ (Leaves(t.by) => Leaves(t.by)')
    BY <2>4 DEF StateSet, Keeps, Leaves, Puts
  <2>6. \A x \in Device : SameCalls(manager[x], manager'[x]) /\ (Leaves(x) => Leaves(x)')
    BY <1>1, <2>5, OneDrains
  <2>7. QED
    BY <2>1, <2>6, QuietDrains
<1>6. CASE HangupSent(t)
  <2>1. tasks' \subseteq tasks /\ signals' = signals /\ Teardown(t.by)
    BY <1>6 DEF HangupSent
  <2>2. QED
    BY <1>1, <2>1, TeardownDrains
<1>7. CASE Fails(t)
  BY <1>7, NoneDrains, QuietDrains DEF Fails
<1>8. QED
  BY <1>2, <1>3, <1>4, <1>5, <1>6, <1>7

LEMMA SignalDrains ==
  ASSUME TypeInv, NEW s \in signals,
         (ReceiveOffer(s) /\ Live(s.to)) \/ ReceiveAnswer(s) \/ ReceiveHangup(s)
  PROVE  Draining
<1>1. s.to \in Device /\ s.sdp \in SUBSET Number /\ AtMostOne(s.sdp)
  BY SignalShape DEF TypeInv
<1>2. CASE ReceiveOffer(s) /\ Live(s.to)
  <2>1. /\ manager' = manager /\ tasks' = tasks /\ calls' = calls /\ tornDown' = tornDown
        /\ \A r \in signals' : r \in signals \/ r.kind # "call-offer"
    BY <1>2 DEF ReceiveOffer, SignalTo
  <2>2. QED
    BY <2>1, NoneDrains, QuietDrains
<1>3. CASE ReceiveAnswer(s)
  <2>1. /\ signals' \subseteq signals /\ calls' = calls /\ tornDown' = tornDown
        /\ \/ UNCHANGED <<manager, tasks>>
           \/ /\ manager' = [manager EXCEPT ![s.to].remoteFingerprint = s.sdp]
              /\ \A t \in tasks' : t \in tasks \/ t.awaits = "acceptAnswer"
    BY <1>3 DEF ReceiveAnswer
  <2>2. CASE UNCHANGED <<manager, tasks>>
    BY <2>1, <2>2, NoneDrains, QuietDrains
  <2>3. CASE /\ manager' = [manager EXCEPT ![s.to].remoteFingerprint = s.sdp]
             /\ \A t \in tasks' : t \in tasks \/ t.awaits = "acceptAnswer"
    <3>1. PICK n : /\ Puts(s.to, n)
                   /\ SameBut(manager[s.to], n, manager[s.to].localFingerprint, s.sdp)
      BY <1>1, <2>3, RemotePut
    <3>2. SameCalls(manager[s.to], n) /\ (Leaves(s.to) => Leaves(s.to)')
      BY <3>1 DEF SameBut, SameCalls, Leaves, Puts
    <3>3. \A x \in Device : SameCalls(manager[x], manager'[x]) /\ (Leaves(x) => Leaves(x)')
      BY <1>1, <3>1, <3>2, OneDrains
    <3>4. QED
      BY <2>1, <2>3, <3>3, QuietDrains
  <2>4. QED
    BY <2>1, <2>2, <2>3
<1>4. CASE ReceiveHangup(s)
  <2>1. /\ signals' \subseteq signals /\ tasks' = tasks
        /\ \/ Teardown(s.to)
           \/ manager' = manager /\ calls' = calls /\ tornDown' = tornDown
    BY <1>4 DEF ReceiveHangup
  <2>2. CASE Teardown(s.to)
    BY <1>1, <2>1, <2>2, TeardownDrains
  <2>3. CASE manager' = manager /\ calls' = calls /\ tornDown' = tornDown
    BY <2>1, <2>3, NoneDrains, QuietDrains
  <2>4. QED
    BY <2>1, <2>2, <2>3
<1>5. QED
  BY <1>2, <1>3, <1>4

LEMMA EngineDrains ==
  ASSUME TypeInv, NEW e \in DOMAIN engines, Connects(e) \/ Disconnects(e)
  PROVE  Draining
<1>1. engines[e].by \in Device
  <2>1. e \in 1 .. Len(engines)
    BY DEF TypeInv
  <2>2. QED
    BY <2>1, EngineFields
<1>2. CASE Connects(e)
  <2>1. /\ manager' = IF Current(engines[e].by, engines[e].call)
                      THEN [manager EXCEPT ![engines[e].by] = SetState(@, "connected")]
                      ELSE manager
        /\ tasks' = tasks /\ signals' = signals /\ calls' = calls /\ tornDown' = tornDown
    BY <1>2 DEF Connects
  <2>2. "connected" \in State
    BY DEF State
  <2>3. CASE Current(engines[e].by, engines[e].call)
    <3>1. manager' = [manager EXCEPT ![engines[e].by] = SetState(@, "connected")]
      BY <2>1, <2>3
    <3>2. PICK n : StateSet(engines[e].by, "connected", manager[engines[e].by], n)
      BY <1>1, <2>2, <3>1, StatePut
    <3>3. /\ Puts(engines[e].by, n) /\ SameCalls(manager[engines[e].by], n)
          /\ (Leaves(engines[e].by) =>
                /\ n.keys = {} /\ n.mediaSecret = {} /\ n.engine = {} /\ n.pendingOfferSdp = {})
          /\ manager'[engines[e].by] = n
      BY <3>2 DEF StateSet, Keeps, Leaves, Puts
    <3>4. PICK d \in Device : d = engines[e].by
      BY <1>1
    <3>5. Puts(d, n) /\ SameCalls(manager[d], n) /\ (Leaves(d) => Leaves(d)')
      BY <3>3, <3>4 DEF Leaves
    <3>6. QED
      BY <2>1, <3>5, OneDrains, QuietDrains
  <2>4. CASE ~Current(engines[e].by, engines[e].call)
    <3>1. manager' = manager
      BY <2>1, <2>4
    <3>2. QED
      BY <2>1, <3>1, NoneDrains, QuietDrains
  <2>5. QED
    BY <2>3, <2>4
<1>3. CASE Disconnects(e)
  <2>1. Teardown(engines[e].by) /\ tasks' = tasks /\ signals' = signals
    BY <1>3 DEF Disconnects
  <2>2. QED
    BY <1>1, <2>1, TeardownDrains
<1>4. QED
  BY <1>2, <1>3

LEMMA DeviceDrains ==
  ASSUME TypeInv, NEW d \in Device, AnswerCall(d) \/ RefuseCall(d) \/ HangUp(d)
  PROVE  Draining
<1>1. CASE AnswerCall(d)
  <2>1. PICK c \in manager[d].current :
          /\ manager[d].pendingOfferSdp # {}
          /\ manager' = [manager EXCEPT ![d].engine = {Len(engines) + 1}]
          /\ \A t \in tasks' : t \in tasks \/ t.awaits = "createAnswer"
          /\ signals' = signals /\ calls' = calls /\ tornDown' = tornDown
    BY <1>1 DEF AnswerCall, Ringing
  <2>2. PICK e : e = Len(engines) + 1
    OBVIOUS
  <2>3. e \in Number
    BY <2>2 DEF TypeInv, Number
  <2>4. PICK n : EngineTaken(d, e, n)
    BY <2>1, <2>2, <2>3, EnginePut
  <2>5. Puts(d, n) /\ SameCalls(manager[d], n)
    BY <2>4 DEF EngineTaken, SameCalls
  <2>6. ~Leaves(d)
    BY <2>1 DEF Leaves
  <2>7. \A x \in Device : SameCalls(manager[x], manager'[x]) /\ (Leaves(x) => Leaves(x)')
    BY <2>5, <2>6, OneDrains
  <2>8. QED
    BY <2>1, <2>7, QuietDrains
<1>2. CASE RefuseCall(d)
  <2>1. /\ manager' = manager /\ calls' = calls /\ tornDown' = tornDown
        /\ \A t \in tasks' : t \in tasks \/ t.awaits = "refusalSent"
        /\ \A s \in signals' : s \in signals \/ s.kind = "call-hangup"
    BY <1>2 DEF RefuseCall, SignalTo
  <2>2. QED
    BY <2>1, NoneDrains, QuietDrains
<1>3. CASE HangUp(d)
  <2>1. \/ Teardown(d) /\ UNCHANGED <<tasks, signals>>
        \/ /\ manager' = manager /\ calls' = calls /\ tornDown' = tornDown
           /\ \A t \in tasks' : t \in tasks \/ t.awaits = "hangupSent"
           /\ \A s \in signals' : s \in signals \/ s.kind = "call-hangup"
    BY <1>3 DEF HangUp, SignalTo
  <2>2. CASE Teardown(d) /\ UNCHANGED <<tasks, signals>>
    BY <2>2, TeardownDrains
  <2>3. CASE /\ manager' = manager /\ calls' = calls /\ tornDown' = tornDown
             /\ \A t \in tasks' : t \in tasks \/ t.awaits = "hangupSent"
             /\ \A s \in signals' : s \in signals \/ s.kind = "call-hangup"
    BY <2>3, NoneDrains, QuietDrains
  <2>4. QED
    BY <2>1, <2>2, <2>3
<1>4. QED
  BY <1>1, <1>2, <1>3

LEMMA EndInvariance == TypeInv /\ CallsInv /\ EndInv /\ [Next]_vars => EndInv'
<1> SUFFICES ASSUME TypeInv, CallsInv, EndInv, [Next]_vars PROVE EndInv'
  OBVIOUS
<1>1. CASE UNCHANGED vars
  BY <1>1, NoneDrains, QuietDrains, DrainingKeeps DEF vars
<1>2. CASE Next
  BY <1>2, PlacedEnds, OfferedEnds, DeviceDrains, TaskDrains, SignalDrains, EngineDrains,
     DrainingKeeps DEF Next
<1>3. QED
  BY <1>1, <1>2

LEMMA InitEnds == Init => EndInv
BY DEF Init, Idle, EndInv, OffersInv, Emptied, Leaves

\* A call that was torn down, and for which nothing is pending, has left no key,
\* no secret and no engine with a running microphone (endCall).
THEOREM EndedCallsLeaveNothing == Spec => []EndedLeavesNothing
<1>1. Init => TypeInv /\ CallsInv /\ OneGuest /\ (AnsweredTwice \/ WordsInv) /\ EndInv
  BY InitTyped, InitCalls, InitGuest, InitWords, InitEnds
<1>2. /\ TypeInv /\ CallsInv /\ OneGuest /\ (AnsweredTwice \/ WordsInv) /\ EndInv /\ [Next]_vars
      => (TypeInv /\ CallsInv /\ OneGuest /\ (AnsweredTwice \/ WordsInv) /\ EndInv)'
  BY CallsTyped, CallsInvariance, GuestInvariance, WordsInvariance, EndInvariance
<1>3. TypeInv /\ (AnsweredTwice \/ WordsInv) /\ EndInv => EndedLeavesNothing
  <2> SUFFICES ASSUME TypeInv, WordsInv, EndInv, NEW d \in Device,
                      \A c \in manager[d].current : [by |-> d, call |-> c.id] \in tornDown
               PROVE  /\ manager[d].keys = {} /\ manager[d].mediaSecret = {}
                      /\ manager[d].engine = {}
                      /\ \A e \in DOMAIN engines : engines[e].by = d => ~engines[e].open
    BY DEF EndedLeavesNothing
  <2>1. Leaves(d) /\ Fits(d)
    BY DEF EndInv, Emptied, WordsInv
  <2>2. DOMAIN engines = Eng
    BY DEF TypeInv, Eng
  <2>3. QED
    BY <2>1, <2>2 DEF Leaves, Fits
<1>4. QED
  BY <1>1, <1>2, <1>3, PTL DEF Spec

-----------------------------------------------------------------------------
(* The replay window of the media.                                        *)

\* What a receiver r remembers of the set of frames it accepted.
Remembers(r, played) ==
  /\ r.highestCounter \in -1 .. MaxFrameCounter
  /\ r.seen \subseteq played
  /\ \A c \in played : c <= r.highestCounter
  /\ \A c \in played : c \in r.seen \/ c + ReplayWindow <= r.highestCounter
  /\ r.highestCounter > ReplayWindow =>
       \A c \in r.seen : c > r.highestCounter - ReplayWindow

WindowInv ==
  /\ counter \in 0 .. MaxFrameCounter + 1
  /\ sealed = 0 .. counter - 1
  /\ accepted \subseteq sealed
  /\ Remembers(receiver, accepted)

\* A commit notes the frame and forgets only what the window refuses.
LEMMA CommitRemembers ==
  ASSUME NEW r, NEW played \in SUBSET Counter, Remembers(r, played), NEW c \in Counter
  PROVE  Remembers(Committed(r, c), played \cup {c})
<1> DEFINE highest == IF c > r.highestCounter THEN c ELSE r.highestCounter
           seen    == Trimmed(r.seen \cup {c}, highest)
           t       == Committed(r, c)
<1>1. t.highestCounter = highest /\ t.seen = seen
  BY DEF Committed
<1>2. /\ highest \in -1 .. MaxFrameCounter /\ c \in Int /\ r.highestCounter \in Int
      /\ c <= highest /\ r.highestCounter <= highest
      /\ played \subseteq Int /\ r.seen \subseteq played /\ ReplayWindow \in Nat
  BY FrameBounds DEF Remembers, Counter
<1>3. \A k \in seen : k \in r.seen \cup {c} /\ (highest > ReplayWindow => k > highest - ReplayWindow)
  BY DEF Trimmed
<1>4. \A k \in played \cup {c} : k <= highest
  BY <1>2 DEF Remembers
<1>5. ASSUME NEW k \in played \cup {c} PROVE k \in seen \/ k + ReplayWindow <= highest
  <2>1. CASE k \in r.seen \cup {c}
    BY <1>2, <2>1 DEF Trimmed
  <2>2. CASE k \notin r.seen \cup {c}
    <3>1. k + ReplayWindow <= r.highestCounter
      BY <2>2 DEF Remembers
    <3>2. QED
      BY <1>2, <3>1
  <2>3. QED
    BY <2>1, <2>2
<1> HIDE DEF highest, seen, t
<1>6. QED
  BY <1>1, <1>2, <1>3, <1>4, <1>5 DEF Remembers, t

\* Every step of sender and receiver keeps the invariant.
THEOREM WindowInvariance == SFrameSpec => []WindowInv
<1>1. SFrameInit => WindowInv
  BY FrameBounds DEF SFrameInit, WindowInv, Remembers
<1>2. WindowInv /\ [SFrameNext]_sframeVars => WindowInv'
  <2> SUFFICES ASSUME WindowInv, [SFrameNext]_sframeVars PROVE WindowInv'
    OBVIOUS
  <2>1. CASE EncryptFrame
    <3>1. /\ counter' = counter + 1 /\ sealed' = sealed \cup {counter}
          /\ counter <= MaxFrameCounter /\ UNCHANGED <<receiver, accepted>>
      BY <2>1 DEF EncryptFrame, CounterAfter
    <3>2. counter' \in 0 .. MaxFrameCounter + 1 /\ sealed' = 0 .. counter' - 1
      BY <3>1, FrameBounds DEF WindowInv
    <3>3. accepted' \subseteq sealed'
      BY <3>1 DEF WindowInv
    <3>4. QED
      BY <3>1, <3>2, <3>3 DEF WindowInv
  <2>2. ASSUME NEW f \in Arriving, DecryptFrame(f) PROVE WindowInv'
    <3>1. CASE ~Decrypts(receiver, f)
      BY <2>2, <3>1 DEF DecryptFrame, AfterFrame, WindowInv
    <3>2. CASE Decrypts(receiver, f)
      <4>1. /\ f.counter \in Counter /\ f.counter \in sealed
            /\ receiver' = Committed(receiver, f.counter)
            /\ accepted' = accepted \cup {f.counter} /\ UNCHANGED <<counter, sealed>>
        BY <2>2, <3>2 DEF DecryptFrame, AfterFrame, Decrypts, Passes, Arriving
      <4>2. accepted \in SUBSET Counter
        BY FrameBounds DEF WindowInv, Counter
      <4>3. Remembers(Committed(receiver, f.counter), accepted \cup {f.counter})
        BY <4>1, <4>2, CommitRemembers DEF WindowInv
      <4>4. QED
        BY <4>1, <4>3 DEF WindowInv
    <3>3. QED
      BY <3>1, <3>2
  <2>3. CASE UNCHANGED sframeVars
    BY <2>3 DEF sframeVars, WindowInv
  <2>4. QED
    BY <2>1, <2>2, <2>3 DEF SFrameNext
<1>3. QED
  BY <1>1, <1>2, PTL DEF SFrameSpec

\* The counter that derives the next nonce has never been used.
THEOREM NonceIsFresh == SFrameSpec => []NonceNeverReused
<1>1. WindowInv => NonceNeverReused
  BY FrameBounds DEF WindowInv, NonceNeverReused
<1>2. QED
  BY <1>1, WindowInvariance, PTL

\* A replayed frame never decrypts, however old.
THEOREM ReplaysAreRefused == SFrameSpec => []AcceptedOnce
<1>1. WindowInv => AcceptedOnce
  <2> SUFFICES ASSUME WindowInv, NEW c \in accepted PROVE ~Decrypts(receiver, Genuine(c))
    BY DEF AcceptedOnce
  <2>1. c \in Nat /\ receiver.highestCounter \in Int /\ ReplayWindow \in Nat
    BY FrameBounds DEF WindowInv, Remembers
  <2>2. c \in receiver.seen \/ c + ReplayWindow <= receiver.highestCounter
    BY DEF WindowInv, Remembers
  <2>3. ~Passes(receiver, c)
    BY <2>1, <2>2 DEF Passes, TooOld
  <2>4. QED
    BY <2>3 DEF Decrypts, Genuine
<1>2. QED
  BY <1>1, WindowInvariance, PTL

\* A frame within the window stays decryptable until it is played.
THEOREM WindowIsNeverPoisoned == SFrameSpec => []WindowStaysOpen
<1>1. WindowInv => WindowStaysOpen
  <2> SUFFICES ASSUME WindowInv, NEW c \in sealed \ accepted,
                      c + ReplayWindow > receiver.highestCounter
               PROVE  Decrypts(receiver, Genuine(c))
    BY DEF WindowStaysOpen
  <2>1. c \in Counter /\ c \notin receiver.seen
    BY FrameBounds DEF WindowInv, Remembers, Counter
  <2>2. ~TooOld(receiver, c)
    BY <2>1, FrameBounds DEF TooOld, Counter, WindowInv, Remembers
  <2>3. QED
    BY <2>1, <2>2 DEF Decrypts, Passes, Genuine
<1>2. QED
  BY <1>1, WindowInvariance, PTL

\* Types, and the bound of the replay memory.
THEOREM ReplayMemoryIsBounded == SFrameSpec => []SFrameTypeOK
<1>1. WindowInv => SFrameTypeOK
  <2> SUFFICES ASSUME WindowInv PROVE SFrameTypeOK
    OBVIOUS
  <2> DEFINE h   == receiver.highestCounter
             low == IF h > ReplayWindow THEN h - ReplayWindow + 1 ELSE 0
  <2>1. h \in -1 .. MaxFrameCounter /\ h \in Int /\ ReplayWindow \in Nat /\ low \in Int
    BY FrameBounds DEF WindowInv, Remembers
  <2>2. sealed \subseteq Counter /\ accepted \subseteq sealed /\ receiver.seen \subseteq Counter
    <3>1. sealed \subseteq Counter
      BY FrameBounds DEF WindowInv, Counter
    <3>2. accepted \subseteq sealed /\ receiver.seen \subseteq accepted
      BY DEF WindowInv, Remembers
    <3>3. QED
      BY <3>1, <3>2
  <2>3. receiver.seen \subseteq low .. h
    <3>1. \A c \in receiver.seen : c \in Nat /\ c <= h
      BY <2>2, FrameBounds DEF WindowInv, Remembers, Counter
    <3>2. h > ReplayWindow => \A c \in receiver.seen : c > h - ReplayWindow
      BY DEF WindowInv, Remembers
    <3>3. QED
      BY <2>1, <3>1, <3>2
  <2>4. IsFiniteSet(low .. h) /\ Cardinality(low .. h) <= ReplayWindow + 1
        /\ Cardinality(low .. h) \in Nat
    <3>1. IsFiniteSet(low .. h) /\ Cardinality(low .. h) = IF low > h THEN 0 ELSE h - low + 1
      BY <2>1, FS_Interval
    <3>2. QED
      BY <2>1, <3>1
  <2>5. Cardinality(receiver.seen) <= ReplayWindow + 1
    <3> HIDE DEF h, low
    <3>1. /\ Cardinality(receiver.seen) <= Cardinality(low .. h)
          /\ Cardinality(receiver.seen) \in Nat
      BY <2>3, <2>4, FS_Subset, FS_CardinalityType
    <3>2. QED
      BY <2>1, <2>4, <3>1
  <2>6. QED
    BY <2>1, <2>2, <2>5 DEF SFrameTypeOK, WindowInv
<1>2. QED
  BY <1>1, WindowInvariance, PTL
=============================================================================
