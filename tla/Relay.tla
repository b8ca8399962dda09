-------------------------------- MODULE Relay --------------------------------
(***************************************************************************)
(* The relay of packages/relay: relay.ts over InMemoryRelayStore (store.ts)*)
(* and AuthService.  An account's messages are numbered in the order they  *)
(* were accepted; ids are random in the code and never repeat.             *)
(*                                                                         *)
(* Atomicity follows the awaits.  A handler runs undisturbed up to its next*)
(* await, and a store method of the in-memory store takes effect when it is*)
(* called.  So a send is two steps, enqueue and push, and authenticating a *)
(* socket is two, registering it with a snapshot of the queue and sending  *)
(* that snapshot.  The await on getAccount changes nothing: accounts are   *)
(* never removed.                                                          *)
(***************************************************************************)
EXTENDS AuthService, Sequences

CONSTANTS
  Conn,         \* WebSocket connections, each used once
  MaxQueue,     \* LIMITS.maxQueueLength
  MessageTtl,   \* LIMITS.messageTtlMs
  MaxAccepted   \* bound: messages accepted per account

ASSUME QueueHolds == MaxQueue \in Nat \ {0} /\ MessageTtl \in Nat \ {0} /\ MaxAccepted \in Nat

VARIABLES
  accounts,   \* registered addresses
  received,   \* receivedAt of every message ever accepted for an address
  queue,      \* the numbers of those the store still holds
  sockets,    \* the sockets Map: connections registered for an address
  address,    \* SocketState.address: addresses are kept as sets of at most one
  open,       \* connections that are connected
  pushing,    \* sends between enqueue and push
  draining,   \* authenticate handlers between snapshot and sends
  inbox,      \* what each open connection was sent
  provenBy,   \* history: the keys that earned the tokens shown on a connection
  acked       \* history: what an account's own sessions acknowledged

storeVars  == <<accounts, received, queue, acked>>
socketVars == <<sockets, address, open, inbox, provenBy>>
vars == <<authVars, storeVars, socketVars, pushing, draining>>

Accepted(a) == 1 .. Len(received[a])
Messages    == UNION {{a} \X Accepted(a) : a \in Address}
Message     == Address \X (1 .. MaxAccepted)

Init ==
  /\ AuthInit
  /\ accounts = {}
  /\ received = [a \in Address |-> <<>>]
  /\ queue = [a \in Address |-> {}]
  /\ acked = [a \in Address |-> {}]
  /\ sockets = [a \in Address |-> {}]
  /\ address = [c \in Conn |-> {}]
  /\ open = Conn
  /\ inbox = [c \in Conn |-> {}]
  /\ provenBy = [c \in Conn |-> {}]
  /\ pushing = {} /\ draining = {}

-----------------------------------------------------------------------------
(* Accounts and sessions.                                                  *)

\* POST /v1/accounts; registering again changes nothing.
Register(a) ==
  /\ accounts' = accounts \cup {a}
  /\ UNCHANGED <<authVars, received, queue, acked, socketVars, pushing, draining>>

AskChallenge(a) ==
  /\ IssueChallenge(a)
  /\ UNCHANGED <<storeVars, socketVars, pushing, draining>>

\* POST /v1/auth, answered only for a registered address.
Login(a) ==
  /\ a \in accounts
  /\ \E value \in Drawn, signer \in Address : Authenticate(a, value, signer)
  /\ UNCHANGED <<storeVars, socketVars, pushing, draining>>

\* Any request that carries an expired token.
Refuse ==
  /\ \E token \in Drawn : RefuseExpired(token)
  /\ UNCHANGED <<storeVars, socketVars, pushing, draining>>

HasSession(a) == \E token \in Drawn : Resolves(token, a)

-----------------------------------------------------------------------------
(* Sending: POST /v1/messages and the socket's 'send', from anyone.        *)

\* Overflow handling that lets one too many stay, one that drops the newest,
\* and the code's.
OverflowLate(held) ==
  {n \in held : Cardinality({k \in held : k >= n}) <= MaxQueue + 1}

OverflowNewest(held) ==
  {n \in held : Cardinality({k \in held : k <= n}) <= MaxQueue}

\* while (queue.length > maxQueueLength) queue.shift()
Overflow(held) ==
  {n \in held : Cardinality({k \in held : k >= n}) <= MaxQueue}

Enqueue(a) ==
  LET n == Len(received[a]) + 1 IN
  /\ a \in accounts
  /\ n <= MaxAccepted
  /\ received' = [received EXCEPT ![a] = Append(@, now)]
  /\ queue' = [queue EXCEPT ![a] = Overflow(@ \cup {n})]
  /\ pushing' = pushing \cup {<<a, n>>}
  /\ UNCHANGED <<authVars, accounts, acked, socketVars, draining>>

\* A push that reaches one of the connections only.
SentToOne(conns, messages) ==
  [c \in Conn |-> IF conns # {} /\ c = (CHOOSE k \in conns : TRUE)
                  THEN inbox[c] \cup messages ELSE inbox[c]]

\* What is sent on a connection that has closed is discarded.
Sent(conns, messages) ==
  [c \in Conn |-> IF c \in conns \cap open THEN inbox[c] \cup messages ELSE inbox[c]]

\* pushToAddress.
Push(m) ==
  /\ m \in pushing
  /\ pushing' = pushing \ {m}
  /\ inbox' = Sent(sockets[m[1]], {m})
  /\ UNCHANGED <<authVars, storeVars, sockets, address, open, provenBy, draining>>

-----------------------------------------------------------------------------
(* Sockets.                                                                *)

\* A handler that skips the backlog, and the code's.
SnapshotEmpty(a) == {}

Snapshot(a) == {<<a, n>> : n \in queue[a]}

\* 'authenticate', to its await.  A connection may do so again, as another.
SocketAuthenticate(c, a) ==
  /\ c \in open
  /\ \E token \in Drawn :
       /\ Resolves(token, a)
       /\ provenBy' = [provenBy EXCEPT ![c] =
                          @ \cup {g.by : g \in {g \in grants : g.token = token}}]
  /\ address' = [address EXCEPT ![c] = {a}]
  /\ sockets' = [sockets EXCEPT ![a] = @ \cup {c}]
  /\ draining' = draining \cup {[conn |-> c, batch |-> Snapshot(a)]}
  /\ UNCHANGED <<authVars, storeVars, open, inbox, pushing>>

\* The rest of it.
Drain(d) ==
  /\ d \in draining
  /\ draining' = draining \ {d}
  /\ inbox' = Sent({d.conn}, d.batch)
  /\ UNCHANGED <<authVars, storeVars, sockets, address, open, provenBy, pushing>>

\* A 'close' that only forgets the connection's own state, and the code's, which
\* takes it out of the set of its latest address.
CloseQuietly(c) ==
  /\ c \in open
  /\ open' = open \ {c}
  /\ inbox' = [inbox EXCEPT ![c] = {}]
  /\ UNCHANGED <<authVars, storeVars, sockets, address, provenBy, pushing, draining>>

Close(c) ==
  /\ c \in open
  /\ open' = open \ {c}
  /\ sockets' = [a \in Address |-> IF a \in address[c] THEN sockets[a] \ {c} ELSE sockets[a]]
  /\ inbox' = [inbox EXCEPT ![c] = {}]
  /\ UNCHANGED <<authVars, storeVars, address, provenBy, pushing, draining>>

-----------------------------------------------------------------------------
(* Taking messages out.                                                    *)

\* store.acknowledge of ids in every queue, and in the caller's own.
RemoveEverywhere(a, ids) ==
  [b \in Address |-> {n \in queue[b] : <<b, n>> \notin ids}]

Remove(a, ids) == [queue EXCEPT ![a] = {n \in @ : <<a, n>> \notin ids}]

\* POST /v1/messages/acknowledge, and the socket's 'acknowledge', which asks
\* for no token once the socket is authenticated.  The id may be anyone's; a
\* list of them is as many acknowledgements in a row.
Acknowledge(a) ==
  /\ HasSession(a) \/ \E c \in open : a \in address[c]
  /\ \E m \in Messages :
       /\ queue' = Remove(a, {m})
       /\ acked' = [acked EXCEPT ![a] = @ \cup {n \in Accepted(a) : <<a, n>> = m}]
  /\ UNCHANGED <<authVars, accounts, received, socketVars, pushing, draining>>

\* expire.
Kept(a) == {n \in queue[a] : now - received[a][n] < MessageTtl}

\* The hourly timer.
Housekeeping ==
  /\ queue' = [a \in Address |-> Kept(a)]
  /\ Prune
  /\ UNCHANGED <<accounts, received, acked, socketVars, pushing, draining>>

Clock ==
  /\ Tick
  /\ UNCHANGED <<storeVars, socketVars, pushing, draining>>

Next ==
  \/ \E a \in Address :
       \/ Register(a) \/ AskChallenge(a) \/ Login(a)
       \/ Enqueue(a) \/ Acknowledge(a)
       \/ \E c \in Conn : SocketAuthenticate(c, a)
  \/ \E m \in pushing : Push(m)
  \/ \E d \in draining : Drain(d)
  \/ \E c \in Conn : Close(c)
  \/ Refuse \/ Housekeeping \/ Clock

Spec == Init /\ [][Next]_vars

\* Each handler goes on after its await: the store's promise is resolved.
Fairness ==
  /\ \A m \in Message : WF_vars(Push(m))
  /\ \A d \in [conn : Conn, batch : SUBSET Message] : WF_vars(Drain(d))

FairSpec == Spec /\ Fairness

-----------------------------------------------------------------------------
\* The values the variables range over; a queue holds at most MaxQueue of the
\* messages accepted for its account.
TypeOK ==
  /\ AuthTypeOK
  /\ accounts \subseteq Address
  /\ received \in [Address -> Seq(Nat)]
  /\ \A a \in Address : /\ queue[a] \subseteq Accepted(a)
                        /\ acked[a] \subseteq Accepted(a)
                        /\ Cardinality(queue[a]) <= MaxQueue
  /\ queue \in [Address -> SUBSET Nat] /\ acked \in [Address -> SUBSET Nat]
  /\ sockets \in [Address -> SUBSET Conn]
  /\ address \in [Conn -> SUBSET Address]
  /\ open \subseteq Conn
  /\ pushing \subseteq Messages
  /\ draining \subseteq [conn : Conn, batch : SUBSET Messages]
  /\ inbox \in [Conn -> SUBSET Messages]
  /\ provenBy \in [Conn -> SUBSET Address]

\* An authenticated connection misses nothing, however enqueue, push, register
\* and drain interleave: a message still queued has been sent to it, or one of
\* the two handlers that will send it has not finished (relay.ts:349-358).
NoMissedDelivery ==
  \A a \in Address : \A c \in sockets[a] \cap open, n \in queue[a] :
    \/ <<a, n>> \in inbox[c]
    \/ <<a, n>> \in pushing
    \/ \E d \in draining : d.conn = c /\ <<a, n>> \in d.batch

\* An accepted message is not lost in silence: it leaves the queue when its own
\* account acknowledges it, when its time is up, or when MaxQueue newer ones
\* were accepted (store.ts:120-152).
NothingLostSilently ==
  \A a \in Address : \A n \in Accepted(a) \ (queue[a] \cup acked[a]) :
    \/ now - received[a][n] >= MessageTtl
    \/ n + MaxQueue <= Len(received[a])

\* What a connection was sent is for accounts whose key holder authenticated
\* that very connection with a token earned by that key.
OnlyKeyHoldersRead ==
  \A c \in Conn : \A m \in inbox[c] : m[1] \in provenBy[c]

\* Pushing and draining do finish: a message queued for an authenticated
\* connection reaches it, unless it closes or the message goes.
ConnectedReceives ==
  \A c \in Conn, a \in Address, n \in 1 .. MaxAccepted :
    (c \in sockets[a] \cap open /\ n \in queue[a]) ~>
      (<<a, n>> \in inbox[c] \/ c \notin open)

\* A closed connection is forgotten with the last address it authenticated;
\* only under an earlier one can it stay behind (relay.ts:405).
ClosedAreForgotten ==
  \A a \in Address : \A c \in sockets[a] \ open : a \notin address[c]

-----------------------------------------------------------------------------
(* The relay implements a mailbox for each account.                        *)

M == INSTANCE Mailbox WITH
       Box <- Address,
       Capacity <- MaxQueue,
       accepted <- [a \in Address |-> Len(received[a])],
       waiting <- queue,
       taken <- acked,
       stale <- [a \in Address |-> {n \in Accepted(a) : now - received[a][n] >= MessageTtl}]

\* Whatever sockets, handlers, sessions and clocks do, each account sees a box:
\* only the oldest messages leave it without the owner's word, to overflow or
\* to age, and no one takes out what is in another's.
IsMailbox == M!Spec
=============================================================================
