---------------------------- MODULE RelayClient ----------------------------
(***************************************************************************)
(* A node's connection to the relay (src/src/net/relay/client.ts): dialling,*)
(* the handshake, loss and retry, the ports a worker adds and removes while *)
(* it is up, and the streams a dialer asks for.                             *)
(*                                                                         *)
(* Every WebSocket has its own channel in both directions.  The listeners   *)
(* of the client are not bound to the socket they were added to: an event   *)
(* of a socket that was given up acts on the present connection.  Of the    *)
(* relay (server.ts) the model has the one session of this host and what is *)
(* declared in it; RelayPorts has its tables.  Delays are left out.         *)
(***************************************************************************)
EXTENDS Naturals, Sequences, Functions

CONSTANTS
    Socks,          \* WebSockets, reused when both ends have forgotten them
    None,           \* no socket
    Static,         \* opts.ports of a worker
    Ports,          \* ports a worker adds at run time
    PortsOf,        \* bound: [role -> those it adds]
    Ids,            \* reqId and stream ids, reused when no message names them
    CallIds,        \* bound: those of calls, the others are left to replays
    MaxFaults       \* bound: faults of the network and of the relay

ClientAssumption ==
    /\ None \notin Socks /\ Ids \subseteq Nat /\ CallIds \subseteq Ids

SockOrNone == Socks \cup {None}

Roles == {"worker",     \* adds ports; its calls are answered in time
          "late",       \* the same with calls that time out
          "dialer"}     \* opens streams

VARIABLES
    role,       \* chosen at the start
    state,      \* RelayClient.state
    ws,         \* RelayClient.ws
    retry,      \* retryTimer is set
    stopped,    \* RelayClient.stopped
    dynamic,    \* dynamicPorts
    waiting,    \* portWaiters and dialWaiters; left: what a replay goes on with
    dialled,    \* dialStreams that were acknowledged
    sock,       \* the client's end of each socket; dead is half-open
    toRelay, toClient,  \* its two channels, FIN last
    greet,      \* the connections of the relay that have not said HELLO
    reg,        \* the connection of this host's session
    served,     \* the ports declared in the session
    routes,     \* its dialRoutes
    faults      \* faults so far

relay == <<greet, reg, served, routes>>
calls == <<waiting, dialled>>
vars == <<role, state, ws, retry, stopped, dynamic, calls, sock, toRelay, toClient,
          relay, faults>>

Plain == {"HELLO", "BYE", "FIN", "ACK", "FULL", "ERR"}
Frames == [type : Plain, id : {0}, port : {0}, ok : {TRUE}]
          \cup [type : {"ADD", "DEL", "DIAL", "CLOSE", "PORT_ACK", "DIAL_ACK"}, id : Ids,
                port : {0} \cup Ports, ok : BOOLEAN]

TypeOK ==
    /\ role \in Roles
    /\ state \in {"idle", "connecting", "handshaking", "up", "backoff", "queued", "stopped"}
    /\ ws \in SockOrNone /\ retry \in BOOLEAN /\ stopped \in BOOLEAN
    /\ dynamic \subseteq Ports /\ dialled \subseteq Ids
    /\ waiting \subseteq [id : Ids, kind : {"ADD", "DEL", "replay", "DIAL"},
                          port : {0} \cup Ports, left : SUBSET Ports]
    /\ sock \in [Socks -> {"free", "dialing", "open", "dead"}]
    /\ \A s \in Socks : Range(toRelay[s]) \cup Range(toClient[s]) \subseteq Frames
    /\ greet \subseteq Socks /\ reg \in SockOrNone
    /\ served \subseteq Static \cup Ports /\ routes \subseteq Ids
    /\ faults \in 0..MaxFaults

Init ==
    /\ role \in Roles
    /\ state = "idle" /\ ws = None /\ retry = FALSE /\ stopped = TRUE
    /\ dynamic = {} /\ waiting = {} /\ dialled = {}
    /\ sock = [s \in Socks |-> "free"]
    /\ toRelay = [s \in Socks |-> <<>>] /\ toClient = [s \in Socks |-> <<>>]
    /\ greet = {} /\ reg = None /\ served = {} /\ routes = {}
    /\ faults = 0

-----------------------------------------------------------------------------
(* Channels *)

Frame(type) == [type |-> type, id |-> 0, port |-> 0, ok |-> TRUE]
FIN == Frame("FIN")
Request(type, id, port) == [type |-> type, id |-> id, port |-> port, ok |-> TRUE]
Reply(type, f, ok) == [type |-> type, id |-> f.id, port |-> f.port, ok |-> ok]

Closing(s) == toClient[s] = <<FIN>>
Heads(c, s, type) == c[s] # <<>> /\ Head(c[s]).type = type
Popped(c, s) == [c EXCEPT ![s] = Tail(@)]
With(c, s, f) == [c EXCEPT ![s] = Append(@, f)]

\* The relay's end of a socket is there: what is sent arrives.
Heard(s) == s \in greet \/ reg = s

\* ws.close(): of the events only the last is still delivered ...
ClosedBy(c, s) == IF s = None THEN c ELSE [c EXCEPT ![s] = <<FIN>>]
\* ... and the relay meets the end after what was sent, if it is still reached.
Ended(c, s) == IF s # None /\ sock[s] = "open" /\ Heard(s) THEN With(c, s, FIN) ELSE c

\* send(): nothing goes out unless the present socket is open.
CanSend == ws # None /\ sock[ws] = "open" /\ ~Closing(ws)
Sent(f) == IF CanSend /\ Heard(ws) THEN With(toRelay, ws, f) ELSE toRelay

\* An id that no call, stream or message uses.
FreeId(id) ==
    /\ \A w \in waiting : w.id # id
    /\ id \notin dialled \cup routes
    /\ \A s \in Socks : \A f \in Range(toRelay[s]) \cup Range(toClient[s]) : f.id # id

\* The next id: the code counts up, and here the least one is used again.
Least(id, ids) == id \in ids /\ \A i \in ids : id <= i

Fault == faults < MaxFaults /\ faults' = faults + 1

-----------------------------------------------------------------------------
(* Dialling *)

Forgotten(s) == sock[s] = "free" /\ s \notin greet /\ reg # s /\ toClient[s] = <<>>

\* dial: a new socket takes the place of ws, which is not closed.
Dial(s) ==
    /\ Forgotten(s)
    /\ sock' = [sock EXCEPT ![s] = "dialing"]
    /\ ws' = s
    /\ state' = "connecting"

\* start; nobody starts a client again that was stopped.
Start(s) ==
    /\ state = "idle"
    /\ Dial(s)
    /\ stopped' = FALSE
    /\ UNCHANGED <<role, retry, dynamic, calls, toRelay, toClient, relay, faults>>

\* A live socket closes within the shortest delay of a retry, or it is a fault.
LateClose == \E s \in Socks : Closing(s) /\ sock[s] # "dead"

\* mutant: a timer that fired is not forgotten
RetryFiresUnseen(s) ==
    /\ retry
    /\ Dial(s)
    /\ UNCHANGED retry
    /\ IF LateClose THEN Fault ELSE UNCHANGED faults
    /\ UNCHANGED <<role, stopped, dynamic, calls, toRelay, toClient, relay>>

\* scheduleRetry: the timer.
RetryFires(s) ==
    /\ retry
    /\ Dial(s)
    /\ retry' = FALSE
    /\ IF LateClose THEN Fault ELSE UNCHANGED faults
    /\ UNCHANGED <<role, stopped, dynamic, calls, toRelay, toClient, relay>>

RetryNow(s) == ~stopped /\ Dial(s) /\ retry' = FALSE

\* startNetWatch: another local address while the client is not up.
NetChange(s) ==
    /\ state # "up"
    /\ Fault
    /\ RetryNow(s)
    /\ UNCHANGED <<role, stopped, dynamic, calls, toRelay, toClient, relay>>

\* onOpen, of any socket: HELLO goes out on the present one.
Open(s) ==
    /\ sock[s] = "dialing" /\ toClient[s] = <<>>
    /\ sock' = [sock EXCEPT ![s] = "open"]
    /\ state' = "handshaking"
    /\ greet' = greet \cup {s}
    /\ toRelay' = IF ws = s THEN With(toRelay, s, Frame("HELLO")) ELSE Sent(Frame("HELLO"))
    /\ UNCHANGED <<role, ws, retry, stopped, dynamic, calls, toClient, reg, served,
                   routes, faults>>

\* stop: BYE and close; the calls and streams of a dialer are left alone.
Stop ==
    /\ ~stopped
    /\ stopped' = TRUE
    /\ state' = "stopped" /\ ws' = None /\ retry' = FALSE
    /\ waiting' = {w \in waiting : w.kind = "DIAL"}
    /\ toRelay' = IF CanSend /\ Heard(ws)
                    THEN [toRelay EXCEPT ![ws] = @ \o <<Frame("BYE"), FIN>>] ELSE toRelay
    /\ toClient' = ClosedBy(toClient, ws)
    /\ UNCHANGED <<role, dynamic, dialled, sock, relay, faults>>

-----------------------------------------------------------------------------
(* Losing the connection *)

\* onDown, after an event that left channel c: nothing while a retry is pending.
\* Calls fail, and with them the replays; streams end; ws is closed.
Down(c, free) ==
    IF retry
      THEN toClient' = c /\ UNCHANGED <<ws, retry, state, calls, toRelay>>
      ELSE /\ ws' = None
           /\ toClient' = IF ws \in free \cup {None} THEN c ELSE ClosedBy(c, ws)
           /\ toRelay' = IF ws \in free THEN toRelay ELSE Ended(toRelay, ws)
           /\ waiting' = {} /\ dialled' = {}
           /\ retry' = ~stopped
           /\ state' = "backoff"

\* close and error, of any socket.
CloseEvent(s) ==
    /\ Heads(toClient, s, "FIN")
    /\ sock' = [sock EXCEPT ![s] = "free"]
    /\ Down([toClient EXCEPT ![s] = <<>>], {s})
    /\ UNCHANGED <<role, stopped, dynamic, relay, faults>>

\* startHealthWatch: no frame for a while.
HealthWatch ==
    /\ ~stopped /\ state = "up"
    /\ ws # None /\ sock[ws] # "open"
    /\ Down(toClient, {})
    /\ UNCHANGED <<role, stopped, dynamic, sock, relay, faults>>

\* onMessage: BYE; onHelloErr: refused.
Refused(s) ==
    /\ \/ Heads(toClient, s, "BYE")
       \/ Heads(toClient, s, "ERR")
    /\ Down(Popped(toClient, s), {})
    /\ UNCHANGED <<role, stopped, dynamic, sock, relay, faults>>

\* onHelloErr: at capacity.  The state is "queued" also while a retry is pending.
Queued(s) ==
    /\ Heads(toClient, s, "FULL")
    /\ LET c == Popped(toClient, s) IN
       IF retry
         THEN toClient' = c /\ UNCHANGED <<ws, retry, calls, toRelay>>
         ELSE /\ ws' = None
              /\ toClient' = ClosedBy(c, ws) /\ toRelay' = Ended(toRelay, ws)
              /\ waiting' = {} /\ dialled' = {} /\ retry' = ~stopped
    /\ state' = IF stopped THEN IF retry THEN state ELSE "backoff" ELSE "queued"
    /\ UNCHANGED <<role, stopped, dynamic, sock, relay, faults>>

-----------------------------------------------------------------------------
(* Calls *)

\* replayDynamicPorts: the next port of those left, after the answer to the last.
\* Without an open socket they all fail at once.
Replay(left, others) ==
    IF left = {} \/ state' # "up" \/ ~CanSend
      THEN waiting' = others /\ UNCHANGED toRelay
      ELSE \E p \in left, id \in Ids :
             /\ Least(id, {i \in Ids :
                    /\ \A w \in others : w.id # i
                    /\ \A s \in Socks : \A f \in Range(toRelay[s]) \cup Range(toClient'[s]) : f.id # i})
             /\ waiting' = others \cup {[id |-> id, kind |-> "replay", port |-> p,
                                         left |-> left \ {p}]}
             /\ toRelay' = Sent(Request("ADD", id, p))

\* onHelloAck, of any socket: up, and the ports are declared again.
HelloAck(s) ==
    /\ Heads(toClient, s, "ACK")
    /\ toClient' = Popped(toClient, s)
    /\ state' = "up"
    /\ Replay(dynamic, waiting)
    /\ UNCHANGED <<role, ws, retry, stopped, dynamic, dialled, sock, relay, faults>>

Calls(kind, id, port) ==
    /\ state = "up" /\ Least(id, {i \in Ids : FreeId(i)}) /\ id \in CallIds
    /\ IF ws # None /\ (CanSend \/ kind = "DIAL")
         THEN /\ waiting' = waiting \cup {[id |-> id, kind |-> kind, port |-> port, left |-> {}]}
              /\ toRelay' = Sent(Request(kind, id, port))
         ELSE UNCHANGED <<waiting, toRelay>>
    /\ UNCHANGED <<role, state, ws, retry, stopped, dynamic, dialled, sock, toClient,
                   relay, faults>>

\* addPort: an allowed port is a success without a question.
AddPort(id, p) == role # "dialer" /\ p \notin Static \cup dynamic /\ Calls("ADD", id, p)

\* removePort: so is one that was not added.
RemovePort(id, p) == role # "dialer" /\ p \in dynamic /\ Calls("DEL", id, p)

OpenStream(id) == role = "dialer" /\ Calls("DIAL", id, 0)

\* onPortAck; the caller goes on at once.  A late answer is dropped.
PortAck(s) ==
    /\ Heads(toClient, s, "PORT_ACK")
    /\ toClient' = Popped(toClient, s)
    /\ LET f == Head(toClient[s])
           W == {w \in waiting : w.id = f.id} IN
       /\ dynamic' = IF \E w \in W : w.kind = "ADD" THEN dynamic \cup {f.port}
                     ELSE IF \E w \in W : w.kind = "DEL" THEN dynamic \ {f.port} ELSE dynamic
       /\ state' = state
       /\ Replay(UNION {w.left : w \in W}, waiting \ W)
    /\ UNCHANGED <<role, ws, retry, stopped, dialled, sock, relay, faults>>

\* onDialAck; openStream closes a stream that was refused.
DialAck(s) ==
    /\ Heads(toClient, s, "DIAL_ACK")
    /\ toClient' = Popped(toClient, s)
    /\ LET f == Head(toClient[s])
           known == \E w \in waiting : w.id = f.id IN
       /\ waiting' = {w \in waiting : w.id # f.id}
       /\ dialled' = IF known /\ f.ok THEN dialled \cup {f.id} ELSE dialled
       /\ toRelay' = IF known /\ ~f.ok THEN Sent(Request("CLOSE", f.id, 0)) ELSE toRelay
    /\ UNCHANGED <<role, state, ws, retry, stopped, dynamic, sock, relay, faults>>

\* openStream: a dial that timed out is closed.
TimeoutCloses(w) == toRelay' = Sent(Request("CLOSE", w.id, 0))

\* The timer of a call.
CallTimeout(w) ==
    /\ w \in waiting
    /\ UNCHANGED <<state, toClient>>
    /\ IF w.kind = "DIAL"
         THEN TimeoutCloses(w) /\ waiting' = waiting \ {w}
         ELSE role = "late" /\ Replay(w.left, waiting \ {w})
    /\ UNCHANGED <<role, ws, retry, stopped, dynamic, dialled, sock, relay, faults>>

\* The caller is done with a stream, or the relay closed it.
CloseDial(id) ==
    /\ id \in dialled
    /\ dialled' = dialled \ {id}
    /\ toRelay' = Sent(Request("CLOSE", id, 0))
    /\ UNCHANGED <<role, state, ws, retry, stopped, dynamic, waiting, sock, toClient,
                   relay, faults>>

StreamClosed(s) ==
    /\ Heads(toClient, s, "CLOSE")
    /\ toClient' = Popped(toClient, s)
    /\ dialled' = dialled \ {Head(toClient[s]).id}
    /\ UNCHANGED <<role, state, ws, retry, stopped, dynamic, waiting, sock, toRelay,
                   relay, faults>>

-----------------------------------------------------------------------------
(* The relay *)

\* A connection ends on the relay's side, after the frames f.
RelayEnds(s, f) ==
    /\ greet' = greet \ {s}
    /\ toRelay' = [toRelay EXCEPT ![s] = <<>>]
    /\ toClient' = IF sock[s] = "open" /\ ~Closing(s)
                     THEN [toClient EXCEPT ![s] = @ \o f \o <<FIN>>] ELSE toClient
    /\ IF reg = s THEN reg' = None /\ served' = {} /\ routes' = {}
       ELSE UNCHANGED <<reg, served, routes>>
    /\ UNCHANGED <<role, state, ws, retry, stopped, dynamic, calls, sock>>

\* handleHello: the session of this host moves to the new connection.
Register(s) ==
    /\ s \in greet /\ Heads(toRelay, s, "HELLO")
    /\ greet' = greet \ {s} /\ reg' = s
    /\ served' = IF role = "dialer" THEN {} ELSE Static
    /\ routes' = {}
    /\ toRelay' = [t \in Socks |-> IF t = s THEN Tail(toRelay[s])
                                   ELSE IF t = reg THEN <<>> ELSE toRelay[t]]
    /\ toClient' = [t \in Socks |->
                       IF t = s /\ ~Closing(s) THEN Append(toClient[s], Frame("ACK"))
                       ELSE IF t = reg /\ sock[t] = "open" /\ ~Closing(t)
                         THEN Append(toClient[t], FIN) ELSE toClient[t]]
    /\ UNCHANGED <<role, state, ws, retry, stopped, dynamic, calls, sock, faults>>

\* handleHello: refused, for capacity or for good.
Refuse(s, type) ==
    /\ s \in greet /\ Heads(toRelay, s, "HELLO")
    /\ Fault
    /\ RelayEnds(s, <<Frame(type)>>)

\* BYE, the end, a second HELLO.
RelayCloses(s) ==
    /\ \/ Heads(toRelay, s, "BYE")
       \/ Heads(toRelay, s, "FIN")
       \/ Heads(toRelay, s, "HELLO") /\ s \notin greet
    /\ RelayEnds(s, <<>>)
    /\ UNCHANGED faults

\* The deadline for HELLO; the idle timeout of a session that hears nothing.
RelayTimeout(s) ==
    /\ toRelay[s] = <<>>
    /\ s \in greet \/ (reg = s /\ (s # ws \/ sock[s] # "open"))
    /\ RelayEnds(s, <<>>)
    /\ UNCHANGED faults

Answer(s, type, f, ok) ==
    /\ toRelay' = Popped(toRelay, s)
    /\ toClient' = IF sock[s] = "open" /\ ~Closing(s) THEN With(toClient, s, Reply(type, f, ok))
                   ELSE toClient
    /\ UNCHANGED <<role, state, ws, retry, stopped, dynamic, calls, sock, greet, reg, faults>>

\* onPortChange: adding a declared port and removing an unknown one succeed.
PortAdd(s) ==
    /\ Heads(toRelay, s, "ADD") /\ reg = s
    /\ served' = served \cup {Head(toRelay[s]).port}
    /\ Answer(s, "PORT_ACK", Head(toRelay[s]), TRUE)
    /\ UNCHANGED routes

PortDel(s) ==
    /\ Heads(toRelay, s, "DEL") /\ reg = s
    /\ served' = served \ {Head(toRelay[s]).port}
    /\ Answer(s, "PORT_ACK", Head(toRelay[s]), TRUE)
    /\ UNCHANGED routes

\* onDial, until the target has answered.
OnDial(s, ok) ==
    /\ Heads(toRelay, s, "DIAL") /\ reg = s
    /\ routes' = IF ok THEN routes \cup {Head(toRelay[s]).id} ELSE routes
    /\ Answer(s, "DIAL_ACK", Head(toRelay[s]), ok)
    /\ UNCHANGED served

OnClose(s) ==
    /\ Heads(toRelay, s, "CLOSE") /\ reg = s
    /\ routes' = routes \ {Head(toRelay[s]).id}
    /\ toRelay' = Popped(toRelay, s)
    /\ UNCHANGED <<role, state, ws, retry, stopped, dynamic, calls, sock, toClient, greet,
                   reg, served, faults>>

\* The target of a stream ended.
TargetEnds(id) ==
    /\ id \in routes
    /\ routes' = routes \ {id}
    /\ toClient' = IF sock[reg] = "open" /\ ~Closing(reg)
                     THEN With(toClient, reg, Request("CLOSE", id, 0)) ELSE toClient
    /\ UNCHANGED <<role, state, ws, retry, stopped, dynamic, calls, sock, toRelay, greet,
                   reg, served, faults>>

-----------------------------------------------------------------------------
(* Faults *)

DialFails(s) ==
    /\ sock[s] = "dialing" /\ toClient[s] = <<>>
    /\ Fault
    /\ toClient' = ClosedBy(toClient, s)
    /\ UNCHANGED <<role, state, ws, retry, stopped, dynamic, calls, sock, toRelay, relay>>

\* The connection breaks for both ends, or the relay says BYE and restarts.
Broken(s, f) ==
    /\ sock[s] = "open" /\ ~Closing(s)
    /\ s \in greet \/ reg = s
    /\ Fault
    /\ RelayEnds(s, f)

\* The path swallows everything from now on.
HalfOpen(s) ==
    /\ sock[s] = "open"
    /\ Fault
    /\ sock' = [sock EXCEPT ![s] = "dead"]
    /\ toRelay' = [toRelay EXCEPT ![s] = <<>>]
    /\ toClient' = [toClient EXCEPT ![s] = SelectSeq(@, LAMBDA f : f = FIN)]
    /\ UNCHANGED <<role, state, ws, retry, stopped, dynamic, calls, relay>>

\* The operating system gives a dead connection up.
SystemGivesUp(s) ==
    /\ sock[s] = "dead" /\ toClient[s] = <<>>
    /\ toClient' = ClosedBy(toClient, s)
    /\ UNCHANGED <<role, state, ws, retry, stopped, dynamic, calls, sock, toRelay, relay,
                   faults>>

-----------------------------------------------------------------------------
Receive(s) ==
    \/ CloseEvent(s)
    \/ Refused(s)
    \/ Queued(s)
    \/ HelloAck(s)
    \/ PortAck(s)
    \/ DialAck(s)
    \/ StreamClosed(s)

RelayReads(s) ==
    \/ Register(s)
    \/ RelayCloses(s)
    \/ PortAdd(s)
    \/ PortDel(s)
    \/ \E ok \in BOOLEAN : OnDial(s, ok)
    \/ OnClose(s)

Retries == \E s \in Socks : RetryFires(s)

Next ==
    \/ \E s \in Socks : Start(s) \/ NetChange(s) \/ Open(s) \/ Receive(s) \/ RelayReads(s)
    \/ Retries \/ Stop \/ HealthWatch
    \/ \E id \in Ids : \E p \in PortsOf[role] : AddPort(id, p) \/ RemovePort(id, p)
    \/ \E id \in Ids : OpenStream(id) \/ CloseDial(id) \/ TargetEnds(id)
    \/ \E w \in waiting : CallTimeout(w)
    \/ \E s \in Socks : RelayTimeout(s) \/ SystemGivesUp(s)
    \/ \E s \in Socks : Refuse(s, "FULL") \/ Refuse(s, "ERR") \/ DialFails(s) \/ HalfOpen(s)
    \/ \E s \in Socks : Broken(s, <<>>) \/ Broken(s, <<Frame("BYE")>>)

Spec == Init /\ [][Next]_vars

\* Timers fire, sockets connect, what was sent arrives; nobody has to start,
\* stop or call anything, and no fault has to happen.
FairSpec ==
    /\ Spec
    /\ WF_vars(Retries) /\ WF_vars(HealthWatch)
    /\ \A s \in Socks : /\ WF_vars(Open(s)) /\ WF_vars(Receive(s)) /\ WF_vars(RelayReads(s))
                        /\ WF_vars(RelayTimeout(s)) /\ WF_vars(SystemGivesUp(s))

-----------------------------------------------------------------------------
(* Properties *)

Registered == state = "up" /\ ws # None /\ reg = ws

\* The client and its session with nothing on the way, also from older sockets.
Settled ==
    /\ Registered /\ sock[ws] = "open" /\ waiting = {}
    /\ \A s \in Socks : toRelay[s] = <<>> /\ toClient[s] = <<>>

\* What addPort promised holds after every loss of the connection, in whatever
\* order the events of old and new sockets came: the relay listens on the port.
PortsServed == Settled /\ role = "worker" => dynamic \subseteq served

\* A stream the dialer has is a route on the relay and the reverse; a dial that
\* timed out while its answer was on the way leaves nothing behind.
StreamsRouted == Settled /\ role = "dialer" => routes = dialled

\* Whatever the network did, a client that is not stopped registers again, also
\* when the events of sockets it gave up tear down their successors.
Recovers == []<>(Registered \/ stopped)

\* A socket that was given up ends, even one that never said HELLO: neither side
\* keeps connections that the client has no variable for.
NoSocketLeft == \A s \in Socks : []<>(sock[s] = "free" \/ ws = s)
=============================================================================
