----------------------------- MODULE RelayPorts -----------------------------
(***************************************************************************)
(* The relay server's tables (src/src/net/relay/server.ts): the WebSocket   *)
(* connections of the nodes, the sessions they register with HELLO, the     *)
(* endpoints of the ports a session declares, the streams opened through    *)
(* them and the counters that limit those.                                  *)
(*                                                                         *)
(* A host stands for its logical name <network>/<hostId>.  A stream is what *)
(* the tables know of it: the session it leads to, the port, and the        *)
(* session of the dialer or None for a local connection of the Manager; its *)
(* bytes are the subject of RelayStream.  A handler runs to its end without *)
(* interruption, so each is one action.  The counters of /status, the       *)
(* credentials in HELLO and the local port numbers are left out.            *)
(***************************************************************************)
EXTENDS Naturals, FiniteSets

CONSTANTS
    Hosts,              \* nodes that have a key
    Dialers,            \* those on the dialer list: they may dial, not declare
    Ports,              \* the instance ports [base, base + span)
    Conns,              \* bound: WebSocket connections at a time
    None,               \* undefined
    Absent,             \* no entry in the endpoint table
    MaxHosts,           \* RELAY_MAX_HOSTS, 0: no limit
    UtilMaxPct,         \* RELAY_UTIL_MAX_PCT, 0: no limit
    MaxStreamsPerPort,
    StreamIds           \* bound: streams open at a time

ASSUME NamesAssumption ==
    /\ Dialers \subseteq Hosts
    /\ None \notin Conns /\ Absent \notin Conns /\ None # Absent
ASSUME HostsFinite == IsFiniteSet(Hosts)
ASSUME LimitsAssumption == {MaxHosts, UtilMaxPct, MaxStreamsPerPort} \subseteq Nat

VARIABLES
    server,     \* running; draining and closing are the two halves of stop()
    conn,       \* [state, host, ports] of each connection and of its session
    sessions,   \* RelayServer.sessions: the registered connection of a host
    endpoints,  \* RelayServer.endpoints: the session of an entry, or Absent
    streams,    \* the streams that are not closed
    live        \* Session.portStreams: the streams each port is said to have

vars == <<server, conn, sessions, endpoints, streams, live>>

\* isClosed holds in "closing".
States == {"idle", "greeting", "session", "closing"}
NoConn == [state |-> "idle", host |-> None, ports |-> {}]

TypeOK ==
    /\ server \in {"running", "draining", "closing", "stopped"}
    /\ conn \in [Conns -> [state : States, host : Hosts \cup {None}, ports : SUBSET Ports]]
    /\ sessions \in [Hosts -> Conns \cup {None}]
    /\ endpoints \in [Hosts -> [Ports -> Conns \cup {None, Absent}]]
    /\ streams \subseteq [id : StreamIds, sess : Conns, port : Ports,
                          dialer : Conns \cup {None}]
    /\ live \in [Conns -> [Ports -> Nat]]

Init ==
    /\ server = "running"
    /\ conn = [c \in Conns |-> NoConn]
    /\ sessions = [h \in Hosts |-> None]
    /\ endpoints = [h \in Hosts |-> [p \in Ports |-> Absent]]
    /\ streams = {}
    /\ live = [c \in Conns |-> [p \in Ports |-> 0]]

-----------------------------------------------------------------------------
(* dropSession of the sessions on the connections D *)

Registered == {h \in Hosts : sessions[h] # None}

Minus(a, b) == IF a > b THEN a - b ELSE 0

Kept(D) == sessions             \* mutant: the table keeps the session
StillRegistered(D) == [h \in Hosts |-> IF sessions[h] \in D THEN None ELSE sessions[h]]

Unbound(D) == [h \in Hosts |-> [p \in Ports |->
                  IF endpoints[h][p] \in D THEN None ELSE endpoints[h][p]]]

\* Its streams are gone, and those it dialled are closed at their workers.
Without(D) == {s \in streams : s.sess \notin D /\ s.dialer \notin D}

DialledBy(D, c, p) == {s \in streams : s.dialer \in D /\ s.sess = c /\ s.port = p}

Counts(D) ==
    [c \in Conns |-> [p \in Ports |->
        IF c \in D THEN 0 ELSE Minus(live[c][p], Cardinality(DialledBy(D, c, p)))]]

Closing(D) == [c \in Conns |-> IF c \in D /\ conn[c].state = "session"
                                 THEN [conn[c] EXCEPT !.state = "closing"] ELSE conn[c]]

DropSessions(D) ==
    /\ sessions' = StillRegistered(D)
    /\ endpoints' = Unbound(D)
    /\ streams' = Without(D)
    /\ live' = Counts(D)

-----------------------------------------------------------------------------
(* Connections and HELLO *)

Connect(c) ==
    /\ server \in {"running", "draining"}
    /\ conn[c].state = "idle"
    /\ conn' = [conn EXCEPT ![c].state = "greeting"]
    /\ UNCHANGED <<server, sessions, endpoints, streams, live>>

\* A malformed or unauthenticated HELLO, any other first frame, or a HELLO
\* while the server drains.
Deny(c) ==
    /\ conn[c].state = "greeting"
    /\ conn' = [conn EXCEPT ![c].state = "closing"]
    /\ UNCHANGED <<server, sessions, endpoints, streams, live>>

\* mutant: an unauthenticated connection waits for its HELLO for ever
NoDeadline(c) == UNCHANGED vars
\* authDeadlineMs
AuthTimeout(c) == Deny(c)

\* The ports a node may declare: a dialer none, any other at least one.
Declarable(h) == IF h \in Dialers THEN {{}} ELSE SUBSET Ports \ {{}}

UtilPct(n) == (n * 100) \div MaxHosts

\* mutant: the gate compares with > instead of >=
AdmitsOneMore(n) ==
    MaxHosts > 0 => n <= MaxHosts /\ (UtilMaxPct > 0 => UtilPct(n) <= UtilMaxPct)
\* at-capacity and at-util-limit, for a newcomer that finds n sessions.
Admits(n) ==
    MaxHosts > 0 => n < MaxHosts /\ (UtilMaxPct > 0 => UtilPct(n) < UtilMaxPct)

\* mutant: a host's own seat counts against it
UsedWith(h) == Cardinality(Registered)
\* The gates count after the host's old session was dropped.
Used(h) == Cardinality(Registered \ {h})

Old(h) == {sessions[h]} \ {None}

Register(c, h, P) ==
    /\ server = "running" /\ conn[c].state = "greeting"
    /\ Admits(Used(h))
    /\ conn' = [Closing(Old(h)) EXCEPT ![c] = [state |-> "session", host |-> h, ports |-> P]]
    /\ sessions' = [sessions EXCEPT ![h] = c]
    /\ endpoints' = [Unbound(Old(h)) EXCEPT ![h] =
                        [p \in Ports |-> IF p \in P THEN c ELSE @[p]]]
    /\ streams' = Without(Old(h))
    /\ live' = Counts(Old(h))
    /\ UNCHANGED server

Refuse(c, h) ==
    /\ server = "running" /\ conn[c].state = "greeting"
    /\ ~Admits(Used(h))
    /\ conn' = [Closing(Old(h)) EXCEPT ![c].state = "closing"]
    /\ DropSessions(Old(h))
    /\ UNCHANGED server

\* The heartbeat's idle timeout, or a BYE.
Drop(c) ==
    /\ conn[c].state = "session"
    /\ conn' = Closing({c})
    /\ DropSessions({c})
    /\ UNCHANGED server

\* A frame that is not a mux frame, or of an unknown type: the connection is
\* closed and the session stays until the close event.
ProtocolError(c) ==
    /\ conn[c].state = "session"
    /\ conn' = Closing({c})
    /\ UNCHANGED <<server, sessions, endpoints, streams, live>>

\* The peer closes or vanishes, or the close handshake is over.
CloseEvent(c) ==
    /\ conn[c].state # "idle"
    /\ conn' = [conn EXCEPT ![c] = NoConn]
    /\ DropSessions({c})
    /\ UNCHANGED server

-----------------------------------------------------------------------------
(* PORT_ADD and PORT_DEL *)

PortAdd(c, p) ==
    /\ conn[c].state = "session"
    /\ p \notin conn[c].ports \/ endpoints[conn[c].host][p] = Absent
    /\ conn' = [conn EXCEPT ![c].ports = @ \cup {p}]
    /\ endpoints' = [endpoints EXCEPT ![conn[c].host][p] = c]
    /\ UNCHANGED <<server, sessions, streams, live>>

\* closeEndpoint forgets the counter of the port; its streams go on.
PortDel(c, p) ==
    LET h == conn[c].host IN
    /\ conn[c].state = "session"
    /\ conn' = [conn EXCEPT ![c].ports = @ \ {p}]
    /\ endpoints' = [endpoints EXCEPT ![h][p] = Absent]
    /\ live' = IF endpoints[h][p] \in Conns
               THEN [live EXCEPT ![endpoints[h][p]][p] = 0] ELSE live
    /\ UNCHANGED <<server, sessions, streams>>

-----------------------------------------------------------------------------
(* Streams *)

Ids == {s.id : s \in streams}
FreeId(i) == i \notin Ids /\ \A j \in StreamIds \ Ids : i <= j

Open(i, c, p, dialer) ==
    /\ FreeId(i)
    /\ streams' = streams \cup {[id |-> i, sess |-> c, port |-> p, dialer |-> dialer]}
    /\ live' = [live EXCEPT ![c][p] = @ + 1]
    /\ UNCHANGED <<server, conn, sessions, endpoints>>

\* onManagerConn: a local connection to the port's listener.
Accept(h, p, i) ==
    LET c == endpoints[h][p] IN
    /\ c \in Conns /\ conn[c].state = "session"
    /\ live[c][p] < MaxStreamsPerPort
    /\ Open(i, c, p, None)

\* onDial
Dial(d, h, p, i) ==
    LET c == sessions[h] IN
    /\ server = "running" /\ conn[d].state = "session" /\ conn[d].host \in Dialers
    /\ c # None /\ conn[c].state = "session" /\ p \in conn[c].ports
    /\ live[c][p] < MaxStreamsPerPort
    /\ Open(i, c, p, d)

\* mutant: the count stays
KeptCount(s) == live
Released(s) == [live EXCEPT ![s.sess][s.port] = Minus(@, 1)]

\* closeStream or forgetStream: refused, ended by either side, overflowed.
CloseStream(s) ==
    /\ s \in streams
    /\ streams' = streams \ {s}
    /\ live' = Released(s)
    /\ UNCHANGED <<server, conn, sessions, endpoints>>

-----------------------------------------------------------------------------
(* stop() and start() *)

Stop ==
    /\ server = "running" /\ server' = "draining"
    /\ conn' = Closing({sessions[h] : h \in Registered})
    /\ UNCHANGED <<sessions, endpoints, streams, live>>

\* After shutdownGraceMs; the connections are destroyed and http.close() waits
\* for every connection to end.
StopSessions ==
    LET D == {sessions[h] : h \in Registered} IN
    /\ server = "draining" /\ server' = "closing"
    /\ sessions' = StillRegistered(D)
    /\ endpoints' = [h \in Hosts |-> [p \in Ports |-> Absent]]
    /\ streams' = Without(D)
    /\ live' = Counts(D)
    /\ UNCHANGED conn

Stopped ==
    /\ server = "closing" /\ server' = "stopped"
    /\ \A c \in Conns : conn[c].state = "idle"
    /\ UNCHANGED <<conn, sessions, endpoints, streams, live>>

StartAgain ==
    /\ server = "stopped" /\ server' = "running"
    /\ UNCHANGED <<conn, sessions, endpoints, streams, live>>

\* sweep(), every five seconds.
Sweep ==
    /\ server = "running"
    /\ endpoints' = [h \in Hosts |-> [p \in Ports |->
                       IF endpoints[h][p] \in Conns /\ sessions[h] # endpoints[h][p]
                         THEN None ELSE endpoints[h][p]]]
    /\ UNCHANGED <<server, conn, sessions, streams, live>>

-----------------------------------------------------------------------------
Hello(c) == \E h \in Hosts : Refuse(c, h) \/ \E P \in Declarable(h) : Register(c, h, P)

Ends(c) == conn[c].state = "closing" /\ CloseEvent(c)

Frame(c) ==
    \/ Hello(c)
    \/ Drop(c)
    \/ ProtocolError(c)
    \/ \E p \in Ports : PortAdd(c, p) \/ PortDel(c, p)
    \/ \E h \in Hosts, p \in Ports, i \in StreamIds : Dial(c, h, p, i)

Next ==
    \/ \E c \in Conns : Connect(c) \/ Deny(c) \/ AuthTimeout(c) \/ Frame(c) \/ CloseEvent(c)
    \/ \E h \in Hosts, p \in Ports, i \in StreamIds : Accept(h, p, i)
    \/ \E s \in streams : CloseStream(s)
    \/ Sweep
    \/ Stop
    \/ StopSessions
    \/ Stopped
    \/ StartAgain

Spec == Init /\ [][Next]_vars

\* Timers fire and a connection that was closed ends; nothing else must happen.
FairSpec ==
    /\ Spec
    /\ \A c \in Conns : WF_vars(AuthTimeout(c)) /\ WF_vars(Ends(c))
    /\ WF_vars(StopSessions) /\ WF_vars(Stopped)

-----------------------------------------------------------------------------
(* Properties *)

\* The endpoint table says exactly what the registered sessions declare: no
\* endpoint leads to a session that was superseded, dropped or lost its
\* connection, and no declared port is unreachable.  (So sweep() never finds
\* anything to repair.)
EndpointsMatch ==
    \A h \in Hosts, p \in Ports :
        LET c == sessions[h] IN
        IF c # None /\ p \in conn[c].ports THEN endpoints[h][p] = c
                                           ELSE endpoints[h][p] \in {None, Absent}

\* The session of a registered connection names its host, and no connection
\* that has ended is registered.
SessionsMatch ==
    \A h \in Hosts : sessions[h] # None =>
        conn[sessions[h]].host = h /\ conn[sessions[h]].state \in {"session", "closing"}

\* No open stream outlives its worker's session or its dialer's.
StreamsHaveSessions ==
    \A s \in streams : \A c \in {s.sess, s.dialer} \ {None} :
        conn[c].host \in Hosts /\ sessions[conn[c].host] = c

\* A port's counter never exceeds its open streams, so streams that ended
\* never use up the limit of a port.
OpenOn(c, p) == {s \in streams : s.sess = c /\ s.port = p}
CounterSound ==
    \A c \in Conns, p \in Ports :
        live[c][p] <= Cardinality(OpenOn(c, p)) /\ live[c][p] <= MaxStreamsPerPort

\* All the tables of the relay agree, whatever handlers run in between.
TablesMatch == TypeOK /\ SessionsMatch /\ EndpointsMatch /\ StreamsHaveSessions /\ CounterSound

\* The sessions stay within the capacity, and the last to take a seat found the
\* utilisation below its limit, whoever registered again since.
SeatsWithinLimits ==
    LET n == Cardinality(Registered) IN
    MaxHosts > 0 /\ n > 0 =>
        n <= MaxHosts /\ (UtilMaxPct > 0 => (n - 1) * 100 < UtilMaxPct * MaxHosts)

\* A host that is registered keeps its seat when it registers again ("already
\* registered hosts always come first"), and no newcomer takes it: it only
\* ends with the connection that has it, or with the server.
KeepsSeat ==
    [][\A h \in Hosts :
           sessions[h] # None /\ sessions'[h] = None =>
              \/ server' # server
              \/ \A c \in Conns \ {sessions[h]} : conn'[c] = conn[c]]_vars

\* stop() ends, although it waits for connections that never said HELLO.
StopEnds == []<>(server \in {"running", "stopped"})
=============================================================================
