-------------------------- MODULE RelayPorts_proofs --------------------------
(***************************************************************************)
(* Proofs about RelayPorts, for any number of hosts, ports, connections and *)
(* streams and any limits: the tables agree with one another in every       *)
(* reachable state, and a host that is registered keeps its seat.           *)
(***************************************************************************)
EXTENDS RelayPorts, FiniteSetTheorems, TLAPS

\* An authenticated connection is the one its host is registered on.
SessionRegistered ==
    \A c \in Conns : conn[c].state = "session" =>
        conn[c].host \in Hosts /\ sessions[conn[c].host] = c

\* Once stop() has begun no connection is served any more.
Draining == server # "running" => \A c \in Conns : conn[c].state # "session"

\* Every session but the last was let in below the limits.
Seated == \A n \in Nat : n < Cardinality(Registered) => Admits(n)

Tables == SessionsMatch /\ EndpointsMatch /\ StreamsHaveSessions /\ SessionRegistered

IInv == TypeOK /\ IsFiniteSet(streams) /\ Tables /\ Draining /\ Seated /\ CounterSound

Conn == [state : States, host : Hosts \cup {None}, ports : SUBSET Ports]

-----------------------------------------------------------------------------
(* What the helpers return *)

\* The hosts are finite, so are the registered ones.
LEMMA RegisteredFinite == IsFiniteSet(Registered) /\ Cardinality(Registered) \in Nat
  BY HostsFinite, FS_Subset, FS_CardinalityType DEF Registered

\* Decrementing a counter keeps it natural: left = (n ?? 1) - 1.
LEMMA MinusType == \A a, b \in Nat : Minus(a, b) \in Nat
  BY DEF Minus

\* dropSession leaves the counters natural numbers.
LEMMA CountsType ==
    ASSUME NEW D, live \in [Conns -> [Ports -> Nat]], IsFiniteSet(streams)
    PROVE  Counts(D) \in [Conns -> [Ports -> Nat]]
  <1> SUFFICES ASSUME NEW c \in Conns, NEW p \in Ports
               PROVE  Minus(live[c][p], Cardinality(DialledBy(D, c, p))) \in Nat
    BY DEF Counts
  <1>1. DialledBy(D, c, p) \in SUBSET streams
    BY DEF DialledBy
  <1>2. Cardinality(DialledBy(D, c, p)) \in Nat
    BY <1>1, FS_Subset, FS_CardinalityType
  <1>3. QED
    BY <1>2, MinusType

\* Closing the connections of dropped sessions keeps their type.
LEMMA ClosingType ==
    ASSUME NEW D, conn \in [Conns -> Conn]
    PROVE  Closing(D) \in [Conns -> Conn]
  BY DEF Closing, Conn, States

\* The tables after dropSession have their types.
LEMMA DropType ==
    ASSUME NEW D, TypeOK, IsFiniteSet(streams), DropSessions(D)
    PROVE  /\ sessions' \in [Hosts -> Conns \cup {None}]
           /\ endpoints' \in [Hosts -> [Ports -> Conns \cup {None, Absent}]]
           /\ streams' \in SUBSET streams /\ IsFiniteSet(streams')
           /\ live' \in [Conns -> [Ports -> Nat]]
  <1>1. live' \in [Conns -> [Ports -> Nat]]
    BY CountsType DEF TypeOK, DropSessions
  <1>2. streams' \in SUBSET streams
    BY DEF DropSessions, Without
  <1>3. IsFiniteSet(streams')
    BY <1>2, FS_Subset
  <1>4. QED
    BY <1>1, <1>2, <1>3 DEF TypeOK, DropSessions, StillRegistered, Unbound

-----------------------------------------------------------------------------
(* dropSession keeps the tables in agreement *)

\* What a handler that drops the sessions D may do to the connections: those
\* of other sessions at most close, and no connection becomes authenticated.
Others(D) ==
    \A x \in Conns :
        /\ x \notin D /\ conn[x].state \in {"session", "closing"} =>
              /\ conn'[x].host = conn[x].host
              /\ conn'[x].ports = conn[x].ports
              /\ conn'[x].state \in {"session", "closing"}
        /\ conn'[x].state = "session" =>
              /\ x \notin D
              /\ conn[x].state = "session"
              /\ conn'[x].host = conn[x].host

\* After dropSession of any sessions the tables still agree.
LEMMA DropKeepsTables ==
    ASSUME TypeOK, Tables, NEW D \in SUBSET Conns, DropSessions(D), Others(D)
    PROVE  Tables'
  <1> USE NamesAssumption
  <1>1. \A h \in Hosts : sessions'[h] = IF sessions[h] \in D THEN None ELSE sessions[h]
    BY DEF DropSessions, StillRegistered
  <1>2. SessionsMatch'
    <2> SUFFICES ASSUME NEW h \in Hosts, sessions'[h] # None
                 PROVE  conn'[sessions'[h]].host = h
                        /\ conn'[sessions'[h]].state \in {"session", "closing"}
      BY DEF SessionsMatch
    <2>1. sessions[h] \in Conns \ D /\ sessions'[h] = sessions[h]
      BY <1>1 DEF TypeOK
    <2>2. QED
      BY <2>1 DEF Tables, SessionsMatch, Others
  <1>3. EndpointsMatch'
    <2> SUFFICES ASSUME NEW h \in Hosts, NEW p \in Ports
                 PROVE  LET c == sessions'[h] IN
                        IF c # None /\ p \in conn'[c].ports
                          THEN endpoints'[h][p] = c ELSE endpoints'[h][p] \in {None, Absent}
      BY DEF EndpointsMatch
    <2>1. endpoints'[h][p] = IF endpoints[h][p] \in D THEN None ELSE endpoints[h][p]
      BY DEF DropSessions, Unbound
    <2>2. LET c == sessions[h] IN
          IF c # None /\ p \in conn[c].ports
            THEN endpoints[h][p] = c ELSE endpoints[h][p] \in {None, Absent}
      BY DEF Tables, EndpointsMatch
    <2>3. CASE sessions[h] \in D
      BY <1>1, <2>1, <2>2, <2>3
    <2>4. CASE sessions[h] = None
      BY <1>1, <2>1, <2>2, <2>4
    <2>5. CASE sessions[h] \in Conns \ D
      <3>1. conn'[sessions[h]].ports = conn[sessions[h]].ports
        BY <2>5 DEF Tables, SessionsMatch, Others
      <3>2. QED
        BY <1>1, <2>1, <2>2, <2>5, <3>1
    <2>6. QED
      BY <2>3, <2>4, <2>5 DEF TypeOK
  <1>4. StreamsHaveSessions'
    <2> SUFFICES ASSUME NEW s \in streams', NEW c \in {s.sess, s.dialer} \ {None}
                 PROVE  conn'[c].host \in Hosts /\ sessions'[conn'[c].host] = c
      BY DEF StreamsHaveSessions
    <2>1. s \in streams /\ c \notin D
      BY DEF DropSessions, Without
    <2>2. c \in Conns
      BY <2>1 DEF TypeOK
    <2>3. conn[c].host \in Hosts /\ sessions[conn[c].host] = c
      BY <2>1 DEF Tables, StreamsHaveSessions
    <2>4. conn'[c].host = conn[c].host
      BY <2>1, <2>2, <2>3 DEF Tables, SessionsMatch, Others
    <2>5. QED
      BY <1>1, <2>1, <2>3, <2>4
  <1>5. SessionRegistered'
    <2> SUFFICES ASSUME NEW c \in Conns, conn'[c].state = "session"
                 PROVE  conn'[c].host \in Hosts /\ sessions'[conn'[c].host] = c
      BY DEF SessionRegistered
    <2>1. c \notin D /\ conn[c].state = "session" /\ conn'[c].host = conn[c].host
      BY DEF Others
    <2>2. QED
      BY <1>1, <2>1 DEF Tables, SessionRegistered
  <1>6. QED
    BY <1>2, <1>3, <1>4, <1>5 DEF Tables

\* Fewer sessions remain seated.
LEMMA FewerSeated ==
    ASSUME Seated, Registered' \in SUBSET Registered
    PROVE  Seated'
  <1>1. IsFiniteSet(Registered') /\ Cardinality(Registered') <= Cardinality(Registered)
    BY RegisteredFinite, FS_Subset
  <1>2. Cardinality(Registered') \in Nat
    BY <1>1, FS_CardinalityType
  <1>3. QED
    BY <1>1, <1>2, RegisteredFinite DEF Seated, Admits, UtilPct

\* dropSession only frees seats.
LEMMA DropUnseats ==
    ASSUME Seated, NEW D \in SUBSET Conns, DropSessions(D)
    PROVE  Seated'
  <1>1. Registered' \in SUBSET Registered
    BY NamesAssumption DEF Registered, DropSessions, StillRegistered
  <1>2. QED
    BY <1>1, FewerSeated

-----------------------------------------------------------------------------
(* The invariant is inductive: first the types *)

\* A relay starts with empty tables.
LEMMA InitInv == Init => IInv
  <1> SUFFICES ASSUME Init PROVE IInv
    OBVIOUS
  <1> USE NamesAssumption DEF Init, NoConn, States
  <1>1. TypeOK
    BY DEF TypeOK
  <1>2. IsFiniteSet(streams)
    BY FS_EmptySet
  <1>3. Tables
    BY DEF Tables, SessionsMatch, EndpointsMatch, StreamsHaveSessions, SessionRegistered
  <1>4. Seated
    <2>1. Registered = {}
      BY DEF Registered
    <2>2. QED
      BY <2>1, FS_EmptySet DEF Seated
  <1>5. CounterSound
    <2> SUFFICES ASSUME NEW c \in Conns, NEW p \in Ports
                 PROVE  /\ live[c][p] <= Cardinality(OpenOn(c, p))
                        /\ live[c][p] <= MaxStreamsPerPort
      BY DEF CounterSound
    <2>1. OpenOn(c, p) = {} /\ live[c][p] = 0
      BY DEF OpenOn
    <2>2. Cardinality({}) = 0 /\ MaxStreamsPerPort \in Nat
      BY FS_EmptySet, LimitsAssumption
    <2>3. QED
      BY <2>1, <2>2
  <1>6. QED
    BY <1>1, <1>2, <1>3, <1>4, <1>5 DEF IInv, Draining

\* Every step keeps the types and the streams finite in number.
LEMMA TypeStep ==
    ASSUME IInv, [Next]_vars
    PROVE  TypeOK' /\ IsFiniteSet(streams')
  <1> USE DEF IInv
  <1> USE NamesAssumption
  <1>a. conn \in [Conns -> Conn]
    BY DEF TypeOK, Conn
  <1>b. SUFFICES /\ server' \in {"running", "draining", "closing", "stopped"}
                 /\ conn' \in [Conns -> Conn]
                 /\ sessions' \in [Hosts -> Conns \cup {None}]
                 /\ endpoints' \in [Hosts -> [Ports -> Conns \cup {None, Absent}]]
                 /\ streams' \subseteq [id : StreamIds, sess : Conns, port : Ports,
                                        dialer : Conns \cup {None}]
                 /\ IsFiniteSet(streams')
                 /\ live' \in [Conns -> [Ports -> Nat]]
    BY DEF TypeOK, Conn
  <1>1. ASSUME NEW c \in Conns, Connect(c) \/ Deny(c) \/ AuthTimeout(c) PROVE <1>b!1
    <2>1. conn' \in [Conns -> Conn]
      BY <1>a, <1>1 DEF Connect, Deny, AuthTimeout, Conn, States
    <2>2. QED
      BY <1>1, <2>1 DEF Connect, Deny, AuthTimeout, TypeOK
  <1>2. ASSUME NEW c \in Conns, NEW h \in Hosts, NEW P \in Declarable(h), Register(c, h, P)
        PROVE  <1>b!1
    <2>1. P \in SUBSET Ports
      BY DEF Declarable
    <2>2. conn' \in [Conns -> Conn]
      BY <1>a, <1>2, <2>1, ClosingType DEF Register, Conn, States
    <2>3. live' \in [Conns -> [Ports -> Nat]]
      BY <1>2, CountsType DEF Register, TypeOK
    <2>4. streams' \in SUBSET streams
      BY <1>2 DEF Register, Without
    <2>5. IsFiniteSet(streams')
      BY <2>4, FS_Subset
    <2>6. Unbound(Old(h)) \in [Hosts -> [Ports -> Conns \cup {None, Absent}]]
      BY DEF Unbound, TypeOK
    <2>7. endpoints' \in [Hosts -> [Ports -> Conns \cup {None, Absent}]]
      BY <1>2, <2>6 DEF Register
    <2>8. QED
      BY <1>2, <2>2, <2>3, <2>4, <2>5, <2>7 DEF Register, TypeOK
  <1>3. ASSUME NEW c \in Conns, NEW h \in Hosts, Refuse(c, h) PROVE <1>b!1
    <2>1. conn' \in [Conns -> Conn]
      BY <1>a, <1>3, ClosingType DEF Refuse, Conn, States
    <2>2. QED
      BY <1>3, <2>1, DropType DEF Refuse, TypeOK
  <1>4. ASSUME NEW c \in Conns, Drop(c) PROVE <1>b!1
    BY <1>a, <1>4, ClosingType, DropType DEF Drop, TypeOK
  <1>5. ASSUME NEW c \in Conns, ProtocolError(c) PROVE <1>b!1
    BY <1>a, <1>5, ClosingType DEF ProtocolError, TypeOK
  <1>6. ASSUME NEW c \in Conns, CloseEvent(c) PROVE <1>b!1
    <2>1. conn' \in [Conns -> Conn]
      BY <1>a, <1>6 DEF CloseEvent, NoConn, Conn, States
    <2>2. QED
      BY <1>6, <2>1, DropType DEF CloseEvent, TypeOK
  <1>7. ASSUME NEW c \in Conns, NEW p \in Ports, PortAdd(c, p) PROVE <1>b!1
    <2>1. conn' \in [Conns -> Conn]
      BY <1>a, <1>7 DEF PortAdd, Conn
    <2>2. endpoints' \in [Hosts -> [Ports -> Conns \cup {None, Absent}]]
      BY <1>7 DEF PortAdd, TypeOK
    <2>3. QED
      BY <1>7, <2>1, <2>2 DEF PortAdd, TypeOK
  <1>8. ASSUME NEW c \in Conns, NEW p \in Ports, PortDel(c, p) PROVE <1>b!1
    <2>1. conn' \in [Conns -> Conn]
      BY <1>a, <1>8 DEF PortDel, Conn
    <2>2. endpoints' \in [Hosts -> [Ports -> Conns \cup {None, Absent}]]
      BY <1>8 DEF PortDel, TypeOK
    <2>3. live' \in [Conns -> [Ports -> Nat]]
      BY <1>8 DEF PortDel, TypeOK
    <2>4. QED
      BY <1>8, <2>1, <2>2, <2>3 DEF PortDel, TypeOK
  <1>9. ASSUME NEW i \in StreamIds, NEW c \in Conns, NEW p \in Ports,
               NEW d \in Conns \cup {None}, Open(i, c, p, d)
        PROVE  <1>b!1
    <2>1. IsFiniteSet(streams')
      BY <1>9, FS_AddElement DEF Open
    <2>2. live' \in [Conns -> [Ports -> Nat]]
      BY <1>9 DEF Open, TypeOK
    <2>3. QED
      BY <1>a, <1>9, <2>1, <2>2 DEF Open, TypeOK
  <1>10. ASSUME NEW s \in streams, CloseStream(s) PROVE <1>b!1
    <2>1. IsFiniteSet(streams')
      BY <1>10, FS_RemoveElement DEF CloseStream
    <2>2. s.sess \in Conns /\ s.port \in Ports
      BY DEF TypeOK
    <2>3. live' \in [Conns -> [Ports -> Nat]]
      BY <1>10, <2>2, MinusType DEF CloseStream, Released, TypeOK
    <2>4. QED
      BY <1>a, <1>10, <2>1, <2>3 DEF CloseStream, TypeOK
  <1>11. CASE Sweep
    BY <1>a, <1>11 DEF Sweep, TypeOK
  <1>12. CASE Stop
    BY <1>a, <1>12, ClosingType DEF Stop, TypeOK
  <1>13. CASE StopSessions
    <2> DEFINE D == {sessions[h] : h \in Registered}
    <2>1. live' \in [Conns -> [Ports -> Nat]]
      BY <1>13, CountsType DEF StopSessions, TypeOK
    <2>2. streams' \in SUBSET streams
      BY <1>13 DEF StopSessions, Without
    <2>3. IsFiniteSet(streams')
      BY <2>2, FS_Subset
    <2>4. QED
      BY <1>a, <1>13, <2>1, <2>2, <2>3 DEF StopSessions, StillRegistered, TypeOK
  <1>14. CASE Stopped \/ StartAgain \/ UNCHANGED vars
    BY <1>a, <1>14 DEF Stopped, StartAgain, vars, TypeOK
  <1>15. ASSUME NEW h \in Hosts, NEW p \in Ports, NEW i \in StreamIds, Accept(h, p, i)
         PROVE  <1>b!1
    BY <1>9, <1>15 DEF Accept
  <1>16. ASSUME NEW c \in Conns, NEW h \in Hosts, NEW p \in Ports, NEW i \in StreamIds,
                Dial(c, h, p, i)
         PROVE  <1>b!1
    BY <1>9, <1>16 DEF Dial, TypeOK
  <1>17. QED
    BY <1>1, <1>2, <1>3, <1>4, <1>5, <1>6, <1>7, <1>8, <1>10, <1>11, <1>12, <1>13, <1>14,
       <1>15, <1>16 DEF Next, Frame, Hello

-----------------------------------------------------------------------------
(* The tables agree after every step *)

\* A registration: the old session of the host is dropped first.
LEMMA RegisterKeepsTables ==
    ASSUME IInv, NEW c \in Conns, NEW h \in Hosts, NEW P \in SUBSET Ports, Register(c, h, P)
    PROVE  Tables'
  <1> USE NamesAssumption DEF IInv
  <1> DEFINE D == Old(h)
  <1>1. D \in SUBSET Conns /\ c \notin D
    BY DEF Old, TypeOK, Tables, SessionsMatch, Register
  <1>2. \A k \in Hosts : sessions[k] # c /\ (k # h => sessions[k] \notin D)
    BY DEF Old, Tables, SessionsMatch, Register
  <1>3. /\ conn'[c].state = "session" /\ conn'[c].host = h /\ conn'[c].ports = P
        /\ \A x \in Conns \ {c} : /\ conn'[x].host = conn[x].host
                                  /\ conn'[x].ports = conn[x].ports
                                  /\ conn'[x].state = conn[x].state
                                     \/ (conn[x].state = "session" /\ conn'[x].state = "closing")
                                  /\ x \in D => conn'[x].state # "session"
    <2>1. conn' = [Closing(D) EXCEPT ![c] = [state |-> "session", host |-> h, ports |-> P]]
      BY DEF Register
    <2>2. conn'[c] = [state |-> "session", host |-> h, ports |-> P]
      BY <2>1 DEF Closing
    <2>3. \A x \in Conns \ {c} :
              conn'[x] = IF x \in D /\ conn[x].state = "session"
                           THEN [conn[x] EXCEPT !.state = "closing"] ELSE conn[x]
      BY <2>1 DEF Closing
    <2>4. \A x \in Conns : conn[x] \in Conn
      BY DEF TypeOK, Conn
    <2>6. ASSUME NEW x \in Conns \ {c}
          PROVE  /\ conn'[x].host = conn[x].host
                 /\ conn'[x].ports = conn[x].ports
                 /\ conn'[x].state = conn[x].state
                    \/ (conn[x].state = "session" /\ conn'[x].state = "closing")
                 /\ x \in D => conn'[x].state # "session"
      <3>1. CASE x \in D /\ conn[x].state = "session"
        <4>1. conn'[x] = [conn[x] EXCEPT !.state = "closing"]
          BY <2>3, <3>1
        <4>2. conn[x] \in Conn
          BY <2>4
        <4>3. QED
          BY <3>1, <4>1, <4>2 DEF Conn
      <3>2. CASE ~(x \in D /\ conn[x].state = "session")
        BY <2>3, <3>2
      <3>3. QED
        BY <3>1, <3>2
    <2>7. QED
      BY <2>2, <2>6
  <1>4. sessions'[h] = c /\ \A k \in Hosts \ {h} : sessions'[k] = sessions[k]
    BY DEF Register, TypeOK
  <1>5. SessionsMatch'
    BY <1>2, <1>3, <1>4 DEF Tables, SessionsMatch, TypeOK
  <1>6. EndpointsMatch'
    <2> SUFFICES ASSUME NEW k \in Hosts, NEW p \in Ports
                 PROVE  LET x == sessions'[k] IN
                        IF x # None /\ p \in conn'[x].ports
                          THEN endpoints'[k][p] = x ELSE endpoints'[k][p] \in {None, Absent}
      BY DEF EndpointsMatch
    <2>1. LET x == sessions[k] IN
          IF x # None /\ p \in conn[x].ports
            THEN endpoints[k][p] = x ELSE endpoints[k][p] \in {None, Absent}
      BY DEF Tables, EndpointsMatch
    <2>2. Unbound(D)[k][p] = IF endpoints[k][p] \in D THEN None ELSE endpoints[k][p]
      BY DEF Unbound
    <2>3. CASE k = h
      <3>1. endpoints'[k][p] = IF p \in P THEN c ELSE Unbound(D)[k][p]
        BY <2>3 DEF Register, Unbound
      <3>2. Unbound(D)[k][p] \in {None, Absent}
        BY <2>1, <2>2, <2>3 DEF Old
      <3>3. QED
        BY <1>3, <1>4, <2>3, <3>1, <3>2
    <2>4. CASE k # h
      <3>1. endpoints'[k][p] = Unbound(D)[k][p]
        BY <2>4 DEF Register, Unbound
      <3>2. endpoints'[k][p] = endpoints[k][p]
        BY <1>1, <1>2, <2>1, <2>2, <2>4, <3>1
      <3>3. QED
        BY <1>2, <1>3, <1>4, <2>1, <2>4, <3>2 DEF TypeOK
    <2>5. QED
      BY <2>3, <2>4
  <1>7. StreamsHaveSessions'
    <2> SUFFICES ASSUME NEW s \in streams', NEW x \in {s.sess, s.dialer} \ {None}
                 PROVE  conn'[x].host \in Hosts /\ sessions'[conn'[x].host] = x
      BY DEF StreamsHaveSessions
    <2>1. s \in streams /\ x \notin D
      BY DEF Register, Without
    <2>2. x \in Conns /\ conn[x].host \in Hosts /\ sessions[conn[x].host] = x
      BY <2>1 DEF TypeOK, Tables, StreamsHaveSessions
    <2>3. conn[x].host # h
      BY <2>1, <2>2 DEF Old
    <2>4. QED
      BY <1>2, <1>3, <1>4, <2>2, <2>3
  <1>8. SessionRegistered'
    <2> SUFFICES ASSUME NEW x \in Conns \ {c}, conn'[x].state = "session"
                 PROVE  conn'[x].host \in Hosts /\ sessions'[conn'[x].host] = x
      BY <1>3, <1>4 DEF SessionRegistered
    <2>1. conn[x].state = "session" /\ x \notin D
      BY <1>3
    <2>2. conn[x].host \in Hosts /\ sessions[conn[x].host] = x
      BY <2>1 DEF Tables, SessionRegistered
    <2>3. conn[x].host # h
      BY <2>1, <2>2 DEF Old
    <2>4. QED
      BY <1>3, <1>4, <2>2, <2>3
  <1>9. QED
    BY <1>5, <1>6, <1>7, <1>8 DEF Tables

\* A step that changes neither sessions nor endpoints nor streams, and no
\* connection but by closing it or by opening an unregistered one.
LEMMA ConnStep ==
    ASSUME IInv, Others({}), UNCHANGED <<sessions, endpoints, streams>>
    PROVE  Tables'
  <1> USE NamesAssumption DEF IInv
  <1>1. SessionsMatch'
    BY DEF Tables, SessionsMatch, Others, TypeOK
  <1>2. EndpointsMatch'
    <2>1. \A h \in Hosts : sessions[h] # None =>
              conn'[sessions[h]].ports = conn[sessions[h]].ports
      BY DEF Tables, SessionsMatch, Others, TypeOK
    <2>2. QED
      BY <2>1 DEF Tables, EndpointsMatch
  <1>3. StreamsHaveSessions'
    <2> SUFFICES ASSUME NEW s \in streams, NEW x \in {s.sess, s.dialer} \ {None}
                 PROVE  conn'[x].host \in Hosts /\ sessions[conn'[x].host] = x
      BY DEF StreamsHaveSessions
    <2>1. x \in Conns /\ conn[x].host \in Hosts /\ sessions[conn[x].host] = x
      BY DEF TypeOK, Tables, StreamsHaveSessions
    <2>2. conn'[x].host = conn[x].host
      BY <2>1 DEF Tables, SessionsMatch, Others
    <2>3. QED
      BY <2>1, <2>2
  <1>4. SessionRegistered'
    BY DEF Tables, SessionRegistered, Others
  <1>5. QED
    BY <1>1, <1>2, <1>3, <1>4 DEF Tables

\* Every handler leaves the tables in agreement.
LEMMA TablesStep ==
    ASSUME IInv, [Next]_vars
    PROVE  Tables'
  <1> USE NamesAssumption DEF IInv
  <1>0. \A x \in Conns : conn[x] \in Conn
    BY DEF TypeOK, Conn
  <1>1. ASSUME NEW c \in Conns, Connect(c) \/ Deny(c) \/ AuthTimeout(c) PROVE Tables'
    <2>1. /\ \A x \in Conns \ {c} : conn'[x] = conn[x]
          /\ conn[c].state \in {"idle", "greeting"}
          /\ conn'[c].state \in {"greeting", "closing"}
      BY <1>0, <1>1 DEF Connect, Deny, AuthTimeout, Conn, TypeOK
    <2>2. Others({})
      BY <2>1 DEF Others
    <2>3. QED
      BY <1>1, <2>2, ConnStep DEF Connect, Deny, AuthTimeout
  <1>2. ASSUME NEW c \in Conns, NEW h \in Hosts, NEW P \in Declarable(h), Register(c, h, P)
        PROVE  Tables'
    BY <1>2, RegisterKeepsTables DEF Declarable
  <1>3. ASSUME NEW c \in Conns, NEW h \in Hosts, Refuse(c, h) PROVE Tables'
    <2>1. Old(h) \in SUBSET Conns
      BY DEF Old, TypeOK
    <2>2. Others(Old(h))
      BY <1>0, <1>3 DEF Refuse, Closing, Others, Conn, TypeOK
    <2>3. QED
      BY <1>3, <2>1, <2>2, DropKeepsTables DEF Refuse
  <1>4. ASSUME NEW c \in Conns, Drop(c) PROVE Tables'
    <2>1. Others({c})
      BY <1>0, <1>4 DEF Drop, Closing, Others, Conn
    <2>2. QED
      BY <1>4, <2>1, DropKeepsTables DEF Drop
  <1>5. ASSUME NEW c \in Conns, ProtocolError(c) PROVE Tables'
    <2>1. Others({})
      BY <1>0, <1>5 DEF ProtocolError, Closing, Others, Conn
    <2>2. QED
      BY <1>5, <2>1, ConnStep DEF ProtocolError
  <1>6. ASSUME NEW c \in Conns, CloseEvent(c) PROVE Tables'
    <2>1. Others({c})
      BY <1>0, <1>6 DEF CloseEvent, NoConn, Others, Conn, TypeOK
    <2>2. QED
      BY <1>6, <2>1, DropKeepsTables DEF CloseEvent
  <1>7. ASSUME NEW c \in Conns, NEW p \in Ports, PortAdd(c, p) PROVE Tables'
    <2> DEFINE h == conn[c].host
    <2>1. h \in Hosts /\ sessions[h] = c
      BY <1>7 DEF PortAdd, Tables, SessionRegistered
    <2>2. /\ conn'[c].state = conn[c].state /\ conn'[c].host = h
          /\ conn'[c].ports = conn[c].ports \cup {p}
          /\ \A x \in Conns \ {c} : conn'[x] = conn[x]
      BY <1>0, <1>7 DEF PortAdd, TypeOK, Conn
    <2>3. \A k \in Hosts \ {h} : sessions[k] # c
      BY <2>1 DEF Tables, SessionsMatch
    <2>4. /\ endpoints'[h][p] = c
          /\ \A k \in Hosts, q \in Ports : k # h \/ q # p => endpoints'[k][q] = endpoints[k][q]
      BY <1>7, <2>1 DEF PortAdd, TypeOK
    <2>5. SessionsMatch'
      BY <1>7, <2>2 DEF PortAdd, Tables, SessionsMatch, TypeOK
    <2>6. EndpointsMatch'
      <3> SUFFICES ASSUME NEW k \in Hosts, NEW q \in Ports
                   PROVE  LET x == sessions[k] IN
                          IF x # None /\ q \in conn'[x].ports
                            THEN endpoints'[k][q] = x ELSE endpoints'[k][q] \in {None, Absent}
        BY <1>7 DEF PortAdd, EndpointsMatch
      <3>1. LET x == sessions[k] IN
            IF x # None /\ q \in conn[x].ports
              THEN endpoints[k][q] = x ELSE endpoints[k][q] \in {None, Absent}
        BY DEF Tables, EndpointsMatch
      <3>2. CASE k = h
        BY <2>1, <2>2, <2>4, <3>1, <3>2
      <3>3. CASE k # h
        BY <2>2, <2>3, <2>4, <3>1, <3>3 DEF TypeOK
      <3>4. QED
        BY <3>2, <3>3
    <2>7. StreamsHaveSessions'
      BY <1>7, <2>2 DEF PortAdd, Tables, StreamsHaveSessions, TypeOK
    <2>8. SessionRegistered'
      BY <1>7, <2>2 DEF PortAdd, Tables, SessionRegistered
    <2>9. QED
      BY <2>5, <2>6, <2>7, <2>8 DEF Tables
  <1>8. ASSUME NEW c \in Conns, NEW p \in Ports, PortDel(c, p) PROVE Tables'
    <2> DEFINE h == conn[c].host
    <2>1. h \in Hosts /\ sessions[h] = c
      BY <1>8 DEF PortDel, Tables, SessionRegistered
    <2>2. /\ conn'[c].state = conn[c].state /\ conn'[c].host = h
          /\ conn'[c].ports = conn[c].ports \ {p}
          /\ \A x \in Conns \ {c} : conn'[x] = conn[x]
      BY <1>0, <1>8 DEF PortDel, TypeOK, Conn
    <2>3. \A k \in Hosts \ {h} : sessions[k] # c
      BY <2>1 DEF Tables, SessionsMatch
    <2>4. /\ endpoints'[h][p] = Absent
          /\ \A k \in Hosts, q \in Ports : k # h \/ q # p => endpoints'[k][q] = endpoints[k][q]
      BY <1>8, <2>1 DEF PortDel, TypeOK
    <2>5. SessionsMatch'
      BY <1>8, <2>2 DEF PortDel, Tables, SessionsMatch, TypeOK
    <2>6. EndpointsMatch'
      <3> SUFFICES ASSUME NEW k \in Hosts, NEW q \in Ports
                   PROVE  LET x == sessions[k] IN
                          IF x # None /\ q \in conn'[x].ports
                            THEN endpoints'[k][q] = x ELSE endpoints'[k][q] \in {None, Absent}
        BY <1>8 DEF PortDel, EndpointsMatch
      <3>1. LET x == sessions[k] IN
            IF x # None /\ q \in conn[x].ports
              THEN endpoints[k][q] = x ELSE endpoints[k][q] \in {None, Absent}
        BY DEF Tables, EndpointsMatch
      <3>2. CASE k = h
        BY <2>1, <2>2, <2>4, <3>1, <3>2
      <3>3. CASE k # h
        BY <2>2, <2>3, <2>4, <3>1, <3>3 DEF TypeOK
      <3>4. QED
        BY <3>2, <3>3
    <2>7. StreamsHaveSessions'
      BY <1>8, <2>2 DEF PortDel, Tables, StreamsHaveSessions, TypeOK
    <2>8. SessionRegistered'
      BY <1>8, <2>2 DEF PortDel, Tables, SessionRegistered
    <2>9. QED
      BY <2>5, <2>6, <2>7, <2>8 DEF Tables
  <1>9. ASSUME NEW i \in StreamIds, NEW c \in Conns, NEW p \in Ports, NEW d \in Conns \cup {None},
               conn[c].state = "session", d # None => conn[d].state = "session",
               Open(i, c, p, d)
        PROVE  Tables'
    <2>1. StreamsHaveSessions'
      BY <1>9 DEF Open, Tables, StreamsHaveSessions, SessionRegistered
    <2>2. QED
      BY <1>9, <2>1 DEF Open, Tables, SessionsMatch, EndpointsMatch, SessionRegistered
  <1>10. ASSUME NEW s \in streams, CloseStream(s) PROVE Tables'
    <2>1. StreamsHaveSessions'
      BY <1>10 DEF CloseStream, Tables, StreamsHaveSessions
    <2>2. QED
      BY <1>10, <2>1 DEF CloseStream, Tables, SessionsMatch, EndpointsMatch, SessionRegistered
  <1>11. CASE Sweep
    <2>1. EndpointsMatch'
      BY <1>11 DEF Sweep, Tables, EndpointsMatch, TypeOK
    <2>2. QED
      BY <1>11, <2>1 DEF Sweep, Tables, SessionsMatch, StreamsHaveSessions, SessionRegistered
  <1>12. CASE Stop
    <2>1. Others({})
      BY <1>0, <1>12 DEF Stop, Closing, Others, Conn
    <2>2. QED
      BY <1>12, <2>1, ConnStep DEF Stop
  <1>13. CASE StopSessions
    <2> DEFINE D == {sessions[h] : h \in Registered}
    <2>1. \A h \in Hosts : sessions'[h] = None
      BY <1>13 DEF StopSessions, StillRegistered, Registered
    <2>2. \A h \in Hosts, p \in Ports : endpoints'[h][p] = Absent
      BY <1>13 DEF StopSessions
    <2>3. streams' = {}
      <3> SUFFICES ASSUME NEW s \in streams, s.sess \notin D PROVE FALSE
        BY <1>13 DEF StopSessions, Without
      <3>1. s.sess \in {s.sess, s.dialer} \ {None}
        BY DEF TypeOK
      <3>2. QED
        BY <3>1 DEF Tables, StreamsHaveSessions, Registered
    <2>4. \A c \in Conns : conn'[c].state # "session"
      BY <1>13 DEF StopSessions, Draining
    <2>5. QED
      BY <2>1, <2>2, <2>3, <2>4
      DEF Tables, SessionsMatch, EndpointsMatch, StreamsHaveSessions, SessionRegistered
  <1>14. CASE Stopped \/ StartAgain \/ UNCHANGED vars
    BY <1>14 DEF Stopped, StartAgain, vars, Tables, SessionsMatch, EndpointsMatch,
                 StreamsHaveSessions, SessionRegistered
  <1>15. ASSUME NEW h \in Hosts, NEW p \in Ports, NEW i \in StreamIds, Accept(h, p, i)
         PROVE  Tables'
    BY <1>9, <1>15 DEF Accept
  <1>16. ASSUME NEW c \in Conns, NEW h \in Hosts, NEW p \in Ports, NEW i \in StreamIds,
                Dial(c, h, p, i)
         PROVE  Tables'
    BY <1>9, <1>16 DEF Dial, TypeOK
  <1>17. QED
    BY <1>1, <1>2, <1>3, <1>4, <1>5, <1>6, <1>7, <1>8, <1>10, <1>11, <1>12, <1>13, <1>14,
       <1>15, <1>16 DEF Next, Frame, Hello

-----------------------------------------------------------------------------
(* Seats and shutdown *)

\* A registered host is never refused: without its own session the gates count
\* one fewer than let its last session in.
LEMMA NeverRefused ==
    ASSUME IInv, NEW c \in Conns, NEW h \in Registered
    PROVE  ~Refuse(c, h)
  <1>1. Cardinality(Registered \ {h}) = Cardinality(Registered) - 1
    BY RegisteredFinite, FS_RemoveElement
  <1>2. IsFiniteSet(Registered \ {h}) /\ Cardinality(Registered \ {h}) \in Nat
    BY RegisteredFinite, FS_RemoveElement, FS_CardinalityType
  <1>3. Admits(Cardinality(Registered \ {h}))
    BY <1>1, <1>2, RegisteredFinite DEF IInv, Seated
  <1>4. QED
    BY <1>3 DEF Refuse, Used

\* handleHello adds a session only where Admits lets it.
LEMMA RegisterSeated ==
    ASSUME IInv, NEW c \in Conns, NEW h \in Hosts, NEW P, Register(c, h, P)
    PROVE  Seated'
  <1> DEFINE Rest == Registered \ {h}
  <1>1. IsFiniteSet(Rest) /\ Cardinality(Rest) \in Nat /\ Cardinality(Rest) <= Cardinality(Registered)
    BY RegisteredFinite, FS_Subset, FS_CardinalityType
  <1>2. Registered' = Rest \cup {h}
    BY NamesAssumption DEF Registered, Register, IInv, TypeOK
  <1>3. Cardinality(Registered') = Cardinality(Rest) + 1
    BY <1>1, <1>2, FS_AddElement
  <1>4. Admits(Cardinality(Rest))
    BY DEF Register, Used
  <1>5. ASSUME NEW n \in Nat, n < Cardinality(Registered') PROVE Admits(n)
    <2>1. CASE n = Cardinality(Rest)
      BY <1>4, <2>1
    <2>2. CASE n < Cardinality(Registered)
      BY <2>2 DEF IInv, Seated
    <2>3. QED
      BY <1>1, <1>3, <1>5, <2>1, <2>2, RegisteredFinite
  <1>6. QED
    BY <1>5 DEF Seated, Admits, UtilPct

\* No step seats more sessions than the gates allow.
LEMMA SeatStep ==
    ASSUME IInv, [Next]_vars
    PROVE  Seated'
  <1> USE DEF IInv
  <1>1. ASSUME Registered' \in SUBSET Registered PROVE Seated'
    BY <1>1, FewerSeated
  <1>2. ASSUME UNCHANGED sessions PROVE Seated'
    BY <1>1, <1>2 DEF Registered
  <1>3. ASSUME NEW c \in Conns, Connect(c) \/ Deny(c) \/ AuthTimeout(c) \/ ProtocolError(c)
        PROVE  Seated'
    BY <1>2, <1>3 DEF Connect, Deny, AuthTimeout, ProtocolError
  <1>4. ASSUME NEW c \in Conns, Hello(c) PROVE Seated'
    <2>1. ASSUME NEW h \in Hosts, Refuse(c, h) PROVE Seated'
      <3>1. Old(h) \in SUBSET Conns
        BY DEF Old, TypeOK
      <3>2. QED
        BY <2>1, <3>1, DropUnseats DEF Refuse
    <2>2. QED
      BY <1>4, <2>1, RegisterSeated DEF Hello
  <1>5. ASSUME NEW c \in Conns, Drop(c) \/ CloseEvent(c) PROVE Seated'
    <2>1. {c} \in SUBSET Conns
      OBVIOUS
    <2>2. QED
      BY <1>5, <2>1, DropUnseats DEF Drop, CloseEvent
  <1>6. ASSUME NEW c \in Conns, NEW p \in Ports, PortAdd(c, p) \/ PortDel(c, p) PROVE Seated'
    BY <1>2, <1>6 DEF PortAdd, PortDel
  <1>7. ASSUME NEW h \in Hosts, NEW p \in Ports, NEW i \in StreamIds,
               Accept(h, p, i) \/ (\E c \in Conns : Dial(c, h, p, i))
        PROVE  Seated'
    BY <1>2, <1>7 DEF Accept, Dial, Open
  <1>8. ASSUME NEW s \in streams, CloseStream(s) PROVE Seated'
    BY <1>2, <1>8 DEF CloseStream
  <1>9. CASE Sweep \/ Stop \/ Stopped \/ StartAgain \/ UNCHANGED vars
    BY <1>2, <1>9 DEF Sweep, Stop, Stopped, StartAgain, vars
  <1>10. CASE StopSessions
    <2>1. Registered' \in SUBSET Registered
      BY <1>10, NamesAssumption DEF StopSessions, StillRegistered, Registered
    <2>2. QED
      BY <1>1, <2>1
  <1>11. QED
    BY <1>3, <1>4, <1>5, <1>6, <1>7, <1>8, <1>9, <1>10 DEF Next, Frame

\* stop() leaves no connection authenticated, and HELLO is denied from then on.
LEMMA DrainStep ==
    ASSUME IInv, [Next]_vars
    PROVE  Draining'
  <1> USE DEF IInv, Draining
  <1>0. \A x \in Conns : conn[x] \in Conn
    BY DEF TypeOK, Conn
  <1>1. ASSUME NEW c \in Conns, Connect(c) \/ Deny(c) \/ AuthTimeout(c) PROVE Draining'
    BY <1>0, <1>1 DEF Connect, Deny, AuthTimeout, TypeOK, Conn
  <1>2. ASSUME NEW c \in Conns, Hello(c) PROVE Draining'
    BY <1>2 DEF Hello, Register, Refuse
  <1>3. ASSUME NEW c \in Conns, Drop(c) \/ ProtocolError(c) PROVE Draining'
    BY <1>3 DEF Drop, ProtocolError
  <1>4. ASSUME NEW c \in Conns, CloseEvent(c) PROVE Draining'
    BY <1>4 DEF CloseEvent, NoConn, TypeOK
  <1>5. ASSUME NEW c \in Conns, NEW p \in Ports, PortAdd(c, p) \/ PortDel(c, p) PROVE Draining'
    BY <1>5 DEF PortAdd, PortDel
  <1>6. ASSUME NEW h \in Hosts, NEW p \in Ports, NEW i \in StreamIds,
               Accept(h, p, i) \/ (\E c \in Conns : Dial(c, h, p, i))
        PROVE  Draining'
    BY <1>6 DEF Accept, Dial, Open
  <1>7. ASSUME NEW s \in streams, CloseStream(s) PROVE Draining'
    BY <1>7 DEF CloseStream
  <1>8. CASE Sweep \/ StopSessions \/ Stopped \/ StartAgain \/ UNCHANGED vars
    BY <1>8 DEF Sweep, StopSessions, Stopped, StartAgain, vars
  <1>9. CASE Stop
    <2> SUFFICES ASSUME NEW c \in Conns, conn'[c].state = "session" PROVE FALSE
      OBVIOUS
    <2>1. conn[c].state = "session" /\ c \notin {sessions[h] : h \in Registered}
      BY <1>0, <1>9 DEF Stop, Closing, Conn
    <2>2. conn[c].host \in Hosts /\ sessions[conn[c].host] = c
      BY <2>1 DEF Tables, SessionRegistered
    <2>3. QED
      BY <2>1, <2>2, NamesAssumption DEF Registered
  <1>10. QED
    BY <1>1, <1>2, <1>3, <1>4, <1>5, <1>6, <1>7, <1>8, <1>9 DEF Next, Frame

-----------------------------------------------------------------------------
(* The counters of the ports *)

\* The streams on a port of a session are finitely many.
LEMMA OpenFinite ==
    ASSUME IsFiniteSet(streams), NEW c, NEW p
    PROVE  IsFiniteSet(OpenOn(c, p)) /\ Cardinality(OpenOn(c, p)) \in Nat
  <1>1. OpenOn(c, p) \in SUBSET streams
    BY DEF OpenOn
  <1>2. QED
    BY <1>1, FS_Subset, FS_CardinalityType

\* dropSession takes off a port's counter as many as it closes of its streams.
LEMMA DropKeepsCounts ==
    ASSUME TypeOK, IsFiniteSet(streams), CounterSound, NEW D,
           streams' = Without(D), live' = Counts(D)
    PROVE  CounterSound'
  <1> SUFFICES ASSUME NEW c \in Conns, NEW p \in Ports
               PROVE  /\ live'[c][p] <= Cardinality(OpenOn(c, p)')
                      /\ live'[c][p] <= MaxStreamsPerPort
    BY DEF CounterSound
  <1> DEFINE B == OpenOn(c, p)
             E == DialledBy(D, c, p)
  <1>1. /\ live[c][p] \in Nat /\ MaxStreamsPerPort \in Nat
        /\ live[c][p] <= Cardinality(B) /\ live[c][p] <= MaxStreamsPerPort
    BY LimitsAssumption DEF TypeOK, CounterSound
  <1>2. IsFiniteSet(B) /\ Cardinality(B) \in Nat
    BY OpenFinite
  <1>3. CASE c \in D
    <2>1. live'[c][p] = 0
      BY <1>3 DEF Counts
    <2>2. OpenOn(c, p)' \in SUBSET B
      BY DEF OpenOn, Without
    <2>3. Cardinality(OpenOn(c, p)') \in Nat
      BY <1>2, <2>2, FS_Subset, FS_CardinalityType
    <2>4. QED
      BY <1>1, <2>1, <2>3
  <1>4. CASE c \notin D
    <2>1. live'[c][p] = Minus(live[c][p], Cardinality(E))
      BY <1>4 DEF Counts
    <2>2. OpenOn(c, p)' = B \ E
      BY <1>4 DEF OpenOn, Without, DialledBy
    <2>3. E \in SUBSET B
      BY DEF OpenOn, DialledBy
    <2>4. Cardinality(E) \in Nat /\ Cardinality(E) <= Cardinality(B)
      BY <1>2, <2>3, FS_Subset, FS_CardinalityType
    <2>5. B \cap E = E
      BY <2>3
    <2>6. Cardinality(B \ E) = Cardinality(B) - Cardinality(E)
      BY <1>2, <2>5, FS_Difference
    <2>7. QED
      <3> HIDE DEF B, E
      <3> QED
        BY <1>1, <1>2, <2>1, <2>2, <2>4, <2>6 DEF Minus
  <1>5. QED
    BY <1>3, <1>4

\* A new stream raises the counter of its port, which was below the limit.
LEMMA OpenKeepsCounts ==
    ASSUME TypeOK, IsFiniteSet(streams), CounterSound,
           NEW i \in StreamIds, NEW c \in Conns, NEW p \in Ports, NEW d \in Conns \cup {None},
           live[c][p] < MaxStreamsPerPort, Open(i, c, p, d)
    PROVE  CounterSound'
  <1> DEFINE s == [id |-> i, sess |-> c, port |-> p, dialer |-> d]
  <1>1. s \notin streams /\ streams' = streams \cup {s}
    BY DEF Open, FreeId, Ids
  <1>2. live' = [live EXCEPT ![c][p] = @ + 1]
    BY DEF Open
  <1>3. SUFFICES ASSUME NEW e \in Conns, NEW q \in Ports
                 PROVE  /\ live'[e][q] <= Cardinality(OpenOn(e, q)')
                        /\ live'[e][q] <= MaxStreamsPerPort
    BY DEF CounterSound
  <1>4. /\ live[e][q] \in Nat /\ MaxStreamsPerPort \in Nat
        /\ live[e][q] <= Cardinality(OpenOn(e, q)) /\ live[e][q] <= MaxStreamsPerPort
    BY LimitsAssumption DEF TypeOK, CounterSound
  <1>5. IsFiniteSet(OpenOn(e, q)) /\ Cardinality(OpenOn(e, q)) \in Nat
    BY OpenFinite
  <1>6. CASE e = c /\ q = p
    <2>1. OpenOn(e, q)' = OpenOn(e, q) \cup {s}
      BY <1>1, <1>6 DEF OpenOn
    <2>2. s \notin OpenOn(e, q)
      BY <1>1 DEF OpenOn
    <2>3. Cardinality(OpenOn(e, q)') = Cardinality(OpenOn(e, q)) + 1
      BY <1>5, <2>1, <2>2, FS_AddElement
    <2>4. live'[e][q] = live[e][q] + 1
      BY <1>2, <1>6 DEF TypeOK
    <2>5. QED
      BY <1>4, <1>5, <1>6, <2>3, <2>4
  <1>7. CASE ~(e = c /\ q = p)
    <2>1. OpenOn(e, q)' = OpenOn(e, q)
      BY <1>1, <1>7 DEF OpenOn
    <2>2. live'[e][q] = live[e][q]
      BY <1>2, <1>7 DEF TypeOK
    <2>3. QED
      BY <1>4, <2>1, <2>2
  <1>8. QED
    BY <1>6, <1>7

\* A stream that ends leaves its counter one lower, and at zero if PORT_DEL had
\* cleared it.
LEMMA CloseKeepsCounts ==
    ASSUME TypeOK, IsFiniteSet(streams), CounterSound, NEW s \in streams, CloseStream(s)
    PROVE  CounterSound'
  <1>1. streams' = streams \ {s} /\ live' = [live EXCEPT ![s.sess][s.port] = Minus(@, 1)]
    BY DEF CloseStream, Released
  <1>2. s.sess \in Conns /\ s.port \in Ports
    BY DEF TypeOK
  <1>3. SUFFICES ASSUME NEW e \in Conns, NEW q \in Ports
                 PROVE  /\ live'[e][q] <= Cardinality(OpenOn(e, q)')
                        /\ live'[e][q] <= MaxStreamsPerPort
    BY DEF CounterSound
  <1>4. /\ live[e][q] \in Nat /\ MaxStreamsPerPort \in Nat
        /\ live[e][q] <= Cardinality(OpenOn(e, q)) /\ live[e][q] <= MaxStreamsPerPort
    BY LimitsAssumption DEF TypeOK, CounterSound
  <1>5. IsFiniteSet(OpenOn(e, q)) /\ Cardinality(OpenOn(e, q)) \in Nat
    BY OpenFinite
  <1>6. CASE e = s.sess /\ q = s.port
    <2>1. OpenOn(e, q)' = OpenOn(e, q) \ {s} /\ s \in OpenOn(e, q)
      BY <1>1, <1>6 DEF OpenOn
    <2>2. Cardinality(OpenOn(e, q)') = Cardinality(OpenOn(e, q)) - 1
      BY <1>5, <2>1, FS_RemoveElement
    <2>3. live'[e][q] = Minus(live[e][q], 1)
      BY <1>1, <1>2, <1>6 DEF TypeOK
    <2>4. Cardinality(OpenOn(e, q)') \in Nat
      BY <1>5, <2>1, FS_RemoveElement, FS_CardinalityType
    <2>5. QED
      BY <1>4, <1>5, <2>2, <2>3, <2>4 DEF Minus
  <1>7. CASE ~(e = s.sess /\ q = s.port)
    <2>1. OpenOn(e, q)' = OpenOn(e, q)
      BY <1>1, <1>7 DEF OpenOn
    <2>2. live'[e][q] = live[e][q]
      BY <1>1, <1>2, <1>7 DEF TypeOK
    <2>3. QED
      BY <1>4, <2>1, <2>2
  <1>8. QED
    BY <1>6, <1>7

\* No step lets a counter exceed the open streams of its port or the limit.
LEMMA CountStep ==
    ASSUME IInv, [Next]_vars
    PROVE  CounterSound'
  <1> USE DEF IInv
  <1>1. ASSUME UNCHANGED <<streams, live>> PROVE CounterSound'
    BY <1>1 DEF CounterSound, OpenOn
  <1>2. ASSUME NEW D, DropSessions(D) PROVE CounterSound'
    BY <1>2, DropKeepsCounts DEF DropSessions
  <1>3. ASSUME NEW c \in Conns, Connect(c) \/ Deny(c) \/ AuthTimeout(c) \/ ProtocolError(c)
        PROVE  CounterSound'
    BY <1>1, <1>3 DEF Connect, Deny, AuthTimeout, ProtocolError
  <1>4. ASSUME NEW c \in Conns, Hello(c) PROVE CounterSound'
    <2>1. ASSUME NEW h \in Hosts, NEW P, Register(c, h, P) PROVE CounterSound'
      BY <2>1, DropKeepsCounts DEF Register
    <2>2. ASSUME NEW h \in Hosts, Refuse(c, h) PROVE CounterSound'
      BY <1>2, <2>2 DEF Refuse
    <2>3. QED
      BY <1>4, <2>1, <2>2 DEF Hello
  <1>5. ASSUME NEW c \in Conns, Drop(c) \/ CloseEvent(c) PROVE CounterSound'
    BY <1>2, <1>5 DEF Drop, CloseEvent
  <1>6. ASSUME NEW c \in Conns, NEW p \in Ports, PortAdd(c, p) PROVE CounterSound'
    BY <1>1, <1>6 DEF PortAdd
  <1>7. ASSUME NEW c \in Conns, NEW p \in Ports, PortDel(c, p) PROVE CounterSound'
    <2> SUFFICES ASSUME NEW e \in Conns, NEW q \in Ports
                 PROVE  /\ live'[e][q] <= Cardinality(OpenOn(e, q)')
                        /\ live'[e][q] <= MaxStreamsPerPort
      BY DEF CounterSound
    <2>1. OpenOn(e, q)' = OpenOn(e, q)
      BY <1>7 DEF PortDel, OpenOn
    <2>2. live'[e][q] = live[e][q] \/ live'[e][q] = 0
      BY <1>7 DEF PortDel, TypeOK
    <2>3. Cardinality(OpenOn(e, q)) \in Nat
      BY OpenFinite
    <2>4. live[e][q] <= Cardinality(OpenOn(e, q)) /\ live[e][q] <= MaxStreamsPerPort
      BY DEF CounterSound
    <2>5. MaxStreamsPerPort \in Nat
      BY LimitsAssumption
    <2>6. QED
      BY <2>1, <2>2, <2>3, <2>4, <2>5
  <1>8. ASSUME NEW h \in Hosts, NEW p \in Ports, NEW i \in StreamIds, Accept(h, p, i)
        PROVE  CounterSound'
    BY <1>8, OpenKeepsCounts DEF Accept
  <1>9. ASSUME NEW c \in Conns, NEW h \in Hosts, NEW p \in Ports, NEW i \in StreamIds,
               Dial(c, h, p, i)
        PROVE  CounterSound'
    BY <1>9, OpenKeepsCounts DEF Dial, TypeOK
  <1>10. ASSUME NEW s \in streams, CloseStream(s) PROVE CounterSound'
    BY <1>10, CloseKeepsCounts
  <1>11. CASE Sweep \/ Stop \/ Stopped \/ StartAgain \/ UNCHANGED vars
    BY <1>1, <1>11 DEF Sweep, Stop, Stopped, StartAgain, vars
  <1>12. CASE StopSessions
    BY <1>12, DropKeepsCounts DEF StopSessions
  <1>13. QED
    BY <1>3, <1>4, <1>5, <1>6, <1>7, <1>8, <1>9, <1>10, <1>11, <1>12 DEF Next, Frame

-----------------------------------------------------------------------------
(* Theorems *)

\* The invariant is inductive.
LEMMA Inductive == IInv /\ [Next]_vars => IInv'
  BY TypeStep, TablesStep, SeatStep, DrainStep, CountStep DEF IInv

\* It holds in every reachable state.
THEOREM Invariance == Spec => []IInv
  BY InitInv, Inductive, PTL DEF Spec

\* The tables have their types whatever the interleaving of handlers: no
\* counter of streams becomes negative and no table names a foreign connection.
THEOREM TypeCorrect == Spec => []TypeOK
  <1>1. IInv => TypeOK
    BY DEF IInv
  <1>2. QED
    BY <1>1, Invariance, PTL

\* A registered connection is its host's and has not ended (server.ts dropSession,
\* handleHello).
THEOREM SessionsAgree == Spec => []SessionsMatch
  <1>1. IInv => SessionsMatch
    BY DEF IInv, Tables
  <1>2. QED
    BY <1>1, Invariance, PTL

\* The endpoint table leads exactly to the ports of the registered sessions.
THEOREM EndpointsAgree == Spec => []EndpointsMatch
  <1>1. IInv => EndpointsMatch
    BY DEF IInv, Tables
  <1>2. QED
    BY <1>1, Invariance, PTL

\* No stream outlives the session of its worker or of its dialer.
THEOREM NoOrphanStreams == Spec => []StreamsHaveSessions
  <1>1. IInv => StreamsHaveSessions
    BY DEF IInv, Tables
  <1>2. QED
    BY <1>1, Invariance, PTL

\* However streams open, end, lose their session or their port, a port's counter
\* never exceeds its open streams nor the limit (server.ts: Session.portStreams).
THEOREM CounterCorrect == Spec => []CounterSound
  <1>1. IInv => CounterSound
    BY DEF IInv
  <1>2. QED
    BY <1>1, Invariance, PTL

\* All the tables of the relay agree in every reachable state.
THEOREM TablesAgree == Spec => []TablesMatch
  <1>1. IInv => TablesMatch
    BY DEF IInv, Tables, TablesMatch
  <1>2. QED
    BY <1>1, Invariance, PTL

\* An integer quotient below u bounds the dividend.
LEMMA Quotient ==
    ASSUME NEW a \in Nat, NEW b \in Nat \ {0}, NEW u \in Nat, a \div b < u
    PROVE  a < u * b
  <1> DEFINE q == a \div b
  <1>1. q \in Nat /\ a < (q + 1) * b
    OBVIOUS
  <1>2. (q + 1) * b <= u * b
    <2> HIDE DEF q
    <2>1. \E k \in Nat : u = q + 1 + k
      <3>1. u - (q + 1) \in Nat
        BY <1>1 DEF q
      <3>2. QED
        BY <1>1, <3>1
    <2>2. PICK k \in Nat : u = q + 1 + k
      BY <2>1
    <2>3. u * b = (q + 1) * b + k * b
      BY <1>1, <2>2
    <2>4. k * b \in Nat
      OBVIOUS
    <2>5. QED
      BY <1>1, <2>3, <2>4
  <1>3. QED
    BY <1>1, <1>2

\* Sessions stay within capacity and below the utilisation gate (at-capacity,
\* at-util-limit), whatever the two limits are.
THEOREM SeatsBounded == Spec => []SeatsWithinLimits
  <1>1. IInv => SeatsWithinLimits
    <2> SUFFICES ASSUME IInv, MaxHosts > 0, Cardinality(Registered) > 0
                 PROVE  /\ Cardinality(Registered) <= MaxHosts
                        /\ UtilMaxPct > 0 =>
                             (Cardinality(Registered) - 1) * 100 < UtilMaxPct * MaxHosts
      BY DEF SeatsWithinLimits
    <2> DEFINE n == Cardinality(Registered) - 1
    <2>1. n \in Nat /\ MaxHosts \in Nat \ {0} /\ UtilMaxPct \in Nat
      BY RegisteredFinite, LimitsAssumption
    <2>2. Admits(n)
      BY <2>1, RegisteredFinite DEF IInv, Seated
    <2>3. n < MaxHosts /\ (UtilMaxPct > 0 => (n * 100) \div MaxHosts < UtilMaxPct)
      BY <2>2 DEF Admits, UtilPct
    <2>4. UtilMaxPct > 0 => n * 100 < UtilMaxPct * MaxHosts
      <3> HIDE DEF n
      <3>1. n * 100 \in Nat
        BY <2>1
      <3>2. QED
        BY <2>1, <2>3, <3>1, Quotient
    <2>5. QED
      BY <2>1, <2>3, <2>4, RegisteredFinite
  <1>2. QED
    BY <1>1, Invariance, PTL

\* A registered host loses its seat only with its connection or with the server:
\* "already registered hosts always come first".
THEOREM SeatKept == Spec => KeepsSeat
  <1> DEFINE K == \A h \in Hosts :
                      sessions[h] # None /\ sessions'[h] = None =>
                         \/ server' # server
                         \/ \A c \in Conns \ {sessions[h]} : conn'[c] = conn[c]
  <1>1. ASSUME IInv, [Next]_vars PROVE [K]_vars
    <2> USE NamesAssumption
    <2>1. ASSUME UNCHANGED sessions PROVE K
      BY <2>1
    <2>2. ASSUME NEW c \in Conns, Connect(c) \/ Deny(c) \/ AuthTimeout(c) \/ ProtocolError(c)
          PROVE  K
      BY <2>1, <2>2 DEF Connect, Deny, AuthTimeout, ProtocolError
    <2>3. ASSUME NEW c \in Conns, Hello(c) PROVE K
      <3>1. ASSUME NEW h \in Hosts, Refuse(c, h) PROVE K
        <4>1. sessions[h] = None
          BY <1>1, <3>1, NeverRefused DEF Registered
        <4>2. QED
          BY <3>1, <4>1 DEF Refuse, DropSessions, StillRegistered, Old
      <3>2. ASSUME NEW h \in Hosts, NEW P \in Declarable(h), Register(c, h, P) PROVE K
        BY <3>2 DEF Register
      <3>3. QED
        BY <2>3, <3>1, <3>2 DEF Hello
    <2>4. ASSUME NEW c \in Conns, Drop(c) \/ CloseEvent(c) PROVE K
      <3>1. \A h \in Hosts : sessions'[h] = IF sessions[h] = c THEN None ELSE sessions[h]
        BY <2>4 DEF Drop, CloseEvent, DropSessions, StillRegistered
      <3>2. \A x \in Conns \ {c} : conn'[x] = conn[x]
        <4>1. CASE Drop(c)
          BY <4>1 DEF Drop, Closing
        <4>2. CASE CloseEvent(c)
          BY <1>1, <4>2 DEF CloseEvent, IInv, TypeOK
        <4>3. QED
          BY <2>4, <4>1, <4>2
      <3>3. QED
        BY <3>1, <3>2
    <2>5. ASSUME NEW c \in Conns, NEW p \in Ports, PortAdd(c, p) \/ PortDel(c, p) PROVE K
      BY <2>1, <2>5 DEF PortAdd, PortDel
    <2>6. ASSUME NEW h \in Hosts, NEW p \in Ports, NEW i \in StreamIds,
                 Accept(h, p, i) \/ (\E c \in Conns : Dial(c, h, p, i))
          PROVE  K
      BY <2>1, <2>6 DEF Accept, Dial, Open
    <2>7. ASSUME NEW s \in streams, CloseStream(s) PROVE K
      BY <2>1, <2>7 DEF CloseStream
    <2>8. CASE Sweep \/ Stop \/ Stopped \/ StartAgain
      BY <2>1, <2>8 DEF Sweep, Stop, Stopped, StartAgain
    <2>9. CASE StopSessions
      BY <2>9 DEF StopSessions
    <2>10. QED
      BY <1>1, <2>2, <2>3, <2>4, <2>5, <2>6, <2>7, <2>8, <2>9 DEF Next, Frame
  <1>2. KeepsSeat <=> [][K]_vars
    BY PTL DEF KeepsSeat
  <1>3. QED
    BY <1>1, <1>2, Invariance, PTL DEF Spec
=============================================================================
