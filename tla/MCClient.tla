------------------------------ MODULE MCClient -------------------------------
(* The ends of the relay: the landing ports of a dialler, the connection of a *)
(* RelayClient, and the WorkerTunnel that uses one.  One of the three runs,   *)
(* the others stay where they begin, so that one run of TLC checks all.       *)
EXTENDS LandingPool, TLC

VARIABLES part,  \* the component that runs; the others stay where they begin
          role, state, ws, retry, stopped, dynamic, waiting, dialled, sock,
          toRelay, toClient, greet, reg, served, routes, clientFaults,
          kind, live, forwarded, ready, cur, chan, tick, call, tunnelFaults

ClientPorts == [r \in {"worker", "late", "dialer"} |-> IF r = "late" THEN {1} ELSE {1, 2}]

Client == INSTANCE RelayClient WITH
    Socks <- {1, 2}, None <- None, Static <- {}, Ports <- {1, 2},
    PortsOf <- ClientPorts, Ids <- {1, 2, 3}, CallIds <- {1}, MaxFaults <- 2,
    faults <- clientFaults

Tunnel == INSTANCE WorkerTunnel WITH
    Ports <- {1}, Agent <- 0, MaxFaults <- 2, faults <- tunnelFaults

clientVars == <<role, state, ws, retry, stopped, dynamic, waiting, dialled,
                sock, toRelay, toClient, greet, reg, served, routes,
                clientFaults>>
tunnelVars == <<kind, live, forwarded, ready, cur, chan, tick, call,
                tunnelFaults>>

Parts == {"pool", "client", "tunnel"}

allVars == <<part, vars, clientVars, tunnelVars>>

AllInit ==
  /\ part \in Parts
  /\ Init
  /\ Client!Init
  /\ part # "client" => role = "worker"
  /\ Tunnel!Init
  /\ part # "tunnel" => kind = "relay"

AllNext ==
  \/ part = "pool" /\ Next /\ UNCHANGED <<part, clientVars, tunnelVars>>
  \/ part = "client" /\ Client!Next /\ UNCHANGED <<part, vars, tunnelVars>>
  \/ part = "tunnel" /\ Tunnel!Next /\ UNCHANGED <<part, vars, clientVars>>

AllSpec == AllInit /\ [][AllNext]_allVars

\* The fairness of each component.
AllFair ==
  /\ AllSpec
  /\ WF_clientVars(part = "client" /\ Client!Retries)
  /\ WF_clientVars(part = "client" /\ Client!HealthWatch)
  /\ \A s \in {1, 2} : WF_clientVars(part = "client" /\ Client!Open(s))
  /\ \A s \in {1, 2} : WF_clientVars(part = "client" /\ Client!Receive(s))
  /\ \A s \in {1, 2} : WF_clientVars(part = "client" /\ Client!RelayReads(s))
  /\ \A s \in {1, 2} : WF_clientVars(part = "client" /\ Client!RelayTimeout(s))
  /\ \A s \in {1, 2} : WF_clientVars(part = "client" /\ Client!SystemGivesUp(s))
  /\ \A t \in Tunnel!Ticks : WF_tunnelVars(part = "tunnel" /\ Tunnel!TickStep(t))
  /\ \A a \in Tunnel!Actors : WF_tunnelVars(part = "tunnel" /\ Tunnel!Return(a))
  /\ WF_tunnelVars(part = "tunnel" /\ Tunnel!Reconnects)
  /\ WF_tunnelVars(part = "tunnel" /\ (Tunnel!Switches \/ Tunnel!SwitchFails))

-----------------------------------------------------------------------------
ASSUME PoolConstants == PoolAssumption
ASSUME ClientConstants == Client!ClientAssumption
ASSUME TunnelConstants == Tunnel!TunnelAssumption

\* The connection of a client (client.ts: connect, scheduleReconnect,
\* settleHandshake, replayPorts): with nothing on the way the relay listens on
\* the ports that were added and routes the streams that were dialled; a client
\* that is not stopped registers again, and a socket it gave up ends.
ClientServes ==
  /\ [](part = "client" => Client!TypeOK /\ Client!PortsServed /\ Client!StreamsRouted)
  /\ Client!Recovers /\ Client!NoSocketLeft

\* The ports of a worker over that connection (relay-tunnel.ts, tunnel.ts and
\* the agent's reconciliation): the agent is reachable whenever the tunnel is
\* ready, its record of ports is true on a single relay, live instances end up
\* reachable and those that are gone withdrawn.
TunnelServes ==
  /\ [](part = "tunnel" => Tunnel!TypeOK /\ Tunnel!AgentServed /\ Tunnel!RecordTrueOnOneRelay)
  /\ Tunnel!LiveServed /\ Tunnel!GoneWithdrawn

=============================================================================
