---------------------------- MODULE WorkerTunnel ----------------------------
(***************************************************************************)
(* The tunnel through which a worker makes the ports of its instances        *)
(* reachable: the agent's healing and reconciliation                         *)
(* (src/src/worker/agent.ts), over a relay (src/src/worker/relay-tunnel.ts,  *)
(* with or without failover) or over an ssh master (src/src/worker/tunnel.ts)*)
(*                                                                         *)
(* A channel is a relay client or the ssh master, of which RelayClient gives *)
(* the detail: it is up or not, and holds the ports it declares whenever it  *)
(* is up.  A call to a channel takes effect when it returns.                 *)
(***************************************************************************)
EXTENDS Naturals, FiniteSets

CONSTANTS
    Ports,      \* ports of instances
    Agent,      \* the static port, of the agent itself
    None,
    MaxFaults   \* bound: broken channels, calls that fail, switches

TunnelAssumption == Agent \notin Ports /\ None \notin Ports /\ MaxFaults \in Nat

Ticks == {"timer", "callback"}              \* two ticks may overlap
Actors == Ticks \cup {"launch", "stop"}     \* and the handlers of /launch and /stop
Channels == {1, 2}

VARIABLES
    kind,       \* "relay", "failover" (a relay with failover), "ssh"
    live,       \* ports of the instances the agent manages
    forwarded,  \* RelayTunnel.forwarded, SshTunnel.forwarded
    ready,      \* tunnelReady
    cur,        \* the channel in use
    chan,       \* per channel: is it "up", "down", "opening" or "closed", and its ports
    tick,       \* where each tick is, with the live ports it read and those left to do
    call,       \* the call of each actor that has not returned
    faults

vars == <<kind, live, forwarded, ready, cur, chan, tick, call, faults>>

NoCall == [op |-> None, port |-> None, chan |-> 0]
IdleTick == [pc |-> "idle", live |-> {}, todo |-> {}]

TypeOK ==
    /\ kind \in {"relay", "failover", "ssh"} /\ live \subseteq Ports
    /\ forwarded \subseteq Ports \cup {Agent} /\ ready \in BOOLEAN /\ cur \in Channels
    /\ chan \in [Channels -> [is : {"up", "down", "opening", "closed"},
                              ports : SUBSET (Ports \cup {Agent})]]
    /\ chan[cur].is \in {"up", "down"}
    /\ tick \in [Ticks -> [pc : {"idle", "master", "reconcile", "add", "cancel"},
                           live : SUBSET Ports, todo : SUBSET (Ports \cup {Agent})]]
    /\ call \in [Actors -> [op : {"add", "del", None}, port : Ports \cup {None}, chan : {0} \cup Channels]]
    /\ faults \in 0..MaxFaults

Init ==
    /\ kind \in {"relay", "failover", "ssh"}
    /\ live = {} /\ forwarded = {} /\ ready = FALSE /\ cur = 1
    /\ chan = [c \in Channels |-> IF c = 1 THEN [is |-> "down", ports |-> IF kind = "ssh" THEN {} ELSE {Agent}]
                                           ELSE [is |-> "closed", ports |-> {}]]
    /\ tick = [t \in Ticks |-> IdleTick]
    /\ call = [a \in Actors |-> NoCall]
    /\ faults = 0

-----------------------------------------------------------------------------
Up == chan[cur].is = "up"
Fault == faults < MaxFaults /\ faults' = faults + 1
Idle(a) == call[a] = NoCall

\* A port known to be forwarded needs no call; a client that is not up, or has
\* the port already, answers at once.
NeedsCall(p) == p \notin forwarded

Ask(a, op, p) == call' = [call EXCEPT ![a] = [op |-> op, port |-> p, chan |-> cur]]

\* /launch, after the spawner launched: the port is forwarded if the tunnel is
\* ready.
Launch(p) ==
    /\ Idle("launch") /\ p \notin live
    /\ live' = live \cup {p}
    /\ IF ready /\ NeedsCall(p) THEN Ask("launch", "add", p) ELSE UNCHANGED call
    /\ UNCHANGED <<kind, forwarded, ready, cur, chan, tick, faults>>

\* /stop, after the spawner stopped.
Stop(p) ==
    /\ Idle("stop") /\ p \in live
    /\ live' = live \ {p}
    /\ IF ready /\ p \in forwarded THEN Ask("stop", "del", p) ELSE UNCHANGED call
    /\ UNCHANGED <<kind, forwarded, ready, cur, chan, tick, faults>>

\* An instance that ends by itself; no handler runs.
Exit(p) ==
    /\ p \in live
    /\ live' = live \ {p}
    /\ UNCHANGED <<kind, forwarded, ready, cur, chan, tick, call, faults>>

-----------------------------------------------------------------------------
(* A tick: healTunnel, then reconcileTunnel *)

\* healTunnel: nothing to do, or the master is established.
Heal(t) ==
    /\ tick[t].pc = "idle"
    /\ IF ready /\ Up
         THEN tick' = [tick EXCEPT ![t].pc = "reconcile"] /\ UNCHANGED <<forwarded, ready>>
         ELSE /\ tick' = [tick EXCEPT ![t].pc = "master"]
              /\ forwarded' = IF kind = "ssh" /\ ready THEN {} ELSE forwarded
              /\ ready' = FALSE
    /\ UNCHANGED <<kind, live, cur, chan, call, faults>>

\* isMasterAlive over ssh fails although the master lives: the record is dropped.
CheckFails(t) ==
    /\ tick[t].pc = "idle" /\ kind = "ssh" /\ ready /\ Up /\ Fault
    /\ tick' = [tick EXCEPT ![t].pc = "master"]
    /\ forwarded' = {} /\ ready' = FALSE
    /\ UNCHANGED <<kind, live, cur, chan, call>>

\* ensureMaster returns: a relay client came up; an ssh master lives and gets
\* the static port, or was started with it.
EnsureMaster(t) ==
    /\ tick[t].pc = "master"
    /\ kind = "ssh" \/ Up
    /\ ready' = TRUE
    /\ tick' = [tick EXCEPT ![t].pc = "reconcile"]
    /\ IF kind = "ssh"
         THEN /\ forwarded' = forwarded \cup {Agent}
              /\ chan' = [chan EXCEPT ![cur] = [is |-> "up", ports |-> IF Up THEN @.ports \cup {Agent} ELSE {Agent}]]
         ELSE UNCHANGED <<forwarded, chan>>
    /\ UNCHANGED <<kind, live, cur, call, faults>>

\* ensureMaster throws.
MasterFails(t) ==
    /\ tick[t].pc = "master" /\ ~Up
    /\ IF kind = "ssh" THEN Fault ELSE UNCHANGED faults
    /\ tick' = [tick EXCEPT ![t].pc = "reconcile"]
    /\ UNCHANGED <<kind, live, forwarded, ready, cur, chan, call>>

\* reconcileTunnel: the live ports are read once.
Reconcile(t) ==
    /\ tick[t].pc = "reconcile"
    /\ tick' = [tick EXCEPT ![t] = IF ready THEN [pc |-> "add", live |-> live, todo |-> live] ELSE IdleTick]
    /\ UNCHANGED <<kind, live, forwarded, ready, cur, chan, call, faults>>

AddNext(t) ==
    \E p \in tick[t].todo :
      /\ tick[t].pc = "add" /\ Idle(t)
      /\ tick' = [tick EXCEPT ![t].todo = @ \ {p}]
      /\ IF NeedsCall(p) THEN Ask(t, "add", p) ELSE UNCHANGED call
      /\ UNCHANGED <<kind, live, forwarded, ready, cur, chan, faults>>

\* The ports known to be forwarded that were not live when that was read.
Gone(t) == forwarded \ (tick[t].live \cup {Agent})

AddsDone(t) ==
    /\ tick[t].pc = "add" /\ tick[t].todo = {} /\ Idle(t)
    /\ tick' = [tick EXCEPT ![t].pc = "cancel", ![t].todo = Gone(t)]
    /\ UNCHANGED <<kind, live, forwarded, ready, cur, chan, call, faults>>

CancelNext(t) ==
    \E p \in tick[t].todo :
      /\ tick[t].pc = "cancel" /\ Idle(t)
      /\ tick' = [tick EXCEPT ![t].todo = @ \ {p}]
      /\ IF p \in forwarded THEN Ask(t, "del", p) ELSE UNCHANGED call
      /\ UNCHANGED <<kind, live, forwarded, ready, cur, chan, faults>>

CancelsDone(t) ==
    /\ tick[t].pc = "cancel" /\ tick[t].todo = {} /\ Idle(t)
    /\ tick' = [tick EXCEPT ![t] = IdleTick]
    /\ UNCHANGED <<kind, live, forwarded, ready, cur, chan, call, faults>>

-----------------------------------------------------------------------------
(* What a call returns *)

Answered(a) ==
    LET k == call[a] IN
    /\ k.op # None /\ call' = [call EXCEPT ![a] = NoCall]
    /\ UNCHANGED <<kind, live, ready, cur, tick>>

Holds(k) == k.port \in chan[k.chan].ports

\* forward: the port is declared and recorded.
Added(a) ==
    LET k == call[a] IN
    /\ Answered(a) /\ k.op = "add"
    /\ chan[k.chan].is = "up" \/ (kind # "ssh" /\ Holds(k))
    /\ chan' = [chan EXCEPT ![k.chan].ports = @ \cup {k.port}]
    /\ forwarded' = forwarded \cup {k.port}
    /\ UNCHANGED faults

NotAdded(a) ==
    LET k == call[a] IN
    /\ Answered(a) /\ k.op = "add"
    /\ IF chan[k.chan].is = "up" THEN Fault ELSE UNCHANGED faults
    /\ UNCHANGED <<chan, forwarded>>

\* cancel: withdrawn and forgotten; a relay client that does not hold it agrees.
Removed(a) ==
    LET k == call[a] IN
    /\ Answered(a) /\ k.op = "del"
    /\ chan[k.chan].is = "up" \/ (kind # "ssh" /\ ~Holds(k))
    /\ chan' = [chan EXCEPT ![k.chan].ports = @ \ {k.port}]
    /\ forwarded' = forwarded \ {k.port}
    /\ UNCHANGED faults

\* mutant: the record goes although the port is still declared
Forgotten(a) ==
    LET k == call[a] IN
    /\ Answered(a) /\ k.op = "del"
    /\ IF chan[k.chan].is = "up" THEN Fault ELSE UNCHANGED faults
    /\ forwarded' = forwarded \ {k.port}
    /\ UNCHANGED chan

\* It fails: over ssh the record goes all the same.
NotRemoved(a) ==
    LET k == call[a] IN
    /\ Answered(a) /\ k.op = "del"
    /\ IF chan[k.chan].is = "up" THEN Fault ELSE UNCHANGED faults
    /\ forwarded' = IF kind = "ssh" THEN forwarded \ {k.port} ELSE forwarded
    /\ UNCHANGED chan

-----------------------------------------------------------------------------
(* The channels *)

\* A relay client keeps what it declares; with the ssh master its forwards end.
Breaks ==
    /\ Up /\ Fault
    /\ chan' = [chan EXCEPT ![cur] = [is |-> "down", ports |-> IF kind = "ssh" THEN {} ELSE @.ports]]
    /\ UNCHANGED <<kind, live, forwarded, ready, cur, tick, call>>

\* mutant: a reconnected client declares its static port only
ReconnectsBare ==
    /\ chan[cur].is = "down" /\ kind # "ssh"
    /\ chan' = [chan EXCEPT ![cur] = [is |-> "up", ports |-> {Agent}]]
    /\ UNCHANGED <<kind, live, forwarded, ready, cur, tick, call, faults>>

Reconnects ==
    /\ chan[cur].is = "down" /\ kind # "ssh"
    /\ chan' = [chan EXCEPT ![cur].is = "up"]
    /\ UNCHANGED <<kind, live, forwarded, ready, cur, tick, call, faults>>

Spare == 3 - cur

\* The supervisor opens another channel, with the ports known now ...
Opens ==
    /\ kind = "failover" /\ chan[Spare].is = "closed" /\ Fault
    /\ chan' = [chan EXCEPT ![Spare] = [is |-> "opening", ports |-> forwarded \cup {Agent}]]
    /\ UNCHANGED <<kind, live, forwarded, ready, cur, tick, call>>

\* ... which comes up and replaces the present one, or does not.
Switches ==
    /\ chan[Spare].is = "opening"
    /\ chan' = [chan EXCEPT ![Spare].is = "up", ![cur] = [is |-> "closed", ports |-> {}]]
    /\ cur' = Spare
    /\ UNCHANGED <<kind, live, forwarded, ready, tick, call, faults>>

SwitchFails ==
    /\ chan[Spare].is = "opening"
    /\ chan' = [chan EXCEPT ![Spare] = [is |-> "closed", ports |-> {}]]
    /\ UNCHANGED <<kind, live, forwarded, ready, cur, tick, call, faults>>

-----------------------------------------------------------------------------
TickStep(t) ==
    Heal(t) \/ EnsureMaster(t) \/ MasterFails(t) \/ Reconcile(t) \/ AddNext(t)
    \/ AddsDone(t) \/ CancelNext(t) \/ CancelsDone(t)
Return(a) == Added(a) \/ NotAdded(a) \/ Removed(a) \/ NotRemoved(a)

Next ==
    \/ \E p \in Ports : Launch(p) \/ Stop(p) \/ Exit(p)
    \/ \E t \in Ticks : TickStep(t) \/ CheckFails(t)
    \/ \E a \in Actors : Return(a)
    \/ Breaks \/ Reconnects \/ Opens \/ Switches \/ SwitchFails

Spec == Init /\ [][Next]_vars

\* The timer, the timeouts of the calls and of open(), and the client's retries.
FairSpec ==
    /\ Spec
    /\ \A t \in Ticks : WF_vars(TickStep(t))
    /\ \A a \in Actors : WF_vars(Return(a))
    /\ WF_vars(Reconnects) /\ WF_vars(Switches \/ SwitchFails)

-----------------------------------------------------------------------------
(* Properties *)

\* Whenever the tunnel says it is ready, the agent itself is reachable: its port
\* is there again after a lost master, a failed check and a switch.
AgentServed == ready /\ Up => Agent \in chan[cur].ports

\* forward() trusts its record and asks nothing for a port in it: so on a channel
\* that is up every recorded port is declared.
RecordTrue == Up => forwarded \subseteq chan[cur].ports

\* So it is over one relay.
RecordTrueOnOneRelay == kind = "relay" => RecordTrue

\* The instances that stay live end up reachable and stay so, whatever a tick
\* with an old reading of them cancelled.
LiveServed ==
    \A p \in Ports : kind = "relay" /\ <>[](p \in live) => <>[](Up /\ p \in chan[cur].ports)

\* The ports of instances that are gone end up withdrawn from the relay, so that
\* the next instance on the port is not reachable under an old name.
GoneWithdrawn ==
    \A p \in Ports : kind = "relay" /\ <>[](p \notin live) => <>[](p \notin chan[cur].ports)
=============================================================================
