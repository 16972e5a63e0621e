--------------------------- MODULE LeasedCluster ---------------------------
(***************************************************************************)
(* One user's instance in cluster mode: the Managers that launch, stop,     *)
(* restart and migrate it (src/src/supervisor/leased-spawner.ts and         *)
(* remote-spawner.ts, the migrate route of src/src/web/routes/admin.ts),    *)
(* the requests they send, and the worker agents that execute them          *)
(* (src/src/worker/agent.ts).                                               *)
(*                                                                         *)
(* A database statement is one step here; InstanceLease has its three       *)
(* moments and its clocks, of which only "the lease is live" is left.  A    *)
(* request is executed at any time after it was sent, also after its sender *)
(* gave up: the agent runs execFileSync for seconds, and Fastify runs the   *)
(* handler of a connection that was closed in the meantime.  A request that *)
(* is never executed was lost.                                              *)
(***************************************************************************)
EXTENDS Naturals, FiniteSets

CONSTANTS
    Managers,       \* Manager processes
    Hosts,          \* worker hosts, each with one agent
    DefaultHost,    \* config.clusterHostId
    None,           \* no host
    Attempts,       \* tries of one call (four in the code)
    MaxOps,         \* bound: operations users and admins start
    Serial,         \* TRUE: a Manager starts an operation after the previous one
    Faults          \* what may go wrong, a subset of FaultKinds

FaultKinds == {"timeout",   \* calls time out and hosts are reported down
               "expiry",    \* leases run out
               "manager",   \* Manager processes restart
               "agent"}     \* worker agents restart

ASSUME ClusterAssumption ==
    /\ Managers # {} /\ DefaultHost \in Hosts /\ None \notin Hosts
    /\ Attempts \in Nat \ {0} /\ MaxOps \in Nat
    /\ Serial \in BOOLEAN /\ Faults \subseteq FaultKinds

OpIds == 1..MaxOps
HostOrNone == Hosts \cup {None}

\* A lease a Manager holds; epoch 0 is no lease.
NoLease == [epoch |-> 0, host |-> None]

VARIABLES
    row,        \* the dsh_instances row: [host, epoch, live]
    held,       \* InstanceLease.held of each Manager
    lost,       \* the Managers whose heartbeat found the lease lost, before /fence
    ops,        \* the operations, in the order they are started
    net,        \* the /launch and /stop requests not executed yet
    fences,     \* the /fence requests not executed yet
    agents      \* [inst, epoch, done, open] of each host: the process, epochs,
                \* the op cache, the /launch handlers not finished yet

vars == <<row, held, lost, ops, net, fences, agents>>

NoOp == [m |-> None, kind |-> "none", pc |-> "free", source |-> None,
         target |-> None, host |-> None, epoch |-> 0, try |-> 0, reply |-> "none"]

Kinds == {"launch", "stop", "restart", "migrate"}

TypeOK ==
    /\ row \in [host : HostOrNone, epoch : 0..MaxOps, live : BOOLEAN]
    /\ held \in [Managers -> [epoch : 0..MaxOps, host : HostOrNone]]
    /\ lost \subseteq Managers
    /\ ops \in [OpIds -> [m : Managers \cup {None}, kind : Kinds \cup {"none"},
                          pc : {"free", "stop", "stopping", "drop", "select", "claim",
                                "send", "launching", "giveback", "done"},
                          source : HostOrNone, target : HostOrNone, host : HostOrNone,
                          epoch : 0..MaxOps, try : 0..Attempts,
                          reply : {"none", "ok", "error"}]]
    /\ net \subseteq [op : OpIds, path : {"launch", "stop"}, try : 1..Attempts,
                      to : Hosts, epoch : 0..MaxOps]
    /\ fences \subseteq [to : Hosts, epoch : 1..(MaxOps + 1)]
    /\ agents \in [Hosts -> [inst : {"none", "running", "adopted"}, epoch : 0..MaxOps,
                             done : SUBSET (OpIds \X {"launch", "stop"}),
                             open : SUBSET (OpIds \X (1..Attempts))]]

Init ==
    /\ row = [host |-> None, epoch |-> 0, live |-> FALSE]
    /\ held = [m \in Managers |-> NoLease]
    /\ lost = {}
    /\ ops = [o \in OpIds |-> NoOp]
    /\ net = {}
    /\ fences = {}
    /\ agents = [h \in Hosts |-> [inst |-> "none", epoch |-> 0,
                                done |-> {}, open |-> {}]]

-----------------------------------------------------------------------------
Holds(m) == held[m].epoch # 0

Busy(o) == ops[o].pc \notin {"free", "done"}

Matches(m) == row.host = held[m].host /\ row.epoch = held[m].epoch

\* RemoteSpawner.hostFor without an explicit host: the owner, else the default.
OwnerOrDefault == IF row.host # None THEN row.host ELSE DefaultHost

\* Where LeasedSpawner.stop goes: the explicit host, else the one this Manager
\* claimed, else RemoteSpawner's choice.
StopTarget(o) ==
    LET op == ops[o] IN
    IF op.source # None THEN op.source
    ELSE IF Holds(op.m) THEN held[op.m].host
    ELSE OwnerOrDefault

\* RemoteSpawner.call: one more try, always with the same operationId.
Call(o, path, to, n) ==
    /\ ops' = [ops EXCEPT ![o].pc = IF path = "stop" THEN "stopping" ELSE "launching",
                          ![o].host = to, ![o].try = n, ![o].reply = "none"]
    /\ net' = net \cup {[op |-> o, path |-> path, try |-> n, to |-> to,
                         epoch |-> ops[o].epoch]}

PathOf(o) == IF ops[o].pc = "stopping" THEN "stop" ELSE "launch"

Goto(o, pc) == ops' = [ops EXCEPT ![o].pc = pc, ![o].reply = "none", ![o].try = 0]

\* InstanceLease.release: the lease ends, the host stays; nothing without a
\* held lease, and the record stays when the row is somebody else's.
Release(m) ==
    IF Holds(m) /\ Matches(m)
      THEN row' = [row EXCEPT !.live = FALSE] /\ held' = [held EXCEPT ![m] = NoLease]
      ELSE UNCHANGED <<row, held>>

-----------------------------------------------------------------------------
(* Operations, as the routes start them *)

CanStart(m, o) ==
    /\ ops[o].pc = "free"
    /\ \A p \in OpIds : p < o => ops[p].pc # "free"
    /\ Serial => \A p \in OpIds : ops[p].m = m => ~Busy(p)

StartLaunch(m, o) ==
    /\ CanStart(m, o)
    /\ ops' = [ops EXCEPT ![o] = [NoOp EXCEPT !.m = m, !.kind = "launch", !.pc = "select"]]
    /\ UNCHANGED <<row, held, lost, net, fences, agents>>

StartStop(m, o) ==
    /\ CanStart(m, o)
    /\ ops' = [ops EXCEPT ![o] = [NoOp EXCEPT !.m = m, !.kind = "stop", !.pc = "stop"]]
    /\ UNCHANGED <<row, held, lost, net, fences, agents>>

\* LeasedSpawner.restartMain: whoever holds the lease; nothing without a main.
StartRestart(m, o) ==
    /\ CanStart(m, o)
    /\ agents[OwnerOrDefault].inst = "running"
    /\ ops' = [ops EXCEPT ![o] = [NoOp EXCEPT !.m = m, !.kind = "restart", !.pc = "stop"]]
    /\ UNCHANGED <<row, held, lost, net, fences, agents>>

\* POST /api/admin/users/:id/dsh/migrate: the source is read once, here.
StartMigrate(m, o, target) ==
    /\ CanStart(m, o)
    /\ row.epoch > 0 /\ row.host # target
    /\ ops' = [ops EXCEPT ![o] = [NoOp EXCEPT !.m = m, !.kind = "migrate", !.pc = "stop",
                                              !.source = row.host, !.target = target]]
    /\ UNCHANGED <<row, held, lost, net, fences, agents>>

-----------------------------------------------------------------------------
(* Manager: stop, then release *)

SendStop(o) ==
    /\ ops[o].pc = "stop"
    /\ Call(o, "stop", StopTarget(o), 1)
    /\ UNCHANGED <<row, held, lost, fences, agents>>

Stopped(o) ==
    /\ ops[o].pc = "stopping" /\ ops[o].reply = "ok"
    /\ Goto(o, "drop")
    /\ UNCHANGED <<row, held, lost, net, fences, agents>>

ReleaseAfterStop(o) ==
    /\ ops[o].pc = "drop"
    /\ Release(ops[o].m)
    /\ Goto(o, IF ops[o].kind = "stop" THEN "done" ELSE "select")
    /\ UNCHANGED <<lost, net, fences, agents>>

-----------------------------------------------------------------------------
(* Manager: select a host, claim, launch there *)

\* Explicit target, else the owner while it is up, else any other host.
SelectHost(o, h) ==
    /\ ops[o].pc = "select"
    /\ IF ops[o].target # None THEN h = ops[o].target
       ELSE row.host \in {None, h} \/ "timeout" \in Faults
    /\ ops' = [ops EXCEPT ![o].pc = "claim", ![o].host = h]
    /\ UNCHANGED <<row, held, lost, net, fences, agents>>

\* LeaseBusyError when the row is taken, also by this Manager itself.
Claimable == row.host = None \/ ~row.live

Claim(o) ==
    LET op == ops[o]
        e == row.epoch + 1 IN
    /\ op.pc = "claim"
    /\ IF Claimable
         THEN /\ row' = [host |-> op.host, epoch |-> e, live |-> TRUE]
              /\ held' = [held EXCEPT ![op.m] = [epoch |-> e, host |-> op.host]]
              /\ ops' = [ops EXCEPT ![o].pc = "send", ![o].epoch = e]
         ELSE /\ Goto(o, "done")
              /\ UNCHANGED <<row, held>>
    /\ UNCHANGED <<lost, net, fences, agents>>

\* mutant: the launch goes to the default host instead of the claimed one
SendLaunchToDefault(o) ==
    /\ ops[o].pc = "send"
    /\ Call(o, "launch", DefaultHost, 1)
    /\ UNCHANGED <<row, held, lost, fences, agents>>

SendLaunch(o) ==
    /\ ops[o].pc = "send"
    /\ Call(o, "launch", ops[o].host, 1)
    /\ UNCHANGED <<row, held, lost, fences, agents>>

Launched(o) ==
    /\ ops[o].pc = "launching" /\ ops[o].reply = "ok"
    /\ Goto(o, "done")
    /\ UNCHANGED <<row, held, lost, net, fences, agents>>

\* A failed launch gives the lease back at once.
GiveBack(o) ==
    /\ ops[o].pc = "giveback"
    /\ Release(ops[o].m)
    /\ Goto(o, "done")
    /\ UNCHANGED <<lost, net, fences, agents>>

-----------------------------------------------------------------------------
(* Manager: failures of a call *)

\* The current try was answered with an error, or not in time.
TryFailed(o) ==
    /\ ops[o].pc \in {"stopping", "launching"}
    /\ ops[o].reply = "error" \/ "timeout" \in Faults

Retry(o) ==
    /\ TryFailed(o)
    /\ ops[o].try < Attempts
    /\ Call(o, PathOf(o), ops[o].host, ops[o].try + 1)
    /\ UNCHANGED <<row, held, lost, fences, agents>>

\* mutant: the tries start over
NeverGiveUp(o) ==
    /\ TryFailed(o)
    /\ ops[o].try = Attempts
    /\ Call(o, PathOf(o), ops[o].host, 1)
    /\ UNCHANGED <<row, held, lost, fences, agents>>

\* mutant: a stop that failed is taken for done
GiveUpOnStop(o) ==
    /\ TryFailed(o)
    /\ ops[o].try = Attempts
    /\ Goto(o, IF ops[o].pc = "stopping" THEN "drop" ELSE "giveback")
    /\ UNCHANGED <<row, held, lost, net, fences, agents>>

\* The last try failed: a stop throws before the release.
GiveUp(o) ==
    /\ TryFailed(o)
    /\ ops[o].try = Attempts
    /\ Goto(o, IF ops[o].pc = "stopping" THEN "done" ELSE "giveback")
    /\ UNCHANGED <<row, held, lost, net, fences, agents>>

\* No address for the host: the call throws before its first try.
NoRoute(o) ==
    /\ "timeout" \in Faults
    /\ ops[o].pc \in {"stop", "send"}
    /\ Goto(o, IF ops[o].pc = "stop" THEN "done" ELSE "giveback")
    /\ UNCHANGED <<row, held, lost, net, fences, agents>>

-----------------------------------------------------------------------------
(* Manager: heartbeat, restart; time *)

\* tick: renewAll.  A renewal makes a run-out lease live again.
Renew(m) ==
    /\ Holds(m)
    /\ IF Matches(m)
         THEN row' = [row EXCEPT !.live = TRUE] /\ UNCHANGED <<held, lost>>
         ELSE /\ held' = [held EXCEPT ![m] = NoLease]
              /\ lost' = lost \cup {m}
              /\ UNCHANGED row
    /\ UNCHANGED <<ops, net, fences, agents>>

\* tick: fenceOnAgent reads the row as it is now, owner and epoch.
FenceOnAgent(m) ==
    /\ m \in lost
    /\ lost' = lost \ {m}
    /\ fences' = fences \cup {[to |-> OwnerOrDefault, epoch |-> row.epoch + 1]}
    /\ UNCHANGED <<row, held, ops, net, agents>>

Expire ==
    /\ "expiry" \in Faults
    /\ row.live
    /\ row' = [row EXCEPT !.live = FALSE]
    /\ UNCHANGED <<held, lost, ops, net, fences, agents>>

RestartManager(m) ==
    /\ "manager" \in Faults
    /\ held' = [held EXCEPT ![m] = NoLease]
    /\ lost' = lost \ {m}
    /\ ops' = [o \in OpIds |-> IF ops[o].m = m /\ Busy(o)
                                 THEN [ops[o] EXCEPT !.pc = "done"] ELSE ops[o]]
    /\ UNCHANGED <<row, net, fences, agents>>

-----------------------------------------------------------------------------
(* Worker agent *)

\* The answer reaches the Manager if it still waits for this try.
Answer(r, reply) ==
    LET op == ops[r.op] IN
    ops' = IF op.pc \in {"stopping", "launching"} /\ PathOf(r.op) = r.path /\ op.try = r.try
             THEN [ops EXCEPT ![r.op].reply = reply] ELSE ops

Cached(r) == <<r.op, r.path>> \in agents[r.to].done
Remembered(r) == agents[r.to].done \cup {<<r.op, r.path>>}

Replay(r) ==
    /\ r \in net
    /\ Cached(r)
    /\ Answer(r, "ok")
    /\ net' = net \ {r}
    /\ UNCHANGED <<row, held, lost, fences, agents>>

\* POST /launch takes the epoch over before anything else.  A running main is
\* the answer as it is ...
AgentHasMain(r) ==
    /\ r \in net /\ r.path = "launch"
    /\ ~Cached(r)
    /\ agents[r.to].inst = "running"
    /\ agents' = [agents EXCEPT ![r.to].epoch = r.epoch, ![r.to].done = Remembered(r)]
    /\ Answer(r, "ok")
    /\ net' = net \ {r}
    /\ UNCHANGED <<row, held, lost, fences>>

\* ... otherwise one is spawned, in place of an adopted process, and the handler
\* waits for its launch token ...
AgentLaunch(r) ==
    /\ r \in net /\ r.path = "launch"
    /\ ~Cached(r)
    /\ agents[r.to].inst # "running"
    /\ agents' = [agents EXCEPT ![r.to].inst = "running", ![r.to].epoch = r.epoch,
                                ![r.to].open = @ \cup {<<r.op, r.try>>}]
    /\ net' = net \ {r}
    /\ UNCHANGED <<row, held, lost, ops, fences>>

\* ... and only then remembers the operation and answers, whatever became of
\* the process.
AgentLaunched(h, o, n) ==
    /\ <<o, n>> \in agents[h].open
    /\ agents' = [agents EXCEPT ![h].open = @ \ {<<o, n>>},
                                ![h].done = @ \cup {<<o, "launch">>}]
    /\ Answer([op |-> o, path |-> "launch", try |-> n], "ok")
    /\ UNCHANGED <<row, held, lost, net, fences>>

\* The account cannot be provisioned or the spawn fails: nothing is remembered.
AgentLaunchFails(r) ==
    /\ r \in net /\ r.path = "launch"
    /\ ~Cached(r)
    /\ agents' = [agents EXCEPT ![r.to].epoch = r.epoch]
    /\ Answer(r, "error")
    /\ net' = net \ {r}
    /\ UNCHANGED <<row, held, lost, fences>>

AfterStopNothing(inst) == inst      \* mutant: the process survives the stop

\* LocalSpawner.stop knows the mains it launched, not the adopted processes.
AfterStop(inst) == IF inst = "running" THEN "none" ELSE inst

AgentStop(r) ==
    /\ r \in net /\ r.path = "stop"
    /\ ~Cached(r)
    /\ agents' = [agents EXCEPT ![r.to].inst = AfterStop(@), ![r.to].epoch = 0,
                                ![r.to].done = Remembered(r)]
    /\ Answer(r, "ok")
    /\ net' = net \ {r}
    /\ UNCHANGED <<row, held, lost, fences>>

\* POST /fence: only a recorded epoch below the request's is stopped.
Outdated(f) == agents[f.to].epoch \in 1..(f.epoch - 1)

AgentFence(f) ==
    /\ f \in fences
    /\ fences' = fences \ {f}
    /\ agents' = IF Outdated(f)
                   THEN [agents EXCEPT ![f.to].inst = AfterStop(@), ![f.to].epoch = 0]
                   ELSE agents
    /\ UNCHANGED <<row, held, lost, ops, net>>

\* The process ends for good: a crash loop opened the breaker, an idle
\* instance was reaped, an adopted one died.
InstanceEnds(h) ==
    /\ agents[h].inst # "none"
    /\ agents' = [agents EXCEPT ![h].inst = "none"]
    /\ UNCHANGED <<row, held, lost, ops, net, fences>>

\* teardown stops no instance; the next agent process adopts it.
RestartAgent(h) ==
    /\ "agent" \in Faults
    /\ agents' = [agents EXCEPT ![h] = [inst |-> IF @.inst = "none" THEN "none" ELSE "adopted",
                                        epoch |-> 0, done |-> {}, open |-> {}]]
    /\ UNCHANGED <<row, held, lost, ops, net, fences>>

-----------------------------------------------------------------------------
Start(m) ==
    \E o \in OpIds :
        \/ StartLaunch(m, o)
        \/ StartStop(m, o)
        \/ StartRestart(m, o)
        \/ \E h \in Hosts : StartMigrate(m, o, h)

OpStep(o) ==
    \/ SendStop(o)
    \/ Stopped(o)
    \/ ReleaseAfterStop(o)
    \/ \E h \in Hosts : SelectHost(o, h)
    \/ Claim(o)
    \/ SendLaunch(o)
    \/ Launched(o)
    \/ GiveBack(o)
    \/ Retry(o)
    \/ GiveUp(o)
    \/ NoRoute(o)

Heartbeat(m) == Renew(m) \/ FenceOnAgent(m)

Execute(r) ==
    \/ Replay(r)
    \/ AgentHasMain(r)
    \/ AgentLaunch(r)
    \/ AgentLaunchFails(r)
    \/ AgentStop(r)

Finish(h) == \E o \in OpIds, n \in 1..Attempts : AgentLaunched(h, o, n)

Next ==
    \/ \E m \in Managers : Start(m) \/ Heartbeat(m) \/ RestartManager(m)
    \/ \E o \in OpIds : OpStep(o)
    \/ Expire
    \/ \E r \in net : Execute(r)
    \/ \E f \in fences : AgentFence(f)
    \/ \E h \in Hosts : Finish(h) \/ InstanceEnds(h) \/ RestartAgent(h)

Spec == Init /\ [][Next]_vars

\* The Managers go on with what they started and the agents finish their
\* handlers; nothing else has to happen, no request has to arrive.
FairSpec == Spec /\ \A o \in OpIds : WF_vars(OpStep(o))

-----------------------------------------------------------------------------
(* Properties *)

HasProcess(h) == agents[h].inst # "none"

\* lease.ts: a user has one live instance at a time, in the whole cluster.
SingleWriter == \A g, h \in Hosts : HasProcess(g) /\ HasProcess(h) => g = h

\* Who may claim the row without waiting finds no process on any host: a stop
\* comes before the release, a failed launch gives back what did not start.
FreeMeansStopped == Claimable => \A h \in Hosts : ~HasProcess(h)

\* Without expiry nobody loses a lease, so no heartbeat ever fences.
NobodyIsFenced == lost = {} /\ \A m \in Managers : Holds(m) => Matches(m)

\* With answers and leases in time the cluster has one writer (leased-spawner.ts:
\* launch, stop; admin.ts: restart, migrate): one process of the user on all hosts,
\* none where the row may be claimed at once, and no heartbeat that fences.
OrderlySafe == TypeOK /\ SingleWriter /\ FreeMeansStopped /\ NobodyIsFenced

\* A fencing token belongs to one host: the requests with it go to the host of
\* the claim, and two agents never record the same one, so that renewing,
\* releasing and fencing by epoch concern the host where the process is.
TokenNamesHost ==
    /\ \A r \in net : r.path = "launch" /\ r.epoch = row.epoch => r.to = row.host
    /\ \A h \in Hosts : agents[h].epoch # 0 /\ agents[h].epoch = row.epoch => h = row.host
    /\ \A g, h \in Hosts : agents[g].epoch = agents[h].epoch /\ agents[g].epoch # 0 => g = h

\* Restart and migration go on to their launch only after an agent executed
\* their stop, however many tries it took (admin.ts: "the order cannot change").
StopBeforeLaunch ==
    \A o \in OpIds :
        ops[o].kind \in {"restart", "migrate"}
            /\ ops[o].pc \in {"drop", "select", "claim", "send", "launching", "giveback"} =>
        \E h \in Hosts : <<o, "stop">> \in agents[h].done

\* Every operation ends, with a lost answer at every try and agents restarting.
OperationsEnd == \A o \in OpIds : []<>~Busy(o)
=============================================================================
