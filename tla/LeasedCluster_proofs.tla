------------------------ MODULE LeasedCluster_proofs ------------------------
(***************************************************************************)
(* Proofs about LeasedCluster, for any Managers, hosts, tries and bounds:   *)
(* whatever goes wrong a fencing token belongs to one host; while no agent  *)
(* restarts nothing is launched anew before its stop was executed; and when *)
(* nothing goes wrong and every Manager works one operation at a time the   *)
(* user has one process in the cluster.                                     *)
(***************************************************************************)
EXTENDS LeasedCluster, FiniteSetTheorems, TLAPS

\* Until the claim is answered an operation has no token, and from then until
\* it is done it has one.
Unclaimed == {"free", "stop", "stopping", "drop", "select", "claim"}
Claimed == {"send", "launching", "giveback"}

Tokened == {o \in OpIds : ops[o].epoch # 0}

\* The row counts the claims that were granted.
Counted == row.epoch = Cardinality(Tokened)

TokenPhase == \A o \in OpIds :
  /\ ops[o].pc \in Unclaimed => ops[o].epoch = 0
  /\ ops[o].pc \in Claimed => ops[o].epoch # 0
  /\ ops[o].epoch <= row.epoch

TokenOnce == \A o, p \in OpIds : ops[o].epoch = ops[p].epoch /\ ops[o].epoch # 0 => o = p

\* The token e was granted for the host h.
GrantedFor(e, h) == \E o \in OpIds : ops[o].epoch = e /\ ops[o].host = h

RowGranted == row.epoch # 0 => GrantedFor(row.epoch, row.host)

NetGranted == \A r \in net : r.path = "launch" =>
  r.epoch # 0 /\ ops[r.op].epoch = r.epoch /\ ops[r.op].host = r.to

AgentsGranted == \A h \in Hosts : agents[h].epoch # 0 => GrantedFor(agents[h].epoch, h)

TokenHosts == TokenPhase /\ TokenOnce /\ RowGranted /\ NetGranted /\ AgentsGranted

\* Operations have their Manager, leases their host, and calls go somewhere.
Owners == \A o \in OpIds : ops[o].pc # "free" => ops[o].m \in Managers

HeldNamed == \A m \in Managers : Holds(m) => held[m].host \in Hosts

HostChosen == \A o \in OpIds :
  ops[o].pc \in {"stopping", "claim", "send", "launching"} => ops[o].host \in Hosts

Named == Owners /\ HeldNamed /\ HostChosen

CInv == TypeOK /\ Named /\ Counted /\ TokenHosts

-----------------------------------------------------------------------------
(* Without agent restarts: what follows a stop *)

AfterStopPc == {"drop", "select", "claim", "send", "launching", "giveback"}

StopExecuted(o) == \E h \in Hosts : <<o, "stop">> \in agents[h].done

StopsExecuted == \A o \in OpIds :
  /\ ops[o].pc = "stopping" /\ ops[o].reply = "ok" => StopExecuted(o)
  /\ ops[o].kind \in {"restart", "migrate"} /\ ops[o].pc \in AfterStopPc => StopExecuted(o)

-----------------------------------------------------------------------------
(* Without faults, one operation of each Manager at a time *)

OneAtATime == \A o, p \in OpIds : Busy(o) /\ Busy(p) /\ ops[o].m = ops[p].m => o = p

\* A lease that is held is the row's, runs, and is held once.
HeldRuns == /\ lost = {} /\ fences = {}
            /\ \A m \in Managers : Holds(m) => row.live /\ Matches(m)
            /\ \A m, n \in Managers : Holds(m) /\ Holds(n) => m = n

\* A launch that was granted the row still holds it, for the host it launches on.
LaunchHolds == \A o \in OpIds : ops[o].pc \in Claimed =>
  ops[o].m \in Managers /\ Holds(ops[o].m) /\ ops[o].host = row.host

\* A request is the one its operation waits for, and no agent knows its answer.
NetAwaited == \A r \in net :
  /\ ops[r.op].pc \in {"stopping", "launching"} /\ PathOf(r.op) = r.path
  /\ ops[r.op].try = r.try /\ ops[r.op].reply = "none" /\ ops[r.op].host = r.to
  /\ ops[r.op].epoch = r.epoch
  /\ \A h \in Hosts : <<r.op, r.path>> \notin agents[h].done
                      /\ (r.path = "launch" => <<r.op, r.try>> \notin agents[h].open)

\* An unfinished /launch handler is the try its operation waits for.
OpenAwaited == \A h \in Hosts, o \in OpIds, n \in 1..Attempts : <<o, n>> \in agents[h].open =>
  ops[o].pc = "launching" /\ ops[o].try = n /\ ops[o].reply = "none" /\ ops[o].host = h

\* What an agent remembers was answered.
DoneAnswered == \A h \in Hosts, o \in OpIds :
  /\ <<o, "stop">> \in agents[h].done =>
       ops[o].pc \notin {"free", "stop"} /\ (ops[o].pc = "stopping" => ops[o].reply = "ok")
  /\ <<o, "launch">> \in agents[h].done =>
       ops[o].pc = "done" \/ (ops[o].pc = "launching" /\ ops[o].reply = "ok")

\* A process runs where the row says, under its lease, and none was adopted.
ProcessOwned == \A h \in Hosts :
  agents[h].inst # "adopted" /\ (HasProcess(h) => row.live /\ row.host = h)

NoProcess == \A h \in Hosts : ~HasProcess(h)

\* The launch o was granted the row and no try of it has started a process.
Unstarted(o) ==
  \/ ops[o].pc \in {"send", "giveback"}
  \/ ops[o].pc = "launching" /\ ops[o].reply = "error"
  \/ ops[o].pc = "launching" /\ ops[o].reply = "none"
     /\ \A h \in Hosts : <<o, ops[o].try>> \notin agents[h].open

LaunchStarts == \A o \in OpIds : Unstarted(o) => NoProcess

\* The stop of the Manager that holds the lease goes to the row's host, and
\* leaves no process behind before the lease is given up.
HolderStops == \A o \in OpIds : ops[o].m \in Managers /\ Holds(ops[o].m) =>
  /\ ops[o].pc = "stop" => ops[o].source \in {None, row.host}
  /\ ops[o].pc = "stopping" => ops[o].host = row.host
  /\ ops[o].pc = "stopping" /\ ops[o].reply = "ok" => NoProcess
  /\ ops[o].pc = "drop" => NoProcess

OInv == OneAtATime /\ HeldRuns /\ LaunchHolds /\ NetAwaited /\ OpenAwaited
        /\ DoneAnswered /\ ProcessOwned /\ LaunchStarts /\ HolderStops

-----------------------------------------------------------------------------
(* Reading a step *)

\* The records of operations.
OpRecords == [m : Managers \cup {None}, kind : Kinds \cup {"none"},
              pc : {"free", "stop", "stopping", "drop", "select", "claim",
                    "send", "launching", "giveback", "done"},
              source : HostOrNone, target : HostOrNone, host : HostOrNone,
              epoch : 0..MaxOps, try : 0..Attempts, reply : {"none", "ok", "error"}]

\* The fields of an operation.
LEMMA OpType ==
  ASSUME TypeOK, NEW o \in OpIds
  PROVE  /\ ops[o].m \in Managers \cup {None} /\ ops[o].kind \in Kinds \cup {"none"}
         /\ ops[o].pc \in Unclaimed \cup Claimed \cup {"done"}
         /\ ops[o].source \in HostOrNone /\ ops[o].target \in HostOrNone
         /\ ops[o].host \in HostOrNone /\ ops[o].epoch \in 0..MaxOps
         /\ ops[o].try \in 0..Attempts /\ ops[o].reply \in {"none", "ok", "error"}
         /\ ops[o] \in OpRecords
  BY DEF TypeOK, Unclaimed, Claimed, OpRecords

\* The fields of a request.
LEMMA NetType ==
  ASSUME TypeOK, NEW r \in net
  PROVE  /\ r.op \in OpIds /\ r.path \in {"launch", "stop"} /\ r.try \in 1..Attempts
         /\ r.to \in Hosts /\ r.epoch \in 0..MaxOps
         /\ r = [op |-> r.op, path |-> r.path, try |-> r.try, to |-> r.to, epoch |-> r.epoch]
  BY DEF TypeOK

\* What is kept of an operation that goes on.
SameOperation(v, o) ==
  /\ v.m = ops[o].m /\ v.kind = ops[o].kind /\ v.source = ops[o].source
  /\ v.target = ops[o].target

\* An operation that is written, and no other.
LEMMA WriteStep ==
  ASSUME TypeOK, NEW o \in OpIds, NEW v \in OpRecords, ops' = [ops EXCEPT ![o] = v]
  PROVE  /\ ops' \in [OpIds -> OpRecords] /\ ops'[o] = v
         /\ \A p \in OpIds : p # o => ops'[p] = ops[p]
<1>1. ops \in [OpIds -> OpRecords]
  BY DEF TypeOK, OpRecords
<1>2. QED  BY <1>1

\* An answer reaches the operation that waits for it, or nobody.
LEMMA AnswerStep ==
  ASSUME TypeOK, NEW r, r.op \in OpIds, NEW reply \in {"ok", "error"}, Answer(r, reply)
  PROVE  /\ ops' \in [OpIds -> OpRecords]
         /\ \A o \in OpIds :
              \/ ops'[o] = ops[o]
              \/ /\ o = r.op /\ ops[o].pc \in {"stopping", "launching"}
                 /\ PathOf(o) = r.path /\ ops[o].try = r.try
                 /\ SameOperation(ops'[o], o)
                 /\ ops'[o].pc = ops[o].pc /\ ops'[o].host = ops[o].host
                 /\ ops'[o].epoch = ops[o].epoch /\ ops'[o].try = ops[o].try
                 /\ ops'[o].reply = reply
<1>1. CASE ops' = ops
  BY <1>1 DEF TypeOK, OpRecords
<1>2. CASE ops' # ops
  <2> DEFINE v == [ops[r.op] EXCEPT !.reply = reply]
  <2>1. /\ ops' = [ops EXCEPT ![r.op] = v]
        /\ ops[r.op].pc \in {"stopping", "launching"} /\ PathOf(r.op) = r.path
        /\ ops[r.op].try = r.try
    BY <1>2 DEF Answer
  <2>2. /\ v \in OpRecords /\ SameOperation(v, r.op) /\ v.pc = ops[r.op].pc
        /\ v.host = ops[r.op].host /\ v.epoch = ops[r.op].epoch /\ v.try = ops[r.op].try
        /\ v.reply = reply
    BY OpType DEF OpRecords, SameOperation
  <2> HIDE DEF v
  <2>3. QED  BY <2>1, <2>2, WriteStep
<1>3. QED  BY <1>1, <1>2

\* What a call writes: its operation waits for the new try.
LEMMA CallStep ==
  ASSUME ClusterAssumption, TypeOK, NEW o \in OpIds, NEW path \in {"launch", "stop"},
         NEW to \in Hosts, NEW n \in 1..Attempts, Call(o, path, to, n)
  PROVE  /\ ops' \in [OpIds -> OpRecords]
         /\ \A p \in OpIds : p # o => ops'[p] = ops[p]
         /\ SameOperation(ops'[o], o) /\ ops'[o].epoch = ops[o].epoch
         /\ ops'[o].pc = (IF path = "stop" THEN "stopping" ELSE "launching")
         /\ ops'[o].host = to /\ ops'[o].try = n /\ ops'[o].reply = "none"
<1> DEFINE w == [ops[o] EXCEPT !.pc = IF path = "stop" THEN "stopping" ELSE "launching",
                               !.host = to]
           v == [w EXCEPT !.try = n, !.reply = "none"]
<1>1. ops[o] \in OpRecords /\ to \in HostOrNone
  BY OpType DEF HostOrNone
<1>2. /\ w \in OpRecords /\ SameOperation(w, o) /\ w.epoch = ops[o].epoch /\ w.host = to
      /\ w.pc = (IF path = "stop" THEN "stopping" ELSE "launching")
  BY <1>1 DEF OpRecords, SameOperation
<1>3. ops' = [ops EXCEPT ![o] = v]
  BY DEF Call
<1> HIDE DEF w
<1>4. n \in 0..Attempts
  BY DEF ClusterAssumption
<1>5. /\ v \in OpRecords /\ SameOperation(v, o) /\ v.epoch = w.epoch /\ v.host = w.host
      /\ v.pc = w.pc /\ v.try = n /\ v.reply = "none"
  BY <1>2, <1>4 DEF OpRecords, SameOperation
<1> HIDE DEF v
<1>6. QED  BY <1>2, <1>3, <1>5, WriteStep

\* An operation that goes on to pc.
LEMMA GotoStep ==
  ASSUME ClusterAssumption, TypeOK, NEW o \in OpIds,
         NEW pc \in Unclaimed \cup Claimed \cup {"done"}, Goto(o, pc)
  PROVE  /\ ops' \in [OpIds -> OpRecords]
         /\ \A p \in OpIds : p # o => ops'[p] = ops[p]
         /\ SameOperation(ops'[o], o) /\ ops'[o].epoch = ops[o].epoch
         /\ ops'[o].host = ops[o].host /\ ops'[o].pc = pc
         /\ ops'[o].try = 0 /\ ops'[o].reply = "none"
<1> DEFINE w == [ops[o] EXCEPT !.pc = pc, !.reply = "none"]
           v == [w EXCEPT !.try = 0]
<1>1. ops[o] \in OpRecords
  BY OpType
<1>2. /\ w \in OpRecords /\ SameOperation(w, o) /\ w.epoch = ops[o].epoch
      /\ w.host = ops[o].host /\ w.pc = pc /\ w.reply = "none"
  BY <1>1 DEF OpRecords, SameOperation, Unclaimed, Claimed
<1>3. ops' = [ops EXCEPT ![o] = v]
  BY DEF Goto
<1> HIDE DEF w
<1>4. 0 \in 0..Attempts
  BY DEF ClusterAssumption
<1>5. /\ v \in OpRecords /\ SameOperation(v, o) /\ v.epoch = w.epoch /\ v.host = w.host
      /\ v.pc = w.pc /\ v.reply = w.reply /\ v.try = 0
  BY <1>2, <1>4 DEF OpRecords, SameOperation
<1> HIDE DEF v
<1>6. QED  BY <1>2, <1>3, <1>5, WriteStep

\* An operation that starts.
LEMMA StartStep ==
  ASSUME ClusterAssumption, TypeOK, NEW m \in Managers, Start(m)
  PROVE  \E o \in OpIds :
         /\ CanStart(m, o) /\ ops' \in [OpIds -> OpRecords]
         /\ \A p \in OpIds : p # o => ops'[p] = ops[p]
         /\ ops'[o].m = m /\ ops'[o].pc \in {"select", "stop"} /\ ops'[o].epoch = 0
         /\ ops'[o].pc = "select" => ops'[o].kind = "launch"
         /\ ops'[o].source \in {None, row.host} /\ ops'[o].reply = "none"
         /\ UNCHANGED <<row, held, lost, net, fences, agents>>
<1> DEFINE new(kind, pc) == [NoOp EXCEPT !.m = m, !.kind = kind, !.pc = pc]
           moved(w, h) == [w EXCEPT !.source = row.host, !.target = h]
<1>1. \A kind \in Kinds, pc \in {"select", "stop"} :
        /\ new(kind, pc) \in OpRecords /\ new(kind, pc).m = m /\ new(kind, pc).pc = pc
        /\ new(kind, pc).epoch = 0 /\ new(kind, pc).kind = kind
        /\ new(kind, pc).source = None /\ new(kind, pc).reply = "none"
  <2> DEFINE mine == [NoOp EXCEPT !.m = m]
  <2>1. /\ mine \in OpRecords /\ mine.m = m /\ mine.epoch = 0
        /\ mine.source = None /\ mine.reply = "none"
    BY DEF NoOp, OpRecords, ClusterAssumption, HostOrNone
  <2>2. \A kind, pc : new(kind, pc) = [mine EXCEPT !.kind = kind, !.pc = pc]
    OBVIOUS
  <2> HIDE DEF mine, new
  <2>3. QED  BY <2>1, <2>2 DEF OpRecords
<1>2. PICK o \in OpIds :
        StartLaunch(m, o) \/ StartStop(m, o) \/ StartRestart(m, o)
        \/ \E h \in Hosts : StartMigrate(m, o, h)
  BY DEF Start
<1> HIDE DEF new
<1>3. ASSUME NEW h \in Hosts
      PROVE  LET w == new("migrate", "stop")  v == moved(w, h) IN
             /\ v \in OpRecords /\ v.m = w.m /\ v.pc = w.pc /\ v.epoch = w.epoch
             /\ v.kind = w.kind /\ v.source = row.host /\ v.reply = w.reply
  <2>1. new("migrate", "stop") \in OpRecords /\ row.host \in HostOrNone /\ h \in HostOrNone
    BY <1>1 DEF TypeOK, Kinds, HostOrNone
  <2>2. QED  BY <2>1 DEF OpRecords
<1> HIDE DEF moved
<1>4. \E v \in OpRecords :
        /\ CanStart(m, o) /\ ops' = [ops EXCEPT ![o] = v]
        /\ v.m = m /\ v.pc \in {"select", "stop"} /\ v.epoch = 0
        /\ v.pc = "select" => v.kind = "launch"
        /\ v.source \in {None, row.host} /\ v.reply = "none"
        /\ UNCHANGED <<row, held, lost, net, fences, agents>>
  <2>1. CASE StartLaunch(m, o)
    <3>1. ops' = [ops EXCEPT ![o] = new("launch", "select")]
      BY <2>1 DEF StartLaunch, new
    <3>2. QED  BY <1>1, <2>1, <3>1 DEF StartLaunch, Kinds
  <2>2. CASE StartStop(m, o)
    <3>1. ops' = [ops EXCEPT ![o] = new("stop", "stop")]
      BY <2>2 DEF StartStop, new
    <3>2. QED  BY <1>1, <2>2, <3>1 DEF StartStop, Kinds
  <2>3. CASE StartRestart(m, o)
    <3>1. ops' = [ops EXCEPT ![o] = new("restart", "stop")]
      BY <2>3 DEF StartRestart, new
    <3>2. QED  BY <1>1, <2>3, <3>1 DEF StartRestart, Kinds
  <2>4. ASSUME NEW h \in Hosts, StartMigrate(m, o, h)
        PROVE  \E v \in OpRecords :
          /\ CanStart(m, o) /\ ops' = [ops EXCEPT ![o] = v]
          /\ v.m = m /\ v.pc \in {"select", "stop"} /\ v.epoch = 0
          /\ v.pc = "select" => v.kind = "launch"
          /\ v.source \in {None, row.host} /\ v.reply = "none"
          /\ UNCHANGED <<row, held, lost, net, fences, agents>>
    <3>1. ops' = [ops EXCEPT ![o] = moved(new("migrate", "stop"), h)]
      BY <2>4 DEF StartMigrate, new, moved
    <3> DEFINE w == new("migrate", "stop")
               v == moved(w, h)
    <3>2. w.m = m /\ w.pc = "stop" /\ w.epoch = 0 /\ w.reply = "none"
      BY <1>1 DEF Kinds
    <3>3. /\ v \in OpRecords /\ v.m = w.m /\ v.pc = w.pc /\ v.epoch = w.epoch
          /\ v.source = row.host /\ v.reply = w.reply
      BY <1>3
    <3>4. ops' = [ops EXCEPT ![o] = v]
      BY <3>1
    <3> HIDE DEF v, w
    <3>5. CanStart(m, o) /\ UNCHANGED <<row, held, lost, net, fences, agents>>
      BY <2>4 DEF StartMigrate
    <3>6. QED  BY <3>2, <3>3, <3>4, <3>5
  <2>5. QED  BY <1>2, <2>1, <2>2, <2>3, <2>4
<1>5. QED  BY <1>4, WriteStep DEF CanStart

-----------------------------------------------------------------------------
(* Types *)

\* A claim leaves room for one more: the row has counted every claim so far.
LEMMA RoomForClaim ==
  ASSUME ClusterAssumption, CInv, NEW o \in OpIds, ops[o].epoch = 0
  PROVE  row.epoch < MaxOps
<1>1. MaxOps \in Nat
  BY DEF ClusterAssumption
<1>2. IsFiniteSet(OpIds) /\ Cardinality(OpIds) = MaxOps
  <2>1. IsFiniteSet(1..MaxOps) /\ Cardinality(1..MaxOps) = IF 1 > MaxOps THEN 0 ELSE MaxOps - 1 + 1
    BY <1>1, FS_Interval
  <2>2. QED  BY <1>1, <2>1 DEF OpIds
<1>3. Tokened \subseteq OpIds /\ o \notin Tokened
  BY DEF Tokened
<1>4. IsFiniteSet(Tokened) /\ Cardinality(Tokened) <= MaxOps
      /\ (MaxOps = Cardinality(Tokened) => OpIds = Tokened)
  BY <1>2, <1>3, FS_Subset
<1>5. Cardinality(Tokened) # MaxOps
  BY <1>3, <1>4
<1>6. Cardinality(Tokened) \in Nat
  BY <1>4, FS_CardinalityType
<1>7. QED  BY <1>1, <1>4, <1>5, <1>6 DEF CInv, Counted

\* The other fields, where the operations keep theirs.
RestTypes ==
  /\ row \in [host : HostOrNone, epoch : 0..MaxOps, live : BOOLEAN]
  /\ held \in [Managers -> [epoch : 0..MaxOps, host : HostOrNone]]
  /\ lost \subseteq Managers
  /\ net \subseteq [op : OpIds, path : {"launch", "stop"}, try : 1..Attempts,
                    to : Hosts, epoch : 0..MaxOps]
  /\ fences \subseteq [to : Hosts, epoch : 1..(MaxOps + 1)]
  /\ agents \in [Hosts -> [inst : {"none", "running", "adopted"}, epoch : 0..MaxOps,
                           done : SUBSET (OpIds \X {"launch", "stop"}),
                           open : SUBSET (OpIds \X (1..Attempts))]]

LEMMA TypeParts == TypeOK <=> RestTypes /\ ops \in [OpIds -> OpRecords]
  BY DEF TypeOK, RestTypes, OpRecords

LEMMA TypePartsNext == TypeOK' <=> RestTypes' /\ ops' \in [OpIds -> OpRecords]
  BY DEF TypeOK, RestTypes, OpRecords

\* A stop goes to a host.
LEMMA StopGoesToHost ==
  ASSUME ClusterAssumption, CInv, NEW o \in OpIds, SendStop(o)
  PROVE  StopTarget(o) \in Hosts
<1>1. ops[o].m \in Managers
  BY DEF SendStop, CInv, Named, Owners
<1>2. ops[o].source \in HostOrNone /\ row.host \in HostOrNone
  BY OpType DEF CInv, TypeOK
<1>3. QED
  BY <1>1, <1>2 DEF StopTarget, OwnerOrDefault, HostOrNone, CInv, Named, HeldNamed,
                    ClusterAssumption

\* The steps of an operation keep the types.
LEMMA OpTypes ==
  ASSUME ClusterAssumption, CInv, NEW o \in OpIds, OpStep(o)
  PROVE  TypeOK' /\ Named'
<1> USE DEF CInv, HostOrNone, Named, Owners, HeldNamed, HostChosen, Holds
<1> DEFINE m == ops[o].m
           Kept == ops' \in [OpIds -> OpRecords] /\ \A p \in OpIds : p # o => ops'[p] = ops[p]
<1>0. RestTypes /\ ops \in [OpIds -> OpRecords]
  BY TypeParts
<1>1. ops[o].pc # "free" => m \in Managers
  OBVIOUS
<1>2. ASSUME NEW path \in {"launch", "stop"}, NEW to \in Hosts, NEW n \in 1..Attempts,
             Call(o, path, to, n), ops[o].pc # "free", UNCHANGED <<row, held, lost, fences, agents>>
      PROVE  TypeOK' /\ Named'
  <2>0. net' = net \cup {[op |-> o, path |-> path, try |-> n, to |-> to, epoch |-> ops[o].epoch]}
    BY <1>2 DEF Call
  <2>1. Kept /\ ops'[o].m = m /\ ops'[o].host = to
    BY <1>2, CallStep DEF SameOperation
  <2>2. RestTypes'
    BY <1>0, <1>2, <2>0, OpType DEF RestTypes
  <2>3. Named'
    BY <1>1, <1>2, <2>1
  <2>4. QED  BY <2>1, <2>2, <2>3, TypePartsNext
<1>3. ASSUME NEW pc \in Unclaimed \cup Claimed \cup {"done"}, Goto(o, pc), ops[o].pc # "free",
             pc \in {"claim", "send", "launching", "stopping"} => ops[o].host \in Hosts,
             RestTypes', HeldNamed'
      PROVE  TypeOK' /\ Named'
  <2>1. Kept /\ ops'[o].m = m /\ ops'[o].host = ops[o].host /\ ops'[o].pc = pc
    BY <1>3, GotoStep DEF SameOperation
  <2>2. Owners' /\ HostChosen'
    BY <1>1, <1>3, <2>1
  <2>3. QED  BY <1>3, <2>1, <2>2, TypePartsNext
<1>4. ASSUME Release(m), m \in Managers, UNCHANGED <<lost, net, fences, agents>>
      PROVE  RestTypes' /\ HeldNamed'
  <2>1. /\ row' = row \/ row' = [row EXCEPT !.live = FALSE]
        /\ held' = held \/ held' = [held EXCEPT ![m] = NoLease]
    BY <1>4 DEF Release
  <2>2. row' \in [host : HostOrNone, epoch : 0..MaxOps, live : BOOLEAN]
    BY <1>0, <2>1 DEF RestTypes
  <2>3. NoLease \in [epoch : 0..MaxOps, host : HostOrNone] /\ NoLease.epoch = 0
    BY DEF NoLease, ClusterAssumption
  <2>4. held' \in [Managers -> [epoch : 0..MaxOps, host : HostOrNone]] /\ HeldNamed'
    BY <1>0, <1>4, <2>1, <2>3 DEF RestTypes
  <2>5. QED  BY <1>0, <1>4, <2>2, <2>4 DEF RestTypes
<1>5. ASSUME UNCHANGED <<row, held, lost, net, fences, agents>>
      PROVE  RestTypes' /\ HeldNamed'
  BY <1>0, <1>5 DEF RestTypes
<1> USE DEF Unclaimed, Claimed
<1>6. CASE SendStop(o)
  <2>1. StopTarget(o) \in Hosts /\ 1 \in 1..Attempts
    BY <1>6, StopGoesToHost DEF ClusterAssumption
  <2>2. QED  BY <1>2, <1>6, <2>1 DEF SendStop
<1>7. CASE Stopped(o)
  BY <1>3, <1>5, <1>7 DEF Stopped
<1>8. CASE ReleaseAfterStop(o)
  BY <1>1, <1>3, <1>4, <1>8 DEF ReleaseAfterStop
<1>9. ASSUME NEW h \in Hosts, SelectHost(o, h) PROVE TypeOK' /\ Named'
  <2> DEFINE v == [ops[o] EXCEPT !.pc = "claim", !.host = h]
  <2>1. v \in OpRecords /\ v.m = m /\ v.host = h /\ v.pc = "claim"
    BY OpType DEF OpRecords
  <2>2. ops' = [ops EXCEPT ![o] = v]
    BY <1>9 DEF SelectHost
  <2> HIDE DEF v
  <2>3. Kept /\ ops'[o] = v
    BY <2>1, <2>2, WriteStep
  <2>4. QED  BY <1>1, <1>5, <1>9, <2>1, <2>3, TypePartsNext DEF SelectHost
<1>10. CASE Claim(o)
  <2>1. CASE ~Claimable
    BY <1>3, <1>5, <1>10, <2>1 DEF Claim
  <2>2. CASE Claimable
    <3> DEFINE e == row.epoch + 1
               v == [ops[o] EXCEPT !.pc = "send", !.epoch = e]
    <3>1. ops[o].epoch = 0
      BY <1>10 DEF Claim, TokenHosts, TokenPhase
    <3>2. row.epoch \in 0..MaxOps /\ MaxOps \in Nat
      BY <1>0 DEF RestTypes, ClusterAssumption
    <3>3. e \in 0..MaxOps /\ e # 0
      BY <3>1, <3>2, RoomForClaim
    <3>4. v \in OpRecords /\ v.m = m /\ v.host = ops[o].host /\ v.pc = "send"
      BY <3>3, OpType DEF OpRecords
    <3>5. /\ ops' = [ops EXCEPT ![o] = v] /\ ops[o].pc = "claim"
          /\ row' = [host |-> ops[o].host, epoch |-> e, live |-> TRUE]
          /\ held' = [held EXCEPT ![m] = [epoch |-> e, host |-> ops[o].host]]
          /\ UNCHANGED <<lost, net, fences, agents>>
      BY <1>10, <2>2 DEF Claim
    <3> HIDE DEF e, v
    <3>6. Kept /\ ops'[o] = v
      BY <3>4, <3>5, WriteStep
    <3>7. ops[o].host \in Hosts
      BY <3>5
    <3>8. RestTypes' /\ HeldNamed'
      BY <1>0, <1>1, <3>3, <3>5, <3>7 DEF RestTypes
    <3>9. Owners' /\ HostChosen'
      BY <1>1, <3>4, <3>5, <3>6, <3>7
    <3>10. QED  BY <3>6, <3>8, <3>9, TypePartsNext
  <2>3. QED  BY <2>1, <2>2
<1>11. CASE SendLaunch(o)
  <2>1. 1 \in 1..Attempts
    BY DEF ClusterAssumption
  <2>2. QED  BY <1>2, <1>11, <2>1 DEF SendLaunch
<1>12. CASE Launched(o)
  BY <1>3, <1>5, <1>12 DEF Launched
<1>13. CASE GiveBack(o)
  BY <1>1, <1>3, <1>4, <1>13 DEF GiveBack
<1>14. CASE Retry(o)
  <2>1. ops[o].try + 1 \in 1..Attempts /\ PathOf(o) \in {"launch", "stop"}
    BY <1>14, OpType DEF Retry, PathOf, ClusterAssumption
  <2>2. QED  BY <1>2, <1>14, <2>1 DEF Retry, TryFailed
<1>15. CASE GiveUp(o)
  BY <1>3, <1>5, <1>15 DEF GiveUp, TryFailed
<1>16. CASE NoRoute(o)
  BY <1>3, <1>5, <1>16 DEF NoRoute
<1>17. QED
  BY <1>6, <1>7, <1>8, <1>9, <1>10, <1>11, <1>12, <1>13, <1>14, <1>15, <1>16 DEF OpStep

\* The steps of the Managers themselves keep the types.
LEMMA ManagerTypes ==
  ASSUME ClusterAssumption, CInv, NEW m \in Managers,
         Start(m) \/ Heartbeat(m) \/ RestartManager(m)
  PROVE  TypeOK' /\ Named'
<1> USE DEF CInv, HostOrNone, Named, Owners, HeldNamed, HostChosen, Holds
<1>0. RestTypes /\ ops \in [OpIds -> OpRecords]
  BY TypeParts
<1>a. NoLease \in [epoch : 0..MaxOps, host : HostOrNone] /\ NoLease.epoch = 0
  BY DEF NoLease, ClusterAssumption
<1>1. CASE Start(m)
  <2>1. PICK o \in OpIds :
          /\ ops' \in [OpIds -> OpRecords] /\ \A p \in OpIds : p # o => ops'[p] = ops[p]
          /\ ops'[o].m = m /\ ops'[o].pc \in {"select", "stop"}
          /\ UNCHANGED <<row, held, lost, net, fences, agents>>
    BY <1>1, StartStep
  <2>2. RestTypes'
    BY <1>0, <2>1 DEF RestTypes
  <2>3. QED  BY <2>1, <2>2, TypePartsNext
<1>2. CASE Renew(m)
  <2>1. /\ row' = row \/ row' = [row EXCEPT !.live = TRUE]
        /\ held' = held \/ held' = [held EXCEPT ![m] = NoLease]
        /\ lost' \subseteq lost \cup {m} /\ UNCHANGED <<ops, net, fences, agents>>
    BY <1>2 DEF Renew
  <2>2. row' \in [host : HostOrNone, epoch : 0..MaxOps, live : BOOLEAN]
    BY <1>0, <2>1 DEF RestTypes
  <2>3. held' \in [Managers -> [epoch : 0..MaxOps, host : HostOrNone]] /\ HeldNamed'
    BY <1>0, <1>a, <2>1 DEF RestTypes
  <2>4. RestTypes'
    BY <1>0, <2>1, <2>2, <2>3 DEF RestTypes
  <2>5. QED  BY <1>0, <2>1, <2>3, <2>4, TypePartsNext
<1>3. CASE FenceOnAgent(m)
  <2>1. /\ fences' = fences \cup {[to |-> OwnerOrDefault, epoch |-> row.epoch + 1]}
        /\ lost' \subseteq lost /\ UNCHANGED <<row, held, ops, net, agents>>
    BY <1>3 DEF FenceOnAgent
  <2>2. OwnerOrDefault \in Hosts /\ row.epoch + 1 \in 1..(MaxOps + 1)
    BY <1>0 DEF RestTypes, OwnerOrDefault, ClusterAssumption
  <2>3. RestTypes'
    BY <1>0, <2>1, <2>2 DEF RestTypes
  <2>4. QED  BY <1>0, <2>1, <2>3, TypePartsNext
<1>4. CASE RestartManager(m)
  <2> DEFINE ended(o) == [ops[o] EXCEPT !.pc = "done"]
  <2>1. /\ held' = [held EXCEPT ![m] = NoLease] /\ lost' \subseteq lost
        /\ ops' = [o \in OpIds |-> IF ops[o].m = m /\ Busy(o) THEN ended(o) ELSE ops[o]]
        /\ UNCHANGED <<row, net, fences, agents>>
    BY <1>4 DEF RestartManager
  <2>2. \A o \in OpIds : ended(o) \in OpRecords /\ ended(o).pc = "done" /\ ended(o).m = ops[o].m
    BY OpType DEF OpRecords
  <2> HIDE DEF ended
  <2>3. \A o \in OpIds : ops'[o] = ops[o] \/ (ops'[o] = ended(o) /\ ops[o].m = m)
    BY <2>1
  <2>4. ops' \in [OpIds -> OpRecords]
    BY <1>0, <2>1, <2>2
  <2>5. RestTypes' /\ HeldNamed'
    BY <1>0, <1>a, <2>1 DEF RestTypes
  <2>6. Owners' /\ HostChosen'
    BY <2>2, <2>3
  <2>7. QED  BY <2>4, <2>5, <2>6, TypePartsNext
<1>5. QED  BY <1>1, <1>2, <1>3, <1>4 DEF Heartbeat

\* What an agent keeps of itself.
AgentRecords == [inst : {"none", "running", "adopted"}, epoch : 0..MaxOps,
                 done : SUBSET (OpIds \X {"launch", "stop"}),
                 open : SUBSET (OpIds \X (1..Attempts))]

\* A request that is executed writes its agent and answers its operation.
LEMMA ExecuteStep ==
  ASSUME ClusterAssumption, TypeOK, NEW r \in net, Execute(r)
  PROVE  /\ net' = net \ {r} /\ UNCHANGED <<row, held, lost, fences>>
         /\ agents' \in [Hosts -> AgentRecords]
         /\ \A h \in Hosts : h # r.to => agents'[h] = agents[h]
         /\ \/ agents'[r.to].epoch \in {0, agents[r.to].epoch}
            \/ r.path = "launch" /\ agents'[r.to].epoch = r.epoch
         /\ agents[r.to].done \subseteq agents'[r.to].done
         /\ ops' = ops \/ \E reply \in {"ok", "error"} : Answer(r, reply)
<1>0. r.op \in OpIds /\ r.path \in {"launch", "stop"} /\ r.to \in Hosts /\ r.epoch \in 0..MaxOps
      /\ r.try \in 1..Attempts
  BY NetType
<1>1. agents \in [Hosts -> AgentRecords] /\ Remembered(r) \subseteq OpIds \X {"launch", "stop"}
      /\ agents[r.to].done \subseteq Remembered(r)
  BY <1>0 DEF TypeOK, AgentRecords, Remembered
<1>2. ASSUME NEW v \in AgentRecords, agents' = [agents EXCEPT ![r.to] = v]
      PROVE  /\ agents' \in [Hosts -> AgentRecords] /\ agents'[r.to] = v
             /\ \A h \in Hosts : h # r.to => agents'[h] = agents[h]
  BY <1>0, <1>1, <1>2
<1>3. CASE Replay(r)
  <2>1. /\ agents' = agents /\ net' = net \ {r} /\ Answer(r, "ok")
        /\ UNCHANGED <<row, held, lost, fences>>
    BY <1>3 DEF Replay
  <2>2. QED  BY <1>0, <1>1, <2>1
<1>4. CASE AgentHasMain(r)
  <2> DEFINE v == [agents[r.to] EXCEPT !.epoch = r.epoch, !.done = Remembered(r)]
  <2>1. v \in AgentRecords /\ v.epoch = r.epoch /\ v.done = Remembered(r)
    BY <1>0, <1>1 DEF AgentRecords
  <2>2. agents' = [agents EXCEPT ![r.to] = v]
    BY <1>4 DEF AgentHasMain
  <2> HIDE DEF v
  <2>3. QED  BY <1>1, <1>2, <1>4, <2>1, <2>2 DEF AgentHasMain
<1>5. CASE AgentLaunch(r)
  <2> DEFINE w == [agents[r.to] EXCEPT !.inst = "running", !.epoch = r.epoch]
             v == [w EXCEPT !.open = agents[r.to].open \cup {<<r.op, r.try>>}]
  <2>1. w \in AgentRecords /\ w.epoch = r.epoch /\ w.done = agents[r.to].done
    BY <1>0, <1>1 DEF AgentRecords
  <2>2. agents' = [agents EXCEPT ![r.to] = v]
    BY <1>5 DEF AgentLaunch
  <2> HIDE DEF w
  <2>3. v \in AgentRecords /\ v.epoch = r.epoch /\ v.done = agents[r.to].done
    BY <1>0, <1>1, <2>1 DEF AgentRecords
  <2> HIDE DEF v
  <2>4. QED  BY <1>2, <1>5, <2>2, <2>3 DEF AgentLaunch
<1>6. CASE AgentLaunchFails(r)
  <2> DEFINE v == [agents[r.to] EXCEPT !.epoch = r.epoch]
  <2>1. v \in AgentRecords /\ v.epoch = r.epoch /\ v.done = agents[r.to].done
    BY <1>0, <1>1 DEF AgentRecords
  <2>2. agents' = [agents EXCEPT ![r.to] = v]
    BY <1>6 DEF AgentLaunchFails
  <2> HIDE DEF v
  <2>3. QED  BY <1>1, <1>2, <1>6, <2>1, <2>2 DEF AgentLaunchFails
<1>7. CASE AgentStop(r)
  <2> DEFINE left == AfterStop(agents[r.to].inst)
             u == [agents[r.to] EXCEPT !.inst = left]
             w == [u EXCEPT !.epoch = 0]
             v == [w EXCEPT !.done = Remembered(r)]
  <2>0. left \in {"none", "running", "adopted"}
    BY <1>0, <1>1 DEF AgentRecords, AfterStop
  <2>2. /\ agents' = [agents EXCEPT ![r.to] = v] /\ net' = net \ {r} /\ Answer(r, "ok")
        /\ UNCHANGED <<row, held, lost, fences>>
    BY <1>7 DEF AgentStop
  <2> HIDE DEF left
  <2>a. u \in AgentRecords
    BY <1>0, <1>1, <2>0 DEF AgentRecords
  <2> HIDE DEF u
  <2>1. w \in AgentRecords /\ w.epoch = 0
    BY <2>a DEF AgentRecords, ClusterAssumption
  <2> HIDE DEF w
  <2>3. v \in AgentRecords /\ v.epoch = 0 /\ v.done = Remembered(r)
    BY <1>1, <2>1 DEF AgentRecords
  <2> HIDE DEF v
  <2>4. QED  BY <1>0, <1>1, <1>2, <2>2, <2>3
<1>8. QED  BY <1>3, <1>4, <1>5, <1>6, <1>7 DEF Execute

\* An answer leaves the operations named, and so do steps that write none.
LEMMA AnswerNamed ==
  ASSUME ClusterAssumption, CInv, NEW r, r.op \in OpIds,
         ops' = ops \/ \E reply \in {"ok", "error"} : Answer(r, reply), held' = held
  PROVE  ops' \in [OpIds -> OpRecords] /\ Named'
<1>1. /\ ops' \in [OpIds -> OpRecords]
      /\ \A o \in OpIds : ops'[o].m = ops[o].m /\ ops'[o].pc = ops[o].pc /\ ops'[o].host = ops[o].host
  BY AnswerStep, TypeParts DEF CInv, SameOperation
<1>2. QED  BY <1>1 DEF CInv, Named, Owners, HeldNamed, HostChosen, Holds

\* The steps of the agents keep the types.
LEMMA AgentTypes ==
  ASSUME ClusterAssumption, CInv,
         \/ \E r \in net : Execute(r)
         \/ \E f \in fences : AgentFence(f)
         \/ \E h \in Hosts : Finish(h) \/ InstanceEnds(h) \/ RestartAgent(h)
  PROVE  TypeOK' /\ Named'
<1>0. TypeOK /\ RestTypes /\ ops \in [OpIds -> OpRecords] /\ agents \in [Hosts -> AgentRecords]
  BY TypeParts DEF CInv, RestTypes, AgentRecords
<1>1. ASSUME agents' \in [Hosts -> AgentRecords], ops' \in [OpIds -> OpRecords],
             UNCHANGED <<row, held, lost>>, net' \subseteq net, fences' \subseteq fences
      PROVE  TypeOK'
  <2>1. RestTypes'
    BY <1>0, <1>1 DEF RestTypes, AgentRecords
  <2>2. QED  BY <1>1, <2>1, TypePartsNext
<1>2. ASSUME UNCHANGED <<ops, held>> PROVE ops' \in [OpIds -> OpRecords] /\ Named'
  BY <1>0, <1>2 DEF CInv, Named, Owners, HeldNamed, HostChosen, Holds
<1>3. ASSUME NEW r \in net, Execute(r) PROVE TypeOK' /\ Named'
  BY <1>0, <1>1, <1>3, ExecuteStep, NetType, AnswerNamed
<1>4. ASSUME NEW f \in fences, AgentFence(f) PROVE TypeOK' /\ Named'
  <2> DEFINE left == AfterStop(agents[f.to].inst)
             u == [agents[f.to] EXCEPT !.inst = left]
             v == [u EXCEPT !.epoch = 0]
  <2>1. f.to \in Hosts /\ left \in {"none", "running", "adopted"}
    BY <1>0 DEF RestTypes, AgentRecords, AfterStop
  <2>3. /\ agents' = agents \/ agents' = [agents EXCEPT ![f.to] = v]
        /\ fences' \subseteq fences /\ UNCHANGED <<row, held, lost, ops, net>>
    BY <1>4 DEF AgentFence
  <2> HIDE DEF left
  <2>a. u \in AgentRecords
    BY <1>0, <2>1 DEF AgentRecords
  <2> HIDE DEF u
  <2>2. v \in AgentRecords
    BY <2>a DEF AgentRecords, ClusterAssumption
  <2> HIDE DEF v
  <2>4. agents' \in [Hosts -> AgentRecords]
    BY <1>0, <2>1, <2>2, <2>3
  <2>5. QED  BY <1>1, <1>2, <2>3, <2>4
<1>5. ASSUME NEW h \in Hosts, Finish(h) PROVE TypeOK' /\ Named'
  <2>1. PICK o \in OpIds, n \in 1..Attempts : AgentLaunched(h, o, n)
    BY <1>5 DEF Finish
  <2> DEFINE r == [op |-> o, path |-> "launch", try |-> n]
             still == agents[h].open \ {<<o, n>>}
             known == agents[h].done \cup {<<o, "launch">>}
             u == [agents[h] EXCEPT !.open = still]
             v == [u EXCEPT !.done = known]
  <2>0. /\ still \in SUBSET (OpIds \X (1..Attempts))
        /\ known \in SUBSET (OpIds \X {"launch", "stop"}) /\ agents[h] \in AgentRecords
    BY <1>0 DEF AgentRecords
  <2>3. /\ agents' = [agents EXCEPT ![h] = v] /\ Answer(r, "ok")
        /\ UNCHANGED <<row, held, lost, net, fences>>
    BY <2>1 DEF AgentLaunched
  <2> HIDE DEF still, known
  <2>a. u \in AgentRecords
    BY <2>0 DEF AgentRecords
  <2> HIDE DEF u
  <2>2. v \in AgentRecords
    BY <2>0, <2>a DEF AgentRecords
  <2>4. r.op \in OpIds
    OBVIOUS
  <2> HIDE DEF v, r
  <2>5. ops' \in [OpIds -> OpRecords] /\ Named'
    BY <2>3, <2>4, AnswerNamed
  <2>6. QED  BY <1>0, <1>1, <2>2, <2>3, <2>5
<1>6. ASSUME NEW h \in Hosts, InstanceEnds(h) PROVE TypeOK' /\ Named'
  <2>1. [agents[h] EXCEPT !.inst = "none"] \in AgentRecords
    BY <1>0 DEF AgentRecords
  <2>2. QED  BY <1>0, <1>1, <1>2, <1>6, <2>1 DEF InstanceEnds
<1>7. ASSUME NEW h \in Hosts, RestartAgent(h) PROVE TypeOK' /\ Named'
  <2> DEFINE v == [inst |-> IF agents[h].inst = "none" THEN "none" ELSE "adopted",
                   epoch |-> 0, done |-> {}, open |-> {}]
  <2>1. v \in AgentRecords
    BY DEF AgentRecords, ClusterAssumption
  <2>2. agents' = [agents EXCEPT ![h] = v] /\ UNCHANGED <<row, held, lost, ops, net, fences>>
    BY <1>7 DEF RestartAgent
  <2> HIDE DEF v
  <2>3. QED  BY <1>0, <1>1, <1>2, <2>1, <2>2
<1>8. QED  BY <1>3, <1>4, <1>5, <1>6, <1>7

\* Every step keeps the types.
LEMMA TypesStep ==
  ASSUME ClusterAssumption, CInv, [Next]_vars
  PROVE  TypeOK' /\ Named'
<1>1. CASE Expire
  <2>1. row' = [row EXCEPT !.live = FALSE] /\ UNCHANGED <<held, lost, ops, net, fences, agents>>
    BY <1>1 DEF Expire
  <2>2. RestTypes' /\ ops' \in [OpIds -> OpRecords]
    BY <2>1, TypeParts DEF CInv, RestTypes
  <2>3. QED  BY <2>1, <2>2, TypePartsNext DEF CInv, Named, Owners, HeldNamed, HostChosen, Holds
<1>2. CASE UNCHANGED vars
  <2>1. RestTypes' /\ ops' \in [OpIds -> OpRecords]
    BY <1>2, TypeParts DEF vars, CInv, RestTypes
  <2>2. QED
    BY <1>2, <2>1, TypePartsNext DEF vars, CInv, Named, Owners, HeldNamed, HostChosen, Holds
<1>3. QED  BY <1>1, <1>2, OpTypes, ManagerTypes, AgentTypes DEF Next

-----------------------------------------------------------------------------
(* Fencing tokens *)

\* A step that grants no claim: what it leaves of the tokens.
Quiet ==
  /\ row'.epoch = row.epoch /\ row'.host = row.host
  /\ \A o \in OpIds :
       /\ ops'[o].epoch = ops[o].epoch
       /\ ops[o].epoch # 0 => ops'[o].host = ops[o].host
       /\ ops'[o].pc \in Unclaimed => ops[o].pc \in Unclaimed
       /\ ops'[o].pc \in Claimed => ops[o].pc \in Claimed
  /\ \A r \in net' : r \in net \/ (r.path = "launch" =>
       r.epoch # 0 /\ ops'[r.op].epoch = r.epoch /\ ops'[r.op].host = r.to)
  /\ \A h \in Hosts : \/ agents'[h].epoch \in {0, agents[h].epoch}
                      \/ \E r \in net : r.path = "launch" /\ r.to = h /\ agents'[h].epoch = r.epoch

\* A step of an operation is quiet, or its claim is granted.
LEMMA OpQuiet ==
  ASSUME ClusterAssumption, CInv, NEW o \in OpIds, OpStep(o), ~(Claim(o) /\ Claimable)
  PROVE  Quiet
<1> TypeOK
  BY DEF CInv
<1> USE DEF Unclaimed, Claimed
<1>1. ASSUME NEW path \in {"launch", "stop"}, NEW to \in Hosts, NEW n \in 1..Attempts,
             Call(o, path, to, n), UNCHANGED <<row, held, lost, fences, agents>>,
             \/ path = "stop" /\ ops[o].pc \in {"stop", "stopping"}
             \/ path = "launch" /\ ops[o].pc \in {"send", "launching"} /\ to = ops[o].host
      PROVE  Quiet
  <2>1. net' = net \cup {[op |-> o, path |-> path, try |-> n, to |-> to, epoch |-> ops[o].epoch]}
    BY <1>1 DEF Call
  <2>2. /\ \A p \in OpIds : p # o => ops'[p] = ops[p]
        /\ ops'[o].epoch = ops[o].epoch /\ ops'[o].host = to
        /\ ops'[o].pc = (IF path = "stop" THEN "stopping" ELSE "launching")
    BY <1>1, CallStep
  <2>3. \/ path = "stop" /\ ops[o].epoch = 0
        \/ path = "launch" /\ ops[o].epoch # 0 /\ to = ops[o].host
    BY <1>1 DEF CInv, TokenHosts, TokenPhase
  <2>4. \A r \in net' : r \in net \/ (r.path = "launch" =>
          r.epoch # 0 /\ ops'[r.op].epoch = r.epoch /\ ops'[r.op].host = r.to)
    BY <2>1, <2>2, <2>3
  <2>5. QED  BY <1>1, <2>2, <2>3, <2>4 DEF Quiet
<1>2. ASSUME NEW pc \in Unclaimed \cup Claimed \cup {"done"}, Goto(o, pc),
             pc \in Unclaimed => ops[o].pc \in Unclaimed, pc \in Claimed => ops[o].pc \in Claimed,
             row'.epoch = row.epoch, row'.host = row.host, UNCHANGED <<net, agents>>
      PROVE  Quiet
  BY <1>2, GotoStep DEF Quiet
<1>3. ASSUME NEW m, Release(m) PROVE row'.epoch = row.epoch /\ row'.host = row.host
  BY <1>3 DEF Release, TypeOK
<1>4. CASE SendStop(o)
  <2>1. StopTarget(o) \in Hosts /\ 1 \in 1..Attempts
    BY <1>4, StopGoesToHost DEF ClusterAssumption
  <2>2. QED  BY <1>1, <1>4, <2>1 DEF SendStop
<1>5. CASE Stopped(o)
  BY <1>2, <1>5 DEF Stopped
<1>6. CASE ReleaseAfterStop(o)
  BY <1>2, <1>3, <1>6 DEF ReleaseAfterStop
<1>7. ASSUME NEW h \in Hosts, SelectHost(o, h) PROVE Quiet
  <2> DEFINE v == [ops[o] EXCEPT !.pc = "claim", !.host = h]
  <2>1. v \in OpRecords /\ v.pc = "claim" /\ v.epoch = ops[o].epoch
    BY OpType DEF OpRecords, HostOrNone
  <2>2. ops' = [ops EXCEPT ![o] = v]
    BY <1>7 DEF SelectHost
  <2>3. ops[o].pc = "select" /\ UNCHANGED <<row, net, agents>>
    BY <1>7 DEF SelectHost
  <2>4. ops[o].epoch = 0
    BY <2>3 DEF CInv, TokenHosts, TokenPhase
  <2> HIDE DEF v
  <2>5. ops'[o] = v /\ \A p \in OpIds : p # o => ops'[p] = ops[p]
    BY <2>1, <2>2, WriteStep
  <2>6. QED  BY <2>1, <2>3, <2>4, <2>5 DEF Quiet
<1>8. CASE Claim(o)
  BY <1>2, <1>8 DEF Claim
<1>9. CASE SendLaunch(o)
  <2>1. 1 \in 1..Attempts /\ ops[o].host \in Hosts
    BY <1>9 DEF ClusterAssumption, SendLaunch, CInv, Named, HostChosen
  <2>2. QED  BY <1>1, <1>9, <2>1 DEF SendLaunch
<1>10. CASE Launched(o)
  BY <1>2, <1>10 DEF Launched
<1>11. CASE GiveBack(o)
  BY <1>2, <1>3, <1>11 DEF GiveBack
<1>12. CASE Retry(o)
  <2>1. ops[o].try + 1 \in 1..Attempts /\ ops[o].host \in Hosts
    BY <1>12, OpType DEF Retry, TryFailed, ClusterAssumption, CInv, Named, HostChosen
  <2>2. QED  BY <1>1, <1>12, <2>1 DEF Retry, TryFailed, PathOf
<1>13. CASE GiveUp(o)
  BY <1>2, <1>13 DEF GiveUp, TryFailed
<1>14. CASE NoRoute(o)
  BY <1>2, <1>14 DEF NoRoute
<1>15. QED
  BY <1>4, <1>5, <1>6, <1>7, <1>8, <1>9, <1>10, <1>11, <1>12, <1>13, <1>14 DEF OpStep

\* Operations that are answered, or not written at all, keep their tokens.
LEMMA AnswerQuiet ==
  ASSUME TypeOK, NEW r, r.op \in OpIds,
         ops' = ops \/ \E reply \in {"ok", "error"} : Answer(r, reply)
  PROVE  \A o \in OpIds : ops'[o].epoch = ops[o].epoch /\ ops'[o].host = ops[o].host
                          /\ ops'[o].pc = ops[o].pc
  BY AnswerStep

\* Every step is quiet, or a claim is granted.
LEMMA StepShape ==
  ASSUME ClusterAssumption, CInv, [Next]_vars
  PROVE  Quiet \/ \E o \in OpIds : Claim(o) /\ Claimable
<1> TypeOK
  BY DEF CInv
<1>1. CASE UNCHANGED vars
  BY <1>1 DEF vars, Quiet
<1>2. ASSUME NEW m \in Managers, Start(m) PROVE Quiet
  <2>1. PICK o \in OpIds :
          /\ CanStart(m, o) /\ \A p \in OpIds : p # o => ops'[p] = ops[p]
          /\ ops'[o].pc \in {"select", "stop"} /\ ops'[o].epoch = 0
          /\ UNCHANGED <<row, held, lost, net, fences, agents>>
    BY <1>2, StartStep
  <2>2. ops[o].pc = "free" /\ ops[o].epoch = 0
    BY <2>1 DEF CanStart, CInv, TokenHosts, TokenPhase, Unclaimed
  <2>3. QED  BY <2>1, <2>2 DEF Quiet, Unclaimed, Claimed
<1>3. ASSUME NEW m \in Managers, Heartbeat(m) PROVE Quiet
  BY <1>3 DEF Heartbeat, Renew, FenceOnAgent, Quiet, TypeOK
<1>4. ASSUME NEW m \in Managers, RestartManager(m) PROVE Quiet
  <2>1. \A o \in OpIds : /\ ops'[o].epoch = ops[o].epoch /\ ops'[o].host = ops[o].host
                         /\ ops'[o].pc \in {ops[o].pc, "done"}
    BY <1>4, OpType DEF RestartManager
  <2>2. QED  BY <1>4, <2>1 DEF RestartManager, Quiet, Unclaimed, Claimed
<1>5. CASE Expire
  BY <1>5 DEF Expire, Quiet, TypeOK
<1>6. ASSUME NEW r \in net, Execute(r) PROVE Quiet
  <2>1. r.op \in OpIds /\ r.to \in Hosts
    BY NetType
  <2>2. /\ net' \subseteq net /\ row' = row
        /\ \A h \in Hosts : h # r.to => agents'[h] = agents[h]
        /\ \/ agents'[r.to].epoch \in {0, agents[r.to].epoch}
           \/ r.path = "launch" /\ agents'[r.to].epoch = r.epoch
        /\ ops' = ops \/ \E reply \in {"ok", "error"} : Answer(r, reply)
    BY <1>6, ExecuteStep
  <2>3. \A o \in OpIds : ops'[o].epoch = ops[o].epoch /\ ops'[o].host = ops[o].host
                         /\ ops'[o].pc = ops[o].pc
    BY <2>1, <2>2, AnswerQuiet
  <2>4. QED  BY <2>1, <2>2, <2>3 DEF Quiet
<1>7. ASSUME NEW f \in fences, AgentFence(f) PROVE Quiet
  BY <1>7 DEF AgentFence, Quiet, TypeOK
<1>8. ASSUME NEW h \in Hosts, Finish(h) PROVE Quiet
  <2>1. PICK o \in OpIds, n \in 1..Attempts : AgentLaunched(h, o, n)
    BY <1>8 DEF Finish
  <2> DEFINE r == [op |-> o, path |-> "launch", try |-> n]
  <2>2. r.op \in OpIds /\ Answer(r, "ok") /\ UNCHANGED <<row, net>>
    BY <2>1 DEF AgentLaunched
  <2>3. \A g \in Hosts : agents'[g].epoch = agents[g].epoch
    BY <2>1 DEF AgentLaunched, TypeOK
  <2> HIDE DEF r
  <2>4. \A p \in OpIds : ops'[p].epoch = ops[p].epoch /\ ops'[p].host = ops[p].host
                         /\ ops'[p].pc = ops[p].pc
    BY <2>2, AnswerQuiet
  <2>5. QED  BY <2>2, <2>3, <2>4 DEF Quiet
<1>9. ASSUME NEW h \in Hosts, InstanceEnds(h) \/ RestartAgent(h) PROVE Quiet
  <2>1. \A g \in Hosts : agents'[g].epoch \in {0, agents[g].epoch}
    BY <1>9 DEF InstanceEnds, RestartAgent, TypeOK
  <2>2. QED  BY <1>9, <2>1 DEF InstanceEnds, RestartAgent, Quiet
<1>10. QED
  BY <1>1, <1>2, <1>3, <1>4, <1>5, <1>6, <1>7, <1>8, <1>9, OpQuiet DEF Next

\* A quiet step keeps every token with its host.
LEMMA QuietKeepsTokens ==
  ASSUME CInv, TypeOK', Quiet
  PROVE  Counted' /\ TokenHosts'
<1> USE DEF CInv, TokenHosts
<1>1. Tokened' = Tokened /\ row'.epoch = row.epoch
  BY DEF Quiet, Tokened
<1>2. Counted'
  BY <1>1 DEF Counted
<1>3. TokenPhase' /\ TokenOnce'
  BY DEF Quiet, TokenPhase, TokenOnce
<1>4. \A e, h : e # 0 /\ GrantedFor(e, h) => GrantedFor(e, h)'
  BY DEF Quiet, GrantedFor
<1>5. RowGranted'
  BY <1>4 DEF Quiet, RowGranted, GrantedFor
<1>6. NetGranted'
  BY NetType DEF Quiet, NetGranted
<1>7. AgentsGranted'
  <2> SUFFICES ASSUME NEW h \in Hosts, agents'[h].epoch # 0
               PROVE  GrantedFor(agents'[h].epoch, h)
    BY <1>4 DEF AgentsGranted, GrantedFor, Quiet
  <2>1. CASE agents'[h].epoch = agents[h].epoch
    BY <2>1 DEF AgentsGranted
  <2>2. CASE \E r \in net : r.path = "launch" /\ r.to = h /\ agents'[h].epoch = r.epoch
    BY <2>2, NetType DEF NetGranted, GrantedFor
  <2>3. QED  BY <2>1, <2>2 DEF Quiet
<1>8. QED  BY <1>2, <1>3, <1>5, <1>6, <1>7

\* A granted claim takes the next token, which nobody has.
LEMMA GrantKeepsTokens ==
  ASSUME ClusterAssumption, CInv, NEW o \in OpIds, Claim(o), Claimable
  PROVE  Counted' /\ TokenHosts'
<1> USE DEF CInv, TokenHosts
<1> DEFINE e == row.epoch + 1
           v == [ops[o] EXCEPT !.pc = "send", !.epoch = e]
<1>1. /\ ops' = [ops EXCEPT ![o] = v] /\ ops[o].pc = "claim"
      /\ row' = [host |-> ops[o].host, epoch |-> e, live |-> TRUE]
      /\ UNCHANGED <<net, agents>>
  BY DEF Claim
<1>2. ops[o].epoch = 0 /\ row.epoch \in Nat
  BY <1>1 DEF TokenPhase, Unclaimed, TypeOK
<1>3. v.pc = "send" /\ v.epoch = e /\ v.host = ops[o].host
  BY OpType DEF OpRecords
<1>4. ops'[o] = v /\ \A p \in OpIds : p # o => ops'[p] = ops[p]
  BY <1>1 DEF TypeOK
<1> HIDE DEF v
<1>5. \A p \in OpIds : ops[p].epoch \in Nat /\ ops[p].epoch <= row.epoch
  BY OpType DEF TokenPhase
<1>6. Counted'
  <2>1. Tokened' = Tokened \cup {o} /\ o \notin Tokened
    BY <1>2, <1>3, <1>4 DEF Tokened
  <2>2. IsFiniteSet(OpIds)
    BY FS_Interval DEF OpIds, ClusterAssumption
  <2>3. IsFiniteSet(Tokened)
    BY <2>2, FS_Subset DEF Tokened
  <2>4. Cardinality(Tokened \cup {o}) = Cardinality(Tokened) + 1
    BY <2>1, <2>3, FS_AddElement
  <2>5. QED  BY <1>1, <2>1, <2>4 DEF Counted
<1>7. TokenPhase' /\ TokenOnce'
  BY <1>1, <1>2, <1>3, <1>4, <1>5 DEF TokenPhase, TokenOnce, Unclaimed, Claimed
<1>8. RowGranted'
  BY <1>1, <1>3, <1>4 DEF RowGranted, GrantedFor
<1>9. NetGranted'
  <2>1. \A r \in net : r.path = "launch" => r.op # o
    BY <1>2 DEF NetGranted
  <2>2. QED  BY <1>1, <1>4, <2>1, NetType DEF NetGranted
<1>10. AgentsGranted'
  <2> SUFFICES ASSUME NEW h \in Hosts, agents[h].epoch # 0
               PROVE  GrantedFor(agents[h].epoch, h)'
    BY <1>1 DEF AgentsGranted
  <2>1. PICK p \in OpIds : ops[p].epoch = agents[h].epoch /\ ops[p].host = h
    BY DEF AgentsGranted, GrantedFor
  <2>2. p # o
    BY <1>2, <2>1
  <2>3. QED  BY <1>1, <1>4, <2>1, <2>2 DEF GrantedFor
<1>11. QED  BY <1>6, <1>7, <1>8, <1>9, <1>10

\* Every reachable state satisfies CInv, whatever goes wrong.
THEOREM Invariance == ASSUME ClusterAssumption PROVE Spec => []CInv
<1>1. ASSUME Init PROVE CInv
  <2>1. TypeOK
    BY <1>1 DEF Init, TypeOK, NoLease, NoOp, HostOrNone, Kinds, ClusterAssumption
  <2>2. \A o \in OpIds : ops[o].pc = "free" /\ ops[o].epoch = 0
    BY <1>1 DEF Init, NoOp
  <2>3. Named
    BY <1>1, <2>2 DEF Init, NoLease, Named, Owners, HeldNamed, HostChosen, Holds
  <2>4. Tokened = {} /\ row.epoch = 0
    BY <1>1, <2>2 DEF Init, Tokened
  <2>5. Counted
    BY <2>4, FS_EmptySet DEF Counted
  <2>6. TokenHosts
    BY <1>1, <2>2 DEF Init, TokenHosts, TokenPhase, TokenOnce, RowGranted, NetGranted,
                      AgentsGranted, Claimed
  <2>7. QED  BY <2>1, <2>3, <2>5, <2>6 DEF CInv
<1>2. ASSUME CInv, [Next]_vars PROVE CInv'
  BY <1>2, TypesStep, StepShape, QuietKeepsTokens, GrantKeepsTokens DEF CInv
<1>3. QED  BY <1>1, <1>2, PTL DEF Spec

\* Every reachable state is well typed; the row's counter stays within the
\* number of operations, because each is granted at most one claim.
THEOREM TypeCorrect == ASSUME ClusterAssumption PROVE Spec => []TypeOK
<1>1. CInv => TypeOK
  BY DEF CInv
<1>2. QED  BY <1>1, Invariance, PTL

\* A fencing token belongs to one host, whatever is lost, late, repeated or
\* restarted (leased-spawner.ts: claim, launch, fenceOnAgent; agent.ts: epochs).
THEOREM TokensStayWithHost == ASSUME ClusterAssumption PROVE Spec => []TokenNamesHost
<1>1. ASSUME CInv PROVE TokenNamesHost
  <2> USE <1>1 DEF CInv, TokenHosts
  <2>1. \A d, g, h : d # 0 /\ GrantedFor(d, g) /\ GrantedFor(d, h) => g = h
    BY DEF GrantedFor, TokenOnce
  <2>2. \A r \in net : r.path = "launch" /\ r.epoch = row.epoch => r.to = row.host
    BY <2>1, NetType DEF NetGranted, RowGranted, GrantedFor
  <2>3. QED  BY <2>1, <2>2 DEF TokenNamesHost, AgentsGranted, RowGranted
<1>2. QED  BY <1>1, Invariance, PTL

-----------------------------------------------------------------------------
(* Stop before launch *)

\* What a step may do with an operation that has a stop to wait for.
Ordered(o) ==
  \/ ops'[o].pc \in {"stop", "done"}
  \/ ops'[o].pc = "stopping" /\ ops'[o].reply = "none"
  \/ ops'[o].pc = "select" /\ ops'[o].kind = "launch"
  \/ /\ ops'[o].kind = ops[o].kind /\ ops'[o].pc = ops[o].pc
     /\ ops'[o].pc = "stopping" => ops'[o].reply = ops[o].reply \/ StopExecuted(o)'
  \/ /\ ops'[o].kind = ops[o].kind /\ ops'[o].pc \in AfterStopPc
     /\ ops[o].pc \in AfterStopPc \/ (ops[o].pc = "stopping" /\ ops[o].reply = "ok")

\* A step of an operation keeps the order.
LEMMA OpOrdered ==
  ASSUME ClusterAssumption, CInv, NEW o \in OpIds, OpStep(o)
  PROVE  agents' = agents /\ \A p \in OpIds : Ordered(p)
<1> TypeOK
  BY DEF CInv
<1> USE DEF Ordered, AfterStopPc
<1>1. ASSUME NEW path \in {"launch", "stop"}, NEW to \in Hosts, NEW n \in 1..Attempts,
             Call(o, path, to, n), UNCHANGED agents,
             path = "launch" => ops[o].pc \in {"send", "launching"}
      PROVE  agents' = agents /\ \A p \in OpIds : Ordered(p)
  BY <1>1, CallStep DEF SameOperation
<1>2. ASSUME NEW pc \in Unclaimed \cup Claimed \cup {"done"}, Goto(o, pc), UNCHANGED agents,
             \/ pc = "done"
             \/ /\ pc \in AfterStopPc
                /\ ops[o].pc \in AfterStopPc \/ (ops[o].pc = "stopping" /\ ops[o].reply = "ok")
      PROVE  agents' = agents /\ \A p \in OpIds : Ordered(p)
  BY <1>2, GotoStep DEF SameOperation
<1> USE DEF Unclaimed, Claimed
<1>3. CASE SendStop(o)
  <2>1. StopTarget(o) \in Hosts /\ 1 \in 1..Attempts
    BY <1>3, StopGoesToHost DEF ClusterAssumption
  <2>2. QED  BY <1>1, <1>3, <2>1 DEF SendStop
<1>4. CASE Stopped(o)
  BY <1>2, <1>4 DEF Stopped
<1>5. CASE ReleaseAfterStop(o)
  BY <1>2, <1>5 DEF ReleaseAfterStop
<1>7. ASSUME NEW h \in Hosts, SelectHost(o, h)
      PROVE  agents' = agents /\ \A p \in OpIds : Ordered(p)
  <2> DEFINE v == [ops[o] EXCEPT !.pc = "claim", !.host = h]
  <2>1. v.pc = "claim" /\ v.kind = ops[o].kind
    BY OpType DEF OpRecords
  <2>2. ops' = [ops EXCEPT ![o] = v] /\ ops[o].pc = "select" /\ UNCHANGED agents
    BY <1>7 DEF SelectHost
  <2> HIDE DEF v
  <2>3. ops'[o] = v /\ \A p \in OpIds : p # o => ops'[p] = ops[p]
    BY <2>2 DEF TypeOK
  <2>4. QED  BY <2>1, <2>2, <2>3
<1>8. CASE Claim(o)
  <2>1. CASE ~Claimable
    BY <1>2, <1>8, <2>1 DEF Claim
  <2>2. CASE Claimable
    <3> DEFINE v == [ops[o] EXCEPT !.pc = "send", !.epoch = row.epoch + 1]
    <3>1. v.pc = "send" /\ v.kind = ops[o].kind
      BY OpType DEF OpRecords
    <3>2. ops' = [ops EXCEPT ![o] = v] /\ ops[o].pc = "claim" /\ UNCHANGED agents
      BY <1>8, <2>2 DEF Claim
    <3> HIDE DEF v
    <3>3. ops'[o] = v /\ \A p \in OpIds : p # o => ops'[p] = ops[p]
      BY <3>2 DEF TypeOK
    <3>4. QED  BY <3>1, <3>2, <3>3
  <2>3. QED  BY <2>1, <2>2
<1>9. CASE SendLaunch(o)
  <2>1. 1 \in 1..Attempts /\ ops[o].host \in Hosts
    BY <1>9 DEF ClusterAssumption, SendLaunch, CInv, Named, HostChosen
  <2>2. QED  BY <1>1, <1>9, <2>1 DEF SendLaunch
<1>10. CASE Launched(o)
  BY <1>2, <1>10 DEF Launched
<1>11. CASE GiveBack(o)
  BY <1>2, <1>11 DEF GiveBack
<1>12. CASE Retry(o)
  <2>1. ops[o].try + 1 \in 1..Attempts /\ ops[o].host \in Hosts
    BY <1>12, OpType DEF Retry, TryFailed, ClusterAssumption, CInv, Named, HostChosen
  <2>2. QED  BY <1>1, <1>12, <2>1 DEF Retry, TryFailed, PathOf
<1>13. CASE GiveUp(o)
  BY <1>2, <1>13 DEF GiveUp, TryFailed
<1>14. CASE NoRoute(o)
  BY <1>2, <1>14 DEF NoRoute
<1>15. QED
  BY <1>3, <1>4, <1>5, <1>7, <1>8, <1>9, <1>10, <1>11, <1>12, <1>13, <1>14 DEF OpStep

\* An agent that answers a stop with ok has executed it, now or before.
LEMMA StopAnswered ==
  ASSUME ClusterAssumption, TypeOK, NEW r \in net, Execute(r), r.path = "stop"
  PROVE  Answer(r, "ok") /\ <<r.op, "stop">> \in agents'[r.to].done
<1>1. r.to \in Hosts /\ r.op \in OpIds
  BY NetType
<1>2. CASE Replay(r)
  BY <1>2 DEF Replay, Cached
<1>3. CASE AgentStop(r)
  BY <1>1, <1>3 DEF AgentStop, Remembered, TypeOK
<1>4. QED
  BY <1>2, <1>3 DEF Execute, AgentHasMain, AgentLaunch, AgentLaunchFails

\* While no agent restarts, what was executed is remembered.
LEMMA StopsStep ==
  ASSUME ClusterAssumption, "agent" \notin Faults, CInv, StopsExecuted, [Next]_vars
  PROVE  StopsExecuted'
<1> TypeOK
  BY DEF CInv
<1>1. ASSUME \A h \in Hosts : agents[h].done \subseteq agents'[h].done,
             \A o \in OpIds : Ordered(o)
      PROVE  StopsExecuted'
  <2>1. \A o \in OpIds : StopExecuted(o) => StopExecuted(o)'
    BY <1>1 DEF StopExecuted
  <2>2. QED  BY <1>1, <2>1 DEF StopsExecuted, Ordered, AfterStopPc
<1>2. ASSUME ops' = ops PROVE \A o \in OpIds : Ordered(o)
  BY <1>2 DEF Ordered
<1>3. CASE UNCHANGED vars
  BY <1>1, <1>2, <1>3 DEF vars
<1>4. ASSUME NEW m \in Managers, Start(m) PROVE StopsExecuted'
  BY <1>1, <1>4, StartStep DEF Ordered
<1>5. ASSUME NEW m \in Managers, Heartbeat(m) PROVE StopsExecuted'
  BY <1>1, <1>2, <1>5 DEF Heartbeat, Renew, FenceOnAgent
<1>6. ASSUME NEW m \in Managers, RestartManager(m) PROVE StopsExecuted'
  <2>1. \A o \in OpIds : ops'[o] = ops[o] \/ ops'[o].pc = "done"
    BY <1>6, OpType DEF RestartManager, OpRecords
  <2>2. QED  BY <1>1, <1>6, <2>1 DEF RestartManager, Ordered
<1>7. CASE Expire
  BY <1>1, <1>2, <1>7 DEF Expire
<1>8. ASSUME NEW r \in net, Execute(r) PROVE StopsExecuted'
  <2>1. r.op \in OpIds /\ r.to \in Hosts /\ r.path \in {"launch", "stop"}
    BY NetType
  <2>2. /\ \A h \in Hosts : agents[h].done \subseteq agents'[h].done
        /\ ops' = ops \/ \E reply \in {"ok", "error"} : Answer(r, reply)
    BY <1>8, ExecuteStep
  <2>3. ASSUME NEW o \in OpIds, ops'[o] # ops[o] PROVE Ordered(o)
    <3>1. /\ o = r.op /\ ops[o].pc \in {"stopping", "launching"} /\ PathOf(o) = r.path
          /\ ops'[o].kind = ops[o].kind /\ ops'[o].pc = ops[o].pc
      BY <2>1, <2>2, <2>3, AnswerStep DEF SameOperation
    <3>2. ops[o].pc = "stopping" => StopExecuted(o)'
      BY <1>8, <2>1, <3>1, StopAnswered DEF PathOf, StopExecuted
    <3>3. QED  BY <3>1, <3>2 DEF Ordered
  <2>4. \A o \in OpIds : Ordered(o)
    BY <2>3 DEF Ordered
  <2>5. QED  BY <1>1, <2>2, <2>4
<1>9. ASSUME NEW f \in fences, AgentFence(f) PROVE StopsExecuted'
  <2>1. \A h \in Hosts : agents'[h].done = agents[h].done
    BY <1>9 DEF AgentFence, TypeOK
  <2>2. QED  BY <1>1, <1>2, <1>9, <2>1 DEF AgentFence
<1>10. ASSUME NEW h \in Hosts, Finish(h) PROVE StopsExecuted'
  <2>1. PICK o \in OpIds, n \in 1..Attempts : AgentLaunched(h, o, n)
    BY <1>10 DEF Finish
  <2> DEFINE r == [op |-> o, path |-> "launch", try |-> n]
  <2>2. r.op \in OpIds /\ r.path = "launch" /\ Answer(r, "ok")
    BY <2>1 DEF AgentLaunched
  <2>3. \A g \in Hosts : agents[g].done \subseteq agents'[g].done
    BY <2>1 DEF AgentLaunched, TypeOK
  <2> HIDE DEF r
  <2>4. ASSUME NEW p \in OpIds, ops'[p] # ops[p] PROVE Ordered(p)
    <3>1. /\ ops[p].pc \in {"stopping", "launching"} /\ PathOf(p) = "launch"
          /\ ops'[p].kind = ops[p].kind /\ ops'[p].pc = ops[p].pc
      BY <2>2, <2>4, AnswerStep DEF SameOperation
    <3>2. QED  BY <3>1 DEF Ordered, PathOf
  <2>5. \A p \in OpIds : Ordered(p)
    BY <2>4 DEF Ordered
  <2>6. QED  BY <1>1, <2>3, <2>5
<1>11. ASSUME NEW h \in Hosts, InstanceEnds(h) PROVE StopsExecuted'
  <2>1. \A g \in Hosts : agents'[g].done = agents[g].done
    BY <1>11 DEF InstanceEnds, TypeOK
  <2>2. QED  BY <1>1, <1>2, <1>11, <2>1 DEF InstanceEnds
<1>12. ASSUME NEW o \in OpIds, OpStep(o) PROVE StopsExecuted'
  BY <1>1, <1>12, OpOrdered
<1>13. QED
  BY <1>3, <1>4, <1>5, <1>6, <1>7, <1>8, <1>9, <1>10, <1>11, <1>12 DEF Next, RestartAgent

\* While no agent forgets what it executed, a restart or a migration goes on to
\* its launch only after its stop was executed, however many tries are late, lost
\* or repeated (leased-spawner.ts: restartMain; admin.ts: the migrate route).
THEOREM StopsComeFirst ==
  ASSUME ClusterAssumption, "agent" \notin Faults
  PROVE  Spec => []StopBeforeLaunch
<1>1. Init => StopsExecuted
  BY DEF Init, StopsExecuted, NoOp, AfterStopPc
<1>2. StopsExecuted => StopBeforeLaunch
  BY DEF StopsExecuted, StopBeforeLaunch, StopExecuted, AfterStopPc
<1>3. CInv /\ StopsExecuted /\ [Next]_vars => StopsExecuted'
  BY StopsStep
<1>4. QED  BY <1>1, <1>2, <1>3, Invariance, PTL DEF Spec

-----------------------------------------------------------------------------
(* One writer *)

\* Each operation has at most one request under way.
LEMMA OneRequest ==
  ASSUME TypeOK, NetAwaited, NEW r \in net, NEW q \in net, r.op = q.op
  PROVE  r = q
<1> DEFINE o == r.op
<1>a. PathOf(o) = r.path /\ ops[o].try = r.try /\ ops[o].host = r.to /\ ops[o].epoch = r.epoch
  BY DEF NetAwaited
<1>b. PathOf(o) = q.path /\ ops[o].try = q.try /\ ops[o].host = q.to /\ ops[o].epoch = q.epoch
  BY DEF NetAwaited
<1>1. r.path = q.path /\ r.try = q.try /\ r.to = q.to /\ r.epoch = q.epoch
  BY <1>a, <1>b
<1>2. QED  BY <1>1, NetType

\* A launch that was granted is the one busy operation of the one that holds.
LEMMA OneLaunch ==
  ASSUME OInv, NEW o \in OpIds, ops[o].pc \in Claimed, NEW p \in OpIds, Busy(p),
         ops[p].m \in Managers, Holds(ops[p].m)
  PROVE  p = o
  BY DEF OInv, LaunchHolds, HeldRuns, OneAtATime, Busy, Claimed

\* A row that may be claimed is held by nobody and has no process.
LEMMA ClaimableFree ==
  ASSUME ClusterAssumption, CInv, OInv, Claimable
  PROVE  NoProcess /\ \A m \in Managers : ~Holds(m)
  BY DEF ClusterAssumption, CInv, Named, HeldNamed, OInv, HeldRuns, ProcessOwned, Claimable,
         Matches, NoProcess

\* An operation that waits for nothing goes on, and perhaps sends a request.
GoesOn(o) ==
  /\ Busy(o) /\ ops[o].m \in Managers
  /\ ~(ops[o].pc \in {"stopping", "launching"} /\ ops[o].reply = "none")
  /\ \A p \in OpIds : p # o => ops'[p] = ops[p]
  /\ ops'[o].m = ops[o].m /\ ops'[o].epoch = ops[o].epoch
  /\ ops'[o].pc \notin {"free", "stop", "send"}
  /\ ops'[o].pc \in {"stopping", "launching"} => ops'[o].reply = "none"
  /\ ops'[o].pc = "stopping" =>
       /\ ops[o].pc = "stop" \/ (ops[o].pc = "stopping" /\ ops[o].reply = "error")
       /\ Holds(ops[o].m) => ops'[o].host = row.host
  /\ ops'[o].pc \in Claimed => ops[o].pc \in Claimed /\ ops'[o].host = ops[o].host /\ Unstarted(o)
  /\ ops[o].pc \in Claimed => ops'[o].pc \in Claimed \cup {"done"}
  /\ ops'[o].pc = "drop" => ops[o].pc = "stopping" /\ ops[o].reply = "ok"
  /\ \/ net' = net
     \/ /\ ops'[o].pc \in {"stopping", "launching"}
        /\ net' = net \cup {[op |-> o, path |-> PathOf(o)', try |-> ops'[o].try,
                             to |-> ops'[o].host, epoch |-> ops[o].epoch]}

LEMMA GoesOnKeeps ==
  ASSUME TypeOK, OInv, NEW o \in OpIds, GoesOn(o), UNCHANGED <<row, held, lost, fences, agents>>
  PROVE  OInv'
<1> USE DEF OInv, GoesOn
<1>1. NoProcess' <=> NoProcess
  BY DEF NoProcess, HasProcess
<1>2. \A m \in Managers : Holds(m)' <=> Holds(m)
  BY DEF Holds
<1>3. OneAtATime'
  BY DEF OneAtATime, Busy
<1>4. HeldRuns'
  BY DEF HeldRuns, Holds, Matches
<1>5. LaunchHolds'
  BY <1>2 DEF LaunchHolds
<1>6. NetAwaited'
  <2>1. \A r \in net : r.op \in OpIds /\ r.op # o
    BY NetType DEF NetAwaited
  <2>2. \A h \in Hosts : /\ <<o, "stop">> \in agents[h].done => ops'[o].pc # "stopping"
                         /\ <<o, "launch">> \in agents[h].done => ops'[o].pc # "launching"
                         /\ \A n \in 1..Attempts : <<o, n>> \notin agents[h].open
    BY DEF DoneAnswered, OpenAwaited, Unstarted, Claimed, Busy
  <2>3. \A r \in net : r \in net' =>
          /\ ops'[r.op].pc \in {"stopping", "launching"} /\ PathOf(r.op)' = r.path
          /\ ops'[r.op].try = r.try /\ ops'[r.op].reply = "none" /\ ops'[r.op].host = r.to
          /\ ops'[r.op].epoch = r.epoch
          /\ \A h \in Hosts : <<r.op, r.path>> \notin agents'[h].done
                      /\ (r.path = "launch" => <<r.op, r.try>> \notin agents'[h].open)
    BY <2>1 DEF NetAwaited, PathOf
  <2>4. ASSUME NEW r \in net', r \notin net
        PROVE  /\ ops'[r.op].pc \in {"stopping", "launching"} /\ PathOf(r.op)' = r.path
               /\ ops'[r.op].try = r.try /\ ops'[r.op].reply = "none" /\ ops'[r.op].host = r.to
               /\ ops'[r.op].epoch = r.epoch
               /\ \A h \in Hosts : <<r.op, r.path>> \notin agents'[h].done
                           /\ (r.path = "launch" => <<r.op, r.try>> \notin agents'[h].open)
    <3>1. /\ r.op = o /\ r.path = PathOf(o)' /\ r.try = ops'[o].try /\ r.to = ops'[o].host
          /\ r.epoch = ops[o].epoch /\ ops'[o].pc \in {"stopping", "launching"}
      BY <2>4
    <3>2. \A h \in Hosts : <<o, r.path>> \notin agents[h].done
      BY <2>2, <3>1 DEF PathOf
    <3>3. \A h \in Hosts : <<o, r.try>> \notin agents[h].open
      BY DEF OpenAwaited, TypeOK
    <3>4. QED  BY <3>1, <3>2, <3>3
  <2>5. QED  BY <2>3, <2>4 DEF NetAwaited
<1>7. OpenAwaited'
  BY DEF OpenAwaited
<1>8. DoneAnswered'
  BY DEF DoneAnswered, Busy, Unstarted, Claimed
<1>9. ProcessOwned'
  BY DEF ProcessOwned, HasProcess
<1>10. LaunchStarts'
  BY <1>1 DEF LaunchStarts, Unstarted, Claimed
<1>11. HolderStops'
  BY <1>1, <1>2 DEF HolderStops
<1>12. QED
  BY <1>3, <1>4, <1>5, <1>6, <1>7, <1>8, <1>9, <1>10, <1>11

\* Giving a lease up leaves no process behind.
LEMMA ReleaseKeeps ==
  ASSUME TypeOK, OInv, NEW o \in OpIds, NEW m \in Managers, ops[o].m = m, Holds(m), NoProcess,
         ops[o].pc \in {"drop", "giveback"}, Release(m),
         \A p \in OpIds : p # o => ops'[p] = ops[p],
         ops'[o].m = m, ops'[o].pc \in {"select", "done"}, ops[o].pc = "giveback" => ops'[o].pc = "done",
         UNCHANGED <<lost, net, fences, agents>>
  PROVE  OInv'
<1> USE DEF OInv
<1>1. /\ row'.live = FALSE /\ row'.host = row.host /\ row'.epoch = row.epoch
      /\ \A n \in Managers : ~Holds(n)'
  BY DEF Release, HeldRuns, Holds, NoLease, TypeOK
<1>2. OneAtATime'
  BY DEF OneAtATime, Busy
<1>3. HeldRuns'
  BY <1>1 DEF HeldRuns
<1>4. \A p \in OpIds : ops'[p].pc \notin Claimed
  BY OneLaunch DEF LaunchHolds, HeldRuns, OneAtATime, Busy, Claimed
<1>5. LaunchHolds' /\ LaunchStarts'
  BY <1>4 DEF LaunchHolds, LaunchStarts, Unstarted, Claimed
<1>6. \A r \in net : r.op \in OpIds /\ r.op # o
  BY NetType DEF NetAwaited
<1>7. NetAwaited'
  BY <1>6 DEF NetAwaited, PathOf
<1>8. OpenAwaited' /\ DoneAnswered'
  BY DEF OpenAwaited, DoneAnswered
<1>9. ProcessOwned'
  BY DEF ProcessOwned, HasProcess, NoProcess
<1>10. HolderStops'
  <2>1. \A p \in OpIds : ops'[p].m = ops[p].m
    OBVIOUS
  <2>2. QED  BY <1>1 DEF HolderStops
<1>11. QED  BY <1>2, <1>3, <1>5, <1>7, <1>8, <1>9, <1>10

\* The claim of a row that nobody holds.
LEMMA GrantKeeps ==
  ASSUME ClusterAssumption, CInv, OInv, NEW o \in OpIds, Claim(o), Claimable
  PROVE  OInv'
<1> USE DEF OInv
<1> DEFINE e == row.epoch + 1  v == [ops[o] EXCEPT !.pc = "send", !.epoch = e]
<1>0. PICK m \in Managers : m = ops[o].m
  BY DEF Claim, CInv, Named, Owners
<1>1. /\ ops' = [ops EXCEPT ![o] = v] /\ ops[o].pc = "claim" /\ UNCHANGED <<lost, net, fences, agents>>
      /\ row' = [host |-> ops[o].host, epoch |-> e, live |-> TRUE]
      /\ held' = [held EXCEPT ![m] = [epoch |-> e, host |-> ops[o].host]]
  BY <1>0 DEF Claim
<1>2. TypeOK /\ e # 0
  BY <1>1 DEF CInv, TypeOK
<1>3. v.pc = "send" /\ v.m = m /\ v.host = ops[o].host
  BY <1>0, <1>2, OpType DEF OpRecords
<1> HIDE DEF v, e
<1>4. ops'[o] = v /\ \A p \in OpIds : p # o => ops'[p] = ops[p]
  BY <1>1, <1>2 DEF TypeOK
<1>5. NoProcess /\ \A n \in Managers : ~Holds(n)
  BY ClaimableFree
<1>6. /\ Holds(m)' /\ Matches(m)' /\ \A n \in Managers : n # m => ~Holds(n)'
      /\ row'.live = TRUE /\ row'.host = ops[o].host
  <2> DEFINE l == [epoch |-> e, host |-> ops[o].host]
  <2>1. held'[m] = l /\ \A n \in Managers : n # m => held'[n] = held[n]
    BY <1>1, <1>2 DEF TypeOK
  <2>2. /\ row'.live = TRUE /\ row'.host = ops[o].host /\ row'.epoch = e
        /\ held'[m].epoch = e /\ held'[m].host = ops[o].host
    BY <1>1, <2>1
  <2>3. QED  BY <1>2, <1>5, <2>1, <2>2 DEF Holds, Matches
<1>7. OneAtATime'
  BY <1>0, <1>1, <1>3, <1>4 DEF OneAtATime, Busy
<1>8. HeldRuns'
  <2>1. lost' = {} /\ fences' = {}
    BY <1>1 DEF HeldRuns
  <2>2. \A n \in Managers : Holds(n)' => n = m
    BY <1>6
  <2>3. QED  BY <1>6, <2>1, <2>2 DEF HeldRuns
<1>9. LaunchHolds'
  BY <1>0, <1>2, <1>3, <1>4, <1>5, <1>6 DEF LaunchHolds
<1>10. \A r \in net : r.op \in OpIds /\ r.op # o
  BY <1>1, <1>2, NetType DEF NetAwaited
<1>11. NetAwaited'
  BY <1>1, <1>4, <1>10 DEF NetAwaited, PathOf
<1>12. OpenAwaited' /\ DoneAnswered'
  BY <1>1, <1>3, <1>4 DEF OpenAwaited, DoneAnswered
<1>13. ProcessOwned' /\ LaunchStarts'
  BY <1>1, <1>5 DEF ProcessOwned, LaunchStarts, HasProcess, NoProcess
<1>14. HolderStops'
  <2>1. ASSUME NEW p \in OpIds, p # o, ops[p].m = m PROVE ops[p].pc \notin {"stop", "stopping", "drop"}
    BY <1>0, <1>1, <2>1 DEF OneAtATime, Busy
  <2>2. QED  BY <1>2, <1>3, <1>4, <1>6, <2>1 DEF HolderStops
<1>15. QED  BY <1>7, <1>8, <1>9, <1>11, <1>12, <1>13, <1>14

\* A Manager starts an operation when its previous one has ended.
LEMMA StartKeeps ==
  ASSUME ClusterAssumption, Serial, TypeOK, OInv, NEW m \in Managers, Start(m)
  PROVE  OInv'
<1> USE DEF OInv
<1>1. PICK o \in OpIds :
        /\ CanStart(m, o) /\ \A p \in OpIds : p # o => ops'[p] = ops[p]
        /\ ops'[o].m = m /\ ops'[o].pc \in {"select", "stop"}
        /\ ops'[o].source \in {None, row.host} /\ ops'[o].reply = "none"
        /\ UNCHANGED <<row, held, lost, net, fences, agents>>
  BY StartStep
<1>2. ops[o].pc = "free" /\ \A p \in OpIds : ops[p].m = m => ~Busy(p)
  BY <1>1 DEF CanStart
<1>3. OneAtATime'
  BY <1>1, <1>2 DEF OneAtATime, Busy
<1>4. HeldRuns' /\ ProcessOwned'
  BY <1>1 DEF HeldRuns, ProcessOwned, Holds, Matches, HasProcess
<1>5. LaunchHolds'
  BY <1>1 DEF LaunchHolds, Holds, Claimed
<1>6. \A r \in net : r.op \in OpIds /\ r.op # o
  BY <1>2, NetType DEF NetAwaited
<1>7. NetAwaited'
  BY <1>1, <1>6 DEF NetAwaited, PathOf
<1>8. OpenAwaited' /\ DoneAnswered'
  BY <1>1, <1>2 DEF OpenAwaited, DoneAnswered
<1>9. LaunchStarts'
  BY <1>1 DEF LaunchStarts, Unstarted, NoProcess, HasProcess
<1>10. HolderStops'
  BY <1>1 DEF HolderStops, Holds, NoProcess, HasProcess
<1>11. QED  BY <1>3, <1>4, <1>5, <1>7, <1>8, <1>9, <1>10

\* The other steps of an operation.
LEMMA OpKeeps ==
  ASSUME ClusterAssumption, Faults = {}, CInv, OInv, NEW o \in OpIds, OpStep(o)
  PROVE  OInv'
<1> TypeOK
  BY DEF CInv
<1> USE DEF Unclaimed, Claimed
<1>0. ops[o].pc # "free" => ops[o].m \in Managers
  BY DEF CInv, Named, Owners
<1>1. ASSUME NEW path \in {"launch", "stop"}, NEW to \in Hosts, NEW n \in 1..Attempts,
             Call(o, path, to, n), Busy(o), UNCHANGED <<row, held, lost, fences, agents>>,
             ~(ops[o].pc \in {"stopping", "launching"} /\ ops[o].reply = "none"),
             path = "stop" => /\ ops[o].pc = "stop" \/ (ops[o].pc = "stopping" /\ ops[o].reply = "error")
                              /\ Holds(ops[o].m) => to = row.host,
             path = "launch" => Unstarted(o) /\ to = ops[o].host
      PROVE  OInv'
  <2>1. /\ \A p \in OpIds : p # o => ops'[p] = ops[p]
        /\ ops'[o].m = ops[o].m /\ ops'[o].epoch = ops[o].epoch
        /\ ops'[o].pc = (IF path = "stop" THEN "stopping" ELSE "launching")
        /\ ops'[o].host = to /\ ops'[o].try = n /\ ops'[o].reply = "none"
    BY <1>1, CallStep DEF SameOperation
  <2>2. net' = net \cup {[op |-> o, path |-> path, try |-> n, to |-> to, epoch |-> ops[o].epoch]}
    BY <1>1 DEF Call
  <2>3. PathOf(o)' = path
    BY <2>1 DEF PathOf
  <2>4. GoesOn(o)
    BY <1>0, <1>1, <2>1, <2>2, <2>3 DEF GoesOn, Busy, Unstarted
  <2>5. QED  BY <1>1, <2>4, GoesOnKeeps
<1>2. ASSUME NEW pc \in {"drop", "select", "done", "giveback"}, Goto(o, pc), Busy(o),
             UNCHANGED <<row, held, lost, net, fences, agents>>,
             ~(ops[o].pc \in {"stopping", "launching"} /\ ops[o].reply = "none"),
             pc = "giveback" => Unstarted(o), ops[o].pc \in Claimed => pc \in {"done", "giveback"},
             pc = "drop" => ops[o].pc = "stopping" /\ ops[o].reply = "ok"
      PROVE  OInv'
  <2>1. /\ \A p \in OpIds : p # o => ops'[p] = ops[p]
        /\ ops'[o].m = ops[o].m /\ ops'[o].epoch = ops[o].epoch
        /\ ops'[o].host = ops[o].host /\ ops'[o].pc = pc
    BY <1>2, GotoStep DEF SameOperation
  <2>2. GoesOn(o)
    BY <1>0, <1>2, <2>1 DEF GoesOn, Busy, Unstarted
  <2>3. QED  BY <1>2, <2>2, GoesOnKeeps
<1>3. ASSUME NEW pc \in {"select", "done"}, Goto(o, pc), Release(ops[o].m),
             ops[o].pc \in {"drop", "giveback"}, ops[o].pc = "giveback" => pc = "done",
             UNCHANGED <<lost, net, fences, agents>>
      PROVE  OInv'
  <2>1. CASE Holds(ops[o].m)
    <3>1. /\ \A p \in OpIds : p # o => ops'[p] = ops[p]
          /\ ops'[o].m = ops[o].m /\ ops'[o].pc = pc
      BY <1>3, GotoStep DEF SameOperation
    <3>2. NoProcess
      BY <1>0, <1>3, <2>1 DEF OInv, HolderStops, LaunchStarts, Unstarted
    <3>3. QED  BY <1>0, <1>3, <2>1, <3>1, <3>2, ReleaseKeeps
  <2>2. CASE ~Holds(ops[o].m)
    BY <1>2, <1>3, <2>2 DEF Release, Busy
  <2>3. QED  BY <2>1, <2>2
<1>4. CASE SendStop(o)
  <2>1. StopTarget(o) \in Hosts /\ 1 \in 1..Attempts
    BY <1>4, StopGoesToHost DEF ClusterAssumption
  <2>2. Holds(ops[o].m) => StopTarget(o) = row.host
    BY <1>0, <1>4 DEF SendStop, StopTarget, OInv, HolderStops, HeldRuns, Matches
  <2>3. QED  BY <1>1, <1>4, <2>1, <2>2 DEF SendStop, Busy
<1>5. CASE Stopped(o)
  BY <1>2, <1>5 DEF Stopped, Busy
<1>6. CASE ReleaseAfterStop(o)
  BY <1>3, <1>6 DEF ReleaseAfterStop
<1>7. ASSUME NEW h \in Hosts, SelectHost(o, h) PROVE OInv'
  <2> DEFINE v == [ops[o] EXCEPT !.pc = "claim", !.host = h]
  <2>1. v.pc = "claim" /\ v.m = ops[o].m /\ v.epoch = ops[o].epoch
    BY OpType DEF OpRecords
  <2>2. /\ ops' = [ops EXCEPT ![o] = v] /\ ops[o].pc = "select"
        /\ UNCHANGED <<row, held, lost, net, fences, agents>>
    BY <1>7 DEF SelectHost
  <2> HIDE DEF v
  <2>3. ops'[o] = v /\ \A p \in OpIds : p # o => ops'[p] = ops[p]
    BY <2>2 DEF TypeOK
  <2>4. GoesOn(o)
    BY <1>0, <2>1, <2>2, <2>3 DEF GoesOn, Busy
  <2>5. QED  BY <2>2, <2>4, GoesOnKeeps
<1>8. CASE Claim(o)
  <2>1. CASE ~Claimable
    BY <1>2, <1>8, <2>1 DEF Claim, Busy
  <2>2. QED  BY <1>8, <2>1, GrantKeeps
<1>9. CASE SendLaunch(o)
  <2>1. 1 \in 1..Attempts /\ ops[o].host \in Hosts
    BY <1>9 DEF ClusterAssumption, SendLaunch, CInv, Named, HostChosen
  <2>2. QED  BY <1>1, <1>9, <2>1 DEF SendLaunch, Busy, Unstarted
<1>10. CASE Launched(o)
  BY <1>2, <1>10 DEF Launched, Busy
<1>11. CASE GiveBack(o)
  BY <1>3, <1>11 DEF GiveBack
<1>12. CASE Retry(o)
  <2>1. ops[o].try + 1 \in 1..Attempts /\ ops[o].host \in Hosts
    BY <1>12, OpType DEF Retry, TryFailed, ClusterAssumption, CInv, Named, HostChosen
  <2>2. ops[o].pc \in {"stopping", "launching"} /\ ops[o].reply = "error"
    BY <1>12 DEF Retry, TryFailed
  <2>3. ops[o].pc = "stopping" /\ Holds(ops[o].m) => ops[o].host = row.host
    BY <1>0, <2>2 DEF OInv, HolderStops
  <2>4. QED  BY <1>1, <1>12, <2>1, <2>2, <2>3 DEF Retry, PathOf, Busy, Unstarted
<1>13. CASE GiveUp(o)
  BY <1>2, <1>13 DEF GiveUp, TryFailed, Busy, Unstarted
<1>14. CASE NoRoute(o)
  BY <1>14 DEF NoRoute
<1>15. QED
  BY <1>4, <1>5, <1>6, <1>7, <1>8, <1>9, <1>10, <1>11, <1>12, <1>13, <1>14 DEF OpStep

\* Without run-out leases a renewal changes nothing, and nobody has to fence.
LEMMA RenewKeeps ==
  ASSUME TypeOK, OInv, NEW m \in Managers, Heartbeat(m)
  PROVE  OInv'
<1>1. Renew(m) /\ Holds(m) /\ Matches(m) /\ row.live
  BY DEF Heartbeat, FenceOnAgent, Renew, OInv, HeldRuns
<1>2. /\ row'.host = row.host /\ row'.epoch = row.epoch /\ row'.live = row.live
      /\ UNCHANGED <<held, lost, ops, net, fences, agents>>
  BY <1>1 DEF Renew, TypeOK
<1>3. OneAtATime' /\ HeldRuns' /\ LaunchHolds'
  BY <1>2 DEF OInv, OneAtATime, Busy, HeldRuns, Holds, Matches, LaunchHolds
<1>4. NetAwaited' /\ OpenAwaited' /\ DoneAnswered'
  BY <1>2 DEF OInv, NetAwaited, PathOf, OpenAwaited, DoneAnswered
<1>5. ProcessOwned' /\ LaunchStarts' /\ HolderStops'
  BY <1>2 DEF OInv, ProcessOwned, LaunchStarts, HolderStops, HasProcess, NoProcess, Unstarted, Holds
<1>6. QED  BY <1>3, <1>4, <1>5 DEF OInv

\* An agent works on the request of o: the other operations notice nothing of it.
WorksOn(o) ==
  /\ UNCHANGED <<row, held, lost, fences>>
  /\ net' \subseteq net /\ \A r \in net' : r.op # o
  /\ \A p \in OpIds : p # o => ops'[p] = ops[p]
  /\ ops'[o].m = ops[o].m /\ ops'[o].pc = ops[o].pc /\ ops'[o].host = ops[o].host
  /\ ops'[o].source = ops[o].source
  /\ \A h \in Hosts, p \in OpIds : p # o =>
       /\ \A path \in {"launch", "stop"} : <<p, path>> \in agents'[h].done => <<p, path>> \in agents[h].done
       /\ \A n \in 1..Attempts : <<p, n>> \in agents'[h].open <=> <<p, n>> \in agents[h].open

LEMMA WorksOnKeeps ==
  ASSUME TypeOK, OInv, NEW o \in OpIds, WorksOn(o),
         \A h \in Hosts, n \in 1..Attempts : <<o, n>> \in agents'[h].open =>
           ops[o].pc = "launching" /\ ops'[o].try = n /\ ops'[o].reply = "none" /\ ops[o].host = h,
         \A h \in Hosts : <<o, "stop">> \in agents'[h].done =>
           ops[o].pc \notin {"free", "stop"} /\ (ops[o].pc = "stopping" => ops'[o].reply = "ok"),
         \A h \in Hosts : <<o, "launch">> \in agents'[h].done =>
           ops[o].pc = "done" \/ (ops[o].pc = "launching" /\ ops'[o].reply = "ok"),
         ProcessOwned', LaunchStarts',
         ops[o].m \in Managers /\ Holds(ops[o].m) /\ ops[o].pc = "stopping" /\ ops'[o].reply = "ok"
           => NoProcess',
         \A p \in OpIds : p # o /\ ops[p].m \in Managers /\ Holds(ops[p].m)
           /\ ops[p].pc \in {"stopping", "drop"} /\ NoProcess => NoProcess',
         ops[o].pc # "drop"
  PROVE  OInv'
<1> USE DEF OInv, WorksOn
<1>1. OneAtATime'
  BY DEF OneAtATime, Busy
<1>2. HeldRuns'
  BY DEF HeldRuns, Holds, Matches
<1>3. LaunchHolds'
  BY DEF LaunchHolds, Holds
<1>4. NetAwaited'
  <2>1. \A r \in net' : /\ r \in net /\ r.op \in OpIds /\ r.op # o /\ r.path \in {"launch", "stop"}
                        /\ r.try \in 1..Attempts
    BY NetType
  <2>2. ASSUME NEW q \in net' PROVE ops'[q.op] = ops[q.op] /\ PathOf(q.op)' = PathOf(q.op)
    BY <2>1 DEF PathOf
  <2>3. ASSUME NEW q \in net', NEW h \in Hosts
        PROVE  /\ <<q.op, q.path>> \notin agents'[h].done
               /\ q.path = "launch" => <<q.op, q.try>> \notin agents'[h].open
    BY <2>1 DEF NetAwaited
  <2>4. QED  BY <2>1, <2>2, <2>3 DEF NetAwaited
<1>5. ASSUME NEW h \in Hosts, NEW p \in OpIds, p # o
      PROVE  /\ \A n \in 1..Attempts : <<p, n>> \in agents'[h].open => <<p, n>> \in agents[h].open
             /\ <<p, "stop">> \in agents'[h].done => <<p, "stop">> \in agents[h].done
             /\ <<p, "launch">> \in agents'[h].done => <<p, "launch">> \in agents[h].done
             /\ ops'[p] = ops[p]
  BY <1>5
<1>6. OpenAwaited'
  <2>1. ASSUME NEW h \in Hosts, NEW p \in OpIds, NEW n \in 1..Attempts, <<p, n>> \in agents'[h].open
        PROVE  ops'[p].pc = "launching" /\ ops'[p].try = n /\ ops'[p].reply = "none" /\ ops'[p].host = h
    <3>1. CASE p = o
      BY <2>1, <3>1
    <3>2. CASE p # o
      <4>1. <<p, n>> \in agents[h].open /\ ops'[p] = ops[p]
        BY <1>5, <2>1, <3>2
      <4>2. QED  BY <4>1 DEF OpenAwaited
    <3>3. QED  BY <3>1, <3>2
  <2>2. QED  BY <2>1 DEF OpenAwaited
<1>7. DoneAnswered'
  <2>1. ASSUME NEW h \in Hosts, NEW p \in OpIds
        PROVE  /\ <<p, "stop">> \in agents'[h].done =>
                    ops'[p].pc \notin {"free", "stop"} /\ (ops'[p].pc = "stopping" => ops'[p].reply = "ok")
               /\ <<p, "launch">> \in agents'[h].done =>
                    ops'[p].pc = "done" \/ (ops'[p].pc = "launching" /\ ops'[p].reply = "ok")
    BY <1>5 DEF DoneAnswered
  <2>2. QED  BY <2>1 DEF DoneAnswered
<1>8. HolderStops'
  BY DEF HolderStops, Holds
<1>9. QED  BY <1>1, <1>2, <1>3, <1>4, <1>6, <1>7, <1>8

\* The launch a request belongs to is the holder's and has started nothing.
LEMMA LaunchRequest ==
  ASSUME TypeOK, OInv, NEW r \in net, r.path = "launch"
  PROVE  /\ ops[r.op].pc = "launching" /\ Unstarted(r.op) /\ NoProcess
         /\ r.to = row.host /\ row.live /\ r.to = ops[r.op].host
         /\ ops[r.op].m \in Managers /\ Holds(ops[r.op].m)
         /\ \A h \in Hosts : /\ <<r.op, "launch">> \notin agents[h].done
                             /\ \A n \in 1..Attempts : <<r.op, n>> \notin agents[h].open
<1>1. r.op \in OpIds
  BY NetType
<1>2. ops[r.op].pc = "launching" /\ ops[r.op].try = r.try /\ ops[r.op].reply = "none"
      /\ ops[r.op].host = r.to
      /\ \A h \in Hosts : <<r.op, "launch">> \notin agents[h].done /\ <<r.op, r.try>> \notin agents[h].open
  BY DEF OInv, NetAwaited, PathOf
<1>3. Unstarted(r.op)
  BY <1>2 DEF Unstarted
<1>4. \A h \in Hosts, n \in 1..Attempts : <<r.op, n>> \notin agents[h].open
  BY <1>1, <1>2 DEF OInv, OpenAwaited
<1>5. /\ ops[r.op].m \in Managers /\ Holds(ops[r.op].m) /\ ops[r.op].host = row.host
  BY <1>1, <1>2 DEF OInv, LaunchHolds, Claimed
<1>6. QED  BY <1>1, <1>2, <1>3, <1>4, <1>5 DEF OInv, HeldRuns, LaunchStarts

\* An agent executes a request.
LEMMA ExecuteKeeps ==
  ASSUME ClusterAssumption, TypeOK, OInv, NEW r \in net, Execute(r)
  PROVE  OInv'
<1> DEFINE o == r.op
<1>0. /\ r.op \in OpIds /\ r.path \in {"launch", "stop"} /\ r.to \in Hosts /\ r.try \in 1..Attempts
      /\ agents \in [Hosts -> AgentRecords]
  BY NetType DEF TypeOK, AgentRecords
<1>1. /\ UNCHANGED <<row, held, lost, fences>> /\ net' = net \ {r}
      /\ \A h \in Hosts : h # r.to => agents'[h] = agents[h]
      /\ \A q \in net' : q.op # o
  BY ExecuteStep, OneRequest DEF OInv
<1>2. /\ ~Cached(r) /\ ops[o].pc \in {"stopping", "launching"} /\ PathOf(o) = r.path
      /\ ops[o].try = r.try /\ ops[o].reply = "none" /\ ops[o].host = r.to
  BY <1>0 DEF OInv, NetAwaited, Cached
<1>3. ASSUME NEW reply \in {"ok", "error"}, Answer(r, reply)
      PROVE  /\ \A p \in OpIds : p # o => ops'[p] = ops[p]
             /\ ops'[o].m = ops[o].m /\ ops'[o].pc = ops[o].pc /\ ops'[o].host = ops[o].host
             /\ ops'[o].source = ops[o].source /\ ops'[o].try = ops[o].try /\ ops'[o].reply = reply
  <2>1. ops' = [ops EXCEPT ![o].reply = reply]
    BY <1>2, <1>3 DEF Answer
  <2>2. QED  BY <1>0, <1>3, <2>1, AnswerStep, OpType DEF SameOperation, TypeOK
<1>4. ~Replay(r)
  BY <1>2 DEF Replay
<1>5. ~AgentHasMain(r)
  BY <1>0, LaunchRequest DEF AgentHasMain, NoProcess, HasProcess
<1>6. CASE AgentLaunch(r)
  <2>1. r.path = "launch" /\ ops' = ops
    BY <1>6 DEF AgentLaunch
  <2>2. /\ agents'[r.to].inst = "running" /\ agents'[r.to].done = agents[r.to].done
        /\ agents'[r.to].open = agents[r.to].open \cup {<<o, r.try>>}
    BY <1>0, <1>6 DEF AgentLaunch, AgentRecords
  <2>3. WorksOn(o)
    BY <1>0, <1>1, <2>1, <2>2 DEF WorksOn
  <2>4. ProcessOwned'
    BY <1>1, <2>1, <2>2, LaunchRequest DEF OInv, ProcessOwned, HasProcess
  <2>5. \A p \in OpIds : p # o => ~(ops[p].m \in Managers /\ Holds(ops[p].m) /\ Busy(p))
    BY <1>0, <2>1, LaunchRequest, OneLaunch DEF Claimed
  <2>6. LaunchStarts'
    <3>1. ~Unstarted(o)'
      BY <1>0, <1>2, <2>1, <2>2, LaunchRequest DEF Unstarted
    <3>2. \A p \in OpIds : p # o => ~Unstarted(p)'
      BY <2>1, <2>5 DEF OInv, LaunchHolds, Unstarted, Claimed, Busy
    <3>3. QED  BY <3>1, <3>2 DEF LaunchStarts
  <2>7. \A h \in Hosts, n \in 1..Attempts : <<o, n>> \in agents'[h].open => n = r.try /\ h = r.to
    <3>1. \A h \in Hosts, n \in 1..Attempts : <<o, n>> \notin agents[h].open
      BY <2>1, LaunchRequest
    <3>2. \A n \in 1..Attempts : <<o, n>> \in agents'[r.to].open => <<o, n>> = <<o, r.try>>
      BY <1>0, <2>2, <3>1
    <3>3. QED  BY <1>1, <3>1, <3>2
  <2>8. \A h \in Hosts : <<o, "stop">> \in agents'[h].done => <<o, "stop">> \in agents[h].done
    BY <1>0, <1>1, <2>2
  <2>9. \A h \in Hosts : <<o, "launch">> \notin agents'[h].done
    BY <1>0, <1>1, <2>1, <2>2, LaunchRequest
  <2>10. ops[o].pc = "launching"
    BY <2>1, LaunchRequest
  <2>11. QED
    BY <1>0, <1>2, <2>1, <2>3, <2>4, <2>5, <2>6, <2>7, <2>8, <2>9, <2>10, WorksOnKeeps
    DEF Busy, OInv, DoneAnswered
<1>7. CASE AgentLaunchFails(r)
  <2>1. r.path = "launch" /\ Answer(r, "error")
    BY <1>7 DEF AgentLaunchFails
  <2>2. \A h \in Hosts : /\ agents'[h].inst = agents[h].inst /\ agents'[h].done = agents[h].done
                         /\ agents'[h].open = agents[h].open
    BY <1>0, <1>7 DEF AgentLaunchFails, AgentRecords
  <2>3. WorksOn(o) /\ (NoProcess' <=> NoProcess) /\ ops'[o].reply = "error"
    BY <1>1, <1>3, <2>1, <2>2 DEF WorksOn, NoProcess, HasProcess
  <2>4. ProcessOwned' /\ LaunchStarts'
    <3>1. \A p \in OpIds : Unstarted(p)' => NoProcess
      BY <2>1, <2>3, LaunchRequest
    <3>2. QED  BY <1>1, <2>2, <2>3, <3>1 DEF OInv, ProcessOwned, HasProcess, LaunchStarts
  <2>5. QED
    BY <1>0, <1>2, <2>1, <2>2, <2>3, <2>4, LaunchRequest, WorksOnKeeps DEF OInv, DoneAnswered
<1>8. CASE AgentStop(r)
  <2>1. r.path = "stop" /\ Answer(r, "ok")
    BY <1>8 DEF AgentStop
  <2>2. /\ agents'[r.to].inst = AfterStop(agents[r.to].inst)
        /\ agents'[r.to].done = agents[r.to].done \cup {<<o, "stop">>}
        /\ agents'[r.to].open = agents[r.to].open
    <3> DEFINE left == AfterStop(agents[r.to].inst)
               u == [agents[r.to] EXCEPT !.inst = left]
               w == [u EXCEPT !.epoch = 0]
               v == [w EXCEPT !.done = Remembered(r)]
    <3>1. agents' = [agents EXCEPT ![r.to] = v]
      BY <1>8 DEF AgentStop
    <3>2. u.inst = left /\ u.open = agents[r.to].open /\ u.done = agents[r.to].done
      BY <1>0 DEF AgentRecords
    <3>3. w.inst = left /\ w.open = agents[r.to].open /\ v.inst = w.inst /\ v.open = w.open
          /\ v.done = Remembered(r)
      BY <1>0, <3>2 DEF AgentRecords
    <3> HIDE DEF left, v
    <3>4. agents'[r.to] = v
      BY <1>0, <3>1
    <3>5. QED  BY <2>1, <3>3, <3>4 DEF Remembered, left
  <2>3. WorksOn(o) /\ ops'[o].reply = "ok" /\ ops[o].pc = "stopping"
    BY <1>0, <1>1, <1>2, <1>3, <2>1, <2>2 DEF WorksOn, PathOf
  <2>4. /\ \A h \in Hosts : HasProcess(h)' => HasProcess(h)
        /\ agents'[r.to].inst \in {"none", agents[r.to].inst}
        /\ ~HasProcess(r.to)'
    BY <1>0, <1>1, <2>2 DEF HasProcess, AfterStop, AgentRecords, OInv, ProcessOwned
  <2>5. NoProcess => NoProcess'
    BY <2>4 DEF NoProcess
  <2>6. ProcessOwned'
    BY <1>1, <2>4 DEF OInv, ProcessOwned
  <2>7. LaunchStarts'
    <3>1. \A p \in OpIds : Unstarted(p)' => Unstarted(p)
      <4>1. ASSUME NEW p \in OpIds, p # o, Unstarted(p)' PROVE Unstarted(p)
        <5>1. ops'[p] = ops[p] /\ \A h \in Hosts : agents'[h].open = agents[h].open
          BY <1>0, <1>1, <2>2, <2>3, <4>1 DEF WorksOn
        <5>2. QED  BY <4>1, <5>1 DEF Unstarted
      <4>2. ~Unstarted(o)'
        BY <2>3 DEF WorksOn, Unstarted
      <4>3. QED  BY <4>1, <4>2
    <3>2. QED  BY <2>5, <3>1 DEF OInv, LaunchStarts
  <2>8. ops[o].m \in Managers /\ Holds(ops[o].m) => NoProcess'
    BY <1>0, <1>2, <2>3, <2>4 DEF OInv, HolderStops, ProcessOwned, NoProcess
  <2>9. \A h \in Hosts, n \in 1..Attempts : <<o, n>> \notin agents'[h].open
    BY <1>0, <1>1, <2>2, <2>3 DEF OInv, OpenAwaited
  <2>10. \A h \in Hosts : <<o, "launch">> \notin agents'[h].done
    <3>1. \A h \in Hosts : <<o, "launch">> \notin agents[h].done
      BY <1>0, <2>3 DEF OInv, DoneAnswered
    <3>2. <<o, "launch">> # <<o, "stop">>
      OBVIOUS
    <3>3. QED  BY <1>0, <1>1, <2>2, <3>1, <3>2
  <2>11. QED
    BY <1>0, <2>3, <2>5, <2>6, <2>7, <2>8, <2>9, <2>10, WorksOnKeeps
<1>9. QED  BY <1>4, <1>5, <1>6, <1>7, <1>8 DEF Execute

\* A /launch handler ends, and its operation hears of it.
LEMMA FinishKeeps ==
  ASSUME ClusterAssumption, TypeOK, OInv, NEW h \in Hosts, Finish(h)
  PROVE  OInv'
<1>1. PICK o \in OpIds, n \in 1..Attempts : AgentLaunched(h, o, n)
  BY DEF Finish
<1> DEFINE r == [op |-> o, path |-> "launch", try |-> n]
<1>2. /\ <<o, n>> \in agents[h].open /\ Answer(r, "ok") /\ UNCHANGED <<row, held, lost, net, fences>>
      /\ ops[o].pc = "launching" /\ ops[o].try = n /\ ops[o].reply = "none" /\ ops[o].host = h
  BY <1>1 DEF AgentLaunched, OInv, OpenAwaited
<1>3. /\ \A p \in OpIds : p # o => ops'[p] = ops[p]
      /\ ops'[o].m = ops[o].m /\ ops'[o].pc = ops[o].pc /\ ops'[o].host = ops[o].host
      /\ ops'[o].source = ops[o].source /\ ops'[o].reply = "ok"
  <2>1. ops' = [ops EXCEPT ![o].reply = "ok"]
    BY <1>2 DEF Answer, PathOf
  <2>2. QED  BY <2>1, OpType DEF TypeOK, OpRecords
<1>4. /\ \A g \in Hosts : g # h => agents'[g] = agents[g]
      /\ agents'[h].inst = agents[h].inst /\ agents'[h].open = agents[h].open \ {<<o, n>>}
      /\ agents'[h].done = agents[h].done \cup {<<o, "launch">>}
  BY <1>1 DEF AgentLaunched, TypeOK
<1>5. \A q \in net : q.op # o
  BY <1>2, LaunchRequest, NetType DEF OInv, NetAwaited, PathOf
<1>6. WorksOn(o)
  BY <1>2, <1>3, <1>4, <1>5 DEF WorksOn
<1>7. \A g \in Hosts : HasProcess(g)' <=> HasProcess(g)
  BY <1>4 DEF HasProcess
<1>8. ProcessOwned' /\ (NoProcess' <=> NoProcess)
  BY <1>2, <1>4, <1>7 DEF OInv, ProcessOwned, NoProcess
<1>9. LaunchStarts'
  <2>1. \A p \in OpIds : Unstarted(p)' => p # o
    BY <1>2, <1>3 DEF Unstarted
  <2>2. \A p \in OpIds : p # o /\ Unstarted(p)' => Unstarted(p)
    BY <1>3, <1>4 DEF Unstarted
  <2>3. QED  BY <1>8, <2>1, <2>2 DEF OInv, LaunchStarts
<1>10. \A g \in Hosts, k \in 1..Attempts : <<o, k>> \notin agents'[g].open
  BY <1>2, <1>4 DEF OInv, OpenAwaited
<1>11. \A g \in Hosts : <<o, "stop">> \in agents'[g].done => <<o, "stop">> \in agents[g].done
  BY <1>4
<1>12. QED
  BY <1>2, <1>3, <1>6, <1>8, <1>9, <1>10, <1>11, WorksOnKeeps DEF OInv, DoneAnswered

\* A process ends.
LEMMA EndKeeps ==
  ASSUME TypeOK, OInv, NEW g \in Hosts, InstanceEnds(g)
  PROVE  OInv'
<1>1. /\ \A h \in Hosts : /\ agents'[h].done = agents[h].done /\ agents'[h].open = agents[h].open
                          /\ agents'[h].inst \in {"none", agents[h].inst}
      /\ UNCHANGED <<row, held, lost, ops, net, fences>>
  BY DEF InstanceEnds, TypeOK
<1>2. OneAtATime' /\ HeldRuns' /\ LaunchHolds'
  BY <1>1 DEF OInv, OneAtATime, Busy, HeldRuns, Holds, Matches, LaunchHolds
<1>3. NetAwaited' /\ OpenAwaited' /\ DoneAnswered'
  BY <1>1 DEF OInv, NetAwaited, PathOf, OpenAwaited, DoneAnswered
<1>4. NoProcess => NoProcess'
  BY <1>1 DEF NoProcess, HasProcess
<1>5. ProcessOwned' /\ LaunchStarts' /\ HolderStops'
  BY <1>1, <1>4 DEF OInv, ProcessOwned, HasProcess, LaunchStarts, Unstarted, HolderStops, Holds
<1>6. QED  BY <1>2, <1>3, <1>5 DEF OInv

\* When every call is answered in time, no lease runs out and no process of the
\* control plane restarts, and each Manager works one operation at a time, the
\* user has one process in the whole cluster, none where the row may be claimed,
\* and no heartbeat fences (leased-spawner.ts: launch, stop; agent.ts: /launch,
\* /stop).
THEOREM OneWriter ==
  ASSUME ClusterAssumption, Serial, Faults = {}
  PROVE  Spec => []OrderlySafe
<1>1. ClusterAssumption /\ Init => OInv
  BY DEF ClusterAssumption, Init, OInv, OneAtATime, Busy, NoOp, HeldRuns, Holds, NoLease, LaunchHolds,
         Claimed, NetAwaited, OpenAwaited, DoneAnswered, ProcessOwned, HasProcess, LaunchStarts,
         Unstarted, HolderStops
<1>2. ASSUME CInv, OInv, [Next]_vars PROVE OInv'
  <2> TypeOK
    BY <1>2 DEF CInv
  <2>1. CASE UNCHANGED vars
    BY <1>2, <2>1 DEF vars, OInv, OneAtATime, Busy, HeldRuns, Holds, Matches, LaunchHolds, NetAwaited,
       PathOf, OpenAwaited, DoneAnswered, ProcessOwned, HasProcess, LaunchStarts, Unstarted,
       NoProcess, HolderStops
  <2>2. ~Expire /\ \A m \in Managers : ~RestartManager(m)
    BY DEF Expire, RestartManager
  <2>3. \A h \in Hosts : ~RestartAgent(h)
    BY DEF RestartAgent
  <2>4. fences = {}
    BY <1>2 DEF OInv, HeldRuns
  <2>5. QED
    BY <1>2, <2>1, <2>2, <2>3, <2>4, StartKeeps, RenewKeeps, OpKeeps, ExecuteKeeps, FinishKeeps,
       EndKeeps DEF Next
<1>3. CInv /\ OInv => OrderlySafe
  <2> SUFFICES ASSUME CInv, OInv PROVE OrderlySafe
    OBVIOUS
  <2>1. TypeOK /\ SingleWriter
    BY DEF CInv, OInv, ProcessOwned, SingleWriter
  <2>2. FreeMeansStopped
    BY ClaimableFree DEF FreeMeansStopped, NoProcess
  <2>3. NobodyIsFenced
    BY DEF OInv, HeldRuns, NobodyIsFenced
  <2>4. QED  BY <2>1, <2>2, <2>3 DEF OrderlySafe
<1>4. QED  BY <1>1, <1>2, <1>3, Invariance, PTL DEF Spec
=============================================================================
