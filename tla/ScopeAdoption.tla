---------------------------- MODULE ScopeAdoption ----------------------------
(* What becomes of the instances of a worker's previous process              *)
(* (src/src/supervisor/orchestrator.ts, the scopes): they go on in systemd   *)
(* scopes; the new process lists them, adopts them one timer tick after the  *)
(* other, and asks each one's port whether anybody listens.  Meanwhile users *)
(* launch, which stops their old scopes, and the agent declares to the relay *)
(* the ports of launched and adopted instances (src/src/worker/agent.ts).    *)
EXTENDS Naturals, FiniteSets

CONSTANTS Users, Units, Ports, None,
          Owner,     \* unit -> the user its name's uid belongs to
          Readable,  \* the units whose description parses as a main instance's
          Stubborn   \* the units that systemd may refuse to stop

OwnerAssumption == Owner \in [Units -> Users] /\ Readable \cup Stubborn \subseteq Units

VARIABLES os,        \* unit -> "absent", "deaf" (no listener yet) or "up"
          port,      \* unit -> the port it was started with
          found,     \* the units this process found when it started
          left,      \* the ones it has not looked at
          record,    \* unit -> None, "asked" or "alive": the adopted table
          asking,    \* units whose probe is under way (pendingProbes)
          settled,   \* how often the agent was told that it is over
          launch,    \* user -> the launch under way, or None
          mine,      \* units this process launched
          declared   \* ports the agent has declared to the relay

vars == <<os, port, found, left, record, asking, settled, launch, mine, declared>>

Launches == [pc : {"clean", "spawn"}, port : Ports]

TypeOK == /\ os \in [Units -> {"absent", "deaf", "up"}]
          /\ port \in [Units -> Ports \cup {None}]
          /\ left \subseteq found /\ found \subseteq Units
          /\ record \in [Units -> {None, "asked", "alive"}]
          /\ asking \subseteq found /\ settled \in 0..1
          /\ launch \in [Users -> Launches \cup {None}]
          /\ mine \subseteq Units \ found
          /\ declared \subseteq Ports
          /\ {x \in Units : record[x] # None} \subseteq found \ left

Running == {x \in Units : os[x] # "absent"}
Listener(p) == \E x \in Units : os[x] = "up" /\ port[x] = p
OfUser(u) == {x \in Running : Owner[x] = u}

(* The previous process left some instances; those of one listing are found, *)
(* and a listing that fails finds none.                                      *)
Scan(running) == /\ found \in {running, {}}
                 /\ left = found

Init == /\ os \in [Units -> {"absent", "up"}]
        /\ port \in [Units -> Ports \cup {None}]
        /\ \A x \in Units : port[x] = None <=> x \notin Running
        /\ \A x, y \in Running : port[x] = port[y] => x = y
        /\ Scan(Running)
        /\ record = [x \in Units |-> None] /\ asking = {} /\ settled = 0
        /\ launch = [u \in Users |-> None] /\ mine = {} /\ declared = {}

(* A stop that systemd refuses is passed over.                               *)
Stopped(xs) == {[x \in Units |-> IF x \in xs \ ys THEN "absent" ELSE os[x]]
                  : ys \in SUBSET (xs \cap Stubborn)}

(* Over when every found scope was looked at and every probe has answered.   *)
MaybeSettled(left_, asking_) == IF left_ = {} /\ asking_ = {} THEN 1 ELSE settled

(* What the agent declares: launched and adopted.                            *)
LivePorts == {port[x] : x \in (mine \cap Running) \cup {y \in Units : record[y] = "alive"}}

-----------------------------------------------------------------------------
(* decideScopeAction: two scopes of one user, and what cannot be read.       *)
Unfit(x) == x \notin Readable \/ \E y \in found \ {x} : Owner[y] = Owner[x]

ToStop(x) == {x}

AdoptOne(x) ==
  /\ x \in left
  /\ left' = left \ {x}
  /\ IF Unfit(x)
     THEN /\ os' \in Stopped(ToStop(x))
          /\ UNCHANGED <<record, asking>>
     ELSE /\ record' = [record EXCEPT ![x] = "asked"]
          /\ asking' = asking \cup {x}
          /\ UNCHANGED os
  /\ settled' = MaybeSettled(left', asking')
  /\ UNCHANGED <<port, found, launch, mine, declared>>

SettlesEmpty ==
  /\ found = {} /\ settled = 0
  /\ settled' = 1
  /\ UNCHANGED <<os, port, found, left, record, asking, launch, mine, declared>>

(* The probe reaches whoever listens on the port by then.                    *)
ProbeOk(x) ==
  /\ x \in asking /\ Listener(port[x])
  /\ asking' = asking \ {x}
  /\ record' = [record EXCEPT ![x] = IF @ = None THEN None ELSE "alive"]
  /\ settled' = MaybeSettled(left, asking')
  /\ UNCHANGED <<os, port, found, left, launch, mine, declared>>

(* Nobody listens, or the answer is late: an orphan.                         *)
ProbeFails(x) ==
  /\ x \in asking
  /\ asking' = asking \ {x}
  /\ record' = [record EXCEPT ![x] = None]
  /\ os' \in Stopped(ToStop(x))
  /\ settled' = MaybeSettled(left, asking')
  /\ UNCHANGED <<port, found, left, launch, mine, declared>>

-----------------------------------------------------------------------------
(* A launch: the first port nobody listens on, and an await ...              *)
FindsPort(u) ==
  /\ launch[u] = None /\ mine \cap OfUser(u) = {}
  /\ \E p \in Ports : ~Listener(p) /\ launch' = [launch EXCEPT ![u] = [pc |-> "clean", port |-> p]]
  /\ UNCHANGED <<os, port, found, left, record, asking, settled, mine, declared>>

\* Mutant: only the scopes of the adopted table.
StaleAdopted(u) == {x \in OfUser(u) : record[x] # None}

StaleOf(u) == OfUser(u)

(* ... the user's scopes, whoever they are from, with their records ...      *)
CleansStale(u) ==
  /\ launch[u] # None /\ launch[u].pc = "clean"
  /\ os' \in Stopped(StaleOf(u))
  /\ record' = [x \in Units |-> IF x \in StaleOf(u) THEN None ELSE record[x]]
  /\ launch' = [launch EXCEPT ![u].pc = "spawn"]
  /\ UNCHANGED <<port, found, left, asking, settled, mine, declared>>

(* ... and the new scope, under a name of its own.                           *)
Spawns(u) ==
  /\ launch[u] # None /\ launch[u].pc = "spawn"
  /\ \E x \in Units \ (found \cup mine) :
       /\ os[x] = "absent" /\ Owner[x] = u
       /\ os' = [os EXCEPT ![x] = "deaf"]
       /\ port' = [port EXCEPT ![x] = launch[u].port]
       /\ mine' = mine \cup {x}
  /\ launch' = [launch EXCEPT ![u] = None]
  /\ UNCHANGED <<found, left, record, asking, settled, declared>>

Listens(x) ==
  /\ os[x] = "deaf" /\ ~Listener(port[x])
  /\ os' = [os EXCEPT ![x] = "up"]
  /\ UNCHANGED <<port, found, left, record, asking, settled, launch, mine, declared>>

Dies(x) ==
  /\ os[x] # "absent"
  /\ os' = [os EXCEPT ![x] = "absent"]
  /\ UNCHANGED <<port, found, left, record, asking, settled, launch, mine, declared>>

(* The agent's tick, which the settled call runs once at once.               *)
Reconciles ==
  /\ declared' = LivePorts
  /\ UNCHANGED <<os, port, found, left, record, asking, settled, launch, mine>>

(* A new process of the worker: it knows nothing, the scopes go on.          *)
Restarts ==
  /\ found' \in {Running, {}} /\ left' = found'
  /\ record' = [x \in Units |-> None] /\ asking' = {} /\ settled' = 0
  /\ launch' = [u \in Users |-> None] /\ mine' = {} /\ declared' = {}
  /\ port' = [x \in Units |-> IF x \in Running THEN port[x] ELSE None]
  /\ UNCHANGED os

Adopts == (\E x \in Units : AdoptOne(x) \/ ProbeOk(x) \/ ProbeFails(x)) \/ SettlesEmpty

Next == \/ Adopts \/ Reconciles \/ Restarts
        \/ \E u \in Users : FindsPort(u) \/ CleansStale(u) \/ Spawns(u)
        \/ \E x \in Units : Listens(x) \/ Dies(x)

Spec == Init /\ [][Next]_vars

(* The process's timers and sockets; that it is restarted, that a user       *)
(* launches and that an instance dies need not happen.                       *)
FairSpec == Spec /\ WF_vars(Adopts) /\ WF_vars(Reconciles)

-----------------------------------------------------------------------------
(* The adoption stops only scopes of the previous process, though the users  *)
(* launch new ones between the listing and its decisions.                    *)
NewLeftAlone ==
  [][Adopts => \A x \in mine : os'[x] = os[x]]_vars

(* The agent is told it is over when every found scope was decided, so that  *)
(* what it declares then is all there is (序 ㊽, maybeRehydrateSettled).      *)
SettledIsDecided ==
  settled = 1 => left = {} /\ \A x \in Units : record[x] # "asked"

(* Beside an instance that this process launched nothing of its user runs,   *)
(* except what systemd refused to stop, so that two instances never share a  *)
(* profile (cleanStaleScopes).                                               *)
OneInstancePerUser ==
  \A x \in mine \cap Running : OfUser(Owner[x]) \subseteq {x} \cup Stubborn

(* The adoption comes to its end, unless the process is restarted for ever.  *)
Settles == []<>(settled = 1) \/ []<><<Restarts>>_vars

(* An adopted instance that stays is declared in the end: nobody else would  *)
(* (序 ㊽, liveInstancePorts).                                                *)
AdoptedDeclared ==
  \A x \in Units : <>[](record[x] = "alive") => <>[](port[x] \in declared)
=============================================================================
