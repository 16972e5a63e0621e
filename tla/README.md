# Verification of dsh_ai1net

TLA+ models of the parts of dsh_ai1net in which several actors share state: who
owns a user's instance and who runs its processes, how relays join the nodes of
an overlay network, who is let into it, and the services of the web server that
work beside running instances. TLC checks every model on small instances;
TLAPS proves the most important invariants for every instance.

Source paths below are relative to the repository root.

## 1. The system

A **Manager** (Node.js, Fastify) serves the web pages and decides on which host
a user's DSH instance runs. On every **worker** host an **agent** starts and
stops the instances. Managers share a PostgreSQL database. Nodes behind NAT
keep one WebSocket each to a **relay**, which carries TCP streams between the
Managers, or dialling nodes, and the workers' local ports.

```
 page -- proxy -- web server -- LeasedSpawner -- RemoteSpawner ==HTTP==> worker agent -- LocalSpawner -- processes
                      |               |                                      |
                      |        InstanceLease -- dsh_instances row        tunnel ports
                 landing pool                                               |
                      +-------- relay server ======= WebSocket ======= relay client
                                     |
                    directory, registry, keys: who may join, and where
```

### Components

| Component | State | Operations | Hard behaviour | What makes it correct |
|---|---|---|---|---|
| Instance lease `src/supervisor/lease.ts`, `src/db/pg.ts` | one row per user: host, epoch, lease end; `held` per Manager | claim, renew, release, pin, heartbeat | calls in flight together, answers late or lost, clock skew, restarts | one holder; tokens unique and growing; a punctual holder keeps its lease |
| Manager-side spawners `leased-spawner.ts`, `remote-spawner.ts` | `held`, operations under way, cached hosts | launch, restartMain, stop, migrate, fence | retries, late requests, operations that overlap | one live process per user; a launch goes to the host the claim names |
| Worker agent `src/worker/agent.ts` | op cache, epochs, declared ports | /launch, /stop, /fence, tunnel ticks | duplicates, restart, overlapping ticks | repeats answers, not work; live ports are reachable |
| Local spawner `orchestrator.ts`, `crash-policy.ts` | `mains`, `watchdogs`, timers, crash history, breaker | launch, restart, stop, spawnWatchdog, exit | awaits inside a spawn, scopes that register late | every process is in a map; no entry is wedged; a main comes back |
| Scope adoption, mounts (`orchestrator.ts`) | adopted records; bind mounts | rehydrate, probe, clean; plan | races with launches; mounts that hide others | one instance per user; other users' data is not seen |
| Instance proxy, recovery page `proxy.ts`, `assets/inject/recovery.js` | cookies, endpoints; the page's counters | forward, retry, enter; probe, recover | the instance is replaced during a request | requests are answered; the page finds its instance, and is not reloaded for one failure |
| Relay server `src/net/relay/server.ts`, `wire.ts` | sessions, endpoints, streams, counters, presence table | HELLO, PORT_ADD/DEL, DIAL, OPEN, DATA, CLOSE, SUB, stop | superseded connections, abrupt ends, full buffers | tables agree; limits hold; bytes in order; the mirror is exact |
| Relay client, worker tunnels `client.ts`, `src/worker/*tunnel.ts` | connection, ports, dial waiters; forwarded ports | connect, back-off, add, remove, dial; forward, cancel, heal | events of superseded sockets, replaced connections | what was added is served again; what is gone is withdrawn |
| Path switcher, landing pool `switcher.ts`, `dialer.ts` | channel in use, cooling; slots and keys | check, replace; ask, release | replacements that overlap; all slots in use | a way is found; an address leads where it was given out for |
| Directory, reachability `directory.ts`, `rendezvous.ts`, `reachability.ts` | cached signed directory; polled and pushed endpoints | resolve, refresh; poll, push | everything known has moved; a late snapshot | the directory in force is reached; an instance behind a relay is never dialled at its own address |
| Enrolment, identity `join.ts`, `registry.ts`, `identity.ts`, `keys.ts` | invitations, registry, whitelist; signer sets, grants, revocations | join, apply, approve, remove, derive; HELLO | two receivers, damaged files, restarts | one intake per invitation; only vouched nodes have sessions |
| Content plane, direct path `content/*`, `direct/*` | stores, peers, fetches; candidates, probes, cooling | put, fetch, evict; announce, probe | wrong answers, key rotation; one-way paths | what is put together is what was planned; "direct" means both ways |
| Accounts, e-mail codes `src/web/routes/auth.ts`, `admin.ts`, `email-code.ts` | users, sessions, code events | register, login, approve, disable, delete; issue, check | handlers interleave at every await | only approved users have sessions; one account per code |
| Models, skills, plugins `model-landing.ts`, `skills.ts`, `whitelist.ts`, `business-plugins.ts` | managed lines; directories; catalogue; profile | land; upload, apply, disable; list, import; install, probe, roll back | several requests on one file or directory | the user's lines stay; what is listed is whole; a task tells the truth |
| Database `src/db/schema.ts`, adapters | migrations, users | open, migrate, back-fill | processes that open it together | every version once |
| Placement `placement.ts` | - | choose | - | never a full node, never a worse one |

PROJECT.json lists every component with its status, and under "hazards" what
is hard to test in it, line by line.

### Interactions

* Manager to database: awaited statements, no transaction around two of them.
  Any other call may run between sending, executing and answering.
* Manager to agent: HTTP with up to four tries under one operation id. A try
  that timed out may still be executed, after any delay.
* Inside one Node.js process nothing interrupts the code between two awaits;
  so a step of a model is the code from one await to the next.
* Relay to worker: two ordered queues of frames on one WebSocket, and the
  events of the local sockets on either side.
* Control plane to relay and nodes: files (registry, drop-ins, signed
  directories and lists) that are read when a process starts, or on a timer.

## 2. Modules

`MC` modules give TLC its instance; `_proofs` modules extend the module they
are named after, `ControlPlane_proofs` both `InstanceLease` and `HostRouting`,
`Portal_proofs` the six of the web server's door: `EmailCodes`, `Whitelist`,
`Placement`, `Accounts`, `Skills` and `ModelLanding`. PROJECT.json "map" has the source lines of every definition.

| Module | Models | State and actions against the code |
|---|---|---|
| `FencingToken` | what a lease promises: every grant is a new and higher token | the abstract specification that `InstanceLease` implements |
| `InstanceLease` | the row and the asynchronous calls on it, with clocks | `row` is the `dsh_instances` row, `held` is `InstanceLease.held`. A call is three actions (`CallClaim`, `ClaimInstance`, `ReturnClaim`): the code before the await, the SQL statement, the code after it. `Heartbeat` is a tick, `LoseCall` a lost answer, `Restart` a new process, `Skew` the difference of the clocks |
| `LeasedCluster` | the way from a request at a Manager to a process on a host | `ops[o].pc` is the await an operation stands at; `net` has requests an agent may still execute. Lease statements are single steps here. `Faults` chooses timeouts, expiry and restarts |
| `HostRouting` | on which host files, launches and other operations land | the two caches of the host table and the requests that read them across awaits |
| `LocalSpawner` | the processes of one user under one LocalSpawner | `inst[i].task` is the await a spawn stands at; `Slow` is the local mode, in which key and uid come late; `PromptScopes` that systemd lists a scope before the next spawn looks. Times are left out: a back-off, the crash window and the cool-down may end at any moment |
| `ScopeAdoption` | what a new worker process does with the scopes of the old one | the listing, one adoption per timer tick, the probe of a port, launches beside them, and what the agent declares |
| `MountPlan` | the file system an instance sees | a mount is a path and what it hides; `Plan` is the sequence of `--bind` arguments |
| `DshProxy` | the proxy in front of one user's instance | a start of the instance is a generation; token, cookie and port belong to one. A request captures jar and endpoint when the code does |
| `PageRecovery` | the script in every page | the script's variables; leaving the page starts them anew |
| `RelayPorts` | sessions, endpoints, streams, counters and gates of a relay | one action per frame handler and per event; `Register` contains the drop of the session it replaces; `Stop`, `StopSessions`, `Stopped` are the parts of `stop()` between its awaits |
| `RelayStream` | the bytes of the streams of one worker connection, both ends together | `relay[s]` is a `MuxStream`, `worker[s]` a `LocalStream`; a chunk is its direction and number, so order, loss, duplication and confusion are visible; `load` says which buffers fill |
| `RelayPresence` | the presence table and one subscriber's mirror | what has run out stands for time: the grace of a host, the TTL of a connection |
| `RelayClient` | a node's connection to the relay | every WebSocket has its own channels; listeners act on the present connection, whichever socket fired |
| `WorkerTunnel` | the ports of a worker over relay channels or an ssh master | two ticks may overlap, because the timer does not wait; a call takes effect when it returns |
| `PathSwitcher` | which relay a node uses | supervisor and directory refresh both run `replace`, which awaits in the middle |
| `BootstrapChain` | how a node finds a relay | the chain of environment, cache, signed directory, stale cache and seeds, while the network moves |
| `Reachability` | where the Manager dials a host | presence as the relay has it (`said`, `bound`, grace), batches of it on their way (`due`), the mirror, the polled snapshot and the pool, and what is built from them; a Manager may have no way to the relay |
| `LandingPool` | the local landing ports of the dialler | slots, their keys, the order of use and the connections under way |
| `Enrolment` | invitation, join, application, approval, whitelist | the receiving tool is external: it is modelled from the functions written for it |
| `Admission` | which connections a relay admits | signers of the environment, signer set, grant, revocations and key table as files, named or not; what relay and node read of them when they start; the gates of a HELLO in their order |
| `ContentPlane` | blocks, stores, peers, fetches | a key is a group and an epoch; stored bytes are `[key, plain]`; a fetch asks tier after tier |
| `DirectPath` | candidates, probes, cooling | packets pass a NAT after one went out; both sides probe at once |
| `EmailCodes` | registration by mail | a code is the number of its mail; requests interleave between reading the events, mailing and writing |
| `Accounts` | accounts, sessions and what an administrator does | one step per database call |
| `ModelLanding` | the model entries in the two files of an instance | a file is a function from keys to lines; who wrote a line last is kept beside it; every read and write of a file is a step, and the user edits at any time |
| `Skills` | the directories of one skill name | checks in one turn, then removals and a rename, each awaited |
| `Whitelist` | the catalogue of official plugins | the cached index, the verdicts that several requests fill, the import; a declaration is the set of versions its range allows (any set; one that cannot be read allows none) and of those that have the package |
| `BusinessPlugins` | the plugins of one user | the task that installs, probes, isolates and rolls back beside the running instance, whose exits are healed only if the error names a plugin and are counted by the breaker otherwise |
| `Migrations` | processes that open the database together | both dialects; back-fill and creation of uids |
| `Placement` | the choice of a node | a function of the candidates offered, none included, in hundredths, against its definition |

## 3. Runs

TLC needs a run for every question, and few of the questions here are about more
than one component. So the components of one area share a run: its MC
module instantiates them side by side, and a variable `part`, chosen in the
initial state and never changed, says which of them runs; the others stay in
their initial state. The state space is the sum, not the product, of
the components'; a property names the part it is about, and the fairness of a
component is stated for its part. The three counterexamples are runs of one
component.

| Run | Parts and instance | Shows |
|---|---|---|
| `control_plane` | lease: 2 Managers, a clock 3 ahead, TTL 3, 2 calls each, losses and restarts; routing: 2 hosts, 2 requests, 2 changes; proxy: 2 requests, 2 generations | tokens unique and never ahead of the row, one holder, refinement of `FencingToken`; files and instance land together; requests are served and end |
| `cluster` | 2 Managers, 2 hosts; 2 operations that overlap, with timeouts and expiry | a token belongs to one host and nothing is launched before the stop it follows |
| `cluster_agents` | 2 Managers, 3 operations in order without faults; and 1 Manager, 2 operations, where agents and Manager restart and answers are lost | in order, one process in the cluster, a free lease means none, nobody is fenced; whatever fails, every operation ends |
| `machine` | worker: 3 requests, 4 instances, 1 restart, 1 bad plugin; local: 2 requests with all awaits and failing spawns; scopes: 2 users, 3 scopes; mounts: 2 roots, 4 skill directories | on a worker every process is in its map and none is wedged; in a Manager, where spawns fail and are overtaken, which are the only ways to lose a process or to wedge a main, and that a main comes back; adopted scopes are decided and declared; an instance is confined |
| `relay` | ports: 2 nodes, a dialler, 3 connections, limits of 1 stream and 66 % of 3; stream: 7 loads; presence: 5 changes of a host, 2 lost links | tables agree, gates hold, a node keeps its seat, `stop()` ends; bytes arrive in order and none is lost; the mirror is exact |
| `client` | pool: 2 slots, 3 hosts, 2 connections; client: 2 sockets, 2 ports, 2 faults; tunnel: 3 kinds, 2 ticks, 2 faults | an address leads where it was given out for and a slot that carries streams keeps its key; what was added is served again, streams are routed, the client registers again; live ports are reachable and gone ones withdrawn |
| `paths` | admit: 3 nodes of one name, 2 networks, 2 signers, 3 environments of the relay; switcher: 3 urls, 3 channels, 2 events; join: 2 hosts, 3 directories, 2 faults; reach: 1 host, 2 lives of the relay, 3 changes, 1 lost link; direct: 2 nodes, 3 probes | sessions are vouched for and stand in their network; a way is found, the directory in force is used; an instance behind the relay is never dialled at its own address, a pushed landing is current, hosts are reached in the end; "direct" means both ways |
| `services` | lease: TTL 4, renewal 1, latency 1, clocks 1 apart, punctual heartbeats, time up to 4; page: 2 probes, 2 breaks; schema: 2 processes, both dialects, 3 users, 2 events; content: 2 nodes, store of 2, 2 epochs, 1 fault; plugins: 2 plugins, 2 tasks | a punctual holder's lease runs out on nobody's clock; the page reconnects; every migration once; contents are right and fetches end; tasks tell the truth and end, and the instance is up in the end unless a plugin that no error names kills it |
| `accounts` | enrol: 2 machines, 3 invitations; codes: 2 requests, 2 mails; users: 1 user, 3 handlers; models: 3 routes, 2 landings; skills: 1 user, 2 uploads, 2 requests; plugins: 1 plugin with 2 declarations, 3 platform versions, 1 request and the warm-up; nodes: 2 candidates, all offered or one | one intake per invitation; one account per code; only approved users have sessions; the user's lines stay, but where he changes them during a landing; uploads touch nothing; plugins are hidden for an unmet declaration of their own only; the choice is fair |
| `cluster_writers` | 3 operations that overlap, no fault | *violated*: `SingleWriter` (section 5) |
| `spawner_stop_restart` | worker | *violated*: `StopCancelsRestart` (section 5) |
| `relay_stream_mixed` | 1 stream, traffic both ways, a slow socket or uplink | *violated*: `StreamInOrder` (section 5) |

Every property of a passing run has a mutant in PROJECT.json: one definition,
changed as a plausible bug in its code would, for which TLC finds the property
violated. Deadlock is not checked: bounded requests and events end.

### Why the bounds are enough

* Lease: a takeover needs two Managers, a confusion of tokens two grants and one
  call that outlives the first. The invariants relate two Managers at a time, and
  the theorems need no bound. For punctual heartbeats the proof takes over where
  the clock of the run ends.
* Cluster: the shortest loss of `SingleWriter` takes three operations, so three
  in order are those that lose it when they overlap. `Attempts` = 2 has a first and a
  repeated try. What two operations with faults show is proved for any number.
* Spawner: a stray process takes two spawns; four instances leave room for a
  main, its replacement, the watchdog and one late spawn.
* Relay tables: a session, its successor and a dialler are three connections; one
  stream at a time is enough for every way a stream begins and ends, and what
  several do to the counters is proved (`CounterCorrect`).
* Relay streams: a queue of two has an order and overflows at the third chunk; two
  streams share a full connection.
* Client: two sockets are the old and the new one; faults come in pairs.
* Landing ports: two slots for two hosts are a pool with room, and one of them
  bound a pool without; the third host is in another network.
* Paths and services: one moved network and one before it; a host that goes and
  comes; a fault during the repair of another; three nodes are two that share a
  name and one of the other network.
* Reachability: hosts share the relay's life, the subscription and the pool, and no state of
  one is read for another, so one host beside them is enough.
* Accounts: two requests that interleave at every await, and the administrator
  beside them. Codes, catalogue and choice have the smallest values at which each
  guard decides; what more of them could do is proved.

### Fairness

Only what the code's timers and Node.js's event loop give is fair; users,
administrators, faults, agents' answers and the other ends of sockets never have
to act.

* `LeasedCluster`: the steps of an operation (calls have a timeout and a limit).
* `LocalSpawner`: tasks and fired timers. `ScopeAdoption`: its timers and probes.
* `RelayPorts`: the authentication deadline, the end of a closed connection and the
  steps of `stop()`. `RelayStream`: frames arrive, buffers drain, attempts end; a
  peer that never drains is outside this assumption, for the code has no timer
  for it. `RelayPresence`: the presence timer and a link that is there.
* `RelayClient`, `WorkerTunnel`: timers, connects, deadlines, ticks.
* `PathSwitcher`, `BootstrapChain`: timers and the deadlines of requests.
* `ContentPlane`, `DirectPath`: channels answer or fail; the probe's deadline.
* `Reachability`: the timers of poll, batches, grace and directory, a `listen` that is
  answered, and a relay that is started again. The poll is strongly fair: its gate opens and closes with the presence
  link, and the timer fires again and again.
* `PageRecovery`: timers, and an instance that is being started comes up.
  `Migrations`: a process that ended is started again. `BusinessPlugins`: the
  server goes on with a task, the instance with what it loads.

## 4. Proofs

The theorems hold for every value of the constants that satisfies the named
assumptions of the module (`ASSUME ... Assumption`, evaluated by TLC in every
run): sets of Managers, hosts, nodes and connections of any size, any limits, any
number of operations. Each is a safety property; the pattern is `Init => IInv`,
`IInv /\ [Next]_vars => IInv'`, `IInv => Inv`, with one step per action. TLC found
every `IInv` to be an invariant of a run before it was proved.

| Module | Theorem | Under | Establishes |
|---|---|---|---|
| `ControlPlane_proofs` | `TypeCorrect`, `HostsKnown` | - | types; held leases and calls name a host |
| | `TokensCorrect`, `SingleHolder` | - | `TokenInv`, `OneHolder` of run `control_plane` |
| | `LeaseImplementsFencing` | - | every behaviour is one of `FencingToken` |
| | `PromptLeases`, `HolderKeepsLease`, `PromptLeaseHolds` | `PromptAssumption` | `PromptLease` of run `services`: a punctual holder's lease runs out on nobody's clock |
| | `RoutingCorrect`, `RoutingIsTrue` | `RoutingAssumption` | `RoutingTrue` of run `control_plane`: the owner keeps files and launches, an instance starts where its lease says, a joined host is found |
| `LeasedCluster_proofs` | `Invariance`, `TypeCorrect`, `TokensStayWithHost` | any faults | `TokenNamesHost` of run `cluster`: a token belongs to one host |
| | `StopsComeFirst` | no agent restarts | `StopBeforeLaunch` of run `cluster` |
| `LocalSpawner_proofs` | `TypeCorrect` | - | types; automatic restarts stay within their limit |
| | `ProcessesLostOnlySo`, `OnlyFailuresWedge` | - | `StraysArise`, `WedgedOnlyByFailure` of `LocalObeys` in run `machine`: the only ways to lose a process and to wedge a main |
| `RelayPorts_proofs` | `TablesAgree`, with `SessionsAgree`, `EndpointsAgree`, `NoOrphanStreams` | - | `TablesMatch` of run `relay` |
| | `CounterCorrect` | - | a port's counter exceeds neither its open streams nor the limit |
| | `SeatsBounded`, `SeatKept` | - | `SeatsWithinLimits`, `KeepsSeat` of run `relay` |
| `Enrolment_proofs` | `TypeCorrect`, `EnrolmentCorrect` | - | `EnrolmentSafe` of run `accounts` |
| `Admission_proofs` | `AdmissionCorrect`, with `TypeCorrect`, `SessionsVouched`, `SessionsPlaced`, `RevocationHolds` | `AdmissionAssumption` | `AdmissionSafe` of run `paths` |
| `LandingPool_proofs` | `SlotsCorrect` | `PoolAssumption` | `SlotsTrue` of run `client` |
| `Portal_proofs` | `CodesCorrect`, `CodesProved` | `PolicyAssumption` | `CodesProve` of run `accounts`: one account per mailed code, tries at it bounded |
| | `CatalogueCorrect`, `CatalogueHonest` | `NilAssumption`, `DeclaresAssumption` | `WhitelistHonest` of run `accounts`: hidden for an unmet declaration of its own only |
| | `ChoiceFair` | `RangesAssumption` | `PlacementFair` of run `accounts`: never a full node, never a worse one |
| | `AccountsCorrect`, `AccountsAreGoverned` | - | `AccountsGoverned` of run `accounts`: approved accounts only, the last login wins |
| | `SkillsCorrect`, `SkillsAreKept` | `PlacesAssumption` | `SkillsKept` of run `accounts`: nothing goes by an upload alone |
| | `LandingCorrect`, `ModelsAreLanded` | `LandingAssumption` | `ModelsLand` of run `accounts`: the user's lines stay but where his change races a landing, an undisturbed landing ends right |

### The lease

`TokenInv` is inductive together with `TypeOK` because it speaks of all the tokens
a Manager can still put to use (`Used`: the record, the calls under way and their
answers), not only of the one it holds; that an answered claim carries a token
unlike every other in its Manager's hands is what keeps a late answer harmless.
The lemma `StepShape` reduces thirteen actions to three shapes: a call moves and
no token is new; a claim is granted the next token; a Manager restarts and forgets.
`TokenInv` and the refinement of `FencingToken` are then proved over the shapes.
`OneHolder` follows: two records that match the row carry the row's token. No
assumption on clocks is used, so fencing is safe under any skew.

`PromptInv` is what timing adds, and the only part that uses `PromptAssumption`
(the renewal interval, two latencies and the skew fit into the TTL). It relates
the age of a call, the time to the next beat and the end of the lease in the row:
a lease is always covered by a renewal that is under way or due (`HolderLive`,
`GrantLive`), and a pin under way was sent before the lease in the row ends, so it
finds the row held (`PinStale`). `FreshLease` is where the assumption enters; `QuietKeepsTimely` covers the
steps that move neither the clock nor the row.

### Routing

`RoutingInv` says of every request (`Fit`) where its kind may stand, that an owner
which was up when it began and has stayed so is in the rows it listed and is the host it
chose, and that a launch goes to the host it claimed. Whoever pins or claims another host
makes the others forget the owner they began with (`RowMoves`), so what they chose is no
longer compared with it. A launch that has read the directory itself finds its host, unless
a read failed. That "itself" is the point: `hostFor` resets
the time and reads in one turn, so no other request's read, still under way, can stand in for
it. With the reset as a step of its own three requests at once would call a joined host
unknown, which the two of the run do not show; the theorem holds for any number.
`LowestHost` shows that `Min` of a set of hosts is one of them, with the library's
`WFMin` in the place of induction.

### The cluster

*Any faults.* `CInv` says that the row's epoch is the number of operations that were
granted a token (`Counted`, which also bounds the epochs), that no two have the
same (`TokenOnce`), and that the row, the requests for a launch and the agents' epochs
carry tokens granted for the host they are found at. A step is `Quiet`, which
creates no token, or a claim that is granted. `TokenNamesHost` follows:
renewing, releasing and fencing by epoch concern the host where the process is,
however late a request arrives. It survives every fault, restarts included;
that the agent's epoch only grows does not (section 5).

*No agent restarts.* `StopsExecuted` adds what is known while a stop is answered and
afterwards: some agent's op cache has it. An agent that restarts forgets its cache,
hence the hypothesis; timeouts, repeated tries, expired leases and Manager restarts
are allowed.

*One operation of a Manager at a time, no faults.* Nothing in the code enforces either
hypothesis, so `OneWriter` is no guarantee of the system and not in the table: it says that
overlap and faults are all that `OrderlySafe` can be lost by. `OInv` ties five tables together:
whoever holds the lease is the row's one holder (`HeldRuns`), a launch that was
granted the row still holds it (`LaunchHolds`), a request is the one its
operation waits for and no agent knows it (`NetAwaited`), unfinished handlers and
remembered operations are where their operations say (`OpenAwaited`,
`DoneAnswered`), a process runs where the row says, under its lease
(`ProcessOwned`), there is none as long as the launch has not started one
(`LaunchStarts`) and none once the holder's stop was answered (`HolderStops`).
`WorksOn` and `GoesOn` are what an agent's and a Manager's steps may do in terms of
these. Launches may fail, processes may end at any moment, and Managers work side
by side. Both hypotheses are needed: `cluster_writers` is the counterexample without
`Serial`, and with expiry or timeouts a second process may start (section 5).

### The spawner

Both theorems hold in every setting: late scopes, failing spawns, key and uid that come
late. `Loses` says of a step which process it may drop from the maps; `RequestSafe`,
`StopSafe` and `StepSafe` show for each kind of step that it loses one only by registering over
the main while a spawn waits for its port, or by forking for a record that was stopped or
replaced while it waited, and that it leaves no main without a process but after a failed
spawn. On a worker whose scopes are listed at once and whose spawns do not fail none of this
happens, for key and uid are at hand there: run `machine` checks it as `NoStray` and
`NeverWedged` on its instance.

### The relay

`IInv` of `RelayPorts` has the types, that streams are finitely many, `Tables`,
`Draining` (a server that stops has no session), `Seated` (every
number of hosts below the present one is admitted) and `CounterSound`. `Seated` is why
the gates hold after every departure and why a registered host that registers
again is never refused (`NeverRefused`): it is counted without itself. That
`DropKeepsTables` holds for any connection is what makes `Register`, which drops
the session it replaces, keep them. The counters are one-sided: closing an endpoint
deletes a counter while streams live (section 5), so "not above", never "equal".

### Enrolment and admission

`EnrolmentSafe` needs, beside itself, that an application was matched with its
invitation before it was taken (`Matching`), that the registry holds nothing else
(`Entered`), and that the drop-in file and the whitelist a relay read, however old,
name only what was approved and invited (`Earned` of both). `Admission` adds that a
relay trusts only signers that the root, or its own operator, authorised (`RootTrusted`) and that one which
requires identity runs with the last list it could read, or with none if none is named
(`ListCurrent`).

### The landing pool

`SlotsTrue` needs that a connection under way stands on a slot with a key
(`OnKeyedSlot`), that it is counted off with the first of its two close events
(`ReleasedOnce`), that nobody has an address before `start()` (`Fresh`), and
that in a pool with room an address once given out stays true (`KeptTrue`). The last is
the point: `RoomForKey` shows, with the pigeonhole principle, that a host without a
slot finds a free one there, so that no slot is ever taken from another host.
`AskStep` is what `localPortFor` may do, `CarriedStep` what one connection's step does
to the counts.

### The door of the portal

*Codes.* `CodesInv` ties the requests to the tables they read and write across
awaits. A row that says "sent" is the row of one mail (`RowsMailed`); a request that
was found right or wrong stands on a row that was sent to its address, for its name,
and was good when the request came (`RequestsFit`); an account has such a row, used up
(`UsersFit`). These survive because the tables only grow and a row never changes
what it was sent for (`Grows`, `Same`). `Locked` is the queue of an address: it holds
exactly the requests that wait or send, each once, the one that sends first.

`TriesBounded` is the property that does not follow from the guards: a try is counted
when the code is compared and written one await later, and whether it was
the last is decided from the count read with the row. `Counted` says that at a row
not used up the tries are the attempts written and the requests still about to write
one (`WrongOn`), and that the attempts and those of these requests that read a count
too low to use the row up (`EarlyOn`) stay below the limit and the other requests.
Once such a write finds the limit the row is used up, and no request counts at it again but
those already past the check: hence two for each further request, not one.

*Catalogue.* A verdict travels from a batch to memory, to the file and, after a
restart, back; `VerdictsTrue` says the same of all of them: "older" is said
only of a plugin whose own declarations said so for this or an earlier version of the
platform. A look-up that fails leaves it so, for it says "unknown"; `OlderUnmet` reads off
the verdict what a declaration must have been. `IndexRead` keeps the format
of an index across the awaits of a request that goes on with it.

*Choice.* `Best` is a CHOOSE over the candidates, so the theorem must show that
there is a first one. Induction over the set is out of reach (below), but
a finite family of sets has a least one by inclusion, which the library proves without a
parameter (`WFMin`): `FirstOfOrder` takes the least subset without a first element and
removes one. `BeatsScores` is the arithmetic: the quotients of speed and
load are rounded, and a node that another beats in every measure still has the lower
score, because rounding keeps the order of fractions (`QuotientsOrdered`) and the
failures are compared without rounding.

*Accounts.* A login reads the sessions of its user, drops the ones there by then and makes
its own, with other handlers between. `LoginsFit` says that what it dropped is still
away when it makes its own; it survives other logins because serials only grow
(`NothingBack`). `LetIn` ties a login to an account an administrator approved, even if
it was disabled since.

*Skills.* One place for each upload needs `StagedAbsent`: as long as its directory under
the staging prefix is not gone, no place holds it, so a rename brings in nothing that is
there already. `JobsFit` is why an upload alone touches nothing: it has nothing to remove,
and a rename needs a target that is empty or torn. `Touches` and `Stands` are the two action
properties, proved of each step beside the invariant.

*Models.* A landing writes what it computed from texts read before, so `TextsFresh` says
that of the lines the platform never wrote it still has the present ones, but for those the
user changed since (`raced`) and those the landing is the first to write; another landing
leaves these lines alone or adds its own. With `LinesWritten` (whatever a list calls the platform's was written by it at some
time) this keeps the user's lines through overlaps and landings broken off. `CalmFit` is
the rest: undisturbed, the list names every line of the platform (`Covers`), which
is what lets a landing remove an entry that was switched off. Disturbed it does not
(section 5).

### What only TLC checks

* Liveness under fairness and ENABLED: every property of the form "ends", "comes
  back", "finds", "serves" in the table of runs.
* The other components: streams, presence, client and tunnels, paths and
  directory, contents, direct path, proxy, page, business
  plugins, migrations, adoption and mounts. Several of them compute with sequences element by element (`RelayStream`,
  `MountPlan`, `Migrations`), which needs induction over data.
* `NoStray` and `NeverWedged` under the settings of run `machine`, and `Confined` (mounts),
  whose plan is computed along a sequence. The other invariants of passing runs are theorems.

## 5. Where code and documentation disagree

Runs that end in a counterexample:

* **Two operations for one user overlap** (`cluster_writers`,
  `leased-spawner.ts:245`). `stop` takes the target and the lease to release
  from whatever the Manager holds at each await. While one launch waits for
  its agent, a stop releases that launch's lease, another launch claims the row
  for another host, and the process runs twice. `lease.ts:4` promises one live
  instance per user over several machines.
* **A stop does not cancel a restart whose timer fired** (`spawner_stop_restart`,
  `orchestrator.ts:1399`). The timer deleted its entry and its spawn waits for
  a port; the instance starts after the stop.
* **One queue for two directions** (`relay_stream_mixed`, `client.ts:1551`).
  `LocalStream.queued` and `paused` serve both directions. When the local socket,
  or the uplink, is full while both directions have traffic, `flush` writes
  the application's own bytes back to it, or the flush timer sends bytes meant
  for the local application back to the relay.

Further observations, from writing the models and from counterexamples to
stronger properties; no run shows them:

* Lease: a second `pinInstanceHost` that read the row early moves the pin
  (`pg.ts:847`); a renewal executed after a release revives the lease for one
  TTL (`pg.ts:816`); a renewal in flight over a release and a new claim drops
  the record of the new one (`lease.ts:122`).
* Cluster: a late /launch lowers the agent's epoch (`agent.ts:380`); one operation
  id may start two processes (`agent.ts:396`); a loser's fence is addressed with the
  new owner's row and stops the new owner's process (`leased-spawner.ts:151`);
  `restartMain` stops before it is refused the lease (`:219`); a reaped process
  leaves a lease that is renewed for ever.
* Spawner: a timer left behind by `restartMain` starts an instance while the
  breaker cools (`orchestrator.ts:482`); two launches overlap while the first scope
  is not listed (`:439`); a watchdog's spawn stops the main's scope (`:833`); in
  local mode a stop between registration and fork is undone, for the spawn sets the status
  to running and forks, and leaves a process no map names (`:832`, `:1065`); a main whose
  process never started stays registered until somebody stops it (`:1098`). Adoption: two instances may get one port, for the search does not know
  the adopted ones (`:781`), and the port of an adopted instance that
  ended before the probe stays declared (`agent.ts:277`).
* Routing: a file may be written on another host than the one on which the
  instance is then launched, and an operation without a host may go to the default
  host instead of the owner's, when the list of hosts changes in between or cannot be
  read (`server.ts:868`, `remote-spawner.ts:198`). A snapshot of endpoints that is past
  its time to live is still dialled, and so is a landing of the relay's
  last life, for a host that was pushed before its new landing was bound (`server.ts:1052`). A Manager without a
  status url and without a dialling channel dials the agent of a relay host at the row's own
  address (`server.ts:838`), while the endpoint of its instance fails closed.
* Proxy: the jar of instance cookies grows by one with every start of the instance; an
  `enter` while the instance starts may give out a URL without a token. Page: leaving it
  starts the count of recoveries anew, so their limit is one per page; a recovery may
  run without its box; one that is answered with the page's own address and a fragment
  does not leave the page, which stays under the overlay (`recovery.js:325`).
* Relay: `closeEndpoint` deletes a port's counter while streams live, so a port
  that is declared again starts from zero (`server.ts:1773`); dialled streams that
  closed stay in `session.streams` until the session is dropped (`:1839`); below 100
  seats the utilisation may pass its limit by one host (`:1240`); an endpoint
  whose `listen` failed keeps port 0 (`:1731`); a `CLOSE` from the worker drops what
  was queued for a slow peer (`:1361`). Presence lists only ports that are bound; a
  subscriber whose link drops before the first answer takes a new relay for an old one.
* Client: `replayDynamicPorts` works on a copy, so a port removed meanwhile may keep a
  listener on the relay (`client.ts:1147`). After a switch the new channel of a tunnel does
  not have the ports that were forwarded until the next tick.
* Landing pool: a connection that arrived and whose stream is still being opened does not
  keep its slot (`dialer.ts:193`).
* Directory: `resolveOverlayRelayChain` says it never throws, and an error while the cache is
  written leaves it; who answered with a directory is not dialled first, for the order by
  jitter comes after it.
* Enrolment: a second `join` writes overlay-node.json anew with `direct` at its default,
  so a switch an operator set is lost; a node does not go by the switch in its file
  (`overlay-nodes.ts:141`, `content/runtime.ts:394`); a crash between
  `consumeNonce` and `saveRegistry` spends the invitation; a later application replaces
  the key of an approved node.
* Admission: `loadRevocations` says a list that cannot be verified is refused, but where
  identity is not required the relay starts with an empty list (`main.ts:143`).
  The relay does not compare the network of its signer set (`main.ts:131`, on purpose).
* Content: after a change of the key the blocks of the previous epoch are never found,
  though they could be decrypted, for their names are computed with the new key; an evicted
  block leaves an empty file, which is read and found bad. Direct path: the side whose
  deadline came first may have the peer dead and cooling while the other has it working;
  packets of any sender count, so with a third node "direct" may hold one way
  (`punch.ts:308`).
* E-mail: two requests whose mails are sent one after the other each send one
  (`withEmailLock` says only one does); with a lower count written last, a code that reached its
  limit of tries is not void.
* Accounts: two logins at the same time leave two sessions; an instance whose launch is
  under way while its user is deleted starts again.
* Models: a line the user saves between a landing's read of the file and its write is
  overwritten with the old text (`server.ts:237`-`260`), against `model-landing.ts:28`; a block in place keeps the values of an entry that changed since; a landing broken
  off before the list is written leaves a line that no later landing removes.
* Skills: a replacement removes the old directory before the rename, and two that overlap
  leave neither (`skills.ts:22` says atomically), as a disabling beside them does. A private skill that
  was shared later cannot be disabled; a confirmation is not bound to its uploader.
* Catalogue: a range that cannot be read counts as one for older platforms and hides its
  plugin, though `plugin-dsh-compat.ts:167` calls it unknown, as does a range with a gap the
  platform falls into; the verdict shown may be that of an earlier platform version; an unknown verdict is
  remembered for a week; names past the twentieth are dropped without a word, and one named
  twice is fetched twice.
* Plugins: a task that only disables says it restarted the instance and does not
  (`business-plugins.ts:698`); a plugin that lets the probe pass and dies right after it counts as applied; a failed
  task may leave bundles whose modules are gone; self-healing and snapshots of another task bring
  back what a task disabled.
* Database: the hash that is the uid of a user from before version 3 may be the number of a
  new one (`isolation.ts:7`). Placement: `NodeCandidate.manual` is never read. Mounts: a data
  root under /usr or /tmp would be hidden by, or shown with, what is mounted there.

## 6. Not modelled

Configuration, command line, encodings and the arithmetic of signatures, session
presets, firewall rules, the security scan, the human check, desktop pages, user files,
generated nginx files and static pages: each is input and output of one request, or
read once at start. Times are left out where the code only compares them with its own
timers. `BusinessPlugins` has every crash of an instance in one window of the breaker and
writes a task's handoff before the instance it restarts comes as far as its plugins; in
`ModelLanding` the list of the platform's lines is read in one step with the user's entries, and
the parts of the shared ones in another. The arithmetic of the crash policy (its growing cool-down) and of the
jitter statistics is not modelled. PROJECT.json gives the reason for each component.

## 7. Running

    tlc -workers 2 -config MCRelayServer.cfg MCRelayServer
    tlc -workers 2 -config MCClusterAgents.cfg MCCluster
    tlapm RelayPorts_proofs.tla

and the same for the other rows of PROJECT.json "runs" and the other `*_proofs`
modules. The longest run takes four minutes.
