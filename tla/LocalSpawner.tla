---------------------------- MODULE LocalSpawner ----------------------------
(***************************************************************************)
(* The processes one LocalSpawner keeps for one user: the main DSH and its  *)
(* watchdog (src/src/supervisor/orchestrator.ts), their crash restarts and  *)
(* the breaker (crash-policy.ts).  It runs on a worker agent, or inside the *)
(* Manager in local mode; the maps are keyed by user and nothing else is    *)
(* shared.                                                                  *)
(*                                                                         *)
(* JavaScript runs one task at a time, so a step is the code between two    *)
(* awaits: a spawn is a task that waits for a free port, then registers     *)
(* its record, waits for the API key and the uid, stops the user's other    *)
(* scopes and forks.  On a worker the key and the uid are already there and *)
(* everything after the port is one step.                                   *)
(*                                                                         *)
(* Times are left out: the crash window slides, a backoff ends and the      *)
(* breaker cools down at any moment.                                        *)
(***************************************************************************)
EXTENDS Naturals, FiniteSets

CONSTANTS
    Account,        \* isolationMode = 'account': each process in a systemd scope
    Slow,           \* TRUE: key and uid come from the database (local mode)
    PromptScopes,   \* TRUE: systemd registers a scope before the next spawn
    EnablePatch,    \* config.enablePatch: watchdogs exist
    SpawnFails,     \* TRUE: a spawn may fail
    MaxRestarts,    \* config.crashMaxRestarts
    BadPlugins,     \* plugins of the profile that tryHealPluginFailure can remove
    MaxInsts,       \* bound: spawn tasks and processes at a time
    MaxRequests     \* bound: launches, restarts, stops that users ask for

ASSUME SpawnerAssumption ==
    /\ {Account, Slow, PromptScopes, EnablePatch, SpawnFails} \subseteq BOOLEAN
    /\ {MaxRestarts, BadPlugins, MaxInsts, MaxRequests} \subseteq Nat

Ids == 1..MaxInsts      \* 0 is no instance

VARIABLES
    inst,       \* the Instance records, with the spawn task and process of each
    main,       \* mains.get(userId)
    dog,        \* watchdogs.get(userId)
    timers,     \* restart timers that will fire, named after the crashed instance
    handle,     \* restartTimers.get(userId)
    history,    \* crashHistory: automatic restarts in the window
    breaker,    \* breaker.get(userId): closed, cooling, or cooled and not cleared
    bad,        \* bad plugins left
    asked       \* requests so far

vars == <<inst, main, dog, timers, handle, history, breaker, bad, asked>>

Unused == [task |-> "none", role |-> "main", origin |-> "request",
           status |-> "starting", proc |-> "none"]

TypeOK ==
    /\ inst \in [Ids -> [task : {"none", "port", "env", "scopes", "uid", "up", "failed"},
                         role : {"main", "watchdog"}, origin : {"request", "timer"},
                         status : {"starting", "running", "crashed", "stopped", "failed"},
                         proc : {"none", "forked", "alive", "dying", "dead", "gone"}]]
    /\ main \in Ids \cup {0} /\ dog \in Ids \cup {0}
    /\ timers \subseteq Ids /\ handle \in timers \cup {0}
    /\ history \in 0..MaxRestarts
    /\ breaker \in {"closed", "cooling", "cooled"}
    /\ bad \in 0..BadPlugins /\ asked \in 0..MaxRequests

Init ==
    /\ inst = [i \in Ids |-> Unused]
    /\ main = 0 /\ dog = 0
    /\ timers = {} /\ handle = 0
    /\ history = 0 /\ breaker = "closed"
    /\ bad = BadPlugins /\ asked = 0

-----------------------------------------------------------------------------
(* Records, tasks, processes *)

Live(i) == inst[i].proc \in {"forked", "alive"}

\* An id nothing refers to any more is used again.
Free(i) ==
    /\ i \notin {main, dog} \cup timers
    /\ \/ inst[i].task = "none"
       \/ inst[i].task \in {"up", "failed"} /\ inst[i].proc = "gone"
Fresh(i) == Free(i) /\ \A j \in Ids : Free(j) => i <= j

Begun(f, i, role, origin, task) ==
    [f EXCEPT ![i] = [Unused EXCEPT !.task = task, !.role = role, !.origin = origin]]

KeepScopes(f) == f      \* mutant: a spawn leaves the user's other scopes alone

\* cleanStaleScopes: every scope of the uid that systemd lists is stopped, and
\* the exit events of its processes are queued.
Cleaned(f) ==
    IF Account THEN [j \in Ids |-> IF f[j].proc = "alive" THEN [f[j] EXCEPT !.proc = "dead"]
                                                          ELSE f[j]]
               ELSE f

\* The child is forked and its 'spawn' event handled.
Forked(f, i) ==
    [f EXCEPT ![i].task = "up", ![i].status = "running",
              ![i].proc = IF Account /\ ~PromptScopes THEN "forked" ELSE "alive"]

\* mutant: systemctl stop is all there is
KilledByScope(f, i) ==
    IF i = 0 THEN f
    ELSE [f EXCEPT ![i].status = "stopped", ![i].proc = IF @ = "alive" THEN "dead" ELSE @]

\* killInstance: a registered scope is gone when systemctl stop returns, any
\* other process gets a SIGTERM.
Killed(f, i) ==
    IF i = 0 THEN f
    ELSE [f EXCEPT ![i].status = "stopped",
                   ![i].proc = CASE @ = "alive" /\ Account -> "dead"
                                 [] @ = "forked" \/ (@ = "alive" /\ ~Account) -> "dying"
                                 [] OTHER -> @]

-----------------------------------------------------------------------------
(* Requests of the routes and of the reaper *)

Ask == asked < MaxRequests /\ asked' = asked + 1

\* launch: AlreadyRunningError with a main, CrashBreakerOpenError while the
\* breaker cools, a clean budget otherwise.
Launch(i) ==
    /\ Ask /\ Fresh(i)
    /\ main = 0
    /\ breaker # "cooling"
    /\ breaker' = "closed" /\ history' = 0
    /\ inst' = Begun(inst, i, "main", "request", "port")
    /\ UNCHANGED <<main, dog, timers, handle, bad>>

\* restartAndProbe without a main: a launch that clears the breaker first.
ForceLaunch(i) ==
    /\ Ask /\ Fresh(i)
    /\ main = 0
    /\ breaker' = "closed" /\ history' = 0
    /\ inst' = Begun(inst, i, "main", "request", "port")
    /\ UNCHANGED <<main, dog, timers, handle, bad>>

RestartMain(i) ==
    /\ Ask /\ Fresh(i)
    /\ main # 0
    /\ history' = 0
    /\ inst' = Begun(Killed(inst, main), i, "main", "request", "port")
    /\ UNCHANGED <<main, dog, timers, handle, breaker, bad>>

\* mutant: the record stays in mains until its exit event
StopKeepsRecord ==
    /\ Ask
    /\ timers' = timers \ {handle} /\ handle' = 0
    /\ inst' = Killed(Killed(inst, main), dog)
    /\ dog' = 0 /\ history' = 0
    /\ UNCHANGED <<main, breaker, bad>>

\* stop, also by reapOnce: the timer it knows of, both processes, the counters.
Stop ==
    /\ Ask
    /\ timers' = timers \ {handle} /\ handle' = 0
    /\ inst' = Killed(Killed(inst, main), dog)
    /\ main' = 0 /\ dog' = 0
    /\ history' = 0
    /\ UNCHANGED <<breaker, bad>>

-----------------------------------------------------------------------------
(* The watchdog *)

\* spawnWatchdog after its guards; no port to wait for.
WithWatchdog(f, i) ==
    LET g == Begun(f, i, "watchdog", "request", "env") IN
    IF Slow THEN g ELSE Forked(Cleaned(g), i)

SpawnWatchdog(i) ==
    /\ Ask /\ Fresh(i)
    /\ EnablePatch /\ dog = 0 /\ main # 0
    /\ dog' = i
    /\ inst' = WithWatchdog(inst, i)
    /\ UNCHANGED <<main, timers, handle, history, breaker, bad>>

-----------------------------------------------------------------------------
(* spawnInstance *)

\* The port is found: the record goes into mains and replaces what is there.
\* On a worker the rest follows at once.
Register(i) ==
    /\ inst[i].task = "port"
    /\ main' = i
    /\ inst' = IF Slow THEN [inst EXCEPT ![i].task = "env"] ELSE Forked(Cleaned(inst), i)
    /\ UNCHANGED <<dog, timers, handle, history, breaker, bad, asked>>

\* No process comes of it: an 'error' event or an exception after the record
\* was set.
RegisterFails(i) ==
    /\ SpawnFails
    /\ inst[i].task = "port"
    /\ main' = i
    /\ \E s \in {"crashed", "starting"} :
           inst' = [inst EXCEPT ![i].task = "failed", ![i].status = s, ![i].proc = "gone"]
    /\ UNCHANGED <<dog, timers, handle, history, breaker, bad, asked>>

\* Slow: the environment is there, in account mode the uid is still awaited.
EnvReady(i) ==
    /\ inst[i].task = "env"
    /\ inst' = IF Account THEN [inst EXCEPT ![i].task = "scopes"] ELSE Forked(inst, i)
    /\ UNCHANGED <<main, dog, timers, handle, history, breaker, bad, asked>>

CleanScopes(i) ==
    /\ inst[i].task = "scopes"
    /\ inst' = [Cleaned(inst) EXCEPT ![i].task = "uid"]
    /\ UNCHANGED <<main, dog, timers, handle, history, breaker, bad, asked>>

\* Whatever happened to the record since: the 'spawn' event makes a stopped one
\* running, and it is in no map then.
Fork(i) ==
    /\ inst[i].task = "uid"
    /\ inst' = Forked(inst, i)
    /\ UNCHANGED <<main, dog, timers, handle, history, breaker, bad, asked>>

-----------------------------------------------------------------------------
(* Processes *)

ScopeRegisters(i) ==
    /\ inst[i].proc = "forked"
    /\ inst' = [inst EXCEPT ![i].proc = "alive"]
    /\ UNCHANGED <<main, dog, timers, handle, history, breaker, bad, asked>>

\* The process ends by itself, or of the SIGTERM (SIGKILL after five seconds).
Ends(i) ==
    /\ inst[i].proc = "dead" /\ inst' = [inst EXCEPT ![i].proc = "gone"]

Dies(i) ==
    /\ inst[i].proc = "dying"
    /\ inst' = [inst EXCEPT ![i].proc = "dead"]
    /\ UNCHANGED <<main, dog, timers, handle, history, breaker, bad, asked>>

Crash(i) ==
    /\ Live(i)
    /\ inst' = [inst EXCEPT ![i].proc = "dead"]
    /\ UNCHANGED <<main, dog, timers, handle, history, breaker, bad, asked>>

\* The exit handler of an instance that was replaced does nothing ...
StaleExit(i) ==
    /\ Ends(i)
    /\ i \notin {main, dog}
    /\ UNCHANGED <<main, dog, timers, handle, history, breaker, bad, asked>>

\* ... that of a stopped one, and of a watchdog, clears the entry ...
StoppedExit(i) ==
    /\ Ends(i)
    /\ \/ i = dog
       \/ i = main /\ inst[i].status = "stopped"
    /\ main' = IF i = main THEN 0 ELSE main
    /\ dog' = IF i = dog THEN 0 ELSE dog
    /\ UNCHANGED <<timers, handle, history, breaker, bad, asked>>

\* decideCrashAction: the window is full.
Spent(n) == n >= MaxRestarts

\* scheduleCrashRestart: history after a healed plugin, or as it is.
Budgets == {<<history, bad>>} \cup (IF bad > 0 THEN {<<0, bad - 1>>} ELSE {})

\* ... that of a crashed main pulls up the watchdog and restarts or gives up.
CrashExit(i) ==
    /\ inst[i].proc = "dead"
    /\ i = main /\ inst[i].status # "stopped"
    /\ \E b \in Budgets :
         LET open == Spent(b[1])
             f == [inst EXCEPT ![i].proc = "gone",
                               ![i].status = IF open THEN "failed" ELSE "crashed"]
             guarded == EnablePatch /\ dog = 0 IN
         /\ bad' = b[2]
         /\ IF open THEN /\ main' = 0 /\ history' = 0 /\ breaker' = "cooling"
                         /\ UNCHANGED <<timers, handle>>
                    ELSE /\ history' = b[1] + 1
                         /\ timers' = timers \cup {i} /\ handle' = i
                         /\ UNCHANGED <<main, breaker>>
         /\ IF guarded THEN \E j \in Ids : /\ Fresh(j)
                                           /\ dog' = j /\ inst' = WithWatchdog(f, j)
                       ELSE dog' = dog /\ inst' = f
    /\ UNCHANGED asked

\* The backoff ends.  The map entry is deleted, whichever timer it names.
TimerFires(t, i) ==
    /\ t \in timers
    /\ Fresh(i)
    /\ timers' = timers \ {t} /\ handle' = 0
    /\ inst' = Begun(inst, i, "main", "timer", "port")
    /\ UNCHANGED <<main, dog, history, breaker, bad, asked>>

\* Time: restarts leave the window, the cooldown ends.
WindowSlides ==
    /\ history' \in 0..(history - 1)
    /\ UNCHANGED <<inst, main, dog, timers, handle, breaker, bad, asked>>

CoolsDown ==
    /\ breaker = "cooling" /\ breaker' = "cooled"
    /\ UNCHANGED <<inst, main, dog, timers, handle, history, bad, asked>>

-----------------------------------------------------------------------------
Request(i) == Launch(i) \/ ForceLaunch(i) \/ RestartMain(i) \/ SpawnWatchdog(i)

Step(i) ==
    \/ Register(i)
    \/ RegisterFails(i)
    \/ EnvReady(i)
    \/ CleanScopes(i)
    \/ Fork(i)
    \/ ScopeRegisters(i)
    \/ Dies(i)
    \/ StaleExit(i)
    \/ StoppedExit(i)
    \/ CrashExit(i)

Fires(t) == \E i \in Ids : TimerFires(t, i)

Next ==
    \/ \E i \in Ids : Request(i) \/ Step(i) \/ Crash(i) \/ Fires(i)
    \/ Stop
    \/ WindowSlides
    \/ CoolsDown

Spec == Init /\ [][Next]_vars

\* The event loop runs every task, timer and event in the end; nobody has to
\* ask for anything, and no process has to crash.
FairSpec == Spec /\ \A i \in Ids : WF_vars(Step(i)) /\ WF_vars(Fires(i))

-----------------------------------------------------------------------------
(* Properties *)

\* Every process that runs is the one its map names: none is left that stop,
\* the reaper and the proxy do not know, so no user has two mains.
NoStray == \A i \in Ids : Live(i) => i \in {main, dog}

\* A main without a process is on its way out or up again: its exit is still
\* to be handled, its restart is pending, or a spawn will replace it.  Else it
\* would answer every launch with AlreadyRunningError until somebody stops it.
NeverWedged ==
    main # 0 =>
       \/ Live(main) \/ inst[main].proc \in {"dying", "dead"}
       \/ main \in timers
       \/ inst[main].task \in {"env", "scopes", "uid"}
       \/ \E i \in Ids : inst[i].task = "port"

\* Where a spawn may fail (the 'error' event of a process that never was has no
\* exit), a failed one is the only main that stays without a process.
WedgedOnlyByFailure == NeverWedged \/ inst[main].task = "failed"

\* A stop that finds a process is final, be its scope registered or not: no record
\* forked and then stopped runs again.  (One stopped while its spawn waited for the
\* key or the uid does: see StraysArise.)
StopStops == \A i \in Ids : inst[i].status = "stopped" /\ inst[i].task = "up" => ~Live(i)

\* The only two ways in which a process gets lost, so that stop and the reaper do
\* not know it: a second spawn registers over it, or its own spawn was stopped or
\* replaced while it waited for the key or the uid, and forks all the same.  No
\* stop, restart, crash or exit loses a process that runs.
StraysArise ==
    [][\A i \in Ids : Live(i)' /\ i \notin {main', dog'} =>
           \/ Live(i) /\ i \notin {main, dog}
           \/ i = main /\ main' # main /\ main' \in Ids /\ inst[main'].task = "port"
           \/ inst[i].task \in {"env", "uid"}]_vars

\* A main without a process gets one again, unless the spawn for it fails, or
\* the map lets it go.
ComesBack == []<>(main = 0 \/ Live(main) \/ inst[main].task = "failed")

Starts(i) == inst[i].proc = "none" /\ inst'[i].proc \in {"forked", "alive"}

\* stop cancels a pending restart: no crash restart goes on once the main it
\* replaces has left the map.
StopCancelsRestart ==
    [][\A i \in Ids : Starts(i) /\ inst[i].role = "main" /\ inst[i].origin = "timer" =>
           main # 0]_vars
=============================================================================
