------------------------- MODULE LocalSpawner_proofs -------------------------
(***************************************************************************)
(* Proofs about LocalSpawner, for every setting: types, in which ways alone *)
(* a process gets lost, and that only a spawn that failed leaves a main     *)
(* without a process behind.                                                *)
(***************************************************************************)
EXTENDS LocalSpawner, TLAPS

Instances ==
    [Ids -> [task : {"none", "port", "env", "scopes", "uid", "up", "failed"},
             role : {"main", "watchdog"}, origin : {"request", "timer"},
             status : {"starting", "running", "crashed", "stopped", "failed"},
             proc : {"none", "forked", "alive", "dying", "dead", "gone"}]]

-----------------------------------------------------------------------------
(* What the helpers return *)

\* A new record has its type: spawnInstance's Instance literal.
LEMMA BegunType ==
    ASSUME NEW f \in Instances, NEW i \in Ids, NEW role \in {"main", "watchdog"},
           NEW origin \in {"request", "timer"}, NEW task \in {"port", "env"}
    PROVE  Begun(f, i, role, origin, task) \in Instances
  BY DEF Begun, Unused, Instances

\* Stopping the user's scopes keeps the records' type.
LEMMA CleanedType ==
    ASSUME NEW f \in Instances
    PROVE  Cleaned(f) \in Instances
  BY DEF Cleaned, Instances

\* One field of one record changes.
LEMMA FieldType ==
    ASSUME NEW f \in Instances, NEW i \in Ids
    PROVE  /\ \A t \in {"up", "failed", "scopes", "uid", "env"} : [f EXCEPT ![i].task = t] \in Instances
           /\ \A s \in {"starting", "running", "crashed", "failed"} :
                 [f EXCEPT ![i].status = s] \in Instances
           /\ \A p \in {"forked", "alive", "gone"} : [f EXCEPT ![i].proc = p] \in Instances
  BY DEF Instances

\* The spawn event keeps the records' type.
LEMMA ForkedType ==
    ASSUME NEW f \in Instances, NEW i \in Ids
    PROVE  Forked(f, i) \in Instances
  <1> DEFINE p == IF Account /\ ~PromptScopes THEN "forked" ELSE "alive"
             a == [f EXCEPT ![i].task = "up"]
             b == [a EXCEPT ![i].status = "running"]
             c == [b EXCEPT ![i].proc = p]
  <1>1. a \in Instances
    BY FieldType
  <1>2. b \in Instances
    <2> HIDE DEF a
    <2>1. QED
      BY <1>1, FieldType
  <1>3. p \in {"forked", "alive", "gone"}
    OBVIOUS
  <1>4. c \in Instances
    <2> HIDE DEF b, p
    <2>1. QED
      BY <1>2, <1>3, FieldType
  <1>5. Forked(f, i) = c
    BY DEF Forked
  <1>6. QED
    BY <1>4, <1>5

\* A record whose process is gone keeps its type, whatever the verdict.
LEMMA GoneType ==
    ASSUME NEW f \in Instances, NEW i \in Ids,
           NEW s \in {"starting", "running", "crashed", "failed"}
    PROVE  /\ [f EXCEPT ![i].task = "failed", ![i].status = s, ![i].proc = "gone"] \in Instances
           /\ [f EXCEPT ![i].proc = "gone", ![i].status = s] \in Instances
  <1> DEFINE a == [f EXCEPT ![i].task = "failed"]
             b == [a EXCEPT ![i].status = s]
             c == [f EXCEPT ![i].proc = "gone"]
  <1>1. a \in Instances /\ c \in Instances
    BY FieldType
  <1>2. b \in Instances
    <2> HIDE DEF a
    <2>1. QED
      BY <1>1, FieldType
  <1>3. [b EXCEPT ![i].proc = "gone"] \in Instances
    <2> HIDE DEF b
    <2>1. QED
      BY <1>2, FieldType
  <1>4. [c EXCEPT ![i].status = s] \in Instances
    <2> HIDE DEF c
    <2>1. QED
      BY <1>1, FieldType
  <1>5. QED
    BY <1>3, <1>4

\* killInstance, of an absent record too, keeps the records' type.
LEMMA KilledType ==
    ASSUME NEW f \in Instances, NEW i \in Ids \cup {0}
    PROVE  Killed(f, i) \in Instances
  <1>1. CASE i = 0
    BY <1>1 DEF Killed
  <1>2. CASE i # 0
    <2>1. i \in Ids
      BY <1>2
    <2> DEFINE p == CASE f[i].proc = "alive" /\ Account -> "dead"
                      [] f[i].proc = "forked" \/ (f[i].proc = "alive" /\ ~Account) -> "dying"
                      [] OTHER -> f[i].proc
    <2>2. p \in {"none", "forked", "alive", "dying", "dead", "gone"}
      BY <2>1 DEF Instances
    <2>3. Killed(f, i) = [f EXCEPT ![i] = [f[i] EXCEPT !.status = "stopped", !.proc = p]]
      BY <1>2, <2>1 DEF Killed, Instances
    <2>4. [f[i] EXCEPT !.status = "stopped", !.proc = p] \in
             [task : {"none", "port", "env", "scopes", "uid", "up", "failed"},
              role : {"main", "watchdog"}, origin : {"request", "timer"},
              status : {"starting", "running", "crashed", "stopped", "failed"},
              proc : {"none", "forked", "alive", "dying", "dead", "gone"}]
      BY <2>1, <2>2 DEF Instances
    <2>5. QED
      BY <2>1, <2>3, <2>4 DEF Instances
  <1>3. QED
    BY <1>1, <1>2

\* The watchdog's record and process keep the records' type.
LEMMA WithWatchdogType ==
    ASSUME NEW f \in Instances, NEW i \in Ids
    PROVE  WithWatchdog(f, i) \in Instances
  <1>1. Begun(f, i, "watchdog", "request", "env") \in Instances
    BY BegunType
  <1>2. Forked(Cleaned(Begun(f, i, "watchdog", "request", "env")), i) \in Instances
    BY <1>1, CleanedType, ForkedType
  <1>3. QED
    BY <1>1, <1>2 DEF WithWatchdog

-----------------------------------------------------------------------------
(* Types *)

LEMMA InitType == Init => TypeOK
  <1> SUFFICES ASSUME Init PROVE TypeOK
    OBVIOUS
  <1>1. inst \in Instances
    BY DEF Init, Unused, Instances
  <1>2. QED
    BY <1>1, SpawnerAssumption DEF Init, TypeOK, Instances

\* Every step of LocalSpawner keeps the types, the crash budget included.
LEMMA NextType == TypeOK /\ [Next]_vars => TypeOK'
  <1> SUFFICES ASSUME TypeOK, [Next]_vars PROVE TypeOK'
    OBVIOUS
  <1>0. inst \in Instances
    BY DEF TypeOK, Instances
  <1> SUFFICES /\ inst' \in Instances
               /\ main' \in Ids \cup {0} /\ dog' \in Ids \cup {0}
               /\ timers' \subseteq Ids /\ handle' \in timers' \cup {0}
               /\ history' \in 0..MaxRestarts
               /\ breaker' \in {"closed", "cooling", "cooled"}
               /\ bad' \in 0..BadPlugins /\ asked' \in 0..MaxRequests
    BY DEF TypeOK, Instances
  <1>1. ASSUME Ask PROVE asked' \in 0..MaxRequests
    BY <1>1, SpawnerAssumption DEF Ask, TypeOK
  <1>2. ASSUME NEW i \in Ids, Launch(i) \/ ForceLaunch(i) \/ RestartMain(i)
        PROVE  inst' \in Instances
    <2>1. Killed(inst, main) \in Instances
      BY <1>0, KilledType DEF TypeOK
    <2>2. QED
      BY <1>0, <1>2, <2>1, BegunType DEF Launch, ForceLaunch, RestartMain
  <1>3. ASSUME NEW i \in Ids, Request(i) PROVE TypeOK'
    <2>0. ASSUME Ask, inst' \in Instances, history' = 0, breaker' \in {"closed", breaker},
                 UNCHANGED <<main, dog, timers, handle, bad>>
          PROVE  TypeOK'
      BY <2>0, <1>1, SpawnerAssumption DEF TypeOK, Instances
    <2>1. CASE Launch(i)
      BY <2>0, <2>1, <1>2 DEF Launch
    <2>2. CASE ForceLaunch(i)
      BY <2>0, <2>2, <1>2 DEF ForceLaunch
    <2>3. CASE RestartMain(i)
      BY <2>0, <2>3, <1>2 DEF RestartMain
    <2>4. CASE SpawnWatchdog(i)
      <3>1. inst' \in Instances
        BY <1>0, <2>4, WithWatchdogType DEF SpawnWatchdog
      <3>2. QED
        BY <2>4, <3>1, <1>1 DEF SpawnWatchdog, TypeOK, Instances
    <2>5. QED
      BY <1>3, <2>1, <2>2, <2>3, <2>4 DEF Request
  <1>4. CASE Stop
    <2>1. inst' \in Instances
      BY <1>0, <1>4, KilledType DEF Stop, TypeOK
    <2>2. QED
      BY <1>4, <2>1, <1>1, SpawnerAssumption DEF Stop, TypeOK, Instances
  <1>5. ASSUME NEW i \in Ids, Step(i) PROVE TypeOK'
    <2>1. CASE Register(i)
      <3>1. inst' \in Instances
        <4>1. CASE Slow
          BY <1>0, <2>1, <4>1 DEF Register, Instances
        <4>2. CASE ~Slow
          BY <1>0, <2>1, <4>2, CleanedType, ForkedType DEF Register
        <4>3. QED
          BY <4>1, <4>2
      <3>2. QED
        BY <2>1, <3>1 DEF Register, TypeOK, Instances
    <2>2. CASE RegisterFails(i)
      <3>1. inst' \in Instances
        <4>1. PICK s \in {"crashed", "starting"} :
                inst' = [inst EXCEPT ![i].task = "failed", ![i].status = s, ![i].proc = "gone"]
          BY <2>2 DEF RegisterFails
        <4>2. [inst EXCEPT ![i].task = "failed", ![i].status = s, ![i].proc = "gone"] \in Instances
          BY <1>0, GoneType
        <4>3. QED
          BY <4>1, <4>2
      <3>2. QED
        BY <2>2, <3>1 DEF RegisterFails, TypeOK, Instances
    <2>3. CASE EnvReady(i)
      <3>1. inst' \in Instances
        BY <1>0, <2>3, ForkedType, FieldType DEF EnvReady
      <3>2. QED
        BY <2>3, <3>1 DEF EnvReady, TypeOK, Instances
    <2>4. CASE CleanScopes(i)
      <3>1. inst' \in Instances
        BY <1>0, <2>4, CleanedType DEF CleanScopes, Instances
      <3>2. QED
        BY <2>4, <3>1 DEF CleanScopes, TypeOK, Instances
    <2>5. CASE Fork(i)
      <3>1. inst' \in Instances
        BY <1>0, <2>5, ForkedType DEF Fork
      <3>2. QED
        BY <2>5, <3>1 DEF Fork, TypeOK, Instances
    <2>6. CASE ScopeRegisters(i)
      BY <1>0, <2>6 DEF ScopeRegisters, TypeOK, Instances
    <2>7. CASE Dies(i)
      BY <1>0, <2>7 DEF Dies, TypeOK, Instances
    <2>8. CASE StaleExit(i)
      BY <1>0, <2>8 DEF StaleExit, Ends, TypeOK, Instances
    <2>9. CASE StoppedExit(i)
      BY <1>0, <2>9 DEF StoppedExit, Ends, TypeOK, Instances
    <2>10. CASE CrashExit(i)
      <3> DEFINE Outcome(b) ==
            LET open == Spent(b[1])
                f == [inst EXCEPT ![i].proc = "gone",
                                  ![i].status = IF open THEN "failed" ELSE "crashed"]
                guarded == EnablePatch /\ dog = 0 IN
            /\ bad' = b[2]
            /\ IF open THEN /\ main' = 0 /\ history' = 0 /\ breaker' = "cooling"
                            /\ UNCHANGED <<timers, handle>>
                       ELSE /\ history' = b[1] + 1
                            /\ timers' = timers \cup {i} /\ handle' = i
                            /\ UNCHANGED <<main, breaker>>
            /\ IF guarded THEN \E j \in Ids : /\ Fresh(j)
                                              /\ dog' = j /\ inst' = WithWatchdog(f, j)
                          ELSE dog' = dog /\ inst' = f
      <3>1. PICK b \in Budgets : Outcome(b)
        BY <2>10 DEF CrashExit
      <3>2. b[1] \in 0..MaxRestarts /\ b[2] \in 0..BadPlugins
        BY SpawnerAssumption DEF Budgets, TypeOK
      <3>3. ~Spent(b[1]) => b[1] + 1 \in 0..MaxRestarts
        BY <3>2, SpawnerAssumption DEF Spent
      <3> DEFINE f == [inst EXCEPT ![i].proc = "gone",
                                   ![i].status = IF Spent(b[1]) THEN "failed" ELSE "crashed"]
      <3>4. f \in Instances
        BY <1>0, GoneType
      <3>5. inst' \in Instances /\ dog' \in Ids \cup {0}
        <4>1. CASE EnablePatch /\ dog = 0
          <5>1. PICK j \in Ids : dog' = j /\ inst' = WithWatchdog(f, j)
            BY <3>1, <4>1
          <5>2. QED
            BY <5>1, <3>4, WithWatchdogType
        <4>2. CASE ~(EnablePatch /\ dog = 0)
          BY <3>1, <3>4, <4>2 DEF TypeOK
        <4>3. QED
          BY <4>1, <4>2
      <3>6. /\ main' \in Ids \cup {0}
            /\ timers' \subseteq Ids /\ handle' \in timers' \cup {0}
            /\ history' \in 0..MaxRestarts
            /\ breaker' \in {"closed", "cooling", "cooled"}
            /\ bad' \in 0..BadPlugins
        BY <3>1, <3>2, <3>3, SpawnerAssumption DEF TypeOK
      <3>7. asked' \in 0..MaxRequests
        BY <2>10 DEF CrashExit, TypeOK
      <3>8. QED
        BY <3>5, <3>6, <3>7 DEF TypeOK, Instances
    <2>11. QED
      BY <1>5, <2>1, <2>2, <2>3, <2>4, <2>5, <2>6, <2>7, <2>8, <2>9, <2>10 DEF Step
  <1>6. ASSUME NEW i \in Ids, Crash(i) PROVE TypeOK'
    BY <1>0, <1>6 DEF Crash, TypeOK, Instances
  <1>7. ASSUME NEW t \in Ids, NEW i \in Ids, TimerFires(t, i) PROVE TypeOK'
    <2>1. inst' \in Instances
      BY <1>0, <1>7, BegunType DEF TimerFires
    <2>2. QED
      BY <1>7, <2>1 DEF TimerFires, TypeOK, Instances
  <1>8. CASE WindowSlides
    BY <1>0, <1>8, SpawnerAssumption DEF WindowSlides, TypeOK, Instances
  <1>9. CASE CoolsDown
    BY <1>0, <1>9 DEF CoolsDown, TypeOK, Instances
  <1>10. CASE UNCHANGED vars
    BY <1>0, <1>10 DEF vars, TypeOK, Instances
  <1>11. QED
    BY <1>3, <1>4, <1>5, <1>6, <1>7, <1>8, <1>9, <1>10 DEF Next, Fires, TypeOK, Instances

\* The maps name instances, a known restart timer is pending, and automatic
\* restarts in the window never exceed crashMaxRestarts (decideCrashAction).
THEOREM TypeCorrect == Spec => []TypeOK
  <1>1. QED
    BY InitType, NextType, PTL DEF Spec

-----------------------------------------------------------------------------
(* What a step does to the other records *)

\* killInstance leaves every other record as it is and no process it named.
LEMMA KilledEffect ==
    ASSUME NEW f \in Instances, NEW i \in Ids \cup {0}, NEW k \in Ids
    PROVE  /\ Killed(f, i)[k].task = f[k].task
           /\ \/ Killed(f, i)[k].proc = f[k].proc
              \/ f[k].proc \in {"forked", "alive"} /\ Killed(f, i)[k].proc \in {"dying", "dead"}
           /\ k = i => Killed(f, i)[k].proc \notin {"forked", "alive"}
  <1>1. CASE i = 0
    BY <1>1, SpawnerAssumption DEF Killed, Ids
  <1>2. CASE i # 0
    <2> DEFINE p == CASE f[i].proc = "alive" /\ Account -> "dead"
                      [] f[i].proc = "forked" \/ (f[i].proc = "alive" /\ ~Account) -> "dying"
                      [] OTHER -> f[i].proc
    <2>1. Killed(f, i) = [f EXCEPT ![i] = [f[i] EXCEPT !.status = "stopped", !.proc = p]]
      BY <1>2 DEF Killed, Instances
    <2>2. /\ p = f[i].proc \/ (f[i].proc \in {"forked", "alive"} /\ p \in {"dying", "dead"})
          /\ p \notin {"forked", "alive"}
      OBVIOUS
    <2>3. QED
      <3> HIDE DEF p
      <3>1. QED
        BY <2>1, <2>2, <1>2 DEF Instances
  <1>3. QED
    BY <1>1, <1>2

\* cleanStaleScopes only ends processes.
LEMMA CleanedEffect ==
    ASSUME NEW f \in Instances, NEW k \in Ids
    PROVE  /\ Cleaned(f)[k].task = f[k].task
           /\ \/ Cleaned(f)[k].proc = f[k].proc
              \/ f[k].proc = "alive" /\ Cleaned(f)[k].proc = "dead"
  BY DEF Cleaned, Instances

\* The spawn event concerns one record, which runs then.
LEMMA ForkedEffect ==
    ASSUME NEW f \in Instances, NEW i \in Ids, NEW k \in Ids
    PROVE  /\ k = i => /\ Forked(f, i)[k].task = "up"
                       /\ Forked(f, i)[k].proc \in {"forked", "alive"}
           /\ k # i => Forked(f, i)[k] = f[k]
  <1> DEFINE p == IF Account /\ ~PromptScopes THEN "forked" ELSE "alive"
             a == [f EXCEPT ![i].task = "up"]
             b == [a EXCEPT ![i].status = "running"]
             c == [b EXCEPT ![i].proc = p]
  <1>1. a \in Instances /\ b \in Instances
    <2>1. a \in Instances
      BY FieldType
    <2>2. QED
      <3> HIDE DEF a
      <3>1. QED
        BY <2>1, FieldType
  <1>2. /\ a[i].task = "up"
        /\ k # i => a[k] = f[k]
    BY DEF Instances
  <1>3. /\ b[i].task = a[i].task
        /\ k # i => b[k] = a[k]
    <2> HIDE DEF a
    <2>1. QED
      BY <1>1 DEF Instances
  <1>4. /\ c[i].task = b[i].task /\ c[i].proc = p
        /\ k # i => c[k] = b[k]
    <2> HIDE DEF b, p
    <2>1. QED
      BY <1>1 DEF Instances
  <1>5. p \in {"forked", "alive"}
    OBVIOUS
  <1>6. c = Forked(f, i)
    BY DEF Forked
  <1>7. QED
    <2> HIDE DEF a, b, c, p
    <2>1. QED
      BY <1>2, <1>3, <1>4, <1>5, <1>6

\* A new record has a task and no process, the others are as they were.
LEMMA BegunEffect ==
    ASSUME NEW f \in Instances, NEW i \in Ids, NEW k \in Ids,
           NEW role, NEW origin, NEW task
    PROVE  /\ k = i => /\ Begun(f, i, role, origin, task)[k].task = task
                       /\ Begun(f, i, role, origin, task)[k].proc = "none"
           /\ k # i => Begun(f, i, role, origin, task)[k] = f[k]
  BY DEF Begun, Unused, Instances

\* What spawnWatchdog and a spawn's last part do to the others: processes end.
Ended(f, g, k) ==
    /\ g[k].task = f[k].task
    /\ \/ g[k].proc = f[k].proc
       \/ f[k].proc \in {"forked", "alive"} /\ g[k].proc \in {"dying", "dead"}

LEMMA WatchdogEffect ==
    ASSUME NEW f \in Instances, NEW i \in Ids, NEW k \in Ids, k # i
    PROVE  Ended(f, WithWatchdog(f, i), k)
  <1> DEFINE g == Begun(f, i, "watchdog", "request", "env")
  <1>1. g \in Instances /\ g[k] = f[k]
    BY BegunType, BegunEffect
  <1>2. CASE Slow
    BY <1>1, <1>2 DEF WithWatchdog, Ended
  <1>3. CASE ~Slow
    <2>1. WithWatchdog(f, i) = Forked(Cleaned(g), i)
      BY <1>3 DEF WithWatchdog
    <2>2. Cleaned(g) \in Instances
      <3> HIDE DEF g
      <3>1. QED
        BY <1>1, CleanedType
    <2>3. Forked(Cleaned(g), i)[k] = Cleaned(g)[k]
      <3> HIDE DEF g
      <3>1. QED
        BY <2>2, ForkedEffect
    <2>4. /\ Cleaned(g)[k].task = g[k].task
          /\ \/ Cleaned(g)[k].proc = g[k].proc
             \/ g[k].proc = "alive" /\ Cleaned(g)[k].proc = "dead"
      <3> HIDE DEF g
      <3>1. QED
        BY <1>1, CleanedEffect
    <2>5. QED
      <3> HIDE DEF g
      <3>1. QED
        BY <1>1, <2>1, <2>3, <2>4 DEF Ended
  <1>4. QED
    BY <1>2, <1>3

-----------------------------------------------------------------------------
(* How processes get lost, and mains wedged *)

Loses ==
    \A i \in Ids : Live(i)' /\ i \notin {main', dog'} =>
        \/ Live(i) /\ i \notin {main, dog}
        \/ i = main /\ main' # main /\ main' \in Ids /\ inst[main'].task = "port"
        \/ inst[i].task \in {"env", "uid"}

\* A step under which the others at most end, and only the main and the watchdog
\* it brings are new.
LEMMA OnlyEnds ==
    ASSUME NEW i \in Ids, \A k \in Ids \ {i} : Ended(inst, inst', k),
           \/ ~Live(i)'
           \/ i \in {main', dog'}
           \/ Live(i) /\ (i \in {main, dog} => i \in {main', dog'})
           \/ inst[i].task \in {"env", "uid"},
           \A k \in {main, dog} \ {i, 0} : k \in Ids => k \in {main', dog'} \/ ~Live(k)'
    PROVE  Loses
  <1> SUFFICES ASSUME NEW k \in Ids, Live(k)', k \notin {main', dog'}
               PROVE  \/ Live(k) /\ k \notin {main, dog}
                      \/ inst[k].task \in {"env", "uid"}
    BY DEF Loses
  <1>1. CASE k = i
    BY <1>1
  <1>2. CASE k # i
    <2>1. Live(k)
      BY <1>2 DEF Ended, Live
    <2>2. k # 0
      BY SpawnerAssumption DEF Ids
    <2>3. QED
      BY <1>2, <2>1, <2>2
  <1>3. QED
    BY <1>1, <1>2

\* A main that waits for nothing new is as well off as before.
LEMMA StaysWell ==
    ASSUME WedgedOnlyByFailure, main \in Ids \cup {0}, main' = main, timers' = timers,
           NEW i \in Ids, i # main, inst[i].task # "port" \/ main = 0,
           \A k \in Ids \ {i} : Ended(inst, inst', k)
    PROVE  WedgedOnlyByFailure'
  <1>1. CASE main = 0
    BY <1>1 DEF WedgedOnlyByFailure, NeverWedged
  <1>2. CASE main # 0
    BY <1>2 DEF WedgedOnlyByFailure, NeverWedged, Ended, Live
  <1>3. QED
    BY <1>1, <1>2

LEMMA RequestSafe ==
    ASSUME TypeOK, WedgedOnlyByFailure, NEW i \in Ids, Request(i)
    PROVE  Loses /\ WedgedOnlyByFailure'
  <1>0. inst \in Instances /\ main \in Ids \cup {0} /\ dog \in Ids \cup {0}
    BY DEF TypeOK, Instances
  <1>1. CASE Launch(i) \/ ForceLaunch(i)
    <2>1. /\ inst' = Begun(inst, i, "main", "request", "port")
          /\ main = 0 /\ main' = 0 /\ dog' = dog
      BY <1>1 DEF Launch, ForceLaunch
    <2>2. \A k \in Ids \ {i} : Ended(inst, inst', k)
      BY <1>0, <2>1, BegunEffect DEF Ended
    <2>3. ~Live(i)'
      BY <1>0, <2>1, BegunEffect DEF Live
    <2>4. Loses
      BY <2>1, <2>2, <2>3, OnlyEnds
    <2>5. QED
      BY <2>1, <2>4 DEF WedgedOnlyByFailure, NeverWedged
  <1>2. CASE RestartMain(i)
    <2> DEFINE g == Killed(inst, main)
    <2>1. inst' = Begun(g, i, "main", "request", "port") /\ main' = main /\ dog' = dog
      BY <1>2 DEF RestartMain
    <2>2. g \in Instances
      BY <1>0, KilledType
    <2>3. \A k \in Ids : Ended(inst, g, k)
      BY <1>0, KilledEffect DEF Ended
    <2>4. \A k \in Ids : IF k = i THEN inst'[k].task = "port" /\ inst'[k].proc = "none"
                                  ELSE inst'[k] = g[k]
      <3> HIDE DEF g
      <3>1. QED
        BY <2>1, <2>2, BegunEffect
    <2>5. \A k \in Ids \ {i} : Ended(inst, inst', k)
      <3> HIDE DEF g
      <3>1. QED
        BY <2>3, <2>4 DEF Ended
    <2>6. ~Live(i)'
      BY <2>4 DEF Live
    <2>7. Loses
      BY <2>1, <2>5, <2>6, OnlyEnds
    <2>8. WedgedOnlyByFailure'
      BY <2>4 DEF WedgedOnlyByFailure, NeverWedged
    <2>9. QED
      BY <2>7, <2>8
  <1>3. CASE SpawnWatchdog(i)
    <2>1. /\ inst' = WithWatchdog(inst, i)
          /\ main' = main /\ dog = 0 /\ dog' = i /\ timers' = timers
          /\ i # main /\ inst[i].task # "port"
      BY <1>3 DEF SpawnWatchdog, Fresh, Free
    <2>2. \A k \in Ids \ {i} : Ended(inst, inst', k)
      BY <1>0, <2>1, WatchdogEffect
    <2>3. Loses
      BY <2>1, <2>2, OnlyEnds
    <2>4. WedgedOnlyByFailure'
      BY <1>0, <2>1, <2>2, StaysWell
    <2>5. QED
      BY <2>3, <2>4
  <1>4. QED
    BY <1>1, <1>2, <1>3 DEF Request

\* stop ends every process a map names.
LEMMA StopSafe ==
    ASSUME TypeOK, Stop
    PROVE  Loses /\ WedgedOnlyByFailure'
  <1>0. inst \in Instances /\ main \in Ids \cup {0} /\ dog \in Ids \cup {0}
    BY DEF TypeOK, Instances
  <1> DEFINE g == Killed(inst, main)
  <1>1. g \in Instances
    BY <1>0, KilledType
  <1>2. \A k \in Ids : /\ Ended(inst, g, k)
                       /\ k = main => g[k].proc \notin {"forked", "alive"}
    BY <1>0, KilledEffect DEF Ended
  <1>3. inst' = Killed(g, dog) /\ main' = 0
    BY DEF Stop
  <1>4. \A k \in Ids : /\ inst'[k].proc \in {"forked", "alive"} => g[k].proc \in {"forked", "alive"}
                       /\ k = dog => inst'[k].proc \notin {"forked", "alive"}
    <2> HIDE DEF g
    <2>1. QED
      BY <1>0, <1>1, <1>3, KilledEffect
  <1>5. Loses
    <2> HIDE DEF g
    <2>1. QED
      BY <1>2, <1>4 DEF Loses, Live, Ended
  <1>6. WedgedOnlyByFailure'
    BY <1>3 DEF WedgedOnlyByFailure, NeverWedged
  <1>7. QED
    BY <1>5, <1>6

LEMMA StepSafe ==
    ASSUME TypeOK, WedgedOnlyByFailure, NEW i \in Ids, Step(i)
    PROVE  Loses /\ WedgedOnlyByFailure'
  <1>0. inst \in Instances /\ main \in Ids \cup {0} /\ dog \in Ids \cup {0} /\ i # 0
    BY SpawnerAssumption DEF TypeOK, Instances, Ids
  <1>1. CASE Register(i)
    <2>1. main' = i /\ dog' = dog /\ inst[i].task = "port"
      BY <1>1 DEF Register
    <2>2. /\ \A k \in Ids \ {i} : Ended(inst, inst', k)
          /\ inst'[i].task = "env" \/ Live(i)'
      <3>1. CASE Slow
        <4>1. inst' = [inst EXCEPT ![i].task = "env"]
          BY <1>1, <3>1 DEF Register
        <4>2. QED
          BY <1>0, <4>1 DEF Ended, Live, Instances
      <3>2. CASE ~Slow
        <4>1. inst' = Forked(Cleaned(inst), i) /\ Cleaned(inst) \in Instances
          BY <1>0, <1>1, <3>2, CleanedType DEF Register
        <4>2. \A k \in Ids \ {i} : inst'[k] = Cleaned(inst)[k]
          BY <4>1, ForkedEffect
        <4>3. Live(i)'
          BY <4>1, ForkedEffect DEF Live
        <4>4. QED
          BY <1>0, <4>2, <4>3, CleanedEffect DEF Ended
      <3>3. QED
        BY <3>1, <3>2
    <2>3. Loses
      BY <2>1, <2>2 DEF Loses, Ended, Live
    <2>4. WedgedOnlyByFailure'
      BY <2>1, <2>2 DEF WedgedOnlyByFailure, NeverWedged
    <2>5. QED
      BY <2>3, <2>4
  <1>2. CASE RegisterFails(i)
    <2>1. main' = i /\ dog' = dog /\ inst[i].task = "port"
      BY <1>2 DEF RegisterFails
    <2>2. /\ \A k \in Ids \ {i} : inst'[k] = inst[k]
          /\ inst'[i].task = "failed"
      BY <1>0, <1>2 DEF RegisterFails, Instances
    <2>3. Loses
      BY <2>1, <2>2 DEF Loses, Live
    <2>4. QED
      BY <2>1, <2>2, <2>3 DEF WedgedOnlyByFailure
  <1>3. ASSUME EnvReady(i) \/ CleanScopes(i) \/ Fork(i) \/ ScopeRegisters(i) \/ Dies(i)
        PROVE  Loses /\ WedgedOnlyByFailure'
    <2>1. main' = main /\ dog' = dog /\ timers' = timers
      BY <1>3 DEF EnvReady, CleanScopes, Fork, ScopeRegisters, Dies
    <2>2. /\ \A k \in Ids \ {i} : Ended(inst, inst', k)
          /\ \/ Live(i)' /\ (Live(i) \/ inst[i].task \in {"env", "uid"})
             \/ ~Live(i)' /\ (inst'[i].task \in {"scopes", "uid"} \/ inst'[i].proc = "dead")
             \/ Live(i)' /\ inst'[i].task = "uid" /\ Live(i)
             \/ Live(i)' /\ inst'[i].task = "scopes" /\ Live(i)
          /\ inst[i].task = "port" => inst'[i].task = "port"
      <3>1. CASE EnvReady(i) /\ Account
        <4>1. inst' = [inst EXCEPT ![i].task = "scopes"] /\ inst[i].task = "env"
          BY <3>1 DEF EnvReady
        <4>2. QED
          BY <1>0, <4>1 DEF Ended, Live, Instances
      <3>2. CASE (EnvReady(i) /\ ~Account) \/ Fork(i)
        <4>1. inst' = Forked(inst, i) /\ inst[i].task \in {"env", "uid"}
          BY <3>2 DEF EnvReady, Fork
        <4>2. QED
          BY <1>0, <4>1, ForkedEffect DEF Ended, Live
      <3>3. CASE CleanScopes(i)
        <4>1. /\ inst' = [Cleaned(inst) EXCEPT ![i].task = "uid"] /\ inst[i].task = "scopes"
              /\ Cleaned(inst) \in Instances
          BY <1>0, <3>3, CleanedType DEF CleanScopes
        <4>2. /\ \A k \in Ids \ {i} : Ended(Cleaned(inst), inst', k)
              /\ inst'[i].task = "uid" /\ inst'[i].proc = Cleaned(inst)[i].proc
          BY <4>1 DEF Ended, Instances
        <4>3. \A k \in Ids : /\ Cleaned(inst)[k].task = inst[k].task
                             /\ \/ Cleaned(inst)[k].proc = inst[k].proc
                                \/ inst[k].proc = "alive" /\ Cleaned(inst)[k].proc = "dead"
          BY <1>0, CleanedEffect
        <4>4. QED
          BY <4>1, <4>2, <4>3 DEF Ended, Live
      <3>4. CASE ScopeRegisters(i)
        <4>1. inst' = [inst EXCEPT ![i].proc = "alive"] /\ inst[i].proc = "forked"
          BY <3>4 DEF ScopeRegisters
        <4>2. QED
          BY <1>0, <4>1 DEF Ended, Live, Instances
      <3>5. CASE Dies(i)
        <4>1. inst' = [inst EXCEPT ![i].proc = "dead"]
          BY <3>5 DEF Dies
        <4>2. QED
          BY <1>0, <4>1 DEF Ended, Live, Instances
      <3>6. QED
        BY <1>3, <3>1, <3>2, <3>3, <3>4, <3>5
    <2>3. Loses
      BY <2>1, <2>2, OnlyEnds
    <2>4. WedgedOnlyByFailure'
      <3>1. CASE main = 0
        BY <2>1, <3>1 DEF WedgedOnlyByFailure, NeverWedged
      <3>2. CASE main = i
        BY <1>0, <2>1, <2>2, <3>2 DEF WedgedOnlyByFailure, NeverWedged, Live
      <3>3. CASE main # 0 /\ main # i
        BY <1>0, <2>1, <2>2, <3>3 DEF WedgedOnlyByFailure, NeverWedged, Ended, Live
      <3>4. QED
        BY <3>1, <3>2, <3>3
    <2>5. QED
      BY <2>3, <2>4
  <1>4. CASE StaleExit(i) \/ StoppedExit(i)
    <2>1. /\ main' \in {main, 0} /\ dog' \in {dog, 0} /\ timers' = timers
          /\ main' = main \/ i = main
          /\ dog' = dog \/ i = dog
          /\ i = main => main' = 0
          /\ inst' = [inst EXCEPT ![i].proc = "gone"]
      BY <1>4 DEF StaleExit, StoppedExit, Ends
    <2>2. /\ \A k \in Ids \ {i} : Ended(inst, inst', k)
          /\ ~Live(i)' /\ inst'[i].task = inst[i].task
      BY <1>0, <2>1 DEF Ended, Live, Instances
    <2>3. Loses
      BY <2>1, <2>2, OnlyEnds
    <2>4. WedgedOnlyByFailure'
      <3>1. CASE main' = 0
        BY <3>1 DEF WedgedOnlyByFailure, NeverWedged
      <3>2. CASE main' # 0
        BY <1>0, <2>1, <2>2, <3>2 DEF WedgedOnlyByFailure, NeverWedged, Ended, Live
      <3>3. QED
        BY <3>1, <3>2
    <2>5. QED
      BY <2>3, <2>4
  <1>5. CASE CrashExit(i)
    <2>1. PICK b \in Budgets :
             LET open == Spent(b[1])
                 f == [inst EXCEPT ![i].proc = "gone",
                                   ![i].status = IF open THEN "failed" ELSE "crashed"]
                 guarded == EnablePatch /\ dog = 0 IN
             /\ IF open THEN main' = 0 ELSE timers' = timers \cup {i} /\ main' = main
             /\ IF guarded THEN \E j \in Ids : /\ Fresh(j)
                                               /\ dog' = j /\ inst' = WithWatchdog(f, j)
                           ELSE dog' = dog /\ inst' = f
      BY <1>5 DEF CrashExit
    <2> DEFINE s == IF Spent(b[1]) THEN "failed" ELSE "crashed"
               f == [inst EXCEPT ![i].proc = "gone", ![i].status = s]
    <2>2. f \in Instances
      BY <1>0, GoneType
    <2>3. \A k \in Ids : /\ f[k].task = inst[k].task
                         /\ f[k].proc = IF k = i THEN "gone" ELSE inst[k].proc
      BY <1>0 DEF Instances
    <2>4. i = main /\ (main' = 0 \/ (main' = main /\ i \in timers'))
      BY <1>5, <2>1 DEF CrashExit
    <2>5. WedgedOnlyByFailure'
      BY <2>4 DEF WedgedOnlyByFailure, NeverWedged
    <2>6. Loses
      <3>1. CASE EnablePatch /\ dog = 0
        <4>1. PICK j \in Ids : dog' = j /\ inst' = WithWatchdog(f, j)
          BY <2>1, <3>1
        <4>2. \A k \in Ids \ {j} : Ended(f, inst', k)
          <5> HIDE DEF f
          <5>1. QED
            BY <2>2, <4>1, WatchdogEffect
        <4>3. \A k \in Ids : Live(k)' => k = j \/ (k # i /\ Live(k))
          <5> HIDE DEF f
          <5>1. QED
            BY <2>3, <4>2 DEF Ended, Live
        <4>4. \A k \in Ids : k # 0
          BY SpawnerAssumption DEF Ids
        <4>5. QED
          BY <2>4, <3>1, <4>1, <4>3, <4>4 DEF Loses
      <3>2. CASE ~(EnablePatch /\ dog = 0)
        <4>1. dog' = dog /\ inst' = f
          BY <2>1, <3>2
        <4>2. \A k \in Ids : Live(k)' => k # i /\ Live(k)
          <5> HIDE DEF f
          <5>1. QED
            BY <2>3, <4>1 DEF Live
        <4>3. QED
          BY <2>4, <4>1, <4>2 DEF Loses
      <3>3. QED
        BY <3>1, <3>2
    <2>7. QED
      BY <2>5, <2>6
  <1>6. QED
    BY <1>1, <1>2, <1>3, <1>4, <1>5 DEF Step

\* No step of LocalSpawner loses a process in another way, or wedges a main.
LEMMA NextSafe ==
    ASSUME TypeOK, WedgedOnlyByFailure, [Next]_vars
    PROVE  Loses /\ WedgedOnlyByFailure'
  <1>0. inst \in Instances /\ main \in Ids \cup {0} /\ dog \in Ids \cup {0}
    BY DEF TypeOK, Instances
  <1>1. ASSUME NEW i \in Ids, Crash(i) PROVE Loses /\ WedgedOnlyByFailure'
    <2>1. /\ main' = main /\ dog' = dog /\ timers' = timers
          /\ inst' = [inst EXCEPT ![i].proc = "dead"]
      BY <1>1 DEF Crash
    <2>2. /\ \A k \in Ids \ {i} : Ended(inst, inst', k)
          /\ inst'[i].proc = "dead" /\ inst'[i].task = inst[i].task
      BY <1>0, <2>1 DEF Ended, Instances
    <2>3. Loses
      BY <2>1, <2>2, OnlyEnds DEF Live
    <2>4. WedgedOnlyByFailure'
      BY <1>0, <2>1, <2>2 DEF WedgedOnlyByFailure, NeverWedged, Ended, Live
    <2>5. QED
      BY <2>3, <2>4
  <1>2. ASSUME NEW t \in Ids, NEW i \in Ids, TimerFires(t, i) PROVE Loses /\ WedgedOnlyByFailure'
    <2>1. /\ main' = main /\ dog' = dog
          /\ inst' = Begun(inst, i, "main", "timer", "port")
      BY <1>2 DEF TimerFires
    <2>2. \A k \in Ids : IF k = i THEN inst'[k].task = "port" /\ inst'[k].proc = "none"
                                  ELSE inst'[k] = inst[k]
      BY <1>0, <2>1, BegunEffect
    <2>3. Loses
      BY <2>1, <2>2 DEF Loses, Live
    <2>4. WedgedOnlyByFailure'
      BY <2>2 DEF WedgedOnlyByFailure, NeverWedged
    <2>5. QED
      BY <2>3, <2>4
  <1>3. ASSUME WindowSlides \/ CoolsDown \/ UNCHANGED vars PROVE Loses /\ WedgedOnlyByFailure'
    <2>1. UNCHANGED <<inst, main, dog, timers>>
      BY <1>3 DEF WindowSlides, CoolsDown, vars
    <2>2. QED
      BY <2>1 DEF Loses, WedgedOnlyByFailure, NeverWedged, Live
  <1>4. QED
    BY <1>1, <1>2, <1>3, RequestSafe, StopSafe, StepSafe DEF Next, Fires

\* A process gets lost only when a second spawn registers over it or when its own
\* spawn was overtaken while it waited (orchestrator.ts: spawnInstance): no stop, restart,
\* crash or exit loses one that runs, whatever the setting, late scopes and failing
\* spawns included.
THEOREM ProcessesLostOnlySo == Spec => StraysArise
  <1>1. Init => TypeOK /\ WedgedOnlyByFailure
    BY InitType DEF Init, WedgedOnlyByFailure, NeverWedged
  <1>2. TypeOK /\ WedgedOnlyByFailure /\ [Next]_vars => TypeOK' /\ WedgedOnlyByFailure'
    BY NextType, NextSafe
  <1>3. TypeOK /\ WedgedOnlyByFailure /\ [Next]_vars => Loses
    BY NextSafe
  <1>4. Loses <=> \A i \in Ids : Live(i)' /\ i \notin {main', dog'} =>
                     \/ Live(i) /\ i \notin {main, dog}
                     \/ i = main /\ main' # main /\ main' \in Ids /\ inst[main'].task = "port"
                     \/ inst[i].task \in {"env", "uid"}
    BY DEF Loses
  <1>5. QED
    BY <1>1, <1>2, <1>3, <1>4, PTL DEF Spec, StraysArise

\* A main entry without a process is on its way out or up again, or its spawn failed:
\* AlreadyRunningError outlives an instance in that one case only, in any order of
\* requests, crashes, timers and exits (trackChild, scheduleRestart).
THEOREM OnlyFailuresWedge == Spec => []WedgedOnlyByFailure
  <1>1. Init => TypeOK /\ WedgedOnlyByFailure
    BY InitType DEF Init, WedgedOnlyByFailure, NeverWedged
  <1>2. TypeOK /\ WedgedOnlyByFailure /\ [Next]_vars => TypeOK' /\ WedgedOnlyByFailure'
    BY NextType, NextSafe
  <1>3. QED
    BY <1>1, <1>2, PTL DEF Spec
=============================================================================
