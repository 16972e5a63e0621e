---------------------------- MODULE BusinessPlugins ----------------------------
(***************************************************************************)
(* The business plugins of one user (src/web/routes/business-plugins.ts,   *)
(* with restartAndProbe and tryHealPluginFailure of the orchestrator): the *)
(* pool an administrator fills, and the tasks that change which of its     *)
(* plugins the user's instance loads.  A task runs beside the request that *)
(* posted it; nothing keeps two tasks of a user apart.                     *)
(*                                                                         *)
(* Of the profile, deps are the business plugins package.json depends on,  *)
(* bundles those the instance is to load, modules those in node_modules.   *)
(* A bad plugin kills the instance while it starts with the error of the   *)
(* loader, which names it; a mute one with an error that names nothing; a  *)
(* flash one, as silently, soon after it is up, so that the breaker counts *)
(* one such exit after another.                                            *)
(***************************************************************************)
EXTENDS Integers, FiniteSets

CONSTANTS
  Names,
  Natures,      \* [Names -> {"good", "bad", "mute", "flash"}]: what they may turn out to be
  Tasks,
  MaxSelections, \* [Tasks -> Nat], bound: plugins the request turns on or off
  MaxRestarts,  \* crashMaxRestarts: restarts in one window before the breaker opens
  MaxEvents     \* bound: uploads, deletions, pnpm runs that fail by themselves, tasks
                \* posted while another one runs, entries after the breaker opened

VARIABLES
  nature,
  file, row,    \* names with an archive, with a row in the database
  ops,          \* requests on the pool under way: <<operation, name>>
  deps, bundles, modules,
  inst,         \* [status, loaded, crashes]: status "failed": the breaker is open
  task,         \* [Tasks -> [pc, enable, disable, snap, todo, at, applied, rejected, status, free]]
  events

pool == <<file, row, ops>>
profile == <<deps, bundles, modules>>
notes == <<nature, events>>
vars == <<pool, profile, inst, task, notes>>

Of(kinds) == {n \in Names : nature[n] \in kinds}

NoName == "none"
Idle == [pc |-> "idle", enable |-> {}, disable |-> {}, snap |-> [deps |-> {}, bundles |-> {}],
         todo |-> {}, at |-> NoName, applied |-> {}, rejected |-> {}, status |-> "none",
         free |-> TRUE]  \* no other task ran beside it, no pnpm run failed

Init ==
  /\ nature \in Natures
  /\ file = Names /\ row = file
  /\ ops = {}
  /\ deps \in SUBSET Of({"good"}) /\ bundles = deps /\ modules = deps
  /\ inst = [status |-> "up", loaded |-> bundles, crashes |-> 0]
  /\ task = [t \in Tasks |-> Idle]
  /\ events = 0

-----------------------------------------------------------------------------
(* The pool.  A request waits between the file and the row.                *)

\* The old archive is removed, the new one, once admitted, takes its place.
UploadFile(n) ==
  /\ events < MaxEvents
  /\ events' = events + 1
  /\ file' = file \cup {n} /\ ops' = ops \cup {<<"upload", n>>}
  /\ UNCHANGED <<nature, row, profile, inst, task>>

DeleteFile(n) ==
  /\ events < MaxEvents /\ n \in row
  /\ events' = events + 1
  /\ file' = file \ {n} /\ ops' = ops \cup {<<"delete", n>>}
  /\ UNCHANGED <<nature, row, profile, inst, task>>

\* upsertBusinessPlugin, deleteBusinessPlugin.
SetRow(o) ==
  /\ ops' = ops \ {o}
  /\ row' = IF o[1] = "upload" THEN row \cup {o[2]} ELSE row \ {o[2]}
  /\ UNCHANGED <<file, profile, inst, task, notes>>

-----------------------------------------------------------------------------
(* The instance.                                                           *)

\* It reads the profile when it is started.  A start that was asked for begins a
\* new count of crashes and clears the breaker; a restart after a crash does not.
Started(crashes) == [status |-> "starting", loaded |-> bundles, crashes |-> crashes]

\* What may kill it now; of these, those the error names.
Culprits ==
  IF inst.status = "starting"
  THEN inst.loaded \cap (Of({"bad", "mute"}) \cup (Names \ modules))
  ELSE IF inst.status = "up" THEN inst.loaded \cap Of({"flash"}) ELSE {}
Named(n) == inst.status = "starting" /\ (n \notin modules \/ nature[n] = "bad")

Comes ==
  /\ inst.status = "starting" /\ Culprits = {}
  /\ inst' = [inst EXCEPT !.status = "up"]
  /\ UNCHANGED <<pool, profile, task, notes>>

\* A task has installed and writes the handoff, which takes less time than an
\* instance needs to come as far as its plugins.
Handoff ==
  \E t \in Tasks : task[t].pc = "restart" \/ (task[t].pc = "installing" /\ task[t].todo = {})

\* The exit is noticed.  tryHealPluginFailure takes a plugin the error names out of
\* the bundles, if it is there, leaves it in the dependencies and begins a new count.
Heals(n) ==
  /\ Named(n) /\ n \in bundles
  /\ bundles' = bundles \ {n}
  /\ inst' = [inst EXCEPT !.status = "crashed", !.crashes = 1]

\* Else another restart, or the breaker: the instance is forgotten.
CountsCrash(n) ==
  /\ ~(Named(n) /\ n \in bundles)
  /\ inst' = IF inst.crashes >= MaxRestarts THEN [inst EXCEPT !.status = "failed", !.crashes = 0]
             ELSE [inst EXCEPT !.status = "crashed", !.crashes = @ + 1]
  /\ UNCHANGED bundles

Crashes ==
  /\ ~Handoff
  /\ \E n \in Culprits : Heals(n) \/ CountsCrash(n)
  /\ UNCHANGED <<pool, deps, modules, task, notes>>

\* scheduleCrashRestart, after a back-off that is longer than the poll of a probe
\* that waits for the token.
Respawns ==
  /\ inst.status = "crashed" /\ \A t \in Tasks : task[t].pc # "probing"
  /\ inst' = Started(inst.crashes)
  /\ UNCHANGED <<pool, profile, task, notes>>

\* The user enters again when the breaker has cooled down.
Enters ==
  /\ inst.status = "failed" /\ events < MaxEvents
  /\ events' = events + 1
  /\ inst' = Started(0)
  /\ UNCHANGED <<nature, pool, profile, task>>

-----------------------------------------------------------------------------
(* The task.                                                               *)

Active(t) == task[t].pc \notin {"idle", "ended"}
Beside == {t \in Tasks : Active(t)}

\* POST /api/plugins/mine/apply, with the snapshot.
Post(t) ==
  /\ task[t].pc = "idle"
  /\ events' = IF Beside = {} THEN events ELSE events + 1
  /\ events' <= MaxEvents
  /\ \E on \in SUBSET (Names \ bundles), off \in SUBSET bundles :
       /\ Cardinality(on \cup off) \in 1 .. MaxSelections[t]
       /\ task' = [s \in Tasks |->
            IF s = t
            THEN [Idle EXCEPT !.pc = "disabling", !.enable = on, !.disable = off, !.todo = off,
                              !.snap = [deps |-> deps, bundles |-> bundles], !.status = "running",
                              !.free = Beside = {}]
            ELSE IF s \in Beside THEN [task[s] EXCEPT !.free = FALSE] ELSE task[s]]
  /\ UNCHANGED <<nature, pool, profile, inst>>

\* pnpm makes node_modules what package.json says; reconcileBundles.
Profile(ds) ==
  /\ deps' = ds /\ modules' = ds
  /\ bundles' = (bundles \cap ds) \cup ds

Remove(n) == n \in deps /\ Profile(deps \ {n}) /\ UNCHANGED notes
Add(n) == n \in row \cap file /\ Profile(deps \cup {n}) /\ UNCHANGED notes

\* pnpm fails by itself, or there is nothing to remove or to add.
PnpmFails == events < MaxEvents /\ events' = events + 1 /\ UNCHANGED <<nature, profile>>
CannotRemove(n) == PnpmFails \/ (n \notin deps /\ UNCHANGED <<notes, profile>>)
CannotAdd(n) == PnpmFails \/ (n \notin row \cap file /\ UNCHANGED <<notes, profile>>)

\* What of a task is there to be polled.
Ended(r, status) ==
  [Idle EXCEPT !.pc = "ended", !.status = status, !.applied = r.applied, !.rejected = r.rejected]

Disables(t) ==
  /\ task[t].pc = "disabling" /\ task[t].todo # {}
  /\ \E n \in task[t].todo :
       \/ Remove(n) /\ task' = [task EXCEPT ![t].todo = @ \ {n}]
       \/ CannotRemove(n) /\ task' = [task EXCEPT ![t].pc = "catch", ![t].free = FALSE]
  /\ UNCHANGED <<pool, inst>>

Disabled(t) ==
  /\ task[t].pc = "disabling" /\ task[t].todo = {}
  /\ task' = [task EXCEPT ![t] =
       IF @.enable = {} THEN Ended(@, "success") ELSE [@ EXCEPT !.pc = "installing", !.todo = task[t].enable]]
  /\ UNCHANGED <<pool, profile, inst, notes>>

\* The whole batch, then one restart.
Installs(t) ==
  /\ task[t].pc = "installing" /\ task[t].todo # {}
  /\ \E n \in task[t].todo :
       \/ Add(n) /\ task' = [task EXCEPT ![t].todo = @ \ {n}]
       \/ CannotAdd(n) /\ task' = [task EXCEPT ![t].pc = "catch", ![t].free = FALSE]
  /\ UNCHANGED <<pool, inst>>

\* One plugin after another, after the batch did not come up.
Isolates(t) ==
  /\ task[t].pc = "isolating" /\ task[t].todo # {}
  /\ \E n \in task[t].todo :
       \/ /\ Add(n)
          /\ task' = [task EXCEPT ![t].todo = @ \ {n}, ![t].at = n, ![t].pc = "restart"]
       \/ CannotAdd(n) /\ task' = [task EXCEPT ![t].pc = "catch", ![t].free = FALSE]
  /\ UNCHANGED <<pool, inst>>

\* restartAndProbe: the restart, or a launch by force where none is known.
Restarts(t) ==
  /\ \/ task[t].pc \in {"installing", "isolating"} /\ task[t].todo = {}
     \/ task[t].pc = "restart"
  /\ inst' = Started(0)
  /\ task' = [task EXCEPT ![t].pc = "probing",
                          ![t].at = IF task[t].pc = "isolating" THEN "last" ELSE @]
  /\ UNCHANGED <<pool, profile, notes>>

\* The token is there: 2.5 seconds more.
SeesToken(t) ==
  /\ task[t].pc = "probing" /\ inst.status = "up"
  /\ task' = [task EXCEPT ![t].pc = "settling"]
  /\ UNCHANGED <<pool, profile, inst, notes>>

\* No token at the end of the window, though the instance runs: the loop goes on.
LooksAgain(t) ==
  /\ task[t].pc = "settling" /\ inst.status = "starting"
  /\ task' = [task EXCEPT ![t].pc = "probing"]
  /\ UNCHANGED <<pool, profile, inst, notes>>

Probed(t, ok) ==
  /\ task[t].pc \in {"probing", "settling"}
  /\ IF ok THEN task[t].pc = "settling" /\ inst.status = "up"
     ELSE inst.status \in {"crashed", "failed"}

\* The batch came up.
AllGood(t) ==
  /\ task[t].at = NoName /\ Probed(t, TRUE)
  /\ task' = [task EXCEPT ![t] = Ended([@ EXCEPT !.applied = task[t].enable], "success")]
  /\ UNCHANGED <<pool, profile, inst, notes>>

Restore(t) == deps' = task[t].snap.deps /\ bundles' = task[t].snap.bundles /\ UNCHANGED modules

\* It did not.
RollsBack(t) ==
  /\ task[t].at = NoName /\ Probed(t, FALSE)
  /\ Restore(t)
  /\ task' = [task EXCEPT ![t].pc = "isolating", ![t].todo = task[t].enable]
  /\ UNCHANGED <<pool, inst, notes>>

Keeps(t) ==
  /\ task[t].at \in Names /\ Probed(t, TRUE)
  /\ task' = [task EXCEPT ![t].pc = "isolating", ![t].applied = @ \cup {task[t].at}]
  /\ UNCHANGED <<pool, profile, inst, notes>>

\* mutant
RejectsInstalled(t) ==
  /\ task[t].at \in Names /\ Probed(t, FALSE)
  /\ task' = [task EXCEPT ![t].pc = "isolating", ![t].rejected = @ \cup {task[t].at}]
  /\ UNCHANGED <<pool, profile, inst, notes>>

\* A removal that fails is let pass.
Rejects(t) ==
  /\ task[t].at \in Names /\ Probed(t, FALSE)
  /\ \E lucky \in BOOLEAN :
       /\ IF lucky THEN Remove(task[t].at) ELSE CannotRemove(task[t].at)
       /\ task' = [task EXCEPT ![t].pc = "isolating", ![t].rejected = @ \cup {task[t].at},
                               ![t].free = @ /\ lucky]
  /\ UNCHANGED <<pool, inst>>

\* The verdict of the last restart is not looked at.
Recovered(t) ==
  /\ task[t].at = "last" /\ (Probed(t, TRUE) \/ Probed(t, FALSE))
  /\ task' = [task EXCEPT ![t] = Ended(@, "success")]
  /\ UNCHANGED <<pool, profile, inst, notes>>

\* The profile goes back to the snapshot, the instance is started again.
Catches(t) ==
  /\ task[t].pc = "catch"
  /\ Restore(t)
  /\ task' = [task EXCEPT ![t].pc = "failing"]
  /\ UNCHANGED <<pool, inst, notes>>

RestartsOld(t) ==
  /\ task[t].pc = "failing"
  /\ inst' = Started(0)
  /\ task' = [task EXCEPT ![t].pc = "probing", ![t].at = "failed"]
  /\ UNCHANGED <<pool, profile, notes>>

Fails(t) ==
  /\ task[t].at = "failed" /\ (Probed(t, TRUE) \/ Probed(t, FALSE))
  /\ task' = [task EXCEPT ![t] = Ended(@, "failed")]
  /\ UNCHANGED <<pool, profile, inst, notes>>

-----------------------------------------------------------------------------

Works(t) ==
  \/ Disables(t) \/ Disabled(t) \/ Installs(t) \/ Isolates(t) \/ Restarts(t) \/ SeesToken(t)
  \/ LooksAgain(t) \/ AllGood(t) \/ RollsBack(t) \/ Keeps(t) \/ Rejects(t) \/ Recovered(t)
  \/ Catches(t) \/ RestartsOld(t) \/ Fails(t)

Instance == Comes \/ Crashes \/ Respawns

Next ==
  \/ \E n \in Names : UploadFile(n) \/ DeleteFile(n)
  \/ \E o \in ops : SetRow(o)
  \/ Instance \/ Enters
  \/ \E t \in Tasks : Post(t) \/ Works(t)

Spec == Init /\ [][Next]_vars

\* The server goes on with what it started, the instance with what it loads.
FairSpec == Spec /\ WF_vars(Instance) /\ \A t \in Tasks : WF_vars(Works(t))

-----------------------------------------------------------------------------
(* Properties.                                                             *)

\* What the instance is to load at its next start is among what the profile depends
\* on, whatever tasks, snapshots and self-healing do to either (what it has loaded is
\* older: a task that only disables does not restart it), and no task judges a plugin
\* twice.
TypeOK ==
  /\ bundles \subseteq deps
  /\ \A t \in Tasks : task[t].applied \cap task[t].rejected = {}

SucceedsNow(t) == task[t].status # "success" /\ task'[t].status = "success"

\* A task that ran alone and had no accident tells the truth: what it lists as
\* enabled is to be loaded, what it lists as taken out is not.
TellsTheTruth ==
  [][\A t \in Tasks :
       task[t].free /\ SucceedsNow(t) =>
         /\ task'[t].applied \subseteq bundles
         /\ task'[t].rejected \cap bundles = {}]_vars

\* Every task comes to an end that can be polled.
TaskEnds == \A t \in Tasks : []<>~Active(t)

\* Whatever was installed, the instance is up in the end and stays up, or is given up
\* with a plugin loaded that kills it without being named, or one that was removed
\* while it started; one that the error names never keeps it down.
ComesBack ==
  <>[](\/ inst.status = "up"
       \/ /\ inst.status = "failed"
          /\ \E n \in inst.loaded : n \in Of({"mute", "flash"}) \/ n \notin modules)
=============================================================================
