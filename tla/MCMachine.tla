------------------------------ MODULE MCMachine ------------------------------
(* One machine: the processes of a user on a worker and inside the Manager, the *)
(* scopes a worker finds when it starts, and the mounts of an instance.  One of *)
(* the four runs, the others stay where they begin.                             *)
EXTENDS LocalSpawner, TLC

CONSTANTS u1, u2, a, b, c, None

VARIABLES part,  \* the component that runs; the others stay where they begin
          localInst, localMain, localDog, localTimers, localHandle,
          localHistory, localBreaker, localBad, localAsked,
          os, port, found, left, record, asking, settled, launch, mine,
          declared,
          root, skills, plan, made

ScopeOwner == a :> u1 @@ b :> u1 @@ c :> u2

\* The directories of a machine: the users' data, the shared skills, and what an
\* instance sees of /etc and may not change of its own.
DataRoots == {<<"data", "users", "u">>, <<"opt", "dsh", "users", "u">>}
SharedSkills == {<<>>, <<"data", "skills">>, <<"opt", "dsh", "skills">>,
                 <<"data", "users", "shared", "skills">>}
EtcShown == {<<"etc", "passwd">>, <<"etc", "ssl">>, <<"etc", "pki", "tls", "certs">>,
             <<"etc", "pki", "ca-trust">>}
ReadOnly == {<<"home", "profiles", "web", "package.json">>,
             <<"home", "profiles", "web", "cordis.patch.yml">>}

\* Inside the Manager the key and the uid come late, and a spawn may fail.
Local == INSTANCE LocalSpawner WITH
    Slow <- TRUE, PromptScopes <- FALSE, EnablePatch <- FALSE,
    SpawnFails <- TRUE, BadPlugins <- 0, MaxRequests <- 2, inst <- localInst,
    main <- localMain, dog <- localDog, timers <- localTimers,
    handle <- localHandle, history <- localHistory, breaker <- localBreaker,
    bad <- localBad, asked <- localAsked

\* Two users, one with two scopes, one of which cannot be read.
Scopes == INSTANCE ScopeAdoption WITH
    Users <- {u1, u2}, Units <- {a, b, c}, Ports <- {1, 2}, None <- None,
    Owner <- ScopeOwner, Readable <- {a, c}, Stubborn <- {b}

Mounts == INSTANCE MountPlan WITH
    Roots <- DataRoots, SkillDirs <- SharedSkills, Allow <- EtcShown,
    Profiles <- ReadOnly

localVars == <<localInst, localMain, localDog, localTimers, localHandle,
               localHistory, localBreaker, localBad, localAsked>>
scopesVars == <<os, port, found, left, record, asking, settled, launch, mine,
                declared>>
mountsVars == <<root, skills, plan, made>>

Parts == {"worker", "local", "scopes", "mounts"}

allVars == <<part, vars, localVars, scopesVars, mountsVars>>

AllInit ==
  /\ part \in Parts
  /\ Init
  /\ Local!Init
  /\ IF part = "scopes" THEN Scopes!Init
     ELSE /\ os = [x \in {a, b, c} |-> "absent"] /\ port = [x \in {a, b, c} |-> None]
          /\ found = {} /\ left = {} /\ record = [x \in {a, b, c} |-> None] /\ asking = {}
          /\ settled = 1 /\ launch = [u \in {u1, u2} |-> None] /\ mine = {} /\ declared = {}
  /\ IF part = "mounts" THEN Mounts!Init
     ELSE root = <<>> /\ skills = <<>> /\ plan = <<>> /\ made = 0

AllNext ==
  \/ part = "worker" /\ Next /\ UNCHANGED <<part, localVars, scopesVars, mountsVars>>
  \/ part = "local" /\ Local!Next /\ UNCHANGED <<part, vars, scopesVars, mountsVars>>
  \/ part = "scopes" /\ Scopes!Next /\ UNCHANGED <<part, vars, localVars, mountsVars>>
  \/ part = "mounts" /\ Mounts!Next /\ UNCHANGED <<part, vars, localVars, scopesVars>>

AllSpec == AllInit /\ [][AllNext]_allVars

\* The fairness of each component.
AllFair ==
  /\ AllSpec
  /\ \A i \in 1..4 : WF_localVars(part = "local" /\ Local!Step(i))
  /\ \A i \in 1..4 : WF_localVars(part = "local" /\ Local!Fires(i))
  /\ WF_scopesVars(part = "scopes" /\ Scopes!Adopts)
  /\ WF_scopesVars(part = "scopes" /\ Scopes!Reconciles)

-----------------------------------------------------------------------------
ASSUME ScopeConstants == Scopes!OwnerAssumption

\* Inside the Manager, where the key and the uid of a spawn come late and a spawn may
\* fail (orchestrator.ts: spawnInstance, killInstance, trackChild): a stop of a process
\* is final, a process is lost only by a spawn that was overtaken, and a main whose
\* process ended gets one again (scheduleRestart), unless its spawn fails.
LocalObeys ==
  /\ [](part = "local" => Local!TypeOK /\ Local!StopStops /\ Local!WedgedOnlyByFailure)
  /\ Local!StraysArise
  /\ Local!ComesBack

\* A worker that starts again decides about every scope it finds before it says
\* what there is, leaves alone what it launched itself, keeps one instance for a
\* user, and declares what it adopted (orchestrator.ts: rehydrateAdoptedScopes, adoptOne).
Adopted ==
  /\ [](part = "scopes" => /\ Scopes!TypeOK /\ Scopes!SettledIsDecided
                           /\ Scopes!OneInstancePerUser)
  /\ Scopes!NewLeftAlone /\ Scopes!Settles /\ Scopes!AdoptedDeclared

\* The mounts of an instance (orchestrator.ts: spawnAsUser): its directories can be
\* reached, other users' are not seen, and no mount hides an earlier bind.
Confined ==
  /\ [](part = "mounts" => Mounts!TypeOK /\ Mounts!Reachable /\ Mounts!OthersHidden)
  /\ Mounts!HidesNothing

=============================================================================
