----------------------------- MODULE MCServices ------------------------------
(* What keeps an instance usable: the lease of a Manager whose heartbeats are  *)
(* on time, the page that finds its instance again, the schema of the          *)
(* database, the contents nodes fetch from each other and the plugins of a     *)
(* user.  One of the five runs, the others stay where they begin.              *)
EXTENDS InstanceLease, TLC

CONSTANTS h1, m1, m2, None

VARIABLES part,  \* the component that runs; the others stay where they begin
          health, page, probe, app, recent, breaks, pageFaults,
          dialect, applied, schema, users, lastRow, proc, schemaEvents,
          nature, file, pluginsRow, ops, deps, bundles, modules, inst, task,
          pluginsEvents,
          epoch, mem, disk, peers, plans, fetch, result, contentFaults

\* One clock ahead of the other.
SkewedClock == [m \in Managers |-> IF m = m2 THEN 1 ELSE 0]

MCSelections == [t \in {"s", "t"} |-> IF t = "s" THEN 2 ELSE 1]
MCNatures ==
  {[n \in {"well", "ill"} |-> IF n = "well" THEN "good" ELSE ill] : ill \in {"bad", "mute", "flash"}}

Ids == {"old", "new", "late"}
MCHash == [u \in Ids |-> IF u = "old" THEN 2 ELSE 9]

Page == INSTANCE PageRecovery WITH
    Probes <- {1, 2}, RecoverMax <- 3, MaxBreaks <- 2, MaxFaults <- 1,
    faults <- pageFaults

\* Two processes; a legacy user whose hash may be a row id, and two new ones.
Schema == INSTANCE Migrations WITH
    Procs <- {"p", "q"}, Ids <- Ids, Legacy <- {"old"}, Hash <- MCHash,
    Left <- {0, 2, 6}, MaxEvents <- 2, events <- schemaEvents

\* A plugin that is well and one that is not.
Plugins == INSTANCE BusinessPlugins WITH
    Names <- {"well", "ill"}, Natures <- MCNatures, Tasks <- {"s", "t"},
    MaxSelections <- MCSelections, MaxRestarts <- 1, MaxEvents <- 1,
    row <- pluginsRow, events <- pluginsEvents

\* Two nodes of a group, a store that holds two of three blocks.
Content == INSTANCE ContentPlane WITH
    Nodes <- {"a", "b"}, Readers <- {"a"},
    Group <- [n \in {"a", "b"} |-> "g"], Contents <- {<<"p", "q">>, <<"r">>},
    Capacity <- 2, HasDisk <- TRUE, Grace <- 1, MaxEpoch <- 2,
    MaxFaults <- 1, faults <- contentFaults

pageVars == <<health, page, probe, app, recent, breaks, pageFaults>>
schemaVars == <<dialect, applied, schema, users, lastRow, proc, schemaEvents>>
pluginsVars == <<nature, file, pluginsRow, ops, deps, bundles, modules, inst,
                 task, pluginsEvents>>
contentVars == <<epoch, mem, disk, peers, plans, fetch, result, contentFaults>>

Parts == {"lease", "page", "schema", "plugins", "content"}

allVars == <<part, vars, pageVars, schemaVars, pluginsVars, contentVars>>

AllInit ==
  /\ part \in Parts
  /\ Init
  /\ Page!Init
  /\ Schema!Init
  /\ part # "schema" => dialect = "pg" /\ applied = <<>>
  /\ Plugins!Init
  /\ part # "plugins" => deps = {} /\ nature["ill"] = "bad"
  /\ Content!Init

AllNext ==
  \/ /\ part = "lease" /\ Next
     /\ UNCHANGED <<part, pageVars, schemaVars, pluginsVars, contentVars>>
  \/ /\ part = "page" /\ Page!Next
     /\ UNCHANGED <<part, vars, schemaVars, pluginsVars, contentVars>>
  \/ /\ part = "schema" /\ Schema!Next
     /\ UNCHANGED <<part, vars, pageVars, pluginsVars, contentVars>>
  \/ /\ part = "plugins" /\ Plugins!Next
     /\ UNCHANGED <<part, vars, pageVars, schemaVars, contentVars>>
  \/ /\ part = "content" /\ Content!Next
     /\ UNCHANGED <<part, vars, pageVars, schemaVars, pluginsVars>>

AllSpec == AllInit /\ [][AllNext]_allVars

\* The fairness of each component.
AllFair ==
  /\ AllSpec
  /\ WF_pageVars(part = "page" /\ Page!Serves)
  /\ WF_pageVars(part = "page" /\ Page!Heartbeat)
  /\ WF_pageVars(part = "page" /\ Page!Cools)
  /\ WF_pageVars(part = "page" /\ Page!EnterAnswers)
  /\ WF_pageVars(part = "page" /\ Page!Leaves)
  /\ WF_pageVars(part = "page" /\ Page!Loads)
  /\ WF_pageVars(part = "page" /\ Page!AppAnswers)
  /\ \A p \in {1, 2} : WF_pageVars(part = "page" /\ Page!StatusAnswers(p))
  /\ \A p \in {1, 2} : WF_pageVars(part = "page" /\ Page!PokeAnswers(p))
  /\ \A p \in {"p", "q"} : WF_schemaVars(part = "schema" /\ Schema!Opening(p))
  /\ WF_pluginsVars(part = "plugins" /\ Plugins!Instance)
  /\ \A t \in {"s", "t"} : WF_pluginsVars(part = "plugins" /\ Plugins!Works(t))
  /\ \A n \in {"a", "b"} : WF_contentVars(part = "content" /\ Content!Works(n))

-----------------------------------------------------------------------------
ASSUME PageConstants == Page!RecoveryAssumption

\* The page (recovery.js): a silent recovery needs two failures in a row, the page
\* ends up open on an instance that serves, no overlay stays.
PageRecovers ==
  /\ [](part = "page" => Page!TypeOK)
  /\ Page!SilentNeedsTwo /\ Page!Reconnects /\ Page!OverlayGoes

\* The database (schema.ts, sqlite.ts, pg.ts): every version once and without a
\* gap whoever opens it meanwhile, uids of new users distinct, uids for good, and
\* every process gets it open.
SchemaComplete ==
  /\ [](part = "schema" => Schema!TypeOK /\ Schema!NewUidsDistinct)
  /\ Schema!UidStays
  /\ <>[](part # "schema" \/ Schema!Complete)

\* Fetching contents (store.ts, runtime.ts, crypto.ts): what is put together is
\* what the plan was made for, and every fetch ends.
ContentRight ==
  /\ [](part = "content" => Content!TypeOK /\ Content!RightContent)
  /\ Content!FetchEnds

\* Plugins of a user (business-plugins.ts, orchestrator.ts): what is to be loaded is
\* among the dependencies, a task that ran alone tells the truth, every task ends,
\* and the instance comes back up unless a plugin that no error names keeps killing it.
PluginsTell ==
  /\ [](part = "plugins" => Plugins!TypeOK)
  /\ Plugins!TellsTheTruth /\ Plugins!TaskEnds /\ Plugins!ComesBack

=============================================================================
