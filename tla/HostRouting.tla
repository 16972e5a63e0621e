----------------------------- MODULE HostRouting -----------------------------
(***************************************************************************)
(* On which host a user's files, launches and other operations land: the    *)
(* choice of a host (selectHost, hostIdForFile of src/src/web/server.ts),   *)
(* the two caches of the host table (hostDirectory there, `hosts` of        *)
(* src/src/supervisor/remote-spawner.ts), and the requests of one user that  *)
(* read all of them across awaits.                                         *)
(*                                                                         *)
(* Nothing reports used_mb and every capacity is unset, so the stable sort   *)
(* leaves the first row: the lowest number.                                 *)
(***************************************************************************)
EXTENDS Naturals, FiniteSets, FiniteSetsExt

CONSTANTS
    N,          \* hosts 1..N, in the order of dsh_hosts; 0 stands for none
    Default,    \* config.clusterHostId
    Requests,
    MaxFlips,   \* bound: changes of a host's status
    MaxFails,   \* bound: failed reads of the host table
    MaxRestarts \* bound: restarts of the Manager

ASSUME RoutingAssumption ==
    N \in Nat \ {0} /\ Default \in 1..N /\ MaxFlips \in Nat /\ MaxFails \in Nat /\ MaxRestarts \in Nat

Nodes == 1..N

VARIABLES
    up,      \* hosts with status "up" in dsh_hosts
    userRow, \* the user's row of dsh_instances: host and whether its lease runs
    known,   \* hostDirectory
    cooling, \* directoryRefreshedAt: refreshed less than five seconds ago
    cache,   \* RemoteSpawner.hosts
    fresh,   \* directoryLoadedAt: loaded less than its time to live ago
    req,     \* the requests
    running, \* hosts that run the user's instance
    flips, fails, restarts

shared == <<up, userRow>>
caches == <<known, cooling, cache, fresh>>
counts == <<flips, fails, restarts>>
routingVars == <<shared, caches, req, running, counts>>

\* rows: the list selectHost works on; host: what was chosen; claim: what the lease names;
\* start: the owner, when it was up as the request began and has stayed so; forced: the
\* directory was read again.
NoRequest == [kind |-> "none", pc |-> "idle", rows |-> {}, host |-> 0, claim |-> 0,
              start |-> 0, forced |-> FALSE]

RoutingTypeOK ==
    /\ up \subseteq Nodes /\ userRow \in [host : 0..N, leased : BOOLEAN] /\ (userRow.leased => userRow.host # 0)
    /\ {Default} \subseteq known /\ known \subseteq Nodes /\ cooling \in BOOLEAN
    /\ {Default} \subseteq cache /\ cache \subseteq Nodes /\ fresh \in BOOLEAN
    /\ \A r \in Requests :
          /\ req[r].kind \in {"none", "file", "launch", "op"} /\ req[r].rows \subseteq Nodes
          /\ req[r].host \in 0..N /\ req[r].claim \in 0..N /\ req[r].start \in 0..N
    /\ running \subseteq Nodes
    /\ flips \in 0..MaxFlips /\ fails \in 0..MaxFails /\ restarts \in 0..MaxRestarts

RoutingInit ==
    /\ up = Nodes /\ userRow = [host |-> 0, leased |-> FALSE]
    /\ known = {Default} /\ cooling = FALSE /\ cache = {Default} /\ fresh = FALSE
    /\ req = [r \in Requests |-> NoRequest] /\ running = {}
    /\ flips = 0 /\ fails = 0 /\ restarts = 0

-----------------------------------------------------------------------------
(* Steps of a request: what it does between two awaits *)

At(r, pc) == req[r].pc = pc
Goto(r, pc) == req' = [req EXCEPT ![r].pc = pc]

Begin(r, kind) ==
    /\ At(r, "idle")
    /\ req' = [req EXCEPT ![r] = [NoRequest EXCEPT !.kind = kind,
            !.pc = CASE kind = "file" -> "owner" [] kind = "launch" -> "list" [] OTHER -> "hosts",
            !.start = IF userRow.host \in up THEN userRow.host ELSE 0]]
    /\ UNCHANGED <<shared, caches, running, counts>>

\* hostIdForFile: the host that owns the user, or one is chosen.
Owner(r) ==
    /\ At(r, "owner")
    /\ req' = [req EXCEPT ![r].host = userRow.host, ![r].pc = IF userRow.host # 0 THEN "addr" ELSE "list"]
    /\ UNCHANGED <<shared, caches, running, counts>>

\* selectHost: the table is read ...
List(r) ==
    /\ At(r, "list")
    /\ req' = [req EXCEPT ![r].rows = up, ![r].pc = "select"]
    /\ UNCHANGED <<shared, caches, running, counts>>

\* mutant: capacity first
SelectedFirst(rows, owned) == IF rows # {} THEN Min(rows) ELSE Default

\* ... the owner, which stays if it was up, before the first candidate; the configured
\* host when there is none.
Selected(rows, owned) ==
    IF owned \in rows THEN owned ELSE IF rows # {} THEN Min(rows) ELSE Default

Select(r) ==
    /\ At(r, "select")
    /\ req' = [req EXCEPT ![r].host = Selected(req[r].rows, userRow.host),
                          ![r].pc = IF req[r].kind = "file" THEN "pin" ELSE "claim"]
    /\ UNCHANGED <<shared, caches, running, counts>>

\* History: a request that began under another owner expects nothing.
Forget(f) == [q \in Requests |-> IF userRow'.host = userRow.host THEN f[q] ELSE [f[q] EXCEPT !.start = 0]]

\* pinInstanceHost: not over a lease that runs; the request goes to the host it chose.
Pin(r) ==
    /\ At(r, "pin")
    /\ userRow' = IF userRow.leased THEN userRow ELSE [userRow EXCEPT !.host = req[r].host]
    /\ req' = Forget([req EXCEPT ![r].pc = "addr"])
    /\ UNCHANGED <<up, caches, running, counts>>

\* RemoteUserFs.target: the agent of the host; one that is still unknown after the
\* directory was refreshed is an error, and the file is not written.
Written(r) == IF req[r].host \in known THEN req[r].host ELSE 0

Write(r) ==
    /\ At(r, "addr")
    /\ req[r].host \in known \/ req[r].forced
    /\ req' = [req EXCEPT ![r].host = Written(r), ![r].pc = "done"]
    /\ UNCHANGED <<shared, caches, running, counts>>

\* ensureHostDirectory: one refresh for everybody who asks, none while it cools.
Refresh(r) ==
    /\ At(r, "addr") /\ req[r].host \notin known /\ ~req[r].forced
    /\ IF cooling /\ \A q \in Requests : ~At(q, "refreshing")
         THEN req' = [req EXCEPT ![r].forced = TRUE] /\ UNCHANGED cooling
         ELSE Goto(r, "refreshing") /\ cooling' = TRUE
    /\ UNCHANGED <<shared, known, cache, fresh, running, counts>>

Refreshed(ok) ==
    /\ \E r \in Requests : At(r, "refreshing")
    /\ req' = [r \in Requests |-> IF At(r, "refreshing") THEN [req[r] EXCEPT !.pc = "addr", !.forced = TRUE]
                                  ELSE req[r]]
    /\ known' = IF ok THEN known \cup Nodes ELSE known
    /\ IF ok THEN UNCHANGED fails ELSE fails < MaxFails /\ fails' = fails + 1
    /\ UNCHANGED <<shared, cooling, cache, fresh, running, flips, restarts>>

Cools ==
    /\ cooling /\ cooling' = FALSE
    /\ UNCHANGED <<shared, known, cache, fresh, req, running, counts>>

\* LeasedSpawner.launch: the claim names the host that was chosen.
Claim(r) ==
    /\ At(r, "claim")
    /\ IF userRow.leased THEN Goto(r, "done") /\ UNCHANGED userRow
         ELSE /\ userRow' = [host |-> req[r].host, leased |-> TRUE]
              /\ req' = Forget([req EXCEPT ![r].claim = req[r].host, ![r].pc = "hosts"])
    /\ UNCHANGED <<up, caches, running, counts>>

\* ensureHosts: the time is noted before the table is read, so that whoever comes
\* meanwhile goes on with what there is.
EnsureHosts(r) ==
    /\ At(r, "hosts")
    /\ IF fresh THEN Goto(r, "route") /\ UNCHANGED fresh
         ELSE Goto(r, "loading") /\ fresh' = TRUE
    /\ UNCHANGED <<shared, known, cooling, cache, running, counts>>

\* hostsProvider fills both copies; a failure leaves the old one.
Loaded(r, ok) ==
    /\ At(r, "loading") /\ Goto(r, "route")
    /\ known' = IF ok THEN known \cup Nodes ELSE known
    /\ cache' = IF ok THEN cache \cup Nodes ELSE cache
    /\ IF ok THEN UNCHANGED fails ELSE fails < MaxFails /\ fails' = fails + 1
    /\ UNCHANGED <<shared, cooling, fresh, running, flips, restarts>>

Expires ==
    /\ fresh /\ fresh' = FALSE
    /\ UNCHANGED <<shared, known, cooling, cache, req, running, counts>>

\* hostFor with a host: the directory is read once more before it is called unknown,
\* by the request itself, for the time is reset and noted again in one turn.
ReadAgain(r) == req[r].host \notin cache /\ ~req[r].forced

\* An explicit host that is still unknown is an error, "never the default host".
Found(r) == IF req[r].host \in cache THEN req[r].host ELSE 0

RouteLaunch(r) ==
    /\ At(r, "route") /\ req[r].kind = "launch"
    /\ IF ReadAgain(r)
         THEN /\ fresh' = TRUE
              /\ req' = [req EXCEPT ![r].pc = "loading", ![r].forced = TRUE]
              /\ UNCHANGED <<userRow, running>>
         ELSE IF Found(r) # 0
         THEN /\ running' = running \cup {Found(r)} /\ Goto(r, "done")
              /\ UNCHANGED <<userRow, fresh>>
         ELSE /\ userRow' = [userRow EXCEPT !.leased = FALSE]
              /\ Goto(r, "unknown") /\ UNCHANGED <<running, fresh>>
    /\ UNCHANGED <<up, known, cooling, cache, counts>>

\* hostFor without one: the owner, if the directory knows it.
RouteOp(r) ==
    /\ At(r, "route") /\ req[r].kind = "op"
    /\ req' = [req EXCEPT ![r].host = IF userRow.host \in cache THEN userRow.host ELSE Default,
                          ![r].pc = "done"]
    /\ UNCHANGED <<shared, caches, running, counts>>

End(r) ==
    /\ req[r].pc \in {"done", "unknown"} /\ req' = [req EXCEPT ![r] = NoRequest]
    /\ UNCHANGED <<shared, caches, running, counts>>

\* LeasedSpawner.stop
Stop ==
    /\ userRow.leased /\ userRow.host \in running
    /\ running' = running \ {userRow.host} /\ userRow' = [userRow EXCEPT !.leased = FALSE]
    /\ UNCHANGED <<up, caches, req, counts>>

\* setDshHostStatus, by a heartbeat.
Flip(h) ==
    /\ flips < MaxFlips /\ flips' = flips + 1
    /\ up' = IF h \in up THEN up \ {h} ELSE up \cup {h}
    /\ req' = [r \in Requests |-> [req[r] EXCEPT !.start = IF @ = h THEN 0 ELSE @]]
    /\ UNCHANGED <<userRow, caches, running, fails, restarts>>

\* The Manager starts again: its lease has run out, its directory holds itself.
StartsAgain ==
    /\ restarts < MaxRestarts /\ restarts' = restarts + 1
    /\ known' = {Default} /\ cache' = {Default} /\ fresh' = FALSE /\ cooling' = FALSE
    /\ req' = [r \in Requests |-> NoRequest]
    /\ userRow' = [userRow EXCEPT !.leased = FALSE]
    /\ UNCHANGED <<up, running, flips, fails>>

Step(r) ==
    \/ Owner(r) \/ List(r) \/ Select(r) \/ Pin(r) \/ Write(r) \/ Refresh(r) \/ Claim(r)
    \/ EnsureHosts(r) \/ (\E ok \in BOOLEAN : Loaded(r, ok)) \/ RouteLaunch(r) \/ RouteOp(r)

RoutingNext ==
    \/ \E r \in Requests : (\E kind \in {"file", "launch", "op"} : Begin(r, kind)) \/ Step(r) \/ End(r)
    \/ \E ok \in BOOLEAN : Refreshed(ok)
    \/ Cools \/ Expires \/ Stop \/ StartsAgain
    \/ \E h \in Nodes : Flip(h)

RoutingSpec == RoutingInit /\ [][RoutingNext]_routingVars

-----------------------------------------------------------------------------
(* Properties *)

DoneAs(r, kind) == At(r, "done") /\ req[r].kind = kind

\* "Capacity decides for users who never had a host": the owner of a user, up since before
\* the request began, is where the files go (or nowhere) and what a launch claims.
OwnerStays ==
    \A r \in Requests : req[r].start # 0 =>
        /\ DoneAs(r, "file") => req[r].host \in {req[r].start, 0}
        /\ At(r, "claim") => req[r].host = req[r].start

\* An instance starts on the host the lease names, whatever the directory knew.
StartsWhereClaimed ==
    [][\A h \in running' \ running : \E r \in Requests : At(r, "route") /\ req[r].claim = h]_routingVars

\* A host that has just joined is found: only a failed read of the table makes one unknown.
JoinedIsFound == (\E r \in Requests : At(r, "unknown")) => fails > 0

\* Where a user's files and instance land (server.ts: selectHost, hostIdForFile;
\* remote-spawner.ts: hostFor): on the owner while it is up, on the host the claim
\* names, and a host that has joined is found.
RoutingTrue == [](RoutingTypeOK /\ OwnerStays /\ JoinedIsFound) /\ StartsWhereClaimed
=============================================================================
