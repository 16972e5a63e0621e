------------------------- MODULE ControlPlane_proofs -------------------------
(***************************************************************************)
(* Proofs about the two halves of the control plane, which share no         *)
(* variable: where the requests of a user land (HostRouting), and who holds  *)
(* the lease of an instance (InstanceLease), for any hosts, Managers,        *)
(* requests, clocks and bounds.                                             *)
(***************************************************************************)
EXTENDS InstanceLease, HostRouting, FiniteSetTheorems, WellFoundedInduction, TLAPS

(* HostRouting *)

\* Where a request of each kind may stand.
Stands == [none |-> {"idle"},
           file |-> {"owner", "list", "select", "pin", "addr", "refreshing", "done"},
           launch |-> {"list", "select", "claim", "hosts", "loading", "route", "done", "unknown"},
           op |-> {"hosts", "loading", "route", "done"}]
RequestSet == [kind : {"none", "file", "launch", "op"},
               pc : {"idle", "owner", "list", "select", "pin", "addr", "refreshing", "claim", "hosts",
                     "loading", "route", "done", "unknown"},
               rows : SUBSET Nodes, host : 0 .. N, claim : 0 .. N, start : 0 .. N, forced : BOOLEAN]

RoutingTypes ==
  /\ up \subseteq Nodes /\ userRow \in [host : 0 .. N, leased : BOOLEAN]
  /\ userRow.leased => userRow.host # 0
  /\ {Default} \subseteq known /\ known \subseteq Nodes /\ cooling \in BOOLEAN
  /\ {Default} \subseteq cache /\ cache \subseteq Nodes /\ fresh \in BOOLEAN
  /\ running \subseteq Nodes
  /\ flips \in 0 .. MaxFlips /\ fails \in 0 .. MaxFails /\ restarts \in 0 .. MaxRestarts

\* A request stands where its kind does.  One that began under an owner that was up
\* and has stayed so has listed it and chose it; one that launches goes to the host it
\* claimed; it read the directory itself before it calls a host unknown.
Fit(q, hosts, owner, directory, failed) ==
  /\ q.pc \in Stands[q.kind]
  /\ q.start # 0 => /\ q.start = owner /\ q.start \in hosts
                    /\ q.pc = "select" => q.start \in q.rows
                    /\ q.pc \in {"pin", "claim", "addr", "refreshing"} => q.host = q.start
                    /\ q.pc = "done" /\ q.kind = "file" => q.host \in {q.start, 0}
  /\ q.pc \in {"claim", "pin"} => q.host \in Nodes
  /\ q.kind = "launch" /\ q.pc \in {"hosts", "loading", "route"} => q.host \in Nodes /\ q.claim = q.host
  /\ q.kind = "launch" /\ q.forced =>
       /\ q.pc \in {"loading", "route", "done", "unknown"}
       /\ q.pc = "route" => q.host \in directory \/ failed > 0
  /\ q.pc = "unknown" => failed > 0

RequestsFit == \A r \in Requests : Fit(req[r], up, userRow.host, cache, fails)

RoutingInv == RoutingTypes /\ req \in [Requests -> RequestSet] /\ RequestsFit

\* Where an instance may start.
StartsThere == \A h \in running' \ running : \E r \in Requests : At(r, "route") /\ req[r].claim = h

\* Min of a set of hosts is one of them: an interval 1..a that no other one of the set is
\* below exists, for there are finitely many hosts.
LEMMA LowestHost == ASSUME NEW rows \in SUBSET Nodes, rows # {} PROVE Min(rows) \in rows
<1> DEFINE F == {1 .. a : a \in rows}
<1>1. F \in SUBSET (SUBSET Nodes) /\ F # {} /\ rows \subseteq Nat /\ \A a \in rows : a >= 1
  <2>1. rows \subseteq Nat /\ \A a \in rows : a >= 1
    BY RoutingAssumption DEF Nodes
  <2>2. \A a \in rows : 1 .. a \in SUBSET Nodes
    BY RoutingAssumption DEF Nodes
  <2>3. F \in SUBSET (SUBSET Nodes) /\ F # {}
    BY <2>2
  <2>4. QED  BY <2>1, <2>3
<1>2. IsFiniteSet(Nodes)
  <2>1. 1 \in Int /\ N \in Int
    BY RoutingAssumption
  <2>2. QED  BY <2>1, FS_Interval DEF Nodes
<1>3. IsWellFoundedOn(StrictSubsetOrdering(Nodes), SUBSET Nodes)
  BY <1>2, FS_StrictSubsetOrderingWellFounded, FS_FiniteSubsetsOfFinite
<1>4. PICK T \in F : \A U \in F : <<U, T>> \notin StrictSubsetOrdering(Nodes)
  <2> HIDE DEF F
  <2>1. QED  BY <1>1, <1>3, WFMin
<1>5. PICK a \in rows : T = 1 .. a
  OBVIOUS
<1>6. ASSUME NEW b \in rows, b < a
      PROVE  FALSE
  <2>1. 1 .. b \in F
    OBVIOUS
  <2>2. a \in Nat /\ b \in Nat /\ a >= 1
    BY <1>1
  <2>3. 1 .. b \subseteq 1 .. a /\ a \in 1 .. a /\ a \notin 1 .. b
    BY <1>6, <2>2
  <2>4. 1 .. b \in SUBSET Nodes /\ 1 .. a \in SUBSET Nodes
    BY <1>1, RoutingAssumption DEF Nodes
  <2>5. <<1 .. b, 1 .. a>> \in StrictSubsetOrdering(Nodes)
    BY <2>3, <2>4 DEF StrictSubsetOrdering
  <2>6. QED  BY <1>4, <1>5, <2>1, <2>5
<1>7. \A b \in rows : a =< b
  BY <1>1, <1>6
<1>8. QED  BY <1>7 DEF Min

\* selectHost answers a host, the owner if the owner is listed.
LEMMA SelectedHost ==
  ASSUME NEW rows \in SUBSET Nodes, NEW owned
  PROVE  Selected(rows, owned) \in Nodes /\ (owned \in rows => Selected(rows, owned) = owned)
  BY LowestHost, RoutingAssumption DEF Selected, Nodes

\* The invariant holds as the Manager starts.
LEMMA RoutingInitially == ASSUME RoutingInit PROVE RoutingInv
<1>1. NoRequest \in RequestSet /\ NoRequest.pc = "idle" /\ NoRequest.kind = "none" /\ NoRequest.start = 0
  BY RoutingAssumption DEF NoRequest, RequestSet, Nodes
<1>2. RoutingTypes
  <2>1. userRow \in [host : 0 .. N, leased : BOOLEAN] /\ ~userRow.leased
    BY RoutingAssumption DEF RoutingInit
  <2>2. 0 \in 0 .. MaxFlips /\ 0 \in 0 .. MaxFails /\ 0 \in 0 .. MaxRestarts /\ Default \in Nodes
    BY RoutingAssumption DEF Nodes
  <2>3. QED  BY <2>1, <2>2 DEF RoutingInit, RoutingTypes
<1>3. \A r \in Requests : Fit(req[r], up, userRow.host, cache, fails)
  BY <1>1 DEF RoutingInit, Fit, Stands
<1>4. QED  BY <1>1, <1>2, <1>3 DEF RoutingInit, RoutingInv, RequestsFit

\* A request takes a step, and what the others rely on is still there.
LEMMA OneMoves ==
  ASSUME RoutingInv, RoutingTypes', NEW r \in Requests, NEW n \in RequestSet,
         req' = [req EXCEPT ![r] = n], up' = up, userRow'.host = userRow.host,
         cache \subseteq cache', fails' >= fails, Fit(n, up', userRow'.host, cache', fails')
  PROVE  RoutingInv'
<1>1. req' \in [Requests -> RequestSet] /\ \A q \in Requests : req'[q] = IF q = r THEN n ELSE req[q]
  BY DEF RoutingInv
<1>2. \A q \in Requests : Fit(req[q], up', userRow'.host, cache', fails')
  BY DEF RoutingInv, RequestsFit, Fit, RoutingTypes
<1>3. RequestsFit'
  BY <1>1, <1>2 DEF RequestsFit
<1>4. QED  BY <1>1, <1>3 DEF RoutingInv

\* A request begins, and notes the owner that is up.
LEMMA BeginKeeps ==
  ASSUME RoutingInv, NEW r \in Requests, NEW kind \in {"file", "launch", "op"}, Begin(r, kind)
  PROVE  RoutingInv' /\ StartsThere
<1>1. PICK pc \in {"owner", "list", "hosts"} :
        pc = CASE kind = "file" -> "owner" [] kind = "launch" -> "list" [] OTHER -> "hosts"
  OBVIOUS
<1>2. PICK s \in 0 .. N : s = (IF userRow.host \in up THEN userRow.host ELSE 0)
  BY RoutingAssumption DEF RoutingInv, RoutingTypes
<1>3. PICK n : n = [NoRequest EXCEPT !.kind = kind, !.pc = pc, !.start = s]
  OBVIOUS
<1>4. /\ n \in RequestSet /\ n.kind = kind /\ n.pc = pc /\ n.start = s /\ n.host = 0 /\ ~n.forced
  <2>1. {} \in SUBSET Nodes /\ 0 \in 0 .. N
    BY RoutingAssumption
  <2>2. n = [kind |-> kind, pc |-> pc, rows |-> {}, host |-> 0, claim |-> 0, start |-> s, forced |-> FALSE]
    BY <1>3 DEF NoRequest
  <2>3. QED  BY <2>1, <2>2 DEF RequestSet
<1>5. req' = [req EXCEPT ![r] = n] /\ UNCHANGED <<shared, caches, running, counts>>
  BY <1>1, <1>2, <1>3 DEF Begin
<1>6. pc \in Stands[kind]
  BY <1>1 DEF Stands
<1>7. Fit(n, up, userRow.host, cache, fails)
  BY <1>1, <1>2, <1>4, <1>6 DEF Fit
<1>8. RoutingTypes' /\ fails' >= fails /\ StartsThere
  BY <1>5 DEF RoutingInv, RoutingTypes, shared, caches, counts, StartsThere
<1>9. QED  BY <1>4, <1>5, <1>7, <1>8, OneMoves DEF shared, caches, counts

\* A request that changes its own record only, as what it reads allows.
LEMMA Advances ==
  ASSUME RoutingInv, NEW r \in Requests, NEW n \in RequestSet, req' = [req EXCEPT ![r] = n],
         UNCHANGED <<shared, known, cache, running, counts>>, cooling' \in BOOLEAN, fresh' \in BOOLEAN,
         Fit(n, up, userRow.host, cache, fails)
  PROVE  RoutingInv' /\ StartsThere
<1>1. RoutingTypes' /\ fails' >= fails /\ StartsThere
  BY DEF RoutingInv, RoutingTypes, shared, counts, StartsThere
<1>2. QED  BY <1>1, OneMoves DEF shared, counts

\* What the steps below read of the invariant.
LEMMA Facts ==
  ASSUME RoutingInv, NEW r \in Requests
  PROVE  /\ req[r] \in RequestSet /\ Fit(req[r], up, userRow.host, cache, fails)
         /\ cooling \in BOOLEAN /\ fresh \in BOOLEAN /\ userRow.host \in 0 .. N /\ up \in SUBSET Nodes
         /\ Nodes \subseteq 0 .. N /\ 0 \notin Nodes /\ 0 \in 0 .. N
  BY RoutingAssumption DEF RoutingInv, RoutingTypes, RequestsFit, Nodes

\* hostIdForFile and selectHost up to the choice, and the write at the host of the file.
LEMMA FileKeeps ==
  ASSUME RoutingInv, NEW r \in Requests, Owner(r) \/ List(r) \/ Select(r) \/ Write(r) \/ Refresh(r)
  PROVE  RoutingInv' /\ StartsThere
<1>1. CASE Owner(r)
  <2>1. PICK pc \in {"addr", "list"} : pc = (IF userRow.host # 0 THEN "addr" ELSE "list")
    OBVIOUS
  <2>2. PICK n : n = [req[r] EXCEPT !.host = userRow.host, !.pc = pc]
    OBVIOUS
  <2>3. /\ n \in RequestSet /\ n.kind = req[r].kind /\ n.pc = pc /\ n.start = req[r].start
        /\ n.host = userRow.host /\ n.forced = req[r].forced
    BY <2>2, Facts DEF RequestSet
  <2>4. req' = [req EXCEPT ![r] = n] /\ UNCHANGED <<shared, caches, running, counts>> /\ req[r].pc = "owner"
    BY <1>1, <2>1, <2>2 DEF Owner, At
  <2>5. req[r].kind = "file"
    BY <2>4, Facts DEF Fit, Stands, RequestSet
  <2>6. pc \in Stands["file"]
    BY DEF Stands
  <2>7. Fit(n, up, userRow.host, cache, fails)
    BY <2>1, <2>3, <2>5, <2>6, Facts DEF Fit
  <2>8. QED  BY <2>3, <2>4, <2>7, Facts, Advances DEF caches
<1>2. CASE List(r)
  <2>1. PICK n : n = [req[r] EXCEPT !.rows = up, !.pc = "select"]
    OBVIOUS
  <2>2. /\ n \in RequestSet /\ n.kind = req[r].kind /\ n.pc = "select" /\ n.start = req[r].start
        /\ n.rows = up /\ n.host = req[r].host /\ n.forced = req[r].forced
    BY <2>1, Facts DEF RequestSet
  <2>3. req' = [req EXCEPT ![r] = n] /\ UNCHANGED <<shared, caches, running, counts>> /\ req[r].pc = "list"
    BY <1>2, <2>1 DEF List, At
  <2>4. req[r].kind \in {"file", "launch"} /\ "select" \in Stands[req[r].kind]
    BY <2>3, Facts DEF Fit, Stands, RequestSet
  <2>5. Fit(n, up, userRow.host, cache, fails)
    BY <2>2, <2>3, <2>4, Facts DEF Fit
  <2>6. QED  BY <2>2, <2>3, <2>5, Facts, Advances DEF caches
<1>3. CASE Select(r)
  <2>1. PICK pc \in {"pin", "claim"} : pc = (IF req[r].kind = "file" THEN "pin" ELSE "claim")
    OBVIOUS
  <2>2. PICK h : h = Selected(req[r].rows, userRow.host)
    OBVIOUS
  <2>3. h \in Nodes /\ (userRow.host \in req[r].rows => h = userRow.host)
    BY <2>2, Facts, SelectedHost DEF RequestSet
  <2>4. PICK n : n = [req[r] EXCEPT !.host = h, !.pc = pc]
    OBVIOUS
  <2>5. /\ n \in RequestSet /\ n.kind = req[r].kind /\ n.pc = pc /\ n.start = req[r].start
        /\ n.host = h /\ n.forced = req[r].forced
    BY <2>3, <2>4, Facts DEF RequestSet
  <2>6. req' = [req EXCEPT ![r] = n] /\ UNCHANGED <<shared, caches, running, counts>> /\ req[r].pc = "select"
    BY <1>3, <2>1, <2>2, <2>4 DEF Select, At
  <2>7. req[r].kind \in {"file", "launch"} /\ pc \in Stands[req[r].kind]
    BY <2>1, <2>6, Facts DEF Fit, Stands, RequestSet
  <2>8. Fit(n, up, userRow.host, cache, fails)
    BY <2>1, <2>3, <2>5, <2>6, <2>7, Facts DEF Fit
  <2>9. QED  BY <2>5, <2>6, <2>8, Facts, Advances DEF caches
<1>4. CASE Write(r)
  <2>1. PICK h : h = Written(r)
    OBVIOUS
  <2>2. h \in 0 .. N /\ h \in {req[r].host, 0}
    BY <2>1, Facts DEF Written, RequestSet
  <2>3. PICK n : n = [req[r] EXCEPT !.host = h, !.pc = "done"]
    OBVIOUS
  <2>4. /\ n \in RequestSet /\ n.kind = req[r].kind /\ n.pc = "done" /\ n.start = req[r].start
        /\ n.host = h /\ n.forced = req[r].forced
    BY <2>2, <2>3, Facts DEF RequestSet
  <2>5. req' = [req EXCEPT ![r] = n] /\ UNCHANGED <<shared, caches, running, counts>> /\ req[r].pc = "addr"
    BY <1>4, <2>1, <2>3 DEF Write, At
  <2>6. req[r].kind = "file" /\ "done" \in Stands["file"]
    BY <2>5, Facts DEF Fit, Stands, RequestSet
  <2>7. Fit(n, up, userRow.host, cache, fails)
    BY <2>2, <2>4, <2>5, <2>6, Facts DEF Fit
  <2>8. QED  BY <2>4, <2>5, <2>7, Facts, Advances DEF caches
<1>5. CASE Refresh(r)
  <2>1. /\ UNCHANGED <<shared, known, cache, fresh, running, counts>> /\ cooling' \in BOOLEAN /\ req[r].pc = "addr"
        /\ \/ req' = [req EXCEPT ![r].forced = TRUE]
           \/ req' = [req EXCEPT ![r].pc = "refreshing"]
    BY <1>5, Facts DEF Refresh, At, Goto
  <2>2. req[r].kind = "file" /\ "refreshing" \in Stands["file"] /\ "addr" \in Stands["file"]
    BY <2>1, Facts DEF Fit, Stands, RequestSet
  <2>3. CASE req' = [req EXCEPT ![r].forced = TRUE]
    <3>1. PICK n : n = [req[r] EXCEPT !.forced = TRUE]
      OBVIOUS
    <3>2. /\ n \in RequestSet /\ n.kind = req[r].kind /\ n.pc = req[r].pc /\ n.start = req[r].start
          /\ n.host = req[r].host
      BY <3>1, Facts DEF RequestSet
    <3>3. Fit(n, up, userRow.host, cache, fails)
      BY <2>1, <2>2, <3>2, Facts DEF Fit
    <3>4. req' = [req EXCEPT ![r] = n] /\ fresh' \in BOOLEAN
      BY <2>1, <2>3, <3>1, Facts
    <3>5. QED  BY <2>1, <3>2, <3>3, <3>4, Advances
  <2>4. CASE req' = [req EXCEPT ![r].pc = "refreshing"]
    <3>1. PICK n : n = [req[r] EXCEPT !.pc = "refreshing"]
      OBVIOUS
    <3>2. /\ n \in RequestSet /\ n.kind = req[r].kind /\ n.pc = "refreshing" /\ n.start = req[r].start
          /\ n.host = req[r].host
      BY <3>1, Facts DEF RequestSet
    <3>3. Fit(n, up, userRow.host, cache, fails)
      BY <2>1, <2>2, <3>2, Facts DEF Fit
    <3>4. req' = [req EXCEPT ![r] = n] /\ fresh' \in BOOLEAN
      BY <2>1, <2>4, <3>1, Facts
    <3>5. QED  BY <2>1, <3>2, <3>3, <3>4, Advances
  <2>5. QED  BY <2>1, <2>3, <2>4
<1>6. QED  BY <1>1, <1>2, <1>3, <1>4, <1>5

\* A request that expects nothing of the owner fits under any.
LEMMA StartForgotten ==
  ASSUME NEW q \in RequestSet, NEW hosts, NEW owner, NEW other, NEW directory, NEW failed,
         Fit(q, hosts, owner, directory, failed), 0 \in 0 .. N
  PROVE  [q EXCEPT !.start = 0] \in RequestSet /\ Fit([q EXCEPT !.start = 0], hosts, other, directory, failed)
<1>1. PICK n : n = [q EXCEPT !.start = 0]
  OBVIOUS
<1>2. /\ n \in RequestSet /\ n.kind = q.kind /\ n.pc = q.pc /\ n.start = 0 /\ n.host = q.host /\ n.claim = q.claim
      /\ n.forced = q.forced
  BY <1>1 DEF RequestSet
<1>3. Fit(n, hosts, other, directory, failed)
  BY <1>2 DEF Fit
<1>4. QED  BY <1>1, <1>2, <1>3

\* The row gets another host: nobody counts on the one before.
LEMMA RowMoves ==
  ASSUME RoutingInv, RoutingTypes', NEW r \in Requests, NEW n \in RequestSet,
         req' = Forget([req EXCEPT ![r] = n]), UNCHANGED <<up, caches, running, counts>>,
         \E o : Fit([n EXCEPT !.start = 0], up, o, cache, fails),
         userRow'.host = userRow.host => Fit(n, up, userRow.host, cache, fails)
  PROVE  RoutingInv' /\ StartsThere
<1>1. StartsThere
  BY DEF StartsThere
<1>2. PICK f : f = [req EXCEPT ![r] = n]
  OBVIOUS
<1>3. f \in [Requests -> RequestSet] /\ \A q \in Requests : f[q] = IF q = r THEN n ELSE req[q]
  BY <1>2 DEF RoutingInv
<1>4. CASE userRow'.host = userRow.host
  <2>1. req' = f
    BY <1>2, <1>3, <1>4 DEF Forget
  <2>2. fails' >= fails /\ cache \subseteq cache' /\ up' = up /\ cache' = cache /\ fails' = fails
    BY DEF RoutingInv, RoutingTypes, caches, counts
  <2>3. QED  BY <1>1, <1>2, <1>4, <2>1, <2>2, OneMoves
<1>5. CASE userRow'.host # userRow.host
  <2>1. req' = [q \in Requests |-> [f[q] EXCEPT !.start = 0]]
    BY <1>2, <1>5 DEF Forget
  <2>2. up' = up /\ cache' = cache /\ fails' = fails
    BY DEF caches, counts
  <2>3. \A q \in Requests : f[q] \in RequestSet /\ \E o : Fit([f[q] EXCEPT !.start = 0], up, o, cache, fails)
    <3>1. ASSUME NEW q \in Requests
          PROVE  f[q] \in RequestSet /\ \E o : Fit([f[q] EXCEPT !.start = 0], up, o, cache, fails)
      <4>1. CASE q = r
        BY <1>3, <4>1
      <4>2. CASE q # r
        <5>1. f[q] = req[q] /\ req[q] \in RequestSet /\ Fit(req[q], up, userRow.host, cache, fails) /\ 0 \in 0 .. N
          BY <1>3, <4>2, Facts
        <5>2. QED  BY <5>1, StartForgotten
      <4>3. QED  BY <4>1, <4>2
    <3>2. QED  BY <3>1
  <2>4. ASSUME NEW q \in Requests
        PROVE  req'[q] \in RequestSet /\ Fit(req'[q], up', userRow'.host, cache', fails')
    <3>1. PICK k : k = [f[q] EXCEPT !.start = 0]
      OBVIOUS
    <3>2. 0 \in 0 .. N
      BY RoutingAssumption
    <3>3. k \in RequestSet /\ k.start = 0
      BY <2>3, <3>1, <3>2 DEF RequestSet
    <3>4. PICK o : Fit(k, up, o, cache, fails)
      BY <2>3, <3>1
    <3>5. Fit(k, up, userRow'.host, cache, fails)
      BY <3>3, <3>4 DEF Fit
    <3>6. req'[q] = k
      BY <2>1, <3>1
    <3>7. QED  BY <2>2, <3>3, <3>5, <3>6
  <2>5. req' \in [Requests -> RequestSet]
    BY <2>1, <2>4
  <2>6. QED  BY <1>1, <2>4, <2>5 DEF RoutingInv, RequestsFit
<1>6. QED  BY <1>4, <1>5

\* pinInstanceHost: the host pinned is the one the request chose.
LEMMA PinKeeps == ASSUME RoutingInv, NEW r \in Requests, Pin(r) PROVE RoutingInv' /\ StartsThere
<1>1. PICK n : n = [req[r] EXCEPT !.pc = "addr"]
  OBVIOUS
<1>2. /\ n \in RequestSet /\ n.kind = req[r].kind /\ n.pc = "addr" /\ n.start = req[r].start
      /\ n.host = req[r].host /\ n.claim = req[r].claim /\ n.forced = req[r].forced
  BY <1>1, Facts DEF RequestSet
<1>3. /\ req[r].pc = "pin" /\ UNCHANGED <<up, caches, running, counts>>
      /\ userRow' = IF userRow.leased THEN userRow ELSE [userRow EXCEPT !.host = req[r].host]
      /\ req' = Forget([req EXCEPT ![r] = n])
  BY <1>1 DEF Pin, At
<1>4. req[r].kind = "file" /\ "addr" \in Stands["file"]
  BY <1>3, Facts DEF Fit, Stands, RequestSet
<1>5. Fit(n, up, userRow.host, cache, fails)
  BY <1>2, <1>3, <1>4, Facts DEF Fit
<1>6. RoutingTypes'
  BY <1>3, Facts DEF RoutingInv, RoutingTypes, RequestSet, caches, counts
<1>7. Fit([n EXCEPT !.start = 0], up, userRow.host, cache, fails)
  BY <1>2, <1>5, Facts, StartForgotten
<1>8. QED  BY <1>2, <1>3, <1>5, <1>6, <1>7, RowMoves

\* The claim of a launch names the host it chose.
LEMMA ClaimKeeps == ASSUME RoutingInv, NEW r \in Requests, Claim(r) PROVE RoutingInv' /\ StartsThere
<1>1. req[r].pc = "claim" /\ UNCHANGED <<up, caches, running, counts>>
  BY DEF Claim, At
<1>2. /\ req[r].kind = "launch" /\ "done" \in Stands["launch"] /\ "hosts" \in Stands["launch"]
      /\ ~req[r].forced /\ req[r].host \in Nodes
  BY <1>1, Facts DEF Fit, Stands, RequestSet
<1>3. CASE userRow.leased
  <2>1. PICK n : n = [req[r] EXCEPT !.pc = "done"]
    OBVIOUS
  <2>2. /\ n \in RequestSet /\ n.kind = "launch" /\ n.pc = "done" /\ n.start = req[r].start
        /\ n.host = req[r].host /\ n.forced = req[r].forced
    BY <1>2, <2>1, Facts DEF RequestSet
  <2>3. Fit(n, up, userRow.host, cache, fails)
    BY <1>2, <2>2, Facts DEF Fit
  <2>4. req' = [req EXCEPT ![r] = n] /\ userRow' = userRow
    BY <1>3, <2>1 DEF Claim, Goto
  <2>5. QED  BY <1>1, <2>2, <2>3, <2>4, Facts, Advances DEF shared, caches
<1>4. CASE ~userRow.leased
  <2>1. PICK n : n = [req[r] EXCEPT !.claim = req[r].host, !.pc = "hosts"]
    OBVIOUS
  <2>2. /\ n \in RequestSet /\ n.kind = "launch" /\ n.pc = "hosts" /\ n.start = req[r].start
        /\ n.host = req[r].host /\ n.claim = req[r].host /\ n.forced = req[r].forced
    BY <1>2, <2>1, Facts DEF RequestSet
  <2>3. Fit(n, up, userRow.host, cache, fails)
    BY <1>1, <1>2, <2>2, Facts DEF Fit
  <2>4. req' = Forget([req EXCEPT ![r] = n]) /\ userRow' = [host |-> req[r].host, leased |-> TRUE]
    BY <1>4, <2>1 DEF Claim
  <2>5. req[r].host \in 0 .. N /\ req[r].host # 0
    BY <1>2, Facts
  <2>6. RoutingTypes'
    BY <1>1, <2>4, <2>5 DEF RoutingInv, RoutingTypes, caches, counts
  <2>7. Fit([n EXCEPT !.start = 0], up, userRow.host, cache, fails)
    BY <2>2, <2>3, Facts, StartForgotten
  <2>8. QED  BY <1>1, <2>2, <2>3, <2>4, <2>6, <2>7, RowMoves
<1>5. QED  BY <1>3, <1>4

\* ensureHosts: a read that fails is counted, one that succeeds leaves no host unknown.
LEMMA DirectoryKeeps ==
  ASSUME RoutingInv, NEW r \in Requests, EnsureHosts(r) \/ (\E ok \in BOOLEAN : Loaded(r, ok))
  PROVE  RoutingInv' /\ StartsThere
<1>1. CASE EnsureHosts(r)
  <2>1. PICK pc \in {"route", "loading"} : req' = [req EXCEPT ![r].pc = pc]
    BY <1>1 DEF EnsureHosts, Goto
  <2>2. /\ req[r].pc = "hosts" /\ fresh' \in BOOLEAN
        /\ UNCHANGED <<shared, known, cooling, cache, running, counts>>
    BY <1>1, Facts DEF EnsureHosts, At
  <2>3. PICK n : n = [req[r] EXCEPT !.pc = pc]
    OBVIOUS
  <2>4. /\ n \in RequestSet /\ n.kind = req[r].kind /\ n.pc = pc /\ n.start = req[r].start
        /\ n.host = req[r].host /\ n.claim = req[r].claim /\ n.forced = req[r].forced
    BY <2>3, Facts DEF RequestSet
  <2>5. req[r].kind \in {"launch", "op"} /\ pc \in Stands[req[r].kind]
    BY <2>2, Facts DEF Fit, Stands, RequestSet
  <2>6. Fit(n, up, userRow.host, cache, fails)
    BY <2>2, <2>4, <2>5, Facts DEF Fit
  <2>7. req' = [req EXCEPT ![r] = n] /\ cooling' \in BOOLEAN
    BY <2>1, <2>2, <2>3, Facts
  <2>8. QED  BY <2>2, <2>4, <2>6, <2>7, Advances
<1>2. CASE \E ok \in BOOLEAN : Loaded(r, ok)
  <2>1. PICK ok \in BOOLEAN : Loaded(r, ok)
    BY <1>2
  <2>2. PICK n : n = [req[r] EXCEPT !.pc = "route"]
    OBVIOUS
  <2>3. /\ n \in RequestSet /\ n.kind = req[r].kind /\ n.pc = "route" /\ n.start = req[r].start
        /\ n.host = req[r].host /\ n.claim = req[r].claim /\ n.forced = req[r].forced
    BY <2>2, Facts DEF RequestSet
  <2>4. /\ req[r].pc = "loading" /\ req' = [req EXCEPT ![r] = n]
        /\ UNCHANGED <<up, userRow, cooling, fresh, running, flips, restarts>>
        /\ known' = (IF ok THEN known \cup Nodes ELSE known) /\ cache' = (IF ok THEN cache \cup Nodes ELSE cache)
        /\ IF ok THEN fails' = fails ELSE fails < MaxFails /\ fails' = fails + 1
    BY <2>1, <2>2 DEF Loaded, At, Goto, shared
  <2>5. fails \in 0 .. MaxFails /\ MaxFails \in Nat
    BY RoutingAssumption DEF RoutingInv, RoutingTypes
  <2>6. fails' \in 0 .. MaxFails /\ fails' >= fails /\ (~ok => fails' > 0)
    BY <2>4, <2>5
  <2>7. RoutingTypes' /\ cache \subseteq cache' /\ (ok => Nodes \subseteq cache')
    BY <2>4, <2>6 DEF RoutingInv, RoutingTypes
  <2>8. req[r].kind \in {"launch", "op"} /\ "route" \in Stands[req[r].kind]
    BY <2>4, Facts DEF Fit, Stands, RequestSet
  <2>9. Fit(n, up, userRow.host, cache', fails')
    BY <2>3, <2>4, <2>6, <2>7, <2>8, Facts DEF Fit
  <2>10. StartsThere
    BY <2>4 DEF StartsThere
  <2>11. QED  BY <2>3, <2>4, <2>6, <2>7, <2>9, <2>10, OneMoves
<1>3. QED  BY <1>1, <1>2

\* hostFor: a launch goes where its claim says, or reads the directory again, or fails.
LEMMA RoutesKeep ==
  ASSUME RoutingInv, NEW r \in Requests, RouteLaunch(r) \/ RouteOp(r)
  PROVE  RoutingInv' /\ StartsThere
<1>1. CASE RouteLaunch(r)
  <2>1. /\ req[r].pc = "route" /\ req[r].kind = "launch" /\ UNCHANGED <<up, known, cooling, cache, counts>>
        /\ req[r].host \in Nodes /\ req[r].claim = req[r].host
        /\ req[r].forced => req[r].host \in cache \/ fails > 0
    BY <1>1, Facts DEF RouteLaunch, At, Fit
  <2>2. "loading" \in Stands["launch"] /\ "done" \in Stands["launch"] /\ "unknown" \in Stands["launch"]
    BY DEF Stands
  <2>3. CASE ReadAgain(r)
    <3>1. PICK n : n = [req[r] EXCEPT !.pc = "loading", !.forced = TRUE]
      OBVIOUS
    <3>2. /\ n \in RequestSet /\ n.kind = "launch" /\ n.pc = "loading" /\ n.start = req[r].start
          /\ n.host = req[r].host /\ n.claim = req[r].claim
      BY <2>1, <3>1, Facts DEF RequestSet
    <3>3. Fit(n, up, userRow.host, cache, fails)
      BY <2>1, <2>2, <3>2, Facts DEF Fit
    <3>4. req' = [req EXCEPT ![r] = n] /\ fresh' \in BOOLEAN /\ userRow' = userRow /\ running' = running
      BY <1>1, <2>3, <3>1 DEF RouteLaunch
    <3>5. QED  BY <2>1, <3>2, <3>3, <3>4, Facts, Advances DEF shared
  <2>4. CASE ~ReadAgain(r) /\ Found(r) # 0
    <3>1. PICK n : n = [req[r] EXCEPT !.pc = "done"]
      OBVIOUS
    <3>2. /\ n \in RequestSet /\ n.kind = "launch" /\ n.pc = "done" /\ n.start = req[r].start
          /\ n.host = req[r].host /\ n.claim = req[r].claim
      BY <2>1, <3>1, Facts DEF RequestSet
    <3>3. Fit(n, up, userRow.host, cache, fails)
      BY <2>1, <2>2, <3>2, Facts DEF Fit
    <3>4. /\ req' = [req EXCEPT ![r] = n] /\ fresh' = fresh /\ userRow' = userRow
          /\ running' = running \cup {req[r].host}
      BY <1>1, <2>4, <3>1 DEF RouteLaunch, Goto, Found
    <3>5. RoutingTypes' /\ fails' >= fails
      BY <2>1, <3>4 DEF RoutingInv, RoutingTypes, counts
    <3>6. StartsThere
      BY <2>1, <3>4 DEF StartsThere, At
    <3>7. QED  BY <2>1, <3>2, <3>3, <3>4, <3>5, <3>6, OneMoves DEF counts
  <2>5. CASE ~ReadAgain(r) /\ Found(r) = 0
    <3>1. req[r].host \notin cache /\ fails > 0
      BY <2>1, <2>5, Facts DEF ReadAgain, Found
    <3>2. PICK n : n = [req[r] EXCEPT !.pc = "unknown"]
      OBVIOUS
    <3>3. /\ n \in RequestSet /\ n.kind = "launch" /\ n.pc = "unknown" /\ n.start = req[r].start
          /\ n.host = req[r].host /\ n.claim = req[r].claim
      BY <2>1, <3>2, Facts DEF RequestSet
    <3>4. Fit(n, up, userRow.host, cache, fails)
      BY <2>1, <2>2, <3>1, <3>3, Facts DEF Fit
    <3>5. /\ req' = [req EXCEPT ![r] = n] /\ fresh' = fresh /\ userRow' = [userRow EXCEPT !.leased = FALSE]
          /\ running' = running
      BY <1>1, <2>5, <3>2 DEF RouteLaunch, Goto
    <3>6. /\ userRow' \in [host : 0..N, leased : BOOLEAN] /\ userRow'.host = userRow.host
          /\ (userRow'.leased => userRow'.host # 0)
      BY <3>5 DEF RoutingInv, RoutingTypes
    <3>9. fails \in Nat /\ fails' = fails
      <4>1. fails \in 0 .. MaxFails /\ MaxFails \in Nat
        BY RoutingAssumption DEF RoutingInv, RoutingTypes
      <4>2. fails' = fails
        BY <2>1 DEF counts
      <4>3. QED  BY <4>1, <4>2
    <3>10. RoutingTypes' /\ fails' >= fails /\ userRow'.host = userRow.host
      <4>1. fails' >= fails
        BY <3>9
      <4>2. RoutingTypes'
        BY <2>1, <3>5, <3>6 DEF RoutingInv, RoutingTypes, counts
      <4>3. QED  BY <3>6, <4>1, <4>2
    <3>7. StartsThere
      BY <3>5 DEF StartsThere
    <3>8. QED  BY <2>1, <3>3, <3>4, <3>5, <3>7, <3>10, OneMoves DEF counts
  <2>6. QED  BY <2>3, <2>4, <2>5
<1>2. CASE RouteOp(r)
  <2>1. PICK h : h = (IF userRow.host \in cache THEN userRow.host ELSE Default)
    OBVIOUS
  <2>2. h \in 0 .. N
    BY <2>1, Facts, RoutingAssumption
  <2>3. PICK n : n = [req[r] EXCEPT !.host = h, !.pc = "done"]
    OBVIOUS
  <2>4. /\ n \in RequestSet /\ n.kind = req[r].kind /\ n.pc = "done" /\ n.start = req[r].start
        /\ n.host = h /\ n.forced = req[r].forced
    BY <2>2, <2>3, Facts DEF RequestSet
  <2>5. /\ req[r].pc = "route" /\ req[r].kind = "op" /\ req' = [req EXCEPT ![r] = n]
        /\ UNCHANGED <<shared, caches, running, counts>>
    BY <1>2, <2>1, <2>3 DEF RouteOp, At
  <2>6. "done" \in Stands["op"]
    BY DEF Stands
  <2>7. Fit(n, up, userRow.host, cache, fails)
    BY <2>4, <2>5, <2>6, Facts DEF Fit
  <2>8. QED  BY <2>4, <2>5, <2>7, Facts, Advances DEF caches
<1>3. QED  BY <1>1, <1>2

\* A slot without a request fits any state.
LEMMA NoRequestFits ==
  /\ NoRequest \in RequestSet
  /\ \A hosts, owner, directory, failed : Fit(NoRequest, hosts, owner, directory, failed)
<1>1. NoRequest \in RequestSet
  <2>1. {} \in SUBSET Nodes /\ 0 \in 0 .. N
    BY RoutingAssumption
  <2>2. QED  BY <2>1 DEF NoRequest, RequestSet
<1>2. NoRequest.pc = "idle" /\ NoRequest.kind = "none" /\ NoRequest.start = 0 /\ "idle" \in Stands["none"]
  BY DEF NoRequest, Stands
<1>3. QED  BY <1>1, <1>2 DEF Fit

\* A request ends.
LEMMA EndKeeps == ASSUME RoutingInv, NEW r \in Requests, End(r) PROVE RoutingInv' /\ StartsThere
<1>1. req' = [req EXCEPT ![r] = NoRequest] /\ UNCHANGED <<shared, caches, running, counts>>
  BY DEF End
<1>2. QED  BY <1>1, NoRequestFits, Facts, Advances DEF caches

\* The directory was refreshed: all who waited for it go on.
LEMMA RefreshedKeeps ==
  ASSUME RoutingInv, NEW ok \in BOOLEAN, Refreshed(ok)
  PROVE  RoutingInv' /\ StartsThere
<1>1. /\ UNCHANGED <<up, userRow, cooling, cache, fresh, running, flips, restarts>>
      /\ req' = [r \in Requests |-> IF req[r].pc = "refreshing" THEN [req[r] EXCEPT !.pc = "addr", !.forced = TRUE]
                                    ELSE req[r]]
      /\ known' = (IF ok THEN known \cup Nodes ELSE known)
      /\ IF ok THEN fails' = fails ELSE fails < MaxFails /\ fails' = fails + 1
  BY DEF Refreshed, At, shared
<1>2. fails \in 0 .. MaxFails /\ MaxFails \in Nat
  BY RoutingAssumption DEF RoutingInv, RoutingTypes
<1>3. fails' \in 0 .. MaxFails /\ fails' >= fails
  <2>1. CASE ok
    <3>1. fails' = fails
      BY <1>1, <2>1
    <3>2. QED  BY <1>2, <3>1
  <2>2. CASE ~ok
    <3>1. fails < MaxFails /\ fails' = fails + 1
      BY <1>1, <2>2
    <3>2. QED  BY <1>2, <3>1
  <2>3. QED  BY <2>1, <2>2
<1>4. RoutingTypes'
  BY <1>1, <1>3 DEF RoutingInv, RoutingTypes
<1>5. ASSUME NEW r \in Requests
      PROVE  req'[r] \in RequestSet /\ Fit(req'[r], up', userRow'.host, cache', fails')
  <2>1. CASE req[r].pc = "refreshing"
    <3>1. PICK n : n = [req[r] EXCEPT !.pc = "addr", !.forced = TRUE]
      OBVIOUS
    <3>2. /\ n \in RequestSet /\ n.kind = req[r].kind /\ n.pc = "addr" /\ n.start = req[r].start
          /\ n.host = req[r].host
      BY <3>1, Facts DEF RequestSet
    <3>3. req[r].kind = "file" /\ "addr" \in Stands["file"]
      BY <2>1, Facts DEF Fit, Stands, RequestSet
    <3>4. Fit(n, up, userRow.host, cache, fails')
      BY <2>1, <3>2, <3>3, Facts DEF Fit
    <3>5. req'[r] = n
      BY <1>1, <2>1, <3>1
    <3>6. QED  BY <1>1, <3>2, <3>4, <3>5
  <2>2. CASE req[r].pc # "refreshing"
    <3>1. req'[r] = req[r]
      BY <1>1, <2>2
    <3>2. Fit(req[r], up, userRow.host, cache, fails')
      BY <1>2, <1>3, Facts DEF Fit
    <3>3. QED  BY <1>1, <3>1, <3>2, Facts
  <2>3. QED  BY <2>1, <2>2
<1>6. req' \in [Requests -> RequestSet]
  BY <1>1, <1>5
<1>7. QED  BY <1>1, <1>4, <1>5, <1>6 DEF RoutingInv, RequestsFit, StartsThere

\* A host goes down or comes up: who counted on it forgets it.
LEMMA FlipKeeps == ASSUME RoutingInv, NEW h \in Nodes, Flip(h) PROVE RoutingInv' /\ StartsThere
<1>1. /\ UNCHANGED <<userRow, caches, running, fails, restarts>> /\ flips < MaxFlips /\ flips' = flips + 1
      /\ up' = IF h \in up THEN up \ {h} ELSE up \cup {h}
      /\ req' = [r \in Requests |-> [req[r] EXCEPT !.start = IF @ = h THEN 0 ELSE @]]
  BY DEF Flip
<1>2. flips' \in 0 .. MaxFlips
  <2>1. flips \in 0 .. MaxFlips /\ MaxFlips \in Nat
    BY RoutingAssumption DEF RoutingInv, RoutingTypes
  <2>2. QED  BY <1>1, <2>1
<1>3. RoutingTypes'
  BY <1>1, <1>2 DEF RoutingInv, RoutingTypes, caches
<1>4. ASSUME NEW r \in Requests
      PROVE  req'[r] \in RequestSet /\ Fit(req'[r], up', userRow'.host, cache', fails')
  <2>1. PICK s \in 0 .. N : s = (IF req[r].start = h THEN 0 ELSE req[r].start)
    BY Facts DEF RequestSet
  <2>2. PICK n : n = [req[r] EXCEPT !.start = s]
    OBVIOUS
  <2>3. /\ n \in RequestSet /\ n.kind = req[r].kind /\ n.pc = req[r].pc /\ n.start = s
        /\ n.host = req[r].host /\ n.claim = req[r].claim /\ n.forced = req[r].forced /\ n.rows = req[r].rows
    BY <2>2, Facts DEF RequestSet
  <2>4. s # 0 => s = req[r].start /\ s # h
    BY <2>1
  <2>5. Fit(n, up', userRow.host, cache, fails)
    BY <1>1, <2>3, <2>4, Facts DEF Fit
  <2>6. req'[r] = n
    BY <1>1, <2>1, <2>2
  <2>7. QED  BY <1>1, <2>3, <2>5, <2>6 DEF caches
<1>5. req' \in [Requests -> RequestSet]
  BY <1>1, <1>4
<1>6. QED  BY <1>1, <1>3, <1>4, <1>5 DEF RoutingInv, RequestsFit, StartsThere

\* Times run out, the instance stops, the Manager starts again.
LEMMA RestKeepsRouting ==
  ASSUME RoutingInv, Cools \/ Expires \/ Stop \/ StartsAgain \/ UNCHANGED routingVars
  PROVE  RoutingInv' /\ StartsThere
<1>1. CASE Cools \/ Expires \/ Stop \/ UNCHANGED routingVars
  <2>1. /\ UNCHANGED <<up, known, cache, req, flips, fails, restarts>>
        /\ cooling' \in BOOLEAN /\ fresh' \in BOOLEAN /\ running' \subseteq running
        /\ userRow' \in [host : 0 .. N, leased : BOOLEAN] /\ userRow'.host = userRow.host
        /\ userRow'.leased => userRow.leased
    BY <1>1 DEF Cools, Expires, Stop, routingVars, shared, caches, counts, RoutingInv, RoutingTypes
  <2>2. RoutingTypes'
    BY <2>1 DEF RoutingInv, RoutingTypes
  <2>3. RequestsFit'
    BY <2>1 DEF RoutingInv, RequestsFit
  <2>4. QED  BY <2>1, <2>2, <2>3 DEF RoutingInv, StartsThere
<1>2. CASE StartsAgain
  <2>1. /\ UNCHANGED <<up, running, flips, fails>> /\ restarts < MaxRestarts /\ restarts' = restarts + 1
        /\ known' = {Default} /\ cache' = {Default} /\ fresh' = FALSE /\ cooling' = FALSE
        /\ req' = [r \in Requests |-> NoRequest] /\ userRow' = [userRow EXCEPT !.leased = FALSE]
    BY <1>2 DEF StartsAgain
  <2>2. restarts' \in 0 .. MaxRestarts
    <3>1. restarts \in 0 .. MaxRestarts /\ MaxRestarts \in Nat
      BY RoutingAssumption DEF RoutingInv, RoutingTypes
    <3>2. QED  BY <2>1, <3>1
  <2>3. Default \in Nodes
    BY RoutingAssumption DEF Nodes
  <2>4. RoutingTypes'
    BY <2>1, <2>2, <2>3 DEF RoutingInv, RoutingTypes
  <2>5. req' \in [Requests -> RequestSet] /\ RequestsFit'
    BY <2>1, NoRequestFits DEF RequestsFit
  <2>6. QED  BY <2>1, <2>4, <2>5 DEF RoutingInv, StartsThere
<1>3. QED  BY <1>1, <1>2

\* Every step keeps the invariant, and starts an instance only where a claim says.
LEMMA RoutingStep ==
  ASSUME RoutingInv, [RoutingNext]_routingVars
  PROVE  RoutingInv' /\ StartsThere
<1>1. ASSUME NEW r \in Requests, \E kind \in {"file", "launch", "op"} : Begin(r, kind)
      PROVE  RoutingInv' /\ StartsThere
  BY <1>1, BeginKeeps
<1>2. ASSUME NEW r \in Requests, Step(r)
      PROVE  RoutingInv' /\ StartsThere
  BY <1>2, FileKeeps, PinKeeps, ClaimKeeps, DirectoryKeeps, RoutesKeep DEF Step
<1>3. ASSUME NEW r \in Requests, End(r)
      PROVE  RoutingInv' /\ StartsThere
  BY <1>3, EndKeeps
<1>4. ASSUME NEW ok \in BOOLEAN, Refreshed(ok)
      PROVE  RoutingInv' /\ StartsThere
  BY <1>4, RefreshedKeeps
<1>5. ASSUME NEW h \in Nodes, Flip(h)
      PROVE  RoutingInv' /\ StartsThere
  BY <1>5, FlipKeeps
<1>6. CASE Cools \/ Expires \/ Stop \/ StartsAgain \/ UNCHANGED routingVars
  BY <1>6, RestKeepsRouting
<1>7. QED  BY <1>1, <1>2, <1>3, <1>4, <1>5, <1>6 DEF RoutingNext

\* The invariant contains the three safety properties.
LEMMA RoutingInvImplies == ASSUME RoutingInv PROVE RoutingTypeOK /\ OwnerStays /\ JoinedIsFound
<1>1. RoutingTypeOK
  BY DEF RoutingInv, RoutingTypes, RoutingTypeOK, RequestSet
<1>2. OwnerStays
  BY Facts DEF Fit, OwnerStays, DoneAs, At
<1>3. JoinedIsFound
  BY Facts DEF Fit, JoinedIsFound, At
<1>4. QED  BY <1>1, <1>2, <1>3

\* Requests fit the owner, the claims and the directory in every state (server.ts: selectHost,
\* hostIdForFile; remote-spawner.ts: ensureHosts, hostFor).
THEOREM RoutingCorrect == RoutingSpec => []RoutingInv
<1>1. RoutingInit => RoutingInv
  BY RoutingInitially
<1>2. RoutingInv /\ [RoutingNext]_routingVars => RoutingInv'
  BY RoutingStep
<1>3. QED  BY <1>1, <1>2, PTL DEF RoutingSpec

\* Where files and instances land, for any hosts, any number of requests and of failed reads:
\* on the owner while it is up, on the host the lease names, and a host that joined is found.
THEOREM RoutingIsTrue == RoutingSpec => RoutingTrue
<1>1. RoutingInv => RoutingTypeOK /\ OwnerStays /\ JoinedIsFound
  BY RoutingInvImplies
<1>2. RoutingInv /\ [RoutingNext]_routingVars => [StartsThere]_routingVars
  BY RoutingStep
<1>3. RoutingSpec => [](RoutingTypeOK /\ OwnerStays /\ JoinedIsFound)
  BY <1>1, RoutingCorrect, PTL
<1>4. RoutingSpec => [][StartsThere]_routingVars
  BY <1>2, RoutingCorrect, PTL DEF RoutingSpec
<1>5. RoutingSpec => StartsWhereClaimed
  BY <1>4 DEF StartsWhereClaimed, StartsThere
<1>6. QED  BY <1>3, <1>5, PTL DEF RoutingTrue

-----------------------------------------------------------------------------
(* InstanceLease *)

USE HostsAssumption, TtlAssumption, ClockAssumption, BoundsAssumption
USE DEF NextEpoch, LeaseEnd, CountDown

LEMMA NoLeaseType == NoLease \in LeaseSet
BY DEF NoLease, LeaseSet

LEMMA IdleType == Idle \in CallSet
BY NoLeaseType DEF Idle, CallSet

LEMMA KindsType == /\ "claim" \in Kinds
                   /\ "renew" \in Kinds
                   /\ "release" \in Kinds
                   /\ "pin" \in Kinds
BY DEF Kinds

\* The three shapes a step gives to one call slot.
LEMMA CallStep ==
    ASSUME TypeOK, NEW m \in Managers, NEW k \in Kinds
    PROVE  /\ calls[m][k] \in CallSet
           /\ \A lease \in LeaseSet : Send(m, k, lease) =>
                calls' \in [Managers -> [Kinds -> CallSet]]
           /\ \A lease \in LeaseSet, ok \in BOOLEAN : Answer(m, k, lease, ok) =>
                calls' \in [Managers -> [Kinds -> CallSet]]
           /\ Done(m, k) => calls' \in [Managers -> [Kinds -> CallSet]]
<1>1. calls[m][k] \in CallSet  BY DEF TypeOK
<1>2. Clock(m) \in Nat  BY DEF TypeOK, Clock
<1>3. ASSUME NEW lease \in LeaseSet, Send(m, k, lease)
      PROVE  calls' \in [Managers -> [Kinds -> CallSet]]
  BY <1>2, <1>3 DEF Send, SetCall, TypeOK, CallSet
<1>4. ASSUME NEW lease \in LeaseSet, NEW ok \in BOOLEAN, Answer(m, k, lease, ok)
      PROVE  calls' \in [Managers -> [Kinds -> CallSet]]
  BY <1>1, <1>4 DEF Answer, SetCall, TypeOK, CallSet
<1>5. ASSUME Done(m, k)
      PROVE  calls' \in [Managers -> [Kinds -> CallSet]]
  BY IdleType, <1>5 DEF Done, SetCall, TypeOK
<1>6. QED  BY <1>1, <1>3, <1>4, <1>5

\* Every state has the declared types.
THEOREM TypeCorrect == Spec => []TypeOK
<1>1. Init => TypeOK
  BY NoLeaseType, IdleType DEF Init, TypeOK
<1>2. TypeOK /\ [Next]_vars => TypeOK'
  <2> SUFFICES ASSUME TypeOK, [Next]_vars PROVE TypeOK'
    OBVIOUS
  <2>1. CASE UNCHANGED vars
    BY <2>1 DEF vars, TypeOK
  <2>2. CASE TimePasses
    <3>1. now' \in Nat /\ due' \in [Managers -> Nat]
      <4>1. \A m \in Managers : (IF due[m] = 0 THEN 0 ELSE due[m] - 1) \in Nat
        BY DEF TypeOK
      <4>2. QED  BY <2>2, <4>1 DEF TimePasses, TypeOK
    <3>2. QED  BY <2>2, <3>1 DEF TimePasses, TypeOK
  <2>3. ASSUME NEW m \in Managers, ManagerNext(m) PROVE TypeOK'
    <3> USE KindsType, NoLeaseType
    <3>0. /\ held[m] \in LeaseSet
          /\ \A k \in Kinds : calls[m][k] \in CallSet /\ calls[m][k].lease \in LeaseSet
                               /\ calls[m][k].at \in Nat /\ calls[m][k].ok \in BOOLEAN
          /\ row.epoch \in Nat /\ row.host \in Hosts \cup {NoHost} /\ row.until \in Nat
      BY DEF TypeOK, CallSet
    <3>1. ASSUME NEW h \in Hosts, CallClaim(m, h) PROVE TypeOK'
      <4>1. [epoch |-> 0, host |-> h] \in LeaseSet  BY DEF LeaseSet
      <4>2. QED  BY CallStep, <3>1, <4>1 DEF CallClaim, TypeOK
    <3>2. CASE ClaimInstance(m)
      <4> DEFINE lease == calls[m]["claim"].lease
                 new == [lease EXCEPT !.epoch = row.epoch + 1]
      <4>1. new \in LeaseSet /\ lease.host \in Hosts \cup {NoHost}
        BY <3>0 DEF LeaseSet
      <4>2. calls' \in [Managers -> [Kinds -> CallSet]]
        BY CallStep, <3>0, <3>2, <4>1 DEF ClaimInstance
      <4>3. row' \in [host : Hosts \cup {NoHost}, epoch : Nat, until : Nat]
        <5>1. calls[m]["claim"].at + Ttl \in Nat  BY <3>0
        <5>2. CASE Vacant(calls[m]["claim"].at)
          <6>1. row' = [host |-> lease.host, epoch |-> row.epoch + 1,
                        until |-> calls[m]["claim"].at + Ttl]
            BY <3>2, <5>2 DEF ClaimInstance
          <6>2. QED  BY <3>0, <4>1, <5>1, <6>1
        <5>3. CASE ~Vacant(calls[m]["claim"].at)
          BY <3>2, <5>3 DEF ClaimInstance, TypeOK
        <5>4. QED  BY <5>2, <5>3
      <4>4. QED  BY <3>2, <4>2, <4>3 DEF ClaimInstance, TypeOK
    <3>3. CASE ReturnClaim(m)
      BY CallStep, <3>0, <3>3 DEF ReturnClaim, TypeOK
    <3>4. CASE Heartbeat(m)
      BY CallStep, <3>0, <3>4 DEF Heartbeat, ResetTimer, TypeOK
    <3>5. CASE RenewInstanceLease(m)
      <4> DEFINE ok == Matches(calls[m]["renew"].lease)
      <4>1. ok \in BOOLEAN  BY DEF Matches
      <4>2. calls' \in [Managers -> [Kinds -> CallSet]]
        BY CallStep, <3>0, <3>5, <4>1 DEF RenewInstanceLease
      <4>3. row' \in [host : Hosts \cup {NoHost}, epoch : Nat, until : Nat]
        BY <3>0, <3>5 DEF RenewInstanceLease, TypeOK
      <4>4. QED  BY <3>5, <4>2, <4>3 DEF RenewInstanceLease, TypeOK
    <3>6. CASE ReturnRenew(m)
      BY CallStep, <3>0, <3>6 DEF ReturnRenew, TypeOK
    <3>7. CASE CallRelease(m)
      BY CallStep, <3>0, <3>7 DEF CallRelease, TypeOK
    <3>8. CASE ReleaseInstanceLease(m)
      <4> DEFINE ok == Matches(calls[m]["release"].lease)
      <4>1. ok \in BOOLEAN  BY DEF Matches
      <4>2. calls' \in [Managers -> [Kinds -> CallSet]]
        BY CallStep, <3>0, <3>8, <4>1 DEF ReleaseInstanceLease
      <4>3. row' \in [host : Hosts \cup {NoHost}, epoch : Nat, until : Nat]
        BY <3>0, <3>8 DEF ReleaseInstanceLease, TypeOK
      <4>4. QED  BY <3>8, <4>2, <4>3 DEF ReleaseInstanceLease, TypeOK
    <3>9. CASE ReturnRelease(m)
      BY CallStep, <3>0, <3>9 DEF ReturnRelease, TypeOK
    <3>10. ASSUME NEW h \in Hosts, CallPin(m, h) PROVE TypeOK'
      <4>1. [epoch |-> 0, host |-> h] \in LeaseSet  BY DEF LeaseSet
      <4>2. QED  BY CallStep, <3>10, <4>1 DEF CallPin, TypeOK
    <3>11. CASE PinInstanceHost(m)
      <4>1. calls[m]["pin"].lease.host \in Hosts \cup {NoHost}
        BY <3>0 DEF LeaseSet
      <4>2. QED  BY CallStep, <3>0, <3>11, <4>1 DEF PinInstanceHost, TypeOK
    <3>12. ASSUME NEW k \in Kinds, LoseCall(m, k) PROVE TypeOK'
      BY CallStep, <3>12 DEF LoseCall, TypeOK
    <3>13. CASE Restart(m)
      BY IdleType, <3>13 DEF Restart, TypeOK
    <3>14. QED
      BY <2>3, <3>1, <3>2, <3>3, <3>4, <3>5, <3>6, <3>7, <3>8, <3>9, <3>10,
         <3>11, <3>12, <3>13 DEF ManagerNext
  <2>4. QED  BY <2>1, <2>2, <2>3 DEF Next
<1>3. QED  BY <1>1, <1>2, PTL DEF Spec

-----------------------------------------------------------------------------
(* Tokens *)

\* The elements of Used, without the set constructors.
LEMMA UsedElements ==
    ASSUME NEW m \in Managers, NEW e
    PROVE  e \in Used(m) <=>
             \/ e = held[m].epoch
             \/ /\ calls[m]["claim"].st = "answered"
                /\ calls[m]["claim"].ok
                /\ e = calls[m]["claim"].lease.epoch
             \/ calls[m]["renew"].st # "idle" /\ e = calls[m]["renew"].lease.epoch
             \/ calls[m]["release"].st # "idle" /\ e = calls[m]["release"].lease.epoch
BY DEF Used, Tokens

\* Which slot a step on calls touches, and what it leaves there.
LEMMA SlotUpdate ==
    ASSUME TypeOK, NEW m \in Managers, NEW k \in Kinds, NEW v,
           SetCall(m, k, v)
    PROVE  /\ \A n \in Managers, x \in Kinds :
                 n # m \/ x # k => calls'[n][x] = calls[n][x]
           /\ calls'[m][k] = v
<1>1. /\ DOMAIN calls = Managers
      /\ \A n \in Managers : DOMAIN calls[n] = Kinds
  BY DEF TypeOK
<1>2. calls' = [calls EXCEPT ![m] = [calls[m] EXCEPT ![k] = v]]
  BY DEF SetCall
<1>3. calls'[m] = [calls[m] EXCEPT ![k] = v] /\ \A n \in Managers : n # m => calls'[n] = calls[n]
  BY <1>1, <1>2
<1>4. QED  BY <1>1, <1>3

LEMMA SendStep ==
    ASSUME TypeOK, NEW m \in Managers, NEW k \in Kinds, NEW lease, Send(m, k, lease)
    PROVE  /\ \A n \in Managers, x \in Kinds :
                 n # m \/ x # k => calls'[n][x] = calls[n][x]
           /\ calls'[m][k].st = "sent"
           /\ calls'[m][k].at = Clock(m)
           /\ calls'[m][k].lease = lease
<1> DEFINE v == [st |-> "sent", at |-> Clock(m), lease |-> lease, ok |-> FALSE]
<1>1. SetCall(m, k, v)
  BY DEF Send
<1> HIDE DEF v
<1>2. /\ \A n \in Managers, x \in Kinds :
            n # m \/ x # k => calls'[n][x] = calls[n][x]
      /\ calls'[m][k] = v
  BY <1>1, SlotUpdate
<1>3. QED  BY <1>2 DEF v

LEMMA AnswerStep ==
    ASSUME TypeOK, NEW m \in Managers, NEW k \in Kinds, NEW lease, NEW ok, Answer(m, k, lease, ok)
    PROVE  /\ \A n \in Managers, x \in Kinds :
                 n # m \/ x # k => calls'[n][x] = calls[n][x]
           /\ calls'[m][k].st = "answered"
           /\ calls'[m][k].at = calls[m][k].at
           /\ calls'[m][k].lease = lease
           /\ calls'[m][k].ok = ok
<1> DEFINE v == [calls[m][k] EXCEPT !.st = "answered", !.lease = lease, !.ok = ok]
<1>1. SetCall(m, k, v)
  BY DEF Answer
<1> HIDE DEF v
<1>2. /\ \A n \in Managers, x \in Kinds :
            n # m \/ x # k => calls'[n][x] = calls[n][x]
      /\ calls'[m][k] = v
  BY <1>1, SlotUpdate
<1>3. calls[m][k] \in [st : {"idle", "sent", "answered"}, at : Nat,
                       lease : LeaseSet, ok : BOOLEAN]
  BY DEF TypeOK, CallSet
<1>4. QED  BY <1>2, <1>3 DEF v

LEMMA DoneStep ==
    ASSUME TypeOK, NEW m \in Managers, NEW k \in Kinds, Done(m, k)
    PROVE  /\ \A n \in Managers, x \in Kinds :
                 n # m \/ x # k => calls'[n][x] = calls[n][x]
           /\ calls'[m][k].st = "idle"
<1>1. SetCall(m, k, Idle)
  BY DEF Done
<1>2. /\ \A n \in Managers, x \in Kinds :
            n # m \/ x # k => calls'[n][x] = calls[n][x]
      /\ calls'[m][k] = Idle
  BY <1>1, SlotUpdate
<1>3. QED  BY <1>2 DEF Idle

\* A step that gives no Manager a new token keeps the invariant.
LEMMA NoNewToken ==
    ASSUME TypeOK, TypeOK', TokenInv, row'.epoch = row.epoch,
           \A n \in Managers : Used(n)' \subseteq Used(n) \cup {0},
           \A n \in Managers :
               LET c == calls'[n]["claim"] IN
               c.st = "answered" /\ c.ok =>
                 /\ calls[n]["claim"].st = "answered" /\ calls[n]["claim"].ok
                 /\ calls[n]["claim"].lease = c.lease
                 /\ held'[n].epoch \in {held[n].epoch, 0}
                 /\ \A k \in {"renew", "release"} : calls'[n][k].st # "idle" =>
                       \/ calls[n][k].st # "idle" /\ calls'[n][k].lease = calls[n][k].lease
                       \/ calls'[n][k].lease = held[n]
    PROVE  TokenInv'
<1>1. \A n \in Managers : \A e \in Used(n)' : e <= row'.epoch
  <2>1. 0 <= row.epoch  BY DEF TypeOK
  <2>2. QED  BY <2>1 DEF TokenInv
<1>2. \A m, n \in Managers : m # n => Used(m)' \cap Used(n)' \subseteq {0}
  BY DEF TokenInv
<1>3. ASSUME NEW n \in Managers, calls'[n]["claim"].st = "answered", calls'[n]["claim"].ok
      PROVE  LET c == calls'[n]["claim"] IN
             /\ c.lease.epoch > 0
             /\ held'[n].epoch # c.lease.epoch
             /\ \A k \in {"renew", "release"} :
                    calls'[n][k].st # "idle" => calls'[n][k].lease.epoch # c.lease.epoch
  <2> DEFINE b == calls[n]["claim"]
  <2>1. /\ b.lease.epoch > 0
        /\ held[n].epoch # b.lease.epoch
        /\ \A k \in {"renew", "release"} :
               calls[n][k].st # "idle" => calls[n][k].lease.epoch # b.lease.epoch
    BY <1>3 DEF TokenInv
  <2>2. b.lease = calls'[n]["claim"].lease /\ held'[n].epoch \in {held[n].epoch, 0}
    BY <1>3
  <2>3. held'[n].epoch # b.lease.epoch
    <3>1. b.lease.epoch # 0  BY <2>1
    <3>2. QED  BY <2>1, <2>2, <3>1
  <2>4. ASSUME NEW k \in {"renew", "release"}, calls'[n][k].st # "idle"
        PROVE  calls'[n][k].lease.epoch # b.lease.epoch
    BY <1>3, <2>1, <2>4
  <2>5. QED  BY <2>1, <2>2, <2>3, <2>4
<1>4. QED  BY <1>1, <1>2, <1>3 DEF TokenInv

\* The three ways a step of m touches its record and its calls: it moves the
\* slot k without a new token, it is granted a claim, or it starts again.
Others(m, k) ==
    /\ \A n \in Managers, x \in Kinds : n # m \/ x # k => calls'[n][x] = calls[n][x]
    /\ \A n \in Managers : n # m => held'[n] = held[n]

Moves(m, k) ==
    /\ Others(m, k)
    /\ row'.epoch = row.epoch
    /\ \/ calls'[m][k].st = "idle"
       \/ k = "claim" /\ calls'[m][k].st = "sent"
       \/ k = "claim" /\ ~calls'[m][k].ok
       \/ k = "pin"
       \/ calls[m][k].st # "idle" /\ calls'[m][k].lease = calls[m][k].lease /\ k # "claim"
       \/ k # "claim" /\ calls'[m][k].lease = held[m]
    /\ \/ held'[m] = held[m]
       \/ held'[m] = NoLease
       \/ /\ k = "claim" /\ calls'[m][k].st = "idle"
          /\ calls[m][k].st = "answered" /\ calls[m][k].ok
          /\ held'[m] = calls[m][k].lease

Granted(m) ==
    /\ Others(m, "claim")
    /\ held'[m] = held[m]
    /\ row'.epoch = row.epoch + 1
    /\ calls[m]["claim"].st = "sent"
    /\ calls'[m]["claim"].st = "answered"
    /\ calls'[m]["claim"].ok
    /\ calls'[m]["claim"].lease.epoch = row.epoch + 1

Restarted(m) ==
    /\ \A n \in Managers : n # m => held'[n] = held[n] /\ calls'[n] = calls[n]
    /\ held'[m] = NoLease
    /\ \A k \in Kinds : calls'[m][k] = Idle
    /\ row' = row

LEMMA StepShape ==
    ASSUME TypeOK, [Next]_vars
    PROVE  \/ UNCHANGED <<held, calls>> /\ row'.epoch = row.epoch
           \/ \E m \in Managers, k \in Kinds : Moves(m, k)
           \/ \E m \in Managers : Granted(m) \/ Restarted(m)
<1> DEFINE Shape(m) == \/ UNCHANGED <<held, calls>> /\ row'.epoch = row.epoch
                       \/ \E k \in Kinds : Moves(m, k)
                       \/ Granted(m) \/ Restarted(m)
<1> USE KindsType
<1>1. CASE UNCHANGED vars
  BY <1>1 DEF vars
<1>2. CASE TimePasses
  BY <1>2 DEF TimePasses
<1>3. ASSUME NEW m \in Managers, ManagerNext(m) PROVE Shape(m)
  <2>1. ASSUME NEW h \in Hosts, CallClaim(m, h) PROVE Shape(m)
    <3>1. /\ \A n \in Managers, x \in Kinds : n # m \/ x # "claim" => calls'[n][x] = calls[n][x]
          /\ calls'[m]["claim"].st = "sent"
      BY <2>1, SendStep DEF CallClaim
    <3>2. Moves(m, "claim")
      BY <2>1, <3>1 DEF Moves, Others, CallClaim
    <3>3. QED  BY <3>2
  <2>2. CASE ClaimInstance(m) /\ Vacant(calls[m]["claim"].at)
    <3> DEFINE new == [calls[m]["claim"].lease EXCEPT !.epoch = row.epoch + 1]
    <3>1. PICK w, ok : Answer(m, "claim", w, ok) /\ w = new
      BY <2>2 DEF ClaimInstance
    <3>2. /\ \A n \in Managers, x \in Kinds : n # m \/ x # "claim" => calls'[n][x] = calls[n][x]
          /\ calls'[m]["claim"].st = "answered"
          /\ calls'[m]["claim"].lease = new
          /\ calls'[m]["claim"].ok
      <4>1. /\ \A n \in Managers, x \in Kinds : n # m \/ x # "claim" => calls'[n][x] = calls[n][x]
            /\ calls'[m]["claim"].st = "answered"
            /\ calls'[m]["claim"].lease = w
        BY <3>1, AnswerStep
      <4>2. calls'[m]["claim"].ok
        <5>1. SetCall(m, "claim", [calls[m]["claim"] EXCEPT
                 !.st = "answered", !.lease = new, !.ok = TRUE])
          BY <2>2 DEF ClaimInstance, Answer
        <5>2. calls[m]["claim"] \in [st : {"idle", "sent", "answered"}, at : Nat,
                                     lease : LeaseSet, ok : BOOLEAN]
          BY DEF TypeOK, CallSet
        <5>3. QED  BY <5>1, <5>2 DEF SetCall, TypeOK
      <4>3. QED  BY <3>1, <4>1, <4>2
    <3>3. new.epoch = row.epoch + 1
      BY DEF TypeOK, CallSet, LeaseSet
    <3>4. /\ held' = held
          /\ calls[m]["claim"].st = "sent"
          /\ row' = [host |-> calls[m]["claim"].lease.host, epoch |-> row.epoch + 1,
                     until |-> calls[m]["claim"].at + Ttl]
      BY <2>2 DEF ClaimInstance
    <3>5. Granted(m)
      BY <3>2, <3>3, <3>4 DEF Granted, Others
    <3>6. QED  BY <3>5
  <2>3. CASE ClaimInstance(m) /\ ~Vacant(calls[m]["claim"].at)
    <3>1. /\ \A n \in Managers, x \in Kinds : n # m \/ x # "claim" => calls'[n][x] = calls[n][x]
          /\ ~calls'[m]["claim"].ok
      BY <2>3, AnswerStep DEF ClaimInstance
    <3>2. Moves(m, "claim")
      BY <2>3, <3>1 DEF Moves, Others, ClaimInstance
    <3>3. QED  BY <3>2
  <2>4. CASE ReturnClaim(m)
    <3>1. /\ \A n \in Managers, x \in Kinds : n # m \/ x # "claim" => calls'[n][x] = calls[n][x]
          /\ calls'[m]["claim"].st = "idle"
      BY <2>4, DoneStep DEF ReturnClaim, TypeOK
    <3>2. Moves(m, "claim")
      BY <2>4, <3>1 DEF Moves, Others, ReturnClaim, TypeOK
    <3>3. QED  BY <3>2
  <2>5. CASE Heartbeat(m)
    <3>1. CASE Holds(m)
      <4>1. /\ \A n \in Managers, x \in Kinds : n # m \/ x # "renew" => calls'[n][x] = calls[n][x]
            /\ calls'[m]["renew"].lease = held[m]
        BY <2>5, <3>1, SendStep DEF Heartbeat
      <4>2. Moves(m, "renew")
        BY <2>5, <4>1 DEF Moves, Others, Heartbeat
      <4>3. QED  BY <4>2
    <3>2. CASE ~Holds(m)
      BY <2>5, <3>2 DEF Heartbeat
    <3>3. QED  BY <3>1, <3>2
  <2>6. CASE RenewInstanceLease(m)
    <3>1. /\ \A n \in Managers, x \in Kinds : n # m \/ x # "renew" => calls'[n][x] = calls[n][x]
          /\ calls'[m]["renew"].lease = calls[m]["renew"].lease
      BY <2>6, AnswerStep DEF RenewInstanceLease, TypeOK
    <3>2. Moves(m, "renew")
      BY <2>6, <3>1 DEF Moves, Others, RenewInstanceLease, TypeOK
    <3>3. QED  BY <3>2
  <2>7. CASE ReturnRenew(m)
    <3>1. /\ \A n \in Managers, x \in Kinds : n # m \/ x # "renew" => calls'[n][x] = calls[n][x]
          /\ calls'[m]["renew"].st = "idle"
      BY <2>7, DoneStep DEF ReturnRenew, TypeOK
    <3>2. Moves(m, "renew")
      BY <2>7, <3>1 DEF Moves, Others, ReturnRenew, TypeOK
    <3>3. QED  BY <3>2
  <2>8. CASE CallRelease(m)
    <3>1. /\ \A n \in Managers, x \in Kinds : n # m \/ x # "release" => calls'[n][x] = calls[n][x]
          /\ calls'[m]["release"].lease = held[m]
      BY <2>8, SendStep DEF CallRelease
    <3>2. Moves(m, "release")
      BY <2>8, <3>1 DEF Moves, Others, CallRelease
    <3>3. QED  BY <3>2
  <2>9. CASE ReleaseInstanceLease(m)
    <3>1. /\ \A n \in Managers, x \in Kinds : n # m \/ x # "release" => calls'[n][x] = calls[n][x]
          /\ calls'[m]["release"].lease = calls[m]["release"].lease
      BY <2>9, AnswerStep DEF ReleaseInstanceLease, TypeOK
    <3>2. Moves(m, "release")
      BY <2>9, <3>1 DEF Moves, Others, ReleaseInstanceLease, TypeOK
    <3>3. QED  BY <3>2
  <2>10. CASE ReturnRelease(m)
    <3>1. /\ \A n \in Managers, x \in Kinds : n # m \/ x # "release" => calls'[n][x] = calls[n][x]
          /\ calls'[m]["release"].st = "idle"
      BY <2>10, DoneStep DEF ReturnRelease, TypeOK
    <3>2. Moves(m, "release")
      BY <2>10, <3>1 DEF Moves, Others, ReturnRelease, TypeOK
    <3>3. QED  BY <3>2
  <2>11. ASSUME NEW h \in Hosts, CallPin(m, h) PROVE Shape(m)
    <3>1. /\ \A n \in Managers, x \in Kinds : n # m \/ x # "pin" => calls'[n][x] = calls[n][x]
      BY <2>11, SendStep DEF CallPin
    <3>2. Moves(m, "pin")
      BY <2>11, <3>1 DEF Moves, Others, CallPin
    <3>3. QED  BY <3>2
  <2>12. CASE PinInstanceHost(m)
    <3>1. /\ \A n \in Managers, x \in Kinds : n # m \/ x # "pin" => calls'[n][x] = calls[n][x]
      BY <2>12, DoneStep DEF PinInstanceHost, TypeOK
    <3>2. Moves(m, "pin")
      BY <2>12, <3>1 DEF Moves, Others, PinInstanceHost, TypeOK
    <3>3. QED  BY <3>2
  <2>13. ASSUME NEW k \in Kinds, LoseCall(m, k) PROVE Shape(m)
    <3>1. /\ \A n \in Managers, x \in Kinds : n # m \/ x # k => calls'[n][x] = calls[n][x]
          /\ calls'[m][k].st = "idle"
      BY <2>13, DoneStep DEF LoseCall
    <3>2. Moves(m, k)
      BY <2>13, <3>1 DEF Moves, Others, LoseCall
    <3>3. QED  BY <3>2
  <2>14. CASE Restart(m)
    <3>1. Restarted(m)
      BY <2>14 DEF Restart, Restarted, TypeOK
    <3>2. QED  BY <3>1
  <2>15. QED
    BY <1>3, <2>1, <2>2, <2>3, <2>4, <2>5, <2>6, <2>7, <2>8, <2>9, <2>10,
       <2>11, <2>12, <2>13, <2>14 DEF ManagerNext
<1>4. QED  BY <1>1, <1>2, <1>3 DEF Next

\* The tokens stay unique, and none runs ahead of the row.
THEOREM TokensCorrect == Spec => []TokenInv
<1>1. Init => TokenInv
  <2> SUFFICES ASSUME Init PROVE TokenInv
    OBVIOUS
  <2>1. \A m \in Managers, k \in Kinds : calls[m][k].st = "idle"
    BY DEF Init, Idle
  <2>2. \A m \in Managers : Used(m) = {0}
    BY <2>1, KindsType, UsedElements DEF Init, NoLease
  <2>3. row.epoch = 0  BY DEF Init
  <2>4. QED  BY <2>1, <2>2, <2>3, KindsType DEF TokenInv
<1>2. TypeOK /\ TypeOK' /\ TokenInv /\ [Next]_vars => TokenInv'
  <2> SUFFICES ASSUME TypeOK, TypeOK', TokenInv, [Next]_vars PROVE TokenInv'
    OBVIOUS
  <2> USE KindsType
  <2>1. CASE UNCHANGED <<held, calls>> /\ row'.epoch = row.epoch
    <3>1. \A n \in Managers : Used(n)' = Used(n)
      BY <2>1 DEF Used, Tokens
    <3>2. QED  BY <2>1, <3>1 DEF TokenInv
  <2>2. ASSUME NEW m \in Managers, NEW k \in Kinds, Moves(m, k) PROVE TokenInv'
    <3>1. \A n \in Managers : Used(n)' \subseteq Used(n) \cup {0}
      <4>1. ASSUME NEW n \in Managers, n # m PROVE Used(n)' \subseteq Used(n) \cup {0}
        BY <2>2, <4>1 DEF Moves, Others, Used, Tokens
      <4>2. ASSUME NEW e, e \in Used(m)' PROVE e \in Used(m) \cup {0}
        <5>1. \/ e = held'[m].epoch
              \/ /\ calls'[m]["claim"].st = "answered"
                 /\ calls'[m]["claim"].ok
                 /\ e = calls'[m]["claim"].lease.epoch
              \/ calls'[m]["renew"].st # "idle" /\ e = calls'[m]["renew"].lease.epoch
              \/ calls'[m]["release"].st # "idle" /\ e = calls'[m]["release"].lease.epoch
          BY <4>2 DEF Used, Tokens
        <5>2. NoLease.epoch = 0  BY DEF NoLease
        <5>3. QED  BY <2>2, <5>1, <5>2, UsedElements DEF Moves, Others
      <4>3. QED  BY <4>1, <4>2
    <3>2. ASSUME NEW n \in Managers, calls'[n]["claim"].st = "answered", calls'[n]["claim"].ok
          PROVE  /\ calls[n]["claim"].st = "answered" /\ calls[n]["claim"].ok
                 /\ calls[n]["claim"].lease = calls'[n]["claim"].lease
                 /\ held'[n].epoch \in {held[n].epoch, 0}
                 /\ \A x \in {"renew", "release"} : calls'[n][x].st # "idle" =>
                       \/ calls[n][x].st # "idle" /\ calls'[n][x].lease = calls[n][x].lease
                       \/ calls'[n][x].lease = held[n]
      BY <2>2, <3>2 DEF Moves, Others, NoLease
    <3>3. row'.epoch = row.epoch  BY <2>2 DEF Moves
    <3>4. QED  BY <3>1, <3>2, <3>3, NoNewToken
  <2>3. ASSUME NEW m \in Managers, Granted(m) PROVE TokenInv'
    <3> DEFINE e == row.epoch + 1
    <3>1. /\ \A n \in Managers, x \in Kinds : n # m \/ x # "claim" => calls'[n][x] = calls[n][x]
          /\ held' = held
      BY <2>3 DEF Granted, Others, TypeOK
    <3>2. row.epoch \in Nat /\ row'.epoch = e
      BY <2>3 DEF Granted, TypeOK
    <3>3. calls'[m]["claim"].lease.epoch = e
      BY <2>3 DEF Granted
    <3>4. \A n \in Managers : n # m => Used(n)' = Used(n)
      BY <3>1 DEF Used, Tokens
    <3>5. Used(m)' \subseteq Used(m) \cup {e}
      <4>1. ASSUME NEW x, x \in Used(m)' PROVE x \in Used(m) \cup {e}
        <5>1. \/ x = held'[m].epoch
              \/ /\ calls'[m]["claim"].st = "answered"
                 /\ calls'[m]["claim"].ok
                 /\ x = calls'[m]["claim"].lease.epoch
              \/ calls'[m]["renew"].st # "idle" /\ x = calls'[m]["renew"].lease.epoch
              \/ calls'[m]["release"].st # "idle" /\ x = calls'[m]["release"].lease.epoch
          BY <4>1 DEF Used, Tokens
        <5>2. QED  BY <3>1, <3>3, <5>1, UsedElements
      <4>2. QED  BY <4>1
    <3>6. \A n \in Managers : \A x \in Used(n) : x <= row.epoch /\ x \in Nat
      <4>1. \A n \in Managers : \A x \in Used(n) : x \in Nat
        <5>1. ASSUME NEW n \in Managers
              PROVE  /\ held[n].epoch \in Nat
                     /\ \A k \in Kinds : calls[n][k].lease.epoch \in Nat
          BY DEF TypeOK, CallSet, LeaseSet
        <5>2. QED  BY <5>1, UsedElements
      <4>2. QED  BY <4>1 DEF TokenInv
    <3>7. \A n \in Managers : \A x \in Used(n)' : x <= row'.epoch
      BY <3>2, <3>4, <3>5, <3>6
    <3>8. \A p, n \in Managers : p # n => Used(p)' \cap Used(n)' \subseteq {0}
      <4>1. \A n \in Managers : e \notin Used(n)
        BY <3>2, <3>6
      <4>2. \A p, n \in Managers : p # n => Used(p) \cap Used(n) \subseteq {0}
        BY DEF TokenInv
      <4>3. QED  BY <3>4, <3>5, <4>1, <4>2
    <3>9. ASSUME NEW n \in Managers, calls'[n]["claim"].st = "answered", calls'[n]["claim"].ok
          PROVE  LET d == calls'[n]["claim"] IN
                 /\ d.lease.epoch > 0
                 /\ held'[n].epoch # d.lease.epoch
                 /\ \A k \in {"renew", "release"} :
                        calls'[n][k].st # "idle" => calls'[n][k].lease.epoch # d.lease.epoch
      <4>1. CASE n = m
        <5>1. e \notin Used(m)  BY <3>2, <3>6
        <5>2. held[m].epoch # e
          BY <5>1, UsedElements
        <5>3. \A k \in {"renew", "release"} : calls[m][k].st # "idle" => calls[m][k].lease.epoch # e
          BY <5>1, UsedElements
        <5>4. held'[m].epoch # e /\ e > 0
          BY <3>1, <3>2, <5>2
        <5>5. ASSUME NEW k \in {"renew", "release"}, calls'[m][k].st # "idle"
              PROVE  calls'[m][k].lease.epoch # e
          BY <3>1, <5>3, <5>5
        <5>6. QED  BY <3>3, <4>1, <5>4, <5>5
      <4>2. CASE n # m
        BY <3>1, <3>9, <4>2 DEF TokenInv
      <4>3. QED  BY <4>1, <4>2
    <3>10. QED  BY <3>7, <3>8, <3>9 DEF TokenInv
  <2>4. ASSUME NEW m \in Managers, Restarted(m) PROVE TokenInv'
    <3>1. /\ \A n \in Managers : n # m => held'[n] = held[n] /\ calls'[n] = calls[n]
          /\ held'[m] = NoLease
          /\ \A k \in Kinds : calls'[m][k] = Idle
          /\ row' = row
      BY <2>4 DEF Restarted
    <3>2. NoLease.epoch = 0 /\ Idle.st = "idle"
      BY DEF NoLease, Idle
    <3>3. \A n \in Managers : n # m => Used(n)' = Used(n)
      BY <3>1 DEF Used, Tokens
    <3>4. ASSUME NEW e, e \in Used(m)' PROVE e = 0
      BY <3>1, <3>2, <3>4 DEF Used, Tokens
    <3>5. \A n \in Managers : Used(n)' \subseteq Used(n) \cup {0}
      BY <3>3, <3>4
    <3>6. QED  BY <3>1, <3>2, <3>5, NoNewToken
  <2>5. QED  BY <2>1, <2>2, <2>3, <2>4, StepShape
<1>3. QED  BY <1>1, <1>2, TypeCorrect, PTL DEF Spec

\* The stale side of a takeover never passes stillHolder: two Managers whose
\* records match the row are one.
THEOREM SingleHolder == Spec => []OneHolder
<1>1. TypeOK /\ TokenInv => OneHolder
  <2> SUFFICES ASSUME TypeOK, TokenInv,
                      NEW m \in Managers, NEW n \in Managers,
                      Holds(m), Matches(held[m]), Holds(n), Matches(held[n])
               PROVE  m = n
    BY DEF OneHolder
  <2>1. held[m].epoch = row.epoch /\ held[n].epoch = row.epoch /\ row.epoch # 0
    BY DEF Holds, Matches
  <2>2. row.epoch \in Used(m) /\ row.epoch \in Used(n)
    BY <2>1, UsedElements
  <2>3. QED  BY <2>1, <2>2 DEF TokenInv
<1>2. QED  BY <1>1, TypeCorrect, TokensCorrect, PTL

-----------------------------------------------------------------------------
(* Refinement *)

\* The lease service, with its clocks, calls, losses and restarts, implements
\* the abstract token service.
THEOREM LeaseImplementsFencing == Spec => ImplementsFencing
<1> DEFINE granted == [m \in Managers |-> Tokens(m)]
<1>1. Init => Fencing!Init
  <2> SUFFICES ASSUME Init PROVE Fencing!Init
    OBVIOUS
  <2>1. \A m \in Managers : Tokens(m) = {0}
    BY KindsType DEF Init, Tokens, Idle, NoLease
  <2>2. QED  BY <2>1 DEF Init, Fencing!Init
<1>2. TypeOK /\ [Next]_vars => [Fencing!Next]_Fencing!vars
  <2> SUFFICES ASSUME TypeOK, [Next]_vars PROVE [Fencing!Next]_Fencing!vars
    OBVIOUS
  <2> USE KindsType
  <2>1. CASE UNCHANGED <<held, calls>> /\ row'.epoch = row.epoch
    BY <2>1 DEF Fencing!vars, Tokens
  <2>2. ASSUME row'.epoch = row.epoch, \A n \in Managers : Tokens(n)' \subseteq Tokens(n) \cup {0}
        PROVE  Fencing!Forget
    BY <2>2 DEF Fencing!Forget
  <2>3. ASSUME NEW m \in Managers, NEW k \in Kinds, Moves(m, k) PROVE Fencing!Forget
    <3>1. ASSUME NEW n \in Managers, n # m PROVE Tokens(n)' = Tokens(n)
      BY <2>3, <3>1 DEF Moves, Others, Tokens
    <3>2. Tokens(m)' \subseteq Tokens(m) \cup {0}
      <4>1. NoLease.epoch = 0  BY DEF NoLease
      <4>2. QED  BY <2>3, <4>1 DEF Moves, Others, Tokens
    <3>3. row'.epoch = row.epoch  BY <2>3 DEF Moves
    <3>4. QED  BY <2>2, <3>1, <3>2, <3>3
  <2>4. ASSUME NEW m \in Managers, Granted(m) PROVE Fencing!Grant(m)
    <3>1. ASSUME NEW n \in Managers, n # m PROVE Tokens(n)' = Tokens(n)
      BY <2>4, <3>1 DEF Granted, Others, Tokens
    <3>2. Tokens(m)' = Tokens(m) \cup {row.epoch + 1}
      BY <2>4 DEF Granted, Tokens
    <3>3. row'.epoch = row.epoch + 1  BY <2>4 DEF Granted
    <3>4. granted' = [granted EXCEPT ![m] = granted[m] \cup {row.epoch + 1}]
      BY <3>1, <3>2
    <3>5. QED  BY <3>3, <3>4 DEF Fencing!Grant
  <2>5. ASSUME NEW m \in Managers, Restarted(m) PROVE Fencing!Forget
    <3>1. ASSUME NEW n \in Managers, n # m PROVE Tokens(n)' = Tokens(n)
      BY <2>5, <3>1 DEF Restarted, Tokens
    <3>2. Tokens(m)' = {0}
      BY <2>5 DEF Restarted, Tokens, NoLease, Idle
    <3>3. row' = row  BY <2>5 DEF Restarted
    <3>4. QED  BY <2>2, <3>1, <3>2, <3>3
  <2>6. QED  BY <2>1, <2>3, <2>4, <2>5, StepShape DEF Fencing!Next
<1>3. QED  BY <1>1, <1>2, TypeCorrect, PTL DEF Spec, ImplementsFencing, Fencing!Spec

-----------------------------------------------------------------------------
(* Timing *)

LEMMA CallTypes ==
    ASSUME TypeOK, NEW m \in Managers
    PROVE  /\ Clock(m) \in Nat /\ due[m] \in Nat /\ held[m] \in LeaseSet
           /\ row.until \in Nat /\ row.epoch \in Nat
           /\ \A k \in Kinds : /\ calls[m][k].at \in Nat
                               /\ calls[m][k].st \in {"idle", "sent", "answered"}
                               /\ calls[m][k].lease \in LeaseSet
                               /\ calls[m][k].lease.epoch \in Nat
BY DEF TypeOK, CallSet, Clock, LeaseSet

\* Calls name hosts, and a row without a host has no lease.
THEOREM HostsKnown == Spec => []HostInv
<1>1. Init => HostInv
  BY KindsType DEF Init, HostInv, Holds, Idle, NoLease
<1>2. TypeOK /\ HostInv /\ [Next]_vars => HostInv'
  <2> SUFFICES ASSUME TypeOK, HostInv, [Next]_vars PROVE HostInv'
    OBVIOUS
  <2> USE KindsType
  <2>1. CASE UNCHANGED vars
    BY <2>1 DEF vars, HostInv, Holds
  <2>2. CASE TimePasses
    BY <2>2 DEF TimePasses, HostInv, Holds
  <2>3. ASSUME NEW m \in Managers, ManagerNext(m) PROVE HostInv'
    \* One slot of m changes; what it names, and the row and the record, do not
    \* lose their host.
    <3>0. ASSUME NEW k \in Kinds,
                 \A n \in Managers, x \in Kinds : n # m \/ x # k => calls'[n][x] = calls[n][x],
                 calls'[m][k].st = "idle" \/ calls'[m][k].lease.host # NoHost,
                 row'.host = NoHost => row'.until = 0,
                 \A n \in Managers : held'[n].epoch # 0 => held'[n].host # NoHost
          PROVE  HostInv'
      BY <3>0 DEF HostInv, Holds
    <3>a. \A n \in Managers : held[n].epoch # 0 => held[n].host # NoHost
      BY DEF HostInv, Holds
    <3>b. \A k \in Kinds : calls[m][k].st # "idle" => calls[m][k].lease.host # NoHost
      BY DEF HostInv
    <3>c. row.host = NoHost => row.until = 0
      BY DEF HostInv
    <3>d. \A n \in Managers : [held EXCEPT ![m] = NoLease][n].epoch # 0 =>
                                [held EXCEPT ![m] = NoLease][n].host # NoHost
      BY <3>a DEF NoLease, TypeOK
    <3>1. ASSUME NEW h \in Hosts, CallClaim(m, h) PROVE HostInv'
      <4>1. [epoch |-> 0, host |-> h].host # NoHost  OBVIOUS
      <4>2. QED  BY <3>0, <3>a, <3>c, <3>1, <4>1, SendStep DEF CallClaim
    <3>2. CASE ClaimInstance(m) /\ Vacant(calls[m]["claim"].at)
      <4> DEFINE new == [calls[m]["claim"].lease EXCEPT !.epoch = row.epoch + 1]
      <4>1. PICK w, ok : Answer(m, "claim", w, ok) /\ w = new
        BY <3>2 DEF ClaimInstance
      <4>2. new.host = calls[m]["claim"].lease.host
        BY DEF TypeOK, CallSet, LeaseSet
      <4>3. /\ \A n \in Managers, x \in Kinds : n # m \/ x # "claim" => calls'[n][x] = calls[n][x]
            /\ calls'[m]["claim"].lease = w
        <5> HIDE DEF new
        <5> QED  BY <4>1, AnswerStep
      <4>4. calls[m]["claim"].lease.host # NoHost
        BY <3>2, <3>b DEF ClaimInstance
      <4>5. row'.host # NoHost /\ held' = held
        BY <3>2, <4>4 DEF ClaimInstance
      <4>7. calls'[m]["claim"].lease.host # NoHost
        BY <4>1, <4>2, <4>3, <4>4
      <4>6. QED  BY <3>0, <3>a, <4>3, <4>5, <4>7
    <3>3. CASE ClaimInstance(m) /\ ~Vacant(calls[m]["claim"].at)
      <4>0. row' = row /\ held' = held /\ calls[m]["claim"].st = "sent"
        BY <3>3 DEF ClaimInstance
      <4>1. PICK w, ok : Answer(m, "claim", w, ok) /\ w = calls[m]["claim"].lease
        BY <3>3 DEF ClaimInstance
      <4>2. /\ \A n \in Managers, x \in Kinds : n # m \/ x # "claim" => calls'[n][x] = calls[n][x]
            /\ calls'[m]["claim"].lease = w
        BY <4>1, AnswerStep
      <4>3. QED  BY <3>0, <3>a, <3>b, <3>c, <4>0, <4>1, <4>2
    <3>4. CASE ReturnClaim(m)
      <4>1. \A n \in Managers : held'[n].epoch # 0 => held'[n].host # NoHost
        BY <3>4, <3>a, <3>b DEF ReturnClaim, TypeOK
      <4>2. QED  BY <3>0, <3>c, <3>4, <4>1, DoneStep DEF ReturnClaim
    <3>5. CASE Heartbeat(m)
      <4>1. CASE Holds(m)
        BY <3>0, <3>a, <3>c, <3>5, <4>1, SendStep DEF Heartbeat, Holds
      <4>2. CASE ~Holds(m)
        BY <3>5, <4>2 DEF Heartbeat, HostInv, Holds
      <4>3. QED  BY <4>1, <4>2
    <3>6. CASE RenewInstanceLease(m)
      <4>1. /\ \A n \in Managers, x \in Kinds : n # m \/ x # "renew" => calls'[n][x] = calls[n][x]
            /\ calls'[m]["renew"].lease = calls[m]["renew"].lease
        BY <3>6, AnswerStep DEF RenewInstanceLease
      <4>2. calls[m]["renew"].lease.host # NoHost
        BY <3>6, <3>b DEF RenewInstanceLease
      <4>3. row'.host = NoHost => row'.until = 0
        BY <3>6, <3>c, <4>2 DEF RenewInstanceLease, Matches, TypeOK
      <4>4. QED  BY <3>0, <3>a, <3>6, <4>1, <4>2, <4>3 DEF RenewInstanceLease
    <3>7. CASE ReturnRenew(m)
      BY <3>0, <3>a, <3>c, <3>d, <3>7, DoneStep DEF ReturnRenew
    <3>8. CASE CallRelease(m)
      BY <3>0, <3>a, <3>c, <3>8, SendStep DEF CallRelease, Holds
    <3>9. CASE ReleaseInstanceLease(m)
      <4>1. /\ \A n \in Managers, x \in Kinds : n # m \/ x # "release" => calls'[n][x] = calls[n][x]
            /\ calls'[m]["release"].lease = calls[m]["release"].lease
        BY <3>9, AnswerStep DEF ReleaseInstanceLease
      <4>2. calls[m]["release"].lease.host # NoHost
        BY <3>9, <3>b DEF ReleaseInstanceLease
      <4>3. row'.host = NoHost => row'.until = 0
        BY <3>9, <3>c DEF ReleaseInstanceLease, TypeOK
      <4>4. QED  BY <3>0, <3>a, <3>9, <4>1, <4>2, <4>3 DEF ReleaseInstanceLease
    <3>10. CASE ReturnRelease(m)
      BY <3>0, <3>a, <3>c, <3>d, <3>10, DoneStep DEF ReturnRelease
    <3>11. ASSUME NEW h \in Hosts, CallPin(m, h) PROVE HostInv'
      <4>1. [epoch |-> 0, host |-> h].host # NoHost  OBVIOUS
      <4>2. QED  BY <3>0, <3>a, <3>c, <3>11, <4>1, SendStep DEF CallPin
    <3>12. CASE PinInstanceHost(m)
      <4>1. calls[m]["pin"].lease.host # NoHost
        BY <3>12, <3>b DEF PinInstanceHost
      <4>2. row'.host = NoHost => row'.until = 0
        BY <3>12, <3>c, <4>1 DEF PinInstanceHost, TypeOK
      <4>3. QED  BY <3>0, <3>a, <3>12, <4>2, DoneStep DEF PinInstanceHost
    <3>13. ASSUME NEW k \in Kinds, LoseCall(m, k) PROVE HostInv'
      BY <3>0, <3>a, <3>c, <3>13, DoneStep DEF LoseCall
    <3>14. CASE Restart(m)
      <4>1. \A n \in Managers, k \in Kinds : calls'[n][k] = calls[n][k] \/ calls'[n][k].st = "idle"
        BY <3>14 DEF Restart, TypeOK, Idle
      <4>2. QED  BY <3>c, <3>d, <3>14, <4>1 DEF Restart, HostInv, Holds
    <3>15. QED
      BY <2>3, <3>1, <3>2, <3>3, <3>4, <3>5, <3>6, <3>7, <3>8, <3>9, <3>10,
         <3>11, <3>12, <3>13, <3>14 DEF ManagerNext
  <2>4. QED  BY <2>1, <2>2, <2>3 DEF Next
<1>3. QED  BY <1>1, <1>2, TypeCorrect, PTL DEF Spec
-----------------------------------------------------------------------------
(* A prompt system: heartbeats when due, calls that end within Latency *)

Timely == CallAges /\ BeatPhase /\ GrantLive /\ HolderLive /\ PinStale

\* What ttl > 2 * renew buys: a lease counted from a call still in flight has
\* not run out on anybody's clock.
LEMMA FreshLease ==
    ASSUME Prompt, TypeOK, NEW m \in Managers, NEW n \in Managers, NEW at \in Nat,
           Clock(m) <= at + Latency
    PROVE  Clock(n) + Renew + Latency <= at + Ttl
<1>1. Renew + 2 * Latency + Skew[n] <= Ttl + Skew[m]
  BY PromptAssumption
<1>2. now \in Nat /\ Skew[m] \in Nat /\ Skew[n] \in Nat
  BY DEF TypeOK
<1>3. QED  BY <1>1, <1>2 DEF Clock

\* A slot that is emptied, kept, sent for now, or answered without a grant.
SlotQuiet(n, k) ==
    \/ calls'[n][k].st = "idle"
    \/ calls'[n][k] = calls[n][k]
    \/ /\ k # "renew"
       /\ calls'[n][k].st = "sent" /\ calls'[n][k].at = Clock(n)
       /\ k = "pin" => row.host = NoHost
    \/ /\ calls[n][k].st # "idle" /\ calls'[n][k].st = "answered"
       /\ calls'[n][k].at = calls[n][k].at
       /\ k = "claim" => ~calls'[n][k].ok

\* A renewal in flight is kept, or over; a holder's was answered then, or is not
\* of its lease.
RenewQuiet(n) ==
    \/ calls'[n]["renew"] = calls[n]["renew"]
    \/ /\ calls'[n]["renew"].st = "idle"
       /\ calls[n]["renew"].st # "sent" \/ held'[n].epoch = 0
    \/ /\ calls[n]["renew"].st = "sent" /\ calls'[n]["renew"].st = "answered"
       /\ calls'[n]["renew"].at = calls[n]["renew"].at
       /\ ~Matches(calls[n]["renew"].lease)

\* A heartbeat timer is only set anew where nothing is held or renewed.
TimerQuiet(n) ==
    \/ due'[n] = due[n]
    \/ due'[n] <= Renew /\ held'[n].epoch = 0 /\ calls'[n]["renew"].st = "idle"

\* Steps that neither move the clock nor the row, nor give a lease.
LEMMA QuietKeepsTimely ==
    ASSUME TypeOK, TypeOK', Timely, now' = now, row' = row,
           \A n \in Managers : held'[n] = held[n] \/ held'[n].epoch = 0,
           \A n \in Managers : TimerQuiet(n) /\ RenewQuiet(n),
           \A n \in Managers, k \in Kinds : SlotQuiet(n, k)
    PROVE  Timely'
<1> USE KindsType
<1>0. \A n \in Managers : Clock(n)' = Clock(n)
  BY DEF Clock
<1>1. CallAges'
  <2> SUFFICES ASSUME NEW n \in Managers, NEW k \in Kinds, calls'[n][k].st # "idle"
               PROVE  calls'[n][k].at <= Clock(n) /\ Clock(n) <= calls'[n][k].at + Latency
    BY <1>0 DEF CallAges
  <2>1. Clock(n) \in Nat  BY CallTypes
  <2>2. \/ calls'[n][k] = calls[n][k]
        \/ calls'[n][k].at = Clock(n)
        \/ calls[n][k].st # "idle" /\ calls'[n][k].at = calls[n][k].at
    BY DEF SlotQuiet
  <2>3. QED  BY <2>1, <2>2 DEF Timely, CallAges
<1>2. BeatPhase'
  <2> SUFFICES ASSUME NEW n \in Managers
               PROVE  /\ due'[n] <= Renew
                      /\ calls'[n]["renew"].st # "idle" =>
                            Clock(n) + due'[n] = calls'[n]["renew"].at + Renew
    BY <1>0 DEF BeatPhase
  <2>1. QED  BY DEF Timely, BeatPhase, TimerQuiet, RenewQuiet
<1>3. GrantLive'
  <2> SUFFICES ASSUME NEW n \in Managers, calls'[n]["claim"].st = "answered", calls'[n]["claim"].ok,
                      Matches(calls'[n]["claim"].lease), row.until # 0
               PROVE  row.until >= calls'[n]["claim"].at + Ttl
    BY DEF GrantLive, Matches
  <2>1. calls'[n]["claim"] = calls[n]["claim"]  BY DEF SlotQuiet
  <2>2. QED  BY <2>1 DEF Timely, GrantLive
<1>4. HolderLive'
  <2> SUFFICES ASSUME NEW n \in Managers, held'[n].epoch # 0, Matches(held'[n]), row.until # 0
               PROVE  IF calls'[n]["renew"].st = "sent" /\ calls'[n]["renew"].lease = held'[n]
                        THEN row.until + Renew + Latency >= calls'[n]["renew"].at + Ttl
                        ELSE row.until + Renew + Latency >= Clock(n) + due'[n] + Ttl
    BY <1>0 DEF HolderLive, Holds, Matches
  <2>1. held'[n] = held[n] /\ due'[n] = due[n]
    BY DEF TimerQuiet
  <2>2. IF calls[n]["renew"].st = "sent" /\ calls[n]["renew"].lease = held[n]
          THEN row.until + Renew + Latency >= calls[n]["renew"].at + Ttl
          ELSE row.until + Renew + Latency >= Clock(n) + due[n] + Ttl
    BY <2>1 DEF Timely, HolderLive, Holds
  <2>3. CASE calls'[n]["renew"] = calls[n]["renew"]
    BY <2>1, <2>2, <2>3
  <2>4. CASE calls'[n]["renew"].st = "idle" /\ calls[n]["renew"].st # "sent"
    BY <2>1, <2>2, <2>4
  <2>5. CASE calls'[n]["renew"].st = "answered" /\ ~Matches(calls[n]["renew"].lease)
    BY <2>1, <2>2, <2>5
  <2>6. QED  BY <2>1, <2>3, <2>4, <2>5 DEF RenewQuiet
<1>5. PinStale'
  <2> SUFFICES ASSUME NEW n \in Managers, calls'[n]["pin"].st # "idle",
                      row.host # NoHost, row.until # 0
               PROVE  calls'[n]["pin"].at <= row.until
    BY DEF PinStale
  <2>1. calls[n]["pin"].st # "idle" /\ calls'[n]["pin"].at = calls[n]["pin"].at
    BY DEF SlotQuiet
  <2>2. QED  BY <2>1 DEF Timely, PinStale
<1>6. QED  BY <1>1, <1>2, <1>3, <1>4, <1>5 DEF Timely

\* A step that gives the row a new lease end, counted from the call of m.
LEMMA NewLeaseEnd ==
    ASSUME Prompt, TypeOK, TypeOK', Timely, UNCHANGED <<now, held, due>>,
           NEW m \in Managers, NEW k \in {"claim", "renew"},
           calls[m][k].st = "sent", calls'[m][k].st = "answered",
           calls'[m][k].at = calls[m][k].at,
           \A n \in Managers, x \in Kinds : n # m \/ x # k => calls'[n][x] = calls[n][x],
           row'.until = calls[m][k].at + Ttl
    PROVE  CallAges' /\ BeatPhase' /\ PinStale'
<1> USE KindsType
<1>0. \A n \in Managers : Clock(n)' = Clock(n)
  BY DEF Clock
<1>a. \A n \in Managers, x \in Kinds :
          calls'[n][x].st # "idle" => calls[n][x].st # "idle" /\ calls'[n][x].at = calls[n][x].at
  OBVIOUS
<1>1. CallAges'
  BY <1>0, <1>a DEF Timely, CallAges
<1>2. BeatPhase'
  <2> SUFFICES ASSUME NEW n \in Managers
               PROVE  /\ due[n] <= Renew
                      /\ calls'[n]["renew"].st # "idle" =>
                            Clock(n) + due[n] = calls'[n]["renew"].at + Renew
    BY <1>0 DEF BeatPhase
  <2>1. QED  BY <1>a DEF Timely, BeatPhase
<1>3. PinStale'
  <2> SUFFICES ASSUME NEW n \in Managers, calls'[n]["pin"].st # "idle"
               PROVE  calls'[n]["pin"].at <= row'.until
    BY DEF PinStale
  <2>1. calls'[n]["pin"] = calls[n]["pin"]
    OBVIOUS
  <2>2. calls[n]["pin"].at <= Clock(n) /\ Clock(m) <= calls[m][k].at + Latency
    BY <2>1 DEF Timely, CallAges
  <2>3. calls[m][k].at \in Nat /\ calls[n]["pin"].at \in Nat /\ Clock(n) \in Nat
    BY CallTypes
  <2>4. Clock(n) + Renew + Latency <= calls[m][k].at + Ttl
    BY <2>2, <2>3, FreshLease
  <2>5. QED  BY <2>1, <2>2, <2>3, <2>4
<1>4. QED  BY <1>1, <1>2, <1>3

\* A granted claim leaves nobody else a lease that matches the row.
LEMMA GrantKeepsTimely ==
    ASSUME Prompt, TypeOK, TypeOK', TokenInv, Timely, NEW m \in Managers,
           ClaimInstance(m), Vacant(calls[m]["claim"].at)
    PROVE  Timely'
<1> USE KindsType
<1> DEFINE c == calls[m]["claim"]
           new == [c.lease EXCEPT !.epoch = row.epoch + 1]
<1>1. /\ c.st = "sent" /\ UNCHANGED <<now, held, due>>
      /\ row' = [host |-> c.lease.host, epoch |-> row.epoch + 1, until |-> c.at + Ttl]
      /\ Answer(m, "claim", new, TRUE)
  BY DEF ClaimInstance
<1>2. /\ \A n \in Managers, x \in Kinds : n # m \/ x # "claim" => calls'[n][x] = calls[n][x]
      /\ calls'[m]["claim"].st = "answered" /\ calls'[m]["claim"].at = c.at
  <2> HIDE DEF new, c
  <2>1. PICK ok : Answer(m, "claim", new, ok)
    BY <1>1
  <2>2. QED  BY <2>1, AnswerStep DEF c
<1>3. row'.until = c.at + Ttl /\ row'.epoch = row.epoch + 1
  BY <1>1
<1>4. CallAges' /\ BeatPhase' /\ PinStale'
  <2> HIDE DEF new
  <2> QED  BY <1>1, <1>2, <1>3, NewLeaseEnd
<1>5. \A n \in Managers : \A e \in Used(n) : e # row'.epoch
  <2>1. ASSUME NEW n \in Managers, NEW e \in Used(n) PROVE e # row'.epoch
    <3>1. e <= row.epoch  BY DEF TokenInv
    <3>2. row.epoch \in Nat  BY CallTypes
    <3>3. QED  BY <1>3, <3>1, <3>2
  <2>2. QED  BY <2>1
<1>6. GrantLive'
  <2> SUFFICES ASSUME NEW n \in Managers, calls'[n]["claim"].st = "answered", calls'[n]["claim"].ok,
                      calls'[n]["claim"].lease.epoch = row'.epoch
               PROVE  row'.until >= calls'[n]["claim"].at + Ttl
    BY DEF GrantLive, Matches
  <2>1. CASE n = m
    <3>1. c.at + Ttl \in Nat  BY CallTypes
    <3>2. QED  BY <1>2, <1>3, <2>1, <3>1
  <2>2. CASE n # m
    <3>1. calls'[n]["claim"].lease.epoch \in Used(n)
      BY <1>2, <2>2, UsedElements
    <3>2. QED  BY <1>5, <3>1
  <2>3. QED  BY <2>1, <2>2
<1>7. HolderLive'
  <2> SUFFICES ASSUME NEW n \in Managers, held'[n].epoch = row'.epoch
               PROVE  FALSE
    BY DEF HolderLive, Matches
  <2>1. held[n].epoch \in Used(n) /\ held'[n] = held[n]
    BY <1>1, UsedElements
  <2>2. QED  BY <1>5, <2>1
<1>8. QED  BY <1>4, <1>6, <1>7 DEF Timely

\* A renewal that finds its lease in the row gives it a new end, and nobody else
\* has a lease or a grant that matches.
LEMMA RenewalKeepsTimely ==
    ASSUME Prompt, TypeOK, TypeOK', TokenInv, Timely, NEW m \in Managers,
           RenewInstanceLease(m), Matches(calls[m]["renew"].lease)
    PROVE  Timely'
<1> USE KindsType
<1> DEFINE c == calls[m]["renew"]
<1>1. /\ c.st = "sent" /\ UNCHANGED <<now, held, due>>
      /\ row' = [row EXCEPT !.until = c.at + Ttl]
      /\ \E ok : Answer(m, "renew", c.lease, ok)
  BY DEF RenewInstanceLease
<1>2. /\ \A n \in Managers, x \in Kinds : n # m \/ x # "renew" => calls'[n][x] = calls[n][x]
      /\ calls'[m]["renew"].st = "answered" /\ calls'[m]["renew"].at = c.at
  BY <1>1, AnswerStep
<1>3. row'.until = c.at + Ttl /\ row'.epoch = row.epoch /\ row'.host = row.host
  BY <1>1 DEF TypeOK
<1>4. CallAges' /\ BeatPhase' /\ PinStale'
  BY <1>1, <1>2, <1>3, NewLeaseEnd
<1>5. row.epoch \in Used(m)
  BY <1>1, UsedElements DEF Matches
<1>6. \A n \in Managers : n # m /\ row.epoch # 0 => row.epoch \notin Used(n)
  BY <1>5 DEF TokenInv
<1>7. GrantLive'
  <2> SUFFICES ASSUME NEW n \in Managers, calls'[n]["claim"].st = "answered", calls'[n]["claim"].ok,
                      calls'[n]["claim"].lease.epoch = row.epoch
               PROVE  FALSE
    BY <1>3 DEF GrantLive, Matches
  <2>1. calls'[n]["claim"] = calls[n]["claim"] /\ row.epoch > 0
    <3>1. calls'[n]["claim"] = calls[n]["claim"]  BY <1>2
    <3>2. QED  BY <3>1 DEF TokenInv
  <2>2. n = m
    BY <1>6, <2>1, UsedElements
  <2>3. QED  BY <1>1, <2>1, <2>2 DEF TokenInv, Matches
<1>8. HolderLive'
  <2> SUFFICES ASSUME NEW n \in Managers, held[n].epoch = row.epoch, row.epoch # 0
               PROVE  IF calls'[n]["renew"].st = "sent" /\ calls'[n]["renew"].lease = held'[n]
                        THEN row'.until + Renew + Latency >= calls'[n]["renew"].at + Ttl
                        ELSE row'.until + Renew + Latency >= Clock(n)' + due'[n] + Ttl
    BY <1>1, <1>3 DEF HolderLive, Holds, Matches
  <2>1. n = m
    BY <1>6, UsedElements
  <2>2. Clock(m) + due[m] = c.at + Renew
    BY <1>1 DEF Timely, BeatPhase
  <2>3. Clock(m)' = Clock(m) /\ due'[m] = due[m]
    BY <1>1 DEF Clock
  <2>4. Clock(m) \in Nat /\ due[m] \in Nat /\ c.at \in Nat
    BY CallTypes
  <2>5. row'.until + Renew + Latency >= Clock(n)' + due'[n] + Ttl
    BY <1>3, <2>1, <2>2, <2>3, <2>4
  <2>6. QED  BY <1>2, <2>1, <2>5
<1>9. QED  BY <1>4, <1>7, <1>8 DEF Timely

\* A claim that comes back granted is a lease with a beat and a call to spare.
LEMMA ReturnKeepsTimely ==
    ASSUME Prompt, TypeOK, TypeOK', TokenInv, Timely, NEW m \in Managers,
           ReturnClaim(m), calls[m]["claim"].ok
    PROVE  Timely'
<1> USE KindsType
<1> DEFINE c == calls[m]["claim"]
<1>1. /\ c.st = "answered" /\ UNCHANGED <<now, row, due>>
      /\ held' = [held EXCEPT ![m] = c.lease]
      /\ Done(m, "claim")
  BY DEF ReturnClaim
<1>2. /\ \A n \in Managers, x \in Kinds : n # m \/ x # "claim" => calls'[n][x] = calls[n][x]
      /\ calls'[m]["claim"].st = "idle"
  BY <1>1, DoneStep
<1>3. \A n \in Managers : Clock(n)' = Clock(n) /\ due'[n] = due[n]
  BY <1>1 DEF Clock
<1>4. CallAges'
  BY <1>2, <1>3 DEF Timely, CallAges
<1>5. BeatPhase'
  <2>1. \A n \in Managers : calls'[n]["renew"] = calls[n]["renew"]
    BY <1>2
  <2>2. QED  BY <1>3, <2>1 DEF Timely, BeatPhase
<1>6. PinStale'
  <2>1. \A n \in Managers : calls'[n]["pin"] = calls[n]["pin"]
    BY <1>2
  <2>2. QED  BY <1>1, <2>1 DEF Timely, PinStale
<1>7. GrantLive'
  <2>1. \A n \in Managers : calls'[n]["claim"] = calls[n]["claim"] \/ calls'[n]["claim"].st = "idle"
    BY <1>2
  <2>2. QED  BY <1>1, <2>1 DEF Timely, GrantLive, Matches
<1>8. HolderLive'
  <2> SUFFICES ASSUME NEW n \in Managers, held'[n].epoch # 0, Matches(held'[n]), row.until # 0
               PROVE  IF calls[n]["renew"].st = "sent" /\ calls[n]["renew"].lease = held'[n]
                        THEN row.until + Renew + Latency >= calls[n]["renew"].at + Ttl
                        ELSE row.until + Renew + Latency >= Clock(n) + due[n] + Ttl
    <3>1. \A n \in Managers : calls'[n]["renew"] = calls[n]["renew"]
      BY <1>2
    <3>2. QED  BY <1>1, <1>3, <3>1 DEF HolderLive, Holds, Matches
  <2>1. CASE n # m
    <3>1. held'[n] = held[n]  BY <1>1, <2>1 DEF TypeOK
    <3>2. QED  BY <3>1 DEF Timely, HolderLive, Holds
  <2>2. CASE n = m
    <3>1. held'[m] = c.lease  BY <1>1 DEF TypeOK
    <3>2. ~(calls[m]["renew"].st = "sent" /\ calls[m]["renew"].lease = c.lease)
      BY <1>1 DEF TokenInv
    <3>3. row.until >= c.at + Ttl
      BY <1>1, <2>2, <3>1 DEF Timely, GrantLive
    <3>4. Clock(m) <= c.at + Latency /\ due[m] <= Renew
      BY <1>1 DEF Timely, CallAges, BeatPhase
    <3>5. Clock(m) \in Nat /\ due[m] \in Nat /\ c.at \in Nat /\ row.until \in Nat
      BY CallTypes
    <3>6. row.until + Renew + Latency >= Clock(m) + due[m] + Ttl
      BY <3>3, <3>4, <3>5
    <3>7. QED  BY <2>2, <3>1, <3>2, <3>6
  <2>3. QED  BY <2>1, <2>2
<1>9. QED  BY <1>4, <1>5, <1>6, <1>7, <1>8 DEF Timely

\* A renewal starts when the timer fires.
LEMMA BeatKeepsTimely ==
    ASSUME TypeOK, TypeOK', Timely, NEW m \in Managers, Heartbeat(m), Holds(m)
    PROVE  Timely'
<1> USE KindsType
<1>1. /\ due[m] = 0 /\ calls[m]["renew"].st = "idle" /\ UNCHANGED <<now, row, held>>
      /\ Send(m, "renew", held[m]) /\ due' = [due EXCEPT ![m] = Renew]
  BY DEF Heartbeat, CanCall, ResetTimer
<1>2. /\ \A n \in Managers, x \in Kinds : n # m \/ x # "renew" => calls'[n][x] = calls[n][x]
      /\ calls'[m]["renew"].st = "sent" /\ calls'[m]["renew"].at = Clock(m)
      /\ calls'[m]["renew"].lease = held[m]
  BY <1>1, SendStep
<1>3. \A n \in Managers : Clock(n)' = Clock(n) /\ Clock(n) \in Nat
  BY <1>1, CallTypes DEF Clock
<1>4. due'[m] = Renew /\ \A n \in Managers : n # m => due'[n] = due[n]
  BY <1>1 DEF TypeOK
<1>5. CallAges'
  BY <1>2, <1>3 DEF Timely, CallAges
<1>6. BeatPhase'
  BY <1>2, <1>3, <1>4 DEF Timely, BeatPhase
<1>7. GrantLive'
  <2>1. \A n \in Managers : calls'[n]["claim"] = calls[n]["claim"]
    BY <1>2
  <2>2. QED  BY <1>1, <2>1 DEF Timely, GrantLive, Matches
<1>8. PinStale'
  <2>1. \A n \in Managers : calls'[n]["pin"] = calls[n]["pin"]
    BY <1>2
  <2>2. QED  BY <1>1, <2>1 DEF Timely, PinStale
<1>9. HolderLive'
  <2> SUFFICES ASSUME NEW n \in Managers, Holds(n), Matches(held[n]), row.until # 0
               PROVE  IF calls'[n]["renew"].st = "sent" /\ calls'[n]["renew"].lease = held[n]
                        THEN row.until + Renew + Latency >= calls'[n]["renew"].at + Ttl
                        ELSE row.until + Renew + Latency >= Clock(n) + due'[n] + Ttl
    BY <1>1, <1>3 DEF HolderLive, Holds, Matches
  <2>1. IF calls[n]["renew"].st = "sent" /\ calls[n]["renew"].lease = held[n]
          THEN row.until + Renew + Latency >= calls[n]["renew"].at + Ttl
          ELSE row.until + Renew + Latency >= Clock(n) + due[n] + Ttl
    BY DEF Timely, HolderLive
  <2>2. CASE n = m
    BY <1>1, <1>2, <1>3, <2>1, <2>2
  <2>3. CASE n # m
    BY <1>2, <1>4, <2>1, <2>3
  <2>4. QED  BY <2>2, <2>3
<1>10. QED  BY <1>5, <1>6, <1>7, <1>8, <1>9 DEF Timely

\* Where a row loses its lease nothing is said of holders and grants.
LEMMA NoLeaseKeepsTimely ==
    ASSUME TypeOK, TypeOK', Timely, UNCHANGED <<now, held, due>>, row'.until = 0,
           NEW m \in Managers, NEW k \in {"release", "pin"},
           \A n \in Managers, x \in Kinds : n # m \/ x # k => calls'[n][x] = calls[n][x],
           calls'[m][k].st # "idle" => calls[m][k].st # "idle" /\ calls'[m][k].at = calls[m][k].at
    PROVE  Timely'
<1> USE KindsType
<1>1. \A n \in Managers : Clock(n)' = Clock(n) /\ due'[n] = due[n]
  BY DEF Clock
<1>2. CallAges'
  BY <1>1 DEF Timely, CallAges
<1>3. BeatPhase'
  <2>1. \A n \in Managers : calls'[n]["renew"] = calls[n]["renew"]
    OBVIOUS
  <2>2. QED  BY <1>1, <2>1 DEF Timely, BeatPhase
<1>4. QED  BY <1>2, <1>3 DEF Timely, GrantLive, HolderLive, PinStale

\* Time passes while no timer and no call is overdue.
LEMMA TimeKeepsTimely ==
    ASSUME Prompt, TypeOK, TypeOK', Timely, TimePasses
    PROVE  Timely'
<1> USE KindsType
<1>1. /\ now' = now + 1 /\ UNCHANGED <<row, held, calls>>
      /\ \A n \in Managers : due[n] > 0 /\ due'[n] = due[n] - 1 /\ due[n] \in Nat
      /\ \A n \in Managers, k \in Kinds :
            calls[n][k].st # "idle" => Clock(n) < calls[n][k].at + Latency
  BY DEF TimePasses, TypeOK
<1>2. \A n \in Managers : Clock(n) \in Nat /\ Clock(n)' = Clock(n) + 1
  BY <1>1 DEF Clock, TypeOK
<1>3. \A n \in Managers, k \in Kinds : calls[n][k].at \in Nat
  BY CallTypes
<1>4. CallAges'
  BY <1>1, <1>2, <1>3 DEF Timely, CallAges
<1>5. BeatPhase'
  BY <1>1, <1>2, <1>3 DEF Timely, BeatPhase
<1>6. GrantLive' /\ PinStale'
  BY <1>1 DEF Timely, GrantLive, PinStale, Matches
<1>7. HolderLive'
  <2>1. calls' = calls /\ held' = held /\ row' = row
    BY <1>1
  <2>2. \A n \in Managers : Clock(n)' = Clock(n) + 1 /\ due'[n] = due[n] - 1
                            /\ Clock(n) \in Nat /\ due[n] \in Nat
    BY <1>1, <1>2
  <2>3. QED  BY <2>1, <2>2 DEF Timely, HolderLive, Holds, Matches
<1>8. QED  BY <1>4, <1>5, <1>6, <1>7 DEF Timely

\* Every step of a prompt system keeps its leases alive.
LEMMA TimelyStep ==
    ASSUME Prompt, TypeOK, TypeOK', TokenInv, HostInv, Timely, [Next]_vars
    PROVE  Timely'
<1> USE KindsType
<1>1. CASE UNCHANGED vars
  BY <1>1 DEF vars, Timely, CallAges, BeatPhase, GrantLive, HolderLive, PinStale,
              Clock, Holds, Matches
<1>2. CASE TimePasses
  BY <1>2, TimeKeepsTimely
<1>3. ASSUME NEW m \in Managers, ManagerNext(m) PROVE Timely'
  \* A step of m that is quiet in its slot k and leaves the timer.
  <2>0. ASSUME NEW k \in Kinds, UNCHANGED <<now, row, due>>,
               \A n \in Managers, x \in Kinds : n # m \/ x # k => calls'[n][x] = calls[n][x],
               \A n \in Managers : held'[n] = held[n] \/ held'[n].epoch = 0,
               SlotQuiet(m, k), RenewQuiet(m)
        PROVE  Timely'
    <3>1. \A n \in Managers : TimerQuiet(n)
      BY <2>0 DEF TimerQuiet
    <3>2. \A n \in Managers : RenewQuiet(n)
      BY <2>0 DEF RenewQuiet
    <3>3. \A n \in Managers, x \in Kinds : SlotQuiet(n, x)
      BY <2>0 DEF SlotQuiet
    <3>4. QED  BY <2>0, <3>1, <3>2, <3>3, QuietKeepsTimely
  <2>a. \A n \in Managers : [held EXCEPT ![m] = NoLease][n] = held[n]
                            \/ [held EXCEPT ![m] = NoLease][n].epoch = 0
    BY DEF NoLease, TypeOK
  <2>1. ASSUME NEW h \in Hosts, CallClaim(m, h) PROVE Timely'
    <3>1. /\ \A n \in Managers, x \in Kinds : n # m \/ x # "claim" => calls'[n][x] = calls[n][x]
          /\ calls'[m]["claim"].st = "sent" /\ calls'[m]["claim"].at = Clock(m)
      BY <2>1, SendStep DEF CallClaim
    <3>2. SlotQuiet(m, "claim") /\ RenewQuiet(m)
      BY <3>1 DEF SlotQuiet, RenewQuiet
    <3>3. QED  BY <2>0, <2>1, <3>1, <3>2 DEF CallClaim
  <2>2. CASE ClaimInstance(m)
    <3>1. CASE Vacant(calls[m]["claim"].at)
      BY <2>2, <3>1, GrantKeepsTimely
    <3>2. CASE ~Vacant(calls[m]["claim"].at)
      <4>1. /\ calls[m]["claim"].st = "sent" /\ UNCHANGED <<now, row, held, due>>
            /\ Answer(m, "claim", calls[m]["claim"].lease, FALSE)
        BY <2>2, <3>2 DEF ClaimInstance
      <4>2. /\ \A n \in Managers, x \in Kinds : n # m \/ x # "claim" => calls'[n][x] = calls[n][x]
            /\ calls'[m]["claim"].st = "answered" /\ ~calls'[m]["claim"].ok
            /\ calls'[m]["claim"].at = calls[m]["claim"].at
        <5>1. PICK ok : Answer(m, "claim", calls[m]["claim"].lease, ok) /\ ~ok
          BY <4>1
        <5>2. QED  BY <5>1, AnswerStep
      <4>3. SlotQuiet(m, "claim") /\ RenewQuiet(m)
        BY <4>1, <4>2 DEF SlotQuiet, RenewQuiet
      <4>4. QED  BY <2>0, <4>1, <4>2, <4>3
    <3>3. QED  BY <3>1, <3>2
  <2>3. CASE ReturnClaim(m)
    <3>1. CASE calls[m]["claim"].ok
      BY <2>3, <3>1, ReturnKeepsTimely
    <3>2. CASE ~calls[m]["claim"].ok
      <4>1. /\ \A n \in Managers, x \in Kinds : n # m \/ x # "claim" => calls'[n][x] = calls[n][x]
            /\ calls'[m]["claim"].st = "idle"
        BY <2>3, DoneStep DEF ReturnClaim
      <4>2. SlotQuiet(m, "claim") /\ RenewQuiet(m)
        BY <4>1 DEF SlotQuiet, RenewQuiet
      <4>3. QED  BY <2>0, <2>3, <3>2, <4>1, <4>2 DEF ReturnClaim
    <3>3. QED  BY <3>1, <3>2
  <2>4. CASE Heartbeat(m)
    <3>1. CASE Holds(m)
      BY <2>4, <3>1, BeatKeepsTimely
    <3>2. CASE ~Holds(m)
      <4>1. /\ UNCHANGED <<now, row, held, calls>> /\ calls[m]["renew"].st = "idle"
            /\ held[m].epoch = 0 /\ due' = [due EXCEPT ![m] = Renew]
        BY <2>4, <3>2 DEF Heartbeat, CanCall, ResetTimer, Holds
      <4>2. \A n \in Managers : TimerQuiet(n)
        BY <4>1 DEF TimerQuiet, TypeOK
      <4>3. \A n \in Managers : RenewQuiet(n)
        BY <4>1 DEF RenewQuiet
      <4>4. \A n \in Managers, x \in Kinds : SlotQuiet(n, x)
        BY <4>1 DEF SlotQuiet
      <4>5. QED  BY <4>1, <4>2, <4>3, <4>4, QuietKeepsTimely
    <3>3. QED  BY <3>1, <3>2
  <2>5. CASE RenewInstanceLease(m)
    <3> DEFINE c == calls[m]["renew"]
    <3>1. CASE Matches(c.lease)
      BY <2>5, <3>1, RenewalKeepsTimely
    <3>2. CASE ~Matches(c.lease)
      <4>1. /\ \A n \in Managers, x \in Kinds : n # m \/ x # "renew" => calls'[n][x] = calls[n][x]
            /\ calls'[m]["renew"].st = "answered" /\ calls'[m]["renew"].at = c.at
        BY <2>5, AnswerStep DEF RenewInstanceLease
      <4>2. c.st = "sent" /\ UNCHANGED <<now, row, held, due>>
        BY <2>5, <3>2 DEF RenewInstanceLease
      <4>3. SlotQuiet(m, "renew") /\ RenewQuiet(m)
        BY <3>2, <4>1, <4>2 DEF SlotQuiet, RenewQuiet
      <4>4. QED  BY <2>0, <4>1, <4>2, <4>3
    <3>3. QED  BY <3>1, <3>2
  <2>6. CASE ReturnRenew(m)
    <3>1. /\ \A n \in Managers, x \in Kinds : n # m \/ x # "renew" => calls'[n][x] = calls[n][x]
          /\ calls'[m]["renew"].st = "idle"
      BY <2>6, DoneStep DEF ReturnRenew
    <3>2. SlotQuiet(m, "renew") /\ RenewQuiet(m)
      BY <2>6, <3>1 DEF SlotQuiet, RenewQuiet, ReturnRenew
    <3>3. QED  BY <2>0, <2>6, <2>a, <3>1, <3>2 DEF ReturnRenew
  <2>7. CASE CallRelease(m)
    <3>1. /\ \A n \in Managers, x \in Kinds : n # m \/ x # "release" => calls'[n][x] = calls[n][x]
          /\ calls'[m]["release"].st = "sent" /\ calls'[m]["release"].at = Clock(m)
      BY <2>7, SendStep DEF CallRelease
    <3>2. SlotQuiet(m, "release") /\ RenewQuiet(m)
      BY <3>1 DEF SlotQuiet, RenewQuiet
    <3>3. QED  BY <2>0, <2>7, <3>1, <3>2 DEF CallRelease
  <2>8. CASE ReleaseInstanceLease(m)
    <3>1. /\ \A n \in Managers, x \in Kinds : n # m \/ x # "release" => calls'[n][x] = calls[n][x]
          /\ calls'[m]["release"].st = "answered"
          /\ calls'[m]["release"].at = calls[m]["release"].at
      BY <2>8, AnswerStep DEF ReleaseInstanceLease
    <3>2. calls[m]["release"].st = "sent" /\ UNCHANGED <<now, held, due>>
      BY <2>8 DEF ReleaseInstanceLease
    <3>3. CASE Matches(calls[m]["release"].lease)
      <4>1. row'.until = 0
        BY <2>8, <3>3 DEF ReleaseInstanceLease, TypeOK
      <4>2. QED  BY <3>1, <3>2, <4>1, NoLeaseKeepsTimely
    <3>4. CASE ~Matches(calls[m]["release"].lease)
      <4>1. SlotQuiet(m, "release") /\ RenewQuiet(m)
        BY <3>1, <3>2 DEF SlotQuiet, RenewQuiet
      <4>2. row' = row
        BY <2>8, <3>4 DEF ReleaseInstanceLease
      <4>3. QED  BY <2>0, <3>1, <3>2, <4>1, <4>2
    <3>5. QED  BY <3>3, <3>4
  <2>9. CASE ReturnRelease(m)
    <3>1. /\ \A n \in Managers, x \in Kinds : n # m \/ x # "release" => calls'[n][x] = calls[n][x]
          /\ calls'[m]["release"].st = "idle"
      BY <2>9, DoneStep DEF ReturnRelease
    <3>2. SlotQuiet(m, "release") /\ RenewQuiet(m)
      BY <3>1 DEF SlotQuiet, RenewQuiet
    <3>3. QED  BY <2>0, <2>9, <2>a, <3>1, <3>2 DEF ReturnRelease
  <2>10. ASSUME NEW h \in Hosts, CallPin(m, h) PROVE Timely'
    <3>1. /\ \A n \in Managers, x \in Kinds : n # m \/ x # "pin" => calls'[n][x] = calls[n][x]
          /\ calls'[m]["pin"].st = "sent" /\ calls'[m]["pin"].at = Clock(m)
      BY <2>10, SendStep DEF CallPin
    <3>2. SlotQuiet(m, "pin") /\ RenewQuiet(m)
      BY <2>10, <3>1 DEF SlotQuiet, RenewQuiet, CallPin
    <3>3. QED  BY <2>0, <2>10, <3>1, <3>2 DEF CallPin
  <2>11. CASE PinInstanceHost(m)
    <3> DEFINE c == calls[m]["pin"]
    <3>1. /\ \A n \in Managers, x \in Kinds : n # m \/ x # "pin" => calls'[n][x] = calls[n][x]
          /\ calls'[m]["pin"].st = "idle"
      BY <2>11, DoneStep DEF PinInstanceHost
    <3>2. c.st = "sent" /\ UNCHANGED <<now, held, due>>
      BY <2>11 DEF PinInstanceHost
    <3>3. CASE Vacant(c.at)
      \* The lease of a row with a host has not run out for a pin in flight.
      <4>1. row.until = 0
        <5>1. row.until \in Nat /\ c.at \in Nat  BY CallTypes
        <5>2. QED  BY <3>2, <3>3, <5>1 DEF Vacant, Timely, PinStale, HostInv
      <4>2. row'.until = 0
        BY <2>11, <4>1 DEF PinInstanceHost, TypeOK
      <4>3. QED  BY <3>1, <3>2, <4>2, NoLeaseKeepsTimely
    <3>4. CASE ~Vacant(c.at)
      <4>1. SlotQuiet(m, "pin") /\ RenewQuiet(m) /\ row' = row
        BY <2>11, <3>1, <3>4 DEF SlotQuiet, RenewQuiet, PinInstanceHost
      <4>2. QED  BY <2>0, <3>1, <3>2, <4>1
    <3>5. QED  BY <3>3, <3>4
  <2>12. ASSUME NEW k \in Kinds, LoseCall(m, k) PROVE Timely'
    <3>1. /\ \A n \in Managers, x \in Kinds : n # m \/ x # k => calls'[n][x] = calls[n][x]
          /\ calls'[m][k].st = "idle" /\ k # "renew"
      BY <2>12, DoneStep DEF LoseCall
    <3>2. SlotQuiet(m, k) /\ RenewQuiet(m)
      BY <3>1 DEF SlotQuiet, RenewQuiet
    <3>3. QED  BY <2>0, <2>12, <3>1, <3>2 DEF LoseCall
  <2>13. CASE Restart(m)
    <3>1. /\ UNCHANGED <<now, row>>
          /\ held'[m].epoch = 0 /\ due'[m] = 0 /\ \A k \in Kinds : calls'[m][k].st = "idle"
          /\ \A n \in Managers \ {m} : held'[n] = held[n] /\ due'[n] = due[n] /\ calls'[n] = calls[n]
      BY <2>13 DEF Restart, NoLease, Idle, TypeOK
    <3>2. \A n \in Managers : TimerQuiet(n)
      BY <3>1 DEF TimerQuiet
    <3>3. \A n \in Managers : RenewQuiet(n)
      BY <3>1 DEF RenewQuiet
    <3>4. \A n \in Managers, x \in Kinds : SlotQuiet(n, x)
      BY <3>1 DEF SlotQuiet
    <3>5. QED  BY <3>1, <3>2, <3>3, <3>4, QuietKeepsTimely
  <2>14. QED
    BY <1>3, <2>1, <2>2, <2>3, <2>4, <2>5, <2>6, <2>7, <2>8, <2>9, <2>10, <2>11, <2>12, <2>13
    DEF ManagerNext
<1>4. QED  BY <1>1, <1>2, <1>3 DEF Next

\* With heartbeats on time every lease is counted on: PromptInv is inductive with
\* the tokens and the hosts, whichever clocks and limits satisfy the assumption.
THEOREM PromptLeases == Spec => []PromptInv
<1>1. Init => PromptInv
  BY KindsType DEF Init, Idle, NoLease, PromptInv, CallAges, BeatPhase, GrantLive,
                   HolderLive, Holds, PinStale
<1>2. TypeOK /\ TypeOK' /\ TokenInv /\ HostInv /\ PromptInv /\ [Next]_vars => PromptInv'
  BY TimelyStep DEF PromptInv, Timely
<1>3. QED  BY <1>1, <1>2, TypeCorrect, TokensCorrect, HostsKnown, PTL DEF Spec

\* Invariant 2 of lease.ts: with heartbeats on time the lease of a Manager that
\* holds the row runs out on nobody's clock, so no claim or pin takes the row.
THEOREM HolderKeepsLease == Spec => []PromptHolderKeepsLease
<1>1. TypeOK /\ PromptInv => PromptHolderKeepsLease
  <2> SUFFICES ASSUME TypeOK, PromptInv, Prompt, NEW m \in Managers, Holds(m),
                      Matches(held[m]), row.until # 0, NEW n \in Managers
               PROVE  Clock(n) <= row.until
    BY DEF PromptHolderKeepsLease
  <2> DEFINE c == calls[m]["renew"]
  <2>1. /\ Clock(m) \in Nat /\ Clock(n) \in Nat /\ row.until \in Nat
        /\ due[m] \in Nat /\ c.at \in Nat
    BY CallTypes, KindsType
  <2>2. c.st = "sent" => Clock(m) <= c.at + Latency
    BY KindsType DEF PromptInv, CallAges
  <2>3. (row.until + Renew + Latency >= c.at + Ttl /\ c.st = "sent")
        \/ row.until + Renew + Latency >= Clock(m) + due[m] + Ttl
    BY DEF PromptInv, HolderLive
  <2>4. CASE row.until + Renew + Latency >= c.at + Ttl /\ c.st = "sent"
    <3>1. Clock(n) + Renew + Latency <= c.at + Ttl
      BY <2>1, <2>2, <2>4, FreshLease
    <3>2. QED  BY <2>1, <2>4, <3>1
  <2>5. CASE row.until + Renew + Latency >= Clock(m) + due[m] + Ttl
    <3>1. Clock(m) <= Clock(m) + Latency
      BY <2>1
    <3>2. Clock(n) + Renew + Latency <= Clock(m) + Ttl
      BY <2>1, <3>1, FreshLease
    <3>3. QED  BY <2>1, <2>5, <3>2
  <2>6. QED  BY <2>3, <2>4, <2>5
<1>2. QED  BY <1>1, TypeCorrect, PromptLeases, PTL

\* The lease of a punctual Manager, for any clocks, intervals and latency that
\* satisfy PromptAssumption.
THEOREM PromptLeaseHolds == Spec => []PromptLease
<1>1. TypeOK /\ HostInv /\ PromptInv /\ PromptHolderKeepsLease => PromptLease
  BY DEF PromptLease
<1>2. QED  BY <1>1, TypeCorrect, HostsKnown, PromptLeases, HolderKeepsLease, PTL
=============================================================================
