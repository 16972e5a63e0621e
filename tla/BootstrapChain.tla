--------------------------- MODULE BootstrapChain ---------------------------
(***************************************************************************)
(* How a node finds a relay: src/net/relay/directory.ts (the chain "env,   *)
(* cached directory, signed directory from an origin, stale cache, seed"), *)
(* src/net/relay/addr-override.ts (names answered without DNS) and the     *)
(* control plane that signs the directory (src/web/routes/overlay.ts).     *)
(*                                                                         *)
(* A relay entry and the origin of a directory are one host each, as the   *)
(* code has it ("bootstrap address = relay entry, same origin").  Document *)
(* 0 is none; Forged is a document without a valid signature, on a file    *)
(* somebody changed or in an answer somebody else gave.                    *)
(***************************************************************************)
EXTENDS Integers, FiniteSets, Sequences, SequencesExt

CONSTANTS
  Hosts,            \* public hosts
  ByJitter,         \* the hosts in the order of their jitter, once measured
  Private,          \* an address the directory must not carry
  Seeds,            \* the seeds a node was built with
  SeedLists,        \* the seed lists the control plane may be configured with
  Relays,           \* the relays it may be configured with
  Overrides,        \* hosts whose names are answered with fixed addresses
  MaxDocs,          \* bound: directories
  MaxFaults         \* bound: losses of hosts, of the front and of the cache

SeedAssumption ==
  /\ Seeds \in SeedLists /\ Private \notin Hosts
  /\ \A list \in SeedLists : list # <<>> /\ \A i \in DOMAIN list : list[i] \in Hosts

Forged == -1

VARIABLES
  docs,       \* the directories signed so far
  up,         \* hosts that run
  front,      \* the addresses DNS gives lead to the hosts
  cache,      \* the cache file: the document in it
  fresh,      \* its time to refresh has not come
  measured,   \* hosts with enough jitter samples
  todo,       \* resolution under way: the origins left to ask
  busy,
  result,     \* the last resolution: [source, urls, doc]
  faults

vars == <<docs, up, front, cache, fresh, measured, todo, busy, result, faults>>
world == <<docs, up, front, measured, faults>>

(* --- The documents. --- *)

\* Every host once, at its first place.
Distinct(list) ==
  LET keep(acc, h) == IF h \in Range(acc) THEN acc ELSE Append(acc, h)
  IN  FoldLeft(keep, <<>>, list)

\* publicRelayEntries: private addresses are left out.
Public(list) == Distinct(SelectSeq(list, LAMBDA h : h # Private))

\* buildSignedDirectory: the configured relay and the seeds as relays, the
\* seeds as the addresses of the next directory.
Document(relay, seeds) == [relays |-> Public(<<relay>> \o seeds), bootstrap |-> Public(seeds)]

ForgedDoc == [relays |-> <<Private>>, bootstrap |-> <<Private>>]
Doc(n) == IF n = Forged THEN ForgedDoc ELSE docs[n]

Signed(n) == n > 0
Current == Len(docs)

\* listCandidatesFromDoc
Candidates(d) == Distinct(d.relays \o d.bootstrap)

\* orderByJitter: measured hosts by their jitter, then the others in order.
JitterOrder(urls) ==
  SelectSeq(ByJitter, LAMBDA h : h \in Range(urls) \cap measured)
  \o SelectSeq(urls, LAMBDA h : h \notin measured)

\* Same origin first: the host that answered heads the chain if it is on it.
AnswererFirst(h, urls) ==
  IF h \in Range(urls) THEN <<h>> \o SelectSeq(urls, LAMBDA u : u # h) ELSE urls

(* --- The network. --- *)

\* A host answers when it runs and its address leads to it: the one DNS gives
\* while the front works, or the fixed one.
Reaches(h) == h \in up /\ (front \/ h \in Overrides)

-----------------------------------------------------------------------------

Init ==
  /\ docs = <<Document(Private, Seeds)>>
  /\ up = Hosts /\ front = TRUE
  /\ cache = 0 /\ fresh = FALSE /\ measured = {}
  /\ todo = <<>> /\ busy = FALSE
  /\ result = [source |-> "none", urls |-> <<>>, doc |-> 0]
  /\ faults = 0

Concludes(source, urls, n) ==
  /\ result' = [source |-> source, urls |-> urls, doc |-> n]
  /\ busy' = FALSE /\ todo' = <<>>

\* readCachedDirectory: what is in the file counts only when its signature holds.
Cached == IF Signed(cache) THEN cache ELSE 0

\* A fresh cache answers at once; else the origins are asked, those of the
\* cached directory before the seeds.
Origins == Distinct((IF Cached # 0 THEN Doc(Cached).bootstrap ELSE <<>>) \o Seeds)

Resolve ==
  /\ ~busy
  /\ IF Cached # 0 /\ fresh
     THEN Concludes("cache", JitterOrder(Candidates(Doc(Cached))), Cached)
     ELSE busy' = TRUE /\ todo' = Origins /\ UNCHANGED result
  /\ UNCHANGED <<world, cache, fresh>>

\* An origin answers with the directory in force; it is cached and used.
Answers(h) ==
  /\ busy /\ todo # <<>> /\ h = Head(todo) /\ Reaches(h)
  /\ cache' = Current /\ fresh' = TRUE
  /\ Concludes("seed-directory", JitterOrder(AnswererFirst(h, Candidates(Doc(Current)))), Current)
  /\ UNCHANGED world

\* An origin that is unreachable, or answers without a valid signature.
Skips ==
  /\ busy /\ todo # <<>> /\ ~Reaches(Head(todo))
  /\ todo' = Tail(todo)
  /\ UNCHANGED <<world, cache, fresh, busy, result>>

ForgedAnswer ==
  /\ busy /\ todo # <<>> /\ faults < MaxFaults /\ faults' = faults + 1
  /\ todo' = Tail(todo)
  /\ UNCHANGED <<docs, up, front, measured, cache, fresh, busy, result>>

\* The cache file cannot be written: the chain ends in an exception, and the
\* caller goes on with what it had.
WriteFails(h) ==
  /\ busy /\ todo # <<>> /\ h = Head(todo) /\ Reaches(h)
  /\ faults < MaxFaults /\ faults' = faults + 1
  /\ Concludes("thrown", <<>>, 0)
  /\ UNCHANGED <<docs, up, front, measured, cache, fresh>>

\* mutant
FallsToSeed ==
  /\ busy /\ todo = <<>>
  /\ Concludes("seed-fallback", <<Head(Seeds)>>, 0)
  /\ UNCHANGED <<world, cache, fresh>>

\* Nobody answered: the stale cache, read when the resolution began, or the
\* first seed itself.
FallsBack ==
  /\ busy /\ todo = <<>>
  /\ IF Cached # 0
     THEN Concludes("stale-cache", JitterOrder(Candidates(Doc(Cached))), Cached)
     ELSE Concludes("seed-fallback", <<Head(Seeds)>>, 0)
  /\ UNCHANGED <<world, cache, fresh>>

-----------------------------------------------------------------------------
(* Time and the operators.  They take care of one thing: somebody the node *)
(* can still ask keeps running.                                            *)

Askable == IF Cached # 0 THEN Range(Doc(Cached).bootstrap) \cup Range(Seeds) ELSE Range(Seeds)
Cared == \E h \in Askable : Reaches(h)

Expires ==
  /\ fresh /\ ~busy /\ fresh' = FALSE
  /\ UNCHANGED <<world, cache, todo, busy, result>>

Rotates ==
  /\ Len(docs) < MaxDocs /\ ~busy
  /\ \E relay \in Relays, seeds \in SeedLists :
       docs' = Append(docs, Document(relay, seeds))
  /\ \E h \in Range(docs'[Len(docs')].bootstrap) : Reaches(h)
  /\ UNCHANGED <<up, front, measured, cache, fresh, todo, busy, result, faults>>

HostTurns(h) ==
  /\ up' = IF h \in up THEN up \ {h} ELSE up \cup {h}
  /\ faults' = IF h \in up THEN faults + 1 ELSE faults
  /\ faults' <= MaxFaults /\ ~busy
  /\ UNCHANGED <<docs, front, measured, cache, fresh, todo, busy, result>>
  /\ Cared' /\ \E k \in Range(Doc(Current).bootstrap) : Reaches(k)'

FrontTurns ==
  /\ front' = ~front
  /\ faults' = IF front THEN faults + 1 ELSE faults
  /\ faults' <= MaxFaults /\ ~busy
  /\ UNCHANGED <<docs, up, measured, cache, fresh, todo, busy, result>>
  /\ Cared' /\ \E k \in Range(Doc(Current).bootstrap) : Reaches(k)'

CacheSpoiled ==
  /\ cache > 0 /\ ~busy /\ faults < MaxFaults /\ faults' = faults + 1
  /\ cache' \in {0, Forged}
  /\ UNCHANGED <<docs, up, front, measured, fresh, todo, busy, result>>
  /\ Cared'

Measured(h) ==
  /\ h \in up \ measured /\ measured' = measured \cup {h}
  /\ UNCHANGED <<docs, up, front, cache, fresh, todo, busy, result, faults>>

Asks == (\E h \in Hosts : Answers(h)) \/ Skips \/ FallsBack

Next ==
  \/ Resolve \/ Asks \/ Expires \/ Rotates \/ FrontTurns \/ CacheSpoiled \/ ForgedAnswer
  \/ \E h \in Hosts : WriteFails(h) \/ HostTurns(h) \/ Measured(h)

Spec == Init /\ [][Next]_vars

\* The refresh timer resolves again and again, a cached directory grows old,
\* and every origin is asked with a time limit.
FairSpec == Spec /\ WF_vars(Resolve) /\ WF_vars(Expires) /\ WF_vars(Asks)

-----------------------------------------------------------------------------
(* Properties.                                                             *)

\* A resolution under way is about origins; what is published is public.
TypeOK ==
  /\ cache \in {Forged} \cup 0 .. Len(docs)
  /\ (todo # <<>> => busy)
  /\ \A n \in DOMAIN docs : Private \notin Range(docs[n].relays) \cup Range(docs[n].bootstrap)

\* Nothing but the addresses of a signed directory or a seed is ever dialled,
\* whatever the cache file or an answer on the way contains.
SignedOnly ==
  LET good == Range(Seeds) \cup UNION {Range(Candidates(docs[n])) : n \in DOMAIN docs}
  IN  /\ Range(result.urls) \subseteq good
      /\ result.doc > 0 => Range(result.urls) = Range(Candidates(docs[result.doc]))

\* A node that has a valid directory keeps to its addresses while no origin
\* answers: it does not fall back to its seed, which may be long gone.
JoinedStaysJoined ==
  [][Cached # 0 /\ result' # result => result'.source \notin {"seed-fallback", "none"}]_vars

\* Whatever directories follow each other, and although the hosts the node was
\* built with may have gone: as long as one host of the directory it knows (or,
\* without one, of its seeds) answers, it comes to use the one in force.
UpToDate == result.doc = Current
=============================================================================
