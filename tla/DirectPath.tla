----------------------------- MODULE DirectPath -----------------------------
(***************************************************************************)
(* The direct path between two nodes of the overlay (src/net/relay/direct):*)
(* the switch, the exchange of candidate addresses over the relay with its *)
(* admission and its ledger, the UDP probe that both sides run at the same *)
(* time, and the cooldown of a peer that was found dead.  Address          *)
(* translation is that of SimulatedNat: a packet comes in only after one   *)
(* went out.                                                               *)
(*                                                                         *)
(* A node has one address at a time, a number that grows when it moves.    *)
(* Every probe of a node binds the same port (offset 0, the default), so a *)
(* second probe fails to bind while one is open.                           *)
(***************************************************************************)
EXTENDS Integers, FiniteSets

CONSTANTS
  Nodes,
  Dialers,      \* the nodes on the list of those that may dial
  Configured,   \* bound: the nodes whose switch is not the default
  Attempts,     \* bound: [Nodes -> attempts of a node]
  Addresses,    \* bound: [Nodes -> addresses of a node]
  MaxPosts      \* bound: candidate messages of a node

VARIABLES
  sw,           \* [Nodes -> [env, file, on]]: both sources of the switch, and its value
  addr,         \* [Nodes -> address]
  oneWay,       \* nodes that no packet reaches
  posts,        \* candidate messages under way: [from, to, addr, no, stale]
  posted,       \* [Nodes -> messages sent]
  ledger,       \* [Nodes -> [received, accepted, rejected]]
  known,        \* [Nodes -> [Nodes -> address of the peer, 0 when none]]
  probe,        \* [Nodes -> the open probe: [to, sent], or NoProbe]
  heard,        \* [Nodes -> senders of the packets that the last probe got]
  packets,      \* packets under way: [from, to, addr]
  cooling,      \* [Nodes -> peers]
  verdict,      \* [Nodes -> [Nodes -> last verdict on the peer]]
  count,        \* [Nodes -> [tried, ok, dead, skipped]]
  both          \* history: [Nodes -> [Nodes -> both directions had worked at the verdict]]

vars == <<sw, addr, oneWay, posts, posted, ledger, known, probe, heard, packets, cooling,
          verdict, count, both>>
exchange == <<posts, posted, ledger, known>>
probing == <<probe, heard, packets, cooling, verdict, count, both>>

NoProbe == [to |-> "nobody", sent |-> FALSE]

\* resolveDirectSwitch: the environment, else the file, else on; "bad" is neither.
Resolve(env, file) ==
  IF env # "unset" THEN env ELSE IF file # "unset" THEN file ELSE "on"

Init ==
  /\ \E bad \in SUBSET Configured :
       sw = [n \in Nodes |-> LET env == IF n \in bad THEN "bad" ELSE "unset"
                             IN  [env |-> env, file |-> "unset", on |-> Resolve(env, "unset")]]
  /\ addr = [n \in Nodes |-> 1]
  /\ oneWay \in SUBSET Nodes
  /\ posts = {} /\ posted = [n \in Nodes |-> 0]
  /\ ledger = [n \in Nodes |-> [received |-> 0, accepted |-> 0, rejected |-> 0]]
  /\ known = [n \in Nodes |-> [m \in Nodes |-> 0]]
  /\ probe = [n \in Nodes |-> NoProbe] /\ heard = [n \in Nodes |-> {}] /\ packets = {}
  /\ cooling = [n \in Nodes |-> {}]
  /\ verdict = [n \in Nodes |-> [m \in Nodes |-> "none"]]
  /\ count = [n \in Nodes |-> [tried |-> 0, ok |-> 0, dead |-> 0, skipped |-> 0]]
  /\ both = [n \in Nodes |-> [m \in Nodes |-> TRUE]]

-----------------------------------------------------------------------------
(* Candidates.                                                             *)

\* encodeDirectMessage
Announces(n, m) ==
  /\ n # m /\ posted[n] < MaxPosts
  /\ posted' = [posted EXCEPT ![n] = @ + 1]
  /\ posts' = posts \cup {[from |-> n, to |-> m, addr |-> addr[n], no |-> posted[n], stale |-> FALSE]}
  /\ UNCHANGED <<sw, addr, oneWay, ledger, known>> /\ UNCHANGED probing

\* The message is older than DIRECT_CAND_TTL_MS.
Ages(p) ==
  /\ ~p.stale
  /\ posts' = (posts \ {p}) \cup {[p EXCEPT !.stale = TRUE]}
  /\ UNCHANGED <<sw, addr, oneWay, posted, ledger, known>> /\ UNCHANGED probing

\* admitCandidate
Admitted(p) == {p.from, p.to} \subseteq Dialers /\ ~p.stale

\* CandidateLedger.judge: every message is counted, then accepted or rejected.
Judges(p) ==
  LET l == ledger[p.to]
  IN  ledger' = [ledger EXCEPT ![p.to] =
        IF Admitted(p) THEN [l EXCEPT !.received = @ + 1, !.accepted = @ + 1]
                       ELSE [l EXCEPT !.received = @ + 1, !.rejected = @ + 1]]

\* offerCandidate, and noteDirectCandidate with its verdict; off: not even judged.
Offered(p) ==
  /\ posts' = posts \ {p}
  /\ IF sw[p.to].on = "on"
     THEN /\ Judges(p)
          /\ known' = IF Admitted(p) THEN [known EXCEPT ![p.to][p.from] = p.addr] ELSE known
     ELSE UNCHANGED <<ledger, known>>
  /\ UNCHANGED <<sw, addr, oneWay, posted>> /\ UNCHANGED probing

\* withdrawDirectCandidate
Withdraws(n, m) ==
  /\ known[n][m] # 0
  /\ known' = [known EXCEPT ![n][m] = 0]
  /\ UNCHANGED <<sw, addr, oneWay, posts, posted, ledger>> /\ UNCHANGED probing

-----------------------------------------------------------------------------
(* The probe.                                                              *)

Tally(n, kind) == [count EXCEPT ![n] = [@ EXCEPT !.tried = @ + 1, ![kind] = @ + 1]]

\* attempt, runPunchAttempt: the switch, the cooldown and the address are looked
\* at before a socket is opened.
Skips(n, m) ==
  /\ sw[n].on = "on" /\ (m \in cooling[n] \/ known[n][m] = 0)
  /\ count' = Tally(n, "skipped")
  /\ UNCHANGED <<probe, heard, cooling, verdict, both>>

\* Another probe has the port: counted as dead, and no cooldown.
FailsToBind(n, m) ==
  /\ sw[n].on = "on" /\ m \notin cooling[n] /\ known[n][m] # 0 /\ probe[n] # NoProbe
  /\ count' = Tally(n, "dead")
  /\ UNCHANGED <<probe, heard, cooling, verdict, both>>

Opens(n, m) ==
  /\ sw[n].on = "on" /\ m \notin cooling[n] /\ known[n][m] # 0 /\ probe[n] = NoProbe
  /\ probe' = [probe EXCEPT ![n] = [to |-> m, sent |-> FALSE]]
  /\ heard' = [heard EXCEPT ![n] = {}]
  /\ count' = [count EXCEPT ![n].tried = @ + 1]
  /\ UNCHANGED <<cooling, verdict, both>>

Attempt(n, m) ==
  /\ n # m /\ count[n].tried < Attempts[n]
  /\ Skips(n, m) \/ FailsToBind(n, m) \/ Opens(n, m)
  /\ UNCHANGED <<sw, addr, oneWay, packets>> /\ UNCHANGED exchange

\* received() counts the packets of any sender; what the peer got is reported
\* over the relay, sooner or later.
Works(n, seen) == heard[n] # {} /\ seen
SeenBy(n, m) == IF n \in heard[m] THEN BOOLEAN ELSE {FALSE}

\* The verdict: the cooldown begins, or ends; the socket is closed.
Closes(n, m, ok) ==
  /\ probe' = [probe EXCEPT ![n] = NoProbe]
  /\ verdict' = [verdict EXCEPT ![n][m] = IF ok THEN "ok" ELSE "dead"]
  /\ cooling' = [cooling EXCEPT ![n] = IF ok THEN @ \ {m} ELSE @ \cup {m}]
  /\ count' = [count EXCEPT ![n] = IF ok THEN [@ EXCEPT !.ok = @ + 1] ELSE [@ EXCEPT !.dead = @ + 1]]
  /\ both' = [both EXCEPT ![n][m] = ok => (m \in heard[n] /\ n \in heard[m])]

\* One round: a packet to the address, and a look at both directions.
Round(n) ==
  /\ probe[n] # NoProbe
  /\ LET m == probe[n].to
     IN  \E seen \in SeenBy(n, m) :
           /\ packets' = packets \cup {[from |-> n, to |-> m, addr |-> known[n][m]]}
           /\ IF Works(n, seen)
              THEN Closes(n, m, TRUE)
              ELSE probe' = [probe EXCEPT ![n].sent = TRUE] /\ UNCHANGED <<cooling, verdict, count, both>>
  /\ UNCHANGED <<sw, addr, oneWay, heard>> /\ UNCHANGED exchange

\* mutant
DeadlineSilent(n) ==
  /\ probe[n] # NoProbe /\ probe[n].sent /\ heard[n] # {}
  /\ \E seen \in SeenBy(n, probe[n].to) : Closes(n, probe[n].to, Works(n, seen))
  /\ UNCHANGED <<sw, addr, oneWay, heard, packets>> /\ UNCHANGED exchange

\* The time is over: a last look.
Deadline(n) ==
  /\ probe[n] # NoProbe /\ probe[n].sent
  /\ \E seen \in SeenBy(n, probe[n].to) : Closes(n, probe[n].to, Works(n, seen))
  /\ UNCHANGED <<sw, addr, oneWay, heard, packets>> /\ UNCHANGED exchange

\* DirectCooldown.blocked: the time is over, the entry goes.
Cooled(n, m) ==
  /\ m \in cooling[n]
  /\ cooling' = [cooling EXCEPT ![n] = @ \ {m}]
  /\ UNCHANGED <<sw, addr, oneWay, probe, heard, packets, verdict, count, both>> /\ UNCHANGED exchange

-----------------------------------------------------------------------------
(* The network and the nodes.                                              *)

\* onInner, onOuter: in only to the present address, after a packet went out,
\* and unless nothing comes in at all.
Arrives(p) ==
  /\ packets' = packets \ {p}
  /\ heard' = IF p.addr = addr[p.to] /\ probe[p.to].sent /\ p.to \notin oneWay
              THEN [heard EXCEPT ![p.to] = @ \cup {p.from}] ELSE heard
  /\ UNCHANGED <<sw, addr, oneWay, probe, cooling, verdict, count, both>> /\ UNCHANGED exchange

Moves(n) ==
  /\ addr[n] < Addresses[n]
  /\ addr' = [addr EXCEPT ![n] = @ + 1]
  /\ UNCHANGED <<sw, oneWay>> /\ UNCHANGED exchange /\ UNCHANGED probing

\* writeNodeConfigDirect: the field in the file; the running node keeps its value.
WritesConfig(n, b) ==
  /\ n \in Configured /\ sw[n].file = "unset"
  /\ sw' = [sw EXCEPT ![n].file = b]
  /\ UNCHANGED <<addr, oneWay>> /\ UNCHANGED exchange /\ UNCHANGED probing

\* The node starts again: a new DirectPath, with the switch as it is now.
Restarts(n) ==
  /\ sw[n].on # Resolve(sw[n].env, sw[n].file)
  /\ sw' = [sw EXCEPT ![n].on = Resolve(sw[n].env, sw[n].file)]
  /\ ledger' = [ledger EXCEPT ![n] = [received |-> 0, accepted |-> 0, rejected |-> 0]]
  /\ known' = [known EXCEPT ![n] = [m \in Nodes |-> 0]]
  /\ probe' = [probe EXCEPT ![n] = NoProbe] /\ heard' = [heard EXCEPT ![n] = {}]
  /\ cooling' = [cooling EXCEPT ![n] = {}]
  /\ verdict' = [verdict EXCEPT ![n] = [m \in Nodes |-> "none"]]
  /\ both' = [both EXCEPT ![n] = [m \in Nodes |-> TRUE]]
  /\ count' = [count EXCEPT ![n] = [tried |-> 0, ok |-> 0, dead |-> 0, skipped |-> 0]]
  /\ UNCHANGED <<addr, oneWay, posts, posted, packets>>

Next ==
  \/ \E n \in Nodes :
       \/ Round(n) \/ Deadline(n) \/ Moves(n) \/ Restarts(n)
       \/ \E b \in {"on", "off"} : WritesConfig(n, b)
       \/ \E m \in Nodes : Announces(n, m) \/ Withdraws(n, m) \/ Attempt(n, m) \/ Cooled(n, m)
  \/ \E p \in posts : Ages(p) \/ Offered(p)
  \/ \E p \in packets : Arrives(p)

Spec == Init /\ [][Next]_vars

\* The deadline of a probe comes.
FairSpec == Spec /\ \A n \in Nodes : WF_vars(Round(n)) /\ WF_vars(Deadline(n))

-----------------------------------------------------------------------------
(* Properties.                                                             *)

\* No message is rejected in silence, and every attempt is counted once.
TypeOK ==
  \A n \in Nodes :
    /\ ledger[n].received = ledger[n].accepted + ledger[n].rejected
    /\ count[n].tried = count[n].skipped + count[n].ok + count[n].dead
                        + (IF probe[n] = NoProbe THEN 0 ELSE 1)

\* "Direct" means both directions, between two nodes that probe each other.
OkIsBothWays == \A n, m \in Nodes : both[n][m]

\* A peer cools because the last probe that had a verdict on it found it dead:
\* never after a success, nor for an address that is missing or a port in use.
CoolingMeansDeath == \A n \in Nodes : \A m \in cooling[n] : verdict[n][m] = "dead"

\* Every probe ends and gives its port back.
ProbeEnds == \A n \in Nodes : []<>(probe[n] = NoProbe)
=============================================================================
