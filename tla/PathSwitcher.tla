---------------------------- MODULE PathSwitcher ----------------------------
(***************************************************************************)
(* Which relay a node uses: the supervisor that leaves an unhealthy or      *)
(* jittery channel (src/src/net/relay/switcher.ts, jitter.ts) and, on the   *)
(* Manager, the refresh that follows the directory (refreshOverlay in       *)
(* src/src/web/server.ts).  Both run replace(), which awaits the new channel*)
(* between reading the old one and setting the new one.                     *)
(*                                                                         *)
(* All cooling entries last equally long, so the table is a sequence in the *)
(* order in which they run out.  Thresholds are left out: a channel of a    *)
(* relay that is down is unhealthy, and its jitter is calm, shaky or not    *)
(* known.                                                                   *)
(***************************************************************************)
EXTENDS Naturals, Sequences, Functions

CONSTANTS
    Chains,     \* candidate chains the directory may give
    First,      \* the url of the first channel
    Channels,   \* channels, reused once they are closed
    None,       \* no channel
    MaxEvents   \* bound: relays going down or up, changes of the directory

Urls == UNION {Range(c) : c \in Chains}

SwitcherAssumption ==
    /\ First \in Urls /\ None \notin Channels /\ MaxEvents \in Nat

Actors == {"tick", "directory"}

VARIABLES
    role,       \* "manager" follows the directory, "node" does not
    alive,      \* the relays that are up
    chain,      \* the candidates the directory gives now
    jitter,     \* what the tracker knows of each url
    chan,       \* url of each channel that is open or being opened, or None
    cur,        \* RelayFailoverSupervisor.current
    cooling,    \* its cooling table, the earliest to run out first
    act,        \* where each actor is in replace()
    tries,      \* how often a cooling url was tried in this cycle of it
    events      \* events so far

vars == <<role, alive, chain, jitter, chan, cur, cooling, act, tries, events>>

Idle == [pc |-> "idle", old |-> None, from |-> None, new |-> None, exempt |-> FALSE]

TypeOK ==
    /\ role \in {"manager", "node"} /\ alive \subseteq Urls /\ chain \in Chains
    /\ jitter \in [Urls -> {"calm", "shaky", "unknown"}]
    /\ chan \in [Channels -> Urls \cup {None}] /\ cur \in Channels
    /\ \A i \in DOMAIN cooling :
         /\ cooling[i] \in [url : Urls, kind : {"switched-away", "open-failed"}, used : BOOLEAN]
         /\ \A j \in DOMAIN cooling : cooling[i].url = cooling[j].url => i = j
    /\ act \in [Actors -> [pc : {"idle", "leaving", "calming", "opening"}, old : Channels \cup {None},
                           from : Urls \cup {None}, new : Channels \cup {None},
                           exempt : BOOLEAN]]
    /\ tries \in [Urls -> 0..2] /\ events \in 0..MaxEvents

Init ==
    /\ role \in {"manager", "node"}
    /\ alive = Urls
    /\ chain \in Chains
    /\ jitter = [u \in Urls |-> "unknown"]
    /\ cur = CHOOSE c \in Channels : TRUE
    /\ chan = [c \in Channels |-> IF c = cur THEN First ELSE None]
    /\ cooling = <<>>
    /\ act = [a \in Actors |-> Idle]
    /\ tries = [u \in Urls |-> 0]
    /\ events = 0

-----------------------------------------------------------------------------
Cooling(u) == \E i \in DOMAIN cooling : cooling[i].url = u
Others(u) == SelectSeq(cooling, LAMBDA e : e.url # u)

\* A new cycle of u.
Cool(table, u, kind, used) ==
    Append(SelectSeq(table, LAMBDA e : e.url # u), [url |-> u, kind |-> kind, used |-> used])

\* sampleCurrent: a sample of the present channel.
Sample(j) ==
    /\ chan[cur] \in alive
    /\ jitter[chan[cur]] # j
    /\ jitter' = [jitter EXCEPT ![chan[cur]] = j]
    /\ UNCHANGED <<role, alive, chain, chan, cur, cooling, act, tries, events>>

Rank(u) == CASE jitter[u] = "calm" -> 0 [] jitter[u] = "shaky" -> 1 [] OTHER -> 2
Place(u) == CHOOSE i \in DOMAIN chain : chain[i] = u

\* orderByJitter: the known ones by their jitter, the others after them.
Before(u, v) == Rank(u) < Rank(v) \/ (Rank(u) = Rank(v) /\ Place(u) < Place(v))
FirstOf(S) == CHOOSE u \in S : \A v \in S \ {u} : Before(u, v)

\* The url a check of the supervisor judged; candidates() is awaited after that.
Judged == act["tick"].from

Free == {u \in Range(chain) : u # Judged /\ ~Cooling(u)}

\* pickJitterTarget: strictly calmer than a channel over the threshold.
Calmer == {u \in Free : jitter[u] = "calm"}

\* pickExemptTarget: those left on purpose first, then the earliest to run out.
Pool == {i \in DOMAIN cooling :
           cooling[i].url \in Range(chain) /\ cooling[i].url # Judged /\ ~cooling[i].used}
ExemptFirst ==
    LET away == {i \in Pool : cooling[i].kind = "switched-away"}
        best == IF away # {} THEN away ELSE Pool IN
    CHOOSE i \in best : \A j \in best : i <= j

\* replace, up to its await: nothing for the present url, else a channel to u is
\* built and the present one remembered.
Opens(a, u) ==
    IF u = chan[cur]
      THEN act' = [act EXCEPT ![a] = Idle] /\ UNCHANGED <<chan, tries>>
      ELSE /\ \E c \in Channels :
                /\ chan[c] = None /\ c # cur /\ \A b \in Actors : act[b].old # c
                /\ chan' = [chan EXCEPT ![c] = u]
                /\ act' = [act EXCEPT ![a] = [pc |-> "opening", old |-> cur, from |-> chan[cur],
                                              new |-> c, exempt |-> Cooling(u)]]
           /\ tries' = IF Cooling(u) /\ tries[u] < 2 THEN [tries EXCEPT ![u] = @ + 1] ELSE tries

-----------------------------------------------------------------------------
(* The supervisor *)

Unhealthy == chan[cur] \notin alive

Resolves(pc) ==
    /\ act["tick"].pc = "idle"
    /\ act' = [act EXCEPT !["tick"] = [Idle EXCEPT !.pc = pc, !.from = chan[cur]]]
    /\ UNCHANGED <<role, alive, chain, jitter, chan, cur, cooling, tries, events>>

\* tick, considerJitterSwitch: the present channel is judged, then the candidates
\* are resolved.
JudgeUnhealthy == Unhealthy /\ Resolves("leaving")
JudgeShaky == ~Unhealthy /\ jitter[chan[cur]] = "shaky" /\ Resolves("calming")

\* tick: the first candidate that is free ...
LeaveUnhealthy ==
    /\ act["tick"].pc = "leaving"
    /\ Free # {}
    /\ Opens("tick", FirstOf(Free))
    /\ UNCHANGED <<role, alive, chain, jitter, cur, cooling, events>>

\* ... or, when cooling dried the pool up, one exemption per url and cycle ...
Exempt ==
    /\ act["tick"].pc = "leaving"
    /\ Free = {} /\ Pool # {}
    /\ Opens("tick", cooling[ExemptFirst].url)
    /\ UNCHANGED <<role, alive, chain, jitter, cur, cooling, events>>

\* considerJitterSwitch: a calmer one.
LeaveShaky ==
    /\ act["tick"].pc = "calming"
    /\ Calmer # {}
    /\ Opens("tick", FirstOf(Calmer))
    /\ UNCHANGED <<role, alive, chain, jitter, cur, cooling, events>>

\* Nothing to go to: the channel stays.
Stay ==
    /\ \/ act["tick"].pc = "leaving" /\ Free = {} /\ Pool = {}
       \/ act["tick"].pc = "calming" /\ Calmer = {}
    /\ act' = [act EXCEPT !["tick"] = Idle]
    /\ UNCHANGED <<role, alive, chain, jitter, chan, cur, cooling, tries, events>>

-----------------------------------------------------------------------------
(* The directory *)

\* refreshOverlay: the first candidate, unless it cools.
FollowDirectory ==
    /\ role = "manager" /\ act["directory"].pc = "idle"
    /\ chain[1] # chan[cur] /\ ~Cooling(chain[1])
    /\ Opens("directory", chain[1])
    /\ UNCHANGED <<role, alive, chain, jitter, cur, cooling, events>>

-----------------------------------------------------------------------------
(* The rest of replace *)

Closed(C) == [c \in Channels |-> IF c \in C THEN None ELSE chan[c]]

\* mutant: a candidate that does not come up is not cooled
FailsWithoutCooling(a) ==
    LET r == act[a] IN
    /\ r.pc = "opening" /\ chan[r.new] \notin alive
    /\ chan' = Closed({r.new})
    /\ act' = [act EXCEPT ![a] = Idle]
    /\ UNCHANGED <<role, alive, chain, jitter, cur, cooling, tries, events>>

\* The new channel does not come up: the old one stays, the candidate cools, and
\* is not exempt again when this was its exemption.
Fails(a) ==
    LET r == act[a]
        u == chan[r.new] IN
    /\ r.pc = "opening" /\ u \notin alive
    /\ chan' = Closed({r.new})
    /\ cooling' = Cool(cooling, u, "open-failed", r.exempt)
    /\ tries' = [tries EXCEPT ![u] = IF r.exempt THEN 1 ELSE 0]
    /\ act' = [act EXCEPT ![a] = Idle]
    /\ UNCHANGED <<role, alive, chain, jitter, cur, events>>

\* What is closed is the channel read before the await.
Replaced(r) == {r.old}

\* It comes up: it is the present one, the old one is closed and cools; a claimed
\* exemption is used up.
Succeeds(a) ==
    LET r == act[a]
        u == chan[r.new]
        left == Cool(cooling, r.from, "switched-away", FALSE) IN
    /\ r.pc = "opening" /\ u \in alive
    /\ cur' = r.new
    /\ chan' = Closed(Replaced(r))
    /\ cooling' = [i \in DOMAIN left |->
                     IF r.exempt /\ left[i].url = u THEN [left[i] EXCEPT !.used = TRUE] ELSE left[i]]
    /\ tries' = [tries EXCEPT ![r.from] = 0]
    /\ act' = [act EXCEPT ![a] = Idle]
    /\ UNCHANGED <<role, alive, chain, jitter, events>>

Event == events < MaxEvents /\ events' = events + 1

\* The cooldown is longer than it takes to try every candidate: entries run out
\* while the supervisor has nothing to do, or a bounded number of times at any other.
Busy ==
    \/ act["tick"].pc # "idle"
    \/ Unhealthy /\ \E u \in Range(chain) \ {chan[cur]} :
         \A i \in DOMAIN cooling : cooling[i].url = u => ~cooling[i].used

\* The earliest entry runs out.
CoolingEnds ==
    /\ cooling # <<>>
    /\ IF Busy THEN Event ELSE UNCHANGED events
    /\ cooling' = Tail(cooling)
    /\ tries' = [tries EXCEPT ![Head(cooling).url] = 0]
    /\ UNCHANGED <<role, alive, chain, jitter, chan, cur, act>>

-----------------------------------------------------------------------------
RelayTurns(u) ==
    /\ Event
    /\ alive' = IF u \in alive THEN alive \ {u} ELSE alive \cup {u}
    /\ UNCHANGED <<role, chain, jitter, chan, cur, cooling, act, tries>>

DirectoryChanges ==
    /\ Event
    /\ chain' \in Chains \ {chain}
    /\ UNCHANGED <<role, alive, jitter, chan, cur, cooling, act, tries>>

Checks == JudgeUnhealthy \/ LeaveUnhealthy \/ Exempt \/ LeaveShaky \/ Stay
Finishes(a) == Fails(a) \/ Succeeds(a)

Next ==
    \/ Checks \/ JudgeShaky \/ FollowDirectory \/ CoolingEnds
    \/ \E a \in Actors : Finishes(a)
    \/ \E j \in {"calm", "shaky"} : Sample(j)
    \/ \E u \in Urls : RelayTurns(u)
    \/ DirectoryChanges

Spec == Init /\ [][Next]_vars

\* The timer of the supervisor, the deadlines and the answers of open().
FairSpec ==
    /\ Spec
    /\ WF_vars(Checks) /\ WF_vars(CoolingEnds)
    /\ \A a \in Actors : WF_vars(Finishes(a))

-----------------------------------------------------------------------------
(* Properties *)

\* While a relay of the chain is up, the node ends up on a relay that is up,
\* however the cooling table was filled: it never runs out of candidates for
\* good, and a failed candidate does not block the ones after it.
FindsWay == []<>(chan[cur] \in alive \/ Range(chain) \cap alive = {})

\* The channel in use is never a closed one, also when two replacements overlap.
CurrentIsOpen == chan[cur] # None

\* A cooling url is tried at most once in a cycle, whoever asks: neither the
\* directory nor repeated checks can make it a storm of attempts.
OneTryPerCycle == \A u \in Urls : tries[u] <= 1

\* replace: "success closes the old one": no channel is open but the present one
\* and those being opened.
ChannelsClosed ==
    \A c \in Channels : chan[c] # None => c = cur \/ \E a \in Actors : act[a].new = c

\* Where only the supervisor replaces, that holds.
NodeChannelsClosed == role = "node" => ChannelsClosed
=============================================================================
