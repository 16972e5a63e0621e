------------------------------- MODULE MCPaths -------------------------------
(* How nodes find each other: whom a relay admits, which relay a node uses    *)
(* and changes to, the chain of addresses it starts from, where the Manager   *)
(* reaches a host, and the path past the relay.  One of the five runs, the    *)
(* others stay where they begin.                                              *)
EXTENDS Admission, TLC

CONSTANTS h1, None

VARIABLES part,  \* the component that runs; the others stay where they begin
          role, switcherAlive, chain, jitter, chan, cur, switcherCooling,
          act, tries, events,
          sw, addr, oneWay, posts, posted, ledger, known, probe, heard,
          packets, directCooling, verdict, count, both,
          docs, joinUp, front, cache, joinFresh, measured, todo, busy,
          result, faults,
          status, via, online, said, bound, due, life, reachAlive, reachFresh,
          mirror, snap, aged, poll, pool, hostVia, rows, dir, changes, lapses

MCChains == {<<"a", "b", "c">>, <<"b", "a">>}

\* A node knows a; a directory that names both may move the network to b.
MCByJitter == <<"a", "b">>
MCSeeds == <<"a">>
MCSeedLists == {<<"a">>, <<"a", "b">>, <<"b">>}

\* Three machines of one host name, one in ops by a line without a network; two share a
\* secret.
AdmitHost == [n \in Nodes |-> "h"]
AdmitNet == [n \in Nodes |-> IF n = "x" THEN "ops" ELSE "u5"]
AdmitDialers == {<<"u5", "h">>}
\* The root authorises s and the operator of one relay t; t once made a set of his own.
AdmitConfigs ==
    {[direct |-> {}, setFile |-> TRUE, listFile |-> TRUE],
     [direct |-> {"t"}, setFile |-> TRUE, listFile |-> TRUE],
     [direct |-> {"t"}, setFile |-> FALSE, listFile |-> FALSE]}
AdmitSigners == {[signers |-> {"s"}, rooted |-> TRUE], [signers |-> {"t"}, rooted |-> FALSE]}
AdmitLists ==
    {[network |-> "u5", hosts |-> {}, signer |-> "s"],
     [network |-> "u5", hosts |-> {"h"}, signer |-> "s"],
     [network |-> "u5", hosts |-> {"h"}, signer |-> "nobody"]}

Switch == INSTANCE PathSwitcher WITH
    Chains <- MCChains, First <- "a", Channels <- {1, 2, 3}, None <- None,
    MaxEvents <- 2, alive <- switcherAlive, cooling <- switcherCooling

\* Two nodes: the first tries twice, the second tries and moves once.
Direct == INSTANCE DirectPath WITH
    Nodes <- {"a", "b"}, Dialers <- {"a", "b"}, Configured <- {"a"},
    Attempts <- [n \in {"a", "b"} |-> IF n = "a" THEN 2 ELSE 1],
    Addresses <- [n \in {"a", "b"} |-> IF n = "a" THEN 1 ELSE 2],
    MaxPosts <- 1, cooling <- directCooling

Join == INSTANCE BootstrapChain WITH
    Hosts <- {"a", "b"}, ByJitter <- MCByJitter, Private <- "private",
    Seeds <- MCSeeds, SeedLists <- MCSeedLists, Relays <- {"b", "private"},
    Overrides <- {"b"}, MaxDocs <- 3, MaxFaults <- 2, up <- joinUp,
    fresh <- joinFresh

Reach == INSTANCE Reachability WITH
    Hosts <- {h1}, None <- None, MaxLives <- 2, MaxChanges <- 3,
    MaxLapses <- 1, alive <- reachAlive, fresh <- reachFresh

switcherVars == <<role, switcherAlive, chain, jitter, chan, cur,
                  switcherCooling, act, tries, events>>
directVars == <<sw, addr, oneWay, posts, posted, ledger, known, probe, heard,
                packets, directCooling, verdict, count, both>>
joinVars == <<docs, joinUp, front, cache, joinFresh, measured, todo, busy,
              result, faults>>
reachVars == <<status, via, online, said, bound, due, life, reachAlive, reachFresh,
               mirror, snap, aged, poll, pool, hostVia, rows, dir, changes, lapses>>

Parts == {"admit", "switcher", "direct", "join", "reach"}

allVars == <<part, vars, switcherVars, directVars, joinVars, reachVars>>

AllInit ==
  /\ part \in Parts
  /\ Init
  /\ part # "admit" => signerSet.rooted /\ required /\ revoked.hosts = {} /\ conf.direct = {}
  /\ Switch!Init
  /\ part # "switcher" => role = "node" /\ chain = <<"b", "a">>
  /\ Direct!Init
  /\ part # "direct" => oneWay = {} /\ sw["a"].env = "unset"
  /\ Join!Init
  /\ Reach!Init
  /\ part # "reach" => via = [h \in {h1} |-> "ssh"] /\ pool = "none" /\ status

AllNext ==
  \/ /\ part = "admit" /\ Next
     /\ UNCHANGED <<part, switcherVars, directVars, joinVars, reachVars>>
  \/ /\ part = "switcher" /\ Switch!Next
     /\ UNCHANGED <<part, vars, directVars, joinVars, reachVars>>
  \/ /\ part = "direct" /\ Direct!Next
     /\ UNCHANGED <<part, vars, switcherVars, joinVars, reachVars>>
  \/ /\ part = "join" /\ Join!Next
     /\ UNCHANGED <<part, vars, switcherVars, directVars, reachVars>>
  \/ /\ part = "reach" /\ Reach!Next
     /\ UNCHANGED <<part, vars, switcherVars, directVars, joinVars>>

AllSpec == AllInit /\ [][AllNext]_allVars

\* The fairness of each component.
AllFair ==
  /\ AllSpec
  /\ WF_switcherVars(part = "switcher" /\ Switch!Checks)
  /\ WF_switcherVars(part = "switcher" /\ Switch!CoolingEnds)
  /\ \A a \in Switch!Actors : WF_switcherVars(part = "switcher" /\ Switch!Finishes(a))
  /\ \A n \in {"a", "b"} : WF_directVars(part = "direct" /\ Direct!Round(n))
  /\ \A n \in {"a", "b"} : WF_directVars(part = "direct" /\ Direct!Deadline(n))
  /\ WF_joinVars(part = "join" /\ Join!Resolve)
  /\ WF_joinVars(part = "join" /\ Join!Expires)
  /\ WF_joinVars(part = "join" /\ Join!Asks)
  /\ \A h \in {h1} : WF_reachVars(part = "reach" /\ Reach!Binds(h))
  /\ \A h \in {h1} : WF_reachVars(part = "reach" /\ Reach!GivenUp(h))
  /\ WF_reachVars(part = "reach" /\ Reach!Pushed)
  /\ WF_reachVars(part = "reach" /\ Reach!Subscribes)
  /\ WF_reachVars(part = "reach" /\ Reach!RelayStarts)
  /\ SF_reachVars(part = "reach" /\ Reach!Poll)
  /\ WF_reachVars(part = "reach" /\ Reach!Polled)
  /\ WF_reachVars(part = "reach" /\ Reach!PollFails)
  /\ WF_reachVars(part = "reach" /\ Reach!ReadTable)
  /\ WF_reachVars(part = "reach" /\ Reach!Apply)
  /\ WF_reachVars(part = "reach" /\ Reach!Ages)

-----------------------------------------------------------------------------
ASSUME AdmitConstants == AdmissionAssumption
ASSUME SeedConstants == Join!SeedAssumption
ASSUME ReachConstants == Reach!ReachAssumption
ASSUME FirstIsUrl == Switch!SwitcherAssumption

\* Changing relays (switcher.ts): the channel in use is never a closed one,
\* whichever replacements overlap; a failed url is tried at most once in a cycle;
\* where only the supervisor replaces, no channel is left open; and while a relay
\* of the chain is up, the node ends up on one that is.
SwitcherFinds ==
  /\ [](part = "switcher" => Switch!TypeOK /\ Switch!CurrentIsOpen /\ Switch!OneTryPerCycle
                             /\ Switch!NodeChannelsClosed)
  /\ Switch!FindsWay

\* Finding the network (directory.ts): only addresses of
\* a signed directory or a seed are dialled, a node with a valid directory does
\* not fall back to its seeds, and whatever directories follow each other it
\* comes to use the one in force.
JoinFollows ==
  /\ [](part = "join" => Join!TypeOK /\ Join!SignedOnly)
  /\ Join!JoinedStaysJoined
  /\ []<>(part # "join" \/ Join!UpToDate)

\* Where a host is reached (reachability.ts, rendezvous.ts, endpoint-target.ts): an
\* instance behind the relay is never dialled at its own address, nor is its agent where
\* there is a way to the relay; a pushed address is current; hosts that stay online are
\* reached in the end, and those the relay says stay away withdrawn.
Reaches ==
  /\ [](part = "reach" => Reach!TypeOK /\ Reach!RelayHostsFailClosed /\ Reach!PushedIsCurrent)
  /\ Reach!OnlineReached /\ Reach!OfflineUnrouted

\* The path past the relay (direct/index.ts, punch.ts): it counts only when it works in
\* both directions, a peer cools only because a probe found it dead, and every
\* probe ends.
DirectHonest ==
  /\ [](part = "direct" => Direct!TypeOK /\ Direct!OkIsBothWays /\ Direct!CoolingMeansDeath)
  /\ Direct!ProbeEnds

=============================================================================
