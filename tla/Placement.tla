------------------------------ MODULE Placement ------------------------------
(* Choosing the node to join (src/src/net/relay/placement.ts): candidates    *)
(* are scored by speed and load, a full one is out, and a node asked for by  *)
(* name is never replaced by another.  Scores are in hundredths.             *)
EXTENDS Integers, Sequences, FiniteSetsExt

CONSTANTS Ids,      \* the nodes, in the order they are given
          Rtts,     \* round-trip times in ms
          Loads,    \* capacities [max, used]; max = 0 is no limit
          Failures, Weights, NoNode

ASSUME RangesAssumption ==
  /\ Len(Ids) \in Nat \ {0} /\ DOMAIN Ids = 1..Len(Ids)
  /\ \A i \in 1..Len(Ids) : Ids[i] # NoNode
  /\ NoNode \notin Nat
  /\ Rtts \subseteq Nat /\ Failures \subseteq Nat /\ Weights \subseteq Nat \ {0}
  /\ Loads \subseteq [max : Nat, used : Nat]

VARIABLES offered,   \* how many of the nodes are candidates now: it may be none
          seen,      \* node -> what is known of it
          asked,     \* the node asked for by name, or NoNode
          queues,    \* may the choice be to wait
          decision   \* the last decision, or NoNode

choiceVars == <<offered, seen, asked, queues, decision>>

Nodes == {Ids[i] : i \in 1..Len(Ids)}
Candidates == {Ids[i] : i \in 1..offered}
Profile == [rtt : Rtts \cup {NoNode}, load : Loads, failures : Failures,
            weight : Weights]
Decision == [outcome : {"chosen", "queued", "rejected"}, node : Nodes \cup {NoNode}]

ChoiceTypeOK ==
  /\ offered \in 0..Len(Ids) /\ seen \in [Nodes -> Profile] /\ asked \in Nodes \cup {NoNode}
  /\ queues \in BOOLEAN /\ decision \in Decision \cup {NoNode}
  /\ decision # NoNode => (decision.outcome = "chosen" <=> decision.node # NoNode)

HalfMs == 50
AssumedMs == 120

Speed(c) == LET rtt == IF seen[c].rtt = NoNode THEN AssumedMs ELSE seen[c].rtt
            IN  (100 * HalfMs) \div (HalfMs + rtt)

Limited(c) == seen[c].load.max > 0
Full(c) == Limited(c) /\ seen[c].load.used >= seen[c].load.max

\* Math.round of the free share in per cent; an unknown load is half.
Load(c) == IF ~Limited(c) THEN 50
           ELSE IF Full(c) THEN 0
           ELSE (200 * (seen[c].load.max - seen[c].load.used) + seen[c].load.max)
                  \div (2 * seen[c].load.max)

\* Mutant: failures count for the candidate.
ScoreForgiving(c) ==
  seen[c].weight * (55 * Speed(c) + 45 * Load(c)) + 1500 * seen[c].failures
Score(c) == seen[c].weight * (55 * Speed(c) + 45 * Load(c)) - 1500 * seen[c].failures

(* The first of the best; full ones are behind all others.                   *)
Index(c) == CHOOSE i \in 1..Len(Ids) : Ids[i] = c
Ahead(c, d) == \/ ~Full(c) /\ Full(d)
               \/ /\ Full(c) = Full(d)
                  /\ \/ Score(c) > Score(d) /\ ~Full(c)
                     \/ (Full(c) \/ Score(c) = Score(d)) /\ Index(c) < Index(d)
Best == CHOOSE c \in Candidates : \A d \in Candidates \ {c} : Ahead(c, d)

Chosen(c) == [outcome |-> "chosen", node |-> c]
NoPlace == [outcome |-> IF queues THEN "queued" ELSE "rejected", node |-> NoNode]

Rejected == [outcome |-> "rejected", node |-> NoNode]

\* There is no candidate, or the one asked for is not among them.
Unknown == offered = 0 \/ asked \notin Candidates \cup {NoNode}

Choose == LET c == IF asked = NoNode THEN Best ELSE asked
          IN  IF Unknown THEN Rejected ELSE IF Full(c) THEN NoPlace ELSE Chosen(c)

ChoiceInit ==
  /\ offered \in 0..Len(Ids) /\ seen \in [Nodes -> Profile]
  /\ asked \in Nodes \cup {NoNode} /\ queues \in BOOLEAN
  /\ decision = NoNode

ChooseNode == /\ decision' = Choose
              /\ UNCHANGED <<offered, seen, asked, queues>>

ChoiceNext == ChooseNode
ChoiceSpec == ChoiceInit /\ [][ChoiceNext]_choiceVars

-----------------------------------------------------------------------------
(* A node whose places are all taken is never joined (placement.ts:12, the   *)
(* one hard rule).                                                           *)
Joined == IF decision = NoNode THEN NoNode ELSE decision.node
FullNeverJoined ==
  \A c \in Candidates : seen[c].load.max > 0 /\ seen[c].load.used >= seen[c].load.max
                           => Joined # c

(* A node asked for by name is joined or nothing is (placement.ts:10), and   *)
(* never one that is no candidate.                                           *)
AskedOrNothing ==
  /\ asked # NoNode => Joined \in {asked, NoNode}
  /\ Joined \in Candidates \cup {NoNode}

(* No candidate that is worse in speed, load and failures, and better in     *)
(* none, is taken before a better one: the roundings never turn the order.   *)
Beats(c, d) ==
  /\ ~Full(c) /\ seen[c].rtt # NoNode /\ seen[d].rtt # NoNode /\ seen[c].rtt <= seen[d].rtt
  /\ Limited(c) /\ Limited(d)
  /\ seen[c].load.used * seen[d].load.max <= seen[d].load.used * seen[c].load.max
  /\ seen[c].failures < seen[d].failures /\ seen[c].weight >= seen[d].weight
NotBeaten ==
  asked = NoNode /\ Joined # NoNode => \A c \in Candidates : ~Beats(c, Joined)

(* The choice of a node (placement.ts): never a full one, never another than *)
(* the one asked for, never a worse one.                                     *)
PlacementFair == ChoiceTypeOK /\ FullNeverJoined /\ AskedOrNothing /\ NotBeaten
=============================================================================
