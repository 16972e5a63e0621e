------------------------------ MODULE MCCluster ------------------------------
(* The Managers over two hosts, as the configuration gives them: orderly, or    *)
(* with late requests, expiring leases and operations that overlap; and one     *)
(* Manager whose agents, and which itself, may restart.  One of the two runs,   *)
(* the other stays where it is.                                                 *)
EXTENDS LeasedCluster, TLC

CONSTANTS m1, m2, h1,
          Parts  \* which of the two, "given" and "restarts", a configuration runs

VARIABLES part,  \* the component that runs; the others stay where they begin
          againRow, againHeld, againLost, againOps, againNet, againFences,
          againAgents

ManagerSymmetry == Permutations(Managers)

Restarts == INSTANCE LeasedCluster WITH
    Managers <- {m1}, MaxOps <- 2, Serial <- TRUE,
    Faults <- {"timeout", "agent", "manager"},
    row <- againRow, held <- againHeld, lost <- againLost, ops <- againOps,
    net <- againNet, fences <- againFences, agents <- againAgents

againVars == <<againRow, againHeld, againLost, againOps, againNet,
               againFences, againAgents>>

allVars == <<part, vars, againVars>>

AllInit ==
  /\ part \in Parts
  /\ Init
  /\ Restarts!Init

AllNext ==
  \/ part = "given" /\ Next /\ UNCHANGED <<part, againVars>>
  \/ part = "restarts" /\ Restarts!Next /\ UNCHANGED <<part, vars>>

AllSpec == AllInit /\ [][AllNext]_allVars

\* The fairness of LeasedCluster's FairSpec.
FairAllSpec ==
  /\ AllSpec
  /\ \A o \in 1..2 : WF_againVars(part = "restarts" /\ Restarts!OpStep(o))

-----------------------------------------------------------------------------
\* Every operation of the Manager ends, with a lost answer at every try, agents
\* that restart in the middle of a launch, and Managers that do.
OperationsEndAnyway == Restarts!OperationsEnd
=============================================================================
