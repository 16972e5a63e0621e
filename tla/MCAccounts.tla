----------------------------- MODULE MCAccounts ------------------------------
(* Who may do what: machines that enrol, users that register, are approved and  *)
(* log in, and the models, skills, plugins and nodes they are given.  One of    *)
(* the seven runs, the others stay where they begin.                            *)
EXTENDS Enrolment, EmailCodes, Whitelist, Placement, Accounts, Skills,
        ModelLanding, TLC

CONSTANTS z1, z2

VARIABLE part  \* the component that runs; the others stay where they begin

\* Two machines, in two networks, and two invitations to the first network beside
\* a forged one to the second.
EnrolName == [m \in Machines |-> IF m = "a" THEN "ops/h" ELSE "u5/h"]
EnrolNet == [n \in Names |-> IF n = "ops/h" THEN "ops" ELSE "u5"]
EnrolInvite == [i \in Nonces |-> IF i = "i3" THEN "u5" ELSE "ops"]
EnrolEnv == [m \in Machines |-> IF m = "a" THEN "unset" ELSE "bad"]

\* Two routes whose names give one credential.
ModelRef == [s \in {"builtin", "a", "b"} |-> IF s = "builtin" THEN "B" ELSE "A"]

CodesLadder == <<1, 1, 2>>

\* A plugin for which version 1 of the platform is too old, 2 is in a gap of what is
\* allowed, and 3 is right.
PluginRanges ==
  <<{[has |-> {1}, allows |-> {2}], [has |-> {1, 2, 3}, allows |-> {0, 3}]}>>

PlacementIds == <<1, 2>>
PlacementLoads == {[max |-> 0, used |-> 0], [max |-> 3, used |-> 0],
                   [max |-> 3, used |-> 2], [max |-> 3, used |-> 3]}

Parts == {"enrol", "codes", "plugins", "nodes", "users", "models", "skills"}

allVars == <<part, vars, codesVars, catalogueVars, choiceVars, accountsVars, landingVars, skillsVars>>

AllInit ==
  /\ part \in Parts
  /\ Init
  /\ CodesInit
  /\ CatalogueInit
  /\ IF part = "nodes" THEN ChoiceInit
     ELSE /\ offered = 2
          /\ seen = [c \in {1, 2} |-> [rtt |-> 0, load |-> [max |-> 0, used |-> 0], failures |-> 0,
                                       weight |-> 1]]
          /\ asked = NoNode /\ queues = TRUE /\ decision = NoNode
  /\ AccountsInit
  /\ LandingInit
  /\ SkillsInit

AllNext ==
  \/ /\ part = "enrol" /\ Next
     /\ UNCHANGED <<part, codesVars, catalogueVars, choiceVars, accountsVars,
                          landingVars, skillsVars>>
  \/ /\ part = "codes" /\ CodesNext
     /\ UNCHANGED <<part, vars, catalogueVars, choiceVars, accountsVars, landingVars,
                          skillsVars>>
  \/ /\ part = "plugins" /\ CatalogueNext
     /\ UNCHANGED <<part, vars, codesVars, choiceVars, accountsVars, landingVars,
                          skillsVars>>
  \/ /\ part = "nodes" /\ ChoiceNext
     /\ UNCHANGED <<part, vars, codesVars, catalogueVars, accountsVars, landingVars,
                          skillsVars>>
  \/ /\ part = "users" /\ AccountsNext
     /\ UNCHANGED <<part, vars, codesVars, catalogueVars, choiceVars, landingVars,
                          skillsVars>>
  \/ /\ part = "models" /\ LandingNext
     /\ UNCHANGED <<part, vars, codesVars, catalogueVars, choiceVars, accountsVars,
                          skillsVars>>
  \/ /\ part = "skills" /\ SkillsNext
     /\ UNCHANGED <<part, vars, codesVars, catalogueVars, choiceVars, accountsVars,
                          landingVars>>

AllSpec == AllInit /\ [][AllNext]_allVars

=============================================================================
