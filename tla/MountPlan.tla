------------------------------ MODULE MountPlan ------------------------------
(* The file system an instance sees (spawnAsUser in                          *)
(* src/src/supervisor/orchestrator.ts): bwrap makes the mounts in the order  *)
(* of its arguments, over a root that is empty at first.  A path is the      *)
(* sequence of its names; a mount is a bind of the host's directory at that  *)
(* path or an empty tmpfs, and hides what was mounted below it.              *)
EXTENDS Naturals, SequencesExt

CONSTANTS Roots,     \* where the user's directory may be
          SkillDirs, \* where the shared skills may be; <<>> when there are none
          Allow,     \* the files and directories of /etc that are shown
          Profiles   \* the user's files, below its root, that are read-only

VARIABLES root, skills, plan, made

vars == <<root, skills, plan, made>>

Bind(p) == [kind |-> "bind", dest |-> p]
Tmpfs(p) == [kind |-> "tmpfs", dest |-> p]
Below(p, q) == IsPrefix(q, p)

TypeOK == /\ root \in Roots /\ skills \in SkillDirs
          /\ made \in 0..Len(plan)
          /\ \A i \in 1..Len(plan) : plan[i].kind \in {"bind", "tmpfs"}
          /\ \A i, j \in 1..Len(plan) : plan[i] = plan[j] => i = j

\* From the outside in.
Each(paths, mount(_)) ==
  LET sorted == SetToSortSeq(paths, LAMBDA p, q : Len(p) < Len(q))
  IN  [i \in 1..Len(sorted) |-> mount(sorted[i])]

(* mountParentDirList: the directories between stop and dest.                *)
Parents(dest, stop) == {SubSeq(dest, 1, n) : n \in Len(stop) + 1 .. Len(dest) - 1}

System == <<Bind(<<"usr">>), Bind(<<"lib64">>), Tmpfs(<<"etc">>)>>

(* The parents of what is shown of /etc, and what of it this host has.       *)
Etc(present) ==
  Each(UNION {Parents(p, <<"etc">>) : p \in Allow}, Tmpfs) \o Each(present, Bind)

SkillMount(sd) == IF sd = <<>> THEN <<>> ELSE <<Bind(sd)>>

User(r) == <<Bind(<<"dev">>), Bind(<<"proc">>), Bind(<<"tmp">>), Bind(r)>>

\* Mutant: every directory gets its parents just before its own mount.
DataNearby(r, sd) ==
  Each(Parents(r, <<>>), Tmpfs) \o User(r)
    \o (IF sd = <<>> THEN <<>> ELSE Each(Parents(sd, <<>>), Tmpfs)) \o SkillMount(sd)

(* All parents first, each once, and then the mounts.                        *)
Data(r, sd) ==
  Each(UNION {Parents(d, <<>>) : d \in {r, sd} \ {<<>>}}, Tmpfs) \o User(r) \o SkillMount(sd)

Plan(r, sd, present) ==
  System \o Etc(present) \o Data(r, sd) \o Each({r \o p : p \in Profiles}, Bind)

Init == /\ root \in Roots /\ skills \in SkillDirs
        /\ \E present \in SUBSET Allow : plan = Plan(root, skills, present)
        /\ made = 0

Mounts == /\ made < Len(plan)
          /\ made' = made + 1
          /\ UNCHANGED <<root, skills, plan>>

Next == Mounts
Spec == Init /\ [][Next]_vars

-----------------------------------------------------------------------------
(* No mount hides a bind that is already made (the comment on the parents:   *)
(* a tmpfs over a common ancestor once hid the user's whole directory).      *)
HidesNothing ==
  [][\A i \in 1..made : plan[i].kind = "bind" => ~Below(plan[i].dest, plan[made'].dest)]_vars

(* Every directory above a bind was mounted or belongs to a mounted host     *)
(* directory, so that the instance's user may walk through it.               *)
Walkable(p) == \E i \in 1..made : \/ plan[i].dest = p
                                  \/ plan[i].kind = "bind" /\ Below(p, plan[i].dest)
Reachable == \A i \in 1..made : \A p \in Parents(plan[i].dest, <<>>) : Walkable(p)

(* Beside the user's own directory no other user's is seen: the last mount   *)
(* at or above it is an empty one.                                           *)
Other(r) == [r EXCEPT ![Len(r)] = "other"]
OthersHidden ==
  LET above == {i \in 1..made : Below(Other(root), plan[i].dest)} IN
    above # {} => plan[CHOOSE i \in above : \A j \in above : j <= i].kind = "tmpfs"
=============================================================================
