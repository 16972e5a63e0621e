------------------------------- MODULE Skills -------------------------------
(* Installing, enabling, disabling and deleting skills                       *)
(* (src/src/web/routes/skills.ts), for one skill name.  A place is the       *)
(* shared layer, or a user's enabled or disabled directory; it is empty or   *)
(* holds the files of one upload, all of them or what a removal left.  A     *)
(* request runs its checks in one turn of the event loop and then awaits its *)
(* removals and its rename, between which other requests run.                *)
EXTENDS Naturals, Sequences, FiniteSets

CONSTANTS Owners, Zips, Calls, Void, Shared

VARIABLES dir,      \* place -> Void or [zip, whole]
          stage,    \* upload -> "unused", "fresh", "stale", "torn", "gone"
          job       \* call -> what the request in it still has to do, or Void

skillsVars == <<dir, stage, job>>

Enabled(u) == <<u, "skills">>
Library(u) == <<u, "library">>
Places == {Shared} \cup (Owners \X {"skills", "library"})
Scopes == {Shared} \cup Owners
Root(scope) == IF scope = Shared THEN Shared ELSE Enabled(scope)

Content == [zip : Zips, whole : BOOLEAN]
Jobs == [op : {"upload", "apply", "enable", "disable", "delete"},
         rm : {<<>>} \cup {<<p>> : p \in Places} \cup {<<p, q>> : p, q \in Places},
         from : Places \cup Zips \cup {Void}, to : Places \cup {Void}]

(* A place, an upload and nothing are told apart.                            *)
ASSUME PlacesAssumption ==
  /\ Shared \notin Owners \X {"skills", "library"} /\ Shared \notin Owners
  /\ Zips \cap Places = {} /\ Void \notin Places \cup Zips
  /\ Void \notin Content /\ Void \notin Jobs

SkillsTypeOK ==
  /\ dir \in [Places -> Content \cup {Void}]
  /\ stage \in [Zips -> {"unused", "fresh", "stale", "torn", "gone"}]
  /\ job \in [Calls -> Jobs \cup {Void}]
  /\ \A r \in Calls : job[r] # Void =>
       IF job[r].op = "delete" THEN job[r].rm # <<>> ELSE job[r].to # Void

SkillsInit ==
  /\ dir = [p \in Places |-> Void]
  /\ stage = [z \in Zips |-> "unused"]
  /\ job = [r \in Calls |-> Void]

Present(p) == dir[p] # Void
Staged(z) == stage[z] \in {"fresh", "stale", "torn"}
NotShared(u) == ~Present(Shared)
Found(p) == IF Present(p) THEN <<p>> ELSE <<>>

(* The upload dirs that outlived their ten minutes start being removed, and  *)
(* nobody waits for that.                                                    *)
Collected == [z \in Zips |-> IF stage[z] = "stale" THEN "torn" ELSE stage[z]]

(* The rest of applyStaged: remove what is at the target, rename the staged  *)
(* directory there.                                                          *)
Replace(op, z, p) ==
  [op |-> op, rm |-> Found(p), from |-> z, to |-> p]

-----------------------------------------------------------------------------
\* Mutant: a skill of the same name is replaced without asking.
UploadReplacing(r, scope, z) ==
  /\ job[r] = Void /\ stage[z] = "unused"
  /\ scope # Shared => NotShared(scope)
  /\ stage' = [Collected EXCEPT ![z] = "fresh"]
  /\ job' = [job EXCEPT ![r] = Replace("upload", z, Root(scope))]
  /\ UNCHANGED dir

(* POST a zip.  One that does not validate leaves nothing; a user's is       *)
(* refused under a shared name; a skill of that name is left alone until the *)
(* user confirms, and else the zip is installed at once.                     *)
Upload(r, scope, z) ==
  /\ job[r] = Void /\ stage[z] = "unused"
  /\ \/ /\ stage' = [Collected EXCEPT ![z] = "gone"]
        /\ UNCHANGED job
     \/ /\ scope # Shared /\ ~NotShared(scope)
        /\ stage' = [Collected EXCEPT ![z] = "torn"]
        /\ UNCHANGED job
     \/ /\ scope # Shared => NotShared(scope)
        /\ stage' = [Collected EXCEPT ![z] = "fresh"]
        /\ job' = IF Present(Root(scope)) THEN job
                  ELSE [job EXCEPT ![r] = Replace("upload", z, Root(scope))]
  /\ UNCHANGED dir

(* POST apply: any staged upload that is still there, whoever made it.       *)
Apply(r, scope, z) ==
  /\ job[r] = Void /\ Staged(z)
  /\ job' = [job EXCEPT ![r] = Replace("apply", z, Root(scope))]
  /\ UNCHANGED <<dir, stage>>

Enable(r, u) ==
  /\ job[r] = Void /\ NotShared(u)
  /\ Present(Library(u)) /\ ~Present(Enabled(u))
  /\ job' = [job EXCEPT ![r] = [op |-> "enable", rm |-> <<>>,
                                from |-> Library(u), to |-> Enabled(u)]]
  /\ UNCHANGED <<dir, stage>>

Disable(r, u) ==
  /\ job[r] = Void /\ NotShared(u) /\ Present(Enabled(u))
  /\ job' = [job EXCEPT ![r] =
       [op |-> "disable", rm |-> Found(Library(u)),
        from |-> Enabled(u), to |-> Library(u)]]
  /\ UNCHANGED <<dir, stage>>

(* DELETE: a user's copy in both directories, the ones present when asked.   *)
Delete(r, u) ==
  /\ job[r] = Void /\ NotShared(u)
  /\ \E p \in {Enabled(u), Library(u)} : Present(p)
  /\ job' = [job EXCEPT ![r] =
       [op |-> "delete", rm |-> Found(Enabled(u)) \o Found(Library(u)),
        from |-> Void, to |-> Void]]
  /\ UNCHANGED <<dir, stage>>

DeleteShared(r) ==
  /\ job[r] = Void /\ Present(Shared)
  /\ job' = [job EXCEPT ![r] = [op |-> "delete", rm |-> <<Shared>>,
                                from |-> Void, to |-> Void]]
  /\ UNCHANGED <<dir, stage>>

-----------------------------------------------------------------------------
(* The upload dir a request used goes whether it succeeded or not.           *)
Ended(r) ==
  /\ job' = [job EXCEPT ![r] = Void]
  /\ stage' = [z \in Zips |-> IF z = job[r].from /\ Staged(z) THEN "torn" ELSE stage[z]]

(* A removal takes the files away one by one.                                *)
Tears(r) ==
  /\ job[r] # Void /\ job[r].rm # <<>>
  /\ LET p == Head(job[r].rm) IN
       /\ Present(p) /\ dir[p].whole
       /\ dir' = [dir EXCEPT ![p].whole = FALSE]
  /\ UNCHANGED <<stage, job>>

(* It ends with the directory that is at its path by then, which need not be *)
(* the one it began with.                                                    *)
Removed(r) ==
  /\ job[r] # Void /\ job[r].rm # <<>>
  /\ dir' = [dir EXCEPT ![Head(job[r].rm)] = Void]
  /\ IF Len(job[r].rm) = 1 /\ job[r].to = Void
     THEN Ended(r)
     ELSE job' = [job EXCEPT ![r].rm = Tail(@)] /\ UNCHANGED stage

Fails(r) ==
  /\ job[r] # Void
  /\ Ended(r)
  /\ UNCHANGED dir

(* The rename needs its source, and a target that is empty.                  *)
Source(x) == IF x \in Zips
             THEN IF Staged(x) THEN [zip |-> x, whole |-> stage[x] # "torn"] ELSE Void
             ELSE dir[x]
Free(p) == Present(p) => ~dir[p].whole

MovedOut(r) ==
  IF job[r].from \in Zips THEN [stage EXCEPT ![job[r].from] = "gone"] ELSE stage

Renames(r) ==
  /\ job[r] # Void /\ job[r].rm = <<>>
  /\ LET from == job[r].from  to == job[r].to IN
       /\ Source(from) # Void /\ Free(to)
       /\ dir' = [p \in Places |-> IF p = to THEN Source(from)
                                   ELSE IF p = from THEN Void ELSE dir[p]]
  /\ stage' = MovedOut(r)
  /\ job' = [job EXCEPT ![r] = Void]

Ages(z) == /\ stage[z] = "fresh"
           /\ stage' = [stage EXCEPT ![z] = "stale"]
           /\ UNCHANGED <<dir, job>>
Cleaned(z) == /\ stage[z] = "torn"
              /\ stage' = [stage EXCEPT ![z] = "gone"]
              /\ UNCHANGED <<dir, job>>
Crash == /\ \E r \in Calls : job[r] # Void
         /\ job' = [r \in Calls |-> Void]
         /\ UNCHANGED <<dir, stage>>

SkillsNext ==
  \/ \E r \in Calls :
       \/ \E s \in Scopes, z \in Zips : Upload(r, s, z) \/ Apply(r, s, z)
       \/ \E u \in Owners : Enable(r, u) \/ Disable(r, u) \/ Delete(r, u)
       \/ DeleteShared(r) \/ Tears(r) \/ Removed(r) \/ Fails(r) \/ Renames(r)
  \/ \E z \in Zips : Ages(z) \/ Cleaned(z)
  \/ Crash

SkillsSpec == SkillsInit /\ [][SkillsNext]_skillsVars

-----------------------------------------------------------------------------
(* One upload is installed in one place at most, whoever applies it and      *)
(* however often (skills.ts: the staged directory is renamed into place).    *)
OnePlacePerUpload ==
  \A p, q \in Places : Present(p) /\ Present(q) /\ dir[p].zip = dir[q].zip => p = q

(* GET mine: the shared skill, the user's enabled and disabled ones.         *)
Listed(u) == {p \in {Shared, Enabled(u), Library(u)} : Present(p)}

(* No skill a user sees listed disappears, or becomes another upload's, by   *)
(* uploads alone: it takes a confirmation, a disabling or a deletion that    *)
(* names its place (skills.ts:20 "nothing is touched yet").                  *)
Involves(r, p) == job[r] # Void /\ job[r].op # "upload" /\ p \in {job[r].from, job[r].to}
                                  \cup {job[r].rm[i] : i \in 1..Len(job[r].rm)}
UploadTouchesNothing ==
  [][\A u \in Owners : \A p \in Listed(u) :
       dir[p].whole /\ dir'[p] # dir[p] => \E r \in Calls : Involves(r, p)]_skillsVars

(* An upload that waits for its confirmation stays whole for its ten         *)
(* minutes, whatever other uploads collect (skills.ts, collectStaleStages).  *)
OfferStands ==
  [][\A z \in Zips : stage[z] = "fresh" /\ (\A r \in Calls : job[r] = Void \/ job[r].from # z)
       => stage'[z] \in {"fresh", "stale"}]_skillsVars

(* Skill uploads (skills.ts): one place each, nothing listed goes by an      *)
(* upload alone, and one that waits for its confirmation stays whole.        *)
SkillsKept ==
  [](SkillsTypeOK /\ OnePlacePerUpload) /\ UploadTouchesNothing /\ OfferStands
=============================================================================
