----------------------------- MODULE Whitelist -----------------------------
(* The official plugin catalogue in the portal                               *)
(* (src/src/web/routes/whitelist.ts, src/src/web/plugin-dsh-compat.ts): the  *)
(* cached index, the cached verdicts about the platform's version that list  *)
(* requests and one background warm-up fill side by side, and the import of  *)
(* the chosen plugins one after the other.                                   *)
EXTENDS Naturals, Sequences

CONSTANTS Plugins, Slots, Warm, Nil,
          Declares,    \* plugin -> its declarations: the versions of the platform that have
                       \* the package, and those its range allows (one not readable: none)
          MaxVersion   \* bound: the last version of the platform

ASSUME DeclaresAssumption ==
  /\ Declares \in [Plugins -> SUBSET [has : SUBSET Nat, allows : SUBSET Nat]]
  /\ MaxVersion \in Nat \ {0} /\ Warm \notin Slots

VARIABLES platform,  \* the platform's version
          index,     \* the index file: "none", "fresh", "old", or "foreign"
          mem,       \* plugin -> its verdict in memory, or Nil
          file,      \* the same on disk
          warmed,    \* has this process started its warm-up
          inSlot,    \* slot -> the list request or import in it, or Nil
          batch,     \* slot or Warm -> what it still judges, or Nil
          shelf      \* plugin -> the grade of its scan when it was put there, or Nil

catalogueVars == <<platform, index, mem, file, warmed, inSlot, batch, shelf>>

Kinds == {"match", "none", "newer", "older", "unknown"}
Verdict == [kind : Kinds, fresh : BOOLEAN]
Grades == {"clean", "p0", "incompatible"}
Request == [op : {"list", "refresh", "import"}, cached : {"none", "old", "fresh"},
             pc : {"index", "go", "put"}, left : Seq(Plugins), grade : Grades]
Batches == [left : SUBSET Plugins, asking : SUBSET Plugins,
            out : [Plugins -> Kinds \cup {Nil}]]

ASSUME NilAssumption == Nil \notin Request /\ Nil \notin Kinds

CatalogueTypeOK ==
  /\ platform \in 1..MaxVersion
  /\ index \in {"none", "fresh", "old", "foreign"}
  /\ mem \in [Plugins -> Verdict \cup {Nil}]
  /\ file \in [Plugins -> Verdict \cup {Nil}]
  /\ warmed \in BOOLEAN
  /\ inSlot \in [Slots -> Request \cup {Nil}]
  /\ batch \in [Slots \cup {Warm} -> Batches \cup {Nil}]
  /\ shelf \in [Plugins -> Grades \cup {Nil}]
  /\ \A r \in Slots : batch[r] # Nil => inSlot[r] # Nil /\ inSlot[r].op = "list"

\* An index file of an older release may be there.
CatalogueInit ==
  /\ platform = 1 /\ index \in {"none", "foreign"}
  /\ mem = [p \in Plugins |-> Nil] /\ file = mem
  /\ warmed = FALSE
  /\ inSlot = [r \in Slots |-> Nil]
  /\ batch = [b \in Slots \cup {Warm} |-> Nil]
  /\ shelf = [p \in Plugins |-> Nil]

(* A declaration is unmet by a version that has the package and is not       *)
(* allowed; it asks for a newer one when all it allows are newer.            *)
Unmet(d, v) == v \in d.has /\ v \notin d.allows
AsksNewer(d, v) == d.allows # {} /\ \A w \in d.allows : v < w

(* What a plugin's declarations say of version v: one that asks for more     *)
(* outranks one that is unmet otherwise; one whose package the platform does *)
(* not have says nothing.                                                    *)
Judged(p, v) ==
  LET unmet == {d \in Declares[p] : Unmet(d, v)} IN
  IF Declares[p] = {} THEN "none"
  ELSE IF \E d \in unmet : AsksNewer(d, v) THEN "newer"
  ELSE IF unmet # {} THEN "older"
  ELSE IF \E d \in Declares[p] : v \in d.has THEN "match" ELSE "unknown"

\* Mutant: a lookup that failed counts as a plugin for older platforms.
LookupFailedHides == "older"
(* A lookup that failed says nothing.                                        *)
LookupFailed == "unknown"

-----------------------------------------------------------------------------
(* A file of another version counts as none.                                 *)
ReadCache == IF index = "foreign" THEN "none" ELSE index

Judging ==
  [left |-> Plugins, asking |-> {}, out |-> [p \in Plugins |-> Nil]]

(* A fresh cache is used, but not by a refresh.                              *)
FromCache(r) == inSlot[r].cached = "fresh" /\ inSlot[r].op # "refresh"

(* With the index at hand a list request starts the process's one warm-up    *)
(* and its own batch, within its budget.                                     *)
Goes(r) ==
  /\ inSlot' = [inSlot EXCEPT ![r] = IF @.op = "refresh" THEN Nil
                                ELSE [@ EXCEPT !.pc = "go"]]
  /\ batch' = [b \in DOMAIN batch |->
                 IF \/ b = r /\ inSlot[r].op = "list"
                    \/ b = Warm /\ ~warmed /\ inSlot[r].op # "import"
                 THEN Judging ELSE batch[b]]
  /\ warmed' = (warmed \/ inSlot[r].op # "import")

\* Two names, perhaps the same.
ChosenNames == [1..2 -> Plugins]
Arrives(r) ==
  /\ inSlot[r] = Nil
  /\ \E op \in {"list", "refresh", "import"}, names \in ChosenNames :
       inSlot' = [inSlot EXCEPT ![r] =
         [op |-> op, cached |-> ReadCache, pc |-> "index",
          left |-> IF op = "import" THEN names ELSE <<>>,
          grade |-> "clean"]]
  /\ UNCHANGED <<platform, index, mem, file, warmed, batch, shelf>>

UsesCache(r) ==
  /\ inSlot[r] # Nil /\ inSlot[r].pc = "index" /\ FromCache(r)
  /\ Goes(r)
  /\ UNCHANGED <<platform, index, mem, file, shelf>>

Fetched(r) ==
  /\ inSlot[r] # Nil /\ inSlot[r].pc = "index" /\ ~FromCache(r)
  /\ index' = "fresh"
  /\ Goes(r)
  /\ UNCHANGED <<platform, mem, file, shelf>>

FetchFailed(r) ==
  /\ inSlot[r] # Nil /\ inSlot[r].pc = "index" /\ ~FromCache(r)
  /\ IF inSlot[r].cached = "none"
     THEN /\ inSlot' = [inSlot EXCEPT ![r] = Nil]
          /\ UNCHANGED <<batch, warmed>>
     ELSE Goes(r)
  /\ UNCHANGED <<platform, index, mem, file, shelf>>

-----------------------------------------------------------------------------
(* A worker takes the next entry: an unexpired verdict answers it, else the  *)
(* registry is asked.                                                        *)
Known(p) == mem[p] # Nil /\ mem[p].fresh

TakesEntry(b, p) ==
  /\ batch[b] # Nil /\ p \in batch[b].left
  /\ batch' = [batch EXCEPT ![b] =
       [left |-> batch[b].left \ {p},
        asking |-> batch[b].asking \cup (IF Known(p) THEN {} ELSE {p}),
        out |-> IF Known(p) THEN [batch[b].out EXCEPT ![p] = mem[p].kind] ELSE batch[b].out]]
  /\ UNCHANGED <<platform, index, mem, file, warmed, inSlot, shelf>>

Answered(b, p) ==
  /\ batch[b] # Nil /\ p \in batch[b].asking
  /\ \E kind \in {Judged(p, platform), LookupFailed} :
       /\ mem' = [mem EXCEPT ![p] = [kind |-> kind, fresh |-> TRUE]]
       /\ batch' = [batch EXCEPT ![b] =
            [left |-> batch[b].left, asking |-> batch[b].asking \ {p},
             out |-> [batch[b].out EXCEPT ![p] = kind]]]
  /\ UNCHANGED <<platform, index, file, warmed, inSlot, shelf>>

(* After its budget a request's workers take no more.                        *)
OverBudget(r) ==
  /\ batch[r] # Nil /\ batch[r].left # {}
  /\ batch' = [batch EXCEPT ![r].left = {}]
  /\ UNCHANGED <<platform, index, mem, file, warmed, inSlot, shelf>>

Finished(b) == batch[b] # Nil /\ batch[b].left = {} /\ batch[b].asking = {}

(* The page leaves out what only older platforms may run, and says "unknown" *)
(* of what was not judged.                                                   *)
Hidden(r) == {p \in Plugins : batch[r].out[p] = "older"}

(* The verdicts are written when a batch ends, if that works.                *)
BatchEnds(b) ==
  /\ Finished(b)
  /\ file' \in {mem, file}
  /\ batch' = [batch EXCEPT ![b] = Nil]
  /\ inSlot' = IF b = Warm THEN inSlot ELSE [inSlot EXCEPT ![b] = Nil]
  /\ UNCHANGED <<platform, index, mem, warmed, shelf>>

-----------------------------------------------------------------------------
(* An import: an item that fails is reported, and the next one is tried.     *)
NextItem(r) ==
  LET q == inSlot[r] IN
  [inSlot EXCEPT ![r] = IF Len(q.left) = 1 THEN Nil
                        ELSE [q EXCEPT !.left = Tail(q.left), !.pc = "go"]]

Refused(grade) == grade # "clean"

Downloads(r) ==
  /\ inSlot[r] # Nil /\ inSlot[r].op = "import" /\ inSlot[r].pc = "go"
  /\ \/ inSlot' = NextItem(r)
     \/ \E g \in Grades :
          inSlot' = IF Refused(g) THEN NextItem(r)
                 ELSE [inSlot EXCEPT ![r] = [@ EXCEPT !.pc = "put", !.grade = g]]
  /\ UNCHANGED <<platform, index, mem, file, warmed, batch, shelf>>

(* The archive replaces the old one and the record follows, if all works.    *)
Puts(r) ==
  /\ inSlot[r] # Nil /\ inSlot[r].pc = "put"
  /\ shelf' \in {shelf, [shelf EXCEPT ![Head(inSlot[r].left)] = inSlot[r].grade]}
  /\ inSlot' = NextItem(r)
  /\ UNCHANGED <<platform, index, mem, file, warmed, batch>>

-----------------------------------------------------------------------------
(* Six hours make the index old, seven days a verdict.                       *)
IndexAges == /\ index = "fresh" /\ index' = "old"
             /\ UNCHANGED <<platform, mem, file, warmed, inSlot, batch, shelf>>
Aged(f, p) == IF f[p] = Nil THEN f ELSE [f EXCEPT ![p].fresh = FALSE]
VerdictExpires(p) ==
  /\ Known(p)
  /\ mem' = Aged(mem, p) /\ file' = Aged(file, p)
  /\ UNCHANGED <<platform, index, warmed, inSlot, batch, shelf>>

(* The verdicts come back from the file; an upgrade of the platform is a     *)
(* restart too.                                                              *)
Restart ==
  /\ platform' \in {platform, platform + 1} \cap (1..MaxVersion)
  /\ mem' = file /\ warmed' = FALSE
  /\ inSlot' = [r \in Slots |-> Nil]
  /\ batch' = [b \in Slots \cup {Warm} |-> Nil]
  /\ UNCHANGED <<index, file, shelf>>

CatalogueNext ==
  \/ \E r \in Slots :
       \/ Arrives(r) \/ UsesCache(r) \/ Fetched(r) \/ FetchFailed(r)
       \/ OverBudget(r) \/ Downloads(r) \/ Puts(r)
  \/ \E b \in Slots \cup {Warm} :
       \/ \E p \in Plugins : TakesEntry(b, p) \/ Answered(b, p)
       \/ BatchEnds(b)
  \/ IndexAges \/ Restart \/ \E p \in Plugins : VerdictExpires(p)

CatalogueSpec == CatalogueInit /\ [][CatalogueNext]_catalogueVars

-----------------------------------------------------------------------------
(* A plugin is left out of the page only when one of its ranges once did not *)
(* admit the platform and none asked for a newer one, never because the      *)
(* registry could not be asked (whitelist.ts, the comment on the verdicts).  *)
(* A range that cannot be read admits nothing, so it hides the plugin too.   *)
HiddenWasUnmet ==
  \A r \in Slots : batch[r] # Nil =>
    \A p \in Hidden(r) : \E v \in 1..platform :
      /\ \E d \in Declares[p] : Unmet(d, v)
      /\ \A d \in Declares[p] : Unmet(d, v) => ~AsksNewer(d, v)

(* An index of another release's format is never used, not even when the     *)
(* catalogue cannot be fetched (whitelist.ts, readCache).                    *)
NoForeignIndex ==
  \A r \in Slots : inSlot[r] # Nil /\ inSlot[r].pc # "index" => index # "foreign"

(* A plugin that was refused has no record, whatever else was imported with  *)
(* it (whitelist.ts, the verdict of the import route).                       *)
RefusedNeverLands == \A p \in Plugins : shelf[p] \in {Nil, "clean"}

(* The official plugins (whitelist.ts): hidden only by a range of their own  *)
(* that was unmet, never by an index of another format, and a refused one    *)
(* leaves no record.                                                         *)
WhitelistHonest ==
  CatalogueTypeOK /\ HiddenWasUnmet /\ NoForeignIndex /\ RefusedNeverLands
=============================================================================
