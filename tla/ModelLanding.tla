---------------------------- MODULE ModelLanding ----------------------------
(***************************************************************************)
(* How the model entries a user switches on reach the two files his        *)
(* instance reads: src/web/server.ts (landModels, run at every start of an *)
(* instance), src/web/model-landing.ts (the reconciliation of the texts),  *)
(* src/web/home-files.ts, the entry tables of src/db/repo.ts and the       *)
(* routes of src/web/routes/auth.ts and admin.ts that change them.         *)
(*                                                                         *)
(* A file is a function from its keys to the line (or marked block) under  *)
(* them.  Who wrote a line last is kept beside it: the code does not see   *)
(* that, it only has the list of what the platform wrote ("managed"),      *)
(* which lives in a third file, on the Manager.                            *)
(*                                                                         *)
(* A launch asked of a running instance lands the models too, before the   *)
(* agent says that it runs: nothing keeps the instance, and so its user,   *)
(* from changing a file between a landing's read and its write.            *)
(***************************************************************************)
EXTENDS Integers, FiniteSets

CONSTANTS
  ModelSlots,        \* kinds of entry: the built-in one and the routes
  Builtin,      \* the built-in entry: a credential without a settings block
  Refs,         \* names of credentials
  RefOf,        \* refForEntry: the credential of an entry; two routes may share one
  KeyValues,         \* values of the user's own entries
  Landers,      \* starts of the instance that may overlap
  MaxChanges,   \* bound: changes by the user and the administrator
  MaxBreaks     \* bound: landings broken off

ASSUME LandingAssumption ==
  /\ "none" \notin ModelSlots /\ Builtin \in ModelSlots /\ RefOf \in [ModelSlots -> Refs]
  /\ \A s \in ModelSlots \ {Builtin} : RefOf[s] # RefOf[Builtin]
  /\ KeyValues \subseteq Nat \ {0}

Off == 0
SharedKey == -1      \* the administrator's value
UserText == -2       \* what the user typed into the file
Routes == ModelSlots \ {Builtin}
NoLine == [value |-> Off, by |-> "nobody", marked |-> FALSE]

VARIABLES
  own,          \* credential_vault of the user: the value under each entry switched on
  shared,       \* the entries the administrator has switched on
  granted, wished,  \* shared_model_granted (administrator) and _enabled (user)
  cred, sett,   \* .credentials.yaml and settings.yaml
  managed,      \* the platform's list: [refs, routes]
  land,         \* the landings under way
  ever,         \* history: keys of the files the platform wrote at least once
  raced,        \* history: keys the user changed while a landing under way had read their file
  calm,         \* history: no landing was broken off or overlapped another
  changes, breaks

landingVars == <<own, shared, granted, wished, cred, sett, managed, land, ever, raced, calm,
                 changes, breaks>>
entryTables == <<own, shared, granted, wished>>

NoLanding == [pc |-> "none", own |-> [s \in ModelSlots |-> Off], shared |-> {},
              prev |-> [refs |-> {}, routes |-> {}], writes |-> {},
              cred |-> [r \in Refs |-> NoLine], sett |-> [r \in Routes |-> NoLine]]

LandingInit ==
  /\ own = [s \in ModelSlots |-> Off] /\ shared = {} /\ granted = FALSE /\ wished = TRUE
  /\ cred = [r \in Refs |-> NoLine] /\ sett = [r \in Routes |-> NoLine]
  /\ managed = [refs |-> {}, routes |-> {}]
  /\ land = [l \in Landers |-> NoLanding]
  /\ ever = {} /\ raced = {} /\ calm = TRUE /\ changes = 0 /\ breaks = 0

-----------------------------------------------------------------------------
(* The entries wanted.                                                     *)

SharedEntries == IF granted /\ wished THEN shared ELSE {}

\* Of entries with one credential only the first is used: the user's own come
\* before the shared ones, and by the time of their last change, which is not
\* kept here.  A choice is the entry that supplies each credential.
Suppliers(l, ref) ==
  LET mine == {s \in ModelSlots : RefOf[s] = ref /\ land[l].own[s] # Off}
  IN  IF mine # {} THEN mine ELSE {s \in land[l].shared : RefOf[s] = ref}

Picks(l) == {f \in [Refs -> ModelSlots \cup {"none"}] :
                 \A ref \in Refs : IF Suppliers(l, ref) = {} THEN f[ref] = "none"
                                   ELSE f[ref] \in Suppliers(l, ref)}

ValueOf(l, s) == IF land[l].own[s] # Off THEN land[l].own[s] ELSE SharedKey

-----------------------------------------------------------------------------
(* The two texts.                                                          *)

Ours(value) == [value |-> value, by |-> "platform", marked |-> TRUE]

NewCredOver(file, choice, owned, l) ==
  [ref \in Refs |->
     IF choice[ref] # "none" THEN Ours(ValueOf(l, choice[ref]))
     ELSE IF ref \in owned THEN NoLine ELSE file[ref]]

\* reconcileCredentials: what the platform owns and nobody wants goes, what is
\* wanted is written unless it is there and not the platform's.
NewCred(file, choice, owned, l) ==
  [ref \in Refs |->
     IF choice[ref] = "none"
     THEN IF ref \in owned THEN NoLine ELSE file[ref]
     ELSE IF file[ref] = NoLine \/ ref \in owned
          THEN Ours(ValueOf(l, choice[ref])) ELSE file[ref]]

NewRefs(file, choice, owned) ==
  {ref \in Refs : choice[ref] # "none" /\ (ref \in owned \/ file[ref] = NoLine)}

Wants(choice, s) == \E ref \in Refs : choice[ref] = s

\* reconcileSettings: a marked block the platform owns and nobody wants goes,
\* a wanted route that is nowhere in the file gets a block; a block in place
\* stays as it is.
NewSett(file, choice, owned, l) ==
  [s \in Routes |->
     IF file[s].marked /\ s \in owned /\ ~Wants(choice, s) THEN NoLine
     ELSE IF file[s] = NoLine /\ Wants(choice, s) THEN Ours(ValueOf(l, s))
     ELSE file[s]]

NewRoutes(file, choice, owned) ==
  {s \in Routes : \/ s \in owned /\ (Wants(choice, s) \/ (file[s] # NoLine /\ ~file[s].marked))
                  \/ Wants(choice, s) /\ file[s] = NoLine}

-----------------------------------------------------------------------------
(* landModels: one action per read or write of a file, and two for the     *)
(* entries, the user's and the shared ones.                                *)

Others(l) == Landers \ {l}
Resting(l) == land[l].pc = "none"

Reads(l) ==
  /\ Resting(l)
  /\ land' = [land EXCEPT ![l] = [NoLanding EXCEPT !.pc = "own", !.prev = managed, !.own = own]]
  /\ calm' = (calm /\ \A k \in Landers : Resting(k))
  /\ UNCHANGED <<entryTables, cred, sett, managed, ever, raced, changes, breaks>>

ReadsShared(l) ==
  /\ land[l].pc = "own"
  /\ land' = [land EXCEPT ![l].pc = "files", ![l].shared = SharedEntries]
  /\ UNCHANGED <<entryTables, cred, sett, managed, ever, raced, calm, changes, breaks>>

ReadsCred(l) ==
  /\ land[l].pc = "files"
  /\ land' = [land EXCEPT ![l].pc = "blocks", ![l].cred = cred]
  /\ UNCHANGED <<entryTables, cred, sett, managed, ever, raced, calm, changes, breaks>>

ReadsSett(l) ==
  /\ land[l].pc = "blocks"
  /\ land' = [land EXCEPT ![l].pc = "both", ![l].sett = sett]
  /\ UNCHANGED <<entryTables, cred, sett, managed, ever, raced, calm, changes, breaks>>

\* A first landing ever adopts the line an older release wrote for the shared key,
\* which it looks up.
HandOver(l) ==
  IF /\ land[l].prev = [refs |-> {}, routes |-> {}]
     /\ land[l].cred[RefOf[Builtin]].value = SharedKey /\ Builtin \in shared
  THEN {RefOf[Builtin]} ELSE land[l].prev.refs

\* The texts to write and the next list come from the texts and the list read; a
\* file whose text stays is not written.
Computes(l) ==
  \E choice \in Picks(l) :
    /\ land[l].pc = "both"
    /\ LET owned == HandOver(l)
           text == NewCred(land[l].cred, choice, owned, l)
           blocks == NewSett(land[l].sett, choice, land[l].prev.routes, l)
       IN  land' = [land EXCEPT
             ![l].pc = "write", ![l].cred = text, ![l].sett = blocks,
             ![l].prev = [refs |-> NewRefs(land[l].cred, choice, owned),
                          routes |-> NewRoutes(land[l].sett, choice, land[l].prev.routes)],
             ![l].writes = {f \in {"cred", "sett"} : IF f = "cred" THEN text # land[l].cred
                                                     ELSE blocks # land[l].sett}]
    /\ UNCHANGED <<entryTables, cred, sett, managed, ever, raced, calm, changes, breaks>>

\* The first file is written, then the second, then the list.
WritesCred(l) ==
  /\ land[l].pc = "write"
  /\ cred' = IF "cred" \in land[l].writes THEN land[l].cred ELSE cred
  /\ ever' = ever \cup {ref \in Refs : cred'[ref].by = "platform"}
  /\ land' = [land EXCEPT ![l].pc = "settings"]
  /\ UNCHANGED <<entryTables, sett, managed, raced, calm, changes, breaks>>

WritesSettings(l) ==
  /\ land[l].pc = "settings"
  /\ sett' = IF "sett" \in land[l].writes THEN land[l].sett ELSE sett
  /\ ever' = ever \cup {s \in Routes : sett'[s].by = "platform"}
  /\ land' = [land EXCEPT ![l].pc = "list"]
  /\ UNCHANGED <<entryTables, cred, managed, raced, calm, changes, breaks>>

\* With the last landing under way the races are over.
LetsGo(l) ==
  /\ land' = [land EXCEPT ![l] = NoLanding]
  /\ raced' = IF \A k \in Others(l) : Resting(k) THEN {} ELSE raced

WritesList(l) ==
  /\ land[l].pc = "list" /\ LetsGo(l)
  /\ managed' = land[l].prev
  /\ UNCHANGED <<entryTables, cred, sett, ever, calm, changes, breaks>>

\* A file cannot be read or written (the volume's host is unreachable) or the Manager
\* stops.  Nothing is half done as long as the first file was not written.
BreaksOff(l) ==
  /\ ~Resting(l) /\ breaks < MaxBreaks /\ LetsGo(l)
  /\ breaks' = breaks + 1 /\ calm' = (calm /\ land[l].pc \notin {"settings", "list"})
  /\ UNCHANGED <<entryTables, cred, sett, managed, ever, changes>>

-----------------------------------------------------------------------------
(* The changes.                                                            *)

Changes == changes < MaxChanges /\ changes' = changes + 1
           /\ UNCHANGED <<managed, land, ever, calm, breaks>>

TablesOnly == Changes /\ UNCHANGED <<cred, sett, raced>>

SetKey(s) == \E k \in KeyValues \cup {Off} :
  k # own[s] /\ own' = [own EXCEPT ![s] = k] /\ TablesOnly
  /\ UNCHANGED <<shared, granted, wished>>

Share(s) ==
  /\ shared' = IF s \in shared THEN shared \ {s} ELSE shared \cup {s}
  /\ TablesOnly /\ UNCHANGED <<own, granted, wished>>

Grant == granted' = ~granted /\ TablesOnly /\ UNCHANGED <<own, shared, wished>>

Wish == wished' = ~wished /\ TablesOnly /\ UNCHANGED <<own, shared, granted>>

Mine == [value |-> UserText, by |-> "user", marked |-> FALSE]

\* A key is raced while a landing that has read its file is under way.
Races(key, unread) ==
  raced' = IF \E l \in Landers : land[l].pc \notin unread THEN raced \cup {key} ELSE raced

EditRef(ref) ==
  /\ Changes /\ Races(ref, {"none", "own", "files"})
  /\ cred' = [cred EXCEPT ![ref] = IF @.by = "user" THEN NoLine ELSE Mine]
  /\ UNCHANGED <<entryTables, sett>>

EditRoute(s) ==
  /\ Changes /\ Races(s, {"none", "own", "files", "blocks"})
  /\ sett' = [sett EXCEPT ![s] = IF @.by = "user" THEN NoLine ELSE Mine]
  /\ UNCHANGED <<entryTables, cred>>

-----------------------------------------------------------------------------

LandingNext ==
  \/ \E l \in Landers :
       \/ Reads(l) \/ ReadsShared(l) \/ ReadsCred(l) \/ ReadsSett(l) \/ Computes(l)
       \/ WritesCred(l) \/ WritesSettings(l) \/ WritesList(l) \/ BreaksOff(l)
  \/ \E s \in ModelSlots : SetKey(s) \/ Share(s)
  \/ Grant \/ Wish
  \/ \E ref \in Refs : EditRef(ref)
  \/ \E s \in Routes : EditRoute(s)

LandingSpec == LandingInit /\ [][LandingNext]_landingVars

-----------------------------------------------------------------------------
(* Properties.                                                             *)

\* The platform's marks are on the platform's blocks only, and every line it
\* wrote is in the history.
LandingTypeOK ==
  /\ managed.refs \subseteq Refs /\ managed.routes \subseteq Routes
  /\ \A ref \in Refs : cred[ref].by = "platform" => ref \in ever /\ cred[ref].value \in KeyValues \cup {SharedKey}
  /\ \A s \in Routes : sett[s].marked <=> sett[s].by = "platform"

\* A credential or provider the user put into a file himself, under a name the
\* platform never wrote, is never changed or removed by a landing: not after a
\* broken-off one, and not when two overlap (model-landing.ts, header).  Only a
\* line he changes while a landing is under way that has read the file may go.
UserLinesKept ==
  [][/\ \A ref \in Refs : cred[ref].by = "user" /\ ref \notin ever \cup raced /\ changes' = changes
                          => cred'[ref] = cred[ref]
     /\ \A s \in Routes : sett[s].by = "user" /\ s \notin ever \cup raced /\ changes' = changes
                          => sett'[s] = sett[s]]_landingVars

\* When a landing ends, the files say what it was asked for: the user's own
\* entries win over the shared ones, an entry that was switched off has left
\* both files, and no credential wanted is missing, but one the user took out
\* meanwhile.  (Of landings that were neither broken off nor overlapped, on files
\* no older landing left half done.)
AskedFor(l, ref) == {ValueOf(l, s) : s \in Suppliers(l, ref)}
Landed(l) == land[l].pc = "list" /\ land'[l].pc = "none" /\ breaks' = breaks
LandedExactly ==
  [][\A l \in Landers : Landed(l) /\ calm =>
       /\ \A ref \in Refs :
            /\ cred[ref].by = "platform" => ref \in managed'.refs /\ cred[ref].value \in AskedFor(l, ref)
            /\ AskedFor(l, ref) # {} /\ ref \notin raced => cred[ref] # NoLine
       /\ \A s \in Routes :
            sett[s].marked => s \in managed'.routes /\ (land[l].own[s] # Off \/ s \in land[l].shared)]_landingVars

\* The model entries of a user (server.ts: landModels, model-landing.ts): landings leave his
\* own lines alone, but where they race with his changes, and end with what they were
\* asked for.
ModelsLand == []LandingTypeOK /\ UserLinesKept /\ LandedExactly
=============================================================================
