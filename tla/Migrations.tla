----------------------------- MODULE Migrations -----------------------------
(***************************************************************************)
(* Opening the database (src/db/schema.ts, connection.ts, pg.ts, index.ts, *)
(* isolation.ts): the migrations of both dialects, each applied in order   *)
(* inside one transaction and marked, the backfill of the uids of users    *)
(* from before version 3, and the uids of new users.  Several processes    *)
(* open the database: the manager, another manager, a command.             *)
(*                                                                         *)
(* A table is [t], a column <<t, c>>.  CREATE ... IF NOT EXISTS passes when*)
(* the table is there, ADD COLUMN and the marker's key do not.  A uid is   *)
(* counted from baseUid; 0 is none.                                        *)
(***************************************************************************)
EXTENDS Integers, Sequences, FiniteSets, FiniteSetsExt, SequencesExt

CONSTANTS
  Procs,
  Ids,          \* users
  Legacy,       \* users from before version 3, a subset
  Hash,         \* [Ids -> uid]: hashUid
  Left,         \* versions at which an earlier build may have left the database
  MaxEvents     \* bound: crashes and deletions

VARIABLES
  dialect,
  applied,      \* the versions of schema_migrations, in the order of their commits
  schema,       \* tables and columns
  users,        \* [present users -> [row, uid]]
  lastRow,      \* the identity of Postgres
  proc,         \* [Procs -> [pc, seen, done, todo]]
  events

vars == <<dialect, applied, schema, users, lastRow, proc, events>>

-----------------------------------------------------------------------------
(* The migrations: [creates, adds].                                        *)

Columns(t, cs) == {<<t, c>> : c \in cs}

V1 == [creates |-> {"users", "sessions", "workspaces", "folder_plugins", "dsh_instances",
                    "audit_log", "domains", "credential_vault"}, adds |-> {}]
PG_V1 == V1
V2 == [creates |-> {}, adds |-> Columns("credential_vault", {"enabled"})]
V3 == [creates |-> {}, adds |-> Columns("users", IF dialect = "pg" THEN {"row_id", "uid"} ELSE {"uid"})]
V4 == [creates |-> {}, adds |-> Columns("dsh_instances", {"folder", "patch"})]
V5 == [creates |-> {"business_plugins"}, adds |-> {}]
V6 == [creates |-> {}, adds |-> Columns("credential_vault", {"route", "base_url", "api", "models"})
                                  \cup Columns("users", {"shared_model_enabled"})]
V7 == [creates |-> {"dsh_hosts"},
       adds |-> Columns("dsh_instances", {"host_id", "epoch", "heartbeat_at", "lease_until"})]
V8 == [creates |-> {}, adds |-> Columns("dsh_hosts", {"via"})]
V9 == [creates |-> {}, adds |-> Columns("dsh_hosts", {"network_id"})]
V10 == [creates |-> {"email_codes"}, adds |-> Columns("users", {"email"})]
V11 == [creates |-> {}, adds |-> Columns("users", {"shared_model_granted"})]

MIGRATIONS == <<IF dialect = "pg" THEN PG_V1 ELSE V1, V2, V3, V4, V5, V6, V7, V8, V9, V10, V11>>
Versions == DOMAIN MIGRATIONS

\* What the versions bring.
Brings(vs) ==
  UNION {{<<t>> : t \in MIGRATIONS[v].creates} \cup MIGRATIONS[v].adds : v \in vs}

-----------------------------------------------------------------------------

Down == [pc |-> "down", seen |-> {}, done |-> {}, todo |-> {}]

Init ==
  /\ dialect \in {"sqlite", "pg"}
  /\ \E v \in Left : applied = [i \in 1 .. v |-> i]
  /\ schema = Brings(DOMAIN applied)
  /\ \E order \in SetToSeqs(Legacy) :
       users = IF Len(applied) = 0 THEN <<>>
               ELSE [u \in Legacy |-> [row |-> CHOOSE i \in DOMAIN order : order[i] = u, uid |-> 0]]
  /\ lastRow = Cardinality(DOMAIN users)
  /\ proc = [p \in Procs |-> Down]
  /\ events = 0

\* The versions the process still has to apply, by what it read.
Todo(p) == Versions \ (proc[p].seen \cup proc[p].done)

\* Both read the markers first: SQLite before its transaction, Postgres in it.
Open(p) ==
  /\ proc[p].pc = "down"
  /\ proc' = [proc EXCEPT ![p] = [Down EXCEPT !.pc = "migrating", !.seen = Range(applied)]]
  /\ UNCHANGED <<dialect, applied, schema, users, lastRow, events>>

\* The locks of the other transaction, on the database or on the same tables.
Waits(p) == \E q \in Procs \ {p} : proc[q].done # {}

\* A migration and its marker.
Apply(p) ==
  /\ proc[p].pc = "migrating" /\ Todo(p) # {} /\ ~Waits(p)
  /\ Min(Todo(p)) \notin Range(applied)
  /\ MIGRATIONS[Min(Todo(p))].adds \cap schema = {}
  /\ proc' = [proc EXCEPT ![p].done = @ \cup {Min(Todo(p))}]
  /\ UNCHANGED <<dialect, applied, schema, users, lastRow, events>>

\* Another process has applied it by now, or (SQLite) held the lock for too
\* long: everything is rolled back and the process ends.
Fails(p) ==
  /\ proc[p].pc = "migrating" /\ Todo(p) # {}
  /\ \/ ~Waits(p) /\ Min(Todo(p)) \in Range(applied)
     \/ Waits(p) /\ dialect = "sqlite"
  /\ proc' = [proc EXCEPT ![p] = Down]
  /\ UNCHANGED <<dialect, applied, schema, users, lastRow, events>>

\* createDbAdapter: after the commit, the users without a uid are listed.
Commit(p) ==
  /\ proc[p].pc = "migrating" /\ Todo(p) = {}
  /\ applied' = applied \o SelectSeq([v \in Versions |-> v], LAMBDA v : v \in proc[p].done)
  /\ schema' = schema \cup Brings(proc[p].done)
  /\ proc' = [proc EXCEPT ![p] = [Down EXCEPT !.pc = "filling",
                                   !.todo = {u \in DOMAIN users : users[u].uid = 0}]]
  /\ UNCHANGED <<dialect, users, lastRow, events>>

\* mutant
BackfillNumbers(p) ==
  /\ proc[p].pc = "filling" /\ proc[p].todo # {}
  /\ \E u \in proc[p].todo :
       /\ users' = IF u \in DOMAIN users
                   THEN [users EXCEPT ![u].uid = Hash[u] + Cardinality(DOMAIN users)] ELSE users
       /\ proc' = [proc EXCEPT ![p].todo = @ \ {u}]
  /\ UNCHANGED <<dialect, applied, schema, lastRow, events>>

\* setUserUid with hashUid, user after user, from the list.
Backfill(p) ==
  /\ proc[p].pc = "filling" /\ proc[p].todo # {}
  /\ \E u \in proc[p].todo :
       /\ users' = IF u \in DOMAIN users THEN [users EXCEPT ![u].uid = Hash[u]] ELSE users
       /\ proc' = [proc EXCEPT ![p].todo = @ \ {u}]
  /\ UNCHANGED <<dialect, applied, schema, lastRow, events>>

Ready(p) ==
  /\ proc[p].pc = "filling" /\ proc[p].todo = {}
  /\ proc' = [proc EXCEPT ![p].pc = "up"]
  /\ UNCHANGED <<dialect, applied, schema, users, lastRow, events>>

\* mutant
NextRowCounts == 1 + Cardinality(DOMAIN users)

\* The identity column of Postgres only grows; the rowid of SQLite is one more
\* than the greatest that is there.
NextRow ==
  1 + IF dialect = "pg" THEN lastRow ELSE Max({users[u].row : u \in DOMAIN users} \cup {0})

\* createUser: row and uid in one transaction.
CreateUser(p, u) ==
  /\ proc[p].pc = "up" /\ u \notin DOMAIN users
  /\ users' = [v \in DOMAIN users \cup {u} |-> IF v = u THEN [row |-> NextRow, uid |-> NextRow] ELSE users[v]]
  /\ lastRow' = Max({lastRow, NextRow})
  /\ UNCHANGED <<dialect, applied, schema, proc, events>>

DeleteUser(p, u) ==
  /\ proc[p].pc = "up" /\ u \in DOMAIN users \ Legacy /\ events < MaxEvents
  /\ events' = events + 1
  /\ users' = [v \in DOMAIN users \ {u} |-> users[v]]
  /\ UNCHANGED <<dialect, applied, schema, lastRow, proc>>

Crash(p) ==
  /\ events < MaxEvents /\ proc[p].pc # "down"
  /\ events' = events + 1
  /\ proc' = [proc EXCEPT ![p] = Down]
  /\ UNCHANGED <<dialect, applied, schema, users, lastRow>>

Opening(p) == Open(p) \/ Apply(p) \/ Fails(p) \/ Commit(p) \/ Backfill(p) \/ Ready(p)

Next ==
  \E p \in Procs :
    \/ Opening(p) \/ Crash(p)
    \/ \E u \in Ids : CreateUser(p, u) \/ DeleteUser(p, u)

Spec == Init /\ [][Next]_vars

\* A process that ended is started again; locks are given up.
FairSpec == Spec /\ \A p \in Procs : WF_vars(Opening(p))

-----------------------------------------------------------------------------
(* Properties.                                                             *)

\* Every version once, without a gap, and the tables and columns are those of
\* the versions that are marked: whoever opens the database at the same time.
TypeOK ==
  /\ applied = [i \in DOMAIN applied |-> i] /\ Len(applied) <= Len(MIGRATIONS)
  /\ schema = Brings(Range(applied))

\* Users created since version 3 have uids of their own.
NewUidsDistinct ==
  \A u, v \in DOMAIN users \ Legacy : u # v => users[u].uid # users[v].uid

\* A uid, once given, is that of the user for good.
UidStays ==
  [][\A u \in DOMAIN users \cap DOMAIN users' : users[u].uid # 0 => users'[u].uid = users[u].uid]_vars

\* Every process gets the database open in the end, the schema complete.
Complete == \A p \in Procs : proc[p].pc = "up" /\ Len(applied) = Len(MIGRATIONS)
=============================================================================
