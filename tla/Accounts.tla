------------------------------ MODULE Accounts ------------------------------
(***************************************************************************)
(* Accounts, sessions and the instances behind them: registration, login   *)
(* and logout (src/web/routes/auth.ts), the guards of every request        *)
(* (src/web/middleware/authn.ts), and what an administrator does to an     *)
(* account (src/web/routes/admin.ts, admin-user-ops.ts), over the rows of  *)
(* src/db/repo.ts.                                                         *)
(*                                                                         *)
(* A handler awaits every call it makes, so handlers interleave between    *)
(* their calls; a call of the database is one step.  An account's id is    *)
(* random and used once.                                                   *)
(***************************************************************************)
EXTENDS Integers, FiniteSets

CONSTANTS
  Users,       \* account ids
  Tasks,       \* handlers that run at the same time
  MaxLogins    \* bound: sessions ever created

VARIABLES
  role,        \* [Users -> Roles]; "none" before the registration
  sessions,    \* the rows of the table: [user, serial]
  serial,      \* sessions created so far
  homes,       \* users whose directory exists
  launched,    \* users whose instance runs
  task,        \* [Tasks -> what a handler still has to do]
  approved     \* history: accounts an administrator let in

accountsVars == <<role, sessions, serial, homes, launched, task, approved>>

Roles == {"none", "pending", "active", "disabled", "deleted"}
Exists(u) == role[u] \notin {"none", "deleted"}
SessionsOf(u) == {s \in sessions : s.user = u}

NoTask == [does |-> "nothing"]
Begins(t, what, u) == task[t] = NoTask /\ task' = [task EXCEPT ![t] = [does |-> what, user |-> u]]
GoesOn(t, from, to) == task[t].does = from /\ task' = [task EXCEPT ![t].does = to]
Finishes(t, from) == task[t].does = from /\ task' = [task EXCEPT ![t] = NoTask]

\* UPDATE users SET role: a row that is gone is not touched.
SetsRole(u, r) == role' = IF Exists(u) THEN [role EXCEPT ![u] = r] ELSE role

-----------------------------------------------------------------------------

AccountsInit ==
  /\ role = [u \in Users |-> "none"]
  /\ sessions = {} /\ serial = 0
  /\ homes = {} /\ launched = {}
  /\ task = [t \in Tasks |-> NoTask]
  /\ approved = {}

(* --- The visitor. --- *)

\* POST /api/auth/register: the row, then the directory.
Registers(t, u) ==
  /\ role[u] = "none"
  /\ role' = [role EXCEPT ![u] = "pending"]
  /\ Begins(t, "home", u)
  /\ UNCHANGED <<sessions, serial, homes, launched, approved>>

MakesHome(t) ==
  /\ Finishes(t, "home")
  /\ homes' = homes \cup {task[t].user}
  /\ UNCHANGED <<role, sessions, serial, launched, approved>>

\* POST /api/auth/login, on the row as it is read before the password is
\* verified: neither a pending nor a disabled account gets in.
LogsIn(t, u) ==
  /\ role[u] = "active" /\ serial < MaxLogins
  /\ task[t] = NoTask
  /\ task' = [task EXCEPT ![t] = [does |-> "drop", user |-> u, before |-> SessionsOf(u)]]
  /\ UNCHANGED <<role, sessions, serial, homes, launched, approved>>

\* mutant
DropsNothing(t) ==
  /\ GoesOn(t, "drop", "create")
  /\ UNCHANGED <<role, sessions, serial, homes, launched, approved>>

\* The newest login wins: the sessions before it go.
DropsSessions(t) ==
  /\ GoesOn(t, "drop", "create")
  /\ sessions' = sessions \ SessionsOf(task[t].user)
  /\ UNCHANGED <<role, serial, homes, launched, approved>>

\* A session refers to its user: without the row the insert fails.
CreatesSession(t) ==
  /\ Finishes(t, "create") /\ serial < MaxLogins
  /\ IF Exists(task[t].user)
     THEN /\ serial' = serial + 1
          /\ sessions' = sessions \cup {[user |-> task[t].user, serial |-> serial']}
     ELSE UNCHANGED <<serial, sessions>>
  /\ UNCHANGED <<role, homes, launched, approved>>

\* POST /api/auth/logout and GET /logout
LogsOut(s) ==
  /\ sessions' = sessions \ {s}
  /\ UNCHANGED <<role, serial, homes, launched, task, approved>>

(* --- Requests with a session. --- *)

\* requireAuth: one look at the session and its user.
Admits(s) == role[s.user] # "disabled"

\* POST /api/dsh/launch: the user is known; then the folder is looked up, then
\* the supervisor called.
Asks(t, s) ==
  /\ Admits(s) /\ s.user \notin launched
  /\ Begins(t, "folder", s.user)
  /\ UNCHANGED <<role, sessions, serial, homes, launched, approved>>

FindsFolder(t) ==
  /\ IF task[t].does = "folder" /\ task[t].user \in homes
     THEN GoesOn(t, "folder", "launch") ELSE Finishes(t, "folder")
  /\ UNCHANGED <<role, sessions, serial, homes, launched, approved>>

Launches(t) ==
  /\ Finishes(t, "launch")
  /\ launched' = launched \cup {task[t].user}
  /\ UNCHANGED <<role, sessions, serial, homes, approved>>

\* POST /api/dsh/stop, or an administrator's for the user
Stops(u) ==
  /\ launched' = launched \ {u}
  /\ UNCHANGED <<role, sessions, serial, homes, task, approved>>

(* --- The administrator. --- *)

\* An administrator's launch for a user needs no session of the user.
AsksFor(t, u) ==
  /\ Exists(u) /\ u \notin launched
  /\ Begins(t, "folder", u)
  /\ UNCHANGED <<role, sessions, serial, homes, launched, approved>>

\* approve and enable: the role is read, then set.
Judges(t, u) ==
  /\ role[u] \in {"pending", "disabled"}
  /\ Begins(t, "let in", u)
  /\ UNCHANGED <<role, sessions, serial, homes, launched, approved>>

LetsIn(t) ==
  /\ Finishes(t, "let in")
  /\ SetsRole(task[t].user, "active")
  /\ approved' = approved \cup {task[t].user}
  /\ UNCHANGED <<sessions, serial, homes, launched>>

\* disable: the role, the sessions, the instance.
Disables(t, u) ==
  /\ Exists(u)
  /\ Begins(t, "disable", u)
  /\ UNCHANGED <<role, sessions, serial, homes, launched, approved>>

SetsDisabled(t) ==
  /\ GoesOn(t, "disable", "log out")
  /\ SetsRole(task[t].user, "disabled")
  /\ UNCHANGED <<sessions, serial, homes, launched, approved>>

EndsSessions(t) ==
  /\ GoesOn(t, "log out", "stop")
  /\ sessions' = sessions \ SessionsOf(task[t].user)
  /\ UNCHANGED <<role, serial, homes, launched, approved>>

StopsFor(t) ==
  /\ Finishes(t, "stop")
  /\ launched' = launched \ {task[t].user}
  /\ UNCHANGED <<role, sessions, serial, homes, approved>>

\* delete: the instance, all rows in one transaction, the directory.
Deletes(t, u) ==
  /\ Exists(u)
  /\ Begins(t, "stop first", u)
  /\ UNCHANGED <<role, sessions, serial, homes, launched, approved>>

StopsFirst(t) ==
  /\ GoesOn(t, "stop first", "rows")
  /\ launched' = launched \ {task[t].user}
  /\ UNCHANGED <<role, sessions, serial, homes, approved>>

DeletesRows(t) ==
  /\ task[t].does = "rows"
  /\ IF Exists(task[t].user)
     THEN /\ GoesOn(t, "rows", "directory")
          /\ role' = [role EXCEPT ![task[t].user] = "deleted"]
          /\ sessions' = sessions \ SessionsOf(task[t].user)
     ELSE Finishes(t, "rows") /\ UNCHANGED <<role, sessions>>
  /\ UNCHANGED <<serial, homes, launched, approved>>

RemovesHome(t) ==
  /\ Finishes(t, "directory")
  /\ homes' = homes \ {task[t].user}
  /\ UNCHANGED <<role, sessions, serial, launched, approved>>

TaskSteps(t) ==
  \/ MakesHome(t) \/ DropsSessions(t) \/ CreatesSession(t) \/ FindsFolder(t) \/ Launches(t)
  \/ LetsIn(t) \/ SetsDisabled(t) \/ EndsSessions(t) \/ StopsFor(t)
  \/ StopsFirst(t) \/ DeletesRows(t) \/ RemovesHome(t)

AccountsNext ==
  \/ \E t \in Tasks :
       \/ TaskSteps(t)
       \/ \E s \in sessions : Asks(t, s)
       \/ \E u \in Users :
            \/ Registers(t, u) \/ LogsIn(t, u) \/ AsksFor(t, u)
            \/ Judges(t, u) \/ Disables(t, u) \/ Deletes(t, u)
  \/ \E s \in sessions : LogsOut(s)
  \/ \E u \in Users : Stops(u)

AccountsSpec == AccountsInit /\ [][AccountsNext]_accountsVars

-----------------------------------------------------------------------------
(* Properties.                                                             *)

\* Rows and handlers have their types, and every session belongs to an account
\* that exists: a deletion leaves none behind, and none is created after it.
AccountsTypeOK ==
  /\ role \in [Users -> Roles]
  /\ \A s \in sessions : Exists(s.user) /\ s.serial \in 1 .. serial
  /\ launched \subseteq Users /\ homes \subseteq Users

\* Nobody has a session before an administrator let the account in, however
\* registration, approval and login follow each other.
OnlyApproved == \A s \in sessions : s.user \in approved

\* The newest login wins: when a login has its session, none of those that were
\* there when it began is left.
LastWins ==
  [][\A t \in Tasks : task[t].does = "create" /\ task'[t] = NoTask =>
       sessions' \cap task[t].before = {}]_accountsVars

\* A deleted account stays deleted, whatever an administrator had begun.
DeletedStaysDeleted ==
  [][\A u \in Users : role[u] = "deleted" => role'[u] = "deleted"]_accountsVars

\* Accounts and sessions (auth.ts, admin.ts): only approved accounts have a session,
\* the newest login wins, and a deleted account stays deleted.
AccountsGoverned == [](AccountsTypeOK /\ OnlyApproved) /\ LastWins /\ DeletedStaysDeleted
=============================================================================
