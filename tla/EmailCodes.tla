----------------------------- MODULE EmailCodes -----------------------------
(***************************************************************************)
(* Registration with a code sent by e-mail: src/web/email-code.ts (the     *)
(* orchestration), src/web/register-guard.ts (the quotas) and the two      *)
(* routes of src/web/routes/auth.ts that call them.  Every await of the    *)
(* code is a step boundary: requests interleave between reading the event  *)
(* table, sending the mail and writing the table.                          *)
(*                                                                         *)
(* A code is the number of the mail that carried it; 0 is any other text.  *)
(* Time passes in units of the cooldown ladder.                            *)
(***************************************************************************)
EXTENDS Integers, FiniteSets, Sequences, SequencesExt

CONSTANTS
  Emails, UserNames, \* normalised addresses and user names
  Requests,          \* requests being served at one time
  Ttl,               \* life of a code
  Hour,              \* the window of the hourly quotas
  MaxAttempts,       \* emailCodeMaxAttempts
  SentPerDay,        \* mails per address and day
  PerHour,           \* attempts per address and hour
  AllPerHour,        \* attempts per hour of all: the IP and the global quota
  Ladder,            \* cooldownLadderMs
  MaxTime,           \* bound: the clock
  MaxMails,          \* bound: mails handed to the mail service
  MaxRows            \* bound: rows of the event table

ASSUME PolicyAssumption ==
  /\ Emails # {} /\ UserNames # {} /\ Requests # {} /\ IsFiniteSet(Requests)
  /\ Ttl \in Nat /\ Hour \in Nat \ {0} /\ MaxTime \in Nat \ {0}
  /\ MaxAttempts \in Nat \ {0} /\ SentPerDay \in Nat \ {0}
  /\ Ladder \in Seq(Nat) /\ Ladder # <<>>

VARIABLES
  now,
  rows,              \* email_codes, in the order of insertion
  mails,             \* mails the service accepted: code -> its address and name
  users,             \* accounts, each with the code that opened it
  lock,              \* per address: the requests in withEmailLock, first to run first
  req                \* the requests

codesVars == <<now, rows, mails, users, lock, req>>

Idle == [pc |-> "idle", email |-> CHOOSE e \in Emails : TRUE,
         name |-> CHOOSE n \in UserNames : TRUE, at |-> 0, code |-> 0, row |-> 0, attempts |-> 0]

CodesInit ==
  /\ now = 1 /\ rows = <<>> /\ mails = <<>> /\ users = {}
  /\ lock = [e \in Emails |-> <<>>]
  /\ req = [r \in Requests |-> Idle]

-----------------------------------------------------------------------------
(* The event table.                                                        *)

RowsOf(e, since) == {i \in DOMAIN rows : rows[i].email = e /\ rows[i].at >= since}
AllRows(since) == {i \in DOMAIN rows : rows[i].at >= since}

\* The row a code is checked against: the newest "sent" row of the address,
\* any of them when two have the same time.
LatestSent(e) ==
  LET sent == {i \in RowsOf(e, 0) : rows[i].status = "sent"}
  IN  {i \in sent : \A j \in sent : rows[j].at <= rows[i].at}

LastAt(e) == Max({rows[i].at : i \in RowsOf(e, 0)} \cup {0})

Cooldown(n) == Ladder[Min({n + 1, Len(Ladder)})]

\* evaluateSendGuard with the counts of the two windows.
SendAllowed(e, t) ==
  LET hour == RowsOf(e, t - Hour)
  IN  /\ Cardinality({i \in RowsOf(e, 0) : rows[i].status = "sent"}) < SentPerDay
      /\ Cardinality(hour) < PerHour
      /\ Cardinality(AllRows(t - Hour)) < AllPerHour
      /\ LastAt(e) > 0 => t - LastAt(e) >= Cooldown(Cardinality(hour))

Record(r, status, code) ==
  Append(rows, [email |-> req[r].email, name |-> req[r].name, status |-> status,
                code |-> code, attempts |-> 0, consumed |-> FALSE,
                at |-> req[r].at, expires |-> req[r].at + Ttl,
                tried |-> 0])

Ends(r) == req' = [req EXCEPT ![r] = Idle]
Moves(r, pc) == req' = [req EXCEPT ![r].pc = pc]

-----------------------------------------------------------------------------
(* Asking for a code.                                                      *)

\* The request arrives: its time is taken once, here.  Names and addresses
\* are only ever added, so the two look-ups can be taken as one.
Taken(name, email) == \E u \in users : u.name = name \/ u.email = email

Arriving(pc, email, name, code) ==
  [pc |-> pc, email |-> email, name |-> name, at |-> now, code |-> code, row |-> 0, attempts |-> 0]

AskCode(r) ==
  \E e \in Emails, n \in UserNames :
    /\ req[r].pc = "idle" /\ Len(rows) < MaxRows
    /\ ~Taken(n, e)
    /\ req' = [req EXCEPT ![r] = Arriving("counting", e, n, 0)]
    /\ UNCHANGED <<now, rows, mails, users, lock>>

Refuses(r) ==
  /\ req[r].pc = "counting"
  /\ ~SendAllowed(req[r].email, req[r].at)
  /\ Moves(r, "refused")
  /\ UNCHANGED <<now, rows, mails, users, lock>>

RecordsRefusal(r) ==
  /\ req[r].pc = "refused"
  /\ rows' = Record(r, "throttled", 0)
  /\ Ends(r)
  /\ UNCHANGED <<now, mails, users, lock>>

\* The verdict is in; the request queues for its address.
Queues(r) ==
  /\ req[r].pc = "counting"
  /\ SendAllowed(req[r].email, req[r].at)
  /\ lock' = [lock EXCEPT ![req[r].email] = Append(@, r)]
  /\ Moves(r, "queued")
  /\ UNCHANGED <<now, rows, mails, users>>

Runs(r) == lock[req[r].email] # <<>> /\ Head(lock[req[r].email]) = r

\* The mail service accepts the mail, or refuses it or does not answer in time.
Sends(r) ==
  /\ req[r].pc = "queued" /\ Runs(r) /\ Len(mails) < MaxMails
  /\ mails' = Append(mails, [email |-> req[r].email, name |-> req[r].name, at |-> req[r].at])
  /\ req' = [req EXCEPT ![r] = [req[r] EXCEPT !.pc = "sent", !.code = Len(mails) + 1]]
  /\ UNCHANGED <<now, rows, users, lock>>

SendFails(r) ==
  /\ req[r].pc = "queued" /\ Runs(r)
  /\ Moves(r, "failed")
  /\ UNCHANGED <<now, rows, mails, users, lock>>

\* The end of the locked section lets the next request of the address run.
Unlock(r) == lock' = [lock EXCEPT ![req[r].email] = Tail(@)]

RecordsSent(r) ==
  /\ req[r].pc \in {"sent", "failed"}
  /\ rows' = IF req[r].pc = "sent" THEN Record(r, "sent", req[r].code) ELSE Record(r, "failed", 0)
  /\ Unlock(r) /\ Ends(r)
  /\ UNCHANGED <<now, mails, users>>

\* The database refuses the row: the promise of the locked section rejects,
\* and the chain of the address goes on over the rejection.
RecordFails(r) ==
  /\ req[r].pc \in {"sent", "failed"}
  /\ Unlock(r) /\ Ends(r)
  /\ UNCHANGED <<now, rows, mails, users>>

-----------------------------------------------------------------------------
(* Registering with a code.                                                *)

AskAccount(r) ==
  \E e \in Emails, n \in UserNames, c \in 0 .. Len(mails) :
    /\ req[r].pc = "idle"
    /\ ~Taken(n, e)
    /\ req' = [req EXCEPT ![r] = Arriving("checking", e, n, c)]
    /\ UNCHANGED <<now, rows, mails, users, lock>>

UsableByAnyName(i, r) == ~rows[i].consumed /\ req[r].at <= rows[i].expires

Usable(i, r) ==
  /\ ~rows[i].consumed
  /\ req[r].at <= rows[i].expires
  /\ rows[i].name = req[r].name

\* The row is read and judged; what follows writes it by its id.
Checks(r) ==
  /\ req[r].pc = "checking"
  /\ \/ \E i \in LatestSent(req[r].email) :
          /\ Usable(i, r)
          /\ req' = [req EXCEPT ![r] =
               [req[r] EXCEPT !.pc = IF rows[i].code = req[r].code THEN "right" ELSE "wrong",
                              !.row = i, !.attempts = rows[i].attempts]]
          /\ rows' = IF rows[i].code = req[r].code THEN rows
                     ELSE [rows EXCEPT ![i].tried = @ + 1]
     \/ /\ LatestSent(req[r].email) = {} \/ \E i \in LatestSent(req[r].email) : ~Usable(i, r)
        /\ Ends(r)
        /\ UNCHANGED rows
  /\ UNCHANGED <<now, mails, users, lock>>

\* A wrong code counts against the row it was compared with; whether this was
\* the last try was decided on the count read with the row.
Wrong(r) ==
  /\ req[r].pc = "wrong"
  /\ LET row == rows[req[r].row] IN
       rows' = IF row.consumed THEN rows
               ELSE [rows EXCEPT ![req[r].row] =
                       [row EXCEPT !.attempts = row.attempts + 1,
                                   !.consumed = req[r].attempts + 1 >= MaxAttempts]]
  /\ Ends(r)
  /\ UNCHANGED <<now, mails, users, lock>>

\* A right code is used up by one update that finds it unused, or not at all.
Right(r) ==
  /\ req[r].pc = "right"
  /\ IF rows[req[r].row].consumed
     THEN Ends(r) /\ UNCHANGED rows
     ELSE /\ rows' = [rows EXCEPT ![req[r].row].consumed = TRUE]
          /\ Moves(r, "creating")
  /\ UNCHANGED <<now, mails, users, lock>>

\* The account; the table's unique names and addresses have the last word.
Creates(r) ==
  /\ req[r].pc = "creating"
  /\ users' = IF Taken(req[r].name, req[r].email) THEN users
              ELSE users \cup {[name |-> req[r].name, email |-> req[r].email, row |-> req[r].row,
                                asked |-> req[r].at]}
  /\ Ends(r)
  /\ UNCHANGED <<now, rows, mails, lock>>

-----------------------------------------------------------------------------

Tick == now < MaxTime /\ now' = now + 1 /\ UNCHANGED <<rows, mails, users, lock, req>>

Proceeds(r) ==
  \/ Refuses(r) \/ RecordsRefusal(r) \/ Queues(r) \/ Sends(r) \/ SendFails(r)
  \/ RecordsSent(r) \/ RecordFails(r) \/ Checks(r) \/ Wrong(r) \/ Right(r) \/ Creates(r)

CodesNext == Tick \/ \E r \in Requests : AskCode(r) \/ AskAccount(r) \/ Proceeds(r)

CodesSpec == CodesInit /\ [][CodesNext]_codesVars

-----------------------------------------------------------------------------
(* Properties.                                                             *)

\* Rows carry codes of mails that went out.  The queue of an address holds
\* exactly the requests that are in its locked section, each once: a refused,
\* failed or broken-off sending never leaves the next one waiting for ever.
CodesTypeOK ==
  /\ now \in 1 .. MaxTime
  /\ \A i \in DOMAIN rows : rows[i].code \in 0 .. Len(mails) /\ rows[i].attempts <= rows[i].tried
  /\ \A e \in Emails :
       /\ IsInjective(lock[e])
       /\ {lock[e][i] : i \in DOMAIN lock[e]} =
            {r \in Requests : req[r].email = e /\ req[r].pc \in {"queued", "sent", "failed"}}

\* One code opens at most one account, however many requests carry it at the
\* same time (consumeRegisterCode: the update that finds the row unused).
OneAccountPerCode ==
  /\ \A u, v \in users : u.row = v.row => u = v
  /\ \A r, s \in Requests : r # s /\ req[r].pc = "creating" /\ req[s].pc = "creating" => req[r].row # req[s].row
  /\ \A r \in Requests, u \in users : req[r].pc = "creating" => req[r].row # u.row

\* An account is opened only with a code that was mailed to its own address
\* for its own name and had not run out when the account was asked for.
AddressProven ==
  \A u \in users :
    LET row == rows[u.row] IN
      /\ row.status = "sent" /\ row.consumed
      /\ mails[row.code].email = u.email /\ mails[row.code].name = u.name
      /\ u.asked <= mails[row.code].at + Ttl

\* However the requests interleave, the wrong tries at one code stay within the
\* limit and two for each further request served at the same time: one that
\* read the count before the last tries were written, one after.
TriesBounded == \A i \in DOMAIN rows : rows[i].tried <= MaxAttempts + 2 * (Cardinality(Requests) - 1)

\* Registration by mail (email-code.ts, register-guard.ts): one code opens one
\* account, of the address it was mailed to, and the tries at it are bounded.
CodesProve == CodesTypeOK /\ OneAccountPerCode /\ AddressProven /\ TriesBounded
=============================================================================
