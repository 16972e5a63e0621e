--------------------------- MODULE Portal_proofs ---------------------------
(***************************************************************************)
(* What the portal promises at its door, for every value of the constants: *)
(* no account without a mailed code of its own (EmailCodes), no plugin     *)
(* hidden or stored against what was found of it (Whitelist), no node      *)
(* chosen that is full or beaten (Placement), no session but of an account *)
(* that was let in (Accounts), no skill gone by an upload alone (Skills),  *)
(* and no line of the user's own, as a landing of models read it, changed  *)
(* by that landing (ModelLanding).  Each part has its own invariant; the six share no      *)
(* variable and no step.                                                   *)
(***************************************************************************)
EXTENDS EmailCodes, Whitelist, Placement, Accounts, Skills, ModelLanding, FiniteSetTheorems,
        SequenceTheorems, WellFoundedInduction, TLAPS

\* The e-mail codes.

\* What the code says of the rows, the mails and the requests.
Steps == {"idle", "counting", "refused", "queued", "sent", "failed", "checking", "wrong", "right", "creating"}
Asked == [pc : Steps, email : Emails, name : UserNames, at : Nat, code : Nat, row : Nat, attempts : Nat]
Row == [email : Emails, name : UserNames, status : {"sent", "failed", "throttled"}, code : Nat,
        attempts : Nat, consumed : BOOLEAN, at : Nat, expires : Nat, tried : Nat]
Mail == [email : Emails, name : UserNames, at : Nat]
Account == [name : UserNames, email : Emails, row : Nat, asked : Nat]

\* What each variable of the codes holds.
CodesTypes ==
  /\ now \in 1 .. MaxTime
  /\ rows \in Seq(Row) /\ mails \in Seq(Mail) /\ users \subseteq Account
  /\ lock \in [Emails -> Seq(Requests)]
  /\ req \in [Requests -> Asked]

\* A row that says "sent" is the row of the mail it names.
Mailed(row, ms) ==
  /\ row.code <= Len(ms) /\ row.attempts <= row.tried
  /\ row.status = "sent" =>
       /\ row.code >= 1 /\ row.email = ms[row.code].email /\ row.name = ms[row.code].name
       /\ row.expires = ms[row.code].at + Ttl
RowsMailed == \A i \in 1 .. Len(rows) : Mailed(rows[i], mails)

\* Row i was sent to this address, for this name, and was good at this time.
Sent(rs, i, email, name, at) ==
  /\ i >= 1 /\ i <= Len(rs) /\ rs[i].status = "sent"
  /\ rs[i].email = email /\ rs[i].name = name /\ at <= rs[i].expires
Fits(q, rs, ms) ==
  /\ q.pc = "sent" => /\ q.code >= 1 /\ q.code <= Len(ms) /\ ms[q.code].email = q.email
                      /\ ms[q.code].name = q.name /\ ms[q.code].at = q.at
  /\ q.pc \in {"wrong", "right", "creating"} => Sent(rs, q.row, q.email, q.name, q.at)
  /\ q.pc = "creating" => rs[q.row].consumed
RequestsFit == \A r \in Requests : Fits(req[r], rows, mails)
Opened(u, rs) == Sent(rs, u.row, u.email, u.name, u.asked) /\ rs[u.row].consumed
UsersFit == \A u \in users : Opened(u, rows)

\* The queue of an address holds its requests, the one being sent first.
InLock(pc) == pc \in {"queued", "sent", "failed"}
Held(q, e) == q.email = e /\ InLock(q.pc)
Locked ==
  /\ \A e \in Emails : IsInjective(lock[e])
  /\ \A e \in Emails, r \in Requests :
       Held(req[r], e) <=> \E i \in 1 .. Len(lock[e]) : lock[e][i] = r
  /\ \A r \in Requests : req[r].pc \in {"sent", "failed"} =>
       lock[req[r].email] # <<>> /\ Head(lock[req[r].email]) = r

\* The requests that are about to count a wrong try at row i, and those of them
\* that read a count that does not use the row up.
WrongOn(rq, i) == {r \in Requests : rq[r].pc = "wrong" /\ rq[r].row = i}
EarlyOn(rq, i) == {r \in WrongOn(rq, i) : rq[r].attempts + 1 < MaxAttempts}
Counted(row, rq, i) ==
  /\ row.tried <= MaxAttempts + 2 * (Cardinality(Requests) - 1)
  /\ ~row.consumed =>
       /\ row.tried = row.attempts + Cardinality(WrongOn(rq, i))
       /\ row.attempts + Cardinality(EarlyOn(rq, i)) <= MaxAttempts + Cardinality(Requests) - 2
TriesCounted == \A i \in 1 .. Len(rows) : Counted(rows[i], req, i)

\* What holds of the codes in every state.
CodesInv ==
  CodesTypes /\ RowsMailed /\ RequestsFit /\ UsersFit /\ Locked /\ OneAccountPerCode /\ TriesCounted

-----------------------------------------------------------------------------
\* A request between its steps, and a row that is written, keep their fields.
LEMMA MovedRequest ==
  ASSUME NEW q \in Asked, NEW pc \in Steps, NEW n, n = [q EXCEPT !.pc = pc]
  PROVE  /\ n \in Asked /\ n.pc = pc /\ n.email = q.email /\ n.name = q.name /\ n.at = q.at
         /\ n.code = q.code /\ n.row = q.row /\ n.attempts = q.attempts
  BY DEF Asked

\* What no write changes of a row.
Same(row, old) ==
  /\ row.email = old.email /\ row.name = old.name /\ row.status = old.status /\ row.code = old.code
  /\ row.at = old.at /\ row.expires = old.expires

\* The row a check counts a try in is a row.
LEMMA TriedRow ==
  ASSUME NEW row \in Row, NEW n, n = [row EXCEPT !.tried = row.tried + 1]
  PROVE  /\ n \in Row /\ Same(n, row) /\ n.tried = row.tried + 1
         /\ n.attempts = row.attempts /\ n.consumed = row.consumed
  BY DEF Row, Same

\* So is the row a right code uses up.
LEMMA ConsumedRow ==
  ASSUME NEW row \in Row, NEW n, n = [row EXCEPT !.consumed = TRUE]
  PROVE  /\ n \in Row /\ Same(n, row) /\ n.tried = row.tried
         /\ n.attempts = row.attempts /\ n.consumed = TRUE
  BY DEF Row, Same

\* So is the row a wrong code counts an attempt in.
LEMMA WrongRow ==
  ASSUME NEW row \in Row, NEW c \in BOOLEAN, NEW n,
         n = [row EXCEPT !.attempts = row.attempts + 1, !.consumed = c]
  PROVE  /\ n \in Row /\ Same(n, row) /\ n.tried = row.tried
         /\ n.attempts = row.attempts + 1 /\ n.consumed = c
<1>1. PICK m : m = [row EXCEPT !.attempts = row.attempts + 1]
  OBVIOUS
<1>2. /\ m \in Row /\ Same(m, row) /\ m.tried = row.tried /\ m.attempts = row.attempts + 1
  BY <1>1 DEF Row, Same
<1>3. n = [m EXCEPT !.consumed = c]
  BY <1>1
<1>4. /\ n \in Row /\ Same(n, m) /\ n.tried = m.tried /\ n.attempts = m.attempts /\ n.consumed = c
  BY <1>2, <1>3 DEF Row, Same
<1>5. QED  BY <1>2, <1>4 DEF Same

\* An idle request, one that arrives, and a new row.
LEMMA IdleAsked == ASSUME PolicyAssumption PROVE Idle \in Asked /\ Idle.pc = "idle"
  BY DEF PolicyAssumption, Idle, Asked, Steps

\* So is the one that arrives (startEmailVerification, verifyEmailCode).
LEMMA ArrivingAsked ==
  ASSUME PolicyAssumption, CodesTypes, NEW pc \in Steps, NEW e \in Emails, NEW n \in UserNames, NEW c \in Nat
  PROVE  /\ Arriving(pc, e, n, c) \in Asked /\ Arriving(pc, e, n, c).pc = pc
  BY DEF PolicyAssumption, CodesTypes, Arriving, Asked

\* Nothing was mailed or opened yet.
LEMMA CodesInitially == ASSUME PolicyAssumption, CodesInit PROVE CodesInv
<1>1. Idle \in Asked /\ Idle.pc = "idle"
  BY IdleAsked
<1>2. \A r \in Requests : req[r].pc = "idle"
  BY <1>1 DEF CodesInit
<1>3. /\ rows \in Seq(Row) /\ Len(rows) = 0 /\ mails \in Seq(Mail)
      /\ \A e \in Emails : lock[e] = <<>> /\ Len(lock[e]) = 0 /\ lock[e] \in Seq(Requests)
  BY EmptySeq DEF CodesInit
<1>4. CodesTypes
  BY <1>1, <1>3 DEF CodesInit, CodesTypes, PolicyAssumption
<1>5. RowsMailed /\ TriesCounted
  BY <1>3 DEF RowsMailed, TriesCounted
<1>6. RequestsFit /\ UsersFit
  BY <1>2 DEF CodesInit, RequestsFit, UsersFit, Fits
<1>7. Locked
  <2>1. \A e \in Emails : DOMAIN lock[e] = {}
    BY <1>3, LenProperties
  <2>2. \A e \in Emails : IsInjective(lock[e])
    BY <2>1 DEF IsInjective
  <2>3. \A e \in Emails, r \in Requests : ~Held(req[r], e)
    BY <1>2 DEF Held, InLock
  <2>4. QED  BY <1>2, <1>3, <2>2, <2>3 DEF Locked
<1>8. OneAccountPerCode
  BY <1>2 DEF CodesInit, OneAccountPerCode
<1>9. QED  BY <1>4, <1>5, <1>6, <1>7, <1>8 DEF CodesInv
-----------------------------------------------------------------------------
\* Mails are only added, and rows keep what they said.
Grows(rs, rs2, ms, ms2) ==
  /\ Len(rs) <= Len(rs2) /\ Len(ms) <= Len(ms2)
  /\ \A i \in 1 .. Len(rs) : Same(rs2[i], rs[i]) /\ (rs[i].consumed => rs2[i].consumed)
  /\ \A c \in 1 .. Len(ms) : ms2[c] = ms[c]

\* What a request holds of the tables still fits when the tables grow.
LEMMA FitGrows ==
  ASSUME NEW rs \in Seq(Row), NEW rs2 \in Seq(Row), NEW ms \in Seq(Mail), NEW ms2 \in Seq(Mail),
         Grows(rs, rs2, ms, ms2), NEW q \in Asked, Fits(q, rs, ms)
  PROVE  Fits(q, rs2, ms2)
<1>1. Len(rs) \in Nat /\ Len(rs2) \in Nat /\ Len(ms) \in Nat /\ Len(ms2) \in Nat
  BY LenProperties
<1>2. q.code \in Nat /\ q.row \in Nat /\ q.at \in Nat
  BY DEF Asked
<1>3. CASE q.pc = "sent"
  <2>1. q.code \in 1 .. Len(ms) /\ q.code <= Len(ms2)
    BY <1>1, <1>2, <1>3 DEF Fits, Grows
  <2>2. ms2[q.code] = ms[q.code]
    BY <2>1 DEF Grows
  <2>3. QED  BY <1>3, <2>1, <2>2 DEF Fits
<1>4. CASE q.pc \in {"wrong", "right", "creating"}
  <2>1. Sent(rs, q.row, q.email, q.name, q.at)
    BY <1>4 DEF Fits
  <2>2. q.row \in 1 .. Len(rs) /\ q.row <= Len(rs2)
    BY <1>1, <1>2, <2>1 DEF Sent, Grows
  <2>3. Same(rs2[q.row], rs[q.row]) /\ (rs[q.row].consumed => rs2[q.row].consumed)
    BY <2>2 DEF Grows
  <2>4. QED  BY <1>4, <2>1, <2>2, <2>3 DEF Fits, Sent, Same
<1>5. CASE q.pc \notin {"sent", "wrong", "right", "creating"}
  BY <1>5 DEF Fits
<1>6. QED  BY <1>3, <1>4, <1>5

\* An account stays one that a code opened when the tables grow.
LEMMA OpenedGrows ==
  ASSUME NEW rs \in Seq(Row), NEW rs2 \in Seq(Row), NEW ms, NEW ms2,
         Grows(rs, rs2, ms, ms2), NEW u \in Account, Opened(u, rs)
  PROVE  Opened(u, rs2)
<1>1. Len(rs) \in Nat /\ Len(rs2) \in Nat /\ u.row \in Nat
  BY LenProperties DEF Account
<1>2. u.row \in 1 .. Len(rs) /\ u.row <= Len(rs2)
  BY <1>1 DEF Opened, Sent, Grows
<1>3. Same(rs2[u.row], rs[u.row]) /\ (rs[u.row].consumed => rs2[u.row].consumed)
  BY <1>2 DEF Grows
<1>4. QED  BY <1>2, <1>3 DEF Opened, Sent, Same

\* A row still names its mail when mails are added.
LEMMA MailedGrows ==
  ASSUME NEW ms \in Seq(Mail), NEW ms2 \in Seq(Mail), NEW row \in Row, Mailed(row, ms),
         Len(ms) <= Len(ms2), \A c \in 1 .. Len(ms) : ms2[c] = ms[c]
  PROVE  Mailed(row, ms2)
<1>1. Len(ms) \in Nat /\ Len(ms2) \in Nat /\ row.code \in Nat
  BY LenProperties DEF Row
<1>2. row.code <= Len(ms2)
  BY <1>1 DEF Mailed
<1>3. row.status = "sent" => ms2[row.code] = ms[row.code]
  BY <1>1 DEF Mailed
<1>4. QED  BY <1>2, <1>3 DEF Mailed

\* A request takes a step: what it then says must fit, the others still do.
LEMMA FitsKeep ==
  ASSUME CodesInv, NEW r \in Requests, NEW q \in Asked, req' = [req EXCEPT ![r] = q],
         rows' \in Seq(Row), mails' \in Seq(Mail), Grows(rows, rows', mails, mails'),
         Fits(q, rows', mails')
  PROVE  /\ req' \in [Requests -> Asked] /\ RequestsFit'
         /\ \A u \in users : Opened(u, rows')
<1>1. /\ rows \in Seq(Row) /\ mails \in Seq(Mail) /\ req \in [Requests -> Asked] /\ users \subseteq Account
  BY DEF CodesInv, CodesTypes
<1>2. req' \in [Requests -> Asked] /\ \A s \in Requests : req'[s] = IF s = r THEN q ELSE req[s]
  BY <1>1
<1>3. ASSUME NEW s \in Requests
      PROVE  Fits(req'[s], rows', mails')
  <2>1. CASE s = r
    BY <1>2, <2>1
  <2>2. CASE s # r
    <3>1. Fits(req[s], rows, mails) /\ req[s] \in Asked
      BY <1>1 DEF CodesInv, RequestsFit
    <3>2. Fits(req[s], rows', mails')
      BY <1>1, <3>1, FitGrows
    <3>3. QED  BY <1>2, <2>2, <3>2
  <2>3. QED  BY <2>1, <2>2
<1>4. ASSUME NEW u \in users
      PROVE  Opened(u, rows')
  <2>1. Opened(u, rows) /\ u \in Account
    BY <1>1 DEF CodesInv, UsersFit
  <2>2. QED  BY <1>1, <2>1, OpenedGrows
<1>5. QED  BY <1>2, <1>3, <1>4 DEF RequestsFit

-----------------------------------------------------------------------------
\* The queues: a request that stays in its queue or out of every queue.
LEMMA LockedStays ==
  ASSUME CodesInv, NEW r \in Requests, NEW q \in Asked, req' = [req EXCEPT ![r] = q], lock' = lock,
         InLock(q.pc) <=> InLock(req[r].pc), InLock(q.pc) => q.email = req[r].email,
         q.pc \in {"sent", "failed"} => Runs(r)
  PROVE  Locked'
<1>1. \A s \in Requests : req'[s] = IF s = r THEN q ELSE req[s]
  BY DEF CodesInv, CodesTypes
<1>2. \A e \in Emails, s \in Requests : Held(req'[s], e) <=> Held(req[s], e)
  BY <1>1 DEF Held
<1>3. \A s \in Requests : req'[s].pc \in {"sent", "failed"} =>
        lock[req'[s].email] # <<>> /\ Head(lock[req'[s].email]) = s
  <2>1. ASSUME NEW s \in Requests, req'[s].pc \in {"sent", "failed"}
        PROVE  lock[req'[s].email] # <<>> /\ Head(lock[req'[s].email]) = s
    <3>1. CASE s = r
      BY <1>1, <2>1, <3>1 DEF Runs, InLock
    <3>2. CASE s # r
      BY <1>1, <2>1, <3>2 DEF CodesInv, Locked
    <3>3. QED  BY <3>1, <3>2
  <2>2. QED  BY <2>1
<1>4. QED  BY <1>2, <1>3 DEF CodesInv, Locked

\* The last of a queue, and the first that leaves it.
LEMMA QueuedLast ==
  ASSUME NEW S, NEW s \in Seq(S), NEW x \in S, IsInjective(s), \A i \in 1 .. Len(s) : s[i] # x
  PROVE  /\ Append(s, x) \in Seq(S) /\ IsInjective(Append(s, x)) /\ Append(s, x) # <<>>
         /\ \A y : (\E i \in 1 .. Len(Append(s, x)) : Append(s, x)[i] = y)
                     <=> y = x \/ \E i \in 1 .. Len(s) : s[i] = y
         /\ s # <<>> => Head(Append(s, x)) = Head(s)
<1> DEFINE t == Append(s, x)
<1>1. /\ t \in Seq(S) /\ Len(t) = Len(s) + 1 /\ t[Len(s) + 1] = x
      /\ \A i \in 1 .. Len(s) : t[i] = s[i]
  BY AppendProperties
<1>2. Len(s) \in Nat /\ DOMAIN s = 1 .. Len(s) /\ DOMAIN t = 1 .. Len(t)
  BY <1>1, LenProperties
<1>3. s # <<>> => Head(t) = Head(s)
  BY <1>1, <1>2, EmptySeq
<1> HIDE DEF t
<1>4. IsInjective(t)
  <2>1. ASSUME NEW a \in 1 .. Len(s) + 1, NEW b \in 1 .. Len(s) + 1, t[a] = t[b]
        PROVE  a = b
    <3>1. CASE a \in 1 .. Len(s) /\ b \in 1 .. Len(s)
      BY <1>1, <1>2, <2>1, <3>1 DEF IsInjective
    <3>2. CASE a = Len(s) + 1 /\ b \in 1 .. Len(s)
      BY <1>1, <2>1, <3>2
    <3>3. CASE b = Len(s) + 1 /\ a \in 1 .. Len(s)
      BY <1>1, <2>1, <3>3
    <3>4. QED  BY <1>2, <3>1, <3>2, <3>3
  <2>2. QED  BY <1>1, <1>2, <2>1 DEF IsInjective
<1>5. t # <<>>
  BY <1>1, <1>2, EmptySeq
<1>6. \A y : (\E i \in 1 .. Len(t) : t[i] = y) <=> y = x \/ \E i \in 1 .. Len(s) : s[i] = y
  BY <1>1, <1>2
<1>7. QED  BY <1>1, <1>3, <1>4, <1>5, <1>6 DEF t

\* The first that leaves a queue: the others keep their order behind it.
LEMMA FirstLeaves ==
  ASSUME NEW S, NEW s \in Seq(S), s # <<>>, IsInjective(s)
  PROVE  /\ Tail(s) \in Seq(S) /\ IsInjective(Tail(s))
         /\ \A y : (\E i \in 1 .. Len(Tail(s)) : Tail(s)[i] = y)
                     <=> y # Head(s) /\ \E i \in 1 .. Len(s) : s[i] = y
<1> DEFINE t == Tail(s)
<1>1. /\ t \in Seq(S) /\ Len(t) = Len(s) - 1 /\ \A i \in 1 .. Len(t) : t[i] = s[i + 1]
  BY HeadTailProperties
<1>2. Len(s) \in Nat \ {0} /\ DOMAIN s = 1 .. Len(s) /\ DOMAIN t = 1 .. Len(t)
  BY <1>1, LenProperties, EmptySeq
<1>3. Head(s) = s[1]
  OBVIOUS
<1> HIDE DEF t
<1>4. IsInjective(t)
  <2>1. ASSUME NEW a \in 1 .. Len(t), NEW b \in 1 .. Len(t), t[a] = t[b]
        PROVE  a = b
    <3>1. s[a + 1] = s[b + 1] /\ a + 1 \in 1 .. Len(s) /\ b + 1 \in 1 .. Len(s)
      BY <1>1, <1>2, <2>1
    <3>2. QED  BY <1>2, <3>1 DEF IsInjective
  <2>2. QED  BY <1>2, <2>1 DEF IsInjective
<1>5. ASSUME NEW y
      PROVE  (\E i \in 1 .. Len(t) : t[i] = y) <=> y # Head(s) /\ \E i \in 1 .. Len(s) : s[i] = y
  <2>1. ASSUME NEW i \in 1 .. Len(t), t[i] = y
        PROVE  y # Head(s) /\ \E j \in 1 .. Len(s) : s[j] = y
    <3>1. i + 1 \in 1 .. Len(s) /\ 1 \in 1 .. Len(s) /\ i + 1 # 1 /\ s[i + 1] = y
      BY <1>1, <1>2, <2>1
    <3>2. QED  BY <1>2, <1>3, <3>1 DEF IsInjective
  <2>2. ASSUME y # Head(s), NEW i \in 1 .. Len(s), s[i] = y
        PROVE  \E j \in 1 .. Len(t) : t[j] = y
    <3>1. i # 1
      BY <1>3, <2>2
    <3>2. i - 1 \in 1 .. Len(t)
      BY <1>1, <1>2, <3>1
    <3>3. t[i - 1] = s[(i - 1) + 1] /\ (i - 1) + 1 = i
      BY <1>1, <3>2
    <3>4. QED  BY <2>2, <3>2, <3>3
  <2>3. QED  BY <2>1, <2>2
<1>6. QED  BY <1>1, <1>4, <1>5 DEF t

\* A request that takes the lock of its address waits at the end of its queue (lockEmail).
LEMMA LockedQueues ==
  ASSUME CodesInv, NEW r \in Requests, NEW q \in Asked, req' = [req EXCEPT ![r] = q],
         lock' = [lock EXCEPT ![q.email] = Append(lock[q.email], r)],
         ~InLock(req[r].pc), q.pc = "queued"
  PROVE  Locked' /\ lock' \in [Emails -> Seq(Requests)]
<1>1. \A s \in Requests : req'[s] = IF s = r THEN q ELSE req[s]
  BY DEF CodesInv, CodesTypes
<1>2. q.email \in Emails /\ lock \in [Emails -> Seq(Requests)]
  BY DEF CodesInv, CodesTypes, Asked
<1>3. \A i \in 1 .. Len(lock[q.email]) : lock[q.email][i] # r
  BY <1>2 DEF CodesInv, Locked, Held
<1> DEFINE s == lock[q.email]
           t == Append(s, r)
<1>4. s \in Seq(Requests) /\ IsInjective(s)
  BY <1>2 DEF CodesInv, Locked
<1>5. /\ t \in Seq(Requests) /\ IsInjective(t) /\ t # <<>>
      /\ \A y : (\E i \in 1 .. Len(t) : t[i] = y) <=> y = r \/ \E i \in 1 .. Len(s) : s[i] = y
      /\ s # <<>> => Head(t) = Head(s)
  BY <1>3, <1>4, QueuedLast
<1>6. lock' = [lock EXCEPT ![q.email] = t]
  OBVIOUS
<1> HIDE DEF t
<1>7. lock' \in [Emails -> Seq(Requests)] /\ \A e \in Emails : lock'[e] = IF e = q.email THEN t ELSE lock[e]
  BY <1>2, <1>5, <1>6
<1>8. \A e \in Emails : IsInjective(lock'[e])
  BY <1>5, <1>7 DEF CodesInv, Locked
<1>9. ASSUME NEW e \in Emails, NEW x \in Requests
      PROVE  Held(req'[x], e) <=> \E i \in 1 .. Len(lock'[e]) : lock'[e][i] = x
  <2>1. Held(req[x], e) <=> \E i \in 1 .. Len(lock[e]) : lock[e][i] = x
    BY DEF CodesInv, Locked
  <2>2. CASE x = r
    <3>1. Held(req'[x], e) <=> e = q.email
      BY <1>1, <2>2 DEF Held, InLock
    <3>2. ~Held(req[x], e)
      BY <2>2 DEF Held
    <3>3. QED  BY <1>5, <1>7, <2>1, <2>2, <3>1, <3>2
  <2>3. CASE x # r
    <3>1. Held(req'[x], e) <=> Held(req[x], e)
      BY <1>1, <2>3
    <3>2. QED  BY <1>5, <1>7, <2>1, <2>3, <3>1
  <2>4. QED  BY <2>2, <2>3
<1>10. ASSUME NEW x \in Requests, req'[x].pc \in {"sent", "failed"}
       PROVE  lock'[req'[x].email] # <<>> /\ Head(lock'[req'[x].email]) = x
  <2>1. x # r /\ req'[x] = req[x]
    BY <1>1, <1>10
  <2>2. req[x].email \in Emails
    BY DEF CodesInv, CodesTypes, Asked
  <2>3. lock[req[x].email] # <<>> /\ Head(lock[req[x].email]) = x
    BY <1>10, <2>1 DEF CodesInv, Locked
  <2>4. QED  BY <1>5, <1>7, <2>1, <2>2, <2>3
<1>11. QED  BY <1>7, <1>8, <1>9, <1>10 DEF Locked

\* One that is answered gives the lock to the next (the finally of sendWithLock).
LEMMA LockedLeaves ==
  ASSUME CodesInv, NEW r \in Requests, NEW q \in Asked, req' = [req EXCEPT ![r] = q],
         lock' = [lock EXCEPT ![req[r].email] = Tail(lock[req[r].email])],
         req[r].pc \in {"sent", "failed"}, q.pc = "idle"
  PROVE  Locked' /\ lock' \in [Emails -> Seq(Requests)]
<1>1. \A s \in Requests : req'[s] = IF s = r THEN q ELSE req[s]
  BY DEF CodesInv, CodesTypes
<1>2. PICK m \in Emails : m = req[r].email /\ lock \in [Emails -> Seq(Requests)]
  BY DEF CodesInv, CodesTypes, Asked
<1>3. PICK s \in Seq(Requests) : s = lock[m] /\ s # <<>> /\ Head(s) = r /\ IsInjective(s)
  BY <1>2 DEF CodesInv, Locked
<1> DEFINE t == Tail(s)
<1>4. /\ t \in Seq(Requests) /\ IsInjective(t)
      /\ \A y : (\E i \in 1 .. Len(t) : t[i] = y) <=> y # r /\ \E i \in 1 .. Len(s) : s[i] = y
  <2>1. /\ Tail(s) \in Seq(Requests) /\ IsInjective(Tail(s))
        /\ \A y : (\E i \in 1 .. Len(Tail(s)) : Tail(s)[i] = y)
                     <=> y # Head(s) /\ \E i \in 1 .. Len(s) : s[i] = y
    <3>1. s \in Seq(Requests) /\ s # <<>> /\ IsInjective(s)
      BY <1>3
    <3>2. QED  BY <3>1, FirstLeaves, Zenon
  <2>2. Head(s) = r
    BY <1>3
  <2>3. QED  BY <2>1, <2>2, Zenon
<1>5. lock' = [lock EXCEPT ![m] = t]
  BY <1>2, <1>3
<1> HIDE DEF t
<1>6. lock' \in [Emails -> Seq(Requests)] /\ \A e \in Emails : lock'[e] = IF e = m THEN t ELSE lock[e]
  BY <1>2, <1>4, <1>5
<1>7. \A e \in Emails : IsInjective(lock'[e])
  BY <1>4, <1>6 DEF CodesInv, Locked
<1>8. ASSUME NEW e \in Emails, NEW x \in Requests
      PROVE  Held(req'[x], e) <=> \E i \in 1 .. Len(lock'[e]) : lock'[e][i] = x
  <2>1. Held(req[x], e) <=> \E i \in 1 .. Len(lock[e]) : lock[e][i] = x
    BY DEF CodesInv, Locked
  <2>2. CASE x = r
    <3>1. ~Held(req'[x], e)
      BY <1>1, <2>2 DEF Held, InLock
    <3>2. Held(req[x], e) <=> e = m
      BY <1>2, <2>2 DEF Held, InLock
    <3>3. QED  BY <1>3, <1>4, <1>6, <2>1, <2>2, <3>1, <3>2
  <2>3. CASE x # r
    <3>1. Held(req'[x], e) <=> Held(req[x], e)
      BY <1>1, <2>3
    <3>2. CASE e = m
      <4>1. (\E i \in 1 .. Len(t) : t[i] = x) <=> \E i \in 1 .. Len(s) : s[i] = x
        BY <1>4, <2>3
      <4>2. lock'[e] = t /\ lock[e] = s
        BY <1>3, <1>6, <3>2
      <4>3. QED  BY <2>1, <3>1, <4>1, <4>2
    <3>3. CASE e # m
      <4>1. lock'[e] = lock[e]
        BY <1>6, <3>3
      <4>2. QED  BY <2>1, <3>1, <4>1
    <3>4. QED  BY <3>2, <3>3
  <2>4. QED  BY <2>2, <2>3
<1>9. ASSUME NEW x \in Requests, req'[x].pc \in {"sent", "failed"}
      PROVE  lock'[req'[x].email] # <<>> /\ Head(lock'[req'[x].email]) = x
  <2>1. x # r /\ req'[x] = req[x]
    BY <1>1, <1>9
  <2>2. req[x].email \in Emails
    BY DEF CodesInv, CodesTypes, Asked
  <2>3. lock[req[x].email] # <<>> /\ Head(lock[req[x].email]) = x
    BY <1>9, <2>1 DEF CodesInv, Locked
  <2>4. req[x].email # m
    BY <1>3, <2>1, <2>3
  <2>5. QED  BY <1>6, <2>1, <2>2, <2>3, <2>4
<1>10. QED  BY <1>6, <1>7, <1>8, <1>9 DEF Locked
-----------------------------------------------------------------------------
\* Counting the tries: a request that counts none before or after its step.
LEMMA WrongSame ==
  ASSUME NEW rq \in [Requests -> Asked], NEW rq2, NEW r \in Requests, NEW q \in Asked,
         rq2 = [rq EXCEPT ![r] = q], rq[r].pc # "wrong", q.pc # "wrong", NEW i
  PROVE  WrongOn(rq2, i) = WrongOn(rq, i) /\ EarlyOn(rq2, i) = EarlyOn(rq, i)
<1>1. \A s \in Requests : rq2[s] = IF s = r THEN q ELSE rq[s]
  OBVIOUS
<1>2. WrongOn(rq2, i) = WrongOn(rq, i)
  BY <1>1 DEF WrongOn
<1>3. r \notin WrongOn(rq, i)
  BY DEF WrongOn
<1>4. EarlyOn(rq2, i) = EarlyOn(rq, i)
  BY <1>1, <1>2, <1>3 DEF EarlyOn, WrongOn
<1>5. QED  BY <1>2, <1>4

\* The counts are numbers, and those who come late are no more than all.
LEMMA WrongCounts ==
  ASSUME PolicyAssumption, NEW rq, NEW i
  PROVE  /\ IsFiniteSet(WrongOn(rq, i)) /\ IsFiniteSet(EarlyOn(rq, i))
         /\ Cardinality(Requests) \in Nat
         /\ Cardinality(WrongOn(rq, i)) \in Nat /\ Cardinality(EarlyOn(rq, i)) \in Nat
         /\ Cardinality(EarlyOn(rq, i)) <= Cardinality(Requests)
         /\ Cardinality(WrongOn(rq, i)) <= Cardinality(EarlyOn(rq, i)) + Cardinality(Requests)
<1> DEFINE W == WrongOn(rq, i)
           S == EarlyOn(rq, i)
<1>1. IsFiniteSet(Requests) /\ W \in SUBSET Requests /\ S \in SUBSET Requests
  BY DEF PolicyAssumption, WrongOn, EarlyOn
<1> HIDE DEF W, S
<1>2. /\ IsFiniteSet(W) /\ IsFiniteSet(S)
      /\ Cardinality(S) <= Cardinality(Requests) /\ Cardinality(W) <= Cardinality(Requests)
  BY <1>1, FS_Subset
<1>3. Cardinality(W) \in Nat /\ Cardinality(S) \in Nat /\ Cardinality(Requests) \in Nat
  BY <1>1, <1>2, FS_CardinalityType
<1>4. Cardinality(W) <= Cardinality(S) + Cardinality(Requests)
  BY <1>2, <1>3
<1>5. QED  BY <1>2, <1>3, <1>4 DEF W, S

\* Steps that count nothing: the rows stay, grow, or are used up.
LEMMA TriesKeep ==
  ASSUME PolicyAssumption, CodesInv, NEW r \in Requests, NEW q \in Asked, req' = [req EXCEPT ![r] = q],
         req[r].pc # "wrong", q.pc # "wrong", rows' \in Seq(Row),
         \A i \in 1 .. Len(rows') :
           \/ /\ i <= Len(rows) /\ rows'[i].tried = rows[i].tried
              /\ rows'[i].consumed \/ (~rows[i].consumed /\ rows'[i].attempts = rows[i].attempts)
           \/ i > Len(rows) /\ rows'[i].tried = 0 /\ rows'[i].attempts = 0
  PROVE  TriesCounted'
<1>1. req \in [Requests -> Asked] /\ rows \in Seq(Row) /\ Len(rows) \in Nat /\ Len(rows') \in Nat
  BY LenProperties DEF CodesInv, CodesTypes
<1>2. \A i : WrongOn(req', i) = WrongOn(req, i) /\ EarlyOn(req', i) = EarlyOn(req, i)
  BY <1>1, WrongSame
<1>3. MaxAttempts \in Nat \ {0} /\ Cardinality(Requests) \in Nat /\ Cardinality(Requests) # 0
  BY FS_CardinalityType, FS_EmptySet DEF PolicyAssumption
<1>4. ASSUME NEW i \in 1 .. Len(rows')
      PROVE  Counted(rows'[i], req', i)
  <2>1. CASE i <= Len(rows)
    <3>1. Counted(rows[i], req, i)
      BY <1>1, <2>1 DEF CodesInv, TriesCounted
    <3>2. /\ rows'[i].tried = rows[i].tried
          /\ rows'[i].consumed \/ (~rows[i].consumed /\ rows'[i].attempts = rows[i].attempts)
      BY <1>1, <2>1
    <3>3. QED  BY <1>2, <3>1, <3>2 DEF Counted
  <2>2. CASE i > Len(rows)
    <3>1. rows'[i].tried = 0 /\ rows'[i].attempts = 0
      BY <1>1, <2>2
    <3>2. WrongOn(req, i) = {}
      <4>1. \A s \in Requests : req[s].pc = "wrong" => req[s].row <= Len(rows)
        BY DEF CodesInv, RequestsFit, Fits, Sent
      <4>2. \A s \in Requests : req[s].row \in Nat
        BY <1>1 DEF Asked
      <4>3. QED  BY <1>1, <2>2, <4>1, <4>2 DEF WrongOn
    <3>3. EarlyOn(req, i) = {}
      BY <3>2 DEF EarlyOn
    <3>4. Cardinality(WrongOn(req', i)) = 0 /\ Cardinality(EarlyOn(req', i)) = 0
      BY <1>2, <3>2, <3>3, FS_EmptySet
    <3>5. QED  BY <1>3, <3>1, <3>4 DEF Counted
  <2>3. QED  BY <1>1, <2>1, <2>2
<1>5. QED  BY <1>4 DEF TriesCounted

\* A request is about to count a wrong try at a row that is not used up.
LEMMA TriesChecked ==
  ASSUME PolicyAssumption, CodesInv, NEW r \in Requests, NEW q \in Asked, req' = [req EXCEPT ![r] = q],
         NEW i \in 1 .. Len(rows), req[r].pc = "checking", q.pc = "wrong", q.row = i,
         q.attempts = rows[i].attempts, ~rows[i].consumed, NEW n \in Row, rows' = [rows EXCEPT ![i] = n],
         n.tried = rows[i].tried + 1, n.attempts = rows[i].attempts, n.consumed = rows[i].consumed
  PROVE  TriesCounted'
<1>1. req \in [Requests -> Asked] /\ rows \in Seq(Row) /\ Len(rows) \in Nat
  BY LenProperties DEF CodesInv, CodesTypes
<1>2. Len(rows') = Len(rows) /\ \A j \in 1 .. Len(rows) : rows'[j] = IF j = i THEN n ELSE rows[j]
  BY <1>1, ExceptSeq
<1>3. \A s \in Requests : req'[s] = IF s = r THEN q ELSE req[s]
  BY <1>1
<1>4. MaxAttempts \in Nat \ {0}
  BY DEF PolicyAssumption
<1>5. ASSUME NEW j \in 1 .. Len(rows), j # i
      PROVE  Counted(rows'[j], req', j)
  <2>1. Counted(rows[j], req, j)
    BY DEF CodesInv, TriesCounted
  <2>2. WrongOn(req', j) = WrongOn(req, j)
    BY <1>3, <1>5 DEF WrongOn
  <2>3. r \notin WrongOn(req, j)
    BY DEF WrongOn
  <2>4. EarlyOn(req', j) = EarlyOn(req, j)
    BY <1>3, <2>2, <2>3 DEF EarlyOn, WrongOn
  <2>5. QED  BY <1>2, <1>5, <2>1, <2>2, <2>4 DEF Counted
<1>6. Counted(rows'[i], req', i)
  <2>1. rows'[i] = n
    BY <1>2
  <2>2. WrongOn(req', i) = WrongOn(req, i) \cup {r} /\ r \notin WrongOn(req, i)
    BY <1>3 DEF WrongOn
  <2>3. EarlyOn(req', i) = IF rows[i].attempts + 1 < MaxAttempts THEN EarlyOn(req, i) \cup {r} ELSE EarlyOn(req, i)
    BY <1>3, <2>2 DEF EarlyOn, WrongOn
  <2>4. /\ rows[i].tried = rows[i].attempts + Cardinality(WrongOn(req, i))
        /\ rows[i].attempts + Cardinality(EarlyOn(req, i)) <= MaxAttempts + Cardinality(Requests) - 2
    BY DEF CodesInv, TriesCounted, Counted
  <2>5. Cardinality(WrongOn(req', i)) = Cardinality(WrongOn(req, i)) + 1
    BY <2>2, WrongCounts, FS_AddElement
  <2>6. rows[i].attempts \in Nat /\ rows[i].tried \in Nat
    <3>1. rows[i] \in Row
      BY <1>1, LenProperties
    <3>2. QED  BY <3>1 DEF Row
  <2>7. n.attempts + Cardinality(EarlyOn(req', i)) <= MaxAttempts + Cardinality(Requests) - 2
    <3>1. CASE rows[i].attempts + 1 < MaxAttempts
      <4>1. Cardinality(EarlyOn(req', i)) \in Nat /\ Cardinality(EarlyOn(req', i)) <= Cardinality(Requests)
            /\ Cardinality(Requests) \in Nat
        BY WrongCounts
      <4>2. QED  BY <1>4, <2>6, <3>1, <4>1
    <3>2. CASE ~(rows[i].attempts + 1 < MaxAttempts)
      BY <2>3, <2>4, <3>2
    <3>3. QED  BY <3>1, <3>2
  <2>8. n.tried = n.attempts + Cardinality(WrongOn(req', i))
    <3>1. Cardinality(WrongOn(req, i)) \in Nat
      BY WrongCounts
    <3>2. QED  BY <2>4, <2>5, <2>6, <3>1
  <2>9. n.tried <= MaxAttempts + 2 * (Cardinality(Requests) - 1)
    <3>1. /\ Cardinality(Requests) \in Nat
          /\ Cardinality(WrongOn(req', i)) \in Nat /\ Cardinality(EarlyOn(req', i)) \in Nat
          /\ Cardinality(WrongOn(req', i)) <= Cardinality(EarlyOn(req', i)) + Cardinality(Requests)
      BY WrongCounts
    <3>2. PICK a \in Nat, w \in Nat, e \in Nat, c \in Nat :
            /\ a = rows[i].attempts /\ w = Cardinality(WrongOn(req', i))
            /\ e = Cardinality(EarlyOn(req', i)) /\ c = Cardinality(Requests)
      BY <2>6, <3>1
    <3>3. a + e <= MaxAttempts + c - 2 /\ w <= e + c /\ n.tried = a + w
      BY <2>7, <2>8, <3>1, <3>2
    <3>4. a + w <= MaxAttempts + 2 * (c - 1)
      BY <1>4, <3>3
    <3>5. QED  BY <3>2, <3>3, <3>4
  <2>10. QED  BY <2>1, <2>7, <2>8, <2>9 DEF Counted
<1>7. QED  BY <1>2, <1>5, <1>6 DEF TriesCounted

\* The try is counted: a row that is used up stays as it is.
LEMMA TriesWrong ==
  ASSUME PolicyAssumption, CodesInv, NEW r \in Requests, NEW q \in Asked, req' = [req EXCEPT ![r] = q],
         NEW i \in 1 .. Len(rows), req[r].pc = "wrong", req[r].row = i, q.pc = "idle",
         \/ rows[i].consumed /\ rows' = rows
         \/ \E n \in Row :
              /\ ~rows[i].consumed /\ rows' = [rows EXCEPT ![i] = n] /\ n.tried = rows[i].tried
              /\ n.attempts = rows[i].attempts + 1
              /\ n.consumed = (req[r].attempts + 1 >= MaxAttempts)
  PROVE  TriesCounted'
<1>1. req \in [Requests -> Asked] /\ rows \in Seq(Row) /\ Len(rows) \in Nat
  BY LenProperties DEF CodesInv, CodesTypes
<1>2. /\ Len(rows') = Len(rows)
      /\ \A j \in 1 .. Len(rows) : j # i \/ rows[i].consumed => rows'[j] = rows[j]
  BY <1>1, ExceptSeq
<1>3. \A s \in Requests : req'[s] = IF s = r THEN q ELSE req[s]
  BY <1>1
<1>4. MaxAttempts \in Nat \ {0}
  BY DEF PolicyAssumption
<1>5. ASSUME NEW j \in 1 .. Len(rows), j # i
      PROVE  Counted(rows'[j], req', j)
  <2>1. Counted(rows[j], req, j)
    BY DEF CodesInv, TriesCounted
  <2>2. WrongOn(req', j) = WrongOn(req, j)
    BY <1>3, <1>5 DEF WrongOn
  <2>3. r \notin WrongOn(req, j)
    BY <1>5 DEF WrongOn
  <2>4. EarlyOn(req', j) = EarlyOn(req, j)
    BY <1>3, <2>2, <2>3 DEF EarlyOn, WrongOn
  <2>5. QED  BY <1>2, <1>5, <2>1, <2>2, <2>4 DEF Counted
<1>6. Counted(rows'[i], req', i)
  <2>1. Counted(rows[i], req, i)
    BY DEF CodesInv, TriesCounted
  <2>2. CASE rows[i].consumed
    BY <1>2, <2>1, <2>2 DEF Counted
  <2>3. CASE ~rows[i].consumed
    <3>1. PICK n \in Row : /\ rows' = [rows EXCEPT ![i] = n] /\ n.tried = rows[i].tried
                           /\ n.attempts = rows[i].attempts + 1
                           /\ n.consumed = (req[r].attempts + 1 >= MaxAttempts)
      BY <2>3
    <3>2. rows'[i] = n
      BY <1>1, <3>1, ExceptSeq
    <3>3. WrongOn(req', i) = WrongOn(req, i) \ {r} /\ r \in WrongOn(req, i)
      BY <1>3 DEF WrongOn
    <3>4. rows[i].attempts \in Nat /\ rows[i].tried \in Nat /\ req[r].attempts \in Nat
      <4>1. rows[i] \in Row /\ req[r] \in Asked
        BY <1>1, LenProperties
      <4>2. QED  BY <4>1 DEF Row, Asked
    <3>5. Cardinality(WrongOn(req', i)) = Cardinality(WrongOn(req, i)) - 1
      <4>1. IsFiniteSet(WrongOn(req, i))
        BY WrongCounts
      <4>2. r \in WrongOn(req, i)
        BY <3>3
      <4>3. Cardinality(WrongOn(req, i) \ {r}) = Cardinality(WrongOn(req, i)) - 1
        BY <4>1, <4>2, FS_RemoveElement
      <4>4. QED  BY <3>3, <4>3
    <3>6. CASE req[r].attempts + 1 < MaxAttempts
      <4>1. EarlyOn(req', i) = EarlyOn(req, i) \ {r} /\ r \in EarlyOn(req, i)
        BY <1>3, <3>3, <3>6 DEF EarlyOn, WrongOn
      <4>2. Cardinality(EarlyOn(req', i)) = Cardinality(EarlyOn(req, i)) - 1
        <5>1. IsFiniteSet(EarlyOn(req, i))
          BY WrongCounts
        <5>2. r \in EarlyOn(req, i)
          BY <4>1
        <5>3. Cardinality(EarlyOn(req, i) \ {r}) = Cardinality(EarlyOn(req, i)) - 1
          BY <5>1, <5>2, FS_RemoveElement
        <5>4. QED  BY <4>1, <5>3
      <4>3. /\ Cardinality(Requests) \in Nat
            /\ Cardinality(WrongOn(req, i)) \in Nat /\ Cardinality(EarlyOn(req, i)) \in Nat
        BY WrongCounts
      <4>4. n.tried <= MaxAttempts + 2 * (Cardinality(Requests) - 1)
        BY <2>1, <3>1 DEF Counted
      <4>5. n.tried = n.attempts + Cardinality(WrongOn(req', i))
        <5>1. rows[i].tried = rows[i].attempts + Cardinality(WrongOn(req, i))
          BY <2>1, <2>3 DEF Counted
        <5>2. n.tried = rows[i].tried /\ n.attempts = rows[i].attempts + 1
          BY <3>1
        <5>3. PICK a \in Nat, w \in Nat : a = rows[i].attempts /\ w = Cardinality(WrongOn(req, i))
          BY <3>4, <4>3
        <5>4. n.tried = a + w /\ n.attempts = a + 1 /\ Cardinality(WrongOn(req', i)) = w - 1
          BY <3>5, <5>1, <5>2, <5>3
        <5>5. \A x, y \in Nat : x + y = (x + 1) + (y - 1)
          OBVIOUS
        <5>6. a \in Nat /\ w \in Nat
          BY <5>3
        <5>7. a + w = (a + 1) + (w - 1)
          BY <5>5, <5>6
        <5>8. QED  BY <5>4, <5>7, Zenon
      <4>6. n.attempts + Cardinality(EarlyOn(req', i)) <= MaxAttempts + Cardinality(Requests) - 2
        <5>1. rows[i].attempts + Cardinality(EarlyOn(req, i)) <= MaxAttempts + Cardinality(Requests) - 2
          BY <2>1, <2>3 DEF Counted
        <5>2. n.attempts = rows[i].attempts + 1
          BY <3>1
        <5>3. QED  BY <1>4, <3>4, <4>2, <4>3, <5>1, <5>2
      <4>7. QED  BY <3>2, <4>4, <4>5, <4>6 DEF Counted
    <3>7. CASE ~(req[r].attempts + 1 < MaxAttempts)
      <4>1. n.consumed
        <5>1. req[r].attempts + 1 >= MaxAttempts
          BY <1>4, <3>4, <3>7
        <5>2. n.consumed = (req[r].attempts + 1 >= MaxAttempts)
          BY <3>1
        <5>3. QED  BY <5>1, <5>2, Zenon
      <4>2. QED  BY <2>1, <3>1, <3>2, <4>1 DEF Counted
    <3>8. QED  BY <3>6, <3>7
  <2>4. QED  BY <2>2, <2>3
<1>7. QED  BY <1>2, <1>5, <1>6 DEF TriesCounted
-----------------------------------------------------------------------------
\* A table that stays has grown by nothing.
LEMMA SameGrows == ASSUME NEW rs, NEW ms PROVE Len(rs) <= Len(rs) /\ Len(ms) <= Len(ms) => Grows(rs, rs, ms, ms)
  BY DEF Grows, Same

\* One account per code: a step that opens none.
LEMMA OneKeeps ==
  ASSUME CodesInv, NEW r \in Requests, NEW q \in Asked, req' = [req EXCEPT ![r] = q],
         users' = users, q.pc # "creating"
  PROVE  OneAccountPerCode'
<1>1. \A s \in Requests : req'[s] = IF s = r THEN q ELSE req[s]
  BY DEF CodesInv, CodesTypes
<1>2. \A s \in Requests : req'[s].pc = "creating" => s # r /\ req'[s] = req[s]
  BY <1>1
<1>3. QED  BY <1>2 DEF CodesInv, OneAccountPerCode

\* Steps that leave the rows and the accounts as they are.
LEMMA RequestSteps ==
  ASSUME PolicyAssumption, CodesInv, NEW r \in Requests, NEW q \in Asked, req' = [req EXCEPT ![r] = q],
         UNCHANGED <<now, rows, users>>, mails' \in Seq(Mail),
         Len(mails) <= Len(mails'), \A c \in 1 .. Len(mails) : mails'[c] = mails[c],
         Fits(q, rows, mails'), req[r].pc # "wrong", q.pc \notin {"wrong", "creating"},
         Locked', lock' \in [Emails -> Seq(Requests)]
  PROVE  CodesInv'
<1>1. /\ rows \in Seq(Row) /\ mails \in Seq(Mail) /\ Len(rows) \in Nat
  BY LenProperties DEF CodesInv, CodesTypes
<1>2. Grows(rows, rows', mails, mails')
  BY <1>1 DEF Grows, Same
<1>3. req' \in [Requests -> Asked] /\ RequestsFit' /\ \A u \in users : Opened(u, rows')
  BY <1>1, <1>2, FitsKeep
<1>4. CodesTypes'
  BY <1>1, <1>3 DEF CodesInv, CodesTypes
<1>5. RowsMailed'
  <2>1. ASSUME NEW i \in 1 .. Len(rows)
        PROVE  Mailed(rows[i], mails')
    <3>1. rows[i] \in Row /\ Mailed(rows[i], mails)
      BY <1>1, LenProperties DEF CodesInv, RowsMailed
    <3>2. QED  BY <1>1, <3>1, MailedGrows
  <2>2. QED  BY <2>1 DEF RowsMailed
<1>6. UsersFit'
  BY <1>3 DEF UsersFit
<1>7. OneAccountPerCode'
  BY OneKeeps
<1>8. TriesCounted'
  <2>1. \A i \in 1 .. Len(rows) : rows[i].consumed \in BOOLEAN
    <3>1. \A i \in 1 .. Len(rows) : rows[i] \in Row
      BY <1>1, LenProperties
    <3>2. QED  BY <3>1 DEF Row
  <2>2. \A i \in 1 .. Len(rows') :
           \/ /\ i <= Len(rows) /\ rows'[i].tried = rows[i].tried
              /\ rows'[i].consumed \/ (~rows[i].consumed /\ rows'[i].attempts = rows[i].attempts)
           \/ i > Len(rows) /\ rows'[i].tried = 0 /\ rows'[i].attempts = 0
    BY <1>1, <2>1
  <2>3. QED  BY <1>1, <2>2, TriesKeep
<1>9. QED  BY <1>3, <1>4, <1>5, <1>6, <1>7, <1>8 DEF CodesInv

\* Steps that add a row to the table.
LEMMA RecordSteps ==
  ASSUME PolicyAssumption, CodesInv, NEW r \in Requests, NEW q \in Asked, req' = [req EXCEPT ![r] = q],
         UNCHANGED <<now, mails, users>>, NEW row \in Row, rows' = Append(rows, row),
         Mailed(row, mails), row.tried = 0, row.attempts = 0, req[r].pc # "wrong", q.pc = "idle",
         Locked', lock' \in [Emails -> Seq(Requests)]
  PROVE  CodesInv'
<1>1. /\ rows \in Seq(Row) /\ mails \in Seq(Mail) /\ Len(rows) \in Nat /\ Len(mails) \in Nat
  BY LenProperties DEF CodesInv, CodesTypes
<1>2. /\ rows' \in Seq(Row) /\ Len(rows') = Len(rows) + 1 /\ rows'[Len(rows) + 1] = row
      /\ \A i \in 1 .. Len(rows) : rows'[i] = rows[i]
  BY <1>1, AppendProperties
<1>3. Grows(rows, rows', mails, mails')
  BY <1>1, <1>2 DEF Grows, Same
<1>4. Fits(q, rows', mails')
  BY DEF Fits
<1>5. req' \in [Requests -> Asked] /\ RequestsFit' /\ \A u \in users : Opened(u, rows')
  BY <1>1, <1>2, <1>3, <1>4, FitsKeep
<1>6. CodesTypes'
  BY <1>2, <1>5 DEF CodesInv, CodesTypes
<1>7. RowsMailed'
  <2>1. \A i \in 1 .. Len(rows) + 1 : Mailed(rows'[i], mails)
    <3>1. \A i \in 1 .. Len(rows) : Mailed(rows'[i], mails)
      BY <1>2 DEF CodesInv, RowsMailed
    <3>2. Mailed(rows'[Len(rows) + 1], mails)
      BY <1>2
    <3>3. \A i \in 1 .. Len(rows) + 1 : i \in 1 .. Len(rows) \/ i = Len(rows) + 1
      BY <1>1
    <3>4. QED  BY <3>1, <3>2, <3>3
  <2>2. QED  BY <1>2, <2>1 DEF RowsMailed
<1>8. UsersFit'
  BY <1>5 DEF UsersFit
<1>9. OneAccountPerCode'
  BY OneKeeps
<1>10. TriesCounted'
  <2>1. \A i \in 1 .. Len(rows) : rows[i].consumed \in BOOLEAN
    <3>1. \A i \in 1 .. Len(rows) : rows[i] \in Row
      BY <1>1, LenProperties
    <3>2. QED  BY <3>1 DEF Row
  <2>2. \A i \in 1 .. Len(rows') :
           \/ /\ i <= Len(rows) /\ rows'[i].tried = rows[i].tried
              /\ rows'[i].consumed \/ (~rows[i].consumed /\ rows'[i].attempts = rows[i].attempts)
           \/ i > Len(rows) /\ rows'[i].tried = 0 /\ rows'[i].attempts = 0
    BY <1>1, <1>2, <2>1
  <2>3. QED  BY <1>2, <2>2, TriesKeep
<1>11. QED  BY <1>5, <1>6, <1>7, <1>8, <1>9, <1>10 DEF CodesInv

\* Steps that write one row.
LEMMA WriteSteps ==
  ASSUME PolicyAssumption, CodesInv, NEW r \in Requests, NEW q \in Asked, req' = [req EXCEPT ![r] = q],
         UNCHANGED <<now, mails, users, lock>>, NEW i \in 1 .. Len(rows), NEW n \in Row,
         rows' = [rows EXCEPT ![i] = n], Same(n, rows[i]), n.attempts <= n.tried,
         rows[i].consumed => n.consumed, Fits(q, rows', mails), ~InLock(q.pc), ~InLock(req[r].pc),
         OneAccountPerCode', TriesCounted'
  PROVE  CodesInv'
<1>1. /\ rows \in Seq(Row) /\ mails \in Seq(Mail) /\ Len(rows) \in Nat /\ Len(mails) \in Nat
  BY LenProperties DEF CodesInv, CodesTypes
<1>2. /\ rows' \in Seq(Row) /\ Len(rows') = Len(rows)
      /\ \A j \in 1 .. Len(rows) : rows'[j] = IF j = i THEN n ELSE rows[j]
  BY <1>1, ExceptSeq
<1>3. Grows(rows, rows', mails, mails')
  BY <1>1, <1>2 DEF Grows, Same
<1>4. req' \in [Requests -> Asked] /\ RequestsFit' /\ \A u \in users : Opened(u, rows')
  BY <1>1, <1>2, <1>3, FitsKeep
<1>5. CodesTypes'
  BY <1>2, <1>4 DEF CodesInv, CodesTypes
<1>6. RowsMailed'
  <2>1. Mailed(n, mails)
    BY DEF CodesInv, RowsMailed, Mailed, Same
  <2>2. \A j \in 1 .. Len(rows) : Mailed(rows'[j], mails)
    BY <1>2, <2>1 DEF CodesInv, RowsMailed
  <2>3. QED  BY <1>2, <2>2 DEF RowsMailed
<1>7. UsersFit'
  BY <1>4 DEF UsersFit
<1>8. Locked'
  <2>1. q.pc \notin {"sent", "failed"}
    BY DEF InLock
  <2>2. QED  BY <2>1, LockedStays
<1>9. QED  BY <1>4, <1>5, <1>6, <1>7, <1>8 DEF CodesInv
-----------------------------------------------------------------------------
\* What a request that only changes its pc leaves.
LEMMA MovesAsked ==
  ASSUME CodesInv, NEW r \in Requests, NEW pc \in Steps, Moves(r, pc)
  PROVE  \E q \in Asked : /\ req' = [req EXCEPT ![r] = q] /\ q.pc = pc /\ q.email = req[r].email
                          /\ q.name = req[r].name /\ q.at = req[r].at /\ q.row = req[r].row
<1>1. req[r] \in Asked
  BY DEF CodesInv, CodesTypes
<1>2. PICK q : q = [req[r] EXCEPT !.pc = pc]
  OBVIOUS
<1>3. /\ q \in Asked /\ q.pc = pc /\ q.email = req[r].email /\ q.name = req[r].name
      /\ q.at = req[r].at /\ q.row = req[r].row
  BY <1>1, <1>2, MovedRequest
<1>4. req' = [req EXCEPT ![r] = q]
  BY <1>2 DEF Moves
<1>5. QED  BY <1>3, <1>4

\* A request arrives, with a code or for one.
LEMMA AsksKeep ==
  ASSUME PolicyAssumption, CodesInv, NEW r \in Requests, AskCode(r) \/ AskAccount(r)
  PROVE  CodesInv'
<1>0. /\ mails \in Seq(Mail) /\ Len(mails) \in Nat /\ CodesTypes
  BY LenProperties DEF CodesInv, CodesTypes
<1>1. PICK pc \in {"counting", "checking"}, e \in Emails, n \in UserNames, k \in Nat :
        req' = [req EXCEPT ![r] = Arriving(pc, e, n, k)]
  BY <1>0 DEF AskCode, AskAccount
<1>2. PICK q : q = Arriving(pc, e, n, k)
  OBVIOUS
<1>3. q \in Asked /\ q.pc = pc
  BY <1>0, <1>2, ArrivingAsked DEF Steps
<1>4. /\ req' = [req EXCEPT ![r] = q] /\ req[r].pc = "idle"
      /\ UNCHANGED <<now, rows, mails, users, lock>>
  BY <1>1, <1>2 DEF AskCode, AskAccount
<1>5. Fits(q, rows, mails')
  BY <1>3 DEF Fits
<1>6. Locked'
  BY <1>3, <1>4, LockedStays DEF InLock
<1>7. lock' \in [Emails -> Seq(Requests)]
  BY <1>0, <1>4 DEF CodesTypes
<1>8. /\ mails' \in Seq(Mail) /\ Len(mails) <= Len(mails') /\ lock' \in [Emails -> Seq(Requests)]
      /\ \A c \in 1 .. Len(mails) : mails'[c] = mails[c]
  BY <1>0, <1>4, <1>7
<1>9. req[r].pc # "wrong" /\ q.pc \notin {"wrong", "creating"} /\ UNCHANGED <<now, rows, users>>
  BY <1>3, <1>4
<1>10. QED  BY <1>3, <1>4, <1>5, <1>6, <1>8, <1>9, RequestSteps

\* A request is refused by the counts of the last hour.
LEMMA RefusesKeeps ==
  ASSUME PolicyAssumption, CodesInv, NEW r \in Requests, Refuses(r)
  PROVE  CodesInv'
<1>0. /\ mails \in Seq(Mail) /\ Len(mails) \in Nat /\ lock \in [Emails -> Seq(Requests)]
  BY LenProperties DEF CodesInv, CodesTypes
<1>1. PICK q \in Asked : req' = [req EXCEPT ![r] = q] /\ q.pc = "refused"
  BY MovesAsked DEF Refuses, Steps
<1>2. /\ req[r].pc = "counting" /\ UNCHANGED <<now, rows, mails, users, lock>>
  BY DEF Refuses
<1>3. Fits(q, rows, mails')
  BY <1>1 DEF Fits
<1>4. Locked'
  BY <1>1, <1>2, LockedStays DEF InLock
<1>5. /\ mails' \in Seq(Mail) /\ Len(mails) <= Len(mails') /\ lock' \in [Emails -> Seq(Requests)]
      /\ \A c \in 1 .. Len(mails) : mails'[c] = mails[c]
  BY <1>0, <1>2, <1>4
<1>6. req[r].pc # "wrong" /\ q.pc \notin {"wrong", "creating"} /\ UNCHANGED <<now, rows, users>>
  BY <1>1, <1>2
<1>7. QED  BY <1>1, <1>3, <1>4, <1>5, <1>6, RequestSteps

\* A request passes the counts and waits for the lock of its address.
LEMMA QueuesKeeps ==
  ASSUME PolicyAssumption, CodesInv, NEW r \in Requests, Queues(r)
  PROVE  CodesInv'
<1>0. /\ mails \in Seq(Mail) /\ Len(mails) \in Nat
  BY LenProperties DEF CodesInv, CodesTypes
<1>1. PICK q \in Asked : req' = [req EXCEPT ![r] = q] /\ q.pc = "queued" /\ q.email = req[r].email
  BY MovesAsked DEF Queues, Steps
<1>2. /\ req[r].pc = "counting" /\ UNCHANGED <<now, rows, mails, users>>
      /\ lock' = [lock EXCEPT ![q.email] = Append(lock[q.email], r)]
  BY <1>1 DEF Queues
<1>3. Fits(q, rows, mails')
  BY <1>1 DEF Fits
<1>4. Locked' /\ lock' \in [Emails -> Seq(Requests)]
  BY <1>1, <1>2, LockedQueues DEF InLock
<1>5. /\ mails' \in Seq(Mail) /\ Len(mails) <= Len(mails') /\ lock' \in [Emails -> Seq(Requests)]
      /\ \A c \in 1 .. Len(mails) : mails'[c] = mails[c]
  BY <1>0, <1>2, <1>4
<1>6. req[r].pc # "wrong" /\ q.pc \notin {"wrong", "creating"} /\ UNCHANGED <<now, rows, users>>
  BY <1>1, <1>2
<1>7. QED  BY <1>1, <1>3, <1>4, <1>5, <1>6, RequestSteps

\* The mail goes out or fails, under the lock.
LEMMA SendsKeeps ==
  ASSUME PolicyAssumption, CodesInv, NEW r \in Requests, Sends(r) \/ SendFails(r)
  PROVE  CodesInv'
<1>0. /\ mails \in Seq(Mail) /\ Len(mails) \in Nat /\ lock \in [Emails -> Seq(Requests)]
      /\ req[r] \in Asked
  BY LenProperties DEF CodesInv, CodesTypes
<1>1. CASE SendFails(r)
  <2>1. PICK q \in Asked : req' = [req EXCEPT ![r] = q] /\ q.pc = "failed" /\ q.email = req[r].email
    BY <1>1, MovesAsked DEF SendFails, Steps
  <2>2. /\ req[r].pc = "queued" /\ Runs(r) /\ UNCHANGED <<now, rows, mails, users, lock>>
    BY <1>1 DEF SendFails
  <2>3. Fits(q, rows, mails')
    BY <2>1 DEF Fits
  <2>4. Locked'
    BY <2>1, <2>2, LockedStays DEF InLock
  <2>5. /\ mails' \in Seq(Mail) /\ Len(mails) <= Len(mails') /\ lock' \in [Emails -> Seq(Requests)]
        /\ \A c \in 1 .. Len(mails) : mails'[c] = mails[c]
    BY <1>0, <2>2
  <2>6. req[r].pc # "wrong" /\ q.pc \notin {"wrong", "creating"} /\ UNCHANGED <<now, rows, users>>
    BY <2>1, <2>2
  <2>7. QED  BY <2>1, <2>3, <2>4, <2>5, <2>6, RequestSteps
<1>2. CASE Sends(r)
  <2>1. PICK q : q = [req[r] EXCEPT !.pc = "sent", !.code = Len(mails) + 1]
    OBVIOUS
  <2>2. /\ q \in Asked /\ q.pc = "sent" /\ q.email = req[r].email /\ q.name = req[r].name
        /\ q.at = req[r].at /\ q.code = Len(mails) + 1
    <3>1. PICK c \in Nat, p \in Asked : c = Len(mails) + 1 /\ p = req[r]
      BY <1>0
    <3>2. q = [p EXCEPT !.pc = "sent", !.code = c]
      BY <2>1, <3>1
    <3>3. /\ q \in Asked /\ q.pc = "sent" /\ q.email = p.email /\ q.name = p.name
          /\ q.at = p.at /\ q.code = c
      BY <3>2 DEF Asked, Steps
    <3>4. QED  BY <3>1, <3>3
  <2>3. /\ req[r].pc = "queued" /\ Runs(r) /\ UNCHANGED <<now, rows, users, lock>>
        /\ req' = [req EXCEPT ![r] = q]
    BY <1>2, <2>1 DEF Sends
  <2>4. PICK m : m = [email |-> req[r].email, name |-> req[r].name, at |-> req[r].at]
    OBVIOUS
  <2>5. m \in Mail /\ m.email = q.email /\ m.name = q.name /\ m.at = q.at
    BY <1>0, <2>2, <2>4 DEF Mail, Asked
  <2>6. mails' = Append(mails, m)
    BY <1>2, <2>4 DEF Sends
  <2>7. /\ mails' \in Seq(Mail) /\ Len(mails') = Len(mails) + 1 /\ mails'[Len(mails) + 1] = m
        /\ \A c \in 1 .. Len(mails) : mails'[c] = mails[c]
    BY <1>0, <2>5, <2>6, AppendProperties
  <2>8. Fits(q, rows, mails')
    BY <1>0, <2>2, <2>5, <2>7 DEF Fits
  <2>9. Locked'
    BY <2>2, <2>3, LockedStays DEF InLock
  <2>10. Len(mails) <= Len(mails')
    BY <1>0, <2>7
  <2>11. QED  BY <1>0, <2>2, <2>3, <2>7, <2>8, <2>9, <2>10, RequestSteps
<1>3. QED  BY <1>1, <1>2

\* The row a request leaves in the table.
LEMMA RecordedRow ==
  ASSUME PolicyAssumption, CodesInv, NEW r \in Requests, NEW status \in {"sent", "failed", "throttled"},
         NEW code, status = "sent" => req[r].pc = "sent" /\ code = req[r].code,
         status # "sent" => code = 0
  PROVE  \E row \in Row : /\ Record(r, status, code) = Append(rows, row)
                          /\ Mailed(row, mails) /\ row.tried = 0 /\ row.attempts = 0
<1>1. req[r] \in Asked /\ Fits(req[r], rows, mails) /\ mails \in Seq(Mail) /\ Len(mails) \in Nat
  BY LenProperties DEF CodesInv, CodesTypes, RequestsFit
<1>2. PICK row : row = [email |-> req[r].email, name |-> req[r].name, status |-> status,
                        code |-> code, attempts |-> 0, consumed |-> FALSE,
                        at |-> req[r].at, expires |-> req[r].at + Ttl, tried |-> 0]
  OBVIOUS
<1>3. Record(r, status, code) = Append(rows, row)
  BY <1>2 DEF Record
<1>4. code \in Nat /\ req[r].at + Ttl \in Nat /\ req[r].email \in Emails /\ req[r].name \in UserNames
      /\ req[r].at \in Nat
  BY <1>1 DEF Asked, PolicyAssumption
<1>5. row \in Row
  BY <1>2, <1>4 DEF Row
<1>6. /\ row.tried = 0 /\ row.attempts = 0 /\ row.code = code /\ row.status = status
      /\ row.email = req[r].email /\ row.name = req[r].name /\ row.expires = req[r].at + Ttl
  BY <1>2
<1>7. Mailed(row, mails)
  BY <1>1, <1>4, <1>6 DEF Mailed, Fits
<1>8. QED  BY <1>3, <1>5, <1>6, <1>7

\* The row of the mail is written, sent or failed.
LEMMA RecordsKeep ==
  ASSUME PolicyAssumption, CodesInv, NEW r \in Requests, RecordsRefusal(r) \/ RecordsSent(r) \/ RecordFails(r)
  PROVE  CodesInv'
<1>0. /\ mails \in Seq(Mail) /\ Len(mails) \in Nat /\ lock \in [Emails -> Seq(Requests)]
  BY LenProperties DEF CodesInv, CodesTypes
<1>q. PICK q \in Asked : req' = [req EXCEPT ![r] = q] /\ q.pc = "idle"
  BY IdleAsked DEF RecordsRefusal, RecordsSent, RecordFails, Ends
<1>1. CASE RecordsRefusal(r)
  <2>1. PICK row \in Row : /\ Record(r, "throttled", 0) = Append(rows, row)
                           /\ Mailed(row, mails) /\ row.tried = 0 /\ row.attempts = 0
    BY RecordedRow
  <2>2. /\ req[r].pc = "refused" /\ UNCHANGED <<now, mails, users, lock>> /\ rows' = Append(rows, row)
    BY <1>1, <2>1 DEF RecordsRefusal
  <2>3. Locked'
    BY <1>q, <2>2, LockedStays DEF InLock
  <2>4. QED  BY <1>0, <1>q, <2>1, <2>2, <2>3, RecordSteps
<1>2. CASE RecordsSent(r) \/ RecordFails(r)
  <2>1. /\ req[r].pc \in {"sent", "failed"} /\ UNCHANGED <<now, mails, users>>
        /\ lock' = [lock EXCEPT ![req[r].email] = Tail(lock[req[r].email])]
    BY <1>2 DEF RecordsSent, RecordFails, Unlock
  <2>2. Locked' /\ lock' \in [Emails -> Seq(Requests)]
    BY <1>q, <2>1, LockedLeaves
  <2>3. CASE RecordFails(r)
    <3>1. rows' = rows
      BY <2>3 DEF RecordFails
    <3>2. Fits(q, rows, mails')
      BY <1>q DEF Fits
    <3>3. /\ mails' \in Seq(Mail) /\ Len(mails) <= Len(mails') /\ lock' \in [Emails -> Seq(Requests)]
          /\ \A c \in 1 .. Len(mails) : mails'[c] = mails[c]
      BY <1>0, <2>1, <2>2
    <3>4. req[r].pc # "wrong" /\ q.pc \notin {"wrong", "creating"} /\ UNCHANGED <<now, rows, users>>
      BY <1>q, <2>1, <3>1
    <3>5. QED  BY <1>q, <2>2, <3>2, <3>3, <3>4, RequestSteps
  <2>4. CASE RecordsSent(r)
    <3>1. PICK status \in {"sent", "failed"}, code \in {0, req[r].code} :
            /\ rows' = Record(r, status, code)
            /\ status = "sent" => req[r].pc = "sent" /\ code = req[r].code
            /\ status # "sent" => code = 0
      BY <2>4 DEF RecordsSent
    <3>2. PICK row \in Row : /\ Record(r, status, code) = Append(rows, row)
                             /\ Mailed(row, mails) /\ row.tried = 0 /\ row.attempts = 0
      BY <3>1, RecordedRow
    <3>3. QED  BY <1>q, <2>1, <2>2, <3>1, <3>2, RecordSteps
  <2>5. QED  BY <1>2, <2>3, <2>4
<1>3. QED  BY <1>1, <1>2
-----------------------------------------------------------------------------
\* A check writes the tries, a wrong code the attempts, a right one uses up.
LEMMA LatestRow ==
  ASSUME CodesInv, NEW e \in Emails, NEW i \in LatestSent(e)
  PROVE  i \in 1 .. Len(rows) /\ rows[i].status = "sent" /\ rows[i].email = e /\ rows[i] \in Row
<1>1. rows \in Seq(Row)
  BY DEF CodesInv, CodesTypes
<1>2. DOMAIN rows = 1 .. Len(rows)
  BY <1>1, LenProperties
<1>3. i \in DOMAIN rows /\ rows[i].email = e /\ rows[i].status = "sent"
  BY DEF LatestSent, RowsOf
<1>4. rows[i] \in Row
  BY <1>1, <1>2, <1>3, LenProperties
<1>5. QED  BY <1>2, <1>3, <1>4

\* A code is compared with the newest row of its address (verifyCode).
LEMMA ChecksKeeps ==
  ASSUME PolicyAssumption, CodesInv, NEW r \in Requests, Checks(r)
  PROVE  CodesInv'
<1>0. /\ mails \in Seq(Mail) /\ Len(mails) \in Nat /\ lock \in [Emails -> Seq(Requests)]
      /\ req[r] \in Asked /\ req[r].email \in Emails /\ rows \in Seq(Row)
  BY LenProperties DEF CodesInv, CodesTypes, Asked
<1>u. req[r].pc = "checking" /\ UNCHANGED <<now, mails, users, lock>>
  BY DEF Checks
<1>1. CASE Ends(r) /\ UNCHANGED rows
  <2>1. PICK q \in Asked : req' = [req EXCEPT ![r] = q] /\ q.pc = "idle"
    BY <1>1, IdleAsked DEF Ends
  <2>2. Fits(q, rows, mails')
    BY <2>1 DEF Fits
  <2>3. Locked'
    BY <1>u, <2>1, LockedStays DEF InLock
  <2>4. /\ mails' \in Seq(Mail) /\ Len(mails) <= Len(mails') /\ lock' \in [Emails -> Seq(Requests)]
        /\ \A c \in 1 .. Len(mails) : mails'[c] = mails[c]
    BY <1>0, <1>u
  <2>5. req[r].pc # "wrong" /\ q.pc \notin {"wrong", "creating"} /\ UNCHANGED <<now, rows, users>>
    BY <1>1, <1>u, <2>1
  <2>6. QED  BY <2>1, <2>2, <2>3, <2>4, <2>5, RequestSteps
<1>2. ASSUME NEW i \in LatestSent(req[r].email), Usable(i, r),
             req' = [req EXCEPT ![r] =
               [req[r] EXCEPT !.pc = IF rows[i].code = req[r].code THEN "right" ELSE "wrong",
                              !.row = i, !.attempts = rows[i].attempts]],
             rows' = IF rows[i].code = req[r].code THEN rows ELSE [rows EXCEPT ![i].tried = @ + 1]
      PROVE  CodesInv'
  <2>1. i \in 1 .. Len(rows) /\ rows[i].status = "sent" /\ rows[i].email = req[r].email /\ rows[i] \in Row
    BY <1>0, LatestRow
  <2>2. PICK p \in Asked, row \in Row : p = req[r] /\ row = rows[i]
    BY <1>0, <2>1
  <2>3. PICK a \in Nat, pc \in Steps :
          a = row.attempts /\ pc = (IF rows[i].code = req[r].code THEN "right" ELSE "wrong")
    BY DEF Row, Steps
  <2>4. i \in Nat
    BY <2>1
  <2>5. PICK q : q = [p EXCEPT !.pc = pc, !.row = i, !.attempts = a]
    OBVIOUS
  <2>6. /\ q \in Asked /\ q.pc = pc /\ q.email = p.email /\ q.name = p.name /\ q.at = p.at
        /\ q.row = i /\ q.attempts = a
    BY <2>4, <2>5 DEF Asked
  <2>7. req' = [req EXCEPT ![r] = q]
    BY <1>2, <2>2, <2>3, <2>5
  <2>8. Sent(rows, i, q.email, q.name, q.at) /\ ~rows[i].consumed
    BY <1>2, <2>1, <2>2, <2>6 DEF Usable, Sent
  <2>9. CASE rows[i].code = req[r].code
    <3>1. rows' = rows /\ q.pc = "right"
      BY <1>2, <2>3, <2>6, <2>9
    <3>2. Fits(q, rows, mails')
      BY <2>6, <2>8, <3>1 DEF Fits
    <3>3. Locked'
      BY <1>u, <2>6, <2>7, <3>1, LockedStays DEF InLock
    <3>4. /\ mails' \in Seq(Mail) /\ Len(mails) <= Len(mails') /\ lock' \in [Emails -> Seq(Requests)]
          /\ \A c \in 1 .. Len(mails) : mails'[c] = mails[c]
      BY <1>0, <1>u
    <3>5. req[r].pc # "wrong" /\ q.pc \notin {"wrong", "creating"} /\ UNCHANGED <<now, rows, users>>
      BY <1>u, <3>1
    <3>6. QED  BY <2>6, <2>7, <3>2, <3>3, <3>4, <3>5, RequestSteps
  <2>10. CASE rows[i].code # req[r].code
    <3>1. q.pc = "wrong"
      BY <2>3, <2>6, <2>10
    <3>2. PICK n : n = [row EXCEPT !.tried = row.tried + 1]
      OBVIOUS
    <3>3. /\ n \in Row /\ Same(n, row) /\ n.tried = row.tried + 1
          /\ n.attempts = row.attempts /\ n.consumed = row.consumed
      BY <3>2, TriedRow
    <3>4. rows' = [rows EXCEPT ![i] = n]
      BY <1>2, <2>2, <2>10, <3>2
    <3>5. TriesCounted'
      BY <1>u, <2>1, <2>2, <2>3, <2>6, <2>7, <2>8, <3>1, <3>3, <3>4, TriesChecked
    <3>6. OneAccountPerCode'
      BY <1>u, <2>6, <2>7, <3>1, OneKeeps
    <3>7. rows'[i] = n /\ Len(rows') = Len(rows)
      BY <1>0, <2>1, <3>3, <3>4, ExceptSeq
    <3>8. Fits(q, rows', mails)
      BY <2>2, <2>6, <2>8, <3>1, <3>3, <3>7 DEF Fits, Sent, Same
    <3>9. n.attempts <= n.tried
      <4>1. row.attempts <= row.tried
        BY <2>1, <2>2 DEF CodesInv, RowsMailed, Mailed
      <4>2. row.attempts \in Nat /\ row.tried \in Nat
        BY DEF Row
      <4>3. QED  BY <3>3, <4>1, <4>2
    <3>10. ~InLock(q.pc) /\ ~InLock(req[r].pc)
      BY <1>u, <3>1 DEF InLock
    <3>11. Same(n, rows[i]) /\ (rows[i].consumed => n.consumed)
      BY <2>2, <3>3
    <3>12. QED  BY <1>u, <2>1, <2>6, <2>7, <3>3, <3>4, <3>5, <3>6, <3>8, <3>9, <3>10, <3>11, WriteSteps
  <2>11. QED  BY <2>9, <2>10
<1>3. QED  BY <1>1, <1>2 DEF Checks

\* The attempt of a wrong code is counted, from the count its check read.
LEMMA WrongKeeps ==
  ASSUME PolicyAssumption, CodesInv, NEW r \in Requests, Wrong(r)
  PROVE  CodesInv'
<1>0. /\ mails \in Seq(Mail) /\ Len(mails) \in Nat /\ lock \in [Emails -> Seq(Requests)]
      /\ req[r] \in Asked /\ rows \in Seq(Row) /\ Len(rows) \in Nat
  BY LenProperties DEF CodesInv, CodesTypes
<1>1. req[r].pc = "wrong" /\ UNCHANGED <<now, mails, users, lock>>
  BY DEF Wrong
<1>2. PICK q \in Asked : req' = [req EXCEPT ![r] = q] /\ q.pc = "idle"
  BY IdleAsked DEF Wrong, Ends
<1>3. PICK i \in 1 .. Len(rows) : i = req[r].row
  <2>1. Sent(rows, req[r].row, req[r].email, req[r].name, req[r].at)
    BY <1>1 DEF CodesInv, RequestsFit, Fits
  <2>2. req[r].row \in Nat
    BY <1>0 DEF Asked
  <2>3. QED  BY <1>0, <2>1, <2>2 DEF Sent
<1>4. PICK row \in Row : row = rows[i]
  BY <1>0, LenProperties
<1>5. OneAccountPerCode'
  BY <1>1, <1>2, OneKeeps
<1>6. CASE row.consumed
  <2>1. rows' = rows
    BY <1>3, <1>4, <1>6 DEF Wrong
  <2>2. TriesCounted'
    BY <1>1, <1>2, <1>3, <1>4, <1>6, <2>1, TriesWrong
  <2>3. Grows(rows, rows', mails, mails')
    BY <1>0, <1>1, <2>1 DEF Grows, Same
  <2>4. Fits(q, rows', mails')
    BY <1>2 DEF Fits
  <2>5. req' \in [Requests -> Asked] /\ RequestsFit' /\ \A u \in users : Opened(u, rows')
    BY <1>0, <1>1, <1>2, <2>1, <2>3, <2>4, FitsKeep
  <2>6. CodesTypes' /\ RowsMailed' /\ UsersFit'
    BY <1>1, <2>1, <2>5 DEF CodesInv, CodesTypes, RowsMailed, UsersFit
  <2>7. Locked'
    BY <1>1, <1>2, LockedStays DEF InLock
  <2>8. QED  BY <1>5, <2>2, <2>5, <2>6, <2>7 DEF CodesInv
<1>7. CASE ~row.consumed
  <2>1. PICK c \in BOOLEAN : c = (req[r].attempts + 1 >= MaxAttempts)
    <3>1. (req[r].attempts + 1 >= MaxAttempts) \in BOOLEAN
      OBVIOUS
    <3>2. QED  BY <3>1, Zenon
  <2>2. PICK n : n = [row EXCEPT !.attempts = row.attempts + 1, !.consumed = c]
    OBVIOUS
  <2>3. /\ n \in Row /\ Same(n, row) /\ n.tried = row.tried
        /\ n.attempts = row.attempts + 1 /\ n.consumed = c
    BY <2>2, WrongRow
  <2>4. rows' = [rows EXCEPT ![i] = n]
    <3>1. rows' = [rows EXCEPT ![i] = [row EXCEPT !.attempts = row.attempts + 1,
                                                 !.consumed = req[r].attempts + 1 >= MaxAttempts]]
      BY <1>3, <1>4, <1>7 DEF Wrong
    <3>2. QED  BY <2>1, <2>2, <3>1
  <2>5. TriesCounted'
    <3>1. /\ ~rows[i].consumed /\ n.tried = rows[i].tried /\ n.attempts = rows[i].attempts + 1
          /\ n.consumed = (req[r].attempts + 1 >= MaxAttempts)
      BY <1>4, <1>7, <2>1, <2>3
    <3>2. QED  BY <1>1, <1>2, <1>3, <2>3, <2>4, <3>1, TriesWrong
  <2>6. Fits(q, rows', mails)
    BY <1>2 DEF Fits
  <2>7. n.attempts <= n.tried
    <3>1. /\ row.tried = row.attempts + Cardinality(WrongOn(req, i))
          /\ Cardinality(WrongOn(req, i)) \in Nat /\ IsFiniteSet(WrongOn(req, i))
      BY <1>4, <1>7, WrongCounts DEF CodesInv, TriesCounted, Counted
    <3>2. r \in WrongOn(req, i)
      BY <1>1, <1>3 DEF WrongOn
    <3>3. Cardinality(WrongOn(req, i)) # 0
      BY <3>1, <3>2, FS_EmptySet
    <3>4. row.attempts \in Nat
      BY DEF Row
    <3>5. row.attempts + 1 <= row.tried
      BY <3>1, <3>3, <3>4
    <3>6. QED  BY <2>3, <3>5
  <2>8. ~InLock(q.pc) /\ ~InLock(req[r].pc)
    BY <1>1, <1>2 DEF InLock
  <2>9. Same(n, rows[i]) /\ (rows[i].consumed => n.consumed)
    BY <1>4, <1>7, <2>3
  <2>10. QED  BY <1>1, <1>2, <1>5, <2>3, <2>4, <2>5, <2>6, <2>7, <2>8, <2>9, WriteSteps
<1>8. QED  BY <1>6, <1>7

\* A right code uses its row up, once.
LEMMA RightKeeps ==
  ASSUME PolicyAssumption, CodesInv, NEW r \in Requests, Right(r)
  PROVE  CodesInv'
<1>0. /\ mails \in Seq(Mail) /\ Len(mails) \in Nat /\ lock \in [Emails -> Seq(Requests)]
      /\ req \in [Requests -> Asked] /\ rows \in Seq(Row) /\ Len(rows) \in Nat
  BY LenProperties DEF CodesInv, CodesTypes
<1>1. req[r].pc = "right" /\ UNCHANGED <<now, mails, users, lock>>
  BY DEF Right
<1>2. Sent(rows, req[r].row, req[r].email, req[r].name, req[r].at)
  BY <1>1 DEF CodesInv, RequestsFit, Fits
<1>3. PICK i \in 1 .. Len(rows) : i = req[r].row
  <2>1. req[r].row \in Nat
    BY <1>0 DEF Asked
  <2>2. QED  BY <1>0, <1>2, <2>1 DEF Sent
<1>4. PICK row \in Row : row = rows[i]
  BY <1>0, LenProperties
<1>5. CASE row.consumed
  <2>1. Ends(r) /\ rows' = rows
    BY <1>3, <1>4, <1>5 DEF Right
  <2>2. PICK q \in Asked : req' = [req EXCEPT ![r] = q] /\ q.pc = "idle"
    BY <2>1, IdleAsked DEF Ends
  <2>3. Fits(q, rows, mails')
    BY <2>2 DEF Fits
  <2>4. Locked'
    BY <1>1, <2>2, LockedStays DEF InLock
  <2>5. /\ mails' \in Seq(Mail) /\ Len(mails) <= Len(mails') /\ lock' \in [Emails -> Seq(Requests)]
        /\ \A c \in 1 .. Len(mails) : mails'[c] = mails[c]
    BY <1>0, <1>1
  <2>6. req[r].pc # "wrong" /\ q.pc \notin {"wrong", "creating"} /\ UNCHANGED <<now, rows, users>>
    BY <1>1, <2>1, <2>2
  <2>7. QED  BY <2>2, <2>3, <2>4, <2>5, <2>6, RequestSteps
<1>6. CASE ~row.consumed
  <2>1. PICK q \in Asked : /\ req' = [req EXCEPT ![r] = q] /\ q.pc = "creating" /\ q.email = req[r].email
                           /\ q.name = req[r].name /\ q.at = req[r].at /\ q.row = i
    <3>1. Moves(r, "creating")
      BY <1>3, <1>4, <1>6 DEF Right
    <3>2. "creating" \in Steps
      BY DEF Steps
    <3>3. PICK q \in Asked : /\ req' = [req EXCEPT ![r] = q] /\ q.pc = "creating" /\ q.email = req[r].email
                             /\ q.name = req[r].name /\ q.at = req[r].at /\ q.row = req[r].row
      BY <3>1, <3>2, MovesAsked
    <3>4. QED  BY <1>3, <3>3
  <2>2. PICK n : n = [row EXCEPT !.consumed = TRUE]
    OBVIOUS
  <2>3. /\ n \in Row /\ Same(n, row) /\ n.tried = row.tried /\ n.attempts = row.attempts /\ n.consumed = TRUE
    BY <2>2, ConsumedRow
  <2>4. rows' = [rows EXCEPT ![i] = n]
    <3>1. rows' = [rows EXCEPT ![i].consumed = TRUE]
      BY <1>3, <1>4, <1>6 DEF Right
    <3>2. QED  BY <1>4, <2>2, <3>1
  <2>5. /\ rows' \in Seq(Row) /\ Len(rows') = Len(rows)
        /\ \A j \in 1 .. Len(rows) : rows'[j] = IF j = i THEN n ELSE rows[j]
    BY <1>0, <2>3, <2>4, ExceptSeq
  <2>6. TriesCounted'
    <3>1. \A j \in 1 .. Len(rows) : rows[j].consumed \in BOOLEAN
      <4>1. \A j \in 1 .. Len(rows) : rows[j] \in Row
        BY <1>0, LenProperties
      <4>2. QED  BY <4>1 DEF Row
    <3>2. \A j \in 1 .. Len(rows') :
             \/ /\ j <= Len(rows) /\ rows'[j].tried = rows[j].tried
                /\ rows'[j].consumed \/ (~rows[j].consumed /\ rows'[j].attempts = rows[j].attempts)
             \/ j > Len(rows) /\ rows'[j].tried = 0 /\ rows'[j].attempts = 0
      BY <1>0, <1>4, <2>3, <2>5, <3>1
    <3>3. QED  BY <1>1, <2>1, <2>5, <3>2, TriesKeep
  <2>7. OneAccountPerCode'
    <3>1. \A s \in Requests : req'[s] = IF s = r THEN q ELSE req[s]
      BY <1>0, <2>1
    <3>2. \A s \in Requests : req[s].pc = "creating" => req[s].row # i
      BY <1>4, <1>6 DEF CodesInv, RequestsFit, Fits
    <3>3. \A u \in users : u.row # i
      BY <1>4, <1>6 DEF CodesInv, UsersFit, Opened
    <3>4. QED  BY <1>1, <2>1, <3>1, <3>2, <3>3 DEF CodesInv, OneAccountPerCode
  <2>8. Fits(q, rows', mails)
    BY <1>2, <1>3, <1>4, <2>1, <2>3, <2>5 DEF Fits, Sent, Same
  <2>9. ~InLock(q.pc) /\ ~InLock(req[r].pc)
    BY <1>1, <2>1 DEF InLock
  <2>10. Same(n, rows[i]) /\ (rows[i].consumed => n.consumed) /\ n.attempts <= n.tried
    BY <1>4, <2>3 DEF CodesInv, RowsMailed, Mailed
  <2>11. QED  BY <1>1, <2>1, <2>3, <2>4, <2>6, <2>7, <2>8, <2>9, <2>10, WriteSteps
<1>7. QED  BY <1>5, <1>6

\* The account of a used-up row is opened.
LEMMA CreatesKeeps ==
  ASSUME PolicyAssumption, CodesInv, NEW r \in Requests, Creates(r)
  PROVE  CodesInv'
<1>0. /\ mails \in Seq(Mail) /\ Len(mails) \in Nat /\ req \in [Requests -> Asked]
      /\ rows \in Seq(Row) /\ Len(rows) \in Nat /\ users \subseteq Account
  BY LenProperties DEF CodesInv, CodesTypes
<1>1. req[r].pc = "creating" /\ UNCHANGED <<now, rows, mails, lock>>
  BY DEF Creates
<1>2. PICK q \in Asked : req' = [req EXCEPT ![r] = q] /\ q.pc = "idle"
  BY IdleAsked DEF Creates, Ends
<1>3. PICK u : u = [name |-> req[r].name, email |-> req[r].email, row |-> req[r].row, asked |-> req[r].at]
  OBVIOUS
<1>4. users' \in {users, users \cup {u}}
  BY <1>3 DEF Creates
<1>5. u \in Account /\ u.row = req[r].row /\ u.name = req[r].name /\ u.email = req[r].email /\ u.asked = req[r].at
  <2>1. /\ req[r].name \in UserNames /\ req[r].email \in Emails /\ req[r].row \in Nat /\ req[r].at \in Nat
    BY <1>0 DEF Asked
  <2>2. QED  BY <1>3, <2>1 DEF Account
<1>6. Opened(u, rows)
  BY <1>1, <1>5 DEF CodesInv, RequestsFit, Fits, Opened
<1>7. Fits(q, rows', mails')
  BY <1>2 DEF Fits
<1>8. Grows(rows, rows', mails, mails')
  BY <1>0, <1>1 DEF Grows, Same
<1>9. req' \in [Requests -> Asked] /\ RequestsFit' /\ \A v \in users : Opened(v, rows')
  BY <1>0, <1>1, <1>2, <1>7, <1>8, FitsKeep
<1>10. CodesTypes' /\ RowsMailed' /\ UsersFit'
  BY <1>1, <1>4, <1>5, <1>6, <1>9 DEF CodesInv, CodesTypes, RowsMailed, UsersFit
<1>11. Locked'
  BY <1>1, <1>2, LockedStays DEF InLock
<1>12. OneAccountPerCode'
  <2>1. \A s \in Requests : req'[s].pc = "creating" => s # r /\ req'[s] = req[s]
    BY <1>0, <1>2
  <2>2. \A v \in users : v.row # u.row
    BY <1>1, <1>5 DEF CodesInv, OneAccountPerCode
  <2>3. \A s \in Requests : s # r /\ req[s].pc = "creating" => req[s].row # u.row
    BY <1>1, <1>5 DEF CodesInv, OneAccountPerCode
  <2>4. \A v \in users' : v \in users \/ v = u
    BY <1>4
  <2>5. \A v, w \in users' : v.row = w.row => v = w
    BY <2>2, <2>4 DEF CodesInv, OneAccountPerCode
  <2>6. \A s \in Requests, v \in users' : req'[s].pc = "creating" => req'[s].row # v.row
    BY <2>1, <2>3, <2>4 DEF CodesInv, OneAccountPerCode
  <2>7. \A s, t \in Requests : s # t /\ req'[s].pc = "creating" /\ req'[t].pc = "creating"
                                 => req'[s].row # req'[t].row
    BY <2>1 DEF CodesInv, OneAccountPerCode
  <2>8. QED  BY <2>5, <2>6, <2>7 DEF OneAccountPerCode
<1>13. TriesCounted'
  <2>1. \A i \in 1 .. Len(rows) : rows[i].consumed \in BOOLEAN
    <3>1. \A i \in 1 .. Len(rows) : rows[i] \in Row
      BY <1>0, LenProperties
    <3>2. QED  BY <3>1 DEF Row
  <2>2. \A i \in 1 .. Len(rows') :
           \/ /\ i <= Len(rows) /\ rows'[i].tried = rows[i].tried
              /\ rows'[i].consumed \/ (~rows[i].consumed /\ rows'[i].attempts = rows[i].attempts)
           \/ i > Len(rows) /\ rows'[i].tried = 0 /\ rows'[i].attempts = 0
    BY <1>0, <1>1, <2>1
  <2>3. QED  BY <1>0, <1>1, <1>2, <2>2, TriesKeep
<1>14. QED  BY <1>9, <1>10, <1>11, <1>12, <1>13 DEF CodesInv

\* No step of the e-mail codes breaks their invariant.
LEMMA CodesStep ==
  ASSUME PolicyAssumption, CodesInv, [CodesNext]_codesVars
  PROVE  CodesInv'
<1>1. CASE Tick \/ UNCHANGED codesVars
  <2>1. now' \in 1 .. MaxTime /\ UNCHANGED <<rows, mails, users, lock, req>>
    BY <1>1 DEF Tick, codesVars, CodesInv, CodesTypes, PolicyAssumption
  <2>2. CodesTypes' /\ RowsMailed' /\ RequestsFit' /\ UsersFit'
    BY <2>1 DEF CodesInv, CodesTypes, RowsMailed, RequestsFit, UsersFit
  <2>3. Locked' /\ OneAccountPerCode' /\ TriesCounted'
    BY <2>1 DEF CodesInv, Locked, OneAccountPerCode, TriesCounted
  <2>4. QED  BY <2>2, <2>3 DEF CodesInv
<1>2. ASSUME NEW r \in Requests, AskCode(r) \/ AskAccount(r)
      PROVE  CodesInv'
  BY <1>2, AsksKeep
<1>3. ASSUME NEW r \in Requests, Proceeds(r)
      PROVE  CodesInv'
  BY <1>3, RefusesKeeps, RecordsKeep, QueuesKeeps, SendsKeeps, ChecksKeeps, WrongKeeps, RightKeeps,
     CreatesKeeps DEF Proceeds
<1>4. QED  BY <1>1, <1>2, <1>3 DEF CodesNext

\* Every account was opened by a code mailed to its address for its name, in time, and no row served two.
LEMMA CodesInvImplies == ASSUME PolicyAssumption, CodesInv PROVE CodesProve
<1>0. /\ mails \in Seq(Mail) /\ Len(mails) \in Nat /\ rows \in Seq(Row) /\ DOMAIN rows = 1 .. Len(rows)
      /\ lock \in [Emails -> Seq(Requests)] /\ users \subseteq Account
  BY LenProperties DEF CodesInv, CodesTypes
<1>1. CodesTypeOK
  <2>1. ASSUME NEW i \in DOMAIN rows
        PROVE  rows[i].code \in 0 .. Len(mails) /\ rows[i].attempts <= rows[i].tried
    <3>1. rows[i] \in Row /\ Mailed(rows[i], mails)
      BY <1>0, LenProperties DEF CodesInv, RowsMailed
    <3>2. rows[i].code \in Nat
      BY <3>1 DEF Row
    <3>3. QED  BY <1>0, <3>1, <3>2 DEF Mailed
  <2>2. ASSUME NEW e \in Emails
        PROVE  /\ IsInjective(lock[e])
               /\ {lock[e][i] : i \in DOMAIN lock[e]} =
                    {r \in Requests : req[r].email = e /\ req[r].pc \in {"queued", "sent", "failed"}}
    <3>1. lock[e] \in Seq(Requests) /\ DOMAIN lock[e] = 1 .. Len(lock[e])
          /\ \A i \in 1 .. Len(lock[e]) : lock[e][i] \in Requests
      BY <1>0, LenProperties
    <3>2. \A r \in Requests : (req[r].email = e /\ req[r].pc \in {"queued", "sent", "failed"})
                                <=> \E i \in 1 .. Len(lock[e]) : lock[e][i] = r
      BY DEF CodesInv, Locked, Held, InLock
    <3>3. {lock[e][i] : i \in DOMAIN lock[e]} = {lock[e][i] : i \in 1 .. Len(lock[e])}
      BY <3>1
    <3>4. {lock[e][i] : i \in 1 .. Len(lock[e])} =
            {r \in Requests : req[r].email = e /\ req[r].pc \in {"queued", "sent", "failed"}}
      BY <3>1, <3>2
    <3>5. IsInjective(lock[e])
      BY DEF CodesInv, Locked
    <3>6. QED  BY <3>3, <3>4, <3>5
  <2>3. QED  BY <2>1, <2>2 DEF CodesInv, CodesTypes, CodesTypeOK
<1>2. AddressProven
  <2>1. ASSUME NEW u \in users
        PROVE  /\ rows[u.row].status = "sent" /\ rows[u.row].consumed
               /\ mails[rows[u.row].code].email = u.email /\ mails[rows[u.row].code].name = u.name
               /\ u.asked <= mails[rows[u.row].code].at + Ttl
    <3>1. Opened(u, rows) /\ u.row \in Nat
      BY <1>0 DEF CodesInv, UsersFit, Account
    <3>2. u.row \in 1 .. Len(rows)
      BY <1>0, <3>1, LenProperties DEF Opened, Sent
    <3>3. Mailed(rows[u.row], mails)
      BY <3>2 DEF CodesInv, RowsMailed
    <3>4. QED  BY <3>1, <3>3 DEF Opened, Sent, Mailed
  <2>2. QED  BY <2>1 DEF AddressProven
<1>3. TriesBounded
  BY <1>0 DEF CodesInv, TriesCounted, Counted, TriesBounded
<1>4. QED  BY <1>1, <1>2, <1>3 DEF CodesInv, CodesProve

\* The types, the queues, what rows, mails, requests and accounts say of one another and the
\* count of the tries hold in every state, for every set of addresses, names and requests, and every limit.
THEOREM CodesCorrect == CodesSpec => []CodesInv
<1>1. CodesInit => CodesInv
  BY CodesInitially, PolicyAssumption
<1>2. CodesInv /\ [CodesNext]_codesVars => CodesInv'
  BY CodesStep, PolicyAssumption
<1>3. QED  BY <1>1, <1>2, PTL DEF CodesSpec

\* Every account has a mailed code of its own behind it (auth.ts), however the requests interleave.
THEOREM CodesProved == CodesSpec => []CodesProve
<1>1. CodesInv => CodesProve
  BY CodesInvImplies, PolicyAssumption
<1>2. QED  BY <1>1, CodesCorrect, PTL

----------------------------------------------------------------------------
\* The catalogue of plugins.

\* A verdict says "older" only of a plugin whose own declarations once said so.
Rightly(p, k, v) == k = "older" => \E w \in 1..v : Judged(p, w) = "older"

VerdictsTrue ==
  \A p \in Plugins :
    /\ mem[p] # Nil => Rightly(p, mem[p].kind, platform)
    /\ file[p] # Nil => Rightly(p, file[p].kind, platform)
    /\ \A b \in Slots \cup {Warm} : batch[b] # Nil => Rightly(p, batch[b].out[p], platform)

\* A request that read an index, or goes on with one, found one of this format.
IndexRead ==
  \A r \in Slots : inSlot[r] # Nil /\ (inSlot[r].pc # "index" \/ inSlot[r].cached # "none")
                     => index # "foreign"

\* An import has an item left, and puts only what its scan passed.
ItemsPassed ==
  \A r \in Slots : inSlot[r] # Nil =>
    /\ inSlot[r].op = "import" => inSlot[r].left # <<>>
    /\ inSlot[r].pc = "put" => inSlot[r].op = "import" /\ inSlot[r].grade = "clean"

\* A batch is the one of a list request that has its index.
BatchGoes == \A r \in Slots : batch[r] # Nil => inSlot[r].pc = "go"

\* What holds of the catalogue in every state.
CatalogueInv ==
  CatalogueTypeOK /\ BatchGoes /\ VerdictsTrue /\ IndexRead /\ ItemsPassed /\ RefusedNeverLands

\* Nothing is read, told or stored yet.
LEMMA CatalogueInitially == ASSUME DeclaresAssumption, NilAssumption, CatalogueInit PROVE CatalogueInv
<1>1. /\ platform \in 1..MaxVersion /\ index \in {"none", "foreign"} /\ warmed = FALSE
      /\ mem \in [Plugins -> Verdict \cup {Nil}] /\ file = mem
      /\ inSlot \in [Slots -> Request \cup {Nil}]
      /\ batch \in [Slots \cup {Warm} -> Batches \cup {Nil}]
      /\ shelf \in [Plugins -> Grades \cup {Nil}]
  BY DEF DeclaresAssumption, CatalogueInit
<1>2. /\ \A p \in Plugins : mem[p] = Nil /\ shelf[p] = Nil
      /\ \A r \in Slots : inSlot[r] = Nil
      /\ \A b \in Slots \cup {Warm} : batch[b] = Nil
  BY DEF CatalogueInit
<1>3. CatalogueTypeOK
  BY <1>1, <1>2 DEF CatalogueTypeOK
<1>4. BatchGoes /\ VerdictsTrue /\ IndexRead /\ ItemsPassed /\ RefusedNeverLands
  BY <1>1, <1>2 DEF BatchGoes, VerdictsTrue, IndexRead, ItemsPassed, RefusedNeverLands
<1>5. QED  BY <1>3, <1>4 DEF CatalogueInv

\* What a request does with an index at hand.
LEMMA GoesKeeps ==
  ASSUME DeclaresAssumption, NilAssumption, CatalogueInv, NEW r \in Slots, inSlot[r] # Nil, inSlot[r].pc = "index",
         Goes(r), index' \in {"none", "fresh", "old", "foreign"}, index' # "foreign",
         UNCHANGED <<platform, mem, file, shelf>>
  PROVE  CatalogueInv'
<1> DEFINE q == inSlot[r]
           g == [q EXCEPT !.pc = "go"]
<1>1. q \in Request /\ g \in Request /\ g # Nil /\ q # Nil
  BY DEF CatalogueInv, CatalogueTypeOK, Request, NilAssumption
<1>2. /\ g.op = q.op /\ g.pc = "go" /\ g.left = q.left /\ g.grade = q.grade /\ g.cached = q.cached
  BY <1>1 DEF Request
<1>3. Judging \in Batches /\ \A p \in Plugins : Judging.out[p] = Nil
  BY DEF Judging, Batches
<1>4. inSlot' = [inSlot EXCEPT ![r] = IF q.op = "refresh" THEN Nil ELSE g]
  BY DEF Goes
<1> HIDE DEF q, g, Judging
<1>5. /\ inSlot' \in [Slots -> Request \cup {Nil}]
      /\ inSlot'[r] = IF q.op = "refresh" THEN Nil ELSE g
      /\ \A s \in Slots : s # r => inSlot'[s] = inSlot[s]
  BY <1>1, <1>4 DEF CatalogueInv, CatalogueTypeOK
<1>6. /\ batch' \in [Slots \cup {Warm} -> Batches \cup {Nil}]
      /\ \A b \in Slots \cup {Warm} : batch'[b] \in {batch[b], Judging}
      /\ batch'[r] = IF q.op = "list" THEN Judging ELSE batch[r]
      /\ \A s \in Slots : s # r => batch'[s] = batch[s]
  BY <1>3 DEF q, Goes, CatalogueInv, CatalogueTypeOK, DeclaresAssumption
<1>7. warmed' \in BOOLEAN
  BY DEF Goes, CatalogueInv, CatalogueTypeOK
<1>8. ASSUME NEW s \in Slots, batch'[s] # Nil
      PROVE  inSlot'[s] # Nil /\ inSlot'[s].op = "list" /\ inSlot'[s].pc = "go"
  <2>1. CASE s = r
    <3>1. CASE q.op = "list"
      BY <1>1, <1>2, <1>5, <2>1, <3>1
    <3>2. CASE q.op # "list"
      BY <1>6, <1>8, <2>1, <3>2 DEF q, CatalogueInv, CatalogueTypeOK
    <3>3. QED  BY <3>1, <3>2
  <2>2. CASE s # r
    BY <1>5, <1>6, <1>8, <2>2 DEF CatalogueInv, CatalogueTypeOK, BatchGoes
  <2>3. QED  BY <2>1, <2>2
<1>9. CatalogueTypeOK' /\ BatchGoes'
  BY <1>5, <1>6, <1>7, <1>8 DEF CatalogueInv, CatalogueTypeOK, BatchGoes
<1>10. VerdictsTrue'
  <2>1. \A p \in Plugins, b \in Slots \cup {Warm} : batch'[b] # Nil => Rightly(p, batch'[b].out[p], platform')
    <3> SUFFICES ASSUME NEW p \in Plugins, NEW b \in Slots \cup {Warm}, batch'[b] # Nil
                 PROVE  Rightly(p, batch'[b].out[p], platform')
      OBVIOUS
    <3>1. CASE batch'[b] = Judging
      <4>1. batch'[b].out[p] = Nil /\ Nil # "older"
        BY <1>3, <3>1 DEF NilAssumption, Kinds
      <4>2. QED  BY <4>1 DEF Rightly
    <3>2. CASE batch'[b] = batch[b]
      <4>1. Rightly(p, batch[b].out[p], platform)
        BY <3>2 DEF CatalogueInv, VerdictsTrue
      <4>2. QED  BY <3>2, <4>1
    <3>3. QED  BY <1>6, <3>1, <3>2
  <2>2. QED  BY <2>1 DEF CatalogueInv, VerdictsTrue
<1>11. IndexRead' /\ ItemsPassed'
  BY <1>1, <1>2, <1>5 DEF q, CatalogueInv, IndexRead, ItemsPassed
<1>12. RefusedNeverLands'
  BY DEF CatalogueInv, RefusedNeverLands
<1>13. QED  BY <1>9, <1>10, <1>11, <1>12 DEF CatalogueInv

\* A list or an import arrives.
LEMMA ArrivesKeeps ==
  ASSUME DeclaresAssumption, NilAssumption, CatalogueInv, NEW r \in Slots, Arrives(r)
  PROVE  CatalogueInv'
<1>1. PICK op \in {"list", "refresh", "import"}, names \in ChosenNames :
        inSlot' = [inSlot EXCEPT ![r] =
          [op |-> op, cached |-> ReadCache, pc |-> "index",
           left |-> IF op = "import" THEN names ELSE <<>>,
           grade |-> "clean"]]
  BY DEF Arrives
<1> DEFINE left == IF op = "import" THEN names ELSE <<>>
           q == [op |-> op, cached |-> ReadCache, pc |-> "index", left |-> left, grade |-> "clean"]
<1>2. left \in Seq(Plugins) /\ (op = "import" => left # <<>>)
  <2>1. names \in Seq(Plugins) /\ Len(names) = 2
    <3> DEFINE pair == <<names[1], names[2]>>
    <3>1. names \in [1..2 -> Plugins]
      BY DEF ChosenNames
    <3>2. pair \in Seq(Plugins) /\ Len(pair) = 2
      BY <3>1
    <3>3. DOMAIN pair = 1..2
      BY <3>2, LenProperties
    <3>4. pair = [i \in 1..2 |-> pair[i]] /\ names = [i \in 1..2 |-> names[i]]
      BY <3>1, <3>3
    <3>5. \A i \in 1..2 : pair[i] = names[i]
      OBVIOUS
    <3>6. pair = names
      BY <3>4, <3>5
    <3>7. QED  BY <3>2, <3>6
  <2>2. names # <<>>
    BY <2>1, EmptySeq
  <2>4. CASE op = "import"
    <3>1. left = names
      BY <2>4
    <3>2. QED  BY <2>1, <2>2, <3>1
  <2>5. CASE op # "import"
    <3>1. left = <<>>
      BY <2>5
    <3>2. QED  BY <2>5, <3>1
  <2>6. QED  BY <2>4, <2>5
<1> HIDE DEF left
<1>3. q \in Request /\ q # Nil
  BY <1>2 DEF Request, Grades, ReadCache, CatalogueInv, CatalogueTypeOK, NilAssumption
<1>4. /\ q.op = op /\ q.pc = "index" /\ q.left = left /\ q.grade = "clean"
      /\ q.cached # "none" => index # "foreign"
  BY DEF ReadCache
<1>5. inSlot' = [inSlot EXCEPT ![r] = q]
  BY <1>1 DEF left
<1> HIDE DEF q
<1>6. /\ inSlot' \in [Slots -> Request \cup {Nil}] /\ inSlot'[r] = q
      /\ \A s \in Slots : s # r => inSlot'[s] = inSlot[s]
  BY <1>3, <1>5 DEF CatalogueInv, CatalogueTypeOK
<1>7. CatalogueTypeOK' /\ BatchGoes'
  BY <1>6 DEF Arrives, CatalogueInv, CatalogueTypeOK, BatchGoes
<1>8. VerdictsTrue' /\ RefusedNeverLands'
  BY DEF Arrives, CatalogueInv, VerdictsTrue, Rightly, RefusedNeverLands
<1>9. IndexRead' /\ ItemsPassed'
  <2>1. UNCHANGED index
    BY DEF Arrives
  <2>2. ASSUME NEW s \in Slots, inSlot'[s] # Nil
        PROVE  /\ inSlot'[s].pc # "index" \/ inSlot'[s].cached # "none" => index # "foreign"
               /\ inSlot'[s].op = "import" => inSlot'[s].left # <<>>
               /\ inSlot'[s].pc = "put" => inSlot'[s].op = "import" /\ inSlot'[s].grade = "clean"
    <3>1. CASE s = r
      BY <1>2, <1>4, <1>6, <3>1
    <3>2. CASE s # r
      BY <1>6, <2>2, <3>2 DEF CatalogueInv, IndexRead, ItemsPassed
    <3>3. QED  BY <3>1, <3>2
  <2>3. QED  BY <2>1, <2>2 DEF IndexRead, ItemsPassed
<1>10. QED  BY <1>7, <1>8, <1>9 DEF CatalogueInv

\* Its index is the cached one, the one fetched, or what is left when the fetch fails.
LEMMA ReadsKeep ==
  ASSUME DeclaresAssumption, NilAssumption, CatalogueInv, NEW r \in Slots,
         UsesCache(r) \/ Fetched(r) \/ FetchFailed(r)
  PROVE  CatalogueInv'
<1>1. CASE UsesCache(r)
  BY <1>1, GoesKeeps DEF UsesCache, FromCache, CatalogueInv, IndexRead, CatalogueTypeOK
<1>2. CASE Fetched(r)
  BY <1>2, GoesKeeps DEF Fetched
<1>3. CASE FetchFailed(r) /\ inSlot[r].cached # "none"
  BY <1>3, GoesKeeps DEF FetchFailed, CatalogueInv, IndexRead, CatalogueTypeOK
<1>4. CASE FetchFailed(r) /\ inSlot[r].cached = "none"
  <2>0. inSlot' = [inSlot EXCEPT ![r] = Nil] /\ UNCHANGED <<platform, index, mem, file, warmed, batch, shelf>>
    BY <1>4 DEF FetchFailed
  <2>1. CatalogueTypeOK' /\ BatchGoes'
    <3>1. batch[r] = Nil
      BY <1>4 DEF FetchFailed, CatalogueInv, BatchGoes
    <3>2. /\ inSlot' \in [Slots -> Request \cup {Nil}]
          /\ \A s \in Slots : s # r => inSlot'[s] = inSlot[s]
      BY <2>0 DEF CatalogueInv, CatalogueTypeOK
    <3>3. QED  BY <2>0, <3>1, <3>2 DEF CatalogueInv, CatalogueTypeOK, BatchGoes
  <2>2. VerdictsTrue' /\ RefusedNeverLands'
    BY <2>0 DEF CatalogueInv, VerdictsTrue, Rightly, RefusedNeverLands
  <2>3. IndexRead' /\ ItemsPassed'
    BY <2>0 DEF CatalogueInv, CatalogueTypeOK, IndexRead, ItemsPassed
  <2>4. QED  BY <2>1, <2>2, <2>3 DEF CatalogueInv
<1>5. QED  BY <1>1, <1>2, <1>3, <1>4

\* What a worker leaves of a batch is a batch, with one entry told.
LEMMA Batched ==
  ASSUME NEW old \in Batches, NEW left \in SUBSET Plugins, NEW asking \in SUBSET Plugins,
         NEW p \in Plugins, NEW k \in Kinds \cup {Nil}, NEW new,
         new = [left |-> left, asking |-> asking, out |-> [old.out EXCEPT ![p] = k]]
  PROVE  new \in Batches /\ \A x \in Plugins : new.out[x] = IF x = p THEN k ELSE old.out[x]
<1>1. old.out \in [Plugins -> Kinds \cup {Nil}]
  BY DEF Batches
<1>2. PICK out \in [Plugins -> Kinds \cup {Nil}] : out = [old.out EXCEPT ![p] = k]
  BY <1>1
<1>3. \A x \in Plugins : out[x] = IF x = p THEN k ELSE old.out[x]
  BY <1>1, <1>2
<1>4. new = [left |-> left, asking |-> asking, out |-> out]
  BY <1>2
<1>5. new \in Batches /\ new.out = out
  BY <1>4 DEF Batches
<1>6. QED  BY <1>3, <1>5

\* The workers of a batch judge its plugins, from memory, the file or the package itself.
LEMMA WorkersKeep ==
  ASSUME DeclaresAssumption, NilAssumption, CatalogueInv, NEW b \in Slots \cup {Warm}, NEW p \in Plugins,
         TakesEntry(b, p) \/ Answered(b, p)
  PROVE  CatalogueInv'
<1>0. PICK old \in Batches : old = batch[b]
  BY DEF TakesEntry, Answered, CatalogueInv, CatalogueTypeOK
<1>u. UNCHANGED <<platform, index, file, inSlot, warmed, shelf>>
  BY DEF TakesEntry, Answered
<1>1. \E k \in Kinds \cup {Nil}, new \in Batches :
        /\ batch' = [batch EXCEPT ![b] = new]
        /\ \A x \in Plugins : new.out[x] = IF x = p THEN k ELSE old.out[x]
        /\ Rightly(p, k, platform)
        /\ \/ mem' = mem
           \/ k \in Kinds /\ mem' = [mem EXCEPT ![p] = [kind |-> k, fresh |-> TRUE]]
  <2>1. CASE TakesEntry(b, p)
    <3>1. PICK told \in Kinds \cup {Nil} : told = (IF Known(p) THEN mem[p].kind ELSE old.out[p]) /\ Rightly(p, told, platform)
      <4>1. CASE Known(p)
        BY <4>1 DEF Known, CatalogueInv, CatalogueTypeOK, VerdictsTrue, Verdict
      <4>2. CASE ~Known(p)
        BY <1>0, <2>1, <4>2 DEF TakesEntry, CatalogueInv, VerdictsTrue, Batches
      <4>3. QED  BY <4>1, <4>2
    <3>2. PICK left \in SUBSET Plugins, asking \in SUBSET Plugins :
            left = old.left \ {p} /\ asking = old.asking \cup (IF Known(p) THEN {} ELSE {p})
      BY <1>0 DEF Batches
    <3>3. /\ mem' = mem
          /\ batch' = [batch EXCEPT ![b] = [left |-> left, asking |-> asking,
               out |-> IF Known(p) THEN [old.out EXCEPT ![p] = mem[p].kind] ELSE old.out]]
      BY <1>0, <2>1, <3>2 DEF TakesEntry
    <3>4. (IF Known(p) THEN [old.out EXCEPT ![p] = mem[p].kind] ELSE old.out) = [old.out EXCEPT ![p] = told]
      <4>1. old.out \in [Plugins -> Kinds \cup {Nil}]
        BY <1>0 DEF Batches
      <4>2. QED  BY <3>1, <4>1
    <3>5. PICK out \in [Plugins -> Kinds \cup {Nil}] :
            /\ out = [old.out EXCEPT ![p] = told]
            /\ \A x \in Plugins : out[x] = IF x = p THEN told ELSE old.out[x]
      <4>1. old.out \in [Plugins -> Kinds \cup {Nil}]
        BY <1>0 DEF Batches
      <4>2. PICK kk \in Kinds \cup {Nil} : kk = told
        BY <3>1
      <4>3. PICK out \in [Plugins -> Kinds \cup {Nil}] : out = [old.out EXCEPT ![p] = kk]
        BY <4>1, <4>2
      <4>4. \A x \in Plugins : out[x] = IF x = p THEN kk ELSE old.out[x]
        BY <4>1, <4>3
      <4>5. QED  BY <4>2, <4>3, <4>4
    <3>6. PICK new \in Batches : new = [left |-> left, asking |-> asking, out |-> out] /\ new.out = out
      <4>1. [left |-> left, asking |-> asking, out |-> out] \in Batches
        BY <3>2, <3>5 DEF Batches
      <4>2. QED  BY <4>1
    <3>7. batch' = [batch EXCEPT ![b] = new]
      BY <3>3, <3>4, <3>5, <3>6
    <3>8. \A x \in Plugins : new.out[x] = IF x = p THEN told ELSE old.out[x]
      BY <3>5, <3>6
    <3>9. told \in Kinds \cup {Nil} /\ Rightly(p, told, platform) /\ mem' = mem
      BY <3>1, <3>3
    <3>10. QED  BY <3>6, <3>7, <3>8, <3>9
  <2>2. CASE Answered(b, p)
    <3>1. PICK k \in {Judged(p, platform), LookupFailed} :
            /\ mem' = [mem EXCEPT ![p] = [kind |-> k, fresh |-> TRUE]]
            /\ batch' = [batch EXCEPT ![b] = [left |-> old.left, asking |-> old.asking \ {p},
                                             out |-> [old.out EXCEPT ![p] = k]]]
      BY <1>0, <2>2 DEF Answered
    <3>3. k \in Kinds
      BY <3>1 DEF Judged, LookupFailed, Kinds
    <3>4. Rightly(p, k, platform)
      <4>1. platform \in 1..platform
        BY DEF CatalogueInv, CatalogueTypeOK
      <4>2. k = "older" => k = Judged(p, platform)
        BY <3>1 DEF LookupFailed
      <4>3. QED  BY <4>1, <4>2 DEF Rightly
    <3>5. PICK left \in SUBSET Plugins, asking \in SUBSET Plugins :
            left = old.left /\ asking = old.asking \ {p}
      BY <1>0 DEF Batches
    <3>6. PICK new : new = [left |-> left, asking |-> asking, out |-> [old.out EXCEPT ![p] = k]]
      OBVIOUS
    <3>7. new \in Batches /\ \A x \in Plugins : new.out[x] = IF x = p THEN k ELSE old.out[x]
      BY <3>3, <3>6, Batched
    <3>8. batch' = [batch EXCEPT ![b] = new]
      BY <3>1, <3>5, <3>6
    <3>9. QED  BY <3>1, <3>3, <3>4, <3>7, <3>8
  <2>3. QED  BY <2>1, <2>2
<1>2. PICK k \in Kinds \cup {Nil}, new \in Batches :
        /\ batch' = [batch EXCEPT ![b] = new]
        /\ \A x \in Plugins : new.out[x] = IF x = p THEN k ELSE old.out[x]
        /\ Rightly(p, k, platform)
        /\ \/ mem' = mem
           \/ k \in Kinds /\ mem' = [mem EXCEPT ![p] = [kind |-> k, fresh |-> TRUE]]
  BY <1>1
<1>3. /\ batch' \in [Slots \cup {Warm} -> Batches \cup {Nil}] /\ batch'[b] = new /\ batch[b] # Nil
      /\ \A c \in Slots \cup {Warm} : c # b => batch'[c] = batch[c]
  BY <1>2 DEF CatalogueInv, CatalogueTypeOK, TakesEntry, Answered
<1>4. /\ mem' \in [Plugins -> Verdict \cup {Nil}]
      /\ \A x \in Plugins : mem'[x] = mem[x] \/ (x = p /\ mem'[x].kind = k)
  <2>1. CASE mem' = mem
    <3>1. mem \in [Plugins -> Verdict \cup {Nil}]
      BY DEF CatalogueInv, CatalogueTypeOK
    <3>2. QED  BY <2>1, <3>1
  <2>2. CASE k \in Kinds /\ mem' = [mem EXCEPT ![p] = [kind |-> k, fresh |-> TRUE]]
    <3>1. PICK v \in Verdict : v = [kind |-> k, fresh |-> TRUE] /\ v.kind = k
      <4>1. [kind |-> k, fresh |-> TRUE] \in Verdict
        BY <2>2 DEF Verdict
      <4>2. [kind |-> k, fresh |-> TRUE].kind = k
        OBVIOUS
      <4>3. QED  BY <4>1, <4>2
    <3>2. mem \in [Plugins -> Verdict \cup {Nil}] /\ mem' = [mem EXCEPT ![p] = v]
      BY <2>2, <3>1 DEF CatalogueInv, CatalogueTypeOK
    <3>3. QED  BY <3>1, <3>2
  <2>3. QED  BY <1>2, <2>1, <2>2
<1>5. CatalogueTypeOK' /\ BatchGoes'
  BY <1>u, <1>3, <1>4 DEF CatalogueInv, CatalogueTypeOK, BatchGoes
<1>6. VerdictsTrue'
  <2>1. ASSUME NEW x \in Plugins
        PROVE  /\ mem'[x] # Nil => Rightly(x, mem'[x].kind, platform)
               /\ \A c \in Slots \cup {Warm} : batch'[c] # Nil => Rightly(x, batch'[c].out[x], platform)
    <3>1. mem[x] # Nil => Rightly(x, mem[x].kind, platform)
      BY DEF CatalogueInv, VerdictsTrue
    <3>2. \A c \in Slots \cup {Warm} : batch[c] # Nil => Rightly(x, batch[c].out[x], platform)
      BY DEF CatalogueInv, VerdictsTrue
    <3>3. Rightly(x, new.out[x], platform)
      BY <1>0, <1>2, <1>3, <3>2
    <3>4. QED  BY <1>2, <1>3, <1>4, <3>1, <3>2, <3>3
  <2>2. QED  BY <1>u, <2>1 DEF CatalogueInv, VerdictsTrue
<1>7. IndexRead' /\ ItemsPassed' /\ RefusedNeverLands'
  BY <1>u DEF CatalogueInv, IndexRead, ItemsPassed, RefusedNeverLands
<1>8. QED  BY <1>5, <1>6, <1>7 DEF CatalogueInv

\* A batch ends, or takes no more.
LEMMA BatchesEnd ==
  ASSUME DeclaresAssumption, NilAssumption, CatalogueInv,
         \/ \E r \in Slots : OverBudget(r)
         \/ \E b \in Slots \cup {Warm} : BatchEnds(b)
  PROVE  CatalogueInv'
<1>1. ASSUME NEW r \in Slots, OverBudget(r)
      PROVE  CatalogueInv'
  <2> DEFINE new == [batch[r] EXCEPT !.left = {}]
  <2>0. /\ batch[r] \in Batches /\ batch[r] # Nil /\ batch' = [batch EXCEPT ![r] = new]
        /\ UNCHANGED <<platform, index, mem, file, warmed, inSlot, shelf>>
    BY <1>1 DEF OverBudget, CatalogueInv, CatalogueTypeOK
  <2>1. new \in Batches /\ new.out = batch[r].out
    BY <2>0 DEF Batches
  <2> HIDE DEF new
  <2>2. /\ batch' \in [Slots \cup {Warm} -> Batches \cup {Nil}] /\ batch'[r] = new
        /\ \A c \in Slots \cup {Warm} : c # r => batch'[c] = batch[c]
    BY <2>0, <2>1 DEF CatalogueInv, CatalogueTypeOK
  <2>3. CatalogueTypeOK' /\ BatchGoes'
    BY <2>0, <2>2 DEF CatalogueInv, CatalogueTypeOK, BatchGoes
  <2>4. VerdictsTrue'
    BY <2>0, <2>1, <2>2 DEF CatalogueInv, VerdictsTrue, Rightly
  <2>5. IndexRead' /\ ItemsPassed' /\ RefusedNeverLands'
    BY <2>0 DEF CatalogueInv, IndexRead, ItemsPassed, RefusedNeverLands
  <2>6. QED  BY <2>3, <2>4, <2>5 DEF CatalogueInv
<1>2. ASSUME NEW b \in Slots \cup {Warm}, BatchEnds(b)
      PROVE  CatalogueInv'
  <2>0. /\ file' \in {mem, file} /\ batch' = [batch EXCEPT ![b] = Nil]
        /\ inSlot' = IF b = Warm THEN inSlot ELSE [inSlot EXCEPT ![b] = Nil]
        /\ UNCHANGED <<platform, index, mem, warmed, shelf>>
    BY <1>2 DEF BatchEnds
  <2>1. /\ inSlot' \in [Slots -> Request \cup {Nil}]
        /\ \A r \in Slots : IF r = b THEN inSlot'[r] \in {Nil, inSlot[r]} ELSE inSlot'[r] = inSlot[r]
    <3>1. CASE b = Warm
      BY <2>0, <3>1 DEF CatalogueInv, CatalogueTypeOK
    <3>2. CASE b # Warm
      BY <2>0, <3>2 DEF CatalogueInv, CatalogueTypeOK
    <3>3. QED  BY <3>1, <3>2
  <2>2. /\ batch' \in [Slots \cup {Warm} -> Batches \cup {Nil}]
        /\ \A c \in Slots \cup {Warm} : batch'[c] = IF c = b THEN Nil ELSE batch[c]
    BY <2>0 DEF CatalogueInv, CatalogueTypeOK
  <2>3. CatalogueTypeOK' /\ BatchGoes'
    <3>1. \A r \in Slots : batch'[r] # Nil => inSlot'[r] = inSlot[r] /\ batch[r] # Nil
      BY <2>1, <2>2
    <3>2. \A r \in Slots : batch'[r] # Nil => inSlot'[r] # Nil /\ inSlot'[r].op = "list" /\ inSlot'[r].pc = "go"
      BY <3>1 DEF CatalogueInv, CatalogueTypeOK, BatchGoes
    <3>3. file' \in [Plugins -> Verdict \cup {Nil}]
      BY <2>0 DEF CatalogueInv, CatalogueTypeOK
    <3>4. QED  BY <2>0, <2>1, <2>2, <3>2, <3>3 DEF CatalogueInv, CatalogueTypeOK, BatchGoes
  <2>4. VerdictsTrue'
    BY <2>0, <2>2 DEF CatalogueInv, VerdictsTrue, Rightly
  <2>5. IndexRead' /\ ItemsPassed' /\ RefusedNeverLands'
    BY <2>0, <2>1 DEF CatalogueInv, IndexRead, ItemsPassed, RefusedNeverLands
  <2>6. QED  BY <2>3, <2>4, <2>5 DEF CatalogueInv
<1>3. QED  BY <1>1, <1>2

\* An import goes on to its next item, or ends.
LEMMA NextItemKeeps ==
  ASSUME DeclaresAssumption, NilAssumption, CatalogueInv, NEW r \in Slots, inSlot[r] # Nil,
         inSlot[r].op = "import", inSlot[r].pc # "index",
         inSlot' = NextItem(r), RefusedNeverLands', shelf' \in [Plugins -> Grades \cup {Nil}],
         UNCHANGED <<platform, index, mem, file, warmed, batch>>
  PROVE  CatalogueInv'
<1> DEFINE q == inSlot[r]
           n == [q EXCEPT !.left = Tail(q.left), !.pc = "go"]
<1>1. q \in Request /\ q.left \in Seq(Plugins) /\ q.left # <<>> /\ batch[r] = Nil /\ index # "foreign"
  BY DEF CatalogueInv, CatalogueTypeOK, Request, ItemsPassed, IndexRead
<1>2. Len(q.left) # 1 => Tail(q.left) \in Seq(Plugins) /\ Tail(q.left) # <<>>
  <2>1. /\ Tail(q.left) \in Seq(Plugins) /\ Len(Tail(q.left)) = Len(q.left) - 1
        /\ Len(q.left) \in Nat \ {0}
    BY <1>1, HeadTailProperties, EmptySeq
  <2>2. Len(q.left) # 1 => Len(Tail(q.left)) # 0
    BY <2>1
  <2>3. Tail(q.left) = <<>> => Len(Tail(q.left)) = 0
    BY EmptySeq
  <2>4. QED  BY <2>1, <2>2, <2>3
<1>3. Len(q.left) # 1 => n \in Request /\ n.op = "import" /\ n.pc = "go" /\ n.left = Tail(q.left)
  BY <1>1, <1>2 DEF Request
<1>4. inSlot' = [inSlot EXCEPT ![r] = IF Len(q.left) = 1 THEN Nil ELSE n]
  BY DEF NextItem
<1> HIDE DEF n, q
<1>5. /\ inSlot' \in [Slots -> Request \cup {Nil}]
      /\ inSlot'[r] = IF Len(q.left) = 1 THEN Nil ELSE n
      /\ \A s \in Slots : s # r => inSlot'[s] = inSlot[s]
  BY <1>3, <1>4 DEF CatalogueInv, CatalogueTypeOK
<1>6. CatalogueTypeOK' /\ BatchGoes'
  BY <1>1, <1>5 DEF CatalogueInv, CatalogueTypeOK, BatchGoes
<1>7. VerdictsTrue'
  BY DEF CatalogueInv, VerdictsTrue, Rightly
<1>8. IndexRead' /\ ItemsPassed'
  BY <1>1, <1>2, <1>3, <1>5 DEF CatalogueInv, IndexRead, ItemsPassed
<1>9. QED  BY <1>6, <1>7, <1>8 DEF CatalogueInv

\* An import downloads, scans and puts its items one by one.
LEMMA ImportsKeep ==
  ASSUME DeclaresAssumption, NilAssumption, CatalogueInv, NEW r \in Slots, Downloads(r) \/ Puts(r)
  PROVE  CatalogueInv'
<1>1. CASE inSlot' = NextItem(r) /\ Downloads(r)
  <2>1. RefusedNeverLands'
    BY <1>1 DEF Downloads, CatalogueInv, RefusedNeverLands
  <2>2. QED  BY <1>1, <2>1, NextItemKeeps DEF Downloads, CatalogueInv, CatalogueTypeOK
<1>2. CASE Downloads(r) /\ inSlot' = [inSlot EXCEPT ![r] = [@ EXCEPT !.pc = "put", !.grade = "clean"]]
  <2> DEFINE q == inSlot[r]
             n == [q EXCEPT !.pc = "put", !.grade = "clean"]
  <2>1. q \in Request /\ q # Nil /\ q.op = "import" /\ q.pc = "go" /\ batch[r] = Nil
        /\ index # "foreign" /\ q.left # <<>>
    BY <1>2 DEF Downloads, CatalogueInv, CatalogueTypeOK, IndexRead, ItemsPassed
  <2>2. n \in Request /\ n.op = "import" /\ n.pc = "put" /\ n.grade = "clean" /\ n.left = q.left
    BY <2>1 DEF Request, Grades
  <2>3. inSlot' = [inSlot EXCEPT ![r] = n]
    BY <1>2
  <2> HIDE DEF n, q
  <2>4. /\ inSlot' \in [Slots -> Request \cup {Nil}] /\ inSlot'[r] = n
        /\ \A s \in Slots : s # r => inSlot'[s] = inSlot[s]
    BY <2>2, <2>3 DEF CatalogueInv, CatalogueTypeOK
  <2>5. CatalogueTypeOK' /\ BatchGoes'
    BY <1>2, <2>1, <2>4 DEF Downloads, CatalogueInv, CatalogueTypeOK, BatchGoes
  <2>6. VerdictsTrue' /\ RefusedNeverLands'
    BY <1>2 DEF Downloads, CatalogueInv, VerdictsTrue, Rightly, RefusedNeverLands
  <2>7. IndexRead' /\ ItemsPassed'
    BY <1>2, <2>1, <2>2, <2>4 DEF Downloads, CatalogueInv, IndexRead, ItemsPassed
  <2>8. QED  BY <2>5, <2>6, <2>7 DEF CatalogueInv
<1>3. CASE Puts(r)
  <2>1. inSlot[r] \in Request /\ inSlot[r].op = "import" /\ inSlot[r].grade = "clean"
        /\ inSlot[r].left # <<>> /\ inSlot[r].left \in Seq(Plugins)
    BY <1>3 DEF Puts, CatalogueInv, CatalogueTypeOK, ItemsPassed, Request
  <2>2. Head(inSlot[r].left) \in Plugins
    BY <2>1
  <2>3. shelf' \in [Plugins -> Grades \cup {Nil}] /\ RefusedNeverLands'
    BY <1>3, <2>1, <2>2 DEF Puts, CatalogueInv, CatalogueTypeOK, RefusedNeverLands, Grades
  <2>4. QED  BY <1>3, <2>1, <2>3, NextItemKeeps DEF Puts
<1>4. QED
  <2>1. Downloads(r) => \/ inSlot' = NextItem(r)
                        \/ inSlot' = [inSlot EXCEPT ![r] = [@ EXCEPT !.pc = "put", !.grade = "clean"]]
    BY DEF Downloads, Refused
  <2>2. QED  BY <1>1, <1>2, <1>3, <2>1

\* An index or a verdict grows old, or the portal starts again from its file.
LEMMA TimeKeeps ==
  ASSUME DeclaresAssumption, NilAssumption, CatalogueInv,
         IndexAges \/ Restart \/ \E p \in Plugins : VerdictExpires(p)
  PROVE  CatalogueInv'
<1>1. CASE IndexAges
  <2>1. CatalogueTypeOK' /\ BatchGoes' /\ VerdictsTrue'
    BY <1>1 DEF IndexAges, CatalogueInv, CatalogueTypeOK, BatchGoes, VerdictsTrue, Rightly
  <2>2. IndexRead' /\ ItemsPassed' /\ RefusedNeverLands'
    BY <1>1 DEF IndexAges, CatalogueInv, IndexRead, ItemsPassed, RefusedNeverLands
  <2>3. QED  BY <2>1, <2>2 DEF CatalogueInv
<1>2. CASE Restart
  <2>1. CatalogueTypeOK' /\ BatchGoes'
    BY <1>2 DEF Restart, CatalogueInv, CatalogueTypeOK, BatchGoes
  <2>2. VerdictsTrue'
    <3>1. platform \in Nat /\ platform' \in Nat /\ platform <= platform'
      BY <1>2 DEF Restart, CatalogueInv, CatalogueTypeOK, DeclaresAssumption
    <3>2. ASSUME NEW p \in Plugins, NEW k, Rightly(p, k, platform)
          PROVE  Rightly(p, k, platform')
      BY <3>1, <3>2 DEF Rightly
    <3>3. \A b \in Slots \cup {Warm} : batch'[b] = Nil
      BY <1>2 DEF Restart
    <3>4. mem' = file /\ file' = file
      BY <1>2 DEF Restart
    <3>5. \A p \in Plugins : file[p] # Nil => Rightly(p, file[p].kind, platform)
      BY DEF CatalogueInv, VerdictsTrue
    <3>6. \A p \in Plugins : file[p] # Nil => Rightly(p, file[p].kind, platform')
      BY <3>2, <3>5
    <3>7. QED  BY <3>3, <3>4, <3>6 DEF VerdictsTrue
  <2>3. IndexRead' /\ ItemsPassed' /\ RefusedNeverLands'
    BY <1>2 DEF Restart, CatalogueInv, IndexRead, ItemsPassed, RefusedNeverLands
  <2>4. QED  BY <2>1, <2>2, <2>3 DEF CatalogueInv
<1>3. ASSUME NEW p \in Plugins, VerdictExpires(p)
      PROVE  CatalogueInv'
  <2>1. ASSUME NEW f \in [Plugins -> Verdict \cup {Nil}]
        PROVE  /\ Aged(f, p) \in [Plugins -> Verdict \cup {Nil}]
               /\ \A x \in Plugins : \/ Aged(f, p)[x] = f[x]
                                     \/ f[x] # Nil /\ Aged(f, p)[x].kind = f[x].kind
    BY <2>1 DEF Aged, Verdict
  <2>2. mem' = Aged(mem, p) /\ file' = Aged(file, p)
        /\ UNCHANGED <<platform, index, warmed, inSlot, batch, shelf>>
    BY <1>3 DEF VerdictExpires
  <2>3. /\ mem \in [Plugins -> Verdict \cup {Nil}] /\ file \in [Plugins -> Verdict \cup {Nil}]
    BY DEF CatalogueInv, CatalogueTypeOK
  <2>4. /\ mem' \in [Plugins -> Verdict \cup {Nil}] /\ file' \in [Plugins -> Verdict \cup {Nil}]
        /\ \A x \in Plugins :
             /\ mem'[x] = mem[x] \/ (mem[x] # Nil /\ mem'[x].kind = mem[x].kind)
             /\ file'[x] = file[x] \/ (file[x] # Nil /\ file'[x].kind = file[x].kind)
    BY <2>1, <2>2, <2>3
  <2>5. CatalogueTypeOK' /\ BatchGoes'
    BY <2>2, <2>4 DEF CatalogueInv, CatalogueTypeOK, BatchGoes
  <2>6. VerdictsTrue'
    BY <2>2, <2>4 DEF CatalogueInv, VerdictsTrue, Rightly
  <2>7. IndexRead' /\ ItemsPassed' /\ RefusedNeverLands'
    BY <2>2 DEF CatalogueInv, IndexRead, ItemsPassed, RefusedNeverLands
  <2>8. QED  BY <2>5, <2>6, <2>7 DEF CatalogueInv
<1>4. QED  BY <1>1, <1>2, <1>3

\* No step of the catalogue breaks its invariant.
LEMMA CatalogueStep ==
  ASSUME DeclaresAssumption, NilAssumption, CatalogueInv, [CatalogueNext]_catalogueVars
  PROVE  CatalogueInv'
<1>1. ASSUME NEW r \in Slots, Arrives(r)
      PROVE  CatalogueInv'
  BY <1>1, ArrivesKeeps
<1>2. ASSUME NEW r \in Slots, UsesCache(r) \/ Fetched(r) \/ FetchFailed(r)
      PROVE  CatalogueInv'
  BY <1>2, ReadsKeep
<1>3. ASSUME NEW r \in Slots, OverBudget(r)
      PROVE  CatalogueInv'
  BY <1>3, BatchesEnd
<1>4. ASSUME NEW r \in Slots, Downloads(r) \/ Puts(r)
      PROVE  CatalogueInv'
  BY <1>4, ImportsKeep
<1>5. ASSUME NEW b \in Slots \cup {Warm}, NEW p \in Plugins, TakesEntry(b, p) \/ Answered(b, p)
      PROVE  CatalogueInv'
  BY <1>5, WorkersKeep
<1>6. ASSUME NEW b \in Slots \cup {Warm}, BatchEnds(b)
      PROVE  CatalogueInv'
  BY <1>6, BatchesEnd
<1>7. CASE IndexAges \/ Restart \/ \E p \in Plugins : VerdictExpires(p)
  BY <1>7, TimeKeeps
<1>8. CASE UNCHANGED catalogueVars
  BY <1>8 DEF catalogueVars, CatalogueInv, CatalogueTypeOK, BatchGoes, VerdictsTrue, Rightly, IndexRead,
              ItemsPassed, RefusedNeverLands
<1>9. QED  BY <1>1, <1>2, <1>3, <1>4, <1>5, <1>6, <1>7, <1>8 DEF CatalogueNext

\* Declarations that say "older": one is unmet and none asks for a newer version.
LEMMA OlderUnmet ==
  ASSUME NEW p \in Plugins, NEW v, Judged(p, v) = "older"
  PROVE  /\ \E d \in Declares[p] : Unmet(d, v)
         /\ \A d \in Declares[p] : Unmet(d, v) => ~AsksNewer(d, v)
<1> DEFINE unmet == {d \in Declares[p] : Unmet(d, v)}
<1>1. ~(\E d \in unmet : AsksNewer(d, v)) /\ unmet # {}
  BY DEF Judged
<1>2. QED  BY <1>1

\* A plugin that is hidden had a range that was unmet, and nothing refused is stored.
LEMMA CatalogueInvImplies == ASSUME CatalogueInv PROVE WhitelistHonest
<1>1. HiddenWasUnmet
  <2> SUFFICES ASSUME NEW r \in Slots, batch[r] # Nil, NEW p \in Hidden(r)
               PROVE  \E v \in 1..platform :
                        /\ \E d \in Declares[p] : Unmet(d, v)
                        /\ \A d \in Declares[p] : Unmet(d, v) => ~AsksNewer(d, v)
    BY DEF HiddenWasUnmet
  <2>1. p \in Plugins /\ batch[r].out[p] = "older"
    BY DEF Hidden
  <2>2. PICK v \in 1..platform : Judged(p, v) = "older"
    BY <2>1 DEF CatalogueInv, VerdictsTrue, Rightly
  <2>3. QED  BY <2>1, <2>2, OlderUnmet
<1>2. NoForeignIndex
  BY DEF CatalogueInv, IndexRead, NoForeignIndex
<1>3. QED  BY <1>1, <1>2 DEF CatalogueInv, WhitelistHonest

\* What the verdicts, batches, requests and imports hold is right in every state, for every set of plugins and ranges.
THEOREM CatalogueCorrect == CatalogueSpec => []CatalogueInv
<1>1. CatalogueInit => CatalogueInv
  BY CatalogueInitially, DeclaresAssumption, NilAssumption
<1>2. CatalogueInv /\ [CatalogueNext]_catalogueVars => CatalogueInv'
  BY CatalogueStep, DeclaresAssumption, NilAssumption
<1>3. QED  BY <1>1, <1>2, PTL DEF CatalogueSpec

\* The catalogue hides no plugin whose ranges were always met, and stores none that its scan
\* refused (whitelist.ts, plugin-dsh-compat.ts), whatever lookups fail, whatever is asked of
\* the platform, readable or not, and however it is upgraded.
THEOREM CatalogueHonest == CatalogueSpec => []WhitelistHonest
<1>1. CatalogueInv => WhitelistHonest
  BY CatalogueInvImplies
<1>2. QED  BY <1>1, CatalogueCorrect, PTL

----------------------------------------------------------------------------
\* The choice of a node.

\* Of the sets of a finite family of finite sets, one has none of the others in it.
LEMMA LeastOfFamily ==
  ASSUME NEW S, IsFiniteSet(S), NEW F \in SUBSET (SUBSET S), F # {}
  PROVE  \E T \in F : \A U \in F : U \subseteq T => U = T
<1>1. IsWellFoundedOn(StrictSubsetOrdering(S), SUBSET S)
  BY FS_StrictSubsetOrderingWellFounded, FS_FiniteSubsetsOfFinite
<1>2. PICK T \in F : \A U \in F : <<U, T>> \notin StrictSubsetOrdering(S)
  BY <1>1, WFMin
<1>3. QED  BY <1>2 DEF StrictSubsetOrdering

\* A finite set that is not empty has a first element in every strict total order.
LEMMA FirstOfOrder ==
  ASSUME NEW S, IsFiniteSet(S), S # {}, NEW A,
         \A c, d \in S : c # d => <<c, d>> \in A \/ <<d, c>> \in A,
         \A c, d, e \in S : <<c, d>> \in A /\ <<d, e>> \in A => <<c, e>> \in A
  PROVE  \E c \in S : \A d \in S \ {c} : <<c, d>> \in A
<1> DEFINE HasFirst(T) == \E c \in T : \A d \in T \ {c} : <<c, d>> \in A
           F == {T \in SUBSET S : T # {} /\ ~HasFirst(T)}
<1>1. ASSUME F # {}
      PROVE  FALSE
  <2>1. PICK T \in F : \A U \in F : U \subseteq T => U = T
    <3>1. F \in SUBSET (SUBSET S)
      OBVIOUS
    <3> HIDE DEF F
    <3>2. QED  BY <1>1, <3>1, LeastOfFamily
  <2>2. PICK x \in T : TRUE
    OBVIOUS
  <2>3. CASE T \ {x} = {}
    BY <2>2, <2>3
  <2>4. CASE T \ {x} # {}
    <3>1. T \ {x} \notin F
      <4>1. T \ {x} \subseteq T /\ T \ {x} # T
        BY <2>2
      <4> HIDE DEF F
      <4>2. QED  BY <2>1, <4>1
    <3>2. PICK c \in T \ {x} : \A d \in (T \ {x}) \ {c} : <<c, d>> \in A
      BY <2>4, <3>1
    <3>3. CASE <<c, x>> \in A
      <4>1. \A d \in T \ {c} : <<c, d>> \in A
        BY <3>2, <3>3
      <4>2. QED  BY <3>2, <4>1
    <3>4. CASE <<x, c>> \in A
      <4>1. \A d \in T \ {x} : <<x, d>> \in A
        BY <3>2, <3>4
      <4>2. QED  BY <2>2, <4>1
    <3>5. QED  BY <2>2, <3>2, <3>3, <3>4
  <2>5. QED  BY <2>3, <2>4
<1>2. QED  BY <1>1

\* Quotients of numbers keep the order of the fractions.
LEMMA QuotientsOrdered ==
  ASSUME NEW a \in Nat, NEW b \in Nat \ {0}, NEW c \in Nat, NEW d \in Nat \ {0}, a * d <= c * b
  PROVE  a \div b <= c \div d
<1>1. PICK q \in Nat : q = a \div b /\ q * b <= a
  OBVIOUS
<1>2. PICK p \in Nat : p = c \div d /\ c < (p + 1) * d
  OBVIOUS
<1>3. ASSUME q >= p + 1
      PROVE  FALSE
  <2>1. PICK n \in Nat : q = p + 1 + n
    BY <1>3
  <2>2. q * b * d <= a * d
    BY <1>1
  <2>3. c * b < (p + 1) * d * b
    BY <1>2
  <2>4. q * b * d = (p + 1) * d * b + n * b * d /\ n * b * d \in Nat
    BY <2>1
  <2>5. QED  BY <2>2, <2>3, <2>4
<1>4. QED  BY <1>1, <1>2, <1>3

\* Products of numbers keep their order.
LEMMA ProductsOrdered ==
  ASSUME NEW a \in Nat, NEW b \in Nat, NEW x \in Nat, NEW y \in Nat, a >= b, x >= y
  PROVE  a * x >= b * y
<1>1. PICK p \in Nat, q \in Nat : a = b + p /\ x = y + q
  OBVIOUS
<1>2. a * x = b * y + b * q + p * y + p * q
  BY <1>1
<1>3. b * y \in Nat /\ b * q \in Nat /\ p * y \in Nat /\ p * q \in Nat
  OBVIOUS
<1>4. QED  BY <1>2, <1>3
-----------------------------------------------------------------------------
\* What the choice is made from.
Surveyed ==
  /\ offered \in 0..Len(Ids) /\ seen \in [Nodes -> Profile] /\ asked \in Nodes \cup {NoNode}
  /\ queues \in BOOLEAN

\* The candidates are finitely many nodes, and none of them is no node.
LEMMA CandidatesFinite ==
  ASSUME RangesAssumption, Surveyed
  PROVE  /\ IsFiniteSet(Candidates) /\ Candidates \subseteq Nodes /\ NoNode \notin Nodes
         /\ offered # 0 => Candidates # {}
<1>1. Len(Ids) \in Nat \ {0} /\ \A i \in 1..Len(Ids) : Ids[i] # NoNode
  BY DEF RangesAssumption
<1>2. offered \in Nat /\ 1..offered \subseteq 1..Len(Ids)
  BY <1>1 DEF Surveyed
<1> DEFINE f == [i \in 1..offered |-> Ids[i]]
<1>3. f \in Surjection(1..offered, Candidates)
  BY DEF Surjection, Candidates
<1>4. IsFiniteSet(1..offered)
  BY <1>2, FS_Interval
<1>5. IsFiniteSet(Candidates)
  BY <1>3, <1>4, FS_Surjection
<1>6. offered # 0 => 1 \in 1..offered
  BY <1>2
<1>7. offered # 0 => Ids[1] \in Candidates
  BY <1>6 DEF Candidates
<1>8. Candidates \subseteq Nodes /\ NoNode \notin Nodes
  BY <1>1, <1>2 DEF Candidates, Nodes
<1>9. QED  BY <1>5, <1>7, <1>8

\* A node stands where its index says.
LEMMA Indexed ==
  ASSUME RangesAssumption, NEW c \in Nodes
  PROVE  Index(c) \in Nat /\ Ids[Index(c)] = c
<1>1. \E i \in 1..Len(Ids) : Ids[i] = c
  BY DEF Nodes
<1>2. Len(Ids) \in Nat
  BY DEF RangesAssumption
<1>3. QED  BY <1>1, <1>2 DEF Index

\* What the survey says of a node is numbers.
LEMMA SeenNumbers ==
  ASSUME RangesAssumption, Surveyed, NEW c \in Nodes
  PROVE  /\ seen[c].weight \in Nat \ {0} /\ seen[c].failures \in Nat
         /\ seen[c].load.max \in Nat /\ seen[c].load.used \in Nat
         /\ seen[c].rtt # NoNode => seen[c].rtt \in Nat
<1>1. seen[c] \in Profile
  BY DEF Surveyed
<1>2. seen[c].load \in [max : Nat, used : Nat]
  BY <1>1 DEF Profile, RangesAssumption
<1>3. QED  BY <1>1, <1>2 DEF Profile, RangesAssumption

\* So are its speed, its load and its score.
LEMMA ScoreNumbers ==
  ASSUME RangesAssumption, Surveyed, NEW c \in Nodes
  PROVE  Speed(c) \in Nat /\ Load(c) \in Nat /\ Score(c) \in Int
<1>1. /\ seen[c].weight \in Nat /\ seen[c].failures \in Nat
      /\ seen[c].load.max \in Nat /\ seen[c].load.used \in Nat
      /\ seen[c].rtt # NoNode => seen[c].rtt \in Nat
  BY SeenNumbers
<1>2. Speed(c) \in Nat
  <2>1. PICK t \in Nat : t = IF seen[c].rtt = NoNode THEN AssumedMs ELSE seen[c].rtt
    BY <1>1 DEF AssumedMs
  <2>2. (100 * 50) \div (50 + t) \in Nat
    OBVIOUS
  <2>3. QED  BY <2>1, <2>2 DEF Speed, HalfMs
<1>3. Load(c) \in Nat
  <2>1. CASE ~Limited(c) \/ Full(c)
    BY <2>1 DEF Load
  <2>2. CASE Limited(c) /\ ~Full(c)
    <3>1. PICK m \in Nat \ {0}, u \in Nat : m = seen[c].load.max /\ u = seen[c].load.used /\ u < m
      BY <1>1, <2>2 DEF Limited, Full
    <3>2. 200 * (m - u) + m \in Nat /\ 2 * m \in Nat \ {0}
      <4>1. PICK n \in Nat : n = m - u
        BY <3>1
      <4>2. 200 * n + m \in Nat /\ 2 * m \in Nat \ {0}
        OBVIOUS
      <4>3. QED  BY <4>1, <4>2
    <3>3. (200 * (m - u) + m) \div (2 * m) \in Nat
      <4>1. PICK x \in Nat, y \in Nat \ {0} : x = 200 * (m - u) + m /\ y = 2 * m
        BY <3>2
      <4>2. x \div y \in Nat
        OBVIOUS
      <4>3. QED  BY <4>1, <4>2
    <3>4. Load(c) = (200 * (m - u) + m) \div (2 * m)
      BY <2>2, <3>1 DEF Load
    <3>5. QED  BY <3>3, <3>4
  <2>3. QED  BY <2>1, <2>2
<1>4. PICK w \in Nat, s \in Nat, l \in Nat, n \in Nat :
        w = seen[c].weight /\ s = Speed(c) /\ l = Load(c) /\ n = seen[c].failures
  BY <1>1, <1>2, <1>3
<1>5. w * (55 * s + 45 * l) - 1500 * n \in Int
  OBVIOUS
<1>6. Score(c) \in Int
  BY <1>4, <1>5 DEF Score
<1>7. QED  BY <1>2, <1>3, <1>6

\* The order of the candidates has a first one.
LEMMA BestExists ==
  ASSUME RangesAssumption, Surveyed, offered # 0
  PROVE  Best \in Candidates /\ \A d \in Candidates \ {Best} : Ahead(Best, d)
<1> DEFINE A == {p \in Candidates \X Candidates : Ahead(p[1], p[2])}
<1>1. \A c, d \in Candidates : <<c, d>> \in A <=> Ahead(c, d)
  OBVIOUS
<1> HIDE DEF A
<1>2. \A c \in Candidates : Score(c) \in Int /\ Index(c) \in Nat /\ Ids[Index(c)] = c
  BY ScoreNumbers, Indexed, CandidatesFinite
<1>3. ASSUME NEW c \in Candidates, NEW d \in Candidates, c # d
      PROVE  Ahead(c, d) \/ Ahead(d, c)
  <2>1. Index(c) # Index(d)
    BY <1>2, <1>3
  <2>2. Index(c) \in Nat /\ Index(d) \in Nat /\ Score(c) \in Int /\ Score(d) \in Int
    BY <1>2
  <2>3. CASE Full(c) /\ Full(d)
    BY <2>1, <2>2, <2>3 DEF Ahead
  <2>4. CASE ~Full(c) /\ ~Full(d)
    <3>1. Score(c) > Score(d) \/ Score(d) > Score(c) \/ Score(c) = Score(d)
      BY <2>2
    <3>2. Index(c) < Index(d) \/ Index(d) < Index(c)
      BY <2>1, <2>2
    <3>3. Full(c) = Full(d) /\ Full(d) = Full(c)
      BY <2>4 DEF Full
    <3>4. CASE Score(c) = Score(d)
      BY <2>4, <3>2, <3>3, <3>4 DEF Ahead
    <3>5. CASE Score(c) > Score(d)
      BY <2>4, <3>3, <3>5 DEF Ahead
    <3>6. CASE Score(d) > Score(c)
      BY <2>4, <3>3, <3>6 DEF Ahead
    <3>7. QED  BY <3>1, <3>4, <3>5, <3>6
  <2>5. CASE Full(c) /\ ~Full(d)
    BY <2>5 DEF Ahead
  <2>6. CASE ~Full(c) /\ Full(d)
    BY <2>6 DEF Ahead
  <2>7. QED  BY <2>3, <2>4, <2>5, <2>6
<1>4. ASSUME NEW c \in Candidates, NEW d \in Candidates, NEW e \in Candidates, Ahead(c, d), Ahead(d, e)
      PROVE  Ahead(c, e)
  <2>1. /\ Index(c) \in Nat /\ Index(d) \in Nat /\ Index(e) \in Nat
        /\ Score(c) \in Int /\ Score(d) \in Int /\ Score(e) \in Int
    BY <1>2
  <2>2. QED  BY <1>4, <2>1 DEF Ahead
<1>5. \E c \in Candidates : \A d \in Candidates \ {c} : <<c, d>> \in A
  <2>1. \A c, d \in Candidates : c # d => <<c, d>> \in A \/ <<d, c>> \in A
    BY <1>1, <1>3
  <2>2. \A c, d, e \in Candidates : <<c, d>> \in A /\ <<d, e>> \in A => <<c, e>> \in A
    BY <1>1, <1>4
  <2>3. QED  BY <2>1, <2>2, CandidatesFinite, FirstOfOrder
<1>6. \E c \in Candidates : \A d \in Candidates \ {c} : Ahead(c, d)
  BY <1>1, <1>5
<1>7. QED  BY <1>6 DEF Best

\* The roundings never turn the order.
LEMMA BeatsScores ==
  ASSUME RangesAssumption, Surveyed, NEW c \in Nodes, NEW d \in Nodes, Beats(c, d), ~Full(d)
  PROVE  Score(c) > Score(d)
<1>1. PICK r \in Nat, t \in Nat : r = seen[c].rtt /\ t = seen[d].rtt /\ r <= t
  BY SeenNumbers DEF Beats
<1>2. PICK m \in Nat \ {0}, u \in Nat, n \in Nat \ {0}, v \in Nat :
        /\ m = seen[c].load.max /\ u = seen[c].load.used /\ n = seen[d].load.max /\ v = seen[d].load.used
        /\ u < m /\ v < n /\ u * n <= v * m
  <2>1. /\ seen[c].load.max \in Nat /\ seen[c].load.used \in Nat
        /\ seen[d].load.max \in Nat /\ seen[d].load.used \in Nat
    BY SeenNumbers
  <2>2. /\ seen[c].load.max > 0 /\ ~(seen[c].load.used >= seen[c].load.max)
        /\ seen[d].load.max > 0 /\ ~(seen[d].load.used >= seen[d].load.max)
        /\ seen[c].load.used * seen[d].load.max <= seen[d].load.used * seen[c].load.max
    BY DEF Beats, Limited, Full
  <2>3. QED  BY <2>1, <2>2
<1>3. PICK f \in Nat, g \in Nat, w \in Nat, x \in Nat :
        /\ f = seen[c].failures /\ g = seen[d].failures /\ f < g
        /\ w = seen[c].weight /\ x = seen[d].weight /\ w >= x
  BY SeenNumbers DEF Beats
<1>4. Speed(c) >= Speed(d)
  <2>1. Speed(c) = 5000 \div (50 + r) /\ Speed(d) = 5000 \div (50 + t)
    BY <1>1 DEF Beats, Speed, HalfMs
  <2>2. 5000 * (50 + r) <= 5000 * (50 + t)
    BY <1>1
  <2>3. 5000 \div (50 + t) <= 5000 \div (50 + r)
    <3>1. PICK i \in Nat \ {0}, j \in Nat \ {0}, k \in Nat : i = 50 + r /\ j = 50 + t /\ k = 5000
      OBVIOUS
    <3>2. k * i <= k * j
      BY <2>2, <3>1
    <3>3. k \div j <= k \div i
      BY <3>2, QuotientsOrdered
    <3>4. QED  BY <3>1, <3>3
  <2>4. QED  BY <1>1, <2>1, <2>3
<1>5. Load(c) >= Load(d)
  <2>1. PICK a \in Nat, b \in Nat \ {0}, k \in Nat, l \in Nat \ {0} :
          a = 200 * (m - u) + m /\ b = 2 * m /\ k = 200 * (n - v) + n /\ l = 2 * n
    <3>1. 200 * (m - u) + m \in Nat /\ 200 * (n - v) + n \in Nat
      <4>1. u < m /\ v < n
        BY <1>2
      <4>2. m - u \in Nat /\ n - v \in Nat
        BY <4>1
      <4>3. PICK q \in Nat, o \in Nat : q = m - u /\ o = n - v
        BY <4>2
      <4>4. 200 * q + m \in Nat /\ 200 * o + n \in Nat
        OBVIOUS
      <4>5. QED  BY <4>3, <4>4
    <3>2. 2 * m \in Nat \ {0} /\ 2 * n \in Nat \ {0}
      OBVIOUS
    <3>3. QED  BY <3>1, <3>2
  <2>2. Load(c) = a \div b /\ Load(d) = k \div l
    BY <1>2, <2>1 DEF Load, Beats, Full
  <2>3. k * b <= a * l
    <3>1. k * b = 400 * (n * m) - 400 * (v * m) + 2 * (n * m)
      BY <2>1
    <3>2. a * l = 400 * (n * m) - 400 * (u * n) + 2 * (n * m)
      BY <2>1
    <3>3. PICK h \in Nat, i \in Nat, j \in Nat : h = n * m /\ i = v * m /\ j = u * n
      OBVIOUS
    <3>4. j <= i
      BY <1>2, <3>3
    <3>5. 400 * h - 400 * i + 2 * h <= 400 * h - 400 * j + 2 * h
      BY <3>4
    <3>6. QED  BY <3>1, <3>2, <3>3, <3>5
  <2>4. k \div l <= a \div b
    BY <2>3, QuotientsOrdered
  <2>5. QED  BY <2>1, <2>2, <2>4
<1>6. PICK s \in Nat, p \in Nat, y \in Nat, z \in Nat :
        s = Speed(c) /\ p = Load(c) /\ y = Speed(d) /\ z = Load(d) /\ s >= y /\ p >= z
  BY <1>4, <1>5, ScoreNumbers
<1>7. w * (55 * s + 45 * p) >= x * (55 * y + 45 * z)
  <2>1. PICK i \in Nat, j \in Nat : i = 55 * s + 45 * p /\ j = 55 * y + 45 * z /\ i >= j
    BY <1>6
  <2>2. w * i >= x * j
    BY <1>3, <2>1, ProductsOrdered
  <2>3. QED  BY <2>1, <2>2
<1>8. w * (55 * s + 45 * p) \in Nat /\ x * (55 * y + 45 * z) \in Nat
  OBVIOUS
<1>9. Score(c) = w * (55 * s + 45 * p) - 1500 * f /\ Score(d) = x * (55 * y + 45 * z) - 1500 * g
  BY <1>3, <1>6 DEF Score
<1>10. PICK i \in Nat, j \in Nat : i = w * (55 * s + 45 * p) /\ j = x * (55 * y + 45 * z) /\ i >= j
  BY <1>7, <1>8
<1>11. i - 1500 * f > j - 1500 * g
  <2>1. i >= j /\ f < g
    BY <1>3, <1>10
  <2>2. QED  BY <2>1
<1>12. QED  BY <1>9, <1>10, <1>11

-----------------------------------------------------------------------------
\* A place that may be taken.
Fair(n) ==
  /\ n \in Candidates \cup {NoNode}
  /\ n \in Candidates => ~Full(n)
  /\ asked # NoNode => n \in {asked, NoNode}
  /\ asked = NoNode /\ n # NoNode => \A c \in Candidates : ~Beats(c, n)

\* The choice is a decision, and the place it names may be taken.
LEMMA ChooseFair ==
  ASSUME RangesAssumption, Surveyed
  PROVE  /\ Choose \in Decision /\ (Choose.outcome = "chosen" <=> Choose.node # NoNode)
         /\ Fair(Choose.node) /\ Fair(NoNode)
<1>1. NoNode \notin Nodes /\ NoNode \notin Candidates /\ Candidates \subseteq Nodes
  BY CandidatesFinite
<1>2. Fair(NoNode)
  BY <1>1 DEF Fair
<1>3. CASE Unknown
  <2>1. Choose = [outcome |-> "rejected", node |-> NoNode]
    BY <1>3 DEF Choose, Rejected
  <2>2. QED  BY <1>2, <2>1 DEF Decision
<1>4. CASE ~Unknown
  <2>0. PICK c \in Candidates : c = IF asked = NoNode THEN Best ELSE asked
    BY <1>4, BestExists DEF Unknown
  <2>1. Choose = IF Full(c) THEN NoPlace ELSE Chosen(c)
    BY <1>4, <2>0 DEF Choose
 <2>2. CASE Full(c)
   <3>1. Choose = [outcome |-> IF queues THEN "queued" ELSE "rejected", node |-> NoNode]
    BY <2>1, <2>2 DEF NoPlace
   <3>2. QED  BY <1>2, <3>1 DEF Decision
  <2>3. CASE ~Full(c)
   <3>1. Choose = [outcome |-> "chosen", node |-> c]
    BY <2>1, <2>3 DEF Chosen
   <3>2. asked = NoNode => \A d \in Candidates : ~Beats(d, c)
    <4>1. ASSUME asked = NoNode, NEW d \in Candidates, Beats(d, c)
          PROVE  FALSE
      <5>1. Score(d) > Score(c) /\ ~Full(d)
        BY <1>1, <2>3, <4>1, BeatsScores DEF Beats
      <5>2. d # c
        BY <1>1, <4>1, SeenNumbers DEF Beats
      <5>3. Ahead(c, d)
        BY <1>4, <2>0, <4>1, <5>2, BestExists DEF Unknown
      <5>4. Score(c) \in Int /\ Score(d) \in Int
        BY <1>1, ScoreNumbers
      <5>5. QED  BY <2>3, <5>1, <5>3, <5>4 DEF Ahead
    <4>2. QED  BY <4>1
   <3>3. Fair(c)
    BY <2>0, <2>3, <3>2 DEF Fair
   <3>4. QED  BY <1>1, <1>2, <2>0, <3>1, <3>3 DEF Decision
  <2>4. QED  BY <2>2, <2>3
<1>5. QED  BY <1>3, <1>4

\* What the choice keeps: the survey is numbers, the choice is fair.
ChoiceInv == Surveyed /\ PlacementFair

\* Nothing is chosen yet.
LEMMA ChoiceInitially == ASSUME RangesAssumption, ChoiceInit PROVE ChoiceInv
<1>1. Surveyed
  BY DEF ChoiceInit, Surveyed
<1>2. NoNode \notin Candidates
  BY <1>1, CandidatesFinite
<1>3. ChoiceTypeOK /\ Joined = NoNode
  BY DEF ChoiceInit, ChoiceTypeOK, Joined
<1>4. FullNeverJoined /\ AskedOrNothing /\ NotBeaten
  BY <1>2, <1>3 DEF FullNeverJoined, AskedOrNothing, NotBeaten
<1>5. QED  BY <1>1, <1>3, <1>4 DEF ChoiceInv, PlacementFair

\* No survey and no choice breaks the invariant.
LEMMA ChoiceStep ==
  ASSUME RangesAssumption, ChoiceInv, [ChoiceNext]_choiceVars
  PROVE  ChoiceInv'
<1>1. CASE UNCHANGED choiceVars
  BY <1>1 DEF choiceVars, Candidates, ChoiceInv, Surveyed, PlacementFair, ChoiceTypeOK, FullNeverJoined, AskedOrNothing,
              NotBeaten, Joined, Beats, Full, Limited
<1>2. CASE ChooseNode
  <2>1. decision' = Choose /\ UNCHANGED <<offered, seen, asked, queues>>
    BY <1>2 DEF ChooseNode
  <2>2. /\ Choose \in Decision /\ (Choose.outcome = "chosen" <=> Choose.node # NoNode)
        /\ Fair(Choose.node) /\ Fair(NoNode)
    BY ChooseFair DEF ChoiceInv
  <2>3. PICK n : n = Joined' /\ Fair(n)
    BY <2>1, <2>2 DEF Joined
  <2>0. Candidates' = Candidates
    BY <2>1 DEF Candidates
  <2>4. Surveyed' /\ ChoiceTypeOK'
    BY <2>1, <2>2 DEF ChoiceInv, Surveyed, ChoiceTypeOK
  <2>5. FullNeverJoined'
    BY <2>0, <2>1, <2>3 DEF FullNeverJoined, Fair, Full, Limited
  <2>6. AskedOrNothing'
    BY <2>0, <2>1, <2>3 DEF AskedOrNothing, Fair
  <2>7. NotBeaten'
    <3>1. \A c \in Candidates : Beats(c, n)' => Beats(c, n)
      BY <2>1 DEF Beats, Full, Limited
    <3>2. QED  BY <2>0, <2>1, <2>3, <3>1 DEF NotBeaten, Fair
  <2>8. QED  BY <2>4, <2>5, <2>6, <2>7 DEF ChoiceInv, PlacementFair
<1>3. QED  BY <1>1, <1>2 DEF ChoiceNext

\* The node chosen is not full, is the one asked for if one was, and is not one that another beats in
\* every measure (scoreNode, chooseNode), for every number of candidates and every value of the measures.
THEOREM ChoiceFair == ChoiceSpec => []PlacementFair
<1>1. ChoiceInit => ChoiceInv
  BY ChoiceInitially, RangesAssumption
<1>2. ChoiceInv /\ [ChoiceNext]_choiceVars => ChoiceInv'
  BY ChoiceStep, RangesAssumption
<1>3. ChoiceInv => PlacementFair
  BY DEF ChoiceInv
<1>4. QED  BY <1>1, <1>2, <1>3, PTL DEF ChoiceSpec

----------------------------------------------------------------------------
\* Accounts and their sessions.

\* What the handlers and rows are.
Session == [user : Users, serial : Nat \ {0}]
Deeds == {"home", "folder", "launch", "let in", "disable", "log out", "stop", "stop first", "rows",
          "directory"}
Deed == [does : Deeds, user : Users]
Login == [does : {"drop", "create"}, user : Users, before : SUBSET Session]

\* What each variable of the accounts holds.
AccountsTypes ==
  /\ role \in [Users -> Roles] /\ sessions \subseteq Session /\ serial \in Nat
  /\ homes \subseteq Users /\ launched \subseteq Users /\ approved \subseteq Users
  /\ task \in [Tasks -> {NoTask} \cup Deed \cup Login]

\* Only accounts that were let in are active, or are about to get a session.
LetIn ==
  /\ \A u \in Users : role[u] = "active" => u \in approved
  /\ \A t \in Tasks : task[t] \in Login => task[t].user \in approved

\* A session is of an account that exists and was let in.
SessionsOwned == \A s \in sessions : Exists(s.user) /\ s.serial <= serial /\ s.user \in approved

\* A login found the sessions of its own user, and once it dropped them they
\* stay away.
LoginsFit ==
  \A t \in Tasks : task[t] \in Login =>
    /\ \A s \in task[t].before : s.user = task[t].user /\ s.serial <= serial
    /\ task[t].does = "create" => sessions \cap task[t].before = {}

\* What holds of the accounts in every state.
AccountsInv == AccountsTypes /\ LetIn /\ SessionsOwned /\ LoginsFit

\* What no step does: bring an old session or a deleted account back.
NothingBack ==
  /\ \A s \in sessions' : s \in sessions \/ s.serial > serial
  /\ \A u \in Users : role[u] = "deleted" => role'[u] = "deleted"

\* The three kinds of handler are told apart by what they do.
LEMMA HandlerKinds ==
  /\ NoTask.does \notin Deeds /\ NoTask.does \notin {"drop", "create"}
  /\ \A n \in Deed : n.does \in Deeds /\ n.does \notin {"drop", "create"}
  /\ \A n \in Login : n.does \in {"drop", "create"} /\ n.does \notin Deeds
<1>1. NoTask.does = "nothing"
  BY DEF NoTask
<1>2. "nothing" \notin Deeds /\ "drop" \notin Deeds /\ "create" \notin Deeds
  BY DEF Deeds
<1>3. \A n \in Deed : n.does \in Deeds
  BY DEF Deed
<1>4. \A n \in Login : n.does \in {"drop", "create"}
  BY DEF Login
<1>5. QED  BY <1>1, <1>2, <1>3, <1>4

\* Nobody is registered yet.
LEMMA AccountsInitially == ASSUME AccountsInit PROVE AccountsInv
<1>1. NoTask \notin Login
  BY DEF NoTask, Login
<1>2. QED  BY <1>1 DEF AccountsInit, AccountsInv, AccountsTypes, LetIn, SessionsOwned, LoginsFit, Roles

\* What a handler's step makes of its record.
LEMMA TaskChanges ==
  ASSUME AccountsTypes, NEW t \in Tasks
  PROVE  /\ \A does \in Deeds, u \in Users : Begins(t, does, u) =>
              \E n \in Deed : task' = [task EXCEPT ![t] = n]
         /\ \A from, to \in Deeds : GoesOn(t, from, to) =>
              task[t] \in Deed /\ \E n \in Deed : task' = [task EXCEPT ![t] = n]
         /\ \A from \in Deeds : Finishes(t, from) =>
              task[t] \in Deed /\ task' = [task EXCEPT ![t] = NoTask]
<1>1. task[t] \in {NoTask} \cup Deed \cup Login
  BY DEF AccountsTypes
<1>2. ASSUME NEW does \in Deeds, NEW u \in Users, Begins(t, does, u)
      PROVE  \E n \in Deed : task' = [task EXCEPT ![t] = n]
  BY <1>2 DEF Begins, Deed
<1>3. ASSUME NEW from \in Deeds, task[t].does = from
      PROVE  task[t] \in Deed
  BY <1>1, <1>3, HandlerKinds
<1>4. ASSUME NEW from \in Deeds, NEW to \in Deeds, GoesOn(t, from, to)
      PROVE  task[t] \in Deed /\ \E n \in Deed : task' = [task EXCEPT ![t] = n]
  <2>1. task[t] \in Deed
    BY <1>3, <1>4 DEF GoesOn
  <2>2. PICK n : n = [task[t] EXCEPT !.does = to]
    OBVIOUS
  <2>3. n \in Deed
    BY <2>1, <2>2 DEF Deed
  <2>4. task' = [task EXCEPT ![t] = n]
    BY <1>4, <2>2 DEF GoesOn
  <2>5. QED  BY <2>1, <2>3, <2>4
<1>5. QED  BY <1>2, <1>3, <1>4 DEF Finishes

\* A handler that is no login, before and after its step or from none to one.
LEMMA DeedsKeep ==
  ASSUME AccountsInv, NEW t \in Tasks, NEW n \in {NoTask} \cup Deed, task' = [task EXCEPT ![t] = n],
         role' \in [Users -> Roles], sessions' \subseteq sessions, homes' \subseteq Users,
         launched' \subseteq Users, approved' \subseteq Users, serial' = serial,
         approved \subseteq approved', \A u \in Users : role'[u] = "active" => u \in approved',
         \A s \in sessions' : Exists(s.user)', \A u \in Users : role[u] = "deleted" => role'[u] = "deleted"
  PROVE  AccountsInv' /\ NothingBack
<1>1. n \notin Login
  BY HandlerKinds
<1>2. task' \in [Tasks -> {NoTask} \cup Deed \cup Login]
  BY DEF AccountsInv, AccountsTypes
<1>3. \A k \in Tasks : task'[k] \in Login => k # t /\ task'[k] = task[k]
  BY <1>1 DEF AccountsInv, AccountsTypes
<1>4. AccountsTypes' /\ SessionsOwned'
  BY <1>2 DEF AccountsInv, AccountsTypes, SessionsOwned
<1>5. LetIn'
  BY <1>3 DEF AccountsInv, LetIn
<1>6. LoginsFit'
  BY <1>3 DEF AccountsInv, LoginsFit
<1>7. QED  BY <1>4, <1>5, <1>6 DEF AccountsInv, NothingBack

\* A handler other than a login begins (registering, asking for an instance, judging, disabling, deleting).
LEMMA VisitsKeep ==
  ASSUME AccountsInv, NEW t \in Tasks,
         \/ \E u \in Users : Registers(t, u) \/ AsksFor(t, u) \/ Judges(t, u) \/ Disables(t, u) \/ Deletes(t, u)
         \/ \E s \in sessions : Asks(t, s)
  PROVE  AccountsInv' /\ NothingBack
<1>1. PICK does \in Deeds, u \in Users :
        /\ Begins(t, does, u) /\ UNCHANGED <<sessions, serial, homes, launched, approved>>
        /\ role' = role \/ (role[u] = "none" /\ role' = [role EXCEPT ![u] = "pending"])
  <2>1. \A s \in sessions : s.user \in Users
    BY DEF AccountsInv, AccountsTypes, Session
  <2>2. \A s \in sessions : Asks(t, s) => /\ Begins(t, "folder", s.user) /\ role' = role
                                          /\ UNCHANGED <<sessions, serial, homes, launched, approved>>
    BY DEF Asks
  <2>3. \A u \in Users :
          /\ Registers(t, u) => /\ Begins(t, "home", u) /\ role[u] = "none" /\ role' = [role EXCEPT ![u] = "pending"]
                                /\ UNCHANGED <<sessions, serial, homes, launched, approved>>
          /\ AsksFor(t, u) => /\ Begins(t, "folder", u) /\ role' = role
                              /\ UNCHANGED <<sessions, serial, homes, launched, approved>>
          /\ Judges(t, u) => /\ Begins(t, "let in", u) /\ role' = role
                             /\ UNCHANGED <<sessions, serial, homes, launched, approved>>
          /\ Disables(t, u) => /\ Begins(t, "disable", u) /\ role' = role
                               /\ UNCHANGED <<sessions, serial, homes, launched, approved>>
          /\ Deletes(t, u) => /\ Begins(t, "stop first", u) /\ role' = role
                              /\ UNCHANGED <<sessions, serial, homes, launched, approved>>
    BY DEF Registers, AsksFor, Judges, Disables, Deletes
  <2>4. {"home", "folder", "let in", "disable", "stop first"} \subseteq Deeds
    BY DEF Deeds
  <2>5. QED  BY <2>1, <2>2, <2>3, <2>4
<1>2. PICK n \in Deed : task' = [task EXCEPT ![t] = n]
  BY <1>1, TaskChanges DEF AccountsInv
<1>3. /\ role' \in [Users -> Roles] /\ \A v \in Users : role[v] = "deleted" => role'[v] = "deleted"
      /\ \A v \in Users : role'[v] = "active" => role[v] = "active"
      /\ \A v \in Users : Exists(v) => Exists(v)'
  BY <1>1 DEF AccountsInv, AccountsTypes, Roles, Exists
<1>4. /\ sessions' \subseteq sessions /\ homes' \subseteq Users /\ launched' \subseteq Users
      /\ approved' \subseteq Users /\ serial' = serial /\ approved \subseteq approved'
  BY <1>1 DEF AccountsInv, AccountsTypes
<1>5. \A v \in Users : role'[v] = "active" => v \in approved'
  BY <1>1, <1>3 DEF AccountsInv, LetIn
<1>6. \A s \in sessions' : Exists(s.user)'
  BY <1>1, <1>3 DEF AccountsInv, AccountsTypes, SessionsOwned, Session
<1>7. QED  BY <1>2, <1>3, <1>4, <1>5, <1>6, DeedsKeep

\* It takes its next step.
LEMMA HandlersKeep ==
  ASSUME AccountsInv, NEW t \in Tasks,
         \/ MakesHome(t) \/ FindsFolder(t) \/ Launches(t) \/ LetsIn(t) \/ SetsDisabled(t) \/ EndsSessions(t)
         \/ StopsFor(t) \/ StopsFirst(t) \/ DeletesRows(t) \/ RemovesHome(t)
  PROVE  AccountsInv' /\ NothingBack
<1>1. PICK n \in {NoTask} \cup Deed : task[t] \in Deed /\ task' = [task EXCEPT ![t] = n]
  <2>1. \/ \E from, to \in Deeds : GoesOn(t, from, to)
        \/ \E from \in Deeds : Finishes(t, from)
    BY DEF MakesHome, FindsFolder, Launches, LetsIn, SetsDisabled, EndsSessions, StopsFor, StopsFirst,
           DeletesRows, RemovesHome, Deeds
  <2>2. QED  BY <2>1, TaskChanges DEF AccountsInv
<1>2. PICK u \in Users : u = task[t].user
  BY <1>1 DEF Deed
<1>3. /\ homes' \subseteq Users /\ launched' \subseteq Users
      /\ serial' = serial /\ sessions' \subseteq sessions
  BY <1>2 DEF AccountsInv, AccountsTypes, MakesHome, FindsFolder, Launches, LetsIn, SetsDisabled, EndsSessions,
     StopsFor, StopsFirst, DeletesRows, RemovesHome
<1>4. CASE LetsIn(t)
  <2>1. SetsRole(u, "active") /\ approved' = approved \cup {u} /\ sessions' = sessions
    BY <1>2, <1>4 DEF LetsIn
  <2>2. /\ role' \in [Users -> Roles] /\ \A v \in Users : role'[v] = "active" => v \in approved'
        /\ \A v \in Users : role[v] = "deleted" => role'[v] = "deleted"
        /\ \A v \in Users : Exists(v) => Exists(v)'
    BY <2>1 DEF SetsRole, AccountsInv, AccountsTypes, LetIn, Roles, Exists
  <2>3. \A s \in sessions' : Exists(s.user)'
    BY <2>1, <2>2 DEF AccountsInv, AccountsTypes, SessionsOwned, Session
  <2>4. approved \subseteq approved' /\ approved' \subseteq Users
    BY <2>1 DEF AccountsInv, AccountsTypes
  <2>5. QED  BY <1>1, <1>3, <2>2, <2>3, <2>4, DeedsKeep
<1>5. CASE SetsDisabled(t)
  <2>1. SetsRole(u, "disabled") /\ approved' = approved /\ sessions' = sessions
    BY <1>2, <1>5 DEF SetsDisabled
  <2>2. /\ role' \in [Users -> Roles] /\ \A v \in Users : role'[v] = "active" => v \in approved'
        /\ \A v \in Users : role[v] = "deleted" => role'[v] = "deleted"
        /\ \A v \in Users : Exists(v) => Exists(v)'
    BY <2>1 DEF SetsRole, AccountsInv, AccountsTypes, LetIn, Roles, Exists
  <2>3. \A s \in sessions' : Exists(s.user)'
    BY <2>1, <2>2 DEF AccountsInv, AccountsTypes, SessionsOwned, Session
  <2>4. approved \subseteq approved' /\ approved' \subseteq Users
    BY <2>1 DEF AccountsInv, AccountsTypes
  <2>5. QED  BY <1>1, <1>3, <2>2, <2>3, <2>4, DeedsKeep
<1>6. CASE DeletesRows(t)
  <2>1. /\ approved' = approved
        /\ \/ role' = [role EXCEPT ![u] = "deleted"] /\ sessions' = sessions \ SessionsOf(u)
           \/ role' = role /\ sessions' = sessions
    BY <1>2, <1>6 DEF DeletesRows
  <2>2. /\ role' \in [Users -> Roles] /\ \A v \in Users : role'[v] = "active" => v \in approved'
        /\ \A v \in Users : role[v] = "deleted" => role'[v] = "deleted"
    BY <2>1 DEF AccountsInv, AccountsTypes, LetIn, Roles
  <2>3. \A s \in sessions' : Exists(s.user)'
    BY <2>1 DEF AccountsInv, AccountsTypes, SessionsOwned, SessionsOf, Session, Exists
  <2>4. approved \subseteq approved' /\ approved' \subseteq Users
    BY <2>1 DEF AccountsInv, AccountsTypes
  <2>5. QED  BY <1>1, <1>3, <2>2, <2>3, <2>4, DeedsKeep
<1>7. CASE role' = role /\ approved' = approved
  <2>1. /\ role' \in [Users -> Roles] /\ \A v \in Users : role'[v] = "active" => v \in approved'
        /\ \A v \in Users : role[v] = "deleted" => role'[v] = "deleted"
    BY <1>7 DEF AccountsInv, AccountsTypes, LetIn
  <2>2. \A s \in sessions' : Exists(s.user)'
    BY <1>3, <1>7 DEF AccountsInv, SessionsOwned, Exists
  <2>3. approved \subseteq approved' /\ approved' \subseteq Users
    BY <1>7 DEF AccountsInv, AccountsTypes
  <2>4. QED  BY <1>1, <1>3, <2>1, <2>2, <2>3, DeedsKeep
<1>8. QED
  BY <1>4, <1>5, <1>6, <1>7 DEF MakesHome, FindsFolder, Launches, EndsSessions, StopsFor, StopsFirst, RemovesHome

\* A login reads the sessions of its user.
LEMMA LoginBegins ==
  ASSUME AccountsInv, NEW t \in Tasks, NEW u \in Users, LogsIn(t, u)
  PROVE  AccountsInv' /\ NothingBack
<1>1. PICK n : n = [does |-> "drop", user |-> u, before |-> SessionsOf(u)]
  OBVIOUS
<1>2. SessionsOf(u) \subseteq sessions /\ sessions \subseteq Session /\ \A s \in SessionsOf(u) : s.user = u
  BY DEF SessionsOf, AccountsInv, AccountsTypes
<1>3. /\ n \in Login /\ n.does = "drop" /\ n.user = u
      /\ \A s \in n.before : s.user = u /\ s.serial <= serial
  BY <1>1, <1>2 DEF Login, AccountsInv, SessionsOwned
<1>4. /\ task' = [task EXCEPT ![t] = n] /\ role[u] = "active"
      /\ UNCHANGED <<role, sessions, serial, homes, launched, approved>>
  BY <1>1 DEF LogsIn
<1>5. AccountsTypes' /\ SessionsOwned'
  BY <1>3, <1>4 DEF AccountsInv, AccountsTypes, SessionsOwned, Exists
<1>6. \A k \in Tasks : task'[k] = IF k = t THEN n ELSE task[k]
  BY <1>4 DEF AccountsInv, AccountsTypes
<1>7. LetIn'
  BY <1>3, <1>4, <1>6 DEF AccountsInv, LetIn
<1>8. LoginsFit'
  BY <1>3, <1>4, <1>6 DEF AccountsInv, LoginsFit
<1>9. NothingBack
  BY <1>4 DEF NothingBack
<1>10. QED  BY <1>5, <1>7, <1>8, <1>9 DEF AccountsInv

\* It deletes the sessions that are there by then.
LEMMA SessionsDropped ==
  ASSUME AccountsInv, NEW t \in Tasks, DropsSessions(t)
  PROVE  AccountsInv' /\ NothingBack
<1>1. task[t] \in Login /\ task[t].does = "drop"
  BY HandlerKinds DEF DropsSessions, GoesOn, AccountsInv, AccountsTypes, Deeds
<1>2. PICK n : n = [task[t] EXCEPT !.does = "create"]
  OBVIOUS
<1>3. n \in Login /\ n.does = "create" /\ n.user = task[t].user /\ n.before = task[t].before
  BY <1>1, <1>2 DEF Login
<1>4. /\ task' = [task EXCEPT ![t] = n] /\ sessions' = sessions \ SessionsOf(n.user)
      /\ UNCHANGED <<role, serial, homes, launched, approved>>
  BY <1>2, <1>3 DEF DropsSessions, GoesOn
<1>5. AccountsTypes' /\ SessionsOwned'
  BY <1>3, <1>4 DEF AccountsInv, AccountsTypes, SessionsOwned, Exists
<1>6. \A k \in Tasks : task'[k] = IF k = t THEN n ELSE task[k]
  BY <1>4 DEF AccountsInv, AccountsTypes
<1>7. LetIn'
  BY <1>1, <1>3, <1>4, <1>6 DEF AccountsInv, LetIn
<1>8. LoginsFit'
  <2>1. ASSUME NEW k \in Tasks, task'[k] \in Login
        PROVE  /\ \A s \in task'[k].before : s.user = task'[k].user /\ s.serial <= serial'
               /\ task'[k].does = "create" => sessions' \cap task'[k].before = {}
    <3>1. CASE k = t
      <4>1. \A s \in n.before : s.user = n.user /\ s.serial <= serial
        BY <1>1, <1>3 DEF AccountsInv, LoginsFit
      <4>2. sessions' \cap n.before = {}
        BY <1>4, <4>1 DEF SessionsOf
      <4>3. QED  BY <1>4, <1>6, <3>1, <4>1, <4>2
    <3>2. CASE k # t
      BY <1>4, <1>6, <2>1, <3>2 DEF AccountsInv, LoginsFit
    <3>3. QED  BY <3>1, <3>2
  <2>2. QED  BY <2>1 DEF LoginsFit
<1>9. NothingBack
  BY <1>4 DEF NothingBack
<1>10. QED  BY <1>5, <1>7, <1>8, <1>9 DEF AccountsInv

\* It makes its own, unless the account is gone.
LEMMA SessionMade ==
  ASSUME AccountsInv, NEW t \in Tasks, CreatesSession(t)
  PROVE  AccountsInv' /\ NothingBack
<1>1. task[t] \in Login /\ task[t].does = "create" /\ task[t].user \in approved /\ task[t].user \in Users
  BY HandlerKinds DEF CreatesSession, Finishes, AccountsInv, AccountsTypes, Deeds, LetIn
<1>2. /\ task' = [task EXCEPT ![t] = NoTask] /\ UNCHANGED <<role, homes, launched, approved>>
  BY DEF CreatesSession, Finishes
<1>3. NoTask \notin Login
  BY HandlerKinds
<1>4. /\ serial' \in Nat /\ serial <= serial' /\ sessions' \subseteq Session
      /\ \A s \in sessions' : s \in sessions \/ (s.serial > serial /\ s.serial <= serial' /\ s.user = task[t].user /\ Exists(s.user))
  <2>1. CASE Exists(task[t].user)
    <3>1. PICK s : s = [user |-> task[t].user, serial |-> serial + 1]
      OBVIOUS
    <3>2. s \in Session /\ s.user = task[t].user /\ s.serial = serial + 1
      BY <1>1, <3>1 DEF Session, AccountsInv, AccountsTypes
    <3>3. serial' = serial + 1 /\ sessions' = sessions \cup {s}
      BY <2>1, <3>1 DEF CreatesSession
    <3>4. QED  BY <2>1, <3>2, <3>3 DEF AccountsInv, AccountsTypes
  <2>2. CASE ~Exists(task[t].user)
    BY <2>2 DEF CreatesSession, AccountsInv, AccountsTypes
  <2>3. QED  BY <2>1, <2>2
<1>5. AccountsTypes'
  BY <1>2, <1>4 DEF AccountsInv, AccountsTypes
<1>6. SessionsOwned'
  <2>1. \A s \in sessions : s.serial \in Nat
    BY DEF AccountsInv, AccountsTypes, Session
  <2>2. QED  BY <1>1, <1>2, <1>4, <2>1 DEF AccountsInv, AccountsTypes, SessionsOwned, Exists
<1>7. \A k \in Tasks : task'[k] \in Login => k # t /\ task'[k] = task[k]
  BY <1>2, <1>3 DEF AccountsInv, AccountsTypes
<1>8. LetIn'
  BY <1>2, <1>7 DEF AccountsInv, LetIn
<1>9. LoginsFit'
  <2>1. ASSUME NEW k \in Tasks, task'[k] \in Login
        PROVE  /\ \A s \in task'[k].before : s.user = task'[k].user /\ s.serial <= serial'
               /\ task'[k].does = "create" => sessions' \cap task'[k].before = {}
    <3>1. /\ task'[k] = task[k] /\ task[k] \in Login /\ task[k].before \subseteq Session
          /\ \A s \in task[k].before : s.user = task[k].user /\ s.serial <= serial
          /\ task[k].does = "create" => sessions \cap task[k].before = {}
      BY <1>7, <2>1 DEF AccountsInv, LoginsFit, Login
    <3>2. \A s \in task[k].before : s.serial \in Nat /\ s.serial <= serial /\ s.serial <= serial'
      BY <1>4, <3>1 DEF Session, AccountsInv, AccountsTypes
    <3>3. task[k].does = "create" => sessions' \cap task[k].before = {}
      BY <1>4, <3>1, <3>2 DEF AccountsInv, AccountsTypes
    <3>4. QED  BY <3>1, <3>2, <3>3
  <2>2. QED  BY <2>1 DEF LoginsFit
<1>10. NothingBack
  BY <1>2, <1>4 DEF NothingBack
<1>11. QED  BY <1>5, <1>6, <1>8, <1>9, <1>10 DEF AccountsInv

\* A session ends or an instance stops.
LEMMA RestKeeps ==
  ASSUME AccountsInv, UNCHANGED <<role, serial, homes, task, approved>>,
         sessions' \subseteq sessions, launched' \subseteq Users
  PROVE  AccountsInv' /\ NothingBack
<1>1. AccountsTypes' /\ SessionsOwned'
  BY DEF AccountsInv, AccountsTypes, SessionsOwned, Exists
<1>2. LetIn' /\ LoginsFit'
  BY DEF AccountsInv, LetIn, LoginsFit
<1>3. NothingBack
  BY DEF NothingBack
<1>4. QED  BY <1>1, <1>2, <1>3 DEF AccountsInv

\* No step of the handlers breaks their invariant or brings an old session or a deleted account back.
LEMMA AccountsStep == ASSUME AccountsInv, [AccountsNext]_accountsVars PROVE AccountsInv' /\ NothingBack
<1>1. ASSUME NEW t \in Tasks, NEW u \in Users, LogsIn(t, u)
      PROVE  AccountsInv' /\ NothingBack
  BY <1>1, LoginBegins
<1>2. ASSUME NEW t \in Tasks,
             \/ \E u \in Users : Registers(t, u) \/ AsksFor(t, u) \/ Judges(t, u) \/ Disables(t, u) \/ Deletes(t, u)
             \/ \E s \in sessions : Asks(t, s)
      PROVE  AccountsInv' /\ NothingBack
  BY <1>2, VisitsKeep
<1>3. ASSUME NEW t \in Tasks, TaskSteps(t)
      PROVE  AccountsInv' /\ NothingBack
  BY <1>3, HandlersKeep, SessionsDropped, SessionMade DEF TaskSteps
<1>4. CASE (\E s \in sessions : LogsOut(s)) \/ (\E u \in Users : Stops(u)) \/ UNCHANGED accountsVars
  <2>1. /\ UNCHANGED <<role, serial, homes, task, approved>>
        /\ sessions' \subseteq sessions /\ launched' \subseteq Users
    BY <1>4 DEF LogsOut, Stops, accountsVars, AccountsInv, AccountsTypes
  <2>2. QED  BY <2>1, RestKeeps
<1>5. QED  BY <1>1, <1>2, <1>3, <1>4 DEF AccountsNext

\* A session is of an account an administrator let in.
LEMMA AccountsInvImplies == ASSUME AccountsInv PROVE AccountsTypeOK /\ OnlyApproved
<1>1. \A s \in sessions : s.serial \in 1 .. serial
  BY DEF AccountsInv, AccountsTypes, SessionsOwned, Session
<1>2. QED  BY <1>1 DEF AccountsInv, AccountsTypes, SessionsOwned, AccountsTypeOK, OnlyApproved

\* When a login has made its session, none of those it found is there.
LEMMA LoginsWin ==
  ASSUME AccountsInv, NothingBack, NEW t \in Tasks, task[t].does = "create", task'[t] = NoTask
  PROVE  sessions' \cap task[t].before = {}
<1>1. task[t] \in Login
  BY HandlerKinds DEF AccountsInv, AccountsTypes, Deeds
<1>2. /\ sessions \cap task[t].before = {} /\ task[t].before \subseteq Session
      /\ \A s \in task[t].before : s.serial <= serial
  BY <1>1 DEF AccountsInv, LoginsFit, Login
<1>3. \A s \in task[t].before : s.serial \in Nat /\ ~(s.serial > serial)
  BY <1>2 DEF Session, AccountsInv, AccountsTypes
<1>4. QED  BY <1>2, <1>3 DEF NothingBack

\* Roles, sessions and what the handlers hold of them are right in every state, for every set of
\* users and handlers.
THEOREM AccountsCorrect == AccountsSpec => []AccountsInv
<1>1. AccountsInit => AccountsInv
  BY AccountsInitially
<1>2. AccountsInv /\ [AccountsNext]_accountsVars => AccountsInv'
  BY AccountsStep
<1>3. QED  BY <1>1, <1>2, PTL DEF AccountsSpec

\* Only approved accounts have sessions, the last login wins and the deleted stay deleted
\* (auth.ts, admin.ts), however the handlers interleave.
THEOREM AccountsAreGoverned == AccountsSpec => AccountsGoverned
<1>1. AccountsInv => AccountsTypeOK /\ OnlyApproved
  BY AccountsInvImplies
<1>2. AccountsInv /\ [AccountsNext]_accountsVars =>
        [\A t \in Tasks : task[t].does = "create" /\ task'[t] = NoTask =>
           sessions' \cap task[t].before = {}]_accountsVars
  BY AccountsStep, LoginsWin
<1>3. AccountsInv /\ [AccountsNext]_accountsVars =>
        [\A u \in Users : role[u] = "deleted" => role'[u] = "deleted"]_accountsVars
  BY AccountsStep DEF NothingBack
<1>4. QED
  BY AccountsCorrect, <1>1, <1>2, <1>3, PTL DEF AccountsSpec, AccountsGoverned, LastWins, DeletedStaysDeleted

----------------------------------------------------------------------------
\* Skills.

\* An upload that is not gone is installed nowhere.
StagedAbsent ==
  \A z \in Zips : stage[z] # "gone" => \A p \in Places : Present(p) => dir[p].zip # z

\* What the requests go by: an upload removes nothing and installs its zip, a
\* deletion installs nothing, and all others install something.
JobsFit ==
  \A r \in Calls : job[r] # Void =>
    /\ job[r].op = "upload" => job[r].rm = <<>> /\ job[r].from \in Zips
    /\ job[r].op = "delete" => job[r].to = Void
    /\ job[r].op # "delete" => job[r].from \in Zips \cup Places

\* What holds of the skills in every state.
SkillsInv == SkillsTypeOK /\ OnePlacePerUpload /\ StagedAbsent /\ JobsFit

\* What a step may do to the skills that are listed and the uploads that wait.
Touches ==
  \A u \in Owners : \A p \in Listed(u) :
    dir[p].whole /\ dir'[p] # dir[p] => \E r \in Calls : Involves(r, p)
Stands ==
  \A z \in Zips : stage[z] = "fresh" /\ (\A r \in Calls : job[r] = Void \/ job[r].from # z)
    => stage'[z] \in {"fresh", "stale"}

Stages == {"unused", "fresh", "stale", "torn", "gone"}
Removals == {<<>>} \cup {<<p>> : p \in Places} \cup {<<p, q>> : p, q \in Places}

\* Nothing is uploaded or installed yet.
LEMMA SkillsInitially == ASSUME PlacesAssumption, SkillsInit PROVE SkillsInv
  BY DEF SkillsInit, SkillsInv, SkillsTypeOK, OnePlacePerUpload, StagedAbsent, JobsFit, Present

\* The places the routes name are places.
LEMMA PlacesKnown ==
  /\ Shared \in Places
  /\ \A u \in Owners : Enabled(u) \in Places /\ Library(u) \in Places
  /\ \A s \in Scopes : Root(s) \in Places
<1>1. \A u \in Owners : Enabled(u) \in Places /\ Library(u) \in Places
  BY DEF Enabled, Library, Places
<1>2. QED  BY <1>1 DEF Places, Scopes, Root

\* What there is to remove is at most two places, and a removal takes the first.
LEMMA RemovalsKnown ==
  /\ \A rm \in Removals : rm # <<>> =>
       /\ Head(rm) \in Places /\ Tail(rm) \in Removals /\ 1 \in 1 .. Len(rm) /\ rm[1] = Head(rm)
       /\ Len(rm) # 1 => Tail(rm) # <<>>
  /\ \A p \in Places : Found(p) \in Removals
  /\ \A p, q \in Places : Found(p) \o Found(q) \in Removals
<1>0. 1 \in 1 .. 1 /\ 1 \in 1 .. 2
  OBVIOUS
<1>1. \A p \in Places : /\ <<p>> # <<>> /\ Len(<<p>>) = 1 /\ Head(<<p>>) = p /\ Tail(<<p>>) = <<>> /\ <<p>>[1] = p
  OBVIOUS
<1>2. \A p, q \in Places : /\ <<p, q>> # <<>> /\ Len(<<p, q>>) = 2 /\ Head(<<p, q>>) = p
                           /\ Tail(<<p, q>>) = <<q>> /\ <<p, q>>[1] = p
  OBVIOUS
<1>3. \A q \in Places : <<q>> # <<>>
  OBVIOUS
<1>4. \A rm \in Removals : rm # <<>> =>
        /\ Head(rm) \in Places /\ Tail(rm) \in Removals /\ 1 \in 1 .. Len(rm) /\ rm[1] = Head(rm)
        /\ Len(rm) # 1 => Tail(rm) # <<>>
  <2>1. ASSUME NEW rm \in Removals, rm # <<>>
        PROVE  /\ Head(rm) \in Places /\ Tail(rm) \in Removals /\ 1 \in 1 .. Len(rm) /\ rm[1] = Head(rm)
               /\ Len(rm) # 1 => Tail(rm) # <<>>
    <3>1. ASSUME NEW p \in Places, rm = <<p>>
          PROVE  /\ Head(rm) = p /\ Tail(rm) = <<>> /\ Len(rm) = 1 /\ rm[1] = p
      BY <1>1, <3>1
    <3>2. ASSUME NEW p \in Places, NEW q \in Places, rm = <<p, q>>
          PROVE  /\ Head(rm) = p /\ Tail(rm) = <<q>> /\ Len(rm) = 2 /\ rm[1] = p
      BY <1>2, <3>2
    <3>3. \/ \E p \in Places : rm = <<p>>
          \/ \E p, q \in Places : rm = <<p, q>>
      BY <2>1 DEF Removals
    <3>4. CASE \E p \in Places : rm = <<p>>
      <4>1. PICK p \in Places : rm = <<p>>
        BY <3>4
      <4>2. Head(rm) = p /\ Tail(rm) = <<>> /\ Len(rm) = 1 /\ rm[1] = p
        BY <3>1, <4>1
      <4>3. <<>> \in Removals
        BY DEF Removals
      <4>4. 1 \in 1 .. Len(rm) /\ Len(rm) = 1
        BY <1>0, <4>2, Zenon
      <4>5. Head(rm) \in Places /\ Tail(rm) \in Removals /\ rm[1] = Head(rm)
        BY <4>2, <4>3, Zenon
      <4>6. QED  BY <4>4, <4>5
    <3>5. CASE \E p, q \in Places : rm = <<p, q>>
      <4>1. PICK p \in Places, q \in Places : rm = <<p, q>>
        BY <3>5
      <4>2. Head(rm) = p /\ Tail(rm) = <<q>> /\ Len(rm) = 2 /\ rm[1] = p
        BY <3>2, <4>1
      <4>3. <<q>> \in Removals /\ <<q>> # <<>>
        BY <1>3 DEF Removals
      <4>4. 1 \in 1 .. Len(rm)
        BY <1>0, <4>2, Zenon
      <4>5. Head(rm) \in Places /\ Tail(rm) \in Removals /\ rm[1] = Head(rm) /\ Tail(rm) # <<>>
        BY <4>2, <4>3, Zenon
      <4>6. QED  BY <4>4, <4>5
    <3>6. QED  BY <3>3, <3>4, <3>5
  <2>2. QED  BY <2>1
<1>5. \A p \in Places : Found(p) \in Removals
  BY DEF Found, Removals
<1>6. \A p, q \in Places : Found(p) \o Found(q) \in Removals
  <2>1. ASSUME NEW p \in Places, NEW q \in Places
        PROVE  <<p>> \o <<q>> = <<p, q>>
    <3>1. <<p>> \in Seq(Places) /\ <<q>> \in Seq(Places) /\ <<p, q>> \in Seq(Places)
      OBVIOUS
    <3>2. /\ <<p>> \o <<q>> \in Seq(Places) /\ Len(<<p>> \o <<q>>) = 2
          /\ (<<p>> \o <<q>>)[1] = p /\ (<<p>> \o <<q>>)[2] = q
      BY <3>1, ConcatProperties
    <3>3. \A i \in 1 .. 2 : (<<p>> \o <<q>>)[i] = <<p, q>>[i]
      BY <3>2
    <3>4. QED  BY <3>1, <3>2, <3>3, SeqEqual
  <2>2. ASSUME NEW p \in Places
        PROVE  <<p>> \o <<>> = <<p>> /\ <<>> \o <<p>> = <<p>> /\ <<>> \o <<>> = <<>>
    <3>1. <<p>> \in Seq(Places) /\ <<>> \in Seq(Places)
      OBVIOUS
    <3>2. QED  BY <3>1, ConcatEmptySeq
  <2>3. ASSUME NEW p \in Places, NEW q \in Places
        PROVE  Found(p) \o Found(q) \in Removals
    <3>1. <<p>> \in Removals /\ <<q>> \in Removals /\ <<p, q>> \in Removals /\ <<>> \in Removals
      BY DEF Removals
    <3>2. QED  BY <2>1, <2>2, <3>1 DEF Found
  <2>4. QED  BY <2>3
<1>7. QED  BY <1>4, <1>5, <1>6

\* A record of such parts is a job.
LEMMA JobMade ==
  ASSUME NEW op \in {"upload", "apply", "enable", "disable", "delete"}, NEW rm \in Removals,
         NEW from \in Places \cup Zips \cup {Void}, NEW to \in Places \cup {Void},
         NEW n, n = [op |-> op, rm |-> rm, from |-> from, to |-> to]
  PROVE  n \in Jobs /\ n.op = op /\ n.rm = rm /\ n.from = from /\ n.to = to
  BY DEF Jobs, Removals

\* Steps that move no upload to a place it was not at.
LEMMA PlacesKeep ==
  ASSUME PlacesAssumption, SkillsInv, dir' \in [Places -> Content \cup {Void}],
         \A p \in Places : Present(p)' => Present(p) /\ dir'[p].zip = dir[p].zip,
         \A z \in Zips : stage'[z] # "gone" => stage[z] # "gone"
  PROVE  OnePlacePerUpload' /\ StagedAbsent'
<1>1. OnePlacePerUpload'
  BY DEF SkillsInv, OnePlacePerUpload
<1>2. StagedAbsent'
  BY DEF SkillsInv, StagedAbsent
<1>3. QED  BY <1>1, <1>2

\* A new request.
LEMMA JobsKeep ==
  ASSUME PlacesAssumption, SkillsInv, NEW r \in Calls, dir' = dir, job[r] = Void,
         stage' \in [Zips -> Stages], \A z \in Zips : stage'[z] # "gone" => stage[z] # "gone",
         \A z \in Zips : stage[z] = "fresh" => stage'[z] = "fresh",
         NEW op \in {"upload", "apply", "enable", "disable", "delete"}, NEW rm \in Removals,
         NEW from \in Places \cup Zips \cup {Void}, NEW to \in Places \cup {Void},
         job' = [job EXCEPT ![r] = [op |-> op, rm |-> rm, from |-> from, to |-> to]],
         op = "upload" => rm = <<>> /\ from \in Zips,
         op = "delete" => to = Void /\ rm # <<>>,
         op # "delete" => from \in Zips \cup Places /\ to \in Places
  PROVE  SkillsInv' /\ Touches /\ Stands
<1>1. PICK n : n = [op |-> op, rm |-> rm, from |-> from, to |-> to]
  OBVIOUS
<1>2. n \in Jobs /\ n.op = op /\ n.rm = rm /\ n.from = from /\ n.to = to
  BY <1>1, JobMade
<1>3. job' \in [Calls -> Jobs \cup {Void}] /\ \A k \in Calls : job'[k] = IF k = r THEN n ELSE job[k]
  BY <1>1, <1>2 DEF SkillsInv, SkillsTypeOK
<1>4. SkillsTypeOK'
  BY <1>2, <1>3 DEF SkillsInv, SkillsTypeOK, Stages, PlacesAssumption
<1>5. JobsFit'
  BY <1>2, <1>3 DEF SkillsInv, JobsFit
<1>6. OnePlacePerUpload' /\ StagedAbsent'
  BY PlacesKeep DEF SkillsInv, SkillsTypeOK, Present
<1>7. Touches /\ Stands
  BY DEF Touches, Stands
<1>8. QED  BY <1>4, <1>5, <1>6, <1>7 DEF SkillsInv

\* Nothing but the stage changes, or a request is forgotten.
LEMMA StageKeeps ==
  ASSUME PlacesAssumption, SkillsInv, dir' = dir, job' \in [Calls -> Jobs \cup {Void}],
         \A r \in Calls : job'[r] \in {job[r], Void},
         stage' \in [Zips -> Stages], \A z \in Zips : stage'[z] # "gone" => stage[z] # "gone",
         Stands
  PROVE  SkillsInv' /\ Touches /\ Stands
<1>1. SkillsTypeOK'
  BY DEF SkillsInv, SkillsTypeOK, Stages
<1>2. JobsFit'
  BY DEF SkillsInv, JobsFit
<1>3. OnePlacePerUpload' /\ StagedAbsent'
  BY PlacesKeep DEF SkillsInv, SkillsTypeOK, Present
<1>4. Touches
  BY DEF Touches
<1>5. QED  BY <1>1, <1>2, <1>3, <1>4 DEF SkillsInv

\* What the requests and the stages are, in the words of the lemmas above.
LEMMA TypesKnown ==
  ASSUME PlacesAssumption, SkillsInv
  PROVE  /\ dir \in [Places -> Content \cup {Void}]
         /\ stage \in [Zips -> Stages]
         /\ job \in [Calls -> Jobs \cup {Void}]
         /\ \A r \in Calls : job[r] # Void =>
              /\ job[r] \in Jobs /\ job[r].rm \in Removals
              /\ job[r].op \in {"upload", "apply", "enable", "disable", "delete"}
              /\ job[r].from \in Places \cup Zips \cup {Void}
              /\ job[r].to \in Places \cup {Void}
<1>1. /\ dir \in [Places -> Content \cup {Void}] /\ stage \in [Zips -> Stages]
      /\ job \in [Calls -> Jobs \cup {Void}]
  BY DEF SkillsInv, SkillsTypeOK, Stages
<1>2. \A j \in Jobs : /\ j.rm \in Removals
                      /\ j.op \in {"upload", "apply", "enable", "disable", "delete"}
                      /\ j.from \in Places \cup Zips \cup {Void}
                      /\ j.to \in Places \cup {Void}
  BY DEF Jobs, Removals
<1>3. \A r \in Calls : job[r] # Void => job[r] \in Jobs
  BY <1>1
<1>4. QED  BY <1>1, <1>2, <1>3

\* Collecting the stale upload dirs touches neither a fresh nor a gone one.
LEMMA CollectedKeeps ==
  ASSUME PlacesAssumption, SkillsInv, NEW z \in Zips, stage[z] = "unused",
         NEW s \in {"fresh", "torn", "gone"}, stage' = [Collected EXCEPT ![z] = s]
  PROVE  /\ stage' \in [Zips -> Stages]
         /\ \A y \in Zips : stage'[y] # "gone" => stage[y] # "gone"
         /\ \A y \in Zips : stage[y] = "fresh" => stage'[y] = "fresh"
<1>1. stage \in [Zips -> Stages]
  BY TypesKnown
<1>2. \A y \in Zips : stage'[y] = IF y = z THEN s
                                  ELSE IF stage[y] = "stale" THEN "torn" ELSE stage[y]
  BY <1>1 DEF Collected
<1>3. stage' \in [Zips -> Stages]
  BY <1>1 DEF Collected, Stages
<1>4. QED  BY <1>2, <1>3

\* A zip arrives: refused, kept for a confirmation, or installed at once.
LEMMA UploadKeeps ==
  ASSUME PlacesAssumption, SkillsInv,
         NEW r \in Calls, NEW s \in Scopes, NEW z \in Zips, Upload(r, s, z)
  PROVE  SkillsInv' /\ Touches /\ Stands
<1>1. dir' = dir /\ job[r] = Void /\ stage[z] = "unused" /\ job \in [Calls -> Jobs \cup {Void}]
  BY TypesKnown DEF Upload
<1>2. ASSUME NEW t \in {"fresh", "torn", "gone"}, stage' = [Collected EXCEPT ![z] = t], job' = job
      PROVE  SkillsInv' /\ Touches /\ Stands
  <2>1. /\ stage' \in [Zips -> Stages]
        /\ \A y \in Zips : stage'[y] # "gone" => stage[y] # "gone"
        /\ \A y \in Zips : stage[y] = "fresh" => stage'[y] = "fresh"
    BY <1>1, <1>2, CollectedKeeps
  <2>2. Stands
    BY <2>1 DEF Stands
  <2>3. job' \in [Calls -> Jobs \cup {Void}] /\ \A k \in Calls : job'[k] \in {job[k], Void}
    BY <1>1, <1>2
  <2>4. QED  BY <1>1, <2>1, <2>2, <2>3, StageKeeps
<1>3. ASSUME stage' = [Collected EXCEPT ![z] = "fresh"], ~Present(Root(s)),
             job' = [job EXCEPT ![r] = Replace("upload", z, Root(s))]
      PROVE  SkillsInv' /\ Touches /\ Stands
  <2>1. /\ stage' \in [Zips -> Stages]
        /\ \A y \in Zips : stage'[y] # "gone" => stage[y] # "gone"
        /\ \A y \in Zips : stage[y] = "fresh" => stage'[y] = "fresh"
    BY <1>1, <1>3, CollectedKeeps
  <2>2. PICK rm : rm = <<>>
    OBVIOUS
  <2>3. rm \in Removals /\ Found(Root(s)) = rm
    BY <1>3, <2>2 DEF Removals, Found
  <2>4. PICK to : to = Root(s)
    OBVIOUS
  <2>5. to \in Places
    BY <2>4, PlacesKnown
  <2>6. PICK op : op = "upload"
    OBVIOUS
  <2>7. job' = [job EXCEPT ![r] = [op |-> op, rm |-> rm, from |-> z, to |-> to]]
    BY <1>3, <2>3, <2>4, <2>6 DEF Replace
  <2>8. op \in {"upload", "apply", "enable", "disable", "delete"} /\ op # "delete"
    BY <2>6
  <2>9. op = "upload" => rm = <<>> /\ z \in Zips
    BY <2>2
  <2>10. to \in Places \cup {Void} /\ z \in Places \cup Zips \cup {Void}
    BY <2>5
  <2>11. op = "delete" => to = Void /\ rm # <<>>
    BY <2>8
  <2>12. op # "delete" => z \in Zips \cup Places /\ to \in Places
    BY <2>5
  <2>13. QED  BY <1>1, <2>1, <2>3, <2>7, <2>8, <2>9, <2>10, <2>11, <2>12, JobsKeep
<1>4. CASE stage' = [Collected EXCEPT ![z] = "gone"] /\ UNCHANGED job
  BY <1>2, <1>4
<1>5. CASE stage' = [Collected EXCEPT ![z] = "torn"] /\ UNCHANGED job
  BY <1>2, <1>5
<1>6. CASE /\ stage' = [Collected EXCEPT ![z] = "fresh"]
           /\ job' = IF Present(Root(s)) THEN job
                     ELSE [job EXCEPT ![r] = Replace("upload", z, Root(s))]
  <2>1. CASE Present(Root(s))
    BY <1>2, <1>6, <2>1
  <2>2. CASE ~Present(Root(s))
    BY <1>3, <1>6, <2>2
  <2>3. QED  BY <2>1, <2>2
<1>7. QED  BY <1>4, <1>5, <1>6 DEF Upload

\* The requests that only make a job.
LEMMA RequestMade ==
  ASSUME PlacesAssumption, SkillsInv, NEW r \in Calls, dir' = dir, stage' = stage, job[r] = Void,
         NEW op \in {"apply", "enable", "disable", "delete"}, NEW rm \in Removals,
         NEW from \in Places \cup Zips \cup {Void}, NEW to \in Places \cup {Void},
         job' = [job EXCEPT ![r] = [op |-> op, rm |-> rm, from |-> from, to |-> to]],
         op = "delete" => to = Void /\ rm # <<>>,
         op # "delete" => from \in Zips \cup Places /\ to \in Places
  PROVE  SkillsInv' /\ Touches /\ Stands
<1>1. stage' \in [Zips -> Stages]
  BY TypesKnown
<1>2. \A z \in Zips : stage'[z] # "gone" => stage[z] # "gone"
  OBVIOUS
<1>3. \A z \in Zips : stage[z] = "fresh" => stage'[z] = "fresh"
  OBVIOUS
<1>4. op \in {"upload", "apply", "enable", "disable", "delete"} /\ op # "upload"
  OBVIOUS
<1>5. op = "upload" => rm = <<>> /\ from \in Zips
  BY <1>4
<1>6. QED  BY <1>1, <1>2, <1>3, <1>4, <1>5, JobsKeep

\* A list of what was found is empty only when nothing was.
LEMMA PairsFull ==
  \A p, q \in Places : <<p>> \o <<>> # <<>> /\ <<>> \o <<p>> # <<>> /\ <<p>> \o <<q>> # <<>>
<1>1. ASSUME NEW p \in Places, NEW q \in Places
      PROVE  <<p>> \o <<>> # <<>> /\ <<>> \o <<p>> # <<>> /\ <<p>> \o <<q>> # <<>>
  <2>1. <<p>> \in Seq(Places) /\ <<q>> \in Seq(Places) /\ <<>> \in Seq(Places)
    OBVIOUS
  <2>2. Len(<<p>>) = 1 /\ Len(<<q>>) = 1 /\ Len(<<>>) = 0
    OBVIOUS
  <2>3. Len(<<p>> \o <<>>) = 1 /\ Len(<<>> \o <<p>>) = 1 /\ Len(<<p>> \o <<q>>) = 2
    BY <2>1, <2>2, ConcatProperties
  <2>4. QED  BY <2>2, <2>3
<1>2. QED  BY <1>1

\* Applying, enabling, disabling and deleting each begin.
LEMMA RequestsKeep ==
  ASSUME PlacesAssumption, SkillsInv, NEW r \in Calls,
         \/ \E s \in Scopes, z \in Zips : Apply(r, s, z)
         \/ \E u \in Owners : Enable(r, u) \/ Disable(r, u) \/ Delete(r, u)
         \/ DeleteShared(r)
  PROVE  SkillsInv' /\ Touches /\ Stands
<1>1. ASSUME NEW s \in Scopes, NEW z \in Zips, Apply(r, s, z)
      PROVE  SkillsInv' /\ Touches /\ Stands
  <2>1. dir' = dir /\ stage' = stage /\ job[r] = Void
    BY <1>1 DEF Apply
  <2>2. PICK rm : rm = Found(Root(s))
    OBVIOUS
  <2>3. PICK to : to = Root(s)
    OBVIOUS
  <2>4. to \in Places /\ rm \in Removals
    BY <2>2, <2>3, PlacesKnown, RemovalsKnown
  <2>5. job' = [job EXCEPT ![r] = [op |-> "apply", rm |-> rm, from |-> z, to |-> to]]
    BY <1>1, <2>2, <2>3 DEF Apply, Replace
  <2>6. QED  BY <2>1, <2>4, <2>5, RequestMade
<1>2. ASSUME NEW u \in Owners, Enable(r, u)
      PROVE  SkillsInv' /\ Touches /\ Stands
  <2>1. dir' = dir /\ stage' = stage /\ job[r] = Void
    BY <1>2 DEF Enable
  <2>2. PICK from : from = Library(u)
    OBVIOUS
  <2>3. PICK to : to = Enabled(u)
    OBVIOUS
  <2>4. PICK rm : rm = <<>>
    OBVIOUS
  <2>5. to \in Places /\ from \in Places /\ rm \in Removals
    BY <2>2, <2>3, <2>4, PlacesKnown DEF Removals
  <2>6. job' = [job EXCEPT ![r] = [op |-> "enable", rm |-> rm, from |-> from, to |-> to]]
    BY <1>2, <2>2, <2>3, <2>4 DEF Enable
  <2>7. QED  BY <2>1, <2>5, <2>6, RequestMade
<1>3. ASSUME NEW u \in Owners, Disable(r, u)
      PROVE  SkillsInv' /\ Touches /\ Stands
  <2>1. dir' = dir /\ stage' = stage /\ job[r] = Void
    BY <1>3 DEF Disable
  <2>2. PICK from : from = Enabled(u)
    OBVIOUS
  <2>3. PICK to : to = Library(u)
    OBVIOUS
  <2>4. PICK rm : rm = Found(Library(u))
    OBVIOUS
  <2>5. to \in Places /\ from \in Places /\ rm \in Removals
    BY <2>2, <2>3, <2>4, PlacesKnown, RemovalsKnown
  <2>6. job' = [job EXCEPT ![r] = [op |-> "disable", rm |-> rm, from |-> from, to |-> to]]
    BY <1>3, <2>2, <2>3, <2>4 DEF Disable
  <2>7. QED  BY <2>1, <2>5, <2>6, RequestMade
<1>4. ASSUME NEW u \in Owners, Delete(r, u)
      PROVE  SkillsInv' /\ Touches /\ Stands
  <2>1. dir' = dir /\ stage' = stage /\ job[r] = Void
    BY <1>4 DEF Delete
  <2>2. PICK rm : rm = Found(Enabled(u)) \o Found(Library(u))
    OBVIOUS
  <2>3. Enabled(u) \in Places /\ Library(u) \in Places /\ rm \in Removals
    BY <2>2, PlacesKnown, RemovalsKnown
  <2>4. Present(Enabled(u)) \/ Present(Library(u))
    BY <1>4 DEF Delete
  <2>5. rm # <<>>
    <3>1. \A p, q \in Places : /\ <<p>> \o <<>> # <<>> /\ <<>> \o <<p>> # <<>>
                               /\ <<p>> \o <<q>> # <<>>
      BY PairsFull
    <3>2. QED  BY <2>2, <2>3, <2>4, <3>1 DEF Found
  <2>6. job' = [job EXCEPT ![r] = [op |-> "delete", rm |-> rm, from |-> Void, to |-> Void]]
    BY <1>4, <2>2 DEF Delete
  <2>7. QED  BY <2>1, <2>3, <2>5, <2>6, RequestMade
<1>5. ASSUME DeleteShared(r)
      PROVE  SkillsInv' /\ Touches /\ Stands
  <2>1. dir' = dir /\ stage' = stage /\ job[r] = Void
    BY <1>5 DEF DeleteShared
  <2>2. PICK rm : rm = <<Shared>>
    OBVIOUS
  <2>3. rm \in Removals /\ rm # <<>>
    BY <2>2, PlacesKnown DEF Removals
  <2>4. job' = [job EXCEPT ![r] = [op |-> "delete", rm |-> rm, from |-> Void, to |-> Void]]
    BY <1>5, <2>2 DEF DeleteShared
  <2>5. QED  BY <2>1, <2>3, <2>4, RequestMade
<1>6. QED  BY <1>1, <1>2, <1>3, <1>4, <1>5

\* A request ends, and its upload dir starts going.
LEMMA EndedKeeps ==
  ASSUME PlacesAssumption, SkillsInv, NEW r \in Calls, job[r] # Void, Ended(r)
  PROVE  /\ stage' \in [Zips -> Stages] /\ job' \in [Calls -> Jobs \cup {Void}]
         /\ \A k \in Calls : job'[k] \in {job[k], Void}
         /\ \A z \in Zips : stage'[z] # "gone" => stage[z] # "gone"
         /\ Stands
<1>1. stage \in [Zips -> Stages] /\ job \in [Calls -> Jobs \cup {Void}]
  BY TypesKnown
<1>2. job' \in [Calls -> Jobs \cup {Void}] /\ \A k \in Calls : job'[k] \in {job[k], Void}
  BY <1>1 DEF Ended
<1>3. \A z \in Zips : \/ stage'[z] = stage[z]
                      \/ z = job[r].from /\ Staged(z) /\ stage'[z] = "torn"
  BY <1>1 DEF Ended
<1>4. stage' \in [Zips -> Stages]
  BY <1>1 DEF Ended, Stages
<1>5. \A z \in Zips : stage'[z] # "gone" => stage[z] # "gone"
  BY <1>3 DEF Staged
<1>6. Stands
  BY <1>3 DEF Stands
<1>7. QED  BY <1>2, <1>4, <1>5, <1>6

\* A removal takes a file of what it is at.
LEMMA TearsKeeps ==
  ASSUME PlacesAssumption, SkillsInv, NEW r \in Calls, Tears(r)
  PROVE  SkillsInv' /\ Touches /\ Stands
<1>1. /\ dir \in [Places -> Content \cup {Void}] /\ job[r].rm \in Removals /\ job[r].rm # <<>>
      /\ job[r] # Void /\ stage' = stage /\ job' = job
  BY TypesKnown DEF Tears
<1>2. PICK p : p = Head(job[r].rm)
  OBVIOUS
<1>3. p \in Places /\ 1 \in 1 .. Len(job[r].rm) /\ job[r].rm[1] = p
  BY <1>1, <1>2, RemovalsKnown
<1>4. Present(p) /\ dir' = [dir EXCEPT ![p].whole = FALSE]
  BY <1>2 DEF Tears
<1>5. dir[p] \in Content
  BY <1>1, <1>3, <1>4 DEF Present
<1>6. PICK n : n = [dir[p] EXCEPT !.whole = FALSE]
  OBVIOUS
<1>7. n \in Content /\ n.zip = dir[p].zip
  BY <1>5, <1>6 DEF Content
<1>8. /\ dir' \in [Places -> Content \cup {Void}]
      /\ \A q \in Places : dir'[q] = IF q = p THEN n ELSE dir[q]
  BY <1>1, <1>3, <1>4, <1>6, <1>7
<1>9. \A q \in Places : Present(q)' => Present(q) /\ dir'[q].zip = dir[q].zip
  BY <1>4, <1>7, <1>8 DEF Present
<1>10. OnePlacePerUpload' /\ StagedAbsent'
  BY <1>1, <1>8, <1>9, PlacesKeep
<1>11. SkillsTypeOK' /\ JobsFit'
  BY <1>1, <1>8 DEF SkillsInv, SkillsTypeOK, JobsFit
<1>12. Involves(r, p)
  BY <1>1, <1>3 DEF SkillsInv, JobsFit, Involves
<1>13. Touches
  <2>1. \A u \in Owners : Listed(u) \subseteq Places
    BY PlacesKnown DEF Listed
  <2>2. QED  BY <1>8, <1>12, <2>1 DEF Touches
<1>14. Stands
  BY <1>1 DEF Stands
<1>15. QED  BY <1>10, <1>11, <1>13, <1>14 DEF SkillsInv

\* A removal ends.
LEMMA RemovedKeeps ==
  ASSUME PlacesAssumption, SkillsInv, NEW r \in Calls, Removed(r)
  PROVE  SkillsInv' /\ Touches /\ Stands
<1>1. /\ dir \in [Places -> Content \cup {Void}] /\ stage \in [Zips -> Stages]
      /\ job \in [Calls -> Jobs \cup {Void}]
      /\ job[r] \in Jobs /\ job[r].rm \in Removals /\ job[r].rm # <<>> /\ job[r] # Void
  BY TypesKnown DEF Removed
<1>2. PICK p : p = Head(job[r].rm)
  OBVIOUS
<1>3. p \in Places /\ 1 \in 1 .. Len(job[r].rm) /\ job[r].rm[1] = p /\ Tail(job[r].rm) \in Removals
  BY <1>1, <1>2, RemovalsKnown
<1>4. dir' = [dir EXCEPT ![p] = Void]
  BY <1>2 DEF Removed
<1>5. /\ dir' \in [Places -> Content \cup {Void}]
      /\ \A q \in Places : dir'[q] = IF q = p THEN Void ELSE dir[q]
  BY <1>1, <1>3, <1>4
<1>6. \A q \in Places : Present(q)' => Present(q) /\ dir'[q].zip = dir[q].zip
  BY <1>5 DEF Present
<1>7. Involves(r, p)
  BY <1>1, <1>3 DEF SkillsInv, JobsFit, Involves
<1>8. Touches
  <2>1. \A u \in Owners : Listed(u) \subseteq Places
    BY PlacesKnown DEF Listed
  <2>2. QED  BY <1>5, <1>7, <2>1 DEF Touches
<1>9. CASE Len(job[r].rm) = 1 /\ job[r].to = Void
  <2>1. Ended(r)
    BY <1>9 DEF Removed
  <2>2. /\ stage' \in [Zips -> Stages] /\ job' \in [Calls -> Jobs \cup {Void}]
        /\ \A k \in Calls : job'[k] \in {job[k], Void}
        /\ \A z \in Zips : stage'[z] # "gone" => stage[z] # "gone"
        /\ Stands
    BY <1>1, <2>1, EndedKeeps
  <2>3. OnePlacePerUpload' /\ StagedAbsent'
    BY <1>5, <1>6, <2>2, PlacesKeep
  <2>4. SkillsTypeOK'
    BY <1>5, <2>2 DEF SkillsInv, SkillsTypeOK, Stages
  <2>5. JobsFit'
    BY <2>2 DEF SkillsInv, JobsFit
  <2>6. QED  BY <1>8, <2>2, <2>3, <2>4, <2>5 DEF SkillsInv
<1>10. CASE ~(Len(job[r].rm) = 1 /\ job[r].to = Void)
  <2>1. stage' = stage /\ job' = [job EXCEPT ![r].rm = Tail(@)]
    BY <1>10 DEF Removed
  <2>2. PICK n : n = [job[r] EXCEPT !.rm = Tail(@)]
    OBVIOUS
  <2>3. /\ n \in Jobs /\ n.rm = Tail(job[r].rm) /\ n.op = job[r].op
        /\ n.from = job[r].from /\ n.to = job[r].to
    <3>1. \A j \in Jobs, rm \in Removals : LET m == [j EXCEPT !.rm = rm] IN
            m \in Jobs /\ m.rm = rm /\ m.op = j.op /\ m.from = j.from /\ m.to = j.to
      BY DEF Jobs, Removals
    <3>2. n = [job[r] EXCEPT !.rm = Tail(job[r].rm)]
      BY <2>2
    <3>3. QED  BY <1>1, <1>3, <3>1, <3>2
  <2>4. /\ job' \in [Calls -> Jobs \cup {Void}]
        /\ \A k \in Calls : job'[k] = IF k = r THEN n ELSE job[k]
    BY <1>1, <2>1, <2>2, <2>3
  <2>5. job[r].op = "delete" => n.rm # <<>>
    <3>1. ASSUME job[r].op = "delete"
          PROVE  Len(job[r].rm) # 1
      BY <1>1, <1>10, <3>1 DEF SkillsInv, JobsFit
    <3>2. QED  BY <1>1, <2>3, <3>1, RemovalsKnown
  <2>6. job[r].op # "upload"
    BY <1>1 DEF SkillsInv, JobsFit
  <2>7. IF n.op = "delete" THEN n.rm # <<>> ELSE n.to # Void
    BY <1>1, <2>3, <2>5 DEF SkillsInv, SkillsTypeOK
  <2>8. SkillsTypeOK'
    BY <1>5, <2>1, <2>4, <2>7 DEF SkillsInv, SkillsTypeOK
  <2>9. JobsFit'
    BY <1>1, <2>3, <2>4, <2>6 DEF SkillsInv, JobsFit
  <2>10. OnePlacePerUpload' /\ StagedAbsent'
    BY <1>5, <1>6, <2>1, PlacesKeep
  <2>11. Stands
    BY <2>1 DEF Stands
  <2>12. QED  BY <1>8, <2>8, <2>9, <2>10, <2>11 DEF SkillsInv
<1>11. QED  BY <1>9, <1>10

\* A request fails between its steps.
LEMMA FailsKeeps ==
  ASSUME PlacesAssumption, SkillsInv, NEW r \in Calls, Fails(r)
  PROVE  SkillsInv' /\ Touches /\ Stands
<1>1. dir' = dir /\ job[r] # Void /\ Ended(r)
  BY DEF Fails
<1>2. QED  BY <1>1, EndedKeeps, StageKeeps

\* A rename installs the upload or moves the skill.
LEMMA RenamesKeeps ==
  ASSUME PlacesAssumption, SkillsInv, NEW r \in Calls, Renames(r)
  PROVE  SkillsInv' /\ Touches /\ Stands
<1>1. /\ dir \in [Places -> Content \cup {Void}] /\ stage \in [Zips -> Stages]
      /\ job \in [Calls -> Jobs \cup {Void}]
      /\ job[r] # Void /\ job[r].rm = <<>>
      /\ job[r].from \in Places \cup Zips \cup {Void} /\ job[r].to \in Places \cup {Void}
  BY TypesKnown DEF Renames
<1>2. PICK from : from = job[r].from
  OBVIOUS
<1>3. PICK to : to = job[r].to
  OBVIOUS
<1>4. job[r].op # "delete"
  BY <1>1 DEF SkillsInv, SkillsTypeOK
<1>5. to \in Places
  BY <1>1, <1>3, <1>4 DEF SkillsInv, SkillsTypeOK
<1>6. from \in Zips \cup Places
  BY <1>1, <1>2, <1>4 DEF SkillsInv, JobsFit
<1>7. PICK n : n = Source(from)
  OBVIOUS
<1>8. /\ n # Void /\ Free(to)
      /\ dir' = [p \in Places |-> IF p = to THEN n ELSE IF p = from THEN Void ELSE dir[p]]
      /\ stage' = MovedOut(r) /\ job' = [job EXCEPT ![r] = Void]
  BY <1>2, <1>3, <1>7 DEF Renames
<1>9. \A p \in Places : dir'[p] = IF p = to THEN n ELSE IF p = from THEN Void ELSE dir[p]
  BY <1>8
<1>10. /\ job' \in [Calls -> Jobs \cup {Void}]
       /\ \A k \in Calls : job'[k] \in {job[k], Void}
  BY <1>1, <1>8
<1>11. JobsFit'
  BY <1>10 DEF SkillsInv, JobsFit
<1>12. \A u \in Owners : Listed(u) \subseteq Places
  BY PlacesKnown DEF Listed
<1>13. ~(dir[to].whole /\ Present(to))
  BY <1>8 DEF Free
<1>14. CASE from \in Zips
  <2>1. stage[from] # "gone" /\ n = [zip |-> from, whole |-> stage[from] # "torn"]
    BY <1>7, <1>8, <1>14 DEF Source, Staged
  <2>2. n \in Content /\ n.zip = from
    BY <1>14, <2>1 DEF Content
  <2>3. from \notin Places
    BY <1>14 DEF PlacesAssumption
  <2>4. stage' = [stage EXCEPT ![from] = "gone"]
    BY <1>2, <1>8, <1>14 DEF MovedOut
  <2>5. /\ stage' \in [Zips -> Stages]
        /\ \A z \in Zips : stage'[z] = IF z = from THEN "gone" ELSE stage[z]
    BY <1>1, <1>14, <2>4 DEF Stages
  <2>6. dir' \in [Places -> Content \cup {Void}]
    BY <1>1, <1>8, <2>2
  <2>7. \A p \in Places : dir'[p] = IF p = to THEN n ELSE dir[p]
    BY <1>9, <2>3
  <2>8. \A p \in Places : Present(p) => dir[p].zip # from
    BY <1>14, <2>1 DEF SkillsInv, StagedAbsent
  <2>9. OnePlacePerUpload'
    BY <2>2, <2>7, <2>8 DEF SkillsInv, OnePlacePerUpload, Present
  <2>10. StagedAbsent'
    BY <1>14, <2>2, <2>5, <2>7 DEF SkillsInv, StagedAbsent, Present
  <2>11. SkillsTypeOK'
    BY <1>10, <2>5, <2>6 DEF SkillsInv, SkillsTypeOK, Stages
  <2>12. Touches
    BY <1>12, <1>13, <2>7 DEF Touches, Listed
  <2>13. Stands
    BY <1>1, <1>2, <2>5 DEF Stands
  <2>14. QED  BY <1>11, <2>9, <2>10, <2>11, <2>12, <2>13 DEF SkillsInv
<1>15. CASE from \in Places
  <2>1. from \notin Zips
    BY <1>15 DEF PlacesAssumption
  <2>2. n = dir[from] /\ stage' = stage
    BY <1>2, <1>7, <1>8, <2>1 DEF Source, MovedOut
  <2>3. n \in Content /\ Present(from)
    BY <1>1, <1>8, <1>15, <2>2 DEF Present
  <2>4. dir' \in [Places -> Content \cup {Void}]
    BY <1>1, <1>8, <2>3
  <2>5. OnePlacePerUpload'
    BY <1>9, <1>15, <2>2, <2>3 DEF SkillsInv, OnePlacePerUpload, Present
  <2>6. StagedAbsent'
    BY <1>9, <1>15, <2>2, <2>3 DEF SkillsInv, StagedAbsent, Present
  <2>7. SkillsTypeOK'
    BY <1>1, <1>10, <2>2, <2>4 DEF SkillsInv, SkillsTypeOK, Stages
  <2>8. job[r].op # "upload"
    BY <1>1, <1>2, <2>1 DEF SkillsInv, JobsFit
  <2>9. Involves(r, from) /\ Involves(r, to)
    BY <1>1, <1>2, <1>3, <2>8 DEF Involves
  <2>10. Touches
    BY <1>9, <1>12, <2>9 DEF Touches
  <2>11. Stands
    BY <2>2 DEF Stands
  <2>12. QED  BY <1>11, <2>5, <2>6, <2>7, <2>10, <2>11 DEF SkillsInv
<1>16. QED  BY <1>6, <1>14, <1>15

\* Time passes, an upload dir is gone, or the portal crashes.
LEMMA RestKeepsSkills ==
  ASSUME PlacesAssumption, SkillsInv, \/ \E z \in Zips : Ages(z) \/ Cleaned(z)
                                      \/ Crash
                                      \/ UNCHANGED skillsVars
  PROVE  SkillsInv' /\ Touches /\ Stands
<1>1. stage \in [Zips -> Stages] /\ job \in [Calls -> Jobs \cup {Void}] /\ dir' = dir
  BY TypesKnown DEF Ages, Cleaned, Crash, skillsVars
<1>2. ASSUME job' = job, NEW z \in Zips, NEW s \in {"stale", "gone"},
             stage' = [stage EXCEPT ![z] = s], s = "stale" => stage[z] = "fresh",
             s = "gone" => stage[z] = "torn"
      PROVE  SkillsInv' /\ Touches /\ Stands
  <2>1. \A y \in Zips : stage'[y] = IF y = z THEN s ELSE stage[y]
    BY <1>1, <1>2
  <2>2. stage' \in [Zips -> Stages]
    BY <1>1, <1>2 DEF Stages
  <2>3. \A y \in Zips : stage'[y] # "gone" => stage[y] # "gone"
    BY <1>2, <2>1
  <2>4. Stands
    BY <1>2, <2>1 DEF Stands
  <2>5. job' \in [Calls -> Jobs \cup {Void}] /\ \A k \in Calls : job'[k] \in {job[k], Void}
    BY <1>1, <1>2
  <2>6. QED  BY <1>1, <2>2, <2>3, <2>4, <2>5, StageKeeps
<1>3. ASSUME NEW z \in Zips, Ages(z)
      PROVE  SkillsInv' /\ Touches /\ Stands
  BY <1>2, <1>3 DEF Ages
<1>4. ASSUME NEW z \in Zips, Cleaned(z)
      PROVE  SkillsInv' /\ Touches /\ Stands
  BY <1>2, <1>4 DEF Cleaned
<1>5. ASSUME stage' = stage, \A k \in Calls : job'[k] \in {job[k], Void},
             job' \in [Calls -> Jobs \cup {Void}]
      PROVE  SkillsInv' /\ Touches /\ Stands
  <2>1. Stands
    BY <1>5 DEF Stands
  <2>2. stage' \in [Zips -> Stages] /\ \A y \in Zips : stage'[y] # "gone" => stage[y] # "gone"
    BY <1>1, <1>5
  <2>3. QED  BY <1>1, <1>5, <2>1, <2>2, StageKeeps
<1>6. CASE Crash
  <2>1. stage' = stage /\ job' = [k \in Calls |-> Void]
    BY <1>6 DEF Crash
  <2>2. QED  BY <1>5, <2>1
<1>7. CASE UNCHANGED skillsVars
  <2>1. stage' = stage /\ job' = job
    BY <1>7 DEF skillsVars
  <2>2. QED  BY <1>1, <1>5, <2>1
<1>8. QED  BY <1>3, <1>4, <1>6, <1>7

\* No step breaks the invariant, touches what is listed for an upload alone, or takes a waiting upload.
LEMMA SkillsStep ==
  ASSUME PlacesAssumption, SkillsInv, [SkillsNext]_skillsVars
  PROVE  SkillsInv' /\ Touches /\ Stands
<1>1. ASSUME NEW r \in Calls, NEW s \in Scopes, NEW z \in Zips, Upload(r, s, z)
      PROVE  SkillsInv' /\ Touches /\ Stands
  BY <1>1, UploadKeeps
<1>2. ASSUME NEW r \in Calls, NEW s \in Scopes, NEW z \in Zips, Apply(r, s, z)
      PROVE  SkillsInv' /\ Touches /\ Stands
  BY <1>2, RequestsKeep
<1>3. ASSUME NEW r \in Calls, NEW u \in Owners, Enable(r, u) \/ Disable(r, u) \/ Delete(r, u)
      PROVE  SkillsInv' /\ Touches /\ Stands
  BY <1>3, RequestsKeep
<1>4. ASSUME NEW r \in Calls, DeleteShared(r)
      PROVE  SkillsInv' /\ Touches /\ Stands
  BY <1>4, RequestsKeep
<1>5. ASSUME NEW r \in Calls, Tears(r) \/ Removed(r) \/ Fails(r) \/ Renames(r)
      PROVE  SkillsInv' /\ Touches /\ Stands
  BY <1>5, TearsKeeps, RemovedKeeps, FailsKeeps, RenamesKeeps
<1>6. CASE (\E z \in Zips : Ages(z) \/ Cleaned(z)) \/ Crash \/ UNCHANGED skillsVars
  BY <1>6, RestKeepsSkills
<1>7. QED  BY <1>1, <1>2, <1>3, <1>4, <1>5, <1>6 DEF SkillsNext

\* Places, uploads and requests are right in every state, one place for each upload, for every
\* set of owners, uploads and requests.
THEOREM SkillsCorrect == SkillsSpec => []SkillsInv
<1>1. SkillsInit => SkillsInv
  BY PlacesAssumption, SkillsInitially
<1>2. SkillsInv /\ [SkillsNext]_skillsVars => SkillsInv'
  BY PlacesAssumption, SkillsStep
<1>3. QED  BY <1>1, <1>2, PTL DEF SkillsSpec

\* What a user sees listed goes by no upload alone, and an upload that waits for its confirmation
\* stays whole (skills.ts), however the requests interleave.
THEOREM SkillsAreKept == SkillsSpec => SkillsKept
<1>1. SkillsInv => SkillsTypeOK /\ OnePlacePerUpload
  BY DEF SkillsInv
<1>2. SkillsInv /\ [SkillsNext]_skillsVars => [Touches]_skillsVars
  BY PlacesAssumption, SkillsStep
<1>3. SkillsInv /\ [SkillsNext]_skillsVars => [Stands]_skillsVars
  BY PlacesAssumption, SkillsStep
<1>4. SkillsSpec => [](SkillsTypeOK /\ OnePlacePerUpload)
  BY <1>1, SkillsCorrect, PTL
<1>5. SkillsSpec => [][Touches]_skillsVars
  BY <1>2, SkillsCorrect, PTL DEF SkillsSpec
<1>6. SkillsSpec => [][Stands]_skillsVars
  BY <1>3, SkillsCorrect, PTL DEF SkillsSpec
<1>7. SkillsSpec => UploadTouchesNothing
  BY <1>5 DEF UploadTouchesNothing, Touches
<1>8. SkillsSpec => OfferStands
  BY <1>6 DEF OfferStands, Stands
<1>9. QED  BY <1>4, <1>7, <1>8, PTL DEF SkillsKept

-----------------------------------------------------------------------------
\* The landing of models.

\* What the variables hold: a line of a file is absent, the user's or the platform's.
Lines == {NoLine, Mine} \cup {Ours(value) : value \in KeyValues \cup {SharedKey}}
Lists == [refs : SUBSET Refs, routes : SUBSET Routes]
Landings == [pc : {"none", "own", "files", "blocks", "both", "write", "settings", "list"},
             own : [ModelSlots -> KeyValues \cup {Off}], shared : SUBSET ModelSlots, prev : Lists,
             writes : SUBSET {"cred", "sett"}, cred : [Refs -> Lines], sett : [Routes -> Lines]]

LandingTypes ==
  /\ own \in [ModelSlots -> KeyValues \cup {Off}] /\ shared \subseteq ModelSlots
  /\ cred \in [Refs -> Lines] /\ sett \in [Routes -> Lines] /\ managed \in Lists
  /\ land \in [Landers -> Landings] /\ calm \in BOOLEAN /\ changes \in Nat /\ breaks \in Nat

\* What the platform wrote, or says it wrote, is in the history, or about to be written.
AboutToWrite(l) ==
  IF land[l].pc = "write" /\ "cred" \in land[l].writes
  THEN {ref \in Refs : land[l].cred[ref].by = "platform"} ELSE {}
LinesWritten ==
  /\ \A ref \in Refs : cred[ref].by = "platform" => ref \in ever
  /\ \A s \in Routes : sett[s].by = "platform" => s \in ever
  /\ managed.refs \subseteq ever
  /\ \A l \in Landers :
       /\ land[l].prev.refs \subseteq ever \cup AboutToWrite(l)
       /\ land[l].pc \in {"blocks", "both"} =>
            \A ref \in Refs : land[l].cred[ref].by = "platform" => ref \in ever

\* A text a landing holds has the lines the platform never wrote as they are in the file,
\* but those the user changed since, and those the landing is the first to write.
Suits(new, old) == new = old \/ (new.by = "platform" /\ old = NoLine)
TextsFresh ==
  \A l \in Landers :
    /\ land[l].pc \in {"blocks", "both", "write"} =>
         \A ref \in Refs : ref \notin ever \cup raced => Suits(land[l].cred[ref], cred[ref])
    /\ land[l].pc \in {"both", "write", "settings"} =>
         \A s \in Routes : s \notin ever \cup raced => Suits(land[l].sett[s], sett[s])

\* A list of what the platform wrote names every line it wrote.
CredCovered(list, text) == \A ref \in Refs : text[ref].by = "platform" => ref \in list.refs
SettCovered(list, blocks) == \A s \in Routes : blocks[s].marked => s \in list.routes

\* A text is the file's, but for the lines the user changed since.
SameCred(text) == \A ref \in Refs : cred[ref].by = "platform" \/ ref \notin raced => cred[ref] = text[ref]
SameSett(blocks) == \A s \in Routes : sett[s].marked => sett[s] = blocks[s]

\* The files say what a landing was asked for.
CredRight(l, text) ==
  \A ref \in Refs :
    /\ text[ref].by = "platform" => ref \in land[l].prev.refs /\ text[ref].value \in AskedFor(l, ref)
    /\ AskedFor(l, ref) # {} /\ ref \notin raced => text[ref] # NoLine
SettRight(l, blocks) ==
  \A s \in Routes : blocks[s].marked =>
    s \in land[l].prev.routes /\ (land[l].own[s] # Off \/ s \in land[l].shared)

\* How far a landing that is alone has come.
CalmLanding(l) ==
  /\ land[l].pc \in {"own", "files", "blocks", "both"} => land[l].prev = managed
  /\ land[l].pc \in {"blocks", "both"} => CredCovered(managed, land[l].cred) /\ SameCred(land[l].cred)
  /\ land[l].pc = "both" => SettCovered(managed, land[l].sett) /\ SameSett(land[l].sett)
  /\ land[l].pc = "write" => CredRight(l, land[l].cred) /\ ("cred" \in land[l].writes \/ SameCred(land[l].cred))
  /\ land[l].pc \in {"write", "settings"} =>
       SettRight(l, land[l].sett) /\ ("sett" \in land[l].writes \/ SameSett(land[l].sett))
  /\ land[l].pc \in {"settings", "list"} => CredRight(l, cred)
  /\ land[l].pc = "list" => SettRight(l, sett)

\* While no landing overlapped another or was broken off half done.
Untouched == \A l \in Landers : land[l].pc \notin {"settings", "list"}
CalmFit ==
  calm =>
    /\ \A k, l \in Landers : land[k].pc # "none" /\ land[l].pc # "none" => k = l
    /\ Untouched => CredCovered(managed, cred) /\ SettCovered(managed, sett)
    /\ \A l \in Landers : CalmLanding(l)

LandingInv == LandingTypes /\ LinesWritten /\ TextsFresh /\ CalmFit

\* What a line can be.
LEMMA LineFacts ==
  /\ NoLine \in Lines /\ Mine \in Lines /\ \A v \in KeyValues \cup {SharedKey} : Ours(v) \in Lines
  /\ \A x \in Lines : /\ x.by = "platform" <=> x.marked
                      /\ x.by = "platform" => x.value \in KeyValues \cup {SharedKey}
                      /\ x.value = SharedKey => x.by = "platform"
  /\ NoLine.by # "platform" /\ NoLine.by # "user" /\ Mine.by = "user" /\ Mine # NoLine /\ ~NoLine.marked /\ ~Mine.marked
  /\ \A v : /\ Ours(v).by = "platform" /\ Ours(v).value = v /\ Ours(v).marked /\ Ours(v) # NoLine
<1>1. NoLine \in Lines /\ Mine \in Lines /\ \A v \in KeyValues \cup {SharedKey} : Ours(v) \in Lines
  BY DEF Lines
<1>2. /\ NoLine.by # "platform" /\ NoLine.by # "user" /\ Mine.by = "user" /\ Mine # NoLine
      /\ ~NoLine.marked /\ ~Mine.marked /\ NoLine.value # SharedKey /\ Mine.value # SharedKey
  BY DEF NoLine, Mine, SharedKey, UserText, Off
<1>3. \A v : Ours(v).by = "platform" /\ Ours(v).value = v /\ Ours(v).marked /\ Ours(v) # NoLine
  BY DEF NoLine, Ours
<1>4. ASSUME NEW x \in Lines
      PROVE  /\ x.by = "platform" <=> x.marked
             /\ x.by = "platform" => x.value \in KeyValues \cup {SharedKey}
             /\ x.value = SharedKey => x.by = "platform"
  <2>1. CASE x \in {NoLine, Mine}
    BY <1>2, <2>1
  <2>2. CASE \E v \in KeyValues \cup {SharedKey} : x = Ours(v)
    BY <1>3, <2>2
  <2>3. QED  BY <2>1, <2>2 DEF Lines
<1>5. QED  BY <1>1, <1>2, <1>3, <1>4

\* The entry that supplies a credential is one of the wanted, and its value an admissible one.
LEMMA PickFacts ==
  ASSUME LandingTypes, NEW l \in Landers, NEW choice \in Picks(l), NEW ref \in Refs
  PROVE  /\ choice[ref] # "none" => /\ choice[ref] \in Suppliers(l, ref)
                                    /\ ValueOf(l, choice[ref]) \in AskedFor(l, ref)
                                    /\ ValueOf(l, choice[ref]) \in KeyValues \cup {SharedKey}
         /\ AskedFor(l, ref) # {} => choice[ref] # "none"
         /\ \A s \in Routes : choice[ref] = s => land[l].own[s] # Off \/ s \in land[l].shared
<1>1. Suppliers(l, ref) \subseteq {s \in ModelSlots : land[l].own[s] # Off \/ s \in land[l].shared}
  BY DEF Suppliers, LandingTypes, Landings
<1>2. IF Suppliers(l, ref) = {} THEN choice[ref] = "none" ELSE choice[ref] \in Suppliers(l, ref)
  BY DEF Picks
<1>3. \A s \in ModelSlots : ValueOf(l, s) \in KeyValues \cup {SharedKey}
  BY DEF ValueOf, LandingTypes, Landings
<1>4. ASSUME choice[ref] # "none"
      PROVE  choice[ref] \in Suppliers(l, ref) /\ choice[ref] \in ModelSlots
  BY <1>1, <1>2, <1>4
<1>5. AskedFor(l, ref) # {} => choice[ref] # "none"
  BY <1>1, <1>2, LandingAssumption DEF AskedFor
<1>6. \A s \in Routes : choice[ref] = s => land[l].own[s] # Off \/ s \in land[l].shared
  BY <1>1, <1>2, LandingAssumption DEF Routes
<1>7. choice[ref] # "none" => ValueOf(l, choice[ref]) \in AskedFor(l, ref)
  BY <1>4 DEF AskedFor
<1>8. QED  BY <1>3, <1>4, <1>5, <1>6, <1>7

\* One landing moves, the others stay as they are.
LEMMA OneLands ==
  ASSUME LandingTypes, NEW l \in Landers, NEW n \in Landings, land' = [land EXCEPT ![l] = n]
  PROVE  /\ land' \in [Landers -> Landings]
         /\ \A k \in Landers : land'[k] = IF k = l THEN n ELSE land[k]
  BY DEF LandingTypes

\* No landing under way.
LEMMA NoLandingTyped ==
  /\ NoLanding \in Landings /\ NoLanding.pc = "none" /\ NoLanding.prev.refs = {}
<1>1. [s \in ModelSlots |-> Off] \in [ModelSlots -> KeyValues \cup {Off}] /\ {} \in SUBSET ModelSlots
  OBVIOUS
<1>2. [r \in Refs |-> NoLine] \in [Refs -> Lines] /\ [r \in Routes |-> NoLine] \in [Routes -> Lines]
  BY LineFacts
<1>3. [refs |-> {}, routes |-> {}] \in Lists
  BY DEF Lists
<1>4. QED  BY <1>1, <1>2, <1>3 DEF NoLanding, Landings

\* The invariant holds before anybody landed anything.
LEMMA LandingInitially == ASSUME LandingInit PROVE LandingInv
<1>1. LandingTypes
  BY LineFacts, NoLandingTyped DEF LandingInit, LandingTypes, Lists
<1>2. LinesWritten
  BY LineFacts, NoLandingTyped DEF LandingInit, LinesWritten
<1>3. TextsFresh
  BY NoLandingTyped DEF LandingInit, TextsFresh
<1>4. CalmFit
  BY LineFacts, NoLandingTyped DEF LandingInit, CalmFit, CalmLanding, CredCovered, SettCovered
<1>5. QED  BY <1>1, <1>2, <1>3, <1>4 DEF LandingInv

\* A landing goes on to its next read: what it holds of the files by then is what they say.
LEMMA ReadStep ==
  ASSUME LandingInv, NEW l \in Landers, NEW n \in Landings, land' = [land EXCEPT ![l] = n],
         UNCHANGED <<own, shared, cred, sett, managed, ever, raced, changes, breaks>>,
         calm' \in BOOLEAN, calm' => calm /\ \A k \in Landers : land[k].pc # "none" => k = l,
         land[l].pc \notin {"settings", "list"},
         n.pc \in {"own", "files", "blocks", "both"}, n.prev.refs \subseteq ever,
         calm' => n.prev = managed,
         n.pc \in {"blocks", "both"} =>
           /\ \A ref \in Refs : n.cred[ref].by = "platform" => ref \in ever
           /\ \A ref \in Refs : ref \notin ever \cup raced => Suits(n.cred[ref], cred[ref])
           /\ calm' => CredCovered(managed, n.cred) /\ SameCred(n.cred),
         n.pc = "both" => n.sett = sett
  PROVE  LandingInv'
<1>1. /\ land' \in [Landers -> Landings]
      /\ \A k \in Landers : land'[k] = IF k = l THEN n ELSE land[k]
  BY OneLands DEF LandingInv
<1>2. LandingTypes'
  BY <1>1 DEF LandingInv, LandingTypes
<1>3. LinesWritten'
  <2>1. ASSUME NEW k \in Landers
        PROVE  /\ land'[k].prev.refs \subseteq ever \cup AboutToWrite(k)'
               /\ land'[k].pc \in {"blocks", "both"} =>
                    \A ref \in Refs : land'[k].cred[ref].by = "platform" => ref \in ever
    <3>1. CASE k = l
      BY <1>1, <3>1
    <3>2. CASE k # l
      <4>1. land'[k] = land[k] /\ AboutToWrite(k)' = AboutToWrite(k)
        BY <1>1, <3>2 DEF AboutToWrite
      <4>2. QED  BY <4>1 DEF LandingInv, LinesWritten
    <3>3. QED  BY <3>1, <3>2
  <2>2. QED  BY <2>1 DEF LandingInv, LinesWritten
<1>4. TextsFresh'
  BY <1>1 DEF LandingInv, TextsFresh, Suits
<1>5. CalmFit'
  <2> SUFFICES ASSUME calm' PROVE CalmFit'
    BY DEF CalmFit
  <2>1. calm /\ \A k \in Landers : land[k].pc # "none" => k = l
    OBVIOUS
  <2>2. Untouched
    BY <2>1 DEF Untouched
  <2>3. CredCovered(managed, cred) /\ SettCovered(managed, sett)
    BY <2>1, <2>2 DEF LandingInv, CalmFit
  <2>4. CredCovered(managed', cred') /\ SettCovered(managed', sett')
    BY <2>3
  <2>5. \A k \in Landers : k # l => land'[k].pc = "none"
    BY <1>1, <2>1
  <2>6. \A k \in Landers : k # l => CalmLanding(k)'
    BY <2>5 DEF CalmLanding
  <2>7. CalmLanding(l)'
    <3>1. land'[l] = n /\ n.prev = managed'
      BY <1>1
    <3>2. n.pc \in {"blocks", "both"} => CredCovered(managed', n.cred) /\ SameCred(n.cred)'
      BY DEF SameCred
    <3>3. n.pc = "both" => SettCovered(managed', n.sett) /\ SameSett(n.sett)'
      BY <2>3 DEF SameSett, SettCovered
    <3>4. n.pc \notin {"write", "settings", "list"}
      OBVIOUS
    <3>5. QED  BY <3>1, <3>2, <3>3, <3>4 DEF CalmLanding, SameCred, SameSett, CredCovered, SettCovered
  <2>8. QED  BY <2>4, <2>5, <2>6, <2>7 DEF CalmFit
<1>6. QED  BY <1>2, <1>3, <1>4, <1>5 DEF LandingInv

\* A landing begins with the list and the user's entries.
LEMMA LandingReads == ASSUME LandingInv, NEW l \in Landers, Reads(l) PROVE LandingInv'
<1>1. PICK n : n = [NoLanding EXCEPT !.pc = "own", !.prev = managed, !.own = own]
  OBVIOUS
<1>2. n \in Landings /\ n.pc = "own" /\ n.prev = managed
  BY <1>1, NoLandingTyped DEF LandingInv, LandingTypes, Landings
<1>3. /\ land[l].pc = "none" /\ land' = [land EXCEPT ![l] = n]
      /\ calm' = (calm /\ \A k \in Landers : land[k].pc = "none")
      /\ UNCHANGED <<own, shared, cred, sett, managed, ever, raced, changes, breaks>>
  BY <1>1 DEF Reads, Resting, entryTables
<1>4. calm' \in BOOLEAN
  BY <1>3
<1>5. n.prev.refs \subseteq ever
  BY <1>2 DEF LandingInv, LinesWritten
<1>6. QED  BY <1>2, <1>3, <1>4, <1>5, ReadStep

\* The shared entries of the moment.
LEMMA ReadsSharedKeep == ASSUME LandingInv, NEW l \in Landers, ReadsShared(l) PROVE LandingInv'
<1>1. PICK n : n = [land[l] EXCEPT !.pc = "files", !.shared = SharedEntries]
  OBVIOUS
<1>2. n \in Landings /\ n.pc = "files" /\ n.prev = land[l].prev
  BY <1>1 DEF LandingInv, LandingTypes, Landings, SharedEntries
<1>3. /\ land[l].pc = "own" /\ land' = [land EXCEPT ![l] = n]
      /\ UNCHANGED <<own, shared, cred, sett, managed, ever, raced, calm, changes, breaks>>
  BY <1>1 DEF ReadsShared, entryTables
<1>4. n.prev.refs \subseteq ever
  BY <1>2, <1>3 DEF LandingInv, LinesWritten, AboutToWrite
<1>5. calm => n.prev = managed /\ \A k \in Landers : land[k].pc # "none" => k = l
  BY <1>2, <1>3 DEF LandingInv, CalmFit, CalmLanding
<1>6. calm' \in BOOLEAN
  BY <1>3 DEF LandingInv, LandingTypes
<1>7. QED  BY <1>2, <1>3, <1>4, <1>5, <1>6, ReadStep

\* The credentials are read.
LEMMA ReadsCredKeep == ASSUME LandingInv, NEW l \in Landers, ReadsCred(l) PROVE LandingInv'
<1>1. PICK n : n = [land[l] EXCEPT !.pc = "blocks", !.cred = cred]
  OBVIOUS
<1>2. n \in Landings /\ n.pc = "blocks" /\ n.prev = land[l].prev /\ n.cred = cred
  BY <1>1 DEF LandingInv, LandingTypes, Landings
<1>3. /\ land[l].pc = "files" /\ land' = [land EXCEPT ![l] = n]
      /\ UNCHANGED <<own, shared, cred, sett, managed, ever, raced, calm, changes, breaks>>
  BY <1>1 DEF ReadsCred, entryTables
<1>4. n.prev.refs \subseteq ever
  BY <1>2, <1>3 DEF LandingInv, LinesWritten, AboutToWrite
<1>5. ASSUME calm
      PROVE  /\ n.prev = managed /\ \A k \in Landers : land[k].pc # "none" => k = l
             /\ CredCovered(managed, n.cred) /\ SameCred(n.cred)
  <2>1. n.prev = managed /\ \A k \in Landers : land[k].pc # "none" => k = l
    BY <1>2, <1>3, <1>5 DEF LandingInv, CalmFit, CalmLanding
  <2>2. Untouched
    BY <1>3, <2>1 DEF Untouched
  <2>3. QED  BY <1>2, <1>5, <2>1, <2>2 DEF LandingInv, CalmFit, SameCred
<1>6. \A ref \in Refs : (n.cred[ref].by = "platform" => ref \in ever) /\ Suits(n.cred[ref], cred[ref])
  BY <1>2 DEF LandingInv, LinesWritten, Suits
<1>7. calm' \in BOOLEAN
  BY <1>3 DEF LandingInv, LandingTypes
<1>8. QED  BY <1>2, <1>3, <1>4, <1>5, <1>6, <1>7, ReadStep

\* And the providers.
LEMMA ReadsSettKeep == ASSUME LandingInv, NEW l \in Landers, ReadsSett(l) PROVE LandingInv'
<1>1. PICK n : n = [land[l] EXCEPT !.pc = "both", !.sett = sett]
  OBVIOUS
<1>2. n \in Landings /\ n.pc = "both" /\ n.prev = land[l].prev /\ n.cred = land[l].cred /\ n.sett = sett
  BY <1>1 DEF LandingInv, LandingTypes, Landings
<1>3. /\ land[l].pc = "blocks" /\ land' = [land EXCEPT ![l] = n]
      /\ UNCHANGED <<own, shared, cred, sett, managed, ever, raced, calm, changes, breaks>>
  BY <1>1 DEF ReadsSett, entryTables
<1>4. n.prev.refs \subseteq ever
  BY <1>2, <1>3 DEF LandingInv, LinesWritten, AboutToWrite
<1>5. calm => /\ n.prev = managed /\ \A k \in Landers : land[k].pc # "none" => k = l
              /\ CredCovered(managed, n.cred) /\ SameCred(n.cred)
  BY <1>2, <1>3 DEF LandingInv, CalmFit, CalmLanding
<1>6. /\ \A ref \in Refs : n.cred[ref].by = "platform" => ref \in ever
      /\ \A ref \in Refs : ref \notin ever \cup raced => Suits(n.cred[ref], cred[ref])
  BY <1>2, <1>3 DEF LandingInv, LinesWritten, TextsFresh
<1>7. calm' \in BOOLEAN
  BY <1>3 DEF LandingInv, LandingTypes
<1>8. QED  BY <1>2, <1>3, <1>4, <1>5, <1>6, <1>7, ReadStep

\* What reconcileSettings makes of a text: a block is the platform's only if it was, or if
\* it is written now.
LEMMA NewSettFacts ==
  ASSUME LandingInv, NEW l \in Landers, NEW choice \in Picks(l)
  PROVE  /\ NewSett(land[l].sett, choice, land[l].prev.routes, l) \in [Routes -> Lines]
         /\ \A s \in Routes :
              LET new == NewSett(land[l].sett, choice, land[l].prev.routes, l)[s]
                  old == land[l].sett[s]
              IN  IF old.marked /\ s \in land[l].prev.routes /\ ~Wants(choice, s) THEN new = NoLine
                  ELSE IF old = NoLine /\ Wants(choice, s) THEN new.by = "platform"
                  ELSE new = old
<1>1. land[l].sett \in [Routes -> Lines]
  BY DEF LandingInv, LandingTypes, Landings
<1>2. \A s \in Routes : Ours(ValueOf(l, s)) \in Lines /\ Ours(ValueOf(l, s)).by = "platform"
  <2>1. \A s \in ModelSlots : ValueOf(l, s) \in KeyValues \cup {SharedKey}
    BY DEF ValueOf, LandingInv, LandingTypes, Landings
  <2>2. QED  BY <2>1, LineFacts DEF Routes
<1>3. QED  BY <1>1, <1>2, LineFacts DEF NewSett

\* What a landing was asked for is its own.
LEMMA AskedStays ==
  ASSUME NEW l \in Landers, land'[l].own = land[l].own, land'[l].shared = land[l].shared, NEW ref \in Refs
  PROVE  AskedFor(l, ref)' = AskedFor(l, ref)
  BY DEF AskedFor, Suppliers, ValueOf

\* An older release's line is handed over only when it was written and not listed.
LEMMA HandedOver ==
  ASSUME LandingInv, NEW l \in Landers, land[l].pc = "both"
  PROVE  /\ HandOver(l) \subseteq Refs /\ HandOver(l) \subseteq ever
         /\ calm => HandOver(l) = managed.refs
<1>1. /\ RefOf[Builtin] \in Refs /\ land[l].cred[RefOf[Builtin]] \in Lines /\ land[l].prev \in Lists
  BY LandingAssumption DEF LandingInv, LandingTypes, Landings
<1>2. land[l].prev.refs \subseteq ever /\ land[l].prev.refs \subseteq Refs
  BY <1>1 DEF LandingInv, LinesWritten, AboutToWrite, Lists
<1>3. ASSUME land[l].cred[RefOf[Builtin]].value = SharedKey
      PROVE  /\ RefOf[Builtin] \in ever
             /\ calm => RefOf[Builtin] \in managed.refs
  <2>1. land[l].cred[RefOf[Builtin]].by = "platform"
    BY <1>1, <1>3, LineFacts
  <2>2. calm => CredCovered(managed, land[l].cred)
    BY DEF LandingInv, CalmFit, CalmLanding
  <2>3. QED  BY <1>1, <2>1, <2>2 DEF LandingInv, LinesWritten, CredCovered
<1>4. calm => land[l].prev = managed
  BY DEF LandingInv, CalmFit, CalmLanding
<1>5. land[l].prev = [refs |-> {}, routes |-> {}] => land[l].prev.refs = {}
  OBVIOUS
<1>6. QED  BY <1>1, <1>2, <1>3, <1>4, <1>5 DEF HandOver

\* What a landing makes of texts it read undisturbed is what it was asked for.
LEMMA CalmTexts ==
  ASSUME LandingInv, NEW l \in Landers, NEW choice \in Picks(l), calm, land[l].pc = "both",
         NEW c, c = NewCred(land[l].cred, choice, managed.refs, l),
         NEW t, t = NewSett(land[l].sett, choice, managed.routes, l)
  PROVE  /\ \A ref \in Refs :
              /\ c[ref].by = "platform" => /\ ref \in NewRefs(land[l].cred, choice, managed.refs)
                                           /\ c[ref].value \in AskedFor(l, ref)
              /\ AskedFor(l, ref) # {} => c[ref] # NoLine
         /\ \A s \in Routes : t[s].marked => /\ s \in NewRoutes(land[l].sett, choice, managed.routes)
                                             /\ land[l].own[s] # Off \/ s \in land[l].shared
<1>1. CredCovered(managed, land[l].cred) /\ SettCovered(managed, land[l].sett)
  BY DEF LandingInv, CalmFit, CalmLanding
<1>2. land[l].cred \in [Refs -> Lines] /\ land[l].sett \in [Routes -> Lines]
  BY DEF LandingInv, LandingTypes, Landings
<1>3. land[l].prev.routes = managed.routes
  BY DEF LandingInv, CalmFit, CalmLanding
<1>7. \A ref \in Refs :
        /\ choice[ref] = "none" => c[ref] = IF ref \in managed.refs THEN NoLine ELSE land[l].cred[ref]
        /\ choice[ref] # "none" /\ (land[l].cred[ref] = NoLine \/ ref \in managed.refs)
             => c[ref] = Ours(ValueOf(l, choice[ref]))
        /\ choice[ref] # "none" /\ land[l].cred[ref] # NoLine /\ ref \notin managed.refs
             => c[ref] = land[l].cred[ref]
  BY DEF NewCred
<1>4. ASSUME NEW ref \in Refs
      PROVE  /\ c[ref].by = "platform" => /\ ref \in NewRefs(land[l].cred, choice, managed.refs)
                                          /\ c[ref].value \in AskedFor(l, ref)
             /\ AskedFor(l, ref) # {} => c[ref] # NoLine
  <2>1. CASE choice[ref] = "none"
    <3>1. AskedFor(l, ref) = {}
      BY <2>1, PickFacts DEF LandingInv
    <3>2. c[ref] = IF ref \in managed.refs THEN NoLine ELSE land[l].cred[ref]
      BY <1>7, <2>1
    <3>3. c[ref].by # "platform"
      BY <1>1, <3>2, LineFacts DEF CredCovered
    <3>4. QED  BY <3>1, <3>3
  <2>2. CASE choice[ref] # "none" /\ (land[l].cred[ref] = NoLine \/ ref \in managed.refs)
    <3>1. c[ref] = Ours(ValueOf(l, choice[ref]))
      BY <1>7, <2>2
    <3>2. ValueOf(l, choice[ref]) \in AskedFor(l, ref)
      BY <2>2, PickFacts DEF LandingInv
    <3>3. ref \in NewRefs(land[l].cred, choice, managed.refs)
      BY <2>2 DEF NewRefs
    <3>4. QED  BY <3>1, <3>2, <3>3, LineFacts
  <2>3. CASE choice[ref] # "none" /\ land[l].cred[ref] # NoLine /\ ref \notin managed.refs
    <3>1. c[ref] = land[l].cred[ref]
      BY <1>7, <2>3
    <3>2. QED  BY <1>1, <2>3, <3>1 DEF CredCovered
  <2>4. QED  BY <2>1, <2>2, <2>3
<1>5. ASSUME NEW s \in Routes, t[s].marked
      PROVE  /\ s \in NewRoutes(land[l].sett, choice, managed.routes)
             /\ land[l].own[s] # Off \/ s \in land[l].shared
  <2>1. Wants(choice, s) => land[l].own[s] # Off \/ s \in land[l].shared
    BY PickFacts DEF Wants, LandingInv
  <2>2. CASE land[l].sett[s].marked
    <3>1. s \in managed.routes
      BY <1>1, <2>2 DEF SettCovered
    <3>2. Wants(choice, s)
      BY <1>3, <1>5, <2>2, <3>1, NewSettFacts, LineFacts
    <3>3. QED  BY <2>1, <3>1, <3>2 DEF NewRoutes
  <2>3. CASE ~land[l].sett[s].marked
    <3>1. land[l].sett[s] = NoLine /\ Wants(choice, s)
      BY <1>3, <1>5, <2>3, NewSettFacts, LineFacts
    <3>2. QED  BY <2>1, <3>1 DEF NewRoutes
  <2>4. QED  BY <2>2, <2>3
<1>6. QED  BY <1>4, <1>5

\* A text made of a fresh one is fresh.
LEMMA FreshTexts ==
  ASSUME LandingInv, NEW l \in Landers, NEW choice \in Picks(l), land[l].pc = "both",
         NEW c, c = NewCred(land[l].cred, choice, HandOver(l), l),
         NEW t, t = NewSett(land[l].sett, choice, land[l].prev.routes, l)
  PROVE  /\ \A ref \in Refs : ref \notin ever \cup raced => Suits(c[ref], cred[ref])
         /\ \A s \in Routes : s \notin ever \cup raced => Suits(t[s], sett[s])
<1>1. land[l].cred \in [Refs -> Lines] /\ land[l].sett \in [Routes -> Lines]
  BY DEF LandingInv, LandingTypes, Landings
<1>6. PICK owned : owned = HandOver(l)
  OBVIOUS
<1>7. c = NewCred(land[l].cred, choice, owned, l)
  BY <1>6
<1>8. \A ref \in Refs :
        /\ choice[ref] = "none" => c[ref] = IF ref \in owned THEN NoLine ELSE land[l].cred[ref]
        /\ choice[ref] # "none" /\ (land[l].cred[ref] = NoLine \/ ref \in owned)
             => c[ref] = Ours(ValueOf(l, choice[ref]))
        /\ choice[ref] # "none" /\ land[l].cred[ref] # NoLine /\ ref \notin owned
             => c[ref] = land[l].cred[ref]
  BY <1>7 DEF NewCred
<1>5. \A ref \in Refs :
        /\ choice[ref] = "none" => c[ref] = IF ref \in HandOver(l) THEN NoLine ELSE land[l].cred[ref]
        /\ choice[ref] # "none" /\ (land[l].cred[ref] = NoLine \/ ref \in HandOver(l))
             => c[ref] = Ours(ValueOf(l, choice[ref]))
        /\ choice[ref] # "none" /\ land[l].cred[ref] # NoLine /\ ref \notin HandOver(l)
             => c[ref] = land[l].cred[ref]
  BY <1>6, <1>8
<1>2. ASSUME NEW ref \in Refs, ref \notin ever \cup raced
      PROVE  Suits(c[ref], cred[ref])
  <2>1. land[l].cred[ref].by # "platform" /\ Suits(land[l].cred[ref], cred[ref])
    BY <1>2 DEF LandingInv, LinesWritten, TextsFresh
  <2>2. land[l].cred[ref] = cred[ref] /\ ref \notin HandOver(l)
    BY <1>2, <2>1, HandedOver DEF Suits
  <2>3. c[ref] = land[l].cred[ref] \/ (c[ref].by = "platform" /\ land[l].cred[ref] = NoLine)
    BY <1>5, <2>2, LineFacts
  <2>4. QED  BY <2>2, <2>3 DEF Suits
<1>3. ASSUME NEW s \in Routes, s \notin ever \cup raced
      PROVE  Suits(t[s], sett[s])
  <2>1. Suits(land[l].sett[s], sett[s]) /\ sett[s] \in Lines /\ land[l].sett[s] \in Lines
    BY <1>1, <1>3 DEF LandingInv, LandingTypes, TextsFresh
  <2>2. ~sett[s].marked
    BY <1>3, <2>1, LineFacts DEF LandingInv, LinesWritten
  <2>3. CASE land[l].sett[s] = sett[s]
    <3>1. t[s] = sett[s] \/ (t[s].by = "platform" /\ sett[s] = NoLine)
      BY <2>2, <2>3, NewSettFacts
    <3>2. QED  BY <3>1 DEF Suits
  <2>4. CASE land[l].sett[s].by = "platform" /\ sett[s] = NoLine
    <3>1. t[s] = NoLine \/ t[s] = land[l].sett[s] \/ t[s].by = "platform"
      BY NewSettFacts
    <3>2. QED  BY <2>4, <3>1 DEF Suits
  <2>5. QED  BY <2>1, <2>3, <2>4 DEF Suits
<1>4. QED  BY <1>2, <1>3

\* The new texts and the new list are made.
LEMMA ComputesKeep == ASSUME LandingInv, NEW l \in Landers, Computes(l) PROVE LandingInv'
<1>1. PICK choice \in Picks(l) :
        /\ land[l].pc = "both"
        /\ LET owned == HandOver(l)
               text == NewCred(land[l].cred, choice, owned, l)
               blocks == NewSett(land[l].sett, choice, land[l].prev.routes, l)
           IN  land' = [land EXCEPT
                 ![l].pc = "write", ![l].cred = text, ![l].sett = blocks,
                 ![l].prev = [refs |-> NewRefs(land[l].cred, choice, owned),
                              routes |-> NewRoutes(land[l].sett, choice, land[l].prev.routes)],
                 ![l].writes = {f \in {"cred", "sett"} : IF f = "cred" THEN text # land[l].cred
                                                         ELSE blocks # land[l].sett}]
        /\ UNCHANGED <<entryTables, cred, sett, managed, ever, raced, calm, changes, breaks>>
  BY DEF Computes
<1>2. PICK c : c = NewCred(land[l].cred, choice, HandOver(l), l)
  OBVIOUS
<1>19. PICK owned : owned = HandOver(l)
  OBVIOUS
<1>20. c = NewCred(land[l].cred, choice, owned, l)
  BY <1>2, <1>19
<1>21. \A ref \in Refs :
        /\ choice[ref] = "none" => c[ref] = IF ref \in owned THEN NoLine ELSE land[l].cred[ref]
        /\ choice[ref] # "none" /\ (land[l].cred[ref] = NoLine \/ ref \in owned)
             => c[ref] = Ours(ValueOf(l, choice[ref]))
        /\ choice[ref] # "none" /\ land[l].cred[ref] # NoLine /\ ref \notin owned
             => c[ref] = land[l].cred[ref]
  BY <1>20 DEF NewCred
<1>17. c \in [Refs -> Lines]
  <2>1. \A ref \in Refs : c[ref] \in Lines
    <3>1. land[l].cred \in [Refs -> Lines]
      BY DEF LandingInv, LandingTypes, Landings
    <3>2. \A ref \in Refs : choice[ref] # "none" => Ours(ValueOf(l, choice[ref])) \in Lines
      BY PickFacts, LineFacts DEF LandingInv
    <3>3. QED  BY <1>21, <3>1, <3>2, LineFacts
  <2>2. c = [ref \in Refs |-> c[ref]]
    BY <1>20 DEF NewCred
  <2>3. QED  BY <2>1, <2>2
<1>18. \A ref \in Refs :
        /\ choice[ref] = "none" => c[ref] = IF ref \in HandOver(l) THEN NoLine ELSE land[l].cred[ref]
        /\ choice[ref] # "none" /\ (land[l].cred[ref] = NoLine \/ ref \in HandOver(l))
             => c[ref] = Ours(ValueOf(l, choice[ref]))
        /\ choice[ref] # "none" /\ land[l].cred[ref] # NoLine /\ ref \notin HandOver(l)
             => c[ref] = land[l].cred[ref]
  BY <1>19, <1>21
<1>3. PICK t \in [Routes -> Lines] : t = NewSett(land[l].sett, choice, land[l].prev.routes, l)
  BY NewSettFacts
<1>4. PICK p : p = [refs |-> NewRefs(land[l].cred, choice, HandOver(l)),
                    routes |-> NewRoutes(land[l].sett, choice, land[l].prev.routes)]
  OBVIOUS
<1>5. /\ p \in Lists /\ p.refs = NewRefs(land[l].cred, choice, HandOver(l))
      /\ p.routes = NewRoutes(land[l].sett, choice, land[l].prev.routes)
  BY <1>4 DEF NewRefs, NewRoutes, Lists
<1>6. PICK w \in SUBSET {"cred", "sett"} :
        w = {f \in {"cred", "sett"} : IF f = "cred" THEN c # land[l].cred ELSE t # land[l].sett}
  OBVIOUS
<1>7. /\ "cred" \in w <=> c # land[l].cred
      /\ "sett" \in w <=> t # land[l].sett
  BY <1>6
<1>8. PICK n : n = [land[l] EXCEPT !.pc = "write", !.cred = c, !.sett = t, !.prev = p, !.writes = w]
  OBVIOUS
<1>9. /\ n \in Landings /\ n.pc = "write" /\ n.prev = p /\ n.cred = c /\ n.sett = t /\ n.writes = w
      /\ n.own = land[l].own /\ n.shared = land[l].shared
  <2>1. land[l] \in Landings
    BY DEF LandingInv, LandingTypes
  <2>2. c \in [Refs -> Lines] /\ t \in [Routes -> Lines] /\ p \in Lists /\ w \in SUBSET {"cred", "sett"}
    BY <1>5, <1>17
  <2>3. QED  BY <1>8, <2>1, <2>2 DEF Landings
<1>10. /\ land[l].pc = "both" /\ land' = [land EXCEPT ![l] = n]
       /\ UNCHANGED <<own, shared, cred, sett, managed, ever, raced, calm, changes, breaks>>
  BY <1>1, <1>2, <1>3, <1>4, <1>6, <1>8 DEF entryTables
<1>11. /\ land' \in [Landers -> Landings]
       /\ \A k \in Landers : land'[k] = IF k = l THEN n ELSE land[k]
  BY <1>9, <1>10, OneLands DEF LandingInv
<1>12. LandingTypes'
  BY <1>10, <1>11 DEF LandingInv, LandingTypes
<1>13. LinesWritten'
  <2>1. p.refs \subseteq ever \cup AboutToWrite(l)'
    <3>1. SUFFICES ASSUME NEW ref \in p.refs, ref \notin ever
                   PROVE  ref \in AboutToWrite(l)'
      OBVIOUS
    <3>2. ref \in Refs /\ choice[ref] # "none" /\ (ref \in HandOver(l) \/ land[l].cred[ref] = NoLine)
      BY <1>5, <3>1 DEF NewRefs
    <3>3. land[l].cred[ref] = NoLine
      BY <1>10, <3>1, <3>2, HandedOver
    <3>4. c[ref].by = "platform"
      BY <1>18, <3>2, <3>3, LineFacts
    <3>5. "cred" \in w
      BY <1>7, <3>3, <3>4, LineFacts
    <3>6. QED  BY <1>9, <1>11, <3>2, <3>4, <3>5 DEF AboutToWrite
  <2>2. ASSUME NEW k \in Landers, k # l
        PROVE  land'[k] = land[k] /\ AboutToWrite(k)' = AboutToWrite(k)
    BY <1>11, <2>2 DEF AboutToWrite
  <2>3. QED  BY <1>9, <1>10, <1>11, <2>1, <2>2 DEF LandingInv, LinesWritten
<1>14. TextsFresh'
  <2>1. /\ \A ref \in Refs : ref \notin ever \cup raced => Suits(c[ref], cred[ref])
        /\ \A s \in Routes : s \notin ever \cup raced => Suits(t[s], sett[s])
    BY <1>2, <1>3, <1>10, FreshTexts
  <2>2. QED  BY <1>9, <1>10, <1>11, <2>1 DEF LandingInv, TextsFresh, Suits
<1>15. CalmFit'
  <2> SUFFICES ASSUME calm' PROVE CalmFit'
    BY DEF CalmFit
  <2>1. /\ calm /\ \A k \in Landers : land[k].pc # "none" => k = l
        /\ land[l].prev = managed /\ SameCred(land[l].cred) /\ SameSett(land[l].sett)
    BY <1>10 DEF LandingInv, CalmFit, CalmLanding
  <2>2. HandOver(l) = managed.refs
    BY <1>10, <2>1, HandedOver
  <2>3. Untouched
    BY <1>10, <2>1 DEF Untouched
  <2>4. CredCovered(managed', cred') /\ SettCovered(managed', sett')
    BY <1>10, <2>1, <2>3 DEF LandingInv, CalmFit
  <2>5. \A k \in Landers : k # l => land'[k].pc = "none"
    BY <1>11, <2>1
  <2>6. \A k \in Landers : k # l => CalmLanding(k)'
    BY <2>5 DEF CalmLanding
  <2>7. \A ref \in Refs : AskedFor(l, ref)' = AskedFor(l, ref)
    BY <1>9, <1>11, AskedStays
  <2>8. /\ \A ref \in Refs :
             /\ c[ref].by = "platform" => ref \in p.refs /\ c[ref].value \in AskedFor(l, ref)
             /\ AskedFor(l, ref) # {} => c[ref] # NoLine
        /\ \A s \in Routes : t[s].marked => s \in p.routes /\ (n.own[s] # Off \/ s \in n.shared)
    BY <1>2, <1>3, <1>5, <1>9, <1>10, <2>1, <2>2, CalmTexts
  <2>9. land'[l] = n
    BY <1>11
  <2>10. CredRight(l, land[l].cred)' /\ SettRight(l, land[l].sett)'
    BY <1>9, <2>7, <2>8, <2>9 DEF CredRight, SettRight
  <2>11. /\ "cred" \in land'[l].writes \/ SameCred(land[l].cred)'
         /\ "sett" \in land'[l].writes \/ SameSett(land[l].sett)'
    BY <1>7, <1>9, <1>10, <2>1, <2>9 DEF SameCred, SameSett
  <2>12. CalmLanding(l)'
    BY <1>9, <2>9, <2>10, <2>11 DEF CalmLanding
  <2>13. QED  BY <2>4, <2>5, <2>6, <2>12 DEF CalmFit
<1>16. QED  BY <1>12, <1>13, <1>14, <1>15 DEF LandingInv

\* The first file is written: lines the platform never wrote stay, but those in a race.
LEMMA WritesCredKeep ==
  ASSUME LandingInv, NEW l \in Landers, WritesCred(l)
  PROVE  /\ LandingInv'
         /\ \A ref \in Refs : ref \notin ever \cup raced /\ cred[ref].by = "user" => cred'[ref] = cred[ref]
<1>1. PICK n : n = [land[l] EXCEPT !.pc = "settings"]
  OBVIOUS
<1>2. /\ n \in Landings /\ n.pc = "settings" /\ n.prev = land[l].prev /\ n.cred = land[l].cred
      /\ n.sett = land[l].sett /\ n.writes = land[l].writes /\ n.own = land[l].own /\ n.shared = land[l].shared
  BY <1>1 DEF LandingInv, LandingTypes, Landings
<1>3. /\ land[l].pc = "write" /\ land' = [land EXCEPT ![l] = n]
      /\ cred' = (IF "cred" \in land[l].writes THEN land[l].cred ELSE cred)
      /\ ever' = ever \cup {ref \in Refs : cred'[ref].by = "platform"}
      /\ UNCHANGED <<own, shared, sett, managed, raced, calm, changes, breaks>>
  BY <1>1 DEF WritesCred, entryTables
<1>4. /\ land' \in [Landers -> Landings]
      /\ \A k \in Landers : land'[k] = IF k = l THEN n ELSE land[k]
  BY <1>2, <1>3, OneLands DEF LandingInv
<1>5. cred' \in [Refs -> Lines]
  BY <1>3 DEF LandingInv, LandingTypes, Landings
<1>6. \A ref \in Refs : ref \notin ever' \cup raced => cred'[ref] = cred[ref]
  <2>1. ASSUME NEW ref \in Refs, ref \notin ever' \cup raced
        PROVE  cred'[ref] = cred[ref]
    <3>1. CASE "cred" \in land[l].writes
      <4>1. Suits(land[l].cred[ref], cred[ref]) /\ cred'[ref] = land[l].cred[ref] /\ cred'[ref].by # "platform"
        BY <1>3, <2>1, <3>1 DEF LandingInv, TextsFresh
      <4>2. QED  BY <4>1 DEF Suits
    <3>2. CASE "cred" \notin land[l].writes
      BY <1>3, <3>2
    <3>3. QED  BY <3>1, <3>2
  <2>2. QED  BY <2>1
<1>7. LandingTypes'
  BY <1>3, <1>4, <1>5 DEF LandingInv, LandingTypes
<1>8. LinesWritten'
  <2>1. land[l].prev.refs \subseteq ever'
    BY <1>3 DEF LandingInv, LinesWritten, AboutToWrite
  <2>2. ASSUME NEW k \in Landers, k # l
        PROVE  land'[k] = land[k] /\ AboutToWrite(k)' = AboutToWrite(k)
    BY <1>4, <2>2 DEF AboutToWrite
  <2>3. ASSUME NEW k \in Landers
        PROVE  /\ land'[k].prev.refs \subseteq ever' \cup AboutToWrite(k)'
               /\ land'[k].pc \in {"blocks", "both"} =>
                    \A ref \in Refs : land'[k].cred[ref].by = "platform" => ref \in ever'
    BY <1>2, <1>3, <1>4, <2>1, <2>2 DEF LandingInv, LinesWritten
  <2>4. QED  BY <1>3, <2>3 DEF LandingInv, LinesWritten
<1>9. TextsFresh'
  <2>1. ASSUME NEW k \in Landers, land'[k].pc \in {"blocks", "both", "write"},
               NEW ref \in Refs, ref \notin ever' \cup raced
        PROVE  Suits(land'[k].cred[ref], cred'[ref])
    <3>1. land'[k] = land[k] /\ cred'[ref] = cred[ref] /\ ref \notin ever
      BY <1>2, <1>3, <1>4, <1>6, <2>1
    <3>2. QED  BY <2>1, <3>1 DEF LandingInv, TextsFresh
  <2>2. ASSUME NEW k \in Landers, land'[k].pc \in {"both", "write", "settings"},
               NEW s \in Routes, s \notin ever' \cup raced
        PROVE  Suits(land'[k].sett[s], sett'[s])
    <3>1. land'[k].sett = land[k].sett /\ land[k].pc \in {"both", "write", "settings"} /\ s \notin ever
      BY <1>2, <1>3, <1>4, <2>2
    <3>2. QED  BY <1>3, <2>2, <3>1 DEF LandingInv, TextsFresh
  <2>3. QED  BY <1>3, <2>1, <2>2 DEF TextsFresh
<1>10. CalmFit'
  <2> SUFFICES ASSUME calm' PROVE CalmFit'
    BY DEF CalmFit
  <2>1. /\ calm /\ \A k \in Landers : land[k].pc # "none" => k = l
        /\ CredRight(l, land[l].cred) /\ ("cred" \in land[l].writes \/ SameCred(land[l].cred))
        /\ SettRight(l, land[l].sett) /\ ("sett" \in land[l].writes \/ SameSett(land[l].sett))
    BY <1>3 DEF LandingInv, CalmFit, CalmLanding
  <2>2. \A ref \in Refs : AskedFor(l, ref)' = AskedFor(l, ref)
    BY <1>2, <1>4, AskedStays
  <2>3. \A ref \in Refs : /\ cred'[ref].by = "platform" => cred'[ref] = land[l].cred[ref]
                          /\ ref \notin raced => cred'[ref] = land[l].cred[ref]
    BY <1>3, <2>1 DEF SameCred
  <2>4. CredRight(l, cred)'
    BY <1>2, <1>3, <1>4, <2>1, <2>2, <2>3 DEF CredRight
  <2>5. SettRight(l, land[l].sett)' /\ ("sett" \in land'[l].writes \/ SameSett(land[l].sett)')
    BY <1>2, <1>3, <1>4, <2>1 DEF SettRight, SameSett
  <2>6. \A k \in Landers : land'[k].pc = (IF k = l THEN "settings" ELSE "none")
    BY <1>2, <1>4, <2>1
  <2>7. \A k \in Landers : CalmLanding(k)'
    BY <2>4, <2>5, <2>6 DEF CalmLanding
  <2>8. QED  BY <2>6, <2>7 DEF CalmFit, Untouched
<1>11. ASSUME NEW ref \in Refs, ref \notin ever \cup raced, cred[ref].by = "user"
       PROVE  cred'[ref] = cred[ref]
  <2>1. cred[ref] # NoLine
    BY <1>11, LineFacts
  <2>2. "cred" \in land[l].writes => Suits(land[l].cred[ref], cred[ref])
    BY <1>3, <1>11 DEF LandingInv, TextsFresh
  <2>3. QED  BY <1>3, <2>1, <2>2 DEF Suits
<1>12. QED  BY <1>7, <1>8, <1>9, <1>10, <1>11 DEF LandingInv

\* The second file is written: blocks the platform never wrote stay, but those in a race.
LEMMA WritesSettingsKeep ==
  ASSUME LandingInv, NEW l \in Landers, WritesSettings(l)
  PROVE  /\ LandingInv'
         /\ \A s \in Routes : s \notin ever \cup raced /\ sett[s].by = "user" => sett'[s] = sett[s]
<1>1. PICK n : n = [land[l] EXCEPT !.pc = "list"]
  OBVIOUS
<1>2. /\ n \in Landings /\ n.pc = "list" /\ n.prev = land[l].prev /\ n.own = land[l].own /\ n.shared = land[l].shared
  BY <1>1 DEF LandingInv, LandingTypes, Landings
<1>3. /\ land[l].pc = "settings" /\ land' = [land EXCEPT ![l] = n]
      /\ sett' = (IF "sett" \in land[l].writes THEN land[l].sett ELSE sett)
      /\ ever' = ever \cup {s \in Routes : sett'[s].by = "platform"}
      /\ UNCHANGED <<own, shared, cred, managed, raced, calm, changes, breaks>>
  BY <1>1 DEF WritesSettings, entryTables
<1>4. /\ land' \in [Landers -> Landings]
      /\ \A k \in Landers : land'[k] = IF k = l THEN n ELSE land[k]
  BY <1>2, <1>3, OneLands DEF LandingInv
<1>5. sett' \in [Routes -> Lines]
  BY <1>3 DEF LandingInv, LandingTypes, Landings
<1>6. \A s \in Routes : s \notin ever' \cup raced => sett'[s] = sett[s]
  <2>1. ASSUME NEW s \in Routes, s \notin ever' \cup raced
        PROVE  sett'[s] = sett[s]
    <3>1. CASE "sett" \in land[l].writes
      <4>1. Suits(land[l].sett[s], sett[s]) /\ sett'[s] = land[l].sett[s] /\ sett'[s].by # "platform"
        BY <1>3, <2>1, <3>1 DEF LandingInv, TextsFresh
      <4>2. QED  BY <4>1 DEF Suits
    <3>2. CASE "sett" \notin land[l].writes
      BY <1>3, <3>2
    <3>3. QED  BY <3>1, <3>2
  <2>2. QED  BY <2>1
<1>7. LandingTypes'
  BY <1>3, <1>4, <1>5 DEF LandingInv, LandingTypes
<1>8. LinesWritten'
  <2>1. ASSUME NEW k \in Landers, k # l
        PROVE  land'[k] = land[k] /\ AboutToWrite(k)' = AboutToWrite(k)
    BY <1>4, <2>1 DEF AboutToWrite
  <2>2. land[l].prev.refs \subseteq ever
    BY <1>3 DEF LandingInv, LinesWritten, AboutToWrite
  <2>3. ASSUME NEW k \in Landers
        PROVE  /\ land'[k].prev.refs \subseteq ever' \cup AboutToWrite(k)'
               /\ land'[k].pc \in {"blocks", "both"} =>
                    \A ref \in Refs : land'[k].cred[ref].by = "platform" => ref \in ever'
    BY <1>2, <1>3, <1>4, <2>1, <2>2 DEF LandingInv, LinesWritten
  <2>4. QED  BY <1>3, <2>3 DEF LandingInv, LinesWritten
<1>9. TextsFresh'
  <2>1. ASSUME NEW k \in Landers, land'[k].pc \in {"blocks", "both", "write"},
               NEW ref \in Refs, ref \notin ever' \cup raced
        PROVE  Suits(land'[k].cred[ref], cred'[ref])
    <3>1. land'[k] = land[k] /\ ref \notin ever
      BY <1>2, <1>3, <1>4, <2>1
    <3>2. QED  BY <1>3, <2>1, <3>1 DEF LandingInv, TextsFresh
  <2>2. ASSUME NEW k \in Landers, land'[k].pc \in {"both", "write", "settings"},
               NEW s \in Routes, s \notin ever' \cup raced
        PROVE  Suits(land'[k].sett[s], sett'[s])
    <3>1. land'[k] = land[k] /\ sett'[s] = sett[s] /\ s \notin ever
      BY <1>2, <1>3, <1>4, <1>6, <2>2
    <3>2. QED  BY <2>2, <3>1 DEF LandingInv, TextsFresh
  <2>3. QED  BY <1>3, <2>1, <2>2 DEF TextsFresh
<1>10. CalmFit'
  <2> SUFFICES ASSUME calm' PROVE CalmFit'
    BY DEF CalmFit
  <2>1. /\ calm /\ (\A k \in Landers : land[k].pc # "none" => k = l) /\ CredRight(l, cred)
        /\ SettRight(l, land[l].sett) /\ ("sett" \in land[l].writes \/ SameSett(land[l].sett))
    BY <1>3 DEF LandingInv, CalmFit, CalmLanding
  <2>2. \A ref \in Refs : AskedFor(l, ref)' = AskedFor(l, ref)
    BY <1>2, <1>4, AskedStays
  <2>3. CredRight(l, cred)'
    BY <1>2, <1>3, <1>4, <2>1, <2>2 DEF CredRight
  <2>4. \A s \in Routes : sett'[s].marked => sett'[s] = land[l].sett[s]
    BY <1>3, <2>1 DEF SameSett
  <2>5. SettRight(l, sett)'
    BY <1>2, <1>4, <2>1, <2>4 DEF SettRight
  <2>6. \A k \in Landers : land'[k].pc = (IF k = l THEN "list" ELSE "none")
    BY <1>2, <1>4, <2>1
  <2>7. \A k \in Landers : CalmLanding(k)'
    BY <2>3, <2>5, <2>6 DEF CalmLanding
  <2>8. QED  BY <2>6, <2>7 DEF CalmFit, Untouched
<1>11. ASSUME NEW s \in Routes, s \notin ever \cup raced, sett[s].by = "user"
       PROVE  sett'[s] = sett[s]
  <2>1. sett[s] # NoLine
    BY <1>11, LineFacts
  <2>2. "sett" \in land[l].writes => Suits(land[l].sett[s], sett[s])
    BY <1>3, <1>11 DEF LandingInv, TextsFresh
  <2>3. QED  BY <1>3, <2>1, <2>2 DEF Suits
<1>12. QED  BY <1>7, <1>8, <1>9, <1>10, <1>11 DEF LandingInv

\* What a landing that ended undisturbed leaves behind.
EndsRight(l) ==
  /\ \A ref \in Refs :
       /\ cred[ref].by = "platform" => ref \in managed'.refs /\ cred[ref].value \in AskedFor(l, ref)
       /\ AskedFor(l, ref) # {} /\ ref \notin raced => cred[ref] # NoLine
  /\ \A s \in Routes :
       sett[s].marked => s \in managed'.routes /\ (land[l].own[s] # Off \/ s \in land[l].shared)

\* A landing that is over: what the others hold is as fresh as it was.
LEMMA EndStep ==
  ASSUME LandingInv, NEW l \in Landers, LetsGo(l), UNCHANGED <<own, shared, cred, sett, ever, changes>>,
         managed' \in Lists, managed'.refs \subseteq ever, calm' \in BOOLEAN, breaks' \in Nat,
         calm' => /\ calm
                  /\ CredCovered(managed', cred) /\ SettCovered(managed', sett),
         calm' => \A k \in Landers : land[k].pc # "none" => k = l
  PROVE  LandingInv'
<1>1. /\ land' = [land EXCEPT ![l] = NoLanding]
      /\ raced' = (IF \A k \in Landers : k # l => land[k].pc = "none" THEN {} ELSE raced)
  BY DEF LetsGo, Others, Resting
<1>2. /\ land' \in [Landers -> Landings]
      /\ \A k \in Landers : land'[k] = IF k = l THEN NoLanding ELSE land[k]
  BY <1>1, NoLandingTyped, OneLands DEF LandingInv
<1>3. LandingTypes'
  BY <1>2 DEF LandingInv, LandingTypes
<1>4. LinesWritten'
  <2>1. ASSUME NEW k \in Landers, k # l
        PROVE  land'[k] = land[k] /\ AboutToWrite(k)' = AboutToWrite(k)
    BY <1>2, <2>1 DEF AboutToWrite
  <2>2. QED  BY <1>2, <2>1, NoLandingTyped DEF LandingInv, LinesWritten
<1>5. TextsFresh'
  <2>1. CASE \A k \in Landers : k # l => land[k].pc = "none"
    <3>1. \A k \in Landers : land'[k].pc = "none"
      BY <1>2, <2>1, NoLandingTyped
    <3>2. QED  BY <3>1 DEF TextsFresh
  <2>2. CASE raced' = raced
    BY <1>2, <2>2, NoLandingTyped DEF LandingInv, TextsFresh, Suits
  <2>3. QED  BY <1>1, <2>1, <2>2
<1>6. CalmFit'
  <2> SUFFICES ASSUME calm' PROVE CalmFit'
    BY DEF CalmFit
  <2>1. \A k \in Landers : land'[k].pc = "none"
    BY <1>2, NoLandingTyped
  <2>2. CredCovered(managed', cred') /\ SettCovered(managed', sett')
    OBVIOUS
  <2>3. \A k \in Landers : CalmLanding(k)'
    BY <2>1 DEF CalmLanding
  <2>4. QED  BY <2>1, <2>2, <2>3 DEF CalmFit
<1>7. QED  BY <1>3, <1>4, <1>5, <1>6 DEF LandingInv

\* The list is written last.
LEMMA WritesListKeep ==
  ASSUME LandingInv, NEW l \in Landers, WritesList(l)
  PROVE  LandingInv' /\ (calm => EndsRight(l))
<1>1. /\ land[l].pc = "list" /\ managed' = land[l].prev /\ LetsGo(l)
      /\ UNCHANGED <<own, shared, cred, sett, ever, calm, changes, breaks>>
  BY DEF WritesList, entryTables
<1>2. managed' \in Lists /\ calm' \in BOOLEAN /\ breaks' \in Nat
  BY <1>1 DEF LandingInv, LandingTypes, Landings
<1>3. managed'.refs \subseteq ever
  BY <1>1 DEF LandingInv, LinesWritten, AboutToWrite
<1>4. ASSUME calm
      PROVE  /\ EndsRight(l) /\ CredCovered(managed', cred) /\ SettCovered(managed', sett)
             /\ \A k \in Landers : land[k].pc # "none" => k = l
  <2>1. CredRight(l, cred) /\ SettRight(l, sett) /\ \A k \in Landers : land[k].pc # "none" => k = l
    BY <1>1, <1>4 DEF LandingInv, CalmFit, CalmLanding
  <2>2. EndsRight(l)
    BY <1>1, <2>1 DEF CredRight, SettRight, EndsRight
  <2>3. CredCovered(managed', cred) /\ SettCovered(managed', sett)
    BY <1>1, <2>1 DEF CredRight, SettRight, CredCovered, SettCovered
  <2>4. QED  BY <2>1, <2>2, <2>3
<1>5. LandingInv'
  BY <1>1, <1>2, <1>3, <1>4, EndStep
<1>6. QED  BY <1>4, <1>5

\* A landing that is broken off leaves what it has written; before the first file that is
\* nothing.
LEMMA BreaksOffKeeps == ASSUME LandingInv, NEW l \in Landers, BreaksOff(l) PROVE LandingInv'
<1>1. /\ land[l].pc # "none" /\ LetsGo(l) /\ breaks' = breaks + 1
      /\ calm' = (calm /\ land[l].pc \notin {"settings", "list"})
      /\ UNCHANGED <<own, shared, cred, sett, managed, ever, changes>>
  BY DEF BreaksOff, Resting, entryTables
<1>2. managed' \in Lists /\ breaks' \in Nat /\ managed'.refs \subseteq ever
  BY <1>1 DEF LandingInv, LandingTypes, LinesWritten
<1>3. calm' \in BOOLEAN
  BY <1>1
<1>4. ASSUME calm'
      PROVE  /\ calm /\ CredCovered(managed', cred) /\ SettCovered(managed', sett)
             /\ \A k \in Landers : land[k].pc # "none" => k = l
  <2>1. calm /\ land[l].pc \notin {"settings", "list"}
    BY <1>1, <1>4
  <2>2. \A k \in Landers : land[k].pc # "none" => k = l
    BY <1>1, <2>1 DEF LandingInv, CalmFit
  <2>3. Untouched
    BY <2>1, <2>2 DEF Untouched
  <2>4. QED  BY <1>1, <2>1, <2>2, <2>3 DEF LandingInv, CalmFit
<1>5. QED  BY <1>1, <1>2, <1>3, <1>4, EndStep

\* Entries are switched while landings go on: what they read before is their own.
LEMMA TablesKeep ==
  ASSUME LandingInv, (\E s \in ModelSlots : SetKey(s) \/ Share(s)) \/ Grant \/ Wish
  PROVE  LandingInv' /\ changes' # changes
<1>1. /\ own' \in [ModelSlots -> KeyValues \cup {Off}] /\ shared' \subseteq ModelSlots
  BY DEF SetKey, Share, Grant, Wish, LandingInv, LandingTypes
<1>2. changes' = changes + 1 /\ UNCHANGED <<cred, sett, managed, land, ever, raced, calm, breaks>>
  BY DEF SetKey, Share, Grant, Wish, TablesOnly, Changes
<1>3. changes' \in Nat /\ changes' # changes
  BY <1>2 DEF LandingInv, LandingTypes
<1>4. LandingTypes'
  BY <1>1, <1>2, <1>3 DEF LandingInv, LandingTypes
<1>5. LinesWritten' /\ TextsFresh'
  BY <1>2 DEF LandingInv, LinesWritten, AboutToWrite, TextsFresh
<1>6. CalmFit'
  BY <1>2 DEF LandingInv, CalmFit, CalmLanding, Untouched, CredCovered, SettCovered, SameCred, SameSett,
     CredRight, SettRight, AskedFor, Suppliers, ValueOf
<1>7. QED  BY <1>3, <1>4, <1>5, <1>6 DEF LandingInv

\* The user changes a file at any time: the line is his or gone, and in a race with every
\* landing that holds the file's text.
LEMMA EditsKeep ==
  ASSUME LandingInv, (\E ref \in Refs : EditRef(ref)) \/ (\E s \in Routes : EditRoute(s))
  PROVE  LandingInv' /\ changes' # changes
<1>1. changes' = changes + 1 /\ UNCHANGED <<own, shared, managed, land, ever, calm, breaks>>
  BY DEF EditRef, EditRoute, Changes, entryTables
<1>2. /\ cred' \in [Refs -> Lines] /\ sett' \in [Routes -> Lines] /\ raced \subseteq raced'
      /\ \A ref \in Refs : \/ cred'[ref] = cred[ref]
                           \/ /\ cred'[ref].by # "platform"
                              /\ ref \in raced' \/ \A l \in Landers : land[l].pc \in {"none", "own", "files"}
      /\ \A s \in Routes : \/ sett'[s] = sett[s]
                           \/ /\ sett'[s].by # "platform" /\ ~sett'[s].marked
                              /\ s \in raced' \/ \A l \in Landers : land[l].pc \in {"none", "own", "files", "blocks"}
  <2>1. ASSUME NEW ref \in Refs, EditRef(ref)
        PROVE  <1>2!:
    <3>1. PICK x \in {NoLine, Mine} : cred' = [cred EXCEPT ![ref] = x]
      BY <2>1 DEF EditRef
    <3>2. sett' = sett
      BY <2>1 DEF EditRef
    <3>3. /\ raced \subseteq raced'
          /\ ref \in raced' \/ \A l \in Landers : land[l].pc \in {"none", "own", "files"}
      BY <2>1 DEF EditRef, Races
    <3>4. QED  BY <3>1, <3>2, <3>3, LineFacts DEF LandingInv, LandingTypes
  <2>2. ASSUME NEW s \in Routes, EditRoute(s)
        PROVE  <1>2!:
    <3>1. PICK x \in {NoLine, Mine} : sett' = [sett EXCEPT ![s] = x]
      BY <2>2 DEF EditRoute
    <3>2. cred' = cred
      BY <2>2 DEF EditRoute
    <3>3. /\ raced \subseteq raced'
          /\ s \in raced' \/ \A l \in Landers : land[l].pc \in {"none", "own", "files", "blocks"}
      BY <2>2 DEF EditRoute, Races
    <3>4. QED  BY <3>1, <3>2, <3>3, LineFacts DEF LandingInv, LandingTypes
  <2>3. QED  BY <2>1, <2>2
<1>3. changes' \in Nat /\ changes' # changes
  BY <1>1 DEF LandingInv, LandingTypes
<1>4. LandingTypes'
  BY <1>1, <1>2, <1>3 DEF LandingInv, LandingTypes
<1>5. LinesWritten'
  <2>1. \A l \in Landers : AboutToWrite(l)' = AboutToWrite(l)
    BY <1>1 DEF AboutToWrite
  <2>2. QED  BY <1>1, <1>2, <2>1 DEF LandingInv, LinesWritten
<1>6. TextsFresh'
  <2>1. ASSUME NEW l \in Landers, land[l].pc \in {"blocks", "both", "write"},
               NEW ref \in Refs, ref \notin ever \cup raced'
        PROVE  Suits(land[l].cred[ref], cred'[ref])
    <3>1. cred'[ref] = cred[ref] /\ ref \notin raced
      BY <1>2, <2>1
    <3>2. QED  BY <2>1, <3>1 DEF LandingInv, TextsFresh
  <2>2. ASSUME NEW l \in Landers, land[l].pc \in {"both", "write", "settings"},
               NEW s \in Routes, s \notin ever \cup raced'
        PROVE  Suits(land[l].sett[s], sett'[s])
    <3>1. sett'[s] = sett[s] /\ s \notin raced
      BY <1>2, <2>2
    <3>2. QED  BY <2>2, <3>1 DEF LandingInv, TextsFresh
  <2>3. QED  BY <1>1, <2>1, <2>2 DEF TextsFresh
<1>7. CalmFit'
  <2> SUFFICES ASSUME calm' PROVE CalmFit'
    BY DEF CalmFit
  <2>1. /\ calm /\ \A k, l \in Landers : land[k].pc # "none" /\ land[l].pc # "none" => k = l
        /\ Untouched => CredCovered(managed, cred) /\ SettCovered(managed, sett)
        /\ \A l \in Landers : CalmLanding(l)
    BY <1>1 DEF LandingInv, CalmFit
  <2>2. /\ \A ref \in Refs : cred'[ref].by = "platform" => cred'[ref] = cred[ref]
        /\ \A s \in Routes : sett'[s].marked => sett'[s] = sett[s]
    BY <1>2
  <2>3. Untouched' => CredCovered(managed', cred') /\ SettCovered(managed', sett')
    BY <1>1, <2>1, <2>2 DEF Untouched, CredCovered, SettCovered
  <2>4. ASSUME NEW l \in Landers
        PROVE  CalmLanding(l)'
    <3>1. land'[l] = land[l] /\ CalmLanding(l) /\ managed' = managed
      BY <1>1, <2>1
    <3>2. \A text : land[l].pc \in {"blocks", "both", "write"} /\ SameCred(text) => SameCred(text)'
      BY <1>2, <2>2 DEF SameCred
    <3>3. \A blocks : SameSett(blocks) => SameSett(blocks)'
      BY <2>2 DEF SameSett
    <3>4. \A ref \in Refs : AskedFor(l, ref)' = AskedFor(l, ref)
      BY <3>1, AskedStays
    <3>5. CredRight(l, land[l].cred) => CredRight(l, land[l].cred)'
      BY <1>2, <3>1, <3>4 DEF CredRight
    <3>6. land[l].pc \in {"settings", "list"} /\ CredRight(l, cred) => CredRight(l, cred)'
      BY <1>2, <2>2, <3>1, <3>4 DEF CredRight
    <3>7. /\ SettRight(l, land[l].sett) => SettRight(l, land[l].sett)'
          /\ SettRight(l, sett) => SettRight(l, sett)'
      BY <2>2, <3>1 DEF SettRight
    <3>9. QED  BY <3>1, <3>2, <3>3, <3>5, <3>6, <3>7 DEF CalmLanding, CredCovered, SettCovered, SameCred, SameSett
  <2>5. QED  BY <1>1, <2>1, <2>3, <2>4 DEF CalmFit
<1>8. QED  BY <1>3, <1>4, <1>5, <1>6, <1>7 DEF LandingInv

\* What a step may not do to the lines of the user.
KeepsUserLines ==
  /\ \A ref \in Refs : cred[ref].by = "user" /\ ref \notin ever \cup raced /\ changes' = changes
                       => cred'[ref] = cred[ref]
  /\ \A s \in Routes : sett[s].by = "user" /\ s \notin ever \cup raced /\ changes' = changes
                       => sett'[s] = sett[s]

\* Every step keeps the invariant and the user's lines, and a landing that ends undisturbed
\* ends right.
LEMMA LandingStep ==
  ASSUME LandingInv, [LandingNext]_landingVars
  PROVE  LandingInv' /\ KeepsUserLines /\ \A l \in Landers : Landed(l) /\ calm => EndsRight(l)
<1>1. ASSUME NEW l \in Landers,
             Reads(l) \/ ReadsShared(l) \/ ReadsCred(l) \/ ReadsSett(l) \/ Computes(l)
      PROVE  LandingInv' /\ KeepsUserLines /\ \A k \in Landers : ~Landed(k)
  <2>1. LandingInv'
    BY <1>1, LandingReads, ReadsSharedKeep, ReadsCredKeep, ReadsSettKeep, ComputesKeep
  <2>2. KeepsUserLines
    BY <1>1 DEF Reads, ReadsShared, ReadsCred, ReadsSett, Computes, KeepsUserLines
  <2>3. \A k \in Landers : ~Landed(k)
    BY <1>1 DEF Reads, ReadsShared, ReadsCred, ReadsSett, Computes, Resting, Landed, LandingInv, LandingTypes, NoLanding
  <2>4. QED  BY <2>1, <2>2, <2>3
<1>2. ASSUME NEW l \in Landers, WritesCred(l)
      PROVE  LandingInv' /\ KeepsUserLines /\ \A k \in Landers : ~Landed(k)
  <2>1. LandingInv' /\ \A ref \in Refs : ref \notin ever \cup raced /\ cred[ref].by = "user" => cred'[ref] = cred[ref]
    BY <1>2, WritesCredKeep
  <2>2. KeepsUserLines
    BY <1>2, <2>1 DEF WritesCred, KeepsUserLines
  <2>3. \A k \in Landers : land[k].pc = "list" => land'[k].pc = "list"
    BY <1>2 DEF WritesCred, LandingInv, LandingTypes
  <2>4. QED  BY <2>1, <2>2, <2>3 DEF Landed
<1>3. ASSUME NEW l \in Landers, WritesSettings(l)
      PROVE  LandingInv' /\ KeepsUserLines /\ \A k \in Landers : ~Landed(k)
  <2>1. LandingInv' /\ \A s \in Routes : s \notin ever \cup raced /\ sett[s].by = "user" => sett'[s] = sett[s]
    BY <1>3, WritesSettingsKeep
  <2>2. KeepsUserLines
    BY <1>3, <2>1 DEF WritesSettings, KeepsUserLines
  <2>3. \A k \in Landers : land[k].pc = "list" => land'[k].pc = "list"
    BY <1>3 DEF WritesSettings, LandingInv, LandingTypes
  <2>4. QED  BY <2>1, <2>2, <2>3 DEF Landed
<1>4. ASSUME NEW l \in Landers, WritesList(l)
      PROVE  LandingInv' /\ KeepsUserLines /\ \A k \in Landers : Landed(k) /\ calm => EndsRight(k)
  <2>1. LandingInv' /\ (calm => EndsRight(l))
    BY <1>4, WritesListKeep
  <2>2. KeepsUserLines
    BY <1>4 DEF WritesList, KeepsUserLines
  <2>3. \A k \in Landers : Landed(k) => k = l
    BY <1>4 DEF WritesList, LetsGo, Landed, LandingInv, LandingTypes
  <2>4. QED  BY <2>1, <2>2, <2>3
<1>5. ASSUME NEW l \in Landers, BreaksOff(l)
      PROVE  LandingInv' /\ KeepsUserLines /\ \A k \in Landers : ~Landed(k)
  <2>1. LandingInv'
    BY <1>5, BreaksOffKeeps
  <2>2. KeepsUserLines
    BY <1>5 DEF BreaksOff, KeepsUserLines
  <2>3. breaks' # breaks
    BY <1>5 DEF BreaksOff, LandingInv, LandingTypes
  <2>4. QED  BY <2>1, <2>2, <2>3 DEF Landed
<1>6. CASE (\E s \in ModelSlots : SetKey(s) \/ Share(s)) \/ Grant \/ Wish
  <2>1. LandingInv' /\ changes' # changes
    BY <1>6, TablesKeep
  <2>2. land' = land
    BY <1>6 DEF SetKey, Share, Grant, Wish, TablesOnly, Changes
  <2>3. QED  BY <2>1, <2>2 DEF KeepsUserLines, Landed
<1>7. CASE (\E ref \in Refs : EditRef(ref)) \/ (\E s \in Routes : EditRoute(s))
  <2>1. LandingInv' /\ changes' # changes
    BY <1>7, EditsKeep
  <2>2. land' = land
    BY <1>7 DEF EditRef, EditRoute, Changes
  <2>3. QED  BY <2>1, <2>2 DEF KeepsUserLines, Landed
<1>8. CASE UNCHANGED landingVars
  <2>1. LandingInv'
    BY <1>8 DEF landingVars, LandingInv, LandingTypes, LinesWritten, AboutToWrite, TextsFresh, CalmFit,
       CalmLanding, Untouched, CredCovered, SettCovered, SameCred, SameSett, CredRight, SettRight, AskedFor,
       Suppliers, ValueOf
  <2>2. QED  BY <1>8, <2>1 DEF landingVars, KeepsUserLines, Landed
<1>9. QED  BY <1>1, <1>2, <1>3, <1>4, <1>5, <1>6, <1>7, <1>8 DEF LandingNext

\* The files, the list and the landings under way fit in every state (server.ts: landModels;
\* model-landing.ts: reconcileCredentials, reconcileSettings).
THEOREM LandingCorrect == LandingSpec => []LandingInv
<1>1. LandingInit => LandingInv
  BY LandingInitially
<1>2. LandingInv /\ [LandingNext]_landingVars => LandingInv'
  BY LandingStep
<1>3. QED  BY <1>1, <1>2, PTL DEF LandingSpec

\* The platform never touches what the user wrote, and lands what it was asked for.
THEOREM ModelsAreLanded == LandingSpec => ModelsLand
<1>1. LandingInv => LandingTypeOK
  BY LineFacts DEF LandingInv, LandingTypes, Lists, LinesWritten, LandingTypeOK
<1>2. LandingInv /\ [LandingNext]_landingVars => [KeepsUserLines]_landingVars
  BY LandingStep
<1>3. LandingInv /\ [LandingNext]_landingVars =>
        [\A l \in Landers : Landed(l) /\ calm => EndsRight(l)]_landingVars
  BY LandingStep
<1>4. LandingSpec => []LandingTypeOK
  BY <1>1, LandingCorrect, PTL
<1>5. LandingSpec => [][KeepsUserLines]_landingVars
  BY <1>2, LandingCorrect, PTL DEF LandingSpec
<1>6. LandingSpec => [][\A l \in Landers : Landed(l) /\ calm => EndsRight(l)]_landingVars
  BY <1>3, LandingCorrect, PTL DEF LandingSpec
<1>7. LandingSpec => UserLinesKept
  BY <1>5 DEF UserLinesKept, KeepsUserLines
<1>8. LandingSpec => LandedExactly
  BY <1>6 DEF LandedExactly, EndsRight
<1>9. QED  BY <1>4, <1>7, <1>8, PTL DEF ModelsLand
=============================================================================
