--------------------------- MODULE InstanceLease ---------------------------
(***************************************************************************)
(* The ownership lease of one user's main instance: the row of             *)
(* dsh_instances, and the Manager processes that claim, renew, release and  *)
(* pin it (src/src/db/pg.ts, src/src/db/repo.ts,                            *)
(* src/src/supervisor/lease.ts).  Every statement is keyed by               *)
(* clusterInstanceId(userId), so the rows of two users never interact and   *)
(* one row is the whole story.                                              *)
(*                                                                         *)
(* A database call is asynchronous: the Manager captures its clock and its  *)
(* held lease when it calls, the database executes the statement later, and *)
(* the Manager applies the answer later still.  The three moments are three *)
(* actions, and calls of different kinds are in flight together.            *)
(***************************************************************************)
EXTENDS Naturals, FiniteSets

CONSTANTS
    Managers,   \* Manager processes sharing the control-plane database
    Hosts,      \* worker hosts (dsh_hosts.id)
    NoHost,     \* host_id IS NULL
    Ttl,        \* ttlMs of a lease
    Renew,      \* renewMs, also the heartbeat interval
    Skew,       \* how far each Manager's Date.now() is ahead of the true time
    Prompt,     \* TRUE: heartbeats start when due, calls end within Latency
    Latency,    \* longest call of a prompt system
    MaxCalls,   \* bound: database calls one Manager has in flight
    MaxNow,     \* bound: the clock stops here
    MaxEpoch    \* bound: no claim is executed once the row has this epoch

ASSUME ManagersAssumption == Managers # {}
ASSUME HostsAssumption == Hosts # {} /\ NoHost \notin Hosts
\* The constructor throws when ttl <= 2 * renewInterval.
ASSUME TtlAssumption == Ttl \in Nat /\ Renew \in Nat \ {0} /\ Ttl > 2 * Renew
ASSUME ClockAssumption == /\ Skew \in [Managers -> Nat]
                          /\ Prompt \in BOOLEAN
                          /\ Latency \in Nat
\* What "ttl > 2 * renew" is there for: a renewal that starts one interval after
\* the previous call and takes Latency still beats the fastest clock.
ASSUME PromptAssumption ==
    Prompt => \A m, n \in Managers :
                 Renew + 2 * Latency + Skew[n] <= Ttl + Skew[m]
ASSUME BoundsAssumption == MaxCalls \in Nat /\ MaxNow \in Nat /\ MaxEpoch \in Nat

Kinds == {"claim", "renew", "release", "pin"}

\* A lease a Manager may hold; epoch 0 is never granted and stands for none.
LeaseSet == [epoch : Nat, host : Hosts \cup {NoHost}]
NoLease == [epoch |-> 0, host |-> NoHost]

CallSet == [st : {"idle", "sent", "answered"}, at : Nat, lease : LeaseSet, ok : BOOLEAN]
Idle == [st |-> "idle", at |-> 0, lease |-> NoLease, ok |-> FALSE]

VARIABLES
    now,        \* true time
    row,        \* [host, epoch, until] columns host_id, epoch, lease_until
    held,       \* InstanceLease.held of each Manager for this user
    calls,      \* the database calls in flight, one of each kind per Manager
    due         \* time until the heartbeat timer of each Manager fires; 0: now

vars == <<now, row, held, calls, due>>

TypeOK ==
    /\ now \in Nat
    /\ row \in [host : Hosts \cup {NoHost}, epoch : Nat, until : Nat]
    /\ held \in [Managers -> LeaseSet]
    /\ calls \in [Managers -> [Kinds -> CallSet]]
    /\ due \in [Managers -> Nat]

Init ==
    /\ now = 1
    /\ row = [host |-> NoHost, epoch |-> 0, until |-> 0]
    /\ held = [m \in Managers |-> NoLease]
    /\ calls = [m \in Managers |-> [k \in Kinds |-> Idle]]
    /\ due = [m \in Managers |-> 0]

-----------------------------------------------------------------------------
Clock(m) == now + Skew[m]

Holds(m) == held[m].epoch # 0

\* mutant: the claim of an existing row forgets "epoch = epoch + 1"
SameEpoch == IF row.epoch = 0 THEN 1 ELSE row.epoch
\* The fencing token a claim grants.
NextEpoch == row.epoch + 1

LeaseEnd(at) == at + Ttl

\* lease.ts stillHolder: the row still carries the host and the epoch.
SameHost(lease) == row.host = lease.host    \* mutant: the epoch is not compared
Matches(lease) == row.host = lease.host /\ row.epoch = lease.epoch

\* The WHERE clause of the claim and of the pin.
Vacant(at) == row.host = NoHost \/ row.until < at

\* One call of each kind is in flight, and MaxCalls together.
CanCall(m, k) ==
    /\ calls[m][k].st = "idle"
    /\ Cardinality({x \in Kinds : calls[m][x].st # "idle"}) < MaxCalls

SetCall(m, k, c) == calls' = [calls EXCEPT ![m][k] = c]

Send(m, k, lease) ==
    SetCall(m, k, [st |-> "sent", at |-> Clock(m), lease |-> lease, ok |-> FALSE])

Answer(m, k, lease, ok) ==
    SetCall(m, k, [calls[m][k] EXCEPT !.st = "answered", !.lease = lease, !.ok = ok])

Done(m, k) == SetCall(m, k, Idle)

-----------------------------------------------------------------------------
(* acquire: claimInstance *)

CallClaim(m, h) ==
    /\ CanCall(m, "claim")
    /\ Send(m, "claim", [epoch |-> 0, host |-> h])
    /\ UNCHANGED <<now, row, held, due>>

ClaimInstance(m) ==
    LET c == calls[m]["claim"] IN
    /\ c.st = "sent"
    /\ row.epoch < MaxEpoch
    /\ IF Vacant(c.at)
         THEN /\ row' = [host |-> c.lease.host, epoch |-> NextEpoch, until |-> LeaseEnd(c.at)]
              /\ Answer(m, "claim", [c.lease EXCEPT !.epoch = NextEpoch], TRUE)
         ELSE /\ Answer(m, "claim", c.lease, FALSE)
              /\ UNCHANGED row
    /\ UNCHANGED <<now, held, due>>

ReturnClaim(m) ==
    LET c == calls[m]["claim"] IN
    /\ c.st = "answered"
    /\ held' = IF c.ok THEN [held EXCEPT ![m] = c.lease] ELSE held
    /\ Done(m, "claim")
    /\ UNCHANGED <<now, row, due>>

-----------------------------------------------------------------------------
(* heartbeat: renewAll -> renew -> renewInstanceLease *)

SlowTimer(m) == due' = [due EXCEPT ![m] = Ttl]     \* mutant: beats once per ttl
ResetTimer(m) == due' = [due EXCEPT ![m] = Renew]

Heartbeat(m) ==
    /\ due[m] = 0
    /\ CanCall(m, "renew")
    /\ IF Holds(m) THEN Send(m, "renew", held[m]) ELSE UNCHANGED calls
    /\ ResetTimer(m)
    /\ UNCHANGED <<now, row, held>>

RenewInstanceLease(m) ==
    LET c == calls[m]["renew"] IN
    /\ c.st = "sent"
    /\ row' = IF Matches(c.lease) THEN [row EXCEPT !.until = LeaseEnd(c.at)] ELSE row
    /\ Answer(m, "renew", c.lease, Matches(c.lease))
    /\ UNCHANGED <<now, held, due>>

\* The record is deleted whatever lease it names by now.
ReturnRenew(m) ==
    LET c == calls[m]["renew"] IN
    /\ c.st = "answered"
    /\ held' = IF c.ok THEN held ELSE [held EXCEPT ![m] = NoLease]
    /\ Done(m, "renew")
    /\ UNCHANGED <<now, row, due>>

-----------------------------------------------------------------------------
(* stop, or a failed launch: release -> releaseInstanceLease *)

CallRelease(m) ==
    /\ Holds(m)
    /\ CanCall(m, "release")
    /\ Send(m, "release", held[m])
    /\ UNCHANGED <<now, row, held, due>>

\* host_id stays: the user's workspace is on that host's disk.
ReleaseInstanceLease(m) ==
    LET c == calls[m]["release"] IN
    /\ c.st = "sent"
    /\ row' = IF Matches(c.lease) THEN [row EXCEPT !.until = 0] ELSE row
    /\ Answer(m, "release", c.lease, Matches(c.lease))
    /\ UNCHANGED <<now, held, due>>

ReturnRelease(m) ==
    LET c == calls[m]["release"] IN
    /\ c.st = "answered"
    /\ held' = IF c.ok THEN [held EXCEPT ![m] = NoLease] ELSE held
    /\ Done(m, "release")
    /\ UNCHANGED <<now, row, due>>

-----------------------------------------------------------------------------
(* first touch of the workspace: hostIdForFile -> pinInstanceHost *)

CallPin(m, h) ==
    /\ row.host = NoHost
    /\ CanCall(m, "pin")
    /\ Send(m, "pin", [epoch |-> 0, host |-> h])
    /\ UNCHANGED <<now, row, held, due>>

PinInstanceHost(m) ==
    LET c == calls[m]["pin"] IN
    /\ c.st = "sent"
    /\ row' = IF Vacant(c.at) THEN [row EXCEPT !.host = c.lease.host] ELSE row
    /\ Done(m, "pin")
    /\ UNCHANGED <<now, held, due>>

-----------------------------------------------------------------------------
(* failures, restarts and time *)

\* A statement fails, or was executed and its answer is lost: the caller gets
\* an exception and applies nothing.
LoseCall(m, k) ==
    /\ k # "renew"
    /\ calls[m][k].st # "idle"
    /\ Done(m, k)
    /\ UNCHANGED <<now, row, held, due>>

\* The Manager process ends and starts again; its map is in memory only.  A
\* heartbeat whose renewal throws ends here too: the rejection of `void
\* this.tick()` is not handled anywhere.
Restart(m) ==
    /\ held' = [held EXCEPT ![m] = NoLease]
    /\ calls' = [calls EXCEPT ![m] = [k \in Kinds |-> Idle]]
    /\ due' = [due EXCEPT ![m] = 0]
    /\ UNCHANGED <<now, row>>

CountDown(m) == IF due[m] = 0 THEN 0 ELSE due[m] - 1

\* Time passes.  In a prompt system no heartbeat is overdue and no call older
\* than Latency.
TimePasses ==
    /\ now < MaxNow
    /\ Prompt => \A m \in Managers :
                    /\ due[m] > 0
                    /\ \A k \in Kinds : calls[m][k].st # "idle" =>
                                            Clock(m) < calls[m][k].at + Latency
    /\ now' = now + 1
    /\ due' = [m \in Managers |-> CountDown(m)]
    /\ UNCHANGED <<row, held, calls>>

-----------------------------------------------------------------------------
ManagerNext(m) ==
    \/ \E h \in Hosts : CallClaim(m, h)
    \/ ClaimInstance(m)
    \/ ReturnClaim(m)
    \/ Heartbeat(m)
    \/ RenewInstanceLease(m)
    \/ ReturnRenew(m)
    \/ CallRelease(m)
    \/ ReleaseInstanceLease(m)
    \/ ReturnRelease(m)
    \/ \E h \in Hosts : CallPin(m, h)
    \/ PinInstanceHost(m)
    \/ \E k \in Kinds : LoseCall(m, k)
    \/ Restart(m)

Next == TimePasses \/ \E m \in Managers : ManagerNext(m)

Spec == Init /\ [][Next]_vars

-----------------------------------------------------------------------------
(* Properties *)

\* The fencing tokens a Manager can put to use: the lease it holds and the one
\* a granted claim is about to give it.
Tokens(m) ==
    {held[m].epoch} \cup
    (IF calls[m]["claim"].st = "answered" /\ calls[m]["claim"].ok
       THEN {calls[m]["claim"].lease.epoch} ELSE {})

\* ... and those its renewals and releases in flight were called with.
Used(m) ==
    Tokens(m) \cup
    {calls[m][k].lease.epoch :
        k \in {x \in {"renew", "release"} : calls[m][x].st # "idle"}}

\* No token was given out twice and none is ahead of the row, whatever the
\* clocks say, whichever calls are in flight and whoever restarted (lease.ts,
\* invariants 1 and 3); a token just granted is in no older call.
TokenInv ==
    /\ \A m \in Managers : \A e \in Used(m) : e <= row.epoch
    /\ \A m, n \in Managers : m # n => Used(m) \cap Used(n) \subseteq {0}
    /\ \A m \in Managers :
           LET c == calls[m]["claim"] IN
           c.st = "answered" /\ c.ok =>
              /\ c.lease.epoch > 0
              /\ held[m].epoch # c.lease.epoch
              /\ \A k \in {"renew", "release"} :
                     calls[m][k].st # "idle" => calls[m][k].lease.epoch # c.lease.epoch

\* Single writer of the row: two Managers never both pass stillHolder, even
\* when they claimed the same host and one of them has slept past its lease.
OneHolder ==
    \A m, n \in Managers :
        Holds(m) /\ Matches(held[m]) /\ Holds(n) /\ Matches(held[n]) => m = n

\* lease.ts, invariant 2: with heartbeats on time a Manager that holds the
\* row, and has not released it, never lets its lease run out on anybody's
\* clock; so no other Manager's claim or pin can take the row from it.
PromptHolderKeepsLease ==
    Prompt => \A m \in Managers :
        Holds(m) /\ Matches(held[m]) /\ row.until # 0 =>
            \A n \in Managers : Clock(n) <= row.until

\* Leases and calls name a real host, and a row without a host has no lease.
HostInv ==
    /\ row.host = NoHost => row.until = 0
    /\ \A m \in Managers : Holds(m) => held[m].host # NoHost
    /\ \A m \in Managers, k \in Kinds :
           calls[m][k].st # "idle" => calls[m][k].lease.host # NoHost

\* The inductive form of PromptHolderKeepsLease.  A call is no older than
\* Latency; a renewal in flight started at the last beat; the lease of a
\* granted claim, and of a holder, reaches far enough past the next beat; a
\* pin in flight is older than any lease the row has got since.
CallAges ==
    \A m \in Managers, k \in Kinds :
        LET c == calls[m][k] IN
        c.st # "idle" => c.at <= Clock(m) /\ Clock(m) <= c.at + Latency

BeatPhase ==
    \A m \in Managers :
        LET c == calls[m]["renew"] IN
        due[m] <= Renew /\ (c.st # "idle" => Clock(m) + due[m] = c.at + Renew)

GrantLive ==
    \A m \in Managers :
        LET c == calls[m]["claim"] IN
        c.st = "answered" /\ c.ok /\ Matches(c.lease) /\ row.until # 0 =>
            row.until >= c.at + Ttl

HolderLive ==
    \A m \in Managers :
        LET c == calls[m]["renew"] IN
        Holds(m) /\ Matches(held[m]) /\ row.until # 0 =>
            IF c.st = "sent" /\ c.lease = held[m]
              THEN row.until + Renew + Latency >= c.at + Ttl
              ELSE row.until + Renew + Latency >= Clock(m) + due[m] + Ttl

PinStale ==
    \A m \in Managers :
        LET c == calls[m]["pin"] IN
        c.st # "idle" /\ row.host # NoHost /\ row.until # 0 => c.at <= row.until

PromptInv ==
    Prompt => CallAges /\ BeatPhase /\ GrantLive /\ HolderLive /\ PinStale

\* The lease with heartbeats on time (lease.ts: renewAll against claimInstance): a
\* Manager that holds its row keeps it, and why.
PromptLease == TypeOK /\ HostInv /\ PromptInv /\ PromptHolderKeepsLease

-----------------------------------------------------------------------------
Fencing == INSTANCE FencingToken WITH
             token <- row.epoch,
             granted <- [m \in Managers |-> Tokens(m)]

\* Every behaviour of the lease is one of the abstract token service.
ImplementsFencing == Fencing!Spec
=============================================================================
