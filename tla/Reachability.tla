----------------------------- MODULE Reachability ----------------------------
(***************************************************************************)
(* Where the Manager dials a host: the address hostsProvider resolves for    *)
(* its agent and the endpoint translateEndpoint gives for its instance       *)
(* (src/src/web/server.ts, src/src/net/rendezvous.ts, relay/rendezvous.ts,   *)
(* relay/endpoint-target.ts, reachability.ts), from three sources: the pool   *)
(* of the dialling channel, the pushed presence, and the polled snapshot.      *)
(*                                                                         *)
(* A relay that starts again numbers its landings anew; a landing is a pair    *)
(* of the host and the relay's life.  One port per host stands for all.  A     *)
(* landing is bound some time after its host came, what changed is pushed in   *)
(* batches, and a host that left is said to be offline when its grace is over; *)
(* RelayPresence has the frames of the link, here a batch arrives in one step. *)
(***************************************************************************)
EXTENDS Naturals

CONSTANTS
    Hosts,
    None,
    MaxLives,     \* bound: lives of the relay
    MaxChanges,   \* bound: changes of a host's connection, its row, the pool
    MaxLapses     \* bound: losses of the presence link

ReachAssumption ==
    MaxLives \in Nat \ {0} /\ MaxChanges \in Nat /\ MaxLapses \in Nat

VARIABLES
    status,    \* relayStatusUrl is configured
    via,       \* dsh_hosts: how a host is reached, "ssh" or "relay"
    online,    \* hosts with a session on the relay
    said,      \* the relay's presence table: host -> "unknown", "online" or "offline"
    bound,     \* hosts whose landing listens
    due,       \* hosts of the next batch, of the subscriber's presencePending
    life, alive, \* the relay's life, and whether it runs
    fresh,     \* presenceFresh: the subscription of the dialling channel holds
    mirror,    \* presenceMap: host -> [online, life of its landing or 0], or None
    snap,      \* relayEndpoints: host -> [life, online], or None
    aged,      \* is relaySnapshotAt older than its time to live?
    poll,      \* a /status answer on its way: its rows, or None
    pool,      \* the dialling channel: "none", "ready", or "full" of streams
    hostVia,   \* hostVia: host -> via when the table was last read, or None
    rows,      \* rows a hostsProvider under way has read, or None
    dir,       \* hostDirectory: host -> what its agent is dialled at
    changes, lapses

relay == <<online, said, bound, due, life, alive>>
sources == <<fresh, mirror, snap, aged, poll, pool>>
manager == <<hostVia, rows, dir>>
vars == <<status, via, relay, sources, manager, changes, lapses>>

\* Where a caller is sent: its own address (dsh_hosts.endpoint), a slot of the pool, a
\* landing on the relay's machine, or nowhere.
Places == [kind : {"own", "slot", "nowhere"}, life : {0}] \cup [kind : {"landing"}, life : 1..MaxLives]
Own == [kind |-> "own", life |-> 0]
Slot == [kind |-> "slot", life |-> 0]
Nowhere == [kind |-> "nowhere", life |-> 0]
Landing(n) == [kind |-> "landing", life |-> n]

Rows == [Hosts -> [life : 1..MaxLives, online : BOOLEAN] \cup {None}]

TypeOK ==
    /\ status \in BOOLEAN /\ via \in [Hosts -> {"ssh", "relay"}] /\ online \subseteq Hosts
    /\ said \in [Hosts -> {"unknown", "online", "offline"}]
    /\ bound \subseteq Hosts /\ due \subseteq Hosts
    /\ life \in 1..MaxLives /\ alive \in BOOLEAN /\ (fresh => alive /\ pool # "none")
    /\ fresh \in BOOLEAN /\ aged \in BOOLEAN
    /\ mirror \in [Hosts -> [online : BOOLEAN, life : 0..MaxLives] \cup {None}]
    /\ snap \in Rows /\ poll \in Rows \cup {None}
    /\ pool \in {"none", "ready", "full"}
    /\ hostVia \in [Hosts -> {"ssh", "relay", None}]
    /\ rows \in [Hosts -> {"ssh", "relay"}] \cup {None}
    /\ dir \in [Hosts -> Places] /\ changes \in 0..MaxChanges /\ lapses \in 0..MaxLapses

\* Either way to the relay may be left out; a dialling channel starts with the Manager.
Init ==
    /\ status \in BOOLEAN /\ pool \in {"none", "ready"}
    /\ via \in [Hosts -> {"ssh", "relay"}] /\ online = {} /\ life = 1 /\ alive = TRUE
    /\ said = [h \in Hosts |-> "unknown"] /\ bound = {} /\ due = {}
    /\ fresh = FALSE /\ mirror = [h \in Hosts |-> None]
    /\ snap = [h \in Hosts |-> None] /\ aged = TRUE /\ poll = None
    /\ hostVia = [h \in Hosts |-> None] /\ rows = None
    /\ dir = [h \in Hosts |-> Nowhere] /\ changes = 0 /\ lapses = 0

-----------------------------------------------------------------------------
(* The sources *)

\* presenceLocalPort: nothing while the subscription does not hold, nor for a host
\* whose landing was not bound when it was pushed.
PushedLanding(h) ==
    IF fresh /\ mirror[h] # None THEN IF mirror[h].life # 0 THEN Landing(mirror[h].life) ELSE Nowhere
                                  ELSE Nowhere

SnapLanding(h) == IF snap[h] = None THEN Nowhere ELSE Landing(snap[h].life)

\* localPortFor: a slot, unless all of them carry streams (module LandingPool).
CanDial(h) == pool = "ready"

\* The online of RelayRendezvous, where nothing is pushed: a row of a snapshot in date,
\* else the word of the dialling itself.
SaidOnline(h) == IF ~aged /\ snap[h] # None THEN snap[h].online ELSE pool # "none"

\* RelayRendezvous.resolve: what was pushed of the host, unless nothing was.
IsOnline(h) == IF fresh /\ mirror[h] # None THEN mirror[h].online ELSE SaidOnline(h)

\* addressOf and relayEndpointTarget: pool, presence, snapshot.
Chain(h) ==
    IF CanDial(h) THEN Slot ELSE IF PushedLanding(h) # Nowhere THEN PushedLanding(h) ELSE SnapLanding(h)

\* RelayRendezvous is registered with a status url or a dialling channel.
Registered == status \/ pool # "none"

\* hostsProvider, for one row: without a RelayRendezvous the row's address is used.
Resolved(h, v) ==
    IF v = "ssh" \/ ~Registered THEN Own ELSE IF IsOnline(h) THEN Chain(h) ELSE Nowhere

\* mutant: judged by what the agent's address came to
TranslatedByAddress(h) ==
    IF dir[h].kind \in {"own", "nowhere"} THEN Own ELSE Chain(h)

\* translateEndpoint: the row decides whether to translate; an unknown host is left alone.
Translated(h) == IF hostVia[h] # "relay" THEN Own ELSE Chain(h)

-----------------------------------------------------------------------------
(* Actions *)

Changing == changes < MaxChanges /\ changes' = changes + 1

\* publishPresence: what changed of a host waits for the next batch of a subscriber.
Publishes(h) == due' = IF fresh THEN due \cup {h} ELSE due

AtRelay == UNCHANGED <<status, via, life, alive, sources, manager, lapses>>

\* A host connects: it is online at once, its landing is not bound yet, unless it was
\* there before.
Connects(h) ==
    /\ alive /\ h \notin online /\ Changing
    /\ online' = online \cup {h}
    /\ said' = [said EXCEPT ![h] = "online"]
    /\ IF said[h] # "online" THEN Publishes(h) ELSE UNCHANGED due
    /\ UNCHANGED bound /\ AtRelay

\* ensureEndpoint: the listener is bound, and the host pushed once more.
Binds(h) ==
    /\ said[h] # "unknown" /\ h \notin bound
    /\ bound' = bound \cup {h} /\ Publishes(h)
    /\ UNCHANGED <<online, said, changes>> /\ AtRelay

\* Its landing stays, and nothing is said yet ...
Leaves(h) ==
    /\ h \in online /\ Changing
    /\ online' = online \ {h}
    /\ UNCHANGED <<said, bound, due>> /\ AtRelay

\* ... until grace and debounce are over.
GivenUp(h) ==
    /\ h \notin online /\ said[h] = "online"
    /\ said' = [said EXCEPT ![h] = "offline"] /\ Publishes(h)
    /\ UNCHANGED <<online, bound, changes>> /\ AtRelay

\* presenceEntry: what a subscriber is told of a host.
Entry(h) == IF said[h] = "unknown" THEN None
            ELSE [online |-> said[h] = "online", life |-> IF h \in bound THEN life ELSE 0]

\* flushPresence and onPresenceFrame: a batch arrives.
Pushed ==
    /\ due # {} /\ due' = {}
    /\ mirror' = [h \in Hosts |-> IF h \in due THEN Entry(h) ELSE mirror[h]]
    /\ UNCHANGED <<status, via, online, said, bound, life, alive, fresh, snap, aged, poll, pool,
                    manager, changes, lapses>>

\* The row of a host is changed.
Moved(h) ==
    /\ Changing
    /\ via' = [via EXCEPT ![h] = IF @ = "ssh" THEN "relay" ELSE "ssh"]
    /\ UNCHANGED <<status, relay, sources, manager, lapses>>

\* Streams fill the pool, or leave it again.
Fills ==
    /\ pool # "none" /\ Changing
    /\ pool' = IF pool = "ready" THEN "full" ELSE "ready"
    /\ UNCHANGED <<status, via, relay, fresh, mirror, snap, aged, poll, manager, lapses>>

\* The relay stops: its sessions, landings and subscriptions with it.
RelayStops ==
    /\ alive /\ life < MaxLives
    /\ alive' = FALSE /\ online' = {} /\ bound' = {} /\ due' = {} /\ fresh' = FALSE
    /\ said' = [h \in Hosts |-> "unknown"]
    /\ UNCHANGED <<status, via, life, mirror, snap, aged, poll, pool, manager, changes, lapses>>

RelayStarts ==
    /\ ~alive /\ alive' = TRUE /\ life' = life + 1
    /\ UNCHANGED <<status, via, online, said, bound, due, sources, manager, changes, lapses>>

\* onSnapFrame: the whole table comes with the subscription.
Subscribes ==
    /\ pool # "none" /\ alive /\ ~fresh /\ fresh' = TRUE
    /\ mirror' = [h \in Hosts |-> Entry(h)]
    /\ UNCHANGED <<status, via, relay, snap, aged, poll, pool, manager, changes, lapses>>

\* onPresenceDown: the mirror stays, and does not count.
Lapses ==
    /\ fresh /\ lapses < MaxLapses /\ lapses' = lapses + 1 /\ fresh' = FALSE /\ due' = {}
    /\ UNCHANGED <<status, via, online, said, bound, life, alive, mirror, snap, aged, poll, pool,
                    manager, changes>>

\* notePollGate: no poll while the subscription holds.
PollGate == ~fresh

\* refreshRelay: asked; a landing not bound yet has no row ...
Poll ==
    /\ status /\ PollGate /\ poll = None /\ alive
    /\ poll' = [h \in Hosts |-> IF h \in bound THEN [life |-> life, online |-> h \in online] ELSE None]
    /\ UNCHANGED <<status, via, relay, fresh, mirror, snap, aged, pool, manager, changes, lapses>>

\* The answer replaces the whole snapshot.
Replaced == poll

\* ... and answered.
Polled ==
    /\ poll # None /\ poll' = None
    /\ snap' = Replaced /\ aged' = FALSE
    /\ UNCHANGED <<status, via, relay, fresh, mirror, pool, manager, changes, lapses>>

\* No answer: the old snapshot stays.
PollFails ==
    /\ poll # None /\ ~alive /\ poll' = None
    /\ UNCHANGED <<status, via, relay, fresh, mirror, snap, aged, pool, manager, changes, lapses>>

\* Three polls without an answer, or none asked.
Ages ==
    /\ ~aged /\ (fresh \/ ~alive) /\ aged' = TRUE
    /\ UNCHANGED <<status, via, relay, fresh, mirror, snap, poll, pool, manager, changes, lapses>>

\* hostsProvider: the table is read ...
ReadTable ==
    /\ rows = None /\ rows' = via
    /\ UNCHANGED <<status, via, relay, sources, hostVia, dir, changes, lapses>>

\* ... and every row resolved.
Apply ==
    /\ rows # None /\ rows' = None
    /\ hostVia' = rows
    /\ dir' = [h \in Hosts |-> Resolved(h, rows[h])]
    /\ UNCHANGED <<status, via, relay, sources, changes, lapses>>

Next ==
    \/ \E h \in Hosts : Connects(h) \/ Binds(h) \/ Leaves(h) \/ GivenUp(h) \/ Moved(h)
    \/ Pushed \/ Fills \/ RelayStops \/ RelayStarts \/ Subscribes \/ Lapses
    \/ Poll \/ Polled \/ PollFails \/ Ages \/ ReadTable \/ Apply

Spec == Init /\ [][Next]_vars

\* The timers of poll, batches, grace and directory, a listen that is answered, a client
\* that connects again, and a relay that is started again.
FairSpec ==
    /\ Spec
    /\ \A h \in Hosts : WF_vars(Binds(h)) /\ WF_vars(GivenUp(h))
    /\ WF_vars(Pushed) /\ WF_vars(Subscribes)
    /\ WF_vars(RelayStarts) /\ SF_vars(Poll) /\ WF_vars(Polled) /\ WF_vars(PollFails)
    /\ WF_vars(ReadTable) /\ WF_vars(Apply) /\ WF_vars(Ages)
-----------------------------------------------------------------------------
(* Properties *)

\* A host known to be behind the relay is never dialled at its own address, which on
\* the Manager's machine is somebody else's port: its instance never, its agent not by
\* a Manager that has a way to the relay.  (One without dials the row's address.)
RelayHostsFailClosed ==
    \A h \in Hosts : hostVia[h] = "relay" => /\ Translated(h).kind # "own"
                                             /\ Registered => dir[h].kind # "own"

Current == {Slot, Landing(life)}

\* While the subscription holds, an instance is dialled where the running relay listens
\* for its host, whatever an older snapshot says: as soon as the mirror has a landing,
\* and at the latest when the host's landing is bound and the batch with it is out.
PushedIsCurrent ==
    \A h \in Hosts :
        /\ fresh /\ hostVia[h] = "relay"
        /\ PushedLanding(h) # Nowhere \/ (h \in bound /\ h \notin due)
        => Translated(h) \in Current

\* A host that stays online is reached in the end, over whatever restarts of the relay and
\* losses of the subscription went before: by the poll, a free slot, or what is pushed ...
OnlineReached ==
    \A h \in Hosts :
        <>[](/\ alive /\ h \in online /\ via[h] = "relay"
             /\ Registered /\ (status \/ pool = "ready" \/ fresh))
        => <>[](dir[h] \in Current)

\* ... and one that stays away is no longer given an address, where nothing dials or the
\* relay has told that it left.
OfflineUnrouted ==
    \A h \in Hosts :
        <>[](/\ alive /\ h \notin online /\ via[h] = "relay" /\ Registered
             /\ pool = "none" \/ (fresh /\ mirror[h] # None))
        => <>[](dir[h] = Nowhere)
=============================================================================
