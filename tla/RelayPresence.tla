---------------------------- MODULE RelayPresence ---------------------------
(***************************************************************************)
(* Who is online: the relay's presence table of one host and the pushes to  *)
(* one subscriber (src/src/net/relay/server.ts), and the subscriber's mirror *)
(* (src/src/net/relay/client.ts), over a link that keeps order and may drop. *)
(*                                                                         *)
(* Time is what has run out: the grace and debounce of a host without a      *)
(* connection, the time to live of a silent one.  A host declares Static in  *)
(* its HELLO and adds and removes the other ports.                           *)
(***************************************************************************)
EXTENDS Naturals, Sequences

CONSTANTS
    Ports,      \* ports of the host
    Static,     \* those of its HELLO
    None,
    MaxEvents,  \* bound: changes of the host
    MaxDrops,   \* bound: lost links to the subscriber
    MaxFrames   \* bound: frames on their way

PresenceAssumption ==
    Static \subseteq Ports /\ MaxEvents \in Nat /\ MaxDrops \in Nat /\ MaxFrames \in Nat \ {0}

VARIABLES
    old,        \* the relay does not know SUB
    sess,       \* the session of the host: "none", "live" or "silent"
    declared,   \* its ports
    land,       \* the endpoints: "none", "binding" or "open"
    st,         \* PresenceState: counted connection, offlineSince, published, ports
    subs,       \* the subscriber's session: subscribed?
    pending,    \* its presencePending
    link,       \* is the subscriber's link up?
    toRelay,    \* a SUB on its way
    frames,     \* frames on their way to the subscriber
    client,     \* presenceState, subSentAt # 0, subFailures
    mirror,     \* presenceMap: the entry of the host, or None
    events, drops

relayVars == <<sess, declared, land, st>>
linkVars == <<subs, pending, link, toRelay, frames, client, mirror, drops>>
vars == <<old, relayVars, linkVars, events>>

Entries == [online : BOOLEAN, ports : SUBSET Ports, lands : SUBSET Ports]

TypeOK ==
    /\ old \in BOOLEAN /\ sess \in {"none", "live", "silent"} /\ declared \subseteq Ports
    /\ land \in [Ports -> {"none", "binding", "open"}]
    /\ st \in [known : BOOLEAN, conn : BOOLEAN, offline : {"no", "since", "due"},
               pub : BOOLEAN, ports : SUBSET Ports]
    /\ subs \in BOOLEAN /\ pending \in Entries \cup {None} /\ link \in BOOLEAN
    /\ toRelay \in BOOLEAN
    /\ \A i \in DOMAIN frames : frames[i].type \in {"SNAP", "PRESENCE"}
                                /\ frames[i].entry \in Entries \cup {None}
    /\ client \in [state : {"idle", "pending", "subscribed", "unsupported"}, sent : BOOLEAN,
                   failures : 0..2]
    /\ (client.sent => client.state = "pending")
    /\ mirror \in Entries \cup {None} /\ events \in 0..MaxEvents /\ drops \in 0..MaxDrops

Init ==
    /\ old \in BOOLEAN
    /\ sess = "none" /\ declared = {} /\ land = [p \in Ports |-> "none"]
    /\ st = [known |-> FALSE, conn |-> FALSE, offline |-> "no", pub |-> FALSE, ports |-> {}]
    /\ subs = FALSE /\ pending = None /\ link = FALSE /\ toRelay = FALSE /\ frames = <<>>
    /\ client = [state |-> "pending", sent |-> FALSE, failures |-> 0]
    /\ mirror = None /\ events = 0 /\ drops = 0

-----------------------------------------------------------------------------
(* The relay's table *)

\* presenceEntry
Entry(s, l) == [online |-> s.pub, ports |-> s.ports,
                lands |-> {p \in s.ports : l[p] = "open"}]

\* publishPresence: the one exit of every change; the entry replaces the one
\* that waits for the next batch.
Publish(s, l) ==
    /\ st' = s /\ land' = l
    /\ pending' = IF subs THEN Entry(s, l) ELSE pending

Unpublished(s, l) == st' = s /\ land' = l /\ UNCHANGED pending

\* presenceTouch: this connection lives; an event only if the host was offline.
Touch(s) == [s EXCEPT !.known = TRUE, !.conn = TRUE, !.offline = "no", !.ports = @ \cup declared']
Touched(l) ==
    IF st.pub THEN Unpublished(Touch(st), l) ELSE Publish([Touch(st) EXCEPT !.pub = TRUE], l)

Event == events < MaxEvents /\ events' = events + 1
LinkSame == UNCHANGED <<old, subs, link, toRelay, frames, client, mirror, drops>>

\* handleHello: the endpoints, then the presence.
Hello ==
    /\ Event /\ sess = "none"
    /\ sess' = "live" /\ declared' = Static
    /\ Touched([p \in Ports |-> IF p \in Static /\ land[p] = "none" THEN "binding" ELSE land[p]])
    /\ LinkSame

\* mutant: the ports are pushed when the host comes or goes
BoundQuietly(p) ==
    /\ land[p] = "binding"
    /\ Unpublished(st, [land EXCEPT ![p] = "open"])
    /\ UNCHANGED <<sess, declared, events>> /\ LinkSame

\* ensureEndpoint, when the listener is bound: pushed once more, for the first
\* push could not name the landing port.
Bound(p) ==
    /\ land[p] = "binding"
    /\ LET l == [land EXCEPT ![p] = "open"] IN
       IF st.known THEN Publish(st, l) ELSE Unpublished(st, l)
    /\ UNCHANGED <<sess, declared, events>> /\ LinkSame

\* onPortChange and presenceSyncPorts.
PortAdd(p) ==
    /\ Event /\ sess = "live" /\ p \in Ports \ declared
    /\ declared' = declared \cup {p}
    /\ Publish([st EXCEPT !.ports = declared \cup {p}],
               [land EXCEPT ![p] = IF @ = "none" THEN "binding" ELSE @])
    /\ UNCHANGED sess /\ LinkSame

PortDel(p) ==
    /\ Event /\ sess = "live" /\ p \in declared \ Static
    /\ declared' = declared \ {p}
    /\ Publish([st EXCEPT !.ports = declared \ {p}], [land EXCEPT ![p] = "none"])
    /\ UNCHANGED sess /\ LinkSame

\* dropSession and presenceDrop: nothing is said yet.
Drops ==
    /\ sess # "none" /\ Event
    /\ sess' = "none" /\ declared' = {}
    /\ st' = IF st.conn THEN [st EXCEPT !.conn = FALSE, !.offline = "since"] ELSE st
    /\ UNCHANGED <<land, pending>> /\ LinkSame

GoesSilent ==
    /\ sess = "live" /\ Event
    /\ sess' = "silent"
    /\ UNCHANGED <<declared, land, st, pending>> /\ LinkSame

\* A frame after a silence.
Speaks ==
    /\ sess = "silent" /\ sess' = "live" /\ UNCHANGED declared
    /\ Touched(land)
    /\ UNCHANGED events /\ LinkSame

\* flushPresence: a connection past its time to live no longer counts.
Prune ==
    /\ sess = "silent" /\ st.conn
    /\ st' = [st EXCEPT !.conn = FALSE, !.offline = "since"]
    /\ UNCHANGED <<sess, declared, land, pending, events>> /\ LinkSame

\* Time: grace and debounce run out.
GraceEnds ==
    /\ st.offline = "since" /\ st' = [st EXCEPT !.offline = "due"]
    /\ UNCHANGED <<sess, declared, land, pending, events>> /\ LinkSame

\* flushPresence: the host is said to be offline ...
SayOffline ==
    /\ st.pub /\ st.offline = "due" /\ ~st.conn
    /\ Publish([st EXCEPT !.pub = FALSE], land)
    /\ UNCHANGED <<sess, declared, events>> /\ LinkSame

\* ... and what waits is sent in one frame.
Flush ==
    /\ pending # None /\ Len(frames) < MaxFrames
    /\ frames' = Append(frames, [type |-> "PRESENCE", entry |-> pending])
    /\ pending' = None
    /\ UNCHANGED <<old, relayVars, subs, link, toRelay, client, mirror, drops, events>>

-----------------------------------------------------------------------------
(* The subscription *)

RelaySame == UNCHANGED <<old, relayVars, events>>

\* onHelloAck: subscribed anew, from an empty mirror.
LinkUp ==
    /\ ~link /\ link' = TRUE
    /\ IF client.state = "unsupported" THEN UNCHANGED <<mirror, client, toRelay>>
         ELSE mirror' = None /\ toRelay' = TRUE /\ client' = [client EXCEPT !.sent = TRUE]
    /\ RelaySame /\ UNCHANGED <<subs, pending, frames, drops>>

\* onSubscribe: the whole table first.
Snap ==
    /\ toRelay /\ ~old /\ toRelay' = FALSE
    /\ subs' = TRUE /\ pending' = None
    /\ frames' = Append(frames, [type |-> "SNAP", entry |-> IF st.known THEN Entry(st, land) ELSE None])
    /\ RelaySame /\ UNCHANGED <<link, client, mirror, drops>>

\* onPresenceDown: a SUB that was never answered counts as a failure.
AfterDown ==
    LET n == IF client.sent THEN client.failures + 1 ELSE client.failures IN
    [state |-> IF client.state = "unsupported" \/ (client.sent /\ n = 2) THEN "unsupported" ELSE "pending",
     sent |-> FALSE, failures |-> n]

Ends ==
    /\ link' = FALSE /\ subs' = FALSE /\ pending' = None /\ toRelay' = FALSE /\ frames' = <<>>
    /\ client' = AfterDown
    /\ RelaySame /\ UNCHANGED mirror

LinkDown == link /\ drops < MaxDrops /\ drops' = drops + 1 /\ Ends

\* A relay that does not know the frame ends the connection.
Kicked == toRelay /\ old /\ Ends /\ UNCHANGED drops

\* onSnapFrame, onPresenceFrame.
Receive ==
    /\ frames # <<>> /\ frames' = Tail(frames)
    /\ mirror' = Head(frames).entry
    /\ client' = [client EXCEPT !.state = "subscribed", !.sent = FALSE]
    /\ RelaySame /\ UNCHANGED <<subs, pending, link, toRelay, drops>>

-----------------------------------------------------------------------------
Next ==
    \/ Hello \/ Drops \/ GoesSilent \/ Speaks \/ Prune \/ GraceEnds \/ SayOffline \/ Flush
    \/ \E p \in Ports : Bound(p) \/ PortAdd(p) \/ PortDel(p)
    \/ LinkUp \/ Snap \/ LinkDown \/ Kicked \/ Receive

Spec == Init /\ [][Next]_vars

\* The presence timer, the listener, and a link that is there.
FairSpec ==
    /\ Spec
    /\ WF_vars(Prune) /\ WF_vars(GraceEnds) /\ WF_vars(SayOffline) /\ WF_vars(Flush)
    /\ WF_vars(LinkUp) /\ WF_vars(Snap) /\ WF_vars(Kicked) /\ WF_vars(Receive)
    /\ \A p \in Ports : WF_vars(Bound(p))

-----------------------------------------------------------------------------
(* Properties *)

Quiet == link /\ client.state = "subscribed" /\ frames = <<>> /\ pending = None

\* presenceFresh trusts the mirror whatever its age, for every change is pushed in
\* order: with nothing on its way the mirror is what the relay would say now, the
\* landing ports included.
MirrorExact == Quiet => mirror = (IF st.known THEN Entry(st, land) ELSE None)

\* A host with a connection that counts is never said to be offline, and its
\* countdown does not run on.
CountedIsOnline == st.conn => st.pub /\ st.offline = "no"

\* A host that stays is seen online, one that is gone is seen offline, by a
\* subscriber that still subscribes.
Subscribes == ~old /\ client.state # "unsupported"
SeenOnline == <>[](sess = "live" /\ Subscribes) => <>[](mirror # None /\ mirror.online)
SeenOffline == <>[](sess = "none" /\ Subscribes) => <>[](mirror = None \/ ~mirror.online)

\* "New client, old relay" ends in a connection that stays: SUB is not tried for
\* ever.
OldRelayLeftAlone == <>[](~old \/ link)
=============================================================================
