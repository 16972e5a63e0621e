----------------------------- MODULE LandingPool -----------------------------
(***************************************************************************)
(* The Manager's pool of local landing ports                                *)
(* (src/src/net/relay/dialer.ts): slots bound once at start, each pointing  *)
(* at one (host, port) until it is idle and reused, and the connections     *)
(* that arrive on them.                                                    *)
(*                                                                         *)
(* A key is a logical name and a port.  Callers keep the address they were  *)
(* given (hostDirectory of src/src/web/server.ts keeps one until its next   *)
(* refresh) and connect to it later.  lastUsed is what `later` compares.    *)
(***************************************************************************)
EXTENDS Naturals, FiniteSets

CONSTANTS
    Own,     \* keys in the network the channel declares
    Foreign, \* keys in another one
    Slots,   \* ports of the pool
    Conns,   \* connections to them
    None

PoolAssumption ==
    /\ Own \cap Foreign = {} /\ None \notin Own \cup Foreign \cup Slots
    /\ IsFiniteSet(Own) /\ IsFiniteSet(Slots) /\ IsFiniteSet(Conns)

VARIABLES
    phase,   \* of the pool: "binding", "ready" or "closed"
    bound,   \* the slots start() could bind
    key,     \* slot -> the key it points at, or None
    active,  \* slot -> connections counted on it
    later,   \* the pairs of bound slots whose second was given out after the first
    kept,    \* key -> the port its caller holds, or None
    conn     \* the connections

vars == <<phase, bound, key, active, later, kept, conn>>

Keys == Own \cup Foreign
Idle == [st |-> "idle", at |-> None, key |-> None, want |-> None, tcp |-> FALSE, stream |-> FALSE,
         released |-> FALSE]

TypeOK ==
    /\ phase \in {"binding", "ready", "closed"} /\ bound \subseteq Slots
    /\ key \in [Slots -> Own \cup {None}]
    /\ active \in [Slots -> 0..Cardinality(Conns)]
    /\ later \subseteq bound \X bound /\ \A s, t \in bound : <<s, t>> \in later => <<t, s>> \notin later
    /\ kept \in [Keys -> Slots \cup {None}]
    /\ conn \in [Conns -> [st : {"idle", "opening", "piped", "ended"}, at : Slots \cup {None},
                           key : Own \cup {None}, want : Keys \cup {None},
                           tcp : BOOLEAN, stream : BOOLEAN, released : BOOLEAN]]

Init ==
    /\ phase = "binding" /\ bound = {} /\ later = {}
    /\ key = [s \in Slots |-> None] /\ active = [s \in Slots |-> 0]
    /\ kept = [k \in Keys |-> None] /\ conn = [c \in Conns |-> Idle]

-----------------------------------------------------------------------------
(* The pool *)

\* start(): the ports another process holds are left out.
Start ==
    /\ phase = "binding" /\ phase' = "ready"
    /\ bound' \in SUBSET Slots \ {{}}
    /\ UNCHANGED <<key, active, later, kept, conn>>

\* close(): connections under way go on.
Close ==
    /\ phase = "ready" /\ phase' = "closed"
    /\ bound' = {} /\ later' = {}
    /\ UNCHANGED <<key, active, kept, conn>>

First(S) == {s \in S : \A t \in S : <<t, s>> \notin later}

\* mutant: a slot counts as idle while a stream is being carried
LruIdleAny == First(bound)

\* lruIdle()
LruIdle == First({s \in bound : active[s] = 0})

\* localPortFor(): the slot of the key, else a free one, else the idle one used
\* longest ago.
SlotFor(k) ==
    IF \E s \in bound : key[s] = k THEN {s \in bound : key[s] = k}
    ELSE IF \E s \in bound : key[s] = None THEN {s \in bound : key[s] = None}
    ELSE LruIdle

\* The answer is undefined for another network, for a pool that is not ready and for
\* one that is full: the caller is left without an address.
Ask(k) ==
    IF phase = "ready" /\ k \in Own /\ SlotFor(k) # {}
      THEN \E s \in SlotFor(k) :
             /\ key' = [key EXCEPT ![s] = k]
             /\ later' = {p \in later : p[1] # s} \cup {<<t, s>> : t \in bound \ {s}}
             /\ kept' = [kept EXCEPT ![k] = s]
             /\ UNCHANGED <<phase, bound, active, conn>>
      ELSE kept' = [kept EXCEPT ![k] = None] /\ UNCHANGED <<phase, bound, key, active, later, conn>>

-----------------------------------------------------------------------------
(* The connections *)

\* onConn(): the key is the one of this moment; a connection to a slot nobody was given is
\* dropped and the slot kept.
Accepts(c, s, k) ==
    conn' = [conn EXCEPT ![c] =
               [st |-> IF key[s] = None THEN "ended" ELSE "opening", at |-> s, key |-> key[s],
                want |-> k, tcp |-> key[s] # None, stream |-> FALSE, released |-> FALSE]]

\* A caller connects to the address it holds ...
Connect(c, k) ==
    /\ conn[c].st = "idle" /\ kept[k] \in bound
    /\ Accepts(c, kept[k], k)
    /\ UNCHANGED <<phase, bound, key, active, later, kept>>

\* ... and anyone else of this machine to any port.
Stray(c, s) ==
    /\ conn[c].st = "idle" /\ s \in bound
    /\ Accepts(c, s, None)
    /\ UNCHANGED <<phase, bound, key, active, later, kept>>

\* openStream() succeeds: counted, unless the connection went away meanwhile.
Opened(c) ==
    /\ conn[c].st = "opening"
    /\ IF conn[c].tcp
         THEN /\ conn' = [conn EXCEPT ![c].st = "piped", ![c].stream = TRUE]
              /\ active' = [active EXCEPT ![conn[c].at] = @ + 1]
         ELSE conn' = [conn EXCEPT ![c].st = "ended"] /\ UNCHANGED active
    /\ UNCHANGED <<phase, bound, key, later, kept>>

OpenFails(c) ==
    /\ conn[c].st = "opening"
    /\ conn' = [conn EXCEPT ![c].st = "ended", ![c].tcp = FALSE]
    /\ UNCHANGED <<phase, bound, key, active, later, kept>>

\* release()
Release(c) ==
    active' = IF conn[c].released THEN active ELSE [active EXCEPT ![conn[c].at] = @ - 1]

\* The two close events of a piped connection, in either order.
TcpCloses(c) ==
    /\ conn[c].tcp /\ conn[c].st \in {"opening", "piped"}
    /\ IF conn[c].st = "piped" THEN Release(c) ELSE UNCHANGED active
    /\ conn' = [conn EXCEPT ![c].tcp = FALSE, ![c].released = conn[c].st = "piped",
                            ![c].st = IF @ = "piped" /\ ~conn[c].stream THEN "ended" ELSE @]
    /\ UNCHANGED <<phase, bound, key, later, kept>>

StreamCloses(c) ==
    /\ conn[c].st = "piped" /\ conn[c].stream
    /\ Release(c)
    /\ conn' = [conn EXCEPT ![c].stream = FALSE, ![c].released = TRUE,
                            ![c].st = IF conn[c].tcp THEN @ ELSE "ended"]
    /\ UNCHANGED <<phase, bound, key, later, kept>>

\* The connection's number is used again.
Again(c) ==
    /\ conn[c].st = "ended" /\ conn' = [conn EXCEPT ![c] = Idle]
    /\ UNCHANGED <<phase, bound, key, active, later, kept>>

Next ==
    \/ Start \/ Close
    \/ \E k \in Keys : Ask(k)
    \/ \E c \in Conns :
          \/ \E k \in Keys : Connect(c, k)
          \/ \E s \in Slots : Stray(c, s)
          \/ Opened(c) \/ OpenFails(c) \/ TcpCloses(c) \/ StreamCloses(c) \/ Again(c)

Spec == Init /\ [][Next]_vars

-----------------------------------------------------------------------------
(* Properties *)

\* What a slot is said to carry is what it carries: the count that keeps a slot from
\* being reused is the number of connections whose two ends are both open, whatever the
\* order of their close events.
Carried(s) == {c \in Conns : conn[c].st = "piped" /\ conn[c].at = s /\ ~conn[c].released}
ActiveExact == \A s \in Slots : active[s] = Cardinality(Carried(s))

\* A slot is not given to another key while it carries a connection.
CarriedKeepsSlot == [][\A s \in bound : Carried(s) # {} => key'[s] = key[s]]_vars

\* No two slots of the pool point at the same key: the pool does not run dry on one host.
OneSlotPerKey == \A s, t \in bound : s # t /\ key[s] # None => key[s] # key[t]

\* A pool with room for every key sends each connection where its address was given out
\* for, however long the caller kept the address.
Room == phase = "ready" /\ Cardinality(Own) <= Cardinality(bound)
RightTarget == \A c \in Conns : conn[c].st \in {"opening", "piped"} /\ conn[c].want # None
                                => conn[c].key = conn[c].want
RoomMeansRight == Room => RightTarget

\* The landing ports (dialer.ts: localPortFor, onConn): every slot knows its
\* connections, a key has one slot, an address leads where it was given out for,
\* and a slot that carries streams is not taken away.
SlotsTrue ==
    /\ [](TypeOK /\ ActiveExact /\ OneSlotPerKey /\ RoomMeansRight)
    /\ CarriedKeepsSlot
=============================================================================
