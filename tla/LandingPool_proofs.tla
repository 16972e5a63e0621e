------------------------- MODULE LandingPool_proofs --------------------------
(***************************************************************************)
(* Proofs about LandingPool, for any keys, ports and connections: the       *)
(* counts of the slots are exact, a key has one slot, a slot keeps its key  *)
(* while it carries a stream, and a pool with room for every key sends each *)
(* connection where its address was given out for.                          *)
(***************************************************************************)
EXTENDS LandingPool, FiniteSetTheorems, TLAPS

ConnRecords ==
  [st : {"idle", "opening", "piped", "ended"}, at : Slots \cup {None}, key : Own \cup {None},
   want : Keys \cup {None}, tcp : BOOLEAN, stream : BOOLEAN, released : BOOLEAN]

\* A connection under way is on a slot that was given to a key.
OnKeyedSlot == \A c \in Conns :
  conn[c].st \in {"opening", "piped"} => conn[c].at \in Slots /\ key[conn[c].at] # None

\* A piped connection is counted off with the first of its two ends.
ReleasedOnce == \A c \in Conns :
  /\ conn[c].st \in {"idle", "opening"} => ~conn[c].released
  /\ conn[c].st = "piped" => (conn[c].released <=> ~(conn[c].tcp /\ conn[c].stream))

\* Before start() nobody was given an address.
Fresh == phase = "binding" =>
  /\ bound = {} /\ later = {} /\ \A s \in Slots : key[s] = None
  /\ \A k \in Keys : kept[k] = None
  /\ \A c \in Conns : conn[c].st = "idle"

\* With room for every key an address that was given out stays true.
KeptTrue == Room => \A k \in Keys : kept[k] # None => kept[k] \in bound /\ key[kept[k]] = k

IInv == /\ TypeOK /\ ActiveExact /\ OneSlotPerKey /\ RoomMeansRight
        /\ OnKeyedSlot /\ ReleasedOnce /\ Fresh /\ KeptTrue

-----------------------------------------------------------------------------
(* The pool *)

\* Own keys have no slot only in a pool that has none to spare.
LEMMA RoomForKey ==
  ASSUME PoolAssumption, TypeOK, OneSlotPerKey, Room, NEW k \in Own,
         \A s \in bound : key[s] # k /\ key[s] # None
  PROVE  FALSE
<1> DEFINE f == [s \in bound |-> key[s]]
           T == Own \ {k}
<1>1. bound \in SUBSET Slots /\ IsFiniteSet(bound) /\ Cardinality(bound) \in Nat
  BY FS_Subset, FS_CardinalityType DEF PoolAssumption, TypeOK
<1>2. IsFiniteSet(T) /\ Cardinality(T) = Cardinality(Own) - 1 /\ Cardinality(Own) \in Nat
  BY FS_RemoveElement, FS_CardinalityType DEF PoolAssumption
<1>3. f \in [bound -> T]
  BY <1>1 DEF TypeOK
<1>4. Cardinality(T) < Cardinality(bound)
  <2> HIDE DEF T
  <2>1. QED  BY <1>1, <1>2 DEF Room
<1>5. PICK x \in bound, y \in bound : x # y /\ f[x] = f[y]
  <2> HIDE DEF f, T
  <2>1. QED  BY <1>1, <1>2, <1>3, <1>4, FS_PigeonHole
<1>6. QED  BY <1>5 DEF OneSlotPerKey

\* What localPortFor may do: a slot of the pool gets the key, and had it already
\* or carried nothing and was free, unless there is no room.
LEMMA AskStep ==
  ASSUME PoolAssumption, IInv, NEW k \in Keys, Ask(k)
  PROVE  \/ key' = key /\ later' = later /\ kept' = [kept EXCEPT ![k] = None]
         \/ \E s \in bound :
              /\ phase = "ready" /\ k \in Own /\ kept' = [kept EXCEPT ![k] = s]
              /\ key' = [key EXCEPT ![s] = k]
              /\ later' = {p \in later : p[1] # s} \cup {<<t, s>> : t \in bound \ {s}}
              /\ \/ key[s] = k
                 \/ Carried(s) = {} /\ \A t \in bound : key[t] # k
              /\ Room => key[s] \in {k, None}
<1>1. CASE phase = "ready" /\ k \in Own /\ SlotFor(k) # {}
  <2>1. PICK s \in SlotFor(k) :
          /\ key' = [key EXCEPT ![s] = k] /\ kept' = [kept EXCEPT ![k] = s]
          /\ later' = {p \in later : p[1] # s} \cup {<<t, s>> : t \in bound \ {s}}
    BY <1>1 DEF Ask
  <2>2. CASE key[s] = k /\ s \in bound
    BY <1>1, <2>1, <2>2
  <2>3. CASE s \in bound /\ key[s] = None /\ \A t \in bound : key[t] # k
    <3>1. Carried(s) = {}
      BY <2>3 DEF IInv, OnKeyedSlot, Carried
    <3>2. QED  BY <1>1, <2>1, <2>3, <3>1
  <2>4. CASE s \in LruIdle /\ \A t \in bound : key[t] # k /\ key[t] # None
    <3>1. s \in bound /\ active[s] = 0 /\ s \in Slots
      BY <2>4 DEF LruIdle, First, IInv, TypeOK
    <3>2. Carried(s) = {}
      <4>1. Carried(s) \in SUBSET Conns
        BY DEF Carried
      <4>2. IsFiniteSet(Carried(s))
        BY <4>1, FS_Subset DEF PoolAssumption
      <4>3. QED  BY <3>1, <4>2, FS_EmptySet DEF IInv, ActiveExact
    <3>3. ~Room
      BY <1>1, <2>4, RoomForKey DEF IInv
    <3>4. QED  BY <1>1, <2>1, <2>4, <3>1, <3>2, <3>3
  <2>5. QED  BY <2>1, <2>2, <2>3, <2>4 DEF SlotFor
<1>2. CASE ~(phase = "ready" /\ k \in Own /\ SlotFor(k) # {})
  BY <1>2 DEF Ask
<1>3. QED  BY <1>1, <1>2

LEMMA AskKeeps ==
  ASSUME PoolAssumption, IInv, NEW k \in Keys, Ask(k)
  PROVE  IInv'
<1> USE DEF IInv
<1>1. UNCHANGED <<phase, bound, active, conn>> /\ ActiveExact'
  BY DEF Ask, ActiveExact, Carried
<1>2. CASE key' = key /\ later' = later /\ kept' = [kept EXCEPT ![k] = None]
  <2>1. TypeOK' /\ Fresh' /\ KeptTrue'
    BY <1>1, <1>2 DEF TypeOK, Fresh, KeptTrue, Room
  <2>2. OneSlotPerKey' /\ RoomMeansRight' /\ OnKeyedSlot' /\ ReleasedOnce'
    BY <1>1, <1>2 DEF OneSlotPerKey, RoomMeansRight, Room, RightTarget, OnKeyedSlot, ReleasedOnce
  <2>3. QED  BY <1>1, <2>1, <2>2
<1>3. ASSUME NEW s \in bound, phase = "ready", k \in Own, kept' = [kept EXCEPT ![k] = s],
             key' = [key EXCEPT ![s] = k],
             later' = {p \in later : p[1] # s} \cup {<<t, s>> : t \in bound \ {s}},
             \/ key[s] = k
             \/ Carried(s) = {} /\ \A t \in bound : key[t] # k,
             Room => key[s] \in {k, None}
      PROVE  IInv'
  <2>0. s \in Slots /\ key'[s] = k /\ kept'[k] = s /\ k # None
        /\ (\A t \in Slots : t # s => key'[t] = key[t])
        /\ (\A j \in Keys : j # k => kept'[j] = kept[j])
    BY <1>3 DEF TypeOK, PoolAssumption
  <2>1. TypeOK'
    <3>1. later' \subseteq bound \X bound
      BY <1>3 DEF TypeOK
    <3>2. \A t, u \in bound : <<t, u>> \in later' => <<u, t>> \notin later'
      BY <1>3 DEF TypeOK
    <3>3. key' \in [Slots -> Own \cup {None}] /\ kept' \in [Keys -> Slots \cup {None}]
      BY <1>3, <2>0 DEF TypeOK
    <3>4. QED  BY <1>1, <3>1, <3>2, <3>3 DEF TypeOK
  <2>2. OneSlotPerKey'
    BY <1>1, <1>3, <2>0 DEF OneSlotPerKey, TypeOK
  <2>3. OnKeyedSlot'
    BY <1>1, <2>0 DEF OnKeyedSlot
  <2>4. RoomMeansRight' /\ ReleasedOnce' /\ Fresh'
    BY <1>1, <1>3 DEF RoomMeansRight, Room, RightTarget, ReleasedOnce, Fresh
  <2>5. KeptTrue'
    <3>1. SUFFICES ASSUME Room, NEW j \in Keys, kept'[j] # None
                   PROVE  kept'[j] \in bound /\ key'[kept'[j]] = j
      BY <1>1 DEF KeptTrue, Room
    <3>2. CASE j = k
      BY <1>3, <2>0, <3>2
    <3>3. CASE j # k
      <4>1. kept'[j] = kept[j] /\ kept[j] \in bound /\ key[kept[j]] = j
        BY <2>0, <3>1, <3>3 DEF KeptTrue
      <4>2. j # None
        BY DEF Keys, PoolAssumption
      <4>3. kept[j] # s
        BY <1>3, <3>1, <3>3, <4>1, <4>2
      <4>4. QED  BY <2>0, <4>1, <4>3 DEF TypeOK
    <3>4. QED  BY <3>2, <3>3
  <2>6. QED  BY <1>1, <2>1, <2>2, <2>3, <2>4, <2>5
<1>4. QED  BY <1>2, <1>3, AskStep

-----------------------------------------------------------------------------
(* The connections *)

\* One connection is written: the slots it is, and is not, carried by.
LEMMA CarriedStep ==
  ASSUME PoolAssumption, TypeOK, ActiveExact, NEW c \in Conns, NEW v \in ConnRecords,
         conn' = [conn EXCEPT ![c] = v]
  PROVE  /\ \A d \in Conns : conn'[d] = IF d = c THEN v ELSE conn[d]
         /\ \A s \in Slots :
              LET was == c \in Carried(s)
                  is == v.st = "piped" /\ v.at = s /\ ~v.released
              IN  Cardinality(Carried(s)') =
                    IF was = is THEN active[s] ELSE IF is THEN active[s] + 1 ELSE active[s] - 1
<1>1. \A d \in Conns : conn'[d] = IF d = c THEN v ELSE conn[d]
  BY DEF TypeOK
<1>2. ASSUME NEW s \in Slots
      PROVE  LET was == c \in Carried(s)
                 is == v.st = "piped" /\ v.at = s /\ ~v.released
             IN  Cardinality(Carried(s)') =
                   IF was = is THEN active[s] ELSE IF is THEN active[s] + 1 ELSE active[s] - 1
  <2> DEFINE was == c \in Carried(s)
             is == v.st = "piped" /\ v.at = s /\ ~v.released
  <2>1. Carried(s) \in SUBSET Conns /\ active[s] = Cardinality(Carried(s)) /\ active[s] \in Int
    BY DEF Carried, ActiveExact, TypeOK
  <2>2. IsFiniteSet(Carried(s))
    BY <2>1, FS_Subset DEF PoolAssumption
  <2>3. CASE was = is
    <3>1. Carried(s)' = Carried(s)
      BY <1>1, <2>3 DEF Carried
    <3>2. QED  BY <2>1, <2>3, <3>1
  <2>4. CASE ~was /\ is
    <3>1. Carried(s)' = Carried(s) \cup {c}
      BY <1>1, <2>4 DEF Carried
    <3>2. Cardinality(Carried(s) \cup {c}) = Cardinality(Carried(s)) + 1
      BY <2>2, <2>4, FS_AddElement
    <3>3. QED  BY <2>1, <2>4, <3>1, <3>2
  <2>5. CASE was /\ ~is
    <3>1. Carried(s)' = Carried(s) \ {c}
      BY <1>1, <2>5 DEF Carried
    <3>2. Cardinality(Carried(s) \ {c}) = Cardinality(Carried(s)) - 1
      BY <2>2, <2>5, FS_RemoveElement
    <3>3. QED  BY <2>1, <2>5, <3>1, <3>2
  <2>6. QED  BY <2>3, <2>4, <2>5
<1>3. QED  BY <1>1, <1>2

\* A step of one connection keeps the invariant if it is counted where it is
\* carried, and stands on a slot with a key, for the key it was meant for.
LEMMA ConnKeeps ==
  ASSUME PoolAssumption, IInv, NEW c \in Conns, NEW v \in ConnRecords,
         conn' = [conn EXCEPT ![c] = v], UNCHANGED <<phase, bound, key, later, kept>>,
         phase # "binding",
         active' \in [Slots -> Int],
         \A s \in Slots : active'[s] = Cardinality(Carried(s)'),
         v.st \in {"opening", "piped"} => v.at \in Slots /\ key[v.at] # None,
         v.st \in {"idle", "opening"} => ~v.released,
         v.st = "piped" => (v.released <=> ~(v.tcp /\ v.stream)),
         Room /\ v.st \in {"opening", "piped"} /\ v.want # None => v.key = v.want
  PROVE  IInv'
<1> USE DEF IInv
<1>1. \A d \in Conns : conn'[d] = IF d = c THEN v ELSE conn[d]
  BY CarriedStep
<1>2. ActiveExact'
  BY DEF ActiveExact
<1>3. TypeOK'
  <2>1. conn' \in [Conns -> ConnRecords]
    BY DEF TypeOK, ConnRecords
  <2>2. ASSUME NEW s \in Slots PROVE active'[s] \in 0..Cardinality(Conns)
    <3>1. Carried(s)' \in SUBSET Conns
      BY DEF Carried
    <3>2. IsFiniteSet(Carried(s)') /\ Cardinality(Carried(s)') <= Cardinality(Conns)
      BY <3>1, FS_Subset DEF PoolAssumption
    <3>3. QED  BY <3>2, FS_CardinalityType DEF PoolAssumption
  <2>3. active' \in [Slots -> 0..Cardinality(Conns)]
    BY <2>2
  <2>4. QED  BY <2>1, <2>3 DEF TypeOK, ConnRecords
<1>4. OneSlotPerKey' /\ Fresh' /\ KeptTrue'
  BY DEF OneSlotPerKey, Fresh, KeptTrue, Room
<1>5. RoomMeansRight'
  BY <1>1 DEF RoomMeansRight, Room, RightTarget
<1>6. OnKeyedSlot' /\ ReleasedOnce'
  BY <1>1 DEF OnKeyedSlot, ReleasedOnce
<1>7. QED  BY <1>2, <1>3, <1>4, <1>5, <1>6

\* onConn: a connection arrives where its caller was told to go, or astray.
LEMMA AcceptKeeps ==
  ASSUME PoolAssumption, IInv, NEW c \in Conns, NEW s \in bound, NEW k \in Keys \cup {None},
         conn[c].st = "idle", Accepts(c, s, k), UNCHANGED <<phase, bound, key, active, later, kept>>,
         k # None => kept[k] = s
  PROVE  IInv'
<1> DEFINE a == IF key[s] = None THEN "ended" ELSE "opening"
           v == [st |-> a, at |-> s, key |-> key[s], want |-> k, tcp |-> key[s] # None,
                 stream |-> FALSE, released |-> FALSE]
<1>0. phase # "binding" /\ s \in Slots /\ key[s] \in Own \cup {None}
  BY DEF IInv, Fresh, TypeOK
<1>1. conn' = [conn EXCEPT ![c] = v]
  BY DEF Accepts
<1>2. v \in ConnRecords
  BY <1>0 DEF ConnRecords
<1>3. /\ v.st \in {"ended", "opening"} /\ v.at = s /\ v.key = key[s] /\ v.want = k /\ ~v.released
      /\ v.st = "opening" => key[s] # None
  OBVIOUS
<1> HIDE DEF v
<1>4. \A t \in Slots : c \notin Carried(t)
  BY DEF Carried
<1>5. \A t \in Slots : active'[t] = Cardinality(Carried(t)')
  <2> TAKE t \in Slots
  <2>1. Cardinality(Carried(t)') =
          IF (c \in Carried(t)) = (v.st = "piped" /\ v.at = t /\ ~v.released) THEN active[t]
          ELSE IF v.st = "piped" /\ v.at = t /\ ~v.released THEN active[t] + 1 ELSE active[t] - 1
    BY <1>1, <1>2, CarriedStep DEF IInv
  <2>2. QED  BY <1>3, <1>4, <2>1
<1>6. Room /\ k # None => key[s] = k
  BY <1>0 DEF IInv, KeptTrue, PoolAssumption
<1>7. active' \in [Slots -> Int]
  BY DEF IInv, TypeOK
<1>8. QED  BY <1>0, <1>1, <1>2, <1>3, <1>5, <1>6, <1>7, ConnKeeps

\* One more, or one fewer, connection is counted on a slot.
LEMMA CountStep ==
  ASSUME TypeOK, NEW s \in Slots
  PROVE  /\ active \in [Slots -> Int]
         /\ [active EXCEPT ![s] = @ + 1] \in [Slots -> Int]
         /\ [active EXCEPT ![s] = @ - 1] \in [Slots -> Int]
  BY DEF TypeOK

\* The steps of a connection that is under way.
LEMMA UnderWayKeeps ==
  ASSUME PoolAssumption, IInv, NEW c \in Conns,
         Opened(c) \/ OpenFails(c) \/ TcpCloses(c) \/ StreamCloses(c) \/ Again(c)
  PROVE  IInv'
<1> DEFINE o == conn[c]
<1>0. /\ o \in ConnRecords /\ TypeOK
      /\ o.st \in {"opening", "piped"} => o.at \in Slots /\ key[o.at] # None
      /\ o.st \in {"idle", "opening"} => ~o.released
      /\ o.st = "piped" => (o.released <=> ~(o.tcp /\ o.stream))
      /\ Room /\ o.st \in {"opening", "piped"} /\ o.want # None => o.key = o.want
      /\ o.st # "idle" => phase # "binding"
      /\ \A s \in Slots : c \in Carried(s) <=> o.st = "piped" /\ o.at = s /\ ~o.released
      /\ active \in [Slots -> Int]
  BY DEF IInv, TypeOK, ConnRecords, OnKeyedSlot, ReleasedOnce, RoomMeansRight, RightTarget, Fresh, Carried
<1>1. ASSUME NEW v \in ConnRecords, conn' = [conn EXCEPT ![c] = v],
             UNCHANGED <<phase, bound, key, later, kept>>, o.st # "idle",
             v.at = o.at, v.key = o.key, v.want = o.want,
             v.st \in {"opening", "piped"} => o.st \in {"opening", "piped"},
             v.st \in {"idle", "opening"} => ~v.released,
             v.st = "piped" => (v.released <=> ~(v.tcp /\ v.stream)),
             active' = IF (o.st = "piped" /\ ~o.released) = (v.st = "piped" /\ ~v.released) THEN active
                       ELSE IF o.st = "piped" /\ ~o.released
                            THEN [active EXCEPT ![o.at] = @ - 1] ELSE [active EXCEPT ![o.at] = @ + 1]
      PROVE  IInv'
  <2> DEFINE was == o.st = "piped" /\ ~o.released
             is == v.st = "piped" /\ ~v.released
  <2>1. was \/ is => o.at \in Slots
    BY <1>0, <1>1
  <2>2. active' \in [Slots -> Int]
    BY <1>0, <1>1, <2>1, CountStep
  <2>3. ASSUME NEW s \in Slots PROVE active'[s] = Cardinality(Carried(s)')
    <3>1. Cardinality(Carried(s)') =
            IF (c \in Carried(s)) = (v.st = "piped" /\ v.at = s /\ ~v.released) THEN active[s]
            ELSE IF v.st = "piped" /\ v.at = s /\ ~v.released THEN active[s] + 1 ELSE active[s] - 1
      BY <1>1, CarriedStep DEF IInv
    <3>2. CASE s = o.at
      BY <1>0, <1>1, <3>1, <3>2
    <3>3. CASE s # o.at
      <4>1. active'[s] = active[s]
        BY <1>0, <1>1, <3>3
      <4>2. QED  BY <1>0, <1>1, <3>1, <3>3, <4>1
    <3>4. QED  BY <3>2, <3>3
  <2>4. QED  BY <1>0, <1>1, <2>2, <2>3, ConnKeeps
<1>2. CASE Opened(c)
  <2>1. CASE o.tcp
    <3> DEFINE u == [o EXCEPT !.st = "piped"]
               v == [u EXCEPT !.stream = TRUE]
    <3>1. conn' = [conn EXCEPT ![c] = v] /\ active' = [active EXCEPT ![o.at] = @ + 1]
          /\ UNCHANGED <<phase, bound, key, later, kept>> /\ o.st = "opening"
      BY <1>2, <2>1 DEF Opened
    <3>2. u \in ConnRecords /\ u.st = "piped" /\ u.at = o.at /\ u.key = o.key /\ u.want = o.want
          /\ u.tcp = o.tcp /\ u.released = o.released
      BY <1>0 DEF ConnRecords
    <3> HIDE DEF u
    <3>3. v \in ConnRecords /\ v.st = u.st /\ v.at = u.at /\ v.key = u.key /\ v.want = u.want
          /\ v.tcp = u.tcp /\ v.released = u.released /\ v.stream = TRUE
      BY <3>2 DEF ConnRecords
    <3> HIDE DEF v
    <3>4. QED  BY <1>0, <1>1, <2>1, <3>1, <3>2, <3>3
  <2>2. CASE ~o.tcp
    <3> DEFINE v == [o EXCEPT !.st = "ended"]
    <3>1. conn' = [conn EXCEPT ![c] = v] /\ active' = active
          /\ UNCHANGED <<phase, bound, key, later, kept>> /\ o.st = "opening"
      BY <1>2, <2>2 DEF Opened
    <3>2. v \in ConnRecords /\ v.st = "ended" /\ v.at = o.at /\ v.key = o.key /\ v.want = o.want
      BY <1>0 DEF ConnRecords
    <3> HIDE DEF v
    <3>3. QED  BY <1>1, <3>1, <3>2
  <2>3. QED  BY <2>1, <2>2
<1>3. CASE OpenFails(c)
  <2> DEFINE u == [o EXCEPT !.st = "ended"]
             v == [u EXCEPT !.tcp = FALSE]
  <2>1. conn' = [conn EXCEPT ![c] = v] /\ active' = active
        /\ UNCHANGED <<phase, bound, key, later, kept>> /\ o.st = "opening"
    BY <1>3 DEF OpenFails
  <2>2. u \in ConnRecords /\ u.st = "ended" /\ u.at = o.at /\ u.key = o.key /\ u.want = o.want
    BY <1>0 DEF ConnRecords
  <2> HIDE DEF u
  <2>3. v \in ConnRecords /\ v.st = u.st /\ v.at = u.at /\ v.key = u.key /\ v.want = u.want
    BY <2>2 DEF ConnRecords
  <2> HIDE DEF v
  <2>4. QED  BY <1>1, <2>1, <2>2, <2>3
<1>4. CASE TcpCloses(c)
  <2> DEFINE st == IF o.st = "piped" /\ ~o.stream THEN "ended" ELSE o.st
             gone == o.st = "piped"
             u == [o EXCEPT !.tcp = FALSE]
             w == [u EXCEPT !.released = gone]
             v == [w EXCEPT !.st = st]
  <2>1. /\ conn' = [conn EXCEPT ![c] = v] /\ o.tcp /\ o.st \in {"opening", "piped"}
        /\ active' = IF o.st = "piped" /\ ~o.released THEN [active EXCEPT ![o.at] = @ - 1] ELSE active
        /\ UNCHANGED <<phase, bound, key, later, kept>>
    BY <1>4 DEF TcpCloses, Release
  <2>2. u \in ConnRecords /\ u.st = o.st /\ u.at = o.at /\ u.key = o.key /\ u.want = o.want
        /\ u.tcp = FALSE /\ u.stream = o.stream
    BY <1>0 DEF ConnRecords
  <2> HIDE DEF u
  <2>3. gone \in BOOLEAN /\ st \in {"opening", "piped", "ended"}
    BY <2>1
  <2>4. w \in ConnRecords /\ w.at = u.at /\ w.key = u.key /\ w.want = u.want
        /\ w.tcp = u.tcp /\ w.stream = u.stream /\ w.released = gone
    BY <2>2, <2>3 DEF ConnRecords
  <2> HIDE DEF w
  <2>5. v \in ConnRecords /\ v.at = w.at /\ v.key = w.key /\ v.want = w.want
        /\ v.tcp = w.tcp /\ v.stream = w.stream /\ v.released = w.released /\ v.st = st
    BY <2>3, <2>4 DEF ConnRecords
  <2> HIDE DEF v
  <2>6. /\ v.st \in {"opening", "piped"} => o.st \in {"opening", "piped"}
        /\ v.st \in {"idle", "opening"} => ~v.released
        /\ v.st = "piped" => (v.released <=> ~(v.tcp /\ v.stream))
        /\ v.at = o.at /\ v.key = o.key /\ v.want = o.want
    BY <2>1, <2>2, <2>4, <2>5
  <2>7. /\ ~(v.st = "piped" /\ ~v.released)
        /\ o.st # "idle"
    BY <2>1, <2>4, <2>5
  <2>8. QED  BY <1>1, <2>1, <2>5, <2>6, <2>7
<1>5. CASE StreamCloses(c)
  <2> DEFINE st == IF o.tcp THEN o.st ELSE "ended"
             u == [o EXCEPT !.stream = FALSE]
             w == [u EXCEPT !.released = TRUE]
             v == [w EXCEPT !.st = st]
  <2>1. /\ conn' = [conn EXCEPT ![c] = v] /\ o.stream /\ o.st = "piped"
        /\ active' = IF ~o.released THEN [active EXCEPT ![o.at] = @ - 1] ELSE active
        /\ UNCHANGED <<phase, bound, key, later, kept>>
    BY <1>5 DEF StreamCloses, Release
  <2>2. u \in ConnRecords /\ u.st = o.st /\ u.at = o.at /\ u.key = o.key /\ u.want = o.want
        /\ u.tcp = o.tcp /\ u.stream = FALSE
    BY <1>0 DEF ConnRecords
  <2> HIDE DEF u
  <2>3. st \in {"piped", "ended"}
    BY <2>1
  <2>4. w \in ConnRecords /\ w.at = u.at /\ w.key = u.key /\ w.want = u.want
        /\ w.tcp = u.tcp /\ w.stream = u.stream /\ w.released
    BY <2>2 DEF ConnRecords
  <2> HIDE DEF w
  <2>5. v \in ConnRecords /\ v.at = w.at /\ v.key = w.key /\ v.want = w.want
        /\ v.tcp = w.tcp /\ v.stream = w.stream /\ v.released /\ v.st = st
    BY <2>3, <2>4 DEF ConnRecords
  <2> HIDE DEF v
  <2>6. /\ v.st \in {"opening", "piped"} => o.st \in {"opening", "piped"}
        /\ v.st \in {"idle", "opening"} => ~v.released
        /\ v.st = "piped" => (v.released <=> ~(v.tcp /\ v.stream))
        /\ v.at = o.at /\ v.key = o.key /\ v.want = o.want
    BY <2>1, <2>2, <2>3, <2>4, <2>5
  <2>7. ~(v.st = "piped" /\ ~v.released) /\ o.st # "idle"
    BY <2>1, <2>5
  <2>8. QED  BY <1>1, <2>1, <2>5, <2>6, <2>7
<1>6. CASE Again(c)
  <2>1. Idle \in ConnRecords /\ Idle.st = "idle" /\ ~Idle.released
    BY DEF Idle, ConnRecords
  <2>2. conn' = [conn EXCEPT ![c] = Idle] /\ UNCHANGED <<phase, bound, key, active, later, kept>>
        /\ o.st = "ended"
    BY <1>6 DEF Again
  <2>3. ASSUME NEW s \in Slots PROVE active'[s] = Cardinality(Carried(s)')
    <3>1. Cardinality(Carried(s)') =
            IF (c \in Carried(s)) = (Idle.st = "piped" /\ Idle.at = s /\ ~Idle.released) THEN active[s]
            ELSE IF Idle.st = "piped" /\ Idle.at = s /\ ~Idle.released
                 THEN active[s] + 1 ELSE active[s] - 1
      BY <2>1, <2>2, CarriedStep DEF IInv
    <3>2. QED  BY <1>0, <2>1, <2>2, <3>1
  <2>4. QED  BY <1>0, <2>1, <2>2, <2>3, ConnKeeps
<1>7. QED  BY <1>2, <1>3, <1>4, <1>5, <1>6

-----------------------------------------------------------------------------
(* Theorems *)

LEMMA InitInv == PoolAssumption /\ Init => IInv
<1> SUFFICES ASSUME PoolAssumption, Init PROVE IInv
  OBVIOUS
<1>1. Cardinality(Conns) \in Nat
  BY FS_CardinalityType DEF PoolAssumption
<1>2. TypeOK
  BY <1>1 DEF Init, TypeOK, Idle
<1>3. ActiveExact
  <2>1. \A s \in Slots : Carried(s) = {}
    BY DEF Init, Idle, Carried
  <2>2. QED  BY <2>1, FS_EmptySet DEF Init, ActiveExact
<1>4. QED
  BY <1>2, <1>3 DEF Init, Idle, IInv, OneSlotPerKey, RoomMeansRight, Room, OnKeyedSlot, ReleasedOnce,
     Fresh, KeptTrue

LEMMA Inductive ==
  ASSUME PoolAssumption, IInv, [Next]_vars
  PROVE  IInv'
<1>1. CASE Start
  <2>1. /\ phase = "binding" /\ phase' = "ready" /\ bound' \in SUBSET Slots
        /\ UNCHANGED <<key, active, later, kept, conn>> /\ later = {}
    BY <1>1 DEF Start, IInv, Fresh
  <2>2. TypeOK' /\ ActiveExact'
    BY <2>1 DEF IInv, TypeOK, ActiveExact, Carried
  <2>3. OneSlotPerKey' /\ KeptTrue'
    BY <2>1 DEF IInv, Fresh, OneSlotPerKey, KeptTrue
  <2>4. RoomMeansRight' /\ OnKeyedSlot' /\ ReleasedOnce' /\ Fresh'
    BY <2>1 DEF IInv, Fresh, RoomMeansRight, RightTarget, OnKeyedSlot, ReleasedOnce
  <2>5. QED  BY <2>2, <2>3, <2>4 DEF IInv
<1>2. CASE Close
  <2>1. /\ phase' = "closed" /\ bound' = {} /\ later' = {} /\ UNCHANGED <<key, active, kept, conn>>
    BY <1>2 DEF Close
  <2>2. TypeOK' /\ ActiveExact'
    BY <2>1 DEF IInv, TypeOK, ActiveExact, Carried
  <2>3. QED
    BY <2>1, <2>2 DEF IInv, OneSlotPerKey, RoomMeansRight, Room, KeptTrue, Fresh, OnKeyedSlot, ReleasedOnce
<1>3. ASSUME NEW k \in Keys, Ask(k) PROVE IInv'
  BY <1>3, AskKeeps
<1>4. ASSUME NEW c \in Conns, NEW k \in Keys, Connect(c, k) PROVE IInv'
  BY <1>4, AcceptKeeps DEF Connect
<1>5. ASSUME NEW c \in Conns, NEW s \in Slots, Stray(c, s) PROVE IInv'
  BY <1>5, AcceptKeeps DEF Stray
<1>6. CASE UNCHANGED vars
  BY <1>6 DEF vars, IInv, TypeOK, ActiveExact, Carried, OneSlotPerKey, RoomMeansRight, Room, RightTarget,
     OnKeyedSlot, ReleasedOnce, Fresh, KeptTrue
<1>7. QED  BY <1>1, <1>2, <1>3, <1>4, <1>5, <1>6, UnderWayKeeps DEF Next

\* The invariant holds in every reachable state.
THEOREM Invariance ==
  ASSUME PoolAssumption
  PROVE  Spec => []IInv
<1>1. QED  BY InitInv, Inductive, PTL DEF Spec

\* Whatever is asked for, connects and closes in whichever order, the slots'
\* counts are exact, a key has one slot, a slot keeps its key while it carries a
\* stream, and with room for every key no connection goes to another host than
\* its caller was told (dialer.ts: localPortFor, onConn).
THEOREM SlotsCorrect ==
  ASSUME PoolAssumption
  PROVE  Spec => SlotsTrue
<1> DEFINE K == \A s \in bound : Carried(s) # {} => key'[s] = key[s]
<1>1. IInv => TypeOK /\ ActiveExact /\ OneSlotPerKey /\ RoomMeansRight
  BY DEF IInv
<1>2. ASSUME IInv, [Next]_vars PROVE [K]_vars
  <2>1. ASSUME key' = key PROVE K
    BY <2>1
  <2>2. ASSUME NEW k \in Keys, Ask(k) PROVE K
    <3>1. CASE key' = key
      BY <3>1
    <3>2. ASSUME NEW s \in bound, key' = [key EXCEPT ![s] = k], key[s] = k \/ Carried(s) = {}
          PROVE  K
      BY <1>2, <3>2 DEF IInv, TypeOK
    <3>3. QED  BY <1>2, <2>2, <3>1, <3>2, AskStep
  <2>3. QED
    BY <1>2, <2>1, <2>2
    DEF Next, vars, Start, Close, Connect, Stray, Opened, OpenFails, TcpCloses, StreamCloses, Again
<1>3. QED
  BY <1>1, <1>2, Invariance, PTL DEF Spec, SlotsTrue, CarriedKeepsSlot
=============================================================================
