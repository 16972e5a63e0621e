---------------------------- MODULE RelayStream ----------------------------
(***************************************************************************)
(* The bytes of the streams of one worker's connection, from end to end:    *)
(* the relay server (src/src/net/relay/server.ts, onManagerConn to          *)
(* forgetStream) between the peers, local connections of the Manager or     *)
(* streams a dialer dialled, and the worker's relay client                  *)
(* (src/src/net/relay/client.ts, onOpenRequest to closeLocal) in front of   *)
(* the worker's local sockets.                                              *)
(*                                                                         *)
(* "up" runs from the peer to the local socket, "down" back.  The two       *)
(* WebSocket directions are queues of frames; a chunk is its direction and  *)
(* its number.  A write may report that a buffer is full only after it took *)
(* the chunk.  Registration and limits per port are in RelayPorts.          *)
(***************************************************************************)
EXTENDS Naturals, Sequences, SequencesExt

CONSTANTS
    Streams,    \* ids the relay assigns
    Dialled,    \* those whose peer is a dialer, the others a local connection
    QueueMax,   \* queueMaxBytes, in chunks
    Loads,      \* what may happen to the connection, one is chosen: streams in
                \* use; chunks each of their ends sends (a bound); slow, what may
                \* fill up
    NoChunk

Dirs == {"up", "down"}

Assumption ==
    /\ Dialled \subseteq Streams /\ QueueMax \in Nat
    /\ Loads \subseteq [streams : SUBSET Streams, chunks : [Dirs -> Nat],
                       slow : SUBSET {"peer", "wire", "local", "uplink"}]

VARIABLES
    load,       \* the member of Loads
    relay,      \* MuxStream: state, paused, queued, and dial.pending as dam
    held,       \* the streams whose peer socket is paused for reading
    full,       \* the worker connection's socket reported a full buffer
    toWorker, toRelay,      \* frames under way
    worker,     \* LocalStream: state, paused, queued; tcp.pause() as held;
                \* wait: once('drain') is registered
    over,       \* overWater()
    flusher,    \* flushTimer is running
    sent,       \* chunks each end has sent
    got         \* what each end has received

relayVars  == <<relay, held, full>>
workerVars == <<worker, over, flusher>>
vars == <<load, relay, held, full, toWorker, toRelay, worker, over, flusher, sent, got>>

Chunk  == [dir : {"up", "down"}, n : Nat \ {0}]
Frames == [type : {"OPEN", "ACK", "NACK", "DATA", "CLOSE"}, id : Streams,
           chunk : Chunk \cup {NoChunk}]

NewRelay  == [state |-> "none", paused |-> FALSE, queued |-> <<>>, dam |-> <<>>]
NewWorker == [state |-> "none", paused |-> FALSE, queued |-> <<>>, held |-> FALSE,
              wait |-> FALSE]

TypeOK ==
    /\ load \in Loads
    /\ relay \in [Streams -> [state : {"none", "opening", "open", "closed"},
                              paused : BOOLEAN, queued : Seq(Chunk), dam : Seq(Chunk)]]
    /\ held \subseteq Streams \ Dialled /\ full \in BOOLEAN
    /\ toWorker \in Seq(Frames) /\ toRelay \in Seq(Frames)
    /\ worker \in [Streams -> [state : {"none", "connecting", "open", "closed"},
                               paused : BOOLEAN, queued : Seq(Chunk), held : BOOLEAN,
                               wait : BOOLEAN]]
    /\ over \in BOOLEAN /\ flusher \in BOOLEAN
    /\ sent \in [Dirs -> [Streams -> Nat]]
    /\ got \in [Dirs -> [Streams -> Seq(Chunk)]]

Init ==
    /\ load \in Loads
    /\ relay = [s \in Streams |-> NewRelay]
    /\ held = {} /\ full = FALSE
    /\ toWorker = <<>> /\ toRelay = <<>>
    /\ worker = [s \in Streams |-> NewWorker]
    /\ over = FALSE /\ flusher = FALSE
    /\ sent = [d \in Dirs |-> [s \in Streams |-> 0]]
    /\ got = [d \in Dirs |-> [s \in Streams |-> <<>>]]

Frame(t, s, c) == [type |-> t, id |-> s, chunk |-> c]
Control(t, s) == Frame(t, s, NoChunk)
Data(s, q) == [i \in 1..Len(q) |-> Frame("DATA", s, q[i])]

Full(what) == IF what \in load.slow THEN BOOLEAN ELSE {FALSE}

More(d, s) == s \in load.streams /\ sent[d][s] < load.chunks[d]
Next1(d, s) == [dir |-> d, n |-> sent[d][s] + 1]
Count(d, s) == sent' = [sent EXCEPT ![d][s] = @ + 1]
Deliver(d, s, q) == got' = [got EXCEPT ![d][s] = @ \o q]

-----------------------------------------------------------------------------
(* The relay: opening, and data from the peers *)

\* Sources that can be paused: a dialer's pause() does nothing.
Sockets == Streams \ Dialled
OpenSockets == {s \in Sockets : relay[s].state # "none"}

\* pauseOnConnect
Open(s) ==
    /\ relay[s].state = "none" /\ s \in load.streams
    /\ relay' = [relay EXCEPT ![s].state = "opening"]
    /\ held' = held \cup ({s} \cap Sockets)
    /\ toWorker' = Append(toWorker, Control("OPEN", s))
    /\ UNCHANGED <<load, full, toRelay, workerVars, sent, got>>

\* closeStream and forgetStream; what is queued is dropped with the stream.
CloseStream(s) ==
    /\ relay' = [relay EXCEPT ![s] = [NewRelay EXCEPT !.state = "closed"]]
    /\ toWorker' = Append(toWorker, Control("CLOSE", s))
    /\ UNCHANGED <<held, full>>

\* sendBinary returned false: every source of the connection is paused.
PauseAll(f) ==
    /\ full' = (full \/ f)
    /\ held' = IF f THEN held \cup OpenSockets ELSE held

\* pumpToWorker of an open stream
Pump(s, c) ==
    /\ toWorker' = Append(toWorker, Frame("DATA", s, c))
    /\ \E f \in Full("wire") : PauseAll(full \/ f)
    /\ UNCHANGED relay

\* The open window: a dialler's bytes wait behind the dam, a socket's that slip
\* through are queued and its source paused.
Wait(s, c) ==
    IF s \in Dialled
      THEN IF Len(relay[s].dam) + 1 > QueueMax
             THEN CloseStream(s)
             ELSE /\ relay' = [relay EXCEPT ![s].dam = Append(@, c)]
                  /\ UNCHANGED <<held, full, toWorker>>
      ELSE IF Len(relay[s].queued) + 1 > QueueMax
             THEN CloseStream(s)
             ELSE /\ relay' = [relay EXCEPT ![s].queued = Append(@, c)]
                  /\ held' = held \cup {s}
                  /\ UNCHANGED <<full, toWorker>>

\* A chunk from the peer: onManagerConn's data event, onDialerData.
PeerData(s) ==
    /\ relay[s].state \in {"opening", "open"} /\ s \notin held
    /\ More("up", s) /\ Count("up", s)
    /\ IF relay[s].state = "opening" THEN Wait(s, Next1("up", s)) ELSE Pump(s, Next1("up", s))
    /\ UNCHANGED <<load, toRelay, workerVars, got>>

\* End, error or close of the peer, or its CLOSE.
PeerEnds(s) ==
    /\ relay[s].state \in {"opening", "open"}
    /\ CloseStream(s)
    /\ UNCHANGED <<load, toRelay, workerVars, sent, got>>

\* The connection drains: the sources of all streams that are not closed resume.
Resumes == {s \in OpenSockets : relay[s].state # "closed"}

WireDrains ==
    /\ full /\ full' = FALSE
    /\ held' = held \ Resumes
    /\ UNCHANGED <<load, relay, toWorker, toRelay, workerVars, sent, got>>

-----------------------------------------------------------------------------
(* The relay: frames from the worker *)

Waiting(s) == relay[s].dam \o relay[s].queued

\* onOpenAck: the dam opens first, then the queue is sent.
Acknowledged(s) ==
    /\ relay[s].state = "opening"
    /\ relay' = [relay EXCEPT ![s].state = "open", ![s].dam = <<>>, ![s].queued = <<>>]
    /\ toWorker' = toWorker \o Data(s, Waiting(s))
    /\ \E f \in (IF relay[s].dam = <<>> THEN {FALSE} ELSE Full("wire")) :
          LET stop == f \/ (full /\ relay[s].dam # <<>>) IN
          /\ full' = (full \/ f)
          /\ held' = IF stop THEN held \cup OpenSockets ELSE held \ {s}
    /\ UNCHANGED got

\* onData
FromWorker(s, c) ==
    \/ /\ relay[s].state = "opening"
       /\ CloseStream(s)
       /\ UNCHANGED got
    \/ /\ relay[s].state = "open" /\ relay[s].paused
       /\ IF Len(relay[s].queued) + 1 > QueueMax
            THEN CloseStream(s)
            ELSE /\ relay' = [relay EXCEPT ![s].queued = Append(@, c)]
                 /\ UNCHANGED <<held, full, toWorker>>
       /\ UNCHANGED got
    \/ /\ relay[s].state = "open" /\ ~relay[s].paused
       /\ \E f \in Full("peer") : relay' = [relay EXCEPT ![s].paused = f]
       /\ Deliver("down", s, <<c>>)
       /\ UNCHANGED <<held, full, toWorker>>

Handle(f) ==
    \/ f.type = "ACK" /\ Acknowledged(f.id)
    \/ f.type = "DATA" /\ FromWorker(f.id, f.chunk)
    \/ /\ f.type \in {"NACK", "CLOSE"} /\ relay[f.id].state \in {"opening", "open"}
       /\ CloseStream(f.id) /\ UNCHANGED got

\* A frame for a stream that is closed has no effect.
RelayReceives ==
    /\ toRelay # <<>> /\ toRelay' = Tail(toRelay)
    /\ IF relay[Head(toRelay).id].state = "closed"
         THEN UNCHANGED <<relayVars, toWorker, got>> ELSE Handle(Head(toRelay))
    /\ UNCHANGED <<load, workerVars, sent>>

\* mutant: the flush sends the newest chunk first
Backwards(q, k) == Reverse(SubSeq(q, 1, k))
Oldest(q, k) == SubSeq(q, 1, k)

\* flushStream: up to the write that fills the peer again.
PeerDrains(s) ==
    /\ relay[s].state = "open" /\ relay[s].paused
    /\ LET q == relay[s].queued IN
       \E k \in 0..Len(q) :
          /\ k < Len(q) => k > 0 /\ "peer" \in load.slow
          /\ \E f \in (IF k < Len(q) THEN {TRUE} ELSE IF k = 0 THEN {FALSE} ELSE Full("peer")) :
                relay' = [relay EXCEPT ![s].paused = f, ![s].queued = SubSeq(q, k + 1, Len(q))]
          /\ Deliver("down", s, Oldest(q, k))
    /\ UNCHANGED <<load, held, full, toWorker, toRelay, workerVars, sent>>

-----------------------------------------------------------------------------
(* The worker's client *)

\* closeLocal
CloseLocal(s) ==
    /\ worker' = [worker EXCEPT ![s] = [NewWorker EXCEPT !.state = "closed"]]
    /\ toRelay' = Append(toRelay, Control("CLOSE", s))

\* onRemoteData
FromRelay(s, c) ==
    \/ /\ worker[s].state \notin {"connecting", "open"}
       /\ UNCHANGED <<worker, toRelay, got>>
    \/ /\ worker[s].state \in {"connecting", "open"} /\ worker[s].paused
       /\ IF Len(worker[s].queued) + 1 > QueueMax
            THEN CloseLocal(s)
            ELSE /\ worker' = [worker EXCEPT ![s].queued = Append(@, c)]
                 /\ UNCHANGED toRelay
       /\ UNCHANGED got
    \/ /\ worker[s].state \in {"connecting", "open"} /\ ~worker[s].paused
       /\ Deliver("up", s, <<c>>)
       /\ \E f \in Full("local") :
             worker' = [worker EXCEPT ![s].paused = f, ![s].wait = (@ \/ f)]
       /\ UNCHANGED toRelay

\* onOpenRequest: refused, or the local connection is begun.
Requested(s) ==
    \/ /\ worker' = [worker EXCEPT ![s].state = "closed"]
       /\ toRelay' = Append(toRelay, Control("NACK", s))
    \/ /\ worker' = [worker EXCEPT ![s].state = "connecting"]
       /\ UNCHANGED toRelay

WorkerReceives ==
    /\ toWorker # <<>> /\ toWorker' = Tail(toWorker)
    /\ LET f == Head(toWorker) IN
       \/ f.type = "OPEN" /\ Requested(f.id) /\ UNCHANGED got
       \/ f.type = "DATA" /\ FromRelay(f.id, f.chunk)
       \/ /\ f.type = "CLOSE" /\ UNCHANGED got
          /\ IF worker[f.id].state \in {"connecting", "open"} THEN CloseLocal(f.id)
                                                              ELSE UNCHANGED <<worker, toRelay>>
    /\ UNCHANGED <<load, relayVars, over, flusher, sent>>

Connects(s) ==
    /\ worker[s].state = "connecting"
    /\ worker' = [worker EXCEPT ![s].state = "open"]
    /\ toRelay' = Append(toRelay, Control("ACK", s))
    /\ UNCHANGED <<load, relayVars, toWorker, over, flusher, sent, got>>

\* The error event and, after it, the close event.
ConnectFails(s) ==
    /\ worker[s].state = "connecting"
    /\ worker' = [worker EXCEPT ![s] = [NewWorker EXCEPT !.state = "closed"]]
    /\ toRelay' = toRelay \o <<Control("NACK", s), Control("CLOSE", s)>>
    /\ UNCHANGED <<load, relayVars, toWorker, over, flusher, sent, got>>

\* mutant: the timer is started only for a stream that waited already
FlusherIfPaused(s) == flusher' = (flusher \/ worker[s].paused)
EnsureFlusher(s) == flusher' = TRUE

\* A chunk from the local socket: pumpToRelay.
LocalData(s) ==
    /\ worker[s].state = "open" /\ ~worker[s].held
    /\ More("down", s) /\ Count("down", s)
    /\ IF worker[s].paused \/ over
         THEN IF Len(worker[s].queued) + 1 > QueueMax
                THEN CloseLocal(s) /\ UNCHANGED <<over, flusher>>
                ELSE /\ worker' = [worker EXCEPT ![s].queued = Append(@, Next1("down", s)),
                                                 ![s].held = (@ \/ ~worker[s].paused),
                                                 ![s].paused = TRUE]
                     /\ EnsureFlusher(s)
                     /\ UNCHANGED <<toRelay, over>>
         ELSE /\ toRelay' = Append(toRelay, Frame("DATA", s, Next1("down", s)))
              /\ over' \in Full("uplink")
              /\ UNCHANGED <<worker, flusher>>
    /\ UNCHANGED <<load, relayVars, toWorker, got>>

\* Error or close of the local socket.
LocalCloses(s) ==
    /\ worker[s].state = "open"
    /\ CloseLocal(s)
    /\ UNCHANGED <<load, relayVars, toWorker, over, flusher, sent, got>>

\* flush: what is queued goes to the local socket.
LocalDrains(s) ==
    /\ worker[s].state = "open" /\ worker[s].wait
    /\ LET q == worker[s].queued IN
       \E k \in 0..Len(q) :
          /\ k < Len(q) => k > 0
          /\ \E f \in (IF k < Len(q) THEN {TRUE} ELSE IF k = 0 THEN {FALSE} ELSE BOOLEAN) :
                worker' = [worker EXCEPT ![s].paused = f, ![s].wait = f,
                                         ![s].queued = SubSeq(q, k + 1, Len(q))]
          /\ Deliver("up", s, Oldest(q, k))
    /\ UNCHANGED <<load, relayVars, toWorker, toRelay, over, flusher, sent>>

UplinkDrains ==
    /\ over /\ over' = FALSE
    /\ UNCHANGED <<load, relayVars, toWorker, toRelay, worker, flusher, sent, got>>

\* ensureFlusher's interval for one stream: what is queued goes to the relay.
Flush(s) ==
    /\ flusher /\ ~over
    /\ worker[s].state = "open" /\ worker[s].paused
    /\ LET q == worker[s].queued IN
       \E k \in 0..Len(q) :
          /\ k < Len(q) => k > 0 /\ "uplink" \in load.slow
          /\ toRelay' = toRelay \o Data(s, Oldest(q, k))
          /\ over' \in (IF k < Len(q) THEN {TRUE} ELSE IF k = 0 THEN {FALSE} ELSE Full("uplink"))
          /\ worker' = [worker EXCEPT ![s].queued = SubSeq(q, k + 1, Len(q)),
                                      ![s].paused = (k < Len(q)),
                                      ![s].held = (@ /\ k < Len(q))]
    /\ flusher' = \E t \in Streams : worker'[t].state = "open" /\ worker'[t].paused
    /\ UNCHANGED <<load, relayVars, toWorker, sent, got>>

-----------------------------------------------------------------------------
Next ==
    \/ RelayReceives \/ WorkerReceives
    \/ WireDrains \/ UplinkDrains
    \/ \E s \in Streams :
          \/ Open(s) \/ PeerData(s) \/ PeerEnds(s) \/ PeerDrains(s)
          \/ Connects(s) \/ ConnectFails(s) \/ LocalData(s) \/ LocalCloses(s)
          \/ LocalDrains(s) \/ Flush(s)

Spec == Init /\ [][Next]_vars

\* Frames arrive, buffers drain, a connection attempt ends; nobody has to send.
FairSpec ==
    /\ Spec
    /\ WF_vars(RelayReceives)
    /\ WF_vars(WorkerReceives)
    /\ WF_vars(WireDrains) /\ WF_vars(UplinkDrains)
    /\ \A s \in Streams :
          /\ WF_vars(PeerDrains(s))
          /\ WF_vars(LocalDrains(s))
          /\ WF_vars(Flush(s))
          /\ WF_vars(Connects(s) \/ ConnectFails(s))

-----------------------------------------------------------------------------
(* Properties *)

Sent(d, s) == [i \in 1..sent[d][s] |-> [dir |-> d, n |-> i]]
Payload(frames, s) ==
    LET mine == SelectSeq(frames, LAMBDA f : f.type = "DATA" /\ f.id = s)
    IN  [i \in 1..Len(mine) |-> mine[i].chunk]

\* Each end receives what the other sent, from the first chunk on, in order,
\* once, and nothing of its own.
InOrder ==
    \A s \in Streams, d \in Dirs : IsPrefix(got[d][s], Sent(d, s))

\* While neither side has closed a stream, every chunk sent is delivered or in
\* one of the buffers on its way, in order.
Live(s) == relay[s].state \in {"opening", "open"} /\ worker[s].state # "closed"
Held(d, s) == SelectSeq(worker[s].queued, LAMBDA c : c.dir = d)
NothingLost ==
    \A s \in Streams : Live(s) =>
        /\ got["up"][s] \o Held("up", s) \o Payload(toWorker, s) \o relay[s].dam
             \o (IF relay[s].state = "opening" THEN relay[s].queued ELSE <<>>) = Sent("up", s)
        /\ got["down"][s] \o (IF relay[s].state = "open" THEN relay[s].queued ELSE <<>>)
             \o Payload(toRelay, s) \o Held("down", s) = Sent("down", s)

\* A stream's frames reach the worker as OPEN, DATA after its ACK, one CLOSE.
Quiet ==
    \A i \in DOMAIN toWorker : LET f == toWorker[i] IN
        /\ f.type = "DATA" => worker[f.id].state \in {"open", "closed"}
        /\ f.type = "CLOSE" => \A j \in i + 1..Len(toWorker) : toWorker[j].id # f.id

\* What was sent is delivered unless the stream closes: again and again
\* everything sent so far has arrived.
Gone(s) == relay[s].state = "closed" \/ worker[s].state = "closed"
Arrives ==
    \A s \in Streams, d \in Dirs :
        []<>(Len(got[d][s]) = sent[d][s] \/ Gone(s))

\* A source that was paused may send again once the buffers drain, unless its
\* stream closes: no lost drain event stops a stream for ever.
SourcesResume ==
    \A s \in Streams : []<>(s \notin held \/ relay[s].state # "open")

\* A stream closed at one end closes at the other: neither side keeps a
\* dangling half.
ClosesBoth ==
    \A s \in Streams :
        []<>(relay[s].state = "closed" <=> worker[s].state = "closed")
=============================================================================
