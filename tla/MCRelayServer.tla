---------------------------- MODULE MCRelayServer ----------------------------
(* The relay server: its tables, the streams of one connection and the        *)
(* presence it pushes.  One of the three runs, the others stay where they     *)
(* begin.                                                                     *)
EXTENDS RelayPorts, TLC

CONSTANTS a, b, d, NoChunk,
          Parts,   \* which of the components a configuration runs
          Traffic  \* the loads of the streams

VARIABLES part,  \* the component that runs; the others stay where they begin
          load, relay, held, full, toWorker, streamToRelay, worker, over,
          flusher, sent, got,
          old, sess, declared, land, st, subs, pending, link,
          presenceToRelay, frames, client, mirror, events, drops

\* A load: streams in use, chunks each end sends, and what may fill up.
Load(used, up, down, slow) ==
    [streams |-> used, chunks |-> [dir \in {"up", "down"} |-> IF dir = "up" THEN up ELSE down],
     slow |-> slow]

\* Two-way traffic between fast sockets, and one-way traffic to a slow local
\* socket and from it over a slow uplink.
Orderly ==
    {Load({1, 2}, 1, 1, {"wire"}),
     Load({1}, 3, 4, {"peer", "wire"}), Load({2}, 4, 4, {"peer", "wire"}),
     Load({2}, 4, 0, {"wire", "local"}), Load({1, 2}, 2, 0, {"local"}),
     Load({1}, 0, 4, {"peer", "uplink"}), Load({1, 2}, 0, 1, {"uplink"})}

\* Two-way traffic over one stream whose local socket, or uplink, is slow.
Congested == {Load({1}, 2, 1, {"local"}), Load({1}, 1, 1, {"uplink"})}

Stream == INSTANCE RelayStream WITH
    Streams <- {1, 2}, Dialled <- {2}, QueueMax <- 2, Loads <- Traffic,
    NoChunk <- NoChunk, toRelay <- streamToRelay

\* A host that declares port 1 and adds port 2.
Presence == INSTANCE RelayPresence WITH
    Ports <- {1, 2}, Static <- {1}, None <- None, MaxEvents <- 5,
    MaxDrops <- 2, MaxFrames <- 2, toRelay <- presenceToRelay

streamVars == <<load, relay, held, full, toWorker, streamToRelay, worker,
                over, flusher, sent, got>>
presenceVars == <<old, sess, declared, land, st, subs, pending, link,
                  presenceToRelay, frames, client, mirror, events, drops>>

allVars == <<part, vars, streamVars, presenceVars>>

AllInit ==
  /\ part \in Parts
  /\ Init
  /\ Stream!Init
  /\ part # "stream" => load = Load({1}, 0, 4, {"peer", "uplink"})
  /\ Presence!Init
  /\ part # "presence" => ~old

AllNext ==
  \/ part = "ports" /\ Next /\ UNCHANGED <<part, streamVars, presenceVars>>
  \/ part = "stream" /\ Stream!Next /\ UNCHANGED <<part, vars, presenceVars>>
  \/ part = "presence" /\ Presence!Next /\ UNCHANGED <<part, vars, streamVars>>

AllSpec == AllInit /\ [][AllNext]_allVars

\* The fairness of each component.
AllFair ==
  /\ AllSpec
  /\ \A c \in Conns : WF_vars(part = "ports" /\ (AuthTimeout(c) \/ Ends(c)))
  /\ WF_vars(part = "ports" /\ StopSessions)
  /\ WF_vars(part = "ports" /\ Stopped)
  /\ WF_streamVars(part = "stream" /\ Stream!RelayReceives)
  /\ WF_streamVars(part = "stream" /\ Stream!WorkerReceives)
  /\ WF_streamVars(part = "stream" /\ Stream!WireDrains)
  /\ WF_streamVars(part = "stream" /\ Stream!UplinkDrains)
  /\ \A s \in {1, 2} : WF_streamVars(part = "stream" /\ Stream!PeerDrains(s))
  /\ \A s \in {1, 2} : WF_streamVars(part = "stream" /\ Stream!LocalDrains(s))
  /\ \A s \in {1, 2} : WF_streamVars(part = "stream" /\ Stream!Flush(s))
  /\ \A s \in {1, 2} : WF_streamVars(part = "stream" /\ (Stream!Connects(s) \/ Stream!ConnectFails(s)))
  /\ WF_presenceVars(part = "presence" /\ Presence!Prune)
  /\ WF_presenceVars(part = "presence" /\ Presence!GraceEnds)
  /\ WF_presenceVars(part = "presence" /\ Presence!SayOffline)
  /\ WF_presenceVars(part = "presence" /\ Presence!Flush)
  /\ WF_presenceVars(part = "presence" /\ Presence!LinkUp)
  /\ WF_presenceVars(part = "presence" /\ Presence!Snap)
  /\ WF_presenceVars(part = "presence" /\ Presence!Kicked)
  /\ WF_presenceVars(part = "presence" /\ Presence!Receive)
  /\ \A p \in {1, 2} : WF_presenceVars(part = "presence" /\ Presence!Bound(p))

-----------------------------------------------------------------------------
ASSUME StreamConstants == Stream!Assumption
ASSUME PresenceConstants == Presence!PresenceAssumption

\* The streams of a connection (server.ts: onStreamFrame and the dam; client.ts:
\* openStream): every chunk in order, once and none lost while the stream is open,
\* all of it delivered or the stream closed, paused sources resume and a close
\* reaches both ends.
StreamsCarry ==
  /\ [](part = "stream" => Stream!TypeOK /\ Stream!InOrder /\ Stream!NothingLost /\ Stream!Quiet)
  /\ Stream!Arrives /\ Stream!SourcesResume /\ Stream!ClosesBoth

\* The bytes a receiver gets are the bytes of its direction, in their order
\* (client.ts, server.ts: no byte is lost, none goes back where it came from).
StreamInOrder == Stream!InOrder

\* Presence (server.ts: publishPresence, flushPresence; client.ts: onSnapFrame,
\* onPresenceDown): with nothing on its way the mirror is what the relay would
\* say, a connection that counts is never offline, a host that stays or goes is
\* seen so, and an old relay is left alone.
PresenceTrue ==
  /\ [](part = "presence" => Presence!TypeOK /\ Presence!MirrorExact /\ Presence!CountedIsOnline)
  /\ Presence!SeenOnline /\ Presence!SeenOffline /\ Presence!OldRelayLeftAlone

=============================================================================
