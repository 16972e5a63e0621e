----------------------------- MODULE Admission -----------------------------
(***************************************************************************)
(* Who is let in by a relay: the key table (net/relay/keys.ts), the        *)
(* documents of the identity layer (net/relay/identity.ts: the signers the *)
(* root authorises, the grants the signers make out to nodes, the list of  *)
(* revocations), what a relay reads of them when it starts (main.ts        *)
(* loadIdentityForServer), what a node reads (loadClientIdentity), and the *)
(* gates of a HELLO (server.ts).                                           *)
(*                                                                         *)
(* A signature is the fact of who made it; a node is revoked by its host   *)
(* name (the list may also name keys, to the same effect for one node).    *)
(* Clock skew, nonces and the MAC, which a node with the right secret      *)
(* passes, are left to RelayClient.                                        *)
(***************************************************************************)
EXTENDS Naturals, FiniteSets

CONSTANTS
  Nodes,      \* a node is its private key, and the secret it was given
  Networks,   \* "ops" is one of them
  Hosts,
  HostOf,     \* [Nodes -> Hosts]
  NetOf,      \* [Nodes -> Networks]: the network its secret was made out for
  Bare,       \* nodes whose line in the key table carries no network
  Signers,
  Honest,     \* the signers the root authorises, now or then
  Configs,    \* what the relay's environment may name, in this instance
  Dialers,    \* SUBSET (Networks \X Hosts): the whitelist after normalizeDialers
  SignerFiles, \* what the file of signers may hold, in this instance
  ListFiles,  \* what the file of revocations may hold
  MaxUp       \* bound: node processes running at once

AdmissionAssumption ==
  /\ "ops" \in Networks
  /\ HostOf \in [Nodes -> Hosts] /\ NetOf \in [Nodes -> Networks]
  /\ \A n \in Bare : n \in Nodes /\ NetOf[n] = "ops"
  /\ Honest \subseteq Signers
  /\ Dialers \subseteq Networks \X Hosts
  /\ Configs \subseteq [direct : SUBSET Signers, setFile : BOOLEAN, listFile : BOOLEAN]
  /\ SignerFiles \subseteq [signers : SUBSET Signers, rooted : BOOLEAN]
  /\ ListFiles \subseteq [network : Networks, hosts : SUBSET Hosts,
                          signer : Signers \cup {"nobody"}]
  /\ "nobody" \notin Signers
  /\ MaxUp \in Nat
  /\ \A f \in SignerFiles : f.rooted => f.signers \subseteq Honest

VARIABLES
  signerSet,  \* the file of authorised signers, and whether the root signed it
  revoked,    \* the file of revocations, and who signed it
  expired,    \* the nodes whose grants are past their expiresAt
  node,       \* [Nodes -> what its process read and was told at start]
  required,   \* DSH_AI1NET_OVERLAY_REQUIRE_IDENTITY, in the relay's environment
  conf,       \* what else it names: signers, and whether the two files
  up,         \* the relay runs
  signers,    \* the signers it trusts
  list,       \* the revocations it heeds
  sessions,
  \* history, read by the properties only
  lastList    \* the last list of revocations a relay could read

vars == <<signerSet, revoked, expired, node, required, conf, up, signers, list, sessions, lastList>>

\* The grants the signers make out: signNodeGrant.
Grant(n, s) == [network |-> NetOf[n], host |-> HostOf[n], key |-> n, signer |-> s]
Grants == {Grant(n, s) : n \in Nodes, s \in Signers}
NoGrant == [network |-> "none"]

Lists == [network : Networks, hosts : SUBSET Hosts]
NoList == [network |-> "ops", hosts |-> {}]

\* A process that is down, or up with the network it was told to claim and the
\* grant it read, NoGrant when none is configured.
Down == [claim |-> "none", grant |-> NoGrant]

Sessions == [node : Nodes, network : Networks, host : Hosts,
             grant : Grants \cup {NoGrant}, ports : BOOLEAN]

Init ==
  /\ signerSet \in SignerFiles
  /\ revoked \in ListFiles
  /\ expired = {}
  /\ node = [n \in Nodes |-> Down]
  /\ required \in BOOLEAN
  /\ conf \in Configs
  /\ up = FALSE
  /\ signers = {}
  /\ list = NoList
  /\ sessions = {}
  /\ lastList = NoList

relay == <<required, conf, up, signers, list, sessions, lastList>>
files == <<signerSet, revoked, expired>>

-----------------------------------------------------------------------------
(* The documents *)

\* signSignerSet by the root, or a file the root did not sign.
WritesSignerSet(f) ==
  /\ signerSet' = f
  /\ UNCHANGED <<revoked, expired, node>> /\ UNCHANGED relay

\* signRevocations, or a file damaged since.
WritesRevocations(f) ==
  /\ revoked' = f
  /\ UNCHANGED <<signerSet, expired, node>> /\ UNCHANGED relay

\* The grants made out for a node reach their expiresAt.
Expires(n) ==
  /\ n \notin expired
  /\ expired' = expired \cup {n}
  /\ UNCHANGED <<signerSet, revoked, node>> /\ UNCHANGED relay

-----------------------------------------------------------------------------
(* The relay's start *)

\* loadTrustedSigners: the signers of the environment and, where a file of signers
\* is named, those of the file.  A file the root did not sign leaves no signer at
\* all, not even those of the environment.  main.ts:131 names no network, so the set
\* counts whichever network it was made out for.
SetRejected == conf.setFile /\ ~signerSet.rooted

Trusted ==
  IF SetRejected THEN {}
  ELSE conf.direct \cup (IF conf.setFile THEN signerSet.signers ELSE {})

\* loadRevocations: a list that is named must be signed by a signer of the relay.
ListReadable == conf.listFile /\ revoked.signer \in Trusted

\* loadIdentityForServer: with the identity layer required, a set or a list
\* that is named and cannot be read, or no signer, keeps the relay from starting.
MayStart ==
  required => ~SetRejected /\ (conf.listFile => ListReadable) /\ Trusted # {}

Starts ==
  /\ ~up
  /\ MayStart
  /\ up' = TRUE
  /\ signers' = Trusted
  /\ list' = IF ListReadable THEN [network |-> revoked.network, hosts |-> revoked.hosts]
             ELSE NoList
  /\ lastList' = IF ListReadable THEN list' ELSE lastList
  /\ UNCHANGED <<required, conf, sessions>>
  /\ UNCHANGED files /\ UNCHANGED node

Stops ==
  /\ up
  /\ up' = FALSE
  /\ sessions' = {}
  /\ UNCHANGED <<required, conf, signers, list, lastList, node>> /\ UNCHANGED files

-----------------------------------------------------------------------------
(* A node *)

\* loadClientIdentity: no grant when none is configured; a grant that is
\* configured and missing keeps the process from starting.  Network and grant
\* are what its operator wrote and put there, another machine's at worst.
NodeStarts(n, w, g) ==
  /\ node[n] = Down
  /\ Cardinality({m \in Nodes : node[m] # Down}) < MaxUp
  /\ node' = [node EXCEPT ![n] = [claim |-> w, grant |-> g]]
  /\ UNCHANGED files /\ UNCHANGED relay

NodeStops(n) ==
  /\ node[n] # Down
  /\ node' = [node EXCEPT ![n] = Down]
  /\ sessions' = {s \in sessions : s.node # n}
  /\ UNCHANGED files /\ UNCHANGED <<required, conf, up, signers, list, lastList>>

\* lookupKey, then the comparison with the claim: the line named by the
\* network and the host first, the bare host second, which belongs to ops.
Listed(n, w) ==
  \/ n \notin Bare /\ w = NetOf[n]
  \/ n \in Bare /\ w = "ops"
       /\ ~ \E m \in Nodes \ Bare : NetOf[m] = w /\ HostOf[m] = HostOf[n]

\* The key in the grant is not compared with the node's own.
GrantHoldsForAnyKey(n, w, g) ==
  /\ g.signer \in signers /\ g.network = w /\ g.host = HostOf[n]
  /\ g.key \notin expired
  /\ list.network = g.network => g.host \notin list.hosts

\* verifyPeerGrant.  The list counts only for grants of its own network.
GrantHolds(n, w, g) ==
  /\ g.signer \in signers
  /\ g.network = w
  /\ g.host = HostOf[n]
  /\ g.key = n
  /\ g.key \notin expired
  /\ list.network = g.network => g.host \notin list.hosts

\* A grant that is sent is checked, required or not.
Vouched(n, w, g) ==
  IF g = NoGrant THEN ~required ELSE GrantHolds(n, w, g)

\* The session of the same logical name is superseded.
Others(w, h) == {s \in sessions : <<s.network, s.host>> # <<w, h>>}

\* A dialer declares no port, every other node does.
PortsFit(w, h, ports) == ports <=> <<w, h>> \notin Dialers

\* The network and the key table first, then the identity, then the ports.
Admits(n, ports) ==
  LET w == node[n].claim
      g == node[n].grant
  IN  /\ up
      /\ node[n] # Down
      /\ ~ \E s \in sessions : s.node = n
      /\ Listed(n, w)
      /\ Vouched(n, w, g)
      /\ PortsFit(w, HostOf[n], ports)
      /\ sessions' = Others(w, HostOf[n])
                     \cup {[node |-> n, network |-> w, host |-> HostOf[n],
                            grant |-> g, ports |-> ports]}
      /\ UNCHANGED <<required, conf, up, signers, list, lastList, node>> /\ UNCHANGED files

\* The connection is lost.
Drops(s) ==
  /\ sessions' = sessions \ {s}
  /\ UNCHANGED <<required, conf, up, signers, list, lastList, node>> /\ UNCHANGED files

Next ==
  \/ \E f \in SignerFiles : WritesSignerSet(f)
  \/ \E f \in ListFiles : WritesRevocations(f)
  \/ Starts
  \/ Stops
  \/ \E n \in Nodes :
       \/ Expires(n)
       \/ \E w \in Networks, g \in Grants \cup {NoGrant} : NodeStarts(n, w, g)
       \/ NodeStops(n)
       \/ \E p \in BOOLEAN : Admits(n, p)
  \/ \E s \in sessions : Drops(s)

Spec == Init /\ [][Next]_vars

-----------------------------------------------------------------------------
(* Properties *)

\* Every variable has its type; a relay that is down has no session, a node
\* has one, and a logical name is of one.
TypeOK ==
  /\ signerSet \in SignerFiles /\ revoked \in ListFiles /\ expired \subseteq Nodes
  /\ \A n \in Nodes : node[n] # Down =>
       node[n].claim \in Networks /\ node[n].grant \in Grants \cup {NoGrant}
  /\ required \in BOOLEAN /\ conf \in Configs /\ up \in BOOLEAN /\ signers \subseteq Signers
  /\ list \in Lists /\ lastList \in Lists
  /\ sessions \subseteq Sessions
  /\ ~up => sessions = {}
  /\ \A s, t \in sessions :
       (s.node = t.node \/ <<s.network, s.host>> = <<t.network, t.host>>) => s = t

\* The root authorised the signer, in the set the relay reads, or the operator did.
Authorised == conf.direct \cup (IF conf.setFile THEN Honest ELSE {})

\* server.ts: behind every session that showed a grant is a signer the root or the
\* operator authorised and the very key the grant was made out for; where identity
\* is required, every session showed one.
Vouchsafed ==
  \A s \in sessions :
    /\ required => s.grant # NoGrant
    /\ s.grant # NoGrant => s.grant.signer \in Authorised /\ s.grant.key = s.node

\* keys.ts: a session stands in the network its secret was made out for, and
\* dials exactly when that network's whitelist names it.
RightNetwork ==
  \A s \in sessions :
    /\ s.network = NetOf[s.node]
    /\ ~s.ports <=> <<NetOf[s.node], HostOf[s.node]>> \in Dialers

\* Named by the last list of revocations that a relay could read.
Revoked(s) ==
  s.grant # NoGrant /\ s.network = lastList.network /\ s.host \in lastList.hosts

\* main.ts: where identity is required, a node stays out once a relay has
\* read that it is revoked, until one reads a list without it.
RevokedStaysOut == required => \A s \in sessions : ~Revoked(s)

\* Whom the relay admits (server.ts: onHello, keys.ts, identity.ts): behind every
\* session stands an authorised signer and the machine's own secret, it stands in
\* that secret's network, and who is revoked stays out.
AdmissionSafe == TypeOK /\ Vouchsafed /\ RightNetwork /\ RevokedStaysOut
=============================================================================
