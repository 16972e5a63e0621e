-------------------------- MODULE Admission_proofs ---------------------------
(***************************************************************************)
(* Proofs about Admission, for any nodes, networks, signers and documents:  *)
(* whom a relay lets in has shown what it must, stands in its own network,  *)
(* and stays out once a relay has read that it is revoked.                  *)
(***************************************************************************)
EXTENDS Admission, TLAPS

Processes == {Down} \cup [claim : Networks, grant : Grants \cup {NoGrant}]

\* The nodes' processes, and what a session's own fields say of one another.
Rest ==
  /\ node \in [Nodes -> Processes]
  /\ \A s \in sessions : s.host = HostOf[s.node]

\* A relay trusts nobody but signers that the root or its operator authorised.
RootTrusted == signers \subseteq Authorised

\* Where identity is required a relay only runs with a list it could read, and with
\* none when none is named.
ListCurrent ==
  /\ required => list = lastList
  /\ ~conf.listFile => lastList = NoList

IInv == TypeOK /\ Rest /\ RootTrusted /\ ListCurrent /\ Vouchsafed /\ RightNetwork /\ RevokedStaysOut

-----------------------------------------------------------------------------
(* The documents and the gates *)

\* A process that runs has a claim; one that is down has none of a network.
LEMMA DownType ==
  \A r \in Processes : r # Down => r \in [claim : Networks, grant : Grants \cup {NoGrant}]
  BY DEF Processes

\* loadTrustedSigners: what it returns, the root or the operator authorised.
LEMMA TrustedHonest ==
  ASSUME AdmissionAssumption, TypeOK
  PROVE  Trusted \subseteq Authorised /\ Trusted \subseteq Signers
  <1>1. signerSet.rooted => signerSet.signers \subseteq Honest
    BY DEF AdmissionAssumption, TypeOK
  <1>2. conf.direct \subseteq Signers /\ signerSet.signers \subseteq Signers
    BY DEF AdmissionAssumption, TypeOK
  <1>3. QED
    BY <1>1, <1>2 DEF Trusted, SetRejected, Authorised

\* lookupKey and the comparison with the claim: a node is found under its own
\* network only.
LEMMA ListedRight ==
  ASSUME AdmissionAssumption, NEW n \in Nodes, NEW w, Listed(n, w)
  PROVE  w = NetOf[n]
  BY DEF AdmissionAssumption, Listed

\* What a HELLO that passes the gates makes.
Admitted(n, p) ==
  [node |-> n, network |-> node[n].claim, host |-> HostOf[n], grant |-> node[n].grant, ports |-> p]

\* The session a HELLO makes has shown what it must.
LEMMA AdmittedRight ==
  ASSUME AdmissionAssumption, IInv, NEW n \in Nodes, NEW p \in BOOLEAN, Admits(n, p)
  PROVE  LET s == Admitted(n, p) IN
         /\ s \in Sessions
         /\ required => s.grant # NoGrant
         /\ s.grant # NoGrant => s.grant.signer \in Authorised /\ s.grant.key = s.node
         /\ s.network = NetOf[s.node]
         /\ ~s.ports <=> <<NetOf[s.node], HostOf[s.node]>> \in Dialers
         /\ required => ~Revoked(s)
  <1> DEFINE s == Admitted(n, p)
  <1>1. /\ s.node = n /\ s.network = node[n].claim /\ s.host = HostOf[n]
        /\ s.grant = node[n].grant /\ s.ports = p
    BY DEF Admitted
  <1>2. node[n].claim \in Networks /\ node[n].grant \in Grants \cup {NoGrant}
    BY DEF Admits, IInv, TypeOK
  <1>3. HostOf[n] \in Hosts
    BY DEF AdmissionAssumption
  <1>4. s \in Sessions
    BY <1>2, <1>3 DEF Admitted, Sessions
  <1>5. Listed(n, s.network) /\ Vouched(n, s.network, s.grant) /\ PortsFit(s.network, HostOf[n], p)
    BY <1>1 DEF Admits
  <1>6. s.network = NetOf[n]
    BY <1>5, ListedRight
  <1>7. required => s.grant # NoGrant
    BY <1>5 DEF Vouched
  <1>8. ASSUME s.grant # NoGrant
        PROVE  s.grant.signer \in Authorised /\ s.grant.key = n
               /\ (list.network = s.network => s.host \notin list.hosts)
    <2>1. GrantHolds(n, s.network, s.grant)
      BY <1>5, <1>8 DEF Vouched
    <2>2. QED
      BY <1>1, <2>1 DEF GrantHolds, IInv, RootTrusted
  <1>9. ~p <=> <<NetOf[n], HostOf[n]>> \in Dialers
    BY <1>5, <1>6 DEF PortsFit
  <1>10. required => ~Revoked(s)
    BY <1>8 DEF Revoked, IInv, ListCurrent
  <1> HIDE DEF s
  <1>11. QED
    BY <1>1, <1>4, <1>6, <1>7, <1>8, <1>9, <1>10 DEF s

-----------------------------------------------------------------------------
(* The invariant is inductive *)

\* No relay runs and no node.
LEMMA InitInv ==
  ASSUME AdmissionAssumption, Init
  PROVE  IInv
  <1> USE DEF Init
  <1>1. list \in Lists /\ lastList = list
    BY DEF AdmissionAssumption, Lists, NoList
  <1>2. TypeOK
    BY <1>1 DEF TypeOK
  <1>3. Rest
    BY DEF Rest, Processes
  <1>4. QED
    BY <1>1, <1>2, <1>3
    DEF IInv, RootTrusted, ListCurrent, Vouchsafed, RightNetwork, RevokedStaysOut

\* A step after which fewer sessions are left, of the same relay, keeps what is
\* said of sessions.
LEMMA FewerSessions ==
  ASSUME IInv, sessions' \subseteq sessions, required' = required, conf' = conf, lastList' = lastList
  PROVE  /\ Vouchsafed' /\ RightNetwork' /\ RevokedStaysOut'
         /\ sessions' \subseteq Sessions
         /\ \A s \in sessions' : s.host = HostOf[s.node]
         /\ \A s, t \in sessions' :
              (s.node = t.node \/ <<s.network, s.host>> = <<t.network, t.host>>) => s = t
  <1>1. \A s \in sessions' : s \in sessions
    OBVIOUS
  <1>2. Vouchsafed'
    BY <1>1 DEF IInv, Vouchsafed, Authorised
  <1>3. RightNetwork'
    BY <1>1 DEF IInv, RightNetwork
  <1>4. RevokedStaysOut'
    BY <1>1 DEF IInv, RevokedStaysOut, Revoked
  <1>5. QED
    BY <1>1, <1>2, <1>3, <1>4 DEF IInv, TypeOK, Rest

\* The relay starts on what it can read; it has no session yet.
LEMMA StartsKeeps ==
  ASSUME AdmissionAssumption, IInv, Starts
  PROVE  IInv'
  <1> USE DEF IInv
  <1>1. sessions = {} /\ sessions' = {} /\ required' = required /\ conf' = conf
    BY DEF Starts, TypeOK
  <1>2. revoked.network \in Networks /\ revoked.hosts \in SUBSET Hosts
    BY DEF TypeOK, AdmissionAssumption
  <1>3. list' \in Lists
    BY <1>2 DEF Starts, Lists, AdmissionAssumption, NoList
  <1>4. lastList' \in Lists
    BY <1>3 DEF Starts, TypeOK
  <1>5. signers' \subseteq Authorised' /\ signers' \subseteq Signers
    BY <1>1, TrustedHonest DEF Starts, Authorised
  <1>6. ListCurrent'
    BY <1>1 DEF Starts, MayStart, ListCurrent, ListReadable
  <1>7. TypeOK'
    BY <1>1, <1>3, <1>4, <1>5 DEF Starts, files, TypeOK
  <1>8. Rest'
    BY <1>1 DEF Starts, Rest
  <1>9. QED
    BY <1>1, <1>5, <1>6, <1>7, <1>8
    DEF RootTrusted, Vouchsafed, RightNetwork, RevokedStaysOut

\* A HELLO adds the session the gates let in and supersedes that of its name.
LEMMA AdmitsKeeps ==
  ASSUME AdmissionAssumption, IInv, NEW n \in Nodes, NEW p \in BOOLEAN, Admits(n, p)
  PROVE  IInv'
  <1> DEFINE new == Admitted(n, p)
  <1> USE DEF IInv
  <1>1. /\ sessions' = Others(node[n].claim, HostOf[n]) \cup {new}
        /\ UNCHANGED <<required, conf, up, signers, list, lastList, node, signerSet, revoked, expired>>
        /\ up /\ \A s \in sessions : s.node # n
    BY DEF Admits, Admitted, files
  <1>2. /\ new.node = n /\ new.network = node[n].claim /\ new.host = HostOf[n]
    BY DEF Admitted
  <1>3. /\ new \in Sessions
        /\ required => new.grant # NoGrant
        /\ new.grant # NoGrant => new.grant.signer \in Authorised /\ new.grant.key = new.node
        /\ new.network = NetOf[new.node]
        /\ ~new.ports <=> <<NetOf[new.node], HostOf[new.node]>> \in Dialers
        /\ required => ~Revoked(new)
    BY AdmittedRight
  <1> HIDE DEF new
  <1>4. \A s \in sessions' : s = new \/ (s \in sessions /\ <<s.network, s.host>> # <<new.network, new.host>>)
    BY <1>1, <1>2 DEF Others
  <1>5. sessions' \subseteq Sessions
    BY <1>3, <1>4 DEF TypeOK
  <1>6. \A s, t \in sessions' :
          (s.node = t.node \/ <<s.network, s.host>> = <<t.network, t.host>>) => s = t
    BY <1>1, <1>2, <1>4 DEF TypeOK
  <1>7. TypeOK'
    BY <1>1, <1>5, <1>6 DEF TypeOK
  <1>8. Rest'
    BY <1>1, <1>2, <1>4 DEF Rest
  <1>9. Vouchsafed'
    BY <1>1, <1>3, <1>4 DEF Vouchsafed, Authorised
  <1>10. RightNetwork'
    BY <1>1, <1>3, <1>4 DEF RightNetwork
  <1>11. RevokedStaysOut'
    BY <1>1, <1>3, <1>4 DEF RevokedStaysOut, Revoked
  <1>12. QED
    BY <1>1, <1>7, <1>8, <1>9, <1>10, <1>11 DEF RootTrusted, ListCurrent, Authorised

\* Every step keeps the invariant.
LEMMA Inductive ==
  ASSUME AdmissionAssumption, IInv, [Next]_vars
  PROVE  IInv'
  <1> USE DEF IInv
  <1>1. ASSUME UNCHANGED <<required, conf, up, signers, list, sessions, lastList, node>>,
               signerSet' \in SignerFiles, revoked' \in ListFiles, expired' \subseteq Nodes
        PROVE  IInv'
    BY <1>1 DEF TypeOK, Rest, RootTrusted, ListCurrent, Vouchsafed, RightNetwork,
                RevokedStaysOut, Revoked, Authorised
  <1>2. ASSUME NEW f \in SignerFiles, WritesSignerSet(f) PROVE IInv'
    BY <1>1, <1>2 DEF WritesSignerSet, relay, TypeOK
  <1>3. ASSUME NEW f \in ListFiles, WritesRevocations(f) PROVE IInv'
    BY <1>1, <1>3 DEF WritesRevocations, relay, TypeOK
  <1>4. ASSUME NEW n \in Nodes, Expires(n) PROVE IInv'
    BY <1>1, <1>4 DEF Expires, relay, TypeOK
  <1>5. CASE UNCHANGED vars
    BY <1>1, <1>5 DEF vars, TypeOK
  <1>6. CASE Starts
    BY <1>6, StartsKeeps
  <1>7. ASSUME NEW n \in Nodes, NEW p \in BOOLEAN, Admits(n, p) PROVE IInv'
    BY <1>7, AdmitsKeeps
  <1>8. ASSUME UNCHANGED <<required, conf, signers, list, lastList, signerSet, revoked, expired>>,
               sessions' \subseteq sessions, up' \in BOOLEAN, ~up' => sessions' = {},
               node' \in [Nodes -> Processes]
        PROVE  IInv'
    <2>1. TypeOK'
      <3>1. \A n \in Nodes : node'[n] # Down =>
              node'[n].claim \in Networks /\ node'[n].grant \in Grants \cup {NoGrant}
        BY <1>8, DownType
      <3>2. QED
        BY <1>8, <3>1, FewerSessions DEF TypeOK
    <2>2. Rest'
      BY <1>8, FewerSessions DEF Rest
    <2>3. QED
      BY <1>8, <2>1, <2>2, FewerSessions DEF RootTrusted, ListCurrent, Authorised
  <1>9. CASE Stops
    BY <1>8, <1>9 DEF Stops, files, Rest
  <1>10. ASSUME NEW n \in Nodes, NEW w \in Networks, NEW g \in Grants \cup {NoGrant},
                NodeStarts(n, w, g)
         PROVE  IInv'
    <2>1. node' \in [Nodes -> Processes]
      BY <1>10 DEF NodeStarts, Rest, Processes
    <2>2. QED
      BY <1>8, <1>10, <2>1 DEF NodeStarts, files, relay, TypeOK
  <1>11. ASSUME NEW n \in Nodes, NodeStops(n) PROVE IInv'
    <2>1. node' \in [Nodes -> Processes]
      BY <1>11 DEF NodeStops, Rest, Processes
    <2>2. QED
      BY <1>8, <1>11, <2>1 DEF NodeStops, files, TypeOK
  <1>12. ASSUME NEW s \in sessions, Drops(s) PROVE IInv'
    BY <1>8, <1>12 DEF Drops, files, TypeOK, Rest
  <1>13. QED
    BY <1>2, <1>3, <1>4, <1>5, <1>6, <1>7, <1>9, <1>10, <1>11, <1>12 DEF Next

-----------------------------------------------------------------------------
(* Theorems *)

\* The invariant holds in every reachable state.
THEOREM Invariance ==
  ASSUME AdmissionAssumption
  PROVE  Spec => []IInv
  <1>1. Init => IInv
    BY InitInv
  <1>2. IInv /\ [Next]_vars => IInv'
    BY Inductive
  <1>3. QED
    BY <1>1, <1>2, PTL DEF Spec

\* A relay that is down has no session, a node has at most one and a logical name
\* is of at most one.
THEOREM TypeCorrect ==
  ASSUME AdmissionAssumption
  PROVE  Spec => []TypeOK
  <1>1. IInv => TypeOK
    BY DEF IInv
  <1>2. QED
    BY <1>1, Invariance, PTL

\* Behind every session that showed a grant stands a signer the root or
\* the relay's operator authorised and the machine's own key; where identity is required every session showed one
\* (server.ts, identity.ts).
THEOREM SessionsVouched ==
  ASSUME AdmissionAssumption
  PROVE  Spec => []Vouchsafed
  <1>1. IInv => Vouchsafed
    BY DEF IInv
  <1>2. QED
    BY <1>1, Invariance, PTL

\* A session stands in the network its secret was made out for and dials exactly
\* when that network's whitelist names it (keys.ts).
THEOREM SessionsPlaced ==
  ASSUME AdmissionAssumption
  PROVE  Spec => []RightNetwork
  <1>1. IInv => RightNetwork
    BY DEF IInv
  <1>2. QED
    BY <1>1, Invariance, PTL

\* Where identity is required, who is named by the last list a relay could read
\* stays out, through restarts and damaged files (main.ts loadIdentityForServer).
THEOREM RevocationHolds ==
  ASSUME AdmissionAssumption
  PROVE  Spec => []RevokedStaysOut
  <1>1. IInv => RevokedStaysOut
    BY DEF IInv
  <1>2. QED
    BY <1>1, Invariance, PTL

\* All of it together: whom a relay has a session with, for any nodes, networks,
\* signers and files that may be found there.
THEOREM AdmissionCorrect ==
  ASSUME AdmissionAssumption
  PROVE  Spec => []AdmissionSafe
  <1>1. IInv => AdmissionSafe
    BY DEF IInv, AdmissionSafe
  <1>2. QED
    BY <1>1, Invariance, PTL
=============================================================================
