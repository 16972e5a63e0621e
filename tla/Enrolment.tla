----------------------------- MODULE Enrolment -----------------------------
(***************************************************************************)
(* How a machine joins an overlay network: net/relay/join.ts on the        *)
(* machine, net/relay/registry.ts at the control plane, and the whitelist  *)
(* of dialers a relay reads when it starts (registry.ts deriveDropIn,      *)
(* network.ts normalizeDialers, main.ts).                                  *)
(*                                                                         *)
(* The operator's tool that receives applications is not in the            *)
(* repository.  It is modelled from the functions written for it and their *)
(* comments: verify the invitation, take its nonce in the ledger, then     *)
(* read, edit and save the registry in one synchronous stretch.  Two       *)
(* receivers may hold the same invitation at once, and the receiver may    *)
(* die between the ledger and the registry.                                *)
(*                                                                         *)
(* Keys are numbered by the order a machine generates them; a signature is *)
(* the fact of who made it.                                                *)
(***************************************************************************)
EXTENDS Naturals, FiniteSets

CONSTANTS
  Machines,   \* machines that run join
  Names,      \* logical names <network>/<hostId>
  Networks,
  Nonces,     \* one invitation each
  NameOf,     \* [Machines -> Names]: the name a machine's operator gives it
  NetOf,      \* [Names -> Networks]
  InviteNet,  \* [Nonces -> Networks]: the network an invitation is for
  Forged,     \* invitations no trusted signer signed
  Env,        \* [Machines -> {"unset", "on", "off", "bad"}]: the direct switch
  MaxKeys,    \* bound: keys a machine generates
  MaxPosts    \* bound: applications handed in

ASSUME EnrolmentAssumption ==
  /\ NameOf \in [Machines -> Names]
  /\ NetOf \in [Names -> Networks]
  /\ InviteNet \in [Nonces -> Networks]
  /\ Forged \subseteq Nonces
  /\ Env \in [Machines -> {"unset", "on", "off", "bad"}]
  /\ MaxKeys \in Nat /\ MaxPosts \in Nat

None == "none"

Entries == [status : {"pending", "approved"}, machine : Machines, key : 1..MaxKeys]
Absent == [status |-> None]

Applications == [name : Names, machine : Machines, key : 1..MaxKeys, nonce : Nonces]

VARIABLES
  keyFile,      \* [Machines -> 0..MaxKeys]: the node key on disk, 0 for none
  made,         \* [Machines -> 0..MaxKeys]: the keys the machine has generated
  direct,       \* [Machines -> {None, "on", "off"}]: overlay-node.json, its switch
  running,      \* [Machines -> {None, "on", "off", "bad"}]: the switch in use
  expired,      \* invitations past their expiresAt
  applications, \* application files and requests on their way
  used,         \* the ledger: the nonces with a .used file
  counted,      \* applications whose nonce was taken, not yet in the registry
  registry,     \* [Names -> {Absent} \cup Entries]: nodes.json
  dropIn,       \* the whitelist derived last
  dialers,      \* the whitelist the relay read when it started
  \* history, read by the properties only
  taken,        \* applications that took their nonce
  approval      \* [Names -> {"never", "standing", "withdrawn"}]: the operator's word

vars == <<keyFile, made, direct, running, expired, applications, used, counted,
          registry, dropIn, dialers, taken, approval>>

machine == <<keyFile, made, direct, running>>
control == <<used, counted, registry, taken, approval>>
relay   == <<dropIn, dialers>>

Init ==
  /\ keyFile = [m \in Machines |-> 0]
  /\ made = [m \in Machines |-> 0]
  /\ direct = [m \in Machines |-> None]
  /\ running = [m \in Machines |-> None]
  /\ expired = {}
  /\ applications = {}
  /\ used = {}
  /\ counted = {}
  /\ registry = [n \in Names |-> Absent]
  /\ dropIn = {}
  /\ dialers = {}
  /\ taken = {}
  /\ approval = [n \in Names |-> "never"]

-----------------------------------------------------------------------------
(* The invitation *)

\* verifyNetworkInvite: signer, network, validity.
Verified(n, i) ==
  /\ i \notin Forged
  /\ InviteNet[i] = NetOf[n]
  /\ i \notin expired

-----------------------------------------------------------------------------
(* join, on the machine *)

\* Step 2: an existing key is used again, so running join twice keeps it.
KeyFor(m) == IF keyFile[m] # 0 THEN keyFile[m] ELSE made[m] + 1

KeepsKey(m) ==
  /\ KeyFor(m) <= MaxKeys
  /\ keyFile' = [keyFile EXCEPT ![m] = KeyFor(m)]
  /\ made' = [made EXCEPT ![m] = IF keyFile[m] # 0 THEN @ ELSE @ + 1]

\* What buildApplication puts together: the public key, and the invitation.
Application(m, i) ==
  [name |-> NameOf[m], machine |-> m, key |-> KeyFor(m), nonce |-> i]

\* runJoin.  A failed step leaves what the earlier ones wrote: the key when the
\* local file cannot be written, key and file when the control plane cannot be
\* reached (its answer may be lost, so the application may have arrived).  The
\* local file is written whole, with the default switch.
Joins(m, i) ==
  /\ Verified(NameOf[m], i)
  /\ KeepsKey(m)
  /\ \/ UNCHANGED <<direct, applications>>
     \/ /\ direct' = [direct EXCEPT ![m] = "on"]
        /\ \/ UNCHANGED applications
           \/ /\ Cardinality(applications) < MaxPosts
              /\ applications' = applications \cup {Application(m, i)}
  /\ UNCHANGED <<running, expired>>
  /\ UNCHANGED control /\ UNCHANGED relay

\* The machine is installed anew.
Reinstalled(m) ==
  /\ keyFile[m] # 0
  /\ keyFile' = [keyFile EXCEPT ![m] = 0]
  /\ direct' = [direct EXCEPT ![m] = None]
  /\ running' = [running EXCEPT ![m] = None]
  /\ UNCHANGED <<made, expired, applications>>
  /\ UNCHANGED control /\ UNCHANGED relay

\* POST /api/admin/overlay-nodes/direct: writeNodeConfigDirect, which refuses
\* to make the file.
SetsDirect(m, on) ==
  /\ direct[m] # None
  /\ direct' = [direct EXCEPT ![m] = on]
  /\ UNCHANGED <<keyFile, made, running, expired, applications>>
  /\ UNCHANGED control /\ UNCHANGED relay

\* resolveDirectSwitch: the environment, then the file, then on.
Switch(m, local) ==
  IF Env[m] # "unset" THEN Env[m]
  ELSE IF local = None THEN "on" ELSE local

\* The node's service starts: ContentRuntime resolves the switch from the
\* environment and does not hand over what the file says.
Starts(m) ==
  /\ running' = [running EXCEPT ![m] = Switch(m, None)]
  /\ UNCHANGED <<keyFile, made, direct, expired, applications>>
  /\ UNCHANGED control /\ UNCHANGED relay

-----------------------------------------------------------------------------
(* The control plane *)

Expires(i) ==
  /\ i \notin expired
  /\ expired' = expired \cup {i}
  /\ UNCHANGED machine /\ UNCHANGED applications
  /\ UNCHANGED control /\ UNCHANGED relay

\* consumeNonce: the kernel creates the .used file exclusively.
Takes(i) == i \notin used /\ used' = used \cup {i}

\* A receiver takes up an application.  The application stays where it is: a
\* file can be handed in again, a request can be repeated.
Receives(a) ==
  /\ Verified(a.name, a.nonce)
  /\ Takes(a.nonce)
  /\ counted' = counted \cup {a}
  /\ taken' = taken \cup {a}
  /\ UNCHANGED machine /\ UNCHANGED <<expired, applications, registry, approval>>
  /\ UNCHANGED relay

\* applyApplication: approved stays approved; the key is the application's.
Applied(n, a) ==
  [status |-> IF registry[n].status = "approved" THEN "approved" ELSE "pending",
   machine |-> a.machine, key |-> a.key]

Records(a) ==
  /\ a \in counted
  /\ counted' = counted \ {a}
  /\ registry' = [registry EXCEPT ![a.name] = Applied(a.name, a)]
  /\ UNCHANGED machine /\ UNCHANGED <<expired, applications, used, taken, approval>>
  /\ UNCHANGED relay

\* The receiver dies: the nonce stays spent, the registry has not changed.
ReceiverDies ==
  /\ counted # {}
  /\ counted' = {}
  /\ UNCHANGED machine
  /\ UNCHANGED <<expired, applications, used, registry, taken, approval>>
  /\ UNCHANGED relay

\* approveNode: only a name that has applied.
Approves(n) ==
  /\ registry[n] # Absent
  /\ registry' = [registry EXCEPT ![n].status = "approved"]
  /\ approval' = [approval EXCEPT ![n] = "standing"]
  /\ UNCHANGED machine /\ UNCHANGED <<expired, applications, used, counted, taken>>
  /\ UNCHANGED relay

\* removeNode.
Removes(n) ==
  /\ registry[n] # Absent
  /\ registry' = [registry EXCEPT ![n] = Absent]
  /\ approval' = [approval EXCEPT ![n] = IF @ = "never" THEN @ ELSE "withdrawn"]
  /\ UNCHANGED machine /\ UNCHANGED <<expired, applications, used, counted, taken>>
  /\ UNCHANGED relay

\* Every name that has applied.
DerivedAll == {n \in Names : registry[n] # Absent}

\* deriveDialers: the approved names, a bucket per network.
Derived == {n \in Names : registry[n].status = "approved"}

\* deriveDropIn, written beside the relay's unit; read when the relay starts.
Derives ==
  /\ dropIn' = Derived
  /\ UNCHANGED dialers
  /\ UNCHANGED machine /\ UNCHANGED <<expired, applications>> /\ UNCHANGED control

RelayStarts ==
  /\ dialers' = dropIn
  /\ UNCHANGED dropIn
  /\ UNCHANGED machine /\ UNCHANGED <<expired, applications>> /\ UNCHANGED control

Next ==
  \/ \E m \in Machines :
       \/ \E i \in Nonces : Joins(m, i)
       \/ Reinstalled(m)
       \/ \E on \in {"on", "off"} : SetsDirect(m, on)
       \/ Starts(m)
  \/ \E i \in Nonces : Expires(i)
  \/ \E a \in applications : Receives(a)
  \/ \E a \in counted : Records(a)
  \/ ReceiverDies
  \/ \E n \in Names : Approves(n) \/ Removes(n)
  \/ Derives
  \/ RelayStarts

Spec == Init /\ [][Next]_vars

-----------------------------------------------------------------------------
(* Properties *)

\* Every variable has its type; a key on disk is the last the machine made; a
\* key is never written for a machine that no invitation lets in.
TypeOK ==
  /\ made \in [Machines -> 0..MaxKeys]
  /\ \A m \in Machines : keyFile[m] \in {0, made[m]}
  /\ direct \in [Machines -> {None, "on", "off"}]
  /\ running \in [Machines -> {None, "on", "off", "bad"}]
  /\ expired \subseteq Nonces
  /\ applications \subseteq Applications
  /\ counted \subseteq taken /\ taken \subseteq Applications
  /\ \A a \in taken : a.nonce \in used
  /\ registry \in [Names -> Entries \cup {Absent}]
  /\ dropIn \subseteq Names /\ dialers \subseteq Names
  /\ \A m \in Machines : made[m] > 0 =>
       \E i \in Nonces \ Forged : InviteNet[i] = NetOf[NameOf[m]]

\* registry.ts: an invitation lets one application in, however many copies of
\* it are handed in at once and whatever dies in between.
OneIntakePerInvite == \A a, b \in taken : a.nonce = b.nonce => a = b

\* registry.ts: exactly the names the operator has approved, and not removed
\* since, are approved: a new application neither grants nor withdraws it.
ApprovalStands ==
  \A n \in Names : registry[n].status = "approved" <=> approval[n] = "standing"

\* Whom a relay lets dial, however old its whitelist: a name an operator
\* approved, and for which an invitation to its own network was handed in.
WhitelistEarned ==
  \A n \in dialers :
    /\ approval[n] # "never"
    /\ \E a \in taken : a.name = n /\ InviteNet[a.nonce] = NetOf[n]

\* registry.ts, network.ts: an invitation is spent once, the approved are those the
\* operator stands by, and nobody dials who was not invited and approved.
EnrolmentSafe == OneIntakePerInvite /\ ApprovalStands /\ WhitelistEarned
=============================================================================
