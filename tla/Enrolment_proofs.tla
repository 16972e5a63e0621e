-------------------------- MODULE Enrolment_proofs ---------------------------
(***************************************************************************)
(* Proofs about Enrolment, for any machines, names, networks and            *)
(* invitations: an invitation lets one application in, the operator's word  *)
(* on a name stands, and a relay lets nobody dial who was not invited and   *)
(* approved, however old its whitelist is.                                  *)
(***************************************************************************)
EXTENDS Enrolment, TLAPS

\* An application stands for this name, invited to the name's own network.
Invited(n) == \E a \in taken : a.name = n /\ InviteNet[a.nonce] = NetOf[n]

\* What TypeOK leaves out: the key files and the operator's words.
Rest ==
  /\ keyFile \in [Machines -> 0..MaxKeys]
  /\ approval \in [Names -> {"never", "standing", "withdrawn"}]

\* A nonce is taken after the invitation was verified for the name.
Matching == \A a \in taken : InviteNet[a.nonce] = NetOf[a.name]

\* What the registry holds came with an application.
Entered == \A n \in Names : registry[n] # Absent => Invited(n)

\* Who is, or is about to be, on a relay's whitelist.
Earned(S) == \A n \in S : approval[n] # "never" /\ Invited(n)

IInv ==
  /\ TypeOK /\ Rest
  /\ OneIntakePerInvite /\ Matching /\ Entered
  /\ ApprovalStands
  /\ Earned(dropIn) /\ Earned(dialers)

-----------------------------------------------------------------------------
(* Values of the helpers *)

\* The key an application carries is one the machine has, or makes now.
LEMMA KeyForType ==
  ASSUME TypeOK, Rest, NEW m \in Machines, KeyFor(m) <= MaxKeys
  PROVE  KeyFor(m) \in 1..MaxKeys
  <1>1. made[m] \in 0..MaxKeys /\ keyFile[m] \in {0, made[m]} /\ MaxKeys \in Nat
    BY EnrolmentAssumption DEF TypeOK
  <1>2. QED
    BY <1>1 DEF KeyFor

\* resolveDirectSwitch answers on, off or an error.
LEMMA SwitchType ==
  ASSUME NEW m \in Machines
  PROVE  Switch(m, None) \in {"on", "off", "bad"}
  BY EnrolmentAssumption DEF Switch, None

\* An entry of the registry has a status, and a name without one has none.
LEMMA EntryStatus ==
  /\ \A e \in Entries : e.status \in {"pending", "approved"}
  /\ Absent.status = "none"
  BY DEF Entries, Absent, None

\* applyApplication makes an entry, and leaves an approval what it was.
LEMMA AppliedEntry ==
  ASSUME TypeOK, NEW n \in Names, NEW a \in Applications
  PROVE  /\ Applied(n, a) \in Entries
         /\ Applied(n, a).status = "approved" <=> registry[n].status = "approved"
  BY DEF Applied, Entries, Applications

-----------------------------------------------------------------------------
(* The invariant is inductive *)

\* Nobody has applied yet.
LEMMA InitInv == Init => IInv
  <1> SUFFICES ASSUME Init PROVE IInv
    OBVIOUS
  <1> USE EnrolmentAssumption DEF Init
  <1>1. TypeOK
    BY DEF TypeOK
  <1>2. Rest
    BY DEF Rest
  <1>3. ApprovalStands
    BY DEF ApprovalStands, Absent, None
  <1>4. QED
    BY <1>1, <1>2, <1>3 DEF IInv, OneIntakePerInvite, Matching, Entered, Earned

\* join writes a key only where an invitation lets the machine in.
LEMMA JoinsType ==
  ASSUME TypeOK, Rest, NEW m \in Machines, NEW i \in Nonces, Joins(m, i)
  PROVE  TypeOK' /\ Rest'
  <1>1. KeyFor(m) \in 1..MaxKeys /\ MaxKeys \in Nat
    BY KeyForType, EnrolmentAssumption DEF Joins, KeepsKey
  <1>2. /\ keyFile' = [keyFile EXCEPT ![m] = KeyFor(m)]
        /\ made' = [made EXCEPT ![m] = IF keyFile[m] # 0 THEN @ ELSE @ + 1]
    BY DEF Joins, KeepsKey
  <1>3. made[m] \in 0..MaxKeys /\ keyFile[m] \in {0, made[m]}
    BY DEF TypeOK
  <1>4. /\ made'[m] = KeyFor(m)
        /\ \A x \in Machines \ {m} : made'[x] = made[x] /\ keyFile'[x] = keyFile[x]
        /\ keyFile'[m] = KeyFor(m)
    BY <1>2, <1>3 DEF KeyFor, TypeOK, Rest
  <1>5. made' \in [Machines -> 0..MaxKeys] /\ keyFile' \in [Machines -> 0..MaxKeys]
    <2>1. (IF keyFile[m] # 0 THEN made[m] ELSE made[m] + 1) \in 0..MaxKeys
      BY <1>1, <1>3 DEF KeyFor
    <2>2. QED
      BY <1>1, <1>2, <2>1 DEF TypeOK, Rest
  <1>6. \A x \in Machines : keyFile'[x] \in {0, made'[x]}
    BY <1>4 DEF TypeOK
  <1>7. direct' \in [Machines -> {None, "on", "off"}]
    BY DEF Joins, TypeOK
  <1>8. applications' \subseteq Applications
    <2>1. Application(m, i) \in Applications
      BY <1>1, EnrolmentAssumption DEF Application, Applications
    <2>2. QED
      BY <2>1 DEF Joins, TypeOK
  <1>9. \A x \in Machines : made'[x] > 0 =>
          \E j \in Nonces \ Forged : InviteNet[j] = NetOf[NameOf[x]]
    BY <1>4 DEF Joins, Verified, TypeOK
  <1>10. QED
    BY <1>5, <1>6, <1>7, <1>8, <1>9 DEF Joins, control, relay, TypeOK, Rest

\* Every step keeps the types.
LEMMA TypeStep ==
  ASSUME TypeOK, Rest, [Next]_vars
  PROVE  TypeOK' /\ Rest'
  <1> USE EnrolmentAssumption
  <1>1. ASSUME NEW m \in Machines, Reinstalled(m) PROVE TypeOK' /\ Rest'
    <2>1. keyFile' \in [Machines -> 0..MaxKeys] /\ \A x \in Machines : keyFile'[x] \in {0, made[x]}
      BY <1>1 DEF Reinstalled, TypeOK, Rest
    <2>2. direct' \in [Machines -> {None, "on", "off"}]
      BY <1>1 DEF Reinstalled, TypeOK
    <2>3. running' \in [Machines -> {None, "on", "off", "bad"}]
      BY <1>1 DEF Reinstalled, TypeOK
    <2>4. QED
      BY <1>1, <2>1, <2>2, <2>3 DEF Reinstalled, control, relay, TypeOK, Rest
  <1>2. ASSUME NEW m \in Machines, NEW on \in {"on", "off"}, SetsDirect(m, on)
        PROVE  TypeOK' /\ Rest'
    <2>1. direct' \in [Machines -> {None, "on", "off"}]
      BY <1>2 DEF SetsDirect, TypeOK
    <2>2. QED
      BY <1>2, <2>1 DEF SetsDirect, control, relay, TypeOK, Rest
  <1>3. ASSUME NEW m \in Machines, Starts(m) PROVE TypeOK' /\ Rest'
    <2>1. running' \in [Machines -> {None, "on", "off", "bad"}]
      BY <1>3, SwitchType DEF Starts, TypeOK
    <2>2. QED
      BY <1>3, <2>1 DEF Starts, control, relay, TypeOK, Rest
  <1>4. ASSUME NEW i \in Nonces, Expires(i) PROVE TypeOK' /\ Rest'
    BY <1>4 DEF Expires, machine, control, relay, TypeOK, Rest
  <1>5. ASSUME NEW a \in applications, Receives(a) PROVE TypeOK' /\ Rest'
    BY <1>5 DEF Receives, Takes, machine, relay, TypeOK, Rest
  <1>6. ASSUME NEW a \in counted, Records(a) PROVE TypeOK' /\ Rest'
    <2>1. a \in Applications /\ a.name \in Names
      BY DEF TypeOK, Applications
    <2>2. registry' \in [Names -> Entries \cup {Absent}]
      BY <1>6, <2>1, AppliedEntry DEF Records, TypeOK
    <2>3. QED
      BY <1>6, <2>2 DEF Records, machine, relay, TypeOK, Rest
  <1>7. CASE ReceiverDies
    BY <1>7 DEF ReceiverDies, machine, relay, TypeOK, Rest
  <1>8. ASSUME NEW n \in Names, Approves(n) PROVE TypeOK' /\ Rest'
    <2>1. registry[n] \in Entries
      BY <1>8 DEF Approves, TypeOK
    <2>2. [registry[n] EXCEPT !.status = "approved"] \in Entries
      BY <2>1 DEF Entries
    <2>3. registry' \in [Names -> Entries \cup {Absent}]
      BY <1>8, <2>2 DEF Approves, TypeOK
    <2>4. QED
      BY <1>8, <2>3 DEF Approves, machine, relay, TypeOK, Rest
  <1>9. ASSUME NEW n \in Names, Removes(n) PROVE TypeOK' /\ Rest'
    <2>1. approval' \in [Names -> {"never", "standing", "withdrawn"}]
      BY <1>9 DEF Removes, Rest
    <2>2. QED
      BY <1>9, <2>1 DEF Removes, machine, relay, TypeOK, Rest
  <1>10. CASE Derives \/ RelayStarts
    BY <1>10 DEF Derives, RelayStarts, Derived, machine, control, TypeOK, Rest
  <1>11. CASE UNCHANGED vars
    BY <1>11 DEF vars, TypeOK, Rest
  <1>12. QED
    BY JoinsType, <1>1, <1>2, <1>3, <1>4, <1>5, <1>6, <1>7, <1>8, <1>9, <1>10, <1>11 DEF Next


\* Every step keeps the rest: a nonce is taken once, by a verified application,
\* only its operator changes a name's approval, and a whitelist is derived from
\* the registry.
LEMMA LedgerStep ==
  ASSUME IInv, [Next]_vars
  PROVE  /\ OneIntakePerInvite' /\ Matching' /\ Entered' /\ ApprovalStands'
         /\ Earned(dropIn)' /\ Earned(dialers)'
  <1> DEFINE Goal == /\ OneIntakePerInvite' /\ Matching' /\ Entered' /\ ApprovalStands'
                     /\ Earned(dropIn)' /\ Earned(dialers)'
  <1> USE DEF IInv
  <1>a. ASSUME taken \subseteq taken' PROVE \A n : Invited(n) => Invited(n)'
    BY <1>a DEF Invited
  <1>b. ASSUME UNCHANGED <<taken, registry, approval, dropIn, dialers>> PROVE Goal
    BY <1>b DEF OneIntakePerInvite, Matching, Entered, Invited, ApprovalStands, Earned
  <1>c. ASSUME UNCHANGED <<taken, dropIn, dialers>>, Entered', ApprovalStands',
               \A n \in Names : approval[n] # "never" => approval'[n] # "never"
        PROVE  Goal
    BY <1>c DEF OneIntakePerInvite, Matching, Invited, Earned, TypeOK
  <1>1. ASSUME NEW m \in Machines, NEW i \in Nonces, Joins(m, i) PROVE Goal
    BY <1>1, <1>b DEF Joins, control, relay
  <1>2. ASSUME NEW m \in Machines, NEW on, Reinstalled(m) \/ SetsDirect(m, on) \/ Starts(m)
        PROVE  Goal
    BY <1>2, <1>b DEF Reinstalled, SetsDirect, Starts, control, relay
  <1>3. ASSUME NEW i \in Nonces, Expires(i) PROVE Goal
    BY <1>3, <1>b DEF Expires, control, relay
  <1>4. ASSUME NEW a \in applications, Receives(a) PROVE Goal
    <2>1. /\ taken' = taken \cup {a} /\ a.nonce \notin used
          /\ InviteNet[a.nonce] = NetOf[a.name]
          /\ UNCHANGED <<registry, approval, dropIn, dialers>>
      BY <1>4 DEF Receives, Takes, Verified, relay
    <2>2. OneIntakePerInvite'
      BY <2>1 DEF OneIntakePerInvite, TypeOK
    <2>3. Matching'
      BY <2>1 DEF Matching
    <2>4. \A n : Invited(n) => Invited(n)'
      BY <2>1, <1>a
    <2>5. QED
      BY <2>1, <2>2, <2>3, <2>4 DEF Entered, ApprovalStands, Earned
  <1>5. ASSUME NEW a \in counted, Records(a) PROVE Goal
    <2>1. a \in taken /\ a \in Applications /\ a.name \in Names
      BY DEF TypeOK, Applications
    <2>2. /\ registry' = [registry EXCEPT ![a.name] = Applied(a.name, a)]
          /\ UNCHANGED <<taken, approval, dropIn, dialers>>
      BY <1>5 DEF Records, relay
    <2>3. Entered'
      <3>1. Invited(a.name)
        BY <2>1 DEF Matching, Invited
      <3>2. \A n \in Names : registry'[n] # Absent => n = a.name \/ registry[n] # Absent
        BY <2>2 DEF TypeOK
      <3>3. QED
        BY <2>2, <3>1, <3>2 DEF Entered, Invited
    <2>4. ApprovalStands'
      BY <2>1, <2>2, AppliedEntry DEF ApprovalStands, TypeOK
    <2>5. QED
      BY <2>2, <2>3, <2>4, <1>c
  <1>6. CASE ReceiverDies
    BY <1>6, <1>b DEF ReceiverDies, relay
  <1>7. ASSUME NEW n \in Names, Approves(n) PROVE Goal
    <2>1. /\ registry[n] \in Entries /\ registry[n] # Absent
          /\ registry' = [registry EXCEPT ![n].status = "approved"]
          /\ approval' = [approval EXCEPT ![n] = "standing"]
          /\ UNCHANGED <<taken, dropIn, dialers>>
      BY <1>7 DEF Approves, relay, TypeOK
    <2>2. registry'[n].status = "approved" /\ approval'[n] = "standing"
      BY <2>1 DEF TypeOK, Rest, Entries
    <2>3. \A k \in Names \ {n} : registry'[k] = registry[k] /\ approval'[k] = approval[k]
      BY <2>1 DEF TypeOK, Rest
    <2>4. ApprovalStands'
      BY <2>2, <2>3 DEF ApprovalStands
    <2>5. Entered'
      BY <2>1, <2>3 DEF Entered, Invited
    <2>6. QED
      BY <2>1, <2>2, <2>3, <2>4, <2>5, <1>c
  <1>8. ASSUME NEW n \in Names, Removes(n) PROVE Goal
    <2>1. /\ registry' = [registry EXCEPT ![n] = Absent]
          /\ approval' = [approval EXCEPT ![n] = IF @ = "never" THEN @ ELSE "withdrawn"]
          /\ UNCHANGED <<taken, dropIn, dialers>>
      BY <1>8 DEF Removes, relay
    <2>2. registry'[n] = Absent /\ approval'[n] \in {"never", "withdrawn"}
          /\ (approval[n] # "never" => approval'[n] # "never")
      BY <2>1 DEF TypeOK, Rest
    <2>3. \A k \in Names \ {n} : registry'[k] = registry[k] /\ approval'[k] = approval[k]
      BY <2>1 DEF TypeOK, Rest
    <2>4. ApprovalStands'
      BY <2>2, <2>3, EntryStatus DEF ApprovalStands
    <2>5. Entered'
      BY <2>1, <2>2, <2>3 DEF Entered, Invited
    <2>6. QED
      BY <2>1, <2>2, <2>3, <2>4, <2>5, <1>c
  <1>9. CASE Derives
    <2>1. /\ dropIn' = Derived
          /\ UNCHANGED <<taken, registry, approval, dialers>>
      BY <1>9 DEF Derives, control
    <2>2. \A n \in Derived : approval[n] # "never" /\ Invited(n)
      <3> SUFFICES ASSUME NEW n \in Names, registry[n].status = "approved"
                   PROVE  approval[n] # "never" /\ Invited(n)
        BY DEF Derived
      <3>1. approval[n] = "standing"
        BY DEF ApprovalStands
      <3>2. registry[n] # Absent
        BY EntryStatus
      <3>3. QED
        BY <3>1, <3>2 DEF Entered
    <2>3. QED
      BY <2>1, <2>2 DEF OneIntakePerInvite, Matching, Entered, Invited, ApprovalStands, Earned
  <1>10. CASE RelayStarts
    BY <1>10 DEF RelayStarts, control, OneIntakePerInvite, Matching, Entered, Invited,
                 ApprovalStands, Earned
  <1>11. CASE UNCHANGED vars
    BY <1>11, <1>b DEF vars
  <1>12. QED
    BY <1>1, <1>2, <1>3, <1>4, <1>5, <1>6, <1>7, <1>8, <1>9, <1>10, <1>11 DEF Next

\* The invariant holds in every reachable state.
THEOREM Invariance == Spec => []IInv
  <1>1. IInv /\ [Next]_vars => IInv'
    BY TypeStep, LedgerStep DEF IInv
  <1>2. QED
    BY InitInv, <1>1, PTL DEF Spec

-----------------------------------------------------------------------------
(* Theorems *)

\* The files of machine, control plane and relay have their types, a key on disk
\* is the last its machine made, and no machine has one without an invitation.
THEOREM TypeCorrect == Spec => []TypeOK
  <1>1. IInv => TypeOK
    BY DEF IInv
  <1>2. QED
    BY <1>1, Invariance, PTL

\* However many copies of an invitation are handed in at once, whatever dies
\* between the ledger and the registry and however old a whitelist is: one
\* invitation lets one application in, the approved are those the operator stands
\* by, and nobody dials who was not invited and approved (registry.ts, network.ts).
THEOREM EnrolmentCorrect == Spec => []EnrolmentSafe
  <1>1. IInv => EnrolmentSafe
    BY DEF IInv, Earned, Invited, EnrolmentSafe, WhitelistEarned
  <1>2. QED
    BY <1>1, Invariance, PTL
=============================================================================
