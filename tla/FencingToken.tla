---------------------------- MODULE FencingToken ----------------------------
(***************************************************************************)
(* What the ownership lease promises, without hosts, clocks or calls: every *)
(* grant is a new, higher token, handed to one Manager, and a Manager only  *)
(* ever loses the tokens it was given (src/src/supervisor/lease.ts header,  *)
(* invariants 1 and 3).                                                     *)
(***************************************************************************)
EXTENDS Naturals

CONSTANT Managers

VARIABLES
    token,      \* the highest token granted so far
    granted     \* the tokens each Manager can put to use

vars == <<token, granted>>

Init ==
    /\ token = 0
    /\ granted = [m \in Managers |-> {0}]

Grant(m) ==
    /\ token' = token + 1
    /\ granted' = [granted EXCEPT ![m] = @ \cup {token + 1}]

\* Some Managers forget tokens; 0, no token at all, may come back.
Forget ==
    /\ UNCHANGED token
    /\ DOMAIN granted' = Managers
    /\ \A m \in Managers : granted'[m] \subseteq granted[m] \cup {0}

Next == Forget \/ \E m \in Managers : Grant(m)

Spec == Init /\ [][Next]_vars
=============================================================================
