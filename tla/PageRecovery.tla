---------------------------- MODULE PageRecovery ----------------------------
(***************************************************************************)
(* The script the proxy injects into every page of an instance             *)
(* (assets/inject/recovery.js): probes, soft failures, the overlay, the    *)
(* recovery through POST /api/dsh/enter and its bound.                     *)
(*                                                                         *)
(* The page's variables live in the page: leaving it, by replace or by     *)
(* reload, starts the script anew.  The instance is seen from the page:    *)
(* "ok" serves it, "broken" runs without serving it, "down" does not run.  *)
(***************************************************************************)
EXTENDS Integers, FiniteSets

CONSTANTS
  Probes,     \* probes that may be under way at once
  RecoverMax, \* RECOVER_MAX
  MaxBreaks,  \* bound: times the instance leaves the page
  MaxFaults   \* bound: platform calls that fail although the instance is well

RecoveryAssumption == RecoverMax \in Nat /\ MaxBreaks \in Nat /\ MaxFaults \in Nat

VARIABLES
  health,     \* the instance, seen from the page
  page,       \* the script's variables
  probe,      \* per probe: where it stands
  app,        \* one request of the application: "none", "sent" or "slow"
  recent,     \* recoveries within the last ten minutes, over all loads
  breaks, faults

vars == <<health, page, probe, app, recent, breaks, faults>>

NoProbe == [at |-> "none", soft |-> FALSE]
\* A page just loaded.
Fresh == [at |-> "open", state |-> "none", box |-> FALSE, retry |-> FALSE, recovering |-> FALSE,
          count |-> 0, softFails |-> 0, enter |-> "none", cooled |-> TRUE, failed |-> 0, silent |-> FALSE]

TypeOK ==
  /\ health \in {"ok", "broken", "down"}
  /\ page \in [at : {"open", "loading"}, state : {"none", "pending", "expired"}, box : BOOLEAN,
               retry : BOOLEAN, recovering : BOOLEAN, count : 0 .. RecoverMax + 1, softFails : 0 .. 3,
               enter : {"none", "asked", "leave", "same"}, cooled : BOOLEAN, failed : 0 .. 3, silent : BOOLEAN]
  /\ page.box <=> page.state # "none" \/ page.retry
  /\ probe \in [Probes -> [at : {"none", "status", "poke"}, soft : BOOLEAN]]
  /\ app \in {"none", "sent", "slow"}
  /\ recent \in 0 .. RecoverMax + 1
  /\ breaks \in 0 .. MaxBreaks /\ faults \in 0 .. MaxFaults

Init ==
  /\ health = "ok" /\ page = Fresh /\ probe = [p \in Probes |-> NoProbe] /\ app = "none"
  /\ recent = 0 /\ breaks = 0 /\ faults = 0

Open == page.at = "open"
Capped(n, cap) == IF n > cap THEN cap ELSE n

-----------------------------------------------------------------------------
(* The script's functions, from the page they find to the page they leave *)

ShowPending(p) == IF p.state = "expired" THEN p ELSE [p EXCEPT !.state = "pending", !.box = TRUE]
HidePending(p) == IF p.state # "pending" THEN p
                  ELSE [p EXCEPT !.state = "none", !.box = FALSE, !.retry = FALSE]
Expired(p) == IF p.state = "expired" THEN p ELSE [HidePending(p) EXCEPT !.state = "expired", !.box = TRUE]

OverBudget(p) == p.count + 1 > RecoverMax
Recovered(p) ==
  CASE p.recovering -> p
    [] ~p.recovering /\ OverBudget(p) ->
         [p EXCEPT !.count = @ + 1, !.recovering = TRUE, !.box = TRUE, !.retry = TRUE]
    [] OTHER -> ShowPending([p EXCEPT !.count = @ + 1, !.recovering = TRUE, !.enter = "asked"])
Counts(p) == ~p.recovering /\ ~OverBudget(p)

\* Mutant: a silent trigger acts on its first failure.
FailedAtOnce(p, soft) == Recovered([p EXCEPT !.failed = Capped(@ + 1, 3), !.silent = soft])
\* A failed probe: a silent one acts on the second failure in a row.
Failed(p, soft) ==
  LET q == [p EXCEPT !.failed = Capped(@ + 1, 3)]
      s == [q EXCEPT !.softFails = Capped(@ + 1, 3)]
  IN CASE ~soft -> Recovered(q)
       [] soft /\ s.softFails >= 2 -> Recovered([s EXCEPT !.silent = ~s.recovering])
       [] OTHER -> s

\* What a step makes of the page, and of the count over all loads.
Becomes(p) ==
  /\ page' = p
  /\ recent' = IF p.enter = "asked" /\ page.enter = "none" THEN Capped(recent + 1, RecoverMax + 1) ELSE recent

-----------------------------------------------------------------------------
(* The instance and the network *)

Breaks ==
  /\ breaks < MaxBreaks /\ breaks' = breaks + 1
  /\ health' \in {"broken", "down"} \ {health}
  /\ UNCHANGED <<page, probe, app, recent, faults>>

\* An instance that runs comes to serve; one that does not has to be asked for.
Serves ==
  /\ health = "broken" /\ health' = "ok"
  /\ UNCHANGED <<page, probe, app, recent, breaks, faults>>

WindowPasses ==
  /\ recent > 0 \/ page.count > 0
  /\ ~page.recovering
  /\ recent' = 0 /\ page' = [page EXCEPT !.count = 0]
  /\ UNCHANGED <<health, probe, app, breaks, faults>>

Fault == faults < MaxFaults /\ faults' = faults + 1

-----------------------------------------------------------------------------
(* Probes *)

\* visibilitychange, focus and pageshow probe aloud; the heartbeat and broken
\* streams probe silently.  At most one in fifteen seconds.
Probe(p, soft) ==
  /\ Open /\ ~page.recovering /\ page.cooled /\ probe[p] = NoProbe
  /\ probe' = [probe EXCEPT ![p] = [at |-> "status", soft |-> soft]]
  /\ page' = [page EXCEPT !.cooled = FALSE]
  /\ UNCHANGED <<health, app, recent, breaks, faults>>
Returns == \E p \in Probes : Probe(p, FALSE)
Heartbeat == \E p \in Probes : Probe(p, TRUE)

Cools ==
  /\ Open /\ ~page.cooled /\ page' = [page EXCEPT !.cooled = TRUE]
  /\ UNCHANGED <<health, probe, app, recent, breaks, faults>>

StatusAnswers(p) ==
  /\ probe[p].at = "status"
  /\ \/ /\ health = "down" /\ Becomes(Failed(page, probe[p].soft))
        /\ probe' = [probe EXCEPT ![p] = NoProbe]
        /\ UNCHANGED faults
     \/ /\ health # "down" /\ probe' = [probe EXCEPT ![p].at = "poke"]
        /\ UNCHANGED <<page, recent, faults>>
     \/ /\ Fault /\ probe' = [probe EXCEPT ![p] = NoProbe]
        /\ UNCHANGED <<page, recent>>
  /\ UNCHANGED <<health, app, breaks>>

\* Poke: "bad" when the instance does not serve, or by a fault of the network.
PokeAnswers(p) ==
  /\ probe[p].at = "poke"
  /\ probe' = [probe EXCEPT ![p] = NoProbe]
  /\ \/ /\ health = "ok" /\ page' = [page EXCEPT !.softFails = 0, !.failed = 0]
        /\ UNCHANGED <<recent, faults>>
     \/ /\ health # "ok" /\ Becomes(Failed(page, probe[p].soft)) /\ UNCHANGED faults
     \/ /\ health = "ok" /\ Fault /\ Becomes(Failed(page, probe[p].soft))
  /\ UNCHANGED <<health, app, breaks>>

-----------------------------------------------------------------------------
(* Recovery *)

\* enter starts an instance that does not run.  Without an address to go to the page
\* is loaded again; replace leaves it for the address that enter gave, unless that is
\* the page's own with the fragment kept (a launch whose token did not come within 20
\* seconds, so the address carries none): then the browser does not navigate.
EnterAnswers ==
  /\ page.enter = "asked"
  /\ \/ /\ health' = (IF health = "down" THEN "broken" ELSE health) /\ UNCHANGED faults
        /\ \E enter \in {"leave"} \cup (IF health = "down" THEN {"same"} ELSE {}) :
             page' = [page EXCEPT !.enter = enter]
     \/ Fault /\ page' = [page EXCEPT !.enter = "leave"] /\ UNCHANGED health
  /\ UNCHANGED <<probe, app, recent, breaks>>

\* The page recovers no more: `recovering` stays set.
Stranded == page.enter = "same"

Leaves ==
  /\ Open /\ (page.enter = "leave" \/ page.state = "expired")
  /\ page' = [Fresh EXCEPT !.at = "loading"]
  /\ probe' = [p \in Probes |-> NoProbe] /\ app' = "none"
  /\ UNCHANGED <<health, recent, breaks, faults>>

\* The proxy answers a navigation to an instance that does not serve with the
\* waking page or one that loads itself again; both end here.
Loads ==
  /\ page.at = "loading"
  /\ IF health = "ok" THEN page' = [page EXCEPT !.at = "open"] /\ UNCHANGED health
     ELSE UNCHANGED page /\ health' = (IF health = "down" THEN "broken" ELSE "ok")
  /\ UNCHANGED <<probe, app, recent, breaks, faults>>

\* The button of a page that has given up has no action: `recovering` is reset by
\* nothing but leaving the page, which also resets `count`, so no page gives up.

-----------------------------------------------------------------------------
(* The application's own requests: watch and hit *)

AppAsks ==
  /\ Open /\ app = "none" /\ app' = "sent"
  /\ UNCHANGED <<health, page, probe, recent, breaks, faults>>

AppIsSlow ==
  /\ app = "sent" /\ app' = "slow" /\ page' = ShowPending(page)
  /\ UNCHANGED <<health, probe, recent, breaks, faults>>

Ended(p) == IF app = "slow" THEN HidePending(p) ELSE p

\* The proxy starts the instance for the request where it can; a 401 (the replay
\* failed) or not_running means it could not.
AppAnswers ==
  /\ app # "none" /\ app' = "none"
  /\ \/ Becomes(Ended(page)) /\ UNCHANGED faults
     \/ /\ health # "ok" \/ faults < MaxFaults
        /\ faults' = IF health = "ok" THEN faults + 1 ELSE faults
        /\ Becomes(Expired(Ended(page))) \/ Becomes(Recovered(Ended(page)))
  /\ UNCHANGED <<health, probe, breaks>>

-----------------------------------------------------------------------------
Next ==
  \/ Breaks \/ Serves \/ WindowPasses \/ Returns \/ Heartbeat \/ Cools
  \/ (\E p \in Probes : StatusAnswers(p) \/ PokeAnswers(p))
  \/ EnterAnswers \/ Leaves \/ Loads \/ AppAsks \/ AppIsSlow \/ AppAnswers

Spec == Init /\ [][Next]_vars

\* Timers fire, requests end, a starting instance comes up.  The user need not
\* come back to the page and the application need not ask for anything.
FairSpec ==
  /\ Spec
  /\ WF_vars(Serves) /\ WF_vars(Heartbeat) /\ WF_vars(Cools) /\ WF_vars(EnterAnswers)
  /\ WF_vars(Leaves) /\ WF_vars(Loads) /\ WF_vars(AppAnswers)
  /\ \A p \in Probes : WF_vars(StatusAnswers(p)) /\ WF_vars(PokeAnswers(p))

-----------------------------------------------------------------------------
(* Properties *)

\* A recovery throws away what the user typed: a silent trigger starts one only
\* after two failures with no success between them, however probes overlap
\* (probe, softFails).
SilentNeedsTwo == [][~page.silent /\ page'.silent => page.failed >= 1]_vars

\* A page whose instance went away finds it again without the user: no flag,
\* lost answer or overlapping trigger leaves it disconnected, nor behind the overlay;
\* only one stranded at its own address stays so.
Reconnects == []<>((health = "ok" /\ Open) \/ Stranded)
OverlayGoes == []<>(~page.box \/ Stranded)
=============================================================================
