--------------------------- MODULE MCControlPlane ----------------------------
(* The Manager: the lease of a user's instance, with any clocks and calls, the  *)
(* choice of the host and the proxy.  One of the three runs, the others stay    *)
(* where they begin.                                                           *)
EXTENDS InstanceLease, HostRouting, TLC

CONSTANTS m1, m2, r1, r2

VARIABLES part,  \* the component that runs; the others stay where they begin
          main, printed, session, proxyReq, jar

\* m2 runs three units ahead.
FarClock == [m \in Managers |-> IF m = m2 THEN 3 ELSE 0]

RequestSymmetry == Permutations({r1, r2})

ProxyKinds(r) == IF r = 1 THEN {"nav", "post", "ws", "enter"} ELSE {"get"}

\* One request of any kind, and one of the page to race it.
Proxy == INSTANCE DshProxy WITH
    Requests <- {1, 2}, Ports <- {1, 2}, KindsOf <- ProxyKinds, MaxGen <- 2,
    req <- proxyReq

proxyVars == <<main, printed, session, proxyReq, jar>>

Parts == {"lease", "routing", "proxy"}

allVars == <<part, vars, routingVars, proxyVars>>

AllInit ==
  /\ part \in Parts
  /\ Init
  /\ RoutingInit
  /\ Proxy!Init

AllNext ==
  \/ part = "lease" /\ Next /\ UNCHANGED <<part, routingVars, proxyVars>>
  \/ part = "routing" /\ RoutingNext /\ UNCHANGED <<part, vars, proxyVars>>
  \/ part = "proxy" /\ Proxy!Next /\ UNCHANGED <<part, vars, routingVars>>

AllSpec == AllInit /\ [][AllNext]_allVars

-----------------------------------------------------------------------------
ASSUME ProxyConstants == Proxy!ProxyAssumption

\* The proxy in front of the instance (proxy.ts, dsh.ts): while nothing disturbs
\* them requests are served, every request is answered within its attempts, and
\* the browser keeps the cookie of the instance that runs.
ProxyServes ==
  /\ [](part = "proxy" => /\ Proxy!TypeOK /\ Proxy!StableServes /\ Proxy!AttemptsBounded
                          /\ Proxy!NoRequestStranded)
  /\ Proxy!CurrentCookieKept

=============================================================================
