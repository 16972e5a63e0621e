------------------------------ MODULE DshProxy ------------------------------
(***************************************************************************)
(* The reverse proxy in front of one user's instance (supervisor/proxy.ts) *)
(* and the routes that wake it (web/routes/dsh.ts), with the browser's jar *)
(* of instance cookies.                                                    *)
(*                                                                         *)
(* Every start of the instance is a new generation: it listens on a port   *)
(* of its own, prints a launch token and only knows the cookie of that     *)
(* generation.  A token, a cookie name and a generation are therefore the  *)
(* same number here; 0 is "none".  A request captures the jar when it is   *)
(* sent and the endpoint when it is resolved, and both may be out of date  *)
(* by the time they are used.  Answers travel back one by one and may      *)
(* overtake each other.                                                    *)
(***************************************************************************)
EXTENDS Integers, FiniteSets

CONSTANTS
  Requests,   \* requests the browser may have under way at once
  Ports,      \* the instance ports
  KindsOf(_), \* the kinds of request a request may be
  MaxGen      \* bound: starts of the instance

ProxyAssumption == MaxGen \in Nat \ {0} /\ Ports # {} /\ Ports \subseteq Nat

VARIABLES
  main,       \* supervisor.mains for the user: the record of the instance
  printed,    \* generations whose record holds the launch token they printed
  session,    \* the user's login session is valid
  req,        \* per request: where the handler stands and what it holds
  jar         \* generations whose dsh-auth cookie the browser keeps

vars == <<main, printed, session, req, jar>>

Gens == 0 .. MaxGen
Kinds == {"nav", "get", "post", "upload", "ws", "enter"}
Waiting == {"resolve", "launch", "wait", "again", "forward", "heal", "fetch", "redirect"}
Idle == [at |-> "idle", kind |-> "get", cookies |-> {}, token |-> 0, port |-> 0, gen |-> 0,
         own |-> FALSE, connRetry |-> FALSE, healed |-> FALSE, auth |-> 0, tries |-> 0, calm |-> FALSE,
         got |-> "none", set |-> {}, clear |-> {}]

TypeOK ==
  /\ main \in [gen : Gens, status : {"none", "starting", "running", "crashed"},
               port : Ports \cup {0}, listens : BOOLEAN]
  /\ printed \subseteq 1 .. MaxGen
  /\ session \in BOOLEAN
  /\ req \in [Requests -> [at : {"idle", "answered"} \cup Waiting, kind : Kinds,
                           cookies : SUBSET (1 .. MaxGen), token : Gens, port : Ports \cup {0},
                           gen : Gens, own : BOOLEAN, connRetry : BOOLEAN, healed : BOOLEAN, auth : Gens,
                           tries : 0 .. 4, calm : BOOLEAN,
                           got : {"none", "page", "wake", "login", "unauthorized", "unavailable",
                                  "fresh", "destroyed", "session"},
                           set : SUBSET (1 .. MaxGen), clear : SUBSET (1 .. MaxGen)]]
  /\ jar \subseteq 1 .. MaxGen

Init ==
  /\ main = [gen |-> 0, status |-> "none", port |-> 0, listens |-> FALSE]
  /\ printed = {}
  /\ session = TRUE
  /\ req = [r \in Requests |-> Idle]
  /\ jar = {}

-----------------------------------------------------------------------------
(* The instance *)

Alive == main.status \in {"starting", "running"}
TokenOf(g) == IF g \in printed THEN g ELSE 0
LaunchToken == IF main.status = "none" THEN 0 ELSE TokenOf(main.gen)
Started(g, p) == [gen |-> g, status |-> "starting", port |-> p, listens |-> FALSE]
Disturbed == [r \in Requests |-> [req[r] EXCEPT !.calm = FALSE]]

Listens ==
  /\ Alive /\ ~main.listens
  /\ main' = [main EXCEPT !.listens = TRUE, !.status = "running"]
  /\ UNCHANGED <<printed, session, req, jar>>

PrintsToken ==
  /\ main.listens /\ main.gen \notin printed
  /\ printed' = printed \cup {main.gen}
  /\ UNCHANGED <<main, session, req, jar>>

\* The record stays in `mains` until the restart timer replaces it.
Crashes ==
  /\ Alive
  /\ main' = [main EXCEPT !.status = "crashed", !.listens = FALSE]
  /\ req' = Disturbed
  /\ UNCHANGED <<printed, session, jar>>

Restarts ==
  /\ main.status = "crashed" /\ main.gen < MaxGen
  /\ \E p \in Ports : main' = Started(main.gen + 1, p)
  /\ req' = Disturbed
  /\ UNCHANGED <<printed, session, jar>>

Stops ==
  /\ main.status # "none"
  /\ main' = [main EXCEPT !.status = "none", !.port = 0, !.listens = FALSE]
  /\ req' = Disturbed
  /\ UNCHANGED <<printed, session, jar>>

SessionEnds ==
  /\ session /\ session' = FALSE
  /\ req' = Disturbed
  /\ UNCHANGED <<main, printed, jar>>

-----------------------------------------------------------------------------
(* A request *)

Now(r, f) == req' = [req EXCEPT ![r] = f]
Answered(r, got) == [Idle EXCEPT !.at = "answered", !.kind = req[r].kind, !.calm = req[r].calm, !.got = got]
Answer(r, got) == Now(r, Answered(r, got))

Asks(r) ==
  /\ req[r].at = "idle"
  /\ \E k \in KindsOf(r), t \in printed \cup {0} :
       /\ t # 0 => k = "nav"
       /\ Now(r, [Idle EXCEPT !.at = "resolve", !.kind = k, !.cookies = jar, !.token = t])
  /\ UNCHANGED <<main, printed, session, jar>>

\* What the subdomain leads to: a port, or the reason there is none.
Reached(r) == session /\ main.port # 0
Forwarding(r) == [req[r] EXCEPT !.at = "forward", !.port = main.port]

Resolves(r) ==
  /\ req[r].at = "resolve" /\ req[r].kind # "enter"
  /\ \/ /\ Reached(r)
        /\ Now(r, [Forwarding(r) EXCEPT !.calm = main.listens /\ LaunchToken # 0])
     \/ /\ ~session
        /\ Answer(r, CASE req[r].kind = "nav" -> "login" [] req[r].kind = "ws" -> "destroyed"
                       [] OTHER -> "unauthorized")
     \/ /\ session /\ main.port = 0
        /\ CASE req[r].kind = "nav" -> Answer(r, "wake")
             [] req[r].kind = "ws" -> Answer(r, "destroyed")
             [] OTHER -> Now(r, [req[r] EXCEPT !.at = "launch"])
  /\ UNCHANGED <<main, printed, session, jar>>

\* An instance that is there is waited for; with none there, one is started.
Launches(r) ==
  /\ req[r].at = "launch"
  /\ \/ /\ main.status = "none" /\ main.gen < MaxGen
        /\ \E p \in Ports : main' = Started(main.gen + 1, p)
        /\ req' = [Disturbed EXCEPT ![r] = [req[r] EXCEPT !.at = "wait", !.gen = main.gen + 1, !.own = TRUE]]
     \/ /\ main.status # "none" \/ main.gen = MaxGen
        /\ Now(r, [req[r] EXCEPT !.at = "wait", !.gen = main.gen])
        /\ UNCHANGED main
  /\ UNCHANGED <<printed, session, jar>>

\* The wait ends with the token, with the instance, or after twenty seconds.
WaitEnds(r) ==
  /\ req[r].at = "wait"
  /\ Now(r, [req[r] EXCEPT !.at = "again"])
  /\ UNCHANGED <<main, printed, session, jar>>

ResolvesAgain(r) ==
  /\ req[r].at = "again" /\ req[r].kind # "enter"
  /\ IF Reached(r) THEN Now(r, Forwarding(r)) ELSE Answer(r, "unavailable")
  /\ UNCHANGED <<main, printed, session, jar>>

\* The cookies one attempt carries: the browser's, or those of the replay.
Carried(r) == IF req[r].auth # 0 THEN {req[r].auth} ELSE req[r].cookies
Connects(r) == main.listens /\ main.port = req[r].port
Known(r) == main.gen \in Carried(r) \/ req[r].token = main.gen
Stale(r, fresh) == req[r].cookies \ fresh

\* The instance accepts: its own cookie comes with a navigation by token, the
\* replayed one is handed to the browser.
Accepted(r) ==
  /\ req[r].at = "forward" /\ Connects(r) /\ Known(r)
  /\ LET issued == IF req[r].token = main.gen THEN {main.gen} ELSE {}
     IN Now(r, [Answered(r, "page") EXCEPT
                              !.clear = IF issued = {} THEN {} ELSE Stale(r, issued),
                              !.set = issued \cup (IF req[r].auth # 0 THEN {req[r].auth} ELSE {})])
  /\ UNCHANGED <<main, printed, session, jar>>

\* Mutant: only a request with a buffered body is replayed.
ReplayableBody(r) == req[r].kind = "post" /\ ~req[r].healed
Replayable(r) == req[r].kind \in {"get", "post"} /\ ~req[r].healed

\* 401 of the instance: a replay once, a redirect for a navigation.
Refused(r) ==
  /\ req[r].at = "forward" /\ Connects(r) /\ ~Known(r)
  /\ LET tried == [req[r] EXCEPT !.tries = @ + 1]
     IN Now(r, CASE Replayable(r) -> [tried EXCEPT !.at = "heal", !.healed = TRUE]
                 [] req[r].kind = "nav" -> [tried EXCEPT !.at = "redirect"]
                 [] OTHER -> Answered(r, "unauthorized"))
  /\ UNCHANGED <<main, printed, session, jar>>

\* Nobody listens: once more on a new connection, with the browser's own cookies.
ConnectionFails(r) ==
  /\ req[r].at = "forward" /\ ~Connects(r)
  /\ LET tried == [req[r] EXCEPT !.tries = @ + 1]
     IN Now(r, CASE req[r].kind = "ws" -> Answered(r, "destroyed")
                 [] req[r].connRetry -> Answered(r, "unavailable")
                 [] OTHER -> [tried EXCEPT !.connRetry = TRUE, !.auth = 0])
  /\ UNCHANGED <<main, printed, session, jar>>

\* The token of the instance that runs now ...
Heals(r) ==
  /\ req[r].at = "heal"
  /\ IF LaunchToken = 0 THEN Answer(r, "unauthorized")
     ELSE Now(r, [req[r] EXCEPT !.at = "fetch", !.gen = LaunchToken])
  /\ UNCHANGED <<main, printed, session, jar>>

\* ... is shown to the endpoint the request holds, which answers with a cookie
\* only if it is that instance.
Fetches(r) ==
  /\ req[r].at = "fetch"
  /\ IF Connects(r) /\ main.gen = req[r].gen
       THEN Now(r, [req[r] EXCEPT !.at = "forward", !.auth = main.gen, !.connRetry = FALSE])
       ELSE Answer(r, "unauthorized")
  /\ UNCHANGED <<main, printed, session, jar>>

Redirects(r) ==
  /\ req[r].at = "redirect"
  /\ Now(r, [Answered(r, "fresh") EXCEPT !.gen = LaunchToken])
  /\ UNCHANGED <<main, printed, session, jar>>

\* POST /api/dsh/enter: an instance that lives is waited for, none is started.
Enters(r) ==
  /\ req[r].at = "resolve" /\ req[r].kind = "enter"
  /\ CASE ~session -> Answer(r, "unauthorized")
       [] Alive -> Now(r, [req[r] EXCEPT !.at = IF LaunchToken # 0 THEN "again" ELSE "wait", !.gen = main.gen])
       [] OTHER -> Now(r, [req[r] EXCEPT !.at = "launch"])
  /\ UNCHANGED <<main, printed, session, jar>>

\* The request that started the instance returns whatever token its record holds.
EnterEnds(r) ==
  /\ req[r].at = "again" /\ req[r].kind = "enter"
  /\ CASE req[r].own -> Now(r, [Answered(r, "session") EXCEPT !.gen = TokenOf(req[r].gen)])
       [] ~req[r].own /\ Alive /\ LaunchToken # 0 ->
            Now(r, [Answered(r, "session") EXCEPT !.gen = main.gen])
       [] OTHER -> Answer(r, "unavailable")
  /\ UNCHANGED <<main, printed, session, jar>>

\* The answer reaches the browser.
Arrives(r) ==
  /\ req[r].at = "answered"
  /\ jar' = (jar \ req[r].clear) \cup req[r].set
  /\ Now(r, Idle)
  /\ UNCHANGED <<main, printed, session>>

Handles(r) ==
  \/ Resolves(r) \/ Launches(r) \/ WaitEnds(r) \/ ResolvesAgain(r) \/ Accepted(r) \/ Refused(r)
  \/ ConnectionFails(r) \/ Heals(r) \/ Fetches(r) \/ Redirects(r) \/ Enters(r) \/ EnterEnds(r)

Next ==
  \/ Listens \/ PrintsToken \/ Crashes \/ Restarts \/ Stops \/ SessionEnds
  \/ \E r \in Requests : Asks(r) \/ Handles(r) \/ Arrives(r)

Spec == Init /\ [][Next]_vars

-----------------------------------------------------------------------------
(* Properties *)

\* An instance that listens, has printed its token and is left alone while the
\* request is handled never leaves the user with a refusal or an outage: the
\* stale cookie of an open page is replaced on the way, a navigation is sent to
\* the current token (proxyHttp: attempt, freshAuthUrl).
StableServes ==
  \A r \in Requests :
    req[r].at = "answered" /\ req[r].calm /\ req[r].kind \in {"nav", "get", "post"} =>
      req[r].got \in {"page", "fresh"}

\* Retry and replay together are bounded: a request reaches the instance at most
\* four times, whatever fails in whatever order (connRetry, authRetryUsed).
AttemptsBounded == \A r \in Requests : req[r].tries <= 4

\* A late answer never takes the cookie of the running instance from the browser
\* (the clearing of stale dsh-auth names in proxyHttp).
CurrentCookieKept == [][main' = main /\ main.gen \in jar => main.gen \in jar']_vars

\* No request is stranded, also over a start that never finishes, an endpoint
\* that moves and an instance that goes away: whatever happened meanwhile, the
\* handler has a next step (the outage of 2026-09-09 hung).
NoRequestStranded == \A r \in Requests : req[r].at \in Waiting => ENABLED Handles(r)
=============================================================================
