------------------------------ MODULE MCServices ------------------------------
(***************************************************************************)
(* A small instance of the parts that stand beside the request path: the   *)
(* threads in the background with the end of main, the rate limiter, the   *)
(* header tables of HTTP/2, the routes of a virtual host, and the sizes    *)
(* computed at startup.  They share no state, so each behaviour runs one   *)
(* of them, chosen in the initial state, and leaves the others alone.      *)
(***************************************************************************)
EXTENDS Background, RateLimiter, Hpack, Routes, Adaptive, TLC

CONSTANTS t1, t2, a, b, c, u, m, p, x, y

VARIABLE part

(* Two addresses share a home slot: with a third they fill the table. *)
TwoAlike == (a :> 0) @@ (b :> 0) @@ (c :> 1)

StaticTable == << [name |-> m, value |-> u], [name |-> p, value |-> "empty"] >>
OneAndTwo == (m :> 1) @@ (p :> 2)

Route(s, t, v) == [source |-> s, target |-> t, vars |-> v]
Contents == { << Route(<<x>>, "one", TRUE) >>,
              << Route(<<x>>, "one", FALSE), Route(<<x, y>>, "two", TRUE) >> }
Uris == { <<x, y>> }

Bits24 == 2^24
Bits20 == 2^20
CoreCounts == {1, 16, 128}
RamSizes == {512, 1023, 1024, 3000, 8192, 32768}
FdLimits == {0, 1024, 2^19, 2^20 - 1, 2^21}
FpmFiles == {<<>>, <<30>>, <<2000, 0>>}

OneHost == [cores |-> 1, ram |-> 1024, fd |-> 1024, active |-> {}, fpm |-> <<>>]

servicesVars == <<allVars, limiterVars, hpackVars, routeVars, adaptiveVars, part>>

ServicesInit ==
  /\ part \in {"background", "limiter", "hpack", "routes", "adaptive"}
  /\ Init /\ BgInit
  /\ part = "background" \/ (bg.monitor = "gone" /\ bg.janitor = "gone")
  /\ LimiterInit /\ HpackInit /\ RoutesInit
  /\ IF part = "adaptive" THEN AdaptiveInit ELSE host = OneHost /\ sizes = {}

ServicesNext ==
  /\ UNCHANGED part
  /\ \/ /\ part = "background" /\ BgNext
        /\ UNCHANGED <<limiterVars, hpackVars, routeVars, adaptiveVars>>
     \/ /\ part = "limiter" /\ LimiterNext
        /\ UNCHANGED <<allVars, hpackVars, routeVars, adaptiveVars>>
     \/ /\ part = "hpack" /\ HpackNext
        /\ UNCHANGED <<allVars, limiterVars, routeVars, adaptiveVars>>
     \/ /\ part = "routes" /\ RoutesNext
        /\ UNCHANGED <<allVars, limiterVars, hpackVars, adaptiveVars>>
     \/ /\ part = "adaptive" /\ AdaptiveNext
        /\ UNCHANGED <<allVars, limiterVars, hpackVars, routeVars>>

(* A thread that can run does, and one that waits for a mutex gets it in   *)
(* the end; every timed wait of the background threads ends.  A dispatch   *)
(* of a worker need not.                                                   *)
Alive(A) == part = "background" /\ fin # "exit" /\ A
            /\ UNCHANGED <<limiterVars, hpackVars, routeVars, adaptiveVars, part>>

ServicesFairness ==
  /\ \A t \in Thread :
       /\ WF_servicesVars(Alive(ThreadStep(t) /\ UNCHANGED bgVars))
       /\ SF_servicesVars(Alive(Acquires(t) /\ UNCHANGED bgVars))
  /\ WF_servicesVars(Alive(Logger))
  /\ WF_servicesVars(Alive(Monitor))
  /\ WF_servicesVars(Alive(JanitorLoops \/ JanitorCleans))
  /\ WF_servicesVars(Alive(Cleanup /\ fin' # "tables"))
  /\ WF_servicesVars(Alive(Cleanup))

ServicesSpec == ServicesInit /\ [][ServicesNext]_servicesVars
FairServicesSpec == ServicesSpec /\ ServicesFairness
=============================================================================
