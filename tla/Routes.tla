-------------------------------- MODULE Routes --------------------------------
(***************************************************************************)
(* The routes of a virtual host: the event loop reloads .htroute into the  *)
(* table entry by entry while workers match and apply routes without any   *)
(* lock.  A reload is set off by inotify and done only if the modification *)
(* time, in whole seconds, is newer than that of the last one.             *)
(***************************************************************************)
EXTENDS Integers, SequencesExt

CONSTANTS
  Segment,          (* segments of a path                                   *)
  Target,           (* targets of a route                                   *)
  File,             (* contents .htroute may have: sequences of routes      *)
  Uri,              (* request URIs, as sequences of segments               *)
  MaxRoutes,        (* MAX_ROUTES                                           *)
  LastMoment        (* bound: how far the clock runs                         *)

(* A route: source prefix, target, and whether it names query variables    *)
(* (RT_QUERY), the last thing the loader fills in.                         *)
RouteEntry == [source : Seq(Segment), target : Target, vars : BOOLEAN]

ASSUME RoutesAssumption ==
  /\ File \subseteq Seq(RouteEntry) /\ Uri \subseteq Seq(Segment)
  /\ MaxRoutes \in Nat \ {0} /\ LastMoment \in Nat

VARIABLES
  htroute,          (* .htroute, as a sequence of at most one [text, mtime] *)
  second,           (* time(NULL)                                           *)
  inotify,          (* an event waits                                       *)
  routes,           (* vh->routes                                           *)
  total_routes,
  last_route_mtime,
  loading,          (* the reload in progress, as a sequence of at most one *)
  seen,             (* the request being routed, likewise                   *)
  loaded,           (* history: the text that total_routes stands for       *)
  missed            (* history: a change that mtime or inotify does not show *)

routeVars == <<htroute, second, inotify, routes, total_routes, last_route_mtime,
               loading, seen, loaded, missed>>

Blank == [source |-> <<>>, target |-> "", vars |-> FALSE]

RoutesInit ==
  /\ htroute = <<>> /\ second = 1 /\ inotify = FALSE
  /\ routes = [i \in 1 .. MaxRoutes |-> Blank]
  /\ total_routes = 0 /\ last_route_mtime = 0
  /\ loading = <<>> /\ seen = <<>>
  /\ loaded = <<>> /\ missed = FALSE

-----------------------------------------------------------------------------
(* The administrator. *)

NextSecond ==
  /\ second < LastMoment
  /\ second' = second + 1
  /\ UNCHANGED <<htroute, inotify, routes, total_routes, last_route_mtime, loading, seen,
                 loaded, missed>>

(* The mtime that a reload will compare with. *)
Known == IF loading = <<>> THEN last_route_mtime ELSE loading[1].mtime

(* IN_MODIFY, IN_CREATE.  A change in the second of a load is not newer.   *)
Edit ==
  /\ \E f \in File : htroute' = <<[text |-> f, mtime |-> second]>>
  /\ inotify' = TRUE
  /\ missed' = (second = Known)
  /\ UNCHANGED <<second, routes, total_routes, last_route_mtime, loading, seen, loaded>>

(* IN_DELETE is not watched. *)
Delete ==
  /\ htroute # <<>>
  /\ htroute' = <<>>
  /\ missed' = TRUE
  /\ UNCHANGED <<second, inotify, routes, total_routes, last_route_mtime, loading, seen, loaded>>

-----------------------------------------------------------------------------
(* The event loop. *)

(* A request in progress notes that what it may read has changed.          *)
Disturb(now) ==
  seen' = IF \E i \in 1 .. total_routes : routes[i] # now[i]
            THEN [k \in DOMAIN seen |-> [seen[k] EXCEPT !.disturbed = TRUE]] ELSE seen

(* The event is read and the file looked at: stat. *)
Reload ==
  /\ inotify /\ loading = <<>>
  /\ inotify' = FALSE
  /\ IF htroute = <<>>
       THEN /\ total_routes' = 0 /\ loaded' = <<>>
            /\ last_route_mtime' = IF total_routes > 0 THEN 0 ELSE last_route_mtime
            /\ seen' = [k \in DOMAIN seen |->
                          [seen[k] EXCEPT !.disturbed = @ \/ total_routes > 0]]
            /\ missed' = FALSE
            /\ UNCHANGED loading
       ELSE /\ loading' = IF htroute[1].mtime > last_route_mtime
                            THEN <<[text |-> <<>>, open |-> FALSE, next |-> 1,
                                    filled |-> FALSE, mtime |-> htroute[1].mtime]>>
                            ELSE <<>>
            /\ UNCHANGED <<total_routes, loaded, last_route_mtime, seen, missed>>
  /\ UNCHANGED <<htroute, second, routes>>

Loader == loading[1]

(* fopen: the text may be newer than the time that was read.  If the file  *)
(* has gone meanwhile, the routes stay, but the time is stored.            *)
Open ==
  /\ loading # <<>> /\ ~Loader.open
  /\ IF htroute = <<>>
       THEN loading' = <<>> /\ last_route_mtime' = Loader.mtime
       ELSE /\ loading' = <<[Loader EXCEPT !.text = htroute[1].text, !.open = TRUE]>>
            /\ UNCHANGED last_route_mtime
  /\ UNCHANGED <<htroute, second, inotify, routes, total_routes, seen, loaded, missed>>

More == Loader.next <= Len(Loader.text) /\ Loader.next <= MaxRoutes

(* Fault: the number of routes is stored by the first line. *)
LoadRouteCounted ==
  /\ loading # <<>> /\ More /\ ~Loader.filled
  /\ routes' = [routes EXCEPT ![Loader.next] =
                  [Loader.text[Loader.next] EXCEPT !.vars = FALSE]]
  /\ loading' = <<[Loader EXCEPT !.filled = TRUE]>>
  /\ total_routes' = Len(Loader.text)
  /\ Disturb(routes')
  /\ UNCHANGED <<htroute, second, inotify, last_route_mtime, loaded, missed>>

(* One line: source, target and type, and var_count = 0.                   *)
LoadRoute ==
  /\ loading # <<>> /\ More /\ ~Loader.filled
  /\ routes' = [routes EXCEPT ![Loader.next] =
                  [Loader.text[Loader.next] EXCEPT !.vars = FALSE]]
  /\ loading' = <<[Loader EXCEPT !.filled = TRUE]>>
  /\ Disturb(routes')
  /\ UNCHANGED <<htroute, second, inotify, total_routes, last_route_mtime, loaded, missed>>

(* Its variables, if it is RT_QUERY. *)
LoadVars ==
  /\ loading # <<>> /\ More /\ Loader.filled
  /\ routes' = [routes EXCEPT ![Loader.next] = Loader.text[Loader.next]]
  /\ loading' = <<[Loader EXCEPT !.filled = FALSE, !.next = @ + 1]>>
  /\ Disturb(routes')
  /\ UNCHANGED <<htroute, second, inotify, total_routes, last_route_mtime, loaded, missed>>

(* The number of routes is stored last, and then the time of the file.     *)
StoreTotal ==
  /\ loading # <<>> /\ Loader.open /\ ~More
  /\ total_routes' = Loader.next - 1
  /\ loaded' = Loader.text
  /\ last_route_mtime' = Loader.mtime
  /\ loading' = <<>>
  /\ seen' = [k \in DOMAIN seen |->
                [seen[k] EXCEPT !.disturbed = @ \/ total_routes' < total_routes,
                                !.texts = @ \cup {Loader.text}]]
  /\ UNCHANGED <<htroute, second, inotify, routes, missed>>

-----------------------------------------------------------------------------
(* A worker. *)

Receive ==
  /\ seen = <<>>
  /\ \E u \in Uri : seen' = <<[uri |-> u, i |-> 0, best |-> 0, max_len |-> 0, answer |-> <<>>,
                               texts |-> {loaded},
                               disturbed |-> \E i \in DOMAIN loaded \cap DOMAIN routes :
                                              routes[i] # loaded[i]]>>
  /\ UNCHANGED <<htroute, second, inotify, routes, total_routes, last_route_mtime, loading,
                 loaded, missed>>

(* The longer prefix wins, the first of several equals. *)
Better(s, max_len) == Len(s) > max_len

(* http_route_match looks at the next route. *)
Request == seen[1]
Match ==
  /\ seen # <<>> /\ Request.i >= 0 /\ Request.i < total_routes
  /\ LET i == Request.i + 1
         s == routes[i].source
     IN  seen' = <<IF IsPrefix(s, Request.uri) /\ Better(s, Request.max_len)
                     THEN [Request EXCEPT !.i = i, !.best = i, !.max_len = Len(s)]
                     ELSE [Request EXCEPT !.i = i]>>
  /\ UNCHANGED <<htroute, second, inotify, routes, total_routes, last_route_mtime, loading,
                 loaded, missed>>

(* http_route_apply_logic reads the route again: target, what remains of   *)
(* the URI behind the source, variables.                                   *)
Applied(r, u) == [target |-> r.target, rest |-> Len(u) - Len(r.source), vars |-> r.vars]

Apply ==
  /\ seen # <<>> /\ Request.i >= total_routes
  /\ seen' = <<[Request EXCEPT
                  !.i = -1,
                  !.answer = IF Request.best = 0 THEN <<>>
                             ELSE <<Applied(routes[Request.best], Request.uri)>>]>>
  /\ UNCHANGED <<htroute, second, inotify, routes, total_routes, last_route_mtime, loading,
                 loaded, missed>>

Serve ==
  /\ seen # <<>> /\ Request.i = -1
  /\ seen' = <<>>
  /\ UNCHANGED <<htroute, second, inotify, routes, total_routes, last_route_mtime, loading,
                 loaded, missed>>

RoutesNext ==
  \/ NextSecond \/ Edit \/ Delete
  \/ Reload \/ Open \/ LoadRoute \/ LoadVars \/ StoreTotal
  \/ Receive \/ Match \/ Apply \/ Serve

RoutesSpec == RoutesInit /\ [][RoutesNext]_routeVars

-----------------------------------------------------------------------------
(* What a text says of a URI: the first of its longest matching prefixes.  *)
Routing(text, u) ==
  LET match == {i \in DOMAIN text : i <= MaxRoutes /\ IsPrefix(text[i].source, u)
                                     /\ text[i].source # <<>>}
      longest == {i \in match : \A j \in match : Len(text[j].source) <= Len(text[i].source)}
  IN  {<<Applied(text[i], u)>> : i \in {i \in longest : \A j \in longest : i <= j}}
        \cup {<<>> : x \in {x \in {0} : match = {}}}

(* A request is routed as one text of .htroute says, a single one, unless  *)
(* a reload changed a route in use or made them fewer while it was routed: *)
(* routes can be appended at any time, for total_routes is stored last.    *)
RoutedByOneText ==
  \A k \in DOMAIN seen :
    seen[k].i = -1 /\ ~seen[k].disturbed =>
      \E text \in seen[k].texts : seen[k].answer \in Routing(text, seen[k].uri)

(* When no event waits and nothing is being loaded the routes are those of *)
(* the file, unless it changed twice in a second or was deleted.           *)
RoutesFresh ==
  ~inotify /\ loading = <<>> /\ ~missed =>
    loaded = IF htroute = <<>> THEN <<>> ELSE htroute[1].text

(* The routes are always those of one text, and in the end the newest:     *)
(* RoutedByOneText and RoutesFresh.                                        *)
RoutesKept == RoutedByOneText /\ RoutesFresh

(* Every request is routed by one text, whenever it comes.  A reload that  *)
(* replaces a route breaks it.                                             *)
NeverTorn ==
  \A k \in DOMAIN seen :
    seen[k].i = -1 =>
      \E text \in seen[k].texts : seen[k].answer \in Routing(text, seen[k].uri)
=============================================================================
