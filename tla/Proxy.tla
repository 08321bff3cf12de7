------------------------------- MODULE Proxy -------------------------------
(***************************************************************************)
(* The gateway's reverse proxy (gateway/src/proxy/mod.rs): ProxyService    *)
(* holds a route table fixed by ProxyService::new; for each request        *)
(* find_route picks the route, and forward rewrites the request URI with   *)
(* build_upstream_uri, "http://{host}:{port}{path}", after stripping the   *)
(* route's prefix if asked, and parses it back with parse::<Uri>().        *)
(*                                                                         *)
(* Paths and prefixes are sequences of characters over a small alphabet    *)
(* Chars, because both the prefix test (str::starts_with) and the URI      *)
(* re-parse work character by character.  The upstream request itself is   *)
(* I/O and not modelled: a step ends with the URI the client would call.  *)
(***************************************************************************)
EXTENDS Integers, Sequences

CONSTANTS
    Chars,       \* the path alphabet; "/" and at least one digit
    PathPrefixes,    \* path_prefix values of routes
    Priorities,  \* priority values of routes
    Port,        \* the upstream port, as its decimal digits
    MaxLen,      \* longest request path
    MaxRoutes    \* longest route table

DigitChars == <<"0", "1", "2", "3", "4", "5", "6", "7", "8", "9">>
Digit == [d \in {DigitChars[i] : i \in 1..10} |->
            (CHOOSE i \in 1..10 : DigitChars[i] = d) - 1]
Digits == DOMAIN Digit

ASSUME ProxyConstantsAssumption ==
    /\ "/" \in Chars /\ Chars \cap Digits # {}
    /\ Port \in Seq(Digits) /\ Port # <<>>
    /\ Priorities \subseteq Int
    /\ MaxLen \in Nat /\ MaxRoutes \in Nat \ {0}

VARIABLES
    routes,   \* ProxyService.routes
    last      \* the last call: find_route's choice, or forward's URI

vars == <<routes, last>>

\* Route: path_prefix, upstream.is_healthy, strip_prefix and priority; the
\* upstream host and port are the same for every route of the model.
Route == [prefix : PathPrefixes, healthy : BOOLEAN, strip : BOOLEAN,
          priority : Priorities]
RequestPaths == {p \in UNION {[1..n -> Chars] : n \in 1..MaxLen} : p[1] = "/"}

\* str::starts_with.
StartsWith(path, prefix) ==
    Len(prefix) <= Len(path) /\ SubSeq(path, 1, Len(prefix)) = prefix

(***************************************************************************)
(* find_route: among the routes whose prefix the path starts with and      *)
(* whose upstream is healthy, max_by_key on priority -- which returns the  *)
(* last of several maximal elements.  0 stands for None.  max_by_key is a  *)
(* fold over the filtered iterator in list order: best[n] is the route     *)
(* kept after the first n routes.                                          *)
(***************************************************************************)
Candidate(rs, path, i) == StartsWith(path, rs[i].prefix) /\ rs[i].healthy

\* One step of the fold: route i replaces the one kept so far when it is a
\* candidate of at least its priority.
KeepBest(rs, path, best, i) ==
    IF Candidate(rs, path, i)
       /\ (best = 0 \/ rs[i].priority >= rs[best].priority)
    THEN i ELSE best

\* Mutant: the first, not the last, of equal maxima kept.
FindRouteFirstMax(rs, path) ==
    LET best[n \in Nat] ==
            IF n = 0 THEN 0
            ELSE IF Candidate(rs, path, n)
                    /\ (best[n - 1] = 0
                        \/ rs[n].priority > rs[best[n - 1]].priority)
                 THEN n ELSE best[n - 1]
    IN  best[Len(rs)]

FindRoute(rs, path) ==
    LET best[n \in Nat] ==
            IF n = 0 THEN 0 ELSE KeepBest(rs, path, best[n - 1], n)
    IN  best[Len(rs)]

(***************************************************************************)
(* build_upstream_uri: the path with the route's prefix removed if         *)
(* strip_prefix (strip_prefix(..).unwrap_or(path)), appended to the        *)
(* authority.  parse::<Uri>() then takes the authority to end at the first *)
(* "/", so characters of the path before its first "/" join the port: the  *)
(* URI parses only if they are digits and the port stays below 2^16.       *)
(***************************************************************************)
UpstreamPath(r, path) ==
    IF r.strip /\ StartsWith(path, r.prefix)
    THEN SubSeq(path, Len(r.prefix) + 1, Len(path))
    ELSE path
DecimalValue(ds) ==
    LET v[n \in 0..Len(ds)] == IF n = 0 THEN 0 ELSE 10 * v[n - 1] + Digit[ds[n]]
    IN  v[Len(ds)]
BuildUpstreamUri(r, path) ==
    LET p    == UpstreamPath(r, path)
        cut  == CHOOSE k \in 0..Len(p) :
                    /\ \A i \in 1..k : p[i] # "/"
                    /\ k = Len(p) \/ p[k + 1] = "/"
        port == Port \o SubSeq(p, 1, cut)
    IN  IF (\A i \in 1..cut : p[i] \in Digits)
           /\ DecimalValue(port) < 65536
        THEN [ok |-> TRUE, port |-> DecimalValue(port),
              path |-> SubSeq(p, cut + 1, Len(p))]
        ELSE [ok |-> FALSE, port |-> 0, path |-> <<>>]

-----------------------------------------------------------------------------
NoUri == [ok |-> FALSE, port |-> 0, path |-> <<>>]

\* ProxyService::new with any route table.
Init ==
    /\ routes \in UNION {[1..n -> Route] : n \in 0..MaxRoutes}
    /\ last = [op |-> "None", path |-> <<>>, route |-> 0, uri |-> NoUri]

\* find_route(path): the route chosen, 0 for None.
FindRouteCall(path) ==
    /\ last' = [op |-> "FindRoute", path |-> path,
                route |-> FindRoute(routes, path), uri |-> NoUri]
    /\ UNCHANGED routes

\* forward(route, req): the caller passes the route; the URI it rewrites
\* the request to, or NoUri when build_upstream_uri fails with an error.
Forward(i, path) ==
    /\ last' = [op |-> "Forward", path |-> path, route |-> i,
                uri |-> BuildUpstreamUri(routes[i], path)]
    /\ UNCHANGED routes

Next ==
    \/ \E path \in RequestPaths : FindRouteCall(path)
    \/ \E i \in DOMAIN routes, path \in RequestPaths : Forward(i, path)

Spec == Init /\ [][Next]_vars

-----------------------------------------------------------------------------
\* find_route chooses a healthy route whose prefix the path starts with, of
\* the highest priority among those, the last one listed among equals, and
\* None only when there is no healthy matching route.
FindRouteIsBest ==
    LET i == last.route
        C == {j \in 1..Len(routes) : Candidate(routes, last.path, j)}
    IN  last.op = "FindRoute" =>
           /\ i = 0 <=> C = {}
           /\ i # 0 => /\ i \in C
                       /\ \A j \in C : \/ routes[j].priority < routes[i].priority
                                       \/ routes[j].priority = routes[i].priority
                                          /\ j <= i

\* A request forwarded along a route whose prefix its path starts with (as
\* every route find_route returns) reaches that route's upstream port, with
\* the request path less the stripped prefix as its path.
ForwardReachesRouteUpstream ==
    LET r == routes[last.route] IN
    last.op = "Forward" /\ StartsWith(last.path, r.prefix) =>
        /\ last.uri.ok
        /\ last.uri.port = DecimalValue(Port)
        /\ r.strip => r.prefix \o last.uri.path = last.path

=============================================================================
