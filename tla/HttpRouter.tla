------------------------------- MODULE HttpRouter -------------------------------
(***************************************************************************)
(* The routing table of HttpRouter: exact routes in a map, patterns with   *)
(* :parameters, * and ** in a trie per method, and a proxy that takes what *)
(* no route does.  Routes are added, deleted, mounted and cleared, and the *)
(* loop of HttpServerImpl looks requests up.                               *)
(*                                                                         *)
(* A path is the sequence of what lies between its slashes, so "/a/" is    *)
(* <<"a", "">> and "/" is <<"">>.                                          *)
(***************************************************************************)
EXTENDS Integers, Sequences, SequencesExt, FiniteSets

CONSTANTS
  Methods,   \* request methods
  Names,     \* segments of a parameter, with the colon
  Illegal,   \* segments that no route may have
  Patterns,  \* bound: paths that are registered
  Mounts,  \* bound: prefixes that are mounted
  Requests,  \* bound: paths that are asked for
  Files,     \* files of the mounted directory
  MaxRoutes  \* bound: changes of the table

VARIABLES
  exactRoutes,  \* per method: path -> handler
  fuzzyRoutes,  \* per method: the trie, keys of the way to a node -> node
  fallback,     \* m_fallbackProxyHandlerState
  routeCount,
  registered,   \* what the table stands for: the calls that were accepted, in order
  served        \* the last request and what became of it

vars == <<exactRoutes, fuzzyRoutes, fallback, routeCount, registered, served>>

None == [kind |-> "none", prefix |-> <<>>, id |-> 0]
User(n) == [kind |-> "user", prefix |-> <<>>, id |-> n]
NoMatch == [handler |-> None, params |-> <<>>]
NotServed == [method |-> "", path |-> <<>>, match |-> NoMatch, by |-> "nobody", asked |-> <<>>]

EmptyNode == [isEnd |-> FALSE, handler |-> None, names |-> <<>>]
-----------------------------------------------------------------------------
IsFuzzyPattern(path) == \E i \in DOMAIN path : path[i] \in Names \cup {"*", "**"}

SplitPath(path) == SelectSeq(path, LAMBDA s : s # "")

(* A name is used once, a wildcard only at the end, and nothing illegal.   *)
ValidatePath(path) ==
  LET segments == SplitPath(path)
  IN  /\ segments # <<>> \/ path = <<"">>
      /\ \A i \in DOMAIN segments :
           /\ segments[i] \notin Illegal
           /\ segments[i] \in {"*", "**"} => i = Len(segments)
           /\ segments[i] \in Names => \A j \in 1 .. i - 1 : segments[j] # segments[i]

Key(segment) == IF segment \in Names THEN ":param" ELSE segment

(* The node of a pattern is made with those on the way to it; the last     *)
(* pattern of a shape has it, with its names.                              *)
InsertRoute(trie, segments, handler) ==
  LET keys == [i \in DOMAIN segments |-> Key(segments[i])]
      way  == {SubSeq(keys, 1, n) : n \in 0 .. Len(keys)}
  IN  [node \in DOMAIN trie \cup way |->
         IF node = keys
         THEN [isEnd |-> TRUE, handler |-> handler,
               names |-> SelectSeq(segments, LAMBDA s : s \in Names)]
         ELSE IF node \in DOMAIN trie THEN trie[node] ELSE EmptyNode]

(* The order of preference of what the four kinds of child have found.     *)
BuggyPrefer(exact, param, wildcard, greedy) ==
  LET found == SelectSeq(<<exact, wildcard, param, greedy>>, LAMBDA m : m # NoMatch)
  IN  IF found = <<>> THEN NoMatch ELSE found[1]

Prefer(exact, param, wildcard, greedy) ==
  LET found == SelectSeq(<<exact, param, wildcard, greedy>>, LAMBDA m : m # NoMatch)
  IN  IF found = <<>> THEN NoMatch ELSE found[1]

(* searchRoute: depth first, going back when a child leads nowhere.        *)
RECURSIVE SearchRoute(_, _, _, _)
SearchRoute(trie, segments, node, values) ==
  LET segment == segments[Len(node) + 1]
      Child(key, seen) ==
        IF Append(node, key) \in DOMAIN trie
        THEN SearchRoute(trie, segments, Append(node, key), seen) ELSE NoMatch
      greedy == Append(node, "**")
  IN  IF Len(node) = Len(segments)
      THEN IF ~trie[node].isEnd THEN NoMatch
           ELSE [handler |-> trie[node].handler,
                 params |-> [i \in 1 .. Len(trie[node].names) \cap DOMAIN values |->
                               <<trie[node].names[i], values[i]>>]]
      ELSE Prefer(Child(segment, values), Child(":param", Append(values, segment)),
                  Child("*", values),
                  IF greedy \in DOMAIN trie /\ trie[greedy].isEnd
                  THEN [handler |-> trie[greedy].handler, params |-> <<>>] ELSE NoMatch)

FindHandler(method, path) ==
  IF path \in DOMAIN exactRoutes[method]
  THEN [handler |-> exactRoutes[method][path], params |-> <<>>]
  ELSE IF fuzzyRoutes[method] = <<>> THEN NoMatch
  ELSE SearchRoute(fuzzyRoutes[method], SplitPath(path), <<>>, <<>>)
-----------------------------------------------------------------------------
Init ==
  /\ exactRoutes = [m \in Methods |-> <<>>] /\ fuzzyRoutes = [m \in Methods |-> <<>>]
  /\ fallback = None /\ routeCount = 0
  /\ registered = <<>> /\ served = NotServed

Changes == Len(registered) < MaxRoutes /\ served' = NotServed

(* addHandlerInternal for each method of each route of routes, a sequence  *)
(* of [path, handler].  A path that is refused leaves the table as it is.  *)
AddRoutes(methods, routes) ==
  LET valid == SelectSeq(routes, LAMBDA r : ValidatePath(r.path))
      exact == SelectSeq(valid, LAMBDA r : ~IsFuzzyPattern(r.path))
      fuzzy == SelectSeq(valid, LAMBDA r : IsFuzzyPattern(r.path))
      paths == {exact[i].path : i \in DOMAIN exact}
  IN  /\ exactRoutes' = [m \in Methods |->
           IF m \notin methods \/ exact = <<>> THEN exactRoutes[m]
           ELSE [p \in DOMAIN exactRoutes[m] \cup paths |->
                   IF p \in paths
                   THEN (CHOOSE r \in ToSet(exact) : r.path = p).handler ELSE exactRoutes[m][p]]]
      /\ fuzzyRoutes' = [m \in Methods |->
           IF m \notin methods THEN fuzzyRoutes[m]
           ELSE FoldLeft(LAMBDA trie, r : InsertRoute(trie, SplitPath(r.path), r.handler),
                         fuzzyRoutes[m], fuzzy)]
      /\ routeCount' = routeCount + Cardinality(methods) * Len(fuzzy)
           + Cardinality({<<m, p>> \in methods \X paths : p \notin DOMAIN exactRoutes[m]})
      /\ registered' = registered \o
           [i \in DOMAIN valid |-> [methods |-> methods, path |-> valid[i].path,
                                    handler |-> valid[i].handler]]

Route(path, handler) == [path |-> path, handler |-> handler]

AddHandler(methods, path) ==
  /\ Changes
  /\ AddRoutes(methods, <<Route(path, User(Len(registered) + 1))>>)
  /\ UNCHANGED fallback

(* Only an exact route can be deleted.                                     *)
DelHandler(method, path) ==
  /\ Changes /\ path \in DOMAIN exactRoutes[method]
  /\ exactRoutes' = [exactRoutes EXCEPT ![method] =
                       [p \in DOMAIN @ \ {path} |-> @[p]]]
  /\ routeCount' = routeCount - 1
  /\ registered' = [i \in DOMAIN registered |->
                      IF registered[i].path = path
                      THEN [registered[i] EXCEPT !.methods = @ \ {method}] ELSE registered[i]]
  /\ UNCHANGED <<fuzzyRoutes, fallback>>

Clear ==
  /\ registered # <<>>
  /\ exactRoutes' = [m \in Methods |-> <<>>] /\ fuzzyRoutes' = [m \in Methods |-> <<>>]
  /\ fallback' = None /\ routeCount' = 0
  /\ registered' = <<>> /\ served' = NotServed

Below(prefix, segments) == (IF Last(prefix) = "" THEN Front(prefix) ELSE prefix) \o segments

Handler(kind, prefix) == [kind |-> kind, prefix |-> prefix, id |-> 0]

Mount(prefix) ==
  /\ Changes
  /\ AddRoutes(Methods \cap {"GET", "HEAD"},
               <<Route(Below(prefix, <<"**">>), Handler("static", prefix))>>)
  /\ UNCHANGED fallback

(* registerFilesRecursively: a route of its own for every file there is.   *)
MountHardly(prefix) ==
  /\ Changes
  /\ AddRoutes(Methods \cap {"GET"},
       SetToSeq({Route(Below(prefix, f), Handler("file", f)) : f \in Files}))
  /\ UNCHANGED fallback

NormalizeRoutePrefix(prefix) ==
  IF Len(prefix) > 1 /\ Last(prefix) = "" THEN Front(prefix) ELSE prefix

(* The prefix itself is a route too, beside all that is below it.          *)
WithPrefix(kind, prefix) ==
  LET p == NormalizeRoutePrefix(prefix)
      below == Route(Below(p, <<"**">>), Handler(kind, p))
  IN  IF p = <<"">> THEN <<below>> ELSE <<below, Route(p, Handler(kind, p))>>

TryFiles(prefix) ==
  /\ Changes
  /\ AddRoutes(Methods \cap {"GET", "HEAD"}, WithPrefix("try", prefix))
  /\ UNCHANGED fallback

Proxy(prefix) ==
  /\ Changes
  /\ AddRoutes(Methods, WithPrefix("proxy", prefix))
  /\ fallback' = IF NormalizeRoutePrefix(prefix) = <<"">> THEN Handler("proxy", <<"">>) ELSE fallback
-----------------------------------------------------------------------------
(***************************************************************************)
(* What a handler asks of its directory or of the upstream.                *)
(***************************************************************************)

(* The code counts characters: a path that does not start with the text of *)
(* the prefix, because it has more slashes, gives something else.          *)
Garbled == <<"?">>

RelativePath(prefix, path) ==
  LET p == Below(prefix, <<>>)
  IN  IF IsPrefix(p, path) THEN SplitPath(SubSeq(path, Len(p) + 1, Len(path))) ELSE Garbled

RewriteProxyUri(prefix, path) ==
  IF prefix = <<"">> \/ ~IsPrefix(prefix, path) THEN path
  ELSE IF path = prefix THEN <<"">>
  ELSE SubSeq(path, Len(prefix) + 1, Len(path))

ByProxy(handler, path) == [by |-> "upstream", asked |-> RewriteProxyUri(handler.prefix, path)]

ByHandler(handler, path) ==
  LET relative == RelativePath(handler.prefix, path)
  IN  CASE handler.kind = "none"  -> [by |-> "nobody", asked |-> <<>>]
        [] handler.kind = "user"  -> [by |-> "handler", asked |-> path]
        [] handler.kind = "file"  -> [by |-> "file", asked |-> handler.prefix]
        [] handler.kind = "proxy" -> ByProxy(handler, path)
        [] OTHER -> IF relative \in Files THEN [by |-> "file", asked |-> relative]
                    ELSE IF handler.kind = "try" THEN ByProxy(Handler("proxy", <<"">>), path)
                    ELSE IF fallback # None THEN ByProxy(fallback, path)
                    ELSE [by |-> "nobody", asked |-> <<>>]

(* The loop of HttpServerImpl::start.                                      *)
Serve(method, path) ==
  LET match  == FindHandler(method, path)
      answer == ByHandler(IF match = NoMatch THEN fallback ELSE match.handler, path)
  IN  /\ served = NotServed
      /\ served' = [method |-> method, path |-> path, match |-> match, by |-> answer.by,
                    asked |-> answer.asked]
      /\ UNCHANGED <<exactRoutes, fuzzyRoutes, fallback, routeCount, registered>>

Next ==
  \/ \E ms \in SUBSET Methods \ {{}}, p \in Patterns : AddHandler(ms, p)
  \/ \E m \in Methods, p \in Patterns : DelHandler(m, p)
  \/ Clear
  \/ \E p \in Mounts : Mount(p) \/ MountHardly(p) \/ TryFiles(p) \/ Proxy(p)
  \/ \E m \in Methods, p \in Requests : Serve(m, p)

Spec == Init /\ [][Next]_vars
-----------------------------------------------------------------------------
(***************************************************************************)
(* What a lookup should find, told without the map and the trie.           *)
(***************************************************************************)
Rank(segment) ==
  CASE segment \in Names -> 2 [] segment = "*" -> 3 [] segment = "**" -> 4 [] OTHER -> 1

Fits(pattern, segments) ==
  LET open == pattern # <<>> /\ Last(pattern) = "**"
  IN  /\ IF open THEN Len(segments) >= Len(pattern) ELSE Len(segments) = Len(pattern)
      /\ \A i \in DOMAIN pattern : Rank(pattern[i]) = 1 => segments[i] = pattern[i]

(* Of two patterns that fit, the one whose first difference is in its      *)
(* favour.                                                                 *)
Better(p, q) ==
  \E i \in DOMAIN p \cap DOMAIN q :
    /\ Rank(p[i]) < Rank(q[i])
    /\ \A j \in 1 .. i - 1 : Rank(p[j]) = Rank(q[j])

Handlers(method, path) ==
  LET mine  == {i \in DOMAIN registered : method \in registered[i].methods}
      Split(i) == SplitPath(registered[i].path)
      exact == {i \in mine : registered[i].path = path /\ ~IsFuzzyPattern(path)}
      fits  == {i \in mine : IsFuzzyPattern(registered[i].path) /\ Fits(Split(i), SplitPath(path))}
      best  == {i \in fits : \A j \in fits : ~Better(Split(j), Split(i))}
      Latest(S) == CHOOSE i \in S : \A j \in S : j <= i
  IN  IF exact # {} THEN {Latest(exact)} ELSE IF best # {} THEN {Latest(best)} ELSE {}

(* A request whose segments are themselves no keys of the trie.            *)
Ordinary(path) == \A i \in DOMAIN path : path[i] \notin {":param", "*", "**"}

(* A lookup finds the handler that was registered last for the path        *)
(* itself, or else for the pattern that fits and is preferred, a segment   *)
(* before a parameter before * before **; and the parameters have the      *)
(* names and values of that pattern, unless it ends in **.  What a proxy   *)
(* asks its upstream for lies below its prefix as the request lies below   *)
(* the mount, when the request has no empty segment before its last.       *)
LookupIsBest ==
  served # NotServed /\ Ordinary(served.path) =>
    LET best == Handlers(served.method, served.path)
    IN  IF best = {} THEN served.match = NoMatch
        ELSE \E i \in best :
               LET pattern  == SplitPath(registered[i].path)
                   segments == SplitPath(served.path)
                   bound    == {j \in DOMAIN pattern : pattern[j] \in Names}
               IN  /\ served.match.handler = registered[i].handler
                   /\ served.match.handler.kind = "proxy" /\ "" \notin ToSet(Front(served.path)) =>
                        segments = SplitPath(registered[i].handler.prefix) \o SplitPath(served.asked)
                   /\ Last(<<"">> \o pattern) # "**" =>
                        ToSet(served.match.params) = {<<pattern[j], segments[j]>> : j \in bound}
=================================================================================
