------------------------------ MODULE MCHttpRoutes ------------------------------
(***************************************************************************)
(* The routing table and, apart from it, the handler of a static route.    *)
(***************************************************************************)
EXTENDS HttpStaticFiles

CONSTANTS Methods, Names, Illegal, Patterns, Mounts, Requests, Files, MaxRoutes

VARIABLES part, exactRoutes, fuzzyRoutes, fallback, routeCount, registered, served

Router == INSTANCE HttpRouter

table == <<exactRoutes, fuzzyRoutes, fallback, routeCount, registered, served>>

MCRanges ==
  {<<>>, <<<<1, Omitted>>>>, <<<<1, 5>>>>, <<<<2, 1>>>>, <<<<0, 1>>>>, <<<<Omitted, 2>>>>,
   <<<<Junk, 1>>>>, <<<<0, 0>>, <<5, 6>>, <<2, Omitted>>>>}

MCPatterns ==
  {<<"a">>, <<"a", "b">>, <<"a", ":x">>, <<"a", ":y">>, <<":x", "b">>, <<":x", ":x">>,
   <<"a", "*">>, <<"a", "**">>}

MCFiles == {<<"b">>, <<"!">>}

MCMounts == {<<"">>, <<"a", "">>}

MCRequests ==
  {<<"">>, <<"a", "">>, <<"a", "b">>, <<"", "a", "c">>, <<"a", "b", "c">>, <<"c", "b">>}

MCInit ==
  /\ Init /\ Router!Init
  /\ part \in {"table", "file"}
  /\ part = "table" =>
       route = "hard" /\ mode = "AUTO" /\ etags /\ \A n \in Sizes : disk.size <= n

MCNext ==
  /\ part' = part
  /\ \/ part = "file" /\ Next /\ UNCHANGED table
     \/ part = "table" /\ Router!Next /\ UNCHANGED vars

MCSpec == MCInit /\ [][MCNext]_<<part, vars, table>>

(* See HttpRouter.                                                         *)
LookupIsBest == Router!LookupIsBest
=================================================================================
