----------------------------- MODULE GeeEngine -----------------------------
(***************************************************************************)
(* The engine of Gee: groups of routes with their middlewares, the router, *)
(* and a request on its way through the chain of its handlers.  Requests   *)
(* share nothing but what was set up, so one at a time is modelled; set-up *)
(* steps are taken while none is served.                                   *)
(*                                                                         *)
(* A handler is called by the loop of Next, which router.handle or a       *)
(* handler before it has called.  The stack calls holds the handlers that  *)
(* have begun and not returned, with how often each has called Next; pc is *)
(* "next" while the innermost Next is in its loop and "handler" while the  *)
(* last of calls runs.  User code calls Next, Fail and what writes as it   *)
(* likes, and may panic.  StatusCode, which only Logger reads, is left out. *)
(* The arguments of Group and GET are empty or begin with a slash, as every *)
(* path of a request does: their concatenation is that of their parts.      *)
(*                                                                         *)
(* Bounds: MaxGroups, MaxUses and MaxRoutes on the set-up, MaxNexts on the *)
(* calls of Next by one handler (past the end the index only grows).       *)
(***************************************************************************)
EXTENDS GeeRouter, FiniteSetsExt

CONSTANTS
  GroupPrefixes, \* prefixes given to Group
  RoutePaths,    \* paths given to GET
  Paths,        \* paths requested
  Begins,       \* Begins[s]: the parts whose characters begin with those of s,
                \* all of them if s is empty
  MaxGroups, MaxUses, MaxRoutes, MaxNexts,
  None

ASSUME StatusAssumption == None \notin {200, 404, 500}

ASSUME PathAssumption ==
  /\ GroupPrefixes \cup RoutePaths \cup Paths \subseteq Seq(STRING)
  /\ NoRoute \notin Seq(STRING)

\* A part begins with its own characters.
ASSUME BeginsAssumption ==
  \A prefix \in GroupPrefixes : \A i \in DOMAIN prefix :
    prefix[i] \in Begins[prefix[i]]

ASSUME NextsAssumption == MaxNexts \in Nat \ {0}

VARIABLES
  groups,     \* engine.groups
  trie,       \* engine.router.trieRoots, for one method
  handlers,   \* engine.router.handlers: the group that registered a pattern
  pc,
  path, route, params, chain, index,    \* Context; route is the key in handlers
  calls,
  sent,       \* the status the client gets
  entered,    \* history: the places in chain of the handlers that have begun
  failedAt,   \* history: how many of them had begun at the first Fail
  panicked    \* history: who panicked last, and what had been sent by then, or
              \* Silent once anybody has called panic(nil)

setupVars == <<groups, trie, handlers>>
contextVars == <<path, route, params, chain>>
historyVars == <<entered, failedAt, panicked>>
requestVars == <<pc, contextVars, index, calls, sent, historyVars>>
vars == <<setupVars, requestVars>>

----------------------------------------------------------------------------
(* Setting up *)

PrefixAlone(g, prefix) == prefix
FullPrefix(g, prefix) == groups[g].prefix \o prefix

Group(g, prefix) ==
  /\ pc = "idle"
  /\ Len(groups) < MaxGroups
  /\ groups' = Append(groups, [prefix |-> FullPrefix(g, prefix),
                               parent |-> g, middlewares |-> <<>>])
  /\ UNCHANGED <<trie, handlers, requestVars>>

Uses == MapThenSumSet(LAMBDA g : Len(groups[g].middlewares), DOMAIN groups)

Use(g, kind) ==
  /\ pc = "idle"
  /\ Uses < MaxUses
  /\ groups' = [groups EXCEPT ![g].middlewares = Append(@, <<kind, g>>)]
  /\ UNCHANGED <<trie, handlers, requestVars>>

GET(g, suffix) ==
  LET pattern == groups[g].prefix \o suffix
      patterns == DOMAIN handlers \cup {pattern} IN
  /\ pc = "idle"
  /\ Cardinality(patterns) <= MaxRoutes
  /\ trie' = Insert(trie, pattern)
  /\ handlers' = [p \in patterns |-> IF p = pattern THEN g ELSE handlers[p]]
  /\ UNCHANGED <<groups, requestVars>>

----------------------------------------------------------------------------
(* A request *)

\* The path begins with the characters of the prefix.
HasPrefix(p, prefix) ==
  \/ prefix = <<>>
  \/ /\ Len(prefix) <= Len(p)
     /\ SubSeq(p, 1, Len(prefix) - 1) = Front(prefix)
     /\ p[Len(prefix)] \in Begins[Last(prefix)]

\* The middlewares of the groups whose prefix the path has, in the order in
\* which the groups were made.
Middlewares(p) ==
  FlattenSeq([g \in DOMAIN groups |-> IF HasPrefix(p, groups[g].prefix)
                                      THEN groups[g].middlewares ELSE <<>>])

\* ServeHTTP, up to the call of Next in router.handle.
ServeHTTP(p) ==
  LET r == GetRoute(trie, p) IN
  /\ pc = "idle"
  /\ pc' = "next"
  /\ path' = p
  /\ route' = r
  /\ params' = IF r = NoRoute THEN <<>> ELSE ParamsOf(r, p)
  /\ chain' = Append(Middlewares(p), IF r = NoRoute THEN <<"notFound", 0>>
                                     ELSE <<"route", handlers[r]>>)
  /\ index' = 0
  /\ UNCHANGED <<setupVars, calls, sent, historyVars>>

Top == calls[Len(calls)]
Kind == chain[Top.at][1]
UserCode == pc = "handler" /\ Kind \in {"user", "route"}
Middleware == pc = "handler" /\ Kind \in {"logger", "recovery"}

NotAdvanced == index
Advanced == index + 1

\* The loop of Next calls the handler at the index.
CallHandler ==
  /\ pc = "next"
  /\ index < Len(chain)
  /\ pc' = "handler"
  /\ calls' = Append(calls, [at |-> index + 1, nexts |-> 0])
  /\ entered' = Append(entered, index + 1)
  /\ UNCHANGED <<setupVars, contextVars, index, sent, failedAt,
                 panicked>>

\* The loop is over and Next returns to the handler that called it.
NextReturns ==
  /\ pc = "next"
  /\ index >= Len(chain)
  /\ calls # <<>>
  /\ pc' = "handler"
  /\ UNCHANGED <<setupVars, contextVars, index, calls, sent,
                 historyVars>>

NeverMind == TRUE
HasCalledNext == Top.nexts = 1

\* Logger and Recovery call Next once, user code as often as it likes.
NextCall ==
  /\ \/ UserCode /\ Top.nexts < MaxNexts
     \/ Middleware /\ Top.nexts = 0
  /\ pc' = "next"
  /\ index' = Advanced
  /\ calls' = [calls EXCEPT ![Len(calls)].nexts = @ + 1]
  /\ UNCHANGED <<setupVars, contextVars, sent, historyVars>>

\* The handler is done and the loop that called it goes on.
EndHandler == /\ pc' = "next"
              /\ index' = index + 1
              /\ calls' = Front(calls)

Return ==
  /\ \/ UserCode
     \/ Middleware /\ HasCalledNext
  /\ EndHandler
  /\ UNCHANGED <<setupVars, contextVars, sent, historyVars>>

\* Writing a response: the first status is the one the client gets.
Status(code) == sent' = IF sent = None THEN code ELSE sent

NotFound ==
  /\ pc = "handler" /\ Kind = "notFound"
  /\ Status(404)
  /\ EndHandler
  /\ UNCHANGED <<setupVars, contextVars, historyVars>>

\* String, JSON, Data, HTML, the handler of Static, or the Writer directly; of
\* the codes user code may give 200 stands for all but 500.
Write ==
  /\ UserCode
  /\ Status(200)
  /\ UNCHANGED <<setupVars, pc, contextVars, index, calls, historyVars>>

WhereItIs == index
PastTheEnd == Len(chain)

FailedNow == failedAt' = IF failedAt = None THEN Len(entered) ELSE failedAt

\* Fail, called by a handler, or by HTML once the status 200 is written.
Fail ==
  /\ UserCode
  /\ Status(500) \/ Status(200)
  /\ index' = PastTheEnd
  /\ FailedNow
  /\ UNCHANGED <<setupVars, pc, contextVars, calls, entered, panicked>>

Recoveries == {i \in DOMAIN calls : chain[calls[i].at][1] = "recovery"}

Silent == [at |-> 0, sent |-> None]

\* User code panics.  The innermost Recovery under way calls Fail and returns;
\* without one net/http drops the request.  Before Go 1.21 recover() gives nil
\* for a panic(nil): Recovery stops it, but takes it for no panic and returns.
Panic ==
  /\ UserCode
  /\ \E silently \in BOOLEAN :
       /\ panicked' = IF silently \/ panicked = Silent THEN Silent
                      ELSE [at |-> Top.at, sent |-> sent]
       /\ \/ /\ Recoveries # {}
             /\ IF silently THEN UNCHANGED <<sent, failedAt>>
                ELSE Status(500) /\ FailedNow
             /\ pc' = "next"
             /\ index' = (IF silently THEN index ELSE PastTheEnd) + 1
             /\ calls' = SubSeq(calls, 1, Max(Recoveries) - 1)
          \/ /\ Recoveries = {}
             /\ pc' = "aborted"
             /\ calls' = <<>>
             /\ UNCHANGED <<index, sent, failedAt>>
  /\ UNCHANGED <<setupVars, contextVars, entered>>

Over == \/ pc = "aborted"
        \/ pc = "next" /\ index >= Len(chain) /\ calls = <<>>

\* The request is answered and its Context is gone.
Finish ==
  /\ Over
  /\ pc' = "idle"
  /\ path' = <<>> /\ route' = NoRoute /\ params' = <<>> /\ chain' = <<>>
  /\ index' = 0 /\ calls' = <<>>
  /\ sent' = None
  /\ entered' = <<>> /\ failedAt' = None /\ panicked' = None
  /\ UNCHANGED setupVars

----------------------------------------------------------------------------

\* New, or Default with its two middlewares.
Init ==
  /\ \E default \in {<<>>, << <<"logger", 1>>, <<"recovery", 1>> >>} :
       groups = << [prefix |-> <<>>, parent |-> 0, middlewares |-> default] >>
  /\ trie = NoTrie
  /\ handlers = <<>>
  /\ pc = "idle"
  /\ path = <<>> /\ route = NoRoute /\ params = <<>> /\ chain = <<>>
  /\ index = 0 /\ calls = <<>>
  /\ sent = None
  /\ entered = <<>> /\ failedAt = None /\ panicked = None

SetUp == \E g \in DOMAIN groups :
           \/ \E prefix \in GroupPrefixes : Group(g, prefix)
           \/ \E kind \in {"user", "recovery"} : Use(g, kind)
           \/ \E suffix \in RoutePaths : GET(g, suffix)

Next ==
  \/ SetUp
  \/ \E p \in Paths : ServeHTTP(p)
  \/ CallHandler
  \/ NextReturns
  \/ NextCall
  \/ Return
  \/ NotFound
  \/ Write
  \/ Fail
  \/ Panic
  \/ Finish

Spec == Init /\ [][Next]_vars

----------------------------------------------------------------------------
(* Properties *)

\* The type of the state of Engine, router and Context; a wildcard is the last
\* child of its node (trie.go:13-51), so the search tries names first.
TypeOK ==
  /\ \A g \in DOMAIN groups : groups[g].parent \in 0..(g - 1)
  /\ \A n \in DOMAIN trie :
       LET children == trie[n].children IN
       /\ \A i \in DOMAIN children : Append(n, children[i]) \in DOMAIN trie
       /\ \A i \in DOMAIN children : children[i] \in Wild => i = Len(children)
  /\ pc \in {"idle", "next", "handler", "aborted"}
  /\ route \in DOMAIN handlers \cup {NoRoute}
  /\ DOMAIN params \subseteq {NameOf[w] : w \in Wild}
  /\ index \in Nat
  /\ calls \in Seq([at : DOMAIN chain, nexts : 0..MaxNexts])
  /\ sent \in {None, 200, 404, 500}

\* No route was lost in a wildcard of another name or replaced by a later one,
\* and none is the empty string.
Distinct == \A p \in DOMAIN handlers :
              LET n == ParsePattern(p)
              IN  n \in DOMAIN trie /\ trie[n].pattern = p

\* If no route was lost in another, a request goes to the route that fits its
\* path best, a name before a wildcard, whatever the order in which routes
\* were added; only a path that fits none is not found; and the parameters, if
\* their names differ, are the parts of the path that the wildcards stand for
\* (router.go:66-92, trie.go:54-73).
RoutedAsDeclared ==
  pc # "idle" /\ Distinct =>
    LET asked == ParsePattern(path)
        best == BestRoute({ParsePattern(p) : p \in DOMAIN handlers}, asked)
    IN  IF best = NoRoute THEN route = NoRoute
        ELSE /\ route # NoRoute
             /\ ParsePattern(route) = best
             /\ OwnNames(best) => Filled(best, params) = asked

\* The groups around g, and g: those of every set that holds g and the parents
\* of its groups.
Around(g) ==
  {h \in DOMAIN groups : \A S \in SUBSET DOMAIN groups :
     g \in S /\ (\A k \in S : groups[k].parent \in S \cup {0}) => h \in S}

\* The handler of a route runs behind the middlewares of its group and of the
\* groups around it, each used once and in the order of its uses, the outer
\* groups first, if the route is one the path fits, and neither the prefixes of
\* the group hold a wildcard or an empty part nor the path an empty part within
\* their length: ServeHTTP compares prefixes with the path as it came, the
\* router what is left of both without empty parts (README.md:135-138 of Gee;
\* gee.go:44-56, router_group.go:22-32, router.go:20-33).
BehindItsGroup ==
  LET g == handlers[route]
      prefix == groups[g].prefix
      behind == 1..(Len(entered) - 1) IN
  (/\ route # NoRoute
   /\ entered # <<>> /\ Last(entered) = Len(chain)
   /\ Range(prefix) \cap (Wild \cup {Blank}) = {}
   /\ Matches(ParsePattern(route), ParsePattern(path))
   /\ \A i \in DOMAIN prefix : path[i] # Blank) =>
     \E before \in [Around(g) -> 0..Len(entered)] : \A h \in Around(g) :
       LET used == groups[h].middlewares IN
       /\ \A i \in DOMAIN used : /\ before[h] + i \in behind
                                 /\ chain[entered[before[h] + i]] = used[i]
       /\ \A i \in behind : chain[entered[i]][2] = h =>
                             \E j \in DOMAIN used : i = before[h] + j
       /\ \A k \in Around(h) \ {h} :
            before[k] + Len(groups[k].middlewares) <= before[h]

\* However the handlers nest their calls of Next, each begins at most once and
\* in the order of the chain (context.go:37-44).
EnteredInOrder == entered = [i \in 1..Len(entered) |-> i]

\* After a Fail, or a panic that Recovery has caught, no handler begins
\* (context.go:105-108, recovery.go:11-23).
FailEndsChain == failedAt # None => Len(entered) = failedAt

\* A panic of a handler behind Recovery never reaches net/http, and the client
\* gets a 500 unless a status was sent before, if nobody has called panic(nil)
\* (recovery.go:11-23).
PanicAnswered ==
  panicked # None /\ (\E i \in 1..(panicked.at - 1) : chain[i][1] = "recovery")
    => /\ pc # "aborted"
       /\ sent = IF panicked.sent = None THEN 500 ELSE panicked.sent

=============================================================================
