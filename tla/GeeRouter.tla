----------------------------- MODULE GeeRouter -----------------------------
(***************************************************************************)
(* The router of Gee: the trie of routes, how a route is inserted and how  *)
(* the route of a path is searched.  The router keeps one trie for each    *)
(* HTTP method; they never meet, and this module has one of them.          *)
(*                                                                         *)
(* A path or a pattern is the sequence of what follows each of its         *)
(* slashes: <<"a", "b">> is /a/b, <<"", "a">> is //a, <<"a", "">> is /a/,  *)
(* <<"">> is / and <<>> the empty string.  A part of Params (":name")      *)
(* stands for any one part, a part of CatchAlls ("*name") for all that     *)
(* follows, and NameOf gives the name.                                     *)
(*                                                                         *)
(* A node is the sequence of parts that leads to it from the root, and a   *)
(* trie is a function on its nodes; the router has none before its first   *)
(* route.  The order of a node's children is the order of their creation.  *)
(***************************************************************************)
EXTENDS Naturals, SequencesExt

CONSTANTS Params, CatchAlls, NameOf, NoRoute

Wild == Params \cup CatchAlls

NewNode == [pattern |-> NoRoute, children |-> <<>>]
NoTrie == <<>>

Blank == ""

\* The parts of a pattern, and likewise of a path: what is not empty between its
\* slashes, up to the first "*".
ParsePattern(pattern) ==
  LET caught(parts) == parts # <<>> /\ Last(parts) \in CatchAlls
      upTo[i \in 0..Len(pattern)] ==
        IF i = 0 THEN <<>>
        ELSE IF pattern[i] = Blank \/ caught(upTo[i - 1]) THEN upTo[i - 1]
        ELSE Append(upTo[i - 1], pattern[i])
  IN  upTo[Len(pattern)]

\* The places of the children that part matches, by name or because they are
\* wild.
MatchChildren(node, part) ==
  {i \in DOMAIN node.children : node.children[i] \in {part} \cup Wild}

NewChild(node, part) == part

\* The part of the child into which insert descends: the first that matches,
\* or a new one.
InsertBelow(node, part) ==
  LET hits == MatchChildren(node, part)
  IN  IF hits = {} THEN part ELSE node.children[Min(hits)]

----------------------------------------------------------------------------
(* Insertion *)

NodeOf(trie, n) == IF n \in DOMAIN trie THEN trie[n] ELSE NewNode

\* The nodes on the way of a pattern: way[i] at depth i.
WayOf(trie, pattern) ==
  LET way[i \in 0..Len(pattern)] ==
        IF i = 0 THEN <<>>
        ELSE Append(way[i - 1],
                    InsertBelow(NodeOf(trie, way[i - 1]), pattern[i]))
  IN  way

ChildrenWith(node, part) ==
  IF part \in Range(node.children) THEN node.children
  ELSE Append(node.children, part)

\* The empty string is what a node without a route bears.
Borne(pattern) == IF pattern = <<>> THEN NoRoute ELSE pattern

\* The trie once pattern is inserted: the nodes on its way exist, and the last
\* of them bears the pattern.
Insert(trie, pattern) ==
  LET parts == ParsePattern(pattern)
      way == WayOf(trie, parts)
      last == way[Len(parts)]
      added == {way[i] : i \in 0..Len(parts)}
      Children(n) ==
        IF n \in added \ {last}
        THEN ChildrenWith(NodeOf(trie, n), way[Len(n) + 1][Len(n) + 1])
        ELSE NodeOf(trie, n).children
  IN  [n \in DOMAIN trie \cup added |->
         [pattern |-> IF n = last THEN Borne(pattern) ELSE NodeOf(trie, n).pattern,
          children |-> Children(n)]]

----------------------------------------------------------------------------
(* Search *)

GreedyRoute(found) ==
  IF DOMAIN found = {} THEN NoRoute ELSE found[Min(DOMAIN found)]

\* The route found below the first child where there is one.
FirstRoute(found) ==
  LET hits == {i \in DOMAIN found : found[i] # NoRoute}
  IN  IF hits = {} THEN NoRoute ELSE found[Min(hits)]

\* The pattern of the node where the search of a path ends, or NoRoute.  The
\* search tries every child that matches until one of them has a route.
Search(trie, path) ==
  LET Ends(n) == Len(n) = Len(path) \/ (n # <<>> /\ Last(n) \in CatchAlls)
      found[n \in {m \in DOMAIN trie : Len(m) <= Len(path)}] ==
        IF Ends(n) THEN trie[n].pattern
        ELSE FirstRoute([i \in MatchChildren(trie[n], path[Len(n) + 1]) |->
                           found[Append(n, trie[n].children[i])]])
  IN  IF trie = NoTrie THEN NoRoute ELSE found[<<>>]

\* getRoute: the route of a path, and the value of each of its parameters as
\* the sequence of parts it stands for.  A name used twice has its last value,
\* and a bare "*" gives none.
GetRoute(trie, path) == Search(trie, ParsePattern(path))

Named(parts) == {i \in DOMAIN parts : parts[i] \in Wild \ {"*"}}

ParamsOf(pattern, path) ==
  LET parts == ParsePattern(pattern)
      search == ParsePattern(path)
      Value(i) == IF parts[i] \in CatchAlls
                  THEN SubSeq(search, i, Len(search)) ELSE <<search[i]>>
  IN  [name \in {NameOf[parts[i]] : i \in Named(parts)} |->
         Value(Max({i \in Named(parts) : NameOf[parts[i]] = name}))]

----------------------------------------------------------------------------
(* What a router promises, of patterns and paths alone *)

\* A path is one that pattern stands for.
Matches(pattern, path) ==
  LET Fits(i) == pattern[i] = path[i] \/ pattern[i] \in Wild
      caught == pattern # <<>> /\ Last(pattern) \in CatchAlls
  IN  /\ IF caught THEN Len(path) >= Len(pattern) ELSE Len(path) = Len(pattern)
      /\ \A i \in DOMAIN pattern : Fits(i)

\* Of two patterns that match a path the better one names the part where the
\* other one first has a wildcard.
Better(p, q) ==
  \E i \in DOMAIN p \cap DOMAIN q :
    /\ SubSeq(p, 1, i - 1) = SubSeq(q, 1, i - 1)
    /\ p[i] \notin Wild /\ q[i] \in Wild

BestRoute(patterns, path) ==
  LET fit == {p \in patterns : Matches(p, path)}
  IN  IF fit = {} THEN NoRoute
      ELSE CHOOSE p \in fit : \A q \in fit \ {p} : Better(p, q)

\* Every wildcard of a pattern has a name of its own.
OwnNames(pattern) ==
  /\ "*" \notin Range(pattern)
  /\ \A i, j \in Named(pattern) : NameOf[pattern[i]] = NameOf[pattern[j]] => i = j

\* The path a pattern becomes when its wildcards take their values.
Filled(pattern, values) ==
  FlattenSeq([i \in DOMAIN pattern |->
                IF pattern[i] \in Wild THEN values[NameOf[pattern[i]]]
                ELSE <<pattern[i]>>])

=============================================================================
