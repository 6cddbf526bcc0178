# A verification project for 7days-golang

The repository holds four small Go frameworks: **GeeRPC** (an RPC client and
server with discovery, a registry and heartbeats), **GeeCache** (a distributed
cache), **Gee** (an HTTP router with middleware) and **GeeORM** (an object
mapper on `database/sql`). This directory holds TLA+ models of the parts where
goroutines, connections, nodes, handlers and transactions interact, TLC configurations that check them
on small instances, and TLAPS proofs of what these parts promise for any number
of calls, servers, nodes, keys, goroutines and handlers.

Paths below are relative to `src/7days-golang/`; `geerpc/` and `geecache/`
stand for `GeeRPC/geerpc/` and `GeeCache/geecache/`.

## Inventory

| Component | State | Operations | Hard behaviour | Correct if |
|---|---|---|---|---|
| RPC client `geerpc/client.go` | `seq`, `pending`, `closing`, `shutdown`, mutexes `sending`, `mu`; per call `Seq`, `Error`, `Reply`, `Done` | `Go`, `Call`, `Close`, the `receive` goroutine, `terminateCalls` | senders, receiver, cancellation and shutdown race for a call; `Done` may be full | each call ends exactly once, with its own result or an error, or abandoned; nobody blocks for ever |
| RPC server `geerpc/server.go` | `serviceMap`; per connection the stream, `sending`, the wait group; per request `h.Error`, `called`, `sent` | `ServeConn`, `serveCodec`, `handleRequest`, `sendResponse` | timeout against return; responses on one connection; closing under way | each request answered once, whole, before the connection is closed |
| Codec `geerpc/codec/` | buffered writer, gob encoder and decoder | `Write`, `ReadHeader`, `ReadBody`, `Close` | partial writes, an ignored `Flush` error | a failed write is noticed by someone |
| Dial and handshake `geerpc/client.go`, `server.go` | the connection, a result channel | `dialTimeout`, `NewHTTPClient`, `ServeHTTP` | timeout against success; buffered readers that swallow bytes | the dial returns, and the option reaches the server |
| XClient `geerpc/xclient/xclient.go` | `clients` under `mu` | `Call`, `Broadcast`, `dial`, `Close` | clients break while shared; a Broadcast cancels itself | no client is forgotten while it is open; the error and reply of Broadcast are its servers' |
| Discovery `geerpc/xclient/discovery*.go` | `servers`, `index`, `lastUpdate` under `mu` | `Refresh`, `Update`, `Get`, `GetAll` | refresh and choice are two critical sections | lists are fresh, round robin is even |
| Registry `geerpc/registry/` | `servers` with the time of the last heartbeat | `putServer`, `aliveServers`, `Heartbeat` | expiry against heartbeats; unreachable registry | a server that beats in time stays listed, a dead one disappears |
| GeeCache group `geecache/geecache.go` | `mainCache`, `loader`, `peers` | `Get`, `load`, `getFromPeer`, `getLocally` | concurrent misses; failing peers; nodes asking each other | one load per key at a time, the right value, no deadlock |
| singleflight `geecache/singleflight/` | `m`: key to call | `Do` | joining a call that is ending; a panicking function | every waiter gets the leader's result |
| HTTP pool `geecache/http.go` | ring and getters under `mu` | `Set`, `PickPeer`, `ServeHTTP`, `httpGetter.Get` | lists of peers that differ; escaping of keys | a key is asked of its owner, who reads the key meant or, where escaping changes it, one other |
| LRU, cache `geecache/lru/`, `cache.go` | list, map, `nBytes` | `Add`, `Get`, `RemoveOldest` | byte accounting at the limit | list and map agree, the bound holds, the oldest goes first |
| Ring `geecache/consistenthash/` | sorted hashes, `hashMap` | `Add`, `Get` | wrap-around, collisions | adding a node moves keys only to it |
| Gee engine, router, context `Gee/gee/` | trie, handlers, groups; per request `index`, `StatusCode` | `addRoute`, `getRoute`, `Next`, `Fail`, `Recovery` | wildcards, empty parts of paths, nested `Next`, panics | the registered handler runs, each middleware once |
| GeeORM session `GeeORM/geeorm/session/`, `clause/` | `sql`, `clause`, `refTable`, `tx` | `Insert`, `Find`, `Update`, `Delete`, `Count`, chain methods, hooks | hooks that use their own session; a finished `tx` | a statement is restricted by exactly its own clauses |
| GeeORM engine `GeeORM/geeorm/geeorm.go` | database handle | `Transaction`, `Migrate` | errors, panics, failing commit | all or nothing |
| Generated protobuf, ByteView, schema, dialect, log, debug page, demos | none shared | formatting and output | none | not modelled |

How they interact: `XClient` asks a `Discovery` for an address, `dial`s (or
reuses) an RPC client and calls through it; an RPC client and a server share a
connection of gob values that begins with a JSON option; servers send
heartbeats to the registry over HTTP, and discoveries read its list over HTTP;
a GeeCache node asks the owner of a key over HTTP and becomes a user of that
node's `Group.Get`; Gee's router calls the chain of a context; a GeeORM
transaction runs a user function on a session, whose statements run hooks that
get that session.

## Modules

* `AtMostOnceCall` is what an RPC client promises, with no lock, goroutine or
  sequence number: every call ends at most once, with success only if the
  server executed it.
* `RpcClient` is `client.go` with the codec's `Write`. A call's goroutine is
  at `pc[c]`; `rpc` is where `receive` is. `sending` is the holder of that
  mutex. `mu` is held across steps only in `terminateCalls`; every other
  critical section of `mu` is one action, guarded by `MuFree`. `RegisterCall`
  is `send` up to `registerCall`, `Write*` the codec, `RemoveFailed` and
  `FailDone` the error path, `ReadHeader` to `ReceiveDone` the loop of
  `receive`, `Terminate*` `terminateCalls` with one step per pending call.
  Calls made with `Call` have their own channel and a context that may end at
  any time; those made with `Go` share one channel of capacity `DoneCap` and
  one user goroutine that issues them and drains it.
* `RpcServer` is one connection of `server.go`: the stream of tokens (CONNECT,
  option, header, body), `ServeHTTP` and `ServeConn` until the codec has the
  connection, the loop, and per request the handler and its child, which meet
  on the unbuffered channels `called` and `sent`. A response is two tokens
  written in two steps, so that interleaving would show. A reader that is
  dropped (the one of net/http at `Hijack`, the decoder of the option) takes up
  to `MaxReadAhead` tokens along. A codec that missed the first header has missed
  the gob definition of its type and can decode nothing that follows (`"lost"`).
  The decoder may hold what it has read from a connection that is closed since, so
  the loop can go on to read requests then.
* `RpcDial` composes it with the client that dials: `dialTimeout`, the
  goroutine (`maker`) that runs `NewHTTPClient` or `NewClient` and meets it on
  the unbuffered `ch`, and then a client that writes requests and hangs up.
  The listener may speak the other protocol, or nothing (`mute`).
* `XClient` is `xclient.go`: the cache, `dial` with the mutex held, and one
  Broadcast with a goroutine per server, with a reply to fill in or with nil
  (`wanted`). A client is its connection, which is up, down (shut down, not yet
  closed) or closed. A connection that a failing dial leaves open is no client:
  it is `"stray"`, in no cache, and nothing closes it. `Get` and `GetAll` of the
  Discovery may have an error (`NoServer`, `NoServers`), and the context of a
  call may be done while it waits, that of a `Call` as well as the shared one.
* `ServiceRegistry` composes the registry, the heartbeats of the servers and
  one caching discovery, with time in ticks. The period of heartbeats is
  `Duration` or, if that is 0, a tick less than `DefaultTimeout`; `Timeout` is
  what this registry was made with.
* `GeeCache` composes `Group.Get`, singleflight, the pool and the cache on
  several nodes. A request to a peer is a task of its own on that node. The
  owner of a key comes from `HashRing`, which is `consistenthash.go`: the
  hashes of the replicas of a set of nodes, and the first from a key's own
  hash onwards, around the end. Hashes are constants. `Wire[k]` is the key that a
  peer reads when `k` was sent: `url.QueryEscape` writes a blank as a plus sign,
  which the `URL.Path` of the peer leaves as it is.
* `LruCache` is `lru.go`: the list, the keys of the map, the byte count, and
  the loop of `Add` as one step per eviction. `RecencyCache` is what it
  promises: the entries used last, as many as fit. The refinement maps the list
  to the part of it that fits, so the evictions of one `Add` are stutters.
* `OrmSession` is goroutines on one database, each with a session of its own, a
  function in `Engine.Transaction`, or `Engine.Migrate`. A call is up to three
  steps: the call, its Before hook, and the statement with its deferred
  `Clear`. `Migrate` is one step per statement: `HasTable`, `Columns`, then
  `CreateTable`, or `AddColumn`s and `Rebuild`. The database is external:
  shared locks for readers, one writer, a commit that may be refused; its
  content is the state of the rows and the columns of the table.
  `AtomicTransactions` is what transactions promise, from the effects of their
  statements (`did`) and how the function ended (`ending`).
* `GeeRouter` is `trie.go` and the routing part of `router.go`, as functions on
  tries: a node is the sequence of parts that leads to it. A path or pattern is
  the sequence of what follows each of its slashes, so `//a` and `/a/` have an
  empty part each, `/` is one empty part and the empty string none;
  `ParsePattern` drops empty parts as `parsePattern` does. Parameters go by
  their names (`:f` and `*f` share one, a bare `*` has none). Beside them stand
  `Matches`, `Better` and `BestRoute`, which say of patterns and paths alone
  what a router promises.
* `GeeEngine` is the engine on it: `Group`, `Use` and `GET` in any order, then a
  request. Groups are gathered by the path as it came, empty parts included
  (`HasPrefix`; `Begins` says which parts begin with the characters of another),
  the route is searched without them. What `Group` and `GET` are given is empty
  or begins with a slash; others are left out. `Static` is a route of its group.
  `chain` is `Context.handlers`, `index` its index, and `calls` the
  stack of handlers that have begun, with how often each has called `Next`.
  User handlers call `Next`, `Fail`, write or panic as they like; `Logger` and
  `Recovery` do what their code does. A panic unwinds the stack to the
  innermost `Recovery` in one step, as Go does; a `panic(nil)`, which `recover()`
  does not show under the `go 1.20` of `go.mod`, is stopped there without a
  `Fail`.
* `RpcClientProofs`, `RpcServerProofs` (about `RpcDial` and `RpcServer`
  together), `XClientProofs`, `ServiceRegistryProofs`, `GeeCacheProofs` (about
  `GeeCache` and `HashRing`), `LruCacheProofs`, `OrmSessionProofs` and
  `GeeEngineProofs` hold the theorems.
* `MC*` modules instantiate the models for TLC.

## Runs

| Run | Instance | Shows |
|---|---|---|
| `rpc_client` | 1 `Call`, 2 `Go`, `DoneCap` 2 | type, once-only completion, no lost call, matching replies, no blocking `done()`, every call ends, refinement of `AtMostOnceCall` |
| `rpc_server` | dial over HTTP or not, to either kind of server or a mute peer, 3 codecs of which one is common; 2 known requests, 1 unknown, timeouts set, methods may hang, read-ahead of 2 tokens | the dial returns, the option arrives; one whole answer per request read, before the connection closes; hang-up ends the loop |
| `rpc_server_unknown` | 1 known, 1 unknown | *violated*: the server leaves a client that did not hang up |
| `xclient` | 1 caller, Broadcast to up to 2 servers, 2 connections | no leaked client, correct error and reply, Broadcast ends |
| `geecache` | 3 nodes with 2 replicas each, 1 key, 2 users, lists of peers that change | merged loads, live leaders, no circular wait, changes of a list move only the keys they must |
| `geecache_evict` | 2 nodes, 2 keys of which peers read one as the other, 1 user, room for 1 key | no value but that of the key or of what a peer reads for it, every Get returns |
| `registry` | 2 servers with the default period, 2 getters, timeout and default timeout 3, refresh 2, delay 1 | fresh lists, even picks, a beating server is listed |
| `registry_loss` | 1 server | *violated*: one failed heartbeat unlists a live server for good |
| `lru` | 3 keys of length 0 to 2, values of length 0 to 6, 5 bytes | list, map and byte count agree, refinement of `RecencyCache` |
| `orm_session` | 2 goroutines, 2 rows, 2 calls each, hooks of Insert use the session; no table, the model's, or one with a column less and one more | locks released, statements obey their own WHERE, a successful migration leaves the model's columns, refinement of `AtomicTransactions` |
| `gee` | 3 groups (the engine's included) of prefixes `/a`, `/:f` and `/`, 2 middlewares, 2 routes, paths `//a` and `/a/ab/`, 2 calls of `Next` per handler | the best route, the middlewares of the groups around it, each handler once and in order, nothing after `Fail`, panics answered |
| `orm_hook` | 1 goroutine, a hook of Delete that uses the session | *violated*: the WHERE clause is lost |

Why the bounds are enough. *Client*: a call meets at most one other sender for
`sending`, one shared-channel neighbour and the receiver; three calls, two of
them on one channel, give each of these roles a holder, and the safety
properties are proved for any number. *Server*: two handlers and the loop are
three writers for one connection; a read-ahead of two tokens loses half a
request or a whole one. *XClient*: two callers of one address race in
`dial` when the caller and the Broadcast meet; two connections let a broken
client be replaced once, or a stray stand beside a client. *GeeCache*: three nodes are the shortest chain with a
node in the middle, needed for a circular wait; two keys make an eviction, and one of them read as the other shows that no third
value comes back; the key's hash lies behind the last replica, so its owner is found around the
end of the ring.
*Registry*: the timeouts leave a tick between period and expiry, and two
getters can come between each other's refresh and choice. *LRU*: sizes from 0
to more than the cache make an `Add` evict none, some, all and itself.
*Sessions*: two goroutines contend for the writer's lock and for a commit; a
failed call leaves one more that would see what it left; a session may begin,
end and then use a finished transaction; the old table needs one column added
and one dropped. *Gee*: a prefix inside a prefix, one with a parameter, a
static part and a catch-all make every kind of conflict of two routes; `//a`,
`/a/ab/` and the prefix `/` have an empty part before, behind and between the
others, and `/a/a` is a prefix of `/a/ab/` by characters only; two
middlewares (those of `Default`, or of `Use` on any of the groups) and a route nest
`Next` three deep. `MaxNexts` is 2 since past the
end `Next` only counts on. Histories that
exist to state properties (`completions`, `served`, `picks`, `read`,
`written`, `did`, `entered`) are bounded by the finite sets or by `MaxPicks` and
`MaxStatements`.

Symmetry is used only in runs without liveness, over sets whose members the
specification does not tell apart (the users of `geecache`, the getters of
`registry`). Deadlock is checked in every passing run but
`orm_session`, whose goroutines end; elsewhere a finished program stutters
explicitly (`Quiesce`, `Quiescent`).

### Fairness

`RpcClient`: every goroutine that can run does, each call contends once for
`sending`, and the server answers what it was sent. No call, cancellation,
`Close` or break is forced. `RpcServer`: the loop, the writers and the
handlers run, timers fire; methods return only if `MethodsReturn`, which `rpc_server` does
not assume: its `HangUpCloses` holds because a handle timeout is set. `RpcDial`:
the goroutine of the dial runs, its timer fires; the client need not dial, send
or hang up, a mute peer never answers. `XClient`: goroutines run and servers answer; the mutex of
`dial` is granted to a goroutine that keeps asking (strong fairness), since
callers come back to it for ever and Go's mutex hands over to a starving
waiter. `GeeCache`: goroutines run, getters and peers return. `ServiceRegistry`:
time passes and tickers fire. `LruCache`, `OrmSession` and `GeeEngine` have no
liveness property: the first is one goroutine, and the functions given to
`Transaction` and the handlers of users owe nothing.

## Proofs

Each proof module states an inductive invariant `IInv` (`SafeInv` for GeeCache)
of its component, proves with one lemma per action that every step keeps it,
and derives the theorems. All `IInv`s were model-checked on the instances of
the runs before they were proved. The theorems hold for every value of the
constants that the named assumptions of the modules allow; most of these only
say that marks such as `None` are no members of the sets, or what type a
constant has. Stronger ones are named below.

| Module | Proved of its specification |
|---|---|
| `RpcClientProofs` | `TypeOK`, `CompletedAtMostOnce`, `NoLostCall`, `ReplyMatches`, `DoneNeverBlocks` if `Done` has room for all asynchronous calls, and the refinement `ImplementsAtMostOnce` |
| `RpcServerProofs` | `AnsweredOnce`, `WholeResponses`, `AnsweredBeforeClose`, `OptionArrives`, for any requests and any read-ahead |
| `XClientProofs` | `TypeOK`, `NoLeakedClient`, `BroadcastResult`, `OwnErrorFirst` |
| `ServiceRegistryProofs` | `TypeOK`, `BeatingIsListed`, `ListIsFresh`, `PicksAreEven`, for any timeouts and periods (`BeatingIsListed` for periods shorter than the timeout) |
| `GeeCacheProofs` | `TypeOK`, `OneLoadPerKey`, `NoWaiterLost`, `ResultCorrect`, `NoCyclicWait`, and the action property `MovesOnlyWhatItMust`, for any lists of peers and any `Wire` that reads what it has read unchanged |
| `LruCacheProofs` | `TypeOK`, `Accounted`, and the refinement `ImplementsRecencyCache`, for any sizes and bound |
| `OrmSessionProofs` | `TypeOK`, `MigratedHasModel`, `StatementsObeyWhere` if no hook of Find, Update or Delete uses its session, and the refinement `ImplementsAtomicTransactions` |
| `GeeEngineProofs` | `TypeOK`, `RoutedAsDeclared`, `BehindItsGroup`, `EnteredInOrder`, `FailEndsChain`, `PanicAnswered`, for any groups, routes and paths and for chains and nesting of any depth |

### The invariants and why they are needed

*RPC client.* None of the properties is inductive. That a call is completed at
most once depends on who may still complete it, so `IInv` says, besides the types:

* `SeqInv`: registered numbers are below `seq` and identify calls; an entry of
  `pending` sits at its call's number; what travels carries that number.
* `LockInv`: a sender between registration and the end of `send` holds
  `sending`, `terminateCalls` holds it while it drains, and afterwards no call
  is being written. This is what the `sending` lock in `terminateCalls` is
  for: without it a call could be completed by the drain and then found in
  `pending` by the failing `send`.
* `HeldInv`: the call `receive` holds is that of the response and is nobody
  else's to find.
* `OnceInv`: whoever may still complete a call finds it not completed; after
  the drain the entries left in `pending` are nobody's.
* `ReplyInv`, `RouteInv`, `ServedInv`: the same for results, for who will
  complete a call, and for what the server executed.

The refinement maps each step to a step of `AtMostOnceCall` or a stutter:
`Begin` to `Issue`, `Respond` to `Execute`, `CallReturn` and `Drain` to
`Succeed` or `Fail`, `CtxDone` to `Abandon`.

*RPC server and dial.* One answer per request follows from `TaskInv`: handler
and child move together through the two unbuffered channels, and whoever
answers has ended the other's chance to. Whole responses follow from
`OutInv`: while both ends are there, what is on the wire lacks a body exactly
when somebody holds the mutex, and that somebody wrote the header. `StreamInv`
keeps requests from being read twice, `AnswerInv` links the wait group to the
answers, `HandshakeInv` says that nothing follows CONNECT before its answer.

*XClient.* `MutexInv` (whoever connects holds the mutex, and the cache has
nothing for its server, which it looked up before) makes `ConnInv` inductive:
a client that is not closed is the cached one of its address. That is what
`NoLeakedClient` promises, and no more: strays are outside every cache.
`CollectInv` and `CancelInv` follow what
the goroutines have collected under Broadcast's mutex.

*Registry.* Time is in `HeartbeatInv`: the age of a server's last heartbeat and
the time to the next one add up to no more than the period; so the server is
listed if the period leaves time (`EnoughTime`: `Duration` is shorter than
`Timeout`, or the default period is used and `Timeout` is no shorter than
`DefaultTimeout`). `FreshInv` follows
the age of servers from the registry into the answer and the list. `EvenInv`
says that round robin has been once more at the places of a cyclic interval
that ends at the next place; it needs that a list names no server twice
(`ListsInv`) and, since `index` runs on while lists change length, that the
remainder of a division steps around (`NextModulo`, `RoundGoesOn`).

*GeeCache.* `FlightInv` and `WaitInv`: a call is registered just while its
leader is at work, and has a value just when that is through; who waits, waits
for a live call. `ResultCorrect` follows for any
`Wire`: a call's value is that of its key, or of the key a peer read in its place.
`HandlerInv` gives `NoCyclicWait`: a request to a peer is one for a key that is *closer* to that
peer on the ring, whatever two lists of peers say, so the nodes of a chain of
requests are ordered. The lemmas about `Nearest` (the first hash at or after
the key's, around the end) carry this and `MovesOnlyWhatItMust`; the only thing
asked of hashes is that two nodes share none.

*LRU.* `TypeOK` and `Accounted` are inductive together. The work is in the sum:
`TotalOne`, `TotalConcat` and `TotalMoved` say what appending, concatenating
and moving an element do to the total, `MovedKeys` and `AddedKeys` what they do
to the keys. The refinement needs `FitsInv` too, that only inside `Add` there
may be too much: outside it the abstract cache holds the list itself, so `Get` and
`Add` are a `Use` and `RemoveOldest` a `DropOldest`; inside it `LastDoesNotFit`
makes each eviction a stutter.

*ORM sessions.* `LockInv`: a lock belongs to a transaction that is open, and
without a writer there is nothing uncommitted. `EffectsInv` is the refinement's
core: what a transaction sees is what was committed and its own effects, in
order. `MigrateInv` and `ColumnsInv` say that a migration that has read the
columns keeps others from committing different ones. `StatementsObeyWhere` is
false with a hook of these that uses its session (run `orm_hook`), hence the hypothesis
on `HookUses`; `WhereInv` names it. In the refinement, statements that write map
to `Do`, or to `Alone` outside a transaction, the end of the function to `End`,
a commit that succeeds to `Commit`, a `Begin` that fails to `Refuse`, the other
ends to `Abort`, everything else to a stutter.

*Gee.* `StackInv` says that the handlers on the stack are in the order of the
chain and that `index` is no less than any of them, and that a `Recovery` that
has begun is still on the stack, or the chain was at its end when it left;
`IndexInv` ties `entered` to `index` until something ends the chain, `FailInv`
and `PanicInv` say what is left then. `TypeOK` rests on `TrieInv`, kept by
`InsertInv`: the children of a node are nodes, a wildcard is the last of them
(a part is added only where none matches), and a node bears a route that was
added or none. `SearchType` concludes that a request gets one of the routes. It
needs that paths and prefixes are sequences of strings (`PathAssumption`; `ParseFacts`
and `ParseType` say what `ParsePattern` makes of them) and
that a handler may call `Next` at all (`NextsAssumption`).

`RoutedAsDeclared` takes two more invariants of the trie: every node is a child
of the one before it (`TreeInv`), and a route is where `insert` would put it
now (`LandInv`). The second is kept because a later insertion only appends
children where none matched, so the first match on the way of an older route is
what it was (`BelowStable`, `WayStable`, `InsertTree`). If no route was lost
(`Distinct`), each route is then at the node that its own parts lead to, and
nowhere else. On such a trie (`Settled`) `SearchRight` shows, from the deepest
nodes upwards, that what the search finds below a node is the pattern better
than all others that fit there: it tries the child with the part's name before
the wildcard, since that is the last child, and goes on to the wildcard only when
nothing was found (`DescendStep`). Of two patterns one at most is better
(`BetterOnce`), so that pattern is `BestRoute`; `FilledIs` puts the parameters
back into it if each wildcard has a name of its own (`OwnNames`).

`BehindItsGroup` takes `BelongInv`: what was used on a group is marked with it,
the prefix of a group starts with that of its parent and a route with that of
the group that registered it, and a request keeps the chain that `ServeHTTP` put
together. `Around`, the groups a group is nested in, is the least set with the
group that has the parents of its groups; so it suffices that the groups made
before a group, and those whose prefix its own starts with, are such sets
(`AroundFacts`), which needs no induction. A path that fits the route then has all
these prefixes (`PathHasPrefix`; a part begins with itself, `BeginsAssumption`)
if neither they nor the path have an empty part that far and they have no
wildcard: then what the router compares is what `HasPrefix` does. Each of these
premises is needed, TLC refutes the property without any of them;
and `FlattenBlocks` shows that the chain holds the middlewares of one group after
another, in the order in which the groups were made.

### Folds and tries

The effects of a transaction and the bytes of a cache are folds, and the
community modules define a fold by a recursive function on sets. The induction
theorems of the library take an operator as a parameter and cannot be used here,
so `LeastNat` (every nonempty set of naturals has a least element, from
`WFMin`) stands in for them: a shortest sequence for which a lemma failed would
be one element longer than one for which it holds. `IterExists` shows so that
the function of the fold exists, `IterAgree` that it extends, and
`TotalOne` and `AfterOne` unfold a fold by one element. `WayFacts`,
`SearchFacts` and `FlattenFacts` do the same, by `SetInduction`, for the way of a
pattern, which goes down the trie, for the search of a path, whose function is
built from the deepest nodes upwards, and for `FlattenSeq`.

### Only model-checked

All liveness (`EveryCallEnds`, `EveryRequestAnswered`, `HangUpCloses`,
`DialReturns`, `BroadcastEnds`, `EveryGetReturns`): no prover here does fairness
or `ENABLED`. Every invariant of the runs that pass is proved.

## Where code and documentation differ

The three *violated* runs above, each listed in `PROJECT.json` with the line it
contradicts. Met while modelling, and not a run:

* the decoder of the option may take requests off the connection that the codec
  then never sees (`geerpc/server.go:70`); `RpcServer` has the step, so nothing
  more than `AnsweredBeforeClose` can be promised to them;
* after a connect timeout, an HTTP answer other than 200 or an unknown codec the
  connection is never closed, and after the timeout the goroutine stays blocked
  on `ch` (`geerpc/client.go:190-213`); to `XClient` these connections are strays;
* a static route added after a route with a wildcard in its place becomes a
  child of the wildcard: "/hello/b/c" after "/hello/:name"
  (`Gee/gee/router_test.go:35-44`) also takes "/hello/alice/c", and "/:b" after
  "/:a" replaces it. `RoutedAsDeclared` is about the routes of an engine where
  this did not happen (`Distinct`);
* groups are chosen by the characters of the path as it came, routes by its parts
  without the empty ones (`Gee/gee/gee.go:47`, `router.go:20-33`): the middlewares
  of a group "/v1" run for "/v10" too, those of a group whose prefix has a
  parameter never run for what the parameter stands for, and "//v1/hello" reaches
  the route of group "/v1", "/a" that of a group "/a/", and "/v1" that of
  `Group("/").Group("/v1")`, without the middlewares of the group.
  `BehindItsGroup` sets these cases apart;
* a `panic(nil)` ends in `Recovery` without a 500, and later handlers run
  (`Gee/gee/recovery.go:14` under `go 1.20`); `PanicAnswered` sets it apart;
* the default period of heartbeats is `defaultTimeout` less a minute for every
  registry, "to make sure there is enough time" (`geerpc/registry/registry.go:97-99`):
  one made with a shorter timeout removes the server between two heartbeats.
  `BeatingIsListed` is about periods that are shorter than the timeout;
* a panic after something was written cannot become a 500
  (`Gee/gee/recovery.go:17`), and `Logger` logs 0 where nothing set a status;
* the table that `Migrate` rebuilds has lost its PRIMARY KEY, and a column that it
  adds has none of its tag (`GeeORM/geeorm/geeorm.go:113,124`);
* the cancellation of `Broadcast` ends its other calls in the client only, the
  servers work on (`geerpc/xclient/xclient.go:131`, README.md:921);
* a goroutine that missed the cache before another filled it calls the getter
  again (`geecache/geecache.go:84`, against the comment at 32-33);
* an error of a statement or a hook that the function given to `Transaction` does
  not return is committed over (`GeeORM/geeorm/geeorm.go:71`, README.md:487);
* a peer reads "a+b" where the key "a b" was meant, `url.QueryEscape` against
  `URL.Path` (`geecache/http.go:26,84`), and its value is cached under "a b".
  `ResultCorrect` promises a key that travels unchanged its own value, and such a
  key no value but its own or that of what the peer reads;
* a `Go` on a `Done` channel that is too small blocks inside `send`
  (`geerpc/client.go:228`), or stops the receive loop and `terminateCalls` with
  `mu` held (line 93-96); all runs and proofs give `Done` room for every call.

## Not modelled, and the plan

Left out of the models above: clauses other than WHERE, `First`, `DropTable`,
After hooks and hooks that change the model, a panicking RPC method (it ends the
process), a panicking getter in singleflight (it wedges its key, and no `Get` of
that key would return), two replicas with one hash, a registry timeout of 0,
HTTP methods other than one in Gee's router (their tries never meet), prefixes and
routes that do not begin with a slash, the status `Logger` prints, the wording of errors and logs, reflection.

Not modelled at all, for want of shared state or of anything a model checker
would add to a unit test: the generated `geecachepb`, `ByteView`, the debug page,
schema, dialect and clause generators of GeeORM (text from reflection), the log,
the demo programs.

What is left to prove is the liveness, and that waits for a prover with fairness.
