# A verification development of quill-core

Quill-core is a Rust library that gives PHP workers an HTTP server over FFI: a
tokio/axum server on a thread of its own accepts requests, and the PHP thread
polls them one by one and responds. These TLA+ modules model the parts of it
whose correctness depends on the order of steps of several actors; TLC checks
them on small instances, and TLAPS proves the main invariants for every value
of the constants. `lib.rs`, `state.rs`, `validator.rs`, `router.rs` and
`manifest.rs` below are the files of `src/src/`.

## 1. The system

| component | state | operations | who runs them |
|---|---|---|---|
| Request bridge | `REQUEST_ID`, the flume channel (`POLL_SENDER`, `POLL_RECEIVER`), `PENDING_RESPONSES`, a oneshot per request, `NATIVE_RESPONSES`, the counters | the handler future; `quill_server_poll`, `quill_server_respond`, `quill_route_preload` | tokio worker threads; the PHP thread |
| Server lifecycle | `SHARED_SOCKET_FD`, the capacity of the channel, `DRAIN_SIGNAL`, a listener per server | `quill_server_prebind`, `quill_server_listen`, `quill_server_drain`; `start_server` | the PHP thread; a thread per listen |
| Shared-State Broker (SSB) | a `DashMap` of JSON values | `quill_shared_set`, `_get`, `_incr`, `_remove`, `_keys` | PHP threads |
| Router | an immutable tree of patterns per method | `quill_router_build`, `_match`, `_dispatch` | PHP thread, tokio workers |
| Validator registry | schemas and compiled regexes, two `DashMap`s | `quill_validator_register`, `_validate` | PHP threads, tokio workers |
| Handles | the `Arc` counts of routers, registries and server states | `_build`/`_new`, `listen`, `_free` | PHP thread, server threads, connection tasks |
| Metrics | `TOTAL_REQUESTS`, `ACTIVE_REQUESTS`, `TOTAL_LATENCY_US`, `SERVER_WORKERS` | `quill_server_stats` | PHP thread |
| FFI buffers, JSON compaction, log file | none, or a path set once | copies cut to the caller's size; `quill_json_compact`; `quill_server_set_log_file` | PHP thread |

How they interact: the handler future reads the router and the registry
(immutable or concurrent maps), and meets the PHP thread in the channel and in
`PENDING_RESPONSES`. The lifecycle decides whether handler futures exist at
all. The processes of a pre-fork deployment share the listening socket and,
whatever the documents say, nothing else.

Which behaviours are hard, and what makes each component correct:

- *Bridge.* A request crosses two threads twice. A client may time out or
  leave while its request is in the channel, in PHP, or in the table; PHP may
  respond late, twice or never; ids keep 24 bits; the channel may be full, and
  a full channel blocks a worker thread. It is correct when no client ever
  gets another client's result, no waiting client is forgotten, nothing is
  leaked that PHP has responded to, and everything ends.
- *Lifecycle.* `listen` returns before its thread has a listener or a drain
  sender, so drains, prebinds and further listens interleave with it. It is
  correct when drains reach the server that accepts, connections are not lost
  on sockets that others serve, and a told server ends.
- *SSB.* Reads, writes, increments and walks of several threads meet in shard
  locks, and integers have a width. It is correct when each call is atomic,
  except `keys`, which must be right about what nobody touches.
- *Validator registry.* Registration compiles regexes into a shared cache
  before it stores the schema, and may panic in between, while other threads
  register schemas with the same patterns and tokio workers validate. It is
  correct when a verdict is that of one schema with all its regexes.
- *Handles.* PHP frees a router while a server, or a connection task that
  outlives its server's thread, still uses it. They are correct when an object
  is released when its last owner is gone, and not before.
- *Metrics.* A report reads counters one after the other, without order, while
  futures update them. It is right when each figure is right at some moment of
  the call and the figures disagree only by what moved during it.
- *Router, FFI buffers.* Pure functions with boundary cases: conflicting
  routes, 404 against 405, replies that do not fit.

Every hazard of the code, with its line, is in `PROJECT.json` under `hazards`.

## 2. The modules

| module | what it is |
|---|---|
| `RequestBridge` | the bridge of one worker process, in detail |
| `Gateway` | what the bridge promises: no ids, channel, threads or oneshots, and which requests a preloaded response may answer |
| `BridgeRefinement` | the mapping from the first to the second |
| `SharedState` | the SSB, at the grain of its shard locks |
| `AtomicStore` | a store whose calls take effect at one instant |
| `BrokerRefinement` | the mapping from the first to the second |
| `ServerLifecycle` | sockets, listen, drain and graceful shutdown |
| `DtoSchemas` | schemas, rules, JSON values and calls, as far as rules tell them apart |
| `ValidatorRegistry` | register and validate over the two maps, at the grain of their locks |
| `DtoValidator` | what they promise: no cache and no locks, rules as plain implications |
| `ValidatorRefinement` | the (identity) mapping from the first to the second |
| `Router` | the routing table and a definition of the right answer by the manifest |
| `FfiBuffers` | the copy of a text into a caller's buffer |
| `Handles` | reference counts, composed with `Router` and `FfiBuffers` |
| `ServerStats` | the counters and `quill_server_stats` |
| `RequestBridgeProofs`, `BridgeRefinementProofs`, `SharedStateProofs`, `ServerLifecycleProofs`, `ValidatorRegistryProofs`, `HandlesProofs`, `ServerStatsProofs` | theorems |
| `FoldLemmas` | induction over data for these: folds and sums |
| `MCRequestBridge`, `MCSharedState`, `MCServerLifecycle`, `MCValidatorRegistry`, `MCHandles`, `MCServerStats` | instances for TLC |

Operators whose comment begins with "Mutant" are variants of the definition
that follows them, with a plausible bug; nothing uses them but the mutation
tests that `PROJECT.json` lists, in which one replaces the original and TLC
must find the property violated.

### RequestBridge

One step is what a tokio thread does between two awaits, or one FFI call.
`stage[r]` is the place of the handler future of request `r`:

| stage | code | leaves by |
|---|---|---|
| `new` | before `handle_request` | `Arrive`: route error, native response, or on to the body (lib.rs:138-224) |
| `reading` | `to_bytes(..).await` (228) | `RejectBody` (413), `RejectDto` (400), `TakeId` (264-276), `Disconnect` |
| `sending` | between the id and the send (278) | `Send` |
| `blocked` | parked inside flume's `send` | `Poll`, which takes one request and lets the oldest parked send in |
| `waiting` | `timeout(30s, rx).await` (282) | `Resume`, `CheckDeadline`, `Disconnect` |
| `expiring` | the timeout found the oneshot empty and looks at its deadline | `Expire` (504) |
| `done`, `dropped` | answered; dropped with its connection | |

`pending` is `PENDING_RESPONSES` with, for each id, the request whose sender
the entry holds; `slot[r]` is the oneshot of `r`: nothing, the result of some
request, or `Closed` when its sender was dropped. `Poll`, `Respond`,
`Abandon` (PHP never responds, or passes a null pointer) and `Preload` are
the calls of PHP. A request id is `ticket[r] % IdSpace`; in the code `IdSpace`
is 2^24 and the process's pid fills the other bits.

Left out: the bytes of requests and responses (status truncation included),
the latency sum, logging. What `match_route` returns for each request is the
constant `Route`; whether a body is too large or invalid is a free choice.
Responding to an id that was never polled is left out, it finds no entry.
The 503 branch of the send cannot be taken: `POLL_RECEIVER` is a static.

### SharedState

`set`, `get` and `remove` are single steps under the lock of their key's
shard. `increment` keeps the shard's write lock from `entry()` to its return
(state.rs:26-30), so it is two steps, `IncrEntry` and `IncrStore`. `keys`
(state.rs:34) iterates over the map and takes the read lock of the next shard
before it releases the last one: `KeysBegin`, `KeysNext`, `KeysEnd`. `Fork`
copies the map. `reply` holds the last reply of a thread with the call it
answers. `steady` and `met` are history variables of the walks.

Integers are those of `-Half .. Half - 1`; `Checked` says whether overflow
panics (debug builds; `catch_unwind` makes the reply 0) or wraps (release
builds). A key that is no UTF-8 becomes the empty key through `KeyOf`. Calls
that return before they touch the map (null pointers, a value that is no
JSON) and the copy of replies into the caller's buffer are left out.

### ServerLifecycle

One worker process. `Prebind`, `Listen`, `DrainBegin` and `DrainEnd` are the
PHP thread (asleep between the last two); `MakeListener`, `InstallDrain`,
`StopAccepting` and `Stop` are the thread of a server (lib.rs:103-136), on which
axum's accept loop runs. Connections, and the task that waits for the drain
signal (`Hear`), run on the worker threads of the server's runtime. A request
whose send finds the channel full (`Send`) parks the worker it runs on
(lib.rs:278) until PHP polls (`Poll`), and PHP polls nothing while it sleeps in
`drain`: without a free worker (`WorkerFree`) no connection of that server ends
and no signal is heard. When the channel is full is `RequestBridge`'s matter;
here it may be at any send, and a connection carries one request.
`Accept`, `Hear`, `Connect` and `Close` are axum, tokio, the kernel and the
clients, modelled from how the code uses them. A socket listens while any
descriptor of it is open: the prebound one (`fd`), one forgotten by a second
prebind (`leaked`), or a server's (`listener`).

Left out: the port (every socket is on the same one; `SO_REUSEPORT` is set),
the failure of `prebind` (it changes nothing), and the
SIGTERM task (118-125): it replaces the default action of the signal and ends
without draining, so a process with a server ignores SIGTERM unless PHP
handles it.

### ValidatorRegistry

`register` (validator.rs:55-71) enters with the patterns of its schema in
`todo`. For each it takes the cache's entry, which is locked while another
thread compiles into it: `FindCompiled`, or `StartCompile` and `EndCompile`,
which stores the regex or panics (63). The panic ends the call with -1 and
keeps what was compiled before it. `Store` inserts the schema (69), which
waits for the validations that hold the read lock of the old one. `validate`
holds that lock from its lookup (78) to its return: `Validate`, a `CheckField`
per field in any order, and `Conclude`. Fields and patterns are visited in any
order: the code walks over a `HashMap`.

A JSON value keeps its kind, the value of a number, and of a string its length
in characters and in bytes and the regexes that match it. A number is read as
a double (validator.rs:170 and 176): integers beyond 2^53 are rounded to the
nearest one. The constant `F64` is that rounding, of which only the order and
the doubles themselves are assumed to be kept; limits are doubles already. `CheckRule` is
`check_rule` with every rule, for the absent regex too, which accepts.
`Required` never fails there: null does not reach it.

`DtoValidator` states the rules over again as implications with no cache, so
that `ImplementsDtoValidator` is also the reference check of the rules.

Left out: the texts and the order of messages within a field, the parsing of a
schema (one that does not parse is `Malformed`), null pointers, and the UTF-8
fallbacks, which give a text that does not parse.

### Handles, Router, FfiBuffers

`held` are the pointers PHP has; `count` is the strong count of each router
and registry, `refs` that of each server's state (lib.rs:504), which its thread
and its connection tasks (`task`) own. `Build`, `New`, `Free`, `Match`,
`Dispatch`, `Validate` and `Listen` are the FFI calls; `Accept`, `EndTask` and
`EndServer` are the runtime, modelled from how the code uses it. `DropState` is
what happens when a state loses an owner. PHP frees a pointer at most once and
does not use it afterwards: that is its side of the contract, and assumed.

`Router.NewRouter` folds `AddRoute` over the manifest (router.rs:22-30); the
refusal of `insert` is ignored there. matchit refuses a pattern it has under
another name of its parameter too, so a pattern is a sequence of segments in
which every parameter is `Wild`; catch-all patterns, and the values of
parameters, are left out. `MatchRoute` is router.rs:35-54. `IsAnswer` says what
a manifest asks for without trees or an order of insertion.

`FfiBuffers.CopyOut` is the copy that every call with an output buffer makes
(lib.rs:444-450, 775-781, 881-887, and in poll, which is not composed with it):
the bytes that fit and a NUL. In `Handles` a text repeats one byte that names its
outcome. Left out: `max_body_size` and the number of parameters, null
pointers, and buffers of size 0, which the calls do not touch (the theorem on
`CopyOut` covers them).

### ServerStats

`handle_request` (lib.rs:138-153) makes two updates before the inner handler
and two after it, each a relaxed atomic operation of its own: `left[r]` are the
updates of the pair that have not taken effect, in any order. The loads of
`quill_server_stats` (537-541) are the set `loads`. A future that is dropped
while the inner handler awaits (`Drop`) never makes its last pair. `since` is
what the futures were when the call began, a history variable. Updates of one
pair are not reordered across the inner handler, which takes locks and runs
for thousands of instructions; this is an assumption on the build. `workers`,
constant after listen, and the release of the text are left out, as is
`Preload`, which does not count.

## 3. What TLC checks

| run | instance | properties | shows |
|---|---|---|---|
| `bridge_wrap` | 3 requests, 2 workers, depth 1, 2 ids | the seven invariants, `RespondReachesItsClient`, `LineIsFifo`, `OnlyPollEndsAStall` | see below |
| `bridge_service` | 3 requests with a DTO route, a preloadable one and one for PHP; 2 workers, depth 1, 4 ids | `ImplementsGateway`, `ForwardedRequestsEnd` | service without wrap; everything ends |
| `bridge_stall` | the same, all for PHP, which may stop polling | `ForwardedRequestsEnd` | **violated**: see the findings |
| `ssb_store` | 2 processes, 3 threads, one key reached by two raw keys, overflow checks | `ImplementsAtomicStore` | calls are atomic; a panicking sum changes nothing |
| `ssb_walk` | 2 threads, 3 keys in 3 shards, wrapping sums | `TypeOK`, `IncrementsAreIsolated`, `KeysAreWeaklyConsistent` | walks and increments against writers |
| `ssb_shared` | 2 processes | `SharedByAllWorkers` | **violated** |
| `life_servers` | 2 listens, a worker each, 2 sockets, 2 clients | `TypeOK`, `DrainReachesServing`, `DrainTellsAServer`, `PreboundNeverReset`, `ConnectionsHaveAnOwner`, `ToldServersEnd` | every order of calls and thread steps |
| `life_prebound_drain` | 1 listen, 1 socket, 1 client | `DrainStopsAccepting` | **violated** |
| `life_early_drain` | the same | `DrainEndsServers` | **violated** |
| `validator` | 2 PHP threads and a worker, 1 name, 3 schemas, 5 inputs and malformed ones, 3 patterns of which one does not compile, doubles of 3 bits | `TypeOK`, `StoredSchemasAreCompiled`, `CompiledOnce`, `AcceptedDataIsClean`, `NumbersInRangePass`, `LengthRulesErrOneWay`, `ImplementsDtoValidator` | registrations and verdicts are atomic and right |
| `handles` | 2 routers from 2 manifests, 1 registry, 2 servers, 1 connection task, a buffer of 3 | `TypeOK`, `CountsAreExact`, `NothingUsedAfterFree`, `RoutesMatchManifest`, `TextIsWholeOrFull` | every order of calls, shutdowns and frees |
| `stats` | 2 requests, latencies up to 2 | `TypeOK`, `EachFigureIsOfTheCall`, `AverageIsBounded`, `ActiveWithinTotal`, `QuietReportIsExact` | every order of updates and loads |

The invariants of the bridge say exactly what a wrap of the id counter can do
(`ForeignResultNeedsWrap`: a client gets another's result only if their ids
were taken a full turn apart; `EmptyResultNeedsWrap`: the same for the empty
response of a displaced sender) and that nothing else goes wrong: no waiting
client is forgotten (`WaiterIsReachable`), the table keeps only what PHP owes
or abandoned (`LeakOnlyByAbandonment`), sends are parked only at a full channel
(`ParkedOnlyWhenFull`), the channel and the sends parked behind it are one FIFO
(`LineIsFifo`), and `ACTIVE_REQUESTS` is off by exactly the clients that left
(`ActiveAccounting`). `OnlyPollEndsAStall` says what the blocking send costs: when
it has parked every worker thread, no request arrives, times out or gets the
response that is there for it before PHP polls again.

`RespondReachesItsClient` says what `respond` does for a client that waits: the
response is put into its oneshot unless another one is there, nothing
overwrites it, and from then on the client is answered by PHP, past its deadline
too, or goes away. The exception is the window inside one poll of the timeout,
after it has found the oneshot empty and before it has looked at its deadline:
a response that arrives then is lost if the deadline has passed, and the client
gets its 504.

`Gateway` knows which requests are *bare*: without parameters and without a DTO.
A response published for a handler by `quill_route_preload` answers its bare
requests that arrive from then on, and no other request, ever; a preload that
caught a route with a DTO or with parameters would break `ImplementsGateway`.

`ToldServersEnd` holds although `Hear` and `Close` need a worker and every worker
may be parked while PHP sleeps in `drain`, because the sleep ends by the clock
and not by what became of the requests (lib.rs:573): PHP polls again, the parked
sends get in one after the other, and the workers come free. A drain that waited
for its server would wait for ever.

The two invariants of drains are converses: the server that accepts and was not
told is the one whose sender `DRAIN_SIGNAL` holds (`DrainReachesServing`), and
a sender held there is that of such a server (`DrainTellsAServer`), so a drain
that does not return 1 has stopped a server.

What passes a validation is what was given or a default, and keeps every rule of
its field, or is null where that is allowed (`AcceptedDataIsClean`, with `Kept`
saying for each rule what it has made sure of). A number beyond a limit may pass
only if it is rounded to that limit; no number within the limits is refused
(`NumbersInRangePass`). `Min` and `Max` take a value that is no number for a 0.
`MinLength` and
`MaxLength` count bytes where their messages say characters;
`LengthRulesErrOneWay` says which way they err: a string with enough
characters is never too short, and none with too many passes, but one with
too few may pass and one with few enough may be refused. The pattern `email`
means the pre-seeded regex, in the promise too (`DtoValidator.Meaning`).

In a report, `avg_latency_us` may exceed the longest latency there ever was:
a request that arrives and ends during the call can be in the sum and not in
the count. `AverageIsBounded` and `ActiveWithinTotal` say by how much, and
`QuietReportIsExact` that it takes requests that move during the call.

**Bounds.** Three requests let one hold the single slot of the channel, one be
parked and one be in PHP, and with two ids let the third take the id of the
first: every distinct relation of two requests with a third as interference.
Two workers are the least for which a free one and a parked one coexist. The
request count bounds every counter, so no state constraint is needed. In the
SSB, widths of one bit (`-1, 0`) reach every overflow with one increment, and
three shards give a walk a first, a middle and a last one. Two servers and two
sockets give a prebound socket, one of its own, a replaced server and its
successor; more of either repeat these. One worker per server is parked by one
send, and two clients then leave one that is parked and one that waits for the
worker to end; a second request of a connection would only repeat the first. In `validator`, two registering
threads meet in every state of one name and of one shared pattern, and the
worker validates meanwhile; the schemas hold every kind of rule, a good default
and one that breaks its rules, and the inputs a string whose characters and
bytes differ. With doubles of three bits the numbers from 6 to 12 are exact up
to 8 and then rounded to even ones, so 9 is beyond a limit of 8 and rounded to
it. In `handles`, two servers can share one router while PHP builds
another; one connection task is enough for a state that outlives its server's
thread, because a count distinguishes only none, one and more. Replies of 1,
2 and 3 bytes are one that leaves room in a buffer of 3, one that fits it
exactly, which a caller cannot tell from one that was cut, and one that is cut. The two
manifests have a static route beside a parameter, equal patterns, a path of
another method, and a method without routes. Two requests make one that is
settled or moves before the call and one that moves during it; latencies up to
2 tell a request from two. Symmetry is used only in runs of
safety properties whose instance treats the permuted values alike.

**Deadlock** is checked in every run but `handles`, in which PHP has built all
it ever builds, freed it, and stops; `stats` and the others can always take a step.

**Fairness.** `ServerFairness` of the bridge is weak fairness of each request's
`Send`, `Resume`, `CheckDeadline` and `Expire`: tokio runs woken futures and
its timers elapse. Since these need a free worker, a parked send disables them
only as long as all workers are parked. `FairSpec` adds that PHP keeps
polling; it never needs to respond, and nothing is assumed of clients.
`FairSpec` of the lifecycle is weak fairness of each server thread, of its task
that hears the signal, of the end of each connection of a server that shuts
down, of the poll of each parked send, and of the return of the sleep in
`drain`. Hearing the signal and ending a connection need a free worker and
polling needs PHP awake, so nothing is assumed of them while the workers are
parked or PHP sleeps. The server thread's accept loop selects between a new
connection and the signal in random order, so it takes the signal in the end
and `Accept` is not part of that fairness. PHP is assumed to go on polling, and
polls take sends in the order they came. Shutdown closes idle connections and
turns keep-alive off, and a request that was sent ends by its response or its
504. That leaves one assumption on clients: those connected to a server that
shuts down complete or give up the request they are in the middle of. One that
sends its body for ever keeps the server in shutdown, which the code does not
bound.

## 4. Findings

- `bridge_stall`: a full bounded channel parks the tokio worker inside `send`
  (lib.rs:278). The documented 503 (PLAN.md:225) cannot happen, and while PHP
  does not poll the request gets no 504 either, as the 30 seconds start after
  the send.
- `ssb_shared`: the broker is one map per process after the fork (lib.rs:25),
  not shared by all workers (README.md:18 and 32).
- `life_prebound_drain`: the prebound descriptor outlives the drain
  (lib.rs:956): the kernel goes on completing connections for this process
  after the drain returned, against PLAN.md:203.
- `life_early_drain`: a drain before the thread stored its sender
  (lib.rs:112-116) returns 1, and the server starts afterwards and runs on.

## 5. What is proved

Every safety invariant, every action property and every refinement that a
passing run checks is a theorem.

All theorems hold for every value of the constants under the named
assumptions of the modules: finitely many requests, servers and tasks, at least
one worker, id and shard, a positive integer range, increments in it, paths that
are sequences of segments, and distinct special values. None of them is an
assumption on behaviour; the one hypothesis beyond them is that of
`BridgeRefinementProofs`.

- **`RequestBridgeProofs`**: `TypeOK`, the six safety invariants of
  `bridge_wrap`, `RespondReachesItsClient`, `LineIsFifo` and `OnlyPollEndsAStall`. None is inductive. The
  strengthening `IInv` says where a request can be: tickets are unique
  (`TicketInv`); PHP has seen only requests that went through the channel
  (`JobInv`), which holds each request at most once and none PHP has seen
  (`QueueInv`); parked requests are listed once (`BlockedInv`); an entry of the
  table lies under the id of its request, whose job is open and whose oneshot
  is untouched (`PendingInv`); a resolved oneshot was resolved by a job with
  the same id (`SlotInv`). Equal ids of different tickets are a full turn
  apart, by a lemma on remainders (`ModDistance`). `ActiveAccounting` needs the
  cardinality lemmas of finite sets. `LineIsFifo` (`PolledInOrder`) follows from
  `FullInv`: a send that finds room finds nobody parked, so it cannot get in
  before anyone, and the send that a poll lets in keeps its place in the line.
  `OnlyPollEndsAStall` (`StallLasts`) needs that no more futures occupy a worker
  thread than there are (`WorkerInv`): with all of them parked, none is between
  its id and its send or between its oneshot and its deadline.
  `RespondReachesItsClient` (`ResponseArrives`) rests on `PendingInv`: an entry leads
  to an untouched oneshot, so a response that is there stays (`ResponseStays`) and
  is the answer (`ResponseIsTheAnswer`).
- **`BridgeRefinementProofs`**: the refinement `ImplementsGateway`, under one
  hypothesis, `Cardinality(Requests) < IdSpace`: the process receives fewer
  requests than there are ids (2^24). Without it the statement is false, as the
  displaced senders of `bridge_wrap` show. The counter then never makes a turn
  (`TurnInv`: it is one more than the number of tickets taken), so an id belongs
  to one request (`OwnId`); hence a oneshot holds only its own request's result,
  never a closed sender (`OwnSlot`), and an entry leads to its own request
  (`OwnEntry`). Each action is then a step of `Gateway` or a stutter;
  a native answer is given to the bare requests of a published handler and to no
  others (`PreloadedIsPublished`, `NativeRefines`).
  `OwnResultsOnly` says the same of the code's own variables: a oneshot never
  holds another request's result, and no client gets the empty answer.
- **`SharedStateProofs`**: `TypeOK` (sums stay in range), `IncrementsAreIsolated`
  and `KeysAreWeaklyConsistent`. `IInv` adds that the calls in progress exclude
  each other as the locks promise (`LockInv`), that they belong to existing
  processes (`StartedInv`, which makes forks harmless), and that what stayed is
  there and what is there was met (`WalkInv`). The refinement
  `ImplementsAtomicStore` is proved too: `increment` takes effect when it stores,
  the other calls when they hold their shard's lock. It needs `FreshInv` besides:
  the process `AtomicStore` describes stays started, and an increment that
  inserted a placeholder has read 0.
- **`ServerLifecycleProofs`**: `TypeOK`, `DrainReachesServing`, `DrainTellsAServer`,
  `PreboundNeverReset` and `ConnectionsHaveAnOwner`. `IInv` adds that listening
  sockets were bound and where connections are (`SocketInv`), and that only
  servers that served were told to stop (`ToldInv`): without it, a server that
  installs its sender might have been told before.
- **`ValidatorRegistryProofs`**: every property of `validator`, the refinement
  `ImplementsDtoValidator` included, for any number of threads, names, fields
  and patterns and any schemas and inputs. `IInv` is the conjunction of the
  types and: the seeded entry stays, and an entry holds its own pattern's regex
  (`CacheInv`); what a registration has visited is cached (`RegisterInv`); two
  threads never hold the same entry, which is vacant (`CompileInv`), so a vacant
  entry was never compiled (`CountInv`); the schema of a validation in progress
  stays, and its errors are exactly the fields it visited and refused
  (`ValidateInv`); and a reply is the verdict of the schema it names
  (`ReplyInv`). The last one gives the two properties of replies through a
  lemma that `CheckRule` over a full cache is `Obeys` of the promise.
  `AcceptedDataIsClean` (`AcceptedClean`) follows from the verdict rule by rule
  (`ObeyedIsKept`), and `NumbersInRangePass` (`RangesPass`) from a monotone
  rounding that keeps doubles (`RoundedWithin`).
- **`FoldLemmas`**: what the next two modules need of data. The induction rules
  of the library take a predicate as parameter, which the provers cannot
  instantiate; here they speak of sets instead. A non-empty set of numbers has a
  least element (`LeastNumber`, from the well-foundedness of `<`), hence a set
  with 0 and all successors has every number (`Counting`), and one that has `{}`
  and grows element by element has every subset of a finite set (`Growing`).
  With these the recursive function behind the community folds exists
  (`FoldExists`: it is built for the subsets of up to n elements, n by n), and
  `SumOver`, a sum over a set, obeys its recursion in any order of the elements
  (`SumRemove`), does not shrink as the set grows (`SumSubset`), and is at most
  the greatest value times the cardinality (`SumBound`).
- **`HandlesProofs`**: `TypeOK`, `CountsAreExact`, `NothingUsedAfterFree`,
  `TextIsWholeOrFull`, `RoutesMatchManifest`, and two theorems on operators:
  `CopyIsWholeOrFull` for any text and any buffer, and `RoutesAnswer` for any
  manifest and path. `IInv` adds to the types and counts that what is held or
  used was made, so a new object has no owners (`OwnersInv`), and that buffers
  and texts are well formed (`BufferInv`). A counter that must not go below zero
  is a cardinality that the step makes smaller by one: the lemmas on
  cardinalities carry the proof. `RoutesAnswer` rests on a closed form of the
  table that `NewRouter` folds (`RouterTable`): each method of the manifest has a
  tree, and each pattern of its routes is there with the first route that has it,
  which is how a refused `insert` comes out. The patterns that cover one path are
  in a strict total order (`BeatsTotal`, `BeatsTransitive`), so the one that
  `MatchRoute` chooses is well defined (`BestPattern`). That a router never
  changes after it was built (`RoutersInv`) carries this over to every state.
- **`ServerStatsProofs`**: every property of `stats`, and `CountersExact`: the
  three counters are what they should be, at every moment. `TypeOK` says that no
  counter goes below zero, whatever the order of the updates. `IInv` says what may
  be left to do in each stage (`LeftInv`), that the counters are cardinalities
  and a sum (`CountersInv`), and what a call has loaded (`CallInv`): futures only
  go on (`Progress`), a request being not counted as active yet, then counted,
  then no longer, so that each figure that was loaded lies between what was so
  all along the call and what was so at some moment of it (`SeenInv`). The four
  properties of reports are consequences: `AverageIsBounded` multiplies the
  bounds of two figures loaded at different moments, and for a report during
  which nothing moved the two ends of each interval meet (`QuietReportIsExact`).

Only model-checked: the liveness properties `ForwardedRequestsEnd` and
`ToldServersEnd`. They need the fairness of section 3, hence `ENABLED`, which is
out of the prover's reach.

## 6. Not modelled

JSON compaction (a library call without state), the log file (pure I/O) and
the build. Of the modelled parts, what section 2 names as left out; the SIGTERM
task; the truncation of a status to 16 bits (a conversion of one number, lib.rs:299);
the table of native responses across two routers (lib.rs:701), since
`RequestBridge` has the routes of one.

## 7. Plan

1. The copies of `quill_server_poll` and of the broker's replies composed with
   their components through `FfiBuffers`.
2. The replacement of a router under native responses.
