# A TLA+ model of rqx

rqx is an HTTP client for Python written in Rust: `crates/rqx-core` holds the
client, the transport, the retry and redirect logic and the streaming bodies,
on top of reqwest and tokio; `crates/rqx` is the PyO3 binding, with one tokio
runtime per process that all Python threads share; `python/rqx` is a thin layer
of module-level functions. This directory models the parts of it in which
several actors meet (processes, threads, tasks, cancellations, the network), or
in which a long sequence of legal steps has to keep a promise, checks them with
TLC on small instances, and proves the central invariants with TLAPS for all
instances.

`PROJECT.json` has the machine-readable side: components, runs, mutants, the map
from every definition to the source lines it stands for, the findings, the
hazards and the theorems. Paths below are relative to the repository.

## 1. The system

| Component | State | Operations | What is hard about it |
|---|---|---|---|
| Fork-aware runtime, `crates/rqx/src/runtime.rs` | an `AtomicPtr` to the current `Slot`, a `closed` flag; a `Slot` has a PID and a `Mutex<Option<TokioRuntime>>` | `handle`, `build`, `retract`, `block_on`, `future_into_py`, `shutdown` | lock-free publication against a concurrent shutdown; `fork()` copies the pointer but not the threads behind it; addresses are reused |
| Live stream, `rqx-core/src/streaming/live_stream.rs` | the `Option<ChunkStream>` behind a tokio mutex, a `closed` flag, a `Notify` | `next_chunk`, `close`, `close_blocking` | a read holds the mutex while it waits for the network; a close must wake it; both can be cancelled |
| Async response, `rqx/src/stream.rs`, `stream_context.rs`, `rqx-core/src/streaming/{body,context}.rs` | the context's slot, the `Option<Body>`, the iterator with its chunker behind a mutex | `__aenter__`, `__aexit__`, `aread`, `aclose`, `aiter_*`, `__anext__` | state is taken out before an await and put back after it; two locks; cancellation between any two polls |
| Sync response, same files | the same, behind PyO3 borrows and the GIL | `__exit__`, `read`, `close`, `iter_*`, `__next__` | the GIL is given up inside `block_on` only; a close waits for a mutex with the GIL held |
| Regrouping, `rqx-core/src/streaming/{chunking,decoding}.rs` | carry and head, pending text, a held CR, half a character | `feed`, `next_full`, `flush` | every way the network can cut a body |
| Transport and retries, `rqx-core/src/{transport,retry}.rs` | the connection semaphore; per send the counters, the last response, the history | `send`, `execute`, `send_with_retries` | budgets at their limits, permits under cancellation, telemetry kept in several places |
| Client, `rqx-core/src/{client,redirect,auth,request,body}.rs`, `rqx/src/{client,async_client}.rs` | the `ClientConfig`, the cookie jar; per request the current hop and counters | `Client()`, `request`, `stream`, `build`, `send`, `follow_redirects`, `redirected_request` | what the client adds to a call; what of a request travels on, hop after hop; errors late in a chain |
| Query parameters, `rqx-core/src/query_params.rs`, `rqx/src/query_params.rs` | a flat vector of pairs that stands for a dictionary of lists | `set`, `add`, `remove`, `merge`, `parse`, the copies of a URL | order and grouping under every sequence of operations |
| URL references and base URL, `rqx-core/src/url/*.rs`, `rqx/src/url/py_url.rs` | the text of a URL, absolute or a relative reference | `parse`, `join`, `copy_with`, the `copy_*_param` methods, `BaseUrl::join` | every operation takes the text apart, puts it together and reads it again: what was a path can come back as an authority or a scheme |
| TLS, proxies, timeouts, JSON, exceptions, headers, module-level Python functions | configuration | conversions | nothing concurrent |

How they meet: a Python call enters the binding, which asks the **runtime** for
a handle and either blocks on a future (sync) or spawns it (async). The future
runs **Client**`::send`, which calls **Transport**`::send` once per hop; that
takes a permit, lets reqwest run an attempt and decides about the next one. A
streamed response comes back with its body open: the **response** object owns
it, hands it to one iterator as a **live stream**, or reads it into memory; the
iterator **regroups** the chunks. Closing, leaving the block, cancelling a task,
forking and interpreter exit come from the outside at any time.

## 2. The modules

| Module | Models | Composition |
|---|---|---|
| `Runtime` | runtime.rs, one action per atomic operation; processes, threads, fork and exit around it | `MCRuntime` instantiates, `RuntimeProofs` proves |
| `LiveStream` | live_stream.rs, with tokio's mutex and `Notify` from how they are used | `LiveStreamProofs` |
| `Connection` | the contract of a streamed connection: one owner at a time, released for good, a buffer only of a whole body | abstract specification |
| `StreamResponse` | the async response, its context and its iterator | `INSTANCE LiveStream`; implements `Connection`; `StreamResponseProofs` uses the proofs of `LiveStream` |
| `SyncStream` | the sync response used from several threads: GIL, borrows, the blocking close | `INSTANCE LiveStream`; `SyncStreamProofs` uses the proofs of `LiveStream` |
| `Regroup` | the chunkers and decoders inside the iterators' loops | `RegroupProofs` |
| `Transport` | semaphore and retry loop | `MCTransport`, `TransportProofs` |
| `Client` | `Client()` and its arguments, a call and the request it builds, the redirect loop, what a redirected request keeps, cookies | `MCClient`, `ClientProofs` |
| `Keyed` | sequences of records with a key: their keys, the records with some of them | used by `MultiDict` and `QueryParams` |
| `MultiDict` | what query parameters promise: an ordered dictionary of lists | abstract specification |
| `QueryParams` | the methods of `QueryPairs`, as operators | `EXTENDS Keyed` |
| `Url` | `rqx.URL` and `BaseUrl`; the program that holds a URL and a `rqx.QueryParams` | `EXTENDS QueryParams`; implements `MultiDict`; `MCUrl` has the URLs, references and keyword arguments, and the symmetry of keys; `UrlProofs` |

### Runtime

`current`, `closed` and `heap` are the memory of each process; `pc`, `seen` and
`slot` the program counter and locals of a thread inside `handle()`/`build()` or
`shutdown()`; `task` is the slot on which a future of the thread is in flight.
`HandleCheck` and `HandleLoad` are the two loads of `handle`; `BuildSlot`,
`InstallWins`/`InstallLoses` and `BuildRecheck` the loop of `build`;
`RetractUnpublish` and `RetractTake` are `retract`; `ShutdownClose`,
`ShutdownSwap`, `ShutdownTake` and `ShutdownStop` are `shutdown`. `Fork` copies
memory and PIDs of slots, not threads; `home` is a history field that says whose
worker threads drive a slot. A slot that loses the race is freed, and its
address can be allocated again, so pointer reuse is part of the model. The
atomics are sequentially consistent in the model; the code uses acquire and
release. The one place where that could matter is the race of `build` (write the
pointer, read the flag) with `shutdown` (write the flag, write the pointer). Both
writes of the pointer are read-modify-writes of one location, so whichever comes
second in its modification order reads from the first or from its release
sequence: either the swap finds the slot, or the install synchronises with the
swap and the flag is seen. A stale first load of the flag is an earlier load.

### LiveStream, StreamResponse, SyncStream

A read is `lock`, `check`, `poll`, then either the data or a registration with
`Notify` and a wait; a close is `mark`, `notify`, `drop`. `permit` and `waiter`
are the state of `Notify` that this use of it can tell apart. `Cancel` drops the
future of a task wherever it is suspended, with the effect of its destructors
(the guard is returned, a notification that was received and not used is
forwarded). `StreamResponse` adds the context, the `Option<Body>` and the
iterator's mutex; the chunker is a count of units (`Width` units come in a
chunk, a piece has `Size`), since what it does to the bytes is `Regroup`'s
subject. What a finished future returns may also be lost (`Delivered`): when
Python cancels the call before asyncio has taken the result,
pyo3-async-runtimes drops it. The piece of such an `__anext__` is gone and is
counted in `lost`; an `__aenter__` that ends so leaves a response in the slot of
a context that was never entered (`orphaned`), which goes with the context
(`DropContext`). `SyncStream` runs the same LiveStream under threads: `gil`, `response`
and `iterator` are who runs Python and who has borrowed which object; a borrow
that is taken twice is the error PyO3 raises. What its chunker holds is one flag,
`fed`: a chunk that comes in is fed, and the loop goes back to its head, where
`check_open` is asked again before the piece is handed out.

### Regroup

All bodies over an alphabet that has every kind of byte the code tells apart: a
plain byte, CR, LF, the lead and the trail byte of a two-byte character (or one
without the other). `Deliver` cuts the body anywhere. The reference
definitions, `WholeText` and `RefLines`, work on the whole body at once.

### Transport

`used` are the `RetryCounts`, `held` says that `current_response` is `Some` and
keeps its connection over the backoff, `history` the number of records,
`attempts` the number of requests really sent. An answer is good, a retryable
status, a connect or a read failure. Durations are left out: `Elapse` may make
the total timeout expire at any moment.

### Client

`client` is the `ClientConfig` that `Client()` makes of its arguments: `PolicyOf`
is `valid_policy_from_options`, and an argument set that is not `Accepted` makes
no client. It never changes afterwards, so it is chosen in `Init`. A call either
is turned down before anything is sent (`Refuse`), or becomes a future that
builds its request when it is first polled (`Call`, `CallAsync`,
`BuildInFuture`), or is a stream, whose request is built at once (`CallStream`);
only the calls of the async client can be cancelled. A stream returns when the
cookies of the last hop are in the jar; `request()` reads the body after that
(`ReadBody`), which may fail. `Build` is `Client::build`:
the URL against the base, credentials of the call or else of the client, the
body. A target is abstracted to what `merge_url` can tell. An `opaque` one
resolves nothing, a `rooted` one (`unix:/run/x`) resolves references, but to no
URL reqwest would send; both are accepted as a `base_url`. The kind `embedded`
is a reference whose path, once the leading slashes are trimmed, is an absolute
URL itself: `BaseUrl::join` hands the trimmed path to a parser of references,
which follows it to its own host, although the comment at base_url.rs:35 says
that a reference contributes its path and query only.

A hop is any response the server may give: status, Location (missing, malformed
or a URL), a cookie, a number of retries. `KeepsAuthorization` and
`RedirectedRequest` are the rules of redirect.rs, `AccumulateCookies` the merge
into the jar, `Decide` the loop body of `follow_redirects`. `AtHome` is an
independent statement of where credentials may go: the origin the call was built
for and, from port 80 to port 443 of one host, its https upgrade.

### QueryParams and Url

A program holds one params object (`pairs`) and one URL (`url`); both are
immutable, so an operation replaces one of them, and an operation that raises
changes nothing. `Set`, `Push`, `Merge` and the others are the methods of
`QueryPairs`, their loops written as recursive functions on how many pairs have
been seen; the flags `replaced` and `taken` are read off what was written so far
(`Replaced`, `Taken`). The URL's query is text: each `copy_*_param` parses it, changes it
and writes it out, and a query that came with a URL has its pairs in any order.
`DictOf` is the refinement mapping: the dictionary that `keys()` and
`get_list()` show.

`MultiDict` has one action per operation of the program. `called`, the name and
the arguments of the last call, is a variable of both modules, so that a step of
`Url` is matched with the action of its own name on the same key and value: a
`set` that adds, a `remove` or a `merge` that does nothing, or a change of another
key or of the other dictionary is no step of `MultiDict`. Two actions leave a
choice. `Join` keeps or drops the query of the old URL when the reference has none
(a reference with a path drops it, one without keeps it; which is `JoinResolves`'s
subject), and `Copy` takes either of `query=` and `params=` when both are given
(section 4). The program never reads `called`, and `MCUrl` leaves it out of the
view under which TLC identifies states, so that it costs no states; the refinement
is checked on every step that TLC generates all the same.

A URL is a record of its parts, the path as the sequence of what stands between
slashes. `Read` is what makes the model more than records: parts that were put
together are read the way a parser reads the text, so that a path `//a` without
an authority becomes one, and a first segment `c:d` a scheme. `Normal` is what
`url::Url` does to an absolute URL (dot segments of every path but an opaque one, default port, the path `/`); a
relative reference stays as it is written. `JoinRelative` is `join_relative`
with its borrowed base `http://rqx.invalid`; `Written` is the text that `compose`
puts together, without scheme, userinfo and port when there is no host;
`Components` is the loop over the `HashMap` of keyword arguments, in which
`query=` and `params=` set the same part and either may come last. `TrailingSlash`,
`RawPath` and `BaseJoin` are `BaseUrl`. `url::Url::join` is external and follows
RFC 3986, 5.2.2 (`Transform`).

There are two kinds of program: about parameters, with long queries on one plain
URL, and about references, with every kind of URL and short queries. Both use
the `copy_*_param` methods.

## 3. What the runs check

Every property has a mutant in `PROJECT.json`: a plausible bug in the modelled
code under which TLC finds the property violated.

| Run | Instance | Shows |
|---|---|---|
| `runtime` | a parent with one thread, a child with two, three addresses, fairness | `OwnRuntimeOnly`, `NoUseAfterFree`, `OneRuntimeWhileOpen`, `NoRuntimeOutlivesShutdown`; `HandleReturns` and `ShutdownDrains` |
| `runtime_retract` | three threads of one process | **violates** `RetractedRuntimeIsIdle` |
| `live_stream` | two cancellable reads, two closes, two chunks | `NoLostWakeup`, `ClosedStreamIsDropped`; `CloseReturns`, `CloseEndsReads` against a silent server |
| `live_stream_cancelled_close` | closes can be cancelled, too | **violates** `ClosedStreamIsDropped` |
| `stream_response` | two `__anext__`, an `aread`, an `aclose`, the `__aexit__`, two chunks of three units, pieces of two | `NoChunkLost`, `StopMeansComplete`, `BufferedIsWhole`, `CloseReleasesConnection`, `NoPieceAfterClose`, and that `Connection` is implemented |
| `stream_exit_while_reading` | an `aread` and the exit | **violates** `ExitClosesResponse` |
| `sync_stream` | two threads in `next()`, one each in `read()`, `close()` and `__exit__` | `CloseIsFinal`, `GilComesBack` |
| `transport` | two sends, one permit, four configurations | `PermitsBalance`, `RetryBudget`, `UnsafeMethodSentOnce`, `OneConnectionPerSend`, `HistoryMatchesAttempts`, `ExhaustionIsHonest`; `SendEnds` |
| `transport_pool_limit` | the same | **violates** `ConnectionLimit` |
| `client_redirects` | eight sets of `Client()` arguments, of which two are refused; one call of nine kinds; four URLs, four statuses, at most three hops | `AuthorizationConfined`, `BodyKeepsMethod`, `ChainBounded`, `RetriesAddUp`, `CookiesKept` |
| `regroup` | all bodies of up to five bytes, chunk sizes none, 1, 2, 3 | `PiecesAreExact`, `LinesMatchSplitlines`, and in `TypeOK` the bounds of the buffers |
| `url_and_params` | three keys, two values, up to three pairs in the object and in the URL; sixteen kinds of URL, fourteen of references and twenty of keyword arguments | `Grouped`, that `MultiDict` is implemented, `JoinResolves`, `CopyKeepsTheRest`, `BaseUrlConfines` |

`JoinResolves` is stated without the borrowed base: to join two references and
go where the result leads is to go where the first leads and from there where
the second does. `CopyKeepsTheRest` compares the URL that is read back with the
record in which only the named parts changed. Both, and `BaseUrlConfines`, name
their exceptions; each exception is needed, that is, TLC violates the property
without it. The exceptions are hazards of their own (section 4, at the end), which
these properties say the extent of and do not catch.

`ImplementsConnection` is what several calls on one response could break: its
mutant is an `aread` that no longer turns a stream down which is being iterated.

Every run but `url_and_params` ends within a minute; that one takes about two,
with 604,845 steps compared with `MultiDict` over 16,424 states. `client_redirects`
has 263,052 states and `sync_stream` 41,561.

### Why the bounds are enough to be interesting

- Runtime: a race in `handle`/`build` needs two threads of one process, a fork a
  second process; with three addresses a loser can free its slot and another
  thread can get the same address while an inherited slot stays allocated.
  A fork of a fork adds nothing unless a PID is used again (section 5).
- LiveStream and the responses: two reads so that one queues behind the other;
  two closes so that one finds the work of the other done; two chunks so that a
  close can come before, between and after them; a piece can be lost in delivery
  and the iteration go on. Three units against pieces of
  two give a full piece, a piece across two chunks and a remainder.
- Transport: one permit for two sends makes every wait and hand-over happen; the
  configurations are no retries, kinds limited below the total, a total that is
  the limit, and a negative total. Both methods (safe and not) occur.
- Client: the four URLs are a plain origin, its https upgrade, another port and
  another host; three hops are enough to go away and come back. The clients have
  a base URL or none, one that resolves nothing, one of a scheme that is not supported, a policy or the two options, a
  limit of none, two and three hops; the calls use all four surfaces, every kind
  of target, and each way to be turned down.
- Regroup: five bytes hold CR LF, a cut character and a remainder together.
- Url: three pairs over three keys hold a repeated key with another one
  in between, a key both sides have and one only the other has. Keys are
  symmetric: no operation compares them except for equality. The URLs are with
  and without scheme, authority, host, root and path, and have dots, two slashes
  or a colon where they can be taken for something else; paths of four segments
  are enough for a join to climb, to end in a slash and to leave two slashes.

### Fairness

Weak fairness for a thread or a task inside a call: the operating system and
tokio run what is ready. Strong fairness for taking a tokio mutex, a semaphore
permit or the GIL, since all three queue their waiters. In `Transport` an
attempt ends, because every request carries a timeout. Nothing is assumed of
callers, forks, cancellations, nor (in the streams) of the network: a server may
stay silent for ever, and `CloseReturns` and `GilComesBack` hold nevertheless.

`CHECK_DEADLOCK FALSE` is in every configuration because every system may stop:
a body ends, a caller calls no more, a process exits.

## 4. What the runs found

1. **A retracted runtime may have tasks** (`runtime_retract`, runtime.rs:220).
   The comment says the runtime "owns no tasks"; between the install and the
   second look at the flag another thread may have started a future on it.
2. **A cancelled close keeps the connection** (`live_stream_cancelled_close`,
   live_stream.rs:47). The flag is set, the stream is not dropped, and no later
   read gets as far as dropping it.
3. **Leaving the block during `aread`** (`stream_exit_while_reading`,
   stream.rs:703). The body is with the read, so the exit has nothing to close,
   and the read stores a buffer into the response after the exit.
4. **`max_connections`** (`transport_pool_limit`, transport.rs:187). The permit
   ends with the headers; the documented limit on open connections does not hold
   for responses whose bodies are still open.

Four more hazards have no run of their own and no property that covers them: the
passing properties name them as their exceptions, or accept either outcome.

- A path whose first segment has a colon leaves `base_url` (base_url.rs:38).
  The slashes in front are trimmed and the rest is parsed as a reference, so
  `/items:search` is a URL with the scheme `items`, although the comment says
  that a reference "contributes its path and query only" and
  tests/unit/url/test_url_accepted.py:48-51 that "the base's host still gets it".
- A relative `join` whose result begins with two slashes comes back with an
  authority, one whose first segment has a colon with a scheme, and a base path
  that begins with two slashes loses one (reference.rs:329 and 347-349).
- `copy_with` and the `copy_*_param` methods on a URL without a host drop its
  scheme without an error (reference.rs:376).
- `copy_with(query=..., params=...)` depends on the order of a `HashMap`
  (components.rs:52).

## 5. What is proved

The theorems hold for every value of the constants under the modules' named
assumptions; no bound of the runs enters them. Each proof module states an
inductive invariant, shows that `Init` implies it and that every action keeps
it, and derives the properties.

| Module | Theorem | States |
|---|---|---|
| `RuntimeProofs` | `TypeCorrect`, `HandlesAreOwn`, `MemorySafe`, `Agreement`, `ShutdownIsComplete` | types, `OwnRuntimeOnly`, `NoUseAfterFree`, `OneRuntimeWhileOpen`, `NoRuntimeOutlivesShutdown` |
| `LiveStreamProofs` | `LiveStreamTypes`, `WakeupIsNotLost`, `ClosedIsDropped`, `DroppedUnlessCancelled` | types, `NoLostWakeup`, `ClosedStreamIsDropped` and its weaker form |
| `StreamResponseProofs` | `ResponseTypes`, `ChunksConserved`, `StopIsHonest`, `BufferIsWhole`, `NoLatePiece`, `CloseReleases`, `ReleasedUnlessCancelled`, `ResponseWakesReads` | `TypeOK`, `NoChunkLost`, `StopMeansComplete`, `BufferedIsWhole`, `NoPieceAfterClose`, `CloseReleasesConnection` and its weaker form, `NoLostWakeup` of the stream inside |
| | `ResponseImplementsConnection` | the refinement of `Connection` |
| `SyncStreamProofs` | `SyncTypes`, `SyncCloseFinal`, `SyncClosedIsDropped`, `GilNeverWaitsForServer` | types, `CloseIsFinal`, `ClosedStreamIsDropped` of the stream inside, and the safety core of `GilComesBack` |
| `RegroupProofs` | `RegroupTypes`, `PiecesExact` | `TypeOK`, `PiecesAreExact` |
| `TransportProofs` | `TransportTypes`, `BudgetHolds`, `UnsafeMethods`, `OneConnection`, `HistoryExact`, `ExhaustionHonest`, `PermitsConserved` | types, `RetryBudget`, `UnsafeMethodSentOnce`, `OneConnectionPerSend`, `HistoryMatchesAttempts`, `ExhaustionIsHonest`, `PermitsBalance` |
| `ClientProofs` | `ClientTypes`, `CredentialsStayHome`, `BodyConfined`, `ChainsEnd`, `TelemetryAddsUp`, `CookiesReachTheJar` | `TypeOK`, `AuthorizationConfined`, `BodyKeepsMethod`, `ChainBounded`, `RetriesAddUp`, `CookiesKept` |
| `UrlProofs` | `CopyKeeps`, `BaseUrlConfined`, `BaseUrlKeepsSite`, `PairsGrouped` | `CopyKeepsTheRest`, `BaseUrlConfines`, and of the latter site and query for every base, `Grouped` |
| | `QueryIsDict` | the refinement of `MultiDict` (`ImplementsMultiDict`) |
| | `JoinsResolve` | `JoinResolves` |

**`RuntimeProofs`.** `TypeCorrect` needs no assumption beyond
`RuntimeAssumption`. `HandlesAreOwn`, `MemorySafe`, `Agreement` and
`ShutdownIsComplete` assume `PidsDistinct`, that the kernel gives no PID twice.
The assumption is needed: `slot_for` compares PIDs only, so a grandchild that is
given the PID of its dead grandparent takes the runtime it inherited for its own
(TLC finds this behaviour for `OwnRuntimeOnly` when `PidOf` gives the first and
the third generation the same PID). The inductive invariant
`IInv` adds to the types: a process that is not running has no memory and no
thread in a call; a slot has the PID of the process that drives it; what a
thread means to replace is foreign and what it works on is its own process's;
what has not been published is known to one thread only; while the flag is not
set, what is published is what `current` points at; and a live slot under a set
flag is in the hands of a thread that will stop it. Without the ownership parts
`NoUseAfterFree` is not inductive: the loser's `free` could hit a slot another
thread has.

**`LiveStreamProofs`**, for any number of reads and closes and any set of tasks
that can be cancelled. `IInv` is `TypeOK` with `PermitOrWaiter` (a stored permit
is never left next to a registered sleeper), `SignalReaches` (once the closers
have signalled, a reader past `check_open` is woken or finds a permit at its
next poll) and `CloserDrops` (whoever set the flag drops the stream, unless it
is cancelled first). `NoLostWakeup` says only where the reader must not be, so
it is not inductive: what keeps it true is where the signal lies meanwhile.
`ClosedIsDropped` assumes `Cancellable \cap Closers = {}`. The run
`live_stream_cancelled_close` shows that the hypothesis is needed, and
`DroppedUnlessCancelled` says what is left without it: the only stream that stays
behind is that of a close which really was cancelled.

**`StreamResponseProofs`**, for any number of `__anext__`, `aread` and close
calls, any number and width of chunks and any piece size. The live stream is not
proved again: the module has `LSP == INSTANCE LiveStreamProofs`, each step of the
response is shown to be a step of the live stream or none, and `LSP!IInv` is the
first conjunct of its invariant. The others: where tasks of each kind can be
(`ReaderSteps`, `CloserSteps`, `AreaderSteps`: the iterator's mutex is held by
exactly the reader inside it, and an `aread` excludes an iterator); the life of
the context (`ContextInv`); what each state of the body says about the
connection (`BodyInv`, `ReleaseInv`); where the chunks of an `aread` (`KeptInv`)
and of an iterator (`CountInv`) are; the way of the end from the network to
`StopAsyncIteration` (`EndInv`); and what a call that began after a close can
still see (`LateInv`). `CountInv` counts at most one chunk that was pulled and
not fed: two readers cannot both be there, because of the mutex.
For the refinement, `Holder` is a definition by cases; `HoldersExclude` shows
from `IInv` that they exclude each other, and then each action is matched with
the step of `Connection` it implements, or with none.
`ResponseImplementsConnection` proves that this `Connection` is safe;
`Connection` states no liveness.

**`SyncStreamProofs`** has the same shape, with threads in the place of tasks.
`Borrows` says that a borrow of PyO3 lasts as long as the method that took it,
also while `block_on` has given up the GIL. Its part on the response, whose borrow
by a close is exclusive, and the signal of that close are what makes
`GilNeverWaitsForServer` true: a close reaches the mutex with the GIL held, and
never finds there a reader that sleeps until the server sends something, because
the close that set the flag is alone in the response and has notified before. The
borrow of the iterator plays no part in it.
If `borrow_mut` did not exclude a second close, one of them could pass while the
other had set the flag and not yet notified. `SyncClosedIsDropped` has no
hypothesis, since no thread is cancelled.

**`RegroupProofs`**, for every body over the modelled bytes, every `chunk_size`
and every sequence of chunks. The invariant of the byte iterator: what was handed
out followed by carry and head is what was delivered, all pieces but the last
have the full size, and a head is kept only next to an empty or a complete carry
(`Fit`; without this clause `next_full` could park a head that makes the carry
outgrow a piece, and report that there is none). That
of the text iterator: what was handed out followed by the pending text is what a
decoder yields for all delivered bytes at once (`SoFar`), and the decoder holds a
lead byte exactly when that one does. The step is `DecodeChunk`, that decoding
two chunks one after the other is decoding their concatenation, and `DecodeLast`
for the flush at the end. These are facts about recursions: `FlattenSeq` and
`FoldLeft` are defined as the function that satisfies an equation, so that the
module first shows that there is one (`FlattenedExists`, `FoldedExists`), by
taking the least number for which there is none (`LeastOf`). The same argument
(`Climb`) serves as induction everywhere in the module. `PiecesExact` says
nothing about `iter_lines`.

**`TransportProofs`**, for any finite set of sends and any configuration,
negative limits included. The invariant `IInv` is
`TypeOK` with `CountsInv` (attempts and history against the retries used, step by
step), `SingleInv` (a send that may not retry has used no retry), `HeldInv` (a
response is kept between attempts only) and `BudgetInv` (the total is the sum of
the kinds, and a retry that was used was within its limit). `ExhaustionHonest`
adds that a send which has a result keeps what the result was drawn from. `PermitsConserved` is
an argument about the cardinality of the set of sends that hold a permit, with
the theorems of `FiniteSetTheorems`.

**`ClientProofs`**, for any `Client()` arguments, calls, URLs, statuses and
limits. To be inductive, `TypeOK` needs that a future which will build a request
belongs to a call that was not turned down (`BuildsMethod`). The code compares each hop with
the one before; the lemma `KeepsAtHome` shows that the relation it checks,
followed any number of times from the first URL, never leaves `AtHome`.
`TallyInv` follows the retries of a chain: the sum of `follow_redirects` agrees
with what the hops used, and a call that does not follow keeps the number of its
one hop. `JarInv` says of each cookie of each hop that it is in the jar, or in
the hop on its way there, or went with a call that was cancelled in between.

**`UrlProofs`**, for any URLs, references and arguments. `UrlAssumption` says of
them what any text satisfies that was taken apart by a reader: all parts are
there, a path has at least one segment, if an empty one, a host comes with an
authority, behind an authority a path is empty or begins with a slash (only
`JoinsResolve` needs that), a query is a sequence of pairs, and reading the text
once more changes nothing. Two invariants are
inductive, that the URL of the program has all its parts (`HasParts`) and that its
path has a segment (`HasPath`); every operation that does not raise keeps them
(`Answer`). The rest are lemmas on `Written` and `Read` (what is written with a
host is read back as it was meant), on `Trim` and on `RemoveDots`. For
`BaseUrlConfined` the path of a `base_url` is free of dots, since it was
normalised, and ends in a slash; what is joined to it stands behind the path up
to that slash; and `RemoveDotsKeeps` shows that the removal of dots leaves such a
front alone when nothing behind it is `..`. That is a fact about each step of a
fold, so the module first shows that the fold is a run of its steps (`FoldIsRun`),
as `RegroupProofs` does. Both parts are needed: without `TrailingSlash` the last
segment of the `base_url` would be replaced, without `Trim` all of its path.
`BaseUrlKeepsSite` is the part that concerns scheme, authority and query, of any
base whatsoever. Its proof showed that a request with neither path nor query gets
the query of the `base_url`, which the property now says.

The second part of `UrlProofs` is about parameters, for any keys, any values and
any number of pairs. The invariant `HasPairs` says that the object and the query
are sequences of pairs and that those of the object are grouped; the query is not
part of that, as it may come in any order, and need not be, since every operation
parses it first. What the prover cannot do is an induction over sequences with
the library's theorems, so the module does it once by hand: a set of sequences
that has the empty one and with each one all those one element longer is all of
them (`SeqClimb`); and a recursive function on the indices of a sequence is a fold
(`OutOfRec`), so that what it yields for `Append(s, x)` is its step on what it
yields for `s` (`OutAppend`). Each operator of `QueryParams` then has laws: what it
makes of the empty sequence, what it adds for one more element, that it stays
within pairs (`OnlyLaws`, `KeysLaws`, `PushAllLaws`, `SetLaws`, `KeptLaws`).

`PairsGrouped` follows from them along one argument: appending to a grouped vector
keeps it grouped if the key is new or the last one (`GroupedAppend`), and so does
joining two grouped vectors without a common key (`GroupedConcat`). `push` cuts the
vector behind the last pair of its key, `merge` writes the pairs of a key as one
block, and `set` is `merge` with one pair (`SetIsMerge`).

For `QueryIsDict` a vector is told apart by its keys, in order, and by the list of
each (`DictIs`), and each operation is shown by what it does to these two: `parse`
changes neither (`ParseSame`), although it moves pairs, `remove` drops a key,
`merge` keeps the keys it had and adds the other's new ones in their order
(`MergeSays`). `DictRemove`, `DictMerge`, `DictSet`, `DictAdd` and `DictParse` say
that each is the operation of `MultiDict` of the same name on the dictionary.
Every join and copy takes the query of one side unchanged (`JoinQuery`,
`CopyQuery`), a copy the old one only when it names none (`NamesQuery`), so that `DictStep` maps each step of `Url` to the step
of `MultiDict` that is called the same, with the same arguments. The initial states are dictionaries because no key is listed twice
(`KeysOnce`) and a key that is listed has a value (`ListsNotEmpty`).

`JoinsResolve`, of all texts except the joins that `Misread` names, compares two
ways from the root of a site: there `join_relative`
takes the borrowed base off and the path is resolved again, here the second
reference is resolved where the first leads. Its invariant is `IsSettled`:
normalising the URL once more changes nothing, and its path is empty or begins
with a slash if it has an authority (`Settled`, `Fine`). The second half is what
makes the first inductive: without a slash before it the path `.` would become
empty, which normalised once more is `/`. Every join and copy ends in `Normal`, which settles a URL
(`NormalSettles`) because the removal of dots yields a path without dots and leaves
such a path as it is (`DotsOfNames`), and keeps a slash before it, also where `..`
has nothing left to remove (`DotsRooted`, from a step of the fold that keeps it,
`StepLed`). `JoinAt` and `TextIs` then show that the text of `join_relative` is the
first reference with another path, query and fragment, and that this path is the
one that `Resolve` yields on the other side, or that path without its slash
(`PathLeft`). What `Misread` excepts is just what `ResolvesRelative` needs for the
text to be read as it was meant and to get back the slash it lost: no two slashes
before it and no colon in its first segment (`LeftIs`).

**Only model-checked:**

- all liveness properties (fairness and `ENABLED` are out of the prover's reach);
- `LinesMatchSplitlines`, whose reference is a `SetToSortSeq` over the breaks of
  the whole text;
- the four violated properties, which are violated.

## 6. What is not modelled, and why

- Headers: each operation is one call on `http::HeaderMap`. `Client` keeps flags
  for Authorization and the body.
- Percent-encoding, IDNA and passwords of a URL, its masked `repr`; `Client`
  abstracts a target to its kind.
- Percent-encoding and the spelling of Python scalars in a query; equality and
  hash of query parameters.
- Backoff arithmetic and `Retry-After` (floating point, real time); TLS, proxies,
  HTTP versions (configuration for reqwest); JSON and exception tables
  (conversions without state); getters of responses.
- pyo3-async-runtimes, except that it runs a future on the runtime, drops it
  when the call is cancelled, and drops its result when the call was cancelled
  before the delivery. When Python drops a context or an iterator.
- `prepare_fork` (macOS) and the task locals of the asyncio bridge.
- Weak memory: atomics are sequentially consistent (see section 2).
- `TextDecoder` for encodings other than UTF-8.

## 7. Plan

In this order:

1. Proofs: `LineDecoder` against a fold over the whole text, as a step towards
   `LinesMatchSplitlines`.
2. The cookie jar with its last writers, and two clients' requests on one jar.
3. Liveness of `StreamResponse`: a call that is not cancelled returns once the
   server answers or the response is closed.
