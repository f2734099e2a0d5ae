# rsproxy: TLA+ models, checks and proofs

rsproxy is a debugging proxy written in Rust (`src/crates`). Clients connect over
HTTP/1.1, HTTP/2 or CONNECT; rules decide what happens to each request; sessions are
traced; a control plane (a local socket, a TUI and a CLI) reads and changes the running
system. This directory models the parts of it that keep shared state, survive failures or
wait for each other, checks the models with TLC on small instances and proves the central
invariants for all instances with TLAPS.

## 1. Inventory

| Component (crate) | State | Operations | Hard behaviour | What makes it correct |
|---|---|---|---|---|
| Trace collector (`rsproxy-trace/src/store*`) | bounded command queue, reserved bytes, pending and resident sessions, followers | `record`, `start`, `emit`, `finish`, `abort`, queries, `follow`, drop | producers race for slots and bytes; rejected finishes; clear and expiry racing queued events; slow followers; shutdown through a full queue | exact byte counters, budgets, no session lost uncounted or completed twice, gap-free follow streams, shutdown drains |
| Trace spill (`rsproxy-trace/src/spill*`) | segment files, index files, in-memory segment list, disk byte count | append, rotate, evict, clear, restart scan, snapshot read | crash or I/O failure between two of the writes; snapshot reads while segments are appended, evicted or cleared | an acknowledged record stays readable until it is evicted or cleared, snapshots are what was on disk, the disk budget holds |
| Rule store (`rsproxy-engine/src/rule_store*`) | group files, manifest, published snapshot, watcher status | `set_group`, `remove_group`, `set_enabled`, reload, watch loop | crash between the two file writes; API updates racing external edits and the watcher; dropped notifications | readers always see a complete valid snapshot, memory converges to a valid disk, a failed update is not published |
| Rule language (`rsproxy-rules`) | compiled snapshot, candidate index | parse, migrate, index, match, plan, resolve, lint | an index that loses a rule, a body plan made before the body is there, budgets and capped diagnostics, findings that are wrong | a source loads whole or not at all, index and plan change no answer, lint findings are true |
| HTTP/1 upstream pool (`rsproxy-engine/src/proxy/h1_forward*`, `rsproxy-net/src/upstream_pool.rs`) | per-origin permits, thread-local idle connections | acquire, checkout, checkin, drop | waiters and permits released concurrently, wait timeout, idle connections that hold permits | never more than the limit, permits are not leaked, a waiter is served or times out |
| HTTP/2 upstream pool (`rsproxy-net/src/upstream_h2*`) | entries with generations, leases, one connector claim per origin | get, insert, claim, cancel, lease, remove, evict | several threads connect to the same origin; a connection dies while others use it; stale removals | at most one connector per origin, stale generations remove nothing newer, waiters wake up |
| HTTP flow (`rsproxy-engine/src/proxy/http_flow*`, `h1_forward*`, `forward*`, `upstream_response*`, `server.rs`) | one connection thread: request, body, response, deadline, session | read, resolve, answer, forward, relay, keep alive, fail | the deadline in every phase, early answers with unread bodies, framing after rewrites, errors after the head, reuse of both connections | a connection is reused only when both ends agree where the messages end; one answer, one session with its status; every request ends |
| Tunnels and WebSocket (`tunnel.rs`, `websocket*`) | two directions, pending buffers, frames, records | read, write, half-close, close frame, record | partial reads and writes, ends of stream with bytes pending, peers that vanish | each direction is a pipe, an orderly end hides no loss, the relay ends |
| CONNECT, MITM, TLS (`proxy/server`, `proxy/tls`, `connect*`, `routing*`) | failure cache, certificate cache, leaf files, one session per tunnel | decide, answer, probe, dial, handshake, fall back, inner requests | failures after the 200, remembered failures, files written by two connections, segmentation, proxy chains | one truthful answer and one settled session; the caches decide as the history demands; a dial ends where the route says |
| Downstream HTTP/2 (`h2_bridge*`, `rsproxy-net/src/downstream_h2*`) | two bounded channels and a head per stream | pump, read, respond, finish, reset | truncation that looks like an end, full channels nobody empties | neither side takes a cut body for a whole one; every stream ends |
| Control server and client (`rsproxy-control`) | listener, one thread per connection | routes, live follow | a socket path that another daemon serves; a follow that lags | see `Daemon` and `TraceStore` |
| Daemon and startup (`rsproxy-cli`, `rsproxy-platform/src/startup.rs`, `process.rs`) | pid file, socket, process table, manifest, login item | run, start, stop, install, uninstall, launch | stale pid files, overlapping commands, kills between two system calls | what a command reports is so; a login item has its manifest, and routing its owner |
| System proxy (`rsproxy-platform/src/system_proxy*`) | OS proxy settings | plan, enable, disable, status | one of several platform commands fails, and so may the undo | a failed change leaves what the user had |
| CA storage (`rsproxy-platform/src/ca*`) | root certificate and key, trust stores | init, install, uninstall | two processes creating the root, a kill between certificate and key | a root reported as new is whole; trust follows the report |
| xtask, benches, CLI presentation | none | build checks, output | none | not modelled (no runtime state) |

How they interact: connection threads resolve a request against the snapshot published by
the rule store, borrow upstream connections from the pools, and report to the trace
collector through a queue that never makes them wait. Control-plane threads reach the rule
store directly and the collector through blocking queries on the same queue. The collector
thread is the only writer of spill segments; readers get open file handles.

## 2. Modules

Each module states its variables next to the fields they stand for; `PROJECT.json` maps
every definition to its lines. `MC*` modules only add model values, symmetry and inputs. A
definition that stands in front of the one it varies (`...Late`, `...Quietly`, `...Always`, or introduced by "Bug:") is a
mutant, section 7; no specification uses it.

| Modules | Part | Composition |
|---|---|---|
| `TraceStore` | trace collector, producers, callers, subscribers | proved about in `TraceStoreProofs` |
| `TraceSpill` | spill files, exports | proved about in `TraceSpillProofs` |
| `RuleStore` | rule files, manifest, snapshot, watcher | |
| `KeyedSlots` | slots per origin | extended by `H1Pool` and `H2Pool` |
| `H1Pool`, `H2Pool` | the upstream pools | proved about in `H1PoolProofs` and `H2PoolProofs`; both extend `Retained` |
| `HttpWire`, `HttpFlow` | framing; a connection thread | `HttpFlow` extends `HttpWire`; proved about in `HttpFlowProofs` |
| `Dial`, `Connect`, `Retained` | routes and transports; CONNECT and MITM; `VecDeque::retain` | `Connect` extends both others; proved about in `ConnectProofs` |
| `Pipe`, `Relay` | what a direction promises; the four relays | `Relay` implements `Pipe` twice, which `RelayProofs` proves |
| `H2Bridge` | one downstream HTTP/2 stream | proved about in `H2BridgeProofs` |
| `RuleLanguage`, `RuleSyntax`, `RuleLoad` | meaning, texts, loading and serving of rules | each extends the one before |
| `Daemon`, `SystemProxy`, `Startup`, `CaStore`, `Host` | the commands of the program on one host | a chain of extensions; `Host` issues the commands |

**TraceStore** (`store.rs`, `store/*.rs`, `event.rs`, `proxy/trace_helpers.rs`). A producer
runs the guard protocol of a connection thread: `Record`, or `Start`, `Emit`…, then `Finish`,
or `Hide`/`Abort`. A submission is three steps as in the code: `Reserve` (compare-exchange on
the byte counter), `TrySend`, and `ReleaseRejected` when the channel was full. Callers send
`Clear`, `Stats` and reads and wait; subscribers `CallFollow`, then receive from a bounded
channel. The collector's loops are one action per iteration: `RecvStep` takes a command,
`PendingStep` applies its events, `CommitStep` inserts and publishes, `BudgetStep` enforces the
budgets and gives the queue bytes back. A session is its identifier and its estimated size.
Writing a committed session to disk is the subject of `TraceSpill`; the collector's other
state does not depend on its outcome.

**TraceSpill** (`spill.rs`, `spill/*.rs`). Files are sequences of cells, reached through
names and inodes, so that a reader keeps an unlinked file; a checksum matches when all cells
do. Every file operation is an action; `Fails` variants leave any prefix of a write behind.
`Crash` may come after any of them (inside a clear it counts as a fault), `Scan` is the
restart, `OpenSnapshot`, `ReadSnapshot` and `Report` are an export beside the collector. `DiskSize`
counts every file of the directory, as the budget is defined (`spill.rs:33`); `Orphans` are the index files
whose data file is gone, which a scan does not list.

**RuleStore** (`rule_store.rs`, `rule_store/storage.rs`, `rule_store/watch.rs`, the
constructor in `state.rs`). An update is `Lock` (validation and compilation of the
prospective groups), `WriteText`, the probes and `Restore` of missing files,
`WriteManifest`, `RemoveFile`, `Publish`; writes are atomic renames, and `UpdateFails` returns
the error from any of them with earlier writes in place. A load reads the manifest, then one
file per step, then the unlisted files, while editors change the directory. `LoadOf` is the
reference: what a load of a directory that nobody changes returns. Names are numbers in
alphabetical order, texts are model values that parse or do not.

**KeyedSlots, H1Pool, H2Pool** (`upstream_pool.rs`; `h1_forward.rs`, `h1_forward/pool.rs`;
`upstream_h2.rs`, `upstream_h2/*.rs`). `KeyedSlots` has the count per origin and the condition
variable shared by all origins: a waiting thread is notified, times out or wakes for no
reason, and then checks again. `H1Pool` adds the threads' idle lists, whose connections keep
their permits, and destructors as steps of their own. `H2Pool` adds the pooled entry and the
connector claim of each origin with their generation numbers, the least-recently-used list,
dying connections, their tasks and the idle timer. Elapsed time is a flag a waiting thread
can get at any moment.

**HttpWire, HttpFlow** (`server.rs`, `http_flow*`, `h1_forward*`, `forward*`,
`upstream_response*`, `request_stream.rs`, the codec in `rsproxy-net/src/http*`). One
connection thread: it reads a head (`ReadHead`), authorises, reads or streams the body,
resolves the rules (their outcome is a choice: hidden, delayed, a local answer, a new status, a
`Content-Length` set or removed, a body rewritten or deleted, trailers, a
failure at each place where an action can fail), and answers locally or forwards over a pooled
HTTP/1 connection, HTTP/2 or an unpooled connection. Bodies are numbers of cells; `out` is what
the client was sent and promised, `up` what the origin sent and still owes. The streamed head is framed
from the headers as the response actions leave them (`RelayedLength`). An origin may send an interim
response first, a length beside a transfer coding (`also`), or content after a 205 that announces none. The
peers deliver, stop or go away; a client may also stop reading (`stalled`), and then every step that
writes to it waits; `DeadlinePasses` may happen at any point.

**Dial, Connect** (`routing*`, `connect*.rs`, `connect_tls/`, `server/`, `tls/`,
`state/mitm_failures.rs`). `Dial` computes the layers of the transport a route gives and the
ways it can fail. `Connect` has threads that decide, answer, probe the first bytes (a sequence
of byte classes that arrives cell by cell), prepare a certificate, shake hands and run inner
requests; they meet in the failure cache, the certificate cache and, without any lock, in the
leaf files, which are written one by one. A target may name a host for the policy and still be
refused by `UrlParts::parse` (`parses`). Time is a clock of few ticks; a restart empties the
caches and keeps the files.

**Pipe, Relay** (`tunnel.rs`, `websocket/`). `Pipe` is the abstract specification of one
direction: units arrive in order, none twice, none left out, and nothing after the end. `Relay`
has the TCP relay with a thread per direction, the TLS loop over non-blocking sockets, and both
WebSocket relays, with pending buffers, partial writes, frames and their records. The refinement
mapping takes what the sender sent, what the receiver got and the end it saw:
`Up == INSTANCE Pipe WITH src <- fed["up"], dst <- got["up"], ended <- eof["up"]`, and `Down`
likewise; `ImplementsPipe` is `Up!Spec /\ Down!Spec`.

**H2Bridge** (`h2_bridge*`, `downstream_h2/`). The client, the task that pumps its request
body, the worker that runs the HTTP/1 pipeline and the task that sends the response, joined by
two channels of bounded capacity and a one-shot for the head. The client ends its request, resets the
stream (`cancel` is `CANCEL` or `NO_ERROR`, which hyper's `Incoming` reports as the end of the body), or
closes its window for good (`ClientStalls`). The worker's output is a sequence
of tokens (head, data, terminal chunk, trailers) that the bridge parses back into frames. A frame is
known by the place of its token in the response, so that a lost, doubled or reordered frame shows;
`H2BridgeAssumption` is the grammar of what the pipeline writes. Its other half is the pipeline's:
`H2RequestReader` does not remember that it reported an error, so a reader that went on after one
would see the end of the channel as the end of the body. The model's worker stops, as `http_flow` does.

**RuleLanguage, RuleSyntax, RuleLoad** (`rsproxy-rules`). `RuleLanguage` is pure: families and
their policies, matchers, conditions, the candidate index with its literal prefilter and body
automaton, the resolver, the body plan and both lints. Hosts, paths and queries are sequences of
components, a regular expression is a small syntax tree, so that matching and required literals
are computed and not assumed. `RuleSyntax` reads URLs, matchers, names and conditions (nested, negated,
with the nesting limit) from structured texts. The migration rewrites every unquoted word before a parenthesis wherever it stands, in
conditions, paths, arguments, tags and regexes (`CallWords` gives the words that hold such a call), and
leaves alone what it takes for a regex, up to the next slash with a separator behind it (`Swallowed`).
`RuleLoad` runs the parser's pass with its budgets and diagnostics, publishes, and resolves a
request and its response.

**Daemon, SystemProxy, Startup, CaStore, Host** (`rsproxy-cli/src/cli/*.rs`,
`rsproxy-platform`). A command is an invocation split at every system call another process can
see: pid file, socket, signals, `gsettings`/`reg`/`networksetup` calls, manifest, login item,
certificate and key file, trust store. `Host` issues the commands of a scenario and lets them
overlap, be killed, or be cut short by a reboot; other programs may take a freed pid or a port. What the
code asks the system has a set of possible answers: `pid_listening_on` may miss a listener, and on Linux
and Windows finds one of the same port number on any interface; the path of a process may be unreadable;
a `reg` command may fail after taking effect, and a failing `reg query` reads as "not registered"; a
manifest may be unreadable. `misled` records that a startup command was told something wrong.

## 3. Runs

Distinct states are rounded; every run ends within the bounds below.

| Run | States | What it shows |
|---|---|---|
| `trace_producers` | 830 000 | two producers race for slots and bytes beside a subscriber: counters exact, memory within its budgets, no session lost uncounted or completed twice, the subscriber gets backlog and later commits once and in order except what its full channel loses and counts |
| `trace_live` | 240 000 | a producer with incremental events, a caller that queries and clears, a subscriber: every query is answered and dropping the last handle drains the queue |
| `spill_files` | 2 million | acknowledged sessions survive a crash after any file operation, memory agrees with the directory up to one orphan index file per crash, exports are snapshots, the budget holds; a corruption report overtaken by clear is ignored also when operations fail |
| `rules` | 390 000 | API threads, watcher, editors, a crash and failing operations: updates atomic for the directory, only valid snapshots, the watcher catches up and stops |
| `h1_pool` | 120 000 | permits exact and within the limit, every request ends although idle connections hold permits |
| `h2_pool` | 720 000 | one connector per origin, exact streams, no lost wake-up, stale generations harmless |
| `http_flow` | 1.4 million | two requests on one client connection: both connections are reused only in step, one answer, one truthful session, every request ends that is not held by its client or an event stream |
| `connect` | 1.4 million | answers and sessions of CONNECT, the failure cache and leaf files, the probe, every route |
| `relay` | 380 000 | the four relays implement `Pipe` in both directions, hide no loss and end |
| `h2_bridge` | 600 000 | truncation is taken for an end only when the client cancelled its request, every stream ends whose client reads or resets |
| `rule_language` | 140 000 | loads exact, migration keeps the meaning of lines in which only names look like calls, index and body plan change no answer, lint findings are true |
| `host` | 2.1 million | what start, stop, proxy, startup and ca report is what they did; system proxy, startup and trust on three platforms, start and stop on two |

Several properties are conjunctions of named parts that are stated, with their own comments,
just before them (`MemorySound` of `MemoryAccounting`, `MemoryBounded` and
`ResidentBudgetHeld`, and so on), so that one run and one configuration answers one question.

### Bounds

- Collector: two producers, two identifiers, a queue of two commands with room for four bytes,
  sessions of two bytes, a resident budget of three and a TTL of one tick make every
  rejection, eviction and expiry happen, in every order; the subscriber's backlog and channel
  hold one commit, so that it lags, loses and catches up. Incremental events (`MaxEmits`),
  clears and sessions larger than the whole budget are explored in `trace_live`.
- Spill: four records, small ones of which two fill a segment and large ones that exceed it, and
  a budget of about two segments cover rotation, oversized records and eviction; one crash, one
  fault and one clear.
- Rules: three valid names, one that is rejected, a limit of two groups; a good, a bad and the
  empty text; an event queue with room for one. `MaxEffort` bounds updates, edits, faults and
  crashes together to two: every pair of them is explored in every interleaving.
- Pools: more threads than slots, two origins with idle lists of one, so that check-in
  displaces; an HTTP/2 pool with room for one of two origins; `MaxConnections` and `MaxClaims`
  bound the generation numbers, large enough for a stale one to meet a newer one.
- HTTP flow: one head of each kind the flow tells apart (`MCRequests`, `MCResponses`,
  `MCOutcomes`), an interim response, a 205 with unannounced content and a false length among them; bodies
  of up to two cells over a buffer limit of one; two requests, so that the
  second meets whatever the first left on either connection.
- CONNECT: one host in two spellings and another; caches for one host, so that the other host
  displaces; a TTL of one tick; three connects on two threads, one restart; targets that do not
  parse on every path that reaches `handle_passthrough`. The constraint
  `Scope` explores requests that exercise the probe or the routes one at a time, because a
  probe and a dial touch nothing shared.
- Relay: up to three units one way and two the other, a pending cap of two, a record cap of
  three; frames are two units long, so that a frame can be cut.
- HTTP/2 bridge: channels of one slot, up to two request frames, every response framing.
- Rule language: sources that exceed each budget by one, conditions nested up to and beyond a limit of
  three, words that hold a call in every place a word can stand, and pairs of rules over a web of few
  hosts, paths and queries.
- Host: two or three commands of one group, at most two at a time where commands of that group
  may be issued concurrently. Two addresses with the same port number on two interfaces. Daemon commands
  run on Linux, where the lookup ignores the host, and on macOS, where it does not; startup commands on
  all three platforms, one at a time (their races are in section 5), with a manifest that is spoilt in
  between.

Deadlock is checked except where the modelled activity ends by itself: a tunnel, a stream, a
finished load, a finished scenario, a closed client connection.

### Fairness

`TraceStore`: weak fairness of the collector thread and of the thread that drops the handle;
none for producers, callers or subscribers, because the collector must not depend on them.
`RuleStore`: weak fairness of each API thread, of the watcher, of the load it runs, of the
notification callback and of the stop; editors and failures get none. `H1Pool`: weak fairness of
each thread's own work (the operating system schedules it and every I/O call has a timeout) and
of the clock; a notification may go to any sleeper. `HttpFlow`: weak fairness of the thread while it
is not `Held`. Reads from the client and all traffic with an origin have a timeout; a write to the
client has none (`server.rs:62` sets `nodelay` only), so a client that stops reading holds the thread,
and an event stream or tunnel has a timeout per read only (`restore_upstream_timeouts` sets the defaults),
so it lasts as long as something arrives within each. `RequestEnds` therefore says: if from some moment on
the thread is not held, every request that was read ends. `Relay`: weak fairness of threads and
loop, strong fairness of a loop pass that writes everything, because a socket whose peer reads
becomes writable again and again. `H2Bridge`: weak fairness of the tasks and of the worker and nothing
of the client; `StreamEnds` names the client that neither reads nor resets. The other runs check safety only.

## 4. What is proved

`TraceStoreProofs` (for any finite set of subscribers, any sets of producers and callers, any
capacities, budgets and sizes; assumptions `SizesAssumption`, `LimitsAssumption`,
`ThreadsAssumption`):

- `TypeCorrect`: `Spec => []TypeOK`. `TypeOK` alone is not inductive: the collector indexes the
  events of the command in hand. The strengthening `TInv` adds `CommandsWellFormed`: every
  command a thread holds, the queue contains or the collector processes is one event that is
  not an End, or the events of one session with the End last, and the collector's index lies
  inside it. One lemma per group of actions.
- `MemorySoundTheorem`: `Spec => []MemorySound`, from `ResidentBudgetTheorem`,
  `MemoryAccountingTheorem` and `MemoryBoundedTheorem`. `PendingBound` says that pending bytes
  fit the resident budget, except that while a command is applied they may exceed it by the
  session the command is about, and that a batch leaves its session no longer pending;
  `MemoryInv` says that the resident byte counter is the total of the resident sessions, stated
  by prefix sums so that no recursion is needed, that it stays within budget while a session is
  inserted, and that eviction has come to its end when the command ends. `EvictAccounting` and
  `PushAccounting` show that removing the oldest and appending the newest session keep the prefix
  sums. `Invariance` combines the parts.
- `CountersTheorem`: `Spec => []CountersExact`. A sum over producers, queued commands or pending
  sessions is the number of elements of a set (`Units`: one element per byte), so that adding to a
  term adds elements (`HeavierAdds`) and taking the first command off the queue is a bijection
  (`ShiftedAdds`). The invariant is the two sums (`QueueSum`, `PendingSum`), that their sets are
  finite although any number of producers may exist, and `QueriesFree`: queries reserve nothing, and
  the collector holds no reservation between two commands. As the counters are the exact sums, no
  `saturating_sub` of `counters.rs` or `pending.rs` ever saturates.
- `SessionsAccountedTheorem`: `Spec => []SessionsAccounted`, from `AccountInvariance`. That no
  session is lost uncounted is a sum over pending, resident, committed, evicted, cleared and lost
  sessions and survives every step by itself (`ConservedStep`). The other two parts, that nothing is
  committed twice and that an event misses its session only for a counted reason, depend on the order
  of commands, and `AccountInv` adds what the threads keep to. `Threads` and `HandedOut`: the commands
  about a session come from the one thread it was handed to. `EndIsLast`: behind an event that ends
  a session nothing about it follows, in the command in hand, in the queue or in a thread's hands.
  `LogOnce`: what is committed is over and was committed once. `EventsFind`, which holds while nothing
  was lost (`Clean`): at its place in the queue every event finds its session open, because the start
  is ahead of it and no end is. A step enqueues, dequeues, advances inside a command or touches none of
  these, and each kind has its lemma (`EnqueueProtocol`, `DequeueFind`, `AdvanceProtocol`, ...).
- `FollowStreamTheorem`: `Spec => []FollowStream`, from `FollowInvariance`. `FollowStream` speaks of live
  subscribers only. `FollowInv` adds what makes a registration right: `MemoryLogged`, that resident
  sessions are committed ones in commit order, but for one that is inserted and not yet published, which
  a registration cannot meet because it happens between commands; `FollowQueued`, that a follow command in
  the queue has its own waiting subscriber; `Registers`, that a subscriber has received and missed nothing
  before. `Streams` states the promise with positions in the log instead of `CHOOSE`. `StreamsGrow` shows
  that a commit extends it whether it is sent or lost; `BacklogStreams` that a backlog starts it;
  `StreamReceived` that receiving leaves the stream what it is. It rests on `LogOnce` of `AccountInv`: a
  session committed twice would have two places in the stream.

`TraceSpillProofs`, for every segment size, record size, index line length and budget and any number of
sessions, clears, failures and restarts:

- `ReportTheorem`, that the corruption counter shown is one found since the last clear, under
  arbitrary failures and crashes. The strengthening `ReportInv` says that an export belongs to a
  generation not in the future and that what it is about to report for the current one has been
  seen in it.
- `SpillTypes`, `AcknowledgedTheorem`, `SnapshotTheorem` and `DiskTheorem`, for `TypeOK` and the three
  properties of the run `spill_files`, from one invariant, `SpillInv` (`SpillInvariant`). Its first part,
  `TypeInv`, holds whatever fails. The second is about a directory in which no file operation has
  failed; it speaks of every moment, the properties only of the moments between two operations.
  `FilesSound`: a data file is a sequence of whole records, an index file a sequence of whole lines, and
  each line points to a whole record of a session that has been written (`GoodData`, `GoodIndex`); a file
  over the segment size has one record. A data file may hold a record no line points to, which is what a
  crash between the two writes leaves. `MemorySound`, `BytesSound`: the segments in memory are the
  files, and their sizes the sizes of the files, but for the record whose line is not written yet
  (`Pending`) and the segment whose index is being removed (`Released`). `NamesSound`: every index file is
  at most as old as the newest data file, so the next number, counted from the data files, is never that
  of an index left behind; a clear passes through states where this fails, so a crash inside one counts
  as a fault. `SnapshotSound`: up to the lengths an export took, its files are good, and every step
  leaves them there: appends only add cells, and removal takes the name away and not the file. `DiskSize`
  is the number of elements of a set (`BytesOf`), and lemmas about such sets replace the induction
  over a sum: an append, a new file and a removal change it by the cells they add or take. The set falls
  into the files a scan lists (`ListedBytes`), which memory counts, and the orphan index files;
  `OrphansSound` says that, the one about to be removed aside, each death has left at most one.

`H2PoolProofs`: for any number of requests, origins and connections, from `SlotsAssumption` (and
`PoolAssumption` for `PoolSound`): `SleepersTheorem` (a sleeping request whose condition holds has a
notification on its way), `OneConnectorTheorem` (one connecting request per origin, none beside a
pooled connection) and `LiveEntryTheorem` (the action property `LiveEntryKept`). None of them is
inductive as it stands. `PoolInv` adds the types without the least-recently-used list (no argument
depends on it); `ClaimsDistinct`, that claim numbers are handed out once; `ClaimHeld`, that a claim
and the request connecting under it name each other; and `SleepInv`, that requests sleep only in
the two wait loops. The first two are what makes `cancel_connector` safe: a dropped lease can then
cancel its own claim only, so no connector is forgotten while others sleep on it, which is the lemma
`DropLeaseEffect`. Actions that leave the pool alone share `QuietStep`, the ones that only remove a
connection share `ConnectionStep`. `LiveEntryKept` follows from the same invariant: generation 0 is
never alive, an origin someone connects to has no entry to lose, and every other removal compares
generations. `PoolSoundTheorem` (`PoolSound`) puts the exact counts and the order list on top of it:
`LeaseStep` for the counts, and `OrderInv`, that the order list names the pooled origins, each once, and
that they fit the capacity. That an insertion displaces just enough follows from the length of such a list
being the number of its names (`NamesLength`), and needs that a connector's origin has no entry.

`H1PoolProofs`: for any number of threads and origins, any limit and any size of the idle lists,
`SlotsAreSound` (`SlotsSound`), from `SlotsAssumption` and `IdleAssumption`. `PoolInv` adds when a
request has a permit (`Phases`) and that the permits of an origin are finitely many. The argument is a
count: `PermitsChange` shows that a step changes the permits of an origin by what the thread that takes
it gains or gives away, and `HandsCounted` that this is the permit of its request, how often the origin is
in its idle list and how often in its drops. The lemmas about `Count` (cutting, joining, `retain`, removal
of the first match) then settle each action; `CheckinLists` is `checkin`, where a connection displaces
others of its own and of other origins at once.

`HttpFlowProofs`: for every set of requests, of origin responses and of rule outcomes, every buffer
limit and any number of requests on the connection, `ClientsInSync`, `PoolInSync` and
`SessionsTrue`, the three invariants of `http_flow`. They are statements about the moments between
two requests; the argument is about the phases in between. `FlowInv` says for each phase

- what the session is (`GuardInv`, `StatusInv`): none before the rules, a guarded one while the
  request is in hand, and when it is recorded the status written last;
- what the upstream connection holds (`UpstreamInv`): a pooled connection owes a head only between
  request and answer, and while its content is read the origin has exactly as many cells to send as
  the reader waits for (`InStep`), unless the connection is not persistent and will not be checked
  in, or a head on it was misread (`stray`), which the connection keeps from then on;
- what is left of the request body (`BodyInv`): nothing, unless it is streamed, and a streamed body
  that was cut rules persistence out;
- how many heads were written (`HeadsInv`), and while content is relayed (`RelayInv`) that the
  client waits for as many cells as the proxy does, wherever the client was told that the connection
  persists; at the end this is `Delimited` (`AnswersInv`).

There is one lemma per part, with one case per action. `StreamHeadShape` says what
`finish_streaming_response` may write, `WholeDelimited` and `BareDelimited` what the two head writers
leave. The assumption `MessagesAssumption` is the shape of the messages (three methods stand for
those the flow tells apart; a rule's status is not an interim one, as its parser demands); nothing is
assumed of what an origin sends. What the code mistakes is named in the properties: `stray` in
`PooledInSync`, and in `KnownMisframing` a `Misannounced` length, an interim response taken for the final
one, and an error answer to HEAD. `StreamedShape` is the part of the invariant that knows of lengths:
where the relayed length is that of the content, client and proxy wait for the same number of cells.

`RelayProofs`: for any amounts of data, any pending cap and any record cap, `PipeRefined`
(`ImplementsPipe`: every step of a relay is, for each direction, a step of `Pipe` or none) and
`LossFree` (`NoSilentLoss`). `RelayInv` relates what was sent, received, held and delivered: the units
delivered, those in the pending buffer and those in the TLS session's queue follow each other
without a gap and are the first ones received (`Held`, `TlsHeld`), whole frames only where frames are
relayed (`Shape`); counters and records reach as far as what was delivered (`Reported`, `Logged`); and
an orderly end is given only behind everything owed (`Ends`). The last is the part that needs
strengthening: a loop marks a direction as closed while bytes are pending, so the invariant speaks
of delivered and pending units together, and for the TLS relay of the queue that ends with
close_notify.

`ConnectProofs`: for any connections, hosts and requests, every cache size and lifetime and any
number of restarts, `ClientsAnswered`, `ProbesStable`, `MemoryKept` and `RoutesReached`, the four
invariants of `connect`. `ConnectInv` has four parts, and the routes a fifth.

- `ThreadInv` says for each phase of a thread what its client has been told (`AnswerInv`; nothing, for a
  target that does not parse and is not inspected), that its
  session is not settled before the thread ends and settled then (`SessionInv`), and that the probe's
  decision is the one of the whole input (`ProbeInv`). The last rests on `PrefixStable`, a lemma about
  `ClassifyPrefix` alone: once it has decided on a prefix, more bytes change nothing, because the first
  space of the prefix is the first space of the input.
- `LeafInv` holds for a host as long as nothing disturbed its files: there is at most one writer, nobody
  loads beside it, what it has written so far is its own, and without one complete files belong together.
- `FailureInv`: every entry of the failure cache is the last failure of its host (`Faithful`).
- `OrderInv`, proved on top of the others, relates the use order to the history: every host is in the
  order once, the hosts behind it have used the cache since it did, and a recent failure that is not
  in the cache has as many of them as the cache has places. The eviction of `remember_at` keeps this
  because the hosts that stay are all behind the one that goes (`SuffixOrdered`, `RememberSound`).
  `RetainFacts` says what `VecDeque::retain` leaves; `Retained` defines it by positions so that this
  needs no induction.
- `RoutesInv`, for `RoutesReached`: the route a thread keeps is one `upstream_route` returns
  (`RouteSound`), and a transport in hand is the one built along it. The rest is about operators:
  what `ChainToFinal` builds for a chain of any length passes every hop in order, with TLS exactly to
  the hops that ask for it, and ends at the last of them (`ChainReaches`); the steps on from there to
  the origin keep this (`Onwards`, `Secured`). `ChainToFinal` is a
  recursive function; that it exists (`UptoExists`) and that no hop is missed (`ChainReaches`) follow
  from the least number of hops for which they would fail.

The assumptions are `ConnectAssumption` and `RequestsAssumption` (the shape of a request).
`FallbackExact` was stated wrongly before: it compared a decision with the histories of a later
moment, at which another connection of the same host may have failed and entered the cache anew. The
decision now keeps what it saw (`crowded`).

`H2BridgeProofs`: for every set of well-framed responses, any number of request frames and channels
of any size, `BodiesWhole` (`BridgeTruth`). The truth of an end is not inductive, for a channel is closed
long before its last frame is taken. `RequestInv` says that while the pipeline may read, the request
channel is determined by three numbers (frames read, frames pumped, and whether the pump has left its
mark): it holds the frames in between and then the mark, which trailers and errors leave and neither
an end nor a cancelled stream does. `StreamInv` says of the response that the frames
the client has and those in the channel are the frames among the tokens written, in order (`FramesAt`);
that the writer's state fits the last token written (`WriterAt`, from the chunk grammar and the count of a
`Content-Length`); and that a channel is closed only with a whole response, behind an error, or when nobody
listens (`ClosedInv`). `Bounded` says that neither channel exceeds its capacity, errors included.

Every safety property of the runs of these eight modules is thus a theorem. Only model-checked:
liveness (`NobodyWaits`, `WatcherLive`, `RequestsEnd`, `RequestEnds`, `RelayEnds`, `StreamEnds`),
which is outside the prover; the five properties of the rule language, whose operators fold over
sequences, so that what they compute for every input would be an induction over data; `UpdatesAtomic`
and `SnapshotsSettle` of `RuleStore`, which rest on what `SelectSeq` and `SetToSortSeq` return for
every directory, again recursion over data; and the four properties of `Host`, for which no proof for
any number of commands has been attempted: the run has the commands of two users overlap in every way.

## 5. Observations

Where the code does something its documentation or a reader would not expect. The models contain
these behaviours, and the properties name them as their exceptions.

Trace and rules:

- `append_spill` returns on a failing write before it advances the sizes it keeps in memory
  although the append-only file has grown (`spill.rs:157`): all later offsets of the segment are
  wrong, and sessions counted as `spilled` (`stats.rs:49`) are unreadable. `clear_spill`
  (`spill.rs:295`) may leave an index file without its data file when the process dies, and its
  number is given out again with an index size of zero. The spill properties that relate memory
  and directory say `faults = 0` for both. A process that dies between the two removals of an eviction
  (`spill.rs:246-274`) leaves an index file as well: no scan lists it, no eviction removes it, and
  `disk_budget_bytes`, documented as the "combined size for data and index files", does not see it.
  `DiskSound` counts these files apart.
- `incomplete_sessions` is documented (`stats.rs:41`) as sessions discarded for lack of memory;
  aborted, expired and replaced ones are counted too. A segment whose index was never created is
  read without verification (`read.rs:67`).
- A failed `set_group` or `remove_group` leaves its first write in place, which the watcher loads
  and publishes, although `rule_store.rs:41` says that readers keep the previous snapshot. Such a
  group is not counted by the limit check of the next update; when the files exceed the limit, no
  load succeeds any more.
- An edit between the initial load and the registration of the watcher waits for the next one
  (`gap`). `reloads` counts every successful reload, not only those that change something.

Pools and requests:

- An idle HTTP/1 connection keeps its permit, so a request can time out while no other request
  to its origin is in progress; `notify_one` on the condition variable shared by all origins can
  wake a thread of another origin, and the thread the permit was for waits for its timeout.
- An interim 1xx response of an origin is taken for the final one, and the pooled connection is
  checked in with a response still to come; so is one whose 205 had content without announcing it.
  `PooledInSync` marks such connections (`stray`).
- A `res.header` rule can set `Content-Length` on a streamed response, which is then framed by it
  (`streaming.rs:33-54`) whatever its content; `docs/rules-dsl-spec.md:153-155` says that response writers
  own it and rule headers "cannot create conflicting message boundaries". A response with a transfer
  coding and a length is relayed under the length by an unpooled connection and refused by a pooled one.
  A 304 or 204 with a length, rewritten to a status with content, promises a body it does not have
  (`Misannounced`).
- Error answers to HEAD carry content. An error after the head of an unpooled event stream, WebSocket or
  trailer rule writes a second response. `KnownMisframing` and `OneResponse` list them.
- The accepted client socket never gets a write timeout: a client that stops reading holds its thread
  until it reads or goes away, deadline or not.
- The deadline shows differently by path: a pooled time-to-first-byte timeout gives 502, a client
  body cut by the total deadline while streaming gives 400. `restore_request_timeout` clears the
  keep-alive idle timeout; the keep-alive timeout stays on a reused connection that becomes a
  tunnel.

CONNECT, relays, HTTP/2:

- Two first connections to a host can write a certificate of one and a key of the other; the
  files are never written again and the host stays at 502 (`LeafUsable` names the case). A tunnel
  that speaks HTTP/2 records no CONNECT session. A CONNECT target such as `host:0`, `:443` or `host:99999`
  passes `split_addr` and fails `UrlParts::parse` in `handle_passthrough` (`connect.rs:203`): the client gets
  no answer (or none after the 200 of an inspected tunnel) and the session is aborted. An upstream
  value with one bad entry uses only its first entry.
- The TLS relay queues close_notify ahead of bytes read in the same pass (`tunnel.rs:153`) and
  drops client data once the upstream has half-closed. A loop that holds bytes for a peer that is
  gone never ends (`Wedged`). An idle plain tunnel is half-closed after 60 seconds.
- An HTTP/2 client that sends `Expect: 100-continue` gets the 100 as its response. A response
  that only its end delimits may be cut without a reset. A request whose client resets the stream with
  `CANCEL` or `NO_ERROR` in the middle of its body reaches the origin with a terminal chunk, as if whole.
  A client that neither reads nor resets holds its worker in `blocking_send` without a timeout.

Rule language:

- An exact URL without a query is reported as shadowed by an earlier query glob although URLs
  with several parameters reach it (`lint.rs:188`). `UpstreamOverriddenByDirect` and
  `ResponseActionWithLocalResponse` ignore skips of another rule, the latter also
  response-dependent conditions; `BodyActionWithBodylessStatus` ignores an earlier status that
  wins. `LintSound` names each. Migration moves line numbers, on which `chance(...)` depends.
- `migration.rs:7-9` says that aliases are rewritten only as call names and that "regex bodies are preserved
  byte-for-byte". A regex with a flag is not recognised as one (`regex_end_at_boundary` wants a separator
  behind the slash), so `/ip(v6)?/i` becomes `/client.ip(v6)?/i`; paths, arguments and tags in which an alias
  stands before a parenthesis change too; and when a later slash does end such a "regex", the calls in
  between keep their aliases, which the versioned parser then rejects.

Host:

- Two overlapping starts both pass the checks; the loser's clean-up removes the winner's pid file
  and socket, and a start may report success on the readiness of another daemon. `run` takes over
  the control socket of a daemon. The identity check of `stop` asks the socket, not the pid. A `try_wait`
  that fails ends `start` with an error and the child running.
- `stop` without a pid file reports `NotRunning` "when the port is free" (`daemon.rs:322`), and also when the
  lookup misses the listener: no `lsof`, an unreadable `/proc/<pid>/fd`, an IPv6 listener on Windows. On
  Linux and Windows the lookup ignores the host, so it may stop an rsproxy that serves the same port number
  on another interface.
- A failing `gsettings get` in the middle leaves earlier changes in place; macOS has no rollback;
  switching off does not restore what the user had before.
- Overlapping install and uninstall can leave a login item without a manifest. So can a `reg add` that
  fails after taking effect, because install then removes the manifest; a failing `reg query` lets uninstall
  report success and leave the item. An unreadable manifest counts as none: install does not switch off the
  routing it recorded, and removes it when the registration fails. A crash of
  `ca init --force` between certificate and key leaves a pair that does not match and is reported
  as initialized; the leaf cache and the trust of the old root survive `--force`.

## 6. Not modelled

Contents of messages, rules and certificates, formatting and logging; lock poisoning (a panic
while a lock is held ends every later user of it by design); overflow of 64-bit counters, which
use saturating operations. The event and drop counters of `RuleWatchStatus` decide nothing.
Actions and transforms rewrite one message; `HttpFlow` takes their outcome as a choice. Replay
builds one request from a stored session. The control API's routing, authentication and
rendering, the TUI, argument handling and `xtask` keep no state that outlives a call. Of the rule
language, lexing, templates, value parsing and the explanation output are text processing. Of
the host commands: `ca issue`, `export` and `status`, the Windows pipe, the TCP control endpoint
and the text of login items. Of CONNECT, the body of the request
itself. `PROJECT.json` lists every part with its status and reason.

## 7. Checking that the properties can fail

Every property of a run has a mutant: a variation of one mapped definition the way a plausible
bug would change the code. With it TLC must find the property violated under the same
configuration. Some examples: `CancelAnyClaim` drops the generation check of `cancel_connector`
and breaks `PoolSound`; `RetryKeepingPermit` forgets the permit of a stale connection and breaks
`SlotsSound`; `AfterShort` leaves a written byte in the buffer and breaks `ImplementsPipe`;
`LinuxStepRemembersLate` rolls back everything but the command that failed and breaks
`SettingsWhole`.

## 8. What could come next

Abstract specifications and refinements: the follow stream as a lossy ordered log, the rule store
as one atomically replaced snapshot, a pool as a counting semaphore per origin. Theorems:
`UpdatesAtomic` and `SnapshotsSettle` of `RuleStore`, `StartupSound` of `Host`.
Models: the control API beside a running collector; several connection threads of `HttpFlow` over `H1Pool`.

## 9. Running

    tlc -workers 2 -config MCTraceStore.cfg MCTraceStore
    tlc -workers 2 -config MCHttpFlow.cfg MCHttpFlow
    tlapm TraceStoreProofs.tla
    tlapm TraceSpillProofs.tla
    tlapm H1PoolProofs.tla
    tlapm H2PoolProofs.tla
    tlapm RelayProofs.tla
    tlapm HttpFlowProofs.tla
    tlapm ConnectProofs.tla
    tlapm H2BridgeProofs.tla
