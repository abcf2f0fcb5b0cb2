# A TLA+ model of the SOCKS5 proxy

The repository is a SOCKS5 proxy in C: one thread runs a `pselect()` event loop,
every host name is resolved in a worker thread of its own, and a second port
serves a small monitoring protocol. This directory holds TLA+ modules that model
the parts where order and failure matter, the TLC runs that check them on small
instances, and theorems proved with TLAPS for every value of the constants.

Sources below are relative to `src/src/server/` unless a path says otherwise.

## 1. Inventory

| Component | State it keeps | Operations | Interacts with |
|---|---|---|---|
| Connection lifecycle, `socks5.c` | `struct socks5`: state machine, two descriptors, `references`, `resolving`, buffers; the free list `pool` (at most `POOL_MAX`), `active_list`, `idle_timeout` | accept, new, retain, release, done, kill, sweep, register origin, handlers `socks5_read/write/block/close` | selector (callbacks), request, monitor (timeout) |
| User table, `socks5.c` | `runtime_users`, `MAX_USERS` slots | load, add, delete, look up, list | negotiation, monitor |
| Negotiation, `states/hello.c`, `states/auth.c`, `states_common.c` | the parsers in the connection, `read_buffer`, `write_buffer` | parse a partial message, answer it, next state | buffers, user table |
| Request, `states/request.c` | `dns_jobs` and its mutex, the `dns_*` fields, `origin_resolution(_cur)`, `reply` | parse, resolve in a thread, notify, retry, join, connect to each address, reply, wait for all | worker threads, selector |
| Relay, `states/relay.c` | two buffers, `client_closed`, `origin_closed` | read ready, write ready, interests, finished | buffers, selector, metrics |
| Buffer, `utils/buffer.c` | `data`, `read`, `write`, `limit` | grants, advances, compaction | |
| Selector, `utils/selector.c` | table of items, descriptor sets, `resolution_jobs` and its mutex | register, unregister, set interest, select, notify block | every handler, workers |
| State machine engine, `utils/stm.c` | current state | jump; read, write, block handlers that `abort()` when missing | |
| Main loop, `server.c` | passive sockets, `closing`, `shutdown_signals`, time of the last sweep | loop, signals, controlled and forced shutdown | all |
| Monitor, `monitor.c` | per session a parser, two buffers and three flags; the free list (`pool`), the doubly linked `active_list`, `active_count` (at most 16), `idle_timeout` | accept, authenticate, commands, answers, close, sweep, begin shutdown, force close | user table, metrics, access log, main loop, client |
| Metrics, `metrics.c` | four counters | add, get | relay, monitor |
| Access log, `access_log.c` | a ring of recent lines; the file | open, entry, recent lines, close | relay, monitor |
| Monitoring client, `src/src/client/client.c` | one socket | handshake, one command, its answer, close | monitor |
| Arguments, `utils/parser*.c`, `utils/netutils.c` | | start-up parsing, code the server does not call, formatting | |

What makes the program hard, and what it has to guarantee:

* *Sharing.* A `struct socks5` is kept alive by a count of its owners: each
  registered descriptor and the DNS job in flight. The worker writes into it. It
  must not be recycled early, and it must be recycled in the end.
* *Hand-over.* A result goes from worker to loop through three steps (publish,
  queue a notification, record whether queueing worked), and the second may run
  out of memory. It must be consumed exactly once, by its own connection.
* *Locks.* The loop joins workers while it holds `resolution_mutex`.
* *Dispatch.* An event without a handler in the current state calls `abort()`;
  a connection without interests and without a job is never woken.
* *Partial I/O.* The relay reads and writes what the kernel allows, and passes a
  half-close on only after the bytes before it.
* *Messages.* TCP splits and joins what a client says, the table of users changes
  between its messages, and each parser must use its own bytes and no others.
* *Remote commands.* Several administrators act on one table, in parts of messages
  and parts of answers; what each is told must be what happened.
* *Lists.* Sessions leave the list from any place, also while a loop walks it.
* *Descriptors.* Handlers close and open descriptors while the loop goes over what
  was reported before, and the kernel gives the lowest free number.
* *Time.* Idle connections are found by a sweep that runs at most every 10 s, behind
  waits of up to 10 s, with a clock of whole seconds.
* *Shutdown.* The first signal waits for the connections, the second does not,
  and nothing is freed under a running worker.

## 2. Modules

| Module | What it is |
|---|---|
| `DnsService` | abstract: what name resolution promises a connection |
| `Socks5` | `socks5.c`, `request.c`, the notifications of `selector.c`, the loop of `server.c` |
| `MCSocks5` | symmetry for the safety run of `Socks5` |
| `Socks5_proofs` | its inductive invariant and theorems; it implements `DnsService` |
| `Buffer` | the operations of `buffer.c` |
| `Channel` | abstract: a lossless FIFO channel with an end |
| `Relay` | `relay.c` over `Buffer` |
| `Relay_proofs` | lemmas about buffers and streams, the invariant, the refinement to two `Channel`s |
| `UserSet` | abstract: a set of accounts with distinct names |
| `UserTable` | the table of users of `socks5.c` |
| `MCUserTable` | command lines for its run |
| `Negotiation` | `hello.c`, `auth.c`, the parser of `request.c`, `states_common.c`, over `Buffer` and `UserTable` |
| `MCNegotiation`, `Negotiation_proofs` | two kinds of client and their messages; its inductive invariant and theorems, with those of `UserTable` |
| `Monitor` | the sessions of `monitor.c`, byte by byte, over `UserTable` |
| `MngClient` | `client.c` and other peers, composed with `Monitor` |
| `RemoteCommands` | abstract: commands that act atomically on a set of accounts |
| `MCMngClient` | who the peers are, for the run of `MngClient` |
| `Monitor_proofs` | the inductive invariants of `MngClient` and the theorems about it and `Monitor`; it implements `RemoteCommands` |
| `Sessions` | the lists, descriptors and structures of `monitor.c`, and the end of `main()` |
| `Sessions_proofs` | its inductive invariant and theorems |
| `RecentLog` | abstract: the most recent lines |
| `AccessLog` | the ring and the file of `access_log.c` |
| `MCAccessLog`, `AccessLog_proofs` | lengths of lines; the ring implements `RecentLog` |
| `Selector` | the table, the sets and the iteration of `selector.c`, with handlers that open and close descriptors |
| `MCSelector`, `Selector_proofs` | instances and symmetry; its inductive invariant and theorems |
| `Timeouts` | the clock, the waits, the sweep and the signals of the loop |
| `MCTimeouts`, `Timeouts_proofs` | values and symmetry; its inductive invariant and theorems |

`MngClient` composes the client, the sessions and the table of users in one state
space. `Negotiation` composes the parsers, the buffer and the same table, changed
by the monitor. `Socks5`, `Relay`, `Sessions`, `Selector` and `Timeouts` each look at the
one loop of the program for a different question, and abstract what the others
keep; every section below says what.

A definition whose comment begins with "Faulty" is not used by any specification. It is
a plausible error in the definition behind it, and PROJECT.json names the property
that refutes it.

### Socks5

One variable per field that decides something: `mem` (a structure is unallocated,
live, or in the free list), `stm`, `clientFd`, `originFd`, `refs`, `resolving`,
`reply`, `left` (addresses after `origin_resolution_cur`), the `dns_*` flags, the
worker's position `wpc`, the process's descriptors `open`, the selector's `item`
and `interest`, and `queued`, how many notifications for each descriptor are in
`resolution_jobs`. `mainPc` says where the loop is.

An action is a handler, run to its end, since only the worker and the signals
interleave with the loop. Four boundaries inside the loop are steps of their own
because a worker can act between them: `BlockDispatch` (takes the next
notification), `BlockFinish` (the rest of `request_resolv_on_block_ready()`, once
`pthread_join()` returned), `Retry` and the wait at exit. The worker has a step
for each point where shared state changes: `WorkerPublish`, `WorkerNotify` or
`WorkerNotifyFails`, `WorkerExit`. `WorkerNotify` needs `resolution_mutex`, which
the loop holds from `BlockStart` to `BlockEnd`.

Attempts to connect (`request_connect()` and `request_connect_fail()` call one
another) are one operator, `Connect`, that ends with success, with an attempt in
progress or with no address left. Bytes are not modelled: what a message turns
out to be is a choice, and an event that moves part of a message is a stutter.
Time is not modelled: the sweep may close any live connection it is allowed to,
which covers every timeout value. `LoopEnd` may go on even when no connection is
left, because monitoring sessions keep the loop alive too. The main thread takes
the ready descriptors in any order and any number, not in ascending order, and
interests are read when the event is dispatched, as in `handle_iteration()`.

### Buffer and Relay

A buffer is a function of cells and two positions. Bytes are their numbers in
their stream, so a lost, repeated or swapped byte is visible. `Read(d, n)` is the
whole of `relay_on_read_ready()`: the `recv()` loop until the buffer is full, the
socket is empty or the stream ends; one `send()` that accepts `n` bytes; the flags,
`SHUT_WR`, and the new interests. `Write(d, n)` is `relay_on_write_ready()`.
`Fail(d, r)` is any way to `ERROR`. `Feed` and `Finish` are the endpoints.
`Init` includes a client that sent bytes behind its request (`MaxEarly`): they are
already in `read_buffer`, at a position that is not its beginning.

### UserTable and Negotiation

`UserTable` has the slots as a function and one action per command of the
monitoring protocol. `Init` is what `socks5_init()` makes of a command line
(`CommandLines`). `Negotiation` instantiates it, so the table changes at any
moment between a client's messages.

`said` is everything the client has said, `taken` how much of it `recv()` took.
`Read(n)` is a call of a read handler whose `recv()` takes `n` bytes, any number
that fits: how TCP cuts the stream is this choice. The parsers are the three `_feed()`
functions, folded over the contents of the buffer until the message is over;
what they did not use stays in the buffer. `left` stands for the countdowns
(`remaining`, or `ulen`, `plen` and `addr_len` less `idx`). `Write(n)` is a write
handler whose `send()` accepts `n` bytes. `Drop` is every other way to close the
connection, among them a full buffer, where `socks_recv()` leaves an old `errno`.
The states after the request are those of `Socks5`: `SERVED` stands for
`request_connect()` or `REQUEST_RESOLV`. `atHello` and `atAuth` record the table at the
two decisions and are read by properties only.

A client is a record of `Clients`: what it may say, and whether it speaks `ahead` of
the answers. The reference for the parsers is not a parser: `HelloEnd`, `AuthEnd`,
`AddrEnd` and the fields are positions in `said`, by the grammars of RFC 1928 and RFC 1929.

### Monitor, MngClient and RemoteCommands

A session of `Monitor` is the state `stm` (with `OUTSIDE` before and `BACKLOG` while a
connection waits to be accepted), the parser `p`, both buffers and the flags
`authenticated`, `closeAfter`, `shuttingDown`. `Accept` refuses the connection behind
the last place. `Read(c, n)` is a read handler: `n` bytes of the stream through
`auth_feed()` or `cmd_feed()`, and, when a message is complete, its execution
(`Execute`, over `UserTable`, the timeout and `world`, which stands for the counters
and the log) and its whole answer. `Write(c, n)` is a write handler with its three
ways to go on; the arrival in `MNG_CMD_READ` empties both buffers. `Fail(c)` is a
call that fails. `BeginShutdown` is `mng_begin_shutdown()`. `Traffic` changes
`world`. `did`, `answers` and `failed` are history variables for the properties.

`MngClient` adds what is at the other end. `Casts` gives each peer a role: a client
with a command line, a stranger with words of its own said at once and no patience,
a user of the proxy, or nobody. The client's actions are the functions of `client.c`:
`Dial`, `Authenticate`, `ReadAnswer`, `ReadBye` and `HungUp`. `AnswerRead` decodes the bytes
the server composed, with the widths the client assumes (a length in a `uint8_t`, a count in
one or two bytes, at most 511 bytes of a line). `read_all()` blocks without being
seen by the server, so reading an answer is one step.

`RemoteCommands` says what the two promise together: each command acts on one set of
accounts, at one moment and once at most, and who is told an outcome is told the
one of that moment. Who gives up does not know. The refinement maps the slots to the set,
the answers on their way to "performed", and the printed reports to "told".

### Sessions

The lists of `monitor.c` with their pointers: `activeList`, `anext`, `aprev`, `activeCount`
and the free list `pool`; `order` is the sequence the pointers stand for, kept apart from
them. `Linked`, `Unlinked`, `New` and `Returned` are `active_add()`, `active_remove()`,
`mng_new()` and `mng_destroy()`. `Sweep` and `Begin` are one turn of the loops of
`mng_sweep_timeouts()` and `mng_begin_shutdown()` each, with `cur` as in the
code, so that a signal may come between two of them. The steps from `select` to `exit` are
`main()`. A session keeps only the bytes of its answer that are left; a connection of
the proxy is one of a number `conns`; idle is a flag `stale` that time sets.

### AccessLog

`recent`, `recent_head` and `recent_count` are the ring. `Entry` is `access_log_entry()`
with a write to the file that may fail, `Open` and `End` are a start and an end of the
process, so that the file outlives many. Of a line its number is kept, its length and
what `snprintf()` leaves of it. `GetRecent` is `access_log_get_recent()`.

### Selector

`sel` is the `fdselector`: `size`, `item`, `max` and the two sets. `Ensured`,
`Registered`, `Unregistered` and `Interested` are the functions of the table. `Select` chooses
what is reported among what is ready; `Read`, `Write` and `Iterated` go over the descriptors in ascending
order, reads before writes, and look at the item as it is by then. The
handlers are those of the connections, reduced to what they ask of the selector and
of the kernel: accept, connect, retry at the next address, reply, relay, end. A new
descriptor gets the lowest free number. `tcp` is what became of the attempt to connect, which the
kernel knows; `owed` and `reopened` are history.

### Timeouts

`now` counts ticks of the clock, `Second` of them in what `time()` counts. Time passes in
`pselect()` only (`Tick`). `Wakes`, `Opens`, `Acts`, `Ends`, `SetsTimeout` are reasons for it to return; `Sweep`,
`Signals` and `Enter` are the rest of the loop, with the signal mask: a signal
to end that comes before `Enter` interrupts nothing, one announcing a result is
pending. `touched` and `changed` are the exact times that `last_activity` and the
setting round down or forget.

## 3. What the runs check

| Run | Instance | Shows |
|---|---|---|
| `socks5_safety` | 2 connections, 4 descriptors, a pool of 1, 2 addresses; 132,335 states | `StructuresAreSound`, `HandOverIsSafe`, `InterestsFitState`, `EveryAddressTried`, `ImplementsService` |
| `socks5_liveness` | 2 connections, 2 descriptors, 1 address; 183,130 states | `ResolutionEnds`, `ForcedExit` |
| `relay` | buffers of 2, streams of up to 3 bytes, up to 1 early; 18,372 states | `StreamsAreSound`, `NoDeadDirection`, `ImplementsChannels`, `Delivery`, `RelayEnds` |
| `relay_early_data` | the same with streams of 2 | a disagreement, see below |
| `negotiation` | a buffer of 6, one user who comes and goes, a client of either kind; 329,856 states | `MessagesAreWhole`, `OnlyUsersAreServed`, `NothingLeftBehind`, `Negotiated` |
| `user_table` | 3 slots, 3 names, 2 passwords, up to 2 `-u` options; 139 states | `NamesAreUnique`, `DeletedIsGone`, `ImplementsSet` |
| `monitor` | 3 peers in 19 casts, 2 sessions, one slot, reads of 5 bytes; 163,336 states | `BuffersAreSound`, `ExecutedAsSent`, `OnlyAdmins`, `AnswersArrive`, `ShutdownQuiesces`, `ReportIsTrue`, `ImplementsCommands`, `ClientsEnd` |
| `sessions` | 3 structures, 2 descriptors, 2 sessions, a pool of 1, answers of up to 2 bytes, 1 connection; 71,390 states | `StructuresAreSound`, `ShutdownIsClean`, `SweepIsComplete`, `ShutdownEnds` |
| `access_log` | a ring of 3, 6 lines, some too long; 15,851 states | `FileEndsWithRecent`, `ImplementsRecentLog` |
| `selector_table` | 6 numbers of which an `fd_set` holds 5, 3 connections, 4 events in an iteration; 1,474,127 states | `TableIsSound`, `NothingOwed`, `OnlyReuseIsPremature` |
| `reused_descriptor` | the same | a disagreement, see below |
| `timeouts` | 2 connections, 2 ticks to a second, waits of 1 s, sweeps every 2 s, timeouts of 0 and 2 s, 10 ticks; 4,997,459 states | `IdleIsBounded`, `ReactionIsBounded`, `NotTooEarly`, `ResultsAtOnce` |

A property with several parts is the conjunction of named ones, each with its comment in
the module.

`Socks5`
* `StructuresAreSound`: the count of a structure is the number of its registered
  descriptors plus its job, and it is live exactly while that is not zero
  (`RefsMatchOwners`); no descriptor leaks or is closed while registered
  (`DescriptorsHaveOwners`); at exit all is freed and joined (`ExitFreesEverything`).
* `HandOverIsSafe`: until it is joined, a worker's structure belongs to the connection
  that started it (`WorkerHoldsConnection`); a completed job is announced or will be, once, to the
  connection that waits for it (`NoLostCompletion`, `NotificationsReachTheirOwner`); the
  join under `resolution_mutex` never waits for a worker that needs the mutex (`JoinIsShort`).
* `InterestsFitState`: no `abort()` (`EventsHaveHandlers`), no abandoned connection (`AlwaysAwaited`).
* `EveryAddressTried`: a failure is answered with no address left (RF4).
* `ImplementsService`, `ResolutionEnds`, `ForcedExit`.

`Relay`
* `StreamsAreSound`: bytes out and bytes waiting are exactly the bytes taken
  (`StreamPreserved`), a half-close comes behind the last byte (`NoTruncation`) and in the event
  that drains the buffer (`EofForwarded`), and a relay that ends by itself has
  delivered everything (`DoneIsComplete`).
* `NoDeadDirection`: no direction with work left waits for an event nobody asked for.
* `ImplementsChannels`, and under fairness `Delivery` and `RelayEnds`.

`Negotiation`
* `MessagesAreWhole`: each parser uses exactly the bytes of its message and gets its
  fields right, however the stream is cut (`FieldsAreTrue`), and a message is awaited only
  when the answer to the one before was sent whole (`AnswersComeFirst`).
* `OnlyUsersAreServed`: the method is one the client offered and the table of that moment
  allows (`MethodIsAcceptable`), and whoever is served was entitled to by the table at
  the moment of the decision, whoever is refused was not (`EntitledOnly`).
* For a client that waits for each answer, `NothingLeftBehind` and `Negotiated`.

`UserTable`, where the `-u` options name distinct users: names stay unique, a deletion is
final, the slots implement a set.

`MngClient` (with `Monitor`)
* `ExecutedAsSent`: a command is executed with the fields its sender wrote, however the
  stream was cut. For a client that spoke ahead, what it sent is only the bytes just before:
  after the reset of `monitor.c:499` dropped part of a command, the next one may begin in
  the middle of what was meant as another, and no property says otherwise.
* `OnlyAdmins`: only for the credential of `-A`, and after saying so.
* `AnswersArrive`: a peer gets its answers whole and in order, and its session does not close
  before, unless a call fails.
* `ShutdownQuiesces`: after the first signal nobody's command is awaited.
* `ReportIsTrue`: what a client prints is what the server did, at the moment it did it; and
  if no call failed, a client that reports a failure was not served at all.
* `ImplementsCommands`, and under fairness `ClientsEnd`. `BuffersAreSound` is the type invariant.

`Sessions`
* `StructuresAreSound`: the pointers are one list of the sessions (`ListIsSound`), a structure is in
  one place (`OnePlace`), no more are allocated than there may be sessions
  (`MemoryIsBounded`), descriptors have owners (`DescriptorsOwned`), and a walk stands on a
  session though it removes sessions (`WalkIsSafe`).
* `SweepIsComplete`: behind a sweep no stale session is left.
* `ShutdownIsClean`: after `mng_begin_shutdown()` only answers remain (`OnlyAnswersRemain`), and
  the exit gives everything back (`ExitIsClean`).
* `ShutdownEnds`: with a timeout, the first signal is enough.

`AccessLog`: `GET_LOG` shows the most recent lines in order, before and after the
ring wraps; unless a write failed, the file ends with the same lines.

`Selector`
* `TableIsSound`: the sets and `max_fd` are what the items say (`SetsMatchItems`), no place beyond
  the table or an `fd_set` is used (`InBounds`), and items and holders agree
  (`ItemsMatchHolders`).
* `NothingOwed`: an iteration leaves no reported event behind.
* `OnlyReuseIsPremature`: a connection is answered before it is made only
  if its descriptor got a number that was reported for another in the same iteration.

`Timeouts`
* `IdleIsBounded`: an idle connection is closed before `idle_timeout - 1 +
  SWEEP_INTERVAL + SELECTOR_TIMEOUT` seconds, counted from its last activity or from the last change of the
  setting: with the code's values, 19 s beyond the setting.
* `NotTooEarly`: not before `idle_timeout - 1` seconds, since `time()` drops a part of a
  second, and never while it resolves.
* `ReactionIsBounded`: the first signal waits for one `pselect()` at most.
* `ResultsAtOnce`: a result that `selector_notify_block()` queued never waits. One it found no
  memory for is queued by a retry of the loop, up to one wait of `pselect()` later: that
  path is in `Socks5`, where `ResolutionEnds` is about it.

### Bounds, and why they are enough

*Socks5.* Two connections are enough for a structure or a descriptor to pass from one to
the other; four descriptors let both have an origin, and with two the descriptors run
out. A pool of one makes a release find it full. Two addresses make the second
attempt follow a failed first. `signals` stops at two, as the handler's effect does.

*Relay.* Buffers of two cells with three bytes fill, wrap their positions and are
compacted with bytes still in the socket; one early byte puts `read_buffer` at a position that is
not its beginning. `MaxBytes` and `MaxEarly` are the caps.

*Negotiation.* A `read_buffer` of six bytes (4096 in the code) is filled by a client that
speaks two messages ahead, and is shorter than most messages, one of 22 bytes
among them; the messages of the two kinds of client cover every branch of the three parsers.
One user in one slot is enough to be there or not at each decision; several slots are the
run of `UserTable`.

*Monitor.* Two sessions for three peers meet the limit, which is 16 in the code. One slot
makes two additions meet a full table, and two names make them differ. Reads of 5 bytes cut the
longer commands; an answer has room for 258 bytes, two and a name of any length for each slot, as the
65536 of the code have. The casts are the pairs of commands
that touch each other's outcome, every command, and scripts with every branch of both parsers:
fields of length 0, a NUL in a name, a wrong version, an unknown command, commands
said ahead, before and without a credential. Peers that do not touch the table are run against one that
changes counters and log. A failure may end any session at any point.

*Sessions.* Two sessions among three structures give each end of the list as a place to
leave from, a pool of one is found full and empty, and with two descriptors a walk meets
numbers just given back. Lists of three and more, with a middle, are what the theorems cover: the
liveness property makes a third session too expensive for TLC.

*AccessLog.* Six lines go round a ring of three twice; 255-byte names with a
261-byte target do not fit in `LOG_LINE_MAX`, others do.

*Selector.* An `fd_set` of five places has the passive socket, two connections with origins, and a
sixth number that does not fit. Four reported events let one handler's effects meet three later ones.
The connections are symmetric.

*Timeouts.* Two ticks make the part of a second that `time()` drops visible. Waits of 1 s and
sweeps every 2 s keep the code's order (a wait is no longer than the interval) and let sweep and
wait fall on either side of each other; ten ticks hold two full periods behind the first
activity. The theorems hold for every value.

The only other caps are `MaxAnswer`, `MaxConns`, `MaxReported`, `MaxLines` and `MaxNow`, each named in its
module. Deadlock is checked in every run: states in which nothing is left to do stutter
explicitly (`Ended`, `Over`, `Exited`, `ClientsEnded` and their like).

### Fairness, and why the code justifies it

* `Socks5`: the loop and every worker go on (one process each, and `pselect()` has a
  timeout), `getaddrinfo()` returns because its resolver times out, and a retry in which
  `malloc()` serves every job happens if retries are made again and again
  (`SF_vars(RetryAll)`): the code relies on memory becoming free. Nothing is assumed
  of clients, origins or the sweep.
* `Relay`: `select` reports what is ready, so a handler whose event is asked for and true
  runs, and endpoints go on reading, so that `send()` accepts something in the end.
* `Negotiation`: the same, and a client that waits for its turn speaks when it has it.
  Nothing is assumed of one that speaks ahead, nor of the monitor that changes the table.
* `MngClient`: the same for sessions, and the client is a process that goes on.
  Nothing is assumed of strangers, failures or the shutdown.
* `Sessions`: `Loop` goes on (weak); the sweep is due again and again, SOCKS5 connections end
  and time makes a session stale, each if it is possible again and again (strong), since the loop's
  steps keep disabling and enabling them. Nothing is assumed of peers. The connections' end is what
  `Socks5` and the sweep provide.

### Disagreements with the documentation

With a run:

* `relay_early_data`. `relay_on_arrival()` asks for `OP_READ` only (`states/relay.c:61`),
  though `read_buffer` may hold bytes the client sent behind its request. They are written
  only after an endpoint sends something more. `doc/DESIGN.md:71-73` says pending
  bytes wait for the next event and interests follow what is left to write.
* `reused_descriptor`. `handle_iteration()` tests sets that `pselect()` filled before
  earlier handlers of the same iteration closed a descriptor and another handler got its number again
  (`utils/selector.c:471`). A new attempt to connect under such a number is looked at before it
  ended, finds `SO_ERROR` 0 (`states/request.c:504`), and the client is told that it succeeded.
  `states/relay.c:58` says `COPY` is entered with the connection established. `OnlyReuseIsPremature`
  shows that this is the only way.

Met while modelling, without a run of their own because one line of each side shows them:

* `bytes_sent` counts what is received from origins, before it is sent (`states/relay.c:88`);
  `doc/SPEC.md:241` defines it as what is sent to clients.
* A client that offers both methods to a server without users is asked for a password,
  which nobody has (`states/hello.c:77`); `hello.c:7-8` says that without users "no
  authentication" is accepted.
* The write handlers ask for `OP_READ` although bytes a client sent ahead may fill
  `read_buffer`; `states/states_common.c:11-12` says callers should not.
* `-u` may name a user twice (`socks5.c:379` clears one slot of the two);
  `doc/SPEC.md:170` says a deletion removes the user.
* A wrong version of the monitoring protocol is answered with status `0xFF`;
  `doc/informe.md:72-73` says `0x02`.
* The client puts the length of a name in a `uint8_t` (`src/src/client/client.c:269`): a longer one is
  sent short and accepted, with the rest ignored. `String` in `MngClient` does the same.
* A line longer than `LOG_LINE_MAX` is cut in memory (`access_log.c:56`) and in the file
  with it; `doc/SPEC.md:296` calls it the text of the entry and does not say so.
* `selector_register()` grows the table when a number is greater than its size, not when it is
  equal (`utils/selector.c:349`). The server's initial size of 1024 never meets the
  case, and `Selector` is checked with an initial size that does not either.
* An idle connection may live 79 s, not 70 (`doc/DECISIONS.md:83`), because the sweep is
  due at most every 10 s and a wait of 10 s may have begun just before (`server.c:186`): `IdleIsBounded`.
  It may also be closed a part of a second before the 60 s of that line, since `time()`
  counts whole seconds: `NotTooEarly` has 59 s.
* The read buffer of a monitoring session may hold bytes when `mng_cmd_read_on_arrival()` resets
  it (`monitor.c:499`): a client that sends its next command before the answer loses what was
  read of it. `doc/DESIGN.md:135-137` says the buffer is fully consumed by then.
* A signal between the tests of `shutdown_signals` and `pselect()` interrupts nothing
  (`server.c:193`): up to 10 s pass until it is seen, `ReactionIsBounded`.

## 4. What is proved

Each theorem holds for every value of the constants that satisfies the named
assumptions of the modules. Those say that null values are outside their sets, that sizes, limits
and bounds are natural numbers, positive where the code divides by them or needs one
(`Size`, `MaxAddrs`, `LOG_RECENT_MAX`, `Second`, the two intervals), that `MaxEarly`
is at most `MaxBytes`, and that a command line has at most `MaxUsers` options. Five say more:
`WholeTableAssumption`, that the first table of the selector has every place an `fd_set` has, which
the server's 1024 makes true (`server.c:145`); `NegotiationAssumption` and `CastsAssumption`, that what is said is bytes; `SizesAssumption` with
`WorldsAssumption`, that every answer fits in `MNG_WRITE_SIZE`, since `buffer_write()` drops the rest without
a word, and that each count fits in the bytes it is sent in (in the code ten names of at most 255 bytes and 100 lines of
at most 511 have to fit in 65536 bytes, and the counters have types of 8 and 4 bytes); and `OneAtATimeAssumption`, that a client of the kind that waits for each answer says
no byte behind the end of its hello or its password. It may say anything short of it, and
the other kind of client anything at all.

`Socks5_proofs` proves the four invariants of `Socks5` for any sets of connections and
descriptors (no finiteness is needed), any size of the pool and any number of
addresses. They are not inductive one by one. `IInv` is: `TypeOK`, `Ownership` (items belong to
live connections and every live connection has its descriptors registered),
the count, `Jobs` (what a job's flags and its worker's position say of each other and
of the connection's state), `Notifications` (where the announcement of each completed
job is), `Interested` (what each descriptor asks for in each state), `Replies` and
`Ending`. The chain is: the count is exact because registrations and jobs are; no event
reaches a connection being resolved because it asks for none and the sweep spares it;
so its descriptor is not reused while a notification may be queued; so
notifications find their owner; so the job is joined once, after its worker's last
need of the mutex. One lemma per handler shows that each part is kept.
The end of the module shows that every step is a step of `DnsService` or a stutter.

`Relay_proofs` proves the two invariants of `Relay` for any size of the buffers, any
number of bytes and any early bytes, from lemmas about `Stored`, `ReadAdv` and
`Contents`. `RInv` says of each direction that the sink has the first bytes, the buffer
the ones that follow, and that the end was passed on exactly when it was met and
the buffer is empty; and of the loop that a source being read has not ended. It also proves
that each direction implements `Channel`.

The beginning of `Negotiation_proofs` proves of `UserTable`, for a table of any size and any names and passwords, that the
table keeps its type, and, where the `-u` options name distinct users, that names stay distinct, that a
deletion is final and that the slots implement `UserSet`. That condition is
`DistinctOptions`, a hypothesis of the last three theorems: `-u` may repeat a name (see
above), `socks5_del_user()` then leaves the second slot, and none of the three holds. The invariant is `TableTypeOK /\ NamesAreUnique`; the lemmas say that a search
finds a slot it looked for and what an addition and a deletion leave.

`Sessions_proofs` proves the two invariants and `SweepIsComplete` for any number of structures,
sessions and descriptors, and that the first signal is graceful: the loop is not left while anybody
is served (`FirstSignalIsGraceful`, stated by `GracefulExit`). `Inv` has the pointers as what the
sequence `order` says (`ListIsSound`), the free list, count and descriptors, and `Walked`: a
walk stands at some place of the sequence, and every session before that place was judged. Removal of the
session at the walk's place moves the ones behind it one place forward, which is why
the walk may go on from the successor it kept. Lemmas about sequences say what
`Without` leaves, in what order, and that it leaves no duplicates.

`AccessLog_proofs` proves that the ring implements `RecentLog` and that the file ends with the recent
lines, for a ring of any size. The remainders of `recent_head` are replaced by one subtraction (`ModOnce`),
the ring is read as a sequence, and two cases (not full, full) show that an entry appends a
line to it and drops the first.

`Timeouts_proofs` proves the four properties for any length of a second, any intervals and
timeouts. `Inv` says when the last sweep was, at the latest, for each position of the
loop (`SweepIsDue`), what it spared and why (`Spared`), until when a signal may remain unseen (`Unheard`), and that
a result that is there has ended the wait (`Noticed`). Multiplication of seconds
into ticks is in lemmas of its own.

`Selector_proofs` proves the three properties of `Selector` for any number of connections, any
descriptors the kernel may give and any limit of an `fd_set`. `Inv` has five parts: `Table` is what
each operation of the selector leaves (the sets are what the items say, `max_fd` is the greatest
number in use); `ConnTypes`; `Holding`, that items belong to the connections that hold the descriptor;
`Phases`, what a connection holds and asks for in each state; and `Iteration`, that each event still owed
lies ahead of the loop's position in the sets it goes over. `TableIsSound` alone is not inductive, because a
handler closes what it holds and the table is only right if it holds what the items say.
`OnlyReuseIsPremature` follows from `Phases`: what was reported of a number before a
connection got it leaves its trace in `reopened`. Least and greatest numbers of sets without a bound on
their size come from the library's `WFMin`.

`Negotiation_proofs` proves the three safety properties of `Negotiation` for any size of `read_buffer`, any
clients with messages of any length, any way TCP cuts and joins them and any commands that change
the table of users in between. The properties speak of ends of messages and say nothing of a parser in the
middle of one, so they are not inductive. `Inv` says, of each place a parser may be in, what the stream
holds up to the byte it used (`HelloAt`, `AuthAt`, `AskAt`, together `Where`); what an answer
not yet sent was decided on (`Decisions`); that what was received and what waits to be sent are the
answers so far (`Answers`); that the buffer holds the bytes of the stream from the one after the last used
(`Waiting`); and whose turn it is (`Turns`). The argument has four steps:

1. The loop of the handlers is a fold. Its definition in the community modules is a `CHOOSE` of a recursive
   function on sets of positions, so its existence is proved first (`FoldExists`, by the least number
   for which there is none) and the fold is then read as a run, one byte after the other (`ParseRuns`).
2. One byte through each `_feed()` keeps what its parser knows (`HelloStep`, `AuthStep`, `AskStep`), so the loop
   does (`Parsed`).
3. What the client says later changes none of it, since positions only lie ahead (`Grown`, `WhereGrows`).
4. `recv()` and `buffer_read_adv()` keep the buffer in step with the stream (`StoredWaits`, `ReadAdvWaits`), and one lemma
   per action adds the rest.

`Monitor_proofs` proves the five invariants of `Monitor` that the run checks, for any peers and any words of
theirs, any limit of sessions, any sizes of the buffers that hold what has to fit, any size of the table, any
credentials and any worlds. `IInv` has a part for each thing that goes on in a session: `Fresh` (before it is
accepted), `Stocked` (what the buffers hold in each state), `Heard` (the parser is where the bytes used of the stream
leave it), `Sent` (answers are what the peer got and what waits), `Admits` (who is past the handshake was let in) and
`Quiet` (after the signal). Its steps are those of `Negotiation_proofs`: one byte through `auth_feed()` and `cmd_feed()`
(`AuthStep`, `CmdStep`), the fold of a whole `recv()` (`Parsed`), a stream that grows (`StreamGrows`), one lemma
per action. Three things are new:

* The parser of a timeout is `256 * t + b` and the message is `BigEndian(t, 4)`: `BigEndianGrows` says that the
  second over one byte more is what the first makes of it, by uniqueness of the recursion that shifts.
* An answer is a `FlattenSeq`, another recursion: `FlattenJoins` and `FlattenAppends` give it as a sequence that
  grows by one part, and with it the length of each answer (`AnswerFits`). An answer that is cut
  would break `AnswersArrive`.
* `OnlyAdmins` looks for the credential in the stream itself, so the bytes `auth_feed()` kept are found there again
  (`AdmittedStream`).

The same module proves `ReportIsTrue`, of client and server together. Its hypothesis `ShortNames` says that no name on
a client's command line is longer than 255 bytes, because the client sends the beginning of a longer one
(see above), so the server acts on another name; nothing is assumed of passwords, words of strangers, failures or the shutdown. `IInv`
knows nothing of what a client waits for, so it does not say that the bytes that arrive answer this command. `Clients` does, a second
invariant that TLC also checked: before the connection nothing was done (`Waiting`); until the handshake is answered
the stream is the credential and no more was used (`Greeting`); while the client waits for its answer the
stream is credential and command, and the session has either used a part of the command (`Unserved`) or executed it once and
composed that answer (`ServedBy`); and what was printed is true, or the session will never execute anything (`Reported`). Behind it are two
chains of lemmas:

* What is read is what was written. `Value` undoes `BigEndian` (`ValueOfBigEndian`: the one folds from the first byte, the other
  shifts from the last), and `Strings` undoes `Sizeds` or waits for more (`ListIsRead`), for a list of any length that fits its count.
  Both read with the fold of the community modules, taken apart as in `FoldExists`.
* What was parsed is what was sent. A message says how long it is, so two of one kind at the same place of a stream are the same
  (`SizedAgree`, `HandshakeAgrees`, `CommandAgrees`); the byte in front tells the kinds apart.

The attempt found two definitions that TLC and a prover may read differently: `Phase` and the answer to `ADD_USER` were `CASE`
expressions with guards that overlap, of which TLC takes the first. They are now written without overlap.

With both invariants the module proves the refinement to `RemoteCommands` (`CommandsAreAtomic`). Two hypotheses come to
`ShortNames`: `ShortPasswords`, since a longer one is cut like a name, and `DistinctOptions`, as for `UserTable`. The mapping
needs that no two slots have one name and that a client prints once, at its end (`Seen`, a third invariant, which TLC also checked).
The table is then a set of accounts: `AccountAdded` and `AccountDeleted` say what a command does to the set, and
`AccountsCounted` that the slots are all in use exactly when the set has `MAX_USERS` members. A step that changes nothing the
mapping shows of any peer is `Unseen`. The others are four: the turn of the server that executes a waiting client's command
(`CommandStep`: before it `Unserved`, after it `ServedBy`, so it is a `Perform` whose outcome `CommandDoes` reads off the answer),
somebody else's command (`OthersStep`), the client that prints (`Tells`: the status it reads is the one
that was written, `StatusArrives`) and the one that gives up (`GivesUp`). The attempt showed that `RemoteCommands` was too narrow:
it began without accounts, which a server started with `-u` does not implement. It now begins with one of `Starts`.

Only model-checked: every liveness property (temporal reasoning under fairness and `ENABLED` are outside
the prover's reach), and the two disagreements. Every invariant and every refinement that a run checks is proved.

## 5. Not modelled, and why

* `args.c`: runs once before anything concurrent exists; its results are `Init` of
  `UserTable` and constants elsewhere. The options of the client's command line likewise.
* `utils/parser.c`, `utils/parser_utils.c`: the server does not call them. `utils/netutils.c`
  formats addresses.
* What `main()` does before its loop: each failure there ends the process.
* Failures of `calloc()` and `realloc()` in the selector, and its report of bad descriptors.
  Failures of `malloc()` for notifications, structures and jobs are modelled.
* A system clock that is set while the server runs; time only advances in `Timeouts`.
* The encoding of the SOCKS5 reply, logging and messages to the terminal: layout. The bytes of the
  monitoring protocol are modelled on both sides.

## 6. What could come next

A composition of `Timeouts` and `Socks5` would give the length of a shutdown in seconds.
