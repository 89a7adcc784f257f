# A TLA+ verification of the cppsim server

cppsim is a poker server: WebSocket clients connect, complete a handshake that
gives them a session id, and send actions and reload requests; the server
answers, enforces limits and timeouts, and shuts down in order. The game engine
itself is still empty in the repository. What exists is an asynchronous,
multi-threaded session layer on Boost.Asio/Beast with its protocol, its
configuration and its metrics. This project models that, checks it with TLC and
proves its central properties with TLAPS.

Source paths are relative to `src/src/server/` unless they say more.

## The system

| component | state | operations | hard because |
|---|---|---|---|
| session (`websocket_session`) | state, two close flags, write queue and `writing_`, deadline timer, id, sequence number, stack | accept, read, write, deadline and close handlers on a strand; `send()` and `close()` from any thread | flags change between a handler's looks at them; the object lives as long as its last handler; one timer is cancelled and armed again |
| connection manager | map from id to session, under a mutex | register, unregister, get, `stop_all` | ids are drawn outside the lock; `stop_all` swaps the map out while sessions register and end |
| accept loop (`websocket_server`) | acceptor, backoff timer, `stopped_`, `alive_` | accept, backoff with retry, `stop` from any thread | the loop must neither die nor double; `stop` overtakes every handler |
| rate limiter, burst detector (in the session) | window of timestamps, message count | one check each per message | boundaries of the window; the configuration is read in the middle |
| runtime configuration | values, path and time under a mutex | load, reload, accessors | files are read outside the lock; two sections per load |
| metrics | atomics; tables under a mutex each | record, export, reset | an update touches several atomics or tables, one after the other |
| protocol | none | parse, validate, convert | JSON numbers, doubles and 64-bit integers do not hold the same values |
| program (`main.cpp`) | two threads, `running` | signal, export, join | the handler of the signal stops the context that would end the sessions |
| logging, sanitising, client stub | - | - | - |

A session calls the manager to register and to unregister; the manager holds a
`shared_ptr` to each session and calls `close()` on them in `stop_all()`; the
accept loop creates sessions and hands them the manager; `stop()` calls
`stop_all()`. A session reads single values of the configuration, each under its
lock, and logs errors that do not parse into the metrics. `main.cpp` runs the
`io_context` on one thread, so one handler runs at a time in production; the code
is written for more (strands, mutexes, atomics), the tests use more, and the
models allow any other thread to call the public methods at any time.

## The modules

| module | models | checked in |
|---|---|---|
| `Session` | `websocket_session.cpp`: one session and all that can touch it | `MCSession*.cfg` |
| `Lifecycle` | what a session promises: the abstract specification | refined by `Session`, kept by `Server` |
| `ConnectionManager` | `connection_manager.cpp` | `MCManagerWrap.cfg`, `MCServer.cfg` |
| `AcceptLoop` | `websocket_server.cpp` from `run()` to `stop()` | `MCServer.cfg` |
| `Server` | the last two composed, with the sessions the loop creates | `MCServer.cfg` |
| `RuntimeConfig` | `runtime_config_manager.cpp` | `MCIntake*.cfg` |
| `Intake` | the rate limiter and the burst detector, against a clock and `RuntimeConfig` | `MCIntake*.cfg` |
| `Metrics` | `session_metrics.hpp`, the errors of `metrics_collector.cpp` | `MCProgram*.cfg` |
| `Program` | `main.cpp`, on `Metrics` | `MCProgram*.cfg` |
| `Protocol` | `../common/protocol*.cpp`, `protocol.hpp`, and what the handlers do with it | `MCProtocol.cfg` |
| `*_proofs` | theorems about the module they are named after | |

`SessionLife_proofs` shows that `Session` implements `Lifecycle`; `MC*` modules
give the constants their values. A definition followed by an underscore and a
word, such as `Insert_Overwrites`, is a plausible bug in the code the definition
models; `PROJECT.json` names, for each property, the bug that it catches.

### Session

The variables are the members of the class (`state`, `close_requested`,
`close_initiated`, `writing`, `write_queue`, `last_seq`, `current_stack`; `has_id`
says whether `session_id_` is set), the asynchronous operations it has started
(`accepting`, `reads`, `posted` do_write calls, `inflight` writes, `timer`,
`close_posted`), the stream as the server sees it, how many messages were written
and not read (`unread`), whether the manager's map holds it (`registered`), whether
it still exists (`alive`), and two kinds of program counter: `pc` for the running
handler of the strand, `ext[t]` for each outside thread.

`SendBuffer` is what the transport between the server and the client holds, in
messages: a write succeeds while there is room (`WriteSucceeds`), and `PeerReads`
makes room. A write can be stuck only behind messages the client has not read.

The strand runs one handler at a time. A handler is cut into steps only where
another thread can change what it reads next: between `register_session()` and
the response (`ReceiveHandshake`, `Respond`), the response and the store of
`authenticated` (`Authenticate`), that and the guard at the end of `on_read`
(`Rearm`), the guard and the one inside `do_read` (`DoRead`), an error message
and the `close()` after it (`Reject`, `StrandClose`), and, in `do_close`, the
exchange of the state and the removal from the map (`DoClose`, `FinishClose`).
A section under `write_queue_mutex_` is one step. Handlers that are ready run in
any order; a strand is first in, first out, so the model allows more than the
code does.

`Cancelled` is what `cancel()` does to a pending wait; a wait that has completed
keeps its result, so `expires_after()` on it (`Rearmed`) leaves a success whose
deadline has moved: `"stale"`.

The inputs are the verdicts of `Intake` and `Protocol`: a message is refused
(`ReceiveRefused`: rate, burst, parse, version, id, unknown type, refused
registration) or is one of the good kinds. With `AllocFails` every allocation
failure the code catches is a possible outcome of the step in which it happens:
in `run()` (`Run`), in `on_accept` once the stream is open (`AcceptSucceeds`, which
then closes), in a handler of `on_read` up to the queued response, where the catch
of `on_read` sends an error and closes (`ReceiveHandshake`, `Respond`, `Reject`),
in `validate_session_id` (`ReceiveDropped`), in `do_write` and `on_write`, in the
copy of the id in `do_close` (`FinishClose`), in `async_close` (`ClosesStream`),
and in `close()`, whose `dispatch` may throw on the strand as on another thread:
`close()` swallows that, and leaves its flag set and nothing done (`StrandClose`,
`PostClose`). Those that terminate the process (`post` in the `noexcept`
`queue_message`) are not modelled.

### Lifecycle

`phase`, `listed`, `joined`: a session is listed at most once and only before it
is admitted, it never leaves `closed`, and once closed it is taken off the list.
`Session` implements it with `phase <- state`, `listed <- registered` and
`joined <- Joined`, where `Joined` holds from the return of `register_session()`.
`Server` keeps it for every session, with the manager's map as the list
(`LivesKept`).

### ConnectionManager

`sessions` is the map. An id is the pair of the counter's low half and the random
half, because `(id << 32) ^ rnd` keeps them apart and drops the counter's upper
half: `CounterSpan` stands for 2^32. Drawing an id, inserting it and the two
halves of `stop_all()` are separate steps; each locked section is one. `id[s]` is
what the session `s` will hand to `unregister_session()`. With `LogFails` the
insertion may throw, or the log line of any outcome; after a successful insertion
that leaves an entry without an owner.

### AcceptLoop

The handlers on the acceptor's strand and `stop()` on another thread, cut where
either looks at `stopped_`, `alive_`, the acceptor or the timer. `wait` is the
`async_wait` on the newest backoff timer; `has_timer` says whether
`backoff_timer_` still is that timer, which is what `timer_ptr == backoff_timer_`
asks.

### Server

`Server` extends `AcceptLoop` and `ConnectionManager` and joins their actions
where the code joins them: `Start` is the loop's `CreateSession`, `Handshake` the
manager's `Register`, `StopSwaps` is both the last step of `stop()` and the swap
of `stop_all()`. A session is its `state_` (`phase`) and whether its response is
queued (`greeted`); what it does in between is in `Session`. It may end at any time
(`Ends`), also between its registration and its response: `stop_all()` or its own
deadline called `close()` and `send()` refuses, or building the response threw.
Only once the response is queued is it sure to be admitted.

### RuntimeConfig and Intake

A file's content is a function from some of the fields to numbers, in tenths:
`is_number()` lets fractions pass, and `get<int64_t>()` cuts them off (`Truncated`).
`Overlay` is the whole of `load_from_json`: that, the cast to `int` of the fields in
`Narrow`, the range, the default for what is absent or out of range; `Consistent`
is the check across fields. A load parses outside the lock (`LoadReads`), commits in one
locked section (`Commit`) and writes path and time in another (`Stamp`).

`Intake` is the path of a message through `check_rate_limit_or_close()` (`Prune`
and `Admit`, as each reads the configuration under the lock anew) and
`check_suspicious_activity()` (`CheckBurst`). `admitted`, `checked`, `shortest`,
`largest`, `window` and `limit` are what an observer of the session has seen;
no action reads them. What is left of the timestamps is written by the positions
that are kept (`Kept`), which can be reasoned about; `KeptIsFilter` in `MCIntake`
compares it with the standard filter of sequences.

### Metrics and Program

Each access to an atomic and each critical section is a step: an update adds to
the sum, counts, reads the maximum and swaps it in a loop; `record_error()`
lists, counts in total and counts by type. `mixed` and `torn` remember that a
`reset()` has cut through an update or a recording; no action reads them.
`Program` adds the threads: `main` with the signal's handler and the join,
`exporter`, and further threads (`Callers`) that use the metrics as their headers
allow. One client stands for the server's sessions.

### Protocol

A message is its envelope and its payload by what the code tells apart: four
versions (ours, another minor and another major one, none), three relations of the session id to the session, four qualities of a
text, and numbers. A number is an integer, or a decimal in thousandths, so that
half cents exist. `Half` stands for 2^63: `Wrap` is what a 64-bit integer makes of
a larger one, a cast of a double that does not fit is undefined behaviour and
gives either end of the range, and rounding a tie may go either way, since the
binary value is rarely the tie. Conversions yield the set of their outcomes.

## What the runs check

| run | bounds | shows |
|---|---|---|
| `session` | 2 threads, queue of 2, transport of 2 messages, stack to 2 | every safety property of the session, with other threads in every interleaving |
| `session_alloc` | 1 thread, queue and transport of 2, failing allocations | what remains true when memory runs out |
| `session_live` | 1 thread, queue of 1, transport of 1 message | the liveness properties, and that `Session` implements `Lifecycle` with its liveness |
| `manager_ids` | 4 sessions, limit 2, counter wraps at 2, 2 random values, 2 attempts, failing generator, failing log line, `stop_all` at any time | collisions and wrap-around never mix sessions up |
| `server` | 2 connections, limit 1, backoff cap 3 | one loop that winds down; who serves a client is held; `stop()` reaches all it holds |
| `intake` | 2 loaders, 3 contents of a file that is edited meanwhile, 5 ticks of half a second, 3 messages, limits to 2 | no window above the limit, nobody refused wrongly, values of one content however loads overlap |
| `program` | the program's 2 threads and 2 more, 2 durations, 2 remembered errors, 4 calls | the metrics agree with each other, and a signal ends the program |
| `protocol` | 4-bit integers, amounts to 3, gap 3 | conversions, sequence numbers and the stack mean what the client wrote |
| `session_deadline`, `session_stuck_peer`, `burst`, `program_signal` | as above | the four divergences below |

The bounds make every interesting case happen.

- `Session`: two threads are what a race between outside callers needs (a
  `send()` against a `stop_all()`); a queue of two is empty, partly full and full,
  and so is the transport;
  amounts 1 and 2 against a stack of 2 reach and pass the cap; sequence numbers
  0, 1 and 3 with a gap of 2 give a replay, a step and a jump too far. The
  variables are finite without any bound in the guards, because a session takes
  one turn at a time.
- `ConnectionManager`: a span of 2 with 4 sessions wraps twice, the limit of 2 is
  reached and left again, both attempts can collide.
- `Server`: with two connections and a limit of one, one is admitted and one
  refused, or one after the other; `stop()` overtakes each at any step. The
  backoff cap of 3 is passed by 1, 2, 4. Ids do not repeat in this run.
- `Intake`: ticks of half a second give two messages within a second and at its
  very edge; windows of one and two seconds, limits of one and two, so a reload both
  lowers and raises each. Two threads load and reload, and between the read of one
  and its commit the file is edited and the other reads it: two different contents
  are in flight at once, which is what a mixture needs (`Commit_InTwoSections` is
  caught that way); the path plays no part in a commit, so one path is enough. One
  content names 17 connections, which a four-bit int (`IntSpan`) takes for 1, one
  writes 2.5 for a queue of 2, one is inconsistent. `MaxNow` and `MaxMessages`
  bound the clock and the messages, `BurstCount` stands for 100. The threads that
  load are symmetric. More loaders, paths and fields are covered by the proofs.
- `Metrics`: two recorded errors fill the list, a third pushes one out; with four
  calls, two updates race for the maximum around a `reset()`, and two recordings
  around an export. `MaxCalls` bounds the calls.
- `Protocol`: amounts at -1, 0, 1, the limit and one above, integers on both sides
  of 2^63 and 2^64, decimals around a half cent, around the limit, at 2^63 exactly
  and beyond; one field of a message at a time is out of the ordinary, as the
  checks are made one after the other.

### The properties

Of `Session`, safety: one write chain and a truthful `writing_` (`WriteChain`), no
message left unserved (`QueueServed`, which where memory fails exempts a session
that is closing or was asked to close), no requested close forgotten
(`CloseServed`), no deaf session (`Listens`), no session without a deadline
(`DeadlineArmed`), none closed and still listed (`ClosedLeavesMap`), no stack
announced but not held (`LastReloadIsStack`), none reopened (`ClosedIsFinal`), no
close frame ahead of queued messages (`DrainBeforeClose`). `Inductive` includes
three more that are theorems: no second read (`OneRead`), none destroyed while
live (`DestroyedIsClosing`), none admitted and not listed unless `stop_all()` is
closing it (`UnlistedIsClosing`). Liveness: a guest is admitted or dropped
(`HandshakeEnds`), a requested close is carried out (`CloseCompletes`), a closed
session is freed (`ClosedIsFreed`).

Of `ConnectionManager`: the limit (`WithinLimit`), a registered session is found
(`ListedIsFound`), every entry has an owner (`EntriesAreOwned`), and who leaves
takes only its own entry along (`LeavesOwnEntry`). Of `AcceptLoop`: `OneLoop`,
`LoopGoesOn`, `WindsDown`, and the cap of the backoff in `LoopTypeOK`.

Of `Server`, what the parts ensure only together: a session that serves a client
is held by somebody who will close it (`AdmittedIsHeld`), after `stop()` at most
the creation that was past its guard is finished (`OneLateAtMost`), all that is
in the map when `stop()` comes to it ends closed (`StopReaches`). `StopReaches` says
nothing of a session that registers after the swap.

`unregister_session()` removes by id alone. With a wrapping counter and
`stop_all()` together, a session that unregisters late, by its old id, can remove
another one that was given the same id since. 2^32 registrations would have to
pass in between, so the properties exempt the ids of sessions that `stop_all()`
took out (`Stale`); it is listed as a hazard.

Of `Intake`: wherever the window is laid, no more messages in it than the limit,
and while the configuration changes not more than the largest limit in the
shortest window in force (`RateHeld`); who is refused did send that many
(`RefusedIsOver`); the memory of a session is bounded by the limit
(`IntakeTypeOK`). Of `RuntimeConfig`: the values are those of one file with the
defaults where it is silent (`ValuesOfOneFile`), in range, with a write queue
that can hold a window's messages (`ConfigTypeOK`).

Of `Metrics`: the average is never above the maximum once updates have ended
(`AverageBelowMax`), an export lists every error it counts (`ExportedErrors`), the
counters and the list agree when nobody is recording (`CountersAgree`). Each
excepts what a `reset()` has cut through. Of `Program`: a signal ends it
(`ExitsAfterSignal`).

Of `Protocol`: an amount the server acts on is the one the client wrote, to the
cent, and within bounds (`AmountMeant`); no sound message of our version is refused
as malformed, and none is taken that breaks the policy on amounts, is of another
major version or names two versions (`RefusedIsUnsound`; it leaves open what
becomes of another minor version, see below);
sequence numbers advance by one to the gap, in true integers (`SequenceMeant`); a
reload adds what was asked for, or up to the limit (`StackMeant`).

### Fairness

`Scheduling` assumes what the `io_context` gives: a handler that runs goes on, one
that is ready gets its turn (strongly, since a strand is a queue and others run
in between only for a while), timers expire, a thread that started `close()` or
`stop_all()` finishes it, a read on a closed socket ends. It never makes the peer
do anything. `AppSpec` adds that a write ends while the transport has room for it,
or when the stream is gone: all that the code itself gives. `FairSpec` adds instead
that every write and every close handshake ends, which the code gets only from
Beast's 24 hour stream timeout; without it `CloseCompletes` is false, and
`session_stuck_peer` shows how.

`LoopFairness` assumes that ready handlers run, that waits end, that a `stop()`
that began returns, and that closing the acceptor ends its pending accept.
`ServerFairness` adds, per session, that a registration that began goes on, that
one that was asked to close does (which is what `Session` shows of it), and that
what is closed leaves the map. No peer is made to connect or to speak.

`ProgramFairness` assumes that no thread stops for ever within a call, that the
exporter's naps end, and that the `io_context` finishes a handler. The handler of
the signal needs the export lock only once it is free: the other threads'
`reset()` calls are bounded by `MaxCalls`, so they cannot keep it from the handler
for ever; a `std::mutex` promises no such order by itself.

## What the code does and a comment or document denies

1. `session_deadline`: a deadline that expired just before `on_read` moved it
   still closes the session, which by then is authenticated.
2. `session_stuck_peer`: a client that is admitted and reads nothing keeps its
   session after its deadline. The messages it was sent fill the transport, the
   next write stays in flight, the deadline's handler calls `close()`, and that
   waits for the write until the stream timeout, though `config.hpp:36-42` says
   that one is only a backstop for a broken timer chain. (The deadline in the trace
   is a handshake deadline that `on_read` raced, as in 1, because that is the
   shorter way; an idle deadline does the same.)
3. `burst`: `message_count_` is never reset, so after the first hundred messages
   of a session any two within a second close it, where the comment and the log
   line speak of a hundred within a second.
4. `program_signal`: the handler of SIGINT and SIGTERM stops the `io_context` and
   not the server, so no client gets the close frame story 2-2 asks for.

What the models show or the reading brought up, and no run is about:

- A session that completed the WebSocket handshake but not the poker handshake is
  closed without a close frame, though the comment at `websocket_session.cpp:861`
  says that branch is for WebSocket handshakes never completed. A session may be
  destroyed with its close lambda still queued, so `do_close()` never runs.
- `stop()` fits between the shutdown guard and the creation of a session;
  `OneLateAtMost` bounds what follows. A session that registers after the swap of
  `stop_all()` is held by the map and closed by nobody.
- An amount `5` is five cents and `5.0` five dollars.
- `protocol.hpp:95-97` and story 2-1 (`2-1-protocol-message-definitions.md:332-335`)
  say that minor versions are compatible and are to be allowed, and
  `is_valid_protocol_version` accepts `v1.1`; the server refuses a handshake of
  `v1.1` as `INCOMPATIBLE_VERSION`, and any other message of that version as
  malformed (`Enveloped`).
- `max_connections` is cut to `int` before its range is checked, so 2^32 + 500
  passes for 500. The values for connections, handshake timeout, backoff and
  amount are read from the file and used nowhere; the server uses its constants.
- `reload()` returns true when it was throttled. Two racing loads may leave the
  values of one file with the path of the other.
- `get_average_processing_time_ms()` reads count and sum one after the other, and
  `session_metrics::reset()` is not atomic. `record_timing()` drops a sample when
  there are more than 1000 before it adds one, and so keeps 1001.
- An exception out of `ioc.run()` would unwind past the joinable exporter.

## What is proved

Every theorem holds for every value of the constants that satisfies the named
assumptions of its module (`SessionAssumption`, `LoopAssumption`,
`ManagerAssumption`, `SameConnections`, `ConfigAssumption` and the three after it,
`IntakeAssumption`, `MetricsAssumption`, `ProgramAssumption`, `WidthAssumption`,
`MessagesAssumption`), which TLC evaluates on every run.

`Session_proofs`: type correctness and the invariant `Inductive`, for every set of
threads and every limit, and from these the theorems `...Always`,
`ClosedForEver`, `DrainedBeforeClose` and `LastReloadAlways`. The safety properties
are not inductive alone, and `Inductive` (in `Session`, checked by TLC too) adds
what they lean on:

- `Phases`: which state each stretch of a handler runs in. Without it nothing
  rules out that `Authenticate` reopens a closed session.
- `Turns`: an accept, a read, and a handler that will start a read exclude each
  other; and a guest that was given an id and not admitted is not read from
  again. Without the last, `register_session()` could be called twice.
- `PostedHasWork`: a posted `do_write()` finds something to write. Without it the
  chain on which `CloseServed` relies could end in a `do_write()` that finds
  nothing, and closes nothing.
- `LeftIsClosing`, `Served`: who took a session out of the map, who will carry out
  a requested close, and that a session in the map has its id, or is about to.

One lemma per group shows the group preserved, one step per kind of handler.
`CloseServed`, `ClosedLeavesMap`, `DrainBeforeClose` and the refinement are false
when allocations fail and are proved for `~AllocFails`. `QueueServed` allows a queue
nobody serves only with `AllocFails`, and only where the session is closing or
`close()` was called: `do_write()` lost a message and the `dispatch` of the `close()`
that follows threw too. If the session's deadline is still pending it will try the
close again; nothing else will. `SessionLife_proofs` proves
that every step of `Session` is a step of `Lifecycle` or a stutter.

`AcceptLoop_proofs`: types with the cap, `OneLoop` and `LoopGoesOn`. They need
`Stopping`: whoever ends the loop because of a flag, the acceptor or a cancelled
wait does so in a server that is stopped, and before that a wait is the one on
the timer the server has. Without it a retry could find no timer and end the loop
with nobody having called `stop()`.

`ConnectionManager_proofs`: types, `WithinLimit`, `ListedIsFound`,
`EntriesAreOwned` and `LeavesOwnEntry`, for any number of sessions and any width
of the counter. The limit needs that the map is finite; the ownership needs
`SwappedAreSettled`: only sessions whose registration is over are ever swapped
out, so the id a stopped session will hand in no longer changes.

`Server_proofs`: the composed server implements `LoopSpec` (`ServerIsLoop`) and
`MgrSpec` (`ServerIsManager`), so the theorems above hold of it by citation
(`ServerOneLoop`, `ServerWithinLimit`); and `AdmittedIsHeld` and `OneLateAtMost`,
which neither part has. `AdmittedIsHeld` needs `Lives`: who is authenticated, or
about to be, is still registered, and whose registration is under way is neither
admitted nor closed. With it every step of the server is, for each session, a step
of `Lifecycle` or a stutter (`LivesKept`, and with the initial states
`ServerImplementsLife`): a session that unregisters late and takes out another's
entry is that other's `Leave`, and the swap of `stop_all()` is everybody's. The
refinement is proved for `~LogFails`, the value in the `server` run: when the log
line after an insertion throws, the code leaves an entry that belongs to nobody,
and that is not a life `Lifecycle` describes.

`Intake_proofs`: `ConfigTypeOK` and `ValuesOfOneFile` for any number of loaders,
files, fields and contents. They need `CallsOK`: who is about to commit has read
a file that was there. `ConfigTypeOK` rests on what a cast to `int` yields being a
number and on the range check after it, not on the ranges fitting an `int`.

The limiter, for any number of messages, any clock and any reloads meanwhile:
`IntakeTypeOK`, `RateHeld` and `RefusedIsOver`. `RateHeld` speaks of all messages
ever let through, the limiter of the few it remembers, so `LimiterInductive` says
how they relate. `InOrder`: the messages were let through in the order of the
clock. `Remembers`: what the limiter remembers is the end of what was let through,
and what it has forgotten is older than the shortest window; without the second
half it could have forgotten a message that the next window still reaches.
`Decides`: before it decides it remembers only the window, without which a refusal
could count messages that are too old. The step that keeps `Remembers` is
pruning, and rests on `KeptIsSuffix`: of an ordered sequence what is not before a
bound is its end. The step that keeps `RateHeld` is admitting: the window that
ends at the new message holds only remembered messages and itself, at most the
limit; windows that end at earlier ones do not change, or shrink with `shortest`.

`Program_proofs`: `MetricsTypeOK`, `ExportedErrors`, `CountersAgree` and
`AverageBelowMax` for any finite number of threads and any cap. They need a count
of the threads half way through: `Tally` says that the total and the number of
threads about to count make up the list, and the sum by type and the threads about
to count by type the total; `ExportBehind` that what an export has counted is
listed by then. `AverageBelowMax` needs no sum over the threads: `SumBelow` says
of every bound that is above the maximum and above every time still under way that
the sum is at most that bound times the updates that were counted or are about to
be. At the end the maximum is such a bound. `SwapsUp` says that the
compare-and-swap only ever raises it.

`Protocol_proofs`: `ProtocolTypeOK`, `AmountMeant`, `RefusedIsUnsound`,
`SequenceMeant` and `StackMeant` for every width, limit and set of messages. The
argument is that of `BoundedIsMeant`: what wrapped or did not fit lands outside
the bounds, because twice the largest amount is below 2^63 (`WidthAssumption`);
the same makes the sum of stack and amount fit (`SumFits`). For `RefusedIsUnsound`
it is the other way round: a sound amount is read on whichever path it takes and
stays in bounds however its half cents fall (`SoundIsRead`), so each of the checks
that could refuse the message passes.

Model-checked and not proved: the liveness properties (`HandshakeEnds`,
`CloseCompletes`, `ClosedIsFreed`, `WindsDown`, `StopReaches`, `ExitsAfterSignal`)
and the fairness half of `ImplementsLifecycle`, which are out of the prover's
reach. Every invariant and every action property of the passing runs is a theorem.

## What is not modelled

- Data races inside library objects, such as `acceptor_.close()` in `stop()`
  against `async_accept` on the strand.
- Gauges, timings and events of the metrics: each is written, exported and
  cleared in one section, and nothing relates it to another table. The plain
  counters of `session_metrics` are single atomic additions.
- The two flags of the configuration, its export and its accessors, which only
  read.
- Serialisers, the validators of strings that the server never calls, logging and
  sanitising, the bind and listen errors of the server's constructor, the client
  stub: pure output, or over before anything runs.
- A server that fails to initialise: `main()` then idles until a signal, with
  nothing to serve.

## Plan

Done: `Session`, `Lifecycle`, `ConnectionManager`, `AcceptLoop`, `Server`,
`RuntimeConfig`, `Intake`, `Metrics`, `Program`, `Protocol`, and the proofs above.

Next, in this order:

1. `Server` with the whole of `Session` in the place of `phase` and `greeted`, for
   the sessions the loop creates: a refinement from `Server` to each `Session`'s
   view of the manager.
2. The samples of the timings and their percentiles as functions, against a
   reference definition.
