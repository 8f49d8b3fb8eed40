# mod_socket_handoff in TLA+

Models, model checks and proofs for the handoff of a client connection from
Apache to a streaming daemon: `mod_socket_handoff.c` and the daemons under
`examples/`. Paths below are relative to `src/`.

## The system

A PHP script (or any handler) authenticates a request, sets the response
header `X-Socket-Handoff: /run/daemon.sock` and exits. The Apache module sees
the header in an output filter, connects to the daemon's Unix socket, and sends
the client's socket with `SCM_RIGHTS` in one `SOCK_SEQPACKET` message. From
there on the daemon answers the client; Apache swaps a dummy socket into the
connection, marks it aborted and frees its worker. Everything that can go wrong
comes from one fact: for a moment two processes have the same client socket, and
afterwards only one of them knows of the client.

### Inventory

| Part | State | Operations | Hard behaviour | What makes it correct |
|---|---|---|---|---|
| Output filter (`mod_socket_handoff.c` 695-932) | place of the worker, filter chain, socket in the connection config, `c->aborted` | insert filter, pass through, refuse, connect, send, commit, error response, connection end | many workers; the daemon answers before Apache has committed; every error exit | one owner per client, never a write or `shutdown()` by Apache after the send, no leaked descriptor, an answer or a handoff for every request |
| Connect, retry, deadline (144-554) | attempt, clock, deadline, poll timeout | compute deadline, attempt, back off, send, EINTR restart | one deadline over attempts, backoffs and send | the send keeps its timeout; the configured retries fit; the worker gets out |
| Module configuration (72-139, 934-1126) | values, `_set` flags, prefix caches per server | defaults, directives, merge, `post_config` | any order of directives; inheritance | values in range; own setting, else the main server's |
| Path validation (592-685) | prefix caches | lexical check, symlink check | the file system changes | accepted paths lie under the prefix |
| Unix socket (kernel) | listener, backlog, queued message, open ends | connect, sendmsg, accept, recvmsg, close | a close discards what was queued | - (external) |
| Go daemon core (`examples/streaming-daemon-go/streaming_daemon.go`) | main's place, signal and drain contexts, semaphore, counter, one goroutine per connection | accept, limit, reject, receive, parse, stream, fail, panic, close, drain, exit | SIGTERM at any point, panics, client disconnects, crash and restart | one well-formed response per client, slots given back once, graceful exit, shutdown ends |
| Socket path at startup and exit (Go, io_uring, fdrecv) | path, probe result | lstat, probe, remove, bind, listen, cleanup, final remove | two daemons at once, refused starts | a serving daemon is reachable; a stale path stops no start; only stale sockets are removed |
| Go daemon: gauges | counters and exported gauges | start, end of stream | atomic add and `Set` are two steps | gauges agree with counters at rest |
| Go daemon: staged files | files in `data_dir` | resolve, discard, sweep | failures between the steps | every staged file is removed in the end |
| Go daemon: config and SIGHUP reload | config values | load, reload | reload while serving | only reloadable values change |
| Go backends (`backends/`) | upstream request, SSE parser | mock, OpenAI, LangGraph, typing | timeouts, partial reads, cancellation | every stream ends with `[DONE]` or an error |
| io_uring daemon (`streaming-daemon-uring/`): event loop | connection slots, free list, submission queue, operations in flight | accept, receive, stream, write with a linked timeout, drain, clean up | stale completions after a slot is reused, a full queue, short and failed writes | no completion acts on another connection; a slot is freed once; the response is in order; shutdown ends |
| io_uring daemon: thread pool | work queue, workers, completion ring, eventfd | submit, take, return, add, signal, read | workers and loop in any order, a full ring | the ring is a queue, no wake-up is lost, one driver per connection |
| io_uring daemon: curl_multi mode | transfers, write buffers, dirty list, writes in flight | start, callbacks, reap, flush, write, cancel | data appended under a write, buffers at their limit, transfers that end around the last write | positions in bounds, stream conserved, completed means written |
| io_uring daemon: libcurl's events | polls and timers, asked for and armed | socket and timer callbacks, completions | reused descriptors, late timer completions | the kernel polls what libcurl waits for; the next timeout is armed |
| io_uring daemon: the rest | configuration, blocking backend, JSON, metrics | - | - | - |
| Rust daemon (`streaming-daemon-rs/`) | permits, tasks, shutdown signal | listen, handoff, stream, shutdown | cancellation at any await | as for the Go daemon |
| fdrecv, PHP and Python daemons | children, coroutines | accept, receive, handle | as above, on other runtimes | the contract of `HandoffFilter` |
| Mock API, benchmarks, test runner | - | - | - | tools around the system |

The parts interact through the Unix socket and the client's socket only: Apache
and the daemon share no other state, and the daemon never talks back to Apache.

## Modules

| Module | Models | Composed of |
|---|---|---|
| `UnixSocket` | the kernel's side of the handoff (external): one listener, one connection and one message per request | |
| `HandoffOwnership` | abstract specification: who may answer a client and who has | |
| `HandoffFilter` | the output filter in any number of workers, against any daemon that keeps the contract | `UnixSocket`; implements `HandoffOwnership` |
| `ConnectRetry` | the timed part of one handoff, in milliseconds | |
| `ServerConfig` | the module's configuration from the first directive to the requests, the prefix caches and the check of a socket path against a file system that changes | |
| `GoDaemon` | the Go daemon's main, accept loop and connection goroutines | `UnixSocket` |
| `HandoffSystem` | module and Go daemon together | `HandoffFilter`, `GoDaemon` |
| `UringDaemon` | the io_uring daemon's event loop, slots, submission queue and thread pool | implements `BoundedFifo` |
| `BoundedFifo` | abstract specification: a queue of bounded length | |
| `WriteBuffer` | the write buffer of `write_buffer.c` as operators | |
| `UringCurl` | the io_uring daemon in curl_multi mode | `WriteBuffer` |
| `CurlEvents` | libcurl's sockets and timer as polls and timeouts of the kernel | |
| `SocketPath` | how processes of the three compiled daemons come to own the socket path and let go of it | |
| `StreamGauges` | the counters of active streams and their peak, and the gauges set from them | |
| `*Proofs` | theorems on the module they are named after; `HandoffFilterProofs` has those on `HandoffSystem` too, `UringCurlProofs` those on `CurlEvents` | |
| `MC*` | constants, symmetry and bounds for TLC | |

Definitions named "Faulty variant" stand before the definition they are a
mistake in. No specification uses them; each shows that a property notices a
plausible bug.

### HandoffFilter

`wpc[r]` is where the worker of request `r` is. The filter is cut at the steps a
daemon can see: connect, send, close. `kind[r]` says what the request asks for:
nothing ("plain"), a handoff over HTTP/2, a path that `validate_socket_path`
refuses (which it does is in `ServerConfig`), or a handoff to act on. The handler's output is a number of brigades
(`left`), because the filter runs once per brigade and removes itself after the
first. `FilterRefuse` is every early `goto cleanup`; `ConnectFail` every way
`connect_with_retry` gives up; `ErrorResponse` and `Commit` are the two halves
after the `cleanup` label. The branch for `fd_was_sent` on a failed send
(822-838) is dead: `send_fd_with_data` sets the flag only before it returns 0.
`Teardown` is external: httpd's end of the connection, where lingering close shuts
down the socket in the core config unless the connection is aborted.

The daemon of this module is the contract in the README's list "The daemon
must": it listens or not, accepts, receives, writes to descriptors it holds,
closes, and may exit at any moment. Time is left out: any wait can end either way.

### ConnectRetry

Every `poll()` and `nanosleep()` ends after any number of milliseconds up to
its timeout. Whatever else makes the clock run is the action `Delay`, summed up
in `late`; time in polls that `EINTR` restarted is in `intr`; `lag` is the part
of both since the worker last read the clock. This separates what the arithmetic
of the deadline guarantees from what scheduling can add to it. The shift
`1 << i` is a constant function `Shl`, assumed to start at 1 and to double.

### ServerConfig

`conf` is the configuration of the main server and of each virtual host, `given`
a history of what the file has said. Arguments that `strtol` or the range check
refuses end the start (`SetFails`). `Merge` is external: Apache applies
`merge_server_config` to every virtual host that has a directive of the module of
its own, and lets the others share the main server's configuration.

The prefixes are the names in the file; those that `apr_filepath_merge` refuses, as
relative ones, are in `BadPrefixes`. `leads` is the part of the file system that
matters to the prefixes: the directory that each leads to, links followed, or none.
`post_config` finds any such file system and caches for every server the prefix as a
name (`resolved`) and the directory it leads to (`truename`), which stays empty if
there is none. From then on `Relink` (external) makes, moves and removes
directories and links. `led` remembers where each prefix has led since the start.
`validate_socket_path` is given any path: one that begins with some prefix, below it
or only beside it, with or without a file there, which may be a link into another
directory. What was not cached it resolves by itself at each request. What APR does
is taken from the flags and the comments at its calls (634-650, 1094-1121). Prefixes
are not nested, and a file is in the directory of its prefix or of its link:
subdirectories add nothing to a comparison of beginnings that ends at a slash.

### GoDaemon

`mainPc` follows `main()`: serving, listener closed, accept loop waited for,
`connWg.Wait`, drain cancelled, cleanup, down. `acceptPc` follows the accept
loop, with the connection in its hands in `acur`; the two looks at the context
are separate steps, as a signal may arrive between them. `gpc[r]` follows the
goroutine of a connection, in `rejectHandoff` or `handleConnection`. `answer[r]`
is the sequence of parts sent to the client: a whole error response ("status"),
the SSE headers, an error event, the end of the stream. A backend is what the
handler sees of it: a first write, an end, an error of a kind, or a panic. It may end
well after [DONE] or without it (`StreamEnd`; langgraph passes on what the upstream
sends), and also before it has written anything (`StreamEndsEmpty`): `proxySSE`
returns nil on an upstream 200 with an empty body (langgraph.go 529-531), the headers
wait in `lazyHeaderConn` for a first write, and the connection is closed. `end[r]`
records the way a goroutine ended. A write that fails is a write of which the client saw some or nothing; the model
records it as made. `Kill` is a crash, a SIGKILL, or a second SIGTERM after
`stop()`; `Start` may follow. In `rejectHandoff` the connection from Apache is
closed at the very end instead of after the receive: Apache has nothing left to
send by then, so the model closes it at the receive in both. The slot and
`activeConns` are released in two steps, in the order of the deferred function.
On its own the module has a peer in Apache's place that connects, sends once and
closes (`PeerConnect`, `PeerSend`, `PeerClose`); it closes without having sent
only while the daemon has the connection queued or accepted, when that can matter.

### HandoffSystem

The workers of `HandoffFilter` and the steps of `GoDaemon` on one set of
variables. Its property `KeepsContract` is the specification of
`HandoffFilter`: what is checked and proved about the filter with any daemon
holds with this one.

### UringDaemon

`slot[s]` is a connection structure, `free` the free list in its order, `queued`
and `ops` the operations on slots in the submission queue and in the kernel. An
operation carries what the code packs into `user_data`, the operation and the
slot, and besides the client and part it was given, which the code does not
have: `OwnCompletion` compares the two. A completion and its handler are one
action, enabled by the same test of the slot's state as in `process_cqe`.
Submission is a separate action, and any number of completions may be handled
before it, so that the queue fills: `Flush` is `ring_get_sqe_flush`, and
`SubmitWrite` has the write and its linked timeout, which takes a second entry and
does not flush. If only one is left, the connection is cleaned up while its write
stays queued; there the model stops (`loop = "overrun"`), because what the kernel
then writes from freed memory to a closed or reused descriptor is not a behaviour
to specify. A multishot accept may end with any completion, and its resubmission
is lost if the queue is full (`acceptOp = "lost"`).

With `usePool` a received connection goes through `work`, a worker and the ring;
the worker's result, its entry in the ring and its write to the eventfd are three
steps, and so are the beginning, the rounds and the end of `handle_eventfd`.
`worker[w].at` is "call" in `backend_process`, "add" in `pool_add_completion`
up to the entry, "signal" up to the write. In "STREAMED" the backend has written
the response to the client itself.

### WriteBuffer, UringCurl

`WriteBuffer` has the four numbers of `write_buffer_t` that decide anything:
capacity, head, tail and whether a write is pending; an append that grows, an
append that compacts, and a refusal that has compacted all the same are the
branches of `write_buffer_append`. Sizes are in units, the units of `UringCurl`.
Where `realloc` is called (`NeedsMemory`) it may fail, which refuses the append
(`MayRefuse`), and it may move the memory, under a write in flight too
(`MovesUnderWrite`). `UringCurl` keeps in `moved` the slots whose write reads memory
that was released in this way, until its completion; no other step depends on it, as
what the kernel then sends is not a behaviour to specify.

`UringCurl` numbers a connection's stream: unit 1 is the response headers, then
the messages, then [DONE]. A write is `from` where the stream stands and `len` what
the buffer holds. A completion that calls libcurl is three steps: `loop = "curl"`,
in which libcurl calls back for any running transfer and ends any
(`FirstData`, `Message`, `MessageRefused`, `TransferEnds`), "check"
(`curl_manager_check_completions`), and the flush. `curl_manager_start_request`
calls libcurl as well, with no check after it ("start"). Cancelling a transfer
is part of `Cleanup`.

### CurlEvents

`file[fd]` tells the sockets apart that had the same number; `wants` is what
libcurl asked for last, `sockets` what the manager recorded, `polls` what the
kernel has. Entries of the submission queue are executed in order by `Kernel`,
which looks the number up at that moment, as `io_uring_prep_cancel_fd` does. Timers
are named by `timer_id`; a fired and a removed timer both give a completion, and
`handle_curl_timeout` treats them alike.

### SocketPath

Every system call of `main()` on the path is a step: lstat, probe, remove, bind,
listen, and at the end the unlink and close of `listener.Close()` and the last
`os.Remove`. The io_uring daemon takes the same steps in `server.c`, after a setup
that may fail, and every end of it, a refused start included, goes through
`daemon_cleanup`, which unlinks the path; it keeps listening until it has drained.
fdrecv removes the path without a look and again at exit. `ListenFails` is a
`listen()` that fails after the bind: Go leaves the file, the io_uring daemon removes
it at once, fdrecv in its cleanup. `path` names the process whose `bind()` made the socket that is
there; a probe succeeds if that process listens. `Kill` can come between any two
steps, `Start` at any time. The code is written for processes that follow one
another, as a service manager starts them, and `overlap` tells such histories
from others; within them a crash at any step must not stop the next start. A
path that is not a socket ends the start at once and is left out; `chmod` and
the umask change no variable of the model.

### StreamGauges

One goroutine per stream takes the atomic operations of `handleConnection` one
by one: add, set the gauge, load and swap the peak, set its gauge, stream,
subtract, set the gauge. `current[s]` is the result of the goroutine's own last
add, which is what it publishes. With `benchmarkMode` the same actions are
`BenchmarkStats.streamStart` and `streamEnd`, which have no gauges and keep
totals. `highest` is a history variable.

## Runs

| Run | Instance | What it shows |
|---|---|---|
| `connect_retry` | 2 retries, timeouts 3 and 4 ms, 2 ms of delay, 1 signal | `SendBudget`, `NoSpuriousExpiry`, `DeadlineHolds`, `Terminates` |
| `handoff_filter` | 2 requests, backlog 1, 1 retry, 2 brigades | `NoSplitOwnership`, `HandedOffNotShut`, `NoDescriptorLeak`, `AnsweredOrHandedOff`, refinement of `HandoffOwnership`, `WorkerFreed` |
| `handoff_filter_body` | 1 request, 2 brigades | violated: a body behind the error page |
| `go_daemon` | 2 connections, 1 slot, backlog 2, restarts | `OneResponse`, `SlotsReturned`, `ReceivedIsAnswered`, `GracefulExit`, `ShutdownEnds` |
| `handoff_system` | 2 requests, 1 slot, no retries, 1 brigade | `ClientAnswered`, `KeepsContract` |
| `server_config` | main server and 1 virtual host, 2 directives, 3 prefixes, 2 directories | `ServedInRange`, `Inherits`, `PrefixHolds` |
| `socket_path` | a Go, an io_uring and an fdrecv daemon, any number of starts and kills | `ServingReachable`, `NoFalseRefusal` |
| `socket_path_refused` | 2 io_uring daemons | violated: a refused start removes the path |
| `uring_daemon` | 3 connections, 2 slots, 1 worker, 1 message, 3 queue entries | `SlotsConserved`, `OwnCompletion`, `OneDriver`, `ResponseInOrder`, `CompletionsAnnounced`, `RingIsFifo` (refinement of `BoundedFifo`), `ReceivedIsReleased`, `ShutdownEnds` |
| `uring_curl` | 2 connections, 2 slots, 2 units of messages, buffers of 1 to 2 units | `BuffersInBounds`, `WritesInOrder`, `DataMoves`, `StreamConserved`, `CompletedIsFlushed`, `ReceivedIsReleased` |
| `curl_events` | 2 descriptors, 2 masks, 3 sockets, 3 timers | `PollsFollowWants`, `TimerFollowsWants` |
| `stream_gauges` | 3 streams, with and without benchmark mode | `PeakIsHighest`, `AtRestNothingActive` |

Each module has one type invariant, `TypeOK`. It is proved for `ConnectRetry`,
`HandoffFilter`, `GoDaemon`, `ServerConfig`, `SocketPath` and `StreamGauges`; for
the others it is a conjunct of `SlotsConserved` (`UringDaemon`), `DataMoves`
(`UringCurl`) and `PollsFollowWants` (`CurlEvents`, where it is `EventsTypeOK`),
which are proved. Properties that are proved for
every instance and that another one of the same run comes near are not run as well:
`StreamsHaveSlots` and `NoLateStart` of `GoDaemon`, `GaugesNotAhead` and
`PeakNeverFalls` of `StreamGauges`.

Some properties name what the code is known to lose, so that they say that nothing
else is lost; a change that brings the loss about in another place breaks them, a
repair does not. `ReceivedIsAnswered` compares the parts sent to a client with the way
its goroutine ended (`FateOf`): only a receive that failed, a descriptor that could
not be wrapped, an upstream's reset and an upstream that ends well without a byte may
leave it without a word, and a stream that fails or panics must say so.
`ClientAnswered` says the same of the whole system: Apache or the daemon answers, never
both, and nobody only by one of the six ways in `Losses`, which add a listener closed
on the descriptor and a killed process. `PrefixHolds` has two halves: an accepted
path is below the server's own prefix by its name, and by its directory within where
that prefix has led since the start; and while a prefix has led to one place only,
every file there is accepted. The cache can thus be stale, but only for a prefix that is
led elsewhere under a running server, and never into another server's.

### The bounds

*Requests.* Workers do not share state but through the backlog and, in the
daemon, the slots; two requests with one place of each are enough for one to be
in the other's way. *Retries.* The loop treats every attempt alike; one or two
show the first, a middle and the last. *Brigades.* Two: the one that runs the
filter and one after it. *Timeouts.* A few milliseconds next to the fixed
backoffs of 10 and 20 ms let each term of the deadline be the one that matters;
the theorems cover the real ranges. *Directives.* Two are enough to set one
value or the prefix in both servers in either order, or to overwrite it; of three
prefixes one is refused by APR, and with two directories a prefix can be led from one
to the other. *Daemons.* A step
depends on the path and on one other process at most, the one that made the
socket there; one of each program pairs them all. *Slots and queue.* Three
connections on two slots: one is refused or reuses a slot while the other is busy.
Three queue entries hold a write, its timeout and one more, so that the queue is
full with and without room for a pair. One message shows the step from headers to
message and from message to [DONE]. *Write buffers.* A limit of twice the default
size: appends fit, grow, compact and are refused at it. *Descriptors and timers.*
A third socket takes a number used before; a third timer is set while completions
of two earlier ones are out. *Streams.* Three: one that swaps, one that fails to,
and one that raises the peak in between. *HandoffSystem* leaves out (state
constraint `HandoffsOnly`) requests that never reach the daemon and clients that
disconnect, both of which the runs of the parts include.

### Fairness

`ConnectRetry` and `HandoffFilter` assume weak fairness of each worker: it is a
thread of a running Apache, and every call it blocks in has a timeout. Nothing
is assumed of the daemon. `GoDaemon` assumes weak fairness of main and of the
accept loop, which wait on timers and on each other only; nothing is assumed of
the connections' goroutines, so `ShutdownEnds` holds even if no backend ever
returns. `UringDaemon` assumes it of the loop, which waits with a timeout, of the
workers, whose backend calls have timeouts of their own, of the shutdown timer,
and of every write that is linked with a timeout: it ends, whole or with an
error. Nothing is assumed of receives and accepts. `UringCurl` assumes the same of
the loop; of writes and of running transfers it assumes strong fairness, as they
end by timeouts of their own (`write_timeout_ms`, `CURLOPT_TIMEOUT`) but their
completions are handled only while the loop waits or inside libcurl. All other
properties need no fairness.

## What the violated runs say

Each quotes what the repository says and shows that the code does otherwise.

1. `BodyDiscarded`: after an error the filter is removed; brigades that the
   handler passes afterwards are not discarded.
2. `RefusedLeavesPath`: `server_close_listener` unlinks the path of every start
   that fails, also of one that found another daemon listening there.

More disagreements and limits follow from the models and have no run of their own.

Apache module:

- Both `poll()` loops of the module (202-204, 409-411) restart after `EINTR` with
  the full timeout, so signals stretch the wait past the "overall deadline" of
  line 160, by the `intr` in `DeadlineHolds`.
- `create_server_config` gives each virtual host the prefix `/run/` (97), so that
  `merge_server_config` (116) never takes the main server's: a
  `SocketHandoffAllowedPrefix` at server level, as in `apache/socket_handoff.conf:14`,
  has no effect inside a virtual host. `Inherits` is about the settings with a
  `_set` flag, which the prefix has not.

Go daemon:

- `listener.Close()` (896) discards the backlog with the descriptors in it; only what
  was accepted before gets a 503. Its README (line 388) says "handoffs already
  queued get a 503".
- `classifyError` (1851-1854) takes any `ECONNRESET` or `EPIPE` for the client's, also
  the upstream's, and the client is told nothing; the README (line 26) promises a
  502 or an error event. `FateOf` has it as "reset".
- An upstream 200 with an empty body ends the stream without an error and without a
  write (langgraph.go 529-531): no headers are sent, `streamToClientWithBytes` writes
  nothing for a nil error, and the client's connection is closed without a word. The
  comment on `lazyHeaderConn` (streaming_daemon.go 348-352) says that the headers are
  deferred so that the daemon can still answer "instead of an empty" 200 "that just
  closes"; here it closes without even that. `FateOf` has it
  as "empty": without that case `ReceivedIsAnswered` and `ClientAnswered` fail.
- `os.Remove` of a stale socket (streaming_daemon.go 735-737) takes whatever is at
  the path by then. If two daemons start at once it can be a socket that has
  begun to listen since the probe: without `~overlap`, `ServingReachable` fails.
- The atomic add of `activeStreams` and the `Set` of its result (1166-1167,
  1194-1195) are two steps, so the older of two counts can be published last and
  `daemon_active_streams` stays above zero with no stream left.
- In the same way `daemon_peak_streams` (1174-1175) can be left below the peak that
  `peakStreams` holds. `GaugesNotAhead` is what does hold of the gauges.

io_uring daemon, event loop and pool:

- When the submission queue has one entry left, `ring_submit_write` takes it and
  `ring_submit_linked_timeout` fails (ring.c 112); the connection is freed with its
  write still queued, linked to whatever entry comes next.
- The same full queue loses the multishot accept for good (daemon.c 361-370): the
  three retries submit nothing in between.
- `handoff_timeout_ms` is parsed and never used; a peer that connects and stays
  silent holds its slot until it closes or the daemon ends.
- The completion ring holds `max_connections - 1` entries. With
  `max_connections` 1 a worker waits for ever.
- During a drain the eventfd is read at most once more (919): later completions are
  not handled, their clients wait for the shutdown timeout, and if they fill the
  ring `pool_cleanup` waits for a worker that waits for room (`JoinHangs`). The drain
  also keeps accepting, so new connections can prolong it up to the timeout.
- A short write of headers or [DONE] drops the client; the delay between messages
  is a `nanosleep` in the loop and stops all connections; a handoff larger than the
  first buffer is truncated unnoticed, as `conn_grow_handoff_buf` is never called.

io_uring daemon, curl_multi mode:

- A request that ends with nothing to write (an error before the first byte, an
  empty 200, an error in the middle with the buffer drained) leaves its connection
  in CLOSING for ever (curl_manager.c 745): the slot is lost and the client not told.
  `Leaked` names the state. A transfer that ends inside
  `curl_manager_start_request` is looked at with libcurl's next event only.
- A stream that failed in the middle is counted as completed, without [DONE].
- An append under a write may move the memory with `realloc` (write_buffer.c 79), and
  the kernel goes on reading what was released. The comment at 65 keeps from compacting
  because the pointer is in use, and write_buffer.h 79 says that it "is valid until the
  buffer is compacted or freed". The model has the move, and no property claims that
  there is none: `moved = {}` as an invariant of the run `uring_curl` fails after
  four steps (accept, receive, the response's first data, which starts the headers' write,
  and a message that does not fit while it is in flight). `WritesInOrder`,
  `BuffersInBounds` and `StreamConserved` are about positions in the stream and in the
  buffer and hold whatever the address.
- A refusal at the limit compares the head, not the data pending, while a write is
  in flight: a buffer can refuse with less than its maximum in it.
- `start_async_write` may free the connection on a full queue;
  `flush_streaming_connections` reads its write buffer afterwards (668).
- A poll cancellation is looked up when it is submitted (ring.c 182). If libcurl
  closes the socket first, the old poll stays in the kernel and holds the connection
  open; a multishot poll that the kernel ends is not added again.

## Proofs

TLAPS checks every obligation. The constants are arbitrary within the named
assumptions of each module.

**ConnectRetryProofs** (assumes the ranges of the directives, and of `Shl` that
it starts at 1 and doubles; that it is monotone and at most 1024 are lemmas). The properties are not inductive: they
speak of what is left, so the invariant has to bound what was spent. `IInv` says
that at attempt *a* the planned time so far is at most *a* connect timeouts plus
the first *a* backoffs, whose sum is `10 * (Shl[a] - 1)`; what the clock shows
beyond it is in `late + intr`. The sum at `MaxRetries` is exactly the total that
`compute_handoff_deadline` takes, which gives `SendBudget` and
`NoSpuriousExpiry`. `DeadlineHolds` adds that the wait in progress ends by the
deadline but for `lag`.

**HandoffFilterProofs** (assumes `MaxRetries` a natural number, `MaxBrigades`
positive; any set of requests, any backlog). `IInv` is, per request: before the
send the filter's client has heard nothing from Apache as long as the filter is
on its way to a handoff (`FilterSilent`); a descriptor at the daemon, or a word
of it, means that the worker is past the send (`DaemonAfterCommit`); a message
is sent once (`MessageOnce`); where Apache's descriptors can be
(`DescriptorPlaces`); a request that was not handed off still has an answer to
come or has had it (`WillAnswer`). From it follow the four safety invariants and
`FilterImplementsOwnership`, with one step per action of the worker and the
daemon.

The second half of the module is about `HandoffSystem` (assumes what `HandoffFilter`
and `GoDaemon` do of their constants, and nothing of what TLC's constraint leaves
out). `SystemInv` is the type of the Go daemon's variables; `ListenInv` and
`AcceptInv`, when the listener is open and whose connection the accept loop has;
and per request `ConnectInv`, which ties the goroutine to the connection that the
worker made, so that there is one handoff per request; `PlaceInv`, that the daemon
has the client's descriptor exactly while the goroutine is in one of the places that
hold it; and `FateInv`, that a client has been answered or its connection ended in
one of the named ways once nobody has it. With it every step of the Go daemon is
seen to be a step of the daemon that `HandoffFilter` assumes, or to change nothing
that module has (`SystemKeepsContractHolds`). All that is proved about the filter
therefore holds with the Go daemon: `SystemImplementsOwnership` is the composition of
the two refinements, and `SystemClientAnswered` joins `AnsweredOrHandedOff` on
Apache's side with `FateInv` on the daemon's.

**ServerConfigProofs** (assumes distinct servers and a valid default prefix).
`IInv`: while the file is read, a value is the last one given or the default;
given values are in range; after the merge `Inherits`. `ServedInRange` follows,
and is what the assumption of `ConnectRetry` on the directives' ranges rests on.
`PrefixInv` says the same of the prefix, which has no flag: each server's is the one
that the file means for it, before and after the merge. `CacheInv` says what a cache
is worth while the file system changes: the name is the prefix's own; a cached directory
is one that the prefix has led to, though it need not be the one it leads to now.
`PrefixHolds` follows by two lemmas: `AcceptedIsWithin`, in which the directory
compared with is the cached one or, if there was none, the present one, and both are in
`led`; and `WithinIsAccepted`, in which a set of at most one directory that has the
cached and the present one in it makes them the same.

**GoDaemonProofs** (assumes what `GoDaemon` does of its constants; any number of
connections). `IInv` is `TypeInv`; `PlaceInv`, what the place of a goroutine says
of its connection, its descriptor and its slot; `AnswerInv`, the shape of the
client's answer at each place and for each way to end, from which `OneResponse` and
`ReceivedIsAnswered` follow; `AcceptInv`, which has the connection in the accept loop's hands belong to
no goroutine yet and the loop ended before main waits, and gives `NoLateStart` and
`GracefulExit`; and `SlotInv`, that the counter is the number of goroutines with a
slot or about to decrement, and that these sets are finite. `SlotInv` is kept by
adding or removing one element at each step that takes or gives back a slot, and
is untouched by all others, which a lemma of its own says once.

**UringDaemonProofs** (any number of connections, slots, workers, messages and
queue entries). The question is whether anything that comes late - a completion, a
result of a worker, an entry of the ring - can meet a slot that has been given to
another connection meanwhile, and whether any connection is left without something
that will bring it forward. `SlotInv`, `FreeInv` and `PeerInv` say which structures
are in use and for whom, and that the free list, the counter and the states agree.
`OpInv` says that an operation on the connection in its slot is the only one, fits
its state and its part, and excludes the pool; an operation on a former one exists
after an overrun only. `PoolInv` says that a connection is in the work queue, at
a worker or on the ring once, in the state that belongs to it, and that what is on
the ring has been announced. `DrivenInv` is the other half of `OneDriver`: a
structure in use has an operation or is with the pool. The loop's steps all take
one connection from one driver to the next, or to the free list, which lemmas say
once (`StepOps`, `StepDriven`, `SubmitWriteKeeps`); there is one lemma per action
above them. `SpecRingIsFifo` maps the ring to a sequence: adding an entry appends
it, reading one takes the head, and all other steps leave the sequence as it is,
which rests on two lemmas about the indices as they wrap.

**UringCurlProofs** (any number of connections and slots, any sizes that keep the
module's assumptions). Whether a late completion can meet a reused slot is a
question about the free list and what is in flight. `IInv` is `SlotInv`, which
says of each connection what its state, transfer, buffer and stream have to do with
each other; `FreeInv` (the free list has only unused slots, each once); `RecvInv`
and `WriteInv` (an operation in flight is of the connection in its slot, is the
only one, agrees with `write_pending`, and lies within the buffer's data); and
`LoopInv`. Lemmas say of `Accepts`, `Appended`, `Refused` and `Consumed` what they do to a
`WellFormed` buffer, and one more that `moved` is in no part of the invariant but its
type; others say of the ways in which a slot changes that they keep
`IInv`, and each action is one of these. `SpecDataMoves` adds `DirtyInv` to it:
the dirty list has no connection twice and none without a response; one with data in its
buffer is on it, and has a write in flight in every round but the one in which
[DONE] was appended and the flush is still to come. It needs lemmas on what adding to the
list and taking off it do to it.

The last part of the module is about `CurlEvents` (any numbers, masks, sockets and
timers; the empty mask is none of the others). The module names its specification
`EventsSpec` to be used beside `UringCurl`. A submission hands the kernel a queue
of any length, and what comes of it is a recursive function of its entries:
`RunExists` shows by induction that there is one, and `RunQuiet` what a queue of
nothing but cancellations and removals leaves (`Quieted`). A queue that waits is
always such a queue (`QueueInv`: socket_callback and timer_callback submit what
they add at once), so each submission is a quiet one, or a quiet one and one entry
that adds. `PollInv` is the heart of `EventsInv`: an open socket whose number is
not in a cancellation that waits has the poll it wants, or has been left without by
the kernel; and a number in such a cancellation is one that libcurl waits for
nothing from. It has to speak of numbers, because the cancellation does, and of
sockets, because the polls do: `FileInv` joins the two. `TimerFollowsWants` is
inductive beside it, as removals wait only while libcurl has no timer.

**StreamGaugesProofs** (any finite set of streams). `CountInv` says that each
counter is the number of streams at the places between its steps, by a lemma on what
one move does to such a number. `PeakInv` says that no count that was taken exceeds
`highest`, that a goroutine at its swap has loaded a value below its own, and that
`highest` is in the peak or a goroutine still in the loop has it: this is what makes
`PeakIsHighest` inductive. `GaugesNotAhead` and `PeakNeverFalls` follow too.

**SocketPathProofs** (any set of daemons of each program). While there is no overlap at most one
daemon is not down (`OneUp`), and only it can listen (`ListenPlaces`); whatever
an earlier one left at the path is therefore seen as stale, and from `bind` on
the path is the daemon's own (`PathKnown`). `ServingReachable` and
`NoFalseRefusal` follow.

*Only model-checked:* the liveness properties (liveness under fairness is out of
the prover's reach here) and the violated properties.

## Not modelled, and the plan

In this order:

1. `StagedFiles`: `resolveImages`, `resolveAttachments`, `discardStagedFiles`
   and the sweeper, with failures between them.
2. Go backends: the OpenAI SSE loop, the LangGraph run with its thread
   creation and cancellation, the typing wrapper; each refines the backend that
   `GoDaemon` assumes.
3. `fdrecv`'s children and the Rust daemon, as refinements of the contract in
   `HandoffFilter`. fdrecv's children inherit its listener and Apache's connection,
   so the contract first needs descriptors that several processes hold: a listener
   that stays open after its owner has closed it.
4. The configurations of the daemons, with the Go daemon's reload, and the order in
   which httpd ends a request's and a connection's pools.

Left out for good: log messages and formatting; metrics other than the gauges;
the io_uring daemon's JSON scanner and its blocking backend, whose outcome
`UringDaemon` has;
the mock LLM API, benchmarks and test runner, which are tools around the system;
the pprof and metrics HTTP servers; TLS and the HTTP parsing that httpd does
before the filter. The PHP and Python daemons keep the same contract on other
runtimes and come after the compiled ones.
