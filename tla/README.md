# Narcissus, specified

TLA+ modules, TLC runs and TLAPS proofs for Narcissus, a C++ web server for Linux
(epoll, a thread pool, pooled MySQL connections, timers, a synchronous or asynchronous
log). Paths below are relative to the repository; its code is in `src/src/`.

- [1. The system](#1-the-system): its components, their state, who calls whom
- [2. What is modelled](#2-what-is-modelled): modules, and how they correspond to the code
- [3. What is checked](#3-what-is-checked): properties, runs, bounds, fairness
- [4. What is proved](#4-what-is-proved): theorems and their argument
- [5. What the code does that its comments do not say](#5-disagreements)
- [6. What is not modelled, and what is left](#6-not-modelled)

## 1. The system

| component | source | state | operations |
|---|---|---|---|
| event loop (main thread) | `webserver.cpp` | `users[fd]`, `users_timer[fd]`, the `events` batch, locals `timeout`, `stop_server` | `eventLoop`, `dealclinetdata`, `timer`, `deal_timer`, `adjust_timer`, `dealwithread`, `dealwithwrite`, `dealwithsignal` |
| thread pool | `threadpool/threadpool.h` | `m_workqueue` under `m_queuelocker`, semaphore `m_queuestat`, detached threads | `append`, `append_p` (unused), `run` |
| HTTP connection | `http/http_conn.{h,cpp}` | one object per descriptor: `improv`, `timer_flag`, `m_state`, read and write buffers and indices, parser state, `m_iv`; static `m_user_count`, `m_epollfd` | `init` (two), `read_once`, `process` (`process_read`, `process_write`), `write`, `close_conn` |
| connection pool | `mysql/sql_connection_pool.{h,cpp}` | `connList` and two counters under `m_lock`, semaphore `reserve` | `init`, `GetConnection`, `ReleaseConnection`, `DestroyPool`, `connectionRAII` |
| blocking queue | `lock/block_queue.h`, `lock/locker.h` | ring buffer `m_array`, `m_size`, `m_front`, `m_back` under `m_locker`, `m_cond` | `push`, `pop` (two), `front`, `back`, `full`, `empty`, `size`, `clear` |
| log | `log/log.{h,cpp}` | `m_fp`, `m_buf`, `m_count`, `m_today` under `m_mutex`, `m_log_queue` | `init`, `write_log`, `flush`, the flush thread `async_write_log` |
| timer heap (default) | `timer/heap/heap_timer.{h,cpp}` | `heap_`, `ref_` (position of each client's timer) | `add_timer`, `adjust_timer`, `del_timer`, `doWork`, `tick`, `pop_timer`, `GetNextTick` |
| timer set | `timer/set/set_timer.{h,cpp}` | `timer_set` | `add_timer`, `adjust_timer`, `del_timer`, `tick` |
| signals and utilities | `timer/Utils.{h,cpp}` | the self-pipe `u_pipefd`, `alarm()` | `sig_handler`, `timer_handler`, `cb_func`, `show_error`, `addsig` |
| configuration, start-up | `config.cpp`, `main.cpp` | options | read once |

How they interact:

* The event loop is the only thread that calls `epoll_wait`, `accept` and the timers. A
  client descriptor is registered with `EPOLLONESHOT`: once reported it stays disabled
  until somebody calls `modfd`.
* For a readable or writable connection the loop stores `m_state`, queues the
  `http_conn`, posts the semaphore and then *busy-waits on `users[fd].improv`*. A worker
  does the `recv` or `send`, stores `improv = 1`, and then either stores `timer_flag = 1`
  (close it) or goes on, in parallel with the loop, to process the request and re-arm the
  descriptor. None of these fields is locked or atomic. `CMakeLists.txt` sets no build
  type, so the loop really re-reads `improv` from memory every time round.
* `deal_timer` closes a connection: epoll, descriptor, `m_user_count` and timer. It runs
  on a hang-up event or on a `timer_flag`.
* Signals come through a socket pair as ordinary events. `SIGTERM` ends the loop and
  `main`, while the detached workers run on until the process is gone.
* A worker takes a database connection around `process()` through `connectionRAII`.
* Every thread logs; in asynchronous mode a log line goes through the blocking queue to
  the flush thread.

What is hard: the unlocked hand-over between loop and workers, the reuse of
descriptor-indexed objects, the re-arming of one-shot descriptors on every path, the
agreement of five records of the same connection, the two-step locking of the connection
pool, and the locking of the queue under the log. `PROJECT.json` lists each hazard at its
line with the properties that watch it.

What makes each component correct:

* *hand-over*: every queued request is done once and its end seen once; the loop is
  always released; an order to close is seen and not seen twice;
* *ownership*: one thread at a time handles a connection, and every open connection will
  be handled again; its buffers hold its own bytes;
* *books*: epoll set, open descriptors, timers and `m_user_count` agree;
* *connection pool*: one user per connection, none lost, no pop of an empty list,
  requests refused only when all are in use, waiters served;
* *blocking queue and log*: first in first out, no line lost, logging always returns;
* *timers*: `ref_` is the inverse of `heap_`, no node is smaller than its parent, every
  connection is watched by its own timer and closed by it only when it is due;
* *parser and sender*: the answer does not depend on how the bytes of the request were
  cut nor on what the object was used for before; the client gets all of it, once and in
  order; files are unmapped; nobody waits for ever.

## 2. What is modelled

| module | models | kind |
|---|---|---|
| `Epoll` | the kernel as the code uses it: listen queue, sockets, epoll registration, clients; and `addfd`, `modfd`, `cb_func` on it | state and actions |
| `HttpConn` | `http_conn` as far as the hand-over depends on it | operations on the state of `Epoll` and its own |
| `WebServer` | event loop, thread pool, signals; the specification | `Init`, `Next`, `Spec`, `FairSpec` |
| `MCWebServer` | the instance for TLC | |
| `WebServerProofs` | theorems about `WebServer` | |
| `ConnectionPool` | what the connection pool promises its callers | abstract specification |
| `SqlConnectionPool` | `sql_connection_pool` and `connectionRAII`; implements `ConnectionPool` | `Init`, `Next`, `Spec`, `FairSpec` |
| `MCSqlConnectionPool`, `SqlPoolProofs` | the instance for TLC; the theorems | |
| `BoundedQueue` | what a blocking queue promises | abstract specification |
| `BlockQueue` | `block_queue` and the `cond` under it; implements `BoundedQueue` | `Init`, `Next`, `Spec` |
| `MCBlockQueue`, `BlockQueueProofs` | the instance for TLC; the theorems | |
| `Log` | the log in both modes, its queue an instance of `BlockQueue` | `Init`, `Next`, `Spec`, `FairSpec` |
| `MCLog`, `LogProofs`, `LogFileProofs` | the instance for TLC; the theorems, those on how full files get in a module of their own | |
| `HttpText` | bytes, C strings, `acl_url_decode`; the requests a client sends | constants and functions |
| `HttpRead` | the reading half of `http_conn`: read buffer, `parse_line`, `process_read` and the functions it calls | state, operations and actions |
| `HttpWrite` | its writing half: `process_write`, the iovecs of `write()`, `unmap` | state and operations |
| `HttpExchange` | one `http_conn` and the clients it serves one after another; `read_once`, `do_request`, `process`, `write`, `init` | `Init`, `Next`, `Spec` |
| `MCHttpExchange`, `HttpProofs`, `HttpTextProofs` | the instance for TLC; the theorems; what the functions over text compute | |
| `TimerQueue` | what a container of timers promises the server | abstract specification |
| `HeapTimer` | `heap_timer`: `heap_`, `ref_`, the sifts | state and actions |
| `ServerTimers` | the event loop's use of `heap_timer` and `set_timer`; implements `TimerQueue` | `Init`, `Next`, `Spec` |
| `MCServerTimers`, `TimerProofs` | the instance for TLC; the theorems | |

### The server

`WebServer` EXTENDS `HttpConn` EXTENDS `Epoll`: the three share one state. A step is one
access to state that two threads share: a critical section of `m_queuelocker`, a
semaphore operation, a load or store of `improv` or `timer_flag`, a system call.

The event loop (`mpc`, `cur`, `events`):

| action | code |
|---|---|
| `EpollWait` | `epoll_wait`: the whole batch, any subset of the sockets having room to send; what is reported is disabled |
| `AcceptFails`, `AcceptBusy`, `AcceptConn` | `dealclinetdata` with a level-triggered listening socket: no descriptor left; `MAX_FD` users, so `show_error`; `timer()` |
| `DealHup` | `deal_timer` on `EPOLLRDHUP`, `EPOLLHUP`, `EPOLLERR` |
| `DealIO` | `dealwithread`, `dealwithwrite` up to `append`, whose failure they ignore |
| `Post` | `m_queuestat.post()` at the end of `append` |
| `Spin`, `CheckFlag`, `ClearImprov` | the busy-wait: `improv` seen; `timer_flag` looked at, `deal_timer` and the flag cleared; `improv` cleared |
| `DealSignal`, `EndBatch` | `dealwithsignal`; `timer_handler` and the loop condition |

A worker (`wpc[w]`, `job[w]`), `threadpool::run`:

| action | code |
|---|---|
| `SemWait`, `PopFront` | `m_queuestat.wait()`; the queue under its lock, `continue` when empty |
| `RunRead`, `RunWrite` | `read_once()`; `write()` in its four outcomes |
| `SetImprov`, `SetTimerFlag` | the two stores, in the order of the code |
| `RunProcess`, `Rearm` | `process()` and the `modfd` that ends it |

The environment: `Clients` (connect, send, hang up), `AlarmFires`, `Terminate`.

What is abstracted. Data is counted in pieces, and a buffer is the set of connections
whose bytes are in it, which is all the properties ask of it: the read buffer's index
`m_read_idx` is kept (with the `-1` the level-triggered read adds to it), what the
parser makes of the bytes is a choice. `process()` is a step followed by its `modfd`: it
touches only the connection's own object, and `SingleOwner` is the reason this is enough.
Both trigger modes for connections are covered: `m_trig_mode` is chosen at the start. The
batch is a set, so every order of its events is explored. `missed` is a history variable:
the descriptors for which the loop once read `timer_flag` while a worker was about to
store it (see 5.). After that the code promises nothing for the descriptor, and the
properties that would fail say so by exempting it; they hold for all others.

The log is synchronous, as in `config.json` (`log_write: false`), and never blocks for
good, so it does not appear here. The timers are those of the default mode, reduced to the set of descriptors that
have one; what the containers do with them is in `ServerTimers`.

### The connection pool

`SqlConnectionPool` has one step for the unlocked `connList.empty()`, one for
`reserve.wait()`, one for each critical section of `m_lock`, one for `reserve.post()`.
`DestroyPool` may run at any time when `Exits` is TRUE: `main` returns while workers are
still running and the pool is a static object. `pop_front()` on an empty list, which is
undefined, frees the sentinel node of libstdc++'s list: the process aborts (`PopEmpty`,
`aborted`).

`ConnectionPool` knows nothing of lists, locks or counters. A thread asks, is granted a
connection nobody uses, or is refused, the latter only if every open connection is in
use; closing the pool closes what is not in use. The mapping is: asking is being before
the lock, refused is holding `nullptr`, `has` is `conRAII`, open is not closed. Giving
the permit back after the connection is a stutter.

### The blocking queue and the log

A method of `block_queue` locks, works and unlocks: one step of `BlockQueue`, which needs
`m_locker` free. The exception is `pop` of an empty queue: `cond::wait` locks the mutex
again before it waits, a default mutex blocks its own holder, and nothing ever gets as far
as `pthread_cond_wait`. So `PopHangs` leaves `m_locker` with the thread for ever, and the
broadcasts of `push` wake nobody. `PopTimed` is the `pop` with a timeout, which hangs
likewise or ends without unlocking and without a `return`; `Front` reads the slot last
popped (or slot -1, any value). Neither is called by the log.

`BoundedQueue` has a sequence instead of the ring. The mapping is `Contents`, the slots
from the one after `m_front`, as many as `m_size`. What `front()` and `back()` copy out
(`value`) is not in it: `BackIsNewest` is about `back()`, and `front()` does not do what
its comment says. Both keep each thread's last answer with the method that gave it (`ok`),
so that a wrong answer of `full()` cannot pass for a right one of `empty()`.

`Log` has one step for each critical section of `m_mutex`, which therefore needs no
variable of its own, and of the queue:

| action | code |
|---|---|
| `ReadClock` | `write_log` up to its first lock: the date is read here |
| `Count` | the first section, in its three cases: another day, another part, neither |
| `Choose` | the second section, which formats in `m_buf` and copies, and `full()` |
| `Push`, `WriteItself` | `push()`, its answer ignored; or `fputs` |
| `Flush` | `flush()`, which the `LOG_` macros call next |
| `TakeLine`, `WriteTaken` | the flush thread |
| `Midnight` | the clock |

A file is a day and a part, its name's two variables; `disk` is what was written to files,
`buffer` the stdio buffer of the open one. The text of a line is left out, a line is its
writer and its number. `m_is_async` is chosen at the start. stdio may write its buffer
earlier than `fflush`; the properties do not depend on it.

### A connection's requests and responses

`HttpExchange` EXTENDS `HttpRead`, `HttpWrite` and `HttpText`; the three share one state,
that of an `http_conn`. `SingleOwner` of `WebServer` is the reason one process is enough
for it. `pc` is what happens next:

| `pc` | action | code |
|---|---|---|
| `closed` | `Accept` | `init(sockfd, ...)` for the next client |
| `in` | `ReadOnce`, `CloseHup` | `read_once()` in both trigger modes; the event loop's hang-up branch |
| `parse` | `ParseOn`, `ParseBad`, `ParseDone`, `ParseWaits` | a turn of `process_read`'s loop, by how it ends |
| `request` | `SignIn`, `SignInOverruns`, `GetFile` | `do_request()`; the second when the name or the password does not fit its array |
| `respond` | `Respond` | `process_write()` and the `modfd` for `EPOLLOUT` |
| `out` | `WriteReady`, `CloseHup` | the event loop |
| `write` | `Writev`, `WriteAgain`, `WriteError`, `WriteDone` | `write()`: a `writev` that takes some or all; `EAGAIN`; an error; everything sent |

`aborted` is the process killed by `SignInOverruns`.

Three things the code does at the edge of its buffers are in the model. Of an escape that the
end of the string cuts short `acl_url_decode` keeps the `%` only. `parse_content` stores a
NUL behind the body (`Terminator`); when the body ends with the buffer, that place is the
low byte of `m_read_idx`, the member that follows (`IndexLeft`). `do_request` copies name
and password into arrays of `NAME_LEN` bytes, without a look at their size: when one does
not fit (`Overrun`), what happens is undefined, and the model has the process killed or either
answer given.

What is abstracted. A byte the code looks at on its own (CR, LF, space, `%`, `&`, `/`, NUL,
and what `acl_url_decode` decodes) is its code. A word the code compares as a whole is one
number, so that a request is about 20 numbers, and it can be cut between any two of them:
inside the CR LF of a line, a header, an escape, the body. In the write buffer an element
is one `add_response` call, with a field and a value; `writev` counts elements. Response
bodies are identified by their status. `out` is a history variable: for each thing sent,
which place of the write buffer or the file it came from, so that bytes left out, sent
twice or sent from before the file can be told apart. The histories `torn`, `headCuts`,
`abandoned` and `lost` record cases of section 5, where the code loses its way. The
properties name the case they exempt and hold in all others.

`DocRoot` is what `stat`, `open` and `mmap` find, `Users` the table `initmysql_result`
reads. Files do not change while they are served.

### The timers

`HeapTimer` has one action for each turn of the loops of `shift_up_` and `shift_down_`, with
the loops' locals (`idx`, `i`, `n`), and `call` says to which operation they belong.
`operator<` of `util_timer` compares expiry times, but the heap and the set hold pointers
and compare those, so a timer is its address here. Addresses are given out in any order,
each once, because no timer is ever deleted. At the root `shift_up_` reads the word before
the vector; it is the allocator's size of the block, smaller than any address, and ends
the loop (`UpStops`).

`ServerTimers` adds `WebServer::timer`, `adjust_timer`, `deal_timer` and `timer_handler`, and
`set_timer`, chosen by `m_timer_mode`. The clock is free: any timer of the set may become
due at any time, since `high_resolution_clock` is the system's clock, which can be
set. `tick` closes one connection per step and erases the element its loop stands on: its
next step finds the next element, or the process crashes (`ticking`).

`TimerQueue` knows no order and no places: a connection is watched by the timer it was
given until it is closed, and the container closes a connection on its own only when its
timer is due. The mapping is `Watched`: what `ref_` and `heap_`, or the set, say of the
descriptor, at every turn of the loops, also between the swap and the erasing of `del_`.

## 3. What is checked

| run | question | instance |
|---|---|---|
| `webserver_safety` | the invariants below, in every interleaving | 2 workers, 2 descriptors, 3 clients, 2 pieces of data; symmetric in workers and descriptors; 432 000 states |
| `webserver_live` | nobody waits for ever; are the books balanced when clients are turned away? | 2 workers, 2 descriptors, 2 clients, 1 piece of data each, SIGALRM and SIGTERM at any moment, `MAX_FD` 1; 100 000 states |
| `webserver_flag` | is an order to close always seen? No | 2 workers, 2 descriptors, 2 clients |
| `webserver_idle` | are idle connections closed? No | 1 worker, 1 descriptor, 1 client |
| `sql_pool` | the pool's invariants, its promise, and progress of waiters | 4 threads, 3 connections, pool destroyed at any time; 25 000 states |
| `sql_pool_null` | does a caller always get a connection? No | 2 threads, 1 connection |
| `queue` | the ring's invariant and its promise | 2 threads, 2 items, 3 slots; symmetric; 325 000 states |
| `log` | where every line is and how full files get, in both modes | 2 writers, 5 lines, files of 2 lines, a queue of 1, 2 days; symmetric; 2.1 million states |
| `http_exchange` | the answer to every request, however it and the response are cut | 12 requests (files, an empty one, a private one, a directory, none, a bad method, a bare LF, four logins, one of them sent unescaped, with `passwd=` and ending in an escape cut short), 2 clients, 2 requests, 2 cuts, a buffer one login fills, arrays one password does not fit in, both trigger modes; 868 000 states |
| `timers` | heap, set and their promise | 6 descriptors and timers (4 in the set), 2 closed for another reason; 1.04 million states |
| `log_hang` | does a thread that logs get out of it? No | the same with 4 lines |
| `log_day` | does the log never return to an earlier day's file? No | the same with 4 lines |

Properties of the server, in `WebServer`:

| property | says |
|---|---|
| `TypeOK` | types; the semaphore's count is a natural number |
| `OneJobAtATime` | at most one request is queued or in a `recv`/`send`, only while the loop waits for it, signalled exactly once: `append` never drops one, no worker wakes for nothing |
| `NoStaleImprov` | `improv` is set for nobody but the connection waited for |
| `EventsFresh` | an event's descriptor is still open when its turn comes |
| `BooksBalance` | timers = open descriptors = epoll set, `m_user_count` is their number |
| `SingleOwner` | a connection being processed is not armed, not in the batch, in nobody else's hands |
| `NoOrphan` | every open descriptor will be looked at again |
| `OwnBytes` | buffers hold only bytes of the descriptor's present client |
| `NoStaleFlag` | `timer_flag` does not outlive its hand-over |
| `HandoverEnds` | the busy-wait ends |
| `DepartedReaped` | a client that hung up gives its descriptor back |
| `AlarmGoesOn` | the alarm is set again and again |

Properties of the pool, in `SqlConnectionPool`: `PermitsMatch` (permits and list agree, but
for those in transit), `PopIsSafe` (nobody pops an empty list while the pool stands),
`OneUser`, `CountersTrue`, `KeepsPromise` (refinement of `ConnectionPool`),
`WaitersServed`.

Properties of the queue, in `BlockQueue`: `TypeOK`, `Inv` (the ends and the size agree, and
what lies between was pushed), `KeepsPromise`, `BackIsNewest`. Properties of the log, in
`Log`:

| property | says |
|---|---|
| `TypeOK` | types, also of the queue |
| `OncePerLine` | a line that was handed on is in exactly one place (a file, the buffer, the queue, the flush thread's hands) or was refused by `push`; no other line is anywhere |
| `OnDiskOnReturn` | in synchronous mode a line is in a file when `LOG_INFO` returns, even if the file was changed between `fputs` and `flush` |
| `FilesSplit` | a file gets `m_split_lines` lines and at most one for each other writer, in asynchronous mode also what queue and flush thread held |
| `HangsEmpty` | only a flush thread that found the queue empty keeps its mutex |

Properties of a connection, in `HttpExchange`:

| property | says |
|---|---|
| `TypeOK` | types; what was read fits the buffer, the parser stays inside it; no iovec gets a negative length |
| `IndexIsTrue` | `m_read_idx` is the number of bytes read, whatever is stored behind the body |
| `AnswersRequest` | what is sent is the answer to the request that was read, whatever its cuts and whatever the object did before; not said of an empty file (`EmptyFile`) and of a name or password that overruns its array (`Overruns`) |
| `NothingWaits` | the parser does not wait for bytes of a request it has got all of |
| `SentInOrder` | the client has the first bytes of the response without a gap, the iovecs describe the rest |
| `MapsBalance` | a file is mapped only while its response is under way, no mapping is lost, each is unmapped with its own length |
| `Answered` | a client that has sent its request gets its answer |

The answer is `Answer(r)`, what the code makes of a request that arrives whole. Two logins are
read by it otherwise than its comments say (section 5): a name or password that ends,
sent as it is, in what looks like an escape cut short counts without its last character
(`Decoded`), and a password sent as `passwd=` counts without its first two (`Copied`).

Properties of the timers, in `ServerTimers`: `TypeOK` (places are within the vector),
`WatchesOpen` (between operations `ref_` finds each connection's own timer, and nothing
else is kept), `HeapOrder`, `KeepsPromise` (refinement of `TimerQueue`).

Each property has a mutant in the module, a definition named after the one it changes
(`SpinOnce` for `Spin`): the change a plausible bug would be, which breaks the property
under the run's own bounds.

*Bounds.* `MaxConns` and `MaxSends` bound the clients, `Signals` the signals delivered,
`Fds`, `Workers`, `m_max_requests` and `MAX_FD` the server. Three clients over two
descriptors are the least with a descriptor reused while the other is in the same batch;
two workers the least with one processing while another does the next job; one more
request than `m_max_requests = 1` would already be dropped. `READ_BUFFER_SIZE = 2` lets a
buffer be empty, partly filled and full. `webserver_live` sets `MAX_FD` below the
descriptors so that clients are turned away. In `sql_pool` four threads exceed three
connections, so that threads are refused, wait and are served. In `queue` three slots let
the ring be turned, full and empty at every position. In `log` a file's limit in
synchronous mode is three lines (two of its own, one of the other writer), and five are
logged; in asynchronous mode queue and flush thread may add one line each, and that limit is
all five lines of the run, so there `FilesSplit` cannot fail in it: `FilesAreSplit` (section 4) has
that half. It is about the first day: `log_day` is why it can say nothing of later ones.
In `http_exchange` two requests and two clients are the least with an object used
again by the same client and by the next one; two cuts are the least with a request cut
inside its header and its body, or a response cut twice inside the write buffer, which is
where `headCuts` begins to matter. A buffer of 24 is filled to the last byte by one login, to
the last but one by another, and less by the rest; a byte of 8 values makes 24 a size whose
low byte is zero, as 2048 is. `NAME_LEN` 4 is exceeded, with the NUL, by one password of four
letters and by nothing else that is copied. In `timers` six nodes are three levels, so that
`del_` swaps in a node that has to go up, and one that has to go down; two closings by the
server leave both, and the set adds those of `tick`. The proofs of section 4 have none of
these bounds, except that they keep the CONSTANTS' assumptions.

*Fairness.* `FairSpec` of `WebServer` is weak fairness of the main thread, of each
worker, and of the alarm clock: the operating system schedules every runnable thread, and
every wait in them is a semaphore, `epoll_wait` or a spin that weak fairness is enough
for. Clients and the operator have none. In `SqlConnectionPool` a thread that is inside
the pool or uses a connection goes on (`process()` is straight-line code and the
destructor runs), but nobody need ask. Waiting on the semaphore is not assumed fair
between waiters, as glibc's is not: `WaitersServed` says that permits come again and
again while someone waits, not that a given thread gets one.

In `HttpExchange` the server's steps are weakly fair, as `HandoverEnds` and the epoll loop
give every armed connection its turn, and a client that stays goes on reading; no client
need send, stay or be quick.

In `Log` a thread that has begun a line goes on, and so does the flush thread; nobody need
log. `LoggingReturns` fails under this fairness.

Deadlock is not checked in the server's runs (`SIGTERM` stops the loop, and the clients
may have nothing more to do), nor in `http_exchange` (the bounds end, and `writev` of
nothing loops), nor in `timers` (`tick` may crash), nor in `sql_pool` (the process may abort), nor in `queue` and
`log` (a hung queue and a bound on the lines end everything).

## 4. What is proved

By TLAPS, for every number of descriptors, workers, connections and pieces of data, every
capacity of the queue and every `MAX_FD`; assumed are only the named ASSUMEs: the sets of
descriptors and threads are finite (`EpollAssumption`, `PoolAssumption`), capacities are
natural numbers, the queue holds at least one request (the constructor throws otherwise),
`NoFd` is not a descriptor, a file of the log holds at least one line (`LogAssumption`), and
requests are ones a client may say (`HttpExchangeAssumption`: `IsRequest`, a method and a
path of words without NUL, space or line end, a path from the root, a name and a password of
any bytes but NUL, without `&`, line ends and complete escapes when they are sent
unescaped; a password sent as `passwd=` is unescaped and has at least two characters), and the
read buffer's size is a multiple of the values a byte can have
(`HttpReadAssumption`; it is 2048).

`WebServerProofs`:

* `TypeCorrect`, then three invariants, each using those before it:
* `Handover`. `OneJobAtATime` is not inductive: it does not say what a worker that is
  woken will find, nor why an `improv` of 0 means that the job is still under way. So the
  place of the one request is spelled out: queued and not signalled (`Queued`), signalled
  (`Posted`), a worker woken for it (`Woken`), a worker in its `recv` or `send`
  (`Running`), or done (`Finished`), and which of these goes with each place of the loop.
  From it follow `OneJob` and `ImprovIsFresh`.
* `Books`: the records agree, there is one event per descriptor in the batch, and none
  about the descriptor being dealt with, so closing that one makes no event stale
  (`BooksAreBalanced`, `EventsAreFresh`). The counter is a `Cardinality`, which grows and
  shrinks with the set of timers by the finite-set theorems.
* `Ownership`, of every descriptor not in `missed`: which of the batch, a processing
  worker, a flagging worker or the running job owns it, and that `timer_flag` is set or
  about to be only under the hand-over it belongs to (`OwnerIsSingle`,
  `NothingOrphaned`, `BytesAreOwn`, `FlagIsFresh`).
* `InvIsInvariant` is the conjunction: `Inv` is inductive.

`SqlPoolProofs`: `Inv` is inductive (`PoolInvIsInvariant`). Its core is `PermitsMatch`,
`reserve + |at the lock| + |about to post| = Len(connList)`: a thread at the lock makes
the sum positive, so the list is not empty (`NeverPopsEmpty`), although the thread looked
at it long before and without the lock. `OneUser` and `NoneLost` follow every connection
from list to user and back (`UserIsSingle`), `CountersAreTrue` the counters.
`PoolKeepsPromise` is the refinement: initial states map to initial states, each step to
a step of `ConnectionPool` or a stutter.

`BlockQueueProofs`: `Inv` is inductive for every capacity (`QueueInvIsInvariant`). `RingOK`
says where the newest item is as seen from the oldest; that slots of different age differ
(`SlotsDiffer`) needs `m_size <= m_max_size`, and then `push` fills a slot that is not in
use and appends (`PushAppends`), `pop` takes the head (`PopTakesHead`). From these,
`QueueKeepsPromise` and `BackReturnsNewest`. The only facts about remainders are those of
numbers below twice the capacity (`Wrap`).

`TimerProofs`, for any number of descriptors and timers: `Invariance` is the inductive
invariant. `RefInverse` says that `ref_` is the inverse of `heap_` at every turn of the
loops (and that the last node is the one being deleted), `Owned` that each open connection
has one timer, its own. `HeapOrder` is not inductive: during a sift one node is out of
order. `HeapShape` says which: while sifting down, the children of `i`, and `i` itself
before its first step; while sifting up, `i`; and in both cases the children of `i` are in
order with its parent (`Bridged`), which is what makes a swap repair one place without
breaking the next. `adjust_timer` changes no address, so its sift stops at once, which is
why it may do without `shift_up_`. From it `TypeCorrect`, `HeapOrdered`, `EachWatched`; and
`Implements`: each turn is a step of `TimerQueue` or a stutter.

`HttpProofs`, for every set of requests, document root, user table, buffer size and every
way requests and responses are cut. Three inductive invariants:

* `Invariance`, of the writing half, from which `InOrder` and `MapsAreBalanced`. `Cut` says
  what the iovecs are: nothing sent, and they describe the whole response; one cut inside
  the write buffer, and the first has lost what was sent, because the running total was
  still that of one call; or the buffer done, and the second starts where the file was left
  off. A second cut in the buffer is where it stops being true, and `headCuts < 2` is exactly
  that. `Fresh` and `Pending` say that `init()` and `process_write` start from there.
* `TypeInvariance`: `TypeOK` alone is not kept. A line must start before the place it is
  looked at from, or `parse_line` would cut a piece off backwards; and the iovecs together
  must not be longer than what is left to send, or a `writev` would make a length negative.
  From it `TypeCorrect`: `m_read_idx` never passes `READ_BUFFER_SIZE` and the parser's
  indices never pass `m_read_idx`. One store does leave the buffer, the NUL behind a body
  that fills it. `ContentStores` shows that it changes nothing: the body is complete, so the
  place is at most the one behind the buffer, and then `m_read_idx` is `READ_BUFFER_SIZE`,
  whose low byte is zero. From that `IndexStaysTrue`.
* `Reading`, from which `RequestsAreAnswered` and `NobodyWaits`. Neither property is
  inductive: both are about a request that has been read, and say nothing while it comes.
  `ReadingInv` says, for *every* request `r` of which the bytes read so far may be the
  beginning (`Meant`), where the parser stands in `r` and what it has taken from it
  (`Treated`). While it reads (`ParseAt`) it is in the request line (`AtRequestLine`), in the
  header whose number it is (`AtHeader`) or in the body (`AtContent`), and the bytes from the
  line it is in are as they came (`SameBytes`): those before have been overwritten with NULs.
  Then `Requested`: path, method, `m_linger` and body are those of `r`; and `Planned` and the
  last part of `Treated`: the response is laid out as `Answer(r)`, unless `r` is `EmptyFile`
  or `Overruns`. Nothing is claimed of the answers to those, but that they leave the object
  as it should be for the next request. Several requests may share
  what has been read; that they agree so far is why one parser state can suit them all, and
  it does until the byte where they part. That a request that has been read is the one the
  client is sending, and not the beginning of a longer one, is `PrefixFree`: no
  request's bytes begin another's. `Stream` says that read, on the wire and still to be sent
  make up the client's request, so that what is read is the beginning of one (`Meaning`).

`HttpTextProofs`: what the functions over text compute, for texts of any length. The library's
induction theorems take an operator, so induction is over *sets* of numbers here
(`SetInduction`, from the well-foundedness of `<`): a set with 0 and with `n + 1` for each of
its `n` holds every number, and the set of the `n` for which a recursive function does what
it should is an ordinary set. From it what `acl_url_decode` and the client's encoding do
byte by byte, and `DecodedEncoded`: decoding undoes the encoding. No encoding ends in an
escape cut short; what becomes of one is `DecodedPlain`, about the strings a client may send
unescaped: they decode to themselves, or lose their last character. Both are about the
function; whether its argument fitted `do_request`'s array is `Overrun`. The lines of a request lie
one behind the other, and a search for a byte (`FirstOf`) ends where the line does.

`LogProofs`, for any number of writers, lines and files. `ReturnedIsOnDisk` follows the
thread's own line from `fputs` through the other threads' rotations, which flush the
buffer they close, to its `flush`; then `HangsOnEmptyQueue`. The queue under the log is an
instance of `BlockQueue`, so its invariant and what `push` and `pop` do to its contents come
from `BlockQueueProofs` through an instance of that module: a step of the log is a step of
the queue or leaves it alone (`QueueStep`). `TypeInv`, from which `LogTypeCorrect`, ties
`m_count` to the lines begun, without which nothing bounds it. `LineKeptOnce`:
`OncePerLine` counts occurrences, and the inductive form (`Once`) says it place by place.
Files and buffer together, the queue's contents, and the line in the flush thread's hand are
three sequences without repetition, pairwise disjoint and disjoint from `refused`, and
together they are what was handed on. Every step moves one line from one to the next; a
rotation moves lines only within the first.

`LogFileProofs`: `FilesAreSplit`. The limit is not inductive, since a file may still get lines
that were counted before it was full. `FirstDay` counts the open file's lines together with
those on their way to it (`InFlight`: counted and not yet written, queued, in the flush
thread's hand), and bounds the sum by `m_count % m_split_lines + 1 + Stragglers`: counting a
line raises both sides by one, writing it neither, and at the rotation the remainder falls to
0 while those on their way are at most `Stragglers` and the line just counted. That
the new file is empty is because parts only grow on the first day, and that it is still the
first day because no thread has read a later date (`Clocks`).

`PoolTypeCorrect` and `QueueTypeCorrect` are the type invariants of pool and queue.

So every invariant, action property and refinement of the passing runs has a theorem. Only
model-checked are the liveness properties, `HandoverEnds`, `DepartedReaped`, `AlarmGoesOn`,
`WaitersServed` and `Answered`: they rest on weak fairness, hence on ENABLED, which the prover
does not do. The runs that expect a violation are counterexamples, and need no proof.

## 5. Disagreements

* `webserver_flag`, `CloseIsSeen`: `threadpool.h:121-122` and `128-129` store `improv`
  before `timer_flag`. The loop, released by the first store, may look at the second too
  early. The connection then stays open, out of epoll and with its timer, and the late
  flag closes whatever the descriptor is used for next (`http_conn.h:104` calls the field
  "whether to close the connection").
* `webserver_idle`, `IdleClosed`: `Utils.cpp:83` ticks `timer_set` only, but the default
  timers are in `timer_heap`; `README.md:9` promises that idle connections are closed.
  The other mode cannot be chosen with the documented key: `config.cpp:66` reads
  `heap_mode`, `config.json` has `timer_mode`.
* `sql_pool_null`, `GetsConnection`: `sql_connection_pool.cpp:69-71` returns `nullptr` when
  all connections are in use; its comment (64-65) says it returns an available one, and
  the semaphore is there to wait for it.

* `log_hang`, `LoggingReturns`: `cond::wait` (`locker.h:97-103`) locks the mutex that
  `block_queue::pop` already holds. The flush thread hangs when it first finds its queue
  empty, with the queue locked, and the next thread that logs hangs in `full()`;
  `README.md:7` promises an asynchronous log. `config.json` uses the synchronous one.
* `log_day`, `OnlyNewDays`: `write_log` reads the date (`log.cpp:83`) before it locks, and
  opens another file on any difference from `m_today`; by its comment (109) only on a new
  day.
* The comment at `http_conn.cpp:453` shows the form as `user=123&passwd=123`. The code takes
  the password from ten bytes behind the `&` (462), the length of `&password=`: of that form
  it reads `3`. A login in that form is among the requests of `http_exchange`, and
  `AnswersRequest` says what it gets: it is judged by the password without its first two
  characters, so a client that sends the right one is refused.
* `acl_url_decode` says of an escape cut short that it is kept (`http_conn.cpp:418`), and
  stores its second character too (421), but without moving on: the NUL of line 433
  overwrites it, and `%4` becomes `%`. The same login of `http_exchange` ends so, and is judged
  without that character. A client that escapes `%`, as it should, does not meet this.
* `front()` (`block_queue.h:95`) returns the item last popped, by its comment the head of
  the queue. It is modelled so; there is no run, because nobody calls it.

Seen in the modules, where no line of the repository says otherwise, so that the properties
exempt them by name instead of a run of their own:

* `write()` (`http_conn.cpp:544-550`) compares the running total with, and subtracts it from,
  an `iov_len` it has already shortened. One short write inside the header is handled, two
  are not: bytes are skipped or sent twice, or the file's iovec starts before the file
  (`headCuts`).
* A body that arrives in two reads is not answered: `parse_line`, which the loop calls after
  `parse_content` has said "not yet", counts the part as checked, and `parse_content` then
  asks for more (`torn`; `http_conn.cpp:331, 347-348`).
* A line ended by a bare LF is `LINE_BAD`, and `process_read` returns `NO_REQUEST` for it:
  no 400 (`http_conn.cpp:190, 382`).
* `do_request` copies name and password into arrays of 100 bytes (`http_conn.cpp:454-465`);
  the read buffer has room for longer ones, and nothing checks (`Overruns`).
* A level-triggered request that fills the read buffer to the last byte and has a body stores
  a NUL behind it (`http_conn.cpp:332`), on the low byte of `m_read_idx`, which is zero then:
  harmless with this layout and this size (`IndexIsTrue`).
* An empty file is answered twice, the second time with the last sign_in's JSON
  (`http_conn.cpp:679-704`; `EmptyFile`).
* A client that hangs up before its answer is sent leaves the file mapped; the next file
  overwrites the pointer (`abandoned`, `lost`).
* Both timer containers are ordered by address, `set_timer::tick` stops at the first timer
  not due in that order and erases under its own loop (`set_timer.cpp:36-42`). `alarm()`
  gets 5000 s for a `TIMESLOT` meant as 5 s (`webserver.h:22`).

## 6. Not modelled

* Start-up and configuration: sequential, before any thread; its results are the CONSTANTS.
* `tick`, `doWork`, `pop_timer` and `GetNextTick` of `heap_timer`, `append_p` of the thread
  pool, `close_conn`: nobody calls them (`process` would call `close_conn` if `process_write`
  failed, which it does not for the codes `process_read` returns).
* The text of headers, bodies and log lines; letter case and tabs in requests, absolute
  URLs, paths longer than `m_real_file` (the code cuts them off) and forms that are not forms:
  `HttpExchange` has the requests an HTTP client sends to this site. The theorems about
  answers say nothing of the others.
* What an overrun of `do_request`'s arrays does beyond the answer to that request: the model
  has the process killed or the answer wrong, not other memory changed.
* A `sem_wait` that a signal interrupts. `SIGALRM` and `SIGTERM` are installed without
  `SA_RESTART` (`webserver.cpp:110-111`), `sem::wait` (`locker.h:69`) returns false, and its
  callers ignore that: `SemWait` (`threadpool.h:103`) and `WaitReserve`
  (`sql_connection_pool.cpp:72`) leave that path out. A worker of the thread pool would find
  the queue empty and wait again, or take a job whose permit then wakes another for nothing;
  a thread in the connection pool would take a connection without a permit, so that `PermitsMatch`
  and `PopIsSafe` hold only as long as no signal handler runs in a waiting thread.
* A client that sends its next request before it has the answer: `init()` drops what was
  read of it, and nothing more can be said.
* A sign_in without a body: `m_string` is read before it is set, or still points at an
  earlier request's body.
* A failing `fopen` when the log changes files (the code does not look at it), a failing
  `open` between `stat` and `mmap`.
* The edge-triggered accept loop (`trig_mode` is read as a Boolean, so the listening socket
  is always level triggered).
* What happens in workers after `main` has deleted `users` on SIGTERM.

What a next step would add: the set timers ticked under the server's threads (`tick` may
close a descriptor whose worker is still in `process()`), and the asynchronous log under
them.
