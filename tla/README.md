# trace_server: specifications, model checking and proofs

`trace_server` is a C program that receives compressed logs over HTTP and
saves them to files. It is built on libevent: one thread accepts connections
and hands them to a pool of worker threads, and each worker runs an event loop
that talks to its clients. This directory models the program's own code
(`src/src/`); of the vendored libevent only the deferred close of a bufferevent
is modelled, the rest is taken as its documentation has it.

## Inventory

| Part | State | Operations | Interaction |
|---|---|---|---|
| Accept callback (`event_server_callback.c`) | the listening socket, the connected counter | `ev_accept_callback` | gives each descriptor to `evserver_distribute_job`, in the accept thread |
| Worker pool (`event_server_tpool.c`) | `workers`, `current_worker`, `client_wait_count`, `client_handling_count` | `evserver_tpool_add_job` and the counters | its lock is held while a job is pushed |
| Worker (`event_server_worker.c`) | a socketpair, a queue, an event base | `evserver_worker_add_job` (accept thread), `_evserver_worker_read_callback` (worker thread) | a byte in the socketpair announces a job in the queue |
| Job queue (`queue.c`) | a list, `depth`, `max_depth`, mutex, condition variable | `queue_push`, `queue_flush`, `queue_pop` | shared by the accept thread and one worker |
| Client (`evserver_client.c`) | descriptor, bufferevent, buffers, timer, `time_count` | new, release, exit, send, receive | its callbacks run in its worker's loop |
| Step machine (`client_talk.c`, `client_talk_option.c`, `client_option_struct.c`) | `step`, the request | one function per step | called by the read and the write callback |
| HTTP request (`http_request.c`) | header buffer, content buffer, parameters | receive header, receive content, parse | reads from the client's input buffer |
| Log saving (`sky_log.c`, `skylog_record.c`, `file.c`) | directory tree, the record file of the day | `skylog_save`, `skylog_record` | every worker, two global locks |
| Thread pool (`threadpool.c`) | work queue, condition variable, threads | create, add, destroy | runs one worker per thread |
| Server and monitor (`main.c`, `event_server.c`, `socket.c`) | `server_ok`, the listening socket | create, run, destroy, monitor | the monitor polls, the accept thread runs the loop |
| Descriptors (kernel, `socket.c`, `file.c`) | which number stands for what | `accept`, `socket`, `open`, `close` | every thread asks and gives back; numbers are used again at once |
| Ring buffer (`fifo.c`) | `in`, `out`, buffer | put, read, offset, clean, enable, disable | writers share a lock, the reader has none; called by nothing in the program |
| String search (`bm.c`, `user_string.c`) | a table of strides, a position | `sunday`, `sunday_case` | takes the header apart for `http_request.c` |
| Time, trace output, list macros | none or none of interest | | helpers |

What is hard here, and what `PROJECT.json` lists line by line as hazards:

- **Two channels for one job.** The queue says what to do and the socketpair
  says that there is something to do; they are filled by separate steps, one
  is bounded and sheds its contents, the other drops bytes when it is full.
- **A blocking wait in an event loop.** `queue_pop` waits on a condition
  variable until the queue holds something; meanwhile no client of that worker
  is served or timed out.
- **A depth tested outside its lock**, counters changed by every thread before
  or after the thing they count, and ownership of a descriptor that moves
  through five places.
- **Requests in pieces.** Header and content arrive cut anywhere, several steps
  run in one callback, and data already in a buffer causes no further callback.
- **Ignored results**: `send`, `evserver_send_client`, `skylog_save`,
  `tpool_add_work`.
- **A monitor that polls** a flag the accept thread resets when it ends, and
  a descriptor closed twice, the second time later.
- **Text cut by pointers**: a search that skips, and buffers of several sizes that
  are compared with `<`, `<=` and `- 1`.
- **Counters that wrap** and a macro that loads a shared counter twice.

What makes each part correct: the dispatcher never strands, leaks, duplicates
or reorders a connection, within its bounds; the counters count what their
names say; a client gets the answer its request deserves, keeps its connection
until the answer left, and never outlives its idle timeout by more than the
timer's grain; a saved log is complete and recorded once; exactly one server
listens; a number that is held refers to what it is held for; a header yields
the words, parameters and fields it contains; the ring is a queue.

## Modules

| Module | Models | Kind |
|---|---|---|
| `Dispatch` | accept thread, pool, queues, socketpairs, workers, up to the release of a client | component |
| `ConnService` | what the dispatcher promises for each connection | abstract specification, implemented by `Dispatch` |
| `DispatchProofs` | | theorems about `Dispatch`: queues and wake-ups, owners, counters, turns, `ConnService` |
| `ClientTalk` | one client: callbacks, step machine, reception, idle timer, and its peer | component |
| `ClientTalkProofs` | | theorems about `ClientTalk` |
| `Skylog` | several workers saving uploads: directories, files, retries, the record file | component |
| `SkylogProofs` | | theorems about `Skylog` |
| `ThreadPool` | start-up: main, the pool's threads, its queue of works | component |
| `ThreadPoolProofs` | | theorems about `ThreadPool` |
| `Supervisor` | the monitor, the accept threads it creates and their server's base, event and socket | component |
| `SupervisorProofs` | | theorems about `Supervisor` |
| `Descriptors` | the kernel's table of descriptors, and all who open and close | component |
| `DescriptorsProofs` | | theorems about `Descriptors` |
| `StringSearch` | one call of `sunday` or `sunday_case` | component |
| `HttpParse` | the functions of `http_request.c` that parse, as operators | algorithms with reference definitions |
| `TextProofs` | | theorems about `StringSearch` and `HttpParse` |
| `Fifo` | the ring buffer, its writers and its reader | component |
| `BoundedQueue` | the queue that the ring is: what a put and a read of it do | abstract specification, implemented by `Fifo` |
| `FifoProofs` | | theorems about `Fifo` and `BoundedQueue` |
| `MCDispatch`, `MCClientTalk`, `MCSkylog`, `MCThreadPool`, `MCSupervisor`, `MCDescriptors`, `MCText`, `MCFifo` | | instances for TLC |

`Dispatch` and `ClientTalk` meet in the client. `Dispatch` treats all that
happens to a client in the loop as one action (`evserver_client_exit`), which a
worker can only take when its thread is in the loop. `ClientTalk` opens that
action up and assumes in turn that the loop is not blocked. `ClientTalk` takes
the outcome of `skylog_save` as a free choice; `Skylog` shows what is behind
it. `ThreadPool` ends where `Dispatch` begins, with every worker's loop running;
`Supervisor` is about the accept thread that `Dispatch` takes to be there.
`Descriptors` composes the accept thread, the workers, the savers and the
monitor once more, coarsely, where they meet in the kernel's numbers; in the
other modules a descriptor is the thing it stands for. `HttpParse` is what
`ClientTalk` summarises in the fields of a request; its `straddr` is the reference
that `StringSearch` is checked against.
Definitions marked as mutants, each before the definition it is a variant of,
are plausible mistakes in that code; no specification uses them, and each shows
that some property can fail.

### Dispatch

Each action is the code a thread runs between two lock operations. `accPc` and
`wPc` are the places between them.

- The accept thread: `ev_accept_callback` (accept, the limit, nonblocking),
  `evserver_tpool_add_job` (the next worker in turn, the item's allocation),
  `queue_push` (reads `depth` without the lock), `queue_flush` (if full),
  `queue_push_append` (list, depth, signal), `count_waiting`, `notify_worker`.
- A worker: `evserver_worker_read_callback` (one byte), `queue_pop` (take the
  head or wait), `queue_pop_wake` (the one-second timeout or a spurious
  wake-up), `queue_pop_signalled` (the code leaves its wait loop when the wait
  returned 0, whatever the queue holds), `uncount_waiting`,
  `evserver_client_new`, `count_handling`, and for a client that ends
  `evserver_client_exit`, `uncount_handling`.

`Pending(w)` counts the notifications that will still make worker w pop:
bytes in its socketpair, one it has read and not spent, one the accept thread
owes it. `NoLostWakeup` says that they are never fewer than the jobs in the
queue. It is not obvious: `send` may drop a byte, and a wake-up by
`queue_flush`'s signal can spend a notification on a queue that is empty for a
moment.

The descriptor is abstracted to its connection, a job item without data (a
`memdup` that failed) to `NoJob`. `current_worker` wraps at `CounterMod`.

### ConnService

A connection is refused, or enters the line of a worker; it leaves the line
from its head, or with the whole line when that is shed; a connection taken is
served and closed, or closed. Lines that are not shed keep moving (weak
fairness of `Take` and `Begin`). The refinement mapping is `StageOf` and the
queues themselves.

### ClientTalk

A request is a record: length of its header, whether its path is the log
path, its Content-Length, what follows the header, whether that is a gzip
stream. The peer sends any part of it at any time, shuts down or resets. The
callbacks are actions, and within a callback each step of `client_talk` is one
(`AGAIN` goes on, `ONCE` returns to the loop, `FINISHED` releases the client).
Time is counted in seconds: `idle` is `SYSTEM_SEC - time_count`, `silent` the
true silence; they differ because the timer callback takes a `time_count` of 0
for unset.

Two facts about libevent are used: a bufferevent whose socket is readable and
writable runs its write first, and a callback that is active runs before the
clock reaches the next second.

### Skylog

Each system call that another thread or a fault can interfere with is an
action. `create_dir` is a walk along the path of directories, a look (`access`)
and a `mkdir` each, under `_skylog_lock`. A file is its length in the blocks
`write_file` writes; `Faults` names the calls that may fail. `kept` is what a
failing truncation left in front of an attempt, `lost` the descriptors whose
handle could not be allocated. The record of the
day is three actions under `_skylog_record_lock`: lock, choice of the file,
line. A line that cannot be written may leave a part of itself, behind which the
next one starts: `records` counts it as a line. The day may change between any
two actions. A save uses its file name
again in the next attempt, as the code does, and gets a new one only if the
file cannot be created. File names, which hold the serial number and the
microsecond, are taken to be distinct.

### ThreadPool

`main` creates the threads, polls `worker_counts`, and adds one work per worker
in three steps (test of the busy count, append, signal after the unlock). A
thread reports, tests the queue under its lock, waits or takes the head, counts
itself and runs the work. Spurious wake-ups are possible and not fair. Any
allocation or thread creation may fail: then `main` returns and ends the
process, except that a failing `calloc` in `tpool_add_work` goes unnoticed and
leaves a worker that is given connections and never runs (`unallocated`). What
threads do with a pool freed under them is undefined and left out, and so is
`tpool_destroy`, which `main` cannot reach.

### Supervisor

The monitor polls `server_ok` and creates servers; an accept thread tests
`evbase_server`, sets `server_ok`, dispatches, and destroys the server from its
callback when `accept` fails. Each access to a field of `_server` is a step. A
base that is used after it was freed crashes the process or does not, and its
number may be given to the next base, as `malloc` may give its address. Bases
and threads are few; running out of them is a failure of `event_base_new` and of
`pthread_create`.

A behaviour is *calm* or not. In a calm one `pthread_create` succeeds, loops do
not fail by themselves, and the monitor reads `server_ok` only when no accept
thread is starting or ending; everything else may fail any number of times. The
code does not ensure this, its sleeps only make it likely: an accept thread that
ends late, one that starts late, and a failed `pthread_create` all make the
monitor forget a socket that still holds the port, and then every further
`bind` fails until the attempts are used up and the process exits. That it does
exit, or serve, is what `ServesOrExits` says, for at most `MaxFaults` faults.
What becomes of the forgotten socket's number is in `Descriptors`.

### Descriptors

`table` is what each number refers to, `fd` the number in which the program
keeps each object: a connection, the log file a worker is saving, the record
file, the listening socket. The kernel gives out the lowest unused number. A
close by number takes back whatever it refers to by then. `bufferevent_free`
only makes a finalizer active in the worker's loop; `final` holds the numbers
that are still to be closed a second time.

The monitor and the accept threads are those of `Supervisor`, with the fields of
`_server` that matter to descriptors: `fd[Listener]` is `listen_fd`, `base` says that
`evbase_server` is not NULL. `evserver_create` and `_evserver_destroy` go field by
field, so that the monitor and an accept thread may be in both at once, and
each overwrites `listen_fd` whatever it held. A socket that fails half-way in
`_evserver_socket_create` is opened and closed in one step. Which base a thread
loops on, whether the accept event is registered, and the thirty attempts are
left to `Supervisor`: here a thread in its loop accepts whenever some listening
socket is open, and the monitor never gives up. Calls that fail for want of
memory, threads and the like take one of `MaxFaults` faults; opens that fail
because the numbers have run out, or a file's open or write that fails, do not.
The descriptors inside event bases and the workers' socketpairs are not counted.

The code loses descriptors on four failures, which `Loses` names at their steps:

- `open_file` has opened a file and finds no memory for its handle
  (`file.c:132`), be it a log file or the record file;
- `memdup` fails for a job (`queue.c:45`): an item without data is queued and
  nobody has the connection;
- an attempt to create a server fails to bind and writes -1 over the
  `listen_fd` of a server that was never taken down (`event_server.c:65`), because
  `pthread_create` had failed, the accept thread's loop had ended, or the thread
  was late;
- `_evserver_destroy` writes -1 over a `listen_fd` that is not the one it closed,
  since the other thread has made a new socket in between (`event_server.c:103`).

`OnlyFailuresLose` says that no other step leaves a descriptor open that nobody
holds: not the other error paths of a save, the record, a client or a server's
creation, nor a change of day, and not even after numbers were closed twice.
`HeldIsOwn` fails (finding 3); `OnlySecondClosesHurt` says that only a second
close of a number makes it fail: a finalizer's, and that of a `listen_fd` which
was closed before, after a failed `event_add` or by the other of two threads in
`_evserver_destroy`.

### StringSearch and HttpParse

`StringSearch` has one action per round of a loop: the table is filled, a
position matches, a stride is taken, the text ends. The inner comparison is
`MatchAt`. `sunday` is `sunday_case` with `caseless` false.

`HttpParse` has one operator per function. A function that fills a buffer and
returns true is the set of the value it fills in, false the empty set. The pair
`\r\n` is one character, `eol`; a blank and a colon go by their names. The
properties compare with definitions that know nothing of pointers: the words of
a line, the parameters of a query, the lines of a header. Those about a name
are stated for names that hold neither a line break nor an ampersand
(`NamePlain`): the program only looks for names that are constants of its own
source, and a name with a line break would find what is no line. `IntMax` and
`LongMax` are the largest `int` and `long`.

What these show of the code besides: a parameter is not found when its text
also occurs inside one before it (`XSn=1&Sn=2`), only the first place is
considered; the buffer of the path check must hold the query too; without a
version the URL runs on into the next line; a length that no `int` holds is
what `atoi` makes of it. Outside the modules, `_skylog_check_create_data`
accepts any date that is not empty, and a `Type` above 6 has no name.

### Fifo and BoundedQueue

A put tests `disable` and the free space, copies up to the end of the buffer,
copies the rest to its start, and moves `in`; a read does the same with `out`.
Each is an action, so that both sides interleave anywhere. `_fifo_min` evaluates
its second argument twice and the makefile does not optimise, so the other
side's counter is loaded again (`put_look_again`, `read_look_again`): a put that
just fits is refused if the reader makes room in between, and a read returns
more than it was asked for, beyond the end of its caller's array, if a put is
published in between. The counters are
`Width` bits wide. `fifo_clean` moves both counters and is only called when
nobody else is at work. Stores are seen in order, as on x86.

`BoundedQueue` takes the data of a put whole or not at all, and says how much a
read may hand out: exactly what was `asked`, unless the queue held no more than
that when the read began (`short`); then any part of what is there by the second
look, nothing and more than was asked for included. So the refinement shows
where `fifo_read` overruns its caller's array, and that it does so nowhere else.
The history variables `asked` and `short` of `Fifo` are what the code's caller
passes and what its first load finds.

The code masks a counter with `size - 1`, and tests with `size & (size - 1)`
whether a size must be rounded. The module writes a remainder and `IsPower`
instead, which can be reasoned about; `MCFifo` assumes, and TLC evaluates on
every run, that both are what the masks give.

## Runs

| Run | Instance | Shows |
|---|---|---|
| `dispatch` | 2 workers, queues of 1, socketpairs of 2, 5 connections, counter modulo 4, failing `calloc` | wake-ups, signals, bounds, ownership, both counters, round robin, and that only a flush leaves stale bytes |
| `dispatch_live` | 1 worker, queue of 2, socketpair of 2, 4 connections, fair threads, no failing `calloc` | with dropped bytes and flushes of two jobs every distributed connection is served or closed; `ConnService` is implemented |
| `client_talk` | 50 requests, header buffer of 3, timeout 4, period 2, with and without failing allocations | buffers, answers, pending responses, idle timer, every client released; a whole upload that came in time is answered 200 unless an allocation may fail |
| `skylog` | 2 uploads of one device, 2 blocks, 2 attempts, 2 days, faults in every call, fair threads | no race for directories, whole files, one line, whole or torn, on the right day, descriptors closed; a save that began ends |
| `thread_pool` | 3 threads, 4 works, loops that may return, failing allocations and thread creation, fair threads | every work for which there is a thread and that was allocated runs, or the process ends; every work once, no wake-up lost, also when the fourth work is refused |
| `supervisor` | 2 accept threads, 3 bases, 2 attempts, 2 faults when not calm, fair threads | the monitor sees the truth and the port is kept if calm; in any case the process serves again or exits |
| `descriptors` | 2 connections, 2 workers, an accept thread, 3 numbers, 2 faults (1.2 million states) | only the four failures lose a descriptor, and only second closes take a number from its holder |
| `text` | texts of up to 6 letters, patterns of up to 3, headers of up to 11 characters, buffers of 2 to 6 | the search finds the first occurrence and ends; URL, path, parameters, fields, content length |
| `fifo` | 2 writers, rings of 1, 2 and 4, counters of 3 bits, puts and reads of up to 3 (1.2 million states) | copies never overlap; `BoundedQueue` is implemented |
| `dispatch_idle_timeout` | 1 worker, queue of 1, fair threads | *violated*: the idle timeout |
| `client_talk_saved` | as `client_talk` | *violated*: 200 means saved |
| `descriptors_reuse` | 3 connections, 4 numbers, no faults | *violated*: a held number is one's own |

**Bounds.** The code's 1024 workers with queues of 32 become two workers with
queues of one, or one with a queue of two. Workers share only the accept
thread, the round-robin counter and the two client counters, so two are enough
for their interleavings; a queue of one reaches every branch (empty, full,
flushed) and a queue of two distinguishes first from last and lets a flush
discard more than one job. Five connections fill both queues, flush one of
them and leave stale bytes behind; with one worker four are enough for the
flush of two jobs to leave a full socketpair, so that the next `send` drops its
byte. `CounterMod` is a multiple of the number of workers, as 2^32 is
of 1024. In `ClientTalk` headers of 0 to 3 units against a limit of 3 are: no
end, early, one below the limit, at the limit; Content-Length and content in
0..3 are every order of the two. In `Skylog` two blocks allow a write that fails
before, between and after the first block, two directories a race for a parent
and for a leaf, and two days one change of the record file; uploads interact
in pairs, through one lock and one file; two attempts tell a retry from the
last one. In `ThreadPool` three threads let one
wait, one be woken and one run at the same time, and the fourth work is refused
when all three are counted busy. In `Supervisor` two
threads are the old and the new server's; three bases let one leak, one be freed
and one be in use, two attempts tell a retry from giving up, and two faults let
a second server fail while the first is still being destroyed (an endless
sequence of well-timed faults would defeat any retry). In `Descriptors` the
listening socket and two others use up three numbers, so that opens fail and
numbers are given out again while a finalizer is pending; two faults let a
server fail and the next one after it, or a second close follow a loss. With
one accept thread every kind of loss and of second close occurs but one, the
failing `event_add` of a monitor whose socket a late thread has closed, which
takes two; the theorems cover it.
In `StringSearch` three letters are a letter, its other case and another; texts
twice as long as the pattern let each stride be taken and miss. In `HttpParse`
every family ranges over all short strings of the characters its function looks
for, with one that it does not, and buffers one above and one below their
lengths; eight-bit `int`s let two and three digits be below and above the
limit. In `Fifo` a ring of four and counters modulo eight wrap both in a few
puts; items numbered modulo five, prime to the ring's sizes, tell a slot from
its predecessor.

**Fairness.** `Dispatch`: the accept thread goes on with a connection it holds,
each worker goes on with its notification, and each client of a worker whose
thread keeps returning to the loop is released in the end (its timer callback).
Nothing is assumed of arrivals. `ClientTalk`: the loop runs active callbacks, a
callback runs to its end, time passes; nothing is assumed of the peer. `Skylog`:
a thread goes on with a save it has begun. `StringSearch`: the call is not
abandoned. `ThreadPool`: main and the threads run;
spurious wake-ups and returning loops are not assumed. `Supervisor`: the monitor
and the accept threads run; that a loop on a freed base returns is assumed only
if calm. Threads that run and
libevent's loop justify these. Deadlock is checked for the ring, whose users may
always go on; elsewhere it is not: a system without further connections, a
client that was released and a search that has returned stop.

## Findings

1. The bytes of flushed jobs stay in the socketpair. The worker reads one, finds
   its queue empty and waits in `queue_pop`, in its event loop, until another
   job comes: its clients are not served, and idle ones are not released
   (`dispatch_idle_timeout`, against the timeout of `config.h`).
2. `client_talk_skylog_save` ignores the result of `skylog_save`: the peer gets
   200 for a log that was not saved (`client_talk_saved`).
3. `evserver_client_release` closes the descriptor of a client whose bufferevent
   was made with `BEV_OPT_CLOSE_ON_FREE`. The bufferevent closes the number
   again in its finalizer; if another thread was given it in between, that
   thread's connection or file is closed (`descriptors_reuse`). The same
   happens to the listening socket when `event_add` fails.

Smaller disagreements are visible in the modules and have no run of their own:

- In the build with a pool nothing increments the counter that
  `ev_accept_callback` compares with `CLIENT_ACCEPT_MAX_COUNT`: the limit of
  `config.h:40` on clients at the same time is not kept (`connected_count`).
- `_create_and_open_skylog_file` ignores the result of `clear_file` and seeks to
  the end: a truncation that fails before a retry leaves the remains of the
  failed attempt in front of the upload, and the save succeeds (`kept`).
- `queue_flush` frees waiting jobs without counting them out, so
  `client_wait_count` ("the number waiting to be processed",
  `event_server_tpool.h`) stays too high, which is why `WaitCountCovers` is an
  inequality.
- `skylog_save` ignores the result of `skylog_record` (`RecordFails`), against
  the comment on `SKYLOG_RECORD_DIR` in `config.h`.
- `fifo.h:9` has a put return the space it really used when there is not
  enough, but it is all or nothing; `fifo.h:23` has the size rounded at initialisation, but
  `fifo_create_by_array` takes it as it is and its caller must round it
  (`fifo_cal_buffer_size`, which does not end for sizes above 2^31).

## Proofs

Each inductive invariant below was first checked by TLC as an invariant of the
instance its component's run uses (for `Dispatch`, for example, some 150,000
states), then proved.

`DispatchProofs` proves for every number of workers and connections, every
queue depth and with failing allocations:

| Theorem | Says |
|---|---|
| `TypeCorrect` | `Spec => []TypeOK`; `depth` never becomes negative |
| `QueueIsBounded` | `depth` is the list's length and at most `max_depth` |
| `WakeupsNotLost` | `NoLostWakeup` |
| `SignalsNotMissed` | a worker waits only on an empty queue |
| `FlushAloneLeavesStaleBytes` | only `queue_flush` makes notifications outnumber jobs |

They rest on the inductive invariant `IInv`. `QueueBounded` alone is not
inductive, because the test in `queue_push` and the append are separate steps:
`RoomToAppend` carries the result of the test, and is stable since only the
accept thread appends and workers only remove. `NoLostWakeup` needs
`QueueBounded`: when `send` finds the socketpair full there are already
`PipeCap >= MaxDepth` bytes, at least as many as jobs. It needs
`NoMissedSignal` too: a worker that waits holds a notification for a queue that
is empty, and one that is woken on an empty queue spends a notification no job
needs. `HoldsConn` keeps `NoJob` out of the sets of connections. There is one
lemma per thread of the system (`AcceptStep`, `DistributeStep`,
`HandleNotificationStep`, `ClientExitStep`).

Assumptions: at least one worker and a queue of at least one, `NoJob` is no
connection, and a socketpair that takes at least `max_depth` one-byte sends (a
Linux one takes some hundreds, the queue 32).

Its second half goes on from there, under the same assumptions:

| Theorem | Says |
|---|---|
| `EveryConnOwned` | `OneOwner`: a connection is in one queue once, in one thread's hands, with one worker, or closed, and forgotten only by a failing `calloc` |
| `HandlingCounted` | `HandlingCountExact` |
| `WaitCounted` | `WaitCountCovers` |
| `TurnsInOrder` | `RoundRobin`, also across the wrap-around of `current_worker` |
| `Implementation` | without failing allocations, `Spec => Service!Spec`: the safety part of `ConnService` is implemented |

`OneOwner` counts the places a connection is in with `Cardinality`, and as a
count it is not inductive: that a connection leaves one place for another says
nothing about the total unless it was not in the other before. `Ownership` says the
same without counting: the six kinds of place exclude each other (`Alone`), within
a kind the place is unique (`OnePlace`, `OneJob`, `OneServer`), and there is one
(`Somewhere`); a thread that is not between two steps of a job has nothing in its
hands (`HandsFree`). A first group of lemmas says what taking the head, appending,
flushing, and adding or releasing a client do to the places of any one
connection; `AcceptOwns` and `WorkerOwns` apply them.

The counters are compared with sets of workers at a place of the code.
`WorkerMoves` says by how much such a set grows when one worker moves, and
`OneItemMore` and `NoItemMore` say the same of the items of all queues. The
handling counter needs `Ownership`: a client that is added was not served
before, otherwise the count would be one too high. The waiting counter
does not, since every item counts for itself.

`RoundRobin` is stated of `target`, the worker last chosen, while the code
keeps `current_worker`, a counter of a fixed width that it reduces modulo the
number of workers: `Turn` ties the two, and `WrapKeepsTurn` needs that the number
of workers divides the counter's modulus (`CounterModAssumption`; 1024 divides
2^32). With another number of workers the theorem is false at the wrap-around.

For the refinement, `StageIs` reads the stage of a connection off its place, which
`Ownership` makes unambiguous, and `AcceptServes` and `WorkerServes` find for each
action the step of `ConnService` that it is, or show that it is none. `Implementation`
has the hypothesis that `calloc` does not fail: an item without data is a `NoJob`
in a queue, and the abstract lines hold connections (`Filled`). The fairness
part of `ConnService` is left to the run `dispatch_live`.

`ClientTalkProofs` proves for every set of requests, every size of the header
buffer, timeout and timer period, with and without failing allocations:

| Theorem | Says |
|---|---|
| `TypeCorrect` | types; no length becomes negative |
| `BuffersHold` | `BuffersNotOverrun`, however a request is cut |
| `AnswersFit` | `AnswerFitsRequest` |
| `ResponsesKept` | `ResponseNotDropped` |
| `IdleIsBounded` | `IdleBounded`: no client outlives its timeout by more than a period |
| `NotTimedOutEarly` | `TimeoutNotEarly`, a property of steps |

The inductive invariant follows a request through the steps. `Received` says how
far header and content have come at each step: the header never passes its blank
line or the buffer's end, and in every later step it is whole and leaves room for
its zero. `Sorted` says which requests reach which step, so that
`AnswerFitsRequest` holds when the answer is put into the output buffer, and
`RespondsLast` that this happens once, at the end. `Fresh` is what keeps a response: a
callback that talks has just reset the idle time, and a response that waits for
its write waits less than a second, so the timer's callback never finds it.
`TimerBounds` relates the code's `idle` to the true silence and to the phase of the
timer; `zero`, the `time_count` that the timer takes for unset, makes them differ
by at most one period. Assumptions: a header buffer and a period of at least one, and
requests whose lengths are natural numbers.

`ThreadPoolProofs` proves for any number of threads and works, with failing
allocations and thread creation:

| Theorem | Says |
|---|---|
| `TypeCorrect` | types; both counters stay within the number of threads |
| `NoneSleepsOverWork` | `NoSleepOverWork` |
| `WorkDoneOnce` | `EachWorkOnce` |

Its `IInv` has the bounds of `main`'s loops (`InLoops`), that a thread knows
the work it has taken (`KnowsWork`), and that `worker_counts` and `working_counts` are
the numbers of threads at the places where they are counted (`CountsExact`): the
types of the counters need that a thread counts itself out only after it has
counted itself in. `NoSleepOverWork` and `EachWorkOnce` are inductive relative to it.
`NoSleepKept` weighs the queue's length against the threads that will look at
it (`Coming`) and the signal that is `Owed`; `OnceKept` follows one work through
the queue, a thread and its end, with `AppendCounts` and `TailCounts` for how often
it is in the queue. Assumptions: at least one thread, and `NoWork` is no work.

`SupervisorProofs` proves for any number of accept threads, bases, attempts and
faults:

| Theorem | Says |
|---|---|
| `TypeCorrect` | types; the attempts stay within their limit |
| `PortIsKept` | `PortKept` |
| `MonitorToldTruth` | `MonitorSeesTruth` |

Both properties are about calm behaviours, and so is the invariant's main part,
`calm => Calm`. There is one accept thread at a time and none while the monitor
is creating a server (`OneAtATime`); and what exists of a server (its base, its
socket, its event) is determined by the place of the monitor (`AtMonitor`), of
whoever destroys it (`AtDestroy`) and of the accept thread (`AtThread`). The proof
goes place by place along `evserver_create` and `evserver_destroy`, with each of
their error paths. Assumptions: the monitor is not an accept thread, and there
is at least one base and one attempt.

`SkylogProofs` proves for any number of uploads, any directories, sizes, numbers
of attempts and days, and for every set of faults:

| Theorem | Says |
|---|---|
| `TypeCorrect` | types; a handle is closed no more often than opened |
| `MkdirDoesNotRace` | `MkdirUncontended` |
| `SuccessIsWhole` | `SavedIsWhole`: the whole upload, behind what failing truncations left |
| `DescriptorsAreReturned` | `DescriptorsReturned`: all but those whose handle could not be allocated |
| `RecordedOnce` | `RecordedOnceInItsDay`: one line at most, whole or torn, in all record files, on a day between the save and now |

Its inductive invariant adds to these: the locks are held where the code is
between lock and unlock (`LocksHeld`, without which `MkdirUncontended` is not
preserved by another saver's `mkdir`); the record file is open where a line is
written (`RecordOpen`); a handle stands for one descriptor and exists only
between the open and the close (`HandleCounted`); behind what truncation left,
an attempt has an empty file when it opens it, as many blocks as it wrote while
it writes, and all of them when it goes on to the record (`WholeSoFar`). `TypeStep` goes variable by
variable; the other lemmas go action by action, conjunct by conjunct.

`RecordedOnceInItsDay` has an invariant of its own on top of that one,
`RecordInv`: the name of the record file and its handle always stand for the same
day, also after a failure, so a line goes to the file of the day on which it was
chosen, which is none before the save and none to come; only a save that has
reported success has a line (`LinesInTime`); and no two lines are of one save
(`LinesDiffer`), because a save that is about to write has not reported yet.
Assumptions: the lock's holder is distinguishable from nobody, and there is at
least one block, one attempt and one day.

`TextProofs` proves for every alphabet, every text and every pattern that is not
empty, with and without regard to case:

| Theorem | Says |
|---|---|
| `SearchTypeCorrect` | types; every stride is at least 1 and at most the pattern's length plus one |
| `SearchFindsFirst` | `FirstOccurrence`: the result is the first occurrence, or -1 and there is none |

The inductive invariant `SearchInv` says of the table that a character of the
pattern lets the window go no further than to its last occurrence there
(`StridesSafe`, while the table is filled for the part that has been entered),
of the scan that no position before the current one matches (`NothingSkipped`)
and of the result that only a hit sets it (`ResultIsHit`). The heart is
`StrideSkipsNothing`: a match that begins inside a stride would lay the
character behind the window on some character of the pattern, and the stride
would have been shorter. Assumptions: the other case of a character is a
character, and calls are as `straddr` makes them.

It then proves of `HttpParse`, for every header and name a call can have, buffers
of any size, and an `int` and a `long` of any width:

| Theorem | Says |
|---|---|
| `UrlFound` | `UrlIsTarget` |
| `ParameterFound` | `ParameterIsFirst` |
| `FieldFound` | `FieldIsFirstLine` |
| `LengthFound` | `LengthIsNumber` |

Nothing here is an induction over the text: a function that walks a string is
the first position with some property, and `FirstOfIs` says of it that it is one
and none precedes it, or that there is none. Each theorem then compares two such
positions, the one the code's pointers reach and the one of the reference
definition. For the URL, `BlanksBefore` shows that only blanks lie between the
first blank and the first word, so that the code's second pointer is where that
word begins, and `UrlAt` that the blank it searches for, beyond the end of the line
if need be, is the one behind the word. For a parameter, `FoundIsWanted` weighs the
one place the code looks at against the places where a parameter of that name
begins and those where its text lies inside another, and `SameValue` compares
the two ways to its end: the code searches for the ampersand behind the `=`, the
reference from the start of the parameter, which is the same since the name
holds none. For a field, `NameAt` turns a match of `\r\n`, name and colon into
the start of a line and a match of the rest, and `NameOnLine` keeps that match on
its line: without the assumption that no letter's other case is a line break
(`EolAssumption`) a name could run over the end of its line. For the length,
`Number` is a recursive function; that it exists and is a number at every digit
(`HornerExists`, `HornerTyped`) is proved by an induction on a set
(`SetInduction`), which needs no operator parameter. Assumptions: the sizes are
natural numbers, a `long` holds every `int`, `eol` and the colon are
characters, and `eol` is the other case of no character but itself.

`FifoProofs` proves for any number of writers, any width of the counters, any set
of sizes asked for that is not above half the range of an `unsigned int`, and
puts and reads of any length:

| Theorem | Says |
|---|---|
| `RingInvariant` | `Spec => []IInv` |
| `RingTyped` | types; the size divides the modulus of the counters |
| `CopiesDisjoint` | `SlotsDisjoint` |
| `RingIsQueue` | `ImplementsQueue`: the ring is a `BoundedQueue` |

The arithmetic comes first. `Powers` shows by `SetInduction` that `shl` is what its
recursive definition says, `PowersDivide` that a smaller power of two divides a
larger one, and `SizeIsPower` that `fifo_cal_buffer_size` returns a power of two
below the modulus. So the remainder by the size does not notice when a counter
wraps, which is `SlotAfter`: the slot k places after a counter is its slot moved
on by k around the ring. `PutMoves`, `ReadMoves` and `FreeSpace` say what moving a
counter does to the wrapped differences `FIFO_DATA_LEN` and `FIFO_FREE_SIZE`.

`SlotsDisjoint` is not inductive. It follows from `Bounded` (the data, together with
what is being put, fits the ring; what is being read is part of the data) and
`OneWriter` (who is in a put holds the lock), and `Bounded` is stable because each
side only enlarges what the other one tests: the reader makes room, the writer
makes data, and a value loaded earlier is at worst too careful. `Written` and
`Taken` say of the two halves of a copy what is already in place; the writer's
copy leaves them alone because its slots lie outside the data (`PutGeometry`).
For the refinement, the abstract queue is `Contents`, what the slots between the
counters hold. Copies of a writer do not change it (`QueueKeeps`), `put_publish`
appends what `Written` says was copied (`QueueGrows`), `read_publish` and
`fifo_set_offset` drop its front (`QueueDrops`), of which `Taken` says that it is
what the reader has got, and every other step is a step of `BoundedQueue` that
leaves the queue alone, or none. `AskedFor` ties the length that a read copies to
the one it was called with: they are the same, or the ring held no more at the
first look. `BoundedQueue` states no fairness.

`DescriptorsProofs` proves for any number of descriptors, connections, workers,
accept threads and faults:

| Theorem | Says |
|---|---|
| `TypeCorrect` | types; a number that waits to be closed again is one of the process |
| `OnlyFailuresLeak` | `OnlyFailuresLose`: only the four failures of `Loses` leave a descriptor open without a holder, however often numbers are closed twice |
| `OnlySecondCloses` | `OnlySecondClosesHurt`: every step but second closes leaves each number with its holder |

An `open` adds nothing to `Leaked` only if the object is not held already, and
so do the program's own closes only if it is: `HeldWhere` ties this to the places
in the code, and `OneRecorder` keeps the workers from opening the record file
over one another. For the listening socket, whose number two threads write,
`ShutIsClosed` says that a `listen_fd` which was closed and not overwritten does
not refer to a listening socket, so resetting it loses none. Their conjunction
with `TypeOK` is inductive; `HeldIsOwn` is not part of it, since it does not hold. `Opens`, `Closes` and `ClosesNumber` say
what the kernel's two operations do to it, `OpenKeepsOwn` and `CloseKeepsOwn`
what they do to `HeldIsOwn`: objects in use that refer to themselves have
different numbers. Then there is one lemma per thread. Assumptions: there is a
number, and connections, files and sockets are different things.

Only model-checked, and why:

- Liveness (`ServedOrClosed`, `ClientReleased`, `WholeRequestAnswered`,
  `SaveEnds`, `StartsOrExits`, `ServesOrExits`, `SearchEnds`) and the fairness
  part of `ImplementsService`: fairness is stated with `ENABLED`, which the
  prover does not expand.
- That the remainder is the mask: `MCFifo` compares them for its counters only,
  since the prover knows no bitwise operations.

The type invariants of `ClientTalk`, `ThreadPool`, `Supervisor`, `Descriptors`,
`StringSearch` and `Fifo` are proved and are not part of a run.

## Not modelled

- libevent (`src/libevent-2.1.8-stable`, more than nine tenths of the lines of
  the repository) is third-party code. The modules rely on what it documents
  (callbacks of one base run one at a time, a bufferevent's order of callbacks,
  timers that fire late and never early), and model the one mechanism that the
  program gets wrong, the deferred close.
- The build without a pool (`config.h` compiles it out), the ring mode of the
  queue (never selected), `tpool_destroy` and `evserver_tpool_destroy` (never
  reached), `bm` and `bm_case` (never called).
- Trace output, the status display, date formatting, the other string helpers
  and the list macros keep no state that anything reads.
- The clock behind file names: two uploads of one device in the same microsecond
  share a file.
- The parts of a log's path (`parse_skylog_info`): which parameter goes where is
  one assignment each.
- The test client.

See `components` in `PROJECT.json`.

## Plan

Every invariant, action property and refinement that a passing run checks is
proved, up to fairness. What could still be added: the refinement of
`ConnService` with failing allocations, for which its lines would have to hold
items without a connection.
