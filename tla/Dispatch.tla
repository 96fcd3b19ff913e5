------------------------------ MODULE Dispatch ------------------------------
(***************************************************************************)
(* How an accepted connection reaches the worker thread that serves it     *)
(* (event_server_callback.c, event_server_tpool.c, event_server_worker.c,  *)
(* queue.c, evserver_client.c).                                            *)
(*                                                                         *)
(* The accept thread gives every connection to the next worker in turn:    *)
(* it pushes a job on the worker's bounded queue and writes one byte to    *)
(* the worker's socketpair.  The worker's event loop reads one byte, pops  *)
(* one job and turns it into a client of its loop; client callbacks run    *)
(* in that same loop and eventually release the client.  A push that finds *)
(* the queue full first flushes it: every job waiting there is freed and   *)
(* its connection closed, but neither the bytes already sent for them nor  *)
(* client_wait_count is taken back.                                        *)
(*                                                                         *)
(* Every step of a thread between two lock operations is an action.  The   *)
(* descriptor is abstracted to the connection it stands for (its number    *)
(* and the second, deferred close of it are the subject of Descriptors),   *)
(* and whatever a client callback decides about one is one action.         *)
(***************************************************************************)
EXTENDS Integers, Sequences, FiniteSets

CONSTANTS
  Conns,        \* the connections that may arrive
  NoJob,        \* no connection: an empty local variable, or an item whose data is NULL
  NumWorkers,   \* worker_size (SERVER_THREAD_POOL_SIZE)
  MaxDepth,     \* queue_t.max_depth (SERVER_WORKER_FIFO_BUF_SIZE)
  PipeCap,      \* one-byte sends the nonblocking socketpair takes before EAGAIN
  CounterMod,   \* 2^32: current_worker is an unsigned int
  AcceptMax,    \* CLIENT_ACCEPT_MAX_COUNT
  AllocFails    \* whether calloc may return NULL

ASSUME ConnsAssumption == NoJob \notin Conns
ASSUME NumWorkersAssumption == NumWorkers \in Nat \ {0}
ASSUME MaxDepthAssumption == MaxDepth \in Nat \ {0}
(* A unix stream socketpair takes some hundred one-byte sends, a queue 32. *)
ASSUME PipeCapAssumption == PipeCap \in Nat /\ PipeCap >= MaxDepth
(* 2^32 is a multiple of SERVER_THREAD_POOL_SIZE, which is 1024. *)
ASSUME CounterModAssumption == CounterMod \in Nat \ {0} /\ CounterMod % NumWorkers = 0
ASSUME AllocFailsAssumption == AllocFails \in BOOLEAN

Workers == 0 .. NumWorkers - 1
Jobs == Conns \cup {NoJob}

VARIABLES
  backlog,         \* connections accept(2) has not returned yet
  accPc,           \* where the accept thread is
  accJob,          \* the connection, then the item's data, it is distributing
  target,          \* worker_index of the last job
  current_worker,  \* evserver_tpool_t.current_worker
  queue,           \* per worker, the items of its queue
  depth,           \* per worker, queue_t.depth
  bytes,           \* per worker, bytes in its socketpair
  wPc,             \* per worker, where its thread is
  job,             \* per worker, the job it popped and has not disposed of
  clients,         \* per worker, the connections its event loop serves
  wait_count,      \* client_wait_count
  handling_count,  \* client_handling_count
  closed           \* connections the server has closed

vars == <<backlog, accPc, accJob, target, current_worker, queue, depth, bytes,
          wPc, job, clients, wait_count, handling_count, closed>>

accVars == <<backlog, accPc, accJob, target, current_worker>>

AccPcs == {"accept", "add_job", "push", "flush", "append", "count", "notify"}
WorkerPcs == {"loop", "pop", "wait", "woken", "popped", "new", "count", "uncount"}

Init ==
  /\ backlog = Conns
  /\ accPc = "accept"
  /\ accJob = NoJob
  /\ target = NumWorkers - 1
  /\ current_worker = 0
  /\ queue = [w \in Workers |-> <<>>]
  /\ depth = [w \in Workers |-> 0]
  /\ bytes = [w \in Workers |-> 0]
  /\ wPc = [w \in Workers |-> "loop"]
  /\ job = [w \in Workers |-> NoJob]
  /\ clients = [w \in Workers |-> {}]
  /\ wait_count = 0
  /\ handling_count = 0
  /\ closed = {}

-----------------------------------------------------------------------------
(* The accept thread. *)

(* Only _ev_talk_worker, the routine of the build without a worker pool,   *)
(* changes this counter: in the pool build it stays at its initial 0.      *)
connected_count == 0

(* accept(2) returns c; the connection is denied, cannot be made           *)
(* nonblocking, or goes on to evserver_distribute_job.                     *)
ev_accept_callback(c) ==
  /\ accPc = "accept"
  /\ c \in backlog
  /\ backlog' = backlog \ {c}
  /\ \/ /\ closed' = closed \cup {c}
        /\ UNCHANGED <<accPc, accJob>>
     \/ /\ connected_count <= AcceptMax
        /\ accPc' = "add_job"
        /\ accJob' = c
        /\ UNCHANGED closed
  /\ UNCHANGED <<target, current_worker, queue, depth, bytes, wPc, job, clients,
                 wait_count, handling_count>>

(* Under the pool's lock: the next worker in turn. *)
worker_index == current_worker % NumWorkers

(* Mutant: the worker's turn passes only when the item was allocated. *)
add_job_keeps_turn_on_failure ==
  /\ accPc = "add_job"
  /\ target' = worker_index
  /\ \/ /\ accPc' = "push"
        /\ current_worker' = (current_worker + 1) % CounterMod
        /\ UNCHANGED <<accJob, closed>>
     \/ /\ AllocFails
        /\ closed' = closed \cup {accJob}
        /\ accPc' = "accept"
        /\ accJob' = NoJob
        /\ UNCHANGED current_worker
  /\ UNCHANGED <<backlog, queue, depth, bytes, wPc, job, clients,
                 wait_count, handling_count>>

(* Mutant: the byte is sent even when the item was not allocated. *)
add_job_notifies_on_failure ==
  /\ accPc = "add_job"
  /\ target' = worker_index
  /\ current_worker' = (current_worker + 1) % CounterMod
  /\ \/ /\ accPc' = "push"
        /\ UNCHANGED <<accJob, closed, bytes>>
     \/ /\ AllocFails
        /\ closed' = closed \cup {accJob}
        /\ accPc' = "accept"
        /\ accJob' = NoJob
        /\ bytes' = [bytes EXCEPT ![worker_index] = IF @ < PipeCap THEN @ + 1 ELSE @]
  /\ UNCHANGED <<backlog, queue, depth, wPc, job, clients,
                 wait_count, handling_count>>

(* What the item allocated for job j may carry: when memdup's calloc fails *)
(* it goes on without data.                                                *)
item_alloc(j) == {j} \cup (IF AllocFails THEN {NoJob} ELSE {})

(* Under the worker's lock the item is allocated.  When calloc fails for   *)
(* the item itself the accept callback closes the connection.              *)
evserver_tpool_add_job ==
  /\ accPc = "add_job"
  /\ target' = worker_index
  /\ current_worker' = (current_worker + 1) % CounterMod
  /\ \/ /\ accPc' = "push"
        /\ accJob' \in item_alloc(accJob)
        /\ UNCHANGED closed
     \/ /\ AllocFails
        /\ closed' = closed \cup {accJob}
        /\ accPc' = "accept"
        /\ accJob' = NoJob
  /\ UNCHANGED <<backlog, queue, depth, bytes, wPc, job, clients,
                 wait_count, handling_count>>

(* Mutant: > where the code has >=. *)
queue_push_off_by_one ==
  /\ accPc = "push"
  /\ accPc' = IF depth[target] > MaxDepth THEN "flush" ELSE "append"
  /\ UNCHANGED <<backlog, accJob, target, current_worker, queue, depth, bytes,
                 wPc, job, clients, wait_count, handling_count, closed>>

(* queue_push reads the depth before it takes the queue's lock. *)
queue_push ==
  /\ accPc = "push"
  /\ accPc' = IF depth[target] >= MaxDepth THEN "flush" ELSE "append"
  /\ UNCHANGED <<backlog, accJob, target, current_worker, queue, depth, bytes,
                 wPc, job, clients, wait_count, handling_count, closed>>

(* pthread_cond_signal: at most the worker itself waits on its queue. *)
Signalled(w) == IF wPc[w] = "wait" THEN [wPc EXCEPT ![w] = "woken"] ELSE wPc

JobsIn(q) == {q[i] : i \in DOMAIN q} \ {NoJob}

(* Every waiting job is freed, and _evserver_worker_job_free closes its    *)
(* connection because processing is still false.                           *)
queue_flush ==
  /\ accPc = "flush"
  /\ closed' = closed \cup JobsIn(queue[target])
  /\ queue' = [queue EXCEPT ![target] = <<>>]
  /\ depth' = [depth EXCEPT ![target] = 0]
  /\ wPc' = Signalled(target)
  /\ accPc' = "append"
  /\ UNCHANGED <<backlog, accJob, target, current_worker, bytes, job, clients,
                 wait_count, handling_count>>

(* Mutant: pthread_cond_signal is missing. *)
queue_push_append_silent ==
  /\ accPc = "append"
  /\ queue' = [queue EXCEPT ![target] = Append(@, accJob)]
  /\ depth' = [depth EXCEPT ![target] = @ + 1]
  /\ accPc' = "count"
  /\ accJob' = NoJob
  /\ UNCHANGED <<backlog, target, current_worker, bytes, wPc, job, clients,
                 wait_count, handling_count, closed>>

(* Mutant: list_add where the code has list_add_tail. *)
queue_push_append_front ==
  /\ accPc = "append"
  /\ queue' = [queue EXCEPT ![target] = <<accJob>> \o @]
  /\ depth' = [depth EXCEPT ![target] = @ + 1]
  /\ wPc' = Signalled(target)
  /\ accPc' = "count"
  /\ accJob' = NoJob
  /\ UNCHANGED <<backlog, target, current_worker, bytes, job, clients,
                 wait_count, handling_count, closed>>

(* list_add_tail, depth and pthread_cond_signal under the queue's lock. *)
queue_push_append ==
  /\ accPc = "append"
  /\ queue' = [queue EXCEPT ![target] = Append(@, accJob)]
  /\ depth' = [depth EXCEPT ![target] = @ + 1]
  /\ wPc' = Signalled(target)
  /\ accPc' = "count"
  /\ accJob' = NoJob
  /\ UNCHANGED <<backlog, target, current_worker, bytes, job, clients,
                 wait_count, handling_count, closed>>

(* The job may be popped before it is counted as waiting. *)
count_waiting ==
  /\ accPc = "count"
  /\ wait_count' = wait_count + 1
  /\ accPc' = "notify"
  /\ UNCHANGED <<backlog, accJob, target, current_worker, queue, depth, bytes,
                 wPc, job, clients, handling_count, closed>>

(* Mutant: no byte is sent to a worker that is not in its loop: it is awake. *)
notify_worker_if_asleep ==
  /\ accPc = "notify"
  /\ bytes' = [bytes EXCEPT ![target] = IF wPc[target] = "loop" /\ @ < PipeCap THEN @ + 1 ELSE @]
  /\ accPc' = "accept"
  /\ UNCHANGED <<backlog, accJob, target, current_worker, queue, depth,
                 wPc, job, clients, wait_count, handling_count, closed>>

(* send(2) on the nonblocking socketpair, its result ignored: a full       *)
(* socketpair drops the byte.                                              *)
notify_worker ==
  /\ accPc = "notify"
  /\ bytes' = [bytes EXCEPT ![target] = IF @ < PipeCap THEN @ + 1 ELSE @]
  /\ accPc' = "accept"
  /\ UNCHANGED <<backlog, accJob, target, current_worker, queue, depth,
                 wPc, job, clients, wait_count, handling_count, closed>>

-----------------------------------------------------------------------------
(* A worker thread. *)

(* Mutant: recv takes every byte, and still only one job is popped. *)
read_callback_drains(w) ==
  /\ wPc[w] = "loop"
  /\ bytes[w] > 0
  /\ bytes' = [bytes EXCEPT ![w] = 0]
  /\ wPc' = [wPc EXCEPT ![w] = "pop"]
  /\ UNCHANGED <<accVars, queue, depth, job, clients, wait_count,
                 handling_count, closed>>

(* The loop finds the socketpair readable and recv(2) takes one byte. *)
evserver_worker_read_callback(w) ==
  /\ wPc[w] = "loop"
  /\ bytes[w] > 0
  /\ bytes' = [bytes EXCEPT ![w] = @ - 1]
  /\ wPc' = [wPc EXCEPT ![w] = "pop"]
  /\ UNCHANGED <<accVars, queue, depth, job, clients, wait_count,
                 handling_count, closed>>

(* The first item leaves the queue; an item without data is freed and the  *)
(* callback returns.                                                       *)
TakeHead(w) ==
  /\ queue[w] # <<>>
  /\ queue' = [queue EXCEPT ![w] = Tail(@)]
  /\ depth' = [depth EXCEPT ![w] = @ - 1]
  /\ job' = [job EXCEPT ![w] = Head(queue[w])]
  /\ wPc' = [wPc EXCEPT ![w] = IF Head(queue[w]) = NoJob THEN "loop" ELSE "popped"]

(* queue_pop takes the lock and tests the queue: it waits on an empty one. *)
queue_pop(w) ==
  /\ wPc[w] = "pop"
  /\ \/ TakeHead(w)
     \/ /\ queue[w] = <<>>
        /\ wPc' = [wPc EXCEPT ![w] = "wait"]
        /\ UNCHANGED <<queue, depth, job>>
  /\ UNCHANGED <<accVars, bytes, clients, wait_count, handling_count, closed>>

(* pthread_cond_timedwait times out after a second and the loop tests the  *)
(* queue again, or it returns 0 without a signal, as POSIX allows.         *)
queue_pop_wake(w) ==
  /\ wPc[w] = "wait"
  /\ \E pc \in {"pop", "woken"} : wPc' = [wPc EXCEPT ![w] = pc]
  /\ UNCHANGED <<accVars, queue, depth, bytes, job, clients, wait_count,
                 handling_count, closed>>

(* Mutant: depth is decremented without a test of the item. *)
queue_pop_signalled_unchecked(w) ==
  /\ wPc[w] = "woken"
  /\ \/ TakeHead(w)
     \/ /\ queue[w] = <<>>
        /\ depth' = [depth EXCEPT ![w] = @ - 1]
        /\ wPc' = [wPc EXCEPT ![w] = "loop"]
        /\ UNCHANGED <<queue, job>>
  /\ UNCHANGED <<accVars, bytes, clients, wait_count, handling_count, closed>>

(* timedwait returned 0: the loop is left, whatever the queue now holds.   *)
(* On an empty queue queue_pop returns NULL and the callback returns.      *)
queue_pop_signalled(w) ==
  /\ wPc[w] = "woken"
  /\ \/ TakeHead(w)
     \/ /\ queue[w] = <<>>
        /\ wPc' = [wPc EXCEPT ![w] = "loop"]
        /\ UNCHANGED <<queue, depth, job>>
  /\ UNCHANGED <<accVars, bytes, clients, wait_count, handling_count, closed>>

uncount_waiting(w) ==
  /\ wPc[w] = "popped"
  /\ wait_count' = wait_count - 1
  /\ wPc' = [wPc EXCEPT ![w] = "new"]
  /\ UNCHANGED <<accVars, queue, depth, bytes, job, clients, handling_count, closed>>

(* Mutant: processing is not set, so item_free closes a served connection. *)
client_new_not_processing(w) ==
  /\ wPc[w] = "new"
  /\ job' = [job EXCEPT ![w] = NoJob]
  /\ \/ /\ clients' = [clients EXCEPT ![w] = @ \cup {job[w]}]
        /\ wPc' = [wPc EXCEPT ![w] = "count"]
     \/ /\ wPc' = [wPc EXCEPT ![w] = "loop"]
        /\ UNCHANGED clients
  /\ closed' = closed \cup {job[w]}
  /\ UNCHANGED <<accVars, queue, depth, bytes, wait_count, handling_count>>

(* Mutant: a client that cannot be created is uncounted a second time. *)
client_new_uncounts_again(w) ==
  /\ wPc[w] = "new"
  /\ job' = [job EXCEPT ![w] = NoJob]
  /\ \/ /\ clients' = [clients EXCEPT ![w] = @ \cup {job[w]}]
        /\ wPc' = [wPc EXCEPT ![w] = "count"]
        /\ UNCHANGED <<closed, wait_count>>
     \/ /\ closed' = closed \cup {job[w]}
        /\ wPc' = [wPc EXCEPT ![w] = "loop"]
        /\ wait_count' = wait_count - 1
        /\ UNCHANGED clients
  /\ UNCHANGED <<accVars, queue, depth, bytes, handling_count>>

(* evserver_client_new registers the client with the worker's loop, or     *)
(* fails and item_free closes the connection.                              *)
evserver_client_new(w) ==
  /\ wPc[w] = "new"
  /\ job' = [job EXCEPT ![w] = NoJob]
  /\ \/ /\ clients' = [clients EXCEPT ![w] = @ \cup {job[w]}]
        /\ wPc' = [wPc EXCEPT ![w] = "count"]
        /\ UNCHANGED closed
     \/ /\ closed' = closed \cup {job[w]}
        /\ wPc' = [wPc EXCEPT ![w] = "loop"]
        /\ UNCHANGED clients
  /\ UNCHANGED <<accVars, queue, depth, bytes, wait_count, handling_count>>

count_handling(w) ==
  /\ wPc[w] = "count"
  /\ handling_count' = handling_count + 1
  /\ wPc' = [wPc EXCEPT ![w] = "loop"]
  /\ UNCHANGED <<accVars, queue, depth, bytes, job, clients, wait_count, closed>>

(* Mutant: a callback that forgets client_handling_count(-1). *)
client_exit_uncounted(w, c) ==
  /\ wPc[w] = "loop"
  /\ c \in clients[w]
  /\ clients' = [clients EXCEPT ![w] = @ \ {c}]
  /\ closed' = closed \cup {c}
  /\ UNCHANGED <<accVars, queue, depth, bytes, wPc, job, wait_count, handling_count>>

(* A timer, read, write or error callback of the loop ends with            *)
(* evserver_client_exit: the client is released and its socket closed.     *)
evserver_client_exit(w, c) ==
  /\ wPc[w] = "loop"
  /\ c \in clients[w]
  /\ clients' = [clients EXCEPT ![w] = @ \ {c}]
  /\ closed' = closed \cup {c}
  /\ wPc' = [wPc EXCEPT ![w] = "uncount"]
  /\ UNCHANGED <<accVars, queue, depth, bytes, job, wait_count, handling_count>>

uncount_handling(w) ==
  /\ wPc[w] = "uncount"
  /\ handling_count' = handling_count - 1
  /\ wPc' = [wPc EXCEPT ![w] = "loop"]
  /\ UNCHANGED <<accVars, queue, depth, bytes, job, clients, wait_count, closed>>

-----------------------------------------------------------------------------
(* What the accept thread does with a connection once it has accepted it. *)
Distribute ==
  \/ evserver_tpool_add_job
  \/ queue_push
  \/ queue_flush
  \/ queue_push_append
  \/ count_waiting
  \/ notify_worker

(* The steps of one pass of a worker through its notification callback. *)
HandleNotification(w) ==
  \/ evserver_worker_read_callback(w)
  \/ queue_pop(w)
  \/ queue_pop_wake(w)
  \/ queue_pop_signalled(w)
  \/ uncount_waiting(w)
  \/ evserver_client_new(w)
  \/ count_handling(w)
  \/ uncount_handling(w)

Next ==
  \/ \E c \in Conns : ev_accept_callback(c)
  \/ Distribute
  \/ \E w \in Workers : HandleNotification(w)
  \/ \E w \in Workers, c \in Conns : evserver_client_exit(w, c)

Spec == Init /\ [][Next]_vars

(* No connection need ever arrive, and no peer need ever speak.  Threads   *)
(* run, and the loop runs every callback whose event is active: the byte   *)
(* in the socketpair, and each client's timer until it is released.        *)
Fairness ==
  /\ WF_vars(Distribute)
  /\ \A w \in Workers : WF_vars(HandleNotification(w))
  /\ \A w \in Workers : \A c \in Conns : WF_vars(evserver_client_exit(w, c))

FairSpec == Spec /\ Fairness

-----------------------------------------------------------------------------
(* Properties. *)

(* Every variable keeps its type: counters are integers, each queue holds  *)
(* items, each worker serves connections.                                  *)
TypeOK ==
  /\ backlog \subseteq Conns
  /\ accPc \in AccPcs
  /\ accJob \in Jobs
  /\ target \in Workers
  /\ current_worker \in 0 .. CounterMod - 1
  /\ queue \in [Workers -> Seq(Jobs)]
  /\ depth \in [Workers -> Nat]
  /\ bytes \in [Workers -> 0 .. PipeCap]
  /\ wPc \in [Workers -> WorkerPcs]
  /\ job \in [Workers -> Jobs]
  /\ clients \in [Workers -> SUBSET Conns]
  /\ wait_count \in Int
  /\ handling_count \in Int
  /\ closed \subseteq Conns

(* Notifications of worker w that will still lead to a queue_pop: bytes in *)
(* the socketpair, the one its thread has read and not yet spent, and the  *)
(* one the accept thread owes for the job it has just pushed.              *)
Pending(w) ==
  bytes[w] + (IF wPc[w] \in {"pop", "wait", "woken"} THEN 1 ELSE 0)
           + (IF target = w /\ accPc \in {"count", "notify"} THEN 1 ELSE 0)

(* Notifications in excess of the jobs they could announce. *)
Stale(w) == Pending(w) - Len(queue[w])

(* There are never more jobs in a worker's queue than notifications that   *)
(* will pop them, whatever queue_flush discards, send drops or a spurious  *)
(* wake-up wastes: no accepted connection is stranded in a queue.          *)
NoLostWakeup == \A w \in Workers : Stale(w) >= 0

(* A worker waits in pthread_cond_timedwait only while its queue is empty: *)
(* every queue_push_append wakes it.                                       *)
NoMissedSignal == \A w \in Workers : wPc[w] = "wait" => queue[w] = <<>>

(* queue_t.depth is the length of the list, and although queue_push tests  *)
(* it outside the queue's lock the list never exceeds max_depth.           *)
QueueBounded ==
  \A w \in Workers : depth[w] = Len(queue[w]) /\ Len(queue[w]) <= MaxDepth

(* What makes the above inductive: the accept thread appends only where    *)
(* there is room, and both kinds of thread hold a connection, not NoJob,   *)
(* wherever they close or serve what they hold.                            *)
RoomToAppend == accPc = "append" => Len(queue[target]) < MaxDepth

HoldsConn ==
  /\ accPc = "add_job" => accJob \in Conns
  /\ \A w \in Workers : wPc[w] \in {"popped", "new"} => job[w] \in Conns

IInv ==
  /\ TypeOK
  /\ QueueBounded
  /\ RoomToAppend
  /\ HoldsConn
  /\ NoMissedSignal
  /\ NoLostWakeup

(* The places that will use or close connection c: those of a worker, *)
InQueue(c) ==
  UNION {{<<"queue", w, i>> : i \in {k \in DOMAIN queue[w] : queue[w][k] = c}} : w \in Workers}
InHand(c) == {<<"job", w, 0>> : w \in {v \in Workers : job[v] = c}}
InLoop(c) == {<<"client", w, 0>> : w \in {v \in Workers : c \in clients[v]}}

(* and all of them. *)
Owners(c) ==
  {<<"backlog", 0, 0>> : x \in backlog \cap {c}}
  \cup {<<"accept", 0, 0>> : x \in {accJob} \cap {c}}
  \cup InQueue(c) \cup InHand(c) \cup InLoop(c)
  \cup {<<"closed", 0, 0>> : x \in closed \cap {c}}

(* A connection has one owner: it is never served by two workers, never    *)
(* closed while it is queued or served, and, unless calloc fails, never    *)
(* forgotten (the path of processing and item_free in                      *)
(* _evserver_worker_add_event, and of queue_flush).                        *)
OneOwner ==
  \A c \in Conns : /\ Cardinality(Owners(c)) <= 1
                   /\ AllocFails \/ Owners(c) # {}

WorkersAt(pc) == {w \in Workers : wPc[w] = pc}
Served == UNION {clients[w] : w \in Workers}

(* client_handling_count is the number of clients the loops serve, up to   *)
(* the clients a worker has just added or released and not yet counted.    *)
HandlingCountExact ==
  handling_count = Cardinality(Served) + Cardinality(WorkersAt("uncount"))
                                       - Cardinality(WorkersAt("count"))

QueuedItems == UNION {{w} \X DOMAIN queue[w] : w \in Workers}

(* What client_wait_count should be at this point of every thread. *)
Waiting ==
  Cardinality(QueuedItems) + Cardinality(WorkersAt("popped"))
    - (IF accPc = "count" THEN 1 ELSE 0)

(* client_wait_count never falls below the number of jobs that wait.       *)
WaitCountCovers == wait_count >= Waiting

(* A notification outlives its job only because queue_flush discarded the  *)
(* job: nothing else makes a worker block in queue_pop later on.           *)
StaleOnlyByFlush ==
  [][\A w \in Workers :
       Stale(w)' > Stale(w) => accPc = "flush" /\ target = w]_vars

(* Successive jobs go to successive workers, also when current_worker      *)
(* wraps around and when a job could not be allocated.                     *)
RoundRobin ==
  [][accPc = "add_job" /\ accPc' # "add_job" => target' = (target + 1) % NumWorkers]_vars

(* Every connection given to evserver_distribute_job becomes a client of a *)
(* worker or is closed: the bytes and the timed wait together never leave  *)
(* it in a queue.                                                          *)
ServedOrClosed ==
  \A c \in Conns : (accJob = c) ~> (c \in Served \cup closed)

(* The stage of a connection in ConnService.  One that the accept thread   *)
(* still holds has not entered a line.                                     *)
StageOf(c) ==
  CASE c \in closed -> "closed"
    [] c \in Served -> "served"
    [] \E w \in Workers : job[w] = c -> "taken"
    [] \E w \in Workers : c \in JobsIn(queue[w]) -> "waiting"
    [] OTHER -> "new"

Service == INSTANCE ConnService
             WITH stage <- [c \in Conns |-> StageOf(c)],
                  line <- queue

(* Dispatch implements ConnService: first come first served per worker,    *)
(* shedding only of a whole line, one outcome per connection, and lines    *)
(* that keep moving.                                                       *)
ImplementsService == Service!FairSpec

(* A client whose peer stays silent is released after the idle timeout,    *)
(* which its loop's timer callback is there to do.                         *)
IdleClientReleased ==
  \A c \in Conns : (c \in Served) ~> (c \in closed)

=============================================================================
