----------------------------- MODULE ThreadPool -----------------------------
(***************************************************************************)
(* The start of the server (main.c, threadpool.c, event_server_tpool.c):   *)
(* main creates the threads of the pool, polls until all have reported,    *)
(* and queues one work per worker, evserver_worker_factory, ignoring what  *)
(* tpool_add_work returns.  Threads take works from the queue and run      *)
(* them; a worker's event loop normally never returns.  If a thread, the   *)
(* workers' records or the monitor cannot be created, main returns and     *)
(* ends the process.                                                       *)
(*                                                                         *)
(* Every step of a thread between two lock operations is an action.        *)
(***************************************************************************)
EXTENDS Integers, Sequences, FiniteSets

CONSTANTS
  NumThreads,   \* THREAD_POOL_SIZE
  NumWorks,     \* SERVER_THREAD_POOL_SIZE: workers to be run
  NoWork        \* an empty local variable

ASSUME NumThreadsAssumption == NumThreads \in Nat \ {0}
ASSUME NumWorksAssumption == NumWorks \in Nat
ASSUME NoWorkAssumption == NoWork \notin 1 .. NumWorks

Threads == 1 .. NumThreads
Works == 1 .. NumWorks

VARIABLES
  mainPc,          \* where main is
  created,         \* threads pthread_create has started
  added,           \* works for which tpool_add_work has returned
  rejected,        \* works that tpool_add_work refused
  unallocated,     \* works for which its calloc failed
  queue,           \* the list at queue_head
  tPc,             \* per thread, where it is
  work,            \* per thread, the work it took
  worker_counts,   \* _tpool->worker_counts
  working_counts,  \* _tpool->working_counts
  runs             \* per work, how often its routine was called

mainVars == <<mainPc, created, added, rejected, unallocated>>
vars == <<mainVars, queue, tPc, work, worker_counts, working_counts, runs>>

MainPcs == {"create", "poll", "check", "append", "signal", "monitor", "loop", "freed", "exited"}
ThreadPcs == {"none", "start", "lock", "wait", "taken", "run", "ran"}

Init ==
  /\ mainPc = "create"
  /\ created = 0
  /\ added = 0
  /\ rejected = {}
  /\ unallocated = {}
  /\ queue = <<>>
  /\ tPc = [t \in Threads |-> "none"]
  /\ work = [t \in Threads |-> NoWork]
  /\ worker_counts = 0
  /\ working_counts = 0
  /\ runs = [k \in Works |-> 0]

-----------------------------------------------------------------------------
(* main *)

(* tpool_create; the last pthread_create ends its loop. *)
tpool_create ==
  /\ mainPc = "create"
  /\ created' = created + 1
  /\ tPc' = [tPc EXCEPT ![created + 1] = "start"]
  /\ mainPc' = IF created + 1 = NumThreads THEN "poll" ELSE "create"
  /\ UNCHANGED <<added, rejected, unallocated, queue, work, worker_counts, working_counts, runs>>

(* Mutant: the failure is not reported to main. *)
create_fails_unreported ==
  /\ mainPc = "create"
  /\ mainPc' = "poll"
  /\ UNCHANGED <<created, added, rejected, unallocated, queue, tPc, work, worker_counts,
                 working_counts, runs>>

(* calloc, a lock or pthread_create fails: the pool is freed under the     *)
(* threads that were started, *)
tpool_create_fails ==
  /\ mainPc = "create"
  /\ mainPc' = "freed"
  /\ UNCHANGED <<created, added, rejected, unallocated, queue, tPc, work, worker_counts,
                 working_counts, runs>>

(* and main returns, if none of them has touched it and crashed before.    *)
main_returns ==
  /\ mainPc = "freed"
  /\ mainPc' = "exited"
  /\ UNCHANGED <<created, added, rejected, unallocated, queue, tPc, work, worker_counts,
                 working_counts, runs>>

(* evserver_tpool_create's loop after its k-th tpool_add_work. *)
AfterWork(k) == IF k = NumWorks THEN "monitor" ELSE "check"

(* main polls worker_counts until it is THREAD_POOL_SIZE. *)
tpool_get_worker_count ==
  /\ mainPc = "poll"
  /\ worker_counts = NumThreads
  /\ mainPc' = AfterWork(0)
  /\ UNCHANGED <<created, added, rejected, unallocated, queue, tPc, work, worker_counts, working_counts, runs>>

(* The workers' records cannot be made, and main returns. *)
evserver_tpool_new_fails ==
  /\ mainPc = "poll"
  /\ worker_counts = NumThreads
  /\ mainPc' = "exited"
  /\ UNCHANGED <<created, added, rejected, unallocated, queue, tPc, work, worker_counts,
                 working_counts, runs>>

(* The test for an idle thread, under the count's lock. *)
tpool_add_work ==
  /\ mainPc = "check"
  /\ \/ /\ working_counts < NumThreads
        /\ mainPc' = "append"
        /\ UNCHANGED <<added, rejected>>
     \/ /\ working_counts >= NumThreads
        /\ rejected' = rejected \cup {added + 1}
        /\ added' = added + 1
        /\ mainPc' = AfterWork(added + 1)
  /\ UNCHANGED <<created, unallocated, queue, tPc, work, worker_counts, working_counts, runs>>

(* calloc fails after the test; the caller ignores it. *)
add_work_calloc_fails ==
  /\ mainPc = "append"
  /\ unallocated' = unallocated \cup {added + 1}
  /\ added' = added + 1
  /\ mainPc' = AfterWork(added + 1)
  /\ UNCHANGED <<created, rejected, queue, tPc, work, worker_counts, working_counts, runs>>

(* The work goes to the end of the list, under the queue's lock. *)
add_work_append ==
  /\ mainPc = "append"
  /\ queue' = Append(queue, added + 1)
  /\ mainPc' = "signal"
  /\ UNCHANGED <<created, added, rejected, unallocated, tPc, work, worker_counts, working_counts, runs>>

Waiting == {t \in Threads : tPc[t] = "wait"}

(* Mutant: a thread is woken only if the queue was empty before. *)
signal_first_only ==
  /\ mainPc = "signal"
  /\ added' = added + 1
  /\ mainPc' = AfterWork(added + 1)
  /\ \/ (Waiting = {} \/ Len(queue) # 1) /\ UNCHANGED tPc
     \/ Len(queue) = 1 /\ \E t \in Waiting : tPc' = [tPc EXCEPT ![t] = "lock"]
  /\ UNCHANGED <<created, rejected, unallocated, queue, work, worker_counts, working_counts, runs>>

(* After the unlock: some waiting thread is woken, if there is one. *)
add_work_signal ==
  /\ mainPc = "signal"
  /\ added' = added + 1
  /\ mainPc' = AfterWork(added + 1)
  /\ \/ Waiting = {} /\ UNCHANGED tPc
     \/ \E t \in Waiting : tPc' = [tPc EXCEPT ![t] = "lock"]
  /\ UNCHANGED <<created, rejected, unallocated, queue, work, worker_counts, working_counts, runs>>

(* The monitor's thread is created, and main goes on to show the status;   *)
(* or main returns.                                                        *)
start_monitor ==
  /\ mainPc = "monitor"
  /\ mainPc' \in {"loop", "exited"}
  /\ UNCHANGED <<created, added, rejected, unallocated, queue, tPc, work, worker_counts,
                 working_counts, runs>>

-----------------------------------------------------------------------------
(* thread_routine *)

report(t) ==
  /\ tPc[t] = "start"
  /\ worker_counts' = worker_counts + 1
  /\ tPc' = [tPc EXCEPT ![t] = "lock"]
  /\ UNCHANGED <<mainVars, queue, work, working_counts, runs>>

(* Mutant: the head is read and not removed. *)
take_work_keeps_head(t) ==
  /\ tPc[t] = "lock"
  /\ \/ /\ queue = <<>>
        /\ tPc' = [tPc EXCEPT ![t] = "wait"]
        /\ UNCHANGED work
     \/ /\ queue # <<>>
        /\ work' = [work EXCEPT ![t] = Head(queue)]
        /\ tPc' = [tPc EXCEPT ![t] = "taken"]
  /\ UNCHANGED <<mainVars, queue, worker_counts, working_counts, runs>>

(* Under the queue's lock: wait while the queue is empty, else take its    *)
(* head.  A woken thread tests again.                                      *)
take_work(t) ==
  /\ tPc[t] = "lock"
  /\ \/ /\ queue = <<>>
        /\ tPc' = [tPc EXCEPT ![t] = "wait"]
        /\ UNCHANGED <<queue, work>>
     \/ /\ queue # <<>>
        /\ work' = [work EXCEPT ![t] = Head(queue)]
        /\ queue' = Tail(queue)
        /\ tPc' = [tPc EXCEPT ![t] = "taken"]
  /\ UNCHANGED <<mainVars, worker_counts, working_counts, runs>>

(* pthread_cond_wait may return without a signal. *)
spurious_wakeup(t) ==
  /\ tPc[t] = "wait"
  /\ tPc' = [tPc EXCEPT ![t] = "lock"]
  /\ UNCHANGED <<mainVars, queue, work, worker_counts, working_counts, runs>>

run_work(t) ==
  /\ tPc[t] = "taken"
  /\ working_counts' = working_counts + 1
  /\ runs' = [runs EXCEPT ![work[t]] = @ + 1]
  /\ tPc' = [tPc EXCEPT ![t] = "run"]
  /\ UNCHANGED <<mainVars, queue, work, worker_counts>>

(* evserver_worker_factory returns when its event loop fails. *)
work_returns(t) ==
  /\ tPc[t] = "run"
  /\ work' = [work EXCEPT ![t] = NoWork]
  /\ tPc' = [tPc EXCEPT ![t] = "ran"]
  /\ UNCHANGED <<mainVars, queue, worker_counts, working_counts, runs>>

end_work(t) ==
  /\ tPc[t] = "ran"
  /\ working_counts' = working_counts - 1
  /\ tPc' = [tPc EXCEPT ![t] = "lock"]
  /\ UNCHANGED <<mainVars, queue, work, worker_counts, runs>>

-----------------------------------------------------------------------------
Main ==
  \/ tpool_create
  \/ tpool_create_fails
  \/ main_returns
  \/ tpool_get_worker_count
  \/ evserver_tpool_new_fails
  \/ tpool_add_work
  \/ add_work_calloc_fails
  \/ add_work_append
  \/ add_work_signal
  \/ start_monitor

(* What threads do with a freed pool is undefined and ends with main.      *)
PoolUsable == mainPc \notin {"freed", "exited"}

thread_routine(t) ==
  /\ PoolUsable
  /\ report(t) \/ take_work(t) \/ run_work(t) \/ end_work(t)

Next ==
  \/ Main
  \/ \E t \in Threads : thread_routine(t)
  \/ PoolUsable /\ \E t \in Threads : spurious_wakeup(t) \/ work_returns(t)

Spec == Init /\ [][Next]_vars

(* Threads run; no wake-up without a signal and no return of a loop is     *)
(* assumed.                                                                *)
FairSpec ==
  /\ Spec
  /\ WF_vars(Main)
  /\ \A t \in Threads : WF_vars(thread_routine(t))

-----------------------------------------------------------------------------
(* Properties. *)

ThreadsAt(pcs) == {t \in Threads : tPc[t] \in pcs}

(* Every variable keeps its type. *)
TypeOK ==
  /\ mainPc \in MainPcs
  /\ created \in 0 .. NumThreads
  /\ added \in 0 .. NumWorks
  /\ rejected \subseteq Works
  /\ unallocated \subseteq Works
  /\ queue \in Seq(Works)
  /\ tPc \in [Threads -> ThreadPcs]
  /\ work \in [Threads -> Works \cup {NoWork}]
  /\ worker_counts \in 0 .. NumThreads
  /\ working_counts \in 0 .. NumThreads
  /\ runs \in [Works -> Nat]

(* The works for which there are threads; config.h has no others. *)
Covered == {k \in Works : k <= NumThreads}

(* Work k in the queue, and with a thread that has not called it yet. *)
Queued(k) == {i \in DOMAIN queue : queue[i] = k}
Taken(k) == {t \in ThreadsAt({"taken"}) : work[t] = k}

(* The places where work k is, or was run. *)
Traces(k) ==
  (IF k \in rejected THEN 1 ELSE 0)
    + (IF k \in unallocated THEN 1 ELSE 0)
    + Cardinality(Queued(k)) + Cardinality(Taken(k))
    + runs[k]

(* tpool_add_work has decided about work k. *)
Seen(k) == k <= added \/ (k = added + 1 /\ mainPc = "signal")

(* A work that tpool_add_work has seen is refused or not allocated, waits, *)
(* was taken, or has been run, exactly one of them and once: no worker's   *)
(* event base is dispatched by two threads, or again after its loop has    *)
(* returned, and none is lost between the queue and its thread.            *)
EachWorkOnce ==
  \A k \in Works : Traces(k) = IF Seen(k) THEN 1 ELSE 0

(* While a thread waits on queue_ready the works in the queue are no more  *)
(* than the threads on their way to it, counting the one main is about to  *)
(* wake: the signal after the unlock is never lost.                        *)
NoSleepOverWork ==
  Waiting # {} =>
    Len(queue) <= Cardinality(ThreadsAt({"start", "lock"}))
                    + (IF mainPc = "signal" THEN 1 ELSE 0)

(* Start-up ends: either the process ends, or the monitor is started and   *)
(* every worker that evserver_tpool_add_job will give connections to is    *)
(* run by a thread, but those whose work could not be allocated.           *)
StartsOrExits ==
  <>(\/ mainPc = "exited"
     \/ mainPc = "loop" /\ \A k \in Covered \ unallocated : runs[k] > 0)
=============================================================================
