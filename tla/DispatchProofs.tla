--------------------------- MODULE DispatchProofs ---------------------------
(* Proofs about Dispatch for every number of workers, connections and      *)
(* failures, and every queue depth and socketpair capacity allowed by its  *)
(* assumptions.                                                            *)
EXTENDS Dispatch, FiniteSetTheorems, SequenceTheorems, TLAPS

(* Workers are numbered from 0, and there is a last one. *)
LEMMA WorkerRange == NumWorkers - 1 \in Workers /\ Workers \subseteq Nat
  BY NumWorkersAssumption DEF Workers

(* The initial state satisfies the inductive invariant. *)
LEMMA InitIInv == Init => IInv
  <1> SUFFICES ASSUME Init PROVE IInv
    OBVIOUS
  <1> USE DEF Init
  <1>1. TypeOK
    BY WorkerRange, PipeCapAssumption, CounterModAssumption DEF TypeOK, AccPcs, WorkerPcs, Jobs
  <1>2. QueueBounded
    BY MaxDepthAssumption DEF QueueBounded
  <1>3. RoomToAppend /\ HoldsConn /\ NoMissedSignal
    BY DEF RoomToAppend, HoldsConn, NoMissedSignal
  <1>4. NoLostWakeup
    BY DEF NoLostWakeup, Stale, Pending
  <1> QED
    BY <1>1, <1>2, <1>3, <1>4 DEF IInv

(* accept(2) and the limit touch no queue and no worker. *)
LEMMA AcceptStep ==
  ASSUME IInv, NEW c \in Conns, ev_accept_callback(c) PROVE IInv'
  <1> USE DEF IInv, ev_accept_callback
  <1>1. TypeOK' BY DEF TypeOK, AccPcs, Jobs
  <1>2. (QueueBounded /\ RoomToAppend /\ HoldsConn /\ NoMissedSignal)'
    BY DEF QueueBounded, RoomToAppend, HoldsConn, NoMissedSignal
  <1>3. NoLostWakeup'
    BY DEF NoLostWakeup, Stale, Pending
  <1> QED BY <1>1, <1>2, <1>3

(* The accept thread's steps with a connection: the test, the flush, the  *)
(* append, the count and the byte.                                         *)
LEMMA DistributeStep ==
  ASSUME IInv, Distribute PROVE IInv'
  <1> USE DEF IInv
  <1>1. CASE evserver_tpool_add_job
    <2> USE <1>1 DEF evserver_tpool_add_job
    <2>1. worker_index \in Workers
      BY NumWorkersAssumption, CounterModAssumption DEF TypeOK, Workers, worker_index
    <2>2. (current_worker + 1) % CounterMod \in 0 .. CounterMod - 1
      BY CounterModAssumption DEF TypeOK
    <2>3. TypeOK' BY <2>1, <2>2 DEF TypeOK, AccPcs, Jobs, HoldsConn, item_alloc
    <2>4. (QueueBounded /\ RoomToAppend /\ HoldsConn /\ NoMissedSignal)'
      BY DEF QueueBounded, RoomToAppend, HoldsConn, NoMissedSignal
    <2>5. NoLostWakeup' BY DEF NoLostWakeup, Stale, Pending
    <2> QED BY <2>3, <2>4, <2>5
  <1>2. CASE queue_push
    <2> USE <1>2 DEF queue_push
    <2>1. TypeOK' BY DEF TypeOK, AccPcs
    <2>2. RoomToAppend' BY MaxDepthAssumption DEF RoomToAppend, QueueBounded, TypeOK
    <2>3. (QueueBounded /\ HoldsConn /\ NoMissedSignal)'
      BY DEF QueueBounded, HoldsConn, NoMissedSignal
    <2>4. NoLostWakeup' BY DEF NoLostWakeup, Stale, Pending
    <2> QED BY <2>1, <2>2, <2>3, <2>4
  <1>3. CASE queue_flush
    <2> USE <1>3 DEF queue_flush
    <2>1. TypeOK' BY DEF TypeOK, AccPcs, WorkerPcs, Jobs, JobsIn, Signalled
    <2>2. RoomToAppend' BY MaxDepthAssumption DEF RoomToAppend, TypeOK
    <2>3. QueueBounded' BY MaxDepthAssumption DEF QueueBounded, TypeOK
    <2>4. (HoldsConn /\ NoMissedSignal)' BY DEF HoldsConn, NoMissedSignal, Signalled, TypeOK
    <2>5. NoLostWakeup' BY DEF NoLostWakeup, Stale, Pending, TypeOK, Signalled
    <2> QED BY <2>1, <2>2, <2>3, <2>4, <2>5
  <1>4. CASE queue_push_append
    <2> USE <1>4 DEF queue_push_append
    <2>1. TypeOK' BY DEF TypeOK, AccPcs, WorkerPcs, Jobs, Signalled
    <2>2. QueueBounded' BY MaxDepthAssumption DEF QueueBounded, RoomToAppend, TypeOK
    <2>3. (HoldsConn /\ RoomToAppend)' BY DEF HoldsConn, RoomToAppend, Signalled, TypeOK
    <2>4. NoMissedSignal' BY DEF NoMissedSignal, Signalled, TypeOK
    <2>5. NoLostWakeup' BY DEF NoLostWakeup, Stale, Pending, TypeOK, Signalled
    <2> QED BY <2>1, <2>2, <2>3, <2>4, <2>5
  <1>5. CASE count_waiting
    <2> USE <1>5 DEF count_waiting
    <2>1. TypeOK' BY DEF TypeOK, AccPcs
    <2>2. (QueueBounded /\ RoomToAppend /\ HoldsConn /\ NoMissedSignal)'
      BY DEF QueueBounded, RoomToAppend, HoldsConn, NoMissedSignal
    <2>3. NoLostWakeup' BY DEF NoLostWakeup, Stale, Pending
    <2> QED BY <2>1, <2>2, <2>3
  <1>6. CASE notify_worker
    <2> USE <1>6 DEF notify_worker
    <2>1. TypeOK' BY PipeCapAssumption DEF TypeOK, AccPcs
    <2>2. (QueueBounded /\ RoomToAppend /\ HoldsConn /\ NoMissedSignal)'
      BY DEF QueueBounded, RoomToAppend, HoldsConn, NoMissedSignal
    <2>3. NoLostWakeup'
      BY PipeCapAssumption, MaxDepthAssumption
         DEF NoLostWakeup, Stale, Pending, TypeOK, QueueBounded
    <2> QED BY <2>1, <2>2, <2>3
  <1> QED
    BY <1>1, <1>2, <1>3, <1>4, <1>5, <1>6 DEF Distribute

(* What both forms of queue_pop share: the head leaves worker w's queue    *)
(* and the notification that announced it is spent with it.                *)
LEMMA TakeHeadStep ==
  ASSUME IInv, NEW w \in Workers, TakeHead(w), wPc[w] \in {"pop", "woken"},
         UNCHANGED <<accVars, bytes, clients, wait_count, handling_count, closed>>
  PROVE  IInv'
  <1> USE DEF IInv, TakeHead, accVars
  <1>1. /\ queue[w] \in Seq(Jobs) /\ queue[w] # <<>>
        /\ Head(queue[w]) \in Jobs /\ Tail(queue[w]) \in Seq(Jobs)
        /\ Len(Tail(queue[w])) = Len(queue[w]) - 1
        /\ Len(queue[w]) \in Nat \ {0}
    BY DEF TypeOK
  <1>2. TypeOK' BY <1>1 DEF TypeOK, WorkerPcs, QueueBounded
  <1>3. QueueBounded' BY <1>1, MaxDepthAssumption DEF QueueBounded, TypeOK
  <1>4. RoomToAppend' BY <1>1, MaxDepthAssumption DEF RoomToAppend, TypeOK
  <1>5. HoldsConn' BY <1>1 DEF HoldsConn, TypeOK, Jobs
  <1>6. NoMissedSignal' BY <1>1 DEF NoMissedSignal, TypeOK
  <1>7. NoLostWakeup' BY <1>1 DEF NoLostWakeup, Stale, Pending, TypeOK
  <1> QED BY <1>2, <1>3, <1>4, <1>5, <1>6, <1>7

(* A worker's steps with a notification. *)
LEMMA HandleNotificationStep ==
  ASSUME IInv, NEW w \in Workers, HandleNotification(w) PROVE IInv'
  <1> USE DEF IInv, accVars
  <1>1. CASE evserver_worker_read_callback(w)
    <2> USE <1>1 DEF evserver_worker_read_callback
    <2>0. bytes[w] - 1 \in 0 .. PipeCap
      BY PipeCapAssumption DEF TypeOK
    <2>1. TypeOK' BY <2>0 DEF TypeOK, WorkerPcs
    <2>2. (QueueBounded /\ RoomToAppend /\ HoldsConn /\ NoMissedSignal)'
      BY DEF QueueBounded, RoomToAppend, HoldsConn, NoMissedSignal, TypeOK
    <2>3. NoLostWakeup' BY DEF NoLostWakeup, Stale, Pending, TypeOK
    <2> QED BY <2>1, <2>2, <2>3
  <1>2. CASE queue_pop(w)
    <2>1. CASE TakeHead(w)
      BY <1>2, <2>1, TakeHeadStep DEF queue_pop
    <2>2. CASE /\ queue[w] = <<>>
               /\ wPc' = [wPc EXCEPT ![w] = "wait"]
               /\ UNCHANGED <<queue, depth, job>>
      <3> USE <1>2, <2>2 DEF queue_pop
      <3>1. TypeOK' BY DEF TypeOK, WorkerPcs
      <3>2. (QueueBounded /\ RoomToAppend /\ HoldsConn /\ NoMissedSignal)'
        BY DEF QueueBounded, RoomToAppend, HoldsConn, NoMissedSignal, TypeOK
      <3>3. NoLostWakeup' BY DEF NoLostWakeup, Stale, Pending, TypeOK
      <3> QED BY <3>1, <3>2, <3>3
    <2> QED BY <1>2, <2>1, <2>2 DEF queue_pop
  <1>3. CASE queue_pop_wake(w)
    <2> USE <1>3 DEF queue_pop_wake
    <2>1. TypeOK' BY DEF TypeOK, WorkerPcs
    <2>2. (QueueBounded /\ RoomToAppend /\ HoldsConn /\ NoMissedSignal)'
      BY DEF QueueBounded, RoomToAppend, HoldsConn, NoMissedSignal, TypeOK
    <2>3. NoLostWakeup' BY DEF NoLostWakeup, Stale, Pending, TypeOK
    <2> QED BY <2>1, <2>2, <2>3
  <1>4. CASE queue_pop_signalled(w)
    <2>1. CASE TakeHead(w)
      BY <1>4, <2>1, TakeHeadStep DEF queue_pop_signalled
    <2>2. CASE /\ queue[w] = <<>>
               /\ wPc' = [wPc EXCEPT ![w] = "loop"]
               /\ UNCHANGED <<queue, depth, job>>
      <3> USE <1>4, <2>2 DEF queue_pop_signalled
      <3>1. TypeOK' BY DEF TypeOK, WorkerPcs
      <3>2. (QueueBounded /\ RoomToAppend /\ HoldsConn /\ NoMissedSignal)'
        BY DEF QueueBounded, RoomToAppend, HoldsConn, NoMissedSignal, TypeOK
      <3>3. NoLostWakeup' BY DEF NoLostWakeup, Stale, Pending, TypeOK
      <3> QED BY <3>1, <3>2, <3>3
    <2> QED BY <1>4, <2>1, <2>2 DEF queue_pop_signalled
  <1>5. CASE uncount_waiting(w)
    <2> USE <1>5 DEF uncount_waiting
    <2>1. TypeOK' BY DEF TypeOK, WorkerPcs
    <2>2. (QueueBounded /\ RoomToAppend /\ HoldsConn /\ NoMissedSignal)'
      BY DEF QueueBounded, RoomToAppend, HoldsConn, NoMissedSignal, TypeOK
    <2>3. NoLostWakeup' BY DEF NoLostWakeup, Stale, Pending, TypeOK
    <2> QED BY <2>1, <2>2, <2>3
  <1>6. CASE evserver_client_new(w)
    <2> USE <1>6 DEF evserver_client_new
    <2>0. clients[w] \cup {job[w]} \in SUBSET Conns /\ NoJob \in Jobs
      BY DEF TypeOK, Jobs, HoldsConn
    <2>1. TypeOK' BY <2>0 DEF TypeOK, WorkerPcs
    <2>2. (QueueBounded /\ RoomToAppend /\ HoldsConn /\ NoMissedSignal)'
      BY DEF QueueBounded, RoomToAppend, HoldsConn, NoMissedSignal, TypeOK
    <2>3. NoLostWakeup' BY DEF NoLostWakeup, Stale, Pending, TypeOK
    <2> QED BY <2>1, <2>2, <2>3
  <1>7. CASE count_handling(w)
    <2> USE <1>7 DEF count_handling
    <2>1. TypeOK' BY DEF TypeOK, WorkerPcs
    <2>2. (QueueBounded /\ RoomToAppend /\ HoldsConn /\ NoMissedSignal)'
      BY DEF QueueBounded, RoomToAppend, HoldsConn, NoMissedSignal, TypeOK
    <2>3. NoLostWakeup' BY DEF NoLostWakeup, Stale, Pending, TypeOK
    <2> QED BY <2>1, <2>2, <2>3
  <1>8. CASE uncount_handling(w)
    <2> USE <1>8 DEF uncount_handling
    <2>1. TypeOK' BY DEF TypeOK, WorkerPcs
    <2>2. (QueueBounded /\ RoomToAppend /\ HoldsConn /\ NoMissedSignal)'
      BY DEF QueueBounded, RoomToAppend, HoldsConn, NoMissedSignal, TypeOK
    <2>3. NoLostWakeup' BY DEF NoLostWakeup, Stale, Pending, TypeOK
    <2> QED BY <2>1, <2>2, <2>3
  <1> QED
    BY <1>1, <1>2, <1>3, <1>4, <1>5, <1>6, <1>7, <1>8 DEF HandleNotification

(* The release of a client. *)
LEMMA ClientExitStep ==
  ASSUME IInv, NEW w \in Workers, NEW c \in Conns, evserver_client_exit(w, c)
  PROVE  IInv'
  <1> USE DEF IInv, accVars, evserver_client_exit
  <1>1. TypeOK' BY DEF TypeOK, WorkerPcs
  <1>2. (QueueBounded /\ RoomToAppend /\ HoldsConn /\ NoMissedSignal)'
    BY DEF QueueBounded, RoomToAppend, HoldsConn, NoMissedSignal, TypeOK
  <1>3. NoLostWakeup' BY DEF NoLostWakeup, Stale, Pending, TypeOK
  <1> QED BY <1>1, <1>2, <1>3

(* Every step preserves the inductive invariant. *)
LEMMA StepIInv == IInv /\ [Next]_vars => IInv'
  <1> SUFFICES ASSUME IInv, [Next]_vars PROVE IInv'
    OBVIOUS
  <1>1. CASE \E c \in Conns : ev_accept_callback(c)
    BY <1>1, AcceptStep
  <1>2. CASE Distribute
    BY <1>2, DistributeStep
  <1>3. CASE \E w \in Workers : HandleNotification(w)
    BY <1>3, HandleNotificationStep
  <1>4. CASE \E w \in Workers, c \in Conns : evserver_client_exit(w, c)
    BY <1>4, ClientExitStep
  <1>5. CASE UNCHANGED vars
    BY <1>5 DEF vars, IInv, TypeOK, QueueBounded, RoomToAppend, HoldsConn,
                NoMissedSignal, NoLostWakeup, Stale, Pending
  <1> QED
    BY <1>1, <1>2, <1>3, <1>4, <1>5 DEF Next

(* The conjunction that the steps of the accept thread and of the workers  *)
(* preserve: types, the depth field, room before an append, and the two    *)
(* facts about wake-ups.                                                   *)
THEOREM InductiveInvariant == Spec => []IInv
  BY InitIInv, StepIInv, PTL DEF Spec

(* Every variable of the dispatcher keeps its type; in particular depth    *)
(* never becomes negative and the socketpair never overflows.              *)
THEOREM TypeCorrect == Spec => []TypeOK
  <1>1. IInv => TypeOK
    BY DEF IInv
  <1> QED BY <1>1, InductiveInvariant, PTL

(* queue_push's unlocked test of depth is enough to bound the queue.       *)
THEOREM QueueIsBounded == Spec => []QueueBounded
  <1>1. IInv => QueueBounded
    BY DEF IInv
  <1> QED BY <1>1, InductiveInvariant, PTL

(* A job in a queue always has a notification on its way, although a flush *)
(* leaves bytes behind, a full socketpair drops one and queue_pop may      *)
(* return NULL: provided the socketpair holds as many bytes as the queue   *)
(* holds jobs (PipeCapAssumption).                                         *)
THEOREM WakeupsNotLost == Spec => []NoLostWakeup
  <1>1. IInv => NoLostWakeup
    BY DEF IInv
  <1> QED BY <1>1, InductiveInvariant, PTL

(* A worker blocked in queue_pop has an empty queue: push always wakes it. *)
THEOREM SignalsNotMissed == Spec => []NoMissedSignal
  <1>1. IInv => NoMissedSignal
    BY DEF IInv
  <1> QED BY <1>1, InductiveInvariant, PTL

(* Popping a job spends exactly one notification. *)
LEMMA TakeHeadStale ==
  ASSUME IInv, NEW w \in Workers, NEW v \in Workers,
         TakeHead(w), wPc[w] \in {"pop", "woken"},
         UNCHANGED <<accVars, bytes, clients, wait_count, handling_count, closed>>
  PROVE  Stale(v)' <= Stale(v)
  <1>1. /\ queue[w] \in Seq(Jobs) /\ queue[w] # <<>>
        /\ Len(Tail(queue[w])) = Len(queue[w]) - 1
        /\ Len(queue[w]) \in Nat \ {0}
    BY DEF IInv, TypeOK, TakeHead
  <1>2. bytes[v] \in Int /\ Len(queue[v]) \in Int
    BY PipeCapAssumption DEF IInv, TypeOK
  <1>3. CASE v = w
    <2>1. wPc'[w] \notin {"pop", "wait", "woken"}
      BY DEF IInv, TypeOK, TakeHead
    <2>2. Pending(w)' = Pending(w) - 1
      BY <1>2, <1>3, <2>1 DEF Pending, accVars
    <2>3. Len(queue'[w]) = Len(queue[w]) - 1
      BY <1>1 DEF IInv, TypeOK, TakeHead
    <2>4. Pending(w) \in Int
      BY <1>2, <1>3 DEF Pending
    <2> QED BY <1>1, <1>3, <2>2, <2>3, <2>4 DEF Stale
  <1>4. CASE v # w
    BY <1>2, <1>4 DEF IInv, TypeOK, TakeHead, Stale, Pending, accVars
  <1> QED BY <1>3, <1>4

(* Of all steps only queue_flush leaves a worker with more notifications   *)
(* than jobs to pop: the bytes of the jobs it threw away.                  *)
THEOREM FlushAloneLeavesStaleBytes == Spec => StaleOnlyByFlush
  <1>1. ASSUME IInv, Next, NEW v \in Workers, accPc # "flush" \/ target # v
        PROVE  Stale(v)' <= Stale(v)
    <2> USE <1>1 DEF IInv, Stale, Pending, TypeOK, accVars
    <2>1. CASE \E c \in Conns : ev_accept_callback(c)
      BY <2>1 DEF ev_accept_callback
    <2>2. CASE Distribute
      <3>1. CASE evserver_tpool_add_job BY <3>1 DEF evserver_tpool_add_job
      <3>2. CASE queue_push BY <3>2 DEF queue_push
      <3>3. CASE queue_flush BY <3>3 DEF queue_flush, Signalled
      <3>4. CASE queue_push_append BY <3>4 DEF queue_push_append, Signalled
      <3>5. CASE count_waiting BY <3>5 DEF count_waiting
      <3>6. CASE notify_worker BY <3>6, PipeCapAssumption DEF notify_worker
      <3> QED BY <2>2, <3>1, <3>2, <3>3, <3>4, <3>5, <3>6 DEF Distribute
    <2>3. ASSUME NEW w \in Workers, HandleNotification(w) PROVE Stale(v)' <= Stale(v)
      <3>1. CASE evserver_worker_read_callback(w) BY <3>1 DEF evserver_worker_read_callback
      <3>2. CASE queue_pop(w) 
        <4>1. CASE TakeHead(w) BY <3>2, <4>1, TakeHeadStale DEF queue_pop
        <4>2. CASE ~TakeHead(w) BY <3>2, <4>2 DEF queue_pop
        <4> QED BY <4>1, <4>2
      <3>3. CASE queue_pop_wake(w) BY <3>3 DEF queue_pop_wake
      <3>4. CASE queue_pop_signalled(w) 
        <4>1. CASE TakeHead(w) BY <3>4, <4>1, TakeHeadStale DEF queue_pop_signalled
        <4>2. CASE ~TakeHead(w) BY <3>4, <4>2 DEF queue_pop_signalled
        <4> QED BY <4>1, <4>2
      <3>5. CASE uncount_waiting(w) BY <3>5 DEF uncount_waiting
      <3>6. CASE evserver_client_new(w) BY <3>6 DEF evserver_client_new
      <3>7. CASE count_handling(w) BY <3>7 DEF count_handling
      <3>8. CASE uncount_handling(w) BY <3>8 DEF uncount_handling
      <3> QED BY <2>3, <3>1, <3>2, <3>3, <3>4, <3>5, <3>6, <3>7, <3>8
              DEF HandleNotification
    <2>4. CASE \E w \in Workers, c \in Conns : evserver_client_exit(w, c)
      BY <2>4 DEF evserver_client_exit
    <2> QED BY <1>1, <2>1, <2>2, <2>3, <2>4 DEF Next
  <1>2. ASSUME IInv, IInv', NEW v \in Workers PROVE Stale(v) \in Int /\ Stale(v)' \in Int
    <2>1. bytes[v] \in Int /\ bytes'[v] \in Int
      BY <1>2, PipeCapAssumption DEF IInv, TypeOK
    <2>2. Len(queue[v]) \in Int /\ Len(queue'[v]) \in Int
      BY <1>2 DEF IInv, TypeOK
    <2>3. Pending(v) \in Int /\ Pending(v)' \in Int
      BY <2>1 DEF Pending
    <2> QED BY <2>2, <2>3 DEF Stale
  <1>3. IInv /\ IInv' /\ [Next]_vars
          => [\A w \in Workers : Stale(w)' > Stale(w) => accPc = "flush" /\ target = w]_vars
    BY <1>1, <1>2
  <1> QED
    BY <1>3, InductiveInvariant, PTL DEF Spec, StaleOnlyByFlush

-----------------------------------------------------------------------------
(***************************************************************************)
(* What becomes of a connection: it has one owner, the counters agree with *)
(* the owners, workers take turns, and every step is one that ConnService  *)
(* allows.                                                                 *)
(***************************************************************************)

-----------------------------------------------------------------------------
(* What makes OneOwner inductive: the six kinds of place a connection can  *)
(* be in exclude each other, and within each kind the place is unique.     *)

Waits(c) == \E w \in Workers : \E i \in DOMAIN queue[w] : queue[w][i] = c
Held(c) == \E w \in Workers : job[w] = c

Alone(c) ==
  /\ c \in backlog => accJob # c
  /\ c \in backlog \/ accJob = c => ~Waits(c)
  /\ c \in backlog \/ accJob = c \/ Waits(c) => ~Held(c)
  /\ c \in backlog \/ accJob = c \/ Waits(c) \/ Held(c) => c \notin Served
  /\ c \in backlog \/ accJob = c \/ Waits(c) \/ Held(c) \/ c \in Served => c \notin closed

OnePlace(c) ==
  \A v, w \in Workers : \A i \in DOMAIN queue[v], j \in DOMAIN queue[w] :
    queue[v][i] = c /\ queue[w][j] = c => v = w /\ i = j

OneJob(c) == \A v, w \in Workers : job[v] = c /\ job[w] = c => v = w

OneServer(c) == \A v, w \in Workers : c \in clients[v] /\ c \in clients[w] => v = w

Somewhere(c) ==
  AllocFails \/ c \in backlog \/ accJob = c \/ Waits(c) \/ Held(c) \/ c \in Served \/ c \in closed

(* A thread that is not distributing or serving a job holds none. *)
HandsFree ==
  /\ accPc \in {"accept", "count", "notify"} => accJob = NoJob
  /\ \A w \in Workers : wPc[w] \notin {"popped", "new"} => job[w] = NoJob

Owned(c) == Alone(c) /\ OnePlace(c) /\ OneJob(c) /\ OneServer(c) /\ Somewhere(c)

Ownership == HandsFree /\ \A c \in Conns : Owned(c)

-----------------------------------------------------------------------------
(* What each change of a place does to where connection c is. *)

(* A queue, the jobs in hand or the clients that do not change. *)
LEMMA Unmoved ==
  ASSUME NEW c
  PROVE  /\ UNCHANGED queue => (Waits(c)' <=> Waits(c)) /\ (OnePlace(c)' <=> OnePlace(c))
         /\ UNCHANGED job => (Held(c)' <=> Held(c)) /\ (OneJob(c)' <=> OneJob(c))
         /\ UNCHANGED clients => Served' = Served /\ (OneServer(c)' <=> OneServer(c))
BY DEF Waits, OnePlace, Held, OneJob, Served, OneServer

(* The queue of a worker is a list of items. *)
LEMMA QueueTyped ==
  ASSUME IInv, NEW w \in Workers
  PROVE  queue[w] \in Seq(Jobs) /\ Len(queue[w]) \in Nat /\ DOMAIN queue[w] = 1 .. Len(queue[w])
<1>1. queue[w] \in Seq(Jobs)
  BY DEF IInv, TypeOK
<1> QED BY <1>1, LenProperties

(* queue_pop: the head has left the queue, all others wait. *)
LEMMA HeadLeaves ==
  ASSUME IInv, NEW w \in Workers, queue[w] # <<>>, queue' = [queue EXCEPT ![w] = Tail(@)],
         NEW c, OnePlace(c)
  PROVE  /\ OnePlace(c)'
         /\ Waits(c) <=> Waits(c)' \/ c = Head(queue[w])
         /\ ~(Waits(c)' /\ c = Head(queue[w]))
<1>1. /\ Len(queue[w]) \in Nat /\ DOMAIN queue[w] = 1 .. Len(queue[w])
      /\ queue[w] \in Seq(Jobs) /\ Len(queue[w]) # 0
  <2>1. queue[w] \in Seq(Jobs) /\ Len(queue[w]) \in Nat /\ DOMAIN queue[w] = 1 .. Len(queue[w])
    BY QueueTyped
  <2>2. Len(queue[w]) # 0
    BY <2>1
  <2> QED BY <2>1, <2>2
<1>2. /\ Tail(queue[w]) \in Seq(Jobs) /\ Len(Tail(queue[w])) = Len(queue[w]) - 1
      /\ \A i \in 1 .. Len(Tail(queue[w])) : Tail(queue[w])[i] = queue[w][i + 1]
  BY <1>1, HeadTailProperties
<1>3. DOMAIN Tail(queue[w]) = 1 .. Len(queue[w]) - 1
  BY <1>2, LenProperties
<1>4. /\ queue'[w] = Tail(queue[w])
      /\ \A v \in Workers \ {w} : queue'[v] = queue[v]
  BY DEF IInv, TypeOK
<1>5. /\ DOMAIN queue'[w] = 1 .. Len(queue[w]) - 1
      /\ \A i \in 1 .. Len(queue[w]) - 1 : queue'[w][i] = queue[w][i + 1] /\ i + 1 \in DOMAIN queue[w]
      /\ 1 \in DOMAIN queue[w] /\ Head(queue[w]) = queue[w][1]
      /\ \A i \in DOMAIN queue[w] : i = 1 \/ (i - 1 \in 1 .. Len(queue[w]) - 1 /\ i - 1 + 1 = i)
  <2>1. \A i \in 1 .. Len(queue[w]) - 1 : Tail(queue[w])[i] = queue[w][i + 1]
    BY ONLY <1>2
  <2>2. /\ \A i \in 1 .. Len(queue[w]) - 1 : i + 1 \in DOMAIN queue[w]
        /\ 1 \in DOMAIN queue[w]
        /\ \A i \in DOMAIN queue[w] : i = 1 \/ (i - 1 \in 1 .. Len(queue[w]) - 1 /\ i - 1 + 1 = i)
    BY ONLY <1>1
  <2>3. Head(queue[w]) = queue[w][1]
    BY <1>1
  <2> QED BY ONLY <1>3, <1>4, <2>1, <2>2, <2>3
<1>6. OnePlace(c)'
  <2> SUFFICES ASSUME NEW v \in Workers, NEW u \in Workers,
                      NEW i \in DOMAIN queue'[v], NEW j \in DOMAIN queue'[u],
                      queue'[v][i] = c, queue'[u][j] = c
               PROVE  v = u /\ i = j
    BY DEF OnePlace
  <2>1. CASE v = w /\ u = w
    <3>1. i + 1 = j + 1
      BY <1>5, <2>1 DEF OnePlace
    <3> QED BY <1>1, <1>5, <2>1, <3>1
  <2>2. CASE v = w /\ u # w
    BY <1>4, <1>5, <2>2 DEF OnePlace
  <2>3. CASE v # w /\ u = w
    BY <1>4, <1>5, <2>3 DEF OnePlace
  <2>4. CASE v # w /\ u # w
    BY <1>4, <2>4 DEF OnePlace
  <2> QED BY <2>1, <2>2, <2>3, <2>4
<1>7. Waits(c)' => Waits(c)
  <2> SUFFICES ASSUME NEW v \in Workers, NEW i \in DOMAIN queue'[v], queue'[v][i] = c
               PROVE  Waits(c)
    BY DEF Waits
  <2>1. CASE v = w
    BY <1>5, <2>1 DEF Waits
  <2>2. CASE v # w
    BY <1>4, <2>2 DEF Waits
  <2> QED BY <2>1, <2>2
<1>8. Waits(c) => Waits(c)' \/ c = Head(queue[w])
  <2> SUFFICES ASSUME NEW v \in Workers, NEW i \in DOMAIN queue[v], queue[v][i] = c
               PROVE  Waits(c)' \/ c = Head(queue[w])
    BY DEF Waits
  <2>1. CASE v = w /\ i = 1
    BY <1>5, <2>1
  <2>2. CASE v = w /\ i # 1
    <3>1. i - 1 \in DOMAIN queue'[w] /\ queue'[w][i - 1] = c
      BY <1>5, <2>2
    <3> QED BY <3>1 DEF Waits
  <2>3. CASE v # w
    BY <1>4, <2>3 DEF Waits
  <2> QED BY <2>1, <2>2, <2>3
<1>9. c = Head(queue[w]) => Waits(c) /\ ~Waits(c)'
  <2> SUFFICES ASSUME c = Head(queue[w]) PROVE Waits(c) /\ ~Waits(c)'
    OBVIOUS
  <2>1. Waits(c)
    BY <1>5 DEF Waits
  <2>2. ASSUME NEW v \in Workers, NEW i \in DOMAIN queue'[v], queue'[v][i] = c PROVE FALSE
    <3>1. CASE v = w
      <4>1. i \in 1 .. Len(queue[w]) - 1 /\ queue[w][i + 1] = c /\ i + 1 \in DOMAIN queue[w]
        BY <1>5, <2>2, <3>1
      <4>2. i + 1 = 1
        BY <1>5, <4>1 DEF OnePlace
      <4> QED BY <1>1, <4>1, <4>2
    <3>2. CASE v # w
      BY <1>4, <1>5, <2>2, <3>2 DEF OnePlace
    <3> QED BY <3>1, <3>2
  <2> QED BY <2>1, <2>2 DEF Waits
<1> QED BY <1>6, <1>7, <1>8, <1>9

(* queue_push_append: the new item waits, and nothing else moves. *)
LEMMA ItemEnters ==
  ASSUME IInv, NEW w \in Workers, NEW e \in Jobs, queue' = [queue EXCEPT ![w] = Append(@, e)],
         NEW c, OnePlace(c), ~(Waits(c) /\ c = e)
  PROVE  OnePlace(c)' /\ (Waits(c)' <=> Waits(c) \/ c = e)
<1>1. Len(queue[w]) \in Nat /\ DOMAIN queue[w] = 1 .. Len(queue[w]) /\ queue[w] \in Seq(Jobs)
  BY QueueTyped
<1>2. /\ Append(queue[w], e) \in Seq(Jobs) /\ Len(Append(queue[w], e)) = Len(queue[w]) + 1
      /\ \A i \in 1 .. Len(queue[w]) : Append(queue[w], e)[i] = queue[w][i]
      /\ Append(queue[w], e)[Len(queue[w]) + 1] = e
  BY <1>1, AppendProperties
<1>3. DOMAIN Append(queue[w], e) = 1 .. Len(queue[w]) + 1
  BY <1>2, LenProperties
<1>4. /\ queue'[w] = Append(queue[w], e)
      /\ \A v \in Workers \ {w} : queue'[v] = queue[v]
  BY DEF IInv, TypeOK
<1>5. /\ DOMAIN queue'[w] = DOMAIN queue[w] \cup {Len(queue[w]) + 1}
      /\ \A i \in DOMAIN queue[w] : queue'[w][i] = queue[w][i]
      /\ queue'[w][Len(queue[w]) + 1] = e
  BY <1>1, <1>2, <1>3, <1>4
<1>6. OnePlace(c)'
  BY <1>4, <1>5 DEF OnePlace, Waits
<1>7. Waits(c)' <=> Waits(c) \/ c = e
  BY <1>4, <1>5 DEF Waits
<1> QED BY <1>6, <1>7

(* queue_flush: who waited there does not wait any more. *)
LEMMA ItemsLeave ==
  ASSUME IInv, NEW w \in Workers, queue' = [queue EXCEPT ![w] = <<>>], NEW c \in Conns, OnePlace(c)
  PROVE  /\ OnePlace(c)'
         /\ Waits(c) <=> Waits(c)' \/ c \in JobsIn(queue[w])
         /\ ~(Waits(c)' /\ c \in JobsIn(queue[w]))
<1>1. /\ queue'[w] = <<>> /\ DOMAIN queue'[w] = {}
      /\ \A v \in Workers \ {w} : queue'[v] = queue[v]
  BY DEF IInv, TypeOK
<1>2. c \in JobsIn(queue[w]) <=> \E i \in DOMAIN queue[w] : queue[w][i] = c
  BY ConnsAssumption DEF JobsIn
<1>3. OnePlace(c)'
  BY <1>1 DEF OnePlace
<1>4. Waits(c) <=> Waits(c)' \/ c \in JobsIn(queue[w])
  BY <1>1, <1>2 DEF Waits
<1>5. ~(Waits(c)' /\ c \in JobsIn(queue[w]))
  BY <1>1, <1>2 DEF Waits, OnePlace
<1> QED BY <1>3, <1>4, <1>5

(* A worker with free hands takes job k. *)
LEMMA JobTaken ==
  ASSUME IInv, NEW w \in Workers, NEW k, job[w] = NoJob, job' = [job EXCEPT ![w] = k],
         NEW c \in Conns, OneJob(c), ~(Held(c) /\ c = k)
  PROVE  OneJob(c)' /\ (Held(c)' <=> Held(c) \/ c = k)
<1>1. job'[w] = k /\ (\A v \in Workers \ {w} : job'[v] = job[v]) /\ c # NoJob
  BY ConnsAssumption DEF IInv, TypeOK
<1> QED BY <1>1 DEF OneJob, Held

(* A worker disposes of its job. *)
LEMMA JobDropped ==
  ASSUME IInv, NEW w \in Workers, job' = [job EXCEPT ![w] = NoJob], NEW c \in Conns, OneJob(c)
  PROVE  OneJob(c)' /\ (Held(c)' <=> Held(c) /\ c # job[w])
<1>1. job'[w] = NoJob /\ (\A v \in Workers \ {w} : job'[v] = job[v]) /\ c # NoJob
  BY ConnsAssumption DEF IInv, TypeOK
<1> QED BY <1>1 DEF OneJob, Held

(* A loop serves one more client, or one less. *)
LEMMA ClientAdded ==
  ASSUME IInv, NEW w \in Workers, NEW k, clients' = [clients EXCEPT ![w] = @ \cup {k}]
  PROVE  /\ Served' = Served \cup {k}
         /\ \A c : OneServer(c) /\ ~(c \in Served /\ c = k) => OneServer(c)'
<1>1. clients'[w] = clients[w] \cup {k} /\ \A v \in Workers \ {w} : clients'[v] = clients[v]
  BY DEF IInv, TypeOK
<1> QED BY <1>1 DEF Served, OneServer

(* evserver_client_exit: the client has left. *)
LEMMA ClientRemoved ==
  ASSUME IInv, NEW w \in Workers, NEW k \in clients[w], clients' = [clients EXCEPT ![w] = @ \ {k}],
         OneServer(k)
  PROVE  Served' = Served \ {k} /\ k \in Served /\ \A c : OneServer(c) => OneServer(c)'
<1>1. clients'[w] = clients[w] \ {k} /\ \A v \in Workers \ {w} : clients'[v] = clients[v]
  BY DEF IInv, TypeOK
<1> QED BY <1>1 DEF Served, OneServer

-----------------------------------------------------------------------------
(* HandsFree in every step. *)
LEMMA HandsFreeKept == ASSUME IInv, HandsFree, [Next]_vars PROVE HandsFree'
<1> USE DEF IInv, HandsFree, TypeOK, accVars
<1>1. CASE UNCHANGED vars
  BY <1>1 DEF vars
<1>2. CASE \E c \in Conns : ev_accept_callback(c)
  BY <1>2 DEF ev_accept_callback
<1>3. CASE Distribute
  <2>1. CASE evserver_tpool_add_job \/ queue_push \/ count_waiting \/ notify_worker
    BY <2>1 DEF evserver_tpool_add_job, queue_push, count_waiting, notify_worker
  <2>2. CASE queue_flush \/ queue_push_append
    BY <2>2 DEF queue_flush, queue_push_append, Signalled
  <2> QED BY <1>3, <2>1, <2>2 DEF Distribute
<1>4. ASSUME NEW w \in Workers, HandleNotification(w) PROVE HandsFree'
  <2>1. CASE evserver_worker_read_callback(w) \/ queue_pop_wake(w) \/ uncount_waiting(w)
             \/ count_handling(w) \/ uncount_handling(w)
    BY <2>1 DEF evserver_worker_read_callback, queue_pop_wake, uncount_waiting, count_handling,
                uncount_handling
  <2>2. CASE queue_pop(w) \/ queue_pop_signalled(w)
    BY <2>2 DEF queue_pop, queue_pop_signalled, TakeHead
  <2>3. CASE evserver_client_new(w)
    BY <2>3 DEF evserver_client_new
  <2> QED BY <1>4, <2>1, <2>2, <2>3 DEF HandleNotification
<1>5. CASE \E w \in Workers, c \in Conns : evserver_client_exit(w, c)
  BY <1>5 DEF evserver_client_exit
<1> QED BY <1>1, <1>2, <1>3, <1>4, <1>5 DEF Next

(* Where nothing moves every connection keeps its owner. *)
LEMMA OwnedUnmoved ==
  ASSUME NEW c, Owned(c), UNCHANGED <<backlog, accJob, queue, job, clients, closed>>
  PROVE  Owned(c)'
BY Unmoved DEF Owned, Alone, Somewhere

(* The accept thread's steps move a connection from the backlog into its   *)
(* hands, from there into a queue, or close it; queue_flush closes all     *)
(* that wait for a worker.                                                 *)
LEMMA AcceptOwns ==
  ASSUME IInv, Ownership, NEW c \in Conns, Distribute \/ \E d \in Conns : ev_accept_callback(d)
  PROVE  Owned(c)'
<1>1. Owned(c) /\ HandsFree /\ c # NoJob /\ target \in Workers /\ accJob \in Jobs
  BY ConnsAssumption DEF Ownership, IInv, TypeOK
<1> USE DEF Owned, Alone, Somewhere
<1>2. ASSUME NEW d \in Conns, ev_accept_callback(d) PROVE Owned(c)'
  <2>1. accJob = NoJob
    BY <1>1, <1>2 DEF ev_accept_callback, HandsFree
  <2>2. UNCHANGED <<queue, job, clients>>
    BY <1>2 DEF ev_accept_callback
  <2>3. /\ backlog' = backlog \ {d} /\ d \in backlog
        /\ \/ closed' = closed \cup {d} /\ UNCHANGED accJob
           \/ accJob' = d /\ UNCHANGED closed
    BY <1>2 DEF ev_accept_callback
  <2> QED BY ONLY <1>1, <2>1, <2>2, <2>3, Unmoved DEF Owned, Alone, Somewhere
<1>3. CASE evserver_tpool_add_job
  <2>1. UNCHANGED <<backlog, queue, job, clients>>
    BY <1>3 DEF evserver_tpool_add_job
  <2>2. accJob \in Conns
    BY <1>3 DEF evserver_tpool_add_job, IInv, HoldsConn
  <2>3. \/ (accJob' = accJob \/ (AllocFails /\ accJob' = NoJob)) /\ UNCHANGED closed
        \/ closed' = closed \cup {accJob} /\ accJob' = NoJob
    BY <1>3 DEF evserver_tpool_add_job, item_alloc
  <2> QED BY ONLY <1>1, <2>1, <2>2, <2>3, Unmoved DEF Owned, Alone, Somewhere
<1>4. CASE queue_push \/ count_waiting \/ notify_worker
  BY <1>1, <1>4, OwnedUnmoved DEF queue_push, count_waiting, notify_worker
<1>5. CASE queue_flush
  <2>1. /\ UNCHANGED <<backlog, accJob, job, clients>>
        /\ closed' = closed \cup JobsIn(queue[target])
        /\ queue' = [queue EXCEPT ![target] = <<>>]
    BY <1>5 DEF queue_flush
  <2>2. /\ OnePlace(c)' /\ (Waits(c) <=> Waits(c)' \/ c \in JobsIn(queue[target]))
        /\ ~(Waits(c)' /\ c \in JobsIn(queue[target]))
    BY <1>1, <2>1, ItemsLeave
  <2> QED BY ONLY <1>1, <2>1, <2>2, Unmoved DEF Owned, Alone, Somewhere
<1>6. CASE queue_push_append
  <2>1. /\ UNCHANGED <<backlog, job, clients, closed>> /\ accJob' = NoJob
        /\ queue' = [queue EXCEPT ![target] = Append(@, accJob)]
    BY <1>6 DEF queue_push_append
  <2>2. OnePlace(c)' /\ (Waits(c)' <=> Waits(c) \/ c = accJob)
    BY <1>1, <2>1, ItemEnters
  <2> QED BY ONLY <1>1, <2>1, <2>2, Unmoved DEF Owned, Alone, Somewhere
<1> QED BY <1>2, <1>3, <1>4, <1>5, <1>6 DEF Distribute

(* A worker's steps move a connection from the head of its queue into its  *)
(* hands, from there among its clients, or close it.                       *)
LEMMA WorkerOwns ==
  ASSUME IInv, Ownership, NEW c \in Conns, NEW w \in Workers,
         HandleNotification(w) \/ \E d \in Conns : evserver_client_exit(w, d)
  PROVE  Owned(c)'
<1>1. Owned(c) /\ HandsFree /\ c # NoJob
  BY ConnsAssumption DEF Ownership
<1> USE DEF accVars
<1>2. CASE evserver_worker_read_callback(w) \/ queue_pop_wake(w) \/ uncount_waiting(w)
           \/ count_handling(w) \/ uncount_handling(w)
  BY <1>1, <1>2, OwnedUnmoved
     DEF evserver_worker_read_callback, queue_pop_wake, uncount_waiting, count_handling,
         uncount_handling
<1>3. CASE queue_pop(w) \/ queue_pop_signalled(w)
  <2>1. UNCHANGED <<backlog, accJob, clients, closed>> /\ wPc[w] \in {"pop", "woken"}
    BY <1>3 DEF queue_pop, queue_pop_signalled
  <2>2. CASE UNCHANGED <<queue, job>>
    BY <1>1, <2>1, <2>2, OwnedUnmoved
  <2>3. CASE TakeHead(w)
    <3>1. /\ queue[w] # <<>> /\ queue' = [queue EXCEPT ![w] = Tail(@)]
          /\ job' = [job EXCEPT ![w] = Head(queue[w])] /\ job[w] = NoJob
      BY <1>1, <2>1, <2>3 DEF TakeHead, HandsFree
    <3>2. /\ OnePlace(c)' /\ (Waits(c) <=> Waits(c)' \/ c = Head(queue[w]))
          /\ ~(Waits(c)' /\ c = Head(queue[w]))
      BY <1>1, <3>1, HeadLeaves DEF Owned
    <3>3. ~(Held(c) /\ c = Head(queue[w]))
      BY <1>1, <3>2 DEF Owned, Alone
    <3>4. OneJob(c)' /\ (Held(c)' <=> Held(c) \/ c = Head(queue[w]))
      BY <1>1, <3>1, <3>3, JobTaken DEF Owned
    <3> QED BY ONLY <1>1, <2>1, <3>2, <3>4, Unmoved DEF Owned, Alone, Somewhere
  <2> QED BY <1>3, <2>2, <2>3 DEF queue_pop, queue_pop_signalled
<1>4. CASE evserver_client_new(w)
  <2>1. /\ UNCHANGED <<backlog, accJob, queue>> /\ job' = [job EXCEPT ![w] = NoJob]
        /\ \/ clients' = [clients EXCEPT ![w] = @ \cup {job[w]}] /\ UNCHANGED closed
           \/ closed' = closed \cup {job[w]} /\ UNCHANGED clients
    BY <1>4 DEF evserver_client_new
  <2>2. OneJob(c)' /\ (Held(c)' <=> Held(c) /\ c # job[w]) /\ (c = job[w] => Held(c))
    BY <1>1, <2>1, JobDropped DEF Owned, Held
  <2>3. CASE closed' = closed \cup {job[w]} /\ UNCHANGED clients
    BY ONLY <1>1, <2>1, <2>2, <2>3, Unmoved DEF Owned, Alone, Somewhere
  <2>4. CASE clients' = [clients EXCEPT ![w] = @ \cup {job[w]}] /\ UNCHANGED closed
    <3>1. ~(c \in Served /\ c = job[w])
      BY <1>1, <2>2 DEF Owned, Alone
    <3>2. Served' = Served \cup {job[w]} /\ OneServer(c)'
      BY <1>1, <2>4, <3>1, ClientAdded DEF Owned
    <3> QED BY ONLY <1>1, <2>1, <2>2, <2>4, <3>2, Unmoved DEF Owned, Alone, Somewhere
  <2> QED BY <2>1, <2>3, <2>4
<1>5. ASSUME NEW d \in Conns, evserver_client_exit(w, d) PROVE Owned(c)'
  <2>1. /\ UNCHANGED <<backlog, accJob, queue, job>> /\ d \in clients[w]
        /\ clients' = [clients EXCEPT ![w] = @ \ {d}] /\ closed' = closed \cup {d}
    BY <1>5 DEF evserver_client_exit
  <2>2. OneServer(d)
    BY DEF Ownership, Owned
  <2>3. Served' = Served \ {d} /\ d \in Served /\ OneServer(c)'
    BY <1>1, <2>1, <2>2, ClientRemoved DEF Owned
  <2> QED BY ONLY <1>1, <2>1, <2>3, Unmoved DEF Owned, Alone, Somewhere
<1> QED BY <1>2, <1>3, <1>4, <1>5 DEF HandleNotification

(* The places exclude each other in every state. *)
THEOREM OwnershipCorrect == Spec => []Ownership
<1>1. Init => Ownership
  <2> SUFFICES ASSUME Init PROVE Ownership
    OBVIOUS
  <2>1. HandsFree
    BY DEF Init, HandsFree
  <2>2. ASSUME NEW c \in Conns PROVE Owned(c)
    <3>1. c \in backlog /\ accJob # c /\ c \notin closed /\ c # NoJob
      BY ConnsAssumption DEF Init
    <3>2. ~Waits(c) /\ ~Held(c) /\ c \notin Served
      BY <3>1 DEF Init, Waits, Held, Served
    <3>3. OnePlace(c) /\ OneJob(c) /\ OneServer(c)
      BY <3>1 DEF Init, OnePlace, OneJob, OneServer
    <3> QED BY <3>1, <3>2, <3>3 DEF Owned, Alone, Somewhere
  <2> QED BY <2>1, <2>2 DEF Ownership
<1>2. IInv /\ Ownership /\ [Next]_vars => Ownership'
  <2> SUFFICES ASSUME IInv, Ownership, [Next]_vars PROVE Ownership'
    OBVIOUS
  <2>1. HandsFree'
    BY HandsFreeKept DEF Ownership
  <2>2. ASSUME NEW c \in Conns PROVE Owned(c)'
    <3>1. CASE UNCHANGED vars
      BY <3>1, OwnedUnmoved DEF vars, Ownership
    <3>2. CASE Next
      BY <3>2, AcceptOwns, WorkerOwns DEF Next
    <3> QED BY <3>1, <3>2
  <2> QED BY <2>1, <2>2 DEF Ownership
<1> QED BY <1>1, <1>2, InductiveInvariant, PTL DEF Spec

(* A connection is owned by one place, and unless calloc fails it is never *)
(* without an owner: no two workers serve it, it is not closed while it is *)
(* queued or served, and every way out of the dispatcher closes it.        *)
THEOREM EveryConnOwned == Spec => []OneOwner
<1>1. IInv /\ Ownership => OneOwner
  <2> SUFFICES ASSUME IInv, Ownership, NEW c \in Conns
               PROVE  Cardinality(Owners(c)) <= 1 /\ (AllocFails \/ Owners(c) # {})
    BY DEF OneOwner
  <2>1. Owned(c)
    BY DEF Ownership
  <2> DEFINE B == {<<"backlog", 0, 0>> : x \in backlog \cap {c}}
             A == {<<"accept", 0, 0>> : x \in {accJob} \cap {c}}
             Q == InQueue(c)
             J == InHand(c)
             S == InLoop(c)
             X == {<<"closed", 0, 0>> : x \in closed \cap {c}}
  <2>2. Owners(c) = B \cup A \cup Q \cup J \cup S \cup X
    BY DEF Owners
  <2>3. /\ \A x, y \in B : x = y
        /\ \A x, y \in A : x = y
        /\ \A x, y \in X : x = y
    OBVIOUS
  <2>4. \A x, y \in Q : x = y
    <3> SUFFICES ASSUME NEW x \in Q, NEW y \in Q PROVE x = y
      OBVIOUS
    <3>1. PICK v \in Workers : \E i \in DOMAIN queue[v] : queue[v][i] = c /\ x = <<"queue", v, i>>
      BY DEF InQueue
    <3>2. PICK i \in DOMAIN queue[v] : queue[v][i] = c /\ x = <<"queue", v, i>>
      BY <3>1
    <3>3. PICK w \in Workers : \E j \in DOMAIN queue[w] : queue[w][j] = c /\ y = <<"queue", w, j>>
      BY DEF InQueue
    <3>4. PICK j \in DOMAIN queue[w] : queue[w][j] = c /\ y = <<"queue", w, j>>
      BY <3>3
    <3>5. v = w /\ i = j
      BY <2>1, <3>2, <3>4 DEF Owned, OnePlace
    <3> QED BY <3>2, <3>4, <3>5
  <2>5. \A x, y \in J : x = y
    BY <2>1 DEF Owned, OneJob, InHand
  <2>6. \A x, y \in S : x = y
    BY <2>1 DEF Owned, OneServer, InLoop
  <2>7. /\ (B # {} <=> c \in backlog) /\ (A # {} <=> accJob = c) /\ (X # {} <=> c \in closed)
        /\ (J # {} <=> Held(c)) /\ (S # {} <=> c \in Served)
    BY DEF Held, Served, InHand, InLoop
  <2>8. Q # {} <=> Waits(c)
    <3>1. ASSUME NEW x \in Q PROVE Waits(c)
      BY <3>1 DEF Waits, InQueue
    <3>2. ASSUME NEW w \in Workers, NEW i \in DOMAIN queue[w], queue[w][i] = c PROVE Q # {}
      <4>1. <<"queue", w, i>> \in Q
        BY <3>2 DEF InQueue
      <4> QED BY <4>1
    <3> QED BY <3>1, <3>2 DEF Waits
  <2> HIDE DEF B, A, Q, J, S, X
  <2>9. \A x, y \in Owners(c) : x = y
    <3>1. /\ B # {} => A = {} /\ Q = {} /\ J = {} /\ S = {} /\ X = {}
          /\ A # {} => Q = {} /\ J = {} /\ S = {} /\ X = {}
          /\ Q # {} => J = {} /\ S = {} /\ X = {}
          /\ J # {} => S = {} /\ X = {}
          /\ S # {} => X = {}
      BY <2>1, <2>7, <2>8 DEF Owned, Alone
    <3> QED BY ONLY <2>2, <2>3, <2>4, <2>5, <2>6, <3>1
  <2>10. Cardinality(Owners(c)) <= 1
    <3>1. CASE Owners(c) = {}
      BY <3>1, FS_EmptySet
    <3>2. ASSUME NEW x \in Owners(c) PROVE Cardinality(Owners(c)) <= 1
      <4>1. Owners(c) = {x}
        BY <2>9, <3>2
      <4>2. Cardinality({x}) = 1
        BY FS_Singleton
      <4> QED BY <4>1, <4>2
    <3> QED BY <3>1, <3>2
  <2>11. AllocFails \/ Owners(c) # {}
    BY <2>1, <2>2, <2>7, <2>8 DEF Owned, Somewhere
  <2> QED BY <2>10, <2>11
<1> QED BY <1>1, OwnershipCorrect, InductiveInvariant, PTL

-----------------------------------------------------------------------------
(* Counting workers. *)
LEMMA WorkersFinite ==
  ASSUME NEW S \in SUBSET Workers PROVE IsFiniteSet(S) /\ Cardinality(S) \in Nat
<1>1. IsFiniteSet(Workers)
  BY FS_Interval, NumWorkersAssumption DEF Workers
<1>2. IsFiniteSet(S)
  BY <1>1, FS_Subset
<1> QED BY <1>2, FS_CardinalityType

(* A worker that goes on is counted where it arrives and no longer where   *)
(* it was.                                                                 *)
LEMMA WorkerMoves ==
  ASSUME IInv, NEW w \in Workers, NEW to, wPc' = [wPc EXCEPT ![w] = to], NEW CONSTANT pc
  PROVE  Cardinality(WorkersAt(pc)') =
           Cardinality(WorkersAt(pc)) + (IF to = pc THEN 1 ELSE 0)
                                      - (IF wPc[w] = pc THEN 1 ELSE 0)
<1> DEFINE A == WorkersAt(pc)
<1>1. wPc'[w] = to /\ \A u \in Workers \ {w} : wPc'[u] = wPc[u]
  BY DEF IInv, TypeOK
<1>2. IsFiniteSet(A) /\ Cardinality(A) \in Nat
  BY WorkersFinite DEF WorkersAt
<1>3. w \in A <=> wPc[w] = pc
  BY DEF WorkersAt
<1>4. CASE to = pc
  <2>1. A' = A \cup {w}
    BY <1>1, <1>4 DEF WorkersAt
  <2>2. Cardinality(A \cup {w}) = IF w \in A THEN Cardinality(A) ELSE Cardinality(A) + 1
    BY <1>2, FS_AddElement
  <2> HIDE DEF A
  <2>3. Cardinality(A') = Cardinality(A) + 1 - (IF wPc[w] = pc THEN 1 ELSE 0)
    BY <1>2, <1>3, <2>1, <2>2
  <2> QED BY <1>4, <2>3 DEF A
<1>5. CASE to # pc
  <2>1. A' = A \ {w}
    BY <1>1, <1>5 DEF WorkersAt
  <2>2. Cardinality(A \ {w}) = IF w \in A THEN Cardinality(A) - 1 ELSE Cardinality(A)
    BY <1>2, FS_RemoveElement
  <2> HIDE DEF A
  <2>3. Cardinality(A') = Cardinality(A) + 0 - (IF wPc[w] = pc THEN 1 ELSE 0)
    BY <1>2, <1>3, <2>1, <2>2
  <2> QED BY <1>5, <2>3 DEF A
<1> QED BY <1>4, <1>5

(* A worker arrives at a place where it was not, *)
LEMMA WorkerArrives ==
  ASSUME IInv, NEW w \in Workers, NEW to, wPc' = [wPc EXCEPT ![w] = to], NEW CONSTANT pc,
         to = pc, wPc[w] # pc
  PROVE  Cardinality(WorkersAt(pc)') = Cardinality(WorkersAt(pc)) + 1
<1>1. Cardinality(WorkersAt(pc)') =
        Cardinality(WorkersAt(pc)) + (IF to = pc THEN 1 ELSE 0) - (IF wPc[w] = pc THEN 1 ELSE 0)
  BY WorkerMoves
<1>2. Cardinality(WorkersAt(pc)) \in Nat
  BY WorkersFinite DEF WorkersAt
<1> QED BY <1>1, <1>2

(* leaves the place where it was, *)
LEMMA WorkerLeaves ==
  ASSUME IInv, NEW w \in Workers, NEW to, wPc' = [wPc EXCEPT ![w] = to], NEW CONSTANT pc,
         to # pc, wPc[w] = pc
  PROVE  Cardinality(WorkersAt(pc)') = Cardinality(WorkersAt(pc)) - 1
<1>1. Cardinality(WorkersAt(pc)') =
        Cardinality(WorkersAt(pc)) + (IF to = pc THEN 1 ELSE 0) - (IF wPc[w] = pc THEN 1 ELSE 0)
  BY WorkerMoves
<1>2. Cardinality(WorkersAt(pc)) \in Nat
  BY WorkersFinite DEF WorkersAt
<1> QED BY <1>1, <1>2

(* or has nothing to do with it. *)
LEMMA WorkerElsewhere ==
  ASSUME IInv, NEW w \in Workers, NEW to, wPc' = [wPc EXCEPT ![w] = to], NEW CONSTANT pc,
         to # pc, wPc[w] # pc
  PROVE  Cardinality(WorkersAt(pc)') = Cardinality(WorkersAt(pc))
<1>1. Cardinality(WorkersAt(pc)') =
        Cardinality(WorkersAt(pc)) + (IF to = pc THEN 1 ELSE 0) - (IF wPc[w] = pc THEN 1 ELSE 0)
  BY WorkerMoves
<1>2. Cardinality(WorkersAt(pc)) \in Nat
  BY WorkersFinite DEF WorkersAt
<1> QED BY <1>1, <1>2

HandlingInv == IsFiniteSet(Served) /\ HandlingCountExact

(* Each step that adds or releases a client leaves a worker about to count *)
(* it, and each count is about one such worker.                            *)
LEMMA HandlingKept ==
  ASSUME IInv, Ownership, HandlingInv, [Next]_vars PROVE HandlingInv'
<1>1. /\ Cardinality(Served) \in Nat /\ handling_count \in Int
      /\ Cardinality(WorkersAt("count")) \in Nat /\ Cardinality(WorkersAt("uncount")) \in Nat
      /\ handling_count = Cardinality(Served) + Cardinality(WorkersAt("uncount"))
                                              - Cardinality(WorkersAt("count"))
  <2>1. Cardinality(Served) \in Nat /\ handling_count \in Int
    BY FS_CardinalityType DEF HandlingInv, IInv, TypeOK
  <2>2. Cardinality(WorkersAt("count")) \in Nat /\ Cardinality(WorkersAt("uncount")) \in Nat
    <3>1. WorkersAt("count") \in SUBSET Workers /\ WorkersAt("uncount") \in SUBSET Workers
      BY DEF WorkersAt
    <3> QED BY <3>1, WorkersFinite
  <2> QED BY <2>1, <2>2 DEF HandlingInv, HandlingCountExact
<1>2. ASSUME UNCHANGED <<clients, handling_count>>,
             \A w \in Workers : wPc'[w] = "count" <=> wPc[w] = "count",
             \A w \in Workers : wPc'[w] = "uncount" <=> wPc[w] = "uncount"
      PROVE  HandlingInv'
  <2>1. WorkersAt("count")' = WorkersAt("count")
    BY ONLY <1>2 DEF WorkersAt
  <2>2. WorkersAt("uncount")' = WorkersAt("uncount")
    BY ONLY <1>2 DEF WorkersAt
  <2>3. Served' = Served
    BY <1>2 DEF Served
  <2> QED BY <1>2, <2>1, <2>2, <2>3 DEF HandlingInv, HandlingCountExact
<1> USE DEF accVars
<1>3. CASE UNCHANGED vars
  BY <1>2, <1>3 DEF vars
<1>4. CASE \E c \in Conns : ev_accept_callback(c)
  BY <1>2, <1>4 DEF ev_accept_callback
<1>5. CASE Distribute
  BY <1>2, <1>5
     DEF Distribute, evserver_tpool_add_job, queue_push, queue_flush, queue_push_append,
         count_waiting, notify_worker, Signalled, IInv, TypeOK
<1>6. ASSUME NEW w \in Workers,
             evserver_worker_read_callback(w) \/ queue_pop(w) \/ queue_pop_wake(w)
               \/ queue_pop_signalled(w) \/ uncount_waiting(w)
      PROVE  HandlingInv'
  BY <1>2, <1>6
     DEF evserver_worker_read_callback, queue_pop, queue_pop_wake, queue_pop_signalled,
         uncount_waiting, TakeHead, IInv, TypeOK
<1>7. ASSUME NEW w \in Workers, evserver_client_new(w) PROVE HandlingInv'
  <2>1. CASE UNCHANGED clients /\ wPc' = [wPc EXCEPT ![w] = "loop"]
    BY <1>2, <1>7, <2>1 DEF evserver_client_new, IInv, TypeOK
  <2>2. CASE /\ clients' = [clients EXCEPT ![w] = @ \cup {job[w]}]
             /\ wPc' = [wPc EXCEPT ![w] = "count"]
    <3>1. wPc[w] = "new" /\ UNCHANGED handling_count /\ job[w] \in Conns
      BY <1>7 DEF evserver_client_new, IInv, HoldsConn
    <3>2. job[w] \notin Served
      BY <3>1 DEF Ownership, Owned, Alone, Held
    <3>3. Served' = Served \cup {job[w]}
      BY <2>2, ClientAdded
    <3>4. IsFiniteSet(Served') /\ Cardinality(Served') = Cardinality(Served) + 1
      BY <3>2, <3>3, FS_AddElement DEF HandlingInv
    <3>5. Cardinality(WorkersAt("count")') = Cardinality(WorkersAt("count")) + 1
      BY ONLY IInv, w \in Workers, <2>2, <3>1, WorkerArrives
    <3>6. Cardinality(WorkersAt("uncount")') = Cardinality(WorkersAt("uncount"))
      BY ONLY IInv, w \in Workers, <2>2, <3>1, WorkerElsewhere
    <3> QED BY <1>1, <3>1, <3>4, <3>5, <3>6 DEF HandlingInv, HandlingCountExact
  <2> QED BY <1>7, <2>1, <2>2 DEF evserver_client_new
<1>8. ASSUME NEW w \in Workers, count_handling(w) PROVE HandlingInv'
  <2>1. /\ wPc[w] = "count" /\ wPc' = [wPc EXCEPT ![w] = "loop"]
        /\ handling_count' = handling_count + 1 /\ Served' = Served
    BY <1>8 DEF count_handling, Served
  <2>2. Cardinality(WorkersAt("count")') = Cardinality(WorkersAt("count")) - 1
    BY ONLY IInv, w \in Workers, <2>1, WorkerLeaves
  <2>3. Cardinality(WorkersAt("uncount")') = Cardinality(WorkersAt("uncount"))
    BY ONLY IInv, w \in Workers, <2>1, WorkerElsewhere
  <2> QED BY <1>1, <2>1, <2>2, <2>3 DEF HandlingInv, HandlingCountExact
<1>9. ASSUME NEW w \in Workers, uncount_handling(w) PROVE HandlingInv'
  <2>1. /\ wPc[w] = "uncount" /\ wPc' = [wPc EXCEPT ![w] = "loop"]
        /\ handling_count' = handling_count - 1 /\ Served' = Served
    BY <1>9 DEF uncount_handling, Served
  <2>2. Cardinality(WorkersAt("count")') = Cardinality(WorkersAt("count"))
    BY ONLY IInv, w \in Workers, <2>1, WorkerElsewhere
  <2>3. Cardinality(WorkersAt("uncount")') = Cardinality(WorkersAt("uncount")) - 1
    BY ONLY IInv, w \in Workers, <2>1, WorkerLeaves
  <2> QED BY <1>1, <2>1, <2>2, <2>3 DEF HandlingInv, HandlingCountExact
<1>10. ASSUME NEW w \in Workers, NEW c \in Conns, evserver_client_exit(w, c) PROVE HandlingInv'
  <2>1. /\ wPc[w] = "loop" /\ wPc' = [wPc EXCEPT ![w] = "uncount"] /\ UNCHANGED handling_count
        /\ c \in clients[w] /\ clients' = [clients EXCEPT ![w] = @ \ {c}]
    BY <1>10 DEF evserver_client_exit
  <2>2. Served' = Served \ {c} /\ c \in Served
    BY <2>1, ClientRemoved DEF Ownership, Owned
  <2>3. IsFiniteSet(Served') /\ Cardinality(Served') = Cardinality(Served) - 1
    BY <2>2, FS_RemoveElement DEF HandlingInv
  <2>4. Cardinality(WorkersAt("count")') = Cardinality(WorkersAt("count"))
    BY ONLY IInv, w \in Workers, <2>1, WorkerElsewhere
  <2>5. Cardinality(WorkersAt("uncount")') = Cardinality(WorkersAt("uncount")) + 1
    BY ONLY IInv, w \in Workers, <2>1, WorkerArrives
  <2> QED BY <1>1, <2>1, <2>3, <2>4, <2>5 DEF HandlingInv, HandlingCountExact
<1> QED
  BY <1>3, <1>4, <1>5, <1>6, <1>7, <1>8, <1>9, <1>10 DEF Next, HandleNotification

(* client_handling_count is exact although it is updated under another     *)
(* lock than the clients, by all workers.                                  *)
THEOREM HandlingCounted == Spec => []HandlingCountExact
<1>1. Init => HandlingInv
  <2> SUFFICES ASSUME Init PROVE HandlingInv
    OBVIOUS
  <2>1. Served = {} /\ WorkersAt("count") = {} /\ WorkersAt("uncount") = {}
    BY DEF Init, Served, WorkersAt
  <2>2. IsFiniteSet(Served) /\ Cardinality(Served) = 0
    BY ONLY <2>1, FS_EmptySet
  <2>3. Cardinality(WorkersAt("count")) = 0
    BY ONLY <2>1, FS_EmptySet
  <2>4. Cardinality(WorkersAt("uncount")) = 0
    BY ONLY <2>1, FS_EmptySet
  <2>5. handling_count = 0
    BY DEF Init
  <2> QED BY ONLY <2>2, <2>3, <2>4, <2>5 DEF HandlingInv, HandlingCountExact
<1>2. IInv /\ Ownership /\ HandlingInv /\ [Next]_vars => HandlingInv'
  BY HandlingKept
<1>3. HandlingInv => HandlingCountExact
  BY DEF HandlingInv
<1> QED BY <1>1, <1>2, <1>3, OwnershipCorrect, InductiveInvariant, PTL DEF Spec

-----------------------------------------------------------------------------
(* Counting the items of the queues, for any contents q of them. *)
ItemsOf(q) == UNION {{w} \X DOMAIN q[w] : w \in Workers}
Queues == [Workers -> Seq(Jobs)]

(* An item is a worker and a position in its queue. *)
LEMMA ItemOf ==
  ASSUME NEW q \in Queues, NEW e
  PROVE  e \in ItemsOf(q) <=> \E u \in Workers : \E i \in 1 .. Len(q[u]) : e = <<u, i>>
<1>1. \A u \in Workers : DOMAIN q[u] = 1 .. Len(q[u])
  BY DEF Queues
<1> QED BY <1>1 DEF ItemsOf

(* Contents r have one item more than q. *)
LEMMA OneItemMore ==
  ASSUME NEW q \in Queues, NEW r \in Queues, NEW w \in Workers,
         Len(r[w]) = Len(q[w]) + 1, \A u \in Workers \ {w} : r[u] = q[u],
         IsFiniteSet(ItemsOf(q)) \/ IsFiniteSet(ItemsOf(r))
  PROVE  /\ IsFiniteSet(ItemsOf(q)) /\ IsFiniteSet(ItemsOf(r))
         /\ Cardinality(ItemsOf(r)) = Cardinality(ItemsOf(q)) + 1
<1> DEFINE e == <<w, Len(r[w])>>
<1>1. \A u \in Workers : Len(q[u]) \in Nat /\ Len(r[u]) \in Nat
  BY DEF Queues
<1>2. e \notin ItemsOf(q)
  BY <1>1, ItemOf
<1>3. ASSUME NEW x PROVE x \in ItemsOf(r) <=> x \in ItemsOf(q) \cup {e}
  <2>1. ASSUME NEW u \in Workers, NEW i \in 1 .. Len(r[u]), x = <<u, i>>
        PROVE  x \in ItemsOf(q) \cup {e}
    <3>1. CASE u = w /\ i = Len(r[w])
      BY <2>1, <3>1
    <3>2. CASE ~(u = w /\ i = Len(r[w]))
      <4>1. i \in 1 .. Len(q[u])
        BY <1>1, <2>1, <3>2
      <4> QED BY <4>1, <2>1, ItemOf
    <3> QED BY <3>1, <3>2
  <2>2. ASSUME NEW u \in Workers, NEW i \in 1 .. Len(q[u]), x = <<u, i>>
        PROVE  x \in ItemsOf(r)
    <3>1. i \in 1 .. Len(r[u])
      BY <1>1, <2>2
    <3> QED BY <3>1, <2>2, ItemOf
  <2>3. e \in ItemsOf(r)
    <3>1. Len(r[w]) \in 1 .. Len(r[w])
      BY <1>1
    <3> QED BY <3>1, ItemOf
  <2> HIDE DEF e
  <2> QED BY <2>1, <2>2, <2>3, ItemOf
<1>4. ItemsOf(r) = ItemsOf(q) \cup {e}
  BY <1>3
<1>5. IsFiniteSet(ItemsOf(q))
  <2>1. ItemsOf(q) \subseteq ItemsOf(r)
    BY <1>4
  <2> QED BY <2>1, FS_Subset
<1> HIDE DEF e
<1> QED BY <1>2, <1>4, <1>5, FS_AddElement

(* Contents r have no items but some of those of q. *)
LEMMA NoItemMore ==
  ASSUME NEW q \in Queues, NEW r \in Queues, NEW w \in Workers,
         r[w] = <<>>, \A u \in Workers \ {w} : r[u] = q[u], IsFiniteSet(ItemsOf(q))
  PROVE  /\ IsFiniteSet(ItemsOf(r))
         /\ Cardinality(ItemsOf(r)) <= Cardinality(ItemsOf(q))
<1>1. ASSUME NEW x \in ItemsOf(r) PROVE x \in ItemsOf(q)
  <2>1. PICK u \in Workers : \E i \in 1 .. Len(r[u]) : x = <<u, i>>
    BY ItemOf
  <2>2. u # w
    BY <2>1
  <2> QED BY <2>1, <2>2, ItemOf
<1>2. ItemsOf(r) \subseteq ItemsOf(q)
  BY <1>1
<1> QED BY <1>2, FS_Subset

WaitInv == IsFiniteSet(QueuedItems) /\ WaitCountCovers

(* What every step does to the three terms of Waiting: an item is counted  *)
(* before or after it is popped, and a flush only takes items away.        *)
LEMMA WaitKept ==
  ASSUME IInv, IInv', WaitInv, [Next]_vars PROVE WaitInv'
<1> DEFINE Q == Cardinality(QueuedItems)
           P == Cardinality(WorkersAt("popped"))
<1>1. queue \in Queues /\ queue' \in Queues
  BY DEF IInv, TypeOK, Queues
<1>2. QueuedItems = ItemsOf(queue) /\ QueuedItems' = ItemsOf(queue')
  BY DEF QueuedItems, ItemsOf
<1>3. IsFiniteSet(QueuedItems) /\ Q \in Nat
  BY FS_CardinalityType DEF WaitInv
<1>4. P \in Nat
  <2>1. WorkersAt("popped") \in SUBSET Workers
    BY DEF WorkersAt
  <2> QED BY <2>1, WorkersFinite
<1>5. wait_count \in Int /\ wait_count >= Q + P - (IF accPc = "count" THEN 1 ELSE 0)
  BY DEF WaitInv, WaitCountCovers, Waiting, IInv, TypeOK
<1>6. ASSUME \A w \in Workers : wPc'[w] = "popped" <=> wPc[w] = "popped" PROVE P' = P
  BY ONLY <1>6 DEF WorkersAt
<1>7. ASSUME UNCHANGED <<queue, wait_count>>, accPc' = "count" <=> accPc = "count",
             \A w \in Workers : wPc'[w] = "popped" <=> wPc[w] = "popped"
      PROVE  WaitInv'
  <2>1. P' = P
    BY <1>6, <1>7
  <2>2. QueuedItems' = QueuedItems
    BY <1>7, <1>2
  <2> QED BY <1>7, <2>1, <2>2 DEF WaitInv, WaitCountCovers, Waiting
<1>8. ASSUME IsFiniteSet(QueuedItems'),
             wait_count' >= Q' + P' - (IF accPc' = "count" THEN 1 ELSE 0)
      PROVE  WaitInv'
  BY <1>8 DEF WaitInv, WaitCountCovers, Waiting
<1> HIDE DEF Q, P
<1> USE DEF accVars
<1>9. CASE UNCHANGED vars
  BY <1>7, <1>9 DEF vars
<1>10. ASSUME NEW c \in Conns, ev_accept_callback(c) PROVE WaitInv'
  BY <1>7, <1>10 DEF ev_accept_callback
<1>11. CASE evserver_tpool_add_job \/ queue_push \/ notify_worker
  BY <1>7, <1>11 DEF evserver_tpool_add_job, queue_push, notify_worker
<1>12. CASE queue_flush
  <2>1. /\ target \in Workers /\ queue'[target] = <<>>
        /\ \A u \in Workers \ {target} : queue'[u] = queue[u]
    BY <1>12 DEF queue_flush, IInv, TypeOK
  <2>2. IsFiniteSet(QueuedItems') /\ Q' <= Q
    BY <1>1, <1>2, <1>3, <2>1, NoItemMore DEF Q
  <2>3. Q' \in Nat
    BY <2>2, FS_CardinalityType DEF Q
  <2>4. P' = P
    BY <1>6, <1>12 DEF queue_flush, Signalled, IInv, TypeOK
  <2>5. wait_count' = wait_count /\ accPc = "flush" /\ accPc' = "append"
    BY <1>12 DEF queue_flush
  <2>6. wait_count' >= Q + P
    BY ONLY <1>3, <1>4, <1>5, <2>5
  <2>7. wait_count' >= Q' + P'
    BY ONLY <1>3, <1>4, <1>5, <2>2, <2>3, <2>4, <2>5, <2>6 DEF Q, P
  <2> QED BY <1>4, <1>8, <2>2, <2>3, <2>4, <2>5, <2>7
<1>13. CASE queue_push_append
  <2>1. /\ target \in Workers /\ Len(queue'[target]) = Len(queue[target]) + 1
        /\ \A u \in Workers \ {target} : queue'[u] = queue[u]
    BY <1>13 DEF queue_push_append, IInv, TypeOK
  <2>2. IsFiniteSet(QueuedItems') /\ Q' = Q + 1
    BY <1>1, <1>2, <1>3, <2>1, OneItemMore DEF Q
  <2>3. P' = P
    BY <1>6, <1>13 DEF queue_push_append, Signalled, IInv, TypeOK
  <2>4. wait_count' = wait_count /\ accPc = "append" /\ accPc' = "count"
    BY <1>13 DEF queue_push_append
  <2> QED BY <1>3, <1>4, <1>5, <1>8, <2>2, <2>3, <2>4
<1>14. CASE count_waiting
  <2>1. /\ wait_count' = wait_count + 1 /\ accPc = "count" /\ accPc' = "notify"
        /\ UNCHANGED <<queue, wPc>>
    BY <1>14 DEF count_waiting
  <2>2. QueuedItems' = QueuedItems /\ Q' = Q
    BY <1>2, <2>1 DEF Q
  <2>3. P' = P
    BY <1>6, <2>1
  <2> QED BY <1>3, <1>4, <1>5, <1>8, <2>1, <2>2, <2>3
<1>15. ASSUME NEW w \in Workers, TakeHead(w), UNCHANGED <<accPc, wait_count>>,
              wPc[w] \in {"pop", "woken"}
       PROVE  WaitInv'
  <2>1. /\ Len(queue[w]) = Len(queue'[w]) + 1
        /\ \A u \in Workers \ {w} : queue[u] = queue'[u]
    BY <1>15 DEF TakeHead, IInv, TypeOK
  <2>2. IsFiniteSet(QueuedItems') /\ Q = Q' + 1
    BY <1>1, <1>2, <1>3, <2>1, OneItemMore DEF Q
  <2>3. Q' \in Nat
    BY <2>2, FS_CardinalityType DEF Q
  <2>4. P' = P + 1 \/ P' = P
    <3>1. CASE wPc' = [wPc EXCEPT ![w] = "popped"]
      <4>1. wPc[w] # "popped"
        BY <1>15
      <4> QED BY ONLY IInv, w \in Workers, <3>1, <4>1, WorkerArrives DEF P
    <3>2. CASE wPc' = [wPc EXCEPT ![w] = "loop"]
      <4>1. wPc[w] # "popped"
        BY <1>15
      <4> QED BY ONLY IInv, w \in Workers, <3>2, <4>1, WorkerElsewhere DEF P
    <3> QED BY <1>15, <3>1, <3>2 DEF TakeHead
  <2>5. wait_count' >= Q' + 1 + P - (IF accPc' = "count" THEN 1 ELSE 0)
    BY ONLY <1>3, <1>4, <1>5, <1>15, <2>2, <2>3
  <2>6. wait_count' >= Q' + P' - (IF accPc' = "count" THEN 1 ELSE 0)
    <3>1. wait_count' \in Int
      BY ONLY <1>5, <1>15
    <3>2. CASE accPc' = "count"
      BY ONLY <1>4, <2>3, <2>4, <2>5, <3>1, <3>2 DEF Q, P
    <3>3. CASE accPc' # "count"
      BY ONLY <1>4, <2>3, <2>4, <2>5, <3>1, <3>3 DEF Q, P
    <3> QED BY <3>2, <3>3
  <2> QED BY <1>8, <2>2, <2>6
<1>16. ASSUME NEW w \in Workers, queue_pop(w) PROVE WaitInv'
  <2>1. CASE TakeHead(w)
    BY <1>15, <1>16, <2>1 DEF queue_pop
  <2>2. CASE ~TakeHead(w)
    BY <1>7, <1>16, <2>2 DEF queue_pop, IInv, TypeOK
  <2> QED BY <2>1, <2>2
<1>17. ASSUME NEW w \in Workers, queue_pop_signalled(w) PROVE WaitInv'
  <2>1. CASE TakeHead(w)
    BY <1>15, <1>17, <2>1 DEF queue_pop_signalled
  <2>2. CASE ~TakeHead(w)
    BY <1>7, <1>17, <2>2 DEF queue_pop_signalled, IInv, TypeOK
  <2> QED BY <2>1, <2>2
<1>18. ASSUME NEW w \in Workers, uncount_waiting(w) PROVE WaitInv'
  <2>1. /\ wPc[w] = "popped" /\ wPc' = [wPc EXCEPT ![w] = "new"]
        /\ wait_count' = wait_count - 1 /\ UNCHANGED <<accPc, queue>>
    BY <1>18 DEF uncount_waiting
  <2>2. QueuedItems' = QueuedItems /\ Q' = Q
    BY <1>2, <2>1 DEF Q
  <2>3. P' = P - 1
    BY ONLY IInv, w \in Workers, <2>1, WorkerLeaves DEF P
  <2> QED BY <1>3, <1>4, <1>5, <1>8, <2>1, <2>2, <2>3
<1>19. ASSUME NEW w \in Workers,
              evserver_worker_read_callback(w) \/ queue_pop_wake(w) \/ evserver_client_new(w)
                \/ count_handling(w) \/ uncount_handling(w)
       PROVE  WaitInv'
  BY <1>7, <1>19
     DEF evserver_worker_read_callback, queue_pop_wake, evserver_client_new, count_handling,
         uncount_handling, IInv, TypeOK
<1>20. ASSUME NEW w \in Workers, NEW c \in Conns, evserver_client_exit(w, c) PROVE WaitInv'
  BY <1>7, <1>20 DEF evserver_client_exit, IInv, TypeOK
<1> QED
  BY <1>9, <1>10, <1>11, <1>12, <1>13, <1>14, <1>16, <1>17, <1>18, <1>19, <1>20
     DEF Next, Distribute, HandleNotification

(* client_wait_count, counted up after the job was queued, down after it   *)
(* was popped and not at all by queue_flush, never falls below the number  *)
(* of jobs that wait.                                                      *)
THEOREM WaitCounted == Spec => []WaitCountCovers
<1>1. Init => WaitInv
  <2> SUFFICES ASSUME Init PROVE WaitInv
    OBVIOUS
  <2>1. QueuedItems = {} /\ WorkersAt("popped") = {}
    BY DEF Init, QueuedItems, WorkersAt
  <2>2. IsFiniteSet(QueuedItems) /\ Cardinality(QueuedItems) = 0
    BY ONLY <2>1, FS_EmptySet
  <2>3. Cardinality(WorkersAt("popped")) = 0
    BY ONLY <2>1, FS_EmptySet
  <2>4. wait_count = 0 /\ accPc # "count"
    BY DEF Init
  <2> QED BY ONLY <2>2, <2>3, <2>4 DEF WaitInv, WaitCountCovers, Waiting
<1>2. IInv /\ IInv' /\ WaitInv /\ [Next]_vars => WaitInv'
  BY WaitKept
<1>3. WaitInv => WaitCountCovers
  BY DEF WaitInv
<1> QED BY <1>1, <1>2, <1>3, InductiveInvariant, PTL DEF Spec

-----------------------------------------------------------------------------
(* Remainders, which worker_index computes, are the workers. *)
LEMMA Remainder ==
  ASSUME NEW N \in Nat \ {0}, NEW n \in Nat PROVE n % N \in 0 .. N - 1
OBVIOUS

(* A number is a multiple of N plus its remainder, *)
LEMMA Quotient ==
  ASSUME NEW N \in Nat \ {0}, NEW n \in Nat, NEW r \in Int, r = n % N
  PROVE  \E q \in Int : n = N * q + r
<1>1. n % N = n - N * (n \div N)
  BY SMTT(30)
<1> DEFINE q == n \div N
<1>2. q \in Int /\ r = n - N * q
  BY <1>1
<1> HIDE DEF q
<1>3. n = N * q + r
  BY ONLY <1>2, n \in Nat, N \in Nat \ {0}
<1> QED BY <1>2, <1>3

(* and that remainder is the only one. *)
LEMMA RemainderIs ==
  ASSUME NEW N \in Nat \ {0}, NEW q \in Int, NEW r \in 0 .. N - 1
  PROVE  (N * q + r) % N = r
OBVIOUS

(* The remainder of the next number is the next remainder. *)
LEMMA NextRemainder ==
  ASSUME NEW N \in Nat \ {0}, NEW n \in Nat PROVE (n + 1) % N = ((n % N) + 1) % N
<1> DEFINE r == n % N
<1>1. r = n % N /\ r \in 0 .. N - 1
  BY Remainder
<1> HIDE DEF r
<1>2. PICK q \in Int : n = N * q + r
  <2>1. r \in Int
    BY <1>1
  <2> QED BY ONLY <1>1, <2>1, n \in Nat, N \in Nat \ {0}, Quotient
<1>3. CASE r + 1 < N
  <2>1. n + 1 = N * q + (r + 1)
    <3>1. r \in Int
      BY <1>1
    <3> QED BY ONLY <3>1, <1>2, N \in Nat \ {0}, q \in Int
  <2>2. (N * q + (r + 1)) % N = r + 1
    <3>1. r + 1 \in 0 .. N - 1
      BY ONLY <1>1, <1>3, N \in Nat \ {0}
    <3> QED BY ONLY <3>1, N \in Nat \ {0}, q \in Int, RemainderIs
  <2>3. (N * 0 + (r + 1)) % N = r + 1
    BY <1>1, <1>3, RemainderIs
  <2>4. N * 0 + (r + 1) = r + 1
    BY <1>1
  <2> QED BY <2>1, <2>2, <2>3, <2>4 DEF r
<1>4. CASE r + 1 = N
  <2>0. N * (q + 1) = N * q + N /\ N * q \in Int
    OBVIOUS
  <2>1. n + 1 = N * (q + 1) + 0
    BY <1>1, <1>2, <1>4, <2>0
  <2>2. (N * (q + 1) + 0) % N = 0
    BY RemainderIs
  <2>3. (N * 1 + 0) % N = 0
    BY RemainderIs
  <2>4. r + 1 = N * 1 + 0
    BY <1>4
  <2> QED BY <2>1, <2>2, <2>3, <2>4 DEF r
<1> QED BY <1>1, <1>3, <1>4

(* Also where current_worker wraps around, as the modulus is a multiple.  *)
LEMMA WrapKeepsTurn ==
  ASSUME NEW N \in Nat \ {0}, NEW M \in Nat \ {0}, M % N = 0, NEW n \in 0 .. M - 1
  PROVE  ((n + 1) % M) % N = ((n % N) + 1) % N
<1>1. CASE n + 1 < M
  <2>1. (M * 0 + (n + 1)) % M = n + 1
    BY <1>1, RemainderIs
  <2>2. M * 0 + (n + 1) = n + 1
    OBVIOUS
  <2>3. (n + 1) % M = n + 1
    BY <2>1, <2>2
  <2>4. (n + 1) % N = ((n % N) + 1) % N
    <3>1. n \in Nat
      OBVIOUS
    <3> QED BY ONLY <3>1, N \in Nat \ {0}, NextRemainder
  <2> QED BY <2>3, <2>4
<1>2. CASE n + 1 = M
  <2>1. (M * 1 + 0) % M = 0
    BY RemainderIs
  <2>2. M * 1 + 0 = n + 1
    BY <1>2
  <2>3. (N * 0 + 0) % N = 0
    BY RemainderIs
  <2>4. N * 0 + 0 = 0
    OBVIOUS
  <2>5. ((n % N) + 1) % N = 0
    <3>2. n \in Nat
      OBVIOUS
    <3>1. (n + 1) % N = ((n % N) + 1) % N
      BY ONLY <3>2, N \in Nat \ {0}, NextRemainder
    <3> QED BY <1>2, <3>1
  <2> QED BY <2>1, <2>2, <2>3, <2>4, <2>5
<1> QED BY <1>1, <1>2

(* current_worker always stands for the worker after the last one. *)
Turn == worker_index = (target + 1) % NumWorkers

(* Only evserver_tpool_add_job takes the accept thread on from "add_job",  *)
(* and only it touches either variable.                                    *)
LEMMA TurnStep ==
  ASSUME IInv, Turn, [Next]_vars
  PROVE  /\ Turn'
         /\ accPc = "add_job" /\ accPc' # "add_job" => target' = (target + 1) % NumWorkers
<1>1. CASE evserver_tpool_add_job
  <2>1. target' = worker_index /\ current_worker' = (current_worker + 1) % CounterMod
    BY <1>1 DEF evserver_tpool_add_job
  <2>2. current_worker \in 0 .. CounterMod - 1
    BY DEF IInv, TypeOK
  <2>3. current_worker' % NumWorkers = ((current_worker % NumWorkers) + 1) % NumWorkers
    BY ONLY <2>1, <2>2, NumWorkersAssumption, CounterModAssumption, WrapKeepsTurn
  <2>4. Turn'
    BY <2>1, <2>3 DEF Turn, worker_index
  <2>5. target' = (target + 1) % NumWorkers
    BY <2>1 DEF Turn
  <2> QED BY <2>4, <2>5
<1>2. ASSUME UNCHANGED <<target, current_worker>>, accPc = "add_job" => accPc' = "add_job"
      PROVE  /\ Turn'
             /\ accPc = "add_job" /\ accPc' # "add_job" => target' = (target + 1) % NumWorkers
  BY <1>2 DEF Turn, worker_index
<1> USE DEF accVars
<1>3. CASE UNCHANGED vars
  BY <1>2, <1>3 DEF vars
<1>4. ASSUME NEW c \in Conns, ev_accept_callback(c)
      PROVE  UNCHANGED <<target, current_worker>> /\ (accPc = "add_job" => accPc' = "add_job")
  BY <1>4 DEF ev_accept_callback
<1>5. CASE queue_push \/ queue_flush \/ queue_push_append \/ count_waiting \/ notify_worker
  BY <1>2, <1>5 DEF queue_push, queue_flush, queue_push_append, count_waiting, notify_worker
<1>6. ASSUME NEW w \in Workers, HandleNotification(w)
      PROVE  UNCHANGED accVars
  BY <1>6
     DEF HandleNotification, evserver_worker_read_callback, queue_pop, queue_pop_wake,
         queue_pop_signalled, uncount_waiting, evserver_client_new, count_handling,
         uncount_handling
<1>7. ASSUME NEW w \in Workers, NEW c \in Conns, evserver_client_exit(w, c)
      PROVE  UNCHANGED accVars
  BY <1>7 DEF evserver_client_exit
<1> QED BY <1>1, <1>2, <1>3, <1>4, <1>5, <1>6, <1>7 DEF Next, Distribute

(* evserver_tpool_add_job gives successive jobs to successive workers,     *)
(* across the wrap-around of current_worker and across failed allocations. *)
THEOREM TurnsInOrder == Spec => RoundRobin
<1>1. Init => Turn
  <2> SUFFICES ASSUME Init PROVE Turn
    OBVIOUS
  <2>1. current_worker = NumWorkers * 0 + 0 /\ target + 1 = NumWorkers * 1 + 0
    BY NumWorkersAssumption DEF Init
  <2>2. (NumWorkers * 0 + 0) % NumWorkers = 0
    BY NumWorkersAssumption, RemainderIs
  <2>3. (NumWorkers * 1 + 0) % NumWorkers = 0
    BY NumWorkersAssumption, RemainderIs
  <2> QED BY <2>1, <2>2, <2>3 DEF Turn, worker_index
<1>2. IInv /\ Turn /\ [Next]_vars => Turn'
  BY TurnStep
<1>3. IInv /\ Turn /\ [Next]_vars =>
        [accPc = "add_job" /\ accPc' # "add_job" => target' = (target + 1) % NumWorkers]_vars
  BY TurnStep
<1> QED BY <1>1, <1>2, <1>3, InductiveInvariant, PTL DEF Spec, RoundRobin
-----------------------------------------------------------------------------
(* Dispatch implements ConnService. *)

(* When calloc does not fail, no item is without its connection. *)
Filled ==
  /\ accPc \in {"add_job", "push", "flush", "append"} => accJob \in Conns
  /\ \A w \in Workers : queue[w] \in Seq(Conns)

(* evserver_tpool_add_job fills the item, and the queues only pass it on. *)
LEMMA FilledKept ==
  ASSUME ~AllocFails, IInv, Filled, [Next]_vars PROVE Filled'
<1>1. ASSUME UNCHANGED <<accPc, accJob, queue>> PROVE Filled'
  BY <1>1 DEF Filled
<1>2. queue \in [Workers -> Seq(Jobs)] /\ target \in Workers
  BY DEF IInv, TypeOK
<1> USE DEF accVars
<1>3. CASE UNCHANGED vars
  BY <1>1, <1>3 DEF vars
<1>4. ASSUME NEW c \in Conns, ev_accept_callback(c) PROVE Filled'
  BY <1>4 DEF ev_accept_callback, Filled
<1>5. CASE evserver_tpool_add_job
  BY <1>5 DEF evserver_tpool_add_job, item_alloc, Filled
<1>6. CASE queue_push \/ count_waiting \/ notify_worker
  BY <1>6 DEF queue_push, count_waiting, notify_worker, Filled
<1>7. CASE queue_flush
  <2>1. \A w \in Workers : queue'[w] = IF w = target THEN <<>> ELSE queue[w]
    BY <1>2, <1>7 DEF queue_flush
  <2> QED BY <1>7, <2>1 DEF queue_flush, Filled
<1>8. CASE queue_push_append
  <2>1. accJob \in Conns /\ accPc' = "count" /\ queue[target] \in Seq(Conns)
    BY <1>2, <1>8 DEF queue_push_append, Filled
  <2>2. Append(queue[target], accJob) \in Seq(Conns)
    BY <2>1
  <2>3. \A w \in Workers : queue'[w] = IF w = target THEN Append(queue[target], accJob) ELSE queue[w]
    BY <1>2, <1>8 DEF queue_push_append
  <2> QED BY <2>1, <2>2, <2>3 DEF Filled
<1>9. ASSUME NEW w \in Workers, queue_pop(w) \/ queue_pop_signalled(w) PROVE Filled'
  <2>1. UNCHANGED <<accPc, accJob>>
    BY <1>9 DEF queue_pop, queue_pop_signalled
  <2>2. CASE UNCHANGED queue
    BY <1>1, <2>1, <2>2
  <2>3. CASE TakeHead(w)
    <3>1. Tail(queue[w]) \in Seq(Conns)
      BY <2>3 DEF TakeHead, Filled
    <3>2. \A v \in Workers : queue'[v] = IF v = w THEN Tail(queue[w]) ELSE queue[v]
      BY <1>2, <2>3 DEF TakeHead
    <3> QED BY <2>1, <3>1, <3>2 DEF Filled
  <2> QED BY <1>9, <2>2, <2>3 DEF queue_pop, queue_pop_signalled
<1>10. ASSUME NEW w \in Workers,
              evserver_worker_read_callback(w) \/ queue_pop_wake(w) \/ uncount_waiting(w)
                \/ evserver_client_new(w) \/ count_handling(w) \/ uncount_handling(w)
       PROVE  Filled'
  BY <1>1, <1>10
     DEF evserver_worker_read_callback, queue_pop_wake, uncount_waiting, evserver_client_new,
         count_handling, uncount_handling
<1>11. ASSUME NEW w \in Workers, NEW c \in Conns, evserver_client_exit(w, c) PROVE Filled'
  BY <1>1, <1>11 DEF evserver_client_exit
<1> QED
  BY <1>3, <1>4, <1>5, <1>6, <1>7, <1>8, <1>9, <1>10, <1>11
     DEF Next, Distribute, HandleNotification

(* Which of the places the stage of a connection names. *)
LEMMA StageIs ==
  ASSUME NEW c \in Conns, Alone(c)
  PROVE  /\ c \in closed => StageOf(c) = "closed"
         /\ c \in Served => StageOf(c) = "served"
         /\ Held(c) => StageOf(c) = "taken"
         /\ Waits(c) => StageOf(c) = "waiting"
         /\ c \notin closed /\ c \notin Served /\ ~Held(c) /\ ~Waits(c) => StageOf(c) = "new"
<1> DEFINE H == \E w \in Workers : job[w] = c
           W == \E w \in Workers : c \in JobsIn(queue[w])
<1>1. StageOf(c) = CASE c \in closed -> "closed"
                      [] c \in Served -> "served"
                      [] H -> "taken"
                      [] W -> "waiting"
                      [] OTHER -> "new"
  BY DEF StageOf
<1>2. H <=> Held(c)
  BY DEF Held
<1>3. W <=> Waits(c)
  <2>1. \A w \in Workers : c \in JobsIn(queue[w]) <=> \E i \in DOMAIN queue[w] : queue[w][i] = c
    BY ConnsAssumption DEF JobsIn
  <2> QED BY <2>1 DEF Waits
<1> HIDE DEF H, W
<1> QED BY <1>1, <1>2, <1>3 DEF Alone

(* The same after a step. *)
LEMMA StageIsNext ==
  ASSUME NEW c \in Conns, Alone(c)'
  PROVE  /\ c \in closed' => StageOf(c)' = "closed"
         /\ c \in Served' => StageOf(c)' = "served"
         /\ Held(c)' => StageOf(c)' = "taken"
         /\ Waits(c)' => StageOf(c)' = "waiting"
         /\ c \notin closed' /\ c \notin Served' /\ ~Held(c)' /\ ~Waits(c)' => StageOf(c)' = "new"
<1> DEFINE H == \E w \in Workers : job'[w] = c
           W == \E w \in Workers : c \in JobsIn(queue'[w])
<1>1. StageOf(c)' = CASE c \in closed' -> "closed"
                      [] c \in Served' -> "served"
                      [] H -> "taken"
                      [] W -> "waiting"
                      [] OTHER -> "new"
  BY DEF StageOf
<1>2. H <=> Held(c)'
  BY DEF Held
<1>3. W <=> Waits(c)'
  <2>1. \A w \in Workers : c \in JobsIn(queue'[w]) <=> \E i \in DOMAIN queue'[w] : queue'[w][i] = c
    BY ConnsAssumption DEF JobsIn
  <2> QED BY <2>1 DEF Waits
<1> HIDE DEF H, W
<1> QED BY <1>1, <1>2, <1>3 DEF Alone

(* A connection that stays where it is keeps its stage. *)
LEMMA StageStays ==
  ASSUME NEW c \in Conns, Alone(c), Alone(c)', c \in closed' <=> c \in closed,
         c \in Served' <=> c \in Served, Held(c)' <=> Held(c), Waits(c)' <=> Waits(c)
  PROVE  StageOf(c)' = StageOf(c)
BY StageIs, StageIsNext

(* A step that moves one connection is a move of the service. *)
LEMMA ServiceMove ==
  ASSUME NEW c \in Conns, NEW from, NEW to, StageOf(c) = from, StageOf(c)' = to,
         \A x \in Conns \ {c} : StageOf(x)' = StageOf(x)
  PROVE  Service!Move(c, from, to)
BY DEF Service!Move

(* A step that moves no connection is none for the service. *)
LEMMA ServiceRests ==
  ASSUME UNCHANGED queue, \A x \in Conns : StageOf(x)' = StageOf(x)
  PROVE  UNCHANGED Service!svars
BY DEF Service!svars

(* Of the accept thread's steps, a refusal, queue_push_append and a flush  *)
(* of a queue that is not empty are steps of the service.                  *)
LEMMA AcceptServes ==
  ASSUME ~AllocFails, IInv, Ownership, Ownership', Filled,
         Distribute \/ \E d \in Conns : ev_accept_callback(d)
  PROVE  [Service!Next]_(Service!svars)
<1>1. \A x \in Conns : Alone(x) /\ Alone(x)' /\ OnePlace(x) /\ x # NoJob
  BY ConnsAssumption DEF Ownership, Owned
<1>2. target \in Workers /\ queue \in [Workers -> Seq(Jobs)]
  BY DEF IInv, TypeOK
<1>3. ASSUME UNCHANGED <<queue, job, clients, closed>> PROVE UNCHANGED Service!svars
  <2>1. ASSUME NEW x \in Conns PROVE StageOf(x)' = StageOf(x)
    BY <1>1, <1>3, Unmoved, StageStays
  <2> QED BY <1>3, <2>1, ServiceRests
<1>4. ASSUME NEW d \in Conns, ev_accept_callback(d) PROVE [Service!Next]_(Service!svars)
  <2>1. UNCHANGED <<queue, job, clients>> /\ d \in backlog
        /\ (closed' = closed \cup {d} \/ UNCHANGED closed)
    BY <1>4 DEF ev_accept_callback
  <2>2. CASE UNCHANGED closed
    BY <1>3, <2>1, <2>2
  <2>3. CASE closed' = closed \cup {d}
    <3>1. StageOf(d) = "new"
      BY <1>1, <2>1, StageIs DEF Alone
    <3>2. StageOf(d)' = "closed"
      BY <1>1, <2>3, StageIsNext
    <3>3. ASSUME NEW x \in Conns \ {d} PROVE StageOf(x)' = StageOf(x)
      BY <1>1, <2>1, <2>3, Unmoved, StageStays
    <3>4. Service!Refuse(d)
      BY <2>1, <3>1, <3>2, <3>3, ServiceMove DEF Service!Refuse
    <3> QED BY <3>4 DEF Service!Next
  <2> QED BY <2>1, <2>2, <2>3
<1>5. CASE evserver_tpool_add_job \/ queue_push \/ count_waiting \/ notify_worker
  BY <1>3, <1>5 DEF evserver_tpool_add_job, queue_push, count_waiting, notify_worker
<1>6. CASE queue_flush
  <2>1. /\ UNCHANGED <<job, clients>> /\ queue' = [queue EXCEPT ![target] = <<>>]
        /\ closed' = closed \cup JobsIn(queue[target])
    BY <1>6 DEF queue_flush
  <2>2. CASE queue[target] = <<>>
    <3>1. queue' = queue
      BY <1>2, <2>1, <2>2
    <3>2. closed' = closed
      BY <2>1, <2>2 DEF JobsIn
    <3> QED BY <1>3, <2>1, <3>1, <3>2
  <2>3. CASE queue[target] # <<>>
    <3>1. ASSUME NEW x \in Conns
          PROVE  x \in JobsIn(queue[target]) <=> \E i \in DOMAIN queue[target] : queue[target][i] = x
      BY <1>1 DEF JobsIn
    <3>2. ASSUME NEW x \in Conns, x \in JobsIn(queue[target]) PROVE StageOf(x)' = "closed"
      BY <1>1, <2>1, <3>2, StageIsNext
    <3>3. ASSUME NEW x \in Conns, x \notin JobsIn(queue[target]) PROVE StageOf(x)' = StageOf(x)
      <4>1. Waits(x)' <=> Waits(x)
        BY <1>1, <1>2, <2>1, <3>3, ItemsLeave
      <4>2. (Held(x)' <=> Held(x)) /\ Served' = Served
        BY <2>1, Unmoved
      <4> QED BY <1>1, <2>1, <3>3, <4>1, <4>2, StageStays
    <3>4. Service!Shed(target)
      BY <2>1, <2>3, <3>1, <3>2, <3>3 DEF Service!Shed
    <3> QED BY <1>2, <3>4 DEF Service!Next
  <2> QED BY <2>2, <2>3
<1>7. CASE queue_push_append
  <2>1. PICK k \in Conns : k = accJob
    BY <1>7 DEF queue_push_append, Filled
  <2>2. /\ UNCHANGED <<job, clients, closed>> /\ queue' = [queue EXCEPT ![target] = Append(@, k)]
        /\ k \in Jobs
    BY <1>7, <2>1 DEF queue_push_append, Jobs
  <2>3. ASSUME NEW x \in Conns PROVE Waits(x)' <=> Waits(x) \/ x = k
    BY <1>1, <1>2, <2>1, <2>2, ItemEnters DEF Alone
  <2>4. StageOf(k) = "new"
    BY <1>1, <2>1, StageIs DEF Alone
  <2>5. StageOf(k)' = "waiting"
    BY ONLY <1>1, <2>1, <2>3, StageIsNext
  <2>6. ASSUME NEW x \in Conns \ {k} PROVE StageOf(x)' = StageOf(x)
    BY <1>1, <2>2, <2>3, Unmoved, StageStays
  <2>7. Service!Move(k, "new", "waiting")
    BY <2>1, <2>4, <2>5, <2>6, ServiceMove
  <2>8. Service!Enter(k, target)
    BY <2>2, <2>7 DEF Service!Enter
  <2> QED BY <1>2, <2>1, <2>8 DEF Service!Next
<1> QED BY <1>4, <1>5, <1>6, <1>7 DEF Distribute

(* Of a worker's steps, taking a job, disposing of it and releasing a      *)
(* client are steps of the service.                                        *)
LEMMA WorkerServes ==
  ASSUME ~AllocFails, IInv, Ownership, Ownership', Filled, NEW w \in Workers,
         HandleNotification(w) \/ \E d \in Conns : evserver_client_exit(w, d)
  PROVE  [Service!Next]_(Service!svars)
<1>1. \A x \in Conns : /\ Alone(x) /\ Alone(x)' /\ x # NoJob
                       /\ OnePlace(x) /\ OneJob(x) /\ OneServer(x)
  BY ConnsAssumption DEF Ownership, Owned
<1>2. ASSUME UNCHANGED <<queue, job, clients, closed>> PROVE UNCHANGED Service!svars
  <2>1. ASSUME NEW x \in Conns PROVE StageOf(x)' = StageOf(x)
    BY <1>1, <1>2, Unmoved, StageStays
  <2> QED BY <1>2, <2>1, ServiceRests
<1>3. CASE evserver_worker_read_callback(w) \/ queue_pop_wake(w) \/ uncount_waiting(w)
           \/ count_handling(w) \/ uncount_handling(w)
  BY <1>2, <1>3
     DEF evserver_worker_read_callback, queue_pop_wake, uncount_waiting, count_handling,
         uncount_handling
<1>4. CASE queue_pop(w) \/ queue_pop_signalled(w)
  <2>1. UNCHANGED <<clients, closed>> /\ wPc[w] \in {"pop", "woken"}
    BY <1>4 DEF queue_pop, queue_pop_signalled
  <2>2. CASE UNCHANGED <<queue, job>>
    BY <1>2, <2>1, <2>2
  <2>3. CASE TakeHead(w)
    <3>1. /\ queue[w] # <<>> /\ queue' = [queue EXCEPT ![w] = Tail(@)]
          /\ job' = [job EXCEPT ![w] = Head(queue[w])] /\ job[w] = NoJob
      BY <2>1, <2>3 DEF TakeHead, Ownership, HandsFree
    <3>2. PICK h \in Conns : h = Head(queue[w])
      <4>1. queue[w] \in Seq(Conns)
        BY DEF Filled
      <4> QED BY <3>1, <4>1
    <3>3. ASSUME NEW x \in Conns
          PROVE  (Waits(x) <=> Waits(x)' \/ x = h) /\ ~(Waits(x)' /\ x = h)
      BY <1>1, <3>1, <3>2, HeadLeaves
    <3>4. ASSUME NEW x \in Conns PROVE Held(x)' <=> Held(x) \/ x = h
      <4>1. ~(Held(x) /\ x = h)
        BY <1>1, <3>3 DEF Alone
      <4> QED BY <1>1, <3>1, <3>2, <4>1, JobTaken
    <3>5. StageOf(h) = "waiting"
      BY ONLY <1>1, <3>2, <3>3, StageIs
    <3>6. StageOf(h)' = "taken"
      BY ONLY <1>1, <3>2, <3>4, StageIsNext
    <3>7. ASSUME NEW x \in Conns \ {h} PROVE StageOf(x)' = StageOf(x)
      BY <1>1, <2>1, <3>3, <3>4, Unmoved, StageStays
    <3>8. Service!Move(h, "waiting", "taken")
      BY <3>2, <3>5, <3>6, <3>7, ServiceMove
    <3>9. Service!Take(w)
      BY <3>1, <3>2, <3>8 DEF Service!Take
    <3> QED BY <3>9 DEF Service!Next
  <2> QED BY <1>4, <2>2, <2>3 DEF queue_pop, queue_pop_signalled
<1>5. CASE evserver_client_new(w)
  <2>1. PICK k \in Conns : k = job[w] /\ Held(k)
    BY <1>5 DEF evserver_client_new, IInv, HoldsConn, Held
  <2>2. /\ UNCHANGED queue /\ job' = [job EXCEPT ![w] = NoJob]
        /\ \/ clients' = [clients EXCEPT ![w] = @ \cup {k}] /\ UNCHANGED closed
           \/ closed' = closed \cup {k} /\ UNCHANGED clients
    BY <1>5, <2>1 DEF evserver_client_new
  <2>3. ASSUME NEW x \in Conns
        PROVE  (Held(x)' <=> Held(x) /\ x # k) /\ (Waits(x)' <=> Waits(x))
    BY <1>1, <2>2, <2>1, JobDropped, Unmoved
  <2>4. StageOf(k) = "taken"
    BY ONLY <1>1, <2>1, StageIs
  <2>5. CASE clients' = [clients EXCEPT ![w] = @ \cup {k}] /\ UNCHANGED closed
    <3>1. Served' = Served \cup {k}
      BY <2>5, ClientAdded
    <3>2. StageOf(k)' = "served"
      BY ONLY <1>1, <2>1, <3>1, StageIsNext
    <3>3. ASSUME NEW x \in Conns \ {k} PROVE StageOf(x)' = StageOf(x)
      BY <1>1, <2>3, <2>5, <3>1, StageStays
    <3>4. Service!Move(k, "taken", "served")
      BY <2>1, <2>4, <3>2, <3>3, ServiceMove
    <3> QED BY <2>2, <2>1, <3>4 DEF Service!Next, Service!Begin
  <2>6. CASE closed' = closed \cup {k} /\ UNCHANGED clients
    <3>1. StageOf(k)' = "closed"
      BY ONLY <1>1, <2>1, <2>6, StageIsNext
    <3>2. ASSUME NEW x \in Conns \ {k} PROVE StageOf(x)' = StageOf(x)
      BY <1>1, <2>3, <2>6, Unmoved, StageStays
    <3>3. Service!Move(k, "taken", "closed")
      BY <2>1, <2>4, <3>1, <3>2, ServiceMove
    <3> QED BY <2>2, <2>1, <3>3 DEF Service!Next, Service!Begin
  <2> QED BY <2>2, <2>5, <2>6
<1>6. ASSUME NEW d \in Conns, evserver_client_exit(w, d) PROVE [Service!Next]_(Service!svars)
  <2>1. /\ UNCHANGED <<queue, job>> /\ d \in clients[w]
        /\ clients' = [clients EXCEPT ![w] = @ \ {d}] /\ closed' = closed \cup {d}
    BY <1>6 DEF evserver_client_exit
  <2>2. Served' = Served \ {d} /\ d \in Served
    BY <1>1, <2>1, ClientRemoved
  <2>3. StageOf(d) = "served"
    BY ONLY <1>1, d \in Conns, <2>2, StageIs
  <2>4. StageOf(d)' = "closed"
    BY ONLY <1>1, d \in Conns, <2>1, StageIsNext
  <2>5. ASSUME NEW x \in Conns \ {d} PROVE StageOf(x)' = StageOf(x)
    BY <1>1, <2>1, <2>2, Unmoved, StageStays
  <2>6. Service!Move(d, "served", "closed")
    BY <2>3, <2>4, <2>5, ServiceMove
  <2> QED BY <2>1, <2>6 DEF Service!Next, Service!Finish
<1> QED BY <1>3, <1>4, <1>5, <1>6 DEF HandleNotification

(* Unless calloc fails, the dispatcher does with connections what          *)
(* ConnService allows and nothing else: it serves each line in its order,  *)
(* sheds whole lines only, takes no connection twice, and every connection *)
(* it took is served or closed, once.                                      *)
THEOREM Implementation ==
  ASSUME ~AllocFails PROVE Spec => Service!Spec
<1>1. Init => Filled
  BY DEF Init, Filled
<1>2. IInv /\ Filled /\ [Next]_vars => Filled'
  BY FilledKept
<1>3. Init => Service!Init
  <2> SUFFICES ASSUME Init PROVE Service!Init
    OBVIOUS
  <2>1. ASSUME NEW c \in Conns PROVE StageOf(c) = "new"
    <3>1. c \notin closed /\ c \notin Served /\ ~Held(c) /\ ~Waits(c)
      BY ConnsAssumption DEF Init, Served, Held, Waits
    <3>2. Alone(c)
      BY <3>1, ConnsAssumption DEF Init, Alone
    <3> QED BY <3>1, <3>2, StageIs
  <2> QED BY <2>1 DEF Init, Service!Init
<1>4. IInv /\ Ownership /\ Ownership' /\ Filled /\ [Next]_vars => [Service!Next]_(Service!svars)
  <2> SUFFICES ASSUME IInv, Ownership, Ownership', Filled, [Next]_vars
               PROVE  [Service!Next]_(Service!svars)
    OBVIOUS
  <2>1. CASE UNCHANGED vars
    <3>1. ASSUME NEW x \in Conns PROVE StageOf(x)' = StageOf(x)
      <4>1. Alone(x) /\ Alone(x)' /\ UNCHANGED <<queue, job, clients, closed>>
        BY <2>1 DEF vars, Ownership, Owned
      <4> QED BY <4>1, Unmoved, StageStays
    <3> QED BY <2>1, <3>1, ServiceRests DEF vars
  <2>2. CASE Next
    BY <2>2, AcceptServes, WorkerServes DEF Next
  <2> QED BY <2>1, <2>2
<1> QED
  BY <1>1, <1>2, <1>3, <1>4, InductiveInvariant, OwnershipCorrect, PTL DEF Spec, Service!Spec

===============================================================================
