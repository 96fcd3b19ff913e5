--------------------------- MODULE ThreadPoolProofs ---------------------------
(***************************************************************************)
(* Proofs about ThreadPool, for any number of threads and of works: every  *)
(* work is in one place, and no thread sleeps over a work.                 *)
(***************************************************************************)
EXTENDS ThreadPool, FiniteSetTheorems, SequenceTheorems, TLAPS

-----------------------------------------------------------------------------
(* What makes the properties inductive. *)

(* main's loops have not reached their ends while it is within them, and   *)
(* the threads that exist are the first ones.                              *)
InLoops ==
  /\ mainPc = "create" => created < NumThreads
  /\ mainPc \in {"create", "poll"} => added = 0
  /\ mainPc \in {"check", "append", "signal"} => added < NumWorks
  /\ \A t \in Threads : tPc[t] = "none" <=> t > created

(* A thread that has taken a work knows which. *)
KnowsWork == \A t \in Threads : tPc[t] = "taken" => work[t] \in Works

(* The counters count the threads past their report, and those at work. *)
CountsExact ==
  /\ worker_counts = Cardinality(ThreadsAt(ThreadPcs \ {"none", "start"}))
  /\ working_counts = Cardinality(ThreadsAt({"run", "ran"}))

IInv == TypeOK /\ InLoops /\ KnowsWork /\ CountsExact

-----------------------------------------------------------------------------
(* Counting threads and works. *)

(* There are finitely many threads at any set of places. *)
LEMMA ThreadsFinite ==
  ASSUME NEW S \in SUBSET Threads
  PROVE  IsFiniteSet(S) /\ Cardinality(S) \in 0 .. NumThreads
<1>1. IsFiniteSet(Threads) /\ Cardinality(Threads) = NumThreads
  BY FS_Interval, NumThreadsAssumption DEF Threads
<1>2. IsFiniteSet(S) /\ Cardinality(S) <= NumThreads
  BY <1>1, FS_Subset
<1>3. Cardinality(S) \in Nat
  BY <1>2, FS_CardinalityType
<1> QED BY <1>2, <1>3, NumThreadsAssumption

(* A thread that goes elsewhere is counted where it arrives and no longer  *)
(* where it was.                                                           *)
LEMMA Moves ==
  ASSUME TypeOK, NEW t \in Threads, NEW to, tPc' = [tPc EXCEPT ![t] = to],
         NEW CONSTANT pcs
  PROVE  Cardinality(ThreadsAt(pcs)') =
           Cardinality(ThreadsAt(pcs)) + (IF to \in pcs THEN 1 ELSE 0)
                                       - (IF tPc[t] \in pcs THEN 1 ELSE 0)
<1> DEFINE A == ThreadsAt(pcs)
<1>1. tPc'[t] = to /\ \A u \in Threads \ {t} : tPc'[u] = tPc[u]
  BY DEF TypeOK
<1>2. IsFiniteSet(A) /\ Cardinality(A) \in Nat
  BY ThreadsFinite, NumThreadsAssumption DEF ThreadsAt
<1>3. t \in A <=> tPc[t] \in pcs
  BY DEF ThreadsAt
<1>4. CASE to \in pcs
  <2>1. A' = A \cup {t}
    BY <1>1, <1>4 DEF ThreadsAt
  <2>2. Cardinality(A \cup {t}) = IF t \in A THEN Cardinality(A) ELSE Cardinality(A) + 1
    BY <1>2, FS_AddElement
  <2> HIDE DEF A
  <2>3. Cardinality(A') = Cardinality(A) + 1 - (IF tPc[t] \in pcs THEN 1 ELSE 0)
    BY <1>2, <1>3, <2>1, <2>2
  <2> QED BY <1>4, <2>3 DEF A
<1>5. CASE to \notin pcs
  <2>1. A' = A \ {t}
    BY <1>1, <1>5 DEF ThreadsAt
  <2>2. Cardinality(A \ {t}) = IF t \in A THEN Cardinality(A) - 1 ELSE Cardinality(A)
    BY <1>2, FS_RemoveElement
  <2> HIDE DEF A
  <2>3. Cardinality(A') = Cardinality(A) + 0 - (IF tPc[t] \in pcs THEN 1 ELSE 0)
    BY <1>2, <1>3, <2>1, <2>2
  <2> QED BY <1>5, <2>3 DEF A
<1> QED BY <1>4, <1>5

(* No thread moves: the counters and the threads are left alone. *)
LEMMA CountsKept ==
  ASSUME CountsExact, UNCHANGED <<tPc, worker_counts, working_counts>> PROVE CountsExact'
BY DEF CountsExact, ThreadsAt

(* The threads past their report. *)
Reported == {"lock", "wait", "taken", "run", "ran"}

(* A thread moves, and the counters with it. *)
LEMMA CountsMove ==
  ASSUME TypeOK, CountsExact, NEW t \in Threads, NEW from, NEW to,
         tPc[t] = from, tPc' = [tPc EXCEPT ![t] = to],
         \/ (from \in Reported <=> to \in Reported) /\ UNCHANGED worker_counts
         \/ from \notin Reported /\ to \in Reported /\ worker_counts' = worker_counts + 1,
         \/ (from \in {"run", "ran"} <=> to \in {"run", "ran"}) /\ UNCHANGED working_counts
         \/ /\ from \notin {"run", "ran"} /\ to \in {"run", "ran"}
            /\ working_counts' = working_counts + 1
         \/ /\ from \in {"run", "ran"} /\ to \notin {"run", "ran"}
            /\ working_counts' = working_counts - 1
  PROVE  CountsExact' /\ worker_counts' \in 0 .. NumThreads /\ working_counts' \in 0 .. NumThreads
<1>1. Reported = ThreadPcs \ {"none", "start"}
  BY DEF Reported, ThreadPcs
<1> DEFINE P == Cardinality(ThreadsAt(Reported))
           R == Cardinality(ThreadsAt({"run", "ran"}))
<1>2. worker_counts = P /\ working_counts = R /\ P \in Int /\ R \in Int
  BY <1>1 DEF CountsExact, TypeOK
<1>3. P' = P + (IF to \in Reported THEN 1 ELSE 0) - (IF from \in Reported THEN 1 ELSE 0)
  BY Moves
<1>4. R' = R + (IF to \in {"run", "ran"} THEN 1 ELSE 0) - (IF from \in {"run", "ran"} THEN 1 ELSE 0)
  BY Moves
<1>5. P' \in 0 .. NumThreads /\ R' \in 0 .. NumThreads
  <2>1. /\ ThreadsAt(Reported)' \in SUBSET Threads
        /\ ThreadsAt({"run", "ran"})' \in SUBSET Threads
    BY DEF ThreadsAt
  <2> QED BY <2>1, ThreadsFinite
<1> HIDE DEF P, R
<1>6. worker_counts' = P'
  BY <1>2, <1>3
<1>7. working_counts' = R'
  BY <1>2, <1>4
<1> QED BY <1>1, <1>5, <1>6, <1>7 DEF CountsExact, P, R

(* main's steps keep the inductive invariant. *)
LEMMA MainIInv == ASSUME IInv, Main PROVE IInv'
<1> USE NumThreadsAssumption, NumWorksAssumption
<1>1. TypeOK /\ InLoops /\ KnowsWork /\ CountsExact
  BY DEF IInv
<1>2. CASE tpool_create
  <2>1. created + 1 \in Threads /\ tPc[created + 1] = "none"
    BY <1>1, <1>2 DEF tpool_create, InLoops, TypeOK, Threads
  <2>2. CountsExact'
    <3>1. UNCHANGED <<worker_counts, working_counts>> /\ tPc' = [tPc EXCEPT ![created + 1] = "start"]
      BY <1>2 DEF tpool_create
    <3> QED BY <1>1, <2>1, <3>1, CountsMove DEF Reported
  <2>3. TypeOK'
    BY <1>1, <1>2, <2>1 DEF tpool_create, TypeOK, InLoops, MainPcs, ThreadPcs
  <2>4. InLoops' /\ KnowsWork'
    BY <1>1, <1>2, <2>1 DEF tpool_create, TypeOK, InLoops, KnowsWork, Threads
  <2> QED BY <2>2, <2>3, <2>4 DEF IInv
<1>3. CASE add_work_signal
  <2>1. TypeOK' /\ InLoops' /\ KnowsWork'
    BY <1>1, <1>3 DEF add_work_signal, AfterWork, Waiting, TypeOK, InLoops, KnowsWork, MainPcs,
                      ThreadPcs
  <2>2. CountsExact'
    <3>1. CASE UNCHANGED tPc
      BY <1>1, <1>3, <3>1, CountsKept DEF add_work_signal
    <3>2. ASSUME NEW t \in Threads, tPc[t] = "wait", tPc' = [tPc EXCEPT ![t] = "lock"]
          PROVE  CountsExact'
      BY <1>1, <1>3, <3>2, CountsMove DEF add_work_signal, Reported
    <3> QED BY <1>3, <3>1, <3>2 DEF add_work_signal, Waiting
  <2> QED BY <2>1, <2>2 DEF IInv
<1>4. CASE tpool_create_fails \/ main_returns \/ tpool_get_worker_count \/ evserver_tpool_new_fails
           \/ start_monitor
  <2> USE <1>4 DEF tpool_create_fails, main_returns, tpool_get_worker_count,
                   evserver_tpool_new_fails, start_monitor, AfterWork
  <2>1. CountsExact'
    BY <1>1, CountsKept
  <2>2. TypeOK' /\ InLoops' /\ KnowsWork'
    BY <1>1 DEF TypeOK, InLoops, KnowsWork, MainPcs
  <2> QED BY <2>1, <2>2 DEF IInv
<1>5. CASE tpool_add_work \/ add_work_calloc_fails \/ add_work_append
  <2> USE <1>5 DEF tpool_add_work, add_work_calloc_fails, add_work_append, AfterWork
  <2>1. CountsExact'
    BY <1>1, CountsKept
  <2>2. added + 1 \in Works
    BY <1>1 DEF TypeOK, InLoops, Works
  <2>3. TypeOK'
    <3>0. queue \in Seq(Works)
      BY <1>1 DEF TypeOK
    <3>1. queue' \in Seq(Works)
      <4>1. Append(queue, added + 1) \in Seq(Works)
        BY ONLY <2>2, <3>0, AppendProperties
      <4>2. queue' = queue \/ queue' = Append(queue, added + 1)
        OBVIOUS
      <4> QED BY ONLY <3>0, <4>1, <4>2
    <3>2. added' \in 0 .. NumWorks /\ mainPc' \in MainPcs
      BY <1>1 DEF TypeOK, InLoops, MainPcs
    <3>3. rejected' \subseteq Works /\ unallocated' \subseteq Works
      BY <1>1, <2>2 DEF TypeOK
    <3>4. UNCHANGED <<created, tPc, work, worker_counts, working_counts, runs>>
      OBVIOUS
    <3> QED BY ONLY <1>1, <3>1, <3>2, <3>3, <3>4 DEF TypeOK
  <2>4. InLoops' /\ KnowsWork'
    BY <1>1, <2>2 DEF TypeOK, InLoops, KnowsWork, Works
  <2> QED BY <2>1, <2>3, <2>4 DEF IInv
<1> QED BY <1>2, <1>3, <1>4, <1>5 DEF Main

(* The threads' steps keep the inductive invariant. *)
LEMMA ThreadIInv ==
  ASSUME IInv, NEW t \in Threads,
         \/ report(t) \/ take_work(t) \/ run_work(t) \/ end_work(t)
         \/ spurious_wakeup(t) \/ work_returns(t)
  PROVE  IInv'
<1> USE NumThreadsAssumption, NumWorksAssumption
<1>1. TypeOK /\ InLoops /\ KnowsWork /\ CountsExact
  BY DEF IInv
<1>2. ASSUME NEW to \in ThreadPcs \ {"none"}, tPc' = [tPc EXCEPT ![t] = to], tPc[t] # "none",
             UNCHANGED mainVars
      PROVE  InLoops'
  BY <1>1, <1>2 DEF InLoops, TypeOK, mainVars
<1>3. CASE report(t)
  <2>1. CountsExact' /\ worker_counts' \in 0 .. NumThreads /\ working_counts' \in 0 .. NumThreads
    BY <1>1, <1>3, CountsMove DEF report, Reported
  <2>2. InLoops'
    BY <1>2, <1>3 DEF report, ThreadPcs
  <2>3. TypeOK' /\ KnowsWork'
    BY <1>1, <1>3, <2>1 DEF report, TypeOK, KnowsWork, ThreadPcs, mainVars
  <2> QED BY <2>1, <2>2, <2>3 DEF IInv
<1>4. CASE take_work(t)
  <2>1. CountsExact'
    BY <1>1, <1>4, CountsMove DEF take_work, Reported
  <2>2. InLoops'
    BY <1>2, <1>4 DEF take_work, ThreadPcs
  <2>3. queue' \in Seq(Works) /\ (queue # <<>> => Head(queue) \in Works)
    <3>1. queue \in Seq(Works)
      BY <1>1 DEF TypeOK
    <3>2. queue # <<>> => Head(queue) \in Works /\ Tail(queue) \in Seq(Works)
      BY ONLY <3>1, HeadTailProperties
    <3> QED BY <1>4, <3>1, <3>2 DEF take_work
  <2>4. work' \in [Threads -> Works \cup {NoWork}] /\ tPc' \in [Threads -> ThreadPcs] /\ KnowsWork'
    BY <1>1, <1>4, <2>3 DEF take_work, TypeOK, KnowsWork, ThreadPcs
  <2>5. TypeOK'
    BY <1>1, <1>4, <2>3, <2>4 DEF take_work, TypeOK, mainVars
  <2> QED BY <2>1, <2>2, <2>4, <2>5 DEF IInv
<1>5. CASE run_work(t)
  <2>1. CountsExact' /\ worker_counts' \in 0 .. NumThreads /\ working_counts' \in 0 .. NumThreads
    BY <1>1, <1>5, CountsMove DEF run_work, Reported
  <2>2. InLoops'
    BY <1>2, <1>5 DEF run_work, ThreadPcs
  <2>3. work[t] \in Works
    BY <1>1, <1>5 DEF run_work, KnowsWork
  <2>4. TypeOK' /\ KnowsWork'
    BY <1>1, <1>5, <2>1, <2>3 DEF run_work, TypeOK, KnowsWork, ThreadPcs, mainVars
  <2> QED BY <2>1, <2>2, <2>4 DEF IInv
<1>6. CASE end_work(t)
  <2>1. CountsExact' /\ worker_counts' \in 0 .. NumThreads /\ working_counts' \in 0 .. NumThreads
    BY <1>1, <1>6, CountsMove DEF end_work, Reported
  <2>2. InLoops'
    BY <1>2, <1>6 DEF end_work, ThreadPcs
  <2>3. TypeOK' /\ KnowsWork'
    BY <1>1, <1>6, <2>1 DEF end_work, TypeOK, KnowsWork, ThreadPcs, mainVars
  <2> QED BY <2>1, <2>2, <2>3 DEF IInv
<1>7. CASE spurious_wakeup(t) \/ work_returns(t)
  <2>1. CountsExact'
    BY <1>1, <1>7, CountsMove DEF spurious_wakeup, work_returns, Reported
  <2>2. InLoops'
    BY <1>2, <1>7 DEF spurious_wakeup, work_returns, ThreadPcs
  <2>3. TypeOK' /\ KnowsWork'
    BY <1>1, <1>7 DEF spurious_wakeup, work_returns, TypeOK, KnowsWork, ThreadPcs, mainVars
  <2> QED BY <2>1, <2>2, <2>3 DEF IInv
<1> QED BY <1>3, <1>4, <1>5, <1>6, <1>7

-----------------------------------------------------------------------------
(* The inductive invariant holds throughout: the counters that main polls  *)
(* and tests are the numbers of the threads that have reported and that    *)
(* are at work, whatever the order in which threads pass the two locks.    *)
THEOREM IInvCorrect == Spec => []IInv
<1> USE NumThreadsAssumption, NumWorksAssumption
<1>1. Init => IInv
  <2> SUFFICES ASSUME Init PROVE IInv
    OBVIOUS
  <2>1. TypeOK
    BY DEF Init, TypeOK, MainPcs, ThreadPcs
  <2>2. InLoops /\ KnowsWork
    BY DEF Init, InLoops, KnowsWork, Threads
  <2>3. CountsExact
    <3>1. ThreadsAt(ThreadPcs \ {"none", "start"}) = {} /\ ThreadsAt({"run", "ran"}) = {}
      BY DEF Init, ThreadsAt
    <3> QED BY <3>1, FS_EmptySet DEF Init, CountsExact
  <2> QED BY <2>1, <2>2, <2>3 DEF IInv
<1>2. IInv /\ [Next]_vars => IInv'
  <2> SUFFICES ASSUME IInv, [Next]_vars PROVE IInv'
    OBVIOUS
  <2>1. CASE Next
    BY <2>1, MainIInv, ThreadIInv DEF Next, thread_routine
  <2>2. CASE UNCHANGED vars
    BY <2>2, CountsKept DEF IInv, TypeOK, InLoops, KnowsWork, vars, mainVars
  <2> QED BY <2>1, <2>2
<1> QED BY <1>1, <1>2, PTL DEF Spec

(* Every variable keeps its type; in particular neither counter passes the *)
(* number of threads or falls below zero.                                  *)
THEOREM TypeCorrect == Spec => []TypeOK
<1>1. IInv => TypeOK
  BY DEF IInv
<1> QED BY <1>1, IInvCorrect, PTL

-----------------------------------------------------------------------------
(* The threads on their way to the queue. *)
Coming == Cardinality(ThreadsAt({"start", "lock"}))

(* The signal that main has not sent yet. *)
Owed == IF mainPc = "signal" THEN 1 ELSE 0

(* No step lets a thread sleep over a work: each work that main appends is *)
(* matched by the signal it still owes, and a thread goes to sleep only    *)
(* under the lock, with the queue empty.                                   *)
LEMMA NoSleepKept ==
  ASSUME IInv, NoSleepOverWork, [Next]_vars PROVE NoSleepOverWork'
<1> USE NumThreadsAssumption, NumWorksAssumption
<1>1. TypeOK /\ InLoops
  BY DEF IInv
<1>2. Coming \in Nat /\ Coming' \in Nat /\ Len(queue) \in Nat /\ Owed \in 0 .. 1 /\ Owed' \in 0 .. 1
  <2>1. /\ ThreadsAt({"start", "lock"}) \in SUBSET Threads
        /\ ThreadsAt({"start", "lock"})' \in SUBSET Threads
    BY DEF ThreadsAt
  <2> QED BY <1>1, <2>1, ThreadsFinite DEF Coming, Owed, TypeOK
<1>3. ASSUME NEW t \in Threads, NEW to, tPc' = [tPc EXCEPT ![t] = to]
      PROVE  /\ (tPc[t] \in {"start", "lock"} <=> to \in {"start", "lock"}) => Coming' = Coming
             /\ tPc[t] \in {"start", "lock"} /\ to \notin {"start", "lock"} => Coming = Coming' + 1
             /\ tPc[t] \notin {"start", "lock"} /\ to \in {"start", "lock"} => Coming' = Coming + 1
  <2> DEFINE S == {"start", "lock"}
  <2>1. Cardinality(ThreadsAt(S)') = Cardinality(ThreadsAt(S)) + (IF to \in S THEN 1 ELSE 0)
                                                             - (IF tPc[t] \in S THEN 1 ELSE 0)
    BY ONLY <1>1, <1>3, Moves
  <2> QED BY ONLY <1>2, <2>1 DEF Coming
<1>14. ASSUME NEW t \in Threads, NEW to, tPc' = [tPc EXCEPT ![t] = to], to # "wait", Waiting' # {}
       PROVE  Waiting # {}
  BY <1>1, <1>14 DEF Waiting, TypeOK
<1>4. ASSUME UNCHANGED tPc PROVE Coming' = Coming /\ Waiting' = Waiting
  BY <1>4 DEF Coming, Waiting, ThreadsAt
<1>5. SUFFICES Waiting' # {} => Len(queue') <= Coming' + Owed'
  BY DEF NoSleepOverWork, Coming, Owed
<1>6. Waiting # {} => Len(queue) <= Coming + Owed
  BY DEF NoSleepOverWork, Coming, Owed
<1>7. CASE UNCHANGED vars
  BY <1>4, <1>6, <1>7 DEF vars, mainVars, Owed
<1>8. CASE tpool_create
  <2>1. created + 1 \in Threads /\ tPc[created + 1] = "none"
    BY <1>1, <1>8 DEF tpool_create, InLoops, TypeOK, Threads
  <2>2. Coming' = Coming + 1 /\ (Waiting' # {} => Waiting # {})
    <3>1. tPc' = [tPc EXCEPT ![created + 1] = "start"]
      BY <1>8 DEF tpool_create
    <3>2. Coming' = Coming + 1
      BY ONLY <1>3, <2>1, <3>1
    <3> QED BY <1>14, <2>1, <3>1, <3>2
  <2>3. UNCHANGED queue /\ Owed = 0
    BY <1>8 DEF tpool_create, Owed
  <2> QED BY ONLY <1>2, <1>6, <2>2, <2>3
<1>9. CASE add_work_append
  <2>1. Len(queue') = Len(queue) + 1
    <3>1. queue \in Seq(Works) /\ added + 1 \in Works
      BY <1>1, <1>9 DEF add_work_append, TypeOK, InLoops, Works
    <3>2. Len(Append(queue, added + 1)) = Len(queue) + 1
      BY ONLY <3>1, AppendProperties
    <3> QED BY <1>9, <3>2 DEF add_work_append
  <2>2. UNCHANGED tPc /\ Owed = 0 /\ Owed' = 1
    BY <1>9 DEF add_work_append, Owed
  <2> QED BY <1>2, <1>4, <1>6, <2>1, <2>2
<1>10. CASE add_work_signal
  <2>1. CASE Waiting = {} /\ UNCHANGED tPc
    BY <1>4, <2>1
  <2>2. ASSUME NEW t \in Waiting, tPc' = [tPc EXCEPT ![t] = "lock"]
        PROVE  Waiting' # {} => Len(queue') <= Coming' + Owed'
    <3>1. Coming' = Coming + 1 /\ Waiting # {}
      BY <1>2, <1>3, <2>2 DEF Waiting
    <3>2. UNCHANGED queue
      BY <1>10 DEF add_work_signal
    <3> QED BY <1>2, <1>6, <3>1, <3>2
  <2> QED BY <1>10, <2>1, <2>2 DEF add_work_signal
<1>11. CASE tpool_create_fails \/ main_returns \/ tpool_get_worker_count
            \/ evserver_tpool_new_fails \/ start_monitor \/ tpool_add_work
            \/ add_work_calloc_fails
  <2>1. UNCHANGED <<tPc, queue>> /\ Owed = 0
    BY <1>11 DEF Owed, tpool_create_fails, main_returns, tpool_get_worker_count, evserver_tpool_new_fails,
         start_monitor, tpool_add_work, add_work_calloc_fails
  <2> QED BY <1>2, <1>4, <1>6, <2>1
<1>12. ASSUME NEW t \in Threads, report(t) \/ run_work(t) \/ end_work(t) \/ spurious_wakeup(t)
                                 \/ work_returns(t)
       PROVE  Waiting' # {} => Len(queue') <= Coming' + Owed'
  <2>1. Coming' = Coming \/ Coming' = Coming + 1
    <3>1. CASE report(t)
      <4>1. tPc[t] = "start" /\ tPc' = [tPc EXCEPT ![t] = "lock"]
        BY <3>1 DEF report
      <4> QED BY ONLY <1>3, <1>12, <4>1
    <3>2. CASE run_work(t)
      <4>1. tPc[t] = "taken" /\ tPc' = [tPc EXCEPT ![t] = "run"]
        BY <3>2 DEF run_work
      <4> QED BY ONLY <1>3, <1>12, <4>1
    <3>3. CASE end_work(t)
      <4>1. tPc[t] = "ran" /\ tPc' = [tPc EXCEPT ![t] = "lock"]
        BY <3>3 DEF end_work
      <4> QED BY ONLY <1>3, <1>12, <4>1
    <3>4. CASE spurious_wakeup(t)
      <4>1. tPc[t] = "wait" /\ tPc' = [tPc EXCEPT ![t] = "lock"]
        BY <3>4 DEF spurious_wakeup
      <4> QED BY ONLY <1>3, <1>12, <4>1
    <3>5. CASE work_returns(t)
      <4>1. tPc[t] = "run" /\ tPc' = [tPc EXCEPT ![t] = "ran"]
        BY <3>5 DEF work_returns
      <4> QED BY ONLY <1>3, <1>12, <4>1
    <3> QED BY <1>12, <3>1, <3>2, <3>3, <3>4, <3>5
  <2>3. Waiting' # {} => Waiting # {}
    BY <1>12, <1>14 DEF report, run_work, end_work, spurious_wakeup, work_returns
  <2>2. UNCHANGED queue /\ Owed' = Owed
    BY <1>12 DEF report, run_work, end_work, spurious_wakeup, work_returns, mainVars, Owed
  <2> QED BY ONLY <1>2, <1>6, <2>1, <2>2, <2>3
<1>13. ASSUME NEW t \in Threads, take_work(t)
       PROVE  Waiting' # {} => Len(queue') <= Coming' + Owed'
  <2>1. CASE queue = <<>> /\ UNCHANGED queue
    <3>1. Len(queue') = 0
      BY <2>1
    <3> QED BY <1>2, <3>1 DEF Coming, Owed
  <2>2. CASE queue # <<>> /\ queue' = Tail(queue) /\ tPc' = [tPc EXCEPT ![t] = "taken"]
    <3>1. Len(queue') = Len(queue) - 1
      <4>1. queue \in Seq(Works)
        BY <1>1 DEF TypeOK
      <4> QED BY ONLY <2>2, <4>1, HeadTailProperties
    <3>2. Coming = Coming' + 1 /\ (Waiting' # {} => Waiting # {})
      <4>1. tPc[t] = "lock"
        BY <1>13 DEF take_work
      <4>2. Coming = Coming' + 1
        BY ONLY <1>3, <1>13, <2>2, <4>1
      <4> QED BY <1>14, <2>2, <4>2
    <3>3. Owed' = Owed
      BY <1>13 DEF take_work, mainVars, Owed
    <3> QED BY ONLY <1>2, <1>6, <3>1, <3>2, <3>3
  <2> QED BY <1>13, <2>1, <2>2 DEF take_work
<1> QED
  BY <1>7, <1>8, <1>9, <1>10, <1>11, <1>12, <1>13 DEF Next, Main, thread_routine

(* While a thread waits on queue_ready, for every work in the queue there  *)
(* is a thread on its way to it or the signal that main is about to send:  *)
(* no wake-up is lost although the signal follows the unlock.              *)
THEOREM NoneSleepsOverWork == Spec => []NoSleepOverWork
<1>1. Init => NoSleepOverWork
  BY DEF Init, NoSleepOverWork, Waiting
<1>2. IInv /\ NoSleepOverWork /\ [Next]_vars => NoSleepOverWork'
  BY NoSleepKept
<1> QED BY <1>1, <1>2, IInvCorrect, PTL DEF Spec

-----------------------------------------------------------------------------
(* Where a work is in a list. *)
Places(s, k) == {i \in DOMAIN s : s[i] = k}

(* A work is in a list once more after it was appended, *)
LEMMA AppendCounts ==
  ASSUME NEW s \in Seq(Works), NEW e \in Works, NEW k
  PROVE  /\ IsFiniteSet(Places(s, k))
         /\ Cardinality(Places(Append(s, e), k)) =
              Cardinality(Places(s, k)) + (IF e = k THEN 1 ELSE 0)
<1> DEFINE A == {i \in DOMAIN s : s[i] = k}
           B == {i \in DOMAIN Append(s, e) : Append(s, e)[i] = k}
<1>1. Len(s) \in Nat /\ DOMAIN s = 1 .. Len(s)
  BY LenProperties
<1>2. IsFiniteSet(A) /\ Cardinality(A) \in Nat
  <2>1. IsFiniteSet(1 .. Len(s))
    BY <1>1, FS_Interval
  <2>2. IsFiniteSet(A)
    BY <1>1, <2>1, FS_Subset
  <2> QED BY <2>2, FS_CardinalityType
<1>3. /\ DOMAIN Append(s, e) = 1 .. Len(s) + 1
      /\ \A i \in 1 .. Len(s) : Append(s, e)[i] = s[i]
      /\ Append(s, e)[Len(s) + 1] = e
  <2>1. /\ Append(s, e) \in Seq(Works) /\ Len(Append(s, e)) = Len(s) + 1
        /\ \A i \in 1 .. Len(s) : Append(s, e)[i] = s[i]
        /\ Append(s, e)[Len(s) + 1] = e
    BY AppendProperties
  <2>2. DOMAIN Append(s, e) = 1 .. Len(Append(s, e))
    BY <2>1, LenProperties
  <2> QED BY <2>1, <2>2
<1>4. CASE e = k
  <2>1. B = A \cup {Len(s) + 1}
    BY <1>1, <1>3, <1>4
  <2>2. Len(s) + 1 \notin A
    BY <1>1
  <2> HIDE DEF A, B
  <2>3. Cardinality(A \cup {Len(s) + 1}) = Cardinality(A) + 1
    BY <1>2, <2>2, FS_AddElement
  <2> QED BY <1>2, <1>4, <2>1, <2>3 DEF A, B, Places
<1>5. CASE e # k
  <2>1. B = A
    BY <1>1, <1>3, <1>5
  <2> HIDE DEF A, B
  <2>2. Cardinality(B) = Cardinality(A) + 0
    BY <1>2, <2>1
  <2> QED BY <1>2, <1>5, <2>2 DEF A, B, Places
<1> QED BY <1>2, <1>4, <1>5 DEF Places

(* and once less after it was taken off its head. *)
LEMMA TailCounts ==
  ASSUME NEW s \in Seq(Works), s # <<>>, NEW k
  PROVE  Cardinality(Places(Tail(s), k)) =
           Cardinality(Places(s, k)) - (IF Head(s) = k THEN 1 ELSE 0)
<1> DEFINE A == {i \in DOMAIN s : s[i] = k}
           B == {i \in DOMAIN Tail(s) : Tail(s)[i] = k}
           f == [i \in B |-> i + 1]
<1>1. Len(s) \in Nat \ {0} /\ DOMAIN s = 1 .. Len(s)
  BY LenProperties, EmptySeq
<1>2. IsFiniteSet(A) /\ Cardinality(A) \in Nat
  <2>1. IsFiniteSet(1 .. Len(s))
    BY <1>1, FS_Interval
  <2>2. IsFiniteSet(A)
    BY <1>1, <2>1, FS_Subset
  <2> QED BY <2>2, FS_CardinalityType
<1>3. DOMAIN Tail(s) = 1 .. Len(s) - 1 /\ \A i \in 1 .. Len(s) - 1 : Tail(s)[i] = s[i + 1]
  <2>1. /\ Tail(s) \in Seq(Works) /\ Len(Tail(s)) = Len(s) - 1
        /\ \A i \in 1 .. Len(Tail(s)) : Tail(s)[i] = s[i + 1]
    BY HeadTailProperties
  <2>2. DOMAIN Tail(s) = 1 .. Len(Tail(s))
    BY <2>1, LenProperties
  <2> QED BY <2>1, <2>2
<1>4. IsFiniteSet(B)
  <2>1. IsFiniteSet(1 .. Len(s) - 1)
    BY <1>1, FS_Interval
  <2>2. B \in SUBSET (1 .. Len(s) - 1)
    BY <1>3
  <2> QED BY <2>1, <2>2, FS_Subset
<1>5. f \in Bijection(B, A \ {1})
  <2>1. f \in [B -> A \ {1}]
    BY <1>1, <1>3
  <2>2. \A i, j \in B : f[i] = f[j] => i = j
    BY <1>3
  <2>3. \A j \in A \ {1} : \E i \in B : f[i] = j
    <3> SUFFICES ASSUME NEW j \in A \ {1} PROVE \E i \in B : f[i] = j
      OBVIOUS
    <3>1. j - 1 \in B /\ f[j - 1] = j
      BY <1>1, <1>3
    <3> QED BY <3>1
  <2> HIDE DEF f, A, B
  <2> QED BY <2>1, <2>2, <2>3 DEF Bijection, Injection, Surjection, IsInjective
<1>6. Cardinality(A \ {1}) = Cardinality(B)
  BY <1>4, <1>5, FS_Bijection DEF ExistsBijection
<1>7. 1 \in A <=> Head(s) = k
  BY <1>1
<1> HIDE DEF A, B
<1>8. Cardinality(A \ {1}) = IF 1 \in A THEN Cardinality(A) - 1 ELSE Cardinality(A)
  BY <1>2, FS_RemoveElement
<1>9. Cardinality(B) = Cardinality(A) - (IF Head(s) = k THEN 1 ELSE 0)
  BY <1>2, <1>6, <1>7, <1>8
<1> QED BY <1>9 DEF A, B, Places

(* No step loses a work, doubles it, or calls it twice. *)
LEMMA OnceKept ==
  ASSUME IInv, EachWorkOnce, [Next]_vars PROVE EachWorkOnce'
<1> USE NumThreadsAssumption, NumWorksAssumption
<1> SUFFICES ASSUME NEW k \in Works PROVE Traces(k)' = (IF Seen(k) THEN 1 ELSE 0)'
  BY DEF EachWorkOnce
<1>1. TypeOK /\ InLoops /\ KnowsWork /\ k \in 1 .. NumWorks
  BY DEF IInv, Works
<1>2. /\ Traces(k) = IF Seen(k) THEN 1 ELSE 0
      /\ runs[k] \in Nat /\ added \in Nat /\ created \in Nat /\ queue \in Seq(Works)
  BY <1>1 DEF EachWorkOnce, TypeOK
<1>3. /\ IsFiniteSet(Queued(k)) /\ Cardinality(Queued(k)) \in Nat
      /\ IsFiniteSet(Taken(k)) /\ Cardinality(Taken(k)) \in Nat
  <2>1. Taken(k) \in SUBSET Threads
    BY DEF Taken, ThreadsAt
  <2>2. IsFiniteSet(Queued(k))
    BY <1>1, <1>2, AppendCounts DEF Queued, Places
  <2> QED BY <2>1, <2>2, ThreadsFinite, FS_CardinalityType
<1>4. ASSUME UNCHANGED <<rejected, unallocated, queue, runs>>, Taken(k)' = Taken(k), Seen(k)' <=> Seen(k)
      PROVE  Traces(k)' = (IF Seen(k) THEN 1 ELSE 0)'
  BY <1>2, <1>4 DEF Traces, Queued
<1>5. ASSUME UNCHANGED work, NEW t \in Threads, NEW to, tPc' = [tPc EXCEPT ![t] = to],
             to # "taken", tPc[t] # "taken"
      PROVE  Taken(k)' = Taken(k)
  BY <1>1, <1>5 DEF Taken, ThreadsAt, TypeOK
<1>6. CASE UNCHANGED vars
  BY <1>4, <1>6 DEF vars, mainVars, Taken, ThreadsAt, Seen
<1>7. CASE tpool_create
  <2>1. created + 1 \in Threads /\ tPc[created + 1] = "none"
    BY <1>1, <1>7 DEF tpool_create, InLoops, TypeOK, Threads
  <2>2. Taken(k)' = Taken(k)
    BY <1>5, <1>7, <2>1 DEF tpool_create
  <2> QED BY <1>4, <1>7, <2>2 DEF tpool_create, Seen
<1>8. CASE add_work_signal
  <2>1. Taken(k)' = Taken(k)
    <3>1. CASE UNCHANGED tPc
      BY <1>8, <3>1 DEF add_work_signal, Taken, ThreadsAt
    <3>2. ASSUME NEW t \in Waiting, tPc' = [tPc EXCEPT ![t] = "lock"] PROVE Taken(k)' = Taken(k)
      BY <1>5, <1>8, <3>2 DEF add_work_signal, Waiting
    <3> QED BY <1>8, <3>1, <3>2 DEF add_work_signal
  <2>2. Seen(k)' <=> Seen(k)
    BY <1>1, <1>2, <1>8 DEF add_work_signal, Seen, AfterWork
  <2> QED BY <1>4, <1>8, <2>1, <2>2 DEF add_work_signal
<1>9. CASE tpool_create_fails \/ main_returns \/ tpool_get_worker_count
            \/ evserver_tpool_new_fails \/ start_monitor
  BY <1>4, <1>9 DEF tpool_create_fails, main_returns, tpool_get_worker_count, AfterWork,
         evserver_tpool_new_fails, start_monitor, Taken, ThreadsAt, Seen
<1>10. CASE tpool_add_work \/ add_work_calloc_fails \/ add_work_append
  <2> USE <1>10 DEF tpool_add_work, add_work_calloc_fails, add_work_append
  <2>1. Taken(k)' = Taken(k) /\ UNCHANGED runs
    BY DEF Taken, ThreadsAt
  <2>2. added < NumWorks /\ added + 1 \in Works
    BY <1>1, <1>2 DEF InLoops, Works
  <2>3. CASE mainPc = "check" /\ mainPc' = "append" /\ UNCHANGED <<added, rejected, unallocated, queue>>
    BY <1>4, <2>1, <2>3 DEF Seen
  <2>4. CASE /\ added' = added + 1 /\ mainPc' = AfterWork(added + 1) /\ UNCHANGED queue
             /\ \/ rejected' = rejected \cup {added + 1} /\ UNCHANGED unallocated
                \/ unallocated' = unallocated \cup {added + 1} /\ UNCHANGED rejected
             /\ mainPc # "signal"
    <3>1. Seen(k)' <=> Seen(k) \/ k = added + 1
      BY <1>1, <1>2, <2>4 DEF Seen, AfterWork
    <3>2. k = added + 1 => ~Seen(k)
      BY <1>2, <2>4 DEF Seen
    <3>3. Queued(k)' = Queued(k)
      BY <2>4 DEF Queued
    <3>4. CASE k = added + 1
      <4>1. /\ Cardinality(Queued(k)) = 0 /\ Cardinality(Taken(k)) = 0 /\ runs[k] = 0
            /\ k \notin rejected /\ k \notin unallocated
        <5> DEFINE r == IF k \in rejected THEN 1 ELSE 0
                   u == IF k \in unallocated THEN 1 ELSE 0
        <5>1. r + u + Cardinality(Queued(k)) + Cardinality(Taken(k)) + runs[k] = 0
          BY <1>2, <3>2, <3>4 DEF Traces
        <5>2. r \in Nat /\ u \in Nat /\ (r = 0 => k \notin rejected) /\ (u = 0 => k \notin unallocated)
          OBVIOUS
        <5> HIDE DEF r, u
        <5>3. r = 0 /\ u = 0 /\ Cardinality(Queued(k)) = 0 /\ Cardinality(Taken(k)) = 0 /\ runs[k] = 0
          BY ONLY <1>2, <1>3, <5>1, <5>2
        <5> QED BY ONLY <5>2, <5>3
      <4>2. \/ k \in rejected' /\ k \notin unallocated'
            \/ k \notin rejected' /\ k \in unallocated'
        BY ONLY <2>4, <3>4, <4>1
      <4> QED BY ONLY <2>1, <3>1, <3>3, <3>4, <4>1, <4>2 DEF Traces
    <3>5. CASE k # added + 1
      <4>1. (k \in rejected' <=> k \in rejected) /\ (k \in unallocated' <=> k \in unallocated)
        BY ONLY <2>4, <3>5
      <4> QED BY ONLY <1>2, <1>3, <2>1, <3>1, <3>3, <3>5, <4>1 DEF Traces
    <3> QED BY <3>4, <3>5
  <2>5. CASE queue' = Append(queue, added + 1) /\ mainPc = "append" /\ mainPc' = "signal"
             /\ UNCHANGED <<added, rejected, unallocated>>
    <3>1. (Seen(k)' <=> Seen(k) \/ k = added + 1) /\ (k = added + 1 => ~Seen(k))
      BY <1>1, <1>2, <2>5 DEF Seen
    <3>2. Cardinality(Queued(k)') = Cardinality(Queued(k)) + (IF added + 1 = k THEN 1 ELSE 0)
      <4>1. Cardinality(Places(Append(queue, added + 1), k)) =
              Cardinality(Places(queue, k)) + (IF added + 1 = k THEN 1 ELSE 0)
        BY ONLY <1>2, <2>2, AppendCounts
      <4> QED BY ONLY <2>5, <4>1 DEF Queued, Places
    <3> QED BY <1>2, <1>3, <2>1, <2>5, <3>1, <3>2 DEF Traces
  <2> QED BY <2>3, <2>4, <2>5
<1>11. ASSUME NEW t \in Threads, report(t) \/ end_work(t) \/ spurious_wakeup(t) \/ work_returns(t)
       PROVE  Traces(k)' = (IF Seen(k) THEN 1 ELSE 0)'
  <2>1. Taken(k)' = Taken(k)
    <3>1. CASE report(t) \/ end_work(t) \/ spurious_wakeup(t)
      BY <1>5, <3>1 DEF report, end_work, spurious_wakeup
    <3>2. CASE work_returns(t)
      BY <1>1, <3>2 DEF work_returns, Taken, ThreadsAt, TypeOK
    <3> QED BY <1>11, <3>1, <3>2
  <2> QED BY <1>4, <1>11, <2>1 DEF report, end_work, spurious_wakeup, work_returns, mainVars, Seen
<1>12. ASSUME NEW t \in Threads, take_work(t)
       PROVE  Traces(k)' = (IF Seen(k) THEN 1 ELSE 0)'
  <2>1. CASE UNCHANGED <<queue, work>> /\ tPc' = [tPc EXCEPT ![t] = "wait"]
    <3>1. Taken(k)' = Taken(k)
      BY <1>5, <1>12, <2>1 DEF take_work
    <3> QED BY <1>4, <1>12, <2>1, <3>1 DEF take_work, mainVars, Seen
  <2>2. CASE /\ queue # <<>> /\ work' = [work EXCEPT ![t] = Head(queue)]
             /\ queue' = Tail(queue) /\ tPc' = [tPc EXCEPT ![t] = "taken"]
    <3>1. UNCHANGED <<rejected, unallocated, added, mainPc, runs>> /\ tPc[t] = "lock"
      BY <1>12 DEF take_work, mainVars
    <3>2. Cardinality(Queued(k)') = Cardinality(Queued(k)) - (IF Head(queue) = k THEN 1 ELSE 0)
      BY <1>2, <2>2, TailCounts DEF Queued, Places
    <3>3. Cardinality(Taken(k)') = Cardinality(Taken(k)) + (IF Head(queue) = k THEN 1 ELSE 0)
      <4>1. t \notin Taken(k)
        BY <3>1 DEF Taken, ThreadsAt
      <4>2. Taken(k)' = IF Head(queue) = k THEN Taken(k) \cup {t} ELSE Taken(k)
        BY <1>1, <2>2, <3>1 DEF Taken, ThreadsAt, TypeOK
      <4>3. Cardinality(Taken(k) \cup {t}) = Cardinality(Taken(k)) + 1
        BY <1>3, <4>1, FS_AddElement
      <4> QED BY <1>3, <4>2, <4>3
    <3>4. Seen(k)' <=> Seen(k)
      BY <3>1 DEF Seen
    <3> QED BY <1>2, <1>3, <3>1, <3>2, <3>3, <3>4 DEF Traces
  <2> QED BY <1>12, <2>1, <2>2 DEF take_work
<1>13. ASSUME NEW t \in Threads, run_work(t)
       PROVE  Traces(k)' = (IF Seen(k) THEN 1 ELSE 0)'
  <2>1. /\ UNCHANGED <<rejected, unallocated, added, mainPc, queue, work>>
        /\ tPc[t] = "taken" /\ tPc' = [tPc EXCEPT ![t] = "run"]
    BY <1>13 DEF run_work, mainVars
  <2>2. Cardinality(Taken(k)') = Cardinality(Taken(k)) - (IF work[t] = k THEN 1 ELSE 0)
    <3>1. t \in Taken(k) <=> work[t] = k
      BY <2>1 DEF Taken, ThreadsAt
    <3>2. Taken(k)' = Taken(k) \ {t}
      BY <1>1, <2>1 DEF Taken, ThreadsAt, TypeOK
    <3>3. Cardinality(Taken(k) \ {t}) =
            IF t \in Taken(k) THEN Cardinality(Taken(k)) - 1 ELSE Cardinality(Taken(k))
      BY <1>3, FS_RemoveElement
    <3> QED BY <1>3, <3>1, <3>2, <3>3
  <2>3. runs'[k] = runs[k] + (IF work[t] = k THEN 1 ELSE 0)
    BY <1>1, <1>2, <1>13 DEF run_work, TypeOK
  <2>4. (Seen(k)' <=> Seen(k)) /\ Queued(k)' = Queued(k)
    BY <2>1 DEF Seen, Queued
  <2> QED BY <1>2, <1>3, <2>1, <2>2, <2>3, <2>4 DEF Traces
<1> QED
  BY <1>6, <1>7, <1>8, <1>9, <1>10, <1>11, <1>12, <1>13 DEF Next, Main, thread_routine

(* Every work that tpool_add_work has decided about is refused,            *)
(* unallocated, in the queue, with one thread, or was called once: exactly *)
(* one of them.                                                            *)
THEOREM WorkDoneOnce == Spec => []EachWorkOnce
<1>1. Init => EachWorkOnce
  <2> SUFFICES ASSUME Init, NEW k \in Works PROVE Traces(k) = IF Seen(k) THEN 1 ELSE 0
    BY DEF EachWorkOnce
  <2>1. Queued(k) = {} /\ Taken(k) = {}
    BY DEF Init, Queued, Taken, ThreadsAt
  <2>2. ~Seen(k)
    BY NumWorksAssumption DEF Init, Seen, Works
  <2> QED BY <2>1, <2>2, FS_EmptySet DEF Init, Traces
<1>2. IInv /\ EachWorkOnce /\ [Next]_vars => EachWorkOnce'
  BY OnceKept
<1> QED BY <1>1, <1>2, IInvCorrect, PTL DEF Spec

===============================================================================
