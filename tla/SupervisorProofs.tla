--------------------------- MODULE SupervisorProofs ---------------------------
(***************************************************************************)
(* Proofs about Supervisor, for any number of accept threads, bases,       *)
(* attempts and faults: in a calm behaviour the port is kept and server_ok *)
(* tells the monitor the truth.                                            *)
(***************************************************************************)
EXTENDS Supervisor, TLAPS

-----------------------------------------------------------------------------
(* What makes the properties inductive. *)

(* The monitor gives up where i reaches its limit. *)
Trying == pc[Monitor] # "check" => i < Retries

(* _server has a base, the only one; a whole server; or nothing. *)
HasBase == evbase \in Bases /\ bases = {evbase}
Up == HasBase /\ bound /\ listen_fd /\ evAdded /\ evBase = evbase
Nothing == evbase = NULL /\ bases = {} /\ ~bound /\ ~listen_fd /\ ~evAdded

NoThread == \A t \in Threads : pc[t] = "none"

(* There is one accept thread at a time, and none while the monitor works. *)
OneAtATime ==
  /\ \A t, u \in Threads : pc[t] # "none" /\ pc[u] # "none" => t = u
  /\ pc[Monitor] \notin {"check", "sleep3"} => NoThread
  /\ server_ok => \E t \in Threads : pc[t] \in {"dispatch", "loop"} \cup DestroyPcs

(* What there is of a server at each place of the monitor, *)
AtMonitor ==
  /\ NoThread /\ pc[Monitor] \in {"check", "sleep3", "base", "sleep1"} => Nothing
  /\ pc[Monitor] = "socket" => HasBase /\ ~bound /\ ~listen_fd /\ ~evAdded
  /\ pc[Monitor] = "add" => HasBase /\ bound /\ listen_fd
  /\ pc[Monitor] = "thread" => Up

(* of whoever destroys it, *)
AtDestroy(p) ==
  /\ pc[p] = "destroy" => HasBase /\ (bound => listen_fd)
  /\ pc[p] = "free" => HasBase /\ (bound => listen_fd) /\ ~evAdded
  /\ pc[p] = "close" => bases = {} /\ (bound => listen_fd) /\ ~evAdded
  /\ pc[p] = "forget" => bases = {} /\ ~bound /\ ~evAdded
  /\ pc[p] = "null" => bases = {} /\ ~bound /\ ~listen_fd /\ ~evAdded
  /\ pc[p] = "status" => Nothing

(* and of an accept thread. *)
AtThread(t) ==
  /\ pc[t] \in {"start", "ok", "dispatch"} => Up
  /\ pc[t] = "dispatch" => server_ok
  /\ pc[t] = "loop" => \/ tbase[t] \in bases /\ Up /\ server_ok /\ tbase[t] = evbase
                       \/ tbase[t] \notin bases /\ Nothing /\ ~server_ok
  /\ pc[t] = "ended" => Nothing

Calm ==
  /\ OneAtATime
  /\ AtMonitor
  /\ \A p \in Threads \cup {Monitor} : AtDestroy(p)
  /\ \A t \in Threads : AtThread(t)

IInv == TypeOK /\ Trying /\ (calm => Calm)

-----------------------------------------------------------------------------
Procs == Threads \cup {Monitor}

(* What Goto does to the place of every thread. *)
LEMMA Goes ==
  ASSUME TypeOK, NEW p \in Procs, NEW from, NEW to, Goto(p, from, to)
  PROVE  pc[p] = from /\ pc'[p] = to /\ \A q \in Procs \ {p} : pc'[q] = pc[q]
BY DEF TypeOK, Goto, Procs

(* Typing of the places after a Goto. *)
LEMMA GoesTyped ==
  ASSUME TypeOK, NEW p \in Procs, NEW from, NEW to, Goto(p, from, to),
         p = Monitor => to \in MonitorPcs \cup DestroyPcs,
         p \in Threads => to \in ThreadPcs \cup DestroyPcs
  PROVE  /\ pc' \in [Procs -> MonitorPcs \cup ThreadPcs \cup DestroyPcs]
         /\ pc'[Monitor] \in MonitorPcs \cup DestroyPcs
         /\ \A t \in Threads : pc'[t] \in ThreadPcs \cup DestroyPcs
<1>1. to \in MonitorPcs \cup ThreadPcs \cup DestroyPcs
  BY DEF Procs
<1> QED BY <1>1, Goes DEF TypeOK, Goto, Procs

(* The faults left, the process and the server's record keep their types. *)
TypeServer ==
  /\ left \in 0 .. MaxFaults
  /\ {calm, running, server_ok, listen_fd, bound, evAdded} \subseteq BOOLEAN
  /\ evbase \in Bases \cup {NULL} /\ evBase \in Bases \cup {NULL}
  /\ bases \subseteq Bases
  /\ tbase \in [Threads -> Bases \cup {NULL}]

TypePlaces ==
  /\ pc \in [Procs -> MonitorPcs \cup ThreadPcs \cup DestroyPcs]
  /\ pc[Monitor] \in MonitorPcs \cup DestroyPcs
  /\ \A t \in Threads : pc[t] \in ThreadPcs \cup DestroyPcs

(* The type invariant in three parts. *)
LEMMA TypeParts ==
  /\ TypeOK <=> TypeServer /\ TypePlaces /\ i \in 0 .. Retries
  /\ TypeOK' <=> TypeServer' /\ TypePlaces' /\ i' \in 0 .. Retries
BY DEF TypeOK, TypeServer, TypePlaces, Procs

(* A fault leaves no fewer than none. *)
LEMMA FaultLeft == ASSUME TypeOK, Fault PROVE Left \in 0 .. MaxFaults
BY SupervisorSizesAssumption DEF TypeOK, Fault, Left

(* The record _server and the faults keep their types in every step. *)
LEMMA ServerTyped == ASSUME TypeOK, Next PROVE TypeServer'
<1> USE TypeParts, FaultLeft DEF TypeServer, serverVars, Ends
<1>1. CASE repeat_init \/ monitor_sleep
  BY <1>1 DEF repeat_init, monitor_sleep
<1>2. CASE create_base
  BY <1>2 DEF create_base
<1>3. CASE evserver_socket_create
  BY <1>3 DEF evserver_socket_create
<1>4. CASE add_accept_event
  BY <1>4 DEF add_accept_event
<1>5. CASE create_accept_thread
  BY <1>5 DEF create_accept_thread
<1>6. ASSUME NEW p \in Procs, evserver_destroy(p) PROVE TypeServer'
  <2>1. CASE destroy_del(p)
    BY <2>1 DEF destroy_del
  <2>2. CASE destroy_free(p)
    BY <2>2 DEF destroy_free
  <2>3. CASE destroy_close(p)
    BY <2>3 DEF destroy_close
  <2>4. CASE destroy_reset(p)
    BY <2>4 DEF destroy_reset
  <2> QED BY <1>6, <2>1, <2>2, <2>3, <2>4 DEF evserver_destroy
<1>7. ASSUME NEW t \in Threads,
             factory_test(t) \/ factory_ok(t) \/ factory_dispatch(t) \/ factory_ended(t)
      PROVE  TypeServer'
  <2>1. CASE factory_test(t)
    BY <2>1 DEF factory_test
  <2>2. CASE factory_ok(t)
    BY <2>2 DEF factory_ok
  <2>3. CASE factory_dispatch(t)
    BY <2>3 DEF factory_dispatch
  <2>4. CASE factory_ended(t)
    BY <2>4 DEF factory_ended
  <2> QED BY <1>7, <2>1, <2>2, <2>3, <2>4
<1>8. ASSUME NEW t \in Threads, accept_fails(t) \/ loop_fails(t) \/ loop_on_freed_base(t)
      PROVE  TypeServer'
  BY <1>8 DEF accept_fails, loop_fails, loop_on_freed_base
<1> QED
  BY <1>1, <1>2, <1>3, <1>4, <1>5, <1>6, <1>7, <1>8
     DEF Next, MonitorStep, evserver_factory, Procs

(* Every thread stays at a place of its own code, and the monitor gives up *)
(* before i passes its limit.                                              *)
LEMMA PlacesTyped ==
  ASSUME TypeOK, Trying, Next PROVE TypePlaces' /\ i' \in 0 .. Retries /\ Trying'
<1> USE SupervisorSizesAssumption, MonitorAssumption
<1>1. TypePlaces /\ i \in 0 .. Retries /\ Monitor \in Procs /\ Threads \subseteq Procs
  BY TypeParts DEF Procs
<1>2. ASSUME UNCHANGED <<pc, i>> PROVE TypePlaces' /\ i' \in 0 .. Retries /\ Trying'
  BY <1>1, <1>2 DEF TypePlaces, Trying
<1>3. ASSUME NEW t \in Threads, NEW from, NEW to \in ThreadPcs \cup DestroyPcs,
             Goto(t, from, to), UNCHANGED i
      PROVE  TypePlaces' /\ i' \in 0 .. Retries /\ Trying'
  <2>1. TypePlaces'
    BY <1>1, <1>3, GoesTyped DEF TypePlaces
  <2>2. pc'[Monitor] = pc[Monitor]
    BY <1>1, <1>3, Goes DEF Procs
  <2> QED BY <1>1, <1>3, <2>1, <2>2 DEF Trying
<1>4. ASSUME NEW from, NEW to \in MonitorPcs \cup DestroyPcs, Goto(Monitor, from, to),
             \/ from # "check" /\ UNCHANGED i
             \/ i < Retries /\ UNCHANGED i
             \/ from = "sleep1" /\ to = "check" /\ i' = i + 1
             \/ i' = 0
      PROVE  TypePlaces' /\ i' \in 0 .. Retries /\ Trying'
  <2>1. TypePlaces'
    BY <1>1, <1>4, GoesTyped DEF TypePlaces
  <2>2. pc[Monitor] = from /\ pc'[Monitor] = to
    BY <1>1, <1>4, Goes
  <2> QED BY <1>1, <1>4, <2>1, <2>2 DEF Trying
<1> USE DEF MonitorPcs, ThreadPcs, DestroyPcs
<1>5. CASE repeat_init
  BY <1>2, <1>4, <1>5 DEF repeat_init, Ends
<1>6. CASE monitor_sleep
  BY <1>4, <1>6 DEF monitor_sleep
<1>7. CASE create_base
  BY <1>4, <1>7 DEF create_base
<1>8. CASE evserver_socket_create
  BY <1>4, <1>8 DEF evserver_socket_create
<1>9. CASE add_accept_event
  BY <1>2, <1>4, <1>9 DEF add_accept_event, Ends
<1>10. CASE create_accept_thread
  <2>1. CASE Goto(Monitor, "thread", "sleep1") /\ UNCHANGED i
    BY <1>4, <2>1
  <2>2. ASSUME NEW t \in Threads, pc[Monitor] = "thread",
               pc' = [pc EXCEPT ![Monitor] = "sleep3", ![t] = "start"], UNCHANGED i
        PROVE  TypePlaces' /\ i' \in 0 .. Retries /\ Trying'
    BY <1>1, <2>2 DEF TypePlaces, Trying, Procs
  <2> QED BY <1>10, <2>1, <2>2 DEF create_accept_thread
<1>11. ASSUME NEW p \in Procs, evserver_destroy(p)
       PROVE  TypePlaces' /\ i' \in 0 .. Retries /\ Trying'
  <2>1. \/ UNCHANGED <<pc, i>>
        \/ /\ \E from \in DestroyPcs, to \in DestroyPcs \cup {AfterDestroy(p)} :
                Goto(p, from, to)
           /\ UNCHANGED i
    BY <1>11 DEF evserver_destroy, destroy_del, destroy_free, destroy_close, destroy_reset, Ends
  <2>2. AfterDestroy(p) = IF p = Monitor THEN "sleep1" ELSE "loop"
    BY DEF AfterDestroy
  <2>3. CASE p = Monitor
    BY <1>2, <1>4, <2>1, <2>2, <2>3
  <2>4. CASE p \in Threads
    BY <1>2, <1>3, <2>1, <2>2, <2>4
  <2> QED BY <2>3, <2>4 DEF Procs
<1>12. ASSUME NEW t \in Threads,
              \/ factory_test(t) \/ factory_ok(t) \/ factory_dispatch(t) \/ factory_ended(t)
              \/ accept_fails(t) \/ loop_fails(t) \/ loop_on_freed_base(t)
       PROVE  TypePlaces' /\ i' \in 0 .. Retries /\ Trying'
  <2>1. \/ UNCHANGED <<pc, i>>
        \/ (\E from, to \in ThreadPcs \cup DestroyPcs : Goto(t, from, to)) /\ UNCHANGED i
    BY <1>12 DEF factory_test, factory_ok, factory_dispatch, factory_ended, accept_fails,
                 loop_fails, loop_on_freed_base, Ends
  <2> QED BY <1>2, <1>3, <2>1
<1> QED
  BY <1>5, <1>6, <1>7, <1>8, <1>9, <1>10, <1>11, <1>12
     DEF Next, MonitorStep, evserver_factory, Procs

-----------------------------------------------------------------------------
(* The end of the process leaves everything else as it is. *)
LEMMA EndsCalm == ASSUME Calm, UNCHANGED <<serverVars, pc, tbase>> PROVE Calm'
BY DEF Calm, serverVars, OneAtATime, AtMonitor, AtDestroy, AtThread, NoThread, HasBase, Up,
       Nothing

(* A step of the monitor between places where no accept thread exists: it  *)
(* is enough to say what is left of the server where it arrives.           *)
LEMMA MonitorCalm ==
  ASSUME TypeOK, NoThread, NEW from, NEW to, Goto(Monitor, from, to), ~server_ok',
         to \in {"check", "sleep3", "base", "sleep1"} => Nothing',
         to = "socket" => HasBase' /\ ~bound' /\ ~listen_fd' /\ ~evAdded',
         to = "add" => HasBase' /\ bound' /\ listen_fd',
         to = "thread" => Up',
         to = "destroy" => HasBase' /\ (bound' => listen_fd'),
         to = "free" => HasBase' /\ (bound' => listen_fd') /\ ~evAdded',
         to = "close" => bases' = {} /\ (bound' => listen_fd') /\ ~evAdded',
         to = "forget" => bases' = {} /\ ~bound' /\ ~evAdded',
         to = "null" => bases' = {} /\ ~bound' /\ ~listen_fd' /\ ~evAdded',
         to = "status" => Nothing'
  PROVE  Calm'
<1>1. pc'[Monitor] = to /\ \A t \in Threads : pc'[t] = "none"
  BY Goes, MonitorAssumption DEF NoThread, Procs
<1>2. OneAtATime'
  BY <1>1 DEF OneAtATime, NoThread
<1>3. AtMonitor'
  BY <1>1 DEF AtMonitor
<1>4. AtDestroy(Monitor)'
  BY <1>1 DEF AtDestroy
<1>5. \A t \in Threads : AtDestroy(t)' /\ AtThread(t)'
  BY <1>1 DEF AtDestroy, AtThread
<1> QED BY <1>2, <1>3, <1>4, <1>5 DEF Calm

(* A step of the only accept thread, likewise. *)
LEMMA ThreadCalm ==
  ASSUME TypeOK, Calm, NEW t \in Threads, pc[t] # "none",
         NEW from, NEW to, Goto(t, from, to),
         to = "none" => Nothing',
         server_ok' => to \in {"dispatch", "loop"} \cup DestroyPcs,
         to \in {"start", "ok", "dispatch"} => Up',
         to = "dispatch" => server_ok',
         to = "loop" => \/ tbase'[t] \in bases' /\ Up' /\ server_ok' /\ tbase'[t] = evbase'
                        \/ tbase'[t] \notin bases' /\ Nothing' /\ ~server_ok',
         to = "ended" => Nothing',
         to = "destroy" => HasBase' /\ (bound' => listen_fd'),
         to = "free" => HasBase' /\ (bound' => listen_fd') /\ ~evAdded',
         to = "close" => bases' = {} /\ (bound' => listen_fd') /\ ~evAdded',
         to = "forget" => bases' = {} /\ ~bound' /\ ~evAdded',
         to = "null" => bases' = {} /\ ~bound' /\ ~listen_fd' /\ ~evAdded',
         to = "status" => Nothing'
  PROVE  Calm'
<1>1. /\ \A u \in Threads \ {t} : pc[u] = "none"
      /\ pc[Monitor] \in {"check", "sleep3"}
  BY DEF Calm, OneAtATime, NoThread
<1>2. /\ pc'[t] = to
      /\ \A u \in Threads \ {t} : pc'[u] = "none"
      /\ pc'[Monitor] \in {"check", "sleep3"}
  BY <1>1, Goes, MonitorAssumption DEF Procs
<1>3. OneAtATime'
  BY <1>2 DEF OneAtATime
<1>4. AtMonitor'
  BY <1>2 DEF AtMonitor, NoThread
<1>5. AtDestroy(Monitor)' /\ \A u \in Threads \ {t} : AtDestroy(u)' /\ AtThread(u)'
  BY <1>2 DEF AtDestroy, AtThread
<1>6. AtDestroy(t)'
  BY <1>2 DEF AtDestroy
<1>7. AtThread(t)'
  BY <1>2 DEF AtThread
<1> QED BY <1>3, <1>4, <1>5, <1>6, <1>7 DEF Calm

(* Where the monitor works there is no thread, and server_ok is false. *)
LEMMA MonitorAlone ==
  ASSUME Calm, pc[Monitor] \notin {"check", "sleep3"} PROVE NoThread /\ ~server_ok
BY DEF Calm, OneAtATime, NoThread, DestroyPcs

(* The monitor's steps in a calm behaviour. *)
LEMMA MonitorKeepsCalm ==
  ASSUME IInv, calm, MonitorStep PROVE Calm'
<1> USE MonitorAssumption DEF serverVars
<1>1. TypeOK /\ Calm /\ AtMonitor /\ AtDestroy(Monitor) /\ Monitor \in Procs
  BY DEF IInv, Calm, Procs
<1>2. CASE repeat_init
  <2>1. CASE Ends
    BY <1>1, <2>1, EndsCalm DEF Ends
  <2>2. CASE ~server_ok /\ Goto(Monitor, "check", "base") /\ UNCHANGED <<serverVars, tbase>>
    <3>1. NoThread /\ Nothing
      <4>1. Settled /\ pc[Monitor] = "check"
        BY <1>2 DEF repeat_init
      <4>2. \A t \in Threads : pc[t] # "loop"
        BY <1>1, <2>2, <4>1 DEF Settled, Calm, AtThread
      <4>3. NoThread
        BY <4>1, <4>2 DEF Settled, NoThread
      <4> QED BY <1>1, <4>1, <4>3 DEF AtMonitor
    <3>2. Nothing'
      BY <2>2, <3>1 DEF Nothing
    <3> QED BY <1>1, <2>2, <3>1, <3>2, MonitorCalm
  <2>3. CASE server_ok /\ Goto(Monitor, "check", "sleep3") /\ UNCHANGED <<serverVars, tbase>>
    <3>1. /\ pc'[Monitor] = "sleep3" /\ pc[Monitor] = "check"
          /\ \A t \in Threads : pc'[t] = pc[t]
      BY <1>1, <2>3, Goes DEF Procs
    <3>2. OneAtATime' /\ AtMonitor'
      BY <1>1, <2>3, <3>1
         DEF Calm, OneAtATime, AtMonitor, NoThread, Nothing
    <3>3. AtDestroy(Monitor)'
      BY <3>1 DEF AtDestroy
    <3>4. \A t \in Threads : AtDestroy(t)' /\ AtThread(t)'
      BY <1>1, <2>3, <3>1 DEF Calm, AtDestroy, AtThread, HasBase, Up, Nothing
    <3> QED BY <3>2, <3>3, <3>4 DEF Calm
  <2> QED BY <1>2, <2>1, <2>2, <2>3 DEF repeat_init
<1>3. CASE monitor_sleep
  <2>1. UNCHANGED <<serverVars, tbase>>
    BY <1>3 DEF monitor_sleep
  <2>2. PICK from \in {"sleep1", "sleep3"} : Goto(Monitor, from, "check")
    BY <1>3 DEF monitor_sleep
  <2>3. /\ pc'[Monitor] = "check" /\ pc[Monitor] = from
        /\ \A t \in Threads : pc'[t] = pc[t]
    BY <1>1, <2>2, Goes DEF Procs
  <2>4. OneAtATime'
    BY <1>1, <2>1, <2>3 DEF Calm, OneAtATime, NoThread
  <2>5. AtMonitor'
    BY <1>1, <2>1, <2>3 DEF AtMonitor, NoThread, Nothing
  <2>6. AtDestroy(Monitor)'
    BY <2>3 DEF AtDestroy
  <2>7. \A t \in Threads : AtDestroy(t)' /\ AtThread(t)'
    BY <1>1, <2>1, <2>3 DEF Calm, AtDestroy, AtThread, HasBase, Up, Nothing
  <2> QED BY <2>4, <2>5, <2>6, <2>7 DEF Calm
<1>4. CASE create_base
  <2>1. pc[Monitor] = "base" /\ UNCHANGED <<server_ok, listen_fd, bound, evAdded, evBase, tbase>>
    BY <1>4 DEF create_base, Goto
  <2>2. NoThread /\ ~server_ok /\ Nothing
    BY <1>1, <2>1, MonitorAlone DEF AtMonitor
  <2>3. CASE Goto(Monitor, "base", "sleep1") /\ evbase' = NULL /\ UNCHANGED bases
    <3>1. Nothing'
      BY <2>1, <2>2, <2>3 DEF Nothing
    <3> QED BY <1>1, <2>1, <2>2, <2>3, <3>1, MonitorCalm
  <2>4. ASSUME NEW b \in Bases \ bases, evbase' = b, bases' = bases \cup {b},
               Goto(Monitor, "base", "socket")
        PROVE  Calm'
    <3>1. HasBase' /\ ~bound' /\ ~listen_fd' /\ ~evAdded'
      BY <2>1, <2>2, <2>4 DEF Nothing, HasBase
    <3> QED BY <1>1, <2>1, <2>2, <2>4, <3>1, MonitorCalm
  <2> QED BY <1>4, <2>3, <2>4 DEF create_base
<1>5. CASE evserver_socket_create
  <2>1. pc[Monitor] = "socket" /\ UNCHANGED <<server_ok, evbase, evAdded, evBase, bases, tbase>>
    BY <1>5 DEF evserver_socket_create, Goto
  <2>2. NoThread /\ ~server_ok /\ HasBase /\ ~bound
    BY <1>1, <2>1, MonitorAlone DEF AtMonitor
  <2>3. HasBase'
    BY <2>1, <2>2 DEF HasBase
  <2>4. CASE bound' = TRUE /\ listen_fd' = TRUE /\ Goto(Monitor, "socket", "add")
    BY <1>1, <2>1, <2>2, <2>3, <2>4, MonitorCalm
  <2>5. CASE UNCHANGED bound /\ Goto(Monitor, "socket", "destroy")
    BY <1>1, <2>1, <2>2, <2>3, <2>5, MonitorCalm
  <2> QED BY <1>5, <2>4, <2>5 DEF evserver_socket_create
<1>6. CASE add_accept_event
  <2>1. pc[Monitor] = "add"
    BY <1>6 DEF add_accept_event, Goto
  <2>2. NoThread /\ ~server_ok /\ HasBase /\ bound /\ listen_fd
    BY <1>1, <2>1, MonitorAlone DEF AtMonitor
  <2>3. CASE /\ Goto(Monitor, "add", "thread") /\ evBase' = evbase /\ evAdded' = TRUE
             /\ UNCHANGED <<server_ok, evbase, listen_fd, bound, bases, tbase>>
    <3>1. Up'
      BY <2>2, <2>3 DEF Up, HasBase
    <3> QED BY <1>1, <2>2, <2>3, <3>1, MonitorCalm
  <2>4. CASE /\ Goto(Monitor, "add", "destroy") /\ bound' = (bound /\ ~listen_fd)
             /\ UNCHANGED <<server_ok, evbase, listen_fd, bases, tbase>>
    <3>1. HasBase' /\ ~bound'
      BY <2>2, <2>4 DEF HasBase
    <3> QED BY <1>1, <2>2, <2>4, <3>1, MonitorCalm
  <2>5. CASE Ends
    BY <1>1, <2>5, EndsCalm DEF Ends
  <2> QED BY <1>6, <2>3, <2>4, <2>5 DEF add_accept_event
<1>7. CASE create_accept_thread
  <2>1. PICK t \in Threads : /\ pc[t] = "none" /\ pc[Monitor] = "thread"
                             /\ pc' = [pc EXCEPT ![Monitor] = "sleep3", ![t] = "start"]
    BY <1>7 DEF create_accept_thread
  <2>2. UNCHANGED <<serverVars, tbase>>
    BY <1>7 DEF create_accept_thread
  <2>3. NoThread /\ ~server_ok /\ Up
    BY <1>1, <2>1, MonitorAlone DEF AtMonitor
  <2>4. /\ pc'[Monitor] = "sleep3" /\ pc'[t] = "start"
        /\ \A u \in Threads \ {t} : pc'[u] = "none"
    BY <1>1, <2>1, <2>3 DEF TypeOK, NoThread
  <2>5. Up' /\ ~server_ok'
    BY <2>2, <2>3 DEF Up, HasBase
  <2>6. OneAtATime' /\ AtMonitor'
    BY <2>4, <2>5 DEF OneAtATime, AtMonitor, NoThread
  <2>7. AtDestroy(Monitor)' /\ \A u \in Threads : AtDestroy(u)' /\ AtThread(u)'
    BY <2>4, <2>5 DEF AtDestroy, AtThread
  <2> QED BY <2>6, <2>7 DEF Calm
<1>8. CASE evserver_destroy(Monitor)
  <2>1. pc[Monitor] \in DestroyPcs
    BY <1>8 DEF evserver_destroy, destroy_del, destroy_free, destroy_close, destroy_reset, Goto,
                DestroyPcs
  <2>2. NoThread /\ ~server_ok
    BY <1>1, <2>1, MonitorAlone DEF DestroyPcs
  <2>3. AfterDestroy(Monitor) = "sleep1"
    BY DEF AfterDestroy
  <2>4. CASE destroy_del(Monitor)
    <3>1. HasBase /\ (bound => listen_fd) /\ evbase # NULL
      BY <1>1, <2>4, SupervisorSizesAssumption
         DEF destroy_del, Goto, AtDestroy, HasBase, Bases, NULL
    <3>2. /\ Goto(Monitor, "destroy", "free") /\ evAdded' = FALSE
          /\ UNCHANGED <<server_ok, evbase, listen_fd, bound, evBase, bases, tbase>>
      BY <2>4, <3>1 DEF destroy_del
    <3>3. HasBase' /\ (bound' => listen_fd') /\ ~evAdded'
      BY <3>1, <3>2 DEF HasBase
    <3> QED BY <1>1, <2>2, <3>2, <3>3, MonitorCalm
  <2>5. CASE destroy_free(Monitor)
    <3>1. HasBase /\ (bound => listen_fd) /\ ~evAdded
      BY <1>1, <2>5 DEF destroy_free, Goto, AtDestroy
    <3>2. CASE Ends
      BY <1>1, <3>2, EndsCalm DEF Ends
    <3>3. CASE /\ Goto(Monitor, "free", "close") /\ bases' = bases \ {evbase}
               /\ UNCHANGED <<server_ok, evbase, listen_fd, bound, evAdded, evBase, tbase>>
      <4>1. bases' = {} /\ (bound' => listen_fd') /\ ~evAdded'
        BY <3>1, <3>3 DEF HasBase
      <4> QED BY <1>1, <2>2, <3>3, <4>1, MonitorCalm
    <3> QED BY <2>5, <3>2, <3>3 DEF destroy_free
  <2>6. CASE destroy_close(Monitor)
    <3>1. bases = {} /\ (bound => listen_fd) /\ ~evAdded
      BY <1>1, <2>6 DEF destroy_close, Goto, AtDestroy
    <3>2. /\ Goto(Monitor, "close", "forget") /\ ~server_ok'
          /\ bases' = {} /\ ~bound' /\ ~evAdded'
      BY <2>2, <2>6, <3>1 DEF destroy_close
    <3> QED BY <1>1, <2>2, <3>2, MonitorCalm
  <2>7. CASE destroy_reset(Monitor)
    <3>1. UNCHANGED <<bound, evAdded, evBase, bases, tbase>>
      BY <2>7 DEF destroy_reset
    <3>2. CASE Goto(Monitor, "forget", "null") /\ listen_fd' = FALSE /\ UNCHANGED <<evbase, server_ok>>
      <4>1. bases' = {} /\ ~bound' /\ ~listen_fd' /\ ~evAdded' /\ ~server_ok'
        BY <1>1, <2>2, <3>1, <3>2 DEF Goto, AtDestroy
      <4> QED BY <1>1, <2>2, <3>2, <4>1, MonitorCalm
    <3>3. CASE Goto(Monitor, "null", "status") /\ evbase' = NULL /\ UNCHANGED <<listen_fd, server_ok>>
      <4>1. Nothing' /\ ~server_ok'
        BY <1>1, <2>2, <3>1, <3>3 DEF Goto, AtDestroy, Nothing
      <4> QED BY <1>1, <2>2, <3>3, <4>1, MonitorCalm
    <3>4. CASE Goto(Monitor, "status", "sleep1") /\ server_ok' = FALSE /\ UNCHANGED <<listen_fd, evbase>>
      <4>1. Nothing' /\ ~server_ok'
        BY <1>1, <3>1, <3>4 DEF Goto, AtDestroy, Nothing
      <4> QED BY <1>1, <2>2, <3>4, <4>1, MonitorCalm
    <3> QED BY <2>3, <2>7, <3>2, <3>3, <3>4 DEF destroy_reset
  <2> QED BY <1>8, <2>4, <2>5, <2>6, <2>7 DEF evserver_destroy
<1> QED BY <1>2, <1>3, <1>4, <1>5, <1>6, <1>7, <1>8 DEF MonitorStep

(* The accept threads' steps in a calm behaviour. *)
LEMMA ThreadKeepsCalm ==
  ASSUME IInv, calm, NEW t \in Threads,
         evserver_factory(t) \/ accept_fails(t) \/ loop_fails(t) \/ loop_on_freed_base(t)
  PROVE  Calm'
<1> USE MonitorAssumption DEF serverVars
<1>1. TypeOK /\ Calm /\ AtThread(t) /\ AtDestroy(t) /\ t \in Procs /\ t # Monitor
  BY DEF IInv, Calm, Procs
<1>2. CASE factory_test(t)
  <2>1. pc[t] = "start" /\ UNCHANGED <<serverVars, tbase>>
    BY <1>2 DEF factory_test, Goto
  <2>2. Up /\ evbase # NULL
    BY <1>1, <2>1, SupervisorSizesAssumption DEF AtThread, Up, HasBase, Bases, NULL
  <2>3. Goto(t, "start", "ok")
    BY <1>2, <2>2 DEF factory_test
  <2>4. Up' /\ ~server_ok'
    <3>1. ~server_ok
      BY <1>1, <2>1 DEF Calm, OneAtATime, DestroyPcs
    <3> QED BY <2>1, <2>2, <3>1 DEF Up, HasBase
  <2> QED BY <1>1, <2>1, <2>3, <2>4, ThreadCalm
<1>3. CASE factory_ok(t)
  <2>1. pc[t] = "ok" /\ Goto(t, "ok", "dispatch")
    BY <1>3 DEF factory_ok, Goto
  <2>2. Up' /\ server_ok'
    BY <1>1, <1>3, <2>1 DEF factory_ok, AtThread, Up, HasBase
  <2> QED BY <1>1, <2>1, <2>2, ThreadCalm
<1>4. CASE factory_dispatch(t)
  <2>1. pc[t] = "dispatch"
    BY <1>4 DEF factory_dispatch, Goto
  <2>2. Up /\ evbase \in bases
    BY <1>1, <2>1 DEF AtThread, Up, HasBase
  <2>3. ~Looping(evbase)
    BY <1>1, <2>1 DEF Looping, Calm, OneAtATime
  <2>4. /\ Goto(t, "dispatch", "loop")
        /\ tbase' = [tbase EXCEPT ![t] = evbase]
        /\ UNCHANGED serverVars
    BY <1>4, <2>2, <2>3 DEF factory_dispatch, Up
  <2>5. tbase'[t] = evbase
    BY <1>1, <2>4 DEF TypeOK
  <2>6. server_ok
    BY <1>1, <2>1 DEF AtThread
  <2>7. tbase'[t] \in bases' /\ Up' /\ server_ok' /\ tbase'[t] = evbase'
    BY <2>2, <2>4, <2>5, <2>6 DEF Up, HasBase
  <2> QED BY <1>1, <2>1, <2>4, <2>7, ThreadCalm
<1>5. CASE factory_ended(t)
  <2>1. pc[t] = "ended" /\ Goto(t, "ended", "none")
    BY <1>5 DEF factory_ended, Goto
  <2>2. Nothing' /\ ~server_ok'
    BY <1>1, <1>5, <2>1 DEF factory_ended, AtThread, Nothing
  <2> QED BY <1>1, <2>1, <2>2, ThreadCalm
<1>6. CASE accept_fails(t)
  <2>1. /\ pc[t] = "loop" /\ Goto(t, "loop", "destroy") /\ tbase[t] \in bases
        /\ UNCHANGED <<serverVars, tbase>>
    BY <1>6 DEF accept_fails, Goto
  <2>2. HasBase' /\ (bound' => listen_fd')
    BY <1>1, <2>1 DEF AtThread, Up, HasBase
  <2> QED BY <1>1, <2>1, <2>2, ThreadCalm DEF DestroyPcs
<1>7. CASE loop_fails(t)
  BY <1>7 DEF loop_fails
<1>8. CASE loop_on_freed_base(t)
  <2>1. CASE Ends
    BY <1>1, <2>1, EndsCalm DEF Ends
  <2>2. CASE Goto(t, "loop", "ended") /\ UNCHANGED <<serverVars, tbase>>
    <3>1. pc[t] = "loop" /\ tbase[t] \notin bases
      BY <1>8 DEF loop_on_freed_base
    <3>2. Nothing' /\ ~server_ok'
      BY <1>1, <2>2, <3>1 DEF AtThread, Nothing
    <3> QED BY <1>1, <2>2, <3>1, <3>2, ThreadCalm
  <2> QED BY <1>8, <2>1, <2>2 DEF loop_on_freed_base
<1>9. CASE evserver_destroy(t)
  <2>1. AfterDestroy(t) = "loop"
    BY <1>1 DEF AfterDestroy
  <2>2. CASE destroy_del(t)
    <3>1. pc[t] = "destroy" /\ HasBase /\ (bound => listen_fd) /\ evbase # NULL
      BY <1>1, <2>2, SupervisorSizesAssumption
         DEF destroy_del, Goto, AtDestroy, HasBase, Bases, NULL
    <3>2. /\ Goto(t, "destroy", "free") /\ evAdded' = FALSE
          /\ UNCHANGED <<server_ok, evbase, listen_fd, bound, evBase, bases, tbase>>
      BY <2>2, <3>1 DEF destroy_del
    <3>3. HasBase' /\ (bound' => listen_fd') /\ ~evAdded'
      BY <3>1, <3>2 DEF HasBase
    <3> QED BY <1>1, <3>1, <3>2, <3>3, ThreadCalm DEF DestroyPcs
  <2>3. CASE destroy_free(t)
    <3>1. pc[t] = "free" /\ HasBase /\ (bound => listen_fd) /\ ~evAdded
      BY <1>1, <2>3 DEF destroy_free, Goto, AtDestroy
    <3>2. CASE Ends
      BY <1>1, <3>2, EndsCalm DEF Ends
    <3>3. CASE /\ Goto(t, "free", "close") /\ bases' = bases \ {evbase}
               /\ UNCHANGED <<server_ok, evbase, listen_fd, bound, evAdded, evBase, tbase>>
      <4>1. bases' = {} /\ (bound' => listen_fd') /\ ~evAdded'
        BY <3>1, <3>3 DEF HasBase
      <4> QED BY <1>1, <3>1, <3>3, <4>1, ThreadCalm DEF DestroyPcs
    <3> QED BY <2>3, <3>2, <3>3 DEF destroy_free
  <2>4. CASE destroy_close(t)
    <3>1. pc[t] = "close" /\ bases = {} /\ (bound => listen_fd) /\ ~evAdded
      BY <1>1, <2>4 DEF destroy_close, Goto, AtDestroy
    <3>2. Goto(t, "close", "forget") /\ bases' = {} /\ ~bound' /\ ~evAdded'
      BY <2>4, <3>1 DEF destroy_close
    <3> QED BY <1>1, <3>1, <3>2, ThreadCalm DEF DestroyPcs
  <2>5. CASE destroy_reset(t)
    <3>1. UNCHANGED <<bound, evAdded, evBase, bases, tbase>>
      BY <2>5 DEF destroy_reset
    <3>2. CASE Goto(t, "forget", "null") /\ listen_fd' = FALSE /\ UNCHANGED <<evbase, server_ok>>
      <4>1. pc[t] = "forget" /\ bases' = {} /\ ~bound' /\ ~listen_fd' /\ ~evAdded'
        BY <1>1, <3>1, <3>2 DEF Goto, AtDestroy
      <4> QED BY <1>1, <3>2, <4>1, ThreadCalm DEF DestroyPcs
    <3>3. CASE Goto(t, "null", "status") /\ evbase' = NULL /\ UNCHANGED <<listen_fd, server_ok>>
      <4>1. pc[t] = "null" /\ Nothing'
        BY <1>1, <3>1, <3>3 DEF Goto, AtDestroy, Nothing
      <4> QED BY <1>1, <3>3, <4>1, ThreadCalm DEF DestroyPcs
    <3>4. CASE Goto(t, "status", "loop") /\ server_ok' = FALSE /\ UNCHANGED <<listen_fd, evbase>>
      <4>1. pc[t] = "status" /\ Nothing' /\ ~server_ok' /\ bases' = {}
        BY <1>1, <3>1, <3>4 DEF Goto, AtDestroy, Nothing
      <4> QED BY <1>1, <3>4, <4>1, ThreadCalm
    <3> QED BY <2>1, <2>5, <3>2, <3>3, <3>4 DEF destroy_reset
  <2> QED BY <1>9, <2>2, <2>3, <2>4, <2>5 DEF evserver_destroy
<1> QED
  BY <1>2, <1>3, <1>4, <1>5, <1>6, <1>7, <1>8, <1>9 DEF evserver_factory

-----------------------------------------------------------------------------
(* The inductive invariant holds at the start, *)
LEMMA InitIInv == ASSUME Init PROVE IInv
<1> USE SupervisorSizesAssumption, MonitorAssumption
<1>1. /\ pc \in [Procs -> MonitorPcs \cup ThreadPcs \cup DestroyPcs]
      /\ pc[Monitor] = "check" /\ \A t \in Threads : pc[t] = "none"
  BY DEF Init, Procs, MonitorPcs, ThreadPcs
<1>2. TypeOK /\ Trying
  <2>1. TypeServer
    <3>1. left \in 0 .. MaxFaults
      BY DEF Init
    <3>2. {calm, running, server_ok, listen_fd, bound, evAdded} \subseteq BOOLEAN
      BY DEF Init
    <3>3. /\ evbase \in Bases \cup {NULL} /\ evBase \in Bases \cup {NULL}
          /\ bases \subseteq Bases /\ tbase \in [Threads -> Bases \cup {NULL}]
      BY DEF Init
    <3> QED BY <3>1, <3>2, <3>3 DEF TypeServer
  <2>2. TypePlaces /\ i \in 0 .. Retries
    BY <1>1 DEF Init, TypePlaces, MonitorPcs, ThreadPcs
  <2> QED BY <1>1, <2>1, <2>2, TypeParts DEF Trying
<1>3. Nothing /\ ~server_ok
  BY DEF Init, Nothing
<1>4. Calm
  BY <1>1, <1>3 DEF Calm, OneAtATime, AtMonitor, AtDestroy, AtThread, NoThread
<1> QED BY <1>2, <1>4 DEF IInv

(* and every step keeps it. *)
LEMMA NextIInv == ASSUME IInv, [Next]_vars PROVE IInv'
<1>1. CASE UNCHANGED vars
  <2>1. TypeOK' /\ Trying'
    BY <1>1 DEF IInv, TypeOK, Trying, vars, serverVars
  <2>2. calm' => Calm'
    BY <1>1, EndsCalm DEF IInv, vars
  <2> QED BY <2>1, <2>2 DEF IInv
<1>2. CASE Next
  <2>1. TypeOK' /\ Trying'
    BY <1>2, ServerTyped, PlacesTyped, TypeParts DEF IInv
  <2>2. calm' = calm
    BY <1>2 DEF Next, MonitorStep, repeat_init, monitor_sleep, create_base,
         evserver_socket_create, add_accept_event, create_accept_thread, evserver_factory,
         evserver_destroy, destroy_del, destroy_free, destroy_close, destroy_reset,
         factory_test, factory_ok, factory_dispatch, factory_ended, accept_fails, loop_fails,
         loop_on_freed_base, Ends
  <2>3. calm => Calm'
    BY <1>2, MonitorKeepsCalm, ThreadKeepsCalm DEF Next
  <2> QED BY <2>1, <2>2, <2>3 DEF IInv
<1> QED BY <1>1, <1>2

(* The inductive invariant holds throughout: there is one accept thread at *)
(* a time, and what _server records is what there is, at every place of    *)
(* the monitor, of the destruction and of the accept thread.               *)
THEOREM IInvCorrect == Spec => []IInv
<1>1. Init => IInv
  BY InitIInv
<1>2. IInv /\ [Next]_vars => IInv'
  BY NextIInv
<1> QED BY <1>1, <1>2, PTL DEF Spec

(* Every variable keeps its type, and _repeat_init stops at its limit. *)
THEOREM TypeCorrect == Spec => []TypeOK
<1>1. IInv => TypeOK
  BY DEF IInv
<1> QED BY <1>1, IInvCorrect, PTL

(* No socket that _server has forgotten holds the port, however often      *)
(* event_base_new, bind, event_add and accept fail.                        *)
THEOREM PortIsKept == Spec => []PortKept
<1>1. IInv => PortKept
  <2> SUFFICES ASSUME IInv, calm, bound PROVE listen_fd
    BY DEF PortKept
  <2>1. Calm /\ TypeOK
    BY DEF IInv
  <2>2. CASE NoThread
    BY <2>1, <2>2 DEF Calm, AtMonitor, AtDestroy, TypeOK, MonitorPcs, DestroyPcs, Nothing, Up
  <2>3. ASSUME NEW t \in Threads, pc[t] # "none" PROVE listen_fd
    <3>1. AtThread(t) /\ AtDestroy(t) /\ pc[t] \in ThreadPcs \cup DestroyPcs
      BY <2>1 DEF Calm, TypeOK
    <3> QED BY <2>3, <3>1 DEF AtThread, AtDestroy, ThreadPcs, DestroyPcs, Nothing, Up
  <2> QED BY <2>2, <2>3 DEF NoThread
<1> QED BY <1>1, IInvCorrect, PTL

(* When the monitor looks at server_ok while no accept thread is starting  *)
(* or ending, it learns the truth: somebody accepts connections, or        *)
(* nothing is left of the last server.                                     *)
THEOREM MonitorToldTruth == Spec => []MonitorSeesTruth
<1>1. IInv => MonitorSeesTruth
  <2> SUFFICES ASSUME IInv, calm, pc[Monitor] = "check", Settled
               PROVE  IF server_ok THEN Accepting
                      ELSE /\ ~bound /\ evbase = NULL /\ bases = {}
                           /\ \A t \in Threads : pc[t] = "none"
    BY DEF MonitorSeesTruth
  <2>1. Calm
    BY DEF IInv
  <2>2. CASE server_ok
    <3>1. PICK t \in Threads : pc[t] \in {"dispatch", "loop"} \cup DestroyPcs
      BY <2>1, <2>2 DEF Calm, OneAtATime
    <3>2. pc[t] = "loop" /\ tbase[t] \in bases
      BY <3>1 DEF Settled, DestroyPcs
    <3>3. Up /\ tbase[t] = evbase
      BY <2>1, <3>2 DEF Calm, AtThread
    <3> QED BY <2>2, <3>2, <3>3 DEF Accepting, Registered, Up
  <2>3. CASE ~server_ok
    <3>1. \A t \in Threads : pc[t] # "loop"
      BY <2>1, <2>3 DEF Settled, Calm, AtThread
    <3>2. NoThread
      BY <3>1 DEF Settled, NoThread
    <3>3. Nothing
      BY <2>1, <3>2 DEF Calm, AtMonitor
    <3> QED BY <2>3, <3>2, <3>3 DEF NoThread, Nothing
  <2> QED BY <2>2, <2>3
<1> QED BY <1>1, IInvCorrect, PTL

===============================================================================
