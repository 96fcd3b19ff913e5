----------------------------- MODULE Supervisor -----------------------------
(***************************************************************************)
(* The monitor thread of main.c against the accept threads it creates      *)
(* (event_server.c): the monitor polls server_ok and, while it is false,   *)
(* creates a server; an accept thread whose accept fails destroys the      *)
(* server from within its own callback.  Both work on the one record       *)
(* _server, which no lock protects.                                        *)
(*                                                                         *)
(* Every access to _server that the other side can see in between is an    *)
(* action.  Only one socket can be bound to the port, so listen_fd is a    *)
(* flag: the number of the socket created last, or -1.  Use of a base      *)
(* after it was freed has no defined outcome: the process may crash, or go *)
(* on.  libevent has no locks here (evthread_use_pthreads is not called):  *)
(* event_del does not wake the loop of another thread.                     *)
(***************************************************************************)
EXTENDS Integers, FiniteSets

CONSTANTS
  Threads,   \* accept threads that can exist at a time
  Monitor,   \* the thread of _server_monitor_worker
  NumBases,  \* event bases that can exist at a time
  Retries,   \* attempts of _repeat_init (30)
  MaxFaults  \* bound on the faults of a behaviour that is not calm

ASSUME MonitorAssumption == Monitor \notin Threads
ASSUME SupervisorSizesAssumption == /\ NumBases \in Nat \ {0}
                                     /\ Retries \in Nat \ {0}
                                     /\ MaxFaults \in Nat

Bases == 1 .. NumBases
NULL == 0

VARIABLES
  calm,       \* in this behaviour threads are created, loops do not fail, and
              \* the monitor reads server_ok when no accept thread is about to
              \* set it
  left,       \* faults that may still happen if it is not calm
  running,    \* the process has neither exited nor crashed
  server_ok,  \* _server.server_ok
  evbase,     \* _server.evbase_server
  listen_fd,  \* _server.listen_fd # -1
  bound,      \* some socket of the process holds the port
  evAdded,    \* _server.event_accept is registered
  evBase,     \* the base it was assigned to
  bases,      \* bases that are allocated
  pc,         \* per thread, where it is
  tbase,      \* per accept thread, the base it dispatches
  i           \* i of _repeat_init

serverVars == <<server_ok, evbase, listen_fd, bound, evAdded, evBase, bases>>
vars == <<calm, left, running, serverVars, pc, tbase, i>>

MonitorPcs == {"check", "base", "socket", "add", "thread", "sleep1", "sleep3"}
ThreadPcs == {"none", "start", "ok", "dispatch", "loop", "ended"}
DestroyPcs == {"destroy", "free", "close", "forget", "null", "status"}

Init ==
  /\ calm \in BOOLEAN
  /\ left = MaxFaults
  /\ running = TRUE
  /\ server_ok = FALSE
  /\ evbase = NULL
  /\ listen_fd = FALSE
  /\ bound = FALSE
  /\ evAdded = FALSE
  /\ evBase = NULL
  /\ bases = {}
  /\ pc = [p \in Threads \cup {Monitor} |-> IF p = Monitor THEN "check" ELSE "none"]
  /\ tbase = [t \in Threads |-> NULL]
  /\ i = 0

Goto(p, from, to) ==
  /\ pc[p] = from
  /\ pc' = [pc EXCEPT ![p] = to]

(* The process ends; nothing else of its state matters. *)
Ends == running' = FALSE /\ UNCHANGED <<calm, left, serverVars, pc, tbase, i>>

(* A call fails: any number of times if it is calm, else MaxFaults times.  *)
Fault == calm \/ left > 0
Left == IF calm THEN left ELSE left - 1

(* No accept thread is between its creation and its loop, or leaving it.   *)
Settled ==
  \A t \in Threads : pc[t] = "none" \/ (pc[t] = "loop" /\ tbase[t] \in bases)

-----------------------------------------------------------------------------
(* The monitor. *)

(* Mutant: the monitor starts over where the code exits. *)
repeat_init_forever ==
  /\ pc[Monitor] = "check"
  /\ calm => Settled
  /\ UNCHANGED <<calm, left, running, serverVars, tbase>>
  /\ \/ ~server_ok /\ i < Retries /\ Goto(Monitor, "check", "base") /\ UNCHANGED i
     \/ i >= Retries /\ i' = 0 /\ UNCHANGED pc
     \/ server_ok /\ i < Retries /\ Goto(Monitor, "check", "sleep3") /\ UNCHANGED i

(* The loop's condition: another attempt, exit after Retries of them, or   *)
(* a server that is up.                                                    *)
repeat_init ==
  /\ pc[Monitor] = "check"
  /\ calm => Settled
  /\ \/ /\ ~server_ok /\ i < Retries
        /\ Goto(Monitor, "check", "base")
        /\ UNCHANGED <<calm, left, running, serverVars, tbase, i>>
     \/ /\ i >= Retries
        /\ Ends
     \/ /\ server_ok /\ i < Retries
        /\ Goto(Monitor, "check", "sleep3")
        /\ UNCHANGED <<calm, left, running, serverVars, tbase, i>>

(* sleep(1) after a failed attempt, sleep(3) before the next look. *)
monitor_sleep ==
  /\ \/ Goto(Monitor, "sleep1", "check") /\ i' = i + 1
     \/ Goto(Monitor, "sleep3", "check") /\ i' = 0
  /\ UNCHANGED <<calm, left, running, serverVars, tbase>>

(* event_base_new; without a base evserver_destroy has nothing to do. *)
create_base ==
  /\ \/ \E b \in Bases \ bases : /\ evbase' = b
                                 /\ bases' = bases \cup {b}
                                 /\ Goto(Monitor, "base", "socket")
                                 /\ UNCHANGED left
     \/ /\ bases = Bases \/ Fault
        /\ left' = IF bases = Bases THEN left ELSE Left
        /\ evbase' = NULL
        /\ Goto(Monitor, "base", "sleep1")
        /\ UNCHANGED bases
  /\ UNCHANGED <<calm, running, server_ok, listen_fd, bound, evAdded, evBase, tbase, i>>

(* socket_listen: bind succeeds only while nobody holds the port; the      *)
(* option to reuse it is set afterwards.                                   *)
PortFree == ~bound

(* _evserver_socket_create; a socket that cannot be set up is closed.      *)
evserver_socket_create ==
  /\ \/ /\ PortFree
        /\ bound' = TRUE
        /\ listen_fd' = TRUE
        /\ Goto(Monitor, "socket", "add")
        /\ UNCHANGED left
     \/ /\ ~PortFree \/ Fault
        /\ left' = IF PortFree THEN Left ELSE left
        /\ listen_fd' = FALSE
        /\ Goto(Monitor, "socket", "destroy")
        /\ UNCHANGED bound
  /\ UNCHANGED <<calm, running, server_ok, evbase, evAdded, evBase, bases, tbase, i>>

(* event_assign and event_add; when they fail the socket is closed here,   *)
(* and its number once more by evserver_destroy.  Another thread may have  *)
(* freed the base.                                                         *)
add_accept_event ==
  \/ /\ evbase \in bases
     /\ Goto(Monitor, "add", "thread")
     /\ evBase' = evbase
     /\ evAdded' = TRUE
     /\ UNCHANGED <<calm, left, running, server_ok, evbase, listen_fd, bound, bases, tbase, i>>
  \/ /\ evbase \notin bases \/ Fault
     /\ left' = IF evbase \notin bases THEN left ELSE Left
     /\ Goto(Monitor, "add", "destroy")
     /\ evBase' = evbase
     /\ evAdded' = FALSE
     /\ bound' = (bound /\ ~listen_fd)
     /\ UNCHANGED <<calm, running, server_ok, evbase, listen_fd, bases, tbase, i>>
  \/ pc[Monitor] = "add" /\ evbase \notin bases \cup {NULL} /\ Ends

(* pthread_create; when it fails nothing is undone. *)
create_accept_thread ==
  /\ \/ \E t \in Threads : /\ pc[t] = "none"
                           /\ pc[Monitor] = "thread"
                           /\ pc' = [pc EXCEPT ![Monitor] = "sleep3", ![t] = "start"]
                           /\ UNCHANGED left
     \/ /\ ~calm /\ (Fault \/ \A t \in Threads : pc[t] # "none")
        /\ left' = IF Fault THEN Left ELSE left
        /\ Goto(Monitor, "thread", "sleep1")
  /\ UNCHANGED <<calm, running, serverVars, tbase, i>>

-----------------------------------------------------------------------------
(* _evserver_destroy, by the monitor after a failure or by an accept       *)
(* thread in its callback.                                                 *)

AfterDestroy(p) == IF p = Monitor THEN "sleep1" ELSE "loop"

(* The test of evbase_server, event_del and event_base_loopexit. *)
destroy_del(p) ==
  /\ \/ evbase # NULL /\ Goto(p, "destroy", "free") /\ evAdded' = FALSE
     \/ evbase = NULL /\ Goto(p, "destroy", AfterDestroy(p)) /\ UNCHANGED evAdded
  /\ UNCHANGED <<calm, left, running, server_ok, evbase, listen_fd, bound, evBase, bases, tbase, i>>

(* Mutant: the base is not freed. *)
destroy_free_missing(p) ==
  /\ Goto(p, "free", "close")
  /\ UNCHANGED <<calm, left, running, serverVars, tbase, i>>

(* event_base_free; freeing a base twice may end the process. *)
destroy_free(p) ==
  \/ /\ Goto(p, "free", "close")
     /\ bases' = bases \ {evbase}
     /\ UNCHANGED <<calm, left, running, server_ok, evbase, listen_fd, bound, evAdded, evBase, tbase, i>>
  \/ pc[p] = "free" /\ evbase \notin bases \cup {NULL} /\ Ends

(* Mutant: listen_fd is not closed. *)
destroy_close_missing(p) ==
  /\ Goto(p, "close", "forget")
  /\ UNCHANGED <<calm, left, running, serverVars, tbase, i>>

(* shutdown and close of listen_fd. *)
destroy_close(p) ==
  /\ Goto(p, "close", "forget")
  /\ bound' = (bound /\ ~listen_fd)
  /\ UNCHANGED <<calm, left, running, server_ok, evbase, listen_fd, evAdded, evBase, bases, tbase, i>>

(* The fields are reset one after the other. *)
destroy_reset(p) ==
  /\ \/ Goto(p, "forget", "null") /\ listen_fd' = FALSE /\ UNCHANGED <<evbase, server_ok>>
     \/ Goto(p, "null", "status") /\ evbase' = NULL /\ UNCHANGED <<listen_fd, server_ok>>
     \/ /\ Goto(p, "status", AfterDestroy(p))
        /\ server_ok' = FALSE
        /\ UNCHANGED <<listen_fd, evbase>>
  /\ UNCHANGED <<calm, left, running, bound, evAdded, evBase, bases, tbase, i>>

evserver_destroy(p) ==
  destroy_del(p) \/ destroy_free(p) \/ destroy_close(p) \/ destroy_reset(p)

-----------------------------------------------------------------------------
(* _evserver_factory *)

factory_test(t) ==
  /\ Goto(t, "start", IF evbase # NULL THEN "ok" ELSE "none")
  /\ UNCHANGED <<calm, left, running, serverVars, tbase, i>>

factory_ok(t) ==
  /\ Goto(t, "ok", "dispatch")
  /\ server_ok' = TRUE
  /\ UNCHANGED <<calm, left, running, evbase, listen_fd, bound, evAdded, evBase, bases, tbase, i>>

(* The accept event is registered with the base that t dispatches. *)
Registered(t) == evAdded /\ evBase = tbase[t]

Looping(b) == \E t \in Threads : pc[t] = "loop" /\ tbase[t] = b

(* event_base_dispatch returns at once from a base without events or in    *)
(* use by another loop; without a base it cannot but crash.                *)
factory_dispatch(t) ==
  \/ /\ evbase \in bases
     /\ tbase' = [tbase EXCEPT ![t] = evbase]
     /\ Goto(t, "dispatch", IF evAdded /\ evBase = evbase /\ ~Looping(evbase)
                            THEN "loop" ELSE "ended")
     /\ UNCHANGED <<calm, left, running, serverVars, i>>
  \/ /\ evbase \notin bases \cup {NULL}
     /\ Goto(t, "dispatch", "ended")
     /\ UNCHANGED <<calm, left, running, serverVars, tbase, i>>
  \/ pc[t] = "dispatch" /\ evbase \notin bases /\ Ends

factory_ended(t) ==
  /\ Goto(t, "ended", "none")
  /\ server_ok' = FALSE
  /\ tbase' = [tbase EXCEPT ![t] = NULL]
  /\ UNCHANGED <<calm, left, running, evbase, listen_fd, bound, evAdded, evBase, bases, i>>

(* ev_accept_callback when accept fails. *)
accept_fails(t) ==
  /\ Registered(t) /\ tbase[t] \in bases
  /\ Fault /\ left' = Left
  /\ Goto(t, "loop", "destroy")
  /\ UNCHANGED <<calm, running, serverVars, tbase, i>>

(* The loop's own wait fails: event_base_dispatch returns -1. *)
loop_fails(t) ==
  /\ ~calm /\ tbase[t] \in bases
  /\ Fault /\ left' = Left
  /\ Goto(t, "loop", "ended")
  /\ UNCHANGED <<calm, running, serverVars, tbase, i>>

(* Back in a loop whose base is gone. *)
loop_on_freed_base(t) ==
  /\ pc[t] = "loop" /\ tbase[t] \notin bases
  /\ \/ /\ Goto(t, "loop", "ended")
        /\ UNCHANGED <<calm, left, running, serverVars, tbase, i>>
     \/ Ends

-----------------------------------------------------------------------------
MonitorStep ==
  \/ repeat_init
  \/ monitor_sleep
  \/ create_base
  \/ evserver_socket_create
  \/ add_accept_event
  \/ create_accept_thread
  \/ evserver_destroy(Monitor)

evserver_factory(t) ==
  factory_test(t) \/ factory_ok(t) \/ factory_dispatch(t) \/ factory_ended(t)
    \/ evserver_destroy(t)

Next ==
  /\ running
  /\ \/ MonitorStep
     \/ \E t \in Threads : \/ evserver_factory(t)
                           \/ accept_fails(t)
                           \/ loop_fails(t)
                           \/ loop_on_freed_base(t)

Spec == Init /\ [][Next]_vars

(* The monitor and the accept threads run.  That a loop on a freed base    *)
(* comes back is assumed only where calm says so.                          *)
FairSpec ==
  /\ Spec
  /\ WF_vars(running /\ MonitorStep)
  /\ \A t \in Threads : /\ WF_vars(running /\ evserver_factory(t))
                        /\ WF_vars(running /\ calm /\ loop_on_freed_base(t))

-----------------------------------------------------------------------------
(* Properties. *)

(* Every variable keeps its type; i never passes its limit. *)
TypeOK ==
  /\ left \in 0 .. MaxFaults
  /\ {calm, running, server_ok, listen_fd, bound, evAdded} \subseteq BOOLEAN
  /\ evbase \in Bases \cup {NULL} /\ evBase \in Bases \cup {NULL}
  /\ bases \subseteq Bases
  /\ pc \in [Threads \cup {Monitor} -> MonitorPcs \cup ThreadPcs \cup DestroyPcs]
  /\ pc[Monitor] \in MonitorPcs \cup DestroyPcs
  /\ \A t \in Threads : pc[t] \in ThreadPcs \cup DestroyPcs
  /\ tbase \in [Threads -> Bases \cup {NULL}]
  /\ i \in 0 .. Retries

Accepting == \E t \in Threads : pc[t] = "loop" /\ Registered(t) /\ bound

(* In a calm behaviour the port is never held by a socket that _server has *)
(* forgotten, whatever else fails and however often: such a socket would   *)
(* make bind fail for every server to come.                                *)
PortKept == calm => (bound => listen_fd)

(* In a calm behaviour server_ok tells the monitor the truth: when it      *)
(* looks, somebody accepts connections, or nothing is left of the last     *)
(* server and the next can be created.                                     *)
MonitorSeesTruth ==
  calm /\ pc[Monitor] = "check" /\ Settled
    => IF server_ok THEN Accepting
       ELSE /\ ~bound /\ evbase = NULL /\ bases = {}
            /\ \A t \in Threads : pc[t] = "none"

(* Whatever fails, and however late the threads run, the process does not  *)
(* live on without a server: it accepts connections again, or it exits and *)
(* can be started anew.                                                    *)
ServesOrExits == []<>(Accepting \/ ~running)
=============================================================================
