---------------------------- MODULE Descriptors ----------------------------
(***************************************************************************)
(* Descriptor numbers.  The other modules identify a descriptor with what  *)
(* it stands for; here it is a number that the kernel gives out, takes     *)
(* back at close and gives out again, to whichever thread asks next.       *)
(*                                                                         *)
(* Those who ask: the accept thread (connections), the workers (log files, *)
(* the record file) and the monitor (the listening socket).  A connection  *)
(* is closed where it is refused, where its job is freed, and, once it has *)
(* a client, by evserver_client_release and by the bufferevent.  The       *)
(* latter closes in a finalizer, which bufferevent_free only makes active  *)
(* in the worker's loop: other callbacks and other threads run first.  The *)
(* listening socket is closed by the monitor and by accept threads, who    *)
(* share _server without a lock.                                           *)
(*                                                                         *)
(* Which base an accept thread loops on, and whether the accept event is   *)
(* registered there, is left to Supervisor: here a thread in its loop may  *)
(* accept whenever a listening socket is open.  The descriptors that the   *)
(* event bases keep for themselves are not counted.                        *)
(***************************************************************************)
EXTENDS Integers, Sequences

CONSTANTS
  NumFds,     \* the numbers the process may use
  Conns,      \* connections that arrive
  Workers,    \* worker threads
  Record,     \* the record file of the day
  Listener,   \* the listening socket
  Monitor,    \* the thread of _server_monitor_worker
  Acceptors,  \* accept threads that can exist at a time
  MaxFaults,  \* bound on the calls that fail for want of memory, threads and the like
  Closed      \* an unused entry of the kernel's table

ASSUME NumFdsAssumption == NumFds \in Nat \ {0} /\ MaxFaults \in Nat
ASSUME ObjectsDistinct ==
  /\ Conns \cap Workers = {}
  /\ {Record, Listener} \cap (Conns \cup Workers) = {}
  /\ Record # Listener
  /\ Closed \notin Conns \cup Workers \cup {Record, Listener}
  /\ Monitor \notin Acceptors

Fds == 1 .. NumFds

(* What a descriptor may refer to; worker w stands for the log file that w *)
(* is saving.                                                              *)
Objects == Conns \cup Workers \cup {Record, Listener}

NotHeld == 0

VARIABLES
  table,      \* the kernel's table: what each number refers to
  fd,         \* the number in which the program keeps each object
  stage,      \* per connection: "none", "job", "client", "gone", or
              \* "dropped", when its job lost its data
  owner,      \* per connection, the worker it was given to
  final,      \* per worker, the numbers of freed bufferevents, in the order of their finalizers
  savePc,     \* per worker, where it is in skylog_save; "loop" if in none
  pc,         \* where the monitor and the accept threads are
  base,       \* _server.evbase_server # NULL
  server_ok,  \* _server.server_ok
  shut,       \* history: listen_fd was closed and has not been overwritten since
  left        \* faults that may still happen

serverVars == <<pc, base, server_ok, shut>>
vars == <<table, fd, stage, owner, final, savePc, serverVars, left>>

Servers == Acceptors \cup {Monitor}

CreatePcs == {"check", "base", "socket", "add", "thread"}
FactoryPcs == {"none", "start", "ok", "loop", "ended"}
DestroyPcs == {"destroy", "close", "forget", "null", "status"}

Init ==
  /\ table = [n \in Fds |-> Closed]
  /\ fd = [o \in Objects |-> NotHeld]
  /\ stage = [c \in Conns |-> "none"]
  /\ owner \in [Conns -> Workers]
  /\ final = [w \in Workers |-> <<>>]
  /\ savePc = [w \in Workers |-> "loop"]
  /\ pc = [p \in Servers |-> IF p = Monitor THEN "check" ELSE "none"]
  /\ base = FALSE
  /\ server_ok = FALSE
  /\ shut = FALSE
  /\ left = MaxFaults

(* A call fails that needs memory, a thread or the like. *)
Fault == left > 0 /\ left' = left - 1

-----------------------------------------------------------------------------
(* The kernel *)

Unused == {n \in Fds : table[n] = Closed}

(* accept, socket and open give the lowest unused number. *)
Opened(n, o) ==
  /\ n \in Unused
  /\ \A k \in Unused : n <= k
  /\ table' = [table EXCEPT ![n] = o]

open(o) == \E n \in Fds : Opened(n, o) /\ fd' = [fd EXCEPT ![o] = n]

(* _file_node_create finds no memory for the handle: the file is open, and *)
(* its number is kept nowhere.                                             *)
open_without_handle(o) == (\E n \in Fds : Opened(n, o)) /\ UNCHANGED fd

(* close takes back whatever the number refers to; an unused number is     *)
(* EBADF, which no caller looks at.                                        *)
ClosedAt(n) == [m \in Fds |-> IF m = n THEN Closed ELSE table[m]]

(* socket_close and file_fd_close by the program itself. *)
close(o) ==
  /\ table' = ClosedAt(fd[o])
  /\ fd' = [fd EXCEPT ![o] = NotHeld]

-----------------------------------------------------------------------------
(* The accept thread *)

(* No socket of the process is bound to the port. *)
PortFree == \A n \in Fds : table[n] # Listener

ev_accept_callback(c) ==
  /\ \E t \in Acceptors : pc[t] = "loop"
  /\ ~PortFree
  /\ stage[c] = "none"
  /\ open(c)
  /\ stage' = [stage EXCEPT ![c] = "job"]
  /\ UNCHANGED <<owner, final, savePc, serverVars, left>>

(* A job that is freed before a client took its connection: by the accept  *)
(* thread, which refuses the connection or flushes a queue, or by the      *)
(* worker when evserver_client_new failed before it made a bufferevent.    *)
job_free(c) ==
  /\ stage[c] = "job"
  /\ close(c)
  /\ stage' = [stage EXCEPT ![c] = "gone"]
  /\ UNCHANGED <<owner, final, savePc, serverVars, left>>

(* memdup fails for the job (item_alloc): an item without data is queued,  *)
(* and nobody has the connection.                                          *)
job_dropped(c) ==
  /\ Fault
  /\ stage[c] = "job"
  /\ fd' = [fd EXCEPT ![c] = NotHeld]
  /\ stage' = [stage EXCEPT ![c] = "dropped"]
  /\ UNCHANGED <<table, owner, final, savePc, serverVars>>

-----------------------------------------------------------------------------
(* A worker's loop *)

InLoop(w) == savePc[w] = "loop"

(* Mutant: the job is not marked as processed, and closes the connection   *)
(* when it is freed.                                                       *)
client_new_not_processing(c) ==
  /\ stage[c] = "job"
  /\ InLoop(owner[c])
  /\ stage' = [stage EXCEPT ![c] = "client"]
  /\ table' = ClosedAt(fd[c])
  /\ UNCHANGED <<fd, owner, final, savePc, serverVars, left>>

evserver_client_new(c) ==
  /\ stage[c] = "job"
  /\ InLoop(owner[c])
  /\ stage' = [stage EXCEPT ![c] = "client"]
  /\ UNCHANGED <<table, fd, owner, final, savePc, serverVars, left>>

(* bufferevent_free: the finalizer becomes active, behind the callbacks    *)
(* that already are.                                                       *)
bufferevent_free(c) ==
  final' = [final EXCEPT ![owner[c]] = Append(@, fd[c])]

(* bufferevent_enable fails: the client is freed with its bufferevent, and *)
(* the job, which nobody processes, closes the connection.                 *)
evserver_client_new_fails(c) ==
  /\ Fault
  /\ stage[c] = "job"
  /\ InLoop(owner[c])
  /\ bufferevent_free(c)
  /\ close(c)
  /\ stage' = [stage EXCEPT ![c] = "gone"]
  /\ UNCHANGED <<owner, savePc, serverVars>>

evserver_client_release(c) ==
  /\ stage[c] = "client"
  /\ InLoop(owner[c])
  /\ bufferevent_free(c)
  /\ close(c)
  /\ stage' = [stage EXCEPT ![c] = "gone"]
  /\ UNCHANGED <<owner, savePc, serverVars, left>>

(* bufferevent_finalize_cb_ and be_socket_destruct, BEV_OPT_CLOSE_ON_FREE. *)
be_socket_destruct(w) ==
  /\ InLoop(w)
  /\ final[w] # <<>>
  /\ table' = ClosedAt(Head(final[w]))
  /\ final' = [final EXCEPT ![w] = Tail(@)]
  /\ UNCHANGED <<fd, stage, owner, savePc, serverVars, left>>

-----------------------------------------------------------------------------
(* skylog_save, inside a callback of one of the worker's clients: the file *)
(* is opened and closed to create it, again to truncate it, and opened to  *)
(* be written; it stays open while its path is recorded.                   *)

SavePcs == {"loop", "create", "created", "clear", "cleared", "open", "write",
            "rec_create", "rec_created", "rec_open", "line", "close"}

SaveGoto(w, steps) ==
  \E s \in steps : savePc[w] = s[1] /\ savePc' = [savePc EXCEPT ![w] = s[2]]

skylog_save(w) ==
  /\ InLoop(w)
  /\ \E c \in Conns : stage[c] = "client" /\ owner[c] = w
  /\ savePc' = [savePc EXCEPT ![w] = "create"]
  /\ UNCHANGED <<table, fd, stage, owner, final, serverVars, left>>

(* create_file, clear_file and open_file open. *)
open_file(w) ==
  /\ SaveGoto(w, {<<"create", "created">>, <<"clear", "cleared">>, <<"open", "write">>})
  /\ open(w)
  /\ UNCHANGED <<stage, owner, final, serverVars, left>>

(* open_file without memory for the handle: the attempt, or the save, ends. *)
open_file_no_handle(w) ==
  /\ Fault
  /\ SaveGoto(w, {<<"open", "create">>, <<"open", "loop">>})
  /\ open_without_handle(w)
  /\ UNCHANGED <<stage, owner, final, serverVars>>

(* A file that exists is not created again.  A failing create or open ends *)
(* the attempt, and the save if it was the last; that clear_file failed is *)
(* ignored.                                                                *)
without_open(w) ==
  /\ SaveGoto(w, {<<"create", "clear">>, <<"create", "loop">>, <<"clear", "open">>,
                  <<"open", "create">>, <<"open", "loop">>})
  /\ UNCHANGED <<table, fd, stage, owner, final, serverVars, left>>

(* create_file and clear_file close, and so does _skylog_write_finish,     *)
(* after a write that failed or after the record.                          *)
file_close(w) ==
  /\ SaveGoto(w, {<<"created", "clear">>, <<"cleared", "open">>,
                  <<"write", "create">>, <<"write", "loop">>, <<"close", "loop">>})
  /\ close(w)
  /\ UNCHANGED <<stage, owner, final, serverVars, left>>

InRecord(w) == savePc[w] \in {"rec_create", "rec_created", "rec_open", "line"}

(* _skylog_record_lock is free. *)
RecordUnlocked == \A w \in Workers : ~InRecord(w)

(* Mutant: a new day's file is opened over the handle of the old one. *)
record_again_without_exit(w) ==
  /\ savePc[w] = "write"
  /\ RecordUnlocked
  /\ \/ fd[Record] # NotHeld /\ SaveGoto(w, {<<"write", "line">>})
     \/ SaveGoto(w, {<<"write", "rec_create">>})
  /\ UNCHANGED <<table, fd, stage, owner, final, serverVars, left>>

(* The record file is that of the day; or there is none, or it is of       *)
(* another day and is closed; or its directory cannot be made.             *)
skylog_record(w) ==
  /\ savePc[w] = "write"
  /\ RecordUnlocked
  /\ \/ /\ fd[Record] # NotHeld
        /\ SaveGoto(w, {<<"write", "line">>})
        /\ UNCHANGED <<table, fd>>
     \/ /\ IF fd[Record] # NotHeld THEN close(Record) ELSE UNCHANGED <<table, fd>>
        /\ SaveGoto(w, {<<"write", "rec_create">>, <<"write", "close">>})
  /\ UNCHANGED <<stage, owner, final, serverVars, left>>

(* The record file is opened to create it, and to be written. *)
record_open(w) ==
  /\ SaveGoto(w, {<<"rec_create", "rec_created">>, <<"rec_open", "line">>})
  /\ open(Record)
  /\ UNCHANGED <<stage, owner, final, serverVars, left>>

(* The handle of the record file cannot be allocated: nothing is recorded. *)
record_open_no_handle(w) ==
  /\ Fault
  /\ SaveGoto(w, {<<"rec_open", "close">>})
  /\ open_without_handle(Record)
  /\ UNCHANGED <<stage, owner, final, serverVars>>

(* It exists already; or one of the two fails, and nothing is recorded; or *)
(* the line was written.                                                   *)
record_without_open(w) ==
  /\ SaveGoto(w, {<<"rec_create", "rec_open">>, <<"rec_create", "close">>,
                  <<"rec_open", "close">>, <<"line", "close">>})
  /\ UNCHANGED <<table, fd, stage, owner, final, serverVars, left>>

(* create_file closes, and so does _skylog_record_exit when the line could *)
(* not be written.                                                         *)
record_close(w) ==
  /\ SaveGoto(w, {<<"rec_created", "rec_open">>, <<"line", "close">>})
  /\ close(Record)
  /\ UNCHANGED <<stage, owner, final, serverVars, left>>

-----------------------------------------------------------------------------
(* The monitor (main.c) and evserver_create.  A failed attempt is repeated; *)
(* that the process exits after thirty of them is left out.                *)

Goto(p, from, to) ==
  /\ pc[p] = from
  /\ pc' = [pc EXCEPT ![p] = to]

NotServer == UNCHANGED <<stage, owner, final, savePc>>
NoFault == UNCHANGED left

repeat_init ==
  /\ ~server_ok
  /\ Goto(Monitor, "check", "base")
  /\ UNCHANGED <<table, fd, base, server_ok, shut, left>> /\ NotServer

(* event_base_new; without a base evserver_destroy has nothing to do. *)
create_base ==
  /\ \/ base' = TRUE /\ Goto(Monitor, "base", "socket") /\ NoFault
     \/ base' = FALSE /\ Goto(Monitor, "base", "check") /\ Fault
  /\ UNCHANGED <<table, fd, server_ok, shut>> /\ NotServer

(* listen_fd is overwritten, whatever it held: by the new socket, or by -1 *)
(* when it cannot be made or, the port being taken, not bound.  A socket   *)
(* that fails half-way is closed at once, which is one step here.          *)
evserver_socket_create ==
  /\ \/ PortFree /\ open(Listener) /\ Goto(Monitor, "socket", "add") /\ NoFault
     \/ /\ IF PortFree /\ Unused # {} THEN Fault ELSE NoFault
        /\ fd' = [fd EXCEPT ![Listener] = NotHeld]
        /\ Goto(Monitor, "socket", "destroy")
        /\ UNCHANGED table
  /\ shut' = FALSE
  /\ UNCHANGED <<base, server_ok>> /\ NotServer

(* event_assign and event_add; when one fails the socket is closed, and    *)
(* listen_fd keeps its number.                                             *)
add_accept_event ==
  /\ \/ Goto(Monitor, "add", "thread") /\ UNCHANGED <<table, shut>> /\ NoFault
     \/ /\ Fault
        /\ Goto(Monitor, "add", "destroy")
        /\ table' = ClosedAt(fd[Listener])
        /\ shut' = TRUE
  /\ UNCHANGED <<fd, base, server_ok>> /\ NotServer

(* pthread_create; when it fails nothing is undone. *)
create_accept_thread ==
  /\ \/ \E t \in Acceptors : /\ pc[t] = "none"
                              /\ pc[Monitor] = "thread"
                              /\ pc' = [pc EXCEPT ![Monitor] = "check", ![t] = "start"]
                              /\ NoFault
     \/ Goto(Monitor, "thread", "check") /\ Fault
  /\ UNCHANGED <<table, fd, base, server_ok, shut>> /\ NotServer

-----------------------------------------------------------------------------
(* _evserver_destroy, by the monitor after a failure or by an accept       *)
(* thread in its callback, on fields that both write.                      *)

AfterDestroy(p) == IF p = Monitor THEN "check" ELSE "ended"

destroy_test(p) ==
  /\ Goto(p, "destroy", IF base THEN "close" ELSE AfterDestroy(p))
  /\ UNCHANGED <<table, fd, base, server_ok, shut, left>> /\ NotServer

destroy_close(p) ==
  /\ Goto(p, "close", "forget")
  /\ table' = ClosedAt(fd[Listener])
  /\ shut' = TRUE
  /\ UNCHANGED <<fd, base, server_ok, left>> /\ NotServer

(* The fields are reset one after the other. *)
destroy_reset(p) ==
  /\ \/ /\ Goto(p, "forget", "null")
        /\ fd' = [fd EXCEPT ![Listener] = NotHeld]
        /\ shut' = FALSE
        /\ UNCHANGED <<base, server_ok>>
     \/ Goto(p, "null", "status") /\ base' = FALSE /\ UNCHANGED <<fd, server_ok, shut>>
     \/ /\ Goto(p, "status", AfterDestroy(p))
        /\ server_ok' = FALSE
        /\ UNCHANGED <<fd, base, shut>>
  /\ UNCHANGED <<table, left>> /\ NotServer

evserver_destroy(p) == destroy_test(p) \/ destroy_close(p) \/ destroy_reset(p)

-----------------------------------------------------------------------------
(* _evserver_factory *)

factory_start(t) ==
  /\ \/ Goto(t, "start", IF base THEN "ok" ELSE "none") /\ UNCHANGED server_ok
     \/ Goto(t, "ok", "loop") /\ server_ok' = TRUE
  /\ UNCHANGED <<table, fd, base, shut, left>> /\ NotServer

(* ev_accept_callback when accept fails, for want of a number for example, *)
(* or a loop that ends.                                                    *)
leave_loop(t) ==
  /\ Fault
  /\ Goto(t, "loop", "destroy") \/ Goto(t, "loop", "ended")
  /\ UNCHANGED <<table, fd, base, server_ok, shut>> /\ NotServer

factory_ended(t) ==
  /\ Goto(t, "ended", "none")
  /\ server_ok' = FALSE
  /\ UNCHANGED <<table, fd, base, shut, left>> /\ NotServer

-----------------------------------------------------------------------------
Next ==
  \/ \E c \in Conns :
       \/ ev_accept_callback(c)
       \/ job_free(c)
       \/ job_dropped(c)
       \/ evserver_client_new(c)
       \/ evserver_client_new_fails(c)
       \/ evserver_client_release(c)
  \/ \E w \in Workers :
       \/ be_socket_destruct(w)
       \/ skylog_save(w)
       \/ open_file(w)
       \/ open_file_no_handle(w)
       \/ file_close(w)
       \/ without_open(w)
       \/ skylog_record(w)
       \/ record_open(w)
       \/ record_open_no_handle(w)
       \/ record_without_open(w)
       \/ record_close(w)
  \/ repeat_init
  \/ create_base
  \/ evserver_socket_create
  \/ add_accept_event
  \/ create_accept_thread
  \/ \E t \in Acceptors : factory_start(t) \/ leave_loop(t) \/ factory_ended(t)
  \/ \E p \in Servers : evserver_destroy(p)

Spec == Init /\ [][Next]_vars

-----------------------------------------------------------------------------
(* Properties. *)

(* Every variable keeps its type. *)
TypeOK ==
  /\ table \in [Fds -> Objects \cup {Closed}]
  /\ fd \in [Objects -> Fds \cup {NotHeld}]
  /\ stage \in [Conns -> {"none", "job", "client", "gone", "dropped"}]
  /\ owner \in [Conns -> Workers]
  /\ final \in [Workers -> Seq(Fds)]
  /\ savePc \in [Workers -> SavePcs]
  /\ pc \in [Servers -> CreatePcs \cup FactoryPcs \cup DestroyPcs]
  /\ base \in BOOLEAN /\ server_ok \in BOOLEAN /\ shut \in BOOLEAN
  /\ left \in Nat

(* The objects the program goes on using through their numbers: all it     *)
(* holds, but for a listening socket that it has closed itself.            *)
InUse == {o \in Objects : fd[o] # NotHeld} \ (IF shut THEN {Listener} ELSE {})

(* A number in which the program keeps a connection, a log file, the       *)
(* record file or the listening socket refers to it: nobody else has       *)
(* closed it.                                                              *)
HeldIsOwn == \A o \in InUse : table[fd[o]] = o

(* The descriptors that are open although no part of the program holds     *)
(* their number.                                                           *)
Leaked == {n \in Fds : table[n] # Closed /\ fd[table[n]] # n}

(* The failures that lose a descriptor: a file was opened and its handle   *)
(* could not be allocated (file.c:132); a job was queued without its data  *)
(* (queue.c:45); an attempt to create a server found the port taken and    *)
(* overwrote the listen_fd of a server that was never taken down, because  *)
(* pthread_create had failed, the accept thread was late or its loop had   *)
(* ended (event_server.c:65); or evserver_destroy reset a listen_fd that   *)
(* was not the one it had closed, because the other thread has made a new  *)
(* socket meanwhile (event_server.c:103).                                  *)
Loses ==
  \/ \E w \in Workers : savePc[w] \in {"open", "rec_open"}
                        /\ savePc'[w] \in {"create", "loop", "close"}
  \/ \E c \in Conns : stage[c] = "job" /\ stage'[c] = "dropped"
  \/ pc[Monitor] = "socket" /\ pc'[Monitor] = "destroy"
  \/ \E p \in Servers : pc[p] = "forget" /\ pc'[p] = "null" /\ ~shut

(* No other step of any thread leaves a descriptor open that nobody holds: *)
(* not the failing write, create or truncation of a file, not the change   *)
(* of day or a failing line of the record file, not a client that cannot   *)
(* be made, not a failing event_add, and not evserver_destroy, whichever   *)
(* number was closed twice before.                                         *)
OnlyFailuresLose == [][Leaked' \subseteq Leaked \/ Loses]_vars

(* Every number is held where the code is between its open and its close. *)
HeldWhere ==
  /\ \A c \in Conns : fd[c] = NotHeld <=> stage[c] \in {"none", "gone", "dropped"}
  /\ \A w \in Workers : fd[w] = NotHeld <=> savePc[w] \in {"loop", "create", "clear", "open"}
  /\ \A w \in Workers : savePc[w] \in {"rec_create", "rec_open"} => fd[Record] = NotHeld
  /\ \A w \in Workers : savePc[w] \in {"rec_created", "line"} => fd[Record] # NotHeld

(* One worker at a time is under the record's lock. *)
OneRecorder == \A v, w \in Workers : InRecord(v) /\ InRecord(w) => v = w

(* A listen_fd that was closed does not refer to a listening socket. *)
ShutIsClosed == shut => \A n \in Fds : n = fd[Listener] => table[n] # Listener

IInv == TypeOK /\ HeldWhere /\ OneRecorder /\ ShutIsClosed

(* The closes by number that follow a close of the same number: those of   *)
(* the bufferevents' finalizers, and a close of listen_fd when it was      *)
(* closed before and not yet overwritten, be it by evserver_destroy after  *)
(* event_add has failed, or because the monitor and an accept thread are   *)
(* both in there.                                                          *)
SecondClose ==
  \/ \E w \in Workers : Len(final'[w]) < Len(final[w])
  \/ shut /\ pc[Monitor] = "add" /\ pc'[Monitor] = "destroy"
  \/ shut /\ \E p \in Servers : pc[p] = "close" /\ pc'[p] = "forget"

(* While every number refers to what it is held for, only those second     *)
(* closes can take a descriptor from its holder: no other step of any      *)
(* thread closes what it does not own.                                     *)
OnlySecondClosesHurt == [][HeldIsOwn => HeldIsOwn' \/ SecondClose]_vars
=============================================================================
