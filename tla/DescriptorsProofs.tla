-------------------------- MODULE DescriptorsProofs --------------------------
(***************************************************************************)
(* Proofs about Descriptors, for any number of descriptors, connections,   *)
(* workers, accept threads and faults: only the failures that Loses names  *)
(* leave a descriptor open without a holder, and only second closes take a *)
(* number from its holder.                                                 *)
(***************************************************************************)
EXTENDS Descriptors, TLAPS

(* The distinct kinds of objects. *)
LEMMA Kinds ==
  /\ Objects = Conns \cup Workers \cup {Record, Listener}
  /\ Closed \notin Objects
  /\ NotHeld \notin Fds
  /\ \A c \in Conns : c \notin Workers /\ c # Record /\ c # Listener
  /\ \A w \in Workers : w # Record /\ w # Listener
  /\ Record # Listener
BY ObjectsDistinct, NumFdsAssumption DEF Objects, NotHeld, Fds

(* The faults that are left stay a number. *)
LEMMA FaultsLeft ==
  ASSUME left \in Nat, Fault \/ left' = left
  PROVE  left' \in Nat
BY DEF Fault

(* What open does, for an object that is not held or not open: it is held  *)
(* afterwards, by a number nobody's object had, and nothing is lost.       *)
LEMMA Opens ==
  ASSUME TypeOK, NEW o \in Objects, open(o),
         fd[o] = NotHeld \/ \A n \in Fds : table[n] # o
  PROVE  /\ table' \in [Fds -> Objects \cup {Closed}]
         /\ fd' \in [Objects -> Fds \cup {NotHeld}]
         /\ Leaked' \subseteq Leaked
         /\ fd'[o] \in Fds
         /\ table[fd'[o]] = Closed
         /\ table' = [table EXCEPT ![fd'[o]] = o]
         /\ \A p \in Objects \ {o} : fd'[p] = fd[p]
<1>1. PICK n \in Fds : /\ table[n] = Closed
                       /\ table' = [table EXCEPT ![n] = o]
                       /\ fd' = [fd EXCEPT ![o] = n]
  BY DEF open, Opened, Unused
<1>2. /\ table' \in [Fds -> Objects \cup {Closed}]
      /\ fd' \in [Objects -> Fds \cup {NotHeld}]
      /\ fd'[o] = n
      /\ \A p \in Objects \ {o} : fd'[p] = fd[p]
  BY <1>1 DEF TypeOK
<1>3. Leaked' \subseteq Leaked
  <2> SUFFICES ASSUME NEW m \in Fds, table'[m] # Closed, fd'[table'[m]] # m
               PROVE  fd[table[m]] # m /\ table[m] # Closed
    BY DEF Leaked
  <2>1. m # n
    BY <1>1, <1>2 DEF TypeOK
  <2>2. table'[m] = table[m] /\ table[m] \in Objects
    BY <2>1, <1>1 DEF TypeOK
  <2>3. CASE table[m] = o
    BY <2>2, <2>3, Kinds
  <2>4. CASE table[m] # o
    BY <2>2, <2>4, <1>2
  <2> QED BY <2>3, <2>4
<1> QED BY <1>1, <1>2, <1>3

(* What an open without a handle does: one entry of the table is taken.    *)
LEMMA OpensWithoutHandle ==
  ASSUME TypeOK, NEW o \in Objects, open_without_handle(o)
  PROVE  /\ table' \in [Fds -> Objects \cup {Closed}]
         /\ fd' = fd
         /\ \E n \in Fds : table[n] = Closed /\ table' = [table EXCEPT ![n] = o]
BY DEF open_without_handle, Opened, Unused, TypeOK

(* A close by number loses nothing. *)
LEMMA ClosesNumber ==
  ASSUME TypeOK, NEW n, table' = ClosedAt(n), fd' = fd
  PROVE  /\ table' \in [Fds -> Objects \cup {Closed}]
         /\ Leaked' \subseteq Leaked
         /\ \A m \in Fds : table'[m] # Closed => table'[m] = table[m]
<1>1. table' \in [Fds -> Objects \cup {Closed}]
  BY DEF ClosedAt, TypeOK
<1>2. \A m \in Fds : table'[m] # Closed => table'[m] = table[m]
  BY DEF ClosedAt, TypeOK
<1> QED BY <1>1, <1>2 DEF Leaked

(* What close does: the object is held no longer, and nothing is lost.     *)
LEMMA Closes ==
  ASSUME TypeOK, NEW o \in Objects, close(o)
  PROVE  /\ table' \in [Fds -> Objects \cup {Closed}]
         /\ fd' \in [Objects -> Fds \cup {NotHeld}]
         /\ Leaked' \subseteq Leaked
         /\ fd'[o] = NotHeld
         /\ \A m \in Fds : table'[m] # Closed => table'[m] = table[m]
         /\ \A p \in Objects \ {o} : fd'[p] = fd[p]
<1>1. /\ table' = ClosedAt(fd[o])
      /\ fd' = [fd EXCEPT ![o] = NotHeld]
  BY DEF close
<1>2. /\ table' \in [Fds -> Objects \cup {Closed}]
      /\ fd' \in [Objects -> Fds \cup {NotHeld}]
      /\ fd'[o] = NotHeld
      /\ \A m \in Fds : table'[m] # Closed => m # fd[o] /\ table'[m] = table[m]
      /\ \A p \in Objects \ {o} : fd'[p] = fd[p]
  BY <1>1 DEF TypeOK, ClosedAt
<1>3. Leaked' \subseteq Leaked
  <2> SUFFICES ASSUME NEW m \in Fds, table'[m] # Closed, fd'[table'[m]] # m
               PROVE  fd[table[m]] # m /\ table[m] # Closed
    BY DEF Leaked
  <2>1. m # fd[o] /\ table'[m] = table[m] /\ table[m] \in Objects
    BY <1>2 DEF TypeOK
  <2> QED BY <2>1, <1>2
<1> QED BY <1>2, <1>3

(* An object newly opened takes nobody's number. *)
LEMMA OpenKeepsOwn ==
  ASSUME TypeOK, NEW o \in Objects, NEW n \in Fds, table[n] = Closed,
         table' = [table EXCEPT ![n] = o], HeldIsOwn,
         \A p \in InUse' : \/ p = o /\ fd'[p] = n
                           \/ p \in InUse /\ fd'[p] = fd[p]
  PROVE  HeldIsOwn'
<1>1. SUFFICES ASSUME NEW p \in InUse'
               PROVE  table'[fd'[p]] = p
  BY DEF HeldIsOwn
<1>2. CASE p = o /\ fd'[p] = n
  BY <1>2 DEF TypeOK
<1>3. CASE p \in InUse /\ fd'[p] = fd[p]
  <2>1. p \in Objects /\ fd[p] \in Fds
    BY <1>3 DEF InUse, TypeOK
  <2>2. table[fd[p]] = p /\ p # Closed
    BY <1>3, <2>1, Kinds DEF HeldIsOwn
  <2> QED BY <1>3, <2>1, <2>2 DEF TypeOK
<1> QED BY <1>2, <1>3

(* Closing an object in use takes nobody else's number, because the        *)
(* numbers of the objects in use are different.                            *)
LEMMA CloseKeepsOwn ==
  ASSUME TypeOK, NEW o \in InUse, table' = ClosedAt(fd[o]),
         HeldIsOwn, InUse' \subseteq InUse \ {o},
         \A p \in Objects \ {o} : fd'[p] = fd[p]
  PROVE  HeldIsOwn'
<1>1. SUFFICES ASSUME NEW p \in InUse'
               PROVE  table'[fd'[p]] = p
  BY DEF HeldIsOwn
<1>2. p \in InUse /\ p # o /\ p \in Objects /\ fd[p] \in Fds /\ fd'[p] = fd[p]
  BY DEF InUse, TypeOK
<1>3. table[fd[p]] = p /\ table[fd[o]] = o
  BY <1>2 DEF HeldIsOwn
<1> QED BY <1>2, <1>3 DEF ClosedAt, TypeOK

(* Nobody's number changes where the table does not, and at most the       *)
(* program uses fewer.                                                     *)
LEMMA SameKeepsOwn ==
  ASSUME table' = table, HeldIsOwn,
         \A p \in InUse' : p \in InUse /\ fd'[p] = fd[p]
  PROVE  HeldIsOwn'
BY DEF HeldIsOwn

(* A listen_fd that was closed stays closed until it is overwritten.       *)
LEMMA ShutKeeps ==
  ASSUME ShutIsClosed, shut' = shut, fd'[Listener] = fd[Listener],
         \A n \in Fds : table'[n] = Listener => table[n] = Listener
  PROVE  ShutIsClosed'
BY DEF ShutIsClosed

(* The entries of the listening socket when another object is opened. *)
LEMMA OthersOpen ==
  ASSUME TypeOK, NEW o \in Objects, o # Listener, NEW n \in Fds,
         table' = [table EXCEPT ![n] = o]
  PROVE  \A m \in Fds : table'[m] = Listener => table[m] = Listener
BY DEF TypeOK

(* Every step keeps the inductive invariant; unless it is one of the named *)
(* failures, it loses no descriptor; and unless it is a second close, it   *)
(* leaves every number with its holder.                                    *)
KeepsAll ==
  /\ IInv'
  /\ Leaked' \subseteq Leaked \/ Loses
  /\ HeldIsOwn => HeldIsOwn' \/ SecondClose

(* The steps of a connection: accepted, freed with its job or dropped with *)
(* it, taken by a client and released.                                     *)
LEMMA ConnectionSteps ==
  ASSUME IInv, NEW c \in Conns,
         \/ ev_accept_callback(c)
         \/ job_free(c)
         \/ job_dropped(c)
         \/ evserver_client_new(c)
         \/ evserver_client_new_fails(c)
         \/ evserver_client_release(c)
  PROVE  KeepsAll
<1> USE Kinds
<1>1. /\ TypeOK /\ HeldWhere /\ OneRecorder /\ ShutIsClosed
      /\ c \in Objects /\ c # Listener /\ Listener \in Objects
  BY DEF IInv
<1>2. pc' = pc /\ base' = base /\ server_ok' = server_ok /\ shut' = shut /\ left' \in Nat
  <2>1. UNCHANGED serverVars /\ (Fault \/ left' = left)
    BY DEF ev_accept_callback, job_free, job_dropped, evserver_client_new,
           evserver_client_new_fails, evserver_client_release
  <2>2. left \in Nat
    BY <1>1 DEF TypeOK
  <2> QED BY <2>1, <2>2, FaultsLeft DEF serverVars
<1>3. savePc' = savePc /\ owner' = owner
  BY DEF ev_accept_callback, job_free, job_dropped, evserver_client_new,
         evserver_client_new_fails, evserver_client_release
<1>4. OneRecorder'
  BY <1>1, <1>3 DEF OneRecorder, InRecord
<1>5. CASE ev_accept_callback(c)
  <2>1. fd[c] = NotHeld /\ open(c) /\ stage' = [stage EXCEPT ![c] = "job"] /\ final' = final
    BY <1>1, <1>5 DEF ev_accept_callback, HeldWhere
  <2>2. /\ table' \in [Fds -> Objects \cup {Closed}]
        /\ fd' \in [Objects -> Fds \cup {NotHeld}]
        /\ Leaked' \subseteq Leaked
        /\ fd'[c] \in Fds
        /\ table[fd'[c]] = Closed
        /\ table' = [table EXCEPT ![fd'[c]] = c]
        /\ \A p \in Objects \ {c} : fd'[p] = fd[p]
    BY <1>1, <2>1, Opens
  <2>3. TypeOK'
    BY <1>1, <1>2, <1>3, <2>1, <2>2 DEF TypeOK
  <2>4. HeldWhere'
    BY <1>1, <1>3, <2>1, <2>2 DEF HeldWhere, TypeOK
  <2>5. ShutIsClosed'
    BY <1>1, <1>2, <2>2, OthersOpen, ShutKeeps
  <2>6. \A p \in InUse' : p = c \/ (p \in InUse /\ fd'[p] = fd[p])
    BY <1>2, <2>2 DEF InUse
  <2>7. HeldIsOwn => HeldIsOwn'
    <3>1. PICK n \in Fds : n = fd'[c]
      BY <2>2
    <3>2. /\ table[n] = Closed /\ table' = [table EXCEPT ![n] = c]
          /\ \A p \in InUse' : (p = c /\ fd'[p] = n) \/ (p \in InUse /\ fd'[p] = fd[p])
      BY <3>1, <2>2, <2>6
    <3> QED BY ONLY <1>1, <3>2, n \in Fds, OpenKeepsOwn
  <2> QED BY <1>4, <2>2, <2>3, <2>4, <2>5, <2>7 DEF KeepsAll, IInv
<1>6. CASE evserver_client_new(c)
  <2>1. /\ table' = table /\ fd' = fd /\ final' = final
        /\ stage[c] = "job" /\ stage' = [stage EXCEPT ![c] = "client"]
    BY <1>6 DEF evserver_client_new
  <2>2. TypeOK'
    BY <1>1, <1>2, <1>3, <2>1 DEF TypeOK
  <2>3. HeldWhere'
    BY <1>1, <1>3, <2>1 DEF HeldWhere, TypeOK
  <2>4. ShutIsClosed' /\ Leaked' = Leaked
    BY <1>1, <1>2, <2>1 DEF ShutIsClosed, Leaked
  <2>5. HeldIsOwn => HeldIsOwn'
    BY <1>2, <2>1 DEF HeldIsOwn, InUse
  <2> QED BY <1>4, <2>2, <2>3, <2>4, <2>5 DEF KeepsAll, IInv
<1>7. CASE job_dropped(c)
  <2>1. /\ table' = table /\ fd' = [fd EXCEPT ![c] = NotHeld] /\ final' = final
        /\ stage[c] = "job" /\ stage' = [stage EXCEPT ![c] = "dropped"]
    BY <1>7 DEF job_dropped
  <2>2. /\ fd' \in [Objects -> Fds \cup {NotHeld}]
        /\ fd'[c] = NotHeld
        /\ \A p \in Objects \ {c} : fd'[p] = fd[p]
    BY <1>1, <2>1 DEF TypeOK
  <2>3. TypeOK'
    BY <1>1, <1>2, <1>3, <2>1, <2>2 DEF TypeOK
  <2>4. HeldWhere'
    BY <1>1, <1>3, <2>1, <2>2 DEF HeldWhere, TypeOK
  <2>5. ShutIsClosed'
    BY <1>1, <1>2, <2>1, <2>2, ShutKeeps
  <2>6. Loses
    BY <1>1, <2>1 DEF Loses, TypeOK
  <2>7. \A p \in InUse' : p \in InUse /\ fd'[p] = fd[p]
    BY <1>2, <2>2 DEF InUse
  <2>8. HeldIsOwn => HeldIsOwn'
    BY <2>1, <2>7, SameKeepsOwn
  <2> QED BY <1>4, <2>3, <2>4, <2>5, <2>6, <2>8 DEF KeepsAll, IInv
<1>8. CASE job_free(c) \/ evserver_client_new_fails(c) \/ evserver_client_release(c)
  <2>1. /\ close(c)
        /\ stage[c] \in {"job", "client"}
        /\ stage' = [stage EXCEPT ![c] = "gone"]
        /\ final' = final \/ final' = [final EXCEPT ![owner[c]] = Append(@, fd[c])]
    BY <1>8 DEF job_free, evserver_client_new_fails, evserver_client_release, bufferevent_free
  <2>2. /\ table' \in [Fds -> Objects \cup {Closed}]
        /\ fd' \in [Objects -> Fds \cup {NotHeld}]
        /\ Leaked' \subseteq Leaked
        /\ fd'[c] = NotHeld
        /\ \A m \in Fds : table'[m] # Closed => table'[m] = table[m]
        /\ \A p \in Objects \ {c} : fd'[p] = fd[p]
    BY <1>1, <2>1, Closes
  <2>3. fd[c] # NotHeld /\ fd[c] \in Fds
    BY <1>1, <2>1 DEF HeldWhere, TypeOK
  <2>4. final' \in [Workers -> Seq(Fds)]
    <3>1. owner[c] \in Workers /\ final[owner[c]] \in Seq(Fds)
      BY <1>1 DEF TypeOK
    <3>2. Append(final[owner[c]], fd[c]) \in Seq(Fds)
      BY <3>1, <2>3
    <3> QED BY <1>1, <2>1, <3>1, <3>2 DEF TypeOK
  <2>5. TypeOK'
    BY <1>1, <1>2, <1>3, <2>1, <2>2, <2>4 DEF TypeOK
  <2>6. HeldWhere'
    BY <1>1, <1>3, <2>1, <2>2 DEF HeldWhere, TypeOK
  <2>7. ShutIsClosed'
    BY <1>1, <1>2, <2>2, ShutKeeps
  <2>8. c \in InUse /\ InUse' \subseteq InUse \ {c}
    BY <1>1, <1>2, <2>2, <2>3 DEF InUse
  <2>9. HeldIsOwn => HeldIsOwn'
    BY <1>1, <2>1, <2>2, <2>8, CloseKeepsOwn DEF close
  <2> QED BY <1>4, <2>2, <2>5, <2>6, <2>7, <2>9 DEF KeepsAll, IInv
<1> QED BY <1>5, <1>6, <1>7, <1>8

(* The steps of a worker on its log file, and its finalizers. *)
LEMMA FileSteps ==
  ASSUME IInv, NEW w \in Workers,
         \/ be_socket_destruct(w)
         \/ skylog_save(w)
         \/ open_file(w)
         \/ open_file_no_handle(w)
         \/ file_close(w)
         \/ without_open(w)
  PROVE  KeepsAll
<1> USE Kinds
<1>1. /\ TypeOK /\ HeldWhere /\ OneRecorder /\ ShutIsClosed
      /\ w \in Objects /\ w # Listener /\ Listener \in Objects
  BY DEF IInv
<1>2. pc' = pc /\ base' = base /\ server_ok' = server_ok /\ shut' = shut /\ left' \in Nat
  <2>1. UNCHANGED serverVars /\ (Fault \/ left' = left)
    BY DEF be_socket_destruct, skylog_save, open_file, open_file_no_handle, file_close,
           without_open
  <2>2. left \in Nat
    BY <1>1 DEF TypeOK
  <2> QED BY <2>1, <2>2, FaultsLeft DEF serverVars
<1>3. stage' = stage /\ owner' = owner
  BY DEF be_socket_destruct, skylog_save, open_file, open_file_no_handle, file_close,
         without_open
<1>4. CASE be_socket_destruct(w)
  <2>1. /\ final[w] \in Seq(Fds)
        /\ final[w] # <<>>
        /\ final' = [final EXCEPT ![w] = Tail(@)]
        /\ table' = ClosedAt(Head(final[w]))
        /\ UNCHANGED <<fd, savePc>>
    BY <1>1, <1>4 DEF be_socket_destruct, TypeOK
  <2>2. Tail(final[w]) \in Seq(Fds) /\ Len(Tail(final[w])) < Len(final[w])
    BY <2>1
  <2>3. final' \in [Workers -> Seq(Fds)] /\ final'[w] = Tail(final[w])
    BY <1>1, <2>1, <2>2 DEF TypeOK
  <2>4. /\ table' \in [Fds -> Objects \cup {Closed}]
        /\ Leaked' \subseteq Leaked
        /\ \A m \in Fds : table'[m] # Closed => table'[m] = table[m]
    BY <1>1, <2>1, ClosesNumber
  <2>5. TypeOK'
    BY <1>1, <1>2, <1>3, <2>1, <2>3, <2>4 DEF TypeOK
  <2>6. HeldWhere' /\ OneRecorder'
    BY <1>1, <1>3, <2>1 DEF HeldWhere, OneRecorder, InRecord
  <2>7. ShutIsClosed'
    BY <1>1, <1>2, <2>1, <2>4, ShutKeeps
  <2>8. SecondClose
    BY <2>2, <2>3 DEF SecondClose
  <2> QED BY <2>4, <2>5, <2>6, <2>7, <2>8 DEF KeepsAll, IInv
<1>5. CASE skylog_save(w) \/ without_open(w)
  <2>1. /\ savePc[w] \in {"loop", "create", "clear", "open"}
        /\ \E s \in {"loop", "create", "clear", "open"} :
             savePc' = [savePc EXCEPT ![w] = s]
        /\ UNCHANGED <<table, fd, final>>
    BY <1>5 DEF skylog_save, without_open, InLoop, SaveGoto
  <2>2. TypeOK'
    BY <1>1, <1>2, <1>3, <2>1 DEF TypeOK, SavePcs
  <2>3. Leaked' = Leaked /\ ShutIsClosed'
    BY <1>1, <1>2, <2>1 DEF Leaked, ShutIsClosed
  <2>4. HeldWhere'
    BY <1>1, <1>3, <2>1 DEF HeldWhere, TypeOK
  <2>5. OneRecorder'
    BY <1>1, <2>1 DEF OneRecorder, InRecord, TypeOK
  <2>6. HeldIsOwn => HeldIsOwn'
    BY <1>2, <2>1 DEF HeldIsOwn, InUse
  <2> QED BY <2>2, <2>3, <2>4, <2>5, <2>6 DEF KeepsAll, IInv
<1>6. CASE open_file_no_handle(w)
  <2>1. /\ savePc[w] = "open"
        /\ \E s \in {"create", "loop"} : savePc' = [savePc EXCEPT ![w] = s]
        /\ open_without_handle(w)
        /\ final' = final
    <3>1. PICK s \in {<<"open", "create">>, <<"open", "loop">>} :
            savePc[w] = s[1] /\ savePc' = [savePc EXCEPT ![w] = s[2]]
      BY <1>6 DEF open_file_no_handle, SaveGoto
    <3>2. s[1] = "open" /\ s[2] \in {"create", "loop"}
      BY <3>1
    <3> QED BY <3>1, <3>2, <1>6 DEF open_file_no_handle
  <2>2. table' \in [Fds -> Objects \cup {Closed}] /\ fd' = fd
    BY <1>1, <2>1, OpensWithoutHandle
  <2>3. PICK n \in Fds : table[n] = Closed /\ table' = [table EXCEPT ![n] = w]
    BY <1>1, <2>1, OpensWithoutHandle
  <2>4. TypeOK'
    BY <1>1, <1>2, <1>3, <2>1, <2>2 DEF TypeOK, SavePcs
  <2>5. HeldWhere'
    BY <1>1, <1>3, <2>1, <2>2 DEF HeldWhere, TypeOK
  <2>6. OneRecorder'
    BY <1>1, <2>1 DEF OneRecorder, InRecord, TypeOK
  <2>7. ShutIsClosed'
    BY <1>1, <1>2, <2>2, <2>3, OthersOpen, ShutKeeps
  <2>8. Loses
    BY <1>1, <2>1 DEF Loses, TypeOK
  <2>9. \A p \in InUse' : p \in InUse /\ fd'[p] = fd[p]
    BY <1>2, <2>2 DEF InUse
  <2>10. HeldIsOwn => HeldIsOwn'
    BY <1>1, <2>3, <2>9, OpenKeepsOwn
  <2> QED BY <2>4, <2>5, <2>6, <2>7, <2>8, <2>10 DEF KeepsAll, IInv
<1>7. CASE open_file(w)
  <2>1. /\ savePc[w] \in {"create", "clear", "open"}
        /\ \E s \in {"created", "cleared", "write"} :
             savePc' = [savePc EXCEPT ![w] = s]
        /\ open(w)
        /\ final' = final
    <3>1. PICK s \in {<<"create", "created">>, <<"clear", "cleared">>, <<"open", "write">>} :
            savePc[w] = s[1] /\ savePc' = [savePc EXCEPT ![w] = s[2]]
      BY <1>7 DEF open_file, SaveGoto
    <3>2. s[1] \in {"create", "clear", "open"} /\ s[2] \in {"created", "cleared", "write"}
      BY <3>1
    <3> QED BY <3>1, <3>2, <1>7 DEF open_file
  <2>2. fd[w] = NotHeld
    BY <1>1, <2>1 DEF HeldWhere
  <2>3. /\ table' \in [Fds -> Objects \cup {Closed}]
        /\ fd' \in [Objects -> Fds \cup {NotHeld}]
        /\ Leaked' \subseteq Leaked
        /\ fd'[w] \in Fds
        /\ table[fd'[w]] = Closed
        /\ table' = [table EXCEPT ![fd'[w]] = w]
        /\ \A p \in Objects \ {w} : fd'[p] = fd[p]
    BY <1>1, <2>1, <2>2, Opens
  <2>4. TypeOK'
    <3>1. savePc' \in [Workers -> SavePcs]
      BY <1>1, <2>1 DEF TypeOK, SavePcs
    <3> QED BY <1>1, <1>2, <1>3, <2>1, <2>3, <3>1 DEF TypeOK
  <2>5. HeldWhere'
    <3>1. PICK s \in {"created", "cleared", "write"} :
            savePc' = [savePc EXCEPT ![w] = s]
      BY <2>1
    <3>2. savePc'[w] = s /\ \A v \in Workers \ {w} : savePc'[v] = savePc[v]
      BY <1>1, <3>1 DEF TypeOK
    <3>3. \A v \in Workers : fd'[v] = NotHeld <=> savePc'[v] \in {"loop", "create", "clear", "open"}
      BY <1>1, <2>3, <3>2 DEF HeldWhere
    <3>4. \A v \in Workers : savePc'[v] \in {"rec_create", "rec_open", "rec_created", "line"} =>
            savePc'[v] = savePc[v]
      BY <3>2
    <3> QED BY <1>1, <1>3, <2>1, <2>3, <3>3, <3>4 DEF HeldWhere
  <2>6. OneRecorder'
    BY <1>1, <2>1 DEF OneRecorder, InRecord, TypeOK
  <2>7. ShutIsClosed'
    BY <1>1, <1>2, <2>3, OthersOpen, ShutKeeps
  <2>8. \A p \in InUse' : p = w \/ (p \in InUse /\ fd'[p] = fd[p])
    BY <1>2, <2>3 DEF InUse
  <2>9. HeldIsOwn => HeldIsOwn'
    <3>1. PICK n \in Fds : n = fd'[w]
      BY <2>3
    <3>2. /\ table[n] = Closed /\ table' = [table EXCEPT ![n] = w]
          /\ \A p \in InUse' : (p = w /\ fd'[p] = n) \/ (p \in InUse /\ fd'[p] = fd[p])
      BY <3>1, <2>3, <2>8
    <3> QED BY ONLY <1>1, <3>2, n \in Fds, OpenKeepsOwn
  <2> QED BY <2>3, <2>4, <2>5, <2>6, <2>7, <2>9 DEF KeepsAll, IInv
<1>8. CASE file_close(w)
  <2>1. /\ savePc[w] \in {"created", "cleared", "write", "close"}
        /\ \E s \in {"loop", "create", "clear", "open"} :
             savePc' = [savePc EXCEPT ![w] = s]
        /\ close(w)
        /\ final' = final
    <3>1. PICK s \in {<<"created", "clear">>, <<"cleared", "open">>,
                <<"write", "create">>, <<"write", "loop">>, <<"close", "loop">>} :
            savePc[w] = s[1] /\ savePc' = [savePc EXCEPT ![w] = s[2]]
      BY <1>8 DEF file_close, SaveGoto
    <3>2. s[1] \in {"created", "cleared", "write", "close"} /\ s[2] \in {"loop", "create", "clear", "open"}
      BY <3>1
    <3> QED BY <3>1, <3>2, <1>8 DEF file_close
  <2>2. fd[w] # NotHeld
    BY <1>1, <2>1 DEF HeldWhere
  <2>3. /\ table' \in [Fds -> Objects \cup {Closed}]
        /\ fd' \in [Objects -> Fds \cup {NotHeld}]
        /\ Leaked' \subseteq Leaked
        /\ fd'[w] = NotHeld
        /\ \A m \in Fds : table'[m] # Closed => table'[m] = table[m]
        /\ \A p \in Objects \ {w} : fd'[p] = fd[p]
    BY <1>1, <2>1, Closes
  <2>4. TypeOK'
    BY <1>1, <1>2, <1>3, <2>1, <2>3 DEF TypeOK, SavePcs
  <2>5. HeldWhere'
    <3>1. PICK s \in {"loop", "create", "clear", "open"} :
            savePc' = [savePc EXCEPT ![w] = s]
      BY <2>1
    <3>2. savePc'[w] = s /\ \A v \in Workers \ {w} : savePc'[v] = savePc[v]
      BY <1>1, <3>1 DEF TypeOK
    <3>3. \A v \in Workers : fd'[v] = NotHeld <=> savePc'[v] \in {"loop", "create", "clear", "open"}
      BY <1>1, <2>3, <3>2 DEF HeldWhere
    <3>4. \A v \in Workers : savePc'[v] \in {"rec_create", "rec_open", "rec_created", "line"} =>
            savePc'[v] = savePc[v]
      BY <3>2
    <3> QED BY <1>1, <1>3, <2>1, <2>3, <3>3, <3>4 DEF HeldWhere
  <2>6. OneRecorder'
    BY <1>1, <2>1 DEF OneRecorder, InRecord, TypeOK
  <2>7. ShutIsClosed'
    BY <1>1, <1>2, <2>3, ShutKeeps
  <2>8. w \in InUse /\ InUse' \subseteq InUse \ {w}
    BY <1>1, <1>2, <2>2, <2>3 DEF InUse
  <2>9. HeldIsOwn => HeldIsOwn'
    BY <1>1, <2>1, <2>3, <2>8, CloseKeepsOwn DEF close
  <2> QED BY <2>3, <2>4, <2>5, <2>6, <2>7, <2>9 DEF KeepsAll, IInv
<1> QED BY <1>4, <1>5, <1>6, <1>7, <1>8

(* A step of the worker under the record's lock, when nobody else is: the  *)
(* places still say which numbers are held.                                *)
LEMMA RecordPlaces ==
  ASSUME IInv, NEW w \in Workers, \A v \in Workers \ {w} : ~InRecord(v),
         NEW s \in {"rec_create", "rec_created", "rec_open", "line", "close"},
         savePc[w] \in {"write", "rec_create", "rec_created", "rec_open", "line"},
         savePc' = [savePc EXCEPT ![w] = s],
         \A p \in Objects \ {Record} : fd'[p] = fd[p],
         s \in {"rec_create", "rec_open"} => fd'[Record] = NotHeld,
         s \in {"rec_created", "line"} => fd'[Record] # NotHeld,
         UNCHANGED stage
  PROVE  savePc' \in [Workers -> SavePcs] /\ HeldWhere' /\ OneRecorder'
<1>1. TypeOK /\ HeldWhere
  BY DEF IInv
<1>2. savePc' \in [Workers -> SavePcs]
  BY <1>1 DEF TypeOK, SavePcs
<1>3. savePc'[w] = s /\ \A v \in Workers \ {w} : savePc'[v] = savePc[v]
  BY <1>1 DEF TypeOK
<1>4. \A v \in Workers \ {w} : savePc'[v] \notin {"rec_create", "rec_created", "rec_open", "line"}
  BY <1>3 DEF InRecord
<1>5. OneRecorder'
  BY <1>4 DEF OneRecorder, InRecord
<1>6. \A v \in Workers : fd'[v] = NotHeld <=> savePc'[v] \in {"loop", "create", "clear", "open"}
  <2>1. \A v \in Workers : fd'[v] = fd[v]
    BY Kinds
  <2> QED BY <1>1, <1>3, <2>1 DEF HeldWhere
<1>7. \A c \in Conns : fd'[c] = NotHeld <=> stage'[c] \in {"none", "gone", "dropped"}
  <2>1. \A c \in Conns : fd'[c] = fd[c]
    BY Kinds
  <2> QED BY <1>1, <2>1 DEF HeldWhere
<1> QED BY <1>2, <1>3, <1>4, <1>5, <1>6, <1>7 DEF HeldWhere

(* The steps of a worker on the record file. *)
LEMMA RecordSteps ==
  ASSUME IInv, NEW w \in Workers,
         \/ skylog_record(w)
         \/ record_open(w)
         \/ record_open_no_handle(w)
         \/ record_without_open(w)
         \/ record_close(w)
  PROVE  KeepsAll
<1>1. /\ TypeOK /\ HeldWhere /\ OneRecorder /\ ShutIsClosed
      /\ Record \in Objects /\ Record # Listener /\ Listener \in Objects
  BY Kinds DEF IInv
<1>2. pc' = pc /\ base' = base /\ server_ok' = server_ok /\ shut' = shut /\ left' \in Nat
  <2>1. UNCHANGED serverVars /\ (Fault \/ left' = left)
    BY DEF skylog_record, record_open, record_open_no_handle, record_without_open, record_close
  <2>2. left \in Nat
    BY <1>1 DEF TypeOK
  <2> QED BY <2>1, <2>2, FaultsLeft DEF serverVars
<1>3. stage' = stage /\ owner' = owner /\ final' = final
  BY DEF skylog_record, record_open, record_open_no_handle, record_without_open, record_close
<1>4. \A v \in Workers \ {w} : ~InRecord(v)
  <2>1. CASE skylog_record(w)
    BY <2>1 DEF skylog_record, RecordUnlocked
  <2>2. CASE \/ record_open(w) \/ record_open_no_handle(w)
             \/ record_without_open(w) \/ record_close(w)
    <3>1. InRecord(w)
      BY <2>2 DEF record_open, record_open_no_handle, record_without_open, record_close, SaveGoto, InRecord
    <3> QED BY <1>1, <3>1 DEF OneRecorder
  <2> QED BY <2>1, <2>2
<1>5. ASSUME UNCHANGED <<table, fd>>,
             savePc[w] \in {"write", "rec_create", "rec_open", "line"},
             NEW s \in {"rec_create", "rec_open", "line", "close"},
             savePc' = [savePc EXCEPT ![w] = s],
             s \in {"rec_create", "rec_open"} => fd[Record] = NotHeld,
             s = "line" => fd[Record] # NotHeld
      PROVE  KeepsAll
  <2>1. savePc' \in [Workers -> SavePcs] /\ HeldWhere' /\ OneRecorder'
    BY <1>4, <1>5, <1>3, RecordPlaces
  <2>2. TypeOK' /\ Leaked' = Leaked /\ ShutIsClosed'
    BY <1>1, <1>5, <1>2, <1>3, <2>1 DEF TypeOK, Leaked, ShutIsClosed
  <2>3. HeldIsOwn => HeldIsOwn'
    BY <1>5, <1>2 DEF HeldIsOwn, InUse
  <2> QED BY <2>1, <2>2, <2>3 DEF KeepsAll, IInv
<1>6. ASSUME close(Record), fd[Record] # NotHeld,
             savePc[w] \in {"write", "rec_created", "line"},
             NEW s \in {"rec_create", "rec_open", "close"},
             savePc' = [savePc EXCEPT ![w] = s]
      PROVE  KeepsAll
  <2>1. /\ table' \in [Fds -> Objects \cup {Closed}]
        /\ fd' \in [Objects -> Fds \cup {NotHeld}]
        /\ Leaked' \subseteq Leaked
        /\ fd'[Record] = NotHeld
        /\ \A m \in Fds : table'[m] # Closed => table'[m] = table[m]
        /\ \A p \in Objects \ {Record} : fd'[p] = fd[p]
    BY <1>1, <1>6, Closes
  <2>2. savePc' \in [Workers -> SavePcs] /\ HeldWhere' /\ OneRecorder'
    BY <1>4, <1>6, <1>3, <2>1, RecordPlaces
  <2>3. TypeOK' /\ ShutIsClosed'
    <3>1. TypeOK'
      BY <1>1, <1>6, <1>2, <1>3, <2>1, <2>2 DEF TypeOK
    <3>2. ShutIsClosed'
      BY <1>1, <1>2, <2>1, Kinds, ShutKeeps
    <3> QED BY <3>1, <3>2
  <2>4. Record \in InUse /\ InUse' \subseteq InUse \ {Record}
    BY <1>1, <1>6, <1>2, <2>1 DEF InUse
  <2>5. HeldIsOwn => HeldIsOwn'
    BY <1>1, <1>6, <2>1, <2>4, CloseKeepsOwn DEF close
  <2> QED BY <2>1, <2>2, <2>3, <2>5 DEF KeepsAll, IInv
<1>7. CASE skylog_record(w)
  <2>1. CASE /\ fd[Record] # NotHeld
             /\ SaveGoto(w, {<<"write", "line">>})
             /\ UNCHANGED <<table, fd>>
    <3>1. savePc[w] = "write" /\ savePc' = [savePc EXCEPT ![w] = "line"]
      <4>1. PICK s \in {<<"write", "line">>} :
              savePc[w] = s[1] /\ savePc' = [savePc EXCEPT ![w] = s[2]]
        BY <2>1 DEF SaveGoto
      <4>2. s[1] = "write" /\ s[2] = "line"
        BY <4>1
      <4> QED BY <4>1, <4>2
    <3> QED BY <1>5, <1>7, <2>1, <3>1 DEF skylog_record
  <2>2. CASE /\ IF fd[Record] # NotHeld THEN close(Record) ELSE UNCHANGED <<table, fd>>
             /\ SaveGoto(w, {<<"write", "rec_create">>, <<"write", "close">>})
    <3>1. PICK s \in {"rec_create", "close"} :
            savePc[w] = "write" /\ savePc' = [savePc EXCEPT ![w] = s]
      <4>1. PICK s \in {<<"write", "rec_create">>, <<"write", "close">>} :
              savePc[w] = s[1] /\ savePc' = [savePc EXCEPT ![w] = s[2]]
        BY <2>2 DEF SaveGoto
      <4>2. s[1] = "write" /\ s[2] \in {"rec_create", "close"}
        BY <4>1
      <4> QED BY <4>1, <4>2
    <3>2. CASE fd[Record] = NotHeld
      BY <1>5, <1>7, <2>2, <3>1, <3>2 DEF skylog_record
    <3>3. CASE fd[Record] # NotHeld
      BY <1>6, <1>7, <2>2, <3>1, <3>3 DEF skylog_record
    <3> QED BY <3>2, <3>3
  <2> QED BY <1>7, <2>1, <2>2 DEF skylog_record
<1>8. CASE record_without_open(w)
  <2>1. PICK s \in {<<"rec_create", "rec_open">>, <<"rec_create", "close">>,
                    <<"rec_open", "close">>, <<"line", "close">>} :
          savePc[w] = s[1] /\ savePc' = [savePc EXCEPT ![w] = s[2]]
    BY <1>8 DEF record_without_open, SaveGoto
  <2>2. /\ s[1] \in {"rec_create", "rec_open", "line"}
        /\ s[2] \in {"rec_open", "close"}
        /\ s[2] = "rec_open" => s[1] = "rec_create"
    BY <2>1
  <2>3. s[2] = "rec_open" => fd[Record] = NotHeld
    BY <1>1, <2>1, <2>2 DEF HeldWhere
  <2> QED BY <1>5, <1>8, <2>1, <2>2, <2>3 DEF record_without_open
<1>9. CASE record_close(w)
  <2>1. PICK s \in {<<"rec_created", "rec_open">>, <<"line", "close">>} :
          savePc[w] = s[1] /\ savePc' = [savePc EXCEPT ![w] = s[2]]
    BY <1>9 DEF record_close, SaveGoto
  <2>2. s[1] \in {"rec_created", "line"} /\ s[2] \in {"rec_open", "close"}
    BY <2>1
  <2>3. fd[Record] # NotHeld
    BY <1>1, <2>1, <2>2 DEF HeldWhere
  <2> QED BY <1>6, <1>9, <2>1, <2>2, <2>3 DEF record_close
<1>10. CASE record_open(w)
  <2>1. PICK s \in {<<"rec_create", "rec_created">>, <<"rec_open", "line">>} :
          savePc[w] = s[1] /\ savePc' = [savePc EXCEPT ![w] = s[2]]
    BY <1>10 DEF record_open, SaveGoto
  <2>2. s[1] \in {"rec_create", "rec_open"} /\ s[2] \in {"rec_created", "line"}
    BY <2>1
  <2>3. fd[Record] = NotHeld
    BY <1>1, <2>1, <2>2 DEF HeldWhere
  <2>4. open(Record)
    BY <1>10 DEF record_open
  <2>5. /\ table' \in [Fds -> Objects \cup {Closed}]
        /\ fd' \in [Objects -> Fds \cup {NotHeld}]
        /\ Leaked' \subseteq Leaked
        /\ fd'[Record] \in Fds
        /\ table[fd'[Record]] = Closed
        /\ table' = [table EXCEPT ![fd'[Record]] = Record]
        /\ \A p \in Objects \ {Record} : fd'[p] = fd[p]
    BY <1>1, <2>3, <2>4, Opens
  <2>6. fd'[Record] # NotHeld
    BY <2>5, Kinds
  <2>7. savePc' \in [Workers -> SavePcs] /\ HeldWhere' /\ OneRecorder'
    BY <1>4, <1>3, <2>1, <2>2, <2>5, <2>6, RecordPlaces
  <2>8. TypeOK'
    BY <1>1, <1>2, <1>3, <2>5, <2>7 DEF TypeOK
  <2>9. ShutIsClosed'
    BY <1>1, <1>2, <2>5, OthersOpen, ShutKeeps
  <2>10. \A p \in InUse' : p = Record \/ (p \in InUse /\ fd'[p] = fd[p])
    BY <1>2, <2>5 DEF InUse
  <2>11. HeldIsOwn => HeldIsOwn'
    BY <1>1, <2>5, <2>10, OpenKeepsOwn
  <2> QED BY <2>5, <2>7, <2>8, <2>9, <2>11 DEF KeepsAll, IInv
<1>11. CASE record_open_no_handle(w)
  <2>1. /\ savePc[w] = "rec_open"
        /\ savePc' = [savePc EXCEPT ![w] = "close"]
        /\ open_without_handle(Record)
    <3>1. PICK s \in {<<"rec_open", "close">>} :
            savePc[w] = s[1] /\ savePc' = [savePc EXCEPT ![w] = s[2]]
      BY <1>11 DEF record_open_no_handle, SaveGoto
    <3>2. s[1] = "rec_open" /\ s[2] = "close"
      BY <3>1
    <3> QED BY <3>1, <3>2, <1>11 DEF record_open_no_handle
  <2>2. table' \in [Fds -> Objects \cup {Closed}] /\ fd' = fd
    BY <1>1, <2>1, OpensWithoutHandle
  <2>3. PICK n \in Fds : table[n] = Closed /\ table' = [table EXCEPT ![n] = Record]
    BY <1>1, <2>1, OpensWithoutHandle
  <2>4. savePc' \in [Workers -> SavePcs] /\ HeldWhere' /\ OneRecorder'
    BY <1>4, <1>3, <2>1, <2>2, RecordPlaces
  <2>5. TypeOK'
    BY <1>1, <1>2, <1>3, <2>2, <2>4 DEF TypeOK
  <2>6. ShutIsClosed'
    BY <1>1, <1>2, <2>2, <2>3, OthersOpen, ShutKeeps
  <2>7. Loses
    BY <1>1, <2>1 DEF Loses, TypeOK
  <2>8. \A p \in InUse' : p \in InUse /\ fd'[p] = fd[p]
    BY <1>2, <2>2 DEF InUse
  <2>9. HeldIsOwn => HeldIsOwn'
    BY <1>1, <2>3, <2>8, OpenKeepsOwn
  <2> QED BY <2>4, <2>5, <2>6, <2>7, <2>9 DEF KeepsAll, IInv
<1> QED BY <1>7, <1>8, <1>9, <1>10, <1>11

(* The steps of the monitor and of the accept threads on _server that      *)
(* neither open nor close nor forget: they move on.                        *)
LEMMA ServerMoves ==
  ASSUME IInv, UNCHANGED <<table, fd, stage, owner, final, savePc, shut>>,
         pc' \in [Servers -> CreatePcs \cup FactoryPcs \cup DestroyPcs],
         base' \in BOOLEAN, server_ok' \in BOOLEAN, Fault \/ left' = left
  PROVE  KeepsAll
<1>1. TypeOK' /\ HeldWhere' /\ OneRecorder' /\ ShutIsClosed' /\ Leaked' = Leaked
  <2>1. left' \in Nat
    BY FaultsLeft DEF IInv, TypeOK
  <2> QED BY <2>1 DEF IInv, TypeOK, HeldWhere, OneRecorder, InRecord, ShutIsClosed, Leaked
<1>2. HeldIsOwn => HeldIsOwn'
  BY DEF HeldIsOwn, InUse
<1> QED BY <1>1, <1>2 DEF KeepsAll, IInv

(* A close of listen_fd, by whichever thread: a second close, or one of a  *)
(* socket in use.                                                          *)
LEMMA ListenerCloses ==
  ASSUME IInv, table' = ClosedAt(fd[Listener]), shut' = TRUE,
         shut => SecondClose,
         UNCHANGED <<fd, stage, owner, final, savePc, base, server_ok>>,
         pc' \in [Servers -> CreatePcs \cup FactoryPcs \cup DestroyPcs],
         Fault \/ left' = left
  PROVE  KeepsAll
<1>1. TypeOK /\ left' \in Nat /\ Listener \in Objects
  BY FaultsLeft, Kinds DEF IInv, TypeOK
<1>2. table' \in [Fds -> Objects \cup {Closed}] /\ Leaked' \subseteq Leaked
  BY <1>1, ClosesNumber
<1>3. TypeOK' /\ HeldWhere' /\ OneRecorder'
  BY <1>1, <1>2 DEF IInv, TypeOK, HeldWhere, OneRecorder, InRecord
<1>4. ShutIsClosed'
  BY Kinds DEF ShutIsClosed, ClosedAt
<1>5. ASSUME ~shut, HeldIsOwn PROVE HeldIsOwn'
  <2>1. CASE fd[Listener] = NotHeld
    <3>1. table' = table
      BY <1>1, <2>1, Kinds DEF ClosedAt, TypeOK
    <3> QED BY <1>5, <3>1 DEF HeldIsOwn, InUse
  <2>2. CASE fd[Listener] # NotHeld
    <3>1. Listener \in InUse /\ InUse' \subseteq InUse \ {Listener}
      BY <1>1, <1>5, <2>2 DEF InUse
    <3> QED BY <1>1, <1>5, <3>1, CloseKeepsOwn
  <2> QED BY <2>1, <2>2
<1> QED BY <1>2, <1>3, <1>4, <1>5 DEF KeepsAll, IInv

(* listen_fd becomes -1: a loss, unless it was closed and is the same      *)
(* number still.                                                           *)
LEMMA ListenerForgotten ==
  ASSUME IInv, fd' = [fd EXCEPT ![Listener] = NotHeld], shut' = FALSE,
         shut \/ Loses,
         UNCHANGED <<table, stage, owner, final, savePc, base, server_ok>>,
         pc' \in [Servers -> CreatePcs \cup FactoryPcs \cup DestroyPcs],
         Fault \/ left' = left
  PROVE  KeepsAll
<1>1. TypeOK /\ left' \in Nat /\ Listener \in Objects
  BY FaultsLeft, Kinds DEF IInv, TypeOK
<1>2. /\ fd' \in [Objects -> Fds \cup {NotHeld}]
      /\ fd'[Listener] = NotHeld
      /\ \A p \in Objects \ {Listener} : fd'[p] = fd[p]
  BY <1>1 DEF TypeOK
<1>3. TypeOK' /\ OneRecorder' /\ ShutIsClosed'
  BY <1>1, <1>2 DEF IInv, TypeOK, OneRecorder, InRecord, ShutIsClosed
<1>4. HeldWhere'
  <2>1. /\ \A c \in Conns : fd'[c] = fd[c]
        /\ \A w \in Workers : fd'[w] = fd[w]
        /\ fd'[Record] = fd[Record]
    BY <1>2, Kinds
  <2> QED BY <2>1 DEF IInv, HeldWhere
<1>5. ASSUME shut PROVE Leaked' \subseteq Leaked
  <2> SUFFICES ASSUME NEW m \in Fds, table[m] # Closed, fd'[table[m]] # m
               PROVE  fd[table[m]] # m
    BY DEF Leaked
  <2>1. table[m] \in Objects
    BY <1>1 DEF TypeOK
  <2>2. CASE table[m] = Listener
    BY <1>5, <2>2 DEF IInv, ShutIsClosed
  <2>3. CASE table[m] # Listener
    BY <1>2, <2>1, <2>3
  <2> QED BY <2>2, <2>3
<1>6. \A p \in InUse' : p \in InUse /\ fd'[p] = fd[p]
  BY <1>2 DEF InUse
<1>7. HeldIsOwn => HeldIsOwn'
  BY <1>6, SameKeepsOwn
<1> QED BY <1>3, <1>4, <1>5, <1>7 DEF KeepsAll, IInv

(* Moving a thread of the server keeps the type of pc. *)
LEMMA GotoType ==
  ASSUME TypeOK, NEW p \in Servers, NEW from, NEW to, Goto(p, from, to),
         to \in CreatePcs \cup FactoryPcs \cup DestroyPcs
  PROVE  /\ pc[p] = from /\ pc'[p] = to
         /\ pc' \in [Servers -> CreatePcs \cup FactoryPcs \cup DestroyPcs]
BY DEF Goto, TypeOK

(* The steps of the monitor in evserver_create. *)
LEMMA MonitorSteps ==
  ASSUME IInv,
         \/ repeat_init \/ create_base \/ evserver_socket_create
         \/ add_accept_event \/ create_accept_thread
  PROVE  KeepsAll
<1> USE DEF CreatePcs, FactoryPcs, DestroyPcs
<1>1. TypeOK /\ Monitor \in Servers /\ Listener \in Objects
  BY Kinds DEF IInv, Servers
<1>2. CASE repeat_init
  <2>1. pc' \in [Servers -> CreatePcs \cup FactoryPcs \cup DestroyPcs]
    BY <1>1, <1>2, GotoType DEF repeat_init
  <2> QED BY <1>1, <1>2, <2>1, ServerMoves DEF repeat_init, NotServer, TypeOK
<1>3. CASE create_base
  <2>1. pc' \in [Servers -> CreatePcs \cup FactoryPcs \cup DestroyPcs]
    BY <1>1, <1>3, GotoType DEF create_base
  <2> QED BY <1>1, <1>3, <2>1, ServerMoves DEF create_base, NotServer, NoFault, TypeOK
<1>4. CASE create_accept_thread
  <2>1. pc' \in [Servers -> CreatePcs \cup FactoryPcs \cup DestroyPcs]
    <3>1. CASE Goto(Monitor, "thread", "check")
      BY <1>1, <3>1, GotoType
    <3>2. CASE \E t \in Acceptors : pc' = [pc EXCEPT ![Monitor] = "check", ![t] = "start"]
      BY <1>1, <3>2 DEF TypeOK
    <3> QED BY <1>4, <3>1, <3>2 DEF create_accept_thread
  <2>2. Fault \/ left' = left
    BY <1>4 DEF create_accept_thread, NoFault
  <2> QED BY <1>1, <1>4, <2>1, <2>2, ServerMoves DEF create_accept_thread, NotServer, TypeOK
<1>5. CASE add_accept_event
  <2>1. CASE Goto(Monitor, "add", "thread") /\ UNCHANGED <<table, shut>> /\ NoFault
    <3>1. pc' \in [Servers -> CreatePcs \cup FactoryPcs \cup DestroyPcs]
      BY <1>1, <2>1, GotoType
    <3> QED BY <1>1, <1>5, <2>1, <3>1, ServerMoves DEF add_accept_event, NotServer, NoFault, TypeOK
  <2>2. CASE /\ Fault
             /\ Goto(Monitor, "add", "destroy")
             /\ table' = ClosedAt(fd[Listener])
             /\ shut' = TRUE
    <3>1. /\ pc[Monitor] = "add" /\ pc'[Monitor] = "destroy"
          /\ pc' \in [Servers -> CreatePcs \cup FactoryPcs \cup DestroyPcs]
      BY <1>1, <2>2, GotoType
    <3>2. shut => SecondClose
      BY <3>1 DEF SecondClose
    <3> QED BY <1>5, <2>2, <3>1, <3>2, ListenerCloses DEF add_accept_event, NotServer
  <2> QED BY <1>5, <2>1, <2>2 DEF add_accept_event
<1>6. CASE evserver_socket_create
  <2>1. CASE PortFree /\ open(Listener) /\ Goto(Monitor, "socket", "add") /\ NoFault
    <3>1. pc' \in [Servers -> CreatePcs \cup FactoryPcs \cup DestroyPcs]
      BY <1>1, <2>1, GotoType
    <3>2. shut' = FALSE /\ left' = left
          /\ UNCHANGED <<base, server_ok, stage, owner, final, savePc>>
      BY <1>6, <2>1 DEF evserver_socket_create, NotServer, NoFault
    <3>3. /\ table' \in [Fds -> Objects \cup {Closed}]
          /\ fd' \in [Objects -> Fds \cup {NotHeld}]
          /\ Leaked' \subseteq Leaked
          /\ fd'[Listener] \in Fds
          /\ table[fd'[Listener]] = Closed
          /\ table' = [table EXCEPT ![fd'[Listener]] = Listener]
          /\ \A p \in Objects \ {Listener} : fd'[p] = fd[p]
      BY <1>1, <2>1, Opens DEF PortFree
    <3>4. TypeOK' /\ OneRecorder' /\ ShutIsClosed'
      BY <1>1, <3>1, <3>2, <3>3 DEF IInv, TypeOK, OneRecorder, InRecord, ShutIsClosed
    <3>5. HeldWhere'
      <4>1. /\ \A c \in Conns : fd'[c] = fd[c]
            /\ \A w \in Workers : fd'[w] = fd[w]
            /\ fd'[Record] = fd[Record]
        BY <3>3, Kinds
      <4> QED BY <3>2, <4>1 DEF IInv, HeldWhere
    <3>6. \A p \in InUse' : p = Listener \/ (p \in InUse /\ fd'[p] = fd[p])
      BY <3>2, <3>3 DEF InUse
    <3>7. HeldIsOwn => HeldIsOwn'
      BY <1>1, <3>3, <3>6, OpenKeepsOwn
    <3> QED BY <3>3, <3>4, <3>5, <3>7 DEF KeepsAll, IInv
  <2>2. CASE /\ IF PortFree /\ Unused # {} THEN Fault ELSE NoFault
             /\ fd' = [fd EXCEPT ![Listener] = NotHeld]
             /\ Goto(Monitor, "socket", "destroy")
             /\ UNCHANGED table
    <3>1. /\ pc[Monitor] = "socket" /\ pc'[Monitor] = "destroy"
          /\ pc' \in [Servers -> CreatePcs \cup FactoryPcs \cup DestroyPcs]
      BY <1>1, <2>2, GotoType
    <3>2. Loses
      BY <3>1 DEF Loses
    <3>3. Fault \/ left' = left
      BY <2>2 DEF NoFault
    <3> QED BY <1>6, <2>2, <3>1, <3>2, <3>3, ListenerForgotten DEF evserver_socket_create, NotServer
  <2> QED BY <1>6, <2>1, <2>2 DEF evserver_socket_create
<1> QED BY <1>2, <1>3, <1>4, <1>5, <1>6

(* The steps of an accept thread outside evserver_destroy. *)
LEMMA FactorySteps ==
  ASSUME IInv, NEW t \in Acceptors,
         factory_start(t) \/ leave_loop(t) \/ factory_ended(t)
  PROVE  KeepsAll
<1> USE DEF CreatePcs, FactoryPcs, DestroyPcs
<1>1. TypeOK /\ t \in Servers
  BY DEF IInv, Servers
<1>2. \E from, to \in CreatePcs \cup FactoryPcs \cup DestroyPcs : Goto(t, from, to)
  BY DEF factory_start, leave_loop, factory_ended
<1>3. pc' \in [Servers -> CreatePcs \cup FactoryPcs \cup DestroyPcs]
  BY <1>1, <1>2, GotoType
<1> QED BY <1>1, <1>3, ServerMoves DEF factory_start, leave_loop, factory_ended, NotServer, TypeOK

(* The steps of evserver_destroy, by whichever thread. *)
LEMMA DestroySteps ==
  ASSUME IInv, NEW p \in Servers, evserver_destroy(p)
  PROVE  KeepsAll
<1> USE DEF CreatePcs, FactoryPcs, DestroyPcs
<1>1. TypeOK /\ AfterDestroy(p) \in CreatePcs \cup FactoryPcs
  BY DEF IInv, AfterDestroy
<1>2. CASE destroy_test(p)
  <2>1. \E from, to \in CreatePcs \cup FactoryPcs \cup DestroyPcs : Goto(p, from, to)
    BY <1>1, <1>2 DEF destroy_test
  <2>2. pc' \in [Servers -> CreatePcs \cup FactoryPcs \cup DestroyPcs]
    BY <1>1, <2>1, GotoType
  <2> QED BY <1>1, <1>2, <2>2, ServerMoves DEF destroy_test, NotServer, TypeOK
<1>3. CASE destroy_close(p)
  <2>1. /\ pc[p] = "close" /\ pc'[p] = "forget"
        /\ pc' \in [Servers -> CreatePcs \cup FactoryPcs \cup DestroyPcs]
    BY <1>1, <1>3, GotoType DEF destroy_close
  <2>2. shut => SecondClose
    BY <2>1 DEF SecondClose
  <2> QED BY <1>3, <2>1, <2>2, ListenerCloses DEF destroy_close, NotServer
<1>4. CASE destroy_reset(p)
  <2>1. CASE /\ Goto(p, "forget", "null")
             /\ fd' = [fd EXCEPT ![Listener] = NotHeld]
             /\ shut' = FALSE
             /\ UNCHANGED <<base, server_ok>>
    <3>1. /\ pc[p] = "forget" /\ pc'[p] = "null"
          /\ pc' \in [Servers -> CreatePcs \cup FactoryPcs \cup DestroyPcs]
      BY <1>1, <2>1, GotoType
    <3>2. shut \/ Loses
      BY <3>1 DEF Loses
    <3> QED BY <1>4, <2>1, <3>1, <3>2, ListenerForgotten DEF destroy_reset, NotServer
  <2>2. CASE \/ /\ Goto(p, "null", "status") /\ base' = FALSE
                /\ UNCHANGED <<fd, server_ok, shut>>
             \/ /\ Goto(p, "status", AfterDestroy(p))
                /\ server_ok' = FALSE
                /\ UNCHANGED <<fd, base, shut>>
    <3>1. pc' \in [Servers -> CreatePcs \cup FactoryPcs \cup DestroyPcs]
      BY <1>1, <2>2, GotoType
    <3> QED BY <1>1, <1>4, <2>2, <3>1, ServerMoves DEF destroy_reset, NotServer, TypeOK
  <2> QED BY <1>4, <2>1, <2>2 DEF destroy_reset
<1> QED BY <1>2, <1>3, <1>4 DEF evserver_destroy

(* The inductive step: every action of every thread. *)
LEMMA StepKeepsAll == ASSUME IInv, [Next]_vars PROVE KeepsAll
<1>1. CASE Next
  BY <1>1, ConnectionSteps, FileSteps, RecordSteps, MonitorSteps, FactorySteps, DestroySteps DEF Next
<1>2. CASE UNCHANGED vars
  <2>1. UNCHANGED <<table, fd, stage, owner, final, savePc, pc, base, server_ok, shut, left>>
    BY <1>2 DEF vars, serverVars
  <2> QED BY <2>1, ServerMoves DEF IInv, TypeOK
<1> QED BY <1>1, <1>2

(* The process starts without descriptors of its own. *)
LEMMA InitIInv == Init => IInv
<1> SUFFICES ASSUME Init PROVE IInv
  OBVIOUS
<1>1. TypeOK
  <2>1. pc \in [Servers -> CreatePcs \cup FactoryPcs \cup DestroyPcs]
    BY DEF Init, CreatePcs, FactoryPcs
  <2>2. table \in [Fds -> Objects \cup {Closed}] /\ fd \in [Objects -> Fds \cup {NotHeld}]
    BY DEF Init
  <2>3. savePc \in [Workers -> SavePcs] /\ final \in [Workers -> Seq(Fds)]
    BY DEF Init, SavePcs
  <2>4. left \in Nat
    BY NumFdsAssumption DEF Init
  <2> QED BY <2>1, <2>2, <2>3, <2>4 DEF Init, TypeOK
<1>2. HeldWhere
  BY Kinds DEF Init, HeldWhere
<1>3. OneRecorder /\ ShutIsClosed
  BY DEF Init, OneRecorder, InRecord, ShutIsClosed
<1> QED BY <1>1, <1>2, <1>3 DEF IInv

(* The inductive invariant of Descriptors holds throughout. *)
THEOREM IInvCorrect == Spec => []IInv
<1>1. IInv /\ [Next]_vars => IInv'
  BY StepKeepsAll DEF KeepsAll
<1> QED BY <1>1, InitIInv, PTL DEF Spec

(* Every variable of Descriptors keeps its type. *)
THEOREM TypeCorrect == Spec => []TypeOK
<1>1. IInv => TypeOK
  BY DEF IInv
<1> QED BY <1>1, IInvCorrect, PTL

(* A descriptor is left open without a holder only by the failures that    *)
(* Loses names: no memory for a file's handle after the open, none for the *)
(* copy of a job, listen_fd overwritten by a new attempt while the old     *)
(* socket is open, or reset by evserver_destroy after another thread has   *)
(* made a new one.  Every other exit of create_file, clear_file,           *)
(* skylog_save, skylog_record, evserver_client_new, evserver_create and    *)
(* evserver_destroy closes what was opened.                                *)
THEOREM OnlyFailuresLeak == Spec => OnlyFailuresLose
<1>1. IInv /\ [Next]_vars => [Leaked' \subseteq Leaked \/ Loses]_vars
  BY StepKeepsAll DEF KeepsAll
<1> QED BY <1>1, IInvCorrect, PTL DEF Spec, OnlyFailuresLose

(* Only the close of a bufferevent's finalizer, after                      *)
(* evserver_client_release has closed the connection, and a second close   *)
(* of listen_fd, after a failed event_add or by two threads in             *)
(* evserver_destroy, can close a descriptor that another part of the       *)
(* program holds.                                                          *)
THEOREM OnlySecondCloses == Spec => OnlySecondClosesHurt
<1>1. IInv /\ [Next]_vars => [HeldIsOwn => HeldIsOwn' \/ SecondClose]_vars
  BY StepKeepsAll DEF KeepsAll
<1> QED BY <1>1, IInvCorrect, PTL DEF Spec, OnlySecondClosesHurt

==============================================================================
