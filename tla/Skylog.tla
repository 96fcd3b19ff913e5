------------------------------- MODULE Skylog -------------------------------
(***************************************************************************)
(* Several workers save uploads at the same time (sky_log.c,               *)
(* skylog_record.c, file.c): each makes the directories of its upload      *)
(* under _skylog_lock, creates, truncates, opens and writes its file, up   *)
(* to three times, and records the path of the file in the record file of  *)
(* the day under _skylog_record_lock.                                      *)
(*                                                                         *)
(* Every system call whose outcome another thread or a fault can change is *)
(* an action.  A file is its length in blocks of 1024 bytes.  A file name  *)
(* holds the serial number and the microsecond, and is taken to be fresh.  *)
(***************************************************************************)
EXTENDS Integers, Sequences, FiniteSets

CONSTANTS
  Savers,    \* worker threads, each with one upload
  Nobody,    \* holder of a free lock
  DirOf,     \* per saver, the names on the path of its upload's directory
  Blocks,    \* blocks of an upload
  MaxTries,  \* attempts of skylog_save (3)
  LastDay,   \* bound on the calendar: days 1 .. LastDay
  Faults     \* the calls that may fail

FaultKinds == {"mkdir", "create", "clear", "open", "calloc", "write", "record"}

ASSUME NobodyAssumption == Nobody \notin Savers
ASSUME DirOfAssumption == DOMAIN DirOf = Savers
ASSUME SizesAssumption == /\ Blocks \in Nat \ {0}
                          /\ MaxTries \in Nat \ {0}
                          /\ LastDay \in Nat \ {0}
ASSUME FaultsAssumption == Faults \subseteq FaultKinds

Absent == -1   \* length of a file that does not exist
NoDay == 0     \* no record file: an empty name, a NULL handle

VARIABLES
  pc,           \* per saver, the next call it makes
  tries,        \* per saver, i + 1 of skylog_save's loop
  level,        \* per saver, the directory create_dir looks at
  named,        \* per saver, skylog->file_path is set
  f,            \* per saver, skylog->f is not NULL
  fds,          \* per saver, descriptors it opened and did not close
  lost,         \* per saver, descriptors for which it got no handle
  size,         \* per saver, length of the file at file_path
  kept,         \* per saver, what a truncation that failed left in its file
  written,      \* per saver, offset of write_file
  ret,          \* per saver, what skylog_save returns
  savedOn,      \* per saver, the day on which its file was complete
  dirs,         \* directories that exist, as paths
  dirLock,      \* holder of _skylog_lock
  recLock,      \* holder of _skylog_record_lock
  today,        \* the date GetSystemUTCTime gives
  recName,      \* the day in _skylog_record_filename
  recFile,      \* the day of the file behind _skylog_record_f
  records       \* per day, whose lines are in its file, in order, torn ones too

saverVars == <<tries, level, named, f, fds, lost, size, kept, written, ret, savedOn>>
recVars == <<recLock, recName, recFile, records>>
vars == <<pc, saverVars, dirs, dirLock, recVars, today>>

Pcs == {"idle", "create", "lock", "access", "mkdir", "create_file", "clear_file",
        "open_file", "write_file", "write_finish", "record", "record_open",
        "record_write", "finish", "done"}

Init ==
  /\ pc = [s \in Savers |-> "idle"]
  /\ tries = [s \in Savers |-> 0]
  /\ level = [s \in Savers |-> 0]
  /\ named = [s \in Savers |-> FALSE]
  /\ f = [s \in Savers |-> FALSE]
  /\ fds = [s \in Savers |-> 0]
  /\ lost = [s \in Savers |-> 0]
  /\ size = [s \in Savers |-> Absent]
  /\ kept = [s \in Savers |-> 0]
  /\ written = [s \in Savers |-> 0]
  /\ ret = [s \in Savers |-> "none"]
  /\ savedOn = [s \in Savers |-> NoDay]
  /\ dirs = {}
  /\ dirLock = Nobody
  /\ recLock = Nobody
  /\ today = 1
  /\ recName = NoDay
  /\ recFile = NoDay
  /\ records = [d \in 1 .. LastDay |-> <<>>]

May(kind) == kind \in Faults

Goto(s, from, to) ==
  /\ pc[s] = from
  /\ pc' = [pc EXCEPT ![s] = to]

-----------------------------------------------------------------------------
(* skylog_save: the upload's file. *)

skylog_save(s) ==
  /\ Goto(s, "idle", "create")
  /\ tries' = [tries EXCEPT ![s] = 1]
  /\ UNCHANGED <<level, named, f, fds, lost, size, kept, written, ret, savedOn, dirs, dirLock, recVars, today>>

(* A file that was named before is used again if it exists or can be       *)
(* created; otherwise the upload gets a new name, in a directory that is   *)
(* looked for first.                                                       *)
create_and_open_skylog_file(s) ==
  /\ \/ /\ named[s]
        /\ Goto(s, "create", "clear_file")
        /\ size' = [size EXCEPT ![s] = IF @ = Absent THEN 0 ELSE @]
     \/ /\ ~named[s] \/ (size[s] = Absent /\ May("create"))
        /\ Goto(s, "create", "lock")
        /\ UNCHANGED size
  /\ UNCHANGED <<tries, level, named, f, fds, lost, kept, written, ret, savedOn, dirs, dirLock, recVars, today>>

(* Mutant: _skylog_lock is not taken. *)
lock_not_taken(s) ==
  /\ Goto(s, "lock", "access")
  /\ level' = [level EXCEPT ![s] = 1]
  /\ UNCHANGED <<tries, named, f, fds, lost, size, kept, written, ret, savedOn, dirs, dirLock, recVars, today>>

lock_skylog(s) ==
  /\ dirLock = Nobody
  /\ dirLock' = s
  /\ Goto(s, "lock", "access")
  /\ level' = [level EXCEPT ![s] = 1]
  /\ UNCHANGED <<tries, named, f, fds, lost, size, kept, written, ret, savedOn, dirs, recVars, today>>

Dir(s) == SubSeq(DirOf[s], 1, level[s])

(* create_dir looks at each directory on the path; when all are there the  *)
(* lock is released and the file gets its name.                            *)
create_dir(s) ==
  /\ \/ /\ level[s] > Len(DirOf[s])
        /\ Goto(s, "access", "create_file")
        /\ dirLock' = Nobody
        /\ named' = [named EXCEPT ![s] = TRUE]
        /\ size' = [size EXCEPT ![s] = Absent]
        /\ UNCHANGED level
     \/ /\ level[s] <= Len(DirOf[s]) /\ Dir(s) \in dirs
        /\ Goto(s, "access", "access")
        /\ level' = [level EXCEPT ![s] = @ + 1]
        /\ UNCHANGED <<dirLock, named, size>>
     \/ /\ level[s] <= Len(DirOf[s]) /\ Dir(s) \notin dirs
        /\ Goto(s, "access", "mkdir")
        /\ UNCHANGED <<dirLock, named, size, level>>
  /\ UNCHANGED <<tries, f, fds, lost, kept, written, ret, savedOn, dirs, recVars, today>>

(* Mutant: the failing branch returns without unlocking. *)
mkdir_keeps_lock(s) ==
  /\ pc[s] = "mkdir"
  /\ \/ /\ Dir(s) \notin dirs
        /\ Goto(s, "mkdir", "access")
        /\ dirs' = dirs \cup {Dir(s)}
        /\ level' = [level EXCEPT ![s] = @ + 1]
     \/ /\ Dir(s) \in dirs \/ May("mkdir")
        /\ Goto(s, "mkdir", "write_finish")
        /\ UNCHANGED <<dirs, level>>
  /\ UNCHANGED <<dirLock, tries, named, f, fds, lost, size, kept, written, ret, savedOn, recVars, today>>

(* mkdir(2) fails on a directory that exists by now; then create_dir is    *)
(* false, the lock is released and the attempt has failed.                 *)
mkdir(s) ==
  /\ pc[s] = "mkdir"
  /\ \/ /\ Dir(s) \notin dirs
        /\ Goto(s, "mkdir", "access")
        /\ dirs' = dirs \cup {Dir(s)}
        /\ level' = [level EXCEPT ![s] = @ + 1]
        /\ UNCHANGED dirLock
     \/ /\ Dir(s) \in dirs \/ May("mkdir")
        /\ Goto(s, "mkdir", "write_finish")
        /\ dirLock' = Nobody
        /\ UNCHANGED <<dirs, level>>
  /\ UNCHANGED <<tries, named, f, fds, lost, size, kept, written, ret, savedOn, recVars, today>>

create_file(s) ==
  /\ \/ /\ Goto(s, "create_file", "clear_file")
        /\ size' = [size EXCEPT ![s] = 0]
     \/ /\ May("create")
        /\ Goto(s, "create_file", "write_finish")
        /\ UNCHANGED size
  /\ UNCHANGED <<tries, level, named, f, fds, lost, kept, written, ret, savedOn, dirs, dirLock, recVars, today>>

(* Mutant: the file is not truncated. *)
clear_file_missing(s) ==
  /\ Goto(s, "clear_file", "open_file")
  /\ UNCHANGED <<saverVars, dirs, dirLock, recVars, today>>

(* O_TRUNC; the result of clear_file is ignored, and the file is written   *)
(* from its end on.                                                        *)
clear_file(s) ==
  /\ Goto(s, "clear_file", "open_file")
  /\ \E n \in {0, size[s]} :
       /\ n > 0 => May("clear")
       /\ kept' = [kept EXCEPT ![s] = n]
       /\ size' = [size EXCEPT ![s] = n]
  /\ UNCHANGED <<tries, level, named, f, fds, lost, written, ret, savedOn, dirs, dirLock, recVars, today>>

(* open(2) and the calloc of the handle; without the handle the descriptor *)
(* stays open.                                                             *)
open_file(s) ==
  /\ \/ /\ Goto(s, "open_file", "write_file")
        /\ f' = [f EXCEPT ![s] = TRUE]
        /\ fds' = [fds EXCEPT ![s] = @ + 1]
        /\ UNCHANGED lost
     \/ /\ May("open")
        /\ Goto(s, "open_file", "write_finish")
        /\ UNCHANGED <<f, fds, lost>>
     \/ /\ May("calloc")
        /\ Goto(s, "open_file", "write_finish")
        /\ fds' = [fds EXCEPT ![s] = @ + 1]
        /\ lost' = [lost EXCEPT ![s] = @ + 1]
        /\ UNCHANGED f
  /\ written' = [written EXCEPT ![s] = 0]
  /\ UNCHANGED <<tries, level, named, size, kept, ret, savedOn, dirs, dirLock, recVars, today>>

(* One write(2), at the end of the file; a short or failed one ends the    *)
(* attempt and may leave part of a block.                                  *)
write_file(s) ==
  /\ \/ /\ size' = [size EXCEPT ![s] = @ + 1]
        /\ written' = [written EXCEPT ![s] = @ + 1]
        /\ \/ written[s] + 1 < Blocks /\ Goto(s, "write_file", "write_file") /\ UNCHANGED savedOn
           \/ /\ written[s] + 1 >= Blocks
              /\ Goto(s, "write_file", "record")
              /\ savedOn' = [savedOn EXCEPT ![s] = today]
     \/ /\ May("write")
        /\ Goto(s, "write_file", "write_finish")
        /\ size' \in {size, [size EXCEPT ![s] = @ + 1]}
        /\ UNCHANGED <<written, savedOn>>
  /\ UNCHANGED <<tries, level, named, f, fds, lost, kept, ret, dirs, dirLock, recVars, today>>

(* Mutant: skylog->f keeps the closed handle. *)
close_keeps_handle(s) ==
  /\ fds' = [fds EXCEPT ![s] = IF f[s] THEN @ - 1 ELSE @]
  /\ UNCHANGED f

(* file_close(skylog->f); skylog->f = NULL *)
Close(s) ==
  /\ f' = [f EXCEPT ![s] = FALSE]
  /\ fds' = [fds EXCEPT ![s] = IF f[s] THEN @ - 1 ELSE @]

(* Mutant: the handle is dropped, not closed. *)
write_finish_without_close(s) ==
  /\ f' = [f EXCEPT ![s] = FALSE]
  /\ \/ /\ tries[s] < MaxTries
        /\ Goto(s, "write_finish", "create")
        /\ tries' = [tries EXCEPT ![s] = @ + 1]
        /\ UNCHANGED ret
     \/ /\ tries[s] >= MaxTries
        /\ Goto(s, "write_finish", "finish")
        /\ ret' = [ret EXCEPT ![s] = "false"]
        /\ UNCHANGED tries
  /\ UNCHANGED <<fds, lost, level, named, size, kept, written, savedOn, dirs, dirLock, recVars, today>>

(* The failed attempt's file is closed, and another attempt made. *)
write_finish(s) ==
  /\ Close(s)
  /\ \/ /\ tries[s] < MaxTries
        /\ Goto(s, "write_finish", "create")
        /\ tries' = [tries EXCEPT ![s] = @ + 1]
        /\ UNCHANGED ret
     \/ /\ tries[s] >= MaxTries
        /\ Goto(s, "write_finish", "finish")
        /\ ret' = [ret EXCEPT ![s] = "false"]
        /\ UNCHANGED tries
  /\ UNCHANGED <<level, named, lost, size, kept, written, savedOn, dirs, dirLock, recVars, today>>

-----------------------------------------------------------------------------
(* skylog_record: the record file of the day. *)

lock_record(s) ==
  /\ recLock = Nobody
  /\ recLock' = s
  /\ Goto(s, "record", "record_open")
  /\ UNCHANGED <<saverVars, dirs, dirLock, recName, recFile, records, today>>

(* _skylog_record_exit, unlock, and skylog_save returns true all the same. *)
RecordFails(s, from) ==
  /\ May("record")
  /\ recName' = NoDay
  /\ recFile' = NoDay
  /\ recLock' = Nobody
  /\ Goto(s, from, "finish")
  /\ ret' = [ret EXCEPT ![s] = "true"]

(* Mutant: a file that is open is used whatever its day. *)
record_open_any_day(s) ==
  /\ \/ /\ recName' = IF recFile = NoDay THEN today ELSE recName
        /\ recFile' = IF recFile = NoDay THEN today ELSE recFile
        /\ Goto(s, "record_open", "record_write")
        /\ UNCHANGED <<recLock, ret>>
     \/ RecordFails(s, "record_open")
  /\ UNCHANGED <<tries, level, named, f, fds, lost, size, kept, written, savedOn, dirs, dirLock, records, today>>

(* The file of the day stays open; another is opened for another day.      *)
skylog_record_create_and_open_file(s) ==
  /\ \/ /\ recName' = today
        /\ recFile' = IF recName = today /\ recFile # NoDay THEN recFile ELSE today
        /\ Goto(s, "record_open", "record_write")
        /\ UNCHANGED <<recLock, ret>>
     \/ RecordFails(s, "record_open")
  /\ UNCHANGED <<tries, level, named, f, fds, lost, size, kept, written, savedOn, dirs, dirLock, records, today>>

(* The line is written and the loop of skylog_save is left.  A write that  *)
(* fails may leave a part of the line, at which the next line then starts. *)
skylog_record_write(s) ==
  /\ \/ /\ records' = [records EXCEPT ![recFile] = Append(@, s)]
        /\ recLock' = Nobody
        /\ Goto(s, "record_write", "finish")
        /\ ret' = [ret EXCEPT ![s] = "true"]
        /\ UNCHANGED <<recName, recFile>>
     \/ /\ RecordFails(s, "record_write")
        /\ records' \in {records, [records EXCEPT ![recFile] = Append(@, s)]}
  /\ UNCHANGED <<tries, level, named, f, fds, lost, size, kept, written, savedOn, dirs, dirLock, today>>

skylog_save_finished(s) ==
  /\ Goto(s, "finish", "done")
  /\ Close(s)
  /\ UNCHANGED <<tries, level, named, lost, size, kept, written, ret, savedOn, dirs, dirLock, recVars, today>>

new_day ==
  /\ today < LastDay
  /\ today' = today + 1
  /\ UNCHANGED <<pc, saverVars, dirs, dirLock, recVars>>

-----------------------------------------------------------------------------
SaveFile(s) ==
  \/ create_and_open_skylog_file(s)
  \/ lock_skylog(s)
  \/ create_dir(s)
  \/ mkdir(s)
  \/ create_file(s)
  \/ clear_file(s)
  \/ open_file(s)
  \/ write_file(s)
  \/ write_finish(s)

Record(s) ==
  \/ lock_record(s)
  \/ skylog_record_create_and_open_file(s)
  \/ skylog_record_write(s)

Continue(s) == SaveFile(s) \/ Record(s) \/ skylog_save_finished(s)

Next ==
  \/ \E s \in Savers : skylog_save(s) \/ Continue(s)
  \/ new_day

Spec == Init /\ [][Next]_vars

(* A thread that has started a save goes on with it. *)
FairSpec == Spec /\ \A s \in Savers : WF_vars(Continue(s))

-----------------------------------------------------------------------------
(* Properties. *)

(* Every variable keeps its type; in particular closing never outruns      *)
(* opening.                                                                *)
TypeOK ==
  /\ pc \in [Savers -> Pcs]
  /\ tries \in [Savers -> 0 .. MaxTries]
  /\ level \in [Savers -> Nat]
  /\ named \in [Savers -> BOOLEAN]
  /\ f \in [Savers -> BOOLEAN]
  /\ fds \in [Savers -> Nat]
  /\ lost \in [Savers -> Nat]
  /\ size \in [Savers -> Nat \cup {Absent}]
  /\ kept \in [Savers -> Nat]
  /\ written \in [Savers -> Nat]
  /\ ret \in [Savers -> {"none", "true", "false"}]
  /\ savedOn \in [Savers -> {NoDay} \cup (1 .. LastDay)]
  /\ dirLock \in Savers \cup {Nobody}
  /\ recLock \in Savers \cup {Nobody}
  /\ today \in 1 .. LastDay
  /\ recName \in {NoDay} \cup (1 .. LastDay)
  /\ recFile \in {NoDay} \cup (1 .. LastDay)
  /\ records \in [1 .. LastDay -> Seq(Savers)]

(* Between create_dir's look at a directory and its mkdir nobody else      *)
(* makes it: no upload loses an attempt because another upload of the same *)
(* device came at the same time.                                           *)
MkdirUncontended == \A s \in Savers : pc[s] = "mkdir" => Dir(s) \notin dirs

(* skylog_save returns true only when the file holds the upload and no     *)
(* remains of an earlier attempt before it, but for what a truncation that *)
(* failed has left there.                                                  *)
SavedIsWhole ==
  \A s \in Savers :
    ret[s] = "true" => size[s] = kept[s] + Blocks /\ (kept[s] > 0 => May("clear"))

(* The lines of saver s in all record files, whole or torn. *)
LinesOf(s) == UNION {{d} \X {i \in DOMAIN records[d] : records[d][i] = s} : d \in 1 .. LastDay}

(* An upload that is recorded is whole, and has one line only, be it torn  *)
(* by a failing write, in the file of a day between its completion and     *)
(* now, however the day changes between the choice of the file and the     *)
(* write.                                                                  *)
RecordedOnceInItsDay ==
  \A s \in Savers :
    /\ Cardinality(LinesOf(s)) <= 1
    /\ \A l \in LinesOf(s) : /\ size[s] = kept[s] + Blocks
                             /\ savedOn[s] <= l[1] /\ l[1] <= today

(* After skylog_save_finished no descriptor of the upload is open,         *)
(* whichever of the attempts failed, but those whose file_t could not be   *)
(* allocated: these are never closed.                                      *)
DescriptorsReturned == \A s \in Savers : pc[s] = "done" => fds[s] = lost[s]

(* What makes the above inductive.  Each lock is held wherever the code    *)
(* between lock and unlock is.                                             *)
LocksHeld ==
  \A s \in Savers : /\ pc[s] \in {"access", "mkdir"} => dirLock = s
                    /\ pc[s] \in {"record_open", "record_write"} => recLock = s

(* The record file is open where a line is about to be written.            *)
RecordOpen == \A s \in Savers : pc[s] = "record_write" => recFile # NoDay

(* skylog->f stands for the one descriptor that can still be closed, and   *)
(* is NULL before and after the writes.                                    *)
HandleCounted ==
  \A s \in Savers :
    /\ f[s] => fds[s] = lost[s] + 1
    /\ ~f[s] => fds[s] = lost[s]
    /\ f[s] => pc[s] \in {"write_file", "write_finish", "record", "record_open",
                          "record_write", "finish"}

(* Each attempt starts on a file that is empty, or as long as a failed     *)
(* truncation left it, and has written all its blocks when it goes on to   *)
(* the record.                                                             *)
WholeAt(s) ==
  /\ kept[s] > 0 => May("clear")
  /\ pc[s] = "clear_file" => size[s] # Absent
  /\ pc[s] = "open_file" => size[s] = kept[s]
  /\ pc[s] = "write_file" => size[s] = kept[s] + written[s] /\ written[s] < Blocks
  /\ pc[s] \in {"record", "record_open", "record_write"} => size[s] = kept[s] + Blocks
  /\ ret[s] = "true" => pc[s] \in {"finish", "done"} /\ size[s] = kept[s] + Blocks

WholeSoFar == \A s \in Savers : WholeAt(s)

IInv ==
  /\ TypeOK
  /\ LocksHeld
  /\ MkdirUncontended
  /\ RecordOpen
  /\ HandleCounted
  /\ WholeSoFar

(* A save that began ends, whatever fails: no lock is left held.           *)
SaveEnds == \A s \in Savers : (pc[s] = "create") ~> (pc[s] = "done")
=============================================================================
