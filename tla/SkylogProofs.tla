---------------------------- MODULE SkylogProofs ----------------------------
(***************************************************************************)
(* Proofs about Skylog, for any number of savers, any directories, any     *)
(* sizes and numbers of attempts, and any set of faults that a theorem     *)
(* does not exclude.                                                       *)
(***************************************************************************)
EXTENDS Skylog, FiniteSetTheorems, TLAPS

(* The initial state satisfies the inductive invariant.                    *)
LEMMA InitIInv == Init => IInv
<1> SUFFICES ASSUME Init PROVE IInv
  OBVIOUS
<1>1. TypeOK
  BY SizesAssumption DEF Init, TypeOK, Pcs, Absent, NoDay
<1>2. /\ LocksHeld /\ MkdirUncontended /\ RecordOpen /\ HandleCounted /\ WholeSoFar
  BY DEF Init, LocksHeld, MkdirUncontended, RecordOpen, HandleCounted, WholeSoFar, WholeAt
<1> QED
  BY <1>1, <1>2 DEF IInv

(* The values the steps assign are of the right type.                      *)
LEMMA Typed ==
  ASSUME TypeOK, NEW s \in Savers
  PROVE  /\ level[s] + 1 \in Nat
         /\ written[s] + 1 \in Nat
         /\ fds[s] + 1 \in Nat
         /\ lost[s] + 1 \in Nat
         /\ fds[s] > 0 => fds[s] - 1 \in Nat
         /\ 1 \in 0 .. MaxTries
         /\ tries[s] < MaxTries => tries[s] + 1 \in 0 .. MaxTries
         /\ size[s] + 1 \in Nat
<1>1. /\ level[s] \in Nat /\ written[s] \in Nat /\ fds[s] \in Nat /\ lost[s] \in Nat
      /\ tries[s] \in 0 .. MaxTries /\ size[s] \in Nat \cup {-1}
  BY DEF TypeOK, Absent
<1> QED
  BY <1>1, SizesAssumption

(* A step of a saver assigns values of the right type.  Variable by        *)
(* variable: what the steps may assign to it, and that its type holds it.  *)
LEMMA TypeStep ==
  ASSUME IInv, NEW s \in Savers, skylog_save(s) \/ Continue(s)
  PROVE  TypeOK'
<1>0. TypeOK /\ RecordOpen /\ HandleCounted /\ WholeSoFar
  BY DEF IInv
<1> USE DEF Continue, SaveFile, Record, skylog_save, create_and_open_skylog_file, lock_skylog,
            create_dir, mkdir, create_file, clear_file, open_file, write_file, write_finish,
            lock_record, skylog_record_create_and_open_file, skylog_record_write,
            skylog_save_finished, Close, RecordFails, saverVars, recVars
<1>1. pc' \in [Savers -> Pcs]
  <2>1. \E to \in Pcs : pc' = [pc EXCEPT ![s] = to]
    BY DEF Goto, Pcs
  <2> QED
    BY ONLY <1>0, <2>1, s \in Savers DEF TypeOK
<1>2. tries' \in [Savers -> 0 .. MaxTries]
  <2>1. \/ tries' = tries
        \/ tries' = [tries EXCEPT ![s] = 1]
        \/ tries[s] < MaxTries /\ tries' = [tries EXCEPT ![s] = @ + 1]
    OBVIOUS
  <2>2. tries \in [Savers -> 0 .. MaxTries] /\ 1 \in 0 .. MaxTries /\ (tries[s] < MaxTries => tries[s] + 1 \in 0 .. MaxTries)
    BY ONLY <1>0, s \in Savers, Typed DEF TypeOK
  <2> QED
    BY ONLY <2>1, <2>2, s \in Savers
<1>3. level' \in [Savers -> Nat]
  <2>1. \/ level' = level
        \/ level' = [level EXCEPT ![s] = 1]
        \/ level' = [level EXCEPT ![s] = @ + 1]
    OBVIOUS
  <2>2. level \in [Savers -> Nat] /\ level[s] + 1 \in Nat
    BY ONLY <1>0, s \in Savers, Typed DEF TypeOK
  <2> QED
    BY ONLY <2>1, <2>2, s \in Savers
<1>4. named' \in [Savers -> BOOLEAN]
  <2>1. \/ named' = named
        \/ named' = [named EXCEPT ![s] = TRUE]
    OBVIOUS
  <2> QED
    BY ONLY <1>0, <2>1, s \in Savers DEF TypeOK
<1>5. f' \in [Savers -> BOOLEAN]
  <2>1. \/ f' = f
        \/ f' = [f EXCEPT ![s] = TRUE]
        \/ f' = [f EXCEPT ![s] = FALSE]
    OBVIOUS
  <2> QED
    BY ONLY <1>0, <2>1, s \in Savers DEF TypeOK
<1>6. fds' \in [Savers -> Nat]
  <2>1. \/ fds' = fds
        \/ fds' = [fds EXCEPT ![s] = @ + 1]
        \/ fds' = [fds EXCEPT ![s] = IF f[s] THEN @ - 1 ELSE @]
    OBVIOUS
  <2>a. fds \in [Savers -> Nat] /\ lost[s] \in Nat /\ (f[s] => fds[s] = lost[s] + 1)
    BY ONLY <1>0, s \in Savers DEF TypeOK, HandleCounted
  <2>2. fds \in [Savers -> Nat] /\ fds[s] + 1 \in Nat /\ (f[s] => fds[s] - 1 \in Nat)
    BY ONLY <2>a, s \in Savers
  <2> QED
    BY ONLY <2>1, <2>2, s \in Savers
<1>15. lost' \in [Savers -> Nat]
  <2>1. \/ lost' = lost
        \/ lost' = [lost EXCEPT ![s] = @ + 1]
    OBVIOUS
  <2>2. lost \in [Savers -> Nat] /\ lost[s] + 1 \in Nat
    BY ONLY <1>0, s \in Savers, Typed DEF TypeOK
  <2> QED
    BY ONLY <2>1, <2>2, s \in Savers
<1>7. size' \in [Savers -> Nat \cup {Absent}]
  <2>1. \/ size' = size
        \/ size' = [size EXCEPT ![s] = 0]
        \/ size' = [size EXCEPT ![s] = Absent]
        \/ size' = [size EXCEPT ![s] = @ + 1]
        \/ size' = [size EXCEPT ![s] = IF @ = Absent THEN 0 ELSE @]
        \/ size' = [size EXCEPT ![s] = size[s]]
    OBVIOUS
  <2>2. size \in [Savers -> Nat \cup {Absent}] /\ size[s] + 1 \in Nat
    BY ONLY <1>0, s \in Savers, Typed DEF TypeOK
  <2> QED
    BY ONLY <2>1, <2>2, s \in Savers
<1>16. kept' \in [Savers -> Nat]
  <2>1. \/ kept' = kept
        \/ kept' = [kept EXCEPT ![s] = 0]
        \/ pc[s] = "clear_file" /\ kept' = [kept EXCEPT ![s] = size[s]]
    BY DEF Goto
  <2>2. kept \in [Savers -> Nat] /\ (pc[s] = "clear_file" => size[s] \in Nat)
    BY ONLY <1>0, s \in Savers DEF TypeOK, WholeSoFar, WholeAt
  <2> QED
    BY ONLY <2>1, <2>2, s \in Savers
<1>8. written' \in [Savers -> Nat]
  <2>1. \/ written' = written
        \/ written' = [written EXCEPT ![s] = 0]
        \/ written' = [written EXCEPT ![s] = @ + 1]
    OBVIOUS
  <2>2. written \in [Savers -> Nat] /\ written[s] + 1 \in Nat
    BY ONLY <1>0, s \in Savers, Typed DEF TypeOK
  <2> QED
    BY ONLY <2>1, <2>2, s \in Savers
<1>9. ret' \in [Savers -> {"none", "true", "false"}]
  <2>1. \/ ret' = ret
        \/ ret' = [ret EXCEPT ![s] = "true"]
        \/ ret' = [ret EXCEPT ![s] = "false"]
    OBVIOUS
  <2> QED
    BY ONLY <1>0, <2>1, s \in Savers DEF TypeOK
<1>10. savedOn' \in [Savers -> {NoDay} \cup (1 .. LastDay)]
  <2>1. \/ savedOn' = savedOn
        \/ savedOn' = [savedOn EXCEPT ![s] = today]
    OBVIOUS
  <2> QED
    BY ONLY <1>0, <2>1, s \in Savers DEF TypeOK
<1>11. dirLock' \in Savers \cup {Nobody} /\ recLock' \in Savers \cup {Nobody}
  <2>1. dirLock' \in {dirLock, s, Nobody} /\ recLock' \in {recLock, s, Nobody}
    OBVIOUS
  <2> QED
    BY ONLY <1>0, <2>1, s \in Savers DEF TypeOK
<1>12. today' \in 1 .. LastDay
  <2>1. today' = today
    OBVIOUS
  <2> QED
    BY ONLY <1>0, <2>1, s \in Savers DEF TypeOK
<1>13. /\ recName' \in {NoDay} \cup (1 .. LastDay)
       /\ recFile' \in {NoDay} \cup (1 .. LastDay)
  <2>1. recName' \in {recName, NoDay, today} /\ recFile' \in {recFile, NoDay, today}
    OBVIOUS
  <2> QED
    BY ONLY <1>0, <2>1, s \in Savers DEF TypeOK
<1>14. records' \in [1 .. LastDay -> Seq(Savers)]
  <2>1. \/ records' = records
        \/ recFile # NoDay /\ records' = [records EXCEPT ![recFile] = Append(@, s)]
    BY <1>0 DEF Goto, RecordOpen
  <2>2. recFile # NoDay => recFile \in 1 .. LastDay /\ Append(records[recFile], s) \in Seq(Savers)
    BY ONLY <1>0, s \in Savers DEF TypeOK
  <2> QED
    BY ONLY <1>0, <2>1, <2>2 DEF TypeOK
<1> QED
  BY ONLY <1>1, <1>2, <1>3, <1>4, <1>5, <1>6, <1>7, <1>8, <1>9, <1>10, <1>11, <1>12, <1>13, <1>14, <1>15, <1>16 DEF TypeOK

(* A saver that a step leaves alone keeps its part of WholeSoFar.           *)
LEMMA WholeOthers ==
  ASSUME NEW t \in Savers, WholeAt(t),
         pc'[t] = pc[t], size'[t] = size[t], kept'[t] = kept[t],
         written'[t] = written[t], ret'[t] = ret[t]
  PROVE  WholeAt(t)'
  BY DEF WholeAt, May

(* Before the first write little is asked of the file.                     *)
LEMMA WholeBefore ==
  ASSUME NEW t \in Savers, ret'[t] # "true", kept'[t] > 0 => May("clear"),
         \/ pc'[t] \in {"create", "lock", "access", "mkdir", "create_file", "write_finish", "finish"}
         \/ pc'[t] = "clear_file" /\ size'[t] # Absent
         \/ pc'[t] = "open_file" /\ size'[t] = kept'[t]
  PROVE  WholeAt(t)'
  BY DEF WholeAt, May

(* The steps that make directories preserve the inductive invariant: while *)
(* one saver is between the look at a directory and its mkdir, the lock    *)
(* keeps every other saver away from dirs.                                 *)
LEMMA DirStep ==
  ASSUME IInv, NEW s \in Savers,
         \/ lock_skylog(s) \/ create_dir(s) \/ mkdir(s)
  PROVE  IInv'
<1>0. /\ TypeOK /\ LocksHeld /\ MkdirUncontended /\ RecordOpen /\ HandleCounted
      /\ WholeSoFar
  BY DEF IInv
<1>t. TypeOK'
  BY TypeStep DEF Continue, SaveFile, Record
<1>1. CASE lock_skylog(s)
  <2> USE <1>0, <1>1 DEF TypeOK, lock_skylog, Goto, recVars
  <2>1. LocksHeld'
    BY NobodyAssumption DEF LocksHeld, recVars
  <2>2. MkdirUncontended'
    BY NobodyAssumption DEF LocksHeld, MkdirUncontended, Dir
  <2>3. RecordOpen'
    BY DEF LocksHeld, RecordOpen, recVars, NoDay
  <2>4. HandleCounted'
    BY DEF HandleCounted, May, saverVars
  <2>5. WholeSoFar'
    BY SizesAssumption DEF WholeSoFar, WholeAt, May, saverVars
  <2> QED
    BY <1>t, <2>1, <2>2, <2>3, <2>4, <2>5 DEF IInv, WholeSoFar
<1>2. CASE create_dir(s)
  <2> USE <1>0, <1>2 DEF TypeOK, create_dir, Goto, recVars
  <2>1. LocksHeld'
    <3>1. /\ pc[s] = "access" /\ recLock' = recLock
          /\ \/ dirLock' = Nobody /\ pc' = [pc EXCEPT ![s] = "create_file"]
             \/ dirLock' = dirLock /\ pc' = [pc EXCEPT ![s] = "access"]
             \/ dirLock' = dirLock /\ pc' = [pc EXCEPT ![s] = "mkdir"]
      OBVIOUS
    <3> QED
      BY ONLY <1>0, <3>1, NobodyAssumption, s \in Savers DEF TypeOK, LocksHeld
  <2>2. MkdirUncontended'
    BY NobodyAssumption DEF LocksHeld, MkdirUncontended, Dir
  <2>3. RecordOpen'
    BY DEF LocksHeld, RecordOpen, recVars, NoDay
  <2>4. HandleCounted'
    BY DEF HandleCounted, May, saverVars
  <2>5. ASSUME NEW t \in Savers PROVE WholeAt(t)'
    <3>1. WholeAt(t)
      BY <2>5 DEF WholeSoFar
    <3>2. CASE t # s
      BY <3>1, <3>2, WholeOthers
    <3>3. CASE t = s
      <4>1. ret[s] # "true" /\ (kept[s] > 0 => May("clear"))
        BY <3>1, <3>3 DEF WholeAt
      <4>2. /\ ret'[s] # "true" /\ (kept'[s] > 0 => May("clear"))
            /\ pc'[s] \in {"access", "mkdir", "create_file"}
        BY <4>1 DEF Absent
      <4> QED
        BY ONLY <3>3, <4>2, WholeBefore, s \in Savers
    <3> QED
      BY <3>2, <3>3
  <2> QED
    BY <1>t, <2>1, <2>2, <2>3, <2>4, <2>5 DEF IInv, WholeSoFar
<1>3. CASE mkdir(s)
  <2> USE <1>0, <1>3 DEF TypeOK, mkdir, Goto, recVars
  <2>1. LocksHeld'
    BY NobodyAssumption DEF LocksHeld, recVars
  <2>2. MkdirUncontended'
    BY NobodyAssumption DEF LocksHeld, MkdirUncontended, Dir
  <2>3. RecordOpen'
    BY DEF LocksHeld, RecordOpen, recVars, NoDay
  <2>4. HandleCounted'
    BY DEF HandleCounted, May, saverVars
  <2>5. WholeSoFar'
    BY SizesAssumption DEF WholeSoFar, WholeAt, May, saverVars
  <2> QED
    BY <1>t, <2>1, <2>2, <2>3, <2>4, <2>5 DEF IInv, WholeSoFar
<1> QED
  BY <1>1, <1>2, <1>3

(* The steps that create, truncate, open, write and close a file preserve  *)
(* the inductive invariant; none of them touches a directory or a lock.    *)
LEMMA FileStep ==
  ASSUME IInv, NEW s \in Savers,
         \/ skylog_save(s) \/ create_and_open_skylog_file(s) \/ create_file(s)
         \/ clear_file(s) \/ open_file(s) \/ write_file(s)
         \/ write_finish(s) \/ skylog_save_finished(s)
  PROVE  IInv'
<1>0. /\ TypeOK /\ LocksHeld /\ MkdirUncontended /\ RecordOpen /\ HandleCounted
      /\ WholeSoFar
  BY DEF IInv
<1>t. TypeOK'
  BY TypeStep DEF Continue, SaveFile, Record
<1>1. CASE skylog_save(s)
  <2> USE <1>0, <1>1 DEF TypeOK, skylog_save, Goto, recVars
  <2>1. LocksHeld'
    BY NobodyAssumption DEF LocksHeld, recVars
  <2>2. MkdirUncontended'
    BY NobodyAssumption DEF LocksHeld, MkdirUncontended, Dir
  <2>3. RecordOpen'
    BY DEF LocksHeld, RecordOpen, recVars, NoDay
  <2>4. HandleCounted'
    BY DEF HandleCounted, May, saverVars
  <2>5. WholeSoFar'
    BY SizesAssumption DEF WholeSoFar, WholeAt, May, saverVars
  <2> QED
    BY <1>t, <2>1, <2>2, <2>3, <2>4, <2>5 DEF IInv, WholeSoFar
<1>2. CASE create_and_open_skylog_file(s)
  <2> USE <1>0, <1>2 DEF TypeOK, create_and_open_skylog_file, Goto, recVars
  <2>1. LocksHeld'
    BY NobodyAssumption DEF LocksHeld, recVars
  <2>2. MkdirUncontended'
    BY NobodyAssumption DEF LocksHeld, MkdirUncontended, Dir
  <2>3. RecordOpen'
    BY DEF LocksHeld, RecordOpen, recVars, NoDay
  <2>4. HandleCounted'
    BY DEF HandleCounted, May, saverVars
  <2>5. ASSUME NEW t \in Savers PROVE WholeAt(t)'
    <3>1. WholeAt(t)
      BY <2>5 DEF WholeSoFar
    <3>2. CASE t # s
      BY <3>1, <3>2, WholeOthers
    <3>3. CASE t = s
      <4>1. ret[s] # "true" /\ (kept[s] > 0 => May("clear"))
        BY <3>1, <3>3 DEF WholeAt
      <4>2. /\ ret'[s] # "true" /\ (kept'[s] > 0 => May("clear"))
            /\ pc'[s] = "lock" \/ (pc'[s] = "clear_file" /\ size'[s] # Absent)
        <5>1. /\ ret' = ret /\ kept' = kept
              /\ \/ pc' = [pc EXCEPT ![s] = "lock"]
                 \/ /\ pc' = [pc EXCEPT ![s] = "clear_file"]
                    /\ size' = [size EXCEPT ![s] = IF @ = Absent THEN 0 ELSE @]
          OBVIOUS
        <5> QED
          BY ONLY <1>0, <4>1, <5>1, s \in Savers DEF TypeOK, Absent
      <4> QED
        BY ONLY <3>3, <4>2, WholeBefore, s \in Savers
    <3> QED
      BY <3>2, <3>3
  <2> QED
    BY <1>t, <2>1, <2>2, <2>3, <2>4, <2>5 DEF IInv, WholeSoFar
<1>3. CASE create_file(s)
  <2> USE <1>0, <1>3 DEF TypeOK, create_file, Goto, recVars
  <2>1. LocksHeld'
    BY NobodyAssumption DEF LocksHeld, recVars
  <2>2. MkdirUncontended'
    BY NobodyAssumption DEF LocksHeld, MkdirUncontended, Dir
  <2>3. RecordOpen'
    BY DEF LocksHeld, RecordOpen, recVars, NoDay
  <2>4. HandleCounted'
    BY DEF HandleCounted, May, saverVars
  <2>5. ASSUME NEW t \in Savers PROVE WholeAt(t)'
    <3>1. WholeAt(t)
      BY <2>5 DEF WholeSoFar
    <3>2. CASE t # s
      BY <3>1, <3>2, WholeOthers
    <3>3. CASE t = s
      <4>1. ret[s] # "true" /\ (kept[s] > 0 => May("clear"))
        BY <3>1, <3>3 DEF WholeAt
      <4>2. /\ ret'[s] # "true" /\ (kept'[s] > 0 => May("clear"))
            /\ pc'[s] = "write_finish" \/ (pc'[s] = "clear_file" /\ size'[s] # Absent)
        BY <4>1 DEF Absent
      <4> QED
        BY ONLY <3>3, <4>2, WholeBefore, s \in Savers
    <3> QED
      BY <3>2, <3>3
  <2> QED
    BY <1>t, <2>1, <2>2, <2>3, <2>4, <2>5 DEF IInv, WholeSoFar
<1>4. CASE clear_file(s)
  <2> USE <1>0, <1>4 DEF TypeOK, clear_file, Goto, recVars
  <2>1. LocksHeld'
    BY NobodyAssumption DEF LocksHeld, recVars
  <2>2. MkdirUncontended'
    BY NobodyAssumption DEF LocksHeld, MkdirUncontended, Dir
  <2>3. RecordOpen'
    BY DEF LocksHeld, RecordOpen, recVars, NoDay
  <2>4. HandleCounted'
    BY DEF HandleCounted, May, saverVars
  <2>5. ASSUME NEW t \in Savers PROVE WholeAt(t)'
    <3>1. WholeAt(t)
      BY <2>5 DEF WholeSoFar
    <3>2. CASE t # s
      BY <3>1, <3>2, WholeOthers
    <3>3. CASE t = s
      <4>1. ret[s] # "true" /\ (kept[s] > 0 => May("clear"))
        BY <3>1, <3>3 DEF WholeAt
      <4>2. /\ ret'[s] # "true" /\ (kept'[s] > 0 => May("clear"))
            /\ pc'[s] = "open_file" /\ size'[s] = kept'[s]
        BY <4>1 DEF Absent
      <4> QED
        BY ONLY <3>3, <4>2, WholeBefore, s \in Savers
    <3> QED
      BY <3>2, <3>3
  <2> QED
    BY <1>t, <2>1, <2>2, <2>3, <2>4, <2>5 DEF IInv, WholeSoFar
<1>5. CASE open_file(s)
  <2> USE <1>0, <1>5 DEF TypeOK, open_file, Goto, recVars
  <2>1. LocksHeld'
    BY NobodyAssumption DEF LocksHeld, recVars
  <2>2. MkdirUncontended'
    BY NobodyAssumption DEF LocksHeld, MkdirUncontended, Dir
  <2>3. RecordOpen'
    BY DEF LocksHeld, RecordOpen, recVars, NoDay
  <2>4. HandleCounted'
    <3> SUFFICES ASSUME NEW t \in Savers
                 PROVE  /\ f'[t] => fds'[t] = lost'[t] + 1
                        /\ ~f'[t] => fds'[t] = lost'[t]
                        /\ f'[t] => pc'[t] \in {"write_file", "write_finish", "record",
                                                "record_open", "record_write", "finish"}
      BY DEF HandleCounted
    <3>1. CASE t # s
      BY <3>1 DEF HandleCounted
    <3>2. CASE t = s
      <4>1. ~f[s] /\ fds[s] = lost[s] /\ fds[s] \in Nat
        BY <3>2 DEF HandleCounted
      <4>2. \/ f'[s] = TRUE /\ fds'[s] = fds[s] + 1 /\ lost'[s] = lost[s] /\ pc'[s] = "write_file"
            \/ f'[s] = f[s] /\ fds'[s] = fds[s] /\ lost'[s] = lost[s]
            \/ f'[s] = f[s] /\ fds'[s] = fds[s] + 1 /\ lost'[s] = lost[s] + 1
        OBVIOUS
      <4> QED
        BY ONLY <3>2, <4>1, <4>2
    <3> QED
      BY <3>1, <3>2
  <2>5. ASSUME NEW t \in Savers PROVE WholeAt(t)'
    <3>1. WholeAt(t)
      BY <2>5 DEF WholeSoFar
    <3>2. CASE t # s
      BY <3>1, <3>2 DEF WholeAt, May
    <3>3. CASE t = s
      <4>1. size[s] = kept[s] /\ ret[s] # "true" /\ (kept[s] > 0 => May("clear"))
        BY <3>1, <3>3 DEF WholeAt
      <4>2. /\ kept'[s] \in Nat /\ (kept'[s] > 0 => May("clear"))
            /\ size'[s] = kept'[s] /\ written'[s] = 0 /\ ret'[s] # "true"
            /\ pc'[s] \in {"write_file", "write_finish"}
        BY <4>1
      <4> QED
        BY ONLY <3>3, <4>2, SizesAssumption DEF WholeAt, May
    <3> QED
      BY <3>2, <3>3
  <2> QED
    BY <1>t, <2>1, <2>2, <2>3, <2>4, <2>5 DEF IInv, WholeSoFar
<1>6. CASE write_file(s)
  <2> USE <1>0, <1>6 DEF TypeOK, write_file, Goto, recVars
  <2>1. LocksHeld'
    BY NobodyAssumption DEF LocksHeld, recVars
  <2>2. MkdirUncontended'
    BY NobodyAssumption DEF LocksHeld, MkdirUncontended, Dir
  <2>3. RecordOpen'
    BY DEF LocksHeld, RecordOpen, recVars, NoDay
  <2>4. HandleCounted'
    BY DEF HandleCounted, May, saverVars
  <2>5. ASSUME NEW t \in Savers PROVE WholeAt(t)'
    <3>1. WholeAt(t) /\ written[t] \in Nat /\ kept[t] \in Nat
      BY <2>5 DEF WholeSoFar
    <3>2. CASE t # s
      BY <3>1, <3>2 DEF WholeAt, May
    <3>3. CASE t = s
      <4>1. /\ size[s] = kept[s] + written[s] /\ written[s] < Blocks /\ ret[s] # "true"
            /\ kept'[s] = kept[s] /\ (kept[s] > 0 => May("clear"))
        BY <3>1, <3>3 DEF WholeAt
      <4>2. /\ ret'[s] = ret[s]
            /\ \/ /\ written[s] + 1 < Blocks /\ pc'[s] = "write_file"
                  /\ size'[s] = size[s] + 1 /\ written'[s] = written[s] + 1
               \/ /\ written[s] + 1 >= Blocks /\ pc'[s] = "record"
                  /\ size'[s] = size[s] + 1
               \/ pc'[s] = "write_finish"
        OBVIOUS
      <4>3. kept[s] \in Nat /\ written[s] \in Nat /\ Blocks \in Nat
        BY <3>1, <3>3, SizesAssumption
      <4> QED
        BY ONLY <3>3, <4>1, <4>2, <4>3 DEF WholeAt, May
    <3> QED
      BY <3>2, <3>3
  <2> QED
    BY <1>t, <2>1, <2>2, <2>3, <2>4, <2>5 DEF IInv, WholeSoFar
<1>7. CASE write_finish(s)
  <2> USE <1>0, <1>7 DEF TypeOK, write_finish, Goto, recVars, Close
  <2>1. LocksHeld'
    BY NobodyAssumption DEF LocksHeld, recVars
  <2>2. MkdirUncontended'
    BY NobodyAssumption DEF LocksHeld, MkdirUncontended, Dir
  <2>3. RecordOpen'
    BY DEF LocksHeld, RecordOpen, recVars, NoDay
  <2>4. HandleCounted'
    <3> SUFFICES ASSUME NEW t \in Savers
                 PROVE  /\ f'[t] => fds'[t] = lost'[t] + 1
                        /\ ~f'[t] => fds'[t] = lost'[t]
                        /\ f'[t] => pc'[t] \in {"write_file", "write_finish", "record",
                                                "record_open", "record_write", "finish"}
      BY DEF HandleCounted
    <3>1. CASE t # s
      BY <3>1 DEF HandleCounted
    <3>2. CASE t = s
      <4>1. fds[s] \in Nat /\ lost[s] \in Nat /\ f[s] \in BOOLEAN
        BY <3>2
      <4> QED
        BY <3>2, <4>1 DEF HandleCounted
    <3> QED
      BY <3>1, <3>2
  <2>5. ASSUME NEW t \in Savers PROVE WholeAt(t)'
    <3>1. WholeAt(t) /\ UNCHANGED <<size[t], kept[t], written[t]>>
      BY <2>5 DEF WholeSoFar
    <3>2. CASE t # s
      BY <3>1, <3>2 DEF WholeAt, May
    <3>3. CASE t = s
      BY <3>1, <3>3 DEF WholeAt, May
    <3> QED
      BY <3>2, <3>3
  <2> QED
    BY <1>t, <2>1, <2>2, <2>3, <2>4, <2>5 DEF IInv, WholeSoFar
<1>8. CASE skylog_save_finished(s)
  <2> USE <1>0, <1>8 DEF TypeOK, skylog_save_finished, Goto, recVars, Close
  <2>1. LocksHeld'
    BY NobodyAssumption DEF LocksHeld, recVars
  <2>2. MkdirUncontended'
    BY NobodyAssumption DEF LocksHeld, MkdirUncontended, Dir
  <2>3. RecordOpen'
    BY DEF LocksHeld, RecordOpen, recVars, NoDay
  <2>4. HandleCounted'
    <3> SUFFICES ASSUME NEW t \in Savers
                 PROVE  /\ f'[t] => fds'[t] = lost'[t] + 1
                        /\ ~f'[t] => fds'[t] = lost'[t]
                        /\ f'[t] => pc'[t] \in {"write_file", "write_finish", "record",
                                                "record_open", "record_write", "finish"}
      BY DEF HandleCounted
    <3>1. CASE t # s
      BY <3>1 DEF HandleCounted
    <3>2. CASE t = s
      <4>1. fds[s] \in Nat /\ lost[s] \in Nat /\ f[s] \in BOOLEAN
        BY <3>2
      <4> QED
        BY <3>2, <4>1 DEF HandleCounted
    <3> QED
      BY <3>1, <3>2
  <2>5. ASSUME NEW t \in Savers PROVE WholeAt(t)'
    <3>1. WholeAt(t) /\ UNCHANGED <<size[t], kept[t], written[t]>>
      BY <2>5 DEF WholeSoFar
    <3>2. CASE t # s
      BY <3>1, <3>2 DEF WholeAt, May
    <3>3. CASE t = s
      BY <3>1, <3>3 DEF WholeAt, May
    <3> QED
      BY <3>2, <3>3
  <2> QED
    BY <1>t, <2>1, <2>2, <2>3, <2>4, <2>5 DEF IInv, WholeSoFar
<1> QED
  BY <1>1, <1>2, <1>3, <1>4, <1>5, <1>6, <1>7, <1>8

(* The steps of skylog_record preserve the inductive invariant.            *)
LEMMA RecordStep ==
  ASSUME IInv, NEW s \in Savers,
         \/ lock_record(s) \/ skylog_record_create_and_open_file(s) \/ skylog_record_write(s)
  PROVE  IInv'
<1>0. /\ TypeOK /\ LocksHeld /\ MkdirUncontended /\ RecordOpen /\ HandleCounted
      /\ WholeSoFar
  BY DEF IInv
<1>t. TypeOK'
  BY TypeStep DEF Continue, SaveFile, Record
<1>1. CASE lock_record(s)
  <2> USE <1>0, <1>1 DEF TypeOK, lock_record, Goto, saverVars
  <2>1. LocksHeld'
    BY NobodyAssumption DEF LocksHeld, recVars
  <2>2. MkdirUncontended'
    BY NobodyAssumption DEF LocksHeld, MkdirUncontended, Dir
  <2>3. RecordOpen'
    BY DEF LocksHeld, RecordOpen, recVars, NoDay
  <2>4. HandleCounted'
    BY DEF HandleCounted, May, saverVars
  <2>5. WholeSoFar'
    BY SizesAssumption DEF WholeSoFar, WholeAt, May, saverVars
  <2> QED
    BY <1>t, <2>1, <2>2, <2>3, <2>4, <2>5 DEF IInv, WholeSoFar
<1>2. CASE skylog_record_create_and_open_file(s)
  <2> USE <1>0, <1>2 DEF TypeOK, skylog_record_create_and_open_file, Goto, saverVars, RecordFails
  <2>1. LocksHeld'
    BY NobodyAssumption DEF LocksHeld, recVars
  <2>2. MkdirUncontended'
    BY NobodyAssumption DEF LocksHeld, MkdirUncontended, Dir
  <2>3. RecordOpen'
    <3>1. /\ recLock = s /\ today # NoDay
          /\ \/ /\ pc' = [pc EXCEPT ![s] = "record_write"]
                /\ recFile' = IF recName = today /\ recFile # NoDay THEN recFile ELSE today
             \/ pc' = [pc EXCEPT ![s] = "finish"]
      BY DEF LocksHeld, NoDay
    <3> QED
      BY ONLY <1>0, <3>1, s \in Savers DEF TypeOK, LocksHeld, RecordOpen
  <2>4. HandleCounted'
    BY DEF HandleCounted, May, saverVars
  <2>5. WholeSoFar'
    BY SizesAssumption DEF WholeSoFar, WholeAt, May, saverVars
  <2> QED
    BY <1>t, <2>1, <2>2, <2>3, <2>4, <2>5 DEF IInv, WholeSoFar
<1>3. CASE skylog_record_write(s)
  <2> USE <1>0, <1>3 DEF TypeOK, skylog_record_write, Goto, saverVars, RecordFails
  <2>1. LocksHeld'
    BY NobodyAssumption DEF LocksHeld, recVars
  <2>2. MkdirUncontended'
    BY NobodyAssumption DEF LocksHeld, MkdirUncontended, Dir
  <2>3. RecordOpen'
    BY DEF LocksHeld, RecordOpen, recVars, NoDay
  <2>4. HandleCounted'
    BY DEF HandleCounted, May, saverVars
  <2>5. WholeSoFar'
    BY SizesAssumption DEF WholeSoFar, WholeAt, May, saverVars
  <2> QED
    BY <1>t, <2>1, <2>2, <2>3, <2>4, <2>5 DEF IInv, WholeSoFar
<1> QED
  BY <1>1, <1>2, <1>3

(* Every step preserves the inductive invariant.                           *)
LEMMA StepIInv == IInv /\ [Next]_vars => IInv'
<1> SUFFICES ASSUME IInv, [Next]_vars PROVE IInv'
  OBVIOUS
<1>1. ASSUME NEW s \in Savers, skylog_save(s) \/ Continue(s) PROVE IInv'
  BY <1>1, DirStep, FileStep, RecordStep DEF Continue, SaveFile, Record
<1>2. CASE new_day
  <2>1. today' \in 1 .. LastDay
    BY <1>2, SizesAssumption DEF new_day, IInv, TypeOK
  <2>2. UNCHANGED <<pc, saverVars, dirs, dirLock, recVars>>
    BY <1>2 DEF new_day
  <2> QED
    BY <2>1, <2>2 DEF IInv, TypeOK, LocksHeld, MkdirUncontended, RecordOpen, HandleCounted,
              WholeSoFar, WholeAt, Dir, May, saverVars, recVars
<1>3. CASE UNCHANGED vars
  BY <1>3 DEF vars, IInv, TypeOK, LocksHeld, MkdirUncontended, RecordOpen, HandleCounted,
              WholeSoFar, WholeAt, Dir, May, saverVars, recVars
<1> QED
  BY <1>1, <1>2, <1>3 DEF Next

(* IInv is an invariant of the concurrent saves.                           *)
THEOREM InductiveInvariant == Spec => []IInv
<1>1. Init => IInv
  BY InitIInv
<1>2. IInv /\ [Next]_vars => IInv'
  BY StepIInv
<1> QED
  BY <1>1, <1>2, PTL DEF Spec

(* The variables keep their types; in particular a handle is closed at     *)
(* most once for every time it was opened (fds stays a natural number).    *)
THEOREM TypeCorrect == Spec => []TypeOK
<1>1. IInv => TypeOK
  BY DEF IInv
<1> QED
  BY <1>1, InductiveInvariant, PTL

(* Between create_dir's test and its mkdir no other upload makes the       *)
(* directory, for any number of uploads and any overlap of their paths.    *)
THEOREM MkdirDoesNotRace == Spec => []MkdirUncontended
<1>1. IInv => MkdirUncontended
  BY DEF IInv
<1> QED
  BY <1>1, InductiveInvariant, PTL

(* skylog_save returns true only for a file that holds the upload and, in  *)
(* front of it, nothing but what a failed truncation left; whatever other  *)
(* calls fail.                                                             *)
THEOREM SuccessIsWhole == Spec => []SavedIsWhole
<1>1. IInv => SavedIsWhole
  BY DEF IInv, WholeSoFar, WholeAt, SavedIsWhole
<1> QED
  BY <1>1, InductiveInvariant, PTL

(* No failure of an attempt leaves a descriptor open, but for exactly      *)
(* those whose handle could not be allocated.                              *)
THEOREM DescriptorsAreReturned == Spec => []DescriptorsReturned
<1>1. IInv => DescriptorsReturned
  BY DEF IInv, TypeOK, HandleCounted, DescriptorsReturned
<1> QED
  BY <1>1, InductiveInvariant, PTL

-----------------------------------------------------------------------------
(* What makes RecordedOnceInItsDay inductive: the name and the handle of   *)
(* the record file always agree, so the file a line goes to is that of the *)
(* day on which it was chosen; and only a save that has reported success   *)
(* has a line.                                                             *)
Days == 1 .. LastDay

LinesInTime ==
  \A d \in Days : \A i \in DOMAIN records[d] :
    LET s == records[d][i] IN ret[s] = "true" /\ savedOn[s] <= d /\ d <= today

LinesDiffer ==
  \A d, e \in Days : \A i \in DOMAIN records[d], j \in DOMAIN records[e] :
    records[d][i] = records[e][j] => d = e /\ i = j

RecordInv ==
  /\ recName = recFile
  /\ recFile <= today
  /\ \A s \in Savers : savedOn[s] <= today
  /\ \A s \in Savers : pc[s] = "record_write" => savedOn[s] <= recFile
  /\ LinesInTime
  /\ LinesDiffer

(* Each line is some saver's. *)
LEMMA LineTyped ==
  ASSUME TypeOK, NEW d \in Days, NEW i \in DOMAIN records[d] PROVE records[d][i] \in Savers
<1>1. records[d] \in Seq(Savers)
  BY DEF TypeOK, Days
<1> QED BY <1>1

(* Steps that touch neither the records nor the days. *)
LEMMA RecordsRest ==
  ASSUME TypeOK, RecordInv, UNCHANGED <<records, recName, recFile, today, savedOn>>,
         \A s \in Savers : ret[s] = "true" => ret'[s] = "true",
         \A s \in Savers : pc'[s] = "record_write" => pc[s] = "record_write"
  PROVE  RecordInv'
<1>1. LinesInTime'
  BY LineTyped DEF RecordInv, LinesInTime
<1>2. LinesDiffer'
  BY DEF RecordInv, LinesDiffer
<1> QED BY <1>1, <1>2 DEF RecordInv

(* The steps that save the file: the day of a save is set while it has no  *)
(* line.                                                                   *)
LEMMA FileRecordInv ==
  ASSUME IInv, RecordInv, NEW s \in Savers, skylog_save(s) \/ SaveFile(s) \/ skylog_save_finished(s)
  PROVE  RecordInv'
<1>1. TypeOK /\ WholeAt(s)
  BY DEF IInv, WholeSoFar
<1> USE DEF Goto, recVars, saverVars
<1>2. CASE write_file(s)
  <2>1. /\ UNCHANGED <<records, recName, recFile, today, ret>> /\ pc[s] = "write_file"
        /\ savedOn' = savedOn \/ savedOn' = [savedOn EXCEPT ![s] = today]
        /\ \E to \in {"write_file", "record", "write_finish"} : pc' = [pc EXCEPT ![s] = to]
    BY <1>2 DEF write_file
  <2>2. ret[s] # "true"
    BY <1>1, <2>1 DEF WholeAt
  <2>3. /\ pc \in [Savers -> Pcs] /\ savedOn \in [Savers -> {NoDay} \cup (1 .. LastDay)]
        /\ today \in 1 .. LastDay
    BY <1>1 DEF TypeOK
  <2>4. /\ \A t \in Savers : pc'[t] = "record_write" => t # s /\ pc[t] = "record_write"
        /\ \A t \in Savers : savedOn'[t] = savedOn[t] \/ (t = s /\ savedOn'[t] = today)
    BY ONLY <2>1, <2>3, s \in Savers
  <2>5. LinesInTime'
    BY <1>1, <2>1, <2>2, <2>4, LineTyped DEF RecordInv, LinesInTime
  <2>6. LinesDiffer'
    BY <2>1 DEF RecordInv, LinesDiffer
  <2>7. \A t \in Savers : savedOn'[t] <= today'
    BY <2>1, <2>3, <2>4 DEF RecordInv
  <2>8. \A t \in Savers : pc'[t] = "record_write" => savedOn'[t] <= recFile'
    BY <2>1, <2>4 DEF RecordInv
  <2> QED BY <2>1, <2>5, <2>6, <2>7, <2>8 DEF RecordInv
<1>3. CASE ~write_file(s)
  <2>1. UNCHANGED <<records, recName, recFile, today, savedOn>>
    BY <1>3
       DEF skylog_save, SaveFile, skylog_save_finished, create_and_open_skylog_file, lock_skylog,
           create_dir, mkdir, create_file, clear_file, open_file, write_finish
  <2>2. \E to \in Pcs \ {"record_write"} : pc' = [pc EXCEPT ![s] = to]
    BY <1>3
       DEF skylog_save, SaveFile, skylog_save_finished, create_and_open_skylog_file, lock_skylog,
           create_dir, mkdir, create_file, clear_file, open_file, write_finish, Pcs
  <2>3. ret' = ret \/ (pc[s] = "write_finish" /\ ret' = [ret EXCEPT ![s] = "false"])
    BY <1>3
       DEF skylog_save, SaveFile, skylog_save_finished, create_and_open_skylog_file, lock_skylog,
           create_dir, mkdir, create_file, clear_file, open_file, write_finish
  <2>4. \A t \in Savers : ret[t] = "true" => ret'[t] = "true"
    BY <1>1, <2>3 DEF TypeOK, WholeAt
  <2>5. \A t \in Savers : pc'[t] = "record_write" => pc[t] = "record_write"
    BY <1>1, <2>2 DEF TypeOK
  <2> QED BY <1>1, <2>1, <2>4, <2>5, RecordsRest
<1> QED BY <1>2, <1>3

(* A record that fails and writes no line. *)
LEMMA FailedRecordInv ==
  ASSUME IInv, RecordInv, NEW s \in Savers, NEW from, RecordFails(s, from),
         UNCHANGED <<records, today, savedOn>>, pc[s] \in {"record_open", "record_write"}
  PROVE  RecordInv'
<1>1. TypeOK /\ LocksHeld
  BY DEF IInv
<1>2. /\ recName' = NoDay /\ recFile' = NoDay /\ pc' = [pc EXCEPT ![s] = "finish"]
      /\ ret' = [ret EXCEPT ![s] = "true"]
  BY DEF RecordFails, Goto
<1>3. \A t \in Savers : pc'[t] # "record_write"
  BY <1>1, <1>2 DEF TypeOK, LocksHeld
<1>4. \A t \in Savers : ret[t] = "true" => ret'[t] = "true"
  BY <1>1, <1>2 DEF TypeOK
<1>5. LinesInTime'
  BY <1>1, <1>4, LineTyped DEF RecordInv, LinesInTime
<1>6. LinesDiffer'
  BY DEF RecordInv, LinesDiffer
<1>7. recFile' <= today'
  BY <1>1, <1>2 DEF TypeOK, NoDay
<1>8. \A t \in Savers : savedOn'[t] <= today'
  BY DEF RecordInv
<1> QED BY <1>2, <1>3, <1>5, <1>6, <1>7, <1>8 DEF RecordInv

(* The file of the day is chosen: name and handle agree on today. *)
LEMMA OpenRecordInv ==
  ASSUME IInv, RecordInv, NEW s \in Savers, skylog_record_create_and_open_file(s)
  PROVE  RecordInv'
<1>1. TypeOK /\ LocksHeld
  BY DEF IInv
<1>2. UNCHANGED <<records, today, savedOn>>
  BY DEF skylog_record_create_and_open_file
<1>3. CASE RecordFails(s, "record_open")
  BY <1>2, <1>3, FailedRecordInv DEF RecordFails, Goto
<1>4. CASE /\ recName' = today
           /\ recFile' = IF recName = today /\ recFile # NoDay THEN recFile ELSE today
           /\ Goto(s, "record_open", "record_write") /\ UNCHANGED ret
  <2>1. recFile' = today
    BY <1>4 DEF RecordInv
  <2>2. today \in Nat
    BY <1>1 DEF TypeOK
  <2>3. LinesInTime'
    BY <1>2, <1>4 DEF RecordInv, LinesInTime
  <2>4. LinesDiffer'
    BY <1>2 DEF RecordInv, LinesDiffer
  <2> QED BY <1>2, <1>4, <2>1, <2>2, <2>3, <2>4 DEF RecordInv
<1> QED BY <1>3, <1>4 DEF skylog_record_create_and_open_file

(* The line is written, whole or not: it is the saver's first, and its day *)
(* has come after the file was complete.                                   *)
LEMMA WriteRecordInv ==
  ASSUME IInv, RecordInv, NEW s \in Savers, skylog_record_write(s)
  PROVE  RecordInv'
<1>1. TypeOK /\ LocksHeld /\ RecordOpen /\ WholeAt(s)
  BY DEF IInv, WholeSoFar
<1>2. UNCHANGED <<today, savedOn>> /\ pc[s] = "record_write"
  BY DEF skylog_record_write, RecordFails, Goto
<1>3. CASE RecordFails(s, "record_write") /\ UNCHANGED records
  BY <1>2, <1>3, FailedRecordInv
<1>4. CASE /\ records' = [records EXCEPT ![recFile] = Append(@, s)]
           /\ Goto(s, "record_write", "finish") /\ ret' = [ret EXCEPT ![s] = "true"]
           /\ UNCHANGED <<recName, recFile>> \/ (recName' = NoDay /\ recFile' = NoDay)
  <2> DEFINE q == records[recFile]
             n == Len(records[recFile]) + 1
  <2>1. recFile \in Days /\ q \in Seq(Savers)
    BY <1>1, <1>2 DEF TypeOK, RecordOpen, Days
  <2>2. Len(q) \in Nat /\ DOMAIN q = 1 .. Len(q)
    BY <2>1
  <2>3. /\ records'[recFile] = Append(q, s)
        /\ \A d \in Days \ {recFile} : records'[d] = records[d]
    BY <1>1, <1>4, <2>1 DEF TypeOK, Days
  <2>4. /\ DOMAIN records'[recFile] = DOMAIN q \cup {n}
        /\ \A i \in DOMAIN q : records'[recFile][i] = q[i]
        /\ records'[recFile][n] = s
    BY <2>1, <2>2, <2>3
  <2>5. ret[s] # "true" /\ ret'[s] = "true" /\ \A t \in Savers : ret[t] = "true" => ret'[t] = "true"
    BY <1>1, <1>2, <1>4 DEF WholeAt, TypeOK
  <2>6. \A d \in Days : \A i \in DOMAIN records[d] : records[d][i] # s
    BY <2>5 DEF RecordInv, LinesInTime
  <2>7. savedOn[s] <= recFile /\ recFile <= today
    BY <1>2 DEF RecordInv
  <2> HIDE DEF n
  <2>8. ASSUME NEW d \in Days, NEW i \in DOMAIN records'[d]
        PROVE  \/ d = recFile /\ i = n /\ records'[d][i] = s
               \/ i \in DOMAIN records[d] /\ records'[d][i] = records[d][i]
    BY <2>3, <2>4
  <2>9. LinesInTime'
    <3> SUFFICES ASSUME NEW d \in Days, NEW i \in DOMAIN records'[d]
                 PROVE  LET t == records'[d][i] IN ret'[t] = "true" /\ savedOn'[t] <= d /\ d <= today'
      BY DEF LinesInTime
    <3>1. CASE d = recFile /\ i = n /\ records'[d][i] = s
      BY <1>2, <2>5, <2>7, <3>1
    <3>2. CASE i \in DOMAIN records[d] /\ records'[d][i] = records[d][i]
      BY <1>1, <1>2, <2>5, <3>2, LineTyped DEF RecordInv, LinesInTime
    <3> QED BY <2>8, <3>1, <3>2
  <2>10. LinesDiffer'
    <3> SUFFICES ASSUME NEW d \in Days, NEW e \in Days,
                        NEW i \in DOMAIN records'[d], NEW j \in DOMAIN records'[e],
                        records'[d][i] = records'[e][j]
                 PROVE  d = e /\ i = j
      BY DEF LinesDiffer
    <3>1. \/ d = recFile /\ i = n /\ records'[d][i] = s
          \/ i \in DOMAIN records[d] /\ records'[d][i] = records[d][i]
      BY <2>8
    <3>2. \/ e = recFile /\ j = n /\ records'[e][j] = s
          \/ j \in DOMAIN records[e] /\ records'[e][j] = records[e][j]
      BY <2>8
    <3> QED BY <2>6, <3>1, <3>2 DEF RecordInv, LinesDiffer
  <2>11. \A t \in Savers : pc'[t] # "record_write"
    BY <1>1, <1>2, <1>4 DEF TypeOK, LocksHeld, Goto
  <2>12. recName' = recFile' /\ recFile' <= today'
    BY <1>1, <1>2, <1>4 DEF RecordInv, TypeOK, NoDay
  <2> QED BY <1>2, <2>9, <2>10, <2>11, <2>12 DEF RecordInv
<1> QED BY <1>3, <1>4 DEF skylog_record_write, RecordFails

(* Every step keeps it. *)
LEMMA StepRecordInv == IInv /\ RecordInv /\ [Next]_vars => RecordInv'
<1> SUFFICES ASSUME IInv, RecordInv, [Next]_vars PROVE RecordInv'
  OBVIOUS
<1>1. TypeOK
  BY DEF IInv
<1>2. ASSUME NEW s \in Savers, lock_record(s) PROVE RecordInv'
  <2>1. UNCHANGED <<records, recName, recFile, today, savedOn, ret>>
    BY <1>2 DEF lock_record, saverVars
  <2>2. \A t \in Savers : pc'[t] = "record_write" => pc[t] = "record_write"
    BY <1>1, <1>2 DEF lock_record, Goto, TypeOK
  <2> QED BY <1>1, <2>1, <2>2, RecordsRest
<1>3. CASE new_day
  <2>1. /\ today' = today + 1 /\ today \in Nat
        /\ UNCHANGED <<records, recName, recFile, savedOn, ret, pc>>
    BY <1>1, <1>3 DEF new_day, saverVars, recVars, TypeOK
  <2>2. \A d \in Days : d <= today => d <= today'
    BY <2>1 DEF Days
  <2>3. LinesInTime'
    BY <2>1, <2>2 DEF RecordInv, LinesInTime
  <2>4. LinesDiffer'
    BY <2>1 DEF RecordInv, LinesDiffer
  <2>5. recFile' <= today'
    BY <1>1, <2>1 DEF RecordInv, TypeOK, NoDay
  <2>6. ASSUME NEW t \in Savers PROVE savedOn'[t] <= today'
    <3>1. savedOn[t] \in Int /\ savedOn[t] <= today /\ savedOn'[t] = savedOn[t]
      BY <1>1, <2>1 DEF RecordInv, TypeOK, NoDay
    <3> QED BY ONLY <2>1, <3>1
  <2> QED BY <2>1, <2>3, <2>4, <2>5, <2>6 DEF RecordInv
<1>4. CASE UNCHANGED vars
  BY <1>1, <1>4, RecordsRest DEF vars, saverVars, recVars
<1> QED
  BY <1>2, <1>3, <1>4, FileRecordInv, OpenRecordInv, WriteRecordInv DEF Next, Continue, Record

(* An upload has at most one line in all record files, in the file of a    *)
(* day between its completion and now, and its file is whole: whatever     *)
(* fails, however the saves interleave and whenever the day changes.       *)
THEOREM RecordedOnce == Spec => []RecordedOnceInItsDay
<1>1. Init => RecordInv
  <2> SUFFICES ASSUME Init PROVE RecordInv
    OBVIOUS
  <2>1. LinesInTime /\ LinesDiffer
    BY DEF Init, LinesInTime, LinesDiffer, Days
  <2> QED BY <2>1 DEF Init, RecordInv, NoDay
<1>2. IInv /\ RecordInv => RecordedOnceInItsDay
  <2> SUFFICES ASSUME IInv, RecordInv, NEW s \in Savers
               PROVE  /\ Cardinality(LinesOf(s)) <= 1
                      /\ \A l \in LinesOf(s) : /\ size[s] = kept[s] + Blocks
                                               /\ savedOn[s] <= l[1] /\ l[1] <= today
    BY DEF RecordedOnceInItsDay
  <2>1. ASSUME NEW l \in LinesOf(s)
        PROVE  \E d \in Days : \E i \in DOMAIN records[d] : l = <<d, i>> /\ records[d][i] = s
    BY DEF LinesOf, Days
  <2>2. ASSUME NEW l \in LinesOf(s)
        PROVE  size[s] = kept[s] + Blocks /\ savedOn[s] <= l[1] /\ l[1] <= today
    <3>1. PICK d \in Days : \E i \in DOMAIN records[d] : l = <<d, i>> /\ records[d][i] = s
      BY <2>1
    <3>2. ret[s] = "true" /\ savedOn[s] <= d /\ d <= today /\ l[1] = d
      BY <3>1 DEF RecordInv, LinesInTime
    <3> QED BY <3>2 DEF IInv, WholeSoFar, WholeAt
  <2>3. Cardinality(LinesOf(s)) <= 1
    <3>1. CASE LinesOf(s) = {}
      BY <3>1, FS_EmptySet
    <3>2. ASSUME NEW l \in LinesOf(s) PROVE Cardinality(LinesOf(s)) <= 1
      <4>1. ASSUME NEW m \in LinesOf(s) PROVE m = l
        BY <2>1 DEF RecordInv, LinesDiffer
      <4>2. LinesOf(s) = {l}
        BY <4>1
      <4>3. Cardinality({l}) = 1
        BY FS_Singleton
      <4> QED BY <4>2, <4>3
    <3> QED BY <3>1, <3>2
  <2> QED BY <2>2, <2>3
<1> QED BY <1>1, <1>2, StepRecordInv, InductiveInvariant, PTL DEF Spec
=============================================================================
