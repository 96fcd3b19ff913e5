-------------------------------- MODULE Fifo --------------------------------
(***************************************************************************)
(* The ring buffer (fifo.c): writers that use fifo_safe_put and one reader *)
(* share the ring without a lock between the two sides.  A put and a read  *)
(* copy in two parts, up to the end of the buffer and from its start, and  *)
(* only then move their counter, which runs modulo 2^Width and is masked   *)
(* to an index.                                                            *)
(*                                                                         *)
(* _fifo_min is a macro that evaluates its second argument twice, and the  *)
(* makefile builds without optimisation: the counters are loaded again     *)
(* when the first comparison does not settle the minimum.  Loads of a      *)
(* counter and the stores of one side are seen in order, as on x86.        *)
(*                                                                         *)
(* The code masks a counter with size - 1.  A size is a power of two, and  *)
(* of that the mask is the remainder; MCFifo compares the two.             *)
(***************************************************************************)
EXTENDS Integers, Sequences

CONSTANTS
  Writers,   \* threads that put
  Nobody,    \* holder of a free lock
  Width,     \* bits of an unsigned int (32)
  Asked,     \* sizes a caller may ask for
  Items,     \* the data is numbered modulo Items
  MaxLen     \* longest put or read

ASSUME WritersAssumption == Nobody \notin Writers
ASSUME WidthAssumption == Width \in Nat \ {0}

(* 1UL << k *)
shl[k \in 0 .. Width] == IF k = 0 THEN 1 ELSE 2 * shl[k - 1]

ASSUME SizesAssumption == /\ Asked \subseteq 1 .. shl[Width - 1]
                          /\ Items \in Nat \ {0}
                          /\ MaxLen \in Nat \ {0}

Mod == shl[Width]
Garbage == -1      \* what the caller's array held

VARIABLES
  size,       \* fifo->size
  buffer,     \* fifo->buffer
  in, out,    \* the counters
  disable,    \* fifo->disable
  lock,       \* holder of fifo->lock
  wpc,        \* per writer, where it is in fifo_safe_put
  data,       \* per writer, the data it puts
  sent,       \* number of the next item a caller puts
  rpc,        \* where the reader is in fifo_read
  len,        \* the reader's len
  copied,     \* what the reader has copied
  asked,      \* history: the len the reader was called with; 0 between calls
  short       \* history: the ring held no more than that when it looked first

ringVars == <<size, buffer, in, out, disable>>
putVars == <<lock, wpc, data, sent>>
readVars == <<rpc, len, copied, asked, short>>
vars == <<ringVars, putVars, readVars>>

-----------------------------------------------------------------------------
(* Arithmetic of unsigned int *)

(* The number of bits of x: how often it is shifted until nothing is left. *)
fls(x) == CHOOSE p \in 0 .. Width : x < shl[p] /\ (p > 0 => shl[p - 1] <= x)

(* size & (size - 1) is 0 *)
IsPower(x) == \E k \in 0 .. Width : x = shl[k]

fifo_cal_buffer_size(x) == IF ~IsPower(x) THEN shl[fls(x - 1)] % Mod ELSE x

fifo_min(x, y) == IF x < y THEN x ELSE y

FIFO_DATA_LEN == (in - out) % Mod
FIFO_FREE_SIZE == (size - in + out) % Mod

(* The index a counter stands for. *)
Slot(c) == c % size

(* How many of n items go before the end of the buffer. *)
FirstPart(c, n) == fifo_min(n, size - Slot(c))

-----------------------------------------------------------------------------
(* fifo_create_by_array with the size that fifo_cal_buffer_size gives. *)
Init ==
  /\ size \in {fifo_cal_buffer_size(n) : n \in Asked}
  /\ buffer = [k \in 0 .. size - 1 |-> Garbage]
  /\ in = 0
  /\ out = 0
  /\ disable = TRUE
  /\ lock = Nobody
  /\ wpc = [w \in Writers |-> "idle"]
  /\ data = [w \in Writers |-> <<>>]
  /\ sent = 0
  /\ rpc = "idle"
  /\ len = 0
  /\ copied = <<>>
  /\ asked = 0
  /\ short = FALSE

fifo_enable ==
  /\ disable' = FALSE
  /\ UNCHANGED <<size, buffer, in, out, putVars, readVars>>

fifo_disable ==
  /\ disable' = TRUE
  /\ UNCHANGED <<size, buffer, in, out, putVars, readVars>>

-----------------------------------------------------------------------------
(* fifo_safe_put *)

(* Mutant: the lock is not taken. *)
safe_put_unlocked(w) ==
  /\ wpc[w] = "idle"
  /\ \E n \in 1 .. MaxLen :
       data' = [data EXCEPT ![w] = [k \in 1 .. n |-> (sent + k - 1) % Items]]
  /\ wpc' = [wpc EXCEPT ![w] = "put"]
  /\ UNCHANGED <<lock, sent, ringVars, readVars>>

(* The caller numbers its data; what was refused is put again. *)
fifo_safe_put(w) ==
  /\ wpc[w] = "idle"
  /\ lock = Nobody
  /\ lock' = w
  /\ \E n \in 1 .. MaxLen :
       data' = [data EXCEPT ![w] = [k \in 1 .. n |-> (sent + k - 1) % Items]]
  /\ wpc' = [wpc EXCEPT ![w] = "put"]
  /\ UNCHANGED <<sent, ringVars, readVars>>

(* fifo_put returns 0, and fifo_safe_put unlocks. *)
put_refused(w) ==
  /\ wpc' = [wpc EXCEPT ![w] = "idle"]
  /\ data' = [data EXCEPT ![w] = <<>>]
  /\ lock' = Nobody
  /\ UNCHANGED <<sent, ringVars, readVars>>

PutGoto(w, to) ==
  /\ wpc' = [wpc EXCEPT ![w] = to]
  /\ UNCHANGED <<lock, data, sent, readVars>>

(* The test of disable and the first look at the free space. *)
fifo_put(w) ==
  /\ wpc[w] = "put"
  /\ \/ disable /\ put_refused(w)
     \/ /\ ~disable
        /\ PutGoto(w, IF Len(data[w]) < FIFO_FREE_SIZE THEN "copy" ELSE "look")
        /\ UNCHANGED ringVars

(* The second look, if the first did not settle the minimum.  A put that   *)
(* just fitted is refused if the reader has made more room since.          *)
put_look_again(w) ==
  /\ wpc[w] = "look"
  /\ \/ FIFO_FREE_SIZE # Len(data[w]) /\ put_refused(w)
     \/ /\ FIFO_FREE_SIZE = Len(data[w])
        /\ PutGoto(w, "copy")
        /\ UNCHANGED ringVars

(* Items a + 1 .. b of the data to the slots from k on. *)
Stored(w, a, b, k) ==
  [j \in DOMAIN buffer |-> IF j - k \in 0 .. b - a - 1 THEN data[w][a + j - k + 1] ELSE buffer[j]]

put_copy(w) ==
  /\ wpc[w] = "copy"
  /\ buffer' = Stored(w, 0, FirstPart(in, Len(data[w])), Slot(in))
  /\ PutGoto(w, "rest")
  /\ UNCHANGED <<size, in, out, disable>>

(* Mutant: the rest is copied from the start of the data. *)
put_copy_rest_restarts(w) ==
  /\ wpc[w] = "rest"
  /\ buffer' = Stored(w, 0, Len(data[w]) - FirstPart(in, Len(data[w])), 0)
  /\ PutGoto(w, "publish")
  /\ UNCHANGED <<size, in, out, disable>>

put_copy_rest(w) ==
  /\ wpc[w] = "rest"
  /\ buffer' = Stored(w, FirstPart(in, Len(data[w])), Len(data[w]), 0)
  /\ PutGoto(w, "publish")
  /\ UNCHANGED <<size, in, out, disable>>

put_publish(w) ==
  /\ wpc[w] = "publish"
  /\ in' = (in + Len(data[w])) % Mod
  /\ sent' = (sent + Len(data[w])) % Items
  /\ wpc' = [wpc EXCEPT ![w] = "idle"]
  /\ data' = [data EXCEPT ![w] = <<>>]
  /\ lock' = Nobody
  /\ UNCHANGED <<size, buffer, out, disable, readVars>>

-----------------------------------------------------------------------------
(* The reader *)

fifo_read ==
  /\ rpc = "idle"
  /\ \E n \in 1 .. MaxLen :
       /\ asked' = n
       /\ \/ n < FIFO_DATA_LEN /\ len' = n /\ rpc' = "copy" /\ short' = FALSE
          \/ n >= FIFO_DATA_LEN /\ rpc' = "look" /\ short' = TRUE /\ UNCHANGED len
  /\ UNCHANGED <<copied, ringVars, putVars>>

(* The second look takes whatever is there by now, more than was asked for *)
(* included.                                                               *)
read_look_again ==
  /\ rpc = "look"
  /\ len' = FIFO_DATA_LEN
  /\ rpc' = "copy"
  /\ UNCHANGED <<copied, asked, short, ringVars, putVars>>

Loaded(k, n) == [j \in 1 .. n |-> buffer[k + j - 1]]

read_copy ==
  /\ rpc = "copy"
  /\ copied' = Loaded(Slot(out), FirstPart(out, len))
  /\ rpc' = "rest"
  /\ UNCHANGED <<len, asked, short, ringVars, putVars>>

read_copy_rest ==
  /\ rpc = "rest"
  /\ copied' = copied \o Loaded(0, len - FirstPart(out, len))
  /\ rpc' = "publish"
  /\ UNCHANGED <<len, asked, short, ringVars, putVars>>

read_publish ==
  /\ rpc = "publish"
  /\ out' = (out + len) % Mod
  /\ copied' = <<>>
  /\ len' = 0
  /\ rpc' = "idle"
  /\ asked' = 0
  /\ short' = FALSE
  /\ UNCHANGED <<size, buffer, in, disable, putVars>>

(* Skips data without reading it; the reader's, who alone moves out. *)
fifo_set_offset ==
  /\ rpc = "idle"
  /\ \E n \in 0 .. FIFO_DATA_LEN : out' = (out + n) % Mod
  /\ UNCHANGED <<size, buffer, in, disable, putVars, readVars>>

(* Moves both counters, and so takes nobody else at work. *)
fifo_clean ==
  /\ rpc = "idle"
  /\ \A w \in Writers : wpc[w] = "idle"
  /\ in' = 0
  /\ out' = 0
  /\ UNCHANGED <<size, buffer, disable, putVars, readVars>>

-----------------------------------------------------------------------------
Put(w) ==
  \/ fifo_safe_put(w)
  \/ fifo_put(w)
  \/ put_look_again(w)
  \/ put_copy(w)
  \/ put_copy_rest(w)
  \/ put_publish(w)

Read ==
  \/ fifo_read
  \/ read_look_again
  \/ read_copy
  \/ read_copy_rest
  \/ read_publish
  \/ fifo_set_offset

Next ==
  \/ \E w \in Writers : Put(w)
  \/ Read
  \/ fifo_enable
  \/ fifo_disable
  \/ fifo_clean

Spec == Init /\ [][Next]_vars

-----------------------------------------------------------------------------
(* Properties. *)

Copying == {"copy", "rest", "publish"}

TypeOK ==
  /\ size \in Nat \ {0} /\ size < Mod /\ Mod % size = 0
  /\ buffer \in [0 .. size - 1 -> -1 .. Items - 1]
  /\ in \in 0 .. Mod - 1 /\ out \in 0 .. Mod - 1
  /\ disable \in BOOLEAN
  /\ lock \in Writers \cup {Nobody}
  /\ wpc \in [Writers -> {"idle", "put", "look"} \cup Copying]
  /\ data \in [Writers -> Seq(0 .. Items - 1)]
  /\ sent \in 0 .. Items - 1
  /\ rpc \in {"idle", "look"} \cup Copying
  /\ len \in Nat
  /\ copied \in Seq(-1 .. Items - 1)
  /\ asked \in Nat /\ short \in BOOLEAN

Slots(from, n) == {Slot((from + k) % Mod) : k \in 0 .. n - 1}

(* A put and a read that copy at the same time touch different slots, so   *)
(* that it does not matter how their copies interleave, and so do two puts.*)
SlotsDisjoint ==
  \A w \in Writers :
    wpc[w] \in Copying =>
      /\ rpc \in Copying =>
           Slots(in, Len(data[w])) \cap Slots(out, len) = {}
      /\ \A v \in Writers \ {w} : wpc[v] \notin Copying

(* The unread data, in order. *)
Contents == [k \in 1 .. FIFO_DATA_LEN |-> buffer[Slot((out + k - 1) % Mod)]]

Abstract ==
  INSTANCE BoundedQueue
    WITH Items <- 0 .. Items - 1, queue <- Contents, capacity <- size, offered <- data,
         delivered <- IF rpc = "publish" THEN copied ELSE <<>>

(* The ring is a bounded queue: a put is taken whole or refused, and data  *)
(* comes out once, in order and as it was put, across the end of the       *)
(* buffer, the wrap of the counters and any overlap of put and read.  A    *)
(* read hands out as much as it was asked for, neither more nor less, but  *)
(* for one that found no more than that in the ring at first.              *)
ImplementsQueue == Abstract!Spec
=============================================================================
