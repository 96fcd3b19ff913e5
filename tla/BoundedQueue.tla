---------------------------- MODULE BoundedQueue ----------------------------
(***************************************************************************)
(* The queue that the ring buffer of fifo.c is: bounded, it takes the data *)
(* of a put whole or not at all, and hands data out in order.  fifo.h:9    *)
(* has it that a call for which there is not enough space does what it can *)
(* and returns how much that was, which is so of reads only.  A read gets  *)
(* exactly what it asked for, unless the queue held no more than that when *)
(* it asked: then it gets any part of what is there when it looks again,   *)
(* which may be more than was asked for.                                   *)
(***************************************************************************)
EXTENDS Naturals, Sequences

CONSTANTS Writers, Items

VARIABLES
  queue,      \* what was put and not yet read
  capacity,   \* how much the queue holds
  offered,    \* per writer, the data of its call; empty between calls
  delivered,  \* what a read is handing out
  asked,      \* what the caller of a read asked for; 0 between reads
  short       \* the queue held no more than that when the read began

vars == <<queue, capacity, offered, delivered, asked, short>>

Init ==
  /\ queue = <<>>
  /\ capacity \in Nat \ {0}
  /\ offered = [w \in Writers |-> <<>>]
  /\ delivered = <<>>
  /\ asked = 0
  /\ short = FALSE

(* Any data that is not empty. *)
Offer(w) ==
  /\ offered[w] = <<>>
  /\ offered'[w] \in Seq(Items)
  /\ offered'[w] # <<>>
  /\ offered' = [offered EXCEPT ![w] = offered'[w]]
  /\ UNCHANGED <<queue, capacity, delivered, asked, short>>

Accept(w) ==
  /\ offered[w] # <<>>
  /\ Len(queue) + Len(offered[w]) <= capacity
  /\ queue' = queue \o offered[w]
  /\ offered' = [offered EXCEPT ![w] = <<>>]
  /\ UNCHANGED <<capacity, delivered, asked, short>>

Refuse(w) ==
  /\ offered[w] # <<>>
  /\ offered' = [offered EXCEPT ![w] = <<>>]
  /\ UNCHANGED <<queue, capacity, delivered, asked, short>>

(* A read begins, *)
Ask ==
  /\ asked = 0
  /\ asked' \in Nat \ {0}
  /\ short' = (Len(queue) <= asked')
  /\ UNCHANGED <<queue, capacity, offered, delivered>>

(* copies the front of the queue, *)
Deliver ==
  /\ delivered = <<>>
  /\ \E n \in 1 .. Len(queue) :
       /\ n = asked \/ short
       /\ delivered' = SubSeq(queue, 1, n)
  /\ UNCHANGED <<queue, capacity, offered, asked, short>>

(* and takes it off; only a read that came up short may bring nothing.     *)
Take ==
  /\ delivered # <<>> \/ short
  /\ queue' = SubSeq(queue, Len(delivered) + 1, Len(queue))
  /\ delivered' = <<>>
  /\ asked' = 0
  /\ short' = FALSE
  /\ UNCHANGED <<capacity, offered>>

Skip ==
  /\ asked = 0
  /\ \E n \in 0 .. Len(queue) : queue' = SubSeq(queue, n + 1, Len(queue))
  /\ UNCHANGED <<capacity, offered, delivered, asked, short>>

Next ==
  \/ \E w \in Writers : Offer(w) \/ Accept(w) \/ Refuse(w)
  \/ Ask
  \/ Deliver
  \/ Take
  \/ Skip

Spec == Init /\ [][Next]_vars
=============================================================================
