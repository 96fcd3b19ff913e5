------------------------------- MODULE MCFifo -------------------------------
(* An instance of Fifo for TLC. *)
EXTENDS Fifo, Bitwise, TLC

CONSTANTS w1, w2

(* What Fifo says without masks is what the masks of fifo.c give. *)
ASSUME MaskIsRemainder ==
  \A k \in 0 .. Width : \A c \in 0 .. Mod - 1 : c & (shl[k] - 1) = c % shl[k]
ASSUME MaskIsPowerTest ==
  \A x \in 1 .. Mod - 1 : x & (x - 1) = 0 <=> IsPower(x)

TwoWriters == {w1, w2}

WriterSymmetry == Permutations(TwoWriters)
=============================================================================
