----------------------------- MODULE MCDispatch -----------------------------
(* Instances of Dispatch for TLC. *)
EXTENDS Dispatch, TLC

CONSTANTS c1, c2, c3, c4, c5

FourConns == {c1, c2, c3, c4}
FiveConns == {c1, c2, c3, c4, c5}

(* Connections are interchangeable; only runs without liveness use this.   *)
ConnSymmetry == Permutations(Conns)
=============================================================================
