------------------------------ MODULE MCSkylog ------------------------------
(* Instances of Skylog for TLC. *)
EXTENDS Skylog

CONSTANTS s1, s2

TwoSavers == {s1, s2}

(* Two uploads of one device on one day: the whole path is shared. *)
SameDevice == [s \in TwoSavers |-> <<"sn", "date">>]
=============================================================================
