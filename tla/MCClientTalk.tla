---------------------------- MODULE MCClientTalk ----------------------------
(* Instances of ClientTalk for TLC. *)
EXTENDS ClientTalk

Request(h, u, l, b, g) == [hdr |-> h, url |-> u, len |-> l, body |-> b, gzip |-> g]

(* Headers that end early, one before the limit, at it and never; paths;   *)
(* content missing, short, exact and followed by more.                     *)
SampleRequests ==
  {Request(h, TRUE, l, b, TRUE) : h \in {0, 1, 2, 3}, l \in 0 .. 2, b \in 0 .. 3}
    \cup {Request(2, FALSE, 1, 1, TRUE), Request(2, TRUE, 2, 2, FALSE)}
=============================================================================
