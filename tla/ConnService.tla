---------------------------- MODULE ConnService ----------------------------
(***************************************************************************)
(* What the dispatcher promises for each accepted connection, without      *)
(* queues' bounds, notifications, locks or threads: it is refused, or put  *)
(* in the line of one worker; it leaves the line from its head when the    *)
(* worker takes it, or together with everyone in that line when the line   *)
(* is shed; a connection that was taken is served and then closed, or      *)
(* closed at once; and a line that is not shed keeps moving.  Dispatch     *)
(* implements this (Dispatch!Service).                                     *)
(***************************************************************************)
EXTENDS Integers, Sequences

CONSTANTS Conns, Workers

VARIABLES
  stage,  \* per connection: where it is
  line    \* per worker: who waits for it

svars == <<stage, line>>

Stages == {"new", "waiting", "taken", "served", "closed"}

Init ==
  /\ stage = [c \in Conns |-> "new"]
  /\ line = [w \in Workers |-> <<>>]

Move(c, from, to) ==
  /\ stage[c] = from
  /\ stage' = [stage EXCEPT ![c] = to]

Refuse(c) == Move(c, "new", "closed") /\ UNCHANGED line

Enter(c, w) ==
  /\ Move(c, "new", "waiting")
  /\ line' = [line EXCEPT ![w] = Append(@, c)]

Take(w) ==
  /\ line[w] # <<>>
  /\ Move(Head(line[w]), "waiting", "taken")
  /\ line' = [line EXCEPT ![w] = Tail(@)]

Shed(w) ==
  /\ line[w] # <<>>
  /\ stage' = [c \in Conns |-> IF \E i \in DOMAIN line[w] : line[w][i] = c
                               THEN "closed" ELSE stage[c]]
  /\ line' = [line EXCEPT ![w] = <<>>]

Begin(c) == \E to \in {"served", "closed"} : Move(c, "taken", to) /\ UNCHANGED line

Finish(c) == Move(c, "served", "closed") /\ UNCHANGED line

Next ==
  \/ \E c \in Conns : Refuse(c) \/ Begin(c) \/ Finish(c)
  \/ \E c \in Conns, w \in Workers : Enter(c, w)
  \/ \E w \in Workers : Take(w) \/ Shed(w)

Spec == Init /\ [][Next]_svars

FairSpec ==
  /\ Spec
  /\ \A w \in Workers : WF_svars(Take(w))
  /\ \A c \in Conns : WF_svars(Begin(c))
=============================================================================
