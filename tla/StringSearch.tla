---------------------------- MODULE StringSearch ----------------------------
(***************************************************************************)
(* sunday and sunday_case (bm.c), the search behind straddr and            *)
(* straddr_case (user_string.c), with which the HTTP header is taken       *)
(* apart.  The pattern's table of strides is filled first; then the text   *)
(* is scanned, and at each position that does not match the character just *)
(* behind the window, up to the terminating zero, decides how far to go.   *)
(*                                                                         *)
(* Strings are indexed from 0.  One step is one round of a loop of the     *)
(* code; the inner comparison is the operator MatchAt.                     *)
(***************************************************************************)
EXTENDS Integers

CONSTANTS
  Char,     \* characters, the terminating zero included
  Swap,     \* _T: the other case of a letter, any other character itself
  Inputs    \* the calls: text, text_size, patt, patt_size, caseless

ASSUME SwapAssumption == Swap \in [Char -> Char]

(* straddr calls with the length of a zero-terminated text and a pattern   *)
(* that is not empty.                                                      *)
IsCall(a) ==
  /\ a.text_size \in Nat
  /\ a.patt_size \in Nat \ {0}
  /\ a.text \in [0 .. a.text_size -> Char]
  /\ a.patt \in [0 .. a.patt_size - 1 -> Char]
  /\ a.caseless \in BOOLEAN

ASSUME InputsAssumption == \A a \in Inputs : IsCall(a)

VARIABLES
  args,     \* the arguments of the call
  pc,       \* "table", "scan" or "done"
  i,        \* the loop's variable
  shift,    \* per character, how far it lets the window go
  result    \* the returned offset

vars == <<args, pc, i, shift, result>>

text == args.text
text_size == args.text_size
patt == args.patt
patt_size == args.patt_size

limit == text_size - patt_size + 1

(* _CMP in sunday_case, == in sunday. *)
bm_cmp(s, c) == s = c \/ (args.caseless /\ s = Swap[c])

Init ==
  /\ args \in Inputs
  /\ pc = "table"
  /\ i = 0
  /\ shift = [c \in Char |-> patt_size + 1]
  /\ result = -1

(* Mutant: sunday_case enters the pattern's own case only. *)
fill_table_one_case ==
  /\ pc = "table"
  /\ i < patt_size
  /\ shift' = [shift EXCEPT ![patt[i]] = patt_size - i]
  /\ i' = i + 1
  /\ UNCHANGED <<args, pc, result>>

(* Character i of the pattern, in both cases if these do not matter. *)
fill_table ==
  /\ pc = "table"
  /\ i < patt_size
  /\ shift' = [c \in Char |-> IF bm_cmp(c, patt[i]) THEN patt_size - i ELSE shift[c]]
  /\ i' = i + 1
  /\ UNCHANGED <<args, pc, result>>

table_filled ==
  /\ pc = "table"
  /\ i = patt_size
  /\ pc' = "scan"
  /\ i' = 0
  /\ UNCHANGED <<args, shift, result>>

(* The pattern is at position p of the text. *)
MatchAt(p) == \A k \in 0 .. patt_size - 1 : bm_cmp(text[p + k], patt[k])

scan_hit ==
  /\ pc = "scan"
  /\ i < limit
  /\ MatchAt(i)
  /\ result' = i
  /\ pc' = "done"
  /\ UNCHANGED <<args, i, shift>>

(* Mutant: the stride is one short, and may be none. *)
scan_stride_short ==
  /\ pc = "scan"
  /\ i < limit
  /\ ~MatchAt(i)
  /\ i' = i + (shift[text[i + patt_size]] - 1)
  /\ UNCHANGED <<args, pc, shift, result>>

scan_miss ==
  /\ pc = "scan"
  /\ i < limit
  /\ ~MatchAt(i)
  /\ i' = i + shift[text[i + patt_size]]
  /\ UNCHANGED <<args, pc, shift, result>>

scan_end ==
  /\ pc = "scan"
  /\ i >= limit
  /\ pc' = "done"
  /\ UNCHANGED <<args, i, shift, result>>

Next == fill_table \/ table_filled \/ scan_hit \/ scan_miss \/ scan_end

Spec == Init /\ [][Next]_vars

(* The call is not abandoned. *)
FairSpec == Spec /\ WF_vars(Next)

-----------------------------------------------------------------------------
(* Properties. *)

(* Every variable keeps its type, and every stride is positive. *)
SearchTypeOK ==
  /\ IsCall(args)
  /\ pc \in {"table", "scan", "done"}
  /\ i \in Nat
  /\ shift \in [Char -> 1 .. patt_size + 1]
  /\ result \in Int
  /\ pc = "table" => i <= patt_size

(* What the search returns is where the pattern is first found, or -1 and  *)
(* the pattern is nowhere.                                                 *)
FirstOccurrence ==
  pc = "done" =>
    \/ /\ result \in 0 .. limit - 1
       /\ MatchAt(result)
       /\ \A p \in 0 .. result - 1 : ~MatchAt(p)
    \/ /\ result = -1
       /\ \A p \in 0 .. limit - 1 : ~MatchAt(p)

(* The strides are safe: a character that occurs in the pattern lets the   *)
(* window go no further than to its last occurrence there.                 *)
StridesSafe ==
  \A c \in Char, k \in 0 .. patt_size - 1 :
    (bm_cmp(c, patt[k]) /\ (pc = "table" => k < i)) => shift[c] <= patt_size - k

(* No stride leads past an occurrence. *)
NothingSkipped ==
  pc # "table" => \A p \in 0 .. i - 1 : p < limit => ~MatchAt(p)

(* The result is set by a hit alone. *)
ResultIsHit ==
  \/ result = -1 /\ (pc = "done" => i >= limit)
  \/ pc = "done" /\ result = i /\ i < limit /\ MatchAt(i)

SearchInv ==
  /\ SearchTypeOK
  /\ StridesSafe
  /\ NothingSkipped
  /\ ResultIsHit

(* The search ends: every stride is positive. *)
SearchEnds == <>(pc = "done")
=============================================================================
