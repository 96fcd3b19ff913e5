------------------------------- MODULE MCText -------------------------------
(* An instance of StringSearch and HttpParse for TLC. *)
EXTENDS HttpParse

Letters == {"k", "K", "v"}
NUL == "nul"

SampleChars == Letters \cup {"eol", "blank", "colon", "?", "&", "=", "0", "3", "9", NUL}

SampleSwap == [c \in SampleChars |-> CASE c = "k" -> "K" [] c = "K" -> "k" [] OTHER -> c]

UpTo(n, S) == UNION {[1 .. m -> S] : m \in 0 .. n}

(* A call on text s and pattern p. *)
Call(s, p, caseless) ==
  [text      |-> [k \in 0 .. Len(s) |-> IF k < Len(s) THEN s[k + 1] ELSE NUL],
   text_size |-> Len(s),
   patt      |-> [k \in 0 .. Len(p) - 1 |-> p[k + 1]],
   patt_size |-> Len(p),
   caseless  |-> caseless]

Key == <<"k">>

(* Any short pattern in any text, with and without regard to case, and     *)
(* longer patterns of two letters.                                         *)
Searches ==
  {Call(s, p, b) : s \in UpTo(5, Letters), p \in UpTo(2, Letters) \ {<<>>}, b \in BOOLEAN}
    \cup {Call(s, p, TRUE) : s \in UpTo(6, {"k", "v"}), p \in [1 .. 3 -> {"K", "v"}]}

(* Request lines. *)
Targets == {Call(s, Key, FALSE) : s \in UpTo(5, {"v", "?", "blank", "eol"})}

(* Requests with any query. *)
Queries ==
  {Call(<<"v", "blank", "?">> \o s \o <<"blank", "v", "eol">>, Key, FALSE) :
     s \in UpTo(5, {"k", "v", "=", "&"})}

(* Headers with any fields, the last of which may not end, *)
Fields ==
  {Call(<<"eol">> \o s \o e, Key, TRUE) :
     s \in UpTo(4, Letters \cup {"eol", "blank", "colon"}), e \in {<<>>, <<"eol">>}}

(* and with a field that may be a number. *)
Lengths ==
  {Call(<<"eol", "k", "colon">> \o s \o <<"eol">>, Key, TRUE) :
     s \in UpTo(4, {"0", "3", "9", "blank", "v"})}

SampleInputs == Searches \cup Targets \cup Queries \cup Fields \cup Lengths
=============================================================================
