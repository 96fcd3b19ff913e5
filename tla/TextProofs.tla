---------------------------- MODULE TextProofs ----------------------------
(***************************************************************************)
(* Theorems about StringSearch and HttpParse, for every text, pattern and  *)
(* alphabet, and for buffers of any size.                                  *)
(***************************************************************************)
EXTENDS HttpParse, NaturalsInduction, WellFoundedInduction, SequenceTheorems, TLAPS

-----------------------------------------------------------------------------
(* The search *)

(* What is known of a call. *)
LEMMA ArgsTyped ==
  ASSUME IsCall(args)
  PROVE  /\ text_size \in Nat
         /\ patt_size \in Nat \ {0}
         /\ text \in [0 .. text_size -> Char]
         /\ patt \in [0 .. patt_size - 1 -> Char]
         /\ limit \in Int
  BY DEF IsCall, text_size, patt_size, text, patt, limit

(* A call begins with an empty table and nothing skipped. *)
LEMMA InitInv == Init => SearchInv
  <1> SUFFICES ASSUME Init PROVE SearchInv
    OBVIOUS
  <1>0. IsCall(args)
    BY InputsAssumption DEF Init
  <1> USE <1>0, ArgsTyped DEF Init
  <1>1. SearchTypeOK
    BY DEF SearchTypeOK
  <1>2. StridesSafe
    BY DEF StridesSafe
  <1>3. NothingSkipped /\ ResultIsHit
    BY DEF NothingSkipped, ResultIsHit
  <1> QED
    BY <1>1, <1>2, <1>3 DEF SearchInv

(* The heart of the matter: the windows that a stride passes over would    *)
(* have to hold the character behind the present window, at a place where  *)
(* the pattern does not have it.                                           *)
LEMMA StrideSkipsNothing ==
  ASSUME SearchInv, pc = "scan", i < limit, ~MatchAt(i),
         NEW p \in 0 .. i + shift[text[i + patt_size]] - 1, p < limit
  PROVE  ~MatchAt(p)
  <1> DEFINE c == text[i + patt_size]
  <1>1. /\ text_size \in Nat /\ patt_size \in Nat \ {0}
        /\ i \in Nat /\ limit = text_size - patt_size + 1
        /\ i + patt_size \in 0 .. text_size
        /\ c \in Char
        /\ shift[c] \in 1 .. patt_size + 1
    BY ArgsTyped DEF SearchInv, SearchTypeOK, limit
  <1>2. CASE p < i
    BY <1>1, <1>2 DEF SearchInv, NothingSkipped
  <1>3. CASE p = i
    BY <1>3
  <1>4. CASE p > i
    <2> DEFINE k == i + patt_size - p
    <2>1. k \in 0 .. patt_size - 1 /\ patt_size - k < shift[c]
      BY <1>1, <1>4
    <2>2. ~bm_cmp(c, patt[k])
      BY <1>1, <2>1 DEF SearchInv, StridesSafe
    <2>3. p + k = i + patt_size
      BY <1>1
    <2> QED
      BY <2>1, <2>2, <2>3 DEF MatchAt
  <1> QED
    BY <1>1, <1>2, <1>3, <1>4

(* Every round of the two loops preserves the inductive invariant. *)
LEMMA NextInv == SearchInv /\ [Next]_vars => SearchInv'
  <1> SUFFICES ASSUME SearchInv, [Next]_vars PROVE SearchInv'
    OBVIOUS
  <1>t. /\ text_size \in Nat /\ patt_size \in Nat \ {0}
        /\ patt \in [0 .. patt_size - 1 -> Char]
        /\ text \in [0 .. text_size -> Char]
        /\ limit \in Int
    BY ArgsTyped DEF SearchInv, SearchTypeOK
  <1>a. /\ args' = args /\ text' = text /\ patt' = patt
        /\ text_size' = text_size /\ patt_size' = patt_size /\ limit' = limit
    BY DEF Next, vars, fill_table, table_filled, scan_hit, scan_miss, scan_end,
           text, patt, text_size, patt_size, limit
  <1>m. /\ \A s, c : bm_cmp(s, c)' <=> bm_cmp(s, c)
        /\ \A p : MatchAt(p)' <=> MatchAt(p)
    BY <1>a DEF bm_cmp, MatchAt
  <1>1. CASE fill_table
    <2>1. /\ i \in Nat /\ i < patt_size /\ pc = "table" /\ pc' = "table" /\ i' = i + 1
          /\ result' = result
          /\ shift' = [c \in Char |-> IF bm_cmp(c, patt[i]) THEN patt_size - i ELSE shift[c]]
      BY <1>1 DEF fill_table, SearchInv, SearchTypeOK
    <2>2. SearchTypeOK'
      BY <1>t, <1>a, <2>1 DEF SearchInv, SearchTypeOK
    <2>3. StridesSafe'
      <3> SUFFICES ASSUME NEW c \in Char, NEW k \in 0 .. patt_size - 1,
                          bm_cmp(c, patt[k]), k < i + 1
                   PROVE  shift'[c] <= patt_size - k
        BY <1>a, <1>m, <2>1 DEF StridesSafe
      <3>1. CASE bm_cmp(c, patt[i])
        BY <1>t, <2>1, <3>1
      <3>2. CASE ~bm_cmp(c, patt[i])
        <4>1. k < i
          BY <3>2, <2>1
        <4> QED
          BY <1>t, <2>1, <3>2, <4>1 DEF SearchInv, StridesSafe
      <3> QED
        BY <3>1, <3>2
    <2>4. NothingSkipped' /\ ResultIsHit'
      BY <2>1 DEF SearchInv, NothingSkipped, ResultIsHit
    <2> QED
      BY <2>2, <2>3, <2>4 DEF SearchInv
  <1>2. CASE table_filled
    <2>1. /\ i = patt_size /\ pc = "table" /\ pc' = "scan" /\ i' = 0
          /\ shift' = shift /\ result' = result
      BY <1>2 DEF table_filled
    <2>2. SearchTypeOK'
      BY <1>t, <1>a, <2>1 DEF SearchInv, SearchTypeOK
    <2>3. StridesSafe'
      BY <1>t, <1>a, <1>m, <2>1 DEF SearchInv, StridesSafe
    <2>4. NothingSkipped' /\ ResultIsHit'
      BY <2>1 DEF SearchInv, NothingSkipped, ResultIsHit
    <2> QED
      BY <2>2, <2>3, <2>4 DEF SearchInv
  <1>3. CASE scan_hit
    <2>1. /\ pc = "scan" /\ pc' = "done" /\ i' = i /\ i < limit /\ MatchAt(i)
          /\ shift' = shift /\ result' = i
      BY <1>3 DEF scan_hit
    <2>2. SearchTypeOK'
      BY <1>t, <1>a, <2>1 DEF SearchInv, SearchTypeOK
    <2>3. StridesSafe'
      BY <1>a, <1>m, <2>1 DEF SearchInv, StridesSafe
    <2>4. NothingSkipped'
      BY <1>a, <1>m, <2>1 DEF SearchInv, NothingSkipped
    <2>5. ResultIsHit'
      BY <1>a, <1>m, <2>1 DEF ResultIsHit
    <2> QED
      BY <2>2, <2>3, <2>4, <2>5 DEF SearchInv
  <1>4. CASE scan_miss
    <2>1. /\ pc = "scan" /\ pc' = "scan" /\ i < limit /\ ~MatchAt(i)
          /\ i' = i + shift[text[i + patt_size]]
          /\ shift' = shift /\ result' = result
      BY <1>4 DEF scan_miss
    <2>2. shift[text[i + patt_size]] \in Nat /\ i \in Nat
      <3>1. i \in Nat /\ shift \in [Char -> 1 .. patt_size + 1]
        BY DEF SearchInv, SearchTypeOK
      <3>2. i + patt_size \in 0 .. text_size
        BY <1>t, <2>1, <3>1 DEF limit
      <3>3. text[i + patt_size] \in Char
        BY <1>t, <3>2
      <3> QED BY <1>t, <3>1, <3>3
    <2>3. SearchTypeOK'
      <3>1. i' \in Nat
        BY ONLY <2>1, <2>2
      <3>2. SearchTypeOK
        BY DEF SearchInv
      <3> QED BY ONLY <1>a, <2>1, <3>1, <3>2 DEF SearchTypeOK
    <2>4. StridesSafe'
      BY <1>a, <1>m, <2>1 DEF SearchInv, StridesSafe
    <2>5. NothingSkipped'
      <3> DEFINE j == i + shift[text[i + patt_size]] - 1
      <3>1. \A p \in 0 .. j : p < limit => ~MatchAt(p)
        BY <2>1, StrideSkipsNothing
      <3>2. i' - 1 = j
        BY <2>1, <2>2
      <3> HIDE DEF j
      <3> QED
        BY <1>a, <1>m, <3>1, <3>2 DEF NothingSkipped
    <2>6. ResultIsHit'
      BY <2>1 DEF SearchInv, ResultIsHit
    <2> QED
      BY <2>3, <2>4, <2>5, <2>6 DEF SearchInv
  <1>5. CASE scan_end
    <2>1. /\ pc = "scan" /\ pc' = "done" /\ i' = i /\ i >= limit
          /\ shift' = shift /\ result' = result
      BY <1>5 DEF scan_end
    <2>2. SearchTypeOK'
      BY <1>t, <1>a, <2>1 DEF SearchInv, SearchTypeOK
    <2>3. StridesSafe' /\ NothingSkipped'
      BY <1>a, <1>m, <2>1 DEF SearchInv, StridesSafe, NothingSkipped
    <2>4. ResultIsHit'
      BY <1>a, <1>m, <2>1 DEF SearchInv, ResultIsHit
    <2> QED
      BY <2>2, <2>3, <2>4 DEF SearchInv
  <1>6. CASE UNCHANGED vars
    <2>1. pc' = pc /\ i' = i /\ shift' = shift /\ result' = result
      BY <1>6 DEF vars
    <2>2. SearchTypeOK'
      BY <1>a, <2>1 DEF SearchInv, SearchTypeOK
    <2>3. StridesSafe' /\ NothingSkipped'
      BY <1>a, <1>m, <2>1 DEF SearchInv, StridesSafe, NothingSkipped
    <2>4. ResultIsHit'
      BY <1>a, <1>m, <2>1 DEF SearchInv, ResultIsHit
    <2> QED
      BY <2>2, <2>3, <2>4 DEF SearchInv
  <1> QED
    BY <1>1, <1>2, <1>3, <1>4, <1>5, <1>6 DEF Next

(* The inductive invariant gives the result its meaning. *)
LEMMA InvImplies == SearchInv => FirstOccurrence
  <1> SUFFICES ASSUME SearchInv, pc = "done" PROVE
         \/ /\ result \in 0 .. limit - 1
            /\ MatchAt(result)
            /\ \A p \in 0 .. result - 1 : ~MatchAt(p)
         \/ /\ result = -1
            /\ \A p \in 0 .. limit - 1 : ~MatchAt(p)
    BY DEF FirstOccurrence
  <1>1. limit \in Int /\ i \in Nat /\ \A p \in 0 .. i - 1 : p < limit => ~MatchAt(p)
    BY ArgsTyped DEF SearchInv, SearchTypeOK, NothingSkipped
  <1>2. CASE result = -1 /\ i >= limit
    BY <1>1, <1>2
  <1>3. CASE result = i /\ i < limit /\ MatchAt(i)
    BY <1>1, <1>3
  <1> QED
    BY <1>2, <1>3 DEF SearchInv, ResultIsHit

(* Types: strides stay between 1 and the pattern's length plus 1, and so   *)
(* the table is never read outside the text and its terminating zero.      *)
THEOREM SearchTypeCorrect == Spec => []SearchTypeOK
  <1>1. SearchInv => SearchTypeOK
    BY DEF SearchInv
  <1> QED
    BY InitInv, NextInv, <1>1, PTL DEF Spec

(* sunday and sunday_case return the first occurrence of the pattern in    *)
(* the text, and -1 only if there is none, for every text, pattern and     *)
(* alphabet, with and without regard to case.                              *)
THEOREM SearchFindsFirst == Spec => []FirstOccurrence
  BY InitInv, NextInv, InvImplies, PTL DEF Spec

-----------------------------------------------------------------------------
(* First positions and parts of strings *)

(* A set of natural numbers has a least element. *)
LEMMA LeastElement ==
  ASSUME NEW S \in SUBSET Nat, S # {} PROVE \E n \in S : \A m \in S : n <= m
  <1> DEFINE R == {ss \in Nat \X Nat : ss[1] < ss[2]}
  <1>1. IsWellFoundedOn(R, Nat)
    <2>1. R = OpToRel(<, Nat)
      BY Zenon DEF OpToRel
    <2> HIDE DEF R
    <2> QED BY <2>1, NatLessThanWellFounded, Zenon
  <1>2. PICK n \in S : \A m \in S : ~(<<m, n>> \in R)
    <2> HIDE DEF R
    <2> QED BY <1>1, WFMin, Zenon
  <1>3. ASSUME NEW m \in S PROVE n <= m
    <2>1. ~(<<m, n>> \in R)
      BY <1>2
    <2>2. m \in Nat /\ n \in Nat
      OBVIOUS
    <2>3. ~(m < n)
      BY <2>1, <2>2
    <2> QED BY <2>2, <2>3
  <1> QED BY <1>3

(* The first position is the one that no other precedes. *)
LEMMA FirstIs ==
  ASSUME NEW S \in SUBSET Nat, NEW k \in S, \A m \in S : k <= m
  PROVE  FirstOf(S) = k
  <1>1. \A x \in S : (\A y \in S : x =< y) => x = k
    OBVIOUS
  <1>2. Min(S) = k
    BY <1>1 DEF Min
  <1> QED BY <1>2 DEF FirstOf

(* There is one unless there is no position at all. *)
LEMMA FirstOfIs ==
  ASSUME NEW S \in SUBSET (Nat \ {0})
  PROVE  \/ S = {} /\ FirstOf(S) = 0
         \/ FirstOf(S) \in S /\ \A m \in S : FirstOf(S) <= m
  <1>1. CASE S = {}
    BY <1>1 DEF FirstOf
  <1>2. CASE S # {}
    <2>1. S \in SUBSET Nat
      OBVIOUS
    <2>2. PICK k \in S : \A m \in S : k <= m
      BY <1>2, <2>1, LeastElement
    <2>3. FirstOf(S) = k
      BY <2>1, <2>2, FirstIs
    <2> QED BY <2>2, <2>3
  <1> QED BY <1>1, <1>2

(* It is a number, and a position unless it is 0. *)
LEMMA FirstTyped ==
  ASSUME NEW S \in SUBSET (Nat \ {0})
  PROVE  FirstOf(S) \in Nat /\ (FirstOf(S) > 0 => FirstOf(S) \in S) /\ (S # {} => FirstOf(S) > 0)
  <1>1. CASE S = {} /\ FirstOf(S) = 0
    BY <1>1
  <1>2. CASE FirstOf(S) \in S
    <2> DEFINE k == FirstOf(S)
    <2>1. k \in S
      BY <1>2
    <2> HIDE DEF k
    <2>2. k \in Nat /\ k > 0 /\ k \in S
      BY <2>1
    <2> QED BY <2>2 DEF k
  <1> QED BY <1>1, <1>2, FirstOfIs

(* Characters a to b of a string. *)
LEMMA PartIs ==
  ASSUME NEW T, NEW s \in Seq(T), NEW a \in Nat \ {0}, NEW b \in Nat, b <= Len(s), a <= b + 1
  PROVE  /\ SubSeq(s, a, b) \in Seq(T) /\ Len(SubSeq(s, a, b)) = b - a + 1
         /\ \A j \in 1 .. b - a + 1 : SubSeq(s, a, b)[j] = s[a + j - 1]
  <1>1. ASSUME NEW j \in a .. b PROVE s[j] \in T
    <2>1. j \in 1 .. Len(s)
      BY LenProperties
    <2> QED BY <2>1, ElementOfSeq
  <1>2. /\ SubSeq(s, a, b) \in Seq(T)
        /\ Len(SubSeq(s, a, b)) = IF a <= b THEN b - a + 1 ELSE 0
        /\ \A j \in 1 .. b - a + 1 : SubSeq(s, a, b)[j] = s[a + j - 1]
    BY <1>1, SubSeqProperties
  <1> QED BY <1>2

(* A part of a line is a part of the header it begins. *)
LEMMA PartOfLine ==
  ASSUME NEW T, NEW s \in Seq(T), NEW m \in 0 .. Len(s),
         NEW a \in Nat \ {0}, NEW b \in Nat, b <= m, a <= b + 1
  PROVE  SubSeq(SubSeq(s, 1, m), a, b) = SubSeq(s, a, b)
  <1> DEFINE l == SubSeq(s, 1, m)
             x == SubSeq(l, a, b)
             y == SubSeq(s, a, b)
  <1>1. Len(s) \in Nat /\ m \in Nat /\ 1 \in Nat \ {0} /\ m <= Len(s) /\ 1 <= m + 1 /\ b <= Len(s)
    BY LenProperties
  <1>2. l \in Seq(T) /\ Len(l) = m - 1 + 1 /\ \A j \in 1 .. m - 1 + 1 : l[j] = s[1 + j - 1]
    BY <1>1, PartIs
  <1>3. Len(l) = m /\ \A j \in 1 .. m : l[j] = s[j]
    BY <1>1, <1>2
  <1> HIDE DEF l
  <1>4. /\ x \in Seq(T) /\ Len(x) = b - a + 1
        /\ \A j \in 1 .. b - a + 1 : x[j] = l[a + j - 1]
    BY <1>2, <1>3, PartIs
  <1>5. /\ y \in Seq(T) /\ Len(y) = b - a + 1
        /\ \A j \in 1 .. b - a + 1 : y[j] = s[a + j - 1]
    BY <1>1, PartIs
  <1> HIDE DEF x, y
  <1>6. ASSUME NEW j \in 1 .. b - a + 1 PROVE x[j] = y[j]
    <2>1. a + j - 1 \in 1 .. m
      BY <1>1
    <2> QED BY <1>3, <1>4, <1>5, <2>1
  <1>7. x = y
    BY <1>4, <1>5, <1>6, SeqEqual
  <1> QED BY <1>7 DEF x, y, l

(* A string of one character is found where that character is. *)
LEMMA HasChar ==
  ASSUME NEW T, NEW s \in Seq(T), NEW c \in T, NEW k \in 1 .. Len(s)
  PROVE  Has(s, <<c>>, k) <=> s[k] = c
  <1>1. /\ Len(s) \in Nat /\ Len(<<c>>) = 1
        /\ k \in Nat \ {0} /\ k \in Nat /\ k <= Len(s) /\ k <= k + 1
    BY LenProperties
  <1>2. k + Len(<<c>>) - 1 = k
    BY <1>1
  <1>3. /\ SubSeq(s, k, k) \in Seq(T) /\ Len(SubSeq(s, k, k)) = k - k + 1
        /\ \A j \in 1 .. k - k + 1 : SubSeq(s, k, k)[j] = s[k + j - 1]
    BY <1>1, PartIs
  <1>4. Len(SubSeq(s, k, k)) = 1 /\ SubSeq(s, k, k)[1] = s[k]
    <2>1. k - k + 1 = 1 /\ k + 1 - 1 = k /\ 1 \in 1 .. 1
      BY <1>1
    <2> QED BY <1>3, <2>1
  <1>5. <<c>> \in Seq(T) /\ <<c>>[1] = c
    OBVIOUS
  <1>6. ASSUME s[k] = c PROVE SubSeq(s, k, k) = <<c>>
    <2>1. ASSUME NEW j \in 1 .. Len(SubSeq(s, k, k)) PROVE SubSeq(s, k, k)[j] = <<c>>[j]
      BY <1>4, <1>5, <1>6
    <2> QED BY <1>1, <1>3, <1>4, <1>5, <2>1, SeqEqual
  <1> QED BY <1>1, <1>2, <1>4, <1>5, <1>6 DEF Has

(* straddr finds the end of a line. *)
LEMMA EolFrom ==
  ASSUME NEW h \in Seq(Char), NEW from \in Nat \ {0}
  PROVE  straddr(h, <<"eol">>, from) = FirstOf({k \in from .. Len(h) : h[k] = "eol"})
  <1>1. Len(h) \in Nat /\ Len(<<"eol">>) = 1 /\ Len(h) - Len(<<"eol">>) + 1 = Len(h)
    BY LenProperties
  <1>2. ASSUME NEW k \in from .. Len(h) PROVE Has(h, <<"eol">>, k) <=> h[k] = "eol"
    <2>1. k \in 1 .. Len(h)
      BY <1>1
    <2> QED BY <2>1, EolAssumption, HasChar
  <1>3. {k \in from .. Len(h) : Has(h, <<"eol">>, k)} = {k \in from .. Len(h) : h[k] = "eol"}
    BY <1>2
  <1> QED BY <1>1, <1>3 DEF straddr

(* The header and the name of a call are strings, the name is not empty. *)
LEMMA CallTyped ==
  ASSUME IsCall(args)
  PROVE  Header \in Seq(Char) /\ Name \in Seq(Char) /\ Len(Name) > 0
  <1>1. /\ text_size \in Nat /\ patt_size \in Nat \ {0} /\ patt_size \in Nat
        /\ text \in [0 .. text_size -> Char] /\ patt \in [0 .. patt_size - 1 -> Char]
    BY ArgsTyped
  <1>2. Header \in [1 .. text_size -> Char] /\ Name \in [1 .. patt_size -> Char]
    BY <1>1 DEF Header, Name
  <1>3. Header \in Seq(Char) /\ Name \in Seq(Char)
    BY <1>1, <1>2, SeqDef
  <1>4. 1 .. Len(Name) = 1 .. patt_size /\ Len(Name) \in Nat
    BY <1>2, <1>3, LenProperties
  <1>5. Len(Name) = patt_size
    BY <1>1, <1>4
  <1> QED BY <1>1, <1>3, <1>5

-----------------------------------------------------------------------------
(* The URL *)

(* A request line that ends at position e of header h, with a word from a  *)
(* to b that has a blank on either side and no word before it.             *)
TargetAt(h, e, a, b) ==
  /\ e \in 1 .. Len(h) /\ h[e] = "eol" /\ \A k \in 1 .. e - 1 : h[k] # "eol"
  /\ a \in 2 .. b /\ b \in 2 .. e - 2
  /\ h[a - 1] = "blank" /\ h[b + 1] = "blank"
  /\ \A k \in a .. b : h[k] # "blank"
  /\ \A w \in Words(SubSeq(h, 1, e - 1)) : a <= w[1]

(* Every target is such a word. *)
LEMMA TargetIs ==
  ASSUME NEW h \in Seq(Char), Ends(h) # {}, NEW t \in Target(RequestLine(h))
  PROVE  \E e, a, b \in Nat : TargetAt(h, e, a, b) /\ t = SubSeq(h, a, b)
  <1> DEFINE e == FirstOf(Ends(h))
             l == SubSeq(h, 1, e - 1)
  <1>1. DOMAIN h = 1 .. Len(h) /\ Len(h) \in Nat
    BY LenProperties
  <1>2. e \in Ends(h) /\ \A m \in Ends(h) : e <= m
    <2>1. Ends(h) \in SUBSET (Nat \ {0})
      BY <1>1 DEF Ends
    <2> QED BY <2>1, FirstOfIs
  <1>3. e \in 1 .. Len(h) /\ h[e] = "eol" /\ \A k \in 1 .. e - 1 : h[k] # "eol"
    <2>1. e \in 1 .. Len(h) /\ h[e] = "eol"
      BY <1>1, <1>2 DEF Ends
    <2>2. ASSUME NEW k \in 1 .. e - 1, h[k] = "eol" PROVE FALSE
      <3>1. k \in Ends(h)
        BY <1>1, <2>1, <2>2 DEF Ends
      <3> QED BY <1>2, <2>1, <3>1
    <2> QED BY <2>1, <2>2
  <1>4. RequestLine(h) = l
    BY DEF RequestLine
  <1> HIDE DEF e
  <1>5. l \in Seq(Char) /\ Len(l) = e - 1 /\ \A j \in 1 .. e - 1 : l[j] = h[j]
    <2>1. 1 \in Nat \ {0} /\ e - 1 \in Nat /\ e - 1 <= Len(h) /\ 1 <= (e - 1) + 1
      BY <1>1, <1>3
    <2>2. /\ l \in Seq(Char) /\ Len(l) = (e - 1) - 1 + 1
          /\ \A j \in 1 .. (e - 1) - 1 + 1 : l[j] = h[1 + j - 1]
      BY <2>1, PartIs
    <2>3. (e - 1) - 1 + 1 = e - 1 /\ \A j \in 1 .. e - 1 : 1 + j - 1 = j
      BY <2>1
    <2> HIDE DEF l
    <2> QED BY <2>2, <2>3
  <1>6. PICK x \in Words(l) : /\ x[2] < Len(l) /\ \A y \in Words(l) : x[1] <= y[1]
                              /\ t = SubSeq(l, x[1], x[2])
    BY <1>4 DEF Target
  <1> DEFINE a == x[1]
             b == x[2]
  <1>7. /\ a \in 2 .. Len(l) /\ b \in 2 .. Len(l) /\ a <= b
        /\ \A k \in a .. b : l[k] # "blank"
        /\ l[a - 1] = "blank" /\ (b < Len(l) => l[b + 1] = "blank")
    BY DEF Words
  <1>8. t = SubSeq(l, a, b) /\ b < Len(l)
    BY <1>6
  <1>w. \A y \in Words(l) : a <= y[1]
    BY <1>6
  <1> HIDE DEF a, b
  <1>9. a \in Nat \ {0} /\ b \in Nat /\ e \in Nat /\ a \in 2 .. b /\ b \in 2 .. e - 2
    BY <1>1, <1>3, <1>5, <1>7, <1>8
  <1>10. /\ h[a - 1] = "blank" /\ h[b + 1] = "blank" /\ \A k \in a .. b : h[k] # "blank"
    <2>1. a - 1 \in 1 .. e - 1 /\ b + 1 \in 1 .. e - 1 /\ \A k \in a .. b : k \in 1 .. e - 1
      BY <1>9
    <2> HIDE DEF l
    <2> QED BY <1>5, <1>7, <1>8, <2>1
  <1>11. TargetAt(h, e, a, b)
    BY <1>3, <1>w, <1>9, <1>10 DEF TargetAt
  <1>12. t = SubSeq(h, a, b)
    <2>1. e - 1 \in 0 .. Len(h) /\ b <= e - 1 /\ a <= b + 1
      BY <1>1, <1>3, <1>9
    <2> QED BY <1>8, <1>9, <2>1, PartOfLine
  <1> QED BY <1>9, <1>11, <1>12

(* What stands before it, after the first blank, is blanks: any other      *)
(* character would begin a word.                                           *)
LEMMA BlanksBefore ==
  ASSUME NEW h \in Seq(Char), NEW e \in Nat, NEW a \in Nat, NEW b \in Nat, TargetAt(h, e, a, b),
         NEW sp \in 1 .. a - 1, h[sp] = "blank", NEW k \in sp + 1 .. a - 1
  PROVE  h[k] = "blank"
  <1> SUFFICES ASSUME h[k] # "blank" PROVE FALSE
    OBVIOUS
  <1> DEFINE l == SubSeq(h, 1, e - 1)
             S == {j \in sp + 1 .. a - 1 : h[j] # "blank"}
  <1>1. /\ Len(h) \in Nat /\ e \in 1 .. Len(h) /\ a \in 2 .. b /\ b \in 2 .. e - 2
        /\ h[a - 1] = "blank"
    BY LenProperties DEF TargetAt
  <1>w. \A w \in Words(l) : a <= w[1]
    BY DEF TargetAt
  <1>2. PICK c \in S : \A j \in S : c <= j
    <2>1. S \in SUBSET Nat /\ S # {}
      BY <1>1
    <2> HIDE DEF S
    <2> QED BY <2>1, LeastElement
  <1>3. c \in sp + 1 .. a - 1 /\ h[c] # "blank" /\ h[c - 1] = "blank"
    <2>1. c \in sp + 1 .. a - 1 /\ h[c] # "blank"
      OBVIOUS
    <2>2. ASSUME h[c - 1] # "blank" PROVE FALSE
      <3>1. c - 1 \in sp + 1 .. a - 1
        BY <1>1, <2>1, <2>2
      <3>2. c - 1 \in S
        BY <2>2, <3>1
      <3> HIDE DEF S
      <3> QED BY <1>2, <2>1, <3>2
    <2> QED BY <2>1, <2>2
  <1> HIDE DEF S
  <1> DEFINE U == {j \in c .. a - 1 : h[j] = "blank"}
  <1>4. PICK d \in U : \A j \in U : d <= j
    <2>1. U \in SUBSET Nat /\ a - 1 \in U
      BY <1>1, <1>3
    <2> HIDE DEF U
    <2> QED BY <2>1, LeastElement
  <1>5. d \in c + 1 .. a - 1 /\ h[d] = "blank" /\ \A j \in c .. d - 1 : h[j] # "blank"
    <2>1. d \in c .. a - 1 /\ h[d] = "blank"
      OBVIOUS
    <2>2. d # c
      BY <1>3, <2>1
    <2>3. ASSUME NEW j \in c .. d - 1, h[j] = "blank" PROVE FALSE
      <3>1. j \in U
        BY <1>1, <1>3, <2>1, <2>3
      <3> HIDE DEF U
      <3> QED BY <1>1, <1>3, <1>4, <2>1, <3>1
    <2> QED BY <1>1, <1>3, <2>1, <2>2, <2>3
  <1> HIDE DEF U
  <1>6. Len(l) = e - 1 /\ \A j \in 1 .. e - 1 : l[j] = h[j]
    <2>1. 1 \in Nat \ {0} /\ e - 1 \in Nat /\ e - 1 <= Len(h) /\ 1 <= (e - 1) + 1
      BY <1>1
    <2>2. /\ Len(l) = (e - 1) - 1 + 1
          /\ \A j \in 1 .. (e - 1) - 1 + 1 : l[j] = h[1 + j - 1]
      BY <2>1, PartIs
    <2>3. (e - 1) - 1 + 1 = e - 1 /\ \A j \in 1 .. e - 1 : 1 + j - 1 = j
      BY <2>1
    <2> HIDE DEF l
    <2> QED BY <2>2, <2>3
  <1>7. <<c, d - 1>> \in Words(l)
    <2>1. /\ c \in 2 .. e - 1 /\ d - 1 \in 2 .. e - 1 /\ c <= d - 1
          /\ c - 1 \in 1 .. e - 1 /\ (d - 1) + 1 = d /\ d \in 1 .. e - 1
          /\ \A j \in c .. d - 1 : j \in 1 .. e - 1
      BY <1>1, <1>3, <1>5
    <2> HIDE DEF l
    <2>2. /\ \A j \in c .. d - 1 : l[j] # "blank" /\ l[c - 1] = "blank" /\ l[(d - 1) + 1] = "blank"
      BY <1>3, <1>5, <1>6, <2>1
    <2> DEFINE w == <<c, d - 1>>
    <2>3. w[1] = c /\ w[2] = d - 1 /\ w \in (2 .. Len(l)) \X (2 .. Len(l))
      BY <1>6, <2>1
    <2> HIDE DEF w
    <2>4. w \in Words(l)
      BY <2>1, <2>2, <2>3 DEF Words
    <2> QED BY <2>4 DEF w
  <1>8. a <= c
    <2> DEFINE w == <<c, d - 1>>
    <2>1. w \in Words(l) /\ w[1] = c
      BY <1>7
    <2> HIDE DEF w, l
    <2> QED BY <1>w, <2>1
  <1> QED BY <1>1, <1>3, <1>8

(* The URL that is taken out of the header is that word, if it fits. *)
LEMMA UrlAt ==
  ASSUME NEW h \in Seq(Char), NEW e \in Nat, NEW a \in Nat, NEW b \in Nat, TargetAt(h, e, a, b),
         NEW size \in Nat
  PROVE  httpRequest_get_url(h, size) = {u \in {SubSeq(h, a, b)} : Len(u) < size}
  <1> DEFINE sp == strchr(h, "blank", 1)
             eol == straddr(h, <<"eol">>, sp + 1)
             p == FirstOf({k \in sp + 1 .. eol : h[k] # "blank"})
             q == strchr(h, "blank", p)
             t == SubSeq(h, a, b)
  <1>1. /\ Len(h) \in Nat /\ e \in 1 .. Len(h) /\ a \in 2 .. b /\ b \in 2 .. e - 2
        /\ h[e] = "eol" /\ (\A k \in 1 .. e - 1 : h[k] # "eol")
        /\ h[a - 1] = "blank" /\ h[b + 1] = "blank" /\ \A k \in a .. b : h[k] # "blank"
    BY LenProperties DEF TargetAt
  <1>2. sp \in 1 .. a - 1 /\ h[sp] = "blank"
    <2> DEFINE S == {k \in 1 .. Len(h) : h[k] = "blank"}
    <2>1. S \in SUBSET (Nat \ {0}) /\ a - 1 \in S
      BY <1>1
    <2>2. sp = FirstOf(S)
      BY DEF strchr
    <2> HIDE DEF S, sp
    <2>3. sp \in S /\ sp <= a - 1
      BY <2>1, <2>2, FirstOfIs
    <2> QED BY <1>1, <2>3 DEF S
  <1> HIDE DEF sp
  <1>3. eol = e
    <2> DEFINE S == {k \in sp + 1 .. Len(h) : h[k] = "eol"}
    <2>1. S \in SUBSET Nat /\ e \in S
      BY <1>1, <1>2
    <2>2. ASSUME NEW m \in S PROVE e <= m
      BY <1>1, <1>2
    <2>3. eol = FirstOf(S)
      <3>1. sp + 1 \in Nat \ {0}
        BY <1>1, <1>2
      <3> QED BY <3>1, EolFrom
    <2> HIDE DEF S, eol
    <2> QED BY <2>1, <2>2, <2>3, FirstIs
  <1> HIDE DEF eol
  <1>4. p = a
    <2> DEFINE S == {k \in sp + 1 .. eol : h[k] # "blank"}
    <2>1. S \in SUBSET Nat /\ a \in S
      BY <1>1, <1>2, <1>3
    <2>2. ASSUME NEW m \in S, m < a PROVE FALSE
      <3>1. m \in sp + 1 .. a - 1
        BY <1>1, <1>2, <1>3, <2>2
      <3>2. h[m] = "blank"
        BY <1>2, <3>1, BlanksBefore
      <3> QED BY <3>2
    <2>3. \A m \in S : a <= m
      BY <2>1, <2>2
    <2> HIDE DEF S
    <2>4. FirstOf(S) = a
      BY <2>1, <2>3, FirstIs
    <2> QED BY <2>4 DEF S
  <1> HIDE DEF p
  <1>5. q = b + 1
    <2> DEFINE S == {k \in a .. Len(h) : h[k] = "blank"}
    <2>1. S \in SUBSET Nat /\ b + 1 \in S
      BY <1>1
    <2>2. ASSUME NEW m \in S PROVE b + 1 <= m
      BY <1>1
    <2>3. q = FirstOf(S)
      BY <1>4 DEF strchr
    <2> HIDE DEF S, q
    <2> QED BY <2>1, <2>2, <2>3, FirstIs
  <1> HIDE DEF q
  <1>6. Len(t) = b - a + 1
    <2>1. a \in Nat \ {0} /\ b <= Len(h) /\ a <= b + 1
      BY <1>1
    <2> QED BY <2>1, PartIs
  <1>7. /\ sp > 0 /\ eol > 0 /\ q > p
        /\ q - p <= size - 1 <=> Len(t) < size
        /\ q - 1 = b
    <2> HIDE DEF t
    <2> QED BY <1>1, <1>2, <1>3, <1>4, <1>5, <1>6
  <1>8. httpRequest_get_url(h, size) =
          IF sp > 0 /\ eol > 0 /\ q > p /\ q - p <= size - 1 THEN {SubSeq(h, p, q - 1)} ELSE {}
    BY DEF httpRequest_get_url, sp, eol, p, q
  <1>9. SubSeq(h, p, q - 1) = t
    BY <1>4, <1>7
  <1> HIDE DEF t
  <1>10. httpRequest_get_url(h, size) = IF Len(t) < size THEN {t} ELSE {}
    BY <1>7, <1>8, <1>9
  <1> QED BY <1>10 DEF t

(* The part of a string before its first mark, or all of it. *)
LEMMA CutIs ==
  ASSUME NEW u \in Seq(Char)
  PROVE  (IF strchr(u, "?", 1) > 0 THEN strchr(u, "?", 1) - 1 ELSE Len(u)) =
           FirstOf({k \in DOMAIN u : u[k] = "?"} \cup {Len(u) + 1}) - 1
  <1> DEFINE S == {k \in 1 .. Len(u) : u[k] = "?"}
             cut == FirstOf(S)
             mark == FirstOf(S \cup {Len(u) + 1})
  <1>1. Len(u) \in Nat /\ DOMAIN u = 1 .. Len(u)
    BY LenProperties
  <1>2. /\ S \in SUBSET (Nat \ {0}) /\ \A k \in S : k <= Len(u)
        /\ S \cup {Len(u) + 1} \in SUBSET Nat
    BY <1>1
  <1>3. strchr(u, "?", 1) = cut /\ {k \in DOMAIN u : u[k] = "?"} = S
    BY <1>1 DEF strchr
  <1> SUFFICES (IF cut > 0 THEN cut - 1 ELSE Len(u)) = mark - 1
    BY <1>3
  <1> HIDE DEF S
  <1>4. CASE S = {} /\ cut = 0
    <2>1. Len(u) + 1 \in S \cup {Len(u) + 1} /\ \A m \in S \cup {Len(u) + 1} : Len(u) + 1 <= m
      BY <1>1, <1>4
    <2>2. mark = Len(u) + 1
      BY <1>2, <2>1, FirstIs
    <2> QED BY <1>1, <1>4, <2>2
  <1>5. CASE cut \in S /\ \A m \in S : cut <= m
    <2> HIDE DEF cut
    <2>1. cut \in Nat \ {0} /\ cut \in S \cup {Len(u) + 1} /\ \A m \in S \cup {Len(u) + 1} : cut <= m
      BY <1>1, <1>2, <1>5
    <2>2. mark = cut
      BY <1>2, <2>1, FirstIs
    <2> QED BY <2>1, <2>2
  <1> QED BY <1>2, <1>4, <1>5, FirstOfIs

(* A call is what it was: the invariant of the search knows its types. *)
LEMMA SearchInvariant == Spec => []SearchInv
  BY InitInv, NextInv, PTL DEF Spec

(* For every header and buffers of any size the URL is the target of the   *)
(* request line, and its path the target up to the first question mark.    *)
THEOREM UrlFound == Spec => []UrlIsTarget
  <1>1. ASSUME SearchInv PROVE UrlIsTarget
    <2> DEFINE h == Header
    <2> SUFFICES ASSUME Ends(h) # {}, NEW t \in Target(RequestLine(h))
                 PROVE  LET mark == FirstOf({k \in DOMAIN t : t[k] = "?"} \cup {Len(t) + 1})
                        IN /\ httpRequest_get_url(h, UrlBuf) = {u \in {t} : Len(u) < UrlBuf}
                           /\ httpRequest_get_url_path(h, PathBuf) =
                                {SubSeq(u, 1, mark - 1) : u \in {u \in {t} : Len(u) < PathBuf}}
      BY DEF UrlIsTarget
    <2>1. h \in Seq(Char)
      BY <1>1, CallTyped DEF SearchInv, SearchTypeOK
    <2> HIDE DEF h
    <2>2. PICK e, a, b \in Nat : TargetAt(h, e, a, b) /\ t = SubSeq(h, a, b)
      BY <2>1, TargetIs
    <2>3. UrlBuf \in Nat /\ PathBuf \in Nat
      BY LimitsAssumption
    <2>4. /\ httpRequest_get_url(h, UrlBuf) = {u \in {t} : Len(u) < UrlBuf}
          /\ httpRequest_get_url(h, PathBuf) = {u \in {t} : Len(u) < PathBuf}
      BY <2>1, <2>2, <2>3, UrlAt
    <2>5. t \in Seq(Char)
      <3>1. a \in Nat \ {0} /\ b <= Len(h) /\ a <= b + 1
        BY <2>1, <2>2, LenProperties DEF TargetAt
      <3> QED BY <2>1, <2>2, <3>1, PartIs
    <2> DEFINE mark == FirstOf({k \in DOMAIN t : t[k] = "?"} \cup {Len(t) + 1})
    <2>6. (IF strchr(t, "?", 1) > 0 THEN strchr(t, "?", 1) - 1 ELSE Len(t)) = mark - 1
      BY <2>5, CutIs
    <2> HIDE DEF mark
    <2>7. httpRequest_get_url_path(h, PathBuf) =
            {SubSeq(u, 1, mark - 1) : u \in {u \in {t} : Len(u) < PathBuf}}
      <3>1. httpRequest_get_url_path(h, PathBuf) =
              {SubSeq(u, 1, IF strchr(u, "?", 1) > 0 THEN strchr(u, "?", 1) - 1 ELSE Len(u)) :
                 u \in {u \in {t} : Len(u) < PathBuf}}
        BY <2>4 DEF httpRequest_get_url_path
      <3> QED BY <2>6, <3>1
    <2> QED BY <2>4, <2>7 DEF mark
  <1> QED BY <1>1, SearchInvariant, PTL

-----------------------------------------------------------------------------
(* Parameters *)

(* There is one URL at most, and so one query. *)
LEMMA OneUrl ==
  ASSUME NEW h, NEW size, NEW u \in httpRequest_get_url(h, size), NEW v \in httpRequest_get_url(h, size)
  PROVE  u = v
  BY DEF httpRequest_get_url

(* So is the query. *)
LEMMA OneQuery ==
  ASSUME NEW h, NEW size, NEW r \in httpRequest_get_url_parmer(h, size)
  PROVE  httpRequest_get_url_parmer(h, size) = {r}
  <1>1. PICK u \in httpRequest_get_url(h, size) : r = SubSeq(u, strchr(u, "?", 1), Len(u))
    BY DEF httpRequest_get_url_parmer
  <1>2. ASSUME NEW x \in httpRequest_get_url_parmer(h, size) PROVE x = r
    <2>1. PICK v \in httpRequest_get_url(h, size) : x = SubSeq(v, strchr(v, "?", 1), Len(v))
      BY DEF httpRequest_get_url_parmer
    <2>2. u = v
      BY OneUrl
    <2> QED BY <1>1, <2>1, <2>2
  <1> QED BY <1>2

(* It is a string. *)
LEMMA UrlTyped ==
  ASSUME NEW h \in Seq(Char), NEW size \in Nat, NEW u \in httpRequest_get_url(h, size)
  PROVE  u \in Seq(Char)
  <1> DEFINE S == {k \in 1 .. Len(h) : h[k] = "blank"}
             sp == FirstOf(S)
             E == {k \in sp + 1 .. Len(h) : h[k] = "eol"}
             eol == FirstOf(E)
             P == {k \in sp + 1 .. eol : h[k] # "blank"}
             p == FirstOf(P)
             Q == {k \in p .. Len(h) : h[k] = "blank"}
             q == FirstOf(Q)
  <1>1. Len(h) \in Nat
    BY LenProperties
  <1>2. sp \in Nat
    <2>1. S \in SUBSET (Nat \ {0})
      BY <1>1
    <2> HIDE DEF S
    <2> QED BY <2>1, FirstTyped
  <1> HIDE DEF S
  <1>3. sp + 1 \in Nat \ {0} /\ straddr(h, <<"eol">>, sp + 1) = eol
    BY <1>2, EolFrom
  <1>4. eol > 0 /\ q > p /\ u = SubSeq(h, p, q - 1)
    <2>1. strchr(h, "blank", 1) = sp
      BY DEF strchr, S
    <2> HIDE DEF sp
    <2> QED BY <1>3, <2>1 DEF httpRequest_get_url, strchr
  <1> HIDE DEF sp
  <1>5. eol \in E
    <2>1. E \in SUBSET (Nat \ {0})
      BY <1>3
    <2> HIDE DEF E
    <2> QED BY <1>4, <2>1, FirstTyped
  <1>6. eol \in sp + 1 .. Len(h) /\ h[eol] = "eol"
    BY <1>5
  <1> HIDE DEF eol
  <1>7. p \in P
    <2>1. P \in SUBSET (Nat \ {0}) /\ P # {}
      BY <1>3, <1>6
    <2> HIDE DEF P
    <2> QED BY <2>1, FirstTyped
  <1>8. p \in Nat \ {0}
    BY <1>3, <1>7
  <1> HIDE DEF p
  <1>9. q \in Q
    <2>1. Q \in SUBSET (Nat \ {0})
      BY <1>8
    <2> HIDE DEF Q
    <2>2. q \in Nat /\ (q > 0 => q \in Q)
      BY <2>1, FirstTyped
    <2> HIDE DEF q
    <2> QED BY <1>4, <1>8, <2>2
  <1>10. q \in p .. Len(h)
    BY <1>9
  <1> HIDE DEF q
  <1>11. q - 1 \in Nat /\ q - 1 <= Len(h) /\ p <= (q - 1) + 1
    BY <1>1, <1>8, <1>10
  <1> QED BY <1>4, <1>8, <1>11, PartIs

(* What follows the question mark is a string. *)
LEMMA QueryTyped ==
  ASSUME NEW h \in Seq(Char), NEW size \in Nat, NEW r \in httpRequest_get_url_parmer(h, size)
  PROVE  Tail(r) \in Seq(Char)
  <1>1. PICK u \in httpRequest_get_url(h, size) :
          strchr(u, "?", 1) > 0 /\ r = SubSeq(u, strchr(u, "?", 1), Len(u))
    BY DEF httpRequest_get_url_parmer
  <1>2. u \in Seq(Char) /\ Len(u) \in Nat
    BY UrlTyped, LenProperties
  <1> DEFINE S == {k \in 1 .. Len(u) : u[k] = "?"}
             m == FirstOf(S)
  <1>3. strchr(u, "?", 1) = m
    BY DEF strchr
  <1>4. m \in S
    <2>1. S \in SUBSET (Nat \ {0})
      BY <1>2
    <2> HIDE DEF S
    <2> QED BY <1>1, <1>3, <2>1, FirstTyped
  <1>5. m \in 1 .. Len(u)
    BY <1>4
  <1> HIDE DEF m
  <1>6. m \in Nat \ {0} /\ Len(u) <= Len(u) /\ m <= Len(u) + 1 /\ Len(u) - m + 1 > 0
    BY <1>2, <1>5
  <1>7. r \in Seq(Char) /\ Len(r) = Len(u) - m + 1
    <2>1. r = SubSeq(u, m, Len(u))
      BY <1>1, <1>3
    <2>2. SubSeq(u, m, Len(u)) \in Seq(Char) /\ Len(SubSeq(u, m, Len(u))) = Len(u) - m + 1
      BY <1>2, <1>6, PartIs
    <2> QED BY <2>1, <2>2
  <1>8. r # <<>>
    BY <1>6, <1>7, EmptySeq
  <1> QED BY <1>7, <1>8, HeadTailProperties

(* A value ends where its parameter does, for its name holds no ampersand. *)
LEMMA SameValue ==
  ASSUME NEW p \in Seq(Char), NEW key \in Seq(Char), NEW q \in Nat \ {0},
         Has(p, key \o <<"=">>, q), \A k \in 1 .. Len(key) : key[k] # "&"
  PROVE  ValueAt(p, q + Len(key) + 1) = ValueOf(p, q, key)
  <1> DEFINE f == key \o <<"=">>
             n == Len(key)
             A == {j \in q + n + 1 .. Len(p) : p[j] = "&"}
             B == {j \in q .. Len(p) : p[j] = "&"}
  <1>1. Len(p) \in Nat /\ n \in Nat
    BY LenProperties
  <1>2. Len(f) = n + 1 /\ (\A k \in 1 .. n : f[k] = key[k]) /\ f[n + 1] = "="
    OBVIOUS
  <1> HIDE DEF f
  <1>3. q + (n + 1) - 1 <= Len(p) /\ SubSeq(p, q, q + (n + 1) - 1) = f
    BY <1>2 DEF Has, f
  <1> HIDE DEF n
  <1>4. ASSUME NEW j \in q .. q + n PROVE p[j] # "&"
    <2>1. q + n \in Nat /\ q + n <= Len(p) /\ q <= (q + n) + 1 /\ q + (n + 1) - 1 = q + n
      BY <1>1, <1>3
    <2>2. \A k \in 1 .. (q + n) - q + 1 : SubSeq(p, q, q + n)[k] = p[q + k - 1]
      BY <2>1, PartIs
    <2>3. j - q + 1 \in 1 .. (q + n) - q + 1 /\ q + (j - q + 1) - 1 = j
      BY <1>1
    <2>4. p[j] = f[j - q + 1]
      BY <1>3, <2>1, <2>2, <2>3
    <2>5. CASE j = q + n
      <3>1. j - q + 1 = n + 1
        BY <1>1, <2>5
      <3> QED BY <1>2, <2>4, <3>1
    <2>6. CASE j # q + n
      <3>1. j - q + 1 \in 1 .. n
        BY <1>1, <2>6
      <3> QED BY <1>2, <2>4, <3>1 DEF n
    <2> QED BY <2>5, <2>6
  <1>5. A = B
    <2>1. ASSUME NEW j \in B PROVE j \in A
      <3>1. j \in q .. Len(p) /\ p[j] = "&"
        OBVIOUS
      <3>2. ~(j \in q .. q + n)
        BY <1>4, <3>1
      <3>3. j \in q + n + 1 .. Len(p)
        BY <1>1, <3>1, <3>2
      <3> QED BY <3>1, <3>3
    <2>2. ASSUME NEW j \in A PROVE j \in B
      BY <1>1
    <2> QED BY <2>1, <2>2
  <1> DEFINE a == FirstOf(A)
             stop == FirstOf(A \cup {Len(p) + 1})
  <1>6. /\ A \in SUBSET (Nat \ {0}) /\ A \cup {Len(p) + 1} \in SUBSET Nat
        /\ \A j \in A : j <= Len(p)
    BY <1>1
  <1>7. /\ ValueAt(p, q + n + 1) = SubSeq(p, q + n + 1, IF a > 0 THEN a - 1 ELSE Len(p))
        /\ ValueOf(p, q, key) = SubSeq(p, q + n + 1, stop - 1)
    BY <1>5 DEF ValueAt, ValueOf, strchr, n
  <1> HIDE DEF A
  <1>8. CASE A = {} /\ a = 0
    <2>1. stop = Len(p) + 1
      BY <1>1, <1>6, <1>8, FirstIs
    <2>2. (IF a > 0 THEN a - 1 ELSE Len(p)) = stop - 1
      BY <1>1, <1>8, <2>1
    <2> QED BY <1>7, <2>2 DEF n
  <1>9. CASE a \in A /\ \A m \in A : a <= m
    <2> HIDE DEF a
    <2>1. /\ a \in Nat \ {0} /\ a \in A \cup {Len(p) + 1}
          /\ \A m \in A \cup {Len(p) + 1} : a <= m
      BY <1>1, <1>6, <1>9
    <2>2. stop = a
      BY <1>6, <2>1, FirstIs
    <2>3. (IF a > 0 THEN a - 1 ELSE Len(p)) = stop - 1
      BY <2>1, <2>2
    <2> QED BY <1>7, <2>3 DEF n
  <1> QED BY <1>6, <1>8, <1>9, FirstOfIs

(* The value that is found of a name in query p, and the one it should be, *)
(* before their length is looked at.                                       *)
Found(p, key) ==
  LET q == straddr(p, key \o <<"=">>, 1)
  IN IF q = 1 \/ (q > 1 /\ p[q - 1] = "&") THEN {ValueAt(p, q + Len(key) + 1)} ELSE {}

Wanted(p, key) ==
  LET first == FirstOf(NamedAt(p, key))
  IN IF first > 0 /\ ~(\E k \in InsideAt(p, key) : k < first)
     THEN {ValueOf(p, first, key)}
     ELSE {}

(* They are the same: the first place of the name begins a parameter or    *)
(* lies inside one.                                                        *)
LEMMA FoundIsWanted ==
  ASSUME NEW p \in Seq(Char), NEW key \in Seq(Char), \A k \in 1 .. Len(key) : key[k] # "&"
  PROVE  Found(p, key) = Wanted(p, key)
  <1> DEFINE q == straddr(p, key \o <<"=">>, 1)
             first == FirstOf(NamedAt(p, key))
             f == key \o <<"=">>
             A == {k \in DOMAIN p : Has(p, f, k)}
             N == NamedAt(p, key)
             in == InsideAt(p, key)
  <1>1. Len(p) \in Nat /\ DOMAIN p = 1 .. Len(p) /\ Len(key) \in Nat
    BY LenProperties
  <1>2. Len(f) \in Nat \ {0}
    <2>1. Len(f) = Len(key) + 1
      OBVIOUS
    <2> HIDE DEF f
    <2> QED BY <1>1, <2>1
  <1>3. A \in SUBSET (Nat \ {0}) /\ N \in SUBSET (Nat \ {0})
    BY <1>1 DEF NamedAt, Starts
  <1>4. q = FirstOf(A)
    <2>1. {k \in 1 .. Len(p) - Len(f) + 1 : Has(p, f, k)} = A
      <3> HIDE DEF f
      <3>1. ASSUME NEW k \in A PROVE k \in 1 .. Len(p) - Len(f) + 1
        <4>1. k \in 1 .. Len(p) /\ k + Len(f) - 1 <= Len(p)
          BY <1>1 DEF Has
        <4> QED BY <1>1, <1>2, <4>1
      <3>2. ASSUME NEW k \in 1 .. Len(p) - Len(f) + 1 PROVE k \in DOMAIN p
        BY <1>1, <1>2
      <3> QED BY <3>1, <3>2
    <2> QED BY <2>1 DEF straddr
  <1>5. /\ \A k \in A : k \in N <=> (k = 1 \/ p[k - 1] = "&")
        /\ \A k \in A : k \in in <=> ~(k = 1 \/ p[k - 1] = "&")
        /\ N \subseteq A /\ in \subseteq A
    BY DEF NamedAt, InsideAt, Starts
  <1>6. \A k \in A : Has(p, f, k)
    OBVIOUS
  <1>n. first = FirstOf(N)
    OBVIOUS
  <1> SUFFICES (IF q = 1 \/ (q > 1 /\ p[q - 1] = "&") THEN {ValueAt(p, q + Len(key) + 1)} ELSE {})
                 = IF first > 0 /\ ~(\E k \in in : k < first) THEN {ValueOf(p, first, key)} ELSE {}
    BY DEF Found, Wanted
  <1> HIDE DEF A, N, f, q, first, in
  <1>7. CASE A = {} /\ q = 0
    <2>1. first = 0
      BY <1>5, <1>7, <1>n DEF FirstOf
    <2> QED BY <1>7, <2>1
  <1>8. CASE q \in A /\ (\A m \in A : q <= m) /\ (q = 1 \/ p[q - 1] = "&")
    <2>1. q \in Nat \ {0} /\ q \in N
      BY <1>3, <1>5, <1>8
    <2>2. first = q
      <3>1. N \in SUBSET Nat /\ \A m \in N : q <= m
        BY <1>3, <1>5, <1>8
      <3> QED BY <1>n, <2>1, <3>1, FirstIs
    <2>3. ~(\E k \in in : k < first)
      <3> SUFFICES ASSUME NEW k \in in, k < q PROVE FALSE
        BY <2>2
      <3>1. k \in Nat /\ q <= k
        BY <1>3, <1>5, <1>8
      <3> QED BY <2>1, <3>1
    <2>4. ValueAt(p, q + Len(key) + 1) = ValueOf(p, q, key)
      BY <1>6, <1>8, <2>1, SameValue DEF f
    <2>5. (q = 1 \/ (q > 1 /\ p[q - 1] = "&")) /\ first > 0
      BY <1>8, <2>1, <2>2
    <2> QED BY <2>2, <2>3, <2>4, <2>5
  <1>9. CASE q \in A /\ (\A m \in A : q <= m) /\ ~(q = 1 \/ p[q - 1] = "&")
    <2>1. q \in in /\ q \in Nat \ {0}
      BY <1>3, <1>5, <1>9
    <2>2. first = 0 \/ (first \in Nat /\ q < first)
      <3>1. first \in Nat /\ (first > 0 => first \in N)
        BY <1>3, <1>n, FirstTyped
      <3>2. first > 0 => first \in A /\ first # q
        BY <1>5, <1>9, <3>1
      <3> QED BY <1>9, <2>1, <3>1, <3>2
    <2>3. first > 0 => \E k \in in : k < first
      BY <2>1, <2>2
    <2> QED BY <1>9, <2>3
  <1> QED BY <1>3, <1>4, <1>7, <1>8, <1>9, FirstOfIs

(* For every query, every name without an ampersand and buffers of any     *)
(* size the value of a parameter is that of the first one of its name, or  *)
(* none if the name also ends one before it.                               *)
THEOREM ParameterFound == Spec => []ParameterIsFirst
  <1>1. ASSUME SearchInv PROVE ParameterIsFirst
    <2> SUFFICES ASSUME NamePlain, NEW r \in httpRequest_get_url_parmer(Header, UrlBuf)
                 PROVE  LET p == Tail(r)
                            first == FirstOf(NamedAt(p, Name))
                            hidden == \E k \in InsideAt(p, Name) : k < first
                        IN httpRequest_get_url_parmer_value(Header, Name) =
                             IF first > 0 /\ ~hidden
                             THEN {v \in {ValueOf(p, first, Name)} : Fits(v)} ELSE {}
      BY DEF ParameterIsFirst
    <2> DEFINE p == Tail(r)
               q == straddr(p, Name \o <<"=">>, 1)
               first == FirstOf(NamedAt(p, Name))
               hidden == \E k \in InsideAt(p, Name) : k < first
    <2>1. Header \in Seq(Char) /\ Name \in Seq(Char)
      BY <1>1, CallTyped DEF SearchInv, SearchTypeOK
    <2>2. p \in Seq(Char)
      BY <2>1, LimitsAssumption, QueryTyped
    <2>3. \A k \in 1 .. Len(Name) : Name[k] # "&"
      BY <2>1, LenProperties DEF NamePlain
    <2>4. Found(p, Name) = Wanted(p, Name)
      <3> HIDE DEF p
      <3> QED BY <2>1, <2>2, <2>3, FoundIsWanted
    <2>5. httpRequest_get_url_parmer(Header, UrlBuf) = {r}
      BY OneQuery
    <2>6. httpRequest_get_url_parmer_value(Header, Name) = {v \in Found(p, Name) : Fits(v)}
      <3>1. httpRequest_get_url_parmer_value(Header, Name) =
              UNION {IF q = 1 \/ (q > 1 /\ p[q - 1] = "&")
                     THEN {v \in {ValueAt(p, q + Len(Name) + 1)} : Fits(v)} ELSE {}}
        BY <2>5 DEF httpRequest_get_url_parmer_value
      <3>2. Found(p, Name) = IF q = 1 \/ (q > 1 /\ p[q - 1] = "&")
                             THEN {ValueAt(p, q + Len(Name) + 1)} ELSE {}
        BY DEF Found
      <3> HIDE DEF p, q
      <3> QED BY <3>1, <3>2
    <2>7. {v \in Wanted(p, Name) : Fits(v)} =
            IF first > 0 /\ ~hidden THEN {v \in {ValueOf(p, first, Name)} : Fits(v)} ELSE {}
      <3>1. Wanted(p, Name) = IF first > 0 /\ ~hidden THEN {ValueOf(p, first, Name)} ELSE {}
        BY DEF Wanted
      <3> HIDE DEF p, first, hidden
      <3> QED BY <3>1
    <2> QED BY <2>4, <2>6, <2>7
  <1> QED BY <1>1, SearchInvariant, PTL

-----------------------------------------------------------------------------
(* Header fields *)

(* A name with a colon behind it, and with a line break before it too. *)
LEMMA Joined ==
  ASSUME NEW name \in Seq(Char)
  PROVE  LET nc == name \o <<"colon">>
             find == <<"eol">> \o name \o <<"colon">>
         IN /\ Len(name) \in Nat /\ Len(nc) = Len(name) + 1 /\ Len(find) = Len(name) + 2
            /\ DOMAIN nc = 1 .. Len(name) + 1 /\ DOMAIN find = 1 .. Len(name) + 2
            /\ find[1] = "eol" /\ nc[Len(name) + 1] = "colon"
            /\ \A j \in 1 .. Len(name) : nc[j] = name[j] /\ nc[j] \in Char
            /\ \A j \in 1 .. Len(name) + 1 : find[j + 1] = nc[j]
  <1> DEFINE en == <<"eol">> \o name
             nc == name \o <<"colon">>
             find == en \o <<"colon">>
             n == Len(name)
  <1>1. n \in Nat
    BY LenProperties
  <1>2. /\ nc \in Seq(Char) /\ Len(nc) = n + 1 /\ nc[n + 1] = "colon"
        /\ \A j \in 1 .. n : nc[j] = name[j]
    BY EolAssumption
  <1>3. /\ en \in Seq(Char) /\ Len(en) = n + 1 /\ en[1] = "eol"
        /\ \A j \in 1 .. n : en[j + 1] = name[j]
    BY EolAssumption
  <1> HIDE DEF en, n
  <1>4. /\ find \in Seq(Char) /\ Len(find) = n + 2 /\ find[n + 2] = "colon"
        /\ \A j \in 1 .. n + 1 : find[j] = en[j]
    BY <1>1, <1>3, EolAssumption
  <1>5. find[1] = "eol"
    BY <1>1, <1>3, <1>4
  <1> HIDE DEF nc, find
  <1>6. DOMAIN nc = 1 .. n + 1 /\ DOMAIN find = 1 .. n + 2
    BY <1>2, <1>4, LenProperties
  <1>7. ASSUME NEW j \in 1 .. n PROVE nc[j] \in Char
    BY <1>1, <1>2, ElementOfSeq
  <1>8. ASSUME NEW j \in 1 .. n + 1 PROVE find[j + 1] = nc[j]
    <2>1. CASE j = n + 1
      BY <1>1, <1>2, <1>4, <2>1
    <2>2. CASE j # n + 1
      <3>1. j \in 1 .. n /\ j + 1 \in 1 .. n + 1
        BY <1>1, <2>2
      <3> QED BY <1>2, <1>3, <1>4, <3>1
    <2> QED BY <2>1, <2>2
  <1> QED BY <1>1, <1>2, <1>4, <1>5, <1>6, <1>7, <1>8 DEF nc, find, en, n

(* A line break, the name and a colon are found where a line begins with   *)
(* the name and a colon.                                                   *)
LEMMA NameAt ==
  ASSUME NEW h \in Seq(Char), NEW name \in Seq(Char), NEW k \in Nat \ {0}
  PROVE  HasAnyCase(h, <<"eol">> \o name \o <<"colon">>, k) <=>
           h[k] = "eol" /\ HasAnyCase(h, name \o <<"colon">>, k + 1)
  <1> DEFINE nc == name \o <<"colon">>
             find == <<"eol">> \o name \o <<"colon">>
             n == Len(name)
  <1>1. /\ n \in Nat /\ DOMAIN nc = 1 .. n + 1 /\ DOMAIN find = 1 .. n + 2
        /\ find[1] = "eol" /\ \A j \in 1 .. n + 1 : find[j + 1] = nc[j]
    BY Joined
  <1> HIDE DEF nc, find, n
  <1>2. SameLetter(h[k], "eol") <=> h[k] = "eol"
    BY EolAssumption DEF SameLetter
  <1>3. ASSUME HasAnyCase(h, find, k) PROVE h[k] = "eol" /\ HasAnyCase(h, nc, k + 1)
    <2>1. \A j \in 1 .. n + 2 : SameLetter(h[k + j - 1], find[j])
      BY <1>1, <1>3 DEF HasAnyCase
    <2>2. h[k] = "eol"
      <3>1. 1 \in 1 .. n + 2 /\ k + 1 - 1 = k
        BY <1>1
      <3> QED BY <1>1, <1>2, <2>1, <3>1
    <2>3. ASSUME NEW j \in 1 .. n + 1 PROVE SameLetter(h[(k + 1) + j - 1], nc[j])
      <3>1. j + 1 \in 1 .. n + 2 /\ (k + 1) + j - 1 = k + (j + 1) - 1
        BY <1>1
      <3> QED BY <1>1, <2>1, <3>1
    <2> QED BY <1>1, <2>2, <2>3 DEF HasAnyCase
  <1>4. ASSUME h[k] = "eol", HasAnyCase(h, nc, k + 1) PROVE HasAnyCase(h, find, k)
    <2>1. \A j \in 1 .. n + 1 : SameLetter(h[(k + 1) + j - 1], nc[j])
      BY <1>1, <1>4 DEF HasAnyCase
    <2>2. ASSUME NEW j \in 1 .. n + 2 PROVE SameLetter(h[k + j - 1], find[j])
      <3>1. CASE j = 1
        <4>1. k + j - 1 = k
          BY <3>1
        <4> QED BY <1>1, <1>2, <1>4, <3>1, <4>1
      <3>2. CASE j # 1
        <4>1. j - 1 \in 1 .. n + 1 /\ (k + 1) + (j - 1) - 1 = k + j - 1 /\ (j - 1) + 1 = j
          BY <1>1, <3>2
        <4>2. find[j] = nc[j - 1]
          BY <1>1, <4>1
        <4> QED BY <2>1, <4>1, <4>2
      <3> QED BY <3>1, <3>2
    <2> QED BY <1>1, <2>2 DEF HasAnyCase
  <1> QED BY <1>3, <1>4 DEF nc, find

(* A name that holds no line break is found on one line. *)
LEMMA NameOnLine ==
  ASSUME NEW h \in Seq(Char), NEW name \in Seq(Char), NEW k \in Nat \ {0},
         \A j \in 1 .. Len(name) : name[j] # "eol",
         HasAnyCase(h, name \o <<"colon">>, k), NEW m \in k .. k + Len(name)
  PROVE  h[m] # "eol"
  <1> DEFINE nc == name \o <<"colon">>
             n == Len(name)
             j == m - k + 1
  <1>1. /\ n \in Nat /\ DOMAIN nc = 1 .. n + 1 /\ nc[n + 1] = "colon"
        /\ \A x \in 1 .. n : nc[x] = name[x] /\ nc[x] \in Char
    BY Joined
  <1>2. \A x \in 1 .. n : name[x] # "eol"
    OBVIOUS
  <1> HIDE DEF nc, n
  <1>3. m \in k .. k + n /\ HasAnyCase(h, nc, k)
    BY DEF nc, n
  <1>4. j \in 1 .. n + 1 /\ k + j - 1 = m
    BY <1>1, <1>3
  <1> HIDE DEF j
  <1>5. nc[j] \in Char /\ nc[j] # "eol"
    <2>1. CASE j = n + 1
      BY <1>1, <2>1, EolAssumption
    <2>2. CASE j # n + 1
      <3>1. j \in 1 .. n
        BY <1>1, <1>4, <2>2
      <3> QED BY <1>1, <1>2, <3>1
    <2> QED BY <2>1, <2>2
  <1>6. SameLetter(h[m], nc[j])
    <2>1. SameLetter(h[k + j - 1], nc[j])
      BY <1>1, <1>3, <1>4 DEF HasAnyCase
    <2> QED BY <1>4, <2>1
  <1> QED BY <1>5, <1>6, EolAssumption DEF SameLetter

(* The line between the ends b and e is a field of that name. *)
FieldAt(h, name, b, e) ==
  /\ b \in 1 .. Len(h) /\ e \in 1 .. Len(h) /\ h[b] = "eol" /\ h[e] = "eol"
  /\ b + Len(name) + 1 < e
  /\ \A k \in b + 1 .. e - 1 : h[k] # "eol"
  /\ HasAnyCase(h, name \o <<"colon">>, b + 1)

Fields(h, name) == {l \in FieldLines(h) : IsField(h, l, name)}

(* Those lines are the fields of that name. *)
LEMMA FieldsAre ==
  ASSUME NEW h \in Seq(Char), NEW name \in Seq(Char)
  PROVE  /\ \A l \in Fields(h, name) :
              \E b, e \in Nat : FieldAt(h, name, b, e) /\ l = <<b + 1, e - 1>>
         /\ \A b, e \in Nat : FieldAt(h, name, b, e) => <<b + 1, e - 1>> \in Fields(h, name)
  <1> DEFINE nc == name \o <<"colon">>
             n == Len(name)
  <1>1. n \in Nat /\ Len(nc) = n + 1 /\ Len(h) \in Nat /\ DOMAIN h = 1 .. Len(h)
    BY Joined, LenProperties
  <1>2. ASSUME NEW b \in Nat, NEW e \in Nat
        PROVE  IsField(h, <<b + 1, e - 1>>, name) <=>
                 (e - 1) - (b + 1) + 1 >= Len(nc) /\ HasAnyCase(h, nc, b + 1)
    BY DEF IsField
  <1> HIDE DEF nc, n
  <1>3. ASSUME NEW l \in Fields(h, name)
        PROVE  \E b, e \in Nat : FieldAt(h, name, b, e) /\ l = <<b + 1, e - 1>>
    <2>1. PICK y \in Ends(h) \X Ends(h) :
            /\ y[1] < y[2] /\ \A k \in y[1] + 1 .. y[2] - 1 : h[k] # "eol"
            /\ l = <<y[1] + 1, y[2] - 1>> /\ IsField(h, l, name)
      BY DEF Fields, FieldLines
    <2> DEFINE b == y[1]
               e == y[2]
    <2>2. b \in Ends(h) /\ e \in Ends(h)
      OBVIOUS
    <2>3. \A k \in b + 1 .. e - 1 : h[k] # "eol"
      BY <2>1
    <2>4. l = <<b + 1, e - 1>> /\ IsField(h, l, name)
      BY <2>1
    <2> HIDE DEF b, e
    <2>5. b \in 1 .. Len(h) /\ e \in 1 .. Len(h) /\ h[b] = "eol" /\ h[e] = "eol" /\ b \in Nat /\ e \in Nat
      BY <1>1, <2>2 DEF Ends
    <2>6. (e - 1) - (b + 1) + 1 >= Len(nc) /\ HasAnyCase(h, nc, b + 1)
      BY <1>2, <2>4, <2>5
    <2>7. b + n + 1 < e
      BY <1>1, <2>5, <2>6
    <2>8. FieldAt(h, name, b, e)
      BY <2>3, <2>5, <2>6, <2>7 DEF FieldAt, nc, n
    <2> QED BY <2>4, <2>5, <2>8
  <1>4. ASSUME NEW b \in Nat, NEW e \in Nat, FieldAt(h, name, b, e)
        PROVE  <<b + 1, e - 1>> \in Fields(h, name)
    <2>1. /\ b \in 1 .. Len(h) /\ e \in 1 .. Len(h) /\ h[b] = "eol" /\ h[e] = "eol"
          /\ b + n + 1 < e /\ (\A k \in b + 1 .. e - 1 : h[k] # "eol")
          /\ HasAnyCase(h, nc, b + 1)
      BY <1>4 DEF FieldAt, nc, n
    <2>2. b \in Ends(h) /\ e \in Ends(h) /\ b < e /\ (e - 1) - (b + 1) + 1 >= Len(nc)
      BY <1>1, <2>1 DEF Ends
    <2> DEFINE y == <<b, e>>
    <2>3. y \in Ends(h) \X Ends(h) /\ y[1] = b /\ y[2] = e
      BY <2>2
    <2> HIDE DEF y
    <2>4. <<y[1] + 1, y[2] - 1>> \in FieldLines(h)
      BY <2>1, <2>2, <2>3 DEF FieldLines
    <2>5. IsField(h, <<b + 1, e - 1>>, name)
      BY <1>2, <2>1, <2>2
    <2> QED BY <2>3, <2>4, <2>5 DEF Fields
  <1> QED BY <1>3, <1>4

(* The value of the field between the ends b and e. *)
ValueBetween(h, name, b, e) ==
  IF e - (b + (Len(name) + 2)) < FieldBuf
  THEN {Trim(SubSeq(h, b + (Len(name) + 2), e - 1))}
  ELSE {}

(* The value that a set of lines gives as the first of them. *)
ValueOfFirst(h, name, ls) ==
  LET first == {l \in ls : \A m \in ls : l[1] <= m[1]}
  IN {Trim(SubSeq(h, l[1] + Len(name) + 1, l[2])) :
        l \in {l \in first : l[2] - l[1] - Len(name) < FieldBuf}}

(* The field that is found is the first one. *)
LEMMA FieldFirst ==
  ASSUME NEW h \in Seq(Char), NEW name \in Seq(Char),
         \A j \in 1 .. Len(name) : name[j] # "eol"
  PROVE  httpRequest_find_field(h, name, FieldBuf) = ValueOfFirst(h, name, Fields(h, name))
  <1> DEFINE n == Len(name)
             find == <<"eol">> \o name \o <<"colon">>
             nc == name \o <<"colon">>
             M == {k \in 1 .. Len(h) - (n + 2) + 1 : HasAnyCase(h, find, k)}
             a == FirstOf(M)
             p == a + (n + 2)
             Q == {k \in p .. Len(h) : h[k] = "eol"}
             q == FirstOf(Q)
             ls == Fields(h, name)
  <1>1. n \in Nat /\ Len(find) = n + 2 /\ Len(h) \in Nat
    BY Joined, LenProperties
  <1>2. M \in SUBSET (Nat \ {0})
    BY <1>1
  <1>3. \A k \in M : /\ k \in 1 .. Len(h) /\ k + n + 1 <= Len(h)
                     /\ h[k] = "eol" /\ HasAnyCase(h, nc, k + 1)
    <2> SUFFICES ASSUME NEW k \in M
                 PROVE  /\ k \in 1 .. Len(h) /\ k + n + 1 <= Len(h)
                        /\ h[k] = "eol" /\ HasAnyCase(h, nc, k + 1)
      OBVIOUS
    <2>1. k \in 1 .. Len(h) - (n + 2) + 1 /\ HasAnyCase(h, find, k)
      OBVIOUS
    <2> HIDE DEF find, n
    <2>2. k \in 1 .. Len(h) /\ k + n + 1 <= Len(h) /\ k \in Nat \ {0}
      BY <1>1, <2>1
    <2> QED BY <2>1, <2>2, NameAt DEF find
  <1>4. ASSUME NEW b \in Nat, NEW e \in Nat, FieldAt(h, name, b, e) PROVE b \in M
    <2>1. /\ b \in 1 .. Len(h) /\ e \in 1 .. Len(h) /\ h[b] = "eol" /\ b + n + 1 < e
          /\ HasAnyCase(h, nc, b + 1)
      BY <1>4 DEF FieldAt
    <2> HIDE DEF n
    <2>2. b \in 1 .. Len(h) - (n + 2) + 1 /\ b \in Nat \ {0}
      BY <1>1, <2>1
    <2>3. HasAnyCase(h, find, b)
      BY <2>1, <2>2, NameAt
    <2> QED BY <2>2, <2>3
  <1>5. ASSUME NEW k \in M, NEW e \in k + 1 .. Len(h), h[e] = "eol" PROVE e \in k + (n + 2) .. Len(h)
    <2> HIDE DEF M
    <2>1. k \in Nat /\ k + 1 \in Nat \ {0} /\ HasAnyCase(h, nc, k + 1)
      BY <1>2, <1>3
    <2>2. \A m \in k + 1 .. (k + 1) + n : h[m] # "eol"
      BY <2>1, NameOnLine
    <2>3. ~(e \in k + 1 .. (k + 1) + n)
      BY <1>5, <2>2
    <2> HIDE DEF n
    <2> QED BY <1>1, <1>5, <2>1, <2>3
  <1>6. httpRequest_find_field(h, name, FieldBuf) =
          IF a > 0 /\ q > 0 THEN ValueBetween(h, name, a, q) ELSE {}
    <2>1. straddr_case(h, find) = a
      BY <1>1 DEF straddr_case
    <2>2. a \in Nat
      <3> HIDE DEF M
      <3> QED BY <1>2, FirstTyped
    <2>3. straddr(h, <<"eol">>, p) = q
      <3>1. p \in Nat \ {0}
        <4> HIDE DEF a, n
        <4> QED BY <1>1, <2>2
      <3> QED BY <3>1, EolFrom
    <2>4. httpRequest_find_field(h, name, FieldBuf) =
            LET b == straddr_case(h, find)
                e == straddr(h, <<"eol">>, b + Len(find))
            IN IF b > 0 /\ e > 0 /\ e - (b + Len(find)) < FieldBuf
               THEN {Trim(SubSeq(h, b + Len(find), e - 1))} ELSE {}
      BY DEF httpRequest_find_field
    <2> HIDE DEF M, a, q, find
    <2>5. httpRequest_find_field(h, name, FieldBuf) =
            IF a > 0 /\ q > 0 /\ q - p < FieldBuf THEN {Trim(SubSeq(h, p, q - 1))} ELSE {}
      BY <1>1, <2>1, <2>3, <2>4
    <2> QED BY <2>5 DEF ValueBetween
  <1> HIDE DEF M, find, nc
  <1>7. CASE M = {} /\ a = 0
    <2>1. ls = {}
      BY <1>4, <1>7, FieldsAre
    <2> QED BY <1>6, <1>7, <2>1 DEF ValueOfFirst
  <1>8. CASE a \in M /\ \A m \in M : a <= m
    <2> HIDE DEF a
    <2>1. a \in Nat \ {0} /\ a \in 1 .. Len(h) /\ h[a] = "eol" /\ HasAnyCase(h, nc, a + 1) /\ a > 0
      BY <1>2, <1>3, <1>8
    <2>2. p \in Nat \ {0} /\ Q \in SUBSET (Nat \ {0})
      BY <1>1, <2>1
    <2>3. ASSUME NEW b \in Nat, NEW e \in Nat, FieldAt(h, name, b, e) PROVE a <= b /\ e \in Q
      <3>1. b \in M
        BY <1>4, <2>3
      <3>2. a <= b
        BY <1>8, <3>1
      <3>3. e \in 1 .. Len(h) /\ h[e] = "eol" /\ b + n + 1 < e
        BY <2>3 DEF FieldAt
      <3>4. e \in a + 1 .. Len(h)
        <4> HIDE DEF n
        <4> QED BY <1>1, <2>1, <3>2, <3>3
      <3>5. e \in a + (n + 2) .. Len(h)
        BY <1>5, <1>8, <3>3, <3>4
      <3> QED BY <3>2, <3>3, <3>5
    <2>4. CASE Q = {} /\ q = 0
      <3>1. ls = {}
        BY <2>3, <2>4, FieldsAre
      <3>2. ValueOfFirst(h, name, {}) = {}
        BY DEF ValueOfFirst
      <3>3. ~(q > 0)
        <4> HIDE DEF q, Q
        <4> QED BY <2>4
      <3> HIDE DEF q, Q, ls
      <3> QED BY <1>6, <3>1, <3>2, <3>3 DEF ls
    <2>5. CASE q \in Q /\ \A m \in Q : q <= m
      <3>1. q \in p .. Len(h) /\ h[q] = "eol"
        BY <2>5
      <3>2. \A k \in p .. q - 1 : h[k] # "eol"
        <4> SUFFICES ASSUME NEW k \in p .. q - 1, h[k] = "eol" PROVE FALSE
          OBVIOUS
        <4> HIDE DEF p, q
        <4>1. k \in Q
          BY <1>1, <2>2, <3>1
        <4> QED BY <2>2, <2>5, <3>1, <4>1
      <3> HIDE DEF Q, q
      <3>3. q \in Nat /\ q \in 1 .. Len(h) /\ a + n + 1 < q /\ q > 0
        <4> HIDE DEF n
        <4> QED BY <1>1, <2>1, <3>1
      <3>4. \A k \in a + 1 .. q - 1 : h[k] # "eol"
        <4> SUFFICES ASSUME NEW k \in a + 1 .. q - 1, h[k] = "eol" PROVE FALSE
          OBVIOUS
        <4>1. k \in a + 1 .. Len(h)
          BY <1>1, <2>1, <3>3
        <4>2. k \in p .. Len(h)
          BY <1>5, <1>8, <4>1
        <4> HIDE DEF n, p
        <4>3. k \in p .. q - 1
          BY <1>1, <2>1, <2>2, <3>3, <4>2
        <4> QED BY <3>2, <4>3
      <3>5. FieldAt(h, name, a, q)
        BY <2>1, <3>1, <3>3, <3>4 DEF FieldAt, nc
      <3> DEFINE L == <<a + 1, q - 1>>
                 first == {l \in ls : \A m \in ls : l[1] <= m[1]}
      <3>6. L \in ls
        BY <2>1, <3>3, <3>5, FieldsAre
      <3>7. ASSUME NEW l \in ls PROVE l[1] \in Int /\ a + 1 <= l[1]
        <4>1. PICK b, e \in Nat : FieldAt(h, name, b, e) /\ l = <<b + 1, e - 1>>
          BY FieldsAre
        <4>2. a <= b /\ l[1] = b + 1
          BY <2>3, <4>1
        <4> QED BY <2>1, <4>2
      <3>8. ASSUME NEW l \in ls, l[1] <= a + 1 PROVE l = L
        <4>1. PICK b, e \in Nat : FieldAt(h, name, b, e) /\ l = <<b + 1, e - 1>>
          BY FieldsAre
        <4>2. b = a
          <5>1. a <= b /\ l[1] = b + 1
            BY <2>3, <4>1
          <5> QED BY <2>1, <3>8, <5>1
        <4>3. e \in Q
          BY <2>3, <4>1
        <4>4. q <= e
          BY <2>5, <4>3
        <4>5. ~(q \in a + 1 .. e - 1)
          BY <3>1, <4>1, <4>2 DEF FieldAt
        <4>6. e = q
          <5> HIDE DEF n
          <5> QED BY <1>1, <2>1, <3>3, <4>4, <4>5
        <4> QED BY <4>1, <4>2, <4>6
      <3>9. first = {L}
        <4>1. L[1] = a + 1
          OBVIOUS
        <4> HIDE DEF L, ls
        <4>2. L \in first
          BY <3>6, <3>7, <4>1
        <4>3. ASSUME NEW l \in first PROVE l = L
          <5>1. l \in ls /\ l[1] <= L[1]
            BY <3>6
          <5> QED BY <3>8, <4>1, <5>1
        <4> QED BY <4>2, <4>3
      <3>10. ValueOfFirst(h, name, ls) =
               {Trim(SubSeq(h, l[1] + n + 1, l[2])) : l \in {l \in {L} : l[2] - l[1] - n < FieldBuf}}
        BY <3>9 DEF ValueOfFirst
      <3>11. /\ L[1] + n + 1 = a + (n + 2) /\ L[2] = q - 1
             /\ L[2] - L[1] - n = q - (a + (n + 2))
        <4>1. L[1] = a + 1 /\ L[2] = q - 1
          OBVIOUS
        <4> HIDE DEF L, n
        <4> QED BY <1>1, <2>1, <3>3, <4>1
      <3> HIDE DEF L
      <3>12. ValueOfFirst(h, name, ls) = ValueBetween(h, name, a, q)
        BY <3>10, <3>11 DEF ValueBetween
      <3> QED BY <1>6, <2>1, <3>3, <3>12
    <2> HIDE DEF Q
    <2> QED BY <2>2, <2>4, <2>5, FirstOfIs
  <1> QED BY <1>2, <1>7, <1>8, FirstOfIs

(* For every header, every name without a line break and a buffer of any   *)
(* size the field that is found is the first line of that name.            *)
THEOREM FieldFound == Spec => []FieldIsFirstLine
  <1>1. ASSUME SearchInv PROVE FieldIsFirstLine
    <2> SUFFICES ASSUME NamePlain
                 PROVE  httpRequest_find_field(Header, Name, FieldBuf) =
                          ValueOfFirst(Header, Name, Fields(Header, Name))
      BY DEF FieldIsFirstLine, ValueOfFirst, Fields
    <2>1. Header \in Seq(Char) /\ Name \in Seq(Char)
      BY <1>1, CallTyped DEF SearchInv, SearchTypeOK
    <2>2. \A k \in 1 .. Len(Name) : Name[k] # "eol"
      BY <2>1, LenProperties DEF NamePlain
    <2> QED BY <2>1, <2>2, FieldFirst
  <1> QED BY <1>1, SearchInvariant, PTL

-----------------------------------------------------------------------------
(* The content length *)

(* A set that holds 0 and the successors of its members holds them all. *)
LEMMA SetInduction ==
  ASSUME NEW S \in SUBSET Nat, 0 \in S, \A n \in S : n + 1 \in S PROVE S = Nat
  <1>1. SUFFICES ASSUME Nat \ S # {} PROVE FALSE
    OBVIOUS
  <1>2. PICK n \in Nat \ S : \A m \in Nat \ S : n <= m
    BY <1>1, LeastElement
  <1>3. n - 1 \in S
    BY <1>2
  <1> QED BY <1>2, <1>3

(* A bounded set of natural numbers has a greatest element. *)
LEMMA GreatestElement ==
  ASSUME NEW S \in SUBSET Nat, S # {}, NEW n \in Nat, \A k \in S : k <= n
  PROVE  \E k \in S : \A m \in S : m <= k
  <1> DEFINE B == {b \in Nat : \A m \in S : m <= b}
  <1>1. n \in B /\ B \in SUBSET Nat
    OBVIOUS
  <1>2. PICK b \in B : \A x \in B : b <= x
    BY <1>1, LeastElement
  <1>3. SUFFICES ASSUME b \notin S PROVE FALSE
    OBVIOUS
  <1>4. \A m \in S : m <= b /\ m # b
    BY <1>3
  <1>5. b > 0
    <2>1. PICK m \in S : TRUE
      OBVIOUS
    <2> QED BY <1>4, <2>1
  <1>6. b - 1 \in B
    BY <1>4, <1>5
  <1> QED BY <1>2, <1>6

(* A string without the blanks around it is a string. *)
LEMMA TrimTyped ==
  ASSUME NEW T, NEW s \in Seq(T)
  PROVE  Trim(s) \in Seq(T)
  <1> DEFINE inner == {k \in DOMAIN s : s[k] # "blank"}
  <1>1. DOMAIN s = 1 .. Len(s) /\ Len(s) \in Nat
    BY LenProperties
  <1>2. CASE inner = {}
    BY <1>2 DEF Trim
  <1>3. CASE inner # {}
    <2> DEFINE a == Min(inner)
               b == Max(inner)
    <2>1. inner \in SUBSET Nat /\ \A k \in inner : k \in 1 .. Len(s)
      BY <1>1
    <2>2. Trim(s) = SubSeq(s, a, b)
      BY <1>3 DEF Trim
    <2> HIDE DEF inner
    <2>3. a \in inner /\ \A k \in inner : a <= k
      BY <1>3, <2>1, LeastElement DEF Min
    <2>4. \A k \in inner : k <= Len(s)
      BY <1>1, <2>1
    <2>5. \E k \in inner : \A m \in inner : k >= m
      BY <1>1, <1>3, <2>1, <2>4, GreatestElement
    <2>6. b \in inner
      BY <2>5 DEF Max
    <2> HIDE DEF a, b
    <2>7. a \in 1 .. Len(s) /\ b \in 1 .. Len(s) /\ a <= b
      BY <2>1, <2>3, <2>6
    <2>8. a \in Nat \ {0} /\ b \in Nat /\ b <= Len(s) /\ a <= b + 1
      BY <1>1, <2>7
    <2> QED BY <2>2, <2>8, PartIs
  <1> QED BY <1>2, <1>3

(* A header has at most one value for a field, a string. *)
LEMMA OneField ==
  ASSUME NEW h \in Seq(Char), NEW name \in Seq(Char),
         NEW v \in httpRequest_find_field(h, name, FieldBuf)
  PROVE  v \in Seq(Char) /\ httpRequest_find_field(h, name, FieldBuf) = {v}
  <1> DEFINE find == <<"eol">> \o name \o <<"colon">>
             M == {k \in 1 .. Len(h) - Len(find) + 1 : HasAnyCase(h, find, k)}
             a == straddr_case(h, find)
             p == a + Len(find)
             Q == {k \in p .. Len(h) : h[k] = "eol"}
             q == straddr(h, <<"eol">>, p)
  <1>1. httpRequest_find_field(h, name, FieldBuf) =
          IF a > 0 /\ q > 0 /\ q - p < FieldBuf THEN {Trim(SubSeq(h, p, q - 1))} ELSE {}
    BY DEF httpRequest_find_field
  <1>2. Len(find) \in Nat \ {0} /\ Len(h) \in Nat
    BY Joined, LenProperties
  <1>3. a = FirstOf(M)
    BY DEF straddr_case
  <1> HIDE DEF find
  <1>4. M \in SUBSET (Nat \ {0})
    BY <1>2
  <1> HIDE DEF M, a
  <1>5. a \in Nat
    BY <1>3, <1>4, FirstTyped
  <1>6. p \in Nat \ {0}
    BY <1>2, <1>5
  <1>7. q = FirstOf(Q)
    <2> HIDE DEF p
    <2> QED BY <1>6, EolFrom
  <1> HIDE DEF p, q
  <1>8. Q \in SUBSET (Nat \ {0})
    BY <1>2, <1>6
  <1> HIDE DEF Q
  <1>9. q > 0 /\ v = Trim(SubSeq(h, p, q - 1)) /\ httpRequest_find_field(h, name, FieldBuf) = {v}
    BY <1>1
  <1>10. q \in p .. Len(h)
    BY <1>7, <1>8, <1>9, FirstTyped DEF Q
  <1>11. q - 1 \in Nat /\ q - 1 <= Len(h) /\ p <= (q - 1) + 1
    BY <1>2, <1>6, <1>10
  <1>12. SubSeq(h, p, q - 1) \in Seq(Char)
    BY <1>6, <1>11, PartIs
  <1> QED BY <1>9, <1>12, TrimTyped

(* A digit is a number. *)
LEMMA DigitTyped ==
  ASSUME NEW c, DigitOf(c) >= 0 PROVE DigitOf(c) \in Nat
  <1> DEFINE D == {k \in DOMAIN Digits : Digits[k] = c}
  <1>1. DOMAIN Digits = 1 .. 10
    BY DEF Digits
  <1>2. D \in SUBSET (Nat \ {0})
    BY <1>1
  <1>3. DigitOf(c) = FirstOf(D) - 1
    BY DEF DigitOf
  <1> HIDE DEF D
  <1>4. FirstOf(D) \in Nat
    BY <1>2, FirstTyped
  <1> QED BY <1>3, <1>4

(* A digit more makes a number of a number. *)
LEMMA OneDigitMore == \A x, y \in Nat : 10 * x + y \in Nat
  OBVIOUS

(* Digits can be read from the left as far as one likes. *)
LEMMA HornerExists ==
  ASSUME NEW n \in Nat, NEW d \in [Nat -> Nat]
  PROVE  \E g \in [0 .. n -> Nat] : g[0] = 0 /\ \A k \in 1 .. n : g[k] = 10 * g[k - 1] + d[k]
  <1> DEFINE S == {m \in Nat : \E g \in [0 .. m -> Nat] :
                     g[0] = 0 /\ \A k \in 1 .. m : g[k] = 10 * g[k - 1] + d[k]}
  <1>1. 0 \in S
    <2> DEFINE g == [k \in 0 .. 0 |-> 0]
    <2>1. g \in [0 .. 0 -> Nat] /\ g[0] = 0 /\ \A k \in 1 .. 0 : g[k] = 10 * g[k - 1] + d[k]
      OBVIOUS
    <2> QED BY <2>1
  <1>2. ASSUME NEW m \in S PROVE m + 1 \in S
    <2>0. m \in Nat
      OBVIOUS
    <2>1. PICK g \in [0 .. m -> Nat] : g[0] = 0 /\ \A k \in 1 .. m : g[k] = 10 * g[k - 1] + d[k]
      OBVIOUS
    <2> HIDE DEF S
    <2> DEFINE next == 10 * g[m] + d[m + 1]
               e == [k \in 0 .. m + 1 |-> IF k <= m THEN g[k] ELSE next]
    <2>2. next \in Nat
      <3>1. g[m] \in Nat /\ d[m + 1] \in Nat
        BY <2>0
      <3> QED BY <3>1, OneDigitMore
    <2>3. e \in [0 .. m + 1 -> Nat]
      <3> HIDE DEF next
      <3>1. ASSUME NEW k \in 0 .. m + 1
            PROVE  (IF k <= m THEN g[k] ELSE next) \in Nat
        BY <2>0, <2>2
      <3> QED BY <3>1
    <2>4. e[0] = 0
      <3> HIDE DEF next
      <3> QED BY <2>0, <2>1
    <2>5. ASSUME NEW k \in 1 .. m + 1 PROVE e[k] = 10 * e[k - 1] + d[k]
      <3>1. CASE k = m + 1
        <4>1. e[k] = next /\ e[k - 1] = g[m]
          BY <2>0, <3>1
        <4> HIDE DEF e
        <4> QED BY <3>1, <4>1
      <3>2. CASE k \in 1 .. m
        <4>1. e[k] = g[k] /\ e[k - 1] = g[k - 1]
          BY <2>0, <3>2
        <4> HIDE DEF e
        <4> QED BY <2>1, <3>2, <4>1
      <3> QED BY <2>0, <3>1, <3>2
    <2> HIDE DEF e
    <2>6. \E f \in [0 .. m + 1 -> Nat] :
            f[0] = 0 /\ \A k \in 1 .. m + 1 : f[k] = 10 * f[k - 1] + d[k]
      BY <2>3, <2>4, <2>5
    <2>7. m + 1 \in Nat
      BY <2>0
    <2> QED BY <2>6, <2>7 DEF S
  <1>3. S \in SUBSET Nat
    OBVIOUS
  <1>4. n \in S
    <2> HIDE DEF S
    <2> QED BY <1>1, <1>2, <1>3, SetInduction
  <1> QED BY <1>4

(* What is read is a number at every place. *)
LEMMA HornerTyped ==
  ASSUME NEW n \in Nat, NEW d \in [Nat -> Nat], NEW f,
         f[0] = 0, \A k \in 1 .. n : f[k] = 10 * f[k - 1] + d[k]
  PROVE  f[n] \in Nat
  <1> DEFINE U == {m \in Nat : m > n \/ f[m] \in Nat}
  <1>1. 0 \in U
    OBVIOUS
  <1>2. ASSUME NEW m \in U PROVE m + 1 \in U
    <2>1. m \in Nat /\ (m > n \/ f[m] \in Nat)
      OBVIOUS
    <2>2. m + 1 > n \/ f[m + 1] \in Nat
      <3>1. SUFFICES ASSUME m + 1 <= n PROVE f[m + 1] \in Nat
        BY <2>1
      <3>2. m + 1 \in 1 .. n /\ (m + 1) - 1 = m /\ ~(m > n)
        BY <2>1, <3>1
      <3> HIDE DEF U
      <3>3. f[m + 1] = 10 * f[m] + d[m + 1]
        BY <3>2
      <3>4. f[m] \in Nat /\ d[m + 1] \in Nat
        BY <2>1, <3>2
      <3> QED BY ONLY <3>3, <3>4, OneDigitMore
    <2> QED BY <2>1, <2>2
  <1>3. U \in SUBSET Nat
    OBVIOUS
  <1>4. n \in U
    <2> HIDE DEF U
    <2> QED BY <1>1, <1>2, <1>3, SetInduction
  <1> QED BY <1>4

(* A string of digits stands for a number. *)
LEMMA NumberTyped ==
  ASSUME NEW s \in Seq(Char), AllDigits(s) PROVE Number(s) \in Nat
  <1> DEFINE n == Len(s)
             d == [k \in Nat |-> IF k \in 1 .. n THEN DigitOf(s[k]) ELSE 0]
             F(g) == [k \in 0 .. n |-> IF k = 0 THEN 0 ELSE 10 * g[k - 1] + DigitOf(s[k])]
             f == CHOOSE g : g = F(g)
  <1>1. n \in Nat /\ DOMAIN s = 1 .. n
    BY LenProperties
  <1>2. d \in [Nat -> Nat]
    <2>1. \A k \in 1 .. n : DigitOf(s[k]) \in Nat
      BY <1>1, DigitTyped DEF AllDigits
    <2> QED BY <2>1
  <1>3. Number(s) = f[n]
    BY DEF Number
  <1>4. \A k \in 1 .. n : DigitOf(s[k]) = d[k]
    BY <1>1
  <1> HIDE DEF d, n
  <1>5. PICK g \in [0 .. n -> Nat] : g[0] = 0 /\ \A k \in 1 .. n : g[k] = 10 * g[k - 1] + d[k]
    BY <1>1, <1>2, HornerExists
  <1>6. g = F(g)
    <2>1. F(g)[0] = 0 /\ \A k \in 1 .. n : F(g)[k] = 10 * g[k - 1] + DigitOf(s[k])
      BY <1>1
    <2>2. DOMAIN F(g) = 0 .. n /\ F(g) = [k \in 0 .. n |-> F(g)[k]]
      OBVIOUS
    <2> HIDE DEF F
    <2>3. ASSUME NEW k \in 0 .. n PROVE g[k] = F(g)[k]
      <3>1. CASE k = 0
        BY <1>5, <2>1, <3>1
      <3>2. CASE k \in 1 .. n
        BY <1>4, <1>5, <2>1, <3>2
      <3> QED BY <1>1, <3>1, <3>2
    <2> QED BY <2>2, <2>3
  <1>7. f = F(f)
    <2> HIDE DEF F
    <2> QED BY <1>6
  <1> HIDE DEF f
  <1>8. f[0] = 0 /\ \A k \in 1 .. n : f[k] = 10 * f[k - 1] + d[k]
    <2>1. F(f)[0] = 0 /\ \A k \in 1 .. n : F(f)[k] = 10 * f[k - 1] + DigitOf(s[k])
      BY <1>1
    <2> HIDE DEF F
    <2> QED BY <1>4, <1>7, <2>1
  <1> HIDE DEF F
  <1>9. f[n] \in Nat
    BY <1>1, <1>2, <1>8, HornerTyped
  <1> QED BY <1>3, <1>9

(* atoi gives the number when an int holds it. *)
LEMMA AtoiExact ==
  ASSUME NEW s \in Seq(Char), AllDigits(s), Number(s) <= IntMax
  PROVE  atoi(s) = Number(s)
  <1> DEFINE N == Number(s)
             long == Min({N, LongMax})
  <1>1. N \in Nat /\ N <= IntMax
    BY NumberTyped
  <1>2. atoi(s) = LET low == long % (2 * IntMax + 2)
                  IN IF low <= IntMax THEN low ELSE low - (2 * IntMax + 2)
    BY DEF atoi
  <1> HIDE DEF N
  <1>3. N <= LongMax
    BY <1>1, LimitsAssumption
  <1>4. long = N
    BY <1>1, <1>3, LimitsAssumption DEF Min
  <1> HIDE DEF long
  <1>5. N % (2 * IntMax + 2) = N
    BY <1>1, LimitsAssumption
  <1> QED BY <1>1, <1>2, <1>4, <1>5 DEF N

(* For every header and every field name, and for ints and longs of any    *)
(* width, the content length is the number in the field when an int holds  *)
(* it, and 0 when the field is no number.                                  *)
THEOREM LengthFound == Spec => []LengthIsNumber
  <1>1. ASSUME SearchInv PROVE LengthIsNumber
    <2>1. Header \in Seq(Char) /\ Name \in Seq(Char)
      BY <1>1, CallTyped DEF SearchInv, SearchTypeOK
    <2> SUFFICES ASSUME NEW v \in httpRequest_find_field(Header, Name, FieldBuf)
                 PROVE  /\ AllDigits(v) /\ Number(v) <= IntMax
                             => httpRequest_get_content_length(Header, Name) = Number(v)
                        /\ ~AllDigits(v) => httpRequest_get_content_length(Header, Name) = 0
      BY DEF LengthIsNumber
    <2> DEFINE w == {s \in httpRequest_find_field(Header, Name, FieldBuf) : AllDigits(s)}
    <2>2. v \in Seq(Char) /\ httpRequest_find_field(Header, Name, FieldBuf) = {v}
      BY <2>1, OneField
    <2>3. httpRequest_get_content_length(Header, Name) =
            IF w = {} THEN 0 ELSE CHOOSE x \in {atoi(s) : s \in w} : TRUE
      BY DEF httpRequest_get_content_length
    <2>4. ASSUME AllDigits(v), Number(v) <= IntMax
          PROVE  httpRequest_get_content_length(Header, Name) = Number(v)
      <3>1. w = {v}
        BY <2>2, <2>4
      <3> HIDE DEF w
      <3>2. {atoi(s) : s \in w} = {Number(v)}
        BY <2>2, <2>4, <3>1, AtoiExact
      <3> QED BY <2>3, <3>1, <3>2
    <2>5. ASSUME ~AllDigits(v) PROVE httpRequest_get_content_length(Header, Name) = 0
      <3>1. w = {}
        BY <2>2, <2>5
      <3> HIDE DEF w
      <3> QED BY <2>3, <3>1
    <2> QED BY <2>4, <2>5
  <1> QED BY <1>1, SearchInvariant, PTL
=============================================================================
