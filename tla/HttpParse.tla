----------------------------- MODULE HttpParse -----------------------------
(***************************************************************************)
(* How a received header is taken apart (http_request.c): the URL of the   *)
(* request line, its path and its parameters, header fields and the        *)
(* content length.  The functions are operators on sequences of            *)
(* characters; positions count from 1 and 0 is NULL.  A function that      *)
(* fills a buffer and returns true is the set of the one value it fills    *)
(* in; false is the empty set.  The pair \r\n is one character, "eol"; a   *)
(* blank and a colon go by their names.                                    *)
(*                                                                         *)
(* The calls that StringSearch ranges over are the inputs here too: a text *)
(* is a header, a pattern the name that is looked for.                     *)
(***************************************************************************)
EXTENDS StringSearch, Sequences, FiniteSetsExt

CONSTANTS
  UrlBuf,    \* buf_size where parameters are looked for (1023)
  PathBuf,   \* buf_size where the path is checked (254)
  ValueBuf,  \* parmer_value_buf_size (1023)
  FieldBuf,  \* value_buf_size where the content length is looked for (31)
  IntMax,    \* the largest int (2^31 - 1)
  LongMax    \* the largest long (2^63 - 1)

ASSUME LimitsAssumption ==
  /\ {UrlBuf, PathBuf, ValueBuf, FieldBuf} \subseteq Nat
  /\ IntMax \in Nat /\ LongMax \in Nat /\ IntMax <= LongMax

(* The end of a line is a character, as is the colon, and no letter. *)
ASSUME EolAssumption ==
  {"eol", "colon"} \subseteq Char /\ \A c \in Char : Swap[c] = "eol" <=> c = "eol"

FirstOf(S) == IF S = {} THEN 0 ELSE Min(S)

strchr(s, c, from) == FirstOf({k \in from .. Len(s) : s[k] = c})

Has(s, p, k) == k + Len(p) - 1 <= Len(s) /\ SubSeq(s, k, k + Len(p) - 1) = p

straddr(s, p, from) == FirstOf({k \in from .. Len(s) - Len(p) + 1 : Has(s, p, k)})

SameLetter(a, b) == a = b \/ a = Swap[b]

HasAnyCase(s, p, k) == \A j \in DOMAIN p : SameLetter(s[k + j - 1], p[j])

straddr_case(s, p) == FirstOf({k \in 1 .. Len(s) - Len(p) + 1 : HasAnyCase(s, p, k)})

-----------------------------------------------------------------------------
(* The URL *)

(* Mutant: a second blank after the method is not skipped. *)
get_url_one_blank(h, size) ==
  LET sp == strchr(h, "blank", 1)
      p  == sp + 1
      q  == strchr(h, "blank", p)
  IN IF sp > 0 /\ straddr(h, <<"eol">>, p) > 0 /\ q > p /\ q - p <= size - 1
     THEN {SubSeq(h, p, q - 1)}
     ELSE {}

(* Between the blanks after the method and the next blank, which is looked *)
(* for beyond the end of the request line too.                             *)
httpRequest_get_url(h, size) ==
  LET sp  == strchr(h, "blank", 1)
      eol == straddr(h, <<"eol">>, sp + 1)
      p   == FirstOf({k \in sp + 1 .. eol : h[k] # "blank"})
      q   == strchr(h, "blank", p)
  IN IF sp > 0 /\ eol > 0 /\ q > p /\ q - p <= size - 1
     THEN {SubSeq(h, p, q - 1)}
     ELSE {}

httpRequest_get_url_path(h, size) ==
  {LET cut == strchr(u, "?", 1) IN SubSeq(u, 1, IF cut > 0 THEN cut - 1 ELSE Len(u)) :
     u \in httpRequest_get_url(h, size)}

(* The URL from its question mark on. *)
httpRequest_get_url_parmer(h, size) ==
  {SubSeq(u, strchr(u, "?", 1), Len(u)) :
     u \in {v \in httpRequest_get_url(h, size) : strchr(v, "?", 1) > 0}}

(* The value that begins at position q of the query p. *)
ValueAt(p, q) ==
  LET n == strchr(p, "&", q)
  IN SubSeq(p, q, IF n > 0 THEN n - 1 ELSE Len(p))

Fits(v) == Len(v) \in 1 .. ValueBuf

(* Mutant: the place of the key is not looked at. *)
parmer_value_anywhere(h, key) ==
  UNION {LET p == Tail(r)
             q == straddr(p, key \o <<"=">>, 1)
         IN IF q > 0 THEN {v \in {ValueAt(p, q + Len(key) + 1)} : Fits(v)} ELSE {} :
           r \in httpRequest_get_url_parmer(h, UrlBuf)}

(* Only the first place where "key=" is found is considered. *)
httpRequest_get_url_parmer_value(h, key) ==
  UNION {LET p == Tail(r)
             q == straddr(p, key \o <<"=">>, 1)
         IN IF q = 1 \/ (q > 1 /\ p[q - 1] = "&")
            THEN {v \in {ValueAt(p, q + Len(key) + 1)} : Fits(v)}
            ELSE {} :
           r \in httpRequest_get_url_parmer(h, UrlBuf)}

-----------------------------------------------------------------------------
(* Header fields *)

Trim(s) ==
  LET inner == {k \in DOMAIN s : s[k] # "blank"}
  IN IF inner = {} THEN <<>> ELSE SubSeq(s, Min(inner), Max(inner))

(* Mutant: names are compared with regard to case. *)
find_field_one_case(h, name, size) ==
  LET find == <<"eol">> \o name \o <<"colon">>
      a    == straddr(h, find, 1)
      p    == a + Len(find)
      q    == straddr(h, <<"eol">>, p)
  IN IF a > 0 /\ q > 0 /\ q - p < size THEN {Trim(SubSeq(h, p, q - 1))} ELSE {}

httpRequest_find_field(h, name, size) ==
  LET find == <<"eol">> \o name \o <<"colon">>
      a    == straddr_case(h, find)
      p    == a + Len(find)
      q    == straddr(h, <<"eol">>, p)
  IN IF a > 0 /\ q > 0 /\ q - p < size THEN {Trim(SubSeq(h, p, q - 1))} ELSE {}

Digits == <<"0", "1", "2", "3", "4", "5", "6", "7", "8", "9">>
DigitOf(c) == FirstOf({k \in DOMAIN Digits : Digits[k] = c}) - 1
AllDigits(s) == \A k \in DOMAIN s : DigitOf(s[k]) >= 0

(* The number a string of digits stands for. *)
Number(s) ==
  LET upTo[k \in 0 .. Len(s)] == IF k = 0 THEN 0 ELSE 10 * upTo[k - 1] + DigitOf(s[k])
  IN upTo[Len(s)]

(* atoi is strtol, which stops at the largest long, cut down to an int. *)
atoi(s) ==
  LET long == Min({Number(s), LongMax})
      mod  == 2 * IntMax + 2
      low  == long % mod
  IN IF low <= IntMax THEN low ELSE low - mod

(* Mutant: a field that is no number is read as far as it goes. *)
get_content_length_unchecked(h, name) ==
  LET v == httpRequest_find_field(h, name, FieldBuf)
      n == UNION {{k \in 0 .. Len(s) : AllDigits(SubSeq(s, 1, k))} : s \in v}
  IN IF v = {} THEN 0 ELSE CHOOSE x \in {atoi(SubSeq(s, 1, Max(n))) : s \in v} : TRUE

(* 0 if there is no such field or it is not made of digits. *)
httpRequest_get_content_length(h, name) ==
  LET v == {s \in httpRequest_find_field(h, name, FieldBuf) : AllDigits(s)}
  IN IF v = {} THEN 0 ELSE CHOOSE x \in {atoi(s) : s \in v} : TRUE

-----------------------------------------------------------------------------
(* Properties, each of the header and name of a call. *)

Header == [k \in 1 .. text_size |-> text[k - 1]]
Name == [k \in 1 .. patt_size |-> patt[k - 1]]

AtCall == pc = "table" /\ i = 0

(* The names the program looks for end neither a line nor a parameter. *)
NamePlain == \A k \in DOMAIN Name : Name[k] \notin {"eol", "&"}

Ends(h) == {k \in DOMAIN h : h[k] = "eol"}

RequestLine(h) == SubSeq(h, 1, FirstOf(Ends(h)) - 1)

(* The places of the words of line l that follow a blank. *)
Words(l) ==
  {w \in (2 .. Len(l)) \X (2 .. Len(l)) :
     /\ w[1] <= w[2]
     /\ \A k \in w[1] .. w[2] : l[k] # "blank"
     /\ l[w[1] - 1] = "blank"
     /\ w[2] < Len(l) => l[w[2] + 1] = "blank"}

(* The word after the method, if another part follows it. *)
Target(l) ==
  {SubSeq(l, w[1], w[2]) :
     w \in {x \in Words(l) : x[2] < Len(l) /\ \A y \in Words(l) : x[1] <= y[1]}}

(* On a request line with a method, a target and something behind it, the  *)
(* URL is the target, however many blanks precede it and whatever the      *)
(* header holds after the line, and the path that is compared with the one *)
(* logs are sent to is the target up to its first question mark.  A target *)
(* that does not fit, its query included, is refused; the buffer of the    *)
(* path check is the smaller one.                                          *)
UrlIsTarget ==
  (AtCall /\ Ends(Header) # {}) =>
    \A t \in Target(RequestLine(Header)) :
      LET mark == FirstOf({k \in DOMAIN t : t[k] = "?"} \cup {Len(t) + 1})
      IN /\ httpRequest_get_url(Header, UrlBuf) = {u \in {t} : Len(u) < UrlBuf}
         /\ httpRequest_get_url_path(Header, PathBuf) =
              {SubSeq(u, 1, mark - 1) : u \in {u \in {t} : Len(u) < PathBuf}}

(* Where in query p a parameter begins. *)
Starts(p) == {k \in DOMAIN p : k = 1 \/ p[k - 1] = "&"}

(* The parameters of that name, and the places inside other parameters     *)
(* where its text occurs.                                                  *)
NamedAt(p, key) == {k \in Starts(p) : Has(p, key \o <<"=">>, k)}
InsideAt(p, key) == {k \in DOMAIN p \ Starts(p) : Has(p, key \o <<"=">>, k)}

(* Parameter k of query p without its name. *)
ValueOf(p, k, key) ==
  LET stop == FirstOf({j \in k .. Len(p) : p[j] = "&"} \cup {Len(p) + 1})
  IN SubSeq(p, k + Len(key) + 1, stop - 1)

(* A parameter has the value of the first one of its name: never one of a  *)
(* longer name that ends alike, never beyond its ampersand.  It is found   *)
(* whenever its text does not also occur inside a parameter before it.     *)
ParameterIsFirst ==
  (AtCall /\ NamePlain) =>
    \A r \in httpRequest_get_url_parmer(Header, UrlBuf) :
      LET p == Tail(r)
          first == FirstOf(NamedAt(p, Name))
          hidden == \E k \in InsideAt(p, Name) : k < first
      IN httpRequest_get_url_parmer_value(Header, Name) =
           IF first > 0 /\ ~hidden THEN {v \in {ValueOf(p, first, Name)} : Fits(v)} ELSE {}

(* The lines of a header after the first that end, as intervals. *)
FieldLines(h) ==
  {<<x[1] + 1, x[2] - 1>> :
     x \in {y \in Ends(h) \X Ends(h) :
              y[1] < y[2] /\ \A k \in y[1] + 1 .. y[2] - 1 : h[k] # "eol"}}

IsField(h, l, name) ==
  LET n == name \o <<"colon">>
  IN l[2] - l[1] + 1 >= Len(n) /\ HasAnyCase(h, n, l[1])

(* A field is the first line that begins with its name, in any case, and   *)
(* a colon; its value is what follows on that line, without the blanks     *)
(* around it.  A name inside another field's value is never taken for it.  *)
FieldIsFirstLine ==
  (AtCall /\ NamePlain) =>
    httpRequest_find_field(Header, Name, FieldBuf) =
      LET ls == {l \in FieldLines(Header) : IsField(Header, l, Name)}
          first == {l \in ls : \A m \in ls : l[1] <= m[1]}
      IN {Trim(SubSeq(Header, l[1] + Len(Name) + 1, l[2])) :
            l \in {l \in first : l[2] - l[1] - Len(Name) < FieldBuf}}

(* The content length is the number in the field when an int holds it, and *)
(* 0 when the field holds anything but a number.  (A number that an int    *)
(* does not hold comes out as atoi cuts it.)                               *)
LengthIsNumber ==
  AtCall =>
    \A v \in httpRequest_find_field(Header, Name, FieldBuf) :
      /\ AllDigits(v) /\ Number(v) <= IntMax
           => httpRequest_get_content_length(Header, Name) = Number(v)
      /\ ~AllDigits(v) => httpRequest_get_content_length(Header, Name) = 0
=============================================================================
