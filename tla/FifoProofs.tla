----------------------------- MODULE FifoProofs -----------------------------
(***************************************************************************)
(* Proofs about Fifo, for any number of writers, any width of the counters *)
(* and any sizes: copies never overlap, and the ring is the bounded queue  *)
(* of BoundedQueue.                                                        *)
(***************************************************************************)
EXTENDS Fifo, NaturalsInduction, WellFoundedInduction, SequenceTheorems, TLAPS

-----------------------------------------------------------------------------
(* Induction over the natural numbers, as a fact about sets. *)

(* A set of natural numbers has a least element. *)
LEMMA LeastElement ==
  ASSUME NEW S \in SUBSET Nat, S # {} PROVE \E n \in S : \A m \in S : n <= m
<1> DEFINE R == {ss \in Nat \X Nat : ss[1] < ss[2]}
<1>1. IsWellFoundedOn(R, Nat)
  <2>1. R = OpToRel(<, Nat)
    BY Zenon DEF OpToRel
  <2> HIDE DEF R
  <2> QED BY <2>1, NatLessThanWellFounded, Zenon
<1>2. PICK n \in S : \A m \in S : ~(<<m, n>> \in R)
  <2> HIDE DEF R
  <2> QED BY <1>1, WFMin, Zenon
<1>3. ASSUME NEW m \in S PROVE n <= m
  <2>1. ~(<<m, n>> \in R)
    BY <1>2
  <2>2. m \in Nat /\ n \in Nat
    OBVIOUS
  <2>3. ~(m < n)
    BY <2>1, <2>2
  <2> QED BY <2>2, <2>3
<1> QED BY <1>3

(* A set that holds 0 and the successors of its members holds them all. *)
LEMMA SetInduction ==
  ASSUME NEW S \in SUBSET Nat, 0 \in S, \A n \in S : n + 1 \in S PROVE S = Nat
<1>1. SUFFICES ASSUME Nat \ S # {} PROVE FALSE
  OBVIOUS
<1>2. PICK n \in Nat \ S : \A m \in Nat \ S : n <= m
  BY <1>1, LeastElement
<1>3. n - 1 \in S
  BY <1>2
<1> QED BY <1>2, <1>3

-----------------------------------------------------------------------------
(* Powers of two *)

(* shl is what its recursive definition says. *)
LEMMA Powers ==
  /\ shl \in [0 .. Width -> Nat \ {0}]
  /\ shl[0] = 1
  /\ \A k \in 1 .. Width : shl[k] = 2 * shl[k - 1]
<1> DEFINE T == Nat \ {0}
           S == {n \in Nat : \E g \in [0 .. n -> T] :
                   g[0] = 1 /\ \A k \in 1 .. n : g[k] = 2 * g[k - 1]}
<1>1. S = Nat
  <2>1. 0 \in S
    <3> DEFINE g == [k \in 0 .. 0 |-> 1]
    <3>1. g \in [0 .. 0 -> T] /\ g[0] = 1 /\ \A k \in 1 .. 0 : g[k] = 2 * g[k - 1]
      OBVIOUS
    <3> QED BY <3>1
  <2>2. ASSUME NEW n \in S PROVE n + 1 \in S
    <3>1. PICK g \in [0 .. n -> T] : g[0] = 1 /\ \A k \in 1 .. n : g[k] = 2 * g[k - 1]
      OBVIOUS
    <3> DEFINE h == [k \in 0 .. n + 1 |-> IF k <= n THEN g[k] ELSE 2 * g[n]]
    <3>2. 2 * g[n] \in T
      OBVIOUS
    <3>3. h \in [0 .. n + 1 -> T]
      BY <3>2
    <3>4. h[0] = 1
      BY <3>1
    <3>5. ASSUME NEW k \in 1 .. n + 1 PROVE h[k] = 2 * h[k - 1]
      BY <3>1
    <3> HIDE DEF h
    <3>6. \E f \in [0 .. n + 1 -> T] : f[0] = 1 /\ \A k \in 1 .. n + 1 : f[k] = 2 * f[k - 1]
      BY <3>3, <3>4, <3>5
    <3>7. n + 1 \in Nat
      OBVIOUS
    <3> QED BY <3>6, <3>7
  <2> HIDE DEF S
  <2>3. S \in SUBSET Nat
    BY DEF S
  <2> QED BY <2>1, <2>2, <2>3, SetInduction
<1>2. PICK g \in [0 .. Width -> T] : g[0] = 1 /\ \A k \in 1 .. Width : g[k] = 2 * g[k - 1]
  <2>1. Width \in S
    BY <1>1, WidthAssumption
  <2> QED BY <2>1
<1>3. g = [k \in 0 .. Width |-> IF k = 0 THEN 1 ELSE 2 * g[k - 1]]
  BY <1>2, WidthAssumption
<1>4. shl = [k \in 0 .. Width |-> IF k = 0 THEN 1 ELSE 2 * shl[k - 1]]
  BY <1>3 DEF shl
<1> DEFINE U == {n \in Nat : n <= Width => shl[n] \in T}
<1>5. shl[0] = 1 /\ \A k \in 1 .. Width : shl[k] = 2 * shl[k - 1]
  BY <1>4, WidthAssumption
<1>6. U = Nat
  <2>1. 0 \in U
    BY <1>5
  <2>2. ASSUME NEW n \in U PROVE n + 1 \in U
    <3>1. n \in Nat /\ (n <= Width => shl[n] \in T)
      OBVIOUS
    <3>2. ASSUME n + 1 <= Width PROVE shl[n + 1] \in T
      <4>1. n + 1 \in 1 .. Width /\ (n + 1) - 1 = n /\ n <= Width
        BY <3>1, <3>2, WidthAssumption
      <4>2. shl[n + 1] = 2 * shl[n]
        BY <1>5, <4>1
      <4>3. shl[n] \in Nat \ {0}
        BY <3>1, <4>1
      <4> QED BY ONLY <4>2, <4>3
    <3> QED BY <3>1, <3>2
  <2> HIDE DEF U
  <2>3. U \in SUBSET Nat
    BY DEF U
  <2> QED BY <2>1, <2>2, <2>3, SetInduction
<1>7. ASSUME NEW k \in 0 .. Width PROVE shl[k] \in T
  BY <1>6
<1> QED BY <1>4, <1>5, <1>7

(* A power of two is a multiple of each one before it. *)
LEMMA PowersDivide ==
  ASSUME NEW k \in 0 .. Width - 1
  PROVE  \E q \in Nat : q >= 2 /\ Mod = shl[k] * q
<1> DEFINE S == {d \in Nat : k + d + 1 <= Width =>
                   \E q \in Nat : q >= 2 /\ shl[k + d + 1] = shl[k] * q}
<1>1. 0 \in S
  <2>1. shl[k + 1] = shl[k] * 2
    BY Powers, WidthAssumption
  <2> QED BY <2>1
<1>2. ASSUME NEW d \in S PROVE d + 1 \in S
  <2> SUFFICES ASSUME k + (d + 1) + 1 <= Width
               PROVE  \E q \in Nat : q >= 2 /\ shl[k + (d + 1) + 1] = shl[k] * q
    OBVIOUS
  <2>1. PICK q \in Nat : q >= 2 /\ shl[k + d + 1] = shl[k] * q
    BY WidthAssumption
  <2>2. shl[k + (d + 1) + 1] = 2 * shl[k + d + 1]
    BY Powers, WidthAssumption
  <2>3. shl[k] \in Nat
    BY Powers, WidthAssumption
  <2>4. 2 * (shl[k] * q) = shl[k] * (2 * q)
    BY <2>3
  <2> QED BY <2>1, <2>2, <2>4
<1>3. S = Nat
  <2> HIDE DEF S
  <2>1. S \in SUBSET Nat
    BY DEF S
  <2> QED BY <1>1, <1>2, <2>1, SetInduction
<1>4. PICK d \in Nat : k + d + 1 = Width
  <2>1. Width - k - 1 \in Nat /\ k + (Width - k - 1) + 1 = Width
    BY WidthAssumption
  <2> QED BY <2>1
<1>5. d \in S
  BY <1>3
<1> QED BY <1>4, <1>5, WidthAssumption DEF Mod

(* fifo_cal_buffer_size gives a power of two below the counters' modulus. *)
LEMMA SizeIsPower ==
  ASSUME NEW n \in Asked PROVE \E k \in 0 .. Width - 1 : fifo_cal_buffer_size(n) = shl[k]
<1>1. n \in Nat /\ n >= 1 /\ n <= shl[Width - 1]
  BY SizesAssumption, Powers, WidthAssumption
<1>2. shl[Width] = 2 * shl[Width - 1] /\ shl[Width - 1] \in Nat \ {0}
  BY Powers, WidthAssumption
<1>3. CASE IsPower(n)
  <2>1. PICK k \in 0 .. Width : n = shl[k]
    BY <1>3 DEF IsPower
  <2>2. k # Width
    BY <1>1, <1>2, <2>1
  <2> QED BY <1>3, <2>1, <2>2, WidthAssumption DEF fifo_cal_buffer_size
<1>4. CASE ~IsPower(n)
  <2> DEFINE x == n - 1
             Is(p) == x < shl[p] /\ (p > 0 => shl[p - 1] <= x)
             S == {p \in 0 .. Width : x < shl[p]}
  <2>1. x \in Nat /\ x < shl[Width - 1]
    BY <1>1, <1>2
  <2> HIDE DEF x
  <2>2. PICK p \in S : \A m \in S : p <= m
    <3>1. Width - 1 \in S /\ S \in SUBSET Nat
      BY <2>1, WidthAssumption
    <3> HIDE DEF S
    <3> QED BY <3>1, LeastElement
  <2>3. p \in 0 .. Width /\ Is(p)
    <3>1. ASSUME p > 0 PROVE shl[p - 1] <= x
      <4>1. p - 1 \in 0 .. Width /\ p - 1 \notin S
        BY <2>2, <3>1, WidthAssumption
      <4>2. shl[p - 1] \in Nat
        BY <4>1, Powers
      <4> QED BY <2>1, <4>1, <4>2
    <3> QED BY <2>2, <3>1
  <2>4. fls(x) \in 0 .. Width /\ Is(fls(x))
    BY <2>3 DEF fls
  <2> DEFINE k == fls(x)
  <2> HIDE DEF k
  <2>5. k \in 0 .. Width /\ Is(k)
    BY <2>4 DEF k
  <2>6. k # Width
    BY <1>2, <2>1, <2>5, WidthAssumption
  <2>7. k \in 0 .. Width - 1
    BY <2>5, <2>6, WidthAssumption
  <2>8. shl[k] \in Nat /\ Mod \in Nat /\ shl[k] < Mod
    <3>1. shl[k] \in Nat \ {0} /\ Mod \in Nat
      BY <2>5, Powers, WidthAssumption DEF Mod
    <3>2. PICK q \in Nat : q >= 2 /\ Mod = shl[k] * q
      BY <2>7, PowersDivide
    <3> QED BY ONLY <3>1, <3>2, q \in Nat
  <2>9. shl[k] % Mod = shl[k]
    BY <2>8
  <2>10. fifo_cal_buffer_size(n) = shl[k] % Mod
    BY <1>4 DEF fifo_cal_buffer_size, k, x
  <2> QED BY <2>7, <2>9, <2>10
<1> QED BY <1>3, <1>4

-----------------------------------------------------------------------------
(* Remainders *)

(* A remainder by its quotient. *)
LEMMA RemainderIs ==
  ASSUME NEW N \in Nat \ {0}, NEW q \in Int, NEW r \in 0 .. N - 1
  PROVE  (N * q + r) % N = r
OBVIOUS

(* A number is a multiple of N plus its remainder. *)
LEMMA Quotient ==
  ASSUME NEW N \in Nat \ {0}, NEW n \in Nat
  PROVE  \E q \in Int, r \in 0 .. N - 1 : n = N * q + r /\ n % N = r
<1>1. n % N = n - N * (n \div N) /\ n \div N \in Int
  BY SMTT(30)
<1> DEFINE q == n \div N
           r == n % N
<1>2. q \in Int /\ r = n - N * q /\ r \in 0 .. N - 1
  BY <1>1
<1> HIDE DEF q
<1>3. n = N * q + r
  <2> HIDE DEF r
  <2> QED BY ONLY <1>2, n \in Nat, N \in Nat \ {0}
<1> QED BY <1>2, <1>3

(* A counter that moves by at most its modulus wraps at most once. *)
LEMMA WrapOnce ==
  ASSUME NEW M \in Nat \ {0}, NEW x \in Int, -M <= x, x < 2 * M
  PROVE  /\ x < 0 => x % M = x + M
         /\ 0 <= x /\ x < M => x % M = x
         /\ M <= x => x % M = x - M
<1>1. ASSUME x < 0 PROVE x % M = x + M
  <2>1. (M * (-1) + (x + M)) % M = x + M /\ M * (-1) + (x + M) = x
    BY <1>1, RemainderIs
  <2> QED BY <2>1
<1>2. ASSUME 0 <= x, x < M PROVE x % M = x
  BY <1>2
<1>3. ASSUME M <= x PROVE x % M = x - M
  <2>1. (M * 1 + (x - M)) % M = x - M /\ M * 1 + (x - M) = x
    BY <1>3, RemainderIs
  <2> QED BY <2>1
<1> QED BY <1>1, <1>2, <1>3

(* Places on a ring of N slots. *)
Wrap(N, p) == IF p < N THEN p ELSE p - N

(* The slot k places after that of counter a, whose modulus M is a         *)
(* multiple of the ring's size N.                                          *)
LEMMA SlotAfter ==
  ASSUME NEW N \in Nat \ {0}, NEW M \in Nat, M % N = 0, N < M,
         NEW a \in 0 .. M - 1, NEW k \in 0 .. N
  PROVE  ((a + k) % M) % N = Wrap(N, (a % N) + k)
<1>1. PICK q \in Int, r \in 0 .. N - 1 : a = N * q + r /\ a % N = r
  <2>1. a \in Nat
    OBVIOUS
  <2> QED BY ONLY <2>1, N \in Nat \ {0}, Quotient
<1>2. PICK m \in Int : M = N * m
  <2>1. PICK m \in Int, z \in 0 .. N - 1 : M = N * m + z /\ M % N = z
    BY Quotient
  <2> QED BY <2>1
<1>3. ASSUME NEW c \in Int PROVE (N * c + (r + k)) % N = IF r + k < N THEN r + k ELSE r + k - N
  <2>1. CASE r + k < N
    <3>1. r + k \in 0 .. N - 1
      BY <2>1
    <3> QED BY <2>1, <3>1, RemainderIs
  <2>2. CASE r + k >= N
    <3>1. r + k - N \in 0 .. N - 1
      BY <2>2
    <3>2. N * c + (r + k) = N * (c + 1) + (r + k - N)
      OBVIOUS
    <3>3. (N * (c + 1) + (r + k - N)) % N = r + k - N
      <4>1. c + 1 \in Int
        OBVIOUS
      <4> QED BY ONLY <3>1, <4>1, N \in Nat \ {0}, RemainderIs
    <3> QED BY <2>2, <3>2, <3>3
  <2> QED BY <2>1, <2>2
<1>4. PICK e \in Int : (a + k) % M = N * e + (r + k)
  <2>0. /\ M \in Nat \ {0} /\ a + k \in Int /\ -M <= a + k /\ a + k < 2 * M /\ 0 <= a + k
    OBVIOUS
  <2>1. CASE a + k < M
    <3>1. (a + k) % M = a + k
      BY ONLY <2>0, <2>1, WrapOnce
    <3>2. a + k = N * q + (r + k)
      BY <1>1
    <3> QED BY <3>1, <3>2
  <2>2. CASE M <= a + k
    <3>1. (a + k) % M = a + k - M
      <4> DEFINE y == a + k
      <4>1. y \in Int /\ -M <= y /\ y < 2 * M /\ M <= y
        BY <2>0, <2>2
      <4> HIDE DEF y
      <4>2. y % M = y - M
        BY ONLY <2>0, <4>1, WrapOnce
      <4> QED BY <4>2 DEF y
    <3>2. a + k - M = N * (q - m) + (r + k)
      BY <1>1, <1>2
    <3> QED BY <3>1, <3>2
  <2> QED BY <2>1, <2>2
<1>5. ((a + k) % M) % N = IF r + k < N THEN r + k ELSE r + k - N
  BY <1>3, <1>4
<1> QED BY <1>1, <1>5 DEF Wrap

(* The counters o and i of a reader and a writer that are d apart. *)
LEMMA Distance ==
  ASSUME NEW M \in Nat \ {0}, NEW i \in 0 .. M - 1, NEW o \in 0 .. M - 1
  PROVE  /\ (i - o) % M = IF i >= o THEN i - o ELSE i - o + M
         /\ (i - o) % M \in 0 .. M - 1
         /\ (o + ((i - o) % M)) % M = i
<1>1. (i - o) % M = IF i >= o THEN i - o ELSE i - o + M
  <2> DEFINE x == i - o
  <2>1. x \in Int /\ -M <= x /\ x < 2 * M /\ (x < 0 <=> ~(i >= o)) /\ x < M
    OBVIOUS
  <2> HIDE DEF x
  <2>2. x < 0 => x % M = x + M
    BY ONLY <2>1, M \in Nat \ {0}, WrapOnce
  <2>3. 0 <= x => x % M = x
    BY ONLY <2>1, M \in Nat \ {0}, WrapOnce
  <2>4. 0 <= x <=> i >= o
    BY <2>1
  <2> QED BY <2>1, <2>2, <2>3, <2>4 DEF x
<1> DEFINE d == (i - o) % M
           y == o + d
<1>2. d \in 0 .. M - 1
  BY <1>1
<1>3. y \in Int /\ -M <= y /\ y < 2 * M /\ (y = i \/ y = i + M)
  BY <1>1
<1>4. y % M = i
  <2> HIDE DEF y
  <2>1. CASE y = i
    BY <2>1
  <2>2. CASE y = i + M
    <3>1. M <= y /\ y - M = i
      BY <2>2
    <3>2. y % M = y - M
      BY ONLY <1>3, <3>1, M \in Nat \ {0}, WrapOnce
    <3> QED BY <3>1, <3>2
  <2> QED BY <1>3, <2>1, <2>2
<1> QED BY <1>1, <1>2, <1>4

(* What is free, *)
LEMMA FreeSpace ==
  ASSUME NEW M \in Nat \ {0}, NEW i \in 0 .. M - 1, NEW o \in 0 .. M - 1,
         NEW N \in Nat, N < M, (i - o) % M <= N
  PROVE  (N - i + o) % M = N - ((i - o) % M)
<1> DEFINE d == (i - o) % M
           x == N - i + o
<1>1. (i - o) % M = IF i >= o THEN i - o ELSE i - o + M
  BY Distance
<1>2. d \in Int /\ x \in Int /\ (x = N - d \/ x = N - d + M) /\ 0 <= N - d /\ N - d < M /\ 0 <= d
  BY <1>1
<1> HIDE DEF d, x
<1>3. -M <= x /\ x < 2 * M
  BY <1>2
<1>4. CASE x = N - d
  <2>1. 0 <= x /\ x < M
    BY <1>2, <1>4
  <2> QED BY ONLY <1>2, <1>3, <1>4, <2>1, M \in Nat \ {0}, WrapOnce DEF x, d
<1>5. CASE x = N - d + M
  <2>1. M <= x /\ x - M = N - d
    BY <1>2, <1>5
  <2>2. x % M = x - M
    BY ONLY <1>2, <1>3, <2>1, M \in Nat \ {0}, WrapOnce
  <2> QED BY <2>1, <2>2 DEF x, d
<1> QED BY <1>2, <1>4, <1>5

(* how the distance grows with a put, *)
LEMMA PutMoves ==
  ASSUME NEW M \in Nat \ {0}, NEW i \in 0 .. M - 1, NEW o \in 0 .. M - 1,
         NEW n \in Nat, ((i - o) % M) + n < M
  PROVE  (i + n) % M \in 0 .. M - 1 /\ (((i + n) % M) - o) % M = ((i - o) % M) + n
<1> DEFINE d == (i - o) % M
           y == i + n
           j == y % M
<1>1. d = (IF i >= o THEN i - o ELSE i - o + M) /\ d \in Nat
  <2>1. (i - o) % M = IF i >= o THEN i - o ELSE i - o + M
    BY Distance
  <2> QED BY <2>1
<1>2. y \in Int /\ -M <= y /\ y < 2 * M /\ 0 <= y /\ y = i + n
  BY <1>1
<1> HIDE DEF d, y
<1>3. j = IF y < M THEN y ELSE y - M
  <2>1. CASE y < M
    BY ONLY <1>2, <2>1, M \in Nat \ {0}, WrapOnce
  <2>2. CASE M <= y
    <3>1. y % M = y - M
      BY ONLY <1>2, <2>2, M \in Nat \ {0}, WrapOnce
    <3> QED BY <1>2, <2>2, <3>1
  <2> QED BY <1>2, <2>1, <2>2
<1>4. j \in 0 .. M - 1
  BY <1>2, <1>3
<1> HIDE DEF j
<1>5. (j - o) % M = IF j >= o THEN j - o ELSE j - o + M
  BY ONLY <1>4, M \in Nat \ {0}, o \in 0 .. M - 1, Distance
<1>6. d + n < M
  BY DEF d
<1>7. (j - o) % M = d + n
  BY ONLY <1>1, <1>2, <1>3, <1>5, <1>6, M \in Nat \ {0}, i \in 0 .. M - 1, o \in 0 .. M - 1, n \in Nat
<1> QED BY <1>4, <1>7 DEF j, y, d

(* and shrinks with a read. *)
LEMMA ReadMoves ==
  ASSUME NEW M \in Nat \ {0}, NEW i \in 0 .. M - 1, NEW o \in 0 .. M - 1,
         NEW n \in Nat, n <= (i - o) % M
  PROVE  (o + n) % M \in 0 .. M - 1 /\ (i - ((o + n) % M)) % M = ((i - o) % M) - n
<1> DEFINE d == (i - o) % M
           y == o + n
           j == y % M
<1>1. d = (IF i >= o THEN i - o ELSE i - o + M) /\ d \in Nat /\ d < M
  <2>1. (i - o) % M = IF i >= o THEN i - o ELSE i - o + M
    BY Distance
  <2> QED BY <2>1
<1>2. y \in Int /\ -M <= y /\ y < 2 * M /\ 0 <= y /\ y = o + n
  BY <1>1
<1> HIDE DEF d, y
<1>3. j = IF y < M THEN y ELSE y - M
  <2>1. CASE y < M
    BY ONLY <1>2, <2>1, M \in Nat \ {0}, WrapOnce
  <2>2. CASE M <= y
    <3>1. y % M = y - M
      BY ONLY <1>2, <2>2, M \in Nat \ {0}, WrapOnce
    <3> QED BY <1>2, <2>2, <3>1
  <2> QED BY <1>2, <2>1, <2>2
<1>4. j \in 0 .. M - 1
  BY <1>2, <1>3
<1> HIDE DEF j
<1>5. (i - j) % M = IF i >= j THEN i - j ELSE i - j + M
  BY ONLY <1>4, M \in Nat \ {0}, i \in 0 .. M - 1, Distance
<1>6. n <= d
  BY DEF d
<1>7. (i - j) % M = d - n
  BY ONLY <1>1, <1>2, <1>3, <1>5, <1>6, M \in Nat \ {0}, i \in 0 .. M - 1, o \in 0 .. M - 1, n \in Nat
<1> QED BY <1>4, <1>7 DEF j, y, d

(* The places behind the reader's and the writer's counter. *)
RingOf(N, M, i, o) ==
  /\ i % N \in 0 .. N - 1 /\ o % N \in 0 .. N - 1
  /\ i % N = Wrap(N, (o % N) + ((i - o) % M))
  /\ \A k \in 0 .. N : /\ ((i + k) % M) % N = Wrap(N, (i % N) + k)
                        /\ ((o + k) % M) % N = Wrap(N, (o % N) + k)

(* A ring whose data fits has its places so. *)
LEMMA Places ==
  ASSUME NEW N \in Nat \ {0}, NEW M \in Nat, M % N = 0, N < M,
         NEW i \in 0 .. M - 1, NEW o \in 0 .. M - 1, (i - o) % M <= N
  PROVE  RingOf(N, M, i, o)
<1>1. i % N \in 0 .. N - 1 /\ o % N \in 0 .. N - 1
  OBVIOUS
<1>2. ASSUME NEW k \in 0 .. N
      PROVE  /\ ((i + k) % M) % N = Wrap(N, (i % N) + k)
             /\ ((o + k) % M) % N = Wrap(N, (o % N) + k)
  <2>1. ASSUME NEW c \in 0 .. M - 1 PROVE ((c + k) % M) % N = Wrap(N, (c % N) + k)
    BY SlotAfter, Zenon
  <2> QED BY <2>1, Zenon
<1> DEFINE d == (i - o) % M
<1>3. M \in Nat \ {0}
  OBVIOUS
<1>4. d \in 0 .. N /\ (o + d) % M = i
  BY ONLY <1>3, i \in 0 .. M - 1, o \in 0 .. M - 1, N \in Nat, d <= N, Distance
<1> HIDE DEF d
<1>5. i % N = Wrap(N, (o % N) + d)
  BY <1>2, <1>4
<1>6. i % N = Wrap(N, (o % N) + ((i - o) % M))
  BY <1>5 DEF d
<1> QED BY <1>1, <1>2, <1>6 DEF RingOf

-----------------------------------------------------------------------------
(* What makes the properties inductive. *)

(* The slot k places after that of a counter. *)
Place(c, k) == Slot((c + k) % Mod)

(* A writer in a put holds the lock and has data. *)
OneWriter ==
  \A w \in Writers : /\ wpc[w] # "idle" => lock = w
                     /\ wpc[w] = "idle" <=> data[w] = <<>>

(* The data fits the ring, with what is being put, and what is being read  *)
(* is part of it.                                                          *)
Bounded ==
  /\ FIFO_DATA_LEN <= size
  /\ \A w \in Writers : wpc[w] \in Copying => FIFO_DATA_LEN + Len(data[w]) <= size
  /\ rpc \in Copying => len <= FIFO_DATA_LEN

(* What a put has copied so far is in the slots behind the data. *)
Written ==
  \A w \in Writers :
    LET n == Len(data[w]) IN
      /\ wpc[w] = "rest" => \A k \in 1 .. FirstPart(in, n) : buffer[Place(in, k - 1)] = data[w][k]
      /\ wpc[w] = "publish" => \A k \in 1 .. n : buffer[Place(in, k - 1)] = data[w][k]

(* What a read has copied so far is the front of the data. *)
IsFront(n) == Len(copied) = n /\ \A k \in 1 .. n : copied[k] = buffer[Place(out, k - 1)]

Taken ==
  /\ rpc = "rest" => IsFront(FirstPart(out, len))
  /\ rpc = "publish" => IsFront(len)

IInv == TypeOK /\ OneWriter /\ Bounded /\ Written /\ Taken

-----------------------------------------------------------------------------
(* The geometry of the ring in a state. *)

(* The counters have a modulus. *)
LEMMA ModTyped == Mod \in Nat \ {0}
BY Powers, WidthAssumption DEF Mod

(* How the slots of the two counters lie, and what is free. *)
LEMMA Geometry ==
  ASSUME TypeOK, FIFO_DATA_LEN <= size
  PROVE  /\ FIFO_DATA_LEN \in 0 .. size
         /\ Slot(in) \in 0 .. size - 1 /\ Slot(out) \in 0 .. size - 1
         /\ Slot(in) = Wrap(size, Slot(out) + FIFO_DATA_LEN)
         /\ \A k \in 0 .. size : /\ Place(in, k) = Wrap(size, Slot(in) + k)
                                 /\ Place(out, k) = Wrap(size, Slot(out) + k)
         /\ FIFO_FREE_SIZE = size - FIFO_DATA_LEN
<1>1. /\ size \in Nat \ {0} /\ Mod \in Nat \ {0} /\ size < Mod /\ Mod % size = 0
      /\ in \in 0 .. Mod - 1 /\ out \in 0 .. Mod - 1 /\ size \in Nat /\ Mod \in Nat
  BY ModTyped DEF TypeOK
<1>2. (in - out) % Mod <= size
  BY DEF FIFO_DATA_LEN
<1>3. (in - out) % Mod \in 0 .. Mod - 1
  BY ONLY <1>1, Distance
<1>4. FIFO_DATA_LEN \in 0 .. size
  BY <1>1, <1>2, <1>3 DEF FIFO_DATA_LEN
<1>5. RingOf(size, Mod, in, out)
  BY ONLY <1>1, <1>2, Places, Zenon
<1>6. (size - in + out) % Mod = size - ((in - out) % Mod)
  BY ONLY <1>1, <1>2, FreeSpace
<1> QED BY <1>4, <1>5, <1>6, Zenon DEF FIFO_DATA_LEN, FIFO_FREE_SIZE, Slot, Place, RingOf

(* The same of the next state. *)
LEMMA GeometryNext ==
  ASSUME TypeOK', FIFO_DATA_LEN' <= size'
  PROVE  /\ FIFO_DATA_LEN' \in 0 .. size'
         /\ Slot(in)' \in 0 .. size' - 1 /\ Slot(out)' \in 0 .. size' - 1
         /\ Slot(in)' = Wrap(size', Slot(out)' + FIFO_DATA_LEN')
         /\ \A k \in 0 .. size' : /\ Place(in, k)' = Wrap(size', Slot(in)' + k)
                                  /\ Place(out, k)' = Wrap(size', Slot(out)' + k)
<1>1. /\ size' \in Nat \ {0} /\ Mod \in Nat \ {0} /\ size' < Mod /\ Mod % size' = 0
      /\ in' \in 0 .. Mod - 1 /\ out' \in 0 .. Mod - 1 /\ size' \in Nat /\ Mod \in Nat
  BY ModTyped DEF TypeOK, Mod
<1>2. (in' - out') % Mod <= size'
  BY DEF FIFO_DATA_LEN, Mod
<1>3. (in' - out') % Mod \in 0 .. Mod - 1
  BY ONLY <1>1, Distance
<1>4. FIFO_DATA_LEN' \in 0 .. size'
  BY <1>1, <1>2, <1>3 DEF FIFO_DATA_LEN, Mod
<1>5. RingOf(size', Mod, in', out')
  BY ONLY <1>1, <1>2, Places, Zenon
<1> QED BY <1>4, <1>5, Zenon DEF FIFO_DATA_LEN, Slot, Place, Mod, RingOf

(* The first part of a copy ends where the buffer does. *)
LEMMA FirstPartIs ==
  ASSUME NEW c, NEW n \in Nat, size \in Nat, Slot(c) \in 0 .. size - 1
  PROVE  /\ FirstPart(c, n) \in 0 .. n
         /\ Slot(c) + FirstPart(c, n) <= size
         /\ FirstPart(c, n) < n => Slot(c) + FirstPart(c, n) = size
BY DEF FirstPart, fifo_min

(* Steps that move no counter. *)
LEMMA Rests ==
  ASSUME UNCHANGED <<size, in, out>>
  PROVE  /\ FIFO_DATA_LEN' = FIFO_DATA_LEN
         /\ Slot(in)' = Slot(in) /\ Slot(out)' = Slot(out)
         /\ \A k : Place(in, k)' = Place(in, k) /\ Place(out, k)' = Place(out, k)
         /\ \A n : FirstPart(in, n)' = FirstPart(in, n) /\ FirstPart(out, n)' = FirstPart(out, n)
BY DEF FIFO_DATA_LEN, Slot, Place, FirstPart, fifo_min, Mod

(* While a writer is in a put the others are not. *)
LEMMA OthersIdle ==
  ASSUME OneWriter, NEW w \in Writers, wpc[w] # "idle", NEW v \in Writers \ {w}
  PROVE  wpc[v] = "idle"
BY DEF OneWriter

(* The inductive invariant holds at the start. *)
LEMMA InitIInv == Init => IInv
<1> SUFFICES ASSUME Init PROVE IInv
  OBVIOUS
<1>1. PICK k \in 0 .. Width - 1 : size = shl[k]
  BY SizeIsPower DEF Init
<1>2. size \in Nat \ {0}
  BY <1>1, Powers, WidthAssumption
<1>3. PICK q \in Nat : q >= 2 /\ Mod = size * q
  BY <1>1, PowersDivide
<1>4. size < Mod /\ Mod % size = 0
  <2>1. size * q > size
    BY ONLY <1>2, <1>3, q \in Nat
  <2>2. (size * q + 0) % size = 0
    BY <1>2, RemainderIs
  <2>3. size * q + 0 = size * q
    BY <1>2
  <2> QED BY <1>3, <2>1, <2>2, <2>3
<1>5. TypeOK
  <2>1. short \in BOOLEAN /\ disable \in BOOLEAN
    BY Zenon DEF Init
  <2> QED BY <1>2, <1>4, <2>1, ModTyped, SizesAssumption DEF Init, TypeOK, Garbage
<1>6. FIFO_DATA_LEN = 0
  BY ModTyped DEF Init, FIFO_DATA_LEN
<1>7. OneWriter /\ Bounded /\ Written /\ Taken
  BY <1>2, <1>6 DEF Init, OneWriter, Bounded, Written, Taken, Copying
<1> QED BY <1>5, <1>7 DEF IInv

(* An array of n items is a sequence. *)
LEMMA ArrayIsSeq ==
  ASSUME NEW S, NEW n \in Nat, NEW d \in [1 .. n -> S]
  PROVE  d \in Seq(S) /\ Len(d) = n /\ (n > 0 => d # <<>>)
<1>1. d \in Seq(S)
  BY SeqDef
<1>2. Len(d) \in Nat /\ 1 .. Len(d) = 1 .. n
  BY <1>1, LenProperties
<1>3. Len(d) = n
  BY <1>2
<1> QED BY <1>1, <1>3

-----------------------------------------------------------------------------
(* The steps that copy nothing and move no counter. *)

(* The writers' part of the invariant, if neither they nor the ring move. *)
LEMMA WrittenKeeps ==
  ASSUME Written, UNCHANGED <<size, buffer, in, out, wpc, data>> PROVE Written'
BY DEF Written, Place, Slot, FirstPart, fifo_min, Mod

(* The reader's part, if neither it nor the ring moves. *)
LEMMA TakenKeeps ==
  ASSUME Taken, UNCHANGED <<size, buffer, in, out, readVars>> PROVE Taken'
BY DEF Taken, IsFront, Place, Slot, FirstPart, fifo_min, Mod, readVars

(* fifo_enable and fifo_disable keep the invariant, *)
LEMMA SwitchKeeps == ASSUME IInv, fifo_enable \/ fifo_disable PROVE IInv'
<1> USE DEF IInv
<1>1. UNCHANGED <<size, buffer, in, out, putVars, readVars>> /\ disable' \in BOOLEAN
  BY DEF fifo_enable, fifo_disable
<1>2. TypeOK'
  BY <1>1 DEF TypeOK, Mod, putVars, readVars
<1>3. OneWriter'
  BY <1>1 DEF OneWriter, putVars
<1>4. Bounded'
  BY <1>1, Rests DEF Bounded, putVars, readVars
<1>5. Written' /\ Taken'
  BY <1>1, WrittenKeeps, TakenKeeps DEF putVars
<1> QED BY <1>2, <1>3, <1>4, <1>5

(* and so does a step of one put that only changes where it is, if it is   *)
(* not in the middle of its copies, and if it fits when it starts to copy. *)
LEMMA PutMovesOn ==
  ASSUME IInv, NEW w \in Writers, NEW to \in {"look", "copy"}, wpc[w] \in {"put", "look"},
         PutGoto(w, to), UNCHANGED ringVars,
         to = "copy" => Len(data[w]) <= FIFO_FREE_SIZE
  PROVE  IInv'
<1> USE DEF IInv
<1>1. /\ UNCHANGED <<size, buffer, in, out, disable, lock, data, sent, readVars>>
      /\ wpc' = [wpc EXCEPT ![w] = to]
  BY DEF PutGoto, ringVars
<1>2. TypeOK'
  BY <1>1 DEF TypeOK, Mod, readVars, Copying
<1>3. OneWriter'
  BY <1>1 DEF OneWriter, TypeOK
<1>4. Bounded'
  <2>1. FIFO_DATA_LEN' <= size' /\ (rpc' \in Copying => len' <= FIFO_DATA_LEN')
    BY <1>1, Rests DEF Bounded, readVars
  <2>2. ASSUME NEW v \in Writers, wpc'[v] \in Copying PROVE FIFO_DATA_LEN' + Len(data'[v]) <= size'
    <3>1. CASE v # w
      BY <1>1, <2>2, <3>1, Rests DEF Bounded, TypeOK
    <3>2. CASE v = w
      <4>1. to = "copy"
        BY <1>1, <2>2, <3>2 DEF TypeOK, Copying
      <4>2. FIFO_FREE_SIZE = size - FIFO_DATA_LEN /\ FIFO_DATA_LEN \in Nat /\ size \in Nat
        BY Geometry DEF Bounded, TypeOK
      <4>3. Len(data[w]) \in Nat
        BY DEF TypeOK
      <4>4. Len(data[w]) <= FIFO_FREE_SIZE
        BY <4>1
      <4>5. FIFO_DATA_LEN + Len(data[w]) <= size
        BY ONLY <4>2, <4>3, <4>4
      <4> QED BY <1>1, <3>2, <4>5, Rests
    <3> QED BY <3>1, <3>2
  <2> QED BY <2>1, <2>2 DEF Bounded
<1>5. Written'
  BY <1>1 DEF Written, Place, Slot, FirstPart, fifo_min, Mod, TypeOK
<1>6. Taken'
  BY <1>1, TakenKeeps
<1> QED BY <1>2, <1>3, <1>4, <1>5, <1>6

(* A put that is refused keeps the invariant. *)
LEMMA RefusedKeeps ==
  ASSUME IInv, NEW w \in Writers, wpc[w] # "idle", put_refused(w) PROVE IInv'
<1> USE DEF IInv
<1>1. /\ UNCHANGED <<size, buffer, in, out, disable, sent, readVars>> /\ lock' = Nobody
      /\ wpc' = [wpc EXCEPT ![w] = "idle"] /\ data' = [data EXCEPT ![w] = <<>>]
  BY DEF put_refused, ringVars
<1>2. TypeOK'
  BY <1>1 DEF TypeOK, Mod, readVars
<1>3. \A v \in Writers : wpc'[v] = "idle" /\ data'[v] = <<>>
  BY <1>1, OthersIdle DEF TypeOK, OneWriter
<1>4. OneWriter'
  BY <1>3 DEF OneWriter
<1>5. Bounded'
  BY <1>1, <1>3, Rests DEF Bounded, readVars, Copying
<1>6. Written'
  BY <1>3 DEF Written
<1>7. Taken'
  BY <1>1, TakenKeeps
<1> QED BY <1>2, <1>4, <1>5, <1>6, <1>7

(* fifo_safe_put keeps it, *)
LEMMA SafePutKeeps ==
  ASSUME IInv, NEW w \in Writers, fifo_safe_put(w) PROVE IInv'
<1> USE DEF IInv
<1>1. /\ UNCHANGED <<size, buffer, in, out, disable, sent, readVars>>
      /\ lock' = w /\ lock = Nobody
      /\ wpc' = [wpc EXCEPT ![w] = "put"]
  BY DEF fifo_safe_put, ringVars
<1>2. PICK n \in 1 .. MaxLen :
        data' = [data EXCEPT ![w] = [k \in 1 .. n |-> (sent + k - 1) % Items]]
  BY DEF fifo_safe_put
<1> DEFINE d == [k \in 1 .. n |-> (sent + k - 1) % Items]
<1>3. d \in Seq(0 .. Items - 1) /\ d # <<>> /\ Len(d) = n
  <2>1. n \in Nat /\ n > 0 /\ \A k \in 1 .. n : (sent + k - 1) % Items \in 0 .. Items - 1
    BY SizesAssumption DEF TypeOK
  <2>2. d \in [1 .. n -> 0 .. Items - 1]
    BY <2>1
  <2>3. d \in Seq(0 .. Items - 1) /\ Len(d) = n
    <3> HIDE DEF d
    <3> QED BY <2>1, <2>2, ArrayIsSeq
  <2> HIDE DEF d
  <2> QED BY <2>1, <2>3
<1> HIDE DEF d
<1>4. data' = [data EXCEPT ![w] = d]
  BY <1>2 DEF d
<1>5. TypeOK'
  BY <1>1, <1>3, <1>4 DEF TypeOK, Mod, readVars
<1>6. \A v \in Writers : wpc[v] = "idle"
  BY <1>1, WritersAssumption DEF OneWriter
<1>7. OneWriter'
  BY <1>1, <1>3, <1>4, <1>6 DEF OneWriter, TypeOK
<1>8. \A v \in Writers : wpc'[v] \in {"idle", "put"}
  BY <1>1, <1>6 DEF TypeOK
<1>9. Bounded'
  BY <1>1, <1>8, Rests DEF Bounded, readVars, Copying
<1>10. Written'
  BY <1>8 DEF Written
<1>11. Taken'
  BY <1>1, TakenKeeps
<1> QED BY <1>5, <1>7, <1>9, <1>10, <1>11

(* and so do the two looks at the free space. *)
LEMMA LooksKeep ==
  ASSUME IInv, NEW w \in Writers, fifo_put(w) \/ put_look_again(w) PROVE IInv'
<1>1. wpc[w] \in {"put", "look"} /\ wpc[w] # "idle"
  BY DEF fifo_put, put_look_again
<1>2. CASE put_refused(w)
  BY <1>1, <1>2, RefusedKeeps
<1>3. ASSUME NEW to \in {"look", "copy"}, PutGoto(w, to), UNCHANGED ringVars,
             to = "copy" => Len(data[w]) <= FIFO_FREE_SIZE
      PROVE  IInv'
  BY <1>1, <1>3, PutMovesOn
<1>4. FIFO_FREE_SIZE \in Nat /\ Len(data[w]) \in Nat
  <2>1. FIFO_FREE_SIZE = size - FIFO_DATA_LEN /\ FIFO_DATA_LEN \in 0 .. size /\ size \in Nat
    BY Geometry DEF IInv, Bounded, TypeOK
  <2>2. FIFO_FREE_SIZE \in Nat
    BY ONLY <2>1
  <2>3. Len(data[w]) \in Nat
    BY DEF IInv, TypeOK
  <2> QED BY <2>2, <2>3
<1>5. CASE fifo_put(w) /\ ~put_refused(w)
  <2> DEFINE to == IF Len(data[w]) < FIFO_FREE_SIZE THEN "copy" ELSE "look"
  <2>1. PutGoto(w, to) /\ UNCHANGED ringVars
    BY <1>5 DEF fifo_put
  <2>2. to \in {"look", "copy"} /\ (to = "copy" => Len(data[w]) <= FIFO_FREE_SIZE)
    BY <1>4
  <2> HIDE DEF to
  <2> QED BY <1>3, <2>1, <2>2
<1>6. CASE put_look_again(w) /\ ~put_refused(w)
  <2>1. PutGoto(w, "copy") /\ UNCHANGED ringVars /\ FIFO_FREE_SIZE = Len(data[w])
    BY <1>6 DEF put_look_again
  <2> QED BY <1>3, <1>4, <2>1
<1> QED BY <1>2, <1>5, <1>6

-----------------------------------------------------------------------------
(* The copies of a put *)

(* What is known of the ring while writer w copies. *)
LEMMA PutGeometry ==
  ASSUME IInv, NEW w \in Writers, wpc[w] \in Copying
  PROVE  /\ size \in Nat \ {0} /\ FIFO_DATA_LEN \in 0 .. size
         /\ Len(data[w]) \in Nat /\ FIFO_DATA_LEN + Len(data[w]) <= size
         /\ Slot(in) \in 0 .. size - 1
         /\ FirstPart(in, Len(data[w])) \in 0 .. Len(data[w])
         /\ Slot(in) + FirstPart(in, Len(data[w])) <= size
         /\ FirstPart(in, Len(data[w])) < Len(data[w])
              => Slot(in) + FirstPart(in, Len(data[w])) = size
         /\ \A k \in 0 .. size : Place(in, k) = Wrap(size, Slot(in) + k)
         /\ \A k \in 0 .. FIFO_DATA_LEN - 1 :
              /\ Place(out, k) \in 0 .. size - 1
              /\ \A b \in 0 .. Len(data[w]) - 1 : Place(out, k) # Place(in, b)
<1> DEFINE n == Len(data[w])
           d == FIFO_DATA_LEN
           so == Slot(out)
<1>1. /\ size \in Nat \ {0} /\ size \in Nat /\ d \in 0 .. size /\ n \in Nat
      /\ d + n <= size /\ Slot(in) \in 0 .. size - 1 /\ so \in 0 .. size - 1
      /\ Slot(in) = Wrap(size, so + d)
      /\ \A k \in 0 .. size : /\ Place(in, k) = Wrap(size, Slot(in) + k)
                              /\ Place(out, k) = Wrap(size, so + k)
  <2>1. TypeOK /\ FIFO_DATA_LEN <= size /\ FIFO_DATA_LEN + Len(data[w]) <= size
    BY DEF IInv, Bounded
  <2>2. size \in Nat \ {0} /\ size \in Nat /\ Len(data[w]) \in Nat
    BY DEF IInv, TypeOK
  <2> QED BY <2>1, <2>2, Geometry
<1> HIDE DEF n, d, so
<1>2. /\ FirstPart(in, n) \in 0 .. n
      /\ Slot(in) + FirstPart(in, n) <= size
      /\ FirstPart(in, n) < n => Slot(in) + FirstPart(in, n) = size
  BY <1>1, FirstPartIs
<1>3. ASSUME NEW k \in 0 .. d - 1 PROVE Place(out, k) \in 0 .. size - 1
  <2>1. k \in 0 .. size /\ k < size
    BY <1>1
  <2> QED BY <1>1, <2>1 DEF Wrap
<1>4. ASSUME NEW k \in 0 .. d - 1, NEW b \in 0 .. n - 1 PROVE Place(out, k) # Place(in, b)
  <2>1. k \in 0 .. size /\ b \in 0 .. size
    BY <1>1
  <2>2. Place(in, b) = Wrap(size, Wrap(size, so + d) + b) /\ Place(out, k) = Wrap(size, so + k)
    BY <1>1, <2>1
  <2>3. Wrap(size, so + k) # Wrap(size, Wrap(size, so + d) + b)
    <3>1. size \in Nat \ {0} /\ so \in 0 .. size - 1 /\ d \in 0 .. size /\ n \in Nat /\ d + n <= size
      BY <1>1
    <3> QED BY ONLY <3>1, k \in 0 .. d - 1, b \in 0 .. n - 1 DEF Wrap
  <2> QED BY <2>2, <2>3
<1> QED BY <1>1, <1>2, <1>3, <1>4 DEF n, d

(* What the buffer and the data hold. *)
LEMMA BufferTyped ==
  ASSUME IInv, NEW w \in Writers
  PROVE  /\ buffer \in [0 .. size - 1 -> -1 .. Items - 1] /\ Items \in Nat
         /\ \A k \in 1 .. Len(data[w]) : data[w][k] \in -1 .. Items - 1
<1>1. buffer \in [0 .. size - 1 -> -1 .. Items - 1] /\ data[w] \in Seq(0 .. Items - 1)
  BY DEF IInv, TypeOK
<1>2. Items \in Nat
  BY SizesAssumption
<1>3. ASSUME NEW k \in 1 .. Len(data[w]) PROVE data[w][k] \in 0 .. Items - 1
  BY <1>1, ElementOfSeq
<1> QED BY <1>1, <1>2, <1>3

(* What a copy stores, and that it leaves the data alone. *)
LEMMA CopyStores ==
  ASSUME IInv, NEW w \in Writers, put_copy(w)
  PROVE  /\ buffer' \in [0 .. size - 1 -> -1 .. Items - 1]
         /\ \A k \in 1 .. FirstPart(in, Len(data[w])) : buffer'[Place(in, k - 1)] = data[w][k]
         /\ \A k \in 0 .. FIFO_DATA_LEN - 1 : buffer'[Place(out, k)] = buffer[Place(out, k)]
<1> DEFINE n == Len(data[w])
           f == FirstPart(in, n)
<1>1. wpc[w] \in Copying
  BY DEF put_copy, Copying
<1>2. /\ size \in Nat \ {0} /\ FIFO_DATA_LEN \in 0 .. size
      /\ n \in Nat /\ FIFO_DATA_LEN + n <= size
      /\ Slot(in) \in 0 .. size - 1 /\ f \in 0 .. n /\ Slot(in) + f <= size
      /\ \A k \in 0 .. size : Place(in, k) = Wrap(size, Slot(in) + k)
      /\ \A k \in 0 .. FIFO_DATA_LEN - 1 :
           Place(out, k) \in 0 .. size - 1 /\ \A b \in 0 .. n - 1 : Place(out, k) # Place(in, b)
  BY <1>1, PutGeometry
<1>3. /\ buffer \in [0 .. size - 1 -> -1 .. Items - 1] /\ Items \in Nat
      /\ \A k \in 1 .. n : data[w][k] \in -1 .. Items - 1
  BY BufferTyped
<1>4. buffer' = [j \in 0 .. size - 1 |-> IF j - Slot(in) \in 0 .. f - 1
                                          THEN data[w][j - Slot(in) + 1] ELSE buffer[j]]
  <2>1. buffer' = [j \in DOMAIN buffer |-> IF j - Slot(in) \in 0 .. f - 0 - 1
                                            THEN data[w][0 + j - Slot(in) + 1] ELSE buffer[j]]
    BY DEF put_copy, Stored
  <2>2. DOMAIN buffer = 0 .. size - 1 /\ f - 0 - 1 = f - 1
    BY <1>2, <1>3
  <2>3. \A j \in 0 .. size - 1 : 0 + j - Slot(in) + 1 = j - Slot(in) + 1
    BY <1>2
  <2> HIDE DEF f
  <2> QED BY <2>1, <2>2, <2>3
<1> HIDE DEF f, n
<1>5. ASSUME NEW j \in 0 .. size - 1
      PROVE  buffer'[j] = IF j - Slot(in) \in 0 .. f - 1
                           THEN data[w][j - Slot(in) + 1] ELSE buffer[j]
  BY <1>4
<1>6. buffer' \in [0 .. size - 1 -> -1 .. Items - 1]
  <2>1. ASSUME NEW j \in 0 .. size - 1, j - Slot(in) \in 0 .. f - 1
        PROVE  j - Slot(in) + 1 \in 1 .. n
    BY <1>2, <2>1
  <2> QED BY <1>3, <1>4, <2>1
<1>7. ASSUME NEW k \in 1 .. f PROVE buffer'[Place(in, k - 1)] = data[w][k]
  <2> DEFINE j == Slot(in) + (k - 1)
  <2>1. k - 1 \in 0 .. size /\ Place(in, k - 1) = j
    BY <1>2 DEF Wrap
  <2>2. j \in 0 .. size - 1 /\ j - Slot(in) \in 0 .. f - 1 /\ j - Slot(in) + 1 = k
    BY <1>2
  <2> HIDE DEF j
  <2> QED BY <1>5, <2>1, <2>2
<1>8. ASSUME NEW k \in 0 .. FIFO_DATA_LEN - 1 PROVE buffer'[Place(out, k)] = buffer[Place(out, k)]
  <2> DEFINE j == Place(out, k)
  <2>1. j \in 0 .. size - 1 /\ \A b \in 0 .. n - 1 : j # Place(in, b)
    BY <1>2
  <2> HIDE DEF j
  <2>2. ASSUME j - Slot(in) \in 0 .. f - 1 PROVE FALSE
    <3>1. j - Slot(in) \in 0 .. n - 1 /\ j - Slot(in) \in 0 .. size
      BY <1>2, <2>1, <2>2
    <3>2. Place(in, j - Slot(in)) = Wrap(size, Slot(in) + (j - Slot(in)))
      BY <1>2, <3>1
    <3>3. Wrap(size, Slot(in) + (j - Slot(in))) = j
      BY <1>2, <2>1 DEF Wrap
    <3> QED BY <2>1, <3>1, <3>2, <3>3
  <2> QED BY <1>5, <2>1, <2>2 DEF j
<1> QED BY <1>6, <1>7, <1>8 DEF f, n

(* The same of the copy of the rest, which with the first part is all. *)
LEMMA RestStores ==
  ASSUME IInv, NEW w \in Writers, put_copy_rest(w)
  PROVE  /\ buffer' \in [0 .. size - 1 -> -1 .. Items - 1]
         /\ \A k \in 1 .. Len(data[w]) : buffer'[Place(in, k - 1)] = data[w][k]
         /\ \A k \in 0 .. FIFO_DATA_LEN - 1 : buffer'[Place(out, k)] = buffer[Place(out, k)]
<1> DEFINE n == Len(data[w])
           f == FirstPart(in, n)
<1>1. wpc[w] = "rest" /\ wpc[w] \in Copying
  BY DEF put_copy_rest, Copying
<1>2. /\ size \in Nat \ {0} /\ FIFO_DATA_LEN \in 0 .. size
      /\ n \in Nat /\ FIFO_DATA_LEN + n <= size
      /\ Slot(in) \in 0 .. size - 1 /\ f \in 0 .. n /\ Slot(in) + f <= size
      /\ f < n => Slot(in) + f = size
      /\ \A k \in 0 .. size : Place(in, k) = Wrap(size, Slot(in) + k)
      /\ \A k \in 0 .. FIFO_DATA_LEN - 1 :
           Place(out, k) \in 0 .. size - 1 /\ \A b \in 0 .. n - 1 : Place(out, k) # Place(in, b)
  BY <1>1, PutGeometry
<1>3. /\ buffer \in [0 .. size - 1 -> -1 .. Items - 1] /\ Items \in Nat
      /\ \A k \in 1 .. n : data[w][k] \in -1 .. Items - 1
  BY BufferTyped
<1>4. \A k \in 1 .. f : buffer[Place(in, k - 1)] = data[w][k]
  BY <1>1 DEF IInv, Written
<1>5. buffer' = [j \in 0 .. size - 1 |-> IF j \in 0 .. n - f - 1
                                          THEN data[w][f + j + 1] ELSE buffer[j]]
  <2>1. buffer' = [j \in DOMAIN buffer |-> IF j - 0 \in 0 .. n - f - 1
                                            THEN data[w][f + j - 0 + 1] ELSE buffer[j]]
    BY DEF put_copy_rest, Stored
  <2>2. DOMAIN buffer = 0 .. size - 1
    BY <1>3
  <2> HIDE DEF f, n
  <2>3. \A j \in 0 .. size - 1 : f + j - 0 + 1 = f + j + 1 /\ j - 0 = j
    BY <1>2
  <2> QED BY <2>1, <2>2, <2>3
<1> HIDE DEF f, n
<1>6. ASSUME NEW j \in 0 .. size - 1
      PROVE  buffer'[j] = IF j \in 0 .. n - f - 1 THEN data[w][f + j + 1] ELSE buffer[j]
  BY <1>5
<1>7. buffer' \in [0 .. size - 1 -> -1 .. Items - 1]
  <2>1. ASSUME NEW j \in 0 .. size - 1, j \in 0 .. n - f - 1 PROVE f + j + 1 \in 1 .. n
    BY <1>2, <2>1
  <2> QED BY <1>3, <1>5, <2>1
<1>8. ASSUME NEW k \in 1 .. n PROVE buffer'[Place(in, k - 1)] = data[w][k]
  <2> DEFINE j == Place(in, k - 1)
  <2>1. k - 1 \in 0 .. size
    BY <1>2
  <2>2. j = Wrap(size, Slot(in) + (k - 1))
    BY <1>2, <2>1
  <2>3. CASE k <= f
    <3>1. j = Slot(in) + (k - 1) /\ j \in 0 .. size - 1 /\ ~(j \in 0 .. n - f - 1)
      BY <1>2, <2>2, <2>3 DEF Wrap
    <3>2. k \in 1 .. f
      BY <1>2, <2>3
    <3> HIDE DEF j
    <3>3. buffer[j] = data[w][k]
      BY <1>4, <3>2 DEF j
    <3>4. buffer'[j] = buffer[j]
      BY <1>6, <3>1
    <3> QED BY <3>3, <3>4 DEF j
  <2>4. CASE k > f
    <3> HIDE DEF j
    <3>1. j = k - 1 - f /\ j \in 0 .. size - 1 /\ j \in 0 .. n - f - 1 /\ f + j + 1 = k
      <4>1. Slot(in) + f = size /\ n <= size
        BY <1>2, <2>4
      <4>2. Slot(in) + (k - 1) = size + (k - 1 - f) /\ k - 1 - f \in 0 .. n - f - 1
        BY <1>2, <2>4, <4>1
      <4>3. j = k - 1 - f
        BY <1>2, <2>2, <4>2 DEF Wrap
      <4> QED BY <1>2, <4>1, <4>2, <4>3
    <3>2. buffer'[j] = data[w][k]
      BY <1>6, <3>1
    <3> QED BY <3>2 DEF j
  <2> QED BY <1>2, <2>3, <2>4
<1>9. ASSUME NEW k \in 0 .. FIFO_DATA_LEN - 1 PROVE buffer'[Place(out, k)] = buffer[Place(out, k)]
  <2> DEFINE j == Place(out, k)
  <2>1. j \in 0 .. size - 1 /\ \A b \in 0 .. n - 1 : j # Place(in, b)
    BY <1>2
  <2> HIDE DEF j
  <2>2. ASSUME j \in 0 .. n - f - 1 PROVE FALSE
    <3>1. f + j \in 0 .. n - 1 /\ f + j \in 0 .. size /\ f < n
      BY <1>2, <2>1, <2>2
    <3>2. Place(in, f + j) = Wrap(size, Slot(in) + (f + j))
      BY <1>2, <3>1
    <3>3. Wrap(size, Slot(in) + (f + j)) = j
      BY <1>2, <2>1, <3>1 DEF Wrap
    <3> QED BY <2>1, <3>1, <3>2, <3>3
  <2> QED BY <1>6, <2>1, <2>2 DEF j
<1> QED BY <1>7, <1>8, <1>9 DEF f, n

(* Both copies keep the invariant. *)
LEMMA CopiesKeep ==
  ASSUME IInv, NEW w \in Writers, put_copy(w) \/ put_copy_rest(w) PROVE IInv'
<1> USE DEF IInv
<1>1. PICK to \in {"rest", "publish"} :
        /\ wpc' = [wpc EXCEPT ![w] = to] /\ (to = "rest" <=> put_copy(w))
        /\ UNCHANGED <<size, in, out, disable, lock, data, sent, readVars>>
  <2>1. put_copy(w) => wpc[w] = "copy"
    BY DEF put_copy
  <2>2. put_copy_rest(w) => wpc[w] = "rest"
    BY DEF put_copy_rest
  <2>3. CASE put_copy(w)
    BY <2>3 DEF put_copy, PutGoto
  <2>4. CASE put_copy_rest(w)
    BY <2>1, <2>2, <2>4 DEF put_copy_rest, PutGoto
  <2> QED BY <2>3, <2>4
<1>2. wpc[w] \in Copying /\ wpc[w] # "idle"
  BY DEF put_copy, put_copy_rest, Copying
<1>3. /\ buffer' \in [0 .. size - 1 -> -1 .. Items - 1]
      /\ \A k \in 0 .. FIFO_DATA_LEN - 1 : buffer'[Place(out, k)] = buffer[Place(out, k)]
  BY CopyStores, RestStores
<1>4. TypeOK'
  BY <1>1, <1>3 DEF TypeOK, Mod, readVars, Copying
<1>5. OneWriter'
  BY <1>1, <1>2 DEF OneWriter, TypeOK
<1>6. Bounded'
  BY <1>1, <1>2, Rests DEF Bounded, readVars, TypeOK, Copying
<1>7. Written'
  <2>1. \A v \in Writers : wpc'[v] = IF v = w THEN to ELSE "idle"
    BY <1>1, <1>2, OthersIdle DEF TypeOK
  <2>2. CASE to = "rest"
    <3>1. \A k \in 1 .. FirstPart(in, Len(data[w])) : buffer'[Place(in, k - 1)] = data[w][k]
      BY <1>1, <2>2, CopyStores
    <3>2. \A k \in 1 .. FirstPart(in, Len(data[w]))' : buffer'[Place(in, k - 1)'] = data'[w][k]
      BY <1>1, <3>1, Rests DEF FirstPart, fifo_min, Slot
    <3> QED BY <2>1, <2>2, <3>2 DEF Written
  <2>3. CASE to = "publish"
    <3>1. \A k \in 1 .. Len(data[w]) : buffer'[Place(in, k - 1)] = data[w][k]
      BY <1>1, <2>3, RestStores
    <3>2. \A k \in 1 .. Len(data'[w]) : buffer'[Place(in, k - 1)'] = data'[w][k]
      BY <1>1, <3>1, Rests
    <3> QED BY <2>1, <2>3, <3>2 DEF Written
  <2> QED BY <2>2, <2>3
<1>8. Taken'
  <2>1. FIFO_DATA_LEN \in Nat /\ len \in Nat
    BY Geometry DEF Bounded, TypeOK
  <2>2. ASSUME NEW n \in 0 .. FIFO_DATA_LEN, IsFront(n)
        PROVE  Len(copied') = n /\ \A k \in 1 .. n : copied'[k] = buffer'[Place(out, k - 1)']
    <3>1. ASSUME NEW k \in 1 .. n PROVE buffer'[Place(out, k - 1)] = buffer[Place(out, k - 1)]
      <4>1. k - 1 \in 0 .. FIFO_DATA_LEN - 1
        BY <2>1
      <4> QED BY <1>3, <4>1
    <3> QED BY <1>1, <2>2, <3>1, Rests DEF IsFront, readVars
  <2>3. ASSUME rpc \in Copying
        PROVE  FirstPart(out, len) \in 0 .. FIFO_DATA_LEN /\ len \in 0 .. FIFO_DATA_LEN
    <3>1. len <= FIFO_DATA_LEN
      BY <2>3 DEF Bounded
    <3>2. FirstPart(out, len) \in 0 .. len
      BY <2>1, Geometry, FirstPartIs DEF Bounded, TypeOK
    <3> QED BY <2>1, <3>1, <3>2
  <2>4. FirstPart(out, len)' = FirstPart(out, len) /\ rpc' = rpc /\ len' = len
    BY <1>1 DEF readVars, FirstPart, fifo_min, Slot
  <2>5. ASSUME rpc = "rest" PROVE IsFront(FirstPart(out, len))'
    <3> DEFINE n == FirstPart(out, len)
    <3>1. n \in 0 .. FIFO_DATA_LEN /\ IsFront(n)
      BY <2>3, <2>5 DEF Taken, Copying
    <3> HIDE DEF n
    <3>2. Len(copied') = n /\ \A k \in 1 .. n : copied'[k] = buffer'[Place(out, k - 1)']
      BY <2>2, <3>1
    <3> QED BY <2>4, <3>2 DEF n, IsFront
  <2>6. ASSUME rpc = "publish" PROVE IsFront(len)'
    <3>1. len \in 0 .. FIFO_DATA_LEN /\ IsFront(len)
      BY <2>3, <2>6 DEF Taken, Copying
    <3> QED BY <2>2, <2>4, <3>1 DEF IsFront
  <2> QED BY <2>4, <2>5, <2>6 DEF Taken
<1> QED BY <1>4, <1>5, <1>6, <1>7, <1>8

(* How put_publish moves the ring, *)
LEMMA PublishMoves ==
  ASSUME IInv, NEW w \in Writers, put_publish(w)
  PROVE  in' \in 0 .. Mod - 1 /\ FIFO_DATA_LEN' = FIFO_DATA_LEN + Len(data[w])
<1> DEFINE n == Len(data[w])
<1>1. /\ Mod \in Nat \ {0} /\ in \in 0 .. Mod - 1 /\ out \in 0 .. Mod - 1 /\ n \in Nat
  BY ModTyped DEF IInv, TypeOK
<1>2. ((in - out) % Mod) + n < Mod
  <2>1. FIFO_DATA_LEN + n <= size
    BY DEF IInv, Bounded, put_publish, Copying
  <2>2. size \in Nat /\ size < Mod /\ FIFO_DATA_LEN \in Nat
    BY Geometry DEF IInv, TypeOK, Bounded
  <2>3. FIFO_DATA_LEN + n < Mod
    <3> HIDE DEF n
    <3> QED BY <1>1, <2>1, <2>2
  <2> QED BY <2>3 DEF FIFO_DATA_LEN
<1>3. in' = (in + n) % Mod /\ out' = out
  BY DEF put_publish
<1> HIDE DEF n
<1>4. (in + n) % Mod \in 0 .. Mod - 1 /\ (((in + n) % Mod) - out) % Mod = ((in - out) % Mod) + n
  BY ONLY <1>1, <1>2, PutMoves
<1> QED BY <1>3, <1>4 DEF FIFO_DATA_LEN, Mod, n

(* and that it keeps the invariant. *)
LEMMA PublishKeeps ==
  ASSUME IInv, NEW w \in Writers, put_publish(w) PROVE IInv'
<1> USE DEF IInv
<1>1. /\ UNCHANGED <<size, buffer, out, disable, readVars>> /\ lock' = Nobody
      /\ wpc' = [wpc EXCEPT ![w] = "idle"] /\ data' = [data EXCEPT ![w] = <<>>]
      /\ wpc[w] \in Copying /\ wpc[w] # "idle"
  BY DEF put_publish, Copying
<1>2. in' \in 0 .. Mod - 1 /\ FIFO_DATA_LEN' = FIFO_DATA_LEN + Len(data[w])
  BY PublishMoves
<1>3. sent' \in 0 .. Items - 1
  <2>1. Items \in Nat \ {0} /\ sent + Len(data[w]) \in Int
    BY SizesAssumption DEF TypeOK
  <2>2. sent' = (sent + Len(data[w])) % Items
    BY DEF put_publish
  <2> QED BY <2>1, <2>2
<1>4. TypeOK'
  BY <1>1, <1>2, <1>3 DEF TypeOK, Mod, readVars
<1>5. \A v \in Writers : wpc'[v] = "idle" /\ data'[v] = <<>>
  BY <1>1, OthersIdle DEF TypeOK, OneWriter
<1>6. OneWriter'
  BY <1>5 DEF OneWriter
<1>7. Bounded'
  <2>1. FIFO_DATA_LEN + Len(data[w]) <= size /\ (rpc \in Copying => len <= FIFO_DATA_LEN)
    BY <1>1 DEF Bounded
  <2>2. FIFO_DATA_LEN \in Nat /\ Len(data[w]) \in Nat /\ len \in Nat
    BY Geometry DEF Bounded, TypeOK
  <2>3. rpc \in Copying => len <= FIFO_DATA_LEN + Len(data[w])
    BY <2>1, <2>2
  <2> QED BY <1>1, <1>2, <1>5, <2>1, <2>3 DEF Bounded, readVars, Copying
<1>8. Written'
  BY <1>5 DEF Written
<1>9. Taken'
  BY <1>1 DEF Taken, IsFront, Place, Slot, FirstPart, fifo_min, Mod, readVars
<1> QED BY <1>4, <1>6, <1>7, <1>8, <1>9

-----------------------------------------------------------------------------
(* The reader *)

(* A step of the reader that changes only its own variables keeps the      *)
(* writers' part.                                                          *)
LEMMA ReaderAlone ==
  ASSUME IInv, UNCHANGED <<ringVars, putVars>>, rpc' \in {"idle", "look"} \cup Copying,
         len' \in Nat, copied' \in Seq(-1 .. Items - 1), asked' \in Nat, short' \in BOOLEAN,
         rpc' \in Copying => len' <= FIFO_DATA_LEN, Taken'
  PROVE  IInv'
<1> USE DEF IInv, ringVars, putVars
<1>1. TypeOK'
  BY DEF TypeOK, Mod
<1>2. OneWriter'
  BY DEF OneWriter
<1>3. Bounded'
  BY Rests DEF Bounded
<1>4. Written'
  BY WrittenKeeps
<1> QED BY <1>1, <1>2, <1>3, <1>4

(* The two looks at the data *)
LEMMA ReadLooksKeep == ASSUME IInv, fifo_read \/ read_look_again PROVE IInv'
<1>1. UNCHANGED <<copied, ringVars, putVars>> /\ rpc' \in {"copy", "look"}
  BY DEF fifo_read, read_look_again
<1>2. FIFO_DATA_LEN \in Nat
  BY Geometry DEF IInv, Bounded, TypeOK
<1>3. len' \in Nat /\ (rpc' \in Copying => len' <= FIFO_DATA_LEN)
  <2>1. CASE fifo_read
    BY <1>2, <2>1, SizesAssumption DEF fifo_read, Copying, IInv, TypeOK
  <2>2. CASE read_look_again
    BY <1>2, <2>2 DEF read_look_again
  <2> QED BY <2>1, <2>2
<1>4. Taken'
  BY <1>1 DEF Taken
<1>5. copied' \in Seq(-1 .. Items - 1) /\ rpc' \in {"idle", "look"} \cup Copying
  BY <1>1 DEF IInv, TypeOK, Copying
<1>6. asked' \in Nat /\ short' \in BOOLEAN
  <2>1. CASE fifo_read
    <3>1. asked' \in Nat
      BY <2>1, SizesAssumption DEF fifo_read
    <3>2. short' \in BOOLEAN
      BY <2>1, Zenon DEF fifo_read
    <3> QED BY <3>1, <3>2
  <2>2. CASE read_look_again
    BY <2>2 DEF read_look_again, IInv, TypeOK
  <2> QED BY <2>1, <2>2
<1> QED BY <1>1, <1>3, <1>4, <1>5, <1>6, ReaderAlone

(* What is known of the ring while the reader copies. *)
LEMMA ReadGeometry ==
  ASSUME IInv, rpc \in Copying
  PROVE  /\ size \in Nat \ {0} /\ Slot(out) \in 0 .. size - 1 /\ len \in 0 .. size
         /\ FirstPart(out, len) \in 0 .. len
         /\ Slot(out) + FirstPart(out, len) <= size
         /\ FirstPart(out, len) < len => Slot(out) + FirstPart(out, len) = size
         /\ \A k \in 1 .. len : Place(out, k - 1) = Wrap(size, Slot(out) + (k - 1))
         /\ buffer \in [0 .. size - 1 -> -1 .. Items - 1]
<1>1. /\ size \in Nat \ {0} /\ size \in Nat /\ len \in Nat
      /\ buffer \in [0 .. size - 1 -> -1 .. Items - 1]
  BY DEF IInv, TypeOK
<1>2. /\ FIFO_DATA_LEN \in 0 .. size /\ Slot(out) \in 0 .. size - 1
      /\ \A k \in 0 .. size : Place(out, k) = Wrap(size, Slot(out) + k)
  BY Geometry DEF IInv, Bounded
<1>3. len \in 0 .. size
  BY <1>1, <1>2 DEF IInv, Bounded
<1>4. /\ FirstPart(out, len) \in 0 .. len
      /\ Slot(out) + FirstPart(out, len) <= size
      /\ FirstPart(out, len) < len => Slot(out) + FirstPart(out, len) = size
  BY <1>1, <1>2, FirstPartIs
<1>5. ASSUME NEW k \in 1 .. len PROVE Place(out, k - 1) = Wrap(size, Slot(out) + (k - 1))
  <2>1. k - 1 \in 0 .. size
    BY <1>1, <1>3
  <2> QED BY <1>2, <2>1
<1> QED BY <1>1, <1>2, <1>3, <1>4, <1>5

(* What is loaded is a sequence of the slots. *)
LEMMA LoadedIs ==
  ASSUME NEW T, size \in Nat, buffer \in [0 .. size - 1 -> T],
         NEW k \in Nat, NEW n \in Nat, k + n <= size
  PROVE  /\ Loaded(k, n) \in Seq(T) /\ Len(Loaded(k, n)) = n
         /\ \A j \in 1 .. n : Loaded(k, n)[j] = buffer[k + j - 1]
<1>1. ASSUME NEW j \in 1 .. n PROVE buffer[k + j - 1] \in T
  <2>1. k + j - 1 \in 0 .. size - 1
    OBVIOUS
  <2> QED BY <2>1
<1>2. Loaded(k, n) \in [1 .. n -> T]
  BY <1>1 DEF Loaded
<1>3. \A j \in 1 .. n : Loaded(k, n)[j] = buffer[k + j - 1]
  BY DEF Loaded
<1> QED BY <1>2, <1>3, ArrayIsSeq

(* The first copy of a read keeps the invariant, *)
LEMMA ReadCopyKeeps == ASSUME IInv, read_copy PROVE IInv'
<1> DEFINE f == FirstPart(out, len)
<1>1. /\ UNCHANGED <<len, asked, short, ringVars, putVars>> /\ rpc' = "rest" /\ rpc \in Copying
      /\ copied' = Loaded(Slot(out), f)
  BY DEF read_copy, Copying
<1>2. /\ size \in Nat \ {0} /\ size \in Nat /\ Slot(out) \in 0 .. size - 1 /\ len \in 0 .. size
      /\ f \in 0 .. len /\ Slot(out) + f <= size /\ Slot(out) \in Nat /\ f \in Nat
      /\ \A k \in 1 .. len : Place(out, k - 1) = Wrap(size, Slot(out) + (k - 1))
      /\ buffer \in [0 .. size - 1 -> -1 .. Items - 1]
  <2> HIDE DEF f
  <2>1. /\ size \in Nat \ {0} /\ Slot(out) \in 0 .. size - 1 /\ len \in 0 .. size
        /\ f \in 0 .. len /\ Slot(out) + f <= size
        /\ \A k \in 1 .. len : Place(out, k - 1) = Wrap(size, Slot(out) + (k - 1))
        /\ buffer \in [0 .. size - 1 -> -1 .. Items - 1]
    BY <1>1, ReadGeometry DEF f
  <2> QED BY <2>1
<1>3. f' = f
  BY <1>1 DEF ringVars, FirstPart, fifo_min, Slot
<1> HIDE DEF f
<1>4. /\ Loaded(Slot(out), f) \in Seq(-1 .. Items - 1) /\ Len(Loaded(Slot(out), f)) = f
      /\ \A j \in 1 .. f : Loaded(Slot(out), f)[j] = buffer[Slot(out) + j - 1]
  BY <1>2, LoadedIs
<1>5. ASSUME NEW k \in 1 .. f PROVE copied'[k] = buffer'[Place(out, k - 1)']
  <2>1. Place(out, k - 1) = Slot(out) + k - 1
    BY <1>2 DEF Wrap
  <2>2. Place(out, k - 1)' = Place(out, k - 1) /\ buffer' = buffer
    BY <1>1, Rests DEF ringVars
  <2> QED BY <1>1, <1>4, <2>1, <2>2
<1>6. Taken'
  <2>1. rpc' = "rest" /\ Len(copied') = f' /\ \A k \in 1 .. f' : copied'[k] = buffer'[Place(out, k - 1)']
    BY <1>1, <1>3, <1>4, <1>5
  <2> QED BY <2>1 DEF Taken, IsFront, f
<1>7. /\ rpc' \in {"idle", "look"} \cup Copying /\ len' \in Nat
      /\ copied' \in Seq(-1 .. Items - 1) /\ (rpc' \in Copying => len' <= FIFO_DATA_LEN)
      /\ asked' \in Nat /\ short' \in BOOLEAN
  BY <1>1, <1>4 DEF IInv, TypeOK, Bounded, Copying
<1> QED BY <1>1, <1>6, <1>7, ReaderAlone

(* after the second the reader has all of the front, *)
LEMMA ReadRestTakes ==
  ASSUME IInv, read_copy_rest
  PROVE  /\ copied' \in Seq(-1 .. Items - 1) /\ Len(copied') = len
         /\ \A k \in 1 .. len : copied'[k] = buffer[Place(out, k - 1)]
<1> DEFINE f == FirstPart(out, len)
           more == Loaded(0, len - f)
<1>1. copied' = copied \o more /\ rpc = "rest" /\ rpc \in Copying
  BY DEF read_copy_rest, Copying
<1>2. /\ size \in Nat /\ Slot(out) \in 0 .. size - 1 /\ len \in 0 .. size
      /\ f \in 0 .. len /\ Slot(out) + f <= size /\ (f < len => Slot(out) + f = size)
      /\ \A k \in 1 .. len : Place(out, k - 1) = Wrap(size, Slot(out) + (k - 1))
      /\ buffer \in [0 .. size - 1 -> -1 .. Items - 1]
  <2> HIDE DEF f
  <2>1. /\ size \in Nat \ {0} /\ Slot(out) \in 0 .. size - 1 /\ len \in 0 .. size
        /\ f \in 0 .. len /\ Slot(out) + f <= size /\ (f < len => Slot(out) + f = size)
        /\ \A k \in 1 .. len : Place(out, k - 1) = Wrap(size, Slot(out) + (k - 1))
        /\ buffer \in [0 .. size - 1 -> -1 .. Items - 1]
    BY <1>1, ReadGeometry DEF f
  <2> QED BY <2>1
<1>3. /\ copied \in Seq(-1 .. Items - 1) /\ Len(copied) = f
      /\ \A k \in 1 .. f : copied[k] = buffer[Place(out, k - 1)]
  BY <1>1 DEF IInv, TypeOK, Taken, IsFront
<1> HIDE DEF f
<1>4. /\ more \in Seq(-1 .. Items - 1) /\ Len(more) = len - f
      /\ \A j \in 1 .. len - f : more[j] = buffer[0 + j - 1]
  <2>1. 0 \in Nat /\ len - f \in Nat /\ 0 + (len - f) <= size
    BY <1>2
  <2> QED BY <1>2, <2>1, LoadedIs
<1> HIDE DEF more
<1>5. /\ copied \o more \in Seq(-1 .. Items - 1) /\ Len(copied \o more) = Len(copied) + Len(more)
      /\ \A i \in 1 .. Len(copied) + Len(more) :
           (copied \o more)[i] = IF i <= Len(copied) THEN copied[i] ELSE more[i - Len(copied)]
  <2>1. copied \in Seq(-1 .. Items - 1) /\ more \in Seq(-1 .. Items - 1)
    BY <1>3, <1>4
  <2> QED BY ONLY <2>1, ConcatProperties, Zenon
<1>6. len \in Int /\ f \in Int /\ Len(copied) = f /\ Len(copied) + Len(more) = len
  <2>1. len \in Int /\ f \in Int
    BY <1>2
  <2> QED BY <1>3, <1>4, <2>1
<1>7. ASSUME NEW k \in 1 .. len PROVE (copied \o more)[k] = buffer[Place(out, k - 1)]
  <2>0. (copied \o more)[k] = IF k <= f THEN copied[k] ELSE more[k - f]
    BY <1>5, <1>6
  <2>1. CASE k <= f
    <3>1. k \in 1 .. f
      BY <1>6, <2>1
    <3> QED BY <1>3, <2>0, <2>1, <3>1
  <2>2. CASE k > f
    <3>1. k - f \in 1 .. len - f /\ 0 + (k - f) - 1 = k - f - 1 /\ ~(k <= f) /\ f < len
      BY <1>6, <2>2
    <3>2. (copied \o more)[k] = buffer[k - f - 1]
      BY <1>4, <2>0, <3>1
    <3>3. Slot(out) + (k - 1) = size + (k - f - 1) /\ k - f - 1 \in Nat
      <4>1. Slot(out) + f = size /\ Slot(out) \in Int
        BY <1>2, <3>1
      <4> QED BY ONLY <1>6, <2>2, <4>1, k \in 1 .. len
    <3>4. Place(out, k - 1) = k - f - 1
      BY <1>2, <3>3 DEF Wrap
    <3> QED BY <3>2, <3>4
  <2> QED BY <1>6, <2>1, <2>2
<1> QED BY <1>1, <1>5, <1>6, <1>7

(* and the invariant holds. *)
LEMMA ReadRestKeeps == ASSUME IInv, read_copy_rest PROVE IInv'
<1>1. UNCHANGED <<len, asked, short, ringVars, putVars>> /\ rpc' = "publish" /\ rpc \in Copying
  BY DEF read_copy_rest, Copying
<1>2. /\ copied' \in Seq(-1 .. Items - 1) /\ Len(copied') = len
      /\ \A k \in 1 .. len : copied'[k] = buffer[Place(out, k - 1)]
  BY ReadRestTakes
<1>3. Taken'
  BY <1>1, <1>2, Rests DEF Taken, IsFront, ringVars
<1>4. /\ rpc' \in {"idle", "look"} \cup Copying /\ len' \in Nat
      /\ asked' \in Nat /\ short' \in BOOLEAN
      /\ (rpc' \in Copying => len' <= FIFO_DATA_LEN)
  BY <1>1 DEF IInv, TypeOK, Bounded, Copying
<1> QED BY <1>1, <1>2, <1>3, <1>4, ReaderAlone

(* A reader that moves its counter by n, no more than there is, *)
LEMMA OutMoves ==
  ASSUME IInv, NEW n \in Nat, n <= FIFO_DATA_LEN, out' = (out + n) % Mod, UNCHANGED <<size, in>>
  PROVE  out' \in 0 .. Mod - 1 /\ FIFO_DATA_LEN' = FIFO_DATA_LEN - n
<1>1. /\ Mod \in Nat \ {0} /\ in \in 0 .. Mod - 1 /\ out \in 0 .. Mod - 1
  BY ModTyped DEF IInv, TypeOK
<1>2. n <= (in - out) % Mod
  BY DEF FIFO_DATA_LEN
<1>3. (out + n) % Mod \in 0 .. Mod - 1 /\ (in - ((out + n) % Mod)) % Mod = ((in - out) % Mod) - n
  BY ONLY <1>1, <1>2, n \in Nat, ReadMoves
<1> QED BY <1>3 DEF FIFO_DATA_LEN, Mod

(* keeps the invariant when it is idle again. *)
LEMMA OutMovesKeeps ==
  ASSUME IInv, NEW n \in Nat, n <= FIFO_DATA_LEN, out' = (out + n) % Mod,
         UNCHANGED <<size, buffer, in, disable, putVars>>,
         rpc' = "idle", len' \in Nat, copied' \in Seq(-1 .. Items - 1),
         asked' \in Nat, short' \in BOOLEAN
  PROVE  IInv'
<1> USE DEF IInv
<1>1. out' \in 0 .. Mod - 1 /\ FIFO_DATA_LEN' = FIFO_DATA_LEN - n
  BY OutMoves
<1>2. FIFO_DATA_LEN \in 0 .. size /\ size \in Nat
  BY Geometry DEF Bounded, TypeOK
<1>3. TypeOK'
  BY <1>1 DEF TypeOK, Mod, putVars
<1>4. OneWriter'
  BY DEF OneWriter, putVars
<1>5. Bounded'
  <2>1. FIFO_DATA_LEN' <= size' /\ FIFO_DATA_LEN' <= FIFO_DATA_LEN
    BY <1>1, <1>2
  <2>2. ASSUME NEW v \in Writers, wpc'[v] \in Copying PROVE FIFO_DATA_LEN' + Len(data'[v]) <= size'
    <3>1. FIFO_DATA_LEN + Len(data[v]) <= size /\ Len(data[v]) \in Nat /\ data' = data
      BY <2>2 DEF Bounded, putVars, TypeOK
    <3> QED BY <1>1, <1>2, <3>1
  <2> QED BY <2>1, <2>2 DEF Bounded, Copying
<1>6. Written'
  BY DEF Written, Place, Slot, FirstPart, fifo_min, Mod, putVars
<1>7. Taken'
  BY DEF Taken
<1> QED BY <1>3, <1>4, <1>5, <1>6, <1>7

(* The end of a read and fifo_set_offset are such moves. *)
LEMMA SkipKeeps == ASSUME IInv, read_publish \/ fifo_set_offset PROVE IInv'
<1>1. CASE read_publish
  <2>1. len \in Nat /\ len <= FIFO_DATA_LEN
    BY <1>1 DEF IInv, TypeOK, Bounded, read_publish, Copying
  <2>2. /\ copied' \in Seq(-1 .. Items - 1) /\ rpc' = "idle" /\ len' \in Nat
        /\ asked' \in Nat /\ short' \in BOOLEAN
    <3>1. short' \in BOOLEAN
      BY <1>1, Zenon DEF read_publish
    <3> QED BY <1>1, <3>1 DEF read_publish
  <2>3. out' = (out + len) % Mod /\ UNCHANGED <<size, buffer, in, disable, putVars>>
    BY <1>1 DEF read_publish
  <2> QED BY <2>1, <2>2, <2>3, OutMovesKeeps
<1>2. CASE fifo_set_offset
  <2>1. FIFO_DATA_LEN \in Nat
    BY Geometry DEF IInv, Bounded, TypeOK
  <2>2. PICK n \in 0 .. FIFO_DATA_LEN : out' = (out + n) % Mod
    BY <1>2 DEF fifo_set_offset
  <2>3. /\ copied' \in Seq(-1 .. Items - 1) /\ rpc' = "idle" /\ len' \in Nat
        /\ asked' \in Nat /\ short' \in BOOLEAN
    BY <1>2 DEF fifo_set_offset, readVars, IInv, TypeOK
  <2>4. UNCHANGED <<size, buffer, in, disable, putVars>> /\ n \in Nat /\ n <= FIFO_DATA_LEN
    BY <1>2, <2>1 DEF fifo_set_offset
  <2> QED BY <2>2, <2>3, <2>4, OutMovesKeeps
<1> QED BY <1>1, <1>2

(* fifo_clean keeps the invariant, for it takes everybody idle. *)
LEMMA CleanKeeps == ASSUME IInv, fifo_clean PROVE IInv'
<1> USE DEF IInv
<1>1. /\ UNCHANGED <<size, buffer, disable, putVars, readVars>> /\ in' = 0 /\ out' = 0
      /\ rpc = "idle" /\ \A w \in Writers : wpc[w] = "idle"
  BY DEF fifo_clean
<1>2. TypeOK'
  BY <1>1, ModTyped DEF TypeOK, Mod, putVars, readVars
<1>3. OneWriter'
  BY <1>1 DEF OneWriter, putVars
<1>4. FIFO_DATA_LEN' = 0
  BY <1>1, ModTyped DEF FIFO_DATA_LEN, Mod
<1>5. Bounded' /\ Written' /\ Taken'
  BY <1>1, <1>4 DEF Bounded, Written, Taken, TypeOK, Copying, putVars, readVars
<1> QED BY <1>2, <1>3, <1>5

-----------------------------------------------------------------------------
(* The safety theorems *)

(* Every step keeps the invariant. *)
LEMMA NextIInv == IInv /\ [Next]_vars => IInv'
<1> SUFFICES ASSUME IInv, [Next]_vars PROVE IInv'
  OBVIOUS
<1>1. ASSUME NEW w \in Writers, Put(w) PROVE IInv'
  BY <1>1, SafePutKeeps, LooksKeep, CopiesKeep, PublishKeeps DEF Put
<1>2. CASE Read
  BY <1>2, ReadLooksKeep, ReadCopyKeeps, ReadRestKeeps, SkipKeeps DEF Read
<1>3. CASE fifo_enable \/ fifo_disable
  BY <1>3, SwitchKeeps
<1>4. CASE fifo_clean
  BY <1>4, CleanKeeps
<1>5. CASE UNCHANGED vars
  <2>1. UNCHANGED <<size, buffer, in, out, disable, putVars, readVars>>
    BY <1>5 DEF vars, ringVars
  <2>2. TypeOK' /\ OneWriter' /\ Bounded'
    BY <2>1, Rests DEF IInv, TypeOK, OneWriter, Bounded, Mod, putVars, readVars
  <2> QED BY <2>1, <2>2, WrittenKeeps, TakenKeeps DEF IInv, putVars
<1> QED BY <1>1, <1>2, <1>3, <1>4, <1>5 DEF Next

(* The inductive invariant of the ring: one writer at a time, the data and *)
(* what is being put fit the ring, and the slots hold what the copies of   *)
(* the writer and of the reader say.                                       *)
THEOREM RingInvariant == Spec => []IInv
BY InitIInv, NextIInv, PTL DEF Spec

(* What a read hands out is what it was asked for, or it found no more     *)
(* than that at first; between reads nothing is asked for.                 *)
AskedFor ==
  /\ rpc = "idle" <=> asked = 0
  /\ rpc = "look" => short
  /\ rpc \in Copying => len = asked \/ short

(* The reader remembers what it was asked for through its steps. *)
LEMMA AskedForCorrect == Spec => []AskedFor
<1>1. Init => AskedFor
  BY DEF Init, AskedFor, Copying
<1>2. ASSUME IInv, AskedFor, [Next]_vars PROVE AskedFor'
  <2>1. CASE fifo_read
    BY <2>1, SizesAssumption DEF fifo_read, AskedFor, Copying
  <2>2. CASE read_look_again \/ read_copy \/ read_copy_rest
    BY <1>2, <2>2 DEF read_look_again, read_copy, read_copy_rest, AskedFor, Copying
  <2>3. CASE read_publish
    BY <2>3 DEF read_publish, AskedFor, Copying
  <2>4. CASE UNCHANGED readVars
    BY <1>2, <2>4 DEF readVars, AskedFor
  <2>5. ASSUME NEW w \in Writers, Put(w) PROVE UNCHANGED readVars
    BY <2>5 DEF Put, fifo_safe_put, fifo_put, put_look_again, put_copy, put_copy_rest, put_publish,
           put_refused, PutGoto
  <2>6. fifo_set_offset \/ fifo_enable \/ fifo_disable \/ fifo_clean \/ UNCHANGED vars => UNCHANGED readVars
    BY DEF fifo_set_offset, fifo_enable, fifo_disable, fifo_clean, vars
  <2> QED BY <1>2, <2>1, <2>2, <2>3, <2>4, <2>5, <2>6 DEF Next, Read
<1> QED BY <1>1, <1>2, RingInvariant, PTL DEF Spec

(* The ring's variables keep their types: the counters stay below their    *)
(* modulus and the size a divisor of it, for any width and any sizes.      *)
THEOREM RingTyped == Spec => []TypeOK
<1>1. IInv => TypeOK
  BY DEF IInv
<1> QED BY <1>1, RingInvariant, PTL

(* A put and a read that copy at the same time never touch the same slot,  *)
(* nor do two puts, although no lock is shared between the two sides.      *)
THEOREM CopiesDisjoint == Spec => []SlotsDisjoint
<1>1. ASSUME IInv PROVE SlotsDisjoint
  <2> SUFFICES ASSUME NEW w \in Writers, wpc[w] \in Copying
               PROVE  /\ rpc \in Copying => Slots(in, Len(data[w])) \cap Slots(out, len) = {}
                      /\ \A v \in Writers \ {w} : wpc[v] \notin Copying
    BY DEF SlotsDisjoint
  <2>1. \A v \in Writers \ {w} : wpc[v] \notin Copying
    BY <1>1, OthersIdle DEF IInv, Copying
  <2>2. ASSUME rpc \in Copying, NEW j \in Slots(in, Len(data[w])), j \in Slots(out, len) PROVE FALSE
    <3>1. PICK b \in 0 .. Len(data[w]) - 1 : j = Place(in, b)
      BY DEF Slots, Place
    <3>2. PICK k \in 0 .. len - 1 : j = Place(out, k)
      BY <2>2 DEF Slots, Place
    <3>3. len \in Nat /\ FIFO_DATA_LEN \in Nat /\ len <= FIFO_DATA_LEN
      BY <1>1, <2>2, Geometry DEF IInv, TypeOK, Bounded
    <3>4. k \in 0 .. FIFO_DATA_LEN - 1
      BY <3>3
    <3>5. Place(out, k) # Place(in, b)
      BY <1>1, <3>4, PutGeometry
    <3> QED BY <3>1, <3>2, <3>5
  <2> QED BY <2>1, <2>2
<1> QED BY <1>1, RingInvariant, PTL

-----------------------------------------------------------------------------
(* The ring as a queue *)

(* The unread data is what the slots from the reader's counter on hold. *)
HasQueue ==
  /\ Contents \in Seq(-1 .. Items - 1)
  /\ Len(Contents) = FIFO_DATA_LEN /\ FIFO_DATA_LEN \in 0 .. size /\ size \in Nat \ {0}
  /\ \A k \in 1 .. FIFO_DATA_LEN : Contents[k] = buffer[Place(out, k - 1)]

(* The inductive invariant gives the queue this form. *)
LEMMA QueueIs == IInv => HasQueue
<1> SUFFICES ASSUME IInv PROVE HasQueue
  OBVIOUS
<1> DEFINE d == FIFO_DATA_LEN
<1>1. /\ size \in Nat \ {0} /\ buffer \in [0 .. size - 1 -> -1 .. Items - 1]
      /\ out \in Int
  BY DEF IInv, TypeOK
<1>2. /\ d \in 0 .. size /\ Slot(out) \in 0 .. size - 1
      /\ \A k \in 0 .. size : Place(out, k) = Wrap(size, Slot(out) + k)
  BY Geometry DEF IInv, Bounded
<1>3. Contents = [k \in 1 .. d |-> buffer[Slot((out + k - 1) % Mod)]]
  BY DEF Contents
<1> HIDE DEF d
<1>4. ASSUME NEW k \in 1 .. d
      PROVE  /\ Slot((out + k - 1) % Mod) = Place(out, k - 1)
             /\ Place(out, k - 1) \in 0 .. size - 1
  <2>1. out + k - 1 = out + (k - 1) /\ k - 1 \in 0 .. size /\ k - 1 < size
    BY <1>1, <1>2
  <2>2. Wrap(size, Slot(out) + (k - 1)) \in 0 .. size - 1
    <3>1. size \in Nat /\ Slot(out) \in 0 .. size - 1
      BY <1>1, <1>2
    <3> QED BY ONLY <2>1, <3>1 DEF Wrap
  <2> QED BY <1>2, <2>1, <2>2 DEF Place
<1>5. Contents \in [1 .. d -> -1 .. Items - 1]
  BY <1>1, <1>3, <1>4
<1>6. \A k \in 1 .. d : Contents[k] = buffer[Place(out, k - 1)]
  BY <1>3, <1>4
<1>7. d \in Nat
  BY <1>1, <1>2
<1>8. Contents \in Seq(-1 .. Items - 1) /\ Len(Contents) = d
  BY <1>5, <1>7, ArrayIsSeq
<1> QED BY <1>1, <1>2, <1>6, <1>8 DEF HasQueue, d

(* The same of the next state. *)
LEMMA QueueIsNext == IInv' => HasQueue'
BY QueueIs, PTL

(* Steps that leave the slots of the data alone leave the queue alone. *)
LEMMA QueueKeeps ==
  ASSUME IInv, IInv', UNCHANGED <<size, in, out>>,
         \A k \in 0 .. FIFO_DATA_LEN - 1 : buffer'[Place(out, k)] = buffer[Place(out, k)]
  PROVE  Contents' = Contents
<1>1. HasQueue /\ HasQueue'
  BY QueueIs, QueueIsNext
<1>2. FIFO_DATA_LEN' = FIFO_DATA_LEN /\ \A k : Place(out, k)' = Place(out, k)
  BY Rests
<1>3. /\ Contents \in Seq(-1 .. Items - 1) /\ Contents' \in Seq(-1 .. Items - 1)
      /\ Len(Contents) = FIFO_DATA_LEN /\ Len(Contents') = FIFO_DATA_LEN
      /\ FIFO_DATA_LEN \in Nat
  BY <1>1, <1>2 DEF HasQueue
<1>4. ASSUME NEW k \in 1 .. FIFO_DATA_LEN PROVE Contents'[k] = Contents[k]
  <2>1. k - 1 \in 0 .. FIFO_DATA_LEN - 1
    BY <1>3
  <2>2. Contents[k] = buffer[Place(out, k - 1)]
    BY <1>1 DEF HasQueue
  <2>3. Contents'[k] = buffer'[Place(out, k - 1)]
    BY <1>1, <1>2 DEF HasQueue
  <2> QED BY <2>1, <2>2, <2>3
<1> QED BY <1>3, <1>4, SeqEqual

(* Moving the reader's counter by n takes n items off the front. *)
LEMMA QueueDrops ==
  ASSUME IInv, IInv', NEW n \in Nat, n <= FIFO_DATA_LEN, out' = (out + n) % Mod,
         UNCHANGED <<size, buffer, in>>
  PROVE  Contents' = SubSeq(Contents, n + 1, Len(Contents))
<1> DEFINE d == FIFO_DATA_LEN
           T == -1 .. Items - 1
<1>1. /\ Contents \in Seq(T) /\ Len(Contents) = d /\ d \in 0 .. size /\ size \in Nat \ {0}
      /\ \A k \in 1 .. d : Contents[k] = buffer[Place(out, k - 1)]
  BY QueueIs DEF HasQueue
<1>2. FIFO_DATA_LEN' = d - n
  BY OutMoves
<1>3. /\ Contents' \in Seq(T) /\ Len(Contents') = d - n
      /\ \A k \in 1 .. d - n : Contents'[k] = buffer'[Place(out, k - 1)']
  BY <1>2, QueueIsNext DEF HasQueue
<1> HIDE DEF T
<1>4. /\ Slot(out) \in 0 .. size - 1 /\ Slot(out)' \in 0 .. size - 1
      /\ \A k \in 0 .. size : Place(out, k) = Wrap(size, Slot(out) + k)
      /\ \A k \in 0 .. size : Place(out, k)' = Wrap(size, Slot(out)' + k)
  BY Geometry, GeometryNext DEF IInv, Bounded
<1>5. Slot(out)' = Place(out, n)
  BY DEF Slot, Place
<1> HIDE DEF d
<1>6. n <= d
  BY DEF d
<1>7. ASSUME NEW k \in 1 .. d - n PROVE Contents'[k] = Contents[n + k]
  <2>1. /\ n \in 0 .. size /\ k - 1 \in 0 .. size /\ n + k \in 1 .. d
        /\ n + k - 1 \in 0 .. size
    BY <1>1, <1>6
  <2>2. Slot(out)' = Wrap(size, Slot(out) + n)
    BY <1>4, <1>5, <2>1
  <2>3. Place(out, k - 1)' = Wrap(size, Wrap(size, Slot(out) + n) + (k - 1))
    BY <1>4, <2>1, <2>2
  <2>4. Place(out, n + k - 1) = Wrap(size, Slot(out) + (n + k - 1))
    BY <1>4, <2>1
  <2>5. Wrap(size, Wrap(size, Slot(out) + n) + (k - 1)) = Wrap(size, Slot(out) + (n + k - 1))
    <3>1. size \in Nat /\ Slot(out) \in 0 .. size - 1 /\ n + k - 1 <= size
      BY <1>1, <1>4, <2>1
    <3> QED BY ONLY <2>1, <3>1, n \in Nat DEF Wrap
  <2>6. Contents[n + k] = buffer[Place(out, n + k - 1)]
    BY <1>1, <2>1
  <2> QED BY <1>3, <2>3, <2>4, <2>5, <2>6
<1> DEFINE q == SubSeq(Contents, n + 1, d)
<1>8. /\ q \in Seq(T) /\ Len(q) = (IF n + 1 <= d THEN d - (n + 1) + 1 ELSE 0)
      /\ \A i \in 1 .. d - (n + 1) + 1 : q[i] = Contents[n + 1 + i - 1]
  <2>1. n + 1 \in Int /\ d \in Int
    BY <1>1
  <2>2. ASSUME NEW i \in n + 1 .. d PROVE Contents[i] \in T
    <3>1. i \in 1 .. Len(Contents)
      BY <1>1
    <3> QED BY <1>1, <3>1, ElementOfSeq
  <2> QED BY <2>1, <2>2, SubSeqProperties
<1>9. d - (n + 1) + 1 = d - n /\ Len(q) = d - n /\ \A k \in 1 .. d - n : n + 1 + k - 1 = n + k
  BY <1>1, <1>6, <1>8
<1> HIDE DEF q
<1>10. ASSUME NEW k \in 1 .. d - n PROVE q[k] = Contents'[k]
  BY <1>7, <1>8, <1>9
<1>11. Contents' = q
  BY <1>3, <1>8, <1>9, <1>10, SeqEqual
<1> QED BY <1>1, <1>11 DEF q

(* put_publish appends the writer's data. *)
LEMMA QueueGrows ==
  ASSUME IInv, IInv', NEW w \in Writers, put_publish(w)
  PROVE  Contents' = Contents \o data[w] /\ Len(Contents) + Len(data[w]) <= size
<1> DEFINE d == FIFO_DATA_LEN
           n == Len(data[w])
           T == -1 .. Items - 1
           q == Contents \o data[w]
<1>1. /\ Contents \in Seq(T) /\ Len(Contents) = d /\ d \in 0 .. size /\ size \in Nat \ {0}
      /\ \A k \in 1 .. d : Contents[k] = buffer[Place(out, k - 1)]
  BY QueueIs DEF HasQueue
<1>2. FIFO_DATA_LEN' = d + n
  BY PublishMoves
<1>3. /\ Contents' \in Seq(T) /\ Len(Contents') = d + n
      /\ \A k \in 1 .. d + n : Contents'[k] = buffer'[Place(out, k - 1)']
  BY <1>2, QueueIsNext DEF HasQueue
<1>4. UNCHANGED <<size, buffer, out>> /\ wpc[w] = "publish"
  BY DEF put_publish
<1>5. \A k : Place(out, k)' = Place(out, k)
  BY <1>4 DEF Place, Slot, Mod
<1>6. n \in Nat /\ d + n <= size /\ \A k \in 1 .. n : buffer[Place(in, k - 1)] = data[w][k]
  <2>1. data[w] \in Seq(0 .. Items - 1)
    BY DEF IInv, TypeOK
  <2>2. d + n <= size
    BY <1>4 DEF IInv, Bounded, Copying
  <2>3. \A k \in 1 .. n : buffer[Place(in, k - 1)] = data[w][k]
    BY <1>4 DEF IInv, Written
  <2> QED BY <2>1, <2>2, <2>3, LenProperties
<1>7. data[w] \in Seq(T)
  <2>1. data[w] \in Seq(0 .. Items - 1)
    BY DEF IInv, TypeOK
  <2>2. 0 .. Items - 1 \subseteq T
    BY SizesAssumption
  <2> HIDE DEF T
  <2> QED BY <2>1, <2>2, SeqMonotonic
<1>8. /\ Slot(out) \in 0 .. size - 1 /\ Slot(in) = Wrap(size, Slot(out) + d)
      /\ \A k \in 0 .. size : /\ Place(in, k) = Wrap(size, Slot(in) + k)
                              /\ Place(out, k) = Wrap(size, Slot(out) + k)
  BY Geometry DEF IInv, Bounded
<1> HIDE DEF T, d
<1>9. /\ q \in Seq(T) /\ Len(q) = d + n
      /\ \A i \in 1 .. d + n : q[i] = IF i <= d THEN Contents[i] ELSE data[w][i - d]
  <2>1. /\ q \in Seq(T) /\ Len(q) = Len(Contents) + n
        /\ \A i \in 1 .. Len(Contents) + n :
             q[i] = IF i <= Len(Contents) THEN Contents[i] ELSE data[w][i - Len(Contents)]
    BY ONLY <1>1, <1>7, ConcatProperties, Zenon
  <2> HIDE DEF q, n
  <2> QED BY <1>1, <2>1
<1> HIDE DEF n, q
<1>10. ASSUME NEW k \in 1 .. d + n PROVE Contents'[k] = q[k]
  <2>0. Contents'[k] = buffer[Place(out, k - 1)] /\ d \in Int /\ n \in Int
    BY <1>1, <1>3, <1>4, <1>5, <1>6
  <2>1. CASE k <= d
    <3>1. k \in 1 .. d
      BY <2>0, <2>1
    <3> QED BY <1>1, <1>9, <2>0, <2>1, <3>1
  <2>2. CASE k > d
    <3>1. k - d \in 1 .. n /\ k - 1 \in 0 .. size /\ (k - d) - 1 \in 0 .. size /\ ~(k <= d)
      BY <1>1, <1>6, <2>2
    <3>2. Place(in, (k - d) - 1) = Wrap(size, Wrap(size, Slot(out) + d) + ((k - d) - 1))
      BY <1>8, <3>1
    <3>3. Place(out, k - 1) = Wrap(size, Slot(out) + (k - 1))
      BY <1>8, <3>1
    <3>4. Wrap(size, Wrap(size, Slot(out) + d) + ((k - d) - 1)) = Wrap(size, Slot(out) + (k - 1))
      <4>1. size \in Nat /\ Slot(out) \in 0 .. size - 1 /\ d \in 0 .. size /\ d + n <= size
        BY <1>1, <1>6, <1>8
      <4> QED BY ONLY <2>0, <2>2, <3>1, <4>1, k \in 1 .. d + n DEF Wrap
    <3>5. buffer[Place(in, (k - d) - 1)] = data[w][k - d]
      BY <1>6, <3>1
    <3> QED BY <1>9, <2>0, <3>1, <3>2, <3>3, <3>4, <3>5
  <2> QED BY <2>0, <2>1, <2>2
<1>11. Contents' = q
  BY <1>3, <1>9, <1>10, SeqEqual
<1> QED BY <1>1, <1>6, <1>11 DEF q, n

-----------------------------------------------------------------------------
(* The refinement *)

(* What a read hands out. *)
Delivered == IF rpc = "publish" THEN copied ELSE <<>>

(* A step that is none of the queue's. *)
QueueRests == UNCHANGED <<Contents, size, data, Delivered, asked, short>>

(* The ring starts as an empty queue. *)
LEMMA InitQueue == Init => Abstract!Init
<1> SUFFICES ASSUME Init PROVE Abstract!Init
  OBVIOUS
<1>1. HasQueue /\ FIFO_DATA_LEN = 0
  BY InitIInv, QueueIs, ModTyped DEF Init, FIFO_DATA_LEN
<1>2. Contents = <<>> /\ size \in Nat \ {0}
  BY <1>1, EmptySeq DEF HasQueue
<1> QED BY <1>2 DEF Init, Abstract!Init

(* The steps of a put are an offer, its acceptance or its refusal, or      *)
(* nothing to the queue.                                                   *)
LEMMA PutRefines ==
  ASSUME IInv, IInv', NEW w \in Writers, Put(w)
  PROVE  Abstract!Offer(w) \/ Abstract!Accept(w) \/ Abstract!Refuse(w) \/ QueueRests
<1>1. UNCHANGED <<size, readVars, asked, short>> /\ Delivered' = Delivered
  <2>1. UNCHANGED <<size, readVars>>
    BY DEF Put, fifo_safe_put, fifo_put, put_look_again, put_copy, put_copy_rest, put_publish,
           put_refused, PutGoto, ringVars
  <2> QED BY <2>1 DEF Delivered, readVars
<1>2. ASSUME UNCHANGED <<size, buffer, in, out>> PROVE Contents' = Contents
  BY <1>2, QueueKeeps
<1>3. wpc[w] # "idle" => data[w] # <<>>
  BY DEF IInv, OneWriter
<1>4. CASE fifo_safe_put(w)
  <2>1. Contents' = Contents
    BY <1>2, <1>4 DEF fifo_safe_put, ringVars
  <2>2. data[w] = <<>> /\ wpc'[w] # "idle"
    BY <1>4 DEF fifo_safe_put, IInv, OneWriter, TypeOK
  <2>3. data'[w] \in Seq(0 .. Items - 1) /\ data'[w] # <<>>
    BY <2>2 DEF IInv, OneWriter, TypeOK
  <2>4. PICK e : data' = [data EXCEPT ![w] = e]
    BY <1>4 DEF fifo_safe_put
  <2>5. data' = [data EXCEPT ![w] = data'[w]]
    BY <2>4 DEF IInv, TypeOK
  <2>6. Abstract!Offer(w)
    BY <1>1, <2>1, <2>2, <2>3, <2>5 DEF Abstract!Offer, Delivered
  <2> QED BY <2>6
<1>5. CASE wpc[w] # "idle" /\ put_refused(w)
  <2>1. Contents' = Contents /\ data' = [data EXCEPT ![w] = <<>>]
    BY <1>2, <1>5 DEF put_refused, ringVars
  <2>2. Abstract!Refuse(w)
    BY <1>1, <1>3, <1>5, <2>1 DEF Abstract!Refuse, Delivered
  <2> QED BY <2>2
<1>6. CASE (fifo_put(w) \/ put_look_again(w)) /\ ~put_refused(w)
  <2>1. UNCHANGED <<size, buffer, in, out, data>>
    BY <1>6 DEF fifo_put, put_look_again, PutGoto, ringVars
  <2> QED BY <1>1, <1>2, <2>1 DEF QueueRests
<1>7. CASE put_copy(w) \/ put_copy_rest(w)
  <2>1. UNCHANGED <<size, in, out, data>>
    BY <1>7 DEF put_copy, put_copy_rest, PutGoto
  <2>2. \A k \in 0 .. FIFO_DATA_LEN - 1 : buffer'[Place(out, k)] = buffer[Place(out, k)]
    BY <1>7, CopyStores, RestStores
  <2>3. Contents' = Contents
    BY <2>1, <2>2, QueueKeeps
  <2> QED BY <1>1, <2>1, <2>3 DEF QueueRests
<1>8. CASE put_publish(w)
  <2>1. Contents' = Contents \o data[w] /\ Len(Contents) + Len(data[w]) <= size
    BY <1>8, QueueGrows
  <2>2. data[w] # <<>> /\ data' = [data EXCEPT ![w] = <<>>]
    BY <1>3, <1>8 DEF put_publish
  <2>3. Abstract!Accept(w)
    BY <1>1, <2>1, <2>2 DEF Abstract!Accept, Delivered
  <2> QED BY <2>3
<1>9. fifo_put(w) \/ put_look_again(w) => wpc[w] # "idle"
  BY DEF fifo_put, put_look_again
<1> QED BY <1>4, <1>5, <1>6, <1>7, <1>8, <1>9 DEF Put

(* The steps of the reader ask, deliver the front, take it off or skip, or *)
(* are nothing to the queue.                                               *)
LEMMA ReadRefines ==
  ASSUME IInv, IInv', AskedFor, Read
  PROVE  Abstract!Ask \/ Abstract!Deliver \/ Abstract!Take \/ Abstract!Skip \/ QueueRests
<1>1. UNCHANGED <<size, buffer, in, putVars>> /\ data' = data
  <2>1. UNCHANGED <<size, buffer, in, putVars>>
    BY DEF Read, fifo_read, read_look_again, read_copy, read_copy_rest, read_publish,
           fifo_set_offset, ringVars
  <2> QED BY <2>1 DEF putVars
<1>2. ASSUME out' = out PROVE Contents' = Contents
  BY <1>1, <1>2, QueueKeeps
<1>3. /\ Contents \in Seq(-1 .. Items - 1) /\ Len(Contents) = FIFO_DATA_LEN
      /\ FIFO_DATA_LEN \in Nat
      /\ \A k \in 1 .. FIFO_DATA_LEN : Contents[k] = buffer[Place(out, k - 1)]
  BY QueueIs DEF HasQueue
<1>4. CASE read_look_again \/ read_copy
  <2>1. out' = out /\ rpc # "publish" /\ rpc' # "publish" /\ UNCHANGED <<asked, short>>
    BY <1>4 DEF read_look_again, read_copy, ringVars
  <2> QED BY <1>1, <1>2, <2>1 DEF QueueRests, Delivered
<1>5. CASE read_copy_rest
  <2>1. /\ Delivered = <<>> /\ Delivered' = copied' /\ out' = out /\ UNCHANGED <<asked, short>>
        /\ len = asked \/ short
    BY <1>5 DEF read_copy_rest, Delivered, ringVars, AskedFor, Copying
  <2>2. /\ copied' \in Seq(-1 .. Items - 1) /\ Len(copied') = len
        /\ \A k \in 1 .. len : copied'[k] = buffer[Place(out, k - 1)]
    BY <1>5, ReadRestTakes
  <2>3. len \in Nat /\ len <= FIFO_DATA_LEN
    BY <1>5 DEF read_copy_rest, IInv, TypeOK, Bounded, Copying
  <2>4. CASE len = 0
    <3>1. copied' = <<>>
      BY <2>2, <2>4, EmptySeq
    <3> QED BY <1>1, <1>2, <2>1, <3>1 DEF QueueRests
  <2>5. CASE len # 0
    <3> DEFINE q == SubSeq(Contents, 1, len)
               T == -1 .. Items - 1
    <3>1. ASSUME NEW i \in 1 .. len PROVE Contents[i] \in T /\ Contents[i] = copied'[i]
      <4>1. i \in 1 .. Len(Contents) /\ i \in 1 .. FIFO_DATA_LEN
        BY <1>3, <2>3
      <4> QED BY <1>3, <2>2, <4>1, ElementOfSeq
    <3>2. 1 \in Int /\ len \in Int /\ len - 1 + 1 = len /\ 1 <= len
      BY <2>3, <2>5
    <3>3. q \in Seq(T) /\ Len(q) = (IF 1 <= len THEN len - 1 + 1 ELSE 0)
      BY <3>1, <3>2, SubSeqProperties
    <3>4. \A i \in 1 .. len - 1 + 1 : q[i] = Contents[1 + i - 1]
      BY <3>1, <3>2, SubSeqProperties
    <3> HIDE DEF q
    <3>5. ASSUME NEW i \in 1 .. len PROVE q[i] = copied'[i]
      <4>1. 1 + i - 1 = i
        BY <2>3
      <4> QED BY <3>1, <3>2, <3>4, <4>1
    <3>6. copied' = q
      BY <2>2, <3>2, <3>3, <3>5, SeqEqual
    <3>7. len \in 1 .. Len(Contents) /\ Contents' = Contents
      BY <1>2, <1>3, <2>1, <2>3, <2>5
    <3>8. Abstract!Deliver
      BY <1>1, <2>1, <3>6, <3>7 DEF Abstract!Deliver, Delivered, q
    <3> QED BY <3>8
  <2> QED BY <2>4, <2>5
<1>6. CASE read_publish
  <2>1. /\ Delivered = copied /\ Delivered' = <<>> /\ rpc = "publish" /\ rpc' = "idle"
        /\ out' = (out + len) % Mod /\ asked' = 0 /\ short' = FALSE
    BY <1>6 DEF read_publish, Delivered
  <2>2. len \in Nat /\ len <= FIFO_DATA_LEN /\ Len(copied) = len /\ copied \in Seq(-1 .. Items - 1)
    BY <2>1 DEF IInv, TypeOK, Bounded, Copying, Taken, IsFront
  <2>3. Contents' = SubSeq(Contents, len + 1, Len(Contents))
    BY <1>1, <2>1, <2>2, QueueDrops
  <2>4. copied # <<>> \/ short
    <3>1. len = asked \/ short
      BY <2>1 DEF AskedFor, Copying
    <3>2. asked # 0
      BY <2>1 DEF AskedFor
    <3> QED BY <2>2, <3>1, <3>2
  <2>5. Abstract!Take
    BY <1>1, <2>1, <2>2, <2>3, <2>4 DEF Abstract!Take, Delivered
  <2> QED BY <2>5
<1>7. CASE fifo_set_offset
  <2>1. PICK n \in 0 .. FIFO_DATA_LEN : out' = (out + n) % Mod
    BY <1>7 DEF fifo_set_offset
  <2>2. Contents' = SubSeq(Contents, n + 1, Len(Contents))
    BY <1>1, <1>3, <2>1, QueueDrops
  <2>3. Delivered = <<>> /\ Delivered' = <<>> /\ asked = 0 /\ UNCHANGED <<asked, short>>
    BY <1>7 DEF fifo_set_offset, Delivered, readVars, AskedFor
  <2>4. Abstract!Skip
    BY <1>1, <1>3, <2>2, <2>3 DEF Abstract!Skip, Delivered
  <2> QED BY <2>4
<1>8. CASE fifo_read
  <2>1. out' = out /\ rpc = "idle" /\ rpc' # "publish" /\ asked = 0
    BY <1>8 DEF fifo_read, ringVars, AskedFor
  <2>2. asked' \in Nat \ {0} /\ short' = (FIFO_DATA_LEN <= asked')
    <3>1. PICK n \in 1 .. MaxLen :
            /\ asked' = n
            /\ \/ n < FIFO_DATA_LEN /\ len' = n /\ rpc' = "copy" /\ short' = FALSE
               \/ n >= FIFO_DATA_LEN /\ rpc' = "look" /\ short' = TRUE /\ UNCHANGED len
      BY <1>8, Zenon DEF fifo_read
    <3>2. n \in Nat \ {0} /\ (n < FIFO_DATA_LEN => (FIFO_DATA_LEN <= n) = FALSE)
          /\ (n >= FIFO_DATA_LEN => (FIFO_DATA_LEN <= n) = TRUE)
      BY <1>3, SizesAssumption
    <3>3. CASE n < FIFO_DATA_LEN /\ short' = FALSE
      BY <3>1, <3>2, <3>3, Zenon
    <3>4. CASE n >= FIFO_DATA_LEN /\ short' = TRUE
      BY <3>1, <3>2, <3>4, Zenon
    <3> QED BY <3>1, <3>3, <3>4, Zenon
  <2>3. Delivered = <<>> /\ Delivered' = <<>>
    BY <2>1 DEF Delivered
  <2>4. Abstract!Ask
    BY <1>1, <1>2, <1>3, <2>1, <2>2, <2>3 DEF Abstract!Ask, Delivered
  <2> QED BY <2>4
<1> QED BY <1>4, <1>5, <1>6, <1>7, <1>8 DEF Read

(* fifo_clean skips all there is. *)
LEMMA CleanRefines == ASSUME IInv, IInv', AskedFor, fifo_clean PROVE Abstract!Skip
<1>1. /\ UNCHANGED <<size, data, asked, short>> /\ in' = 0 /\ out' = 0
      /\ Delivered = <<>> /\ Delivered' = <<>> /\ asked = 0
  BY DEF fifo_clean, putVars, readVars, Delivered, AskedFor
<1>2. FIFO_DATA_LEN' = 0
  BY <1>1, ModTyped DEF FIFO_DATA_LEN, Mod
<1>3. Contents' = <<>>
  BY <1>2, QueueIsNext, EmptySeq DEF HasQueue
<1>4. Len(Contents) \in Nat
  BY QueueIs DEF HasQueue
<1> DEFINE n == Len(Contents)
<1>5. SubSeq(Contents, n + 1, n) = <<>> /\ n \in 0 .. n
  <2>1. n + 1 \in Int /\ n \in Int /\ n < n + 1 /\ n \in 0 .. n
    BY <1>4
  <2> HIDE DEF n
  <2> QED BY <2>1, SubSeqEmpty
<1>6. \E i \in 0 .. Len(Contents) : Contents' = SubSeq(Contents, i + 1, Len(Contents))
  BY <1>3, <1>5
<1> QED BY <1>1, <1>6 DEF Abstract!Skip, Delivered

(* Every step of the ring is a step of the queue or nothing to it. *)
LEMMA NextRefines == IInv /\ IInv' /\ AskedFor /\ [Next]_vars => [Abstract!Next]_(Abstract!vars)
<1> SUFFICES ASSUME IInv, IInv', AskedFor, [Next]_vars PROVE Abstract!Next \/ QueueRests
  BY DEF QueueRests, Delivered, Abstract!vars
<1>1. ASSUME NEW w \in Writers, Put(w) PROVE Abstract!Next \/ QueueRests
  BY <1>1, PutRefines DEF Abstract!Next
<1>2. CASE Read
  BY <1>2, ReadRefines DEF Abstract!Next
<1>3. CASE fifo_enable \/ fifo_disable \/ UNCHANGED vars
  <2>1. UNCHANGED <<size, buffer, in, out, putVars, readVars>>
    BY <1>3 DEF fifo_enable, fifo_disable, vars, ringVars
  <2>2. Contents' = Contents
    BY <2>1, QueueKeeps
  <2> QED BY <2>1, <2>2 DEF QueueRests, Delivered, putVars, readVars
<1>4. CASE fifo_clean
  BY <1>4, CleanRefines DEF Abstract!Next
<1> QED BY <1>1, <1>2, <1>3, <1>4 DEF Next

(* The ring buffer implements the bounded queue: a put is taken whole or   *)
(* refused, and data comes out once, in order and as it was put, for any   *)
(* number of writers, any width of the counters and any sizes; and a read  *)
(* hands out just what it was asked for, unless it found no more than that *)
(* in the ring at first.                                                   *)
THEOREM RingIsQueue == Spec => ImplementsQueue
BY RingInvariant, AskedForCorrect, InitQueue, NextRefines, PTL DEF Spec, ImplementsQueue, Abstract!Spec
=============================================================================
