--------------------------- MODULE Helpers_proofs ---------------------------
(***************************************************************************)
(* Theorems about the parts that MCHelpers checks: the vector of estl.h,   *)
(* for any element type, any width of size_type up to 32 bits and any      *)
(* number of values in a call; and recv_fd, for any number of descriptors. *)
(*                                                                         *)
(* The invariant of the vector says that it holds some sequence of values  *)
(* and has room for so many: each operation of the code is shown to lead   *)
(* from the vector that holds c to the vector that holds what the          *)
(* operation makes of c.  Loops over cells are recursive functions here;   *)
(* each is shown to be the function that says what is in every cell        *)
(* afterwards.                                                             *)
(***************************************************************************)
EXTENDS SimpleVec, FdPass, SequenceTheorems, WellFoundedInduction, TLAPS

(* A set of naturals that is not empty has a least element: induction over *)
(* numbers is done by the smallest counterexample.                         *)
LEMMA Least ==
  ASSUME NEW S \in SUBSET Nat, S # {}
  PROVE  \E n \in S : \A k \in S : n <= k
<1>1. IsWellFoundedOn(OpToRel(<, Nat), Nat)
  BY NatLessThanWellFounded
<1>2. PICK n \in S : \A y \in S : ~(<<y, n>> \in OpToRel(<, Nat))
  BY <1>1, WFMin
<1>3. \A y \in S : ~(y < n)
  BY <1>2 DEF OpToRel
<1>4. QED
  BY <1>3

(* What of the numbers up to n has 0, and with each number the next.       *)
LEMMA UpTo ==
  ASSUME NEW n \in Nat, NEW S, 0 \in S, \A k \in 0..(n - 1) : k \in S => k + 1 \in S
  PROVE  0..n \subseteq S
<1> DEFINE Out == {k \in 0..n : k \notin S}
<1>1. SUFFICES ASSUME Out # {} PROVE FALSE
  OBVIOUS
<1>2. PICK k \in Out : \A j \in Out : k <= j
  <2>1. Out \in SUBSET Nat
    OBVIOUS
  <2> QED
    BY <1>1, <2>1, Least
<1>3. k # 0 /\ k - 1 \in 0..(n - 1) /\ k - 1 \notin Out
  BY <1>2
<1>4. k - 1 + 1 \in S /\ k - 1 + 1 = k
  BY <1>3
<1>5. QED
  BY <1>2, <1>4

-----------------------------------------------------------------------------
(* The powers of two that size_type and ecb_ld32 meet.  The provers know   *)
(* each of them, but nothing of 2^k in general.                            *)
Pow2(k) == 2^k

(* Each is twice the one before.                                           *)
LEMMA Powers ==
  \A k \in 0..31 : Pow2(k) \in 1..Pow2(31) /\ Pow2(k + 1) = 2 * Pow2(k)
<1> DEFINE P(k) == Pow2(k) \in 1..Pow2(31) /\ Pow2(k + 1) = 2 * Pow2(k)
<1>1. /\ P(0) /\ P(1) /\ P(2) /\ P(3)
      /\ P(4) /\ P(5) /\ P(6) /\ P(7)
  BY SMT DEF Pow2
<1>2. /\ P(8) /\ P(9) /\ P(10) /\ P(11)
      /\ P(12) /\ P(13) /\ P(14) /\ P(15)
  BY SMT DEF Pow2
<1>3. /\ P(16) /\ P(17) /\ P(18) /\ P(19)
      /\ P(20) /\ P(21) /\ P(22) /\ P(23)
  BY SMT DEF Pow2
<1>4. /\ P(24) /\ P(25) /\ P(26) /\ P(27)
      /\ P(28) /\ P(29) /\ P(30) /\ P(31)
  BY SMT DEF Pow2
<1> HIDE DEF P
<1>5. ASSUME NEW k \in 0..7 PROVE P(k)
  <2>1. k = 0 \/ k = 1 \/ k = 2 \/ k = 3 \/ k = 4 \/ k = 5 \/ k = 6 \/ k = 7
    BY SMT
  <2> QED
    BY <1>1, <2>1, ZenonT(40)
<1>6. ASSUME NEW k \in 8..15 PROVE P(k)
  <2>1. k = 8 \/ k = 9 \/ k = 10 \/ k = 11 \/ k = 12 \/ k = 13 \/ k = 14 \/ k = 15
    BY SMT
  <2> QED
    BY <1>2, <2>1, ZenonT(40)
<1>7. ASSUME NEW k \in 16..23 PROVE P(k)
  <2>1. k = 16 \/ k = 17 \/ k = 18 \/ k = 19 \/ k = 20 \/ k = 21 \/ k = 22 \/ k = 23
    BY SMT
  <2> QED
    BY <1>3, <2>1, ZenonT(40)
<1>8. ASSUME NEW k \in 24..31 PROVE P(k)
  <2>1. k = 24 \/ k = 25 \/ k = 26 \/ k = 27 \/ k = 28 \/ k = 29 \/ k = 30 \/ k = 31
    BY SMT
  <2> QED
    BY <1>4, <2>1, ZenonT(40)
<1>9. ASSUME NEW k \in 0..31 PROVE k \in 0..7 \/ k \in 8..15 \/ k \in 16..23 \/ k \in 24..31
  OBVIOUS
<1>10. \A k \in 0..31 : P(k)
  BY <1>5, <1>6, <1>7, <1>8, <1>9, Zenon
<1> QED
  BY <1>10 DEF P

(* They are positive.                                                      *)
LEMMA PowerIn == \A i \in 0..32 : Pow2(i) \in Nat \ {0}
<1>1. Pow2(31) \in Nat
  BY SMT DEF Pow2
<1>2. \A i \in 1..32 : i - 1 \in 0..31 /\ i - 1 + 1 = i
  OBVIOUS
<1>3. \A i \in 0..31 : Pow2(i) \in Nat \ {0}
  BY <1>1, Powers
<1> QED
  BY <1>2, <1>3, Powers

(* 2^r * 2^h is 2^(r + h): r and h are small.                              *)
LEMMA PowerSum ==
  ASSUME NEW r \in Nat, NEW k \in Nat, r + k <= 32
  PROVE  Pow2(r + k) = Pow2(r) * Pow2(k)
<1> DEFINE S == {i \in 0..k : Pow2(r + i) = Pow2(r) * Pow2(i)}
<1>1. 0 \in S
  <2>1. Pow2(r) \in Nat /\ r + 0 = r
    BY PowerIn
  <2>2. Pow2(0) = 1
    BY SMT DEF Pow2
  <2> QED
    BY <2>1, <2>2
<1>2. ASSUME NEW i \in 0..(k - 1), i \in S PROVE i + 1 \in S
  <2>1. Pow2(r + i) = Pow2(r) * Pow2(i)
    BY <1>2
  <2>2. r + i \in 0..31 /\ i \in 0..31 /\ r \in 0..32
    OBVIOUS
  <2>3. Pow2(r + i + 1) = 2 * Pow2(r + i) /\ Pow2(i + 1) = 2 * Pow2(i)
    BY <2>2, Powers
  <2>4. r + (i + 1) = r + i + 1
    BY <2>2
  <2>5. Pow2(i) \in Nat /\ Pow2(r) \in Nat
    BY PowerIn, <2>2
  <2>6. \A a, b \in Nat : 2 * (a * b) = a * (2 * b)
    BY SMT
  <2> QED
    BY <2>1, <2>3, <2>4, <2>5, <2>6
<1>3. k \in S
  <2>1. 0..k \subseteq S
    BY <1>1, <1>2, UpTo
  <2> QED
    BY <2>1
<1> QED
  BY <1>3

(* max_size () and what overflows size_type are bounded by them.           *)
LEMMA WidthPower == 2^Width \in Nat /\ 2 <= 2^Width /\ 2^Width <= 2^32
<1>1. Width - 1 \in 0..31 /\ Width - 1 + 1 = Width
  BY VecAssumption
<1>2. Pow2(Width - 1) \in 1..Pow2(31) /\ Pow2(Width - 1 + 1) = 2 * Pow2(Width - 1)
  BY <1>1, Powers
<1>3. Pow2(32) = 2 * Pow2(31) /\ Pow2(31) \in Nat
  BY SMT DEF Pow2
<1>4. Pow2(Width) \in Nat /\ 2 <= Pow2(Width) /\ Pow2(Width) <= Pow2(32)
  BY <1>1, <1>2, <1>3
<1> QED
  BY <1>4, Zenon DEF Pow2

(* What the bisection keeps: the number n is s.x times 2^s.r and something *)
(* less than that once more, and s.x has h bits at most.                   *)
Scaled(n, s, h) ==
  /\ s.r \in 0..(32 - h) /\ s.x \in 1..(Pow2(h) - 1)
  /\ s.x * Pow2(s.r) <= n /\ n < (s.x + 1) * Pow2(s.r)

(* A step of the bisection keeps the number and halves the bits left.      *)
LEMMA HalveScales ==
  ASSUME NEW n \in Nat, NEW s, NEW h \in {1, 2, 4, 8, 16}, Scaled(n, s, 2 * h)
  PROVE  Scaled(n, Halve(s, h), h)
<1> DEFINE b == Pow2(h)
           p == Pow2(s.r)
           y == s.x \div b
<1>1. /\ s.r \in Nat /\ s.r + h \in 0..(32 - h) /\ h \in Nat
      /\ h + h = 2 * h /\ h + h <= 32 /\ s.r + h <= 32
  BY DEF Scaled
<1>2. b \in Nat \ {0} /\ Pow2(2 * h) = b * b /\ p \in Nat \ {0} /\ Pow2(s.r + h) = p * b
  <2>1. Pow2(h + h) = b * b /\ Pow2(s.r + h) = p * b
    BY <1>1, PowerSum
  <2>2. h \in 0..32 /\ s.r \in 0..32
    BY <1>1
  <2> QED
    BY <1>1, <2>1, <2>2, PowerIn
<1>3. s.x \in 1..(b * b - 1) /\ s.x * p <= n /\ n < (s.x + 1) * p
  BY <1>2 DEF Scaled
<1>4. Halve(s, h) = IF y > 0 THEN [x |-> y, r |-> s.r + h] ELSE s
  BY Zenon DEF Halve, Pow2
<1> HIDE DEF b, p
<1>5. y \in 0..(b - 1) /\ y * b <= s.x /\ s.x + 1 <= (y + 1) * b
  BY <1>2, <1>3, SMT
<1>6. CASE y > 0
  <2>1. Halve(s, h) = [x |-> y, r |-> s.r + h]
    BY <1>4, <1>6
  <2>2. y * (p * b) <= n
    <3>1. \A i, j, k \in Nat : i <= j => i * k <= j * k
      BY SMT
    <3>2. y * b * p <= s.x * p
      BY <3>1, <1>2, <1>3, <1>5
    <3>3. y * b * p = y * (p * b)
      BY <1>2, <1>5, SMT
    <3> QED
      BY <3>2, <3>3, <1>2, <1>3, <1>5, SMT
  <2>3. n < (y + 1) * (p * b)
    <3>1. \A i, j, k \in Nat : i <= j => i * k <= j * k
      BY SMT
    <3>2. (s.x + 1) * p <= (y + 1) * b * p
      BY <3>1, <1>2, <1>3, <1>5
    <3>3. (y + 1) * b * p = (y + 1) * (p * b)
      BY <1>2, <1>5, SMT
    <3> QED
      BY <3>2, <3>3, <1>2, <1>3, <1>5, SMT
  <2> QED
    BY <1>1, <1>2, <1>5, <1>6, <2>1, <2>2, <2>3 DEF Scaled, b
<1>7. CASE ~(y > 0)
  <2>1. Halve(s, h) = s
    BY <1>4, <1>7
  <2>2. s.x \in 1..(b - 1)
    BY <1>2, <1>3, <1>5, <1>7
  <2> QED
    BY <1>1, <1>3, <2>1, <2>2 DEF Scaled, b, p
<1> QED
  BY <1>6, <1>7

(* The result is the highest bit of the number.                            *)
LEMMA HighestBit ==
  ASSUME NEW n \in 1..(2^32 - 1)
  PROVE  LET p == Pow2(ecb_ld32(n))
         IN  p \in Nat /\ p <= n /\ n < 2 * p
<1> DEFINE s0 == [x |-> n, r |-> 0]
           s1 == Halve(s0, 16)
           s2 == Halve(s1, 8)
           s3 == Halve(s2, 4)
           s4 == Halve(s3, 2)
           s5 == Halve(s4, 1)
<1>1. Scaled(n, s0, 32)
  <2>1. Pow2(0) = 1 /\ Pow2(32) = 2^32
    BY SMT DEF Pow2
  <2> QED
    BY <2>1, SMT DEF Scaled
<1>2. n \in Nat /\ 32 = 2 * 16 /\ 16 = 2 * 8 /\ 8 = 2 * 4 /\ 4 = 2 * 2 /\ 2 = 2 * 1
  BY SMT
<1> HIDE DEF s0
<1>3. Scaled(n, s1, 16)
  BY <1>1, <1>2, HalveScales
<1>4. Scaled(n, s2, 8)
  BY <1>2, <1>3, HalveScales
<1>5. Scaled(n, s3, 4)
  BY <1>2, <1>4, HalveScales
<1>6. Scaled(n, s4, 2)
  BY <1>2, <1>5, HalveScales
<1>7. Scaled(n, s5, 1)
  BY <1>2, <1>6, HalveScales
<1>8. ecb_ld32(n) = s5.r
  BY DEF ecb_ld32, s0
<1> HIDE DEF s5
<1>9. Pow2(1) = 2
  BY SMT DEF Pow2
<1>10. /\ s5.r \in 0..31 /\ s5.x = 1
       /\ s5.x * Pow2(s5.r) <= n /\ n < (s5.x + 1) * Pow2(s5.r)
  BY <1>7, <1>9 DEF Scaled
<1>11. Pow2(s5.r) \in Nat
  BY <1>10, PowerIn
<1> QED
  BY <1>2, <1>8, <1>10, <1>11

(* Twice max_size () is still a size_type.                                 *)
LEMMA MaxSizeFits == MaxSize \in Nat /\ 2 * MaxSize < 2^Width /\ MaxSize < 2^32 /\ 2^Width \in Nat
<1>1. 2^Width \in Nat /\ 2 <= 2^Width /\ 2^Width <= 2^32
  BY WidthPower
<1> QED
  BY <1>1, SMT DEF MaxSize

(* Up to max_size () elements good_size is more than was asked for, and it *)
(* fits into size_type.                                                    *)
LEMMA GoodSizeFits ==
  ASSUME NEW n \in 1..MaxSize
  PROVE  GoodSize(n) \in (n + 1)..(2^Width - 1)
<1>1. MaxSize \in Nat /\ 2 * MaxSize < 2^Width /\ MaxSize < 2^32 /\ 2^Width \in Nat
  BY MaxSizeFits
<1>2. n \in 1..(2^32 - 1)
  BY <1>1, SMT
<1> DEFINE p == Pow2(ecb_ld32(n))
<1>3. p \in Nat /\ p <= n /\ n < 2 * p
  BY <1>2, HighestBit
<1>4. GoodSize(n) = (2 * p) % 2^Width
  <2>1. n # 0
    OBVIOUS
  <2> QED
    BY <2>1, Zenon DEF GoodSize, Wrap, Pow2
<1> HIDE DEF p
<1>5. 2 * p \in (n + 1)..(2^Width - 1)
  BY <1>1, <1>3, SMT
<1>6. (2 * p) % 2^Width = 2 * p
  BY <1>1, <1>3, <1>5, SMT
<1> QED
  BY <1>4, <1>5, <1>6

(* Sizes do not wrap either.                                               *)
LEMMA WrapSame ==
  ASSUME NEW n \in 0..MaxSize
  PROVE  Wrap(n) = n
<1>1. MaxSize \in Nat /\ 2 * MaxSize < 2^Width /\ MaxSize < 2^32 /\ 2^Width \in Nat
  BY MaxSizeFits
<1> QED
  BY <1>1, SMT DEF Wrap

-----------------------------------------------------------------------------
(* Loops.  The recursive function of a loop is what any function that      *)
(* satisfies its equation is.                                              *)
LEMMA SameLoop ==
  ASSUME NEW n \in Nat, NEW f, NEW g, f[0] = g[0],
         \A k \in 1..n : f[k - 1] = g[k - 1] => f[k] = g[k]
  PROVE  f[n] = g[n]
<1> DEFINE S == {k \in 0..n : f[k] = g[k]}
<1>1. 0 \in S
  OBVIOUS
<1>2. ASSUME NEW k \in 0..(n - 1), k \in S PROVE k + 1 \in S
  <2>1. k + 1 \in 1..n /\ k + 1 - 1 = k
    OBVIOUS
  <2> QED
    BY <1>2, <2>1
<1>3. 0..n \subseteq S
  BY <1>1, <1>2, UpTo
<1> QED
  BY <1>3

(* What a buffer of m cells may hold.                                      *)
Cells     == Values \cup {Raw}
Buffer(m) == [0..(m - 1) -> Cells]

(* Storing e in a cell.                                                    *)
LEMMA StoreIs ==
  ASSUME NEW D, NEW S, NEW b \in [D -> S], NEW c \in [D -> S], NEW y \in D, NEW e,
         \A x \in D : c[x] = IF x = y THEN e ELSE b[x]
  PROVE  c = [b EXCEPT ![y] = e]
OBVIOUS

(* construct, on memory without objects.                                   *)
LEMMA ConstructIs ==
  ASSUME ~simple, NEW m \in Nat, NEW b \in Buffer(m), NEW a \in Nat, NEW n \in Int,
         a + n <= m, \A x \in a..(a + n - 1) : b[x] = Raw
  PROVE  Construct(b, a, n) =
           [x \in 0..(m - 1) |-> IF x \in a..(a + n - 1) THEN Default ELSE b[x]]
<1> DEFINE Body(d, i) == CopNew(d, a + i, Default)
           Rec(h) == h = [k \in 0..n |-> IF k = 0 THEN b ELSE Body(h[k - 1], k - 1)]
           G(k)   == [x \in 0..(m - 1) |-> IF x \in a..(a + k - 1) THEN Default ELSE b[x]]
           g      == [k \in 0..n |-> G(k)]
           f      == CHOOSE h : Rec(h)
<1>1. G(0) = b
  BY DEF Buffer, Blank
<1>2. CASE n > 0
  <2>1. ASSUME NEW k \in 1..n PROVE G(k) = Body(G(k - 1), k - 1)
    <3> DEFINE y == a + (k - 1)
               e == Default
    <3>1. y \in 0..(m - 1) /\ G(k - 1)[y] = Raw
      BY VecAssumption DEF Buffer, Cells
    <3>2. G(k) \in Buffer(m) /\ G(k - 1) \in Buffer(m)
      BY VecAssumption DEF Buffer, Cells
    <3>3. \A x \in 0..(m - 1) : G(k)[x] = IF x = y THEN e ELSE G(k - 1)[x]
      OBVIOUS
    <3> HIDE DEF G
    <3>4. G(k) = [G(k - 1) EXCEPT ![y] = e]
      BY <3>1, <3>2, <3>3, StoreIs DEF Buffer
    <3>5. Body(G(k - 1), k - 1) = [G(k - 1) EXCEPT ![y] = e]
      BY <3>1, <3>2, VecAssumption DEF CopNew, Buffer
    <3> QED
      BY <3>4, <3>5
  <2> HIDE DEF G
  <2>2. \A k \in 1..n : k # 0 /\ k - 1 \in 0..n /\ g[k - 1] = G(k - 1) /\ g[k] = G(k)
    BY <1>2
  <2>3. Rec(g)
    BY <1>1, <2>1, <2>2
  <2>4. Rec(f)
    BY <2>3
  <2> HIDE DEF f
  <2>5. f[0] = b /\ \A k \in 1..n : f[k] = Body(f[k - 1], k - 1)
    BY <1>2, <2>2, <2>4
  <2>6. g[0] = b /\ \A k \in 1..n : g[k] = Body(g[k - 1], k - 1)
    BY <1>1, <1>2, <2>1, <2>2
  <2>7. g[n] = G(n)
    BY <1>2, <2>2
  <2> HIDE DEF g
  <2>8. f[0] = g[0] /\ \A k \in 1..n : f[k - 1] = g[k - 1] => f[k] = g[k]
    BY <2>5, <2>6
  <2>9. f[n] = g[n]
    BY <1>2, <2>8, SameLoop
  <2>10. Construct(b, a, n) = f[n]
    BY <1>2 DEF Construct, Loop, f
  <2> QED
    BY <2>7, <2>9, <2>10 DEF G
<1>3. CASE ~(n > 0)
  <2>1. Construct(b, a, n) = b
    BY <1>3 DEF Construct, Loop
  <2> QED
    BY <1>3, <2>1 DEF Buffer, Blank
<1> QED
  BY <1>2, <1>3

(* destruct, of objects that are there.                                    *)
LEMMA DestructIs ==
  ASSUME NEW m \in Nat, NEW b \in Buffer(m), NEW a \in Nat, NEW n \in Nat, a + n <= m,
         simple \/ \A x \in a..(a + n - 1) : b[x] \in Values
  PROVE  Destruct(b, a, n) =
           [x \in 0..(m - 1) |-> IF x \in a..(a + n - 1) THEN Raw ELSE b[x]]
<1> DEFINE Body(d, i) == End(d, a + i)
           Rec(h) == h = [k \in 0..n |-> IF k = 0 THEN b ELSE Body(h[k - 1], k - 1)]
           G(k)   == [x \in 0..(m - 1) |-> IF x \in a..(a + k - 1) THEN Raw ELSE b[x]]
           g      == [k \in 0..n |-> G(k)]
           f      == CHOOSE h : Rec(h)
<1>1. G(0) = b
  BY DEF Buffer, Blank
<1>2. CASE n > 0
  <2>1. ASSUME NEW k \in 1..n PROVE G(k) = Body(G(k - 1), k - 1)
    <3> DEFINE y == a + (k - 1)
               e == Raw
    <3>1. y \in 0..(m - 1) /\ (simple \/ G(k - 1)[y] \in Values)
      BY VecAssumption DEF Buffer, Cells
    <3>2. G(k) \in Buffer(m) /\ G(k - 1) \in Buffer(m)
      BY VecAssumption DEF Buffer, Cells
    <3>3. \A x \in 0..(m - 1) : G(k)[x] = IF x = y THEN e ELSE G(k - 1)[x]
      OBVIOUS
    <3> HIDE DEF G
    <3>4. G(k) = [G(k - 1) EXCEPT ![y] = e]
      BY <3>1, <3>2, <3>3, StoreIs DEF Buffer
    <3>5. Body(G(k - 1), k - 1) = [G(k - 1) EXCEPT ![y] = e]
      BY <3>1, <3>2, VecAssumption DEF End, Buffer
    <3> QED
      BY <3>4, <3>5
  <2> HIDE DEF G
  <2>2. \A k \in 1..n : k # 0 /\ k - 1 \in 0..n /\ g[k - 1] = G(k - 1) /\ g[k] = G(k)
    BY <1>2
  <2>3. Rec(g)
    BY <1>1, <2>1, <2>2
  <2>4. Rec(f)
    BY <2>3
  <2> HIDE DEF f
  <2>5. f[0] = b /\ \A k \in 1..n : f[k] = Body(f[k - 1], k - 1)
    BY <1>2, <2>2, <2>4
  <2>6. g[0] = b /\ \A k \in 1..n : g[k] = Body(g[k - 1], k - 1)
    BY <1>1, <1>2, <2>1, <2>2
  <2>7. g[n] = G(n)
    BY <1>2, <2>2
  <2> HIDE DEF g
  <2>8. f[0] = g[0] /\ \A k \in 1..n : f[k - 1] = g[k - 1] => f[k] = g[k]
    BY <2>5, <2>6
  <2>9. f[n] = g[n]
    BY <1>2, <2>8, SameLoop
  <2>10. Destruct(b, a, n) = f[n]
    BY <1>2 DEF Destruct, Loop, f
  <2> QED
    BY <2>7, <2>9, <2>10 DEF G
<1>3. CASE ~(n > 0)
  <2>1. Destruct(b, a, n) = b
    BY <1>3 DEF Destruct, Loop
  <2> QED
    BY <1>3, <2>1 DEF Buffer, Blank
<1> QED
  BY <1>2, <1>3

(* copy to a new buffer.                                                   *)
LEMMA CopiedIs ==
  ASSUME NEW m \in Nat, NEW n \in Nat, n <= m, NEW s \in [1..n -> Values], Len(s) = n
  PROVE  Copied(m, s) =
           [x \in 0..(m - 1) |-> IF x < n THEN s[x + 1] ELSE Raw]
<1> DEFINE Body(d, i) == CopNew(d, i, s[i + 1])
           Rec(h) == h = [k \in 0..n |-> IF k = 0 THEN Blank(m) ELSE Body(h[k - 1], k - 1)]
           G(k)   == [x \in 0..(m - 1) |-> IF x < k THEN s[x + 1] ELSE Raw]
           g      == [k \in 0..n |-> G(k)]
           f      == CHOOSE h : Rec(h)
<1>1. G(0) = Blank(m)
  BY DEF Buffer, Blank
<1>2. CASE n > 0
  <2>1. ASSUME NEW k \in 1..n PROVE G(k) = Body(G(k - 1), k - 1)
    <3> DEFINE y == k - 1
               e == s[k - 1 + 1]
    <3>1. y \in 0..(m - 1) /\ e \in Values /\ G(k - 1)[y] = Raw
      BY VecAssumption DEF Buffer, Cells
    <3>2. G(k) \in Buffer(m) /\ G(k - 1) \in Buffer(m)
      BY VecAssumption DEF Buffer, Cells
    <3>3. \A x \in 0..(m - 1) : G(k)[x] = IF x = y THEN e ELSE G(k - 1)[x]
      OBVIOUS
    <3> HIDE DEF G
    <3>4. G(k) = [G(k - 1) EXCEPT ![y] = e]
      BY <3>1, <3>2, <3>3, StoreIs DEF Buffer
    <3>5. Body(G(k - 1), k - 1) = [G(k - 1) EXCEPT ![y] = e]
      BY <3>1, <3>2, VecAssumption DEF CopNew, Buffer
    <3> QED
      BY <3>4, <3>5
  <2> HIDE DEF G
  <2>2. \A k \in 1..n : k # 0 /\ k - 1 \in 0..n /\ g[k - 1] = G(k - 1) /\ g[k] = G(k)
    BY <1>2
  <2>3. Rec(g)
    BY <1>1, <2>1, <2>2
  <2>4. Rec(f)
    BY <2>3
  <2> HIDE DEF f
  <2>5. f[0] = Blank(m) /\ \A k \in 1..n : f[k] = Body(f[k - 1], k - 1)
    BY <1>2, <2>2, <2>4
  <2>6. g[0] = Blank(m) /\ \A k \in 1..n : g[k] = Body(g[k - 1], k - 1)
    BY <1>1, <1>2, <2>1, <2>2
  <2>7. g[n] = G(n)
    BY <1>2, <2>2
  <2> HIDE DEF g
  <2>8. f[0] = g[0] /\ \A k \in 1..n : f[k - 1] = g[k - 1] => f[k] = g[k]
    BY <2>5, <2>6
  <2>9. f[n] = g[n]
    BY <1>2, <2>8, SameLoop
  <2>10. Copied(m, s) = f[n]
    BY <1>2 DEF Copied, Loop, f
  <2> QED
    BY <2>7, <2>9, <2>10 DEF G
<1>3. CASE ~(n > 0)
  <2>1. Copied(m, s) = Blank(m)
    BY <1>3 DEF Copied, Loop
  <2> QED
    BY <1>3, <2>1 DEF Buffer, Blank
<1> QED
  BY <1>2, <1>3

(* copy over objects that are there.                                       *)
LEMMA AssignedIs ==
  ASSUME NEW m \in Nat, NEW b \in Buffer(m), NEW a \in Nat, NEW n \in Nat, a + n <= m,
         NEW s \in [1..n -> Values], Len(s) = n,
         simple \/ \A x \in a..(a + n - 1) : b[x] \in Values
  PROVE  Assigned(b, a, s) =
           [x \in 0..(m - 1) |-> IF x \in a..(a + n - 1) THEN s[x - a + 1] ELSE b[x]]
<1> DEFINE Body(d, i) == CopSet(d, a + i, s[i + 1])
           Rec(h) == h = [k \in 0..n |-> IF k = 0 THEN b ELSE Body(h[k - 1], k - 1)]
           G(k)   == [x \in 0..(m - 1) |-> IF x \in a..(a + k - 1) THEN s[x - a + 1] ELSE b[x]]
           g      == [k \in 0..n |-> G(k)]
           f      == CHOOSE h : Rec(h)
<1>1. G(0) = b
  BY DEF Buffer, Blank
<1>2. CASE n > 0
  <2>1. ASSUME NEW k \in 1..n PROVE G(k) = Body(G(k - 1), k - 1)
    <3> DEFINE y == a + (k - 1)
               e == s[k - 1 + 1]
    <3>1. y \in 0..(m - 1) /\ e \in Values /\ (simple \/ G(k - 1)[y] \in Values)
      BY VecAssumption DEF Buffer, Cells
    <3>2. G(k) \in Buffer(m) /\ G(k - 1) \in Buffer(m)
      BY VecAssumption DEF Buffer, Cells
    <3>3. \A x \in 0..(m - 1) : G(k)[x] = IF x = y THEN e ELSE G(k - 1)[x]
      OBVIOUS
    <3> HIDE DEF G
    <3>4. G(k) = [G(k - 1) EXCEPT ![y] = e]
      BY <3>1, <3>2, <3>3, StoreIs DEF Buffer
    <3>5. Body(G(k - 1), k - 1) = [G(k - 1) EXCEPT ![y] = e]
      BY <3>1, <3>2, VecAssumption DEF CopSet, Buffer
    <3> QED
      BY <3>4, <3>5
  <2> HIDE DEF G
  <2>2. \A k \in 1..n : k # 0 /\ k - 1 \in 0..n /\ g[k - 1] = G(k - 1) /\ g[k] = G(k)
    BY <1>2
  <2>3. Rec(g)
    BY <1>1, <2>1, <2>2
  <2>4. Rec(f)
    BY <2>3
  <2> HIDE DEF f
  <2>5. f[0] = b /\ \A k \in 1..n : f[k] = Body(f[k - 1], k - 1)
    BY <1>2, <2>2, <2>4
  <2>6. g[0] = b /\ \A k \in 1..n : g[k] = Body(g[k - 1], k - 1)
    BY <1>1, <1>2, <2>1, <2>2
  <2>7. g[n] = G(n)
    BY <1>2, <2>2
  <2> HIDE DEF g
  <2>8. f[0] = g[0] /\ \A k \in 1..n : f[k - 1] = g[k - 1] => f[k] = g[k]
    BY <2>5, <2>6
  <2>9. f[n] = g[n]
    BY <1>2, <2>8, SameLoop
  <2>10. Assigned(b, a, s) = f[n]
    BY <1>2 DEF Assigned, Loop, f
  <2> QED
    BY <2>7, <2>9, <2>10 DEF G
<1>3. CASE ~(n > 0)
  <2>1. Assigned(b, a, s) = b
    BY <1>3 DEF Assigned, Loop
  <2> QED
    BY <1>3, <2>1 DEF Buffer, Blank
<1> QED
  BY <1>2, <1>3

(* The loop of ins: read before it is overwritten, as the last goes first. *)
LEMMA ShiftLoop ==
  ASSUME ~simple, NEW m \in Nat, NEW b \in Buffer(m), NEW a \in Nat, NEW n \in Nat, NEW c \in Nat,
         a + n + c <= m, \A x \in a..(a + n + c - 1) : b[x] \in Values
  PROVE  Shift(b, a, n, c) =
           [x \in 0..(m - 1) |-> IF x \in (a + n + c - c)..(a + n + c - 1) THEN b[x - n] ELSE b[x]]
<1> DEFINE Body(d, i) == CopSet(d, a + n + c - 1 - i, Cell(d, a + c - 1 - i))
           Rec(h) == h = [k \in 0..c |-> IF k = 0 THEN b ELSE Body(h[k - 1], k - 1)]
           G(k)   == [x \in 0..(m - 1) |->
                        IF x \in (a + n + c - k)..(a + n + c - 1) THEN b[x - n] ELSE b[x]]
           g      == [k \in 0..c |-> G(k)]
           f      == CHOOSE h : Rec(h)
<1>1. G(0) = b
  BY DEF Buffer, Blank
<1>2. CASE c > 0
  <2>1. ASSUME NEW k \in 1..c PROVE G(k) = Body(G(k - 1), k - 1)
    <3> DEFINE y == a + n + c - 1 - (k - 1)
               e == Cell(G(k - 1), a + c - 1 - (k - 1))
    <3>1. /\ y \in 0..(m - 1) /\ y - n \in 0..(m - 1) /\ a + c - 1 - (k - 1) = y - n
          /\ G(k - 1)[y - n] = b[y - n] /\ e = b[y - n] /\ b[y - n] \in Values
          /\ G(k - 1)[y] \in Values
          /\ DOMAIN G(k - 1) = 0..(m - 1)
      BY VecAssumption DEF Buffer, Cells, Cell
    <3>2. G(k) \in Buffer(m) /\ G(k - 1) \in Buffer(m)
      BY VecAssumption DEF Buffer, Cells
    <3>3. \A x \in 0..(m - 1) : G(k)[x] = IF x = y THEN e ELSE G(k - 1)[x]
      BY <3>1
    <3> HIDE DEF G
    <3>4. G(k) = [G(k - 1) EXCEPT ![y] = e]
      BY <3>1, <3>2, <3>3, StoreIs DEF Buffer
    <3>5. Body(G(k - 1), k - 1) = [G(k - 1) EXCEPT ![y] = e]
      BY <3>1, <3>2, VecAssumption DEF CopSet, Cell, Buffer
    <3> QED
      BY <3>4, <3>5
  <2> HIDE DEF G
  <2>2. \A k \in 1..c : k # 0 /\ k - 1 \in 0..c /\ g[k - 1] = G(k - 1) /\ g[k] = G(k)
    BY <1>2
  <2>3. Rec(g)
    BY <1>1, <2>1, <2>2
  <2>4. Rec(f)
    BY <2>3
  <2> HIDE DEF f
  <2>5. f[0] = b /\ \A k \in 1..c : f[k] = Body(f[k - 1], k - 1)
    BY <1>2, <2>2, <2>4
  <2>6. g[0] = b /\ \A k \in 1..c : g[k] = Body(g[k - 1], k - 1)
    BY <1>1, <1>2, <2>1, <2>2
  <2>7. g[c] = G(c)
    BY <1>2, <2>2
  <2> HIDE DEF g
  <2>8. f[0] = g[0] /\ \A k \in 1..c : f[k - 1] = g[k - 1] => f[k] = g[k]
    BY <2>5, <2>6
  <2>9. f[c] = g[c]
    BY <1>2, <2>8, SameLoop
  <2>10. Shift(b, a, n, c) = f[c]
    BY <1>2 DEF Shift, Loop, f
  <2> QED
    BY <2>7, <2>9, <2>10 DEF G
<1>3. CASE ~(c > 0)
  <2>1. Shift(b, a, n, c) = b
    BY <1>3 DEF Shift, Loop
  <2> QED
    BY <1>3, <2>1 DEF Buffer, Blank
<1> QED
  BY <1>2, <1>3

(* The loop of erase: read before it is overwritten, as the first goes     *)
(* first.                                                                  *)
LEMMA CloseLoop ==
  ASSUME ~simple, NEW m \in Nat, NEW b \in Buffer(m), NEW a \in Nat, NEW n \in Nat, NEW c \in Nat,
         a + n + c <= m, \A x \in a..(a + n + c - 1) : b[x] \in Values
  PROVE  Close(b, a, n, c) =
           [x \in 0..(m - 1) |-> IF x \in a..(a + c - 1) THEN b[x + n] ELSE b[x]]
<1> DEFINE Body(d, i) == CopSet(d, a + i, Cell(d, a + n + i))
           Rec(h) == h = [k \in 0..c |-> IF k = 0 THEN b ELSE Body(h[k - 1], k - 1)]
           G(k)   == [x \in 0..(m - 1) |-> IF x \in a..(a + k - 1) THEN b[x + n] ELSE b[x]]
           g      == [k \in 0..c |-> G(k)]
           f      == CHOOSE h : Rec(h)
<1>1. G(0) = b
  BY DEF Buffer, Blank
<1>2. CASE c > 0
  <2>1. ASSUME NEW k \in 1..c PROVE G(k) = Body(G(k - 1), k - 1)
    <3> DEFINE y == a + (k - 1)
               e == Cell(G(k - 1), a + n + (k - 1))
    <3>1. /\ y \in 0..(m - 1) /\ y + n \in 0..(m - 1) /\ a + n + (k - 1) = y + n
          /\ G(k - 1)[y + n] = b[y + n] /\ e = b[y + n] /\ b[y + n] \in Values
          /\ G(k - 1)[y] \in Values
          /\ DOMAIN G(k - 1) = 0..(m - 1)
      BY VecAssumption DEF Buffer, Cells, Cell
    <3>2. G(k) \in Buffer(m) /\ G(k - 1) \in Buffer(m)
      BY VecAssumption DEF Buffer, Cells
    <3>3. \A x \in 0..(m - 1) : G(k)[x] = IF x = y THEN e ELSE G(k - 1)[x]
      BY <3>1
    <3> HIDE DEF G
    <3>4. G(k) = [G(k - 1) EXCEPT ![y] = e]
      BY <3>1, <3>2, <3>3, StoreIs DEF Buffer
    <3>5. Body(G(k - 1), k - 1) = [G(k - 1) EXCEPT ![y] = e]
      BY <3>1, <3>2, VecAssumption DEF CopSet, Cell, Buffer
    <3> QED
      BY <3>4, <3>5
  <2> HIDE DEF G
  <2>2. \A k \in 1..c : k # 0 /\ k - 1 \in 0..c /\ g[k - 1] = G(k - 1) /\ g[k] = G(k)
    BY <1>2
  <2>3. Rec(g)
    BY <1>1, <2>1, <2>2
  <2>4. Rec(f)
    BY <2>3
  <2> HIDE DEF f
  <2>5. f[0] = b /\ \A k \in 1..c : f[k] = Body(f[k - 1], k - 1)
    BY <1>2, <2>2, <2>4
  <2>6. g[0] = b /\ \A k \in 1..c : g[k] = Body(g[k - 1], k - 1)
    BY <1>1, <1>2, <2>1, <2>2
  <2>7. g[c] = G(c)
    BY <1>2, <2>2
  <2> HIDE DEF g
  <2>8. f[0] = g[0] /\ \A k \in 1..c : f[k - 1] = g[k - 1] => f[k] = g[k]
    BY <2>5, <2>6
  <2>9. f[c] = g[c]
    BY <1>2, <2>8, SameLoop
  <2>10. Close(b, a, n, c) = f[c]
    BY <1>2 DEF Close, Loop, f
  <2> QED
    BY <2>7, <2>9, <2>10 DEF G
<1>3. CASE ~(c > 0)
  <2>1. Close(b, a, n, c) = b
    BY <1>3 DEF Close, Loop
  <2> QED
    BY <1>3, <2>1 DEF Buffer, Blank
<1> QED
  BY <1>2, <1>3

(* Moving elements up and down, as bytes or one by one.                    *)
LEMMA ShiftIs ==
  ASSUME NEW m \in Nat, NEW b \in Buffer(m), NEW a \in Nat, NEW n \in Nat, NEW c \in Nat,
         a + n + c <= m, simple \/ \A x \in a..(a + n + c - 1) : b[x] \in Values
  PROVE  Shift(b, a, n, c) =
           [x \in 0..(m - 1) |-> IF x \in (a + n)..(a + n + c - 1) THEN b[x - n] ELSE b[x]]
<1>1. CASE simple
  <2>1. Shift(b, a, n, c) = MemMove(b, a + n, a, c)
    BY <1>1 DEF Shift
  <2>2. ASSUME NEW x \in 0..(m - 1)
        PROVE  /\ x - (a + n) \in 0..(c - 1) <=> x \in (a + n)..(a + n + c - 1)
               /\ x - (a + n) \in 0..(c - 1) => Cell(b, x - (a + n) + a) = b[x - n]
    BY DEF Buffer, Cell
  <2> QED
    BY <2>1, <2>2 DEF MemMove, Buffer
<1>2. CASE ~simple
  <2>1. a + n + c - c = a + n
    OBVIOUS
  <2> QED
    BY <1>2, <2>1, ShiftLoop
<1> QED
  BY <1>1, <1>2

(* The same, whether simple types are moved as bytes or not.               *)
LEMMA CloseIs ==
  ASSUME NEW m \in Nat, NEW b \in Buffer(m), NEW a \in Nat, NEW n \in Nat, NEW c \in Nat,
         a + n + c <= m, simple \/ \A x \in a..(a + n + c - 1) : b[x] \in Values
  PROVE  Close(b, a, n, c) =
           [x \in 0..(m - 1) |-> IF x \in a..(a + c - 1) THEN b[x + n] ELSE b[x]]
<1>1. CASE simple
  <2>1. Close(b, a, n, c) = MemMove(b, a, a + n, c)
    BY <1>1 DEF Close
  <2>2. ASSUME NEW x \in 0..(m - 1)
        PROVE  /\ x - a \in 0..(c - 1) <=> x \in a..(a + c - 1)
               /\ x - a \in 0..(c - 1) => Cell(b, x - a + (a + n)) = b[x + n]
    BY DEF Buffer, Cell
  <2> QED
    BY <2>1, <2>2 DEF MemMove, Buffer
<1>2. CASE ~simple
  BY <1>2, CloseLoop
<1> QED
  BY <1>1, <1>2

-----------------------------------------------------------------------------
(* The vector that holds the values of a sequence c and has room for r.    *)
Held(c, r)    == [x \in 0..(r - 1) |-> IF x < Len(c) THEN c[x + 1] ELSE Raw]
Holding(c, r) == [sze |-> Len(c), res |-> r, buf |-> Held(c, r), lost |-> FALSE]

Fits(c, r) ==
  /\ c \in Seq(Values) /\ Len(c) <= MaxSize
  /\ r \in 0..(2^Width - 1) /\ Len(c) <= r

(* What every operation keeps.                                             *)
VecInv ==
  /\ simple \in BOOLEAN
  /\ \E c \in Seq(Values), r \in Nat : Fits(c, r) /\ vec = Holding(c, r)

(* Its cells are as they should be.                                        *)
LEMMA HeldIn ==
  ASSUME NEW c, NEW r, Fits(c, r)
  PROVE  /\ r \in Nat /\ Len(c) \in 0..r /\ c \in [1..Len(c) -> Values]
         /\ Held(c, r) \in Buffer(r) /\ \A x \in 0..(Len(c) - 1) : Held(c, r)[x] \in Values
<1>1. 2^Width \in Nat
  BY MaxSizeFits
<1>2. r \in Nat /\ Len(c) \in 0..r /\ c \in [1..Len(c) -> Values]
  BY <1>1 DEF Fits
<1>3. \A x \in 0..(Len(c) - 1) : Held(c, r)[x] \in Values
  BY <1>2 DEF Held
<1>4. Held(c, r) \in Buffer(r)
  BY <1>2 DEF Held, Buffer, Cells
<1> QED
  BY <1>2, <1>3, <1>4

(* It holds c.                                                             *)
LEMMA ContentsAre ==
  ASSUME NEW c, NEW r, Fits(c, r)
  PROVE  Contents(Holding(c, r)) = c
<1>1. r \in Nat /\ Len(c) \in 0..r /\ c \in [1..Len(c) -> Values]
  BY HeldIn
<1>2. Contents(Holding(c, r)) = [i \in 1..Len(c) |-> Cell(Held(c, r), i - 1)]
  BY DEF Contents, Holding
<1>3. ASSUME NEW i \in 1..Len(c) PROVE Cell(Held(c, r), i - 1) = c[i]
  <2>1. i - 1 \in 0..(r - 1) /\ i - 1 < Len(c) /\ i - 1 + 1 = i
    BY <1>1
  <2> QED
    BY <2>1 DEF Cell, Held
<1> QED
  BY <1>1, <1>2, <1>3

(* Freeing its buffer after destruct loses no object.                      *)
LEMMA LosesNone ==
  ASSUME NEW c, NEW r, Fits(c, r)
  PROVE  ~Loses(Holding(c, r))
<1>1. /\ r \in Nat /\ Len(c) \in 0..r
      /\ Held(c, r) \in Buffer(r) /\ \A x \in 0..(Len(c) - 1) : Held(c, r)[x] \in Values
  BY HeldIn
<1>2. /\ Len(c) \in Nat /\ 0 + Len(c) <= r /\ 0 + Len(c) - 1 = Len(c) - 1
      /\ \A x \in 0..(0 + Len(c) - 1) : Held(c, r)[x] \in Values
  BY <1>1
<1>3. Destruct(Held(c, r), 0, Len(c)) =
        [x \in 0..(r - 1) |-> IF x \in 0..(0 + Len(c) - 1) THEN Raw ELSE Held(c, r)[x]]
  BY <1>1, <1>2, DestructIs
<1>4. \A x \in 0..(r - 1) : Destruct(Held(c, r), 0, Len(c))[x] = Raw
  BY <1>1, <1>3 DEF Held
<1>5. DOMAIN Held(c, r) = 0..(r - 1)
  BY DEF Held
<1> QED
  BY <1>4, <1>5 DEF Loses, Holding

(* A copy of its elements is a buffer that holds them.                     *)
LEMMA CopiedHolds ==
  ASSUME NEW c \in Seq(Values), NEW r \in Nat, Len(c) <= r
  PROVE  Copied(r, c) = Held(c, r)
BY CopiedIs DEF Held

(* So moving it to a larger buffer changes nothing else.                   *)
LEMMA MovedIs ==
  ASSUME NEW c, NEW r, Fits(c, r), NEW n \in Nat, Len(c) <= n
  PROVE  Moved(Holding(c, r), n) = Holding(c, n)
<1>1. Copied(n, Contents(Holding(c, r))) = Held(c, n)
  BY ContentsAre, CopiedHolds DEF Fits
<1> DEFINE v == Holding(c, r)
<1>2. (v.lost \/ Loses(v)) = FALSE
  BY LosesNone DEF Holding
<1>3. v.sze = Len(c) /\ DOMAIN v = {"sze", "res", "buf", "lost"}
  BY DEF Holding
<1>4. Moved(v, n) = [[[v EXCEPT !.res = n] EXCEPT !.buf = Held(c, n)] EXCEPT !.lost = FALSE]
  BY <1>1, <1>2, <1>3 DEF Moved
<1> QED
  BY <1>4 DEF Holding

(* reserve keeps the values and makes room.                                *)
LEMMA ReserveIs ==
  ASSUME NEW c, NEW r, Fits(c, r), NEW n \in 0..MaxSize
  PROVE  \E q \in Nat : Fits(c, q) /\ n <= q /\ Reserve(Holding(c, r), n) = Holding(c, q)
<1>1. r \in Nat /\ Len(c) \in 0..r
  BY HeldIn
<1>2. CASE n <= r
  BY <1>1, <1>2 DEF Reserve, Holding
<1>3. CASE ~(n <= r)
  <2>1. n \in 1..MaxSize /\ Len(c) <= n
    BY <1>1, <1>3, MaxSizeFits
  <2>2. GoodSize(n) \in (n + 1)..(2^Width - 1)
    BY <2>1, GoodSizeFits
  <2>3. /\ GoodSize(n) \in Nat /\ n <= GoodSize(n) /\ Len(c) <= GoodSize(n)
        /\ GoodSize(n) \in 0..(2^Width - 1)
    BY <1>1, <2>1, <2>2, MaxSizeFits
  <2>4. Reserve(Holding(c, r), n) = Moved(Holding(c, r), GoodSize(n))
    BY <1>3 DEF Reserve, Holding
  <2> QED
    BY <2>3, <2>4, MovedIs DEF Fits
<1> QED
  BY <1>2, <1>3

-----------------------------------------------------------------------------
(* A sequence without its elements behind first and up to last.            *)
Cut(c, first, last) == SubSeq(c, 1, first) \o SubSeq(c, last + 1, Len(c))

(* The elements of Cut ...                                                 *)
LEMMA CutIs ==
  ASSUME NEW c \in Seq(Values), NEW first \in 0..Len(c), NEW last \in first..Len(c)
  PROVE  /\ Cut(c, first, last) \in Seq(Values)
         /\ Len(Cut(c, first, last)) = Len(c) - (last - first)
         /\ \A i \in 1..(Len(c) - (last - first)) :
              Cut(c, first, last)[i] = IF i <= first THEN c[i] ELSE c[i + (last - first)]
<1> DEFINE d == SubSeq(c, 1, first)
           e == SubSeq(c, last + 1, Len(c))
<1>1. Len(c) \in Nat /\ first \in Nat /\ last \in Nat
  OBVIOUS
<1>2. d \in Seq(Values) /\ Len(d) = first /\ \A i \in 1..first : d[i] = c[i]
  BY <1>1
<1>3. /\ e \in Seq(Values) /\ Len(e) = Len(c) - last
      /\ \A i \in 1..(Len(c) - last) : e[i] = c[i + last]
  BY <1>1
<1> HIDE DEF d, e
<1>4. /\ d \o e \in Seq(Values) /\ Len(d \o e) = Len(d) + Len(e)
      /\ \A i \in 1..(Len(d) + Len(e)) : (d \o e)[i] = IF i <= Len(d) THEN d[i] ELSE e[i - Len(d)]
  BY <1>2, <1>3, ConcatProperties
<1>5. ASSUME NEW i \in 1..(Len(c) - (last - first))
      PROVE  (d \o e)[i] = IF i <= first THEN c[i] ELSE c[i + (last - first)]
  <2>1. i \in 1..(Len(d) + Len(e))
    BY <1>1, <1>2, <1>3
  <2>2. CASE i <= first
    BY <1>1, <1>2, <1>4, <2>1, <2>2
  <2>3. CASE ~(i <= first)
    <3>1. i - first \in 1..(Len(c) - last) /\ i - first + last = i + (last - first)
      BY <1>1, <2>3
    <3> QED
      BY <1>2, <1>3, <1>4, <2>1, <2>3, <3>1
  <2> QED
    BY <2>2, <2>3
<1>6. Cut(c, first, last) = d \o e
  BY Zenon DEF Cut, d, e
<1>7. Len(d) + Len(e) = Len(c) - (last - first)
  BY <1>1, <1>2, <1>3
<1> QED
  BY <1>4, <1>5, <1>6, <1>7

(* ... and of Splice.                                                      *)
LEMMA SpliceIs ==
  ASSUME NEW c \in Seq(Values), NEW pos \in 0..Len(c), NEW s \in Seq(Values)
  PROVE  /\ Splice(c, pos, s) \in Seq(Values)
         /\ Len(Splice(c, pos, s)) = Len(c) + Len(s)
         /\ \A i \in 1..(Len(c) + Len(s)) :
              Splice(c, pos, s)[i] = IF i <= pos          THEN c[i]
                                     ELSE IF i <= pos + Len(s) THEN s[i - pos]
                                     ELSE c[i - Len(s)]
<1> DEFINE d == SubSeq(c, 1, pos)
           e == SubSeq(c, pos + 1, Len(c))
           f == d \o s
<1>1. Len(c) \in Nat /\ pos \in Nat /\ Len(s) \in Nat
  OBVIOUS
<1>2. d \in Seq(Values) /\ Len(d) = pos /\ \A i \in 1..pos : d[i] = c[i]
  BY <1>1
<1>3. e \in Seq(Values) /\ Len(e) = Len(c) - pos /\ \A i \in 1..(Len(c) - pos) : e[i] = c[i + pos]
  BY <1>1
<1> HIDE DEF d, e
<1>4. /\ f \in Seq(Values) /\ Len(f) = pos + Len(s)
      /\ \A i \in 1..(pos + Len(s)) : f[i] = IF i <= pos THEN c[i] ELSE s[i - pos]
  <2>1. /\ f \in Seq(Values) /\ Len(f) = Len(d) + Len(s)
        /\ \A i \in 1..(Len(d) + Len(s)) : f[i] = IF i <= Len(d) THEN d[i] ELSE s[i - Len(d)]
    BY <1>2, ConcatProperties
  <2> HIDE DEF f
  <2>2. ASSUME NEW i \in 1..(pos + Len(s)), i <= pos PROVE i \in 1..pos
    BY <1>1, <2>2
  <2> QED
    BY <1>2, <2>1, <2>2
<1> HIDE DEF f
<1>5. /\ f \o e \in Seq(Values) /\ Len(f \o e) = Len(f) + Len(e)
      /\ \A i \in 1..(Len(f) + Len(e)) : (f \o e)[i] = IF i <= Len(f) THEN f[i] ELSE e[i - Len(f)]
  BY <1>3, <1>4, ConcatProperties
<1>6. ASSUME NEW i \in 1..(Len(c) + Len(s))
      PROVE  (f \o e)[i] = IF i <= pos          THEN c[i]
                           ELSE IF i <= pos + Len(s) THEN s[i - pos]
                           ELSE c[i - Len(s)]
  <2>1. i \in 1..(Len(f) + Len(e))
    BY <1>1, <1>3, <1>4
  <2>2. CASE i <= pos + Len(s)
    <3>1. i \in 1..(pos + Len(s)) /\ (f \o e)[i] = f[i]
      BY <1>1, <1>4, <1>5, <2>1, <2>2
    <3> QED
      BY <1>4, <2>2, <3>1
  <2>3. CASE ~(i <= pos + Len(s))
    <3>1. /\ i - (pos + Len(s)) \in 1..(Len(c) - pos) /\ i - (pos + Len(s)) + pos = i - Len(s)
          /\ ~(i <= pos)
      BY <1>1, <2>3
    <3> QED
      BY <1>3, <1>4, <1>5, <2>1, <2>3, <3>1
  <2> QED
    BY <2>2, <2>3
<1>7. Splice(c, pos, s) = f \o e
  BY Zenon DEF Splice, d, e, f
<1>8. Len(f) + Len(e) = Len(c) + Len(s)
  BY <1>1, <1>3, <1>4
<1> QED
  BY <1>5, <1>6, <1>7, <1>8

(* Sequences are equal that have one length and the same elements.         *)
LEMMA SameSeq ==
  ASSUME NEW c \in Seq(Values), NEW d \in Seq(Values), Len(c) = Len(d),
         \A i \in 1..Len(c) : c[i] = d[i]
  PROVE  c = d
OBVIOUS

(* insert puts the values where they should be, into the old buffer or     *)
(* into a larger one.                                                      *)
LEMMA InsertIs ==
  ASSUME NEW c, NEW r, Fits(c, r), NEW pos \in 0..Len(c), NEW s \in Seq(Values),
         Len(c) + Len(s) <= MaxSize
  PROVE  \E q \in Nat : /\ Fits(Splice(c, pos, s), q)
                        /\ Insert(Holding(c, r), pos, s) = Holding(Splice(c, pos, s), q)
<1> DEFINE n == Len(s)
           size == Len(c) + n
           t == Splice(c, pos, s)
<1>1. /\ r \in Nat /\ Len(c) \in 0..r /\ c \in Seq(Values) /\ c \in [1..Len(c) -> Values]
      /\ n \in Nat /\ size \in 0..MaxSize /\ pos \in Nat /\ MaxSize \in Nat
      /\ s \in [1..n -> Values]
  BY HeldIn, MaxSizeFits DEF Fits
<1>2. Wrap(size) = size
  BY <1>1, WrapSame
<1>3. PICK q \in Nat : Fits(c, q) /\ size <= q /\ Reserve(Holding(c, r), size) = Holding(c, q)
  BY <1>1, ReserveIs
<1>4. (IF size > r THEN Moved(Holding(c, r), GoodSize(size)) ELSE Holding(c, r)) = Holding(c, q)
  BY <1>1, <1>3 DEF Reserve, Holding
<1> DEFINE b1 == Construct(Held(c, q), Len(c), n)
           b2 == Shift(b1, pos, n, Len(c) - pos)
           b3 == Assigned(b2, pos, s)
<1>5. Insert(Holding(c, r), pos, s) = [[Holding(c, q) EXCEPT !.buf = b3] EXCEPT !.sze = size]
  <2> DEFINE v == Holding(c, r)
             w == Holding(c, q)
  <2>1. /\ v.sze = Len(c) /\ v.res = r /\ w.buf = Held(c, q)
        /\ DOMAIN w = {"sze", "res", "buf", "lost"}
    BY DEF Holding
  <2> HIDE DEF v, w
  <2>2. Ins(v, pos, n) = [[w EXCEPT !.buf = b2] EXCEPT !.sze = size]
    BY <1>2, <1>4, <2>1 DEF Ins, v, w
  <2> HIDE DEF b2
  <2>3. Insert(v, pos, s) = [Ins(v, pos, n) EXCEPT !.buf = b3]
    BY <2>1, <2>2 DEF Insert
  <2> HIDE DEF b3
  <2> QED
    BY <2>1, <2>2, <2>3 DEF v, w
<1>6. /\ Len(c) \in Nat /\ n \in Nat /\ n = Len(s) /\ size = Len(c) + n /\ size \in Nat
      /\ size <= q /\ Len(c) <= q
  BY <1>1, <1>3
<1> HIDE DEF n, size
<1>7. /\ b1 \in Buffer(q)
      /\ \A x \in 0..(q - 1) : IF x < Len(c) THEN b1[x] = c[x + 1]
                               ELSE IF ~simple /\ x < size THEN b1[x] \in Values ELSE b1[x] = Raw
  <2>1. Held(c, q) \in Buffer(q)
    BY <1>3, HeldIn
  <2>2. CASE simple
    BY <1>1, <2>1, <2>2 DEF Construct, Held
  <2>3. CASE ~simple
    <3>1. b1 = [x \in 0..(q - 1) |->
                  IF x \in Len(c)..(Len(c) + n - 1) THEN Default ELSE Held(c, q)[x]]
      <4>1. Len(c) \in Nat /\ n \in Int /\ \A x \in Len(c)..(Len(c) + n - 1) : Held(c, q)[x] = Raw
        BY <1>1, <1>6 DEF Held
      <4>2. Len(c) + n <= q
        BY <1>6
      <4> QED
        BY <2>1, <2>3, <4>1, <4>2, ConstructIs
    <3>2. \A x \in 0..(q - 1) : b1[x] = IF x \in Len(c)..(size - 1) THEN Default ELSE Held(c, q)[x]
      BY <3>1
    <3>3. b1 \in Buffer(q)
      BY <2>1, <3>1, VecAssumption DEF Buffer, Cells
    <3> HIDE DEF b1
    <3> QED
      BY <1>1, <2>3, <3>2, <3>3, VecAssumption DEF Held
  <2> QED
    BY <2>2, <2>3
<1> HIDE DEF b1
<1>8. b2 = [x \in 0..(q - 1) |-> IF x \in (pos + n)..(size - 1) THEN b1[x - n] ELSE b1[x]]
  <2>1. /\ Len(c) - pos \in Nat /\ pos + n + (Len(c) - pos) = size
        /\ pos + n + (Len(c) - pos) - 1 = size - 1
    BY <1>1, <1>6
  <2>2. ASSUME ~simple, NEW x \in pos..(pos + n + (Len(c) - pos) - 1) PROVE b1[x] \in Values
    <3>1. x \in 0..(q - 1) /\ x < size
      BY <1>1, <1>6, <2>1
    <3>2. x < Len(c) => x + 1 \in 1..Len(c)
      BY <1>6, <3>1
    <3> QED
      BY <1>1, <1>7, <2>2, <3>1, <3>2
  <2>3. b2 = [x \in 0..(q - 1) |->
                IF x \in (pos + n)..(pos + n + (Len(c) - pos) - 1) THEN b1[x - n] ELSE b1[x]]
    <3>1. pos \in Nat /\ n \in Nat /\ pos + n + (Len(c) - pos) <= q
      BY <1>1, <1>6, <2>1
    <3> DEFINE k == Len(c) - pos
    <3>2. k \in Nat
      BY <2>1
    <3>3. pos + n + k <= q /\ (simple \/ \A x \in pos..(pos + n + k - 1) : b1[x] \in Values)
      BY <2>2, <3>1
    <3> HIDE DEF k
    <3>4. b1 \in Buffer(q)
      BY <1>7
    <3>5. Shift(b1, pos, n, k) =
            [x \in 0..(q - 1) |-> IF x \in (pos + n)..(pos + n + k - 1) THEN b1[x - n] ELSE b1[x]]
      BY <3>1, <3>2, <3>3, <3>4, ShiftIs, SMTT(20)
    <3> QED
      BY <3>5 DEF k
  <2> HIDE DEF b2
  <2> QED
    BY <2>1, <2>3
<1> HIDE DEF b2
<1>9. b3 = [x \in 0..(q - 1) |-> IF x \in pos..(pos + n - 1) THEN s[x - pos + 1] ELSE b2[x]]
  <2>1. b2 \in Buffer(q)
    BY <1>1, <1>6, <1>7, <1>8 DEF Buffer
  <2>2. ASSUME ~simple, NEW x \in pos..(pos + n - 1) PROVE b2[x] \in Values
    <3>1. x \in 0..(q - 1) /\ x < size
      BY <1>1, <1>6
    <3>2. b2[x] = b1[x]
      BY <1>6, <1>8, <3>1
    <3> QED
      BY <1>1, <1>6, <1>7, <2>2, <3>1, <3>2
  <2>3. /\ q \in Nat /\ pos \in Nat /\ n \in Nat /\ pos + n <= q
        /\ s \in [1..n -> Values] /\ Len(s) = n
        /\ simple \/ \A x \in pos..(pos + n - 1) : b2[x] \in Values
    BY <1>1, <1>6, <2>2
  <2> QED
    BY <2>1, <2>3, AssignedIs
<1> HIDE DEF b3
<1>10. /\ t \in Seq(Values) /\ Len(t) = size
       /\ \A i \in 1..size : t[i] = IF i <= pos          THEN c[i]
                                   ELSE IF i <= pos + n THEN s[i - pos]
                                   ELSE c[i - n]
  BY <1>1, SpliceIs DEF n, size
<1> HIDE DEF t
<1>11. b3 = Held(t, q)
  <2>1. ASSUME NEW x \in 0..(q - 1)
        PROVE  b3[x] = IF x < size THEN t[x + 1] ELSE Raw
    <3>1. CASE x < pos
      <4>1. b3[x] = b1[x] /\ x < size /\ x < Len(c) /\ x + 1 \in 1..size /\ x + 1 <= pos
        BY <1>1, <1>6, <1>8, <1>9, <3>1
      <4> QED
        BY <1>7, <1>10, <4>1
    <3>2. CASE x \in pos..(pos + n - 1)
      <4>1. /\ b3[x] = s[x - pos + 1] /\ x < size /\ x + 1 \in 1..size
            /\ ~(x + 1 <= pos) /\ x + 1 <= pos + n /\ x - pos + 1 = x + 1 - pos
        BY <1>1, <1>6, <1>9, <3>2
      <4> QED
        BY <1>10, <4>1
    <3>3. CASE x \in (pos + n)..(size - 1)
      <4> DEFINE i == x + 1
      <4>1. /\ i \in 1..size /\ ~(i <= pos + n) /\ ~(i <= pos) /\ x < size
            /\ x - n \in 0..(q - 1) /\ x - n < Len(c) /\ x - n + 1 = i - n
        BY <1>1, <1>6, <3>3
      <4>2. b3[x] = b1[x - n]
        BY <1>1, <1>6, <1>8, <1>9, <3>3, <4>1
      <4> HIDE DEF i
      <4>3. t[i] = c[i - n]
        BY <1>10, <4>1
      <4>4. b1[x - n] = c[x - n + 1]
        BY <1>7, <4>1
      <4> QED
        BY <4>1, <4>2, <4>3, <4>4 DEF i
    <3>4. CASE x >= size
      <4>1. /\ ~(x < size) /\ ~(x < Len(c)) /\ x \in 0..(q - 1)
            /\ x \notin pos..(pos + n - 1) /\ x \notin (pos + n)..(size - 1)
        BY <1>1, <1>6, <3>4
      <4>2. b3[x] = b2[x]
        BY <1>9, <4>1
      <4>3. b2[x] = b1[x]
        BY <1>1, <1>6, <1>8, <4>1
      <4> QED
        BY <1>7, <4>1, <4>2, <4>3
    <3> QED
      BY <1>1, <1>6, <3>1, <3>2, <3>3, <3>4
  <2> QED
    BY <1>9, <1>10, <2>1 DEF Held
<1>12. Fits(t, q)
  BY <1>1, <1>3, <1>6, <1>10 DEF Fits, size
<1> QED
  BY <1>5, <1>10, <1>11, <1>12 DEF Holding, t

(* The last elements destructed.                                           *)
LEMMA DropIs ==
  ASSUME NEW c, NEW r, Fits(c, r), NEW n \in 0..Len(c)
  PROVE  /\ SubSeq(c, 1, n) \in Seq(Values) /\ Len(SubSeq(c, 1, n)) = n
         /\ \A i \in 1..n : SubSeq(c, 1, n)[i] = c[i]
         /\ Fits(SubSeq(c, 1, n), r)
         /\ Destruct(Held(c, r), n, Len(c) - n) = Held(SubSeq(c, 1, n), r)
<1> DEFINE d == SubSeq(c, 1, n)
           k == Len(c) - n
           H == Held(c, r)
<1>1. /\ r \in Nat /\ Len(c) \in 0..r /\ c \in Seq(Values)
      /\ H \in Buffer(r) /\ \A x \in 0..(Len(c) - 1) : H[x] \in Values
  BY HeldIn DEF Fits
<1>2. d \in Seq(Values) /\ Len(d) = n /\ \A i \in 1..n : d[i] = c[i]
  BY <1>1
<1> HIDE DEF d
<1>3. Fits(d, r)
  BY <1>1, <1>2, MaxSizeFits DEF Fits
<1>4. k \in Nat /\ n \in Nat /\ n + k <= r /\ n + k - 1 = Len(c) - 1
  BY <1>1
<1> HIDE DEF k
<1>5. \A x \in n..(n + k - 1) : H[x] \in Values
  BY <1>1, <1>4
<1>6. H = [x \in 0..(r - 1) |-> IF x < Len(c) THEN c[x + 1] ELSE Raw]
  BY DEF Held
<1> HIDE DEF H
<1>7. Destruct(H, n, k) = [x \in 0..(r - 1) |-> IF x \in n..(n + k - 1) THEN Raw ELSE H[x]]
  BY <1>1, <1>4, <1>5, DestructIs
<1>8. ASSUME NEW x \in 0..(r - 1)
      PROVE  (IF x \in n..(n + k - 1) THEN Raw ELSE H[x]) = IF x < n THEN d[x + 1] ELSE Raw
  BY <1>1, <1>2, <1>4, <1>6
<1>9. Destruct(H, n, k) = Held(d, r)
  BY <1>2, <1>7, <1>8 DEF Held
<1> QED
  BY <1>2, <1>3, <1>9 DEF d, k, H

(* erase closes the gap that it makes.                                     *)
LEMMA EraseIs ==
  ASSUME NEW c, NEW r, Fits(c, r), NEW first \in 0..Len(c), NEW last \in first..Len(c)
  PROVE  /\ Fits(Cut(c, first, last), r)
         /\ Erase(Holding(c, r), first, last) = Holding(Cut(c, first, last), r)
<1> DEFINE n == last - first
           k == Len(c) - last
           m == Len(c) - n
           H == Held(c, r)
           b1 == Close(H, first, n, k)
           b2 == Destruct(b1, m, n)
           t == Cut(c, first, last)
<1>1. /\ r \in Nat /\ Len(c) \in 0..r /\ c \in Seq(Values)
      /\ H \in Buffer(r) /\ \A x \in 0..(Len(c) - 1) : H[x] \in Values
  BY HeldIn DEF Fits
<1>2. /\ t \in Seq(Values) /\ Len(t) = m
      /\ \A i \in 1..m : t[i] = IF i <= first THEN c[i] ELSE c[i + n]
  BY <1>1, CutIs
<1> HIDE DEF t
<1>3. Erase(Holding(c, r), first, last) = [[Holding(c, r) EXCEPT !.sze = m] EXCEPT !.buf = b2]
  <2> DEFINE v == Holding(c, r)
  <2>1. v.sze = Len(c) /\ v.buf = H /\ DOMAIN v = {"sze", "res", "buf", "lost"}
    BY DEF Holding
  <2> HIDE DEF v
  <2>2. Erase(v, first, last) = [[v EXCEPT !.sze = m] EXCEPT !.buf = b2]
    BY <2>1 DEF Erase
  <2> QED
    BY <2>2 DEF v
<1>4. /\ n \in Nat /\ k \in Nat /\ m \in Nat /\ first \in Nat /\ first + n + k <= r
      /\ first + n + k = Len(c) /\ first + k = m /\ m + n = Len(c) /\ m + n <= r
  BY <1>1
<1> HIDE DEF n, k, m
<1>5. \A x \in first..(first + n + k - 1) : H[x] \in Values
  BY <1>1, <1>4
<1>6. H = [x \in 0..(r - 1) |-> IF x < Len(c) THEN c[x + 1] ELSE Raw]
  BY DEF Held
<1> HIDE DEF H
<1>7. b1 = [x \in 0..(r - 1) |-> IF x \in first..(first + k - 1) THEN H[x + n] ELSE H[x]]
  BY <1>1, <1>4, <1>5, CloseIs
<1> HIDE DEF b1
<1>8. b1 \in Buffer(r) /\ \A x \in m..(m + n - 1) : b1[x] \in Values
  BY <1>1, <1>4, <1>7 DEF Buffer
<1>9. b2 = [x \in 0..(r - 1) |-> IF x \in m..(m + n - 1) THEN Raw ELSE b1[x]]
  BY <1>1, <1>4, <1>8, DestructIs
<1> HIDE DEF b2
<1>10. ASSUME NEW x \in 0..(r - 1)
       PROVE  b2[x] = IF x < m THEN t[x + 1] ELSE Raw
  <2>1. CASE x < first
    <3>1. x + 1 \in 1..m /\ x + 1 <= first /\ x < m /\ x < Len(c) /\ b2[x] = H[x]
      BY <1>1, <1>4, <1>7, <1>9, <2>1
    <3> QED
      BY <1>2, <1>6, <3>1
  <2>2. CASE x \in first..(m - 1)
    <3> DEFINE i == x + 1
    <3>1. /\ i \in 1..m /\ ~(i <= first) /\ x < m
          /\ x + n \in 0..(r - 1) /\ x + n < Len(c) /\ x + n + 1 = i + n
      BY <1>1, <1>4, <2>2
    <3>2. b2[x] = H[x + n]
      BY <1>1, <1>4, <1>7, <1>9, <2>2
    <3> HIDE DEF i
    <3>3. t[i] = c[i + n]
      BY <1>2, <3>1
    <3>4. H[x + n] = c[x + n + 1]
      BY <1>6, <3>1
    <3> QED
      BY <3>1, <3>2, <3>3, <3>4 DEF i
  <2>3. CASE x \in m..(Len(c) - 1)
    BY <1>1, <1>4, <1>9, <2>3
  <2>4. CASE x >= Len(c)
    BY <1>1, <1>4, <1>6, <1>7, <1>9, <2>4
  <2> QED
    BY <1>1, <1>4, <2>1, <2>2, <2>3, <2>4
<1>11. b2 = Held(t, r)
  BY <1>2, <1>9, <1>10 DEF Held
<1>12. Fits(t, r)
  BY <1>1, <1>2, <1>4, MaxSizeFits DEF Fits
<1> QED
  BY <1>2, <1>3, <1>11, <1>12 DEF Holding, t

(* erase of one element; of the end, which find returns, it does nothing.  *)
LEMMA EraseOneIs ==
  ASSUME NEW c, NEW r, Fits(c, r), NEW pos \in 0..Len(c)
  PROVE  /\ pos = Len(c) => EraseOne(Holding(c, r), pos) = Holding(c, r)
         /\ pos # Len(c) => /\ Fits(Cut(c, pos, pos + 1), r)
                            /\ EraseOne(Holding(c, r), pos) = Holding(Cut(c, pos, pos + 1), r)
<1>1. Holding(c, r).sze = Len(c)
  BY DEF Holding
<1>2. CASE pos = Len(c)
  BY <1>1, <1>2 DEF EraseOne
<1>3. CASE pos # Len(c)
  <2>1. pos + 1 \in pos..Len(c)
    BY <1>3, HeldIn
  <2> QED
    BY <1>1, <1>3, <2>1, EraseIs DEF EraseOne
<1> QED
  BY <1>2, <1>3

(* push_back appends.                                                      *)
LEMMA PushBackIs ==
  ASSUME NEW c, NEW r, Fits(c, r), NEW t \in Values, Len(c) < MaxSize
  PROVE  \E q \in Nat : /\ Fits(Append(c, t), q)
                        /\ PushBack(Holding(c, r), t) = Holding(Append(c, t), q)
<1> DEFINE d == Append(c, t)
           size == Len(c) + 1
<1>1. /\ r \in Nat /\ Len(c) \in 0..r /\ c \in Seq(Values) /\ MaxSize \in Nat
      /\ size \in 1..MaxSize
  BY HeldIn, MaxSizeFits DEF Fits
<1>2. Wrap(size) = size
  BY <1>1, WrapSame
<1>3. PICK q \in Nat : Fits(c, q) /\ size <= q /\ Reserve(Holding(c, r), size) = Holding(c, q)
  BY <1>1, ReserveIs
<1>4. /\ d \in Seq(Values) /\ Len(d) = size
      /\ \A i \in 1..size : d[i] = IF i <= Len(c) THEN c[i] ELSE t
  BY <1>1
<1> HIDE DEF d
<1>5. PushBack(Holding(c, r), t) =
        [[Holding(c, q) EXCEPT !.buf = CopNew(Held(c, q), Len(c), t)] EXCEPT !.sze = size]
  <2> DEFINE v == Holding(c, r)
             w == Holding(c, q)
  <2>1. /\ v.sze = Len(c) /\ w.sze = Len(c) /\ w.buf = Held(c, q)
        /\ DOMAIN w = {"sze", "res", "buf", "lost"}
    BY DEF Holding
  <2>2. Reserve(v, Wrap(v.sze + 1)) = w
    BY <1>2, <1>3, <2>1
  <2> HIDE DEF v, w
  <2>3. PushBack(v, t) = [[w EXCEPT !.buf = CopNew(Held(c, q), Len(c), t)] EXCEPT !.sze = size]
    BY <1>2, <2>1, <2>2 DEF PushBack
  <2> QED
    BY <2>3 DEF v, w
<1>6. Held(c, q)[Len(c)] = Raw /\ Len(c) \in 0..(q - 1)
  BY <1>1, <1>3 DEF Held
<1>7. CopNew(Held(c, q), Len(c), t) = [Held(c, q) EXCEPT ![Len(c)] = t]
  BY <1>6, VecAssumption DEF CopNew
<1>8. \A x \in 0..(q - 1) : Held(d, q)[x] = IF x = Len(c) THEN t ELSE Held(c, q)[x]
  BY <1>1, <1>4 DEF Held
<1>9. Fits(d, q)
  BY <1>1, <1>3, <1>4 DEF Fits
<1>10. Held(c, q) \in Buffer(q) /\ Held(d, q) \in Buffer(q)
  BY <1>3, <1>9, HeldIn
<1>11. Held(d, q) = [Held(c, q) EXCEPT ![Len(c)] = t]
  BY <1>6, <1>8, <1>10, StoreIs DEF Buffer
<1>12. PushBack(Holding(c, r), t) = Holding(d, q)
  BY <1>4, <1>5, <1>7, <1>11 DEF Holding
<1> QED
  BY <1>9, <1>12 DEF d

(* pop_back takes away the last value.                                     *)
LEMMA PopBackIs ==
  ASSUME NEW c, NEW r, Fits(c, r), Len(c) > 0
  PROVE  /\ Fits(SubSeq(c, 1, Len(c) - 1), r)
         /\ PopBack(Holding(c, r)) = Holding(SubSeq(c, 1, Len(c) - 1), r)
<1> DEFINE n == Len(c) - 1
           d == SubSeq(c, 1, n)
<1>1. n \in 0..Len(c) /\ Len(c) - n = 1
  BY HeldIn
<1>2. Len(d) = n /\ Fits(d, r) /\ Destruct(Held(c, r), n, Len(c) - n) = Held(d, r)
  BY <1>1, DropIs
<1> HIDE DEF d
<1>3. PopBack(Holding(c, r)) = [[Holding(c, r) EXCEPT !.buf = Held(d, r)] EXCEPT !.sze = n]
  <2> DEFINE v == Holding(c, r)
  <2>1. v.sze = Len(c) /\ v.buf = Held(c, r) /\ DOMAIN v = {"sze", "res", "buf", "lost"}
    BY DEF Holding
  <2> HIDE DEF v
  <2>2. PopBack(v) = [[v EXCEPT !.buf = Held(d, r)] EXCEPT !.sze = n]
    BY <1>1, <1>2, <2>1 DEF PopBack
  <2> QED
    BY <2>2 DEF v
<1>4. PopBack(Holding(c, r)) = Holding(d, r)
  BY <1>2, <1>3 DEF Holding
<1> QED
  BY <1>2, <1>4 DEF d

(* clear takes away all.                                                   *)
LEMMA ClearIs ==
  ASSUME NEW c, NEW r, Fits(c, r)
  PROVE  Fits(<<>>, r) /\ Clear(Holding(c, r)) = Holding(<<>>, r)
<1>1. 0 \in 0..Len(c) /\ Len(c) - 0 = Len(c) /\ c \in Seq(Values)
  BY HeldIn DEF Fits
<1>2. SubSeq(c, 1, 0) = <<>>
  BY <1>1, SubSeqEmpty
<1>3. Fits(<<>>, r) /\ Destruct(Held(c, r), 0, Len(c)) = Held(<<>>, r)
  BY <1>1, <1>2, DropIs
<1>4. Clear(Holding(c, r)) = [[Holding(c, r) EXCEPT !.buf = Held(<<>>, r)] EXCEPT !.sze = 0]
  <2> DEFINE v == Holding(c, r)
  <2>1. v.sze = Len(c) /\ v.buf = Held(c, r) /\ DOMAIN v = {"sze", "res", "buf", "lost"}
    BY DEF Holding
  <2> HIDE DEF v
  <2>2. Clear(v) = [[v EXCEPT !.buf = Held(<<>>, r)] EXCEPT !.sze = 0]
    BY <1>3, <2>1 DEF Clear
  <2> QED
    BY <2>2 DEF v
<1> QED
  BY <1>3, <1>4 DEF Holding

(* resize keeps the first values; the others are new.                      *)
LEMMA ResizeIs ==
  ASSUME NEW c, NEW r, Fits(c, r), NEW n \in 0..MaxSize, NEW t \in Values
  PROVE  \E d \in Seq(Values), q \in Nat :
           Fits(d, q) /\ Resize(Holding(c, r), n, t) = Holding(d, q)
<1> DEFINE old == Len(c)
           new == IF simple THEN t ELSE Default
           d == [i \in 1..n |-> IF i <= old THEN c[i] ELSE new]
<1>1. /\ r \in Nat /\ old \in 0..r /\ MaxSize \in Nat
      /\ c \in Seq(Values) /\ c \in [1..old -> Values]
  BY HeldIn, MaxSizeFits DEF Fits
<1>2. PICK q \in Nat : Fits(c, q) /\ n <= q /\ Reserve(Holding(c, r), n) = Holding(c, q)
  BY ReserveIs
<1>3. q \in 0..(2^Width - 1) /\ old <= q /\ Held(c, q) \in Buffer(q) /\ n \in Nat
  BY <1>1, <1>2, HeldIn DEF Fits
<1>4. d \in Seq(Values) /\ Len(d) = n /\ \A i \in 1..n : d[i] = IF i <= old THEN c[i] ELSE new
  <2>1. d \in [1..n -> Values]
    BY <1>1, VecAssumption
  <2> QED
    BY <1>3, <2>1
<1> DEFINE keep == IF n < old THEN Destruct(Held(c, q), n, old - n) ELSE Held(c, q)
           b == IF simple
                THEN [a \in DOMAIN keep |-> IF a \in old..(n - 1) THEN t ELSE keep[a]]
                ELSE Construct(keep, old, n - old)
<1>5. keep = [x \in 0..(q - 1) |-> IF x < n /\ x < old THEN c[x + 1] ELSE Raw]
  <2>1. CASE n < old
    <3> DEFINE e == SubSeq(c, 1, n)
    <3>1. n \in 0..Len(c)
      BY <1>1, <1>3, <2>1
    <3>2. Len(e) = n /\ Held(e, q) = keep /\ \A i \in 1..n : e[i] = c[i]
      BY <1>2, <2>1, <3>1, DropIs
    <3> HIDE DEF e, keep
    <3>3. \A x \in 0..(q - 1) : x < n => x + 1 \in 1..n /\ x < old
      BY <1>1, <1>3, <2>1
    <3> QED
      BY <3>2, <3>3 DEF Held
  <2>2. CASE ~(n < old)
    <3>1. \A x \in 0..(q - 1) : x < old => x < n
      BY <1>1, <1>3, <2>2
    <3> QED
      BY <2>2, <3>1 DEF Held
  <2> QED
    BY <2>1, <2>2
<1>6. Resize(Holding(c, r), n, t) = [[Holding(c, q) EXCEPT !.sze = n] EXCEPT !.buf = b]
  <2> DEFINE v == Holding(c, r)
             w == Holding(c, q)
  <2>1. /\ v.sze = old /\ w.buf = Held(c, q) /\ Reserve(v, n) = w
        /\ DOMAIN w = {"sze", "res", "buf", "lost"}
    BY <1>2 DEF Holding
  <2> HIDE DEF v, w
  <2>2. Resize(v, n, t) = [[w EXCEPT !.sze = n] EXCEPT !.buf = b]
    BY <2>1 DEF Resize
  <2> QED
    BY <2>2 DEF v, w
<1> HIDE DEF keep, old, d
<1>7. b = [x \in 0..(q - 1) |-> IF x < n THEN IF x < old THEN c[x + 1] ELSE new ELSE Raw]
  <2>1. CASE simple
    BY <1>1, <1>3, <1>5, <2>1
  <2>2. CASE ~simple
    <3>1. /\ keep \in Buffer(q) /\ old \in Nat /\ n - old \in Int /\ old + (n - old) <= q
          /\ old + (n - old) - 1 = n - 1 /\ \A x \in old..(old + (n - old) - 1) : keep[x] = Raw
      <4>1. keep \in Buffer(q)
        <5>1. \A x \in 0..(q - 1) : x < old => x + 1 \in 1..old
          BY <1>1
        <5> QED
          BY <1>1, <1>5, <5>1 DEF Buffer, Cells
      <4> QED
        BY <1>1, <1>2, <1>3, <1>5, <4>1
    <3>2. Construct(keep, old, n - old) =
            [x \in 0..(q - 1) |-> IF x \in old..(old + (n - old) - 1) THEN Default ELSE keep[x]]
      BY <2>2, <3>1, ConstructIs
    <3>3. b = Construct(keep, old, n - old)
      BY <2>2
    <3>4. \A x \in 0..(q - 1) :
            /\ keep[x] = IF x < n /\ x < old THEN c[x + 1] ELSE Raw
            /\ x \in old..(old + (n - old) - 1) <=> x < n /\ ~(x < old)
      BY <1>1, <1>3, <1>5
    <3>5. new = Default
      BY <2>2
    <3> HIDE DEF b, new
    <3> QED
      BY <3>2, <3>3, <3>4, <3>5
  <2> QED
    BY <2>1, <2>2
<1> HIDE DEF b
<1>8. b = Held(d, q)
  <2>1. \A x \in 0..(q - 1) : x < n => x + 1 \in 1..n /\ (x + 1 <= old <=> x < old)
    BY <1>1, <1>3
  <2>2. ASSUME NEW x \in 0..(q - 1), x < n PROVE d[x + 1] = IF x < old THEN c[x + 1] ELSE new
    BY <1>4, <2>1, <2>2
  <2> HIDE DEF new
  <2> QED
    BY <1>4, <1>7, <2>2 DEF Held
<1>9. Fits(d, q)
  BY <1>1, <1>2, <1>3, <1>4 DEF Fits
<1>10. Resize(Holding(c, r), n, t) = Holding(d, q)
  BY <1>4, <1>6, <1>8 DEF Holding
<1> QED
  BY <1>4, <1>9, <1>10

(* assign holds the new values and frees a buffer without objects.         *)
LEMMA AssignIs ==
  ASSUME NEW c, NEW r, Fits(c, r), NEW s \in Seq(Values), Len(s) <= MaxSize
  PROVE  Fits(s, Len(s)) /\ Assign(Holding(c, r), s) = Holding(s, Len(s))
<1>1. Len(s) \in Nat /\ Len(s) <= Len(s) /\ Len(s) \in 0..(2^Width - 1)
  BY MaxSizeFits
<1>2. Copied(Len(s), s) = Held(s, Len(s))
  BY <1>1, CopiedHolds
<1> DEFINE v == Holding(c, r)
<1>3. (v.lost \/ Loses(v)) = FALSE
  BY LosesNone DEF Holding
<1>4. Assign(v, s) = [Vector(s) EXCEPT !.lost = FALSE]
  BY <1>3 DEF Assign
<1>5. Assign(v, s) = Holding(s, Len(s))
  BY <1>2, <1>4 DEF Vector, Holding
<1> QED
  BY <1>1, <1>5 DEF Fits

(* Assigning an element changes its value.                                 *)
LEMMA StoreHolds ==
  ASSUME NEW c, NEW r, Fits(c, r), NEW i \in 0..(Len(c) - 1), NEW t \in Values
  PROVE  \E d \in Seq(Values) :
           Fits(d, r) /\ CopSet(Held(c, r), i, t) = Held(d, r) /\ Len(d) = Len(c)
<1> DEFINE d == [c EXCEPT ![i + 1] = t]
<1>1. /\ r \in Nat /\ Len(c) \in 0..r /\ c \in Seq(Values)
      /\ Held(c, r) \in Buffer(r) /\ Held(c, r)[i] \in Values
  BY HeldIn DEF Fits
<1>2. /\ d \in Seq(Values) /\ Len(d) = Len(c) /\ i + 1 \in 1..Len(c)
      /\ \A j \in 1..Len(c) : d[j] = IF j = i + 1 THEN t ELSE c[j]
  BY <1>1
<1> HIDE DEF d
<1>3. Fits(d, r)
  BY <1>2 DEF Fits
<1>4. Held(d, r) \in Buffer(r)
  BY <1>3, HeldIn
<1>5. i \in 0..(r - 1) /\ \A x \in 0..(r - 1) : Held(d, r)[x] = IF x = i THEN t ELSE Held(c, r)[x]
  BY <1>1, <1>2 DEF Held
<1>6. Held(d, r) = [Held(c, r) EXCEPT ![i] = t]
  BY <1>1, <1>4, <1>5, StoreIs DEF Buffer
<1>7. CopSet(Held(c, r), i, t) = [Held(c, r) EXCEPT ![i] = t]
  BY <1>1, VecAssumption DEF CopSet
<1> QED
  BY <1>2, <1>3, <1>6, <1>7

(* find returns the first element that equals t, or the end.               *)
IsFirst(b, n, t, i, j) ==
  /\ j \in i..n /\ (j = n \/ b[j] = t)
  /\ \A k \in i..(j - 1) : b[k] # t

(* There is a first ...                                                    *)
LEMMA OneIsFirst ==
  ASSUME NEW b, NEW n \in Nat, NEW t, NEW i \in 0..n
  PROVE  \E j \in i..n : IsFirst(b, n, t, i, j)
<1> DEFINE S == {j \in i..n : j = n \/ b[j] = t}
<1>1. S \in SUBSET Nat /\ S # {}
  <2>1. n \in S
    OBVIOUS
  <2> QED
    BY <2>1
<1>2. PICK j \in S : \A k \in S : j <= k
  BY <1>1, Least
<1>3. ASSUME NEW k \in i..(j - 1) PROVE b[k] # t
  <2>1. k \in i..n /\ ~(j <= k)
    BY <1>2
  <2> QED
    BY <1>2, <2>1
<1> QED
  BY <1>2, <1>3 DEF IsFirst

(* ... and it is unique.                                                   *)
LEMMA FirstUnique ==
  ASSUME NEW b, NEW n \in Nat, NEW t, NEW i \in 0..n, NEW j, NEW k,
         IsFirst(b, n, t, i, j), IsFirst(b, n, t, i, k)
  PROVE  j = k
<1>1. j \in i..n /\ k \in i..n
  BY DEF IsFirst
<1>2. ASSUME NEW x \in i..n, NEW y \in i..n, IsFirst(b, n, t, i, x), IsFirst(b, n, t, i, y), x < y
      PROVE  FALSE
  <2>1. x \in i..(y - 1) /\ x # n
    BY <1>2
  <2> QED
    BY <1>2, <2>1 DEF IsFirst
<1>3. j < k \/ k < j \/ j = k
  BY <1>1
<1> QED
  BY <1>1, <1>2, <1>3

(* find: the recursion down from the end.                                  *)
LEMMA FindIs ==
  ASSUME NEW c, NEW r, Fits(c, r), NEW t
  PROVE  /\ Find(Holding(c, r), t) \in 0..Len(c)
         /\ Find(Holding(c, r), t) = Len(c) \/ c[Find(Holding(c, r), t) + 1] = t
         /\ \A k \in 1..Find(Holding(c, r), t) : c[k] # t
<1> DEFINE n == Len(c)
           b == Held(c, r)
           Rec(h) == h = [i \in 0..n |-> IF i = n \/ b[i] = t THEN i ELSE h[i + 1]]
           G(i) == CHOOSE j \in i..n : IsFirst(b, n, t, i, j)
           g == [i \in 0..n |-> G(i)]
           f == CHOOSE h : Rec(h)
<1>1. r \in Nat /\ n \in 0..r /\ n \in Nat /\ \A x \in 0..(n - 1) : b[x] = c[x + 1]
  <2>1. r \in Nat /\ n \in 0..r
    BY HeldIn
  <2> HIDE DEF n
  <2>2. ASSUME NEW x \in 0..(n - 1) PROVE b[x] = c[x + 1]
    <3>1. x \in 0..(r - 1) /\ x < n
      BY <2>1
    <3> QED
      BY <3>1 DEF Held, n
  <2> HIDE DEF b
  <2> QED
    BY <2>1, <2>2
<1> HIDE DEF n, b
<1>2. ASSUME NEW i \in 0..n PROVE G(i) \in i..n /\ IsFirst(b, n, t, i, G(i))
  BY <1>1, OneIsFirst
<1> HIDE DEF G
<1>3. ASSUME NEW i \in 0..n PROVE G(i) = IF i = n \/ b[i] = t THEN i ELSE g[i + 1]
  <2>1. CASE i = n \/ b[i] = t
    <3>1. IsFirst(b, n, t, i, i)
      BY <1>1, <2>1 DEF IsFirst
    <3> QED
      BY <1>1, <1>2, <2>1, <3>1, FirstUnique
  <2>2. CASE ~(i = n \/ b[i] = t)
    <3>1. i + 1 \in 0..n
      BY <1>1, <2>2
    <3>2. IsFirst(b, n, t, i + 1, G(i + 1))
      BY <1>2, <3>1
    <3>3. IsFirst(b, n, t, i, G(i + 1))
      <4>1. \A k \in i..(G(i + 1) - 1) : k = i \/ k \in (i + 1)..(G(i + 1) - 1)
        BY <1>1, <1>2, <3>1
      <4>2. G(i + 1) \in i..n
        BY <1>1, <1>2, <3>1
      <4> QED
        BY <2>2, <3>2, <4>1, <4>2 DEF IsFirst
    <3>4. G(i) = G(i + 1)
      BY <1>1, <1>2, <3>3, FirstUnique
    <3> QED
      BY <2>2, <3>1, <3>4
  <2> QED
    BY <2>1, <2>2
<1>4. Rec(g)
  BY <1>3
<1>5. Rec(f)
  BY <1>4
<1>6. Find(Holding(c, r), t) = f[0]
  <2> DEFINE v == Holding(c, r)
  <2>1. v.sze = n /\ v.buf = b
    BY DEF Holding, n, b
  <2> HIDE DEF v
  <2>2. Find(v, t) = f[0]
    BY <2>1 DEF Find
  <2> QED
    BY <2>2 DEF v
<1> HIDE DEF f
<1>7. \A i \in 0..n : f[i] = IF i = n \/ b[i] = t THEN i ELSE f[i + 1]
  BY <1>5
<1> HIDE DEF g, Rec
<1> DEFINE S == {k \in 0..n : IsFirst(b, n, t, n - k, f[n - k])}
<1>8. 0 \in S
  <2>1. f[n] = n /\ n - 0 = n
    BY <1>1, <1>7
  <2> QED
    BY <1>1, <2>1 DEF IsFirst
<1>9. ASSUME NEW k \in 0..(n - 1), k \in S PROVE k + 1 \in S
  <2> DEFINE i == n - (k + 1)
  <2>1. i \in 0..(n - 1) /\ i + 1 = n - k /\ k + 1 \in 0..n
    BY <1>1
  <2> HIDE DEF i
  <2>2. IsFirst(b, n, t, i + 1, f[i + 1])
    BY <1>9, <2>1
  <2>3. f[i] = IF b[i] = t THEN i ELSE f[i + 1]
    BY <1>1, <1>7, <2>1
  <2>4. CASE b[i] = t
    BY <1>1, <2>1, <2>3, <2>4 DEF IsFirst, i
  <2>5. CASE b[i] # t
    <3>1. f[i] = f[i + 1] /\ f[i + 1] \in (i + 1)..n
      BY <2>2, <2>3, <2>5 DEF IsFirst
    <3>2. \A j \in i..(f[i + 1] - 1) : j = i \/ j \in (i + 1)..(f[i + 1] - 1)
      BY <2>1, <3>1
    <3>3. f[i] \in i..n
      BY <2>1, <3>1
    <3>4. IsFirst(b, n, t, i, f[i])
      BY <2>2, <2>5, <3>1, <3>2, <3>3 DEF IsFirst
    <3> QED
      BY <2>1, <3>4 DEF i
  <2> QED
    BY <2>4, <2>5
<1>10. n \in S
  <2> HIDE DEF S
  <2>1. 0..n \subseteq S
    BY <1>1, <1>8, <1>9, UpTo
  <2> QED
    BY <1>1, <2>1
<1>11. IsFirst(b, n, t, 0, f[0])
  <2>1. n - n = 0
    BY <1>1
  <2> QED
    BY <1>10, <2>1
<1>12. f[0] \in 0..n /\ (f[0] = n \/ b[f[0]] = t) /\ \A k \in 0..(f[0] - 1) : b[k] # t
  BY <1>11 DEF IsFirst
<1>13. f[0] = n \/ c[f[0] + 1] = t
  <2>1. f[0] # n => f[0] \in 0..(n - 1)
    BY <1>1, <1>12
  <2> QED
    BY <1>1, <1>12, <2>1
<1>14. ASSUME NEW k \in 1..f[0] PROVE c[k] # t
  <2>1. k - 1 \in 0..(f[0] - 1) /\ k - 1 \in 0..(n - 1) /\ k - 1 + 1 = k
    BY <1>1, <1>12
  <2> QED
    BY <1>1, <1>12, <2>1
<1> QED
  BY <1>6, <1>12, <1>13, <1>14 DEF n

-----------------------------------------------------------------------------
(* What a call is given.                                                   *)
LEMMA BoundedIsSeq ==
  ASSUME NEW n \in Nat, NEW s \in BoundedSeq(Values, n)
  PROVE  s \in Seq(Values) /\ Len(s) \in 0..n
<1>1. PICK m \in 0..n : s \in [1..m -> Values]
  BY DEF BoundedSeq, SeqOf
<1> QED
  BY <1>1

(* A new vector holds nothing.                                             *)
LEMMA VecInitially == Init => VecInv
<1> SUFFICES ASSUME Init PROVE VecInv
    OBVIOUS
<1>1. Fits(<<>>, 0)
  BY MaxSizeFits DEF Fits
<1>2. vec = Holding(<<>>, 0)
  BY DEF Init, Holding, Held, Blank
<1>3. <<>> \in Seq(Values) /\ 0 \in Nat
  OBVIOUS
<1>4. \E c \in Seq(Values), r \in Nat : Fits(c, r) /\ vec = Holding(c, r)
  BY <1>1, <1>2, <1>3, Zenon
<1> QED
  BY <1>4 DEF Init, VecInv

(* Each operation leaves a vector that holds a sequence.                   *)
LEMMA VecNext ==
  ASSUME VecInv, [Next]_vars
  PROVE  VecInv'
<1> SUFFICES \E d \in Seq(Values), q \in Nat : Fits(d, q) /\ vec' = Holding(d, q)
  BY DEF VecInv, Next, vars, Fits, Holding, Held, MaxSize
<1>1. PICK c \in Seq(Values), r \in Nat : Fits(c, r) /\ vec = Holding(c, r)
  BY DEF VecInv
<1>2. Len(c) \in Nat /\ Len(c) <= MaxSize /\ MaxSize \in Nat /\ vec.sze = Len(c)
  BY <1>1, MaxSizeFits DEF Fits, Holding
<1>3. CASE Inserts
  <2>1. PICK pos \in 0..Len(c), s \in BoundedSeq(Values, MaxArg) :
          Len(s) <= MaxSize - Len(c) /\ vec' = Insert(Holding(c, r), pos, s)
    BY <1>1, <1>2, <1>3 DEF Inserts, Room
  <2>2. s \in Seq(Values) /\ Len(c) + Len(s) <= MaxSize
    BY <1>2, <2>1, BoundedIsSeq, VecAssumption
  <2>3. Splice(c, pos, s) \in Seq(Values)
    BY <2>2, SpliceIs
  <2> QED
    BY <1>1, <2>1, <2>2, <2>3, InsertIs
<1>4. CASE Erases
  <2>1. PICK first \in 0..Len(c) :
          \E last \in first..Len(c) : vec' = Erase(Holding(c, r), first, last)
    BY <1>1, <1>2, <1>4 DEF Erases
  <2>2. PICK last \in first..Len(c) : vec' = Erase(Holding(c, r), first, last)
    BY <2>1
  <2>3. Cut(c, first, last) \in Seq(Values)
    BY CutIs
  <2> QED
    BY <1>1, <2>2, <2>3, EraseIs
<1>5. ASSUME NEW pos \in 0..Len(c), vec' = EraseOne(Holding(c, r), pos)
      PROVE  \E d \in Seq(Values), q \in Nat : Fits(d, q) /\ vec' = Holding(d, q)
  <2>1. CASE pos = Len(c)
    BY <1>1, <1>5, <2>1, EraseOneIs
  <2>2. CASE pos # Len(c)
    <3>1. pos + 1 \in pos..Len(c)
      BY <1>2, <2>2
    <3>2. Cut(c, pos, pos + 1) \in Seq(Values)
      BY <3>1, CutIs
    <3> QED
      BY <1>1, <1>5, <2>2, <3>2, EraseOneIs
  <2> QED
    BY <2>1, <2>2
<1>6. CASE ErasesOne
  BY <1>1, <1>2, <1>5, <1>6 DEF ErasesOne
<1>7. CASE Forgets
  <2>1. PICK t \in Values : vec' = EraseOne(Holding(c, r), Find(Holding(c, r), t))
    BY <1>1, <1>7 DEF Forgets
  <2>2. Find(Holding(c, r), t) \in 0..Len(c)
    BY <1>1, FindIs
  <2> QED
    BY <1>5, <2>1, <2>2
<1>8. CASE Pushes
  <2>1. PICK t \in Values : MaxSize - Len(c) > 0 /\ vec' = PushBack(Holding(c, r), t)
    BY <1>1, <1>2, <1>8 DEF Pushes, Room
  <2>2. Len(c) < MaxSize /\ Append(c, t) \in Seq(Values)
    BY <1>2, <2>1
  <2>3. PICK q \in Nat : /\ Fits(Append(c, t), q)
                          /\ PushBack(Holding(c, r), t) = Holding(Append(c, t), q)
    BY <1>1, <2>2, PushBackIs
  <2> QED
    BY <2>1, <2>2, <2>3, Zenon
<1>9. CASE Pops
  <2>1. Len(c) > 0 /\ vec' = PopBack(Holding(c, r))
    BY <1>1, <1>2, <1>9 DEF Pops
  <2>2. SubSeq(c, 1, Len(c) - 1) \in Seq(Values)
    BY <1>2
  <2> QED
    BY <1>1, <2>1, <2>2, PopBackIs
<1>10. CASE Clears
  <2>1. Fits(<<>>, r) /\ vec' = Holding(<<>>, r) /\ <<>> \in Seq(Values)
    BY <1>1, <1>10, ClearIs DEF Clears
  <2> QED
    BY <2>1, Zenon
<1>11. CASE Reserves
  <2>1. PICK n \in 0..MaxSize : vec' = Reserve(Holding(c, r), n)
    BY <1>1, <1>11 DEF Reserves
  <2> QED
    BY <1>1, <2>1, ReserveIs
<1>12. CASE Resizes
  <2>1. PICK n \in 0..MaxSize, t \in Values : vec' = Resize(Holding(c, r), n, t)
    BY <1>1, <1>12 DEF Resizes
  <2> QED
    BY <1>1, <2>1, ResizeIs
<1>13. CASE Assigns
  <2>1. PICK s \in BoundedSeq(Values, MaxArg) \cup {c} :
          Len(s) <= MaxSize /\ vec' = Assign(Holding(c, r), s)
    BY <1>1, <1>13, ContentsAre DEF Assigns
  <2>2. s \in Seq(Values) /\ Len(s) \in Nat
    BY <1>1, <2>1, BoundedIsSeq, VecAssumption
  <2> QED
    BY <1>1, <2>1, <2>2, AssignIs
<1>14. CASE Stores
  <2>1. PICK i \in 0..(Len(c) - 1), t \in Values :
          vec' = [Holding(c, r) EXCEPT !.buf = CopSet(Held(c, r), i, t)]
    BY <1>1, <1>2, <1>14 DEF Stores, Holding
  <2>2. PICK d \in Seq(Values) :
          Fits(d, r) /\ CopSet(Held(c, r), i, t) = Held(d, r) /\ Len(d) = Len(c)
    BY <1>1, StoreHolds
  <2>3. vec' = Holding(d, r)
    BY <2>1, <2>2 DEF Holding
  <2> QED
    BY <2>2, <2>3
<1>15. CASE UNCHANGED vars
  BY <1>1, <1>15 DEF vars
<1> QED
  BY <1>3, <1>4, <1>6, <1>7, <1>8, <1>9, <1>10, <1>11, <1>12, <1>13, <1>14, <1>15 DEF Next

(* A vector always holds a sequence.                                       *)
LEMMA VecInvariant == Spec => []VecInv
BY VecInitially, VecNext, PTL DEF Spec

(* insert, and then erase: the values are between the old ones, and only   *)
(* the old ones are left.                                                  *)
LEMMA InsertErases ==
  ASSUME NEW c, NEW r, Fits(c, r), NEW pos \in 0..Len(c), NEW s \in Seq(Values),
         Len(c) + Len(s) <= MaxSize
  PROVE  LET v == Insert(Holding(c, r), pos, s)
         IN  /\ Contents(v) = Splice(c, pos, s)
             /\ Contents(Erase(v, pos, pos + Len(s))) = c
<1> DEFINE d == Splice(c, pos, s)
           n == Len(s)
           last == pos + n
           e == Cut(d, pos, last)
<1>1. PICK q \in Nat : Fits(d, q) /\ Insert(Holding(c, r), pos, s) = Holding(d, q)
  BY InsertIs
<1>2. c \in Seq(Values) /\ Len(c) \in Nat /\ pos \in Nat /\ n \in Nat
  BY DEF Fits
<1>3. /\ d \in Seq(Values) /\ Len(d) = Len(c) + n
      /\ \A i \in 1..(Len(c) + n) : d[i] = IF i <= pos          THEN c[i]
                                           ELSE IF i <= pos + n THEN s[i - pos]
                                           ELSE c[i - n]
  BY <1>2, SpliceIs
<1>4. Contents(Holding(d, q)) = d
  BY <1>1, ContentsAre
<1> HIDE DEF d, n
<1>5. pos \in 0..Len(d) /\ last \in pos..Len(d) /\ last - pos = n
  BY <1>2, <1>3
<1> HIDE DEF last
<1>6. Fits(e, q) /\ Erase(Holding(d, q), pos, last) = Holding(e, q)
  BY <1>1, <1>5, EraseIs
<1>7. /\ e \in Seq(Values) /\ Len(e) = Len(d) - n
      /\ \A i \in 1..(Len(d) - n) : e[i] = IF i <= pos THEN d[i] ELSE d[i + n]
  BY <1>3, <1>5, CutIs
<1>8. Contents(Holding(e, q)) = e
  BY <1>6, ContentsAre
<1> HIDE DEF e
<1>9. e = c
  <2>1. Len(e) = Len(c) /\ Len(d) - n = Len(c)
    BY <1>2, <1>3, <1>7
  <2>2. ASSUME NEW i \in 1..Len(c) PROVE e[i] = c[i]
    <3>1. e[i] = IF i <= pos THEN d[i] ELSE d[i + n]
      BY <1>7, <2>1
    <3>2. CASE i <= pos
      <4>1. i \in 1..(Len(c) + n)
        BY <1>2
      <4> QED
        BY <1>3, <3>1, <3>2, <4>1
    <3>3. CASE ~(i <= pos)
      <4> DEFINE j == i + n
      <4>1. j \in 1..(Len(c) + n) /\ ~(j <= pos) /\ ~(j <= pos + n) /\ j - n = i
        BY <1>2, <3>3
      <4> HIDE DEF j
      <4>2. d[j] = c[j - n]
        BY <1>3, <4>1
      <4> QED
        BY <3>1, <3>3, <4>1, <4>2 DEF j
    <3> QED
      BY <3>2, <3>3
  <2> QED
    BY <1>2, <1>7, <2>1, <2>2, SameSeq
<1> QED
  BY <1>1, <1>4, <1>6, <1>8, <1>9 DEF d, n, last

(* RemoveFirst takes out the element that find returns.                    *)
LEMMA FirstRemoved ==
  ASSUME NEW c \in Seq(Values), NEW t, NEW p \in 0..(Len(c) - 1), c[p + 1] = t,
         \A k \in 1..p : c[k] # t
  PROVE  RemoveFirst(c, t) = Cut(c, p, p + 1)
<1> DEFINE I == {i \in 1..Len(c) : c[i] = t}
<1>1. Len(c) \in Nat
  OBVIOUS
<1>2. p + 1 \in I /\ p + 1 - 1 = p
  BY <1>1
<1>3. ASSUME NEW i \in I PROVE p + 1 <= i
  <2>1. i \in 1..Len(c) /\ i \notin 1..p
    OBVIOUS
  <2> QED
    BY <1>1, <2>1
<1>4. I \subseteq Nat
  OBVIOUS
<1>5. Min(I) = p + 1
  <2>1. \A x \in I : (\A y \in I : x <= y) => x = p + 1
    BY <1>2, <1>3, <1>4
  <2> HIDE DEF I
  <2> QED
    BY <1>2, <1>3, <2>1 DEF Min
<1>6. SelectInSeq(c, LAMBDA v : v = t) = p + 1
  BY <1>2, <1>5 DEF SelectInSeq
<1>7. RemoveFirst(c, t) = RemoveAt(c, p + 1)
  BY <1>2, <1>6 DEF RemoveFirst
<1>8. RemoveAt(c, p + 1) = Cut(c, p, p + 1)
  <2> DEFINE i == p + 1
  <2>1. i - 1 = p
    BY <1>2
  <2> HIDE DEF i
  <2>2. RemoveAt(c, i) = Cut(c, p, i)
    BY <2>1 DEF RemoveAt, Cut
  <2> QED
    BY <2>2 DEF i
<1> QED
  BY <1>7, <1>8

(* erase (find (...)) is RemoveFirst.                                      *)
LEMMA ForgetsFirst ==
  ASSUME NEW c, NEW r, Fits(c, r), NEW t
  PROVE  Contents(EraseOne(Holding(c, r), Find(Holding(c, r), t))) = RemoveFirst(c, t)
<1> DEFINE p == Find(Holding(c, r), t)
<1>1. c \in Seq(Values) /\ Len(c) \in Nat
  BY DEF Fits
<1>2. p \in 0..Len(c) /\ (p = Len(c) \/ c[p + 1] = t) /\ \A k \in 1..p : c[k] # t
  BY FindIs
<1> HIDE DEF p
<1>3. CASE p = Len(c)
  <2>1. EraseOne(Holding(c, r), p) = Holding(c, r)
    BY <1>2, <1>3, EraseOneIs
  <2>2. ~ \E i \in 1..Len(c) : c[i] = t
    BY <1>2, <1>3
  <2>3. RemoveFirst(c, t) = c
    BY <2>2 DEF RemoveFirst
  <2> QED
    BY <2>1, <2>3, ContentsAre DEF p
<1>4. CASE p # Len(c)
  <2>1. /\ Fits(Cut(c, p, p + 1), r)
        /\ EraseOne(Holding(c, r), p) = Holding(Cut(c, p, p + 1), r)
    BY <1>2, <1>4, EraseOneIs
  <2>2. p \in 0..(Len(c) - 1)
    BY <1>1, <1>2, <1>4
  <2>3. RemoveFirst(c, t) = Cut(c, p, p + 1)
    BY <1>1, <1>2, <1>4, <2>2, FirstRemoved
  <2> QED
    BY <2>1, <2>3, ContentsAre DEF p
<1> QED
  BY <1>3, <1>4

(* The least place up to m + 1 from which s and t differ decides.          *)
Differ(s, t, m) == [i \in 1..m |-> IF s[i] = t[i] THEN 0 ELSE 1]

Decides(s, t, m, j) == (j > m /\ Len(s) < Len(t)) \/ (~(j > m) /\ s[j] < t[j])

(* operator <: the recursion down from the end of the shorter.             *)
LEMMA LessIs ==
  ASSUME NEW s \in Seq(Int), NEW t \in Seq(Int), NEW m \in Nat,
         m = IF Len(s) < Len(t) THEN Len(s) ELSE Len(t)
  PROVE  \E j \in 1..(m + 1) : /\ IsFirst(Differ(s, t, m), m + 1, 1, 1, j)
                               /\ Less(s, t) <=> Decides(s, t, m, j)
<1> DEFINE n == m + 1
           b == Differ(s, t, m)
           From(h, k) == h = [i \in 1..(k + 1) |-> IF i > k THEN Len(s) < Len(t)
                                                   ELSE s[i] < t[i] \/ (s[i] = t[i] /\ h[i + 1])]
           F(k)   == CHOOSE h : From(h, k)
           Rec(h) == From(h, m)
           G(i) == CHOOSE j \in i..n : IsFirst(b, n, 1, i, j)
           D(j) == Decides(s, t, m, j)
           g == [i \in 1..n |-> D(G(i))]
           f == F(m)
<1>1. /\ n \in Nat /\ Len(s) \in Nat /\ Len(t) \in Nat /\ m \in Nat
      /\ \A i \in 1..n : i > m <=> i = n
      /\ \A i \in 1..m : s[i] \in Int /\ t[i] \in Int /\ (b[i] = 1 <=> s[i] # t[i])
  <2>1. Len(s) \in Nat /\ Len(t) \in Nat /\ m <= Len(s) /\ m <= Len(t)
    OBVIOUS
  <2>2. ASSUME NEW i \in 1..m
        PROVE  s[i] \in Int /\ t[i] \in Int /\ (b[i] = 1 <=> s[i] # t[i])
    <3>1. i \in 1..Len(s) /\ i \in 1..Len(t)
      BY <2>1
    <3> QED
      BY <3>1 DEF Differ
  <2>3. n \in Nat /\ \A i \in 1..n : i > m <=> i = n
    OBVIOUS
  <2> HIDE DEF b
  <2> QED
    BY <2>1, <2>2, <2>3
<1>2. \A i \in 1..n : i = n \/ (i \in 1..m /\ i + 1 \in 1..n)
  BY <1>1
<1>3. \A i \in 1..n : IF i = n THEN D(i) <=> Len(s) < Len(t) ELSE D(i) <=> s[i] < t[i]
  BY <1>1 DEF Decides
<1> HIDE DEF n, b, D
<1>4. ASSUME NEW i \in 1..n PROVE G(i) \in i..n /\ IsFirst(b, n, 1, i, G(i))
  <2>1. i \in 0..n
    BY <1>1
  <2> QED
    BY <1>1, <2>1, OneIsFirst
<1> HIDE DEF G
<1>5. ASSUME NEW i \in 1..n, i = n \/ b[i] = 1 PROVE G(i) = i
  <2>1. IsFirst(b, n, 1, i, i) /\ i \in 0..n
    BY <1>1, <1>5 DEF IsFirst
  <2> QED
    BY <1>1, <1>4, <2>1, FirstUnique
<1>6. ASSUME NEW i \in 1..m, i + 1 \in 1..n, b[i] # 1, i \in 1..n, i # n PROVE G(i) = G(i + 1)
  <2>1. IsFirst(b, n, 1, i + 1, G(i + 1)) /\ G(i + 1) \in (i + 1)..n
    BY <1>4, <1>6
  <2>2. /\ \A k \in i..(G(i + 1) - 1) : k = i \/ k \in (i + 1)..(G(i + 1) - 1)
        /\ G(i + 1) \in i..n /\ i \in 0..n
    BY <1>1, <1>6, <2>1
  <2>3. IsFirst(b, n, 1, i, G(i + 1))
    BY <1>6, <2>1, <2>2 DEF IsFirst
  <2> QED
    BY <1>1, <1>4, <1>6, <2>2, <2>3, FirstUnique
<1>7. Rec(g)
  <2>1. ASSUME NEW i \in 1..n
        PROVE  D(G(i)) = IF i > m THEN Len(s) < Len(t)
                         ELSE s[i] < t[i] \/ (s[i] = t[i] /\ g[i + 1])
    <3>1. CASE i = n
      BY <1>1, <1>3, <1>5, <3>1 DEF D, Decides
    <3>2. CASE i # n /\ s[i] # t[i]
      BY <1>1, <1>2, <1>3, <1>5, <3>2 DEF D, Decides
    <3>3. CASE i # n /\ s[i] = t[i]
      <4>1. i \in 1..m /\ i + 1 \in 1..n /\ ~(i > m) /\ b[i] # 1
        BY <1>1, <1>2, <3>3
      <4>2. G(i) = G(i + 1) /\ g[i + 1] = D(G(i + 1))
        BY <1>6, <3>3, <4>1
      <4>3. ~(s[i] < t[i])
        BY <1>1, <3>3, <4>1
      <4> DEFINE e == D(G(i + 1))
      <4>4. e \in BOOLEAN
        BY DEF D, Decides
      <4> HIDE DEF g, e
      <4>5. D(G(i)) = e /\ g[i + 1] = e
        BY <4>2 DEF e
      <4> QED
        BY <3>3, <4>1, <4>3, <4>4, <4>5
    <3> QED
      BY <3>1, <3>2, <3>3
  <2> QED
    BY <2>1 DEF n
<1>8. Rec(f)
  BY <1>7
<1>9. Less(s, t) = f[1]
  <2> DEFINE e == IF Len(s) < Len(t) THEN Len(s) ELSE Len(t)
  <2>1. Less(s, t) = F(e)[1]
    BY Zenon DEF Less
  <2>2. e = m
    OBVIOUS
  <2> HIDE DEF F, e
  <2> QED
    BY <2>1, <2>2, Zenon DEF f
<1> HIDE DEF f, g
<1>10. \A i \in 1..n : f[i] = IF i > m THEN Len(s) < Len(t)
                              ELSE s[i] < t[i] \/ (s[i] = t[i] /\ f[i + 1])
  BY <1>8 DEF n
<1> HIDE DEF Rec
<1> DEFINE R(i, j) == IsFirst(b, n, 1, i, j) /\ (f[i] <=> D(j))
           S == {k \in 0..m : \E j \in (n - k)..n : R(n - k, j)}
<1>11. 0 \in S
  <2>1. n - 0 = n /\ n \in n..n /\ n \in 1..n /\ n > m /\ 0 \in 0..m
    BY <1>1 DEF n
  <2>2. IsFirst(b, n, 1, n, n)
    BY <1>1 DEF IsFirst
  <2>3. f[n] <=> D(n)
    BY <1>3, <1>10, <2>1
  <2> QED
    BY <2>1, <2>2, <2>3
<1>12. ASSUME NEW k \in 0..(m - 1), k \in S PROVE k + 1 \in S
  <2> DEFINE i == n - (k + 1)
  <2>1. n = m + 1 /\ k \in 0..(m - 1)
    BY DEF n
  <2>2. i \in 1..m /\ i \in 1..n /\ i + 1 = n - k /\ k + 1 \in 0..m /\ i # n /\ ~(i > m)
    <3>1. i = m - k /\ i + 1 = n - k
      BY <2>1
    <3> HIDE DEF i
    <3>2. i \in 1..m /\ k + 1 \in 0..m
      BY <2>1, <3>1
    <3>3. 1 <= i /\ i <= m /\ i \in Int
      BY <3>2
    <3>4. i \in 1..(m + 1) /\ i # m + 1 /\ ~(i > m)
      <4>1. m \in Int
        BY <1>1
      <4> QED
        BY <3>3, <4>1, SMTT(20)
    <3> QED
      BY <2>1, <3>1, <3>2, <3>4
  <2>3. PICK j \in (i + 1)..n : R(i + 1, j)
    BY <1>12, <2>2
  <2> HIDE DEF i
  <2>4. f[i] = (s[i] < t[i] \/ (s[i] = t[i] /\ f[i + 1]))
    BY <1>10, <2>2
  <2>5. CASE b[i] = 1
    <3>1. IsFirst(b, n, 1, i, i) /\ i \in i..n
      BY <1>1, <2>2, <2>5 DEF IsFirst
    <3>2. f[i] <=> D(i)
      BY <1>1, <1>3, <2>2, <2>4, <2>5
    <3> QED
      BY <2>2, <3>1, <3>2 DEF i
  <2>6. CASE b[i] # 1
    <3>1. IsFirst(b, n, 1, i + 1, j) /\ (f[i + 1] <=> D(j))
      BY <2>3
    <3>2. \A x \in i..(j - 1) : x = i \/ x \in (i + 1)..(j - 1)
      BY <2>2, <2>3
    <3>3. IsFirst(b, n, 1, i, j) /\ j \in i..n
      BY <2>2, <2>3, <2>6, <3>1, <3>2 DEF IsFirst
    <3>4. s[i] = t[i] /\ ~(s[i] < t[i])
      <4>1. s[i] \in Int /\ t[i] \in Int /\ (b[i] = 1 <=> s[i] # t[i])
        BY <1>1, <2>2
      <4> QED
        BY <2>6, <4>1
    <3>5. f[i] <=> D(j)
      BY <2>4, <3>1, <3>4
    <3> QED
      BY <2>2, <3>3, <3>5 DEF i
  <2> QED
    BY <2>5, <2>6
<1>13. m \in S
  <2> HIDE DEF S
  <2>1. 0..m \subseteq S
    BY <1>11, <1>12, UpTo
  <2> QED
    BY <2>1
<1>14. PICK j \in 1..n : R(1, j)
  <2>1. n - m = 1
    BY DEF n
  <2> QED
    BY <1>13, <2>1
<1> QED
  BY <1>9, <1>14 DEF b, n, D

(* Values are compared as numbers.                                         *)
LEMMA ValuesSeq ==
  ASSUME NEW s \in Seq(Values)
  PROVE  s \in Seq(Int)
<1>1. Len(s) \in Nat /\ s \in [1..Len(s) -> Values]
  OBVIOUS
<1>2. s \in [1..Len(s) -> Int]
  BY <1>1, ValuesAreOrdered
<1> QED
  BY <1>1, <1>2

(* Of two sequences that differ exactly one is less, of others neither.    *)
LEMMA LessOrders ==
  ASSUME NEW s \in Seq(Int), NEW t \in Seq(Int)
  PROVE  /\ ~(Less(s, t) /\ Less(t, s))
         /\ Less(s, t) \/ Less(t, s) <=> s # t
<1> DEFINE m == IF Len(s) < Len(t) THEN Len(s) ELSE Len(t)
           b == Differ(s, t, m)
<1>1. /\ Len(s) \in Nat /\ Len(t) \in Nat /\ m \in Nat
      /\ m = (IF Len(t) < Len(s) THEN Len(t) ELSE Len(s)) /\ m <= Len(s) /\ m <= Len(t)
  OBVIOUS
<1>2. Differ(t, s, m) = b
  BY DEF Differ
<1>3. ASSUME NEW i \in 1..m
      PROVE  s[i] \in Int /\ t[i] \in Int /\ (b[i] = 1 <=> s[i] # t[i])
  <2>1. i \in 1..Len(s) /\ i \in 1..Len(t)
    BY <1>1
  <2> QED
    BY <2>1 DEF Differ
<1>4. PICK j \in 1..(m + 1) : IsFirst(b, m + 1, 1, 1, j) /\ (Less(s, t) <=> Decides(s, t, m, j))
  BY <1>1, LessIs
<1>5. PICK k \in 1..(m + 1) : IsFirst(b, m + 1, 1, 1, k) /\ (Less(t, s) <=> Decides(t, s, m, k))
  BY <1>1, <1>2, LessIs
<1>6. j = k
  BY <1>1, <1>4, <1>5, FirstUnique
<1>7. CASE j = m + 1
  <2>1. j > m
    BY <1>1, <1>7
  <2>2. (Less(s, t) <=> Len(s) < Len(t)) /\ (Less(t, s) <=> Len(t) < Len(s))
    BY <1>4, <1>5, <1>6, <2>1 DEF Decides
  <2>3. ASSUME NEW i \in 1..m PROVE s[i] = t[i]
    <3>1. i \in 1..(j - 1)
      BY <1>1, <1>7
    <3>2. b[i] # 1
      BY <1>4, <3>1 DEF IsFirst
    <3> QED
      BY <1>3, <3>2
  <2>4. Len(s) = Len(t) => s = t
    <3>1. Len(s) = Len(t) => \A i \in 1..Len(s) : s[i] = t[i]
      BY <1>1, <2>3
    <3> QED
      BY <3>1, SeqEqual
  <2> QED
    BY <1>1, <2>2, <2>4
<1>8. CASE j # m + 1
  <2>1. j \in 1..m /\ ~(j > m)
    <3>1. j \in 1..(m + 1) /\ m \in Nat
      BY <1>1, <1>4
    <3> HIDE DEF m, b
    <3> QED
      BY <1>8, <3>1
  <2>2. (Less(s, t) <=> s[j] < t[j]) /\ (Less(t, s) <=> t[j] < s[j])
    BY <1>4, <1>5, <1>6, <2>1 DEF Decides
  <2>3. s[j] # t[j] /\ s[j] \in Int /\ t[j] \in Int
    BY <1>3, <1>4, <1>8, <2>1 DEF IsFirst
  <2>4. s # t
    BY <2>3
  <2> QED
    BY <2>2, <2>3, <2>4
<1> QED
  BY <1>7, <1>8

(* The capacity that the vector believes in is that of its buffer, which   *)
(* is never smaller than its size, and neither overflows size_type: what   *)
(* good_size, ecb_ld32 and reserve, ins and push_back around it ensure.    *)
THEOREM SizesStayFit == Spec => []SizesFit
<1>1. VecInv => SizesFit
  <2> SUFFICES ASSUME VecInv PROVE SizesFit
      OBVIOUS
  <2>1. PICK c \in Seq(Values), r \in Nat : Fits(c, r) /\ vec = Holding(c, r)
    BY DEF VecInv
  <2> QED
    BY <2>1 DEF Fits, Holding, Held, SizesFit, VecInv
<1> QED
  BY <1>1, VecInvariant, PTL

(* The objects alive are exactly the elements: through insert, erase,      *)
(* resize, assign and the moves to larger buffers each is constructed once *)
(* and destructed once, no operation meets a cell without the object that  *)
(* it needs, and no buffer is freed that still holds one.                  *)
THEOREM ObjectsAreElementsAlways == Spec => []ObjectsAreElements
<1>1. VecInv => ObjectsAreElements
  <2> SUFFICES ASSUME VecInv PROVE ObjectsAreElements
      OBVIOUS
  <2>1. PICK c \in Seq(Values), r \in Nat : Fits(c, r) /\ vec = Holding(c, r)
    BY DEF VecInv
  <2>2. ~vec.lost /\ vec.sze = Len(c) /\ vec.buf = Held(c, r)
    BY <2>1 DEF Holding
  <2>3. /\ DOMAIN vec.buf = 0..(r - 1) /\ \A a \in 0..(Len(c) - 1) : vec.buf[a] \in Values
        /\ \A a \in 0..(r - 1) : ~(a < Len(c)) => vec.buf[a] = Raw
    BY <2>1, <2>2, HeldIn DEF Held
  <2>4. \A a \in 0..(r - 1) : a < Len(c) => a \in 0..(Len(c) - 1)
    BY <2>1, HeldIn
  <2> QED
    BY <2>2, <2>3, <2>4 DEF ObjectsAreElements
<1> QED
  BY <1>1, VecInvariant, PTL

(* Whatever its capacity, insert and erase do to the vector what they do   *)
(* to a sequence, erase (find (...)) takes out the first equal element and *)
(* no other.  Of two vectors of different values exactly one is less, and  *)
(* vectors that == finds equal are not; it may find vectors of one value   *)
(* different, unless the bytes of an element are its value.                *)
THEOREM ActsAsSequenceAlways == Spec => []ActsAsSequence
<1>1. VecInv => ActsAsSequence
  <2> SUFFICES ASSUME VecInv PROVE ActsAsSequence
      OBVIOUS
  <2>1. PICK c \in Seq(Values), r \in Nat : Fits(c, r) /\ vec = Holding(c, r)
    BY DEF VecInv
  <2>2. /\ vec.sze = Len(c) /\ Len(c) \in Nat /\ MaxSize \in Nat /\ c \in Seq(Int)
        /\ Room = MaxSize - Len(c)
    BY <2>1, MaxSizeFits, ValuesSeq DEF Holding, Room
  <2>3. Contents(vec) = c
    BY <2>1, ContentsAre
  <2>4. InsertSplices
    <3>1. ASSUME NEW pos \in 0..Len(c), NEW s \in BoundedSeq(Values, MaxArg),
                 Len(s) <= MaxSize - Len(c)
          PROVE  LET v == Insert(vec, pos, s)
                 IN  /\ Contents(v) = Splice(c, pos, s)
                     /\ Contents(Erase(v, pos, pos + Len(s))) = c
      <4>1. s \in Seq(Values) /\ Len(c) + Len(s) <= MaxSize
        BY <2>2, <3>1, BoundedIsSeq, VecAssumption
      <4> QED
        BY <2>1, <4>1, InsertErases
    <3> QED
      BY <2>2, <2>3, <3>1 DEF InsertSplices
  <2>5. FindErasesFirst
    BY <2>1, <2>3, ForgetsFirst DEF FindErasesFirst
  <2>6. OneIsLess
    <3>1. ASSUME NEW t \in BoundedSeq(Values, MaxArg + 1)
          PROVE  /\ ~(Less(c, t) /\ Less(t, c))
                 /\ Less(c, t) \/ Less(t, c) <=> c # t
                 /\ \A apart \in SUBSET DOMAIN c :
                      Equal(c, t, apart) => ~Less(c, t) /\ ~Less(t, c)
                 /\ Equal(c, t, {}) \/ Less(c, t) \/ Less(t, c)
      <4>1. MaxArg + 1 \in Nat
        BY VecAssumption
      <4>2. t \in Seq(Values)
        BY <4>1, BoundedIsSeq
      <4>3. t \in Seq(Int)
        BY <4>2, ValuesSeq
      <4>4. /\ ~(Less(c, t) /\ Less(t, c))
            /\ Less(c, t) \/ Less(t, c) <=> c # t
        BY <2>2, <4>3, LessOrders
      <4>5. \A apart \in SUBSET DOMAIN c : Equal(c, t, apart) => c = t
        BY <2>2, <4>3 DEF Equal
      <4>6. c = t => Equal(c, t, {})
        BY DEF Equal
      <4> QED
        BY <4>4, <4>5, <4>6
    <3> QED
      BY <2>3, <3>1 DEF OneIsLess
  <2> QED
    BY <2>4, <2>5, <2>6 DEF ActsAsSequence
<1> QED
  BY <1>1, VecInvariant, PTL

-----------------------------------------------------------------------------
(* Descriptor passing.                                                     *)

(* What the macros are on either platform.                                 *)
LEMMA MacrosAre ==
  /\ \A n \in Nat : CmsgLen(4, n) = 12 + n /\ CmsgLen(8, n) = 16 + n
  /\ CmsgSpace(4, IntSize) = 16 /\ CmsgSpace(8, IntSize) = 24
BY DEF CmsgLen, CmsgSpace, Round, IntSize

(* How many descriptors the control buffer has room for, and how many of   *)
(* a message are installed.                                                *)
Fit(a)           == IF a = 4 THEN 1 ELSE 2
Arrived(a, sent) == IF sent < Fit(a) THEN sent ELSE Fit(a)
Base(a)          == IF a = 4 THEN 12 ELSE 16

(* The same, for the platform at hand.                                     *)
LEMMA BufferIs ==
  ASSUME NEW a \in {4, 8}
  PROVE  /\ Fit(a) \in {1, 2} /\ Base(a) \in Nat
         /\ \A n \in Nat : CmsgLen(a, n) = Base(a) + n
         /\ CmsgSpace(a, IntSize) = Base(a) + IntSize * Fit(a)
BY MacrosAre DEF Fit, Base, IntSize

(* The control buffer has the first ones.                                  *)
LEMMA InBufferIs ==
  ASSUME NEW a \in {4, 8}, NEW sent \in Nat
  PROVE  /\ Arrived(a, sent) \in 0..sent
         /\ InBuffer(a, sent) = 0..(Arrived(a, sent) - 1)
<1> DEFINE k == Arrived(a, sent)
<1>1. k \in 0..sent
  BY BufferIs DEF Arrived
<1>2. \A i \in 0..(sent - 1) : CmsgLen(a, IntSize * (i + 1)) <= CmsgSpace(a, IntSize) <=> i < k
  <2>1. ASSUME NEW i \in 0..(sent - 1)
        PROVE  CmsgLen(a, IntSize * (i + 1)) <= CmsgSpace(a, IntSize) <=> i < k
    <3>1. IntSize * (i + 1) \in Nat /\ IntSize = 4
      BY DEF IntSize
    <3>2. CmsgLen(a, IntSize * (i + 1)) = Base(a) + 4 * (i + 1)
      BY <3>1, BufferIs
    <3>3. CmsgSpace(a, IntSize) = Base(a) + 4 * Fit(a) /\ Fit(a) \in {1, 2} /\ Base(a) \in Nat
      BY <3>1, BufferIs
    <3>4. i < k <=> i < Fit(a)
      BY <3>3 DEF Arrived
    <3> QED
      BY <3>2, <3>3, <3>4
  <2> QED
    BY <2>1
<1> HIDE DEF k
<1>3. InBuffer(a, sent) = 0..(k - 1)
  BY <1>1, <1>2 DEF InBuffer
<1> QED
  BY <1>1, <1>3 DEF k

(* What a message is made of.                                              *)
LEMMA MessageIs ==
  ASSUME NEW a, NEW m \in Messages(a)
  PROVE  /\ m.sent \in Nat /\ m.leaky \in BOOLEAN /\ m.rights \in BOOLEAN
         /\ m.data \in {0, 1} /\ (~m.rights => m.sent = 0)
         /\ (m.rights => m.len \in Lengths(a, m.sent))
<1>1. CASE m \in WithoutRights(a)
  <2>1. m.sent = 0 /\ m.data \in {0, 1}
    BY <1>1 DEF WithoutRights
  <2>2. m.leaky \in BOOLEAN /\ m.rights \in BOOLEAN /\ ~m.rights
    BY <1>1, Zenon DEF WithoutRights
  <2> QED
    BY <2>1, <2>2
<1>2. ASSUME NEW n \in 0..MaxSent, m \in WithRights(a, n)
      PROVE  /\ m.sent \in Nat /\ m.leaky \in BOOLEAN /\ m.rights \in BOOLEAN
             /\ m.data \in {0, 1} /\ (~m.rights => m.sent = 0)
             /\ (m.rights => m.len \in Lengths(a, m.sent))
  <2>1. m.sent = n /\ n \in Nat /\ m.data \in {0, 1} /\ m.len \in Lengths(a, n)
    BY <1>2, SentAssumption DEF WithRights
  <2>2. m.leaky \in BOOLEAN /\ m.rights \in BOOLEAN /\ m.rights
    BY <1>2, Zenon DEF WithRights
  <2> QED
    BY <2>1, <2>2
<1>3. m \in WithoutRights(a) \/ \E n \in 0..MaxSent : m \in WithRights(a, n)
  BY DEF Messages
<1> QED
  BY <1>1, <1>2, <1>3, Zenon

(* However many were sent and whatever length the message claims, what is  *)
(* left of the length covers those in the buffer.                          *)
LEMMA LengthCovers ==
  ASSUME NEW a \in {4, 8}, NEW m \in Messages(a), m.rights
  PROVE  Limited(a, m.len) = Base(a) + 4 * Arrived(a, m.sent)
<1> DEFINE k == Arrived(a, m.sent)
<1>1. m.sent \in Nat /\ m.len \in Lengths(a, m.sent)
  BY MessageIs
<1>2. k \in 0..m.sent /\ InBuffer(a, m.sent) = 0..(k - 1)
  BY <1>1, InBufferIs
<1>3. IntSize = 4 /\ \A n \in Nat : IntSize * n \in Nat /\ CmsgLen(a, IntSize * n) = Base(a) + 4 * n
  <2>1. IntSize = 4 /\ \A n \in Nat : IntSize * n = 4 * n /\ IntSize * n \in Nat
    BY DEF IntSize
  <2> QED
    BY <2>1, BufferIs
<1>4. CmsgSpace(a, IntSize) = Base(a) + 4 * Fit(a) /\ Fit(a) \in {1, 2} /\ Base(a) \in Nat
  BY <1>3, BufferIs
<1>5. k = IF m.sent < Fit(a) THEN m.sent ELSE Fit(a)
  BY DEF Arrived
<1> HIDE DEF k
<1>6. m.len \in Base(a)..(Base(a) + 4 * m.sent)
  <2>1. CmsgLen(a, 0) = Base(a)
    BY <1>4, BufferIs
  <2>2. CmsgLen(a, IntSize * m.sent) = Base(a) + 4 * m.sent
    BY <1>1, <1>3
  <2> QED
    BY <1>1, <2>1, <2>2 DEF Lengths
<1>7. m.len >= Base(a) + 4 * k
  <2>1. CASE k = 0
    BY <1>4, <1>6, <2>1
  <2>2. CASE k # 0
    <3>1. k - 1 \in InBuffer(a, m.sent) /\ k - 1 + 1 = k /\ k \in Nat
      BY <1>1, <1>2, <2>2
    <3>2. CmsgLen(a, IntSize * k) <= m.len
      BY <1>1, <3>1 DEF Lengths
    <3> QED
      BY <1>3, <1>4, <1>6, <3>1, <3>2
  <2> QED
    BY <2>1, <2>2
<1>8. (k = m.sent /\ k <= Fit(a)) \/ k = Fit(a)
  BY <1>1, <1>4, <1>5
<1>9. (IF m.len > CmsgSpace(a, IntSize) THEN CmsgSpace(a, IntSize) ELSE m.len) = Base(a) + 4 * k
  <2>1. CASE k = Fit(a)
    BY <1>4, <1>6, <1>7, <2>1
  <2>2. CASE k = m.sent /\ k <= Fit(a)
    BY <1>1, <1>4, <1>6, <1>7, <2>2
  <2> QED
    BY <1>8, <2>1, <2>2
<1> QED
  BY <1>9 DEF Limited, k

(* recv_fd returns the first descriptor in the buffer, or closes it, and   *)
(* closes the others.                                                      *)
LEMMA RecvKeeps ==
  ASSUME NEW a \in {4, 8}, NEW m \in Messages(a)
  PROVE  /\ RecvFd(a, m).closed \cup ({RecvFd(a, m).fd} \ {-1}) = InBuffer(a, m.sent)
         /\ m.sent = 1 /\ m.data = 0 => RecvFd(a, m) = [fd |-> 0, closed |-> {}]
<1> DEFINE k == Arrived(a, m.sent)
           len == Limited(a, m.len)
           got == m.rights /\ len >= CmsgLen(a, IntSize)
           extra == {i \in 1..len : got /\ len >= CmsgLen(a, IntSize * (i + 1))}
<1>1. /\ m.sent \in Nat /\ m.rights \in BOOLEAN /\ m.data \in {0, 1}
      /\ (~m.rights => m.sent = 0)
  BY MessageIs
<1>2. k \in 0..m.sent /\ InBuffer(a, m.sent) = 0..(k - 1)
  BY <1>1, InBufferIs
<1>3. Fit(a) \in {1, 2} /\ Base(a) \in Nat /\ k = IF m.sent < Fit(a) THEN m.sent ELSE Fit(a)
  BY BufferIs DEF Arrived
<1>4. RecvFd(a, m) = IF got /\ m.data = 0 THEN [fd |-> 0, closed |-> extra]
                     ELSE [fd |-> -1, closed |-> extra \cup (IF got THEN {0} ELSE {})]
  BY DEF RecvFd
<1>5. m.rights => len = Base(a) + 4 * k
  BY LengthCovers
<1> HIDE DEF k, len
<1>6. got <=> m.sent > 0
  <2>1. CmsgLen(a, IntSize) = Base(a) + 4 /\ Base(a) \in Nat
    BY BufferIs DEF IntSize
  <2>2. m.rights => (len >= CmsgLen(a, IntSize) <=> k >= 1)
    BY <1>2, <1>3, <1>5, <2>1
  <2>3. k >= 1 <=> m.sent > 0
    BY <1>1, <1>2, <1>3
  <2>4. m.sent > 0 => m.rights
    BY <1>1
  <2> HIDE DEF len
  <2> QED
    BY <2>2, <2>3, <2>4, Zenon
<1>7. extra = 1..(k - 1)
  <2>1. CASE got
    <3>1. len = Base(a) + 4 * k /\ k \in Nat
      BY <1>2, <1>5, <2>1
    <3>2. \A i \in 1..len : len >= CmsgLen(a, IntSize * (i + 1)) <=> i <= k - 1
      <4>1. ASSUME NEW i \in 1..len
            PROVE  len >= CmsgLen(a, IntSize * (i + 1)) <=> i <= k - 1
        <5>1. IntSize * (i + 1) \in Nat /\ IntSize = 4
          BY <1>3, <3>1 DEF IntSize
        <5>2. CmsgLen(a, IntSize * (i + 1)) = Base(a) + 4 * (i + 1)
          BY <5>1, BufferIs
        <5> QED
          BY <1>3, <3>1, <5>2
      <4> QED
        BY <4>1
    <3>3. 1..(k - 1) \subseteq 1..len
      BY <1>3, <3>1
    <3> HIDE DEF got
    <3> QED
      BY <1>3, <2>1, <3>1, <3>2, <3>3
  <2>2. CASE ~got
    <3>1. k = 0
      BY <1>1, <1>2, <1>6, <2>2
    <3> QED
      BY <2>2, <3>1
  <2> QED
    BY <2>1, <2>2
<1> HIDE DEF got, extra
<1>8. CASE m.sent > 0
  <2>1. k >= 1 /\ 0..(k - 1) = {0} \cup 1..(k - 1)
    BY <1>1, <1>2, <1>3, <1>8
  <2>2. 1..(k - 1) \cup {0} = 0..(k - 1) /\ -1 \notin 0..(k - 1)
    BY <2>1
  <2>3. m.sent = 1 => 1..(k - 1) = {}
    BY <1>1, <1>2, <1>3
  <2>4. CASE m.data = 0
    <3>1. RecvFd(a, m) = [fd |-> 0, closed |-> 1..(k - 1)]
      BY <1>4, <1>6, <1>7, <1>8, <2>4
    <3>2. {0} \ {-1} = {0}
      OBVIOUS
    <3>3. RecvFd(a, m).fd = 0 /\ RecvFd(a, m).closed = 1..(k - 1)
      BY <3>1
    <3>4. RecvFd(a, m).closed \cup ({RecvFd(a, m).fd} \ {-1}) = InBuffer(a, m.sent)
      BY <1>2, <2>2, <3>2, <3>3
    <3> QED
      BY <2>3, <3>1, <3>4
  <2>5. CASE m.data # 0
    <3>1. RecvFd(a, m) = [fd |-> -1, closed |-> 1..(k - 1) \cup {0}]
      BY <1>4, <1>6, <1>7, <1>8, <2>5
    <3> QED
      BY <1>2, <2>2, <2>5, <3>1
  <2> QED
    BY <2>4, <2>5
<1>9. CASE ~(m.sent > 0)
  <2>1. 1..(k - 1) = {} /\ 0..(k - 1) = {} /\ m.sent # 1
    BY <1>1, <1>2, <1>9
  <2> QED
    BY <1>2, <1>4, <1>6, <1>7, <1>9, <2>1
<1> QED
  BY <1>1, <1>8, <1>9

(* The message before the first one.                                       *)
LEMMA EmptyMessage ==
  ASSUME NEW a \in {4, 8}
  PROVE  [sent |-> 0, leaky |-> FALSE, rights |-> FALSE, len |-> 0, data |-> 1] \in Messages(a)
<1>1. CmsgLen(a, IntSize * MaxSent) \in Nat
  BY SentAssumption, BufferIs DEF IntSize
<1>2. [sent |-> 0, leaky |-> FALSE, rights |-> FALSE, len |-> 0, data |-> 1]
        \in WithoutRights(a)
  BY <1>1 DEF WithoutRights
<1> QED
  BY <1>2 DEF Messages

(* What is in ret is what recv_fd makes of the last message.               *)
RecvInv == word \in {4, 8} /\ msg \in Messages(word) /\ ret = RecvFd(word, msg)

(* However many descriptors a message carries and whatever length, from    *)
(* those in the control buffer to all that were sent, it claims, recv_fd   *)
(* returns or closes each one in the buffer and touches no other.  What    *)
(* leaks is what leaky kernels install beyond the buffer.                  *)
THEOREM ReceivedAreHandled == RecvSpec => []OnlyExtrasLeak
<1>1. RecvInit => RecvInv
  <2> SUFFICES ASSUME RecvInit PROVE RecvInv
      OBVIOUS
  <2>1. word \in {4, 8} /\ msg \in Messages(word) /\ ~msg.rights
    BY EmptyMessage DEF RecvInit
  <2>2. RecvFd(word, msg) = [fd |-> -1, closed |-> {}]
    BY <2>1 DEF RecvFd
  <2> QED
    BY <2>1, <2>2 DEF RecvInit, RecvInv
<1>2. RecvInv /\ [Recv]_recvVars => RecvInv'
  BY DEF RecvInv, Recv, recvVars
<1>3. RecvInv => OnlyExtrasLeak
  BY RecvKeeps DEF RecvInv, OnlyExtrasLeak, Installed
<1> QED
  BY <1>1, <1>2, <1>3, PTL DEF RecvSpec

=============================================================================
