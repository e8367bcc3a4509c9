--------------------------- MODULE MldsaSign_proofs ---------------------------
(***************************************************************************)
(* Theorems about MldsaSign, for any parameters, keys, masks, challenges,  *)
(* messages and bound on the candidates.                                   *)
(*                                                                         *)
(* In order: induction and sums; the ring, whose product is shown to       *)
(* commute through linear maps and not by indices; rounding, with the      *)
(* lemma that a hint brings back the high bits; the encoding of the hints, *)
(* a bijection between those that fit and the well-formed bytes; what      *)
(* verification recomputes; the invariant of the signer.                   *)
(***************************************************************************)
EXTENDS MldsaSign, FiniteSetTheorems, WellFoundedInduction, TLAPS

-----------------------------------------------------------------------------
(* Induction over sets of numbers, and sums.                               *)

(* A set of numbers that is not empty has a least one, and so a set that   *)
(* holds 0 and is closed under successor holds every number: induction,    *)
(* for sets.                                                               *)
LEMMA Least ==
  ASSUME NEW T \in SUBSET Nat, T # {}
  PROVE  \E x \in T : \A y \in T : x <= y
<1> DEFINE R == OpToRel(<, Nat)
<1>1. IsWellFoundedOn(R, Nat)
  BY NatLessThanWellFounded
<1>2. \A x, y \in Nat : x < y => <<x, y>> \in R
  BY DEF OpToRel
<1> HIDE DEF R
<1>3. \E x \in T : \A y \in T : ~ (<<y, x>> \in R)
  BY <1>1, WFMin
<1>4. PICK x \in T : \A y \in T : ~ (<<y, x>> \in R)
  BY <1>3
<1>5. ASSUME NEW y \in T PROVE x <= y
  <2>1. x \in Nat /\ y \in Nat
    OBVIOUS
  <2>2. ~ (y < x)
    BY <2>1, <1>2, <1>4
  <2> QED
    BY <2>1, <2>2
<1> QED
  BY <1>5

LEMMA Induction ==
  ASSUME NEW S, 0 \in S, \A n \in Nat : n \in S => n + 1 \in S
  PROVE  Nat \subseteq S
<1> SUFFICES ASSUME NEW k \in Nat, k \notin S PROVE FALSE
  OBVIOUS
<1> DEFINE T == {n \in Nat : n \notin S}
<1>1. PICK x \in T : \A y \in T : x <= y
  <2>1. T # {} /\ T \in SUBSET Nat
    OBVIOUS
  <2> HIDE DEF T
  <2> QED
    BY <2>1, Least
<1>2. x # 0 /\ x - 1 \in Nat
  OBVIOUS
<1>3. x - 1 \in S
  BY <1>1, <1>2
<1>4. x - 1 + 1 = x
  OBVIOUS
<1> QED
  BY <1>2, <1>3, <1>4

(* f is the function of the partial sums of term, up to n. *)
PartialSums(f, term, n) == f = [i \in 0 .. n |-> IF i = 0 THEN 0 ELSE f[i - 1] + term[i - 1]]

LEMMA SumOfDef ==
  ASSUME NEW term, NEW n
  PROVE  SumOf(term, n) = (CHOOSE f : PartialSums(f, term, n))[n]
BY DEF SumOf, PartialSums

LEMMA InductionTo ==
  ASSUME NEW m \in Nat, NEW S, 0 \in S, \A n \in 0 .. m - 1 : n \in S => n + 1 \in S
  PROVE  \A n \in 0 .. m : n \in S
<1> DEFINE T == {n \in Nat : n <= m => n \in S}
<1>1. 0 \in T
  OBVIOUS
<1>2. ASSUME NEW n \in Nat, n \in T PROVE n + 1 \in T
  BY <1>2
<1>3. Nat \subseteq T
  <2> HIDE DEF T
  <2> QED
    BY <1>1, <1>2, Induction
<1> QED
  BY <1>3

Terms(term, m) == \A i \in 0 .. m - 1 : term[i] \in Int

(* SumOf chooses a function that equals its own right-hand side: there is  *)
(* one, and it is the only one.                                            *)
LEMMA SumsExist ==
  ASSUME NEW m \in Nat, NEW term, Terms(term, m), NEW n \in 0 .. m
  PROVE  \E f \in [0 .. n -> Int] : PartialSums(f, term, n)
<1> DEFINE S == {k \in 0 .. m : \E f \in [0 .. k -> Int] : PartialSums(f, term, k)}
<1>1. 0 \in S
  <2>1. PartialSums([i \in 0 .. 0 |-> 0], term, 0)
    BY DEF PartialSums
  <2> QED
    BY <2>1
<1>2. ASSUME NEW k \in 0 .. m - 1, k \in S PROVE k + 1 \in S
  <2>1. PICK f \in [0 .. k -> Int] : PartialSums(f, term, k)
    BY <1>2
  <2> DEFINE g == [i \in 0 .. k + 1 |-> IF i = k + 1 THEN f[k] + term[k] ELSE f[i]]
  <2>2. term[k] \in Int
    BY DEF Terms
  <2>3. g \in [0 .. k + 1 -> Int]
    BY <2>2
  <2>4. \A i \in 0 .. k : f[i] = IF i = 0 THEN 0 ELSE f[i - 1] + term[i - 1]
    BY <2>1 DEF PartialSums
  <2>5. \A i \in 0 .. k + 1 : g[i] = IF i = 0 THEN 0 ELSE g[i - 1] + term[i - 1]
    BY <2>4
  <2>6. PartialSums(g, term, k + 1)
    <3> HIDE DEF g
    <3> QED
      BY <2>3, <2>5 DEF PartialSums
  <2> QED
    BY <2>3, <2>6
<1> HIDE DEF S
<1>3. n \in S
  BY <1>1, <1>2, InductionTo
<1> QED
  BY <1>3 DEF S

LEMMA SumsAgree ==
  ASSUME NEW n \in Nat, NEW m \in Nat, NEW term, NEW f, NEW g,
         PartialSums(f, term, n), PartialSums(g, term, m), n <= m
  PROVE  \A i \in 0 .. n : f[i] = g[i]
<1> DEFINE S == {i \in 0 .. n : f[i] = g[i]}
<1>1. \A i \in 0 .. n : f[i] = IF i = 0 THEN 0 ELSE f[i - 1] + term[i - 1]
  BY DEF PartialSums
<1>2. \A i \in 0 .. n : g[i] = IF i = 0 THEN 0 ELSE g[i - 1] + term[i - 1]
  BY DEF PartialSums
<1>3. 0 \in S
  BY <1>1, <1>2
<1>4. ASSUME NEW k \in 0 .. n - 1, k \in S PROVE k + 1 \in S
  <2>1. k + 1 \in 0 .. n /\ k + 1 # 0 /\ (k + 1) - 1 = k
    OBVIOUS
  <2>2. f[k + 1] = f[k] + term[k]
    BY <1>1, <2>1
  <2>3. g[k + 1] = g[k] + term[k]
    BY <1>2, <2>1
  <2> QED
    BY <1>4, <2>1, <2>2, <2>3
<1> HIDE DEF S
<1>5. \A i \in 0 .. n : i \in S
  BY <1>3, <1>4, InductionTo
<1> QED
  BY <1>5 DEF S

(* What SumOf computes: nothing at 0, and one more term at each step.      *)
LEMMA SumFacts ==
  ASSUME NEW m \in Nat, NEW term, Terms(term, m)
  PROVE  /\ SumOf(term, 0) = 0
         /\ \A n \in 0 .. m - 1 : SumOf(term, n + 1) = SumOf(term, n) + term[n]
         /\ \A n \in 0 .. m : SumOf(term, n) \in Int
         /\ SumOf(term, m) \in Int
<1> DEFINE Sum(n) == CHOOSE f : PartialSums(f, term, n)
<1>1. ASSUME NEW n \in 0 .. m
      PROVE  PartialSums(Sum(n), term, n) /\ SumOf(term, n) = Sum(n)[n]
  <2>1. \E f : PartialSums(f, term, n)
    BY SumsExist
  <2> QED
    BY <2>1, SumOfDef
<1>2. ASSUME NEW n \in 0 .. m PROVE SumOf(term, n) \in Int
  <2>1. PICK f \in [0 .. n -> Int] : PartialSums(f, term, n)
    BY SumsExist
  <2> HIDE DEF Sum
  <2>2. f[n] = Sum(n)[n]
    BY <1>1, <2>1, SumsAgree
  <2> QED
    BY <1>1, <2>2
<1>3. SumOf(term, 0) = 0
  <2> HIDE DEF Sum
  <2>1. PartialSums(Sum(0), term, 0) /\ SumOf(term, 0) = Sum(0)[0]
    BY <1>1
  <2> QED
    BY <2>1 DEF PartialSums
<1>4. ASSUME NEW n \in 0 .. m - 1 PROVE SumOf(term, n + 1) = SumOf(term, n) + term[n]
  <2> HIDE DEF Sum
  <2>1. n \in 0 .. m /\ n + 1 \in 0 .. m /\ n \in 0 .. n + 1 /\ n + 1 # 0 /\ (n + 1) - 1 = n /\ n <= n + 1
    OBVIOUS
  <2>2. PartialSums(Sum(n), term, n) /\ SumOf(term, n) = Sum(n)[n]
    BY <1>1, <2>1
  <2>3. PartialSums(Sum(n + 1), term, n + 1) /\ SumOf(term, n + 1) = Sum(n + 1)[n + 1]
    BY <1>1, <2>1
  <2>4. Sum(n)[n] = Sum(n + 1)[n]
    BY <2>1, <2>2, <2>3, SumsAgree
  <2>5. \A i \in 0 .. n + 1 : Sum(n + 1)[i] = IF i = 0 THEN 0 ELSE Sum(n + 1)[i - 1] + term[i - 1]
    BY <2>3 DEF PartialSums
  <2>6. Sum(n + 1)[n + 1] = Sum(n + 1)[n] + term[n]
    BY <2>1, <2>5
  <2> QED
    BY <2>2, <2>3, <2>4, <2>6
<1> QED
  BY <1>2, <1>3, <1>4

(* Sums of equal terms, of sums of terms, and of multiples of terms.       *)
LEMMA SumSame ==
  ASSUME NEW m \in Nat, NEW a, NEW b, Terms(b, m), \A i \in 0 .. m - 1 : a[i] = b[i]
  PROVE  SumOf(a, m) = SumOf(b, m)
<1> DEFINE S == {n \in 0 .. m : SumOf(a, n) = SumOf(b, n)}
<1>1. Terms(a, m)
  BY DEF Terms
<1>2. 0 \in S
  BY <1>1, SumFacts
<1>3. ASSUME NEW n \in 0 .. m - 1, n \in S PROVE n + 1 \in S
  <2>1. SumOf(a, n + 1) = SumOf(a, n) + a[n]
    BY <1>1, SumFacts
  <2>2. SumOf(b, n + 1) = SumOf(b, n) + b[n]
    BY SumFacts
  <2> QED
    BY <1>3, <2>1, <2>2
<1> HIDE DEF S
<1>4. m \in S
  BY <1>2, <1>3, InductionTo
<1> QED
  BY <1>4 DEF S

LEMMA SumAdd ==
  ASSUME NEW m \in Nat, NEW a, NEW b, NEW c, Terms(a, m), Terms(b, m),
         \A i \in 0 .. m - 1 : c[i] = a[i] + b[i]
  PROVE  SumOf(c, m) = SumOf(a, m) + SumOf(b, m)
<1> DEFINE S == {n \in 0 .. m : SumOf(c, n) = SumOf(a, n) + SumOf(b, n)}
<1>1. Terms(c, m)
  BY DEF Terms
<1>2. 0 \in S
  BY <1>1, SumFacts
<1>3. ASSUME NEW n \in 0 .. m - 1, n \in S PROVE n + 1 \in S
  <2>1. SumOf(a, n + 1) = SumOf(a, n) + a[n] /\ SumOf(a, n) \in Int /\ a[n] \in Int
    BY SumFacts DEF Terms
  <2>2. SumOf(b, n + 1) = SumOf(b, n) + b[n] /\ SumOf(b, n) \in Int /\ b[n] \in Int
    BY SumFacts DEF Terms
  <2>3. SumOf(c, n + 1) = SumOf(c, n) + c[n]
    BY <1>1, SumFacts
  <2> QED
    BY <1>3, <2>1, <2>2, <2>3
<1> HIDE DEF S
<1>4. m \in S
  BY <1>2, <1>3, InductionTo
<1> QED
  BY <1>4 DEF S

LEMMA Distributes ==
  ASSUME NEW k \in Int, NEW x \in Int, NEW y \in Int
  PROVE  k * (x + y) = k * x + k * y
OBVIOUS

LEMMA SumScale ==
  ASSUME NEW m \in Nat, NEW k \in Int, NEW a, NEW c, Terms(a, m), \A i \in 0 .. m - 1 : c[i] = k * a[i]
  PROVE  SumOf(c, m) = k * SumOf(a, m)
<1> DEFINE S == {n \in 0 .. m : SumOf(c, n) = k * SumOf(a, n)}
<1>1. Terms(c, m)
  BY DEF Terms
<1>2. 0 \in S
  BY <1>1, SumFacts
<1>3. ASSUME NEW n \in 0 .. m - 1, n \in S PROVE n + 1 \in S
  <2>1. SumOf(a, n + 1) = SumOf(a, n) + a[n] /\ SumOf(a, n) \in Int /\ a[n] \in Int
    BY SumFacts DEF Terms
  <2>2. SumOf(c, n + 1) = SumOf(c, n) + c[n]
    BY <1>1, SumFacts
  <2>3. k * SumOf(a, n + 1) = k * SumOf(a, n) + k * a[n]
    BY <2>1, Distributes
  <2> QED
    BY <1>3, <2>2, <2>3
<1> HIDE DEF S
<1>4. m \in S
  BY <1>2, <1>3, InductionTo
<1> QED
  BY <1>4 DEF S

-----------------------------------------------------------------------------
(* The ring of polynomials.                                                *)

Poly == [Columns -> Int]

Scale(k, q) == [j \in Columns |-> k * q[j]]

(* X^i times q. *)
Turn(i, q) == [j \in Columns |-> IF i <= j THEN q[j - i] ELSE -q[N + j - i]]

(* The sum of the polynomials F[0] .. F[n - 1]. *)
Total(F, n) == [j \in Columns |-> SumOf([l \in 0 .. n - 1 |-> F[l][j]], n)]

(* The operations stay in the ring.                                        *)
LEMMA RingFacts ==
  /\ \A q \in Poly : \A i \in Columns : Turn(i, q) \in Poly
  /\ \A q \in Poly : \A k \in Int : Scale(k, q) \in Poly
  /\ \A p, q \in Poly : Plus(p, q) \in Poly /\ Minus(p, q) \in Poly
  /\ N \in Nat
BY PackingAssumption DEF Poly, Turn, Scale, Plus, Minus, Columns

LEMMA TotalFacts ==
  ASSUME NEW n \in Nat, NEW F, \A l \in 0 .. n - 1 : F[l] \in Poly
  PROVE  /\ Total(F, n) \in Poly
         /\ \A j \in Columns : Terms([l \in 0 .. n - 1 |-> F[l][j]], n)
<1>1. ASSUME NEW j \in Columns PROVE Terms([l \in 0 .. n - 1 |-> F[l][j]], n)
  BY DEF Terms, Poly
<1>2. ASSUME NEW j \in Columns PROVE SumOf([l \in 0 .. n - 1 |-> F[l][j]], n) \in Int
  <2> DEFINE a == [l \in 0 .. n - 1 |-> F[l][j]]
  <2>1. Terms(a, n)
    BY <1>1
  <2> HIDE DEF a
  <2>2. SumOf(a, n) \in Int
    BY <2>1, SumFacts
  <2> QED
    BY <2>2 DEF a
<1> QED
  BY <1>1, <1>2 DEF Total, Poly

(* The product is the sum of the turns of q by i, each p[i] times.         *)
LEMMA TimesIs ==
  ASSUME NEW p \in Poly, NEW q \in Poly
  PROVE  /\ Times(p, q) = Total([i \in Columns |-> Scale(p[i], Turn(i, q))], N)
         /\ Times(p, q) \in Poly
<1> DEFINE F == [i \in Columns |-> Scale(p[i], Turn(i, q))]
<1>1. N \in Nat /\ Columns = 0 .. N - 1
  BY RingFacts DEF Columns
<1>2. \A i \in Columns : p[i] \in Int
  BY DEF Poly
<1>3. \A l \in 0 .. N - 1 : F[l] \in Poly
  BY <1>1, <1>2, RingFacts
<1>4. ASSUME NEW j \in Columns
      PROVE  [i \in Columns |-> IF i <= j THEN p[i] * q[j - i] ELSE -(p[i] * q[N + j - i])]
              = [l \in 0 .. N - 1 |-> F[l][j]]
  <2>1. ASSUME NEW i \in Columns
        PROVE  (IF i <= j THEN p[i] * q[j - i] ELSE -(p[i] * q[N + j - i])) = F[i][j]
    <3>1. F[i][j] = p[i] * (IF i <= j THEN q[j - i] ELSE -q[N + j - i])
      BY DEF Scale, Turn
    <3>2. CASE i <= j
      BY <3>1, <3>2
    <3>3. CASE ~(i <= j)
      <4>1. N + j - i \in Columns
        BY <1>1, <3>3
      <4>2. q[N + j - i] \in Int
        BY <4>1 DEF Poly
      <4> QED
        BY <1>2, <3>1, <3>3, <4>2
    <3> QED
      BY <3>2, <3>3
  <2> HIDE DEF F
  <2> QED
    BY <1>1, <2>1
<1>5. Times(p, q) = Total(F, N)
  <2> HIDE DEF F
  <2> QED
    BY <1>4 DEF Times, Total
<1> HIDE DEF F
<1>6. Total(F, N) \in Poly
  BY <1>1, <1>3, TotalFacts
<1> QED
  BY <1>5, <1>6 DEF F

(* Totals of equal polynomials, of sums and of multiples.                  *)
LEMMA TotalSame ==
  ASSUME NEW n \in Nat, NEW F, NEW G, \A l \in 0 .. n - 1 : F[l] = G[l]
  PROVE  Total(F, n) = Total(G, n)
<1>1. \A j \in Columns : [l \in 0 .. n - 1 |-> F[l][j]] = [l \in 0 .. n - 1 |-> G[l][j]]
  OBVIOUS
<1> QED
  BY <1>1 DEF Total

LEMMA TotalPlus ==
  ASSUME NEW n \in Nat, NEW F, NEW G, NEW H,
         \A l \in 0 .. n - 1 : F[l] \in Poly /\ G[l] \in Poly /\ H[l] = Plus(F[l], G[l])
  PROVE  Total(H, n) = Plus(Total(F, n), Total(G, n))
<1>1. ASSUME NEW j \in Columns PROVE Total(H, n)[j] = Total(F, n)[j] + Total(G, n)[j]
  <2> DEFINE f == [l \in 0 .. n - 1 |-> F[l][j]]
             g == [l \in 0 .. n - 1 |-> G[l][j]]
             h == [l \in 0 .. n - 1 |-> H[l][j]]
  <2>1. Terms(f, n) /\ Terms(g, n)
    BY DEF Terms, Poly
  <2>2. \A l \in 0 .. n - 1 : h[l] = f[l] + g[l]
    BY DEF Plus
  <2>3. Total(H, n)[j] = SumOf(h, n) /\ Total(F, n)[j] = SumOf(f, n) /\ Total(G, n)[j] = SumOf(g, n)
    BY DEF Total
  <2> HIDE DEF f, g, h
  <2>4. SumOf(h, n) = SumOf(f, n) + SumOf(g, n)
    BY <2>1, <2>2, SumAdd
  <2> QED
    BY <2>3, <2>4
<1> QED
  BY <1>1 DEF Plus, Total

LEMMA TotalScale ==
  ASSUME NEW n \in Nat, NEW k \in Int, NEW F, NEW H,
         \A l \in 0 .. n - 1 : F[l] \in Poly /\ H[l] = Scale(k, F[l])
  PROVE  Total(H, n) = Scale(k, Total(F, n))
<1>1. ASSUME NEW j \in Columns PROVE Total(H, n)[j] = k * Total(F, n)[j]
  <2> DEFINE f == [l \in 0 .. n - 1 |-> F[l][j]]
             h == [l \in 0 .. n - 1 |-> H[l][j]]
  <2>1. Terms(f, n)
    BY DEF Terms, Poly
  <2>2. \A l \in 0 .. n - 1 : h[l] = k * f[l]
    BY DEF Scale
  <2>3. Total(H, n)[j] = SumOf(h, n) /\ Total(F, n)[j] = SumOf(f, n)
    BY DEF Total
  <2> HIDE DEF f, h
  <2>4. SumOf(h, n) = k * SumOf(f, n)
    BY <2>1, <2>2, SumScale
  <2> QED
    BY <2>3, <2>4
<1> QED
  BY <1>1 DEF Scale, Total

(* Turning is linear.                                                      *)
LEMMA TurnPlus ==
  ASSUME NEW p \in Poly, NEW q \in Poly, NEW i \in Columns
  PROVE  Turn(i, Plus(p, q)) = Plus(Turn(i, p), Turn(i, q))
<1>1. N \in Nat /\ Columns = 0 .. N - 1
  BY RingFacts DEF Columns
<1>2. ASSUME NEW j \in Columns PROVE Turn(i, Plus(p, q))[j] = Plus(Turn(i, p), Turn(i, q))[j]
  <2>1. CASE i <= j
    <3>1. j - i \in Columns
      BY <1>1, <2>1
    <3> QED
      BY <2>1, <3>1 DEF Turn, Plus
  <2>2. CASE ~(i <= j)
    <3>1. N + j - i \in Columns
      BY <1>1, <2>2
    <3>2. p[N + j - i] \in Int /\ q[N + j - i] \in Int
      BY <3>1 DEF Poly
    <3> QED
      BY <2>2, <3>1, <3>2 DEF Turn, Plus
  <2> QED
    BY <2>1, <2>2
<1> QED
  BY <1>2 DEF Turn, Plus

LEMMA TurnScale ==
  ASSUME NEW k \in Int, NEW q \in Poly, NEW i \in Columns
  PROVE  Turn(i, Scale(k, q)) = Scale(k, Turn(i, q))
<1>1. N \in Nat /\ Columns = 0 .. N - 1
  BY RingFacts DEF Columns
<1>2. ASSUME NEW j \in Columns PROVE Turn(i, Scale(k, q))[j] = Scale(k, Turn(i, q))[j]
  <2>1. CASE i <= j
    <3>1. j - i \in Columns
      BY <1>1, <2>1
    <3> QED
      BY <2>1, <3>1 DEF Turn, Scale
  <2>2. CASE ~(i <= j)
    <3>1. N + j - i \in Columns
      BY <1>1, <2>2
    <3>2. q[N + j - i] \in Int
      BY <3>1 DEF Poly
    <3> QED
      BY <2>2, <3>1, <3>2 DEF Turn, Scale
  <2> QED
    BY <2>1, <2>2
<1> QED
  BY <1>2 DEF Turn, Scale

(* Turns commute: the exponents add up.                                    *)
LEMMA TurnTurn ==
  ASSUME NEW q \in Poly, NEW i \in Columns, NEW k \in Columns
  PROVE  Turn(i, Turn(k, q)) = Turn(k, Turn(i, q))
<1>1. N \in Nat /\ Columns = 0 .. N - 1
  BY RingFacts DEF Columns
<1>2. ASSUME NEW j \in Columns, NEW u \in Columns, NEW v \in Columns
      PROVE  Turn(u, Turn(v, q))[j] =
               IF u + v <= j THEN q[j - u - v]
               ELSE IF u + v <= N + j THEN -q[N + j - u - v] ELSE q[2 * N + j - u - v]
  <2>1. CASE u <= j
    <3>1. j - u \in Columns
      BY <1>1, <2>1
    <3>2. Turn(u, Turn(v, q))[j] = IF v <= j - u THEN q[j - u - v] ELSE -q[N + (j - u) - v]
      BY <2>1, <3>1 DEF Turn
    <3> QED
      BY <1>1, <2>1, <3>2
  <2>2. CASE ~(u <= j)
    <3>1. N + j - u \in Columns
      BY <1>1, <2>2
    <3>2. \E x : /\ Turn(u, Turn(v, q))[j] = -x
                 /\ v <= N + j - u => x = q[N + j - u - v]
                 /\ ~(v <= N + j - u) => x = -q[N + (N + j - u) - v]
      <4> DEFINE r == Turn(v, q)
                 w == N + j - u
      <4>1. r[w] = IF v <= w THEN q[w - v] ELSE -q[N + w - v]
        <5> w \in Columns
          BY <3>1
        <5> HIDE DEF w
        <5> QED
          BY DEF Turn
      <4> HIDE DEF r
      <4>2. Turn(u, r)[j] = -r[w]
        BY <2>2 DEF Turn
      <4>3. /\ v <= w => r[w] = q[w - v]
            /\ ~(v <= w) => r[w] = -q[N + w - v]
        BY <4>1
      <4> HIDE DEF w
      <4> WITNESS r[w]
      <4> QED
        BY <1>1, <4>2, <4>3 DEF r, w
    <3>3. CASE v <= N + j - u
      BY <1>1, <2>2, <3>2, <3>3
    <3>4. CASE ~(v <= N + j - u)
      <4>1. N + (N + j - u) - v \in Columns /\ N + (N + j - u) - v = 2 * N + j - u - v
        BY <1>1, <3>1, <3>4
      <4>2. q[2 * N + j - u - v] \in Int
        BY <4>1 DEF Poly
      <4>3. ~(u + v <= j) /\ ~(u + v <= N + j)
        BY <1>1, <2>2, <3>4
      <4> QED
        BY <3>2, <3>4, <4>1, <4>2, <4>3
    <3> QED
      BY <3>3, <3>4
  <2> QED
    BY <2>1, <2>2
<1>3. ASSUME NEW j \in Columns PROVE Turn(i, Turn(k, q))[j] = Turn(k, Turn(i, q))[j]
  <2>1. i + k = k + i /\ j - i - k = j - k - i /\ N + j - i - k = N + j - k - i
        /\ 2 * N + j - i - k = 2 * N + j - k - i
    BY <1>1
  <2> QED
    BY <1>2, <2>1
<1> QED
  BY <1>3 DEF Turn

(* A total is nothing at 0, and one more polynomial at each step.          *)
LEMMA TotalStep ==
  ASSUME NEW m \in Nat, NEW F, \A l \in 0 .. m - 1 : F[l] \in Poly
  PROVE  /\ Total(F, 0) = [j \in Columns |-> 0]
         /\ \A n \in 0 .. m - 1 : Total(F, n + 1) = Plus(Total(F, n), F[n])
<1>1. ASSUME NEW j \in Columns, NEW n \in 0 .. m, NEW a, a = [l \in 0 .. m - 1 |-> F[l][j]]
      PROVE  Terms(a, m) /\ SumOf([l \in 0 .. n - 1 |-> F[l][j]], n) = SumOf(a, n)
  <2> DEFINE b == [l \in 0 .. n - 1 |-> F[l][j]]
  <2>1. Terms(a, m) /\ Terms(a, n)
    BY <1>1 DEF Terms, Poly
  <2>2. \A l \in 0 .. n - 1 : b[l] = a[l]
    BY <1>1
  <2> HIDE DEF b
  <2>3. n \in Nat
    OBVIOUS
  <2>4. SumOf(b, n) = SumOf(a, n)
    BY <2>1, <2>2, <2>3, SumSame
  <2> QED
    BY <2>1, <2>4 DEF b
<1>2. ASSUME NEW j \in Columns PROVE Total(F, 0)[j] = 0
  <2> DEFINE a == [l \in 0 .. m - 1 |-> F[l][j]]
  <2> 0 \in 0 .. m
    OBVIOUS
  <2>1. Terms(a, m) /\ SumOf([l \in 0 .. 0 - 1 |-> F[l][j]], 0) = SumOf(a, 0)
    BY <1>1
  <2> HIDE DEF a
  <2>2. SumOf(a, 0) = 0
    BY <2>1, SumFacts
  <2> QED
    BY <2>1, <2>2 DEF Total
<1>3. ASSUME NEW n \in 0 .. m - 1, NEW j \in Columns
      PROVE  Total(F, n + 1)[j] = Total(F, n)[j] + F[n][j]
  <2> DEFINE a == [l \in 0 .. m - 1 |-> F[l][j]]
  <2>1. n \in 0 .. m /\ n + 1 \in 0 .. m /\ a[n] = F[n][j]
    OBVIOUS
  <2>2. Terms(a, m) /\ SumOf([l \in 0 .. n - 1 |-> F[l][j]], n) = SumOf(a, n)
    BY <1>1, <2>1
  <2>3. SumOf([l \in 0 .. (n + 1) - 1 |-> F[l][j]], n + 1) = SumOf(a, n + 1)
    BY <1>1, <2>1
  <2> HIDE DEF a
  <2>4. SumOf(a, n + 1) = SumOf(a, n) + a[n]
    BY <2>2, SumFacts
  <2> QED
    BY <2>1, <2>2, <2>3, <2>4 DEF Total
<1> QED
  BY <1>2, <1>3 DEF Plus, Total

(* T preserves sums and multiples.                                         *)
Linear(T) ==
    /\ T \in [Poly -> Poly]
    /\ \A p, q \in Poly : T[Plus(p, q)] = Plus(T[p], T[q])
    /\ \A k \in Int : \A q \in Poly : T[Scale(k, q)] = Scale(k, T[q])

(* A linear map of a total is the total of what it maps to.                *)
LEMMA LinearTotal ==
  ASSUME NEW T, Linear(T), NEW m \in Nat, NEW F, \A l \in 0 .. m - 1 : F[l] \in Poly,
         NEW G, \A l \in 0 .. m - 1 : G[l] = T[F[l]]
  PROVE  T[Total(F, m)] = Total(G, m)
<1> DEFINE S == {n \in 0 .. m : T[Total(F, n)] = Total(G, n)}
<1>1. \A l \in 0 .. m - 1 : G[l] \in Poly
  BY DEF Linear
<1>2. \A n \in 0 .. m : Total(F, n) \in Poly
  <2> SUFFICES ASSUME NEW n \in 0 .. m PROVE Total(F, n) \in Poly
    OBVIOUS
  <2>1. n \in Nat /\ \A l \in 0 .. n - 1 : F[l] \in Poly
    OBVIOUS
  <2> QED
    BY <2>1, TotalFacts
<1>3. 0 \in S
  <2> DEFINE zero == [j \in Columns |-> 0]
  <2>1. zero \in Poly /\ Scale(0, zero) = zero
    BY DEF Poly, Scale
  <2>2. Total(F, 0) = zero /\ Total(G, 0) = zero
    BY <1>1, TotalStep
  <2> HIDE DEF zero
  <2>3. T[zero] = Scale(0, T[zero]) /\ T[zero] \in Poly
    BY <2>1 DEF Linear
  <2>4. Scale(0, T[zero]) = zero
    BY <2>3 DEF Scale, Poly, zero
  <2> QED
    BY <2>2, <2>3, <2>4
<1>4. ASSUME NEW n \in 0 .. m - 1, n \in S PROVE n + 1 \in S
  <2>1. Total(F, n + 1) = Plus(Total(F, n), F[n]) /\ Total(G, n + 1) = Plus(Total(G, n), G[n])
    <3>1. Total(F, n + 1) = Plus(Total(F, n), F[n])
      BY TotalStep
    <3>2. \A k \in 0 .. m - 1 : Total(G, k + 1) = Plus(Total(G, k), G[k])
      BY <1>1, TotalStep, ZenonT(30)
    <3> QED
      BY <3>1, <3>2
  <2>2. n \in 0 .. m /\ n + 1 \in 0 .. m
    OBVIOUS
  <2>3. T[Plus(Total(F, n), F[n])] = Plus(T[Total(F, n)], T[F[n]])
    BY <1>2, <2>2 DEF Linear
  <2> QED
    BY <1>4, <2>1, <2>2, <2>3
<1> HIDE DEF S
<1>5. \A n \in 0 .. m : n \in S
  BY <1>3, <1>4, InductionTo
<1> QED
  BY <1>5 DEF S

(* What commutes with multiplication by X commutes with any multiplication. *)
LEMMA LinearTimes ==
  ASSUME NEW T, Linear(T), \A i \in Columns : \A q \in Poly : T[Turn(i, q)] = Turn(i, T[q]),
         NEW c \in Poly, NEW q \in Poly
  PROVE  T[Times(c, q)] = Times(c, T[q])
<1> DEFINE F == [i \in Columns |-> Scale(c[i], Turn(i, q))]
           G == [i \in Columns |-> Scale(c[i], Turn(i, T[q]))]
<1>1. N \in Nat /\ Columns = 0 .. N - 1
  BY RingFacts DEF Columns
<1>2. T[q] \in Poly /\ \A i \in Columns : c[i] \in Int
  BY DEF Linear, Poly
<1>3. Times(c, q) = Total(F, N) /\ Times(c, T[q]) = Total(G, N)
  BY <1>2, TimesIs
<1>4. \A l \in 0 .. N - 1 : F[l] \in Poly
  BY <1>1, <1>2, RingFacts
<1>5. ASSUME NEW l \in 0 .. N - 1 PROVE G[l] = T[F[l]]
  <2>1. l \in Columns /\ c[l] \in Int /\ Turn(l, q) \in Poly
    BY <1>1, <1>2, RingFacts
  <2>2. T[Scale(c[l], Turn(l, q))] = Scale(c[l], T[Turn(l, q)])
    BY <2>1 DEF Linear
  <2>3. T[Turn(l, q)] = Turn(l, T[q])
    BY <2>1
  <2> QED
    BY <2>1, <2>2, <2>3
<1> HIDE DEF F, G
<1>6. T[Total(F, N)] = Total(G, N)
  BY <1>1, <1>4, <1>5, LinearTotal
<1> QED
  BY <1>3, <1>6

LEMMA ScaleLaws ==
  ASSUME NEW p \in Poly, NEW q \in Poly, NEW k \in Int, NEW l \in Int
  PROVE  /\ Scale(k, Plus(p, q)) = Plus(Scale(k, p), Scale(k, q))
         /\ Scale(k, Scale(l, q)) = Scale(l, Scale(k, q))
<1>1. ASSUME NEW j \in Columns PROVE p[j] \in Int /\ q[j] \in Int
  BY DEF Poly
<1>2. ASSUME NEW j \in Columns PROVE k * (p[j] + q[j]) = k * p[j] + k * q[j]
  BY <1>1, Distributes
<1>3. ASSUME NEW j \in Columns PROVE k * (l * q[j]) = l * (k * q[j])
  BY <1>1
<1> QED
  BY <1>2, <1>3 DEF Scale, Plus

(* Multiplication by p is linear and commutes with turning.                *)
LEMMA TimesLinear ==
  ASSUME NEW p \in Poly
  PROVE  /\ \A q, r \in Poly : Times(p, Plus(q, r)) = Plus(Times(p, q), Times(p, r))
         /\ \A k \in Int : \A q \in Poly : Times(p, Scale(k, q)) = Scale(k, Times(p, q))
<1>1. N \in Nat /\ Columns = 0 .. N - 1 /\ \A i \in Columns : p[i] \in Int
  BY RingFacts DEF Columns, Poly
<1>2. ASSUME NEW q \in Poly, NEW r \in Poly
      PROVE  Times(p, Plus(q, r)) = Plus(Times(p, q), Times(p, r))
  <2> DEFINE F == [i \in Columns |-> Scale(p[i], Turn(i, q))]
             G == [i \in Columns |-> Scale(p[i], Turn(i, r))]
             H == [i \in Columns |-> Scale(p[i], Turn(i, Plus(q, r)))]
  <2>1. /\ Times(p, q) = Total(F, N) /\ Times(p, r) = Total(G, N)
        /\ Times(p, Plus(q, r)) = Total(H, N)
    BY RingFacts, TimesIs
  <2>2. ASSUME NEW l \in 0 .. N - 1 PROVE F[l] \in Poly /\ G[l] \in Poly /\ H[l] = Plus(F[l], G[l])
    <3>1. /\ l \in Columns /\ p[l] \in Int /\ Turn(l, q) \in Poly /\ Turn(l, r) \in Poly
          /\ Turn(l, Plus(q, r)) = Plus(Turn(l, q), Turn(l, r))
      BY <1>1, RingFacts, TurnPlus
    <3>2. Scale(p[l], Turn(l, q)) \in Poly /\ Scale(p[l], Turn(l, r)) \in Poly
      BY <3>1, RingFacts
    <3>3. Scale(p[l], Plus(Turn(l, q), Turn(l, r))) = Plus(Scale(p[l], Turn(l, q)), Scale(p[l], Turn(l, r)))
      BY <3>1, ScaleLaws
    <3> QED
      BY <3>1, <3>2, <3>3
  <2> HIDE DEF F, G, H
  <2>3. Total(H, N) = Plus(Total(F, N), Total(G, N))
    BY <1>1, <2>2, TotalPlus
  <2> QED
    BY <2>1, <2>3
<1>3. ASSUME NEW k \in Int, NEW q \in Poly PROVE Times(p, Scale(k, q)) = Scale(k, Times(p, q))
  <2> DEFINE F == [i \in Columns |-> Scale(p[i], Turn(i, q))]
             H == [i \in Columns |-> Scale(p[i], Turn(i, Scale(k, q)))]
  <2>1. Times(p, q) = Total(F, N) /\ Times(p, Scale(k, q)) = Total(H, N)
    BY RingFacts, TimesIs
  <2>2. ASSUME NEW l \in 0 .. N - 1 PROVE F[l] \in Poly /\ H[l] = Scale(k, F[l])
    <3>1. /\ l \in Columns /\ p[l] \in Int /\ Turn(l, q) \in Poly
          /\ Turn(l, Scale(k, q)) = Scale(k, Turn(l, q))
      BY <1>1, RingFacts, TurnScale
    <3>2. Scale(p[l], Turn(l, q)) \in Poly
      BY <3>1, RingFacts
    <3>3. Scale(p[l], Scale(k, Turn(l, q))) = Scale(k, Scale(p[l], Turn(l, q)))
      BY <3>1, ScaleLaws
    <3> QED
      BY <3>1, <3>2, <3>3
  <2> HIDE DEF F, H
  <2>3. Total(H, N) = Scale(k, Total(F, N))
    BY <1>1, <2>2, TotalScale
  <2> QED
    BY <2>1, <2>3
<1> QED
  BY <1>2, <1>3

LEMMA TimesTurn ==
  ASSUME NEW c \in Poly, NEW q \in Poly, NEW i \in Columns
  PROVE  Turn(i, Times(c, q)) = Times(c, Turn(i, q))
<1> DEFINE T == [p \in Poly |-> Turn(i, p)]
<1>1. Linear(T)
  BY RingFacts, TurnPlus, TurnScale, ZenonT(30) DEF Linear
<1>2. \A k \in Columns : \A p \in Poly : T[Turn(k, p)] = Turn(k, T[p])
  BY RingFacts, TurnTurn
<1>3. Times(c, q) \in Poly
  BY TimesIs
<1>4. T[q] = Turn(i, q) /\ T[Times(c, q)] = Turn(i, Times(c, q))
  BY <1>3
<1> HIDE DEF T
<1>5. T[Times(c, q)] = Times(c, T[q])
  BY <1>1, <1>2, LinearTimes
<1> QED
  BY <1>4, <1>5

Multiplier(p) == [r \in Poly |-> Times(p, r)]

LEMMA MultiplierLinear ==
  ASSUME NEW p \in Poly
  PROVE  Linear(Multiplier(p)) /\ \A q \in Poly : Multiplier(p)[q] = Times(p, q)
<1> DEFINE T == Multiplier(p)
<1>1. T \in [Poly -> Poly] /\ \A q \in Poly : T[q] = Times(p, q)
  BY TimesIs DEF Multiplier
<1> HIDE DEF T
<1>2. \A q, r \in Poly : T[Plus(q, r)] = Plus(T[q], T[r])
  BY <1>1, RingFacts, TimesLinear
<1>3. \A k \in Int : \A r \in Poly : T[Scale(k, r)] = Scale(k, T[r])
  BY <1>1, RingFacts, TimesLinear
<1> QED
  BY <1>1, <1>2, <1>3 DEF Linear, T

(* Multiplications commute.                                                *)
LEMMA TimesTimes ==
  ASSUME NEW p \in Poly, NEW c \in Poly, NEW q \in Poly
  PROVE  Times(p, Times(c, q)) = Times(c, Times(p, q))
<1> DEFINE T == Multiplier(p)
<1>1. Times(c, q) \in Poly
  BY TimesIs
<1>2. Linear(T) /\ T[q] = Times(p, q) /\ T[Times(c, q)] = Times(p, Times(c, q))
  BY <1>1, MultiplierLinear
<1>3. \A k \in Columns : \A r \in Poly : T[Turn(k, r)] = Turn(k, T[r])
  BY RingFacts, TimesTurn, MultiplierLinear
<1> HIDE DEF T
<1>4. T[Times(c, q)] = Times(c, T[q])
  BY <1>2, <1>3, LinearTimes
<1> QED
  BY <1>2, <1>4

-----------------------------------------------------------------------------
(* Division and rounding.                                                  *)

(* Division with remainder.                                                *)
LEMMA DivMod ==
  ASSUME NEW a \in Int, NEW q \in Nat, q > 0
  PROVE  /\ a % q \in 0 .. q - 1 /\ a \div q \in Int
         /\ a = q * (a \div q) + (a % q)
OBVIOUS

LEMMA Positive ==
  ASSUME NEW q \in Nat, q > 0, NEW k \in Int, k > 0
  PROVE  q * k >= q
OBVIOUS

LEMMA DivUnique ==
  ASSUME NEW q \in Nat, q > 0, NEW k \in Int, NEW r \in 0 .. q - 1
  PROVE  (q * k + r) \div q = k /\ (q * k + r) % q = r
OBVIOUS

(* The width of a high-bits interval. *)
Width == 2 * Gamma2

(* The parameters of rounding: Highs intervals of Width fill 1 .. Q - 1.   *)
LEMMA Widths ==
  /\ Gamma2 \in Nat /\ Gamma2 > 0 /\ Width \in Nat /\ Width = 2 * Gamma2
  /\ Highs \in Nat /\ Highs >= 2
  /\ Q \in Nat /\ Q = Width * Highs + 1 /\ Q > 0
  /\ \A h \in Int : h >= 1 => Width * h >= Width
  /\ \A h \in Int : Width * (h + 1) = Width * h + Width /\ Width * (h - 1) = Width * h - Width
                    /\ (h * 2) * Gamma2 = Width * h
<1>1. Gamma2 \in Nat /\ Gamma2 > 0 /\ Q \in Nat /\ Highs >= 2 /\ Q = 2 * Gamma2 * Highs + 1 /\ Q > 0
  BY RoundingAssumption
<1>2. Width \in Nat /\ Width > 0 /\ Width = 2 * Gamma2
  BY <1>1 DEF Width
<1>3. Highs \in Nat
  <2>1. Highs \in Int
    BY <1>1, <1>2, DivMod DEF Highs, Width
  <2> QED
    BY <1>1, <2>1
<1>4. \A h \in Int : h >= 1 => Width * h >= Width
  BY <1>2, Positive
<1>5. ASSUME NEW h \in Int
      PROVE  Width * (h + 1) = Width * h + Width /\ Width * (h - 1) = Width * h - Width
             /\ (h * 2) * Gamma2 = Width * h
  BY <1>1, <1>2
<1>6. Q = Width * Highs + 1
  BY <1>1, <1>2, <1>3
<1> QED
  BY <1>1, <1>2, <1>3, <1>4, <1>5, <1>6

(* decompose, for an a given by its interval k and its place d in there.   *)
LEMMA Decomposed ==
  ASSUME NEW a \in 0 .. Q - 1, NEW k \in 0 .. Highs, NEW d \in 1 - Gamma2 .. Gamma2,
         a = Width * k + d
  PROVE  /\ k < Highs => HighBits(a) = k /\ LowBits(a) = d
         /\ k = Highs => HighBits(a) = 0 /\ LowBits(a) = d - 1
<1>1. (a + Gamma2 - 1) \div (2 * Gamma2) = k
  <2> DEFINE r == d + Gamma2 - 1
  <2>1. r \in 0 .. Width - 1 /\ a + Gamma2 - 1 = Width * k + r /\ Width > 0
    BY Widths
  <2> HIDE DEF r
  <2>2. (Width * k + r) \div Width = k
    BY <2>1, Widths, DivUnique
  <2> QED
    BY <2>1, <2>2, Widths
<1>2. CASE k < Highs
  <2>1. HighBits(a) = k
    <3>1. (Highs * 0 + k) % Highs = k
      BY <1>2, Widths, DivUnique
    <3>2. k % Highs = k
      BY <3>1, Widths
    <3> QED
      BY <1>1, <3>2 DEF HighBits
  <2>2. a - HighBits(a) * 2 * Gamma2 = d
    BY <2>1, Widths
  <2>3. ~(2 * d > Q - 1)
    BY Widths
  <2> QED
    BY <1>2, <2>1, <2>2, <2>3 DEF LowBits
<1>3. CASE k = Highs
  <2>1. HighBits(a) = 0
    <3>1. (Highs * 1 + 0) % Highs = 0
      BY Widths, DivUnique
    <3> QED
      BY <1>1, <1>3, <3>1, Widths DEF HighBits
  <2>2. a - HighBits(a) * 2 * Gamma2 = a
    BY <2>1, Widths
  <2>3. 2 * a > Q - 1 /\ a - Q = d - 1
    BY <1>3, Widths
  <2> QED
    BY <1>3, <2>1, <2>2, <2>3, Widths DEF LowBits
<1> QED
  BY <1>2, <1>3

(* What decompose takes apart it takes apart exactly, modulo Q.            *)
LEMMA DecomposeFacts ==
  ASSUME NEW a \in 0 .. Q - 1
  PROVE  /\ HighBits(a) \in 0 .. Highs - 1
         /\ LowBits(a) \in Int
         /\ \E m \in Int : a = Width * HighBits(a) + LowBits(a) + Q * m
<1> DEFINE b == a + Gamma2 - 1
           k == b \div Width
           d == (b % Width) - Gamma2 + 1
<1>1. b \in Int /\ Width \in Nat /\ Width > 0 /\ 0 <= b /\ b < Width * Highs + Width
  BY Widths
<1>2. k \in Int /\ b % Width \in 0 .. Width - 1 /\ b = Width * k + (b % Width)
  <2> HIDE DEF b
  <2> QED
    BY <1>1, DivMod
<1>3. d \in 1 - Gamma2 .. Gamma2 /\ a = Width * k + d
  <2> HIDE DEF k
  <2> QED
    BY <1>1, <1>2, Widths
<1>4. k \in 0 .. Highs
  <2> HIDE DEF k, b
  <2>1. ASSUME k < 0 PROVE FALSE
    <3>1. Width * (-k) >= Width
      BY <1>2, <2>1, Widths
    <3>2. Width * k <= -Width
      BY <1>1, <1>2, <3>1
    <3> QED
      BY <1>1, <1>2, <3>2
  <2>2. ASSUME k > Highs PROVE FALSE
    <3>1. Width * (k - Highs) >= Width
      BY <1>2, <2>2, Widths
    <3>2. Width * k >= Width * Highs + Width
      BY <1>1, <1>2, <3>1, Widths
    <3>3. b % Width >= 0 /\ b % Width \in Int /\ Width * k \in Int /\ Width * Highs \in Int
      BY <1>1, <1>2, Widths
    <3> HIDE DEF b, k
    <3> QED
      BY <1>1, <1>2, <3>2, <3>3
  <2> QED
    BY <1>2, <2>1, <2>2, Widths
<1> HIDE DEF k, d
<1>5. CASE k < Highs
  <2>1. HighBits(a) = k /\ LowBits(a) = d
    BY <1>3, <1>4, <1>5, Decomposed
  <2>2. a = Width * k + d + Q * 0
    BY <1>3, <1>4, Widths
  <2>3. a = Width * HighBits(a) + LowBits(a) + Q * 0
    BY <2>1, <2>2
  <2>4. HighBits(a) \in 0 .. Highs - 1 /\ LowBits(a) \in Int
    BY <1>3, <1>4, <1>5, <2>1, Widths
  <2>5. 0 \in Int
    OBVIOUS
  <2> QED
    BY <2>3, <2>4, <2>5, Zenon
<1>6. CASE k = Highs
  <2>1. HighBits(a) = 0 /\ LowBits(a) = d - 1
    BY <1>3, <1>4, <1>6, Decomposed
  <2>2. a = Width * 0 + (d - 1) + Q * 1
    BY <1>3, <1>6, Widths
  <2>3. a = Width * HighBits(a) + LowBits(a) + Q * 1
    BY <2>1, <2>2
  <2>4. HighBits(a) \in 0 .. Highs - 1 /\ LowBits(a) \in Int
    BY <1>3, <2>1, Widths
  <2>5. 1 \in Int
    OBVIOUS
  <2> QED
    BY <2>3, <2>4, <2>5, Zenon
<1> QED
  BY <1>4, <1>5, <1>6, Widths

(* use_hint recovers the high bits h from v, whatever make_hint saw added  *)
(* to their interval, up to a whole width on either side.                  *)
THEOREM HintRecovers ==
  ASSUME NEW h \in 0 .. Highs - 1, NEW a0 \in Int, -Width < a0, a0 < Width,
         NEW v \in 0 .. Q - 1, NEW m \in Int, v = Width * h + a0 + Q * m
  PROVE  UseHint(v, MakeHint(a0, h)) = h
<1>1. Width * h <= Width * Highs - Width /\ Width * h >= 0 /\ Width * h \in Int
  <2>1. CASE h = Highs - 1
    BY <2>1, Widths
  <2>2. CASE h < Highs - 1
    <3>1. Width * (Highs - h) >= Width
      BY <2>2, Widths
    <3> QED
      BY <3>1, Widths
  <2> QED
    BY <2>1, <2>2, Widths
<1>2. /\ Width * h + a0 >= 0 => v = Width * h + a0
      /\ Width * h + a0 < 0 => v = Width * h + a0 + Q
  <2>1. /\ m >= 1 => Q * m >= Q
        /\ m <= -1 => Q * m <= -Q
        /\ m >= 2 => Q * m >= Q + Q
        /\ m = 0 => Q * m = 0
        /\ m = 1 => Q * m = Q
        /\ Q * m \in Int
    BY Widths
  <2> QED
    BY <1>1, <2>1, Widths
<1>3. Width * h + a0 < 0 => h = 0
  <2>1. h >= 1 => Width * h >= Width
    BY Widths
  <2> QED
    BY <2>1, Widths
<1>4. ASSUME NEW x \in 0 .. Highs - 1 PROVE x % Highs = x
  <2>1. (Highs * 0 + x) % Highs = x
    BY Widths, DivUnique
  <2> QED
    BY <2>1, Widths
<1>5. Highs % Highs = 0 /\ (-1) % Highs = Highs - 1
  <2>1. (Highs * 1 + 0) % Highs = 0
    BY Widths, DivUnique
  <2>2. (Highs * (-1) + (Highs - 1)) % Highs = Highs - 1
    BY Widths, DivUnique
  <2>3. Highs * 1 + 0 = Highs /\ Highs * (-1) + (Highs - 1) = -1
    BY Widths
  <2> QED
    BY <2>1, <2>2, <2>3
<1>6. CASE -Gamma2 < a0 /\ a0 <= Gamma2
  <2>1. MakeHint(a0, h) = 0
    BY <1>6, Widths DEF MakeHint
  <2>2. CASE Width * h + a0 >= 0
    BY <1>2, <1>6, <2>1, <2>2, Decomposed, Widths DEF UseHint
  <2>3. CASE Width * h + a0 < 0
    <3>1. h = 0 /\ v = Width * Highs + (1 + a0) /\ 1 + a0 \in 1 - Gamma2 .. Gamma2
      BY <1>1, <1>2, <1>3, <1>6, <2>3, Widths
    <3>2. HighBits(v) = 0
      BY <3>1, Decomposed, Widths
    <3> QED
      BY <2>1, <3>1, <3>2 DEF UseHint
  <2> QED
    BY <1>1, <2>2, <2>3
<1>7. CASE a0 = -Gamma2 /\ h = 0
  <2>1. MakeHint(a0, h) = 0
    BY <1>7, Widths DEF MakeHint
  <2>2. v = Width * Highs + (1 - Gamma2) /\ 1 - Gamma2 \in 1 - Gamma2 .. Gamma2
    BY <1>2, <1>7, Widths
  <2>3. HighBits(v) = 0
    BY <2>2, Decomposed, Widths
  <2> QED
    BY <1>7, <2>1, <2>3 DEF UseHint
<1>8. CASE a0 > Gamma2
  <2>1. MakeHint(a0, h) = 1
    BY <1>8 DEF MakeHint
  <2>2. v = Width * (h + 1) + (a0 - Width) /\ a0 - Width \in 1 - Gamma2 .. Gamma2 /\ a0 - Width < 0
    BY <1>1, <1>2, <1>8, Widths
  <2>3. CASE h + 1 < Highs
    <3>1. HighBits(v) = h + 1 /\ LowBits(v) = a0 - Width
      BY <2>2, <2>3, Decomposed, Widths
    <3> QED
      BY <1>4, <2>1, <2>2, <3>1, Widths DEF UseHint
  <2>4. CASE h + 1 = Highs
    <3>1. HighBits(v) = 0 /\ LowBits(v) = a0 - Width - 1
      <4>1. v = Width * Highs + (a0 - Width) /\ Highs \in 0 .. Highs /\ ~(Highs < Highs)
        BY <2>2, <2>4, Widths
      <4> QED
        BY <2>2, <4>1, Decomposed
    <3> QED
      BY <1>5, <2>1, <2>2, <2>4, <3>1, Widths DEF UseHint
  <2> QED
    BY <2>3, <2>4, Widths
<1>9. CASE a0 < -Gamma2 \/ (a0 = -Gamma2 /\ h # 0)
  <2>1. MakeHint(a0, h) = 1
    BY <1>9, Widths DEF MakeHint
  <2>2. CASE h >= 1
    <3>1. v = Width * (h - 1) + (a0 + Width) /\ a0 + Width \in 1 - Gamma2 .. Gamma2 /\ a0 + Width > 0
      BY <1>1, <1>2, <1>3, <1>9, <2>2, Widths
    <3>2. HighBits(v) = h - 1 /\ LowBits(v) = a0 + Width
      BY <2>2, <3>1, Decomposed, Widths
    <3> QED
      BY <1>4, <2>1, <3>1, <3>2, Widths DEF UseHint
  <2>3. CASE h = 0
    <3>1. /\ v = Width * (Highs - 1) + (a0 + Width + 1)
          /\ a0 + Width + 1 \in 1 - Gamma2 .. Gamma2 /\ a0 + Width + 1 > 0
      BY <1>1, <1>2, <1>9, <2>3, Widths
    <3>2. HighBits(v) = Highs - 1 /\ LowBits(v) = a0 + Width + 1
      BY <3>1, Decomposed, Widths
    <3> QED
      BY <1>5, <2>1, <2>3, <3>1, <3>2, Widths DEF UseHint
  <2> QED
    BY <2>2, <2>3, Widths
<1> QED
  BY <1>6, <1>7, <1>8, <1>9, Widths

(* The two readings of a hint differ.                                      *)
LEMMA HintsDiffer ==
  ASSUME NEW v \in 0 .. Q - 1
  PROVE  UseHint(v, 1) # UseHint(v, 0)
<1>1. HighBits(v) \in 0 .. Highs - 1 /\ LowBits(v) \in Int
  BY DecomposeFacts
<1>2. ASSUME NEW x \in 0 .. Highs - 1 PROVE x % Highs = x
  <2>1. (Highs * 0 + x) % Highs = x
    BY Widths, DivUnique
  <2> QED
    BY <2>1, Widths
<1>3. Highs % Highs = 0 /\ (-1) % Highs = Highs - 1
  <2>1. (Highs * 1 + 0) % Highs = 0
    BY Widths, DivUnique
  <2>2. (Highs * (-1) + (Highs - 1)) % Highs = Highs - 1
    BY Widths, DivUnique
  <2>3. Highs * 1 + 0 = Highs /\ Highs * (-1) + (Highs - 1) = -1
    BY Widths
  <2> QED
    BY <2>1, <2>2, <2>3
<1> DEFINE b == HighBits(v)
<1>4. (b + 1) % Highs # b /\ (b - 1) % Highs # b
  <2> HIDE DEF b
  <2>1. b \in 0 .. Highs - 1
    BY <1>1 DEF b
  <2>2. (b + 1) % Highs # b
    <3>1. CASE b + 1 < Highs
      BY <1>2, <2>1, <3>1, Widths
    <3>2. CASE b + 1 = Highs
      BY <1>3, <2>1, <3>2, Widths
    <3> QED
      BY <2>1, <3>1, <3>2, Widths
  <2>3. (b - 1) % Highs # b
    <3>1. CASE b >= 1
      BY <1>2, <2>1, <3>1, Widths
    <3>2. CASE b = 0
      BY <1>3, <3>2, Widths
    <3> QED
      BY <2>1, <3>1, <3>2
  <2> QED
    BY <2>2, <2>3
<1> QED
  BY <1>4 DEF UseHint

-----------------------------------------------------------------------------
(* The encoding of the hints.                                              *)

Hinted == [Rows -> [Columns -> {0, 1}]]

Rank(S, p)  == Cardinality({q \in S : Before(q, p)})
Count(S, i) == Cardinality({p \in S : p[1] <= i})

LEMMA PackingFacts ==
  /\ K \in Nat /\ N \in Nat /\ Omega \in Nat /\ K > 0 /\ N > 0 /\ Omega < N
  /\ Rows = 0 .. K - 1 /\ Columns = 0 .. N - 1
BY PackingAssumption DEF Rows, Columns

(* Before is a strict total order of the positions.                        *)
LEMMA BeforeOrder ==
  /\ \A p, q \in Rows \X Columns : p = q \/ Before(p, q) \/ Before(q, p)
  /\ \A p \in Rows \X Columns : ~Before(p, p)
  /\ \A p, q, r \in Rows \X Columns : Before(p, q) /\ Before(q, r) => Before(p, r)
  /\ \A p, q \in Rows \X Columns : Before(p, q) => p[1] <= q[1] /\ (p[1] = q[1] => p[2] < q[2])
<1>1. \A p \in Rows \X Columns : p[1] \in Int /\ p[2] \in Int /\ p = <<p[1], p[2]>>
  BY PackingFacts
<1> QED
  BY <1>1 DEF Before

(* Sets of positions are finite.                                           *)
LEMMA PositionsFinite ==
  ASSUME NEW S \in SUBSET (Rows \X Columns)
  PROVE  /\ IsFiniteSet(S) /\ Cardinality(S) \in Nat
         /\ \A T \in SUBSET S : /\ IsFiniteSet(T) /\ Cardinality(T) \in Nat
                                /\ Cardinality(T) <= Cardinality(S)
                                /\ Cardinality(T) = Cardinality(S) => T = S
<1>1. IsFiniteSet(Rows) /\ IsFiniteSet(Columns)
  BY PackingFacts, FS_Interval
<1>2. IsFiniteSet(Rows \X Columns)
  BY <1>1, FS_Product
<1>3. IsFiniteSet(S)
  BY <1>2, FS_Subset
<1>4. Cardinality(S) \in Nat
  BY <1>3, FS_CardinalityType
<1>5. ASSUME NEW T \in SUBSET S
      PROVE  /\ IsFiniteSet(T) /\ Cardinality(T) \in Nat
             /\ Cardinality(T) <= Cardinality(S)
             /\ Cardinality(T) = Cardinality(S) => T = S
  <2>1. /\ IsFiniteSet(T) /\ Cardinality(T) <= Cardinality(S)
        /\ Cardinality(S) = Cardinality(T) => S = T
    BY <1>3, FS_Subset
  <2> QED
    BY <2>1, FS_CardinalityType
<1> QED
  BY <1>3, <1>4, <1>5

(* Among the positions S, the ranks are 0 .. |S| - 1, in order.            *)
LEMMA Ranks ==
  ASSUME NEW S \in SUBSET (Rows \X Columns)
  PROVE  /\ \A p \in S : Rank(S, p) \in 0 .. Cardinality(S) - 1
         /\ \A p, q \in S : Before(p, q) => Rank(S, p) < Rank(S, q)
         /\ \A p, q \in S : Rank(S, p) = Rank(S, q) => p = q
         /\ \A p, q \in S : Rank(S, p) < Rank(S, q) => Before(p, q)
         /\ \A b \in 0 .. Cardinality(S) - 1 : \E p \in S : Rank(S, p) = b
<1> DEFINE Below(p) == {q \in S : Before(q, p)}
<1>1. \A p \in S : p \in Rows \X Columns
  OBVIOUS
<1>2. ASSUME NEW p \in S PROVE Rank(S, p) \in 0 .. Cardinality(S) - 1
  <2>1. Below(p) \in SUBSET S /\ p \notin Below(p)
    BY <1>1, BeforeOrder
  <2>2. Below(p) # S
    BY <2>1
  <2> HIDE DEF Below
  <2>3. Cardinality(Below(p)) \in Nat /\ Cardinality(Below(p)) <= Cardinality(S)
        /\ Cardinality(Below(p)) # Cardinality(S) /\ Cardinality(S) \in Nat
    BY <2>1, <2>2, PositionsFinite
  <2>4. Rank(S, p) = Cardinality(Below(p))
    BY DEF Rank, Below
  <2> QED
    BY <2>3, <2>4
<1>3. ASSUME NEW p \in S, NEW q \in S, Before(p, q) PROVE Rank(S, p) < Rank(S, q)
  <2>1. Below(p) \in SUBSET Below(q) /\ p \in Below(q) /\ p \notin Below(p)
    BY <1>1, <1>3, BeforeOrder
  <2>2. Below(q) \in SUBSET (Rows \X Columns) /\ Below(p) # Below(q)
    BY <2>1
  <2> HIDE DEF Below
  <2>3. Cardinality(Below(p)) \in Nat /\ Cardinality(Below(p)) <= Cardinality(Below(q))
        /\ Cardinality(Below(p)) # Cardinality(Below(q)) /\ Cardinality(Below(q)) \in Nat
    BY <2>1, <2>2, PositionsFinite
  <2>4. Rank(S, p) = Cardinality(Below(p)) /\ Rank(S, q) = Cardinality(Below(q))
    BY DEF Rank, Below
  <2> QED
    BY <2>3, <2>4
<1>4. \A p, q \in S : Rank(S, p) \in Int /\ (p = q \/ Before(p, q) \/ Before(q, p))
  BY <1>1, <1>2, BeforeOrder
<1>5. \A p, q \in S : Rank(S, p) = Rank(S, q) => p = q
  BY <1>3, <1>4
<1>6. \A p, q \in S : Rank(S, p) < Rank(S, q) => Before(p, q)
  BY <1>3, <1>4
<1>7. \A b \in 0 .. Cardinality(S) - 1 : \E p \in S : Rank(S, p) = b
  <2> DEFINE f == [p \in S |-> Rank(S, p)]
             T == 0 .. Cardinality(S) - 1
  <2>1. f \in Injection(S, T)
    BY <1>2, <1>5 DEF Injection, IsInjective
  <2>2. IsFiniteSet(T) /\ Cardinality(T) = Cardinality(S)
    <3> DEFINE n == Cardinality(S)
    <3>1. n \in Nat /\ 0 \in Int /\ n - 1 \in Int
      BY PositionsFinite
    <3> HIDE DEF n
    <3>2. IsFiniteSet(0 .. n - 1) /\ Cardinality(0 .. n - 1) = IF 0 > n - 1 THEN 0 ELSE (n - 1) - 0 + 1
      BY <3>1, FS_Interval
    <3>3. IsFiniteSet(0 .. n - 1) /\ Cardinality(0 .. n - 1) = n
      BY <3>1, <3>2
    <3> QED
      BY <3>3 DEF n
  <2> HIDE DEF f, T
  <2>3. f \in Surjection(S, T)
    BY <2>1, <2>2, FS_Injection
  <2>4. \A b \in T : \E p \in S : f[p] = b
    BY <2>3 DEF Surjection
  <2> QED
    BY <2>4 DEF f, T
<1> QED
  BY <1>2, <1>3, <1>5, <1>6, <1>7

(* The position p of a set is in one of the rows up to i just when its     *)
(* rank is below the count of those rows.                                  *)
LEMMA Counts ==
  ASSUME NEW S \in SUBSET (Rows \X Columns)
  PROVE  /\ \A i \in Int : Count(S, i) \in 0 .. Cardinality(S)
         /\ \A i, k \in Int : i <= k => Count(S, i) <= Count(S, k)
         /\ Count(S, -1) = 0 /\ Count(S, K - 1) = Cardinality(S)
         /\ \A i \in Int : \A p \in S : p[1] <= i <=> Rank(S, p) < Count(S, i)
<1> DEFINE Upto(i)  == {p \in S : p[1] <= i}
           Below(p) == {q \in S : Before(q, p)}
<1>1. \A p \in S : p \in Rows \X Columns /\ p[1] \in Int /\ p[1] >= 0 /\ p[1] <= K - 1
  BY PackingFacts
<1>2. \A i : Count(S, i) = Cardinality(Upto(i))
  BY DEF Count
<1>3. \A i : Upto(i) \in SUBSET S
  OBVIOUS
<1>4. ASSUME NEW i \in Int PROVE Count(S, i) \in 0 .. Cardinality(S)
  <2> HIDE DEF Upto
  <2>1. /\ Cardinality(Upto(i)) \in Nat /\ Cardinality(Upto(i)) <= Cardinality(S)
        /\ Cardinality(S) \in Nat
    BY <1>3, PositionsFinite
  <2> QED
    BY <1>2, <2>1
<1>5. ASSUME NEW i \in Int, NEW k \in Int, i <= k PROVE Count(S, i) <= Count(S, k)
  <2>1. Upto(i) \in SUBSET Upto(k) /\ Upto(k) \in SUBSET (Rows \X Columns)
    BY <1>1, <1>5
  <2> HIDE DEF Upto
  <2> QED
    BY <1>2, <2>1, PositionsFinite
<1>6. Count(S, -1) = 0 /\ Count(S, K - 1) = Cardinality(S)
  <2>1. Upto(-1) = {} /\ Upto(K - 1) = S
    BY <1>1
  <2> QED
    BY <1>2, <2>1, FS_EmptySet
<1>7. ASSUME NEW i \in Int, NEW p \in S, p[1] <= i PROVE Rank(S, p) < Count(S, i)
  <2>1. Below(p) \in SUBSET Upto(i) /\ p \in Upto(i) /\ p \notin Below(p)
    BY <1>1, <1>7, BeforeOrder
  <2>2. Upto(i) \in SUBSET (Rows \X Columns) /\ Below(p) # Upto(i)
    BY <1>1, <2>1
  <2>3. Rank(S, p) = Cardinality(Below(p))
    BY DEF Rank
  <2> HIDE DEF Below, Upto
  <2>4. Cardinality(Below(p)) \in Nat /\ Cardinality(Below(p)) <= Cardinality(Upto(i))
        /\ Cardinality(Below(p)) # Cardinality(Upto(i)) /\ Cardinality(Upto(i)) \in Nat
    BY <2>1, <2>2, PositionsFinite
  <2> QED
    BY <1>2, <2>3, <2>4
<1>8. ASSUME NEW i \in Int, NEW p \in S, ~(p[1] <= i) PROVE Count(S, i) <= Rank(S, p)
  <2>1. Upto(i) \in SUBSET Below(p) /\ Below(p) \in SUBSET (Rows \X Columns)
    BY <1>1, <1>8 DEF Before
  <2>2. Rank(S, p) = Cardinality(Below(p))
    BY DEF Rank
  <2> HIDE DEF Below, Upto
  <2> QED
    BY <1>2, <2>1, <2>2, PositionsFinite
<1>9. ASSUME NEW i \in Int, NEW p \in S PROVE p[1] <= i <=> Rank(S, p) < Count(S, i)
  <2>1. Rank(S, p) \in Int /\ Count(S, i) \in Int
    BY <1>4, Ranks
  <2> QED
    BY <1>7, <1>8, <2>1
<1> QED
  BY <1>4, <1>5, <1>6, <1>9

(* What pack_sig writes, in terms of the set S of set hints.               *)
LEMMA PackedBytes ==
  ASSUME NEW h, NEW S, S = SetHints(h), Cardinality(S) <= Omega
  PROVE  /\ PackHints(h) = [b \in 0 .. Omega + K - 1 |-> PackHints(h)[b]]
         /\ \A i \in Rows : /\ Last(PackHints(h), i) = Count(S, i)
                            /\ First(PackHints(h), i) = Count(S, i - 1)
         /\ \A p \in S : PackHints(h)[Rank(S, p)] = p[2]
         /\ \A b \in Cardinality(S) .. Omega - 1 : PackHints(h)[b] = 0
<1> DEFINE e == PackHints(h)
           Byte(b) == IF b >= Omega THEN Count(S, b - Omega)
                      ELSE IF \E p \in S : Rank(S, p) = b
                           THEN (CHOOSE p \in S : Rank(S, p) = b)[2]
                           ELSE 0
<1>1. S \in SUBSET (Rows \X Columns) /\ Cardinality(S) \in Nat
  <2>1. S \in SUBSET (Rows \X Columns)
    BY DEF SetHints
  <2> QED
    BY <2>1, PositionsFinite
<1>2. e = [b \in 0 .. Omega + K - 1 |-> Byte(b)]
  BY DEF PackHints, Rank, Count
<1> HIDE DEF e
<1>3. ASSUME NEW i \in Rows PROVE Last(e, i) = Count(S, i)
  <2>1. Omega + i \in 0 .. Omega + K - 1 /\ Omega + i >= Omega /\ (Omega + i) - Omega = i
    BY PackingFacts
  <2>2. Byte(Omega + i) = Count(S, i)
    BY <2>1
  <2> HIDE DEF Byte
  <2> QED
    BY <1>2, <2>1, <2>2 DEF Last
<1>4. ASSUME NEW i \in Rows PROVE First(e, i) = Count(S, i - 1)
  <2>1. CASE i = 0
    BY <1>1, <2>1, Counts DEF First
  <2>2. CASE i # 0
    <3>1. i - 1 \in Rows /\ Omega + i - 1 = Omega + (i - 1)
      BY <2>2, PackingFacts
    <3>2. First(e, i) = Last(e, i - 1)
      BY <2>2, <3>1 DEF First, Last
    <3> QED
      BY <1>3, <3>1, <3>2
  <2> QED
    BY <2>1, <2>2
<1>5. ASSUME NEW p \in S PROVE e[Rank(S, p)] = p[2]
  <2> DEFINE b == Rank(S, p)
  <2>1. b \in 0 .. Cardinality(S) - 1
    BY <1>1, Ranks
  <2>2. b \in 0 .. Omega + K - 1 /\ ~(b >= Omega)
    BY <1>1, <2>1, PackingFacts
  <2>3. (CHOOSE q \in S : Rank(S, q) = b) = p
    BY <1>1, Ranks
  <2>4. Byte(b) = p[2]
    BY <2>2, <2>3
  <2> HIDE DEF Byte
  <2> QED
    BY <1>2, <2>2, <2>4
<1>6. ASSUME NEW b \in Cardinality(S) .. Omega - 1 PROVE e[b] = 0
  <2>1. b \in 0 .. Omega + K - 1 /\ ~(b >= Omega)
    BY <1>1, PackingFacts
  <2>2. ~\E p \in S : Rank(S, p) = b
    BY <1>1, Ranks
  <2>3. Byte(b) = 0
    BY <2>1, <2>2
  <2> HIDE DEF Byte
  <2> QED
    BY <1>2, <2>1, <2>3
<1>7. e = [b \in 0 .. Omega + K - 1 |-> e[b]]
  <2> HIDE DEF Byte
  <2> QED
    BY <1>2
<1> QED
  BY <1>3, <1>4, <1>5, <1>6, <1>7 DEF e

(* unpack_sig accepts what pack_sig wrote, and reads the same hints.       *)
THEOREM PackedUnpacks ==
  ASSUME NEW h \in Hinted, Cardinality(SetHints(h)) <= Omega
  PROVE  WellFormed(PackHints(h)) /\ UnpackHints(PackHints(h)) = h
<1> DEFINE e == PackHints(h)
           S == SetHints(h)
           n == Cardinality(S)
<1>1. S \in SUBSET (Rows \X Columns) /\ \A p \in S : p[1] \in Rows /\ p[2] \in Columns /\ p = <<p[1], p[2]>>
  BY DEF SetHints
<1>2. n \in Nat /\ n <= Omega
  BY <1>1, PositionsFinite
<1>3. /\ \A i \in Rows : Last(e, i) = Count(S, i) /\ First(e, i) = Count(S, i - 1)
      /\ \A p \in S : e[Rank(S, p)] = p[2]
      /\ \A b \in n .. Omega - 1 : e[b] = 0
  BY PackedBytes
<1>4. \A i \in Rows : \A j \in Columns : h[i][j] = IF <<i, j>> \in S THEN 1 ELSE 0
  BY DEF SetHints, Hinted
<1> HIDE DEF e, S
<1>5. \A i \in Rows : i \in Int /\ i - 1 \in Int
  BY PackingFacts
<1>6. ASSUME NEW i \in Rows, NEW b \in First(e, i) .. Last(e, i) - 1
      PROVE  \E p \in S : Rank(S, p) = b /\ p[1] = i /\ e[b] = p[2]
  <2>1. Count(S, i) \in 0 .. n /\ Count(S, i - 1) \in 0 .. n
    BY <1>1, <1>5, Counts
  <2>2. b \in 0 .. n - 1 /\ b < Count(S, i) /\ ~(b < Count(S, i - 1))
    BY <1>2, <1>3, <2>1
  <2>3. PICK p \in S : Rank(S, p) = b
    BY <1>1, <2>2, Ranks
  <2>4. p[1] <= i /\ ~(p[1] <= i - 1)
    BY <1>1, <1>5, <2>2, <2>3, Counts
  <2>5. p[1] = i
    BY <1>1, <2>4, PackingFacts
  <2> QED
    BY <1>3, <2>3, <2>5
<1>7. ASSUME NEW i \in Rows, NEW j \in Columns
      PROVE  (\E b \in First(e, i) .. Last(e, i) - 1 : e[b] = j) <=> <<i, j>> \in S
  <2>1. ASSUME NEW b \in First(e, i) .. Last(e, i) - 1, e[b] = j PROVE <<i, j>> \in S
    BY <1>1, <1>6, <2>1
  <2>2. ASSUME <<i, j>> \in S PROVE \E b \in First(e, i) .. Last(e, i) - 1 : e[b] = j
    <3> DEFINE p == <<i, j>>
               b == Rank(S, p)
    <3>1. p \in S /\ p[1] = i /\ p[2] = j /\ b \in 0 .. n - 1
      BY <1>1, <2>2, Ranks
    <3>2. p[1] <= i /\ ~(p[1] <= i - 1)
      BY <1>5, <3>1
    <3> HIDE DEF p
    <3>3. b < Count(S, i) /\ ~(b < Count(S, i - 1))
      BY <1>1, <1>5, <3>1, <3>2, Counts
    <3>4. Count(S, i) \in 0 .. n /\ Count(S, i - 1) \in 0 .. n
      BY <1>1, <1>5, Counts
    <3>5. b \in First(e, i) .. Last(e, i) - 1
      BY <1>2, <1>3, <3>1, <3>3, <3>4
    <3>6. e[b] = j
      BY <1>3, <3>1
    <3> QED
      BY <3>5, <3>6
  <2> QED
    BY <2>1, <2>2
<1>8. UnpackHints(e) = h
  <2> DEFINE Set(i, j) == \E b \in First(e, i) .. Last(e, i) - 1 : e[b] = j
  <2>1. \A i \in Rows : \A j \in Columns : (IF Set(i, j) THEN 1 ELSE 0) = h[i][j]
    BY <1>4, <1>7
  <2>2. UnpackHints(e) = [i \in Rows |-> [j \in Columns |-> IF Set(i, j) THEN 1 ELSE 0]]
    BY DEF UnpackHints
  <2> HIDE DEF Set
  <2>3. \A i \in Rows : [j \in Columns |-> IF Set(i, j) THEN 1 ELSE 0] = h[i]
    BY <2>1 DEF Hinted
  <2> QED
    BY <2>2, <2>3 DEF Hinted
<1>9. WellFormed(e)
  <2>1. ASSUME NEW i \in Rows PROVE First(e, i) <= Last(e, i) /\ Last(e, i) <= Omega
    <3>1. Count(S, i) \in 0 .. n /\ Count(S, i - 1) <= Count(S, i)
      BY <1>1, <1>5, Counts
    <3> QED
      BY <1>2, <1>3, <3>1, PackingFacts
  <2>2. ASSUME NEW i \in Rows, NEW b \in First(e, i) + 1 .. Last(e, i) - 1 PROVE e[b - 1] < e[b]
    <3>1. Count(S, i) \in 0 .. n /\ Count(S, i - 1) \in 0 .. n
      BY <1>1, <1>5, Counts
    <3>2. b \in First(e, i) .. Last(e, i) - 1 /\ b - 1 \in First(e, i) .. Last(e, i) - 1 /\ b - 1 < b
      BY <1>2, <1>3, <3>1
    <3>3. PICK p \in S : Rank(S, p) = b /\ p[1] = i /\ e[b] = p[2]
      BY <1>6, <3>2
    <3>4. PICK q \in S : Rank(S, q) = b - 1 /\ q[1] = i /\ e[b - 1] = q[2]
      BY <1>6, <3>2
    <3>5. Before(q, p)
      BY <1>1, <3>2, <3>3, <3>4, Ranks
    <3> QED
      BY <1>1, <3>3, <3>4, <3>5, BeforeOrder
  <2>3. Last(e, K - 1) = n
    <3>1. K - 1 \in Rows
      BY PackingFacts
    <3> QED
      BY <1>1, <1>3, <3>1, Counts
  <2> QED
    BY <1>3, <2>1, <2>2, <2>3 DEF WellFormed
<1> QED
  BY <1>8, <1>9 DEF e

(* The counts of a well-formed encoding do not fall.                       *)
LEMMA CountsRise ==
  ASSUME NEW e \in Encodings, WellFormed(e)
  PROVE  /\ \A i \in Rows : First(e, i) \in 0 .. Omega /\ Last(e, i) \in 0 .. Omega
         /\ \A i \in Rows : i # 0 => First(e, i) = Last(e, i - 1)
         /\ First(e, 0) = 0
         /\ \A i, k \in Rows : i <= k => Last(e, i) <= Last(e, k)
<1>1. \A b \in 0 .. Omega + K - 1 : e[b] \in Nat
  BY PackingFacts DEF Encodings
<1>2. ASSUME NEW i \in Rows PROVE Last(e, i) \in 0 .. Omega
  <2>1. Omega + i \in 0 .. Omega + K - 1 /\ Last(e, i) <= Omega
    BY PackingFacts DEF WellFormed
  <2> QED
    BY <1>1, <2>1, PackingFacts DEF Last
<1>3. ASSUME NEW i \in Rows, i # 0 PROVE First(e, i) = Last(e, i - 1)
  BY <1>3, PackingFacts DEF First, Last
<1>4. First(e, 0) = 0
  BY DEF First
<1>5. ASSUME NEW i \in Rows PROVE First(e, i) \in 0 .. Omega
  <2>1. i # 0 => i - 1 \in Rows
    BY PackingFacts
  <2> QED
    BY <1>2, <1>3, <1>4, <2>1, PackingFacts
<1>6. ASSUME NEW i \in Rows PROVE \A k \in Rows : i <= k => Last(e, i) <= Last(e, k)
  <2> DEFINE S == {k \in 0 .. K - 1 : i <= k => Last(e, i) <= Last(e, k)}
  <2>1. 0 \in S
    BY <1>2, PackingFacts
  <2>2. ASSUME NEW k \in 0 .. (K - 1) - 1, k \in S PROVE k + 1 \in S
    <3>1. k \in Rows /\ k + 1 \in Rows /\ k + 1 # 0 /\ (k + 1) - 1 = k
      BY PackingFacts
    <3>2. Last(e, k) <= Last(e, k + 1)
      BY <1>3, <3>1 DEF WellFormed
    <3>3. Last(e, k) \in Int /\ Last(e, k + 1) \in Int /\ Last(e, i) \in Int
      BY <1>2, <3>1
    <3> QED
      BY <2>2, <3>1, <3>2, <3>3, PackingFacts
  <2> HIDE DEF S
  <2>3. K - 1 \in Nat
    BY PackingFacts
  <2>4. \A k \in 0 .. K - 1 : k \in S
    BY <2>1, <2>2, <2>3, InductionTo
  <2> QED
    BY <2>4, PackingFacts DEF S
<1> QED
  BY <1>2, <1>3, <1>4, <1>5, <1>6

(* Byte b holds a position of row i.                                       *)
InRow(e, b, i) == b \in First(e, i) .. Last(e, i) - 1

(* The bytes in use, in their order, hold positions in theirs.             *)
LEMMA BytesInOrder ==
  ASSUME NEW e \in Encodings, WellFormed(e)
  PROVE  /\ Last(e, K - 1) \in 0 .. Omega
         /\ \A b \in 0 .. Last(e, K - 1) - 1 : \E i \in Rows : InRow(e, b, i)
         /\ \A i \in Rows : \A b : InRow(e, b, i) => b \in 0 .. Last(e, K - 1) - 1 /\ e[b] \in Columns
         /\ \A i, k \in Rows : \A b, c : InRow(e, b, i) /\ InRow(e, c, k) /\ b < c =>
               Before(<<i, e[b]>>, <<k, e[c]>>)
<1>1. K - 1 \in Rows
  BY PackingFacts
<1>2. Last(e, K - 1) \in 0 .. Omega
  BY <1>1, CountsRise
<1>3. ASSUME NEW b \in 0 .. Last(e, K - 1) - 1 PROVE \E i \in Rows : InRow(e, b, i)
  <2> DEFINE T == {i \in Rows : b < Last(e, i)}
  <2>1. K - 1 \in T /\ T \in SUBSET Nat
    BY <1>1, <1>2, PackingFacts
  <2> HIDE DEF T
  <2>2. PICK i \in T : \A k \in T : i <= k
    BY <2>1, Least
  <2>3. i \in Rows /\ b < Last(e, i) /\ Last(e, i) \in Int /\ First(e, i) \in Int
    BY <2>2, CountsRise DEF T
  <2>4. First(e, i) <= b
    <3>1. CASE i = 0
      BY <3>1, CountsRise
    <3>2. CASE i # 0
      <4>1. i - 1 \in Rows /\ ~(i <= i - 1)
        BY <2>3, <3>2, PackingFacts
      <4>2. ~(b < Last(e, i - 1)) /\ Last(e, i - 1) \in Int
        BY <2>2, <4>1, CountsRise DEF T
      <4>3. First(e, i) = Last(e, i - 1)
        BY <2>3, <3>2, CountsRise
      <4> QED
        BY <4>2, <4>3
    <3> QED
      BY <3>1, <3>2
  <2> QED
    BY <2>3, <2>4 DEF InRow
<1>4. ASSUME NEW i \in Rows, NEW b, InRow(e, b, i)
      PROVE  b \in 0 .. Last(e, K - 1) - 1 /\ e[b] \in Columns
  <2>1. /\ First(e, i) \in 0 .. Omega /\ Last(e, i) \in 0 .. Omega /\ i <= K - 1
        /\ Last(e, i) <= Last(e, K - 1)
    BY <1>1, CountsRise, PackingFacts
  <2>2. b \in 0 .. Last(e, K - 1) - 1
    BY <1>2, <1>4, <2>1 DEF InRow
  <2>3. b \in 0 .. Omega + K - 1
    BY <1>2, <2>2, PackingFacts
  <2> QED
    BY <2>2, <2>3 DEF Encodings
<1>5. ASSUME NEW i \in Rows, NEW b, InRow(e, b, i)
      PROVE  \A c : InRow(e, c, i) /\ b < c => e[b] < e[c]
  <2>1. First(e, i) \in 0 .. Omega /\ Last(e, i) \in 0 .. Omega
    BY CountsRise
  <2>2. b \in Nat /\ Last(e, i) - 1 - b \in Nat
    BY <1>5, <2>1 DEF InRow
  <2> DEFINE m == Last(e, i) - 1 - b
             S == {d \in 0 .. m : d > 0 => e[b] < e[b + d]}
  <2>3. 0 \in S
    BY <2>2
  <2>4. ASSUME NEW d \in 0 .. m - 1, d \in S PROVE d + 1 \in S
    <3>1. b + d + 1 \in First(e, i) + 1 .. Last(e, i) - 1 /\ (b + d + 1) - 1 = b + d
      BY <1>5, <2>1, <2>2 DEF InRow
    <3>2. e[b + d] < e[b + d + 1]
      BY <3>1 DEF WellFormed
    <3>3. InRow(e, b + d, i) /\ InRow(e, b + d + 1, i)
      BY <1>5, <2>1, <2>2, <3>1 DEF InRow
    <3>4. e[b] \in Int /\ e[b + d] \in Int /\ e[b + d + 1] \in Int
      BY <1>4, <1>5, <3>3, PackingFacts
    <3>5. e[b] < e[b + d + 1]
      <4>1. CASE d = 0
        BY <2>2, <3>2, <4>1
      <4>2. CASE d # 0
        BY <2>4, <3>2, <3>4, <4>2
      <4> QED
        BY <4>1, <4>2
    <3>6. b + (d + 1) = b + d + 1 /\ d + 1 \in 0 .. m
      BY <2>2
    <3> QED
      BY <3>5, <3>6
  <2> HIDE DEF S
  <2>5. m \in Nat
    BY <2>2
  <2>6. \A d \in 0 .. m : d \in S
    BY <2>3, <2>4, <2>5, InductionTo
  <2>7. ASSUME NEW c, InRow(e, c, i), b < c PROVE e[b] < e[c]
    <3>1. c - b \in 0 .. m /\ c - b > 0 /\ b + (c - b) = c
      BY <2>1, <2>2, <2>7 DEF InRow
    <3> QED
      BY <2>6, <3>1 DEF S
  <2> QED
    BY <2>7
<1>6. ASSUME NEW i \in Rows, NEW k \in Rows, NEW b, NEW c, InRow(e, b, i), InRow(e, c, k), b < c
      PROVE  Before(<<i, e[b]>>, <<k, e[c]>>)
  <2>1. CASE i < k
    BY <2>1 DEF Before
  <2>2. CASE i = k
    BY <1>5, <1>6, <2>2 DEF Before
  <2>3. CASE i > k
    <3>1. i # 0 /\ i - 1 \in Rows /\ k <= i - 1
      BY <2>3, PackingFacts
    <3>2. Last(e, k) <= First(e, i) /\ Last(e, k) \in Int /\ First(e, i) \in Int /\ Last(e, i) \in Int
          /\ First(e, k) \in Int
      BY <3>1, CountsRise
    <3> QED
      BY <1>6, <3>2 DEF InRow
  <2> QED
    BY <2>1, <2>2, <2>3, PackingFacts
<1> QED
  BY <1>2, <1>3, <1>4, <1>6

(* An injective function takes b values on its first b arguments.          *)
LEMMA CountFirst ==
  ASSUME NEW t \in Nat, NEW f, \A x, y \in 0 .. t - 1 : f[x] = f[y] => x = y,
         NEW b \in 0 .. t, NEW T, T = {f[x] : x \in 0 .. b - 1}
  PROVE  IsFiniteSet(T) /\ Cardinality(T) = b
<1> DEFINE g == [x \in 0 .. b - 1 |-> f[x]]
           B == 0 .. b - 1
<1>1. g \in Bijection(B, T)
  <2>1. g \in Injection(B, T)
    BY DEF Injection, IsInjective
  <2>2. g \in Surjection(B, T)
    BY DEF Surjection
  <2> QED
    BY <2>1, <2>2 DEF Bijection
<1>2. IsFiniteSet(B) /\ Cardinality(B) = b
  <2>1. IsFiniteSet(B) /\ Cardinality(B) = IF 0 > b - 1 THEN 0 ELSE (b - 1) - 0 + 1
    BY FS_Interval
  <2> QED
    BY <2>1
<1> HIDE DEF g, B
<1>3. ExistsBijection(B, T)
  BY <1>1 DEF ExistsBijection
<1> QED
  BY <1>2, <1>3, FS_Bijection

(* pack_sig writes the very bytes that unpack_sig accepted: no hints have  *)
(* a second encoding.                                                      *)
THEOREM UnpackedPacks ==
  ASSUME NEW e \in Encodings, WellFormed(e)
  PROVE  PackHints(UnpackHints(e)) = e
<1> DEFINE h == UnpackHints(e)
           S == SetHints(h)
           t == Last(e, K - 1)
           Row(b) == CHOOSE i \in Rows : InRow(e, b, i)
           f == [b \in 0 .. t - 1 |-> <<Row(b), e[b]>>]
<1>1. t \in 0 .. Omega /\ t \in Nat
  BY BytesInOrder
<1>2. ASSUME NEW b \in 0 .. t - 1
      PROVE  Row(b) \in Rows /\ InRow(e, b, Row(b)) /\ e[b] \in Columns
  <2>1. \E i \in Rows : InRow(e, b, i)
    BY BytesInOrder
  <2>2. Row(b) \in Rows /\ InRow(e, b, Row(b))
    BY <2>1
  <2> QED
    BY <2>2, BytesInOrder
<1>3. ASSUME NEW b \in 0 .. t - 1 PROVE f[b] = <<Row(b), e[b]>> /\ f[b] \in Rows \X Columns
  BY <1>2
<1>4. \A b \in 0 .. t - 1 : InRow(e, b, f[b][1]) /\ f[b][2] = e[b] /\ f[b][1] \in Rows
  BY <1>2, <1>3
<1> HIDE DEF Row, f
<1>5. ASSUME NEW b \in 0 .. t - 1, NEW c \in 0 .. t - 1, b < c PROVE Before(f[b], f[c])
  <2>1. f[b] = <<f[b][1], e[b]>> /\ f[c] = <<f[c][1], e[c]>>
    BY <1>3
  <2>2. InRow(e, b, f[b][1]) /\ InRow(e, c, f[c][1]) /\ f[b][1] \in Rows /\ f[c][1] \in Rows
    BY <1>4
  <2>3. Before(<<f[b][1], e[b]>>, <<f[c][1], e[c]>>)
    BY <1>5, <2>2, BytesInOrder
  <2> QED
    BY <2>1, <2>3, Zenon
<1>6. \A b, c \in 0 .. t - 1 : /\ f[b] = f[c] => b = c
                               /\ Before(f[b], f[c]) => b < c
  <2> SUFFICES ASSUME NEW b \in 0 .. t - 1, NEW c \in 0 .. t - 1
               PROVE  (f[b] = f[c] => b = c) /\ (Before(f[b], f[c]) => b < c)
    OBVIOUS
  <2>1. CASE b < c
    BY <1>3, <1>5, <2>1, BeforeOrder
  <2>2. CASE b = c
    BY <1>3, <2>2, BeforeOrder
  <2>3. CASE c < b
    <3>1. Before(f[c], f[b]) /\ f[b] \in Rows \X Columns /\ f[c] \in Rows \X Columns
      BY <1>3, <1>5, <2>3
    <3>2. ~Before(f[b], f[c]) /\ f[b] # f[c]
      BY <3>1, BeforeOrder
    <3> QED
      BY <3>2
  <2> QED
    BY <1>1, <2>1, <2>2, <2>3
<1>7. S = {f[b] : b \in 0 .. t - 1}
  <2>1. ASSUME NEW b \in 0 .. t - 1 PROVE f[b] \in S
    <3>1. f[b][1] \in Rows /\ f[b][2] = e[b] /\ e[b] \in Columns /\ InRow(e, b, f[b][1])
      BY <1>2, <1>4
    <3>2. h[f[b][1]][f[b][2]] = 1
      BY <3>1 DEF UnpackHints, InRow
    <3> QED
      BY <1>3, <3>2 DEF SetHints
  <2>2. ASSUME NEW p \in S PROVE \E b \in 0 .. t - 1 : p = f[b]
    <3>1. p[1] \in Rows /\ p[2] \in Columns /\ p = <<p[1], p[2]>> /\ h[p[1]][p[2]] # 0
      BY DEF SetHints
    <3>2. PICK b \in First(e, p[1]) .. Last(e, p[1]) - 1 : e[b] = p[2]
      BY <3>1 DEF UnpackHints
    <3>3. InRow(e, b, p[1]) /\ b \in 0 .. t - 1
      BY <3>1, <3>2, BytesInOrder DEF InRow
    <3>4. f[b][1] = p[1]
      <4>1. ASSUME NEW i \in Rows, NEW k \in Rows, InRow(e, b, i), InRow(e, b, k), i < k PROVE FALSE
        <5>1. k # 0 /\ k - 1 \in Rows /\ i <= k - 1
          BY <4>1, PackingFacts
        <5>2. Last(e, i) <= First(e, k) /\ Last(e, i) \in Int /\ First(e, k) \in Int
              /\ First(e, i) \in Int /\ Last(e, k) \in Int
          BY <5>1, CountsRise
        <5> QED
          BY <4>1, <5>2 DEF InRow
      <4> QED
        BY <1>4, <3>1, <3>3, <4>1, PackingFacts
    <3>5. f[b] = p
      BY <1>3, <1>4, <3>1, <3>2, <3>3, <3>4
    <3> QED
      BY <3>3, <3>5
  <2> QED
    BY <2>1, <2>2
<1> HIDE DEF S
<1>8. S \in SUBSET (Rows \X Columns) /\ Cardinality(S) = t
  <2>1. S \in SUBSET (Rows \X Columns)
    BY <1>3, <1>7
  <2>2. t \in 0 .. t
    BY <1>1
  <2> HIDE DEF t
  <2> QED
    BY <1>1, <1>6, <1>7, <2>1, <2>2, CountFirst
<1>9. ASSUME NEW b \in 0 .. t - 1 PROVE Rank(S, f[b]) = b
  <2> DEFINE T == {q \in S : Before(q, f[b])}
  <2>1. T = {f[x] : x \in 0 .. b - 1}
    <3>1. ASSUME NEW x \in 0 .. b - 1 PROVE f[x] \in T
      BY <1>1, <1>5, <1>7
    <3>2. ASSUME NEW q \in T PROVE \E x \in 0 .. b - 1 : q = f[x]
      <4>1. PICK x \in 0 .. t - 1 : q = f[x]
        BY <1>7
      <4>2. x < b
        BY <1>6, <4>1
      <4> QED
        BY <1>1, <4>1, <4>2
    <3> QED
      BY <3>1, <3>2
  <2>2. b \in 0 .. t
    BY <1>1
  <2> HIDE DEF T, t
  <2>3. Cardinality(T) = b
    BY <1>1, <1>6, <2>1, <2>2, CountFirst
  <2> QED
    BY <2>3 DEF Rank, T
<1>10. ASSUME NEW i \in Rows PROVE Count(S, i) = Last(e, i)
  <2> DEFINE T == {p \in S : p[1] <= i}
             n == Last(e, i)
  <2>1. n \in 0 .. t
    <3>1. K - 1 \in Rows /\ i <= K - 1
      BY PackingFacts
    <3> QED
      BY <1>1, <3>1, CountsRise
  <2>2. ASSUME NEW b \in 0 .. t - 1 PROVE f[b][1] <= i <=> b < n
    <3>1. InRow(e, b, f[b][1]) /\ f[b][1] \in Rows
      BY <1>4
    <3>2. CASE f[b][1] <= i
      <4>1. Last(e, f[b][1]) <= n /\ Last(e, f[b][1]) \in Int /\ First(e, f[b][1]) \in Int
        BY <3>1, <3>2, CountsRise
      <4> QED
        BY <2>1, <3>1, <3>2, <4>1 DEF InRow
    <3>3. CASE ~(f[b][1] <= i)
      <4>1. f[b][1] # 0 /\ f[b][1] - 1 \in Rows /\ i <= f[b][1] - 1
        BY <3>1, <3>3, PackingFacts
      <4>2. n <= First(e, f[b][1]) /\ First(e, f[b][1]) \in Int /\ Last(e, f[b][1]) \in Int
        BY <3>1, <4>1, CountsRise
      <4> QED
        BY <2>1, <3>1, <3>3, <4>2 DEF InRow
    <3> QED
      BY <3>2, <3>3
  <2>3. T = {f[x] : x \in 0 .. n - 1}
    <3>1. ASSUME NEW x \in 0 .. n - 1 PROVE f[x] \in T
      BY <1>1, <1>7, <2>1, <2>2
    <3>2. ASSUME NEW q \in T PROVE \E x \in 0 .. n - 1 : q = f[x]
      <4>1. PICK x \in 0 .. t - 1 : q = f[x]
        BY <1>7
      <4>2. x < n
        BY <2>2, <4>1
      <4> QED
        BY <1>1, <2>1, <4>1, <4>2
    <3> QED
      BY <3>1, <3>2
  <2> HIDE DEF T, t, n
  <2>4. Cardinality(T) = n
    BY <1>1, <1>6, <2>1, <2>3, CountFirst
  <2> QED
    BY <2>4 DEF Count, T, n
<1>11. /\ PackHints(h) = [b \in 0 .. Omega + K - 1 |-> PackHints(h)[b]]
       /\ \A i \in Rows : Last(PackHints(h), i) = Count(S, i)
       /\ \A p \in S : PackHints(h)[Rank(S, p)] = p[2]
       /\ \A b \in Cardinality(S) .. Omega - 1 : PackHints(h)[b] = 0
  <2>1. Cardinality(S) <= Omega
    BY <1>1, <1>8
  <2> HIDE DEF h, t
  <2> QED
    BY <2>1, PackedBytes DEF S
<1>12. ASSUME NEW b \in 0 .. Omega + K - 1 PROVE PackHints(h)[b] = e[b]
  <2> HIDE DEF h
  <2>1. CASE b < t
    <3>1. b \in 0 .. t - 1
      BY <1>1, <2>1
    <3>2. f[b] \in S /\ Rank(S, f[b]) = b /\ f[b][2] = e[b]
      BY <1>4, <1>7, <1>9, <3>1
    <3> QED
      BY <1>11, <3>2
  <2>2. CASE b >= t /\ b < Omega
    <3>1. b \in Cardinality(S) .. Omega - 1
      BY <1>1, <1>8, <2>2, PackingFacts
    <3>2. e[b] = 0
      BY <1>8, <3>1 DEF WellFormed
    <3> QED
      BY <1>11, <3>1, <3>2
  <2>3. CASE b >= Omega
    <3>1. b - Omega \in Rows /\ Omega + (b - Omega) = b
      BY <2>3, PackingFacts
    <3>2. Last(PackHints(h), b - Omega) = Last(e, b - Omega)
      BY <1>10, <1>11, <3>1
    <3> QED
      BY <3>1, <3>2 DEF Last
  <2> QED
    BY <1>1, <2>1, <2>2, <2>3, PackingFacts
<1> HIDE DEF h
<1>13. PackHints(h) = e
  BY <1>11, <1>12 DEF Encodings
<1> QED
  BY <1>13 DEF h

-----------------------------------------------------------------------------
(* Vectors and matrices.                                                   *)

Vector == [0 .. L - 1 -> Poly]

(* A row of a matrix times a vector is the total of the products.          *)
LEMMA ApplyIs ==
  ASSUME NEW A, NEW i \in Rows, A[i] \in Vector, NEW v \in Vector
  PROVE  /\ Apply(A, v)[i] = Total([l \in 0 .. L - 1 |-> Times(A[i][l], v[l])], L)
         /\ Apply(A, v)[i] \in Poly
<1> DEFINE F == [l \in 0 .. L - 1 |-> Times(A[i][l], v[l])]
<1>1. L \in Nat
  BY RoundingAssumption
<1>2. \A l \in 0 .. L - 1 : F[l] \in Poly
  BY TimesIs DEF Vector
<1>3. \A j \in Columns : [l \in 0 .. L - 1 |-> Times(A[i][l], v[l])[j]] = [l \in 0 .. L - 1 |-> F[l][j]]
  OBVIOUS
<1>4. Apply(A, v)[i] = Total(F, L)
  <2> HIDE DEF F
  <2> QED
    BY <1>3 DEF Apply, Total
<1> HIDE DEF F
<1>5. Total(F, L) \in Poly
  BY <1>1, <1>2, TotalFacts
<1> QED
  BY <1>4, <1>5 DEF F

(* A matrix times c s + y + Q e is c times the matrix times s, and so on.  *)
LEMMA ApplyAnswer ==
  ASSUME NEW A, NEW i \in Rows, A[i] \in Vector, NEW c \in Poly,
         NEW s \in Vector, NEW y \in Vector, NEW e \in Vector, NEW z \in Vector,
         \A l \in 0 .. L - 1 : z[l] = Plus(Plus(Times(c, s[l]), y[l]), Scale(Q, e[l]))
  PROVE  Apply(A, z)[i] = Plus(Plus(Times(c, Apply(A, s)[i]), Apply(A, y)[i]), Scale(Q, Apply(A, e)[i]))
<1> DEFINE Row(v) == [l \in 0 .. L - 1 |-> Times(A[i][l], v[l])]
           cs == [l \in 0 .. L - 1 |-> Times(c, Row(s)[l])]
           qe == [l \in 0 .. L - 1 |-> Scale(Q, Row(e)[l])]
           csy == [l \in 0 .. L - 1 |-> Plus(cs[l], Row(y)[l])]
<1>1. L \in Nat /\ Q \in Int
  BY RoundingAssumption
<1>2. \A v \in Vector : \A l \in 0 .. L - 1 : v[l] \in Poly /\ A[i][l] \in Poly
  BY DEF Vector
<1>3. \A v \in Vector : \A l \in 0 .. L - 1 : Row(v)[l] = Times(A[i][l], v[l]) /\ Row(v)[l] \in Poly
  BY <1>2, TimesIs
<1>4. \A v \in Vector : Apply(A, v)[i] = Total(Row(v), L)
  BY ApplyIs
<1>5. \A l \in 0 .. L - 1 : cs[l] = Times(c, Row(s)[l]) /\ qe[l] = Scale(Q, Row(e)[l])
                            /\ csy[l] = Plus(cs[l], Row(y)[l])
  OBVIOUS
<1> HIDE DEF Row, cs, qe, csy
<1>6. \A l \in 0 .. L - 1 : cs[l] \in Poly /\ qe[l] \in Poly /\ csy[l] \in Poly
  <2> SUFFICES ASSUME NEW l \in 0 .. L - 1 PROVE cs[l] \in Poly /\ qe[l] \in Poly /\ csy[l] \in Poly
    OBVIOUS
  <2>1. Row(s)[l] \in Poly /\ Row(y)[l] \in Poly /\ Row(e)[l] \in Poly
    BY <1>3
  <2>2. cs[l] \in Poly
    BY <1>5, <2>1, TimesIs
  <2>3. qe[l] \in Poly
    BY <1>1, <1>5, <2>1, RingFacts
  <2> QED
    BY <1>5, <2>1, <2>2, <2>3, RingFacts
<1>7. ASSUME NEW l \in 0 .. L - 1 PROVE Row(z)[l] = Plus(csy[l], qe[l])
  <2>1. A[i][l] \in Poly /\ s[l] \in Poly /\ y[l] \in Poly /\ e[l] \in Poly
    BY <1>2
  <2>2. Times(c, s[l]) \in Poly /\ Scale(Q, e[l]) \in Poly /\ Plus(Times(c, s[l]), y[l]) \in Poly
    BY <1>1, <2>1, TimesIs, RingFacts
  <2>3. Times(A[i][l], z[l]) = Plus(Times(A[i][l], Plus(Times(c, s[l]), y[l])), Times(A[i][l], Scale(Q, e[l])))
    BY <2>1, <2>2, TimesLinear
  <2>4. Times(A[i][l], Plus(Times(c, s[l]), y[l])) = Plus(Times(A[i][l], Times(c, s[l])), Times(A[i][l], y[l]))
    BY <2>1, <2>2, TimesLinear
  <2>5. Times(A[i][l], Times(c, s[l])) = Times(c, Times(A[i][l], s[l]))
    BY <2>1, TimesTimes
  <2>6. Times(A[i][l], Scale(Q, e[l])) = Scale(Q, Times(A[i][l], e[l]))
    BY <1>1, <2>1, TimesLinear
  <2> QED
    BY <1>3, <1>5, <2>3, <2>4, <2>5, <2>6
<1>8. Total(Row(z), L) = Plus(Total(csy, L), Total(qe, L))
  BY <1>1, <1>6, <1>7, TotalPlus
<1>9. Total(csy, L) = Plus(Total(cs, L), Total(Row(y), L))
  BY <1>1, <1>3, <1>5, <1>6, TotalPlus
<1>10. Total(qe, L) = Scale(Q, Total(Row(e), L))
  BY <1>1, <1>3, <1>5, TotalScale
<1>11. Total(cs, L) = Times(c, Total(Row(s), L))
  <2> DEFINE T == Multiplier(c)
  <2>1. Linear(T) /\ \A q \in Poly : T[q] = Times(c, q)
    BY MultiplierLinear
  <2>2. \A l \in 0 .. L - 1 : Row(s)[l] \in Poly /\ cs[l] = T[Row(s)[l]]
    BY <1>3, <1>5, <2>1
  <2>3. Total(Row(s), L) \in Poly
    BY <1>1, <2>2, TotalFacts
  <2> HIDE DEF T
  <2>4. T[Total(Row(s), L)] = Total(cs, L)
    BY <1>1, <2>1, <2>2, LinearTotal
  <2> QED
    BY <2>1, <2>3, <2>4
<1> QED
  BY <1>4, <1>8, <1>9, <1>10, <1>11

-----------------------------------------------------------------------------
(* Reduction modulo Q.                                                     *)

Alike(a, b) == \E m \in Int : a = b + Q * m

(* Both representatives are congruent to what was reduced.                 *)
LEMMA Reductions ==
  ASSUME NEW a \in Int
  PROVE  /\ Standard(a) \in 0 .. Q - 1 /\ Alike(Standard(a), a)
         /\ Centred(a) \in Int /\ Alike(Centred(a), a)
<1>1. Q \in Nat /\ Q > 0
  BY RoundingAssumption
<1> DEFINE r == a % Q
           m == a \div Q
<1>2. r \in 0 .. Q - 1 /\ m \in Int /\ a = Q * m + r
  BY <1>1, DivMod
<1> HIDE DEF r, m
<1>3. Standard(a) = r /\ Centred(a) = IF 2 * r > Q THEN r - Q ELSE r
  BY DEF Standard, Centred, r
<1>4. -m \in Int /\ r = a + Q * (-m)
  BY <1>1, <1>2
<1>5. -m - 1 \in Int /\ r - Q = a + Q * (-m - 1)
  BY <1>1, <1>2
<1>6. r \in Int /\ r - Q \in Int
  BY <1>1, <1>2
<1>7. Alike(r, a) /\ Alike(r - Q, a)
  <2>1. Alike(r, a)
    BY <1>4, Zenon DEF Alike
  <2>2. Alike(r - Q, a)
    BY <1>5, Zenon DEF Alike
  <2> QED
    BY <2>1, <2>2
<1> QED
  BY <1>2, <1>3, <1>6, <1>7

(* A centred polynomial differs by a multiple of Q.                        *)
LEMMA Centres ==
  ASSUME NEW p \in Poly
  PROVE  \E e \in Poly : Map(Centred, p) = Plus(p, Scale(Q, e)) /\ Map(Centred, p) \in Poly
<1> DEFINE e == [j \in Columns |-> CHOOSE m \in Int : Centred(p[j]) = p[j] + Q * m]
<1>1. ASSUME NEW j \in Columns PROVE Centred(p[j]) = p[j] + Q * e[j] /\ e[j] \in Int /\ Centred(p[j]) \in Int
  <2>1. p[j] \in Int
    BY DEF Poly
  <2>2. (\E m \in Int : Centred(p[j]) = p[j] + Q * m) /\ Centred(p[j]) \in Int
    BY <2>1, Reductions DEF Alike
  <2> QED
    BY <2>2
<1>2. e \in Poly
  BY <1>1 DEF Poly
<1> HIDE DEF e
<1>3. Map(Centred, p) = Plus(p, Scale(Q, e))
  BY <1>1 DEF Map, Plus, Scale
<1>4. Map(Centred, p) \in Poly
  BY <1>1 DEF Map, Poly
<1> QED
  BY <1>2, <1>3, <1>4

-----------------------------------------------------------------------------
(* Keys, answers and what verification makes of them.                      *)

(* 2 ^ D counts the subsets of 1 .. D, so it is a positive number.         *)
LEMMA PowerOfTwo == 2 ^ D \in Nat /\ 2 ^ D > 0
<1>1. D \in Nat /\ IsFiniteSet(1 .. D) /\ Cardinality(1 .. D) = D
  <2>1. D \in Nat /\ D >= 1
    BY RoundingAssumption
  <2>2. IsFiniteSet(1 .. D) /\ Cardinality(1 .. D) = IF 1 > D THEN 0 ELSE D - 1 + 1
    BY <2>1, FS_Interval
  <2> QED
    BY <2>1, <2>2
<1> DEFINE T == SUBSET (1 .. D)
<1>2. IsFiniteSet(T) /\ Cardinality(T) = 2 ^ D
  BY <1>1, FS_SUBSET
<1>3. T # {}
  OBVIOUS
<1> HIDE DEF T
<1>4. Cardinality(T) \in Nat /\ Cardinality(T) # 0
  BY <1>2, <1>3, FS_CardinalityType, FS_EmptySet
<1> QED
  BY <1>2, <1>4

(* power2round: the two parts make up the number.                          *)
LEMMA HighsAndLows ==
  ASSUME NEW a \in Int
  PROVE  High2(a) \in Int /\ Low2(a) \in Int /\ High2(a) * 2 ^ D + Low2(a) = a
<1>1. 2 ^ (D - 1) \in Int
  BY RoundingAssumption
<1> DEFINE b == a + 2 ^ (D - 1) - 1
           p == 2 ^ D
<1>2. b \in Int /\ p \in Nat /\ p > 0
  BY <1>1, PowerOfTwo
<1>3. High2(a) = b \div p /\ Low2(a) = a - High2(a) * p
  BY DEF High2, Low2
<1> HIDE DEF b, p
<1>4. High2(a) \in Int
  BY <1>2, <1>3, DivMod
<1>5. High2(a) * p \in Int
  BY <1>2, <1>4
<1>6. Low2(a) \in Int /\ High2(a) * p + Low2(a) = a
  BY <1>3, <1>5
<1> QED
  BY <1>4, <1>6 DEF p

(* Keys, masks and challenges are made of polynomials.                     *)
LEMMA MaterialShape ==
  ASSUME NEW k \in KeyMaterial
  PROVE  /\ k.s1 \in Vector /\ \A i \in Rows : k.A[i] \in Vector /\ k.s2[i] \in Poly
         /\ \A l \in 0 .. L - 1 : \A j \in Columns : k.s1[l][j] \in -Eta .. Eta
<1>1. k \in [A  : [Rows -> [0 .. L - 1 -> [Columns -> 0 .. Q - 1]]],
             s1 : [0 .. L - 1 -> [Columns -> -Eta .. Eta]],
             s2 : [Rows -> [Columns -> -Eta .. Eta]]]
  BY SignAssumption
<1>2. [Columns -> 0 .. Q - 1] \subseteq Poly /\ [Columns -> -Eta .. Eta] \subseteq Poly
  BY RoundingAssumption DEF Poly
<1>3. /\ k.A \in [Rows -> [0 .. L - 1 -> [Columns -> 0 .. Q - 1]]]
      /\ k.s1 \in [0 .. L - 1 -> [Columns -> -Eta .. Eta]]
      /\ k.s2 \in [Rows -> [Columns -> -Eta .. Eta]]
  BY <1>1
<1>4. k.s1 \in Vector
  <2> DEFINE s == k.s1
  <2>1. s \in [0 .. L - 1 -> [Columns -> -Eta .. Eta]]
    BY <1>3
  <2> HIDE DEF s
  <2>2. s \in Vector
    BY <1>2, <2>1 DEF Vector
  <2> QED
    BY <2>2 DEF s
<1>5. ASSUME NEW i \in Rows PROVE k.A[i] \in Vector
  <2> DEFINE a == k.A[i]
  <2>1. a \in [0 .. L - 1 -> [Columns -> 0 .. Q - 1]]
    BY <1>3
  <2> HIDE DEF a
  <2>2. a \in Vector
    BY <1>2, <2>1 DEF Vector
  <2> QED
    BY <2>2 DEF a
<1>6. ASSUME NEW i \in Rows PROVE k.s2[i] \in Poly
  BY <1>2, <1>3
<1>7. ASSUME NEW l \in 0 .. L - 1, NEW j \in Columns PROVE k.s1[l][j] \in -Eta .. Eta
  <2> DEFINE s == k.s1
  <2>1. s \in [0 .. L - 1 -> [Columns -> -Eta .. Eta]]
    BY <1>3
  <2> HIDE DEF s
  <2>2. s[l][j] \in -Eta .. Eta
    BY <2>1
  <2> QED
    BY <2>2 DEF s
<1> QED
  BY <1>4, <1>5, <1>6, <1>7

LEMMA MaskShape ==
  ASSUME NEW y \in Masks
  PROVE  y \in Vector
<1>1. y \in [0 .. L - 1 -> [Columns -> 1 - Gamma1 .. Gamma1]]
  BY SignAssumption
<1>2. [Columns -> 1 - Gamma1 .. Gamma1] \subseteq Poly
  BY RoundingAssumption DEF Poly
<1> QED
  BY <1>1, <1>2 DEF Vector

LEMMA BallShape ==
  ASSUME NEW c \in Balls
  PROVE  c \in Poly /\ \A j \in Columns : c[j] \in -1 .. 1
BY SignAssumption DEF Poly

(* The two parts of the public vector: t1 2^D + t0 is A s1 + s2, modulo Q. *)
LEMMA KeyShape ==
  ASSUME NEW k \in KeyMaterial, NEW i \in Rows
  PROVE  LET g == Generate(k) IN
         /\ g.secret.A = k.A /\ g.secret.s1 = k.s1 /\ g.secret.s2 = k.s2 /\ g.public.A = k.A
         /\ g.public.t1[i] \in Poly /\ g.secret.t0[i] \in Poly
         /\ \E f \in Poly : Plus(Scale(2 ^ D, g.public.t1[i]), g.secret.t0[i])
                             = Plus(Plus(Apply(k.A, k.s1)[i], k.s2[i]), Scale(Q, f))
<1> DEFINE g == Generate(k)
           x == Plus(Apply(k.A, k.s1)[i], k.s2[i])
           t == Map(Standard, x)
           f == [j \in Columns |-> CHOOSE m \in Int : Standard(x[j]) = x[j] + Q * m]
<1>1. /\ g.secret.A = k.A /\ g.secret.s1 = k.s1 /\ g.secret.s2 = k.s2 /\ g.public.A = k.A
      /\ g.public.t1[i] = Map(High2, t) /\ g.secret.t0[i] = Map(Low2, t)
  BY DEF Generate, Map, Plus
<1>2. Apply(k.A, k.s1)[i] \in Poly /\ k.s2[i] \in Poly
  BY MaterialShape, ApplyIs
<1>3. x \in Poly
  BY <1>2, RingFacts
<1>4. ASSUME NEW j \in Columns
      PROVE  /\ x[j] \in Int /\ t[j] \in Int /\ f[j] \in Int /\ t[j] = x[j] + Q * f[j]
             /\ g.public.t1[i][j] = High2(t[j]) /\ g.secret.t0[i][j] = Low2(t[j])
  <2>1. x[j] \in Int
    BY <1>3 DEF Poly
  <2> HIDE DEF x
  <2>2. (\E m \in Int : Standard(x[j]) = x[j] + Q * m) /\ Standard(x[j]) \in Int
    BY <2>1, Reductions DEF Alike
  <2>3. t[j] = Standard(x[j])
    BY DEF Map
  <2>4. g.public.t1[i][j] = High2(t[j]) /\ g.secret.t0[i][j] = Low2(t[j])
    BY <1>1 DEF Map
  <2> QED
    BY <2>1, <2>2, <2>3, <2>4
<1> HIDE DEF g, x, t, f
<1>5. ASSUME NEW j \in Columns
      PROVE  /\ g.public.t1[i][j] \in Int /\ g.secret.t0[i][j] \in Int
             /\ 2 ^ D * g.public.t1[i][j] + g.secret.t0[i][j] = x[j] + Q * f[j]
  <2> DEFINE p == 2 ^ D
  <2>1. p \in Int
    BY PowerOfTwo
  <2>2. High2(t[j]) \in Int /\ Low2(t[j]) \in Int /\ High2(t[j]) * p + Low2(t[j]) = t[j]
    BY <1>4, HighsAndLows
  <2> HIDE DEF p
  <2>3. High2(t[j]) * p = p * High2(t[j])
    BY <2>1, <2>2
  <2>4. 2 ^ D = p
    BY DEF p
  <2> QED
    BY <1>4, <2>2, <2>3, <2>4
<1>6. g.public.t1[i] \in Poly /\ g.secret.t0[i] \in Poly /\ f \in Poly
  <2>1. g.public.t1[i] = [j \in Columns |-> g.public.t1[i][j]] /\ g.secret.t0[i] = [j \in Columns |-> g.secret.t0[i][j]]
    BY <1>1 DEF Map
  <2>2. f = [j \in Columns |-> f[j]]
    BY DEF f
  <2> QED
    BY <1>4, <1>5, <2>1, <2>2 DEF Poly
<1>7. Plus(Scale(2 ^ D, g.public.t1[i]), g.secret.t0[i]) = Plus(x, Scale(Q, f))
  BY <1>5 DEF Plus, Scale
<1>8. LET g0 == g IN
      /\ g0.secret.A = k.A /\ g0.secret.s1 = k.s1 /\ g0.secret.s2 = k.s2 /\ g0.public.A = k.A
      /\ g0.public.t1[i] \in Poly /\ g0.secret.t0[i] \in Poly
      /\ \E d \in Poly : Plus(Scale(2 ^ D, g0.public.t1[i]), g0.secret.t0[i]) = Plus(x, Scale(Q, d))
  BY <1>1, <1>6, <1>7
<1> QED
  BY <1>8 DEF g, x

(* Multiples of Q in one sum are one multiple.                             *)
LEMMA Multiples ==
  ASSUME NEW q \in Int, NEW a \in Int, NEW b \in Int
  PROVE  q * a + q * b = q * (a + b) /\ q * a - q * b = q * (a - b) /\ q * a \in Int /\ q * b \in Int
OBVIOUS

(* The answer is c s1 + y, modulo Q.                                       *)
LEMMA AnswerShape ==
  ASSUME NEW k \in KeyMaterial, keys = Generate(k), NEW y \in Masks, NEW c \in Balls
  PROVE  /\ Answer(y, c) \in Vector
         /\ \E e \in Vector : \A l \in 0 .. L - 1 :
               Answer(y, c)[l] = Plus(Plus(Times(c, k.s1[l]), y[l]), Scale(Q, e[l]))
<1> DEFINE x(l) == Plus(Times(c, k.s1[l]), y[l])
           e == [l \in 0 .. L - 1 |-> CHOOSE d \in Poly : Map(Centred, x(l)) = Plus(x(l), Scale(Q, d))]
<1>1. \A l \in 0 .. L - 1 : k.s1[l] \in Poly /\ y[l] \in Poly /\ c \in Poly
  BY MaterialShape, MaskShape, BallShape DEF Vector
<1>2. \A l \in 0 .. L - 1 : x(l) \in Poly
  BY <1>1, TimesIs, RingFacts
<1>3. keys.secret.s1 = k.s1
  BY DEF Generate
<1>4. Answer(y, c) = [l \in 0 .. L - 1 |-> Map(Centred, x(l))]
  BY <1>3 DEF Answer
<1> HIDE DEF x
<1>5. ASSUME NEW l \in 0 .. L - 1
      PROVE  Map(Centred, x(l)) = Plus(x(l), Scale(Q, e[l])) /\ e[l] \in Poly /\ Map(Centred, x(l)) \in Poly
  <2>1. (\E d \in Poly : Map(Centred, x(l)) = Plus(x(l), Scale(Q, d))) /\ Map(Centred, x(l)) \in Poly
    BY <1>2, Centres
  <2> QED
    BY <2>1
<1>6. e \in Vector
  BY <1>5 DEF Vector
<1>7. Answer(y, c) \in Vector
  BY <1>4, <1>5 DEF Vector
<1> HIDE DEF e
<1>8. \A l \in 0 .. L - 1 : Answer(y, c)[l] = Plus(x(l), Scale(Q, e[l]))
  BY <1>4, <1>5
<1> QED
  BY <1>6, <1>7, <1>8 DEF x

(* What verification feeds to use_hint, before it is reduced: w less c s2  *)
(* plus c t0, modulo Q.                                                    *)
LEMMA Recomputed ==
  ASSUME NEW k \in KeyMaterial, keys = Generate(k), NEW y \in Masks, NEW c \in Balls,
         NEW i \in Rows, NEW j \in Columns
  PROVE  LET az  == Apply(keys.public.A, Answer(y, c))[i][j]
             ct1 == Times(c, keys.public.t1[i])[j]
             w   == Apply(keys.secret.A, y)[i][j]
             cs2 == Times(c, keys.secret.s2[i])[j]
             ct0 == Times(c, keys.secret.t0[i])[j]
         IN /\ az \in Int /\ ct1 \in Int /\ w \in Int /\ cs2 \in Int /\ ct0 \in Int
            /\ \E m \in Int : az - ct1 * 2 ^ D = w - cs2 + ct0 + Q * m
<1> DEFINE g == Generate(k)
           z == Answer(y, c)
           M == k.A
           s1 == k.s1
           s2 == k.s2[i]
           as == Apply(M, s1)[i]
           p == 2 ^ D
<1>1. /\ g.secret.A = M /\ g.secret.s1 = s1 /\ g.secret.s2[i] = s2 /\ g.public.A = M
      /\ g.public.t1[i] \in Poly /\ g.secret.t0[i] \in Poly
      /\ \E f \in Poly : Plus(Scale(p, g.public.t1[i]), g.secret.t0[i]) = Plus(Plus(as, s2), Scale(Q, f))
  BY KeyShape
<1>2. /\ s1 \in Vector /\ M[i] \in Vector /\ s2 \in Poly /\ y \in Vector /\ c \in Poly
      /\ p \in Int /\ Q \in Int
  BY MaterialShape, MaskShape, BallShape, PowerOfTwo, Widths
<1>3. z \in Vector /\ \E e \in Vector : \A l \in 0 .. L - 1 :
               z[l] = Plus(Plus(Times(c, s1[l]), y[l]), Scale(Q, e[l]))
  BY AnswerShape
<1> HIDE DEF g, z, M, s1, s2, as, p
<1>4. PICK f \in Poly : Plus(Scale(p, g.public.t1[i]), g.secret.t0[i]) = Plus(Plus(as, s2), Scale(Q, f))
  BY <1>1
<1>5. PICK e \in Vector : \A l \in 0 .. L - 1 : z[l] = Plus(Plus(Times(c, s1[l]), y[l]), Scale(Q, e[l]))
  BY <1>3
<1>6. as \in Poly /\ Apply(M, y)[i] \in Poly /\ Apply(M, e)[i] \in Poly /\ Apply(M, z)[i] \in Poly
  BY <1>2, <1>3, ApplyIs DEF as
<1>7. Apply(M, z)[i] = Plus(Plus(Times(c, as), Apply(M, y)[i]), Scale(Q, Apply(M, e)[i]))
  BY <1>2, <1>3, <1>5, ApplyAnswer DEF as
<1> DEFINE t1 == g.public.t1[i]
           t0 == g.secret.t0[i]
<1>8. Plus(Scale(p, Times(c, t1)), Times(c, t0)) = Plus(Plus(Times(c, as), Times(c, s2)), Scale(Q, Times(c, f)))
  <2>1. t1 \in Poly /\ t0 \in Poly /\ s2 \in Poly
    BY <1>1, <1>2
  <2> HIDE DEF t1, t0
  <2>2. Scale(p, t1) \in Poly /\ Scale(Q, f) \in Poly /\ Plus(as, s2) \in Poly
    BY <1>2, <1>6, <2>1, RingFacts
  <2>3. Times(c, Plus(Scale(p, t1), t0)) = Plus(Scale(p, Times(c, t1)), Times(c, t0))
    BY <1>2, <2>1, <2>2, TimesLinear
  <2>4. Times(c, Plus(Plus(as, s2), Scale(Q, f))) = Plus(Times(c, Plus(as, s2)), Times(c, Scale(Q, f)))
    BY <1>2, <2>2, TimesLinear, ZenonT(30)
  <2>5. Times(c, Plus(as, s2)) = Plus(Times(c, as), Times(c, s2))
    <3>1. \A q, r \in Poly : Times(c, Plus(q, r)) = Plus(Times(c, q), Times(c, r))
      BY <1>2, TimesLinear
    <3>2. as \in Poly /\ s2 \in Poly
      BY <1>6, <2>1
    <3> QED
      BY <3>1, <3>2
  <2>6. Times(c, Scale(Q, f)) = Scale(Q, Times(c, f))
    BY <1>2, TimesLinear
  <2>7. Plus(Scale(p, t1), t0) = Plus(Plus(as, s2), Scale(Q, f))
    BY <1>4 DEF t1, t0
  <2> QED
    BY <2>3, <2>4, <2>5, <2>6, <2>7
<1> DEFINE X  == Times(c, as)[j]
           Y  == Apply(M, y)[i][j]
           E  == Apply(M, e)[i][j]
           Z  == Apply(M, z)[i][j]
           S2 == Times(c, s2)[j]
           T1 == Times(c, t1)[j]
           T0 == Times(c, t0)[j]
           F  == Times(c, f)[j]
<1>9. /\ X \in Int /\ Y \in Int /\ E \in Int /\ Z \in Int /\ S2 \in Int /\ T1 \in Int /\ T0 \in Int
      /\ F \in Int
  <2>1. /\ Times(c, as) \in Poly /\ Times(c, s2) \in Poly /\ Times(c, t1) \in Poly
        /\ Times(c, t0) \in Poly /\ Times(c, f) \in Poly
    BY <1>1, <1>2, <1>6, TimesIs
  <2> QED
    BY <1>6, <2>1 DEF Poly
<1>10. Z = X + Y + Q * E
  BY <1>7 DEF Plus, Scale
<1>11. p * T1 + T0 = X + S2 + Q * F
  <2>1. Plus(Scale(p, Times(c, t1)), Times(c, t0))[j] = Plus(Plus(Times(c, as), Times(c, s2)), Scale(Q, Times(c, f)))[j]
    BY <1>8
  <2> HIDE DEF t1, t0
  <2> QED
    BY <2>1 DEF Plus, Scale
<1>12. Z - T1 * p = Y - S2 + T0 + Q * (E - F)
  <2> HIDE DEF X, Y, E, Z, S2, T1, T0, F
  <2>1. Q * E - Q * F = Q * (E - F) /\ Q * E \in Int /\ Q * F \in Int
    BY <1>2, <1>9, Multiples
  <2>2. T1 * p = p * T1 /\ p * T1 \in Int
    BY <1>2, <1>9
  <2> QED
    BY <1>9, <1>10, <1>11, <2>1, <2>2
<1>13. keys = g /\ E - F \in Int
  BY <1>9 DEF g
<1>14. /\ Z = Apply(keys.public.A, Answer(y, c))[i][j] /\ T1 = Times(c, keys.public.t1[i])[j]
       /\ Y = Apply(keys.secret.A, y)[i][j] /\ S2 = Times(c, keys.secret.s2[i])[j]
       /\ T0 = Times(c, keys.secret.t0[i])[j] /\ p = 2 ^ D
  BY <1>1, <1>13 DEF z, p
<1>15. \E m \in Int : Z - T1 * p = Y - S2 + T0 + Q * m
  <2> HIDE DEF X, Y, E, Z, S2, T1, T0, F
  <2> QED
    BY <1>12, <1>13
<1> HIDE DEF X, Y, E, Z, S2, T1, T0, F
<1> QED
  BY <1>9, <1>14, <1>15

-----------------------------------------------------------------------------
(* A candidate the four checks let through.                                *)

(* Congruence is an equivalence and goes through sums and differences.     *)
LEMMA AlikeSums ==
  /\ \A a, b, c, d \in Int : Alike(a, b) /\ Alike(c, d) => Alike(a + c, b + d) /\ Alike(a - c, b - d)
  /\ \A a, b, c \in Int : Alike(a, b) /\ Alike(b, c) => Alike(a, c)
  /\ \A a, b \in Int : Alike(a, b) => Alike(b, a)
<1>1. Q \in Int
  BY Widths
<1>2. ASSUME NEW m \in Int, NEW n \in Int
      PROVE  /\ Q * (m + n) = Q * m + Q * n /\ Q * (m - n) = Q * m - Q * n /\ Q * (n + m) = Q * n + Q * m
             /\ Q * m \in Int /\ Q * n \in Int /\ m + n \in Int /\ m - n \in Int /\ n + m \in Int
  BY <1>1, Multiples
<1>3. ASSUME NEW m \in Int PROVE -m \in Int /\ Q * (-m) = 0 - Q * m /\ Q * m \in Int
  <2>1. Q * (0 - m) = Q * 0 - Q * m /\ Q * m \in Int
    BY <1>1, Multiples
  <2>2. Q * 0 = 0 /\ -m = 0 - m /\ -m \in Int
    BY <1>1
  <2> QED
    BY <2>1, <2>2
<1>5. ASSUME NEW a \in Int, NEW b \in Int, NEW c \in Int, NEW d \in Int, Alike(a, b), Alike(c, d)
      PROVE  Alike(a + c, b + d) /\ Alike(a - c, b - d)
  <2>1. PICK m \in Int : a = b + Q * m
    BY <1>5 DEF Alike
  <2>2. PICK n \in Int : c = d + Q * n
    BY <1>5 DEF Alike
  <2> DEFINE x == Q * m
             y == Q * n
  <2>3. x \in Int /\ y \in Int /\ m + n \in Int /\ m - n \in Int /\ Q * (m + n) = x + y /\ Q * (m - n) = x - y
    BY <1>2
  <2>4. a = b + x /\ c = d + y
    BY <2>1, <2>2
  <2> HIDE DEF x, y
  <2>5. a + c = b + d + (x + y) /\ a - c = b - d + (x - y)
    BY <2>3, <2>4
  <2>6. a + c = b + d + Q * (m + n) /\ a - c = b - d + Q * (m - n)
    BY <2>3, <2>5
  <2> QED
    BY <2>3, <2>6, Zenon DEF Alike
<1>6. ASSUME NEW a \in Int, NEW b \in Int, NEW c \in Int, Alike(a, b), Alike(b, c)
      PROVE  Alike(a, c)
  <2>1. PICK m \in Int : a = b + Q * m
    BY <1>6 DEF Alike
  <2>2. PICK n \in Int : b = c + Q * n
    BY <1>6 DEF Alike
  <2> DEFINE x == Q * m
             y == Q * n
  <2>3. x \in Int /\ y \in Int /\ n + m \in Int /\ Q * (n + m) = y + x
    BY <1>2
  <2>4. a = b + x /\ b = c + y
    BY <2>1, <2>2
  <2> HIDE DEF x, y
  <2>5. a = c + (y + x)
    BY <2>3, <2>4
  <2>6. a = c + Q * (n + m)
    BY <2>3, <2>5
  <2> QED
    BY <2>3, <2>6, Zenon DEF Alike
<1>7. ASSUME NEW a \in Int, NEW b \in Int, Alike(a, b)
      PROVE  Alike(b, a)
  <2>1. PICK m \in Int : a = b + Q * m
    BY <1>7 DEF Alike
  <2> DEFINE x == Q * m
  <2>2. x \in Int /\ -m \in Int /\ Q * (-m) = 0 - x /\ a = b + x
    BY <1>3, <2>1
  <2> HIDE DEF x
  <2>3. b = a + (0 - x)
    BY <2>2
  <2>4. b = a + Q * (-m)
    BY <2>2, <2>3
  <2> QED
    BY <2>2, <2>4, Zenon DEF Alike
<1> QED
  BY <1>5, <1>6, <1>7

(* What poly_chknorm lets through.                                         *)
LEMMA NotTooLong ==
  ASSUME NEW v, NEW b \in Int, ~TooLong(v, b), NEW i \in DOMAIN v, NEW j \in Columns, v[i][j] \in Int
  PROVE  -b < v[i][j] /\ v[i][j] < b
<1>1. ~(v[i][j] >= b) /\ ~(-v[i][j] >= b)
  BY DEF TooLong
<1> QED
  BY <1>1

(* What the four checks leave: two short parts, and hints there is room for. *)
LEMMA Passed ==
  ASSUME NEW k \in KeyMaterial, keys = Generate(k), NEW y \in Masks, NEW c \in Balls,
         ~Rejected(y, c), NEW i \in Rows, NEW j \in Columns
  PROVE  LET w   == Commitment(y)[i][j]
             cs2 == Times(c, keys.secret.s2[i])[j]
             ct0 == Times(c, keys.secret.t0[i])[j]
             low == Settled(y, c)[i][j]
             out == Dropped(c)[i][j]
         IN /\ w \in 0 .. Q - 1 /\ Alike(w, Apply(keys.secret.A, y)[i][j])
            /\ low \in Int /\ Alike(low, LowBits(w) - cs2)
            /\ out \in Int /\ Alike(out, ct0)
            /\ -Width < low + out /\ low + out < Width
<1> DEFINE w   == Commitment(y)[i][j]
           x   == Apply(keys.secret.A, y)[i][j]
           cs2 == Times(c, keys.secret.s2[i])[j]
           ct0 == Times(c, keys.secret.t0[i])[j]
           low == Settled(y, c)[i][j]
           out == Dropped(c)[i][j]
<1>1. x \in Int /\ cs2 \in Int /\ ct0 \in Int
  BY Recomputed
<1>2. w = Standard(x)
  BY DEF Commitment, Map
<1>3. low = Centred(LowBits(w) - cs2) /\ DOMAIN Settled(y, c) = Rows
  BY DEF Settled, Commitment, Map, Minus
<1>4. out = Centred(ct0) /\ DOMAIN Dropped(c) = Rows
  BY DEF Dropped, Map
<1> HIDE DEF w, x, cs2, ct0
<1>5. w \in 0 .. Q - 1 /\ Alike(w, x)
  BY <1>1, <1>2, Reductions
<1>6. LowBits(w) \in Int
  BY <1>5, DecomposeFacts
<1>7. low \in Int /\ Alike(low, LowBits(w) - cs2)
  BY <1>1, <1>3, <1>6, Reductions
<1>8. out \in Int /\ Alike(out, ct0)
  BY <1>1, <1>4, Reductions
<1>9. ~TooLong(Settled(y, c), Gamma2 - Beta) /\ ~TooLong(Dropped(c), Gamma2)
  BY DEF Rejected
<1>10. Gamma2 \in Nat /\ Beta \in Nat /\ Gamma2 - Beta \in Int /\ Width = 2 * Gamma2
  BY RoundingAssumption, Widths
<1>11. -(Gamma2 - Beta) < low /\ low < Gamma2 - Beta
  BY <1>3, <1>7, <1>9, <1>10, NotTooLong
<1>12. -Gamma2 < out /\ out < Gamma2
  BY <1>4, <1>8, <1>9, <1>10, NotTooLong
<1>13. -Width < low + out /\ low + out < Width
  <2> HIDE DEF low, out
  <2> QED
    BY <1>7, <1>8, <1>10, <1>11, <1>12
<1> QED
  BY <1>5, <1>7, <1>8, <1>13 DEF w, x, cs2, ct0

(* The lemma the hints are for: verification gets the high bits of w.      *)
LEMMA HighBitsBack ==
  ASSUME NEW k \in KeyMaterial, keys = Generate(k), NEW y \in Masks, NEW c \in Balls,
         ~Rejected(y, c), NEW i \in Rows, NEW j \in Columns
  PROVE  LET az  == Apply(keys.public.A, Answer(y, c))[i][j]
             ct1 == Times(c, keys.public.t1[i])[j]
         IN /\ Standard(az - ct1 * 2 ^ D) \in 0 .. Q - 1
            /\ UseHint(Standard(az - ct1 * 2 ^ D), Hints(y, c)[i][j]) = HighBits(Commitment(y)[i][j])
<1> DEFINE az  == Apply(keys.public.A, Answer(y, c))[i][j]
           ct1 == Times(c, keys.public.t1[i])[j]
           u   == az - ct1 * 2 ^ D
           w   == Commitment(y)[i][j]
           x   == Apply(keys.secret.A, y)[i][j]
           cs2 == Times(c, keys.secret.s2[i])[j]
           ct0 == Times(c, keys.secret.t0[i])[j]
           low == Settled(y, c)[i][j]
           out == Dropped(c)[i][j]
           h   == HighBits(w)
<1>1. /\ az \in Int /\ ct1 \in Int /\ x \in Int /\ cs2 \in Int /\ ct0 \in Int
      /\ \E m \in Int : u = x - cs2 + ct0 + Q * m
  BY Recomputed
<1>2. /\ w \in 0 .. Q - 1 /\ Alike(w, x)
      /\ low \in Int /\ Alike(low, LowBits(w) - cs2)
      /\ out \in Int /\ Alike(out, ct0)
      /\ -Width < low + out /\ low + out < Width
  BY Passed
<1>3. Hints(y, c)[i][j] = MakeHint(low + out, h)
  BY DEF Hints, Map
<1>4. u \in Int
  BY <1>1, PowerOfTwo
<1> HIDE DEF az, ct1, u, w, x, cs2, ct0, low, out
<1>5. h \in 0 .. Highs - 1 /\ LowBits(w) \in Int /\ \E m \in Int : w = Width * h + LowBits(w) + Q * m
  BY <1>2, DecomposeFacts
<1> HIDE DEF h
<1>6. Width * h \in Int /\ Width \in Nat /\ Highs \in Nat
  BY <1>5, Widths
<1> DEFINE v == Standard(u)
<1>7. v \in 0 .. Q - 1 /\ Alike(v, u)
  BY <1>4, Reductions
<1> HIDE DEF v
<1>8. Alike(u, x - cs2 + ct0) /\ Alike(w, Width * h + LowBits(w))
  BY <1>1, <1>5, Zenon DEF Alike
<1>9. Alike(v, Width * h + (low + out))
  <2>1. /\ v \in Int /\ w \in Int /\ x - cs2 \in Int /\ x - cs2 + ct0 \in Int /\ w - cs2 \in Int
        /\ LowBits(w) - cs2 \in Int /\ Width * h + LowBits(w) \in Int /\ (Width * h + LowBits(w)) - cs2 \in Int
        /\ Width * h + low \in Int /\ Width * h + (low + out) \in Int /\ w - cs2 + out \in Int
    BY <1>1, <1>2, <1>5, <1>6, <1>7, Widths
  <2>2. Alike(v, x - cs2 + ct0)
    BY <1>4, <1>7, <1>8, <2>1, AlikeSums
  <2>3. Alike(cs2, cs2) /\ Alike(Width * h, Width * h)
    <3>1. \A a \in Int : a = a + Q * 0
      BY Widths
    <3> QED
      BY <1>1, <1>6, <3>1 DEF Alike
  <2>4. Alike(x, w) /\ Alike(ct0, out) /\ Alike(LowBits(w) - cs2, low)
    BY <1>1, <1>2, <2>1, AlikeSums
  <2>5. Alike(x - cs2, w - cs2)
    BY <1>1, <2>1, <2>3, <2>4, AlikeSums
  <2>6. Alike(w - cs2, (Width * h + LowBits(w)) - cs2)
    <3> DEFINE g == Width * h + LowBits(w)
    <3>1. g \in Int /\ Alike(w, g) /\ w \in Int /\ cs2 \in Int
      BY <1>1, <1>8, <2>1
    <3> HIDE DEF g
    <3>2. Alike(w - cs2, g - cs2)
      BY <2>3, <3>1, AlikeSums
    <3> QED
      BY <3>2 DEF g
  <2>7. Alike((Width * h + LowBits(w)) - cs2, Width * h + low)
    <3>1. Alike(Width * h + (LowBits(w) - cs2), Width * h + low)
      BY <1>2, <1>6, <2>1, <2>3, <2>4, AlikeSums
    <3>2. Width * h + (LowBits(w) - cs2) = (Width * h + LowBits(w)) - cs2
      BY <1>1, <1>5, <1>6
    <3> QED
      BY <3>1, <3>2
  <2>8. Alike(x - cs2, Width * h + low)
    <3>1. Alike(x - cs2, (Width * h + LowBits(w)) - cs2)
      BY <2>1, <2>5, <2>6, AlikeSums
    <3> QED
      BY <2>1, <2>7, <3>1, AlikeSums
  <2>9. Alike(x - cs2 + ct0, (Width * h + low) + out)
    BY <1>1, <1>2, <2>1, <2>4, <2>8, AlikeSums
  <2>10. (Width * h + low) + out = Width * h + (low + out)
    BY <1>2, <1>6
  <2> QED
    BY <2>1, <2>2, <2>9, <2>10, AlikeSums
<1>10. PICK m \in Int : v = Width * h + (low + out) + Q * m
  BY <1>9 DEF Alike
<1>11. low + out \in Int
  BY <1>2
<1>12. UseHint(v, MakeHint(low + out, h)) = h
  BY <1>2, <1>5, <1>7, <1>10, <1>11, HintRecovers
<1> QED
  BY <1>3, <1>7, <1>12 DEF v, u, az, ct1, h, w

-----------------------------------------------------------------------------
(* A challenge times a secret.                                             *)

Signs(c, n) == {i \in 0 .. n - 1 : c[i] # 0}

(* No coefficient of a challenge times a secret is beyond Beta: at most    *)
(* Beta / Eta terms of the product are not 0, and each is within Eta.      *)
LEMMA TimesSmall ==
  ASSUME NEW c \in Balls, NEW s \in [Columns -> -Eta .. Eta], NEW j \in Columns
  PROVE  Times(c, s)[j] \in -Beta .. Beta
<1> DEFINE term == [i \in Columns |-> IF i <= j THEN c[i] * s[j - i] ELSE -(c[i] * s[N + j - i])]
           w(n) == Cardinality(Signs(c, n))
<1>1. Eta \in Nat /\ Beta \in Nat /\ N \in Nat /\ Columns = 0 .. N - 1
  BY RoundingAssumption, PackingFacts
<1>2. ASSUME NEW i \in 0 .. N - 1
      PROVE  term[i] \in -Eta .. Eta /\ (c[i] = 0 => term[i] = 0)
  <2>1. c[i] \in -1 .. 1
    BY <1>1, BallShape
  <2>2. \A x \in -Eta .. Eta : c[i] * x \in -Eta .. Eta /\ -(c[i] * x) \in -Eta .. Eta
                               /\ (c[i] = 0 => c[i] * x = 0)
    <3> SUFFICES ASSUME NEW x \in -Eta .. Eta
                 PROVE  c[i] * x \in -Eta .. Eta /\ -(c[i] * x) \in -Eta .. Eta /\ (c[i] = 0 => c[i] * x = 0)
      OBVIOUS
    <3>1. CASE c[i] = 0
      BY <1>1, <3>1
    <3>2. CASE c[i] = 1
      BY <1>1, <3>2
    <3>3. CASE c[i] = -1
      BY <1>1, <3>3
    <3> QED
      BY <2>1, <3>1, <3>2, <3>3
  <2>3. CASE i <= j
    <3>1. s[j - i] \in -Eta .. Eta /\ term[i] = c[i] * s[j - i]
      <4>1. j - i \in Columns
        BY <1>1, <2>3
      <4> QED
        BY <1>1, <2>3, <4>1
    <3> HIDE DEF term
    <3> QED
      BY <2>2, <3>1
  <2>4. CASE ~(i <= j)
    <3>1. s[N + j - i] \in -Eta .. Eta /\ term[i] = -(c[i] * s[N + j - i])
      <4>1. N + j - i \in Columns
        BY <1>1, <2>4
      <4> QED
        BY <1>1, <2>4, <4>1
    <3> DEFINE x == s[N + j - i]
    <3> HIDE DEF term
    <3>2. x \in -Eta .. Eta /\ term[i] = -(c[i] * x)
      BY <3>1
    <3>3. -(c[i] * x) \in -Eta .. Eta /\ (c[i] = 0 => c[i] * x = 0)
      BY <2>2, <3>2
    <3>4. c[i] = 0 => -(c[i] * x) = 0
      BY <3>3
    <3> HIDE DEF x
    <3> QED
      BY <3>2, <3>3, <3>4
  <2> QED
    BY <2>3, <2>4
<1>3. Times(c, s)[j] = SumOf(term, N)
  BY DEF Times
<1> HIDE DEF term
<1>4. Terms(term, N)
  BY <1>1, <1>2 DEF Terms
<1>5. /\ SumOf(term, 0) = 0 /\ \A n \in 0 .. N - 1 : SumOf(term, n + 1) = SumOf(term, n) + term[n]
      /\ \A n \in 0 .. N : SumOf(term, n) \in Int
  BY <1>1, <1>4, SumFacts
<1>6. ASSUME NEW n \in 0 .. N - 1
      PROVE  /\ IsFiniteSet(Signs(c, n)) /\ w(n) \in Nat
             /\ w(n + 1) = IF c[n] = 0 THEN w(n) ELSE w(n) + 1
  <2>1. IsFiniteSet(Signs(c, n))
    <3>1. IsFiniteSet(0 .. n - 1) /\ Signs(c, n) \subseteq 0 .. n - 1
      BY FS_Interval DEF Signs
    <3> QED
      BY <3>1, FS_Subset
  <2>2. n \notin Signs(c, n) /\ Signs(c, n + 1) = IF c[n] = 0 THEN Signs(c, n) ELSE Signs(c, n) \cup {n}
    BY DEF Signs
  <2>3. Cardinality(Signs(c, n) \cup {n}) = Cardinality(Signs(c, n)) + 1
    BY <2>1, <2>2, FS_AddElement
  <2> QED
    BY <2>1, <2>2, <2>3, FS_CardinalityType
<1> DEFINE S == {n \in 0 .. N : SumOf(term, n) <= w(n) * Eta /\ -(w(n) * Eta) <= SumOf(term, n)}
<1>7. 0 \in S
  <2>1. Signs(c, 0) = {}
    BY DEF Signs
  <2>2. w(0) = 0
    BY <2>1, FS_EmptySet
  <2> QED
    BY <1>1, <1>5, <2>2
<1>8. ASSUME NEW n \in 0 .. N - 1, n \in S PROVE n + 1 \in S
  <2> DEFINE a == w(n) * Eta
  <2>1. (w(n) + 1) * Eta = w(n) * Eta + Eta /\ w(n) * Eta \in Int
    BY <1>1, <1>6
  <2>2. w(n + 1) * Eta = IF c[n] = 0 THEN a ELSE a + Eta
    BY <1>6, <2>1
  <2>3. a \in Int /\ SumOf(term, n) <= a /\ -a <= SumOf(term, n)
    BY <1>8, <2>1
  <2> DEFINE b == w(n + 1) * Eta
  <2>4. b = IF c[n] = 0 THEN a ELSE a + Eta
    BY <2>2
  <2> HIDE DEF a, b
  <2>5. SumOf(term, n + 1) <= b /\ -b <= SumOf(term, n + 1)
    <3> DEFINE x == SumOf(term, n)
               y == SumOf(term, n + 1)
               d == term[n]
    <3>1. x \in Int /\ x <= a /\ -a <= x /\ y = x + d
      BY <1>1, <1>5, <2>3
    <3>2. d \in Int /\ d <= Eta /\ -Eta <= d /\ (c[n] = 0 => d = 0)
      BY <1>1, <1>2
    <3> HIDE DEF x, y, d
    <3>3. y <= b /\ -b <= y
      <4>1. CASE c[n] = 0
        BY <1>1, <2>3, <2>4, <3>1, <3>2, <4>1
      <4>2. CASE c[n] # 0
        BY <1>1, <2>3, <2>4, <3>1, <3>2, <4>2
      <4> QED
        BY <4>1, <4>2
    <3> QED
      BY <3>3 DEF y
  <2> QED
    BY <2>5, <1>1 DEF b
<1> HIDE DEF S
<1>9. \A n \in 0 .. N : n \in S
  BY <1>1, <1>7, <1>8, InductionTo
<1>10. SumOf(term, N) <= w(N) * Eta /\ -(w(N) * Eta) <= SumOf(term, N)
  BY <1>1, <1>9 DEF S
<1>11. w(N) * Eta <= Beta /\ w(N) * Eta \in Int
  <2>1. Signs(c, N) = {i \in Columns : c[i] # 0}
    BY <1>1 DEF Signs
  <2>2. w(N) * Eta <= Beta
    BY <2>1, SignAssumption
  <2>3. w(N) \in Nat
    <3>1. IsFiniteSet(0 .. N - 1) /\ Signs(c, N) \subseteq 0 .. N - 1
      BY <1>1, FS_Interval DEF Signs
    <3> QED
      BY <3>1, FS_Subset, FS_CardinalityType
  <2> QED
    BY <1>1, <2>2, <2>3
<1> DEFINE t == w(N) * Eta
<1>12. t \in Int /\ t <= Beta /\ SumOf(term, N) <= t /\ -t <= SumOf(term, N) /\ SumOf(term, N) \in Int
  BY <1>1, <1>5, <1>10, <1>11
<1> HIDE DEF t
<1> QED
  BY <1>1, <1>3, <1>12

-----------------------------------------------------------------------------
(* What a signature is good for: it verifies under its own message and key *)
(* only, no other hint bytes do in its place, and its z fits every secret. *)

Explains(s) ==
    \A l \in 0 .. L - 1 : \A x \in [Columns -> -Eta .. Eta] : \A j \in Columns :
        s.z[l][j] - Times(s.ball, x)[j] \in 1 - Gamma1 .. Gamma1

Sound(s, m, public) ==
    /\ s = [hashed |-> s.hashed, ball |-> s.ball, z |-> s.z, hints |-> s.hints]
    /\ s.hashed[1] = Mu(public, m)
    /\ Accepts(s, m, public)
    /\ \A e \in Encodings : Accepts([s EXCEPT !.hints = e], m, public) => e = s.hints
    /\ Explains(s)

(* The record pack_sig writes for mask y and challenge c.                  *)
Signature(y, c, m) ==
    [hashed |-> <<Mu(keys.public, m), [i \in Rows |-> Map(HighBits, Commitment(y)[i])]>>,
     ball |-> c, z |-> Answer(y, c), hints |-> PackHints(Hints(y, c))]

(* The operand of use_hint, as verification computes it.                   *)
Operand(s, public, i, j) ==
    Standard(Apply(public.A, s.z)[i][j] - Times(s.ball, public.t1[i])[j] * 2 ^ D)

(* Accepts, with the operand of use_hint named.                            *)
LEMMA AcceptsIs ==
  ASSUME NEW s, NEW m, NEW public
  PROVE  /\ Accepts(s, m, public) <=>
              /\ WellFormed(s.hints)
              /\ ~TooLong(s.z, Gamma1 - Beta)
              /\ s.hashed = <<Mu(public, m),
                   [i \in Rows |-> [j \in Columns |-> UseHint(Operand(s, public, i, j), UnpackHints(s.hints)[i][j])]]>>
         /\ Accepts(s, m, public) => s.hashed[1] = Mu(public, m)
<1> DEFINE u == [i \in Rows |-> [j \in Columns |-> UseHint(Operand(s, public, i, j), UnpackHints(s.hints)[i][j])]]
           v == LET h   == UnpackHints(s.hints)
                    Az  == Apply(public.A, s.z)
                    ct1 == [i \in Rows |-> Times(s.ball, public.t1[i])]
                IN  [i \in Rows |-> [j \in Columns |->
                        UseHint(Standard(Az[i][j] - ct1[i][j] * 2 ^ D), h[i][j])]]
<1>1. u = v
  BY DEF Operand
<1>2. Accepts(s, m, public) <=> WellFormed(s.hints) /\ ~TooLong(s.z, Gamma1 - Beta) /\ s.hashed = <<Mu(public, m), v>>
  BY DEF Accepts
<1> QED
  BY <1>1, <1>2

(* Hints are bits, those made and those read back.                         *)
LEMMA HintsHinted ==
  ASSUME NEW y, NEW c
  PROVE  Hints(y, c) \in Hinted
BY DEF Hints, Hinted, MakeHint

LEMMA UnpackedHinted ==
  ASSUME NEW e
  PROVE  UnpackHints(e) \in Hinted
BY DEF UnpackHints, Hinted

(* What leaves the loop is good.                                           *)
LEMMA SignedSound ==
  ASSUME NEW k \in KeyMaterial, keys = Generate(k), NEW y \in Masks, NEW c \in Balls,
         ~Rejected(y, c), NEW m, NEW s, s = Signature(y, c, m)
  PROVE  Sound(s, m, keys.public)
<1> DEFINE H  == Hints(y, c)
           w1 == [i \in Rows |-> Map(HighBits, Commitment(y)[i])]
           V(i, j) == Operand(s, keys.public, i, j)
<1>1. /\ s = [hashed |-> s.hashed, ball |-> s.ball, z |-> s.z, hints |-> s.hints]
      /\ s.hashed = <<Mu(keys.public, m), w1>> /\ s.ball = c /\ s.z = Answer(y, c) /\ s.hints = PackHints(H)
  BY DEF Signature
<1>2. H \in Hinted /\ ~(Cardinality(SetHints(H)) > Omega)
  BY HintsHinted DEF Rejected, TooManyHints
<1>3. WellFormed(PackHints(H)) /\ UnpackHints(PackHints(H)) = H
  <2>1. Cardinality(SetHints(H)) <= Omega
    <3> DEFINE S == SetHints(H)
    <3>1. S \in SUBSET (Rows \X Columns)
      BY DEF SetHints
    <3>2. Cardinality(S) \in Nat /\ Omega \in Nat
      BY <3>1, PositionsFinite, PackingFacts
    <3>3. ~(Cardinality(S) > Omega)
      BY <1>2
    <3> HIDE DEF S
    <3>4. Cardinality(S) <= Omega
      BY <3>2, <3>3
    <3> QED
      BY <3>4 DEF S
  <2> HIDE DEF H
  <2> QED
    BY <1>2, <2>1, PackedUnpacks
<1>4. ~TooLong(s.z, Gamma1 - Beta)
  BY <1>1 DEF Rejected, Reveals
<1>5. ASSUME NEW i \in Rows, NEW j \in Columns
      PROVE  V(i, j) \in 0 .. Q - 1 /\ UseHint(V(i, j), H[i][j]) = w1[i][j]
  <2>1. V(i, j) = Standard(Apply(keys.public.A, Answer(y, c))[i][j] - Times(c, keys.public.t1[i])[j] * 2 ^ D)
    BY <1>1 DEF Operand
  <2>2. w1[i][j] = HighBits(Commitment(y)[i][j])
    BY DEF Map
  <2> HIDE DEF V, w1
  <2> QED
    BY <2>1, <2>2, HighBitsBack
<1>6. w1 = [i \in Rows |-> [j \in Columns |-> w1[i][j]]]
  BY DEF Map
<1> HIDE DEF H, w1, V
<1>7. Accepts(s, m, keys.public)
  <2>1. [i \in Rows |-> [j \in Columns |-> UseHint(V(i, j), UnpackHints(s.hints)[i][j])]] = w1
    BY <1>1, <1>3, <1>5, <1>6
  <2>2. [i \in Rows |-> [j \in Columns |-> UseHint(Operand(s, keys.public, i, j), UnpackHints(s.hints)[i][j])]] = w1
    BY <2>1 DEF V
  <2> QED
    BY <1>1, <1>3, <1>4, <2>2, AcceptsIs
<1>8. ASSUME NEW e \in Encodings, Accepts([s EXCEPT !.hints = e], m, keys.public)
      PROVE  e = s.hints
  <2> DEFINE t == [s EXCEPT !.hints = e]
             G == UnpackHints(e)
  <2>1. t.hints = e /\ t.z = s.z /\ t.ball = s.ball /\ t.hashed = s.hashed /\ Accepts(t, m, keys.public)
    BY <1>1, <1>8
  <2> HIDE DEF t
  <2>2. WellFormed(e) /\ s.hashed = <<Mu(keys.public, m),
          [i \in Rows |-> [j \in Columns |-> UseHint(Operand(t, keys.public, i, j), G[i][j])]]>>
    <3>1. WellFormed(t.hints) /\ t.hashed = <<Mu(keys.public, m),
            [i \in Rows |-> [j \in Columns |-> UseHint(Operand(t, keys.public, i, j), UnpackHints(t.hints)[i][j])]]>>
      BY <2>1, AcceptsIs
    <3> QED
      BY <2>1, <3>1
  <2>3. \A i, j : Operand(t, keys.public, i, j) = V(i, j)
    BY <2>1 DEF Operand, V
  <2>4. w1 = [i \in Rows |-> [j \in Columns |-> UseHint(V(i, j), G[i][j])]]
    BY <1>1, <2>2, <2>3
  <2>5. G \in Hinted
    BY UnpackedHinted
  <2> HIDE DEF G
  <2>6. ASSUME NEW i \in Rows, NEW j \in Columns PROVE G[i][j] = H[i][j]
    <3>1. UseHint(V(i, j), G[i][j]) = UseHint(V(i, j), H[i][j])
      BY <1>5, <2>4
    <3>2. G[i][j] \in {0, 1} /\ H[i][j] \in {0, 1}
      BY <1>2, <2>5 DEF Hinted
    <3>3. UseHint(V(i, j), 1) # UseHint(V(i, j), 0)
      BY <1>5, HintsDiffer
    <3> QED
      BY <3>1, <3>2, <3>3
  <2>7. G = H
    BY <1>2, <2>5, <2>6 DEF Hinted
  <2>8. PackHints(G) = e
    BY <2>2, UnpackedPacks DEF G
  <2> QED
    BY <1>1, <2>7, <2>8
<1>9. Explains(s)
  <2> SUFFICES ASSUME NEW l \in 0 .. L - 1, NEW x \in [Columns -> -Eta .. Eta], NEW j \in Columns
               PROVE  s.z[l][j] - Times(s.ball, x)[j] \in 1 - Gamma1 .. Gamma1
    BY DEF Explains
  <2> DEFINE v == s.z
             b == Gamma1 - Beta
             a == v[l][j]
             d == Times(s.ball, x)[j]
  <2>1. Gamma1 \in Nat /\ Beta \in Nat /\ b \in Int
    BY RoundingAssumption
  <2>2. v \in Vector /\ DOMAIN v = 0 .. L - 1 /\ a \in Int
    <3>1. v \in Vector
      BY <1>1, AnswerShape
    <3> HIDE DEF v
    <3>2. v[l] \in Poly /\ DOMAIN v = 0 .. L - 1
      BY <3>1 DEF Vector
    <3>3. v[l][j] \in Int
      BY <3>2 DEF Poly
    <3> QED
      BY <3>1, <3>2, <3>3
  <2>3. ~TooLong(v, b)
    BY <1>4
  <2>4. d \in -Beta .. Beta
    BY <1>1, TimesSmall
  <2> HIDE DEF v
  <2>5. -b < a /\ a < b
    <3> HIDE DEF b
    <3> QED
      BY <2>1, <2>2, <2>3, NotTooLong
  <2> HIDE DEF a, d
  <2>6. a - d \in 1 - Gamma1 .. Gamma1
    BY <2>1, <2>2, <2>4, <2>5
  <2> QED
    BY <2>6 DEF a, d, v
<1> QED
  <2>1. s.hashed[1] = Mu(keys.public, m)
    BY <1>1
  <2> QED
    BY <1>1, <1>7, <1>8, <1>9, <2>1 DEF Sound

-----------------------------------------------------------------------------
(* The inductive invariant.                                                *)

Checked ==
    /\ verdict = IF Accepts(given.sig, given.msg, given.public) THEN "OK" ELSE "FAILED"
    /\ \/ given.sig = sig
       \/ \E e \in Encodings :
             given = [sig |-> [sig EXCEPT !.hints = e], msg |-> msg, public |-> keys.public]

SignInv ==
    /\ \E k \in KeyMaterial : keys = Generate(k)
    /\ pc \in {"signed", "checked"} => Sound(sig, msg, keys.public)
    /\ pc = "checked" => Checked
    /\ verdict = "OK" => pc = "checked"

(* The invariant holds at first and no step breaks it.                     *)
LEMMA SignInvInit ==
  Init => SignInv
BY DEF Init, SignInv

LEMMA SignInvStep ==
  SignInv /\ [Next]_vars => SignInv'
<1> SUFFICES ASSUME SignInv, [Next]_vars PROVE SignInv'
  OBVIOUS
<1> PICK k \in KeyMaterial : keys = Generate(k)
  BY DEF SignInv
<1>1. ASSUME NEW m \in Messages, Begin(m) PROVE SignInv'
  BY <1>1 DEF SignInv, Begin
<1>2. ASSUME NEW y \in Masks, NEW c \in Balls, Try(y, c) PROVE SignInv'
  <2>1. CASE Rejected(y, c)
    <3>1. UNCHANGED <<keys, msg, pc, sig, given, verdict>>
      BY <1>2, <2>1 DEF Try, Reject
    <3> QED
      BY <3>1 DEF SignInv, Checked
  <2>2. CASE ~Rejected(y, c)
    <3>1. /\ sig' = Signature(y, c, msg) /\ pc' = "signed" /\ pc = "loop"
          /\ keys' = keys /\ msg' = msg /\ verdict' = verdict
      BY <1>2, <2>2 DEF Try, Output, Signature
    <3>2. Sound(sig', msg', keys'.public)
      <4>1. \A s : s = Signature(y, c, msg) => Sound(s, msg, keys.public)
        BY <2>2, SignedSound
      <4> QED
        BY <3>1, <4>1
    <3> QED
      BY <3>1, <3>2 DEF SignInv
  <2> QED
    BY <2>1, <2>2
<1>3. ASSUME NEW m \in Messages, NEW g \in KeyMaterial, Verify(sig, m, Generate(g).public) PROVE SignInv'
  <2>1. /\ pc = "signed" /\ pc' = "checked" /\ UNCHANGED <<keys, msg, sig>>
        /\ given' = [sig |-> sig, msg |-> m, public |-> Generate(g).public]
        /\ verdict' = IF Accepts(sig, m, Generate(g).public) THEN "OK" ELSE "FAILED"
    BY <1>3 DEF Verify
  <2>2. Checked'
    BY <2>1 DEF Checked
  <2> QED
    BY <2>1, <2>2 DEF SignInv
<1>4. ASSUME NEW e \in Encodings, Verify([sig EXCEPT !.hints = e], msg, keys.public) PROVE SignInv'
  <2> DEFINE t == [sig EXCEPT !.hints = e]
  <2>1. /\ pc = "signed" /\ pc' = "checked" /\ UNCHANGED <<keys, msg, sig>>
        /\ given' = [sig |-> t, msg |-> msg, public |-> keys.public]
        /\ verdict' = IF Accepts(t, msg, keys.public) THEN "OK" ELSE "FAILED"
    BY <1>4 DEF Verify
  <2>2. Checked'
    BY <2>1 DEF Checked
  <2> QED
    BY <2>1, <2>2 DEF SignInv
<1>5. CASE UNCHANGED vars
  BY <1>5 DEF SignInv, Checked, vars
<1> QED
  BY <1>1, <1>2, <1>3, <1>4, <1>5 DEF Next

LEMMA SignInvAlways ==
  Spec => []SignInv
BY SignInvInit, SignInvStep, PTL DEF Spec

-----------------------------------------------------------------------------

(* Whatever the mask and the challenge, a candidate that crypto_sign_      *)
(* signature lets through is accepted by crypto_sign_verify, and under     *)
(* another message or key it is not.                                       *)
THEOREM SignaturesVerify ==
  Spec => []VerifiesAsSigned
<1>1. SignInv => VerifiesAsSigned
  <2> SUFFICES ASSUME SignInv, pc = "checked", given.sig = sig
               PROVE  verdict = "OK" <=> given.msg = msg /\ given.public = keys.public
    BY DEF VerifiesAsSigned
  <2>1. verdict = "OK" <=> Accepts(sig, given.msg, given.public)
    BY DEF SignInv, Checked
  <2>2. sig.hashed[1] = Mu(keys.public, msg) /\ Accepts(sig, msg, keys.public)
    BY DEF SignInv, Sound
  <2>3. Accepts(sig, given.msg, given.public) => sig.hashed[1] = Mu(given.public, given.msg)
    BY AcceptsIs
  <2>4. Mu(given.public, given.msg) = Mu(keys.public, msg) => given.msg = msg /\ given.public = keys.public
    BY DEF Mu
  <2> QED
    BY <2>1, <2>2, <2>3, <2>4
<1> QED
  BY <1>1, SignInvAlways, PTL

(* No other hint bytes verify in the place of those of a signature: the    *)
(* encoding is unique (unpack_sig), and other hints give other high bits.  *)
THEOREM OneHintEncoding ==
  Spec => []HintsUnique
<1>1. SignInv => HintsUnique
  <2> SUFFICES ASSUME SignInv, verdict = "OK" PROVE given.sig.hints = sig.hints
    BY DEF HintsUnique
  <2>1. Checked /\ Sound(sig, msg, keys.public)
    BY DEF SignInv
  <2>2. CASE given.sig = sig
    BY <2>2
  <2>3. ASSUME NEW e \in Encodings,
               given = [sig |-> [sig EXCEPT !.hints = e], msg |-> msg, public |-> keys.public]
        PROVE  given.sig.hints = sig.hints
    <3>1. Accepts([sig EXCEPT !.hints = e], msg, keys.public)
      BY <2>1, <2>3 DEF Checked
    <3>2. e = sig.hints
      BY <2>1, <3>1 DEF Sound
    <3>3. [sig EXCEPT !.hints = e].hints = e
      BY <2>1 DEF Sound
    <3> QED
      BY <2>3, <3>2, <3>3
  <2> QED
    BY <2>1, <2>2, <2>3 DEF Checked
<1> QED
  BY <1>1, SignInvAlways, PTL

(* For every secret in range there is a mask in range that makes the same  *)
(* z: the norm check of the loop leaves room for c s1.                     *)
THEOREM MaskExplains ==
  Spec => []MaskHides
<1>1. SignInv => MaskHides
  BY DEF SignInv, Sound, Explains, MaskHides
<1> QED
  BY <1>1, SignInvAlways, PTL
=============================================================================
