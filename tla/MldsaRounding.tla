----------------------------- MODULE MldsaRounding -----------------------------
(***************************************************************************)
(* rounding.c and the polynomial arithmetic of the vendored ML-DSA, over   *)
(* the ring of polynomials of degree below N modulo Q and X^N + 1.  The    *)
(* code multiplies through number-theoretic transforms and reduces lazily; *)
(* here a product is a product and a reduced coefficient the one nearest   *)
(* to zero.                                                                *)
(***************************************************************************)
EXTENDS HintPacking

CONSTANTS
    Q,          \* the modulus
    L,          \* polynomials in a mask
    D,          \* dropped bits of the public key
    Gamma1,     \* bound of the mask coefficients
    Gamma2,     \* half the width of a high-bits interval
    Beta,       \* the most a challenge times a secret comes to
    Eta         \* bound of the secret coefficients

(* The number of high-bits intervals, 16. *)
Highs == (Q - 1) \div (2 * Gamma2)

ASSUME RoundingAssumption ==
    /\ Q \in Nat \ {0} /\ L \in Nat \ {0} /\ D \in Nat \ {0} /\ Eta \in Nat
    /\ Gamma1 \in Nat /\ Gamma2 \in Nat \ {0} /\ Beta \in Nat
    /\ Q = 2 * Gamma2 * Highs + 1 /\ Highs >= 2

(* Standard and centred representatives. *)
Standard(a) == a % Q
Centred(a)  == LET r == a % Q IN IF 2 * r > Q THEN r - Q ELSE r

Map(Op(_), p) == [j \in Columns |-> Op(p[j])]

Plus(p, q)  == [j \in Columns |-> p[j] + q[j]]
Minus(p, q) == [j \in Columns |-> p[j] - q[j]]

(* The sum of term[0] .. term[n - 1]. *)
SumOf(term, n) ==
    LET sum[i \in 0 .. n] == IF i = 0 THEN 0 ELSE sum[i - 1] + term[i - 1] IN sum[n]

(* The product in the ring: X^N is -1. *)
Times(p, q) ==
    [j \in Columns |->
        SumOf([i \in Columns |-> IF i <= j THEN p[i] * q[j - i] ELSE -(p[i] * q[N + j - i])], N)]

(* Matrix (rows of L polynomials) times vector. *)
Apply(A, v) ==
    [i \in Rows |-> [j \in Columns |->
        SumOf([l \in 0 .. L - 1 |-> Times(A[i][l], v[l])[j]], L)]]

(* power2round *)
High2(a) == (a + 2 ^ (D - 1) - 1) \div (2 ^ D)
Low2(a)  == a - High2(a) * 2 ^ D

(* decompose: the high bits and what is left, with the last interval       *)
(* folded onto the first.                                                  *)
HighBits(a) == ((a + Gamma2 - 1) \div (2 * Gamma2)) % Highs
LowBits(a)  ==
    LET r == a - HighBits(a) * 2 * Gamma2
    IN IF 2 * r > Q - 1 THEN r - Q ELSE r

(* Mutant of MakeHint: the lower edge is treated like the upper one. *)
MakeHintSymmetric(a0, a1) == IF a0 > Gamma2 \/ a0 < -Gamma2 THEN 1 ELSE 0

(* make_hint *)
MakeHint(a0, a1) ==
    IF a0 > Gamma2 \/ a0 < -Gamma2 \/ (a0 = -Gamma2 /\ a1 # 0) THEN 1 ELSE 0

(* use_hint *)
UseHint(a, hint) ==
    IF hint = 0 THEN HighBits(a)
    ELSE IF LowBits(a) > 0 THEN (HighBits(a) + 1) % Highs
                           ELSE (HighBits(a) - 1) % Highs

(* poly_chknorm for every row of a vector: TRUE where a vector is refused. *)
TooLong(v, bound) ==
    \/ bound > (Q - 1) \div 8
    \/ \E i \in DOMAIN v : \E j \in Columns : v[i][j] >= bound \/ -v[i][j] >= bound
=============================================================================
