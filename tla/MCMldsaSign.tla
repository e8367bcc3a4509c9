------------------------------ MODULE MCMldsaSign ------------------------------
(* TLC instance of MldsaSign: two rows of four coefficients modulo 73.  The *)
(* relations between the parameters are those of ML-DSA-65: Q is one more   *)
(* than a multiple of twice Gamma2, Beta is the number of non-zero          *)
(* challenge coefficients times Eta, and c t0 stays below Gamma2.           *)
EXTENDS MldsaSign, Sequences, TLC

CONSTANTS m1, m2

Symmetry == Permutations({m1, m2})

Poly(c)   == [j \in 0 .. 3 |-> c[j + 1]]
Vector(p) == [i \in 0 .. Len(p) - 1 |-> Poly(p[i + 1])]
Key(a, b, s1, s2, s3) ==
    [A  |-> [i \in 0 .. 1 |-> Vector(<<IF i = 0 THEN a ELSE b>>)],
     s1 |-> Vector(<<s1>>), s2 |-> Vector(<<s2, s3>>)]

(* Two keys whose candidates come with up to three hints, in one row and   *)
(* spread over both.                                                       *)
SomeKeys == {
    Key(<<17, 5, 60, 33>>, <<41, 70, 2, 29>>, <<1, 0, -1, 1>>, <<0, 1, 1, -1>>, <<-1, 0, 1, 0>>),
    Key(<<3, 48, 11, 72>>, <<25, 14, 66, 9>>, <<0, -1, 1, 1>>, <<1, 0, -1, 1>>, <<1, 1, 0, -1>>)}

SomeMasks == [0 .. 0 -> [0 .. 3 -> {-7, -2, 1, 5, 8}]]

(* Challenges have two coefficients of 1 or -1, the rest are 0. *)
AllBalls == {c \in [0 .. 3 -> {-1, 0, 1}] : Cardinality({j \in 0 .. 3 : c[j] # 0}) = 2}
=============================================================================
