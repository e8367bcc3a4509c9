------------------------------ MODULE HintPacking ------------------------------
(***************************************************************************)
(* How packing.c of the vendored ML-DSA writes a vector of hints into the  *)
(* last Omega + K bytes of a signature and reads it back: the positions of *)
(* the set hints row after row, zeros up to Omega, then for each row how   *)
(* many positions the rows so far have taken.                              *)
(***************************************************************************)
EXTENDS Integers, FiniteSets

CONSTANTS
    K,          \* rows of the hint vector, 6
    N,          \* coefficients of a row; also the values of a byte, 256
    Omega       \* the most hints a signature has room for, 55

ASSUME PackingAssumption ==
    /\ K \in Nat \ {0} /\ N \in Nat \ {0} /\ Omega \in Nat
    /\ Omega < N        \* a count fits a byte

Rows      == 0 .. K - 1
Columns   == 0 .. N - 1
Encodings == [0 .. Omega + K - 1 -> Columns]

SetHints(h) == {p \in Rows \X Columns : h[p[1]][p[2]] # 0}

(* Row-major order, in which pack_sig visits the coefficients. *)
Before(p, q) == p[1] < q[1] \/ (p[1] = q[1] /\ p[2] < q[2])

(* pack_sig, for at most Omega set hints: signing makes sure of that. *)
PackHints(h) ==
    LET hints == SetHints(h)
        rank(p) == Cardinality({q \in hints : Before(q, p)})
    IN [b \in 0 .. Omega + K - 1 |->
          IF b >= Omega
          THEN Cardinality({p \in hints : p[1] <= b - Omega})
          ELSE IF \E p \in hints : rank(p) = b
               THEN (CHOOSE p \in hints : rank(p) = b)[2]
               ELSE 0]

(* unpack_sig: row i has the positions from First up to before Last. *)
First(e, i) == IF i = 0 THEN 0 ELSE e[Omega + i - 1]
Last(e, i)  == e[Omega + i]

(* Mutant of WellFormed: the order of the positions is not looked at. *)
WellFormedUnordered(e) ==
    /\ \A i \in Rows : First(e, i) <= Last(e, i) /\ Last(e, i) <= Omega
    /\ \A b \in Last(e, K - 1) .. Omega - 1 : e[b] = 0

(* What unpack_sig checks: counts that do not fall and stay below Omega,   *)
(* positions that rise within a row, zeros in the bytes left over.         *)
WellFormed(e) ==
    /\ \A i \in Rows :
          /\ First(e, i) <= Last(e, i) /\ Last(e, i) <= Omega
          /\ \A b \in First(e, i) + 1 .. Last(e, i) - 1 : e[b - 1] < e[b]
    /\ \A b \in Last(e, K - 1) .. Omega - 1 : e[b] = 0

UnpackHints(e) ==
    [i \in Rows |-> [j \in Columns |->
        IF \E b \in First(e, i) .. Last(e, i) - 1 : e[b] = j THEN 1 ELSE 0]]
=============================================================================
