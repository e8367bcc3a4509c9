------------------------------ MODULE MCFips202 ------------------------------
(* Two contexts of a sponge with blocks of two bytes. *)
EXTENDS Fips202, TLC

CONSTANTS c1, c2

(* A zero byte, and the byte a suffix could be taken for. *)
Values == {{}, {"mid"}}

Pieces == UNION {[1..n -> Values] : n \in 0..3}

Symmetry == Permutations({c1, c2})
=============================================================================
