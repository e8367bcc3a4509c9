------------------------------- MODULE MCPqcSig -------------------------------
(* A TLC instance of PqcSig: one client against a thread that reselects. *)
EXTENDS PqcSig, TLC

CONSTANTS client, other, e1, e2, m1, m2

Symmetry == Permutations({e1, e2}) \cup Permutations({m1, m2})

(* Success of the vendored sign, and two results the wrapper guards        *)
(* against: an error, and success with another length.                     *)
SignMayFail  == {<<0, 3309>>, <<0, 0>>, <<1, 0>>}
=============================================================================
