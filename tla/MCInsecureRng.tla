---------------------------- MODULE MCInsecureRng ----------------------------
(* TLC instance of InsecureRng: two threads over both dummy modules.        *)
EXTENDS InsecureRng, TLC

Symmetry == Permutations(Threads)
=============================================================================
