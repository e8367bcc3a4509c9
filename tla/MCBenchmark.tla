------------------------------ MODULE MCBenchmark ------------------------------
(* TLC instance of Benchmark: two processes, each operation with a cost of  *)
(* its own so that a call timed with the wrong loop shows.                  *)
EXTENDS Benchmark, TLC

CONSTANTS p1, p2

CallCost == [op \in Operations |->
               CASE op = "keypair" -> 1 [] op = "encaps" -> 2 [] op = "decaps" -> 3
                 [] op = "sig_keypair" -> 4 [] op = "sign" -> 5 [] op = "verify" -> 6]

Symmetry == Permutations(Procs)
=============================================================================
