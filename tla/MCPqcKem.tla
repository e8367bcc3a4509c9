------------------------------- MODULE MCPqcKem -------------------------------
(* TLC instances of PqcKem.  Interference between threads goes through the  *)
(* selector alone, and a client's buffers are its own, so one client beside *)
(* a thread that reselects meets every interleaving a client can.           *)
EXTENDS PqcKem, TLC

CONSTANTS client, other, e1, e2

Symmetry == Permutations({e1, e2})
=============================================================================
