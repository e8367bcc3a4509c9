------------------------------- MODULE MCPqcCli -------------------------------
(* TLC instances of PqcCli: one user's KEM and signature sessions, with     *)
(* faults, kills, changing algorithms and files named twice, and two        *)
(* processes at once.                                                       *)
EXTENDS PqcCli, TLC

CONSTANTS e1, e2, p1, p2

Symmetry == Permutations({e1, e2})
m1 == <<"m1">>
OneMessage  == {m1}
TwoMessages == {m1, EmptyMessage}

Usual    == [r \in Roles |-> r]
KeyFile  == [Usual EXCEPT !["sec"] = "pub"]     \* both keys in one file
OverCt   == [Usual EXCEPT !["dss"] = "ct"]      \* the secret over the ciphertext
OneLayout  == {Usual}
AnyLayout  == {Usual, KeyFile, OverCt}
=============================================================================
