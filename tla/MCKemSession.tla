----------------------------- MODULE MCKemSession -----------------------------
(* TLC instance of KemSession.  The dummy layout is scaled down so that all *)
(* kinds of key byte occur: only compared (2, 4), only in the secret (0),   *)
(* in both (3), in neither (1, 5); the first nonce byte is masked twice.    *)
EXTENDS KemSession
=============================================================================
