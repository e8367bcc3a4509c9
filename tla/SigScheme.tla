------------------------------ MODULE SigScheme ------------------------------
(***************************************************************************)
(* The data of the signature backends: artifact sizes and symbolic         *)
(* contents, idealised as in KemScheme.  A signature is what one backend   *)
(* makes of a key and a message.                                           *)
(***************************************************************************)
EXTENDS Naturals

CONSTANT Entropy    \* the random values a key pair can draw

Backends   == {"DUMMY", "MLDSA"}

(* The sizes in the backend tables. *)
Size(backend, b) ==
    CASE b = "pk"  -> IF backend = "MLDSA" THEN 1952 ELSE 1312
      [] b = "sk"  -> IF backend = "MLDSA" THEN 4032 ELSE 2528
      [] b = "sig" -> IF backend = "MLDSA" THEN 3309 ELSE 2420

Junk     == <<"junk">>
Partial  == <<"partial">>
Tampered == <<"tampered">>
Opaque   == <<"opaque">>
PublicKey(b, r)       == <<"pk", b, r>>
SecretKey(b, r)       == <<"sk", b, r>>
Signature(b, key, m)  == <<"sig", b, key, m>>

(* The public key a backend finds in the secret key it signs with. *)
EmbeddedKey(b, sk) ==
    IF \E r \in Entropy : sk = SecretKey(b, r)
    THEN PublicKey(b, CHOOSE r \in Entropy : sk = SecretKey(b, r))
    ELSE Opaque
=============================================================================
