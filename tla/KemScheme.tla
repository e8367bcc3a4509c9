------------------------------ MODULE KemScheme ------------------------------
(***************************************************************************)
(* The data of the KEM backends, as the library and the command line       *)
(* program see it: artifact sizes and symbolic contents.  Values are       *)
(* idealised: independent random values never coincide, and keys, cipher-  *)
(* texts and secrets are equal only when made from the same parts by the   *)
(* same backend.  Bytes one backend wrote mean nothing to another.         *)
(***************************************************************************)
EXTENDS Naturals

CONSTANT Entropy    \* the random values a key pair or encapsulation can draw

Backends == {"DUMMY", "MLKEM", "PLACEHOLDER"}

(* The sizes in the backend tables; the placeholder reports the dummy's.   *)
Size(backend, b) ==
    CASE b = "pk" -> IF backend = "MLKEM" THEN 1184 ELSE 800
      [] b = "sk" -> IF backend = "MLKEM" THEN 2400 ELSE 1632
      [] b = "ct" -> IF backend = "MLKEM" THEN 1088 ELSE 768
      [] b \in {"ss", "sd"} -> 32

(* Contents.  Partial is what a primitive that fails midway leaves behind. *)
Junk       == <<"junk">>
Zero       == <<"zero">>
Partial    == <<"partial">>
Tampered   == <<"tampered">>
RejectKey  == <<"reject">>
Opaque     == <<"opaque">>
PublicKey(b, r)        == <<"pk", b, r>>
SecretKey(b, r)        == <<"sk", b, r>>
Ciphertext(b, key, n)  == <<"ct", b, key, n>>
Secret(b, key, n)      == <<"ss", b, key, n>>

(* The public key a backend finds inside the secret key: the dummy's is    *)
(* its prefix, ML-KEM keeps it behind the indcpa part.  Bytes of another   *)
(* layout are read as some key nobody encapsulated to.                     *)
EmbeddedKey(b, sk) ==
    IF \E r \in Entropy : sk = SecretKey(b, r)
    THEN PublicKey(b, CHOOSE r \in Entropy : sk = SecretKey(b, r))
    ELSE Opaque

(* Does this ciphertext open under the key?  The dummy compares the masked *)
(* part byte by byte, ML-KEM re-encrypts and compares.                     *)
Opens(b, key, ct) == \E n \in Entropy : ct = Ciphertext(b, key, n)

(* The secret that goes with a ciphertext that opens. *)
SecretIn(ct) == Secret(ct[2], ct[3], ct[4])
=============================================================================
