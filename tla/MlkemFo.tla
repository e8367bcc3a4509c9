-------------------------------- MODULE MlkemFo --------------------------------
(***************************************************************************)
(* The three functions of the vendored kem.c over ideal primitives: hash   *)
(* functions without collisions, and a public-key encryption that decrypts *)
(* what it encrypted.  A ciphertext changed on the way either still        *)
(* decrypts to its message ("near", the noise absorbs the change) or to    *)
(* garbage ("far"); re-encryption is what tells both from the original.    *)
(***************************************************************************)
EXTENDS Naturals

(* indcpa.c: key generation from a seed, encryption with explicit coins.   *)
IndcpaPk(d) == <<"pk", d>>
IndcpaDk(d) == <<"dk", d>>

IndcpaEnc(m, pk, r) == [message |-> m, key |-> pk, coins |-> r, change |-> "none"]

IndcpaDec(dk, c) ==
    IF dk[1] = "dk" /\ c.key = IndcpaPk(dk[2]) /\ c.change # "far"
    THEN c.message ELSE <<"garbage", dk, c>>

(* symmetric.h: hash_h, hash_g (split in two halves) and rkprf. *)
HashH(pk)       == <<"H", pk>>
HashGKey(m, h)  == <<"K", m, h>>
HashGCoins(m, h) == <<"r", m, h>>
Rkprf(z, c)     == <<"J", z, c>>

-----------------------------------------------------------------------------
(* crypto_kem_keypair_derand: the secret key carries the public key, its   *)
(* hash and the value z that keys the rejection.                           *)
KeypairDerand(d, z) ==
    [pk |-> IndcpaPk(d),
     sk |-> [dk |-> IndcpaDk(d), pk |-> IndcpaPk(d), h |-> HashH(IndcpaPk(d)), z |-> z]]

(* crypto_kem_enc_derand *)
EncDerand(pk, m) ==
    [ct |-> IndcpaEnc(m, pk, HashGCoins(m, HashH(pk))),
     ss |-> HashGKey(m, HashH(pk))]

(* Mutant of KemDec: the decrypted message is trusted, nothing is          *)
(* encrypted again.                                                        *)
KemDecTrusting(c, sk) ==
    LET m == IndcpaDec(sk.dk, c)
    IN IF m[1] # "garbage" THEN HashGKey(m, sk.h) ELSE Rkprf(sk.z, c)

(* crypto_kem_dec: decrypt, derive, encrypt again with the stored public   *)
(* key and hash; verify() compares all bytes and cmov() puts the true key  *)
(* over the rejection key where they agree.                                *)
KemDec(c, sk) ==
    LET m    == IndcpaDec(sk.dk, c)
        cmp  == IndcpaEnc(m, sk.pk, HashGCoins(m, sk.h))
        fail == IF c = cmp THEN 0 ELSE 1
    IN IF 1 - fail = 1 THEN HashGKey(m, sk.h) ELSE Rkprf(sk.z, c)
=============================================================================
