----------------------------- MODULE DummyKemBytes -----------------------------
(***************************************************************************)
(* The byte layout of the dummy KEM of src/pqc_kem.c: which byte of a      *)
(* ciphertext and of a shared secret comes from which byte of the nonce    *)
(* and of the public key.  Module KemScheme idealises all of this.         *)
(*                                                                         *)
(* The code combines bytes by exclusive or alone, which treats the eight   *)
(* bits of a byte alike and apart, so a byte is modelled by one of them.   *)
(***************************************************************************)
EXTENDS Naturals

CONSTANTS
    PkLen,      \* DUMMY_PUBLIC_KEY_SIZE, 800
    CtLen,      \* DUMMY_CIPHERTEXT_SIZE, 768
    SsLen,      \* DUMMY_SHARED_SECRET_SIZE, 32: the nonce and the secret
    Stride,     \* the step through the key bytes that enter the secret, 7
    Pad         \* the constant 0x5A

Bit == {0, 1}

ASSUME LayoutAssumption ==
    /\ PkLen \in Nat \ {0}
    /\ CtLen \in Nat \ {0}
    /\ SsLen \in Nat \ {0}
    /\ Stride \in Nat
    /\ Pad \in Bit
    /\ 2 * SsLen <= CtLen       \* every nonce byte is masked at least once
    /\ CtLen <= PkLen

KeyBytes    == [0 .. PkLen - 1 -> Bit]
NonceBytes  == [0 .. SsLen - 1 -> Bit]
CipherBytes == [0 .. CtLen - 1 -> Bit]

Xor(a, b) == (a + b) % 2

(* Ciphertext byte i from SsLen on; "nonce" is the nonce or, on the way    *)
(* back, the ciphertext that begins with it.                               *)
Mask(key, nonce, i) == Xor(Xor(key[i % PkLen], nonce[i % SsLen]), Pad)

(* The nonce in clear, then the masked bytes. *)
Cipher(key, nonce) ==
    [i \in 0 .. CtLen - 1 |-> IF i < SsLen THEN nonce[i] ELSE Mask(key, nonce, i)]

(* The shared secret: nonce bytes combined with every Stride-th key byte.  *)
DummySecret(key, nonce) ==
    [i \in 0 .. SsLen - 1 |-> Xor(nonce[i], key[(i * Stride) % PkLen])]

(* Mutant of Accepts: the comparison stops one byte early. *)
AcceptsShort(key, c) == \A i \in SsLen .. CtLen - 2 : c[i] = Mask(key, c, i)

(* The comparison loop of dummy_decaps. *)
Accepts(key, c) == \A i \in SsLen .. CtLen - 1 : c[i] = Mask(key, c, i)

(* The key bytes the comparison covers, and those the secret depends on.   *)
CheckedBytes == {i % PkLen : i \in SsLen .. CtLen - 1}
SecretBytes  == {(i * Stride) % PkLen : i \in 0 .. SsLen - 1}
=============================================================================
