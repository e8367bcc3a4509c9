--------------------------- MODULE KemSession_proofs ---------------------------
(***************************************************************************)
(* Theorems about KemSession, for any layout of the dummy, any lengths of  *)
(* coins and chunks, and any bounds on coins, failures and changes.        *)
(***************************************************************************)
EXTENDS KemSession, SequenceTheorems, TLAPS

-----------------------------------------------------------------------------
(* First what the bytes of the dummy promise, for any sizes, stride and    *)
(* pad: dummy_encaps and dummy_decaps relate keys and secrets exactly.     *)

(* The secret key: the public key's bytes and whatever follows.            *)
SecretKeyBytes == [0 .. PkLen -> Bit]

-----------------------------------------------------------------------------
(* Arithmetic. *)

LEMMA ModRange ==
  ASSUME NEW a \in Nat, NEW n \in Nat \ {0}
  PROVE  a % n \in 0 .. n - 1
BY SMT

LEMMA ModSmall ==
  ASSUME NEW n \in Nat \ {0}, NEW a \in 0 .. n - 1
  PROVE  a % n = a
BY SMT

LEMMA ModNext ==
  ASSUME NEW n \in Nat \ {0}, NEW a \in 0 .. n - 1
  PROVE  (n + a) % n = a
BY SMT

LEMMA ProductNat == \A a, b \in Nat : a * b \in Nat
BY SMT

(* Exclusive or can be undone, on either side. *)
LEMMA XorCancels ==
  /\ \A a, b \in Bit : Xor(a, b) \in Bit
  /\ \A a, b, x \in Bit : Xor(a, x) = Xor(b, x) <=> a = b
  /\ \A a, b, x \in Bit : Xor(x, a) = Xor(x, b) <=> a = b
BY DEF Xor, Bit

-----------------------------------------------------------------------------
(* The positions the loops read lie inside the arrays. *)

LEMMA IndexRanges ==
  /\ \A i \in Nat : i % PkLen \in 0 .. PkLen - 1 /\ i % SsLen \in 0 .. SsLen - 1
  /\ 0 .. SsLen - 1 \subseteq 0 .. CtLen - 1
  /\ SsLen .. CtLen - 1 \subseteq Nat
  /\ \A i \in 0 .. SsLen - 1 : i * Stride \in Nat
<1> USE LayoutAssumption
<1>1. \A i \in Nat : i % PkLen \in 0 .. PkLen - 1
  BY ModRange
<1>2. \A i \in Nat : i % SsLen \in 0 .. SsLen - 1
  BY ModRange
<1>3. \A i \in 0 .. SsLen - 1 : i * Stride \in Nat
  BY ProductNat
<1> QED
  BY <1>1, <1>2, <1>3

LEMMA MaskBit ==
  ASSUME NEW key, \A j \in 0 .. PkLen - 1 : key[j] \in Bit,
         NEW nonce, \A j \in 0 .. SsLen - 1 : nonce[j] \in Bit,
         NEW i \in Nat
  PROVE  Mask(key, nonce, i) \in Bit
<1>1. key[i % PkLen] \in Bit /\ nonce[i % SsLen] \in Bit
  BY IndexRanges
<1> QED
  BY <1>1, XorCancels, LayoutAssumption DEF Mask

(* A ciphertext: its type, the nonce in clear, and the mask from SsLen on. *)
LEMMA CipherParts ==
  ASSUME NEW key \in KeyBytes, NEW nonce \in NonceBytes
  PROVE  /\ Cipher(key, nonce) \in CipherBytes
         /\ \A i \in 0 .. SsLen - 1 : Cipher(key, nonce)[i] = nonce[i]
         /\ \A i \in SsLen .. CtLen - 1 : Cipher(key, nonce)[i] = Mask(key, nonce, i)
<1> USE LayoutAssumption
<1>1. \A i \in 0 .. CtLen - 1 : Mask(key, nonce, i) \in Bit
  BY MaskBit DEF KeyBytes, NonceBytes
<1> QED
  BY <1>1 DEF Cipher, CipherBytes, NonceBytes

(* The mask sees one byte of the key and one of the nonce. *)
LEMMA MaskTells ==
  ASSUME NEW k, \A j \in 0 .. PkLen - 1 : k[j] \in Bit,
         NEW l, \A j \in 0 .. PkLen - 1 : l[j] \in Bit,
         NEW m, \A j \in 0 .. SsLen - 1 : m[j] \in Bit,
         NEW n, \A j \in 0 .. SsLen - 1 : n[j] \in Bit,
         NEW i \in Nat
  PROVE  /\ m[i % SsLen] = n[i % SsLen] =>
               (Mask(k, m, i) = Mask(l, n, i) <=> k[i % PkLen] = l[i % PkLen])
         /\ k[i % PkLen] = l[i % PkLen] =>
               (Mask(k, m, i) = Mask(l, n, i) <=> m[i % SsLen] = n[i % SsLen])
<1> DEFINE a == k[i % PkLen] b == l[i % PkLen] x == m[i % SsLen] y == n[i % SsLen]
<1>1. a \in Bit /\ b \in Bit /\ x \in Bit /\ y \in Bit
  BY IndexRanges
<1>2. Mask(k, m, i) = Xor(Xor(a, x), Pad) /\ Mask(l, n, i) = Xor(Xor(b, y), Pad)
  BY DEF Mask
<1> HIDE DEF a, b, x, y
<1>3. Xor(Xor(a, x), Pad) = Xor(Xor(b, y), Pad) <=> Xor(a, x) = Xor(b, y)
  BY <1>1, XorCancels, LayoutAssumption
<1>4. ASSUME x = y PROVE Xor(a, x) = Xor(b, y) <=> a = b
  BY <1>1, <1>4 DEF Xor, Bit
<1>5. ASSUME a = b PROVE Xor(a, x) = Xor(b, y) <=> x = y
  BY <1>1, <1>5 DEF Xor, Bit
<1> QED
  BY <1>2, <1>3, <1>4, <1>5 DEF a, b, x, y

-----------------------------------------------------------------------------
(* A genuine ciphertext opens exactly under the keys that agree with the   *)
(* public key on the bytes the comparison loop of dummy_decaps covers.     *)
THEOREM KeyCheck ==
  ASSUME NEW pub \in KeyBytes, NEW sec \in SecretKeyBytes, NEW nonce \in NonceBytes
  PROVE  Accepts(sec, Cipher(pub, nonce)) <=> \A j \in CheckedBytes : pub[j] = sec[j]
<1> DEFINE c == Cipher(pub, nonce)
<1> USE LayoutAssumption
<1>1. \A j \in 0 .. PkLen - 1 : pub[j] \in Bit /\ sec[j] \in Bit
  BY DEF KeyBytes, SecretKeyBytes
<1>2. \A j \in 0 .. SsLen - 1 : nonce[j] \in Bit /\ c[j] = nonce[j]
  BY CipherParts DEF NonceBytes
<1>3. \A i \in SsLen .. CtLen - 1 : c[i] = Mask(pub, nonce, i)
  BY CipherParts
<1> HIDE DEF c
<1>4. \A i \in SsLen .. CtLen - 1 :
         Mask(pub, nonce, i) = Mask(sec, c, i) <=> pub[i % PkLen] = sec[i % PkLen]
  <2> TAKE i \in SsLen .. CtLen - 1
  <2>1. nonce[i % SsLen] = c[i % SsLen]
    BY <1>2, IndexRanges
  <2>2. /\ i \in Nat
        /\ \A j \in 0 .. PkLen - 1 : pub[j] \in Bit
        /\ \A j \in 0 .. PkLen - 1 : sec[j] \in Bit
        /\ \A j \in 0 .. SsLen - 1 : nonce[j] \in Bit
        /\ \A j \in 0 .. SsLen - 1 : c[j] \in Bit
    BY <1>1, <1>2
  <2> QED
    BY <2>1, <2>2, MaskTells
<1>5. Accepts(sec, c) <=> \A i \in SsLen .. CtLen - 1 : pub[i % PkLen] = sec[i % PkLen]
  BY <1>3, <1>4 DEF Accepts
<1> QED
  BY <1>5 DEF CheckedBytes, c

(* Both ends hold the same secret exactly if their keys agree on the bytes *)
(* that enter it: below SsLen these are in no comparison, so that a        *)
(* decapsulation can succeed with another secret.                          *)
THEOREM SecretCheck ==
  ASSUME NEW pub \in KeyBytes, NEW sec \in SecretKeyBytes, NEW nonce \in NonceBytes
  PROVE  DummySecret(sec, Cipher(pub, nonce)) = DummySecret(pub, nonce)
            <=> \A j \in SecretBytes : pub[j] = sec[j]
<1> DEFINE c == Cipher(pub, nonce)
           at(i) == (i * Stride) % PkLen
<1> USE LayoutAssumption
<1>1. \A i \in 0 .. SsLen - 1 :
         /\ nonce[i] \in Bit /\ c[i] = nonce[i]
         /\ pub[at(i)] \in Bit /\ sec[at(i)] \in Bit
  <2> TAKE i \in 0 .. SsLen - 1
  <2>1. at(i) \in 0 .. PkLen - 1
    BY IndexRanges
  <2> QED
    BY <2>1, CipherParts DEF NonceBytes, KeyBytes, SecretKeyBytes
<1> HIDE DEF c, at
<1>2. \A i \in 0 .. SsLen - 1 : Xor(c[i], sec[at(i)]) = Xor(nonce[i], pub[at(i)])
                                    <=> pub[at(i)] = sec[at(i)]
  <2> TAKE i \in 0 .. SsLen - 1
  <2> DEFINE a == pub[at(i)] b == sec[at(i)] x == nonce[i]
  <2>1. a \in Bit /\ b \in Bit /\ x \in Bit /\ c[i] = x
    BY <1>1
  <2> HIDE DEF a, b, x
  <2>2. Xor(x, b) = Xor(x, a) <=> a = b
    BY <2>1 DEF Xor, Bit
  <2> QED
    BY <2>1, <2>2 DEF a, b, x
<1>3. DummySecret(sec, c) = DummySecret(pub, nonce)
         <=> \A i \in 0 .. SsLen - 1 : Xor(c[i], sec[at(i)]) = Xor(nonce[i], pub[at(i)])
  BY DEF DummySecret, at
<1> QED
  BY <1>2, <1>3 DEF SecretBytes, at, c

(* A ciphertext with one changed byte opens under no key that agrees with  *)
(* the public key: a masked byte fails its own comparison, a nonce byte    *)
(* fails the first one it masks.                                           *)
THEOREM OneByteNoticed ==
  ASSUME NEW pub \in KeyBytes, NEW sec \in SecretKeyBytes, NEW nonce \in NonceBytes,
         \A j \in 0 .. PkLen - 1 : pub[j] = sec[j],
         NEW cipher \in CipherBytes, NEW i \in 0 .. CtLen - 1,
         \A j \in 0 .. CtLen - 1 : cipher[j] # Cipher(pub, nonce)[j] <=> j = i
  PROVE  ~ Accepts(sec, cipher)
<1> USE LayoutAssumption
<1> DEFINE c == Cipher(pub, nonce)
<1>1. /\ \A j \in 0 .. PkLen - 1 : pub[j] \in Bit /\ sec[j] \in Bit
      /\ \A j \in 0 .. SsLen - 1 : nonce[j] \in Bit /\ c[j] = nonce[j] /\ cipher[j] \in Bit
      /\ \A j \in SsLen .. CtLen - 1 : c[j] = Mask(pub, nonce, j)
  BY CipherParts, SMTT(20) DEF KeyBytes, SecretKeyBytes, NonceBytes, CipherBytes
<1> HIDE DEF c
<1>2. CASE i \in SsLen .. CtLen - 1
  <2>1. nonce[i % SsLen] = cipher[i % SsLen]
    <3>1. i % SsLen \in 0 .. SsLen - 1 /\ i % SsLen # i
      BY <1>2, IndexRanges
    <3> QED
      BY <3>1, <1>1 DEF c
  <2>2. pub[i % PkLen] = sec[i % PkLen]
    BY <1>2, IndexRanges
  <2>3. /\ i \in Nat
        /\ \A x \in 0 .. PkLen - 1 : pub[x] \in Bit
        /\ \A x \in 0 .. PkLen - 1 : sec[x] \in Bit
        /\ \A x \in 0 .. SsLen - 1 : nonce[x] \in Bit
        /\ \A x \in 0 .. SsLen - 1 : cipher[x] \in Bit
    BY <1>1, <1>2
  <2>4. Mask(pub, nonce, i) = Mask(sec, cipher, i)
    BY <2>1, <2>2, <2>3, MaskTells
  <2> QED
    BY <1>1, <1>2, <2>4 DEF Accepts, c
<1>3. CASE i \in 0 .. SsLen - 1
  <2> DEFINE j == SsLen + i
  <2>1. j \in SsLen .. CtLen - 1 /\ j # i /\ j \in 0 .. CtLen - 1
    BY <1>3
  <2>2. j % SsLen = i
    BY <1>3, ModNext
  <2>3. pub[j % PkLen] = sec[j % PkLen]
    BY <2>1, IndexRanges
  <2>4. cipher[i] # nonce[i]
    BY <1>1, <1>3 DEF c
  <2>5. cipher[j] = Mask(pub, nonce, j)
    BY <1>1, <2>1 DEF c
  <2> HIDE DEF j
  <2>6. /\ j \in Nat
        /\ \A x \in 0 .. PkLen - 1 : pub[x] \in Bit
        /\ \A x \in 0 .. PkLen - 1 : sec[x] \in Bit
        /\ \A x \in 0 .. SsLen - 1 : nonce[x] \in Bit
        /\ \A x \in 0 .. SsLen - 1 : cipher[x] \in Bit
    BY <1>1, <2>1
  <2>7. Mask(pub, nonce, j) # Mask(sec, cipher, j)
    BY <2>2, <2>3, <2>4, <2>6, MaskTells, SMTT(20)
  <2> QED
    BY <2>1, <2>5, <2>7 DEF Accepts
<1> QED
  BY <1>2, <1>3

-----------------------------------------------------------------------------
(* The session. *)

(* The types the loop of randombytes keeps. *)
LoopTypes ==
    /\ op \in {"none", "keypair", "enc"}
    /\ off \in Nat
    /\ op # "none" => off < Want(op)
    /\ drawn \in Nat
    /\ failures \in Nat
    /\ coins \in [1 .. 2 * SymCells -> 0 .. drawn]
    /\ handed \in Seq(0 .. drawn)

(* What it has done: so far every cell the kernel gave was handed on, in   *)
(* the order it was drawn, or waits at the front of the array.             *)
InOrder ==
    /\ \A i \in 1 .. Len(handed) : handed[i] = i
    /\ drawn = Len(handed) + (IF op = "none" THEN 0 ELSE off)
    /\ op # "none" => \A i \in 1 .. off : coins[i] = Len(handed) + i

LoopInv == LoopTypes /\ (failures = 0 => InOrder)

(* What a session on the dummy backend holds. *)
DummyInv ==
    backend = "DUMMY" =>
        /\ op = "none"
        /\ "keys" \in have => pk \in KeyBytes /\ sk \in SecretKeyBytes
        /\ "cipher" \in have =>
              /\ "keys" \in have
              /\ ct \in CipherBytes
              /\ \E nonce \in NonceBytes : made = Cipher(pk, nonce) /\ ss = DummySecret(pk, nonce)
        /\ status # "none" =>
              /\ "cipher" \in have
              /\ \/ status = "OK" /\ Accepts(sk, ct) /\ sd = DummySecret(sk, ct)
                 \/ status = "DECAP_FAILED" /\ ~ Accepts(sk, ct) /\ sd = Zero

RestOK ==
    /\ errno \in {"none", "EINTR", "EIO"}
    /\ status \in {"none", "OK", "DECAP_FAILED"}
    /\ have \subseteq {"keys", "cipher"}

-----------------------------------------------------------------------------
(* Sequences. *)

LEMMA Appended ==
  ASSUME NEW S, NEW s \in Seq(S), NEW t \in Seq(S)
  PROVE  /\ s \o t \in Seq(S)
         /\ Len(s \o t) = Len(s) + Len(t)
         /\ \A i \in 1 .. Len(s) : (s \o t)[i] = s[i]
         /\ \A i \in 1 .. Len(t) : (s \o t)[Len(s) + i] = t[i]
OBVIOUS

LEMMA Front ==
  ASSUME NEW S, NEW n \in Nat, NEW c \in [1 .. n -> S], NEW m \in 0 .. n
  PROVE  /\ SubSeq(c, 1, m) \in Seq(S)
         /\ Len(SubSeq(c, 1, m)) = m
         /\ \A i \in 1 .. m : SubSeq(c, 1, m)[i] = c[i]
<1>1. c \in Seq(S) /\ Len(c) = n
  OBVIOUS
<1> QED
  BY <1>1

(* Entries stay in range as the kernel gives more. *)
LEMMA Widen ==
  ASSUME NEW d \in Nat, NEW e \in Nat, d <= e, NEW s \in Seq(0 .. d)
  PROVE  s \in Seq(0 .. e)
<1>1. 0 .. d \subseteq 0 .. e
  OBVIOUS
<1> QED
  BY <1>1

LEMMA WantRange == \A o : Want(o) \in 1 .. 2 * SymCells
BY SessionAssumption DEF Want

-----------------------------------------------------------------------------
(* The loop. *)

LEMMA LoopInit == Init => LoopInv
<1> SUFFICES ASSUME Init PROVE LoopInv
  OBVIOUS
<1> USE SessionAssumption
<1>1. Unset \in [1 .. 2 * SymCells -> 0 .. 0]
  BY DEF Unset
<1> QED
  BY <1>1 DEF Init, LoopInv, LoopTypes, InOrder

LEMMA LoopBegin ==
  ASSUME LoopInv, NEW o \in {"keypair", "enc"}, Begin(o)
  PROVE  LoopInv'
<1> USE SessionAssumption
<1>1. Unset \in [1 .. 2 * SymCells -> 0 .. drawn]
  BY DEF Unset, LoopInv, LoopTypes
<1>2. Want(o) \in 1 .. 2 * SymCells
  BY WantRange
<1>3. /\ op = "none" /\ op' = o /\ off' = 0
      /\ UNCHANGED <<drawn, failures, handed>>
      /\ coins' = coins \/ coins' = Unset
  BY DEF Begin, Calls
<1>4. LoopTypes'
  <2>1. Want(op') = Want(o)
    BY <1>3
  <2>2. coins' \in [1 .. 2 * SymCells -> 0 .. drawn']
    BY <1>1, <1>3 DEF LoopInv, LoopTypes
  <2> QED
    BY <1>2, <1>3, <2>1, <2>2 DEF LoopInv, LoopTypes
<1>5. ASSUME failures = 0 PROVE InOrder'
  BY <1>3, <1>5 DEF LoopInv, LoopTypes, InOrder
<1> QED
  BY <1>3, <1>4, <1>5 DEF LoopInv

(* The handing over, of an array c that holds entries up to d. *)
LEMMA LoopDerand ==
  ASSUME NEW d \in Nat, NEW c \in [1 .. 2 * SymCells -> 0 .. d],
         handed \in Seq(0 .. d), Derand(c)
  PROVE  /\ op' = "none"
         /\ handed' \in Seq(0 .. d)
         /\ Len(handed') = Len(handed) + Want(op)
         /\ \A i \in 1 .. Len(handed) : handed'[i] = handed[i]
         /\ \A i \in 1 .. Want(op) : handed'[Len(handed) + i] = c[i]
<1> DEFINE t == SubSeq(c, 1, Want(op))
<1>1. Want(op) \in 0 .. 2 * SymCells /\ 2 * SymCells \in Nat
  BY WantRange, SessionAssumption
<1>2. /\ t \in Seq(0 .. d) /\ Len(t) = Want(op)
      /\ \A i \in 1 .. Want(op) : t[i] = c[i]
  BY <1>1, Front
<1>3. handed' = handed \o t /\ op' = "none"
  BY DEF Derand
<1> HIDE DEF t
<1> QED
  BY <1>2, <1>3, Appended

LEMMA LoopGiven ==
  ASSUME LoopInv, NEW k \in 1 .. 2 * SymCells, Given(k)
  PROVE  LoopInv'
<1> USE SessionAssumption
<1>1. /\ op \in {"keypair", "enc"} /\ off \in Nat /\ off < Want(op)
      /\ drawn \in Nat /\ failures \in Nat /\ failures' = failures
      /\ k \in Nat /\ k <= Want(op) - off /\ Want(op) \in 1 .. 2 * SymCells
      /\ drawn' = drawn + k /\ off' = off + k
  BY WantRange DEF LoopInv, LoopTypes, Given, Advance
<1>2. /\ drawn' \in Nat /\ drawn <= drawn' /\ off' \in Nat /\ off' <= Want(op)
  BY <1>1
<1>3. coins' = [i \in 1 .. 2 * SymCells |->
                   IF i \in off + 1 .. off + k THEN drawn + i - off ELSE coins[i]]
  BY DEF Given, LoopInv, LoopTypes
<1>4. coins' \in [1 .. 2 * SymCells -> 0 .. drawn']
  <2>1. \A i \in 1 .. 2 * SymCells : coins[i] \in 0 .. drawn
    BY DEF LoopInv, LoopTypes
  <2>2. \A i \in off + 1 .. off + k : drawn + i - off \in 0 .. drawn + k
    BY <1>1
  <2> QED
    BY <1>1, <1>3, <2>1, <2>2
<1>5. handed \in Seq(0 .. drawn')
  BY <1>1, <1>2, Widen DEF LoopInv, LoopTypes
<1>6. ASSUME failures = 0
      PROVE  /\ \A i \in 1 .. Len(handed) : handed[i] = i
             /\ drawn = Len(handed) + off
             /\ \A i \in 1 .. off' : coins'[i] = Len(handed) + i
  <2>1. /\ Len(handed) \in Nat
        /\ \A i \in 1 .. Len(handed) : handed[i] = i
        /\ drawn = Len(handed) + off
        /\ \A i \in 1 .. off : coins[i] = Len(handed) + i
    BY <1>1, <1>6 DEF LoopInv, LoopTypes, InOrder
  <2>2. ASSUME NEW i \in 1 .. off' PROVE coins'[i] = Len(handed) + i
    BY <1>1, <1>2, <1>3, <2>1
  <2> QED
    BY <2>1, <2>2
<1>7. CASE off' = Want(op)
  <2>1. Derand(coins')
    BY <1>7 DEF Given
  <2>2. /\ op' = "none"
        /\ handed' \in Seq(0 .. drawn')
        /\ Len(handed') = Len(handed) + Want(op)
        /\ \A i \in 1 .. Len(handed) : handed'[i] = handed[i]
        /\ \A i \in 1 .. Want(op) : handed'[Len(handed) + i] = coins'[i]
    BY <1>2, <1>4, <1>5, <2>1, LoopDerand
  <2>3. LoopTypes'
    BY <1>1, <1>2, <1>4, <2>2 DEF LoopTypes
  <2>4. ASSUME failures = 0 PROVE InOrder'
    <3>1. Len(handed) \in Nat
      BY <1>5
    <3>2. ASSUME NEW i \in 1 .. Len(handed') PROVE handed'[i] = i
      <4>1. CASE i \in 1 .. Len(handed)
        BY <4>1, <1>6, <2>2, <2>4
      <4>2. CASE i \notin 1 .. Len(handed)
        <5>1. /\ i - Len(handed) \in 1 .. Want(op)
              /\ Len(handed) + (i - Len(handed)) = i
          BY <4>2, <3>1, <2>2, <1>1
        <5>2. handed'[i] = coins'[i - Len(handed)]
          BY <5>1, <2>2
        <5>3. coins'[i - Len(handed)] = Len(handed) + (i - Len(handed))
          BY <5>1, <1>6, <1>7, <2>4
        <5> QED
          BY <5>1, <5>2, <5>3
      <4> QED
        BY <4>1, <4>2
    <3>3. drawn' = Len(handed')
      BY <1>1, <1>6, <1>7, <2>2, <2>4, <3>1
    <3> QED
      BY <3>2, <3>3, <2>2, <1>2 DEF InOrder
  <2> QED
    BY <2>3, <2>4, <1>1 DEF LoopInv
<1>8. CASE off' # Want(op)
  <2>1. op' = op /\ handed' = handed
    BY <1>8 DEF Given
  <2>2. LoopTypes'
    BY <1>1, <1>2, <1>4, <1>5, <1>8, <2>1 DEF LoopTypes, Want
  <2>3. ASSUME failures = 0 PROVE InOrder'
    <3>1. Len(handed) \in Nat
      BY <1>5
    <3> QED
      BY <1>1, <1>6, <2>1, <2>3, <3>1 DEF InOrder
  <2> QED
    BY <2>2, <2>3, <1>1 DEF LoopInv
<1> QED
  BY <1>7, <1>8

LEMMA LoopRefused ==
  ASSUME LoopInv, Refused
  PROVE  LoopInv'
<1>1. /\ Derand(coins) /\ failures' = failures + 1
      /\ UNCHANGED <<coins, off, drawn>>
  BY DEF Refused
<1>2. /\ drawn \in Nat /\ failures \in Nat /\ off \in Nat
      /\ coins \in [1 .. 2 * SymCells -> 0 .. drawn] /\ handed \in Seq(0 .. drawn)
  BY DEF LoopInv, LoopTypes
<1>3. op' = "none" /\ handed' \in Seq(0 .. drawn)
  BY <1>1, <1>2, LoopDerand
<1> QED
  BY <1>1, <1>2, <1>3 DEF LoopInv, LoopTypes

LEMMA LoopStep == LoopInv /\ [Next]_vars => LoopInv'
<1> SUFFICES ASSUME LoopInv, [Next]_vars PROVE LoopInv'
  OBVIOUS
<1>1. ASSUME UNCHANGED request PROVE LoopInv'
  BY <1>1 DEF request, LoopInv, LoopTypes, InOrder, Want
<1>2. CASE DummyKeypair \/ DummyEncaps \/ DummyDecaps \/ MlkemDecaps
  BY <1>1, <1>2 DEF DummyKeypair, DummyEncaps, DummyDecaps, MlkemDecaps
<1>3. ASSUME NEW o \in {"keypair", "enc"}, Begin(o) PROVE LoopInv'
  BY <1>3, LoopBegin
<1>4. CASE Interrupted
  BY <1>4 DEF Interrupted, LoopInv, LoopTypes, InOrder, Want
<1>5. ASSUME NEW k \in 1 .. 2 * SymCells, Given(k) PROVE LoopInv'
  BY <1>5, LoopGiven
<1>6. CASE Refused
  BY <1>6, LoopRefused
<1>7. ASSUME NEW b, NEW what, Change(b, what) PROVE LoopInv'
  BY <1>1, <1>7 DEF Change
<1>8. CASE UNCHANGED vars
  BY <1>1, <1>8 DEF vars, request
<1> QED
  BY <1>2, <1>3, <1>4, <1>5, <1>6, <1>7, <1>8
     DEF Next, ChangeDummyCipher, ChangeDummyKey, ChangeMlkemCipher, ChangeMlkemKey

(* However the kernel splits or interrupts its answers, the coins of all   *)
(* calls are the kernel's cells, each once and in order, as long as it     *)
(* refuses no request: the partial reads of the loop never leave a gap.    *)
THEOREM CoinsAreFresh == Spec => []FreshCoins
<1>1. LoopInv => FreshCoins
  <2> SUFFICES ASSUME LoopInv, failures = 0,
                      NEW i \in DOMAIN handed, NEW j \in DOMAIN handed
               PROVE  handed[i] > 0 /\ (i # j => handed[i] # handed[j])
    BY DEF FreshCoins
  <2>1. DOMAIN handed = 1 .. Len(handed) /\ Len(handed) \in Nat
    BY DEF LoopInv, LoopTypes
  <2>2. handed[i] = i /\ handed[j] = j
    BY <2>1 DEF LoopInv, InOrder
  <2> QED
    BY <2>1, <2>2
<1> QED
  BY <1>1, LoopInit, LoopStep, PTL DEF Spec

-----------------------------------------------------------------------------
(* The rest of the state. *)

LEMMA RestStep == RestOK /\ [Next]_vars => RestOK'
<1> SUFFICES ASSUME RestOK, [Next]_vars PROVE RestOK'
  OBVIOUS
<1> USE DEF RestOK, buffers, request
<1>1. ASSUME NEW c, Derand(c) PROVE status' = "none" /\ have' \subseteq {"keys", "cipher"}
  <2>1. CASE op = "keypair"
    BY <1>1, <2>1 DEF Derand
  <2>2. CASE op # "keypair"
    BY <1>1, <2>2 DEF Derand
  <2> QED
    BY <2>1, <2>2
<1>2. CASE DummyKeypair
  BY <1>2 DEF DummyKeypair
<1>3. CASE DummyEncaps
  BY <1>3 DEF DummyEncaps
<1>4. CASE DummyDecaps
  BY <1>4 DEF DummyDecaps
<1>5. CASE MlkemDecaps
  BY <1>5 DEF MlkemDecaps
<1>6. ASSUME NEW o, Begin(o) PROVE RestOK'
  BY <1>6 DEF Begin
<1>7. CASE Interrupted
  BY <1>7 DEF Interrupted
<1>8. ASSUME NEW k, Given(k) PROVE RestOK'
  <2>1. CASE off' = Want(op)
    BY <1>1, <1>8, <2>1 DEF Given
  <2>2. CASE off' # Want(op)
    BY <1>8, <2>2 DEF Given
  <2> QED
    BY <2>1, <2>2
<1>9. CASE Refused
  BY <1>1, <1>9 DEF Refused
<1>10. ASSUME NEW b, NEW what, Change(b, what) PROVE RestOK'
  BY <1>10 DEF Change
<1>11. CASE UNCHANGED vars
  BY <1>11 DEF vars
<1> QED
  BY <1>2, <1>3, <1>4, <1>5, <1>6, <1>7, <1>8, <1>9, <1>10, <1>11
     DEF Next, ChangeDummyCipher, ChangeDummyKey, ChangeMlkemCipher, ChangeMlkemKey

(* The loop never fills its array past what was asked for, and every cell  *)
(* handed on is one the kernel had given by then, or is from before.       *)
THEOREM SessionTyping == Spec => []TypeOK
<1>1. Init => RestOK
  BY DEF Init, RestOK
<1>2. LoopInv /\ RestOK => TypeOK
  <2> SUFFICES ASSUME LoopInv, RestOK PROVE TypeOK
    OBVIOUS
  <2>1. op # "none" => off \in 0 .. Want(op) - 1
    BY WantRange, SessionAssumption DEF LoopInv, LoopTypes
  <2>2. \A i \in DOMAIN coins : coins[i] \in 0 .. drawn
    BY DEF LoopInv, LoopTypes
  <2>3. \A i \in DOMAIN handed : handed[i] \in 0 .. drawn
    BY DEF LoopInv, LoopTypes
  <2> QED
    BY <2>1, <2>2, <2>3 DEF LoopInv, LoopTypes, RestOK, TypeOK
<1> QED
  BY <1>1, <1>2, LoopInit, LoopStep, RestStep, PTL DEF Spec

-----------------------------------------------------------------------------
(* The dummy backend. *)

LEMMA DummyStep == DummyInv /\ [Next]_vars => DummyInv'
<1> SUFFICES ASSUME DummyInv, [Next]_vars PROVE DummyInv'
  OBVIOUS
<1>1. ASSUME backend # "DUMMY", backend' = backend PROVE DummyInv'
  BY <1>1 DEF DummyInv
<1>2. CASE DummyKeypair
  <2> USE <1>2 DEF DummyKeypair, Calls, buffers, request
  <2>1. PICK key \in KeyBytes, tail \in Bit :
           pk' = key /\ sk' = [i \in 0 .. PkLen |-> IF i < PkLen THEN key[i] ELSE tail]
    OBVIOUS
  <2>2. sk' \in SecretKeyBytes
    BY <2>1, LayoutAssumption DEF KeyBytes, SecretKeyBytes
  <2>3. status' = "none"
    BY DEF DummyInv
  <2> QED
    BY <2>1, <2>2, <2>3 DEF DummyInv
<1>3. CASE DummyEncaps
  <2> USE <1>3 DEF DummyEncaps, Calls, buffers, request
  <2>1. PICK nonce \in NonceBytes :
           ct' = Cipher(pk, nonce) /\ made' = ct' /\ ss' = DummySecret(pk, nonce)
    OBVIOUS
  <2>2. pk \in KeyBytes /\ sk \in SecretKeyBytes
    BY DEF DummyInv
  <2>3. ct' \in CipherBytes
    BY <2>1, <2>2, CipherParts
  <2> QED
    BY <2>1, <2>2, <2>3 DEF DummyInv
<1>4. CASE DummyDecaps
  BY <1>4 DEF DummyDecaps, Calls, buffers, request, DummyInv
<1>5. ASSUME NEW i \in 0 .. CtLen - 1, ChangeDummyCipher(i) PROVE DummyInv'
  <2> USE <1>5 DEF ChangeDummyCipher, Change, Calls, buffers, request
  <2>1. ct \in CipherBytes /\ ct' = [ct EXCEPT ![i] = 1 - ct[i]]
    BY DEF DummyInv
  <2>2. 1 - ct[i] \in Bit
    BY <2>1 DEF CipherBytes, Bit
  <2>3. ct' \in CipherBytes
    BY <2>1, <2>2 DEF CipherBytes
  <2> QED
    BY <2>3 DEF DummyInv
<1>6. ASSUME NEW i \in 0 .. PkLen, ChangeDummyKey(i) PROVE DummyInv'
  <2> USE <1>6 DEF ChangeDummyKey, Change, Calls, buffers, request
  <2>1. sk \in SecretKeyBytes /\ sk' = [sk EXCEPT ![i] = 1 - sk[i]]
    BY DEF DummyInv
  <2>2. 1 - sk[i] \in Bit
    BY <2>1 DEF SecretKeyBytes, Bit
  <2>3. sk' \in SecretKeyBytes
    BY <2>1, <2>2 DEF SecretKeyBytes
  <2> QED
    BY <2>3 DEF DummyInv
<1>7. CASE MlkemDecaps
  BY <1>1, <1>7 DEF MlkemDecaps, Calls
<1>8. ASSUME NEW o, Begin(o) PROVE DummyInv'
  BY <1>1, <1>8 DEF Begin, Calls
<1>9. ASSUME op # "none", backend' = backend PROVE DummyInv'
  BY <1>1, <1>9 DEF DummyInv
<1>10. CASE Interrupted
  BY <1>9, <1>10 DEF Interrupted
<1>11. ASSUME NEW k, Given(k) PROVE DummyInv'
  BY <1>9, <1>11 DEF Given, Derand
<1>12. CASE Refused
  BY <1>9, <1>12 DEF Refused, Derand
<1>13. ASSUME NEW what, Change("MLKEM", what) PROVE DummyInv'
  BY <1>1, <1>13 DEF Change, Calls
<1>14. CASE UNCHANGED vars
  BY <1>14 DEF vars, buffers, request, DummyInv
<1> QED
  BY <1>2, <1>3, <1>4, <1>5, <1>6, <1>7, <1>8, <1>10, <1>11, <1>12, <1>13, <1>14
     DEF Next, ChangeMlkemCipher, ChangeMlkemKey

(* The dummy's verdict and secret are exact byte for byte, for any layout: *)
(* a genuine ciphertext opens under exactly the keys that agree with the   *)
(* public key on the compared bytes, with the encapsulated secret exactly  *)
(* if they also agree on the bytes of the secret; one changed ciphertext   *)
(* byte never goes unnoticed.                                              *)
THEOREM DummyIsExact == Spec => []DummyExact
<1>1. Init => DummyInv
  BY DEF Init, DummyInv
<1>2. DummyInv => DummyExact
  <2> SUFFICES ASSUME DummyInv, backend = "DUMMY", status # "none"
               PROVE  /\ ct = made =>
                            /\ status = "OK" <=> Differ(pk, sk, CheckedBytes) = {}
                            /\ status = "OK" => (sd = ss <=> Differ(pk, sk, SecretBytes) = {})
                      /\ (\E i \in DOMAIN ct : Differ(ct, made, DOMAIN ct) = {i})
                            /\ Differ(pk, sk, DOMAIN pk) = {} => status = "DECAP_FAILED"
                      /\ status = "DECAP_FAILED" => sd = Zero
    BY DEF DummyExact
  <2>1. /\ pk \in KeyBytes /\ sk \in SecretKeyBytes /\ ct \in CipherBytes
        /\ \/ status = "OK" /\ Accepts(sk, ct) /\ sd = DummySecret(sk, ct)
           \/ status = "DECAP_FAILED" /\ ~ Accepts(sk, ct) /\ sd = Zero
    BY DEF DummyInv
  <2>2. PICK nonce \in NonceBytes : made = Cipher(pk, nonce) /\ ss = DummySecret(pk, nonce)
    BY DEF DummyInv
  <2>3. \A S : Differ(pk, sk, S) = {} <=> \A j \in S : pk[j] = sk[j]
    BY DEF Differ
  <2>4. ASSUME ct = made PROVE status = "OK" <=> Differ(pk, sk, CheckedBytes) = {}
    BY <2>1, <2>2, <2>3, <2>4, KeyCheck
  <2>5. ASSUME ct = made, status = "OK" PROVE sd = ss <=> Differ(pk, sk, SecretBytes) = {}
    BY <2>1, <2>2, <2>3, <2>5, SecretCheck
  <2>6. ASSUME NEW i \in DOMAIN ct, Differ(ct, made, DOMAIN ct) = {i},
               Differ(pk, sk, DOMAIN pk) = {}
        PROVE  status = "DECAP_FAILED"
    <3>1. DOMAIN ct = 0 .. CtLen - 1 /\ DOMAIN pk = 0 .. PkLen - 1
      BY <2>1 DEF CipherBytes, KeyBytes
    <3>2. \A j \in 0 .. PkLen - 1 : pk[j] = sk[j]
      BY <2>3, <2>6, <3>1
    <3>3. \A j \in 0 .. CtLen - 1 : ct[j] # Cipher(pk, nonce)[j] <=> j = i
      BY <2>2, <2>6, <3>1 DEF Differ
    <3>4. i \in 0 .. CtLen - 1
      BY <2>6, <3>1
    <3>5. pk \in KeyBytes /\ sk \in SecretKeyBytes /\ ct \in CipherBytes
      BY <2>1
    <3>6. ~ Accepts(sk, ct)
      BY <2>2, <3>2, <3>3, <3>4, <3>5, OneByteNoticed, Zenon
    <3> QED
      BY <2>1, <3>6
  <2>7. status = "DECAP_FAILED" => sd = Zero
    BY <2>1
  <2> QED
    BY <2>4, <2>5, <2>6, <2>7
<1> QED
  BY <1>1, <1>2, DummyStep, PTL DEF Spec

-----------------------------------------------------------------------------
(* The reference backend. *)

(* A ciphertext of crypto_kem_enc for some key and coins, with its secret. *)
Encapsulated(c, s) ==
    \E key, seed : LET sent == EncDerand(key, <<"m", seed>>) IN c = sent.ct /\ s = sent.ss

(* What a session on the reference backend holds. *)
MlkemInv ==
    backend = "MLKEM" =>
        /\ "cipher" \in have =>
              /\ Encapsulated(made, ss)
              /\ \E how \in {"none", "near", "far"} : ct = [made EXCEPT !.change = how]
        /\ status # "none" => "cipher" \in have /\ sd = KemDec(ct, sk)

LEMMA Unchanged ==
  ASSUME NEW c, NEW s, Encapsulated(c, s)
  PROVE  \E how \in {"none", "near", "far"} : c = [c EXCEPT !.change = how]
<1>1. c = [c EXCEPT !.change = "none"]
  BY DEF Encapsulated, EncDerand, IndcpaEnc
<1> QED
  BY <1>1

LEMMA ChangedAgain ==
  ASSUME NEW c, NEW s, Encapsulated(c, s), NEW d, NEW how, NEW then,
         d = [c EXCEPT !.change = how]
  PROVE  [d EXCEPT !.change = then] = [c EXCEPT !.change = then]
BY DEF Encapsulated, EncDerand, IndcpaEnc

LEMMA MlkemDerand ==
  ASSUME MlkemInv, NEW c, Derand(c)
  PROVE  MlkemInv'
<1> USE DEF MlkemInv
<1>1. backend' = backend /\ status' = "none"
  BY DEF Derand
<1>2. CASE op = "keypair"
  BY <1>1, <1>2 DEF Derand
<1>3. CASE op # "keypair"
  <2>1. Encapsulated(made', ss') /\ ct' = made'
    BY <1>3 DEF Derand, Encapsulated
  <2>2. \E how \in {"none", "near", "far"} : ct' = [made' EXCEPT !.change = how]
    BY <2>1, Unchanged
  <2> QED
    BY <1>1, <2>1, <2>2
<1> QED
  BY <1>2, <1>3

LEMMA MlkemStep == MlkemInv /\ [Next]_vars => MlkemInv'
<1> SUFFICES ASSUME MlkemInv, [Next]_vars PROVE MlkemInv'
  OBVIOUS
<1>1. ASSUME backend # "MLKEM", backend' = backend PROVE MlkemInv'
  BY <1>1 DEF MlkemInv
<1>2. ASSUME Calls("DUMMY"), backend' = backend PROVE MlkemInv'
  BY <1>1, <1>2 DEF Calls
<1>3. CASE DummyKeypair \/ DummyEncaps \/ DummyDecaps
  BY <1>2, <1>3 DEF DummyKeypair, DummyEncaps, DummyDecaps
<1>4. CASE MlkemDecaps
  BY <1>4 DEF MlkemDecaps, Calls, MlkemInv
<1>5. ASSUME UNCHANGED <<backend, buffers>> PROVE MlkemInv'
  BY <1>5 DEF buffers, MlkemInv
<1>6. ASSUME NEW o, Begin(o) PROVE MlkemInv'
  BY <1>5, <1>6 DEF Begin
<1>7. CASE Interrupted
  BY <1>5, <1>7 DEF Interrupted
<1>8. ASSUME NEW k, Given(k) PROVE MlkemInv'
  <2>1. CASE off' = Want(op)
    BY <1>8, <2>1, MlkemDerand DEF Given
  <2>2. CASE off' # Want(op)
    BY <1>5, <1>8, <2>2 DEF Given
  <2> QED
    BY <2>1, <2>2
<1>9. CASE Refused
  BY <1>9, MlkemDerand DEF Refused
<1>10. ASSUME NEW what, Change("DUMMY", what) PROVE MlkemInv'
  BY <1>2, <1>10 DEF Change
<1>11. ASSUME NEW how \in {"near", "far"}, ChangeMlkemCipher(how) PROVE MlkemInv'
  <2> USE <1>11 DEF ChangeMlkemCipher, Change, Calls
  <2>1. PICK old \in {"none", "near", "far"} : ct = [made EXCEPT !.change = old]
    BY DEF MlkemInv
  <2>2. ct' = [made EXCEPT !.change = how]
    BY <2>1, ChangedAgain DEF MlkemInv
  <2> QED
    BY <2>2 DEF MlkemInv
<1>12. ASSUME NEW part, ChangeMlkemKey(part) PROVE MlkemInv'
  BY <1>12 DEF ChangeMlkemKey, Change, Calls, MlkemInv
<1>13. CASE UNCHANGED vars
  BY <1>5, <1>13 DEF vars
<1> QED
  BY <1>3, <1>4, <1>6, <1>7, <1>8, <1>9, <1>10, <1>11, <1>12, <1>13
     DEF Next, ChangeDummyCipher, ChangeDummyKey

(* Re-encryption tells every other ciphertext and key from the right ones. *)
LEMMA Reencryption ==
  ASSUME NEW key, NEW seed, NEW how \in {"none", "near", "far"}, NEW c, NEW k,
         c = [EncDerand(key, <<"m", seed>>).ct EXCEPT !.change = how]
  PROVE  LET sent == EncDerand(key, <<"m", seed>>)
             intact == k.dk[1] = "dk" /\ key = IndcpaPk(k.dk[2]) /\ k.pk = key /\ k.h = HashH(key)
         IN IF how = "none" /\ intact
            THEN KemDec(c, k) = sent.ss
            ELSE KemDec(c, k) = Rkprf(k.z, c) /\ KemDec(c, k) # sent.ss
<1> DEFINE m == <<"m", seed>>
           sent == EncDerand(key, m)
           intact == k.dk[1] = "dk" /\ key = IndcpaPk(k.dk[2]) /\ k.pk = key /\ k.h = HashH(key)
           got == IndcpaDec(k.dk, c)
           cmp == IndcpaEnc(got, k.pk, HashGCoins(got, k.h))
<1>1. c = [message |-> m, key |-> key, coins |-> HashGCoins(m, HashH(key)), change |-> how]
  BY DEF EncDerand, IndcpaEnc
<1>2. KemDec(c, k) = IF c = cmp THEN HashGKey(got, k.h) ELSE Rkprf(k.z, c)
  BY DEF KemDec
<1>3. CASE how = "none" /\ intact
  <2>1. got = m
    BY <1>1, <1>3 DEF IndcpaDec
  <2>2. c = cmp
    BY <1>1, <1>3, <2>1 DEF IndcpaEnc
  <2> QED
    BY <1>2, <1>3, <2>1, <2>2 DEF EncDerand
<1>4. ASSUME c = cmp PROVE how = "none" /\ intact
  <2>1. /\ how = "none" /\ got = m /\ k.pk = key
        /\ HashGCoins(m, HashH(key)) = HashGCoins(got, k.h)
    BY <1>1, <1>4 DEF IndcpaEnc
  <2>2. k.h = HashH(key)
    BY <2>1 DEF HashGCoins
  <2>3. k.dk[1] = "dk" /\ c.key = IndcpaPk(k.dk[2])
    BY <2>1 DEF IndcpaDec
  <2> QED
    BY <1>1, <2>1, <2>2, <2>3
<1>5. Rkprf(k.z, c) # sent.ss
  BY DEF Rkprf, EncDerand, HashGKey
<1> QED
  BY <1>2, <1>3, <1>4, <1>5

(* Implicit rejection is exact, whatever the kernel refused: decapsulation *)
(* gives the encapsulated secret for the unchanged ciphertext under a key  *)
(* whose parts belong to it, and in every other case the rejection key of  *)
(* the very ciphertext it was given.                                       *)
THEOREM MlkemIsExact == Spec => []MlkemExact
<1>1. Init => MlkemInv
  BY DEF Init, MlkemInv
<1>2. MlkemInv => MlkemExact
  <2> SUFFICES ASSUME MlkemInv, backend = "MLKEM", status = "OK"
               PROVE  IF ct = made /\ IntactFor(made.key)
                      THEN sd = ss
                      ELSE sd # ss /\ sd = Rkprf(sk.z, ct)
    BY DEF MlkemExact
  <2>1. PICK key, seed : made = EncDerand(key, <<"m", seed>>).ct /\ ss = EncDerand(key, <<"m", seed>>).ss
    BY DEF MlkemInv, Encapsulated
  <2>2. PICK how \in {"none", "near", "far"} : ct = [made EXCEPT !.change = how]
    BY DEF MlkemInv
  <2>3. made.key = key /\ (ct = made <=> how = "none")
    BY <2>1, <2>2 DEF EncDerand, IndcpaEnc
  <2>4. sd = KemDec(ct, sk)
    BY DEF MlkemInv
  <2> QED
    BY <2>1, <2>2, <2>3, <2>4, Reencryption DEF IntactFor
<1> QED
  BY <1>1, <1>2, MlkemStep, PTL DEF Spec
=============================================================================
