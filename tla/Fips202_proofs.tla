---------------------------- MODULE Fips202_proofs ----------------------------
(***************************************************************************)
(* Theorems about Fips202, for any rate, digest, contexts, pieces of input *)
(* and requests for output, and without the bounds of the run.             *)
(*                                                                         *)
(* The invariant (Inv, below) relates what was XORed into a state to the   *)
(* padded message: before finalization all bytes absorbed so far lie in it *)
(* block by block, behind it the history is the padded message and one     *)
(* zero block for each block squeezed.                                     *)
(***************************************************************************)
EXTENDS Fips202, TLAPS

(* The blocks p are the beginning of m. *)
Lies(p, m) == \A j \in 1..Len(p), i \in Offsets : p[j][i] = m[(j - 1) * Rate + i + 1]

(* b ends the message m behind n blocks, with e bytes of it, and pads. *)
Ends(b, n, e, k, m) == \A i \in Offsets :
    b[i] = IF i < e THEN m[n * Rate + i + 1]
           ELSE (IF i = e THEN Suffix(k) ELSE Zero)
                \cup (IF i = Rate - 1 THEN Top ELSE Zero)

(* Behind the blocks p and l bytes of the block cu of message m, r waits.  *)
Absorbed(p, cu, l, m, r) ==
    /\ l < Rate
    /\ Len(m) = Len(p) * Rate + l + Len(r)
    /\ \A j \in 1..Len(r) : r[j] = m[Len(p) * Rate + l + j]
    /\ Lies(p, m)
    /\ \A i \in Offsets : cu[i] = IF i < l THEN m[Len(p) * Rate + i + 1] ELSE Zero

(* Blocks squeezed without absorbing. *)
Zeros(q) == [j \in 1..q |-> ZeroBlock]

(* The assumptions on the constants, in the form the leaves use.           *)
LEMMA RateFact == Rate \in Nat /\ Rate > 0 /\ Offsets = 0..(Rate - 1) /\ Digest \in 1..Rate
BY SpongeAssumption DEF Offsets

(* Division by the rate undoes the layout of blocks.                       *)
LEMMA DivMod ==
    ASSUME NEW q \in Nat, NEW i \in Offsets
    PROVE  (q * Rate + i) \div Rate = q /\ (q * Rate + i) % Rate = i
<1>1. Rate \in Nat /\ Rate > 0 /\ i \in Nat /\ i < Rate
  BY SpongeAssumption DEF Offsets
<1> DEFINE x == q * Rate + i
           d == x \div Rate
           e == x % Rate
<1>2. q * Rate \in Nat /\ x \in Nat
  BY <1>1
<1>3. d \in Nat /\ e \in 0..(Rate - 1) /\ x = Rate * d + e
  BY <1>1, <1>2
<1>4. d = q
  <2>1. CASE d < q
    <3>1. d + 1 <= q
      BY <2>1, <1>3
    <3>2. Rate * (d + 1) <= Rate * q
      BY <3>1, <1>1, <1>3
    <3> QED BY <3>2, <1>1, <1>3, <1>2
  <2>2. CASE d > q
    <3>1. q + 1 <= d
      BY <2>2, <1>3
    <3>2. Rate * (q + 1) <= Rate * d
      BY <3>1, <1>1, <1>3
    <3> QED BY <3>2, <1>1, <1>3, <1>2
  <2> QED BY <2>1, <2>2, <1>3
<1> QED BY <1>1, <1>2, <1>3, <1>4

(* Bytes and XOR.                                                          *)
LEMMA BytesFact == Zero \in Bytes /\ Top \in Bytes /\ \A k : Suffix(k) \in Bytes
BY DEF Zero, Top, Bytes, Bits, Suffix

LEMMA XorFact == \A a \in Bytes : Xor(Zero, a) = a /\ Xor(a, Zero) = a
BY DEF Xor, Zero

LEMMA XorType == \A a, b \in Bytes : Xor(a, b) \in Bytes
BY DEF Xor, Bytes

LEMMA SuffixTop == \A k : Xor(Suffix(k), Top) = Suffix(k) \cup Top
BY DEF Xor, Top, Suffix

(* XORing into a block yields a block, and taking from a state bytes of it. *)
LEMMA XoredType ==
    ASSUME NEW b \in Blocks, NEW s \in Seq(Bytes), NEW f \in Nat
    PROVE  Xored(b, f, s) \in Blocks
<1> SUFFICES ASSUME NEW i \in Offsets
             PROVE  (IF i >= f /\ i < f + Len(s) THEN Xor(b[i], s[i - f + 1]) ELSE b[i]) \in Bytes
  BY DEF Xored, Blocks
<1>1. b[i] \in Bytes
  BY DEF Blocks
<1>2. CASE i >= f /\ i < f + Len(s)
  <2>1. s[i - f + 1] \in Bytes
    BY <1>2 DEF Offsets
  <2> QED BY <1>1, <1>2, <2>1, XorType
<1> QED BY <1>1, <1>2

LEMMA TakenType ==
    ASSUME NEW h \in Seq(Blocks), NEW f \in Nat, NEW n \in Nat, f + n <= Rate
    PROVE  /\ Taken(h, f, n) \in Seq(StateBytes)
           /\ Len(Taken(h, f, n)) = n
           /\ \A i \in 1..n : Taken(h, f, n)[i] = StateByte(h, ZeroBlock, f + i - 1)
<1>1. \A i \in 1..n : f + i - 1 \in Offsets
  BY RateFact
<1>2. \A i \in 1..n : StateByte(h, ZeroBlock, f + i - 1) \in StateBytes
  BY <1>1, BytesFact DEF StateByte, StateBytes, ZeroBlock
<1> QED BY <1>2 DEF Taken

(* Zero blocks and their sequences, and the padded message.                *)
LEMMA ZeroBlockType == ZeroBlock \in Blocks
BY BytesFact DEF ZeroBlock, Blocks

LEMMA ZerosGrow ==
    ASSUME NEW s \in Seq(Blocks), NEW q \in Nat
    PROVE  Append(s \o Zeros(q), ZeroBlock) = s \o Zeros(q + 1)
BY ZeroBlockType, SMTT(30) DEF Zeros

LEMMA PaddedType ==
    ASSUME NEW k, NEW m \in Seq(Bytes)
    PROVE  Padded(k, m) \in Seq(Blocks) /\ Len(Padded(k, m)) = Len(m) \div Rate + 1
<1>1. Len(m) \div Rate \in Nat
  BY RateFact
<1>2. ASSUME NEW j \in 1..(Len(m) \div Rate + 1)
      PROVE  Padded(k, m)[j] \in Blocks
  <2> SUFFICES ASSUME NEW i \in Offsets
               PROVE  (LET n == (j - 1) * Rate + i IN
                        IF n < Len(m) THEN m[n + 1]
                        ELSE (IF n = Len(m) THEN Suffix(k) ELSE Zero)
                             \cup (IF i = Rate - 1 THEN Top ELSE Zero)) \in Bytes
    BY DEF Padded, Blocks
  <2> DEFINE n == (j - 1) * Rate + i
  <2>1. n \in Nat
    BY RateFact, <1>1
  <2>2. n < Len(m) => m[n + 1] \in Bytes
    BY <2>1
  <2>3. ((IF n = Len(m) THEN Suffix(k) ELSE Zero) \cup (IF i = Rate - 1 THEN Top ELSE Zero)) \in Bytes
    BY DEF Zero, Top, Suffix, Bytes, Bits
  <2> QED BY <2>2, <2>3
<1>3. Padded(k, m) \in [1..(Len(m) \div Rate + 1) -> Blocks]
  <2> DEFINE N == Len(m) \div Rate + 1
             F(j) == [i \in Offsets |->
                        LET n == (j - 1) * Rate + i IN
                        IF n < Len(m) THEN m[n + 1]
                        ELSE (IF n = Len(m) THEN Suffix(k) ELSE Zero)
                             \cup (IF i = Rate - 1 THEN Top ELSE Zero)]
  <2>1. Padded(k, m) = [j \in 1..N |-> F(j)]
    BY DEF Padded
  <2>2. \A j \in 1..N : Padded(k, m)[j] \in Blocks
    BY <1>2
  <2> HIDE DEF F
  <2> QED BY <2>1, <2>2
<1> QED BY <1>1, <1>3

LEMMA ZerosType == \A q \in Nat : Zeros(q) \in Seq(Blocks) /\ Len(Zeros(q)) = q
BY ZeroBlockType DEF Zeros

(* Position i of block j lies in the first n blocks. *)
LEMMA Place ==
    ASSUME NEW n \in Nat, NEW j \in 1..n, NEW i \in Offsets
    PROVE  (j - 1) * Rate + i + 1 \in 1..(n * Rate)
<1>1. Rate \in Nat /\ i \in Nat /\ i < Rate /\ j \in Nat /\ j - 1 \in Nat
  BY RateFact
<1>2. (j - 1) * Rate \in Nat /\ n * Rate \in Nat
  BY <1>1
<1>3. j * Rate <= n * Rate
  BY <1>1
<1>4. j * Rate = (j - 1) * Rate + Rate
  BY <1>1
<1> QED BY <1>1, <1>2, <1>3, <1>4

(* The whole message waits. *)
LEMMA AbsorbStart ==
    ASSUME NEW m \in Seq(Bytes)
    PROVE  Absorbed(<<>>, ZeroBlock, 0, m, m)
BY RateFact DEF Absorbed, ZeroBlock, Lies

(* A further piece waits. *)
LEMMA AbsorbMore ==
    ASSUME NEW p \in Seq(Blocks), NEW cu \in Blocks, NEW l \in Nat,
           NEW m \in Seq(Bytes), NEW r \in Seq(Bytes),
           Absorbed(p, cu, l, m, <<>>)
    PROVE  Absorbed(p, cu, l, m \o r, r)
<1> DEFINE k == Len(p) * Rate + l
<1>1. k \in Nat /\ Len(m) = k /\ l < Rate
  BY RateFact DEF Absorbed
<1>2. Len(m \o r) = k + Len(r)
  BY <1>1
<1>3. \A j \in 1..Len(r) : r[j] = (m \o r)[k + j]
  BY <1>1
<1>4. \A x \in 1..k : (m \o r)[x] = m[x]
  BY <1>1
<1>5. ASSUME NEW j \in 1..Len(p), NEW i \in Offsets
      PROVE  p[j][i] = (m \o r)[(j - 1) * Rate + i + 1]
  <2>1. j \in Nat /\ Len(p) \in Nat /\ j <= Len(p) /\ i \in Nat /\ i < Rate /\ Rate \in Nat
    BY RateFact
  <2>2. (j - 1) * Rate + i + 1 \in 1..k
    <3>1. (j - 1) * Rate + i + 1 \in 1..(Len(p) * Rate)
      BY <2>1, Place
    <3> QED BY <2>1, <3>1, <1>1
  <2> QED BY <2>2, <1>4 DEF Absorbed, Lies
<1>6. ASSUME NEW i \in Offsets
      PROVE  cu[i] = IF i < l THEN (m \o r)[Len(p) * Rate + i + 1] ELSE Zero
  <2>1. i < l => Len(p) * Rate + i + 1 \in 1..k
    BY RateFact, <1>1
  <2> QED BY <2>1, <1>4 DEF Absorbed
<1> QED BY <1>1, <1>2, <1>3, <1>5, <1>6 DEF Absorbed, Lies

(* A block is filled and the state permuted. *)
LEMMA AbsorbWhole ==
    ASSUME NEW p \in Seq(Blocks), NEW cu \in Blocks, NEW l \in Nat,
           NEW m \in Seq(Bytes), NEW r \in Seq(Bytes),
           Absorbed(p, cu, l, m, r), Len(r) + l >= Rate
    PROVE  LET n == Rate - l IN
           Absorbed(Append(p, Xored(cu, l, SubSeq(r, 1, n))), ZeroBlock, 0,
                    m, SubSeq(r, n + 1, Len(r)))
<1> DEFINE n == Rate - l
           s == SubSeq(r, 1, n)
           rest == SubSeq(r, n + 1, Len(r))
           b == Xored(cu, l, s)
           p2 == Append(p, b)
           k == Len(p) * Rate + l
<1>1. k \in Nat /\ Len(m) = k + Len(r) /\ l < Rate /\ n \in Nat /\ n >= 1 /\ n <= Len(r) /\ Rate \in Nat
  BY RateFact, SMTT(30) DEF Absorbed
<1>2. s \in Seq(Bytes) /\ Len(s) = n /\ \A x \in 1..n : s[x] = r[x]
  BY <1>1
<1>3. rest \in Seq(Bytes) /\ Len(rest) = Len(r) - n /\ \A x \in 1..Len(rest) : rest[x] = r[n + x]
  BY <1>1, SMTT(20)
<1>4. b \in Blocks /\ p2 \in Seq(Blocks) /\ Len(p2) = Len(p) + 1 /\ p2[Len(p) + 1] = b
      /\ \A j \in 1..Len(p) : p2[j] = p[j]
  <2>1. b \in Blocks
    BY <1>2, XoredType
  <2> HIDE DEF b
  <2> QED BY <2>1
<1>5. Len(p2) * Rate = k + n
  <2>1. Len(p2) = Len(p) + 1
    BY <1>4
  <2> HIDE DEF p2
  <2>2. (Len(p) + 1) * Rate = Len(p) * Rate + Rate
    BY <1>1
  <2>3. k + n = Len(p) * Rate + Rate
    BY <1>1
  <2> QED BY <2>1, <2>2, <2>3
<1>6. ASSUME NEW i \in Offsets
      PROVE  b[i] = m[Len(p) * Rate + i + 1]
  <2>a. i \in Nat /\ i < Rate /\ Len(s) = n
    BY RateFact, <1>2
  <2>b. b[i] = IF i >= l /\ i < l + Len(s) THEN Xor(cu[i], s[i - l + 1]) ELSE cu[i]
    BY DEF Xored
  <2>0. i \in Nat /\ i < Rate /\ b[i] = IF i >= l /\ i < l + n THEN Xor(cu[i], s[i - l + 1]) ELSE cu[i]
    <3> HIDE DEF b, s, n
    <3> QED BY <2>a, <2>b
  <2>1. CASE i < l
    <3>1. cu[i] = m[Len(p) * Rate + i + 1]
      BY <2>1 DEF Absorbed
    <3> QED BY <2>0, <2>1, <3>1, <1>1
  <2>2. CASE i >= l
    <3>1. i - l + 1 \in 1..n
      BY <2>0, <2>2, <1>1
    <3>a. i - l + 1 \in 1..Len(r)
      BY <3>1, <1>1
    <3>2. s[i - l + 1] = r[i - l + 1] /\ r[i - l + 1] \in Bytes
      <4>1. s[i - l + 1] = r[i - l + 1]
        BY <3>1, <1>2
      <4>2. r[i - l + 1] \in Bytes
        BY <3>a
      <4> HIDE DEF s
      <4> QED BY <4>1, <4>2
    <3>3. r[i - l + 1] = m[k + (i - l + 1)]
      <4>1. \A x \in 1..Len(r) : r[x] = m[k + x]
        BY DEF Absorbed
      <4> HIDE DEF k
      <4> QED BY <3>a, <4>1
    <3>4. k + (i - l + 1) = Len(p) * Rate + i + 1
      BY <1>1, <2>0
    <3>5. cu[i] = Zero
      BY <2>2, <2>0, <1>1 DEF Absorbed
    <3>6. Xor(cu[i], s[i - l + 1]) = s[i - l + 1]
      BY <3>5, <3>2, XorFact
    <3>7. b[i] = Xor(cu[i], s[i - l + 1])
      <4>1. i < l + n
        BY <2>0, <1>1
      <4> HIDE DEF b, s, n
      <4> QED BY <2>0, <2>2, <4>1
    <3> QED BY <3>2, <3>3, <3>4, <3>6, <3>7
  <2> QED BY <2>0, <2>1, <2>2, <1>1
<1>7. ASSUME NEW j \in 1..Len(p2), NEW i \in Offsets
      PROVE  p2[j][i] = m[(j - 1) * Rate + i + 1]
  <2>1. CASE j \in 1..Len(p)
    BY <2>1, <1>4 DEF Absorbed, Lies
  <2>2. CASE j = Len(p) + 1
    BY <2>2, <1>4, <1>6
  <2> QED BY <2>1, <2>2, <1>4
<1>8. ASSUME NEW x \in 1..Len(rest)
      PROVE  rest[x] = m[Len(p2) * Rate + 0 + x]
  <2>1. n + x \in 1..Len(r)
    BY <1>3, <1>1
  <2>2. rest[x] = r[n + x] /\ r[n + x] = m[k + (n + x)]
    BY <2>1, <1>3 DEF Absorbed
  <2> QED BY <2>2, <1>5, <1>1, SMTT(20)
<1>9. Len(m) = Len(p2) * Rate + 0 + Len(rest)
  <2>1. Len(m) = k + Len(r) /\ Len(rest) = Len(r) - n /\ Len(p2) * Rate = k + n
        /\ k \in Nat /\ n \in Nat /\ Len(r) \in Nat
    BY <1>5, <1>3, <1>1
  <2> HIDE DEF p2, rest, k, n
  <2> QED BY <2>1
<1>10. \A i \in Offsets : ZeroBlock[i] = IF i < 0 THEN m[Len(p2) * Rate + i + 1] ELSE Zero
  BY RateFact DEF ZeroBlock
<1> HIDE DEF p2, rest
<1>11. Absorbed(p2, ZeroBlock, 0, m, rest)
  <2>1. Lies(p2, m)
    BY <1>7 DEF Lies
  <2>2. 0 < Rate
    BY RateFact
  <2> QED BY <2>1, <2>2, <1>8, <1>9, <1>10 DEF Absorbed
<1> QED BY <1>11 DEF p2, rest

(* What is left does not fill a block. *)
LEMMA AbsorbRest ==
    ASSUME NEW p \in Seq(Blocks), NEW cu \in Blocks, NEW l \in Nat,
           NEW m \in Seq(Bytes), NEW r \in Seq(Bytes),
           Absorbed(p, cu, l, m, r), Len(r) + l < Rate
    PROVE  Absorbed(p, Xored(cu, l, r), l + Len(r), m, <<>>)
<1> DEFINE b == Xored(cu, l, r)
           k == Len(p) * Rate + l
<1>1. k \in Nat /\ Len(m) = k + Len(r) /\ Rate \in Nat
  BY RateFact DEF Absorbed
<1>2. ASSUME NEW i \in Offsets
      PROVE  b[i] = IF i < l + Len(r) THEN m[Len(p) * Rate + i + 1] ELSE Zero
  <2>0. i \in Nat /\ i < Rate
        /\ b[i] = IF i >= l /\ i < l + Len(r) THEN Xor(cu[i], r[i - l + 1]) ELSE cu[i]
    BY RateFact DEF Xored
  <2>1. cu[i] = IF i < l THEN m[Len(p) * Rate + i + 1] ELSE Zero
    BY DEF Absorbed
  <2>2. CASE i >= l /\ i < l + Len(r)
    <3>1. i - l + 1 \in 1..Len(r)
      BY <2>0, <2>2
    <3>2. r[i - l + 1] \in Bytes /\ r[i - l + 1] = m[k + (i - l + 1)]
      BY <3>1 DEF Absorbed
    <3>3. k + (i - l + 1) = Len(p) * Rate + i + 1
      BY <1>1, <2>0
    <3>4. cu[i] = Zero
      BY <2>1, <2>2, <2>0
    <3>5. b[i] = r[i - l + 1]
      BY <2>0, <2>2, <3>4, <3>2, XorFact
    <3> QED BY <3>5, <3>2, <3>3, <2>2
  <2> QED BY <2>0, <2>1, <2>2
<1> HIDE DEF b
<1>3. Absorbed(p, b, l + Len(r), m, <<>>)
  <2>1. l + Len(r) < Rate /\ Len(m) = Len(p) * Rate + (l + Len(r)) + Len(<<>>)
    BY <1>1
  <2>2. Lies(p, m)
    BY DEF Absorbed
  <2>3. \A j \in 1..Len(<<>>) : <<>>[j] = m[Len(p) * Rate + (l + Len(r)) + j]
    OBVIOUS
  <2> QED BY <2>1, <2>2, <2>3, <1>2 DEF Absorbed
<1> QED BY <1>3 DEF b

(* The block that ends a message, however it was made. *)
PadByte(k, m, x, i) ==
    IF x < Len(m) THEN m[x + 1]
    ELSE (IF x = Len(m) THEN Suffix(k) ELSE Zero) \cup (IF i = Rate - 1 THEN Top ELSE Zero)

(* The last block of the padded message, byte by byte.                     *)
LEMMA PadBlock ==
    ASSUME NEW p \in Seq(Blocks), NEW m \in Seq(Bytes), NEW k, NEW b \in Blocks, NEW e \in Nat,
           Len(m) = Len(p) * Rate + e, e < Rate,
           Lies(p, m), Ends(b, Len(p), e, k, m)
    PROVE  Append(p, b) = Padded(k, m)
<1> DEFINE N == Len(p)
           P == Padded(k, m)
<1>1. N \in Nat /\ Rate \in Nat /\ e \in Offsets
  BY RateFact
<1>2. Len(m) \div Rate = N
  BY <1>1, DivMod
<1>3. P \in Seq(Blocks) /\ Len(P) = N + 1
  BY <1>2, PaddedType
<1>4. ASSUME NEW j \in 1..(N + 1), NEW i \in Offsets
      PROVE  P[j][i] = PadByte(k, m, (j - 1) * Rate + i, i)
  BY <1>2 DEF Padded, PadByte
<1>5. ASSUME NEW j \in 1..N
      PROVE  P[j] = p[j]
  <2>1. P[j] \in Blocks /\ p[j] \in Blocks
    BY <1>3, <1>1
  <2>2. ASSUME NEW i \in Offsets
        PROVE  P[j][i] = p[j][i]
    <3>1. (j - 1) * Rate + i + 1 \in 1..(N * Rate)
      BY Place, <1>1
    <3>2. (j - 1) * Rate + i \in Nat /\ (j - 1) * Rate + i < Len(m)
      <4>1. (j - 1) * Rate \in Nat /\ N * Rate \in Nat /\ i \in Nat
        BY <1>1, RateFact
      <4> QED BY <3>1, <4>1
    <3>3. j \in 1..(N + 1)
      BY <1>1
    <3>4. P[j][i] = m[(j - 1) * Rate + i + 1]
      BY <3>2, <3>3, <1>4 DEF PadByte
    <3> QED BY <3>4 DEF Lies
  <2> HIDE DEF P
  <2> QED BY <2>1, <2>2 DEF Blocks
<1>6. P[N + 1] = b
  <2>1. P[N + 1] \in Blocks
    BY <1>3, <1>1
  <2>2. ASSUME NEW i \in Offsets
        PROVE  P[N + 1][i] = b[i]
    <3>1. i \in Nat /\ N * Rate \in Nat /\ N + 1 \in 1..(N + 1) /\ (N + 1) - 1 = N
      BY <1>1, RateFact
    <3>2. /\ N * Rate + i < Len(m) <=> i < e
          /\ N * Rate + i = Len(m) <=> i = e
      BY <3>1
    <3>3. P[N + 1][i] = PadByte(k, m, N * Rate + i, i)
      <4>1. ((N + 1) - 1) * Rate + i = N * Rate + i
        BY <3>1
      <4>2. P[N + 1][i] = PadByte(k, m, ((N + 1) - 1) * Rate + i, i)
        BY <1>4, <3>1, Zenon
      <4> QED BY <4>1, <4>2, Zenon
    <3> HIDE DEF P, N
    <3> QED BY <3>2, <3>3 DEF N, Ends, PadByte
  <2> HIDE DEF P
  <2> QED BY <2>1, <2>2 DEF Blocks
<1> HIDE DEF P
<1>7. Append(p, b) \in Seq(Blocks) /\ Len(Append(p, b)) = N + 1
      /\ \A j \in 1..(N + 1) : Append(p, b)[j] = P[j]
  BY <1>5, <1>6, <1>1
<1>8. Append(p, b) = P
  <2> DEFINE A == Append(p, b)
  <2>1. A \in Seq(Blocks) /\ Len(A) = N + 1 /\ \A j \in 1..(N + 1) : A[j] = P[j]
    BY <1>7
  <2> HIDE DEF A, N
  <2>2. A = P
    BY <2>1, <1>3
  <2> QED BY <2>2 DEF A
<1> QED BY <1>8 DEF P

(* keccak_inc_finalize completes the padding... *)
LEMMA FinishIncremental ==
    ASSUME NEW p \in Seq(Blocks), NEW cu \in Blocks, NEW l \in Nat,
           NEW m \in Seq(Bytes), NEW k, Absorbed(p, cu, l, m, <<>>)
    PROVE  Append(p, Xored(Xored(cu, l, <<Suffix(k)>>), Rate - 1, <<Top>>)) = Padded(k, m)
<1> DEFINE b1 == Xored(cu, l, <<Suffix(k)>>)
           b == Xored(b1, Rate - 1, <<Top>>)
<1>1. l < Rate /\ Len(m) = Len(p) * Rate + l /\ Rate \in Nat /\ Rate - 1 \in Nat
  BY RateFact DEF Absorbed
<1>2. <<Suffix(k)>> \in Seq(Bytes) /\ <<Top>> \in Seq(Bytes)
  BY BytesFact
<1>3. b \in Blocks
  BY <1>1, <1>2, XoredType
<1>4. ASSUME NEW i \in Offsets
      PROVE  b[i] = IF i < l THEN m[Len(p) * Rate + i + 1]
                    ELSE (IF i = l THEN Suffix(k) ELSE Zero)
                         \cup (IF i = Rate - 1 THEN Top ELSE Zero)
  <2>0. i \in Nat /\ i < Rate
    BY RateFact
  <2>1. cu[i] = IF i < l THEN m[Len(p) * Rate + i + 1] ELSE Zero
    BY DEF Absorbed
  <2>2. b1[i] = IF i = l THEN Xor(cu[i], Suffix(k)) ELSE cu[i]
    BY <2>0 DEF Xored
  <2>3. b[i] = IF i = Rate - 1 THEN Xor(b1[i], Top) ELSE b1[i]
    BY <2>0, <1>1 DEF Xored
  <2> HIDE DEF b, b1
  <2>4. CASE i < l
    BY <2>0, <2>1, <2>2, <2>3, <2>4, <1>1
  <2>5. CASE i = l
    <3>1. b1[i] = Suffix(k)
      BY <2>5, <2>1, <2>2, XorFact, BytesFact, <2>0
    <3>2. Suffix(k) \cup Zero = Suffix(k)
      BY DEF Zero
    <3>3. ~(i < l)
      BY <2>5, <2>0
    <3>4. CASE i = Rate - 1
      BY <3>1, <3>3, <3>4, <2>3, <2>5, SuffixTop
    <3>5. CASE i # Rate - 1
      BY <3>1, <3>2, <3>3, <3>5, <2>3, <2>5
    <3> QED BY <3>4, <3>5
  <2>6. CASE i > l
    <3>1. b1[i] = Zero
      BY <2>6, <2>1, <2>2, <2>0
    <3>2. Zero \cup Zero = Zero /\ Zero \cup Top = Top
      BY DEF Zero
    <3>3. Xor(Zero, Top) = Top
      BY XorFact, BytesFact
    <3>4. ~(i < l) /\ i # l
      BY <2>6, <2>0
    <3>5. CASE i = Rate - 1
      BY <3>1, <3>2, <3>3, <3>4, <3>5, <2>3
    <3>6. CASE i # Rate - 1
      BY <3>1, <3>2, <3>4, <3>6, <2>3
    <3> QED BY <3>5, <3>6
  <2> QED BY <2>4, <2>5, <2>6, <2>0
<1>5. Lies(p, m)
  BY DEF Absorbed
<1> HIDE DEF b
<1>6. Append(p, b) = Padded(k, m)
  BY <1>1, <1>3, <1>4, <1>5, PadBlock, ZenonT(40) DEF Ends
<1> QED BY <1>6 DEF b

(* ... as the last block of keccak_absorb does. *)
LEMMA FinishOnce ==
    ASSUME NEW p \in Seq(Blocks), NEW cu \in Blocks,
           NEW m \in Seq(Bytes), NEW r \in Seq(Bytes), NEW k,
           Absorbed(p, cu, 0, m, r), Len(r) < Rate
    PROVE  LET text == Append(r, Suffix(k))
               t == [i \in Offsets |-> (IF i < Len(text) THEN text[i + 1] ELSE Zero)
                                       \cup (IF i = Rate - 1 THEN Top ELSE Zero)]
               b == [i \in Offsets |-> Xor(cu[i], t[i])]
           IN  b \in Blocks /\ Append(p, b) = Padded(k, m)
<1> DEFINE text == Append(r, Suffix(k))
           t == [i \in Offsets |-> (IF i < Len(text) THEN text[i + 1] ELSE Zero)
                                   \cup (IF i = Rate - 1 THEN Top ELSE Zero)]
           b == [i \in Offsets |-> Xor(cu[i], t[i])]
           e == Len(r)
<1>1. e \in Nat /\ e < Rate /\ Len(m) = Len(p) * Rate + e /\ Rate \in Nat
  BY RateFact DEF Absorbed
<1>2. text \in Seq(Bytes) /\ Len(text) = e + 1 /\ text[e + 1] = Suffix(k)
      /\ \A x \in 1..e : text[x] = r[x]
  BY BytesFact
<1>3. ASSUME NEW i \in Offsets
      PROVE  /\ b[i] \in Bytes
             /\ b[i] = IF i < e THEN m[Len(p) * Rate + i + 1]
                       ELSE (IF i = e THEN Suffix(k) ELSE Zero)
                            \cup (IF i = Rate - 1 THEN Top ELSE Zero)
  <2>0. i \in Nat /\ i < Rate
    BY RateFact
  <2> HIDE DEF text
  <2>1. cu[i] = Zero
    BY <2>0 DEF Absorbed
  <2>2. t[i] = (IF i < e + 1 THEN text[i + 1] ELSE Zero) \cup (IF i = Rate - 1 THEN Top ELSE Zero)
    BY <1>2
  <2>3. t[i] \in Bytes
    <3>1. i < e + 1 => text[i + 1] \in Bytes
      BY <1>1, <1>2, <2>0
    <3>2. \A x, y \in Bytes : x \cup y \in Bytes
      BY DEF Bytes
    <3> QED BY <2>2, <3>1, <3>2, BytesFact
  <2>4. b[i] = t[i]
    BY <2>1, <2>3, XorFact
  <2>5. CASE i < e
    <3>1. text[i + 1] = r[i + 1]
      BY <1>1, <1>2, <2>0, <2>5, SMTT(30)
    <3>2. r[i + 1] = m[Len(p) * Rate + i + 1]
      <4>1. \A j \in 1..e : r[j] = m[Len(p) * Rate + 0 + j]
        BY DEF Absorbed
      <4>2. i + 1 \in 1..e
        BY <2>0, <2>5, <1>1
      <4>3. Len(p) * Rate + 0 + (i + 1) = Len(p) * Rate + i + 1
        BY <2>0, <1>1
      <4> QED BY <4>1, <4>2, <4>3
    <3>3. i # Rate - 1 /\ i < e + 1
      BY <2>0, <2>5, <1>1
    <3>4. text[i + 1] \cup Zero = text[i + 1]
      BY DEF Zero
    <3> HIDE DEF b, t, e
    <3> QED BY <3>1, <3>2, <3>3, <3>4, <2>2, <2>3, <2>4, <2>5
  <2>6. CASE i = e
    <3>1. text[i + 1] = Suffix(k) /\ i < e + 1
      BY <1>1, <1>2, <2>6
    <3> HIDE DEF b, t, e
    <3> QED BY <3>1, <2>2, <2>3, <2>4, <2>6, <2>0
  <2>7. CASE i > e
    <3>1. ~(i < e + 1) /\ ~(i < e) /\ i # e
      BY <1>1, <2>0, <2>7
    <3> HIDE DEF b, t, e
    <3> QED BY <3>1, <2>2, <2>3, <2>4
  <2> QED BY <2>5, <2>6, <2>7, <2>0, <1>1
<1>4. b \in Blocks
  BY <1>3 DEF Blocks
<1>5. Lies(p, m)
  BY DEF Absorbed
<1> HIDE DEF b, e
<1>6. Append(p, b) = Padded(k, m)
  <2>1. Ends(b, Len(p), e, k, m)
    BY <1>3 DEF Ends
  <2> QED BY <2>1, <1>1, <1>4, <1>5, PadBlock
<1> QED BY <1>4, <1>6 DEF b

(* Concatenation.                                                          *)
LEMMA ConcatFact ==
    ASSUME NEW S, NEW a \in Seq(S), NEW b \in Seq(S)
    PROVE  a \o b \in Seq(S) /\ Len(a \o b) = Len(a) + Len(b)
OBVIOUS

(* Appending is injective. *)
LEMMA AppendFact ==
    ASSUME NEW p \in Seq(Blocks), NEW s \in Seq(Blocks), NEW x, NEW y,
           Append(p, x) = Append(s, y)
    PROVE  p = s
<1>1. Len(p) + 1 = Len(s) + 1
  <2>1. Len(Append(p, x)) = Len(p) + 1 /\ Len(Append(s, y)) = Len(s) + 1
    OBVIOUS
  <2> QED BY <2>1
<1>2. \A j \in 1..Len(p) : p[j] = s[j]
  <2>1. ASSUME NEW j \in 1..Len(p)
        PROVE  p[j] = s[j]
    <3>1. Append(p, x)[j] = p[j]
      OBVIOUS
    <3>2. Append(s, y)[j] = s[j]
      BY <1>1
    <3> QED BY <3>1, <3>2
  <2> QED BY <2>1
<1> QED BY <1>1, <1>2

(* The history of a context from which q blocks have been squeezed. *)
Reached(h, k, m, q) == h = Padded(k, m) \o Zeros(q)

(* The output is the beginning of the stream. *)
Streams(o, k, m) == \A i \in 1..Len(o) : o[i] = Stream(k, m, i - 1)

(* What a step takes from the state is the next part of the stream. *)
LEMMA TakeNext ==
    ASSUME NEW h \in Seq(Blocks), NEW k, NEW m, NEW q \in Nat,
           NEW o \in Seq(StateBytes), NEW f \in Nat, NEW n \in Nat,
           Reached(h, k, m, q), f + n <= Rate, Len(o) = q * Rate + f, Streams(o, k, m)
    PROVE  /\ o \o Taken(h, f, n) \in Seq(StateBytes)
           /\ Len(o \o Taken(h, f, n)) = Len(o) + n
           /\ Streams(o \o Taken(h, f, n), k, m)
<1> DEFINE t == Taken(h, f, n)
           o2 == o \o t
<1>1. t \in Seq(StateBytes) /\ Len(t) = n
      /\ \A i \in 1..n : t[i] = StateByte(h, ZeroBlock, f + i - 1)
  BY TakenType
<1> HIDE DEF t
<1>2. o2 \in Seq(StateBytes) /\ Len(o2) = Len(o) + n
  BY <1>1, ConcatFact
<1>3. ASSUME NEW i \in 1..Len(o2)
      PROVE  o2[i] = Stream(k, m, i - 1)
  <2>1. CASE i \in 1..Len(o)
    <3>1. o2[i] = o[i]
      BY <2>1, <1>1
    <3> QED BY <3>1, <2>1 DEF Streams
  <2>2. CASE i > Len(o)
    <3> DEFINE x == i - Len(o)
               y == f + x - 1
    <3>1. x \in 1..n /\ i \in Nat /\ i = Len(o) + x
      BY <2>2, <1>2
    <3>2. o2[i] = t[x]
      BY <3>1, <2>2, <1>1, <1>2
    <3>3. y \in Offsets
      BY <3>1, RateFact
    <3>4. i - 1 = q * Rate + y
      BY <3>1, RateFact
    <3>5. (i - 1) \div Rate = q /\ (i - 1) % Rate = y
      BY <3>3, <3>4, DivMod
    <3>6. t[x] = StateByte(h, ZeroBlock, y)
      BY <3>1, <1>1
    <3>7. Stream(k, m, i - 1) = StateByte(Padded(k, m) \o Zeros(q), ZeroBlock, y)
      BY <3>5 DEF Stream, Zeros
    <3> HIDE DEF x, y, o2
    <3> QED BY <3>2, <3>6, <3>7 DEF Reached
  <2> QED BY <2>1, <2>2, <1>2
<1>4. Streams(o2, k, m)
  BY <1>3 DEF Streams
<1> QED BY <1>2, <1>4 DEF t

(* A further block squeezed, and one taken back.                           *)
LEMMA ReachNext ==
    ASSUME NEW h \in Seq(Blocks), NEW k, NEW m \in Seq(Bytes), NEW q \in Nat,
           Reached(h, k, m, q)
    PROVE  Reached(Append(h, ZeroBlock), k, m, q + 1)
BY PaddedType, ZerosGrow DEF Reached

LEMMA ReachBefore ==
    ASSUME NEW p \in Seq(Blocks), NEW x, NEW k, NEW m \in Seq(Bytes), NEW q \in Nat, q > 0,
           Reached(Append(p, x), k, m, q)
    PROVE  Reached(p, k, m, q - 1)
<1> DEFINE s == Padded(k, m) \o Zeros(q - 1)
<1>1. q - 1 \in Nat /\ (q - 1) + 1 = q
  OBVIOUS
<1>2. s \in Seq(Blocks)
  BY <1>1, PaddedType, ZerosType
<1>3. Append(s, ZeroBlock) = Padded(k, m) \o Zeros(q)
  BY <1>1, PaddedType, ZerosGrow
<1>4. Append(p, x) = Append(s, ZeroBlock)
  BY <1>3 DEF Reached
<1> HIDE DEF s
<1>5. p = s
  BY <1>2, <1>4, AppendFact
<1> QED BY <1>5 DEF s, Reached

-----------------------------------------------------------------------------
(* Typing. *)

(* The call in progress is one its context is in the right phase for. *)
CallFits ==
    /\ call.op = "absorb" => phase[call.ctx] = "absorb"
    /\ call.op = "once" => phase[call.ctx] = "once"
    /\ call.op = "squeeze" => phase[call.ctx] = "squeeze"
    /\ call.op \in {"blocks", "part"} => phase[call.ctx] = "blocks"
    /\ call.op = "blocks" => call.want > 0
    /\ call.op = "part" => call.want <= Rate
    /\ \A c \in Contexts : phase[c] = "once" => call.op = "once" /\ call.ctx = c
    /\ \A c \in Contexts : phase[c] \in {"once", "blocks"} => left[c] = 0

(* The two helpers keep the types.                                         *)
LEMMA PermuteType ==
    ASSUME TypeOK, NEW c \in Contexts, NEW b \in Blocks, Permute(c, b)
    PROVE  past' \in [Contexts -> Seq(Blocks)] /\ cur' \in [Contexts -> Blocks]
BY ZeroBlockType DEF TypeOK, Permute

LEMMA WantingType ==
    ASSUME TypeOK, NEW n \in Nat, Wanting(n)
    PROVE  call' \in [op : CallOps, ctx : Contexts, rest : Seq(Bytes), want : Nat]
<1>1. CASE n = 0
  BY <1>1 DEF TypeOK, Wanting, NoCall, CallOps
<1>2. CASE n # 0
  BY <1>2 DEF TypeOK, Wanting
<1> QED BY <1>1, <1>2

(* Initially every variable has its type.                                  *)
LEMMA InitTyped == Init => TypeOK
<1> SUFFICES ASSUME Init PROVE TypeOK
  OBVIOUS
<1>1. 0 \in 0..Rate
  BY RateFact
<1>2. call \in [op : CallOps, ctx : Contexts, rest : Seq(Bytes), want : Nat]
  BY DEF Init, NoCall, CallOps
<1> QED BY <1>1, <1>2, ZeroBlockType DEF Init, TypeOK, Phases, Kinds

CallType == [op : CallOps, ctx : Contexts, rest : Seq(Bytes), want : Nat]

(* Every step keeps the types.                                             *)
LEMMA StepTyped == TypeOK /\ CallFits /\ [Next]_vars => TypeOK'
<1> SUFFICES ASSUME TypeOK, CallFits, [Next]_vars
             PROVE  TypeOK'
  OBVIOUS
<1>0. Rate \in Nat /\ Rate > 0 /\ Digest \in Nat /\ Digest > 0 /\ Digest <= Rate
  BY RateFact
<1>1. ASSUME NEW c \in Contexts, NEW k \in Kinds, IncInit(c, k)
      PROVE  TypeOK'
  <2>1. 0 \in 0..Rate
    BY <1>0
  <2> QED BY <1>1, <2>1, ZeroBlockType DEF TypeOK, IncInit, Phases
<1>2. ASSUME NEW c \in Contexts, NEW m \in Inputs, BeginAbsorb(c, m)
      PROVE  TypeOK'
  <2>1. m \in Seq(Bytes)
    BY Fips202Assumption
  <2>2. msg' \in [Contexts -> Seq(Bytes)]
    BY <1>2, <2>1 DEF TypeOK, BeginAbsorb
  <2>3. call' \in CallType
    BY <1>2, <2>1 DEF BeginAbsorb, CallType, CallOps
  <2> QED BY <1>2, <2>2, <2>3 DEF TypeOK, BeginAbsorb, CallType
<1>3. ASSUME NEW c \in Contexts, AbsorbBlock(c)
      PROVE  TypeOK'
  <2> DEFINE n == Rate - left[c]
             b == Xored(cur[c], left[c], SubSeq(call.rest, 1, n))
  <2>1. left[c] \in Nat /\ left[c] <= Rate /\ n \in Nat /\ n <= Len(call.rest) /\ call.rest \in Seq(Bytes)
        /\ cur[c] \in Blocks
    BY <1>3, <1>0, SMTT(20) DEF TypeOK, AbsorbBlock, Fills
  <2>2. SubSeq(call.rest, 1, n) \in Seq(Bytes) /\ SubSeq(call.rest, n + 1, Len(call.rest)) \in Seq(Bytes)
    BY <2>1
  <2>3. b \in Blocks
    BY <2>1, <2>2, XoredType
  <2>4. past' \in [Contexts -> Seq(Blocks)] /\ cur' \in [Contexts -> Blocks]
    <3>1. Permute(c, b)
      BY <1>3 DEF AbsorbBlock
    <3> HIDE DEF b
    <3> QED BY <2>3, <3>1, PermuteType
  <2>5. left' \in [Contexts -> 0..Rate]
    BY <1>3, <1>0 DEF TypeOK, AbsorbBlock
  <2>6. call' \in CallType
    BY <1>3, <2>2 DEF TypeOK, AbsorbBlock, CallType
  <2> QED BY <1>3, <2>4, <2>5, <2>6 DEF TypeOK, AbsorbBlock, CallType
<1>4. ASSUME NEW c \in Contexts, AbsorbTail(c)
      PROVE  TypeOK'
  <2>1. call.rest \in Seq(Bytes) /\ cur[c] \in Blocks /\ left[c] \in Nat
    BY DEF TypeOK
  <2>2. left[c] + Len(call.rest) \in 0..Rate
    BY <2>1, <1>4, <1>0 DEF AbsorbTail, Fills
  <2>3. Xored(cur[c], left[c], call.rest) \in Blocks
    BY <2>1, XoredType
  <2>4. call' \in CallType
    BY <1>4 DEF AbsorbTail, NoCall, CallType, CallOps
  <2> QED BY <1>4, <2>2, <2>3, <2>4 DEF TypeOK, AbsorbTail, CallType
<1>5. ASSUME NEW c \in Contexts, Finalize(c)
      PROVE  TypeOK'
  <2> DEFINE b == Xored(Xored(cur[c], left[c], <<Suffix(kind[c])>>), Rate - 1, <<Top>>)
  <2>1. b \in Blocks
    <3>1. cur[c] \in Blocks /\ left[c] \in Nat /\ Rate - 1 \in Nat
      BY <1>0 DEF TypeOK
    <3>2. <<Suffix(kind[c])>> \in Seq(Bytes) /\ <<Top>> \in Seq(Bytes)
      BY BytesFact
    <3> QED BY <3>1, <3>2, XoredType
  <2>2. cur' \in [Contexts -> Blocks]
    <3>1. cur' = [cur EXCEPT ![c] = b]
      BY <1>5 DEF Finalize
    <3> HIDE DEF b
    <3> QED BY <2>1, <3>1 DEF TypeOK
  <2>3. call' \in CallType /\ phase' \in [Contexts -> Phases]
    <3>1. CASE kind[c] = "SHA3"
      <4>1. call' = [op |-> "part", ctx |-> c, rest |-> <<>>, want |-> Digest]
        BY <1>5, <3>1 DEF Finalize
      <4>2. call' \in CallType
        BY <4>1, <1>0 DEF CallType, CallOps
      <4>3. phase' \in [Contexts -> Phases]
        BY <1>5, <3>1 DEF Finalize, TypeOK, Phases
      <4> QED BY <4>2, <4>3
    <3>2. CASE kind[c] # "SHA3"
      BY <1>5, <3>2 DEF Finalize, CallType, CallOps, TypeOK, Phases
    <3> QED BY <3>1, <3>2
  <2>4. left' \in [Contexts -> 0..Rate]
    BY <1>5, <1>0 DEF TypeOK, Finalize
  <2> QED BY <1>5, <2>2, <2>3, <2>4 DEF TypeOK, Finalize, CallType
<1>6. ASSUME NEW c \in Contexts, NEW n \in Requests, BeginSqueeze(c, n)
      PROVE  TypeOK'
  <2>1. n \in Nat
    BY Fips202Assumption
  <2> QED BY <1>6, <2>1 DEF TypeOK, BeginSqueeze, CallOps
<1>7. ASSUME NEW c \in Contexts, SqueezeHeld(c)
      PROVE  TypeOK'
  <2> DEFINE n == IF call.want < left[c] THEN call.want ELSE left[c]
             t == Taken(past[c], Rate - left[c], n)
  <2>1. n \in Nat /\ n <= left[c] /\ n <= call.want /\ left[c] \in 0..Rate /\ call.want \in Nat
        /\ past[c] \in Seq(Blocks) /\ out[c] \in Seq(StateBytes)
    BY DEF TypeOK
  <2>2. Rate - left[c] \in Nat /\ (Rate - left[c]) + n <= Rate /\ left[c] - n \in 0..Rate /\ call.want - n \in Nat
    BY <2>1, <1>0
  <2> HIDE DEF n
  <2>3. t \in Seq(StateBytes)
    BY <2>1, <2>2, TakenType
  <2>4. out' = [out EXCEPT ![c] = @ \o t] /\ left' = [left EXCEPT ![c] = @ - n] /\ Wanting(call.want - n)
    BY <1>7 DEF SqueezeHeld, n
  <2> HIDE DEF t
  <2>5. out' \in [Contexts -> Seq(StateBytes)]
    BY <2>1, <2>3, <2>4, ConcatFact DEF TypeOK
  <2>6. left' \in [Contexts -> 0..Rate]
    BY <2>2, <2>4 DEF TypeOK
  <2>7. call' \in CallType
    BY <2>2, <2>4, WantingType DEF CallType
  <2> QED BY <1>7, <2>5, <2>6, <2>7 DEF TypeOK, SqueezeHeld, CallType
<1>8. ASSUME NEW c \in Contexts, SqueezeBlock(c)
      PROVE  TypeOK'
  <2> DEFINE n == IF call.want < Rate THEN call.want ELSE Rate
             h == Append(past[c], cur[c])
             t == Taken(h, 0, n)
  <2>1. n \in Nat /\ n <= Rate /\ n <= call.want /\ call.want \in Nat
        /\ past[c] \in Seq(Blocks) /\ cur[c] \in Blocks /\ out[c] \in Seq(StateBytes)
    BY <1>0 DEF TypeOK
  <2>2. 0 + n <= Rate /\ Rate - n \in 0..Rate /\ call.want - n \in Nat /\ h \in Seq(Blocks)
    BY <2>1, <1>0
  <2> HIDE DEF n, h
  <2>3. t \in Seq(StateBytes)
    BY <2>1, <2>2, TakenType
  <2>4. out' = [out EXCEPT ![c] = @ \o t] /\ left' = [left EXCEPT ![c] = Rate - n]
        /\ Wanting(call.want - n) /\ Permute(c, cur[c])
    BY <1>8 DEF SqueezeBlock, n, h
  <2> HIDE DEF t
  <2>5. out' \in [Contexts -> Seq(StateBytes)]
    BY <2>1, <2>3, <2>4, ConcatFact DEF TypeOK
  <2>6. left' \in [Contexts -> 0..Rate]
    BY <2>2, <2>4 DEF TypeOK
  <2>7. call' \in CallType
    BY <2>2, <2>4, WantingType DEF CallType
  <2>8. past' \in [Contexts -> Seq(Blocks)] /\ cur' \in [Contexts -> Blocks]
    BY <2>1, <2>4, PermuteType
  <2> QED BY <1>8, <2>5, <2>6, <2>7, <2>8 DEF TypeOK, SqueezeBlock, CallType
<1>9. ASSUME NEW c \in Contexts, NEW k \in Kinds, NEW m \in Inputs, BeginOnce(c, k, m)
      PROVE  TypeOK'
  <2>1. m \in Seq(Bytes)
    BY Fips202Assumption
  <2>2. 0 \in 0..Rate
    BY <1>0
  <2>3. call' \in CallType
    BY <1>9, <2>1 DEF BeginOnce, CallType, CallOps
  <2> QED BY <1>9, <2>1, <2>2, <2>3, ZeroBlockType DEF TypeOK, BeginOnce, Phases, CallType
<1>10. ASSUME NEW c \in Contexts, OnceBlock(c)
       PROVE  TypeOK'
  <2> DEFINE b == Xored(cur[c], 0, SubSeq(call.rest, 1, Rate))
  <2>1. call.rest \in Seq(Bytes) /\ Rate <= Len(call.rest) /\ cur[c] \in Blocks
    BY <1>10, <1>0 DEF TypeOK, OnceBlock
  <2>2. SubSeq(call.rest, 1, Rate) \in Seq(Bytes) /\ SubSeq(call.rest, Rate + 1, Len(call.rest)) \in Seq(Bytes)
    BY <2>1, <1>0
  <2>3. b \in Blocks
    BY <2>1, <2>2, XoredType
  <2>4. past' \in [Contexts -> Seq(Blocks)] /\ cur' \in [Contexts -> Blocks]
    <3>1. Permute(c, b)
      BY <1>10 DEF OnceBlock
    <3> HIDE DEF b
    <3> QED BY <2>3, <3>1, PermuteType
  <2>5. call' \in CallType
    BY <1>10, <2>2 DEF TypeOK, OnceBlock, CallType
  <2> QED BY <1>10, <2>4, <2>5 DEF TypeOK, OnceBlock, CallType
<1>11. ASSUME NEW c \in Contexts, OnceTail(c)
       PROVE  TypeOK'
  <2> DEFINE text == Append(call.rest, Suffix(kind[c]))
             t == [i \in Offsets |-> (IF i < Len(text) THEN text[i + 1] ELSE Zero)
                                     \cup (IF i = Rate - 1 THEN Top ELSE Zero)]
             b == [i \in Offsets |-> Xor(cur[c][i], t[i])]
  <2>1. b \in Blocks
    <3>1. text \in Seq(Bytes)
      BY BytesFact DEF TypeOK
    <3> HIDE DEF text
    <3>2. ASSUME NEW i \in Offsets
          PROVE  t[i] \in Bytes
      <4>1. i < Len(text) => text[i + 1] \in Bytes
        BY <3>1, RateFact
      <4>2. \A x, y \in Bytes : x \cup y \in Bytes
        BY DEF Bytes
      <4> QED BY <4>1, <4>2, BytesFact
    <3> HIDE DEF t
    <3>3. \A i \in Offsets : cur[c][i] \in Bytes
      BY DEF TypeOK, Blocks
    <3> QED BY <3>2, <3>3, XorType DEF Blocks
  <2>2. cur' = [cur EXCEPT ![c] = b]
    BY <1>11 DEF OnceTail
  <2> HIDE DEF b
  <2>3. cur' \in [Contexts -> Blocks]
    BY <2>1, <2>2 DEF TypeOK
  <2>4. call' \in CallType
    BY <1>11, <1>0 DEF OnceTail, CallType, NoCall, CallOps
  <2>5. phase' \in [Contexts -> Phases]
    BY <1>11 DEF OnceTail, TypeOK, Phases
  <2> QED BY <1>11, <2>3, <2>4, <2>5 DEF TypeOK, OnceTail, CallType
<1>12. ASSUME NEW c \in Contexts, NEW n \in Requests, BeginBlocks(c, n)
       PROVE  TypeOK'
  <2>1. n \in Nat
    BY Fips202Assumption
  <2>2. call' \in CallType
    BY <1>12, <2>1 DEF BeginBlocks, CallType, CallOps
  <2> QED BY <1>12, <2>2 DEF TypeOK, BeginBlocks, CallType
<1>13. ASSUME NEW c \in Contexts, WholeBlock(c)
       PROVE  TypeOK'
  <2> DEFINE h == Append(past[c], cur[c])
             t == Taken(h, 0, Rate)
  <2>1. call.want \in Nat /\ past[c] \in Seq(Blocks) /\ cur[c] \in Blocks /\ out[c] \in Seq(StateBytes)
    BY DEF TypeOK
  <2>2. h \in Seq(Blocks) /\ 0 + Rate <= Rate
    BY <2>1, <1>0
  <2>3. call.want - 1 \in Nat
    BY <2>1, <1>13 DEF CallFits, WholeBlock, Running
  <2> HIDE DEF h
  <2>4. t \in Seq(StateBytes)
    BY <2>2, <1>0, TakenType
  <2>5. out' = [out EXCEPT ![c] = @ \o t] /\ Wanting(call.want - 1) /\ Permute(c, cur[c])
    BY <1>13 DEF WholeBlock, h
  <2> HIDE DEF t
  <2>6. out' \in [Contexts -> Seq(StateBytes)]
    BY <2>1, <2>4, <2>5, ConcatFact DEF TypeOK
  <2>7. call' \in CallType
    BY <2>3, <2>5, WantingType DEF CallType
  <2>8. past' \in [Contexts -> Seq(Blocks)] /\ cur' \in [Contexts -> Blocks]
    BY <2>1, <2>5, PermuteType
  <2> QED BY <1>13, <2>6, <2>7, <2>8 DEF TypeOK, WholeBlock, CallType
<1>14. ASSUME NEW c \in Contexts, NEW n \in Requests, BeginPart(c, n)
       PROVE  TypeOK'
  <2>1. n \in Nat
    BY Fips202Assumption
  <2>2. call' \in CallType
    BY <1>14, <2>1 DEF BeginPart, CallType, CallOps
  <2> QED BY <1>14, <2>2 DEF TypeOK, BeginPart, CallType
<1>15. ASSUME NEW c \in Contexts, PartBlock(c)
       PROVE  TypeOK'
  <2> DEFINE h == Append(past[c], cur[c])
             t == Taken(h, 0, call.want)
  <2>1. call.want \in Nat /\ past[c] \in Seq(Blocks) /\ cur[c] \in Blocks /\ out[c] \in Seq(StateBytes)
    BY DEF TypeOK
  <2>2. h \in Seq(Blocks)
    BY <2>1
  <2>3. 0 + call.want <= Rate
    BY <2>1, <1>15 DEF CallFits, PartBlock, Running
  <2> HIDE DEF h
  <2>4. t \in Seq(StateBytes)
    BY <2>1, <2>2, <2>3, TakenType
  <2>5. out' = [out EXCEPT ![c] = @ \o t] /\ Permute(c, cur[c])
    BY <1>15 DEF PartBlock, h
  <2> HIDE DEF t
  <2>6. out' \in [Contexts -> Seq(StateBytes)]
    BY <2>1, <2>4, <2>5, ConcatFact DEF TypeOK
  <2>7. call' \in CallType
    BY <1>15 DEF PartBlock, NoCall, CallType, CallOps
  <2>8. past' \in [Contexts -> Seq(Blocks)] /\ cur' \in [Contexts -> Blocks]
    BY <2>1, <2>5, PermuteType
  <2>9. phase' \in [Contexts -> Phases]
    BY <1>15 DEF PartBlock, TypeOK, Phases
  <2> QED BY <1>15, <2>6, <2>7, <2>8, <2>9 DEF TypeOK, PartBlock, CallType
<1>16. ASSUME NEW c \in Contexts, NEW d \in Contexts, Clone(c, d)
       PROVE  TypeOK'
  BY <1>16 DEF TypeOK, Clone
<1>17. ASSUME NEW c \in Contexts, Release(c)
       PROVE  TypeOK'
  BY <1>17 DEF TypeOK, Release, Phases
<1>18. CASE UNCHANGED vars
  BY <1>18 DEF TypeOK, vars
<1> QED BY <1>1, <1>2, <1>3, <1>4, <1>5, <1>6, <1>7, <1>8, <1>9, <1>10, <1>11, <1>12, <1>13,
           <1>14, <1>15, <1>16, <1>17, <1>18 DEF Next

-----------------------------------------------------------------------------
(* The protocol of the calls. *)

(* No call is in progress initially.                                       *)
LEMMA CallFitsInit == Init => CallFits
BY DEF Init, CallFits, NoCall

(* A step leaves a call that fits its context, or none.                    *)
LEMMA CallFitsStep == TypeOK /\ CallFits /\ [Next]_vars => CallFits'
<1> SUFFICES ASSUME TypeOK, CallFits, [Next]_vars
             PROVE  CallFits'
  OBVIOUS
<1> USE DEF TypeOK
<1>1. ASSUME NEW c \in Contexts, NEW k \in Kinds, IncInit(c, k)
      PROVE  CallFits'
  BY <1>1 DEF CallFits, IncInit, Idle
<1>2. ASSUME NEW c \in Contexts, NEW m \in Inputs, BeginAbsorb(c, m)
      PROVE  CallFits'
  BY <1>2 DEF CallFits, BeginAbsorb, Idle
<1>3. ASSUME NEW c \in Contexts, AbsorbBlock(c)
      PROVE  CallFits'
  BY <1>3 DEF CallFits, AbsorbBlock, Running
<1>4. ASSUME NEW c \in Contexts, AbsorbTail(c)
      PROVE  CallFits'
  BY <1>4 DEF CallFits, AbsorbTail, Running, NoCall
<1>5. ASSUME NEW c \in Contexts, Finalize(c)
      PROVE  CallFits'
  BY <1>5, RateFact DEF CallFits, Finalize, Idle
<1>6. ASSUME NEW c \in Contexts, NEW n \in Requests, BeginSqueeze(c, n)
      PROVE  CallFits'
  BY <1>6 DEF CallFits, BeginSqueeze, Idle
<1>7. ASSUME NEW c \in Contexts, SqueezeHeld(c)
      PROVE  CallFits'
  BY <1>7 DEF CallFits, SqueezeHeld, Running, Wanting, NoCall
<1>8. ASSUME NEW c \in Contexts, SqueezeBlock(c)
      PROVE  CallFits'
  BY <1>8 DEF CallFits, SqueezeBlock, Running, Wanting, NoCall
<1>9. ASSUME NEW c \in Contexts, NEW k \in Kinds, NEW m \in Inputs, BeginOnce(c, k, m)
      PROVE  CallFits'
  BY <1>9 DEF CallFits, BeginOnce, Idle
<1>10. ASSUME NEW c \in Contexts, OnceBlock(c)
       PROVE  CallFits'
  BY <1>10 DEF CallFits, OnceBlock, Running
<1>11. ASSUME NEW c \in Contexts, OnceTail(c)
       PROVE  CallFits'
  BY <1>11, RateFact DEF CallFits, OnceTail, Running, NoCall
<1>12. ASSUME NEW c \in Contexts, NEW n \in Requests, BeginBlocks(c, n)
       PROVE  CallFits'
  BY <1>12, Fips202Assumption DEF CallFits, BeginBlocks, Idle
<1>13. ASSUME NEW c \in Contexts, WholeBlock(c)
       PROVE  CallFits'
  BY <1>13 DEF CallFits, WholeBlock, Running, Wanting, NoCall
<1>14. ASSUME NEW c \in Contexts, NEW n \in Requests, BeginPart(c, n)
       PROVE  CallFits'
  BY <1>14, RateFact, Fips202Assumption DEF CallFits, BeginPart, Idle
<1>15. ASSUME NEW c \in Contexts, PartBlock(c)
       PROVE  CallFits'
  BY <1>15 DEF CallFits, PartBlock, Running, NoCall
<1>16. ASSUME NEW c \in Contexts, NEW d \in Contexts, Clone(c, d)
       PROVE  CallFits'
  BY <1>16 DEF CallFits, Clone, Idle
<1>17. ASSUME NEW c \in Contexts, Release(c)
       PROVE  CallFits'
  BY <1>17 DEF CallFits, Release, Idle
<1>18. CASE UNCHANGED vars
  BY <1>18 DEF CallFits, vars
<1> QED BY <1>1, <1>2, <1>3, <1>4, <1>5, <1>6, <1>7, <1>8, <1>9, <1>10, <1>11, <1>12, <1>13,
           <1>14, <1>15, <1>16, <1>17, <1>18 DEF Next

-----------------------------------------------------------------------------
(* What a context holds. *)

(* The part of the message a running call has not absorbed yet. *)
Waiting(c) == IF call.ctx = c /\ call.op \in {"absorb", "once"} THEN call.rest ELSE <<>>

(* Before finalization: the state holds exactly what was absorbed. *)
AbsorbedAll(c) ==
    Absorbed(past[c], cur[c], left[c], msg[c], Waiting(c)) /\ out[c] = <<>>

(* After it: q blocks have been squeezed, and all but "left" bytes of them  *)
(* handed out.                                                              *)
HandedOut(c) == \E q \in Nat :
    /\ Reached(Append(past[c], cur[c]), kind[c], msg[c], q)
    /\ Len(out[c]) + left[c] = q * Rate
    /\ Streams(out[c], kind[c], msg[c])

ContextOK(c) ==
    /\ phase[c] \in {"absorb", "once"} => AbsorbedAll(c)
    /\ phase[c] \in {"squeeze", "blocks"} => HandedOut(c)

ContextsOK == \A c \in Contexts : ContextOK(c)

Inv == TypeOK /\ CallFits /\ ContextsOK

(* Nothing but context c changes. *)
Elsewhere(c) == \A d \in Contexts \ {c} :
    /\ phase'[d] = phase[d] /\ kind'[d] = kind[d] /\ past'[d] = past[d] /\ cur'[d] = cur[d]
    /\ left'[d] = left[d] /\ msg'[d] = msg[d] /\ out'[d] = out[d]
    /\ Waiting(d)' = Waiting(d)

(* It suffices to look at the context that changes.                        *)
LEMMA OthersOK ==
    ASSUME ContextsOK, NEW c \in Contexts, Elsewhere(c), ContextOK(c)'
    PROVE  ContextsOK'
<1> SUFFICES ASSUME NEW d \in Contexts PROVE ContextOK(d)'
  BY DEF ContextsOK
<1>1. CASE d # c
  BY <1>1 DEF ContextsOK, ContextOK, AbsorbedAll, HandedOut, Elsewhere
<1> QED BY <1>1

(* Steps of the incremental interface up to finalization.                  *)
LEMMA IncInitOK ==
    ASSUME TypeOK, CallFits, NEW c \in Contexts, NEW k \in Kinds, IncInit(c, k)
    PROVE  Elsewhere(c) /\ ContextOK(c)'
<1>1. Elsewhere(c)
  BY DEF IncInit, Elsewhere, TypeOK, Waiting
<1>2. phase'[c] = "absorb" /\ past'[c] = <<>> /\ cur'[c] = ZeroBlock /\ left'[c] = 0 /\ msg'[c] = <<>>
      /\ out'[c] = <<>> /\ Waiting(c)' = <<>>
  BY DEF IncInit, TypeOK, Waiting, Idle
<1>3. Absorbed(<<>>, ZeroBlock, 0, <<>>, <<>>)
  <2>1. <<>> \in Seq(Bytes)
    OBVIOUS
  <2> QED BY <2>1, AbsorbStart
<1> QED BY <1>1, <1>2, <1>3 DEF ContextOK, AbsorbedAll

LEMMA BeginAbsorbOK ==
    ASSUME TypeOK, CallFits, NEW c \in Contexts, ContextOK(c), NEW m \in Inputs, BeginAbsorb(c, m)
    PROVE  Elsewhere(c) /\ ContextOK(c)'
<1>1. Elsewhere(c)
  BY DEF BeginAbsorb, Elsewhere, TypeOK, Waiting, Idle
<1>2. m \in Seq(Bytes)
  BY Fips202Assumption
<1>3. phase[c] = "absorb" /\ phase'[c] = "absorb" /\ past'[c] = past[c] /\ cur'[c] = cur[c]
      /\ left'[c] = left[c] /\ msg'[c] = msg[c] \o m /\ out'[c] = out[c]
      /\ Waiting(c) = <<>> /\ Waiting(c)' = m
  BY DEF BeginAbsorb, TypeOK, Waiting, Idle
<1>4. past[c] \in Seq(Blocks) /\ cur[c] \in Blocks /\ left[c] \in Nat /\ msg[c] \in Seq(Bytes)
  BY DEF TypeOK
<1>5. Absorbed(past[c], cur[c], left[c], msg[c], <<>>) /\ out[c] = <<>>
  BY <1>3 DEF ContextOK, AbsorbedAll
<1>6. Absorbed(past[c], cur[c], left[c], msg[c] \o m, m)
  BY <1>2, <1>4, <1>5, AbsorbMore
<1> QED BY <1>1, <1>3, <1>5, <1>6 DEF ContextOK, AbsorbedAll

LEMMA AbsorbBlockOK ==
    ASSUME TypeOK, CallFits, NEW c \in Contexts, ContextOK(c), AbsorbBlock(c)
    PROVE  Elsewhere(c) /\ ContextOK(c)'
<1>1. Elsewhere(c)
  BY DEF AbsorbBlock, Running, Permute, Elsewhere, TypeOK, Waiting
<1> DEFINE n == Rate - left[c]
           b == Xored(cur[c], left[c], SubSeq(call.rest, 1, n))
           r == SubSeq(call.rest, n + 1, Len(call.rest))
<1>2. phase[c] = "absorb" /\ phase'[c] = "absorb" /\ past'[c] = Append(past[c], b) /\ cur'[c] = ZeroBlock
      /\ left'[c] = 0 /\ msg'[c] = msg[c] /\ out'[c] = out[c]
      /\ Waiting(c) = call.rest /\ Waiting(c)' = r /\ Len(call.rest) + left[c] >= Rate
  BY DEF AbsorbBlock, Running, Permute, TypeOK, Waiting, CallFits, Fills
<1>3. past[c] \in Seq(Blocks) /\ cur[c] \in Blocks /\ left[c] \in Nat /\ msg[c] \in Seq(Bytes)
      /\ call.rest \in Seq(Bytes)
  BY DEF TypeOK
<1>4. Absorbed(past[c], cur[c], left[c], msg[c], call.rest) /\ out[c] = <<>>
  BY <1>2 DEF ContextOK, AbsorbedAll
<1>5. Absorbed(Append(past[c], b), ZeroBlock, 0, msg[c], r)
  BY <1>2, <1>3, <1>4, AbsorbWhole
<1> HIDE DEF b, r
<1> QED BY <1>1, <1>2, <1>4, <1>5 DEF ContextOK, AbsorbedAll

LEMMA AbsorbTailOK ==
    ASSUME TypeOK, CallFits, NEW c \in Contexts, ContextOK(c), AbsorbTail(c)
    PROVE  Elsewhere(c) /\ ContextOK(c)'
<1>1. Elsewhere(c)
  BY DEF AbsorbTail, Running, Elsewhere, TypeOK, Waiting, NoCall
<1>2. phase[c] = "absorb" /\ phase'[c] = "absorb" /\ past'[c] = past[c]
      /\ cur'[c] = Xored(cur[c], left[c], call.rest)
      /\ left'[c] = left[c] + Len(call.rest) /\ msg'[c] = msg[c] /\ out'[c] = out[c]
      /\ Waiting(c) = call.rest /\ Waiting(c)' = <<>>
  BY DEF AbsorbTail, Running, TypeOK, Waiting, CallFits, NoCall
<1>3. past[c] \in Seq(Blocks) /\ cur[c] \in Blocks /\ left[c] \in Nat /\ msg[c] \in Seq(Bytes)
      /\ call.rest \in Seq(Bytes)
  BY DEF TypeOK
<1>4. Len(call.rest) + left[c] < Rate
  BY <1>3, RateFact DEF AbsorbTail, Fills
<1>5. Absorbed(past[c], cur[c], left[c], msg[c], call.rest) /\ out[c] = <<>>
  BY <1>2 DEF ContextOK, AbsorbedAll
<1>6. Absorbed(past[c], Xored(cur[c], left[c], call.rest), left[c] + Len(call.rest), msg[c], <<>>)
  BY <1>3, <1>4, <1>5, AbsorbRest
<1> QED BY <1>1, <1>2, <1>5, <1>6 DEF ContextOK, AbsorbedAll

(* A finalized state is one from which nothing has been squeezed. *)
LEMMA PaddedIsReached ==
    ASSUME NEW k, NEW m \in Seq(Bytes)
    PROVE  Reached(Padded(k, m), k, m, 0)
<1>1. Zeros(0) = <<>>
  BY DEF Zeros
<1>2. Padded(k, m) \o <<>> = Padded(k, m)
  BY PaddedType
<1> QED BY <1>1, <1>2 DEF Reached

(* A context fresh from its padding has handed out nothing.                *)
LEMMA NothingSqueezed ==
    ASSUME TypeOK, NEW c \in Contexts, NEW k, NEW m \in Seq(Bytes),
           phase'[c] \in {"squeeze", "blocks"}, Append(past'[c], cur'[c]) = Padded(k, m),
           kind'[c] = k, msg'[c] = m, left'[c] = 0, out'[c] = <<>>
    PROVE  ContextOK(c)'
<1>1. Reached(Append(past'[c], cur'[c]), k, m, 0)
  BY PaddedIsReached
<1>2. Len(out'[c]) + left'[c] = 0 * Rate
  BY RateFact
<1>3. Streams(out'[c], k, m)
  BY DEF Streams
<1>4. HandedOut(c)'
  BY <1>1, <1>2, <1>3 DEF HandedOut
<1> QED BY <1>4 DEF ContextOK

(* keccak_inc_finalize leaves the padded message.                          *)
LEMMA FinalizeOK ==
    ASSUME TypeOK, CallFits, NEW c \in Contexts, ContextOK(c), Finalize(c)
    PROVE  Elsewhere(c) /\ ContextOK(c)'
<1>1. Elsewhere(c)
  <2>1. CASE kind[c] = "SHA3"
    BY <2>1 DEF Finalize, Idle, Elsewhere, TypeOK, Waiting
  <2>2. CASE kind[c] # "SHA3"
    BY <2>2 DEF Finalize, Idle, Elsewhere, TypeOK, Waiting
  <2> QED BY <2>1, <2>2
<1> DEFINE b == Xored(Xored(cur[c], left[c], <<Suffix(kind[c])>>), Rate - 1, <<Top>>)
<1>2. phase[c] = "absorb" /\ past'[c] = past[c]
      /\ cur'[c] = b /\ left'[c] = 0 /\ msg'[c] = msg[c] /\ kind'[c] = kind[c] /\ out'[c] = out[c]
      /\ Waiting(c) = <<>>
  BY DEF Finalize, Idle, TypeOK, Waiting
<1>3. phase'[c] \in {"squeeze", "blocks"}
  BY DEF Finalize, TypeOK
<1>4. past[c] \in Seq(Blocks) /\ cur[c] \in Blocks /\ left[c] \in Nat /\ msg[c] \in Seq(Bytes)
  BY DEF TypeOK
<1>5. Absorbed(past[c], cur[c], left[c], msg[c], <<>>) /\ out[c] = <<>>
  BY <1>2 DEF ContextOK, AbsorbedAll
<1>6. Append(past[c], b) = Padded(kind[c], msg[c])
  BY <1>4, <1>5, FinishIncremental
<1> HIDE DEF b
<1>7. ContextOK(c)'
  BY <1>2, <1>3, <1>4, <1>5, <1>6, NothingSqueezed
<1> QED BY <1>1, <1>7

(* The one-shot functions absorb the same blocks.                          *)
LEMMA BeginOnceOK ==
    ASSUME TypeOK, CallFits, NEW c \in Contexts, NEW k \in Kinds, NEW m \in Inputs, BeginOnce(c, k, m)
    PROVE  Elsewhere(c) /\ ContextOK(c)'
<1>1. Elsewhere(c)
  BY DEF BeginOnce, Idle, Elsewhere, TypeOK, Waiting
<1>2. m \in Seq(Bytes)
  BY Fips202Assumption
<1>3. phase'[c] = "once" /\ past'[c] = <<>> /\ cur'[c] = ZeroBlock /\ left'[c] = 0 /\ msg'[c] = m
      /\ out'[c] = <<>> /\ Waiting(c)' = m
  BY DEF BeginOnce, TypeOK, Waiting
<1>4. Absorbed(<<>>, ZeroBlock, 0, m, m)
  BY <1>2, AbsorbStart
<1> QED BY <1>1, <1>3, <1>4 DEF ContextOK, AbsorbedAll

LEMMA OnceBlockOK ==
    ASSUME TypeOK, CallFits, NEW c \in Contexts, ContextOK(c), OnceBlock(c)
    PROVE  Elsewhere(c) /\ ContextOK(c)'
<1>1. Elsewhere(c)
  BY DEF OnceBlock, Running, Permute, Elsewhere, TypeOK, Waiting
<1> DEFINE b == Xored(cur[c], 0, SubSeq(call.rest, 1, Rate))
           r == SubSeq(call.rest, Rate + 1, Len(call.rest))
<1>2. phase[c] = "once" /\ phase'[c] = "once" /\ past'[c] = Append(past[c], b) /\ cur'[c] = ZeroBlock
      /\ left[c] = 0 /\ left'[c] = 0 /\ msg'[c] = msg[c] /\ out'[c] = out[c]
      /\ Waiting(c) = call.rest /\ Waiting(c)' = r /\ Len(call.rest) >= Rate
  BY DEF OnceBlock, Running, Permute, TypeOK, Waiting, CallFits
<1>3. past[c] \in Seq(Blocks) /\ cur[c] \in Blocks /\ msg[c] \in Seq(Bytes) /\ call.rest \in Seq(Bytes)
  BY DEF TypeOK
<1>4. Absorbed(past[c], cur[c], 0, msg[c], call.rest) /\ out[c] = <<>>
  BY <1>2 DEF ContextOK, AbsorbedAll
<1>5. Rate - 0 = Rate /\ Len(call.rest) + 0 >= Rate
  BY <1>2, <1>3, RateFact
<1>6. Absorbed(Append(past[c], b), ZeroBlock, 0, msg[c], r)
  <2>1. LET n == Rate - 0 IN
        Absorbed(Append(past[c], Xored(cur[c], 0, SubSeq(call.rest, 1, n))), ZeroBlock, 0,
                 msg[c], SubSeq(call.rest, n + 1, Len(call.rest)))
    BY <1>3, <1>4, <1>5, AbsorbWhole
  <2> QED BY <2>1, <1>5
<1> HIDE DEF b, r
<1> QED BY <1>1, <1>2, <1>4, <1>6 DEF ContextOK, AbsorbedAll

LEMMA OnceTailOK ==
    ASSUME TypeOK, CallFits, NEW c \in Contexts, ContextOK(c), OnceTail(c)
    PROVE  Elsewhere(c) /\ ContextOK(c)'
<1>1. Elsewhere(c)
  <2>1. CASE kind[c] = "SHA3"
    BY <2>1 DEF OnceTail, Running, Elsewhere, TypeOK, Waiting, NoCall
  <2>2. CASE kind[c] # "SHA3"
    BY <2>2 DEF OnceTail, Running, Elsewhere, TypeOK, Waiting, NoCall
  <2> QED BY <2>1, <2>2
<1> DEFINE text == Append(call.rest, Suffix(kind[c]))
           t == [i \in Offsets |-> (IF i < Len(text) THEN text[i + 1] ELSE Zero)
                                   \cup (IF i = Rate - 1 THEN Top ELSE Zero)]
           b == [i \in Offsets |-> Xor(cur[c][i], t[i])]
<1>2. phase[c] = "once" /\ phase'[c] = "blocks" /\ past'[c] = past[c]
      /\ left[c] = 0 /\ left'[c] = 0 /\ msg'[c] = msg[c] /\ kind'[c] = kind[c] /\ out'[c] = out[c]
      /\ Waiting(c) = call.rest /\ Len(call.rest) < Rate
  BY DEF OnceTail, Running, TypeOK, Waiting, CallFits
<1>3. cur'[c] = b
  BY DEF OnceTail, TypeOK
<1>4. past[c] \in Seq(Blocks) /\ cur[c] \in Blocks /\ msg[c] \in Seq(Bytes) /\ call.rest \in Seq(Bytes)
  BY DEF TypeOK
<1>5. Absorbed(past[c], cur[c], 0, msg[c], call.rest) /\ out[c] = <<>>
  BY <1>2 DEF ContextOK, AbsorbedAll
<1>6. Append(past[c], b) = Padded(kind[c], msg[c])
  BY <1>2, <1>4, <1>5, FinishOnce
<1> HIDE DEF b
<1>7. ContextOK(c)'
  BY <1>2, <1>3, <1>4, <1>5, <1>6, NothingSqueezed
<1> QED BY <1>1, <1>7

-----------------------------------------------------------------------------
(* Squeezing. *)

(* A further block is permuted and n bytes of it are handed out. *)
LEMMA HandsOutBlock ==
    ASSUME TypeOK, NEW c \in Contexts, HandedOut(c), left[c] = 0, NEW n \in 0..Rate
    PROVE  LET h == Append(past[c], cur[c])
               o == out[c] \o Taken(h, 0, n)
           IN  /\ Taken(h, 0, n) \in Seq(StateBytes)
               /\ Streams(o, kind[c], msg[c])
               /\ \E q \in Nat : /\ Reached(Append(h, ZeroBlock), kind[c], msg[c], q)
                                 /\ Len(o) + (Rate - n) = q * Rate
<1> DEFINE h == Append(past[c], cur[c])
           t == Taken(h, 0, n)
           o == out[c] \o t
<1>1. PICK q \in Nat : /\ Reached(h, kind[c], msg[c], q)
                       /\ Len(out[c]) + left[c] = q * Rate
                       /\ Streams(out[c], kind[c], msg[c])
  BY DEF HandedOut
<1>2. h \in Seq(Blocks) /\ out[c] \in Seq(StateBytes) /\ msg[c] \in Seq(Bytes) /\ n \in Nat /\ Rate \in Nat
      /\ 0 + n <= Rate
  BY RateFact DEF TypeOK
<1> HIDE DEF h
<1>3. Len(out[c]) = q * Rate + 0
  <2>1. Len(out[c]) \in Nat /\ q * Rate \in Nat
    BY <1>2
  <2> QED BY <1>1, <2>1
<1>4. t \in Seq(StateBytes) /\ Len(t) = n
  BY <1>2, TakenType
<1>5. Len(o) = Len(out[c]) + n /\ Streams(o, kind[c], msg[c])
  <2>1. 0 \in Nat
    OBVIOUS
  <2>2. Streams(out[c] \o Taken(h, 0, n), kind[c], msg[c])
    BY <1>1, <1>2, <1>3, <2>1, TakeNext, Zenon
  <2> HIDE DEF t
  <2>3. Len(o) = Len(out[c]) + n
    BY <1>2, <1>4, ConcatFact
  <2> QED BY <2>2, <2>3 DEF t
<1>6. Reached(Append(h, ZeroBlock), kind[c], msg[c], q + 1)
  BY <1>1, <1>2, ReachNext
<1>7. Len(o) + (Rate - n) = (q + 1) * Rate
  <2> HIDE DEF o
  <2>1. (q + 1) * Rate = q * Rate + Rate /\ q * Rate \in Nat
    BY <1>2
  <2> QED BY <2>1, <1>2, <1>3, <1>5
<1>8. q + 1 \in Nat
  OBVIOUS
<1> HIDE DEF o, t
<1>9. \E x \in Nat : /\ Reached(Append(h, ZeroBlock), kind[c], msg[c], x)
                    /\ Len(o) + (Rate - n) = x * Rate
  BY <1>6, <1>7, <1>8
<1> QED BY <1>4, <1>5, <1>9 DEF h, o, t

(* Where the bytes held back lie in the stream.                            *)
LEMMA HeldFact ==
    ASSUME NEW a \in Nat, NEW l \in Nat, NEW q \in Nat, q > 0, a + l = q * Rate
    PROVE  a = (q - 1) * Rate + (Rate - l)
<1>1. q * Rate = (q - 1) * Rate + Rate /\ (q - 1) * Rate \in Nat
  BY RateFact
<1> QED BY <1>1, RateFact

(* Bytes held back from the last block are handed out. *)
LEMMA HandsOutHeld ==
    ASSUME TypeOK, NEW c \in Contexts, HandedOut(c), left[c] > 0, NEW n \in 0..left[c]
    PROVE  LET o == out[c] \o Taken(past[c], Rate - left[c], n)
           IN  /\ Taken(past[c], Rate - left[c], n) \in Seq(StateBytes)
               /\ Streams(o, kind[c], msg[c])
               /\ \E q \in Nat : /\ Reached(Append(past[c], cur[c]), kind[c], msg[c], q)
                                 /\ Len(o) + (left[c] - n) = q * Rate
<1> DEFINE f == Rate - left[c]
           t == Taken(past[c], f, n)
           o == out[c] \o t
<1>1. PICK q \in Nat : /\ Reached(Append(past[c], cur[c]), kind[c], msg[c], q)
                       /\ Len(out[c]) + left[c] = q * Rate
                       /\ Streams(out[c], kind[c], msg[c])
  BY DEF HandedOut
<1>2. past[c] \in Seq(Blocks) /\ out[c] \in Seq(StateBytes) /\ msg[c] \in Seq(Bytes) /\ Rate \in Nat
      /\ left[c] \in Nat /\ left[c] <= Rate /\ n \in Nat /\ n <= left[c] /\ Len(out[c]) \in Nat
  BY RateFact DEF TypeOK
<1>3. f \in Nat /\ f + n <= Rate
  BY <1>2
<1>4. q > 0
  <2>1. q = 0 => q * Rate = 0
    BY <1>2
  <2> QED BY <2>1, <1>1, <1>2
<1>5. q - 1 \in Nat /\ Reached(past[c], kind[c], msg[c], q - 1)
  BY <1>1, <1>2, <1>4, ReachBefore
<1>6. Len(out[c]) = (q - 1) * Rate + f
  BY <1>1, <1>2, <1>4, HeldFact
<1> HIDE DEF f
<1>7. t \in Seq(StateBytes) /\ Len(t) = n
  BY <1>2, <1>3, TakenType
<1>8. Len(o) = Len(out[c]) + n /\ Streams(o, kind[c], msg[c])
  <2>1. Streams(out[c] \o Taken(past[c], f, n), kind[c], msg[c])
    BY <1>1, <1>2, <1>3, <1>5, <1>6, TakeNext, Zenon
  <2> HIDE DEF t
  <2>2. Len(o) = Len(out[c]) + n
    BY <1>2, <1>7, ConcatFact
  <2> QED BY <2>1, <2>2 DEF t
<1>9. Len(o) + (left[c] - n) = q * Rate
  <2> HIDE DEF o
  <2> QED BY <1>1, <1>2, <1>8
<1> QED BY <1>1, <1>7, <1>8, <1>9 DEF f

(* Every step that hands out bytes hands out the next ones.                *)
LEMMA SqueezeHeldOK ==
    ASSUME TypeOK, CallFits, NEW c \in Contexts, ContextOK(c), SqueezeHeld(c)
    PROVE  /\ Elsewhere(c)
           /\ ContextOK(c)'
           /\ \E t \in Seq(StateBytes) : out'[c] = out[c] \o t
           /\ Streams(out'[c], kind[c], msg[c])
<1>1. Elsewhere(c)
  BY DEF SqueezeHeld, Running, Elsewhere, TypeOK, Waiting, Wanting, NoCall
<1> DEFINE n == IF call.want < left[c] THEN call.want ELSE left[c]
           t == Taken(past[c], Rate - left[c], n)
<1>2. phase[c] = "squeeze" /\ phase'[c] = "squeeze" /\ past'[c] = past[c] /\ cur'[c] = cur[c]
      /\ left'[c] = left[c] - n /\ msg'[c] = msg[c] /\ kind'[c] = kind[c] /\ out'[c] = out[c] \o t
      /\ left[c] > 0
  BY DEF SqueezeHeld, Running, TypeOK, CallFits
<1>3. n \in 0..left[c]
  BY DEF TypeOK
<1>4. HandedOut(c)
  BY <1>2 DEF ContextOK
<1> HIDE DEF n
<1>5. /\ t \in Seq(StateBytes)
      /\ Streams(out[c] \o t, kind[c], msg[c])
      /\ \E q \in Nat : /\ Reached(Append(past[c], cur[c]), kind[c], msg[c], q)
                        /\ Len(out[c] \o t) + (left[c] - n) = q * Rate
  BY <1>2, <1>3, <1>4, HandsOutHeld
<1> HIDE DEF t
<1>6. HandedOut(c)'
  BY <1>2, <1>5 DEF HandedOut
<1> QED BY <1>1, <1>2, <1>5, <1>6 DEF ContextOK

LEMMA SqueezeBlockOK ==
    ASSUME TypeOK, CallFits, NEW c \in Contexts, ContextOK(c), SqueezeBlock(c)
    PROVE  /\ Elsewhere(c)
           /\ ContextOK(c)'
           /\ \E t \in Seq(StateBytes) : out'[c] = out[c] \o t
           /\ Streams(out'[c], kind[c], msg[c])
<1>1. Elsewhere(c)
  BY DEF SqueezeBlock, Permute, Running, Elsewhere, TypeOK, Waiting, Wanting, NoCall
<1> DEFINE n == IF call.want < Rate THEN call.want ELSE Rate
           h == Append(past[c], cur[c])
           t == Taken(h, 0, n)
<1>2. phase[c] = "squeeze" /\ phase'[c] = "squeeze" /\ past'[c] = h /\ cur'[c] = ZeroBlock
      /\ left'[c] = Rate - n /\ msg'[c] = msg[c] /\ kind'[c] = kind[c] /\ out'[c] = out[c] \o t
      /\ left[c] = 0
  BY DEF SqueezeBlock, Permute, Running, TypeOK, CallFits
<1>3. n \in 0..Rate
  BY RateFact DEF TypeOK
<1>4. HandedOut(c)
  BY <1>2 DEF ContextOK
<1> HIDE DEF n
<1>5. /\ t \in Seq(StateBytes)
      /\ Streams(out[c] \o t, kind[c], msg[c])
      /\ \E q \in Nat : /\ Reached(Append(h, ZeroBlock), kind[c], msg[c], q)
                        /\ Len(out[c] \o t) + (Rate - n) = q * Rate
  BY <1>2, <1>3, <1>4, HandsOutBlock
<1> HIDE DEF t, h
<1>6. HandedOut(c)'
  BY <1>2, <1>5 DEF HandedOut
<1> QED BY <1>1, <1>2, <1>5, <1>6 DEF ContextOK

LEMMA WholeBlockOK ==
    ASSUME TypeOK, CallFits, NEW c \in Contexts, ContextOK(c), WholeBlock(c)
    PROVE  /\ Elsewhere(c)
           /\ ContextOK(c)'
           /\ \E t \in Seq(StateBytes) : out'[c] = out[c] \o t
           /\ Streams(out'[c], kind[c], msg[c])
<1>1. Elsewhere(c)
  BY DEF WholeBlock, Permute, Running, Elsewhere, TypeOK, Waiting, Wanting, NoCall
<1> DEFINE h == Append(past[c], cur[c])
           t == Taken(h, 0, Rate)
<1>2. phase[c] = "blocks" /\ phase'[c] = "blocks" /\ past'[c] = h /\ cur'[c] = ZeroBlock
      /\ left[c] = 0 /\ left'[c] = 0 /\ msg'[c] = msg[c] /\ kind'[c] = kind[c] /\ out'[c] = out[c] \o t
  BY DEF WholeBlock, Permute, Running, TypeOK, CallFits
<1>3. Rate \in 0..Rate /\ Rate - Rate = 0
  BY RateFact
<1>4. HandedOut(c)
  BY <1>2 DEF ContextOK
<1>5. /\ t \in Seq(StateBytes)
      /\ Streams(out[c] \o t, kind[c], msg[c])
      /\ \E q \in Nat : /\ Reached(Append(h, ZeroBlock), kind[c], msg[c], q)
                        /\ Len(out[c] \o t) + (Rate - Rate) = q * Rate
  BY <1>2, <1>3, <1>4, HandsOutBlock
<1> HIDE DEF t, h
<1>6. HandedOut(c)'
  BY <1>2, <1>3, <1>5 DEF HandedOut
<1> QED BY <1>1, <1>2, <1>5, <1>6 DEF ContextOK

LEMMA PartBlockOK ==
    ASSUME TypeOK, CallFits, NEW c \in Contexts, ContextOK(c), PartBlock(c)
    PROVE  /\ Elsewhere(c)
           /\ ContextOK(c)'
           /\ \E t \in Seq(StateBytes) : out'[c] = out[c] \o t
           /\ Streams(out'[c], kind[c], msg[c])
<1>1. Elsewhere(c)
  BY DEF PartBlock, Permute, Running, Elsewhere, TypeOK, Waiting, NoCall
<1> DEFINE h == Append(past[c], cur[c])
           t == Taken(h, 0, call.want)
<1>2. phase[c] = "blocks" /\ phase'[c] = "none" /\ left[c] = 0 /\ out'[c] = out[c] \o t
  BY DEF PartBlock, Running, TypeOK, CallFits
<1>3. call.want \in 0..Rate
  BY RateFact DEF PartBlock, Running, TypeOK, CallFits
<1>4. HandedOut(c)
  BY <1>2 DEF ContextOK
<1>5. t \in Seq(StateBytes) /\ Streams(out[c] \o t, kind[c], msg[c])
  BY <1>2, <1>3, <1>4, HandsOutBlock
<1> HIDE DEF t
<1> QED BY <1>1, <1>2, <1>5 DEF ContextOK

(* A copy holds what its original holds.                                   *)
LEMMA CloneOK ==
    ASSUME TypeOK, CallFits, NEW c \in Contexts, NEW d \in Contexts, ContextOK(d), Clone(c, d)
    PROVE  Elsewhere(c) /\ ContextOK(c)'
<1>1. Elsewhere(c)
  BY DEF Clone, Idle, Elsewhere, TypeOK, Waiting
<1>2. phase'[c] = phase[d] /\ kind'[c] = kind[d] /\ past'[c] = past[d] /\ cur'[c] = cur[d]
      /\ left'[c] = left[d] /\ msg'[c] = msg[d] /\ out'[c] = out[d]
      /\ Waiting(c)' = <<>> /\ Waiting(d) = <<>>
  BY DEF Clone, Idle, TypeOK, Waiting
<1>3. phase[d] \in {"absorb", "once"} => AbsorbedAll(c)'
  BY <1>2 DEF ContextOK, AbsorbedAll
<1>4. phase[d] \in {"squeeze", "blocks"} => HandedOut(c)'
  BY <1>2 DEF ContextOK, HandedOut
<1> QED BY <1>1, <1>2, <1>3, <1>4 DEF ContextOK

(* Steps that only begin a call or end a context. *)
LEMMA CallOnlyOK ==
    ASSUME TypeOK, CallFits, NEW c \in Contexts, ContextOK(c), NEW n \in Requests,
           BeginSqueeze(c, n) \/ BeginBlocks(c, n) \/ BeginPart(c, n)
    PROVE  Elsewhere(c) /\ ContextOK(c)'
<1>1. Elsewhere(c)
  BY DEF BeginSqueeze, BeginBlocks, BeginPart, Idle, Elsewhere, TypeOK, Waiting
<1>2. phase[c] \in {"squeeze", "blocks"} /\ UNCHANGED <<phase, kind, past, cur, left, msg, out>>
  BY DEF BeginSqueeze, BeginBlocks, BeginPart
<1>3. HandedOut(c)'
  BY <1>2 DEF ContextOK, HandedOut
<1> QED BY <1>1, <1>2, <1>3 DEF ContextOK

(* A released context promises nothing.                                    *)
LEMMA ReleaseOK ==
    ASSUME TypeOK, CallFits, NEW c \in Contexts, Release(c)
    PROVE  Elsewhere(c) /\ ContextOK(c)'
<1>1. Elsewhere(c)
  BY DEF Release, Elsewhere, TypeOK, Waiting
<1>2. phase'[c] = "none"
  BY DEF Release, TypeOK
<1> QED BY <1>1, <1>2 DEF ContextOK

(* The invariant is inductive.                                             *)
LEMMA InitOK == Init => Inv
<1> SUFFICES ASSUME Init PROVE ContextsOK
  BY InitTyped, CallFitsInit DEF Inv
<1> QED BY DEF Init, ContextsOK, ContextOK

LEMMA StepOK == Inv /\ [Next]_vars => Inv'
<1> SUFFICES ASSUME Inv, [Next]_vars PROVE ContextsOK'
  BY StepTyped, CallFitsStep DEF Inv
<1> USE DEF Inv
<1>a. ASSUME NEW c \in Contexts, Elsewhere(c), ContextOK(c)' PROVE ContextsOK'
  BY <1>a, OthersOK
<1>b. \A c \in Contexts : ContextOK(c)
  BY DEF ContextsOK
<1>1. ASSUME NEW c \in Contexts, NEW k \in Kinds, IncInit(c, k)
      PROVE  ContextsOK'
  BY <1>1, <1>a, IncInitOK
<1>2. ASSUME NEW c \in Contexts, NEW m \in Inputs, BeginAbsorb(c, m)
      PROVE  ContextsOK'
  BY <1>2, <1>a, <1>b, BeginAbsorbOK
<1>3. ASSUME NEW c \in Contexts, AbsorbBlock(c)
      PROVE  ContextsOK'
  BY <1>3, <1>a, <1>b, AbsorbBlockOK
<1>4. ASSUME NEW c \in Contexts, AbsorbTail(c)
      PROVE  ContextsOK'
  BY <1>4, <1>a, <1>b, AbsorbTailOK
<1>5. ASSUME NEW c \in Contexts, Finalize(c)
      PROVE  ContextsOK'
  BY <1>5, <1>a, <1>b, FinalizeOK
<1>6. ASSUME NEW c \in Contexts, NEW n \in Requests,
             BeginSqueeze(c, n) \/ BeginBlocks(c, n) \/ BeginPart(c, n)
      PROVE  ContextsOK'
  BY <1>6, <1>a, <1>b, CallOnlyOK
<1>7. ASSUME NEW c \in Contexts, SqueezeHeld(c)
      PROVE  ContextsOK'
  BY <1>7, <1>a, <1>b, SqueezeHeldOK
<1>8. ASSUME NEW c \in Contexts, SqueezeBlock(c)
      PROVE  ContextsOK'
  BY <1>8, <1>a, <1>b, SqueezeBlockOK
<1>9. ASSUME NEW c \in Contexts, NEW k \in Kinds, NEW m \in Inputs, BeginOnce(c, k, m)
      PROVE  ContextsOK'
  BY <1>9, <1>a, BeginOnceOK
<1>10. ASSUME NEW c \in Contexts, OnceBlock(c)
       PROVE  ContextsOK'
  BY <1>10, <1>a, <1>b, OnceBlockOK
<1>11. ASSUME NEW c \in Contexts, OnceTail(c)
       PROVE  ContextsOK'
  BY <1>11, <1>a, <1>b, OnceTailOK
<1>12. ASSUME NEW c \in Contexts, WholeBlock(c)
       PROVE  ContextsOK'
  BY <1>12, <1>a, <1>b, WholeBlockOK
<1>13. ASSUME NEW c \in Contexts, PartBlock(c)
       PROVE  ContextsOK'
  BY <1>13, <1>a, <1>b, PartBlockOK
<1>14. ASSUME NEW c \in Contexts, NEW d \in Contexts, Clone(c, d)
       PROVE  ContextsOK'
  BY <1>14, <1>a, <1>b, CloneOK
<1>15. ASSUME NEW c \in Contexts, Release(c)
       PROVE  ContextsOK'
  BY <1>15, <1>a, ReleaseOK
<1>16. CASE UNCHANGED vars
  BY <1>16 DEF vars, ContextsOK, ContextOK, AbsorbedAll, HandedOut, Waiting
<1> QED BY <1>1, <1>2, <1>3, <1>4, <1>5, <1>6, <1>7, <1>8, <1>9, <1>10, <1>11, <1>12, <1>13,
           <1>14, <1>15, <1>16 DEF Next

LEMMA Invariance == Spec => []Inv
<1>1. Init => Inv
  BY InitOK
<1>2. Inv /\ [Next]_vars => Inv'
  BY StepOK
<1> QED BY <1>1, <1>2, PTL DEF Spec

(* Every variable of the sponge keeps its type; in particular the 26th word *)
(* never leaves a block, for any rate, pieces and number of contexts.       *)
THEOREM SpongeTyping == Spec => []TypeOK
<1>1. Inv => TypeOK
  BY DEF Inv
<1> QED BY <1>1, Invariance, PTL

(* keccak_inc_finalize always finds a place for its suffix.                 *)
THEOREM SuffixFits == Spec => []RoomForSuffix
<1>1. Inv => RoomForSuffix
  BY DEF Inv, ContextsOK, ContextOK, AbsorbedAll, Absorbed, RoomForSuffix
<1> QED BY <1>1, Invariance, PTL

-----------------------------------------------------------------------------
(* The refinement. *)

Mapped == [c \in Contexts |-> Abstract(phase[c])]

(* What the abstract phase of a context is, and how it changes.            *)
LEMMA MappedChange ==
    ASSUME TypeOK, NEW c \in Contexts, NEW p \in Phases, phase' = [phase EXCEPT ![c] = p]
    PROVE  Mapped' = [Mapped EXCEPT ![c] = Abstract(p)]
BY DEF TypeOK, Mapped

LEMMA MappedAt ==
    ASSUME NEW c \in Contexts
    PROVE  /\ phase[c] = "none" => Mapped[c] = "none"
           /\ phase[c] \in {"absorb", "once"} => Mapped[c] = "absorb"
           /\ phase[c] \in {"squeeze", "blocks"} => Mapped[c] = "squeeze"
           /\ phase[c] \in Phases \ {"none"} => Mapped[c] # "none"
BY DEF Mapped, Abstract, Phases

(* The stream of the abstract specification is this one.                   *)
LEMMA SameStream ==
    ASSUME NEW k, NEW m, NEW i
    PROVE  Promise!Stream(k, m, i) = Stream(k, m, i)
BY DEF Promise!Stream, Promise!StateByte, Promise!Padded, Promise!ZeroBlock, Promise!Offsets,
       Promise!Suffix, Promise!Zero, Promise!Top,
       Stream, StateByte, Padded, ZeroBlock, Offsets, Suffix, Zero, Top

(* What is appended continues what was there.                              *)
LEMMA ContinuesFact ==
    ASSUME NEW S, NEW a \in Seq(S), NEW b \in Seq(S)
    PROVE  Promise!Continues(a \o b, a)
<1>1. Len(a \o b) >= Len(a)
  BY ConcatFact
<1>2. SubSeq(a \o b, 1, Len(a)) = a
  <2> DEFINE x == SubSeq(a \o b, 1, Len(a))
  <2>1. x \in Seq(S) /\ Len(x) = Len(a) /\ \A i \in 1..Len(a) : x[i] = a[i]
    OBVIOUS
  <2> HIDE DEF x
  <2>2. x = a
    BY <2>1
  <2> QED BY <2>2 DEF x
<1> QED BY <1>1, <1>2 DEF Promise!Continues

(* Initial states map to initial states.                                   *)
LEMMA InitRefines == Init => Promise!Init
BY DEF Init, Promise!Init, Abstract

(* Handing out is Emit, whether or not the context ends with it. *)
LEMMA EmitRefines ==
    ASSUME TypeOK, NEW c \in Contexts, phase[c] \in {"squeeze", "blocks"},
           phase' = phase \/ phase' = [phase EXCEPT ![c] = "none"],
           UNCHANGED <<kind, msg>>, NEW x, out' = [out EXCEPT ![c] = x],
           \E t \in Seq(StateBytes) : out'[c] = out[c] \o t,
           Streams(out'[c], kind[c], msg[c])
    PROVE  Promise!Emit(c)
<1>1. Mapped[c] = "squeeze"
  BY MappedAt
<1>2. Promise!Continues(out'[c], out[c])
  <2>1. out[c] \in Seq(StateBytes)
    BY DEF TypeOK
  <2> QED BY <2>1, ContinuesFact
<1>3. out' = [out EXCEPT ![c] = out'[c]]
  BY DEF TypeOK
<1>4. \A i \in 1..Len(out'[c]) : out'[c][i] = Promise!Stream(kind[c], msg[c], i - 1)
  BY SameStream DEF Streams
<1>5. Mapped' \in {Mapped, [Mapped EXCEPT ![c] = "none"]}
  <2>1. CASE phase' = phase
    BY <2>1 DEF Mapped
  <2>2. CASE phase' = [phase EXCEPT ![c] = "none"]
    <3>1. Abstract("none") = "none" /\ "none" \in Phases
      BY DEF Abstract, Phases
    <3> QED BY <2>2, <3>1, MappedChange, ZenonT(40)
  <2> QED BY <2>1, <2>2
<1> QED BY <1>1, <1>2, <1>3, <1>4, <1>5 DEF Promise!Emit, Mapped

(* What the abstract contexts see of a step. *)
View == <<Mapped, kind, msg, out>>

(* Every step maps to a step, or changes nothing of the view.              *)
LEMMA StepRefines == Inv /\ [Next]_vars => [Promise!Next]_View
<1> SUFFICES ASSUME Inv, [Next]_vars
             PROVE  Promise!Next \/ UNCHANGED View
  OBVIOUS
<1> USE DEF Inv
<1>k. Promise!Kinds = Kinds
  BY DEF Promise!Kinds, Kinds
<1>a. Abstract("none") = "none" /\ Abstract("absorb") = "absorb" /\ Abstract("once") = "absorb"
      /\ Abstract("squeeze") = "squeeze" /\ Abstract("blocks") = "squeeze"
  BY DEF Abstract
<1>b. \A c \in Contexts : ContextOK(c)
  BY DEF ContextsOK
<1>s. phase' = phase => Mapped' = Mapped
  BY DEF Mapped
<1>1. ASSUME NEW c \in Contexts, NEW k \in Kinds, IncInit(c, k)
      PROVE  Promise!Next
  <2>1. Mapped[c] = "none" /\ Mapped' = [Mapped EXCEPT ![c] = "absorb"]
    BY <1>1, <1>a, MappedAt, MappedChange DEF IncInit, Phases
  <2>2. kind' = [kind EXCEPT ![c] = k] /\ msg' = [msg EXCEPT ![c] = msg'[c]] /\ out' = [out EXCEPT ![c] = <<>>]
    BY <1>1 DEF IncInit, TypeOK
  <2>3. Promise!Open(c, k)
    BY <2>1, <2>2 DEF Promise!Open, Mapped
  <2> QED BY <2>3, <1>k DEF Promise!Next
<1>2. ASSUME NEW c \in Contexts, NEW m \in Inputs, BeginAbsorb(c, m)
      PROVE  Promise!Next
  <2>1. Mapped[c] = "absorb" /\ Mapped' = Mapped
    BY <1>2, <1>s, MappedAt DEF BeginAbsorb
  <2>2. msg[c] \in Seq(Bytes) /\ m \in Seq(Bytes) /\ msg'[c] = msg[c] \o m
    BY <1>2, Fips202Assumption DEF BeginAbsorb, TypeOK
  <2>3. Promise!Continues(msg'[c], msg[c])
    BY <2>2, ContinuesFact
  <2>4. msg' = [msg EXCEPT ![c] = msg'[c]] /\ UNCHANGED <<kind, out>>
    BY <1>2 DEF BeginAbsorb, TypeOK
  <2>5. Promise!Absorb(c)
    BY <2>1, <2>3, <2>4 DEF Promise!Absorb, Mapped
  <2> QED BY <2>5 DEF Promise!Next
<1>3. ASSUME NEW c \in Contexts, AbsorbBlock(c) \/ AbsorbTail(c) \/ OnceBlock(c)
      PROVE  UNCHANGED View
  <2>1. UNCHANGED <<phase, kind, msg, out>>
    BY <1>3 DEF AbsorbBlock, AbsorbTail, OnceBlock
  <2> QED BY <2>1, <1>s DEF View
<1>4. ASSUME NEW c \in Contexts, Finalize(c)
      PROVE  Promise!Next
  <2>1. Mapped[c] = "absorb" /\ Mapped' = [Mapped EXCEPT ![c] = "squeeze"]
    <3>1. CASE kind[c] = "SHA3"
      BY <1>4, <3>1, <1>a, MappedAt, MappedChange DEF Finalize, Phases
    <3>2. CASE kind[c] # "SHA3"
      BY <1>4, <3>2, <1>a, MappedAt, MappedChange DEF Finalize, Phases
    <3> QED BY <3>1, <3>2
  <2>2. UNCHANGED <<kind, msg, out>>
    BY <1>4 DEF Finalize
  <2>3. Promise!Finalize(c)
    BY <2>1, <2>2 DEF Promise!Finalize, Mapped
  <2> QED BY <2>3 DEF Promise!Next
<1>5. ASSUME NEW c \in Contexts, NEW n \in Requests,
             BeginSqueeze(c, n) \/ BeginBlocks(c, n) \/ BeginPart(c, n)
      PROVE  UNCHANGED View
  <2>1. UNCHANGED <<phase, kind, msg, out>>
    BY <1>5 DEF BeginSqueeze, BeginBlocks, BeginPart
  <2> QED BY <2>1, <1>s DEF View
<1>6. ASSUME NEW c \in Contexts, SqueezeHeld(c) \/ SqueezeBlock(c) \/ WholeBlock(c) \/ PartBlock(c)
      PROVE  Promise!Next
  <2>1. /\ \E t \in Seq(StateBytes) : out'[c] = out[c] \o t
        /\ Streams(out'[c], kind[c], msg[c])
    BY <1>6, <1>b, SqueezeHeldOK, SqueezeBlockOK, WholeBlockOK, PartBlockOK
  <2>2. phase[c] \in {"squeeze", "blocks"}
    BY <1>6 DEF CallFits, SqueezeHeld, SqueezeBlock, WholeBlock, PartBlock, Running
  <2>3. phase' = phase \/ phase' = [phase EXCEPT ![c] = "none"]
    BY <1>6 DEF SqueezeHeld, SqueezeBlock, WholeBlock, PartBlock
  <2>4. UNCHANGED <<kind, msg>> /\ \E x : out' = [out EXCEPT ![c] = x]
    BY <1>6 DEF SqueezeHeld, SqueezeBlock, WholeBlock, PartBlock
  <2>5. Promise!Emit(c)
    BY <2>1, <2>2, <2>3, <2>4, EmitRefines
  <2> QED BY <2>5 DEF Promise!Next
<1>7. ASSUME NEW c \in Contexts, NEW k \in Kinds, NEW m \in Inputs, BeginOnce(c, k, m)
      PROVE  Promise!Next
  <2>1. Mapped[c] = "none" /\ Mapped' = [Mapped EXCEPT ![c] = "absorb"]
    BY <1>7, <1>a, MappedAt, MappedChange DEF BeginOnce, Phases
  <2>2. kind' = [kind EXCEPT ![c] = k] /\ msg' = [msg EXCEPT ![c] = msg'[c]] /\ out' = [out EXCEPT ![c] = <<>>]
    BY <1>7 DEF BeginOnce, TypeOK
  <2>3. Promise!Open(c, k)
    BY <2>1, <2>2 DEF Promise!Open, Mapped
  <2> QED BY <2>3, <1>k DEF Promise!Next
<1>8. ASSUME NEW c \in Contexts, OnceTail(c)
      PROVE  Promise!Next
  <2>0. phase[c] = "once"
    BY <1>8 DEF OnceTail, Running, CallFits
  <2>1. Mapped[c] = "absorb" /\ Mapped' = [Mapped EXCEPT ![c] = "squeeze"]
    BY <1>8, <2>0, <1>a, MappedAt, MappedChange DEF OnceTail, Phases
  <2>2. UNCHANGED <<kind, msg, out>>
    BY <1>8 DEF OnceTail
  <2>3. Promise!Finalize(c)
    BY <2>1, <2>2 DEF Promise!Finalize, Mapped
  <2> QED BY <2>3 DEF Promise!Next
<1>9. ASSUME NEW c \in Contexts, NEW d \in Contexts, Clone(c, d)
      PROVE  Promise!Next
  <2>1. phase[d] \in Phases \ {"none"} /\ Mapped[d] = Abstract(phase[d])
    BY <1>9 DEF Clone, TypeOK, Mapped
  <2>2. Mapped[c] = "none" /\ Mapped[d] # "none" /\ Mapped' = [Mapped EXCEPT ![c] = Mapped[d]]
    BY <1>9, <2>1, MappedAt, MappedChange DEF Clone
  <2>3. kind' = [kind EXCEPT ![c] = kind[d]] /\ msg' = [msg EXCEPT ![c] = msg[d]]
        /\ out' = [out EXCEPT ![c] = out[d]]
    BY <1>9 DEF Clone
  <2>4. Promise!Clone(c, d)
    BY <2>2, <2>3 DEF Promise!Clone, Mapped
  <2> QED BY <2>4 DEF Promise!Next
<1>10. ASSUME NEW c \in Contexts, Release(c)
       PROVE  Promise!Next
  <2>1. phase[c] \in Phases \ {"none"}
    BY <1>10 DEF Release, TypeOK
  <2>2. Mapped[c] # "none" /\ Mapped' = [Mapped EXCEPT ![c] = "none"]
    BY <1>10, <2>1, <1>a, MappedAt, MappedChange DEF Release, Phases
  <2>3. Promise!Release(c)
    BY <1>10, <2>2 DEF Release, Promise!Release, Mapped
  <2> QED BY <2>3 DEF Promise!Next
<1>11. CASE UNCHANGED vars
  BY <1>11, <1>s DEF vars, View
<1> QED BY <1>1, <1>2, <1>3, <1>4, <1>5, <1>6, <1>7, <1>8, <1>9, <1>10, <1>11 DEF Next

(* Both interfaces of the sponge, in any order of calls, with any split of  *)
(* messages and outputs and any copies of contexts, implement the one       *)
(* stream of the padded message.                                            *)
THEOREM SpongeImplementsXof == Spec => ImplementsXof
<1>1. Init => Promise!Init
  BY InitRefines
<1>2. Inv /\ [Next]_vars => [Promise!Next]_(Promise!vars)
  BY StepRefines DEF View, Promise!vars, Mapped
<1> QED BY <1>1, <1>2, Invariance, PTL DEF Spec, ImplementsXof, Promise!Spec

-----------------------------------------------------------------------------
(* Different messages and functions. *)

(* The last block tells where the message ends, and which function it is for. *)
LEMMA EndsTell ==
    ASSUME NEW k1 \in Kinds, NEW k2 \in Kinds, NEW m1, NEW m2, NEW b, NEW n,
           NEW e1 \in Offsets, NEW e2 \in Offsets, Ends(b, n, e1, k1, m1), Ends(b, n, e2, k2, m2)
    PROVE  e1 = e2 /\ k1 = k2
<1>0. e1 \in Nat /\ e2 \in Nat /\ e1 < Rate /\ e2 < Rate
  BY RateFact
<1>1. b[e1] = Suffix(k1) \cup (IF e1 = Rate - 1 THEN Top ELSE Zero)
  <2>1. b[e1] = IF e1 < e1 THEN m1[n * Rate + e1 + 1]
                ELSE (IF e1 = e1 THEN Suffix(k1) ELSE Zero)
                     \cup (IF e1 = Rate - 1 THEN Top ELSE Zero)
    BY Zenon DEF Ends
  <2>2. ~(e1 < e1)
    BY <1>0
  <2> QED BY <2>1, <2>2, Zenon
<1>2. b[e2] = Suffix(k2) \cup (IF e2 = Rate - 1 THEN Top ELSE Zero)
  <2>1. b[e2] = IF e2 < e2 THEN m2[n * Rate + e2 + 1]
                ELSE (IF e2 = e2 THEN Suffix(k2) ELSE Zero)
                     \cup (IF e2 = Rate - 1 THEN Top ELSE Zero)
    BY Zenon DEF Ends
  <2>2. ~(e2 < e2)
    BY <1>0
  <2> QED BY <2>1, <2>2, Zenon
<1>3. "mid" \in b[e1] /\ "mid" \in b[e2]
  BY <1>1, <1>2 DEF Suffix
<1>4. ~(e1 < e2)
  <2> SUFFICES ASSUME e1 < e2 PROVE FALSE
    OBVIOUS
  <2>1. ~(e2 < e1) /\ e2 # e1
    BY <1>0
  <2>2. b[e2] = Zero \cup (IF e2 = Rate - 1 THEN Top ELSE Zero)
    BY <2>1 DEF Ends
  <2> QED BY <2>2, <1>3 DEF Zero, Top
<1>5. ~(e2 < e1)
  <2> SUFFICES ASSUME e2 < e1 PROVE FALSE
    OBVIOUS
  <2>1. ~(e1 < e2) /\ e2 # e1
    BY <1>0
  <2>2. b[e1] = Zero \cup (IF e1 = Rate - 1 THEN Top ELSE Zero)
    BY <2>1 DEF Ends
  <2> QED BY <2>2, <1>3 DEF Zero, Top
<1>6. e1 = e2
  BY <1>0, <1>4, <1>5
<1>7. \A k \in Kinds : "low" \in Suffix(k) \cup (IF e1 = Rate - 1 THEN Top ELSE Zero) <=> k = "SHAKE"
  BY DEF Suffix, Top, Zero, Kinds
<1>8. k1 = k2
  BY <1>1, <1>2, <1>6, <1>7 DEF Kinds
<1> QED BY <1>6, <1>8

(* What padding makes of a message, block by block. *)
PartsOf(P, n, e, k, m) ==
    /\ n \in Nat /\ Len(P) = n + 1 /\ e \in Offsets /\ Len(m) = n * Rate + e
    /\ Ends(P[n + 1], n, e, k, m)
    /\ \A x \in 0..(Len(m) - 1) : P[(x \div Rate) + 1][x % Rate] = m[x + 1]

LEMMA PaddedParts ==
    ASSUME NEW k, NEW m \in Seq(Bytes), NEW P, NEW n, NEW e,
           P = Padded(k, m), n = Len(m) \div Rate, e = Len(m) % Rate
    PROVE  PartsOf(P, n, e, k, m)
<1>1. n \in Nat /\ e \in Offsets /\ Rate \in Nat /\ Rate > 0
  BY RateFact
<1>2. Len(m) = n * Rate + e
  BY RateFact
<1>3. P \in Seq(Blocks) /\ Len(P) = n + 1
  BY PaddedType
<1>4. ASSUME NEW j \in 1..(n + 1), NEW i \in Offsets
      PROVE  P[j][i] = PadByte(k, m, (j - 1) * Rate + i, i)
  BY DEF Padded, PadByte
<1>5. Ends(P[n + 1], n, e, k, m)
  <2> SUFFICES ASSUME NEW i \in Offsets
               PROVE  P[n + 1][i] = IF i < e THEN m[n * Rate + i + 1]
                                    ELSE (IF i = e THEN Suffix(k) ELSE Zero)
                                         \cup (IF i = Rate - 1 THEN Top ELSE Zero)
    BY DEF Ends
  <2>1. n + 1 \in 1..(n + 1) /\ ((n + 1) - 1) = n /\ n * Rate \in Nat /\ i \in Nat /\ e \in Nat
    BY <1>1, RateFact
  <2>2. P[n + 1][i] = PadByte(k, m, ((n + 1) - 1) * Rate + i, i)
    BY <1>4, <2>1, Zenon
  <2>3. P[n + 1][i] = PadByte(k, m, n * Rate + i, i)
    BY <2>1, <2>2, Zenon
  <2>4. /\ n * Rate + i < Len(m) <=> i < e
        /\ n * Rate + i = Len(m) <=> i = e
    BY <2>1, <1>2
  <2> QED BY <2>3, <2>4 DEF PadByte
<1>6. ASSUME NEW x \in 0..(Len(m) - 1)
      PROVE  P[(x \div Rate) + 1][x % Rate] = m[x + 1]
  <2> DEFINE d == x \div Rate
             i == x % Rate
  <2>0. Len(m) \in Nat
    OBVIOUS
  <2>1. x \in Nat /\ x < Len(m)
    BY <2>0
  <2>2. d \in Nat /\ i \in Offsets /\ x = d * Rate + i
    BY <2>1, RateFact
  <2> HIDE DEF d, i
  <2>3. d <= n
    <3> SUFFICES ASSUME d > n PROVE FALSE
      BY <2>2, <1>1
    <3>1. d * Rate >= (n + 1) * Rate
      BY <2>2, <1>1
    <3>2. (n + 1) * Rate = n * Rate + Rate /\ n * Rate \in Nat
      BY <1>1
    <3>3. i \in Nat /\ e \in Nat /\ e < Rate
      BY <1>1, <2>2, RateFact
    <3> QED BY <3>1, <3>2, <3>3, <2>1, <2>2, <1>1, <1>2
  <2>4. d + 1 \in 1..(n + 1) /\ (d + 1) - 1 = d
    BY <2>2, <2>3, <1>1
  <2>5. P[d + 1][i] = PadByte(k, m, ((d + 1) - 1) * Rate + i, i)
    BY <1>4, <2>2, <2>4, Zenon
  <2>6. P[d + 1][i] = PadByte(k, m, x, i)
    BY <2>2, <2>4, <2>5, Zenon
  <2>7. P[d + 1][i] = m[x + 1]
    BY <2>6, <2>1 DEF PadByte
  <2> QED BY <2>7 DEF d, i
<1> QED BY <1>1, <1>2, <1>3, <1>5, <1>6 DEF PartsOf

(* The padded message determines the message and the function.             *)
LEMMA PaddingInjective ==
    ASSUME NEW k1 \in Kinds, NEW k2 \in Kinds, NEW m1 \in Seq(Bytes), NEW m2 \in Seq(Bytes),
           Padded(k1, m1) = Padded(k2, m2)
    PROVE  k1 = k2 /\ m1 = m2
<1> DEFINE P == Padded(k1, m1)
           n1 == Len(m1) \div Rate
           n2 == Len(m2) \div Rate
           e1 == Len(m1) % Rate
           e2 == Len(m2) % Rate
<1>1. PartsOf(P, n1, e1, k1, m1)
  BY PaddedParts
<1>2. PartsOf(P, n2, e2, k2, m2)
  <2>1. P = Padded(k2, m2)
    OBVIOUS
  <2> HIDE DEF P
  <2> QED BY <2>1, PaddedParts
<1> HIDE DEF P, n1, n2, e1, e2
<1>3. n1 = n2
  BY <1>1, <1>2 DEF PartsOf
<1>4. e1 = e2 /\ k1 = k2
  <2>1. Ends(P[n1 + 1], n1, e1, k1, m1) /\ Ends(P[n1 + 1], n1, e2, k2, m2)
    BY <1>1, <1>2, <1>3, Zenon DEF PartsOf
  <2>2. e1 \in Offsets /\ e2 \in Offsets
    BY <1>1, <1>2 DEF PartsOf
  <2> QED BY <2>1, <2>2, EndsTell
<1>5. Len(m1) = Len(m2)
  BY <1>1, <1>2, <1>3, <1>4 DEF PartsOf
<1>6. ASSUME NEW j \in 1..Len(m1)
      PROVE  m1[j] = m2[j]
  <2>1. j - 1 \in 0..(Len(m1) - 1) /\ (j - 1) + 1 = j
    OBVIOUS
  <2>2. P[((j - 1) \div Rate) + 1][(j - 1) % Rate] = m1[(j - 1) + 1]
    BY <1>1, <2>1, Zenon DEF PartsOf
  <2>3. P[((j - 1) \div Rate) + 1][(j - 1) % Rate] = m2[(j - 1) + 1]
    BY <1>2, <1>5, <2>1, Zenon DEF PartsOf
  <2> QED BY <2>1, <2>2, <2>3
<1> QED BY <1>4, <1>5, <1>6

(* What any context has handed out, released ones included, is its stream. *)
AllStreams == \A c \in Contexts : Streams(out[c], kind[c], msg[c])

(* No step makes a context lie about what it handed out before.            *)
LEMMA StreamsKept == Inv /\ Inv' /\ AllStreams /\ [Next]_vars => AllStreams'
<1> SUFFICES ASSUME Inv, Inv', AllStreams, [Next]_vars, NEW d \in Contexts
             PROVE  Streams(out[d], kind[d], msg[d])'
  BY DEF AllStreams
<1>1. CASE phase'[d] \in {"absorb", "once"}
  BY <1>1 DEF Inv, ContextsOK, ContextOK, AbsorbedAll, Streams
<1>2. CASE phase'[d] \in {"squeeze", "blocks"}
  BY <1>2 DEF Inv, ContextsOK, ContextOK, HandedOut
<1>3. CASE phase'[d] = "none"
  <2>1. CASE kind'[d] = kind[d] /\ msg'[d] = msg[d] /\ out'[d] = out[d]
    BY <2>1 DEF AllStreams
  <2>2. CASE \E c \in Contexts : PartBlock(c)
    <3> PICK c \in Contexts : PartBlock(c)
      BY <2>2
    <3>1. CASE d = c
      BY <3>1, PartBlockOK DEF Inv, ContextsOK, PartBlock
    <3>2. CASE d # c
      BY <3>2, <2>1 DEF PartBlock, Inv, TypeOK
    <3> QED BY <3>1, <3>2
  <2>3. \/ kind'[d] = kind[d] /\ msg'[d] = msg[d] /\ out'[d] = out[d]
        \/ \E c \in Contexts : PartBlock(c)
    <3> USE DEF Inv, TypeOK
    <3>1. ASSUME NEW c \in Contexts, NEW k \in Kinds, IncInit(c, k)
          PROVE  kind'[d] = kind[d] /\ msg'[d] = msg[d] /\ out'[d] = out[d]
      BY <3>1, <1>3 DEF IncInit
    <3>2. ASSUME NEW c \in Contexts, NEW m \in Inputs, BeginAbsorb(c, m)
          PROVE  kind'[d] = kind[d] /\ msg'[d] = msg[d] /\ out'[d] = out[d]
      BY <3>2, <1>3 DEF BeginAbsorb
    <3>3. ASSUME NEW c \in Contexts, AbsorbBlock(c) \/ AbsorbTail(c) \/ Finalize(c) \/ OnceBlock(c)
                                     \/ OnceTail(c) \/ Release(c)
          PROVE  kind'[d] = kind[d] /\ msg'[d] = msg[d] /\ out'[d] = out[d]
      BY <3>3 DEF AbsorbBlock, AbsorbTail, Finalize, OnceBlock, OnceTail, Release
    <3>4. ASSUME NEW c \in Contexts, NEW n \in Requests,
                 BeginSqueeze(c, n) \/ BeginBlocks(c, n) \/ BeginPart(c, n)
          PROVE  kind'[d] = kind[d] /\ msg'[d] = msg[d] /\ out'[d] = out[d]
      BY <3>4 DEF BeginSqueeze, BeginBlocks, BeginPart
    <3>5. ASSUME NEW c \in Contexts, SqueezeHeld(c) \/ SqueezeBlock(c) \/ WholeBlock(c)
          PROVE  kind'[d] = kind[d] /\ msg'[d] = msg[d] /\ out'[d] = out[d]
      <4>1. phase[c] \in {"squeeze", "blocks"} /\ phase' = phase /\ UNCHANGED <<kind, msg>>
        BY <3>5 DEF SqueezeHeld, SqueezeBlock, WholeBlock, Running, CallFits
      <4>2. d # c
        BY <4>1, <1>3
      <4>3. out'[d] = out[d]
        BY <3>5, <4>2 DEF SqueezeHeld, SqueezeBlock, WholeBlock
      <4> QED BY <4>1, <4>3
    <3>6. ASSUME NEW c \in Contexts, NEW k \in Kinds, NEW m \in Inputs, BeginOnce(c, k, m)
          PROVE  kind'[d] = kind[d] /\ msg'[d] = msg[d] /\ out'[d] = out[d]
      BY <3>6, <1>3 DEF BeginOnce
    <3>7. ASSUME NEW c \in Contexts, NEW x \in Contexts, Clone(c, x)
          PROVE  kind'[d] = kind[d] /\ msg'[d] = msg[d] /\ out'[d] = out[d]
      BY <3>7, <1>3 DEF Clone
    <3>8. CASE UNCHANGED vars
      BY <3>8 DEF vars
    <3> QED BY <3>1, <3>2, <3>3, <3>4, <3>5, <3>6, <3>7, <3>8 DEF Next
  <2> QED BY <2>1, <2>2, <2>3
<1>4. phase'[d] \in Phases
  BY DEF Inv, TypeOK
<1> QED BY <1>1, <1>2, <1>3, <1>4 DEF Phases

(* Equal first bytes name equal padded messages.                           *)
LEMMA StreamsTell == Inv /\ AllStreams => StreamsDistinct
<1> SUFFICES ASSUME Inv, AllStreams, NEW c \in Contexts, NEW d \in Contexts,
                    out[c] # <<>>, out[d] # <<>>, out[c][1] = out[d][1]
             PROVE  kind[c] = kind[d] /\ msg[c] = msg[d]
  BY DEF StreamsDistinct
<1>1. out[c] \in Seq(StateBytes) /\ out[d] \in Seq(StateBytes) /\ kind[c] \in Kinds /\ kind[d] \in Kinds
      /\ msg[c] \in Seq(Bytes) /\ msg[d] \in Seq(Bytes)
  BY DEF Inv, TypeOK
<1>2. 1 \in 1..Len(out[c]) /\ 1 \in 1..Len(out[d]) /\ 1 - 1 = 0
  BY <1>1
<1>3. out[c][1] = Stream(kind[c], msg[c], 0) /\ out[d][1] = Stream(kind[d], msg[d], 0)
  BY <1>2 DEF AllStreams, Streams
<1>4. Padded(kind[c], msg[c]) \o Zeros(0 \div Rate) = Padded(kind[d], msg[d]) \o Zeros(0 \div Rate)
  <2>1. \A k, m : Stream(k, m, 0) = <<Padded(k, m) \o Zeros(0 \div Rate), 0 % Rate, ZeroBlock[0 % Rate]>>
    BY DEF Stream, StateByte, Zeros
  <2>2. Stream(kind[c], msg[c], 0) = Stream(kind[d], msg[d], 0)
    BY <1>3
  <2> QED BY <2>1, <2>2, SMTT(30)
<1>5. 0 \div Rate = 0
  BY RateFact
<1>6. \A k \in Kinds, m \in Seq(Bytes) : Padded(k, m) \o Zeros(0) = Padded(k, m)
  BY PaddedIsReached DEF Reached
<1>7. Padded(kind[c], msg[c]) = Padded(kind[d], msg[d])
  BY <1>1, <1>4, <1>5, <1>6
<1> QED BY <1>1, <1>7, PaddingInjective

(* Padding and suffix keep apart all messages and both functions, whatever  *)
(* the rate, the pieces and the interface.                                  *)
THEOREM StreamsApart == Spec => []StreamsDistinct
<1>1. Init => AllStreams
  BY DEF Init, AllStreams, Streams
<1>2. Inv /\ Inv' /\ AllStreams /\ [Next]_vars => AllStreams'
  BY StreamsKept
<1>3. Inv /\ AllStreams => StreamsDistinct
  BY StreamsTell
<1> QED BY <1>1, <1>2, <1>3, Invariance, PTL DEF Spec
======================================================================
