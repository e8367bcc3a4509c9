-------------------------------- MODULE Sponge --------------------------------
(***************************************************************************)
(* The data of the vendored Keccak sponge.  A byte is the set of its bits, *)
(* of which three are kept: the two the domain suffixes are told apart by  *)
(* and the top one.  XOR is exact; the permutation is idealised: the state *)
(* after it is named by everything that was XORed in before, so equal      *)
(* output means equal input.                                               *)
(***************************************************************************)
EXTENDS Naturals, Sequences

CONSTANTS
    Rate,       \* bytes absorbed or squeezed between two permutations
    Digest      \* output length of the fixed-length hash

ASSUME SpongeAssumption ==
    /\ Rate \in Nat \ {0}
    /\ Digest \in 1..Rate

Bits  == {"low", "mid", "top"}
Bytes == SUBSET Bits
Kinds == {"SHAKE", "SHA3"}

Zero == {}
Top  == {"top"}             \* 128, the end of the padding

(* Mutant of Suffix: hash and XOF use one suffix. *)
SuffixShared(kind) == {"low", "mid"}

(* 0x1F for the XOF, 0x06 for the hash. *)
Suffix(kind) == IF kind = "SHAKE" THEN {"low", "mid"} ELSE {"mid"}

Xor(a, b) == (a \ b) \cup (b \ a)

Offsets   == 0..(Rate - 1)
Blocks    == [Offsets -> Bytes]
ZeroBlock == [i \in Offsets |-> Zero]

(* A byte of the state: the permutations so far, its place, and what was   *)
(* XORed into it since the last.                                           *)
StateByte(past, block, i) == <<past, i, block[i]>>
StateBytes == Seq(Blocks) \X Offsets \X Bytes

-----------------------------------------------------------------------------
(* The reference: what the sponge of a whole message is, by its definition *)
(* rather than by any loop.                                                *)

Padded(kind, m) ==
    [j \in 1..(Len(m) \div Rate + 1) |-> [i \in Offsets |->
        LET k == (j - 1) * Rate + i IN
        IF k < Len(m) THEN m[k + 1]
        ELSE (IF k = Len(m) THEN Suffix(kind) ELSE Zero)
             \cup (IF i = Rate - 1 THEN Top ELSE Zero)]]

(* Byte k, from 0, of the output for message m. *)
Stream(kind, m, k) ==
    StateByte(Padded(kind, m) \o [j \in 1..(k \div Rate) |-> ZeroBlock],
              ZeroBlock, k % Rate)
=============================================================================
