------------------------------- MODULE Fips202 -------------------------------
(***************************************************************************)
(* The vendored src/third_party/mlkem_pqclean/common/fips202.c, on which   *)
(* both reference backends run: the incremental interface, whose 26th word *)
(* counts bytes absorbed or not yet squeezed, the block interface, and the *)
(* one-shot functions.  One action per call and per turn of its loop.      *)
(*                                                                         *)
(* Calls are sequential, so one call is in progress at a time.  A context  *)
(* is used in the order the interface asks for.                            *)
(***************************************************************************)
EXTENDS Sponge

CONSTANTS
    Contexts,   \* the contexts in use
    Inputs,     \* the pieces of message callers absorb
    Requests,   \* the numbers of bytes callers squeeze
    MaxIn,      \* BOUND: bytes of a message
    MaxOut      \* BOUND: bytes squeezed from a context

ASSUME Fips202Assumption ==
    /\ Inputs \subseteq Seq(Bytes)
    /\ Requests \subseteq Nat \ {0}
    /\ MaxIn \in Nat
    /\ MaxOut \in Nat

Phases == {"none", "absorb", "once", "squeeze", "blocks"}
CallOps == {"none", "absorb", "once", "squeeze", "blocks", "part"}

VARIABLES
    phase,  \* where the context is in the protocol of its interface
    kind,   \* which function it computes
    past,   \* what was XORed in before each permutation of its state
    cur,    \* what was XORed into each byte since the last one
    left,   \* the 26th word
    msg,    \* history: the message absorbed so far
    out,    \* history: the output handed out so far
    call    \* the call in progress: its input or output still to come

vars == <<phase, kind, past, cur, left, msg, out, call>>

NoCall(c) == [op |-> "none", ctx |-> c, rest |-> <<>>, want |-> 0]

Init ==
    /\ phase = [c \in Contexts |-> "none"]
    /\ kind = [c \in Contexts |-> "SHAKE"]
    /\ past = [c \in Contexts |-> <<>>]
    /\ cur = [c \in Contexts |-> ZeroBlock]
    /\ left = [c \in Contexts |-> 0]
    /\ msg = [c \in Contexts |-> <<>>]
    /\ out = [c \in Contexts |-> <<>>]
    /\ \E c \in Contexts : call = NoCall(c)

Idle == call.op = "none"
Running(c, op) == call.ctx = c /\ call.op = op

(* The call goes on with "want" bytes or blocks still to come. *)
Wanting(want) == call' = IF want = 0 THEN NoCall(call.ctx) ELSE [call EXCEPT !.want = want]

(* Bytes XORed into a block from an offset on. *)
Xored(block, from, bytes) ==
    [i \in Offsets |-> IF i >= from /\ i < from + Len(bytes)
                       THEN Xor(block[i], bytes[i - from + 1]) ELSE block[i]]

(* KeccakF1600_StatePermute, on a state into which "block" was XORed. *)
Permute(c, block) ==
    /\ past' = [past EXCEPT ![c] = Append(@, block)]
    /\ cur' = [cur EXCEPT ![c] = ZeroBlock]

(* n bytes of a state that was permuted last, from offset "from". *)
Taken(history, from, n) == [i \in 1..n |-> StateByte(history, ZeroBlock, from + i - 1)]

-----------------------------------------------------------------------------
(* The incremental interface. *)

(* shake*_inc_init, sha3_*_inc_init *)
IncInit(c, k) ==
    /\ Idle
    /\ phase[c] = "none"
    /\ phase' = [phase EXCEPT ![c] = "absorb"]
    /\ kind' = [kind EXCEPT ![c] = k]
    /\ past' = [past EXCEPT ![c] = <<>>]
    /\ cur' = [cur EXCEPT ![c] = ZeroBlock]
    /\ left' = [left EXCEPT ![c] = 0]
    /\ msg' = [msg EXCEPT ![c] = <<>>]
    /\ out' = [out EXCEPT ![c] = <<>>]
    /\ UNCHANGED call

(* *_inc_absorb is called. *)
BeginAbsorb(c, m) ==
    /\ Idle
    /\ phase[c] = "absorb"
    /\ Len(msg[c]) + Len(m) <= MaxIn
    /\ msg' = [msg EXCEPT ![c] = @ \o m]
    /\ call' = [op |-> "absorb", ctx |-> c, rest |-> m, want |-> 0]
    /\ UNCHANGED <<phase, kind, past, cur, left, out>>

(* Mutant of Fills: a block that is just full waits for the next byte. *)
FillsLate(c) == Len(call.rest) + left[c] > Rate

(* The loop condition of keccak_inc_absorb. *)
Fills(c) == Len(call.rest) + left[c] >= Rate

AbsorbBlock(c) ==
    /\ Running(c, "absorb")
    /\ Fills(c)
    /\ LET n == Rate - left[c] IN
       /\ Permute(c, Xored(cur[c], left[c], SubSeq(call.rest, 1, n)))
       /\ call' = [call EXCEPT !.rest = SubSeq(@, n + 1, Len(@))]
    /\ left' = [left EXCEPT ![c] = 0]
    /\ UNCHANGED <<phase, kind, msg, out>>

AbsorbTail(c) ==
    /\ Running(c, "absorb")
    /\ ~Fills(c)
    /\ cur' = [cur EXCEPT ![c] = Xored(@, left[c], call.rest)]
    /\ left' = [left EXCEPT ![c] = @ + Len(call.rest)]
    /\ call' = NoCall(c)
    /\ UNCHANGED <<phase, kind, past, msg, out>>

(* keccak_inc_finalize: the suffix behind the message, the top bit at the  *)
(* end of the block.  sha3_*_inc_finalize goes on to squeeze its digest.   *)
Finalize(c) ==
    /\ Idle
    /\ phase[c] = "absorb"
    /\ cur' = [cur EXCEPT ![c] =
                  Xored(Xored(@, left[c], <<Suffix(kind[c])>>), Rate - 1, <<Top>>)]
    /\ left' = [left EXCEPT ![c] = 0]
    /\ IF kind[c] = "SHA3"
       THEN /\ phase' = [phase EXCEPT ![c] = "blocks"]
            /\ call' = [op |-> "part", ctx |-> c, rest |-> <<>>, want |-> Digest]
       ELSE /\ phase' = [phase EXCEPT ![c] = "squeeze"]
            /\ UNCHANGED call
    /\ UNCHANGED <<kind, past, msg, out>>

(* *_inc_squeeze is called. *)
BeginSqueeze(c, n) ==
    /\ Idle
    /\ phase[c] = "squeeze"
    /\ Len(out[c]) + n <= MaxOut
    /\ call' = [op |-> "squeeze", ctx |-> c, rest |-> <<>>, want |-> n]
    /\ UNCHANGED <<phase, kind, past, cur, left, msg, out>>

(* keccak_inc_squeeze first consumes what is left of the last block... *)
SqueezeHeld(c) ==
    /\ Running(c, "squeeze")
    /\ left[c] > 0
    /\ LET n == IF call.want < left[c] THEN call.want ELSE left[c] IN
       /\ out' = [out EXCEPT ![c] = @ \o Taken(past[c], Rate - left[c], n)]
       /\ left' = [left EXCEPT ![c] = @ - n]
       /\ Wanting(call.want - n)
    /\ UNCHANGED <<phase, kind, past, cur, msg>>

(* Mutant of SqueezeBlock: the rest of a block is thrown away. *)
SqueezeBlockWasteful(c) ==
    /\ Running(c, "squeeze")
    /\ left[c] = 0
    /\ LET n == IF call.want < Rate THEN call.want ELSE Rate IN
       /\ out' = [out EXCEPT ![c] = @ \o Taken(Append(past[c], cur[c]), 0, n)]
       /\ Wanting(call.want - n)
    /\ Permute(c, cur[c])
    /\ UNCHANGED <<phase, kind, left, msg>>

(* Mutant of SqueezeBlock: what is left is counted from the whole request. *)
SqueezeBlockOverdrawn(c) ==
    /\ Running(c, "squeeze")
    /\ left[c] = 0
    /\ LET n == IF call.want < Rate THEN call.want ELSE Rate IN
       /\ out' = [out EXCEPT ![c] = @ \o Taken(Append(past[c], cur[c]), 0, n)]
       /\ left' = [left EXCEPT ![c] = Rate - call.want]
       /\ Wanting(call.want - n)
    /\ Permute(c, cur[c])
    /\ UNCHANGED <<phase, kind, msg>>

(* ... then permutes for every further block and remembers what it leaves. *)
SqueezeBlock(c) ==
    /\ Running(c, "squeeze")
    /\ left[c] = 0
    /\ LET n == IF call.want < Rate THEN call.want ELSE Rate IN
       /\ out' = [out EXCEPT ![c] = @ \o Taken(Append(past[c], cur[c]), 0, n)]
       /\ left' = [left EXCEPT ![c] = Rate - n]
       /\ Wanting(call.want - n)
    /\ Permute(c, cur[c])
    /\ UNCHANGED <<phase, kind, msg>>

-----------------------------------------------------------------------------
(* The block interface and the one-shot functions built on it. *)

(* shake*_absorb, and the beginning of shake* and sha3_*. *)
BeginOnce(c, k, m) ==
    /\ Idle
    /\ phase[c] = "none"
    /\ Len(m) <= MaxIn
    /\ phase' = [phase EXCEPT ![c] = "once"]
    /\ kind' = [kind EXCEPT ![c] = k]
    /\ past' = [past EXCEPT ![c] = <<>>]
    /\ cur' = [cur EXCEPT ![c] = ZeroBlock]
    /\ left' = [left EXCEPT ![c] = 0]
    /\ msg' = [msg EXCEPT ![c] = m]
    /\ out' = [out EXCEPT ![c] = <<>>]
    /\ call' = [op |-> "once", ctx |-> c, rest |-> m, want |-> 0]

(* The loop of keccak_absorb ... *)
OnceBlock(c) ==
    /\ Running(c, "once")
    /\ Len(call.rest) >= Rate
    /\ Permute(c, Xored(cur[c], 0, SubSeq(call.rest, 1, Rate)))
    /\ call' = [call EXCEPT !.rest = SubSeq(@, Rate + 1, Len(@))]
    /\ UNCHANGED <<phase, kind, left, msg, out>>

(* ... and the last block: here the top bit is set by OR, not by XOR. *)
OnceTail(c) ==
    /\ Running(c, "once")
    /\ Len(call.rest) < Rate
    /\ LET text == Append(call.rest, Suffix(kind[c]))
           t == [i \in Offsets |-> (IF i < Len(text) THEN text[i + 1] ELSE Zero)
                                   \cup (IF i = Rate - 1 THEN Top ELSE Zero)]
       IN  cur' = [cur EXCEPT ![c] = [i \in Offsets |-> Xor(@[i], t[i])]]
    /\ phase' = [phase EXCEPT ![c] = "blocks"]
    /\ call' = IF kind[c] = "SHA3"
               THEN [op |-> "part", ctx |-> c, rest |-> <<>>, want |-> Digest]
               ELSE NoCall(c)
    /\ UNCHANGED <<kind, past, left, msg, out>>

(* shake*_squeezeblocks is called, for n blocks. *)
BeginBlocks(c, n) ==
    /\ Idle
    /\ phase[c] = "blocks"
    /\ Len(out[c]) + n * Rate <= MaxOut
    /\ call' = [op |-> "blocks", ctx |-> c, rest |-> <<>>, want |-> n]
    /\ UNCHANGED <<phase, kind, past, cur, left, msg, out>>

(* A turn of keccak_squeezeblocks. *)
WholeBlock(c) ==
    /\ Running(c, "blocks")
    /\ out' = [out EXCEPT ![c] = @ \o Taken(Append(past[c], cur[c]), 0, Rate)]
    /\ Permute(c, cur[c])
    /\ Wanting(call.want - 1)
    /\ UNCHANGED <<phase, kind, left, msg>>

(* shake128 and shake256 take the rest of their output from one more block *)
(* and release the context ...                                             *)
BeginPart(c, n) ==
    /\ Idle
    /\ phase[c] = "blocks"
    /\ n < Rate
    /\ Len(out[c]) + n <= MaxOut
    /\ call' = [op |-> "part", ctx |-> c, rest |-> <<>>, want |-> n]
    /\ UNCHANGED <<phase, kind, past, cur, left, msg, out>>

(* ... as sha3_* take their digest. *)
PartBlock(c) ==
    /\ Running(c, "part")
    /\ out' = [out EXCEPT ![c] = @ \o Taken(Append(past[c], cur[c]), 0, call.want)]
    /\ Permute(c, cur[c])
    /\ phase' = [phase EXCEPT ![c] = "none"]
    /\ call' = NoCall(c)
    /\ UNCHANGED <<kind, left, msg>>

-----------------------------------------------------------------------------
(* *_ctx_clone copies the state word for word. *)
Clone(c, d) ==
    /\ Idle
    /\ phase[c] = "none"
    /\ phase[d] # "none"
    /\ phase' = [phase EXCEPT ![c] = phase[d]]
    /\ kind' = [kind EXCEPT ![c] = kind[d]]
    /\ past' = [past EXCEPT ![c] = past[d]]
    /\ cur' = [cur EXCEPT ![c] = cur[d]]
    /\ left' = [left EXCEPT ![c] = left[d]]
    /\ msg' = [msg EXCEPT ![c] = msg[d]]
    /\ out' = [out EXCEPT ![c] = out[d]]
    /\ UNCHANGED call

(* *_ctx_release *)
Release(c) ==
    /\ Idle
    /\ phase[c] # "none"
    /\ phase' = [phase EXCEPT ![c] = "none"]
    /\ UNCHANGED <<kind, past, cur, left, msg, out, call>>

Next == \E c \in Contexts :
    \/ \E k \in Kinds : IncInit(c, k)
    \/ \E m \in Inputs : BeginAbsorb(c, m)
    \/ AbsorbBlock(c)
    \/ AbsorbTail(c)
    \/ Finalize(c)
    \/ \E n \in Requests : BeginSqueeze(c, n)
    \/ SqueezeHeld(c)
    \/ SqueezeBlock(c)
    \/ \E k \in Kinds : \E m \in Inputs : BeginOnce(c, k, m)
    \/ OnceBlock(c)
    \/ OnceTail(c)
    \/ \E n \in Requests : BeginBlocks(c, n)
    \/ WholeBlock(c)
    \/ \E n \in Requests : BeginPart(c, n)
    \/ PartBlock(c)
    \/ \E d \in Contexts : Clone(c, d)
    \/ Release(c)

Spec == Init /\ [][Next]_vars

-----------------------------------------------------------------------------
(* Properties. *)

(* Every variable has its type: no count leaves a block.                   *)
TypeOK ==
    /\ phase \in [Contexts -> Phases]
    /\ kind \in [Contexts -> Kinds]
    /\ past \in [Contexts -> Seq(Blocks)]
    /\ cur \in [Contexts -> Blocks]
    /\ left \in [Contexts -> 0..Rate]
    /\ msg \in [Contexts -> Seq(Bytes)]
    /\ out \in [Contexts -> Seq(StateBytes)]
    /\ call \in [op : CallOps, ctx : Contexts, rest : Seq(Bytes), want : Nat]

(* "After keccak_inc_absorb, we are guaranteed that s_inc[25] < r, so we   *)
(* can always use one more byte": finalization finds room for its suffix   *)
(* after any sequence of absorptions.                                      *)
RoomForSuffix ==
    \A c \in Contexts : phase[c] = "absorb" => left[c] < Rate

(* Two contexts hand out the same first byte only for the same function of *)
(* the same message: padding and suffix keep apart all messages, in        *)
(* whatever pieces, by either interface, and SHAKE from SHA3.              *)
StreamsDistinct ==
    \A c, d \in Contexts :
        out[c] # <<>> /\ out[d] # <<>> /\ out[c][1] = out[d][1] =>
            kind[c] = kind[d] /\ msg[c] = msg[d]

(* The abstract specification, as its callers see the contexts.            *)
Abstract(p) == CASE p = "once"   -> "absorb"
                 [] p = "blocks" -> "squeeze"
                 [] OTHER        -> p

Promise == INSTANCE Xof WITH phase <- [c \in Contexts |-> Abstract(phase[c])]

(* Both interfaces and every split of input and output implement the one   *)
(* stream of the padded message.                                           *)
ImplementsXof == Promise!Spec
=============================================================================
