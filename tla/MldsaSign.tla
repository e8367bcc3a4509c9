------------------------------- MODULE MldsaSign -------------------------------
(***************************************************************************)
(* Signing and verification of the vendored sign.c: the loop that draws a  *)
(* mask, forms a candidate and starts over for one of four reasons, and    *)
(* the check that recomputes the high bits with the help of the hints.     *)
(*                                                                         *)
(* The hash is a random oracle: a challenge is the pair of what was hashed *)
(* and the ball polynomial the oracle answers with.  A signature keeps its *)
(* hints as bytes (HintPacking), and those bytes, the message or the key   *)
(* may be exchanged before verification.                                   *)
(***************************************************************************)
EXTENDS MldsaRounding

CONSTANTS
    KeyMaterial, \* what keys are generated from: matrix and secrets
    Masks,      \* the masks ExpandMask may give
    Balls,      \* the challenges the oracle may give
    Messages,
    MaxNonce    \* BOUND: candidates drawn for one signature

(* Keys and masks are as the samplers make them; a challenge has at most   *)
(* TAU = Beta / Eta coefficients that are not 0.                           *)
ASSUME SignAssumption ==
    /\ MaxNonce \in Nat \ {0}
    /\ KeyMaterial \subseteq [A  : [Rows -> [0 .. L - 1 -> [Columns -> 0 .. Q - 1]]],
                              s1 : [0 .. L - 1 -> [Columns -> -Eta .. Eta]],
                              s2 : [Rows -> [Columns -> -Eta .. Eta]]]
    /\ Masks \subseteq [0 .. L - 1 -> [Columns -> 1 - Gamma1 .. Gamma1]]
    /\ Balls \subseteq [Columns -> -1 .. 1]
    /\ \A c \in Balls : Cardinality({j \in Columns : c[j] # 0}) * Eta <= Beta

VARIABLES
    keys,       \* the signer's key pair
    msg,        \* the message signed
    pc,         \* "idle", "loop", "signed" or "checked"
    nonce,      \* candidates drawn so far
    sig,        \* the signature: what was hashed, ball, z and hint bytes
    given,      \* what verification was given: signature, message, key
    verdict     \* what it returned

vars == <<keys, msg, pc, nonce, sig, given, verdict>>

NoSig   == <<"none">>
NoGiven == <<"none">>

(* crypto_sign_keypair: t = A s1 + s2; the secret key keeps its low bits,  *)
(* the public key the high ones.                                           *)
Generate(k) ==
    LET t == [i \in Rows |-> Map(Standard, Plus(Apply(k.A, k.s1)[i], k.s2[i]))]
    IN [secret |-> [A |-> k.A, s1 |-> k.s1, s2 |-> k.s2, t0 |-> [i \in Rows |-> Map(Low2, t[i])]],
        public |-> [A |-> k.A, t1 |-> [i \in Rows |-> Map(High2, t[i])]]]

Init ==
    /\ keys \in {Generate(k) : k \in KeyMaterial}
    /\ msg \in Messages
    /\ pc = "idle" /\ nonce = 0
    /\ sig = NoSig /\ given = NoGiven /\ verdict = "none"

(* crypto_sign_signature_ctx up to the loop. *)
Begin(m) ==
    /\ pc # "loop"
    /\ pc' = "loop"
    /\ msg' = m
    /\ nonce' = 0
    /\ sig' = NoSig /\ given' = NoGiven /\ verdict' = "none"
    /\ UNCHANGED keys

(* The bytes mu: the hash of the public key and of the message. *)
Mu(public, m) == <<public, m>>

(* The candidate for mask y and challenge c: the commitment w, the answer  *)
(* z, the low bits of w less c s2, c t0, and the hints.                    *)
Commitment(y) == [i \in Rows |-> Map(Standard, Apply(keys.secret.A, y)[i])]
Answer(y, c) ==
    [l \in 0 .. L - 1 |-> Map(Centred, Plus(Times(c, keys.secret.s1[l]), y[l]))]
Settled(y, c) ==
    [i \in Rows |-> Map(Centred, Minus(Map(LowBits, Commitment(y)[i]),
                                       Times(c, keys.secret.s2[i])))]
Dropped(c) == [i \in Rows |-> Map(Centred, Times(c, keys.secret.t0[i]))]
Hints(y, c) ==
    LET low  == Settled(y, c)
        ct0  == Dropped(c)
        high == [i \in Rows |-> Map(HighBits, Commitment(y)[i])]
    IN [i \in Rows |-> [j \in Columns |-> MakeHint(low[i][j] + ct0[i][j], high[i][j])]]

(* Mutant of Reveals: the whole range of a mask is let through. *)
RevealsAll(y, c) == TooLong(Answer(y, c), Gamma1)

(* "reject if it reveals secret" *)
Reveals(y, c) == TooLong(Answer(y, c), Gamma1 - Beta)

TooManyHints(y, c) == Cardinality(SetHints(Hints(y, c))) > Omega

(* The four reasons to start over, in the code's order. *)
Rejected(y, c) ==
    \/ Reveals(y, c)
    \/ TooLong(Settled(y, c), Gamma2 - Beta)
    \/ TooLong(Dropped(c), Gamma2)
    \/ TooManyHints(y, c)

(* goto rej: the next candidate has the next nonce. *)
Reject ==
    /\ nonce < MaxNonce
    /\ nonce' = nonce + 1
    /\ UNCHANGED <<keys, msg, pc, sig, given, verdict>>

(* pack_sig *)
Output(y, c) ==
    /\ sig' = [hashed |-> <<Mu(keys.public, msg),
                           [i \in Rows |-> Map(HighBits, Commitment(y)[i])]>>,
               ball |-> c, z |-> Answer(y, c), hints |-> PackHints(Hints(y, c))]
    /\ pc' = "signed"
    /\ UNCHANGED <<keys, msg, nonce, given, verdict>>

(* One turn of the loop. *)
Try(y, c) ==
    /\ pc = "loop"
    /\ IF Rejected(y, c) THEN Reject ELSE Output(y, c)

(* crypto_sign_verify_ctx *)
Accepts(s, m, public) ==
    LET h   == UnpackHints(s.hints)
        Az  == Apply(public.A, s.z)
        ct1 == [i \in Rows |-> Times(s.ball, public.t1[i])]
        w1  == [i \in Rows |-> [j \in Columns |->
                  UseHint(Standard(Az[i][j] - ct1[i][j] * 2 ^ D), h[i][j])]]
    IN /\ WellFormed(s.hints)
       /\ ~TooLong(s.z, Gamma1 - Beta)
       /\ s.hashed = <<Mu(public, m), w1>>

Verify(s, m, public) ==
    /\ pc = "signed"
    /\ pc' = "checked"
    /\ given' = [sig |-> s, msg |-> m, public |-> public]
    /\ verdict' = IF Accepts(s, m, public) THEN "OK" ELSE "FAILED"
    /\ UNCHANGED <<keys, msg, nonce, sig>>

Next ==
    \/ \E m \in Messages : Begin(m)
    \/ \E y \in Masks, c \in Balls : Try(y, c)
    \/ \E m \in Messages, k \in KeyMaterial : Verify(sig, m, Generate(k).public)
    \/ \E e \in Encodings : Verify([sig EXCEPT !.hints = e], msg, keys.public)

Spec == Init /\ [][Next]_vars

-----------------------------------------------------------------------------
(* Properties. *)

(* Whatever the mask and the challenge: a candidate that passes the four   *)
(* checks verifies as it stands, and no other message or key does.  This   *)
(* is what the hints and each of the checks are for.                       *)
VerifiesAsSigned ==
    pc = "checked" /\ given.sig = sig =>
        (verdict = "OK" <=> given.msg = msg /\ given.public = keys.public)

(* Strong unforgeability of the hint bytes, as the comments of unpack_sig  *)
(* claim it: no other bytes in their place verify.                         *)
HintsUnique ==
    verdict = "OK" => given.sig.hints = sig.hints

(* The z of a signature says nothing of the secret: whatever s1 had been,  *)
(* some mask in range explains it.                                         *)
MaskHides ==
    pc = "signed" =>
        \A l \in 0 .. L - 1 : \A s \in [Columns -> -Eta .. Eta] :
            \A j \in Columns : sig.z[l][j] - Times(sig.ball, s)[j] \in 1 - Gamma1 .. Gamma1
=============================================================================
