---------------------------- MODULE PqcSig_proofs ----------------------------
(***************************************************************************)
(* Theorems about PqcSig, for any threads, clients, messages, entropy,     *)
(* builds, slack and results of the vendored calls.                        *)
(***************************************************************************)
EXTENDS PqcSig, TLAPS

Calls   == [op : Ops, backend : Backends, null : SUBSET (Buffers \cup {"msg"}),
            len : [Buffers -> Nat]]
Results == [op : Ops, backend : Backends, clean : BOOLEAN, exact : BOOLEAN, status : Statuses]

(* TypeOK, split as the actions touch it: selector, calls and results; the *)
(* accessed extents; what the buffers hold.                                *)
ControlOK ==
    /\ connected \in BOOLEAN
    /\ alg \in (IF connected THEN Algorithms ELSE {"DUMMY"})
    /\ pc \in [Clients -> {"idle", "run"}]
    /\ call \in [Clients -> Calls]
    /\ cap \in [Clients -> [Buffers -> Nat]]
    /\ msg \in [Clients -> Messages]
    /\ ret \in [Clients -> Results]

ExtentsOK == ext \in [Clients -> [Buffers -> Nat]]

Typed(v) == /\ v \in [Clients -> [Buffers -> Contents]]
            /\ \A t \in Clients : \A b \in Buffers : v[t][b] \in Holds(b)

LEMMA TypeParts == TypeOK <=> ControlOK /\ ExtentsOK /\ Typed(val)
BY DEF TypeOK, ControlOK, ExtentsOK, Typed, Calls, Results

-----------------------------------------------------------------------------
(* Facts about the operators. *)

LEMMA SizeNat == \A backend : \A b \in Buffers : Size(backend, b) \in Nat \ {0}
BY DEF Size, Buffers

LEMMA ArgumentsKnown ==
  \A op \in Ops : BuffersOf(op) \subseteq Buffers /\ PointersOf(op) \subseteq Buffers \cup {"msg"}
BY DEF BuffersOf, PointersOf, Ops, Buffers

LEMMA HoldsContents == \A b \in Buffers : Holds(b) \subseteq Contents
BY DEF Contents

LEMMA ConstantsTyped ==
  /\ \A b \in Buffers : Junk \in Holds(b)
  /\ \A b \in Buffers : Partial \in Holds(b)
  /\ Tampered \in Holds("pk") \cap Holds("sig")
BY DEF Holds, Buffers

LEMMA ActiveBackendTyped == ActiveBackend \in Backends
BY DEF ActiveBackend, Backends

LEMMA PutTyped ==
  ASSUME NEW v, Typed(v), NEW t \in Clients, NEW b \in Buffers, NEW x \in Holds(b)
  PROVE  Typed([v EXCEPT ![t][b] = x])
BY HoldsContents DEF Typed

LEMMA PutTwoTyped ==
  ASSUME NEW v, Typed(v), NEW t \in Clients,
         NEW b \in Buffers, NEW x \in Holds(b), NEW c \in Buffers, NEW y \in Holds(c)
  PROVE  Typed([v EXCEPT ![t][b] = x, ![t][c] = y])
BY HoldsContents DEF Typed

LEMMA KeyTyped ==
  ASSUME NEW b \in Backends, NEW r \in Entropy
  PROVE  PublicKey(b, r) \in Holds("pk") /\ SecretKey(b, r) \in Holds("sk")
BY DEF Holds, Keys

(* The key a backend signs with is one of its own, or unknown bytes. *)
LEMMA EmbeddedIsOwn ==
  \A b, sk : EmbeddedKey(b, sk) = Opaque \/ \E r \in Entropy : EmbeddedKey(b, sk) = PublicKey(b, r)
BY DEF EmbeddedKey

LEMMA SignatureTyped ==
  ASSUME NEW b \in Backends, NEW sk, NEW m \in Messages
  PROVE  Signature(b, EmbeddedKey(b, sk), m) \in Holds("sig")
<1>1. EmbeddedKey(b, sk) \in Keys \cup {Opaque}
  BY EmbeddedIsOwn DEF Keys
<1> QED
  BY <1>1 DEF Holds

(* The caller's allocation. *)
Allocation(slack, short) ==
    [b \in Buffers |->
         CASE b \in short -> Size(ActiveBackend, b) - 1
           [] b = "sig" /\ b \notin short -> Size(ActiveBackend, b) + slack
           [] OTHER -> Size(ActiveBackend, b)]

LEMMA AllocationTyped ==
  ASSUME NEW slack \in Nat, NEW short
  PROVE  Allocation(slack, short) \in [Buffers -> Nat]
<1>1. ASSUME NEW b \in Buffers PROVE Size(ActiveBackend, b) \in Nat /\ Size(ActiveBackend, b) - 1 \in Nat
  <2>1. Size(ActiveBackend, b) \in Nat \ {0}
    BY SizeNat
  <2> QED
    BY <2>1
<1>2. ASSUME NEW b \in Buffers PROVE Size(ActiveBackend, b) + slack \in Nat
  BY <1>1
<1> QED
  BY <1>1, <1>2 DEF Allocation

-----------------------------------------------------------------------------
(* What the two helpers of the backend functions do to the types. *)

(* The record a returning call leaves. *)
Outcome(t, s) ==
    [op |-> call[t].op, backend |-> call[t].backend, clean |-> Clean(t),
     exact |-> call[t].len["sig"] = Size(call[t].backend, "sig"), status |-> s]

LEMMA Returned ==
  ASSUME NEW t \in Clients, NEW s, Return(t, s)
  PROVE  ret' = [ret EXCEPT ![t] = Outcome(t, s)]
BY DEF Return, Outcome

LEMMA ReturnTyped ==
  ASSUME ControlOK, NEW t \in Clients, NEW s \in Statuses, Return(t, s)
  PROVE  ControlOK'
<1>1. NoCall \in Calls
  BY DEF NoCall, NoBuffers, Ops, Backends, Calls
<1>2. Clean(t) \in BOOLEAN /\ (call[t].len["sig"] = Size(call[t].backend, "sig")) \in BOOLEAN
  BY DEF Clean
<1>3. call[t].op \in Ops /\ call[t].backend \in Backends
  BY DEF ControlOK, Calls
<1>4. Outcome(t, s) \in Results
  BY <1>2, <1>3 DEF Outcome, Results
<1>5. /\ call' = [call EXCEPT ![t] = NoCall]
      /\ pc' = [pc EXCEPT ![t] = "idle"]
      /\ UNCHANGED <<connected, alg, cap, msg>>
  BY DEF Return
<1> QED
  BY <1>1, <1>4, <1>5, Returned DEF ControlOK

LEMMA AcceptedTyped ==
  ASSUME ExtentsOK, NEW t \in Clients, NEW op, NEW backend, Accepted(t, op, backend)
  PROVE  ExtentsOK'
BY SizeNat DEF ExtentsOK, Accepted

-----------------------------------------------------------------------------
(* Every variable keeps its type, and the selector never names a reference *)
(* backend that is not built in.                                           *)
THEOREM SigTyping == Spec => []TypeOK
<1>1. Init => TypeOK
  <2> SUFFICES ASSUME Init PROVE TypeOK
    OBVIOUS
  <2>1. Typed(val)
    BY ConstantsTyped, HoldsContents DEF Init, Typed
  <2>2. ExtentsOK
    BY DEF Init, NoBuffers, ExtentsOK
  <2>3. NoCall \in Calls /\ NoReturn \in Results /\ NoBuffers \in [Buffers -> Nat]
    BY DEF NoCall, NoReturn, NoBuffers, Calls, Results, Ops, Backends, Statuses
  <2>4. ControlOK
    BY <2>3, SigAssumption DEF Init, ControlOK, Algorithms
  <2> QED
    BY <2>1, <2>2, <2>4, TypeParts
<1>2. TypeOK /\ [Next]_vars => TypeOK'
  <2> SUFFICES ASSUME ControlOK, ExtentsOK, Typed(val), [Next]_vars
               PROVE  ControlOK' /\ ExtentsOK' /\ Typed(val)'
    BY DEF TypeOK, ControlOK, ExtentsOK, Typed, Calls, Results
  <2> DEFINE Goal == ControlOK' /\ ExtentsOK' /\ Typed(val)'
  <2>a. NoBuffers \in [Buffers -> Nat] /\ NoReturn \in Results
    BY DEF NoBuffers, NoReturn, Results, Ops, Backends, Statuses
  <2>1. ASSUME NEW t \in Threads, NEW a, SetAlgorithm(t, a) PROVE Goal
    BY <2>1 DEF SetAlgorithm, ControlOK, ExtentsOK, Typed, Algorithms
  <2>2. ASSUME NEW t \in Clients, NEW slack \in 0..MaxSlack, NEW short \in SUBSET Buffers,
               GetSizes(t, slack, short)
        PROVE  Goal
    <3> DEFINE blank == [b \in Buffers |-> Junk]
    <3>1. Allocation(slack, short) \in [Buffers -> Nat]
      BY AllocationTyped, SigAssumption
    <3>2. /\ cap' = [cap EXCEPT ![t] = Allocation(slack, short)]
          /\ ext' = [ext EXCEPT ![t] = NoBuffers]
          /\ val' = [val EXCEPT ![t] = blank]
          /\ ret' = [ret EXCEPT ![t] = NoReturn]
          /\ UNCHANGED <<connected, alg, pc, call, msg>>
      BY <2>2 DEF GetSizes, Allocation
    <3>3. blank \in [Buffers -> Contents] /\ \A b \in Buffers : blank[b] \in Holds(b)
      BY ConstantsTyped, HoldsContents
    <3> HIDE DEF blank
    <3>4. Typed(val')
      BY <3>2, <3>3 DEF Typed
    <3> QED
      BY <2>a, <3>1, <3>2, <3>4 DEF ControlOK, ExtentsOK, Typed
  <2>3. ASSUME NEW t \in Clients, NEW m \in Messages, ChangeMessage(t, m) PROVE Goal
    BY <2>3, <2>a DEF ChangeMessage, ControlOK, ExtentsOK, Typed
  <2>4. ASSUME NEW t \in Clients, NEW b \in {"pk", "sig"}, Tamper(t, b) PROVE Goal
    <3>1. Typed(val')
      BY <2>4, PutTyped, ConstantsTyped DEF Tamper, Buffers
    <3> QED
      BY <2>4, <2>a, <3>1 DEF Tamper, ControlOK, ExtentsOK, Typed
  <2>5. ASSUME NEW t \in Clients, NEW op \in Ops, NEW null \in SUBSET PointersOf(op),
               Dispatch(t, op, null)
        PROVE  Goal
    <3> DEFINE c == [op |-> op, backend |-> ActiveBackend, null |-> null, len |-> cap[t]]
    <3>1. c \in Calls
      BY ActiveBackendTyped, ArgumentsKnown DEF Calls, ControlOK
    <3>2. /\ call' = [call EXCEPT ![t] = c]
          /\ pc' = [pc EXCEPT ![t] = "run"]
          /\ UNCHANGED <<connected, alg, cap, ext, val, msg, ret>>
      BY <2>5 DEF Dispatch
    <3> HIDE DEF c
    <3> QED
      BY <3>1, <3>2 DEF ControlOK, ExtentsOK, Typed
  <2>6. ASSUME NEW t \in Clients, Run(t) PROVE Goal
    <3> USE DEF Statuses
    <3>a. "DUMMY" \in Backends /\ "MLDSA" \in Backends
      BY DEF Backends
    <3>b. "pk" \in Buffers /\ "sk" \in Buffers /\ "sig" \in Buffers
      BY DEF Buffers
    <3>c. msg[t] \in Messages
      BY DEF ControlOK
    <3>1. CASE RejectNull(t) \/ RejectShort(t)
      BY <3>1, ReturnTyped DEF RejectNull, RejectShort, ExtentsOK, Typed
    <3>2. CASE DummyKeypair(t)
      <4>1. PICK r \in Entropy : val' = [val EXCEPT ![t]["pk"] = PublicKey("DUMMY", r),
                                                    ![t]["sk"] = SecretKey("DUMMY", r)]
        BY <3>2 DEF DummyKeypair
      <4>2. Typed(val')
        BY <4>1, <3>a, <3>b, KeyTyped, PutTwoTyped
      <4> QED
        BY <3>2, <4>2, ReturnTyped, AcceptedTyped DEF DummyKeypair, Typed
    <3>3. CASE MldsaKeypair(t)
      <4>1. \/ /\ \E r \in Entropy :
                     val' = [val EXCEPT ![t]["pk"] = PublicKey("MLDSA", r),
                                        ![t]["sk"] = SecretKey("MLDSA", r)]
               /\ Return(t, "OK")
            \/ /\ val' = [val EXCEPT ![t]["pk"] = Partial, ![t]["sk"] = Partial]
               /\ Return(t, "KEYGEN_FAILED")
        BY <3>3 DEF MldsaKeypair
      <4>2. ASSUME NEW r \in Entropy,
                   val' = [val EXCEPT ![t]["pk"] = PublicKey("MLDSA", r),
                                      ![t]["sk"] = SecretKey("MLDSA", r)]
            PROVE  Typed(val')
        BY <4>2, <3>a, <3>b, KeyTyped, PutTwoTyped
      <4>3. ASSUME val' = [val EXCEPT ![t]["pk"] = Partial, ![t]["sk"] = Partial]
            PROVE  Typed(val')
        BY <4>3, <3>b, ConstantsTyped, PutTwoTyped
      <4>4. Typed(val')
        BY <4>1, <4>2, <4>3
      <4> QED
        BY <3>3, <4>1, <4>4, ReturnTyped, AcceptedTyped DEF MldsaKeypair, Typed
    <3>4. CASE DummySign(t)
      <4>1. Typed(val')
        BY <3>4, <3>a, <3>b, <3>c, SignatureTyped, PutTyped DEF DummySign
      <4> QED
        BY <3>4, <4>1, ReturnTyped, AcceptedTyped DEF DummySign, Typed
    <3>5. CASE MldsaSign(t)
      <4> DEFINE s == Signature("MLDSA", EmbeddedKey("MLDSA", val[t]["sk"]), msg[t])
      <4>1. \/ val' = [val EXCEPT ![t]["sig"] = s] /\ Return(t, "OK")
            \/ val' = [val EXCEPT ![t]["sig"] = Partial] /\ Return(t, "SIGN_FAILED")
        BY <3>5 DEF MldsaSign
      <4>2. s \in Holds("sig")
        BY <3>a, <3>c, SignatureTyped
      <4> HIDE DEF s
      <4>3. Typed(val')
        BY <4>1, <4>2, <3>b, ConstantsTyped, PutTyped
      <4> QED
        BY <3>5, <4>1, <4>3, ReturnTyped, AcceptedTyped DEF MldsaSign, Typed
    <3>6. CASE DummyVerify(t) \/ MldsaVerify(t)
      <4>1. (Return(t, "OK") \/ Return(t, "VERIFY_FAILED")) /\ UNCHANGED val
        BY <3>6 DEF DummyVerify, MldsaVerify
      <4> QED
        BY <3>6, <4>1, ReturnTyped, AcceptedTyped DEF DummyVerify, MldsaVerify, Typed
    <3> QED
      BY <2>6, <3>1, <3>2, <3>3, <3>4, <3>5, <3>6 DEF Run
  <2>7. CASE UNCHANGED vars
    BY <2>7 DEF vars, ControlOK, ExtentsOK, Typed
  <2> QED
    BY <2>1, <2>2, <2>3, <2>4, <2>5, <2>6, <2>7 DEF Next
<1> QED
  BY <1>1, <1>2, PTL DEF Spec

-----------------------------------------------------------------------------
(* The strengthening of SigNoOverrun: a running call was given lengths its *)
(* buffers really have.                                                    *)
LengthsHonest ==
    \A t \in Clients : pc[t] = "run" =>
        \A b \in Buffers : call[t].len[b] <= cap[t][b]

LEMMA AcceptedStaysInside ==
  ASSUME ControlOK, ExtentsOK, LengthsHonest, SigNoOverrun, NEW t \in Clients,
         NEW op \in Ops, NEW backend, Accepted(t, op, backend), UNCHANGED cap
  PROVE  SigNoOverrun'
<1>1. ASSUME NEW b \in BuffersOf(op) PROVE Size(backend, b) <= cap[t][b]
  <2>1. b \in Buffers
    BY ArgumentsKnown
  <2>2. /\ call[t].len[b] <= cap[t][b]
        /\ ~(call[t].len[b] < Size(backend, b))
    BY <2>1 DEF Accepted, TooShort, LengthsHonest
  <2>3. call[t].len[b] \in Nat /\ cap[t][b] \in Nat /\ Size(backend, b) \in Nat
    BY <2>1, SizeNat DEF ControlOK, Calls
  <2> QED
    BY <2>2, <2>3
<1> QED
  BY <1>1 DEF SigNoOverrun, Accepted, ExtentsOK, ControlOK

(* No interleaving of reselections, sizings and calls makes a signature    *)
(* backend access a buffer beyond its allocation, for any number of        *)
(* threads and any excess in the caller's signature buffer.                *)
THEOREM SigInsideBuffers == Spec => []SigNoOverrun
<1>1. Init => LengthsHonest /\ SigNoOverrun
  BY DEF Init, LengthsHonest, SigNoOverrun, NoBuffers
<1>2. TypeOK /\ LengthsHonest /\ SigNoOverrun /\ [Next]_vars => LengthsHonest' /\ SigNoOverrun'
  <2> SUFFICES ASSUME ControlOK, ExtentsOK, LengthsHonest, SigNoOverrun, [Next]_vars
               PROVE  LengthsHonest' /\ SigNoOverrun'
    BY TypeParts
  <2> DEFINE Goal == LengthsHonest' /\ SigNoOverrun'
  <2>a. ASSUME UNCHANGED <<pc, call, cap, ext>> PROVE Goal
    BY <2>a DEF LengthsHonest, SigNoOverrun
  <2>1. ASSUME NEW t \in Threads, NEW a, SetAlgorithm(t, a) PROVE Goal
    BY <2>1, <2>a DEF SetAlgorithm
  <2>2. ASSUME NEW t \in Clients, NEW slack \in 0..MaxSlack, NEW short \in SUBSET Buffers,
               GetSizes(t, slack, short)
        PROVE  Goal
    <3>1. Allocation(slack, short) \in [Buffers -> Nat]
      BY AllocationTyped, SigAssumption
    <3>2. /\ cap' = [cap EXCEPT ![t] = Allocation(slack, short)]
          /\ ext' = [ext EXCEPT ![t] = NoBuffers]
          /\ pc[t] = "idle" /\ UNCHANGED <<pc, call>>
      BY <2>2 DEF GetSizes, Allocation
    <3>3. \A b \in Buffers : NoBuffers[b] <= Allocation(slack, short)[b]
      BY <3>1 DEF NoBuffers
    <3>4. SigNoOverrun'
      BY <3>2, <3>3 DEF SigNoOverrun, ControlOK, ExtentsOK
    <3>5. LengthsHonest'
      BY <3>2 DEF LengthsHonest, ControlOK
    <3> QED
      BY <3>4, <3>5
  <2>3. ASSUME NEW t \in Clients, NEW m \in Messages, ChangeMessage(t, m) PROVE Goal
    BY <2>3, <2>a DEF ChangeMessage
  <2>4. ASSUME NEW t \in Clients, NEW b \in {"pk", "sig"}, Tamper(t, b) PROVE Goal
    BY <2>4, <2>a DEF Tamper
  <2>5. ASSUME NEW t \in Clients, NEW op \in Ops, NEW null \in SUBSET PointersOf(op),
               Dispatch(t, op, null)
        PROVE  Goal
    <3>1. \A b \in Buffers : cap[t][b] <= cap[t][b]
      BY DEF ControlOK
    <3>2. call'[t].len = cap[t] /\ \A u \in Clients : u # t => call'[u] = call[u] /\ pc'[u] = pc[u]
      BY <2>5 DEF Dispatch, ControlOK
    <3>3. UNCHANGED <<cap, ext>>
      BY <2>5 DEF Dispatch
    <3> QED
      BY <3>1, <3>2, <3>3 DEF LengthsHonest, SigNoOverrun
  <2>6. ASSUME NEW t \in Clients, Run(t) PROVE Goal
    <3>1. ASSUME NEW s, Return(t, s) PROVE LengthsHonest' /\ UNCHANGED cap
      BY <3>1 DEF Return, LengthsHonest, ControlOK
    <3>2. CASE RejectNull(t) \/ RejectShort(t)
      BY <3>1, <3>2 DEF RejectNull, RejectShort, SigNoOverrun
    <3>3. CASE DummyKeypair(t) \/ MldsaKeypair(t)
      BY <3>1, <3>3, AcceptedStaysInside DEF DummyKeypair, MldsaKeypair, Ops
    <3>4. CASE DummySign(t) \/ MldsaSign(t)
      BY <3>1, <3>4, AcceptedStaysInside DEF DummySign, MldsaSign, Ops
    <3>5. CASE DummyVerify(t) \/ MldsaVerify(t)
      BY <3>1, <3>5, AcceptedStaysInside DEF DummyVerify, MldsaVerify, Ops
    <3> QED
      BY <2>6, <3>2, <3>3, <3>4, <3>5 DEF Run
  <2>7. CASE UNCHANGED vars
    BY <2>7, <2>a DEF vars
  <2> QED
    BY <2>1, <2>2, <2>3, <2>4, <2>5, <2>6, <2>7 DEF Next
<1> QED
  BY <1>1, <1>2, SigTyping, PTL DEF Spec

-----------------------------------------------------------------------------
(* The strengthening of VerifyExact, for one client's buffers: a public    *)
(* key that is still intact lies beside its own secret key, and an intact  *)
(* signature was made under a key of the backend that made it.             *)
KeysPaired(v) ==
    \A b \in Backends, x \in Entropy : v["pk"] = PublicKey(b, x) => v["sk"] = SecretKey(b, x)

SignedByOwn(v) ==
    \A b, k, m : v["sig"] = Signature(b, k, m) => k = Opaque \/ \E x \in Entropy : k = PublicKey(b, x)

(* Genuine, for one client's buffers v and message m. *)
Made(v, m, b) ==
    LET key == EmbeddedKey(b, v["sk"]) IN v["sig"] = Signature(b, key, m) /\ v["pk"] = key

VerdictRight(v, m, r) ==
    r.op = "verify" /\ r.status \in {"OK", "VERIFY_FAILED"} =>
        (r.status = "OK" <=> Made(v, m, r.backend) /\ (r.backend = "MLDSA" => r.exact))

ClientInv(v, m, r) == KeysPaired(v) /\ SignedByOwn(v) /\ VerdictRight(v, m, r)

VerdictInv == \A t \in Clients : ClientInv(val[t], msg[t], ret[t])

(* With these, a signature that matches the public key given is genuine.   *)
LEMMA MatchIsGenuine ==
  ASSUME NEW v, KeysPaired(v), SignedByOwn(v), v["pk"] \in Holds("pk"), NEW m, NEW b \in Backends
  PROVE  v["sig"] = Signature(b, v["pk"], m) <=> Made(v, m, b)
<1>1. ASSUME v["sig"] = Signature(b, v["pk"], m) PROVE Made(v, m, b)
  <2>1. v["pk"] # Opaque
    BY DEF Holds, Keys, Junk, Partial, Tampered, Opaque, PublicKey
  <2>2. PICK x \in Entropy : v["pk"] = PublicKey(b, x)
    BY <1>1, <2>1 DEF SignedByOwn
  <2>3. v["sk"] = SecretKey(b, x)
    BY <2>2 DEF KeysPaired
  <2>4. EmbeddedKey(b, v["sk"]) = PublicKey(b, x)
    BY <2>3 DEF EmbeddedKey, SecretKey
  <2> QED
    BY <1>1, <2>2, <2>4 DEF Made
<1>2. ASSUME Made(v, m, b) PROVE v["sig"] = Signature(b, v["pk"], m)
  BY <1>2 DEF Made
<1> QED
  BY <1>1, <1>2

(* A step that changes one client's buffers, message and result. *)
LEMMA OneClient ==
  ASSUME ControlOK, Typed(val), VerdictInv, NEW t \in Clients, NEW v, NEW m, NEW q,
         ClientInv(v, m, q), val' = [val EXCEPT ![t] = v],
         msg' = [msg EXCEPT ![t] = m], ret' = [ret EXCEPT ![t] = q]
  PROVE  VerdictInv'
BY DEF ControlOK, Typed, VerdictInv, ClientInv, KeysPaired, SignedByOwn, VerdictRight, Made

(* Any result that is not a verdict is right. *)
LEMMA NoVerdict ==
  ASSUME NEW v, KeysPaired(v), SignedByOwn(v), NEW m, NEW q,
         q.op # "verify" \/ q.status \notin {"OK", "VERIFY_FAILED"}
  PROVE  ClientInv(v, m, q)
BY DEF ClientInv, VerdictRight

(* What the steps store keeps keys paired and signatures attributable. *)
LEMMA StoredRight ==
  ASSUME NEW v \in [Buffers -> Contents], KeysPaired(v), SignedByOwn(v), NEW b \in Backends
  PROVE  /\ \A c \in {"pk", "sig"} : KeysPaired([v EXCEPT ![c] = Tampered]) /\ SignedByOwn([v EXCEPT ![c] = Tampered])
         /\ KeysPaired([v EXCEPT !["sig"] = Partial]) /\ SignedByOwn([v EXCEPT !["sig"] = Partial])
         /\ LET w == [v EXCEPT !["pk"] = Partial, !["sk"] = Partial]
            IN  KeysPaired(w) /\ SignedByOwn(w)
         /\ \A x \in Entropy :
               LET w == [v EXCEPT !["pk"] = PublicKey(b, x), !["sk"] = SecretKey(b, x)]
               IN  KeysPaired(w) /\ SignedByOwn(w)
         /\ \A m :
               LET w == [v EXCEPT !["sig"] = Signature(b, EmbeddedKey(b, v["sk"]), m)]
               IN  KeysPaired(w) /\ SignedByOwn(w)
<1>1. ASSUME NEW c \in {"pk", "sig"}
      PROVE  KeysPaired([v EXCEPT ![c] = Tampered]) /\ SignedByOwn([v EXCEPT ![c] = Tampered])
  BY <1>1 DEF KeysPaired, SignedByOwn, Buffers, Tampered, PublicKey, Signature
<1>2. KeysPaired([v EXCEPT !["sig"] = Partial]) /\ SignedByOwn([v EXCEPT !["sig"] = Partial])
  BY DEF KeysPaired, SignedByOwn, Buffers, Partial, Signature
<1>3. ASSUME NEW x \in Entropy
      PROVE  LET w == [v EXCEPT !["pk"] = PublicKey(b, x), !["sk"] = SecretKey(b, x)]
             IN  KeysPaired(w) /\ SignedByOwn(w)
  <2> DEFINE w == [v EXCEPT !["pk"] = PublicKey(b, x), !["sk"] = SecretKey(b, x)]
  <2>1. w["pk"] = PublicKey(b, x) /\ w["sk"] = SecretKey(b, x) /\ w["sig"] = v["sig"]
    BY DEF Buffers
  <2> HIDE DEF w
  <2>2. KeysPaired(w)
    BY <2>1 DEF KeysPaired, PublicKey
  <2>3. SignedByOwn(w)
    BY <2>1 DEF SignedByOwn
  <2> QED
    BY <2>2, <2>3 DEF w
<1>4. LET w == [v EXCEPT !["pk"] = Partial, !["sk"] = Partial] IN KeysPaired(w) /\ SignedByOwn(w)
  <2> DEFINE w == [v EXCEPT !["pk"] = Partial, !["sk"] = Partial]
  <2>1. w["pk"] = Partial /\ w["sig"] = v["sig"]
    BY DEF Buffers
  <2> HIDE DEF w
  <2>2. KeysPaired(w)
    BY <2>1 DEF KeysPaired, PublicKey, Partial
  <2>3. SignedByOwn(w)
    BY <2>1 DEF SignedByOwn
  <2> QED
    BY <2>2, <2>3 DEF w
<1>5. ASSUME NEW m
      PROVE  LET w == [v EXCEPT !["sig"] = Signature(b, EmbeddedKey(b, v["sk"]), m)]
             IN  KeysPaired(w) /\ SignedByOwn(w)
  <2> DEFINE key == EmbeddedKey(b, v["sk"])
             w == [v EXCEPT !["sig"] = Signature(b, key, m)]
  <2>1. w["pk"] = v["pk"] /\ w["sk"] = v["sk"] /\ w["sig"] = Signature(b, key, m)
    BY DEF Buffers
  <2>2. key = Opaque \/ \E x \in Entropy : key = PublicKey(b, x)
    BY EmbeddedIsOwn
  <2> HIDE DEF key, w
  <2>3. KeysPaired(w)
    BY <2>1 DEF KeysPaired
  <2>4. SignedByOwn(w)
    BY <2>1, <2>2 DEF SignedByOwn, Signature
  <2> QED
    BY <2>3, <2>4 DEF w, key
<1> QED
  BY <1>1, <1>2, <1>3, <1>4, <1>5

(* A returning call that stored v. *)
LEMMA ReturnKeeps ==
  ASSUME ControlOK, Typed(val), VerdictInv, NEW t \in Clients, NEW s, Return(t, s),
         NEW v, val' = [val EXCEPT ![t] = v], ClientInv(v, msg[t], Outcome(t, s))
  PROVE  VerdictInv'
<1> DEFINE m == msg[t]
           q == Outcome(t, s)
<1>1. msg' = [msg EXCEPT ![t] = m]
  BY DEF Return, ControlOK
<1>2. ret' = [ret EXCEPT ![t] = q] /\ ClientInv(v, m, q)
  BY Returned
<1> HIDE DEF m, q
<1> QED
  BY <1>1, <1>2, OneClient

LEMMA VerdictInit == Init => VerdictInv
BY DEF Init, VerdictInv, ClientInv, KeysPaired, SignedByOwn, VerdictRight, NoReturn, Buffers,
       Junk, PublicKey, Signature

LEMMA RunKeeps ==
  ASSUME ControlOK, Typed(val), VerdictInv, NEW t \in Clients, Run(t)
  PROVE  VerdictInv'
<1> DEFINE v == val[t]
<1>a. /\ v \in [Buffers -> Contents] /\ v["pk"] \in Holds("pk")
      /\ ClientInv(v, msg[t], ret[t]) /\ KeysPaired(v) /\ SignedByOwn(v)
  BY DEF Typed, VerdictInv, ClientInv, Buffers
<1>b. ASSUME UNCHANGED val PROVE val' = [val EXCEPT ![t] = v]
  BY <1>b DEF Typed
<1>c. \A s : Outcome(t, s).op = call[t].op /\ Outcome(t, s).status = s
             /\ Outcome(t, s).backend = call[t].backend
             /\ Outcome(t, s).exact = (call[t].len["sig"] = Size(call[t].backend, "sig"))
  BY DEF Outcome
<1>1. CASE RejectNull(t) \/ RejectShort(t)
  <2>1. PICK s \in {"INVALID_ARG", "BUFFER_TOO_SMALL"} : Return(t, s) /\ UNCHANGED val
    BY <1>1 DEF RejectNull, RejectShort
  <2>2. ClientInv(v, msg[t], Outcome(t, s))
    BY <1>a, <1>c, NoVerdict
  <2> HIDE DEF v
  <2> QED
    BY <1>b, <2>1, <2>2, ReturnKeeps
<1>2. ASSUME NEW b \in Backends, NEW x \in Entropy, call[t].op = "keypair", Return(t, "OK"),
             val' = [val EXCEPT ![t]["pk"] = PublicKey(b, x), ![t]["sk"] = SecretKey(b, x)]
      PROVE  VerdictInv'
  <2> DEFINE w == [v EXCEPT !["pk"] = PublicKey(b, x), !["sk"] = SecretKey(b, x)]
  <2>1. KeysPaired(w) /\ SignedByOwn(w)
    BY <1>a, StoredRight
  <2>2. val' = [val EXCEPT ![t] = w]
    BY <1>2 DEF Typed
  <2> HIDE DEF w
  <2>3. ClientInv(w, msg[t], Outcome(t, "OK"))
    BY <1>c, <1>2, <2>1, NoVerdict
  <2> QED
    BY <1>2, <2>2, <2>3, ReturnKeeps
<1>3. ASSUME call[t].op = "keypair", Return(t, "KEYGEN_FAILED"),
             val' = [val EXCEPT ![t]["pk"] = Partial, ![t]["sk"] = Partial]
      PROVE  VerdictInv'
  <2> DEFINE w == [v EXCEPT !["pk"] = Partial, !["sk"] = Partial]
  <2>1. KeysPaired(w) /\ SignedByOwn(w)
    BY <1>a, StoredRight DEF Backends
  <2>2. val' = [val EXCEPT ![t] = w]
    BY <1>3 DEF Typed
  <2> HIDE DEF w
  <2>3. ClientInv(w, msg[t], Outcome(t, "KEYGEN_FAILED"))
    BY <1>c, <1>3, <2>1, NoVerdict
  <2> QED
    BY <1>3, <2>2, <2>3, ReturnKeeps
<1>4. CASE DummyKeypair(t)
  <2>1. call[t].op = "keypair" /\ "DUMMY" \in Backends
    BY <1>4 DEF DummyKeypair, Accepted, Backends
  <2>2. Return(t, "OK") /\ \E x \in Entropy :
             val' = [val EXCEPT ![t]["pk"] = PublicKey("DUMMY", x), ![t]["sk"] = SecretKey("DUMMY", x)]
    BY <1>4 DEF DummyKeypair
  <2> QED
    BY <2>1, <2>2, <1>2
<1>5. CASE MldsaKeypair(t)
  <2>1. call[t].op = "keypair" /\ "MLDSA" \in Backends
    BY <1>5 DEF MldsaKeypair, Accepted, Backends
  <2>2. \/ Return(t, "OK") /\ \E x \in Entropy :
             val' = [val EXCEPT ![t]["pk"] = PublicKey("MLDSA", x), ![t]["sk"] = SecretKey("MLDSA", x)]
        \/ /\ val' = [val EXCEPT ![t]["pk"] = Partial, ![t]["sk"] = Partial]
           /\ Return(t, "KEYGEN_FAILED")
    BY <1>5 DEF MldsaKeypair
  <2> QED
    BY <2>1, <2>2, <1>2, <1>3
<1>6. ASSUME NEW b \in Backends, NEW s, Return(t, s), call[t].op = "sign",
             val' = [val EXCEPT ![t]["sig"] = Signature(b, EmbeddedKey(b, val[t]["sk"]), msg[t])]
      PROVE  VerdictInv'
  <2> DEFINE w == [v EXCEPT !["sig"] = Signature(b, EmbeddedKey(b, v["sk"]), msg[t])]
  <2>1. KeysPaired(w) /\ SignedByOwn(w)
    BY <1>a, StoredRight
  <2>2. val' = [val EXCEPT ![t] = w]
    BY <1>6 DEF Typed
  <2> HIDE DEF w
  <2>3. ClientInv(w, msg[t], Outcome(t, s))
    BY <1>6, <1>c, <2>1, NoVerdict
  <2> QED
    BY <1>6, <2>2, <2>3, ReturnKeeps
<1>7. ASSUME NEW s, Return(t, s), call[t].op = "sign", val' = [val EXCEPT ![t]["sig"] = Partial]
      PROVE  VerdictInv'
  <2> DEFINE w == [v EXCEPT !["sig"] = Partial]
  <2>1. KeysPaired(w) /\ SignedByOwn(w)
    BY <1>a, StoredRight DEF Backends
  <2>2. val' = [val EXCEPT ![t] = w]
    BY <1>7 DEF Typed
  <2> HIDE DEF w
  <2>3. ClientInv(w, msg[t], Outcome(t, s))
    BY <1>7, <1>c, <2>1, NoVerdict
  <2> QED
    BY <1>7, <2>2, <2>3, ReturnKeeps
<1>8. CASE DummySign(t)
  BY <1>8, <1>6 DEF DummySign, Accepted, Backends
<1>9. CASE MldsaSign(t)
  <2>1. call[t].op = "sign" /\ "MLDSA" \in Backends
    BY <1>9 DEF MldsaSign, Accepted, Backends
  <2>2. \/ /\ val' = [val EXCEPT ![t]["sig"] = Signature("MLDSA", EmbeddedKey("MLDSA", val[t]["sk"]), msg[t])]
           /\ Return(t, "OK")
        \/ val' = [val EXCEPT ![t]["sig"] = Partial] /\ Return(t, "SIGN_FAILED")
    BY <1>9 DEF MldsaSign
  <2> QED
    BY <2>1, <2>2, <1>6, <1>7
<1>10. CASE DummyVerify(t)
  <2> DEFINE s == IF v["sig"] = Signature("DUMMY", v["pk"], msg[t]) THEN "OK" ELSE "VERIFY_FAILED"
  <2>1. call[t].backend = "DUMMY" /\ Return(t, s) /\ UNCHANGED val
    BY <1>10 DEF DummyVerify, Accepted
  <2>2. s = "OK" <=> Made(v, msg[t], "DUMMY")
    BY <1>a, MatchIsGenuine DEF Backends
  <2> HIDE DEF s, v
  <2>3. ClientInv(v, msg[t], Outcome(t, s))
    BY <1>a, <1>c, <2>1, <2>2 DEF ClientInv, VerdictRight
  <2> QED
    BY <1>b, <2>1, <2>3, ReturnKeeps
<1>11. CASE MldsaVerify(t)
  <2> DEFINE exact == call[t].len["sig"] = Size("MLDSA", "sig")
             s == IF exact /\ v["sig"] = Signature("MLDSA", v["pk"], msg[t]) THEN "OK" ELSE "VERIFY_FAILED"
  <2>1. call[t].backend = "MLDSA" /\ Return(t, s) /\ UNCHANGED val
    BY <1>11 DEF MldsaVerify, Accepted
  <2>2. s = "OK" <=> Made(v, msg[t], "MLDSA") /\ exact
    BY <1>a, MatchIsGenuine DEF Backends
  <2>3. Outcome(t, s).exact = exact
    BY <1>c, <2>1
  <2> HIDE DEF s, v, exact
  <2>4. ClientInv(v, msg[t], Outcome(t, s))
    BY <1>a, <1>c, <2>1, <2>2, <2>3 DEF ClientInv, VerdictRight
  <2> QED
    BY <1>b, <2>1, <2>4, ReturnKeeps
<1> QED
  BY <1>1, <1>4, <1>5, <1>8, <1>9, <1>10, <1>11 DEF Run

(* Verification is exact - on both backends, through every change of       *)
(* message, key, signature and selector, for any threads and messages.     *)
THEOREM SigVerdicts == Spec => []VerifyExact
<1>1. TypeOK /\ VerdictInv /\ [Next]_vars => VerdictInv'
  <2> SUFFICES ASSUME ControlOK, Typed(val), VerdictInv, [Next]_vars PROVE VerdictInv'
    BY TypeParts
  <2>a. ASSUME UNCHANGED <<val, msg, ret>> PROVE VerdictInv'
    BY <2>a DEF VerdictInv, ClientInv, KeysPaired, SignedByOwn, VerdictRight, Made
  <2>b. NoReturn.op # "verify"
    BY DEF NoReturn
  <2>1. ASSUME NEW t \in Threads, NEW a, SetAlgorithm(t, a) PROVE VerdictInv'
    BY <2>1, <2>a DEF SetAlgorithm
  <2>2. ASSUME NEW t \in Clients, NEW slack \in 0..MaxSlack, NEW short \in SUBSET Buffers,
               GetSizes(t, slack, short)
        PROVE  VerdictInv'
    <3> DEFINE blank == [b \in Buffers |-> Junk]
               m == msg[t]
    <3>1. KeysPaired(blank) /\ SignedByOwn(blank)
      BY DEF KeysPaired, SignedByOwn, Buffers, Junk, PublicKey, Signature
    <3>2. /\ val' = [val EXCEPT ![t] = blank]
          /\ msg' = [msg EXCEPT ![t] = m]
          /\ ret' = [ret EXCEPT ![t] = NoReturn]
      BY <2>2 DEF GetSizes, ControlOK
    <3> HIDE DEF blank, m
    <3> QED
      BY <2>b, <3>1, <3>2, NoVerdict, OneClient
  <2>3. ASSUME NEW t \in Clients, NEW n \in Messages, ChangeMessage(t, n) PROVE VerdictInv'
    <3> DEFINE v == val[t]
    <3>1. KeysPaired(v) /\ SignedByOwn(v)
      BY DEF VerdictInv, ClientInv
    <3>2. /\ val' = [val EXCEPT ![t] = v]
          /\ msg' = [msg EXCEPT ![t] = n]
          /\ ret' = [ret EXCEPT ![t] = NoReturn]
      BY <2>3 DEF ChangeMessage, Typed
    <3> HIDE DEF v
    <3> QED
      BY <2>b, <3>1, <3>2, NoVerdict, OneClient
  <2>4. ASSUME NEW t \in Clients, NEW b \in {"pk", "sig"}, Tamper(t, b) PROVE VerdictInv'
    <3> DEFINE w == [val[t] EXCEPT ![b] = Tampered]
               m == msg[t]
    <3>1. KeysPaired(w) /\ SignedByOwn(w)
      BY StoredRight DEF VerdictInv, ClientInv, Typed, Backends
    <3>2. /\ val' = [val EXCEPT ![t] = w]
          /\ msg' = [msg EXCEPT ![t] = m]
          /\ ret' = [ret EXCEPT ![t] = NoReturn]
      BY <2>4 DEF Tamper, Typed, ControlOK
    <3> HIDE DEF w, m
    <3> QED
      BY <2>b, <3>1, <3>2, NoVerdict, OneClient
  <2>5. ASSUME NEW t \in Clients, NEW op \in Ops, NEW null \in SUBSET PointersOf(op),
               Dispatch(t, op, null)
        PROVE  VerdictInv'
    BY <2>5, <2>a DEF Dispatch
  <2>6. ASSUME NEW t \in Clients, Run(t) PROVE VerdictInv'
    BY <2>6, RunKeeps
  <2>7. CASE UNCHANGED vars
    BY <2>7, <2>a DEF vars
  <2> QED
    BY <2>1, <2>2, <2>3, <2>4, <2>5, <2>6, <2>7 DEF Next
<1>2. VerdictInv => VerifyExact
  BY DEF VerdictInv, ClientInv, VerdictRight, Made, VerifyExact, Genuine
<1> QED
  BY <1>1, <1>2, VerdictInit, SigTyping, PTL DEF Spec

-----------------------------------------------------------------------------
(* The strengthening of HonestUseSucceeds, for one client's buffers v,     *)
(* message m and last result r: a clean call ended the way its operation   *)
(* ends.  What a clean verification then said is VerifyExact.              *)
Pair(v, b) ==
    \E x \in Entropy : v["pk"] = PublicKey(b, x) /\ v["sk"] = SecretKey(b, x)

EndedWell(v, m, r) ==
    r.clean =>
        CASE r.op = "keypair" ->
                r.status = "OK" \/ (r.status = "KEYGEN_FAILED" /\ r.backend = "MLDSA")
          [] r.op = "sign"    ->
                \/ r.status = "SIGN_FAILED" /\ r.backend = "MLDSA"
                \/ r.status = "OK" /\ (Pair(v, r.backend) => Made(v, m, r.backend))
          [] r.op = "verify"  -> r.status \in {"OK", "VERIFY_FAILED"}

EndingsInv == \A t \in Clients : EndedWell(val[t], msg[t], ret[t])

(* What an accepted call of each operation has to store and report. *)
LEMMA KeypairEnds ==
  \A v, m, r :
     r.op = "keypair" /\ (r.status = "OK" \/ (r.status = "KEYGEN_FAILED" /\ r.backend = "MLDSA"))
     => EndedWell(v, m, r)
BY DEF EndedWell

LEMMA SignEnds ==
  ASSUME NEW v \in [Buffers -> Contents], NEW m, NEW r, NEW b, r.op = "sign", r.status = "OK",
         r.backend = b
  PROVE  EndedWell([v EXCEPT !["sig"] = Signature(b, EmbeddedKey(b, v["sk"]), m)], m, r)
<1> DEFINE w == [v EXCEPT !["sig"] = Signature(b, EmbeddedKey(b, v["sk"]), m)]
<1>1. w["sk"] = v["sk"] /\ w["pk"] = v["pk"] /\ w["sig"] = Signature(b, EmbeddedKey(b, v["sk"]), m)
  BY DEF Buffers
<1> HIDE DEF w
<1>2. ASSUME NEW x \in Entropy, w["pk"] = PublicKey(b, x), w["sk"] = SecretKey(b, x)
      PROVE  Made(w, m, b)
  <2>1. EmbeddedKey(b, w["sk"]) = PublicKey(b, x)
    BY <1>2 DEF EmbeddedKey, SecretKey
  <2> QED
    BY <1>1, <1>2, <2>1 DEF Made
<1> QED
  BY <1>1, <1>2 DEF EndedWell, Pair, w

LEMMA SignFails ==
  \A v, m, r : r.op = "sign" /\ r.status = "SIGN_FAILED" /\ r.backend = "MLDSA" => EndedWell(v, m, r)
BY DEF EndedWell

LEMMA VerifyEnds ==
  \A v, m, r : r.op = "verify" /\ r.status \in {"OK", "VERIFY_FAILED"} => EndedWell(v, m, r)
BY DEF EndedWell

(* A step that changes one client's buffers, message and result. *)
LEMMA OneEnding ==
  ASSUME ControlOK, Typed(val), EndingsInv, NEW t \in Clients, NEW v, NEW m, NEW q,
         EndedWell(v, m, q), val' = [val EXCEPT ![t] = v],
         msg' = [msg EXCEPT ![t] = m], ret' = [ret EXCEPT ![t] = q]
  PROVE  EndingsInv'
<1> SUFFICES ASSUME NEW u \in Clients PROVE EndedWell(val'[u], msg'[u], ret'[u])
  BY DEF EndingsInv, EndedWell, Pair, Made
<1>1. CASE u = t
  BY <1>1 DEF ControlOK, Typed
<1>2. CASE u # t
  <2>1. val'[u] = val[u] /\ msg'[u] = msg[u] /\ ret'[u] = ret[u]
    BY <1>2 DEF ControlOK, Typed
  <2>2. EndedWell(val[u], msg[u], ret[u])
    BY DEF EndingsInv
  <2> QED
    BY <2>1, <2>2
<1> QED
  BY <1>1, <1>2

(* A returning call that stored v; one refused for its arguments was not   *)
(* clean.                                                                  *)
LEMMA EndingKeeps ==
  ASSUME ControlOK, Typed(val), EndingsInv, NEW t \in Clients, NEW s, Return(t, s),
         NEW v, val' = [val EXCEPT ![t] = v], EndedWell(v, msg[t], Outcome(t, s))
  PROVE  EndingsInv'
<1> DEFINE m == msg[t]
           q == Outcome(t, s)
<1>1. msg' = [msg EXCEPT ![t] = m]
  BY DEF Return, ControlOK
<1>2. ret' = [ret EXCEPT ![t] = q] /\ EndedWell(v, m, q)
  BY Returned
<1> HIDE DEF m, q
<1> QED
  BY <1>1, <1>2, OneEnding

LEMMA RefusedIsNotClean ==
  ASSUME ControlOK, NEW t \in Clients, RejectNull(t) \/ RejectShort(t)
  PROVE  ~Clean(t)
<1>1. CASE RejectNull(t)
  BY <1>1 DEF RejectNull, Clean
<1>2. CASE RejectShort(t)
  <2>1. PICK b \in BuffersOf(call[t].op) : call[t].len[b] < Size(call[t].backend, b)
    BY <1>2 DEF RejectShort, TooShort
  <2>2. b \in Buffers
    BY <2>1, ArgumentsKnown DEF ControlOK, Calls
  <2>3. call[t].len[b] \in Nat /\ Size(call[t].backend, b) \in Nat
    BY <2>2, SizeNat DEF ControlOK, Calls
  <2> QED
    BY <2>1, <2>3 DEF Clean
<1> QED
  BY <1>1, <1>2

LEMMA RunEnds ==
  ASSUME ControlOK, Typed(val), EndingsInv, NEW t \in Clients, Run(t)
  PROVE  EndingsInv'
<1> DEFINE v == val[t]
<1>a. v \in [Buffers -> Contents] /\ (UNCHANGED val => val' = [val EXCEPT ![t] = v])
  BY DEF Typed
<1>b. \A s : Outcome(t, s).op = call[t].op /\ Outcome(t, s).status = s
             /\ Outcome(t, s).backend = call[t].backend /\ Outcome(t, s).clean = Clean(t)
  BY DEF Outcome
<1>1. CASE RejectNull(t) \/ RejectShort(t)
  <2>1. PICK s : Return(t, s) /\ UNCHANGED val
    BY <1>1 DEF RejectNull, RejectShort
  <2>2. EndedWell(v, msg[t], Outcome(t, s))
    BY <1>1, <1>b, RefusedIsNotClean DEF EndedWell
  <2> HIDE DEF v
  <2> QED
    BY <1>a, <2>1, <2>2, EndingKeeps
<1>2. ASSUME NEW b \in Backends, NEW x \in Entropy, call[t].op = "keypair", Return(t, "OK"),
             val' = [val EXCEPT ![t]["pk"] = PublicKey(b, x), ![t]["sk"] = SecretKey(b, x)]
      PROVE  EndingsInv'
  <2> DEFINE w == [v EXCEPT !["pk"] = PublicKey(b, x), !["sk"] = SecretKey(b, x)]
  <2>1. val' = [val EXCEPT ![t] = w]
    BY <1>2 DEF Typed
  <2>2. EndedWell(w, msg[t], Outcome(t, "OK"))
    BY <1>2, <1>b, KeypairEnds
  <2> HIDE DEF w
  <2> QED
    BY <1>2, <2>1, <2>2, EndingKeeps
<1>3. ASSUME call[t].op = "keypair", call[t].backend = "MLDSA", Return(t, "KEYGEN_FAILED"),
             val' = [val EXCEPT ![t]["pk"] = Partial, ![t]["sk"] = Partial]
      PROVE  EndingsInv'
  <2> DEFINE w == [v EXCEPT !["pk"] = Partial, !["sk"] = Partial]
  <2>1. val' = [val EXCEPT ![t] = w]
    BY <1>3 DEF Typed
  <2>2. EndedWell(w, msg[t], Outcome(t, "KEYGEN_FAILED"))
    BY <1>3, <1>b, KeypairEnds
  <2> HIDE DEF w
  <2> QED
    BY <1>3, <2>1, <2>2, EndingKeeps
<1>4. CASE DummyKeypair(t)
  <2>1. call[t].op = "keypair" /\ "DUMMY" \in Backends
    BY <1>4 DEF DummyKeypair, Accepted, Backends
  <2>2. Return(t, "OK") /\ \E x \in Entropy :
             val' = [val EXCEPT ![t]["pk"] = PublicKey("DUMMY", x), ![t]["sk"] = SecretKey("DUMMY", x)]
    BY <1>4 DEF DummyKeypair
  <2> QED
    BY <2>1, <2>2, <1>2
<1>5. CASE MldsaKeypair(t)
  <2>1. call[t].op = "keypair" /\ call[t].backend = "MLDSA" /\ "MLDSA" \in Backends
    BY <1>5 DEF MldsaKeypair, Accepted, Backends
  <2>2. \/ Return(t, "OK") /\ \E x \in Entropy :
             val' = [val EXCEPT ![t]["pk"] = PublicKey("MLDSA", x), ![t]["sk"] = SecretKey("MLDSA", x)]
        \/ /\ val' = [val EXCEPT ![t]["pk"] = Partial, ![t]["sk"] = Partial]
           /\ Return(t, "KEYGEN_FAILED")
    BY <1>5 DEF MldsaKeypair
  <2> QED
    BY <2>1, <2>2, <1>2, <1>3
<1>6. ASSUME NEW b \in Backends, Return(t, "OK"), call[t].op = "sign", call[t].backend = b,
             val' = [val EXCEPT ![t]["sig"] = Signature(b, EmbeddedKey(b, val[t]["sk"]), msg[t])]
      PROVE  EndingsInv'
  <2> DEFINE w == [v EXCEPT !["sig"] = Signature(b, EmbeddedKey(b, v["sk"]), msg[t])]
  <2>1. EndedWell(w, msg[t], Outcome(t, "OK"))
    BY <1>6, <1>a, <1>b, SignEnds
  <2>2. val' = [val EXCEPT ![t] = w]
    BY <1>6 DEF Typed
  <2> HIDE DEF w
  <2> QED
    BY <1>6, <2>1, <2>2, EndingKeeps
<1>7. ASSUME Return(t, "SIGN_FAILED"), call[t].op = "sign", call[t].backend = "MLDSA",
             val' = [val EXCEPT ![t]["sig"] = Partial]
      PROVE  EndingsInv'
  <2> DEFINE w == [v EXCEPT !["sig"] = Partial]
  <2>1. val' = [val EXCEPT ![t] = w]
    BY <1>7 DEF Typed
  <2>2. EndedWell(w, msg[t], Outcome(t, "SIGN_FAILED"))
    BY <1>7, <1>b, SignFails
  <2> HIDE DEF w
  <2> QED
    BY <1>7, <2>1, <2>2, EndingKeeps
<1>8. CASE DummySign(t)
  BY <1>8, <1>6 DEF DummySign, Accepted, Backends
<1>9. CASE MldsaSign(t)
  <2>1. call[t].op = "sign" /\ call[t].backend = "MLDSA" /\ "MLDSA" \in Backends
    BY <1>9 DEF MldsaSign, Accepted, Backends
  <2>2. \/ /\ val' = [val EXCEPT ![t]["sig"] = Signature("MLDSA", EmbeddedKey("MLDSA", val[t]["sk"]), msg[t])]
           /\ Return(t, "OK")
        \/ val' = [val EXCEPT ![t]["sig"] = Partial] /\ Return(t, "SIGN_FAILED")
    BY <1>9 DEF MldsaSign
  <2> QED
    BY <2>1, <2>2, <1>6, <1>7
<1>10. CASE DummyVerify(t) \/ MldsaVerify(t)
  <2>1. PICK s \in {"OK", "VERIFY_FAILED"} : Return(t, s) /\ UNCHANGED val
    BY <1>10 DEF DummyVerify, MldsaVerify
  <2>2. call[t].op = "verify"
    BY <1>10 DEF DummyVerify, MldsaVerify, Accepted
  <2> HIDE DEF v
  <2>3. EndedWell(v, msg[t], Outcome(t, s))
    BY <1>b, <2>2, VerifyEnds
  <2> QED
    BY <1>a, <2>1, <2>3, EndingKeeps
<1> QED
  BY <1>1, <1>4, <1>5, <1>8, <1>9, <1>10 DEF Run

(* Every step outside the backend functions either leaves the buffers, the *)
(* message and the result alone, or forgets the result.                    *)
LEMMA EndingsStep ==
  ASSUME ControlOK, Typed(val), EndingsInv, [Next]_vars
  PROVE  EndingsInv'
<1>a. ASSUME UNCHANGED <<val, msg, ret>> PROVE EndingsInv'
  BY <1>a DEF EndingsInv, EndedWell, Pair, Made
<1>b. \A v, m : EndedWell(v, m, NoReturn)
  BY DEF NoReturn, EndedWell
<1>c. ASSUME NEW t \in Clients, NEW v, NEW m, val' = [val EXCEPT ![t] = v],
             msg' = [msg EXCEPT ![t] = m], ret' = [ret EXCEPT ![t] = NoReturn]
      PROVE  EndingsInv'
  BY <1>b, <1>c, OneEnding
<1>1. ASSUME NEW t \in Threads, NEW a, SetAlgorithm(t, a) PROVE EndingsInv'
  BY <1>1, <1>a DEF SetAlgorithm
<1>2. ASSUME NEW t \in Clients, NEW slack \in 0..MaxSlack, NEW short \in SUBSET Buffers,
             GetSizes(t, slack, short)
      PROVE  EndingsInv'
  <2>1. msg' = [msg EXCEPT ![t] = msg[t]]
    BY <1>2 DEF GetSizes, ControlOK
  <2> QED
    BY <1>2, <2>1, <1>c DEF GetSizes
<1>3. ASSUME NEW t \in Clients, NEW n \in Messages, ChangeMessage(t, n) PROVE EndingsInv'
  <2>1. val' = [val EXCEPT ![t] = val[t]]
    BY <1>3 DEF ChangeMessage, Typed
  <2> QED
    BY <1>3, <2>1, <1>c DEF ChangeMessage
<1>4. ASSUME NEW t \in Clients, NEW b \in {"pk", "sig"}, Tamper(t, b) PROVE EndingsInv'
  <2>1. msg' = [msg EXCEPT ![t] = msg[t]] /\ ret' = [ret EXCEPT ![t] = NoReturn]
    BY <1>4 DEF Tamper, ControlOK
  <2>2. val' = [val EXCEPT ![t] = [val[t] EXCEPT ![b] = Tampered]]
    BY <1>4 DEF Tamper, Typed
  <2> QED
    BY <2>1, <2>2, <1>c
<1>5. ASSUME NEW t \in Clients, NEW op \in Ops, NEW null \in SUBSET PointersOf(op),
             Dispatch(t, op, null)
      PROVE  EndingsInv'
  BY <1>5, <1>a DEF Dispatch
<1>6. ASSUME NEW t \in Clients, Run(t) PROVE EndingsInv'
  BY <1>6, RunEnds
<1>7. CASE UNCHANGED vars
  BY <1>7, <1>a DEF vars
<1> QED
  BY <1>1, <1>2, <1>3, <1>4, <1>5, <1>6, <1>7 DEF Next

(* Honest use succeeds however the selector moves, for any threads,        *)
(* messages, entropy, slack and results of the vendored calls: a call      *)
(* with large enough buffers is never refused for its arguments, what it   *)
(* signs with a pair of its backend is genuine, and what is genuine and of *)
(* the exact length verifies.                                              *)
THEOREM SigHonestUse == Spec => []HonestUseSucceeds
<1>1. Init => EndingsInv
  BY DEF Init, EndingsInv, EndedWell, NoReturn
<1>2. TypeOK /\ EndingsInv /\ [Next]_vars => EndingsInv'
  BY TypeParts, EndingsStep
<1>3. TypeOK /\ VerifyExact /\ EndingsInv => HonestUseSucceeds
  <2> SUFFICES ASSUME ControlOK, VerifyExact, EndingsInv, NEW t \in Clients, ret[t].clean
               PROVE  CASE ret[t].op = "keypair" ->
                              \/ ret[t].status = "OK"
                              \/ ret[t].status = "KEYGEN_FAILED" /\ ret[t].backend = "MLDSA"
                        [] ret[t].op = "sign"    ->
                              \/ ret[t].status = "SIGN_FAILED" /\ ret[t].backend = "MLDSA"
                              \/ /\ ret[t].status = "OK"
                                 /\ PairOf(t, ret[t].backend) => Genuine(t, ret[t].backend)
                        [] ret[t].op = "verify"  ->
                              Genuine(t, ret[t].backend) /\ ret[t].exact => ret[t].status = "OK"
    BY TypeParts DEF HonestUseSucceeds
  <2>1. EndedWell(val[t], msg[t], ret[t]) /\ ret[t].op \in Ops
    BY DEF EndingsInv, ControlOK, Results
  <2>2. \A b : (Genuine(t, b) <=> Made(val[t], msg[t], b)) /\ (PairOf(t, b) <=> Pair(val[t], b))
    BY DEF Genuine, Made, PairOf, Pair
  <2>3. CASE ret[t].op = "keypair"
    BY <2>1, <2>3 DEF EndedWell
  <2>4. CASE ret[t].op = "sign"
    BY <2>1, <2>2, <2>4 DEF EndedWell
  <2>5. CASE ret[t].op = "verify"
    <3>1. ret[t].status \in {"OK", "VERIFY_FAILED"}
      BY <2>1, <2>5 DEF EndedWell
    <3>2. Genuine(t, ret[t].backend) /\ ret[t].exact => ret[t].status = "OK"
      BY <2>5, <3>1 DEF VerifyExact
    <3> QED
      BY <2>5, <3>2
  <2> QED
    BY <2>1, <2>3, <2>4, <2>5 DEF Ops
<1> QED
  BY <1>1, <1>2, <1>3, SigTyping, SigVerdicts, PTL DEF Spec
=============================================================================
