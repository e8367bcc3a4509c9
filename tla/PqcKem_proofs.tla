---------------------------- MODULE PqcKem_proofs ----------------------------
(***************************************************************************)
(* Theorems about PqcKem, for any threads, clients, entropy, builds and    *)
(* results of the vendored primitives, locked or not.                      *)
(***************************************************************************)
EXTENDS PqcKem, TLAPS

(* TypeOK, split into what the library's calls leave alone or set through  *)
(* Return, the accessed extents, and the contents of the buffers.          *)
ControlOK ==
    /\ connected \in BOOLEAN
    /\ alg \in Algorithms
    /\ pc \in [Clients -> {"idle", "run"}]
    /\ call \in [Clients -> [op : Ops, backend : Backends, null : SUBSET Buffers,
                             len : [Buffers -> Nat]]]
    /\ cap \in [Clients -> [Buffers -> Nat]]
    /\ ret \in [Clients -> [op : Ops, backend : Backends, clean : BOOLEAN, status : Statuses]]
    /\ holder \in Threads \cup {NoThread, NoLock}

ExtentsOK == ext \in [Clients -> [Buffers -> Nat]]

Typed(v) == /\ v \in [Clients -> [Buffers -> Contents]]
            /\ \A t \in Clients : \A b \in Buffers : v[t][b] \in Holds(b)

LEMMA TypeParts == TypeOK <=> ControlOK /\ ExtentsOK /\ Typed(val)
BY DEF TypeOK, ControlOK, ExtentsOK, Typed

-----------------------------------------------------------------------------
(* Facts about the operators. *)

LEMMA SizeNat == \A backend : \A b \in Buffers : Size(backend, b) \in Nat \ {0}
BY DEF Size, Buffers

LEMMA BuffersOfBuffers == \A op \in Ops : BuffersOf(op) \subseteq Buffers
BY DEF BuffersOf, Ops, Buffers

LEMMA HoldsContents == \A b \in Buffers : Holds(b) \subseteq Contents
BY DEF Holds, Buffers, Contents

LEMMA JunkHeld == \A b \in Buffers : Junk \in Holds(b)
BY DEF Holds, Buffers, Keys, SKeys, Ciphers, Secrets

LEMMA ActiveBackendTyped == ActiveBackend \in Backends
BY DEF ActiveBackend, Backends

(* Storing well-typed contents keeps every buffer well typed. *)
LEMMA PutTyped ==
  ASSUME NEW v, Typed(v), NEW t \in Clients, NEW b \in Buffers, NEW x \in Holds(b)
  PROVE  Typed([v EXCEPT ![t][b] = x])
BY HoldsContents DEF Typed

LEMMA PutTwoTyped ==
  ASSUME NEW v, Typed(v), NEW t \in Clients,
         NEW b \in Buffers, NEW x \in Holds(b), NEW c \in Buffers, NEW y \in Holds(c)
  PROVE  Typed([v EXCEPT ![t][b] = x, ![t][c] = y])
BY HoldsContents DEF Typed

(* What the constructors build may be stored where it is stored. *)
LEMMA KeyTyped ==
  ASSUME NEW b \in Backends, NEW r \in Entropy
  PROVE  PublicKey(b, r) \in Holds("pk") /\ SecretKey(b, r) \in Holds("sk")
BY DEF Holds, Keys, SKeys

LEMMA CipherTyped ==
  ASSUME NEW b \in Backends, NEW k \in Keys, NEW n \in Entropy
  PROVE  Ciphertext(b, k, n) \in Holds("ct") /\ Secret(b, k, n) \in Holds("ss") \cap Holds("sd")
BY DEF Holds, Ciphers, Secrets

(* The secret of a ciphertext that opens, and the constants, are secrets. *)
LEMMA SecretInTyped ==
  ASSUME NEW b \in Backends, NEW key, NEW c \in Ciphers, Opens(b, key, c)
  PROVE  SecretIn(c) \in Holds("sd")
<1>1. PICK n \in Entropy : c = Ciphertext(b, key, n)
  BY DEF Opens
<1>2. PICK b2 \in Backends, k2 \in Keys, n2 \in Entropy : c = Ciphertext(b2, k2, n2)
  BY <1>1 DEF Ciphers, Ciphertext, Junk, Partial, Tampered
<1>3. SecretIn(c) = Secret(b2, k2, n2)
  BY <1>2 DEF SecretIn, Ciphertext
<1> QED
  BY <1>3, CipherTyped

LEMMA ConstantsTyped ==
  /\ Zero \in Holds("ss") \cap Holds("sd")
  /\ RejectKey \in Holds("sd")
  /\ Partial \in Holds("pk") \cap Holds("sk") \cap Holds("ct")
  /\ Tampered \in Holds("ct")
BY DEF Holds, Keys, SKeys, Ciphers, Secrets

-----------------------------------------------------------------------------
(* What the two helpers of the backend functions do to the types. *)

LEMMA ReturnTyped ==
  ASSUME ControlOK, NEW t \in Clients, NEW s \in Statuses, Return(t, s)
  PROVE  ControlOK'
<1>1. NoCall \in [op : Ops, backend : Backends, null : SUBSET Buffers, len : [Buffers -> Nat]]
  BY DEF NoCall, NoBuffers, Ops, Backends
<1>2. Clean(t) \in BOOLEAN
  BY DEF Clean
<1> DEFINE r == [op |-> call[t].op, backend |-> call[t].backend,
                 clean |-> Clean(t), status |-> s]
<1>3. r \in [op : Ops, backend : Backends, clean : BOOLEAN, status : Statuses]
  BY <1>2 DEF ControlOK
<1>4. ret' = [ret EXCEPT ![t] = r] /\ call' = [call EXCEPT ![t] = NoCall]
  BY DEF Return
<1> HIDE DEF r
<1> QED
  BY <1>1, <1>3, <1>4 DEF ControlOK, Return

LEMMA AcceptedTyped ==
  ASSUME ExtentsOK, NEW t \in Clients, NEW op, NEW backend, Accepted(t, op, backend)
  PROVE  ExtentsOK'
BY SizeNat DEF ExtentsOK, Accepted

-----------------------------------------------------------------------------
(* Every variable keeps its type under every action. *)
THEOREM KemTyping == Spec => []TypeOK
<1>1. Init => TypeOK
  <2> SUFFICES ASSUME Init PROVE TypeOK
    OBVIOUS
  <2>1. Typed(val)
    BY JunkHeld, HoldsContents DEF Init, AllJunk, Typed
  <2>2. ExtentsOK
    BY DEF Init, NoBuffers, ExtentsOK
  <2>3. ControlOK
    <3>1. /\ NoCall \in [op : Ops, backend : Backends, null : SUBSET Buffers, len : [Buffers -> Nat]]
          /\ NoReturn \in [op : Ops, backend : Backends, clean : BOOLEAN, status : Statuses]
          /\ NoBuffers \in [Buffers -> Nat]
      BY DEF NoCall, NoReturn, NoBuffers, Ops, Backends, Statuses
    <3> QED
      BY <3>1, KemAssumption DEF Init, ControlOK, Algorithms
  <2> QED
    BY <2>1, <2>2, <2>3, TypeParts
<1>2. TypeOK /\ [Next]_vars => TypeOK'
  <2> SUFFICES ASSUME ControlOK, ExtentsOK, Typed(val), [Next]_vars
               PROVE  ControlOK' /\ ExtentsOK' /\ Typed(val)'
    BY DEF TypeOK, ControlOK, ExtentsOK, Typed
  <2> DEFINE Goal == ControlOK' /\ ExtentsOK' /\ Typed(val)'
  <2>a. /\ NoBuffers \in [Buffers -> Nat]
        /\ NoReturn \in [op : Ops, backend : Backends, clean : BOOLEAN, status : Statuses]
        /\ AllJunk \in [Buffers -> Contents]
        /\ \A b \in Buffers : AllJunk[b] \in Holds(b)
    BY JunkHeld, HoldsContents DEF NoBuffers, NoReturn, AllJunk, Ops, Backends, Statuses
  <2>1. ASSUME NEW t \in Threads, Acquire(t) PROVE Goal
    BY <2>1 DEF Acquire, ControlOK, ExtentsOK, Typed
  <2>2. ASSUME NEW t \in Threads, Release(t) PROVE Goal
    <3>1. CASE t \in Clients
      <4>1. Typed(val')
        BY <2>2, <2>a, <3>1 DEF Release, Typed
      <4>2. ExtentsOK'
        BY <2>2, <2>a, <3>1 DEF Release, ExtentsOK
      <4>3. ControlOK'
        BY <2>2, <2>a, <3>1, ZenonT(40) DEF Release, ControlOK
      <4> QED
        BY <4>1, <4>2, <4>3 DEF Typed
    <3>2. CASE t \notin Clients
      BY <2>2, <3>2 DEF Release, ControlOK, ExtentsOK, Typed
    <3> QED
      BY <3>1, <3>2
  <2>3. ASSUME NEW t \in Threads, NEW a, SetAlgorithm(t, a) PROVE Goal
    BY <2>3 DEF SetAlgorithm, ControlOK, ExtentsOK, Typed
  <2>4. ASSUME NEW t \in Clients, NEW short \in SUBSET Buffers, GetSizes(t, short) PROVE Goal
    <3> DEFINE sizes == [b \in Buffers |-> IF b \in short THEN Size(ActiveBackend, b) - 1
                                                          ELSE Size(ActiveBackend, b)]
    <3>1. sizes \in [Buffers -> Nat]
      BY SizeNat
    <3>2. cap' = [cap EXCEPT ![t] = sizes]
      BY <2>4 DEF GetSizes
    <3> HIDE DEF sizes
    <3> QED
      BY <2>4, <2>a, <3>1, <3>2 DEF GetSizes, ControlOK, ExtentsOK, Typed
  <2>5. ASSUME NEW t \in Clients, TamperCiphertext(t) PROVE Goal
    <3>1. Typed(val)'
      BY <2>5, PutTyped, ConstantsTyped DEF TamperCiphertext, Buffers
    <3> QED
      BY <2>5, <2>a, <3>1 DEF TamperCiphertext, ControlOK, ExtentsOK
  <2>6. ASSUME NEW t \in Clients, NEW op \in Ops, NEW null \in SUBSET BuffersOf(op),
               Dispatch(t, op, null)
        PROVE  Goal
    <3> DEFINE c == [op |-> op, backend |-> ActiveBackend, null |-> null, len |-> cap[t]]
    <3>1. cap[t] \in [Buffers -> Nat]
      BY DEF ControlOK
    <3>2. null \in SUBSET Buffers
      BY BuffersOfBuffers
    <3>3. c \in [op : Ops, backend : Backends, null : SUBSET Buffers, len : [Buffers -> Nat]]
      BY <3>1, <3>2, ActiveBackendTyped
    <3>4. /\ call' = [call EXCEPT ![t] = c]
          /\ pc' = [pc EXCEPT ![t] = "run"]
          /\ UNCHANGED <<connected, alg, cap, ext, val, ret, holder>>
      BY <2>6 DEF Dispatch
    <3> HIDE DEF c
    <3> QED
      BY <3>3, <3>4 DEF ControlOK, ExtentsOK, Typed
  <2>7. ASSUME NEW t \in Clients, Run(t) PROVE Goal
    <3> USE DEF Statuses
    <3>1. CASE RunPlaceholder(t)
      BY <3>1, ReturnTyped DEF RunPlaceholder, ExtentsOK, Typed
    <3>2. CASE RejectNull(t)
      BY <3>2, ReturnTyped DEF RejectNull, ExtentsOK, Typed
    <3>3. CASE RejectShort(t)
      BY <3>3, ReturnTyped DEF RejectShort, ExtentsOK, Typed
    <3>p. val[t]["pk"] \in Keys /\ val[t]["ct"] \in Ciphers
      BY DEF Typed, Holds, Buffers
    <3>b. "DUMMY" \in Backends /\ "MLKEM" \in Backends
      BY DEF Backends
    <3>c. "pk" \in Buffers /\ "sk" \in Buffers /\ "ct" \in Buffers /\ "ss" \in Buffers /\ "sd" \in Buffers
      BY DEF Buffers
    <3>4. CASE DummyKeypair(t)
      <4>1. PICK r \in Entropy :
               val' = [val EXCEPT ![t]["pk"] = PublicKey("DUMMY", r),
                                  ![t]["sk"] = SecretKey("DUMMY", r)]
        BY <3>4 DEF DummyKeypair
      <4>2. Typed(val')
        BY <4>1, <3>b, <3>c, KeyTyped, PutTwoTyped
      <4> QED
        BY <3>4, <4>2, ReturnTyped, AcceptedTyped DEF DummyKeypair, Typed
    <3>5. CASE DummyEncaps(t)
      <4>1. PICK n \in Entropy :
               val' = [val EXCEPT ![t]["ct"] = Ciphertext("DUMMY", val[t]["pk"], n),
                                  ![t]["ss"] = Secret("DUMMY", val[t]["pk"], n)]
        BY <3>5 DEF DummyEncaps
      <4>2. Typed(val')
        BY <4>1, <3>p, <3>b, <3>c, CipherTyped, PutTwoTyped
      <4> QED
        BY <3>5, <4>2, ReturnTyped, AcceptedTyped DEF DummyEncaps, Typed
    <3>6. CASE DummyDecaps(t)
      <4> DEFINE key == EmbeddedKey("DUMMY", val[t]["sk"])
      <4>1. CASE Opens("DUMMY", key, val[t]["ct"])
        <5>1. SecretIn(val[t]["ct"]) \in Holds("sd")
          BY <4>1, <3>p, <3>b, SecretInTyped
        <5>2. val' = [val EXCEPT ![t]["sd"] = SecretIn(val[t]["ct"])] /\ Return(t, "OK")
          BY <3>6, <4>1 DEF DummyDecaps
        <5>3. Typed(val')
          BY <5>1, <5>2, <3>c, PutTyped
        <5> QED
          BY <3>6, <5>2, <5>3, ReturnTyped, AcceptedTyped DEF DummyDecaps, Typed
      <4>2. CASE ~Opens("DUMMY", key, val[t]["ct"])
        <5>1. val' = [val EXCEPT ![t]["sd"] = Zero] /\ Return(t, "DECAP_FAILED")
          BY <3>6, <4>2 DEF DummyDecaps
        <5>2. Typed(val')
          BY <5>1, <3>c, ConstantsTyped, PutTyped
        <5> QED
          BY <3>6, <5>1, <5>2, ReturnTyped, AcceptedTyped DEF DummyDecaps, Typed
      <4> QED
        BY <4>1, <4>2
    <3>7. CASE MlkemKeypair(t)
      <4>1. PICK rc \in MlkemReturns :
               IF rc = 0
               THEN /\ \E r \in Entropy :
                          val' = [val EXCEPT ![t]["pk"] = PublicKey("MLKEM", r),
                                             ![t]["sk"] = SecretKey("MLKEM", r)]
                    /\ Return(t, "OK")
               ELSE /\ val' = [val EXCEPT ![t]["pk"] = Partial, ![t]["sk"] = Partial]
                    /\ Return(t, "KEYGEN_FAILED")
        BY <3>7 DEF MlkemKeypair
      <4>2. Typed(val')
        <5>1. CASE rc = 0
          <6>1. PICK r \in Entropy :
                   val' = [val EXCEPT ![t]["pk"] = PublicKey("MLKEM", r),
                                      ![t]["sk"] = SecretKey("MLKEM", r)]
            BY <4>1, <5>1
          <6> QED
            BY <6>1, <3>b, <3>c, KeyTyped, PutTwoTyped
        <5>2. CASE rc # 0
          BY <4>1, <5>2, <3>c, ConstantsTyped, PutTwoTyped
        <5> QED
          BY <5>1, <5>2
      <4>3. Return(t, "OK") \/ Return(t, "KEYGEN_FAILED")
        BY <4>1
      <4> QED
        BY <3>7, <4>2, <4>3, ReturnTyped, AcceptedTyped DEF MlkemKeypair, Typed
    <3>8. CASE MlkemEncaps(t)
      <4>1. PICK rc \in MlkemReturns :
               IF rc = 0
               THEN /\ \E n \in Entropy :
                          val' = [val EXCEPT ![t]["ct"] = Ciphertext("MLKEM", val[t]["pk"], n),
                                             ![t]["ss"] = Secret("MLKEM", val[t]["pk"], n)]
                    /\ Return(t, "OK")
               ELSE /\ val' = [val EXCEPT ![t]["ct"] = Partial, ![t]["ss"] = Zero]
                    /\ Return(t, "ENCAP_FAILED")
        BY <3>8 DEF MlkemEncaps
      <4>2. Typed(val')
        <5>1. CASE rc = 0
          <6>1. PICK n \in Entropy :
                   val' = [val EXCEPT ![t]["ct"] = Ciphertext("MLKEM", val[t]["pk"], n),
                                      ![t]["ss"] = Secret("MLKEM", val[t]["pk"], n)]
            BY <4>1, <5>1
          <6> QED
            BY <6>1, <3>p, <3>b, <3>c, CipherTyped, PutTwoTyped
        <5>2. CASE rc # 0
          BY <4>1, <5>2, <3>c, ConstantsTyped, PutTwoTyped
        <5> QED
          BY <5>1, <5>2
      <4>3. Return(t, "OK") \/ Return(t, "ENCAP_FAILED")
        BY <4>1
      <4> QED
        BY <3>8, <4>2, <4>3, ReturnTyped, AcceptedTyped DEF MlkemEncaps, Typed
    <3>9. CASE MlkemDecaps(t)
      <4> DEFINE key == EmbeddedKey("MLKEM", val[t]["sk"])
                 s == IF Opens("MLKEM", key, val[t]["ct"]) THEN SecretIn(val[t]["ct"])
                                                           ELSE RejectKey
      <4>1. s \in Holds("sd")
        BY <3>p, <3>b, SecretInTyped, ConstantsTyped
      <4>2. \/ val' = [val EXCEPT ![t]["sd"] = s] /\ Return(t, "OK")
            \/ val' = [val EXCEPT ![t]["sd"] = Zero] /\ Return(t, "DECAP_FAILED")
        BY <3>9 DEF MlkemDecaps
      <4> HIDE DEF s
      <4>3. Typed(val')
        BY <4>1, <4>2, <3>c, ConstantsTyped, PutTyped
      <4> QED
        BY <3>9, <4>2, <4>3, ReturnTyped, AcceptedTyped DEF MlkemDecaps, Typed
    <3> QED
      BY <2>7, <3>1, <3>2, <3>3, <3>4, <3>5, <3>6, <3>7, <3>8, <3>9 DEF Run
  <2>8. CASE UNCHANGED vars
    BY <2>8 DEF vars, ControlOK, ExtentsOK, Typed
  <2> QED
    BY <2>1, <2>2, <2>3, <2>4, <2>5, <2>6, <2>7, <2>8 DEF Next
<1> QED
  BY <1>1, <1>2, PTL DEF Spec

-----------------------------------------------------------------------------
(* The strengthening of NoOverrun: while a call runs, the lengths it was   *)
(* given do not exceed what its buffers were allocated with - the caller   *)
(* does not reallocate under a running call, whatever the selector does.   *)
LengthsHonest ==
    \A t \in Clients : pc[t] = "run" =>
        \A b \in Buffers : call[t].len[b] <= cap[t][b]

(* Both are kept by a step that returns from a backend function without    *)
(* accessing any buffer.                                                   *)
LEMMA ReturnKeepsLengths ==
  ASSUME ControlOK, LengthsHonest, NEW t \in Clients, NEW s, Return(t, s)
  PROVE  LengthsHonest'
BY DEF ControlOK, LengthsHonest, Return

(* A backend that accepted a call stays inside its buffers. *)
LEMMA AcceptedStaysInside ==
  ASSUME ControlOK, ExtentsOK, LengthsHonest, NoOverrun, NEW t \in Clients,
         NEW op \in Ops, NEW backend, Accepted(t, op, backend), UNCHANGED cap
  PROVE  NoOverrun'
<1>1. ASSUME NEW b \in BuffersOf(op) PROVE Size(backend, b) <= cap[t][b]
  <2>1. b \in Buffers
    BY BuffersOfBuffers
  <2>2. /\ call[t].len[b] <= cap[t][b]
        /\ ~(call[t].len[b] < Size(backend, b))
    BY <2>1 DEF Accepted, TooShort, LengthsHonest
  <2>3. call[t].len[b] \in Nat /\ cap[t][b] \in Nat /\ Size(backend, b) \in Nat
    BY <2>1, SizeNat DEF ControlOK
  <2> QED
    BY <2>2, <2>3
<1> QED
  BY <1>1 DEF NoOverrun, Accepted, ExtentsOK, ControlOK

(* Lengths are checked before memory is touched: no interleaving of        *)
(* reselections, sizings and calls makes a backend access a buffer beyond  *)
(* its allocation, for any number of threads.                              *)
THEOREM KemNoOverrun == Spec => []NoOverrun
<1>1. Init => LengthsHonest /\ NoOverrun
  BY DEF Init, LengthsHonest, NoOverrun, NoBuffers
<1>2. TypeOK /\ LengthsHonest /\ NoOverrun /\ [Next]_vars => LengthsHonest' /\ NoOverrun'
  <2> SUFFICES ASSUME ControlOK, ExtentsOK, LengthsHonest, NoOverrun, [Next]_vars
               PROVE  LengthsHonest' /\ NoOverrun'
    BY TypeParts
  <2> DEFINE Goal == LengthsHonest' /\ NoOverrun'
  <2>1. ASSUME NEW t \in Threads, Acquire(t) PROVE Goal
    BY <2>1 DEF Acquire, LengthsHonest, NoOverrun
  <2>2. ASSUME NEW t \in Threads, Release(t) PROVE Goal
    <3>1. CASE t \in Clients
      <4>1. /\ pc[t] = "idle" /\ UNCHANGED <<pc, call>>
            /\ cap' = [cap EXCEPT ![t] = NoBuffers]
            /\ ext' = [ext EXCEPT ![t] = NoBuffers]
        BY <2>2, <3>1 DEF Release
      <4>2. LengthsHonest'
        BY <4>1 DEF LengthsHonest, ControlOK
      <4>3. \A b \in Buffers : NoBuffers[b] <= NoBuffers[b]
        BY DEF NoBuffers
      <4>4. NoOverrun'
        BY <4>1, <4>3 DEF NoOverrun, ControlOK, ExtentsOK
      <4> QED
        BY <4>2, <4>4
    <3>2. CASE t \notin Clients
      BY <2>2, <3>2 DEF Release, LengthsHonest, NoOverrun
    <3> QED
      BY <3>1, <3>2
  <2>3. ASSUME NEW t \in Threads, NEW a, SetAlgorithm(t, a) PROVE Goal
    BY <2>3 DEF SetAlgorithm, LengthsHonest, NoOverrun
  <2>4. ASSUME NEW t \in Clients, NEW short \in SUBSET Buffers, GetSizes(t, short) PROVE Goal
    <3> DEFINE sizes == [b \in Buffers |-> IF b \in short THEN Size(ActiveBackend, b) - 1
                                                          ELSE Size(ActiveBackend, b)]
    <3>1. \A b \in Buffers : NoBuffers[b] <= sizes[b]
      BY SizeNat DEF NoBuffers
    <3>2. /\ cap' = [cap EXCEPT ![t] = sizes]
          /\ ext' = [ext EXCEPT ![t] = NoBuffers]
          /\ pc[t] = "idle" /\ UNCHANGED <<pc, call>>
      BY <2>4 DEF GetSizes
    <3> HIDE DEF sizes
    <3>3. NoOverrun'
      BY <3>1, <3>2 DEF NoOverrun, ControlOK, ExtentsOK
    <3>4. LengthsHonest'
      BY <3>2 DEF LengthsHonest, ControlOK
    <3> QED
      BY <3>3, <3>4
  <2>5. ASSUME NEW t \in Clients, TamperCiphertext(t) PROVE Goal
    BY <2>5 DEF TamperCiphertext, LengthsHonest, NoOverrun
  <2>6. ASSUME NEW t \in Clients, NEW op \in Ops, NEW null \in SUBSET BuffersOf(op),
               Dispatch(t, op, null)
        PROVE  Goal
    <3>1. \A b \in Buffers : cap[t][b] <= cap[t][b]
      BY DEF ControlOK
    <3>2. call'[t].len = cap[t] /\ \A u \in Clients : u # t => call'[u] = call[u] /\ pc'[u] = pc[u]
      BY <2>6 DEF Dispatch, ControlOK
    <3>3. UNCHANGED <<cap, ext>>
      BY <2>6 DEF Dispatch
    <3> QED
      BY <3>1, <3>2, <3>3 DEF LengthsHonest, NoOverrun
  <2>7. ASSUME NEW t \in Clients, Run(t) PROVE Goal
    <3>1. ASSUME NEW s, Return(t, s), UNCHANGED ext PROVE Goal
      BY <3>1, ReturnKeepsLengths DEF Return, NoOverrun
    <3>2. ASSUME NEW s, NEW op \in Ops, NEW backend, Return(t, s), Accepted(t, op, backend)
          PROVE  Goal
      BY <3>2, ReturnKeepsLengths, AcceptedStaysInside DEF Return
    <3>3. CASE RunPlaceholder(t) \/ RejectNull(t) \/ RejectShort(t)
      BY <3>1, <3>3 DEF RunPlaceholder, RejectNull, RejectShort
    <3>4. CASE DummyKeypair(t) \/ DummyEncaps(t) \/ DummyDecaps(t)
      BY <3>2, <3>4 DEF DummyKeypair, DummyEncaps, DummyDecaps, Ops
    <3>5. CASE MlkemKeypair(t) \/ MlkemEncaps(t) \/ MlkemDecaps(t)
      BY <3>2, <3>5 DEF MlkemKeypair, MlkemEncaps, MlkemDecaps, Ops
    <3> QED
      BY <2>7, <3>3, <3>4, <3>5 DEF Run
  <2>8. CASE UNCHANGED vars
    BY <2>8 DEF vars, LengthsHonest, NoOverrun
  <2> QED
    BY <2>1, <2>2, <2>3, <2>4, <2>5, <2>6, <2>7, <2>8 DEF Next
<1> QED
  BY <1>1, <1>2, KemTyping, PTL DEF Spec

-----------------------------------------------------------------------------
(* What the buffers of a client hold: whole key pairs and exact verdicts,  *)
(* while any thread may reselect the backend at any moment.                *)

(* The properties for one client's buffers v and last completed call r.    *)
Whole(v) ==
    \A b \in Backends, x \in Entropy : v["pk"] = PublicKey(b, x) <=> v["sk"] = SecretKey(b, x)

Fits(v, b) == Opens(b, EmbeddedKey(b, v["sk"]), v["ct"])

DummyRight(v, r) ==
    r.op = "decaps" /\ r.backend = "DUMMY" =>
        /\ r.status = "OK" => Fits(v, "DUMMY") /\ v["sd"] = v["ss"]
        /\ r.status = "DECAP_FAILED" => ~Fits(v, "DUMMY") /\ v["sd"] = Zero

MlkemRight(v, r) ==
    r.op = "decaps" /\ r.backend = "MLKEM" /\ r.status = "OK" =>
        v["sd"] = IF Fits(v, "MLKEM") THEN v["ss"] ELSE RejectKey

(* The strengthening the verdicts need: as long as a ciphertext is intact, *)
(* the secret buffer beside it holds the secret of the same encapsulation, *)
(* whichever backend made it - no call replaces one without the other.     *)
Remembers(v) ==
    \A b, k, n : v["ct"] = Ciphertext(b, k, n) => v["ss"] = Secret(b, k, n)

ClientInv(v, r) == Whole(v) /\ Remembers(v) /\ DummyRight(v, r) /\ MlkemRight(v, r)

VerdictInv == \A t \in Clients : ClientInv(val[t], ret[t])

LEMMA VerdictInvImplies == VerdictInv => PairWhole /\ DummyVerdict /\ MlkemVerdict
<1> SUFFICES ASSUME VerdictInv PROVE PairWhole /\ DummyVerdict /\ MlkemVerdict
  OBVIOUS
<1>1. \A t \in Clients : \A b : CiphertextFits(t, b) <=> Fits(val[t], b)
  BY DEF CiphertextFits, Fits
<1>2. PairWhole
  BY DEF VerdictInv, ClientInv, Whole, PairWhole
<1>3. DummyVerdict
  BY <1>1 DEF VerdictInv, ClientInv, DummyRight, DummyVerdict
<1>4. MlkemVerdict
  BY <1>1 DEF VerdictInv, ClientInv, MlkemRight, MlkemVerdict
<1> QED
  BY <1>2, <1>3, <1>4

-----------------------------------------------------------------------------
(* What each kind of step does to one client's buffers. *)

(* Fresh buffers satisfy the invariant. *)
LEMMA FreshInv == ClientInv(AllJunk, NoReturn)
BY DEF ClientInv, Whole, Remembers, DummyRight, MlkemRight, AllJunk, NoReturn, Buffers,
       Junk, PublicKey, SecretKey, Ciphertext

(* A changed ciphertext is no ciphertext any more, and its verdict is gone. *)
LEMMA TamperInv ==
  ASSUME NEW v \in [Buffers -> Contents], NEW r, ClientInv(v, r)
  PROVE  ClientInv([v EXCEPT !["ct"] = Tampered], NoReturn)
BY DEF ClientInv, Whole, Remembers, DummyRight, MlkemRight, NoReturn, Buffers,
       Tampered, Ciphertext

(* A call that ended without touching a buffer, with any other status than *)
(* those the verdicts are about.                                           *)
LEMMA RefusalInv ==
  ASSUME NEW v, NEW r, NEW q, ClientInv(v, r), q.status \notin {"OK", "DECAP_FAILED"}
  PROVE  ClientInv(v, q)
BY DEF ClientInv, DummyRight, MlkemRight

(* A key generation replaces both keys, by a pair or by two torn ones. *)
LEMMA KeypairInv ==
  ASSUME NEW v \in [Buffers -> Contents], NEW r, ClientInv(v, r), NEW q, q.op = "keypair",
         NEW p, NEW s,
         \/ \E b \in Backends, x \in Entropy : p = PublicKey(b, x) /\ s = SecretKey(b, x)
         \/ p = Partial /\ s = Partial
  PROVE  ClientInv([v EXCEPT !["pk"] = p, !["sk"] = s], q)
<1> DEFINE w == [v EXCEPT !["pk"] = p, !["sk"] = s]
<1>1. w["pk"] = p /\ w["sk"] = s /\ w["ct"] = v["ct"] /\ w["ss"] = v["ss"]
  BY DEF Buffers
<1> HIDE DEF w
<1>2. Whole(w)
  <2>1. CASE p = Partial /\ s = Partial
    BY <1>1, <2>1 DEF Whole, PublicKey, SecretKey, Partial
  <2>2. ASSUME NEW b \in Backends, NEW x \in Entropy, p = PublicKey(b, x), s = SecretKey(b, x)
        PROVE  Whole(w)
    <3>1. ASSUME NEW c \in Backends, NEW y \in Entropy
          PROVE  PublicKey(b, x) = PublicKey(c, y) <=> SecretKey(b, x) = SecretKey(c, y)
      BY DEF PublicKey, SecretKey
    <3> QED
      BY <1>1, <2>2, <3>1 DEF Whole
  <2> QED
    BY <2>1, <2>2
<1>3. Remembers(w)
  BY <1>1 DEF ClientInv, Remembers
<1> QED
  BY <1>2, <1>3 DEF ClientInv, DummyRight, MlkemRight, w

(* What an encapsulation may leave in its two output buffers. *)
Encapsulated(c, s) ==
    \/ \E b, k, n : c = Ciphertext(b, k, n) /\ s = Secret(b, k, n)
    \/ c = Partial

(* An encapsulation replaces the ciphertext and the secret together. *)
LEMMA EncapsInv ==
  ASSUME NEW v \in [Buffers -> Contents], NEW r, ClientInv(v, r), NEW q, q.op = "encaps",
         NEW c, NEW s, Encapsulated(c, s)
  PROVE  ClientInv([v EXCEPT !["ct"] = c, !["ss"] = s], q)
<1> DEFINE w == [v EXCEPT !["ct"] = c, !["ss"] = s]
<1>1. w["pk"] = v["pk"] /\ w["sk"] = v["sk"] /\ w["ct"] = c /\ w["ss"] = s
  BY DEF Buffers
<1>2. Whole(w)
  BY <1>1 DEF ClientInv, Whole
<1>3. Remembers(w)
  BY <1>1 DEF Remembers, Encapsulated, Ciphertext, Partial
<1> QED
  BY <1>2, <1>3 DEF ClientInv, DummyRight, MlkemRight

(* The secret computed from a ciphertext that fits is the one remembered. *)
LEMMA OpenedSecret ==
  ASSUME NEW v, Remembers(v), NEW b, NEW key, Opens(b, key, v["ct"])
  PROVE  SecretIn(v["ct"]) = v["ss"]
<1>1. PICK n \in Entropy : v["ct"] = Ciphertext(b, key, n)
  BY DEF Opens
<1>2. SecretIn(v["ct"]) = Secret(b, key, n)
  BY <1>1 DEF SecretIn, Ciphertext
<1> QED
  BY <1>1, <1>2 DEF Remembers

(* A decapsulation changes only its output buffer, so what fits is the     *)
(* same before and after.                                                  *)
LEMMA DecapsFrame ==
  ASSUME NEW v \in [Buffers -> Contents], NEW r, ClientInv(v, r), NEW s
  PROVE  LET w == [v EXCEPT !["sd"] = s] IN
         /\ Whole(w) /\ Remembers(w)
         /\ \A b : Fits(w, b) <=> Fits(v, b)
         /\ w["sd"] = s /\ w["ss"] = v["ss"]
<1> DEFINE w == [v EXCEPT !["sd"] = s]
<1>1. w["pk"] = v["pk"] /\ w["sk"] = v["sk"] /\ w["ct"] = v["ct"] /\ w["ss"] = v["ss"] /\ w["sd"] = s
  BY DEF Buffers
<1> HIDE DEF w
<1>2. Whole(w) /\ Remembers(w)
  BY <1>1 DEF ClientInv, Whole, Remembers
<1>3. \A b : Fits(w, b) <=> Fits(v, b)
  BY <1>1 DEF Fits
<1> QED
  BY <1>1, <1>2, <1>3 DEF w
-----------------------------------------------------------------------------
(* The invariant holds initially and is kept by every action. *)

(* An action that changes one client's buffers and result, or nobody's. *)
LEMMA OneClient ==
  ASSUME TypeOK, VerdictInv, NEW t \in Clients, NEW v, NEW q, ClientInv(v, q),
         val' = [val EXCEPT ![t] = v], ret' = [ret EXCEPT ![t] = q]
  PROVE  VerdictInv'
BY DEF TypeOK, VerdictInv, ClientInv, Whole, Remembers, DummyRight, MlkemRight, Fits

(* The record a returning call leaves. *)
Outcome(t, s) == [op |-> call[t].op, backend |-> call[t].backend, clean |-> Clean(t), status |-> s]

LEMMA Returned ==
  ASSUME NEW t \in Clients, NEW s, Return(t, s)
  PROVE  /\ ret' = [ret EXCEPT ![t] = Outcome(t, s)]
         /\ Outcome(t, s).op = call[t].op
         /\ Outcome(t, s).backend = call[t].backend
         /\ Outcome(t, s).status = s
BY DEF Return, Outcome

LEMMA VerdictInit == Init => VerdictInv
BY FreshInv DEF Init, VerdictInv

(* A refused call. *)
LEMMA RefusalKeeps ==
  ASSUME TypeOK, VerdictInv, NEW t \in Clients, NEW s, s \notin {"OK", "DECAP_FAILED"},
         Return(t, s), UNCHANGED val
  PROVE  VerdictInv'
<1> DEFINE w == val[t]
<1>1. ClientInv(w, Outcome(t, s))
  BY Returned, RefusalInv DEF VerdictInv
<1>2. val' = [val EXCEPT ![t] = w]
  BY DEF TypeOK
<1>3. ret' = [ret EXCEPT ![t] = Outcome(t, s)]
  BY Returned
<1> HIDE DEF w
<1> QED
  BY ONLY TypeOK, VerdictInv, t \in Clients, <1>1, <1>2, <1>3, OneClient

(* A key generation that succeeded or failed halfway. *)
LEMMA KeypairKeeps ==
  ASSUME TypeOK, VerdictInv, NEW t \in Clients, NEW s, Return(t, s), call[t].op = "keypair",
         NEW p, NEW k,
         \/ \E b \in Backends, x \in Entropy : p = PublicKey(b, x) /\ k = SecretKey(b, x)
         \/ p = Partial /\ k = Partial,
         val' = [val EXCEPT ![t]["pk"] = p, ![t]["sk"] = k]
  PROVE  VerdictInv'
<1> DEFINE w == [val[t] EXCEPT !["pk"] = p, !["sk"] = k]
<1>1. val[t] \in [Buffers -> Contents] /\ ClientInv(val[t], ret[t])
  BY DEF TypeOK, VerdictInv
<1>2. ClientInv(w, Outcome(t, s))
  BY <1>1, Returned, KeypairInv
<1>3. val' = [val EXCEPT ![t] = w]
  BY DEF TypeOK
<1> HIDE DEF w
<1> QED
  BY <1>2, <1>3, Returned, OneClient

(* An encapsulation that succeeded or failed halfway. *)
LEMMA EncapsKeeps ==
  ASSUME TypeOK, VerdictInv, NEW t \in Clients, NEW s, Return(t, s), call[t].op = "encaps",
         NEW c, NEW x, Encapsulated(c, x),
         val' = [val EXCEPT ![t]["ct"] = c, ![t]["ss"] = x]
  PROVE  VerdictInv'
<1> DEFINE w == [val[t] EXCEPT !["ct"] = c, !["ss"] = x]
<1>1. val[t] \in [Buffers -> Contents] /\ ClientInv(val[t], ret[t])
  BY DEF TypeOK, VerdictInv
<1>2. ClientInv(w, Outcome(t, s))
  BY <1>1, Returned, EncapsInv
<1>3. val' = [val EXCEPT ![t] = w]
  BY DEF TypeOK
<1> HIDE DEF w
<1> QED
  BY <1>2, <1>3, Returned, OneClient

LEMMA EncapsSucceeds ==
  ASSUME TypeOK, VerdictInv, NEW t \in Clients, NEW s, Return(t, s), call[t].op = "encaps",
         NEW b, NEW k, NEW n,
         val' = [val EXCEPT ![t]["ct"] = Ciphertext(b, k, n), ![t]["ss"] = Secret(b, k, n)]
  PROVE  VerdictInv'
<1> DEFINE c == Ciphertext(b, k, n)
           x == Secret(b, k, n)
<1>1. Encapsulated(c, x)
  BY DEF Encapsulated
<1>2. val' = [val EXCEPT ![t]["ct"] = c, ![t]["ss"] = x]
  OBVIOUS
<1> HIDE DEF c, x
<1> QED
  BY <1>1, <1>2, EncapsKeeps

(* A decapsulation whose verdict is right for the secret it wrote. *)
LEMMA DecapsKeeps ==
  ASSUME TypeOK, VerdictInv, NEW t \in Clients, NEW s, Return(t, s), NEW x,
         val' = [val EXCEPT ![t]["sd"] = x],
         DummyRight([val[t] EXCEPT !["sd"] = x], Outcome(t, s)),
         MlkemRight([val[t] EXCEPT !["sd"] = x], Outcome(t, s))
  PROVE  VerdictInv'
<1> DEFINE w == [val[t] EXCEPT !["sd"] = x]
<1>1. val[t] \in [Buffers -> Contents] /\ ClientInv(val[t], ret[t])
  BY DEF TypeOK, VerdictInv
<1>2. ClientInv(w, Outcome(t, s))
  BY <1>1, DecapsFrame DEF ClientInv
<1>3. val' = [val EXCEPT ![t] = w]
  BY DEF TypeOK
<1> HIDE DEF w
<1> QED
  BY <1>2, <1>3, Returned, OneClient

LEMMA DummyDecapsKeeps ==
  ASSUME TypeOK, VerdictInv, NEW t \in Clients, DummyDecaps(t)
  PROVE  VerdictInv'
<1> DEFINE v == val[t]
           key == EmbeddedKey("DUMMY", v["sk"])
<1>1. v \in [Buffers -> Contents] /\ ClientInv(v, ret[t])
  BY DEF TypeOK, VerdictInv
<1>2. call[t].op = "decaps" /\ call[t].backend = "DUMMY"
  BY DEF DummyDecaps, Accepted
<1>3. Fits(v, "DUMMY") <=> Opens("DUMMY", key, v["ct"])
  BY DEF Fits
<1>4. CASE Fits(v, "DUMMY")
  <2>1. val' = [val EXCEPT ![t]["sd"] = SecretIn(v["ct"])] /\ Return(t, "OK")
    BY <1>3, <1>4 DEF DummyDecaps
  <2>2. SecretIn(v["ct"]) = v["ss"]
    BY <1>1, <1>3, <1>4, OpenedSecret DEF ClientInv
  <2> DEFINE w == [v EXCEPT !["sd"] = SecretIn(v["ct"])]
  <2>3. /\ Fits(w, "DUMMY") <=> Fits(v, "DUMMY")
        /\ w["sd"] = SecretIn(v["ct"]) /\ w["ss"] = v["ss"]
    BY <1>1, DecapsFrame
  <2>4. DummyRight(w, Outcome(t, "OK"))
    BY <1>4, <2>2, <2>3 DEF DummyRight, Outcome
  <2>5. MlkemRight(w, Outcome(t, "OK"))
    BY <1>2 DEF MlkemRight, Outcome
  <2> QED
    BY <2>1, <2>4, <2>5, DecapsKeeps
<1>5. CASE ~Fits(v, "DUMMY")
  <2>1. val' = [val EXCEPT ![t]["sd"] = Zero] /\ Return(t, "DECAP_FAILED")
    BY <1>3, <1>5 DEF DummyDecaps
  <2> DEFINE w == [v EXCEPT !["sd"] = Zero]
  <2>3. (Fits(w, "DUMMY") <=> Fits(v, "DUMMY")) /\ w["sd"] = Zero
    BY <1>1, DecapsFrame
  <2>4. DummyRight(w, Outcome(t, "DECAP_FAILED"))
    BY <1>5, <2>3 DEF DummyRight, Outcome
  <2>5. MlkemRight(w, Outcome(t, "DECAP_FAILED"))
    BY <1>2 DEF MlkemRight, Outcome
  <2> QED
    BY <2>1, <2>4, <2>5, DecapsKeeps
<1> QED
  BY <1>4, <1>5

LEMMA MlkemDecapsKeeps ==
  ASSUME TypeOK, VerdictInv, NEW t \in Clients, MlkemDecaps(t)
  PROVE  VerdictInv'
<1> DEFINE v == val[t]
           key == EmbeddedKey("MLKEM", v["sk"])
           x == IF Opens("MLKEM", key, v["ct"]) THEN SecretIn(v["ct"]) ELSE RejectKey
<1>1. v \in [Buffers -> Contents] /\ ClientInv(v, ret[t])
  BY DEF TypeOK, VerdictInv
<1>2. call[t].op = "decaps" /\ call[t].backend = "MLKEM"
  BY DEF MlkemDecaps, Accepted
<1>3. Fits(v, "MLKEM") <=> Opens("MLKEM", key, v["ct"])
  BY DEF Fits
<1>4. x = IF Fits(v, "MLKEM") THEN v["ss"] ELSE RejectKey
  BY <1>1, <1>3, OpenedSecret DEF ClientInv
<1>5. \/ val' = [val EXCEPT ![t]["sd"] = x] /\ Return(t, "OK")
      \/ val' = [val EXCEPT ![t]["sd"] = Zero] /\ Return(t, "DECAP_FAILED")
  BY DEF MlkemDecaps
<1> HIDE DEF x
<1>6. CASE val' = [val EXCEPT ![t]["sd"] = x] /\ Return(t, "OK")
  <2> DEFINE w == [v EXCEPT !["sd"] = x]
  <2>1. /\ Fits(w, "MLKEM") <=> Fits(v, "MLKEM")
        /\ w["sd"] = x /\ w["ss"] = v["ss"]
    BY <1>1, DecapsFrame
  <2>2. MlkemRight(w, Outcome(t, "OK"))
    <3> HIDE DEF w
    <3> QED
      BY <1>4, <2>1 DEF MlkemRight
  <2>3. DummyRight(w, Outcome(t, "OK"))
    BY <1>2 DEF DummyRight, Outcome
  <2> QED
    BY <1>6, <2>2, <2>3, DecapsKeeps
<1>7. CASE val' = [val EXCEPT ![t]["sd"] = Zero] /\ Return(t, "DECAP_FAILED")
  <2> DEFINE w == [v EXCEPT !["sd"] = Zero]
  <2>1. MlkemRight(w, Outcome(t, "DECAP_FAILED")) /\ DummyRight(w, Outcome(t, "DECAP_FAILED"))
    BY <1>2 DEF MlkemRight, DummyRight, Outcome
  <2> QED
    BY <1>7, <2>1, DecapsKeeps
<1> QED
  BY <1>5, <1>6, <1>7

LEMMA VerdictStep == TypeOK /\ VerdictInv /\ [Next]_vars => VerdictInv'
<1> SUFFICES ASSUME TypeOK, VerdictInv, [Next]_vars PROVE VerdictInv'
  OBVIOUS
<1>a. ASSUME UNCHANGED <<val, ret>> PROVE VerdictInv'
  BY <1>a DEF VerdictInv, ClientInv, Whole, Remembers, DummyRight, MlkemRight, Fits
<1>b. ASSUME NEW t \in Clients, val' = [val EXCEPT ![t] = AllJunk], ret' = [ret EXCEPT ![t] = NoReturn]
      PROVE  VerdictInv'
  BY <1>b, FreshInv, OneClient
<1>1. ASSUME NEW t \in Threads, Acquire(t) PROVE VerdictInv'
  BY <1>1, <1>a DEF Acquire
<1>2. ASSUME NEW t \in Threads, Release(t) PROVE VerdictInv'
  BY <1>2, <1>a, <1>b DEF Release
<1>3. ASSUME NEW t \in Threads, NEW a, SetAlgorithm(t, a) PROVE VerdictInv'
  BY <1>3, <1>a DEF SetAlgorithm
<1>4. ASSUME NEW t \in Clients, NEW short \in SUBSET Buffers, GetSizes(t, short) PROVE VerdictInv'
  BY <1>4, <1>b DEF GetSizes
<1>5. ASSUME NEW t \in Clients, TamperCiphertext(t) PROVE VerdictInv'
  <2> DEFINE w == [val[t] EXCEPT !["ct"] = Tampered]
  <2>1. ClientInv(w, NoReturn)
    BY TamperInv DEF TypeOK, VerdictInv
  <2>2. val' = [val EXCEPT ![t] = w] /\ ret' = [ret EXCEPT ![t] = NoReturn]
    BY <1>5 DEF TamperCiphertext, TypeOK
  <2> HIDE DEF w
  <2> QED
    BY <2>1, <2>2, OneClient
<1>6. ASSUME NEW t \in Clients, NEW op \in Ops, NEW null \in SUBSET BuffersOf(op),
             Dispatch(t, op, null)
      PROVE  VerdictInv'
  BY <1>6, <1>a DEF Dispatch
<1>7. ASSUME NEW t \in Clients, Run(t) PROVE VerdictInv'
  <2>1. CASE RunPlaceholder(t) \/ RejectNull(t) \/ RejectShort(t)
    BY <2>1, RefusalKeeps DEF RunPlaceholder, RejectNull, RejectShort
  <2>2. CASE DummyKeypair(t)
    BY <2>2, KeypairKeeps, ZenonT(40) DEF DummyKeypair, Accepted, Backends
  <2>3. CASE MlkemKeypair(t)
    BY <2>3, KeypairKeeps DEF MlkemKeypair, Accepted, Backends
  <2>4. CASE DummyEncaps(t)
    <3>1. call[t].op = "encaps" /\ Return(t, "OK")
      BY <2>4 DEF DummyEncaps, Accepted
    <3>2. PICK n \in Entropy :
             val' = [val EXCEPT ![t]["ct"] = Ciphertext("DUMMY", val[t]["pk"], n),
                                ![t]["ss"] = Secret("DUMMY", val[t]["pk"], n)]
      BY <2>4 DEF DummyEncaps
    <3> QED
      BY <3>1, <3>2, EncapsSucceeds
  <2>5. CASE MlkemEncaps(t)
    <3>1. call[t].op = "encaps"
      BY <2>5 DEF MlkemEncaps, Accepted
    <3>2. CASE \E n \in Entropy :
                  /\ val' = [val EXCEPT ![t]["ct"] = Ciphertext("MLKEM", val[t]["pk"], n),
                                        ![t]["ss"] = Secret("MLKEM", val[t]["pk"], n)]
                  /\ Return(t, "OK")
      <4>1. PICK n \in Entropy :
                  /\ val' = [val EXCEPT ![t]["ct"] = Ciphertext("MLKEM", val[t]["pk"], n),
                                        ![t]["ss"] = Secret("MLKEM", val[t]["pk"], n)]
                  /\ Return(t, "OK")
        BY <3>2
      <4> QED
        BY <3>1, <4>1, EncapsSucceeds
    <3>3. CASE /\ val' = [val EXCEPT ![t]["ct"] = Partial, ![t]["ss"] = Zero]
               /\ Return(t, "ENCAP_FAILED")
      BY <3>1, <3>3, EncapsKeeps DEF Encapsulated
    <3> QED
      BY <2>5, <3>2, <3>3 DEF MlkemEncaps
  <2>6. CASE DummyDecaps(t) \/ MlkemDecaps(t)
    BY <2>6, DummyDecapsKeeps, MlkemDecapsKeeps
  <2> QED
    BY <1>7, <2>1, <2>2, <2>3, <2>4, <2>5, <2>6 DEF Run
<1>8. CASE UNCHANGED vars
  BY <1>8, <1>a DEF vars
<1> QED
  BY <1>1, <1>2, <1>3, <1>4, <1>5, <1>6, <1>7, <1>8 DEF Next

-----------------------------------------------------------------------------
(* Whatever calls are refused or fail, on whichever backend, a client's    *)
(* two key buffers are replaced together.                                  *)
THEOREM KemPairWhole == Spec => []PairWhole
BY VerdictInit, VerdictStep, VerdictInvImplies, KemTyping, PTL DEF Spec

(* The dummy's verdict is exact through every interleaving of              *)
(* reselections, key changes and tampering.                                *)
THEOREM KemDummyVerdict == Spec => []DummyVerdict
BY VerdictInit, VerdictStep, VerdictInvImplies, KemTyping, PTL DEF Spec

(* ML-KEM hands out the agreed secret exactly for a ciphertext that fits,  *)
(* and the rejection key for every other.                                  *)
THEOREM KemMlkemVerdict == Spec => []MlkemVerdict
BY VerdictInit, VerdictStep, VerdictInvImplies, KemTyping, PTL DEF Spec

-----------------------------------------------------------------------------
(* Sessions under the callers' lock. *)

(* The results a call may come back with that nothing was wrong with: the  *)
(* dummy cannot fail but for a ciphertext that does not fit.               *)
StatusRight(r) ==
    r.clean /\ r.backend # "PLACEHOLDER" =>
        \/ r.status = "OK"
        \/ r.op = "decaps" /\ r.status = "DECAP_FAILED"
        \/ r.backend = "MLKEM" /\ r.op = "keypair" /\ r.status = "KEYGEN_FAILED"
        \/ r.backend = "MLKEM" /\ r.op = "encaps" /\ r.status = "ENCAP_FAILED"

(* The strengthening: whoever runs a call or holds buffers has the lock,   *)
(* so the selector still stands where it stood when they were sized, and   *)
(* the call in progress was fetched from it.                               *)
Sized(t, backend) == \A b \in Buffers : cap[t][b] \in {Size(backend, b), Size(backend, b) - 1}

SessionInv(t) ==
    /\ pc[t] = "run" =>
          /\ holder = t
          /\ Allocated(t)
          /\ call[t].backend = ActiveBackend
          /\ call[t].len = cap[t]
    /\ Allocated(t) => holder = t /\ Sized(t, ActiveBackend)
    /\ StatusRight(ret[t])

LockInv == Locked => \A t \in Clients : SessionInv(t)

(* No backend's size is one byte less than another's.                      *)
LEMMA SizesApart ==
  ASSUME NEW x, NEW y, NEW b \in Buffers
  PROVE  Size(x, b) # Size(y, b) - 1
BY DEF Size, Buffers

(* A clean call of a locked session passes the length checks.              *)
LEMMA CleanIsLongEnough ==
  ASSUME TypeOK, NEW t \in Clients, SessionInv(t), pc[t] = "run", Clean(t)
  PROVE  ~TooShort(call[t])
<1>1. ASSUME NEW b \in BuffersOf(call[t].op)
      PROVE  call[t].len[b] = Size(call[t].backend, b)
  <2>1. b \in Buffers
    BY BuffersOfBuffers DEF TypeOK
  <2>2. call[t].len[b] \in {Size(call[t].backend, b), Size(call[t].backend, b) - 1}
    BY <2>1 DEF SessionInv, Sized
  <2>3. PICK x \in Backends : call[t].len[b] = Size(x, b)
    BY DEF Clean
  <2> QED
    BY <2>1, <2>2, <2>3, SizesApart
<1>2. \A b \in BuffersOf(call[t].op) : Size(call[t].backend, b) \in Nat
  BY BuffersOfBuffers, SizeNat DEF TypeOK
<1> QED
  BY <1>1, <1>2 DEF TooShort

(* A call that returns leaves a right result, if its status is one the     *)
(* backend's body may give or the call was not clean.                      *)
LEMMA ReturnedRight ==
  ASSUME TypeOK, LockInv, NEW t \in Clients, NEW s, Return(t, s),
         Locked => StatusRight(Outcome(t, s))
  PROVE  LockInv'
<1> SUFFICES ASSUME Locked', NEW u \in Clients PROVE SessionInv(u)'
  BY DEF LockInv
<1>0. Locked /\ UNCHANGED <<holder, cap, alg, connected>>
  BY DEF Locked, Return
<1>1. SessionInv(u)
  BY <1>0 DEF LockInv
<1>2. /\ pc'[u] = "run" => u # t /\ pc[u] = "run"
      /\ u # t => call'[u] = call[u] /\ ret'[u] = ret[u]
      /\ u = t => ret'[u] = Outcome(t, s)
  BY DEF Return, Outcome, TypeOK
<1>3. ActiveBackend' = ActiveBackend
  BY <1>0 DEF ActiveBackend
<1>4. StatusRight(ret'[u])
  BY <1>0, <1>1, <1>2 DEF SessionInv
<1> QED
  BY <1>0, <1>1, <1>2, <1>3, <1>4 DEF SessionInv, Allocated, Sized

LEMMA LockRun ==
  ASSUME TypeOK, LockInv, NEW t \in Clients, Run(t)
  PROVE  LockInv'
<1>1. ASSUME NEW s, Return(t, s), call[t].null # {} PROVE LockInv'
  BY <1>1, ReturnedRight DEF StatusRight, Outcome, Clean
<1>2. ASSUME NEW s, Return(t, s), TooShort(call[t]) PROVE LockInv'
  <2>1. Locked => ~Clean(t)
    BY <1>2, CleanIsLongEnough DEF LockInv, Return
  <2> QED
    BY <1>2, <2>1, ReturnedRight DEF StatusRight, Outcome
<1>3. ASSUME NEW s, Return(t, s), call[t].backend = "PLACEHOLDER" PROVE LockInv'
  BY <1>3, ReturnedRight DEF StatusRight, Outcome
<1>4. ASSUME NEW s, Return(t, s),
             \/ s = "OK"
             \/ call[t].op = "decaps" /\ s = "DECAP_FAILED"
             \/ call[t].backend = "MLKEM" /\ call[t].op = "keypair" /\ s = "KEYGEN_FAILED"
             \/ call[t].backend = "MLKEM" /\ call[t].op = "encaps" /\ s = "ENCAP_FAILED"
      PROVE  LockInv'
  BY <1>4, ReturnedRight DEF StatusRight, Outcome
<1>5. CASE RunPlaceholder(t) \/ RejectNull(t) \/ RejectShort(t)
  BY <1>1, <1>2, <1>3, <1>5 DEF RunPlaceholder, RejectNull, RejectShort
<1>6. CASE DummyKeypair(t) \/ DummyEncaps(t) \/ DummyDecaps(t)
  BY <1>4, <1>6 DEF DummyKeypair, DummyEncaps, DummyDecaps, Accepted
<1>7. CASE MlkemKeypair(t) \/ MlkemEncaps(t) \/ MlkemDecaps(t)
  BY <1>4, <1>7 DEF MlkemKeypair, MlkemEncaps, MlkemDecaps, Accepted
<1> QED
  BY <1>5, <1>6, <1>7 DEF Run

LEMMA LockInit == Init => LockInv
<1> SUFFICES ASSUME Init, NEW t \in Clients PROVE SessionInv(t)
  BY DEF LockInv
<1>1. pc[t] = "idle" /\ cap[t]["pk"] = 0 /\ ret[t] = NoReturn
  BY DEF Init, NoBuffers, Buffers
<1>2. ~Allocated(t)
  BY <1>1 DEF Allocated, Buffers
<1> QED
  BY <1>1, <1>2 DEF SessionInv, StatusRight, NoReturn

LEMMA LockStep == TypeOK /\ LockInv /\ [Next]_vars => LockInv'
<1> SUFFICES ASSUME TypeOK, LockInv, [Next]_vars PROVE LockInv'
  OBVIOUS
<1>a. ASSUME NEW t \in Clients, UNCHANGED <<connected, alg, pc, call, cap, ret, holder>>, SessionInv(t)
      PROVE  SessionInv(t)'
  BY <1>a DEF SessionInv, Allocated, Sized, ActiveBackend
<1>1. ASSUME NEW t \in Threads, Acquire(t) PROVE LockInv'
  <2>1. Locked /\ \A u \in Clients : SessionInv(u) /\ holder # u
    BY <1>1, KemAssumption DEF Acquire, LockInv, Locked
  <2>2. ASSUME NEW u \in Clients PROVE SessionInv(u)'
    BY <1>1, <2>1 DEF Acquire, SessionInv, Allocated
  <2> QED
    BY <2>2 DEF LockInv
<1>2. ASSUME NEW t \in Threads, Release(t) PROVE LockInv'
  <2>1. Locked /\ \A u \in Clients : SessionInv(u)
    BY <1>2, KemAssumption DEF Release, LockInv, Locked
  <2>2. ASSUME NEW u \in Clients, u # t PROVE SessionInv(u)'
    <3>1. pc[u] # "run" /\ ~Allocated(u) /\ StatusRight(ret[u])
      BY <1>2, <2>1, <2>2 DEF Release, SessionInv
    <3>2. pc'[u] = pc[u] /\ cap'[u] = cap[u] /\ ret'[u] = ret[u]
      BY <1>2, <2>2 DEF Release, TypeOK
    <3> QED
      BY <3>1, <3>2 DEF SessionInv, Allocated
  <2>3. ASSUME t \in Clients PROVE SessionInv(t)'
    <3>1. pc'[t] = "idle" /\ cap'[t] = NoBuffers /\ ret'[t] = NoReturn
      BY <1>2, <2>3 DEF Release, TypeOK
    <3>2. ~Allocated(t)'
      BY <3>1 DEF Allocated, Buffers, NoBuffers
    <3> QED
      BY <3>1, <3>2 DEF SessionInv, StatusRight, NoReturn
  <2> QED
    BY <2>2, <2>3 DEF LockInv
<1>3. ASSUME NEW t \in Threads, NEW a, SetAlgorithm(t, a) PROVE LockInv'
  <2>1. ASSUME Locked, NEW u \in Clients PROVE SessionInv(u)'
    <3>1. SessionInv(u) /\ holder = t
      BY <1>3, <2>1 DEF SetAlgorithm, LockInv, HasLock
    <3>2. pc[u] # "run" /\ ~Allocated(u)
      BY <1>3, <2>1, <3>1 DEF SetAlgorithm, SessionInv
    <3> QED
      BY <1>3, <3>1, <3>2 DEF SetAlgorithm, SessionInv, Allocated
  <2> QED
    BY <1>3, <2>1 DEF LockInv, SetAlgorithm, Locked
<1>4. ASSUME NEW t \in Clients, NEW short \in SUBSET Buffers, GetSizes(t, short) PROVE LockInv'
  <2> DEFINE sizes == [b \in Buffers |-> IF b \in short THEN Size(ActiveBackend, b) - 1
                                                        ELSE Size(ActiveBackend, b)]
  <2>1. /\ cap' = [cap EXCEPT ![t] = sizes] /\ ret' = [ret EXCEPT ![t] = NoReturn]
        /\ pc[t] = "idle" /\ UNCHANGED <<connected, alg, pc, call, holder>> /\ HasLock(t)
    BY <1>4 DEF GetSizes
  <2>2. \A b \in Buffers : sizes[b] \in {Size(ActiveBackend, b), Size(ActiveBackend, b) - 1}
    OBVIOUS
  <2> HIDE DEF sizes
  <2>3. ActiveBackend' = ActiveBackend
    BY <2>1 DEF ActiveBackend
  <2>4. ASSUME Locked, NEW u \in Clients PROVE SessionInv(u)'
    <3>1. SessionInv(u) /\ holder = t
      BY <2>1, <2>4 DEF LockInv, HasLock
    <3>2. CASE u = t
      <4>1. pc'[u] = "idle" /\ cap'[u] = sizes /\ ret'[u] = NoReturn
        BY <2>1, <3>2 DEF TypeOK
      <4> QED
        BY <2>1, <2>2, <2>3, <3>1, <3>2, <4>1 DEF SessionInv, Sized, StatusRight, NoReturn
    <3>3. CASE u # t
      <4>1. cap'[u] = cap[u] /\ ret'[u] = ret[u]
        BY <2>1, <3>3 DEF TypeOK
      <4> QED
        BY <2>1, <3>1, <3>3, <4>1 DEF SessionInv, Allocated
    <3> QED
      BY <3>2, <3>3
  <2> QED
    BY <2>1, <2>4 DEF LockInv, Locked
<1>5. ASSUME NEW t \in Clients, TamperCiphertext(t) PROVE LockInv'
  <2>1. ASSUME Locked, NEW u \in Clients PROVE SessionInv(u)'
    <3>1. SessionInv(u) /\ ActiveBackend' = ActiveBackend
      BY <1>5, <2>1 DEF LockInv, TamperCiphertext, ActiveBackend
    <3>2. StatusRight(ret'[u])
      BY <1>5, <3>1 DEF TamperCiphertext, SessionInv, StatusRight, NoReturn, TypeOK
    <3> QED
      BY <1>5, <3>1, <3>2 DEF TamperCiphertext, SessionInv, Allocated, Sized
  <2> QED
    BY <1>5, <2>1 DEF LockInv, TamperCiphertext, Locked
<1>6. ASSUME NEW t \in Clients, NEW op \in Ops, NEW null \in SUBSET BuffersOf(op),
             Dispatch(t, op, null)
      PROVE  LockInv'
  <2>1. ASSUME Locked, NEW u \in Clients PROVE SessionInv(u)'
    <3>1. SessionInv(u) /\ holder = t /\ ActiveBackend' = ActiveBackend
      BY <1>6, <2>1 DEF LockInv, Dispatch, ActiveBackend, HasLock
    <3>2. CASE u = t
      <4>1. call'[t].backend = ActiveBackend /\ call'[t].len = cap[t] /\ Allocated(t)
        BY <1>6 DEF Dispatch, TypeOK
      <4> QED
        BY <1>6, <3>1, <3>2, <4>1 DEF Dispatch, SessionInv, Allocated, Sized
    <3>3. CASE u # t
      <4>1. call'[u] = call[u] /\ pc'[u] = pc[u]
        BY <1>6, <3>3 DEF Dispatch, TypeOK
      <4> QED
        BY <1>6, <3>1, <4>1 DEF Dispatch, SessionInv, Allocated, Sized
    <3> QED
      BY <3>2, <3>3
  <2> QED
    BY <1>6, <2>1 DEF LockInv, Dispatch, Locked
<1>7. ASSUME NEW t \in Clients, Run(t) PROVE LockInv'
  BY <1>7, LockRun
<1>8. CASE UNCHANGED vars
  BY <1>8, <1>a DEF vars, LockInv, Locked
<1> QED
  BY <1>1, <1>2, <1>3, <1>4, <1>5, <1>6, <1>7, <1>8 DEF Next

(* External synchronization is enough: in a session under the callers'     *)
(* lock no clean call on a connected backend is refused, and decapsulating *)
(* a ciphertext that fits gives the encapsulated secret - for any number   *)
(* of other threads that take the lock and select in between.              *)
THEOREM KemLockedSessionsAgree == Spec => []LockedSessionsAgree
<1>1. TypeOK /\ VerdictInv /\ LockInv => LockedSessionsAgree
  <2> SUFFICES ASSUME TypeOK, VerdictInv, LockInv, Locked, NEW t \in Clients,
                      ret[t].clean, ret[t].backend # "PLACEHOLDER"
               PROVE  LET r == ret[t] IN
                      \/ /\ r.backend = "MLKEM"
                         /\ r.status = CASE r.op = "keypair" -> "KEYGEN_FAILED"
                                         [] r.op = "encaps"  -> "ENCAP_FAILED"
                                         [] r.op = "decaps"  -> "DECAP_FAILED"
                      \/ r.op # "decaps" /\ r.status = "OK"
                      \/ r.op = "decaps" /\ ~CiphertextFits(t, r.backend)
                      \/ r.op = "decaps" /\ r.status = "OK" /\ val[t]["sd"] = val[t]["ss"]
    BY DEF LockedSessionsAgree
  <2> DEFINE r == ret[t]
  <2>1. StatusRight(r) /\ DummyRight(val[t], r) /\ MlkemRight(val[t], r)
    BY DEF LockInv, SessionInv, VerdictInv, ClientInv
  <2>2. r.backend = "DUMMY" \/ r.backend = "MLKEM"
    BY DEF TypeOK, Backends
  <2>3. \A b : CiphertextFits(t, b) <=> Fits(val[t], b)
    BY DEF CiphertextFits, Fits
  <2>4. r.clean /\ r.backend # "PLACEHOLDER"
    OBVIOUS
  <2> HIDE DEF r
  <2>5. \/ r.op # "decaps" /\ r.status = "OK"
        \/ r.backend = "MLKEM" /\ r.op = "keypair" /\ r.status = "KEYGEN_FAILED"
        \/ r.backend = "MLKEM" /\ r.op = "encaps" /\ r.status = "ENCAP_FAILED"
        \/ r.op = "decaps" /\ r.status \in {"OK", "DECAP_FAILED"}
    BY <2>1, <2>4 DEF StatusRight
  <2>6. CASE r.op = "decaps" /\ r.backend = "DUMMY" /\ r.status \in {"OK", "DECAP_FAILED"}
    BY <2>1, <2>3, <2>6 DEF DummyRight, r
  <2>7. CASE r.op = "decaps" /\ r.backend = "MLKEM" /\ r.status = "OK"
    BY <2>1, <2>3, <2>7 DEF MlkemRight, r
  <2>8. CASE r.op = "decaps" /\ r.backend = "MLKEM" /\ r.status = "DECAP_FAILED"
    BY <2>8 DEF r
  <2>9. CASE ~(r.op = "decaps" /\ r.status \in {"OK", "DECAP_FAILED"})
    BY <2>5, <2>9 DEF r
  <2> QED
    BY <2>2, <2>6, <2>7, <2>8, <2>9
<1> QED
  BY <1>1, VerdictInit, VerdictStep, LockInit, LockStep, KemTyping, PTL DEF Spec
=============================================================================
