-------------------------------- MODULE PqcSig --------------------------------
(***************************************************************************)
(* The signature half of the library: its own process-global selector, the *)
(* routing of src/pqc_module.c and the backends of src/pqc_sig.c.          *)
(*                                                                         *)
(* Unlike the KEM selector, this one starts on the reference backend where *)
(* it is built in and refuses it where it is not.  Contents are symbolic,  *)
(* as in PqcKem: a signature is what one backend makes of a key and a      *)
(* message, and equal only to one made of the same parts.                  *)
(***************************************************************************)
EXTENDS SigScheme, FiniteSets

CONSTANTS
    Threads,        \* the threads of the process; each may select a backend
    Clients,        \* the threads that also make and check signatures
    Messages,       \* the messages signed
    Builds,         \* the builds considered: TRUE if PQC_ENABLE_MLDSA_REF
    KeypairReturns, \* result codes of the vendored keypair
    SignReturns,    \* results of the vendored sign: <<code, length reported>>
    MaxSlack,       \* BOUND: bytes a signature buffer exceeds the reported size
    MaxFaults       \* BOUND: buffers one byte short per session, NULLs per call

ASSUME SigAssumption ==
    /\ Clients \subseteq Threads
    /\ Builds \subseteq BOOLEAN
    /\ MaxSlack \in Nat
    /\ MaxFaults \in Nat

-----------------------------------------------------------------------------
Algorithms == {"DUMMY", "REF"}
Ops        == {"keypair", "sign", "verify"}
Statuses   == {"OK", "INVALID_ARG", "BUFFER_TOO_SMALL", "KEYGEN_FAILED",
               "SIGN_FAILED", "VERIFY_FAILED", "INTERNAL"}
Buffers    == {"pk", "sk", "sig"}

(* The arguments of an operation that carry a checked length.  A message   *)
(* may have any length and is only checked for NULL.                       *)
BuffersOf(op) == CASE op = "keypair" -> {"pk", "sk"}
                   [] op = "sign"    -> {"sig", "sk"}
                   [] op = "verify"  -> {"sig", "pk"}

PointersOf(op) == BuffersOf(op) \cup (IF op = "keypair" THEN {} ELSE {"msg"})

InputsOf(op) == CASE op = "keypair" -> {}
                  [] op = "sign"    -> {"sk"}
                  [] op = "verify"  -> {"sig", "pk"}

Keys  == {PublicKey(b, r) : b \in Backends, r \in Entropy}
Holds(b) ==
    CASE b = "pk"  -> {Junk, Partial, Tampered} \cup Keys
      [] b = "sk"  -> {Junk, Partial} \cup {SecretKey(x, r) : x \in Backends, r \in Entropy}
      [] b = "sig" -> {Junk, Partial, Tampered} \cup
                      {Signature(x, k, m) : x \in Backends, k \in Keys \cup {Opaque}, m \in Messages}
Contents == UNION {Holds(b) : b \in Buffers}

-----------------------------------------------------------------------------
VARIABLES
    connected,  \* the build option, fixed at the start
    alg,        \* g_sig_algorithm
    pc,         \* is the thread inside a backend function?
    call,       \* the call in progress, with the fetched backend
    cap,        \* the size each buffer was allocated with
    ext,        \* how far into each buffer the library accessed
    val,        \* what each buffer holds
    msg,        \* the message in the caller's hands
    ret         \* the last completed call

vars == <<connected, alg, pc, call, cap, ext, val, msg, ret>>

NoBuffers == [b \in Buffers |-> 0]
NoCall    == [op |-> "keypair", backend |-> "DUMMY", null |-> {}, len |-> NoBuffers]
NoReturn  == [op |-> "keypair", backend |-> "DUMMY", clean |-> FALSE, exact |-> FALSE,
              status |-> "INTERNAL"]

Init ==
    /\ connected \in Builds
    /\ alg = IF connected THEN "REF" ELSE "DUMMY"
    /\ pc = [t \in Clients |-> "idle"]
    /\ call = [t \in Clients |-> NoCall]
    /\ cap = [t \in Clients |-> NoBuffers]
    /\ ext = [t \in Clients |-> NoBuffers]
    /\ val = [t \in Clients |-> [b \in Buffers |-> Junk]]
    /\ msg \in [Clients -> Messages]
    /\ ret = [t \in Clients |-> NoReturn]

Allocated(t) == \A b \in Buffers : cap[t][b] > 0

(* Mutant of SetAlgorithm: a backend that is not built in is accepted. *)
SetAlgorithmAnyway(t, a) ==
    /\ t \in Clients => pc[t] = "idle"
    /\ alg' = a
    /\ UNCHANGED <<connected, pc, call, cap, ext, val, msg, ret>>

(* pqc_set_signature_algorithm; "OTHER" is any value outside the enum. *)
SetAlgorithm(t, a) ==
    /\ t \in Clients => pc[t] = "idle"
    /\ alg' = IF a = "DUMMY" \/ (a = "REF" /\ connected) THEN a ELSE alg
    /\ UNCHANGED <<connected, pc, call, cap, ext, val, msg, ret>>

(* pqc_sig_get_backend *)
ActiveBackend == IF connected /\ alg = "REF" THEN "MLDSA" ELSE "DUMMY"

(* pqc_sig_get_sizes, then the caller's allocation; the signature buffer   *)
(* may be larger than what was reported, those in "short" are a byte less. *)
GetSizes(t, slack, short) ==
    /\ pc[t] = "idle"
    /\ Cardinality(short) <= MaxFaults
    /\ slack > 0 => "sig" \notin short
    /\ cap' = [cap EXCEPT ![t] = [b \in Buffers |->
         CASE b \in short -> Size(ActiveBackend, b) - 1
           [] b = "sig" /\ b \notin short -> Size(ActiveBackend, b) + slack
           [] OTHER -> Size(ActiveBackend, b)]]
    /\ ext' = [ext EXCEPT ![t] = NoBuffers]
    /\ val' = [val EXCEPT ![t] = [b \in Buffers |-> Junk]]
    /\ ret' = [ret EXCEPT ![t] = NoReturn]
    /\ UNCHANGED <<connected, alg, pc, call, msg>>

(* The caller takes another message, or changes a byte of what it holds. *)
ChangeMessage(t, m) ==
    /\ pc[t] = "idle"
    /\ msg' = [msg EXCEPT ![t] = m]
    /\ ret' = [ret EXCEPT ![t] = NoReturn]
    /\ UNCHANGED <<connected, alg, pc, call, cap, ext, val>>

Tamper(t, b) ==
    /\ pc[t] = "idle"
    /\ val[t][b] \notin {Junk, Partial}
    /\ val' = [val EXCEPT ![t][b] = Tampered]
    /\ ret' = [ret EXCEPT ![t] = NoReturn]
    /\ UNCHANGED <<connected, alg, pc, call, cap, ext, msg>>

(* pqc_sig_keypair / _sign / _verify: fetch the backend, enter it. *)
Dispatch(t, op, null) ==
    /\ pc[t] = "idle"
    /\ Allocated(t)
    /\ \A b \in InputsOf(op) : val[t][b] # Junk
    /\ null \subseteq PointersOf(op)
    /\ Cardinality(null) <= MaxFaults
    /\ pc' = [pc EXCEPT ![t] = "run"]
    /\ call' = [call EXCEPT ![t] =
         [op |-> op, backend |-> ActiveBackend, null |-> null, len |-> cap[t]]]
    /\ UNCHANGED <<connected, alg, cap, ext, val, msg, ret>>

-----------------------------------------------------------------------------
(* The backend functions: the argument checks in the code's order, then    *)
(* the body.  They touch nothing that is shared.                           *)

(* No NULL, and no buffer smaller than the backend that runs reports. *)
Clean(t) == /\ call[t].null = {}
            /\ \A b \in BuffersOf(call[t].op) : call[t].len[b] >= Size(call[t].backend, b)

Return(t, status) ==
    /\ pc[t] = "run"
    /\ pc' = [pc EXCEPT ![t] = "idle"]
    /\ call' = [call EXCEPT ![t] = NoCall]
    /\ ret' = [ret EXCEPT ![t] =
         [op |-> call[t].op, backend |-> call[t].backend, clean |-> Clean(t),
          exact |-> call[t].len["sig"] = Size(call[t].backend, "sig"), status |-> status]]
    /\ UNCHANGED <<connected, alg, cap, msg>>

RejectNull(t) ==
    /\ call[t].null # {}
    /\ Return(t, "INVALID_ARG")
    /\ UNCHANGED <<ext, val>>

(* Mutant of TooShort: verification forgets the signature's length. *)
TooShortButVerify(c) ==
    \E b \in BuffersOf(c.op) \ (IF c.op = "verify" THEN {"sig"} ELSE {}) :
        c.len[b] < Size(c.backend, b)

TooShort(c) == \E b \in BuffersOf(c.op) : c.len[b] < Size(c.backend, b)

RejectShort(t) ==
    /\ call[t].null = {}
    /\ TooShort(call[t])
    /\ Return(t, "BUFFER_TOO_SMALL")
    /\ UNCHANGED <<ext, val>>

(* The call passed its checks.  The body accesses every argument up to the *)
(* backend's own size, whatever length was given.                          *)
Accepted(t, op, backend) ==
    /\ pc[t] = "run"
    /\ call[t].op = op
    /\ call[t].backend = backend
    /\ call[t].null = {}
    /\ ~TooShort(call[t])
    /\ ext' = [ext EXCEPT ![t] = [b \in Buffers |->
         IF b \in BuffersOf(op) /\ ext[t][b] < Size(backend, b)
         THEN Size(backend, b) ELSE ext[t][b]]]

DummyKeypair(t) ==
    /\ Accepted(t, "keypair", "DUMMY")
    /\ \E r \in Entropy :
          val' = [val EXCEPT ![t]["pk"] = PublicKey("DUMMY", r),
                             ![t]["sk"] = SecretKey("DUMMY", r)]
    /\ Return(t, "OK")

MldsaKeypair(t) ==
    /\ Accepted(t, "keypair", "MLDSA")
    /\ \E rc \in KeypairReturns :
          IF rc = 0
          THEN /\ \E r \in Entropy :
                     val' = [val EXCEPT ![t]["pk"] = PublicKey("MLDSA", r),
                                        ![t]["sk"] = SecretKey("MLDSA", r)]
               /\ Return(t, "OK")
          ELSE /\ val' = [val EXCEPT ![t]["pk"] = Partial, ![t]["sk"] = Partial]
               /\ Return(t, "KEYGEN_FAILED")

(* The dummy derives the signature from the message and its key prefix. *)
DummySign(t) ==
    /\ Accepted(t, "sign", "DUMMY")
    /\ val' = [val EXCEPT ![t]["sig"] =
                  Signature("DUMMY", EmbeddedKey("DUMMY", val[t]["sk"]), msg[t])]
    /\ Return(t, "OK")

(* Mutant of MldsaSign: the length the primitive reports is not looked at. *)
MldsaSignUnmeasured(t) ==
    /\ Accepted(t, "sign", "MLDSA")
    /\ \E result \in SignReturns :
          /\ val' = [val EXCEPT ![t]["sig"] =
                IF result = <<0, Size("MLDSA", "sig")>>
                THEN Signature("MLDSA", EmbeddedKey("MLDSA", val[t]["sk"]), msg[t])
                ELSE Partial]
          /\ Return(t, IF result[1] = 0 THEN "OK" ELSE "SIGN_FAILED")

(* The result code and the reported length must both be right. *)
MldsaSign(t) ==
    /\ Accepted(t, "sign", "MLDSA")
    /\ \E result \in SignReturns :
          IF result = <<0, Size("MLDSA", "sig")>>
          THEN /\ val' = [val EXCEPT ![t]["sig"] =
                             Signature("MLDSA", EmbeddedKey("MLDSA", val[t]["sk"]), msg[t])]
               /\ Return(t, "OK")
          ELSE /\ val' = [val EXCEPT ![t]["sig"] = Partial]
               /\ Return(t, "SIGN_FAILED")

(* Mutant of DummyVerify: the public key is left out of the derivation. *)
DummyVerifyKeyless(t) ==
    /\ Accepted(t, "verify", "DUMMY")
    /\ Return(t, IF \E k \in Keys \cup {Opaque} : val[t]["sig"] = Signature("DUMMY", k, msg[t])
                 THEN "OK" ELSE "VERIFY_FAILED")
    /\ UNCHANGED val

(* Derive the signature again from the public key given, and compare. *)
DummyVerify(t) ==
    /\ Accepted(t, "verify", "DUMMY")
    /\ Return(t, IF val[t]["sig"] = Signature("DUMMY", val[t]["pk"], msg[t])
                 THEN "OK" ELSE "VERIFY_FAILED")
    /\ UNCHANGED val

(* The whole signature_len is handed on: a longer buffer does not verify. *)
MldsaVerify(t) ==
    /\ Accepted(t, "verify", "MLDSA")
    /\ Return(t, IF /\ call[t].len["sig"] = Size("MLDSA", "sig")
                    /\ val[t]["sig"] = Signature("MLDSA", val[t]["pk"], msg[t])
                 THEN "OK" ELSE "VERIFY_FAILED")
    /\ UNCHANGED val

-----------------------------------------------------------------------------
Run(t) ==
    \/ RejectNull(t)
    \/ RejectShort(t)
    \/ DummyKeypair(t) \/ MldsaKeypair(t)
    \/ DummySign(t) \/ MldsaSign(t)
    \/ DummyVerify(t) \/ MldsaVerify(t)

Next ==
    \/ \E t \in Threads, a \in Algorithms \cup {"OTHER"} : SetAlgorithm(t, a)
    \/ \E t \in Clients :
          \/ \E slack \in 0..MaxSlack : \E short \in SUBSET Buffers : GetSizes(t, slack, short)
          \/ \E m \in Messages : ChangeMessage(t, m)
          \/ \E b \in {"pk", "sig"} : Tamper(t, b)
          \/ \E op \in Ops : \E null \in SUBSET PointersOf(op) : Dispatch(t, op, null)
          \/ Run(t)

Spec == Init /\ [][Next]_vars

-----------------------------------------------------------------------------
(* Properties. *)

(* Every variable has its type, and the selector never names a reference   *)
(* backend that is not built in.                                           *)
TypeOK ==
    /\ connected \in BOOLEAN
    /\ alg \in (IF connected THEN Algorithms ELSE {"DUMMY"})
    /\ pc \in [Clients -> {"idle", "run"}]
    /\ call \in [Clients -> [op : Ops, backend : Backends, null : SUBSET (Buffers \cup {"msg"}),
                             len : [Buffers -> Nat]]]
    /\ cap \in [Clients -> [Buffers -> Nat]]
    /\ ext \in [Clients -> [Buffers -> Nat]]
    /\ val \in [Clients -> [Buffers -> Contents]]
    /\ \A t \in Clients : \A b \in Buffers : val[t][b] \in Holds(b)
    /\ msg \in [Clients -> Messages]
    /\ ret \in [Clients -> [op : Ops, backend : Backends, clean : BOOLEAN, exact : BOOLEAN,
                            status : Statuses]]

(* No backend accesses a buffer beyond its allocation, however the         *)
(* selector moves between sizing and use.                                  *)
SigNoOverrun ==
    \A t \in Clients : \A b \in Buffers : ext[t][b] <= cap[t][b]

(* The signature held was made by backend b, from the secret key held,     *)
(* over the message held, and the public key held belongs to that key.     *)
Genuine(t, b) ==
    LET key == EmbeddedKey(b, val[t]["sk"]) IN
    /\ val[t]["sig"] = Signature(b, key, msg[t])
    /\ val[t]["pk"] = key

(* Verification tells genuine signatures from all others, on both backends *)
(* and through every change of message, key, signature and selector; the   *)
(* reference backend also refuses a genuine one given with excess length.  *)
VerifyExact ==
    \A t \in Clients :
        LET r == ret[t] IN
        r.op = "verify" /\ r.status \in {"OK", "VERIFY_FAILED"} =>
            (r.status = "OK" <=> Genuine(t, r.backend) /\ (r.backend = "MLDSA" => r.exact))

(* The pair held was generated by backend b. *)
PairOf(t, b) ==
    \E r \in Entropy : val[t]["pk"] = PublicKey(b, r) /\ val[t]["sk"] = SecretKey(b, r)

(* Honest use succeeds however the selector moves: a call whose buffers    *)
(* are large enough for the very backend that runs is never refused for    *)
(* its arguments; a signature reported as made with a pair of that backend *)
(* is genuine; and a genuine one of exactly the right length verifies.     *)
(* Only the primitives of the reference backend can fail.                  *)
HonestUseSucceeds ==
    \A t \in Clients :
        LET r == ret[t] IN
        r.clean =>
            CASE r.op = "keypair" ->
                    r.status = "OK" \/ (r.status = "KEYGEN_FAILED" /\ r.backend = "MLDSA")
              [] r.op = "sign"    ->
                    \/ r.status = "SIGN_FAILED" /\ r.backend = "MLDSA"
                    \/ r.status = "OK" /\ (PairOf(t, r.backend) => Genuine(t, r.backend))
              [] r.op = "verify"  -> Genuine(t, r.backend) /\ r.exact => r.status = "OK"
=============================================================================
