-------------------------------- MODULE PqcKem --------------------------------
(***************************************************************************)
(* The KEM half of the library: the process-global backend selector and    *)
(* the routing of src/pqc_module.c over the backends of src/pqc_kem.c.     *)
(*                                                                         *)
(* Every public call fetches the backend pointer once and then runs one    *)
(* backend function on the caller's buffers.  The selector is shared by    *)
(* all threads without a lock, so a call can be dispatched to another      *)
(* backend than the one pqc_get_sizes described to the same caller.        *)
(*                                                                         *)
(* A buffer has a capacity, the extent the library ever accessed, and a    *)
(* symbolic content of module KemScheme.                                   *)
(***************************************************************************)
EXTENDS KemScheme, FiniteSets

CONSTANTS
    Threads,        \* the threads of the process; each may select a backend
    Clients,        \* the threads that also run KEM sessions
    Builds,         \* the builds considered: TRUE if PQC_ENABLE_MLKEM_REF
    MlkemReturns,   \* the results of the vendored crypto_kem_* functions
    Disciplines,    \* how callers synchronise: holders the lock may start with
    MaxFaults,      \* BOUND: buffers one byte short per session, NULLs per call
    NoThread,       \* the lock is free: a session is run under it
    NoLock          \* there is no lock: callers interleave at will

ASSUME KemAssumption ==
    /\ Clients \subseteq Threads
    /\ NoThread \notin Threads
    /\ NoLock \notin Threads \cup {NoThread}
    /\ Disciplines \subseteq {NoThread, NoLock}
    /\ Builds \subseteq BOOLEAN
    /\ MaxFaults \in Nat

-----------------------------------------------------------------------------
(* Algorithms, statuses, buffers. *)

Algorithms == {"DUMMY", "REF"}
Ops        == {"keypair", "encaps", "decaps"}
Statuses   == {"OK", "INVALID_ARG", "BUFFER_TOO_SMALL", "KEYGEN_FAILED",
               "ENCAP_FAILED", "DECAP_FAILED", "INTERNAL"}

(* A session's buffers; "ss" and "sd" receive the two shared secrets. *)
Buffers == {"pk", "sk", "ct", "ss", "sd"}

BuffersOf(op) == CASE op = "keypair" -> {"pk", "sk"}
                   [] op = "encaps"  -> {"ct", "ss", "pk"}
                   [] op = "decaps"  -> {"sd", "ct", "sk"}

InputsOf(op) == CASE op = "keypair" -> {}
                  [] op = "encaps"  -> {"pk"}
                  [] op = "decaps"  -> {"ct", "sk"}

Keys     == {Junk, Partial} \cup {PublicKey(b, r) : b \in Backends, r \in Entropy}
SKeys    == {Junk, Partial} \cup {SecretKey(b, r) : b \in Backends, r \in Entropy}
Ciphers  == {Junk, Partial, Tampered} \cup
            {Ciphertext(b, k, n) : b \in Backends, k \in Keys, n \in Entropy}
Secrets  == {Junk, Zero, RejectKey} \cup
            {Secret(b, k, n) : b \in Backends, k \in Keys, n \in Entropy}
Contents == Keys \cup SKeys \cup Ciphers \cup Secrets

Holds(b) == CASE b = "pk" -> Keys
              [] b = "sk" -> SKeys
              [] b = "ct" -> Ciphers
              [] b \in {"ss", "sd"} -> Secrets

-----------------------------------------------------------------------------
VARIABLES
    connected,  \* the build option, fixed at the start
    alg,        \* g_active_algorithm
    pc,         \* is the thread inside a backend function?
    call,       \* the call in progress, with the fetched backend
    cap,        \* the size each buffer was allocated with
    ext,        \* how far into each buffer the library accessed
    val,        \* what each buffer holds
    ret,        \* the last completed call
    holder      \* the callers' external lock, or NoLock for good

vars == <<connected, alg, pc, call, cap, ext, val, ret, holder>>

NoBuffers == [b \in Buffers |-> 0]
NoCall   == [op |-> "keypair", backend |-> "DUMMY", null |-> {}, len |-> NoBuffers]
NoReturn == [op |-> "keypair", backend |-> "DUMMY", clean |-> FALSE, status |-> "INTERNAL"]
AllJunk   == [b \in Buffers |-> Junk]

Init ==
    /\ connected \in Builds
    /\ alg = "DUMMY"
    /\ pc = [t \in Clients |-> "idle"]
    /\ call = [t \in Clients |-> NoCall]
    /\ cap = [t \in Clients |-> NoBuffers]
    /\ ext = [t \in Clients |-> NoBuffers]
    /\ val = [t \in Clients |-> AllJunk]
    /\ ret = [t \in Clients |-> NoReturn]
    /\ holder \in Disciplines

Locked       == holder # NoLock
HasLock(t)   == Locked => holder = t
Allocated(t) == \A b \in Buffers : cap[t][b] > 0

-----------------------------------------------------------------------------
(* The callers' lock: the header asks for "external synchronization".  A   *)
(* locked session selects, sizes, runs and frees under one acquisition.    *)

Acquire(t) ==
    /\ holder = NoThread
    /\ holder' = t
    /\ UNCHANGED <<connected, alg, pc, call, cap, ext, val, ret>>

Release(t) ==
    /\ holder = t
    /\ holder' = NoThread
    /\ IF t \in Clients
       THEN /\ pc[t] = "idle"
            /\ cap' = [cap EXCEPT ![t] = NoBuffers]
            /\ ext' = [ext EXCEPT ![t] = NoBuffers]
            /\ val' = [val EXCEPT ![t] = AllJunk]
            /\ ret' = [ret EXCEPT ![t] = NoReturn]
       ELSE UNCHANGED <<cap, ext, val, ret>>
    /\ UNCHANGED <<connected, alg, pc, call>>

(* Mutant of SetAlgorithm: the argument is not validated. *)
SetAlgorithmUnchecked(t, a) ==
    /\ HasLock(t)
    /\ t \in Clients => pc[t] = "idle" /\ (Locked => ~Allocated(t))
    /\ alg' = a
    /\ UNCHANGED <<connected, pc, call, cap, ext, val, ret, holder>>

(* pqc_set_algorithm; "OTHER" stands for any value outside the enum, which *)
(* is refused.  REF is accepted even where it is not connected.            *)
SetAlgorithm(t, a) ==
    /\ HasLock(t)
    /\ t \in Clients => pc[t] = "idle" /\ (Locked => ~Allocated(t))
    /\ alg' = IF a \in Algorithms THEN a ELSE alg
    /\ UNCHANGED <<connected, pc, call, cap, ext, val, ret, holder>>

(* pqc_kem_get_backend *)
ActiveBackend ==
    IF alg = "REF" THEN IF connected THEN "MLKEM" ELSE "PLACEHOLDER"
                   ELSE "DUMMY"

(* pqc_get_sizes reads all four sizes from one fetched backend; the caller *)
(* allocates its buffers by them, those in "short" a byte too small.       *)
GetSizes(t, short) ==
    /\ HasLock(t)
    /\ pc[t] = "idle"
    /\ Cardinality(short) <= MaxFaults
    /\ cap' = [cap EXCEPT ![t] = [b \in Buffers |->
         IF b \in short THEN Size(ActiveBackend, b) - 1 ELSE Size(ActiveBackend, b)]]
    /\ ext' = [ext EXCEPT ![t] = NoBuffers]
    /\ val' = [val EXCEPT ![t] = AllJunk]
    /\ ret' = [ret EXCEPT ![t] = NoReturn]
    /\ UNCHANGED <<connected, alg, pc, call, holder>>

(* A caller changes a ciphertext byte between encapsulation and use. *)
TamperCiphertext(t) ==
    /\ pc[t] = "idle"
    /\ val[t]["ct"][1] = "ct"
    /\ val' = [val EXCEPT ![t]["ct"] = Tampered]
    /\ ret' = [ret EXCEPT ![t] = NoReturn]
    /\ UNCHANGED <<connected, alg, pc, call, cap, ext, holder>>

(* pqc_kem_keypair / _encaps / _decaps: fetch the backend, enter it.       *)
(* Callers pass written inputs and the lengths they allocated, and NULL    *)
(* for the buffers in "null".                                              *)
Dispatch(t, op, null) ==
    /\ HasLock(t)
    /\ pc[t] = "idle"
    /\ Allocated(t)
    /\ \A b \in InputsOf(op) : val[t][b] # Junk
    /\ null \subseteq BuffersOf(op)
    /\ Cardinality(null) <= MaxFaults
    /\ pc' = [pc EXCEPT ![t] = "run"]
    /\ call' = [call EXCEPT ![t] =
         [op |-> op, backend |-> ActiveBackend, null |-> null, len |-> cap[t]]]
    /\ UNCHANGED <<connected, alg, cap, ext, val, ret, holder>>

-----------------------------------------------------------------------------
(* The backend functions.  Nothing they touch is shared, so each runs in   *)
(* one step: the argument checks in the code's order, then the body.       *)

(* No NULL, and no buffer smaller than was reported. *)
Clean(t) == /\ call[t].null = {}
            /\ \A b \in BuffersOf(call[t].op) :
                  \E x \in Backends : call[t].len[b] = Size(x, b)

Return(t, status) ==
    /\ pc[t] = "run"
    /\ pc' = [pc EXCEPT ![t] = "idle"]
    /\ call' = [call EXCEPT ![t] = NoCall]
    /\ ret' = [ret EXCEPT ![t] = [op |-> call[t].op, backend |-> call[t].backend,
                                  clean |-> Clean(t), status |-> status]]
    /\ UNCHANGED <<connected, alg, cap, holder>>

(* ref_not_connected_*: no argument is looked at. *)
RunPlaceholder(t) ==
    /\ call[t].backend = "PLACEHOLDER"
    /\ Return(t, "INTERNAL")
    /\ UNCHANGED <<ext, val>>

RejectNull(t) ==
    /\ call[t].backend # "PLACEHOLDER"
    /\ call[t].null # {}
    /\ Return(t, "INVALID_ARG")
    /\ UNCHANGED <<ext, val>>

(* Mutant of TooShort: encapsulation forgets the ciphertext's length. *)
TooShortButCiphertext(c) ==
    \E b \in BuffersOf(c.op) \ (IF c.op = "encaps" THEN {"ct"} ELSE {}) :
        c.len[b] < Size(c.backend, b)

(* Mutant of TooShort: a buffer of exactly the right size is refused. *)
TooShortOrEqual(c) ==
    \E b \in BuffersOf(c.op) : c.len[b] <= Size(c.backend, b)

TooShort(c) == \E b \in BuffersOf(c.op) : c.len[b] < Size(c.backend, b)

(* Mutant of RejectShort: the public key is written before the secret      *)
(* key's length is checked.                                                *)
RejectShortLate(t) ==
    /\ call[t].backend # "PLACEHOLDER"
    /\ call[t].null = {}
    /\ TooShort(call[t])
    /\ Return(t, "BUFFER_TOO_SMALL")
    /\ IF call[t].op = "keypair" /\ call[t].len["pk"] >= Size(call[t].backend, "pk")
       THEN \E r \in Entropy : val' = [val EXCEPT ![t]["pk"] = PublicKey(call[t].backend, r)]
       ELSE UNCHANGED val
    /\ UNCHANGED ext

RejectShort(t) ==
    /\ call[t].backend # "PLACEHOLDER"
    /\ call[t].null = {}
    /\ TooShort(call[t])
    /\ Return(t, "BUFFER_TOO_SMALL")
    /\ UNCHANGED <<ext, val>>

(* The call passed the checks of a connected backend.  The body accesses   *)
(* every argument up to the backend's own size, whatever length was given. *)
(* A failed call also wipes the secret over the length given, which is the *)
(* one the caller allocated: LengthsHonest, in PqcKem_proofs.              *)
Accepted(t, op, backend) ==
    /\ pc[t] = "run"
    /\ call[t].op = op
    /\ call[t].backend = backend
    /\ call[t].null = {}
    /\ ~TooShort(call[t])
    /\ ext' = [ext EXCEPT ![t] = [b \in Buffers |->
         IF b \in BuffersOf(op) /\ ext[t][b] < Size(backend, b)
         THEN Size(backend, b) ELSE ext[t][b]]]

DummyKeypair(t) ==
    /\ Accepted(t, "keypair", "DUMMY")
    /\ \E r \in Entropy :
          val' = [val EXCEPT ![t]["pk"] = PublicKey("DUMMY", r),
                             ![t]["sk"] = SecretKey("DUMMY", r)]
    /\ Return(t, "OK")

(* Nonce and masked public key make the ciphertext, both make the secret. *)
DummyEncaps(t) ==
    /\ Accepted(t, "encaps", "DUMMY")
    /\ \E n \in Entropy :
          val' = [val EXCEPT ![t]["ct"] = Ciphertext("DUMMY", val[t]["pk"], n),
                             ![t]["ss"] = Secret("DUMMY", val[t]["pk"], n)]
    /\ Return(t, "OK")

(* Mutant of DummyDecaps: the mask of the ciphertext is not compared. *)
DummyDecapsUnchecked(t) ==
    LET key == EmbeddedKey("DUMMY", val[t]["sk"]) IN
    /\ Accepted(t, "decaps", "DUMMY")
    /\ val' = [val EXCEPT ![t]["sd"] =
         IF Opens("DUMMY", key, val[t]["ct"]) THEN SecretIn(val[t]["ct"]) ELSE RejectKey]
    /\ Return(t, "OK")

(* A mask byte that differs: the secret is cleared and the call fails. *)
DummyDecaps(t) ==
    LET key == EmbeddedKey("DUMMY", val[t]["sk"]) IN
    /\ Accepted(t, "decaps", "DUMMY")
    /\ IF Opens("DUMMY", key, val[t]["ct"])
       THEN /\ val' = [val EXCEPT ![t]["sd"] = SecretIn(val[t]["ct"])]
            /\ Return(t, "OK")
       ELSE /\ val' = [val EXCEPT ![t]["sd"] = Zero]
            /\ Return(t, "DECAP_FAILED")

MlkemKeypair(t) ==
    /\ Accepted(t, "keypair", "MLKEM")
    /\ \E rc \in MlkemReturns :
          IF rc = 0
          THEN /\ \E r \in Entropy :
                     val' = [val EXCEPT ![t]["pk"] = PublicKey("MLKEM", r),
                                        ![t]["sk"] = SecretKey("MLKEM", r)]
               /\ Return(t, "OK")
          ELSE /\ val' = [val EXCEPT ![t]["pk"] = Partial, ![t]["sk"] = Partial]
               /\ Return(t, "KEYGEN_FAILED")

MlkemEncaps(t) ==
    /\ Accepted(t, "encaps", "MLKEM")
    /\ \E rc \in MlkemReturns :
          IF rc = 0
          THEN /\ \E n \in Entropy :
                     val' = [val EXCEPT ![t]["ct"] = Ciphertext("MLKEM", val[t]["pk"], n),
                                        ![t]["ss"] = Secret("MLKEM", val[t]["pk"], n)]
               /\ Return(t, "OK")
          ELSE /\ val' = [val EXCEPT ![t]["ct"] = Partial, ![t]["ss"] = Zero]
               /\ Return(t, "ENCAP_FAILED")

(* Mutant of MlkemDecaps: the conditional move has its condition inverted. *)
MlkemDecapsInverted(t) ==
    LET key == EmbeddedKey("MLKEM", val[t]["sk"]) IN
    /\ Accepted(t, "decaps", "MLKEM")
    /\ val' = [val EXCEPT ![t]["sd"] =
         IF ~Opens("MLKEM", key, val[t]["ct"]) /\ val[t]["ct"][1] = "ct"
         THEN SecretIn(val[t]["ct"]) ELSE RejectKey]
    /\ Return(t, "OK")

(* crypto_kem_dec re-encrypts and, where the result differs, returns the   *)
(* pseudo-random rejection key - with the same result as a success.        *)
MlkemDecaps(t) ==
    LET key == EmbeddedKey("MLKEM", val[t]["sk"]) IN
    /\ Accepted(t, "decaps", "MLKEM")
    /\ \E rc \in MlkemReturns :
          IF rc = 0
          THEN /\ val' = [val EXCEPT ![t]["sd"] =
                    IF Opens("MLKEM", key, val[t]["ct"]) THEN SecretIn(val[t]["ct"])
                                                         ELSE RejectKey]
               /\ Return(t, "OK")
          ELSE /\ val' = [val EXCEPT ![t]["sd"] = Zero]
               /\ Return(t, "DECAP_FAILED")

-----------------------------------------------------------------------------
Run(t) ==
    \/ RunPlaceholder(t) \/ RejectNull(t) \/ RejectShort(t)
    \/ DummyKeypair(t) \/ DummyEncaps(t) \/ DummyDecaps(t)
    \/ MlkemKeypair(t) \/ MlkemEncaps(t) \/ MlkemDecaps(t)

Next ==
    \/ \E t \in Threads :
          \/ Acquire(t)
          \/ Release(t)
          \/ \E a \in Algorithms \cup {"OTHER"} : SetAlgorithm(t, a)
    \/ \E t \in Clients :
          \/ \E short \in SUBSET Buffers : GetSizes(t, short)
          \/ TamperCiphertext(t)
          \/ \E op \in Ops : \E null \in SUBSET BuffersOf(op) : Dispatch(t, op, null)
          \/ Run(t)

Spec == Init /\ [][Next]_vars

-----------------------------------------------------------------------------
(* Properties. *)

(* Every variable has its type. *)
TypeOK ==
    /\ connected \in BOOLEAN
    /\ alg \in Algorithms
    /\ pc \in [Clients -> {"idle", "run"}]
    /\ call \in [Clients -> [op : Ops, backend : Backends, null : SUBSET Buffers,
                             len : [Buffers -> Nat]]]
    /\ cap \in [Clients -> [Buffers -> Nat]]
    /\ ext \in [Clients -> [Buffers -> Nat]]
    /\ val \in [Clients -> [Buffers -> Contents]]
    /\ \A t \in Clients : \A b \in Buffers : val[t][b] \in Holds(b)
    /\ ret \in [Clients -> [op : Ops, backend : Backends, clean : BOOLEAN, status : Statuses]]
    /\ holder \in Threads \cup {NoThread, NoLock}

(* "Check lengths before touching memory": however the selector moves      *)
(* between the caller's pqc_get_sizes and its calls, no backend accesses a *)
(* buffer beyond what the caller allocated.                                *)
NoOverrun ==
    \A t \in Clients : \A b \in Buffers : ext[t][b] <= cap[t][b]

(* The two key buffers are replaced together or not at all: whatever calls *)
(* fail, on whichever backend, the secret key held beside a public key     *)
(* belongs to it.                                                          *)
PairWhole ==
    \A t \in Clients : \A b \in Backends : \A r \in Entropy :
        val[t]["pk"] = PublicKey(b, r) <=> val[t]["sk"] = SecretKey(b, r)

(* The ciphertext held is the unmodified result of encapsulating to the    *)
(* public key that belongs to the secret key held, on backend b.           *)
CiphertextFits(t, b) == Opens(b, EmbeddedKey(b, val[t]["sk"]), val[t]["ct"])

(* The dummy's verdict is exact through every reselection, key change and  *)
(* tampering: success means the secret of the encapsulation, failure means *)
(* a ciphertext that does not fit the key and a cleared secret buffer.     *)
DummyVerdict ==
    \A t \in Clients :
        LET r == ret[t] IN
        r.op = "decaps" /\ r.backend = "DUMMY" =>
            /\ r.status = "OK" => CiphertextFits(t, "DUMMY") /\ val[t]["sd"] = val[t]["ss"]
            /\ r.status = "DECAP_FAILED" =>
                  ~CiphertextFits(t, "DUMMY") /\ val[t]["sd"] = Zero

(* ML-KEM never reports a ciphertext that does not fit: the caller gets    *)
(* the agreed secret exactly when it fits and the rejection key exactly    *)
(* when it does not, both with PQC_OK.                                     *)
MlkemVerdict ==
    \A t \in Clients :
        LET r == ret[t] IN
        r.op = "decaps" /\ r.backend = "MLKEM" /\ r.status = "OK" =>
            val[t]["sd"] = IF CiphertextFits(t, "MLKEM") THEN val[t]["ss"] ELSE RejectKey

(* What external synchronization buys: in a session run under the callers' *)
(* lock, a well-formed call on a connected backend is never refused for    *)
(* its arguments - only a primitive of the reference backend can fail -    *)
(* and a ciphertext that fits the key yields the encapsulated secret.      *)
LockedSessionsAgree ==
    Locked => \A t \in Clients :
        LET r == ret[t]
            failed == /\ r.backend = "MLKEM"
                      /\ r.status = CASE r.op = "keypair" -> "KEYGEN_FAILED"
                                      [] r.op = "encaps"  -> "ENCAP_FAILED"
                                      [] r.op = "decaps"  -> "DECAP_FAILED"
        IN r.clean /\ r.backend # "PLACEHOLDER" =>
              \/ failed
              \/ r.op # "decaps" /\ r.status = "OK"
              \/ r.op = "decaps" /\ ~CiphertextFits(t, r.backend)
              \/ r.op = "decaps" /\ r.status = "OK" /\ val[t]["sd"] = val[t]["ss"]

(* What docs/portfolio-summary.md says of decapsulation: when it fails it  *)
(* reports a failure and the shared-secret buffer is cleared.              *)
FailureIsReported ==
    \A t \in Clients :
        LET r == ret[t] IN
        r.op = "decaps" /\ r.clean /\ r.backend # "PLACEHOLDER"
          /\ ~CiphertextFits(t, r.backend) =>
              r.status # "OK" /\ val[t]["sd"] = Zero
=============================================================================
