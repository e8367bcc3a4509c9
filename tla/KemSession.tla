------------------------------- MODULE KemSession -------------------------------
(***************************************************************************)
(* One caller's KEM session, inside the calls that PqcKem takes as a step: *)
(* the dummy backend byte by byte (DummyKemBytes), and the reference       *)
(* backend down to the loop in which the vendored randombytes asks the     *)
(* kernel for coins, and the re-encryption of kem.c (MlkemFo).             *)
(*                                                                         *)
(* The coins of crypto_kem_keypair and crypto_kem_enc are an uninitialised *)
(* array on the stack, and the result of randombytes is not looked at:     *)
(* cells that the kernel did not fill hold what the stack held.            *)
(***************************************************************************)
EXTENDS DummyKemBytes, MlkemFo, Sequences

CONSTANTS
    SymCells,       \* cells that stand for KYBER_SYMBYTES bytes
    MaxChunk,       \* the most the loop asks of getrandom, 33554431
    MaxCoins,       \* BOUND: cells of coins all calls of a session use
    MaxFailures,    \* BOUND: requests the kernel refuses
    MaxChanges      \* BOUND: changes made to the ciphertext and secret key

ASSUME SessionAssumption ==
    /\ SymCells \in Nat \ {0} /\ MaxChunk \in Nat \ {0}
    /\ MaxCoins \in Nat /\ MaxFailures \in Nat /\ MaxChanges \in Nat

VARIABLES
    backend,    \* the backend of this session
    pk, sk,     \* the caller's key pair
    ct, ss,     \* what encapsulation gave, the ciphertext perhaps changed since
    made,       \* the ciphertext as encapsulation left it
    sd,         \* the secret of decapsulation
    status,     \* its result, while the buffers are those it ran on
    have,       \* which of "keys" and "cipher" the session has
    changes,    \* how many changes the caller made
    op,         \* the call that waits for coins
    coins, off, \* its coins and how far they are filled
    errno,      \* why the last getrandom came back with -1
    drawn,      \* cells of entropy the kernel gave so far, numbered
    failures,   \* requests the kernel refused
    handed      \* HISTORY: the coins every call has used, in order

buffers == <<pk, sk, ct, ss, made, sd, status, have>>
request == <<op, coins, off, errno, drawn, failures, handed>>
vars    == <<backend, changes, buffers, request>>

None  == <<"none">>
Unset == [i \in 1 .. 2 * SymCells |-> 0]    \* 0: bytes of no call's coins
Zero  == [i \in 0 .. SsLen - 1 |-> 0]

(* randombytes is asked for d and z, or for the message. *)
Want(o) == IF o = "keypair" THEN 2 * SymCells ELSE SymCells

Init ==
    /\ backend \in {"DUMMY", "MLKEM"}
    /\ pk = None /\ sk = None /\ ct = None /\ ss = None /\ made = None /\ sd = None
    /\ status = "none" /\ have = {} /\ changes = 0
    /\ op = "none" /\ coins = Unset /\ off = 0 /\ errno = "none"
    /\ drawn = 0 /\ failures = 0 /\ handed = <<>>

Calls(b) == backend = b /\ op = "none"

-----------------------------------------------------------------------------
(* The dummy backend; rand() cannot fail.  A session has one key pair.     *)

DummyKeypair ==
    /\ Calls("DUMMY")
    /\ have = {}
    /\ have' = {"keys"}
    /\ \E key \in KeyBytes, tail \in Bit :
          /\ pk' = key
          /\ sk' = [i \in 0 .. PkLen |-> IF i < PkLen THEN key[i] ELSE tail]
    /\ UNCHANGED <<backend, changes, ct, ss, made, sd, status, request>>

DummyEncaps ==
    /\ Calls("DUMMY")
    /\ "keys" \in have
    /\ have' = {"keys", "cipher"}
    /\ \E nonce \in NonceBytes :
          /\ ct' = Cipher(pk, nonce)
          /\ made' = ct'
          /\ ss' = DummySecret(pk, nonce)
    /\ status' = "none"
    /\ UNCHANGED <<backend, changes, pk, sk, sd, request>>

(* The ciphertext begins with its nonce, so it stands for the nonce. *)
DummyDecaps ==
    /\ Calls("DUMMY")
    /\ "cipher" \in have
    /\ IF Accepts(sk, ct)
       THEN sd' = DummySecret(sk, ct) /\ status' = "OK"
       ELSE sd' = Zero /\ status' = "DECAP_FAILED"
    /\ UNCHANGED <<backend, changes, pk, sk, ct, ss, made, have, request>>

-----------------------------------------------------------------------------
(* The reference backend. *)

(* The call enters randombytes; the array is where an earlier call had its *)
(* coins, or elsewhere.                                                    *)
Begin(o) ==
    /\ Calls("MLKEM")
    /\ o = "enc" => "keys" \in have
    /\ Len(handed) + Want(o) <= MaxCoins
    /\ op' = o
    /\ coins' \in {coins, Unset}
    /\ off' = 0
    /\ UNCHANGED <<backend, changes, buffers, errno, drawn, failures, handed>>

(* Back in kem.c: the derandomised function runs on the coins as they are. *)
Derand(c) ==
    LET first == SubSeq(c, 1, SymCells) IN
    /\ handed' = handed \o SubSeq(c, 1, Want(op))
    /\ op' = "none"
    /\ status' = "none"
    /\ IF op = "keypair"
       THEN LET pair == KeypairDerand(first, SubSeq(c, SymCells + 1, 2 * SymCells)) IN
            /\ pk' = pair.pk /\ sk' = pair.sk /\ have' = have \cup {"keys"}
            /\ UNCHANGED <<ct, ss, made>>
       ELSE LET sent == EncDerand(pk, <<"m", first>>) IN
            /\ ct' = sent.ct /\ made' = sent.ct /\ ss' = sent.ss
            /\ have' = have \cup {"cipher"}
            /\ UNCHANGED <<pk, sk>>
    /\ UNCHANGED <<backend, changes, sd>>

(* Mutant of Interrupted: the loop starts over. *)
InterruptedRestarts ==
    /\ op # "none"
    /\ errno' = "EINTR"
    /\ off' = 0
    /\ UNCHANGED <<backend, changes, buffers, op, coins, drawn, failures, handed>>

(* Interrupted by a signal: the same request again. *)
Interrupted ==
    /\ op # "none"
    /\ errno' = "EINTR"
    /\ UNCHANGED <<backend, changes, buffers, op, coins, off, drawn, failures, handed>>

(* Mutant of Advance: a partial read is taken to have given everything.    *)
AdvanceToEnd(k) == Want(op)

(* Mutant of Advance: off by one. *)
AdvanceExtra(k) == off + k + 1

(* How far the array is filled after k more cells. *)
Advance(k) == off + k

(* The kernel gives k of the cells asked for; the loop goes on until all   *)
(* are there.                                                              *)
Given(k) ==
    /\ op # "none"
    /\ k <= Want(op) - off
    /\ k <= MaxChunk
    /\ drawn + k <= MaxCoins
    /\ drawn' = drawn + k
    /\ coins' = [i \in DOMAIN coins |->
                    IF i \in off + 1 .. off + k THEN drawn + i - off ELSE coins[i]]
    /\ off' = Advance(k)
    /\ IF off' = Want(op)
       THEN Derand(coins')
       ELSE UNCHANGED <<backend, changes, buffers, op, handed>>
    /\ UNCHANGED <<errno, failures>>

(* Any other error ends randombytes with -1, which no caller looks at. *)
Refused ==
    /\ op # "none"
    /\ failures < MaxFailures
    /\ failures' = failures + 1
    /\ errno' = "EIO"
    /\ Derand(coins)
    /\ UNCHANGED <<coins, off, drawn>>

MlkemDecaps ==
    /\ Calls("MLKEM")
    /\ "cipher" \in have
    /\ sd' = KemDec(ct, sk)
    /\ status' = "OK"
    /\ UNCHANGED <<backend, changes, pk, sk, ct, ss, made, have, request>>

-----------------------------------------------------------------------------
(* The caller's copy of the ciphertext or of the secret key is changed.    *)

Change(b, what) ==
    /\ Calls(b)
    /\ what \in have
    /\ changes < MaxChanges
    /\ changes' = changes + 1
    /\ status' = "none"
    /\ UNCHANGED <<backend, pk, ss, made, sd, have, request>>

ChangeDummyCipher(i) ==
    /\ Change("DUMMY", "cipher")
    /\ ct' = [ct EXCEPT ![i] = 1 - @]
    /\ UNCHANGED sk

ChangeDummyKey(i) ==
    /\ Change("DUMMY", "keys")
    /\ sk' = [sk EXCEPT ![i] = 1 - @]
    /\ UNCHANGED ct

ChangeMlkemCipher(how) ==
    /\ Change("MLKEM", "cipher")
    /\ ct' = [ct EXCEPT !.change = how]
    /\ UNCHANGED sk

ChangeMlkemKey(part) ==
    /\ Change("MLKEM", "keys")
    /\ sk' = [sk EXCEPT ![part] = <<"bad">>]
    /\ UNCHANGED ct

Next ==
    \/ DummyKeypair \/ DummyEncaps \/ DummyDecaps
    \/ \E o \in {"keypair", "enc"} : Begin(o)
    \/ Interrupted
    \/ \E k \in 1 .. 2 * SymCells : Given(k)
    \/ Refused
    \/ MlkemDecaps
    \/ \E i \in 0 .. CtLen - 1 : ChangeDummyCipher(i)
    \/ \E i \in 0 .. PkLen : ChangeDummyKey(i)
    \/ \E how \in {"near", "far"} : ChangeMlkemCipher(how)
    \/ \E part \in {"dk", "pk", "h", "z"} : ChangeMlkemKey(part)

Spec == Init /\ [][Next]_vars

(* The kernel does not interrupt a request for ever: it answers. *)
FairSpec == Spec /\ WF_vars((\E k \in 1 .. 2 * SymCells : Given(k)) \/ Refused)

-----------------------------------------------------------------------------
(* Properties. *)

(* The bookkeeping of the loop: it never fills past what was asked for,    *)
(* and every cell that was handed on is from the kernel or from before.    *)
TypeOK ==
    /\ op \in {"none", "keypair", "enc"}
    /\ op # "none" => off \in 0 .. Want(op) - 1
    /\ errno \in {"none", "EINTR", "EIO"}
    /\ status \in {"none", "OK", "DECAP_FAILED"}
    /\ have \subseteq {"keys", "cipher"}
    /\ \A i \in DOMAIN coins : coins[i] \in 0 .. drawn
    /\ \A i \in DOMAIN handed : handed[i] \in 0 .. drawn

(* Where two byte strings differ. *)
Differ(f, g, S) == {i \in S : f[i] # g[i]}

(* The dummy's verdict and secret, byte for byte.  For the ciphertext as   *)
(* it was made: decapsulation succeeds exactly if the secret key agrees    *)
(* with the public key on the bytes the comparison covers, and then the    *)
(* secrets agree exactly if the bytes that enter the secret do - bytes     *)
(* below SsLen are in no comparison, so a wrong key can succeed with a     *)
(* wrong secret.  One changed ciphertext byte is always noticed.           *)
DummyExact ==
    backend = "DUMMY" /\ status # "none" =>
        /\ ct = made =>
              /\ status = "OK" <=> Differ(pk, sk, CheckedBytes) = {}
              /\ status = "OK" => (sd = ss <=> Differ(pk, sk, SecretBytes) = {})
        /\ (\E i \in DOMAIN ct : Differ(ct, made, DOMAIN ct) = {i})
              /\ Differ(pk, sk, DOMAIN pk) = {} => status = "DECAP_FAILED"
        /\ status = "DECAP_FAILED" => sd = Zero

(* The secret key decrypts for the public key held and holds its hash.     *)
IntactFor(key) ==
    /\ sk.dk[1] = "dk" /\ key = IndcpaPk(sk.dk[2])
    /\ sk.pk = key
    /\ sk.h = HashH(key)

(* Decapsulation with the reference backend gives the encapsulated secret  *)
(* exactly for the unchanged ciphertext and a key whose parts all belong   *)
(* to it (z may be wrong), and otherwise the rejection key of that very    *)
(* ciphertext - also where a change is small enough to decrypt, and also   *)
(* with the coins a failed randombytes left.                               *)
MlkemExact ==
    backend = "MLKEM" /\ status = "OK" =>
        IF ct = made /\ IntactFor(made.key)
        THEN sd = ss
        ELSE sd # ss /\ sd = Rkprf(sk.z, ct)

(* However the kernel splits or interrupts its answers, every cell of      *)
(* coins that any call used is fresh: from the kernel, and used by no      *)
(* other.  Only a refused request lets stale stack contents through, and   *)
(* then nobody is told.                                                    *)
FreshCoins ==
    failures = 0 =>
        \A i, j \in DOMAIN handed : handed[i] > 0 /\ (i # j => handed[i] # handed[j])

(* A call that waits for coins returns. *)
CallsReturn == op # "none" ~> op = "none"
=============================================================================
