# PQC_Project: a TLA+ verification project

PQC_Project is a C11 library (`src/src/pqc_module.c`, `pqc_kem.c`, `pqc_sig.c`,
`pqc_utils.c`) that puts one API over a key-encapsulation scheme and a signature
scheme, each with an insecure *dummy* backend and an optional vendored reference
backend (ML-KEM-768, ML-DSA-65 of PQClean), and a command line program
(`src/src/main.c`) that runs one operation per process on files.

This directory holds TLA+ models of it, TLC configurations that check them on
small instances, and TLAPS proofs of the results that matter most for every
value of the constants. `PROJECT.json` maps every definition to the lines it
stands for.

## 1. The system

| Component | State it keeps | Operations | Who calls it |
| --- | --- | --- | --- |
| Random source of the dummies (two private copies) | a "seeded" flag per translation unit; the process-wide `rand()` generator | seed once, draw bytes | dummy key generation and encapsulation |
| KEM selector and routing | `g_active_algorithm` | `pqc_set_algorithm`, `pqc_get_sizes`, `pqc_kem_keypair/encaps/decaps` | the CLI, library users |
| KEM backends (dummy, ML-KEM, not-connected placeholder) | none of their own; the caller's buffers | the three operations with their checks | the routing |
| Signature selector, routing, backends | `g_sig_algorithm` | `pqc_set_signature_algorithm`, `pqc_sig_get_sizes`, `pqc_sig_keypair/sign/verify` | the CLI, library users |
| CLI commands | heap buffers, files, exit code | keygen, encaps, decaps, sig-keygen, sign, verify | users, scripts |
| CLI benchmark | as above, and a CSV or text report | timed loops, report | users, CI |
| Utilities | none | `secure_memzero`, status strings | all |
| Vendored Keccak (`fips202.c`) | per context 25 state words and a 26th that counts bytes | `*_inc_init/absorb/finalize/squeeze`, `*_absorb/squeezeblocks`, one-shot `shake*`/`sha3_*`, `*_ctx_clone/release` | vendored ML-KEM and ML-DSA |
| Vendored ML-KEM (`kem.c`) | coins on the stack | key pair, encapsulation, decapsulation with implicit rejection | reference KEM backend |
| Vendored ML-DSA (`sign.c`, `packing.c`, `rounding.c`) | the nonce of the rejection loop | key pair, sign, verify | reference signature backend |
| `randombytes` | how far its buffer is filled | ask the kernel until all is there | vendored ML-KEM and ML-DSA |
| Build options, parser script, CI | - | - | - |

How they interact: every public call fetches a backend pointer through the
global selector and jumps into it; the two dummy backends meet in the one C
generator; commands meet each other only through files, the benchmark through
one report file.

What is hard here:

* **Unsynchronised globals.** Both selectors and both seeding flags are plain
  variables. A caller asks for the sizes, allocates, and calls; between the
  steps another thread may have selected another backend.
* **Two backends behind one API with different verdicts.** The dummy reports a
  ciphertext that does not fit; ML-KEM rejects implicitly with `PQC_OK`. The
  sizes differ too, and larger buffers are accepted, so artifacts of one backend
  get past the length checks of the other.
* **Files written one after the other, without atomic replacement.** A command
  can fail or be killed between two outputs, or between truncating and writing.
  Buffered bytes reach the disk in an `fclose` nobody checks.
* **Many exits.** Every handler must pass its wipe on all of them.
* **One counter with two meanings.** The 26th word of an incremental hash
  context counts the bytes absorbed into the current block, and after
  finalization those of the last block not yet squeezed. Callers split input and
  output as they like; nothing but this word tells where a block stands.
* **Entropy that comes in parts, late or not at all.** `randombytes` loops over
  partial and interrupted answers of the kernel; where it gives up, no caller
  looks at its result, and the uninitialised array becomes a key.
* **A loop that starts over for one of four reasons.** What ML-DSA lets out must
  verify, must fit its encoding, must have no second encoding, and must say
  nothing of the secret; each of the four rejections guards one of these.
* **Report files shared by concurrent benchmarks.** The header is decided by a
  probe that is not atomic with the append.

`PROJECT.json` "hazards" lists each with its line and the properties for it. Its
"map" names for each definition the lines it models; where several functions
repeat one check, body or exit, the lines are those of one of them.

## 2. Modules

| Module | Models | State and actions |
| --- | --- | --- |
| `InsecureRng` | `ensure_insecure_test_rng_seeded`, `insecure_test_random_bytes`, both copies | `seeded` the flags, `gen` the shared generator, `pc` the thread's place; each C library call and each access to the flag is its own action (`TestFlag`, `ReadClock`, `Seed`, `Mark`, `Draw`) |
| `KemScheme`, `SigScheme` | sizes and contents of artifacts | symbolic values, no state |
| `PqcKem` | KEM half of `pqc_module.c`, `pqc_kem.c` | `alg` the selector; per client a call in progress, and for each buffer its allocation `cap`, the furthest access `ext` and the content `val`; `holder` the lock callers may use. `Dispatch` fetches the backend, a backend function is one later step |
| `DummyKemBytes` | the byte layout of the dummy KEM: mask, comparison, secret | no state |
| `MlkemFo` | the three functions of the vendored `kem.c` over ideal primitives | no state |
| `KemSession` | one session inside the calls of `PqcKem`: the dummy byte by byte, the reference down to the `getrandom` loop | the session's buffers; `coins`, `off`, `drawn` the loop's array, its offset and the kernel's cells; `handed` a history of the coins used. One action per answer of the kernel (`Given`, `Interrupted`, `Refused`), per call, and per change of a ciphertext byte or key part |
| `PqcSig` | signature half, `pqc_sig.c` | the same, with the other default and the other refusal rule of its selector |
| `PqcCli` | the six file commands of `main.c` | per process: buffers `mem`, place `pc`, exit `code`; shared `file`s with content and length, and `path`, which file the user names for each role. One action per allocation, read, library call, open, write, close, wipe, and `Kill`; `Abort` is the exit from inside the library |
| `Benchmark` | `handle_benchmark`, `write_benchmark_output` | per process: phase and loop counter, clock readings, what keys the artifacts belong to; shared `csv` and `text` reports |
| `HintPacking` | `pack_sig` and `unpack_sig` on the hint bytes | no state |
| `MldsaRounding` | `rounding.c`, the norm check, ring arithmetic | no state |
| `MldsaSign` | key generation, signing and verification of `sign.c` | `keys`, `msg`, `nonce` the candidates drawn, `sig`, what verification was `given` and its `verdict`. One action per turn of the loop (`Try`), and `Verify` of the signature with other hint bytes, message or key |
| `Sponge` | bytes, XOR, domain suffixes; the padded message and its output stream by definition | no state |
| `Xof` | what the hash functions promise: collect a message, then hand out one stream (abstract) | `phase`, `kind`, `msg`, `out` per context |
| `Fips202` | `fips202.c`: both interfaces and the one-shot functions | per context `phase` in its protocol, `past` and `cur` (what was XORed before and since the last permutation), `left` the 26th word, histories `msg` and `out`; `call` what a call has still to do. One action per call and per turn of its loop |
| `InsecureRng_proofs`, `PqcKem_proofs`, `PqcSig_proofs`, `Fips202_proofs`, `KemSession_proofs`, `MldsaSign_proofs`, `PqcCli_proofs`, `Benchmark_proofs` | - | theorems and their proofs; those of `DummyKemBytes` are in `KemSession_proofs`, those of `HintPacking` and `MldsaRounding` in `MldsaSign_proofs` |
| `MC*` | - | model values, symmetry and definitions for TLC |

`PqcKem` and `PqcSig` extend their scheme; `PqcCli` instantiates both schemes
(`K!`, `S!`), so the library and the program speak of the same keys and
ciphertexts. `KemSession` extends `DummyKemBytes` and `MlkemFo`, `MldsaSign`
extends `MldsaRounding` and that `HintPacking`. `Fips202` instantiates `Xof` with a refinement mapping (`Promise`):
`kind`, `msg` and `out` map to themselves, the phases "once" and "blocks" of the
block interface to "absorb" and "squeeze"; `past`, `cur`, `left` and `call` are
hidden.

### Abstractions

* *Contents are symbolic.* `Ciphertext(b, key, n)` is what backend `b` makes of a
  key and a random value; two values are equal only if made of the same parts.
  This idealises the cryptography: no collisions, no forgeries, no repeated
  random values. What bytes of one backend mean to the other is nothing
  (`Opaque`). The bytes of the dummy KEM are modelled in `DummyKemBytes`.
* *A backend function is one step.* It touches no shared state but the random
  source, which `InsecureRng` models on its own with all its interleavings.
* *The fetch of a backend pointer is one step.* `pqc_get_sizes` and each
  operation fetch once and use what they fetched.
* *Primitives.* `MlkemReturns`, `KeypairReturns` and `SignReturns` let the
  vendored functions also return the failures the wrappers guard against, so the
  guards are exercised (the ML-DSA key generation vendored here always succeeds).
  In the CLI modules they succeed, as the vendored code always does.
* *The permutation* of Keccak is idealised: the state after it is named by all
  that was XORed in before, so equal outputs mean equal inputs. A byte keeps three
  of its bits: the two that tell the suffixes 0x1F and 0x06 apart and the top one
  that ends the padding; XOR and OR on them are exact. Hash calls are sequential
  (a context is local to its caller), contexts are used in the order the
  interface asks for, and a failed `malloc` ends the process (`exit(111)`), so
  neither appears.
* *The dummy's bytes.* The code combines bytes by XOR alone, which treats the
  eight bits of a byte alike and apart, so a byte is one bit (`DummyKemBytes`).
* *ML-KEM.* Hashes are free of collisions and the encryption is an ideal one; a
  changed ciphertext either still decrypts ("near", within the noise) or does
  not ("far"). Coins come in cells; cells numbered above 0 are the kernel's,
  each different, 0 is what the stack held. Only the Linux path of `randombytes`
  is modelled, with its `getrandom`.
* *ML-DSA.* Polynomials are small, but products, rounding and norms are computed
  and not idealised. `ExpandMask` and the challenge are free choices from `Masks` and
  `Balls`, the hash a random oracle that keeps what was hashed. A reduced
  coefficient is the one nearest to zero, where `reduce32` is lazy: in this code
  both have the same norm verdicts, as inputs stay small. The third rejection
  (`c t0` too long) cannot fire in ML-DSA-65, where `|c t0|` is at most 49 * 4096
  = 200704 and Gamma2 is 261888; the instance keeps that relation.
* *Messages.* A message is empty or not, and is read whole or not at all; no
  message has the name of a marker for missing or torn contents. A message file
  without content may be empty or absent: reading it gives the empty message or
  fails.
* *Files.* A layout says which file the user names for each role. An artifact is smaller than a stdio
  buffer (the largest, 4032 bytes, is below 4096), so `fwrite` only fills the
  buffer and the data reach the file at `fclose`; a failing write leaves the
  file as it was, or one byte short, which stands for any shorter prefix.
* *Options.* An argument vector is abstracted to what it selects.

## 3. Runs

| Run | Instance | Question | States |
| --- | --- | --- | --- |
| `rng` | 2 threads, both modules, 2 seconds, 2 bytes each | can an unseeded byte be drawn, can `srand` run again and again, when do bytes repeat? | 84 k |
| `kem_reselect` | a client and a thread that reselects, both under the callers' lock or neither; one buffer a byte short per session, one NULL per call, failing primitives, both builds | does any access leave its allocation; are pairs whole and verdicts exact; under the lock, does every session succeed and agree? | 1.0 M |
| `kem_tampered` | one client, a changed ciphertext | **violation**: a failed ML-KEM decapsulation is not reported | - |
| `sig_reselect` | a client, a reselecting thread, tampering, an oversized or a short buffer, one NULL per call | no overrun; does verify accept exactly the genuine; does a well-formed call fail for no reason? | 187 k |
| `cli_kem` | one user's keygen/encaps/decaps, any order, all backends, three layouts of files, one fault, kill or exit inside the library | wiping, whole pairs after exit 0, agreement, no early truncation | 1.2 M |
| `cli_sig` | one user's sig-keygen/sign/verify, a message and the empty one, two faults | does exit 0 of verify vouch for the files? | 498 k |
| `cli_shared` | two processes at once running keygen and encaps, one fault, fair | does every command end; is anything torn? | 310 k |
| `cli_saved` | one keygen, one fault | **violation**: exit 0 without a complete file | - |
| `kem_session` | a session on either backend; keys of 6 and ciphertexts of 5 bytes; 10 cells of entropy in answers of up to 3, one refusal, any interruptions; two changes | exact verdicts and secrets, fresh coins, calls return | 324 k |
| `mldsa_sign` | rings of 4 coefficients modulo 73, 2 rows, 2 keys, 625 masks, all 24 challenges, all hint encodings | does what the loop lets out verify, and nothing else; is every secret still possible? | 106 k |
| `sponge` | two hash contexts, blocks of two bytes, messages of up to 4 bytes in pieces of up to 3, outputs of up to 4 | do all interfaces and splits give one stream, and different messages different streams? | 651 k |
| `bench` | two processes, three benchmarks, one fault | exact averages, success, wiping, header | 552 k |

### Why the bounds are enough

* *Clients.* Clients share nothing but the selector (and the lock), so one
  client beside a thread that may reselect between any two of its steps sees
  every interleaving that matters.
* *Two random values* tell "the same key" from "another key"; a third adds no
  case, as every property compares at most two.
* *One buffer a byte short per session, one NULL per call* reaches every check;
  combinations only select among refusals, and the order of the checks (NULL
  first) is covered since a refusal changes nothing either way.
* *Faults.* One fault plus any number of later healthy commands covers recovery
  from every torn state in the KEM commands; the signature run takes two.
* *Files named twice.* The layouts are the usual one, both keys in one file, and
  the secret over the ciphertext: an output over an output and an output over an
  input. Other pairs of roles differ only in which command does it.
* *Two processes.* `cli_shared` needs a writer beside a writer and a writer
  beside a reader: keygen and encaps on the dummy backend.
* *`kem_session`:* the scaled layout has key bytes of every kind (compared only,
  in the secret only, in both, in neither) and a nonce byte masked twice. Two
  changes may cancel out or hit key and ciphertext. Ten cells are two key pairs
  and an encapsulation, or five encapsulations; an answer may be of any size up
  to the chunk of three, so that the key pair's four cells take at least two.
* *`mldsa_sign`:* the instance keeps the relations between the parameters
  (`MCMldsaSign.tla`); candidates are refused for each reason but the third,
  come with 0 to 3 hints where 2 fit, and hit the interval edges.
  `MaxNonce` = 1 is no restriction on candidates: each is drawn afresh.
* *`rng`:* two threads suffice for a race on a flag, two seconds for equal and
  different seeds.
* *`sponge`:* with blocks of two bytes a message of up to four ends anywhere in
  its first, second or third block: the suffix stands alone in a block of its
  own, shares its byte with the top bit, or follows message bytes, and a piece of three fills
  a block from either offset and overflows into the next. Outputs of four cover
  a rest held back, consumed in part, and consumed exactly. A second context is
  needed for cloning and for comparing streams. The proofs remove these bounds.
* *`bench`:* two iterations make a loop repeat; with three benchmarks one may
  be killed or lose its report while another runs and a third follows.

Deadlock is checked except in `rng` and `bench`, where the bounds on bytes and
on started benchmarks end every behaviour.

### What the properties say

* `DrawsAreSeeded`, `SeededOncePerThread`, `NoReplay` (`InsecureRng`): the
  lock-free lazy seeding is benign in the way that matters: no unseeded byte,
  at most one `srand` per thread and module, and a repeated byte only where
  `srand` was given one second twice.
* `NoOverrun`, `SigNoOverrun`: a length check of the backend that *runs*
  protects buffers sized for the backend that was *described*.
* `PairWhole`: no refusal or failure replaces half a key pair.
* `DummyVerdict`, `MlkemVerdict`, `VerifyExact`: the verdict is exact over every
  sequence of reselections, key changes and tampering, each backend in its own
  way (a cleared buffer and an error; the rejection key and `PQC_OK`; a refused
  oversized buffer).
* `LockedSessionsAgree`: what the header's "external synchronization" buys -
  success and agreement. `HonestUseSucceeds`: without it, a well-formed signature
  call fails only because the selector moved or a primitive failed.
* `DummyExact`: which wrong keys the dummy accepts, which of them give another
  secret, and that one changed ciphertext byte never passes.
* `MlkemExact`: the encapsulated secret exactly for the unchanged ciphertext
  under an intact key, the rejection key of the very ciphertext otherwise - also
  for a change that decryption absorbs, also with coins that never came.
* `FreshCoins`: no gap and no repetition in the coins, however the kernel answers.
* `VerifiesAsSigned`: a candidate that passes the four rejections verifies, for
  its message and key only. `HintsUnique`: the hint bytes have one form.
  `MaskHides`: the z let out is explained by every secret.
* `SecretsWiped`, `BenchmarkWiped`: no exit path frees an unwiped secret.
* `PairOnDisk`, `ScriptAgrees`, `VerifyVouches`: what exit codes 0 of successive
  commands tell one user about the files, whatever earlier runs left there.
* `NoEarlyTruncation` (action property): an output is emptied only by a process
  that has its replacement in memory.
* `RoomForSuffix`: the comment of `keccak_inc_finalize` relies on it for its
  unchecked store.
* `StreamsDistinct`: no two messages, in whatever pieces, and no hash and XOF of
  one message share a stream.
* `ImplementsXof` (refinement): every interface, split and clone hands out the
  next bytes of the one stream of the padded message.
* `NothingTorn`: two processes on the same files never let a library call see
  part of an artifact, and leave whole ones behind.
* `CallsReturn` (liveness): the `getrandom` loop ends. `CommandsEnd` (liveness):
  so does every command; as nothing in a handler waits or retries, this guards
  against a change of that rather than against a known hazard.
* `AveragesExact`, `SucceedsWhenConnected`, `HeaderFirst`, `HeadersBounded`.

Every property of a passing run has a mutant in `PROJECT.json`: a changed
definition, such as a dropped length check, for which TLC finds it violated.

### Fairness

`FairSpec` of `PqcCli` assumes weak fairness of `Step(p)`: a process that was
started and not killed is scheduled again. No fairness is assumed of the user
(`Start`), of faults or of `Kill`. There is no waiting in the program - no lock,
no retry - so this is all that is needed, and all an operating system gives.
`FairSpec` of `KemSession` assumes weak fairness of an answer of the kernel,
`Given` or `Refused` together: `getrandom` without flags blocks only until the
kernel's pool is ready, and signals do not interrupt it for ever. Nothing is
assumed of the caller or of how large an answer is. The other specifications are safety only.

### Divergences found

1. `docs/portfolio-summary.md:28` says that a failed decapsulation clears the
   shared-secret buffer and returns a failure. The dummy does. `ref_mlkem_decaps`
   returns `PQC_OK` with a pseudo-random secret for a tampered ciphertext, by the
   implicit rejection of ML-KEM (run `kem_tampered`).
2. `docs/security.md:40` says that no return value goes unchecked.
   `write_binary_file` does not check `fclose`, where the buffered data are
   written: `keygen` can exit 0 with an empty or truncated file (run
   `cli_saved`).

## 4. Proofs

TLAPS checks these for every value of the constants: any sets of threads,
clients, modules, messages and random values, any builds and results of the
primitives, and without the bounds of the TLC runs (a bound is a constant).

| Theorem | States | Argument |
| --- | --- | --- |
| `RngTyping` | `TypeOK` of `InsecureRng` | inductive as it stands |
| `SeededDraws` | `DrawsAreSeeded` | a set flag, and every place of a thread behind its own `srand`, mean that `srand` has run (`SeededBeforeUse`); nothing ever unseeds the generator, so a lost race only seeds again |
| `KemTyping`, `SigTyping` | `TypeOK` | split into control, extents and contents, since a backend function touches the three through different helpers; one lemma for each helper (`Return`, `Accepted`) and constructor |
| `KemNoOverrun`, `SigInsideBuffers` | `NoOverrun`, `SigNoOverrun` | not inductive: a running call could have been given lengths larger than its buffers. `LengthsHonest` says it was not; the check of the backend that runs then bounds its accesses, whichever backend the sizes came from |
| `KemPairWhole` | `PairWhole` | every step that writes one key buffer writes the other |
| `KemDummyVerdict`, `KemMlkemVerdict` | `DummyVerdict`, `MlkemVerdict` | not inductive: a ciphertext could fit while the secret beside it belongs to another. `Remembers` says that an intact ciphertext lies beside its own secret |
| `SigVerdicts` | `VerifyExact` | the code compares with the public key *given*, the property speaks of the secret key that *signed*. `KeysPaired` (an intact public key lies beside its secret key) and `SignedByOwn` (a signature was made under a key of its backend, or under bytes that are no key) close the gap (`MatchIsGenuine`) |
| `SeedsBounded` | `SeededOncePerThread` | counting needs a witness: for each module, distinct threads to blame for its calls of `srand`, none of which can reach the call again (`SeedersInv`) |
| `PositionsOnce` | `NoReplay` | not inductive: nothing bounds the positions of a stream by the place of the generator. `StreamInv` does, and says that a seed in use was given; `Distinct` is then kept by each draw |
| `KemLockedSessionsAgree` | `LockedSessionsAgree` | `SessionInv`: who holds the lock has sized every buffer for the backend selected, which nobody else can change; with `VerdictInv` of the theorems above a clean call then ends as it should |
| `SigHonestUse` | `HonestUseSucceeds` | the verdict of the last call must survive later ones (`EndedWell`): each step either leaves what it speaks of or replaces the result with it; one lemma per backend function |
| `HintRecovers` | of `MldsaRounding` | by the interval the low bits are moved into: the same, the next or the one before, with the fold of the last interval onto the first. `DecomposeFacts` says that the two parts of `decompose` make up the number modulo Q |
| `PackedUnpacks`, `UnpackedPacks` | of `HintPacking` | the byte of a position is its rank in row-major order. `Ranks` shows that ranks number a set of positions from 0 in their order, `Counts` that a row's bytes are those whose ranks lie between two counts; the other way round, well-formed bytes list positions in their order (`BytesInOrder`), so a byte's place is the rank of what it holds (`CountFirst`) |
| `SignaturesVerify` | `VerifiesAsSigned` | by the laws of the ring `A z - c t1 2^D` is `w - c s2 + c t0` modulo Q (`Recomputed`); the second and third rejection keep what the hints make good within an interval width (`Passed`), so verification gets the high bits of `w` (`HighBitsBack`, from `HintRecovers`), and the fourth makes the hints fit (`PackedUnpacks`). The converse is the random oracle's: another key or message is another `mu`. The product is shown commutative without exchanging sums: multiplication by `c` is linear and commutes with multiplication by X, hence with every other product (`LinearTimes`) |
| `OneHintEncoding` | `HintsUnique` | the two hints for a coefficient give different high bits (`HintsDiffer`), so accepted bytes unpack to the hints of the signer, and `UnpackedPacks` makes the bytes those of the signer |
| `MaskExplains` | `MaskHides` | a product with a challenge is within Eta for each of its coefficients that is not 0 (`TimesSmall`, by induction on the terms), so within Beta, which the first rejection leaves room for |
| `KeyCheck`, `SecretCheck`, `OneByteNoticed` | of `DummyKemBytes`, for any sizes | every nonce byte is masked at least once (`2 * SsLen <= CtLen`), so a changed nonce byte fails a comparison; the rest is the algebra of XOR |
| `SessionTyping`, `CoinsAreFresh` | `TypeOK`, `FreshCoins` of `KemSession` | not inductive: nothing says which cells of the array are filled. `InOrder` does: the coins handed on and the filled front of the array together are the kernel's cells 1, 2, 3 ... in order |
| `DummyIsExact` | `DummyExact` | `DummyInv` says that `made` is the ciphertext of some nonce and `ss` its secret, and that the verdict is that of the comparison; the three theorems above do the rest |
| `MlkemIsExact` | `MlkemExact` | `MlkemInv` says that the ciphertext is the encapsulated one but for its change; `Reencryption` that encrypting again tells every other ciphertext and key from the right ones, by cases on what was exchanged |
| `CliTyping` | `TypeOK` of `PqcCli` | not inductive: an index must also lie within its command's list of files at each place (`ControlOK`), with one lemma for a step that moves one process (`Moves`) |
| `NoSecretLeft` | `SecretsWiped` | `BuffersOK` says that a process holds a secret only in roles its command reads or writes, and `SecretsAreWiped` that the handler's end wipes all of those |
| `OutputsKept` | `NoEarlyTruncation` | `HeldInv`: from the call on, a process holds all its inputs, and from the opening of an output on, that output; `ControlOK` places every change of a file in `open`, `write` or `close` |
| `FilesNotTorn` | `NothingTorn` | the property is about runs with a file for each role, no faults and the dummy backends (`Quiet`). There every file is empty or one whole artifact of its role (`FilesWhole`), and whatever a process holds to be written has the length its role has (`WritersReady`), whatever other processes do in between |
| `PairsSaved` | `PairOnDisk` | for one process and layouts in which only a key pair, or a ciphertext and its secret, share a file. `SoloInv` relates the process to the ledger of latest outcomes, its buffers to the files it read and the files to the outputs it has written. `PairInv` follows a pair from its making to the file closed last, through failed closes, kills and repetitions |
| `ScriptsAgree` | `ScriptAgrees` | the same hypotheses. `ScriptInv` has a clause for each stage: what encaps made, what it saved, what decaps makes of it, what it saved, each with the files it depends on unchanged since |
| `VerifiersVouch` | `VerifyVouches` | for one process and a file for each role. `SigInv` says that the files are still what the last good `sign` and `verify` read and wrote; that the backends agreed follows from the artifacts having matched |
| `BenchmarkTyping` | `TypeOK` of `Benchmark` | inductive, by parts |
| `BenchmarkAverages`, `BenchmarkSucceeds` | `AveragesExact`, `SucceedsWhenConnected` | not inductive: inside a loop the clock must have advanced by the cost of the turns so far (`Measured`), and the artifacts of the loops before must be of one key (`Consistent`), for a process that a fault has not hit |
| `BenchmarkSecrets` | `BenchmarkWiped` | by steps: a process only exits through the wipe |
| `BenchmarkHeaderFirst` | `HeaderFirst` | while the CSV file is empty every writer still owes a header (`FirstInv`), as a probe finds a header owed exactly in an empty file |
| `BenchmarkHeadersBounded` | `HeadersBounded`, for a finite set of processes | an empty file may be probed by each process before the first appends. `HeadersInv`: the headers written and those owed are together at most the processes and the faults |
| `SpongeTyping`, `SuffixFits` | `TypeOK`, `RoomForSuffix` | not inductive: a running call must be one its context is in the right phase for (`CallFits`), and the 26th word must be below the rate before, at most the rate after finalization |
| `SpongeImplementsXof` | `ImplementsXof` | the invariant says what a state holds: before finalization the absorbed bytes, block by block (`AbsorbedAll`); after it the padded message and one zero block for each block squeezed, of which all but `left` bytes were handed out (`HandedOut`). Finalization by XOR and the last block by OR both make the padded message (`FinishIncremental`, `FinishOnce`); then each step maps to one of `Xof` or to a stutter |
| `StreamsApart` | `StreamsDistinct` | the suffix marks the end of the message in the last block and its low bit the function, so the padded message determines both (`PaddingInjective`) |

The assumptions are the named `ASSUME`s of the modules: clients are threads,
bounds are naturals, the flags of the model are Booleans; of ML-DSA, that Q is
one more than a multiple of twice Gamma2 with at least two intervals, that keys
and masks have coefficients in the ranges their samplers draw from, and that a
challenge has coefficients -1, 0 and 1, at most Beta / Eta of them not 0 (in
`params.h` TAU is 49, ETA 4 and BETA 196). `SignInv`, the invariant of
`MldsaSign`, says of a signature made that it verifies, that no other hint bytes
do, and that its z fits every secret: facts about the signature and the public
key alone, which later steps leave alone. Contents being symbolic (section 2, Abstractions) is an assumption of the models, not of the
proofs. Each proof has one step per action; a last step combines the initial
condition, the step and the implication by temporal logic.

## 5. What is only model-checked, and what is not modelled

* Liveness (`CommandsEnd`, `CallsReturn`) is checked by TLC only: liveness and
  `ENABLED` are beyond the prover. So are the library's induction theorems, which
  take a predicate as a parameter; the inductions on sums and ranks in
  `MldsaSign_proofs` go over sets of numbers instead, from the least element of
  a set that is not empty.
* `PairOnDisk`, `ScriptAgrees` and `VerifyVouches` are proved for one process;
  they speak of one user's commands, one after the other, and are false of
  several at once, where `NothingTorn` is what remains.
* Not modelled: `info`, `help` and all wording; number-theoretic transforms,
  Montgomery reduction, samplers and compression of the vendored primitives; the
  Keccak permutation; `randombytes` on other platforms; the parser script, CI
  and build targets. The transforms and reductions are pure arithmetic over
  ranges of 2^16 to 2^32 values, better tested exhaustively than modelled; the
  samplers loop until enough candidates are accepted, which only an assumption on
  the hash ends.
* Known hazards without a property carry a note in `PROJECT.json`: parsing of
  arguments and of `--iterations`, and the parser script's other idea of `.csv`.

## 6. Plan

Sections 2 to 4 describe what stands: every safety property of the runs is
proved, and so is the refinement. Of the plan, these are left, in order:

1. *The derivation of the dummy signature*, byte by byte.
2. *Build matrix*: which sources the options connect.
