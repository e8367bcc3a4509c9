-------------------------------- MODULE PqcCli --------------------------------
(***************************************************************************)
(* The command line program, src/main.c: processes that run one command    *)
(* each on files they share.  A command checks its arguments, allocates,   *)
(* reads its input files, calls the library once, writes its output files  *)
(* one after the other, wipes and frees its secrets, and exits.            *)
(*                                                                         *)
(* Input and output may fail at any call, and a process may be killed at   *)
(* any step.  Opening an output truncates it; all artifacts are smaller    *)
(* than a stdio buffer, so their bytes reach the file when it is closed -  *)
(* and the result of that fclose is not looked at.  The user names every   *)
(* file, and may name one twice.                                           *)
(***************************************************************************)
EXTENDS Naturals, Sequences, FiniteSets

CONSTANTS
    Procs,       \* processes that may run at the same time
    Entropy,     \* random values (see KemScheme, SigScheme)
    Messages,    \* contents of the message file
    Commands,    \* the commands the user gives
    MlkemRef,    \* is the build's ML-KEM reference backend connected?
    MldsaRef,    \* is the build's ML-DSA reference backend connected?
    Layouts,     \* which file the user names for each role
    MaxFaults    \* BOUND: failing allocations and I/O calls, and kills

K == INSTANCE KemScheme
S == INSTANCE SigScheme

KemCommands == {"keygen", "encaps", "decaps"}
SigCommands == {"sig-keygen", "sign", "verify"}

Roles   == {"pub", "sec", "ct", "ss", "dss", "sigpub", "sigsec", "sig", "msg"}
Secrets == {"sec", "ss", "dss", "sigsec"}

-----------------------------------------------------------------------------
(* What each handler reads and writes, in its order.  A role is a buffer   *)
(* of the handler, "dss" being the --ss of decaps.  A layout names files   *)
(* after the role they usually have.                                       *)

Reads(c) == CASE c = "encaps" -> <<"pub">>
              [] c = "decaps" -> <<"sec", "ct">>
              [] c = "sign"   -> <<"sigsec", "msg">>
              [] c = "verify" -> <<"sigpub", "sig", "msg">>
              [] OTHER        -> <<>>

Writes(c) == CASE c = "keygen"     -> <<"pub", "sec">>
               [] c = "encaps"     -> <<"ct", "ss">>
               [] c = "decaps"     -> <<"dss">>
               [] c = "sig-keygen" -> <<"sigpub", "sigsec">>
               [] c = "sign"       -> <<"sig">>
               [] OTHER            -> <<>>

(* The buffers a handler passes to secure_memzero before it frees them. *)
Wiped(c) == CASE c = "keygen"     -> {"sec"}
              [] c = "encaps"     -> {"ss"}
              [] c = "decaps"     -> {"sec", "dss"}
              [] c = "sig-keygen" -> {"sigsec"}
              [] c = "sign"       -> {"sigsec", "sig"}
              [] OTHER            -> {}

(* The length of a role's artifact on a backend; a message has any. *)
Length(role, b) ==
    CASE role = "pub"    -> K!Size(b, "pk")
      [] role = "sec"    -> K!Size(b, "sk")
      [] role = "ct"     -> K!Size(b, "ct")
      [] role \in {"ss", "dss"} -> K!Size(b, "ss")
      [] role = "sigpub" -> S!Size(b, "pk")
      [] role = "sigsec" -> S!Size(b, "sk")
      [] role = "sig"    -> S!Size(b, "sig")
      [] role = "msg"    -> 0

Blank    == <<"blank">>     \* memory or a file without content
Zeroed   == <<"zeroed">>
Garbled  == <<"garbled">>   \* parts of two writes, or of another artifact
Null     == <<"null">>      \* no buffer at all
EmptyMessage == <<"empty">>
Usage    == "USAGE"         \* the argument error in place of a backend

ASSUME CliAssumption ==
    /\ Layouts \subseteq [Roles -> Roles]
    /\ Commands \subseteq KemCommands \cup SigCommands
    /\ Messages \cap {Blank, Garbled, Null} = {}
    /\ MlkemRef \in BOOLEAN
    /\ MldsaRef \in BOOLEAN
    /\ MaxFaults \in Nat

-----------------------------------------------------------------------------
VARIABLES
    pc,       \* where each process is
    cmd,      \* its command
    be,       \* the backend its selectors chose
    mem,      \* its buffers
    at,       \* index into the command's reads or writes
    code,     \* its exit code
    lost,     \* did an fclose of it fail to write the data out?
    path,     \* the file the user names for each role
    file,     \* the files: content and length
    faults,   \* how many faults have struck
    last      \* history: the latest run of each command

vars == <<pc, cmd, be, mem, at, code, lost, path, file, faults, last>>

NoFile   == [val |-> Blank, len |-> 0]
NoMemory == [r \in Roles |-> Blank]
NeverRan == [state |-> "none", be |-> Usage, lost |-> FALSE, hit |-> FALSE]

Init ==
    /\ pc = [p \in Procs |-> "idle"]
    /\ cmd \in [Procs -> Commands]
    /\ be = [p \in Procs |-> Usage]
    /\ mem = [p \in Procs |-> NoMemory]
    /\ at = [p \in Procs |-> 1]
    /\ code = [p \in Procs |-> 0]
    /\ lost = [p \in Procs |-> FALSE]
    /\ path \in Layouts
    /\ \E m \in Messages : file = [f \in Roles |->
          IF f = path["msg"] THEN [val |-> m, len |-> 0] ELSE NoFile]
    /\ faults = 0
    /\ last = [c \in Commands |-> NeverRan]

Goto(p, where) == pc' = [pc EXCEPT ![p] = where]

(* A fault strikes: an allocation, an open, a read or a write fails. *)
Fault(p) == /\ faults < MaxFaults
            /\ faults' = faults + 1
            /\ last' = [last EXCEPT ![cmd[p]].hit = TRUE]

NoFault == UNCHANGED <<faults, last>>

(* main() sets both selectors from --alg and --sig-alg before it looks at  *)
(* the command.  An unknown name ends the program; so does --sig-alg       *)
(* mldsa-ref where it is not built in, but not --alg mlkem-ref.            *)
Chosen(c, kemArg, sigArg) ==
    IF kemArg = "unknown" \/ sigArg = "unknown" \/ (sigArg = "ref" /\ ~MldsaRef)
    THEN Usage
    ELSE IF c \in KemCommands
         THEN IF kemArg = "ref" THEN IF MlkemRef THEN "MLKEM" ELSE "PLACEHOLDER"
                                ELSE "DUMMY"
         ELSE IF sigArg # "dummy" /\ MldsaRef THEN "MLDSA" ELSE "DUMMY"

(* The commands that consume what c writes: their last outcome speaks of   *)
(* older files once c runs again.                                          *)
Downstream(c) == CASE c = "keygen"     -> {"encaps", "decaps"}
                   [] c = "encaps"     -> {"decaps"}
                   [] c = "sig-keygen" -> {"sign", "verify"}
                   [] c = "sign"       -> {"verify"}
                   [] OTHER            -> {}

(* Everything argument handling can come to: a backend, or a usage error - *)
(* the handler's own, where one of its options is missing, included.       *)
Selections(c) ==
    LET names == {"none", "dummy", "ref", "unknown"} IN
    {Usage} \cup {Chosen(c, k, s) : k \in names, s \in names}

(* Mutant of Start: the result of setting the algorithms is ignored. *)
StartAnyway(p, c, b) ==
    /\ pc[p] \in {"idle", "exited", "killed"}
    /\ cmd' = [cmd EXCEPT ![p] = c]
    /\ be' = [be EXCEPT ![p] = b]
    /\ Goto(p, "alloc")
    /\ UNCHANGED <<mem, at, code, lost, path, file, faults, last>>

(* A process starts.  A usage error ends it before anything is allocated.  *)
Start(p, c, b) ==
    /\ pc[p] \in {"idle", "exited", "killed"}
    /\ cmd' = [cmd EXCEPT ![p] = c]
    /\ be' = [be EXCEPT ![p] = b]
    /\ mem' = [mem EXCEPT ![p] = NoMemory]
    /\ at' = [at EXCEPT ![p] = 1]
    /\ lost' = [lost EXCEPT ![p] = FALSE]
    /\ IF b = Usage
       THEN /\ Goto(p, "exited")
            /\ code' = [code EXCEPT ![p] = 1]
            /\ UNCHANGED last
       ELSE /\ Goto(p, "alloc")
            /\ code' = [code EXCEPT ![p] = 0]
            /\ last' = [d \in Commands |->
                  IF d = c THEN [state |-> "running", be |-> b, lost |-> FALSE, hit |-> FALSE]
                  ELSE IF d \in Downstream(c) THEN NeverRan ELSE last[d]]
    /\ UNCHANGED <<path, file, faults>>

(* Mutant of Fail: the handler forgets to clear ok. *)
FailSilently(p) == Goto(p, "done") /\ UNCHANGED code

(* ok = 0; goto done *)
Fail(p) == /\ code' = [code EXCEPT ![p] = 1]
           /\ Goto(p, "done")

(* malloc of all buffers, at the sizes the chosen backend reports *)
Alloc(p) ==
    /\ pc[p] = "alloc"
    /\ \/ /\ Goto(p, IF Reads(cmd[p]) = <<>> THEN "call" ELSE "read")
          /\ NoFault
          /\ UNCHANGED code
       \/ Fail(p) /\ Fault(p)
    /\ UNCHANGED <<cmd, be, mem, at, lost, path, file>>

(* read_binary_file wants the backend's length and ignores what follows;   *)
(* a shorter file leaves its bytes in the handler's buffer when it fails.  *)
(* read_binary_file_dynamic takes a message as long as it is, or nothing.  *)
Content(role) == file[path[role]]

(* Mutant of Readable: the count fread returns is not looked at. *)
ReadableShort(p, role) == TRUE

Readable(p, role) == Content(role).len >= Length(role, be[p])

(* What the reader of a role makes of a file: another artifact is garbage, *)
(* except that the dummies' secret keys begin with the public key.         *)
Kind(role) == CASE role \in {"pub", "sigpub"} -> "pk"
                [] role \in {"sec", "sigsec"} -> "sk"
                [] OTHER                      -> role

Meaning(p, role) ==
    LET v == Content(role).val IN
    IF role = "msg" THEN IF v = Blank THEN EmptyMessage ELSE v
    ELSE IF v[1] = Kind(role) THEN v
    ELSE IF Kind(role) = "pk" /\ v[1] = "sk" /\ v[2] = "DUMMY" /\ be[p] = "DUMMY"
         THEN K!PublicKey(v[2], v[3])
         ELSE Garbled

NextInput(p) ==
    IF at[p] = Len(Reads(cmd[p]))
    THEN Goto(p, "call") /\ at' = [at EXCEPT ![p] = 1]
    ELSE at' = [at EXCEPT ![p] = @ + 1] /\ UNCHANGED pc

(* Mutant of ReadInput: a file that cannot be read is tried again. *)
ReadInputRetrying(p) ==
    LET role == Reads(cmd[p])[at[p]] IN
    /\ pc[p] = "read"
    /\ IF Readable(p, role)
       THEN mem' = [mem EXCEPT ![p][role] = Meaning(p, role)] /\ NextInput(p)
       ELSE UNCHANGED <<pc, mem, at>>
    /\ UNCHANGED <<cmd, be, code, lost, path, file, faults, last>>

(* malloc(0), for an empty message, may return NULL, and that is no error; *)
(* a message file without content may be empty or may not exist.           *)
ReadInput(p) ==
    LET role == Reads(cmd[p])[at[p]]
        read == Meaning(p, role) IN
    /\ pc[p] = "read"
    /\ \/ /\ Readable(p, role)
          /\ \E v \in {read} \cup (IF read = EmptyMessage THEN {Null} ELSE {}) :
                mem' = [mem EXCEPT ![p][role] = v]
          /\ NextInput(p)
          /\ NoFault
          /\ UNCHANGED code
       \/ /\ Fail(p)
          /\ IF Readable(p, role) /\ Content(role) # NoFile THEN Fault(p) ELSE NoFault
          /\ \/ UNCHANGED mem
             \/ role # "msg" /\ mem' = [mem EXCEPT ![p][role] = Garbled]
          /\ UNCHANGED at
    /\ UNCHANGED <<cmd, be, lost, path, file>>

-----------------------------------------------------------------------------
(* The library call, see PqcKem and PqcSig.  One thread, one selection and *)
(* buffers of the reported sizes: only these refusals are left.            *)

Opened(p) == K!Opens(be[p], K!EmbeddedKey(be[p], mem[p]["sec"]), mem[p]["ct"])

Verifies(p) == mem[p]["sig"] = S!Signature(be[p], mem[p]["sigpub"], mem[p]["msg"])

Refused(p) ==
    \/ be[p] = "PLACEHOLDER"
    \/ mem[p]["msg"] = Null
    \/ cmd[p] = "decaps" /\ be[p] = "DUMMY" /\ ~Opened(p)
    \/ cmd[p] = "verify" /\ ~Verifies(p)

(* The possible buffers after a call that succeeds. *)
Results(p) ==
    LET m == mem[p] b == be[p] IN
    CASE cmd[p] = "keygen" ->
           {[m EXCEPT !["pub"] = K!PublicKey(b, r), !["sec"] = K!SecretKey(b, r)] : r \in Entropy}
      [] cmd[p] = "encaps" ->
           {[m EXCEPT !["ct"] = K!Ciphertext(b, m["pub"], n),
                      !["ss"] = K!Secret(b, m["pub"], n)] : n \in Entropy}
      [] cmd[p] = "decaps" ->
           {[m EXCEPT !["dss"] = IF Opened(p) THEN K!SecretIn(m["ct"]) ELSE K!RejectKey]}
      [] cmd[p] = "sig-keygen" ->
           {[m EXCEPT !["sigpub"] = S!PublicKey(b, r), !["sigsec"] = S!SecretKey(b, r)] : r \in Entropy}
      [] cmd[p] = "sign" ->
           {[m EXCEPT !["sig"] = S!Signature(b, S!EmbeddedKey(b, m["sigsec"]), m["msg"])]}
      [] cmd[p] = "verify" -> {m}

(* Mutant of Call: the handler goes on whatever the library returned. *)
CallUnchecked(p) ==
    /\ pc[p] = "call"
    /\ IF Refused(p) THEN UNCHANGED mem
                     ELSE mem' \in {[mem EXCEPT ![p] = m] : m \in Results(p)}
    /\ Goto(p, IF Writes(cmd[p]) = <<>> THEN "done" ELSE "open")
    /\ UNCHANGED <<cmd, be, at, code, lost, path, file, faults, last>>

Call(p) ==
    /\ pc[p] = "call"
    /\ IF Refused(p)
       THEN Fail(p) /\ UNCHANGED mem
       ELSE /\ mem' \in {[mem EXCEPT ![p] = m] : m \in Results(p)}
            /\ Goto(p, IF Writes(cmd[p]) = <<>> THEN "done" ELSE "open")
            /\ UNCHANGED code
    /\ UNCHANGED <<cmd, be, at, lost, path, file, faults, last>>

(* The reference backends hash with contexts they allocate; where one      *)
(* cannot be had, the library ends the whole process with status 111.      *)
Abort(p) ==
    /\ pc[p] = "call"
    /\ be[p] \in {"MLKEM", "MLDSA"}
    /\ faults < MaxFaults
    /\ faults' = faults + 1
    /\ Goto(p, "killed")
    /\ code' = [code EXCEPT ![p] = 111]
    /\ last' = [last EXCEPT ![cmd[p]].state = "failed", ![cmd[p]].hit = TRUE]
    /\ UNCHANGED <<cmd, be, mem, at, lost, path, file>>

-----------------------------------------------------------------------------
(* write_binary_file: fopen truncates, fwrite fills the stdio buffer,      *)
(* fclose writes it out.                                                   *)

Output(p) == Writes(cmd[p])[at[p]]
Target(p) == path[Output(p)]

Open(p) ==
    /\ pc[p] = "open"
    /\ \/ /\ file' = [file EXCEPT ![Target(p)] = NoFile]
          /\ Goto(p, "write")
          /\ NoFault
          /\ UNCHANGED code
       \/ Fail(p) /\ Fault(p) /\ UNCHANGED file
    /\ UNCHANGED <<cmd, be, mem, at, lost, path>>

(* All the bytes of an artifact reach the file, over whatever another      *)
(* process put there since it was opened.                                  *)
WriteOut(p) ==
    LET role == Output(p) n == Length(role, be[p]) IN
    file' = [file EXCEPT ![Target(p)] =
               [val |-> mem[p][role], len |-> IF @.len > n THEN @.len ELSE n]]

(* None of them, or all but the last. *)
WriteOutPartly(p) ==
    LET role == Output(p) n == Length(role, be[p]) IN
    \/ UNCHANGED file
    \/ file' = [file EXCEPT ![Target(p)] =
                  [val |-> IF @.len >= n THEN Garbled ELSE mem[p][role],
                   len |-> IF @.len >= n THEN @.len ELSE n - 1]]

(* fwrite; a short count closes the file and reports the failure *)
Write(p) ==
    /\ pc[p] = "write"
    /\ \/ Goto(p, "close") /\ NoFault /\ UNCHANGED <<code, file>>
       \/ WriteOutPartly(p) /\ Fail(p) /\ Fault(p)
    /\ UNCHANGED <<cmd, be, mem, at, lost, path>>

(* fclose; its result is not looked at *)
Close(p) ==
    /\ pc[p] = "close"
    /\ \/ WriteOut(p) /\ NoFault /\ UNCHANGED lost
       \/ WriteOutPartly(p) /\ Fault(p) /\ lost' = [lost EXCEPT ![p] = TRUE]
    /\ IF at[p] = Len(Writes(cmd[p]))
       THEN Goto(p, "done") /\ UNCHANGED at
       ELSE Goto(p, "open") /\ at' = [at EXCEPT ![p] = @ + 1]
    /\ UNCHANGED <<cmd, be, mem, code, path>>

(* Mutant of Finish: a handler that failed returns at once. *)
FinishUnwiped(p) ==
    /\ pc[p] = "done"
    /\ mem' = [mem EXCEPT ![p] = [r \in Roles |->
                  IF r \in Wiped(cmd[p]) /\ code[p] = 0 THEN Zeroed ELSE @[r]]]
    /\ Goto(p, "exited")
    /\ last' = [last EXCEPT ![cmd[p]] = [state |-> IF code[p] = 0 THEN "ok" ELSE "failed",
                                         be |-> be[p], lost |-> lost[p], hit |-> @.hit]]
    /\ UNCHANGED <<cmd, be, at, code, lost, path, file, faults>>

(* secure_memzero of some buffers of a handler *)
Wipe(m, buffers) == [r \in Roles |-> IF r \in buffers THEN Zeroed ELSE m[r]]

(* done: wipe the secrets, free everything, return. *)
Finish(p) ==
    /\ pc[p] = "done"
    /\ mem' = [mem EXCEPT ![p] = Wipe(@, Wiped(cmd[p]))]
    /\ Goto(p, "exited")
    /\ last' = [last EXCEPT ![cmd[p]] = [state |-> IF code[p] = 0 THEN "ok" ELSE "failed",
                                         be |-> be[p], lost |-> lost[p], hit |-> @.hit]]
    /\ UNCHANGED <<cmd, be, at, code, lost, path, file, faults>>

(* The process is killed; what stdio still buffers is gone. *)
Kill(p) ==
    /\ pc[p] \notin {"idle", "exited", "killed"}
    /\ faults < MaxFaults
    /\ faults' = faults + 1
    /\ Goto(p, "killed")
    /\ code' = [code EXCEPT ![p] = 1]
    /\ last' = [last EXCEPT ![cmd[p]].state = "failed", ![cmd[p]].hit = TRUE]
    /\ UNCHANGED <<cmd, be, mem, at, lost, path, file>>

(* The user puts another message into the message file, between commands. *)
ChangeMessage(m) ==
    /\ \A p \in Procs : pc[p] \in {"idle", "exited", "killed"}
    /\ m # file[path["msg"]].val
    /\ file' = [file EXCEPT ![path["msg"]] = [val |-> m, len |-> 0]]
    /\ last' = [c \in Commands |-> IF c = "verify" \/ (c = "sign" /\ last[c].state # "ok")
                                   THEN NeverRan ELSE last[c]]
    /\ UNCHANGED <<pc, cmd, be, mem, at, code, lost, path, faults>>

Step(p) ==
    \/ Alloc(p) \/ ReadInput(p) \/ Call(p)
    \/ Open(p) \/ Write(p) \/ Close(p) \/ Finish(p)

Next ==
    \/ \E p \in Procs :
          \/ \E c \in Commands : \E b \in Selections(c) : Start(p, c, b)
          \/ Step(p)
          \/ Abort(p)
          \/ Kill(p)
    \/ \E m \in Messages : ChangeMessage(m)

Spec == Init /\ [][Next]_vars

(* The operating system lets a started process run. *)
FairSpec == Spec /\ \A p \in Procs : WF_vars(Step(p))

-----------------------------------------------------------------------------
(* Properties. *)

(* The control state has its type; contents are checked by the others. *)
TypeOK ==
    /\ pc \in [Procs -> {"idle", "alloc", "read", "call", "open", "write", "close",
                         "done", "exited", "killed"}]
    /\ cmd \in [Procs -> Commands]
    /\ be \in [Procs -> K!Backends \cup S!Backends \cup {Usage}]
    /\ at \in [Procs -> 1..3]
    /\ code \in [Procs -> {0, 1, 111}]
    /\ lost \in [Procs -> BOOLEAN]
    /\ faults \in 0..MaxFaults
    /\ \A r \in Roles : file[r].len \in Nat
    /\ \A p \in Procs : pc[p] \notin {"idle", "exited", "killed"} => be[p] # Usage

(* No command returns, on any of its paths, with a secret left in memory   *)
(* it frees ("clear sensitive buffers before freeing them").               *)
SecretsWiped ==
    \A p \in Procs : pc[p] = "exited" =>
        \A r \in Secrets : mem[p][r] \in {Blank, Zeroed}

Whole(role, val, b) == Content(role) = [val |-> val, len |-> Length(role, b)]

Done(c) == last[c].state \in {"ok", "failed"}
Good(c) == last[c].state = "ok" /\ ~last[c].lost

(* Every role has a file of its own. *)
Apart == \A r, q \in Roles : path[r] = path[q] => r = q

(* When one user runs keygen and it exits 0, both files are complete and   *)
(* belong together - whatever earlier runs, killed or failed halfway, had  *)
(* left in them.  Where one file was named for both keys, it is the secret *)
(* key that is there, complete.                                            *)
PairOnDisk ==
    /\ "keygen" \in Commands /\ Good("keygen") =>
          LET b == last["keygen"].be IN
          \E r \in Entropy : /\ path["pub"] # path["sec"] => Whole("pub", K!PublicKey(b, r), b)
                             /\ Whole("sec", K!SecretKey(b, r), b)
    /\ "sig-keygen" \in Commands /\ Good("sig-keygen") =>
          LET b == last["sig-keygen"].be IN
          \E r \in Entropy : /\ path["sigpub"] # path["sigsec"] => Whole("sigpub", S!PublicKey(b, r), b)
                             /\ Whole("sigsec", S!SecretKey(b, r), b)

(* keygen, encaps, decaps by one user, on files that earlier runs may have *)
(* left torn or of the other algorithm, and may be named twice.  Where     *)
(* encaps and decaps exit 0: the dummy's two secret files agree; ML-KEM's  *)
(* agree, or decaps wrote the rejection key, which it does not after a     *)
(* good keygen and encaps.  With a file for each role, nothing fails       *)
(* without a fault after a good run of all the steps before.               *)
ScriptAgrees ==
    LET k == last["keygen"] e == last["encaps"] d == last["decaps"]
        good == Good("keygen") /\ k.be = e.be /\ e.be = d.be
        same == Content("dss") = Content("ss") IN
    Good("encaps") =>
      /\ Good("decaps") /\ d.be = "DUMMY" => same
      /\ Good("decaps") /\ d.be = "MLKEM" =>
            \/ same
            \/ Whole("dss", K!RejectKey, d.be) /\ ~(good /\ path["pub"] # path["sec"])
      /\ good /\ Apart /\ Done("decaps") /\ ~d.hit => d.state = "ok"

(* sig-keygen, sign, verify by one user, the message perhaps empty.  A     *)
(* verification that exits 0 vouches for the files as they are; and sign   *)
(* and verify do exit 0 after good runs of the steps before on the same    *)
(* backend, unless a fault strikes, the message is another or is empty.    *)
VerifyVouches ==
    LET k == last["sig-keygen"] s == last["sign"] v == last["verify"]
        sig == Content("sig").val
        msg == Content("msg").val IN
    /\ v.state = "ok" =>
          /\ sig = S!Signature(v.be, Content("sigpub").val, msg)
          /\ Good("sig-keygen") /\ Good("sign") => k.be = s.be /\ s.be = v.be
    /\ Good("sig-keygen") /\ Done("sign") /\ ~s.hit /\ k.be = s.be =>
          s.state = "ok" \/ msg = EmptyMessage
    /\ Good("sig-keygen") /\ Good("sign") /\ Done("verify") /\ ~v.hit
         /\ k.be = s.be /\ s.be = v.be /\ sig[4] = msg =>
            v.state = "ok" \/ msg = EmptyMessage

(* A file is only opened for writing, and so emptied, by a process that    *)
(* has read all its inputs and computed what will replace it: a command    *)
(* whose inputs or library call fail leaves its outputs as they were, and  *)
(* an output may be named like an input.  The user edits the message file. *)
NoEarlyTruncation ==
    [][\A f \in Roles \ {path["msg"]} : file'[f] # file[f] =>
          \E p \in Procs : /\ pc[p] \in {"open", "write", "close"}
                           /\ Target(p) = f
                           /\ mem[p][Output(p)] # Blank
                           /\ \A i \in 1..Len(Reads(cmd[p])) :
                                 mem[p][Reads(cmd[p])[i]] # Blank]_vars

(* The bytes of a role's file are those of one artifact, all of them. *)
IsWhole(role) ==
    /\ Content(role).val \notin {Blank, Garbled}
    /\ \E b \in K!Backends \cup S!Backends : Content(role).len = Length(role, b)

(* Processes on the same files, on one backend, where nothing fails: a     *)
(* reader that comes between a writer's truncation and its fclose finds    *)
(* the file too short, so no library call ever sees a torn artifact; and   *)
(* once they have ended, every file is empty still or holds one artifact   *)
(* whole - though not always the artifacts of one process.                 *)
NothingTorn ==
    faults = 0 /\ Apart /\ ~MlkemRef /\ ~MldsaRef =>
        /\ \A p \in Procs : pc[p] = "call" =>
              \A i \in 1..Len(Reads(cmd[p])) :
                  mem[p][Reads(cmd[p])[i]] \notin {Blank, Garbled}
        /\ (\A p \in Procs : pc[p] \in {"idle", "exited"}) =>
              \A r \in Roles \ {"msg"} : Content(r) = NoFile \/ IsWhole(r)

(* Every command that is started returns or is killed. *)
CommandsEnd == \A p \in Procs : pc[p] = "alloc" ~> pc[p] \in {"exited", "killed"}

(* What docs/security.md says of return values: none goes unchecked.  Then *)
(* a command that exits 0 has saved every artifact completely.             *)
ExitZeroMeansSaved ==
    \A c \in Commands : last[c].state = "ok" =>
        \A i \in 1..Len(Writes(c)) :
            Content(Writes(c)[i]).len >= Length(Writes(c)[i], last[c].be)
=============================================================================
