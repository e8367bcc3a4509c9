---------------------------- MODULE PqcCli_proofs ----------------------------
(***************************************************************************)
(* Theorems about PqcCli, for any processes, commands, builds, messages,   *)
(* file layouts and number of faults.                                      *)
(***************************************************************************)
EXTENDS PqcCli, TLAPS

Running == {"alloc", "read", "call", "open", "write", "close", "done"}
Writing == {"open", "write", "close"}
Codes   == {0, 1, 111}
Chosens == K!Backends \cup S!Backends \cup {Usage}

(* TypeOK, and where the index into the command's reads or writes stands.  *)
ControlOK ==
    /\ TypeOK
    /\ \A p \in Procs :
          /\ pc[p] \in {"alloc", "call"} => at[p] = 1
          /\ pc[p] = "read" => at[p] <= Len(Reads(cmd[p]))
          /\ pc[p] \in Writing => at[p] <= Len(Writes(cmd[p]))
    /\ DOMAIN file = Roles

(* A handler's buffers: a command in progress has no secret in one that    *)
(* its end does not wipe; one that returned has none at all.               *)
BuffersOK ==
    /\ DOMAIN mem = Procs
    /\ \A p \in Procs :
          /\ DOMAIN mem[p] = Roles
          /\ pc[p] = "idle" => mem[p] = NoMemory
          /\ pc[p] \in Running => \A r \in Secrets : mem[p][r] # Blank => r \in Wiped(cmd[p])
          /\ pc[p] = "exited" => \A r \in Secrets : mem[p][r] \in {Blank, Zeroed}

-----------------------------------------------------------------------------
(* Facts about the commands. *)

LEMMA LengthsOfCommands ==
  ASSUME NEW c \in KemCommands \cup SigCommands
  PROVE  /\ Len(Reads(c)) \in 0 .. 3 /\ Len(Writes(c)) \in 0 .. 3
         /\ Reads(c) = <<>> <=> Len(Reads(c)) = 0
         /\ Writes(c) = <<>> <=> Len(Writes(c)) = 0
         /\ \A i \in 1 .. Len(Reads(c)) : Reads(c)[i] \in Roles
         /\ \A i \in 1 .. Len(Writes(c)) : Writes(c)[i] \in Roles
BY DEF KemCommands, SigCommands, Reads, Writes, Roles

(* Every secret a handler reads or computes is one it wipes. *)
LEMMA SecretsAreWiped ==
  ASSUME NEW c \in KemCommands \cup SigCommands
  PROVE  /\ \A i \in 1 .. Len(Reads(c)) : Reads(c)[i] \in Secrets => Reads(c)[i] \in Wiped(c)
         /\ \A i \in 1 .. Len(Writes(c)) : Writes(c)[i] \in Secrets => Writes(c)[i] \in Wiped(c)
         /\ Wiped(c) \subseteq Roles
BY DEF KemCommands, SigCommands, Reads, Writes, Wiped, Secrets, Roles

LEMMA SelectionsTyped ==
  ASSUME NEW c, NEW b \in Selections(c)
  PROVE  b \in Chosens
BY DEF Selections, Chosen, Chosens, Usage, K!Backends, S!Backends

LEMMA LengthNat ==
  ASSUME NEW r \in Roles, NEW b
  PROVE  Length(r, b) \in Nat
BY DEF Roles, Length, K!Size, S!Size

LEMMA LengthPositive ==
  ASSUME NEW r \in Roles \ {"msg"}, NEW b
  PROVE  Length(r, b) \in Nat \ {0}
BY DEF Roles, Length, K!Size, S!Size

LEMMA WritesNoMessage ==
  ASSUME NEW c \in KemCommands \cup SigCommands, NEW i \in 1 .. Len(Writes(c))
  PROVE  Writes(c)[i] \in Roles \ {"msg"}
BY DEF KemCommands, SigCommands, Writes, Roles

-----------------------------------------------------------------------------
(* The control state. *)

Places == {"idle", "exited", "killed"} \cup Running

LEMMA ControlParts ==
  ASSUME ControlOK, NEW p \in Procs
  PROVE  /\ pc \in [Procs -> Places] /\ cmd \in [Procs -> Commands]
         /\ be \in [Procs -> Chosens] /\ at \in [Procs -> 1 .. 3]
         /\ code \in [Procs -> Codes] /\ lost \in [Procs -> BOOLEAN]
         /\ faults \in 0 .. MaxFaults /\ MaxFaults \in Nat
         /\ DOMAIN file = Roles /\ \A r \in Roles : file[r].len \in Nat
         /\ cmd[p] \in KemCommands \cup SigCommands
         /\ pc[p] \in Running => be[p] # Usage
BY CliAssumption DEF ControlOK, TypeOK, Places, Running, Codes, Chosens

LEMMA ControlWhole ==
  ASSUME pc \in [Procs -> Places], cmd \in [Procs -> Commands],
         be \in [Procs -> Chosens], at \in [Procs -> 1 .. 3],
         code \in [Procs -> Codes], lost \in [Procs -> BOOLEAN],
         faults \in 0 .. MaxFaults,
         DOMAIN file = Roles, \A r \in Roles : file[r].len \in Nat,
         \A p \in Procs :
            /\ pc[p] \in Running => be[p] # Usage
            /\ pc[p] \in {"alloc", "call"} => at[p] = 1
            /\ pc[p] = "read" => at[p] <= Len(Reads(cmd[p]))
            /\ pc[p] \in Writing => at[p] <= Len(Writes(cmd[p]))
  PROVE  ControlOK
BY DEF ControlOK, TypeOK, Places, Running, Codes, Chosens

LEMMA ControlInit == Init => ControlOK
<1> SUFFICES ASSUME Init PROVE ControlOK
  OBVIOUS
<1>1. /\ pc \in [Procs -> Places] /\ cmd \in [Procs -> Commands]
      /\ be \in [Procs -> Chosens] /\ at \in [Procs -> 1 .. 3]
      /\ code \in [Procs -> Codes] /\ lost \in [Procs -> BOOLEAN]
      /\ faults \in 0 .. MaxFaults
  BY CliAssumption DEF Init, Places, Chosens, Codes
<1>2. DOMAIN file = Roles /\ \A r \in Roles : file[r].len \in Nat
  BY DEF Init, NoFile
<1>3. \A p \in Procs : pc[p] = "idle"
  BY DEF Init
<1> QED
  BY <1>1, <1>2, <1>3, ControlWhole DEF Running, Writing

(* A step that moves one process, to a place its index fits. *)
LEMMA Moves ==
  ASSUME ControlOK, NEW p \in Procs,
         NEW where \in Places, NEW i \in 1 .. 3, NEW x \in Codes, NEW y \in BOOLEAN,
         pc' = [pc EXCEPT ![p] = where], at' = [at EXCEPT ![p] = i],
         code' = [code EXCEPT ![p] = x], lost' = [lost EXCEPT ![p] = y],
         UNCHANGED <<cmd, be>>,
         faults' \in 0 .. MaxFaults,
         DOMAIN file' = Roles, \A r \in Roles : file'[r].len \in Nat,
         where \in Running => be[p] # Usage,
         where \in {"alloc", "call"} => i = 1,
         where = "read" => i <= Len(Reads(cmd[p])),
         where \in Writing => i <= Len(Writes(cmd[p]))
  PROVE  ControlOK'
<1>1. /\ pc \in [Procs -> Places] /\ cmd \in [Procs -> Commands]
      /\ be \in [Procs -> Chosens] /\ at \in [Procs -> 1 .. 3]
      /\ code \in [Procs -> Codes] /\ lost \in [Procs -> BOOLEAN]
  BY ControlParts
<1>2. /\ pc' \in [Procs -> Places] /\ cmd' \in [Procs -> Commands]
      /\ be' \in [Procs -> Chosens] /\ at' \in [Procs -> 1 .. 3]
      /\ code' \in [Procs -> Codes] /\ lost' \in [Procs -> BOOLEAN]
  BY <1>1
<1>3. ASSUME NEW q \in Procs
      PROVE  /\ pc'[q] \in Running => be'[q] # Usage
             /\ pc'[q] \in {"alloc", "call"} => at'[q] = 1
             /\ pc'[q] = "read" => at'[q] <= Len(Reads(cmd'[q]))
             /\ pc'[q] \in Writing => at'[q] <= Len(Writes(cmd'[q]))
  <2>1. CASE q = p
    BY <1>1, <2>1
  <2>2. CASE q # p
    <3>1. pc'[q] = pc[q] /\ at'[q] = at[q] /\ be'[q] = be[q] /\ cmd'[q] = cmd[q]
      BY <1>1, <2>2
    <3>2. /\ pc[q] \in Running => be[q] # Usage
          /\ pc[q] \in {"alloc", "call"} => at[q] = 1
          /\ pc[q] = "read" => at[q] <= Len(Reads(cmd[q]))
          /\ pc[q] \in Writing => at[q] <= Len(Writes(cmd[q]))
      BY DEF ControlOK, TypeOK, Running
    <3> QED
      BY <3>1, <3>2
  <2> QED
    BY <2>1, <2>2
<1>4. /\ pc' \in [Procs -> Places] /\ at' \in [Procs -> 1 .. 3]
      /\ \A q \in Procs :
            /\ pc'[q] \in Running => be'[q] # Usage
            /\ pc'[q] \in {"alloc", "call"} => at'[q] = 1
            /\ pc'[q] = "read" => at'[q] <= Len(Reads(cmd'[q]))
            /\ pc'[q] \in Writing => at'[q] <= Len(Writes(cmd'[q]))
  BY <1>2, <1>3
<1> QED
  BY <1>2, <1>4 DEF ControlOK, TypeOK, Places, Running, Codes, Chosens

(* The ways a handler's calls end. *)
LEMMA Faulted ==
  ASSUME ControlOK, NEW p \in Procs, NoFault \/ Fault(p)
  PROVE  faults' \in 0 .. MaxFaults
<1>1. faults \in 0 .. MaxFaults /\ MaxFaults \in Nat
  BY CliAssumption DEF ControlOK, TypeOK
<1> QED
  BY <1>1 DEF NoFault, Fault

(* The same process, nothing of it changed but what Moves is told. *)
LEMMA Same ==
  ASSUME ControlOK, NEW p \in Procs
  PROVE  /\ pc = [pc EXCEPT ![p] = pc[p]] /\ at = [at EXCEPT ![p] = at[p]]
         /\ code = [code EXCEPT ![p] = code[p]] /\ lost = [lost EXCEPT ![p] = lost[p]]
         /\ pc[p] \in Places /\ at[p] \in 1 .. 3 /\ code[p] \in Codes /\ lost[p] \in BOOLEAN
<1>1. /\ pc \in [Procs -> Places] /\ at \in [Procs -> 1 .. 3]
      /\ code \in [Procs -> Codes] /\ lost \in [Procs -> BOOLEAN]
  BY ControlParts
<1> QED
  BY <1>1

LEMMA Ends ==
  ASSUME ControlOK, NEW p \in Procs, pc[p] \in Running
  PROVE  \A where \in {"done", "exited", "killed"} :
            /\ where \in Places
            /\ where \in Running => be[p] # Usage
            /\ where \notin {"alloc", "call", "read"} \cup Writing
BY ControlParts DEF Places, Running, Writing

(* Moves for the steps that leave the files and where index and stream     *)
(* stand, given where the process goes and its code.                       *)
LEMMA Goes ==
  ASSUME ControlOK, NEW p \in Procs, pc[p] \in Running,
         NEW where \in {"done", "exited", "killed"}, NEW x \in Codes,
         Goto(p, where), code' = [code EXCEPT ![p] = x],
         UNCHANGED <<cmd, be, at, lost>>,
         faults' \in 0 .. MaxFaults,
         DOMAIN file' = Roles, \A r \in Roles : file'[r].len \in Nat
  PROVE  ControlOK'
<1>1. /\ where \in Places /\ (where \in Running => be[p] # Usage)
      /\ where \notin {"alloc", "call", "read"} \cup Writing
  BY Ends
<1>2. /\ at' = [at EXCEPT ![p] = at[p]] /\ lost' = [lost EXCEPT ![p] = lost[p]]
      /\ at[p] \in 1 .. 3 /\ lost[p] \in BOOLEAN
  BY Same
<1>3. pc' = [pc EXCEPT ![p] = where]
  BY DEF Goto
<1> QED
  BY <1>1, <1>2, <1>3, Moves

LEMMA FilesKept ==
  ASSUME ControlOK, UNCHANGED file
  PROVE  DOMAIN file' = Roles /\ \A r \in Roles : file'[r].len \in Nat
BY DEF ControlOK, TypeOK

LEMMA ControlStart ==
  ASSUME ControlOK, NEW p \in Procs, NEW c \in Commands, NEW b \in Selections(c), Start(p, c, b)
  PROVE  ControlOK'
<1>1. /\ pc \in [Procs -> Places] /\ cmd \in [Procs -> Commands]
      /\ be \in [Procs -> Chosens] /\ at \in [Procs -> 1 .. 3]
      /\ code \in [Procs -> Codes] /\ lost \in [Procs -> BOOLEAN]
      /\ faults \in 0 .. MaxFaults
  BY ControlParts
<1>2. b \in Chosens
  BY SelectionsTyped
<1>3. /\ cmd' = [cmd EXCEPT ![p] = c] /\ be' = [be EXCEPT ![p] = b]
      /\ at' = [at EXCEPT ![p] = 1] /\ lost' = [lost EXCEPT ![p] = FALSE]
      /\ UNCHANGED <<file, faults>>
      /\ \/ pc' = [pc EXCEPT ![p] = "exited"] /\ code' = [code EXCEPT ![p] = 1]
         \/ b # Usage /\ pc' = [pc EXCEPT ![p] = "alloc"] /\ code' = [code EXCEPT ![p] = 0]
  BY DEF Start, Goto
<1>4. /\ pc' \in [Procs -> Places] /\ cmd' \in [Procs -> Commands]
      /\ be' \in [Procs -> Chosens] /\ at' \in [Procs -> 1 .. 3]
      /\ code' \in [Procs -> Codes] /\ lost' \in [Procs -> BOOLEAN]
      /\ faults' \in 0 .. MaxFaults
  BY <1>1, <1>2, <1>3 DEF Places, Running, Codes
<1>5. ASSUME NEW q \in Procs
      PROVE  /\ pc'[q] \in Running => be'[q] # Usage
             /\ pc'[q] \in {"alloc", "call"} => at'[q] = 1
             /\ pc'[q] = "read" => at'[q] <= Len(Reads(cmd'[q]))
             /\ pc'[q] \in Writing => at'[q] <= Len(Writes(cmd'[q]))
  <2>1. CASE q = p
    BY <1>1, <1>3, <2>1 DEF Running, Writing
  <2>2. CASE q # p
    <3>1. pc'[q] = pc[q] /\ at'[q] = at[q] /\ be'[q] = be[q] /\ cmd'[q] = cmd[q]
      BY <1>1, <1>3, <2>2
    <3> QED
      BY <3>1 DEF ControlOK, TypeOK, Running
  <2> QED
    BY <2>1, <2>2
<1>6. DOMAIN file' = Roles /\ \A r \in Roles : file'[r].len \in Nat
  BY <1>3, FilesKept
<1> QED
  BY <1>4, <1>5, <1>6 DEF ControlOK, TypeOK, Places, Running, Codes, Chosens

LEMMA ControlAlloc ==
  ASSUME ControlOK, NEW p \in Procs, Alloc(p)
  PROVE  ControlOK'
<1>1. /\ pc[p] = "alloc" /\ pc[p] \in Running /\ UNCHANGED <<cmd, be, at, lost, file>>
      /\ be[p] # Usage /\ at[p] = 1 /\ cmd[p] \in KemCommands \cup SigCommands
  BY ControlParts DEF Alloc, Running, ControlOK
<1>2. faults' \in 0 .. MaxFaults /\ DOMAIN file' = Roles /\ \A r \in Roles : file'[r].len \in Nat
  BY <1>1, Faulted, FilesKept DEF Alloc
<1>3. CASE Fail(p)
  BY <1>1, <1>2, <1>3, Goes DEF Fail, Codes
<1>4. ASSUME NEW where, where = (IF Reads(cmd[p]) = <<>> THEN "call" ELSE "read"),
             Goto(p, where), UNCHANGED code
      PROVE  ControlOK'
  <2>1. /\ where \in Places /\ where \in {"call", "read"}
        /\ where = "read" => at[p] <= Len(Reads(cmd[p]))
    BY <1>1, <1>4, LengthsOfCommands DEF Places, Running
  <2>2. /\ pc' = [pc EXCEPT ![p] = where] /\ at' = [at EXCEPT ![p] = at[p]]
        /\ code' = [code EXCEPT ![p] = code[p]] /\ lost' = [lost EXCEPT ![p] = lost[p]]
        /\ at[p] \in 1 .. 3 /\ code[p] \in Codes /\ lost[p] \in BOOLEAN
    BY <1>1, <1>4, Same DEF Goto
  <2>3. where \notin Writing
    BY <2>1 DEF Writing
  <2> QED
    BY <1>1, <1>2, <2>1, <2>2, <2>3, Moves
<1> QED
  BY <1>3, <1>4 DEF Alloc

LEMMA ControlRead ==
  ASSUME ControlOK, NEW p \in Procs, ReadInput(p)
  PROVE  ControlOK'
<1>1. /\ pc[p] = "read" /\ pc[p] \in Running /\ UNCHANGED <<cmd, be, lost, file>>
      /\ be[p] # Usage /\ cmd[p] \in KemCommands \cup SigCommands
      /\ at[p] \in 1 .. 3 /\ at[p] <= Len(Reads(cmd[p]))
  BY ControlParts DEF ReadInput, Running, ControlOK
<1>2. faults' \in 0 .. MaxFaults /\ DOMAIN file' = Roles /\ \A r \in Roles : file'[r].len \in Nat
  BY <1>1, Faulted, FilesKept DEF ReadInput
<1>3. CASE Fail(p) /\ UNCHANGED at
  BY <1>1, <1>2, <1>3, Goes DEF Fail, Codes
<1>4. CASE NextInput(p) /\ UNCHANGED code
  <2>1. /\ code' = [code EXCEPT ![p] = code[p]] /\ lost' = [lost EXCEPT ![p] = lost[p]]
        /\ pc = [pc EXCEPT ![p] = pc[p]]
        /\ code[p] \in Codes /\ lost[p] \in BOOLEAN
    BY <1>1, <1>4, Same
  <2>2. Len(Reads(cmd[p])) \in 0 .. 3
    BY <1>1, LengthsOfCommands
  <2>3. CASE at[p] = Len(Reads(cmd[p]))
    <3>1. pc' = [pc EXCEPT ![p] = "call"] /\ at' = [at EXCEPT ![p] = 1]
      BY <1>4, <2>3 DEF NextInput, Goto
    <3>2. "call" \in Places /\ "call" \notin Writing /\ "call" # "read" /\ 1 \in 1 .. 3
      BY DEF Places, Running, Writing
    <3> QED
      BY <1>1, <1>2, <2>1, <3>1, <3>2, Moves
  <2>4. CASE at[p] # Len(Reads(cmd[p]))
    <3>1. /\ pc' = [pc EXCEPT ![p] = "read"] /\ at' = [at EXCEPT ![p] = at[p] + 1]
      BY <1>1, <1>4, <2>1, <2>4 DEF NextInput
    <3>2. "read" \in Places /\ "read" \notin Writing
      BY DEF Places, Running, Writing
    <3> DEFINE i == at[p] n == Len(Reads(cmd[p]))
    <3>3. i \in 1 .. 3 /\ i <= n /\ n \in 0 .. 3 /\ i # n
      BY <1>1, <2>2, <2>4
    <3> HIDE DEF i, n
    <3>4. i + 1 \in 1 .. 3 /\ i + 1 <= n
      BY <3>3
    <3>5. at[p] + 1 \in 1 .. 3 /\ at[p] + 1 <= Len(Reads(cmd[p]))
      BY <3>4 DEF i, n
    <3> QED
      BY <1>1, <1>2, <2>1, <3>1, <3>2, <3>5, Moves
  <2> QED
    BY <2>3, <2>4
<1> QED
  BY <1>3, <1>4 DEF ReadInput

LEMMA ControlCall ==
  ASSUME ControlOK, NEW p \in Procs, Call(p)
  PROVE  ControlOK'
<1>1. /\ pc[p] = "call" /\ pc[p] \in Running /\ UNCHANGED <<cmd, be, at, lost, file, faults>>
      /\ be[p] # Usage /\ at[p] = 1 /\ cmd[p] \in KemCommands \cup SigCommands
      /\ faults' \in 0 .. MaxFaults
  BY ControlParts DEF Call, Running, ControlOK
<1>2. DOMAIN file' = Roles /\ \A r \in Roles : file'[r].len \in Nat
  BY <1>1, FilesKept
<1>3. CASE Fail(p)
  BY <1>1, <1>2, <1>3, Goes DEF Fail, Codes
<1>4. CASE Goto(p, "done") /\ UNCHANGED code
  BY <1>1, <1>2, <1>4, Goes, Same
<1>5. CASE Goto(p, "open") /\ UNCHANGED code /\ Writes(cmd[p]) # <<>>
  <2>1. /\ pc' = [pc EXCEPT ![p] = "open"] /\ at' = [at EXCEPT ![p] = at[p]]
        /\ code' = [code EXCEPT ![p] = code[p]] /\ lost' = [lost EXCEPT ![p] = lost[p]]
        /\ at[p] \in 1 .. 3 /\ code[p] \in Codes /\ lost[p] \in BOOLEAN
    BY <1>1, <1>5, Same DEF Goto
  <2>2. at[p] <= Len(Writes(cmd[p]))
    BY <1>1, <1>5, LengthsOfCommands
  <2>3. /\ "open" \in Places /\ UNCHANGED <<cmd, be>> /\ faults' \in 0 .. MaxFaults
        /\ "open" \in Running => be[p] # Usage
        /\ "open" \in {"alloc", "call"} => at[p] = 1
        /\ "open" = "read" => at[p] <= Len(Reads(cmd[p]))
        /\ "open" \in Writing => at[p] <= Len(Writes(cmd[p]))
    BY <1>1, <2>2 DEF Places, Running
  <2> QED
    BY <1>2, <2>1, <2>3, Moves
<1> QED
  BY <1>3, <1>4, <1>5 DEF Call

LEMMA ControlAbort ==
  ASSUME ControlOK, NEW p \in Procs, Abort(p)
  PROVE  ControlOK'
<1>1. /\ pc[p] \in Running /\ UNCHANGED <<cmd, be, at, lost, file>>
      /\ Goto(p, "killed") /\ code' = [code EXCEPT ![p] = 111] /\ 111 \in Codes
      /\ faults' \in 0 .. MaxFaults
  BY ControlParts DEF Abort, Running, Codes
<1> QED
  BY <1>1, FilesKept, Goes

LEMMA ControlKill ==
  ASSUME ControlOK, NEW p \in Procs, Kill(p)
  PROVE  ControlOK'
<1>1. /\ pc[p] \in Running /\ UNCHANGED <<cmd, be, at, lost, file>>
      /\ Goto(p, "killed") /\ code' = [code EXCEPT ![p] = 1] /\ 1 \in Codes
      /\ faults' \in 0 .. MaxFaults
  BY ControlParts DEF Kill, Places, Codes
<1> QED
  BY <1>1, FilesKept, Goes

LEMMA ControlFinish ==
  ASSUME ControlOK, NEW p \in Procs, Finish(p)
  PROVE  ControlOK'
<1>1. /\ pc[p] \in Running /\ UNCHANGED <<cmd, be, at, lost, file, faults>>
      /\ Goto(p, "exited") /\ code' = [code EXCEPT ![p] = code[p]] /\ code[p] \in Codes
      /\ faults' \in 0 .. MaxFaults
  BY ControlParts, Same DEF Finish, Running
<1> QED
  BY <1>1, FilesKept, Goes

(* An output file keeps its type whatever of an artifact reaches it. *)
LEMMA FilesWritten ==
  ASSUME ControlOK, NEW p \in Procs, pc[p] \in Writing,
         \/ file' = [file EXCEPT ![Target(p)] = NoFile]
         \/ WriteOut(p)
         \/ WriteOutPartly(p)
  PROVE  DOMAIN file' = Roles /\ \A r \in Roles : file'[r].len \in Nat
<1> DEFINE n == Length(Output(p), be[p]) t == Target(p)
<1>1. DOMAIN file = Roles /\ \A r \in Roles : file[r].len \in Nat
  BY ControlParts
<1>2. n \in Nat \ {0}
  <2>1. cmd[p] \in KemCommands \cup SigCommands
    BY ControlParts
  <2>2. at[p] \in 1 .. Len(Writes(cmd[p]))
    <3>1. at[p] \in 1 .. 3 /\ at[p] <= Len(Writes(cmd[p]))
      BY ControlParts DEF ControlOK
    <3>2. Len(Writes(cmd[p])) \in 0 .. 3
      BY <2>1, LengthsOfCommands
    <3> QED
      BY <3>1, <3>2
  <2>3. Output(p) \in Roles \ {"msg"}
    BY <2>1, <2>2, WritesNoMessage DEF Output
  <2> QED
    BY <2>3, LengthPositive
<1>3. ASSUME NEW v, NEW x \in Nat, file' = [file EXCEPT ![t] = [val |-> v, len |-> x]]
      PROVE  DOMAIN file' = Roles /\ \A r \in Roles : file'[r].len \in Nat
  <2>1. DOMAIN file' = Roles
    BY <1>1, <1>3
  <2>2. ASSUME NEW r \in Roles PROVE file'[r].len \in Nat
    <3>1. CASE r = t
      <4>1. file'[r] = [val |-> v, len |-> x]
        BY <1>1, <1>3, <3>1
      <4> QED
        BY <4>1
    <3>2. CASE r # t
      BY <1>1, <1>3, <3>2
    <3> QED
      BY <3>1, <3>2
  <2> QED
    BY <2>1, <2>2
<1>4. CASE file' = [file EXCEPT ![t] = NoFile]
  BY <1>3, <1>4 DEF NoFile
<1>5. CASE t \notin Roles
  <2>1. ASSUME NEW v, file' = [file EXCEPT ![t] = v]
        PROVE  DOMAIN file' = Roles /\ \A r \in Roles : file'[r] = file[r]
    BY <1>1, <1>5, <2>1
  <2>2. CASE WriteOut(p)
    BY <1>1, <2>1, <2>2 DEF WriteOut
  <2>3. CASE WriteOutPartly(p)
    BY <1>1, <2>1, <2>3 DEF WriteOutPartly
  <2> QED
    BY <1>4, <2>2, <2>3
<1>6. CASE t \in Roles /\ WriteOut(p)
  <2>1. file' = [file EXCEPT ![t] = [val |-> mem[p][Output(p)],
                                     len |-> IF file[t].len > n THEN file[t].len ELSE n]]
    BY <1>6 DEF WriteOut
  <2>2. (IF file[t].len > n THEN file[t].len ELSE n) \in Nat
    BY <1>1, <1>2, <1>6
  <2> QED
    BY <1>3, <2>1, <2>2
<1>7. CASE t \in Roles /\ WriteOutPartly(p)
  <2>1. CASE UNCHANGED file
    BY <1>1, <2>1
  <2>2. CASE file' = [file EXCEPT ![t] =
                        [val |-> IF file[t].len >= n THEN Garbled ELSE mem[p][Output(p)],
                         len |-> IF file[t].len >= n THEN file[t].len ELSE n - 1]]
    <3>1. (IF file[t].len >= n THEN file[t].len ELSE n - 1) \in Nat
      BY <1>1, <1>2, <1>7
    <3> QED
      BY <1>3, <2>2, <3>1
  <2> QED
    BY <1>7, <2>1, <2>2 DEF WriteOutPartly
<1> QED
  BY <1>4, <1>5, <1>6, <1>7

LEMMA WritingFacts ==
  ASSUME ControlOK, NEW p \in Procs, pc[p] \in Writing
  PROVE  /\ pc[p] \in Running /\ be[p] # Usage
         /\ at[p] \in 1 .. 3 /\ at[p] <= Len(Writes(cmd[p])) /\ Len(Writes(cmd[p])) \in 0 .. 3
         /\ \A where \in {"open", "write", "close"} :
               where \in Places /\ where \notin {"alloc", "call"} /\ where # "read"
<1>1. pc[p] \in Running
  BY DEF Running, Writing
<1>2. Len(Writes(cmd[p])) \in 0 .. 3
  BY ControlParts, LengthsOfCommands
<1> QED
  BY <1>1, <1>2, ControlParts DEF ControlOK, Places, Running

LEMMA ControlOpen ==
  ASSUME ControlOK, NEW p \in Procs, Open(p)
  PROVE  ControlOK'
<1>1. pc[p] = "open" /\ pc[p] \in Writing /\ UNCHANGED <<cmd, be, at, lost>>
  BY DEF Open, Writing
<1>2. faults' \in 0 .. MaxFaults
  BY Faulted DEF Open
<1>3. DOMAIN file' = Roles /\ \A r \in Roles : file'[r].len \in Nat
  <2>1. CASE file' = [file EXCEPT ![Target(p)] = NoFile]
    BY <1>1, <2>1, FilesWritten
  <2>2. CASE UNCHANGED file
    BY <2>2, FilesKept
  <2> QED
    BY <2>1, <2>2 DEF Open
<1>4. CASE Fail(p)
  BY <1>1, <1>2, <1>3, <1>4, WritingFacts, Goes DEF Fail, Codes
<1>5. CASE Goto(p, "write") /\ UNCHANGED code
  <2>1. /\ pc' = [pc EXCEPT ![p] = "write"] /\ at' = [at EXCEPT ![p] = at[p]]
        /\ code' = [code EXCEPT ![p] = code[p]] /\ lost' = [lost EXCEPT ![p] = lost[p]]
        /\ at[p] \in 1 .. 3 /\ code[p] \in Codes /\ lost[p] \in BOOLEAN
    BY <1>1, <1>5, Same DEF Goto
  <2> QED
    BY <1>1, <1>2, <1>3, <2>1, WritingFacts, Moves
<1> QED
  BY <1>4, <1>5 DEF Open

LEMMA ControlWrite ==
  ASSUME ControlOK, NEW p \in Procs, Write(p)
  PROVE  ControlOK'
<1>1. pc[p] = "write" /\ pc[p] \in Writing /\ UNCHANGED <<cmd, be, at, lost>>
  BY DEF Write, Writing
<1>2. faults' \in 0 .. MaxFaults
  BY Faulted DEF Write
<1>3. CASE WriteOutPartly(p) /\ Fail(p)
  <2>1. DOMAIN file' = Roles /\ \A r \in Roles : file'[r].len \in Nat
    BY <1>1, <1>3, FilesWritten
  <2> QED
    BY <1>1, <1>2, <1>3, <2>1, WritingFacts, Goes DEF Fail, Codes
<1>4. CASE Goto(p, "close") /\ UNCHANGED <<code, file>>
  <2>1. /\ pc' = [pc EXCEPT ![p] = "close"] /\ at' = [at EXCEPT ![p] = at[p]]
        /\ code' = [code EXCEPT ![p] = code[p]] /\ lost' = [lost EXCEPT ![p] = lost[p]]
        /\ at[p] \in 1 .. 3 /\ code[p] \in Codes /\ lost[p] \in BOOLEAN
    BY <1>1, <1>4, Same DEF Goto
  <2>2. DOMAIN file' = Roles /\ \A r \in Roles : file'[r].len \in Nat
    BY <1>4, FilesKept
  <2> QED
    BY <1>1, <1>2, <2>1, <2>2, WritingFacts, Moves
<1> QED
  BY <1>3, <1>4 DEF Write

LEMMA ControlClose ==
  ASSUME ControlOK, NEW p \in Procs, Close(p)
  PROVE  ControlOK'
<1>1. pc[p] = "close" /\ pc[p] \in Writing /\ UNCHANGED <<cmd, be, code>>
  BY DEF Close, Writing
<1>2. faults' \in 0 .. MaxFaults
  BY Faulted DEF Close
<1>3. DOMAIN file' = Roles /\ \A r \in Roles : file'[r].len \in Nat
  BY <1>1, FilesWritten DEF Close
<1>4. code' = [code EXCEPT ![p] = code[p]] /\ code[p] \in Codes
  BY <1>1, Same
<1>5. PICK y \in BOOLEAN : lost' = [lost EXCEPT ![p] = y]
  BY Same DEF Close
<1>6. CASE at[p] = Len(Writes(cmd[p]))
  <2>1. pc' = [pc EXCEPT ![p] = "done"] /\ at' = [at EXCEPT ![p] = at[p]]
    BY <1>6, Same DEF Close, Goto
  <2>2. "done" \in Places /\ "done" \notin {"alloc", "call", "read"} \cup Writing
    BY DEF Places, Running, Writing
  <2> QED
    BY <1>1, <1>2, <1>3, <1>4, <1>5, <2>1, <2>2, WritingFacts, Moves
<1>7. CASE at[p] # Len(Writes(cmd[p]))
  <2>1. pc' = [pc EXCEPT ![p] = "open"] /\ at' = [at EXCEPT ![p] = at[p] + 1]
    BY <1>7 DEF Close, Goto
  <2> DEFINE i == at[p] n == Len(Writes(cmd[p]))
  <2>2. i \in 1 .. 3 /\ i <= n /\ n \in 0 .. 3 /\ i # n
    BY <1>1, <1>7, WritingFacts
  <2> HIDE DEF i, n
  <2>3. i + 1 \in 1 .. 3 /\ i + 1 <= n
    BY <2>2
  <2>4. at[p] + 1 \in 1 .. 3 /\ at[p] + 1 <= Len(Writes(cmd[p]))
    BY <2>3 DEF i, n
  <2> QED
    BY <1>1, <1>2, <1>3, <1>4, <1>5, <2>1, <2>4, WritingFacts, Moves
<1> QED
  BY <1>6, <1>7

LEMMA ControlChange ==
  ASSUME ControlOK, NEW m \in Messages, ChangeMessage(m)
  PROVE  ControlOK'
<1>1. DOMAIN file = Roles /\ \A r \in Roles : file[r].len \in Nat
  BY DEF ControlOK, TypeOK
<1>2. file' = [file EXCEPT ![path["msg"]] = [val |-> m, len |-> 0]]
  BY DEF ChangeMessage
<1>3. DOMAIN file' = Roles /\ \A r \in Roles : file'[r].len \in Nat
  <2>1. DOMAIN file' = Roles
    BY <1>1, <1>2
  <2>2. ASSUME NEW r \in Roles PROVE file'[r].len \in Nat
    <3>1. CASE r = path["msg"]
      <4>1. file'[r] = [val |-> m, len |-> 0]
        BY <1>1, <1>2, <3>1
      <4> QED
        BY <4>1
    <3>2. CASE r # path["msg"]
      BY <1>1, <1>2, <3>2
    <3> QED
      BY <3>1, <3>2
  <2> QED
    BY <2>1, <2>2
<1> QED
  BY <1>3 DEF ChangeMessage, ControlOK, TypeOK

LEMMA ControlStep == ControlOK /\ [Next]_vars => ControlOK'
<1> SUFFICES ASSUME ControlOK, [Next]_vars PROVE ControlOK'
  OBVIOUS
<1>1. ASSUME NEW p \in Procs, NEW c \in Commands, NEW b \in Selections(c), Start(p, c, b)
      PROVE  ControlOK'
  BY <1>1, ControlStart
<1>2. ASSUME NEW p \in Procs, Step(p) PROVE ControlOK'
  BY <1>2, ControlAlloc, ControlRead, ControlCall, ControlOpen, ControlWrite, ControlClose,
     ControlFinish DEF Step
<1>3. ASSUME NEW p \in Procs, Abort(p) PROVE ControlOK'
  BY <1>3, ControlAbort
<1>4. ASSUME NEW p \in Procs, Kill(p) PROVE ControlOK'
  BY <1>4, ControlKill
<1>5. ASSUME NEW m \in Messages, ChangeMessage(m) PROVE ControlOK'
  BY <1>5, ControlChange
<1>6. CASE UNCHANGED vars
  BY <1>6 DEF vars, ControlOK, TypeOK
<1> QED
  BY <1>1, <1>2, <1>3, <1>4, <1>5, <1>6 DEF Next

(* The control state of every process keeps its type, and its index stays  *)
(* within the files its command reads or writes.                           *)
THEOREM CliTyping == Spec => []TypeOK
<1>1. ControlOK => TypeOK
  BY DEF ControlOK
<1> QED
  BY <1>1, ControlInit, ControlStep, PTL DEF Spec

-----------------------------------------------------------------------------
(* The buffers. *)

Fits(place, m, c) ==
    /\ DOMAIN m = Roles
    /\ place = "idle" => m = NoMemory
    /\ place \in Running => \A r \in Secrets : m[r] # Blank => r \in Wiped(c)
    /\ place = "exited" => \A r \in Secrets : m[r] \in {Blank, Zeroed}

LEMMA BuffersFit ==
  BuffersOK <=> DOMAIN mem = Procs /\ \A p \in Procs : Fits(pc[p], mem[p], cmd[p])
BY DEF BuffersOK, Fits

(* One process moves and leaves its buffers as m. *)
LEMMA Refits ==
  ASSUME ControlOK, BuffersOK, NEW p \in Procs, NEW where, NEW m, NEW c,
         pc' = [pc EXCEPT ![p] = where], mem' = [mem EXCEPT ![p] = m],
         cmd' = [cmd EXCEPT ![p] = c], Fits(where, m, c)
  PROVE  BuffersOK'
<1>1. pc \in [Procs -> Places] /\ cmd \in [Procs -> Commands]
  BY ControlParts
<1>2. DOMAIN mem = Procs /\ \A q \in Procs : Fits(pc[q], mem[q], cmd[q])
  BY BuffersFit
<1>3. DOMAIN mem' = Procs
  BY <1>2
<1>4. ASSUME NEW q \in Procs PROVE Fits(pc'[q], mem'[q], cmd'[q])
  <2>1. CASE q = p
    <3>1. pc'[q] = where /\ mem'[q] = m /\ cmd'[q] = c
      BY <1>1, <1>2, <2>1
    <3> QED
      BY <3>1
  <2>2. CASE q # p
    <3>1. pc'[q] = pc[q] /\ mem'[q] = mem[q] /\ cmd'[q] = cmd[q]
      BY <1>1, <1>2, <2>2
    <3> QED
      BY <1>2, <3>1
  <2> QED
    BY <2>1, <2>2
<1> QED
  BY <1>3, <1>4 DEF BuffersOK, Fits

(* The same without new buffers: from one running place to another or to   *)
(* the end of a killed process.                                            *)
LEMMA KeepsBuffers ==
  ASSUME ControlOK, BuffersOK, NEW p \in Procs, pc[p] \in Running,
         NEW where \in Running \cup {"killed"},
         pc' = [pc EXCEPT ![p] = where], UNCHANGED <<mem, cmd>>
  PROVE  BuffersOK'
<1>1. pc \in [Procs -> Places]
  BY ControlParts
<1>2. ASSUME NEW q \in Procs
      PROVE  /\ pc'[q] = "idle" => pc[q] = "idle"
             /\ pc'[q] \in Running => pc[q] \in Running
             /\ pc'[q] = "exited" => pc[q] = "exited"
  BY <1>1 DEF Running
<1> QED
  BY <1>2 DEF BuffersOK

(* A role a running handler may fill. *)
LEMMA FillFits ==
  ASSUME NEW c, NEW m, NEW role, NEW v, NEW place \in Running, NEW to \in Running,
         Fits(place, m, c), role \in Secrets => role \in Wiped(c)
  PROVE  Fits(to, [m EXCEPT ![role] = v], c)
<1> DEFINE m2 == [m EXCEPT ![role] = v]
<1>1. DOMAIN m2 = Roles
  BY DEF Fits
<1>2. ASSUME NEW r \in Secrets, m2[r] # Blank PROVE r \in Wiped(c)
  <2>1. r \in Roles
    BY DEF Secrets, Roles
  <2>2. CASE r = role
    BY <2>2
  <2>3. CASE r # role
    <3>1. m2[r] = m[r]
      BY <2>1, <2>3 DEF Fits
    <3> QED
      BY <1>2, <3>1 DEF Fits
  <2> QED
    BY <2>2, <2>3
<1> QED
  BY <1>1, <1>2 DEF Fits, Running

(* What a process in progress holds, and that it is one. *)
LEMMA InProgress ==
  ASSUME ControlOK, BuffersOK, NEW p \in Procs, pc[p] \in Running
  PROVE  /\ Fits(pc[p], mem[p], cmd[p])
         /\ cmd[p] \in KemCommands \cup SigCommands
         /\ cmd = [cmd EXCEPT ![p] = cmd[p]]
         /\ \A role, v : [mem EXCEPT ![p][role] = v] = [mem EXCEPT ![p] = [mem[p] EXCEPT ![role] = v]]
<1>1. Fits(pc[p], mem[p], cmd[p])
  BY BuffersFit
<1>2. cmd \in [Procs -> Commands] /\ cmd[p] \in KemCommands \cup SigCommands
  BY ControlParts
<1>3. DOMAIN mem = Procs
  BY DEF BuffersOK
<1> QED
  BY <1>1, <1>2, <1>3

LEMMA BuffersStart ==
  ASSUME ControlOK, BuffersOK, NEW p \in Procs, NEW c \in Commands, NEW b, Start(p, c, b)
  PROVE  BuffersOK'
<1>1. /\ mem' = [mem EXCEPT ![p] = NoMemory] /\ cmd' = [cmd EXCEPT ![p] = c]
      /\ \E where \in {"exited", "alloc"} : pc' = [pc EXCEPT ![p] = where]
  BY DEF Start, Goto
<1>2. \A where \in {"exited", "alloc"} : Fits(where, NoMemory, c)
  BY DEF Fits, NoMemory, Secrets, Roles
<1> QED
  BY <1>1, <1>2, Refits

LEMMA BuffersRead ==
  ASSUME ControlOK, BuffersOK, NEW p \in Procs, ReadInput(p)
  PROVE  BuffersOK'
<1> DEFINE role == Reads(cmd[p])[at[p]]
<1>1. pc[p] = "read" /\ pc[p] \in Running /\ cmd' = cmd
  BY DEF ReadInput, Running
<1>2. PICK where \in {"read", "call", "done"} : pc' = [pc EXCEPT ![p] = where]
  BY <1>1, Same DEF ReadInput, NextInput, Fail, Goto
<1>3. where \in Running
  BY DEF Running
<1>4. role \in Secrets => role \in Wiped(cmd[p])
  <2>1. cmd[p] \in KemCommands \cup SigCommands /\ at[p] \in 1 .. 3 /\ at[p] <= Len(Reads(cmd[p]))
    BY <1>1, ControlParts DEF ControlOK
  <2>2. Len(Reads(cmd[p])) \in 0 .. 3
    BY <2>1, LengthsOfCommands
  <2>3. at[p] \in 1 .. Len(Reads(cmd[p]))
    BY <2>1, <2>2
  <2> QED
    BY <2>1, <2>3, SecretsAreWiped
<1>5. CASE UNCHANGED mem
  BY <1>1, <1>2, <1>3, <1>5, KeepsBuffers
<1>6. ASSUME NEW v, mem' = [mem EXCEPT ![p][role] = v] PROVE BuffersOK'
  <2> DEFINE m == [mem[p] EXCEPT ![role] = v]
  <2>1. mem' = [mem EXCEPT ![p] = m] /\ cmd' = [cmd EXCEPT ![p] = cmd[p]]
    BY <1>1, <1>6, InProgress
  <2>2. Fits(where, m, cmd[p])
    BY <1>1, <1>3, <1>4, InProgress, FillFits
  <2> QED
    BY <1>2, <2>1, <2>2, Refits
<1>7. mem' = mem \/ \E v : mem' = [mem EXCEPT ![p][role] = v]
  BY DEF ReadInput
<1> QED
  BY <1>5, <1>6, <1>7

LEMMA BuffersCall ==
  ASSUME ControlOK, BuffersOK, NEW p \in Procs, Call(p)
  PROVE  BuffersOK'
<1>1. pc[p] = "call" /\ pc[p] \in Running /\ cmd' = cmd
  BY DEF Call, Running
<1>2. PICK where \in {"done", "open"} : pc' = [pc EXCEPT ![p] = where]
  BY DEF Call, Fail, Goto
<1>3. where \in Running
  BY DEF Running
<1>4. CASE UNCHANGED mem
  BY <1>1, <1>2, <1>3, <1>4, KeepsBuffers
<1>5. ASSUME NEW m \in Results(p), mem' = [mem EXCEPT ![p] = m] PROVE BuffersOK'
  <2>1. Fits(pc[p], mem[p], cmd[p]) /\ cmd[p] \in KemCommands \cup SigCommands
    BY <1>1, InProgress
  <2>2. \A role, v : (role \in Secrets => role \in Wiped(cmd[p])) =>
                       Fits(pc[p], [mem[p] EXCEPT ![role] = v], cmd[p])
    BY <1>1, <2>1, FillFits
  <2>3. \A r1, v1, r2, v2 :
           (r1 \in Secrets => r1 \in Wiped(cmd[p])) /\ (r2 \in Secrets => r2 \in Wiped(cmd[p])) =>
              Fits(where, [[mem[p] EXCEPT ![r1] = v1] EXCEPT ![r2] = v2], cmd[p])
    BY <1>1, <1>3, <2>2, FillFits
  <2>4. \A r1, v1 : (r1 \in Secrets => r1 \in Wiped(cmd[p])) =>
                       Fits(where, [mem[p] EXCEPT ![r1] = v1], cmd[p])
    BY <1>1, <1>3, <2>1, FillFits
  <2>5. Fits(where, m, cmd[p])
    <3>1. CASE cmd[p] = "keygen"
      <4>1. \E x, y : m = [mem[p] EXCEPT !["pub"] = x, !["sec"] = y]
        BY <1>5, <3>1 DEF Results
      <4>2. "pub" \notin Secrets /\ "sec" \in Wiped(cmd[p])
        BY <3>1 DEF Secrets, Wiped
      <4> QED
        BY <4>1, <4>2, <2>3
    <3>2. CASE cmd[p] = "encaps"
      <4>1. \E x, y : m = [mem[p] EXCEPT !["ct"] = x, !["ss"] = y]
        BY <1>5, <3>2 DEF Results
      <4>2. "ct" \notin Secrets /\ "ss" \in Wiped(cmd[p])
        BY <3>2 DEF Secrets, Wiped
      <4> QED
        BY <4>1, <4>2, <2>3
    <3>3. CASE cmd[p] = "decaps"
      <4>1. \E x : m = [mem[p] EXCEPT !["dss"] = x]
        BY <1>5, <3>3 DEF Results
      <4> QED
        BY <3>3, <4>1, <2>4 DEF Secrets, Wiped
    <3>4. CASE cmd[p] = "sig-keygen"
      <4>1. \E x, y : m = [mem[p] EXCEPT !["sigpub"] = x, !["sigsec"] = y]
        BY <1>5, <3>4 DEF Results
      <4>2. "sigpub" \notin Secrets /\ "sigsec" \in Wiped(cmd[p])
        BY <3>4 DEF Secrets, Wiped
      <4> QED
        BY <4>1, <4>2, <2>3
    <3>5. CASE cmd[p] = "sign"
      <4>1. \E x : m = [mem[p] EXCEPT !["sig"] = x]
        BY <1>5, <3>5 DEF Results
      <4> QED
        BY <3>5, <4>1, <2>4 DEF Secrets, Wiped
    <3>6. CASE cmd[p] = "verify"
      <4>1. m = mem[p]
        BY <1>5, <3>6 DEF Results
      <4> QED
        BY <1>1, <1>3, <2>1, <4>1 DEF Fits, Running
    <3> QED
      BY <2>1, <3>1, <3>2, <3>3, <3>4, <3>5, <3>6 DEF KemCommands, SigCommands
  <2>6. cmd' = [cmd EXCEPT ![p] = cmd[p]]
    BY <1>1, InProgress
  <2> QED
    BY <1>2, <1>5, <2>5, <2>6, Refits
<1> QED
  BY <1>4, <1>5 DEF Call

LEMMA BuffersFinish ==
  ASSUME ControlOK, BuffersOK, NEW p \in Procs, Finish(p)
  PROVE  BuffersOK'
<1> DEFINE m == Wipe(mem[p], Wiped(cmd[p]))
<1>1. pc[p] = "done" /\ pc[p] \in Running /\ cmd' = cmd
  BY DEF Finish, Running
<1>2. pc' = [pc EXCEPT ![p] = "exited"] /\ mem' = [mem EXCEPT ![p] = m]
  BY DEF Finish, Goto
<1>3. Fits(pc[p], mem[p], cmd[p]) /\ cmd' = [cmd EXCEPT ![p] = cmd[p]]
  BY <1>1, InProgress
<1>4. \A r \in Secrets : m[r] \in {Blank, Zeroed}
  BY <1>1, <1>3 DEF Fits, Wipe, Secrets, Roles
<1>5. Fits("exited", m, cmd[p])
  BY <1>4 DEF Fits, Wipe, Running
<1> QED
  BY <1>2, <1>3, <1>5, Refits

LEMMA BuffersStep == ControlOK /\ BuffersOK /\ [Next]_vars => BuffersOK'
<1> SUFFICES ASSUME ControlOK, BuffersOK, [Next]_vars PROVE BuffersOK'
  OBVIOUS
<1>1. ASSUME NEW p \in Procs, pc[p] \in Running, UNCHANGED <<mem, cmd>>,
             \E where \in {"read", "call", "open", "write", "close", "done", "killed"} : Goto(p, where)
      PROVE  BuffersOK'
  BY <1>1, KeepsBuffers DEF Goto, Running
<1>2. ASSUME NEW p \in Procs, NEW c \in Commands, NEW b \in Selections(c), Start(p, c, b)
      PROVE  BuffersOK'
  BY <1>2, BuffersStart
<1>3. ASSUME NEW p \in Procs, Alloc(p) PROVE BuffersOK'
  BY <1>1, <1>3 DEF Alloc, Fail, Running
<1>4. ASSUME NEW p \in Procs, Open(p) \/ Write(p) \/ Close(p) PROVE BuffersOK'
  BY <1>1, <1>4 DEF Open, Write, Close, Fail, Running
<1>5. ASSUME NEW p \in Procs, Step(p) PROVE BuffersOK'
  BY <1>3, <1>4, <1>5, BuffersRead, BuffersCall, BuffersFinish DEF Step
<1>6. ASSUME NEW p \in Procs, Abort(p) PROVE BuffersOK'
  BY <1>1, <1>6 DEF Abort, Running
<1>7. ASSUME NEW p \in Procs, Kill(p) PROVE BuffersOK'
  BY <1>1, <1>7, ControlParts DEF Kill, Places
<1>8. ASSUME NEW m \in Messages, ChangeMessage(m) PROVE BuffersOK'
  BY <1>8 DEF ChangeMessage, BuffersOK
<1>9. CASE UNCHANGED vars
  BY <1>9 DEF vars, BuffersOK
<1> QED
  BY <1>2, <1>5, <1>6, <1>7, <1>8, <1>9 DEF Next

(* No command returns, on any path of any handler, with a secret in the    *)
(* memory it frees: every buffer that can hold one is among those the      *)
(* handler's end wipes, and no path goes around that end.                  *)
THEOREM NoSecretLeft == Spec => []SecretsWiped
<1>1. Init => BuffersOK
  BY DEF Init, BuffersOK, NoMemory, Running
<1>2. BuffersOK => SecretsWiped
  BY DEF BuffersOK, SecretsWiped
<1> QED
  BY <1>1, <1>2, ControlInit, ControlStep, BuffersStep, PTL DEF Spec
-----------------------------------------------------------------------------
(* What a process has in its buffers before it opens a file: none of its   *)
(* inputs, and later none of its outputs, is in the set bad, of things     *)
(* that no read returns and no library call makes.                         *)
Unmade == {Blank, Garbled}

Held(bad, place, i, m, c) ==
    /\ place = "read" => \A j \in 1..Len(Reads(c)) : j < i => m[Reads(c)[j]] \notin bad
    /\ place \in {"call"} \cup Writing => \A j \in 1..Len(Reads(c)) : m[Reads(c)[j]] \notin bad
    /\ place \in Writing => \A j \in 1..Len(Writes(c)) : m[Writes(c)[j]] \notin bad

HeldInv(bad) == \A p \in Procs : Held(bad, pc[p], at[p], mem[p], cmd[p])

(* The scheme's artifacts are neither blank nor garbled. *)
LEMMA ArtifactsMade ==
  /\ \A b, r : K!PublicKey(b, r) \notin Unmade /\ K!SecretKey(b, r) \notin Unmade
  /\ \A b, k, n : K!Ciphertext(b, k, n) \notin Unmade /\ K!Secret(b, k, n) \notin Unmade
  /\ K!RejectKey \notin Unmade
  /\ \A b, r : S!PublicKey(b, r) \notin Unmade /\ S!SecretKey(b, r) \notin Unmade
  /\ \A b, k, m : S!Signature(b, k, m) \notin Unmade
BY DEF Unmade, Blank, Garbled, K!PublicKey, K!SecretKey, K!Ciphertext, K!Secret, K!RejectKey,
       S!PublicKey, S!SecretKey, S!Signature

(* A library call fills the buffers its command writes, and no other. *)
LEMMA ResultsMade ==
  ASSUME ControlOK, BuffersOK, NEW p \in Procs, NEW m \in Results(p)
  PROVE  /\ DOMAIN m = Roles
         /\ \A r \in Roles : m[r] = mem[p][r] \/ m[r] \notin Unmade
         /\ \A j \in 1..Len(Writes(cmd[p])) : m[Writes(cmd[p])[j]] \notin Unmade
<1>a. DOMAIN mem[p] = Roles /\ cmd[p] \in KemCommands \cup SigCommands
  BY ControlParts DEF BuffersOK
<1> DEFINE Goal == /\ DOMAIN m = Roles
                   /\ \A r \in Roles : m[r] = mem[p][r] \/ m[r] \notin Unmade
                   /\ \A j \in 1..Len(Writes(cmd[p])) : m[Writes(cmd[p])[j]] \notin Unmade
<1>b. ASSUME NEW o \in Roles, NEW x, x \notin Unmade, m = [mem[p] EXCEPT ![o] = x],
             \A j \in 1..Len(Writes(cmd[p])) : Writes(cmd[p])[j] = o
      PROVE  Goal
  BY <1>a, <1>b
<1>c. ASSUME NEW o \in Roles, NEW x, x \notin Unmade, NEW q \in Roles, NEW y, y \notin Unmade,
             m = [mem[p] EXCEPT ![o] = x, ![q] = y],
             \A j \in 1..Len(Writes(cmd[p])) : Writes(cmd[p])[j] \in {o, q}
      PROVE  Goal
  BY <1>a, <1>c
<1>d. /\ "pub" \in Roles /\ "sec" \in Roles /\ "ct" \in Roles /\ "ss" \in Roles /\ "dss" \in Roles
      /\ "sigpub" \in Roles /\ "sigsec" \in Roles /\ "sig" \in Roles
  BY DEF Roles
<1>1. CASE cmd[p] = "keygen"
  <2>1. PICK r \in Entropy : m = [mem[p] EXCEPT !["pub"] = K!PublicKey(be[p], r),
                                                !["sec"] = K!SecretKey(be[p], r)]
    BY <1>1 DEF Results
  <2>2. \A j \in 1..Len(Writes(cmd[p])) : Writes(cmd[p])[j] \in {"pub", "sec"}
    BY <1>1 DEF Writes
  <2> QED
    BY <1>c, <1>d, <2>1, <2>2, ArtifactsMade
<1>2. CASE cmd[p] = "encaps"
  <2>1. PICK n \in Entropy : m = [mem[p] EXCEPT !["ct"] = K!Ciphertext(be[p], mem[p]["pub"], n),
                                                !["ss"] = K!Secret(be[p], mem[p]["pub"], n)]
    BY <1>2 DEF Results
  <2>2. \A j \in 1..Len(Writes(cmd[p])) : Writes(cmd[p])[j] \in {"ct", "ss"}
    BY <1>2 DEF Writes
  <2> QED
    BY <1>c, <1>d, <2>1, <2>2, ArtifactsMade
<1>3. CASE cmd[p] = "decaps"
  <2>1. PICK x \in {K!SecretIn(mem[p]["ct"]), K!RejectKey} : m = [mem[p] EXCEPT !["dss"] = x]
    BY <1>3 DEF Results
  <2>2. \A j \in 1..Len(Writes(cmd[p])) : Writes(cmd[p])[j] = "dss"
    BY <1>3 DEF Writes
  <2>3. x \notin Unmade
    BY <2>1, ArtifactsMade DEF K!SecretIn
  <2> QED
    BY <1>b, <1>d, <2>1, <2>2, <2>3
<1>4. CASE cmd[p] = "sig-keygen"
  <2>1. PICK r \in Entropy : m = [mem[p] EXCEPT !["sigpub"] = S!PublicKey(be[p], r),
                                                !["sigsec"] = S!SecretKey(be[p], r)]
    BY <1>4 DEF Results
  <2>2. \A j \in 1..Len(Writes(cmd[p])) : Writes(cmd[p])[j] \in {"sigpub", "sigsec"}
    BY <1>4 DEF Writes
  <2> QED
    BY <1>c, <1>d, <2>1, <2>2, ArtifactsMade
<1>5. CASE cmd[p] = "sign"
  <2>1. \E k : m = [mem[p] EXCEPT !["sig"] = S!Signature(be[p], k, mem[p]["msg"])]
    BY <1>5 DEF Results
  <2>2. \A j \in 1..Len(Writes(cmd[p])) : Writes(cmd[p])[j] = "sig"
    BY <1>5 DEF Writes
  <2> QED
    BY <1>b, <1>d, <2>1, <2>2, ArtifactsMade
<1>6. CASE cmd[p] = "verify"
  <2>1. m = mem[p] /\ Len(Writes(cmd[p])) = 0
    BY <1>6 DEF Results, Writes
  <2> QED
    BY <1>a, <2>1
<1> QED
  BY <1>a, <1>1, <1>2, <1>3, <1>4, <1>5, <1>6 DEF KemCommands, SigCommands

(* A step of one process leaves the others as they are. *)
Elsewhere(p) ==
    \A q \in Procs \ {p} :
       /\ pc'[q] = pc[q] /\ cmd'[q] = cmd[q] /\ be'[q] = be[q] /\ mem'[q] = mem[q]
       /\ at'[q] = at[q] /\ code'[q] = code[q] /\ lost'[q] = lost[q]

LEMMA StepsApart ==
  ASSUME NEW p \in Procs, ControlOK, BuffersOK,
         \/ \E c \in Commands : \E b \in Selections(c) : Start(p, c, b)
         \/ Step(p) \/ Abort(p) \/ Kill(p)
  PROVE  Elsewhere(p)
<1>1. /\ pc \in [Procs -> Places] /\ cmd \in [Procs -> Commands]
      /\ be \in [Procs -> Chosens] /\ at \in [Procs -> 1 .. 3]
      /\ code \in [Procs -> Codes] /\ lost \in [Procs -> BOOLEAN]
      /\ DOMAIN mem = Procs
  BY ControlParts DEF BuffersOK
<1>2. ASSUME NEW c \in Commands, NEW b \in Selections(c), Start(p, c, b) PROVE Elsewhere(p)
  BY <1>1, <1>2 DEF Start, Goto, Elsewhere
<1>3. CASE Alloc(p)
  BY <1>1, <1>3 DEF Alloc, Goto, Fail, Elsewhere
<1>4. CASE ReadInput(p)
  <2>1. \A q \in Procs \ {p} : mem'[q] = mem[q]
    BY <1>1, <1>4 DEF ReadInput
  <2>2. \A q \in Procs \ {p} : pc'[q] = pc[q] /\ at'[q] = at[q] /\ code'[q] = code[q]
    BY <1>1, <1>4 DEF ReadInput, NextInput, Fail, Goto
  <2> QED
    BY <1>4, <2>1, <2>2 DEF ReadInput, Elsewhere
<1>5. CASE Call(p)
  <2>1. \A q \in Procs \ {p} : mem'[q] = mem[q]
    BY <1>1, <1>5 DEF Call
  <2>2. \A q \in Procs \ {p} : pc'[q] = pc[q] /\ code'[q] = code[q]
    BY <1>1, <1>5 DEF Call, Fail, Goto
  <2> QED
    BY <1>5, <2>1, <2>2 DEF Call, Elsewhere
<1>6. CASE Open(p) \/ Write(p)
  BY <1>1, <1>6 DEF Open, Write, Goto, Fail, Elsewhere
<1>7. CASE Close(p)
  BY <1>1, <1>7 DEF Close, Goto, Elsewhere
<1>8. CASE Finish(p) \/ Abort(p) \/ Kill(p)
  BY <1>1, <1>8 DEF Finish, Abort, Kill, Goto, Elsewhere
<1> QED
  BY <1>2, <1>3, <1>4, <1>5, <1>6, <1>7, <1>8 DEF Step

LEMMA HeldMoves ==
  ASSUME NEW bad, HeldInv(bad), NEW p \in Procs, Elsewhere(p),
         Held(bad, pc'[p], at'[p], mem'[p], cmd'[p])
  PROVE  HeldInv(bad)'
BY DEF HeldInv, Held, Elsewhere

(* What a process reads next is one of its command's inputs. *)
LEMMA ReadingFacts ==
  ASSUME ControlOK, BuffersOK, NEW p \in Procs, pc[p] = "read"
  PROVE  /\ at[p] \in 1..Len(Reads(cmd[p])) /\ Len(Reads(cmd[p])) \in 0..3
         /\ \A j \in 1..Len(Reads(cmd[p])) : Reads(cmd[p])[j] \in Roles
         /\ \A v : [mem EXCEPT ![p][Reads(cmd[p])[at[p]]] = v][p]
                     = [mem[p] EXCEPT ![Reads(cmd[p])[at[p]]] = v]
         /\ DOMAIN mem[p] = Roles
<1>1. at[p] \in 1..3 /\ at[p] <= Len(Reads(cmd[p])) /\ cmd[p] \in KemCommands \cup SigCommands
  BY ControlParts DEF ControlOK
<1>2. Len(Reads(cmd[p])) \in 0..3 /\ \A j \in 1..Len(Reads(cmd[p])) : Reads(cmd[p])[j] \in Roles
  BY <1>1, LengthsOfCommands
<1>3. DOMAIN mem = Procs /\ DOMAIN mem[p] = Roles
  BY DEF BuffersOK
<1> QED
  BY <1>1, <1>2, <1>3

(* A read that succeeds stores something that is not bad. *)
LEMMA HeldRead ==
  ASSUME ControlOK, BuffersOK, NEW bad, HeldInv(bad), NEW p \in Procs, ReadInput(p),
         Null \notin bad,
         Readable(p, Reads(cmd[p])[at[p]]) => Meaning(p, Reads(cmd[p])[at[p]]) \notin bad
  PROVE  HeldInv(bad)'
<1> DEFINE c == cmd[p]
           i == at[p]
           n == Len(Reads(c))
           role == Reads(c)[i]
<1>1. pc[p] = "read" /\ cmd' = cmd
  BY DEF ReadInput
<1>2. i \in 1..n /\ n \in 0..3 /\ DOMAIN mem = Procs /\ DOMAIN mem[p] = Roles
      /\ (\A j \in 1..n : Reads(c)[j] \in Roles)
      /\ at \in [Procs -> 1..3] /\ pc \in [Procs -> Places]
  BY <1>1, ReadingFacts, ControlParts DEF BuffersOK
<1>3. CASE Fail(p)
  <2>1. pc'[p] = "done"
    BY <1>2, <1>3 DEF Fail, Goto
  <2>2. Held(bad, pc'[p], at'[p], mem'[p], cmd'[p])
    BY <2>1 DEF Held, Writing
  <2> QED
    BY <2>2, HeldMoves, StepsApart DEF Step
<1>4. CASE ~Fail(p)
  <2>1. PICK v : v \notin bad /\ mem' = [mem EXCEPT ![p][role] = v] /\ NextInput(p)
    BY <1>4 DEF ReadInput
  <2>2. mem'[p] = [mem[p] EXCEPT ![role] = v]
    BY <1>2, <2>1
  <2>3. \A j \in 1..n : mem'[p][Reads(c)[j]] = mem[p][Reads(c)[j]] \/ mem'[p][Reads(c)[j]] = v
    BY <1>2, <2>2
  <2>4. \A j \in 1..n : j < i => mem[p][Reads(c)[j]] \notin bad
    BY <1>1 DEF HeldInv, Held
  <2>5. mem'[p][Reads(c)[i]] \notin bad
    BY <1>2, <2>1, <2>2
  <2>6. \A j \in 1..n : j <= i => mem'[p][Reads(c)[j]] \notin bad
    BY <1>2, <2>1, <2>3, <2>4, <2>5
  <2>7. \/ i = n /\ pc'[p] = "call"
        \/ i # n /\ pc'[p] = "read" /\ at'[p] = i + 1
    BY <1>1, <1>2, <2>1 DEF NextInput, Goto
  <2> HIDE DEF c, i, n, role
  <2>8. \/ pc'[p] = "call" /\ \A j \in 1..n : mem'[p][Reads(c)[j]] \notin bad
        \/ pc'[p] = "read" /\ \A j \in 1..n : j < at'[p] => mem'[p][Reads(c)[j]] \notin bad
    BY <1>2, <2>6, <2>7
  <2>9. Held(bad, pc'[p], at'[p], mem'[p], c)
    BY <2>8 DEF Held, Writing, n
  <2>10. cmd'[p] = c
    BY <1>1 DEF c
  <2> QED
    BY <2>9, <2>10, HeldMoves, StepsApart DEF Step
<1> QED
  BY <1>3, <1>4

LEMMA HeldCall ==
  ASSUME ControlOK, BuffersOK, NEW bad \in SUBSET Unmade, HeldInv(bad), NEW p \in Procs, Call(p)
  PROVE  HeldInv(bad)'
<1> DEFINE c == cmd[p]
<1>1. pc[p] = "call" /\ cmd' = cmd /\ pc \in [Procs -> Places] /\ DOMAIN mem = Procs
  BY ControlParts DEF Call, BuffersOK
<1>2. CASE pc'[p] = "done"
  <2>1. Held(bad, pc'[p], at'[p], mem'[p], cmd'[p])
    BY <1>2 DEF Held, Writing
  <2> QED
    BY <2>1, HeldMoves, StepsApart DEF Step
<1>3. CASE pc'[p] # "done"
  <2>1. PICK m \in Results(p) : mem' = [mem EXCEPT ![p] = m]
    BY <1>1, <1>3 DEF Call, Fail, Goto
  <2>2. mem'[p] = m
    BY <1>1, <2>1
  <2>3. /\ \A r \in Roles : m[r] = mem[p][r] \/ m[r] \notin Unmade
        /\ \A j \in 1..Len(Writes(c)) : m[Writes(c)[j]] \notin Unmade
    BY ResultsMade
  <2>4. c \in KemCommands \cup SigCommands
    BY ControlParts
  <2>5. \A j \in 1..Len(Reads(c)) : Reads(c)[j] \in Roles /\ mem[p][Reads(c)[j]] \notin bad
    BY <1>1, <2>4, LengthsOfCommands DEF HeldInv, Held
  <2>6. \A j \in 1..Len(Reads(c)) : m[Reads(c)[j]] \notin bad
    BY <2>3, <2>5
  <2>7. \A j \in 1..Len(Writes(c)) : m[Writes(c)[j]] \notin bad
    BY <2>3
  <2>8. pc'[p] = "open"
    BY <1>1, <1>3 DEF Call, Fail, Goto
  <2> HIDE DEF c
  <2>9. Held(bad, pc'[p], at'[p], m, c)
    BY <2>6, <2>7, <2>8 DEF Held
  <2>10. cmd'[p] = c
    BY <1>1 DEF c
  <2> QED
    BY <2>2, <2>9, <2>10, HeldMoves, StepsApart DEF Step
<1> QED
  BY <1>2, <1>3

(* The steps that touch no buffer of a process in progress. *)
LEMMA HeldStays ==
  ASSUME NEW bad, HeldInv(bad), NEW p \in Procs, Elsewhere(p), mem'[p] = mem[p], cmd'[p] = cmd[p],
         pc[p] \in Writing \/ pc'[p] \notin {"read", "call"} \cup Writing,
         pc'[p] # "read", pc'[p] # "call"
  PROVE  HeldInv(bad)'
<1>1. Held(bad, pc[p], at[p], mem[p], cmd[p])
  BY DEF HeldInv
<1>2. Held(bad, pc'[p], at'[p], mem'[p], cmd'[p])
  BY <1>1 DEF Held
<1> QED
  BY <1>2, HeldMoves

LEMMA HeldStep ==
  ASSUME ControlOK, BuffersOK, NEW bad \in SUBSET Unmade, HeldInv(bad), [Next]_vars,
         \A p \in Procs : pc[p] = "read" /\ Readable(p, Reads(cmd[p])[at[p]]) =>
             Meaning(p, Reads(cmd[p])[at[p]]) \notin bad
  PROVE  HeldInv(bad)'
<1>a. Null \notin bad
  BY DEF Unmade, Null, Blank, Garbled
<1>b. pc \in [Procs -> Places] /\ DOMAIN mem = Procs /\ at \in [Procs -> 1..3]
  BY DEF ControlOK, TypeOK, Places, Running, BuffersOK
<1>1. ASSUME NEW p \in Procs, NEW c \in Commands, NEW b \in Selections(c), Start(p, c, b)
      PROVE  HeldInv(bad)'
  <2>1. pc'[p] \in {"exited", "alloc"}
    BY <1>b, <1>1 DEF Start, Goto
  <2>2. Held(bad, pc'[p], at'[p], mem'[p], cmd'[p])
    BY <2>1 DEF Held, Writing
  <2> QED
    BY <1>1, <2>2, HeldMoves, StepsApart
<1>2. ASSUME NEW p \in Procs, Alloc(p) PROVE HeldInv(bad)'
  <2>1. Elsewhere(p)
    BY <1>2, StepsApart DEF Step
  <2>2. cmd[p] \in KemCommands \cup SigCommands /\ at'[p] = 1 /\ cmd'[p] = cmd[p]
    BY <1>2, ControlParts DEF Alloc, ControlOK
  <2>3. pc'[p] = "done" \/ pc'[p] = "read" \/ (pc'[p] = "call" /\ Len(Reads(cmd[p])) = 0)
    BY <1>b, <1>2, <2>2, LengthsOfCommands DEF Alloc, Fail, Goto
  <2>4. Held(bad, pc'[p], at'[p], mem'[p], cmd'[p])
    BY <2>2, <2>3 DEF Held, Writing
  <2> QED
    BY <2>1, <2>4, HeldMoves
<1>3. ASSUME NEW p \in Procs, ReadInput(p) PROVE HeldInv(bad)'
  BY <1>a, <1>3, HeldRead DEF ReadInput
<1>4. ASSUME NEW p \in Procs, Call(p) PROVE HeldInv(bad)'
  BY <1>4, HeldCall
<1>5. ASSUME NEW p \in Procs, Open(p) \/ Write(p) \/ Close(p) PROVE HeldInv(bad)'
  <2>1. Elsewhere(p)
    BY <1>5, StepsApart DEF Step
  <2>2. pc[p] \in Writing /\ pc'[p] \in Writing \cup {"done"} /\ mem' = mem /\ cmd' = cmd
    BY <1>b, <1>5 DEF Open, Write, Close, Fail, Goto, Writing
  <2> QED
    BY <2>1, <2>2, HeldStays DEF Writing
<1>6. ASSUME NEW p \in Procs, Finish(p) PROVE HeldInv(bad)'
  <2>1. pc'[p] = "exited"
    BY <1>b, <1>6 DEF Finish, Goto
  <2>2. Held(bad, pc'[p], at'[p], mem'[p], cmd'[p])
    BY <2>1 DEF Held, Writing
  <2> QED
    BY <1>6, <2>2, HeldMoves, StepsApart DEF Step
<1>7. ASSUME NEW p \in Procs, Abort(p) \/ Kill(p) PROVE HeldInv(bad)'
  <2>1. pc'[p] = "killed"
    BY <1>b, <1>7 DEF Abort, Kill, Goto
  <2>2. Held(bad, pc'[p], at'[p], mem'[p], cmd'[p])
    BY <2>1 DEF Held, Writing
  <2> QED
    BY <1>7, <2>2, HeldMoves, StepsApart
<1>8. CASE UNCHANGED <<pc, at, mem, cmd>>
  BY <1>8 DEF HeldInv
<1>9. ASSUME NEW m \in Messages, ChangeMessage(m) PROVE HeldInv(bad)'
  BY <1>8, <1>9 DEF ChangeMessage
<1> QED
  BY <1>1, <1>2, <1>3, <1>4, <1>5, <1>6, <1>7, <1>8, <1>9 DEF Next, Step, vars

(* Whatever a file holds, a read that succeeds leaves something in the     *)
(* buffer.                                                                 *)
LEMMA MeaningNotBlank ==
  ASSUME NEW p, NEW role \in Roles
  PROVE  Meaning(p, role) # Blank
<1>1. Garbled # Blank /\ EmptyMessage # Blank /\ \A b, r : K!PublicKey(b, r) # Blank
  BY DEF Garbled, EmptyMessage, Blank, K!PublicKey
<1>2. Blank[1] = "blank" /\ Kind(role) # "blank"
  BY DEF Blank, Kind, Roles
<1>3. \A v : v[1] = Kind(role) => v # Blank
  BY <1>2
<1> QED
  BY <1>1, <1>3 DEF Meaning

(* No output file is touched by a process that has not read all its inputs *)
(* and made what it is about to write, for any layout of the files, any    *)
(* processes on them, any failures and kills.                              *)
THEOREM OutputsKept == Spec => NoEarlyTruncation
<1> DEFINE bad == {Blank}
           Touched == \A f \in Roles \ {path["msg"]} : file'[f] # file[f] =>
                         \E p \in Procs : /\ pc[p] \in Writing
                                          /\ Target(p) = f
                                          /\ mem[p][Output(p)] # Blank
                                          /\ \A i \in 1..Len(Reads(cmd[p])) :
                                                mem[p][Reads(cmd[p])[i]] # Blank
<1>1. Init => BuffersOK /\ HeldInv(bad)
  BY DEF Init, BuffersOK, NoMemory, Running, HeldInv, Held, Writing
<1>2. ControlOK /\ BuffersOK /\ HeldInv(bad) /\ [Next]_vars => HeldInv(bad)'
  BY ReadingFacts, HeldStep, MeaningNotBlank DEF Unmade
<1>3. ControlOK /\ HeldInv(bad) /\ [Next]_vars => [Touched]_vars
  <2> SUFFICES ASSUME ControlOK, HeldInv(bad), Next PROVE Touched
    BY DEF vars
  <2>1. ASSUME UNCHANGED file PROVE Touched
    BY <2>1
  <2>2. ASSUME NEW p \in Procs, Open(p) \/ Write(p) \/ Close(p) PROVE Touched
    <3>1. pc[p] \in Writing
      BY <2>2 DEF Open, Write, Close, Writing
    <3>a. UNCHANGED file \/ \E v : file' = [file EXCEPT ![Target(p)] = v]
      BY <2>2 DEF Open, Write, Close, WriteOut, WriteOutPartly
    <3>2. \A f \in Roles : file'[f] # file[f] => f = Target(p)
      BY <3>a, ControlParts
    <3>3. at[p] \in 1..Len(Writes(cmd[p]))
      BY <3>1, WritingFacts
    <3>4. Held(bad, pc[p], at[p], mem[p], cmd[p])
      BY DEF HeldInv
    <3>5. mem[p][Output(p)] # Blank
      BY <3>1, <3>3, <3>4 DEF Held, Output
    <3>6. \A i \in 1..Len(Reads(cmd[p])) : mem[p][Reads(cmd[p])[i]] # Blank
      BY <3>1, <3>4 DEF Held
    <3> QED
      BY <3>1, <3>2, <3>5, <3>6
  <2>3. ASSUME NEW p \in Procs, Alloc(p) \/ ReadInput(p) \/ Call(p) \/ Finish(p) \/ Abort(p) \/ Kill(p)
        PROVE  Touched
    BY <2>1, <2>3 DEF Alloc, ReadInput, Call, Finish, Abort, Kill
  <2>4. ASSUME NEW p \in Procs, NEW c \in Commands, NEW b \in Selections(c), Start(p, c, b)
        PROVE  Touched
    BY <2>1, <2>4 DEF Start
  <2>5. ASSUME NEW m \in Messages, ChangeMessage(m) PROVE Touched
    BY <2>5, ControlParts DEF ChangeMessage
  <2> QED
    BY <2>2, <2>3, <2>4, <2>5 DEF Next, Step
<1>4. NoEarlyTruncation <=> [][Touched]_vars
  BY PTL DEF NoEarlyTruncation, Writing
<1> QED
  BY <1>1, <1>2, <1>3, <1>4, ControlInit, ControlStep, BuffersStep, PTL DEF Spec
-----------------------------------------------------------------------------
(* Processes that share the files. *)

(* What a reader takes for the artifact of a role. *)
ReadByKind == {"pub", "sec", "ct", "sigpub", "sigsec", "sig"}

Shaped(role, v) == v \notin Unmade /\ (role \in ReadByKind => v[1] = Kind(role))

(* The conditions of NothingTorn. *)
Quiet == faults = 0 /\ Apart /\ ~MlkemRef /\ ~MldsaRef

(* Its strengthening: every file is empty or one dummy artifact of its     *)
(* role; the message is there; and a process that writes is a dummy's and  *)
(* holds what it writes.                                                   *)
FilesWhole ==
    \A r \in Roles \ {"msg"} :
       Content(r) = NoFile \/ (Shaped(r, Content(r).val) /\ Content(r).len = Length(r, "DUMMY"))

MessageThere == Content("msg").val \notin Unmade

Ready(b, place, m, c) ==
    /\ b \in {Usage, "DUMMY", "PLACEHOLDER"}
    /\ place \in Writing => b = "DUMMY" /\ \A j \in 1..Len(Writes(c)) : Shaped(Writes(c)[j], m[Writes(c)[j]])

WritersReady == \A p \in Procs : Ready(be[p], pc[p], mem[p], cmd[p])

TornInv ==
    /\ path \in Layouts
    /\ Quiet => FilesWhole /\ MessageThere /\ WritersReady /\ HeldInv(Unmade)

LEMMA QuietBefore ==
  ASSUME ControlOK, [Next]_vars, Quiet'
  PROVE  Quiet /\ path' = path
<1>1. path' = path
  BY ZenonT(30) DEF Next, Step, Start, Alloc, ReadInput, Call, Open, Write, Close, Finish, Abort, Kill,
         ChangeMessage, vars
<1>2. faults \in Nat
  BY CliAssumption DEF ControlOK, TypeOK
<1>3. faults' = faults \/ faults' = faults + 1
  <2>1. ASSUME NEW p \in Procs, Step(p) PROVE faults' = faults \/ faults' = faults + 1
    <3>1. NoFault => faults' = faults
      BY DEF NoFault
    <3>2. Fault(p) => faults' = faults + 1
      BY DEF Fault
    <3>3. Alloc(p) \/ Open(p) \/ Write(p) \/ Close(p) => NoFault \/ Fault(p)
      BY DEF Alloc, Open, Write, Close
    <3>4. ReadInput(p) => NoFault \/ Fault(p)
      BY DEF ReadInput
    <3>5. Call(p) \/ Finish(p) => faults' = faults
      BY DEF Call, Finish
    <3> QED
      BY <2>1, <3>1, <3>2, <3>3, <3>4, <3>5 DEF Step
  <2>2. ASSUME NEW p \in Procs, NEW c, NEW b, Start(p, c, b) PROVE faults' = faults
    BY <2>2 DEF Start
  <2>3. ASSUME NEW p \in Procs, Abort(p) \/ Kill(p) PROVE faults' = faults + 1
    BY <2>3 DEF Abort, Kill
  <2>4. ASSUME NEW m, ChangeMessage(m) PROVE faults' = faults
    BY <2>4 DEF ChangeMessage
  <2> QED
    BY <2>1, <2>2, <2>3, <2>4 DEF Next, vars
<1> QED
  BY <1>1, <1>2, <1>3 DEF Quiet, Apart

(* Without a fault, a selection that starts is the dummy, or a KEM without *)
(* backend.                                                                *)
LEMMA QuietSelections ==
  ASSUME ~MlkemRef, ~MldsaRef, NEW c, NEW b \in Selections(c)
  PROVE  b \in {Usage, "DUMMY", "PLACEHOLDER"}
BY DEF Selections, Chosen, Usage

(* In shape, a library call's outputs are those of their roles. *)
LEMMA ResultsShaped ==
  ASSUME ControlOK, BuffersOK, NEW p \in Procs, NEW m \in Results(p)
  PROVE  \A j \in 1..Len(Writes(cmd[p])) : Shaped(Writes(cmd[p])[j], m[Writes(cmd[p])[j]])
<1>a. DOMAIN mem[p] = Roles /\ cmd[p] \in KemCommands \cup SigCommands
  BY ControlParts DEF BuffersOK
<1>b. \A j \in 1..Len(Writes(cmd[p])) : m[Writes(cmd[p])[j]] \notin Unmade
  BY ResultsMade
<1>c. /\ "pub" \in Roles /\ "sec" \in Roles /\ "ct" \in Roles /\ "ss" \in Roles
      /\ "sigpub" \in Roles /\ "sigsec" \in Roles /\ "sig" \in Roles
      /\ "pub" # "sec" /\ "ct" # "ss" /\ "sigpub" # "sigsec"
  BY DEF Roles
<1>d. /\ \A b, r : K!PublicKey(b, r)[1] = "pk" /\ K!SecretKey(b, r)[1] = "sk"
      /\ \A b, k, n : K!Ciphertext(b, k, n)[1] = "ct"
      /\ \A b, r : S!PublicKey(b, r)[1] = "pk" /\ S!SecretKey(b, r)[1] = "sk"
      /\ \A b, k, x : S!Signature(b, k, x)[1] = "sig"
  BY DEF K!PublicKey, K!SecretKey, K!Ciphertext, S!PublicKey, S!SecretKey, S!Signature
<1>e. /\ Kind("pub") = "pk" /\ Kind("sec") = "sk" /\ Kind("ct") = "ct"
      /\ Kind("sigpub") = "pk" /\ Kind("sigsec") = "sk" /\ Kind("sig") = "sig"
  BY DEF Kind
<1> SUFFICES ASSUME NEW j \in 1..Len(Writes(cmd[p])), Writes(cmd[p])[j] \in ReadByKind
             PROVE  m[Writes(cmd[p])[j]][1] = Kind(Writes(cmd[p])[j])
  BY <1>b DEF Shaped
<1> DEFINE o == Writes(cmd[p])[j]
<1>1. CASE cmd[p] = "keygen"
  <2>1. \E r : m["pub"] = K!PublicKey(be[p], r) /\ m["sec"] = K!SecretKey(be[p], r)
    BY <1>1, <1>a, <1>c DEF Results
  <2>2. o \in {"pub", "sec"}
    BY <1>1 DEF Writes
  <2> QED
    BY <1>d, <1>e, <2>1, <2>2
<1>2. CASE cmd[p] = "encaps"
  <2>1. \E k, n : m["ct"] = K!Ciphertext(be[p], k, n)
    BY <1>2, <1>a, <1>c DEF Results
  <2>2. o = "ct"
    BY <1>2 DEF Writes, ReadByKind
  <2> QED
    BY <1>d, <1>e, <2>1, <2>2
<1>3. CASE cmd[p] = "sig-keygen"
  <2>1. \E r : m["sigpub"] = S!PublicKey(be[p], r) /\ m["sigsec"] = S!SecretKey(be[p], r)
    BY <1>3, <1>a, <1>c DEF Results
  <2>2. o \in {"sigpub", "sigsec"}
    BY <1>3 DEF Writes
  <2> QED
    BY <1>d, <1>e, <2>1, <2>2
<1>4. CASE cmd[p] = "sign"
  <2>1. \E k, x : m["sig"] = S!Signature(be[p], k, x)
    BY <1>4, <1>a, <1>c DEF Results
  <2>2. o = "sig"
    BY <1>4 DEF Writes
  <2> QED
    BY <1>d, <1>e, <2>1, <2>2
<1>5. CASE cmd[p] \in {"decaps", "verify"}
  BY <1>5 DEF Writes, ReadByKind
<1> QED
  BY <1>a, <1>1, <1>2, <1>3, <1>4, <1>5 DEF KemCommands, SigCommands

(* No reader of a quiet run finds a torn file. *)
LEMMA QuietReads ==
  ASSUME ControlOK, FilesWhole, MessageThere, NEW p \in Procs, pc[p] = "read",
         Readable(p, Reads(cmd[p])[at[p]])
  PROVE  Meaning(p, Reads(cmd[p])[at[p]]) \notin Unmade
<1> DEFINE role == Reads(cmd[p])[at[p]]
<1>1. cmd[p] \in KemCommands \cup SigCommands /\ at[p] \in 1..3 /\ at[p] <= Len(Reads(cmd[p]))
  BY ControlParts DEF ControlOK
<1>2. at[p] \in 1..Len(Reads(cmd[p]))
  <2>1. Len(Reads(cmd[p])) \in 0..3
    BY <1>1, LengthsOfCommands
  <2> QED
    BY <1>1, <2>1
<1>3. role \in ReadByKind \cup {"msg"}
  BY <1>1, <1>2 DEF Reads, ReadByKind, KemCommands, SigCommands
<1>4. EmptyMessage \notin Unmade
  BY DEF EmptyMessage, Unmade, Blank, Garbled
<1>5. CASE role = "msg"
  BY <1>4, <1>5 DEF Meaning, MessageThere
<1>6. CASE role \in ReadByKind
  <2>1. role \in Roles \ {"msg"}
    BY <1>6 DEF ReadByKind, Roles
  <2>2. Length(role, be[p]) \in Nat \ {0}
    BY <2>1, LengthPositive
  <2>3. Content(role) # NoFile
    BY <2>2 DEF Readable, NoFile
  <2>4. Shaped(role, Content(role).val)
    BY <2>1, <2>3 DEF FilesWhole
  <2> QED
    BY <1>6, <2>1, <2>4 DEF Meaning, Shaped
<1> QED
  BY <1>3, <1>5, <1>6

LEMMA ReadyMoves ==
  ASSUME WritersReady, NEW p \in Procs, Elsewhere(p), Ready(be'[p], pc'[p], mem'[p], cmd'[p])
  PROVE  WritersReady'
BY DEF WritersReady, Ready, Elsewhere

LEMMA ReadyStep ==
  ASSUME ControlOK, BuffersOK, ~MlkemRef, ~MldsaRef, WritersReady, [Next]_vars
  PROVE  WritersReady'
<1>a. pc \in [Procs -> Places] /\ DOMAIN mem = Procs /\ be \in [Procs -> Chosens]
  BY DEF ControlOK, TypeOK, Places, Running, BuffersOK, Chosens
<1>1. ASSUME NEW p \in Procs, Elsewhere(p), be'[p] = be[p], pc'[p] \notin Writing
      PROVE  WritersReady'
  BY <1>1, ReadyMoves DEF WritersReady, Ready
<1>2. ASSUME NEW p \in Procs, NEW c \in Commands, NEW b \in Selections(c), Start(p, c, b)
      PROVE  WritersReady'
  <2>1. be'[p] = b /\ pc'[p] \in {"exited", "alloc"}
    BY <1>a, <1>2 DEF Start, Goto
  <2>2. b \in {Usage, "DUMMY", "PLACEHOLDER"}
    BY QuietSelections
  <2>3. Ready(be'[p], pc'[p], mem'[p], cmd'[p])
    BY <2>1, <2>2 DEF Ready, Writing
  <2> QED
    BY <1>2, <2>3, ReadyMoves, StepsApart
<1>3. ASSUME NEW p \in Procs, Alloc(p) \/ ReadInput(p) PROVE WritersReady'
  <2>1. be' = be /\ pc'[p] \in {"read", "call", "done"}
    BY <1>a, <1>3 DEF Alloc, ReadInput, NextInput, Fail, Goto
  <2> QED
    BY <1>1, <1>3, <2>1, StepsApart DEF Writing, Step
<1>4. ASSUME NEW p \in Procs, Call(p) PROVE WritersReady'
  <2>a. be' = be /\ cmd' = cmd /\ pc[p] = "call" /\ Elsewhere(p)
    BY <1>4, StepsApart DEF Call, Step
  <2>1. CASE pc'[p] = "done"
    BY <1>1, <2>a, <2>1 DEF Writing
  <2>2. CASE pc'[p] # "done"
    <3>1. ~Refused(p) /\ be[p] # Usage
      BY <1>a, <1>4, <2>a, <2>2, ControlParts DEF Call, Fail, Goto, Running
    <3>2. be[p] = "DUMMY"
      BY <3>1 DEF WritersReady, Ready, Refused
    <3>3. PICK m \in Results(p) : mem' = [mem EXCEPT ![p] = m]
      BY <1>4, <3>1 DEF Call
    <3>4. mem'[p] = m /\ \A j \in 1..Len(Writes(cmd[p])) : Shaped(Writes(cmd[p])[j], m[Writes(cmd[p])[j]])
      BY <1>a, <3>3, ResultsShaped
    <3>5. Ready(be'[p], pc'[p], mem'[p], cmd'[p])
      BY <2>a, <3>2, <3>4 DEF Ready
    <3> QED
      BY <2>a, <3>5, ReadyMoves
  <2> QED
    BY <2>1, <2>2
<1>5. ASSUME NEW p \in Procs, Open(p) \/ Write(p) \/ Close(p) PROVE WritersReady'
  <2>1. pc[p] \in Writing /\ UNCHANGED <<be, mem, cmd>>
    BY <1>5 DEF Open, Write, Close, Writing
  <2>2. Ready(be[p], pc[p], mem[p], cmd[p])
    BY DEF WritersReady
  <2>3. Ready(be'[p], pc'[p], mem'[p], cmd'[p])
    BY <2>1, <2>2 DEF Ready
  <2> QED
    BY <1>5, <2>3, ReadyMoves, StepsApart DEF Step
<1>6. ASSUME NEW p \in Procs, Finish(p) PROVE WritersReady'
  <2>1. be' = be /\ pc'[p] = "exited"
    BY <1>a, <1>6 DEF Finish, Goto
  <2> QED
    BY <1>1, <1>6, <2>1, StepsApart DEF Writing, Step
<1>7. ASSUME NEW p \in Procs, Abort(p) \/ Kill(p) PROVE WritersReady'
  <2>1. be' = be /\ pc'[p] = "killed"
    BY <1>a, <1>7 DEF Abort, Kill, Goto
  <2> QED
    BY <1>1, <1>7, <2>1, StepsApart DEF Writing
<1>8. CASE UNCHANGED <<pc, be, mem, cmd>>
  BY <1>8 DEF WritersReady
<1>9. ASSUME NEW m \in Messages, ChangeMessage(m) PROVE WritersReady'
  BY <1>8, <1>9 DEF ChangeMessage
<1> QED
  BY <1>2, <1>3, <1>4, <1>5, <1>6, <1>7, <1>8, <1>9 DEF Next, Step, vars

(* The files of a quiet run: a writer puts a whole artifact over nothing,  *)
(* or over one of the same length.                                         *)
LEMMA FilesStep ==
  ASSUME ControlOK, Quiet, Quiet', path \in Layouts, path' = path,
         FilesWhole, MessageThere, WritersReady, [Next]_vars
  PROVE  FilesWhole' /\ MessageThere'
<1>a. DOMAIN file = Roles /\ path \in [Roles -> Roles] /\ faults' = faults /\ faults = 0
  BY CliAssumption DEF ControlOK, Quiet
<1>b. "msg" \in Roles
  BY DEF Roles
<1>1. CASE UNCHANGED file
  BY <1>1, <1>a DEF FilesWhole, MessageThere, Content
<1>2. ASSUME NEW o \in Roles \ {"msg"}, NEW v, file' = [file EXCEPT ![path[o]] = v],
             v = NoFile \/ (Shaped(o, v.val) /\ v.len = Length(o, "DUMMY"))
      PROVE  FilesWhole' /\ MessageThere'
  <2>1. \A r \in Roles : r # o => path[r] # path[o]
    BY DEF Quiet, Apart
  <2>2. file'[path[o]] = v /\ \A r \in Roles : r # o => file'[path[r]] = file[path[r]]
    BY <1>a, <1>2, <2>1
  <2>3. MessageThere'
    BY <1>a, <1>b, <2>2 DEF MessageThere, Content
  <2>4. ASSUME NEW r \in Roles \ {"msg"}
        PROVE  \/ file'[path[r]] = NoFile
               \/ Shaped(r, file'[path[r]].val) /\ file'[path[r]].len = Length(r, "DUMMY")
    BY <1>2, <2>2 DEF FilesWhole, Content
  <2>5. FilesWhole'
    BY <1>a, <2>4 DEF FilesWhole, Content
  <2> QED
    BY <2>3, <2>5
<1>3. ASSUME NEW p \in Procs, pc[p] \in Writing
      PROVE  /\ Output(p) \in Roles \ {"msg"} /\ Shaped(Output(p), mem[p][Output(p)])
             /\ be[p] = "DUMMY" /\ Target(p) = path[Output(p)]
  <2>1. at[p] \in 1..Len(Writes(cmd[p])) /\ cmd[p] \in KemCommands \cup SigCommands
    BY <1>3, WritingFacts, ControlParts
  <2> QED
    BY <1>3, <2>1, WritesNoMessage DEF Output, Target, WritersReady, Ready
<1>4. ASSUME NEW p \in Procs, ~Fault(p), Open(p) PROVE FilesWhole' /\ MessageThere'
  <2>1. file' = [file EXCEPT ![Target(p)] = NoFile] /\ pc[p] \in Writing
    BY <1>4 DEF Open, Writing
  <2> QED
    BY <1>2, <1>3, <2>1
<1>5. ASSUME NEW p \in Procs, ~Fault(p), Close(p) PROVE FilesWhole' /\ MessageThere'
  <2> DEFINE o == Output(p)
             n == Length(o, "DUMMY")
             v == [val |-> mem[p][o], len |-> IF Content(o).len > n THEN Content(o).len ELSE n]
  <2>1. pc[p] \in Writing /\ WriteOut(p)
    BY <1>5 DEF Close, Writing
  <2>2. o \in Roles \ {"msg"} /\ Shaped(o, mem[p][o]) /\ be[p] = "DUMMY" /\ Target(p) = path[o]
    BY <1>3, <2>1
  <2>3. file' = [file EXCEPT ![path[o]] = v]
    BY <1>a, <2>1, <2>2 DEF WriteOut, Content
  <2>4. n \in Nat /\ (Content(o).len = 0 \/ Content(o).len = n)
    BY <2>2, LengthNat DEF FilesWhole, NoFile
  <2>5. v.len = n /\ v.val = mem[p][o]
    BY <2>4
  <2> HIDE DEF o, n, v
  <2> QED
    BY <1>2, <2>2, <2>3, <2>5 DEF n
<1>6. ASSUME NEW p \in Procs, Fault(p) PROVE FALSE
  BY <1>a, <1>6 DEF Fault
<1>7. ASSUME NEW p \in Procs, Abort(p) \/ Kill(p) PROVE FALSE
  BY <1>a, <1>7 DEF Abort, Kill
<1>8. ASSUME NEW m \in Messages, ChangeMessage(m) PROVE FilesWhole' /\ MessageThere'
  <2>1. file' = [file EXCEPT ![path["msg"]] = [val |-> m, len |-> 0]]
    BY <1>8 DEF ChangeMessage
  <2>2. \A r \in Roles : r # "msg" => path[r] # path["msg"]
    BY <1>b DEF Quiet, Apart
  <2>3. file'[path["msg"]] = [val |-> m, len |-> 0]
        /\ \A r \in Roles : r # "msg" => file'[path[r]] = file[path[r]]
    BY <1>a, <1>b, <2>1, <2>2
  <2>4. m \notin Unmade
    BY CliAssumption DEF Unmade
  <2> QED
    BY <1>a, <2>3, <2>4 DEF FilesWhole, MessageThere, Content
<1>9. ASSUME NEW p \in Procs, Step(p) PROVE FilesWhole' /\ MessageThere'
  <2>1. CASE Open(p) \/ Close(p)
    BY <1>4, <1>5, <1>6, <2>1
  <2>2. CASE Write(p)
    BY <1>1, <1>6, <2>2 DEF Write
  <2>3. CASE Alloc(p) \/ ReadInput(p) \/ Call(p) \/ Finish(p)
    BY <1>1, <2>3 DEF Alloc, ReadInput, Call, Finish
  <2> QED
    BY <1>9, <2>1, <2>2, <2>3 DEF Step
<1>10. ASSUME NEW p \in Procs, NEW c \in Commands, NEW b \in Selections(c), Start(p, c, b)
       PROVE  FilesWhole' /\ MessageThere'
  BY <1>1, <1>10 DEF Start
<1> QED
  BY <1>1, <1>7, <1>8, <1>9, <1>10 DEF Next, vars

(* Nothing is torn where nothing fails, for any processes on any files of  *)
(* their own: what a library call is given, and what is left in the end,   *)
(* is whole.                                                               *)
THEOREM FilesNotTorn == Spec => []NothingTorn
<1>1. Init => TornInv
  <2> SUFFICES ASSUME Init PROVE TornInv
    OBVIOUS
  <2>1. path \in Layouts /\ path \in [Roles -> Roles] /\ "msg" \in Roles
    BY CliAssumption DEF Init, Roles
  <2>2. HeldInv(Unmade)
    BY DEF Init, HeldInv, Held, Writing
  <2>3. WritersReady
    BY DEF Init, WritersReady, Ready, Writing
  <2>4. PICK m \in Messages : file = [f \in Roles |->
                                 IF f = path["msg"] THEN [val |-> m, len |-> 0] ELSE NoFile]
    BY DEF Init
  <2>5. MessageThere
    BY <2>1, <2>4, CliAssumption DEF MessageThere, Content, Unmade
  <2>6. Apart => FilesWhole
    BY <2>1, <2>4 DEF Apart, FilesWhole, Content
  <2> QED
    BY <2>1, <2>2, <2>3, <2>5, <2>6 DEF TornInv, Quiet
<1>2. ControlOK /\ BuffersOK /\ TornInv /\ [Next]_vars => TornInv'
  <2> SUFFICES ASSUME ControlOK, BuffersOK, TornInv, [Next]_vars PROVE TornInv'
    OBVIOUS
  <2>1. path' = path
    BY ZenonT(30) DEF Next, Step, Start, Alloc, ReadInput, Call, Open, Write, Close, Finish, Abort, Kill,
           ChangeMessage, vars
  <2>2. CASE ~Quiet'
    BY <2>1, <2>2 DEF TornInv
  <2>3. CASE Quiet'
    <3>1. Quiet /\ FilesWhole /\ MessageThere /\ WritersReady /\ HeldInv(Unmade)
      BY <2>3, QuietBefore DEF TornInv
    <3>2. FilesWhole' /\ MessageThere'
      BY <2>1, <2>3, <3>1, FilesStep DEF TornInv
    <3>3. WritersReady'
      BY <3>1, ReadyStep DEF Quiet
    <3>4. HeldInv(Unmade)'
      BY <3>1, HeldStep, QuietReads
    <3> QED
      BY <2>1, <3>2, <3>3, <3>4 DEF TornInv
  <2> QED
    BY <2>2, <2>3
<1>3. TornInv => NothingTorn
  <2> SUFFICES ASSUME TornInv, Quiet
               PROVE  /\ \A p \in Procs : pc[p] = "call" =>
                            \A i \in 1..Len(Reads(cmd[p])) : mem[p][Reads(cmd[p])[i]] \notin Unmade
                      /\ \A r \in Roles \ {"msg"} : Content(r) = NoFile \/ IsWhole(r)
    BY DEF NothingTorn, Quiet, Unmade
  <2>1. FilesWhole /\ HeldInv(Unmade)
    BY DEF TornInv
  <2>2. "DUMMY" \in K!Backends \cup S!Backends
    BY DEF K!Backends
  <2>3. \A r \in Roles \ {"msg"} : Content(r) = NoFile \/ IsWhole(r)
    BY <2>1, <2>2 DEF FilesWhole, Shaped, IsWhole, Unmade
  <2> QED
    BY <2>1, <2>3 DEF HeldInv, Held
<1>4. Init => BuffersOK
  BY DEF Init, BuffersOK, NoMemory, Running
<1> QED
  BY <1>1, <1>2, <1>3, <1>4, ControlInit, ControlStep, BuffersStep, PTL DEF Spec

-----------------------------------------------------------------------------
(***************************************************************************)
(* With a single process: one user's commands, one after the other, any of *)
(* them failing, killed or repeated, on any backends, any entropy,         *)
(* messages and number of faults.                                          *)
(***************************************************************************)

Outcomes == [state : {"none", "running", "ok", "failed"}, be : Chosens,
             lost : BOOLEAN, hit : BOOLEAN]

-----------------------------------------------------------------------------
(* What one step of the only process, u, does, at u.                       *)

Input(u)    == Reads(cmd[u])[at[u]]
Stays(u)    == cmd'[u] = cmd[u] /\ be'[u] = be[u]
Hits(u)     == last' = [last EXCEPT ![cmd[u]].hit = TRUE]
Untouched   == file' = file /\ last' = last

Started(u, c, b) ==
    /\ pc[u] \notin Running
    /\ cmd'[u] = c /\ be'[u] = b /\ mem'[u] = NoMemory /\ lost'[u] = FALSE
    /\ file' = file
    /\ \/ b = Usage /\ pc'[u] = "exited" /\ last' = last
       \/ /\ b # Usage /\ pc'[u] = "alloc" /\ code'[u] = 0
          /\ last' = [d \in Commands |->
                IF d = c THEN [state |-> "running", be |-> b, lost |-> FALSE, hit |-> FALSE]
                ELSE IF d \in Downstream(c) THEN NeverRan ELSE last[d]]

(* None of the output's bytes reach its file, or not all of them. *)
WrittenPartly(u) ==
    \A f \in Roles : file'[f] # file[f] =>
        /\ f = Target(u)
        /\ file'[f].val \in {Garbled, mem[u][Output(u)]}
        /\ file'[f].len = file[f].len \/ file'[f].len = Length(Output(u), be[u]) - 1

(* The handler goes to its end with ok cleared, and why. *)
Failed(u) ==
    /\ pc[u] \in Running \ {"done"} /\ pc'[u] = "done" /\ code'[u] = 1 /\ Stays(u)
    /\ file' = file \/ (pc[u] = "write" /\ WrittenPartly(u))
    /\ \/ Hits(u)
       \/ /\ last' = last /\ pc[u] = "read"
          /\ ~ Readable(u, Input(u)) \/ Content(Input(u)) = NoFile
       \/ last' = last /\ pc[u] = "call" /\ Refused(u)

Allocated(u) ==
    /\ pc[u] = "alloc" /\ pc'[u] = IF Reads(cmd[u]) = <<>> THEN "call" ELSE "read"
    /\ Stays(u) /\ Untouched
    /\ mem'[u] = mem[u] /\ at'[u] = at[u] /\ code'[u] = code[u] /\ lost'[u] = lost[u]

InputTaken(u) ==
    /\ pc[u] = "read" /\ Readable(u, Input(u))
    /\ \E v \in {Meaning(u, Input(u))} \cup (IF Meaning(u, Input(u)) = EmptyMessage THEN {Null} ELSE {}) :
          mem'[u] = [mem[u] EXCEPT ![Input(u)] = v]
    /\ \/ at[u] = Len(Reads(cmd[u])) /\ pc'[u] = "call"
       \/ at[u] # Len(Reads(cmd[u])) /\ pc'[u] = "read" /\ at'[u] = at[u] + 1
    /\ Stays(u) /\ Untouched
    /\ code'[u] = code[u] /\ lost'[u] = lost[u]

Called(u) ==
    /\ pc[u] = "call" /\ ~ Refused(u)
    /\ mem'[u] \in Results(u)
    /\ pc'[u] = IF Writes(cmd[u]) = <<>> THEN "done" ELSE "open"
    /\ Stays(u) /\ Untouched
    /\ at'[u] = at[u] /\ code'[u] = code[u] /\ lost'[u] = lost[u]

Truncated(u) ==
    /\ pc[u] = "open" /\ pc'[u] = "write"
    /\ file' = [file EXCEPT ![Target(u)] = NoFile] /\ last' = last
    /\ Stays(u)
    /\ mem'[u] = mem[u] /\ at'[u] = at[u] /\ code'[u] = code[u] /\ lost'[u] = lost[u]

Buffered(u) ==
    /\ pc[u] = "write" /\ pc'[u] = "close"
    /\ Stays(u) /\ Untouched
    /\ mem'[u] = mem[u] /\ at'[u] = at[u] /\ code'[u] = code[u] /\ lost'[u] = lost[u]

Closed(u) ==
    /\ pc[u] = "close"
    /\ \/ WriteOut(u) /\ last' = last /\ lost'[u] = lost[u]
       \/ WrittenPartly(u) /\ Hits(u) /\ lost'[u] = TRUE
    /\ \/ at[u] = Len(Writes(cmd[u])) /\ pc'[u] = "done" /\ at'[u] = at[u]
       \/ at[u] # Len(Writes(cmd[u])) /\ pc'[u] = "open" /\ at'[u] = at[u] + 1
    /\ Stays(u)
    /\ mem'[u] = mem[u] /\ code'[u] = code[u]

Returned(u) ==
    /\ pc[u] = "done" /\ pc'[u] = "exited"
    /\ last' = [last EXCEPT ![cmd[u]] = [state |-> IF code[u] = 0 THEN "ok" ELSE "failed",
                                         be |-> be[u], lost |-> lost[u], hit |-> @.hit]]
    /\ file' = file /\ Stays(u)

Died(u) ==
    /\ pc[u] \in Running /\ pc'[u] = "killed"
    /\ last' = [last EXCEPT ![cmd[u]].state = "failed", ![cmd[u]].hit = TRUE]
    /\ file' = file /\ Stays(u)

Edited(u, m) ==
    /\ pc[u] \notin Running /\ pc'[u] = pc[u] /\ Stays(u)
    /\ file' = [file EXCEPT ![path["msg"]] = [val |-> m, len |-> 0]]
    /\ last' = [c \in Commands |-> IF c = "verify" \/ (c = "sign" /\ last[c].state # "ok")
                                   THEN NeverRan ELSE last[c]]

Nothing(u) ==
    /\ pc'[u] = pc[u] /\ mem'[u] = mem[u] /\ at'[u] = at[u]
    /\ code'[u] = code[u] /\ lost'[u] = lost[u] /\ Stays(u) /\ Untouched

Stepped(u) ==
    \/ \E c \in Commands : \E b \in Selections(c) : Started(u, c, b)
    \/ Failed(u) \/ Allocated(u) \/ InputTaken(u) \/ Called(u) \/ Truncated(u)
    \/ Buffered(u) \/ Closed(u) \/ Returned(u) \/ Died(u)
    \/ \E m \in Messages : Edited(u, m)
    \/ Nothing(u)

LEMMA Solo ==
  ASSUME ControlOK, BuffersOK, path \in [Roles -> Roles], NEW u, Procs = {u}, [Next]_vars
  PROVE  Stepped(u) /\ path' = path
<1> USE Procs = {u}
<1>1. /\ pc \in [Procs -> Places] /\ cmd \in [Procs -> Commands]
      /\ be \in [Procs -> Chosens] /\ at \in [Procs -> 1 .. 3]
      /\ code \in [Procs -> Codes] /\ lost \in [Procs -> BOOLEAN]
      /\ DOMAIN mem = Procs /\ DOMAIN mem[u] = Roles /\ DOMAIN file = Roles
  BY ControlParts DEF BuffersOK
<1>2. /\ \A where : Goto(u, where) => pc'[u] = where
      /\ Fail(u) => pc'[u] = "done" /\ code'[u] = 1
      /\ Fault(u) => Hits(u)
      /\ NoFault => last' = last
      /\ UNCHANGED <<cmd, be>> => Stays(u)
  BY <1>1 DEF Goto, Fail, Fault, NoFault, Hits, Stays
<1>3. path' = path
  BY ZenonT(30) DEF Next, Step, Start, Alloc, ReadInput, Call, Open, Write, Close, Finish, Abort, Kill,
         ChangeMessage, vars
<1> SUFFICES Stepped(u)
  BY <1>3
<1>4. ASSUME NEW c \in Commands, NEW b \in Selections(c), Start(u, c, b) PROVE Started(u, c, b)
  BY <1>1, <1>2, <1>4 DEF Start, Started, Running
<1>5. CASE Alloc(u)
  BY <1>1, <1>2, <1>5 DEF Alloc, Allocated, Failed, Running, Stepped, Untouched
<1>6. CASE ReadInput(u)
  <2> DEFINE read == Meaning(u, Input(u))
  <2>1. /\ pc[u] = "read" /\ Input(u) = Reads(cmd[u])[at[u]]
        /\ Stays(u) /\ file' = file /\ lost'[u] = lost[u]
    BY <1>2, <1>6 DEF ReadInput, Input
  <2>2. CASE /\ Readable(u, Input(u))
             /\ \E v \in {read} \cup (IF read = EmptyMessage THEN {Null} ELSE {}) :
                   mem' = [mem EXCEPT ![u][Input(u)] = v]
             /\ NextInput(u)
             /\ NoFault
             /\ UNCHANGED code
    <3>1. \E v \in {read} \cup (IF read = EmptyMessage THEN {Null} ELSE {}) :
             mem'[u] = [mem[u] EXCEPT ![Input(u)] = v]
      BY <1>1, <2>2
    <3>2. \/ at[u] = Len(Reads(cmd[u])) /\ pc'[u] = "call"
          \/ at[u] # Len(Reads(cmd[u])) /\ pc'[u] = "read" /\ at'[u] = at[u] + 1
      BY <1>1, <1>2, <2>1, <2>2 DEF NextInput
    <3> QED
      BY <1>2, <2>1, <2>2, <3>1, <3>2 DEF InputTaken, Untouched, Stepped
  <2>3. CASE /\ Fail(u)
             /\ IF Readable(u, Input(u)) /\ Content(Input(u)) # NoFile THEN Fault(u) ELSE NoFault
    BY <1>2, <2>1, <2>3 DEF Failed, Running, Stepped
  <2> QED
    BY <1>6, <2>2, <2>3 DEF ReadInput, Input
<1>7. CASE Call(u)
  <2>1. pc[u] = "call" /\ Stays(u) /\ Untouched /\ at'[u] = at[u] /\ lost'[u] = lost[u]
    BY <1>2, <1>7 DEF Call, Untouched
  <2>2. CASE Refused(u)
    BY <1>2, <1>7, <2>1, <2>2 DEF Call, Untouched, Failed, Running, Stepped
  <2>3. CASE ~ Refused(u)
    <3>1. mem'[u] \in Results(u)
      BY <1>1, <1>7, <2>3 DEF Call
    <3>2. pc'[u] = (IF Writes(cmd[u]) = <<>> THEN "done" ELSE "open") /\ code' = code
      BY <1>2, <1>7, <2>3 DEF Call
    <3> QED
      BY <2>1, <2>3, <3>1, <3>2 DEF Called, Stepped
  <2> QED
    BY <2>2, <2>3
<1>8. CASE Open(u)
  <2>1. pc[u] = "open" /\ Stays(u) /\ mem' = mem /\ at' = at /\ lost' = lost
    BY <1>2, <1>8 DEF Open
  <2>2. CASE file' = [file EXCEPT ![Target(u)] = NoFile] /\ Goto(u, "write") /\ NoFault /\ code' = code
    BY <1>2, <2>1, <2>2 DEF Truncated, Stepped
  <2>3. CASE Fail(u) /\ Fault(u) /\ file' = file
    BY <1>2, <2>1, <2>3 DEF Failed, Running, Stepped
  <2> QED
    BY <1>8, <2>2, <2>3 DEF Open
<1>a. WriteOutPartly(u) => WrittenPartly(u)
  BY <1>1 DEF WriteOutPartly, WrittenPartly
<1>9. CASE Write(u)
  <2>1. pc[u] = "write" /\ Stays(u) /\ mem' = mem /\ at' = at /\ lost' = lost
    BY <1>2, <1>9 DEF Write
  <2>2. CASE Goto(u, "close") /\ NoFault /\ UNCHANGED <<code, file>>
    BY <1>2, <2>1, <2>2 DEF Buffered, Untouched, Stepped
  <2>3. CASE WriteOutPartly(u) /\ Fail(u) /\ Fault(u)
    BY <1>2, <1>a, <2>1, <2>3 DEF Failed, Running, Stepped
  <2> QED
    BY <1>9, <2>2, <2>3 DEF Write
<1>10. CASE Close(u)
  <2>1. pc[u] = "close" /\ Stays(u) /\ mem' = mem /\ code' = code
    BY <1>2, <1>10 DEF Close
  <2>2. \/ WriteOut(u) /\ last' = last /\ lost'[u] = lost[u]
        \/ WrittenPartly(u) /\ Hits(u) /\ lost'[u] = TRUE
    BY <1>1, <1>2, <1>a, <1>10 DEF Close
  <2>3. \/ at[u] = Len(Writes(cmd[u])) /\ pc'[u] = "done" /\ at'[u] = at[u]
        \/ at[u] # Len(Writes(cmd[u])) /\ pc'[u] = "open" /\ at'[u] = at[u] + 1
    BY <1>1, <1>2, <1>10 DEF Close
  <2> QED
    BY <2>1, <2>2, <2>3 DEF Closed, Stepped
<1>11. CASE Finish(u)
  BY <1>1, <1>2, <1>11 DEF Finish, Returned, Stepped
<1>12. CASE Abort(u) \/ Kill(u)
  BY <1>1, <1>2, <1>12 DEF Abort, Kill, Died, Stepped, Running, Places
<1>13. ASSUME NEW m \in Messages, ChangeMessage(m) PROVE Edited(u, m)
  BY <1>2, <1>13 DEF ChangeMessage, Edited, Running
<1>14. CASE UNCHANGED vars
  BY <1>2, <1>14 DEF vars, Nothing, Untouched, Stepped
<1> QED
  BY <1>4, <1>5, <1>6, <1>7, <1>8, <1>9, <1>10, <1>11, <1>12, <1>13, <1>14
     DEF Next, Step, Stepped

-----------------------------------------------------------------------------
(* The ledger: the latest outcome of every command.                        *)

Ledger(u) ==
    /\ last \in [Commands -> Outcomes]
    /\ \A d \in Commands : last[d].state = "running" <=> pc[u] \in Running /\ d = cmd[u]
    /\ pc[u] \in Running => last[cmd[u]].be = be[u]
    /\ pc[u] \in Running \ {"done"} => code[u] = 0
    /\ pc[u] \in Running => \A d \in Downstream(cmd[u]) \cap Commands : last[d].state = "none"

LEMMA LedgerInit ==
  ASSUME Init, NEW u \in Procs
  PROVE  Ledger(u)
BY DEF Init, Ledger, NeverRan, Outcomes, Chosens, Running

LEMMA LedgerStep ==
  ASSUME ControlOK, NEW u \in Procs, Ledger(u), Stepped(u)
  PROVE  Ledger(u)'
<1>1. /\ last \in [Commands -> Outcomes] /\ cmd[u] \in Commands /\ be[u] \in Chosens
      /\ lost[u] \in BOOLEAN /\ pc[u] \in Places
  BY ControlParts DEF Ledger
<1>2. Hits(u) => /\ last' \in [Commands -> Outcomes]
                 /\ \A d \in Commands : last'[d].state = last[d].state /\ last'[d].be = last[d].be
  <2> DEFINE struck == [last[cmd[u]] EXCEPT !.hit = TRUE]
  <2>1. struck \in Outcomes /\ struck.state = last[cmd[u]].state /\ struck.be = last[cmd[u]].be
    BY <1>1, ZenonT(30) DEF Outcomes
  <2>2. Hits(u) => last' = [last EXCEPT ![cmd[u]] = struck]
    BY DEF Hits
  <2> HIDE DEF struck
  <2> QED
    BY <1>1, <2>1, <2>2
<1>b. cmd[u] \notin Downstream(cmd[u]) /\ \A c : c \notin Downstream(c)
  BY DEF Downstream
<1>3. ASSUME NEW c \in Commands, NEW b \in Selections(c), Started(u, c, b) PROVE Ledger(u)'
  <2>1. b \in Chosens
    BY SelectionsTyped
  <2>2. CASE b = Usage /\ pc'[u] = "exited" /\ last' = last
    BY <1>3, <2>2 DEF Started, Ledger, Running
  <2>3. CASE /\ b # Usage /\ pc'[u] = "alloc" /\ code'[u] = 0
             /\ last' = [d \in Commands |->
                   IF d = c THEN [state |-> "running", be |-> b, lost |-> FALSE, hit |-> FALSE]
                   ELSE IF d \in Downstream(c) THEN NeverRan ELSE last[d]]
    <3>1. cmd'[u] = c /\ be'[u] = b /\ \A d \in Commands : last[d].state # "running"
      BY <1>3 DEF Started, Ledger
    <3>2. NeverRan \in Outcomes /\ NeverRan.state # "running"
      BY DEF NeverRan, Outcomes, Chosens
    <3>3. [state |-> "running", be |-> b, lost |-> FALSE, hit |-> FALSE] \in Outcomes
      BY <2>1 DEF Outcomes
    <3>4. last' \in [Commands -> Outcomes]
      BY <1>1, <2>3, <3>2, <3>3
    <3>5. last'[c].state = "running" /\ last'[c].be = b
      BY <2>3
    <3>6. \A d \in Commands : d # c => last'[d].state # "running"
      BY <2>3, <3>1, <3>2
    <3>7. \A d \in Downstream(c) \cap Commands : last'[d].state = "none"
      BY <1>b, <2>3 DEF NeverRan
    <3> QED
      BY <2>3, <3>1, <3>4, <3>5, <3>6, <3>7 DEF Ledger, Running
  <2> QED
    BY <1>3, <2>2, <2>3 DEF Started
<1>4. CASE Failed(u) \/ Closed(u)
  <2>1. /\ last' \in [Commands -> Outcomes] /\ Stays(u)
        /\ \A d \in Commands : last'[d].state = last[d].state /\ last'[d].be = last[d].be
    BY <1>1, <1>2, <1>4 DEF Failed, Closed
  <2>2. pc[u] \in Running /\ pc'[u] \in Running /\ (pc'[u] # "done" => code'[u] = 0)
    BY <1>4 DEF Failed, Closed, Running, Ledger
  <2>3. last'[cmd'[u]].be = be'[u] /\ \A d \in Commands : last'[d].state = "running" <=> d = cmd'[u]
    BY <1>1, <2>1, <2>2 DEF Ledger, Stays
  <2>4. \A d \in Downstream(cmd'[u]) \cap Commands : last'[d].state = "none"
    BY <2>1, <2>2 DEF Ledger, Stays
  <2> QED
    BY <2>1, <2>2, <2>3, <2>4 DEF Ledger
<1>5. CASE Allocated(u) \/ InputTaken(u) \/ Called(u) \/ Truncated(u) \/ Buffered(u)
  <2>1. last' = last /\ Stays(u) /\ code'[u] = code[u] /\ pc[u] \in Running \ {"done"}
    BY <1>5 DEF Allocated, InputTaken, Called, Truncated, Buffered, Untouched, Running
  <2>2. pc'[u] \in Running
    BY <1>5 DEF Allocated, InputTaken, Called, Truncated, Buffered, Running
  <2> QED
    BY <2>1, <2>2 DEF Ledger, Stays
<1>6. CASE Returned(u) \/ Died(u)
  <2>1. /\ last' \in [Commands -> Outcomes] /\ last'[cmd[u]].state # "running"
        /\ \A d \in Commands : d # cmd[u] => last'[d] = last[d]
    <3>1. CASE Returned(u)
      BY <1>1, <3>1 DEF Returned, Outcomes
    <3>2. CASE Died(u)
      BY <1>1, <3>2 DEF Died, Outcomes
    <3> QED
      BY <1>6, <3>1, <3>2
  <2>2. pc'[u] \notin Running
    BY <1>6 DEF Returned, Died, Running
  <2> QED
    BY <2>1, <2>2 DEF Ledger
<1>7. ASSUME NEW m \in Messages, Edited(u, m) PROVE Ledger(u)'
  <2>1. NeverRan \in Outcomes /\ NeverRan.state # "running"
    BY DEF NeverRan, Outcomes, Chosens
  <2>2. \A d \in Commands : last[d].state # "running"
    BY <1>7 DEF Edited, Ledger
  <2> QED
    BY <1>1, <1>7, <2>1, <2>2 DEF Edited, Ledger
<1>8. CASE Nothing(u)
  BY <1>8 DEF Nothing, Untouched, Stays, Ledger
<1> QED
  BY <1>3, <1>4, <1>5, <1>6, <1>7, <1>8 DEF Stepped

(* How an outcome changes: not at all, or it is forgotten or begun, or     *)
(* struck by a fault, or set when its command returns or dies.             *)
LEMMA OutcomeStep ==
  ASSUME ControlOK, NEW u \in Procs, Ledger(u), Stepped(u), NEW d \in Commands
  PROVE  \/ last'[d] = last[d]
         \/ last'[d].state \in {"none", "running"}
         \/ d = cmd[u] /\ Died(u) /\ last'[d].state = "failed" /\ last'[d].hit
         \/ d = cmd[u] /\ Returned(u)
            /\ last'[d] = [state |-> IF code[u] = 0 THEN "ok" ELSE "failed", be |-> be[u],
                           lost |-> lost[u], hit |-> last[d].hit]
<1>1. last \in [Commands -> Outcomes] /\ cmd[u] \in Commands
  BY ControlParts DEF Ledger
<1>2. NeverRan.state = "none"
  BY DEF NeverRan
<1>3. ASSUME NEW c \in Commands, NEW b \in Selections(c), Started(u, c, b)
      PROVE  last'[d] = last[d] \/ last'[d].state \in {"none", "running"}
  BY <1>1, <1>2, <1>3 DEF Started
<1>4. Hits(u) /\ pc[u] \in Running => last'[d] = last[d] \/ last'[d].state = "running"
  BY <1>1 DEF Hits, Ledger, Outcomes
<1>5. CASE Failed(u) \/ Closed(u)
  BY <1>4, <1>5 DEF Failed, Closed, Running
<1>6. CASE Allocated(u) \/ InputTaken(u) \/ Called(u) \/ Truncated(u) \/ Buffered(u) \/ Nothing(u)
  BY <1>6 DEF Allocated, InputTaken, Called, Truncated, Buffered, Nothing, Untouched
<1>7. CASE Returned(u)
  BY <1>1, <1>7 DEF Returned
<1>8. CASE Died(u)
  BY <1>1, <1>8 DEF Died, Outcomes
<1>9. ASSUME NEW m \in Messages, Edited(u, m) PROVE last'[d] = last[d] \/ last'[d].state = "none"
  BY <1>2, <1>9 DEF Edited
<1> QED
  BY <1>3, <1>5, <1>6, <1>7, <1>8, <1>9 DEF Stepped

-----------------------------------------------------------------------------
(* Files, inputs and outputs of the running command.                       *)

(* The roles whose file the user may name for r too. *)
Shares(r) ==
    CASE r \in {"pub", "sec"}       -> {"pub", "sec"}
      [] r \in {"ct", "dss"}        -> {"ct", "dss"}
      [] r \in {"sigpub", "sigsec"} -> {"sigpub", "sigsec"}
      [] OTHER                      -> {r}

(* Files are named twice within a key pair, and the secret decaps writes   *)
(* over the ciphertext, at most.                                           *)
Separate(l) == \A r, q \in Roles : l[r] = l[q] => q \in Shares(r)

(* The command that writes a role's file. *)
Writer(r) ==
    CASE r \in {"pub", "sec"}       -> "keygen"
      [] r \in {"ct", "ss"}         -> "encaps"
      [] r = "dss"                  -> "decaps"
      [] r \in {"sigpub", "sigsec"} -> "sig-keygen"
      [] r = "sig"                  -> "sign"
      [] OTHER                      -> "none"

LEMMA OutputFacts ==
  ASSUME ControlOK, NEW u \in Procs, pc[u] \in Writing
  PROVE  /\ at[u] \in 1 .. Len(Writes(cmd[u]))
         /\ Output(u) \in Roles \ {"msg"} /\ Writer(Output(u)) = cmd[u]
<1>1. /\ cmd[u] \in KemCommands \cup SigCommands
      /\ at[u] \in 1 .. 3 /\ at[u] <= Len(Writes(cmd[u]))
  BY ControlParts DEF ControlOK
<1>2. Len(Writes(cmd[u])) \in 0 .. 3
  BY <1>1, LengthsOfCommands
<1>3. at[u] \in 1 .. Len(Writes(cmd[u]))
  BY <1>1, <1>2
<1>4. ASSUME NEW c \in KemCommands \cup SigCommands, NEW i \in 1 .. Len(Writes(c))
      PROVE  Writer(Writes(c)[i]) = c
  BY DEF KemCommands, SigCommands, Writes, Writer
<1> QED
  BY <1>1, <1>3, <1>4, WritesNoMessage DEF Output

(* A file changes where the running command writes it. *)
LEMMA FileKept ==
  ASSUME ControlOK, path \in [Roles -> Roles], Separate(path), NEW u \in Procs, Stepped(u),
         NEW r \in Roles, r = "msg" => pc[u] \in Running,
         pc[u] \in Writing => Output(u) \notin Shares(r)
  PROVE  file'[path[r]] = file[path[r]]
<1>1. path[r] \in Roles /\ DOMAIN file = Roles
  BY ControlParts
<1>2. pc[u] \in Writing => path[r] # Target(u)
  BY OutputFacts DEF Separate, Target
<1>3. CASE Failed(u)
  BY <1>1, <1>2, <1>3 DEF Failed, WrittenPartly, Writing
<1>4. CASE Truncated(u)
  BY <1>1, <1>2, <1>4 DEF Truncated, Writing
<1>5. CASE Closed(u)
  BY <1>1, <1>2, <1>5 DEF Closed, WriteOut, WrittenPartly, Writing
<1>6. ASSUME NEW m \in Messages, Edited(u, m) PROVE file'[path[r]] = file[path[r]]
  <2>1. r # "msg" /\ "msg" \in Roles
    BY <1>6 DEF Edited, Roles
  <2>2. path[r] # path["msg"]
    BY <2>1 DEF Separate, Shares
  <2> QED
    BY <1>1, <1>6, <2>2 DEF Edited
<1> QED
  BY <1>3, <1>4, <1>5, <1>6
     DEF Stepped, Started, Allocated, InputTaken, Called, Buffered, Returned, Died, Nothing, Untouched

(* The library call of u's command has succeeded, and nothing since failed *)
(* that the handler looks at.                                              *)
After(u) == pc[u] \in Writing \/ (pc[u] = "done" /\ code[u] = 0)

LEMMA AfterStep ==
  ASSUME NEW u \in Procs, Stepped(u), After(u)'
  PROVE  /\ Stays(u)
         /\ \/ Called(u)
            \/ After(u) /\ mem'[u] = mem[u] /\ (lost[u] => lost'[u])
<1>1. CASE Closed(u)
  BY <1>1 DEF Closed, After, Writing
<1>2. CASE Truncated(u) \/ Buffered(u)
  BY <1>2 DEF Truncated, Buffered, After, Writing
<1>3. CASE Called(u)
  BY <1>3 DEF Called
<1>4. CASE Nothing(u)
  BY <1>4 DEF Nothing, After
<1>5. ASSUME NEW m \in Messages, Edited(u, m) PROVE FALSE
  BY <1>5 DEF Edited, After, Writing, Running
<1>6. CASE Failed(u)
  BY <1>6 DEF Failed, After, Writing
<1> QED
  BY <1>1, <1>2, <1>3, <1>4, <1>5, <1>6
     DEF Stepped, Started, Allocated, InputTaken, Returned, Died, After, Writing

LEMMA OthersKept ==
  ASSUME ControlOK, NEW u \in Procs, Ledger(u), Stepped(u), pc[u] \in Running,
         NEW d \in Commands, d # cmd[u]
  PROVE  last'[d] = last[d]
<1>1. last \in [Commands -> Outcomes] /\ cmd[u] \in Commands
  BY ControlParts DEF Ledger
<1>2. Hits(u) => last'[d] = last[d]
  BY <1>1 DEF Hits
<1>3. CASE Returned(u) \/ Died(u)
  BY <1>1, <1>3 DEF Returned, Died
<1> QED
  BY <1>2, <1>3
     DEF Stepped, Started, Failed, Allocated, InputTaken, Called, Truncated, Buffered, Closed,
         Edited, Nothing, Untouched

-----------------------------------------------------------------------------
(* Until the call, the buffers are what the files mean: no file changes.   *)

InputRead(u, r) ==
    /\ Readable(u, r)
    /\ \/ mem[u][r] = Meaning(u, r)
       \/ r = "msg" /\ Meaning(u, r) = EmptyMessage /\ mem[u][r] = Null

Inputs(u) ==
    /\ pc[u] = "alloc" \/ (pc[u] \in {"read", "call"} /\ cmd[u] \notin {"sign", "verify"}) =>
          mem[u]["msg"] = Blank
    /\ pc[u] \in {"read", "call"} =>
          \A j \in 1 .. Len(Reads(cmd[u])) :
              pc[u] = "call" \/ j < at[u] => InputRead(u, Reads(cmd[u])[j])

LEMMA ReadsDiffer ==
  ASSUME NEW c \in KemCommands \cup SigCommands
  PROVE  /\ \A i, j \in 1 .. Len(Reads(c)) : Reads(c)[i] = Reads(c)[j] => i = j
         /\ \A i \in 1 .. Len(Reads(c)) : Reads(c)[i] = "msg" => c \in {"sign", "verify"}
BY DEF KemCommands, SigCommands, Reads

LEMMA OnlyMessagesEmpty ==
  ASSUME NEW u, NEW r \in Roles \ {"msg"}
  PROVE  Meaning(u, r) # EmptyMessage
BY DEF Roles, Meaning, EmptyMessage, Kind, Garbled, K!PublicKey

LEMMA InputsStep ==
  ASSUME ControlOK, BuffersOK, NEW u \in Procs, Inputs(u), Stepped(u), path' = path
  PROVE  Inputs(u)'
<1>1. /\ cmd[u] \in KemCommands \cup SigCommands /\ DOMAIN mem[u] = Roles /\ "msg" \in Roles
      /\ at[u] \in 1 .. 3 /\ Len(Reads(cmd[u])) \in 0 .. 3
      /\ pc[u] = "alloc" => at[u] = 1
      /\ pc[u] = "read" => at[u] <= Len(Reads(cmd[u]))
  BY ControlParts, LengthsOfCommands DEF ControlOK, BuffersOK, Roles
<1>2. ASSUME file' = file, Stays(u), NEW r, mem'[u][r] = mem[u][r], InputRead(u, r)
      PROVE  InputRead(u, r)'
  BY <1>2 DEF InputRead, Readable, Meaning, Content, Stays
<1>3. CASE pc'[u] = "alloc"
  <2>1. mem'[u]["msg"] = Blank
    BY <1>1, <1>3 DEF Stepped, Started, Failed, Allocated, InputTaken, Called, Truncated, Buffered,
       Closed, Returned, Died, Edited, Nothing, Running, NoMemory, Inputs
  <2> QED
    BY <1>3, <2>1 DEF Inputs
<1>4. CASE pc'[u] \in {"read", "call"}
  <2>1. Allocated(u) \/ InputTaken(u) \/ Nothing(u)
    BY <1>4 DEF Stepped, Started, Failed, Called, Truncated, Buffered,
       Closed, Returned, Died, Edited, Running
  <2>2. CASE Allocated(u)
    BY <1>1, <1>4, <2>2, LengthsOfCommands DEF Allocated, Stays, Inputs
  <2>3. CASE Nothing(u)
    BY <1>2, <2>3 DEF Nothing, Untouched, Stays, Inputs
  <2>4. CASE InputTaken(u)
    <3>1. /\ file' = file /\ Stays(u) /\ pc[u] = "read" /\ Readable(u, Input(u))
          /\ at[u] \in 1 .. Len(Reads(cmd[u]))
      BY <1>1, <2>4 DEF InputTaken, Untouched
    <3>2. PICK r : r = Input(u)
      OBVIOUS
    <3>3. PICK v \in {Meaning(u, r)} \cup (IF Meaning(u, r) = EmptyMessage THEN {Null} ELSE {}) :
             mem'[u] = [mem[u] EXCEPT ![r] = v]
      BY <2>4, <3>2 DEF InputTaken
    <3>4. r \in Roles /\ r = Reads(cmd[u])[at[u]]
      BY <1>1, <3>1, <3>2, LengthsOfCommands DEF Input
    <3>5. InputRead(u, r)'
      <4>1. mem'[u][r] = v
        BY <1>1, <3>3, <3>4
      <4>2. v = Meaning(u, r) \/ (v = Null /\ r = "msg" /\ Meaning(u, r) = EmptyMessage)
        BY <3>3, <3>4, OnlyMessagesEmpty
      <4>3. Readable(u, r)' /\ Meaning(u, r)' = Meaning(u, r)
        BY <3>1, <3>2 DEF Readable, Meaning, Content, Stays
      <4> QED
        BY <4>1, <4>2, <4>3 DEF InputRead
    <3>6. ASSUME NEW j \in 1 .. Len(Reads(cmd[u])), j < at[u]
          PROVE  InputRead(u, Reads(cmd[u])[j])'
      <4>1. PICK q : q = Reads(cmd[u])[j]
        OBVIOUS
      <4>2. q # r
        BY <1>1, <3>1, <3>4, <3>6, <4>1, ReadsDiffer
      <4>3. mem'[u][q] = mem[u][q]
        BY <3>3, <4>2
      <4>4. InputRead(u, q)
        BY <3>1, <3>6, <4>1 DEF Inputs
      <4>5. InputRead(u, q)'
        BY <1>2, <3>1, <4>3, <4>4
      <4>6. Reads(cmd[u])[j]' = q
        BY <3>1, <4>1 DEF Stays, Reads
      <4> QED
        BY <4>5, <4>6 DEF InputRead, Readable, Meaning, Content
    <3>7. cmd'[u] \notin {"sign", "verify"} => mem'[u]["msg"] = Blank
      <4>1. cmd'[u] \notin {"sign", "verify"} => r # "msg" /\ mem[u]["msg"] = Blank
        BY <1>1, <3>1, <3>4, ReadsDiffer DEF Inputs, Stays
      <4> QED
        BY <1>1, <3>3, <4>1
    <3>8. \A j \in 1 .. Len(Reads(cmd'[u])) :
              pc'[u] = "call" \/ j < at'[u] => InputRead(u, Reads(cmd[u])[j])'
      <4>1. /\ cmd'[u] = cmd[u]
            /\ \/ at[u] = Len(Reads(cmd[u])) /\ pc'[u] = "call"
               \/ pc'[u] = "read" /\ at'[u] = at[u] + 1
        BY <2>4 DEF InputTaken, Stays
      <4>2. ASSUME NEW j \in 1 .. Len(Reads(cmd[u])), pc'[u] = "call" \/ j < at'[u]
            PROVE  j < at[u] \/ j = at[u]
        BY <1>1, <3>1, <4>1, <4>2
      <4>3. ASSUME NEW j \in 1 .. Len(Reads(cmd[u])), j = at[u]
            PROVE  InputRead(u, Reads(cmd[u])[j])'
        <5>1. Reads(cmd[u])[j]' = r
          BY <3>4, <4>1, <4>3 DEF Reads
        <5> QED
          BY <3>5, <5>1 DEF InputRead, Readable, Meaning, Content
      <4> QED
        BY <3>6, <4>1, <4>2, <4>3
    <3> QED
      BY <1>4, <3>7, <3>8 DEF Inputs
  <2> QED
    BY <2>1, <2>2, <2>3, <2>4
<1>5. CASE pc'[u] \notin {"alloc", "read", "call"}
  BY <1>5 DEF Inputs
<1> QED
  BY <1>3, <1>4, <1>5

-----------------------------------------------------------------------------
(* The outputs already written are whole, unless an fclose failed.         *)

(* No later output of u's command goes to the file of its output j. *)
Final(u, j) ==
    \A i \in j + 1 .. Len(Writes(cmd[u])) : path[Writes(cmd[u])[i]] # path[Writes(cmd[u])[j]]

Stored(u, r) == Content(r) = [val |-> mem[u][r], len |-> Length(r, be[u])]

Outputs(u) ==
    /\ pc[u] \in {"write", "close"} => Content(Output(u)) = NoFile
    /\ After(u) /\ ~lost[u] =>
          \A j \in 1 .. Len(Writes(cmd[u])) :
              (pc[u] = "done" \/ j < at[u]) /\ Final(u, j) => Stored(u, Writes(cmd[u])[j])

LEMMA OutputsStep ==
  ASSUME ControlOK, path \in [Roles -> Roles], NEW u \in Procs, Outputs(u), Stepped(u), path' = path
  PROVE  Outputs(u)'
<1>1. /\ cmd[u] \in KemCommands \cup SigCommands /\ DOMAIN file = Roles
      /\ at[u] \in 1 .. 3 /\ Len(Writes(cmd[u])) \in 0 .. 3
      /\ pc[u] = "call" => at[u] = 1
      /\ \A j \in 1 .. Len(Writes(cmd[u])) : path[Writes(cmd[u])[j]] \in Roles
  BY ControlParts, LengthsOfCommands DEF ControlOK
<1>2. pc[u] \in Writing => at[u] \in 1 .. Len(Writes(cmd[u])) /\ Output(u) \in Roles
                           /\ Target(u) \in Roles
  BY OutputFacts DEF Target
<1>3. ASSUME pc'[u] \in {"write", "close"} PROVE Content(Output(u))' = NoFile
  <2>1. Truncated(u) \/ Buffered(u) \/ Nothing(u)
    BY <1>3 DEF Stepped, Started, Failed, Allocated, InputTaken, Called, Closed, Returned, Died,
       Edited, Running
  <2>2. cmd'[u] = cmd[u] /\ at'[u] = at[u]
    BY <2>1 DEF Truncated, Buffered, Nothing, Stays
  <2>3. Content(Output(u))' = file'[Target(u)]
    BY <2>2 DEF Content, Output, Target, Writes
  <2>4. CASE Truncated(u)
    BY <1>1, <1>2, <2>3, <2>4 DEF Truncated, Writing
  <2>5. CASE Buffered(u) \/ Nothing(u)
    BY <1>3, <2>3, <2>5 DEF Buffered, Nothing, Untouched, Outputs, Content, Target
  <2> QED
    BY <2>1, <2>4, <2>5
<1>4. ASSUME After(u)', ~lost'[u], NEW j \in 1 .. Len(Writes(cmd'[u])),
             pc'[u] = "done" \/ j < at'[u], Final(u, j)'
      PROVE  Stored(u, Writes(cmd[u])[j])'
  <2>1. cmd'[u] = cmd[u] /\ be'[u] = be[u] /\ j \in 1 .. Len(Writes(cmd[u]))
    BY <1>4, AfterStep DEF Stays
  <2>2. PICK r : r = Writes(cmd[u])[j]
    OBVIOUS
  <2>3. Writes(cmd[u])[j]' = r /\ r \in Roles /\ path[r] \in Roles
    BY <1>1, <2>1, <2>2, LengthsOfCommands DEF Writes
  <2>4. \A i \in j + 1 .. Len(Writes(cmd[u])) : path[Writes(cmd[u])[i]] # path[r]
    BY <1>4, <2>1, <2>2 DEF Final
  <2>5. ~ Called(u)
    BY <1>1, <1>4, <2>1, LengthsOfCommands DEF Called
  <2>6. After(u) /\ mem'[u] = mem[u] /\ ~lost[u]
    BY <1>4, <2>5, AfterStep
  <2>7. pc[u] = "done" \/ j < at[u] => Stored(u, r)
    BY <2>1, <2>2, <2>4, <2>6 DEF Outputs, Final
  <2>8. SUFFICES file'[path[r]] = [val |-> mem[u][r], len |-> Length(r, be[u])]
    BY <2>1, <2>3, <2>6 DEF Stored, Content
  <2>9. pc[u] \in Writing /\ j < at[u] => path[r] # Target(u)
    BY <1>2, <2>1, <2>4 DEF Target, Output
  <2>10. CASE Truncated(u) \/ Buffered(u) \/ Nothing(u)
    <3>1. pc[u] = "done" \/ j < at[u]
      BY <1>4, <2>10 DEF Truncated, Buffered, Nothing
    <3>2. file'[path[r]] = file[path[r]]
      BY <1>1, <2>3, <2>9, <2>10, <3>1 DEF Truncated, Buffered, Nothing, Untouched, Writing
    <3> QED
      BY <2>7, <3>1, <3>2 DEF Stored, Content
  <2>11. CASE Closed(u)
    <3>1. WriteOut(u) /\ pc[u] = "close"
      BY <1>4, <2>11 DEF Closed
    <3>2. CASE j < at[u]
      BY <1>1, <2>3, <2>7, <2>9, <3>1, <3>2 DEF Stored, Content, WriteOut, Writing
    <3>3. CASE j = at[u]
      <4>1. r = Output(u) /\ path[r] = Target(u) /\ file[path[r]] = NoFile
        BY <2>2, <3>1, <3>3 DEF Output, Target, Outputs, Content
      <4>2. Length(r, be[u]) \in Nat
        BY <2>3, LengthNat
      <4> QED
        BY <1>1, <2>3, <3>1, <4>1, <4>2 DEF WriteOut, NoFile
    <3>4. j < at[u] \/ j = at[u]
      BY <1>1, <1>2, <1>4, <2>1, <2>11 DEF Closed, Writing
    <3> QED
      BY <3>2, <3>3, <3>4
  <2>12. ~ Failed(u) /\ pc[u] \in Running \ {"alloc", "read", "call"} /\ pc'[u] \in Running
    BY <1>4, <2>6 DEF Failed, After, Writing, Running
  <2> QED
    BY <2>5, <2>10, <2>11, <2>12
       DEF Stepped, Started, Allocated, InputTaken, Returned, Died, Edited, Running
<1> QED
  BY <1>3, <1>4 DEF Outputs

-----------------------------------------------------------------------------
(* The two key generations.  Keys of both schemes are built alike.         *)

Pairing(c, pub, sec) ==
    \/ c = "keygen" /\ pub = "pub" /\ sec = "sec"
    \/ c = "sig-keygen" /\ pub = "sigpub" /\ sec = "sigsec"

PairMade(u, c, pub, sec) ==
    After(u) /\ cmd[u] = c =>
        /\ be[u] # "PLACEHOLDER"
        /\ \E r \in Entropy : /\ mem[u][pub] = K!PublicKey(be[u], r)
                              /\ mem[u][sec] = K!SecretKey(be[u], r)

PairSaved(c, pub, sec) ==
    c \in Commands /\ Good(c) =>
        /\ last[c].be # "PLACEHOLDER"
        /\ \E r \in Entropy :
              /\ path[pub] # path[sec] => Whole(pub, K!PublicKey(last[c].be, r), last[c].be)
              /\ Whole(sec, K!SecretKey(last[c].be, r), last[c].be)

(* What holds of the only process whatever it runs. *)
SoloInv(u) ==
    /\ ControlOK /\ BuffersOK
    /\ path \in [Roles -> Roles] /\ Separate(path)
    /\ Ledger(u) /\ Inputs(u) /\ Outputs(u)

LEMMA SoloInit ==
  ASSUME Init, NEW u, Procs = {u}, \A l \in Layouts : Separate(l)
  PROVE  SoloInv(u)
<1>1. ControlOK
  BY ControlInit
<1>2. BuffersOK
  BY DEF Init, BuffersOK, NoMemory, Running
<1>3. path \in [Roles -> Roles] /\ Separate(path)
  BY CliAssumption DEF Init
<1>4. pc[u] = "idle"
  BY DEF Init
<1>5. Inputs(u) /\ Outputs(u)
  BY <1>4 DEF Inputs, Outputs, After, Writing
<1>6. Ledger(u)
  BY LedgerInit
<1> QED
  BY <1>1, <1>2, <1>3, <1>5, <1>6 DEF SoloInv

LEMMA SoloStep ==
  ASSUME NEW u, Procs = {u}, SoloInv(u), [Next]_vars
  PROVE  SoloInv(u)' /\ Stepped(u) /\ path' = path
<1>1. Stepped(u) /\ path' = path
  BY Solo DEF SoloInv
<1>2. ControlOK' /\ BuffersOK'
  BY ControlStep, BuffersStep DEF SoloInv
<1>3. path' \in [Roles -> Roles] /\ Separate(path')
  BY <1>1 DEF SoloInv
<1>4. u \in Procs
  OBVIOUS
<1>5. Ledger(u)'
  BY <1>1, <1>4, LedgerStep DEF SoloInv
<1>6. Inputs(u)'
  BY <1>1, <1>4, InputsStep DEF SoloInv
<1>7. Outputs(u)'
  BY <1>1, <1>4, OutputsStep DEF SoloInv
<1> QED
  BY <1>1, <1>2, <1>3, <1>5, <1>6, <1>7 DEF SoloInv

(* The file of a role stays as it is while another command than those that *)
(* may write it is in progress, or none.                                   *)
LEMMA KeptBy ==
  ASSUME NEW u \in Procs, SoloInv(u), Stepped(u), path' = path, NEW r \in Roles \ {"msg"},
         pc[u] \in Running => \A q \in Shares(r) : cmd[u] # Writer(q)
  PROVE  Content(r)' = Content(r)
<1>1. pc[u] \in Writing => Output(u) \notin Shares(r)
  BY OutputFacts DEF SoloInv, Writing, Running
<1>2. file'[path[r]] = file[path[r]]
  BY <1>1, FileKept DEF SoloInv
<1> QED
  BY <1>2 DEF Content

LEMMA PairMadeStep ==
  ASSUME NEW u \in Procs, SoloInv(u), Stepped(u),
         NEW c, NEW pub, NEW sec, Pairing(c, pub, sec), PairMade(u, c, pub, sec)
  PROVE  PairMade(u, c, pub, sec)'
<1> SUFFICES ASSUME After(u)', cmd'[u] = c
             PROVE  /\ be'[u] # "PLACEHOLDER"
                    /\ \E r \in Entropy : /\ mem'[u][pub] = K!PublicKey(be'[u], r)
                                          /\ mem'[u][sec] = K!SecretKey(be'[u], r)
  BY DEF PairMade
<1>1. cmd[u] = c /\ be'[u] = be[u]
  BY AfterStep DEF Stays
<1>2. CASE After(u) /\ mem'[u] = mem[u]
  BY <1>1, <1>2 DEF PairMade
<1>3. CASE Called(u)
  <2>1. ~Refused(u) /\ mem'[u] \in Results(u) /\ DOMAIN mem[u] = Roles
    BY <1>3 DEF Called, SoloInv, BuffersOK
  <2>2. PICK r \in Entropy :
           mem'[u] = [mem[u] EXCEPT ![pub] = K!PublicKey(be[u], r), ![sec] = K!SecretKey(be[u], r)]
    BY <1>1, <2>1 DEF Pairing, Results, K!PublicKey, K!SecretKey, S!PublicKey, S!SecretKey
  <2>3. pub \in Roles /\ sec \in Roles /\ pub # sec
    BY DEF Pairing, Roles
  <2>4. be[u] # "PLACEHOLDER"
    BY <2>1 DEF Refused
  <2> QED
    BY <1>1, <2>1, <2>2, <2>3, <2>4
<1> QED
  BY <1>2, <1>3, AfterStep

(* An outcome that is good after a step was good before it, or its command *)
(* returns in this step.                                                   *)
LEMMA GoodStep ==
  ASSUME NEW u \in Procs, SoloInv(u), Stepped(u), NEW c \in Commands, Good(c)'
  PROVE  \/ /\ Good(c) /\ last'[c] = last[c]
            /\ pc[u] \in Running => cmd[u] # c /\ c \notin Downstream(cmd[u])
         \/ /\ Returned(u) /\ cmd[u] = c /\ After(u) /\ pc[u] = "done" /\ ~lost[u]
            /\ last'[c].be = be[u] /\ file' = file
<1>1. Ledger(u) /\ ControlOK
  BY DEF SoloInv
<1>2. CASE last'[c] = last[c]
  <2>1. Good(c) /\ last[c].state = "ok"
    BY <1>2 DEF Good
  <2> QED
    BY <1>1, <1>2, <2>1 DEF Ledger
<1>3. CASE /\ c = cmd[u] /\ Returned(u)
           /\ last'[c] = [state |-> IF code[u] = 0 THEN "ok" ELSE "failed", be |-> be[u],
                          lost |-> lost[u], hit |-> last[c].hit]
  <2>1. code[u] = 0 /\ ~lost[u]
    BY <1>3 DEF Good
  <2> QED
    BY <1>3, <2>1 DEF Returned, After
<1> QED
  BY <1>1, <1>2, <1>3, OutcomeStep DEF Good

LEMMA PairSavedStep ==
  ASSUME NEW u \in Procs, SoloInv(u), Stepped(u), path' = path,
         NEW c, NEW pub, NEW sec, Pairing(c, pub, sec),
         PairMade(u, c, pub, sec), PairSaved(c, pub, sec)
  PROVE  PairSaved(c, pub, sec)'
<1> SUFFICES ASSUME c \in Commands, Good(c)'
             PROVE  /\ last'[c].be # "PLACEHOLDER"
                    /\ \E r \in Entropy :
                          /\ path[pub] # path[sec] =>
                                Whole(pub, K!PublicKey(last[c].be, r), last[c].be)'
                          /\ Whole(sec, K!SecretKey(last[c].be, r), last[c].be)'
  BY DEF PairSaved
<1>1. CASE Good(c) /\ last'[c] = last[c] /\ (pc[u] \in Running => cmd[u] # c)
  <2>1. /\ pub \in Roles \ {"msg"} /\ \A q \in Shares(pub) : Writer(q) = c
        /\ sec \in Roles \ {"msg"} /\ \A q \in Shares(sec) : Writer(q) = c
    BY DEF Pairing, Roles, Shares, Writer
  <2>2. Content(pub)' = Content(pub) /\ Content(sec)' = Content(sec)
    BY <1>1, <2>1, KeptBy
  <2> QED
    BY <1>1, <2>2 DEF PairSaved, Whole
<1>2. CASE /\ cmd[u] = c /\ After(u) /\ pc[u] = "done" /\ ~lost[u]
           /\ last'[c].be = be[u] /\ file' = file
  <2>1. Writes(cmd[u]) = <<pub, sec>>
    BY <1>2 DEF Pairing, Writes
  <2>2. Final(u, 2) /\ (path[pub] # path[sec] => Final(u, 1))
    BY <2>1 DEF Final
  <2>3. Stored(u, sec) /\ (path[pub] # path[sec] => Stored(u, pub))
    <3>1. \A j \in 1 .. 2 : Final(u, j) => Stored(u, Writes(cmd[u])[j])
      BY <1>2, <2>1 DEF SoloInv, Outputs
    <3> QED
      BY <2>1, <2>2, <3>1
  <2>4. Content(sec)' = Content(sec) /\ Content(pub)' = Content(pub)
    BY <1>2 DEF Content
  <2> QED
    BY <1>2, <2>3, <2>4 DEF PairMade, Stored, Whole
<1> QED
  BY <1>1, <1>2, GoodStep

PairInv(u) ==
    \A c, pub, sec \in {"keygen", "sig-keygen"} \cup Roles : Pairing(c, pub, sec) =>
        PairMade(u, c, pub, sec) /\ PairSaved(c, pub, sec)

LEMMA PairInit ==
  ASSUME Init, NEW u \in Procs
  PROVE  PairInv(u)
<1>1. pc[u] = "idle" /\ \A c \in Commands : last[c].state = "none"
  BY DEF Init, NeverRan
<1> QED
  BY <1>1 DEF PairInv, PairMade, PairSaved, After, Writing, Good

LEMMA PairStep ==
  ASSUME NEW u \in Procs, SoloInv(u), Stepped(u), path' = path, PairInv(u)
  PROVE  PairInv(u)'
<1> SUFFICES ASSUME NEW c \in {"keygen", "sig-keygen"} \cup Roles,
                    NEW pub \in {"keygen", "sig-keygen"} \cup Roles,
                    NEW sec \in {"keygen", "sig-keygen"} \cup Roles, Pairing(c, pub, sec)
             PROVE  PairMade(u, c, pub, sec)' /\ PairSaved(c, pub, sec)'
  BY DEF PairInv
<1>1. PairMade(u, c, pub, sec) /\ PairSaved(c, pub, sec)
  BY DEF PairInv
<1> QED
  BY <1>1, PairMadeStep, PairSavedStep

LEMMA PairFacts ==
  ASSUME NEW u \in Procs, PairInv(u)
  PROVE  PairSaved("keygen", "pub", "sec") /\ PairSaved("sig-keygen", "sigpub", "sigsec")
BY DEF PairInv, Pairing, Roles

(* PairOnDisk: when a key generation exits 0 and its fcloses worked, the   *)
(* key files are whole and belong together, whatever failed, was killed or *)
(* ran again before; for one user, who shares no key file with another     *)
(* artifact.                                                               *)
THEOREM PairsSaved ==
  ASSUME NEW u, Procs = {u}, \A l \in Layouts : Separate(l)
  PROVE  Spec => []PairOnDisk
<1> u \in Procs
  OBVIOUS
<1>1. Init => SoloInv(u) /\ PairInv(u)
  BY SoloInit, PairInit
<1>2. SoloInv(u) /\ PairInv(u) /\ [Next]_vars => SoloInv(u)' /\ PairInv(u)'
  BY SoloStep, PairStep
<1>3. PairInv(u) => PairOnDisk
  <2> SUFFICES ASSUME PairInv(u) PROVE PairOnDisk
    OBVIOUS
  <2>1. PairSaved("keygen", "pub", "sec") /\ PairSaved("sig-keygen", "sigpub", "sigsec")
    BY PairFacts
  <2>2. \A b, r : S!PublicKey(b, r) = K!PublicKey(b, r) /\ S!SecretKey(b, r) = K!SecretKey(b, r)
    BY DEF S!PublicKey, K!PublicKey, S!SecretKey, K!SecretKey
  <2> QED
    BY <2>1, <2>2 DEF PairSaved, PairOnDisk
<1> QED
  BY <1>1, <1>2, <1>3, PTL DEF Spec

-----------------------------------------------------------------------------
(* keygen, encaps, decaps.                                                 *)

(* A backend finds the public key in a secret key of its own. *)
LEMMA KeyFound ==
  ASSUME NEW b, NEW r \in Entropy
  PROVE  /\ K!EmbeddedKey(b, K!SecretKey(b, r)) = K!PublicKey(b, r)
         /\ S!EmbeddedKey(b, S!SecretKey(b, r)) = S!PublicKey(b, r)
<1>1. \A q : K!SecretKey(b, r) = K!SecretKey(b, q) => r = q
  BY DEF K!SecretKey
<1>2. \A q : S!SecretKey(b, r) = S!SecretKey(b, q) => r = q
  BY DEF S!SecretKey
<1> DEFINE k == CHOOSE q \in Entropy : K!SecretKey(b, r) = K!SecretKey(b, q)
           s == CHOOSE q \in Entropy : S!SecretKey(b, r) = S!SecretKey(b, q)
<1>3. k \in Entropy /\ K!SecretKey(b, r) = K!SecretKey(b, k)
  OBVIOUS
<1>4. s \in Entropy /\ S!SecretKey(b, r) = S!SecretKey(b, s)
  OBVIOUS
<1>5. k = r /\ s = r
  BY <1>1, <1>2, <1>3, <1>4
<1> QED
  BY <1>5 DEF K!EmbeddedKey, S!EmbeddedKey

(* The key pair of backend b is on disk, in two files. *)
KeyKnown(b) == Good("keygen") /\ last["keygen"].be = b /\ path["pub"] # path["sec"]

LEMMA KeyOnDisk ==
  ASSUME NEW b, KeyKnown(b), PairSaved("keygen", "pub", "sec"), "keygen" \in Commands
  PROVE  \E r \in Entropy : /\ Whole("pub", K!PublicKey(b, r), b)
                            /\ Whole("sec", K!SecretKey(b, r), b)
BY DEF KeyKnown, PairSaved

EncMade(u) ==
    After(u) /\ cmd[u] = "encaps" =>
        /\ be[u] # "PLACEHOLDER"
        /\ \E key : \E n \in Entropy :
              /\ mem[u]["ct"] = K!Ciphertext(be[u], key, n)
              /\ mem[u]["ss"] = K!Secret(be[u], key, n)
              /\ KeyKnown(be[u]) => key = Content("pub").val

(* The ciphertext may be gone again: decaps overwrote it with the secret.  *)
EncSaved ==
    Good("encaps") =>
        LET b == last["encaps"].be IN
        /\ b # "PLACEHOLDER"
        /\ \E key : \E n \in Entropy :
              /\ Whole("ss", K!Secret(b, key, n), b)
              /\ \/ Whole("ct", K!Ciphertext(b, key, n), b)
                 \/ path["dss"] = path["ct"] /\ Content("ct").len < 768
              /\ KeyKnown(b) => key = Content("pub").val

DecMade(u) ==
    After(u) /\ cmd[u] = "decaps" /\ Good("encaps") =>
        \/ mem[u]["dss"] = Content("ss").val
        \/ /\ be[u] # "DUMMY" /\ mem[u]["dss"] = K!RejectKey
           /\ ~ (KeyKnown(last["encaps"].be) /\ last["encaps"].be = be[u])

DecSaved ==
    Good("encaps") /\ Good("decaps") =>
        LET b == last["decaps"].be IN
        \/ Content("dss") = Content("ss")
        \/ /\ b # "DUMMY" /\ Whole("dss", K!RejectKey, b)
           /\ ~ (KeyKnown(last["encaps"].be) /\ last["encaps"].be = b)

(* All the steps before decaps went well, for a decaps on backend b. *)
Prepared(b) == Good("encaps") /\ KeyKnown(b) /\ last["encaps"].be = b /\ Apart

DecClean(u) ==
    pc[u] \in Running /\ cmd[u] = "decaps" /\ Prepared(be[u]) /\ ~last["decaps"].hit =>
        code[u] = 0

DecCleanSaved ==
    Prepared(last["decaps"].be) /\ Done("decaps") /\ ~last["decaps"].hit =>
        last["decaps"].state = "ok"

ScriptInv(u) ==
    /\ PairSaved("keygen", "pub", "sec")
    /\ EncMade(u) /\ EncSaved /\ DecMade(u) /\ DecSaved /\ DecClean(u) /\ DecCleanSaved

LEMMA EncMadeStep ==
  ASSUME NEW u \in Procs, SoloInv(u), Stepped(u), path' = path, KemCommands \subseteq Commands,
         ScriptInv(u)
  PROVE  EncMade(u)'
<1> SUFFICES ASSUME After(u)', cmd'[u] = "encaps"
             PROVE  /\ be'[u] # "PLACEHOLDER"
                    /\ \E key : \E n \in Entropy :
                          /\ mem'[u]["ct"] = K!Ciphertext(be'[u], key, n)
                          /\ mem'[u]["ss"] = K!Secret(be'[u], key, n)
                          /\ KeyKnown(be[u])' => key = Content("pub").val'
  BY DEF EncMade
<1>1. cmd[u] = "encaps" /\ be'[u] = be[u] /\ "keygen" \in Commands
  BY AfterStep DEF Stays, KemCommands
<1>2. ASSUME After(u), mem'[u] = mem[u]
      PROVE  /\ KeyKnown(be[u])' => KeyKnown(be[u])
             /\ Content("pub").val' = Content("pub").val
  <2>1. pc[u] \in Running
    BY <1>2 DEF After, Writing, Running
  <2>2. last'["keygen"] = last["keygen"]
    BY <1>1, <2>1, OthersKept DEF SoloInv
  <2>3. "pub" \in Roles \ {"msg"} /\ \A q \in Shares("pub") : Writer(q) = "keygen"
    BY DEF Roles, Shares, Writer
  <2>4. Content("pub")' = Content("pub")
    BY <1>1, <2>3, KeptBy
  <2> QED
    BY <1>1, <2>2, <2>4 DEF KeyKnown, Good
<1>3. CASE After(u) /\ mem'[u] = mem[u]
  BY <1>1, <1>2, <1>3 DEF ScriptInv, EncMade
<1>4. CASE Called(u)
  <2>1. ~Refused(u) /\ mem'[u] \in Results(u) /\ DOMAIN mem[u] = Roles /\ pc[u] = "call"
        /\ file' = file /\ last' = last
    BY <1>4 DEF Called, SoloInv, BuffersOK, Untouched
  <2>2. PICK n \in Entropy :
           mem'[u] = [mem[u] EXCEPT !["ct"] = K!Ciphertext(be[u], mem[u]["pub"], n),
                                    !["ss"] = K!Secret(be[u], mem[u]["pub"], n)]
    BY <1>1, <2>1 DEF Results
  <2>3. /\ mem'[u]["ct"] = K!Ciphertext(be[u], mem[u]["pub"], n)
        /\ mem'[u]["ss"] = K!Secret(be[u], mem[u]["pub"], n)
    BY <2>1, <2>2 DEF Roles
  <2>4. Content("pub").val' = Content("pub").val /\ (KeyKnown(be[u])' => KeyKnown(be[u]))
    BY <1>1, <2>1 DEF Content, KeyKnown, Good
  <2>5. KeyKnown(be[u]) => mem[u]["pub"] = Content("pub").val
    <3>1. Len(Reads(cmd[u])) = 1 /\ Reads(cmd[u])[1] = "pub"
      BY <1>1 DEF Reads
    <3>2. mem[u]["pub"] = Meaning(u, "pub")
      BY <2>1, <3>1 DEF SoloInv, Inputs, InputRead
    <3>3. KeyKnown(be[u]) => \E r \in Entropy : Content("pub").val = K!PublicKey(be[u], r)
      BY <1>1, KeyOnDisk DEF ScriptInv, Whole
    <3>4. KeyKnown(be[u]) => Content("pub").val[1] = "pk"
      BY <3>3 DEF K!PublicKey
    <3> QED
      BY <3>2, <3>4 DEF Meaning, Kind
  <2>6. be[u] # "PLACEHOLDER"
    BY <2>1 DEF Refused
  <2> QED
    BY <1>1, <2>3, <2>4, <2>5, <2>6
<1> QED
  BY <1>3, <1>4, AfterStep

(* While encaps is good, the ciphertext's file is written only by a decaps *)
(* that was given it for the secret, and that leaves it too short.         *)
LEMMA CiphertextStep ==
  ASSUME NEW u \in Procs, SoloInv(u), Stepped(u), path' = path,
         pc[u] \in Running => cmd[u] # "encaps"
  PROVE  \/ Content("ct")' = Content("ct")
         \/ path["dss"] = path["ct"] /\ Content("ct").len' < 768
<1>1. "ct" \in Roles \ {"msg"} /\ \A q \in Shares("ct") : Writer(q) \in {"encaps", "decaps"}
  BY DEF Roles, Shares, Writer
<1>2. CASE ~ (pc[u] \in Writing /\ cmd[u] = "decaps")
  <2>1. pc[u] \in Writing => Output(u) \notin Shares("ct")
    BY <1>1, <1>2, OutputFacts DEF SoloInv, Writing, Running
  <2>2. file'[path["ct"]] = file[path["ct"]]
    BY <1>1, <2>1, FileKept DEF SoloInv
  <2> QED
    BY <2>2 DEF Content
<1>3. CASE pc[u] \in Writing /\ cmd[u] = "decaps"
  <2>1. Output(u) = "dss" /\ Target(u) = path["dss"]
    BY <1>3, OutputFacts DEF SoloInv, Writer, Target, Roles
  <2>2. Length("dss", be[u]) = 32
    BY DEF Length, K!Size
  <2>3. DOMAIN file = Roles /\ path["ct"] \in Roles /\ path["dss"] \in Roles
    BY ControlParts DEF SoloInv, Roles
  <2>4. CASE path["dss"] # path["ct"]
    <3>1. file'[path["ct"]] = file[path["ct"]]
      <4>1. CASE Truncated(u)
        BY <2>1, <2>3, <2>4, <4>1 DEF Truncated
      <4>2. CASE Closed(u)
        BY <2>1, <2>3, <2>4, <4>2 DEF Closed, WriteOut, WrittenPartly
      <4>3. CASE Failed(u)
        BY <2>1, <2>3, <2>4, <4>3 DEF Failed, WrittenPartly
      <4> QED
        BY <1>3, <4>1, <4>2, <4>3
           DEF Stepped, Started, Allocated, InputTaken, Called, Buffered, Returned, Died,
               Edited, Nothing, Untouched, Writing, Running
    <3> QED
      BY <3>1 DEF Content
  <2>5. CASE path["dss"] = path["ct"]
    <3>1. pc[u] \in {"write", "close"} => file[path["ct"]] = NoFile
      BY <2>1, <2>5 DEF SoloInv, Outputs, Content
    <3>2. file'[path["ct"]] = file[path["ct"]] \/ file'[path["ct"]].len < 768
      <4>1. CASE Truncated(u)
        BY <2>1, <2>3, <2>5, <4>1 DEF Truncated, NoFile
      <4>2. CASE WrittenPartly(u) /\ pc[u] \in {"write", "close"}
        BY <2>1, <2>2, <2>3, <2>5, <3>1, <4>2 DEF WrittenPartly, NoFile
      <4>3. CASE WriteOut(u) /\ pc[u] = "close"
        BY <2>1, <2>2, <2>3, <2>5, <3>1, <4>3 DEF WriteOut, NoFile
      <4>4. file' = file \/ Truncated(u) \/ Closed(u) \/ Failed(u)
        BY <1>3
           DEF Stepped, Started, Allocated, InputTaken, Called, Buffered, Returned, Died,
               Edited, Nothing, Untouched, Writing, Running
      <4> QED
        BY <4>1, <4>2, <4>3, <4>4 DEF Closed, Failed
    <3> QED
      BY <2>5, <3>2 DEF Content
  <2> QED
    BY <2>4, <2>5
<1> QED
  BY <1>2, <1>3

(* The key pair that is known after a step of another command was known    *)
(* before.                                                                 *)
LEMMA KeyKnownStep ==
  ASSUME NEW u \in Procs, SoloInv(u), Stepped(u), path' = path, "keygen" \in Commands,
         NEW b, KeyKnown(b)', pc[u] \in Running => cmd[u] # "keygen"
  PROVE  KeyKnown(b)
<1>1. Good("keygen")' /\ last'["keygen"].be = b
  BY DEF KeyKnown
<1>2. Good("keygen") /\ last'["keygen"] = last["keygen"]
  BY <1>1, GoodStep DEF Running, Returned
<1> QED
  BY <1>1, <1>2 DEF KeyKnown

LEMMA PublicKept ==
  ASSUME NEW u \in Procs, SoloInv(u), Stepped(u), path' = path,
         pc[u] \in Running => cmd[u] # "keygen"
  PROVE  Content("pub")' = Content("pub")
<1>1. "pub" \in Roles \ {"msg"} /\ \A q \in Shares("pub") : Writer(q) = "keygen"
  BY DEF Roles, Shares, Writer
<1> QED
  BY <1>1, KeptBy

LEMMA SecretKept ==
  ASSUME NEW u \in Procs, SoloInv(u), Stepped(u), path' = path,
         pc[u] \in Running => cmd[u] # "encaps"
  PROVE  Content("ss")' = Content("ss")
<1>1. "ss" \in Roles \ {"msg"} /\ \A q \in Shares("ss") : Writer(q) = "encaps"
  BY DEF Roles, Shares, Writer
<1> QED
  BY <1>1, KeptBy

LEMMA EncSavedStep ==
  ASSUME NEW u \in Procs, SoloInv(u), Stepped(u), path' = path, KemCommands \subseteq Commands,
         ScriptInv(u)
  PROVE  EncSaved'
<1> SUFFICES ASSUME Good("encaps")', NEW b, b = last'["encaps"].be
             PROVE  /\ b # "PLACEHOLDER"
                    /\ \E key : \E n \in Entropy :
                          /\ Whole("ss", K!Secret(b, key, n), b)'
                          /\ \/ Whole("ct", K!Ciphertext(b, key, n), b)'
                             \/ path["dss"] = path["ct"] /\ Content("ct").len' < 768
                          /\ KeyKnown(b)' => key = Content("pub").val'
  BY DEF EncSaved
<1>1. "keygen" \in Commands /\ "encaps" \in Commands /\ "encaps" \in Downstream("keygen")
  BY DEF KemCommands, Downstream
<1>2. CASE /\ Good("encaps") /\ last'["encaps"] = last["encaps"]
           /\ pc[u] \in Running => cmd[u] # "encaps" /\ "encaps" \notin Downstream(cmd[u])
  <2>1. pc[u] \in Running => cmd[u] # "keygen"
    BY <1>1, <1>2
  <2>2. PICK key : \E n \in Entropy :
           /\ Whole("ss", K!Secret(b, key, n), b)
           /\ \/ Whole("ct", K!Ciphertext(b, key, n), b)
              \/ path["dss"] = path["ct"] /\ Content("ct").len < 768
           /\ KeyKnown(b) => key = Content("pub").val
    BY <1>2 DEF ScriptInv, EncSaved
  <2>3. KeyKnown(b)' => KeyKnown(b)
    BY <1>1, <2>1, KeyKnownStep
  <2>4. Content("pub")' = Content("pub") /\ Content("ss")' = Content("ss")
    BY <1>2, <2>1, PublicKept, SecretKept
  <2>5. \/ Content("ct")' = Content("ct")
        \/ path["dss"] = path["ct"] /\ Content("ct").len' < 768
    BY <1>2, CiphertextStep
  <2>6. b # "PLACEHOLDER"
    BY <1>2 DEF ScriptInv, EncSaved
  <2> QED
    BY <2>2, <2>3, <2>4, <2>5, <2>6 DEF Whole
<1>3. CASE /\ cmd[u] = "encaps" /\ After(u) /\ pc[u] = "done" /\ ~lost[u]
           /\ last'["encaps"].be = be[u] /\ file' = file
  <2>1. b # "PLACEHOLDER" /\ b = be[u]
    BY <1>3 DEF ScriptInv, EncMade
  <2>2. PICK key : \E n \in Entropy :
           /\ mem[u]["ct"] = K!Ciphertext(b, key, n)
           /\ mem[u]["ss"] = K!Secret(b, key, n)
           /\ KeyKnown(b) => key = Content("pub").val
    BY <1>3, <2>1 DEF ScriptInv, EncMade
  <2>3. Stored(u, "ct") /\ Stored(u, "ss")
    <3>1. Writes(cmd[u]) = <<"ct", "ss">>
      BY <1>3 DEF Writes
    <3>2. path["ct"] # path["ss"]
      BY DEF SoloInv, Separate, Shares, Roles
    <3>3. Final(u, 1) /\ Final(u, 2)
      BY <3>1, <3>2 DEF Final
    <3>4. \A j \in 1 .. 2 : Final(u, j) => Stored(u, Writes(cmd[u])[j])
      BY <1>3, <3>1 DEF SoloInv, Outputs
    <3> QED
      BY <3>1, <3>3, <3>4
  <2>4. \A r : Content(r)' = Content(r)
    BY <1>3 DEF Content
  <2>5. KeyKnown(b)' => KeyKnown(b)
    BY <1>1, <1>3, KeyKnownStep
  <2> QED
    BY <2>1, <2>2, <2>3, <2>4, <2>5 DEF Stored, Whole
<1> QED
  BY <1>1, <1>2, <1>3, GoodStep

-----------------------------------------------------------------------------
(* decaps, and the whole script.                                           *)

(* Whoever can read the ciphertext's file after a good encaps reads what   *)
(* encaps wrote.                                                           *)
LEMMA CiphertextRead ==
  ASSUME NEW u \in Procs, SoloInv(u), EncSaved, Good("encaps"), InputRead(u, "ct"), NEW b, b = last["encaps"].be
  PROVE  \E key : \E n \in Entropy :
            /\ mem[u]["ct"] = K!Ciphertext(b, key, n)
            /\ Content("ss").val = K!Secret(b, key, n)
            /\ KeyKnown(b) => key = Content("pub").val
<1>1. PICK key : \E n \in Entropy :
         /\ Whole("ss", K!Secret(b, key, n), b)
         /\ \/ Whole("ct", K!Ciphertext(b, key, n), b)
            \/ path["dss"] = path["ct"] /\ Content("ct").len < 768
         /\ KeyKnown(b) => key = Content("pub").val
  BY DEF EncSaved
<1>2. PICK n \in Entropy :
         /\ Whole("ss", K!Secret(b, key, n), b)
         /\ \/ Whole("ct", K!Ciphertext(b, key, n), b)
            \/ path["dss"] = path["ct"] /\ Content("ct").len < 768
         /\ KeyKnown(b) => key = Content("pub").val
  BY <1>1
<1>3. Content("ct").len >= Length("ct", be[u]) /\ Length("ct", be[u]) \in {768, 1088}
  BY DEF InputRead, Readable, Length, K!Size
<1>4. Content("ct").val = K!Ciphertext(b, key, n)
  <2>1. CASE Whole("ct", K!Ciphertext(b, key, n), b)
    BY <2>1 DEF Whole
  <2>2. CASE Content("ct").len < 768
    <3>1. Content("ct").len \in Nat
      BY ControlParts DEF SoloInv, Content, Roles
    <3> QED
      BY <1>3, <2>2, <3>1
  <2> QED
    BY <1>2, <2>1, <2>2
<1>5. mem[u]["ct"] = Content("ct").val
  <2>1. mem[u]["ct"] = Meaning(u, "ct")
    BY DEF InputRead
  <2>2. Content("ct").val[1] = "ct"
    BY <1>4 DEF K!Ciphertext
  <2> QED
    BY <2>1, <2>2 DEF Meaning, Kind
<1> QED
  BY <1>2, <1>4, <1>5 DEF Whole

(* After good runs of keygen and encaps on its backend, decaps opens the   *)
(* ciphertext.                                                             *)
LEMMA PreparedOpens ==
  ASSUME NEW u \in Procs, SoloInv(u), EncSaved, PairSaved("keygen", "pub", "sec"), "keygen" \in Commands,
         Good("encaps"), last["encaps"].be = be[u], KeyKnown(be[u]),
         InputRead(u, "sec"), InputRead(u, "ct")
  PROVE  Opened(u)
<1>1. PICK key : \E n \in Entropy :
         mem[u]["ct"] = K!Ciphertext(be[u], key, n) /\ key = Content("pub").val
  BY CiphertextRead
<1>2. PICK r \in Entropy : /\ Whole("pub", K!PublicKey(be[u], r), be[u])
                           /\ Whole("sec", K!SecretKey(be[u], r), be[u])
  BY KeyOnDisk
<1>3. mem[u]["sec"] = K!SecretKey(be[u], r)
  <2>1. mem[u]["sec"] = Meaning(u, "sec") /\ Content("sec").val = K!SecretKey(be[u], r)
    BY <1>2 DEF InputRead, Whole
  <2>2. Content("sec").val[1] = "sk"
    BY <2>1 DEF K!SecretKey
  <2> QED
    BY <2>1, <2>2 DEF Meaning, Kind
<1>4. K!EmbeddedKey(be[u], mem[u]["sec"]) = key
  BY <1>1, <1>2, <1>3, KeyFound DEF Whole
<1> QED
  BY <1>1, <1>4 DEF Opened, K!Opens

LEMMA DecapsReads ==
  ASSUME NEW u \in Procs, SoloInv(u), pc[u] = "call", cmd[u] = "decaps"
  PROVE  InputRead(u, "sec") /\ InputRead(u, "ct") /\ mem[u]["msg"] = Blank
<1>1. Len(Reads(cmd[u])) = 2 /\ Reads(cmd[u])[1] = "sec" /\ Reads(cmd[u])[2] = "ct"
  BY DEF Reads
<1> QED
  BY <1>1 DEF SoloInv, Inputs

LEMMA DecMadeStep ==
  ASSUME NEW u \in Procs, SoloInv(u), Stepped(u), path' = path, KemCommands \subseteq Commands,
         ScriptInv(u)
  PROVE  DecMade(u)'
<1> SUFFICES ASSUME After(u)', cmd'[u] = "decaps", Good("encaps")'
             PROVE  \/ mem'[u]["dss"] = Content("ss").val'
                    \/ /\ be'[u] # "DUMMY" /\ mem'[u]["dss"] = K!RejectKey
                       /\ ~ (KeyKnown(last["encaps"].be)' /\ last'["encaps"].be = be'[u])
  BY DEF DecMade
<1>1. /\ cmd[u] = "decaps" /\ be'[u] = be[u] /\ pc[u] \in Running
      /\ {"keygen", "encaps", "decaps"} \subseteq Commands
  BY AfterStep DEF Stays, KemCommands, After, Called, Writing, Running
<1>2. last'["encaps"] = last["encaps"] /\ last'["keygen"] = last["keygen"] /\ Good("encaps")
  BY <1>1, OthersKept DEF SoloInv, Good
<1>3. Content("ss")' = Content("ss") /\ \A b : KeyKnown(b)' => KeyKnown(b)
  BY <1>1, <1>2, SecretKept DEF KeyKnown, Good
<1>4. CASE After(u) /\ mem'[u] = mem[u]
  <2>1. \/ mem[u]["dss"] = Content("ss").val
        \/ /\ be[u] # "DUMMY" /\ mem[u]["dss"] = K!RejectKey
           /\ ~ (KeyKnown(last["encaps"].be) /\ last["encaps"].be = be[u])
    BY <1>1, <1>2, <1>4 DEF ScriptInv, DecMade
  <2>2. KeyKnown(last["encaps"].be)' => KeyKnown(last["encaps"].be)
    BY <1>2 DEF KeyKnown, Good
  <2> QED
    BY <1>1, <1>2, <1>3, <1>4, <2>1, <2>2
<1>5. CASE Called(u)
  <2>1. ~Refused(u) /\ mem'[u] \in Results(u) /\ DOMAIN mem[u] = Roles /\ pc[u] = "call"
    BY <1>5 DEF Called, SoloInv, BuffersOK
  <2>2. mem'[u]["dss"] = IF Opened(u) THEN K!SecretIn(mem[u]["ct"]) ELSE K!RejectKey
    BY <1>1, <2>1 DEF Results, Roles
  <2>3. InputRead(u, "sec") /\ InputRead(u, "ct")
    BY <1>1, <2>1, DecapsReads
  <2>4. CASE Opened(u)
    <3>1. \E key : \E n \in Entropy :
             /\ mem[u]["ct"] = K!Ciphertext(last["encaps"].be, key, n)
             /\ Content("ss").val = K!Secret(last["encaps"].be, key, n)
      BY <1>2, <2>3, CiphertextRead DEF ScriptInv
    <3>2. K!SecretIn(mem[u]["ct"]) = Content("ss").val
      BY <3>1 DEF K!SecretIn, K!Ciphertext
    <3> QED
      BY <1>3, <2>2, <2>4, <3>2
  <2>5. CASE ~Opened(u)
    <3>1. be[u] # "DUMMY"
      BY <1>1, <2>1, <2>5 DEF Refused
    <3>2. ~ (KeyKnown(last["encaps"].be) /\ last["encaps"].be = be[u])
      BY <1>1, <1>2, <2>3, <2>5, PreparedOpens DEF ScriptInv
    <3>3. KeyKnown(last["encaps"].be)' => KeyKnown(last["encaps"].be)
      BY <1>2 DEF KeyKnown, Good
    <3> QED
      BY <1>1, <1>2, <2>2, <2>5, <3>1, <3>2, <3>3
  <2> QED
    BY <2>4, <2>5
<1> QED
  BY <1>4, <1>5, AfterStep

LEMMA DecSavedStep ==
  ASSUME NEW u \in Procs, SoloInv(u), Stepped(u), path' = path, KemCommands \subseteq Commands,
         ScriptInv(u)
  PROVE  DecSaved'
<1> SUFFICES ASSUME Good("encaps")', Good("decaps")', NEW b, b = last'["decaps"].be,
                    NEW e, e = last'["encaps"].be
             PROVE  \/ Content("dss")' = Content("ss")'
                    \/ /\ b # "DUMMY" /\ Whole("dss", K!RejectKey, b)'
                       /\ ~ (KeyKnown(e)' /\ e = b)
  BY DEF DecSaved
<1>1. /\ {"keygen", "encaps", "decaps"} \subseteq Commands
      /\ "decaps" \in Downstream("keygen") /\ "decaps" \in Downstream("encaps")
      /\ "encaps" \in Downstream("keygen")
  BY DEF KemCommands, Downstream
<1>2. CASE /\ Good("decaps") /\ last'["decaps"] = last["decaps"]
           /\ pc[u] \in Running => cmd[u] # "decaps" /\ "decaps" \notin Downstream(cmd[u])
  <2>1. pc[u] \in Running => cmd[u] \notin {"keygen", "encaps", "decaps"}
    BY <1>1, <1>2
  <2>2. Good("encaps") /\ last'["encaps"] = last["encaps"]
    BY <1>1, <2>1, GoodStep DEF Running
  <2>3. KeyKnown(e)' => KeyKnown(e)
    BY <1>1, <2>1, KeyKnownStep
  <2>4. "dss" \in Roles \ {"msg"} /\ \A q \in Shares("dss") : Writer(q) \in {"encaps", "decaps"}
    BY DEF Roles, Shares, Writer
  <2>5. Content("ss")' = Content("ss") /\ Content("dss")' = Content("dss")
    BY <2>1, <2>4, SecretKept, KeptBy
  <2>6. \/ Content("dss") = Content("ss")
        \/ b # "DUMMY" /\ Whole("dss", K!RejectKey, b) /\ ~ (KeyKnown(e) /\ e = b)
    BY <1>2, <2>2 DEF ScriptInv, DecSaved
  <2> QED
    BY <2>3, <2>5, <2>6 DEF Whole
<1>3. CASE /\ cmd[u] = "decaps" /\ After(u) /\ pc[u] = "done" /\ ~lost[u]
           /\ last'["decaps"].be = be[u] /\ file' = file
  <2>1. last'["encaps"] = last["encaps"] /\ last'["keygen"] = last["keygen"] /\ Good("encaps")
    BY <1>1, <1>3, OthersKept DEF SoloInv, Good, Running
  <2>2. Stored(u, "dss")
    <3>1. Writes(cmd[u]) = <<"dss">>
      BY <1>3 DEF Writes
    <3>2. Final(u, 1)
      BY <3>1 DEF Final
    <3>3. \A j \in 1 .. 1 : Final(u, j) => Stored(u, Writes(cmd[u])[j])
      BY <1>3, <3>1 DEF SoloInv, Outputs
    <3> QED
      BY <3>1, <3>2, <3>3
  <2>3. \A r : Content(r)' = Content(r)
    BY <1>3 DEF Content
  <2>4. KeyKnown(e)' => KeyKnown(e)
    BY <2>1 DEF KeyKnown, Good
  <2>5. CASE mem[u]["dss"] = Content("ss").val
    <3>1. Content("dss") = [val |-> Content("ss").val, len |-> 32]
      BY <2>2, <2>5 DEF Stored, Length, K!Size
    <3>2. \E v : Content("ss") = [val |-> v, len |-> 32]
      BY <2>1 DEF ScriptInv, EncSaved, Whole, Length, K!Size
    <3> QED
      BY <2>3, <3>1, <3>2
  <2>6. CASE /\ be[u] # "DUMMY" /\ mem[u]["dss"] = K!RejectKey
             /\ ~ (KeyKnown(last["encaps"].be) /\ last["encaps"].be = be[u])
    BY <1>3, <2>1, <2>2, <2>3, <2>4, <2>6 DEF Stored, Whole
  <2> QED
    BY <1>3, <2>1, <2>5, <2>6 DEF ScriptInv, DecMade
<1> QED
  BY <1>1, <1>2, <1>3, GoodStep

(* After good runs of keygen and encaps, with a file for each role, only a *)
(* fault makes decaps fail.                                                *)
LEMMA DecCleanStep ==
  ASSUME NEW u \in Procs, SoloInv(u), SoloInv(u)', Stepped(u), path' = path,
         KemCommands \subseteq Commands, ScriptInv(u)
  PROVE  DecClean(u)'
<1> SUFFICES ASSUME pc'[u] \in Running, cmd'[u] = "decaps", Prepared(be[u])', ~last'["decaps"].hit
             PROVE  code'[u] = 0
  BY DEF DecClean
<1>1. /\ last \in [Commands -> Outcomes]
      /\ {"keygen", "encaps", "decaps"} \subseteq Commands
  BY DEF SoloInv, Ledger, KemCommands
<1>2. CASE pc'[u] # "done"
  BY <1>2 DEF SoloInv, Ledger
<1>3. CASE pc'[u] = "done" /\ ~Failed(u)
  <2>1. Closed(u) \/ Called(u) \/ Nothing(u)
    BY <1>3 DEF Stepped, Started, Allocated, InputTaken, Truncated, Buffered, Returned, Died,
       Edited, Running
  <2>2. cmd[u] = "decaps" /\ be'[u] = be[u]
    BY <2>1 DEF Closed, Called, Nothing, Stays
  <2>3. CASE Closed(u) \/ Called(u)
    BY <2>3 DEF Closed, Called, SoloInv, Ledger, Running
  <2>4. CASE Nothing(u)
    BY <1>3, <2>2, <2>4
       DEF Nothing, Untouched, ScriptInv, DecClean, Prepared, Good, KeyKnown, Apart, Running
  <2> QED
    BY <2>1, <2>3, <2>4
<1>4. CASE Failed(u)
  <2>1. /\ pc[u] \in Running \ {"done"} /\ cmd[u] = "decaps" /\ be'[u] = be[u]
    BY <1>4 DEF Failed, Stays
  <2>2. last'["encaps"] = last["encaps"] /\ last'["keygen"] = last["keygen"]
    BY <1>1, <2>1, OthersKept DEF SoloInv
  <2>3. /\ Good("encaps") /\ last["encaps"].be = be[u] /\ KeyKnown(be[u]) /\ Apart
    BY <2>1, <2>2 DEF Prepared, Good, KeyKnown, Apart
  <2>4. ~ Hits(u)
    BY <1>1, <2>1 DEF Hits, Outcomes
  <2>5. CASE pc[u] = "read" /\ (~ Readable(u, Input(u)) \/ Content(Input(u)) = NoFile)
    <3>1. Input(u) \in {"sec", "ct"}
      <4>1. at[u] \in 1 .. Len(Reads(cmd[u]))
        BY <2>5, ControlParts, LengthsOfCommands DEF SoloInv, ControlOK
      <4> QED
        BY <2>1, <4>1 DEF Input, Reads
    <3>2. \E v : Content("sec") = [val |-> v, len |-> Length("sec", be[u])] /\ v # Blank
      <4>1. \E r \in Entropy : Whole("sec", K!SecretKey(be[u], r), be[u])
        BY <1>1, <2>3, KeyOnDisk DEF ScriptInv
      <4> QED
        BY <4>1 DEF Whole, K!SecretKey, Blank
    <3>3. \E v : Content("ct") = [val |-> v, len |-> Length("ct", be[u])] /\ v # Blank
      <4>1. path["dss"] # path["ct"]
        BY <2>3 DEF Apart, Roles
      <4>2. \E key : \E n \in Entropy : Whole("ct", K!Ciphertext(be[u], key, n), be[u])
        BY <2>3, <4>1 DEF ScriptInv, EncSaved
      <4> QED
        BY <4>2 DEF Whole, K!Ciphertext, Blank
    <3>4. Length("sec", be[u]) \in Nat /\ Length("ct", be[u]) \in Nat
      BY LengthNat DEF Roles
    <3>5. Readable(u, Input(u))
      BY <3>1, <3>2, <3>3, <3>4 DEF Readable
    <3>6. Content(Input(u)) # NoFile
      BY <3>1, <3>2, <3>3 DEF NoFile
    <3> QED
      BY <2>5, <3>5, <3>6
  <2>6. CASE pc[u] = "call" /\ Refused(u)
    <3>1. InputRead(u, "sec") /\ InputRead(u, "ct") /\ mem[u]["msg"] = Blank
      BY <2>1, <2>6, DecapsReads
    <3>2. Opened(u)
      BY <1>1, <2>3, <3>1, PreparedOpens DEF ScriptInv
    <3>3. be[u] # "PLACEHOLDER"
      BY <2>3 DEF ScriptInv, EncSaved
    <3> QED
      BY <2>1, <2>6, <3>1, <3>2, <3>3 DEF Refused, Blank, Null
  <2> QED
    BY <1>4, <2>4, <2>5, <2>6 DEF Failed
<1> QED
  BY <1>2, <1>3, <1>4

LEMMA DecCleanSavedStep ==
  ASSUME NEW u \in Procs, SoloInv(u), Stepped(u), path' = path, KemCommands \subseteq Commands,
         ScriptInv(u)
  PROVE  DecCleanSaved'
<1> SUFFICES ASSUME NEW d, d = last'["decaps"], Prepared(d.be)', d.state \in {"ok", "failed"}, ~d.hit
             PROVE  d.state = "ok"
  BY DEF DecCleanSaved, Done
<1>1. /\ last \in [Commands -> Outcomes] /\ ControlOK /\ Ledger(u)
      /\ {"keygen", "encaps", "decaps"} \subseteq Commands
      /\ "decaps" \in Downstream("keygen") /\ "decaps" \in Downstream("encaps")
  BY DEF SoloInv, Ledger, KemCommands, Downstream
<1>2. /\ Good("encaps")' /\ last'["encaps"].be = d.be /\ KeyKnown(d.be)' /\ Apart
  BY DEF Prepared, Apart
<1>3. CASE d = last["decaps"]
  <2>1. pc[u] \in Running => cmd[u] \notin {"keygen", "encaps"}
    BY <1>1, <1>3 DEF Ledger
  <2>2. Good("encaps") /\ last'["encaps"] = last["encaps"]
    BY <1>1, <1>2, <2>1, GoodStep DEF Running
  <2>3. KeyKnown(d.be)
    BY <1>1, <1>2, <2>1, KeyKnownStep
  <2> QED
    BY <1>2, <1>3, <2>2, <2>3 DEF ScriptInv, DecCleanSaved, Prepared, Done
<1>4. CASE /\ cmd[u] = "decaps" /\ Returned(u)
           /\ d = [state |-> IF code[u] = 0 THEN "ok" ELSE "failed", be |-> be[u],
                   lost |-> lost[u], hit |-> last["decaps"].hit]
  <2>1. pc[u] \in Running
    BY <1>4 DEF Returned, Running
  <2>2. last'["encaps"] = last["encaps"] /\ last'["keygen"] = last["keygen"]
    BY <1>1, <1>4, <2>1, OthersKept
  <2>3. Prepared(be[u])
    BY <1>2, <1>4, <2>2 DEF Prepared, Good, KeyKnown
  <2>4. code[u] = 0
    BY <1>4, <2>1, <2>3 DEF ScriptInv, DecClean
  <2> QED
    BY <1>4, <2>4
<1> QED
  BY <1>1, <1>3, <1>4, OutcomeStep

(* ScriptAgrees, for one user whose files are separate: the two secret     *)
(* files agree after encaps and decaps on the dummy backend; on ML-KEM     *)
(* they agree unless decaps wrote the rejection key, which it does not     *)
(* after a good keygen on the same backend; and with a file for each role, *)
(* decaps then fails only by a fault.                                      *)
THEOREM ScriptsAgree ==
  ASSUME NEW u, Procs = {u}, KemCommands \subseteq Commands, \A l \in Layouts : Separate(l)
  PROVE  Spec => []ScriptAgrees
<1> u \in Procs
  OBVIOUS
<1>1. Init => SoloInv(u) /\ PairInv(u) /\ ScriptInv(u)
  <2> SUFFICES ASSUME Init PROVE SoloInv(u) /\ PairInv(u) /\ ScriptInv(u)
    OBVIOUS
  <2>1. pc[u] = "idle" /\ \A c \in KemCommands : last[c].state = "none"
    BY DEF Init, NeverRan
  <2>2. ScriptInv(u)
    BY <2>1, PairInit, PairFacts
       DEF ScriptInv, EncMade, EncSaved, DecMade, DecSaved, DecClean, DecCleanSaved, Prepared,
           After, Writing, Running, Good, KemCommands
  <2> QED
    BY <2>2, SoloInit, PairInit
<1>2. SoloInv(u) /\ PairInv(u) /\ ScriptInv(u) /\ [Next]_vars =>
         SoloInv(u)' /\ PairInv(u)' /\ ScriptInv(u)'
  <2> SUFFICES ASSUME SoloInv(u), PairInv(u), ScriptInv(u), [Next]_vars
               PROVE  SoloInv(u)' /\ PairInv(u)' /\ ScriptInv(u)'
    OBVIOUS
  <2>1. SoloInv(u)' /\ Stepped(u) /\ path' = path
    BY SoloStep
  <2>2. PairInv(u)'
    BY <2>1, PairStep
  <2>3. PairSaved("keygen", "pub", "sec")'
    BY <2>2 DEF PairInv, Pairing, Roles
  <2>4. EncMade(u)' /\ EncSaved' /\ DecMade(u)' /\ DecSaved' /\ DecClean(u)' /\ DecCleanSaved'
    BY <2>1, EncMadeStep, EncSavedStep, DecMadeStep, DecSavedStep, DecCleanStep, DecCleanSavedStep
  <2> QED
    BY <2>1, <2>2, <2>3, <2>4 DEF ScriptInv
<1>3. ScriptInv(u) => ScriptAgrees
  <2> SUFFICES ASSUME ScriptInv(u), Good("encaps")
               PROVE  /\ Good("decaps") /\ last["decaps"].be = "DUMMY" => Content("dss") = Content("ss")
                      /\ Good("decaps") /\ last["decaps"].be = "MLKEM" =>
                            \/ Content("dss") = Content("ss")
                            \/ /\ Whole("dss", K!RejectKey, last["decaps"].be)
                               /\ ~ (/\ Good("keygen") /\ last["keygen"].be = last["encaps"].be
                                     /\ last["encaps"].be = last["decaps"].be
                                     /\ path["pub"] # path["sec"])
                      /\ /\ Good("keygen") /\ last["keygen"].be = last["encaps"].be
                         /\ last["encaps"].be = last["decaps"].be
                         /\ Apart /\ Done("decaps") /\ ~last["decaps"].hit
                         => last["decaps"].state = "ok"
    BY DEF ScriptAgrees
  <2>1. Apart => path["pub"] # path["sec"]
    BY DEF Apart, Roles
  <2> QED
    BY <2>1 DEF ScriptInv, DecSaved, DecCleanSaved, Prepared, KeyKnown
<1> QED
  BY <1>1, <1>2, <1>3, PTL DEF Spec

-----------------------------------------------------------------------------
(* sig-keygen, sign, verify, with a file for each role.                    *)

SignerKnown(b) == Good("sig-keygen") /\ last["sig-keygen"].be = b

(* What a signature was made with: the key pair on disk, where the signer  *)
(* is known.                                                               *)
Signed(b, sig) ==
    \E key : \E m :
        /\ sig = S!Signature(b, key, m)
        /\ key = S!Opaque \/ \E r \in Entropy : key = S!PublicKey(b, r)
        /\ SignerKnown(b) => key = Content("sigpub").val

(* The public key's file was written by no other command than sig-keygen,  *)
(* the message's by none.                                                  *)
SigFiles ==
    /\ Apart
    /\ \/ Content("sigpub").val = Blank /\ Content("sigpub").len = 0
       \/ Content("sigpub").val = Garbled
       \/ \E b, r : Content("sigpub").val = K!PublicKey(b, r)
    /\ Content("msg").val \in Messages

SignMade(u) == After(u) /\ cmd[u] = "sign" => Signed(be[u], mem[u]["sig"])

SignSaved ==
    Good("sign") => /\ Signed(last["sign"].be, Content("sig").val)
                    /\ Content("sig").len = Length("sig", last["sign"].be)

SignClean(u) ==
    pc[u] \in Running /\ cmd[u] = "sign" /\ SignerKnown(be[u]) /\ ~last["sign"].hit =>
        code[u] = 0 \/ Content("msg").val = EmptyMessage

SignCleanSaved ==
    Done("sign") /\ ~last["sign"].hit /\ SignerKnown(last["sign"].be) =>
        last["sign"].state = "ok" \/ Content("msg").val = EmptyMessage

(* The signature file is one of the files as they are. *)
Vouched(b) == Content("sig").val = S!Signature(b, Content("sigpub").val, Content("msg").val)

VerifyMade(u) == After(u) /\ cmd[u] = "verify" => Vouched(be[u])

VerifySaved == last["verify"].state = "ok" => Vouched(last["verify"].be)

(* All the steps before verify went well, for a verify on backend b, and   *)
(* the message is the one that was signed.                                 *)
Signable(b) ==
    /\ SignerKnown(b) /\ Good("sign") /\ last["sign"].be = b
    /\ Content("sig").val[4] = Content("msg").val

VerifyClean(u) ==
    pc[u] \in Running /\ cmd[u] = "verify" /\ Signable(be[u]) /\ ~last["verify"].hit =>
        code[u] = 0 \/ Content("msg").val = EmptyMessage

VerifyCleanSaved ==
    Done("verify") /\ ~last["verify"].hit /\ Signable(last["verify"].be) =>
        last["verify"].state = "ok" \/ Content("msg").val = EmptyMessage

SigInv(u) ==
    /\ PairMade(u, "sig-keygen", "sigpub", "sigsec")
    /\ PairSaved("sig-keygen", "sigpub", "sigsec")
    /\ SigFiles
    /\ SignMade(u) /\ SignSaved /\ SignClean(u) /\ SignCleanSaved
    /\ VerifyMade(u) /\ VerifySaved /\ VerifyClean(u) /\ VerifyCleanSaved

(* The signature files and who writes them. *)
LEMMA SigFileKept ==
  ASSUME NEW u \in Procs, SoloInv(u), Stepped(u), path' = path
  PROVE  /\ (pc[u] \in Running => cmd[u] # "sig-keygen") =>
               Content("sigpub")' = Content("sigpub") /\ Content("sigsec")' = Content("sigsec")
         /\ (pc[u] \in Running => cmd[u] # "sign") => Content("sig")' = Content("sig")
         /\ Content("msg")' = Content("msg") \/ \E m \in Messages : Edited(u, m)
         /\ pc[u] \in Running => Content("msg")' = Content("msg")
<1>1. /\ {"sigpub", "sigsec", "sig"} \subseteq Roles \ {"msg"} /\ "msg" \in Roles
      /\ \A q \in Shares("sigpub") \cup Shares("sigsec") : Writer(q) = "sig-keygen"
      /\ \A q \in Shares("sig") : Writer(q) = "sign"
      /\ \A q \in Shares("msg") : Writer(q) = "none"
  BY DEF Roles, Shares, Writer
<1>2. (pc[u] \in Running => cmd[u] # "sig-keygen") =>
         Content("sigpub")' = Content("sigpub") /\ Content("sigsec")' = Content("sigsec")
  BY <1>1, KeptBy
<1>3. (pc[u] \in Running => cmd[u] # "sign") => Content("sig")' = Content("sig")
  BY <1>1, KeptBy
<1>4. ASSUME pc[u] \in Running PROVE Content("msg")' = Content("msg")
  <2>1. pc[u] \in Writing => Output(u) \notin Shares("msg")
    <3>1. Shares("msg") = {"msg"}
      BY DEF Shares
    <3> QED
      BY <3>1, OutputFacts DEF SoloInv
  <2>2. file'[path["msg"]] = file[path["msg"]]
    BY <1>1, <1>4, <2>1, FileKept DEF SoloInv
  <2> QED
    BY <2>2 DEF Content
<1>5. ASSUME pc[u] \notin Running
      PROVE  Content("msg")' = Content("msg") \/ \E m \in Messages : Edited(u, m)
  <2>1. CASE file' = file
    BY <2>1 DEF Content
  <2>2. CASE file' # file
    BY <1>5, <2>2
       DEF Stepped, Started, Failed, Allocated, InputTaken, Called, Truncated, Buffered, Closed,
           Returned, Died, Nothing, Untouched, Running
  <2> QED
    BY <2>1, <2>2
<1> QED
  BY <1>2, <1>3, <1>4, <1>5

(* What the readers make of the files. *)
LEMMA SigReads ==
  ASSUME NEW u \in Procs, SoloInv(u), SigFiles
  PROVE  /\ InputRead(u, "sigpub") => mem[u]["sigpub"] = Content("sigpub").val
         /\ InputRead(u, "sigsec") /\ Content("sigsec").val[1] = "sk" =>
               mem[u]["sigsec"] = Content("sigsec").val
         /\ InputRead(u, "sig") => mem[u]["sig"] \in {Content("sig").val, Garbled}
         /\ InputRead(u, "sig") /\ Content("sig").val[1] = "sig" =>
               mem[u]["sig"] = Content("sig").val
         /\ InputRead(u, "msg") => \/ mem[u]["msg"] = Content("msg").val
                                   \/ Content("msg").val = EmptyMessage /\ mem[u]["msg"] = Null
<1>1. ASSUME InputRead(u, "sigpub") PROVE mem[u]["sigpub"] = Content("sigpub").val
  <2>1. mem[u]["sigpub"] = Meaning(u, "sigpub") /\ Content("sigpub").len >= Length("sigpub", be[u])
    BY <1>1 DEF InputRead, Readable
  <2>2. Content("sigpub").len # 0
    BY <2>1 DEF Length, S!Size
  <2>3. CASE Content("sigpub").val = Garbled
    BY <2>1, <2>3 DEF Meaning, Kind, Garbled
  <2>4. CASE \E b, r : Content("sigpub").val = K!PublicKey(b, r)
    <3>1. Content("sigpub").val[1] = "pk"
      BY <2>4 DEF K!PublicKey
    <3> QED
      BY <2>1, <3>1 DEF Meaning, Kind
  <2> QED
    BY <2>2, <2>3, <2>4 DEF SigFiles
<1>2. ASSUME InputRead(u, "msg")
      PROVE  \/ mem[u]["msg"] = Content("msg").val
             \/ Content("msg").val = EmptyMessage /\ mem[u]["msg"] = Null
  <2>1. Content("msg").val # Blank
    BY CliAssumption DEF SigFiles
  <2>2. Meaning(u, "msg") = Content("msg").val
    BY <2>1 DEF Meaning
  <2> QED
    BY <1>2, <2>2 DEF InputRead
<1>3. InputRead(u, "sigsec") /\ Content("sigsec").val[1] = "sk" =>
         mem[u]["sigsec"] = Content("sigsec").val
  BY DEF InputRead, Meaning, Kind
<1>4. /\ InputRead(u, "sig") => mem[u]["sig"] \in {Content("sig").val, Garbled}
      /\ InputRead(u, "sig") /\ Content("sig").val[1] = "sig" =>
            mem[u]["sig"] = Content("sig").val
  BY DEF InputRead, Meaning, Kind
<1> QED
  BY <1>1, <1>2, <1>3, <1>4

LEMMA SigInputs ==
  ASSUME NEW u \in Procs, SoloInv(u), pc[u] = "call"
  PROVE  /\ cmd[u] = "sign" => InputRead(u, "sigsec") /\ InputRead(u, "msg")
         /\ cmd[u] = "verify" => InputRead(u, "sigpub") /\ InputRead(u, "sig") /\ InputRead(u, "msg")
<1>1. cmd[u] = "sign" => Len(Reads(cmd[u])) = 2 /\ Reads(cmd[u])[1] = "sigsec" /\ Reads(cmd[u])[2] = "msg"
  BY DEF Reads
<1>2. cmd[u] = "verify" => /\ Len(Reads(cmd[u])) = 3 /\ Reads(cmd[u])[1] = "sigpub"
                           /\ Reads(cmd[u])[2] = "sig" /\ Reads(cmd[u])[3] = "msg"
  BY DEF Reads
<1> QED
  BY <1>1, <1>2 DEF SoloInv, Inputs

LEMMA SignerOnDisk ==
  ASSUME NEW b, SignerKnown(b), SigFiles, PairSaved("sig-keygen", "sigpub", "sigsec"),
         "sig-keygen" \in Commands
  PROVE  /\ b # "PLACEHOLDER"
         /\ \E r \in Entropy : /\ Whole("sigpub", S!PublicKey(b, r), b)
                               /\ Whole("sigsec", S!SecretKey(b, r), b)
<1>1. \A r : S!PublicKey(b, r) = K!PublicKey(b, r) /\ S!SecretKey(b, r) = K!SecretKey(b, r)
  BY DEF S!PublicKey, K!PublicKey, S!SecretKey, K!SecretKey
<1>2. path["sigpub"] # path["sigsec"]
  BY DEF SigFiles, Apart, Roles
<1> QED
  BY <1>1, <1>2 DEF SignerKnown, PairSaved

LEMMA SignerKnownStep ==
  ASSUME NEW u \in Procs, SoloInv(u), Stepped(u), path' = path, "sig-keygen" \in Commands,
         NEW b, SignerKnown(b)', pc[u] \in Running => cmd[u] # "sig-keygen"
  PROVE  SignerKnown(b)
<1>1. Good("sig-keygen")' /\ last'["sig-keygen"].be = b
  BY DEF SignerKnown
<1>2. Good("sig-keygen") /\ last'["sig-keygen"] = last["sig-keygen"]
  BY <1>1, GoodStep DEF Running, Returned
<1> QED
  BY <1>1, <1>2 DEF SignerKnown

LEMMA SignedStep ==
  ASSUME NEW u \in Procs, SoloInv(u), Stepped(u), path' = path, "sig-keygen" \in Commands,
         pc[u] \in Running => cmd[u] # "sig-keygen", NEW b, NEW sig, Signed(b, sig)
  PROVE  Signed(b, sig)'
<1>1. SignerKnown(b)' => SignerKnown(b)
  BY SignerKnownStep
<1>2. Content("sigpub")' = Content("sigpub")
  BY SigFileKept
<1>3. Signed(b, sig)' = \E key : \E m :
         /\ sig = S!Signature(b, key, m)
         /\ key = S!Opaque \/ \E r \in Entropy : key = S!PublicKey(b, r)
         /\ SignerKnown(b)' => key = Content("sigpub").val
  BY <1>2 DEF Signed
<1> QED
  BY <1>1, <1>3 DEF Signed

LEMMA SigFilesStep ==
  ASSUME NEW u \in Procs, SoloInv(u), Stepped(u), path' = path, SigInv(u)
  PROVE  SigFiles'
<1>1. Apart'
  BY DEF SigInv, SigFiles, Apart
<1>2. Content("msg").val' \in Messages
  <2>1. ASSUME NEW m \in Messages, Edited(u, m) PROVE Content("msg").val' = m
    <3>1. DOMAIN file = Roles /\ path["msg"] \in Roles
      BY ControlParts DEF SoloInv, Roles
    <3> QED
      BY <2>1, <3>1 DEF Edited, Content
  <2> QED
    BY <2>1, SigFileKept DEF SigInv, SigFiles
<1>3. \/ Content("sigpub")' = Content("sigpub")
      \/ Content("sigpub").val' = Blank /\ Content("sigpub").len' = 0
      \/ Content("sigpub").val' = Garbled
      \/ \E b, r : Content("sigpub").val' = K!PublicKey(b, r)
  <2>1. CASE ~ (pc[u] \in Writing /\ Output(u) = "sigpub")
    <3>1. pc[u] \in Writing => Target(u) # path["sigpub"]
      BY <2>1, OutputFacts DEF SoloInv, SigInv, SigFiles, Apart, Target, Roles
    <3>2. DOMAIN file = Roles /\ path["sigpub"] \in Roles /\ path["msg"] # path["sigpub"]
      BY ControlParts DEF SoloInv, SigInv, SigFiles, Apart, Roles
    <3>3. file'[path["sigpub"]] = file[path["sigpub"]]
      <4>1. CASE Truncated(u)
        BY <3>1, <3>2, <4>1 DEF Truncated, Writing
      <4>2. CASE Closed(u)
        BY <3>1, <3>2, <4>2 DEF Closed, WriteOut, WrittenPartly, Writing
      <4>3. CASE Failed(u)
        BY <3>1, <3>2, <4>3 DEF Failed, WrittenPartly, Writing
      <4>4. ASSUME NEW m \in Messages, Edited(u, m)
            PROVE  file'[path["sigpub"]] = file[path["sigpub"]]
        BY <3>2, <4>4 DEF Edited
      <4> QED
        BY <4>1, <4>2, <4>3, <4>4
           DEF Stepped, Started, Allocated, InputTaken, Called, Buffered, Returned, Died,
               Nothing, Untouched
    <3> QED
      BY <3>3 DEF Content
  <2>2. CASE pc[u] \in Writing /\ Output(u) = "sigpub"
    <3>1. \E b, r : mem[u]["sigpub"] = K!PublicKey(b, r)
      <4>1. cmd[u] = "sig-keygen"
        BY <2>2, OutputFacts DEF SoloInv, Writer
      <4> QED
        BY <2>2, <4>1 DEF SigInv, PairMade, After
    <3>2. DOMAIN file = Roles /\ path["sigpub"] \in Roles /\ Target(u) = path["sigpub"]
      BY <2>2, ControlParts DEF SoloInv, Target, Roles
    <3>3. \/ file'[path["sigpub"]] = file[path["sigpub"]]
          \/ file'[path["sigpub"]] = NoFile
          \/ file'[path["sigpub"]].val \in {Garbled, mem[u]["sigpub"]}
      <4>1. CASE Truncated(u)
        BY <3>2, <4>1 DEF Truncated
      <4>2. CASE WrittenPartly(u)
        BY <2>2, <3>2, <4>2 DEF WrittenPartly
      <4>3. CASE WriteOut(u)
        BY <2>2, <3>2, <4>3 DEF WriteOut
      <4> QED
        BY <2>2, <4>1, <4>2, <4>3
           DEF Stepped, Started, Failed, Allocated, InputTaken, Called, Buffered, Closed,
               Returned, Died, Edited, Nothing, Untouched, Writing, Running
    <3> QED
      BY <3>1, <3>3 DEF Content, NoFile
  <2> QED
    BY <2>1, <2>2
<1>4. \/ Content("sigpub").val' = Blank /\ Content("sigpub").len' = 0
      \/ Content("sigpub").val' = Garbled
      \/ \E b, r : Content("sigpub").val' = K!PublicKey(b, r)
  BY <1>3 DEF SigInv, SigFiles
<1> QED
  BY <1>1, <1>2, <1>4 DEF SigFiles

-----------------------------------------------------------------------------
(* sign.                                                                   *)

SigNames ==
    /\ {"sig-keygen", "sign", "verify"} \subseteq Commands
    /\ "sign" \in Downstream("sig-keygen") /\ "verify" \in Downstream("sig-keygen")
    /\ "verify" \in Downstream("sign")

LEMMA SigNamesHold == SigCommands \subseteq Commands => SigNames
BY DEF SigCommands, SigNames, Downstream

LEMMA SignMadeStep ==
  ASSUME NEW u \in Procs, SoloInv(u), Stepped(u), path' = path, SigNames, SigInv(u)
  PROVE  SignMade(u)'
<1> SUFFICES ASSUME After(u)', cmd'[u] = "sign"
             PROVE  Signed(be[u], mem[u]["sig"])'
  BY DEF SignMade
<1>1. cmd[u] = "sign" /\ be'[u] = be[u] /\ "sig-keygen" \in Commands
  BY AfterStep DEF Stays, SigNames
<1>2. PICK b, sig : b = be[u] /\ sig = mem'[u]["sig"]
  OBVIOUS
<1>3. CASE After(u) /\ mem'[u] = mem[u]
  <2>1. Signed(b, sig)
    BY <1>1, <1>2, <1>3 DEF SigInv, SignMade
  <2>2. Signed(b, sig)'
    BY <1>1, <2>1, SignedStep
  <2> QED
    BY <1>1, <1>2, <2>2 DEF Signed, SignerKnown, Content
<1>4. CASE Called(u)
  <2>1. ~Refused(u) /\ mem'[u] \in Results(u) /\ DOMAIN mem[u] = Roles /\ pc[u] = "call"
    BY <1>4 DEF Called, SoloInv, BuffersOK
  <2>2. sig = S!Signature(b, S!EmbeddedKey(b, mem[u]["sigsec"]), mem[u]["msg"])
    BY <1>1, <1>2, <2>1 DEF Results, Roles
  <2>3. PICK key : key = S!EmbeddedKey(b, mem[u]["sigsec"])
    OBVIOUS
  <2>4. key = S!Opaque \/ \E r \in Entropy : key = S!PublicKey(b, r)
    BY <2>3, KeyFound DEF S!EmbeddedKey
  <2>5. SignerKnown(b) => key = Content("sigpub").val
    <3> SUFFICES ASSUME SignerKnown(b) PROVE key = Content("sigpub").val
      OBVIOUS
    <3>1. PICK r \in Entropy : /\ Whole("sigpub", S!PublicKey(b, r), b)
                               /\ Whole("sigsec", S!SecretKey(b, r), b)
      BY <1>1, SignerOnDisk DEF SigInv
    <3>2. Content("sigsec").val[1] = "sk" /\ Content("sigsec").val = S!SecretKey(b, r)
      BY <3>1 DEF Whole, S!SecretKey
    <3>3. mem[u]["sigsec"] = S!SecretKey(b, r)
      BY <1>1, <2>1, <3>2, SigInputs, SigReads DEF SigInv
    <3> QED
      BY <2>3, <3>1, <3>3, KeyFound DEF Whole
  <2>6. Signed(b, sig)
    BY <2>2, <2>3, <2>4, <2>5 DEF Signed
  <2>7. Signed(b, sig)'
    BY <1>1, <2>6, SignedStep
  <2> QED
    BY <1>1, <1>2, <2>7 DEF Signed, SignerKnown, Content
<1> QED
  BY <1>3, <1>4, AfterStep

LEMMA SignSavedStep ==
  ASSUME NEW u \in Procs, SoloInv(u), Stepped(u), path' = path, SigNames, SigInv(u)
  PROVE  SignSaved'
<1> SUFFICES ASSUME Good("sign")', NEW b, b = last'["sign"].be, NEW sig, sig = Content("sig").val'
             PROVE  Signed(b, sig)' /\ Content("sig").len' = Length("sig", b)
  BY DEF SignSaved, Signed, SignerKnown
<1>1. CASE /\ Good("sign") /\ last'["sign"] = last["sign"]
           /\ pc[u] \in Running => cmd[u] # "sign" /\ "sign" \notin Downstream(cmd[u])
  <2>1. pc[u] \in Running => cmd[u] # "sig-keygen"
    BY <1>1 DEF SigNames
  <2>2. Content("sig")' = Content("sig")
    BY <1>1, SigFileKept
  <2>3. Signed(b, sig) /\ Content("sig").len = Length("sig", b)
    BY <1>1, <2>2 DEF SigInv, SignSaved
  <2>4. Signed(b, sig)'
    BY <2>1, <2>3, SignedStep DEF SigNames
  <2> QED
    BY <2>2, <2>3, <2>4
<1>2. CASE /\ cmd[u] = "sign" /\ After(u) /\ pc[u] = "done" /\ ~lost[u]
           /\ last'["sign"].be = be[u] /\ file' = file
  <2>1. Stored(u, "sig")
    <3>1. Writes(cmd[u]) = <<"sig">>
      BY <1>2 DEF Writes
    <3>2. Final(u, 1)
      BY <3>1 DEF Final
    <3>3. \A j \in 1 .. 1 : Final(u, j) => Stored(u, Writes(cmd[u])[j])
      BY <1>2, <3>1 DEF SoloInv, Outputs
    <3> QED
      BY <3>1, <3>2, <3>3
  <2>2. Content("sig")' = Content("sig")
    BY <1>2 DEF Content
  <2>3. Signed(b, sig)
    BY <1>2, <2>1, <2>2 DEF SigInv, SignMade, Stored
  <2>4. Signed(b, sig)'
    BY <1>2, <2>3, SignedStep DEF SigNames
  <2> QED
    BY <1>2, <2>1, <2>2, <2>4 DEF Stored
<1> QED
  BY <1>1, <1>2, GoodStep DEF SigNames

(* The files a signer or verifier on a known signer's backend reads are    *)
(* long enough and there.                                                  *)
LEMMA SigReadable ==
  ASSUME NEW u \in Procs, SoloInv(u), SigInv(u), SigNames, pc[u] = "read",
         SignerKnown(be[u]),
         cmd[u] = "sign" \/ (cmd[u] = "verify" /\ Good("sign") /\ last["sign"].be = be[u])
  PROVE  Readable(u, Input(u)) /\ Content(Input(u)) # NoFile
<1>1. PICK r \in Entropy : /\ Whole("sigpub", S!PublicKey(be[u], r), be[u])
                           /\ Whole("sigsec", S!SecretKey(be[u], r), be[u])
  BY SignerOnDisk DEF SigInv, SigNames
<1>2. /\ Length("sigpub", be[u]) \in Nat /\ Length("sigsec", be[u]) \in Nat
      /\ Length("sig", be[u]) \in Nat /\ Length("msg", be[u]) = 0
  BY LengthNat DEF Roles, Length
<1>3. at[u] \in 1 .. Len(Reads(cmd[u]))
  BY ControlParts, LengthsOfCommands DEF SoloInv, ControlOK
<1>4. \/ Input(u) \in {"sigsec", "sigpub", "msg"}
      \/ Input(u) = "sig" /\ cmd[u] = "verify"
  BY <1>3 DEF Input, Reads
<1>5. Readable(u, "sigpub") /\ Content("sigpub").val # Blank
  BY <1>1, <1>2 DEF Whole, Readable, S!PublicKey, Blank
<1>6. Readable(u, "sigsec") /\ Content("sigsec").val # Blank
  BY <1>1, <1>2 DEF Whole, Readable, S!SecretKey, Blank
<1>7. Readable(u, "msg") /\ Content("msg").val # Blank
  <2>1. Content("msg").len \in Nat
    BY ControlParts DEF SoloInv, Content, Roles
  <2> QED
    BY <1>2, <2>1, CliAssumption DEF Readable, SigInv, SigFiles
<1>8. cmd[u] = "verify" => Readable(u, "sig") /\ Content("sig").val # Blank
  BY <1>2 DEF SigInv, SignSaved, Signed, Readable, S!Signature, Blank
<1> QED
  BY <1>4, <1>5, <1>6, <1>7, <1>8 DEF NoFile

LEMMA SignCleanStep ==
  ASSUME NEW u \in Procs, SoloInv(u), SoloInv(u)', Stepped(u), path' = path, SigNames, SigInv(u)
  PROVE  SignClean(u)'
<1> SUFFICES ASSUME pc'[u] \in Running, cmd'[u] = "sign", SignerKnown(be[u])', ~last'["sign"].hit
             PROVE  code'[u] = 0 \/ Content("msg").val' = EmptyMessage
  BY DEF SignClean
<1>1. last \in [Commands -> Outcomes]
  BY DEF SoloInv, Ledger
<1>2. CASE pc'[u] # "done"
  BY <1>2 DEF SoloInv, Ledger
<1>3. CASE pc'[u] = "done" /\ ~Failed(u)
  <2>1. Closed(u) \/ Called(u) \/ Nothing(u)
    BY <1>3 DEF Stepped, Started, Allocated, InputTaken, Truncated, Buffered, Returned, Died,
       Edited, Running
  <2>2. cmd[u] = "sign" /\ be'[u] = be[u]
    BY <2>1 DEF Closed, Called, Nothing, Stays
  <2>3. CASE Closed(u) \/ Called(u)
    BY <2>3 DEF Closed, Called, SoloInv, Ledger, Running
  <2>4. CASE Nothing(u)
    BY <1>3, <2>2, <2>4
       DEF Nothing, Untouched, SigInv, SignClean, SignerKnown, Good, Content, Running
  <2> QED
    BY <2>1, <2>3, <2>4
<1>4. CASE Failed(u)
  <2>1. /\ pc[u] \in Running \ {"done"} /\ cmd[u] = "sign" /\ be'[u] = be[u]
    BY <1>4 DEF Failed, Stays
  <2>2. last'["sig-keygen"] = last["sig-keygen"]
    BY <1>1, <2>1, OthersKept DEF SoloInv, SigNames
  <2>3. SignerKnown(be[u])
    BY <2>1, <2>2 DEF SignerKnown, Good
  <2>4. ~ Hits(u)
    BY <1>1, <2>1 DEF Hits, Outcomes, SigNames
  <2>5. ~ (pc[u] = "read" /\ (~ Readable(u, Input(u)) \/ Content(Input(u)) = NoFile))
    BY <2>1, <2>3, SigReadable
  <2>6. CASE pc[u] = "call" /\ Refused(u)
    <3>1. mem[u]["msg"] = Null
      BY <2>1, <2>3, <2>6, SignerOnDisk DEF Refused, SigInv, SigNames
    <3>2. Content("msg").val = EmptyMessage
      <4>1. \/ mem[u]["msg"] = Content("msg").val
            \/ Content("msg").val = EmptyMessage
        BY <2>1, <2>6, SigInputs, SigReads DEF SigInv
      <4> QED
        BY <3>1, <4>1, CliAssumption DEF SigInv, SigFiles
    <3>3. Content("msg")' = Content("msg")
      BY <2>1, SigFileKept
    <3> QED
      BY <3>2, <3>3
  <2> QED
    BY <1>4, <2>4, <2>5, <2>6 DEF Failed
<1> QED
  BY <1>2, <1>3, <1>4

LEMMA SignCleanSavedStep ==
  ASSUME NEW u \in Procs, SoloInv(u), Stepped(u), path' = path, SigNames, SigInv(u)
  PROVE  SignCleanSaved'
<1> SUFFICES ASSUME NEW d, d = last'["sign"], d.state \in {"ok", "failed"}, ~d.hit,
                    SignerKnown(d.be)'
             PROVE  d.state = "ok" \/ Content("msg").val' = EmptyMessage
  BY DEF SignCleanSaved, Done
<1>1. last \in [Commands -> Outcomes] /\ ControlOK /\ Ledger(u)
  BY DEF SoloInv, Ledger
<1>2. CASE d = last["sign"]
  <2>1. pc[u] \in Running => cmd[u] # "sig-keygen"
    BY <1>1, <1>2 DEF Ledger, SigNames
  <2>2. SignerKnown(d.be)
    BY <2>1, SignerKnownStep DEF SigNames
  <2>3. d.state = "ok" \/ Content("msg").val = EmptyMessage
    BY <1>2, <2>2 DEF SigInv, SignCleanSaved, Done
  <2>4. ASSUME NEW m \in Messages, Edited(u, m) PROVE d.state = "ok"
    BY <2>4 DEF Edited, SigNames, NeverRan
  <2> QED
    BY <2>3, <2>4, SigFileKept
<1>3. CASE /\ cmd[u] = "sign" /\ Returned(u)
           /\ d = [state |-> IF code[u] = 0 THEN "ok" ELSE "failed", be |-> be[u],
                   lost |-> lost[u], hit |-> last["sign"].hit]
  <2>1. pc[u] \in Running
    BY <1>3 DEF Returned, Running
  <2>2. last'["sig-keygen"] = last["sig-keygen"]
    BY <1>1, <1>3, <2>1, OthersKept DEF SigNames
  <2>3. SignerKnown(be[u])
    BY <1>3, <2>2 DEF SignerKnown, Good
  <2>4. code[u] = 0 \/ Content("msg").val = EmptyMessage
    BY <1>3, <2>1, <2>3 DEF SigInv, SignClean
  <2> QED
    BY <1>3, <2>1, <2>4, SigFileKept
<1> QED
  BY <1>1, <1>2, <1>3, OutcomeStep DEF SigNames

-----------------------------------------------------------------------------
(* verify, and the three together.                                         *)

LEMMA VouchedStep ==
  ASSUME NEW u \in Procs, SoloInv(u), Stepped(u), path' = path, NEW b, Vouched(b),
         pc[u] \in Running => cmd[u] \notin {"sig-keygen", "sign"},
         \A m \in Messages : ~Edited(u, m)
  PROVE  Vouched(b)'
BY SigFileKept DEF Vouched

LEMMA NoEdit ==
  ASSUME NEW u, pc[u] \in Running
  PROVE  \A m \in Messages : ~Edited(u, m)
BY DEF Edited

LEMMA VerifyMadeStep ==
  ASSUME NEW u \in Procs, SoloInv(u), Stepped(u), path' = path, SigInv(u)
  PROVE  VerifyMade(u)'
<1> SUFFICES ASSUME After(u)', cmd'[u] = "verify", NEW b, b = be'[u]
             PROVE  Vouched(b)'
  BY DEF VerifyMade, Vouched
<1>1. cmd[u] = "verify" /\ b = be[u] /\ pc[u] \in Running
  BY AfterStep DEF Stays, After, Called, Writing, Running
<1>2. Vouched(b)
  <2>1. CASE After(u)
    BY <1>1, <2>1 DEF SigInv, VerifyMade
  <2>2. CASE Called(u)
    <3>1. ~Refused(u) /\ pc[u] = "call"
      BY <2>2 DEF Called
    <3>2. mem[u]["sig"] = S!Signature(b, mem[u]["sigpub"], mem[u]["msg"]) /\ mem[u]["msg"] # Null
      BY <1>1, <3>1 DEF Refused, Verifies
    <3>3. InputRead(u, "sigpub") /\ InputRead(u, "sig") /\ InputRead(u, "msg")
      BY <1>1, <3>1, SigInputs
    <3>4. /\ mem[u]["sigpub"] = Content("sigpub").val /\ mem[u]["msg"] = Content("msg").val
          /\ mem[u]["sig"] \in {Content("sig").val, Garbled}
      BY <3>2, <3>3, SigReads DEF SigInv
    <3>5. mem[u]["sig"] # Garbled
      BY <3>2 DEF S!Signature, Garbled
    <3> QED
      BY <3>2, <3>4, <3>5 DEF Vouched
  <2> QED
    BY <2>1, <2>2, AfterStep
<1> QED
  BY <1>1, <1>2, NoEdit, VouchedStep

LEMMA VerifySavedStep ==
  ASSUME NEW u \in Procs, SoloInv(u), Stepped(u), path' = path, SigNames, SigInv(u)
  PROVE  VerifySaved'
<1> SUFFICES ASSUME NEW d, d = last'["verify"], d.state = "ok", NEW b, b = d.be
             PROVE  Vouched(b)'
  BY DEF VerifySaved, Vouched
<1>1. ControlOK /\ Ledger(u)
  BY DEF SoloInv
<1>2. CASE d = last["verify"]
  <2>1. pc[u] \in Running => cmd[u] \notin {"sig-keygen", "sign"}
    BY <1>1, <1>2 DEF Ledger, SigNames
  <2>2. \A m \in Messages : ~Edited(u, m)
    BY DEF Edited, SigNames, NeverRan
  <2>3. Vouched(b)
    BY <1>2 DEF SigInv, VerifySaved
  <2> QED
    BY <2>1, <2>2, <2>3, VouchedStep
<1>3. CASE /\ cmd[u] = "verify" /\ Returned(u)
           /\ d = [state |-> IF code[u] = 0 THEN "ok" ELSE "failed", be |-> be[u],
                   lost |-> lost[u], hit |-> last["verify"].hit]
  <2>1. After(u) /\ pc[u] \in Running /\ b = be[u]
    BY <1>3 DEF Returned, After, Running
  <2>2. Vouched(b)
    BY <1>3, <2>1 DEF SigInv, VerifyMade
  <2> QED
    BY <1>3, <2>1, <2>2, NoEdit, VouchedStep
<1> QED
  BY <1>1, <1>2, <1>3, OutcomeStep DEF SigNames

(* What verify was prepared with does not change while it runs. *)
LEMMA SignableKept ==
  ASSUME NEW u \in Procs, SoloInv(u), Stepped(u), path' = path, SigNames, NEW b, Signable(b)',
         pc[u] \in Running => cmd[u] \notin {"sig-keygen", "sign"},
         \A m \in Messages : ~Edited(u, m)
  PROVE  Signable(b)
<1>1. SignerKnown(b)' /\ Good("sign")' /\ last'["sign"].be = b
      /\ Content("sig").val'[4] = Content("msg").val'
  BY DEF Signable
<1>2. SignerKnown(b)
  BY <1>1, SignerKnownStep DEF SigNames
<1>3. Good("sign") /\ last'["sign"] = last["sign"]
  BY <1>1, GoodStep DEF SigNames, Running, Returned
<1>4. Content("sig")' = Content("sig") /\ Content("msg")' = Content("msg")
  BY SigFileKept
<1> QED
  BY <1>1, <1>2, <1>3, <1>4 DEF Signable

(* What is on disk after good runs of sig-keygen and sign verifies. *)
LEMMA SignableVerifies ==
  ASSUME NEW u \in Procs, SoloInv(u), SigInv(u), SigNames, pc[u] = "call", cmd[u] = "verify",
         Signable(be[u]), Content("msg").val # EmptyMessage
  PROVE  ~Refused(u)
<1>1. PICK r \in Entropy : Whole("sigpub", S!PublicKey(be[u], r), be[u])
  BY SignerOnDisk DEF Signable, SigInv, SigNames
<1>2. be[u] # "PLACEHOLDER"
  BY SignerOnDisk DEF Signable, SigInv, SigNames
<1>3. PICK key : \E m : /\ Content("sig").val = S!Signature(be[u], key, m)
                        /\ key = Content("sigpub").val
  BY DEF Signable, SigInv, SignSaved, Signed
<1>4. Content("sig").val = S!Signature(be[u], Content("sigpub").val, Content("msg").val)
  BY <1>3 DEF Signable, S!Signature
<1>5. InputRead(u, "sigpub") /\ InputRead(u, "sig") /\ InputRead(u, "msg")
  BY SigInputs
<1>6. Content("sig").val[1] = "sig"
  BY <1>4 DEF S!Signature
<1>7. /\ mem[u]["sigpub"] = Content("sigpub").val /\ mem[u]["sig"] = Content("sig").val
      /\ mem[u]["msg"] = Content("msg").val
  BY <1>5, <1>6, SigReads DEF SigInv
<1>8. mem[u]["msg"] # Null
  BY <1>7, CliAssumption DEF SigInv, SigFiles
<1> QED
  BY <1>2, <1>4, <1>7, <1>8 DEF Refused, Verifies

LEMMA VerifyCleanStep ==
  ASSUME NEW u \in Procs, SoloInv(u), SoloInv(u)', Stepped(u), path' = path, SigNames, SigInv(u)
  PROVE  VerifyClean(u)'
<1> SUFFICES ASSUME pc'[u] \in Running, cmd'[u] = "verify", NEW b, b = be'[u], Signable(b)',
                    ~last'["verify"].hit
             PROVE  code'[u] = 0 \/ Content("msg").val' = EmptyMessage
  BY DEF VerifyClean, Signable, SignerKnown
<1>1. last \in [Commands -> Outcomes]
  BY DEF SoloInv, Ledger
<1>2. CASE pc'[u] # "done"
  BY <1>2 DEF SoloInv, Ledger
<1>3. CASE pc'[u] = "done" /\ ~Failed(u)
  <2>1. Closed(u) \/ Called(u) \/ Nothing(u)
    BY <1>3 DEF Stepped, Started, Allocated, InputTaken, Truncated, Buffered, Returned, Died,
       Edited, Running
  <2>2. CASE Closed(u) \/ Called(u)
    BY <2>2 DEF Closed, Called, SoloInv, Ledger, Running
  <2>3. CASE Nothing(u)
    <3>1. /\ cmd[u] = "verify" /\ be[u] = b /\ pc[u] \in Running /\ last' = last
          /\ code'[u] = code[u]
      BY <2>3 DEF Nothing, Stays, Untouched
    <3>2. Signable(b)
      BY <3>1, NoEdit, SignableKept
    <3>3. Content("msg")' = Content("msg")
      BY <3>1, SigFileKept
    <3> QED
      BY <3>1, <3>2, <3>3 DEF SigInv, VerifyClean
  <2> QED
    BY <2>1, <2>2, <2>3
<1>4. CASE Failed(u)
  <2>1. /\ pc[u] \in Running \ {"done"} /\ cmd[u] = "verify" /\ be[u] = b
    BY <1>4 DEF Failed, Stays
  <2>2. Signable(b) /\ Content("msg")' = Content("msg")
    BY <2>1, NoEdit, SignableKept, SigFileKept
  <2>3. ~ Hits(u)
    BY <1>1, <2>1 DEF Hits, Outcomes, SigNames
  <2>4. ~ (pc[u] = "read" /\ (~ Readable(u, Input(u)) \/ Content(Input(u)) = NoFile))
    BY <2>1, <2>2, SigReadable DEF Signable
  <2>5. CASE pc[u] = "call" /\ Refused(u)
    BY <2>1, <2>2, <2>5, SignableVerifies
  <2> QED
    BY <1>4, <2>3, <2>4, <2>5 DEF Failed
<1> QED
  BY <1>2, <1>3, <1>4

LEMMA VerifyCleanSavedStep ==
  ASSUME NEW u \in Procs, SoloInv(u), Stepped(u), path' = path, SigNames, SigInv(u)
  PROVE  VerifyCleanSaved'
<1> SUFFICES ASSUME NEW d, d = last'["verify"], d.state \in {"ok", "failed"}, ~d.hit,
                    NEW b, b = d.be, Signable(b)'
             PROVE  d.state = "ok" \/ Content("msg").val' = EmptyMessage
  BY DEF VerifyCleanSaved, Done, Signable, SignerKnown
<1>1. last \in [Commands -> Outcomes] /\ ControlOK /\ Ledger(u)
  BY DEF SoloInv, Ledger
<1>2. CASE d = last["verify"]
  <2>1. pc[u] \in Running => cmd[u] \notin {"sig-keygen", "sign"}
    BY <1>1, <1>2 DEF Ledger, SigNames
  <2>2. \A m \in Messages : ~Edited(u, m)
    BY DEF Edited, SigNames, NeverRan
  <2>3. Signable(b) /\ Content("msg")' = Content("msg")
    BY <2>1, <2>2, SignableKept, SigFileKept
  <2> QED
    BY <1>2, <2>3 DEF SigInv, VerifyCleanSaved, Done
<1>3. CASE /\ cmd[u] = "verify" /\ Returned(u)
           /\ d = [state |-> IF code[u] = 0 THEN "ok" ELSE "failed", be |-> be[u],
                   lost |-> lost[u], hit |-> last["verify"].hit]
  <2>1. pc[u] \in Running /\ b = be[u]
    BY <1>3 DEF Returned, Running
  <2>2. Signable(b) /\ Content("msg")' = Content("msg")
    BY <1>3, <2>1, NoEdit, SignableKept, SigFileKept
  <2>3. code[u] = 0 \/ Content("msg").val = EmptyMessage
    BY <1>3, <2>1, <2>2 DEF SigInv, VerifyClean
  <2> QED
    BY <1>3, <2>2, <2>3
<1> QED
  BY <1>1, <1>2, <1>3, OutcomeStep DEF SigNames

LEMMA SigInvInit ==
  ASSUME Init, NEW u, Procs = {u}, SigCommands \subseteq Commands,
         \A l \in Layouts : \A r, q \in Roles : l[r] = l[q] => r = q
  PROVE  SigInv(u)
<1>1. pc[u] = "idle" /\ \A c \in SigCommands : last[c].state = "none"
  BY DEF Init, NeverRan
<1>2. PairMade(u, "sig-keygen", "sigpub", "sigsec") /\ PairSaved("sig-keygen", "sigpub", "sigsec")
  BY <1>1 DEF PairMade, PairSaved, After, Writing, Good, SigCommands
<1>3. SigFiles
  <2>1. path \in [Roles -> Roles] /\ Apart
    BY CliAssumption DEF Init, Apart
  <2>2. path["msg"] # path["sigpub"] /\ path["msg"] \in Roles /\ path["sigpub"] \in Roles
    BY <2>1 DEF Apart, Roles
  <2> QED
    BY <2>1, <2>2 DEF Init, SigFiles, Content, NoFile
<1> QED
  BY <1>1, <1>2, <1>3
     DEF SigInv, SignMade, SignSaved, SignClean, SignCleanSaved, VerifyMade, VerifySaved,
         VerifyClean, VerifyCleanSaved, After, Writing, Running, Good, Done, SigCommands

(* VerifyVouches, for one user with a file for each role: a verification   *)
(* that exits 0 vouches for the signature, public key and message files as *)
(* they are then, however they came to be, so that the backends agreed;    *)
(* and sign and verify fail after good runs of the steps before only by a  *)
(* fault, another message or an empty one.                                 *)
THEOREM VerifiersVouch ==
  ASSUME NEW u, Procs = {u}, SigCommands \subseteq Commands,
         \A l \in Layouts : \A r, q \in Roles : l[r] = l[q] => r = q
  PROVE  Spec => []VerifyVouches
<1> u \in Procs
  OBVIOUS
<1>1. SigNames /\ \A l \in Layouts : Separate(l)
  BY SigNamesHold DEF Separate, Shares, Roles
<1>2. Init => SoloInv(u) /\ SigInv(u)
  BY <1>1, SoloInit, SigInvInit
<1>3. SoloInv(u) /\ SigInv(u) /\ [Next]_vars => SoloInv(u)' /\ SigInv(u)'
  <2> SUFFICES ASSUME SoloInv(u), SigInv(u), [Next]_vars PROVE SoloInv(u)' /\ SigInv(u)'
    OBVIOUS
  <2>1. SoloInv(u)' /\ Stepped(u) /\ path' = path
    BY SoloStep
  <2>2. /\ PairMade(u, "sig-keygen", "sigpub", "sigsec")'
        /\ PairSaved("sig-keygen", "sigpub", "sigsec")'
    <3>1. Pairing("sig-keygen", "sigpub", "sigsec")
      BY DEF Pairing
    <3>2. /\ PairMade(u, "sig-keygen", "sigpub", "sigsec")
          /\ PairSaved("sig-keygen", "sigpub", "sigsec")
      BY DEF SigInv
    <3> QED
      BY <2>1, <3>1, <3>2, PairMadeStep, PairSavedStep
  <2>3. SigFiles' /\ SignMade(u)' /\ SignSaved' /\ SignClean(u)' /\ SignCleanSaved'
    BY <1>1, <2>1, SigFilesStep, SignMadeStep, SignSavedStep, SignCleanStep, SignCleanSavedStep
  <2>4. VerifyMade(u)' /\ VerifySaved' /\ VerifyClean(u)' /\ VerifyCleanSaved'
    BY <1>1, <2>1, VerifyMadeStep, VerifySavedStep, VerifyCleanStep, VerifyCleanSavedStep
  <2> QED
    BY <2>1, <2>2, <2>3, <2>4 DEF SigInv
<1>4. SigInv(u) => VerifyVouches
  <2> SUFFICES ASSUME SigInv(u) PROVE VerifyVouches
    OBVIOUS
  <2>1. last["verify"].state = "ok" => Vouched(last["verify"].be)
    BY DEF SigInv, VerifySaved
  <2>2. ASSUME last["verify"].state = "ok", Good("sig-keygen"), Good("sign")
        PROVE  /\ last["sig-keygen"].be = last["sign"].be
               /\ last["sign"].be = last["verify"].be
    <3>1. PICK key : \E m :
             /\ Content("sig").val = S!Signature(last["sign"].be, key, m)
             /\ key = S!Opaque \/ \E r \in Entropy : key = S!PublicKey(last["sign"].be, r)
      BY <2>2 DEF SigInv, SignSaved, Signed
    <3>2. /\ Content("sig").val[2] = last["sign"].be /\ Content("sig").val[3] = key
      BY <3>1 DEF S!Signature
    <3>3. /\ last["verify"].be = Content("sig").val[2]
          /\ Content("sigpub").val = Content("sig").val[3]
      BY <2>1, <2>2 DEF Vouched, S!Signature
    <3>4. \E r \in Entropy : Content("sigpub").val = S!PublicKey(last["sig-keygen"].be, r)
      BY <1>1, <2>2, SignerOnDisk DEF SignerKnown, SigInv, SigNames, Whole
    <3>5. key # S!Opaque
      BY <3>2, <3>3, <3>4 DEF S!PublicKey, S!Opaque
    <3>6. \E r, q : S!PublicKey(last["sig-keygen"].be, r) = S!PublicKey(last["sign"].be, q)
      BY <3>1, <3>2, <3>3, <3>4, <3>5
    <3>7. last["sig-keygen"].be = last["sign"].be
      BY <3>6 DEF S!PublicKey
    <3> QED
      BY <3>2, <3>3, <3>7
  <2>3. Done("sign") /\ ~last["sign"].hit /\ SignerKnown(last["sign"].be) =>
           last["sign"].state = "ok" \/ Content("msg").val = EmptyMessage
    BY DEF SigInv, SignCleanSaved
  <2>4. Done("verify") /\ ~last["verify"].hit /\ Signable(last["verify"].be) =>
           last["verify"].state = "ok" \/ Content("msg").val = EmptyMessage
    BY DEF SigInv, VerifyCleanSaved
  <2> QED
    BY <2>1, <2>2, <2>3, <2>4 DEF VerifyVouches, Vouched, SignerKnown, Signable
<1> QED
  BY <1>2, <1>3, <1>4, PTL DEF Spec
=============================================================================
