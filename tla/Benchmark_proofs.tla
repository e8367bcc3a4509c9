--------------------------- MODULE Benchmark_proofs ---------------------------
(***************************************************************************)
(* Theorems about Benchmark, for any processes, costs, iteration counts    *)
(* and bounds on runs and faults.                                          *)
(***************************************************************************)
EXTENDS Benchmark, FiniteSetTheorems, SequenceTheorems, TLAPS

Pieces == {"HEADER", "ROW", "header", "row"}

LEMMA ProgramFacts ==
  /\ Len(Program) = 10
  /\ Program[1].op = "keypair"     /\ Program[1].timed = TRUE
  /\ Program[2].op = "keypair"     /\ Program[2].timed = FALSE
  /\ Program[3].op = "encaps"      /\ Program[3].timed = TRUE
  /\ Program[4].op = "encaps"      /\ Program[4].timed = FALSE
  /\ Program[5].op = "decaps"      /\ Program[5].timed = TRUE
  /\ Program[6].op = "sig_keypair" /\ Program[6].timed = TRUE
  /\ Program[7].op = "sig_keypair" /\ Program[7].timed = FALSE
  /\ Program[8].op = "sign"        /\ Program[8].timed = TRUE
  /\ Program[9].op = "sign"        /\ Program[9].timed = FALSE
  /\ Program[10].op = "verify"     /\ Program[10].timed = TRUE
BY DEF Program, Timed, Once

(* Each phase times, or does not time, one of the operations. *)
LEMMA PhaseFacts ==
  ASSUME NEW k \in 1 .. Len(Program)
  PROVE  Program[k].op \in Operations /\ Program[k].timed \in BOOLEAN
<1>1. k \in {1, 2, 3, 4, 5, 6, 7, 8, 9, 10}
  BY ProgramFacts
<1> QED
  BY <1>1, ProgramFacts, ZenonT(30) DEF Operations

(* No two loops time the same operation, and every operation has its loop. *)
LEMMA LoopFacts ==
  /\ \A op \in Operations : \E k \in 1 .. Len(Program) : Program[k].timed /\ Program[k].op = op
  /\ \A k, l \in 1 .. Len(Program) :
        Program[k].timed /\ Program[l].timed /\ Program[k].op = Program[l].op => k = l
<1> DEFINE Loops == {1, 3, 5, 6, 8, 10}
<1>1. \A k \in 1 .. 10 : Program[k].timed <=> k \in Loops
  BY ProgramFacts
<1>2. \A k, l \in Loops : Program[k].op = Program[l].op => k = l
  BY ProgramFacts
<1>3. \A op \in Operations : \E k \in Loops : Program[k].op = op
  BY ProgramFacts DEF Operations
<1>4. Loops \subseteq 1 .. 10
  OBVIOUS
<1> HIDE DEF Loops
<1> QED
  BY <1>1, <1>2, <1>3, <1>4, ProgramFacts

-----------------------------------------------------------------------------
(* Types. *)

LEMMA JobFacts ==
  ASSUME NEW j \in Jobs \cup {NoJob}
  PROVE  /\ j.backend \in {"DUMMY", "MLKEM", "PLACEHOLDER"}
         /\ j.iterations \in Nat
         /\ j.out \in {"none", "csv", "text"}
<1>1. CASE j \in Jobs
  BY <1>1, BenchmarkAssumption DEF Jobs
<1>2. CASE j = NoJob
  BY <1>2 DEF NoJob
<1> QED
  BY <1>1, <1>2

LEMMA CostFacts ==
  ASSUME NEW op \in Operations
  PROVE  Cost[op] \in Nat
BY BenchmarkAssumption

(* The state in four groups that most actions change separately. *)
TypePlace ==
    /\ pc \in [Procs -> {"idle", "alloc", "phase", "call", "next", "report", "open", "close",
                         "done", "exited", "killed"}]
    /\ job \in [Procs -> Jobs \cup {NoJob}]
    /\ code \in [Procs -> {0, 1}]

TypeLocals ==
    /\ at \in [Procs -> 1..Len(Program)]
    /\ i \in [Procs -> Nat]
    /\ cpu \in [Procs -> Nat]
    /\ start \in [Procs -> Nat]
    /\ total \in [Procs -> [Operations -> Nat]]
    /\ made \in [Procs -> [{"key", "ct", "sigkey", "sig"} -> Nat]]
    /\ header \in [Procs -> BOOLEAN]

TypeSecret == secret \in [Procs -> SUBSET {"sec", "shared_secret", "sig_sec", "signature"}]

TypeBounds ==
    /\ runs \in 0..MaxRuns
    /\ faults \in 0..MaxFaults
    /\ hit \in [Procs -> BOOLEAN]

TypeFiles ==
    /\ csv \in Seq({"HEADER", "ROW", "header", "row"})
    /\ text \in {"absent", "empty", "whole", "torn"}

LEMMA TypeParts ==
  TypeOK <=> TypePlace /\ TypeLocals /\ TypeSecret /\ TypeBounds /\ TypeFiles
BY DEF TypeOK, TypePlace, TypeLocals, TypeSecret, TypeBounds, TypeFiles

LEMMA InitTypes == Init => TypeOK
<1> SUFFICES ASSUME Init PROVE TypeOK
  OBVIOUS
<1>1. TypePlace /\ TypeLocals
  BY ProgramFacts DEF Init, TypePlace, TypeLocals, NoKeys
<1>2. TypeSecret /\ TypeBounds /\ TypeFiles
  BY BenchmarkAssumption DEF Init, TypeSecret, TypeBounds, TypeFiles
<1> QED
  BY <1>1, <1>2, TypeParts

(* What is appended to the CSV file. *)
LEMMA ReportFacts ==
  ASSUME NEW p, NEW t \in {Report(p)} \cup Torn(p)
  PROVE  /\ t \in Seq(Pieces)
         /\ Len(t) \in 0 .. 2
         /\ \A k \in 1 .. Len(t) : k > 1 => t[k] \notin {"HEADER", "header"}
         /\ Len(t) > 0 => (t[1] \in {"HEADER", "header"} <=> header[p])
<1> DEFINE Good(u) == /\ u \in Seq(Pieces)
                      /\ Len(u) \in 0 .. 2
                      /\ \A k \in 1 .. Len(u) : k > 1 => u[k] \notin {"HEADER", "header"}
<1>1. Good(<<>>) /\ Len(<<>>) = 0
  BY DEF Pieces
<1>2. \A a \in Pieces : Good(<<a>>) /\ <<a>>[1] = a
  BY DEF Pieces
<1>3. \A a \in Pieces, b \in {"ROW", "row"} : Good(<<a, b>>) /\ <<a, b>>[1] = a
  BY DEF Pieces
<1>4. CASE header[p]
  <2>1. t \in {<<>>, <<"header">>, <<"HEADER">>, <<"HEADER", "row">>, <<"HEADER", "ROW">>}
    BY <1>4 DEF Report, Torn
  <2> HIDE DEF Good
  <2>2. Good(t) /\ (t # <<>> => t[1] \in {"HEADER", "header"})
    BY <2>1, <1>1, <1>2, <1>3 DEF Pieces
  <2> QED
    BY <2>2, <1>1, <1>4 DEF Good
<1>5. CASE ~ header[p]
  <2>1. t \in {<<>>, <<"row">>, <<"ROW">>}
    BY <1>5 DEF Report, Torn
  <2> HIDE DEF Good
  <2>2. Good(t) /\ (t # <<>> => t[1] \in {"ROW", "row"})
    BY <2>1, <1>1, <1>2 DEF Pieces
  <2> QED
    BY <2>2, <1>1, <1>5 DEF Good
<1> QED
  BY <1>4, <1>5

LEMMA ResetTypes ==
  ASSUME TypeLocals, NEW p \in Procs, ResetLocals(p)
  PROVE  TypeLocals'
BY ProgramFacts DEF ResetLocals, TypeLocals, NoKeys

LEMMA FaultTypes ==
  ASSUME TypeBounds, NEW p \in Procs, Fault(p) \/ UNCHANGED bounds
  PROVE  TypeBounds'
<1>1. MaxFaults \in Nat
  BY BenchmarkAssumption
<1>2. CASE Fault(p)
  BY <1>1, <1>2 DEF TypeBounds, Fault
<1>3. CASE UNCHANGED bounds
  BY <1>3 DEF TypeBounds, bounds
<1> QED
  BY <1>2, <1>3

LEMMA AppendTypes ==
  ASSUME TypeFiles, NEW p \in Procs, Close(p)
  PROVE  TypeFiles'
<1>1. \A t \in Seq(Pieces) : csv \o t \in Seq(Pieces)
  BY DEF TypeFiles, Pieces
<1>2. CASE job[p].out = "csv"
  <2>1. PICK t \in {Report(p)} \cup Torn(p) : csv' = csv \o t
    BY <1>2 DEF Close
  <2>2. t \in Seq(Pieces)
    BY ReportFacts
  <2> QED
    BY <1>1, <1>2, <2>1, <2>2 DEF TypeFiles, Pieces, Close
<1>3. CASE job[p].out # "csv"
  BY <1>3 DEF TypeFiles, Close
<1> QED
  BY <1>2, <1>3

LEMMA MakesTypes ==
  ASSUME NEW m \in [{"key", "ct", "sigkey", "sig"} -> Nat], NEW op
  PROVE  /\ Makes(op, m) \in [{"key", "ct", "sigkey", "sig"} -> Nat]
         /\ Leaves(op) \subseteq {"sec", "shared_secret", "sig_sec", "signature"}
BY DEF Makes, Leaves

-----------------------------------------------------------------------------
(* The invariants of one run, on the locals of its process: place and job, *)
(* phase and counter, clock and start, totals, keys, exit code and fault.  *)

Resting   == {"idle", "exited", "killed"}
Reporting == {"report", "open", "close"}
Busy      == {"alloc", "phase", "call", "next"} \cup Reporting

(* A run begins at the first phase, with something to repeat.              *)
Begun(place, j, a, e) ==
    /\ place \in Resting \cup {"alloc"} => a = 1
    /\ place \in Busy => j.iterations > 0 /\ e = 0
    /\ place \in Reporting => a = Len(Program)

(* Inside a timed loop the clock has moved by the calls of the loop alone; *)
(* the counter says how many; the loops before it have been accounted for. *)
Measured(place, j, a, n, c, s, t) ==
    /\ place \in {"call", "next"} /\ Program[a].timed =>
          /\ c = s + Cost[Program[a].op] * n
          /\ place = "call" => n < j.iterations
          /\ place = "next" => n = j.iterations
    /\ place \in {"phase", "call", "next"} \cup Reporting =>
          \A k \in 1 .. Len(Program) :
             Program[k].timed /\ (k < a \/ place \in Reporting) =>
                t[Program[k].op] = Cost[Program[k].op] * j.iterations

(* From the fifth phase on the ciphertext is for the key held, in the last *)
(* the signature is of it; no phase ends without a connected backend; and  *)
(* the exit code of an undisturbed run says so.                            *)
Consistent(place, j, a, m, e, h) ==
    /\ a > 4 \/ (a = 4 /\ place = "next") => m.ct = m.key
    /\ a > 9 \/ (a = 9 /\ place = "next") => m.sig = m.sigkey
    /\ a > 1 \/ place \in {"next"} \cup Reporting => j.backend # "PLACEHOLDER"
    /\ place \in {"done", "exited"} /\ j.iterations > 0 /\ ~ h =>
          (e = 0 <=> j.backend # "PLACEHOLDER")

RunInv ==
    \A p \in Procs :
        /\ Begun(pc[p], job[p], at[p], code[p])
        /\ Measured(pc[p], job[p], at[p], i[p], cpu[p], start[p], total[p])
        /\ Consistent(pc[p], job[p], at[p], made[p], code[p], hit[p])

LEMMA Product ==
  ASSUME NEW a \in Nat, NEW b \in Nat
  PROVE  a * b \in Nat /\ a * (b + 1) = a * b + a /\ a * 0 = 0
OBVIOUS

(* The second reading of the clock is not before the first. *)
LEMMA ReadingsInOrder ==
  ASSUME TypeLocals, RunInv, NEW p \in Procs, pc[p] = "next", Program[at[p]].timed
  PROVE  cpu[p] - start[p] \in Nat
<1> DEFINE op == Program[at[p]].op
<1>1. cpu[p] = start[p] + Cost[op] * i[p]
  BY DEF RunInv, Measured
<1>2. op \in Operations
  BY PhaseFacts DEF TypeLocals
<1> HIDE DEF op
<1>3. Cost[op] * i[p] \in Nat
  BY <1>2, CostFacts, Product DEF TypeLocals
<1> QED
  BY <1>1, <1>3 DEF TypeLocals

LEMMA NextTypes == TypeOK /\ RunInv /\ [Next]_vars => TypeOK'
<1> SUFFICES ASSUME TypeOK, RunInv, [Next]_vars PROVE TypeOK'
  OBVIOUS
<1>1. TypePlace /\ TypeLocals /\ TypeSecret /\ TypeBounds /\ TypeFiles
  BY TypeParts
<1> SUFFICES TypePlace' /\ TypeLocals' /\ TypeSecret' /\ TypeBounds' /\ TypeFiles'
  BY DEF TypeOK, TypePlace, TypeLocals, TypeSecret, TypeBounds, TypeFiles
<1>2. CASE UNCHANGED vars
  BY <1>1, <1>2 DEF vars, TypePlace, TypeLocals, TypeSecret, TypeBounds, TypeFiles
<1>3. ASSUME NEW p \in Procs, NEW j \in Jobs, Start(p, j)
      PROVE  TypePlace' /\ TypeLocals' /\ TypeSecret' /\ TypeBounds' /\ TypeFiles'
  <2>1. TypePlace'
    BY <1>1, <1>3 DEF Start, Goto, TypePlace
  <2>2. TypeLocals' /\ TypeSecret' /\ TypeFiles'
    BY <1>1, <1>3 DEF Start, measures, files, TypeLocals, TypeSecret, TypeFiles
  <2>3. TypeBounds'
    BY <1>1, <1>3, BenchmarkAssumption DEF Start, TypeBounds
  <2> QED
    BY <2>1, <2>2, <2>3
<1>4. ASSUME NEW p \in Procs, Alloc(p)
      PROVE  TypePlace' /\ TypeLocals' /\ TypeSecret' /\ TypeBounds' /\ TypeFiles'
  <2>1. TypePlace'
    BY <1>1, <1>4 DEF Alloc, Goto, Fail, TypePlace
  <2>2. TypeLocals' /\ TypeSecret' /\ TypeFiles'
    BY <1>1, <1>4 DEF Alloc, measures, files, TypeLocals, TypeSecret, TypeFiles
  <2>3. TypeBounds'
    BY <1>1, <1>4, FaultTypes DEF Alloc
  <2> QED
    BY <2>1, <2>2, <2>3
<1>5. ASSUME NEW p \in Procs, Phase(p)
      PROVE  TypePlace' /\ TypeLocals' /\ TypeSecret' /\ TypeBounds' /\ TypeFiles'
  <2>1. TypePlace'
    BY <1>1, <1>5 DEF Phase, Goto, TypePlace
  <2>2. TypeLocals'
    <3>1. start' \in [Procs -> Nat] /\ i' \in [Procs -> Nat]
      <4>1. CASE Program[at[p]].timed
        <5>1. start' = [start EXCEPT ![p] = cpu[p]] /\ i' = [i EXCEPT ![p] = 0]
          BY <1>5, <4>1 DEF Phase
        <5>2. cpu[p] \in Nat /\ start \in [Procs -> Nat] /\ i \in [Procs -> Nat]
          BY <1>1 DEF TypeLocals
        <5> QED
          BY <5>1, <5>2
      <4>2. CASE ~ Program[at[p]].timed
        BY <1>1, <1>5, <4>2 DEF Phase, TypeLocals
      <4> QED
        BY <4>1, <4>2
    <3> QED
      BY <1>1, <1>5, <3>1 DEF Phase, TypeLocals
  <2>3. TypeSecret' /\ TypeBounds' /\ TypeFiles'
    BY <1>1, <1>5 DEF Phase, files, bounds, TypeSecret, TypeBounds, TypeFiles
  <2> QED
    BY <2>1, <2>2, <2>3
<1>6. ASSUME NEW p \in Procs, LibraryCall(p)
      PROVE  TypePlace' /\ TypeLocals' /\ TypeSecret' /\ TypeBounds' /\ TypeFiles'
  <2> DEFINE op == Program[at[p]].op
  <2>1. op \in Operations /\ Cost[op] \in Nat
    BY <1>1, PhaseFacts, CostFacts DEF TypeLocals
  <2>2. TypePlace'
    BY <1>1, <1>6 DEF LibraryCall, Goto, Fail, TypePlace
  <2>3. cpu' \in [Procs -> Nat] /\ i' \in [Procs -> Nat]
    <3>1. cpu[p] + Cost[op] \in Nat /\ i[p] + 1 \in Nat /\ i[p] \in Nat
      BY <1>1, <2>1, SMTT(30) DEF TypeLocals
    <3> HIDE DEF op
    <3>2. cpu' = [cpu EXCEPT ![p] = @ + Cost[op]]
      BY <1>6 DEF LibraryCall, op
    <3>3. i' = i \/ \E n \in {i[p] + 1, i[p]} : i' = [i EXCEPT ![p] = n]
      BY <1>6 DEF LibraryCall
    <3> QED
      BY <1>1, <3>1, <3>2, <3>3, ZenonT(30) DEF TypeLocals
  <2>4. /\ made' \in [Procs -> [{"key", "ct", "sigkey", "sig"} -> Nat]]
        /\ TypeSecret'
    <3>1. CASE Refused(p, op)
      BY <1>1, <1>6, <3>1 DEF LibraryCall, TypeLocals, TypeSecret
    <3>2. CASE ~ Refused(p, op)
      <4>1. /\ Makes(op, made[p]) \in [{"key", "ct", "sigkey", "sig"} -> Nat]
            /\ Leaves(op) \subseteq {"sec", "shared_secret", "sig_sec", "signature"}
        BY <1>1, MakesTypes DEF TypeLocals
      <4>2. /\ made' = [made EXCEPT ![p] = Makes(op, @)]
            /\ secret' = [secret EXCEPT ![p] = @ \cup Leaves(op)]
        BY <1>6, <3>2 DEF LibraryCall
      <4> HIDE DEF op
      <4> QED
        BY <1>1, <4>1, <4>2 DEF TypeLocals, TypeSecret
    <3> QED
      BY <3>1, <3>2
  <2>5. TypeLocals'
    BY <1>1, <1>6, <2>3, <2>4 DEF LibraryCall, TypeLocals
  <2>6. TypeBounds' /\ TypeFiles'
    BY <1>1, <1>6 DEF LibraryCall, files, bounds, TypeBounds, TypeFiles
  <2> QED
    BY <2>2, <2>4, <2>5, <2>6
<1>7. ASSUME NEW p \in Procs, NextPhase(p)
      PROVE  TypePlace' /\ TypeLocals' /\ TypeSecret' /\ TypeBounds' /\ TypeFiles'
  <2>1. TypePlace'
    BY <1>1, <1>7 DEF NextPhase, Goto, TypePlace
  <2>2. at' \in [Procs -> 1 .. Len(Program)]
    <3>1. at' = at \/ (at[p] < Len(Program) /\ at' = [at EXCEPT ![p] = @ + 1])
      BY <1>7 DEF NextPhase
    <3>2. Len(Program) = 10
      BY ProgramFacts
    <3>3. at \in [Procs -> 1 .. 10]
      BY <1>1, <3>2 DEF TypeLocals
    <3>4. at[p] < 10 => at[p] + 1 \in 1 .. 10
      BY <3>3
    <3>5. at' \in [Procs -> 1 .. 10]
      BY <3>1, <3>2, <3>3, <3>4
    <3> QED
      BY <3>2, <3>5
  <2>3. total' \in [Procs -> [Operations -> Nat]]
    <3> DEFINE op == Program[at[p]].op
    <3>1. op \in Operations
      BY <1>1, PhaseFacts DEF TypeLocals
    <3>2. CASE Program[at[p]].timed
      <4>1. cpu[p] - start[p] \in Nat
        BY <1>1, <1>7, <3>2, ReadingsInOrder DEF NextPhase
      <4>2. total' = [total EXCEPT ![p][op] = cpu[p] - start[p]]
        BY <1>7, <3>2 DEF NextPhase
      <4> HIDE DEF op
      <4>3. [total[p] EXCEPT ![op] = cpu[p] - start[p]] \in [Operations -> Nat]
        BY <1>1, <3>1, <4>1 DEF TypeLocals
      <4> QED
        BY <1>1, <4>2, <4>3 DEF TypeLocals
    <3>3. CASE ~ Program[at[p]].timed
      BY <1>1, <1>7, <3>3 DEF NextPhase, TypeLocals
    <3> QED
      BY <3>2, <3>3
  <2>4. TypeLocals'
    BY <1>1, <1>7, <2>2, <2>3 DEF NextPhase, TypeLocals
  <2>5. TypeSecret' /\ TypeBounds' /\ TypeFiles'
    BY <1>1, <1>7 DEF NextPhase, files, bounds, TypeSecret, TypeBounds, TypeFiles
  <2> QED
    BY <2>1, <2>4, <2>5
<1>8. ASSUME NEW p \in Procs, Probe(p)
      PROVE  TypePlace' /\ TypeLocals' /\ TypeSecret' /\ TypeBounds' /\ TypeFiles'
  <2>1. TypePlace'
    BY <1>1, <1>8 DEF Probe, Goto, Fail, TypePlace
  <2>2. TypeLocals'
    BY <1>1, <1>8 DEF Probe, measures, TypeLocals
  <2>3. TypeSecret' /\ TypeFiles'
    BY <1>1, <1>8 DEF Probe, files, TypeSecret, TypeFiles
  <2>4. TypeBounds'
    BY <1>1, <1>8, FaultTypes DEF Probe
  <2> QED
    BY <2>1, <2>2, <2>3, <2>4
<1>9. ASSUME NEW p \in Procs, Open(p)
      PROVE  TypePlace' /\ TypeLocals' /\ TypeSecret' /\ TypeBounds' /\ TypeFiles'
  <2>1. TypePlace'
    BY <1>1, <1>9 DEF Open, Goto, Fail, TypePlace
  <2>2. TypeLocals' /\ TypeSecret' /\ TypeFiles'
    BY <1>1, <1>9 DEF Open, measures, TypeLocals, TypeSecret, TypeFiles
  <2>3. TypeBounds'
    BY <1>1, <1>9, FaultTypes DEF Open
  <2> QED
    BY <2>1, <2>2, <2>3
<1>10. ASSUME NEW p \in Procs, Close(p)
       PROVE  TypePlace' /\ TypeLocals' /\ TypeSecret' /\ TypeBounds' /\ TypeFiles'
  <2>1. TypePlace' /\ TypeLocals' /\ TypeSecret'
    BY <1>1, <1>10 DEF Close, Goto, measures, TypePlace, TypeLocals, TypeSecret
  <2>2. TypeBounds'
    BY <1>1, <1>10, FaultTypes DEF Close
  <2> QED
    BY <1>1, <1>10, <2>1, <2>2, AppendTypes
<1>11. ASSUME NEW p \in Procs, Finish(p)
       PROVE  TypePlace' /\ TypeLocals' /\ TypeSecret' /\ TypeBounds' /\ TypeFiles'
  <2>1. TypePlace' /\ TypeSecret'
    BY <1>1, <1>11 DEF Finish, Goto, TypePlace, TypeSecret
  <2>2. TypeLocals'
    BY <1>1, <1>11, ResetTypes DEF Finish
  <2>3. TypeBounds' /\ TypeFiles'
    BY <1>1, <1>11 DEF Finish, files, bounds, TypeBounds, TypeFiles
  <2> QED
    BY <2>1, <2>2, <2>3
<1>12. ASSUME NEW p \in Procs, Kill(p)
       PROVE  TypePlace' /\ TypeLocals' /\ TypeSecret' /\ TypeBounds' /\ TypeFiles'
  <2>1. TypePlace' /\ TypeSecret'
    BY <1>1, <1>12 DEF Kill, Goto, TypePlace, TypeSecret
  <2>2. TypeLocals' /\ TypeBounds'
    BY <1>1, <1>12, ResetTypes, FaultTypes DEF Kill
  <2>3. TypeFiles'
    BY <1>1, <1>12 DEF Kill, files, TypeFiles
  <2> QED
    BY <2>1, <2>2, <2>3
<1> QED
  BY <1>2, <1>3, <1>4, <1>5, <1>6, <1>7, <1>8, <1>9, <1>10, <1>11, <1>12 DEF Next, Step

-----------------------------------------------------------------------------
(* The invariants of a run hold. *)

(* A step of one process leaves the locals of the others alone. *)
LEMMA OthersUnchanged ==
  ASSUME TypeOK, NEW p \in Procs, NEW q \in Procs, q # p,
         (\E j \in Jobs : Start(p, j)) \/ Step(p) \/ Kill(p)
  PROVE  /\ pc'[q] = pc[q] /\ job'[q] = job[q] /\ at'[q] = at[q] /\ code'[q] = code[q]
         /\ i'[q] = i[q] /\ cpu'[q] = cpu[q] /\ start'[q] = start[q] /\ total'[q] = total[q]
         /\ made'[q] = made[q] /\ hit'[q] = hit[q] /\ header'[q] = header[q]
         /\ secret'[q] = secret[q]
<1>1. /\ q \in DOMAIN pc /\ q \in DOMAIN job /\ q \in DOMAIN at /\ q \in DOMAIN code
      /\ q \in DOMAIN i /\ q \in DOMAIN cpu /\ q \in DOMAIN start /\ q \in DOMAIN total
      /\ q \in DOMAIN made /\ q \in DOMAIN hit /\ q \in DOMAIN header
      /\ q \in DOMAIN secret
  BY DEF TypeOK
<1>2. ASSUME NEW j \in Jobs, Start(p, j)
      PROVE  /\ pc'[q] = pc[q] /\ job'[q] = job[q] /\ code'[q] = code[q] /\ hit'[q] = hit[q]
             /\ secret'[q] = secret[q]
             /\ UNCHANGED <<measures, header>>
  BY <1>1, <1>2 DEF Start, Goto, measures
<1>3. Fault(p) \/ UNCHANGED bounds => hit'[q] = hit[q]
  BY <1>1 DEF Fault, bounds
<1>4. \A where : Goto(p, where) => pc'[q] = pc[q]
  BY <1>1 DEF Goto
<1>5. Fail(p) => pc'[q] = pc[q] /\ code'[q] = code[q]
  BY <1>1, <1>4 DEF Fail
<1>6. ResetLocals(p) =>
        /\ at'[q] = at[q] /\ i'[q] = i[q] /\ cpu'[q] = cpu[q] /\ start'[q] = start[q]
        /\ total'[q] = total[q] /\ made'[q] = made[q] /\ header'[q] = header[q]
  BY <1>1 DEF ResetLocals
<1>7. CASE \E j \in Jobs : Start(p, j)
  BY <1>2, <1>7 DEF measures
<1>8. CASE Alloc(p) \/ Probe(p) \/ Open(p) \/ Close(p)
  <2>1. UNCHANGED <<job, measures>> /\ hit'[q] = hit[q] /\ pc'[q] = pc[q] /\ code'[q] = code[q]
    BY <1>3, <1>4, <1>5, <1>8 DEF Alloc, Probe, Open, Close
  <2>2. header'[q] = header[q] /\ secret' = secret
    BY <1>1, <1>8 DEF Alloc, Probe, Open, Close
  <2> QED
    BY <2>1, <2>2 DEF measures
<1>9. CASE Phase(p)
  <2>1. start'[q] = start[q] /\ i'[q] = i[q]
    BY <1>1, <1>9 DEF Phase
  <2>2. UNCHANGED <<job, at, cpu, total, made, secret, code, header, hit>> /\ pc'[q] = pc[q]
    BY <1>4, <1>9 DEF Phase, bounds
  <2> QED
    BY <2>1, <2>2
<1>10. CASE LibraryCall(p)
  <2>1. cpu'[q] = cpu[q] /\ i'[q] = i[q] /\ made'[q] = made[q] /\ secret'[q] = secret[q]
    BY <1>1, <1>10 DEF LibraryCall
  <2>2. UNCHANGED <<job, at, start, total, header, hit>> /\ pc'[q] = pc[q] /\ code'[q] = code[q]
    BY <1>4, <1>5, <1>10 DEF LibraryCall, bounds
  <2> QED
    BY <2>1, <2>2
<1>11. CASE NextPhase(p)
  <2>1. at'[q] = at[q] /\ total'[q] = total[q]
    BY <1>1, <1>11 DEF NextPhase
  <2>2. UNCHANGED <<job, i, cpu, start, made, secret, code, header, hit>> /\ pc'[q] = pc[q]
    BY <1>4, <1>11 DEF NextPhase, bounds
  <2> QED
    BY <2>1, <2>2
<1>12. CASE Finish(p)
  <2>1. secret'[q] = secret[q]
    BY <1>1, <1>12 DEF Finish
  <2> QED
    BY <1>3, <1>4, <1>6, <1>12, <2>1 DEF Finish
<1>13. CASE Kill(p)
  <2>1. code'[q] = code[q] /\ secret'[q] = secret[q]
    BY <1>1, <1>13 DEF Kill
  <2> QED
    BY <1>3, <1>4, <1>6, <1>13, <2>1 DEF Kill
<1> QED
  BY <1>7, <1>8, <1>9, <1>10, <1>11, <1>12, <1>13 DEF Step

LEMMA InitRun == Init => RunInv
<1> SUFFICES ASSUME Init, NEW p \in Procs
             PROVE  /\ Begun(pc[p], job[p], at[p], code[p])
                    /\ Measured(pc[p], job[p], at[p], i[p], cpu[p], start[p], total[p])
                    /\ Consistent(pc[p], job[p], at[p], made[p], code[p], hit[p])
  BY DEF RunInv
<1>1. pc[p] = "idle" /\ at[p] = 1
  BY DEF Init
<1> QED
  BY <1>1 DEF Begun, Measured, Consistent, Resting, Reporting, Busy

(* What a run's end and a reset leave. *)
LEMMA RestingInv ==
  ASSUME NEW place \in Resting \cup {"alloc"}, NEW j, NEW n, NEW c, NEW s, NEW t, NEW m, NEW e, NEW h,
         place = "alloc" => j.iterations > 0 /\ e = 0,
         place = "exited" /\ j.iterations > 0 /\ ~ h => (e = 0 <=> j.backend # "PLACEHOLDER")
  PROVE  Begun(place, j, 1, e) /\ Measured(place, j, 1, n, c, s, t) /\ Consistent(place, j, 1, m, e, h)
BY DEF Begun, Measured, Consistent, Resting, Reporting, Busy

LEMMA NextRun == TypeOK /\ RunInv /\ [Next]_vars => RunInv'
<1> SUFFICES ASSUME TypeOK, RunInv, [Next]_vars PROVE RunInv'
  OBVIOUS
<1> DEFINE Inv(p) == /\ Begun(pc[p], job[p], at[p], code[p])
                     /\ Measured(pc[p], job[p], at[p], i[p], cpu[p], start[p], total[p])
                     /\ Consistent(pc[p], job[p], at[p], made[p], code[p], hit[p])
<1>1. TypePlace /\ TypeLocals /\ TypeBounds /\ Len(Program) = 10
  BY TypeParts, ProgramFacts
<1>2. \A p \in Procs : Inv(p)
  BY DEF RunInv
<1>3. CASE UNCHANGED vars
  BY <1>3 DEF vars, RunInv
<1>4. ASSUME NEW p \in Procs, NEW j \in Jobs, Start(p, j) PROVE Inv(p)'
  <2>1. at[p] = 1 /\ UNCHANGED measures
    BY <1>2, <1>4 DEF Start, Begun, Resting
  <2>2. job'[p] = j /\ j.iterations \in Nat
    BY <1>1, <1>4, JobFacts DEF Start, TypePlace
  <2>3. /\ pc'[p] = IF j.iterations = 0 THEN "exited" ELSE "alloc"
        /\ code'[p] = IF j.iterations = 0 THEN 1 ELSE 0
    BY <1>1, <1>4 DEF Start, Goto, TypePlace
  <2>4. at'[p] = 1
    BY <2>1 DEF measures
  <2> HIDE DEF Inv
  <2>5. pc'[p] \in Resting \cup {"alloc"}
    BY <2>3 DEF Resting
  <2>6. /\ pc'[p] = "alloc" => job'[p].iterations > 0 /\ code'[p] = 0
        /\ pc'[p] = "exited" => ~ (job'[p].iterations > 0)
    BY <2>2, <2>3
  <2> QED
    BY <2>4, <2>5, <2>6, RestingInv DEF Inv
<1>5. ASSUME NEW p \in Procs, Alloc(p) \/ Probe(p) \/ Open(p) \/ Close(p) PROVE Inv(p)'
  <2>1. UNCHANGED <<job, at, i, cpu, start, total, made>>
    BY <1>5 DEF Alloc, Probe, Open, Close, measures
  <2>2. /\ (pc[p] = "alloc" /\ at[p] = 1) \/ pc[p] \in Reporting
        /\ code[p] = 0
    BY <1>2, <1>5 DEF Alloc, Probe, Open, Close, Begun, Resting, Reporting, Busy
  <2>3. \A where : Goto(p, where) => pc'[p] = where
    BY <1>1 DEF Goto, TypePlace
  <2>4. Fail(p) => pc'[p] = "done"
    BY <2>3 DEF Fail
  <2>5. /\ Fault(p) => hit'[p] = TRUE
        /\ UNCHANGED bounds => hit'[p] = hit[p]
    BY <1>1 DEF Fault, TypeBounds, bounds
  <2>6. \/ pc'[p] = "done" /\ hit'[p] = TRUE
        \/ pc[p] = "alloc" /\ pc'[p] = "phase" /\ code'[p] = 0
        \/ pc[p] \in Reporting /\ pc'[p] \in Reporting \cup {"done"} /\ code'[p] = 0
    BY <1>5, <2>2, <2>3, <2>4, <2>5 DEF Alloc, Probe, Open, Close, Reporting
  <2> QED
    <3>1. CASE pc'[p] = "done" /\ hit'[p] = TRUE
      BY <1>2, <2>1, <3>1, <2>2 DEF Begun, Measured, Consistent, Resting, Reporting, Busy
    <3>2. CASE pc[p] = "alloc" /\ pc'[p] = "phase" /\ code'[p] = 0
      <4>1. at[p] = 1 /\ job[p].iterations > 0
        BY <1>2, <3>2 DEF Begun, Busy
      <4> QED
        BY <2>1, <3>2, <4>1 DEF Begun, Measured, Consistent, Resting, Reporting, Busy
    <3>3. CASE pc[p] \in Reporting /\ pc'[p] \in Reporting \cup {"done"} /\ code'[p] = 0
      BY <1>2, <2>1, <3>3 DEF Begun, Measured, Consistent, Resting, Reporting, Busy
    <3> QED
      BY <2>6, <3>1, <3>2, <3>3
<1>6. ASSUME NEW p \in Procs, Phase(p) PROVE Inv(p)'
  <2>1. UNCHANGED <<job, at, cpu, total, made, code, hit>> /\ pc[p] = "phase" /\ pc'[p] = "call"
    BY <1>1, <1>6 DEF Phase, Goto, bounds, TypePlace
  <2>2. Program[at[p]].timed => start'[p] = cpu[p] /\ i'[p] = 0
    BY <1>1, <1>6 DEF Phase, TypeLocals
  <2>3. Begun(pc[p], job[p], at[p], code[p])'
    BY <1>2, <2>1 DEF Begun, Resting, Reporting, Busy
  <2>4. Consistent(pc[p], job[p], at[p], made[p], code[p], hit[p])'
    BY <1>2, <2>1 DEF Consistent, Reporting
  <2>5. Measured(pc[p], job[p], at[p], i[p], cpu[p], start[p], total[p])'
    <3>1. Cost[Program[at[p]].op] * 0 = 0 /\ cpu[p] \in Nat
      BY <1>1, PhaseFacts, CostFacts, Product DEF TypeLocals
    <3>2. job[p].iterations > 0
      BY <1>2, <2>1 DEF Begun, Busy
    <3>3. Program[at[p]].timed => cpu[p] = start'[p] + Cost[Program[at[p]].op] * i'[p]
      BY <2>2, <3>1
    <3> QED
      BY <1>2, <2>1, <2>2, <3>2, <3>3 DEF Measured, Reporting
  <2> QED
    BY <2>3, <2>4, <2>5
<1>7. ASSUME NEW p \in Procs, LibraryCall(p) PROVE Inv(p)'
  <2> DEFINE op == Program[at[p]].op
             timed == Program[at[p]].timed
  <2>1. UNCHANGED <<job, at, start, total, hit>> /\ pc[p] = "call"
    BY <1>7 DEF LibraryCall, bounds
  <2>2. at[p] \in 1 .. Len(Program) /\ op \in Operations /\ Cost[op] \in Nat
    BY <1>1, PhaseFacts, CostFacts DEF TypeLocals
  <2>3. CASE Refused(p, op)
    <3>1. pc'[p] = "done" /\ code'[p] = 1 /\ made' = made
      BY <1>1, <1>7, <2>3 DEF LibraryCall, Fail, Goto, TypePlace
    <3>2. job[p].backend = "PLACEHOLDER"
      <4>1. at[p] = 5 => op = "decaps" /\ made[p].ct = made[p].key
        BY <1>2, ProgramFacts DEF Consistent
      <4>2. at[p] = 10 => op = "verify" /\ made[p].sig = made[p].sigkey
        BY <1>2, ProgramFacts DEF Consistent
      <4>3. op = "decaps" => at[p] = 5
        BY <1>1, <2>2, ProgramFacts
      <4>4. op = "verify" => at[p] = 10
        BY <1>1, <2>2, ProgramFacts
      <4> HIDE DEF op
      <4> QED
        BY <2>3, <4>1, <4>2, <4>3, <4>4 DEF Refused
    <3> QED
      BY <1>2, <2>1, <3>1, <3>2 DEF Begun, Measured, Consistent, Resting, Reporting, Busy
  <2>4. CASE ~ Refused(p, op)
    <3>1. /\ made'[p] = Makes(op, made[p]) /\ UNCHANGED code
          /\ i'[p] = IF timed THEN i[p] + 1 ELSE i[p]
          /\ cpu'[p] = cpu[p] + Cost[op]
          /\ pc'[p] = IF timed /\ i[p] + 1 < job[p].iterations THEN "call" ELSE "next"
      BY <1>1, <1>7, <2>4 DEF LibraryCall, Goto, TypePlace, TypeLocals
    <3>2. Begun(pc[p], job[p], at[p], code[p])'
      BY <1>2, <2>1, <3>1 DEF Begun, Resting, Reporting, Busy
    <3>3. Measured(pc[p], job[p], at[p], i[p], cpu[p], start[p], total[p])'
      <4>1. /\ i[p] \in Nat /\ job[p].iterations \in Nat /\ start[p] \in Nat
            /\ Cost[op] * i[p] \in Nat /\ Cost[op] * (i[p] + 1) = Cost[op] * i[p] + Cost[op]
        BY <1>1, <2>2, JobFacts, Product DEF TypePlace, TypeLocals
      <4>2. timed => cpu[p] = start[p] + Cost[op] * i[p] /\ i[p] < job[p].iterations
        BY <1>2, <2>1 DEF Measured
      <4> DEFINE before == \A k \in 1 .. Len(Program) :
                             Program[k].timed /\ k < at[p] =>
                                total[p][Program[k].op] = Cost[Program[k].op] * job[p].iterations
      <4>3. before
        BY <1>2, <2>1 DEF Measured
      <4>4. timed => cpu'[p] = start[p] + Cost[op] * i'[p]
        <5> SUFFICES ASSUME timed PROVE cpu'[p] = start[p] + Cost[op] * i'[p]
          OBVIOUS
        <5>1. i'[p] = i[p] + 1 /\ cpu'[p] = cpu[p] + Cost[op] /\ cpu[p] = start[p] + Cost[op] * i[p]
          BY <3>1, <4>2
        <5>2. Cost[op] * i'[p] = Cost[op] * i[p] + Cost[op] /\ Cost[op] \in Nat
          BY <2>2, <4>1, <5>1
        <5> HIDE DEF op
        <5> QED
          BY <4>1, <5>1, <5>2
      <4>5. timed => (pc'[p] = "call" => i'[p] < job[p].iterations)
                     /\ (pc'[p] = "next" => i'[p] = job[p].iterations)
        BY <3>1, <4>1, <4>2
      <4>6. pc'[p] \notin Reporting
        BY <3>1 DEF Reporting
      <4>7. ASSUME NEW k \in 1 .. Len(Program), Program[k].timed, k < at[p] \/ pc'[p] \in Reporting
            PROVE  total[p][Program[k].op] = Cost[Program[k].op] * job[p].iterations
        BY <4>3, <4>6, <4>7
      <4> HIDE DEF before
      <4> QED
        BY <2>1, <4>4, <4>5, <4>7 DEF Measured
    <3>4. Consistent(pc[p], job[p], at[p], made[p], code[p], hit[p])'
      <4>1. made[p] \in [{"key", "ct", "sigkey", "sig"} -> Nat] /\ pc'[p] \in {"call", "next"}
        BY <1>1, <3>1 DEF TypeLocals
      <4>2. at[p] = 1 => op = "keypair"
        BY ProgramFacts
      <4>3. /\ at[p] = 4 => op = "encaps" /\ ~ timed
            /\ at[p] = 9 => op = "sign" /\ ~ timed
        BY ProgramFacts
      <4>4. /\ at[p] > 4 => op \in {"decaps", "sig_keypair", "sign", "verify"}
            /\ at[p] > 9 => op = "verify"
        <5>1. at[p] \in {1, 2, 3, 4, 5, 6, 7, 8, 9, 10}
          BY <1>1, <2>2
        <5> QED
          BY <5>1, ProgramFacts
      <4> HIDE DEF op, timed
      <4>5. /\ op = "encaps" => made'[p].ct = made'[p].key
            /\ op = "sign" => made'[p].sig = made'[p].sigkey
        BY <3>1, <4>1 DEF Makes
      <4>6. op \in {"decaps", "sig_keypair", "sign", "verify"} =>
              made'[p].ct = made[p].ct /\ made'[p].key = made[p].key
        BY <3>1, <4>1 DEF Makes
      <4>7. op = "verify" => made'[p] = made[p]
        BY <3>1 DEF Makes
      <4>8. at[p] > 4 \/ at[p] = 4 => made'[p].ct = made'[p].key
        BY <1>2, <4>3, <4>4, <4>5, <4>6 DEF Consistent
      <4>9. at[p] > 9 \/ at[p] = 9 => made'[p].sig = made'[p].sigkey
        BY <1>2, <4>3, <4>4, <4>5, <4>7 DEF Consistent
      <4>10. job[p].backend # "PLACEHOLDER"
        <5>1. CASE at[p] = 1
          BY <2>4, <4>2, <5>1 DEF Refused
        <5>2. CASE at[p] > 1
          BY <1>2, <5>2 DEF Consistent
        <5> QED
          BY <1>1, <2>2, <5>1, <5>2
      <4> QED
        BY <2>1, <4>1, <4>8, <4>9, <4>10 DEF Consistent
    <3> QED
      BY <3>2, <3>3, <3>4
  <2> QED
    BY <2>3, <2>4
<1>8. ASSUME NEW p \in Procs, NextPhase(p) PROVE Inv(p)'
  <2> DEFINE op == Program[at[p]].op
             last == Cost[op] * job[p].iterations
  <2>1. UNCHANGED <<job, i, cpu, start, made, code, hit>> /\ pc[p] = "next"
    BY <1>8 DEF NextPhase, bounds
  <2>2. at[p] \in 1 .. 10 /\ op \in Operations /\ Cost[op] \in Nat /\ job[p].iterations \in Nat
    BY <1>1, PhaseFacts, CostFacts, JobFacts DEF TypeLocals, TypePlace
  <2>3. IF at[p] < 10 THEN pc'[p] = "phase" /\ at'[p] = at[p] + 1
                      ELSE pc'[p] = "report" /\ at'[p] = at[p]
    BY <1>1, <1>8 DEF NextPhase, Goto, TypePlace, TypeLocals
  <2>4. Begun(pc[p], job[p], at[p], code[p])'
    BY <1>1, <1>2, <2>1, <2>2, <2>3 DEF Begun, Resting, Reporting, Busy
  <2>5. Consistent(pc[p], job[p], at[p], made[p], code[p], hit[p])'
    <3>1. /\ at'[p] > 4 => at[p] > 4 \/ at[p] = 4
          /\ at'[p] > 9 => at[p] > 9 \/ at[p] = 9
          /\ pc'[p] \notin {"next", "done", "exited"}
      BY <2>2, <2>3
    <3>2. /\ at[p] > 4 \/ at[p] = 4 => made[p].ct = made[p].key
          /\ at[p] > 9 \/ at[p] = 9 => made[p].sig = made[p].sigkey
          /\ job[p].backend # "PLACEHOLDER"
      BY <1>2, <2>1 DEF Consistent
    <3> QED
      BY <2>1, <3>1, <3>2 DEF Consistent
  <2>6. Measured(pc[p], job[p], at[p], i[p], cpu[p], start[p], total[p])'
    <3>1. ASSUME NEW k \in 1 .. Len(Program), Program[k].timed, k < at[p]
          PROVE  total[p][Program[k].op] = Cost[Program[k].op] * job[p].iterations
      BY <1>2, <2>1, <3>1 DEF Measured
    <3>2. Program[at[p]].timed => cpu[p] - start[p] = last
      <4>1. ASSUME Program[at[p]].timed PROVE cpu[p] = start[p] + last
        BY <1>2, <2>1, <4>1 DEF Measured
      <4>2. last \in Nat /\ start[p] \in Nat
        BY <1>1, <2>2, Product DEF TypeLocals
      <4> HIDE DEF last
      <4> QED
        BY <4>1, <4>2
    <3>3. pc'[p] \notin {"call", "next"}
      BY <2>3
    <3>4. ASSUME NEW k \in 1 .. Len(Program), k < at'[p] \/ pc'[p] \in Reporting
          PROVE  k < at[p] \/ k = at[p]
      <4>1. k \in 1 .. 10
        BY <1>1
      <4>2. CASE at[p] < 10
        <5>1. k < at[p] + 1
          BY <2>3, <3>4, <4>2 DEF Reporting
        <5> QED
          BY <2>2, <4>1, <5>1
      <4>3. CASE ~ (at[p] < 10)
        BY <2>2, <4>1, <4>3
      <4> QED
        BY <4>2, <4>3
    <3>5. CASE Program[at[p]].timed
      <4>1. total' = [total EXCEPT ![p][op] = last]
        BY <1>8, <3>2, <3>5 DEF NextPhase
      <4> HIDE DEF op
      <4>2. total'[p] = [total[p] EXCEPT ![op] = last]
        BY <1>1, <4>1 DEF TypeLocals
      <4>3. DOMAIN total[p] = Operations
        BY <1>1 DEF TypeLocals
      <4>4. ASSUME NEW k \in 1 .. Len(Program), Program[k].timed, k < at[p] \/ k = at[p]
            PROVE  total'[p][Program[k].op] = Cost[Program[k].op] * job'[p].iterations
        <5>1. Program[k].op \in Operations
          BY PhaseFacts
        <5>2. CASE Program[k].op = op
          BY <2>1, <2>2, <4>2, <4>3, <5>1, <5>2
        <5>3. CASE Program[k].op # op
          <6>1. k # at[p]
            BY <5>3 DEF op
          <6> QED
            BY <2>1, <3>1, <4>2, <4>3, <4>4, <5>1, <5>3, <6>1
        <5> QED
          BY <5>2, <5>3
      <4> QED
        BY <3>3, <3>4, <4>4 DEF Measured
    <3>6. CASE ~ Program[at[p]].timed
      <4>1. total' = total
        BY <1>8, <3>6 DEF NextPhase
      <4>2. ASSUME NEW k \in 1 .. Len(Program), Program[k].timed, k < at[p] \/ k = at[p]
            PROVE  total'[p][Program[k].op] = Cost[Program[k].op] * job'[p].iterations
        BY <2>1, <3>1, <3>6, <4>1, <4>2
      <4> QED
        BY <3>3, <3>4, <4>2 DEF Measured
    <3> QED
      BY <3>5, <3>6
  <2> QED
    BY <2>4, <2>5, <2>6
<1>9. ASSUME NEW p \in Procs, Finish(p) PROVE Inv(p)'
  <2>1. pc[p] = "done" /\ pc'[p] = "exited" /\ UNCHANGED <<job, code, hit>> /\ at'[p] = 1
    BY <1>1, <1>9 DEF Finish, Goto, ResetLocals, bounds, TypePlace, TypeLocals
  <2>2. pc'[p] \in Resting \cup {"alloc"}
    BY <2>1 DEF Resting
  <2>3. /\ ~ (pc'[p] = "alloc")
        /\ job[p].iterations > 0 /\ ~ hit[p] => (code[p] = 0 <=> job[p].backend # "PLACEHOLDER")
    BY <1>2, <2>1 DEF Consistent
  <2> HIDE DEF Inv
  <2> QED
    BY <2>1, <2>2, <2>3, RestingInv DEF Inv
<1>10. ASSUME NEW p \in Procs, Kill(p) PROVE Inv(p)'
  <2>1. pc'[p] = "killed" /\ at'[p] = 1
    BY <1>1, <1>10 DEF Kill, Goto, ResetLocals, TypePlace, TypeLocals
  <2>2. pc'[p] \in Resting \cup {"alloc"} /\ pc'[p] # "alloc" /\ pc'[p] # "exited"
    BY <2>1 DEF Resting
  <2> HIDE DEF Inv
  <2> QED
    BY <2>1, <2>2, RestingInv DEF Inv
<1>11. ASSUME NEW p \in Procs, (\E j \in Jobs : Start(p, j)) \/ Step(p) \/ Kill(p),
              NEW q \in Procs, q # p
       PROVE  Inv(q)'
  BY <1>2, <1>11, OthersUnchanged
<1>12. ASSUME NEW p \in Procs, (\E j \in Jobs : Start(p, j)) \/ Step(p) \/ Kill(p)
       PROVE  Inv(p)'
  BY <1>4, <1>5, <1>6, <1>7, <1>8, <1>9, <1>10, <1>12 DEF Step
<1>13. CASE Next
  <2>1. PICK p \in Procs : (\E j \in Jobs : Start(p, j)) \/ Step(p) \/ Kill(p)
    BY <1>13 DEF Next
  <2>2. \A q \in Procs : Inv(q)'
    BY <1>11, <1>12, <2>1
  <2> QED
    BY <2>2 DEF RunInv
<1> QED
  BY <1>3, <1>13

-----------------------------------------------------------------------------
(* The CSV file. *)

(* The lines that are a header, or begin like one.                         *)
Headers(lines) == {k \in 1 .. Len(lines) : lines[k] \in {"HEADER", "header"}}

(* The processes whose report will begin with a header.                    *)
Heading == {p \in Procs : pc[p] \in {"open", "close"} /\ header[p]}

(* As long as the file is empty, whoever is to append to it has found it   *)
(* so.                                                                     *)
FirstInv ==
    /\ HeaderFirst
    /\ csv = <<>> => \A p \in Procs : pc[p] \in {"open", "close"} /\ job[p].out = "csv" => header[p]

(* While the file is empty only processes are counted; after that, only a  *)
(* failed probe adds to the headers written and to come.                   *)
HeadersInv ==
    Cardinality(Headers(csv)) + Cardinality(Heading) <= Cardinality(Procs) + faults

LEMMA AppendedLines ==
  ASSUME NEW s \in Seq(Pieces), NEW p, NEW t \in {Report(p)} \cup Torn(p)
  PROVE  /\ Len(s \o t) = Len(s) + Len(t)
         /\ \A k \in 1 .. Len(s) : (s \o t)[k] = s[k]
         /\ \A k \in 1 .. Len(t) : (s \o t)[Len(s) + k] = t[k]
         /\ s = <<>> => s \o t = t
<1>1. t \in Seq(Pieces)
  BY ReportFacts
<1> QED
  BY <1>1

LEMMA HeadersFinite ==
  ASSUME NEW s \in Seq(Pieces)
  PROVE  IsFiniteSet(Headers(s)) /\ Cardinality(Headers(s)) \in Nat
<1>1. IsFiniteSet(1 .. Len(s))
  BY FS_Interval
<1>2. Headers(s) \subseteq 1 .. Len(s)
  BY DEF Headers
<1> QED
  BY <1>1, <1>2, FS_Subset, FS_CardinalityType

(* A report adds at most one header, and none where none was decided on.   *)
LEMMA AppendedHeaders ==
  ASSUME NEW s \in Seq(Pieces), NEW p, header[p] \in BOOLEAN, NEW t \in {Report(p)} \cup Torn(p)
  PROVE  Cardinality(Headers(s \o t)) <= Cardinality(Headers(s)) + (IF header[p] THEN 1 ELSE 0)
<1>1. /\ t \in Seq(Pieces) /\ Len(t) \in 0 .. 2
      /\ \A k \in 1 .. Len(t) : k > 1 => t[k] \notin {"HEADER", "header"}
      /\ Len(t) > 0 => (t[1] \in {"HEADER", "header"} <=> header[p])
  BY ReportFacts
<1>2. /\ Len(s) \in Nat /\ Len(s \o t) = Len(s) + Len(t)
      /\ \A k \in 1 .. Len(s) : (s \o t)[k] = s[k]
      /\ \A k \in 1 .. Len(t) : (s \o t)[Len(s) + k] = t[k]
  BY AppendedLines
<1>3. ASSUME NEW k \in Headers(s \o t), k \notin Headers(s)
      PROVE  k = Len(s) + 1 /\ header[p]
  <2>1. k \in 1 .. Len(s) + Len(t) /\ (s \o t)[k] \in {"HEADER", "header"}
    BY <1>2 DEF Headers
  <2>2. k > Len(s)
    BY <1>2, <1>3, <2>1 DEF Headers
  <2>3. k - Len(s) \in 1 .. Len(t) /\ Len(s) + (k - Len(s)) = k
    BY <1>2, <1>1, <2>1, <2>2
  <2>4. t[k - Len(s)] \in {"HEADER", "header"}
    BY <1>2, <2>1, <2>3
  <2>5. k - Len(s) = 1
    BY <1>1, <2>3, <2>4
  <2>6. header[p]
    BY <1>1, <2>3, <2>4, <2>5
  <2> QED
    BY <1>2, <2>1, <2>5, <2>6
<1>4. IsFiniteSet(Headers(s)) /\ Cardinality(Headers(s)) \in Nat
  BY HeadersFinite
<1>5. CASE header[p]
  <2> DEFINE more == Headers(s) \cup {Len(s) + 1}
  <2>1. IsFiniteSet(more) /\ Cardinality(more) <= Cardinality(Headers(s)) + 1
    <3>1. /\ IsFiniteSet(more)
          /\ Cardinality(more) = IF Len(s) + 1 \in Headers(s) THEN Cardinality(Headers(s))
                                 ELSE Cardinality(Headers(s)) + 1
      BY <1>4, FS_AddElement
    <3> QED
      BY <1>4, <3>1
  <2>2. Headers(s \o t) \subseteq more
    BY <1>3
  <2> HIDE DEF more
  <2>3. Cardinality(more) \in Nat /\ Cardinality(Headers(s \o t)) <= Cardinality(more)
    BY <2>1, <2>2, FS_Subset, FS_CardinalityType
  <2>4. s \o t \in Seq(Pieces)
    BY <1>1
  <2>5. Cardinality(Headers(s \o t)) \in Nat
    BY <2>4, HeadersFinite
  <2> QED
    BY <1>4, <1>5, <2>1, <2>3, <2>5
<1>6. CASE ~ header[p]
  <2>1. Headers(s \o t) \subseteq Headers(s)
    BY <1>3, <1>6
  <2>2. Cardinality(Headers(s \o t)) <= Cardinality(Headers(s))
    BY <1>4, <2>1, FS_Subset
  <2>3. s \o t \in Seq(Pieces)
    BY <1>1
  <2>4. Cardinality(Headers(s \o t)) \in Nat
    BY <2>3, HeadersFinite
  <2> QED
    BY <1>4, <1>6, <2>2, <2>4
<1> QED
  BY <1>5, <1>6

(* What a step does to the CSV file and to who is about to append to it.   *)
LEMMA HeadingStep ==
  ASSUME TypeOK, NEW p \in Procs, (\E j \in Jobs : Start(p, j)) \/ Step(p) \/ Kill(p), ~ Close(p)
  PROVE  /\ csv' = csv
         /\ faults' \in {faults, faults + 1}
         /\ pc'[p] \in {"open", "close"} =>
               \/ /\ pc[p] = "open" /\ header'[p] = header[p]
                  /\ job'[p] = job[p]
               \/ /\ job[p].out = "csv" /\ job'[p] = job[p] /\ header'[p]
                  /\ csv = <<>> \/ faults' = faults + 1
               \/ /\ csv # <<>> \/ job'[p].out # "csv"
                  /\ ~ header'[p]
<1>1. p \in DOMAIN pc /\ p \in DOMAIN header /\ p \in DOMAIN job
  BY DEF TypeOK
<1>2. \A where : Goto(p, where) => pc'[p] = where
  BY <1>1 DEF Goto
<1>3. Fail(p) => pc'[p] = "done"
  BY <1>2 DEF Fail
<1>4. /\ Fault(p) => faults' = faults + 1
      /\ UNCHANGED bounds => faults' = faults
  BY DEF Fault, bounds
<1>5. CASE \E j \in Jobs : Start(p, j)
  BY <1>2, <1>5 DEF Start, files
<1>6. CASE Alloc(p) \/ Phase(p) \/ LibraryCall(p) \/ NextPhase(p) \/ Finish(p) \/ Kill(p)
  <2>1. CASE Alloc(p) \/ Finish(p) \/ Kill(p)
    BY <1>2, <1>3, <1>4, <2>1 DEF Alloc, Finish, Kill, files
  <2>2. CASE Phase(p)
    BY <1>2, <1>4, <2>2 DEF Phase, files
  <2>3. CASE LibraryCall(p)
    <3>1. pc'[p] \in {"done", "call", "next"}
      BY <1>2, <1>3, <2>3 DEF LibraryCall
    <3> QED
      BY <1>4, <2>3, <3>1 DEF LibraryCall, files
  <2>4. CASE NextPhase(p)
    <3>1. pc'[p] \in {"phase", "report"}
      BY <1>2, <2>4 DEF NextPhase
    <3> QED
      BY <1>4, <2>4, <3>1 DEF NextPhase, files
  <2> QED
    BY <1>6, <2>1, <2>2, <2>3, <2>4
<1>7. CASE Open(p)
  BY <1>1, <1>2, <1>3, <1>4, <1>7 DEF Open
<1>8. CASE Probe(p)
  <2>1. csv' = csv /\ faults' \in {faults, faults + 1} /\ job' = job
    BY <1>4, <1>8 DEF Probe, files
  <2>2. CASE pc'[p] = "done"
    BY <2>1, <2>2
  <2>3. CASE /\ header' = [header EXCEPT ![p] = (job[p].out = "csv" /\ csv = <<>>)]
             /\ UNCHANGED bounds
    <3>1. header'[p] = (job[p].out = "csv" /\ csv = <<>>)
      BY <1>1, <2>3
    <3> QED
      BY <2>1, <3>1
  <2>4. CASE job[p].out = "csv" /\ header' = [header EXCEPT ![p] = TRUE] /\ Fault(p)
    BY <1>1, <1>4, <2>1, <2>4
  <2> QED
    BY <1>3, <1>8, <2>2, <2>3, <2>4 DEF Probe
<1> QED
  BY <1>5, <1>6, <1>7, <1>8 DEF Step

LEMMA FirstStep == TypeOK /\ FirstInv /\ [Next]_vars => FirstInv'
<1> SUFFICES ASSUME TypeOK, FirstInv, [Next]_vars PROVE FirstInv'
  OBVIOUS
<1>1. CASE UNCHANGED vars
  BY <1>1 DEF vars, FirstInv, HeaderFirst
<1>2. ASSUME NEW p \in Procs, (\E j \in Jobs : Start(p, j)) \/ Step(p) \/ Kill(p), ~ Close(p)
      PROVE  FirstInv'
  <2>1. \A q \in Procs : q # p => pc'[q] = pc[q] /\ header'[q] = header[q] /\ job'[q] = job[q]
    BY <1>2, OthersUnchanged
  <2>2. csv' = csv
    BY <1>2, HeadingStep
  <2>3. csv = <<>> /\ pc'[p] \in {"open", "close"} /\ job'[p].out = "csv" => header'[p]
    BY <1>2, HeadingStep DEF FirstInv
  <2> QED
    BY <2>1, <2>2, <2>3 DEF FirstInv, HeaderFirst
<1>3. ASSUME NEW p \in Procs, Close(p) PROVE FirstInv'
  <2>1. pc[p] = "close" /\ pc'[p] = "done" /\ UNCHANGED <<job, header>>
    BY <1>3 DEF Close, Goto, TypeOK
  <2>2. \A q \in Procs : q # p => pc'[q] = pc[q]
    BY <1>3, OthersUnchanged DEF Step
  <2>3. csv \in Seq(Pieces)
    BY DEF TypeOK, Pieces
  <2>4. CASE csv' = csv
    BY <2>1, <2>2, <2>4 DEF FirstInv, HeaderFirst
  <2>5. CASE job[p].out = "csv"
    <3>1. PICK t \in {Report(p)} \cup Torn(p) : csv' = csv \o t
      BY <1>3, <2>5 DEF Close
    <3>2. t \in Seq(Pieces) /\ (Len(t) > 0 => (t[1] \in {"HEADER", "header"} <=> header[p]))
      BY ReportFacts
    <3>3. CASE csv = <<>>
      <4>1. csv' = t /\ header[p]
        BY <2>1, <2>3, <2>5, <3>1, <3>3, AppendedLines DEF FirstInv
      <4>2. csv' # <<>> => csv'[1] \in {"HEADER", "header"}
        BY <3>2, <4>1
      <4> QED
        BY <2>1, <2>2, <3>3, <4>2 DEF FirstInv, HeaderFirst
    <3>4. CASE csv # <<>>
      <4>1. 1 \in 1 .. Len(csv)
        BY <2>3, <3>4
      <4>2. csv'[1] = csv[1] /\ csv' # <<>>
        BY <2>3, <3>1, <3>2, <4>1
      <4> QED
        BY <3>4, <4>2 DEF FirstInv, HeaderFirst
    <3> QED
      BY <3>3, <3>4
  <2> QED
    BY <1>3, <2>4, <2>5 DEF Close
<1> QED
  BY <1>1, <1>2, <1>3 DEF Next

LEMMA HeadingFinite ==
  ASSUME IsFiniteSet(Procs), NEW S \in SUBSET Procs
  PROVE  IsFiniteSet(S) /\ Cardinality(S) \in Nat /\ Cardinality(S) <= Cardinality(Procs)
BY FS_Subset, FS_CardinalityType

LEMMA HeadersStep ==
  ASSUME IsFiniteSet(Procs)
  PROVE  TypeOK /\ HeadersInv /\ [Next]_vars => HeadersInv'
<1> SUFFICES ASSUME TypeOK, HeadersInv, [Next]_vars PROVE HeadersInv'
  OBVIOUS
<1>1. /\ Heading \in SUBSET Procs /\ Heading' \in SUBSET Procs
      /\ csv \in Seq(Pieces) /\ faults \in Nat /\ header \in [Procs -> BOOLEAN]
  BY BenchmarkAssumption DEF Heading, TypeOK, Pieces
<1>2. /\ IsFiniteSet(Heading) /\ Cardinality(Heading) \in Nat
      /\ IsFiniteSet(Heading') /\ Cardinality(Heading') \in Nat
      /\ Cardinality(Heading') <= Cardinality(Procs)
      /\ Cardinality(Procs) \in Nat
  BY <1>1, HeadingFinite, FS_CardinalityType
<1>3. Cardinality(Headers(csv)) \in Nat
  BY <1>1, HeadersFinite
<1>4. CASE UNCHANGED vars
  BY <1>4 DEF vars, HeadersInv, Headers, Heading
<1>5. ASSUME NEW p \in Procs, (\E j \in Jobs : Start(p, j)) \/ Step(p) \/ Kill(p), ~ Close(p)
      PROVE  HeadersInv'
  <2>1. \A q \in Procs : q # p => pc'[q] = pc[q] /\ header'[q] = header[q]
    BY <1>5, OthersUnchanged
  <2>2. csv' = csv /\ faults' \in {faults, faults + 1} /\ Headers(csv') = Headers(csv)
    BY <1>5, HeadingStep
  <2>3. CASE p \notin Heading' \/ p \in Heading
    <3>1. Heading' \subseteq Heading
      BY <2>1, <2>3 DEF Heading
    <3>2. Cardinality(Heading') <= Cardinality(Heading)
      BY <1>2, <3>1, FS_Subset
    <3> QED
      BY <1>1, <1>2, <1>3, <2>2, <3>2 DEF HeadersInv
  <2>4. CASE p \in Heading' /\ p \notin Heading
    <3>1. csv = <<>> \/ faults' = faults + 1
      BY <1>5, <2>4, HeadingStep DEF Heading
    <3>2. CASE csv = <<>>
      <4>1. Headers(csv) = {}
        BY <3>2 DEF Headers
      <4>2. Cardinality(Headers(csv')) = 0
        BY <2>2, <4>1, FS_EmptySet
      <4> QED
        BY <1>1, <1>2, <2>2, <4>2 DEF HeadersInv
    <3>3. CASE faults' = faults + 1
      <4>1. Heading' \subseteq Heading \cup {p}
        BY <2>1 DEF Heading
      <4>2. /\ IsFiniteSet(Heading \cup {p})
            /\ Cardinality(Heading \cup {p}) = IF p \in Heading THEN Cardinality(Heading)
                                              ELSE Cardinality(Heading) + 1
        BY <1>2, FS_AddElement
      <4>3. Cardinality(Heading') <= Cardinality(Heading \cup {p})
        BY <4>1, <4>2, FS_Subset
      <4>4. Cardinality(Heading') <= Cardinality(Heading) + 1
        BY <1>2, <4>2, <4>3
      <4> QED
        BY <1>1, <1>2, <1>3, <2>2, <3>3, <4>4 DEF HeadersInv
    <3> QED
      BY <3>1, <3>2, <3>3
  <2> QED
    BY <2>3, <2>4
<1>6. ASSUME NEW p \in Procs, Close(p) PROVE HeadersInv'
  <2>1. pc[p] = "close" /\ pc'[p] = "done" /\ UNCHANGED header
    BY <1>6 DEF Close, Goto, TypeOK
  <2>2. \A q \in Procs : q # p => pc'[q] = pc[q]
    BY <1>6, OthersUnchanged DEF Step
  <2>3. faults' \in {faults, faults + 1}
    BY <1>6 DEF Close, Fault, bounds
  <2>4. Heading' \subseteq Heading \ {p}
    BY <2>1, <2>2 DEF Heading
  <2>5. /\ IsFiniteSet(Heading \ {p})
        /\ Cardinality(Heading \ {p}) = IF p \in Heading THEN Cardinality(Heading) - 1
                                         ELSE Cardinality(Heading)
    BY <1>2, FS_RemoveElement
  <2>6. Cardinality(Heading') <= Cardinality(Heading \ {p})
    BY <2>4, <2>5, FS_Subset
  <2>7. p \in Heading <=> header[p]
    BY <2>1 DEF Heading
  <2>8. Cardinality(Heading') + (IF header[p] THEN 1 ELSE 0) <= Cardinality(Heading)
    BY <1>2, <2>5, <2>6, <2>7
  <2>9. CASE csv' = csv
    <3>1. Cardinality(Headers(csv')) = Cardinality(Headers(csv))
      BY <2>9
    <3> QED
      BY <1>1, <1>2, <1>3, <2>3, <2>8, <3>1 DEF HeadersInv
  <2>10. CASE job[p].out = "csv"
    <3>1. PICK t \in {Report(p)} \cup Torn(p) : csv' = csv \o t
      BY <1>6, <2>10 DEF Close
    <3>2. Cardinality(Headers(csv \o t)) <= Cardinality(Headers(csv)) + (IF header[p] THEN 1 ELSE 0)
      BY <1>1, AppendedHeaders
    <3>3. csv \o t \in Seq(Pieces)
      <4>1. t \in Seq(Pieces)
        BY ReportFacts
      <4> QED
        BY <1>1, <4>1
    <3>4. Cardinality(Headers(csv \o t)) \in Nat
      BY <3>3, HeadersFinite
    <3>5. Headers(csv') = Headers(csv \o t)
      BY <3>1
    <3> QED
      BY <1>1, <1>2, <1>3, <2>3, <2>8, <3>2, <3>4, <3>5 DEF HeadersInv
  <2> QED
    BY <1>6, <2>9, <2>10 DEF Close
<1> QED
  BY <1>4, <1>5, <1>6 DEF Next

-----------------------------------------------------------------------------
(* The theorems. *)

LEMMA BenchmarkRuns == Spec => [](TypeOK /\ RunInv)
<1>1. Init => TypeOK /\ RunInv
  BY InitTypes, InitRun
<1>2. TypeOK /\ RunInv /\ [Next]_vars => (TypeOK /\ RunInv)'
  BY NextTypes, NextRun
<1> QED
  BY <1>1, <1>2, PTL DEF Spec

(* Every variable of the benchmark has its type.                           *)
THEOREM BenchmarkTyping == Spec => []TypeOK
BY BenchmarkRuns, PTL

(* What is reported as an average is of the loop's own calls, as many as   *)
(* asked for: write_benchmark_output is reached with exact totals only.    *)
THEOREM BenchmarkAverages == Spec => []AveragesExact
<1>1. TypeOK /\ RunInv => AveragesExact
  <2> SUFFICES ASSUME TypeOK, RunInv, NEW p \in Procs, pc[p] \in {"report", "open", "close"},
                      NEW op \in Operations
               PROVE  total[p][op] = Cost[op] * job[p].iterations
    BY DEF AveragesExact
  <2>1. PICK k \in 1 .. Len(Program) : Program[k].timed /\ Program[k].op = op
    BY LoopFacts
  <2> QED
    BY <2>1 DEF RunInv, Measured, Reporting
<1> QED
  BY <1>1, BenchmarkRuns, PTL

(* An undisturbed benchmark of a connected backend exits 0, and one of a   *)
(* backend that is not connected never does.                               *)
THEOREM BenchmarkSucceeds == Spec => []SucceedsWhenConnected
<1>1. RunInv => SucceedsWhenConnected
  BY DEF RunInv, Consistent, SucceedsWhenConnected
<1> QED
  BY <1>1, BenchmarkRuns, PTL

(* No benchmark returns with a secret in memory it frees.                  *)
THEOREM BenchmarkSecrets == Spec => []BenchmarkWiped
<1>1. Init => BenchmarkWiped
  BY DEF Init, BenchmarkWiped
<1>2. TypeOK /\ BenchmarkWiped /\ [Next]_vars => BenchmarkWiped'
  <2> SUFFICES ASSUME TypeOK, BenchmarkWiped, [Next]_vars PROVE BenchmarkWiped'
    OBVIOUS
  <2>1. CASE UNCHANGED vars
    BY <2>1 DEF vars, BenchmarkWiped
  <2>2. ASSUME NEW p \in Procs, (\E j \in Jobs : Start(p, j)) \/ Step(p) \/ Kill(p),
               NEW q \in Procs, pc'[q] = "exited"
        PROVE  secret'[q] = {}
    <3>1. CASE q = p
      <4>1. p \in DOMAIN pc /\ p \in DOMAIN secret
            /\ secret[p] \subseteq {"sec", "shared_secret", "sig_sec", "signature"}
        BY DEF TypeOK
      <4>2. \A where : Goto(p, where) => pc'[p] = where
        BY <4>1 DEF Goto
      <4>3. Fail(p) => pc'[p] = "done"
        BY <4>2 DEF Fail
      <4>4. ~ Kill(p) /\ (Step(p) => Finish(p))
        BY <2>2, <3>1, <4>2, <4>3
           DEF Kill, Step, Alloc, Phase, LibraryCall, NextPhase, Probe, Open, Close
      <4>5. CASE Finish(p)
        BY <3>1, <4>1, <4>5 DEF Finish
      <4>6. CASE \E j \in Jobs : Start(p, j)
        BY <3>1, <4>1, <4>6 DEF Start
      <4> QED
        BY <2>2, <4>4, <4>5, <4>6
    <3>2. CASE q # p
      <4>1. pc'[q] = pc[q] /\ secret'[q] = secret[q]
        BY <2>2, <3>2, OthersUnchanged
      <4> QED
        BY <2>2, <4>1 DEF BenchmarkWiped
    <3> QED
      BY <3>1, <3>2
  <2> QED
    BY <2>1, <2>2 DEF BenchmarkWiped, Next
<1> QED
  BY <1>1, <1>2, BenchmarkTyping, PTL DEF Spec

(* Whoever appends to the CSV file, its first line is a header, or torn    *)
(* from one.                                                               *)
THEOREM BenchmarkHeaderFirst == Spec => []HeaderFirst
<1>1. Init => FirstInv
  BY DEF Init, FirstInv, HeaderFirst
<1>2. FirstInv => HeaderFirst
  BY DEF FirstInv
<1> QED
  BY <1>1, <1>2, FirstStep, BenchmarkTyping, PTL DEF Spec

(* The header is repeated at most once per process and per fault.          *)
THEOREM BenchmarkHeadersBounded ==
  ASSUME IsFiniteSet(Procs)
  PROVE  Spec => []HeadersBounded
<1>1. Init => HeadersInv
  <2> SUFFICES ASSUME Init PROVE HeadersInv
    OBVIOUS
  <2>1. Headers(csv) = {} /\ Heading = {} /\ faults = 0
    BY DEF Init, Headers, Heading
  <2>2. Cardinality({}) = 0 /\ Cardinality(Procs) \in Nat
    BY FS_EmptySet, FS_CardinalityType
  <2> QED
    BY <2>1, <2>2 DEF HeadersInv
<1>2. TypeOK /\ HeadersInv => HeadersBounded
  <2> SUFFICES ASSUME TypeOK, HeadersInv PROVE HeadersBounded
    OBVIOUS
  <2>1. Quantify(1 .. Len(csv), LAMBDA k : csv[k] \in {"HEADER", "header"}) = Cardinality(Headers(csv))
    BY DEF Quantify, Headers
  <2>2. csv \in Seq(Pieces) /\ faults \in Nat /\ Heading \in SUBSET Procs
    BY BenchmarkAssumption DEF TypeOK, Pieces, Heading
  <2>3. Cardinality(Headers(csv)) \in Nat /\ Cardinality(Heading) \in Nat /\ Cardinality(Procs) \in Nat
    BY <2>2, HeadersFinite, HeadingFinite, FS_CardinalityType
  <2>4. Cardinality(Headers(csv)) <= Cardinality(Procs) + faults
    BY <2>2, <2>3 DEF HeadersInv
  <2> QED
    BY <2>1, <2>4 DEF HeadersBounded
<1> QED
  BY <1>1, <1>2, HeadersStep, BenchmarkTyping, PTL DEF Spec
=============================================================================
