------------------------------- MODULE Benchmark -------------------------------
(***************************************************************************)
(* The benchmark command of src/main.c: processes that time the six        *)
(* operations in loops and report to files they share.  A CSV report is    *)
(* appended to; its header is written by a run that finds no file or an    *)
(* empty one.  A text report replaces the file.                            *)
(*                                                                         *)
(* A key is the number of the call that made it; a call costs the process  *)
(* Cost[op] ticks of CPU time.  The report is smaller than a stdio buffer, *)
(* so its bytes reach the file when it is closed.  Neither the fprintf     *)
(* calls nor that fclose are checked.                                      *)
(***************************************************************************)
EXTENDS Naturals, Sequences, FiniteSetsExt

CONSTANTS
    Procs,          \* processes that may run at the same time
    Cost,           \* CPU ticks per call of each operation
    Iterations,     \* the values given for --iterations
    MaxRuns,        \* BOUND: how many benchmarks are started
    MaxFaults       \* BOUND: failing allocations and I/O calls, and kills

Operations == {"keypair", "encaps", "decaps", "sig_keypair", "sign", "verify"}

ASSUME BenchmarkAssumption ==
    /\ Cost \in [Operations -> Nat \ {0}]
    /\ Iterations \subseteq Nat
    /\ MaxRuns \in Nat
    /\ MaxFaults \in Nat

Timed(op) == [op |-> op, timed |-> TRUE]
Once(op)  == [op |-> op, timed |-> FALSE]

(* Mutant of Program: the key pair is made anew after the encapsulations. *)
ProgramRekeying ==
    << Timed("keypair"), Timed("encaps"), Once("encaps"), Once("keypair"), Timed("decaps"),
       Timed("sig_keypair"), Once("sig_keypair"), Timed("sign"), Once("sign"), Timed("verify") >>

(* The timed loops, and the untimed calls that set up the next one. *)
Program ==
    << Timed("keypair"), Once("keypair"), Timed("encaps"), Once("encaps"), Timed("decaps"),
       Timed("sig_keypair"), Once("sig_keypair"), Timed("sign"), Once("sign"), Timed("verify") >>

-----------------------------------------------------------------------------
VARIABLES
    pc,      \* where each process is
    job,     \* its arguments: backend, iterations, output format
    at,      \* the phase of Program it is in
    i,       \* the loop counter
    cpu,     \* clock(): CPU time of the process
    start,   \* the clock at the start of the timed loop
    total,   \* end - start of each loop; the average is total / iterations
    made,    \* number of the current key pairs, and whose the ct and sig are
    secret,  \* the buffers that hold a secret
    header,  \* write_header
    code,    \* the exit code
    csv,     \* the CSV file: the pieces written, in small letters the torn ones
    text,    \* the text file
    runs,    \* benchmarks started
    faults,  \* faults that have struck
    hit      \* history: did a fault strike this run?

vars == <<pc, job, at, i, cpu, start, total, made, secret, header, code, csv, text,
          runs, faults, hit>>
files    == <<csv, text>>
bounds   == <<runs, faults, hit>>
measures == <<at, i, cpu, start, total, made>>

Jobs == [backend : {"DUMMY", "MLKEM", "PLACEHOLDER"}, iterations : Iterations,
         out : {"none", "csv", "text"}]
NoJob  == [backend |-> "DUMMY", iterations |-> 0, out |-> "none"]
NoKeys == [key |-> 0, ct |-> 0, sigkey |-> 0, sig |-> 0]

Init ==
    /\ pc = [p \in Procs |-> "idle"]
    /\ job = [p \in Procs |-> NoJob]
    /\ at = [p \in Procs |-> 1]
    /\ i = [p \in Procs |-> 0]
    /\ cpu = [p \in Procs |-> 0]
    /\ start = [p \in Procs |-> 0]
    /\ total = [p \in Procs |-> [op \in Operations |-> 0]]
    /\ made = [p \in Procs |-> NoKeys]
    /\ secret = [p \in Procs |-> {}]
    /\ header = [p \in Procs |-> FALSE]
    /\ code = [p \in Procs |-> 0]
    /\ csv = <<>>
    /\ text = "absent"
    /\ runs = 0
    /\ faults = 0
    /\ hit = [p \in Procs |-> FALSE]

Goto(p, where) == pc' = [pc EXCEPT ![p] = where]

(* The locals of a run begin, and end, without a value that matters. *)
ResetLocals(p) ==
    /\ at' = [at EXCEPT ![p] = 1]
    /\ i' = [i EXCEPT ![p] = 0]
    /\ cpu' = [cpu EXCEPT ![p] = 0]
    /\ start' = [start EXCEPT ![p] = 0]
    /\ total' = [total EXCEPT ![p] = [op \in Operations |-> 0]]
    /\ made' = [made EXCEPT ![p] = NoKeys]
    /\ header' = [header EXCEPT ![p] = FALSE]

Fault(p) == /\ faults < MaxFaults
            /\ faults' = faults + 1
            /\ hit' = [hit EXCEPT ![p] = TRUE]
            /\ UNCHANGED runs

(* rc = 1; goto done *)
Fail(p) == /\ code' = [code EXCEPT ![p] = 1]
           /\ Goto(p, "done")

(* The command starts; iterations <= 0 is refused before anything else. *)
Start(p, j) ==
    /\ pc[p] \in {"idle", "exited", "killed"}
    /\ runs < MaxRuns
    /\ runs' = runs + 1
    /\ job' = [job EXCEPT ![p] = j]
    /\ secret' = [secret EXCEPT ![p] = {}]
    /\ hit' = [hit EXCEPT ![p] = FALSE]
    /\ IF j.iterations = 0
       THEN Goto(p, "exited") /\ code' = [code EXCEPT ![p] = 1]
       ELSE Goto(p, "alloc") /\ code' = [code EXCEPT ![p] = 0]
    /\ UNCHANGED <<measures, header, files, faults>>

Alloc(p) ==
    /\ pc[p] = "alloc"
    /\ \/ Goto(p, "phase") /\ UNCHANGED <<code, bounds>>
       \/ Fail(p) /\ Fault(p)
    /\ UNCHANGED <<job, measures, secret, header, files>>

(* The clock is read and the loop begins; a setup call is not timed. *)
Phase(p) ==
    /\ pc[p] = "phase"
    /\ IF Program[at[p]].timed
       THEN /\ start' = [start EXCEPT ![p] = cpu[p]]
            /\ i' = [i EXCEPT ![p] = 0]
       ELSE UNCHANGED <<start, i>>
    /\ Goto(p, "call")
    /\ UNCHANGED <<job, at, cpu, total, made, secret, header, code, files, bounds>>

(* What the operation makes, and the buffer it puts a secret in. *)
Makes(op, m) ==
    CASE op = "keypair"     -> [m EXCEPT !.key = @ + 1]
      [] op = "encaps"      -> [m EXCEPT !.ct = m.key]
      [] op = "sig_keypair" -> [m EXCEPT !.sigkey = @ + 1]
      [] op = "sign"        -> [m EXCEPT !.sig = m.sigkey]
      [] OTHER              -> m

Leaves(op) ==
    CASE op = "keypair" -> {"sec"}
      [] op \in {"encaps", "decaps"} -> {"shared_secret"}
      [] op = "sig_keypair" -> {"sig_sec"}
      [] op = "sign" -> {"signature"}
      [] OTHER -> {}

(* The library refuses: no KEM backend is connected, the dummy meets a     *)
(* ciphertext for another key, or the signature is of another key.         *)
Refused(p, op) ==
    \/ job[p].backend = "PLACEHOLDER" /\ op \in {"keypair", "encaps", "decaps"}
    \/ job[p].backend = "DUMMY" /\ op = "decaps" /\ made[p].ct # made[p].key
    \/ op = "verify" /\ made[p].sig # made[p].sigkey

(* One call, in the loop or for the setup; leaving a loop reads the clock. *)
LibraryCall(p) ==
    LET phase == Program[at[p]] op == phase.op IN
    /\ pc[p] = "call"
    /\ cpu' = [cpu EXCEPT ![p] = @ + Cost[op]]
    /\ IF Refused(p, op)
       THEN Fail(p) /\ UNCHANGED <<i, made, secret>>
       ELSE /\ made' = [made EXCEPT ![p] = Makes(op, @)]
            /\ secret' = [secret EXCEPT ![p] = @ \cup Leaves(op)]
            /\ i' = [i EXCEPT ![p] = IF phase.timed THEN @ + 1 ELSE @]
            /\ Goto(p, IF phase.timed /\ i[p] + 1 < job[p].iterations THEN "call" ELSE "next")
            /\ UNCHANGED code
    /\ UNCHANGED <<job, at, start, total, header, files, bounds>>

(* Mutant of NextPhase: a clock is read only after the setup call. *)
NextPhaseLate(p) ==
    /\ pc[p] = "next"
    /\ total' = [total EXCEPT ![p][Program[at[p]].op] = cpu[p] - start[p]]
    /\ IF at[p] < Len(Program)
       THEN Goto(p, "phase") /\ at' = [at EXCEPT ![p] = @ + 1]
       ELSE Goto(p, "report") /\ UNCHANGED at
    /\ UNCHANGED <<job, i, cpu, start, made, secret, header, code, files, bounds>>

(* Mutant of NextPhase: the end of the program is not noticed. *)
NextPhaseStuck(p) ==
    /\ pc[p] = "next"
    /\ at' = [at EXCEPT ![p] = @ + 1]
    /\ Goto(p, IF at[p] <= Len(Program) THEN "phase" ELSE "report")
    /\ UNCHANGED <<job, i, cpu, start, total, made, secret, header, code, files, bounds>>

NextPhase(p) ==
    /\ pc[p] = "next"
    /\ IF Program[at[p]].timed
       THEN total' = [total EXCEPT ![p][Program[at[p]].op] = cpu[p] - start[p]]
       ELSE UNCHANGED total
    /\ IF at[p] < Len(Program)
       THEN Goto(p, "phase") /\ at' = [at EXCEPT ![p] = @ + 1]
       ELSE Goto(p, "report") /\ UNCHANGED at
    /\ UNCHANGED <<job, i, cpu, start, made, secret, header, code, files, bounds>>

-----------------------------------------------------------------------------
(* write_benchmark_output *)

(* Mutant of Probe: the header is left out when the file merely exists. *)
ProbeInverted(p) ==
    /\ pc[p] = "report"
    /\ Goto(p, IF job[p].out = "none" THEN "done" ELSE "open")
    /\ header' = [header EXCEPT ![p] = csv # <<>>]
    /\ UNCHANGED <<job, measures, secret, code, files, bounds>>

(* Mutant of Probe: every run writes the header. *)
ProbeAlways(p) ==
    /\ pc[p] = "report"
    /\ Goto(p, IF job[p].out = "none" THEN "done" ELSE "open")
    /\ header' = [header EXCEPT ![p] = TRUE]
    /\ UNCHANGED <<job, measures, secret, code, files, bounds>>

(* The time stamp is taken, and a CSV file probed for its size.  A probe   *)
(* that fails for another reason than a missing file looks the same.       *)
Probe(p) ==
    /\ pc[p] = "report"
    /\ \/ /\ Goto(p, IF job[p].out = "none" THEN "done" ELSE "open")
          /\ \/ /\ header' = [header EXCEPT ![p] = (job[p].out = "csv" /\ csv = <<>>)]
                /\ UNCHANGED bounds
             \/ /\ job[p].out = "csv"
                /\ header' = [header EXCEPT ![p] = TRUE]
                /\ Fault(p)
          /\ UNCHANGED code
       \/ job[p].out # "none" /\ Fail(p) /\ Fault(p) /\ UNCHANGED header
    /\ UNCHANGED <<job, measures, secret, files>>

(* fopen for appending creates the CSV file, for writing empties the text. *)
Open(p) ==
    /\ pc[p] = "open"
    /\ \/ /\ Goto(p, "close")
          /\ text' = IF job[p].out = "text" THEN "empty" ELSE text
          /\ UNCHANGED <<code, bounds>>
       \/ Fail(p) /\ Fault(p) /\ UNCHANGED text
    /\ UNCHANGED <<job, measures, secret, header, csv>>

Report(p) == IF header[p] THEN <<"HEADER", "ROW">> ELSE <<"ROW">>

(* What a failing write may leave of the report: nothing or a torn part. *)
Torn(p) == IF header[p] THEN {<<>>, <<"header">>, <<"HEADER">>, <<"HEADER", "row">>}
                        ELSE {<<>>, <<"row">>}

(* fclose appends or writes the buffered report; its result is ignored. *)
Close(p) ==
    /\ pc[p] = "close"
    /\ IF job[p].out = "csv"
       THEN /\ \/ csv' = csv \o Report(p) /\ UNCHANGED bounds
               \/ Fault(p) /\ csv' \in {csv \o lines : lines \in Torn(p)}
            /\ UNCHANGED text
       ELSE /\ \/ text' = "whole" /\ UNCHANGED bounds
               \/ Fault(p) /\ text' \in {text, "torn"}
            /\ UNCHANGED csv
    /\ Goto(p, "done")
    /\ UNCHANGED <<job, measures, secret, header, code>>

(* Mutant of Finish: a failed benchmark returns at once. *)
FinishUnwiped(p) ==
    /\ pc[p] = "done"
    /\ secret' = [secret EXCEPT ![p] = IF code[p] = 0 THEN {} ELSE @]
    /\ Goto(p, "exited")
    /\ ResetLocals(p)
    /\ UNCHANGED <<job, code, files, bounds>>

(* done: wipe the four secret buffers, free all, return. *)
Finish(p) ==
    /\ pc[p] = "done"
    /\ secret' = [secret EXCEPT ![p] = @ \ {"sec", "shared_secret", "sig_sec", "signature"}]
    /\ Goto(p, "exited")
    /\ ResetLocals(p)
    /\ UNCHANGED <<job, code, files, bounds>>

(* The process is killed; what stdio still buffers is gone. *)
Kill(p) ==
    /\ pc[p] \notin {"idle", "exited", "killed"}
    /\ Fault(p)
    /\ Goto(p, "killed")
    /\ code' = [code EXCEPT ![p] = 1]
    /\ secret' = [secret EXCEPT ![p] = {}]
    /\ ResetLocals(p)
    /\ UNCHANGED <<job, files>>

-----------------------------------------------------------------------------
Step(p) ==
    \/ Alloc(p) \/ Phase(p) \/ LibraryCall(p) \/ NextPhase(p)
    \/ Probe(p) \/ Open(p) \/ Close(p) \/ Finish(p)

Next ==
    \E p \in Procs :
        \/ \E j \in Jobs : Start(p, j)
        \/ Step(p)
        \/ Kill(p)

Spec == Init /\ [][Next]_vars

-----------------------------------------------------------------------------
(* Properties. *)

(* Every variable has its type. *)
TypeOK ==
    /\ pc \in [Procs -> {"idle", "alloc", "phase", "call", "next", "report", "open", "close",
                         "done", "exited", "killed"}]
    /\ job \in [Procs -> Jobs \cup {NoJob}]
    /\ at \in [Procs -> 1..Len(Program)]
    /\ i \in [Procs -> Nat]
    /\ cpu \in [Procs -> Nat]
    /\ start \in [Procs -> Nat]
    /\ total \in [Procs -> [Operations -> Nat]]
    /\ made \in [Procs -> [{"key", "ct", "sigkey", "sig"} -> Nat]]
    /\ secret \in [Procs -> SUBSET {"sec", "shared_secret", "sig_sec", "signature"}]
    /\ header \in [Procs -> BOOLEAN]
    /\ code \in [Procs -> {0, 1}]
    /\ csv \in Seq({"HEADER", "ROW", "header", "row"})
    /\ text \in {"absent", "empty", "whole", "torn"}
    /\ runs \in 0..MaxRuns
    /\ faults \in 0..MaxFaults
    /\ hit \in [Procs -> BOOLEAN]

(* The averages reported are of exactly `iterations` calls of their own    *)
(* operation: no setup call and no other loop is inside the two readings   *)
(* of the clock.                                                           *)
AveragesExact ==
    \A p \in Procs : pc[p] \in {"report", "open", "close"} =>
        \A op \in Operations : total[p][op] = Cost[op] * job[p].iterations

(* Each loop finds what the ones before it left: with a connected backend  *)
(* and no fault a benchmark exits 0, and never without one connected.      *)
SucceedsWhenConnected ==
    \A p \in Procs : pc[p] = "exited" /\ job[p].iterations > 0 /\ ~hit[p] =>
        (code[p] = 0 <=> job[p].backend # "PLACEHOLDER")

(* No benchmark returns with a secret left in the memory it frees. *)
BenchmarkWiped == \A p \in Procs : pc[p] = "exited" => secret[p] = {}

(* A parser that takes the first line for the header is never given a row: *)
(* whoever else appends, is killed or loses its report, the first line of  *)
(* the CSV file is a header or the torn beginning of one.                  *)
HeaderFirst == csv # <<>> => csv[1] \in {"HEADER", "header"}

(* The header is repeated at most once per other process that probed the   *)
(* empty file, and per probe that failed: one user's runs leave one.       *)
HeadersBounded ==
    Quantify(1..Len(csv), LAMBDA k : csv[k] \in {"HEADER", "header"})
        <= Cardinality(Procs) + faults
=============================================================================
