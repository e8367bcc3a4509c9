----------------------------- MODULE InsecureRng -----------------------------
(***************************************************************************)
(* The test-only random source of the two dummy backends.  src/pqc_kem.c   *)
(* and src/pqc_sig.c each hold a private copy of the same two functions    *)
(* and a private "seeded" flag, but both draw from the ONE process-wide    *)
(* generator behind rand() and srand().                                    *)
(*                                                                         *)
(* A stream position <<s, i>> stands for the i-th value rand() returns     *)
(* after srand(s).  Seed 0 stands for "srand was never called".  Each      *)
(* library call is one step (the C library locks the generator); the       *)
(* flag is a plain int, read and written in separate steps.                *)
(***************************************************************************)
EXTENDS Naturals, Sequences, FiniteSets

CONSTANTS
    Threads,     \* the threads that call into the dummy backends
    Modules,     \* the translation units with a private flag: "kem", "sig"
    MaxClock,    \* BOUND: how many distinct seconds time() can return
    MaxOut       \* BOUND: how many bytes a thread ever draws

ASSUME RngAssumption ==
    /\ MaxClock \in Nat \ {0}
    /\ MaxOut \in Nat
    /\ IsFiniteSet(Threads)

VARIABLES
    now,        \* the second time(NULL) returns
    seeded,     \* g_rng_seeded / g_sig_rng_seeded, one per module
    gen,        \* the generator: the seed it was given, values drawn since
    pc,         \* where each thread is inside insecure_test_random_bytes
    mod,        \* the module whose copy of the code the thread executes
    sec,        \* the value time(NULL) returned to the thread
    out,        \* history: the stream positions each thread was handed
    seeds       \* history: the seeds each module gave to srand

vars == <<now, seeded, gen, pc, mod, sec, out, seeds>>

Unseeded == 0

Init ==
    /\ now = 1
    /\ seeded = [m \in Modules |-> FALSE]
    /\ gen = [seed |-> Unseeded, pos |-> 0]
    /\ pc = [t \in Threads |-> "idle"]
    /\ mod \in [Threads -> Modules]
    /\ sec = [t \in Threads |-> 1]
    /\ out = [t \in Threads |-> <<>>]
    /\ seeds = [m \in Modules |-> <<>>]

(* A dummy operation of module m asks for random bytes. *)
Enter(t, m) ==
    /\ pc[t] = "idle"
    /\ Len(out[t]) < MaxOut
    /\ mod' = [mod EXCEPT ![t] = m]
    /\ pc' = [pc EXCEPT ![t] = "test"]
    /\ UNCHANGED <<now, seeded, gen, sec, out, seeds>>

(* Mutant of TestFlag: the flag is raised before srand has run. *)
TestFlagRaisingIt(t) ==
    /\ pc[t] = "test"
    /\ pc' = [pc EXCEPT ![t] = IF seeded[mod[t]] THEN "draw" ELSE "clock"]
    /\ seeded' = [seeded EXCEPT ![mod[t]] = TRUE]
    /\ UNCHANGED <<now, gen, mod, sec, out, seeds>>

(* if (!g_rng_seeded) *)
TestFlag(t) ==
    /\ pc[t] = "test"
    /\ pc' = [pc EXCEPT ![t] = IF seeded[mod[t]] THEN "draw" ELSE "clock"]
    /\ UNCHANGED <<now, seeded, gen, mod, sec, out, seeds>>

(* Mutant of ReadClock: the seed is a second that has not come yet. *)
ReadClockAhead(t) ==
    /\ pc[t] = "clock"
    /\ sec' = [sec EXCEPT ![t] = now + 1]
    /\ pc' = [pc EXCEPT ![t] = "seed"]
    /\ UNCHANGED <<now, seeded, gen, mod, out, seeds>>

(* time(NULL), the argument of srand *)
ReadClock(t) ==
    /\ pc[t] = "clock"
    /\ sec' = [sec EXCEPT ![t] = now]
    /\ pc' = [pc EXCEPT ![t] = "seed"]
    /\ UNCHANGED <<now, seeded, gen, mod, out, seeds>>

(* srand(...) restarts the process-wide stream *)
Seed(t) ==
    /\ pc[t] = "seed"
    /\ gen' = [seed |-> sec[t], pos |-> 0]
    /\ seeds' = [seeds EXCEPT ![mod[t]] = Append(@, sec[t])]
    /\ pc' = [pc EXCEPT ![t] = "mark"]
    /\ UNCHANGED <<now, seeded, mod, sec, out>>

(* Mutant of Mark: the flag is never raised. *)
MarkForgotten(t) ==
    /\ pc[t] = "mark"
    /\ pc' = [pc EXCEPT ![t] = "draw"]
    /\ UNCHANGED <<now, seeded, gen, mod, sec, out, seeds>>

(* g_rng_seeded = 1 *)
Mark(t) ==
    /\ pc[t] = "mark"
    /\ seeded' = [seeded EXCEPT ![mod[t]] = TRUE]
    /\ pc' = [pc EXCEPT ![t] = "draw"]
    /\ UNCHANGED <<now, gen, mod, sec, out, seeds>>

(* Mutant of Draw: rand() is called once for the whole loop. *)
DrawHoisted(t) ==
    /\ pc[t] = "draw"
    /\ Len(out[t]) < MaxOut
    /\ out' = [out EXCEPT ![t] = Append(@, <<gen.seed, gen.pos>>)]
    /\ UNCHANGED <<now, seeded, gen, pc, mod, sec, seeds>>

(* One round of the byte loop: out[i] = rand() & 0xFF. *)
Draw(t) ==
    /\ pc[t] = "draw"
    /\ Len(out[t]) < MaxOut
    /\ out' = [out EXCEPT ![t] = Append(@, <<gen.seed, gen.pos>>)]
    /\ gen' = [seed |-> gen.seed, pos |-> gen.pos + 1]
    /\ UNCHANGED <<now, seeded, pc, mod, sec, seeds>>

(* The loop ends (len depends on the operation) and the function returns. *)
Leave(t) ==
    /\ pc[t] = "draw"
    /\ pc' = [pc EXCEPT ![t] = "idle"]
    /\ UNCHANGED <<now, seeded, gen, mod, sec, out, seeds>>

(* A second passes. *)
Tick ==
    /\ now < MaxClock
    /\ now' = now + 1
    /\ UNCHANGED <<seeded, gen, pc, mod, sec, out, seeds>>

Next ==
    \/ Tick
    \/ \E t \in Threads :
          \/ \E m \in Modules : Enter(t, m)
          \/ TestFlag(t)
          \/ ReadClock(t)
          \/ Seed(t)
          \/ Mark(t)
          \/ Draw(t)
          \/ Leave(t)

Spec == Init /\ [][Next]_vars

-----------------------------------------------------------------------------

Locations == {"idle", "test", "clock", "seed", "mark", "draw"}
Positions == Nat \X Nat

(* Every variable has its type. *)
TypeOK ==
    /\ now \in 1..MaxClock
    /\ seeded \in [Modules -> BOOLEAN]
    /\ gen \in [seed : 0..MaxClock, pos : Nat]
    /\ pc \in [Threads -> Locations]
    /\ mod \in [Threads -> Modules]
    /\ sec \in [Threads -> 1..MaxClock]
    /\ out \in [Threads -> Seq(Positions)]
    /\ seeds \in [Modules -> Seq(1..MaxClock)]

(* No byte is ever taken from the generator before some srand has run,     *)
(* although the flag that guards srand is tested without any lock and the  *)
(* two modules do not know of each other's flag.                           *)
DrawsAreSeeded ==
    \A t \in Threads : \A i \in 1..Len(out[t]) : out[t][i][1] # Unseeded

(* The lock-free test can be passed by several threads at once, so srand   *)
(* may run more than once for a module, but never more than once per       *)
(* thread: the flag, once set, stops every later pass.                     *)
SeededOncePerThread ==
    \A m \in Modules : Len(seeds[m]) <= Cardinality(Threads)

(* A stream position is handed out twice only if srand was given the same  *)
(* second twice, by two threads or by the two modules.  One thread in one  *)
(* module - the command line program's keygen - therefore never repeats.   *)
NoReplay ==
    \A t, u \in Threads : \A i \in 1..Len(out[t]), j \in 1..Len(out[u]) :
        out[t][i] = out[u][j] /\ <<t, i>> # <<u, j>> =>
            \E m, n \in Modules : \E k \in 1..Len(seeds[m]), l \in 1..Len(seeds[n]) :
                /\ <<m, k>> # <<n, l>>
                /\ seeds[m][k] = out[t][i][1]
                /\ seeds[n][l] = out[t][i][1]
=============================================================================
