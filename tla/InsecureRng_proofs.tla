-------------------------- MODULE InsecureRng_proofs --------------------------
(***************************************************************************)
(* Theorems about InsecureRng for any threads, modules and bounds.         *)
(***************************************************************************)
EXTENDS InsecureRng, FiniteSetTheorems, TLAPS

(* What the byte loop's Append leaves at each index. *)
LEMMA AppendAt ==
  ASSUME NEW S, NEW s \in Seq(S), NEW e \in S
  PROVE  /\ Len(Append(s, e)) = Len(s) + 1
         /\ \A i \in 1..Len(s) : Append(s, e)[i] = s[i]
         /\ Append(s, e)[Len(s) + 1] = e
OBVIOUS

(* Every variable of the random source keeps its type: in particular the   *)
(* second a thread read and the generator's seed stay inside the clock.    *)
THEOREM RngTyping == Spec => []TypeOK
<1> USE RngAssumption DEF Locations, Positions, Unseeded
<1>1. Init => TypeOK
  BY DEF Init, TypeOK
<1>2. TypeOK /\ [Next]_vars => TypeOK'
  <2> SUFFICES ASSUME TypeOK, [Next]_vars PROVE TypeOK'
    OBVIOUS
  <2> USE DEF TypeOK
  <2>1. CASE Tick
    BY <2>1 DEF Tick
  <2>2. ASSUME NEW t \in Threads, NEW m \in Modules, Enter(t, m) PROVE TypeOK'
    BY <2>2 DEF Enter
  <2>3. ASSUME NEW t \in Threads, TestFlag(t) PROVE TypeOK'
    BY <2>3 DEF TestFlag
  <2>4. ASSUME NEW t \in Threads, ReadClock(t) PROVE TypeOK'
    BY <2>4 DEF ReadClock
  <2>5. ASSUME NEW t \in Threads, Seed(t) PROVE TypeOK'
    <3>1. Append(seeds[mod[t]], sec[t]) \in Seq(1..MaxClock)
      OBVIOUS
    <3>2. seeds' \in [Modules -> Seq(1..MaxClock)]
      BY <2>5, <3>1 DEF Seed
    <3> QED
      BY <2>5, <3>2 DEF Seed
  <2>6. ASSUME NEW t \in Threads, Mark(t) PROVE TypeOK'
    BY <2>6 DEF Mark
  <2>7. ASSUME NEW t \in Threads, Draw(t) PROVE TypeOK'
    <3>1. gen'.pos \in Nat /\ gen'.seed = gen.seed /\ gen' \in [seed : 0..MaxClock, pos : Nat]
      BY <2>7 DEF Draw
    <3>2. <<gen.seed, gen.pos>> \in Positions
      OBVIOUS
    <3>3. Append(out[t], <<gen.seed, gen.pos>>) \in Seq(Positions)
      BY <3>2 DEF Positions
    <3>4. out' \in [Threads -> Seq(Positions)]
      BY <2>7, <3>3 DEF Draw
    <3> QED
      BY <2>7, <3>1, <3>4 DEF Draw
  <2>8. ASSUME NEW t \in Threads, Leave(t) PROVE TypeOK'
    BY <2>8 DEF Leave
  <2>9. CASE UNCHANGED vars
    BY <2>9 DEF vars
  <2> QED
    BY <2>1, <2>2, <2>3, <2>4, <2>5, <2>6, <2>7, <2>8, <2>9 DEF Next
<1> QED
  BY <1>1, <1>2, PTL DEF Spec

(* Whoever may draw knows that some srand has run: the flag is raised only *)
(* after srand, and srand never gives the generator the seed 0.            *)
SeededBeforeUse ==
    /\ \A m \in Modules : seeded[m] => gen.seed # Unseeded
    /\ \A t \in Threads : pc[t] \in {"mark", "draw"} => gen.seed # Unseeded

(* The inductive strengthening of DrawsAreSeeded.                          *)
RngInv == TypeOK /\ SeededBeforeUse /\ DrawsAreSeeded

(* Every step keeps it, and no byte is drawn before.                       *)
LEMMA SeededStep ==
  ASSUME TypeOK, TypeOK', SeededBeforeUse, DrawsAreSeeded, [Next]_vars
  PROVE  SeededBeforeUse' /\ DrawsAreSeeded'
<1> USE RngAssumption
<1> USE DEF TypeOK, SeededBeforeUse, DrawsAreSeeded, Unseeded, Locations
<1>1. CASE Tick
  BY <1>1 DEF Tick
<1>2. ASSUME NEW t \in Threads, NEW m \in Modules, Enter(t, m)
      PROVE  SeededBeforeUse' /\ DrawsAreSeeded'
  BY <1>2 DEF Enter
<1>3. ASSUME NEW t \in Threads, TestFlag(t)
      PROVE  SeededBeforeUse' /\ DrawsAreSeeded'
  BY <1>3 DEF TestFlag
<1>4. ASSUME NEW t \in Threads, ReadClock(t)
      PROVE  SeededBeforeUse' /\ DrawsAreSeeded'
  BY <1>4 DEF ReadClock
<1>5. ASSUME NEW t \in Threads, Seed(t)
      PROVE  SeededBeforeUse' /\ DrawsAreSeeded'
  <2>1. gen'.seed # Unseeded
    BY <1>5 DEF Seed
  <2> QED
    BY <1>5, <2>1 DEF Seed
<1>6. ASSUME NEW t \in Threads, Mark(t)
      PROVE  SeededBeforeUse' /\ DrawsAreSeeded'
  BY <1>6 DEF Mark
<1>7. ASSUME NEW t \in Threads, Draw(t)
      PROVE  SeededBeforeUse' /\ DrawsAreSeeded'
  <2>1. gen'.seed = gen.seed /\ gen.seed # Unseeded
    BY <1>7 DEF Draw
  <2>2. SeededBeforeUse'
    BY <1>7, <2>1 DEF Draw
  <2>3. ASSUME NEW u \in Threads, NEW i \in 1..Len(out'[u])
        PROVE  out'[u][i][1] # Unseeded
    <3>1. CASE u = t
      <4> DEFINE e == <<gen.seed, gen.pos>>
      <4>0. out[t] \in Seq(Positions) /\ e \in Positions
        BY DEF Positions
      <4>1. out'[t] = Append(out[t], e)
        BY <1>7 DEF Draw
      <4>5. /\ Len(out'[t]) = Len(out[t]) + 1
            /\ \A j \in 1..Len(out[t]) : out'[t][j] = out[t][j]
            /\ out'[t][Len(out[t]) + 1] = e
        <5> HIDE DEF e
        <5> QED
          BY <4>0, <4>1, AppendAt
      <4>2. CASE i \in 1..Len(out[t])
        <5>1. out'[t][i] = out[t][i]
          BY <4>5, <4>2
        <5> QED
          BY <3>1, <4>2, <5>1
      <4>3. CASE i = Len(out[t]) + 1
        <5>1. out'[t][i] = <<gen.seed, gen.pos>>
          BY <4>5, <4>3
        <5> QED
          BY <2>1, <3>1, <5>1
      <4> QED
        BY <2>3, <3>1, <4>0, <4>2, <4>3, <4>5
    <3>2. CASE u # t
      <4>1. out'[u] = out[u]
        BY <1>7, <3>2 DEF Draw
      <4> QED
        BY <2>3, <4>1
    <3> QED
      BY <3>1, <3>2
  <2> QED
    BY <2>2, <2>3
<1>8. ASSUME NEW t \in Threads, Leave(t)
      PROVE  SeededBeforeUse' /\ DrawsAreSeeded'
  BY <1>8 DEF Leave
<1>9. CASE UNCHANGED vars
  BY <1>9 DEF vars
<1> QED
  BY <1>1, <1>2, <1>3, <1>4, <1>5, <1>6, <1>7, <1>8, <1>9 DEF Next

(* No dummy backend hands out a byte of a generator that was never seeded, *)
(* for any number of threads and modules sharing it.                       *)
THEOREM SeededDraws == Spec => []DrawsAreSeeded
<1>1. Init => SeededBeforeUse /\ DrawsAreSeeded
  BY DEF Init, SeededBeforeUse, DrawsAreSeeded
<1>2. TypeOK /\ TypeOK' /\ SeededBeforeUse /\ DrawsAreSeeded /\ [Next]_vars
        => SeededBeforeUse' /\ DrawsAreSeeded'
  BY SeededStep
<1> QED
  BY <1>1, <1>2, RngTyping, PTL DEF Spec

-----------------------------------------------------------------------------
(* Thread t is past the test of module m's flag and will call srand. *)
AboutToSeed(t, m) == pc[t] \in {"clock", "seed"} /\ mod[t] = m

(* The strengthening of SeededOncePerThread: the calls of srand that a     *)
(* module made were made by as many threads, S, none of which will make    *)
(* another: the flag is up, or the thread that left it down is about to    *)
(* raise it.                                                               *)
SeedersOf(m, S) ==
    /\ S \subseteq Threads
    /\ Cardinality(S) = Len(seeds[m])
    /\ \A t \in S : /\ seeded[m] \/ (pc[t] = "mark" /\ mod[t] = m)
                    /\ ~AboutToSeed(t, m)

SeedersInv == \A m \in Modules : \E S : SeedersOf(m, S)

LEMMA SeederAdded ==
  ASSUME TypeOK, NEW t \in Threads, Seed(t), NEW m \in Modules, m = mod[t], NEW S, SeedersOf(m, S)
  PROVE  SeedersOf(m, S \cup {t})'
<1>1. t \notin S
  BY DEF SeedersOf, AboutToSeed, Seed
<1>2. IsFiniteSet(S)
  BY RngAssumption, FS_Subset DEF SeedersOf
<1>3. Cardinality(S \cup {t}) = Cardinality(S) + 1
  BY <1>1, <1>2, FS_AddElement
<1>4. seeds[m] \in Seq(1..MaxClock) /\ sec[t] \in 1..MaxClock /\ m \in Modules
  BY DEF TypeOK
<1>5. Len(Append(seeds[m], sec[t])) = Len(seeds[m]) + 1
  BY <1>4, AppendAt
<1>6. seeds'[m] = Append(seeds[m], sec[t]) /\ mod' = mod /\ seeded' = seeded
  BY <1>4 DEF Seed, TypeOK
<1>7. pc'[t] = "mark" /\ \A u \in Threads : u # t => pc'[u] = pc[u]
  BY DEF Seed, TypeOK
<1>8. (S \cup {t}) \subseteq Threads /\ Cardinality(S \cup {t}) = Len(seeds'[m])
  BY <1>3, <1>5, <1>6 DEF SeedersOf
<1>9. ASSUME NEW u \in S \cup {t}
      PROVE  /\ seeded'[m] \/ (pc'[u] = "mark" /\ mod'[u] = m)
             /\ ~(pc'[u] \in {"clock", "seed"} /\ mod'[u] = m)
  <2>1. CASE u = t
    BY <2>1, <1>6, <1>7
  <2>2. CASE u # t
    BY <2>2, <1>6, <1>7, <1>9 DEF SeedersOf, AboutToSeed
  <2> QED
    BY <2>1, <2>2
<1> QED
  BY <1>6, <1>8, <1>9 DEF SeedersOf, AboutToSeed

(* Every other step keeps the threads that seeded.                         *)
LEMMA SeedersKept ==
  ASSUME TypeOK, NEW m \in Modules, NEW S, SeedersOf(m, S), seeds'[m] = seeds[m],
         seeded[m] => seeded'[m],
         \A t \in S : pc[t] = "mark" /\ mod[t] = m =>
             seeded'[m] \/ (pc'[t] = "mark" /\ mod'[t] = m),
         \A t \in S : AboutToSeed(t, m)' => AboutToSeed(t, m)
  PROVE  SeedersOf(m, S)'
BY DEF SeedersOf

(* srand runs at most once per thread and module, for any number of both:  *)
(* the flag, tested without a lock, can be passed by several threads but   *)
(* by each of them only once.                                              *)
THEOREM SeedsBounded == Spec => []SeededOncePerThread
<1>1. Init => SeedersInv
  <2> SUFFICES ASSUME Init, NEW m \in Modules PROVE \E S : SeedersOf(m, S)
    BY DEF SeedersInv
  <2>1. SeedersOf(m, {})
    BY FS_EmptySet DEF Init, SeedersOf
  <2> QED
    BY <2>1
<1>2. TypeOK /\ SeedersInv /\ [Next]_vars => SeedersInv'
  <2> SUFFICES ASSUME TypeOK, SeedersInv, [Next]_vars, NEW m \in Modules
               PROVE  \E S : SeedersOf(m, S)'
    BY DEF SeedersInv
  <2>1. PICK S : SeedersOf(m, S)
    BY DEF SeedersInv
  <2>a. S \subseteq Threads
    BY <2>1 DEF SeedersOf
  <2> DEFINE Kept == /\ seeds'[m] = seeds[m]
                     /\ seeded[m] => seeded'[m]
                     /\ \A t \in S : pc[t] = "mark" /\ mod[t] = m =>
                            seeded'[m] \/ (pc'[t] = "mark" /\ mod'[t] = m)
                     /\ \A t \in S : AboutToSeed(t, m)' => AboutToSeed(t, m)
  <2>b. Kept => SeedersOf(m, S)'
    BY <2>1, SeedersKept
  <2>2. CASE Tick \/ UNCHANGED vars
    <3>1. UNCHANGED <<pc, mod, seeded, seeds>>
      BY <2>2 DEF Tick, vars
    <3>2. Kept
      BY <3>1 DEF AboutToSeed
    <3> HIDE DEF Kept
    <3> QED
      BY <2>b, <3>2
  <2>3. ASSUME NEW t \in Threads, NEW n \in Modules, Enter(t, n) PROVE Kept
    BY <2>3, <2>a DEF Enter, AboutToSeed, TypeOK
  <2>4. ASSUME NEW t \in Threads, TestFlag(t) PROVE Kept
    <3>1. t \in S => seeded[m] \/ mod[t] # m
      BY <2>1, <2>4 DEF TestFlag, SeedersOf
    <3> QED
      BY <2>4, <2>a, <3>1 DEF TestFlag, AboutToSeed, TypeOK
  <2>5. ASSUME NEW t \in Threads, ReadClock(t) PROVE Kept
    BY <2>5, <2>a DEF ReadClock, AboutToSeed, TypeOK
  <2>6. ASSUME NEW t \in Threads, Seed(t), mod[t] # m PROVE Kept
    BY <2>6, <2>a DEF Seed, AboutToSeed, TypeOK
  <2>7. ASSUME NEW t \in Threads, Mark(t) PROVE Kept
    BY <2>7, <2>a DEF Mark, AboutToSeed, TypeOK
  <2>8. ASSUME NEW t \in Threads, Draw(t) \/ Leave(t) PROVE Kept
    BY <2>8, <2>a DEF Draw, Leave, AboutToSeed, TypeOK
  <2>9. ASSUME NEW t \in Threads, Seed(t), mod[t] = m PROVE SeedersOf(m, S \cup {t})'
    BY <2>1, <2>9, SeederAdded
  <2> HIDE DEF Kept
  <2> QED
    BY <2>b, <2>2, <2>3, <2>4, <2>5, <2>6, <2>7, <2>8, <2>9 DEF Next
<1>3. TypeOK /\ SeedersInv => SeededOncePerThread
  <2> SUFFICES ASSUME TypeOK, SeedersInv, NEW m \in Modules
               PROVE  Len(seeds[m]) <= Cardinality(Threads)
    BY DEF SeededOncePerThread
  <2>1. PICK S : SeedersOf(m, S)
    BY DEF SeedersInv
  <2> QED
    BY <2>1, RngAssumption, FS_Subset DEF SeedersOf
<1> QED
  BY <1>1, <1>2, <1>3, RngTyping, PTL DEF Spec

-----------------------------------------------------------------------------
(* Some module gave srand the seed s; it was given twice.  Both are stated *)
(* of the history sd of seeds.                                             *)
Given(sd, s) == \E m \in Modules : \E k \in 1..Len(sd[m]) : sd[m][k] = s

Twice(sd, s) ==
    \E m, n \in Modules : \E k \in 1..Len(sd[m]), l \in 1..Len(sd[n]) :
        <<m, k>> # <<n, l>> /\ sd[m][k] = s /\ sd[n][l] = s

(* The strengthening of NoReplay: the generator, and every position handed *)
(* out, stems from a seed that was given; and a position of the present    *)
(* seed lies behind the generator, unless that seed was given twice.       *)
StreamInv ==
    /\ gen.seed # Unseeded => Given(seeds, gen.seed)
    /\ \A t \in Threads : \A i \in 1..Len(out[t]) :
          /\ Given(seeds, out[t][i][1])
          /\ out[t][i][1] = gen.seed => out[t][i][2] < gen.pos \/ Twice(seeds, gen.seed)

(* Another call of srand keeps what was given, and gives its own seed.     *)
LEMMA SeedGiven ==
  ASSUME TypeOK, NEW t \in Threads, Seed(t)
  PROVE  /\ Given(seeds', sec[t])
         /\ \A s : Given(seeds, s) => Given(seeds', s)
         /\ \A s : Twice(seeds, s) => Twice(seeds', s)
         /\ Given(seeds, sec[t]) => Twice(seeds', sec[t])
<1> DEFINE m == mod[t]
           e == sec[t]
<1>1. seeds[m] \in Seq(1..MaxClock) /\ e \in 1..MaxClock /\ m \in Modules
  BY DEF TypeOK
<1>2. /\ seeds'[m] = Append(seeds[m], e)
      /\ \A n \in Modules : n # m => seeds'[n] = seeds[n]
  BY <1>1 DEF Seed, TypeOK
<1>3. /\ Len(seeds'[m]) = Len(seeds[m]) + 1
      /\ \A k \in 1..Len(seeds[m]) : seeds'[m][k] = seeds[m][k]
      /\ seeds'[m][Len(seeds[m]) + 1] = e
  BY <1>1, <1>2, AppendAt
<1>4. Len(seeds[m]) \in Nat /\ Len(seeds[m]) + 1 \in 1..Len(seeds'[m])
  BY <1>1, <1>3
<1>5. \A n \in Modules : \A k \in 1..Len(seeds[n]) :
          k \in 1..Len(seeds'[n]) /\ seeds'[n][k] = seeds[n][k]
  BY <1>2, <1>3, <1>4
<1>6. \A k \in 1..Len(seeds[m]) : k # Len(seeds[m]) + 1
  BY <1>4
<1> HIDE DEF m, e
<1>7. Given(seeds', e)
  BY <1>1, <1>3, <1>4 DEF Given
<1>8. \A s : Given(seeds, s) => Given(seeds', s)
  BY <1>5 DEF Given
<1>9. \A s : Twice(seeds, s) => Twice(seeds', s)
  BY <1>5 DEF Twice
<1>10. ASSUME Given(seeds, e) PROVE Twice(seeds', e)
  <2>1. PICK n \in Modules : \E k \in 1..Len(seeds[n]) : seeds[n][k] = e
    BY <1>10 DEF Given
  <2>2. PICK k \in 1..Len(seeds[n]) : seeds[n][k] = e
    BY <2>1
  <2>3. k \in 1..Len(seeds'[n]) /\ seeds'[n][k] = e
    BY <2>2, <1>5
  <2>4. <<n, k>> # <<m, Len(seeds[m]) + 1>>
    BY <1>6
  <2> QED
    BY <2>3, <2>4, <1>1, <1>3, <1>4 DEF Twice
<1> QED
  BY <1>7, <1>8, <1>9, <1>10 DEF e

(* NoReplay, in terms of Twice.                                            *)
Distinct(o, sd) ==
    \A t, u \in Threads : \A i \in 1..Len(o[t]), j \in 1..Len(o[u]) :
        o[t][i] = o[u][j] /\ <<t, i>> # <<u, j>> => Twice(sd, o[t][i][1])

LEMMA ReplayIsTwice == NoReplay <=> Distinct(out, seeds)
BY DEF NoReplay, Distinct, Twice


(* A byte drawn: its position is new, or its seed was given twice.         *)
LEMMA DrawKeeps ==
  ASSUME TypeOK, SeededBeforeUse, StreamInv, Distinct(out, seeds), NEW t \in Threads, Draw(t)
  PROVE  StreamInv' /\ Distinct(out', seeds')
<1> DEFINE e == <<gen.seed, gen.pos>>
           s == gen.seed
           last == Len(out[t]) + 1
<1>1. /\ s # Unseeded /\ Given(seeds, s)
      /\ gen.pos \in Nat
  BY DEF Draw, SeededBeforeUse, StreamInv, TypeOK
<1>2. /\ out' = [out EXCEPT ![t] = Append(out[t], e)]
      /\ gen'.seed = s /\ gen'.pos = gen.pos + 1
      /\ seeds' = seeds
  BY DEF Draw
<1>3. out[t] \in Seq(Positions) /\ e \in Positions
  BY DEF TypeOK, Positions
<1>4. e[1] = s /\ e[2] = gen.pos
  OBVIOUS
<1>5. /\ Len(out'[t]) = last
      /\ \A i \in 1..Len(out[t]) : out'[t][i] = out[t][i]
      /\ out'[t][last] = e
  <2> HIDE DEF e
  <2>1. out'[t] = Append(out[t], e)
    BY <1>2 DEF TypeOK
  <2> QED
    BY <1>3, <2>1, AppendAt
<1>6. \A u \in Threads : u # t => out'[u] = out[u]
  BY <1>2 DEF TypeOK
<1>7. \A u \in Threads : Len(out[u]) \in Nat
  BY DEF TypeOK
<1>8. Len(out[t]) \in Nat /\ \A i : i \in 1..last <=> i \in 1..Len(out[t]) \/ i = last
  BY <1>7
<1> DEFINE Fresh(u, i) == u = t /\ i = last
<1>9. ASSUME NEW u \in Threads, NEW i \in 1..Len(out'[u])
      PROVE  \/ Fresh(u, i) /\ out'[u][i] = e
             \/ ~Fresh(u, i) /\ i \in 1..Len(out[u]) /\ out'[u][i] = out[u][i]
  <2>1. CASE u = t
    <3>1. \A k \in 1..Len(out[t]) : k # last
      BY <1>8
    <3> HIDE DEF e, last
    <3> QED
      BY <2>1, <3>1, <1>5, <1>8, <1>9
  <2>2. CASE u # t
    BY <2>2, <1>6
  <2> QED
    BY <2>1, <2>2
<1> HIDE DEF e, s, last, Fresh
(* an old position of the present seed lies behind the generator *)
<1>10. ASSUME NEW u \in Threads, NEW i \in 1..Len(out[u])
       PROVE  /\ Given(seeds, out[u][i][1])
              /\ out[u][i][1] = s => out[u][i][2] < gen.pos \/ Twice(seeds, s)
              /\ out[u][i][2] \in Nat
  <2>1. out[u] \in Seq(Positions)
    BY DEF TypeOK
  <2>2. out[u][i] \in Positions
    BY <2>1
  <2> QED
    BY <2>2 DEF StreamInv, s, Positions
<1>11. StreamInv'
  <2>1. gen'.seed # Unseeded => Given(seeds', gen'.seed)
    BY <1>1, <1>2
  <2>2. ASSUME NEW u \in Threads, NEW i \in 1..Len(out'[u])
        PROVE  /\ Given(seeds', out'[u][i][1])
               /\ out'[u][i][1] = gen'.seed => out'[u][i][2] < gen'.pos \/ Twice(seeds', gen'.seed)
    <3>1. CASE out'[u][i] = e
      BY <3>1, <1>1, <1>2, <1>4
    <3>2. CASE i \in 1..Len(out[u]) /\ out'[u][i] = out[u][i]
      BY <3>2, <1>1, <1>2, <1>10
    <3> QED
      BY <1>9, <3>1, <3>2
  <2> QED
    BY <2>1, <2>2 DEF StreamInv, Unseeded
<1>12. ASSUME NEW u \in Threads, NEW i \in 1..Len(out[u]), out[u][i] = e
       PROVE  Twice(seeds, s)
  BY <1>1, <1>4, <1>10, <1>12
<1>13. ASSUME NEW u \in Threads, NEW v \in Threads,
              NEW i \in 1..Len(out'[u]), NEW j \in 1..Len(out'[v]),
              out'[u][i] = out'[v][j], <<u, i>> # <<v, j>>
       PROVE  Twice(seeds', out'[u][i][1])
  <2>1. CASE Fresh(u, i) /\ Fresh(v, j)
    BY <2>1, <1>13 DEF Fresh
  <2>2. CASE Fresh(u, i) /\ ~Fresh(v, j)
    BY <2>2, <1>2, <1>4, <1>9, <1>12, <1>13
  <2>3. CASE ~Fresh(u, i) /\ Fresh(v, j)
    BY <2>3, <1>2, <1>4, <1>9, <1>12, <1>13
  <2>4. CASE ~Fresh(u, i) /\ ~Fresh(v, j)
    <3>1. /\ i \in 1..Len(out[u]) /\ out'[u][i] = out[u][i]
          /\ j \in 1..Len(out[v]) /\ out'[v][j] = out[v][j]
      BY <2>4, <1>9
    <3> QED
      BY <3>1, <1>2, <1>13 DEF Distinct
  <2> QED
    BY <2>1, <2>2, <2>3, <2>4
<1>14. Distinct(out', seeds')
  BY <1>13 DEF Distinct
<1> QED
  BY <1>11, <1>14

(* A stream position is handed out twice only if its seed was given twice, *)
(* for any number of threads and modules and any clock.                    *)
THEOREM PositionsOnce == Spec => []NoReplay
<1>1. Init => SeededBeforeUse /\ StreamInv /\ Distinct(out, seeds)
  BY DEF Init, SeededBeforeUse, StreamInv, Distinct
<1>2. TypeOK /\ TypeOK' /\ DrawsAreSeeded /\ SeededBeforeUse /\ [Next]_vars => SeededBeforeUse'
  BY SeededStep
<1>3. TypeOK /\ SeededBeforeUse /\ StreamInv /\ Distinct(out, seeds) /\ [Next]_vars => StreamInv' /\ Distinct(out, seeds)'
  <2> SUFFICES ASSUME TypeOK, SeededBeforeUse, StreamInv, Distinct(out, seeds), [Next]_vars
               PROVE  StreamInv' /\ Distinct(out, seeds)'
    OBVIOUS
  <2>a. ASSUME UNCHANGED <<gen, out, seeds>> PROVE StreamInv' /\ Distinct(out, seeds)'
    <3>1. StreamInv'
      BY <2>a DEF StreamInv
    <3>2. Distinct(out, seeds)'
      BY <2>a
    <3> QED
      BY <3>1, <3>2
  <2>1. CASE Tick \/ UNCHANGED vars
    BY <2>1, <2>a DEF Tick, vars
  <2>2. ASSUME NEW t \in Threads, NEW m \in Modules, Enter(t, m) PROVE StreamInv' /\ Distinct(out, seeds)'
    BY <2>2, <2>a DEF Enter
  <2>3. ASSUME NEW t \in Threads, TestFlag(t) \/ ReadClock(t) \/ Mark(t) \/ Leave(t)
        PROVE  StreamInv' /\ Distinct(out, seeds)'
    BY <2>3, <2>a DEF TestFlag, ReadClock, Mark, Leave
  <2>4. ASSUME NEW t \in Threads, Seed(t) PROVE StreamInv' /\ Distinct(out, seeds)'
    <3>1. out' = out /\ gen'.seed = sec[t]
      BY <2>4 DEF Seed
    <3>2. StreamInv'
      BY <2>4, <3>1, SeedGiven DEF StreamInv
    <3>3. ASSUME NEW u \in Threads, NEW v \in Threads,
                 NEW i \in 1..Len(out[u]), NEW j \in 1..Len(out[v]),
                 out[u][i] = out[v][j], <<u, i>> # <<v, j>>
          PROVE  Twice(seeds', out[u][i][1])
      BY <2>4, <3>3, SeedGiven DEF Distinct
    <3>4. Distinct(out, seeds)'
      BY <3>1, <3>3 DEF Distinct
    <3> QED
      BY <3>2, <3>4
  <2>5. ASSUME NEW t \in Threads, Draw(t) PROVE StreamInv' /\ Distinct(out, seeds)'
    BY <2>5, DrawKeeps
  <2> QED
    BY <2>1, <2>2, <2>3, <2>4, <2>5 DEF Next
<1> QED
  BY <1>1, <1>2, <1>3, RngTyping, SeededDraws, ReplayIsTwice, PTL DEF Spec
=============================================================================
