------------------------- MODULE AmrSteppingProofs -------------------------
(***************************************************************************)
(* Proofs about the driver of the time steps, for any number of levels,    *)
(* any subcycling, any choice of grids, any number of steps, crashes and   *)
(* spoiled files: the levels are in step whenever data pass between them,  *)
(* and the checkpoint files keep what they promise.                        *)
(***************************************************************************)
EXTENDS AmrStepping, WellFoundedInduction, TLAPS

InStep == {"regrid", "advanced", "post_timestep"}
Saving == {"checkpoint", "ck_write", "ck_check"}
Labels == {"down", "main", "coarse_end", "done", "aborted"} \cup InStep \cup Saving

TypeInputs ==
  /\ pc \in Labels /\ ret \in {"main", "done"}
  /\ job \in Jobs /\ max_level \in Levels /\ n_cycle \in [Levels -> Nat \ {0}]

TypeLevels ==
  /\ finest_level \in 0..max_level /\ grids \in [Levels -> job.grids]
  /\ old_time \in [Levels -> Int] /\ new_time \in [Levels -> Int]
  /\ has_old \in [Levels -> BOOLEAN]
  /\ dt_level \in [Levels -> Nat] /\ level_steps \in [Levels -> Nat]
  /\ level_count \in [Levels -> Int] /\ cumtime \in Nat

TypeStack ==
  /\ which_level_being_advanced \in Levels \cup {-1} /\ cur \in Levels \cup {-1}
  /\ time \in [Levels -> Int] /\ iter \in [Levels -> Nat]
  /\ lev \in Nat /\ lev_top \in Int

TypeFiles ==
  /\ last_checkpoint \in Nat /\ bUserStopRequest \in BOOLEAN /\ tries \in Nat
  /\ disk \subseteq Checkpoints /\ crashes \in Nat /\ write_errors \in Nat
  /\ origin \in Int /\ rescaled \in BOOLEAN

TypeOK == TypeInputs /\ TypeLevels /\ TypeStack /\ TypeFiles

\* The depth of the call stack, and the bounds of the regrid loop, which follow the finest
\* level when a regrid drops levels.
StackOK ==
  /\ IF pc \in InStep THEN cur \in 0..finest_level ELSE cur = -1
  /\ pc = "regrid" => /\ cur <= lev /\ lev <= lev_top + 1
                      /\ lev_top <= finest_level /\ lev_top < max_level

\* Level k has been advanced by the call of timeStep that is active at its depth.
Advanced(k) == k < cur \/ (k = cur /\ pc # "regrid")

\* The ratio of the steps of two levels: what a restart with another n_cycle gives up.
InRatio(steps, dt, n, finest) ==
  \A l \in 1..finest : steps[l] = n[l] * steps[l-1] /\ dt[l-1] = n[l] * dt[l]

\* During a coarse step every level has its share of dt_0.
DtShared ==
  /\ pc # "down" => n_cycle \in Cycles(job)
  /\ pc \in InStep \cup {"coarse_end"} =>
       /\ dt_level[0] \in job.dts
       /\ \A l \in 0..finest_level : dt_level[l] = dt_level[0] \div NFactor(n_cycle)[l]

\* Where the calls on the stack are in the interval of the call below them, what each has
\* done to its level, and where that leaves the levels that are finer than all of them.
FrameTimes ==
  pc \in InStep =>
    /\ time[0] = cumtime
    /\ \A k \in 1..cur : /\ 1 <= iter[k] /\ iter[k] <= n_cycle[k]
                         /\ time[k] = time[k-1] + (iter[k] - 1) * dt_level[k]
    /\ \A k \in 0..cur :
         IF Advanced(k)
         THEN has_old[k] /\ old_time[k] = time[k] /\ new_time[k] = time[k] + dt_level[k]
         ELSE new_time[k] = time[k]
    /\ \A l \in cur+1..finest_level :
         new_time[l] = IF pc = "post_timestep" THEN time[cur] + dt_level[cur] ELSE time[cur]

\* The steps counted on the way through a coarse step.
StepCounts ==
  pc \in InStep /\ ~rescaled =>
    /\ \A k \in 1..cur :
         level_steps[k] = n_cycle[k] * (level_steps[k-1] - 1)
                            + (IF Advanced(k) THEN iter[k] ELSE iter[k] - 1)
    /\ \A l \in cur+1..finest_level :
         level_steps[l] = n_cycle[l] * (IF pc = "advanced" /\ l = cur + 1
                                        THEN level_steps[l-1] - 1 ELSE level_steps[l-1])

\* Between two coarse steps.
Together ==
  pc \notin InStep =>
    /\ \A l \in 0..finest_level :
         new_time[l] = IF pc = "coarse_end" THEN cumtime + dt_level[0] ELSE cumtime
    /\ pc # "down" /\ ~rescaled => InRatio(level_steps, dt_level, n_cycle, finest_level)

\* A level's old data are not later than its new ones.
OldBeforeNew == \A l \in 0..finest_level : old_time[l] <= new_time[l]

\* A checkpoint file holds a state between two coarse steps.
FileOK(c) ==
  /\ c.n_cycle \in Cycles(job) /\ c.finest_level <= c.mx_lev
  /\ \A l \in 0..c.finest_level : c.new_time[l] = c.cumtime /\ c.old_time[l] <= c.new_time[l]
  /\ ~rescaled => InRatio(c.level_steps, c.dt_level, c.n_cycle, c.finest_level)
  /\ write_errors = 0 => c.good

FilesOK == \A c \in disk : FileOK(c)

\* An execution that was restarted counts on from its file, and is past it when it writes.
PastOrigin ==
  /\ pc = "down" => origin = -1
  /\ origin >= 0 =>
       /\ level_steps[0] >= origin /\ last_checkpoint >= origin
       /\ pc \in Saving \cup {"coarse_end"} \/ (pc \in InStep /\ Advanced(0)) =>
            level_steps[0] > origin

\* c is from the last step at which a checkpoint was due, or from a later one.
Recent(c, s) == s - (s % CheckInt) <= c.level_steps[0] /\ c.level_steps[0] <= s

\* Unless a stream error spoiled a file, the last one due is there.
LastKept ==
  CheckInt > 0 /\ write_errors = 0 =>
    /\ pc \in {"main", "ck_check"} \/ (pc = "regrid" /\ cur = 0) =>
         \E c \in disk : Recent(c, level_steps[0])
    /\ pc = "coarse_end" \/ (pc \in InStep /\ Advanced(0)) =>
         /\ level_steps[0] > 0
         /\ \E c \in disk : Recent(c, level_steps[0] - 1)

-----------------------------------------------------------------------------
(* Vectors defined by recursion over the levels.                           *)

LEMMA SmallestOf ==
  ASSUME NEW S, S \subseteq Nat, S # {}
  PROVE  \E n \in S : \A k \in S : n <= k
<1>1. PICK n \in S : \A k \in S : <<k, n>> \notin OpToRel(<, Nat)
  BY WFMin, NatLessThanWellFounded, Zenon
<1>2. n \in Nat /\ \A k \in S : k \in Nat
  OBVIOUS
<1>3. \A k \in S : ~(k < n)
  BY <1>1, <1>2, Zenon DEF OpToRel
<1>4. QED
  BY <1>2, <1>3

LEMMA LevelsType ==
  /\ MaxLevel \in Nat /\ 0 \in Levels /\ Levels \subseteq Nat
  /\ \A l \in Levels : l # 0 => l - 1 \in Levels
BY ConfigAssumption DEF Levels

\* A vector whose entry l is given by l and the entry below it exists: step[<<l, x>>] is
\* entry l after x.
LEMMA VectorExists ==
  ASSUME NEW v \in Nat, NEW step \in [Levels \X Nat -> Nat]
  PROVE  \E f \in [Levels -> Nat] :
           f[0] = v /\ \A l \in Levels : l # 0 => f[l] = step[<<l, f[l-1]>>]
<1> DEFINE Vec(k, f) == f[0] = v /\ \A l \in 0..k : l # 0 => f[l] = step[<<l, f[l-1]>>]
           Bad == {k \in Levels : ~ \E f \in [Levels -> Nat] : Vec(k, f)}
<1>1. ASSUME Bad # {} PROVE FALSE
  <2>1. PICK k \in Bad : \A j \in Bad : k <= j
    BY <1>1, LevelsType, SmallestOf
  <2>2. k \in Levels /\ ~ \E f \in [Levels -> Nat] : Vec(k, f)
    OBVIOUS
  <2>3. CASE k = 0
    <3>1. Vec(0, [l \in Levels |-> v])
      BY LevelsType
    <3>2. QED
      BY <2>2, <2>3, <3>1
  <2>4. CASE k # 0
    <3>1. k - 1 \in Levels /\ k \in Nat /\ k - 1 \in Nat
      BY <2>2, <2>4, LevelsType
    <3>2. k - 1 \notin Bad
      BY <2>1, <3>1
    <3>3. PICK f \in [Levels -> Nat] : Vec(k - 1, f)
      BY <3>1, <3>2
    <3> DEFINE g == [f EXCEPT ![k] = step[<<k, f[k-1]>>]]
    <3>4. g \in [Levels -> Nat]
      BY <2>2, <3>1
    <3>5. g[k] = step[<<k, f[k-1]>>] /\ \A l \in 0..k-1 : g[l] = f[l]
      BY <2>2, <3>1, LevelsType DEF Levels
    <3>6. g[0] = v
      BY <3>1, <3>3, <3>5
    <3>7. ASSUME NEW l \in 0..k, l # 0 PROVE g[l] = step[<<l, g[l-1]>>]
      <4> HIDE DEF g
      <4>1. CASE l = k
        BY <3>1, <3>5, <4>1
      <4>2. CASE l # k
        <5>1. l \in 0..k-1 /\ l - 1 \in 0..k-1
          BY <3>1, <3>7, <4>2
        <5>2. QED
          BY <3>3, <3>5, <3>7, <5>1
      <4>3. QED
        BY <4>1, <4>2
    <3>8. QED
      BY <2>2, <3>4, <3>6, <3>7
  <2>5. QED
    BY <2>3, <2>4
<1>2. MaxLevel \in Levels
  BY LevelsType DEF Levels
<1>3. PICK f \in [Levels -> Nat] : Vec(MaxLevel, f)
  BY <1>1, <1>2
<1>4. QED
  BY <1>3 DEF Levels

\* What holds of level 0 and passes from each level to the next holds of all.
LEMMA NatByLevels ==
  ASSUME NEW f, f[0] \in Nat, \A l \in Levels : l # 0 /\ f[l-1] \in Nat => f[l] \in Nat
  PROVE  \A l \in Levels : f[l] \in Nat
<1> DEFINE Bad == {l \in Levels : f[l] \notin Nat}
<1>1. SUFFICES ASSUME Bad # {} PROVE FALSE
  OBVIOUS
<1>2. PICK k \in Bad : \A j \in Bad : k <= j
  BY <1>1, LevelsType, SmallestOf
<1>3. k # 0 /\ k \in Levels
  OBVIOUS
<1>4. k - 1 \in Levels /\ k \in Nat
  BY <1>3, LevelsType
<1>5. f[k-1] \in Nat
  BY <1>2, <1>4
<1>6. QED
  BY <1>3, <1>5

\* What n_factor is: positive, and a product along the levels.
LEMMA NFactorIs ==
  ASSUME NEW n \in [Levels -> Nat \ {0}]
  PROVE  /\ \A l \in Levels : NFactor(n)[l] \in Nat \ {0}
         /\ NFactor(n)[0] = n[0]
         /\ \A l \in Levels : l # 0 => NFactor(n)[l] = NFactor(n)[l-1] * n[l]
<1> DEFINE Def(f) == f = [l \in Levels |-> IF l = 0 THEN n[0] ELSE f[l-1] * n[l]]
           step == [p \in Levels \X Nat |-> p[2] * n[p[1]]]
           F == NFactor(n)
<1>1. \A l \in Levels : n[l] \in Nat /\ n[l] > 0
  OBVIOUS
<1>2. \A l \in Levels, x \in Nat : x * n[l] \in Nat
  BY <1>1
<1>3. step \in [Levels \X Nat -> Nat] /\ \A l \in Levels, x \in Nat : step[<<l, x>>] = x * n[l]
  BY <1>2
<1>4. PICK f \in [Levels -> Nat] :
        f[0] = n[0] /\ \A l \in Levels : l # 0 => f[l] = step[<<l, f[l-1]>>]
  <2> HIDE DEF step
  <2>1. QED
    BY <1>1, <1>3, LevelsType, VectorExists
<1>5. Def(f)
  <2>1. \A l \in Levels : l # 0 => f[l] = f[l-1] * n[l]
    BY <1>3, <1>4, LevelsType
  <2>2. f = [l \in Levels |-> f[l]]
    OBVIOUS
  <2>3. QED
    BY <1>4, <2>1, <2>2
<1>6. Def(F)
  BY <1>5 DEF NFactor
<1> HIDE DEF F
<1>7. /\ F[0] = n[0]
      /\ \A l \in Levels : l # 0 => F[l] = F[l-1] * n[l]
  BY <1>6, LevelsType
<1>8. \A l \in Levels : F[l] \in Nat \ {0}
  <2> DEFINE Bad == {l \in Levels : F[l] \notin Nat \ {0}}
  <2>1. SUFFICES ASSUME Bad # {} PROVE FALSE
    OBVIOUS
  <2>2. PICK k \in Bad : \A j \in Bad : k <= j
    BY <2>1, LevelsType, SmallestOf
  <2>3. k # 0
    BY <1>1, <1>7, LevelsType
  <2>4. k - 1 \in Levels /\ k \in Nat
    BY <2>3, LevelsType
  <2>5. F[k-1] \in Nat \ {0}
    BY <2>2, <2>4
  <2>6. \A a, b \in Nat \ {0} : a * b \in Nat \ {0}
    OBVIOUS
  <2>7. F[k-1] * n[k] \in Nat \ {0}
    BY <1>1, <2>5, <2>6
  <2>8. QED
    BY <1>7, <2>3, <2>7
<1>9. QED
  BY <1>7, <1>8 DEF F

\* The vectors of a job are typed, start with one and respect SubCycle; those of the inputs
\* files are among them, and so are mixtures.
LEMMA CyclesType ==
  ASSUME NEW j \in Jobs
  PROVE  /\ j.n_cycle \subseteq Cycles(j)
         /\ \A m \in Cycles(j) : /\ m \in [Levels -> Nat \ {0}] /\ m[0] = 1
                                 /\ ~SubCycle => \A l \in Levels : m[l] = 1
         /\ \A m, n \in Cycles(j), k \in Int :
              [l \in Levels |-> IF l <= k THEN m[l] ELSE n[l]] \in Cycles(j)
<1> DEFINE Values == UNION {{n[l] : l \in Levels} : n \in j.n_cycle}
<1>1. \A n \in j.n_cycle : /\ n \in [Levels -> Nat \ {0}] /\ n[0] = 1
                           /\ ~SubCycle => \A l \in Levels : n[l] = 1
  BY JobsAssumption
<1>2. \A n \in j.n_cycle, l \in Levels : n[l] \in Values
  OBVIOUS
<1>3. ASSUME NEW n \in j.n_cycle PROVE n \in Cycles(j)
  <2>1. n = [l \in Levels |-> n[l]]
    BY <1>1
  <2>2. n \in [Levels -> Values]
    BY <1>2, <2>1
  <2>3. QED
    BY <2>2 DEF Cycles
<1>4. ASSUME NEW m \in Cycles(j)
      PROVE  /\ m \in [Levels -> Nat \ {0}] /\ m[0] = 1
             /\ ~SubCycle => \A l \in Levels : m[l] = 1
  <2>1. \A l \in Levels : \E n \in j.n_cycle : m[l] = n[l]
    BY DEF Cycles
  <2>2. m = [l \in Levels |-> m[l]]
    BY DEF Cycles
  <2>3. \A l \in Levels : m[l] \in Nat \ {0}
    BY <1>1, <2>1
  <2>4. QED
    BY <1>1, <2>1, <2>2, <2>3, LevelsType
<1>5. ASSUME NEW m \in Cycles(j), NEW n \in Cycles(j), NEW k \in Int
      PROVE  [l \in Levels |-> IF l <= k THEN m[l] ELSE n[l]] \in Cycles(j)
  BY DEF Cycles
<1>6. QED
  BY <1>3, <1>4, <1>5

LEMMA ExactDiv ==
  ASSUME NEW a \in Nat \ {0}, NEW q \in Nat
  PROVE  (a * q) \div a = q
OBVIOUS

LEMMA DivExact ==
  ASSUME NEW a \in Nat \ {0}, NEW d \in Nat, d % a = 0
  PROVE  d \div a \in Nat /\ d = a * (d \div a)
OBVIOUS

LEMMA DivNat ==
  ASSUME NEW a \in Nat \ {0}, NEW d \in Nat
  PROVE  d \div a \in Nat
OBVIOUS

\* The shares of the levels are in the ratio of the subcycling.
LEMMA SharesInRatio ==
  ASSUME NEW j \in Jobs, NEW m \in Cycles(j), NEW dt \in j.dts
  PROVE  /\ \A l \in Levels : dt \div NFactor(m)[l] \in Nat
         /\ dt \div NFactor(m)[0] = dt
         /\ \A l \in Levels : l # 0 =>
              /\ dt \div NFactor(m)[l-1] = m[l] * (dt \div NFactor(m)[l])
              /\ (dt \div NFactor(m)[l-1]) \div m[l] = dt \div NFactor(m)[l]
<1> DEFINE F == NFactor(m)
<1>1. m \in [Levels -> Nat \ {0}] /\ m[0] = 1
  BY CyclesType
<1>2. /\ \A l \in Levels : F[l] \in Nat \ {0}
      /\ F[0] = 1
      /\ \A l \in Levels : l # 0 => F[l] = F[l-1] * m[l]
  BY <1>1, NFactorIs
<1>3. dt \in Nat /\ \A l \in Levels : dt % (F[l]) = 0
  BY JobsAssumption, DtAssumption
<1> HIDE DEF F
<1>4. \A l \in Levels : dt \div F[l] \in Nat /\ dt = F[l] * (dt \div F[l])
  BY <1>2, <1>3, DivExact
<1>5. ASSUME NEW l \in Levels, l # 0
      PROVE  /\ dt \div F[l-1] = m[l] * (dt \div F[l])
             /\ (dt \div F[l-1]) \div m[l] = dt \div F[l]
  <2>1. l - 1 \in Levels /\ m[l] \in Nat \ {0}
    BY <1>1, <1>5, LevelsType
  <2> DEFINE q == dt \div F[l]
             a == F[l-1]
             c == m[l]
  <2>2. a \in Nat \ {0} /\ c \in Nat \ {0} /\ q \in Nat
    BY <1>2, <1>4, <2>1
  <2>3. dt = (a * c) * q
    BY <1>2, <1>4, <1>5
  <2> HIDE DEF q, a, c
  <2>4. dt = a * (c * q) /\ c * q \in Nat
    BY <2>2, <2>3
  <2>5. dt \div a = c * q /\ (c * q) \div c = q
    BY <2>2, <2>4, ExactDiv
  <2>6. QED
    BY <2>5 DEF q, a, c
<1>6. dt \div F[0] = dt
  BY <1>2, <1>3
<1>7. QED
  BY <1>4, <1>5, <1>6 DEF F

LEMMA ShareDtType ==
  ASSUME NEW dt_0 \in Nat, NEW finest \in Nat, NEW n \in [Levels -> Nat \ {0}],
         NEW old \in [Levels -> Nat]
  PROVE  ShareDt(dt_0, finest, n, old) \in [Levels -> Nat]
BY NFactorIs, DivNat DEF ShareDt

\* The vectors of a restart: the values of the file as far as it goes.
LEMMA ExtendedDtIs ==
  ASSUME NEW c, NEW mx, NEW n \in [Levels -> Nat \ {0}],
         c.mx_lev \in Nat, c.dt_level \in [Levels -> Nat]
  PROVE  /\ ExtendedDt(c, mx, n) \in [Levels -> Nat]
         /\ \A l \in Levels : l <= c.mx_lev => ExtendedDt(c, mx, n)[l] = c.dt_level[l]
<1> DEFINE Kept(l) == l <= c.mx_lev \/ l > mx
           Def(f) == f = [l \in Levels |-> IF Kept(l) THEN c.dt_level[l] ELSE f[l-1] \div n[l]]
           step == [p \in Levels \X Nat |->
                      IF Kept(p[1]) THEN c.dt_level[p[1]] ELSE p[2] \div n[p[1]]]
           F == ExtendedDt(c, mx, n)
<1>1. \A l \in Levels, x \in Nat : x \div n[l] \in Nat
  BY DivNat
<1>2. /\ step \in [Levels \X Nat -> Nat]
      /\ \A l \in Levels, x \in Nat :
           step[<<l, x>>] = IF Kept(l) THEN c.dt_level[l] ELSE x \div n[l]
  BY <1>1
<1>3. Kept(0) /\ c.dt_level[0] \in Nat
  BY LevelsType
<1>4. PICK f \in [Levels -> Nat] :
        f[0] = c.dt_level[0] /\ \A l \in Levels : l # 0 => f[l] = step[<<l, f[l-1]>>]
  <2> HIDE DEF step
  <2>1. QED
    BY <1>2, <1>3, VectorExists
<1>5. Def(f)
  <2> HIDE DEF step
  <2>1. \A l \in Levels : l # 0 =>
          f[l] = IF Kept(l) THEN c.dt_level[l] ELSE f[l-1] \div n[l]
    BY <1>2, <1>4, LevelsType
  <2>2. \A l \in Levels : f[l] = IF Kept(l) THEN c.dt_level[l] ELSE f[l-1] \div n[l]
    BY <1>3, <1>4, <2>1
  <2>3. f = [l \in Levels |-> f[l]]
    OBVIOUS
  <2>4. QED
    BY <2>2, <2>3
<1>6. Def(F)
  BY <1>5 DEF ExtendedDt
<1> HIDE DEF F
<1>7. \A l \in Levels : F[l] = IF Kept(l) THEN c.dt_level[l] ELSE F[l-1] \div n[l]
  BY <1>6
<1>8. \A l \in Levels : F[l] \in Nat
  <2>1. \A l \in Levels : l # 0 /\ F[l-1] \in Nat => F[l] \in Nat
    BY <1>1, <1>7
  <2>2. F[0] \in Nat
    BY <1>3, <1>7, LevelsType
  <2>3. QED
    BY <2>1, <2>2, NatByLevels
<1>9. QED
  BY <1>6, <1>7, <1>8 DEF F

LEMMA ExtendedStepsIs ==
  ASSUME NEW c, NEW mx, NEW n \in [Levels -> Nat \ {0}],
         c.mx_lev \in Nat, c.level_steps \in [Levels -> Nat]
  PROVE  /\ ExtendedSteps(c, mx, n) \in [Levels -> Nat]
         /\ \A l \in Levels : l <= c.mx_lev =>
              ExtendedSteps(c, mx, n)[l] = c.level_steps[l]
<1> DEFINE Kept(l) == l <= c.mx_lev \/ l > mx
           Def(f) == f = [l \in Levels |-> IF Kept(l) THEN c.level_steps[l] ELSE n[l] * f[l-1]]
           step == [p \in Levels \X Nat |->
                      IF Kept(p[1]) THEN c.level_steps[p[1]] ELSE n[p[1]] * p[2]]
           F == ExtendedSteps(c, mx, n)
<1>1. \A l \in Levels, x \in Nat : n[l] * x \in Nat
  OBVIOUS
<1>2. /\ step \in [Levels \X Nat -> Nat]
      /\ \A l \in Levels, x \in Nat :
           step[<<l, x>>] = IF Kept(l) THEN c.level_steps[l] ELSE n[l] * x
  BY <1>1
<1>3. Kept(0) /\ c.level_steps[0] \in Nat
  BY LevelsType
<1>4. PICK f \in [Levels -> Nat] :
        f[0] = c.level_steps[0] /\ \A l \in Levels : l # 0 => f[l] = step[<<l, f[l-1]>>]
  <2> HIDE DEF step
  <2>1. QED
    BY <1>2, <1>3, VectorExists
<1>5. Def(f)
  <2> HIDE DEF step
  <2>1. \A l \in Levels : l # 0 =>
          f[l] = IF Kept(l) THEN c.level_steps[l] ELSE n[l] * f[l-1]
    BY <1>2, <1>4, LevelsType
  <2>2. \A l \in Levels : f[l] = IF Kept(l) THEN c.level_steps[l] ELSE n[l] * f[l-1]
    BY <1>3, <1>4, <2>1
  <2>3. f = [l \in Levels |-> f[l]]
    OBVIOUS
  <2>4. QED
    BY <2>2, <2>3
<1>6. Def(F)
  BY <1>5 DEF ExtendedSteps
<1> HIDE DEF F
<1>7. \A l \in Levels : F[l] = IF Kept(l) THEN c.level_steps[l] ELSE n[l] * F[l-1]
  BY <1>6
<1>8. \A l \in Levels : F[l] \in Nat
  <2>1. \A l \in Levels : l # 0 /\ F[l-1] \in Nat => F[l] \in Nat
    BY <1>1, <1>7
  <2>2. F[0] \in Nat
    BY <1>3, <1>7, LevelsType
  <2>3. QED
    BY <2>1, <2>2, NatByLevels
<1>9. QED
  BY <1>6, <1>7, <1>8 DEF F

-----------------------------------------------------------------------------
(* Typing.                                                                 *)

LEMMA JobIs ==
  ASSUME NEW j \in Jobs
  PROVE  /\ j.max_level \subseteq Levels /\ j.n_cycle \subseteq [Levels -> Nat \ {0}]
         /\ j.dts \subseteq Nat /\ (CHOOSE g \in j.grids : TRUE) \in j.grids
         /\ j.crashes \in Nat /\ j.write_errors \in Nat /\ j.max_step \in Nat
<1>1. j.grids # {}
  BY JobsAssumption
<1>2. \E g \in j.grids : TRUE
  BY <1>1
<1>3. (CHOOSE g \in j.grids : TRUE) \in j.grids
  BY <1>2, Zenon
<1>4. QED
  BY <1>3, JobsAssumption

LEMMA CheckpointsSame ==
  ASSUME job' = job PROVE Checkpoints' = Checkpoints
BY DEF Checkpoints

LEMMA FinestIn ==
  ASSUME TypeOK
  PROVE  /\ finest_level \in Levels /\ max_level \in Levels
         /\ 0..finest_level \subseteq Levels /\ finest_level <= max_level /\ max_level <= MaxLevel
BY LevelsType DEF TypeOK, TypeInputs, TypeLevels, Levels

\* What EnterTimeStep does keeps the types.
LEMMA EnterTimeStepType ==
  ASSUME TypeOK, NEW l \in Levels, NEW t \in Int, NEW i \in Nat, EnterTimeStep(l, t, i)
  PROVE  pc' = "regrid" /\ TypeStack'
<1>1. Least(finest_level, max_level - 1) \in Int /\ l \in Nat
  <2>1. finest_level \in Nat /\ max_level \in Nat /\ l \in Nat
    BY LevelsType, FinestIn
  <2>2. QED
    BY <2>1 DEF Least
<1>2. /\ cur' = l /\ which_level_being_advanced' = l /\ lev' = l
      /\ time' = [time EXCEPT ![l] = t] /\ iter' = [iter EXCEPT ![l] = i]
      /\ lev_top' = Least(finest_level, max_level - 1) /\ pc' = "regrid"
  BY DEF EnterTimeStep
<1>3. time' \in [Levels -> Int] /\ iter' \in [Levels -> Nat]
  BY <1>2 DEF TypeOK, TypeStack
<1>4. QED
  BY <1>1, <1>2, <1>3 DEF TypeStack

LEMMA TypeInit == Init => TypeOK
<1> SUFFICES ASSUME Init PROVE TypeOK
  OBVIOUS
<1>1. TypeInputs
  BY LevelsType DEF Init, Down, TypeInputs, Labels
<1>2. TypeLevels
  BY <1>1, LevelsType, JobIs, ConfigAssumption DEF Init, Down, TypeInputs, TypeLevels
<1>3. TypeStack
  BY LevelsType DEF Init, Down, TypeStack
<1>4. bUserStopRequest \in BOOLEAN /\ rescaled \in BOOLEAN /\ disk \subseteq Checkpoints
  BY Zenon DEF Init, Down
<1>5. TypeFiles
  BY <1>4 DEF Init, Down, TypeFiles
<1>6. QED
  BY <1>1, <1>2, <1>3, <1>5 DEF TypeOK

LEMMA TypeInitialInit == TypeOK /\ InitialInit => TypeOK'
<1> SUFFICES ASSUME TypeOK, InitialInit PROVE TypeOK'
  OBVIOUS
<1>1. PICK mx \in job.max_level, n \in job.n_cycle, dt_0 \in job.dts :
      \E f \in 0..mx, g \in [0..mx -> job.grids] :
         /\ max_level' = mx /\ n_cycle' = n
         /\ finest_level' = f
         /\ grids' = [l \in Levels |-> IF l <= f THEN g[l] ELSE grids[l]]
         /\ dt_level' = ShareDt(dt_0, f, n, dt_level)
         /\ old_time' = [l \in Levels |-> IF l <= f THEN 0 - dt_level'[l] ELSE 0]
  BY DEF InitialInit
<1>2. PICK f \in 0..mx, g \in [0..mx -> job.grids] :
         /\ max_level' = mx /\ n_cycle' = n
         /\ finest_level' = f
         /\ grids' = [l \in Levels |-> IF l <= f THEN g[l] ELSE grids[l]]
         /\ dt_level' = ShareDt(dt_0, f, n, dt_level)
         /\ old_time' = [l \in Levels |-> IF l <= f THEN 0 - dt_level'[l] ELSE 0]
  BY <1>1
<1>3. mx \in Levels /\ n \in [Levels -> Nat \ {0}] /\ dt_0 \in Nat
  BY JobIs DEF TypeOK, TypeInputs
<1>4. f \in Nat
  OBVIOUS
<1>5. dt_level' \in [Levels -> Nat]
  BY <1>2, <1>3, <1>4, ShareDtType DEF TypeOK, TypeLevels
<1>6. old_time' \in [Levels -> Int]
  BY <1>2, <1>5
<1>7. grids' \in [Levels -> job.grids]
  BY <1>2, <1>3, <1>4, LevelsType DEF TypeOK, TypeLevels, Levels
<1>8. TypeInputs'
  BY <1>2, <1>3 DEF InitialInit, TypeOK, TypeInputs, Labels, Saving
<1>9. TypeLevels'
  BY <1>2, <1>5, <1>6, <1>7 DEF InitialInit, TypeOK, TypeLevels
<1>10. TypeStack'
  BY DEF InitialInit, TypeOK, TypeStack, frames, loop
<1>11. TypeFiles'
  BY CheckpointsSame DEF InitialInit, TypeOK, TypeFiles
<1>12. QED
  BY <1>8, <1>9, <1>10, <1>11 DEF TypeOK

\* What a file of the right type gives a restart.
LEMMA FileIs ==
  ASSUME NEW c \in Checkpoints
  PROVE  /\ c.cumtime \in Nat /\ c.mx_lev \in Levels /\ c.finest_level \in Levels
         /\ c.n_cycle \in [Levels -> Nat] /\ c.dt_level \in [Levels -> Nat]
         /\ c.level_steps \in [Levels -> Nat] /\ c.level_count \in [Levels -> Int]
         /\ c.grids \in [Levels -> job.grids] /\ c.old_time \in [Levels -> Int]
         /\ c.new_time \in [Levels -> Int] /\ c.has_old \in [Levels -> BOOLEAN]
BY DEF Checkpoints

\* The choices of a restart, and what it sets.
RestartFrom(c, mx, n) ==
  /\ c.good
  /\ RestartLevels(c, mx, n)
  /\ finest_level' = RestartFinest(c, mx)
  /\ RestartCounts(c, mx)
  /\ max_level' = mx
  /\ grids' = [l \in Levels |-> IF l <= finest_level' THEN c.grids[l] ELSE grids[l]]
  /\ old_time' = [l \in Levels |-> IF l <= finest_level' THEN c.old_time[l] ELSE 0]
  /\ new_time' = [l \in Levels |-> IF l <= finest_level' THEN c.new_time[l] ELSE 0]
  /\ has_old' = [l \in Levels |-> l <= finest_level' /\ c.has_old[l]]
  /\ cumtime' = c.cumtime
  /\ origin' = c.level_steps[0]

LEMMA RestartVectors ==
  ASSUME TypeOK, FilesOK, NEW c \in disk, NEW mx \in job.max_level, NEW n \in job.n_cycle,
         RestartFrom(c, mx, n)
  PROVE  /\ n_cycle' \in Cycles(job)
         /\ dt_level' \in [Levels -> Nat] /\ level_steps' \in [Levels -> Nat]
         /\ level_steps'[0] = c.level_steps[0]
         /\ finest_level' \in 0..mx /\ finest_level' <= c.finest_level
         /\ rescaled' \in BOOLEAN /\ (~rescaled' => ~rescaled)
         /\ \A l \in 0..finest_level' : /\ dt_level'[l] = c.dt_level[l]
                                        /\ level_steps'[l] = c.level_steps[l]
                                        /\ ~rescaled' => n_cycle'[l] = c.n_cycle[l]
<1>1. /\ c \in Checkpoints /\ job \in Jobs /\ rescaled \in BOOLEAN
      /\ dt_level \in [Levels -> Nat]
  BY DEF TypeOK, TypeInputs, TypeLevels, TypeFiles
<1>2. /\ c.mx_lev \in Levels /\ c.finest_level \in Levels
      /\ c.dt_level \in [Levels -> Nat] /\ c.level_steps \in [Levels -> Nat]
      /\ c.n_cycle \in Cycles(job) /\ c.finest_level <= c.mx_lev
  BY <1>1, FileIs DEF FilesOK, FileOK
<1>3. mx \in Levels /\ n \in [Levels -> Nat \ {0}] /\ n \in Cycles(job)
  BY <1>1, JobIs, CyclesType
<1>4. /\ mx \in Nat /\ c.mx_lev \in Nat /\ c.finest_level \in Nat /\ 0 \in Levels
      /\ mx <= MaxLevel /\ c.mx_lev <= MaxLevel /\ MaxLevel \in Nat
  BY <1>2, <1>3, LevelsType DEF Levels
<1>5. finest_level' = RestartFinest(c, mx)
  BY DEF RestartFrom
<1>6. CASE mx >= c.mx_lev
  <2>1. /\ n_cycle' = n /\ dt_level' = ExtendedDt(c, mx, n)
        /\ level_steps' = ExtendedSteps(c, mx, n)
        /\ rescaled' = (rescaled \/ \E l \in 0..c.mx_lev : n[l] # c.n_cycle[l])
    BY <1>6 DEF RestartFrom, RestartLevels
  <2>2. finest_level' = c.finest_level
    BY <1>5, <1>6 DEF RestartFinest
  <2>3. /\ dt_level' \in [Levels -> Nat]
        /\ \A l \in Levels : l <= c.mx_lev => dt_level'[l] = c.dt_level[l]
    BY <1>2, <1>3, <1>4, <2>1, ExtendedDtIs
  <2>4. /\ level_steps' \in [Levels -> Nat]
        /\ \A l \in Levels : l <= c.mx_lev => level_steps'[l] = c.level_steps[l]
    BY <1>2, <1>3, <1>4, <2>1, ExtendedStepsIs
  <2>5. rescaled' \in BOOLEAN
    BY <1>1, <2>1, Zenon
  <2>6. ~rescaled' => ~rescaled /\ \A l \in 0..c.mx_lev : n[l] = c.n_cycle[l]
    BY <2>1, Zenon
  <2>7. \A l \in 0..finest_level' : l \in Levels /\ l <= c.mx_lev /\ l \in 0..c.mx_lev
    BY <1>2, <1>4, <2>2 DEF Levels
  <2>8. level_steps'[0] = c.level_steps[0]
    BY <1>4, <2>4
  <2>9. finest_level' \in 0..mx /\ finest_level' <= c.finest_level
    BY <1>2, <1>4, <1>6, <2>2
  <2>10. QED
    BY <1>3, <2>1, <2>3, <2>4, <2>5, <2>6, <2>7, <2>8, <2>9
<1>7. CASE ~(mx >= c.mx_lev)
  <2>1. /\ n_cycle' = [l \in Levels |-> IF l <= mx THEN c.n_cycle[l] ELSE n[l]]
        /\ dt_level' = [l \in Levels |-> IF l <= mx THEN c.dt_level[l] ELSE dt_level[l]]
        /\ level_steps' = [l \in Levels |-> IF l <= mx THEN c.level_steps[l] ELSE 0]
        /\ rescaled' = rescaled
    BY <1>7 DEF RestartFrom, RestartLevels
  <2>2. finest_level' = Least(mx, c.finest_level)
    BY <1>5, <1>7 DEF RestartFinest
  <2>3. n_cycle' \in Cycles(job)
    <3>1. mx \in Int
      BY <1>4
    <3>2. \A m, q \in Cycles(job), k \in Int :
            [l \in Levels |-> IF l <= k THEN m[l] ELSE q[l]] \in Cycles(job)
      BY <1>1, CyclesType
    <3>3. [l \in Levels |-> IF l <= mx THEN c.n_cycle[l] ELSE n[l]] \in Cycles(job)
      BY <1>2, <1>3, <3>1, <3>2
    <3>4. QED
      BY <2>1, <3>3
  <2>4. dt_level' \in [Levels -> Nat] /\ level_steps' \in [Levels -> Nat]
    BY <1>1, <1>2, <2>1
  <2>5. finest_level' \in 0..mx /\ finest_level' <= c.finest_level
    BY <1>4, <2>2 DEF Least
  <2>6. level_steps'[0] = c.level_steps[0]
    BY <1>4, <2>1
  <2>7. \A l \in 0..finest_level' : l \in Levels /\ l <= mx
    BY <1>3, <1>4, <2>5 DEF Levels
  <2>8. \A l \in 0..finest_level' : /\ dt_level'[l] = c.dt_level[l]
                                    /\ level_steps'[l] = c.level_steps[l]
                                    /\ n_cycle'[l] = c.n_cycle[l]
    BY <2>1, <2>7
  <2>9. rescaled' \in BOOLEAN /\ (~rescaled' => ~rescaled)
    BY <1>1, <2>1
  <2>10. QED
    BY <2>3, <2>4, <2>5, <2>6, <2>8, <2>9
<1>8. QED
  BY <1>6, <1>7

LEMMA TypeRestart == TypeOK /\ FilesOK /\ Restart => TypeOK'
<1> SUFFICES ASSUME TypeOK, FilesOK, Restart PROVE TypeOK'
  OBVIOUS
<1>1. PICK c \in disk, mx \in job.max_level, n \in job.n_cycle : RestartFrom(c, mx, n)
  BY DEF Restart, RestartFrom
<1>2. /\ n_cycle' \in Cycles(job) /\ dt_level' \in [Levels -> Nat]
      /\ level_steps' \in [Levels -> Nat]
      /\ finest_level' \in 0..mx /\ rescaled' \in BOOLEAN
  BY <1>1, RestartVectors
<1>3. job \in Jobs /\ c \in Checkpoints /\ mx \in Levels /\ grids \in [Levels -> job.grids]
  BY JobIs DEF TypeOK, TypeInputs, TypeFiles, TypeLevels
<1>4. n_cycle' \in [Levels -> Nat \ {0}]
  BY <1>2, <1>3, CyclesType
<1>5. /\ pc' = "main" /\ ret' = ret /\ job' = job /\ which_level_being_advanced' = -1
      /\ last_checkpoint' = level_steps'[0] /\ max_level' = mx
      /\ UNCHANGED <<frames, loop, tries, disk, write_errors, bUserStopRequest, crashes>>
  BY <1>1 DEF Restart, RestartedAt, RestartFrom
<1>6. TypeInputs'
  BY <1>3, <1>4, <1>5 DEF TypeOK, TypeInputs, Labels
<1>7. TypeLevels'
  <2>1. /\ grids' = [l \in Levels |-> IF l <= finest_level' THEN c.grids[l] ELSE grids[l]]
        /\ old_time' = [l \in Levels |-> IF l <= finest_level' THEN c.old_time[l] ELSE 0]
        /\ new_time' = [l \in Levels |-> IF l <= finest_level' THEN c.new_time[l] ELSE 0]
        /\ has_old' = [l \in Levels |-> l <= finest_level' /\ c.has_old[l]]
        /\ cumtime' = c.cumtime
    BY <1>1 DEF RestartFrom
  <2>2. level_count' \in [Levels -> Int]
    <3>1. \A l \in Levels : l = 0 /\ RegridOnRestart => RegridInt[0] \in Int
      BY ConfigAssumption
    <3>2. QED
      BY <1>1, <1>3, <3>1, FileIs, LevelsType DEF RestartFrom, RestartCounts
  <2>3. /\ grids' \in [Levels -> job.grids] /\ old_time' \in [Levels -> Int]
        /\ new_time' \in [Levels -> Int] /\ cumtime' \in Nat
    BY <1>3, <2>1, FileIs
  <2>4. has_old' \in [Levels -> BOOLEAN]
    BY <2>1
  <2>5. QED
    BY <1>2, <1>5, <2>2, <2>3, <2>4 DEF TypeLevels
<1>8. TypeStack'
  BY <1>5 DEF TypeOK, TypeStack, frames, loop
<1>9. TypeFiles'
  <2>1. last_checkpoint' \in Nat
    BY <1>2, <1>5, LevelsType
  <2>2. origin' \in Int
    BY <1>1, <1>3, FileIs, LevelsType DEF RestartFrom
  <2>3. QED
    BY <1>2, <1>5, <2>1, <2>2, CheckpointsSame DEF TypeOK, TypeFiles
<1>10. QED
  BY <1>6, <1>7, <1>8, <1>9 DEF TypeOK

-----------------------------------------------------------------------------
(* Regridding.                                                             *)

\* The choices of a turn of the regrid loop, and what it sets.
RegridWith(nf, ng, dt_0) ==
  LET dt == IF ComputeNewDtOnRegrid /\ lev = 0
            THEN ShareDt(dt_0, finest_level', n_cycle, dt_level) ELSE dt_level
  IN /\ nf \in NewFinest(lev) /\ ng \in [Levels -> job.grids]
     /\ Regrid(lev, nf, ng)
     /\ IF ComputeNewDtOnRegrid /\ lev = 0 THEN dt_0 \in job.dts \cup {dt_level[0]}
                                           ELSE dt_0 = dt_level[0]
     /\ dt_level' = [l \in Levels |-> IF finest_level < l /\ l <= finest_level'
                                      THEN dt[l-1] \div n_cycle[l] ELSE dt[l]]
     /\ level_count' = [l \in Levels |->
                          IF lev <= l /\ l <= finest_level' THEN 0 ELSE level_count[l]]
     /\ lev_top' = IF finest_level > finest_level'
                   THEN Least(finest_level', max_level - 1) ELSE lev_top

LEMMA RegridLevelIs ==
  ASSUME RegridLevel
  PROVE  /\ pc = "regrid" /\ lev <= lev_top /\ lev' = lev + 1
         /\ \E nf, ng, dt_0 : RegridWith(nf, ng, dt_0)
         /\ UNCHANGED <<pc, inputs, cumtime, which_level_being_advanced, frames, files,
                        control, rescaled>>
<1>1. PICK nf \in NewFinest(lev), ng \in [Levels -> job.grids],
           dt_0 \in job.dts \cup {dt_level[0]} :
         /\ Regrid(lev, nf, ng)
         /\ IF ComputeNewDtOnRegrid /\ lev = 0 THEN dt_0 <= dt_level[0] ELSE dt_0 = dt_level[0]
         /\ LET dt == IF ComputeNewDtOnRegrid /\ lev = 0
                      THEN ShareDt(dt_0, finest_level', n_cycle, dt_level) ELSE dt_level
            IN dt_level' = [l \in Levels |->
                              IF finest_level < l /\ l <= finest_level'
                              THEN dt[l-1] \div n_cycle[l] ELSE dt[l]]
         /\ level_count' = [l \in Levels |->
                              IF lev <= l /\ l <= finest_level' THEN 0 ELSE level_count[l]]
         /\ lev_top' = IF finest_level > finest_level'
                       THEN Least(finest_level', max_level - 1) ELSE lev_top
  BY DEF RegridLevel
<1>2. RegridWith(nf, ng, dt_0)
  BY <1>1 DEF RegridWith
<1>3. QED
  BY <1>2 DEF RegridLevel, NextLev

\* Where the loop is when it regrids.
LEMMA RegridBounds ==
  ASSUME TypeOK, StackOK, pc = "regrid", lev <= lev_top
  PROVE  /\ lev \in Levels /\ lev <= finest_level /\ lev < max_level
         /\ cur \in Nat /\ cur \in Levels /\ cur <= lev /\ lev_top <= finest_level
         /\ lev_top < max_level /\ lev_top \in Nat
         /\ finest_level \in Nat /\ max_level \in Nat
<1>1. /\ finest_level \in Nat /\ max_level \in Nat /\ max_level <= MaxLevel /\ MaxLevel \in Nat
      /\ finest_level <= max_level
  BY FinestIn, LevelsType
<1>2. lev \in Nat /\ lev_top \in Int
  BY DEF TypeOK, TypeStack
<1>3. cur \in 0..finest_level /\ cur <= lev /\ lev_top <= finest_level /\ lev_top < max_level
  BY DEF StackOK, InStep
<1>4. QED
  BY <1>1, <1>2, <1>3 DEF Levels

\* Levels that existed keep their times and steps; a new one takes those of the finest level.
LEMMA RegridTimes ==
  ASSUME TypeOK, StackOK, pc = "regrid", lev <= lev_top,
         NEW nf \in NewFinest(lev), NEW ng \in [Levels -> job.grids], Regrid(lev, nf, ng)
  PROVE  /\ finest_level' \in Nat /\ lev <= finest_level'
         /\ finest_level' <= finest_level + 1 /\ finest_level' <= max_level
         /\ grids' \in [Levels -> job.grids] /\ has_old' \in [Levels -> BOOLEAN]
         /\ new_time' \in [Levels -> Int] /\ old_time' \in [Levels -> Int]
         /\ level_steps' \in [Levels -> Nat]
         /\ \A l \in 0..finest_level' : l <= finest_level =>
              /\ new_time'[l] = new_time[l] /\ old_time'[l] = old_time[l]
              /\ level_steps'[l] = level_steps[l]
         /\ \A l \in 0..finest_level' : l > finest_level =>
              /\ l = finest_level + 1 /\ l \in Levels
              /\ new_time'[l] = new_time[l-1]
              /\ old_time[l-1] <= new_time[l-1] => old_time'[l] <= new_time'[l]
              /\ level_steps'[l] = n_cycle[l] * level_steps[l-1]
         /\ \A l \in 0..cur - 1 : has_old'[l] = has_old[l]
<1>1. /\ lev \in Levels /\ lev <= finest_level /\ lev < max_level
      /\ cur \in Nat /\ cur <= lev /\ finest_level \in Nat /\ max_level \in Nat
      /\ lev \in Nat /\ max_level <= MaxLevel /\ MaxLevel \in Nat /\ finest_level <= max_level
  BY RegridBounds, FinestIn, LevelsType
<1>2. /\ nf \in Nat /\ lev <= nf /\ nf <= finest_level + 1 /\ nf <= max_level
  BY <1>1 DEF NewFinest, Least
<1>3. /\ grids \in [Levels -> job.grids] /\ has_old \in [Levels -> BOOLEAN]
      /\ new_time \in [Levels -> Int] /\ old_time \in [Levels -> Int]
      /\ level_steps \in [Levels -> Nat] /\ n_cycle \in [Levels -> Nat \ {0}]
  BY DEF TypeOK, TypeLevels, TypeInputs
<1>4. CASE UNCHANGED <<hierarchy, state, level_steps>>
  <2>1. /\ finest_level' = finest_level /\ grids' = grids /\ has_old' = has_old
        /\ new_time' = new_time /\ old_time' = old_time /\ level_steps' = level_steps
    BY <1>4 DEF hierarchy, state
  <2>2. QED
    BY <1>1, <1>3, <2>1
<1>5. CASE ~UNCHANGED <<hierarchy, state, level_steps>>
  <2> DEFINE rz       == lev = 0 /\ (job.loadbalance \/ ng[0] # grids[0])
             start    == IF rz THEN 0 ELSE lev + 1
             new(l)   == l = finest_level + 1 /\ l <= nf
             built(l) == l \in start..nf
  <2>1. /\ finest_level' = nf
        /\ grids' = [l \in Levels |-> IF built(l) THEN ng[l] ELSE grids[l]]
        /\ has_old' = [l \in Levels |-> l <= nf /\ ~built(l) /\ has_old[l]]
        /\ new_time' = [l \in Levels |->
             IF new(l) THEN new_time[l-1] ELSE IF l > nf THEN 0 ELSE new_time[l]]
        /\ old_time' = [l \in Levels |->
             IF new(l) THEN new_time[l-1] - (new_time[l-1] - old_time[l-1]) \div RefRatio
             ELSE IF l > nf THEN 0 ELSE old_time[l]]
        /\ level_steps' = [l \in Levels |->
             IF new(l) THEN NewLevelSteps(l) ELSE level_steps[l]]
    BY <1>5 DEF Regrid
  <2>2. start \in Nat /\ \A l \in 0..cur - 1 : l \in Levels /\ l <= nf /\ ~built(l)
    BY <1>1, <1>2 DEF Levels
  <2>3. \A l \in 0..cur - 1 : has_old'[l] = has_old[l]
    BY <1>3, <2>1, <2>2
  <2>4. grids' \in [Levels -> job.grids]
    BY <1>3, <2>1
  <2>5. has_old' \in [Levels -> BOOLEAN]
    BY <2>1
  <2> HIDE DEF built, rz, start
  <2>6. \A l \in Levels : new(l) => l - 1 \in Levels /\ l \in Nat /\ l - 1 = finest_level
    BY <1>1, <1>2 DEF Levels
  <2>7. \A l \in 0..nf : l \in Levels /\ (l <= finest_level => ~new(l))
                         /\ (l > finest_level => new(l)) /\ ~(l > nf) /\ l \in Nat
    BY <1>1, <1>2 DEF Levels
  <2>8. \A a, b \in Int : a - (a - b) \div RefRatio \in Int
                          /\ (b <= a => a - ((a - b) \div RefRatio) <= a)
    BY ConfigAssumption
  <2>9. \A l \in Levels : new(l) => NewLevelSteps(l) = n_cycle[l] * level_steps[l-1]
                                    /\ NewLevelSteps(l) \in Nat
    BY <1>3, <2>6 DEF NewLevelSteps
  <2>10. new_time' \in [Levels -> Int]
    BY <1>3, <2>1, <2>6
  <2>11. \A l \in Levels : new(l) => new_time[l-1] \in Int /\ old_time[l-1] \in Int
    BY <1>3, <2>6
  <2>12. old_time' \in [Levels -> Int]
    BY <1>3, <2>1, <2>8, <2>11
  <2>13. level_steps' \in [Levels -> Nat]
    BY <1>3, <2>1, <2>9
  <2>14. \A l \in 0..nf : l <= finest_level =>
           /\ new_time'[l] = new_time[l] /\ old_time'[l] = old_time[l]
           /\ level_steps'[l] = level_steps[l]
    BY <2>1, <2>7
  <2>15. ASSUME NEW l \in 0..nf, l > finest_level
         PROVE  /\ l = finest_level + 1 /\ l \in Levels
                /\ new_time'[l] = new_time[l-1]
                /\ old_time[l-1] <= new_time[l-1] => old_time'[l] <= new_time'[l]
                /\ level_steps'[l] = n_cycle[l] * level_steps[l-1]
    <3>1. new(l) /\ l \in Levels
      BY <2>7, <2>15
    <3>2. /\ new_time'[l] = new_time[l-1]
          /\ old_time'[l] = new_time[l-1] - (new_time[l-1] - old_time[l-1]) \div RefRatio
          /\ level_steps'[l] = NewLevelSteps(l)
      BY <2>1, <3>1
    <3>3. QED
      BY <2>8, <2>9, <2>11, <3>1, <3>2
  <2>16. QED
    BY <1>2, <2>1, <2>3, <2>4, <2>5, <2>10, <2>12, <2>13, <2>14, <2>15
<1>6. QED
  BY <1>4, <1>5

\* After a regrid the levels that exist have their shares of a time step of the job; only a
\* regrid of level 0 changes the steps of levels that existed.
LEMMA RegridDt ==
  ASSUME TypeOK, StackOK, DtShared, pc = "regrid", lev <= lev_top,
         NEW nf, NEW ng, NEW dt_0, RegridWith(nf, ng, dt_0)
  PROVE  /\ dt_level' \in [Levels -> Nat] /\ dt_level'[0] \in job.dts
         /\ \A l \in 0..finest_level' : dt_level'[l] = dt_level'[0] \div NFactor(n_cycle)[l]
         /\ lev > 0 => \A l \in 0..finest_level : dt_level'[l] = dt_level[l]
<1> DEFINE dt == IF ComputeNewDtOnRegrid /\ lev = 0
                 THEN ShareDt(dt_0, finest_level', n_cycle, dt_level) ELSE dt_level
           d == IF ComputeNewDtOnRegrid /\ lev = 0 THEN dt_0 ELSE dt_level[0]
           N == NFactor(n_cycle)
<1>1. /\ nf \in NewFinest(lev) /\ ng \in [Levels -> job.grids] /\ Regrid(lev, nf, ng)
      /\ dt_0 \in job.dts \cup {dt_level[0]}
      /\ dt_level' = [l \in Levels |-> IF finest_level < l /\ l <= finest_level'
                                       THEN dt[l-1] \div n_cycle[l] ELSE dt[l]]
  <2>1. (IF ComputeNewDtOnRegrid /\ lev = 0 THEN dt_0 \in job.dts \cup {dt_level[0]}
                                           ELSE dt_0 = dt_level[0])
    BY DEF RegridWith
  <2>2. dt_0 \in job.dts \cup {dt_level[0]}
    BY <2>1
  <2>3. QED
    BY <2>2 DEF RegridWith
<1>2. /\ finest_level' \in Nat /\ finest_level' <= finest_level + 1 /\ finest_level' <= max_level
      /\ finest_level \in Nat /\ max_level \in Nat /\ max_level <= MaxLevel /\ MaxLevel \in Nat
      /\ finest_level <= max_level
  BY <1>1, RegridTimes, FinestIn, LevelsType
<1>3. /\ job \in Jobs /\ n_cycle \in Cycles(job) /\ n_cycle \in [Levels -> Nat \ {0}]
      /\ dt_level \in [Levels -> Nat] /\ dt_level[0] \in job.dts
      /\ \A l \in 0..finest_level : dt_level[l] = dt_level[0] \div N[l]
  BY DEF TypeOK, TypeInputs, TypeLevels, DtShared, InStep
<1>4. dt_0 \in job.dts /\ d \in job.dts
  BY <1>1, <1>3
<1>5. dt_0 \in Nat
  BY <1>3, <1>4, JobIs
<1>6. /\ \A l \in Levels : d \div N[l] \in Nat
      /\ d \div N[0] = d
      /\ \A l \in Levels : l # 0 => (d \div N[l-1]) \div n_cycle[l] = d \div N[l]
  BY <1>3, <1>4, SharesInRatio
<1>7. dt \in [Levels -> Nat]
  BY <1>2, <1>3, <1>5, ShareDtType
<1>8. ASSUME NEW l \in 0..finest_level, l <= finest_level' PROVE dt[l] = d \div N[l]
  <2>1. l \in Levels
    BY <1>2 DEF Levels
  <2>2. CASE ComputeNewDtOnRegrid /\ lev = 0
    BY <1>8, <2>1, <2>2 DEF ShareDt
  <2>3. CASE ~(ComputeNewDtOnRegrid /\ lev = 0)
    BY <1>3, <2>3
  <2>4. QED
    BY <2>2, <2>3
<1>9. lev > 0 => dt = dt_level
  OBVIOUS
<1> HIDE DEF dt, d, N
<1>10. \A l \in Levels : finest_level < l /\ l <= finest_level' =>
         l # 0 /\ l - 1 \in Levels /\ l - 1 \in 0..finest_level /\ l - 1 <= finest_level'
  BY <1>2 DEF Levels
<1>11. \A l \in Levels : finest_level < l /\ l <= finest_level' => dt[l-1] \div n_cycle[l] \in Nat
  BY <1>3, <1>7, <1>10, DivNat
<1>12. dt_level' \in [Levels -> Nat]
  BY <1>1, <1>7, <1>11
<1>13. ASSUME NEW l \in 0..finest_level' PROVE dt_level'[l] = d \div N[l]
  <2>1. l \in Levels /\ l \in Nat /\ l <= finest_level'
    BY <1>2 DEF Levels
  <2>2. CASE l <= finest_level
    <3>1. l \in 0..finest_level /\ ~(finest_level < l)
      BY <1>2, <2>1, <2>2
    <3>2. QED
      BY <1>1, <1>8, <2>1, <3>1
  <2>3. CASE finest_level < l
    <3>1. dt_level'[l] = dt[l-1] \div n_cycle[l]
      BY <1>1, <2>1, <2>3
    <3>2. dt[l-1] = d \div N[l-1] /\ l # 0
      BY <1>8, <1>10, <2>1, <2>3
    <3>3. QED
      BY <1>6, <2>1, <3>1, <3>2
  <2>4. QED
    BY <1>2, <2>1, <2>2, <2>3
<1>14. dt_level'[0] = d
  BY <1>2, <1>6, <1>13
<1>15. lev > 0 => \A l \in 0..finest_level : dt_level'[l] = dt_level[l]
  <2>1. \A l \in 0..finest_level : l \in Levels /\ ~(finest_level < l)
    BY <1>2 DEF Levels
  <2>2. QED
    BY <1>1, <1>9, <2>1
<1>16. QED
  BY <1>4, <1>12, <1>13, <1>14, <1>15 DEF N

\* The loop goes on below the new finest level.
LEMMA RegridLoop ==
  ASSUME TypeOK, StackOK, pc = "regrid", lev <= lev_top,
         NEW nf, NEW ng, NEW dt_0, RegridWith(nf, ng, dt_0), lev' = lev + 1
  PROVE  /\ lev' \in Nat /\ lev_top' \in Int /\ lev' <= lev_top' + 1
         /\ lev_top' <= finest_level' /\ lev_top' < max_level
         /\ level_count' \in [Levels -> Int]
<1>1. /\ lev \in Nat /\ lev <= finest_level /\ lev < max_level
      /\ lev_top \in Nat /\ lev_top <= finest_level
      /\ lev_top < max_level /\ finest_level \in Nat /\ max_level \in Nat
      /\ level_count \in [Levels -> Int]
  BY RegridBounds, LevelsType DEF TypeOK, TypeLevels
<1>2. nf \in NewFinest(lev) /\ ng \in [Levels -> job.grids] /\ Regrid(lev, nf, ng)
  BY DEF RegridWith
<1>3. finest_level' \in Nat /\ lev <= finest_level'
  BY <1>2, RegridTimes
<1>4. /\ lev_top' = IF finest_level > finest_level'
                    THEN Least(finest_level', max_level - 1) ELSE lev_top
      /\ level_count' = [l \in Levels |->
                           IF lev <= l /\ l <= finest_level' THEN 0 ELSE level_count[l]]
  BY DEF RegridWith
<1>5. level_count' \in [Levels -> Int]
  BY <1>1, <1>4
<1>6. /\ lev_top' \in Int /\ lev <= lev_top'
      /\ lev_top' <= finest_level' /\ lev_top' < max_level
  <2>1. CASE finest_level > finest_level'
    BY <1>1, <1>3, <1>4, <2>1 DEF Least
  <2>2. CASE ~(finest_level > finest_level')
    BY <1>1, <1>3, <1>4, <2>2
  <2>3. QED
    BY <2>1, <2>2
<1>7. lev' \in Nat /\ lev' <= lev_top' + 1
  <2>1. lev \in Nat
    BY <1>1
  <2>2. lev_top' \in Int /\ lev <= lev_top'
    BY <1>6
  <2>3. \A a \in Nat, b \in Int : a <= b => a + 1 \in Nat /\ a + 1 <= b + 1
    OBVIOUS
  <2>4. lev + 1 \in Nat /\ lev + 1 <= lev_top' + 1
    BY <2>1, <2>2, <2>3, Zenon
  <2>5. lev' = lev + 1
    OBVIOUS
  <2>6. QED
    BY <2>4, <2>5, Zenon
<1>8. QED
  BY <1>5, <1>6, <1>7

-----------------------------------------------------------------------------
(* Typing of the other actions.                                            *)

\* The part of the types that an action leaves alone.
LEMMA TypeKept ==
  ASSUME TypeOK
  PROVE  /\ UNCHANGED inputs /\ pc' \in Labels /\ ret' \in {"main", "done"} => TypeInputs'
         /\ UNCHANGED <<inputs, hierarchy, state, dt_level, counters, cumtime>> => TypeLevels'
         /\ UNCHANGED <<which_level_being_advanced, frames, loop>> => TypeStack'
         /\ UNCHANGED <<job, files, bUserStopRequest, crashes, origin, rescaled>> => TypeFiles'
<1>1. UNCHANGED inputs /\ pc' \in Labels /\ ret' \in {"main", "done"} => TypeInputs'
  BY DEF TypeOK, TypeInputs, inputs
<1>2. UNCHANGED <<inputs, hierarchy, state, dt_level, counters, cumtime>> => TypeLevels'
  BY DEF TypeOK, TypeLevels, inputs, hierarchy, state, counters
<1>3. UNCHANGED <<which_level_being_advanced, frames, loop>> => TypeStack'
  BY DEF TypeOK, TypeStack, frames, loop
<1>4. UNCHANGED <<job, files, bUserStopRequest, crashes, origin, rescaled>> => TypeFiles'
  BY CheckpointsSame DEF TypeOK, TypeFiles, files
<1>5. QED
  BY <1>1, <1>2, <1>3, <1>4

LEMMA TypeCoarseTimeStep == TypeOK /\ CoarseTimeStep => TypeOK'
<1> SUFFICES ASSUME TypeOK, CoarseTimeStep PROVE TypeOK'
  OBVIOUS
<1>1. PICK dt_0 \in job.dts : dt_level' = ShareDt(dt_0, finest_level, n_cycle, dt_level)
  BY DEF CoarseTimeStep
<1>2. /\ EnterTimeStep(0, cumtime, 1)
      /\ UNCHANGED <<inputs, hierarchy, state, counters, cumtime, files, control, rescaled>>
  BY DEF CoarseTimeStep
<1>3. dt_0 \in Nat /\ finest_level \in Nat
  BY JobIs, FinestIn, LevelsType DEF TypeOK, TypeInputs
<1>4. dt_level' \in [Levels -> Nat]
  BY <1>1, <1>3, ShareDtType DEF TypeOK, TypeInputs, TypeLevels
<1>5. cumtime \in Int
  BY DEF TypeOK, TypeLevels
<1>6. pc' = "regrid" /\ TypeStack'
  BY <1>2, <1>5, LevelsType, EnterTimeStepType
<1>7. TypeInputs'
  BY <1>2, <1>6 DEF TypeOK, TypeInputs, inputs, control, Labels, InStep
<1>8. TypeLevels'
  BY <1>2, <1>4 DEF TypeOK, TypeLevels, inputs, hierarchy, state, counters
<1>9. TypeFiles'
  BY <1>2, TypeKept DEF inputs, control
<1>10. QED
  BY <1>6, <1>7, <1>8, <1>9 DEF TypeOK

LEMMA TypeSkipRegrid == TypeOK /\ SkipRegrid => TypeOK'
<1> SUFFICES ASSUME TypeOK, SkipRegrid PROVE TypeOK'
  OBVIOUS
<1>1. lev' = lev + 1 /\ UNCHANGED <<pc, inputs, hierarchy, state, dt_level, counters, cumtime,
                 which_level_being_advanced, frames, lev_top, files, control, rescaled>>
  BY DEF SkipRegrid, NextLev
<1>2. TypeInputs' /\ TypeLevels' /\ TypeFiles'
  BY <1>1, TypeKept DEF TypeOK, TypeInputs, inputs, control
<1>3. TypeStack'
  BY <1>1 DEF TypeOK, TypeStack, frames
<1>4. QED
  BY <1>2, <1>3 DEF TypeOK

LEMMA TypeRegridLevel == TypeOK /\ StackOK /\ DtShared /\ RegridLevel => TypeOK'
<1> SUFFICES ASSUME TypeOK, StackOK, DtShared, RegridLevel PROVE TypeOK'
  OBVIOUS
<1>1. /\ pc = "regrid" /\ lev <= lev_top /\ lev' = lev + 1
      /\ UNCHANGED <<pc, inputs, cumtime, which_level_being_advanced, frames, files,
                     control, rescaled>>
  BY RegridLevelIs
<1>2. PICK nf, ng, dt_0 : RegridWith(nf, ng, dt_0)
  BY RegridLevelIs
<1>3. nf \in NewFinest(lev) /\ ng \in [Levels -> job.grids] /\ Regrid(lev, nf, ng)
  BY <1>2 DEF RegridWith
<1>4. /\ finest_level' \in Nat /\ finest_level' <= max_level
      /\ grids' \in [Levels -> job.grids] /\ has_old' \in [Levels -> BOOLEAN]
      /\ new_time' \in [Levels -> Int] /\ old_time' \in [Levels -> Int]
      /\ level_steps' \in [Levels -> Nat]
  BY <1>1, <1>3, RegridTimes
<1>5. dt_level' \in [Levels -> Nat]
  BY <1>1, <1>2, RegridDt
<1>6. lev' \in Nat /\ lev_top' \in Int /\ level_count' \in [Levels -> Int]
  BY <1>1, <1>2, RegridLoop
<1>7. TypeInputs' /\ TypeFiles'
  BY <1>1, TypeKept DEF TypeOK, TypeInputs, inputs, control
<1>8. TypeStack'
  BY <1>1, <1>6 DEF TypeOK, TypeStack, frames
<1>9. TypeLevels'
  <2>1. finest_level' \in 0..max_level' /\ job' = job /\ cumtime' \in Nat
    BY <1>1, <1>4, FinestIn, LevelsType DEF TypeOK, TypeLevels, inputs
  <2>2. QED
    BY <1>4, <1>5, <1>6, <2>1 DEF TypeLevels
<1>10. QED
  BY <1>7, <1>8, <1>9 DEF TypeOK

LEMMA TypeAdvance == TypeOK /\ StackOK /\ Advance => TypeOK'
<1> SUFFICES ASSUME TypeOK, StackOK, Advance PROVE TypeOK'
  OBVIOUS
<1>1. cur \in Levels
  BY FinestIn DEF StackOK, Advance, AboutToAdvance, InStep
<1>2. TypeLevels'
  BY <1>1 DEF Advance, TypeOK, TypeLevels, inputs, hierarchy
<1>3. TypeInputs' /\ TypeStack' /\ TypeFiles'
  BY TypeKept DEF Advance, TypeOK, TypeInputs, inputs, control, Labels, InStep
<1>4. QED
  BY <1>2, <1>3 DEF TypeOK

LEMMA TypeRecurse == TypeOK /\ StackOK /\ Recurse => TypeOK'
<1> SUFFICES ASSUME TypeOK, StackOK, Recurse PROVE TypeOK'
  OBVIOUS
<1>1. cur \in 0..finest_level /\ cur < finest_level /\ finest_level \in Nat
      /\ finest_level <= MaxLevel /\ MaxLevel \in Nat
  BY FinestIn, LevelsType DEF StackOK, Recurse, InStep, Levels
<1>2. cur + 1 \in Levels /\ cur \in Levels
  BY <1>1 DEF Levels
<1>3. time[cur] \in Int
  BY <1>2 DEF TypeOK, TypeStack
<1>4. EnterTimeStep(cur + 1, time[cur], 1)
      /\ UNCHANGED <<inputs, hierarchy, state, dt_level, counters, cumtime, files, control, rescaled>>
  BY DEF Recurse
<1>5. pc' = "regrid" /\ TypeStack'
  BY <1>2, <1>3, <1>4, EnterTimeStepType
<1>6. TypeInputs' /\ TypeLevels' /\ TypeFiles'
  BY <1>4, <1>5, TypeKept DEF TypeOK, TypeInputs, inputs, control, Labels, InStep
<1>7. QED
  BY <1>5, <1>6 DEF TypeOK

LEMMA TypeNoFiner == TypeOK /\ NoFiner => TypeOK'
<1> SUFFICES ASSUME TypeOK, NoFiner PROVE TypeOK'
  OBVIOUS
<1>1. TypeInputs' /\ TypeLevels' /\ TypeStack' /\ TypeFiles'
  BY TypeKept DEF NoFiner, TypeOK, TypeInputs, inputs, control, Labels, InStep
<1>2. QED
  BY <1>1 DEF TypeOK

LEMMA TypePostTimeStep == TypeOK /\ StackOK /\ PostTimeStep => TypeOK'
<1> SUFFICES ASSUME TypeOK, StackOK, PostTimeStep PROVE TypeOK'
  OBVIOUS
<1>1. /\ pc = "post_timestep" /\ cur \in Levels /\ cur \in Nat
      /\ cur > 0 => cur - 1 \in Levels
  BY FinestIn, LevelsType DEF StackOK, PostTimeStep, InStep
<1>2. UNCHANGED <<inputs, hierarchy, state, dt_level, counters, cumtime, files, control, rescaled>>
  BY DEF PostTimeStep
<1>3. pc' \in Labels /\ TypeStack'
  <2>1. CASE cur > 0 /\ iter[cur] < ncycle(cur) /\ EnterTimeStep(cur, SubcycleTime(cur), iter[cur] + 1)
    <3>1. time[cur-1] \in Int /\ iter[cur] \in Nat /\ dt_level[cur] \in Nat
      BY <1>1, <2>1 DEF TypeOK, TypeStack, TypeLevels
    <3>2. SubcycleTime(cur) \in Int /\ iter[cur] + 1 \in Nat
      BY <3>1 DEF SubcycleTime
    <3>3. QED
      BY <1>1, <2>1, <3>2, EnterTimeStepType DEF Labels, InStep
  <2>2. CASE cur > 0 /\ cur' = cur - 1 /\ which_level_being_advanced' = -1
             /\ UNCHANGED <<pc, time, iter, loop>>
    BY <1>1, <2>2 DEF TypeOK, TypeStack, TypeInputs, loop
  <2>3. CASE cur' = -1 /\ which_level_being_advanced' = -1 /\ pc' = "coarse_end"
             /\ UNCHANGED <<time, iter, loop>>
    BY <2>3 DEF TypeOK, TypeStack, loop, Labels
  <2>4. QED
    BY <2>1, <2>2, <2>3 DEF PostTimeStep
<1>4. TypeInputs' /\ TypeLevels' /\ TypeFiles'
  BY <1>2, <1>3, TypeKept DEF TypeOK, TypeInputs, inputs, control
<1>5. QED
  BY <1>3, <1>4 DEF TypeOK

LEMMA TypeCoarseEnd == TypeOK /\ CoarseEnd => TypeOK'
<1> SUFFICES ASSUME TypeOK, CoarseEnd PROVE TypeOK'
  OBVIOUS
<1>1. PICK to_stop \in BOOLEAN, to_checkpoint \in BOOLEAN :
       /\ last_checkpoint' = IF to_stop /\ ~to_checkpoint THEN level_steps[0] ELSE last_checkpoint
       /\ bUserStopRequest' = to_stop
       /\ IF to_checkpoint \/ checkPointNow
          THEN pc' = "checkpoint" /\ ret' = "main" /\ tries' = 0
          ELSE pc' = "main" /\ UNCHANGED <<ret, tries>>
  BY DEF CoarseEnd
<1>2. /\ cumtime' = cumtime + dt_level[0]
      /\ UNCHANGED <<inputs, hierarchy, state, dt_level, counters, which_level_being_advanced,
                     frames, loop, disk, write_errors, crashes, origin, rescaled>>
  BY DEF CoarseEnd
<1>3. pc' \in Labels /\ ret' \in {"main", "done"} /\ tries' \in Nat
  BY <1>1 DEF TypeOK, TypeInputs, TypeFiles, Labels, Saving
<1>4. cumtime' \in Nat
  BY <1>2, LevelsType DEF TypeOK, TypeLevels
<1>5. last_checkpoint' \in Nat /\ bUserStopRequest' \in BOOLEAN
  BY <1>1, LevelsType DEF TypeOK, TypeLevels, TypeFiles
<1>6. TypeInputs' /\ TypeStack'
  BY <1>2, <1>3, TypeKept
<1>7. TypeLevels'
  BY <1>2, <1>4 DEF TypeOK, TypeLevels, inputs, hierarchy, state, counters
<1>8. TypeFiles'
  BY <1>2, <1>3, <1>5, CheckpointsSame DEF TypeOK, TypeFiles, inputs
<1>9. QED
  BY <1>6, <1>7, <1>8 DEF TypeOK

LEMMA TypeFinalCheckpoint == TypeOK /\ FinalCheckpoint => TypeOK'
<1> SUFFICES ASSUME TypeOK, FinalCheckpoint PROVE TypeOK'
  OBVIOUS
<1>1. /\ UNCHANGED <<inputs, hierarchy, state, dt_level, counters, cumtime, frames, loop,
                 which_level_being_advanced, last_checkpoint, disk, write_errors,
                 bUserStopRequest, crashes, origin, rescaled>>
      /\ IF last_checkpoint < level_steps[0]
         THEN pc' = "checkpoint" /\ ret' = "done" /\ tries' = 0
         ELSE pc' = "done" /\ UNCHANGED <<ret, tries>>
  BY DEF FinalCheckpoint
<1>2. pc' \in Labels /\ ret' \in {"main", "done"} /\ tries' \in Nat
  BY <1>1 DEF TypeOK, TypeInputs, TypeFiles, Labels, Saving
<1>3. TypeInputs' /\ TypeLevels' /\ TypeStack'
  BY <1>1, <1>2, TypeKept
<1>4. TypeFiles'
  BY <1>1, <1>2, CheckpointsSame DEF TypeOK, TypeFiles, inputs
<1>5. QED
  BY <1>3, <1>4 DEF TypeOK

LEMMA TypeCheckpointBegin == TypeOK /\ CheckpointBegin => TypeOK'
<1> SUFFICES ASSUME TypeOK, CheckpointBegin PROVE TypeOK'
  OBVIOUS
<1>1. /\ disk' = disk \ NamedAsStep(level_steps[0]) /\ tries' = tries + 1 /\ pc' = "ck_write"
      /\ UNCHANGED <<inputs, hierarchy, state, dt_level, counters, cumtime, frames, loop,
                 which_level_being_advanced, last_checkpoint, write_errors, control, rescaled>>
  BY DEF CheckpointBegin
<1>2. TypeInputs' /\ TypeLevels' /\ TypeStack'
  BY <1>1, TypeKept DEF TypeOK, TypeInputs, inputs, control, Labels, Saving
<1>3. disk' \subseteq Checkpoints /\ tries' \in Nat
  BY <1>1 DEF TypeOK, TypeFiles
<1>4. TypeFiles'
  BY <1>1, <1>3, CheckpointsSame DEF TypeOK, TypeFiles, inputs, control
<1>5. QED
  BY <1>2, <1>4 DEF TypeOK

\* What is written is of the type of the files.
LEMMA ContentsType ==
  ASSUME TypeOK, NEW ok \in BOOLEAN
  PROVE  Contents(ok) \in Checkpoints
<1>1. /\ cumtime \in Nat /\ max_level \in Levels /\ finest_level \in Levels
      /\ n_cycle \in [Levels -> Nat]
      /\ dt_level \in [Levels -> Nat] /\ level_steps \in [Levels -> Nat]
      /\ level_count \in [Levels -> Int] /\ grids \in [Levels -> job.grids]
      /\ old_time \in [Levels -> Int] /\ new_time \in [Levels -> Int]
      /\ has_old \in [Levels -> BOOLEAN]
  BY FinestIn DEF TypeOK, TypeInputs, TypeLevels
<1>2. QED
  BY <1>1 DEF Contents, Checkpoints

LEMMA TypeCheckpointWrite == TypeOK /\ CheckpointWrite => TypeOK'
<1> SUFFICES ASSUME TypeOK, CheckpointWrite PROVE TypeOK'
  OBVIOUS
<1>1. PICK ok \in BOOLEAN : /\ disk' = disk \cup {Contents(ok)}
                            /\ write_errors' = IF ok THEN write_errors ELSE write_errors + 1
  BY DEF CheckpointWrite
<1>2. /\ last_checkpoint' = level_steps[0] /\ pc' = "ck_check"
      /\ UNCHANGED <<inputs, hierarchy, state, dt_level, counters, cumtime, frames, loop,
                 which_level_being_advanced, tries, control, rescaled>>
  BY DEF CheckpointWrite
<1>3. TypeInputs' /\ TypeLevels' /\ TypeStack'
  BY <1>2, TypeKept DEF TypeOK, TypeInputs, inputs, control, Labels, Saving
<1>4. disk' \subseteq Checkpoints
  BY <1>1, ContentsType DEF TypeOK, TypeFiles
<1>5. write_errors' \in Nat /\ last_checkpoint' \in Nat
  BY <1>1, <1>2, LevelsType DEF TypeOK, TypeFiles, TypeLevels
<1>6. TypeFiles'
  BY <1>2, <1>4, <1>5, CheckpointsSame DEF TypeOK, TypeFiles, inputs, control
<1>7. QED
  BY <1>3, <1>6 DEF TypeOK

LEMMA TypeCheckpointCheck == TypeOK /\ CheckpointCheck => TypeOK'
<1> SUFFICES ASSUME TypeOK, CheckpointCheck PROVE TypeOK'
  OBVIOUS
<1>1. /\ disk' \subseteq disk /\ pc' \in {ret, "checkpoint", "aborted"}
      /\ UNCHANGED <<inputs, hierarchy, state, dt_level, counters, cumtime, frames, loop,
            which_level_being_advanced, last_checkpoint, tries, write_errors, control, rescaled>>
  BY DEF CheckpointCheck
<1>2. TypeInputs' /\ TypeLevels' /\ TypeStack'
  BY <1>1, TypeKept DEF TypeOK, TypeInputs, inputs, control, Labels, Saving
<1>3. TypeFiles'
  BY <1>1, CheckpointsSame DEF TypeOK, TypeFiles, inputs, control
<1>4. QED
  BY <1>2, <1>3 DEF TypeOK

LEMMA TypeCrash == TypeOK /\ Crash => TypeOK'
<1> SUFFICES ASSUME TypeOK, Crash PROVE TypeOK'
  OBVIOUS
<1>1. job' = job /\ disk' = disk /\ write_errors' = write_errors /\ rescaled' = rescaled
  BY DEF Crash
<1>2. job \in Jobs
  BY DEF TypeOK, TypeInputs
<1>3. TypeInputs'
  BY <1>1, <1>2, LevelsType DEF Crash, TypeInputs, Labels
<1>4. TypeLevels'
  BY <1>1, <1>2, LevelsType, JobIs, ConfigAssumption DEF Crash, TypeLevels
<1>5. TypeStack'
  BY LevelsType DEF Crash, TypeStack
<1>6. bUserStopRequest' \in BOOLEAN
  BY Zenon DEF Crash
<1>7. crashes' \in Nat /\ last_checkpoint' = 0 /\ tries' = 0 /\ origin' = -1
  BY DEF Crash, TypeOK, TypeFiles
<1>8. TypeFiles'
  BY <1>1, <1>6, <1>7, CheckpointsSame DEF TypeOK, TypeFiles
<1>9. QED
  BY <1>3, <1>4, <1>5, <1>8 DEF TypeOK

LEMMA TypeNext == TypeOK /\ StackOK /\ DtShared /\ FilesOK /\ [Next]_vars => TypeOK'
<1>1. TypeOK /\ UNCHANGED vars => TypeOK'
  BY TypeKept DEF vars, TypeOK, TypeInputs, inputs, control, files
<1>2. QED
  BY <1>1, TypeInitialInit, TypeRestart, TypeCoarseTimeStep, TypeSkipRegrid, TypeRegridLevel,
     TypeAdvance, TypeRecurse, TypeNoFiner, TypePostTimeStep, TypeCoarseEnd,
     TypeFinalCheckpoint, TypeCheckpointBegin, TypeCheckpointWrite, TypeCheckpointCheck,
     TypeCrash, Zenon DEF Next, Program

-----------------------------------------------------------------------------
(* Times and step counts on the call stack.                                *)

LEMMA LevelTypes ==
  ASSUME TypeOK
  PROVE  /\ finest_level \in Nat /\ finest_level <= MaxLevel /\ MaxLevel \in Nat
         /\ \A l \in 0..finest_level : l \in Levels /\ l \in Nat
         /\ \A l \in 1..finest_level : l - 1 \in 0..finest_level /\ l \in 0..finest_level
         /\ \A l \in Levels : /\ new_time[l] \in Int /\ old_time[l] \in Int /\ time[l] \in Int
                              /\ dt_level[l] \in Nat /\ n_cycle[l] \in Nat /\ n_cycle[l] > 0
                              /\ iter[l] \in Nat /\ level_steps[l] \in Nat
         /\ cumtime \in Nat
<1>1. finest_level \in Nat /\ finest_level <= MaxLevel /\ MaxLevel \in Nat
  BY FinestIn, LevelsType DEF Levels
<1>2. /\ \A l \in 0..finest_level : l \in Levels /\ l \in Nat
      /\ \A l \in 1..finest_level : l - 1 \in 0..finest_level /\ l \in 0..finest_level
  BY <1>1 DEF Levels
<1>3. \A l \in Levels : /\ new_time[l] \in Int /\ old_time[l] \in Int /\ time[l] \in Int
                        /\ dt_level[l] \in Nat /\ n_cycle[l] \in Nat /\ n_cycle[l] > 0
                        /\ iter[l] \in Nat /\ level_steps[l] \in Nat
  BY DEF TypeOK, TypeLevels, TypeInputs, TypeStack
<1>4. cumtime \in Nat
  BY DEF TypeOK, TypeLevels
<1>5. QED
  BY <1>1, <1>2, <1>3, <1>4

\* During a step a level takes as many steps as its n_cycle for one of the level below.
LEMMA StepRatio ==
  ASSUME TypeOK, DtShared, pc \in InStep \cup {"coarse_end"}
  PROVE  \A l \in 1..finest_level : dt_level[l-1] = n_cycle[l] * dt_level[l]
<1>1. /\ job \in Jobs /\ n_cycle \in Cycles(job) /\ dt_level[0] \in job.dts
      /\ \A l \in 0..finest_level : dt_level[l] = dt_level[0] \div NFactor(n_cycle)[l]
  BY DEF TypeOK, TypeInputs, DtShared, InStep
<1>2. ASSUME NEW l \in 1..finest_level PROVE dt_level[l-1] = n_cycle[l] * dt_level[l]
  <2>1. l \in Levels /\ l # 0 /\ l - 1 \in 0..finest_level /\ l \in 0..finest_level
    BY LevelTypes
  <2>2. dt_level[0] \div NFactor(n_cycle)[l-1]
          = n_cycle[l] * (dt_level[0] \div NFactor(n_cycle)[l])
    BY <1>1, <2>1, SharesInRatio
  <2>3. QED
    BY <1>1, <2>1, <2>2
<1>3. QED
  BY <1>2

LEMMA NCycleIs ==
  ASSUME TypeOK, DtShared, pc # "down", NEW l \in Levels
  PROVE  ncycle(l) = n_cycle[l]
<1>1. job \in Jobs /\ n_cycle \in Cycles(job)
  BY DEF TypeOK, TypeInputs, DtShared
<1>2. ~SubCycle => n_cycle[l] = 1
  BY <1>1, CyclesType
<1>3. QED
  BY <1>2 DEF ncycle

\* The i-th of n subcycles lies in the interval of the level below.
LEMMA Subcycles ==
  ASSUME NEW i \in Nat, NEW n \in Nat, NEW d \in Nat, 1 <= i, i <= n
  PROVE  /\ (i - 1) * d \in Nat /\ i * d \in Nat /\ n * d \in Nat
         /\ (i - 1) * d + d = i * d /\ i * d <= n * d
<1>1. /\ (i - 1) \in Nat /\ (n - i) \in Nat
  OBVIOUS
<1>2. \A a, b \in Nat : a * b \in Nat
  OBVIOUS
<1>3. (n - i) * d \in Nat /\ (i - 1) * d \in Nat /\ i * d \in Nat /\ n * d \in Nat
  BY <1>1, <1>2
<1>4. n * d = i * d + (n - i) * d /\ (i - 1) * d + d = i * d
  OBVIOUS
<1>5. QED
  BY <1>3, <1>4

\* The frame of the running call lies in the interval of the frame below it.
LEMMA FrameInside ==
  ASSUME TypeOK, StackOK, DtShared, FrameTimes, pc \in InStep, cur > 0
  PROVE  /\ cur \in Levels /\ cur - 1 \in Levels
         /\ old_time[cur-1] <= time[cur] /\ time[cur] + dt_level[cur] <= new_time[cur-1]
         /\ time[cur] <= new_time[cur-1] /\ has_old[cur-1]
         /\ time[cur] + dt_level[cur] = time[cur-1] + iter[cur] * dt_level[cur]
         /\ time[cur-1] + dt_level[cur-1] = time[cur-1] + n_cycle[cur] * dt_level[cur]
         /\ new_time[cur-1] = time[cur-1] + dt_level[cur-1]
<1>1. cur \in 0..finest_level /\ cur \in 1..cur /\ cur \in 1..finest_level /\ cur - 1 \in 0..cur
      /\ cur - 1 < cur /\ cur - 1 \in 0..finest_level
  BY LevelTypes DEF StackOK
<1>2. cur \in Levels /\ cur - 1 \in Levels
  BY <1>1, LevelTypes
<1>3. /\ 1 <= iter[cur] /\ iter[cur] <= n_cycle[cur]
      /\ time[cur] = time[cur-1] + (iter[cur] - 1) * dt_level[cur]
  BY <1>1 DEF FrameTimes
<1>4. /\ has_old[cur-1] /\ old_time[cur-1] = time[cur-1]
      /\ new_time[cur-1] = time[cur-1] + dt_level[cur-1]
  BY <1>1 DEF FrameTimes, Advanced
<1>5. dt_level[cur-1] = n_cycle[cur] * dt_level[cur]
  BY <1>1, StepRatio
<1> DEFINE i == iter[cur]
           n == n_cycle[cur]
           d == dt_level[cur]
           t == time[cur-1]
<1>6. i \in Nat /\ n \in Nat /\ d \in Nat /\ t \in Int
  BY <1>2, LevelTypes
<1>7. 1 <= i /\ i <= n /\ time[cur] = t + (i - 1) * d /\ dt_level[cur-1] = n * d
  BY <1>3, <1>5
<1> HIDE DEF i, n, d, t
<1>8. /\ (i - 1) * d \in Nat /\ i * d \in Nat /\ n * d \in Nat
      /\ (i - 1) * d + d = i * d /\ i * d <= n * d
  BY <1>6, <1>7, Subcycles
<1>9. /\ t <= time[cur] /\ time[cur] + d = t + i * d /\ time[cur] + d <= t + n * d
      /\ time[cur] <= t + n * d
  BY <1>6, <1>7, <1>8
<1>10. QED
  BY <1>2, <1>4, <1>7, <1>9 DEF i, n, d, t

Timing == StackOK /\ DtShared /\ FrameTimes /\ StepCounts /\ Together /\ OldBeforeNew

\* The frame that EnterTimeStep pushes.
LEMMA Entered ==
  ASSUME TypeOK, NEW l \in 0..finest_level, NEW t, NEW i, EnterTimeStep(l, t, i),
         UNCHANGED <<inputs, hierarchy>>
  PROVE  /\ pc' = "regrid" /\ cur' = l /\ time'[l] = t /\ iter'[l] = i
         /\ \A k \in 0..finest_level : k # l => time'[k] = time[k] /\ iter'[k] = iter[k]
         /\ StackOK'
<1>1. /\ cur' = l /\ lev' = l /\ pc' = "regrid"
      /\ time' = [time EXCEPT ![l] = t] /\ iter' = [iter EXCEPT ![l] = i]
      /\ lev_top' = Least(finest_level, max_level - 1)
      /\ finest_level' = finest_level /\ max_level' = max_level
  BY DEF EnterTimeStep, inputs, hierarchy
<1>2. /\ finest_level \in Nat /\ max_level \in Nat /\ finest_level <= max_level
      /\ l \in Nat /\ l <= finest_level
  <2>1. finest_level \in Nat /\ max_level \in Nat /\ finest_level <= max_level
    BY FinestIn, LevelsType
  <2>2. QED
    BY <2>1
<1>3. \A k \in 0..finest_level : k \in Levels
  BY LevelTypes
<1>4. time'[l] = t /\ iter'[l] = i
      /\ \A k \in 0..finest_level : k # l => time'[k] = time[k] /\ iter'[k] = iter[k]
  BY <1>1, <1>3 DEF TypeOK, TypeStack
<1>5. l <= lev_top' + 1 /\ lev_top' <= finest_level /\ lev_top' < max_level
  BY <1>1, <1>2 DEF Least
<1>6. StackOK'
  BY <1>1, <1>2, <1>5 DEF StackOK, InStep
<1>7. QED
  BY <1>1, <1>4, <1>6

LEMMA TimingCoarseTimeStep == TypeOK /\ Timing /\ CoarseTimeStep => Timing'
<1> SUFFICES ASSUME TypeOK, Timing, CoarseTimeStep PROVE Timing'
  OBVIOUS
<1>1. PICK dt_0 \in job.dts : dt_level' = ShareDt(dt_0, finest_level, n_cycle, dt_level)
  BY DEF CoarseTimeStep
<1>2. /\ pc = "main" /\ EnterTimeStep(0, cumtime, 1)
      /\ UNCHANGED <<inputs, hierarchy, state, counters, cumtime, files, control, rescaled>>
  BY DEF CoarseTimeStep
<1>3. /\ job' = job /\ n_cycle' = n_cycle /\ finest_level' = finest_level
      /\ old_time' = old_time /\ new_time' = new_time /\ cumtime' = cumtime
      /\ level_steps' = level_steps /\ rescaled' = rescaled
  BY <1>2 DEF inputs, hierarchy, state, counters
<1>4. finest_level \in Nat /\ 0 \in 0..finest_level /\ \A l \in 0..finest_level : l \in Levels
  BY LevelTypes
<1>5. /\ pc' = "regrid" /\ cur' = 0 /\ time'[0] = cumtime /\ StackOK'
  BY <1>2, <1>4, Entered
<1>6. /\ \A l \in 0..finest_level : new_time[l] = cumtime
      /\ ~rescaled => InRatio(level_steps, dt_level, n_cycle, finest_level)
  BY <1>2 DEF Timing, Together, InStep
<1>7. DtShared'
  <2>1. job \in Jobs /\ n_cycle \in Cycles(job)
    BY <1>2 DEF TypeOK, TypeInputs, Timing, DtShared
  <2>2. dt_0 \div NFactor(n_cycle)[0] = dt_0
    BY <2>1, SharesInRatio
  <2>3. \A l \in 0..finest_level : dt_level'[l] = dt_0 \div NFactor(n_cycle)[l]
    BY <1>1, <1>4 DEF ShareDt
  <2>4. dt_level'[0] = dt_0
    BY <1>4, <2>2, <2>3
  <2>5. QED
    BY <1>3, <2>1, <2>3, <2>4 DEF DtShared
<1>8. FrameTimes'
  BY <1>3, <1>4, <1>5, <1>6 DEF FrameTimes, Advanced
<1>9. StepCounts'
  BY <1>3, <1>4, <1>5, <1>6 DEF StepCounts, InRatio
<1>10. Together' /\ OldBeforeNew'
  BY <1>3, <1>5 DEF Together, InStep, Timing, OldBeforeNew
<1>11. QED
  BY <1>5, <1>7, <1>8, <1>9, <1>10 DEF Timing

LEMMA TimingSkipRegrid == TypeOK /\ Timing /\ SkipRegrid => Timing'
<1> SUFFICES ASSUME TypeOK, Timing, SkipRegrid PROVE Timing'
  OBVIOUS
<1>1. /\ pc = "regrid" /\ pc' = pc /\ lev <= lev_top /\ lev' = lev + 1 /\ lev_top' = lev_top
      /\ job' = job /\ n_cycle' = n_cycle /\ finest_level' = finest_level
      /\ max_level' = max_level /\ has_old' = has_old
      /\ old_time' = old_time /\ new_time' = new_time /\ cumtime' = cumtime
      /\ level_steps' = level_steps /\ rescaled' = rescaled /\ dt_level' = dt_level
      /\ cur' = cur /\ time' = time /\ iter' = iter
  BY DEF SkipRegrid, NextLev, inputs, hierarchy, state, counters, frames
<1>2. StackOK'
  <2>1. lev \in Nat /\ lev_top \in Int /\ cur \in Nat
    <3>1. lev \in Levels /\ lev_top \in Nat /\ cur \in Nat
      BY <1>1, RegridBounds DEF Timing
    <3>2. QED
      BY <3>1, LevelsType
  <2>2. /\ cur \in 0..finest_level /\ cur <= lev /\ lev_top <= finest_level
        /\ lev_top < max_level
    BY <1>1 DEF Timing, StackOK, InStep
  <2>3. cur <= lev + 1 /\ lev + 1 <= lev_top + 1
    BY <1>1, <2>1, <2>2
  <2>4. QED
    BY <1>1, <2>2, <2>3 DEF StackOK, InStep
<1>3. DtShared' /\ FrameTimes' /\ StepCounts' /\ Together' /\ OldBeforeNew'
  BY <1>1 DEF Timing, DtShared, FrameTimes, StepCounts, Together, OldBeforeNew, Advanced, InRatio
<1>4. QED
  BY <1>2, <1>3 DEF Timing

LEMMA TimingRegridLevel == TypeOK /\ Timing /\ RegridLevel => Timing'
<1> SUFFICES ASSUME TypeOK, Timing, RegridLevel PROVE Timing'
  OBVIOUS
<1>1. /\ pc = "regrid" /\ lev <= lev_top /\ lev' = lev + 1 /\ pc' = pc /\ job' = job
      /\ max_level' = max_level /\ n_cycle' = n_cycle /\ cumtime' = cumtime
      /\ cur' = cur /\ time' = time /\ iter' = iter /\ rescaled' = rescaled
  BY RegridLevelIs DEF inputs, frames
<1>2. PICK nf, ng, dt_0 : RegridWith(nf, ng, dt_0)
  BY RegridLevelIs
<1>3. nf \in NewFinest(lev) /\ ng \in [Levels -> job.grids] /\ Regrid(lev, nf, ng)
  BY <1>2 DEF RegridWith
<1>4. StackOK /\ DtShared /\ FrameTimes /\ StepCounts /\ OldBeforeNew
  BY DEF Timing
<1>5. /\ lev \in Nat /\ cur \in Nat /\ cur <= lev /\ lev <= finest_level /\ finest_level \in Nat
      /\ \A l \in 0..finest_level : l \in Levels
  <2>1. lev \in Levels /\ cur \in Nat /\ cur <= lev /\ lev <= finest_level
    BY <1>1, <1>4, RegridBounds
  <2>2. QED
    BY <2>1, LevelsType, LevelTypes
<1>6. /\ finest_level' \in Nat /\ lev <= finest_level' /\ finest_level' <= finest_level + 1
      /\ \A l \in 0..finest_level' : l <= finest_level =>
           /\ new_time'[l] = new_time[l] /\ old_time'[l] = old_time[l]
           /\ level_steps'[l] = level_steps[l]
      /\ \A l \in 0..finest_level' : l > finest_level =>
           /\ l = finest_level + 1
           /\ new_time'[l] = new_time[l-1]
           /\ old_time[l-1] <= new_time[l-1] => old_time'[l] <= new_time'[l]
           /\ level_steps'[l] = n_cycle[l] * level_steps[l-1]
      /\ \A l \in 0..cur - 1 : has_old'[l] = has_old[l]
  BY <1>1, <1>3, <1>4, RegridTimes
<1>7. /\ dt_level'[0] \in job.dts
      /\ \A l \in 0..finest_level' : dt_level'[l] = dt_level'[0] \div NFactor(n_cycle)[l]
      /\ lev > 0 => \A l \in 0..finest_level : dt_level'[l] = dt_level[l]
  BY <1>1, <1>2, <1>4, RegridDt
<1>8. lev' <= lev_top' + 1 /\ lev_top' <= finest_level' /\ lev_top' < max_level
  BY <1>1, <1>2, <1>4, RegridLoop
<1>9. StackOK'
  <2>1. cur \in 0..finest_level' /\ cur <= lev'
    BY <1>1, <1>5, <1>6
  <2>2. QED
    BY <1>1, <1>8, <2>1 DEF StackOK, InStep
<1>10. DtShared'
  BY <1>1, <1>4, <1>7 DEF DtShared
<1>11. \A k \in 0..cur : k \in 0..finest_level /\ k \in 0..finest_level' /\ k <= finest_level
  BY <1>5, <1>6
<1>12. \A k \in 1..cur : k \in 0..finest_level /\ k - 1 \in 0..cur - 1 /\ k \in 0..cur /\ lev > 0
  BY <1>5
<1>13. FrameTimes'
  <2>1. time'[0] = cumtime'
    BY <1>1, <1>4 DEF FrameTimes, InStep
  <2>2. \A k \in 1..cur : /\ 1 <= iter[k] /\ iter[k] <= n_cycle[k]
                          /\ time[k] = time[k-1] + (iter[k] - 1) * dt_level'[k]
    BY <1>1, <1>4, <1>7, <1>12 DEF FrameTimes, InStep
  <2>3. \A k \in 0..cur : k < cur =>
          has_old'[k] /\ old_time'[k] = time[k] /\ new_time'[k] = time[k] + dt_level'[k]
    <3>1. SUFFICES ASSUME NEW k \in 0..cur, k < cur
                   PROVE  /\ has_old'[k] /\ old_time'[k] = time[k]
                          /\ new_time'[k] = time[k] + dt_level'[k]
      OBVIOUS
    <3>2. has_old[k] /\ old_time[k] = time[k] /\ new_time[k] = time[k] + dt_level[k]
      BY <1>1, <1>4, <3>1 DEF FrameTimes, Advanced, InStep
    <3>3. lev > 0 /\ k \in 0..cur - 1
      BY <1>5, <3>1
    <3>4. QED
      BY <1>6, <1>7, <1>11, <3>2, <3>3
  <2>4. new_time[cur] = time[cur] /\ new_time'[cur] = new_time[cur]
    BY <1>1, <1>4, <1>5, <1>6, <1>11 DEF FrameTimes, Advanced, InStep
  <2>5. \A l \in cur+1..finest_level' : new_time'[l] = time[cur]
    <3>1. SUFFICES ASSUME NEW l \in cur+1..finest_level' PROVE new_time'[l] = time[cur]
      OBVIOUS
    <3>2. \A j \in cur..finest_level : new_time[j] = time[cur]
      BY <1>1, <1>4, <1>5, <2>4 DEF FrameTimes, InStep
    <3>3. CASE l <= finest_level
      <4>1. l \in cur..finest_level /\ l \in 0..finest_level'
        BY <1>5, <1>6, <3>3
      <4>2. QED
        BY <1>6, <3>2, <3>3, <4>1
    <3>4. CASE l > finest_level
      <4>1. l \in 0..finest_level'
        BY <1>5, <1>6
      <4>2. l - 1 = finest_level /\ l - 1 \in cur..finest_level /\ new_time'[l] = new_time[l-1]
        BY <1>5, <1>6, <3>4, <4>1
      <4>3. QED
        BY <3>2, <4>2
    <3>5. QED
      BY <1>5, <1>6, <3>3, <3>4
  <2>6. \A k \in 0..cur : k = cur \/ k < cur
    BY <1>5
  <2>7. QED
    BY <1>1, <2>1, <2>2, <2>3, <2>4, <2>5, <2>6 DEF FrameTimes, Advanced, InStep
<1>14. StepCounts'
  <2>1. SUFFICES ASSUME ~rescaled
                 PROVE  /\ \A k \in 1..cur : level_steps'[k] =
                             n_cycle[k] * (level_steps'[k-1] - 1)
                               + (IF Advanced(k) THEN iter[k] ELSE iter[k] - 1)
                        /\ \A l \in cur+1..finest_level' :
                             level_steps'[l] = n_cycle[l] * level_steps'[l-1]
    BY <1>1 DEF StepCounts, Advanced
  <2>2. /\ \A k \in 1..cur : level_steps[k] =
             n_cycle[k] * (level_steps[k-1] - 1)
               + (IF Advanced(k) THEN iter[k] ELSE iter[k] - 1)
        /\ \A l \in cur+1..finest_level : level_steps[l] = n_cycle[l] * level_steps[l-1]
    BY <1>1, <1>4, <2>1 DEF StepCounts, InStep
  <2>3. \A k \in 1..cur : level_steps'[k] = level_steps[k] /\ level_steps'[k-1] = level_steps[k-1]
    <3>1. \A k \in 1..cur : k \in 0..cur /\ k - 1 \in 0..cur
      BY <1>5
    <3>2. QED
      BY <1>6, <1>11, <3>1
  <2>4. ASSUME NEW l \in cur+1..finest_level'
        PROVE  level_steps'[l] = n_cycle[l] * level_steps'[l-1]
    <3>1. l \in 0..finest_level' /\ l - 1 \in 0..finest_level' /\ l - 1 <= finest_level
      BY <1>5, <1>6
    <3>2. level_steps'[l-1] = level_steps[l-1]
      BY <1>6, <3>1
    <3>3. CASE l <= finest_level
      <4>1. l \in cur+1..finest_level
        BY <1>5, <1>6, <3>3
      <4>2. QED
        BY <1>6, <2>2, <3>1, <3>2, <3>3, <4>1
    <3>4. CASE l > finest_level
      BY <1>6, <3>1, <3>2, <3>4
    <3>5. QED
      BY <1>5, <1>6, <3>3, <3>4
  <2>5. QED
    BY <2>2, <2>3, <2>4
<1>15. Together'
  BY <1>1 DEF Together, InStep
<1>16. OldBeforeNew'
  <2>1. ASSUME NEW l \in 0..finest_level' PROVE old_time'[l] <= new_time'[l]
    <3>1. CASE l <= finest_level
      <4>1. l \in 0..finest_level
        BY <1>5, <1>6, <3>1
      <4>2. QED
        BY <1>4, <1>6, <3>1, <4>1 DEF OldBeforeNew
    <3>2. CASE l > finest_level
      <4>1. l = finest_level + 1
        BY <1>6, <3>2
      <4>2. l - 1 \in 0..finest_level
        BY <1>5, <4>1
      <4>3. QED
        BY <1>4, <1>6, <3>2, <4>2 DEF OldBeforeNew
    <3>3. QED
      BY <1>5, <1>6, <3>1, <3>2
  <2>2. QED
    BY <2>1 DEF OldBeforeNew
<1>17. QED
  BY <1>9, <1>10, <1>13, <1>14, <1>15, <1>16 DEF Timing

LEMMA TimingAdvance == TypeOK /\ Timing /\ Advance => Timing'
<1> SUFFICES ASSUME TypeOK, Timing, Advance PROVE Timing'
  OBVIOUS
<1>1. /\ pc = "regrid" /\ pc' = "advanced" /\ cur' = cur /\ job' = job /\ max_level' = max_level
      /\ n_cycle' = n_cycle /\ cumtime' = cumtime /\ time' = time /\ iter' = iter
      /\ rescaled' = rescaled /\ finest_level' = finest_level /\ dt_level' = dt_level
      /\ has_old' = [has_old EXCEPT ![cur] = TRUE]
      /\ old_time' = [old_time EXCEPT ![cur] = new_time[cur]]
      /\ new_time' = [new_time EXCEPT ![cur] = @ + dt_level[cur]]
      /\ level_steps' = [level_steps EXCEPT ![cur] = @ + 1]
  BY DEF Advance, AboutToAdvance, inputs, hierarchy, frames
<1>2. StackOK /\ DtShared /\ FrameTimes /\ StepCounts /\ OldBeforeNew
  BY DEF Timing
<1>3. /\ cur \in 0..finest_level /\ cur \in Nat /\ finest_level \in Nat /\ cur \in Levels
      /\ \A l \in 0..finest_level : l \in Levels
  BY <1>1, <1>2, LevelTypes DEF StackOK, InStep
<1>4. /\ has_old'[cur] /\ old_time'[cur] = new_time[cur]
      /\ new_time'[cur] = new_time[cur] + dt_level[cur]
      /\ level_steps'[cur] = level_steps[cur] + 1
      /\ \A l \in Levels : l # cur => /\ has_old'[l] = has_old[l] /\ old_time'[l] = old_time[l]
                                      /\ new_time'[l] = new_time[l]
                                      /\ level_steps'[l] = level_steps[l]
  BY <1>1, <1>3 DEF TypeOK, TypeLevels
<1>5. new_time[cur] = time[cur]
  BY <1>1, <1>2, <1>3 DEF FrameTimes, Advanced, InStep
<1>6. StackOK'
  BY <1>1, <1>3 DEF StackOK, InStep
<1>7. DtShared'
  BY <1>1, <1>2 DEF DtShared, InStep
<1>8. FrameTimes'
  <2>1. time'[0] = cumtime'
    BY <1>1, <1>2 DEF FrameTimes, InStep
  <2>2. \A k \in 1..cur : /\ 1 <= iter[k] /\ iter[k] <= n_cycle[k]
                          /\ time[k] = time[k-1] + (iter[k] - 1) * dt_level[k]
    BY <1>1, <1>2 DEF FrameTimes, InStep
  <2>3. \A k \in 0..cur :
          has_old'[k] /\ old_time'[k] = time[k] /\ new_time'[k] = time[k] + dt_level[k]
    <3>1. SUFFICES ASSUME NEW k \in 0..cur
                   PROVE  /\ has_old'[k] /\ old_time'[k] = time[k]
                          /\ new_time'[k] = time[k] + dt_level[k]
      OBVIOUS
    <3>2. CASE k = cur
      BY <1>4, <1>5, <3>2
    <3>3. CASE k # cur
      <4>1. k < cur /\ k \in Levels
        BY <1>3, <3>3
      <4>2. has_old[k] /\ old_time[k] = time[k] /\ new_time[k] = time[k] + dt_level[k]
        BY <1>1, <1>2, <4>1 DEF FrameTimes, Advanced, InStep
      <4>3. QED
        BY <1>4, <3>3, <4>1, <4>2
    <3>4. QED
      BY <3>2, <3>3
  <2>4. \A l \in cur+1..finest_level : new_time'[l] = time[cur]
    <3>1. \A l \in cur+1..finest_level : l \in Levels /\ l # cur
      BY <1>3
    <3>2. \A l \in cur+1..finest_level : new_time[l] = time[cur]
      BY <1>1, <1>2 DEF FrameTimes, InStep
    <3>3. QED
      BY <1>4, <3>1, <3>2
  <2>5. \A k \in 0..cur : Advanced(k)'
    BY <1>1, <1>3 DEF Advanced
  <2>6. QED
    BY <1>1, <2>1, <2>2, <2>3, <2>4, <2>5 DEF FrameTimes
<1>9. StepCounts'
  <2>1. SUFFICES ASSUME ~rescaled
                 PROVE  /\ \A k \in 1..cur : level_steps'[k] =
                             n_cycle[k] * (level_steps'[k-1] - 1) + iter[k]
                        /\ \A l \in cur+1..finest_level :
                             level_steps'[l] = n_cycle[l] * (IF l = cur + 1
                                  THEN level_steps'[l-1] - 1 ELSE level_steps'[l-1])
    <3>1. \A k \in 1..cur : k < cur \/ k = cur
      BY <1>3
    <3>2. QED
      BY <1>1, <3>1 DEF StepCounts, Advanced
  <2>2. /\ \A k \in 1..cur : level_steps[k] =
             n_cycle[k] * (level_steps[k-1] - 1)
               + (IF k < cur THEN iter[k] ELSE iter[k] - 1)
        /\ \A l \in cur+1..finest_level : level_steps[l] = n_cycle[l] * level_steps[l-1]
    <3>1. \A k \in 1..cur : Advanced(k) <=> k < cur
      BY <1>1 DEF Advanced
    <3>2. QED
      BY <1>1, <1>2, <2>1, <3>1 DEF StepCounts, InStep
  <2>3. ASSUME NEW k \in 1..cur
        PROVE  level_steps'[k] = n_cycle[k] * (level_steps'[k-1] - 1) + iter[k]
    <3>1. k \in Levels /\ k - 1 \in Levels /\ k - 1 # cur /\ k \in Nat
      BY <1>3
    <3>2. level_steps'[k-1] = level_steps[k-1]
      BY <1>4, <3>1
    <3>3. CASE k = cur
      <4>1. /\ level_steps[k] = n_cycle[k] * (level_steps[k-1] - 1) + (iter[k] - 1)
            /\ level_steps'[k] = level_steps[k] + 1
        BY <1>3, <1>4, <2>2, <3>1, <3>3
      <4>2. n_cycle[k] * (level_steps[k-1] - 1) \in Int /\ iter[k] \in Int
        <5>1. n_cycle[k] \in Int /\ level_steps[k-1] - 1 \in Int /\ iter[k] \in Int
          BY <3>1, LevelTypes
        <5>2. \A a, b \in Int : a * b \in Int
          OBVIOUS
        <5>3. QED
          BY <5>1, <5>2
      <4>3. QED
        BY <3>2, <4>1, <4>2
    <3>4. CASE k # cur
      BY <1>3, <1>4, <2>2, <3>1, <3>2, <3>4
    <3>5. QED
      BY <3>3, <3>4
  <2>4. ASSUME NEW l \in cur+1..finest_level
        PROVE  level_steps'[l] = n_cycle[l] * (IF l = cur + 1
                                     THEN level_steps'[l-1] - 1 ELSE level_steps'[l-1])
    <3>1. l \in Levels /\ l - 1 \in Levels /\ l # cur /\ (l = cur + 1 <=> l - 1 = cur)
      BY <1>3
    <3>2. level_steps[l-1] \in Nat
      BY <3>1, LevelTypes
    <3>3. level_steps[l-1] = IF l = cur + 1 THEN level_steps'[l-1] - 1 ELSE level_steps'[l-1]
      BY <1>4, <3>1, <3>2
    <3>4. QED
      BY <1>4, <2>2, <3>1, <3>3
  <2>5. QED
    BY <2>3, <2>4
<1>10. Together'
  BY <1>1 DEF Together, InStep
<1>11. OldBeforeNew'
  <2>1. new_time[cur] \in Int /\ dt_level[cur] \in Nat
    BY <1>3, LevelTypes
  <2>2. QED
    BY <1>1, <1>2, <1>3, <1>4, <2>1 DEF OldBeforeNew
<1>12. QED
  BY <1>6, <1>7, <1>8, <1>9, <1>10, <1>11 DEF Timing

LEMMA TimingRecurse == TypeOK /\ Timing /\ Recurse => Timing'
<1> SUFFICES ASSUME TypeOK, Timing, Recurse PROVE Timing'
  OBVIOUS
<1>1. /\ pc = "advanced" /\ cur < finest_level /\ EnterTimeStep(cur + 1, time[cur], 1)
      /\ UNCHANGED <<inputs, hierarchy>>
      /\ job' = job /\ max_level' = max_level
      /\ n_cycle' = n_cycle /\ cumtime' = cumtime
      /\ rescaled' = rescaled /\ finest_level' = finest_level /\ dt_level' = dt_level
      /\ has_old' = has_old /\ old_time' = old_time /\ new_time' = new_time
      /\ level_steps' = level_steps
  BY DEF Recurse, inputs, hierarchy, state, counters
<1>2. StackOK /\ DtShared /\ FrameTimes /\ StepCounts /\ OldBeforeNew
  BY DEF Timing
<1>3. /\ cur \in 0..finest_level /\ cur \in Nat /\ finest_level \in Nat
      /\ \A l \in 0..finest_level : l \in Levels
      /\ cur + 1 \in 0..finest_level /\ cur + 1 \in 1..finest_level
  BY <1>1, <1>2, LevelTypes DEF StackOK, InStep
<1>4. /\ pc' = "regrid" /\ cur' = cur + 1 /\ time'[cur+1] = time[cur] /\ iter'[cur+1] = 1
      /\ \A k \in 0..finest_level : k # cur + 1 => time'[k] = time[k] /\ iter'[k] = iter[k]
      /\ StackOK'
  BY <1>1, <1>3, Entered
<1>5. DtShared'
  BY <1>1, <1>2, <1>4 DEF DtShared, InStep
<1>6. \A k \in 0..cur : k \in 0..finest_level /\ k # cur + 1 /\ Advanced(k) /\ Advanced(k)'
  BY <1>1, <1>3, <1>4 DEF Advanced
<1>7. \A k \in 1..cur : k \in 0..cur /\ k - 1 \in 0..cur
  BY <1>3
<1>8. \A k \in {cur + 1} : ~Advanced(k)'
  BY <1>3, <1>4 DEF Advanced
<1>9. /\ cur + 1 \in Levels /\ n_cycle[cur+1] >= 1 /\ dt_level[cur+1] \in Nat
      /\ time[cur] \in Int /\ n_cycle[cur+1] \in Nat /\ level_steps[cur] \in Nat
  BY <1>3, LevelTypes
<1>10. FrameTimes'
  <2>1. time'[0] = cumtime'
    BY <1>1, <1>2, <1>3, <1>4 DEF FrameTimes, InStep
  <2>2. \A k \in 1..cur : /\ 1 <= iter'[k] /\ iter'[k] <= n_cycle[k]
                          /\ time'[k] = time'[k-1] + (iter'[k] - 1) * dt_level[k]
    <3>1. \A k \in 1..cur : /\ time'[k] = time[k] /\ iter'[k] = iter[k]
                            /\ time'[k-1] = time[k-1]
      BY <1>4, <1>6, <1>7
    <3>2. \A k \in 1..cur : /\ 1 <= iter[k] /\ iter[k] <= n_cycle[k]
                            /\ time[k] = time[k-1] + (iter[k] - 1) * dt_level[k]
      BY <1>1, <1>2 DEF FrameTimes, InStep
    <3>3. QED
      BY <3>1, <3>2
  <2>3. /\ 1 <= iter'[cur+1] /\ iter'[cur+1] <= n_cycle[cur+1]
        /\ time'[cur+1] = time'[cur] + (iter'[cur+1] - 1) * dt_level[cur+1]
    <3>1. time'[cur] = time[cur] /\ (1 - 1) * dt_level[cur+1] = 0
      BY <1>3, <1>4, <1>9
    <3>2. QED
      BY <1>4, <1>9, <3>1
  <2>4. \A k \in 0..cur :
          has_old'[k] /\ old_time'[k] = time'[k] /\ new_time'[k] = time'[k] + dt_level[k]
    <3>1. \A k \in 0..cur :
            has_old[k] /\ old_time[k] = time[k] /\ new_time[k] = time[k] + dt_level[k]
      BY <1>1, <1>2, <1>6 DEF FrameTimes, InStep
    <3>2. QED
      BY <1>1, <1>4, <1>6, <3>1
  <2>5. \A l \in cur+1..finest_level : new_time[l] = time[cur]
    BY <1>1, <1>2 DEF FrameTimes, InStep
  <2>6. new_time'[cur+1] = time'[cur+1]
        /\ \A l \in cur+1+1..finest_level : new_time'[l] = time'[cur+1]
    <3>1. cur + 1 \in cur+1..finest_level /\ \A l \in cur+1+1..finest_level : l \in cur+1..finest_level
      BY <1>3
    <3>2. QED
      BY <1>1, <1>4, <2>5, <3>1
  <2>7. /\ \A k \in 1..cur' : k \in 1..cur \/ k = cur + 1
        /\ \A k \in 0..cur' : k \in 0..cur \/ k = cur + 1
    BY <1>3, <1>4
  <2>8. QED
    <3>1. \A k \in 1..cur' : /\ 1 <= iter'[k] /\ iter'[k] <= n_cycle'[k]
                             /\ time'[k] = time'[k-1] + (iter'[k] - 1) * dt_level'[k]
      <4>1. SUFFICES ASSUME NEW k \in 1..cur'
                     PROVE  /\ 1 <= iter'[k] /\ iter'[k] <= n_cycle'[k]
                            /\ time'[k] = time'[k-1] + (iter'[k] - 1) * dt_level'[k]
        OBVIOUS
      <4>2. CASE k \in 1..cur
        BY <1>1, <2>2, <4>2
      <4>3. CASE k = cur + 1
        <5>1. k - 1 = cur
          BY <1>3, <4>3
        <5>2. QED
          BY <1>1, <2>3, <4>3, <5>1
      <4>4. QED
        BY <2>7, <4>2, <4>3
    <3>2. \A k \in 0..cur' :
            IF Advanced(k)'
            THEN has_old'[k] /\ old_time'[k] = time'[k] /\ new_time'[k] = time'[k] + dt_level'[k]
            ELSE new_time'[k] = time'[k]
      <4>1. SUFFICES ASSUME NEW k \in 0..cur'
                     PROVE  IF Advanced(k)'
                            THEN /\ has_old'[k] /\ old_time'[k] = time'[k]
                                 /\ new_time'[k] = time'[k] + dt_level'[k]
                            ELSE new_time'[k] = time'[k]
        OBVIOUS
      <4>2. CASE k \in 0..cur
        BY <1>1, <1>6, <2>4, <4>2
      <4>3. CASE k = cur + 1
        BY <1>8, <2>6, <4>3
      <4>4. QED
        BY <2>7, <4>2, <4>3
    <3>3. \A l \in cur'+1..finest_level' : new_time'[l] = time'[cur']
      BY <1>1, <1>4, <2>6
    <3>4. QED
      BY <1>4, <2>1, <3>1, <3>2, <3>3 DEF FrameTimes
<1>11. Together'
  BY <1>4 DEF Together, InStep
<1>12. OldBeforeNew'
  BY <1>1, <1>2 DEF OldBeforeNew
<1>13. CASE ~rescaled
  <2>1. /\ \A k \in 1..cur : level_steps[k] = n_cycle[k] * (level_steps[k-1] - 1) + iter[k]
        /\ \A l \in cur+1..finest_level : level_steps[l] =
             n_cycle[l] * (IF l = cur + 1 THEN level_steps[l-1] - 1 ELSE level_steps[l-1])
    BY <1>1, <1>2, <1>6, <1>7, <1>13 DEF StepCounts, InStep
  <2>2. \A k \in 1..cur : iter'[k] = iter[k]
    BY <1>4, <1>6, <1>7
  <2>3. level_steps[cur+1] = n_cycle[cur+1] * (level_steps[cur] - 1) + (iter'[cur+1] - 1)
    <3>1. cur + 1 \in cur+1..finest_level /\ (cur + 1) - 1 = cur
      BY <1>3
    <3>2. level_steps[cur+1] = n_cycle[cur+1] * (level_steps[cur] - 1)
      BY <2>1, <3>1
    <3>3. n_cycle[cur+1] * (level_steps[cur] - 1) \in Int
      <4>1. \A a, b \in Int : a * b \in Int
        OBVIOUS
      <4>2. level_steps[cur] - 1 \in Int /\ n_cycle[cur+1] \in Int
        BY <1>9
      <4>3. QED
        BY <4>1, <4>2
    <3>4. QED
      BY <1>4, <3>2, <3>3
  <2>4. ASSUME NEW k \in 1..cur'
        PROVE  level_steps'[k] = n_cycle'[k] * (level_steps'[k-1] - 1)
                                   + (IF Advanced(k)' THEN iter'[k] ELSE iter'[k] - 1)
    <3>1. CASE k = cur + 1
      <4>1. k - 1 = cur
        BY <1>3, <3>1
      <4>2. QED
        BY <1>1, <1>8, <2>3, <3>1, <4>1
    <3>2. CASE k # cur + 1
      <4>1. k \in 1..cur /\ k \in 0..cur
        BY <1>3, <1>4, <3>2
      <4>2. QED
        BY <1>1, <1>6, <2>1, <2>2, <4>1
    <3>3. QED
      BY <3>1, <3>2
  <2>5. ASSUME NEW l \in cur'+1..finest_level'
        PROVE  level_steps'[l] = n_cycle'[l] * level_steps'[l-1]
    <3>1. l \in cur+1..finest_level /\ l # cur + 1
      BY <1>1, <1>3, <1>4
    <3>2. QED
      BY <1>1, <2>1, <3>1
  <2>6. StepCounts'
    BY <1>4, <2>4, <2>5 DEF StepCounts
  <2>7. QED
    BY <1>4, <1>5, <1>10, <1>11, <1>12, <2>6 DEF Timing
<1>14. CASE rescaled
  BY <1>1, <1>4, <1>5, <1>10, <1>11, <1>12, <1>14 DEF Timing, StepCounts
<1>15. QED
  BY <1>13, <1>14

LEMMA TimingNoFiner == TypeOK /\ Timing /\ NoFiner => Timing'
<1> SUFFICES ASSUME TypeOK, Timing, NoFiner PROVE Timing'
  OBVIOUS
<1>1. /\ pc = "advanced" /\ cur >= finest_level /\ pc' = "post_timestep"
      /\ job' = job /\ max_level' = max_level /\ n_cycle' = n_cycle /\ cumtime' = cumtime
      /\ cur' = cur /\ time' = time /\ iter' = iter /\ lev' = lev /\ lev_top' = lev_top
      /\ rescaled' = rescaled /\ finest_level' = finest_level /\ dt_level' = dt_level
      /\ has_old' = has_old /\ old_time' = old_time /\ new_time' = new_time
      /\ level_steps' = level_steps
  BY DEF NoFiner, inputs, hierarchy, state, counters, frames, loop
<1>2. StackOK /\ DtShared /\ FrameTimes /\ StepCounts /\ OldBeforeNew
  BY DEF Timing
<1>3. cur \in 0..finest_level /\ cur = finest_level /\ cur \in Nat
  BY <1>1, <1>2, LevelTypes DEF StackOK, InStep
<1>4. \A k \in 0..cur : Advanced(k) /\ Advanced(k)'
  BY <1>1, <1>3 DEF Advanced
<1>5. (\A l \in cur+1..finest_level : FALSE) /\ \A k \in 1..cur : k \in 0..cur
  BY <1>3
<1>6. StackOK' /\ DtShared' /\ Together' /\ OldBeforeNew'
  BY <1>1, <1>2, <1>3 DEF StackOK, DtShared, Together, OldBeforeNew, InStep
<1>7. FrameTimes'
  BY <1>1, <1>2, <1>4, <1>5 DEF FrameTimes, InStep
<1>8. StepCounts'
  BY <1>1, <1>2, <1>4, <1>5 DEF StepCounts, InStep
<1>9. QED
  BY <1>6, <1>7, <1>8 DEF Timing

\* The state in which a level has finished, as the lemmas of PostTimeStep use it.
LEMMA FinishedFrame ==
  ASSUME TypeOK, Timing, pc = "post_timestep"
  PROVE  /\ cur \in 0..finest_level /\ cur \in Nat /\ finest_level \in Nat
         /\ \A l \in 0..finest_level : l \in Levels
         /\ \A k \in 0..cur : has_old[k] /\ old_time[k] = time[k]
                              /\ new_time[k] = time[k] + dt_level[k]
         /\ \A k \in 1..cur : /\ 1 <= iter[k] /\ iter[k] <= n_cycle[k]
                              /\ time[k] = time[k-1] + (iter[k] - 1) * dt_level[k]
         /\ \A l \in cur..finest_level : new_time[l] = time[cur] + dt_level[cur]
         /\ ~rescaled =>
              /\ \A k \in 1..cur : level_steps[k] = n_cycle[k] * (level_steps[k-1] - 1) + iter[k]
              /\ \A l \in cur+1..finest_level : level_steps[l] = n_cycle[l] * level_steps[l-1]
         /\ time[0] = cumtime
<1>1. StackOK /\ FrameTimes /\ StepCounts
  BY DEF Timing
<1>2. /\ cur \in 0..finest_level /\ cur \in Nat /\ finest_level \in Nat
      /\ \A l \in 0..finest_level : l \in Levels
  BY <1>1, LevelTypes DEF StackOK, InStep
<1>3. /\ \A k \in 0..cur : Advanced(k)
      /\ \A k \in 1..cur : k \in 0..cur
  BY <1>2 DEF Advanced
<1>4. \A k \in 0..cur : has_old[k] /\ old_time[k] = time[k]
                        /\ new_time[k] = time[k] + dt_level[k]
  BY <1>1, <1>3 DEF FrameTimes, InStep
<1>5. /\ \A k \in 1..cur : /\ 1 <= iter[k] /\ iter[k] <= n_cycle[k]
                           /\ time[k] = time[k-1] + (iter[k] - 1) * dt_level[k]
      /\ time[0] = cumtime
  BY <1>1 DEF FrameTimes, InStep
<1>6. \A l \in cur..finest_level : new_time[l] = time[cur] + dt_level[cur]
  <2>1. \A l \in cur+1..finest_level : new_time[l] = time[cur] + dt_level[cur]
    BY <1>1 DEF FrameTimes, InStep
  <2>2. \A l \in cur..finest_level : l = cur \/ l \in cur+1..finest_level
    BY <1>2
  <2>3. cur \in 0..cur
    BY <1>2
  <2>4. QED
    BY <1>4, <2>1, <2>2, <2>3
<1>7. ~rescaled =>
        /\ \A k \in 1..cur : level_steps[k] = n_cycle[k] * (level_steps[k-1] - 1) + iter[k]
        /\ \A l \in cur+1..finest_level : level_steps[l] = n_cycle[l] * level_steps[l-1]
  BY <1>1, <1>3 DEF StepCounts, InStep
<1>8. QED
  BY <1>2, <1>4, <1>5, <1>6, <1>7

\* The next subcycle of a level begins where the last one ended.
LEMMA TimingNextSubcycle ==
  ASSUME TypeOK, Timing, pc = "post_timestep", cur > 0, iter[cur] < ncycle(cur),
         EnterTimeStep(cur, SubcycleTime(cur), iter[cur] + 1),
         UNCHANGED <<inputs, hierarchy, state, dt_level, counters, cumtime, rescaled>>
  PROVE  Timing'
<1>1. /\ job' = job /\ max_level' = max_level /\ n_cycle' = n_cycle /\ cumtime' = cumtime
      /\ rescaled' = rescaled /\ finest_level' = finest_level /\ dt_level' = dt_level
      /\ has_old' = has_old /\ old_time' = old_time /\ new_time' = new_time
      /\ level_steps' = level_steps
  BY DEF inputs, hierarchy, state, counters
<1>2. StackOK /\ DtShared /\ FrameTimes /\ StepCounts /\ OldBeforeNew
  BY DEF Timing
<1>3. /\ cur \in 0..finest_level /\ cur \in Nat /\ finest_level \in Nat
      /\ \A l \in 0..finest_level : l \in Levels
      /\ \A k \in 0..cur : has_old[k] /\ old_time[k] = time[k]
                           /\ new_time[k] = time[k] + dt_level[k]
      /\ \A k \in 1..cur : /\ 1 <= iter[k] /\ iter[k] <= n_cycle[k]
                           /\ time[k] = time[k-1] + (iter[k] - 1) * dt_level[k]
      /\ \A l \in cur..finest_level : new_time[l] = time[cur] + dt_level[cur]
      /\ ~rescaled =>
           /\ \A k \in 1..cur : level_steps[k] = n_cycle[k] * (level_steps[k-1] - 1) + iter[k]
           /\ \A l \in cur+1..finest_level : level_steps[l] = n_cycle[l] * level_steps[l-1]
      /\ time[0] = cumtime
  BY FinishedFrame
<1> DEFINE t == SubcycleTime(cur)
           i == iter[cur] + 1
<1>4. UNCHANGED <<inputs, hierarchy>>
  OBVIOUS
<1>5. /\ pc' = "regrid" /\ cur' = cur /\ time'[cur] = t /\ iter'[cur] = i
      /\ \A k \in 0..finest_level : k # cur => time'[k] = time[k] /\ iter'[k] = iter[k]
      /\ StackOK'
  BY <1>3, <1>4, Entered
<1>6. /\ cur \in Levels /\ cur - 1 \in Levels /\ cur - 1 \in 0..finest_level
      /\ iter[cur] \in Nat /\ time[cur-1] \in Int
      /\ dt_level[cur] \in Nat /\ 1 <= iter[cur] /\ n_cycle[cur] \in Nat
  BY <1>3, LevelTypes
<1>7. iter[cur] < n_cycle[cur] /\ i - 1 = iter[cur] /\ 1 <= i /\ i <= n_cycle[cur]
  BY <1>2, <1>6, NCycleIs
<1>8. t = time[cur-1] + (i - 1) * dt_level[cur] /\ t = time[cur] + dt_level[cur]
  <2>1. t = time[cur-1] + iter[cur] * dt_level[cur]
    BY DEF SubcycleTime
  <2>2. time[cur] + dt_level[cur] = time[cur-1] + iter[cur] * dt_level[cur]
    BY <1>2, FrameInside DEF InStep
  <2>3. QED
    BY <1>7, <2>1, <2>2
<1> HIDE DEF t, i
<1>9. /\ \A k \in 0..cur : k \in 0..finest_level
      /\ \A k \in 1..cur : k \in 0..finest_level /\ k - 1 \in 0..finest_level /\ k - 1 # cur
  BY <1>3
<1>10. \A k \in 0..cur : Advanced(k)' <=> k < cur
  BY <1>3, <1>5 DEF Advanced
<1>11. DtShared' /\ Together' /\ OldBeforeNew'
  BY <1>1, <1>2, <1>5 DEF DtShared, Together, OldBeforeNew, InStep
<1>12. FrameTimes'
  <2>1. ASSUME NEW k \in 1..cur
        PROVE  /\ 1 <= iter'[k] /\ iter'[k] <= n_cycle[k]
               /\ time'[k] = time'[k-1] + (iter'[k] - 1) * dt_level[k]
    <3>1. time'[k-1] = time[k-1]
      BY <1>5, <1>9
    <3>2. CASE k = cur
      BY <1>5, <1>7, <1>8, <3>1, <3>2
    <3>3. CASE k # cur
      BY <1>3, <1>5, <1>9, <3>1, <3>3
    <3>4. QED
      BY <3>2, <3>3
  <2>2. ASSUME NEW k \in 0..cur
        PROVE  IF k < cur
               THEN has_old[k] /\ old_time[k] = time'[k] /\ new_time[k] = time'[k] + dt_level[k]
               ELSE new_time[k] = time'[k]
    <3>1. CASE k < cur
      <4>1. time'[k] = time[k]
        BY <1>3, <1>5, <1>9, <3>1
      <4>2. QED
        BY <1>3, <3>1, <4>1
    <3>2. CASE ~(k < cur)
      <4>1. k = cur
        BY <1>3, <3>2
      <4>2. QED
        BY <1>3, <1>5, <1>8, <4>1
    <3>3. QED
      BY <3>1, <3>2
  <2>3. \A l \in cur+1..finest_level : new_time[l] = time'[cur]
    <3>1. \A l \in cur+1..finest_level : l \in cur..finest_level
      BY <1>3
    <3>2. QED
      BY <1>3, <1>5, <1>8, <3>1
  <2>4. time'[0] = cumtime
    BY <1>3, <1>5, <1>9
  <2>5. QED
    BY <1>1, <1>5, <1>10, <2>1, <2>2, <2>3, <2>4 DEF FrameTimes
<1>13. StepCounts'
  <2>1. CASE rescaled
    BY <1>1, <2>1 DEF StepCounts
  <2>2. CASE ~rescaled
    <3>1. \A k \in 1..cur : k \in 0..cur /\ (k = cur \/ k < cur)
      BY <1>3
    <3>2. i = iter[cur] + 1
      BY DEF i
    <3>3. ASSUME NEW k \in 1..cur
          PROVE  level_steps[k] = n_cycle[k] * (level_steps[k-1] - 1)
                                    + (IF k < cur THEN iter'[k] ELSE iter'[k] - 1)
      <4>1. CASE k = cur
        BY <1>3, <1>5, <1>7, <2>2, <4>1
      <4>2. CASE k # cur
        BY <1>3, <1>5, <1>9, <2>2, <3>1, <4>2
      <4>3. QED
        BY <4>1, <4>2
    <3>4. \A l \in cur+1..finest_level : level_steps[l] = n_cycle[l] * level_steps[l-1]
      BY <1>3, <2>2
    <3>5. QED
      BY <1>1, <1>5, <1>10, <3>1, <3>3, <3>4 DEF StepCounts
  <2>3. QED
    BY <2>1, <2>2
<1>14. QED
  BY <1>5, <1>11, <1>12, <1>13 DEF Timing

\* After its last subcycle the level has caught up with the level below.
LEMMA TimingReturn ==
  ASSUME TypeOK, Timing, pc = "post_timestep", cur > 0, iter[cur] >= ncycle(cur),
         cur' = cur - 1, UNCHANGED <<pc, time, iter>>,
         UNCHANGED <<inputs, hierarchy, state, dt_level, counters, cumtime, rescaled>>
  PROVE  Timing'
<1>1. /\ job' = job /\ max_level' = max_level /\ n_cycle' = n_cycle /\ cumtime' = cumtime
      /\ rescaled' = rescaled /\ finest_level' = finest_level /\ dt_level' = dt_level
      /\ has_old' = has_old /\ old_time' = old_time /\ new_time' = new_time
      /\ level_steps' = level_steps /\ pc' = "post_timestep" /\ time' = time /\ iter' = iter
      /\ cur' = cur - 1
  BY DEF inputs, hierarchy, state, counters
<1>2. StackOK /\ DtShared /\ FrameTimes /\ StepCounts /\ OldBeforeNew
  BY DEF Timing
<1>3. /\ cur \in 0..finest_level /\ cur \in Nat /\ finest_level \in Nat
      /\ \A l \in 0..finest_level : l \in Levels
      /\ \A k \in 0..cur : has_old[k] /\ old_time[k] = time[k]
                           /\ new_time[k] = time[k] + dt_level[k]
      /\ \A k \in 1..cur : /\ 1 <= iter[k] /\ iter[k] <= n_cycle[k]
                           /\ time[k] = time[k-1] + (iter[k] - 1) * dt_level[k]
      /\ \A l \in cur..finest_level : new_time[l] = time[cur] + dt_level[cur]
      /\ ~rescaled =>
           /\ \A k \in 1..cur : level_steps[k] = n_cycle[k] * (level_steps[k-1] - 1) + iter[k]
           /\ \A l \in cur+1..finest_level : level_steps[l] = n_cycle[l] * level_steps[l-1]
      /\ time[0] = cumtime
  BY FinishedFrame
<1>4. /\ cur \in Levels /\ cur - 1 \in Levels /\ iter[cur] \in Nat /\ n_cycle[cur] \in Nat
      /\ level_steps[cur-1] \in Nat /\ cur \in 1..cur /\ cur \in 1..finest_level
  BY <1>3, LevelTypes
<1>5. iter[cur] = n_cycle[cur]
  <2>1. ncycle(cur) = n_cycle[cur]
    BY <1>2, <1>4, NCycleIs
  <2>2. iter[cur] <= n_cycle[cur]
    BY <1>3, <1>4
  <2>3. QED
    BY <1>4, <2>1, <2>2
<1>6. time[cur] + dt_level[cur] = time[cur-1] + dt_level[cur-1]
  BY <1>2, <1>5, FrameInside DEF InStep
<1>7. /\ \A k \in 0..cur-1 : k \in 0..cur
      /\ \A k \in 1..cur-1 : k \in 1..cur /\ k \in 0..cur-1
      /\ \A l \in cur..finest_level : l = cur \/ l \in cur+1..finest_level
      /\ (cur - 1) + 1 = cur
  BY <1>3
<1>8. \A k \in 0..cur-1 : Advanced(k)'
  BY <1>1, <1>3 DEF Advanced
<1>9. StackOK'
  BY <1>1, <1>3 DEF StackOK, InStep
<1>10. DtShared' /\ Together' /\ OldBeforeNew'
  BY <1>1, <1>2 DEF DtShared, Together, OldBeforeNew, InStep
<1>11. FrameTimes'
  <2>1. \A l \in cur..finest_level : new_time[l] = time[cur-1] + dt_level[cur-1]
    BY <1>3, <1>6
  <2>2. \A k \in 1..cur-1 : /\ 1 <= iter[k] /\ iter[k] <= n_cycle[k]
                            /\ time[k] = time[k-1] + (iter[k] - 1) * dt_level[k]
    BY <1>3, <1>7
  <2>3. \A k \in 0..cur-1 : has_old[k] /\ old_time[k] = time[k]
                            /\ new_time[k] = time[k] + dt_level[k]
    BY <1>3, <1>7
  <2>4. QED
    BY <1>1, <1>3, <1>7, <1>8, <2>1, <2>2, <2>3 DEF FrameTimes
<1>12. StepCounts'
  <2>1. CASE rescaled
    BY <1>1, <2>1 DEF StepCounts
  <2>2. CASE ~rescaled
    <3>1. level_steps[cur] = n_cycle[cur] * level_steps[cur-1]
      <4>1. level_steps[cur] = n_cycle[cur] * (level_steps[cur-1] - 1) + n_cycle[cur]
        BY <1>3, <1>4, <1>5, <2>2
      <4>2. \A n, s \in Nat : n * (s - 1) + n = n * s
        OBVIOUS
      <4>3. QED
        BY <1>4, <4>1, <4>2
    <3>2. \A l \in cur..finest_level : level_steps[l] = n_cycle[l] * level_steps[l-1]
      BY <1>3, <1>7, <2>2, <3>1
    <3>3. \A k \in 1..cur-1 : level_steps[k] = n_cycle[k] * (level_steps[k-1] - 1) + iter[k]
      BY <1>3, <1>7, <2>2
    <3>4. QED
      BY <1>1, <1>7, <1>8, <3>2, <3>3 DEF StepCounts
  <2>3. QED
    BY <2>1, <2>2
<1>13. QED
  BY <1>9, <1>10, <1>11, <1>12 DEF Timing

LEMMA TimingStepEnd ==
  ASSUME TypeOK, Timing, pc = "post_timestep", cur = 0, cur' = -1, pc' = "coarse_end",
         UNCHANGED <<inputs, hierarchy, state, dt_level, counters, cumtime, rescaled>>
  PROVE  Timing'
<1>1. /\ job' = job /\ n_cycle' = n_cycle /\ cumtime' = cumtime
      /\ rescaled' = rescaled /\ finest_level' = finest_level /\ dt_level' = dt_level
      /\ old_time' = old_time /\ new_time' = new_time /\ level_steps' = level_steps
  BY DEF inputs, hierarchy, state, counters
<1>2. DtShared /\ OldBeforeNew
  BY DEF Timing
<1>3. /\ \A l \in 0..finest_level : new_time[l] = cumtime + dt_level[0]
      /\ ~rescaled => \A l \in 1..finest_level : level_steps[l] = n_cycle[l] * level_steps[l-1]
  BY FinishedFrame
<1>4. \A l \in 1..finest_level : dt_level[l-1] = n_cycle[l] * dt_level[l]
  BY <1>2, StepRatio DEF InStep
<1>5. StackOK' /\ DtShared' /\ FrameTimes' /\ StepCounts' /\ OldBeforeNew'
  BY <1>1, <1>2 DEF StackOK, DtShared, FrameTimes, StepCounts, OldBeforeNew, InStep
<1>6. Together'
  BY <1>1, <1>3, <1>4 DEF Together, InRatio
<1>7. QED
  BY <1>5, <1>6 DEF Timing

LEMMA TimingPostTimeStep == TypeOK /\ Timing /\ PostTimeStep => Timing'
<1> SUFFICES ASSUME TypeOK, Timing, PostTimeStep PROVE Timing'
  OBVIOUS
<1>1. /\ pc = "post_timestep"
      /\ UNCHANGED <<inputs, hierarchy, state, dt_level, counters, cumtime, rescaled>>
  BY DEF PostTimeStep
<1>2. \/ /\ cur > 0 /\ iter[cur] < ncycle(cur)
         /\ EnterTimeStep(cur, SubcycleTime(cur), iter[cur] + 1)
      \/ /\ cur > 0 /\ iter[cur] >= ncycle(cur)
         /\ cur' = cur - 1 /\ UNCHANGED <<pc, time, iter>>
      \/ cur = 0 /\ cur' = -1 /\ pc' = "coarse_end"
  BY DEF PostTimeStep
<1>3. QED
  BY <1>1, <1>2, TimingNextSubcycle, TimingReturn, TimingStepEnd

\* Steps of the main loop and of checkPoint leave the levels alone.
LEMMA TimingAside ==
  ASSUME Timing, pc \in {"main"} \cup Saving, pc' \in {"main", "done", "aborted"} \cup Saving,
         UNCHANGED <<inputs, hierarchy, state, dt_level, counters, cumtime, frames, rescaled>>
  PROVE  Timing'
<1>1. /\ job' = job /\ n_cycle' = n_cycle /\ cumtime' = cumtime
      /\ rescaled' = rescaled /\ finest_level' = finest_level /\ dt_level' = dt_level
      /\ old_time' = old_time /\ new_time' = new_time /\ level_steps' = level_steps
      /\ cur' = cur
  BY DEF inputs, hierarchy, state, counters, frames
<1>2. pc' \notin InStep \cup {"down", "coarse_end"} /\ pc \notin InStep \cup {"down", "coarse_end"}
  BY DEF InStep, Saving
<1>3. pc # "down" /\ pc' # "down" /\ pc # "coarse_end" /\ pc' # "coarse_end"
      /\ pc \notin InStep /\ pc' \notin InStep /\ pc' # "regrid"
  BY <1>2 DEF InStep
<1>4. StackOK' /\ DtShared' /\ FrameTimes' /\ StepCounts' /\ OldBeforeNew'
  BY <1>1, <1>3 DEF Timing, StackOK, DtShared, FrameTimes, StepCounts, OldBeforeNew
<1>5. Together'
  BY <1>1, <1>3 DEF Timing, Together
<1>6. QED
  BY <1>4, <1>5 DEF Timing

LEMMA TimingCoarseEnd == TypeOK /\ Timing /\ CoarseEnd => Timing'
<1> SUFFICES ASSUME TypeOK, Timing, CoarseEnd PROVE Timing'
  OBVIOUS
<1>1. /\ pc = "coarse_end" /\ pc' \in {"main", "checkpoint"} /\ cumtime' = cumtime + dt_level[0]
      /\ job' = job /\ n_cycle' = n_cycle
      /\ rescaled' = rescaled /\ finest_level' = finest_level /\ dt_level' = dt_level
      /\ old_time' = old_time /\ new_time' = new_time /\ level_steps' = level_steps
      /\ cur' = cur
  BY DEF CoarseEnd, inputs, hierarchy, state, counters, frames
<1>2. pc' \notin InStep \cup {"down", "coarse_end"} /\ pc \notin InStep /\ pc # "down"
      /\ pc' # "regrid" /\ pc' # "coarse_end" /\ pc' # "down"
  BY <1>1 DEF InStep
<1>3. StackOK' /\ DtShared' /\ FrameTimes' /\ StepCounts' /\ OldBeforeNew'
  BY <1>1, <1>2 DEF Timing, StackOK, DtShared, FrameTimes, StepCounts, OldBeforeNew
<1>4. Together'
  BY <1>1, <1>2 DEF Timing, Together
<1>5. QED
  BY <1>3, <1>4 DEF Timing

LEMMA TimingFiles ==
  TypeOK /\ Timing /\ (FinalCheckpoint \/ CheckpointBegin \/ CheckpointWrite \/ CheckpointCheck)
    => Timing'
<1> SUFFICES ASSUME TypeOK, Timing,
                    FinalCheckpoint \/ CheckpointBegin \/ CheckpointWrite \/ CheckpointCheck
             PROVE  Timing'
  OBVIOUS
<1>1. /\ pc \in {"main"} \cup Saving /\ pc' \in {"done", "aborted", ret} \cup Saving
      /\ UNCHANGED <<inputs, hierarchy, state, dt_level, counters, cumtime, frames, rescaled>>
  BY DEF FinalCheckpoint, CheckpointBegin, CheckpointWrite, CheckpointCheck, Saving
<1>2. pc' \in {"main", "done", "aborted"} \cup Saving
  BY <1>1 DEF TypeOK, TypeInputs
<1>3. QED
  BY <1>1, <1>2, TimingAside

LEMMA TimingInitialInit == TypeOK /\ Timing /\ InitialInit => Timing'
<1> SUFFICES ASSUME TypeOK, Timing, InitialInit PROVE Timing'
  OBVIOUS
<1> DEFINE Chosen(mx, n, dt_0, f) ==
         /\ max_level' = mx /\ n_cycle' = n
         /\ finest_level' = f
         /\ dt_level' = ShareDt(dt_0, f, n, dt_level)
         /\ old_time' = [l \in Levels |-> IF l <= f THEN 0 - dt_level'[l] ELSE 0]
<1>0. PICK mx \in job.max_level, n \in job.n_cycle, dt_0 \in job.dts :
        \E f \in 0..mx : Chosen(mx, n, dt_0, f)
  BY DEF InitialInit
<1>1. PICK f \in 0..mx : Chosen(mx, n, dt_0, f)
  BY <1>0
<1>2. /\ pc = "down" /\ pc' \in {"main", "checkpoint"} /\ job' = job /\ cumtime' = 0
      /\ new_time' = [l \in Levels |-> 0] /\ level_steps' = [l \in Levels |-> 0] /\ cur' = cur
  BY DEF InitialInit, frames
<1>3. pc' \notin InStep \cup {"down", "coarse_end"} /\ pc \notin InStep
      /\ pc' # "regrid" /\ pc' # "coarse_end" /\ pc' # "down"
  BY <1>2 DEF InStep
<1>4. /\ job \in Jobs /\ n \in Cycles(job) /\ mx \in Levels /\ dt_0 \in Nat
      /\ n \in [Levels -> Nat \ {0}] /\ dt_level \in [Levels -> Nat]
  BY JobIs, CyclesType DEF TypeOK, TypeInputs, TypeLevels
<1>5. mx \in Nat /\ mx <= MaxLevel /\ MaxLevel \in Nat
  BY <1>4, LevelsType DEF Levels
<1>6. f \in Nat /\ f <= mx /\ \A l \in 0..f : l \in Levels /\ l <= f
  BY <1>5 DEF Levels
<1>7. StackOK' /\ FrameTimes' /\ StepCounts'
  BY <1>2, <1>3 DEF Timing, StackOK, FrameTimes, StepCounts
<1>8. DtShared'
  BY <1>1, <1>2, <1>3, <1>4 DEF DtShared
<1>9. \A l \in 0..f : dt_level'[l] = dt_0 \div NFactor(n)[l] /\ dt_level'[l] \in Nat
  <2>1. dt_level' \in [Levels -> Nat]
    BY <1>1, <1>4, <1>6, ShareDtType
  <2>2. QED
    BY <1>1, <1>6, <2>1 DEF ShareDt
<1>10. InRatio(level_steps', dt_level', n, f)
  <2>1. ASSUME NEW l \in 1..f
        PROVE  /\ level_steps'[l] = n[l] * level_steps'[l-1]
               /\ dt_level'[l-1] = n[l] * dt_level'[l]
    <3>1. l \in 0..f /\ l - 1 \in 0..f /\ l \in Levels /\ l - 1 \in Levels /\ l # 0
      BY <1>6
    <3>2. dt_0 \div NFactor(n)[l-1] = n[l] * (dt_0 \div NFactor(n)[l])
      BY <1>4, <3>1, SharesInRatio
    <3>3. n[l] * 0 = 0
      BY <1>4, <3>1
    <3>4. QED
      BY <1>2, <1>9, <3>1, <3>2, <3>3
  <2>2. QED
    BY <2>1 DEF InRatio
<1>11. Together'
  <2>1. \A l \in 0..f : new_time'[l] = 0
    BY <1>2, <1>6
  <2>2. QED
    BY <1>1, <1>2, <1>3, <1>10, <2>1 DEF Together
<1>12. OldBeforeNew'
  <2>1. \A l \in 0..f : old_time'[l] = 0 - dt_level'[l] /\ new_time'[l] = 0
    BY <1>1, <1>2, <1>6
  <2>2. \A l \in 0..f : old_time'[l] <= new_time'[l]
    BY <1>9, <2>1
  <2>3. QED
    BY <1>1, <2>2 DEF OldBeforeNew
<1>13. QED
  BY <1>7, <1>8, <1>11, <1>12 DEF Timing

LEMMA TimingRestart == TypeOK /\ FilesOK /\ Timing /\ Restart => Timing'
<1> SUFFICES ASSUME TypeOK, FilesOK, Timing, Restart PROVE Timing'
  OBVIOUS
<1>1. PICK c \in disk, mx \in job.max_level, n \in job.n_cycle : RestartFrom(c, mx, n)
  BY DEF Restart, RestartFrom
<1>2. /\ n_cycle' \in Cycles(job)
      /\ finest_level' \in 0..mx /\ finest_level' <= c.finest_level
      /\ ~rescaled' => ~rescaled
      /\ \A l \in 0..finest_level' : /\ dt_level'[l] = c.dt_level[l]
                                     /\ level_steps'[l] = c.level_steps[l]
                                     /\ ~rescaled' => n_cycle'[l] = c.n_cycle[l]
  BY <1>1, RestartVectors
<1>3. /\ pc = "down" /\ pc' = "main" /\ job' = job /\ cur' = cur /\ cumtime' = c.cumtime
      /\ old_time' = [l \in Levels |-> IF l <= finest_level' THEN c.old_time[l] ELSE 0]
      /\ new_time' = [l \in Levels |-> IF l <= finest_level' THEN c.new_time[l] ELSE 0]
  BY <1>1 DEF Restart, RestartFrom, frames
<1>4. /\ mx \in Levels /\ FileOK(c) /\ c.finest_level \in Levels
  BY JobIs, FileIs DEF TypeOK, TypeInputs, TypeFiles, FilesOK
<1>5. /\ mx \in Nat /\ mx <= MaxLevel /\ MaxLevel \in Nat /\ c.finest_level \in Nat
  BY <1>4, LevelsType DEF Levels
<1>6. finest_level' \in Nat /\ finest_level' <= mx
  BY <1>2, <1>5
<1>7. \A l \in 0..finest_level' : l \in Levels /\ l <= finest_level' /\ l \in 0..c.finest_level
  BY <1>2, <1>5, <1>6 DEF Levels
<1>8. StackOK' /\ FrameTimes' /\ StepCounts' /\ DtShared'
  BY <1>2, <1>3 DEF Timing, StackOK, FrameTimes, StepCounts, DtShared, InStep
<1>9. \A l \in 0..finest_level' : new_time'[l] = c.new_time[l] /\ old_time'[l] = c.old_time[l]
  BY <1>3, <1>7
<1>10. OldBeforeNew'
  BY <1>4, <1>7, <1>9 DEF OldBeforeNew, FileOK
<1>11. ~rescaled' => InRatio(level_steps', dt_level', n_cycle', finest_level')
  <2>1. SUFFICES ASSUME ~rescaled', NEW l \in 1..finest_level'
                 PROVE  /\ level_steps'[l] = n_cycle'[l] * level_steps'[l-1]
                        /\ dt_level'[l-1] = n_cycle'[l] * dt_level'[l]
    BY DEF InRatio
  <2>2. l \in 0..finest_level' /\ l - 1 \in 0..finest_level' /\ l \in 1..c.finest_level
    BY <1>2, <1>5, <1>6
  <2>3. InRatio(c.level_steps, c.dt_level, c.n_cycle, c.finest_level)
    BY <1>2, <1>4, <2>1 DEF FileOK
  <2>4. QED
    BY <1>2, <2>1, <2>2, <2>3 DEF InRatio
<1>12. Together'
  <2>1. \A l \in 0..finest_level' : new_time'[l] = cumtime'
    BY <1>3, <1>4, <1>7, <1>9 DEF FileOK
  <2>2. QED
    BY <1>3, <1>11, <2>1 DEF Together
<1>13. QED
  BY <1>8, <1>10, <1>12 DEF Timing

LEMMA TimingCrash == TypeOK /\ Timing /\ Crash => Timing'
<1> SUFFICES ASSUME TypeOK, Timing, Crash PROVE Timing'
  OBVIOUS
<1>1. /\ pc' = "down" /\ cur' = -1 /\ finest_level' = 0 /\ cumtime' = 0
      /\ new_time' = [l \in Levels |-> 0] /\ old_time' = [l \in Levels |-> 0]
  BY DEF Crash
<1>2. \A l \in 0..0 : l \in Levels /\ new_time'[l] = 0 /\ old_time'[l] = 0
  BY <1>1, LevelsType
<1>3. StackOK' /\ FrameTimes' /\ StepCounts' /\ DtShared'
  BY <1>1 DEF StackOK, FrameTimes, StepCounts, DtShared, InStep
<1>4. Together' /\ OldBeforeNew'
  BY <1>1, <1>2 DEF Together, OldBeforeNew
<1>5. QED
  BY <1>3, <1>4 DEF Timing

LEMMA TimingInit == Init => Timing
<1> SUFFICES ASSUME Init PROVE Timing
  OBVIOUS
<1>1. /\ pc = "down" /\ cur = -1 /\ finest_level = 0 /\ cumtime = 0
      /\ new_time = [l \in Levels |-> 0] /\ old_time = [l \in Levels |-> 0]
  BY DEF Init, Down
<1>2. \A l \in 0..0 : l \in Levels /\ new_time[l] = 0 /\ old_time[l] = 0
  BY <1>1, LevelsType
<1>3. StackOK /\ FrameTimes /\ StepCounts /\ DtShared
  BY <1>1 DEF StackOK, FrameTimes, StepCounts, DtShared, InStep
<1>4. Together /\ OldBeforeNew
  BY <1>1, <1>2 DEF Together, OldBeforeNew
<1>5. QED
  BY <1>3, <1>4 DEF Timing

-----------------------------------------------------------------------------
(* Checkpoint files.                                                       *)

Files == FilesOK /\ PastOrigin /\ LastKept /\ RestartFileKept

\* The step that is under way has been counted for level 0, or a file of it is written.
Later == pc \in Saving \cup {"coarse_end"} \/ (pc \in InStep /\ Advanced(0))

\* The two cases of LastKept.
AtLast   == pc \in {"main", "ck_check"} \/ (pc = "regrid" /\ cur = 0)
PastLast == pc = "coarse_end" \/ (pc \in InStep /\ Advanced(0))

Due(s) == \E c \in disk : Recent(c, s)

LEMMA FileOKKept ==
  ASSUME NEW c, FileOK(c), job' = job, ~rescaled' => ~rescaled,
         write_errors' = 0 => write_errors = 0
  PROVE  FileOK(c)'
BY DEF FileOK

LEMMA PastOriginKept ==
  ASSUME TypeOK, PastOrigin, pc' # "down", origin' = origin,
         level_steps'[0] \in Nat, level_steps'[0] >= level_steps[0],
         last_checkpoint' \in {last_checkpoint, level_steps[0]},
         Later' => Later \/ level_steps'[0] > level_steps[0] \/ last_checkpoint < level_steps[0]
  PROVE  PastOrigin'
<1>1. /\ level_steps[0] \in Nat /\ last_checkpoint \in Nat /\ origin \in Int
  BY LevelsType DEF TypeOK, TypeLevels, TypeFiles
<1>2. SUFFICES ASSUME origin >= 0
               PROVE  /\ level_steps'[0] >= origin /\ last_checkpoint' >= origin
                      /\ Later' => level_steps'[0] > origin
  BY DEF PastOrigin, Later
<1>3. /\ level_steps[0] >= origin /\ last_checkpoint >= origin
      /\ Later => level_steps[0] > origin
  BY <1>2 DEF PastOrigin, Later
<1>4. QED
  BY <1>1, <1>3

LEMMA LastKeptKept ==
  ASSUME LastKept, disk \subseteq disk', write_errors' = write_errors,
         level_steps'[0] = level_steps[0], AtLast' => AtLast, PastLast' => PastLast
  PROVE  LastKept'
<1>1. CASE ~(CheckInt > 0 /\ write_errors = 0)
  BY <1>1 DEF LastKept
<1>2. CASE CheckInt > 0 /\ write_errors = 0
  <2>1. /\ AtLast => Due(level_steps[0])
        /\ PastLast => level_steps[0] > 0 /\ Due(level_steps[0] - 1)
    BY <1>2 DEF LastKept, AtLast, PastLast, Due
  <2>2. \A s : Due(s) => \E c \in disk' : Recent(c, s)
    BY DEF Due
  <2>3. \A c, s : Recent(c, s)' <=> Recent(c, s)
    BY DEF Recent
  <2>4. /\ AtLast' => \E c \in disk' : Recent(c, level_steps[0])
        /\ PastLast' => level_steps[0] > 0 /\ \E c \in disk' : Recent(c, level_steps[0] - 1)
    BY <2>1, <2>2
  <2>5. QED
    BY <2>4 DEF LastKept, AtLast, PastLast, Recent
<1>3. QED
  BY <1>1, <1>2

\* Steps that write and remove no file.
LEMMA FilesKept ==
  ASSUME TypeOK, Files, UNCHANGED <<job, disk, write_errors, origin, rescaled>>, pc' # "down",
         level_steps'[0] = level_steps[0], last_checkpoint' \in {last_checkpoint, level_steps[0]},
         AtLast' => AtLast, PastLast' => PastLast,
         Later' => Later \/ last_checkpoint < level_steps[0]
  PROVE  Files'
<1>1. FilesOK'
  <2>1. \A c \in disk : FileOK(c) => FileOK(c)'
    BY FileOKKept
  <2>2. QED
    BY <2>1 DEF Files, FilesOK
<1>2. level_steps[0] \in Nat
  BY LevelsType DEF TypeOK, TypeLevels
<1>3. PastOrigin'
  BY <1>2, PastOriginKept DEF Files
<1>4. LastKept'
  BY LastKeptKept DEF Files
<1>5. RestartFileKept'
  BY DEF Files, RestartFileKept
<1>6. QED
  BY <1>1, <1>3, <1>4, <1>5 DEF Files

LEMMA FilesInit == Init => Files
BY DEF Init, Down, Files, FilesOK, PastOrigin, LastKept, RestartFileKept, InStep

LEMMA FilesInitialInit == TypeOK /\ Files /\ InitialInit => Files'
<1> SUFFICES ASSUME TypeOK, Files, InitialInit PROVE Files'
  OBVIOUS
<1>1. /\ pc = "down" /\ UNCHANGED <<job, disk, write_errors, origin, rescaled>>
      /\ pc' = IF CheckInt > 0 THEN "checkpoint" ELSE "main"
  BY DEF InitialInit
<1>2. origin = -1
  BY <1>1 DEF Files, PastOrigin
<1>3. FilesOK'
  <2>1. \A c \in disk : FileOK(c) => FileOK(c)'
    BY <1>1, FileOKKept
  <2>2. QED
    BY <1>1, <2>1 DEF Files, FilesOK
<1>4. PastOrigin' /\ RestartFileKept'
  BY <1>1, <1>2 DEF PastOrigin, RestartFileKept
<1>5. LastKept'
  BY <1>1 DEF LastKept, InStep
<1>6. QED
  BY <1>3, <1>4, <1>5 DEF Files

LEMMA RecentSelf ==
  ASSUME NEW s \in Nat, CheckInt > 0
  PROVE  s - (s % CheckInt) <= s
<1>1. CheckInt \in Nat /\ CheckInt > 0
  BY ConfigAssumption
<1>2. s % CheckInt \in Nat
  BY <1>1
<1>3. QED
  BY <1>2

LEMMA FilesRestart == TypeOK /\ Files /\ Restart => Files'
<1> SUFFICES ASSUME TypeOK, Files, Restart PROVE Files'
  OBVIOUS
<1>1. PICK c \in disk, mx \in job.max_level, n \in job.n_cycle : RestartFrom(c, mx, n)
  BY DEF Restart, RestartFrom
<1>2. /\ level_steps'[0] = c.level_steps[0] /\ level_steps' \in [Levels -> Nat]
      /\ ~rescaled' => ~rescaled
  BY <1>1, RestartVectors DEF Files
<1>3. /\ pc' = "main" /\ UNCHANGED <<job, disk, write_errors>>
      /\ last_checkpoint' = level_steps'[0] /\ c.good /\ origin' = c.level_steps[0]
  BY <1>1 DEF Restart, RestartedAt, RestartFrom
<1>4. FilesOK'
  <2>1. \A b \in disk : FileOK(b) => FileOK(b)'
    BY <1>2, <1>3, FileOKKept
  <2>2. QED
    BY <1>3, <2>1 DEF Files, FilesOK
<1>5. c.level_steps[0] \in Nat
  BY <1>2, LevelsType
<1>6. PastOrigin'
  BY <1>2, <1>3, <1>5 DEF PastOrigin, Saving, InStep
<1>7. RestartFileKept'
  BY <1>3 DEF RestartFileKept
<1>8. LastKept'
  <2>1. ASSUME CheckInt > 0 PROVE \E b \in disk' : Recent(b, level_steps'[0])
    <3> DEFINE s == c.level_steps[0]
    <3>1. s \in Nat
      BY <1>5
    <3>2. s - (s % CheckInt) <= s /\ s <= s
      BY <2>1, <3>1, RecentSelf
    <3>3. Recent(c, s)
      BY <3>2 DEF Recent
    <3>4. QED
      BY <1>2, <1>3, <3>3
  <2>2. ~(pc' = "coarse_end" \/ (pc' \in InStep /\ Advanced(0)'))
    BY <1>3 DEF InStep
  <2>3. QED
    BY <2>1, <2>2 DEF LastKept, Recent
<1>9. QED
  BY <1>4, <1>6, <1>7, <1>8 DEF Files

LEMMA FilesCrash == TypeOK /\ Files /\ Crash => Files'
<1> SUFFICES ASSUME TypeOK, Files, Crash PROVE Files'
  OBVIOUS
<1>1. pc' = "down" /\ origin' = -1 /\ UNCHANGED <<job, disk, write_errors, rescaled>>
  BY DEF Crash
<1>2. FilesOK'
  <2>1. \A c \in disk : FileOK(c) => FileOK(c)'
    BY <1>1, FileOKKept
  <2>2. QED
    BY <1>1, <2>1 DEF Files, FilesOK
<1>3. PastOrigin' /\ RestartFileKept' /\ LastKept'
  BY <1>1 DEF PastOrigin, RestartFileKept, LastKept, InStep
<1>4. QED
  BY <1>2, <1>3 DEF Files

\* The steps of the call stack write no file, and all but Advance count no step.
LEMMA FilesStepping ==
  TypeOK /\ Timing /\ Files
    /\ (CoarseTimeStep \/ SkipRegrid \/ RegridLevel \/ Recurse \/ NoFiner \/ PostTimeStep)
  => Files'
<1> SUFFICES ASSUME TypeOK, Timing, Files,
                    \/ CoarseTimeStep \/ SkipRegrid \/ RegridLevel \/ Recurse \/ NoFiner
                    \/ PostTimeStep
             PROVE  Files'
  OBVIOUS
<1>1. /\ UNCHANGED <<job, disk, write_errors, origin, rescaled, last_checkpoint>>
  BY RegridLevelIs DEF CoarseTimeStep, SkipRegrid, Recurse, NoFiner, PostTimeStep,
     inputs, files, control
<1>2. level_steps'[0] = level_steps[0]
  <2>1. CASE RegridLevel
    <3>1. pc = "regrid" /\ lev <= lev_top
      BY <2>1, RegridLevelIs
    <3>2. PICK nf, ng, dt_0 : RegridWith(nf, ng, dt_0)
      BY <2>1, RegridLevelIs
    <3>3. nf \in NewFinest(lev) /\ ng \in [Levels -> job.grids] /\ Regrid(lev, nf, ng)
      BY <3>2 DEF RegridWith
    <3>4. /\ finest_level' \in Nat
          /\ \A l \in 0..finest_level' : l <= finest_level => level_steps'[l] = level_steps[l]
      BY <3>1, <3>3, RegridTimes DEF Timing
    <3>5. 0 \in 0..finest_level' /\ 0 <= finest_level
      BY <3>4, LevelTypes
    <3>6. QED
      BY <3>4, <3>5
  <2>2. CASE ~RegridLevel
    BY <2>2 DEF CoarseTimeStep, SkipRegrid, Recurse, NoFiner, PostTimeStep, counters
  <2>3. QED
    BY <2>1, <2>2
<1>3. pc' # "down" /\ (AtLast' => AtLast) /\ (PastLast' => PastLast) /\ (Later' => Later)
  <2>1. CASE CoarseTimeStep
    <3>1. pc = "main" /\ pc' = "regrid" /\ cur' = 0
      BY <2>1 DEF CoarseTimeStep, EnterTimeStep
    <3>2. QED
      BY <3>1 DEF AtLast, PastLast, Later, Advanced, InStep, Saving
  <2>2. CASE SkipRegrid \/ RegridLevel
    <3>1. pc = "regrid" /\ pc' = pc /\ cur' = cur
      BY <2>2, RegridLevelIs DEF SkipRegrid, frames
    <3>2. QED
      BY <3>1 DEF AtLast, PastLast, Later, Advanced, InStep, Saving
  <2>3. CASE Recurse
    <3>1. pc = "advanced" /\ pc' = "regrid" /\ cur' = cur + 1
      BY <2>3 DEF Recurse, EnterTimeStep
    <3>2. cur \in Nat
      BY <3>1, LevelTypes DEF Timing, StackOK, InStep
    <3>3. cur' # 0 /\ Advanced(0)
      BY <3>1, <3>2 DEF Advanced
    <3>4. QED
      BY <3>1, <3>3 DEF AtLast, PastLast, Later, InStep, Saving
  <2>4. CASE NoFiner
    <3>1. pc = "advanced" /\ pc' = "post_timestep" /\ cur' = cur
      BY <2>4 DEF NoFiner, frames
    <3>2. QED
      BY <3>1 DEF AtLast, PastLast, Later, Advanced, InStep, Saving
  <2>5. CASE PostTimeStep
    <3>1. /\ pc = "post_timestep"
          /\ \/ pc' = "regrid" /\ cur' = cur /\ cur > 0
             \/ pc' \in {"post_timestep", "coarse_end"}
      BY <2>5 DEF PostTimeStep, EnterTimeStep
    <3>2. cur \in Nat
      BY <3>1, LevelTypes DEF Timing, StackOK, InStep
    <3>3. Advanced(0) /\ ~(pc' = "regrid" /\ cur' = 0)
      BY <3>1, <3>2 DEF Advanced
    <3>4. QED
      BY <3>1, <3>3 DEF AtLast, PastLast, Later, InStep, Saving
  <2>6. QED
    BY <2>1, <2>2, <2>3, <2>4, <2>5
<1>4. QED
  BY <1>1, <1>2, <1>3, FilesKept

LEMMA FilesAdvance == TypeOK /\ Timing /\ Files /\ Advance => Files'
<1> SUFFICES ASSUME TypeOK, Timing, Files, Advance PROVE Files'
  OBVIOUS
<1>1. /\ pc = "regrid" /\ pc' = "advanced" /\ cur' = cur
      /\ level_steps' = [level_steps EXCEPT ![cur] = @ + 1]
      /\ UNCHANGED <<job, disk, write_errors, origin, rescaled, last_checkpoint>>
  BY DEF Advance, AboutToAdvance, inputs, files, control, frames
<1>2. /\ cur \in Nat /\ cur \in Levels /\ 0 \in Levels /\ level_steps \in [Levels -> Nat]
      /\ level_steps[0] \in Nat
  BY <1>1, LevelTypes, LevelsType DEF Timing, StackOK, InStep, TypeOK, TypeLevels
<1>3. level_steps'[0] = IF cur = 0 THEN level_steps[0] + 1 ELSE level_steps[0]
  BY <1>1, <1>2
<1>4. /\ ~AtLast' /\ PastLast' /\ (cur = 0 => AtLast) /\ (cur # 0 => PastLast /\ Later)
  BY <1>1, <1>2 DEF AtLast, PastLast, Later, Advanced, InStep
<1>5. FilesOK'
  <2>1. \A c \in disk : FileOK(c) => FileOK(c)'
    BY <1>1, FileOKKept
  <2>2. QED
    BY <1>1, <2>1 DEF Files, FilesOK
<1>6. PastOrigin'
  <2>1. /\ pc' # "down" /\ origin' = origin /\ level_steps'[0] \in Nat
        /\ level_steps'[0] >= level_steps[0]
        /\ last_checkpoint' \in {last_checkpoint, level_steps[0]}
        /\ Later \/ level_steps'[0] > level_steps[0]
    BY <1>1, <1>2, <1>3, <1>4
  <2>2. QED
    BY <2>1, PastOriginKept DEF Files
<1>7. LastKept'
  <2>1. SUFFICES ASSUME CheckInt > 0, write_errors = 0
                 PROVE  /\ level_steps'[0] > 0
                        /\ \E c \in disk : Recent(c, level_steps'[0] - 1)
    <3>1. ~(pc' \in {"main", "ck_check"} \/ (pc' = "regrid" /\ cur' = 0))
      BY <1>1
    <3>2. QED
      BY <1>1, <3>1 DEF LastKept, Recent
  <2>2. CASE cur = 0
    <3>1. \E c \in disk : Recent(c, level_steps[0])
      BY <1>4, <2>1, <2>2 DEF Files, LastKept, AtLast
    <3>2. level_steps'[0] - 1 = level_steps[0] /\ level_steps'[0] > 0
      BY <1>2, <1>3, <2>2
    <3>3. QED
      BY <3>1, <3>2
  <2>3. CASE cur # 0
    <3>1. level_steps[0] > 0 /\ \E c \in disk : Recent(c, level_steps[0] - 1)
      BY <1>4, <2>1, <2>3 DEF Files, LastKept, PastLast
    <3>2. QED
      BY <1>3, <2>3, <3>1
  <2>4. QED
    BY <2>2, <2>3
<1>8. RestartFileKept'
  BY <1>1 DEF Files, RestartFileKept
<1>9. QED
  BY <1>5, <1>6, <1>7, <1>8 DEF Files

\* When no checkpoint is due, the last one due before this step is the last one due.
LEMMA NotDue ==
  ASSUME NEW s \in Nat, s > 0, CheckInt > 0, s % CheckInt # 0
  PROVE  s - (s % CheckInt) <= (s - 1) - ((s - 1) % CheckInt)
<1>1. CheckInt \in Nat /\ CheckInt > 0
  BY ConfigAssumption
<1>2. (s - 1) % CheckInt = (s % CheckInt) - 1
  <2> DEFINE d1 == s \div CheckInt
             r1 == s % CheckInt
             d2 == (s - 1) \div CheckInt
             r2 == (s - 1) % CheckInt
  <2>1. /\ d1 \in Int /\ r1 \in Nat /\ r1 < CheckInt /\ s = CheckInt * d1 + r1
        /\ d2 \in Int /\ r2 \in Nat /\ r2 < CheckInt /\ s - 1 = CheckInt * d2 + r2
        /\ r1 > 0
    BY <1>1
  <2> HIDE DEF d1, r1, d2, r2
  <2>2. CheckInt * d1 - CheckInt * d2 = (r2 + 1) - r1
    BY <1>1, <2>1
  <2>3. CheckInt * (d1 - d2) = (r2 + 1) - r1
    BY <1>1, <2>1, <2>2
  <2>4. (r2 + 1) - r1 < CheckInt /\ (r2 + 1) - r1 > 0 - CheckInt
    BY <1>1, <2>1
  <2>5. ~(d1 - d2 >= 1) /\ ~(d1 - d2 <= 0 - 1)
    BY <1>1, <2>1, <2>3, <2>4
  <2>6. d1 - d2 = 0
    BY <2>1, <2>5
  <2>7. CheckInt * 0 = 0
    BY <1>1
  <2>8. (r2 + 1) - r1 = 0
    BY <2>3, <2>6, <2>7
  <2>9. r2 = r1 - 1
    BY <2>1, <2>8
  <2>10. QED
    BY <2>9 DEF r1, r2
<1>3. s % CheckInt \in Nat
  BY <1>1
<1>4. QED
  BY <1>2, <1>3

LEMMA FilesCoarseEnd == TypeOK /\ Files /\ CoarseEnd => Files'
<1> SUFFICES ASSUME TypeOK, Files, CoarseEnd PROVE Files'
  OBVIOUS
<1>1. /\ pc = "coarse_end" /\ UNCHANGED <<job, disk, write_errors, origin, rescaled, level_steps>>
      /\ last_checkpoint' \in {last_checkpoint, level_steps[0]}
      /\ \/ pc' = "checkpoint"
         \/ pc' = "main" /\ ~checkPointNow
  BY DEF CoarseEnd, inputs, counters
<1>2. level_steps[0] \in Nat
  BY LevelsType DEF TypeOK, TypeLevels
<1>3. FilesOK'
  <2>1. \A c \in disk : FileOK(c) => FileOK(c)'
    BY <1>1, FileOKKept
  <2>2. QED
    BY <1>1, <2>1 DEF Files, FilesOK
<1>4. PastOrigin'
  <2>1. Later /\ pc' # "down"
    BY <1>1 DEF Later
  <2>2. level_steps'[0] \in Nat /\ level_steps'[0] >= level_steps[0] /\ origin' = origin
    BY <1>1, <1>2
  <2>3. QED
    BY <1>1, <2>1, <2>2, PastOriginKept DEF Files
<1>5. LastKept'
  <2>1. CASE pc' = "checkpoint"
    BY <2>1 DEF LastKept, InStep
  <2>2. CASE pc' = "main" /\ ~checkPointNow
    <3>1. ASSUME CheckInt > 0, write_errors = 0
          PROVE  \E c \in disk : Recent(c, level_steps[0])
      <4>1. level_steps[0] > 0 /\ level_steps[0] % CheckInt # 0
        BY <1>1, <2>2, <3>1 DEF Files, LastKept, checkPointNow
      <4>2. PICK c \in disk : Recent(c, level_steps[0] - 1)
        BY <1>1, <3>1 DEF Files, LastKept
      <4> DEFINE s == level_steps[0]
                 p == (s - 1) - ((s - 1) % CheckInt)
                 q == s - (s % CheckInt)
      <4>3. q <= p
        BY <1>2, <3>1, <4>1, NotDue
      <4>4. p <= c.level_steps[0] /\ c.level_steps[0] <= s - 1
        BY <4>2 DEF Recent
      <4>5. CheckInt \in Nat /\ CheckInt > 0 /\ c.level_steps[0] \in Nat
        BY <3>1, ConfigAssumption, FileIs, LevelsType DEF TypeOK, TypeFiles
      <4>6. p \in Int /\ q \in Int /\ s \in Nat
        BY <1>2, <4>5
      <4>7. q <= c.level_steps[0] /\ c.level_steps[0] <= s
        <5> HIDE DEF p, q, s
        <5>1. QED
          BY <4>3, <4>4, <4>5, <4>6
      <4>8. QED
        BY <4>7 DEF Recent
    <3>2. ~(pc' = "coarse_end" \/ (pc' \in InStep /\ Advanced(0)'))
      BY <2>2 DEF InStep
    <3>3. QED
      BY <1>1, <3>1, <3>2 DEF LastKept, Recent
  <2>3. QED
    BY <1>1, <2>1, <2>2
<1>6. RestartFileKept'
  BY <1>1 DEF Files, RestartFileKept
<1>7. QED
  BY <1>3, <1>4, <1>5, <1>6 DEF Files

LEMMA FilesFinalCheckpoint == TypeOK /\ Files /\ FinalCheckpoint => Files'
<1> SUFFICES ASSUME TypeOK, Files, FinalCheckpoint PROVE Files'
  OBVIOUS
<1>1. /\ pc = "main"
      /\ UNCHANGED <<job, disk, write_errors, origin, rescaled, level_steps, last_checkpoint>>
      /\ IF last_checkpoint < level_steps[0] THEN pc' = "checkpoint" ELSE pc' = "done"
  BY DEF FinalCheckpoint, inputs, counters
<1>2. /\ pc' # "down" /\ ~AtLast' /\ ~PastLast'
      /\ Later' => last_checkpoint < level_steps[0]
  BY <1>1 DEF AtLast, PastLast, Later, InStep, Saving
<1>3. QED
  BY <1>1, <1>2, FilesKept

LEMMA FilesCheckpointBegin == TypeOK /\ Files /\ CheckpointBegin => Files'
<1> SUFFICES ASSUME TypeOK, Files, CheckpointBegin PROVE Files'
  OBVIOUS
<1>1. /\ pc = "checkpoint" /\ pc' = "ck_write" /\ disk' = disk \ NamedAsStep(level_steps[0])
      /\ UNCHANGED <<job, write_errors, origin, rescaled, level_steps, last_checkpoint>>
  BY DEF CheckpointBegin, inputs, counters, control
<1>2. FilesOK'
  <2>1. \A c \in disk : FileOK(c) => FileOK(c)'
    BY <1>1, FileOKKept
  <2>2. QED
    BY <1>1, <2>1 DEF Files, FilesOK
<1>3. Later /\ pc' # "down"
  BY <1>1 DEF Later, Saving
<1>4. level_steps[0] \in Nat
  BY LevelsType DEF TypeOK, TypeLevels
<1>5. PastOrigin'
  BY <1>1, <1>3, <1>4, PastOriginKept DEF Files
<1>6. LastKept'
  BY <1>1 DEF LastKept, InStep
<1>7. RestartFileKept'
  <2>1. SUFFICES ASSUME origin >= 0
                 PROVE  \E c \in disk' : c.good /\ c.level_steps[0] = origin
    BY <1>1 DEF RestartFileKept
  <2>2. PICK c \in disk : c.good /\ c.level_steps[0] = origin
    BY <2>1 DEF Files, RestartFileKept
  <2>3. level_steps[0] > origin /\ origin \in Int
    BY <1>3, <2>1 DEF Files, PastOrigin, Later, TypeOK, TypeFiles
  <2>4. c \notin NamedAsStep(level_steps[0])
    BY <1>4, <2>2, <2>3 DEF NamedAsStep
  <2>5. QED
    BY <1>1, <2>2, <2>4
<1>8. QED
  BY <1>2, <1>5, <1>6, <1>7 DEF Files

\* What checkPoint writes is a state between two coarse steps, of this step.
LEMMA FilesCheckpointWrite == TypeOK /\ Timing /\ Files /\ CheckpointWrite => Files'
<1> SUFFICES ASSUME TypeOK, Timing, Files, CheckpointWrite PROVE Files'
  OBVIOUS
<1>1. PICK ok \in BOOLEAN : /\ disk' = disk \cup {Contents(ok)}
                            /\ write_errors' = IF ok THEN write_errors ELSE write_errors + 1
  BY DEF CheckpointWrite
<1>2. /\ pc = "ck_write" /\ pc' = "ck_check" /\ last_checkpoint' = level_steps[0]
      /\ UNCHANGED <<job, origin, rescaled, level_steps>>
  BY DEF CheckpointWrite, inputs, counters, control
<1>3. /\ level_steps[0] \in Nat /\ write_errors \in Nat
      /\ write_errors' = 0 => ok /\ write_errors = 0
  BY <1>1, LevelsType DEF TypeOK, TypeLevels, TypeFiles
<1>4. PICK w : w = Contents(ok)
  OBVIOUS
<1>5. /\ w.cumtime = cumtime /\ w.mx_lev = max_level /\ w.finest_level = finest_level
      /\ w.n_cycle = n_cycle /\ w.dt_level = dt_level /\ w.level_steps = level_steps
      /\ w.old_time = old_time /\ w.new_time = new_time /\ w.good = ok
  BY <1>4 DEF Contents
<1>6. FileOK(w)'
  <2>1. /\ n_cycle \in Cycles(job) /\ finest_level <= max_level
        /\ \A l \in 0..finest_level : new_time[l] = cumtime /\ old_time[l] <= new_time[l]
        /\ ~rescaled => InRatio(level_steps, dt_level, n_cycle, finest_level)
    BY <1>2, FinestIn DEF Timing, DtShared, Together, OldBeforeNew, InStep
  <2>2. QED
    BY <1>2, <1>3, <1>5, <2>1 DEF FileOK
<1>7. FilesOK'
  <2>1. \A c \in disk : FileOK(c) => FileOK(c)'
    BY <1>2, <1>3, FileOKKept
  <2>2. QED
    BY <1>1, <1>4, <1>6, <2>1 DEF Files, FilesOK
<1>8. PastOrigin'
  <2>1. Later /\ pc' # "down"
    BY <1>2 DEF Later, Saving
  <2>2. QED
    BY <1>2, <1>3, <2>1, PastOriginKept DEF Files
<1>9. LastKept'
  <2>1. ASSUME CheckInt > 0 PROVE \E c \in disk' : Recent(c, level_steps[0])
    <3>1. level_steps[0] - (level_steps[0] % CheckInt) <= level_steps[0]
      BY <1>3, <2>1, RecentSelf
    <3>2. w.level_steps[0] = level_steps[0] /\ level_steps[0] <= level_steps[0]
      BY <1>3, <1>5
    <3>3. Recent(w, level_steps[0])
      BY <3>1, <3>2 DEF Recent
    <3>4. QED
      BY <1>1, <1>4, <3>3
  <2>2. ~(pc' = "coarse_end" \/ (pc' \in InStep /\ Advanced(0)'))
    BY <1>2 DEF InStep
  <2>3. QED
    BY <1>2, <2>1, <2>2 DEF LastKept, Recent
<1>10. RestartFileKept'
  BY <1>1, <1>2 DEF Files, RestartFileKept
<1>11. QED
  BY <1>7, <1>8, <1>9, <1>10 DEF Files

LEMMA FilesCheckpointCheck == TypeOK /\ Files /\ CheckpointCheck => Files'
<1> SUFFICES ASSUME TypeOK, Files, CheckpointCheck PROVE Files'
  OBVIOUS
<1>1. /\ pc = "ck_check"
      /\ UNCHANGED <<job, write_errors, origin, rescaled, level_steps, last_checkpoint>>
  BY DEF CheckpointCheck, inputs, counters, control
<1>2. /\ pc' \in {"main", "done", "checkpoint", "aborted"}
      /\ disk' \in {disk, disk \ NamedAsStep(level_steps[0])}
      /\ (\A c \in NamedAsStep(level_steps[0]) : c.good) => disk' = disk
  BY DEF CheckpointCheck, TypeOK, TypeInputs
<1>3. FilesOK'
  <2>1. \A c \in disk : FileOK(c) => FileOK(c)'
    BY <1>1, FileOKKept
  <2>2. disk' \subseteq disk
    BY <1>2
  <2>3. QED
    BY <2>1, <2>2 DEF Files, FilesOK
<1>4. Later /\ pc' # "down"
  BY <1>1, <1>2 DEF Later, Saving
<1>5. level_steps[0] \in Nat
  BY LevelsType DEF TypeOK, TypeLevels
<1>6. PastOrigin'
  BY <1>1, <1>4, <1>5, PastOriginKept DEF Files
<1>7. LastKept'
  <2>1. ASSUME CheckInt > 0, write_errors = 0
        PROVE  \E c \in disk' : Recent(c, level_steps[0])
    <3>1. \A c \in disk : c.good
      BY <2>1 DEF Files, FilesOK, FileOK
    <3>2. disk' = disk
      BY <1>2, <3>1 DEF NamedAsStep
    <3>3. QED
      BY <1>1, <2>1, <3>2 DEF Files, LastKept
  <2>2. ~(pc' = "coarse_end" \/ (pc' \in InStep /\ Advanced(0)'))
    BY <1>2 DEF InStep
  <2>3. QED
    BY <1>1, <2>1, <2>2 DEF LastKept, Recent
<1>8. RestartFileKept'
  <2>1. SUFFICES ASSUME origin >= 0
                 PROVE  \E c \in disk' : c.good /\ c.level_steps[0] = origin
    BY <1>1 DEF RestartFileKept
  <2>2. PICK c \in disk : c.good /\ c.level_steps[0] = origin
    BY <2>1 DEF Files, RestartFileKept
  <2>3. level_steps[0] > origin /\ origin \in Int
    BY <1>4, <2>1 DEF Files, PastOrigin, Later, TypeOK, TypeFiles
  <2>4. c \notin NamedAsStep(level_steps[0])
    BY <1>5, <2>2, <2>3 DEF NamedAsStep
  <2>5. c \in disk'
    BY <1>2, <2>4
  <2>6. QED
    BY <2>2, <2>5
<1>9. QED
  BY <1>3, <1>6, <1>7, <1>8 DEF Files

-----------------------------------------------------------------------------
(* The theorems.                                                           *)

IInv == TypeOK /\ Timing /\ Files

LEMMA InitInv == Init => IInv
BY TypeInit, TimingInit, FilesInit DEF IInv

LEMMA NextInv == IInv /\ [Next]_vars => IInv'
<1> SUFFICES ASSUME TypeOK, Timing, Files, [Next]_vars PROVE TypeOK' /\ Timing' /\ Files'
  BY DEF IInv
<1>1. TypeOK'
  BY TypeNext DEF Timing, Files
<1>2. CASE InitialInit
  BY <1>1, <1>2, TimingInitialInit, FilesInitialInit
<1>3. CASE Restart
  BY <1>1, <1>3, TimingRestart, FilesRestart DEF Files
<1>4. CASE Program
  <2>1. CASE CoarseTimeStep \/ SkipRegrid \/ RegridLevel \/ Recurse \/ NoFiner \/ PostTimeStep
    BY <1>1, <2>1, TimingCoarseTimeStep, TimingSkipRegrid, TimingRegridLevel, TimingRecurse,
       TimingNoFiner, TimingPostTimeStep, FilesStepping
  <2>2. CASE Advance
    BY <1>1, <2>2, TimingAdvance, FilesAdvance
  <2>3. CASE CoarseEnd
    BY <1>1, <2>3, TimingCoarseEnd, FilesCoarseEnd
  <2>4. CASE FinalCheckpoint \/ CheckpointBegin \/ CheckpointWrite \/ CheckpointCheck
    BY <1>1, <2>4, TimingFiles, FilesFinalCheckpoint, FilesCheckpointBegin,
       FilesCheckpointWrite, FilesCheckpointCheck
  <2>5. QED
    BY <1>4, <2>1, <2>2, <2>3, <2>4 DEF Program
<1>5. CASE Crash
  BY <1>1, <1>5, TimingCrash, FilesCrash
<1>6. CASE UNCHANGED vars
  <2>1. /\ UNCHANGED <<pc, job, max_level, n_cycle, finest_level, old_time, new_time, has_old>>
        /\ UNCHANGED <<dt_level, level_steps, cumtime, cur, time, iter, lev, lev_top>>
        /\ UNCHANGED <<last_checkpoint, disk, write_errors, origin, rescaled>>
    BY <1>6 DEF vars, inputs, hierarchy, state, counters, frames, loop, files, control
  <2>2. Timing'
    BY <2>1 DEF Timing, StackOK, DtShared, FrameTimes, StepCounts, Together, OldBeforeNew,
       Advanced, InRatio
  <2>3. Files'
    BY <2>1 DEF Files, FilesOK, FileOK, PastOrigin, LastKept, RestartFileKept, Advanced,
       Recent, InRatio
  <2>4. QED
    BY <1>1, <2>2, <2>3
<1>7. QED
  BY <1>2, <1>3, <1>4, <1>5, <1>6 DEF Next

\* The inductive invariant holds in every reachable state: whatever the recursion, the
\* regrids in the middle of it, the restarts and the spoiled files do.
THEOREM Invariant == Spec => []IInv
<1>1. Init => IInv
  BY InitInv
<1>2. IInv /\ [Next]_vars => IInv'
  BY NextInv
<1>3. QED
  BY <1>1, <1>2, PTL DEF Spec

\* In the regrid loop the running call has not advanced its level: it and all finer levels
\* are at the time of the call.
LEMMA LoopTimes ==
  ASSUME TypeOK, Timing, pc = "regrid"
  PROVE  /\ cur \in Nat /\ cur <= finest_level /\ finest_level \in Nat
         /\ \A l \in cur..finest_level : l \in 0..finest_level /\ new_time[l] = time[cur]
<1>1. StackOK /\ FrameTimes /\ pc \in InStep
  BY DEF Timing, InStep
<1>2. cur \in 0..finest_level /\ finest_level \in Nat
  BY <1>1, LevelTypes DEF StackOK
<1>3. ~Advanced(cur) /\ cur \in 0..cur
  BY <1>2 DEF Advanced
<1>4. new_time[cur] = time[cur]
  BY <1>1, <1>3 DEF FrameTimes
<1>5. \A l \in cur+1..finest_level : new_time[l] = time[cur]
  BY <1>1 DEF FrameTimes
<1>6. \A l \in cur..finest_level : l \in 0..finest_level /\ (l = cur \/ l \in cur+1..finest_level)
  BY <1>2
<1>7. QED
  BY <1>2, <1>4, <1>5, <1>6

LEMMA InvFills == IInv => FillBracketed
<1> SUFFICES ASSUME TypeOK, Timing, AboutToAdvance
             PROVE  /\ new_time[cur] = time[cur]
                    /\ cur > 0 => /\ has_old[cur-1]
                                  /\ old_time[cur-1] <= time[cur]
                                  /\ time[cur] + dt_level[cur] <= new_time[cur-1]
  BY DEF IInv, FillBracketed
<1>1. pc = "regrid" /\ pc \in InStep
  BY DEF AboutToAdvance, InStep
<1>2. cur \in cur..finest_level
  BY <1>1, LoopTimes
<1>3. new_time[cur] = time[cur]
  BY <1>1, <1>2, LoopTimes
<1>4. QED
  BY <1>1, <1>3, FrameInside DEF Timing

LEMMA InvRegrids == IInv => RegridSynced
<1> SUFFICES ASSUME TypeOK, Timing, pc = "regrid", lev <= lev_top
             PROVE  /\ \A l \in lev..finest_level : new_time[l] = time[cur]
                    /\ lev > 0 => old_time[lev-1] <= time[cur] /\ time[cur] <= new_time[lev-1]
  BY DEF IInv, RegridSynced
<1>1. /\ lev \in Nat /\ lev <= finest_level /\ cur \in Nat /\ cur <= lev
      /\ finest_level \in Nat /\ lev \in Levels
  BY RegridBounds DEF Timing, Levels
<1>2. \A l \in lev..finest_level : l \in cur..finest_level
  BY <1>1
<1>3. \A l \in lev..finest_level : new_time[l] = time[cur]
  BY <1>2, LoopTimes
<1>4. CASE lev = 0
  BY <1>3, <1>4
<1>5. CASE lev = cur /\ cur > 0
  BY <1>3, <1>5, FrameInside DEF Timing, InStep
<1>6. CASE lev > cur
  <2>1. lev - 1 \in cur..finest_level /\ lev - 1 \in 0..finest_level
    BY <1>1, <1>6
  <2>2. new_time[lev-1] = time[cur] /\ old_time[lev-1] <= new_time[lev-1]
    BY <2>1, LoopTimes DEF Timing, OldBeforeNew
  <2>3. new_time[lev-1] \in Int /\ time[cur] \in Int
    BY <2>1, <2>2, LevelTypes
  <2>4. QED
    BY <1>3, <2>2, <2>3
<1>7. QED
  BY <1>1, <1>4, <1>5, <1>6

LEMMA InvCoarse == IInv => CoarseConsistent
<1> SUFFICES ASSUME TypeOK, Timing PROVE CoarseConsistent
  BY DEF IInv
<1>1. CASE pc = "post_timestep"
  BY <1>1, FinishedFrame DEF CoarseConsistent
<1>2. CASE pc = "main"
  <2>1. /\ \A l \in 0..finest_level : new_time[l] = cumtime
        /\ ~rescaled => InRatio(level_steps, dt_level, n_cycle, finest_level)
    BY <1>2 DEF Timing, Together, InStep
  <2>2. QED
    BY <1>2, <2>1 DEF CoarseConsistent, InRatio
<1>3. QED
  BY <1>1, <1>2 DEF CoarseConsistent

LEMMA InvCrash == IInv => CrashLossBounded
<1> SUFFICES ASSUME TypeOK, Timing, Files, cur >= 0, CheckInt > 0, write_errors = 0
             PROVE  \E c \in disk : /\ c.good
                                    /\ c.level_steps[0] <= level_steps[0]
                                    /\ level_steps[0] - c.level_steps[0] <= CheckInt
  BY DEF IInv, CrashLossBounded
<1>1. pc \in InStep /\ cur \in 0..finest_level
  BY DEF Timing, StackOK
<1>2. level_steps[0] \in Nat /\ CheckInt \in Nat /\ finest_level \in Nat
  BY ConfigAssumption, LevelTypes, LevelsType
<1>3. \A c \in disk : c.level_steps[0] \in Nat /\ c.good
  BY FileIs, LevelsType DEF TypeOK, TypeFiles, Files, FilesOK, FileOK
<1>4. \A s \in Nat : s % CheckInt \in 0..CheckInt-1
  BY <1>2
<1>5. CASE pc = "regrid" /\ cur = 0
  <2>1. PICK c \in disk : Recent(c, level_steps[0])
    BY <1>5 DEF Files, LastKept
  <2>2. level_steps[0] % CheckInt \in 0..CheckInt-1
    BY <1>2, <1>4
  <2>3. QED
    BY <1>2, <1>3, <2>1, <2>2 DEF Recent
<1>6. CASE Advanced(0)
  <2>1. level_steps[0] > 0 /\ \E c \in disk : Recent(c, level_steps[0] - 1)
    BY <1>1, <1>6 DEF Files, LastKept
  <2>2. PICK c \in disk : Recent(c, level_steps[0] - 1)
    BY <2>1
  <2>3. level_steps[0] - 1 \in Nat
    BY <1>2, <2>1
  <2>4. (level_steps[0] - 1) % CheckInt \in 0..CheckInt-1
    BY <1>4, <2>3
  <2>5. QED
    BY <1>2, <1>3, <2>2, <2>3, <2>4 DEF Recent
<1>7. QED
  BY <1>1, <1>2, <1>5, <1>6 DEF Advanced

\* Every variable stays in its range: in particular the hierarchy never has more levels than
\* amr.max_level, the stack of timeStep is never deeper than the hierarchy, and the step
\* counts and time steps of levels that regrids and restarts create are natural numbers.
THEOREM TypesHold == Spec => []TypeOK
<1>1. IInv => TypeOK
  BY DEF IInv
<1>2. QED
  BY <1>1, Invariant, PTL

\* Amr::timeStep advances a level only when its data are at the start of the interval and the
\* coarser level's old and new data bracket it: filling ghost cells interpolates in time and
\* never extrapolates, with any regrids between the subcycles.
THEOREM FillsBracketed == Spec => []FillBracketed
BY InvFills, Invariant, PTL

\* Amr::regrid(lbase, time) finds lbase and every finer level at that time, and the level
\* below brackets it, from whichever depth of the recursion it is called.
THEOREM RegridsSynced == Spec => []RegridSynced
BY InvRegrids, Invariant, PTL

\* post_timestep finds all finer levels at the end of this level's step; between coarse steps
\* all levels are at cumtime, with steps and time steps in the ratio n_cycle.
THEOREM CoarseStepsConsistent == Spec => []CoarseConsistent
BY InvCoarse, Invariant, PTL

\* As long as no stream error spoils a file, a crash in a coarse step loses check_int steps at
\* most, over any sequence of crashes, restarts and changes of the inputs.
THEOREM CrashLossIsBounded == Spec => []CrashLossBounded
BY InvCrash, Invariant, PTL

\* The checkpoint an execution was restarted from is never overwritten by that execution.
THEOREM RestartFileIsKept == Spec => []RestartFileKept
<1>1. IInv => RestartFileKept
  BY DEF IInv, Files
<1>2. QED
  BY <1>1, Invariant, PTL

=============================================================================
