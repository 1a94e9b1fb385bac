----------------------------- MODULE AmrStepping -----------------------------
(***************************************************************************)
(* The time-stepping driver of class Amr (Src/Amr/AMReX_Amr.cpp) over the  *)
(* user level AmrLevelAdv of Tests/Amr/Advection_AmrLevel: the recursive   *)
(* subcycled timeStep with its regrids, the main loop, checkpoint files,   *)
(* crashes and restarts.                                                   *)
(*                                                                         *)
(* The recursion Amr::timeStep(level) -> timeStep(level+1) is kept as one  *)
(* frame per level: the depth of the call stack is the level of the frame. *)
(* Physical time is an integer; a time step that n_cycle divides exactly   *)
(* stands for the floating-point one.  Grids are opaque identifiers: which *)
(* grids the tagging produces is a nondeterministic choice.                *)
(***************************************************************************)
EXTENDS Integers, FiniteSets

CONSTANTS
  MaxLevel,             \* largest amr.max_level an inputs file may name
  Jobs,                 \* the jobs: inputs files, choices and bounds, see JobsAssumption
  RegridInt,            \* amr.regrid_int
  SubCycle,             \* sub_cycle
  ComputeNewDtOnRegrid, \* compute_new_dt_on_regrid
  RegridOnRestart,      \* regrid_on_restart, read again by every restart
  CheckInt,             \* amr.check_int
  MaxTries,             \* stream_max_tries
  AbortOnRetryFailure,  \* abort_on_stream_retry_failure
  HugeDt,               \* 1.e200, the value dt_level is created with
  RefRatio              \* MaxRefRatio(level)

Levels == 0..MaxLevel

ASSUME ConfigAssumption ==
  /\ MaxLevel \in Nat
  /\ RegridInt \in [Levels -> Int]
  /\ RegridOnRestart => RegridInt[0] > 0      \* restart: amrex::Error otherwise
  /\ {SubCycle, ComputeNewDtOnRegrid, RegridOnRestart, AbortOnRetryFailure} \subseteq BOOLEAN
  /\ CheckInt \in Int /\ MaxTries \in Nat \ {0}
  /\ HugeDt \in Nat /\ RefRatio \in Nat \ {0}

\* A job: the values of amr.max_level and the vectors n_cycle that its inputs files name,
\* use_efficient_regrid, loadbalance_with_workestimates, max_step of the main program; what
\* the CFL estimate gives for dt_0; the identifiers of BoxArrays; the bounds on crashes and
\* on checkpoint files written with a stream error.
ASSUME JobsAssumption ==
  \A j \in Jobs :
    /\ j.max_level \subseteq Levels
    /\ j.n_cycle \subseteq [Levels -> Nat \ {0}]
    /\ \A n \in j.n_cycle : n[0] = 1 /\ (~SubCycle => \A l \in Levels : n[l] = 1)
    /\ {j.use_efficient_regrid, j.loadbalance} \subseteq BOOLEAN
    /\ j.dts \subseteq Nat \ {0} /\ j.grids # {}
    /\ {j.max_step, j.crashes, j.write_errors} \subseteq Nat

VARIABLES
  pc,            \* where the program is
  ret,           \* where checkPoint returns to
  job,                                                \* one of Jobs
  max_level, n_cycle,                                 \* inputs of this execution
  finest_level, grids,                                \* the hierarchy
  old_time, new_time, has_old,                        \* StateData of every level
  dt_level, level_steps, level_count, cumtime,        \* what the driver counts
  which_level_being_advanced,
  cur, time, iter,                                    \* the call stack of timeStep
  lev, lev_top,                                       \* locals of its regrid loop
  last_checkpoint, bUserStopRequest, tries,
  disk,                                               \* the chkNNNNN directories
  crashes, write_errors,                              \* counters of the bounds
  origin,        \* history: step of the file this execution was restarted from
  rescaled       \* history: a restart has changed n_cycle

inputs    == <<job, max_level, n_cycle>>
hierarchy == <<finest_level, grids>>
state     == <<old_time, new_time, has_old>>
counters  == <<level_steps, level_count>>
frames    == <<cur, time, iter>>
loop      == <<lev, lev_top>>
files     == <<last_checkpoint, tries, disk, write_errors>>
control   == <<ret, bUserStopRequest, crashes, origin>>
vars == <<pc, inputs, hierarchy, state, dt_level, counters, cumtime,
          which_level_being_advanced, frames, loop, files, control, rescaled>>

Least(a, b) == IF a < b THEN a ELSE b

\* What one checkpoint directory holds.  "good" is FALSE if a stream error spoiled it.
Checkpoints ==
  [cumtime : Nat, mx_lev : Levels, finest_level : Levels, n_cycle : [Levels -> Nat],
   dt_level : [Levels -> Nat], level_steps : [Levels -> Nat], level_count : [Levels -> Int],
   grids : [Levels -> job.grids], old_time : [Levels -> Int], new_time : [Levels -> Int],
   has_old : [Levels -> BOOLEAN], good : BOOLEAN]

\* n_factor of AmrLevelAdv::computeNewDt: steps of level l in one coarse step.
NFactor(n) == LET f[l \in Levels] == IF l = 0 THEN n[0] ELSE f[l-1] * n[l] IN f

\* The vectors n_cycle that an execution of job j can have: a restart may take the values of
\* some levels from the checkpoint file and those of the others from the inputs file.
Cycles(j) ==
  {m \in [Levels -> UNION {{n[l] : l \in Levels} : n \in j.n_cycle}] :
     \A l \in Levels : \E n \in j.n_cycle : m[l] = n[l]}

\* The integers that stand for time steps are multiples of every n_factor: the quotient of
\* the floating-point code is exact, and no rounding of the model's division shows.
ASSUME DtAssumption ==
  \A j \in Jobs : \A m \in Cycles(j), dt \in j.dts, l \in Levels :
    dt % (NFactor(m)[l]) = 0

\* AmrLevelAdv::computeNewDt and computeInitialDt: dt_0 is shared out over the levels
\* that exist.
ShareDt(dt_0, finest, n, old) ==
  [l \in Levels |-> IF l <= finest THEN dt_0 \div NFactor(n)[l] ELSE old[l]]

----------------------------------------------------------------------------
(* Start of the program.                                                   *)

\* Memory of a program that has not been initialised, or whose process died.
Down ==
  /\ max_level = 0 /\ n_cycle = [l \in Levels |-> 1]
  /\ finest_level = 0 /\ grids = [l \in Levels |-> CHOOSE g \in job.grids : TRUE]
  /\ old_time = [l \in Levels |-> 0] /\ new_time = [l \in Levels |-> 0]
  /\ has_old = [l \in Levels |-> FALSE]
  /\ dt_level = [l \in Levels |-> HugeDt]
  /\ level_steps = [l \in Levels |-> 0] /\ level_count = [l \in Levels |-> 0]
  /\ cumtime = 0 /\ which_level_being_advanced = -1
  /\ cur = -1 /\ time = [l \in Levels |-> 0] /\ iter = [l \in Levels |-> 1]
  /\ lev = 0 /\ lev_top = 0
  /\ last_checkpoint = 0 /\ tries = 0 /\ bUserStopRequest = FALSE
  /\ ret = "main" /\ origin = -1 /\ rescaled = FALSE

Init ==
  /\ pc = "down" /\ job \in Jobs /\ Down
  /\ disk = {} /\ crashes = 0 /\ write_errors = 0

\* Amr::init of a new calculation: initialInit = InitializeInit (level 0), then
\* FinalizeInit (bldFineLevels, time levels, counters), then a first checkpoint.
InitialInit ==
  /\ pc = "down" /\ ~ \E c \in disk : c.good
  /\ \E mx \in job.max_level, n \in job.n_cycle, dt_0 \in job.dts :
     \E f \in 0..mx, g \in [0..mx -> job.grids] :
       /\ max_level' = mx /\ n_cycle' = n
       /\ finest_level' = f
       /\ grids' = [l \in Levels |-> IF l <= f THEN g[l] ELSE grids[l]]
       /\ dt_level' = ShareDt(dt_0, f, n, dt_level)
       /\ old_time' = [l \in Levels |-> IF l <= f THEN 0 - dt_level'[l] ELSE 0]
  /\ new_time' = [l \in Levels |-> 0]
  /\ has_old' = [l \in Levels |-> FALSE]
  /\ level_steps' = [l \in Levels |-> 0] /\ level_count' = [l \in Levels |-> 0]
  /\ cumtime' = 0
  /\ IF CheckInt > 0 THEN pc' = "checkpoint" /\ ret' = "main" /\ tries' = 0
                     ELSE pc' = "main" /\ UNCHANGED <<ret, tries>>
  /\ UNCHANGED <<job, which_level_being_advanced, frames, loop, last_checkpoint, disk,
                 write_errors, bUserStopRequest, crashes, origin, rescaled>>

\* The vectors as Amr::restart leaves them when max_level >= mx_lev: values of the file
\* for the levels it knows, derived ones above.
ExtendedDt(c, mx, n) ==
  LET dt[l \in Levels] ==
        IF l <= c.mx_lev \/ l > mx THEN c.dt_level[l] ELSE dt[l-1] \div n[l]
  IN dt

ExtendedSteps(c, mx, n) ==
  LET steps[l \in Levels] ==
        IF l <= c.mx_lev \/ l > mx THEN c.level_steps[l] ELSE n[l] * steps[l-1]
  IN steps

\* Amr::restart from the checkpoint directory c, with max_level = mx and n_cycle = n of
\* the inputs file.  In the first case (mx >= mx_lev) the inputs' n_cycle is kept, in the
\* other one the file's is read over it and the finer levels are dropped.
RestartFinest(c, mx) == IF mx >= c.mx_lev THEN c.finest_level ELSE Least(mx, c.finest_level)

RestartLevels(c, mx, n) ==
  IF mx >= c.mx_lev
  THEN /\ n_cycle' = n
       /\ dt_level' = ExtendedDt(c, mx, n)
       /\ level_steps' = ExtendedSteps(c, mx, n)
       /\ rescaled' = (rescaled \/ \E l \in 0..c.mx_lev : n[l] # c.n_cycle[l])
  ELSE /\ n_cycle' = [l \in Levels |-> IF l <= mx THEN c.n_cycle[l] ELSE n[l]]
       /\ dt_level' = [l \in Levels |-> IF l <= mx THEN c.dt_level[l] ELSE dt_level[l]]
       /\ level_steps' = [l \in Levels |-> IF l <= mx THEN c.level_steps[l] ELSE 0]
       /\ UNCHANGED rescaled

\* What is read from the file replaces the level_count[0] = regrid_int[0] by which the code
\* has just reacted to another n_cycle; regrid_on_restart replaces what was read.
RestartCounts(c, mx) ==
  level_count' = [l \in Levels |->
    IF l = 0 /\ RegridOnRestart /\ mx > 0 THEN RegridInt[0]
    ELSE IF l <= Least(mx, c.mx_lev) THEN c.level_count[l] ELSE 0]

\* "so that we know not to unnecessarily overwrite the old file"
RestartedAt_Forgotten(steps) == 0
RestartedAt(steps) == steps[0]

Restart ==
  /\ pc = "down"
  /\ \E c \in disk, mx \in job.max_level, n \in job.n_cycle :
       /\ c.good
       /\ RestartLevels(c, mx, n)
       /\ finest_level' = RestartFinest(c, mx)
       /\ RestartCounts(c, mx)
       /\ max_level' = mx
       /\ grids' = [l \in Levels |-> IF l <= finest_level' THEN c.grids[l] ELSE grids[l]]
       /\ old_time' = [l \in Levels |-> IF l <= finest_level' THEN c.old_time[l] ELSE 0]
       /\ new_time' = [l \in Levels |-> IF l <= finest_level' THEN c.new_time[l] ELSE 0]
       /\ has_old' = [l \in Levels |-> l <= finest_level' /\ c.has_old[l]]
       /\ cumtime' = c.cumtime
       /\ origin' = c.level_steps[0]
  /\ which_level_being_advanced' = -1
  /\ last_checkpoint' = RestartedAt(level_steps')
  /\ pc' = "main"
  /\ UNCHANGED <<job, frames, loop, tries, disk, write_errors, ret, bUserStopRequest, crashes>>

----------------------------------------------------------------------------
(* Amr::timeStep.                                                          *)

\* Entering timeStep(l, t, i, .): the regrid loop starts at level l.
EnterTimeStep_RegridsFromLevelZero(l, t, i) ==
  /\ cur' = l
  /\ time' = [time EXCEPT ![l] = t]
  /\ iter' = [iter EXCEPT ![l] = i]
  /\ which_level_being_advanced' = l
  /\ lev' = 0
  /\ lev_top' = Least(finest_level, max_level - 1)
  /\ pc' = "regrid"

EnterTimeStep(l, t, i) ==
  /\ cur' = l
  /\ time' = [time EXCEPT ![l] = t]
  /\ iter' = [iter EXCEPT ![l] = i]
  /\ which_level_being_advanced' = l
  /\ lev' = l
  /\ lev_top' = Least(finest_level, max_level - 1)
  /\ pc' = "regrid"

\* The main loop calls coarseTimeStep: okToContinue and steps left; a new dt is computed
\* and timeStep(0) entered.  computeNewDt lets dt grow by change_max = 1.1 at most.
CoarseTimeStep ==
  /\ pc = "main" /\ ~bUserStopRequest /\ level_steps[0] < job.max_step
  /\ \E dt_0 \in job.dts :
       /\ level_steps[0] > 0 => 10 * dt_0 <= 11 * dt_level[0]
       /\ dt_level' = ShareDt(dt_0, finest_level, n_cycle, dt_level)
  /\ EnterTimeStep(0, cumtime, 1)
  /\ UNCHANGED <<inputs, hierarchy, state, counters, cumtime, files, control, rescaled>>

okToRegrid(l) == RegridInt[l] >= 0 /\ level_count[l] >= RegridInt[l]

NextLev_Unchanged == lev
NextLev == lev + 1

SkipRegrid ==
  /\ pc = "regrid" /\ lev <= lev_top /\ ~okToRegrid(lev)
  /\ lev' = NextLev
  /\ UNCHANGED <<pc, inputs, hierarchy, state, dt_level, counters, cumtime,
                 which_level_being_advanced, frames, lev_top, files, control, rescaled>>

\* What grid_places returns as new_finest.
NewFinest(lbase) == lbase..Least(finest_level + 1, max_level)

\* level_steps of a level that regrid creates.
NewLevelSteps_Kept(l) == level_steps[l]
NewLevelSteps(l) == level_steps[l-1] * n_cycle[l]

\* Amr::regrid(lbase): grid_places returns nf and ng; ng[0] differs from the level 0 grids
\* only for lbase = 0.  Levels start..nf are rebuilt: an existing one takes its data and
\* times over (AmrLevelAdv::init(old)), a new one is filled from the level below
\* (AmrLevelAdv::init()); neither has old data.  Levels above nf are deleted.
Regrid(lbase, nf, ng) ==
  LET rz        == lbase = 0 /\ (job.loadbalance \/ ng[0] # grids[0])
      start     == IF rz THEN 0 ELSE lbase + 1
      unchanged == /\ finest_level = nf
                   /\ \A l \in start..nf : ng[l] = grids[l]
      new(l)    == l = finest_level + 1 /\ l <= nf
      built(l)  == l \in start..nf
  IN IF lbase > Least(finest_level, max_level - 1) \/ (job.use_efficient_regrid /\ unchanged)
     THEN UNCHANGED <<hierarchy, state, level_steps>>
     ELSE /\ finest_level' = nf
          /\ grids' = [l \in Levels |-> IF built(l) THEN ng[l] ELSE grids[l]]
          /\ has_old' = [l \in Levels |-> l <= nf /\ ~built(l) /\ has_old[l]]
          /\ new_time' = [l \in Levels |->
               IF new(l) THEN new_time[l-1] ELSE IF l > nf THEN 0 ELSE new_time[l]]
          /\ old_time' = [l \in Levels |->
               IF new(l) THEN new_time[l-1] - (new_time[l-1] - old_time[l-1]) \div RefRatio
               ELSE IF l > nf THEN 0 ELSE old_time[l]]
          /\ level_steps' = [l \in Levels |->
               IF new(l) THEN NewLevelSteps(l) ELSE level_steps[l]]

\* One turn of the loop that regrids: the new dt, the counters and the steps of new levels.
RegridLevel ==
  /\ pc = "regrid" /\ lev <= lev_top /\ okToRegrid(lev)
  /\ \E nf \in NewFinest(lev), ng \in [Levels -> job.grids],
        dt_0 \in job.dts \cup {dt_level[0]} :
       /\ (lev > 0) => (ng[0] = grids[0])
       /\ \A l \in Levels : (l > nf \/ l \in 1..lev) => ng[l] = grids[l]
       /\ Regrid(lev, nf, ng)
       /\ IF ComputeNewDtOnRegrid /\ lev = 0 THEN dt_0 <= dt_level[0] ELSE dt_0 = dt_level[0]
       /\ LET dt == IF ComputeNewDtOnRegrid /\ lev = 0
                    THEN ShareDt(dt_0, finest_level', n_cycle, dt_level) ELSE dt_level
          IN dt_level' = [l \in Levels |->
                            IF finest_level < l /\ l <= finest_level'
                            THEN dt[l-1] \div n_cycle[l] ELSE dt[l]]
       /\ level_count' = [l \in Levels |->
                            IF lev <= l /\ l <= finest_level' THEN 0 ELSE level_count[l]]
       /\ lev_top' = IF finest_level > finest_level'
                     THEN Least(finest_level', max_level - 1) ELSE lev_top
  /\ lev' = NextLev
  /\ UNCHANGED <<pc, inputs, cumtime, which_level_being_advanced, frames, files, control,
                 rescaled>>

\* amr_level[level]->advance: allocOldData, swapTimeLevels(dt).  The levels of this model
\* never ask for a regrid after the step (setPostStepRegrid has no caller).
AboutToAdvance == pc = "regrid" /\ lev > lev_top

Advance ==
  /\ AboutToAdvance
  /\ has_old' = [has_old EXCEPT ![cur] = TRUE]
  /\ old_time' = [old_time EXCEPT ![cur] = new_time[cur]]
  /\ new_time' = [new_time EXCEPT ![cur] = @ + dt_level[cur]]
  /\ level_steps' = [level_steps EXCEPT ![cur] = @ + 1]
  /\ level_count' = [level_count EXCEPT ![cur] = @ + 1]
  /\ pc' = "advanced"
  /\ UNCHANGED <<inputs, hierarchy, dt_level, cumtime, which_level_being_advanced,
                 frames, loop, files, control, rescaled>>

\* level < finest_level: the first timeStep of the next finer level.
Recurse ==
  /\ pc = "advanced" /\ cur < finest_level
  /\ EnterTimeStep(cur + 1, time[cur], 1)
  /\ UNCHANGED <<inputs, hierarchy, state, dt_level, counters, cumtime, files, control, rescaled>>

NoFiner ==
  /\ pc = "advanced" /\ cur >= finest_level
  /\ pc' = "post_timestep"
  /\ UNCHANGED <<inputs, hierarchy, state, dt_level, counters, cumtime,
                 which_level_being_advanced, frames, loop, files, control, rescaled>>

ncycle(l) == IF SubCycle THEN n_cycle[l] ELSE 1

\* The time argument of the next subcycle of level l, after iter[l] of them.
SubcycleTime_NotShifted(l) == time[l-1] + (iter[l] - 1) * dt_level[l]
SubcycleTime(l) == time[l-1] + iter[l] * dt_level[l]

\* post_timestep of level cur, then return to the frame of the coarser level: its next
\* subcycle of this level, its own post_timestep, or coarseTimeStep.
PostTimeStep ==
  /\ pc = "post_timestep"
  /\ \/ /\ cur > 0 /\ iter[cur] < ncycle(cur)
        /\ EnterTimeStep(cur, SubcycleTime(cur), iter[cur] + 1)
     \/ /\ cur > 0 /\ iter[cur] >= ncycle(cur)
        /\ cur' = cur - 1
        /\ which_level_being_advanced' = -1
        /\ UNCHANGED <<pc, time, iter, loop>>
     \/ /\ cur = 0
        /\ cur' = -1
        /\ which_level_being_advanced' = -1
        /\ pc' = "coarse_end"
        /\ UNCHANGED <<time, iter, loop>>
  /\ UNCHANGED <<inputs, hierarchy, state, dt_level, counters, cumtime, files, control, rescaled>>

checkPointNow_OffByOne == CheckInt > 0 /\ level_steps[0] % (CheckInt + 1) = 0
checkPointNow == CheckInt > 0 /\ level_steps[0] % CheckInt = 0

\* The rest of coarseTimeStep: the time, the files by which a user asks for a checkpoint
\* or a stop (message_int > 0), and the periodic checkpoint.
CoarseEnd ==
  /\ pc = "coarse_end"
  /\ cumtime' = cumtime + dt_level[0]
  /\ \E to_stop, to_checkpoint \in BOOLEAN :
       /\ last_checkpoint' = IF to_stop /\ ~to_checkpoint THEN level_steps[0] ELSE last_checkpoint
       /\ bUserStopRequest' = to_stop
       /\ IF to_checkpoint \/ checkPointNow
          THEN pc' = "checkpoint" /\ ret' = "main" /\ tries' = 0
          ELSE pc' = "main" /\ UNCHANGED <<ret, tries>>
  /\ UNCHANGED <<inputs, hierarchy, state, dt_level, counters, which_level_being_advanced,
                 frames, loop, disk, write_errors, crashes, origin, rescaled>>

\* After the main loop: a final checkpoint unless this step has one.
FinalCheckpoint ==
  /\ pc = "main" /\ (bUserStopRequest \/ level_steps[0] >= job.max_step)
  /\ IF last_checkpoint < level_steps[0]
     THEN pc' = "checkpoint" /\ ret' = "done" /\ tries' = 0
     ELSE pc' = "done" /\ UNCHANGED <<ret, tries>>
  /\ UNCHANGED <<inputs, hierarchy, state, dt_level, counters, cumtime, frames, loop,
                 which_level_being_advanced, last_checkpoint, disk, write_errors,
                 bUserStopRequest, crashes, origin, rescaled>>

----------------------------------------------------------------------------
(* Amr::checkPoint.                                                        *)

NamedAsStep(s) == {c \in disk : c.level_steps[0] = s}

Contents(ok) ==
  [cumtime |-> cumtime, mx_lev |-> max_level, finest_level |-> finest_level,
   n_cycle |-> n_cycle, dt_level |-> dt_level, level_steps |-> level_steps,
   level_count |-> level_count, grids |-> grids, old_time |-> old_time,
   new_time |-> new_time, has_old |-> has_old, good |-> ok]

\* A directory with this step's name is moved away and the temporary one created.
CheckpointBegin ==
  /\ pc = "checkpoint"
  /\ disk' = disk \ NamedAsStep(level_steps[0])
  /\ tries' = tries + 1
  /\ pc' = "ck_write"
  /\ UNCHANGED <<inputs, hierarchy, state, dt_level, counters, cumtime, frames, loop,
                 which_level_being_advanced, last_checkpoint, write_errors, control, rescaled>>

\* Header and level data are written, then the temporary directory is renamed.
CheckpointWrite ==
  /\ pc = "ck_write"
  /\ \E ok \in {TRUE} \cup (IF write_errors < job.write_errors THEN {FALSE} ELSE {}) :
       /\ disk' = disk \cup {Contents(ok)}
       /\ write_errors' = IF ok THEN write_errors ELSE write_errors + 1
  /\ last_checkpoint' = level_steps[0]
  /\ pc' = "ck_check"
  /\ UNCHANGED <<inputs, hierarchy, state, dt_level, counters, cumtime, frames, loop,
                 which_level_being_advanced, tries, control, rescaled>>

\* StreamRetry::TryFileOutput: a file with stream errors is renamed to .badNN and written
\* again, MaxTries times at most.
CheckpointCheck ==
  /\ pc = "ck_check"
  /\ IF \A c \in NamedAsStep(level_steps[0]) : c.good
     THEN pc' = ret /\ UNCHANGED disk
     ELSE /\ disk' = disk \ NamedAsStep(level_steps[0])
          /\ pc' = IF tries < MaxTries THEN "checkpoint"
                   ELSE IF AbortOnRetryFailure THEN "aborted" ELSE ret
  /\ UNCHANGED <<inputs, hierarchy, state, dt_level, counters, cumtime, frames, loop,
                 which_level_being_advanced, last_checkpoint, tries, write_errors, control, rescaled>>

----------------------------------------------------------------------------

\* The job dies: memory is lost, the directories stay.
Crash ==
  /\ pc # "down" /\ crashes < job.crashes
  /\ crashes' = crashes + 1
  /\ pc' = "down"
  /\ max_level' = 0 /\ n_cycle' = [l \in Levels |-> 1]
  /\ finest_level' = 0 /\ grids' = [l \in Levels |-> CHOOSE g \in job.grids : TRUE]
  /\ old_time' = [l \in Levels |-> 0] /\ new_time' = [l \in Levels |-> 0]
  /\ has_old' = [l \in Levels |-> FALSE]
  /\ dt_level' = [l \in Levels |-> HugeDt]
  /\ level_steps' = [l \in Levels |-> 0] /\ level_count' = [l \in Levels |-> 0]
  /\ cumtime' = 0 /\ which_level_being_advanced' = -1
  /\ cur' = -1 /\ time' = [l \in Levels |-> 0] /\ iter' = [l \in Levels |-> 1]
  /\ lev' = 0 /\ lev_top' = 0
  /\ last_checkpoint' = 0 /\ tries' = 0 /\ bUserStopRequest' = FALSE
  /\ ret' = "main" /\ origin' = -1
  /\ UNCHANGED <<job, disk, write_errors, rescaled>>

Program ==
  \/ CoarseTimeStep \/ SkipRegrid \/ RegridLevel \/ Advance \/ Recurse \/ NoFiner
  \/ PostTimeStep \/ CoarseEnd \/ FinalCheckpoint
  \/ CheckpointBegin \/ CheckpointWrite \/ CheckpointCheck

Next == InitialInit \/ Restart \/ Program \/ Crash

Spec == Init /\ [][Next]_vars /\ WF_vars(Program)

----------------------------------------------------------------------------
(* Properties.                                                             *)

\* When a level is advanced over [time, time + dt], its own data is at time and the next
\* coarser level holds old and new data that bracket the interval, so that the fill of
\* the ghost cells interpolates and never extrapolates (StateData::getData, FillPatch).
FillBracketed ==
  AboutToAdvance =>
    /\ new_time[cur] = time[cur]
    /\ cur > 0 => /\ has_old[cur-1]
                  /\ old_time[cur-1] <= time[cur]
                  /\ time[cur] + dt_level[cur] <= new_time[cur-1]

\* regrid(lbase, time) is only called while lbase and every finer level are at that time,
\* and the level below lbase can be interpolated to it.
RegridSynced ==
  (pc = "regrid" /\ lev <= lev_top /\ okToRegrid(lev)) =>
    /\ \A l \in lev..finest_level : new_time[l] = time[cur]
    /\ lev > 0 => old_time[lev-1] <= time[cur] /\ time[cur] <= new_time[lev-1]

\* post_timestep of a level (reflux and avgDown from the finer one) runs when every finer
\* level has reached exactly the end of this level's step.  Between two coarse steps all
\* levels are at cumtime, and their step counts and time steps are in the ratio of the
\* subcycling, whatever regrids and restarts have happened, unless a restart has changed
\* the ratio.
CoarseConsistent ==
  /\ pc = "post_timestep" =>
        \A l \in cur..finest_level : new_time[l] = time[cur] + dt_level[cur]
  /\ pc = "main" =>
        /\ \A l \in 0..finest_level : new_time[l] = cumtime
        /\ ~rescaled =>
             \A l \in 1..finest_level : /\ level_steps[l] = n_cycle[l] * level_steps[l-1]
                                       /\ dt_level[l-1] = n_cycle[l] * dt_level[l]

\* A crash during a coarse step loses CheckInt coarse steps at most, as long as no
\* checkpoint was spoiled by a stream error.
CrashLossBounded ==
  (cur >= 0 /\ CheckInt > 0 /\ write_errors = 0) =>
    \E c \in disk : /\ c.good
                    /\ c.level_steps[0] <= level_steps[0]
                    /\ level_steps[0] - c.level_steps[0] <= CheckInt

\* The checkpoint an execution was restarted from is still there, intact, as long as it
\* runs (restart sets last_checkpoint so that main does not overwrite it).
RestartFileKept ==
  origin >= 0 => \E c \in disk : c.good /\ c.level_steps[0] = origin

\* Every run ends (or dies): the recursion of timeStep, the regrid loop, whose bound moves
\* with the regrids, and the retries of a checkpoint file all terminate.
RunEnds == <>[](pc \in {"done", "aborted", "down"})
=============================================================================
