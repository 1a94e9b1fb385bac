-------------------------------- MODULE MLMG --------------------------------
(***************************************************************************)
(* The multigrid driver MLMG (AMReX_MLMG.H): solve and precond, the V- and *)
(* F-cycles on the multigrid levels of an AMR level, and the cycle over    *)
(* the AMR levels (oneIter), for CFStrategy::none and without N-Solve.     *)
(*                                                                         *)
(* Every smoothing, bottom solve and interpolation makes a new correction, *)
(* an atom: a number nothing else has.  A solution or a correction is the  *)
(* bag of the atoms added up in it.  The operator is linear, so a residual *)
(* is known by the bag it has been reduced by on its own level (own), the  *)
(* bag that supplied its coarse boundary values (bc) and what the finer    *)
(* AMR level has put into it (fine): rhs - L(own; bc), refluxed with fine. *)
(***************************************************************************)
EXTENDS Integers, Sequences, Bags

CONSTANTS
    Layouts,       \* by AMR level, the numbers of multigrid levels (NMGLevels)
    FmgIters,      \* choices of max_fmg_iters
    Uses,          \* ways to use the solver: [solve, residual, ghosts], the
                   \* arrays given to solve or precond and to compResidual,
                   \* and how many ghost cells each has
    do_no_sync_gpu,
    max_iters,
    PrecondIters,  \* max_precond_iters
    MaxCalls       \* bound: calls of the user

Own == "own"       \* the storage MLMG makes for sol

ASSUME BoundsAssumption == {max_iters, PrecondIters, MaxCalls} \subseteq Nat \ {0}

ASSUME ProblemAssumption ==
    /\ \A k \in Layouts : \E l \in DOMAIN k : l \in Nat /\ k \in [0..l -> Nat \ {0}]
    /\ \A u \in Uses : u.solve \cup u.residual \subseteq DOMAIN u.ghosts \ {Own}
    /\ do_no_sync_gpu \in BOOLEAN

VARIABLES
    nmg, max_fmg_iters, use,   \* the problem and its use
    phase,                     \* what oneIter or solve does next
    alev, mglev, top, call,    \* loop indices; mgVcycle's arguments and caller
    iter, calls, n,            \* n: the next atom
    store,                     \* the contents of the arrays, by AMR level
    target,                    \* the array sol shares its memory with, or Own
    sol_is_alias, solve_called,
    res, cor, cor_hold,
    precond_mode, swapped, bndry_zero,   \* precond: iterations and BC swapped
    regions, prev_regions,     \* in the single-stream and no-sync regions
    mode, arg, outcome,        \* the call in progress, or the last one
    before, made, at_start,    \* history: store at the call; the atoms added
                               \* since; sol at the start of the iteration
    synced, thrown             \* history: sol is averaged down; a call threw

config == <<nmg, max_fmg_iters, use>>
control == <<phase, alev, mglev, top, call, iter>>
user == <<calls, mode, arg, outcome, before, thrown>>
memory == <<store, target, sol_is_alias, solve_called, made, at_start, synced>>
flags == <<precond_mode, swapped, bndry_zero, regions, prev_regions>>
data == <<n, res, cor, cor_hold>>
vars == <<config, control, user, memory, flags, data>>

Lev == DOMAIN nmg
finest_amr_lev == CHOOSE l \in Lev : l + 1 \notin Lev
Bottom(l) == nmg[l] - 1
sol == store[target]
Fixed == swapped            \* do_fixed_number_of_iters # 0

Nothing == [l \in Lev |-> EmptyBag]
Atom(i) == SetToBag({i})

\* LocalAdd
LocalAdd(f, l, b) == [f EXCEPT ![l] = @ (+) b]

\* Residuals.  of: what a restricted residual was computed from.
Residual(own, bc) == [id |-> n, own |-> own, bc |-> bc, fine |-> <<>>, of |-> <<>>]

ZeroRes == [id |-> 0, own |-> EmptyBag, bc |-> EmptyBag, fine |-> <<>>, of |-> <<>>]

\* linop.solutionResidual on level l, coarse data from the level below.
solutionResidual(l) == Residual(sol[l], IF l > 0 THEN sol[l-1] ELSE EmptyBag)

\* linop.reflux: the fluxes of the finer solution at its boundary.
Refluxed(r, fine_sol) == [r EXCEPT !.fine = <<fine_sol>>]

\* computeMLResidual(amrlevmax)
MLResidual(amrlevmax) ==
    [l \in Lev |-> IF l > amrlevmax THEN res[l]
                   ELSE [res[l] EXCEPT ![0] =
                           IF l < finest_amr_lev
                           THEN Refluxed(solutionResidual(l), sol[l+1])
                           ELSE solutionResidual(l)]]

\* linop.correctionResidual: r reduced by the correction c, whose coarse
\* boundary values are zero, or those of the coarse correction.
Reduced(r, c) == [r EXCEPT !.own = @ (+) c]
ReducedWithBC(r, c, crse_cor) == [r EXCEPT !.own = @ (+) c, !.bc = @ (+) crse_cor]

\* linop.restriction, or avgDownResMG with no correction: the coarser
\* multigrid residual made from r - L(c).
Restricted(r, c) == [ZeroRes EXCEPT !.id = n, !.of = <<r.id, r.own, c>>]

Init ==
    /\ nmg \in Layouts /\ max_fmg_iters \in FmgIters /\ use \in Uses
    /\ phase = "idle" /\ alev = 0 /\ mglev = 0 /\ top = 0 /\ call = "none"
    /\ iter = 0 /\ calls = 0 /\ n = 1
    /\ store = [a \in DOMAIN use.ghosts \cup {Own} |-> Nothing]
    /\ target = Own /\ sol_is_alias = "unset" /\ solve_called = FALSE
    /\ res = [l \in Lev |-> [m \in 0..Bottom(l) |-> ZeroRes]]
    /\ cor = [l \in Lev |-> [m \in 0..Bottom(l) |-> EmptyBag]]
    /\ cor_hold = cor
    /\ precond_mode = FALSE /\ swapped = FALSE /\ bndry_zero = FALSE
    /\ regions = FALSE /\ prev_regions = FALSE
    /\ mode = "none" /\ arg = Own /\ outcome = "none"
    /\ before = store /\ made = Nothing /\ at_start = Nothing
    /\ synced = TRUE /\ thrown = FALSE
-----------------------------------------------------------------------------
(* Calls of the user                                                       *)

\* prepareForSolve: sol becomes an alias of the argument if that has one
\* ghost cell, and a copy of it otherwise - but the flag of an earlier alias
\* is never taken back.
prepareForSolve(a) ==
    /\ IF use.ghosts[a] = 1
       THEN /\ target' = a
            /\ sol_is_alias' = "yes"
            /\ UNCHANGED store
       ELSE IF sol_is_alias = "yes"
       THEN UNCHANGED <<target, sol_is_alias, store>>
       ELSE /\ target' = Own
            /\ sol_is_alias' = "no"
            /\ store' = [store EXCEPT ![Own] = store[a]]
    /\ res' = [l \in Lev |-> [m \in 0..Bottom(l) |-> ZeroRes]]
    /\ cor' = [l \in Lev |-> [m \in 0..Bottom(l) |-> EmptyBag]]
    /\ cor_hold' = cor'
    /\ synced' = TRUE                             \* averageDownSolutionRHS

StartSolve(a) ==
    /\ phase = "idle" /\ calls < MaxCalls
    /\ calls' = calls + 1
    /\ arg' = a /\ outcome' = "running"
    /\ before' = store /\ made' = Nothing
    /\ prev_regions' = (do_no_sync_gpu /\ regions)
    /\ regions' = (do_no_sync_gpu \/ regions)
    /\ prepareForSolve(a)
    /\ phase' = "start"
    /\ UNCHANGED <<config, alev, mglev, top, call, iter, n, solve_called,
                   at_start, thrown>>

\* MLMG::solve
solve(a) ==
    /\ StartSolve(a)
    /\ mode' = "solve"
    /\ UNCHANGED <<precond_mode, swapped, bndry_zero>>

\* MLMG::precond, up to its call of solve
precond(a) ==
    /\ StartSolve(a)
    /\ mode' = "precond"
    /\ precond_mode' = TRUE
    /\ swapped' = ~swapped
    /\ bndry_zero' = ~bndry_zero                  \* beginPrecondBC

\* MLMG::compResidual, as far as it changes the solver
compResidual(a) ==
    /\ phase = "idle" /\ calls < MaxCalls
    /\ calls' = calls + 1
    /\ IF use.ghosts[a] = 1
       THEN /\ target' = a
            /\ sol_is_alias' = "yes"
            /\ UNCHANGED store
       ELSE /\ target' = Own
            /\ store' = [store EXCEPT ![Own] = store[a]]
            /\ sol_is_alias' = IF sol_is_alias = "unset" THEN "yes" ELSE sol_is_alias
    /\ mode' = "residual" /\ outcome' = "none"
    /\ UNCHANGED <<config, control, arg, before, thrown, solve_called, made,
                   at_start, synced, flags, data>>
-----------------------------------------------------------------------------
(* solve: the iterations                                                   *)

\* The first residual; no iteration if it is small enough.
FirstResidual ==
    /\ phase = "start"
    /\ res' = MLResidual(finest_amr_lev)
    /\ n' = n + 1
    /\ phase' \in {"iter", "post"}
    /\ iter' = 0
    /\ UNCHANGED <<config, alev, mglev, top, call, user, memory, flags, cor, cor_hold>>

\* oneIter: from the finest level down.
oneIter ==
    /\ phase = "iter"
    /\ at_start' = sol
    /\ alev' = finest_amr_lev
    /\ phase' = IF finest_amr_lev > 0 THEN "mini_down" ELSE "coarse"
    /\ UNCHANGED <<config, mglev, top, call, iter, user, store, target,
                   sol_is_alias, solve_called, made, synced, flags, data>>

\* mgVcycle(amrlev, mglev_top) is called.
StartV(mglev_top, caller) ==
    /\ phase' = "v_down"
    /\ mglev' = mglev_top
    /\ top' = mglev_top
    /\ call' = caller

miniCycleDown ==
    /\ phase = "mini_down"
    /\ StartV(0, "after_down")
    /\ UNCHANGED <<config, alev, iter, user, memory, flags, data>>

\* sol += cor: what sol shares its memory with changes too.
AddToSol(l) ==
    /\ store' = [store EXCEPT ![target] = LocalAdd(@, l, cor[l][0])]
    /\ made' = LocalAdd(made, l, cor[l][0])
    /\ synced' = FALSE
    /\ UNCHANGED <<target, sol_is_alias, solve_called, at_start>>

\* After the cycle on the way down: computeResWithCrseSolFineCor, which puts
\* the fine level into the residual of the coarse one (reflux, avgDownResAmr),
\* and the correction is held for the way up.
AfterDown ==
    LET fine_res == Reduced(res[alev][0], cor[alev][0])
        crse_res == [Refluxed(solutionResidual(alev-1), sol[alev] (+) cor[alev][0])
                       EXCEPT !.fine = Append(@, <<fine_res.own, fine_res.bc>>)]
    IN  /\ phase = "after_down"
        /\ AddToSol(alev)
        /\ res' = [res EXCEPT ![alev][0] = fine_res, ![alev-1][0] = crse_res]
        /\ n' = n + 1
        /\ IF alev # finest_amr_lev
           THEN /\ cor_hold' = [cor_hold EXCEPT ![alev][0] = cor[alev][0]]
                /\ cor' = [cor EXCEPT ![alev][0] = cor_hold[alev][0]]
           ELSE UNCHANGED <<cor, cor_hold>>
        /\ alev' = alev - 1
        /\ phase' = IF alev = 1 THEN "coarse" ELSE "mini_down"
        /\ UNCHANGED <<config, mglev, top, call, iter, user, flags>>

\* The coarsest AMR level: a V-cycle, or an F-cycle in the first iterations.
coarseV ==
    /\ phase = "coarse" /\ iter >= max_fmg_iters
    /\ StartV(0, "after_coarse")
    /\ UNCHANGED <<config, alev, iter, user, memory, flags, data>>

AfterCoarse ==
    /\ phase = "after_coarse"
    /\ AddToSol(0)
    /\ alev' = 1
    /\ phase' = IF finest_amr_lev > 0 THEN "mini_up" ELSE "sync"
    /\ UNCHANGED <<config, mglev, top, call, iter, user, flags, data>>

\* On the way up: interpCorrection from the coarser AMR level, added to the
\* solution and to what is held; computeResWithCrseCorFineCor; a cycle.
miniCycleUp ==
    LET c == Atom(n) IN
    /\ phase = "mini_up"
    /\ cor' = [cor EXCEPT ![alev][0] = c]
    /\ store' = [store EXCEPT ![target] = LocalAdd(@, alev, c)]
    /\ made' = LocalAdd(made, alev, c)
    /\ cor_hold' = IF alev = finest_amr_lev THEN cor_hold
                   ELSE [cor_hold EXCEPT ![alev][0] = @ (+) c]
    /\ res' = [res EXCEPT ![alev][0] = ReducedWithBC(@, c, cor[alev-1][0])]
    /\ n' = n + 1
    /\ synced' = FALSE
    /\ StartV(0, "after_up")
    /\ UNCHANGED <<config, alev, iter, user, target, sol_is_alias, solve_called,
                   at_start, flags>>

\* The correction of the last cycle alone.
Whole_CycleOnly(l) == cor[l][0]

\* What the next finer level is to see of this level's correction: all of it,
\* the part held on the way down included.
Whole(l) == IF l # finest_amr_lev THEN cor[l][0] (+) cor_hold[l][0] ELSE cor[l][0]

AfterUp ==
    /\ phase = "after_up"
    /\ AddToSol(alev)
    /\ cor' = [cor EXCEPT ![alev][0] = Whole(alev)]
    /\ alev' = alev + 1
    /\ phase' = IF alev = finest_amr_lev THEN "sync" ELSE "mini_up"
    /\ UNCHANGED <<config, mglev, top, call, iter, user, flags, n, res, cor_hold>>

\* averageDownAndSync ends oneIter; solve computes the finest residual.
EndIter ==
    /\ phase = "sync"
    /\ synced' = TRUE
    /\ res' = [res EXCEPT ![finest_amr_lev][0] = solutionResidual(finest_amr_lev)]
    /\ n' = n + 1
    /\ phase' \in {"test_coarse", "again"}    \* the finest level has converged
    /\ UNCHANGED <<config, alev, mglev, top, call, iter, user, store, target,
                   sol_is_alias, solve_called, made, at_start, flags, cor, cor_hold>>

\* ... and then the coarser ones decide.
TestCoarse ==
    /\ phase = "test_coarse"
    /\ IF finest_amr_lev = 0
       THEN phase' = "post" /\ UNCHANGED <<res, n>>
       ELSE /\ res' = MLResidual(finest_amr_lev - 1)
            /\ n' = n + 1
            /\ phase' \in {"post", "again"}
    /\ UNCHANGED <<config, alev, mglev, top, call, iter, user, memory, flags,
                   cor, cor_hold>>

LastIter == iter + 1 = (IF Fixed THEN PrecondIters ELSE max_iters)

Again ==
    /\ phase = "again"
    /\ ~LastIter \/ Fixed
    /\ iter' = iter + 1
    /\ phase' = IF LastIter THEN "post" ELSE "iter"
    /\ UNCHANGED <<config, alev, mglev, top, call, user, memory, flags, data>>

\* The solver blew up, or failed to converge: throw error(...) leaves solve,
\* and precond, where they are.
Throw ==
    /\ phase = "again"
    /\ phase' = "idle"
    /\ outcome' = "thrown" /\ thrown' = TRUE
    /\ UNCHANGED <<config, alev, mglev, top, call, iter, calls, mode, arg,
                   before, memory, flags, data>>

\* The result stays in MLMG.
CopyBack_Never == store

\* The solution goes back to the argument, unless it is there already.
CopyBack == IF sol_is_alias = "yes" THEN store ELSE [store EXCEPT ![arg] = sol]

\* The end of solve and of precond.
Return ==
    /\ phase = "post"
    /\ store' = CopyBack
    /\ solve_called' = TRUE
    /\ regions' = IF do_no_sync_gpu THEN prev_regions ELSE regions
    /\ IF mode = "precond"
       THEN bndry_zero' = ~bndry_zero /\ swapped' = ~swapped /\ precond_mode' = FALSE
       ELSE UNCHANGED <<bndry_zero, swapped, precond_mode>>
    /\ phase' = "idle" /\ outcome' = "returned"
    /\ UNCHANGED <<config, alev, mglev, top, call, iter, calls, mode, arg,
                   before, thrown, target, sol_is_alias, made, at_start, synced,
                   prev_regions, data>>
-----------------------------------------------------------------------------
(* mgVcycle, on AMR level alev                                             *)

\* Down: smooth from zero, restrict what is left.
VDown ==
    /\ phase = "v_down" /\ mglev < Bottom(alev)
    /\ cor' = [cor EXCEPT ![alev][mglev] = Atom(n)]
    /\ res' = [res EXCEPT ![alev][mglev+1] = Restricted(res[alev][mglev], Atom(n))]
    /\ n' = n + 1
    /\ mglev' = mglev + 1
    /\ UNCHANGED <<config, phase, alev, top, call, iter, user, memory, flags, cor_hold>>

\* The bottom: bottomSolve on the coarsest AMR level, smoothing on others.
VBottom ==
    /\ phase = "v_down" /\ mglev = Bottom(alev)
    /\ cor' = [cor EXCEPT ![alev][mglev] = Atom(n)]
    /\ n' = n + 1
    /\ mglev' = mglev - 1
    /\ phase' = IF mglev = top THEN call ELSE "v_up"
    /\ UNCHANGED <<config, alev, top, call, iter, user, memory, flags, res, cor_hold>>

\* Up: addInterpCorrection, smooth.
VUp ==
    /\ phase = "v_up"
    /\ cor' = [cor EXCEPT ![alev][mglev] = @ (+) SetToBag({n, n + 1})]
    /\ n' = n + 2
    /\ mglev' = mglev - 1
    /\ phase' = IF mglev = top THEN call ELSE "v_up"
    /\ UNCHANGED <<config, alev, top, call, iter, user, memory, flags, res, cor_hold>>
-----------------------------------------------------------------------------
(* mgFcycle, on AMR level 0                                                *)

\* The residual averaged down all the way (its numbers are n, n + 1, ...)
\* and solved at the bottom.
mgFcycle ==
    LET down[m \in 0..Bottom(0)] ==
          IF m = 0 THEN res[0][0]
          ELSE [Restricted(down[m-1], EmptyBag) EXCEPT !.id = n + m]
    IN  /\ phase = "coarse" /\ iter < max_fmg_iters
        /\ res' = [res EXCEPT ![0] = down]
        /\ cor' = [cor EXCEPT ![0][Bottom(0)] = Atom(n)]
        /\ n' = n + nmg[0]
        /\ mglev' = Bottom(0) - 1
        /\ phase' = IF Bottom(0) = 0 THEN "after_coarse" ELSE "f_level"
        /\ UNCHANGED <<config, alev, top, call, iter, user, memory, flags, cor_hold>>

\* One level up: interpolate, reduce the residual by that, hold it, V-cycle.
FLevel ==
    LET c == Atom(n) IN
    /\ phase = "f_level"
    /\ res' = [res EXCEPT ![0][mglev] = Reduced(@, c)]
    /\ cor_hold' = [cor_hold EXCEPT ![0][mglev] = c]
    /\ cor' = [cor EXCEPT ![0][mglev] = cor_hold[0][mglev]]
    /\ n' = n + 1
    /\ StartV(mglev, "after_f")
    /\ UNCHANGED <<config, alev, iter, user, memory, flags>>

\* The interpolated correction is lost.
PlusHold_Dropped(m) == cor[0][m]

PlusHold(m) == cor[0][m] (+) cor_hold[0][m]

AfterFLevel ==
    /\ phase = "after_f"
    /\ cor' = [cor EXCEPT ![0][top] = PlusHold(top)]
    /\ mglev' = top - 1
    /\ phase' = IF top = 0 THEN "after_coarse" ELSE "f_level"
    /\ UNCHANGED <<config, alev, top, call, iter, user, memory, flags, n, res, cor_hold>>
-----------------------------------------------------------------------------
Cycle == VDown \/ VBottom \/ VUp \/ mgFcycle \/ FLevel \/ AfterFLevel

Next ==
    \/ \E a \in use.solve : solve(a) \/ precond(a)
    \/ \E a \in use.residual : compResidual(a)
    \/ FirstResidual \/ oneIter
    \/ miniCycleDown \/ AfterDown \/ coarseV \/ AfterCoarse
    \/ miniCycleUp \/ AfterUp \/ EndIter
    \/ TestCoarse \/ Again \/ Throw \/ Return
    \/ Cycle

Spec == Init /\ [][Next]_vars
-----------------------------------------------------------------------------
\* A cycle starts from the residual of the solution as it is at that moment:
\* reduced by all that has been added on this level, and nothing twice, with
\* the boundary values of the coarser solution as it is, and with the fine
\* level's solution at their boundary and its residual under it.  In an
\* F-cycle the correction that is held counts as added.
ResidualTrue ==
    phase = "v_down" /\ mglev = top =>
        LET r == res[alev][top]
        IN  IF call = "after_f"
            THEN r.own = IF top = 0 THEN sol[0] (+) cor_hold[0][0]
                                    ELSE cor_hold[0][top]
            ELSE /\ r.own = sol[alev]
                 /\ alev > 0 => r.bc = sol[alev-1]
                 /\ alev < finest_amr_lev =>
                       r.fine = <<sol[alev+1], <<sol[alev+1], at_start[alev]>> >>

\* When a coarser correction is interpolated, it is the whole of it.  Between
\* multigrid levels: for the residual that is left at this very moment, with
\* everything that has been taken out of the coarse residual since.  Between
\* AMR levels: the whole change of the coarse solution in this iteration.
CorrectionWhole ==
    LET Covers(l, m, c) == /\ res[l][m+1].of = <<res[l][m].id, res[l][m].own, c>>
                           /\ res[l][m+1].own \sqsubseteq cor[l][m+1]
    IN  /\ phase = "v_up" => Covers(alev, mglev, cor[alev][mglev])
        /\ phase = "f_level" => Covers(0, mglev, EmptyBag)
        /\ phase = "mini_up" =>
              sol[alev-1] = at_start[alev-1] (+) cor[alev-1][0]

\* When solve or precond returns, its argument holds the initial guess plus
\* all corrections made, averaged down from fine to coarse, and no other array
\* of the user has changed; and unless a call has thrown, the iteration counts,
\* the boundary data and the GPU regions are what they were.
SolutionReturned ==
    /\ phase = "idle" /\ outcome = "returned" =>
          /\ \A l \in Lev : store[arg][l] = before[arg][l] (+) made[l]
          /\ \A a \in DOMAIN store \ {arg, Own} : store[a] = before[a]
          /\ synced
    /\ phase = "idle" /\ ~thrown =>
          ~precond_mode /\ ~swapped /\ ~bndry_zero /\ ~regions

=============================================================================
