---------------------------- MODULE SolverProofs ----------------------------
(***************************************************************************)
(* Proofs about the solver, for any AMR and multigrid levels, boxes of any *)
(* size and any number of calls: MLMG (every cycle starts from the         *)
(* residual of the solution as it is, every correction is interpolated     *)
(* whole, and what a call returns is all that was computed) and its        *)
(* operator (the threads of a colour do not meet, all copies of an edge    *)
(* come out the same on a grid of even periods, and smooth uses factors of *)
(* the scalars that are set).                                              *)
(***************************************************************************)
EXTENDS MLMG, LinOp, SequenceTheorems, TLAPS

-----------------------------------------------------------------------------
(* Bags.                                                                   *)

LEMMA SetIsBag == ASSUME NEW S PROVE IsABag(SetToBag(S))
BY DEF IsABag, SetToBag

LEMMA EmptyIsBag == IsABag(EmptyBag)
BY DEF IsABag, SetToBag, EmptyBag

LEMMA PlusIsBag ==
  ASSUME NEW a, NEW b, IsABag(a), IsABag(b)
  PROVE  IsABag(a (+) b)
BY DEF IsABag, (+)

LEMMA PlusComm ==
  ASSUME NEW a, NEW b, IsABag(a), IsABag(b)
  PROVE  a (+) b = b (+) a
BY DEF IsABag, (+)

LEMMA PlusAssoc ==
  ASSUME NEW a, NEW b, NEW c, IsABag(a), IsABag(b), IsABag(c)
  PROVE  (a (+) b) (+) c = a (+) (b (+) c)
BY DEF IsABag, (+)

LEMMA PlusEmpty ==
  ASSUME NEW a, IsABag(a)
  PROVE  a (+) EmptyBag = a
BY DEF IsABag, (+), EmptyBag, SetToBag

LEMMA EmptyIsLeast ==
  ASSUME NEW a, IsABag(a)
  PROVE  EmptyBag \sqsubseteq a
BY DEF IsABag, \sqsubseteq, EmptyBag, SetToBag

-----------------------------------------------------------------------------
(* The inductive invariant of MLMG.                                        *)


InV == phase \in {"v_down", "v_up"}

\* What is going on, the V-cycle counted to what called it.
stage == IF InV THEN call ELSE phase

Calls == {"after_down", "after_coarse", "after_up", "after_f"}
Down   == {"mini_down", "after_down"}
Coarse == {"coarse", "after_coarse"}
InF    == {"f_level", "after_f"}
Up     == {"mini_up", "after_up"}
Ends   == {"start", "iter", "sync", "test_coarse", "again", "post", "idle"}

\* An array over all AMR and multigrid levels.
Grid(f) == DOMAIN f = Lev /\ \A l \in Lev : DOMAIN f[l] = 0..Bottom(l)
AllBags(f) == \A l \in Lev : \A m \in 0..Bottom(l) : IsABag(f[l][m])

Multi(f) == DOMAIN f = Lev /\ \A l \in Lev : IsABag(f[l])

IsRes(r) == r = [id |-> r.id, own |-> r.own, bc |-> r.bc, fine |-> r.fine, of |-> r.of]

AllRes(f) == \A l \in Lev : \A m \in 0..Bottom(l) : IsRes(f[l][m])

Problem == nmg \in Layouts /\ use \in Uses

Grids ==
  /\ Grid(cor) /\ AllBags(cor) /\ Grid(cor_hold) /\ AllBags(cor_hold)
  /\ Grid(res) /\ AllRes(res)

Arrays ==
  /\ DOMAIN store = DOMAIN use.ghosts \cup {Own} /\ DOMAIN before = DOMAIN store
  /\ target \in DOMAIN store
  /\ \A a \in DOMAIN store : Multi(store[a]) /\ Multi(before[a])
  /\ Multi(made) /\ Multi(at_start)

Shapes == Problem /\ Grids /\ Arrays

Control ==
  /\ phase \in Calls \cup Ends \cup {"mini_down", "coarse", "f_level", "mini_up", "v_down", "v_up"}
  /\ InV => /\ call \in Calls
            /\ top \in 0..Bottom(alev) /\ (call # "after_f" => top = 0)
            /\ mglev \in top..Bottom(alev) /\ (phase = "v_up" => mglev < Bottom(alev))
  /\ stage \in Down \cup Up => alev \in 1..finest_amr_lev
  /\ stage \in Coarse \cup InF => alev = 0
  /\ stage = "f_level" => mglev \in 0..Bottom(0)-1
  /\ stage = "after_f" => top \in 0..Bottom(0)-1

\* The multigrid levels a V-cycle has gone down from: what it has left of their residuals.
Descent ==
  InV => \A j \in top..(IF phase = "v_up" THEN mglev ELSE mglev - 1) :
           /\ res[alev][j+1].of = <<res[alev][j].id, res[alev][j].own, cor[alev][j]>>
           /\ res[alev][j+1].own = EmptyBag

FMade == IF stage = "f_level" THEN mglev ELSE top - 1

FCycle ==
  /\ stage \in InF =>
       \A j \in 0..FMade :
         /\ res[0][j].own = (IF j = 0 THEN sol[0] ELSE EmptyBag)
         /\ res[0][j+1].of = <<res[0][j].id, res[0][j].own, EmptyBag>>
  /\ stage = "after_f" =>
       res[0][top].own = IF top = 0 THEN sol[0] (+) cor_hold[0][0] ELSE cor_hold[0][top]
  /\ stage = "f_level" => res[0][mglev+1].own \sqsubseteq cor[0][mglev+1]

\* The residual that a cycle on AMR level l is to reduce.
Present(l) ==
  /\ res[l][0].own = sol[l]
  /\ l > 0 => res[l][0].bc = sol[l-1]
  /\ l < finest_amr_lev =>
       res[l][0].fine = <<sol[l+1], <<sol[l+1], at_start[l]>> >>

\* Level l on the way from its cycle down to its cycle up.
Between(l) ==
  /\ res[l][0].own = sol[l]
  /\ res[l][0].bc = at_start[l-1]
  /\ l < finest_amr_lev =>
       /\ res[l][0].fine = <<sol[l+1], <<sol[l+1], at_start[l]>> >>
       /\ sol[l] = at_start[l] (+) cor_hold[l][0]

\* Before an iteration.
Before ==
  /\ res[finest_amr_lev][0].own = sol[finest_amr_lev]
  /\ finest_amr_lev > 0 => res[finest_amr_lev][0].bc = sol[finest_amr_lev-1]

\* Level alev has its cycle on the way down.
GoingDown ==
  /\ Present(alev)
  /\ \A k \in 0..alev : sol[k] = at_start[k]
  /\ \A k \in alev+1..finest_amr_lev : Between(k)

\* The coarsest level has its cycle.
OnCoarsest ==
  /\ sol[0] = at_start[0]
  /\ phase = "coarse" \/ (InV /\ call = "after_coarse") => Present(0)
  /\ \A k \in 1..finest_amr_lev : Between(k)

\* Level alev is to get the correction of the next coarser one.
Interpolating ==
  /\ sol[alev-1] = at_start[alev-1] (+) cor[alev-1][0]
  /\ \A k \in alev..finest_amr_lev : Between(k)

\* Level alev has its cycle on the way up.
GoingUp ==
  /\ Present(alev)
  /\ alev < finest_amr_lev => sol[alev] = at_start[alev] (+) cor_hold[alev][0]
  /\ \A k \in alev+1..finest_amr_lev : Between(k)

Levels ==
  /\ stage \in {"iter", "test_coarse", "again"} => Before
  /\ stage \in Down => GoingDown
  /\ stage \in Coarse \cup InF => OnCoarsest
  /\ stage = "mini_up" => Interpolating
  /\ stage = "after_up" => GoingUp

\* sol is an alias only if all arrays given to solve can be.
AliasOK == sol_is_alias = "yes" => \A a \in use.solve : use.ghosts[a] = 1

\* During a call the solution is the guess and all corrections made, and in the right array.
InSolve ==
  phase # "idle" =>
    /\ arg \in use.solve /\ mode \in {"solve", "precond"}
    /\ \/ sol_is_alias = "yes" /\ target = arg
       \/ sol_is_alias = "no" /\ target = Own
    /\ \A l \in Lev : sol[l] = before[arg][l] (+) made[l]
    /\ \A a \in DOMAIN store \ {arg, Own} : store[a] = before[a]

Flags ==
  /\ precond_mode \in BOOLEAN /\ swapped \in BOOLEAN /\ bndry_zero \in BOOLEAN
  /\ regions \in BOOLEAN /\ prev_regions \in BOOLEAN /\ thrown \in BOOLEAN
  /\ ~thrown /\ phase = "idle" => ~precond_mode /\ ~swapped /\ ~bndry_zero /\ ~regions
  /\ ~thrown /\ phase # "idle" =>
       /\ precond_mode <=> mode = "precond"
       /\ swapped <=> mode = "precond"
       /\ bndry_zero <=> mode = "precond"
       /\ regions <=> do_no_sync_gpu
       /\ ~prev_regions

Synced == phase \in {"start", "iter", "test_coarse", "again", "post"} => synced

Answer ==
  phase = "idle" /\ outcome = "returned" =>
    /\ \A l \in Lev : store[arg][l] = before[arg][l] (+) made[l]
    /\ \A a \in DOMAIN store \ {arg, Own} : store[a] = before[a]
    /\ synced

-----------------------------------------------------------------------------
(* Levels, arrays over them, and residuals.                                *)

LEMMA LevIs ==
  ASSUME nmg \in Layouts
  PROVE  /\ finest_amr_lev \in Nat /\ Lev = 0..finest_amr_lev /\ 0 \in Lev
         /\ \A l \in Lev : nmg[l] \in Nat \ {0} /\ Bottom(l) \in Nat
<1>1. PICK f \in DOMAIN nmg : f \in Nat /\ nmg \in [0..f -> Nat \ {0}]
  BY ProblemAssumption
<1>2. Lev = 0..f
  BY <1>1 DEF Lev
<1>3. finest_amr_lev = f
  <2>1. \A l \in Lev : l + 1 \notin Lev <=> l = f
    BY <1>1, <1>2
  <2>2. f \in Lev
    BY <1>1, <1>2
  <2> QED
    BY <2>1, <2>2, Zenon DEF finest_amr_lev
<1>4. \A l \in Lev : nmg[l] \in Nat \ {0} /\ Bottom(l) \in Nat
  BY <1>1, <1>2 DEF Bottom
<1> QED
  BY <1>1, <1>2, <1>3, <1>4

LEMMA SameProblem ==
  ASSUME UNCHANGED nmg
  PROVE  /\ Lev' = Lev /\ finest_amr_lev' = finest_amr_lev
         /\ \A l : Bottom(l)' = Bottom(l)
<1>1. Lev' = Lev
  BY DEF Lev
<1> QED
  BY <1>1 DEF finest_amr_lev, Bottom

\* One entry of an array is replaced.
LEMMA PutIn ==
  ASSUME NEW f, Grid(f), NEW l \in Lev, NEW m \in 0..Bottom(l), NEW v
  PROVE  LET g == [f EXCEPT ![l][m] = v]
         IN  /\ Grid(g) /\ g[l][m] = v
             /\ \A k \in Lev : k # l => g[k] = f[k]
             /\ \A j \in 0..Bottom(l) : j # m => g[l][j] = f[l][j]
<1> DEFINE g == [f EXCEPT ![l][m] = v]
<1>1. DOMAIN f = Lev /\ \A k \in Lev : DOMAIN f[k] = 0..Bottom(k)
  BY DEF Grid
<1>2. DOMAIN g = Lev /\ g[l] = [f[l] EXCEPT ![m] = v] /\ \A k \in Lev : k # l => g[k] = f[k]
  BY <1>1
<1> HIDE DEF g
<1>3. DOMAIN g[l] = 0..Bottom(l) /\ g[l][m] = v
      /\ \A j \in 0..Bottom(l) : j # m => g[l][j] = f[l][j]
  BY <1>1, <1>2
<1>4. Grid(g)
  BY <1>1, <1>2, <1>3 DEF Grid
<1> QED
  BY <1>2, <1>3, <1>4 DEF g

LEMMA AddIn ==
  ASSUME NEW f, Multi(f), NEW l \in Lev, NEW b, IsABag(b)
  PROVE  /\ Multi(LocalAdd(f, l, b)) /\ LocalAdd(f, l, b)[l] = f[l] (+) b
         /\ \A k \in Lev : k # l => LocalAdd(f, l, b)[k] = f[k]
<1>1. DOMAIN f = Lev /\ \A k \in Lev : IsABag(f[k])
  BY DEF Multi
<1>2. IsABag(f[l] (+) b)
  BY <1>1, PlusIsBag
<1>3. /\ LocalAdd(f, l, b)[l] = f[l] (+) b /\ DOMAIN LocalAdd(f, l, b) = Lev
      /\ \A k \in Lev : k # l => LocalAdd(f, l, b)[k] = f[k]
  BY <1>1, Zenon DEF LocalAdd
<1> QED
  BY <1>1, <1>2, <1>3, Zenon DEF Multi

LEMMA ZeroFields ==
  /\ IsRes(ZeroRes) /\ ZeroRes.own = EmptyBag
BY DEF IsRes, ZeroRes

LEMMA ResidualFields ==
  ASSUME NEW own, NEW bc
  PROVE  /\ IsRes(Residual(own, bc))
         /\ Residual(own, bc).own = own /\ Residual(own, bc).bc = bc
BY DEF IsRes, Residual

LEMMA RefluxedFields ==
  ASSUME NEW r, IsRes(r), NEW s
  PROVE  /\ IsRes(Refluxed(r, s)) /\ Refluxed(r, s).own = r.own /\ Refluxed(r, s).bc = r.bc
         /\ Refluxed(r, s).fine = <<s>>
BY DEF IsRes, Refluxed

LEMMA ReducedFields ==
  ASSUME NEW r, IsRes(r), NEW c
  PROVE  /\ IsRes(Reduced(r, c)) /\ Reduced(r, c).own = r.own (+) c /\ Reduced(r, c).bc = r.bc
         /\ Reduced(r, c).fine = r.fine /\ Reduced(r, c).of = r.of /\ Reduced(r, c).id = r.id
BY DEF IsRes, Reduced

LEMMA FineFields ==
  ASSUME NEW r, IsRes(r), NEW y
  PROVE  LET s == [r EXCEPT !.fine = y]
         IN  IsRes(s) /\ s.own = r.own /\ s.bc = r.bc /\ s.fine = y
BY DEF IsRes

LEMMA ReducedWithBCFields ==
  ASSUME NEW r, IsRes(r), NEW c, NEW d
  PROVE  /\ IsRes(ReducedWithBC(r, c, d))
         /\ ReducedWithBC(r, c, d).own = r.own (+) c /\ ReducedWithBC(r, c, d).bc = r.bc (+) d
         /\ ReducedWithBC(r, c, d).fine = r.fine
<1> DEFINE o == r.own (+) c
           b == r.bc (+) d
<1>1. ReducedWithBC(r, c, d) = [r EXCEPT !.own = o, !.bc = b]
  BY DEF ReducedWithBC, IsRes
<1> HIDE DEF o, b
<1>2. r = [id |-> r.id, own |-> r.own, bc |-> r.bc, fine |-> r.fine, of |-> r.of]
  BY Zenon DEF IsRes
<1>3. ReducedWithBC(r, c, d) = [id |-> r.id, own |-> o, bc |-> b, fine |-> r.fine, of |-> r.of]
  BY <1>1, <1>2
<1> QED
  BY <1>3 DEF IsRes, o, b

LEMMA RestrictedFields ==
  ASSUME NEW r, NEW c
  PROVE  /\ IsRes(Restricted(r, c)) /\ Restricted(r, c).own = EmptyBag
         /\ Restricted(r, c).of = <<r.id, r.own, c>>
<1> DEFINE t == <<r.id, r.own, c>>
           e == EmptyBag
           z == <<>>
<1>1. Restricted(r, c) = [[id |-> 0, own |-> e, bc |-> e, fine |-> z, of |-> z]
                            EXCEPT !.id = n, !.of = t]
  BY DEF Restricted, ZeroRes
<1> HIDE DEF t, e, z
<1>2. Restricted(r, c) = [id |-> n, own |-> e, bc |-> e, fine |-> z, of |-> t]
  BY <1>1
<1> QED
  BY <1>2 DEF IsRes, t, e

LEMMA PutBag ==
  ASSUME NEW f, Grid(f), AllBags(f), NEW l \in Lev, NEW m \in 0..Bottom(l), NEW v, IsABag(v)
  PROVE  Grid([f EXCEPT ![l][m] = v]) /\ AllBags([f EXCEPT ![l][m] = v])
<1> DEFINE g == [f EXCEPT ![l][m] = v]
<1>1. /\ Grid(g) /\ g[l][m] = v /\ \A k \in Lev : k # l => g[k] = f[k]
      /\ \A j \in 0..Bottom(l) : j # m => g[l][j] = f[l][j]
  BY PutIn
<1> HIDE DEF g
<1>2. AllBags(g)
  BY <1>1, Zenon DEF AllBags
<1> QED
  BY <1>1, <1>2 DEF g

LEMMA PutRes ==
  ASSUME NEW f, Grid(f), AllRes(f), NEW l \in Lev, NEW m \in 0..Bottom(l), NEW v, IsRes(v)
  PROVE  Grid([f EXCEPT ![l][m] = v]) /\ AllRes([f EXCEPT ![l][m] = v])
<1> DEFINE g == [f EXCEPT ![l][m] = v]
<1>1. /\ Grid(g) /\ g[l][m] = v /\ \A k \in Lev : k # l => g[k] = f[k]
      /\ \A j \in 0..Bottom(l) : j # m => g[l][j] = f[l][j]
  BY PutIn
<1> HIDE DEF g
<1>2. AllRes(g)
  BY <1>1, Zenon DEF AllRes
<1> QED
  BY <1>1, <1>2 DEF g

LEMMA GridsThen ==
  ASSUME UNCHANGED nmg,
         Grid(cor'), AllBags(cor'), Grid(cor_hold'), AllBags(cor_hold'), Grid(res'), AllRes(res')
  PROVE  Grids'
<1>1. Lev' = Lev /\ \A l : Bottom(l)' = Bottom(l)
  BY SameProblem
<1> QED
  BY <1>1, Zenon DEF Grids, Grid, AllBags, AllRes

LEMMA ArraysThen ==
  ASSUME UNCHANGED <<nmg, use>>,
         DOMAIN store' = DOMAIN use.ghosts \cup {Own}, DOMAIN before' = DOMAIN store',
         target' \in DOMAIN store',
         \A a \in DOMAIN store' : Multi(store'[a]) /\ Multi(before'[a]),
         Multi(made'), Multi(at_start')
  PROVE  Arrays'
<1>1. Lev' = Lev
  BY SameProblem
<1> QED
  BY <1>1, Zenon DEF Arrays, Multi

\* A correction is added to the solution.
LEMMA SolAdded ==
  ASSUME Arrays, NEW l \in Lev, NEW b, IsABag(b), UNCHANGED target,
         store' = [store EXCEPT ![target] = LocalAdd(@, l, b)], made' = LocalAdd(made, l, b)
  PROVE  /\ sol'[l] = sol[l] (+) b /\ \A k \in Lev : k # l => sol'[k] = sol[k]
         /\ made'[l] = made[l] (+) b /\ \A k \in Lev : k # l => made'[k] = made[k]
         /\ DOMAIN store' = DOMAIN store /\ \A a \in DOMAIN store : a # target => store'[a] = store[a]
         /\ Multi(made') /\ \A a \in DOMAIN store : Multi(store'[a])
<1>1. target \in DOMAIN store /\ \A a \in DOMAIN store : Multi(store[a])
  BY DEF Arrays
<1>2. Multi(made)
  BY DEF Arrays
<1>3. /\ DOMAIN store' = DOMAIN store /\ store'[target] = LocalAdd(store[target], l, b)
      /\ \A a \in DOMAIN store : a # target => store'[a] = store[a]
  BY <1>1
<1>4. sol' = LocalAdd(sol, l, b) /\ Multi(sol)
  BY <1>1, <1>3 DEF sol
<1>5. /\ Multi(sol') /\ sol'[l] = sol[l] (+) b
      /\ \A k \in Lev : k # l => sol'[k] = sol[k]
  BY <1>4, AddIn
<1>6. /\ Multi(made') /\ made'[l] = made[l] (+) b
      /\ \A k \in Lev : k # l => made'[k] = made[k]
  BY <1>2, AddIn
<1>7. \A a \in DOMAIN store : Multi(store'[a])
  BY <1>1, <1>3, <1>5 DEF sol
<1> QED
  BY <1>3, <1>5, <1>6, <1>7

\* The bags of a correction, of the solution and of what is held.
LEMMA AreBags ==
  ASSUME Shapes, NEW l \in Lev
  PROVE  /\ IsABag(sol[l]) /\ IsABag(at_start[l]) /\ IsABag(made[l])
         /\ \A m \in 0..Bottom(l) : IsABag(cor[l][m]) /\ IsABag(cor_hold[l][m]) /\ IsRes(res[l][m])
BY DEF Shapes, Arrays, Grids, AllBags, AllRes, Multi, sol

-----------------------------------------------------------------------------
(* Where the cycles are.                                                   *)

LEMMA ProblemStays ==
  ASSUME Next
  PROVE  UNCHANGED <<nmg, max_fmg_iters, use>>
<1> USE DEF config
<1>1. CASE \E a \in use.solve : solve(a) \/ precond(a)
  BY <1>1 DEF solve, precond, StartSolve
<1>2. CASE \E a \in use.residual : compResidual(a)
  BY <1>2 DEF compResidual
<1>3. CASE FirstResidual \/ oneIter \/ miniCycleDown \/ coarseV
  BY <1>3 DEF FirstResidual, oneIter, miniCycleDown, coarseV
<1>4. CASE AfterDown
  BY <1>4 DEF AfterDown
<1>5. CASE AfterCoarse
  BY <1>5 DEF AfterCoarse
<1>6. CASE miniCycleUp
  BY <1>6 DEF miniCycleUp
<1>7. CASE AfterUp
  BY <1>7 DEF AfterUp
<1>8. CASE EndIter \/ TestCoarse \/ Again \/ Throw \/ Return
  BY <1>8 DEF EndIter, TestCoarse, Again, Throw, Return
<1>9. CASE Cycle
  BY <1>9 DEF Cycle, VDown, VBottom, VUp, mgFcycle, FLevel, AfterFLevel
<1> QED
  BY <1>1, <1>2, <1>3, <1>4, <1>5, <1>6, <1>7, <1>8, <1>9 DEF Next

LEMMA ControlInit == Init => Control
BY DEF Init, Control, stage, InV, Calls, Ends, Down, Up, Coarse, InF

LEMMA ControlStep ==
  ASSUME Problem, Control, Next
  PROVE  Control'
<1>0. /\ finest_amr_lev \in Nat /\ Lev = 0..finest_amr_lev /\ 0 \in Lev
      /\ \A l \in Lev : Bottom(l) \in Nat
  BY LevIs DEF Problem
<1>a. Lev' = Lev /\ finest_amr_lev' = finest_amr_lev /\ \A l : Bottom(l)' = Bottom(l)
  BY ProblemStays, SameProblem
<1> HIDE DEF Lev, finest_amr_lev, Bottom
<1> USE DEF Control, stage, InV, Calls, Ends, Down, Up, Coarse, InF, control
<1>1. CASE phase' \in Ends
  BY <1>1
<1>2. CASE oneIter
  BY <1>0, <1>a, <1>2 DEF oneIter
<1>3. CASE miniCycleDown
  BY <1>0, <1>a, <1>3 DEF miniCycleDown, StartV
<1>4. CASE AfterDown
  <2>1. phase = "after_down" /\ alev \in 1..finest_amr_lev
    BY <1>4 DEF AfterDown
  <2>2. alev' = alev - 1 /\ phase' = IF alev = 1 THEN "coarse" ELSE "mini_down"
    BY <1>4 DEF AfterDown
  <2> QED
    BY <1>0, <1>a, <2>1, <2>2
<1>5. CASE coarseV
  BY <1>0, <1>a, <1>5 DEF coarseV, StartV
<1>6. CASE AfterCoarse
  <2>1. alev' = 1 /\ phase' = IF finest_amr_lev > 0 THEN "mini_up" ELSE "sync"
    BY <1>6 DEF AfterCoarse
  <2> QED
    BY <1>0, <1>a, <2>1
<1>7. CASE miniCycleUp
  <2>1. phase = "mini_up" /\ StartV(0, "after_up") /\ alev' = alev
    BY <1>7 DEF miniCycleUp
  <2> QED
    BY <1>0, <1>a, <2>1 DEF StartV
<1>8. CASE AfterUp
  <2>1. phase = "after_up" /\ alev \in 1..finest_amr_lev
    BY <1>8 DEF AfterUp
  <2>2. alev' = alev + 1 /\ phase' = IF alev = finest_amr_lev THEN "sync" ELSE "mini_up"
    BY <1>8 DEF AfterUp
  <2> QED
    BY <1>0, <1>a, <2>1, <2>2
<1>9. CASE VDown
  BY <1>0, <1>a, <1>9 DEF VDown
<1>10. CASE VBottom
  BY <1>0, <1>a, <1>10 DEF VBottom
<1>11. CASE VUp
  BY <1>0, <1>a, <1>11 DEF VUp
<1>12. CASE mgFcycle
  <2>1. /\ phase = "coarse" /\ mglev' = Bottom(0) - 1 /\ alev' = alev
        /\ phase' = IF Bottom(0) = 0 THEN "after_coarse" ELSE "f_level"
    BY <1>12 DEF mgFcycle
  <2> QED
    BY <1>0, <1>a, <2>1
<1>13. CASE FLevel
  <2>1. phase = "f_level" /\ StartV(mglev, "after_f") /\ alev' = alev
    BY <1>13 DEF FLevel
  <2> QED
    BY <1>0, <1>a, <2>1 DEF StartV
<1>14. CASE AfterFLevel
  BY <1>0, <1>a, <1>14 DEF AfterFLevel
<1>15. \/ phase' \in Ends
       \/ oneIter \/ miniCycleDown \/ AfterDown \/ coarseV \/ AfterCoarse \/ miniCycleUp
       \/ AfterUp \/ VDown \/ VBottom \/ VUp \/ mgFcycle \/ FLevel \/ AfterFLevel
  BY DEF Next, Cycle, solve, precond, StartSolve, compResidual, FirstResidual, EndIter, TestCoarse,
         Again, Throw, Return
<1> QED
  BY <1>1, <1>2, <1>3, <1>4, <1>5, <1>6, <1>7, <1>8, <1>9, <1>10, <1>11, <1>12, <1>13, <1>14,
     <1>15

-----------------------------------------------------------------------------
(* The arrays.                                                             *)

\* mgFcycle averages the residual down to the coarsest level.
LEMMA AveragedDown ==
  ASSUME Problem, Grids, mgFcycle
  PROVE  \E f : /\ res' = [res EXCEPT ![0] = f]
                /\ DOMAIN f = 0..Bottom(0) /\ f[0] = res[0][0]
                /\ \A m \in 1..Bottom(0) :
                     /\ IsRes(f[m]) /\ f[m].own = EmptyBag
                     /\ f[m].of = <<f[m-1].id, f[m-1].own, EmptyBag>>
<1> DEFINE B == Bottom(0)
           r == res[0][0]
           New(m, q) == [Restricted(q, EmptyBag) EXCEPT !.id = n + m]
           Def(f) == f = [m \in 0..B |-> IF m = 0 THEN r ELSE New(m, f[m-1])]
           f == CHOOSE f : Def(f)
           g == [m \in 0..B |->
                  IF m = 0 THEN r
                  ELSE [id |-> n + m, own |-> EmptyBag, bc |-> EmptyBag, fine |-> <<>>,
                        of |-> <<IF m = 1 THEN r.id ELSE n + (m - 1),
                                 IF m = 1 THEN r.own ELSE EmptyBag, EmptyBag>>]]
<1>1. B \in Nat
  BY LevIs DEF Problem
<1>2. \A m, q : New(m, q) = [id |-> n + m, own |-> EmptyBag, bc |-> EmptyBag, fine |-> <<>>,
                             of |-> <<q.id, q.own, EmptyBag>>]
  <2> TAKE m, q
  <2> DEFINE t == <<q.id, q.own, EmptyBag>>
             e == EmptyBag
             z == <<>>
             i == n + m
  <2>1. New(m, q) = [[[id |-> 0, own |-> e, bc |-> e, fine |-> z, of |-> z]
                        EXCEPT !.id = n, !.of = t] EXCEPT !.id = i]
    BY DEF Restricted, ZeroRes
  <2> HIDE DEF t, e, z, i, New
  <2>2. New(m, q) = [id |-> i, own |-> e, bc |-> e, fine |-> z, of |-> t]
    BY <2>1
  <2> QED
    BY <2>2 DEF t, e, z, i
<1>3. res' = [res EXCEPT ![0] = f]
  BY DEF mgFcycle
<1> HIDE DEF New, B
<1>4. ASSUME NEW m \in 0..B
      PROVE  g[m] = IF m = 0 THEN r ELSE New(m, g[m-1])
  <2>1. CASE m = 0
    BY <2>1
  <2>2. CASE m = 1
    <3>1. g[0] = r
      BY <1>1
    <3>2. g[1] = [id |-> n + 1, own |-> EmptyBag, bc |-> EmptyBag, fine |-> <<>>,
                  of |-> <<r.id, r.own, EmptyBag>>]
      BY <2>2
    <3> HIDE DEF g, r
    <3> QED
      BY <1>2, <2>2, <3>1, <3>2
  <2>3. CASE m # 0 /\ m # 1
    <3>1. m - 1 \in 0..B /\ m - 1 # 0 /\ m \in Nat
      BY <1>1, <2>3
    <3>2. g[m-1].id = n + (m - 1) /\ g[m-1].own = EmptyBag
      BY <3>1
    <3>3. g[m] = [id |-> n + m, own |-> EmptyBag, bc |-> EmptyBag, fine |-> <<>>,
                  of |-> <<n + (m - 1), EmptyBag, EmptyBag>>]
      BY <2>3
    <3> HIDE DEF g, r
    <3> QED
      BY <1>2, <2>3, <3>2, <3>3
  <2> QED
    BY <2>1, <2>2, <2>3
<1>5. Def(g)
  <2> DEFINE h == [m \in 0..B |-> IF m = 0 THEN r ELSE New(m, g[m-1])]
  <2>1. DOMAIN g = 0..B /\ g = [m \in 0..B |-> g[m]]
    OBVIOUS
  <2> HIDE DEF g
  <2>2. g = h
    BY <1>4, <2>1
  <2> QED
    BY <2>2
<1> HIDE DEF g
<1>6. Def(f)
  BY <1>5, Zenon
<1> HIDE DEF f
<1>7. /\ DOMAIN f = 0..B
      /\ \A m \in 0..B : f[m] = IF m = 0 THEN r ELSE New(m, f[m-1])
  <2> DEFINE h == [m \in 0..B |-> IF m = 0 THEN r ELSE New(m, f[m-1])]
  <2>1. f = h
    BY <1>6
  <2>2. DOMAIN h = 0..B /\ \A m \in 0..B : h[m] = IF m = 0 THEN r ELSE New(m, f[m-1])
    OBVIOUS
  <2> HIDE DEF h
  <2> QED
    BY <2>1, <2>2
<1>8. f[0] = r
  BY <1>1, <1>7
<1>9. ASSUME NEW m \in 1..B
      PROVE  /\ IsRes(f[m]) /\ f[m].own = EmptyBag
             /\ f[m].of = <<f[m-1].id, f[m-1].own, EmptyBag>>
  <2>1. m \in 0..B /\ m # 0
    BY <1>1
  <2>2. f[m] = [id |-> n + m, own |-> EmptyBag, bc |-> EmptyBag, fine |-> <<>>,
                of |-> <<f[m-1].id, f[m-1].own, EmptyBag>>]
    BY <1>2, <1>7, <2>1, Zenon
  <2> QED
    BY <2>2 DEF IsRes
<1> QED
  BY <1>3, <1>7, <1>8, <1>9 DEF B

\* The residuals that are computed anew.
LEMMA MLResiduals ==
  ASSUME Problem, Grids, NEW t \in Lev
  PROVE  /\ Grid(MLResidual(t)) /\ AllRes(MLResidual(t))
         /\ \A l \in Lev : l > t => MLResidual(t)[l] = res[l]
         /\ \A l \in Lev : l <= t =>
              /\ MLResidual(t)[l][0].own = sol[l]
              /\ l > 0 => MLResidual(t)[l][0].bc = sol[l-1]
<1> DEFINE r(l) == IF l < finest_amr_lev THEN Refluxed(solutionResidual(l), sol[l+1])
                                         ELSE solutionResidual(l)
           g == MLResidual(t)
<1>0. finest_amr_lev \in Nat /\ Lev = 0..finest_amr_lev /\ \A l \in Lev : Bottom(l) \in Nat
  BY LevIs DEF Problem
<1>1. Grid(res) /\ AllRes(res)
  BY DEF Grids
<1>2. \A l \in Lev : /\ IsRes(solutionResidual(l)) /\ solutionResidual(l).own = sol[l]
                     /\ l > 0 => solutionResidual(l).bc = sol[l-1]
  BY ResidualFields DEF solutionResidual
<1>3. \A l \in Lev : IsRes(r(l)) /\ r(l).own = sol[l] /\ (l > 0 => r(l).bc = sol[l-1])
  BY <1>2, RefluxedFields
<1>4. DOMAIN g = Lev /\ \A l \in Lev : g[l] = IF l > t THEN res[l] ELSE [res[l] EXCEPT ![0] = r(l)]
  BY DEF MLResidual
<1> HIDE DEF g, r
<1>5. ASSUME NEW l \in Lev
      PROVE  /\ DOMAIN g[l] = 0..Bottom(l) /\ \A m \in 0..Bottom(l) : IsRes(g[l][m])
             /\ ~(l > t) => g[l][0] = r(l)
  <2>1. DOMAIN res[l] = 0..Bottom(l) /\ \A m \in 0..Bottom(l) : IsRes(res[l][m])
    BY <1>1 DEF Grid, AllRes
  <2>2. CASE l > t
    BY <1>4, <2>1, <2>2
  <2>3. CASE ~(l > t)
    <3>1. 0 \in 0..Bottom(l) /\ g[l] = [res[l] EXCEPT ![0] = r(l)]
      BY <1>0, <1>4, <2>3
    <3>2. /\ DOMAIN g[l] = DOMAIN res[l] /\ g[l][0] = r(l)
          /\ \A m \in 0..Bottom(l) : m # 0 => g[l][m] = res[l][m]
      BY <2>1, <3>1
    <3> QED
      BY <1>3, <2>1, <3>2, Zenon
  <2> QED
    BY <2>2, <2>3
<1>6. Grid(g) /\ AllRes(g)
  BY <1>4, <1>5, Zenon DEF Grid, AllRes
<1>7. \A l \in Lev : l > t => g[l] = res[l]
  BY <1>4
<1>8. \A l \in Lev : l <= t => ~(l > t)
  BY <1>0
<1> QED
  BY <1>3, <1>5, <1>6, <1>7, <1>8 DEF g

LEMMA ShapesInit == Init => Shapes
<1> SUFFICES ASSUME Init PROVE Shapes
  OBVIOUS
<1>1. Problem
  BY DEF Init, Problem
<1>2. Multi(Nothing)
  BY EmptyIsBag, Zenon DEF Nothing, Multi
<1>3. /\ Grid(cor) /\ AllBags(cor) /\ Grid(res) /\ AllRes(res)
  BY EmptyIsBag, ZeroFields, Zenon DEF Init, Grid, AllBags, AllRes
<1>4. cor_hold = cor
  BY DEF Init
<1>5. Grids
  BY <1>3, <1>4 DEF Grids
<1>6. /\ store = [a \in DOMAIN use.ghosts \cup {Own} |-> Nothing] /\ before = store
      /\ made = Nothing /\ at_start = Nothing /\ target = Own
  BY DEF Init
<1>7. Arrays
  BY <1>2, <1>6, Zenon DEF Arrays
<1> QED
  BY <1>1, <1>5, <1>7 DEF Shapes

LEMMA GridsStep ==
  ASSUME Shapes, Control, Next
  PROVE  Grids'
<1>0. /\ finest_amr_lev \in Nat /\ Lev = 0..finest_amr_lev /\ 0 \in Lev
      /\ \A l \in Lev : Bottom(l) \in Nat /\ 0 \in 0..Bottom(l)
      /\ nmg \in Layouts
  BY LevIs DEF Shapes, Problem
<1>1. UNCHANGED nmg
  BY ProblemStays
<1>2. /\ Grid(cor) /\ AllBags(cor) /\ Grid(cor_hold) /\ AllBags(cor_hold)
      /\ Grid(res) /\ AllRes(res) /\ Problem /\ Grids
  BY DEF Shapes, Grids
<1>3. \A i : IsABag(Atom(i))
  BY SetIsBag DEF Atom
<1>4. \A l \in Lev : /\ IsABag(sol[l])
                     /\ \A m \in 0..Bottom(l) :
                          IsABag(cor[l][m]) /\ IsABag(cor_hold[l][m]) /\ IsRes(res[l][m])
  BY AreBags
<1> HIDE DEF Lev, finest_amr_lev, Bottom, sol, Atom
<1>5. CASE UNCHANGED <<res, cor, cor_hold>>
  BY <1>1, <1>2, <1>5, GridsThen
<1>6. CASE \E a : prepareForSolve(a)
  <2>0. PICK a : prepareForSolve(a)
    BY <1>6
  <2>1. /\ res' = [l \in Lev |-> [m \in 0..Bottom(l) |-> ZeroRes]]
        /\ cor' = [l \in Lev |-> [m \in 0..Bottom(l) |-> EmptyBag]]
        /\ cor_hold' = cor'
    BY <2>0 DEF prepareForSolve
  <2>2. Grid(cor') /\ AllBags(cor')
    BY <2>1, EmptyIsBag, Zenon DEF Grid, AllBags
  <2>3. Grid(res') /\ AllRes(res')
    BY <2>1, ZeroFields, Zenon DEF Grid, AllRes
  <2> QED
    BY <1>1, <2>1, <2>2, <2>3, GridsThen
<1>7. CASE (\E t \in Lev : res' = MLResidual(t)) /\ UNCHANGED <<cor, cor_hold>>
  <2>1. Grid(res') /\ AllRes(res')
    BY <1>2, <1>7, MLResiduals
  <2> QED
    BY <1>1, <1>2, <1>7, <2>1, GridsThen
<1>8. CASE EndIter
  <2>1. IsRes(solutionResidual(finest_amr_lev))
    BY ResidualFields DEF solutionResidual
  <2>2. finest_amr_lev \in Lev
    BY <1>0
  <2>3. /\ res' = [res EXCEPT ![finest_amr_lev][0] = solutionResidual(finest_amr_lev)]
        /\ UNCHANGED <<cor, cor_hold>>
    BY <1>8 DEF EndIter
  <2>4. Grid(res') /\ AllRes(res')
    BY <1>0, <1>2, <2>1, <2>2, <2>3, PutRes
  <2> QED
    BY <1>1, <1>2, <2>3, <2>4, GridsThen
<1>9. CASE AfterDown
  <2> DEFINE f == Reduced(res[alev][0], cor[alev][0])
             s == Refluxed(solutionResidual(alev-1), sol[alev] (+) cor[alev][0])
             y == Append(s.fine, <<f.own, f.bc>>)
             c == [s EXCEPT !.fine = y]
             g == [res EXCEPT ![alev][0] = f]
  <2>1. alev \in Lev /\ alev - 1 \in Lev
    BY <1>0, <1>9 DEF AfterDown, Control, stage, InV, Down
  <2>2. IsRes(f) /\ IsRes(s)
    BY <1>0, <1>4, <2>1, ReducedFields, RefluxedFields, ResidualFields DEF solutionResidual
  <2>3. IsRes(c)
    <3> HIDE DEF s, f, y
    <3> QED
      BY <2>2, FineFields
  <2>4. res' = [g EXCEPT ![alev-1][0] = c]
    <3>1. res' = [g EXCEPT ![alev-1][0] = [s EXCEPT !.fine = Append(@, <<f.own, f.bc>>)]]
      BY <1>9 DEF AfterDown
    <3> HIDE DEF s, f, g
    <3> QED
      BY <3>1
  <2> HIDE DEF f, s, c
  <2>5. Grid(g) /\ AllRes(g)
    BY <1>0, <1>2, <2>1, <2>2, PutRes
  <2> HIDE DEF g
  <2>6. Grid(res') /\ AllRes(res')
    BY <1>0, <2>1, <2>3, <2>4, <2>5, PutRes
  <2>7. CASE alev # finest_amr_lev
    <3>1. /\ cor_hold' = [cor_hold EXCEPT ![alev][0] = cor[alev][0]]
          /\ cor' = [cor EXCEPT ![alev][0] = cor_hold[alev][0]]
      BY <1>9, <2>7 DEF AfterDown
    <3>2. Grid(cor_hold') /\ AllBags(cor_hold') /\ Grid(cor') /\ AllBags(cor')
      BY <1>0, <1>2, <1>4, <2>1, <3>1, PutBag
    <3> QED
      BY <1>1, <2>6, <3>2, GridsThen
  <2>8. CASE alev = finest_amr_lev
    BY <1>1, <1>2, <1>9, <2>6, <2>8, GridsThen DEF AfterDown
  <2> QED
    BY <2>7, <2>8
<1>10. CASE miniCycleUp
  <2>1. alev \in Lev /\ alev - 1 \in Lev
    BY <1>0, <1>10 DEF miniCycleUp, Control, stage, InV, Up
  <2> DEFINE c == Atom(n)
             d == cor[alev-1][0]
             r == ReducedWithBC(res[alev][0], c, d)
  <2>2. /\ cor' = [cor EXCEPT ![alev][0] = c]
        /\ cor_hold' = IF alev = finest_amr_lev THEN cor_hold
                       ELSE [cor_hold EXCEPT ![alev][0] = cor_hold[alev][0] (+) c]
        /\ res' = [res EXCEPT ![alev][0] = r]
    <3>1. /\ cor' = [cor EXCEPT ![alev][0] = c]
          /\ cor_hold' = IF alev = finest_amr_lev THEN cor_hold
                         ELSE [cor_hold EXCEPT ![alev][0] = @ (+) c]
          /\ res' = [res EXCEPT ![alev][0] = ReducedWithBC(@, c, d)]
      BY <1>10 DEF miniCycleUp
    <3> QED
      BY <3>1
  <2>3. IsABag(c) /\ IsRes(r) /\ IsABag(cor_hold[alev][0] (+) c)
    BY <1>0, <1>3, <1>4, <2>1, ReducedWithBCFields, PlusIsBag
  <2> HIDE DEF c, d, r
  <2>4. /\ Grid(cor') /\ AllBags(cor') /\ Grid(res') /\ AllRes(res')
    BY <1>0, <1>2, <2>1, <2>2, <2>3, PutBag, PutRes
  <2>5. Grid(cor_hold') /\ AllBags(cor_hold')
    BY <1>0, <1>2, <2>1, <2>2, <2>3, PutBag
  <2> QED
    BY <1>1, <2>4, <2>5, GridsThen
<1>11. CASE AfterUp
  <2>1. alev \in Lev
    BY <1>0, <1>11 DEF AfterUp, Control, stage, InV, Up
  <2>2. /\ cor' = [cor EXCEPT ![alev][0] = Whole(alev)] /\ UNCHANGED <<res, cor_hold>>
    BY <1>11 DEF AfterUp
  <2>3. IsABag(Whole(alev))
    BY <1>0, <1>4, <2>1, PlusIsBag DEF Whole
  <2>4. Grid(cor') /\ AllBags(cor')
    BY <1>0, <1>2, <2>1, <2>2, <2>3, PutBag
  <2> QED
    BY <1>1, <1>2, <2>2, <2>4, GridsThen
<1>12. CASE VDown
  <2>1. alev \in Lev /\ mglev \in 0..Bottom(alev) /\ mglev + 1 \in 0..Bottom(alev)
    BY <1>0, <1>12 DEF VDown, Control, stage, InV, Down, Up, Coarse, InF, Calls
  <2>2. /\ cor' = [cor EXCEPT ![alev][mglev] = Atom(n)] /\ UNCHANGED cor_hold
        /\ res' = [res EXCEPT ![alev][mglev+1] = Restricted(res[alev][mglev], Atom(n))]
    BY <1>12 DEF VDown
  <2>3. Grid(cor') /\ AllBags(cor') /\ Grid(res') /\ AllRes(res')
    BY <1>2, <1>3, <2>1, <2>2, PutBag, PutRes, RestrictedFields
  <2> QED
    BY <1>1, <1>2, <2>2, <2>3, GridsThen
<1>13. CASE VBottom
  <2>1. alev \in Lev /\ mglev \in 0..Bottom(alev)
    BY <1>0, <1>13 DEF VBottom, Control, stage, InV, Down, Up, Coarse, InF, Calls
  <2>2. /\ cor' = [cor EXCEPT ![alev][mglev] = Atom(n)] /\ UNCHANGED <<res, cor_hold>>
    BY <1>13 DEF VBottom
  <2>3. Grid(cor') /\ AllBags(cor')
    BY <1>2, <1>3, <2>1, <2>2, PutBag
  <2> QED
    BY <1>1, <1>2, <2>2, <2>3, GridsThen
<1>14. CASE VUp
  <2>1. alev \in Lev /\ mglev \in 0..Bottom(alev)
    BY <1>0, <1>14 DEF VUp, Control, stage, InV, Down, Up, Coarse, InF, Calls
  <2> DEFINE v == cor[alev][mglev] (+) SetToBag({n, n + 1})
  <2>2. /\ cor' = [cor EXCEPT ![alev][mglev] = v] /\ UNCHANGED <<res, cor_hold>>
    <3>1. /\ cor' = [cor EXCEPT ![alev][mglev] = @ (+) SetToBag({n, n + 1})]
          /\ UNCHANGED <<res, cor_hold>>
      BY <1>14 DEF VUp
    <3> QED
      BY <3>1
  <2>3. IsABag(v)
    BY <1>4, <2>1, SetIsBag, PlusIsBag
  <2> HIDE DEF v
  <2>4. Grid(cor') /\ AllBags(cor')
    BY <1>2, <2>1, <2>2, <2>3, PutBag
  <2> QED
    BY <1>1, <1>2, <2>2, <2>4, GridsThen
<1>15. CASE mgFcycle
  <2>1. PICK f : /\ res' = [res EXCEPT ![0] = f]
                 /\ DOMAIN f = 0..Bottom(0) /\ f[0] = res[0][0]
                 /\ \A m \in 1..Bottom(0) : IsRes(f[m])
    BY <1>2, <1>15, AveragedDown
  <2>2. \A m \in 0..Bottom(0) : IsRes(f[m])
    <3>1. \A m \in 0..Bottom(0) : m = 0 \/ m \in 1..Bottom(0)
      BY <1>0
    <3> QED
      BY <1>0, <1>4, <2>1, <3>1, Zenon
  <2>3. DOMAIN res' = Lev /\ res'[0] = f /\ \A l \in Lev : l # 0 => res'[l] = res[l]
    BY <1>0, <1>2, <2>1 DEF Grid
  <2>4. Grid(res') /\ AllRes(res')
    BY <1>2, <2>1, <2>2, <2>3, Zenon DEF Grid, AllRes
  <2>5. cor' = [cor EXCEPT ![0][Bottom(0)] = Atom(n)] /\ UNCHANGED cor_hold
    BY <1>15 DEF mgFcycle
  <2>6. Bottom(0) \in 0..Bottom(0)
    BY <1>0
  <2>7. Grid(cor') /\ AllBags(cor')
    BY <1>0, <1>2, <1>3, <2>5, <2>6, PutBag
  <2> QED
    BY <1>1, <1>2, <2>4, <2>5, <2>7, GridsThen
<1>16. CASE FLevel
  <2>1. mglev \in 0..Bottom(0)
    BY <1>0, <1>16 DEF FLevel, Control, stage, InV
  <2> DEFINE c == Atom(n)
             r == Reduced(res[0][mglev], c)
  <2>2. /\ res' = [res EXCEPT ![0][mglev] = r]
        /\ cor_hold' = [cor_hold EXCEPT ![0][mglev] = c]
        /\ cor' = [cor EXCEPT ![0][mglev] = cor_hold[0][mglev]]
    <3>1. /\ res' = [res EXCEPT ![0][mglev] = Reduced(@, c)]
          /\ cor_hold' = [cor_hold EXCEPT ![0][mglev] = c]
          /\ cor' = [cor EXCEPT ![0][mglev] = cor_hold[0][mglev]]
      BY <1>16 DEF FLevel
    <3> QED
      BY <3>1
  <2>3. IsABag(c) /\ IsRes(r) /\ IsABag(cor_hold[0][mglev])
    BY <1>0, <1>3, <1>4, <2>1, ReducedFields
  <2> HIDE DEF c, r
  <2>4. /\ Grid(cor') /\ AllBags(cor') /\ Grid(res') /\ AllRes(res')
        /\ Grid(cor_hold') /\ AllBags(cor_hold')
    BY <1>0, <1>2, <2>1, <2>2, <2>3, PutBag, PutRes
  <2> QED
    BY <1>1, <2>4, GridsThen
<1>17. CASE AfterFLevel
  <2>1. top \in 0..Bottom(0)
    BY <1>0, <1>17 DEF AfterFLevel, Control, stage, InV
  <2>2. /\ cor' = [cor EXCEPT ![0][top] = PlusHold(top)] /\ UNCHANGED <<res, cor_hold>>
    BY <1>17 DEF AfterFLevel
  <2>3. IsABag(PlusHold(top))
    BY <1>0, <1>4, <2>1, PlusIsBag DEF PlusHold
  <2>4. Grid(cor') /\ AllBags(cor')
    BY <1>0, <1>2, <2>1, <2>2, <2>3, PutBag
  <2> QED
    BY <1>1, <1>2, <2>2, <2>4, GridsThen
<1>18. CASE FirstResidual
  <2>1. finest_amr_lev \in Lev
    BY <1>0
  <2> QED
    BY <1>7, <1>18, <2>1 DEF FirstResidual
<1>19. CASE TestCoarse
  <2>1. CASE finest_amr_lev = 0
    BY <1>5, <1>19, <2>1 DEF TestCoarse
  <2>2. CASE finest_amr_lev # 0
    <3>1. finest_amr_lev - 1 \in Lev
      BY <1>0, <2>2
    <3> QED
      BY <1>7, <1>19, <2>2, <3>1 DEF TestCoarse
  <2> QED
    BY <2>1, <2>2
<1>20. \/ UNCHANGED <<res, cor, cor_hold>> \/ \E a : prepareForSolve(a)
       \/ FirstResidual \/ AfterDown \/ miniCycleUp \/ AfterUp \/ EndIter \/ TestCoarse
       \/ VDown \/ VBottom \/ VUp \/ mgFcycle \/ FLevel \/ AfterFLevel
  BY DEF Next, Cycle, data, solve, precond, StartSolve, compResidual, oneIter, miniCycleDown,
         coarseV, AfterCoarse, Again, Throw, Return
<1> QED
  BY <1>5, <1>6, <1>8, <1>9, <1>10, <1>11, <1>12, <1>13, <1>14, <1>15, <1>16, <1>17, <1>18,
     <1>19, <1>20

\* The step adds b to the solution on level l.
Adds(l, b) ==
  /\ store' = [store EXCEPT ![target] = LocalAdd(@, l, b)] /\ made' = LocalAdd(made, l, b)
  /\ UNCHANGED <<target, at_start, before>>

LEMMA AddsWhat ==
  /\ AfterDown => Adds(alev, cor[alev][0])
  /\ AfterCoarse => Adds(0, cor[0][0])
  /\ miniCycleUp => Adds(alev, Atom(n))
  /\ AfterUp => Adds(alev, cor[alev][0])
BY DEF Adds, AfterDown, AfterCoarse, miniCycleUp, AfterUp, AddToSol, user

LEMMA ArraysStep ==
  ASSUME Shapes, Control, Next
  PROVE  Arrays'
<1>0. /\ finest_amr_lev \in Nat /\ Lev = 0..finest_amr_lev /\ 0 \in Lev
      /\ \A l \in Lev : 0 \in 0..Bottom(l)
      /\ use \in Uses
  BY LevIs DEF Shapes, Problem
<1>1. UNCHANGED <<nmg, use>>
  BY ProblemStays
<1>2. /\ DOMAIN store = DOMAIN use.ghosts \cup {Own} /\ DOMAIN before = DOMAIN store
      /\ target \in DOMAIN store
      /\ \A a \in DOMAIN store : Multi(store[a]) /\ Multi(before[a])
      /\ Multi(made) /\ Multi(at_start) /\ Arrays
  BY DEF Shapes, Arrays
<1>3. Multi(sol) /\ Multi(Nothing)
  BY <1>2, EmptyIsBag, Zenon DEF sol, Nothing, Multi
<1>4. /\ \A a \in use.solve \cup use.residual : a \in DOMAIN store
      /\ Own \in DOMAIN store
  BY <1>0, <1>2, ProblemAssumption
<1> HIDE DEF Lev, finest_amr_lev, Bottom
<1>5. CASE UNCHANGED <<store, before, target, made, at_start>>
  BY <1>1, <1>2, <1>5, ArraysThen
<1>6. CASE oneIter
  BY <1>1, <1>2, <1>3, <1>6, ArraysThen DEF oneIter, user
<1>7. ASSUME NEW l \in Lev, NEW b, IsABag(b), Adds(l, b)
      PROVE  Arrays'
  <2>1. /\ DOMAIN store' = DOMAIN store /\ Multi(made')
        /\ \A a \in DOMAIN store : Multi(store'[a])
    BY <1>2, <1>7, SolAdded DEF Adds
  <2>2. target' = target /\ at_start' = at_start /\ before' = before
    BY <1>7 DEF Adds
  <2> QED
    BY <1>1, <1>2, <2>1, <2>2, ArraysThen
<1>8. CASE \E a \in use.solve : solve(a) \/ precond(a)
  <2>1. PICK a \in use.solve : StartSolve(a)
    BY <1>8 DEF solve, precond
  <2>2. prepareForSolve(a) /\ before' = store /\ made' = Nothing /\ at_start' = at_start
    BY <2>1 DEF StartSolve
  <2>3. \/ store' = store /\ target' \in {a, target}
        \/ store' = [store EXCEPT ![Own] = store[a]] /\ target' = Own
    BY <2>2 DEF prepareForSolve
  <2>4. DOMAIN store' = DOMAIN store /\ target' \in DOMAIN store
        /\ \A b \in DOMAIN store : store'[b] \in {store[b], store[a]}
    BY <1>2, <1>4, <2>3
  <2>5. \A b \in DOMAIN store : Multi(store'[b])
    BY <1>2, <1>4, <2>4
  <2> QED
    BY <1>1, <1>2, <1>3, <2>2, <2>4, <2>5, ArraysThen
<1>9. CASE \E a \in use.residual : compResidual(a)
  <2>1. PICK a \in use.residual : compResidual(a)
    BY <1>9
  <2>2. before' = before /\ made' = made /\ at_start' = at_start
    BY <2>1 DEF compResidual
  <2>3. \/ store' = store /\ target' = a
        \/ store' = [store EXCEPT ![Own] = store[a]] /\ target' = Own
    BY <2>1 DEF compResidual
  <2>4. DOMAIN store' = DOMAIN store /\ target' \in DOMAIN store
        /\ \A b \in DOMAIN store : store'[b] \in {store[b], store[a]}
    BY <1>2, <1>4, <2>3
  <2>5. \A b \in DOMAIN store : Multi(store'[b])
    BY <1>2, <1>4, <2>4
  <2> QED
    BY <1>1, <1>2, <1>3, <2>2, <2>4, <2>5, ArraysThen
<1>10. CASE Return
  <2>1. /\ store' \in {store, [store EXCEPT ![arg] = sol]}
        /\ UNCHANGED <<before, target, made, at_start>>
    BY <1>10 DEF Return, CopyBack
  <2>2. DOMAIN store' = DOMAIN store /\ \A b \in DOMAIN store : store'[b] \in {store[b], sol}
    BY <2>1
  <2>3. \A b \in DOMAIN store : Multi(store'[b])
    BY <1>2, <1>3, <2>2
  <2> QED
    BY <1>1, <1>2, <2>1, <2>2, <2>3, ArraysThen
<1>11. CASE AfterDown \/ AfterUp
  <2>1. alev \in Lev
    BY <1>0, <1>11 DEF AfterDown, AfterUp, Control, stage, InV, Down, Up
  <2> QED
    BY <1>0, <1>7, <1>11, <2>1, AreBags, AddsWhat
<1>12. CASE AfterCoarse
  BY <1>0, <1>7, <1>12, AreBags, AddsWhat
<1>13. CASE miniCycleUp
  <2>1. alev \in Lev
    BY <1>0, <1>13 DEF miniCycleUp, Control, stage, InV, Up
  <2> QED
    BY <1>7, <1>13, <2>1, SetIsBag, AddsWhat DEF Atom
<1>14. \/ UNCHANGED <<store, before, target, made, at_start>>
       \/ oneIter \/ AfterDown \/ AfterUp \/ AfterCoarse \/ miniCycleUp \/ Return
       \/ (\E a \in use.solve : solve(a) \/ precond(a)) \/ \E a \in use.residual : compResidual(a)
  BY DEF Next, Cycle, memory, user, FirstResidual, miniCycleDown, coarseV, EndIter, TestCoarse,
         Again, Throw, VDown, VBottom, VUp, mgFcycle, FLevel, AfterFLevel
<1> QED
  BY <1>5, <1>6, <1>8, <1>9, <1>10, <1>11, <1>12, <1>13, <1>14

LEMMA ShapesStep ==
  ASSUME Shapes, Control, Next
  PROVE  Shapes'
<1>1. Problem'
  BY ProblemStays DEF Shapes, Problem
<1> QED
  BY <1>1, GridsStep, ArraysStep DEF Shapes

-----------------------------------------------------------------------------
(* The V-cycle.                                                            *)

LEMMA SolStays == ASSUME UNCHANGED <<store, target>> PROVE sol' = sol
BY DEF sol

LEMMA VSteps ==
  ASSUME Shapes, Control, VDown \/ VBottom \/ VUp
  PROVE  /\ InV /\ stage = call /\ stage' = call /\ alev' = alev /\ top' = top
         /\ alev \in Lev /\ top \in 0..Bottom(alev) /\ mglev \in top..Bottom(alev)
         /\ sol' = sol /\ at_start' = at_start /\ cor_hold' = cor_hold
         /\ \A k \in Lev : \A j \in 0..Bottom(k) :
              /\ ~(k = alev /\ j = mglev) => cor'[k][j] = cor[k][j]
              /\ ~(k = alev /\ j = mglev + 1) => res'[k][j] = res[k][j]
         /\ \/ /\ VDown /\ mglev + 1 \in 0..Bottom(alev)
               /\ res'[alev][mglev+1].of = <<res[alev][mglev].id, res[alev][mglev].own, Atom(n)>>
               /\ res'[alev][mglev+1].own = EmptyBag
               /\ cor'[alev][mglev] = Atom(n)
            \/ (VBottom \/ VUp) /\ res' = res
<1>0. /\ finest_amr_lev \in Nat /\ Lev = 0..finest_amr_lev
      /\ \A l \in Lev : Bottom(l) \in Nat
  BY LevIs DEF Shapes, Problem
<1>1. Grid(cor) /\ Grid(res)
  BY DEF Shapes, Grids
<1> HIDE DEF Lev, finest_amr_lev, Bottom, sol, Atom
<1>2. /\ InV /\ call' = call /\ stage = call /\ call \in Calls
      /\ phase' \in {"v_down", "v_up", call}
  BY DEF VDown, VBottom, VUp, Control, InV, stage
<1>3. stage' = call
  BY <1>2 DEF stage, InV, Calls
<1>4. /\ alev \in Lev /\ top \in 0..Bottom(alev) /\ mglev \in top..Bottom(alev)
      /\ mglev \in 0..Bottom(alev)
  BY <1>0, <1>2 DEF Control, Down, Up, Coarse, InF, Calls
<1>5. alev' = alev /\ top' = top /\ UNCHANGED <<store, target, at_start, cor_hold>>
  BY DEF VDown, VBottom, VUp, memory
<1>6. sol' = sol
  BY <1>5, SolStays
<1>7. \E v : cor' = [cor EXCEPT ![alev][mglev] = v] /\ (VDown => v = Atom(n))
  <2>1. CASE VDown \/ VBottom
    BY <2>1 DEF VDown, VBottom
  <2>2. CASE VUp
    <3>1. VUp => ~VDown
      BY DEF VUp, VDown
    <3>2. cor' = [cor EXCEPT ![alev][mglev] = cor[alev][mglev] (+) SetToBag({n, n + 1})]
      BY <2>2 DEF VUp
    <3> QED
      BY <2>2, <3>1, <3>2
  <2> QED
    BY <2>1, <2>2
<1>8. PICK v : cor' = [cor EXCEPT ![alev][mglev] = v] /\ (VDown => v = Atom(n))
  BY <1>7
<1>9. /\ cor'[alev][mglev] = v
      /\ \A k \in Lev : \A j \in 0..Bottom(k) : ~(k = alev /\ j = mglev) => cor'[k][j] = cor[k][j]
  BY <1>1, <1>4, <1>8, PutIn
<1>10. CASE VDown
  <2>1. mglev + 1 \in 0..Bottom(alev)
    BY <1>0, <1>4, <1>10 DEF VDown
  <2>2. res' = [res EXCEPT ![alev][mglev+1] = Restricted(res[alev][mglev], Atom(n))]
    BY <1>10 DEF VDown
  <2>3. /\ res'[alev][mglev+1] = Restricted(res[alev][mglev], Atom(n))
        /\ \A k \in Lev : \A j \in 0..Bottom(k) :
             ~(k = alev /\ j = mglev + 1) => res'[k][j] = res[k][j]
    BY <1>1, <1>4, <2>1, <2>2, PutIn
  <2>4. /\ res'[alev][mglev+1].of = <<res[alev][mglev].id, res[alev][mglev].own, Atom(n)>>
        /\ res'[alev][mglev+1].own = EmptyBag
    BY <2>3, RestrictedFields
  <2> QED
    BY <1>2, <1>3, <1>4, <1>5, <1>6, <1>8, <1>9, <1>10, <2>1, <2>3, <2>4
<1>11. CASE VBottom \/ VUp
  <2>1. res' = res
    BY <1>11 DEF VBottom, VUp
  <2> QED
    BY <1>2, <1>3, <1>4, <1>5, <1>6, <1>9, <1>11, <2>1
<1> QED
  BY <1>10, <1>11

LEMMA DescentStep ==
  ASSUME Shapes, Control, Descent, Next
  PROVE  Descent'
<1>0. /\ \A l \in Lev : Bottom(l) \in Nat
  BY LevIs DEF Shapes, Problem
<1> HIDE DEF Lev, finest_amr_lev, Bottom, Atom
<1>1. CASE VDown \/ VBottom \/ VUp
  <2>1. /\ InV /\ alev' = alev /\ top' = top
        /\ alev \in Lev /\ top \in 0..Bottom(alev) /\ mglev \in top..Bottom(alev)
        /\ \A k \in Lev : \A j \in 0..Bottom(k) :
             /\ ~(k = alev /\ j = mglev) => cor'[k][j] = cor[k][j]
             /\ ~(k = alev /\ j = mglev + 1) => res'[k][j] = res[k][j]
    BY <1>1, VSteps
  <2>2. Bottom(alev) \in Nat
    BY <1>0, <2>1
  <2>3. ASSUME NEW j \in top..(mglev - 1), ~(VUp /\ j = mglev)
        PROVE  /\ res'[alev][j+1].of = <<res'[alev][j].id, res'[alev][j].own, cor'[alev][j]>>
               /\ res'[alev][j+1].own = EmptyBag
    <3>1. /\ res[alev][j+1].of = <<res[alev][j].id, res[alev][j].own, cor[alev][j]>>
          /\ res[alev][j+1].own = EmptyBag
      BY <2>1, <2>2 DEF Descent
    <3>2. j \in 0..Bottom(alev) /\ j + 1 \in 0..Bottom(alev) /\ j # mglev /\ j + 1 # mglev + 1
          /\ j # mglev + 1
      BY <2>1, <2>2
    <3>3. cor'[alev][j] = cor[alev][j] /\ res'[alev][j] = res[alev][j]
          /\ res'[alev][j+1] = res[alev][j+1]
      BY <2>1, <3>2
    <3> QED
      BY <3>1, <3>3
  <2>4. CASE VDown
    <3>1. /\ res'[alev][mglev+1].of = <<res[alev][mglev].id, res[alev][mglev].own, Atom(n)>>
          /\ res'[alev][mglev+1].own = EmptyBag
          /\ cor'[alev][mglev] = Atom(n)
      BY <2>4, VSteps DEF VDown, VBottom, VUp
    <3>2. mglev \in 0..Bottom(alev) /\ mglev # mglev + 1
      BY <2>1, <2>2
    <3>3. res'[alev][mglev] = res[alev][mglev]
      BY <2>1, <3>2
    <3>4. phase' = "v_down" /\ mglev' = mglev + 1 /\ ~VUp
      BY <2>4 DEF VDown, VUp
    <3>5. \A j \in top..(mglev' - 1) : j \in top..(mglev - 1) \/ j = mglev
      BY <2>1, <2>2, <3>4
    <3> QED
      BY <2>1, <2>3, <3>1, <3>3, <3>4, <3>5 DEF Descent
  <2>5. CASE VBottom \/ VUp
    <3>1. mglev' = mglev - 1 /\ phase' # "v_down"
      BY <2>5 DEF VBottom, VUp, Control, InV, Calls
    <3>2. \A j \in top..mglev' : j \in top..(mglev - 1) /\ j # mglev
      BY <2>1, <2>2, <3>1
    <3> QED
      BY <2>1, <2>3, <3>1, <3>2 DEF Descent, InV
  <2> QED
    BY <1>1, <2>4, <2>5
<1>2. CASE phase' = "v_down" /\ mglev' = top' /\ top' \in Int
  <2>1. (IF phase' = "v_up" THEN mglev' ELSE mglev' - 1) = top' - 1
    BY <1>2
  <2>2. \A a \in Int : \A j \in a..(a - 1) : FALSE
    OBVIOUS
  <2>3. \A j \in top'..(top' - 1) : FALSE
    BY <1>2, <2>2, Zenon
  <2> QED
    BY <2>1, <2>3, Zenon DEF Descent
<1>3. CASE phase' \notin {"v_down", "v_up"}
  BY <1>3 DEF Descent, InV
<1>4. CASE FLevel
  <2>1. mglev \in Int /\ StartV(mglev, "after_f")
    BY <1>4 DEF FLevel, Control, stage, InV
  <2> QED
    BY <1>2, <2>1 DEF StartV
<1>5. \/ VDown \/ VBottom \/ VUp \/ phase' \notin {"v_down", "v_up"} \/ FLevel
      \/ StartV(0, "after_down") \/ StartV(0, "after_coarse") \/ StartV(0, "after_up")
  <2>1. CASE phase = "idle"
    BY <2>1 DEF Next, Cycle, solve, precond, StartSolve, compResidual, FirstResidual, oneIter,
         miniCycleDown, AfterDown, coarseV, AfterCoarse, miniCycleUp, AfterUp, EndIter, TestCoarse,
         Again, Throw, Return, VDown, VBottom, VUp, mgFcycle, FLevel, AfterFLevel, control
  <2>2. CASE phase # "idle"
    BY <2>2 DEF Next, Cycle, solve, precond, StartSolve, compResidual, FirstResidual, oneIter,
         miniCycleDown, AfterDown, coarseV, AfterCoarse, miniCycleUp, AfterUp, EndIter, TestCoarse,
         Again, Throw, Return, mgFcycle, AfterFLevel
  <2> QED
    BY <2>1, <2>2
<1> QED
  BY <1>1, <1>2, <1>3, <1>4, <1>5 DEF StartV

-----------------------------------------------------------------------------
(* The F-cycle.                                                            *)

LEMMA PartOfPlus ==
  ASSUME NEW a, NEW b, IsABag(a), IsABag(b)
  PROVE  a \sqsubseteq b (+) a
BY DEF IsABag, \sqsubseteq, (+)

LEMMA FCycleStep ==
  ASSUME Shapes, Control, FCycle, stage = "coarse" => Present(0), Next
  PROVE  FCycle'
<1>0. 0 \in Lev /\ Bottom(0) \in Nat
  BY LevIs DEF Shapes, Problem
<1>1. Grid(cor) /\ Grid(res) /\ Grid(cor_hold) /\ Grids /\ Problem
  BY DEF Shapes, Grids
<1>2. \A j \in 0..Bottom(0) : IsABag(cor[0][j]) /\ IsABag(cor_hold[0][j]) /\ IsRes(res[0][j])
  BY <1>0, AreBags
<1>3. \A i : IsABag(Atom(i))
  BY SetIsBag DEF Atom
<1> HIDE DEF Lev, finest_amr_lev, Bottom, Atom, sol
<1>4. CASE stage' \notin InF
  BY <1>4 DEF FCycle, InF
<1>5. CASE mgFcycle /\ stage' \in InF
  <2>1. /\ phase = "coarse" /\ Bottom(0) # 0 /\ phase' = "f_level" /\ mglev' = Bottom(0) - 1
        /\ UNCHANGED <<store, target>>
    BY <1>5 DEF mgFcycle, stage, InV, InF, memory
  <2>2. sol' = sol /\ stage' = "f_level" /\ res[0][0].own = sol[0]
    BY <2>1, SolStays DEF stage, InV, Present
  <2>3. PICK f : /\ res' = [res EXCEPT ![0] = f]
                 /\ DOMAIN f = 0..Bottom(0) /\ f[0] = res[0][0]
                 /\ \A m \in 1..Bottom(0) :
                      f[m].own = EmptyBag /\ f[m].of = <<f[m-1].id, f[m-1].own, EmptyBag>>
    BY <1>1, <1>5, AveragedDown
  <2>4. res'[0] = f
    BY <1>0, <1>1, <2>3 DEF Grid
  <2>5. ASSUME NEW j \in 0..(Bottom(0) - 1)
        PROVE  /\ res'[0][j].own = (IF j = 0 THEN sol[0] ELSE EmptyBag)
               /\ res'[0][j+1].of = <<res'[0][j].id, res'[0][j].own, EmptyBag>>
    <3>1. j + 1 \in 1..Bottom(0) /\ (j + 1) - 1 = j /\ (j = 0 \/ j \in 1..Bottom(0))
      BY <1>0
    <3>2. f[j+1].of = <<f[j].id, f[j].own, EmptyBag>>
      BY <2>3, <3>1
    <3> QED
      BY <2>2, <2>3, <2>4, <3>1, <3>2
  <2>6. mglev' + 1 \in 1..Bottom(0)
    BY <1>0, <2>1
  <2>7. res'[0][mglev' + 1].own = EmptyBag
    BY <2>3, <2>4, <2>6
  <2>8. cor'[0][mglev' + 1] = Atom(n)
    <3>1. cor' = [cor EXCEPT ![0][Bottom(0)] = Atom(n)]
      BY <1>5 DEF mgFcycle
    <3>2. Bottom(0) \in 0..Bottom(0) /\ mglev' + 1 = Bottom(0)
      BY <1>0, <2>1
    <3> QED
      BY <1>0, <1>1, <3>1, <3>2, PutIn
  <2>9. res'[0][mglev' + 1].own \sqsubseteq cor'[0][mglev' + 1]
    BY <1>3, <2>7, <2>8, EmptyIsLeast
  <2> QED
    BY <2>1, <2>2, <2>5, <2>9 DEF FCycle, FMade
<1>6. CASE FLevel
  <2> DEFINE c == Atom(n)
  <2>1. /\ phase = "f_level" /\ phase' = "v_down" /\ call' = "after_f" /\ top' = mglev
        /\ mglev' = mglev /\ UNCHANGED <<store, target>>
    BY <1>6 DEF FLevel, StartV, memory
  <2>2. /\ sol' = sol /\ stage' = "after_f" /\ stage = "f_level" /\ mglev \in 0..(Bottom(0) - 1)
    BY <2>1, SolStays DEF stage, InV, Control
  <2>3. mglev \in 0..Bottom(0) /\ mglev \in 0..mglev
    BY <1>0, <2>2
  <2>4. /\ res' = [res EXCEPT ![0][mglev] = Reduced(res[0][mglev], c)]
        /\ cor_hold' = [cor_hold EXCEPT ![0][mglev] = c]
    <3>1. /\ res' = [res EXCEPT ![0][mglev] = Reduced(@, c)]
          /\ cor_hold' = [cor_hold EXCEPT ![0][mglev] = c]
      BY <1>6 DEF FLevel
    <3> QED
      BY <3>1
  <2>5. /\ res'[0][mglev] = Reduced(res[0][mglev], c) /\ cor_hold'[0][mglev] = c
        /\ \A j \in 0..Bottom(0) : j # mglev => res'[0][j] = res[0][j]
    BY <1>0, <1>1, <2>3, <2>4, PutIn
  <2>6. /\ Reduced(res[0][mglev], c).own = res[0][mglev].own (+) c
        /\ Reduced(res[0][mglev], c).of = res[0][mglev].of
    BY <1>2, <2>3, ReducedFields
  <2>7. \A j \in 0..mglev :
          /\ res[0][j].own = (IF j = 0 THEN sol[0] ELSE EmptyBag)
          /\ res[0][j+1].of = <<res[0][j].id, res[0][j].own, EmptyBag>>
    BY <2>2 DEF FCycle, FMade, InF
  <2> HIDE DEF c
  <2>8. ASSUME NEW j \in 0..(mglev - 1)
        PROVE  /\ res'[0][j].own = (IF j = 0 THEN sol[0] ELSE EmptyBag)
               /\ res'[0][j+1].of = <<res'[0][j].id, res'[0][j].own, EmptyBag>>
    <3>1. j \in 0..Bottom(0) /\ j # mglev /\ j + 1 \in 0..Bottom(0) /\ j \in 0..mglev
      BY <1>0, <2>2
    <3>2. res'[0][j] = res[0][j] /\ res'[0][j+1].of = res[0][j+1].of
      BY <2>5, <2>6, <3>1
    <3> QED
      BY <2>7, <3>1, <3>2
  <2>9. res'[0][mglev].own = IF mglev = 0 THEN sol[0] (+) cor_hold'[0][0] ELSE cor_hold'[0][mglev]
    <3>1. IsABag(c) /\ EmptyBag (+) c = c
      BY <1>3, PlusComm, PlusEmpty, EmptyIsBag DEF c
    <3> QED
      BY <2>3, <2>5, <2>6, <2>7, <3>1
  <2> QED
    BY <2>1, <2>2, <2>8, <2>9 DEF FCycle, FMade
<1>7. CASE (VDown \/ VBottom \/ VUp) /\ stage' \in InF
  <2>1. /\ stage = call /\ stage' = call /\ alev' = alev /\ top' = top
        /\ top \in 0..Bottom(alev) /\ mglev \in top..Bottom(alev)
        /\ sol' = sol /\ cor_hold' = cor_hold
        /\ \A k \in Lev : \A j \in 0..Bottom(k) :
             ~(k = alev /\ j = mglev + 1) => res'[k][j] = res[k][j]
    BY <1>7, VSteps
  <2>2. stage = "after_f" /\ stage' = "after_f" /\ alev = 0
    BY <1>7, <2>1 DEF InF, Control, Calls, VDown, VBottom, VUp, InV
  <2>3. \A j \in 0..top : j \in 0..Bottom(0) /\ j # mglev + 1
    BY <1>0, <2>1, <2>2
  <2>4. \A j \in 0..top : res'[0][j] = res[0][j]
    BY <1>0, <2>1, <2>2, <2>3
  <2>5. \A j \in 0..(top - 1) : j \in 0..top /\ j + 1 \in 0..top
    BY <1>0, <2>1, <2>2
  <2>6. top \in 0..top
    BY <1>0, <2>1, <2>2
  <2> QED
    BY <2>1, <2>2, <2>4, <2>5, <2>6 DEF FCycle, FMade, InF
<1>8. CASE AfterFLevel /\ stage' \in InF
  <2>1. /\ phase = "after_f" /\ phase' = "f_level" /\ mglev' = top - 1 /\ top # 0
        /\ UNCHANGED <<store, target, res>>
    BY <1>8 DEF AfterFLevel, memory, stage, InV, InF
  <2>2. sol' = sol /\ stage = "after_f" /\ stage' = "f_level" /\ top \in 0..(Bottom(0) - 1)
    BY <2>1, SolStays DEF stage, InV, Control
  <2>3. top \in 0..Bottom(0) /\ mglev' + 1 = top
    BY <1>0, <2>1, <2>2
  <2>4. cor'[0][top] = cor[0][top] (+) cor_hold[0][top]
    <3>1. cor' = [cor EXCEPT ![0][top] = PlusHold(top)]
      BY <1>8 DEF AfterFLevel
    <3> QED
      BY <1>0, <1>1, <2>3, <3>1, PutIn DEF PlusHold
  <2>5. res[0][top].own = cor_hold[0][top]
    BY <2>1, <2>2 DEF FCycle
  <2>6. res[0][top].own \sqsubseteq cor'[0][top]
    BY <1>2, <2>3, <2>4, <2>5, PartOfPlus
  <2>7. \A j \in 0..(top - 1) :
          /\ res[0][j].own = (IF j = 0 THEN sol[0] ELSE EmptyBag)
          /\ res[0][j+1].of = <<res[0][j].id, res[0][j].own, EmptyBag>>
    BY <2>2 DEF FCycle, FMade, InF
  <2> QED
    BY <2>1, <2>2, <2>3, <2>6, <2>7 DEF FCycle, FMade
<1>9. \/ stage' \notin InF \/ mgFcycle \/ FLevel \/ VDown \/ VBottom \/ VUp \/ AfterFLevel
  BY DEF Next, Cycle, solve, precond, StartSolve, compResidual, FirstResidual, oneIter,
       miniCycleDown, AfterDown, coarseV, AfterCoarse, miniCycleUp, AfterUp, EndIter, TestCoarse,
       Again, Throw, Return, control, stage, InV, InF, StartV
<1> QED
  BY <1>4, <1>5, <1>6, <1>7, <1>8, <1>9

-----------------------------------------------------------------------------
(* The AMR levels.                                                         *)

LEMMA PresentStays ==
  ASSUME nmg \in Layouts, UNCHANGED <<nmg, at_start>>, NEW l \in Lev, Present(l),
         res'[l][0] = res[l][0], \A k \in Lev : sol'[k] = sol[k]
  PROVE  Present(l)'
<1>0. finest_amr_lev \in Nat /\ Lev = 0..finest_amr_lev
  BY LevIs
<1>1. finest_amr_lev' = finest_amr_lev
  BY SameProblem
<1>2. l \in Nat /\ (l > 0 => l - 1 \in Lev) /\ (l < finest_amr_lev => l + 1 \in Lev)
  BY <1>0
<1> HIDE DEF Lev, finest_amr_lev, sol
<1> QED
  BY <1>1, <1>2 DEF Present

LEMMA BetweenStays ==
  ASSUME nmg \in Layouts, UNCHANGED <<nmg, at_start>>, NEW l \in 1..finest_amr_lev, Between(l),
         res'[l][0] = res[l][0], cor_hold'[l][0] = cor_hold[l][0],
         \A k \in Lev : k >= l => sol'[k] = sol[k]
  PROVE  Between(l)'
<1>0. finest_amr_lev \in Nat /\ Lev = 0..finest_amr_lev
  BY LevIs
<1>1. finest_amr_lev' = finest_amr_lev
  BY SameProblem
<1>2. l \in Lev /\ l >= l /\ (l < finest_amr_lev => l + 1 \in Lev /\ l + 1 >= l)
  BY <1>0
<1> HIDE DEF Lev, finest_amr_lev, sol
<1> QED
  BY <1>1, <1>2 DEF Between

\* A step inside of the cycles of one AMR level that leaves the first residuals alone.
LEMMA CycleKeepsLevels ==
  ASSUME Shapes, Control, Levels, UNCHANGED <<nmg, alev, store, target, at_start>>,
         stage \in Down \cup Coarse \cup InF \cup {"after_up"},
         \/ stage' = stage /\ \A k \in Lev : res'[k][0] = res[k][0] /\ cor_hold'[k][0] = cor_hold[k][0]
         \/ /\ stage \in Coarse \cup InF
            /\ \A k \in 1..finest_amr_lev : /\ res'[k][0] = res[k][0]
                                            /\ cor_hold'[k][0] = cor_hold[k][0],
         stage \in Down => stage' \in Down, stage \in Coarse \cup InF => stage' \in Coarse \cup InF,
         phase' = "coarse" \/ (InV' /\ call' = "after_coarse") =>
           /\ phase = "coarse" \/ (InV /\ call = "after_coarse")
           /\ res'[0][0] = res[0][0]
  PROVE  Levels'
<1>0. finest_amr_lev \in Nat /\ Lev = 0..finest_amr_lev /\ 0 \in Lev /\ nmg \in Layouts
  BY LevIs DEF Shapes, Problem
<1>1. Lev' = Lev /\ finest_amr_lev' = finest_amr_lev
  BY SameProblem
<1>2. sol' = sol
  BY SolStays
<1> HIDE DEF Lev, finest_amr_lev, sol, InV, stage
<1>3. CASE stage \in Down
  <2>1. GoingDown /\ stage' \in Down /\ alev \in 1..finest_amr_lev
    BY <1>3 DEF Levels, Control
  <2>2. \A k \in Lev : res'[k][0] = res[k][0] /\ cor_hold'[k][0] = cor_hold[k][0]
    BY <1>3 DEF Down, Coarse, InF
  <2>3. alev \in Lev /\ \A k \in alev+1..finest_amr_lev : k \in 1..finest_amr_lev /\ k \in Lev
    BY <1>0, <2>1
  <2>4. Present(alev)'
    <3>1. ASSUME NEW l \in Lev, l = alev PROVE Present(l)'
      BY <1>0, <1>2, <2>1, <2>2, <3>1, PresentStays DEF GoingDown
    <3> QED
      BY <2>3, <3>1
  <2>5. \A k \in alev+1..finest_amr_lev : Between(k)'
    BY <1>0, <1>2, <2>1, <2>2, <2>3, BetweenStays DEF GoingDown
  <2>6. GoingDown'
    BY <1>1, <1>2, <2>1, <2>4, <2>5 DEF GoingDown
  <2> QED
    BY <2>1, <2>6 DEF Levels, Down, Coarse, InF
<1>4. CASE stage \in Coarse \cup InF
  <2>1. OnCoarsest /\ stage' \in Coarse \cup InF
    BY <1>4 DEF Levels
  <2>2. \A k \in 1..finest_amr_lev : /\ k \in Lev /\ res'[k][0] = res[k][0]
                                     /\ cor_hold'[k][0] = cor_hold[k][0]
    BY <1>0
  <2>3. \A k \in 1..finest_amr_lev : Between(k)'
    BY <1>0, <1>2, <2>1, <2>2, BetweenStays DEF OnCoarsest
  <2>4. phase' = "coarse" \/ (InV' /\ call' = "after_coarse") => Present(0)'
    <3>1. ASSUME NEW l \in Lev, l = 0, Present(0), res'[0][0] = res[0][0]
          PROVE  Present(l)'
      BY <1>0, <1>2, <3>1, PresentStays
    <3> QED
      BY <1>0, <2>1, <3>1 DEF OnCoarsest
  <2>5. OnCoarsest'
    BY <1>1, <1>2, <2>1, <2>3, <2>4 DEF OnCoarsest
  <2> QED
    BY <2>1, <2>5 DEF Levels, Down, Coarse, InF
<1>5. CASE stage = "after_up"
  <2>1. GoingUp /\ stage' = "after_up" /\ alev \in 1..finest_amr_lev
    BY <1>5 DEF Levels, Control, Coarse, InF, Up
  <2>2. \A k \in Lev : res'[k][0] = res[k][0] /\ cor_hold'[k][0] = cor_hold[k][0]
    BY <1>5 DEF Coarse, InF
  <2>3. alev \in Lev /\ \A k \in alev+1..finest_amr_lev : k \in 1..finest_amr_lev /\ k \in Lev
    BY <1>0, <2>1
  <2>4. Present(alev)'
    <3>1. ASSUME NEW l \in Lev, l = alev PROVE Present(l)'
      BY <1>0, <1>2, <2>1, <2>2, <3>1, PresentStays DEF GoingUp
    <3> QED
      BY <2>3, <3>1
  <2>5. \A k \in alev+1..finest_amr_lev : Between(k)'
    BY <1>0, <1>2, <2>1, <2>2, <2>3, BetweenStays DEF GoingUp
  <2>6. GoingUp'
    BY <1>1, <1>2, <2>1, <2>2, <2>3, <2>4, <2>5 DEF GoingUp
  <2> QED
    BY <2>1, <2>6 DEF Levels, Down, Coarse, InF
<1> QED
  BY <1>3, <1>4, <1>5

\* A correction has been added on level l: the solution on the others is as before.
LEMMA AddsSol ==
  ASSUME Shapes, NEW l \in Lev, NEW b, IsABag(b), Adds(l, b)
  PROVE  /\ sol'[l] = sol[l] (+) b /\ \A k \in Lev : k # l => sol'[k] = sol[k]
         /\ at_start' = at_start
<1>1. Arrays
  BY DEF Shapes
<1> QED
  BY <1>1, SolAdded DEF Adds

LEMMA AfterDownLevels ==
  ASSUME Shapes, Control, Levels, AfterDown
  PROVE  Levels'
<1>0. /\ finest_amr_lev \in Nat /\ Lev = 0..finest_amr_lev /\ nmg \in Layouts
      /\ \A k \in Lev : 0 \in 0..Bottom(k)
  BY LevIs DEF Shapes, Problem
<1> HIDE DEF Lev, finest_amr_lev, Bottom, sol
<1>1. UNCHANGED <<nmg, use>>
  BY DEF AfterDown, config
<1>2. Lev' = Lev /\ finest_amr_lev' = finest_amr_lev
  BY <1>1, SameProblem
<1>3. /\ Grid(cor) /\ Grid(res) /\ Grid(cor_hold)
  BY DEF Shapes, Grids
<1>4. phase = "after_down" /\ alev \in 1..finest_amr_lev /\ GoingDown
  BY DEF AfterDown, Control, stage, InV, Down, Levels
<1>5. PICK l \in Lev : l = alev
  BY <1>0, <1>4
<1>6. l - 1 \in Lev /\ l # l - 1 /\ l > 0
  BY <1>0, <1>4, <1>5
<1> DEFINE c == cor[l][0]
           f == Reduced(res[l][0], c)
           s == Refluxed(solutionResidual(l-1), sol[l] (+) c)
           y == Append(s.fine, <<f.own, f.bc>>)
           r == [s EXCEPT !.fine = y]
           g == [res EXCEPT ![l][0] = f]
<1>7. IsABag(c) /\ IsABag(cor_hold[l][0]) /\ IsRes(res[l][0])
  BY <1>0, AreBags
<1>8. /\ alev' = l - 1 /\ phase' = IF l = 1 THEN "coarse" ELSE "mini_down"
      /\ res' = [g EXCEPT ![l-1][0] = r]
  <2>1. /\ alev' = l - 1 /\ phase' = IF l = 1 THEN "coarse" ELSE "mini_down"
        /\ res' = [g EXCEPT ![l-1][0] = [s EXCEPT !.fine = Append(@, <<f.own, f.bc>>)]]
    BY <1>5 DEF AfterDown
  <2> HIDE DEF s, f, g
  <2> QED
    BY <2>1
<1>9. /\ sol'[l] = sol[l] (+) c /\ \A k \in Lev : k # l => sol'[k] = sol[k]
      /\ at_start' = at_start
  BY <1>5, <1>7, AddsWhat, AddsSol
<1>10. l # finest_amr_lev => cor_hold'[l][0] = c
  <2>1. l # finest_amr_lev => cor_hold' = [cor_hold EXCEPT ![l][0] = c]
    BY <1>5 DEF AfterDown
  <2> QED
    BY <1>0, <1>3, <2>1, PutIn
<1>11. \A k \in Lev : k # l => cor_hold'[k] = cor_hold[k]
  <2>1. cor_hold' = cor_hold \/ cor_hold' = [cor_hold EXCEPT ![l][0] = c]
    BY <1>5 DEF AfterDown
  <2>2. 0 \in 0..Bottom(l)
    BY <1>0
  <2> HIDE DEF c
  <2>3. CASE cor_hold' = [cor_hold EXCEPT ![l][0] = c]
    BY <1>3, <2>2, <2>3, PutIn
  <2> QED
    BY <2>1, <2>3
<1>12. /\ f.own = res[l][0].own (+) c /\ f.bc = res[l][0].bc /\ f.fine = res[l][0].fine
       /\ IsRes(f)
  BY <1>7, ReducedFields
<1>13. /\ IsRes(s) /\ s.own = sol[l-1] /\ (l - 1 > 0 => s.bc = sol[(l-1)-1])
       /\ s.fine = <<sol[l] (+) c>>
  BY ResidualFields, RefluxedFields DEF solutionResidual
<1>14. r.own = s.own /\ r.bc = s.bc /\ r.fine = y
  <2> HIDE DEF s, y
  <2> QED
    BY <1>13, FineFields
<1>15. y = <<sol[l] (+) c, <<f.own, f.bc>> >>
  <2>1. ASSUME NEW a, NEW z PROVE Append(<<a>>, z) = <<a, z>>
    <3>1. <<a>> \in Seq({a, z}) /\ <<a, z>> \in Seq({a, z}) /\ Len(<<a>>) = 1 /\ z \in {a, z}
      OBVIOUS
    <3>2. Len(Append(<<a>>, z)) = 2 /\ Append(<<a>>, z) \in Seq({a, z})
      BY <3>1
    <3>3. Append(<<a>>, z)[1] = a /\ Append(<<a>>, z)[2] = z
      BY <3>1
    <3>4. Len(<<a, z>>) = 2 /\ \A i \in 1..2 : Append(<<a>>, z)[i] = <<a, z>>[i]
      BY <3>3
    <3> QED
      BY <3>1, <3>2, <3>4, SeqEqual
  <2>2. s.fine = <<sol[l] (+) c>>
    BY <1>13
  <2> HIDE DEF s, f, c
  <2> QED
    BY <2>1, <2>2
<1> HIDE DEF c, f, s, y, r
<1>16. Grid(g) /\ g[l][0] = f /\ \A k \in Lev : k # l => g[k] = res[k]
  <2>1. 0 \in 0..Bottom(l)
    BY <1>0
  <2> QED
    BY <1>3, <2>1, PutIn
<1> HIDE DEF g
<1>17. res'[l-1][0] = r /\ \A k \in Lev : k # l - 1 => res'[k] = g[k]
  <2>1. ASSUME NEW m \in Lev, m = l - 1
        PROVE  res'[m][0] = r /\ \A k \in Lev : k # m => res'[k] = g[k]
    <3>1. 0 \in 0..Bottom(m) /\ res' = [g EXCEPT ![m][0] = r]
      BY <1>0, <1>8, <2>1
    <3> QED
      BY <1>16, <3>1, PutIn
  <2> QED
    BY <1>6, <2>1
<1>18. res'[l][0] = f /\ \A k \in Lev : k # l /\ k # l - 1 => res'[k] = res[k]
  BY <1>6, <1>16, <1>17
<1>19. sol[l] = at_start[l] /\ sol[l-1] = at_start[l-1] /\ Present(l)
  BY <1>0, <1>4, <1>5, <1>6 DEF GoingDown
<1>20. Between(l)'
  <2>1. l < finest_amr_lev => l + 1 \in Lev /\ l + 1 # l /\ l # finest_amr_lev
    BY <1>0
  <2>2. f.own = sol'[l] /\ f.bc = at_start[l-1]
    BY <1>6, <1>9, <1>12, <1>19 DEF Present
  <2>3. l < finest_amr_lev => f.fine = <<sol'[l+1], <<sol'[l+1], at_start[l]>> >>
    BY <1>9, <1>12, <1>19, <2>1 DEF Present
  <2> QED
    BY <1>2, <1>9, <1>10, <1>18, <1>19, <2>1, <2>2, <2>3 DEF Between
<1>21. \A k \in l+1..finest_amr_lev : Between(k)'
  <2>1. ASSUME NEW k \in l+1..finest_amr_lev PROVE Between(k)'
    <3>1. k \in 1..finest_amr_lev /\ k \in Lev /\ k # l /\ k # l - 1
          /\ \A j \in Lev : j >= k => j # l
      BY <1>0, <1>6
    <3>2. Between(k)
      BY <1>4, <1>5 DEF GoingDown
    <3> QED
      BY <1>0, <1>1, <1>9, <1>11, <1>18, <3>1, <3>2, BetweenStays
  <2> QED
    BY <2>1
<1>22. \A k \in l..finest_amr_lev : Between(k)'
  <2>1. \A k \in l..finest_amr_lev : k = l \/ k \in l+1..finest_amr_lev
    BY <1>0
  <2> QED
    BY <1>20, <1>21, <2>1
<1>23. Present(l-1)'
  <2>1. l - 1 > 0 => (l-1) - 1 \in Lev /\ (l-1) - 1 # l
    BY <1>0
  <2>2. f.own = sol'[l] /\ f.bc = at_start[l-1]
    BY <1>6, <1>9, <1>12, <1>19 DEF Present
  <2>3. r.fine = <<sol'[l], <<sol'[l], at_start[l-1]>> >>
    BY <1>9, <1>14, <1>15, <1>19, <2>2
  <2>4. (l-1) + 1 = l
    BY <1>0
  <2> QED
    BY <1>2, <1>6, <1>9, <1>13, <1>14, <1>17, <2>1, <2>3, <2>4 DEF Present
<1>24. \A k \in 0..(l-1) : sol'[k] = at_start[k]
  <2>1. \A k \in 0..(l-1) : k \in Lev /\ k # l /\ k \in 0..l
    BY <1>0
  <2> QED
    BY <1>4, <1>5, <1>9, <2>1 DEF GoingDown
<1>25. (l-1) + 1 = l
  BY <1>0
<1>26. CASE l = 1
  <2>1. phase' = "coarse" /\ stage' = "coarse"
    BY <1>8, <1>26 DEF stage, InV
  <2>2. 0 \in 0..(l-1) /\ l - 1 = 0
    BY <1>26
  <2>3. OnCoarsest'
    BY <1>2, <1>9, <1>22, <1>23, <1>24, <1>26, <2>2 DEF OnCoarsest
  <2> QED
    BY <2>1, <2>3 DEF Levels, Down, Coarse, InF
<1>27. CASE l # 1
  <2>1. stage' = "mini_down"
    BY <1>8, <1>27 DEF stage, InV
  <2>2. GoingDown'
    BY <1>2, <1>8, <1>9, <1>22, <1>23, <1>24, <1>25 DEF GoingDown
  <2> QED
    BY <2>1, <2>2 DEF Levels, Down, Coarse, InF
<1> QED
  BY <1>26, <1>27

LEMMA AfterCoarseLevels ==
  ASSUME Shapes, Control, Levels, AfterCoarse
  PROVE  Levels'
<1>0. /\ finest_amr_lev \in Nat /\ Lev = 0..finest_amr_lev /\ 0 \in Lev /\ nmg \in Layouts
      /\ 0 \in 0..Bottom(0)
  BY LevIs DEF Shapes, Problem
<1> HIDE DEF Lev, finest_amr_lev, Bottom, sol
<1>1. UNCHANGED <<nmg, res, cor, cor_hold>>
  BY DEF AfterCoarse, config, data
<1>2. Lev' = Lev /\ finest_amr_lev' = finest_amr_lev
  BY <1>1, SameProblem
<1>3. phase = "after_coarse" /\ OnCoarsest
  BY DEF AfterCoarse, stage, InV, Coarse, Levels
<1>4. /\ sol'[0] = sol[0] (+) cor[0][0] /\ \A k \in Lev : k # 0 => sol'[k] = sol[k]
      /\ at_start' = at_start
  BY <1>0, AreBags, AddsWhat, AddsSol
<1>5. CASE finest_amr_lev > 0
  <2>1. alev' = 1 /\ phase' = "mini_up" /\ stage' = "mini_up"
    BY <1>5 DEF AfterCoarse, stage, InV
  <2>2. ASSUME NEW k \in 1..finest_amr_lev PROVE Between(k)'
    <3>1. \A j \in Lev : j >= k => j # 0
      BY <1>0
    <3> QED
      BY <1>0, <1>1, <1>3, <1>4, <3>1, BetweenStays DEF OnCoarsest
  <2>3. sol'[1-1] = at_start'[1-1] (+) cor'[1-1][0]
    BY <1>1, <1>3, <1>4 DEF OnCoarsest
  <2>4. Interpolating'
    BY <1>2, <2>1, <2>2, <2>3 DEF Interpolating
  <2> QED
    BY <2>1, <2>4 DEF Levels, Down, Coarse, InF
<1>6. CASE ~(finest_amr_lev > 0)
  BY <1>6 DEF AfterCoarse, stage, InV, Levels, Down, Coarse, InF
<1> QED
  BY <1>5, <1>6

LEMMA MiniCycleUpLevels ==
  ASSUME Shapes, Control, Levels, miniCycleUp
  PROVE  Levels'
<1>0. /\ finest_amr_lev \in Nat /\ Lev = 0..finest_amr_lev /\ nmg \in Layouts
      /\ \A k \in Lev : 0 \in 0..Bottom(k)
  BY LevIs DEF Shapes, Problem
<1> HIDE DEF Lev, finest_amr_lev, Bottom, sol, Atom
<1>1. UNCHANGED <<nmg, alev>>
  BY DEF miniCycleUp, config
<1>2. Lev' = Lev /\ finest_amr_lev' = finest_amr_lev
  BY <1>1, SameProblem
<1>3. Grid(res) /\ Grid(cor_hold)
  BY DEF Shapes, Grids
<1>4. phase = "mini_up" /\ alev \in 1..finest_amr_lev /\ Interpolating
  BY DEF miniCycleUp, Control, stage, InV, Up, Levels
<1>5. PICK l \in Lev : l = alev
  BY <1>0, <1>4
<1>6. l - 1 \in Lev /\ l # l - 1 /\ l > 0 /\ 0 \in 0..Bottom(l)
      /\ \A k \in l+1..finest_amr_lev : /\ k \in Lev /\ k \in 1..finest_amr_lev /\ k # l
                                        /\ k \in l..finest_amr_lev /\ \A j \in Lev : j >= k => j # l
  BY <1>0, <1>4, <1>5
<1> DEFINE c == Atom(n)
           d == cor[l-1][0]
           r == ReducedWithBC(res[l][0], c, d)
           h == cor_hold[l][0] (+) c
<1>7. IsABag(c) /\ IsABag(cor_hold[l][0]) /\ IsRes(res[l][0]) /\ IsABag(sol[l]) /\ IsABag(at_start[l])
  BY <1>0, AreBags, SetIsBag DEF Atom
<1>8. /\ res' = [res EXCEPT ![l][0] = r]
      /\ cor_hold' = IF l = finest_amr_lev THEN cor_hold ELSE [cor_hold EXCEPT ![l][0] = h]
  <2>1. /\ res' = [res EXCEPT ![l][0] = ReducedWithBC(@, c, d)]
        /\ cor_hold' = IF l = finest_amr_lev THEN cor_hold ELSE [cor_hold EXCEPT ![l][0] = @ (+) c]
    BY <1>5 DEF miniCycleUp
  <2> QED
    BY <2>1
<1>9. /\ r.own = res[l][0].own (+) c /\ r.bc = res[l][0].bc (+) d /\ r.fine = res[l][0].fine
  BY <1>7, ReducedWithBCFields
<1>10. /\ sol'[l] = sol[l] (+) c /\ \A k \in Lev : k # l => sol'[k] = sol[k]
       /\ at_start' = at_start
  BY <1>5, <1>7, AddsWhat, AddsSol
<1> HIDE DEF c, d, r
<1>11. res'[l][0] = r /\ \A k \in Lev : k # l => res'[k] = res[k]
  <2>1. 0 \in 0..Bottom(l) /\ res' = [res EXCEPT ![l][0] = r]
    BY <1>6, <1>8
  <2> QED
    BY <1>3, <2>1, PutIn
<1>12. /\ l # finest_amr_lev => cor_hold'[l][0] = h
       /\ \A k \in Lev : k # l => cor_hold'[k] = cor_hold[k]
  <2> HIDE DEF h
  <2>1. CASE l = finest_amr_lev
    BY <1>8, <2>1
  <2>2. CASE l # finest_amr_lev
    <3>1. 0 \in 0..Bottom(l) /\ cor_hold' = [cor_hold EXCEPT ![l][0] = h]
      BY <1>6, <1>8, <2>2
    <3> QED
      BY <1>3, <3>1, PutIn
  <2> QED
    BY <2>1, <2>2
<1>13. stage' = "after_up"
  BY DEF miniCycleUp, StartV, stage, InV
<1>14. Between(l) /\ sol[l-1] = at_start[l-1] (+) d
  BY <1>0, <1>4, <1>5 DEF Interpolating, d
<1>15. Present(l)'
  <2>1. l < finest_amr_lev => l + 1 \in Lev /\ l + 1 # l
    BY <1>0
  <2>2. r.own = sol'[l] /\ r.bc = sol'[l-1]
    BY <1>6, <1>9, <1>10, <1>14 DEF Between
  <2>3. l < finest_amr_lev => r.fine = <<sol'[l+1], <<sol'[l+1], at_start[l]>> >>
    BY <1>9, <1>10, <1>14, <2>1 DEF Between
  <2> QED
    BY <1>2, <1>10, <1>11, <2>2, <2>3 DEF Present
<1>16. l < finest_amr_lev => sol'[l] = at_start[l] (+) cor_hold'[l][0]
  <2>1. l < finest_amr_lev => l # finest_amr_lev /\ sol[l] = at_start[l] (+) cor_hold[l][0]
    BY <1>0, <1>14 DEF Between
  <2>2. (at_start[l] (+) cor_hold[l][0]) (+) c = at_start[l] (+) h
    BY <1>7, PlusAssoc
  <2> QED
    BY <1>10, <1>12, <2>1, <2>2
<1>17. ASSUME NEW k \in l+1..finest_amr_lev PROVE Between(k)'
  <2>1. Between(k)
    BY <1>4, <1>5, <1>6 DEF Interpolating
  <2> QED
    BY <1>0, <1>1, <1>6, <1>10, <1>11, <1>12, <2>1, BetweenStays
<1>18. GoingUp'
  BY <1>1, <1>2, <1>5, <1>10, <1>15, <1>16, <1>17 DEF GoingUp
<1> QED
  BY <1>13, <1>18 DEF Levels, Down, Coarse, InF

LEMMA AfterUpLevels ==
  ASSUME Shapes, Control, Levels, AfterUp
  PROVE  Levels'
<1>0. /\ finest_amr_lev \in Nat /\ Lev = 0..finest_amr_lev /\ nmg \in Layouts
      /\ \A k \in Lev : 0 \in 0..Bottom(k)
  BY LevIs DEF Shapes, Problem
<1> HIDE DEF Lev, finest_amr_lev, Bottom, sol
<1>1. UNCHANGED <<nmg, res, cor_hold>>
  BY DEF AfterUp, config
<1>2. Lev' = Lev /\ finest_amr_lev' = finest_amr_lev
  BY <1>1, SameProblem
<1>3. Grid(cor)
  BY DEF Shapes, Grids
<1>4. phase = "after_up" /\ alev \in 1..finest_amr_lev /\ GoingUp
  BY DEF AfterUp, Control, stage, InV, Up, Levels
<1>5. PICK l \in Lev : l = alev
  BY <1>0, <1>4
<1>6. 0 \in 0..Bottom(l) /\ (l+1) - 1 = l
      /\ \A k \in l+1..finest_amr_lev : /\ k \in Lev /\ k \in 1..finest_amr_lev /\ k # l
                                        /\ \A j \in Lev : j >= k => j # l
  BY <1>0, <1>4, <1>5
<1> DEFINE c == cor[l][0]
           h == cor_hold[l][0]
<1>7. IsABag(c) /\ IsABag(h) /\ IsABag(sol[l]) /\ IsABag(at_start[l])
  BY <1>0, AreBags
<1>8. /\ sol'[l] = sol[l] (+) c /\ \A k \in Lev : k # l => sol'[k] = sol[k]
      /\ at_start' = at_start
  BY <1>5, <1>7, AddsWhat, AddsSol
<1>9. CASE l = finest_amr_lev
  <2>1. phase' = "sync"
    BY <1>5, <1>9 DEF AfterUp
  <2> QED
    BY <2>1 DEF stage, InV, Levels, Down, Coarse, InF
<1>10. CASE l # finest_amr_lev
  <2>1. alev' = l + 1 /\ phase' = "mini_up" /\ stage' = "mini_up"
    BY <1>5, <1>10 DEF AfterUp, stage, InV
  <2>2. cor'[l][0] = c (+) h
    <3>1. cor' = [cor EXCEPT ![l][0] = c (+) h]
      BY <1>5, <1>10 DEF AfterUp, Whole
    <3> HIDE DEF c, h
    <3> QED
      BY <1>3, <1>6, <3>1, PutIn
  <2>3. sol[l] = at_start[l] (+) h
    BY <1>0, <1>4, <1>5, <1>10 DEF GoingUp
  <2>4. sol'[l] = at_start'[l] (+) cor'[l][0]
    <3>1. (at_start[l] (+) h) (+) c = at_start[l] (+) (h (+) c) /\ h (+) c = c (+) h
      BY <1>7, PlusAssoc, PlusComm
    <3> HIDE DEF c, h
    <3> QED
      BY <1>8, <2>2, <2>3, <3>1
  <2>5. ASSUME NEW k \in l+1..finest_amr_lev PROVE Between(k)'
    <3>1. Between(k)
      BY <1>4, <1>5, <1>6 DEF GoingUp
    <3> QED
      BY <1>0, <1>1, <1>6, <1>8, <3>1, BetweenStays
  <2>6. Interpolating'
    BY <1>2, <1>6, <2>1, <2>4, <2>5 DEF Interpolating
  <2> QED
    BY <2>1, <2>6 DEF Levels, Down, Coarse, InF
<1> QED
  BY <1>9, <1>10

\* The iterations of solve.
LEMMA IterationLevels ==
  ASSUME Shapes, Control, Levels,
         FirstResidual \/ oneIter \/ EndIter \/ TestCoarse \/ Again
  PROVE  Levels'
<1>0. /\ finest_amr_lev \in Nat /\ Lev = 0..finest_amr_lev /\ nmg \in Layouts
      /\ \A k \in Lev : 0 \in 0..Bottom(k)
      /\ finest_amr_lev \in Lev /\ 0 \in Lev
  BY LevIs DEF Shapes, Problem
<1>1. Grid(res) /\ Grids /\ Problem
  BY DEF Shapes, Grids
<1> HIDE DEF Lev, finest_amr_lev, Bottom, sol
<1>2. UNCHANGED nmg
  BY DEF FirstResidual, oneIter, EndIter, TestCoarse, Again, config
<1>3. Lev' = Lev /\ finest_amr_lev' = finest_amr_lev
  BY <1>2, SameProblem
<1>4. ASSUME ~oneIter, UNCHANGED <<store, target>>, phase' \in {"iter", "test_coarse", "again", "post"},
             phase' # "post" =>
               /\ res'[finest_amr_lev][0].own = sol[finest_amr_lev]
               /\ finest_amr_lev > 0 => res'[finest_amr_lev][0].bc = sol[finest_amr_lev-1]
      PROVE  Levels'
  <2>1. sol' = sol
    BY <1>4, SolStays
  <2>2. phase' # "post" => Before'
    BY <1>3, <1>4, <2>1 DEF Before
  <2> QED
    BY <1>4, <2>2 DEF Levels, stage, InV, Down, Coarse, InF
<1>5. CASE FirstResidual
  <2>1. /\ res' = MLResidual(finest_amr_lev) /\ phase' \in {"iter", "post"}
        /\ UNCHANGED <<store, target>> /\ phase = "start"
    BY <1>5 DEF FirstResidual, memory
  <2>2. finest_amr_lev <= finest_amr_lev
    BY <1>0
  <2>3. /\ res'[finest_amr_lev][0].own = sol[finest_amr_lev]
        /\ finest_amr_lev > 0 => res'[finest_amr_lev][0].bc = sol[finest_amr_lev-1]
    BY <1>0, <1>1, <2>1, <2>2, MLResiduals
  <2>4. ~oneIter
    BY <2>1 DEF oneIter
  <2> QED
    BY <1>4, <2>1, <2>3, <2>4
<1>6. CASE EndIter
  <2>1. /\ res' = [res EXCEPT ![finest_amr_lev][0] = solutionResidual(finest_amr_lev)]
        /\ phase' \in {"test_coarse", "again"} /\ UNCHANGED <<store, target>> /\ phase = "sync"
    BY <1>6 DEF EndIter
  <2>2. 0 \in 0..Bottom(finest_amr_lev)
    BY <1>0
  <2>3. res'[finest_amr_lev][0] = solutionResidual(finest_amr_lev)
    BY <1>0, <1>1, <2>1, <2>2, PutIn
  <2>4. /\ res'[finest_amr_lev][0].own = sol[finest_amr_lev]
        /\ finest_amr_lev > 0 => res'[finest_amr_lev][0].bc = sol[finest_amr_lev-1]
    BY <2>3, ResidualFields DEF solutionResidual
  <2>5. ~oneIter
    BY <2>1 DEF oneIter
  <2> QED
    BY <1>4, <2>1, <2>4, <2>5
<1>7. CASE TestCoarse
  <2>1. phase = "test_coarse" /\ UNCHANGED <<store, target>>
    BY <1>7 DEF TestCoarse, memory
  <2>2. Before /\ ~oneIter
    BY <2>1 DEF Levels, stage, InV, oneIter
  <2>3. CASE finest_amr_lev = 0
    BY <1>4, <1>7, <2>1, <2>2, <2>3 DEF TestCoarse
  <2>4. CASE finest_amr_lev # 0
    <3>1. res' = MLResidual(finest_amr_lev - 1) /\ phase' \in {"post", "again"}
      BY <1>7, <2>4 DEF TestCoarse
    <3>2. finest_amr_lev - 1 \in Lev /\ finest_amr_lev > finest_amr_lev - 1
      BY <1>0, <2>4
    <3>3. res'[finest_amr_lev] = res[finest_amr_lev]
      BY <1>0, <1>1, <3>1, <3>2, MLResiduals
    <3> QED
      BY <1>4, <2>1, <2>2, <3>1, <3>3 DEF Before
  <2> QED
    BY <2>3, <2>4
<1>8. CASE Again
  <2>1. phase = "again" /\ UNCHANGED <<store, target, res>> /\ phase' \in {"iter", "post"}
    BY <1>8 DEF Again, memory, data
  <2>2. Before /\ ~oneIter
    BY <2>1 DEF Levels, stage, InV, oneIter
  <2> QED
    BY <1>4, <2>1, <2>2 DEF Before
<1>9. CASE oneIter
  <2>1. /\ phase = "iter" /\ at_start' = sol /\ alev' = finest_amr_lev
        /\ phase' = IF finest_amr_lev > 0 THEN "mini_down" ELSE "coarse"
        /\ UNCHANGED <<store, target, res>>
    BY <1>9 DEF oneIter, data
  <2>2. Before /\ sol' = sol /\ stage' = phase'
    BY <2>1, SolStays DEF Levels, stage, InV
  <2>3. ~(finest_amr_lev < finest_amr_lev) /\ \A k \in finest_amr_lev+1..finest_amr_lev : FALSE
    BY <1>0
  <2>4. Present(finest_amr_lev)'
    <3>1. ASSUME NEW l \in Lev, l = finest_amr_lev PROVE Present(l)'
      BY <1>3, <2>1, <2>2, <2>3, <3>1 DEF Present, Before
    <3> QED
      BY <1>0, <1>3, <3>1
  <2>5. CASE finest_amr_lev > 0
    <3>1. GoingDown'
      BY <1>3, <2>1, <2>2, <2>3, <2>4 DEF GoingDown
    <3> QED
      BY <2>1, <2>2, <2>5, <3>1 DEF Levels, Down, Coarse, InF
  <2>6. CASE ~(finest_amr_lev > 0)
    <3>1. finest_amr_lev = 0
      BY <1>0, <2>6
    <3>2. \A k \in 1..0 : FALSE
      OBVIOUS
    <3>3. Present(0)'
      <4>1. ASSUME NEW l \in Lev, l = 0 PROVE Present(l)'
        BY <1>3, <2>1, <2>2, <2>3, <3>1, <4>1 DEF Present, Before
      <4> QED
        BY <1>0, <4>1
    <3>4. OnCoarsest'
      BY <1>3, <2>1, <2>2, <3>1, <3>2, <3>3 DEF OnCoarsest
    <3> QED
      BY <2>1, <2>2, <2>6, <3>4 DEF Levels, Down, Coarse, InF
  <2> QED
    BY <2>5, <2>6
<1> QED
  BY <1>5, <1>6, <1>7, <1>8, <1>9

LEMMA LevelsStep ==
  ASSUME Shapes, Control, Levels, Next
  PROVE  Levels'
<1>0. /\ finest_amr_lev \in Nat /\ Lev = 0..finest_amr_lev /\ nmg \in Layouts
      /\ \A k \in Lev : 0 \in 0..Bottom(k) /\ Bottom(k) \in Nat
      /\ 0 \in Lev
  BY LevIs DEF Shapes, Problem
<1>1. Grid(res) /\ Grid(cor_hold) /\ Grids /\ Problem
  BY DEF Shapes, Grids
<1>2. UNCHANGED nmg
  BY ProblemStays
<1>3. \A k \in 1..finest_amr_lev : k \in Lev /\ k # 0
  BY <1>0
<1> HIDE DEF Lev, finest_amr_lev, Bottom, sol
<1>4. CASE stage' \in {"idle", "start", "post", "sync"}
  BY <1>4 DEF Levels, Down, Coarse, InF
<1>5. CASE miniCycleDown
  <2>1. /\ stage = "mini_down" /\ stage' = "after_down" /\ phase' = "v_down" /\ call' = "after_down"
        /\ UNCHANGED <<alev, store, target, at_start, res, cor_hold>>
    BY <1>5 DEF miniCycleDown, StartV, stage, InV, memory, data
  <2>2. GoingDown
    BY <2>1 DEF Levels, Down
  <2>3. stage' \in Down
    BY <2>1 DEF Down
  <2>4. sol' = sol /\ finest_amr_lev' = finest_amr_lev
    BY <1>2, <2>1, SolStays, SameProblem
  <2>5. GoingDown'
    <3>1. alev \in 1..finest_amr_lev
      BY <2>1 DEF Control, Down
    <3>2. Present(alev)'
      BY <2>1, <2>2, <2>4 DEF GoingDown, Present
    <3>3. \A k \in alev+1..finest_amr_lev : Between(k)'
      BY <2>1, <2>2, <2>4 DEF GoingDown, Between
    <3> QED
      BY <2>1, <2>2, <2>4, <3>2, <3>3 DEF GoingDown
  <2> QED
    BY <2>1, <2>5 DEF Levels, Down, Coarse, InF
<1>6. CASE coarseV
  <2>1. /\ stage = "coarse" /\ stage' = "after_coarse" /\ phase = "coarse"
        /\ UNCHANGED <<alev, store, target, at_start, res, cor_hold>>
    BY <1>6 DEF coarseV, StartV, stage, InV, memory, data
  <2> QED
    BY <1>2, <2>1, CycleKeepsLevels DEF Down, Coarse, InF
<1>7. CASE VDown \/ VBottom \/ VUp
  <2>1. /\ InV /\ stage = call /\ stage' = call /\ UNCHANGED alev
        /\ alev \in Lev /\ top \in 0..Bottom(alev) /\ mglev \in top..Bottom(alev)
        /\ \A k \in Lev : \A j \in 0..Bottom(k) : ~(k = alev /\ j = mglev + 1) => res'[k][j] = res[k][j]
    BY <1>7, VSteps
  <2>2. UNCHANGED <<store, target, at_start, cor_hold, call>>
    BY <1>7 DEF VDown, VBottom, VUp, memory
  <2>3. \A k \in Lev : res'[k][0] = res[k][0] /\ cor_hold'[k][0] = cor_hold[k][0]
    <3>1. 0 # mglev + 1
      BY <1>0, <2>1
    <3> QED
      BY <1>0, <2>1, <2>2, <3>1
  <2>4. call \in Calls
    BY <2>1 DEF Control
  <2>5. stage \in Down \cup Coarse \cup InF \cup {"after_up"}
    BY <2>1, <2>4 DEF Down, Coarse, InF, Calls
  <2>6. phase' # "coarse"
    BY <1>7, <2>4 DEF VDown, VBottom, VUp, Calls
  <2>7. stage' = stage /\ (InV' /\ call' = "after_coarse" => InV /\ call = "after_coarse")
    BY <2>1, <2>2
  <2> QED
    BY <1>0, <1>2, <2>1, <2>2, <2>3, <2>5, <2>6, <2>7, CycleKeepsLevels
<1>8. CASE mgFcycle
  <2>1. PICK f : res' = [res EXCEPT ![0] = f]
    BY <1>1, <1>8, AveragedDown
  <2>2. \A k \in 1..finest_amr_lev : res'[k][0] = res[k][0]
    BY <1>3, <1>0, <1>1, <2>1 DEF Grid
  <2>3. /\ stage = "coarse" /\ stage' \in {"f_level", "after_coarse"} /\ phase' # "coarse" /\ ~InV'
        /\ UNCHANGED <<alev, store, target, at_start, cor_hold>>
    BY <1>8 DEF mgFcycle, stage, InV, memory
  <2> QED
    BY <1>2, <2>2, <2>3, CycleKeepsLevels DEF Down, Coarse, InF
<1>9. CASE FLevel
  <2>1. /\ stage = "f_level" /\ stage' = "after_f" /\ phase' # "coarse" /\ call' # "after_coarse"
        /\ UNCHANGED <<alev, store, target, at_start>>
    BY <1>9 DEF FLevel, StartV, stage, InV, memory
  <2>2. mglev \in 0..Bottom(0)
    BY <1>0, <2>1 DEF Control
  <2>3. \E v, w : /\ res' = [res EXCEPT ![0][mglev] = v]
                  /\ cor_hold' = [cor_hold EXCEPT ![0][mglev] = w]
    BY <1>9 DEF FLevel
  <2>4. PICK v, w : /\ res' = [res EXCEPT ![0][mglev] = v]
                    /\ cor_hold' = [cor_hold EXCEPT ![0][mglev] = w]
    BY <2>3
  <2>5. \A k \in Lev : k # 0 => res'[k] = res[k]
    BY <1>0, <1>1, <2>2, <2>4, PutIn
  <2>6. \A k \in Lev : k # 0 => cor_hold'[k] = cor_hold[k]
    BY <1>0, <1>1, <2>2, <2>4, PutIn
  <2>7. \A k \in 1..finest_amr_lev : res'[k][0] = res[k][0] /\ cor_hold'[k][0] = cor_hold[k][0]
    BY <1>3, <2>5, <2>6
  <2> QED
    BY <1>2, <2>1, <2>7, CycleKeepsLevels DEF Down, Coarse, InF
<1>10. CASE AfterFLevel
  <2>1. /\ stage = "after_f" /\ stage' \in {"f_level", "after_coarse"} /\ phase' # "coarse" /\ ~InV'
        /\ UNCHANGED <<alev, store, target, at_start, res, cor_hold>>
    BY <1>10 DEF AfterFLevel, stage, InV, memory
  <2> QED
    BY <1>2, <2>1, CycleKeepsLevels DEF Down, Coarse, InF
<1>11. \/ stage' \in {"idle", "start", "post", "sync"}
       \/ FirstResidual \/ oneIter \/ EndIter \/ TestCoarse \/ Again
       \/ miniCycleDown \/ AfterDown \/ coarseV \/ AfterCoarse \/ miniCycleUp \/ AfterUp
       \/ VDown \/ VBottom \/ VUp \/ mgFcycle \/ FLevel \/ AfterFLevel
  BY DEF Next, Cycle, solve, precond, StartSolve, compResidual, Throw, Return, control, stage, InV
<1> QED
  BY <1>4, <1>5, <1>6, <1>7, <1>8, <1>9, <1>10, <1>11, IterationLevels, AfterDownLevels,
     AfterCoarseLevels, MiniCycleUpLevels, AfterUpLevels

-----------------------------------------------------------------------------
(* The theorems about the residuals.                                       *)

CycleInv == Shapes /\ Control /\ Descent /\ FCycle /\ Levels

LEMMA CycleInvInit == Init => CycleInv
<1> SUFFICES ASSUME Init PROVE CycleInv
  OBVIOUS
<1>1. phase = "idle"
  BY DEF Init
<1>2. Descent /\ FCycle /\ Levels
  BY <1>1 DEF Descent, FCycle, Levels, stage, InV, InF, Down, Coarse
<1> QED
  BY <1>2, ShapesInit, ControlInit DEF CycleInv

LEMMA CycleInvStep == CycleInv /\ [Next]_vars => CycleInv'
<1>1. CASE CycleInv /\ Next
  <2>1. stage = "coarse" => Present(0)
    BY <1>1 DEF CycleInv, Levels, Coarse, OnCoarsest, stage, InV, Calls, Control
  <2>2. Problem
    BY <1>1 DEF CycleInv, Shapes
  <2> QED
    BY <1>1, <2>1, <2>2, ShapesStep, ControlStep, DescentStep, FCycleStep, LevelsStep DEF CycleInv
<1>2. CASE CycleInv /\ UNCHANGED vars
  <2>1. /\ UNCHANGED <<nmg, use, phase, alev, mglev, top, call, store, target, res, cor, cor_hold>>
        /\ UNCHANGED <<before, made, at_start>>
    BY <1>2 DEF vars, config, control, user, memory, data
  <2> QED
    BY <1>2, <2>1 DEF CycleInv, Shapes, Problem, Grids, Arrays, Grid, AllBags, AllRes, Multi, Lev,
       Bottom, finest_amr_lev, Control, Descent, FCycle, FMade, Levels, Before, GoingDown,
       OnCoarsest, Interpolating, GoingUp, Present, Between, sol, stage, InV
<1> QED
  BY <1>1, <1>2

LEMMA CycleInvAlways == Spec => []CycleInv
BY CycleInvInit, CycleInvStep, PTL DEF Spec

\* Every cycle, on whatever levels and for however many iterations, starts from the residual of the
\* solution as it is at that moment, the coarse boundary values and the fine level included.
THEOREM ResidualsTrue == Spec => []ResidualTrue
<1>1. CycleInv => ResidualTrue
  <2> SUFFICES ASSUME CycleInv, phase = "v_down", mglev = top
               PROVE  LET r == res[alev][top]
                      IN  IF call = "after_f"
                          THEN r.own = IF top = 0 THEN sol[0] (+) cor_hold[0][0]
                                                  ELSE cor_hold[0][top]
                          ELSE /\ r.own = sol[alev]
                               /\ alev > 0 => r.bc = sol[alev-1]
                               /\ alev < finest_amr_lev =>
                                     r.fine = <<sol[alev+1], <<sol[alev+1], at_start[alev]>> >>
    BY DEF ResidualTrue
  <2> HIDE DEF sol, finest_amr_lev
  <2>1. InV /\ stage = call /\ call \in Calls /\ (call # "after_f" => top = 0)
    BY DEF CycleInv, Control, InV, stage
  <2>2. CASE call = "after_f"
    <3>1. alev = 0
      BY <2>1, <2>2 DEF CycleInv, Control, InF
    <3>2. res[0][top].own = IF top = 0 THEN sol[0] (+) cor_hold[0][0] ELSE cor_hold[0][top]
      BY <2>1, <2>2 DEF CycleInv, FCycle
    <3> QED
      BY <2>2, <3>1, <3>2
  <2>3. ASSUME call # "after_f", Present(alev)
        PROVE  /\ res[alev][top].own = sol[alev]
               /\ alev > 0 => res[alev][top].bc = sol[alev-1]
               /\ alev < finest_amr_lev =>
                     res[alev][top].fine = <<sol[alev+1], <<sol[alev+1], at_start[alev]>> >>
    BY <2>1, <2>3 DEF Present
  <2>4. CASE call = "after_down"
    BY <2>1, <2>3, <2>4 DEF CycleInv, Levels, GoingDown, Down
  <2>5. CASE call = "after_up"
    BY <2>1, <2>3, <2>5 DEF CycleInv, Levels, GoingUp
  <2>6. CASE call = "after_coarse"
    <3>1. alev = 0 /\ Present(0)
      BY <2>1, <2>6 DEF CycleInv, Control, Levels, OnCoarsest, Coarse
    <3> QED
      BY <2>3, <2>6, <3>1
  <2> QED
    BY <2>1, <2>2, <2>3, <2>4, <2>5, <2>6 DEF Calls
<1> QED
  BY <1>1, CycleInvAlways, PTL

\* Whenever a correction is interpolated, between multigrid levels or between AMR levels, it is the
\* whole one: nothing that was smoothed, solved for or held on the way has been left out.
THEOREM CorrectionsWhole == Spec => []CorrectionWhole
<1>1. CycleInv => CorrectionWhole
  <2> SUFFICES ASSUME CycleInv PROVE CorrectionWhole
    OBVIOUS
  <2>0. /\ finest_amr_lev \in Nat /\ Lev = 0..finest_amr_lev
        /\ \A k \in Lev : Bottom(k) \in Nat
    BY LevIs DEF CycleInv, Shapes, Problem
  <2>1. phase = "v_up" =>
           /\ res[alev][mglev+1].of = <<res[alev][mglev].id, res[alev][mglev].own, cor[alev][mglev]>>
           /\ res[alev][mglev+1].own \sqsubseteq cor[alev][mglev+1]
    <3> SUFFICES ASSUME phase = "v_up"
                 PROVE  /\ res[alev][mglev+1].of =
                             <<res[alev][mglev].id, res[alev][mglev].own, cor[alev][mglev]>>
                        /\ res[alev][mglev+1].own \sqsubseteq cor[alev][mglev+1]
      OBVIOUS
    <3>1. /\ InV /\ stage = call /\ call \in Calls
          /\ top \in 0..Bottom(alev) /\ mglev \in top..Bottom(alev) /\ mglev < Bottom(alev)
      BY DEF CycleInv, Control, InV, stage
    <3>2. alev \in Lev
      BY <2>0, <3>1 DEF CycleInv, Control, Calls, Down, Up, Coarse, InF
    <3> HIDE DEF Lev, Bottom, finest_amr_lev
    <3>3. /\ Bottom(alev) \in Nat
      BY <2>0, <3>2
    <3>4. mglev \in top..mglev /\ mglev + 1 \in 0..Bottom(alev)
      BY <3>1, <3>3
    <3>5. /\ res[alev][mglev+1].of =
                <<res[alev][mglev].id, res[alev][mglev].own, cor[alev][mglev]>>
          /\ res[alev][mglev+1].own = EmptyBag
      BY <3>1, <3>4 DEF CycleInv, Descent
    <3>6. IsABag(cor[alev][mglev+1])
      BY <3>2, <3>4 DEF CycleInv, Shapes, Grids, AllBags
    <3> QED
      BY <3>5, <3>6, EmptyIsLeast
  <2>2. phase = "f_level" =>
           /\ res[0][mglev+1].of = <<res[0][mglev].id, res[0][mglev].own, EmptyBag>>
           /\ res[0][mglev+1].own \sqsubseteq cor[0][mglev+1]
    <3> SUFFICES ASSUME phase = "f_level"
                 PROVE  /\ res[0][mglev+1].of = <<res[0][mglev].id, res[0][mglev].own, EmptyBag>>
                        /\ res[0][mglev+1].own \sqsubseteq cor[0][mglev+1]
      OBVIOUS
    <3>1. stage = "f_level" /\ stage \in InF /\ mglev \in 0..Bottom(0)-1
      BY DEF CycleInv, Control, InV, stage, InF
    <3> HIDE DEF Lev, Bottom, finest_amr_lev, stage
    <3>2. Bottom(0) \in Nat
      BY <2>0
    <3>3. mglev \in 0..FMade
      BY <3>1, <3>2 DEF FMade
    <3> QED
      BY <3>1, <3>3 DEF CycleInv, FCycle
  <2>3. phase = "mini_up" => sol[alev-1] = at_start[alev-1] (+) cor[alev-1][0]
    BY DEF CycleInv, Levels, Interpolating, stage, InV
  <2> QED
    BY <2>1, <2>2, <2>3 DEF CorrectionWhole
<1> QED
  BY <1>1, CycleInvAlways, PTL

-----------------------------------------------------------------------------
(* What solve returns.                                                     *)

\* Either all arrays given to solve have one ghost cell, or none has and compResidual is not
\* called.  Finding 2 is what happens otherwise.
OneKind ==
  \A u \in Uses : \/ \A a \in u.solve : u.ghosts[a] = 1
                  \/ u.residual = {} /\ \A a \in u.solve : u.ghosts[a] # 1

LEMMA AliasStep ==
  ASSUME OneKind, Problem, AliasOK, Next
  PROVE  AliasOK'
<1>1. UNCHANGED use
  BY ProblemStays
<1>2. \/ \A a \in use.solve : use.ghosts[a] = 1
      \/ use.residual = {} /\ \A a \in use.solve : use.ghosts[a] # 1
  BY DEF OneKind, Problem
<1>3. CASE \A a \in use.solve : use.ghosts[a] = 1
  BY <1>1, <1>3 DEF AliasOK
<1>4. CASE UNCHANGED sol_is_alias
  BY <1>1, <1>4 DEF AliasOK
<1>5. CASE use.residual = {} /\ (\A a \in use.solve : use.ghosts[a] # 1) /\ sol_is_alias' # sol_is_alias
  <2>1. PICK a \in use.solve : StartSolve(a)
    BY <1>5 DEF Next, Cycle, solve, precond, memory, FirstResidual, oneIter, miniCycleDown,
         AfterDown, AddToSol, coarseV, AfterCoarse, miniCycleUp, AfterUp, EndIter, TestCoarse, Again,
         Throw, Return, VDown, VBottom, VUp, mgFcycle, FLevel, AfterFLevel
  <2>2. sol_is_alias' \in {sol_is_alias, "no"}
    BY <1>5, <2>1 DEF StartSolve, prepareForSolve
  <2> QED
    BY <1>1, <1>5, <2>2 DEF AliasOK
<1> QED
  BY <1>2, <1>3, <1>4, <1>5

\* The steps of a call that are not its beginning nor its end.
Inside ==
  \/ FirstResidual \/ oneIter \/ miniCycleDown \/ AfterDown \/ coarseV \/ AfterCoarse
  \/ miniCycleUp \/ AfterUp \/ EndIter \/ TestCoarse \/ Again \/ Cycle

LEMMA InsideFrame ==
  ASSUME Control, Inside
  PROVE  /\ phase # "idle" /\ phase' # "idle"
         /\ UNCHANGED <<arg, mode, before, thrown, outcome, target, sol_is_alias, flags>>
<1>1. CASE Cycle
  <2>1. phase' # "idle" /\ phase # "idle"
    BY <1>1 DEF Cycle, VDown, VBottom, VUp, mgFcycle, FLevel, AfterFLevel, StartV, Control, InV, Calls
  <2>2. UNCHANGED <<user, memory, flags>>
    BY <1>1 DEF Cycle, VDown, VBottom, VUp, mgFcycle, FLevel, AfterFLevel
  <2> QED
    BY <2>1, <2>2 DEF user, memory
<1>2. CASE Inside /\ ~Cycle
  <2>1. phase' # "idle" /\ phase # "idle"
    BY <1>2 DEF Inside, FirstResidual, oneIter, miniCycleDown, AfterDown, coarseV, AfterCoarse,
         miniCycleUp, AfterUp, EndIter, TestCoarse, Again, StartV
  <2>2. UNCHANGED <<user, target, sol_is_alias, flags>>
    BY <1>2 DEF Inside, FirstResidual, oneIter, miniCycleDown, AfterDown, coarseV, AfterCoarse,
         miniCycleUp, AfterUp, EndIter, TestCoarse, Again, AddToSol, memory
  <2> QED
    BY <2>1, <2>2 DEF user
<1> QED
  BY <1>1, <1>2

\* Corrections are added to the solution and to what has been made alike.
LEMMA InsideInSolve ==
  ASSUME Shapes, Control, InSolve, Inside
  PROVE  InSolve'
<1>0. /\ finest_amr_lev \in Nat /\ Lev = 0..finest_amr_lev /\ 0 \in Lev
      /\ \A k \in Lev : 0 \in 0..Bottom(k) /\ use \in Uses
  BY LevIs DEF Shapes, Problem
<1> HIDE DEF Lev, finest_amr_lev, Bottom, sol
<1>1. UNCHANGED <<nmg, use>>
  BY ProblemStays DEF Inside, Next
<1>2. Lev' = Lev
  BY <1>1, SameProblem
<1>3. phase # "idle" /\ UNCHANGED <<arg, mode, before, target, sol_is_alias>>
  BY InsideFrame
<1>4. /\ arg \in use.solve /\ arg \in DOMAIN store
      /\ \A a \in DOMAIN store : Multi(before[a])
      /\ DOMAIN before = DOMAIN store
  <2>1. arg \in use.solve
    BY <1>3 DEF InSolve
  <2>2. /\ DOMAIN store = DOMAIN use.ghosts \cup {Own} /\ DOMAIN before = DOMAIN store
        /\ \A a \in DOMAIN store : Multi(before[a])
    BY DEF Shapes, Arrays
  <2> QED
    BY <1>0, <2>1, <2>2, ProblemAssumption
<1>5. \A a \in DOMAIN store \ {arg, Own} : a # target
  BY <1>3 DEF InSolve
<1>6. ASSUME NEW l \in Lev, NEW b, IsABag(b), Adds(l, b)
      PROVE  InSolve'
  <2>1. Arrays
    BY DEF Shapes
  <2>2. /\ sol'[l] = sol[l] (+) b /\ \A k \in Lev : k # l => sol'[k] = sol[k]
        /\ made'[l] = made[l] (+) b /\ \A k \in Lev : k # l => made'[k] = made[k]
        /\ DOMAIN store' = DOMAIN store /\ \A a \in DOMAIN store : a # target => store'[a] = store[a]
    BY <1>6, <2>1, SolAdded DEF Adds
  <2>3. IsABag(before[arg][l]) /\ IsABag(made[l])
    BY <1>4, AreBags DEF Multi
  <2>4. (before[arg][l] (+) made[l]) (+) b = before[arg][l] (+) (made[l] (+) b)
    BY <1>6, <2>3, PlusAssoc
  <2>5. \A k \in Lev : sol'[k] = before[arg][k] (+) made'[k]
    BY <1>3, <2>2, <2>4 DEF InSolve
  <2>6. \A a \in DOMAIN store \ {arg, Own} : store'[a] = before[a]
    BY <1>3, <1>5, <2>2 DEF InSolve
  <2> QED
    BY <1>1, <1>2, <1>3, <2>2, <2>5, <2>6 DEF InSolve
<1>7. CASE UNCHANGED <<store, made>>
  <2>1. sol' = sol
    BY <1>3, <1>7, SolStays
  <2> QED
    BY <1>1, <1>2, <1>3, <1>7, <2>1 DEF InSolve
<1>8. CASE AfterDown \/ AfterUp
  <2>1. alev \in Lev
    BY <1>0, <1>8 DEF AfterDown, AfterUp, Control, stage, InV, Down, Up
  <2> QED
    BY <1>0, <1>6, <1>8, <2>1, AreBags, AddsWhat
<1>9. CASE AfterCoarse
  BY <1>0, <1>6, <1>9, AreBags, AddsWhat
<1>10. CASE miniCycleUp
  <2>1. alev \in Lev
    BY <1>0, <1>10 DEF miniCycleUp, Control, stage, InV, Up
  <2> QED
    BY <1>6, <1>10, <2>1, SetIsBag, AddsWhat DEF Atom
<1>11. \/ UNCHANGED <<store, made>> \/ AfterDown \/ AfterUp \/ AfterCoarse \/ miniCycleUp
  BY DEF Inside, Cycle, memory, FirstResidual, oneIter, miniCycleDown, coarseV, EndIter, TestCoarse,
         Again, VDown, VBottom, VUp, mgFcycle, FLevel, AfterFLevel
<1> QED
  BY <1>7, <1>8, <1>9, <1>10, <1>11

LEMMA StartInSolve ==
  ASSUME OneKind, Shapes, AliasOK, NEW a \in use.solve, solve(a) \/ precond(a)
  PROVE  InSolve'
<1>0. use \in Uses /\ Lev # {}
  BY LevIs DEF Shapes, Problem
<1> HIDE DEF Lev, finest_amr_lev, Bottom
<1>1. StartSolve(a) /\ mode' \in {"solve", "precond"}
  BY DEF solve, precond
<1>2. /\ UNCHANGED <<nmg, use>> /\ arg' = a /\ before' = store /\ made' = Nothing
      /\ prepareForSolve(a)
  BY <1>1 DEF StartSolve, config
<1>3. Lev' = Lev
  BY <1>2, SameProblem
<1>4. /\ a \in DOMAIN store /\ Own \in DOMAIN store /\ a # Own
      /\ \A b \in DOMAIN store : Multi(store[b])
  BY <1>0, ProblemAssumption DEF Shapes, Arrays
<1>5. \A l \in Lev : Nothing[l] = EmptyBag
  BY DEF Nothing
<1>6. \A l \in Lev : store[a][l] (+) EmptyBag = store[a][l]
  BY <1>4, PlusEmpty DEF Multi
<1>7. CASE use.ghosts[a] = 1
  <2>1. target' = a /\ sol_is_alias' = "yes" /\ store' = store
    BY <1>2, <1>7 DEF prepareForSolve
  <2>2. \A l \in Lev : sol'[l] = before'[a][l] (+) made'[l]
    BY <1>2, <1>5, <1>6, <2>1 DEF sol
  <2> QED
    BY <1>1, <1>2, <1>3, <2>1, <2>2 DEF InSolve
<1>8. CASE use.ghosts[a] # 1
  <2>1. sol_is_alias # "yes"
    BY <1>8 DEF AliasOK
  <2>2. target' = Own /\ sol_is_alias' = "no" /\ store' = [store EXCEPT ![Own] = store[a]]
    BY <1>2, <1>8, <2>1 DEF prepareForSolve
  <2>3. /\ store'[Own] = store[a] /\ DOMAIN store' = DOMAIN store
        /\ \A b \in DOMAIN store : b # Own => store'[b] = store[b]
    BY <1>4, <2>2
  <2>4. \A l \in Lev : sol'[l] = before'[a][l] (+) made'[l]
    BY <1>2, <1>5, <1>6, <2>2, <2>3 DEF sol
  <2> QED
    BY <1>1, <1>2, <1>3, <2>2, <2>3, <2>4 DEF InSolve
<1> QED
  BY <1>7, <1>8

LEMMA InSolveStep ==
  ASSUME OneKind, Shapes, Control, AliasOK, InSolve, Next
  PROVE  InSolve'
<1>1. CASE phase' = "idle"
  BY <1>1 DEF InSolve
<1>2. CASE \E a \in use.solve : solve(a) \/ precond(a)
  BY <1>2, StartInSolve
<1>3. CASE Inside
  BY <1>3, InsideInSolve
<1>4. phase' = "idle" \/ (\E a \in use.solve : solve(a) \/ precond(a)) \/ Inside
  BY DEF Next, Inside, compResidual, Throw, Return, control
<1> QED
  BY <1>1, <1>2, <1>3, <1>4

LEMMA SyncedStep ==
  ASSUME Control, Synced, Next
  PROVE  Synced'
<1>1. CASE \E a \in use.solve : solve(a) \/ precond(a)
  BY <1>1 DEF solve, precond, StartSolve, prepareForSolve, Synced
<1>2. CASE Cycle
  BY <1>2 DEF Cycle, VDown, VBottom, VUp, mgFcycle, FLevel, AfterFLevel, StartV, Synced, Control, InV,
       Calls
<1>3. CASE ~Cycle /\ ~(\E a \in use.solve : solve(a) \/ precond(a))
  BY <1>3 DEF Next, Synced, compResidual, FirstResidual, oneIter, miniCycleDown, AfterDown, AddToSol,
       coarseV, AfterCoarse, miniCycleUp, AfterUp, EndIter, TestCoarse, Again, Throw, Return, StartV,
       control, memory
<1> QED
  BY <1>1, <1>2, <1>3

LEMMA FlagsStep ==
  ASSUME Control, Flags, InSolve, Next
  PROVE  Flags'
<1>0. do_no_sync_gpu \in BOOLEAN
  BY ProblemAssumption
<1>1. CASE Inside
  <2>1. phase # "idle" /\ phase' # "idle" /\ UNCHANGED <<mode, thrown, flags>>
    BY <1>1, InsideFrame
  <2>2. UNCHANGED <<precond_mode, swapped, bndry_zero, regions, prev_regions>>
    BY <2>1 DEF flags
  <2> QED
    BY <2>1, <2>2 DEF Flags
<1>2. CASE \E a \in use.solve : solve(a)
  <2>1. /\ phase = "idle" /\ phase' = "start" /\ mode' = "solve" /\ UNCHANGED thrown
        /\ UNCHANGED <<precond_mode, swapped, bndry_zero>>
        /\ prev_regions' = (do_no_sync_gpu /\ regions) /\ regions' = (do_no_sync_gpu \/ regions)
    BY <1>2 DEF solve, StartSolve
  <2> QED
    BY <1>0, <2>1 DEF Flags
<1>3. CASE \E a \in use.solve : precond(a)
  <2>1. /\ phase = "idle" /\ phase' = "start" /\ mode' = "precond" /\ UNCHANGED thrown
        /\ precond_mode' = TRUE /\ swapped' = ~swapped /\ bndry_zero' = ~bndry_zero
        /\ prev_regions' = (do_no_sync_gpu /\ regions) /\ regions' = (do_no_sync_gpu \/ regions)
    BY <1>3 DEF precond, StartSolve
  <2> QED
    BY <1>0, <2>1 DEF Flags
<1>4. CASE \E a \in use.residual : compResidual(a)
  <2>1. /\ phase = "idle" /\ phase' = "idle" /\ UNCHANGED thrown
        /\ UNCHANGED <<precond_mode, swapped, bndry_zero, regions, prev_regions>>
    BY <1>4 DEF compResidual, control, flags
  <2> QED
    BY <2>1 DEF Flags
<1>5. CASE Throw
  <2>1. /\ thrown' = TRUE
        /\ UNCHANGED <<precond_mode, swapped, bndry_zero, regions, prev_regions>>
    BY <1>5 DEF Throw, flags
  <2> QED
    BY <2>1 DEF Flags
<1>6. CASE Return
  <2>1. /\ phase = "post" /\ phase' = "idle" /\ UNCHANGED <<thrown, prev_regions>>
        /\ regions' = IF do_no_sync_gpu THEN prev_regions ELSE regions
        /\ IF mode = "precond"
           THEN bndry_zero' = ~bndry_zero /\ swapped' = ~swapped /\ precond_mode' = FALSE
           ELSE UNCHANGED <<bndry_zero, swapped, precond_mode>>
    BY <1>6 DEF Return
  <2> QED
    BY <1>0, <2>1 DEF Flags
<1> QED
  BY <1>1, <1>2, <1>3, <1>4, <1>5, <1>6 DEF Next, Inside

LEMMA AnswerStep ==
  ASSUME Shapes, Control, InSolve, Synced, Answer, Next
  PROVE  Answer'
<1>1. CASE Return
  <2>0. use \in Uses
    BY DEF Shapes, Problem
  <2>1. phase = "post" /\ UNCHANGED <<nmg, arg, before, made, synced>> /\ store' = CopyBack
    BY <1>1 DEF Return, config
  <2>2. /\ arg \in use.solve /\ synced
        /\ \/ sol_is_alias = "yes" /\ target = arg
           \/ sol_is_alias = "no" /\ target = Own
        /\ \A l \in Lev : sol[l] = before[arg][l] (+) made[l]
        /\ \A a \in DOMAIN store \ {arg, Own} : store[a] = before[a]
    BY <2>1 DEF InSolve, Synced
  <2>3. arg \in DOMAIN store
    BY <2>0, <2>2, ProblemAssumption DEF Shapes, Arrays
  <2>4. Lev' = Lev
    BY <2>1, SameProblem
  <2> HIDE DEF Lev
  <2>5. CASE sol_is_alias = "yes" /\ target = arg
    <3>1. store' = store /\ sol = store[arg]
      BY <2>1, <2>5 DEF CopyBack, sol
    <3> QED
      BY <2>1, <2>2, <2>4, <3>1 DEF Answer
  <2>6. CASE sol_is_alias = "no" /\ target = Own
    <3>1. store' = [store EXCEPT ![arg] = sol]
      BY <2>1, <2>6 DEF CopyBack
    <3>2. /\ store'[arg] = sol /\ DOMAIN store' = DOMAIN store
          /\ \A a \in DOMAIN store : a # arg => store'[a] = store[a]
      BY <2>3, <3>1
    <3> QED
      BY <2>1, <2>2, <2>4, <3>2 DEF Answer
  <2> QED
    BY <2>2, <2>5, <2>6
<1>2. CASE ~Return
  <2>1. phase' = "idle" => outcome' # "returned"
    <3>1. CASE Inside
      BY <3>1, InsideFrame
    <3>2. CASE \E a \in use.solve : solve(a) \/ precond(a)
      BY <3>2 DEF solve, precond, StartSolve
    <3>3. CASE \E a \in use.residual : compResidual(a)
      BY <3>3 DEF compResidual
    <3>4. CASE Throw
      BY <3>4 DEF Throw
    <3> QED
      BY <1>2, <3>1, <3>2, <3>3, <3>4 DEF Next, Inside
  <2> QED
    BY <2>1 DEF Answer
<1> QED
  BY <1>1, <1>2

AnswerInv == CycleInv /\ AliasOK /\ InSolve /\ Flags /\ Synced /\ Answer

LEMMA AnswerInvInit == Init => AnswerInv
<1> SUFFICES ASSUME Init PROVE AnswerInv
  OBVIOUS
<1>1. phase = "idle" /\ sol_is_alias = "unset" /\ outcome = "none"
  BY DEF Init
<1>2. /\ ~precond_mode /\ ~swapped /\ ~bndry_zero /\ ~regions /\ ~prev_regions /\ ~thrown
      /\ precond_mode \in BOOLEAN /\ swapped \in BOOLEAN /\ bndry_zero \in BOOLEAN
      /\ regions \in BOOLEAN /\ prev_regions \in BOOLEAN /\ thrown \in BOOLEAN
  BY DEF Init
<1>3. AliasOK /\ InSolve /\ Synced /\ Answer
  BY <1>1 DEF AliasOK, InSolve, Synced, Answer
<1>4. Flags
  BY <1>1, <1>2 DEF Flags
<1> QED
  BY <1>3, <1>4, CycleInvInit DEF AnswerInv

LEMMA AnswerInvStep ==
  ASSUME OneKind, AnswerInv, [Next]_vars
  PROVE  AnswerInv'
<1>0. CycleInv'
  BY CycleInvStep DEF AnswerInv
<1>1. CASE Next
  <2>1. Shapes /\ Problem /\ Control
    BY DEF AnswerInv, CycleInv, Shapes
  <2> QED
    BY <1>0, <1>1, <2>1, AliasStep, InSolveStep, FlagsStep, SyncedStep, AnswerStep DEF AnswerInv
<1>2. CASE UNCHANGED vars
  <2>1. /\ UNCHANGED <<nmg, use, phase, store, target, sol_is_alias, arg, mode, before, made>>
        /\ UNCHANGED <<synced, thrown, outcome>>
    BY <1>2 DEF vars, config, control, user, memory
  <2>2. UNCHANGED <<precond_mode, swapped, bndry_zero, regions, prev_regions>>
    BY <1>2 DEF vars, flags
  <2>3. AliasOK' /\ InSolve' /\ Synced' /\ Answer'
    BY <2>1 DEF AnswerInv, AliasOK, InSolve, Synced, Answer, sol, Lev
  <2>4. Flags'
    BY <2>1, <2>2 DEF AnswerInv, Flags
  <2> QED
    BY <1>0, <2>3, <2>4 DEF AnswerInv
<1> QED
  BY <1>1, <1>2

\* However often, in whatever mode and on whatever arrays of one kind solve, precond and
\* compResidual are called, what a call of solve or precond returns is the initial guess plus all
\* corrections made, in its own argument and in no other array; and unless a call has thrown, the
\* solver is left in the state in which it was entered.
THEOREM SolutionAlwaysReturned ==
  ASSUME OneKind
  PROVE  Spec => []SolutionReturned
<1>1. AnswerInv => SolutionReturned
  BY DEF AnswerInv, Answer, Flags, SolutionReturned
<1>2. AnswerInv /\ [Next]_vars => AnswerInv'
  BY AnswerInvStep
<1> QED
  BY <1>1, <1>2, AnswerInvInit, PTL DEF Spec

-----------------------------------------------------------------------------
(* The colours of the operator                                             *)

\* Nodes of a domain whose indices start at zero or above.
NatNode == {a \in Op!Node : \A d \in Op!Dirs : a[d] >= 0}

LEMMA StepType ==
    ASSUME NEW a \in Op!Node, NEW d \in Op!Dirs, NEW s \in Int
    PROVE  /\ Op!Step(a, d, s) \in Op!Node
           /\ \A q \in Op!Dirs : Op!Step(a, d, s)[q] = IF q = d THEN a[q] + s ELSE a[q]
BY DEF Op!Step, Op!Node, Op!Dirs

\* Without negative indices, C++'s remainder is the parity.
LEMMA ColorIsParity ==
    ASSUME NEW a \in NatNode
    PROVE  Op!my_color(a) = IF a[3] % 2 # 0 THEN 3 - ((a[1] % 2) + 2 * (a[2] % 2))
                                            ELSE (a[1] % 2) + 2 * (a[2] % 2)
BY DEF Op!my_color, Op!Rem2, NatNode, Op!Node, Op!Dirs

\* Of two nodes of the same colour, either all three indices differ by an
\* even number or all three by an odd one.
LEMMA SameColorParity ==
    ASSUME NEW a \in NatNode, NEW b \in NatNode, Op!my_color(a) = Op!my_color(b)
    PROVE  \/ \A d \in Op!Dirs : a[d] % 2 = b[d] % 2
           \/ \A d \in Op!Dirs : a[d] % 2 # b[d] % 2
<1>1. \A d \in Op!Dirs : /\ a[d] \in Nat /\ b[d] \in Nat
                         /\ a[d] % 2 \in {0, 1} /\ b[d] % 2 \in {0, 1}
  BY DEF NatNode, Op!Node, Op!Dirs
<1>2. /\ a[1] % 2 \in {0, 1} /\ a[2] % 2 \in {0, 1} /\ a[3] % 2 \in {0, 1}
      /\ b[1] % 2 \in {0, 1} /\ b[2] % 2 \in {0, 1} /\ b[3] % 2 \in {0, 1}
  BY <1>1 DEF Op!Dirs
<1>3. \/ a[1] % 2 = b[1] % 2 /\ a[2] % 2 = b[2] % 2 /\ a[3] % 2 = b[3] % 2
      \/ a[1] % 2 # b[1] % 2 /\ a[2] % 2 # b[2] % 2 /\ a[3] % 2 # b[3] % 2
  BY <1>2, ColorIsParity
<1> QED
  BY <1>3 DEF Op!Dirs

\* An edge that node a writes has a at one of its two ends.
LEMMA WritesAtEnds ==
    ASSUME NEW a \in Op!Node, NEW e \in Op!Writes(a)
    PROVE  \E d \in Op!Dirs, s \in {-1, 0} :
              /\ e[1] = d
              /\ \A q \in Op!Dirs : e[2][q] = IF q = d THEN a[q] + s ELSE a[q]
<1>1. PICK d \in Op!Dirs, s \in {-1, 0} : e = <<d, Op!Step(a, d, s)>>
  BY DEF Op!Writes, Op!Half
<1>2. \A q \in Op!Dirs : Op!Step(a, d, s)[q] = IF q = d THEN a[q] + s ELSE a[q]
  BY StepType
<1> QED
  BY <1>1, <1>2

\* An edge that node b reads runs from one neighbour of b to another: with d
\* the direction of the edge, it is one step away from b in exactly one other
\* direction, and its ends are within one step of b in direction d.
LEMMA ReadsNearby ==
    ASSUME NEW b \in Op!Node, NEW sym, NEW e \in Op!Reads(b, sym)
    PROVE  \E d \in Op!Dirs :
              /\ e[1] = d
              /\ \E q \in Op!Others(d), s \in {-1, 0}, t \in {-1, 1} :
                       \A p \in Op!Dirs : e[2][p] = IF p = d THEN b[p] + s
                                                    ELSE IF p = q THEN b[p] + t
                                                    ELSE b[p]
<1>1. PICK h \in Op!Dirs \X {-1, 0} : e \in Op!Row(b, h[1], h[2])
  BY DEF Op!Reads
<1> DEFINE c == h[1]
           r == h[2]
           far == Op!Step(b, c, IF r = 0 THEN 1 ELSE -1)
<1>2. c \in Op!Dirs /\ r \in {-1, 0}
  BY <1>1
<1>3. CASE \E q \in Op!Others(c), t \in {-1, 1} : e = <<c, Op!Step(Op!Step(b, c, r), q, t)>>
  <2>1. PICK q \in Op!Others(c), t \in {-1, 1} : e = <<c, Op!Step(Op!Step(b, c, r), q, t)>>
    BY <1>3
  <2>2. Op!Step(b, c, r) \in Op!Node /\ q \in Op!Dirs /\ q # c
    BY <1>2, StepType DEF Op!Others
  <2>3. \A p \in Op!Dirs : e[2][p] = IF p = c THEN b[p] + r
                                     ELSE IF p = q THEN b[p] + t ELSE b[p]
    BY <1>2, <2>1, <2>2, StepType
  <2> QED
    BY <1>2, <2>1, <2>3
<1>4. PICK u \in {-1, 1} : far = Op!Step(b, c, u)
  OBVIOUS
<1>5. CASE \E q \in Op!Others(c), t \in {-1, 0} : e = <<q, Op!Step(Op!Step(b, c, u), q, t)>>
  <2>1. PICK q \in Op!Others(c), t \in {-1, 0} : e = <<q, Op!Step(Op!Step(b, c, u), q, t)>>
    BY <1>5
  <2>2. Op!Step(b, c, u) \in Op!Node /\ q \in Op!Dirs /\ q # c /\ c \in Op!Others(q)
    BY <1>2, StepType DEF Op!Others
  <2>3. \A p \in Op!Dirs : e[2][p] = IF p = q THEN b[p] + t
                                     ELSE IF p = c THEN b[p] + u ELSE b[p]
    BY <1>2, <2>1, <2>2, StepType
  <2> QED
    BY <2>1, <2>2, <2>3
<1> QED
  BY <1>1, <1>3, <1>4, <1>5 DEF Op!Row, Op!Half

\* Two threads of one colour of one launch never touch the same edge, unless
\* both only read it: what gs4 computes does not depend on the order in which
\* the threads of a launch run, for boxes of any size and any symmetric faces.
THEOREM ColorsIndependent ==
    ASSUME NEW a \in NatNode, NEW b \in NatNode, a # b,
           Op!my_color(a) = Op!my_color(b), NEW sym
    PROVE  Op!Writes(a) \cap (Op!Writes(b) \cup Op!Reads(b, sym)) = {}
<1> USE DEF NatNode
<1>1. \/ \A d \in Op!Dirs : a[d] % 2 = b[d] % 2
      \/ \A d \in Op!Dirs : a[d] % 2 # b[d] % 2
  BY SameColorParity
<1>2. \A d \in Op!Dirs : a[d] \in Nat /\ b[d] \in Nat
  BY DEF Op!Node, Op!Dirs
<1>3. PICK d0 \in Op!Dirs : a[d0] # b[d0]
  BY DEF Op!Node
<1>4. SUFFICES ASSUME NEW e \in Op!Writes(a), e \in Op!Writes(b) \/ e \in Op!Reads(b, sym)
               PROVE  FALSE
  OBVIOUS
<1>5. PICK d \in Op!Dirs, s \in {-1, 0} :
         /\ e[1] = d
         /\ \A q \in Op!Dirs : e[2][q] = IF q = d THEN a[q] + s ELSE a[q]
  BY WritesAtEnds
<1>6. CASE e \in Op!Writes(b)
  <2>1. PICK s2 \in {-1, 0} :
           \A q \in Op!Dirs : e[2][q] = IF q = d THEN b[q] + s2 ELSE b[q]
    BY <1>5, <1>6, WritesAtEnds
  <2>2. \A q \in Op!Dirs : q # d => a[q] = b[q]
    BY <1>5, <2>1
  <2>3. PICK q \in Op!Dirs : q # d
    BY DEF Op!Dirs
  <2>4. a[q] % 2 = b[q] % 2
    BY <2>2, <2>3
  <2>5. a[d] % 2 = b[d] % 2
    BY <1>1, <2>3, <2>4
  <2>6. a[d] + s = b[d] + s2
    BY <1>5, <2>1
  <2>7. a[d] = b[d]
    BY <2>5, <2>6, <1>2
  <2> QED
    BY <1>3, <2>2, <2>7
<1>7. CASE e \in Op!Reads(b, sym)
  <2>1. PICK q \in Op!Others(d), s2 \in {-1, 0}, t \in {-1, 1} :
           \A p \in Op!Dirs : e[2][p] = IF p = d THEN b[p] + s2
                                        ELSE IF p = q THEN b[p] + t ELSE b[p]
    BY <1>5, <1>7, ReadsNearby
  <2>2. q \in Op!Dirs /\ q # d
    BY DEF Op!Others
  <2>3. PICK r \in Op!Dirs : r # d /\ r # q
    BY <2>2 DEF Op!Dirs
  <2>4. a[q] = b[q] + t /\ a[r] = b[r]
    BY <1>5, <2>1, <2>2, <2>3
  <2>5. a[q] % 2 # b[q] % 2
    BY <2>4, <2>2, <1>2
  <2> QED
    BY <1>1, <2>2, <2>3, <2>4, <2>5
<1> QED
  BY <1>4, <1>6, <1>7

-----------------------------------------------------------------------------
(* Where boxes, edges and their copies are.                                *)

\* The edges of the domain.
InDomain(e) ==
    \A q \in Op!Dirs : DomLo[q] <= e[2][q] /\ e[2][q] <= DomHi[q] - (IF q = e[1] THEN 1 ELSE 0)

LEMMA ModOfInt ==
    ASSUME NEW a \in Int, NEW l \in Nat \ {0}
    PROVE  \E k \in Int : a % l \in 0..l-1 /\ a = l * k + (a % l)
<1>1. a % l \in 0..l-1
  OBVIOUS
<1>2. a = l * (a \div l) + (a % l)
  BY SMT
<1>3. a \div l \in Int
  OBVIOUS
<1> QED
  BY <1>1, <1>2, <1>3

LEMMA ModType ==
    ASSUME NEW a \in Int, NEW l \in Nat \ {0}
    PROVE  a % l \in Nat
OBVIOUS

LEMMA ModUnique ==
    ASSUME NEW l \in Nat \ {0}, NEW k \in Int, NEW r \in 0..l-1
    PROVE  (l * k + r) % l = r
<1> DEFINE a == l * k + r
<1>0. a \in Int
  OBVIOUS
<1>1. PICK j \in Int : a % l \in 0..l-1 /\ a = l * j + (a % l)
  BY <1>0, ModOfInt
<1>2. l * k + r = l * j + (a % l)
  BY <1>1
<1> HIDE DEF a
<1> DEFINE s == a % l
<1>3. s \in 0..l-1 /\ l * k + r = l * j + s
  BY <1>1, <1>2
<1> HIDE DEF s
<1>4. l * (k - j) = s - r
  BY <1>3
<1>5. k - j = 0
  <2>1. CASE k - j >= 1
    <3>1. l * (k - j) >= l
      BY <2>1
    <3> QED
      BY <1>3, <1>4, <3>1
  <2>2. CASE k - j <= -1
    <3>1. l * (k - j) <= -l
      BY <2>2
    <3> QED
      BY <1>3, <1>4, <3>1
  <2> QED
    BY <2>1, <2>2
<1>6. s = r
  BY <1>3, <1>5
<1> QED
  BY <1>6 DEF s, a

\* Two indices that stand for the same one: so do their successors.
LEMMA NextMod ==
    ASSUME NEW a \in Int, NEW b \in Int, NEW l \in Nat \ {0}, a % l = b % l
    PROVE  (a + 1) % l = (b + 1) % l
<1>1. PICK k \in Int : a % l \in 0..l-1 /\ a = l * k + (a % l)
  BY ModOfInt
<1>2. PICK j \in Int : b = l * j + (a % l)
  BY ModOfInt
<1> DEFINE r == a % l
<1>3. r \in 0..l-1 /\ a = l * k + r /\ b = l * j + r
  BY <1>1, <1>2
<1> HIDE DEF r
<1>4. CASE r + 1 < l
  <2>1. r + 1 \in 0..l-1 /\ a + 1 = l * k + (r + 1) /\ b + 1 = l * j + (r + 1)
    BY <1>3, <1>4
  <2> QED
    BY <2>1, ModUnique
<1>5. CASE r + 1 = l
  <2>1. a + 1 = l * (k + 1) + 0 /\ b + 1 = l * (j + 1) + 0 /\ 0 \in 0..l-1
        /\ k + 1 \in Int /\ j + 1 \in Int
    BY <1>3, <1>5
  <2>2. (l * (k + 1) + 0) % l = 0 /\ (l * (j + 1) + 0) % l = 0
    BY <2>1, ModUnique
  <2> QED
    BY <2>1, <2>2
<1> QED
  BY <1>3, <1>4, <1>5

LEMMA ModEven ==
    ASSUME NEW a \in Int, NEW l \in Nat \ {0}, l % 2 = 0
    PROVE  (a % l) % 2 = a % 2
<1>1. PICK k \in Int : a % l \in 0..l-1 /\ a = l * k + (a % l)
  BY ModOfInt
<1>2. PICK m \in Int : l = 2 * m
  BY ModOfInt
<1> DEFINE r == a % l
           w == m * k
<1>3. r \in Int /\ w \in Int
  BY <1>1
<1>4. l * k = 2 * w
  <2>1. l * k = (2 * m) * k
    BY <1>2
  <2> QED
    BY <2>1
<1>5. a = 2 * w + r
  BY <1>1, <1>4
<1> HIDE DEF r, w
<1>6. r % 2 = a % 2
  BY <1>3, <1>5
<1> QED
  BY <1>6 DEF r

LEMMA NodesAre ==
    ASSUME NEW b, \A q \in Op!Dirs : b[1][q] \in Int /\ b[2][q] \in Int,
           NEW g \in {0, 1}, NEW d \in 0..3, NEW a
    PROVE  a \in Op!NodesIn(b, g, d) <=>
             /\ a \in Op!Node
             /\ \A q \in Op!Dirs : /\ b[1][q] - g <= a[q]
                                   /\ a[q] <= b[2][q] + g - (IF q = d THEN 1 ELSE 0)
<1> DEFINE lo(q) == b[1][q] - g
           hi(q) == b[2][q] + g - (IF q = d THEN 1 ELSE 0)
<1>1. ASSUME NEW q \in Op!Dirs PROVE lo(q) \in Int /\ hi(q) \in Int
  <2> DEFINE z == IF q = d THEN 1 ELSE 0
  <2>1. b[1][q] \in Int /\ b[2][q] \in Int /\ g \in Int /\ z \in Int
    OBVIOUS
  <2> HIDE DEF z
  <2>2. b[1][q] - g \in Int /\ b[2][q] + g - z \in Int
    BY <2>1
  <2> QED
    BY <2>2 DEF z
<1>2. a \in Op!NodesIn(b, g, d) <=>
        \E i \in lo(1)..hi(1), j \in lo(2)..hi(2), k \in lo(3)..hi(3) : a = <<i, j, k>>
  BY DEF Op!NodesIn
<1> HIDE DEF lo, hi
<1>3. (\E i \in lo(1)..hi(1), j \in lo(2)..hi(2), k \in lo(3)..hi(3) : a = <<i, j, k>>)
        <=> a \in Op!Node /\ \A q \in Op!Dirs : lo(q) <= a[q] /\ a[q] <= hi(q)
  <2>1. ASSUME NEW i \in lo(1)..hi(1), NEW j \in lo(2)..hi(2), NEW k \in lo(3)..hi(3),
               a = <<i, j, k>>
        PROVE  a \in Op!Node /\ \A q \in Op!Dirs : lo(q) <= a[q] /\ a[q] <= hi(q)
    BY <1>1, <2>1 DEF Op!Node, Op!Dirs
  <2>2. ASSUME a \in Op!Node, \A q \in Op!Dirs : lo(q) <= a[q] /\ a[q] <= hi(q)
        PROVE  \E i \in lo(1)..hi(1), j \in lo(2)..hi(2), k \in lo(3)..hi(3) : a = <<i, j, k>>
    <3>1. a[1] \in lo(1)..hi(1) /\ a[2] \in lo(2)..hi(2) /\ a[3] \in lo(3)..hi(3)
      BY <1>1, <2>2 DEF Op!Node, Op!Dirs
    <3>2. a = <<a[1], a[2], a[3]>>
      BY <2>2 DEF Op!Node, Op!Dirs
    <3> QED
      BY <3>1, <3>2
  <2> QED
    BY <2>1, <2>2
<1> QED
  BY <1>2, <1>3 DEF lo, hi

LEMMA EdgesAre ==
    ASSUME NEW b, \A q \in Op!Dirs : b[1][q] \in Int /\ b[2][q] \in Int,
           NEW g \in {0, 1}, NEW e
    PROVE  e \in Op!EdgesIn(b, g) <=>
             /\ e \in Op!Dirs \X Op!Node
             /\ \A q \in Op!Dirs : /\ b[1][q] - g <= e[2][q]
                                   /\ e[2][q] <= b[2][q] + g - (IF q = e[1] THEN 1 ELSE 0)
<1>1. Op!Dirs \subseteq 0..3
  BY DEF Op!Dirs
<1>2. e \in Op!EdgesIn(b, g) <=> \E d \in Op!Dirs : e \in {d} \X Op!NodesIn(b, g, d)
  BY DEF Op!EdgesIn
<1>3. e \in Op!EdgesIn(b, g) <=> \E d \in Op!Dirs : \E a \in Op!NodesIn(b, g, d) : e = <<d, a>>
  BY <1>2
<1>4. \A d \in Op!Dirs : \A a :
        a \in Op!NodesIn(b, g, d) <=>
             /\ a \in Op!Node
             /\ \A q \in Op!Dirs : /\ b[1][q] - g <= a[q]
                                   /\ a[q] <= b[2][q] + g - (IF q = d THEN 1 ELSE 0)
  BY <1>1, NodesAre
<1>5. ASSUME NEW d \in Op!Dirs, NEW a \in Op!NodesIn(b, g, d), e = <<d, a>>
      PROVE  /\ e \in Op!Dirs \X Op!Node
             /\ \A q \in Op!Dirs : /\ b[1][q] - g <= e[2][q]
                                   /\ e[2][q] <= b[2][q] + g - (IF q = e[1] THEN 1 ELSE 0)
  BY <1>4, <1>5
<1>6. ASSUME e \in Op!Dirs \X Op!Node,
             \A q \in Op!Dirs : /\ b[1][q] - g <= e[2][q]
                                /\ e[2][q] <= b[2][q] + g - (IF q = e[1] THEN 1 ELSE 0)
      PROVE  \E d \in Op!Dirs : \E a \in Op!NodesIn(b, g, d) : e = <<d, a>>
  <2>1. PICK d \in Op!Dirs, a \in Op!Node : e = <<d, a>>
    BY <1>6
  <2>2. a \in Op!NodesIn(b, g, d)
    BY <1>4, <1>6, <2>1
  <2> QED
    BY <2>1, <2>2
<1> QED
  BY <1>3, <1>5, <1>6

LEMMA ValidAre ==
    ASSUME Op!GridOK, NEW b \in Boxes, NEW e
    PROVE  /\ e \in Op!Valid[b] <=>
                /\ e \in Op!Dirs \X Op!Node
                /\ \A q \in Op!Dirs : /\ b[1][q] <= e[2][q]
                                      /\ e[2][q] <= b[2][q] - (IF q = e[1] THEN 1 ELSE 0)
           /\ e \in Op!Held[b] <=>
                /\ e \in Op!Dirs \X Op!Node
                /\ \A q \in Op!Dirs : /\ b[1][q] - 1 <= e[2][q]
                                      /\ e[2][q] <= b[2][q] + 1 - (IF q = e[1] THEN 1 ELSE 0)
           /\ e \in Op!Valid[b] => e \in Op!Held[b] /\ InDomain(e)
<1>1. \A q \in Op!Dirs : b[1][q] \in Int /\ b[2][q] \in Int
  BY DEF Op!GridOK
<1>2. Op!Valid[b] = Op!EdgesIn(b, 0) /\ Op!Held[b] = Op!EdgesIn(b, 1)
  BY DEF Op!Valid, Op!Held
<1>3. e \in Op!Valid[b] <=>
                /\ e \in Op!Dirs \X Op!Node
                /\ \A q \in Op!Dirs : /\ b[1][q] <= e[2][q]
                                      /\ e[2][q] <= b[2][q] - (IF q = e[1] THEN 1 ELSE 0)
  BY <1>1, <1>2, EdgesAre
<1>4. e \in Op!Held[b] <=>
                /\ e \in Op!Dirs \X Op!Node
                /\ \A q \in Op!Dirs : /\ b[1][q] - 1 <= e[2][q]
                                      /\ e[2][q] <= b[2][q] + 1 - (IF q = e[1] THEN 1 ELSE 0)
  BY <1>1, <1>2, EdgesAre
<1>5. ASSUME e \in Op!Valid[b] PROVE e \in Op!Held[b] /\ InDomain(e)
  <2>1. /\ e \in Op!Dirs \X Op!Node
        /\ \A q \in Op!Dirs : /\ b[1][q] <= e[2][q]
                              /\ e[2][q] <= b[2][q] - (IF q = e[1] THEN 1 ELSE 0)
    BY <1>3, <1>5
  <2>2. \A q \in Op!Dirs : /\ DomLo[q] \in Int /\ DomHi[q] \in Int
                           /\ DomLo[q] <= b[1][q] /\ b[2][q] <= DomHi[q]
    BY DEF Op!GridOK
  <2>3. \A q \in Op!Dirs : e[2][q] \in Int
    <3>1. PICK d \in Op!Dirs, a \in Op!Node : e = <<d, a>>
      BY <2>1
    <3> QED
      BY <3>1 DEF Op!Node
  <2>4. e \in Op!Held[b]
    BY <1>1, <1>4, <2>1, <2>3
  <2>5. ASSUME NEW q \in Op!Dirs
        PROVE  DomLo[q] <= e[2][q] /\ e[2][q] <= DomHi[q] - (IF q = e[1] THEN 1 ELSE 0)
    <3> DEFINE z == IF q = e[1] THEN 1 ELSE 0
    <3>1. z \in Int
      OBVIOUS
    <3>2. b[1][q] <= e[2][q] /\ e[2][q] <= b[2][q] - z
      BY <2>1
    <3> HIDE DEF z
    <3>3. DomLo[q] <= e[2][q] /\ e[2][q] <= DomHi[q] - z
      BY <1>1, <2>2, <2>3, <3>1, <3>2
    <3> QED
      BY <3>3 DEF z
  <2> QED
    BY <2>4, <2>5 DEF InDomain
<1> QED
  BY <1>3, <1>4, <1>5

LEMMA DomainCovered ==
    ASSUME Op!GridOK, NEW e \in Op!Dirs \X Op!Node, InDomain(e)
    PROVE  \E b \in Boxes : e \in Op!Valid[b]
<1> DEFINE dom == <<DomLo, DomHi>>
<1>1. \A q \in Op!Dirs : dom[1][q] \in Int /\ dom[2][q] \in Int
  BY DEF Op!GridOK
<1>2. \A q \in Op!Dirs : /\ dom[1][q] - 0 <= e[2][q]
                         /\ e[2][q] <= dom[2][q] + 0 - (IF q = e[1] THEN 1 ELSE 0)
  <2>1. SUFFICES ASSUME NEW q \in Op!Dirs
        PROVE  /\ dom[1][q] - 0 <= e[2][q]
               /\ e[2][q] <= dom[2][q] + 0 - (IF q = e[1] THEN 1 ELSE 0)
    OBVIOUS
  <2> DEFINE z == IF q = e[1] THEN 1 ELSE 0
  <2>2. z \in Int
    OBVIOUS
  <2>3. e[2][q] \in Int
    BY DEF Op!Node
  <2>4. DomLo[q] <= e[2][q] /\ e[2][q] <= DomHi[q] - z
    BY DEF InDomain
  <2>5. dom[1][q] = DomLo[q] /\ dom[2][q] = DomHi[q] /\ DomLo[q] \in Int /\ DomHi[q] \in Int
    BY <1>1
  <2> HIDE DEF z, dom
  <2>6. dom[1][q] - 0 <= e[2][q] /\ e[2][q] <= dom[2][q] + 0 - z
    BY <2>2, <2>3, <2>4, <2>5
  <2> QED
    BY <2>6 DEF z
<1> HIDE DEF dom
<1>3. e \in Op!EdgesIn(dom, 0)
  BY <1>1, <1>2, EdgesAre
<1> QED
  BY <1>3 DEF Op!GridOK, dom

LEMMA ThreadsAre ==
    ASSUME Op!GridOK, NEW t
    PROVE  t \in Op!Threads <=>
             /\ t \in Boxes \X NatNode /\ ~Op!is_dirichlet_node(t[2])
             /\ \A q \in Op!Dirs : t[1][1][q] <= t[2][q] /\ t[2][q] <= t[1][2][q]
<1>1. t \in Op!Threads <=> \E b \in Boxes : \E a \in Op!NodesIn(b, 0, 0) :
                              t = <<b, a>> /\ ~Op!is_dirichlet_node(a)
  BY DEF Op!Threads
<1>2. ASSUME NEW b \in Boxes, NEW a
      PROVE  a \in Op!NodesIn(b, 0, 0) <=>
                a \in NatNode /\ \A q \in Op!Dirs : b[1][q] <= a[q] /\ a[q] <= b[2][q]
  <2>1. \A q \in Op!Dirs : b[1][q] \in Int /\ b[2][q] \in Int /\ b[1][q] >= 0 /\ q # 0
    BY DEF Op!GridOK, Op!Dirs
  <2>2. a \in Op!NodesIn(b, 0, 0) <=> a \in Op!Node /\
          \A q \in Op!Dirs : b[1][q] - 0 <= a[q] /\ a[q] <= b[2][q] + 0 - (IF q = 0 THEN 1 ELSE 0)
    <3>1. \A q \in Op!Dirs : b[1][q] \in Int /\ b[2][q] \in Int
      BY <2>1
    <3>2. 0 \in {0, 1} /\ 0 \in 0..3
      OBVIOUS
    <3> QED
      BY <3>1, <3>2, NodesAre
  <2> QED
    BY <2>1, <2>2 DEF NatNode, Op!Node
<1> QED
  BY <1>1, <1>2

\* The threads that write an edge are those of its two nodes.
LEMMA WritersAre ==
    ASSUME NEW e \in Op!Dirs \X Op!Node, NEW a \in Op!Node
    PROVE  e \in Op!Writes(a) <=> a = e[2] \/ a = Op!Step(e[2], e[1], 1)
<1>1. PICK d \in Op!Dirs, c \in Op!Node : e = <<d, c>>
  OBVIOUS
<1>2. e \in Op!Writes(a) <=> \E q \in Op!Dirs, s \in {-1, 0} : e = <<q, Op!Step(a, q, s)>>
  BY DEF Op!Writes, Op!Half
<1>3. e \in Op!Writes(a) <=> c = Op!Step(a, d, -1) \/ c = Op!Step(a, d, 0)
  BY <1>1, <1>2
<1>4. Op!Step(a, d, 0) = a
  BY DEF Op!Step, Op!Node
<1>5. c = Op!Step(a, d, -1) <=> a = Op!Step(c, d, 1)
  BY DEF Op!Step, Op!Node
<1> QED
  BY <1>1, <1>3, <1>4, <1>5

-----------------------------------------------------------------------------
(* The images of nodes and edges in a periodic domain.                     *)

LEMMA WrapIs ==
    ASSUME Op!GridOK, NEW a \in Op!Node
    PROVE  /\ Op!Wrap(a) \in Op!Node
           /\ \A q \in Op!Dirs : LoBC[q] # "Periodic" => Op!Wrap(a)[q] = a[q]
           /\ \A q \in Op!Dirs : LoBC[q] = "Periodic" =>
                Op!Wrap(a)[q] = DomLo[q] + ((a[q] - DomLo[q]) % (DomHi[q] - DomLo[q]))
<1>1. \A q \in Op!Dirs : /\ a[q] \in Int /\ DomLo[q] \in Int /\ DomHi[q] - DomLo[q] \in Nat \ {0}
                         /\ a[q] - DomLo[q] \in Int
  BY DEF Op!GridOK, Op!Node
<1>2. ASSUME NEW q \in Op!Dirs
      PROVE  DomLo[q] + ((a[q] - DomLo[q]) % (DomHi[q] - DomLo[q])) \in Int
  <2> DEFINE r == (a[q] - DomLo[q]) % (DomHi[q] - DomLo[q])
  <2>1. r \in Nat
    BY <1>1, ModType
  <2> HIDE DEF r
  <2>2. DomLo[q] + r \in Int
    BY <1>1, <2>1
  <2> QED
    BY <2>2 DEF r
<1>3. \A q \in Op!Dirs : DomLo[q] + ((a[q] - DomLo[q]) % (DomHi[q] - DomLo[q])) \in Int
  BY <1>2
<1> QED
  BY <1>1, <1>3 DEF Op!Wrap, Op!Node

LEMMA WrapKeepsParity ==
    ASSUME Op!GridOK, NEW a \in Op!Node, NEW q \in Op!Dirs
    PROVE  Op!Wrap(a)[q] % 2 = a[q] % 2
<1>1. /\ a[q] \in Int /\ DomLo[q] \in Int /\ DomHi[q] - DomLo[q] \in Nat \ {0}
      /\ a[q] - DomLo[q] \in Int
  BY DEF Op!GridOK, Op!Node
<1>2. CASE LoBC[q] = "Periodic"
  <2> DEFINE l == DomHi[q] - DomLo[q]
             w == a[q] - DomLo[q]
             r == w % l
  <2>1. l \in Nat \ {0} /\ l % 2 = 0 /\ w \in Int
    BY <1>1, <1>2 DEF Op!GridOK
  <2>2. r % 2 = w % 2 /\ r \in Int
    BY <2>1, ModEven, ModType
  <2>3. Op!Wrap(a)[q] = DomLo[q] + r
    BY <1>2, WrapIs
  <2>4. a[q] = DomLo[q] + w
    BY <1>1
  <2> HIDE DEF r, w
  <2>5. (DomLo[q] + r) % 2 = (DomLo[q] + w) % 2
    BY <1>1, <2>1, <2>2
  <2> QED
    BY <2>3, <2>4, <2>5
<1> QED
  BY <1>2, WrapIs

\* In the domain, the images of a node are nodes of the domain.
LEMMA WrapNat ==
    ASSUME Op!GridOK, NEW a \in NatNode
    PROVE  Op!Wrap(a) \in NatNode
<1>0. a \in Op!Node
  BY DEF NatNode
<1>1. ASSUME NEW q \in Op!Dirs PROVE Op!Wrap(a)[q] >= 0
  <2>1. /\ a[q] \in Nat /\ DomLo[q] \in Nat /\ DomHi[q] - DomLo[q] \in Nat \ {0}
        /\ a[q] - DomLo[q] \in Int
    BY DEF Op!GridOK, Op!Node, NatNode
  <2>2. (a[q] - DomLo[q]) % (DomHi[q] - DomLo[q]) \in 0..(DomHi[q] - DomLo[q])-1
    BY <2>1, ModOfInt
  <2>3. (a[q] - DomLo[q]) % (DomHi[q] - DomLo[q]) \in Nat
    BY <2>1, <2>2
  <2>4. \/ Op!Wrap(a)[q] = a[q]
        \/ Op!Wrap(a)[q] = DomLo[q] + ((a[q] - DomLo[q]) % (DomHi[q] - DomLo[q]))
    BY <1>0, WrapIs
  <2> QED
    BY <2>1, <2>3, <2>4
<1> QED
  BY <1>0, <1>1, WrapIs DEF NatNode

LEMMA WrapColor ==
    ASSUME Op!GridOK, NEW a \in NatNode
    PROVE  Op!my_color(Op!Wrap(a)) = Op!my_color(a) /\ Op!my_color(a) \in Op!Colors
<1>0. a \in Op!Node /\ Op!Wrap(a) \in NatNode /\ {1, 2, 3} \subseteq Op!Dirs
  BY WrapNat DEF NatNode, Op!Dirs
<1>1. Op!Wrap(a)[1] % 2 = a[1] % 2 /\ Op!Wrap(a)[2] % 2 = a[2] % 2 /\ Op!Wrap(a)[3] % 2 = a[3] % 2
  BY <1>0, WrapKeepsParity
<1>2. Op!my_color(Op!Wrap(a)) = Op!my_color(a)
  BY <1>0, <1>1, ColorIsParity
<1>3. a[1] \in Nat /\ a[2] \in Nat /\ a[3] \in Nat
  BY DEF NatNode, Op!Node, Op!Dirs
<1>4. a[1] % 2 \in {0, 1} /\ a[2] % 2 \in {0, 1} /\ a[3] % 2 \in {0, 1}
  BY <1>3
<1>5. Op!my_color(a) \in 0..3
  BY <1>4, ColorIsParity
<1> QED
  BY <1>2, <1>5 DEF Op!Colors

LEMMA WrapDirichlet ==
    ASSUME Op!GridOK, Op!DomainAssumption, NEW a \in Op!Node
    PROVE  Op!is_dirichlet_node(Op!Wrap(a)) <=> Op!is_dirichlet_node(a)
<1>1. \A d \in Op!Dirs : LoBC[d] = "Dirichlet" \/ HiBC[d] = "Dirichlet" => LoBC[d] # "Periodic"
  BY DEF Op!DomainAssumption
<1>2. \A d \in Op!Dirs : LoBC[d] = "Dirichlet" \/ HiBC[d] = "Dirichlet" => Op!Wrap(a)[d] = a[d]
  BY <1>1, WrapIs
<1> QED
  BY <1>2 DEF Op!is_dirichlet_node

LEMMA WrapNext ==
    ASSUME Op!GridOK, NEW a \in Op!Node, NEW b \in Op!Node, NEW d \in Op!Dirs,
           Op!Wrap(a) = Op!Wrap(b)
    PROVE  Op!Wrap(Op!Step(a, d, 1)) = Op!Wrap(Op!Step(b, d, 1))
<1> DEFINE u == Op!Step(a, d, 1)
           v == Op!Step(b, d, 1)
<1>1. /\ u \in Op!Node /\ v \in Op!Node
      /\ \A q \in Op!Dirs : /\ u[q] = IF q = d THEN a[q] + 1 ELSE a[q]
                            /\ v[q] = IF q = d THEN b[q] + 1 ELSE b[q]
  BY StepType
<1> HIDE DEF u, v
<1>2. ASSUME NEW q \in Op!Dirs PROVE Op!Wrap(u)[q] = Op!Wrap(v)[q]
  <2>0. /\ a[q] \in Int /\ b[q] \in Int /\ DomLo[q] \in Int /\ DomHi[q] - DomLo[q] \in Nat \ {0}
    BY DEF Op!GridOK, Op!Node
  <2> DEFINE l == DomHi[q] - DomLo[q]
             i == a[q] - DomLo[q]
             j == b[q] - DomLo[q]
  <2>1. CASE LoBC[q] = "Periodic"
    <3>1. Op!Wrap(a)[q] = DomLo[q] + (i % l) /\ Op!Wrap(b)[q] = DomLo[q] + (j % l)
      BY <2>1, WrapIs
    <3>2. i \in Int /\ j \in Int /\ l \in Nat \ {0} /\ i % l \in Nat /\ j % l \in Nat
      BY <2>0, ModType
    <3>3. i % l = j % l
      BY <2>0, <3>1, <3>2
    <3>4. (i + 1) % l = (j + 1) % l
      BY <3>2, <3>3, NextMod
    <3>5. Op!Wrap(u)[q] = DomLo[q] + ((u[q] - DomLo[q]) % l)
          /\ Op!Wrap(v)[q] = DomLo[q] + ((v[q] - DomLo[q]) % l)
      BY <1>1, <2>1, WrapIs
    <3>6. /\ u[q] - DomLo[q] = (IF q = d THEN i + 1 ELSE i)
          /\ v[q] - DomLo[q] = (IF q = d THEN j + 1 ELSE j)
      BY <1>1, <2>0
    <3> HIDE DEF i, j, l
    <3> QED
      BY <3>3, <3>4, <3>5, <3>6
  <2>2. CASE LoBC[q] # "Periodic"
    <3>1. /\ Op!Wrap(a)[q] = a[q] /\ Op!Wrap(b)[q] = b[q]
          /\ Op!Wrap(u)[q] = u[q] /\ Op!Wrap(v)[q] = v[q]
      BY <1>1, <2>2, WrapIs
    <3> QED
      BY <1>1, <3>1
  <2> QED
    BY <2>1, <2>2
<1>3. Op!Wrap(u) \in Op!Node /\ Op!Wrap(v) \in Op!Node
  BY <1>1, WrapIs
<1>4. Op!Wrap(u) = Op!Wrap(v)
  BY <1>2, <1>3 DEF Op!Node
<1> QED
  BY <1>4 DEF u, v

\* Copies of an edge should have the same stamp.
LEMMA SameExpected ==
    ASSUME Op!GridOK, NEW e \in Op!Dirs \X Op!Node, NEW f \in Op!Dirs \X Op!Node, Op!SameEdge(e, f)
    PROVE  Op!Expected(e) = Op!Expected(f)
<1>1. /\ e[1] = f[1] /\ Op!Wrap(e[2]) = Op!Wrap(f[2])
      /\ e[1] \in Op!Dirs /\ e[2] \in Op!Node /\ f[2] \in Op!Node
  BY DEF Op!SameEdge
<1>2. Op!Wrap(Op!Step(e[2], e[1], 1)) = Op!Wrap(Op!Step(f[2], f[1], 1))
  BY <1>1, WrapNext
<1>3. Op!Ends(e) = Op!Ends(f)
  BY <1>1, <1>2 DEF Op!Ends
<1> QED
  BY <1>3 DEF Op!Expected

LEMMA WrapTwice ==
    ASSUME Op!GridOK, NEW a \in Op!Node
    PROVE  Op!Wrap(Op!Wrap(a)) = Op!Wrap(a)
<1>1. Op!Wrap(a) \in Op!Node /\ Op!Wrap(Op!Wrap(a)) \in Op!Node
  BY WrapIs
<1>2. ASSUME NEW q \in Op!Dirs PROVE Op!Wrap(Op!Wrap(a))[q] = Op!Wrap(a)[q]
  <2> DEFINE l == DomHi[q] - DomLo[q]
             i == a[q] - DomLo[q]
             r == i % l
  <2>1. CASE LoBC[q] = "Periodic"
    <3>1. i \in Int /\ l \in Nat \ {0} /\ DomLo[q] \in Int
      BY DEF Op!GridOK, Op!Node
    <3>2. r \in 0..l-1
      BY <3>1, ModOfInt
    <3>3. r % l = r
      BY <3>1, <3>2
    <3>4. Op!Wrap(a)[q] = DomLo[q] + r
      BY <2>1, WrapIs
    <3>5. Op!Wrap(Op!Wrap(a))[q] = DomLo[q] + ((Op!Wrap(a)[q] - DomLo[q]) % l)
      BY <1>1, <2>1, WrapIs
    <3> HIDE DEF r, l
    <3>6. Op!Wrap(a)[q] - DomLo[q] = r
      BY <3>1, <3>2, <3>4
    <3> QED
      BY <3>3, <3>4, <3>5, <3>6
  <2> QED
    BY <1>1, <2>1, WrapIs
<1> QED
  BY <1>1, <1>2 DEF Op!Node

-----------------------------------------------------------------------------
(* What the threads of a box read.                                         *)

\* A place where an edge of box b can lie: inside of the domain, or beyond one symmetric face,
\* with its mirror image inside.
InPlace(b, e) ==
    /\ e \in Op!Dirs \X Op!Node /\ e \in Op!Held[b]
    /\ \/ Op!Beyond(e) = {}
       \/ \E q \in Op!Dirs : /\ Op!Beyond(e) = {q} /\ Op!SymmetricFace(e, q)
                             /\ Op!MirrorOf(e, q) \in Op!Held[b]
                             /\ Op!Beyond(Op!MirrorOf(e, q)) = {}

LEMMA BeyondIs ==
    ASSUME NEW e, NEW q \in Op!Dirs
    PROVE  q \in Op!Beyond(e) <=> /\ LoBC[q] # "Periodic"
                                  /\ \/ e[2][q] < DomLo[q]
                                     \/ e[2][q] > DomHi[q] - (IF q = e[1] THEN 1 ELSE 0)
BY DEF Op!Beyond

\* An edge of box b that can be beyond the domain in direction q only.
LEMMA InsideOrMirrored ==
    ASSUME Op!GridOK, NEW b \in Boxes, NEW e \in Op!Dirs \X Op!Node, NEW q \in Op!Dirs,
           e \in Op!Held[b], \A r \in Op!Dirs : r # q => r \notin Op!Beyond(e),
           q \in Op!Beyond(e) => Op!SymmetricFace(e, q)
    PROVE  InPlace(b, e)
<1>0. PICK d \in Op!Dirs, p \in Op!Node : e = <<d, p>>
  OBVIOUS
<1> DEFINE z == IF q = d THEN 1 ELSE 0
           g == Op!MirrorOf(e, q)
           s == IF p[q] < DomLo[q] THEN (IF q = d THEN 1 ELSE 2) ELSE -(IF q = d THEN 1 ELSE 2)
<1>1. CASE q \notin Op!Beyond(e)
  <2>1. Op!Beyond(e) = {}
    BY <1>1 DEF Op!Beyond
  <2> QED
    BY <2>1 DEF InPlace
<1>2. CASE q \in Op!Beyond(e)
  <2>1. Op!Beyond(e) = {q}
    BY <1>2 DEF Op!Beyond
  <2>2. g = <<d, Op!Step(p, q, s)>>
    BY <1>0 DEF Op!MirrorOf
  <2>3. s \in Int /\ z \in {0, 1}
    OBVIOUS
  <2>4. /\ Op!Step(p, q, s) \in Op!Node
        /\ \A r \in Op!Dirs : Op!Step(p, q, s)[r] = IF r = q THEN p[r] + s ELSE p[r]
    BY <2>3, StepType
  <2>5. \A r \in Op!Dirs : p[r] \in Int
    BY DEF Op!Node
  <2>6. /\ DomLo[q] \in Int /\ DomHi[q] \in Int /\ DomLo[q] < DomHi[q]
        /\ b[1][q] \in Int /\ b[2][q] \in Int
        /\ DomLo[q] <= b[1][q] /\ b[1][q] < b[2][q] /\ b[2][q] <= DomHi[q]
    BY DEF Op!GridOK
  <2>7. b[1][q] - 1 <= p[q] /\ p[q] <= b[2][q] + 1 - z
    BY <1>0, ValidAre
  <2>8. p[q] < DomLo[q] \/ p[q] > DomHi[q] - z
    BY <1>0, <1>2, BeyondIs
  <2>9. /\ b[1][q] - 1 <= p[q] + s /\ p[q] + s <= b[2][q] + 1 - z
        /\ DomLo[q] <= p[q] + s /\ p[q] + s <= DomHi[q] - z
    <3>1. z = (IF q = d THEN 1 ELSE 0)
          /\ s = (IF p[q] < DomLo[q] THEN 2 - z ELSE -(2 - z))
      OBVIOUS
    <3> HIDE DEF z, s
    <3>2. p[q] \in Int
      BY <2>5
    <3>3. CASE p[q] < DomLo[q]
      BY <2>3, <2>6, <2>7, <3>1, <3>2, <3>3
    <3>4. CASE ~(p[q] < DomLo[q])
      BY <2>3, <2>6, <2>7, <2>8, <3>1, <3>2, <3>4
    <3> QED
      BY <3>3, <3>4
  <2> HIDE DEF s, z
  <2>10. g \in Op!Held[b]
    <3>1. g \in Op!Dirs \X Op!Node /\ g[1] = d /\ g[2] = Op!Step(p, q, s)
      BY <2>2, <2>4
    <3>2. ASSUME NEW r \in Op!Dirs
          PROVE  b[1][r] - 1 <= g[2][r] /\ g[2][r] <= b[2][r] + 1 - (IF r = g[1] THEN 1 ELSE 0)
      <4>1. CASE r = q
        BY <2>4, <2>9, <3>1, <4>1 DEF z
      <4>2. CASE r # q
        <5>1. b[1][r] - 1 <= p[r] /\ p[r] <= b[2][r] + 1 - (IF r = d THEN 1 ELSE 0)
          BY <1>0, ValidAre
        <5> QED
          BY <2>4, <3>1, <4>2, <5>1
      <4> QED
        BY <4>1, <4>2
    <3> QED
      BY <3>1, <3>2, ValidAre
  <2>11. Op!Beyond(g) = {}
    <3>1. g[1] = d /\ g[2] = Op!Step(p, q, s)
      BY <2>2
    <3>2. ASSUME NEW r \in Op!Dirs PROVE r \notin Op!Beyond(g)
      <4>1. CASE r = q
        <5>1. g[2][q] = p[q] + s /\ g[2][q] \in Int
          BY <2>3, <2>4, <2>5, <3>1
        <5>2. ~(g[2][q] < DomLo[q]) /\ ~(g[2][q] > DomHi[q] - (IF q = g[1] THEN 1 ELSE 0))
          <6>1. DomLo[q] <= g[2][q] /\ g[2][q] <= DomHi[q] - z
            BY <2>9, <5>1
          <6>2. ~(g[2][q] < DomLo[q]) /\ ~(g[2][q] > DomHi[q] - z)
            BY <2>3, <2>6, <5>1, <6>1
          <6> QED
            BY <3>1, <6>2 DEF z
        <5> QED
          BY <4>1, <5>2, BeyondIs
      <4>2. CASE r # q
        <5>1. g[2][r] = e[2][r] /\ g[1] = e[1]
          BY <1>0, <2>4, <3>1, <4>2
        <5> QED
          BY <4>2, <5>1, BeyondIs
      <4> QED
        BY <4>1, <4>2
    <3> QED
      BY <3>2 DEF Op!Beyond
  <2> QED
    BY <1>2, <2>1, <2>10, <2>11 DEF InPlace
<1> QED
  BY <1>1, <1>2

\* A thread reads nothing across a face that it drops the unknown of.
LEMMA NotAcross ==
    ASSUME Op!GridOK, Op!DomainAssumption, NEW t \in Op!Threads, NEW d \in Op!Dirs,
           LoBC[d] # "Periodic"
    PROVE  /\ t[2][d] = DomLo[d] => LoBC[d] = "symmetry" /\ <<d, -1>> \in Op!Mirrored(t[2])
           /\ t[2][d] = DomHi[d] => HiBC[d] = "symmetry" /\ <<d, 0>> \in Op!Mirrored(t[2])
<1>1. LoBC[d] \in {"Dirichlet", "symmetry"} /\ HiBC[d] \in {"Dirichlet", "symmetry"}
  BY DEF Op!DomainAssumption
<1>2. ~Op!is_dirichlet_node(t[2])
  BY ThreadsAre
<1>3. /\ t[2][d] = DomLo[d] => LoBC[d] # "Dirichlet"
      /\ t[2][d] = DomHi[d] => HiBC[d] # "Dirichlet"
  BY <1>2 DEF Op!is_dirichlet_node
<1> QED
  BY <1>1, <1>3 DEF Op!Mirrored

LEMMA ReadsInPlace ==
    ASSUME Op!GridOK, Op!DomainAssumption, NEW t \in Op!Threads,
           NEW e \in Op!Reads(t[2], Op!Mirrored(t[2]))
    PROVE  InPlace(t[1], e)
<1> DEFINE a == t[2]
           b == t[1]
<1>0. /\ b \in Boxes /\ a \in Op!Node
      /\ \A r \in Op!Dirs : b[1][r] <= a[r] /\ a[r] <= b[2][r]
      /\ e \in Op!Reads(a, Op!Mirrored(a))
  BY ThreadsAre DEF NatNode
<1>00. \A r \in Op!Dirs : LoBC[r] # "Periodic" =>
         /\ a[r] = DomLo[r] => LoBC[r] = "symmetry" /\ <<r, -1>> \in Op!Mirrored(a)
         /\ a[r] = DomHi[r] => HiBC[r] = "symmetry" /\ <<r, 0>> \in Op!Mirrored(a)
  BY NotAcross
<1>01. SUFFICES InPlace(b, e)
  OBVIOUS
<1> HIDE DEF a, b
<1>1. \A r \in Op!Dirs : /\ a[r] \in Int /\ b[1][r] \in Int /\ b[2][r] \in Int
                         /\ DomLo[r] \in Int /\ DomHi[r] \in Int
                         /\ DomLo[r] <= b[1][r] /\ b[2][r] <= DomHi[r]
  <2>1. \A r \in Op!Dirs : a[r] \in Int
    BY <1>0 DEF Op!Node
  <2>2. \A r \in Op!Dirs : /\ b[1][r] \in Int /\ b[2][r] \in Int
                           /\ DomLo[r] <= b[1][r] /\ b[2][r] <= DomHi[r]
    BY <1>0 DEF Op!GridOK
  <2>3. \A r \in Op!Dirs : DomLo[r] \in Int /\ DomHi[r] \in Int
    BY DEF Op!GridOK
  <2> QED
    BY <2>1, <2>2, <2>3
<1>2. PICK h \in (Op!Dirs \X {-1, 0}) \ Op!Mirrored(a) : e \in Op!Row(a, h[1], h[2])
  BY <1>0 DEF Op!Reads
<1>3. PICK d \in Op!Dirs, s \in {-1, 0} : h = <<d, s>>
  BY <1>2
<1>4. <<d, s>> \notin Op!Mirrored(a) /\ e \in Op!Row(a, d, s)
  BY <1>2, <1>3
<1>6. LoBC[d] # "Periodic" => (s = -1 => a[d] > DomLo[d]) /\ (s = 0 => a[d] < DomHi[d])
  <2>1. LoBC[d] # "Periodic" =>
         /\ a[d] = DomLo[d] => <<d, -1>> \in Op!Mirrored(a)
         /\ a[d] = DomHi[d] => <<d, 0>> \in Op!Mirrored(a)
    BY <1>00
  <2>2. LoBC[d] # "Periodic" => (s = -1 => a[d] # DomLo[d]) /\ (s = 0 => a[d] # DomHi[d])
    BY <1>4, <2>1
  <2>3. /\ DomLo[d] <= a[d] /\ a[d] <= DomHi[d]
        /\ a[d] \in Int /\ DomLo[d] \in Int /\ DomHi[d] \in Int
    BY <1>0, <1>1
  <2> QED
    BY <2>2, <2>3
<1> DEFINE u == IF s = 0 THEN 1 ELSE -1
<1>7. e \in {<<d, Op!Step(Op!Step(a, d, s), q, w)>> : q \in Op!Others(d), w \in {-1, 1}}
            \cup {<<q, Op!Step(Op!Step(a, d, u), q, w)>> : q \in Op!Others(d), w \in {-1, 0}}
  BY <1>4 DEF Op!Row, Op!Half
\* e is one step away from the node in direction q, and on its own side in direction d.
<1>8. ASSUME NEW q \in Op!Dirs, q # d, NEW c \in {d, q}, NEW v \in Int, NEW w \in {-1, 0, 1},
             NEW p \in Op!Node, e = <<c, p>>,
             \A r \in Op!Dirs : p[r] = IF r = d THEN a[r] + v ELSE IF r = q THEN a[r] + w ELSE a[r],
             c = d => v = s, c = q => v = u /\ w # 1
      PROVE  InPlace(b, e)
  <2>1. e \in Op!Dirs \X Op!Node /\ e[1] = c /\ e[2] = p
    BY <1>8
  <2>2. ASSUME NEW r \in Op!Dirs
        PROVE  b[1][r] - 1 <= e[2][r] /\ e[2][r] <= b[2][r] + 1 - (IF r = e[1] THEN 1 ELSE 0)
    <3>1. CASE r = d
      <4>1. p[r] = a[r] + v
        BY <1>8, <3>1
      <4>2. v \in {-1, 0, 1} /\ (r = c => v \in {-1, 0})
        BY <1>8, <3>1
      <4> QED
        BY <1>0, <1>1, <2>1, <4>1, <4>2
    <3>2. CASE r = q
      <4>1. p[r] = a[r] + w /\ (r = c => w \in {-1, 0})
        BY <1>8, <3>2
      <4> QED
        BY <1>0, <1>1, <2>1, <4>1
    <3>3. CASE r # d /\ r # q
      <4>1. p[r] = a[r] /\ r # c
        BY <1>8, <3>3
      <4> QED
        BY <1>0, <1>1, <2>1, <4>1
    <3> QED
      BY <3>1, <3>2, <3>3
  <2>3. e \in Op!Held[b]
    BY <1>0, <2>1, <2>2, ValidAre
  <2>4. ASSUME NEW r \in Op!Dirs, r # q PROVE r \notin Op!Beyond(e)
    <3>1. CASE r = d
      <4>1. p[r] = a[r] + v
        BY <1>8, <3>1
      <4>2. v = s \/ (c # d /\ v = u)
        BY <1>8
      <4>3. LoBC[d] # "Periodic" => /\ DomLo[d] <= p[d]
                                    /\ p[d] <= DomHi[d] - (IF d = c THEN 1 ELSE 0)
        BY <1>0, <1>1, <1>6, <3>1, <4>1, <4>2, <1>8
      <4> QED
        BY <1>1, <1>8, <2>1, <3>1, <4>1, <4>3, BeyondIs
    <3>2. CASE r # d
      <4>1. p[r] = a[r] /\ r # c
        BY <1>8, <2>4, <3>2
      <4>2. ~(p[r] < DomLo[r]) /\ ~(p[r] > DomHi[r] - 0)
        BY <1>0, <1>1, <4>1
      <4> QED
        BY <1>1, <2>1, <4>1, <4>2, BeyondIs
    <3> QED
      BY <3>1, <3>2
  <2>5. ASSUME q \in Op!Beyond(e) PROVE Op!SymmetricFace(e, q)
    <3>1. LoBC[q] # "Periodic" /\ (p[q] < DomLo[q] \/ p[q] > DomHi[q] - (IF q = c THEN 1 ELSE 0))
      BY <2>1, <2>5, BeyondIs
    <3>2. p[q] = a[q] + w /\ (q = c => w \in {-1, 0})
      BY <1>8
    <3>3. IF p[q] < DomLo[q] THEN a[q] = DomLo[q] ELSE a[q] = DomHi[q]
      BY <1>0, <1>1, <3>1, <3>2
    <3>4. IF p[q] < DomLo[q] THEN LoBC[q] = "symmetry" ELSE HiBC[q] = "symmetry"
      BY <1>00, <3>1, <3>3
    <3> QED
      BY <2>1, <3>4 DEF Op!SymmetricFace
  <2> QED
    BY <1>0, <2>1, <2>3, <2>4, <2>5, InsideOrMirrored
<1>9. s \in Int /\ u \in Int /\ u \in {-1, 1}
  OBVIOUS
<1> HIDE DEF u
<1>10. CASE \E q \in Op!Others(d), w \in {-1, 1} : e = <<d, Op!Step(Op!Step(a, d, s), q, w)>>
  <2>1. PICK q \in Op!Others(d), w \in {-1, 1} : e = <<d, Op!Step(Op!Step(a, d, s), q, w)>>
    BY <1>10
  <2>2. q \in Op!Dirs /\ q # d /\ Op!Step(a, d, s) \in Op!Node
    BY <1>0, <1>9, StepType DEF Op!Others
  <2> DEFINE p == Op!Step(Op!Step(a, d, s), q, w)
  <2>3. /\ p \in Op!Node
        /\ \A r \in Op!Dirs : p[r] = IF r = d THEN a[r] + s ELSE IF r = q THEN a[r] + w ELSE a[r]
    <3> DEFINE m == Op!Step(a, d, s)
    <3>1. m \in Op!Node /\ \A r \in Op!Dirs : m[r] = IF r = d THEN a[r] + s ELSE a[r]
      BY <1>0, <1>9, StepType
    <3> HIDE DEF m
    <3>2. Op!Step(m, q, w) \in Op!Node
          /\ \A r \in Op!Dirs : Op!Step(m, q, w)[r] = IF r = q THEN m[r] + w ELSE m[r]
      <4>1. w \in Int
        OBVIOUS
      <4>2. q \in Op!Dirs
        BY <2>2
      <4> QED
        BY <3>1, <4>1, <4>2, StepType
    <3>3. \A r \in Op!Dirs : Op!Step(m, q, w)[r] =
             IF r = d THEN a[r] + s ELSE IF r = q THEN a[r] + w ELSE a[r]
      BY <2>2, <3>1, <3>2
    <3> QED
      BY <3>2, <3>3 DEF m
  <2>4. e = <<d, p>>
    BY <2>1
  <2> HIDE DEF p
  <2>5. d \in {d, q} /\ w \in {-1, 0, 1} /\ (d = d => s = s) /\ (d = q => s = u /\ w # 1)
    BY <2>2
  <2>6. s \in Int /\ d \in {d, q}
    BY <1>9
  <2> QED
    BY <1>8, <2>2, <2>3, <2>4, <2>5, <2>6
<1>11. CASE \E q \in Op!Others(d), w \in {-1, 0} : e = <<q, Op!Step(Op!Step(a, d, u), q, w)>>
  <2>1. PICK q \in Op!Others(d), w \in {-1, 0} : e = <<q, Op!Step(Op!Step(a, d, u), q, w)>>
    BY <1>11
  <2>2. q \in Op!Dirs /\ q # d /\ Op!Step(a, d, u) \in Op!Node
    BY <1>0, <1>9, StepType DEF Op!Others
  <2> DEFINE p == Op!Step(Op!Step(a, d, u), q, w)
  <2>3. /\ p \in Op!Node
        /\ \A r \in Op!Dirs : p[r] = IF r = d THEN a[r] + u ELSE IF r = q THEN a[r] + w ELSE a[r]
    <3> DEFINE m == Op!Step(a, d, u)
    <3>1. m \in Op!Node /\ \A r \in Op!Dirs : m[r] = IF r = d THEN a[r] + u ELSE a[r]
      BY <1>0, <1>9, StepType
    <3> HIDE DEF m
    <3>2. Op!Step(m, q, w) \in Op!Node
          /\ \A r \in Op!Dirs : Op!Step(m, q, w)[r] = IF r = q THEN m[r] + w ELSE m[r]
      <4>1. w \in Int
        OBVIOUS
      <4>2. q \in Op!Dirs
        BY <2>2
      <4> QED
        BY <3>1, <4>1, <4>2, StepType
    <3>3. \A r \in Op!Dirs : Op!Step(m, q, w)[r] =
             IF r = d THEN a[r] + u ELSE IF r = q THEN a[r] + w ELSE a[r]
      BY <2>2, <3>1, <3>2
    <3> QED
      BY <3>2, <3>3 DEF m
  <2>4. e = <<q, p>>
    BY <2>1
  <2> HIDE DEF p
  <2>5. q \in {d, q} /\ w \in {-1, 0, 1} /\ (q = d => u = s) /\ (q = q => u = u /\ w # 1)
    BY <2>2
  <2> QED
    BY <1>8, <1>9, <2>2, <2>3, <2>4, <2>5
<1> QED
  BY <1>7, <1>10, <1>11

-----------------------------------------------------------------------------
(* Filling the ghosts.                                                     *)

\* What a ghost edge of the domain is filled from is a copy of it.
LEMMA Filled ==
    ASSUME Op!GridOK, NEW y, \A b \in Boxes : \A f \in Op!Valid[b] : y[b][f] = Op!Expected(f),
           NEW b \in Boxes, NEW e \in Op!Held[b]
    PROVE  /\ e \in Op!Valid[b] => Op!FillBoundary(y)[b][e] = y[b][e]
           /\ Op!Beyond(e) = {} => Op!FillBoundary(y)[b][e] = Op!Expected(e)
<1> DEFINE S == Op!Sources[b][e]
<1>0. e \in Op!Dirs \X Op!Node
  BY ValidAre
<1>1. Op!FillBoundary(y)[b][e] = IF S = {} THEN y[b][e]
                                 ELSE LET from == CHOOSE s \in S : TRUE IN y[from[1]][from[2]]
  BY DEF Op!FillBoundary
<1>2. S = IF e \in Op!Valid[b] THEN {}
          ELSE UNION {{c} \X {f \in Op!Valid[c] : Op!SameEdge(e, f)} : c \in Boxes}
  BY DEF Op!Sources
<1> HIDE DEF S
<1>3. CASE e \in Op!Valid[b]
  BY <1>1, <1>2, <1>3
<1>4. CASE e \notin Op!Valid[b]
  <2> SUFFICES ASSUME Op!Beyond(e) = {}
               PROVE  Op!FillBoundary(y)[b][e] = Op!Expected(e)
    BY <1>4
  <2>1. PICK d \in Op!Dirs, p \in Op!Node : e = <<d, p>>
    BY <1>0
  <2> DEFINE f == <<d, Op!Wrap(p)>>
  <2>2. Op!Wrap(p) \in Op!Node /\ f \in Op!Dirs \X Op!Node /\ f[1] = d /\ f[2] = Op!Wrap(p)
    BY WrapIs
  <2>3. Op!SameEdge(e, f)
    BY <2>1, <2>2, WrapTwice DEF Op!SameEdge
  <2>4. ASSUME NEW q \in Op!Dirs
        PROVE  DomLo[q] <= f[2][q] /\ f[2][q] <= DomHi[q] - (IF q = f[1] THEN 1 ELSE 0)
    <3>1. /\ p[q] \in Int /\ DomLo[q] \in Int /\ DomHi[q] \in Int
          /\ DomHi[q] - DomLo[q] \in Nat \ {0} /\ p[q] - DomLo[q] \in Int
      BY DEF Op!GridOK, Op!Node
    <3>2. CASE LoBC[q] = "Periodic"
      <4> DEFINE r == (p[q] - DomLo[q]) % (DomHi[q] - DomLo[q])
      <4>1. r \in 0..(DomHi[q] - DomLo[q])-1
        BY <3>1, ModOfInt
      <4>2. f[2][q] = DomLo[q] + r
        BY <2>2, <3>2, WrapIs
      <4> HIDE DEF r, f
      <4>3. DomLo[q] <= f[2][q] /\ f[2][q] <= DomHi[q] - 1
        BY <3>1, <4>1, <4>2
      <4> QED
        BY <3>1, <4>1, <4>2, <4>3
    <3>3. CASE LoBC[q] # "Periodic"
      <4>1. f[2][q] = p[q]
        BY <2>2, <3>3, WrapIs
      <4>2. ~(p[q] < DomLo[q]) /\ ~(p[q] > DomHi[q] - (IF q = d THEN 1 ELSE 0))
        BY <2>1, <3>3, BeyondIs
      <4> QED
        BY <2>2, <3>1, <4>1, <4>2
    <3> QED
      BY <3>2, <3>3
  <2>5. InDomain(f)
    BY <2>4 DEF InDomain
  <2>6. PICK c \in Boxes : f \in Op!Valid[c]
    BY <2>2, <2>5, DomainCovered
  <2>7. <<c, f>> \in S
    BY <1>2, <1>4, <2>3, <2>6
  <2> DEFINE from == CHOOSE s \in S : TRUE
  <2>8. from \in S /\ Op!FillBoundary(y)[b][e] = y[from[1]][from[2]]
    BY <1>1, <2>7
  <2> HIDE DEF from, f
  <2>9. PICK k \in Boxes : from \in {k} \X {g \in Op!Valid[k] : Op!SameEdge(e, g)}
    BY <1>2, <1>4, <2>8
  <2>10. from[1] \in Boxes /\ from[2] \in Op!Valid[from[1]] /\ Op!SameEdge(e, from[2])
    BY <2>9
  <2>11. y[from[1]][from[2]] = Op!Expected(from[2]) /\ from[2] \in Op!Dirs \X Op!Node
    BY <2>10, ValidAre
  <2> QED
    BY <1>0, <2>8, <2>10, <2>11, SameExpected
<1> QED
  BY <1>3, <1>4

LEMMA InnerIs ==
    ASSUME NEW e
    PROVE  /\ Op!Beyond(e) = {} => Op!Inner(e) = e
           /\ \A q \in Op!Dirs : Op!Beyond(e) = {q} => Op!Inner(e) = Op!MirrorOf(e, q)
<1>1. ASSUME NEW q \in Op!Dirs, Op!Beyond(e) = {q}
      PROVE  Op!Inner(e) = Op!MirrorOf(e, q)
  <2>1. Op!Beyond(e) # {} /\ (CHOOSE p \in Op!Dirs : Op!Beyond(e) = {p}) = q
    BY <1>1
  <2> QED
    BY <2>1 DEF Op!Inner
<1> QED
  BY <1>1 DEF Op!Inner

\* After applyBC every edge in place has its stamp.
LEMMA GhostsRight ==
    ASSUME Op!GridOK, NEW y, \A b \in Boxes : \A f \in Op!Valid[b] : y[b][f] = Op!Expected(f),
           NEW b \in Boxes, NEW e, InPlace(b, e)
    PROVE  Op!applyBC(y)[b][e] = Op!Expected(Op!Inner(e))
<1>1. e \in Op!Held[b]
  BY DEF InPlace
<1> DEFINE z == Op!FillBoundary(y)
<1>2. Op!applyBC(y)[b][e] = IF \E q \in Op!Dirs : Op!Beyond(e) = {q} /\ Op!SymmetricFace(e, q)
                            THEN z[b][Op!MirrorOf(e, CHOOSE q \in Op!Dirs : Op!Beyond(e) = {q})]
                            ELSE z[b][e]
  BY <1>1 DEF Op!applyBC
<1> HIDE DEF z
<1>3. CASE Op!Beyond(e) = {}
  <2>1. Op!applyBC(y)[b][e] = z[b][e] /\ Op!Inner(e) = e
    BY <1>2, <1>3, InnerIs
  <2> QED
    BY <1>1, <1>3, <2>1, Filled DEF z
<1>4. CASE Op!Beyond(e) # {}
  <2>1. PICK q \in Op!Dirs : /\ Op!Beyond(e) = {q} /\ Op!SymmetricFace(e, q)
                             /\ Op!MirrorOf(e, q) \in Op!Held[b]
                             /\ Op!Beyond(Op!MirrorOf(e, q)) = {}
    BY <1>4 DEF InPlace
  <2>2. (CHOOSE p \in Op!Dirs : Op!Beyond(e) = {p}) = q
    BY <2>1
  <2>3. Op!applyBC(y)[b][e] = z[b][Op!MirrorOf(e, q)] /\ Op!Inner(e) = Op!MirrorOf(e, q)
    BY <1>2, <2>1, <2>2, InnerIs
  <2> QED
    BY <2>1, <2>3, Filled DEF z
<1> QED
  BY <1>3, <1>4

LEMMA ValidInPlace ==
    ASSUME Op!GridOK, NEW b \in Boxes, NEW e \in Op!Valid[b]
    PROVE  InPlace(b, e) /\ Op!Beyond(e) = {} /\ Op!Inner(e) = e
<1>1. e \in Op!Dirs \X Op!Node /\ e \in Op!Held[b] /\ InDomain(e)
  BY ValidAre
<1>2. PICK d \in Op!Dirs, p \in Op!Node : e = <<d, p>>
  BY <1>1
<1>3. ASSUME NEW q \in Op!Dirs PROVE q \notin Op!Beyond(e)
  <2>1. p[q] \in Int /\ DomLo[q] \in Int /\ DomHi[q] \in Int
    BY DEF Op!GridOK, Op!Node
  <2>2. DomLo[q] <= p[q] /\ p[q] <= DomHi[q] - (IF q = d THEN 1 ELSE 0)
    BY <1>1, <1>2 DEF InDomain
  <2>3. ~(p[q] < DomLo[q]) /\ ~(p[q] > DomHi[q] - (IF q = d THEN 1 ELSE 0))
    BY <2>1, <2>2
  <2> QED
    BY <1>2, <2>3, BeyondIs
<1>4. Op!Beyond(e) = {}
  BY <1>3 DEF Op!Beyond
<1> QED
  BY <1>1, <1>4, InnerIs DEF InPlace

-----------------------------------------------------------------------------
(* The stamp an edge should have.                                          *)

Relaxing(e) == {m \in Op!Ends(e) : ~Op!is_dirichlet_node(m) /\ Op!my_color(m) \in Op!Colors}

\* Of the edit ed and the colours' last steps la.
MaxStamp(ed, la, e) == Op!Max({ed} \cup {la[Op!my_color(m)] : m \in Relaxing(e)})

LEMMA ExpectedIs ==
    ASSUME NEW e
    PROVE  /\ Op!Expected(e) = MaxStamp(edited, last, e)
           /\ Op!Expected(e)' = MaxStamp(edited', last', e)
BY DEF Op!Expected, MaxStamp, Relaxing

LEMMA MaxStampIs ==
    ASSUME NEW w \in Nat, NEW ed \in 0..w, NEW la \in [Op!Colors -> 0..w], NEW e
    PROVE  /\ MaxStamp(ed, la, e) \in 0..w /\ ed <= MaxStamp(ed, la, e)
           /\ \A m \in Relaxing(e) : la[Op!my_color(m)] <= MaxStamp(ed, la, e)
           /\ \/ MaxStamp(ed, la, e) = ed
              \/ \E m \in Relaxing(e) : MaxStamp(ed, la, e) = la[Op!my_color(m)]
<1> DEFINE S == {ed} \cup {la[Op!my_color(m)] : m \in Relaxing(e)}
           u == Op!Wrap(e[2])
           v == Op!Wrap(Op!Step(e[2], e[1], 1))
<1>1. MaxStamp(ed, la, e) = Op!Max(S)
  BY DEF MaxStamp
<1>2. S \subseteq 0..w
  BY DEF Relaxing
<1>3. S \subseteq {ed, la[Op!my_color(u)], la[Op!my_color(v)]}
  BY DEF Relaxing, Op!Ends
<1>4. ed \in S
  OBVIOUS
<1> HIDE DEF S, u, v
<1>5. \E i \in S : \A j \in S : i >= j
  <2> DEFINE p == la[Op!my_color(u)]
             q == la[Op!my_color(v)]
  <2>1. S \subseteq {ed, p, q} /\ S \subseteq Int /\ ed \in Int
    BY <1>2, <1>3, <1>4
  <2> HIDE DEF p, q
  <2>2. CASE p \in S /\ q \in S
    BY <1>4, <2>1, <2>2
  <2>3. CASE p \in S /\ q \notin S
    BY <1>4, <2>1, <2>3
  <2>4. CASE p \notin S /\ q \in S
    BY <1>4, <2>1, <2>4
  <2>5. CASE p \notin S /\ q \notin S
    BY <1>4, <2>1, <2>5
  <2> QED
    BY <2>2, <2>3, <2>4, <2>5
<1>6. Op!Max(S) \in S /\ \A j \in S : Op!Max(S) >= j
  BY <1>5 DEF Op!Max
<1>7. Op!Max(S) \in 0..w /\ \A j \in S : j <= Op!Max(S)
  BY <1>2, <1>4, <1>6
<1> QED
  BY <1>1, <1>4, <1>6, <1>7 DEF S

\* An edit changes all stamps.
LEMMA EditedExpected ==
    ASSUME NEW w \in Nat, NEW la \in [Op!Colors -> 0..w], NEW e
    PROVE  MaxStamp(w, la, e) = w
<1>1. w \in 0..w
  OBVIOUS
<1>2. MaxStamp(w, la, e) \in 0..w /\ w <= MaxStamp(w, la, e)
  BY <1>1, MaxStampIs
<1> QED
  BY <1>2

\* A colour changes the stamps of the edges it relaxes, and no others.
LEMMA ColorExpected ==
    ASSUME NEW w \in Nat, NEW ed \in 0..w, NEW la \in [Op!Colors -> 0..w],
           NEW c \in Op!Colors, NEW e,
           NEW lb \in [Op!Colors -> 0..w+1],
           \A k \in Op!Colors : lb[k] = IF k = c THEN w + 1 ELSE la[k]
    PROVE  /\ (\E m \in Relaxing(e) : Op!my_color(m) = c) => MaxStamp(ed, lb, e) = w + 1
           /\ ~(\E m \in Relaxing(e) : Op!my_color(m) = c) =>
                 MaxStamp(ed, lb, e) = MaxStamp(ed, la, e)
<1> DEFINE v == w + 1
           i == MaxStamp(ed, la, e)
           j == MaxStamp(ed, lb, e)
<1>1. v \in Nat /\ ed \in 0..v /\ lb \in [Op!Colors -> 0..v]
  OBVIOUS
<1>2. \A m \in Relaxing(e) : /\ Op!my_color(m) \in Op!Colors
                             /\ lb[Op!my_color(m)] = IF Op!my_color(m) = c THEN w + 1
                                                     ELSE la[Op!my_color(m)]
  BY DEF Relaxing
<1>3. /\ i \in 0..w /\ ed <= i
      /\ \A m \in Relaxing(e) : la[Op!my_color(m)] <= i
      /\ i = ed \/ \E m \in Relaxing(e) : i = la[Op!my_color(m)]
  BY MaxStampIs
<1> HIDE DEF v
<1>4. /\ j \in 0..v /\ ed <= j
      /\ \A m \in Relaxing(e) : lb[Op!my_color(m)] <= j
      /\ j = ed \/ \E m \in Relaxing(e) : j = lb[Op!my_color(m)]
  BY <1>1, MaxStampIs
<1>5. v = w + 1
  BY DEF v
<1> HIDE DEF i, j
<1>6. CASE \E m \in Relaxing(e) : Op!my_color(m) = c
  <2>1. w + 1 <= j
    BY <1>2, <1>4, <1>6
  <2>2. j = w + 1
    BY <1>4, <1>5, <2>1
  <2> QED
    BY <1>6, <2>2 DEF j
<1>7. CASE ~\E m \in Relaxing(e) : Op!my_color(m) = c
  <2>1. \A m \in Relaxing(e) : lb[Op!my_color(m)] = la[Op!my_color(m)]
    BY <1>2, <1>7
  <2>2. j <= i
    BY <1>3, <1>4, <2>1
  <2>3. i <= j
    BY <1>3, <1>4, <2>1
  <2>4. i = j
    BY <1>3, <1>4, <1>5, <2>2, <2>3
  <2> QED
    BY <1>7, <2>4 DEF i, j
<1> QED
  BY <1>6, <1>7

\* The threads that write an edge of a box have the colours of its nodes, wherever the copies of
\* these nodes are.
LEMMA Relaxed ==
    ASSUME Op!GridOK, Op!DomainAssumption, NEW b \in Boxes,
           NEW e \in Op!Valid[b], NEW c \in Op!Colors
    PROVE  (\E t \in Op!OfColor(c) : t[1] = b /\ e \in Op!Writes(t[2]))
             <=> \E m \in Relaxing(e) : Op!my_color(m) = c
<1>0. e \in Op!Dirs \X Op!Node
  BY ValidAre
<1>1. PICK d \in Op!Dirs, a \in Op!Node : e = <<d, a>>
  BY <1>0
<1> DEFINE v == Op!Step(a, d, 1)
<1>2. v \in Op!Node /\ \A q \in Op!Dirs : v[q] = IF q = d THEN a[q] + 1 ELSE a[q]
  BY StepType
<1> HIDE DEF v
<1>3. ASSUME NEW q \in Op!Dirs
      PROVE  /\ b[1][q] <= a[q] /\ a[q] <= b[2][q] /\ b[1][q] <= v[q] /\ v[q] <= b[2][q]
             /\ a[q] >= 0 /\ v[q] >= 0
  <2>1. b[1][q] <= a[q] /\ a[q] <= b[2][q] - (IF q = d THEN 1 ELSE 0)
    BY <1>1, ValidAre
  <2>2. b[1][q] \in Nat /\ b[2][q] \in Int /\ a[q] \in Int
    BY DEF Op!GridOK, Op!Node
  <2> QED
    BY <1>2, <2>1, <2>2
<1>4. a \in NatNode /\ v \in NatNode
  BY <1>2, <1>3 DEF NatNode
<1>5. \A nd \in {a, v} : /\ <<b, nd>> \in Op!Threads <=> ~Op!is_dirichlet_node(nd)
                         /\ Op!my_color(Op!Wrap(nd)) = Op!my_color(nd)
                         /\ Op!my_color(nd) \in Op!Colors
                         /\ Op!is_dirichlet_node(Op!Wrap(nd)) <=> Op!is_dirichlet_node(nd)
  <2> TAKE nd \in {a, v}
  <2>1. nd \in NatNode /\ nd \in Op!Node
    BY <1>2, <1>4
  <2>2. \A q \in Op!Dirs : b[1][q] <= nd[q] /\ nd[q] <= b[2][q]
    BY <1>3
  <2>3. <<b, nd>> \in Op!Threads <=> ~Op!is_dirichlet_node(nd)
    BY <2>1, <2>2, ThreadsAre
  <2> QED
    BY <2>1, <2>3, WrapColor, WrapDirichlet
<1>6. Op!Ends(e) = {Op!Wrap(a), Op!Wrap(v)}
  BY <1>1 DEF Op!Ends, v
<1>7. ASSUME NEW t \in Op!OfColor(c), t[1] = b, e \in Op!Writes(t[2])
      PROVE  \E m \in Relaxing(e) : Op!my_color(m) = c
  <2>1. t \in Op!Threads /\ Op!my_color(t[2]) = c
    BY DEF Op!OfColor
  <2>2. t \in Boxes \X NatNode /\ t[2] \in Op!Node
    BY <2>1, ThreadsAre DEF NatNode
  <2>3. t[2] \in {a, v}
    BY <1>0, <1>1, <1>7, <2>2, WritersAre DEF v
  <2>4. t = <<b, t[2]>>
    BY <1>7, <2>2
  <2>5. ~Op!is_dirichlet_node(t[2])
    BY <1>5, <2>1, <2>3, <2>4
  <2>6. Op!Wrap(t[2]) \in Relaxing(e) /\ Op!my_color(Op!Wrap(t[2])) = c
    BY <1>5, <1>6, <2>1, <2>3, <2>5 DEF Relaxing
  <2> QED
    BY <2>6
<1>8. ASSUME NEW m \in Relaxing(e), Op!my_color(m) = c
      PROVE  \E t \in Op!OfColor(c) : t[1] = b /\ e \in Op!Writes(t[2])
  <2>1. PICK nd \in {a, v} : m = Op!Wrap(nd)
    BY <1>6 DEF Relaxing
  <2>2. ~Op!is_dirichlet_node(nd) /\ Op!my_color(nd) = c
    BY <1>5, <1>8, <2>1 DEF Relaxing
  <2>3. <<b, nd>> \in Op!OfColor(c)
    BY <1>5, <2>2 DEF Op!OfColor
  <2>4. e \in Op!Writes(nd)
    BY <1>0, <1>1, <1>2, WritersAre DEF v
  <2> QED
    BY <2>3, <2>4
<1> QED
  BY <1>7, <1>8

-----------------------------------------------------------------------------
(* The inductive invariant of the smoother.                                *)

SmoothTypes ==
    /\ step \in Nat /\ edited \in 0..step /\ last \in [Op!Colors -> 0..step]
    /\ color \in Op!Colors /\ skip_fillboundary \in BOOLEAN
    /\ smoother \in {"setup", "solve", "smooth", "threads"}
    /\ DOMAIN x = Boxes /\ \A b \in Boxes : DOMAIN x[b] = Op!Held[b]

\* The threads of this colour that have not run, and those of the colours to come.
SmoothTurn ==
    /\ smoother \in {"setup", "solve"} => color = 0
    /\ smoother = "threads" =>
          running \subseteq Op!OfColor(color)
          /\ todo = running \cup {t \in Op!Threads : Op!my_color(t[2]) > color}
    /\ smoother # "threads" =>
          running = {}
          /\ todo = IF color = 0 THEN {} ELSE {t \in Op!Threads : Op!my_color(t[2]) >= color}

\* The ghosts need not be filled only where everything is zero.
SkipOK ==
    /\ smoother = "threads" => ~skip_fillboundary
    /\ smoother = "smooth" /\ skip_fillboundary =>
          x = Op!Zero /\ edited = 0 /\ last = [c \in Op!Colors |-> 0]

CopiesRight ==
    smoother # "threads" => \A b \in Boxes : \A e \in Op!Valid[b] : x[b][e] = Op!Expected(e)

Written(b, e) == \E t \in Op!OfColor(color) \ running : t[1] = b /\ e \in Op!Writes(t[2])

\* While a colour runs: what its threads have written, and everything else as it was, in the
\* ghosts that are read as well.
ColorRight ==
    smoother = "threads" =>
        \A b \in Boxes : \A e : InPlace(b, e) =>
            x[b][e] = IF Written(b, e) THEN step + 1 ELSE Op!Expected(Op!Inner(e))

SweepInv == SmoothTypes /\ SmoothTurn /\ SkipOK /\ CopiesRight /\ ColorRight

LEMMA ZeroExpected ==
    ASSUME NEW e
    PROVE  MaxStamp(0, [c \in Op!Colors |-> 0], e) = 0
<1>1. [c \in Op!Colors |-> 0] \in [Op!Colors -> 0..0] /\ 0 \in 0..0 /\ 0 \in Nat
  OBVIOUS
<1>2. MaxStamp(0, [c \in Op!Colors |-> 0], e) \in 0..0
  BY <1>1, MaxStampIs
<1> QED
  BY <1>2

\* Everything is zero: at the beginning, between solves and at the top of a V-cycle.
LEMMA ZeroSweep ==
    ASSUME Op!GridOK, x' = Op!Zero, step' = 0, edited' = 0, last' = [c \in Op!Colors |-> 0],
           color' = 0,
           running' = {}, todo' = {}, smoother' \in {"setup", "solve", "smooth"},
           skip_fillboundary' \in BOOLEAN
    PROVE  SweepInv'
<1>1. SmoothTypes'
  BY DEF SmoothTypes, Op!Zero, Op!Colors
<1>2. SmoothTurn' /\ SkipOK' /\ ColorRight'
  BY DEF SmoothTurn, SkipOK, ColorRight
<1>3. ASSUME NEW b \in Boxes, NEW e \in Op!Valid[b]
      PROVE  x'[b][e] = Op!Expected(e)'
  <2>1. e \in Op!Held[b]
    BY ValidAre
  <2>2. x'[b][e] = 0
    BY <2>1 DEF Op!Zero
  <2>3. Op!Expected(e)' = MaxStamp(edited', last', e)
    BY ExpectedIs
  <2> QED
    BY <2>2, <2>3, ZeroExpected
<1> QED
  BY <1>1, <1>2, <1>3 DEF SweepInv, CopiesRight

LEMMA SweepInvInit == ASSUME Op!GridOK, Op!Init PROVE SweepInv
<1>1. /\ x = Op!Zero /\ step = 0 /\ edited = 0 /\ last = [c \in Op!Colors |-> 0] /\ color = 0
      /\ running = {} /\ todo = {} /\ smoother = "setup" /\ skip_fillboundary = FALSE
  BY DEF Op!Init
<1>2. SmoothTypes
  <2>1. step \in Nat /\ edited \in 0..step /\ last \in [Op!Colors -> 0..step] /\ color \in Op!Colors
    BY <1>1 DEF Op!Colors
  <2>2. skip_fillboundary \in BOOLEAN /\ smoother \in {"setup", "solve", "smooth", "threads"}
    BY <1>1
  <2>3. DOMAIN x = Boxes /\ \A b \in Boxes : DOMAIN x[b] = Op!Held[b]
    BY <1>1 DEF Op!Zero
  <2> QED
    BY <2>1, <2>2, <2>3 DEF SmoothTypes
<1>3. SmoothTurn /\ SkipOK /\ ColorRight
  BY <1>1 DEF SmoothTurn, SkipOK, ColorRight
<1>4. ASSUME NEW b \in Boxes, NEW e \in Op!Valid[b]
      PROVE  x[b][e] = Op!Expected(e)
  <2>1. e \in Op!Held[b]
    BY ValidAre
  <2>2. x[b][e] = 0
    BY <1>1, <2>1 DEF Op!Zero
  <2>3. Op!Expected(e) = MaxStamp(edited, last, e)
    BY ExpectedIs
  <2> QED
    BY <1>1, <2>2, <2>3, ZeroExpected
<1> QED
  BY <1>2, <1>3, <1>4 DEF SweepInv, CopiesRight

\* The set-up calls and the beginning of a solve.
LEMMA SetupSweep ==
    ASSUME SweepInv, smoother # "threads", smoother' \in {smoother, "solve"},
           smoother' # smoother => smoother = "setup",
           UNCHANGED <<x, step, edited, last, color, skip_fillboundary, running, todo>>
    PROVE  SweepInv'
<1>1. smoother' # "threads" /\ smoother' \in {"setup", "solve", "smooth", "threads"}
  BY DEF SweepInv, SmoothTypes
<1>2. SmoothTypes'
  BY <1>1 DEF SweepInv, SmoothTypes
<1>3. SmoothTurn'
  BY <1>1 DEF SweepInv, SmoothTurn
<1>4. SkipOK' /\ ColorRight'
  BY <1>1 DEF SweepInv, SkipOK, ColorRight
<1>5. \A e : Op!Expected(e)' = Op!Expected(e)
  BY ExpectedIs
<1>6. CopiesRight'
  BY <1>5 DEF SweepInv, CopiesRight
<1> QED
  BY <1>2, <1>3, <1>4, <1>6 DEF SweepInv

LEMMA ChangedSweep ==
    ASSUME Op!GridOK, SweepInv, Op!SmoothChanged
    PROVE  SweepInv'
<1>1. /\ smoother = "solve" /\ smoother' = "smooth" /\ color' = 0 /\ skip_fillboundary' = FALSE
      /\ step' = step + 1 /\ edited' = step + 1 /\ UNCHANGED <<last, running, todo>>
      /\ x' = [b \in Boxes |-> [e \in Op!Held[b] |->
                                  IF e \in Op!Valid[b] THEN step + 1 ELSE x[b][e]]]
  BY DEF Op!SmoothChanged, Op!smooth
<1>2. step \in Nat /\ last \in [Op!Colors -> 0..step]
  BY DEF SweepInv, SmoothTypes
<1>3. /\ step + 1 \in Nat /\ step + 1 \in 0..step+1
      /\ last \in [Op!Colors -> 0..step+1] /\ 0 \in Op!Colors
  BY <1>2 DEF Op!Colors
<1>4. SmoothTypes'
  BY <1>1, <1>3 DEF SmoothTypes
<1>5. running = {} /\ todo = {}
  BY <1>1 DEF SweepInv, SmoothTurn
<1>6. SmoothTurn' /\ SkipOK' /\ ColorRight'
  BY <1>1, <1>5 DEF SmoothTurn, SkipOK, ColorRight
<1>7. ASSUME NEW b \in Boxes, NEW e \in Op!Valid[b]
      PROVE  x'[b][e] = Op!Expected(e)'
  <2>1. e \in Op!Held[b]
    BY ValidAre
  <2>2. x'[b][e] = step + 1
    BY <1>1, <2>1
  <2>3. Op!Expected(e)' = MaxStamp(step + 1, last, e)
    BY <1>1, ExpectedIs
  <2> QED
    BY <1>3, <2>2, <2>3, EditedExpected
<1> QED
  BY <1>4, <1>6, <1>7 DEF SweepInv, CopiesRight

LEMMA LaunchSweep ==
    ASSUME Op!GridOK, Op!DomainAssumption, SweepInv, Op!smooth4
    PROVE  SweepInv'
<1>1. /\ smoother = "smooth" /\ smoother' = "threads" /\ x' = Op!BC(x) /\ skip_fillboundary' = FALSE
      /\ running' = Op!OfColor(color) /\ todo' = IF color = 0 THEN Op!Threads ELSE todo
      /\ UNCHANGED <<step, edited, last, color>>
  BY DEF Op!smooth4
<1>2. SmoothTypes'
  <2>1. DOMAIN Op!BC(x) = Boxes /\ \A b \in Boxes : DOMAIN Op!BC(x)[b] = Op!Held[b]
    BY DEF Op!BC, Op!applyBC, SweepInv, SmoothTypes
  <2> QED
    BY <1>1, <2>1 DEF SweepInv, SmoothTypes
<1>3. SmoothTurn'
  <2>1. \A t \in Op!Threads : Op!my_color(t[2]) \in 0..3
    BY ThreadsAre, WrapColor DEF Op!Colors
  <2>2. color \in 0..3
    BY DEF SweepInv, SmoothTypes, Op!Colors
  <2>3. Op!Threads = Op!OfColor(0) \cup {t \in Op!Threads : Op!my_color(t[2]) > 0}
    BY <2>1 DEF Op!OfColor
  <2>4. {t \in Op!Threads : Op!my_color(t[2]) >= color} =
          Op!OfColor(color) \cup {t \in Op!Threads : Op!my_color(t[2]) > color}
    BY <2>1, <2>2 DEF Op!OfColor
  <2>5. todo' = running' \cup {t \in Op!Threads : Op!my_color(t[2]) > color}
    BY <1>1, <2>3, <2>4 DEF SweepInv, SmoothTurn
  <2> QED
    BY <1>1, <2>5 DEF SmoothTurn
<1>4. SkipOK' /\ CopiesRight'
  BY <1>1 DEF SkipOK, CopiesRight
<1>5. ASSUME NEW b \in Boxes, NEW e, InPlace(b, e)
      PROVE  x'[b][e] = IF Written(b, e)' THEN (step + 1)' ELSE Op!Expected(Op!Inner(e))'
  <2>1. ~Written(b, e)'
    BY <1>1 DEF Written
  <2>2. Op!Expected(Op!Inner(e))' = Op!Expected(Op!Inner(e))
    BY <1>1, ExpectedIs DEF Op!Inner
  <2>3. x'[b][e] = Op!Expected(Op!Inner(e))
    <3>1. CASE skip_fillboundary
      <4>1. x = Op!Zero /\ edited = 0 /\ last = [c \in Op!Colors |-> 0]
        BY <1>1, <3>1 DEF SweepInv, SkipOK
      <4>2. x' = x /\ e \in Op!Held[b]
        BY <1>1, <1>5, <3>1 DEF Op!BC, InPlace
      <4>3. x'[b][e] = 0
        BY <4>1, <4>2 DEF Op!Zero
      <4>4. Op!Expected(Op!Inner(e)) = 0
        BY <4>1, ExpectedIs, ZeroExpected
      <4> QED
        BY <4>3, <4>4
    <3>2. CASE ~skip_fillboundary
      <4>1. x' = Op!applyBC(x)
        BY <1>1, <3>2 DEF Op!BC
      <4>2. \A c \in Boxes : \A f \in Op!Valid[c] : x[c][f] = Op!Expected(f)
        BY <1>1 DEF SweepInv, CopiesRight
      <4> QED
        BY <1>5, <4>1, <4>2, GhostsRight
    <3> QED
      BY <3>1, <3>2
  <2> QED
    BY <2>1, <2>2, <2>3
<1>6. ColorRight'
  BY <1>5 DEF ColorRight, InPlace
<1> QED
  BY <1>2, <1>3, <1>4, <1>6 DEF SweepInv

LEMMA ThreadSweep ==
    ASSUME Op!GridOK, SweepInv, NEW t \in Op!Threads, Op!gs4(t)
    PROVE  SweepInv'
<1>1. /\ smoother = "threads" /\ t \in running /\ running' = running \ {t} /\ todo' = todo \ {t}
      /\ x' = [x EXCEPT ![t[1]] = [e \in Op!Held[t[1]] |->
                  IF e \in Op!Writes(t[2]) THEN step + 1 ELSE x[t[1]][e]]]
      /\ UNCHANGED <<smoother, color, skip_fillboundary, step, edited, last>>
  BY DEF Op!gs4
<1>2. /\ DOMAIN x = Boxes /\ (\A b \in Boxes : DOMAIN x[b] = Op!Held[b])
      /\ running \subseteq Op!OfColor(color)
      /\ todo = running \cup {u \in Op!Threads : Op!my_color(u[2]) > color}
  BY <1>1 DEF SweepInv, SmoothTypes, SmoothTurn
<1>3. t[1] \in Boxes /\ t \in Op!OfColor(color) /\ Op!my_color(t[2]) = color /\ color \in 0..3
  BY <1>1, <1>2, ThreadsAre DEF Op!OfColor, SweepInv, SmoothTypes, Op!Colors
<1>4. /\ DOMAIN x' = Boxes
      /\ \A b \in Boxes : b # t[1] => x'[b] = x[b]
      /\ x'[t[1]] = [e \in Op!Held[t[1]] |-> IF e \in Op!Writes(t[2]) THEN step + 1 ELSE x[t[1]][e]]
  BY <1>1, <1>2, <1>3
<1>5. SmoothTypes'
  <2>1. \A b \in Boxes : DOMAIN x'[b] = Op!Held[b]
    BY <1>2, <1>4
  <2> QED
    BY <1>1, <1>4, <2>1 DEF SweepInv, SmoothTypes
<1>6. SmoothTurn'
  <2>1. t \notin {u \in Op!Threads : Op!my_color(u[2]) > color}
    BY <1>3
  <2>2. todo' = running' \cup {u \in Op!Threads : Op!my_color(u[2]) > color}
    BY <1>1, <1>2, <2>1
  <2> QED
    BY <1>1, <1>2, <2>2 DEF SmoothTurn
<1>7. SkipOK' /\ CopiesRight'
  BY <1>1 DEF SweepInv, SkipOK, CopiesRight
<1>8. ASSUME NEW b \in Boxes, NEW e, InPlace(b, e)
      PROVE  x'[b][e] = IF Written(b, e)' THEN (step + 1)' ELSE Op!Expected(Op!Inner(e))'
  <2>1. Written(b, e)' <=> Written(b, e) \/ (b = t[1] /\ e \in Op!Writes(t[2]))
    BY <1>1, <1>3 DEF Written
  <2>2. Op!Expected(Op!Inner(e))' = Op!Expected(Op!Inner(e)) /\ e \in Op!Held[b]
    BY <1>1, <1>8, ExpectedIs DEF Op!Inner, InPlace
  <2>3. x[b][e] = IF Written(b, e) THEN step + 1 ELSE Op!Expected(Op!Inner(e))
    BY <1>1, <1>8 DEF SweepInv, ColorRight
  <2>4. x'[b][e] = IF b = t[1] /\ e \in Op!Writes(t[2]) THEN step + 1 ELSE x[b][e]
    BY <1>4, <2>2
  <2> QED
    BY <1>1, <2>1, <2>2, <2>3, <2>4
<1>9. ColorRight'
  BY <1>8 DEF ColorRight, InPlace
<1> QED
  BY <1>5, <1>6, <1>7, <1>9 DEF SweepInv

LEMMA EndColorSweep ==
    ASSUME Op!GridOK, Op!DomainAssumption, SweepInv, Op!EndColor
    PROVE  SweepInv'
<1>1. /\ smoother = "threads" /\ running = {} /\ step' = step + 1
      /\ last' = [last EXCEPT ![color] = step + 1] /\ color' = Op!NextColor(color)
      /\ smoother' = IF color = 3 /\ sweep = niter THEN "solve" ELSE "smooth"
      /\ UNCHANGED <<skip_fillboundary, x, edited, running, todo>>
  BY DEF Op!EndColor
<1>2. /\ step \in Nat /\ edited \in 0..step /\ last \in [Op!Colors -> 0..step] /\ color \in 0..3
      /\ color \in Op!Colors
  BY DEF SweepInv, SmoothTypes, Op!Colors
<1>3. color' = (IF color = 3 THEN 0 ELSE color + 1) /\ color' \in Op!Colors
      /\ smoother' \in {"solve", "smooth"} /\ (smoother' = "solve" => color' = 0)
  BY <1>1, <1>2 DEF Op!NextColor, Op!Colors
<1>4. SmoothTypes'
  <2>1. /\ step + 1 \in Nat /\ edited \in 0..step+1
        /\ [last EXCEPT ![color] = step + 1] \in [Op!Colors -> 0..step+1]
    BY <1>2
  <2> QED
    BY <1>1, <1>3, <2>1 DEF SweepInv, SmoothTypes
<1>5. SmoothTurn'
  <2>1. \A t \in Op!Threads : Op!my_color(t[2]) \in 0..3
    BY ThreadsAre, WrapColor DEF Op!Colors
  <2>2. todo = {t \in Op!Threads : Op!my_color(t[2]) > color}
    BY <1>1 DEF SweepInv, SmoothTurn
  <2>3. todo' = IF color' = 0 THEN {} ELSE {t \in Op!Threads : Op!my_color(t[2]) >= color'}
    <3>1. CASE color = 3
      BY <1>1, <1>3, <2>1, <2>2, <3>1
    <3>2. CASE color # 3
      <4>1. \A t \in Op!Threads : Op!my_color(t[2]) > color <=> Op!my_color(t[2]) >= color'
        BY <1>2, <1>3, <2>1, <3>2
      <4>2. color' # 0
        BY <1>2, <1>3, <3>2
      <4> QED
        BY <1>1, <2>2, <4>1, <4>2
    <3> QED
      BY <3>1, <3>2
  <2> QED
    BY <1>1, <1>3, <2>3 DEF SmoothTurn
<1>6. SkipOK' /\ ColorRight'
  <2>1. skip_fillboundary = FALSE
    BY <1>1 DEF SweepInv, SkipOK
  <2> QED
    BY <1>1, <1>3, <2>1 DEF SkipOK, ColorRight
<1>7. ASSUME NEW b \in Boxes, NEW e \in Op!Valid[b]
      PROVE  x'[b][e] = Op!Expected(e)'
  <2>1. InPlace(b, e) /\ Op!Inner(e) = e
    BY ValidInPlace
  <2>2. x[b][e] = IF Written(b, e) THEN step + 1 ELSE Op!Expected(e)
    BY <1>1, <2>1 DEF SweepInv, ColorRight
  <2>3. Written(b, e) <=> \E m \in Relaxing(e) : Op!my_color(m) = color
    BY <1>1, <1>2, Relaxed DEF Written
  <2>4. Op!Expected(e)' = MaxStamp(edited, last', e)
        /\ Op!Expected(e) = MaxStamp(edited, last, e)
    BY <1>1, ExpectedIs
  <2>5. Op!Expected(e)' = IF \E m \in Relaxing(e) : Op!my_color(m) = color
                          THEN step + 1 ELSE Op!Expected(e)
    <3>1. /\ step \in Nat /\ edited \in 0..step
          /\ last \in [Op!Colors -> 0..step] /\ color \in Op!Colors
      BY <1>2
    <3>2. last' \in [Op!Colors -> 0..step+1]
          /\ \A k \in Op!Colors : last'[k] = IF k = color THEN step + 1 ELSE last[k]
      BY <1>1, <3>1
    <3>3. /\ (\E m \in Relaxing(e) : Op!my_color(m) = color) =>
                MaxStamp(edited, last', e) = step + 1
          /\ ~(\E m \in Relaxing(e) : Op!my_color(m) = color) =>
                MaxStamp(edited, last', e) = MaxStamp(edited, last, e)
      BY <3>1, <3>2, ColorExpected
    <3> QED
      BY <2>4, <3>3
  <2> QED
    BY <1>1, <2>2, <2>3, <2>5
<1> QED
  BY <1>4, <1>5, <1>6, <1>7 DEF SweepInv, CopiesRight

LEMMA SweepInvStep ==
    ASSUME Op!GridOK, Op!DomainAssumption, SweepInv, [Op!Next]_operator_vars
    PROVE  SweepInv'
<1>1. CASE Op!setScalars \/ Op!setBeta \/ Op!setAlpha \/ Op!NewMLMG \/ Op!StartSolve
  <2>1. /\ smoother = "setup" /\ smoother' \in {smoother, "solve"}
        /\ UNCHANGED <<x, step, edited, last, color, skip_fillboundary, running, todo>>
    BY <1>1 DEF Op!setScalars, Op!setBeta, Op!setAlpha, Op!NewMLMG, Op!StartSolve, Op!field, Op!loop
  <2> QED
    BY <2>1, SetupSweep
<1>2. CASE Op!EndSolve
  <2>1. smoother = "solve" /\ running = {} /\ todo = {}
    BY <1>2 DEF Op!EndSolve, SweepInv, SmoothTurn
  <2>2. skip_fillboundary \in BOOLEAN
    BY DEF SweepInv, SmoothTypes
  <2>3. /\ x' = Op!Zero /\ step' = 0 /\ edited' = 0 /\ last' = [c \in Op!Colors |-> 0] /\ color' = 0
        /\ smoother' = "setup" /\ UNCHANGED <<skip_fillboundary, running, todo>>
    BY <1>2 DEF Op!EndSolve
  <2> QED
    BY <2>1, <2>2, <2>3, ZeroSweep
<1>3. CASE Op!SmoothZero
  <2>1. smoother = "solve" /\ running = {} /\ todo = {}
    BY <1>3 DEF Op!SmoothZero, Op!smooth, SweepInv, SmoothTurn
  <2>2. /\ x' = Op!Zero /\ step' = 0 /\ edited' = 0 /\ last' = [c \in Op!Colors |-> 0] /\ color' = 0
        /\ smoother' = "smooth" /\ skip_fillboundary' = TRUE /\ UNCHANGED <<running, todo>>
    BY <1>3 DEF Op!SmoothZero, Op!smooth
  <2> QED
    BY <2>1, <2>2, ZeroSweep
<1>4. CASE Op!SmoothChanged
  BY <1>4, ChangedSweep
<1>5. CASE Op!smooth4
  BY <1>5, LaunchSweep
<1>6. CASE \E t \in Op!Threads : Op!gs4(t)
  BY <1>6, ThreadSweep
<1>7. CASE Op!EndColor
  BY <1>7, EndColorSweep
<1>8. CASE UNCHANGED operator_vars
  <2>1. UNCHANGED <<smoother, x, step, edited, last, color, skip_fillboundary, running, todo>>
    BY <1>8 DEF operator_vars, Op!field, Op!loop
  <2>2. CASE smoother # "threads"
    BY <2>1, <2>2, SetupSweep
  <2>3. CASE smoother = "threads"
    <3>1. \A b, e : /\ Op!Expected(Op!Inner(e))' = Op!Expected(Op!Inner(e))
                    /\ (Written(b, e)' <=> Written(b, e))
      BY <2>1, ExpectedIs DEF Written, Op!Inner
    <3>2. ColorRight'
      BY <2>1, <3>1 DEF SweepInv, ColorRight, InPlace
    <3>3. SmoothTypes' /\ SmoothTurn'
      BY <2>1 DEF SweepInv, SmoothTypes, SmoothTurn
    <3>4. SkipOK' /\ CopiesRight'
      BY <2>1, <2>3 DEF SweepInv, SkipOK, CopiesRight
    <3> QED
      BY <3>2, <3>3, <3>4 DEF SweepInv
  <2> QED
    BY <2>2, <2>3
<1> QED
  BY <1>1, <1>2, <1>3, <1>4, <1>5, <1>6, <1>7, <1>8 DEF Op!Next

LEMMA SweepInvImplies ==
    ASSUME Op!GridOK, Op!DomainAssumption, SweepInv
    PROVE  SweepWhole /\ OrderFree
<1>1. SweepWhole
  BY DEF SweepInv, CopiesRight, SmoothTurn, SweepWhole, Op!SweepWhole
<1>2. SUFFICES ASSUME NEW t \in running
      PROVE /\ \A e \in Op!Reads(t[2], Op!Mirrored(t[2])) : x[t[1]][e] = Op!Expected(Op!Inner(e))
            /\ \A u \in running \ {t} :
                  t[1] = u[1] => Op!Writes(u[2]) \cap
                                   (Op!Writes(t[2]) \cup Op!Reads(t[2], Op!Mirrored(t[2]))) = {}
  BY <1>1 DEF OrderFree, Op!OrderFree
<1>3. smoother = "threads" /\ running \subseteq Op!OfColor(color)
  BY DEF SweepInv, SmoothTurn
<1>4. /\ Op!OfColor(color) \subseteq Op!Threads
      /\ \A u \in Op!OfColor(color) : Op!my_color(u[2]) = color
  BY DEF Op!OfColor
<1>5. \A u \in Op!Threads : u[1] \in Boxes /\ u[2] \in NatNode /\ u = <<u[1], u[2]>>
  BY ThreadsAre
<1>6. \A u \in Op!OfColor(color) \ {t} :
         t[1] = u[1] => Op!Writes(u[2]) \cap
                          (Op!Writes(t[2]) \cup Op!Reads(t[2], Op!Mirrored(t[2]))) = {}
  <2>1. SUFFICES ASSUME NEW u \in Op!OfColor(color), u # t, t[1] = u[1]
        PROVE  Op!Writes(u[2]) \cap (Op!Writes(t[2]) \cup Op!Reads(t[2], Op!Mirrored(t[2]))) = {}
    OBVIOUS
  <2>2. u[2] # t[2] /\ u[2] \in NatNode /\ t[2] \in NatNode /\ Op!my_color(u[2]) = Op!my_color(t[2])
    BY <1>3, <1>4, <1>5, <2>1
  <2> QED
    BY <2>2, ColorsIndependent
<1>7. ASSUME NEW e \in Op!Reads(t[2], Op!Mirrored(t[2]))
      PROVE  x[t[1]][e] = Op!Expected(Op!Inner(e))
  <2>1. t \in Op!Threads /\ t[1] \in Boxes /\ InPlace(t[1], e)
    BY <1>3, <1>4, <1>5, ReadsInPlace
  <2>2. ~Written(t[1], e)
    <3>1. ASSUME NEW u \in Op!OfColor(color) \ running, u[1] = t[1], e \in Op!Writes(u[2])
          PROVE  FALSE
      BY <1>6, <3>1
    <3> QED
      BY <3>1 DEF Written
  <2> QED
    BY <1>3, <2>1, <2>2 DEF SweepInv, ColorRight
<1> QED
  BY <1>3, <1>6, <1>7

\* Between two colours all copies of an edge, in whichever boxes and across a period, are of the
\* last step that changed it, and a sweep relaxes every node: on any grid on which the colours
\* work, for any boxes, sweeps and calls of smooth, whether or not the ghosts are filled first.
THEOREM SweepsWhole ==
    ASSUME Op!GridOK
    PROVE  OperatorSpec => []SweepWhole
<1>1. SweepInv => SweepWhole
  BY OperatorAssumption, SweepInvImplies
<1>2. SweepInv /\ [Op!Next]_operator_vars => SweepInv'
  BY OperatorAssumption, SweepInvStep
<1> QED
  BY <1>1, <1>2, SweepInvInit, PTL DEF OperatorSpec

\* Whatever order the threads of a colour run in, each of them reads, in its box and in the
\* ghosts, values of the colour before, and no two of them meet in an edge that one writes.
THEOREM OrderAlwaysFree ==
    ASSUME Op!GridOK
    PROVE  OperatorSpec => []OrderFree
<1>1. SweepInv => OrderFree
  BY OperatorAssumption, SweepInvImplies
<1>2. SweepInv /\ [Op!Next]_operator_vars => SweepInv'
  BY OperatorAssumption, SweepInvStep
<1> QED
  BY <1>1, <1>2, SweepInvInit, PTL DEF OperatorSpec

-----------------------------------------------------------------------------
(* The factors of the operator                                             *)

\* The part of the type invariant the argument needs.
SetupOK ==
    /\ scalars \in Nat \ {0}
    /\ m_acoefs \in BOOLEAN /\ m_bcoefs \in BOOLEAN
    /\ m_needs_update \in BOOLEAN /\ linop_prepared \in BOOLEAN
    /\ smoother \in {"setup", "solve", "smooth", "threads"}

\* What smooth4 relies on.
Ready == ~m_acoefs /\ ~m_bcoefs => m_lusolver = scalars

\* FactorsFresh is not inductive: that the factors are right when a kernel is
\* launched comes from the start of the solve, and there from the fact that
\* an operator which has been prepared and needs no update is ready.
FactorsInv ==
    /\ SetupOK
    /\ linop_prepared /\ ~m_needs_update => Ready
    /\ smoother # "setup" => Ready
    /\ smoother = "threads" => kernel = Op!Kernel

LEMMA FactorsInvInit == Op!Init => FactorsInv
<1> SUFFICES ASSUME Op!Init PROVE FactorsInv
  OBVIOUS
<1>1. scalars \in Nat \ {0}
  BY DEF Op!Init
<1>2. /\ m_acoefs \in BOOLEAN /\ m_bcoefs \in BOOLEAN
      /\ m_needs_update \in BOOLEAN /\ linop_prepared \in BOOLEAN
      /\ ~linop_prepared /\ smoother = "setup"
  BY DEF Op!Init
<1> QED
  BY <1>1, <1>2 DEF FactorsInv, SetupOK

\* The calls of the user.
LEMMA UserKeepsFactors ==
    ASSUME FactorsInv,
           \/ Op!setScalars \/ Op!setBeta
           \/ Op!setAlpha \/ Op!NewMLMG
    PROVE  FactorsInv'
<1> USE DEF FactorsInv, SetupOK, Ready
<1>1. CASE Op!setScalars
  <2>1. scalars' \in Nat \ {0}
    BY <1>1 DEF Op!setScalars
  <2>2. /\ m_acoefs' \in BOOLEAN /\ m_bcoefs' \in BOOLEAN
        /\ m_needs_update' \in BOOLEAN /\ linop_prepared' \in BOOLEAN
        /\ m_needs_update' /\ smoother' = "setup"
    BY <1>1 DEF Op!setScalars
  <2> QED
    BY <2>1, <2>2
<1>2. CASE Op!setBeta
  BY <1>2 DEF Op!setBeta
<1>3. CASE Op!setAlpha
  BY <1>3 DEF Op!setAlpha
<1>4. CASE Op!NewMLMG
  BY <1>4 DEF Op!NewMLMG
<1> QED
  BY <1>1, <1>2, <1>3, <1>4

LEMMA StartKeepsFactors ==
    ASSUME FactorsInv, Op!StartSolve
    PROVE  FactorsInv'
<1> USE DEF FactorsInv, SetupOK, Ready, Op!StartSolve, Op!update_lusolver
<1>1. CASE ~linop_prepared /\ Op!update_lusolver /\ linop_prepared' = TRUE
             /\ UNCHANGED m_needs_update
  BY <1>1
<1>2. CASE linop_prepared /\ m_needs_update /\ Op!update_lusolver
             /\ m_needs_update' = FALSE /\ UNCHANGED linop_prepared
  BY <1>2
<1>3. CASE linop_prepared /\ ~m_needs_update
             /\ UNCHANGED <<m_lusolver, m_needs_update, linop_prepared>>
  BY <1>3
<1> QED
  BY <1>1, <1>2, <1>3 DEF Op!prepareLinOp

\* The solver does not touch the set-up.
LEMMA SolverKeepsFactors ==
    ASSUME FactorsInv,
           \/ Op!EndSolve \/ Op!SmoothZero \/ Op!SmoothChanged \/ Op!smooth4
           \/ (\E t \in Op!Threads : Op!gs4(t)) \/ Op!EndColor
    PROVE  FactorsInv'
<1> USE DEF FactorsInv, SetupOK, Ready, Op!setup, Op!Kernel
<1>1. CASE Op!EndSolve
  BY <1>1 DEF Op!EndSolve
<1>2. CASE Op!SmoothZero
  BY <1>2 DEF Op!SmoothZero, Op!smooth
<1>3. CASE Op!SmoothChanged
  BY <1>3 DEF Op!SmoothChanged, Op!smooth
<1>4. CASE Op!smooth4
  BY <1>4 DEF Op!smooth4
<1>5. CASE \E t \in Op!Threads : Op!gs4(t)
  BY <1>5 DEF Op!gs4
<1>6. CASE Op!EndColor
  BY <1>6 DEF Op!EndColor
<1> QED
  BY <1>1, <1>2, <1>3, <1>4, <1>5, <1>6

LEMMA FactorsInvStep ==
    ASSUME FactorsInv, [Op!Next]_operator_vars
    PROVE  FactorsInv'
<1>1. CASE Op!setScalars \/ Op!setBeta \/ Op!setAlpha \/ Op!NewMLMG
  BY <1>1, UserKeepsFactors
<1>2. CASE Op!StartSolve
  BY <1>2, StartKeepsFactors
<1>3. CASE \/ Op!EndSolve \/ Op!SmoothZero \/ Op!SmoothChanged \/ Op!smooth4
           \/ (\E t \in Op!Threads : Op!gs4(t)) \/ Op!EndColor
  BY <1>3, SolverKeepsFactors
<1>4. CASE UNCHANGED operator_vars
  BY <1>4 DEF operator_vars, FactorsInv, SetupOK, Ready, Op!Kernel
<1> QED
  BY <1>1, <1>2, <1>3, <1>4 DEF Op!Next

\* The kernel that smooth4 launches works with factors of the scalars in
\* force or with fields that exist, after any number of set-up calls in any
\* order: setScalars may leave stale factors behind, but no solve sees them.
THEOREM FactorsAlwaysFresh == OperatorSpec => []FactorsFresh
<1>1. FactorsInv => FactorsFresh
  BY DEF FactorsInv, SetupOK, Ready, Op!Kernel, FactorsFresh, Op!FactorsFresh
<1> QED
  BY <1>1, FactorsInvInit, FactorsInvStep, PTL DEF OperatorSpec

=============================================================================
