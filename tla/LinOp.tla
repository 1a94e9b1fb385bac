------------------------------- MODULE LinOp -------------------------------
(***************************************************************************)
(* MLMG::linop (Src/LinearSolvers/MLMG/AMReX_MLMG.H): the operator of a    *)
(* solver, here the curl-curl operator, by the set-up calls of the user    *)
(* and the calls of smooth that the cycles of MLMG make.                   *)
(***************************************************************************)
EXTENDS Integers

CONSTANTS DomLo, DomHi, Boxes, LoBC, HiBC, niter, MaxScalars, MaxSmooths

VARIABLES
    scalars, m_acoefs, m_bcoefs, m_lusolver, m_needs_update, linop_prepared,
    smoother,     \* what of the operator runs
    kernel, sweep, color, skip_fillboundary, smooths,
    x, step, edited, last, running, todo

Op == INSTANCE MLCurlCurl WITH phase <- smoother

ASSUME OperatorAssumption == Op!SizesAssumption /\ Op!DomainAssumption

operator_vars ==
    <<scalars, m_acoefs, m_bcoefs, m_lusolver, m_needs_update, linop_prepared, smoother,
      kernel, sweep, color, skip_fillboundary, smooths, x, step, edited, last, running, todo>>

OperatorSpec == Op!Init /\ [][Op!Next]_operator_vars

\* The kernel that is launched solves with factors of the scalars that are set
\* now, or with fields that exist.
FactorsFresh == Op!FactorsFresh

\* What a thread gets to see does not depend on which threads of its colour
\* have run.
OrderFree == Op!OrderFree

\* Between two colours all copies of an edge agree, and after a sweep every
\* node has been relaxed.
SweepWhole == Op!SweepWhole
=============================================================================
