------------------------------- MODULE MCMLMG -------------------------------
(* Small instances of MLMG: one to three AMR levels, the coarsest with up  *)
(* to three multigrid levels, the others with one or two.                  *)
EXTENDS MLMG

Layout1(a) == [l \in {0} |-> a]
Layout2(a, b) == [l \in 0..1 |-> IF l = 0 THEN a ELSE b]
Layout3(a, b, c) == [l \in 0..2 |-> IF l = 0 THEN a ELSE IF l = 1 THEN b ELSE c]

MCLayouts == {Layout1(1), Layout1(3), Layout2(2, 2), Layout3(1, 1, 1), Layout3(3, 2, 1)}

\* Solutions with a ghost cell, which may have been given to compResidual
\* before; solutions without, which have not.
MCUses == {[solve |-> {"a", "b"}, residual |-> {"a", "c"},
            ghosts |-> [x \in {"a", "b", "c"} |-> IF x = "c" THEN 0 ELSE 1]],
           [solve |-> {"a", "b"}, residual |-> {},
            ghosts |-> [x \in {"a", "b"} |-> 0]]}

\* First a solution with a ghost cell, then one without, or the other way round.
MCMixedGhosts == {[solve |-> {"a", "c"}, residual |-> {},
                   ghosts |-> [x \in {"a", "c"} |-> IF x = "c" THEN 0 ELSE 1]]}
=============================================================================
