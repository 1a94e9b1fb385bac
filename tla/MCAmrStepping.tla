---------------------------- MODULE MCAmrStepping ----------------------------
(* Values for the constants of AmrStepping that a cfg cannot write.        *)
EXTENDS AmrStepping

\* Auto subcycling with refinement ratio 2, and no subcycling.
MCTwos == [l \in Levels |-> IF l = 0 THEN 1 ELSE 2]
MCOnes == [l \in Levels |-> 1]

MCRegridInt == [l \in Levels |-> IF l = 0 THEN 2 ELSE 1]

\* Three steps; a crash, a spoiled file, restarts with another max_level or n_cycle.
MCCrash == [max_level |-> {1, 2}, n_cycle |-> {MCTwos, MCOnes},
            use_efficient_regrid |-> FALSE, loadbalance |-> FALSE,
            max_step |-> 3, dts |-> {40}, grids |-> {"g1"},
            crashes |-> 1, write_errors |-> 1]

\* Two steps without a crash; grids that change or stay, two time steps (multiples of 4,
\* which two levels of subcycling divide; 44 <= 1.1 * 40).
MCGrids == [max_level |-> {2}, n_cycle |-> {MCTwos},
            use_efficient_regrid |-> TRUE, loadbalance |-> TRUE,
            max_step |-> 2, dts |-> {40, 44}, grids |-> {"g1", "g2"},
            crashes |-> 0, write_errors |-> 0]

MCJobs == {MCCrash, MCGrids}
=============================================================================
