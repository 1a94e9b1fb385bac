------------------------------ MODULE MCVisMF ------------------------------
(* Writing and reading FABs for TLC.                                       *)
EXTENDS VisMF, TLC

MCRanks == {<<1>>, <<0, 2>>, <<1, 3, 4>>, <<3, 0, 1>>, <<0, 1, 2, 3, 4>>}
MCIndices == -1..NProcs
MCDeciders == {-1, 0, 3}

\* Every rank has a FAB, two have two, of different sizes.
Full == 0 :> <<2, 3>> @@ 1 :> <<1>> @@ 2 :> <<4>> @@ 3 :> <<1, 2>> @@ 4 :> <<3>>
\* The last ranks have none.
Tail2 == 0 :> <<2>> @@ 1 :> <<1, 1>> @@ 2 :> <<>> @@ 3 :> <<>> @@ 4 :> <<>>
MCLayouts == {Full, Tail2}

\* Bounds: what does not run has one state only, and the two asynchronous writes are of
\* different distributions.
NoIterator == mode = "static" /\ nOutFiles = 1 /\ groupSets = FALSE
NoWrite    == layout = [w \in 1..NWrites |-> Full]
Different  == layout[1] # layout[2]

MCInit ==
  \/ s_asyncout = TRUE /\ Async!Init /\ Different /\ Init /\ NoIterator
  \/ s_asyncout = FALSE /\ Init /\ Async!Init /\ NoWrite

MCSpec == MCInit /\ [][VisNext]_<<s_asyncout, vars, async_vars>> /\ VisFairness
=============================================================================
