--------------------------- MODULE MCFabArrayCache ---------------------------
(* A small instance of FabArrayCache for TLC. *)
EXTENDS FabArrayCache, TLC

MCTransformers ==
  {[typ |-> "cell", ratio |-> 1, face |-> "none"],
   [typ |-> "node", ratio |-> 1, face |-> "none"],
   [typ |-> "cell", ratio |-> 2, face |-> "none"],
   [typ |-> "cell", ratio |-> 1, face |-> "low"]}

MCSymmetry == Permutations(BARefs) \cup Permutations(FabArrays) \cup Permutations(LayoutDatas)
              \cup Permutations(BoxLists)
=============================================================================
