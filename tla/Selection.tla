----------------------------- MODULE Selection -----------------------------
(***************************************************************************)
(* The elements of a sequence that are in a set, in their order: what a    *)
(* loop with an if and a push_back collects.  It is a recursive function,  *)
(* that proofs can unfold.                                                 *)
(***************************************************************************)
EXTENDS Naturals, Sequences

Selected(s, T) ==
  LET sel[k \in 0..Len(s)] ==
        IF k = 0 THEN <<>>
        ELSE IF s[k] \in T THEN Append(sel[k-1], s[k]) ELSE sel[k-1]
  IN sel[Len(s)]
=============================================================================
