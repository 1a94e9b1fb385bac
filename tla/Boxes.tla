------------------------------- MODULE Boxes -------------------------------
(***************************************************************************)
(* The box calculus that the exchange of ghost cells rests on: Box,        *)
(* BoxArray with its hash, boxDiff and Periodicity (Src/Base).             *)
(*                                                                         *)
(* A box is the set of the points between two corners, of cells or, in     *)
(* the directions where the index type says so, of nodes.  It may be       *)
(* empty ("not ok").                                                       *)
(***************************************************************************)
EXTENDS Integers, Sequences, FiniteSets, FiniteSetsExt, SequencesExt

CONSTANT Dim   \* AMREX_SPACEDIM

ASSUME DimAssumption == Dim \in Nat \ {0}

Dirs    == 1..Dim
IntVect == [Dirs -> Int]
Box     == [lo : IntVect, hi : IntVect]

Zero     == [i \in Dirs |-> 0]
Plus(u, v)  == [i \in Dirs |-> u[i] + v[i]]
Minus(u, v) == [i \in Dirs |-> u[i] - v[i]]

\* IntVect::operator<: the last direction counts most.
Less(u, v) == \E i \in Dirs : u[i] < v[i] /\ \A j \in Dirs : j > i => u[j] = v[j]

\* A finite set in the order that Op says.
Ordered(S, Op(_, _)) ==
  LET rank == [x \in S |-> Cardinality({y \in S : Op(y, x)})]
  IN [j \in 1..Cardinality(S) |-> CHOOSE x \in S : rank[x] = j - 1]

Smaller(a, b) == IF a <= b THEN a ELSE b
Larger(a, b)  == IF a <= b THEN b ELSE a

Ok(b)       == \A i \in Dirs : b.lo[i] <= b.hi[i]
Grow(b, g)  == [lo |-> Minus(b.lo, g), hi |-> Plus(b.hi, g)]
Shift(b, s) == [lo |-> Plus(b.lo, s), hi |-> Plus(b.hi, s)]
Meet(a, b)  == [lo |-> [i \in Dirs |-> Larger(a.lo[i], b.lo[i])],
                hi |-> [i \in Dirs |-> Smaller(a.hi[i], b.hi[i])]]
In(p, b)    == \A i \in Dirs : b.lo[i] <= p[i] /\ p[i] <= b.hi[i]

Size(b, i)  == b.hi[i] - b.lo[i] + 1

\* The points of a box as they lie in memory: the first direction runs fastest.
Stride(b) == LET st[i \in 1..Dim+1] == IF i = 1 THEN 1 ELSE st[i-1] * Size(b, i-1) IN st

PointSeq(b) ==
  LET st == Stride(b) IN
  [j \in 1..st[Dim+1] |-> [i \in Dirs |-> b.lo[i] + (((j - 1) \div st[i]) % Size(b, i))]]

Points(b) == ToSet(PointSeq(b))

(***************************************************************************)
(* boxDiff cuts b1 along the planes of b2, from the last direction to the  *)
(* first; what is left after a direction lies between b2's planes there.   *)
(***************************************************************************)
Left(b1, b2, i) ==
  [lo |-> [j \in Dirs |-> IF j > i THEN Larger(b1.lo[j], b2.lo[j]) ELSE b1.lo[j]],
   hi |-> [j \in Dirs |-> IF j > i THEN Smaller(b1.hi[j], b2.hi[j]) ELSE b1.hi[j]]]

LowPart(b1, b2, i)  == [Left(b1, b2, i) EXCEPT !.hi[i] = b2.lo[i] - 1]
HighPart(b1, b2, i) == [Left(b1, b2, i) EXCEPT !.lo[i] = b2.hi[i] + 1]

Parts(b1, b2) == UNION {{LowPart(b1, b2, i), HighPart(b1, b2, i)} : i \in Dirs}

boxDiff(b1, b2) ==
  IF ~Ok(Meet(b1, b2)) THEN {b1} ELSE {b \in Parts(b1, b2) : Ok(b)}

(***************************************************************************)
(* A BoxArray is [abox, type]: boxes of cells, and the index type they are *)
(* looked at with (BATransformer).                                         *)
(***************************************************************************)
Indices(ba)     == DOMAIN ba.abox
BoxOf(ba, k)    == [ba.abox[k] EXCEPT !.hi = Plus(@, ba.type)]
cellCentered(ba) == ba.type = Zero

\* getHashMap: boxes are found by their lower corner, coarsened by the largest extent.
Extent(ba, i)  == Max({ba.abox[k].hi[i] - ba.abox[k].lo[i] + 1 : k \in Indices(ba)})
Bucket(ba, k)  == [i \in Dirs |-> ba.abox[k].lo[i] \div Extent(ba, i)]

\* The buckets that BoxArray::intersections looks into.
Window(ba, b, g) ==
  [lo |-> [i \in Dirs |-> ((b.lo[i] - g[i] - ba.type[i]) \div Extent(ba, i)) - 1],
   hi |-> [i \in Dirs |-> (b.hi[i] + g[i]) \div Extent(ba, i)]]

\* BoxArray::intersections: the boxes that meet b when they are grown by g, bucket after bucket.
Found(ba, b, g) ==
  {k \in Indices(ba) :
     In(Bucket(ba, k), Window(ba, b, g)) /\ Ok(Meet(b, Grow(BoxOf(ba, k), g)))}

FoundSeq(ba, b, g) ==
  Ordered(Found(ba, b, g),
    LAMBDA k, l : \/ Less(Bucket(ba, k), Bucket(ba, l))
                  \/ Bucket(ba, k) = Bucket(ba, l) /\ k < l)

(***************************************************************************)
(* A periodicity is a length per direction, 0 where it is not periodic.    *)
(***************************************************************************)
isAnyPeriodic(period) == \E i \in Dirs : period[i] > 0

Reach_OnePeriod(period, g, i) == period[i]

\* How far the shifts go: periods, one at least, until they reach over the ghost cells.
Reach(period, g, i) ==
  IF period[i] = 0 THEN 0 ELSE period[i] * Larger(1, (g[i] + period[i] - 1) \div period[i])

shiftIntVect(period, g) ==
  {s \in [Dirs -> UNION {-Reach(period, g, i)..Reach(period, g, i) : i \in Dirs}] :
     \A i \in Dirs : /\ s[i] \in -Reach(period, g, i)..Reach(period, g, i)
                     /\ period[i] > 0 => s[i] % period[i] = 0}

\* Their order: the first direction counts most.
ShiftSeq(period, g) ==
  Ordered(shiftIntVect(period, g),
    LAMBDA u, v : \E i \in Dirs : u[i] < v[i] /\ \A j \in Dirs : j < i => u[j] = v[j])

\* Periodicity::Domain with an index type; a direction that is not periodic has no end.
PDomain(period, type, big) ==
  [lo |-> [i \in Dirs |-> IF period[i] > 0 THEN 0 ELSE -big],
   hi |-> [i \in Dirs |-> (IF period[i] > 0 THEN period[i] - 1 ELSE big - 1) + type[i]]]
=============================================================================
