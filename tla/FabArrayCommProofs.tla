------------------------- MODULE FabArrayCommProofs -------------------------
(***************************************************************************)
(* What the exchange of FabArrays owes to the box calculus, for every      *)
(* layout of boxes and any number of ranks and directions.                 *)
(***************************************************************************)
EXTENDS FabArrayComm, FiniteSetTheorems, WellFoundedInduction, TLAPS

(***************************************************************************)
(* boxDiff                                                                 *)
(***************************************************************************)
Between(p, b, i) == b.lo[i] <= p[i] /\ p[i] <= b.hi[i]

LEMMA SmallestOf ==
  ASSUME NEW S, S \subseteq Nat, S # {}
  PROVE  \E n \in S : \A k \in S : n <= k
<1>1. PICK n \in S : \A k \in S : <<k, n>> \notin OpToRel(<, Nat)
  BY WFMin, NatLessThanWellFounded, Zenon
<1>2. n \in Nat /\ \A k \in S : k \in Nat
  OBVIOUS
<1>3. \A k \in S : ~(k < n)
  BY <1>1, <1>2, Zenon DEF OpToRel
<1>4. QED
  BY <1>2, <1>3

\* Outside of a box there is a last direction in which a point is outside.
LEMMA LastOutside ==
  ASSUME NEW b \in Box, NEW p \in IntVect, ~In(p, b)
  PROVE  \E i \in Dirs : ~Between(p, b, i) /\ \A j \in Dirs : j > i => Between(p, b, j)
<1> DEFINE S == {n \in Nat : \E i \in Dirs : n = Dim - i /\ ~Between(p, b, i)}
<1>1. PICK i \in Dirs : ~Between(p, b, i)
  BY DEF In, Between
<1>2. Dim - i \in S
  BY <1>1, DimAssumption DEF Dirs
<1>3. PICK n \in S : \A k \in S : n <= k
  BY <1>2, SmallestOf
<1>4. PICK d \in Dirs : n = Dim - d /\ ~Between(p, b, d)
  BY <1>3
<1>5. ASSUME NEW j \in Dirs, j > d, ~Between(p, b, j)
      PROVE  FALSE
  <2>1. Dim - j \in S
    BY <1>5, DimAssumption DEF Dirs
  <2>2. QED
    BY <2>1, <1>3, <1>4, <1>5, DimAssumption DEF Dirs
<1>6. QED
  BY <1>4, <1>5

\* The corners of the boxes that boxDiff cuts off.
LEMMA PartCorners ==
  ASSUME NEW b1 \in Box, NEW b2 \in Box, NEW i \in Dirs, NEW j \in Dirs
  PROVE  /\ LowPart(b1, b2, i).lo[j] = IF j > i THEN Larger(b1.lo[j], b2.lo[j]) ELSE b1.lo[j]
         /\ LowPart(b1, b2, i).hi[j] = IF j = i THEN b2.lo[i] - 1
                                       ELSE IF j > i THEN Smaller(b1.hi[j], b2.hi[j]) ELSE b1.hi[j]
         /\ HighPart(b1, b2, i).lo[j] = IF j = i THEN b2.hi[i] + 1
                                        ELSE IF j > i THEN Larger(b1.lo[j], b2.lo[j]) ELSE b1.lo[j]
         /\ HighPart(b1, b2, i).hi[j] = IF j > i THEN Smaller(b1.hi[j], b2.hi[j]) ELSE b1.hi[j]
<1>1. /\ b1.lo[j] \in Int /\ b1.hi[j] \in Int /\ b2.lo[j] \in Int /\ b2.hi[j] \in Int
      /\ b2.lo[i] \in Int /\ b2.hi[i] \in Int /\ i \in Int /\ j \in Int
  BY DimAssumption DEF Box, IntVect, Dirs
<1>2. QED
  BY <1>1 DEF LowPart, HighPart, Left

\* Two boxes that share a point meet.
LEMMA MeetIn ==
  ASSUME NEW a \in Box, NEW b \in Box, NEW p \in IntVect
  PROVE  /\ In(p, Meet(a, b)) <=> In(p, a) /\ In(p, b)
         /\ In(p, a) => Ok(a)
         /\ Meet(a, b) \in Box
<1>1. \A i \in Dirs : /\ p[i] \in Int /\ a.lo[i] \in Int /\ a.hi[i] \in Int
                      /\ b.lo[i] \in Int /\ b.hi[i] \in Int
  BY DEF Box, IntVect
<1>2. QED
  BY <1>1 DEF In, Ok, Meet, Larger, Smaller, Box, IntVect

\* A point of a part is in b1, and outside of b2 in the direction of the part but not in a later one.
LEMMA PointOfPart ==
  ASSUME NEW b1 \in Box, NEW b2 \in Box, Ok(Meet(b1, b2)), NEW p \in IntVect, NEW i \in Dirs,
         NEW b \in {LowPart(b1, b2, i), HighPart(b1, b2, i)}, In(p, b)
  PROVE  /\ In(p, b1)
         /\ b = LowPart(b1, b2, i) => p[i] < b2.lo[i]
         /\ b = HighPart(b1, b2, i) => b2.hi[i] < p[i]
         /\ \A j \in Dirs : j > i => Between(p, b2, j)
<1>1. \A j \in Dirs : /\ p[j] \in Int /\ b1.lo[j] \in Int /\ b1.hi[j] \in Int
                      /\ b2.lo[j] \in Int /\ b2.hi[j] \in Int /\ j \in Int
  BY DimAssumption DEF Box, IntVect, Dirs
<1>2. \A j \in Dirs : Larger(b1.lo[j], b2.lo[j]) <= Smaller(b1.hi[j], b2.hi[j])
  BY DEF Ok, Meet
<1>3. \A j \in Dirs : b.lo[j] <= p[j] /\ p[j] <= b.hi[j]
  BY DEF In
<1>4. CASE b = LowPart(b1, b2, i)
  <2>1. \A j \in Dirs : b1.lo[j] <= p[j] /\ p[j] <= b1.hi[j] /\ (j > i => Between(p, b2, j))
    BY <1>1, <1>2, <1>3, <1>4, PartCorners DEF Larger, Smaller, Between
  <2>2. p[i] < b2.lo[i]
    BY <1>1, <1>3, <1>4, PartCorners
  <2>3. b = HighPart(b1, b2, i) => b2.hi[i] < p[i]
    BY <1>1, <1>3, PartCorners
  <2>4. QED
    BY <2>1, <2>2, <2>3 DEF In
<1>5. CASE b = HighPart(b1, b2, i)
  <2>1. \A j \in Dirs : b1.lo[j] <= p[j] /\ p[j] <= b1.hi[j] /\ (j > i => Between(p, b2, j))
    BY <1>1, <1>2, <1>3, <1>5, PartCorners DEF Larger, Smaller, Between
  <2>2. b2.hi[i] < p[i]
    BY <1>1, <1>3, <1>5, PartCorners
  <2>3. b = LowPart(b1, b2, i) => p[i] < b2.lo[i]
    BY <1>1, <1>3, PartCorners
  <2>4. QED
    BY <2>1, <2>2, <2>3 DEF In
<1>6. QED
  BY <1>4, <1>5

\* A point between b2's planes in all directions is in b2.
LEMMA PartOutside ==
  ASSUME NEW b1 \in Box, NEW b2 \in Box, Ok(Meet(b1, b2)), NEW p \in IntVect,
         NEW b \in Parts(b1, b2), In(p, b)
  PROVE  In(p, b1) /\ ~In(p, b2)
<1>1. PICK i \in Dirs : b \in {LowPart(b1, b2, i), HighPart(b1, b2, i)}
  BY DEF Parts
<1>2. In(p, b1) /\ (p[i] < b2.lo[i] \/ b2.hi[i] < p[i])
  BY <1>1, PointOfPart
<1>3. p[i] \in Int /\ b2.lo[i] \in Int /\ b2.hi[i] \in Int
  BY DEF Box, IntVect
<1>4. QED
  BY <1>2, <1>3 DEF In

\* The box in which a point of b1 outside of b2 lies after the cut.
LEMMA PartOf ==
  ASSUME NEW b1 \in Box, NEW b2 \in Box, NEW p \in IntVect, In(p, b1), ~In(p, b2)
  PROVE  \E b \in Parts(b1, b2) : In(p, b) /\ Ok(b)
<1>1. \A j \in Dirs : /\ p[j] \in Int /\ b1.lo[j] \in Int /\ b1.hi[j] \in Int
                      /\ b2.lo[j] \in Int /\ b2.hi[j] \in Int /\ j \in Int
                      /\ b1.lo[j] <= p[j] /\ p[j] <= b1.hi[j]
  <2>1. \A j \in Dirs : b1.lo[j] <= p[j] /\ p[j] <= b1.hi[j]
    BY DEF In
  <2>2. \A j \in Dirs : /\ p[j] \in Int /\ b1.lo[j] \in Int /\ b1.hi[j] \in Int
                        /\ b2.lo[j] \in Int /\ b2.hi[j] \in Int /\ j \in Int
    BY DimAssumption DEF Box, IntVect, Dirs
  <2>3. QED
    BY <2>1, <2>2
<1>2. PICK i \in Dirs : ~Between(p, b2, i) /\ \A j \in Dirs : j > i => Between(p, b2, j)
  BY LastOutside
<1>3. CASE p[i] < b2.lo[i]
  <2>1. \A j \in Dirs : /\ LowPart(b1, b2, i).lo[j] <= p[j] /\ p[j] <= LowPart(b1, b2, i).hi[j]
                        /\ LowPart(b1, b2, i).lo[j] \in Int /\ LowPart(b1, b2, i).hi[j] \in Int
    BY <1>1, <1>2, <1>3, PartCorners DEF Larger, Smaller, Between
  <2>2. In(p, LowPart(b1, b2, i)) /\ Ok(LowPart(b1, b2, i))
    BY <1>1, <2>1 DEF In, Ok
  <2>3. QED
    BY <2>2 DEF Parts
<1>4. CASE b2.hi[i] < p[i]
  <2>1. \A j \in Dirs : /\ HighPart(b1, b2, i).lo[j] <= p[j] /\ p[j] <= HighPart(b1, b2, i).hi[j]
                        /\ HighPart(b1, b2, i).lo[j] \in Int /\ HighPart(b1, b2, i).hi[j] \in Int
    BY <1>1, <1>2, <1>4, PartCorners DEF Larger, Smaller, Between
  <2>2. In(p, HighPart(b1, b2, i)) /\ Ok(HighPart(b1, b2, i))
    BY <1>1, <2>1 DEF In, Ok
  <2>3. QED
    BY <2>2 DEF Parts
<1>5. QED
  BY <1>1, <1>2, <1>3, <1>4 DEF Between

\* boxDiff covers what b1 has beyond b2, and nothing else, in any number of directions.
THEOREM BoxDiffCovers ==
  ASSUME NEW b1 \in Box, NEW b2 \in Box, NEW p \in IntVect
  PROVE  (\E b \in boxDiff(b1, b2) : In(p, b)) <=> In(p, b1) /\ ~In(p, b2)
<1>1. CASE Ok(Meet(b1, b2))
  <2>1. ASSUME NEW b \in boxDiff(b1, b2), In(p, b)
        PROVE  In(p, b1) /\ ~In(p, b2)
    BY <1>1, <2>1, PartOutside DEF boxDiff
  <2>2. ASSUME In(p, b1), ~In(p, b2)
        PROVE  \E b \in boxDiff(b1, b2) : In(p, b)
    BY <1>1, <2>2, PartOf DEF boxDiff
  <2>3. QED
    BY <2>1, <2>2
<1>2. CASE ~Ok(Meet(b1, b2))
  <2>1. ~(In(p, b1) /\ In(p, b2))
    BY <1>2, MeetIn
  <2>2. QED
    BY <1>2, <2>1 DEF boxDiff
<1>3. QED
  BY <1>1, <1>2

\* The boxes of boxDiff do not overlap: no point is sent or copied twice.
THEOREM BoxDiffDisjoint ==
  ASSUME NEW b1 \in Box, NEW b2 \in Box, NEW p \in IntVect,
         NEW b \in boxDiff(b1, b2), NEW c \in boxDiff(b1, b2), In(p, b), In(p, c)
  PROVE  b = c
<1>1. CASE ~Ok(Meet(b1, b2))
  BY <1>1 DEF boxDiff
<1>2. CASE Ok(Meet(b1, b2))
  <2>1. PICK i \in Dirs : b \in {LowPart(b1, b2, i), HighPart(b1, b2, i)}
    BY <1>2 DEF boxDiff, Parts
  <2>2. PICK j \in Dirs : c \in {LowPart(b1, b2, j), HighPart(b1, b2, j)}
    BY <1>2 DEF boxDiff, Parts
  <2>3. i \in Int /\ j \in Int /\ \A k \in Dirs : p[k] \in Int /\ b2.lo[k] \in Int /\ b2.hi[k] \in Int
    BY DimAssumption DEF Box, IntVect, Dirs
  <2>4. /\ b = LowPart(b1, b2, i) => p[i] < b2.lo[i]
        /\ b = HighPart(b1, b2, i) => b2.hi[i] < p[i]
        /\ \A k \in Dirs : k > i => Between(p, b2, k)
    BY <1>2, <2>1, PointOfPart
  <2>5. /\ c = LowPart(b1, b2, j) => p[j] < b2.lo[j]
        /\ c = HighPart(b1, b2, j) => b2.hi[j] < p[j]
        /\ \A k \in Dirs : k > j => Between(p, b2, k)
    BY <1>2, <2>2, PointOfPart
  <2>6. i = j
    BY <2>1, <2>2, <2>3, <2>4, <2>5 DEF Between
  <2>7. b2.lo[i] <= b2.hi[i]
    <3>1. Larger(b1.lo[i], b2.lo[i]) <= Smaller(b1.hi[i], b2.hi[i])
      BY <1>2 DEF Ok, Meet
    <3>2. b1.lo[i] \in Int /\ b1.hi[i] \in Int
      BY DEF Box, IntVect
    <3>3. QED
      BY <2>3, <3>1, <3>2 DEF Larger, Smaller
  <2>8. QED
    BY <2>1, <2>2, <2>3, <2>4, <2>5, <2>6, <2>7
<1>3. QED
  BY <1>1, <1>2

(***************************************************************************)
(* The hash of a BoxArray finds every box                                  *)
(***************************************************************************)
\* A BoxArray: its boxes have points, no more than MaxSize in a direction (an int).
IsBoxArray(ba, MaxSize) ==
  /\ ba.type \in [Dirs -> {0, 1}]
  /\ \A k \in Indices(ba) : /\ ba.abox[k] \in Box /\ Ok(ba.abox[k])
                            /\ \A i \in Dirs : Size(ba.abox[k], i) <= MaxSize

\* The division of getHashMap and intersections keeps the order.
LEMMA DivMonotone ==
  ASSUME NEW x \in Int, NEW y \in Int, NEW e \in Nat \ {0}, x <= y
  PROVE  x \div e <= y \div e
OBVIOUS

LEMMA DivNext ==
  ASSUME NEW x \in Int, NEW e \in Nat \ {0}
  PROVE  /\ (x + e - 1) \div e <= x \div e + 1
         /\ x \div e \in Int
OBVIOUS

\* Extent is what it is meant to be: no box is larger.
LEMMA ExtentBounds ==
  ASSUME NEW MaxSize \in Nat, NEW ba, IsBoxArray(ba, MaxSize), NEW k \in Indices(ba), NEW i \in Dirs
  PROVE  Extent(ba, i) \in Nat \ {0} /\ Size(ba.abox[k], i) <= Extent(ba, i)
<1> DEFINE sizes == {ba.abox[l].hi[i] - ba.abox[l].lo[i] + 1 : l \in Indices(ba)}
           rest  == {MaxSize - n : n \in sizes}
<1>1. \A l \in Indices(ba) : /\ ba.abox[l].hi[i] - ba.abox[l].lo[i] + 1 \in Nat \ {0}
                             /\ ba.abox[l].hi[i] - ba.abox[l].lo[i] + 1 <= MaxSize
  <2>1. ASSUME NEW l \in Indices(ba)
        PROVE  /\ ba.abox[l].hi[i] \in Int /\ ba.abox[l].lo[i] \in Int
               /\ ba.abox[l].lo[i] <= ba.abox[l].hi[i]
               /\ ba.abox[l].hi[i] - ba.abox[l].lo[i] + 1 <= MaxSize
    BY DEF IsBoxArray, Box, IntVect, Ok, Size
  <2>2. QED
    BY <2>1
<1>2. \A n \in sizes : n \in Nat \ {0} /\ MaxSize - n \in Nat
  BY <1>1
<1>3. rest \subseteq Nat /\ rest # {}
  BY <1>2
<1>4. PICK r \in rest : \A q \in rest : r <= q
  BY <1>3, SmallestOf
<1>5. PICK big \in sizes : r = MaxSize - big
  BY <1>4
<1>6. ASSUME NEW n \in sizes
      PROVE  big >= n
  <2>1. r <= MaxSize - n
    BY <1>4
  <2>2. n \in Nat /\ big \in Nat
    BY <1>2
  <2>3. QED
    BY <1>5, <2>1, <2>2
<1>7. Extent(ba, i) \in sizes /\ \A n \in sizes : Extent(ba, i) >= n
  <2>1. Extent(ba, i) = CHOOSE x \in sizes : \A n \in sizes : x >= n
    BY DEF Extent, Max
  <2>2. QED
    BY <1>6, <2>1
<1>8. QED
  BY <1>2, <1>7 DEF Size

\* The bucket of a box that meets b when it is grown is in the window that is searched, whatever the
\* index type and the number of ghost cells.
LEMMA InWindow ==
  ASSUME NEW MaxSize \in Nat, NEW ba, IsBoxArray(ba, MaxSize), NEW k \in Indices(ba),
         NEW b \in Box, NEW g \in [Dirs -> Nat], Ok(Meet(b, Grow(BoxOf(ba, k), g)))
  PROVE  In(Bucket(ba, k), Window(ba, b, g))
<1> SUFFICES ASSUME NEW i \in Dirs
             PROVE  /\ Window(ba, b, g).lo[i] <= Bucket(ba, k)[i]
                    /\ Bucket(ba, k)[i] <= Window(ba, b, g).hi[i]
  BY DEF In
<1> DEFINE e  == Extent(ba, i)
           lo == ba.abox[k].lo[i]
           hi == ba.abox[k].hi[i]
<1>1. e \in Nat \ {0} /\ hi - lo + 1 <= e
  BY ExtentBounds DEF Size
<1>2. lo \in Int /\ hi \in Int /\ b.lo[i] \in Int /\ b.hi[i] \in Int /\ g[i] \in Nat /\ ba.type[i] \in {0, 1}
  BY DEF IsBoxArray, Box, IntVect
<1>3. b.lo[i] <= hi + ba.type[i] + g[i] /\ lo - g[i] <= b.hi[i]
  <2>1. /\ Grow(BoxOf(ba, k), g).lo[i] = lo - g[i]
        /\ Grow(BoxOf(ba, k), g).hi[i] = hi + ba.type[i] + g[i]
    BY DEF Grow, BoxOf, Plus, Minus, IsBoxArray, Box
  <2>2. Larger(b.lo[i], lo - g[i]) <= Smaller(b.hi[i], hi + ba.type[i] + g[i])
    BY <2>1 DEF Ok, Meet
  <2>3. QED
    BY <1>2, <2>2 DEF Larger, Smaller
<1>4. (b.lo[i] - g[i] - ba.type[i]) \div e <= (lo + e - 1) \div e
  <2>1. b.lo[i] - g[i] - ba.type[i] <= lo + e - 1
    BY <1>1, <1>2, <1>3
  <2>2. b.lo[i] - g[i] - ba.type[i] \in Int /\ lo + e - 1 \in Int
    BY <1>1, <1>2
  <2> HIDE DEF e, lo, hi
  <2>3. QED
    BY <1>1, <2>1, <2>2, DivMonotone
<1>5. (lo + e - 1) \div e <= lo \div e + 1 /\ lo \div e \in Int
  BY <1>1, <1>2, DivNext
<1>6. lo \div e <= (b.hi[i] + g[i]) \div e
  <2>1. lo <= b.hi[i] + g[i]
    BY <1>2, <1>3
  <2>2. b.hi[i] + g[i] \in Int
    BY <1>2
  <2> HIDE DEF e, lo, hi
  <2>3. QED
    BY <1>1, <1>2, <2>1, <2>2, DivMonotone
<1>7. (b.lo[i] - g[i] - ba.type[i]) \div e \in Int /\ (lo + e - 1) \div e \in Int
  BY <1>1, <1>2
<1>8. (b.lo[i] - g[i] - ba.type[i]) \div e - 1 <= lo \div e
  BY <1>4, <1>5, <1>7
<1>9. QED
  BY <1>6, <1>8 DEF Window, Bucket

\* BoxArray::intersections leaves no box out.
THEOREM FoundAll ==
  ASSUME NEW MaxSize \in Nat, NEW ba, IsBoxArray(ba, MaxSize), NEW b \in Box, NEW g \in [Dirs -> Nat]
  PROVE  Found(ba, b, g) = {k \in Indices(ba) : Ok(Meet(b, Grow(BoxOf(ba, k), g)))}
BY InWindow DEF Found

(***************************************************************************)
(* Senders and receivers build the same lists                              *)
(***************************************************************************)
\* Of two periodic directions, a later one with nodes only follows one with nodes, and with no more
\* ghost cells than a period.
NodesFirst(c) ==
  \A i, j \in Dirs :
    /\ i < j /\ c.period[i] > 0 /\ c.period[j] > 0 /\ DstBA(c).type[j] = 1
    => DstBA(c).type[i] = 1 /\ c.nghost[i] <= c.period[i]

\* What a program may ask for.  The lists of "os" are cut in more than one place and are not the
\* matter of this proof.
IsCall(c, MaxSize) ==
  /\ c.kind \in {"fb", "sb", "pc", "epo"}
  /\ c.kind = "epo" => NodesFirst(c)
  /\ IsBoxArray(DstBA(c), MaxSize) /\ IsBoxArray(SrcBA(c), MaxSize)
  /\ c.nghost \in [Dirs -> Nat] /\ c.snghost \in [Dirs -> Nat] /\ c.period \in [Dirs -> Nat]
  /\ c.offset \in IntVect /\ (c.kind # "pc" => c.offset = Zero)

LEMMA VectTypes ==
  ASSUME NEW u \in IntVect, NEW v \in IntVect
  PROVE  Plus(u, v) \in IntVect /\ Minus(u, v) \in IntVect /\ Zero \in IntVect
BY DEF IntVect, Plus, Minus, Zero

LEMMA BoxTypes ==
  ASSUME NEW b \in Box, NEW a \in Box, NEW v \in IntVect
  PROVE  Grow(b, v) \in Box /\ Shift(b, v) \in Box /\ Meet(a, b) \in Box
BY VectTypes, MeetIn DEF Grow, Shift, Box, IntVect, Plus, Minus, Meet, Larger, Smaller

LEMMA MeetTypes ==
  ASSUME NEW a \in Box, NEW b \in Box
  PROVE  Meet(a, b) \in Box
<1>1. Zero \in IntVect
  BY DEF Zero, IntVect
<1>2. QED
  BY <1>1, BoxTypes

LEMMA MeetOk ==
  ASSUME NEW a \in Box, NEW b \in Box, Ok(Meet(a, b))
  PROVE  Ok(a) /\ Ok(b)
<1>1. \A i \in Dirs : a.lo[i] \in Int /\ a.hi[i] \in Int /\ b.lo[i] \in Int /\ b.hi[i] \in Int
  BY DEF Box, IntVect
<1>2. QED
  BY <1>1 DEF Ok, Meet, Larger, Smaller

LEMMA BackAndForth ==
  ASSUME NEW b \in Box, NEW s \in IntVect
  PROVE  /\ Minus(Zero, Minus(Zero, s)) = s
         /\ Shift(Shift(b, s), Minus(Zero, s)) = b
         /\ Shift(Shift(b, Minus(Zero, s)), s) = b
<1>1. \A i \in Dirs : s[i] \in Int /\ b.lo[i] \in Int /\ b.hi[i] \in Int
  BY DEF Box, IntVect
<1>2. Minus(Zero, Minus(Zero, s)) = s
  BY <1>1 DEF Minus, Zero, IntVect
<1>3. /\ Shift(Shift(b, s), Minus(Zero, s)).lo = b.lo
      /\ Shift(Shift(b, s), Minus(Zero, s)).hi = b.hi
      /\ Shift(Shift(b, Minus(Zero, s)), s).lo = b.lo
      /\ Shift(Shift(b, Minus(Zero, s)), s).hi = b.hi
  BY <1>1 DEF Shift, Plus, Minus, Zero, Box, IntVect
<1>4. QED
  BY <1>2, <1>3, VectTypes DEF Shift, Box

LEMMA OkShift ==
  ASSUME NEW b \in Box, NEW s \in IntVect
  PROVE  Ok(Shift(b, s)) <=> Ok(b)
<1>1. \A i \in Dirs : s[i] \in Int /\ b.lo[i] \in Int /\ b.hi[i] \in Int
  BY DEF Box, IntVect
<1>2. QED
  BY <1>1 DEF Ok, Shift, Plus

\* What the sender and the receiver see of an intersection, each in its own place, is the same box.
LEMMA MeetShifted ==
  ASSUME NEW a \in Box, NEW b \in Box, NEW s \in IntVect
  PROVE  Shift(Meet(Shift(a, Minus(Zero, s)), b), s) = Meet(Shift(b, s), a)
<1>1. \A i \in Dirs : /\ s[i] \in Int /\ a.lo[i] \in Int /\ a.hi[i] \in Int
                      /\ b.lo[i] \in Int /\ b.hi[i] \in Int
  BY DEF Box, IntVect
<1>2. \A i \in Dirs : /\ Larger(a.lo[i] + (0 - s[i]), b.lo[i]) + s[i] = Larger(b.lo[i] + s[i], a.lo[i])
                      /\ Smaller(a.hi[i] + (0 - s[i]), b.hi[i]) + s[i] = Smaller(b.hi[i] + s[i], a.hi[i])
  BY <1>1 DEF Larger, Smaller
<1>3. QED
  BY <1>2 DEF Shift, Meet, Plus, Minus, Zero

LEMMA DiffTypes ==
  ASSUME NEW a \in Box, NEW b \in Box, Ok(a), NEW d \in boxDiff(a, b)
  PROVE  d \in Box /\ Ok(d)
<1>1. CASE ~Ok(Meet(a, b))
  BY <1>1 DEF boxDiff
<1>2. CASE Ok(Meet(a, b))
  <2>1. PICK i \in Dirs : d \in {LowPart(a, b, i), HighPart(a, b, i)}
    BY <1>2 DEF boxDiff, Parts
  <2>2. Left(a, b, i) \in Box
    BY DEF Left, Box, IntVect, Larger, Smaller
  <2>3. b.lo[i] - 1 \in Int /\ b.hi[i] + 1 \in Int
    BY DEF Box, IntVect
  <2>4. d \in Box
    BY <2>1, <2>2, <2>3 DEF LowPart, HighPart, Box, IntVect
  <2>5. QED
    BY <1>2, <2>4 DEF boxDiff
<1>3. QED
  BY <1>1, <1>2

(***************************************************************************)
(* EnforcePeriodicity: the sender clips and then cuts, the receiver cuts   *)
(* and then clips                                                          *)
(***************************************************************************)
\* A box has no plane in common with itself shifted, in direction i.
ApartIn(d, s, i) == d.hi[i] - d.lo[i] < s[i] \/ d.hi[i] - d.lo[i] < 0 - s[i]

\* After a direction in which the shift takes the box apart from itself, it does so or is nothing.
ApartLast(d, s) == \A i, j \in Dirs : i < j /\ ApartIn(d, s, i) /\ s[j] # 0 => ApartIn(d, s, j)

LEMMA LastApart ==
  ASSUME NEW d \in Box, NEW s \in IntVect, ApartLast(d, s), NEW k \in Dirs, ApartIn(d, s, k)
  PROVE  \E i \in Dirs : ApartIn(d, s, i) /\ \A j \in Dirs : j > i => s[j] = 0
<1> DEFINE S == {n \in Nat : \E i \in Dirs : n = Dim - i /\ ApartIn(d, s, i)}
<1>1. Dim - k \in S
  BY DimAssumption DEF Dirs
<1>2. PICK n \in S : \A m \in S : n <= m
  BY <1>1, SmallestOf
<1>3. PICK i \in Dirs : n = Dim - i /\ ApartIn(d, s, i)
  BY <1>2
<1>4. ASSUME NEW j \in Dirs, j > i, s[j] # 0
      PROVE  FALSE
  <2>1. ApartIn(d, s, j)
    BY <1>3, <1>4, DimAssumption DEF ApartLast, Dirs
  <2>2. Dim - j \in S
    BY <2>1, DimAssumption DEF Dirs
  <2>3. QED
    BY <2>2, <1>2, <1>3, <1>4, DimAssumption DEF Dirs
<1>5. QED
  BY <1>3, <1>4

\* The planes of the boxes in a direction.
LEMMA Planes ==
  ASSUME NEW x \in Box, NEW d \in Box, NEW s \in IntVect, NEW j \in Dirs
  PROVE  /\ x.lo[j] \in Int /\ x.hi[j] \in Int /\ d.lo[j] \in Int /\ d.hi[j] \in Int /\ s[j] \in Int
         /\ j \in Int
         /\ Shift(d, s).lo[j] = d.lo[j] + s[j] /\ Shift(d, s).hi[j] = d.hi[j] + s[j]
         /\ Meet(x, d).lo[j] = Larger(x.lo[j], d.lo[j]) /\ Meet(x, d).hi[j] = Smaller(x.hi[j], d.hi[j])
BY DimAssumption DEF Box, IntVect, Dirs, Shift, Plus, Meet

\* A box is known by its planes.
LEMMA SamePlanes ==
  ASSUME NEW a \in Box, NEW b \in Box, \A j \in Dirs : a.lo[j] = b.lo[j] /\ a.hi[j] = b.hi[j]
  PROVE  a = b
<1>1. a.lo = b.lo /\ a.hi = b.hi
  BY DEF Box, IntVect
<1>2. QED
  BY <1>1 DEF Box

LEMMA PartTypes ==
  ASSUME NEW x \in Box, NEW d \in Box, NEW i \in Dirs
  PROVE  LowPart(x, d, i) \in Box /\ HighPart(x, d, i) \in Box
<1>1. Left(x, d, i) \in Box
  BY DEF Left, Box, IntVect, Larger, Smaller
<1>2. d.lo[i] - 1 \in Int /\ d.hi[i] + 1 \in Int
  BY DEF Box, IntVect
<1>3. QED
  BY <1>1, <1>2 DEF LowPart, HighPart, Box, IntVect

\* Where the clipped box meets d, each part can be clipped before or after the cut.
LEMMA ClipParts ==
  ASSUME NEW x \in Box, NEW d \in Box, NEW e \in Box, Ok(Meet(Meet(x, e), d)), NEW i \in Dirs
  PROVE  /\ Meet(LowPart(x, d, i), e) = LowPart(Meet(x, e), d, i)
         /\ Meet(HighPart(x, d, i), e) = HighPart(Meet(x, e), d, i)
<1>1. Meet(x, e) \in Box
  BY MeetTypes
<1>2. /\ LowPart(x, d, i) \in Box /\ HighPart(x, d, i) \in Box
      /\ LowPart(Meet(x, e), d, i) \in Box /\ HighPart(Meet(x, e), d, i) \in Box
  BY <1>1, PartTypes
<1>3. Meet(LowPart(x, d, i), e) \in Box /\ Meet(HighPart(x, d, i), e) \in Box
  BY <1>2, MeetTypes
<1>4. ASSUME NEW j \in Dirs
      PROVE  /\ Meet(LowPart(x, d, i), e).lo[j] = LowPart(Meet(x, e), d, i).lo[j]
             /\ Meet(LowPart(x, d, i), e).hi[j] = LowPart(Meet(x, e), d, i).hi[j]
             /\ Meet(HighPart(x, d, i), e).lo[j] = HighPart(Meet(x, e), d, i).lo[j]
             /\ Meet(HighPart(x, d, i), e).hi[j] = HighPart(Meet(x, e), d, i).hi[j]
  <2>1. /\ x.lo[j] \in Int /\ x.hi[j] \in Int /\ d.lo[j] \in Int /\ d.hi[j] \in Int
        /\ e.lo[j] \in Int /\ e.hi[j] \in Int /\ i \in Int /\ j \in Int
    BY DimAssumption DEF Box, IntVect, Dirs
  <2>2. /\ Meet(x, e).lo[j] = Larger(x.lo[j], e.lo[j]) /\ Meet(x, e).hi[j] = Smaller(x.hi[j], e.hi[j])
    BY DEF Meet
  <2>3. Larger(Larger(x.lo[j], e.lo[j]), d.lo[j]) <= Smaller(Smaller(x.hi[j], e.hi[j]), d.hi[j])
    BY DEF Ok, Meet
  <2>4. /\ Meet(LowPart(x, d, i), e).lo[j] = Larger(LowPart(x, d, i).lo[j], e.lo[j])
        /\ Meet(LowPart(x, d, i), e).hi[j] = Smaller(LowPart(x, d, i).hi[j], e.hi[j])
        /\ Meet(HighPart(x, d, i), e).lo[j] = Larger(HighPart(x, d, i).lo[j], e.lo[j])
        /\ Meet(HighPart(x, d, i), e).hi[j] = Smaller(HighPart(x, d, i).hi[j], e.hi[j])
    BY DEF Meet
  <2>5. CASE j = i
    <3>1. /\ LowPart(x, d, i).lo[j] = x.lo[j] /\ LowPart(x, d, i).hi[j] = d.lo[j] - 1
          /\ HighPart(x, d, i).lo[j] = d.hi[j] + 1 /\ HighPart(x, d, i).hi[j] = x.hi[j]
      BY <2>1, <2>5, PartCorners
    <3>2. /\ LowPart(Meet(x, e), d, i).lo[j] = Meet(x, e).lo[j]
          /\ LowPart(Meet(x, e), d, i).hi[j] = d.lo[j] - 1
          /\ HighPart(Meet(x, e), d, i).lo[j] = d.hi[j] + 1
          /\ HighPart(Meet(x, e), d, i).hi[j] = Meet(x, e).hi[j]
      BY <1>1, <2>1, <2>5, PartCorners
    <3>3. QED
      BY <2>1, <2>2, <2>3, <2>4, <3>1, <3>2 DEF Larger, Smaller
  <2>6. CASE j > i
    <3>1. /\ LowPart(x, d, i).lo[j] = Larger(x.lo[j], d.lo[j])
          /\ LowPart(x, d, i).hi[j] = Smaller(x.hi[j], d.hi[j])
          /\ HighPart(x, d, i).lo[j] = Larger(x.lo[j], d.lo[j])
          /\ HighPart(x, d, i).hi[j] = Smaller(x.hi[j], d.hi[j])
      BY <2>1, <2>6, PartCorners
    <3>2. /\ LowPart(Meet(x, e), d, i).lo[j] = Larger(Meet(x, e).lo[j], d.lo[j])
          /\ LowPart(Meet(x, e), d, i).hi[j] = Smaller(Meet(x, e).hi[j], d.hi[j])
          /\ HighPart(Meet(x, e), d, i).lo[j] = Larger(Meet(x, e).lo[j], d.lo[j])
          /\ HighPart(Meet(x, e), d, i).hi[j] = Smaller(Meet(x, e).hi[j], d.hi[j])
      BY <1>1, <2>1, <2>6, PartCorners
    <3>3. QED
      BY <2>1, <2>2, <2>3, <2>4, <3>1, <3>2 DEF Larger, Smaller
  <2>7. CASE j < i
    <3>1. /\ LowPart(x, d, i).lo[j] = x.lo[j] /\ LowPart(x, d, i).hi[j] = x.hi[j]
          /\ HighPart(x, d, i).lo[j] = x.lo[j] /\ HighPart(x, d, i).hi[j] = x.hi[j]
      BY <2>1, <2>7, PartCorners
    <3>2. /\ LowPart(Meet(x, e), d, i).lo[j] = Meet(x, e).lo[j]
          /\ LowPart(Meet(x, e), d, i).hi[j] = Meet(x, e).hi[j]
          /\ HighPart(Meet(x, e), d, i).lo[j] = Meet(x, e).lo[j]
          /\ HighPart(Meet(x, e), d, i).hi[j] = Meet(x, e).hi[j]
      BY <1>1, <2>1, <2>7, PartCorners
    <3>3. QED
      BY <2>1, <2>2, <2>4, <3>1, <3>2
  <2>8. QED
    BY <2>1, <2>5, <2>6, <2>7
<1>5. QED
  BY <1>2, <1>3, <1>4, SamePlanes

\* Where x meets d and the shifted d, but not both at once, the shift takes d apart from itself.
LEMMA NotBoth ==
  ASSUME NEW x \in Box, NEW d \in Box, NEW s \in IntVect,
         Ok(Meet(x, d)), Ok(Meet(x, Shift(d, s))), ~Ok(Meet(Meet(x, Shift(d, s)), d))
  PROVE  \E i \in Dirs : ApartIn(d, s, i)
<1> DEFINE e == Shift(d, s)
<1>1. e \in Box
  BY BoxTypes
<1>2. PICK i \in Dirs : ~(Meet(Meet(x, e), d).lo[i] <= Meet(Meet(x, e), d).hi[i])
  BY DEF Ok
<1>3. /\ x.lo[i] \in Int /\ x.hi[i] \in Int /\ d.lo[i] \in Int /\ d.hi[i] \in Int /\ s[i] \in Int
      /\ e.lo[i] = d.lo[i] + s[i] /\ e.hi[i] = d.hi[i] + s[i]
  BY Planes
<1>4. ~(Larger(Larger(x.lo[i], e.lo[i]), d.lo[i]) <= Smaller(Smaller(x.hi[i], e.hi[i]), d.hi[i]))
  BY <1>2 DEF Meet
<1>5. /\ Larger(x.lo[i], d.lo[i]) <= Smaller(x.hi[i], d.hi[i])
      /\ Larger(x.lo[i], e.lo[i]) <= Smaller(x.hi[i], e.hi[i])
  BY DEF Ok, Meet
<1> HIDE DEF e
<1>6. ApartIn(d, s, i)
  BY <1>3, <1>4, <1>5 DEF ApartIn, Larger, Smaller
<1>7. QED
  BY <1>6

\* Beyond the last direction in which the shift takes d apart from itself, d and the shifted d have
\* the same planes.  In that direction one part of x reaches into the shifted d, with all that x has
\* in common with it, and no other part does.
LEMMA OnlyPart ==
  ASSUME NEW x \in Box, NEW d \in Box, NEW s \in IntVect,
         Ok(Meet(x, d)), Ok(Meet(x, Shift(d, s))),
         NEW i \in Dirs, ApartIn(d, s, i), \A j \in Dirs : j > i => s[j] = 0
  PROVE  /\ \E b \in Parts(x, d) : Meet(b, Shift(d, s)) = Meet(x, Shift(d, s))
         /\ \A b \in Parts(x, d) : Ok(Meet(b, Shift(d, s))) => Meet(b, Shift(d, s)) = Meet(x, Shift(d, s))
<1> DEFINE e == Shift(d, s)
<1>1. e \in Box
  <2>1. Zero \in IntVect
    BY DEF Zero, IntVect
  <2>2. QED
    BY BoxTypes
<1>2. ASSUME NEW j \in Dirs
      PROVE  /\ x.lo[j] \in Int /\ x.hi[j] \in Int /\ d.lo[j] \in Int /\ d.hi[j] \in Int
             /\ s[j] \in Int /\ j \in Int /\ i \in Int
             /\ e.lo[j] = d.lo[j] + s[j] /\ e.hi[j] = d.hi[j] + s[j]
             /\ Larger(x.lo[j], d.lo[j]) <= Smaller(x.hi[j], d.hi[j])
             /\ Larger(x.lo[j], e.lo[j]) <= Smaller(x.hi[j], e.hi[j])
             /\ j > i => s[j] = 0
  <2>1. i \in Int
    BY DimAssumption DEF Dirs
  <2>2. /\ Larger(x.lo[j], d.lo[j]) <= Smaller(x.hi[j], d.hi[j])
        /\ Larger(x.lo[j], e.lo[j]) <= Smaller(x.hi[j], e.hi[j])
    BY DEF Ok, Meet
  <2>3. QED
    BY <2>1, <2>2, Planes
<1>3. d.hi[i] < e.lo[i] \/ e.hi[i] < d.lo[i]
  BY <1>2 DEF ApartIn, Larger, Smaller
<1> HIDE DEF e
<1>4. ASSUME NEW b \in Box, NEW j \in Dirs
      PROVE  /\ Meet(b, e).lo[j] = Larger(b.lo[j], e.lo[j]) /\ Meet(b, e).hi[j] = Smaller(b.hi[j], e.hi[j])
             /\ Ok(Meet(b, e)) => Larger(b.lo[j], e.lo[j]) <= Smaller(b.hi[j], e.hi[j])
             /\ b.lo[j] \in Int /\ b.hi[j] \in Int
  BY DEF Meet, Ok, Box, IntVect
<1>5. \A b \in Box : Meet(b, e) \in Box
  BY <1>1, MeetTypes
<1>6. ASSUME NEW k \in Dirs, k < i, NEW b \in {LowPart(x, d, k), HighPart(x, d, k)}
      PROVE  ~Ok(Meet(b, e))
  <2>1. b \in Box
    BY <1>6, PartTypes
  <2>2. k \in Int /\ i \in Int /\ i > k
    BY <1>6, DimAssumption DEF Dirs
  <2>3. b.lo[i] = Larger(x.lo[i], d.lo[i]) /\ b.hi[i] = Smaller(x.hi[i], d.hi[i])
    BY <1>6, <2>2, PartCorners
  <2>4. QED
    BY <1>2, <1>3, <1>4, <2>1, <2>3 DEF Larger, Smaller
<1>7. ASSUME NEW k \in Dirs, k > i, NEW b \in {LowPart(x, d, k), HighPart(x, d, k)}
      PROVE  ~Ok(Meet(b, e))
  <2>1. b \in Box
    BY <1>7, PartTypes
  <2>2. e.lo[k] = d.lo[k] /\ e.hi[k] = d.hi[k]
    BY <1>2, <1>7
  <2>3. CASE b = LowPart(x, d, k)
    <3>1. b.lo[k] = x.lo[k] /\ b.hi[k] = d.lo[k] - 1
      BY <1>2, <2>3, PartCorners
    <3>2. QED
      BY <1>2, <1>4, <2>1, <2>2, <3>1 DEF Larger, Smaller
  <2>4. CASE b = HighPart(x, d, k)
    <3>1. b.lo[k] = d.hi[k] + 1 /\ b.hi[k] = x.hi[k]
      BY <1>2, <2>4, PartCorners
    <3>2. QED
      BY <1>2, <1>4, <2>1, <2>2, <3>1 DEF Larger, Smaller
  <2>5. QED
    BY <1>7, <2>3, <2>4
<1>8. CASE d.hi[i] < e.lo[i]
  <2>1. ~Ok(Meet(LowPart(x, d, i), e))
    <3>1. LowPart(x, d, i) \in Box /\ LowPart(x, d, i).hi[i] = d.lo[i] - 1
      BY <1>2, PartTypes, PartCorners
    <3>2. QED
      BY <1>2, <1>4, <1>8, <3>1 DEF Larger, Smaller
  <2>2. Meet(HighPart(x, d, i), e) = Meet(x, e)
    <3>1. HighPart(x, d, i) \in Box
      BY PartTypes
    <3>2. ASSUME NEW j \in Dirs
          PROVE  /\ Meet(HighPart(x, d, i), e).lo[j] = Meet(x, e).lo[j]
                 /\ Meet(HighPart(x, d, i), e).hi[j] = Meet(x, e).hi[j]
      <4>1. CASE j = i
        <5>1. HighPart(x, d, i).lo[j] = d.hi[j] + 1 /\ HighPart(x, d, i).hi[j] = x.hi[j]
          BY <1>2, <4>1, PartCorners
        <5>2. QED
          BY <1>2, <1>4, <1>8, <3>1, <4>1, <5>1 DEF Larger, Smaller
      <4>2. CASE j > i
        <5>1. /\ HighPart(x, d, i).lo[j] = Larger(x.lo[j], d.lo[j])
              /\ HighPart(x, d, i).hi[j] = Smaller(x.hi[j], d.hi[j])
          BY <1>2, <4>2, PartCorners
        <5>2. QED
          BY <1>2, <1>4, <3>1, <4>2, <5>1 DEF Larger, Smaller
      <4>3. CASE j < i
        <5>1. HighPart(x, d, i).lo[j] = x.lo[j] /\ HighPart(x, d, i).hi[j] = x.hi[j]
          BY <1>2, <4>3, PartCorners
        <5>2. QED
          BY <1>4, <3>1, <5>1
      <4>4. QED
        BY <1>2, <4>1, <4>2, <4>3
    <3>3. QED
      BY <1>5, <3>1, <3>2, SamePlanes
  <2>3. HighPart(x, d, i) \in Parts(x, d)
    BY DEF Parts
  <2>4. ASSUME NEW b \in Parts(x, d), Ok(Meet(b, e))
        PROVE  Meet(b, e) = Meet(x, e)
    <3>1. PICK k \in Dirs : b \in {LowPart(x, d, k), HighPart(x, d, k)}
      BY DEF Parts
    <3>2. k = i
      BY <1>2, <1>6, <1>7, <2>4, <3>1
    <3>3. QED
      BY <2>1, <2>2, <2>4, <3>1, <3>2
  <2>5. QED
    BY <2>2, <2>3, <2>4 DEF e
<1>9. CASE e.hi[i] < d.lo[i]
  <2>1. ~Ok(Meet(HighPart(x, d, i), e))
    <3>1. HighPart(x, d, i) \in Box /\ HighPart(x, d, i).lo[i] = d.hi[i] + 1
      BY <1>2, PartTypes, PartCorners
    <3>2. QED
      BY <1>2, <1>4, <1>9, <3>1 DEF Larger, Smaller
  <2>2. Meet(LowPart(x, d, i), e) = Meet(x, e)
    <3>1. LowPart(x, d, i) \in Box
      BY PartTypes
    <3>2. ASSUME NEW j \in Dirs
          PROVE  /\ Meet(LowPart(x, d, i), e).lo[j] = Meet(x, e).lo[j]
                 /\ Meet(LowPart(x, d, i), e).hi[j] = Meet(x, e).hi[j]
      <4>1. CASE j = i
        <5>1. LowPart(x, d, i).lo[j] = x.lo[j] /\ LowPart(x, d, i).hi[j] = d.lo[j] - 1
          BY <1>2, <4>1, PartCorners
        <5>2. QED
          BY <1>2, <1>4, <1>9, <3>1, <4>1, <5>1 DEF Larger, Smaller
      <4>2. CASE j > i
        <5>1. /\ LowPart(x, d, i).lo[j] = Larger(x.lo[j], d.lo[j])
              /\ LowPart(x, d, i).hi[j] = Smaller(x.hi[j], d.hi[j])
          BY <1>2, <4>2, PartCorners
        <5>2. QED
          BY <1>2, <1>4, <3>1, <4>2, <5>1 DEF Larger, Smaller
      <4>3. CASE j < i
        <5>1. LowPart(x, d, i).lo[j] = x.lo[j] /\ LowPart(x, d, i).hi[j] = x.hi[j]
          BY <1>2, <4>3, PartCorners
        <5>2. QED
          BY <1>4, <3>1, <5>1
      <4>4. QED
        BY <1>2, <4>1, <4>2, <4>3
    <3>3. QED
      BY <1>5, <3>1, <3>2, SamePlanes
  <2>3. LowPart(x, d, i) \in Parts(x, d)
    BY DEF Parts
  <2>4. ASSUME NEW b \in Parts(x, d), Ok(Meet(b, e))
        PROVE  Meet(b, e) = Meet(x, e)
    <3>1. PICK k \in Dirs : b \in {LowPart(x, d, k), HighPart(x, d, k)}
      BY DEF Parts
    <3>2. k = i
      BY <1>2, <1>6, <1>7, <2>4, <3>1
    <3>3. QED
      BY <2>1, <2>2, <2>4, <3>1, <3>2
  <2>5. QED
    BY <2>2, <2>3, <2>4 DEF e
<1>10. QED
  BY <1>3, <1>8, <1>9

\* To clip a box by the shifted d and then to cut it along d, or first to cut it and then to clip the
\* parts: the same parts come out.
LEMMA CutAndClip ==
  ASSUME NEW x \in Box, NEW d \in Box, NEW s \in IntVect, ApartLast(d, s), Ok(Meet(x, Shift(d, s)))
  PROVE  boxDiff(Meet(x, Shift(d, s)), d)
           = {Meet(b, Shift(d, s)) : b \in {b \in boxDiff(x, d) : Ok(Meet(b, Shift(d, s)))}}
<1> DEFINE e == Shift(d, s)
           m == Meet(x, e)
<1>1. e \in Box /\ m \in Box
  BY BoxTypes, MeetTypes
<1>2. \A b \in Parts(x, d) : b \in Box
  BY PartTypes DEF Parts
<1>3. \A b \in Parts(x, d) : Ok(Meet(b, e)) => Ok(b)
  BY <1>1, <1>2, MeetOk
<1>4. CASE ~Ok(Meet(x, d))
  <2>1. ~Ok(Meet(m, d))
    <3>1. ASSUME Ok(Meet(m, d))
          PROVE  Ok(Meet(x, d))
      <4>1. ASSUME NEW i \in Dirs
            PROVE  Meet(x, d).lo[i] <= Meet(x, d).hi[i]
        <5>1. /\ x.lo[i] \in Int /\ x.hi[i] \in Int /\ d.lo[i] \in Int /\ d.hi[i] \in Int
              /\ e.lo[i] \in Int /\ e.hi[i] \in Int
          BY <1>1 DEF Box, IntVect
        <5>2. Larger(Larger(x.lo[i], e.lo[i]), d.lo[i]) <= Smaller(Smaller(x.hi[i], e.hi[i]), d.hi[i])
          BY <3>1 DEF Ok, Meet
        <5> HIDE DEF e, m
        <5>3. Larger(x.lo[i], d.lo[i]) <= Smaller(x.hi[i], d.hi[i])
          BY <5>1, <5>2 DEF Larger, Smaller
        <5>4. QED
          BY <5>3 DEF Meet
      <4>2. QED
        BY <4>1 DEF Ok
    <3>2. QED
      BY <1>4, <3>1
  <2>2. boxDiff(x, d) = {x} /\ boxDiff(m, d) = {m}
    BY <1>4, <2>1 DEF boxDiff
  <2>3. QED
    BY <2>2
<1>5. CASE Ok(Meet(m, d))
  <2>1. \A b \in Parts(m, d) : \E p \in Parts(x, d) : b = Meet(p, e)
    BY <1>1, <1>5, ClipParts DEF Parts
  <2>2. \A p \in Parts(x, d) : Meet(p, e) \in Parts(m, d)
    BY <1>1, <1>5, ClipParts DEF Parts
  <2>3. CASE ~Ok(Meet(x, d))
    BY <1>4, <2>3
  <2>4. CASE Ok(Meet(x, d))
    <3>1. boxDiff(m, d) = {b \in Parts(m, d) : Ok(b)} /\ boxDiff(x, d) = {b \in Parts(x, d) : Ok(b)}
      BY <1>5, <2>4 DEF boxDiff
    <3> HIDE DEF e, m
    <3>2. {b \in Parts(m, d) : Ok(b)} = {Meet(p, e) : p \in {p \in {b \in Parts(x, d) : Ok(b)} : Ok(Meet(p, e))}}
      BY <1>3, <2>1, <2>2
    <3>3. QED
      BY <3>1, <3>2 DEF e, m
  <2>5. QED
    BY <2>3, <2>4
<1>6. CASE Ok(Meet(x, d)) /\ ~Ok(Meet(m, d))
  <2>1. PICK k \in Dirs : ApartIn(d, s, k)
    BY <1>6, NotBoth
  <2>2. PICK i \in Dirs : ApartIn(d, s, i) /\ \A j \in Dirs : j > i => s[j] = 0
    BY <2>1, LastApart
  <2>3. /\ \E b \in Parts(x, d) : Meet(b, e) = m
        /\ \A b \in Parts(x, d) : Ok(Meet(b, e)) => Meet(b, e) = m
    BY <1>6, <2>2, OnlyPart
  <2>4. boxDiff(m, d) = {m} /\ boxDiff(x, d) = {b \in Parts(x, d) : Ok(b)} /\ Ok(m)
    BY <1>6 DEF boxDiff
  <2> HIDE DEF e, m
  <2>5. {m} = {Meet(p, e) : p \in {p \in {b \in Parts(x, d) : Ok(b)} : Ok(Meet(p, e))}}
    BY <1>3, <2>3, <2>4
  <2>6. QED
    BY <2>4, <2>5 DEF e, m
<1>7. QED
  BY <1>4, <1>5, <1>6

(***************************************************************************)
(* Periodic shifts                                                         *)
(***************************************************************************)
LEMMA Multiple ==
  ASSUME NEW q \in Int, NEW e \in Nat \ {0}
  PROVE  (e * q) % e = 0
OBVIOUS

LEMMA NegativeMultiple ==
  ASSUME NEW x \in Int, NEW e \in Nat \ {0}, x % e = 0
  PROVE  (0 - x) % e = 0
<1>1. x = e * (x \div e) /\ x \div e \in Int
  OBVIOUS
<1>2. 0 - x = e * (0 - (x \div e)) /\ 0 - (x \div e) \in Int
  BY <1>1
<1>3. (e * (0 - (x \div e))) % e = 0
  BY <1>2, Multiple
<1>4. QED
  BY <1>2, <1>3

LEMMA NonzeroMultiple ==
  ASSUME NEW x \in Int, NEW e \in Nat \ {0}, x % e = 0, x # 0
  PROVE  e <= x \/ e <= 0 - x
<1>1. x = e * (x \div e) /\ x \div e \in Int
  OBVIOUS
<1>2. x \div e # 0
  BY <1>1
<1>3. CASE x \div e >= 1
  BY <1>1, <1>3
<1>4. CASE x \div e <= 0 - 1
  BY <1>1, <1>4
<1>5. QED
  BY <1>1, <1>2, <1>3, <1>4

LEMMA OneReach ==
  ASSUME NEW p \in Nat \ {0}, NEW g \in Nat, g <= p
  PROVE  p * Larger(1, (g + p - 1) \div p) = p
<1> DEFINE q == (g + p - 1) \div p
<1>1. q \in Int /\ q * p <= g + p - 1
  OBVIOUS
<1>2. q <= 1
  <2>1. ASSUME q >= 2
        PROVE  FALSE
    <3>1. q * p >= 2 * p
      BY <1>1, <2>1
    <3>2. QED
      BY <1>1, <3>1
  <2>2. QED
    BY <1>1, <2>1
<1>3. Larger(1, q) = 1
  BY <1>1, <1>2 DEF Larger
<1>4. QED
  BY <1>3

\* The shifts of a periodicity come in pairs.
LEMMA ShiftsSymmetric ==
  ASSUME NEW period \in [Dirs -> Nat], NEW g \in [Dirs -> Nat], NEW s \in shiftIntVect(period, g)
  PROVE  s \in IntVect /\ Minus(Zero, s) \in shiftIntVect(period, g)
<1>1. \A i \in Dirs : Reach(period, g, i) \in Int
  <2>1. ASSUME NEW i \in Dirs, period[i] # 0
        PROVE  (g[i] + period[i] - 1) \div period[i] \in Int
    BY <2>1
  <2>2. ASSUME NEW i \in Dirs, period[i] # 0
        PROVE  Larger(1, (g[i] + period[i] - 1) \div period[i]) \in Int
    BY <2>1, <2>2 DEF Larger
  <2>3. QED
    BY <2>2 DEF Reach
<1>2. \A i \in Dirs : /\ s[i] \in -Reach(period, g, i)..Reach(period, g, i)
                      /\ period[i] > 0 => s[i] % period[i] = 0
  BY DEF shiftIntVect
<1>3. s \in IntVect
  <2>1. \A i \in Dirs : s[i] \in Int
    BY <1>1, <1>2
  <2>2. QED
    BY <2>1 DEF shiftIntVect, IntVect
<1>4. \A i \in Dirs : /\ Minus(Zero, s)[i] \in -Reach(period, g, i)..Reach(period, g, i)
                      /\ period[i] > 0 => Minus(Zero, s)[i] % period[i] = 0
  <2> SUFFICES ASSUME NEW i \in Dirs
               PROVE  /\ Minus(Zero, s)[i] \in -Reach(period, g, i)..Reach(period, g, i)
                      /\ period[i] > 0 => Minus(Zero, s)[i] % period[i] = 0
    OBVIOUS
  <2>1. Minus(Zero, s)[i] = 0 - s[i]
    BY DEF Minus, Zero
  <2>2. s[i] \in Int /\ Reach(period, g, i) \in Int /\ period[i] \in Nat
    BY <1>1, <1>3 DEF IntVect
  <2>3. 0 - s[i] \in -Reach(period, g, i)..Reach(period, g, i)
    BY <1>2, <2>2
  <2>4. period[i] > 0 => (0 - s[i]) % period[i] = 0
    BY <1>2, <2>2, NegativeMultiple
  <2>5. QED
    BY <2>1, <2>3, <2>4
<1>5. Minus(Zero, s) \in [Dirs -> UNION {-Reach(period, g, i)..Reach(period, g, i) : i \in Dirs}]
  BY <1>4 DEF Minus
<1>6. QED
  BY <1>3, <1>4, <1>5 DEF shiftIntVect

\* What NodesFirst is for.
LEMMA DomainApart ==
  ASSUME NEW c, c.period \in [Dirs -> Nat], c.nghost \in [Dirs -> Nat],
         DstBA(c).type \in [Dirs -> {0, 1}], NodesFirst(c), NEW s \in shiftIntVect(c.period, c.nghost)
  PROVE  Domain(c) \in Box /\ ApartLast(Domain(c), s)
<1> DEFINE d == Domain(c)
           t == DstBA(c).type
<1>1. ASSUME NEW i \in Dirs
      PROVE  /\ c.period[i] \in Nat /\ c.nghost[i] \in Nat /\ t[i] \in {0, 1} /\ s[i] \in Int
             /\ c.period[i] > 0 => d.hi[i] - d.lo[i] = c.period[i] - 1 + t[i]
             /\ c.period[i] = 0 => d.hi[i] - d.lo[i] >= 0
             /\ c.period[i] = 0 => s[i] = 0
             /\ c.period[i] > 0 => s[i] % c.period[i] = 0
             /\ c.period[i] > 0 /\ c.nghost[i] <= c.period[i]
                  => s[i] <= c.period[i] /\ 0 - s[i] <= c.period[i]
             /\ d.lo[i] \in Int /\ d.hi[i] \in Int
  <2>1. s \in IntVect
    BY ShiftsSymmetric
  <2>2. c.period[i] \in Nat /\ c.nghost[i] \in Nat /\ t[i] \in {0, 1} /\ s[i] \in Int
    BY <2>1 DEF IntVect
  <2>3. /\ d.lo[i] = IF c.period[i] > 0 THEN 0 ELSE -Unbounded
        /\ d.hi[i] = (IF c.period[i] > 0 THEN c.period[i] - 1 ELSE Unbounded - 1) + t[i]
    BY DEF Domain, PDomain
  <2>4. /\ s[i] \in -Reach(c.period, c.nghost, i)..Reach(c.period, c.nghost, i)
        /\ c.period[i] > 0 => s[i] % c.period[i] = 0
    BY DEF shiftIntVect
  <2>5. c.period[i] = 0 => Reach(c.period, c.nghost, i) = 0
    BY DEF Reach
  <2>6. c.period[i] > 0 /\ c.nghost[i] <= c.period[i] => Reach(c.period, c.nghost, i) = c.period[i]
    BY <2>2, OneReach DEF Reach
  <2> HIDE DEF d, t
  <2>7. QED
    BY <2>2, <2>3, <2>4, <2>5, <2>6, UnboundedAssumption
<1>2. d \in Box
  <2>1. d.lo \in IntVect /\ d.hi \in IntVect
    BY <1>1 DEF Domain, PDomain, IntVect
  <2>2. QED
    BY <2>1 DEF Domain, PDomain, Box
<1>3. ASSUME NEW i \in Dirs, NEW j \in Dirs, i < j, ApartIn(d, s, i), s[j] # 0
      PROVE  ApartIn(d, s, j)
  <2>1. c.period[i] > 0
    BY <1>1, <1>3 DEF ApartIn
  <2>2. c.period[j] > 0
    BY <1>1, <1>3
  <2>3. c.period[j] <= s[j] \/ c.period[j] <= 0 - s[j]
    BY <1>1, <1>3, <2>2, NonzeroMultiple
  <2>4. t[j] # 1
    <3>1. ASSUME t[j] = 1
          PROVE  FALSE
      <4>1. t[i] = 1 /\ c.nghost[i] <= c.period[i]
        BY <1>3, <2>1, <2>2, <3>1 DEF NodesFirst
      <4>2. QED
        BY <1>1, <1>3, <2>1, <4>1 DEF ApartIn
    <3>2. QED
      BY <3>1
  <2>5. QED
    BY <1>1, <2>2, <2>3, <2>4 DEF ApartIn
<1>4. QED
  BY <1>2, <1>3 DEF ApartLast

LEMMA ShiftsAndBacks ==
  ASSUME NEW MaxSize \in Nat, NEW c, IsCall(c, MaxSize), NEW s \in IntVect
  PROVE  /\ Shifts(c) \subseteq IntVect /\ Backs(c) \subseteq IntVect
         /\ s \in Shifts(c) <=> Minus(Zero, s) \in Backs(c)
<1>1. c.period \in [Dirs -> Nat] /\ ShiftGrow(c) \in [Dirs -> Nat] /\ c.offset \in IntVect
  BY DEF IsCall, ShiftGrow, Larger
<1>2. Shifts(c) \subseteq IntVect
  BY <1>1, ShiftsSymmetric, VectTypes DEF Shifts
<1>3. CASE c.kind = "pc"
  <2>1. Backs(c) = {Minus(Zero, u) : u \in Shifts(c)}
    BY <1>3 DEF Backs
  <2>2. Backs(c) \subseteq IntVect
    BY <1>2, <2>1, VectTypes
  <2>3. ASSUME Minus(Zero, s) \in Backs(c)
        PROVE  s \in Shifts(c)
    <3>1. PICK u \in Shifts(c) : Minus(Zero, s) = Minus(Zero, u)
      BY <2>1, <2>3
    <3>2. \A i \in Dirs : s[i] = u[i]
      <4>1. \A i \in Dirs : s[i] \in Int /\ u[i] \in Int
        BY <1>2 DEF IntVect
      <4>2. \A i \in Dirs : 0 - s[i] = 0 - u[i]
        BY <3>1 DEF Minus, Zero
      <4>3. QED
        BY <4>1, <4>2
    <3>3. QED
      BY <1>2, <3>2 DEF IntVect
  <2>4. QED
    BY <1>2, <2>1, <2>2, <2>3
<1>4. CASE c.kind # "pc"
  <2>1. \A u \in IntVect : Plus(u, c.offset) = u
    BY <1>4 DEF IsCall, Plus, Zero, IntVect
  <2>2. Shifts(c) = shiftIntVect(c.period, ShiftGrow(c))
    BY <1>1, <2>1, ShiftsSymmetric DEF Shifts
  <2>3. Backs(c) = Shifts(c)
    BY <1>4 DEF Backs
  <2>4. s \in Shifts(c) => Minus(Zero, s) \in Shifts(c)
    BY <1>1, <2>2, ShiftsSymmetric
  <2>5. Minus(Zero, s) \in Shifts(c) => s \in Shifts(c)
    <3>1. Minus(Zero, Minus(Zero, s)) = s
      BY DEF Minus, Zero, IntVect
    <3>2. QED
      BY <1>1, <2>2, <3>1, ShiftsSymmetric
  <2>6. QED
    BY <1>2, <2>3, <2>4, <2>5
<1>5. QED
  BY <1>3, <1>4

(***************************************************************************)
(* The tags between two boxes                                              *)
(***************************************************************************)
\* Where the grown source box ks, shifted, meets the grown destination box kr.
Overlap(c, ks, kr, s) == Meet(Shift(SndBox(c, ks), s), Grow(BoxOf(DstBA(c), kr), RcvGrow(c)))

\* The tags between two boxes.
Agreed(c, ks, kr) ==
  UNION {{Tag(b, Shift(b, Minus(Zero, s)), kr, ks) : b \in Kept(c, kr, Overlap(c, ks, kr, s))} :
         s \in {s \in Shifts(c) : ~Skipped(c, ks, kr, s) /\ Ok(Overlap(c, ks, kr, s))}}

LEMMA BoxOfTypes ==
  ASSUME NEW MaxSize \in Nat, NEW ba, IsBoxArray(ba, MaxSize), NEW k \in Indices(ba)
  PROVE  BoxOf(ba, k) \in Box
<1>1. ba.abox[k] \in Box /\ ba.type \in IntVect
  BY DEF IsBoxArray, IntVect
<1>2. BoxOf(ba, k) = [lo |-> ba.abox[k].lo, hi |-> Plus(ba.abox[k].hi, ba.type)]
  BY <1>1 DEF BoxOf, Box
<1>3. QED
  BY <1>1, <1>2, VectTypes DEF Box

LEMMA GrowTypes ==
  ASSUME NEW MaxSize \in Nat, NEW c, IsCall(c, MaxSize)
  PROVE  /\ RcvGrow(c) \in [Dirs -> Nat] /\ SndGrow(c) \in [Dirs -> Nat]
         /\ RcvGrow(c) \in IntVect /\ SndGrow(c) \in IntVect
<1>1. RcvGrow(c) \in [Dirs -> Nat] /\ SndGrow(c) \in [Dirs -> Nat]
  BY DEF IsCall, RcvGrow, SndGrow, Zero
<1>2. QED
  BY <1>1 DEF IntVect

LEMMA DomainOf ==
  ASSUME NEW MaxSize \in Nat, NEW c, IsCall(c, MaxSize), c.kind = "epo"
  PROVE  Domain(c) \in Box /\ \A s \in Shifts(c) : ApartLast(Domain(c), s)
<1>1. /\ c.period \in [Dirs -> Nat] /\ c.nghost \in [Dirs -> Nat] /\ NodesFirst(c)
      /\ DstBA(c).type \in [Dirs -> {0, 1}] /\ c.offset = Zero
  BY DEF IsCall, IsBoxArray
<1>2. \A u \in IntVect : Plus(u, Zero) = u
  BY DEF Plus, Zero, IntVect
<1>3. Shifts(c) = shiftIntVect(c.period, c.nghost)
  BY <1>1, <1>2, ShiftsSymmetric DEF Shifts, ShiftGrow
<1>4. Zero \in shiftIntVect(c.period, c.nghost)
  <2>1. \A i \in Dirs : 0 \in -Reach(c.period, c.nghost, i)..Reach(c.period, c.nghost, i)
    <3>1. ASSUME NEW i \in Dirs, c.period[i] > 0
          PROVE  Reach(c.period, c.nghost, i) \in Nat
      BY <1>1, <3>1 DEF Reach, Larger
    <3>2. \A i \in Dirs : Reach(c.period, c.nghost, i) \in Nat
      BY <1>1, <3>1 DEF Reach
    <3>3. QED
      BY <3>2
  <2>2. QED
    BY <1>1, <2>1 DEF shiftIntVect, Zero
<1>5. QED
  BY <1>1, <1>3, <1>4, DomainApart

LEMMA SndBoxTypes ==
  ASSUME NEW MaxSize \in Nat, NEW c, IsCall(c, MaxSize), NEW ks \in Indices(SrcBA(c))
  PROVE  /\ Grow(BoxOf(SrcBA(c), ks), SndGrow(c)) \in Box /\ SndBox(c, ks) \in Box
         /\ c.kind # "epo" => SndBox(c, ks) = Grow(BoxOf(SrcBA(c), ks), SndGrow(c))
<1>1. BoxOf(SrcBA(c), ks) \in Box
  BY BoxOfTypes DEF IsCall
<1>2. Grow(BoxOf(SrcBA(c), ks), SndGrow(c)) \in Box
  BY <1>1, GrowTypes, BoxTypes
<1>3. QED
  BY <1>2, DomainOf, MeetTypes DEF SndBox

LEMMA RcvBoxTypes ==
  ASSUME NEW MaxSize \in Nat, NEW c, IsCall(c, MaxSize), NEW kr \in Indices(DstBA(c))
  PROVE  BoxOf(DstBA(c), kr) \in Box /\ Grow(BoxOf(DstBA(c), kr), RcvGrow(c)) \in Box
<1>1. BoxOf(DstBA(c), kr) \in Box
  BY BoxOfTypes DEF IsCall
<1>2. QED
  BY <1>1, GrowTypes, BoxTypes

LEMMA ShiftTypes ==
  ASSUME NEW MaxSize \in Nat, NEW c, IsCall(c, MaxSize)
  PROVE  Shifts(c) \subseteq IntVect /\ Backs(c) \subseteq IntVect
<1>1. Zero \in IntVect
  BY DEF Zero, IntVect
<1>2. QED
  BY <1>1, ShiftsAndBacks

\* The parts of an intersection have points.
LEMMA KeptTypes ==
  ASSUME NEW MaxSize \in Nat, NEW c, IsCall(c, MaxSize), NEW kr \in Indices(DstBA(c)),
         NEW m \in Box, Ok(m), NEW b \in Kept(c, kr, m)
  PROVE  b \in Box /\ Ok(b)
<1>1. \/ b \in boxDiff(m, BoxOf(DstBA(c), kr)) \/ b = m
      \/ c.kind = "epo" /\ b \in boxDiff(m, Domain(c))
  BY DEF Kept, IsCall
<1>2. QED
  BY <1>1, DiffTypes, RcvBoxTypes, DomainOf

LEMMA SendTagsAre ==
  ASSUME NEW MaxSize \in Nat, NEW c, IsCall(c, MaxSize), NEW ks \in Indices(SrcBA(c))
  PROVE  SendTags(c, ks) = UNION {Agreed(c, ks, kr) : kr \in Indices(DstBA(c))}
<1>1. IsBoxArray(DstBA(c), MaxSize) /\ RcvGrow(c) \in [Dirs -> Nat] /\ SndBox(c, ks) \in Box
  BY GrowTypes, SndBoxTypes DEF IsCall
<1>2. \A s \in Shifts(c) : Shift(SndBox(c, ks), s) \in Box
  BY <1>1, ShiftTypes, BoxTypes
<1>3. ASSUME NEW s \in Shifts(c)
      PROVE  Found(DstBA(c), Shift(SndBox(c, ks), s), RcvGrow(c))
               = {kr \in Indices(DstBA(c)) : Ok(Overlap(c, ks, kr, s))}
  BY <1>1, <1>2, FoundAll DEF Overlap
<1>4. \A s \in Shifts(c) :
        SendTagsTo(c, ks, s) =
          UNION {{Tag(b, Shift(b, Minus(Zero, s)), kr, ks) : b \in Kept(c, kr, Overlap(c, ks, kr, s))} :
                 kr \in {kr \in Indices(DstBA(c)) : Ok(Overlap(c, ks, kr, s)) /\ ~Skipped(c, ks, kr, s)}}
  BY <1>3, Zenon DEF SendTagsTo, Overlap
<1>5. UNION {SendTagsTo(c, ks, s) : s \in Shifts(c)} = UNION {Agreed(c, ks, kr) : kr \in Indices(DstBA(c))}
  BY <1>4 DEF Agreed
<1>6. ASSUME ~Ok(SndBox(c, ks)), NEW s \in Shifts(c), NEW kr \in Indices(DstBA(c))
      PROVE  ~Ok(Overlap(c, ks, kr, s))
  <2>1. ~Ok(Shift(SndBox(c, ks), s))
    BY <1>1, <1>6, ShiftTypes, OkShift
  <2>2. QED
    BY <1>2, <2>1, MeetOk, RcvBoxTypes DEF Overlap
<1>7. QED
  BY <1>5, <1>6 DEF SendTags, Agreed

LEMMA RecvTagsFromAre ==
  ASSUME NEW MaxSize \in Nat, NEW c, IsCall(c, MaxSize), c.kind # "epo", NEW kr \in Indices(DstBA(c)),
         NEW s \in IntVect
  PROVE  RecvTagsFrom(c, kr, Minus(Zero, s)) =
           UNION {{Tag(b, Shift(b, Minus(Zero, s)), kr, ks) : b \in Kept(c, kr, Overlap(c, ks, kr, s))} :
                  ks \in {ks \in Indices(SrcBA(c)) : Ok(Overlap(c, ks, kr, s)) /\ ~Skipped(c, ks, kr, s)}}
<1> DEFINE back == Minus(Zero, s)
           from == Shift(Grow(BoxOf(DstBA(c), kr), RcvGrow(c)), back)
           seen(ks) == Meet(from, Grow(BoxOf(SrcBA(c), ks), SndGrow(c)))
<1>1. back \in IntVect /\ Minus(Zero, back) = s
  <2>1. back \in IntVect
    BY VectTypes
  <2>2. Minus(Zero, back) = s
    BY DEF Minus, Zero, IntVect
  <2>3. QED
    BY <2>1, <2>2
<1>2. from \in Box
  BY <1>1, RcvBoxTypes, BoxTypes
<1>3. ASSUME NEW ks \in Indices(SrcBA(c))
      PROVE  /\ Shift(seen(ks), s) = Overlap(c, ks, kr, s)
             /\ Ok(seen(ks)) <=> Ok(Overlap(c, ks, kr, s))
             /\ Overlap(c, ks, kr, s) \in Box
  <2>1. seen(ks) = Meet(from, SndBox(c, ks)) /\ SndBox(c, ks) \in Box
    BY SndBoxTypes
  <2>2. Shift(seen(ks), s) = Overlap(c, ks, kr, s)
    BY <2>1, RcvBoxTypes, MeetShifted DEF Overlap
  <2>3. seen(ks) \in Box
    BY <1>2, <2>1, BoxTypes
  <2>4. QED
    BY <2>2, <2>3, OkShift, BoxTypes
<1>4. Found(SrcBA(c), from, SndGrow(c)) = {ks \in Indices(SrcBA(c)) : Ok(seen(ks))}
  BY <1>2, GrowTypes, FoundAll DEF IsCall
<1>5. ASSUME NEW ks \in Indices(SrcBA(c))
      PROVE  Skipped(c, ks, kr, back) <=> Skipped(c, ks, kr, s)
  <2>1. back = Zero <=> s = Zero
    <3>1. Minus(Zero, Zero) = Zero
      BY DEF Minus, Zero
    <3>2. QED
      BY <1>1, <3>1
  <2>2. QED
    BY <2>1 DEF Skipped
<1>6. ASSUME NEW ks \in Indices(SrcBA(c)), Ok(Overlap(c, ks, kr, s)),
             NEW b \in Kept(c, kr, Overlap(c, ks, kr, s))
      PROVE  /\ Source(c, b, back) = Shift(b, back) /\ Ok(Source(c, b, back))
             /\ Shift(Source(c, b, back), s) = b
  <2>1. b \in Box /\ Ok(b)
    BY <1>3, <1>6, KeptTypes
  <2>2. Source(c, b, back) = Shift(b, back)
    BY DEF Source, IsCall
  <2>3. QED
    BY <1>1, <2>1, <2>2, OkShift, BackAndForth
<1>7. RecvTagsFrom(c, kr, back) =
        UNION {{Tag(Shift(Source(c, b, back), s), Source(c, b, back), kr, ks) :
                  b \in {b \in Kept(c, kr, Shift(seen(ks), s)) : Ok(Source(c, b, back))}} :
               ks \in {ks \in Found(SrcBA(c), from, SndGrow(c)) : ~Skipped(c, ks, kr, back)}}
  BY <1>1 DEF RecvTagsFrom
<1>8. {ks \in Found(SrcBA(c), from, SndGrow(c)) : ~Skipped(c, ks, kr, back)}
        = {ks \in Indices(SrcBA(c)) : Ok(Overlap(c, ks, kr, s)) /\ ~Skipped(c, ks, kr, s)}
  BY <1>3, <1>4, <1>5
<1>9. ASSUME NEW ks \in {ks \in Indices(SrcBA(c)) : Ok(Overlap(c, ks, kr, s)) /\ ~Skipped(c, ks, kr, s)}
      PROVE  {Tag(Shift(Source(c, b, back), s), Source(c, b, back), kr, ks) :
                b \in {b \in Kept(c, kr, Shift(seen(ks), s)) : Ok(Source(c, b, back))}}
             = {Tag(b, Shift(b, back), kr, ks) : b \in Kept(c, kr, Overlap(c, ks, kr, s))}
  <2> HIDE DEF back, seen
  <2>1. {b \in Kept(c, kr, Shift(seen(ks), s)) : Ok(Source(c, b, back))} = Kept(c, kr, Overlap(c, ks, kr, s))
    BY <1>3, <1>6
  <2>2. QED
    BY <1>6, <2>1
<1>10. QED
  <2> DEFINE got(ks) == {Tag(Shift(Source(c, b, back), s), Source(c, b, back), kr, ks) :
                           b \in {b \in Kept(c, kr, Shift(seen(ks), s)) : Ok(Source(c, b, back))}}
             due(ks) == {Tag(b, Shift(b, back), kr, ks) : b \in Kept(c, kr, Overlap(c, ks, kr, s))}
             these == {ks \in Indices(SrcBA(c)) : Ok(Overlap(c, ks, kr, s)) /\ ~Skipped(c, ks, kr, s)}
  <2>1. RecvTagsFrom(c, kr, back) = UNION {got(ks) : ks \in these}
    BY <1>7, <1>8
  <2>2. \A ks \in these : got(ks) = due(ks)
    BY <1>9
  <2>3. RecvTagsFrom(c, kr, back) = UNION {due(ks) : ks \in these}
    <3> HIDE DEF got, due, these
    <3>1. QED
      BY <2>1, <2>2
  <2>4. QED
    BY <2>3

LEMMA MeetAgain ==
  ASSUME NEW a \in Box, NEW b \in Box, NEW d \in Box, NEW s \in IntVect
  PROVE  /\ Meet(a, b) = Meet(b, a)
         /\ Meet(Shift(Meet(a, d), s), b) = Meet(Meet(Shift(a, s), b), Shift(d, s))
<1>1. /\ Meet(a, b) \in Box /\ Meet(b, a) \in Box
      /\ Shift(Meet(a, d), s) \in Box /\ Shift(a, s) \in Box /\ Shift(d, s) \in Box
  BY MeetTypes, BoxTypes
<1>2. Meet(Shift(Meet(a, d), s), b) \in Box /\ Meet(Meet(Shift(a, s), b), Shift(d, s)) \in Box
  BY <1>1, MeetTypes
<1>3. ASSUME NEW i \in Dirs
      PROVE  /\ Meet(a, b).lo[i] = Meet(b, a).lo[i] /\ Meet(a, b).hi[i] = Meet(b, a).hi[i]
             /\ Meet(Shift(Meet(a, d), s), b).lo[i] = Meet(Meet(Shift(a, s), b), Shift(d, s)).lo[i]
             /\ Meet(Shift(Meet(a, d), s), b).hi[i] = Meet(Meet(Shift(a, s), b), Shift(d, s)).hi[i]
  <2>1. /\ a.lo[i] \in Int /\ a.hi[i] \in Int /\ b.lo[i] \in Int /\ b.hi[i] \in Int
        /\ d.lo[i] \in Int /\ d.hi[i] \in Int /\ s[i] \in Int
    BY DEF Box, IntVect
  <2>2. /\ Larger(a.lo[i], b.lo[i]) = Larger(b.lo[i], a.lo[i])
        /\ Smaller(a.hi[i], b.hi[i]) = Smaller(b.hi[i], a.hi[i])
        /\ Larger(Larger(a.lo[i], d.lo[i]) + s[i], b.lo[i])
             = Larger(Larger(a.lo[i] + s[i], b.lo[i]), d.lo[i] + s[i])
        /\ Smaller(Smaller(a.hi[i], d.hi[i]) + s[i], b.hi[i])
             = Smaller(Smaller(a.hi[i] + s[i], b.hi[i]), d.hi[i] + s[i])
    BY <2>1 DEF Larger, Smaller
  <2>3. QED
    BY <2>2 DEF Meet, Shift, Plus
<1>4. QED
  BY <1>1, <1>2, <1>3, SamePlanes

\* With EnforcePeriodicity the receiver cuts the intersection along the domain and then clips the
\* source of each part by it.
LEMMA RecvTagsFromEpo ==
  ASSUME NEW MaxSize \in Nat, NEW c, IsCall(c, MaxSize), c.kind = "epo", NEW s \in Shifts(c),
         NEW kr \in Indices(DstBA(c))
  PROVE  RecvTagsFrom(c, kr, Minus(Zero, s)) =
           UNION {{Tag(b, Shift(b, Minus(Zero, s)), kr, ks) : b \in Kept(c, kr, Overlap(c, ks, kr, s))} :
                  ks \in {ks \in Indices(SrcBA(c)) : Ok(Overlap(c, ks, kr, s)) /\ ~Skipped(c, ks, kr, s)}}
<1> DEFINE back == Minus(Zero, s)
           from == Shift(Grow(BoxOf(DstBA(c), kr), RcvGrow(c)), back)
           seen(ks) == Meet(from, Grow(BoxOf(SrcBA(c), ks), SndGrow(c)))
           x(ks) == Shift(seen(ks), s)
           d == Domain(c)
           e == Shift(d, s)
           clipped(ks) == {Meet(b, e) : b \in {b \in boxDiff(x(ks), d) : Ok(Meet(b, e))}}
<1>1. s \in IntVect /\ back \in IntVect /\ Minus(Zero, back) = s
  <2>1. s \in IntVect
    BY ShiftTypes
  <2>2. back \in IntVect
    BY <2>1, VectTypes
  <2>3. QED
    BY <2>1, <2>2 DEF Minus, Zero, IntVect
<1>2. d \in Box /\ ApartLast(d, s)
  BY DomainOf
<1>3. e \in Box
  BY <1>1, <1>2, BoxTypes
<1>4. from \in Box
  BY <1>1, RcvBoxTypes, BoxTypes
<1>5. ASSUME NEW ks \in Indices(SrcBA(c))
      PROVE  /\ x(ks) \in Box /\ (Ok(seen(ks)) <=> Ok(x(ks)))
             /\ Overlap(c, ks, kr, s) = Meet(x(ks), e)
  <2> DEFINE src == Grow(BoxOf(SrcBA(c), ks), SndGrow(c))
             dst == Grow(BoxOf(DstBA(c), kr), RcvGrow(c))
  <2>1. src \in Box /\ dst \in Box
    BY SndBoxTypes, RcvBoxTypes
  <2>2. seen(ks) \in Box
    BY <1>4, <2>1, MeetTypes
  <2>3. x(ks) = Meet(Shift(src, s), dst)
    BY <1>1, <2>1, MeetShifted
  <2>4. SndBox(c, ks) = Meet(src, d)
    BY DEF SndBox
  <2>5. Overlap(c, ks, kr, s) = Meet(Shift(Meet(src, d), s), dst)
    BY <2>4 DEF Overlap
  <2> HIDE DEF src, dst, d
  <2>6. Overlap(c, ks, kr, s) = Meet(Meet(Shift(src, s), dst), e)
    BY <1>1, <1>2, <2>1, <2>5, MeetAgain
  <2>7. QED
    BY <1>1, <2>2, <2>3, <2>6, OkShift, BoxTypes
<1>6. Found(SrcBA(c), from, SndGrow(c)) = {ks \in Indices(SrcBA(c)) : Ok(seen(ks))}
  BY <1>4, GrowTypes, FoundAll DEF IsCall
<1>7. ASSUME NEW ks \in Indices(SrcBA(c))
      PROVE  Skipped(c, ks, kr, back) <=> Skipped(c, ks, kr, s)
  <2>1. back = Zero <=> s = Zero
    <3>1. Minus(Zero, Zero) = Zero
      BY DEF Minus, Zero
    <3>2. QED
      BY <1>1, <3>1
  <2>2. QED
    BY <2>1 DEF Skipped
<1>8. ASSUME NEW b \in Box
      PROVE  /\ Shift(Source(c, b, back), s) = Meet(b, e) /\ Source(c, b, back) = Shift(Meet(b, e), back)
             /\ Ok(Source(c, b, back)) <=> Ok(Meet(b, e))
  <2>1. Source(c, b, back) = Meet(Shift(b, back), d)
    BY DEF Source
  <2>2. Shift(b, back) \in Box
    BY <1>1, BoxTypes
  <2>3. Source(c, b, back) \in Box
    BY <1>2, <2>1, <2>2, MeetTypes
  <2>4. Shift(Meet(Shift(b, back), d), s) = Meet(e, b)
    BY <1>1, <1>2, MeetShifted
  <2>5. Shift(Source(c, b, back), s) = Meet(b, e)
    BY <1>1, <1>3, <2>1, <2>4, MeetAgain
  <2>6. Source(c, b, back) = Shift(Meet(b, e), back)
    BY <1>1, <2>3, <2>5, BackAndForth
  <2>7. QED
    BY <1>1, <2>3, <2>5, <2>6, OkShift
<1>9. ASSUME NEW ks \in Indices(SrcBA(c)), Ok(x(ks))
      PROVE  /\ \A b \in boxDiff(x(ks), d) : b \in Box
             /\ Ok(Meet(x(ks), e)) => clipped(ks) = boxDiff(Meet(x(ks), e), d)
             /\ ~Ok(Meet(x(ks), e)) => clipped(ks) = {}
  <2>1. x(ks) \in Box
    BY <1>5
  <2> HIDE DEF x, d
  <2>2. \A b \in boxDiff(x(ks), d) : b \in Box
    BY <1>2, <1>9, <2>1, DiffTypes
  <2>3. Ok(Meet(x(ks), e)) => clipped(ks) = boxDiff(Meet(x(ks), e), d)
    BY <1>1, <1>2, <2>1, CutAndClip
  <2>4. ASSUME NEW b \in boxDiff(x(ks), d), Ok(Meet(b, e))
        PROVE  Ok(Meet(x(ks), e))
    <3>1. b \in Box /\ Meet(b, e) \in Box
      BY <1>3, <2>2, MeetTypes
    <3> DEFINE p == Meet(b, e).lo
    <3>2. p \in IntVect /\ In(p, Meet(b, e))
      <4>1. p \in IntVect
        BY <3>1 DEF Box
      <4>2. \A i \in Dirs : Meet(b, e).lo[i] \in Int
        BY <3>1 DEF Box, IntVect
      <4>3. QED
        BY <2>4, <4>1, <4>2 DEF In, Ok
    <3> HIDE DEF p, e
    <3>3. In(p, b) /\ In(p, e)
      BY <1>3, <3>1, <3>2, MeetIn
    <3>4. In(p, x(ks))
      BY <1>2, <2>1, <3>2, <3>3, BoxDiffCovers
    <3>5. In(p, Meet(x(ks), e))
      BY <1>3, <2>1, <3>2, <3>3, <3>4, MeetIn
    <3>6. QED
      BY <1>3, <2>1, <3>2, <3>5, MeetIn
  <2>5. QED
    BY <2>2, <2>3, <2>4
<1>10. RecvTagsFrom(c, kr, back) =
         UNION {{Tag(Shift(Source(c, b, back), s), Source(c, b, back), kr, ks) :
                   b \in {b \in boxDiff(x(ks), d) : Ok(Source(c, b, back))}} :
                ks \in {ks \in Found(SrcBA(c), from, SndGrow(c)) : ~Skipped(c, ks, kr, back)}}
  <2>1. \A ks : Kept(c, kr, x(ks)) = boxDiff(x(ks), d)
    BY DEF Kept
  <2>2. RecvTagsFrom(c, kr, back) =
          UNION {{Tag(Shift(Source(c, b, back), s), Source(c, b, back), kr, ks) :
                    b \in {b \in Kept(c, kr, x(ks)) : Ok(Source(c, b, back))}} :
                 ks \in {ks \in Found(SrcBA(c), from, SndGrow(c)) : ~Skipped(c, ks, kr, back)}}
    BY <1>1 DEF RecvTagsFrom
  <2> HIDE DEF x, d, back
  <2>3. QED
    BY <2>1, <2>2
<1>11. {ks \in Found(SrcBA(c), from, SndGrow(c)) : ~Skipped(c, ks, kr, back)}
         = {ks \in Indices(SrcBA(c)) : Ok(x(ks)) /\ ~Skipped(c, ks, kr, s)}
  BY <1>5, <1>6, <1>7
<1>12. ASSUME NEW ks \in Indices(SrcBA(c)), Ok(x(ks))
       PROVE  {Tag(Shift(Source(c, b, back), s), Source(c, b, back), kr, ks) :
                 b \in {b \in boxDiff(x(ks), d) : Ok(Source(c, b, back))}}
              = {Tag(b, Shift(b, back), kr, ks) : b \in clipped(ks)}
  <2>1. \A b \in boxDiff(x(ks), d) : /\ Ok(Source(c, b, back)) <=> Ok(Meet(b, e))
                                     /\ Shift(Source(c, b, back), s) = Meet(b, e)
                                     /\ Source(c, b, back) = Shift(Meet(b, e), back)
    BY <1>8, <1>9, <1>12
  <2> HIDE DEF x, d, e, back
  <2>2. QED
    BY <2>1
<1>13. \A ks \in Indices(SrcBA(c)) : /\ Ok(Overlap(c, ks, kr, s)) <=> Ok(Meet(x(ks), e))
                                     /\ Ok(Meet(x(ks), e)) => Ok(x(ks))
                                     /\ Kept(c, kr, Overlap(c, ks, kr, s)) = boxDiff(Meet(x(ks), e), d)
  <2>1. \A ks \in Indices(SrcBA(c)) : Kept(c, kr, Overlap(c, ks, kr, s)) = boxDiff(Overlap(c, ks, kr, s), d)
    BY DEF Kept
  <2> HIDE DEF x, d, e
  <2>2. QED
    BY <1>3, <1>5, <2>1, MeetOk
<1>14. QED
  <2> DEFINE cut(ks) == {Tag(Shift(Source(c, b, back), s), Source(c, b, back), kr, ks) :
                           b \in {b \in boxDiff(x(ks), d) : Ok(Source(c, b, back))}}
             both(ks) == {Tag(b, Shift(b, back), kr, ks) : b \in clipped(ks)}
             these == {ks \in Indices(SrcBA(c)) : Ok(x(ks)) /\ ~Skipped(c, ks, kr, s)}
  <2>1. RecvTagsFrom(c, kr, back) = UNION {both(ks) : ks \in these}
    <3>1. RecvTagsFrom(c, kr, back) = UNION {cut(ks) : ks \in these}
      BY <1>10, <1>11
    <3>2. \A ks \in these : cut(ks) = both(ks)
      BY <1>12
    <3> HIDE DEF cut, both, these
    <3>3. QED
      BY <3>1, <3>2
  <2> HIDE DEF x, d, e, back, from
  <2> HIDE DEF clipped
  <2>2. \A ks \in Indices(SrcBA(c)) :
          Ok(Overlap(c, ks, kr, s)) => Ok(x(ks)) /\ clipped(ks) = Kept(c, kr, Overlap(c, ks, kr, s))
    BY <1>9, <1>13
  <2>3. \A ks \in Indices(SrcBA(c)) : Ok(x(ks)) /\ ~Ok(Overlap(c, ks, kr, s)) => clipped(ks) = {}
    BY <1>9, <1>13
  <2>4. RecvTagsFrom(c, kr, back) =
          UNION {{Tag(b, Shift(b, back), kr, ks) : b \in Kept(c, kr, Overlap(c, ks, kr, s))} :
                 ks \in {ks \in Indices(SrcBA(c)) : Ok(Overlap(c, ks, kr, s)) /\ ~Skipped(c, ks, kr, s)}}
    BY <2>1, <2>2, <2>3
  <2>5. QED
    BY <2>4 DEF back

LEMMA RecvTagsAre ==
  ASSUME NEW MaxSize \in Nat, NEW c, IsCall(c, MaxSize), NEW kr \in Indices(DstBA(c))
  PROVE  RecvTags(c, kr) = UNION {Agreed(c, ks, kr) : ks \in Indices(SrcBA(c))}
<1>1. Backs(c) = {Minus(Zero, s) : s \in Shifts(c)}
  <2>1. ASSUME NEW t \in Backs(c)
        PROVE  \E s \in Shifts(c) : t = Minus(Zero, s)
    <3>1. t \in IntVect
      BY ShiftTypes
    <3>2. Minus(Zero, t) \in IntVect /\ t = Minus(Zero, Minus(Zero, t))
      BY <3>1 DEF Minus, Zero, IntVect
    <3>3. Minus(Zero, t) \in Shifts(c)
      BY <3>2, ShiftsAndBacks
    <3>4. QED
      BY <3>2, <3>3
  <2>2. \A s \in Shifts(c) : Minus(Zero, s) \in Backs(c)
    BY ShiftTypes, ShiftsAndBacks
  <2>3. QED
    BY <2>1, <2>2
<1>2. RecvTags(c, kr) = UNION {RecvTagsFrom(c, kr, Minus(Zero, s)) : s \in Shifts(c)}
  BY <1>1 DEF RecvTags
<1>3. \A s \in Shifts(c) :
        RecvTagsFrom(c, kr, Minus(Zero, s)) =
          UNION {{Tag(b, Shift(b, Minus(Zero, s)), kr, ks) : b \in Kept(c, kr, Overlap(c, ks, kr, s))} :
                 ks \in {ks \in Indices(SrcBA(c)) : Ok(Overlap(c, ks, kr, s)) /\ ~Skipped(c, ks, kr, s)}}
  BY ShiftTypes, RecvTagsFromAre, RecvTagsFromEpo
<1>4. QED
  BY <1>2, <1>3 DEF Agreed

\* What a rank finds in its own boxes to send to another is what that one finds in its own to receive
\* from it: the lists that describe a message agree though neither is ever sent, for any boxes, index
\* type, ghost cells, periodicity and distribution.
THEOREM SendersAndReceiversAgree ==
  ASSUME NEW MaxSize \in Nat, NEW c, IsCall(c, MaxSize), NEW r, NEW d
  PROVE  Outgoing(c, r, d) = Incoming(c, d, r)
<1>1. \A ks \in SrcOf(c, r) : SendTags(c, ks) = UNION {Agreed(c, ks, kr) : kr \in Indices(DstBA(c))}
  BY SendTagsAre DEF SrcOf
<1>2. \A kr \in DstOf(c, d) : RecvTags(c, kr) = UNION {Agreed(c, ks, kr) : ks \in Indices(SrcBA(c))}
  BY RecvTagsAre DEF DstOf
<1>3. \A ks, kr : \A t \in Agreed(c, ks, kr) : t.src = ks /\ t.dst = kr
  BY DEF Agreed, Tag
<1>4. Outgoing(c, r, d) = UNION {UNION {Agreed(c, ks, kr) : kr \in DstOf(c, d)} : ks \in SrcOf(c, r)}
  BY <1>1, <1>3 DEF Outgoing, DstOf
<1>5. Incoming(c, d, r) = UNION {UNION {Agreed(c, ks, kr) : ks \in SrcOf(c, r)} : kr \in DstOf(c, d)}
  BY <1>2, <1>3 DEF Incoming, SrcOf
<1>6. QED
  BY <1>4, <1>5

\* A message is cut by the receiver as the sender has put it together, also with cross.
THEOREM MessagesAgree ==
  ASSUME NEW MaxSize \in Nat, NEW c, IsCall(c, MaxSize), NEW r, NEW d
  PROVE  SndTags(c, r, d) = RcvTags(c, d, r)
BY SendersAndReceiversAgree DEF SndTags, RcvTags, IsCall

(***************************************************************************)
(* Messages meet their receives                                            *)
(*                                                                         *)
(* Of two ranks the one has started its receives, the other its sends, as  *)
(* far as each has come in the script.  Both are beginnings of one         *)
(* sequence: the exchanges in which the two have boxes in common, with the *)
(* numbers that the script gives them.  A place in it is the number of     *)
(* such exchanges before.                                                  *)
(***************************************************************************)
CallAt(j, m)  == j.calls[j.script[m].call]
DrawsAt(j, m) == /\ j.script[m].do = "nowait" /\ j.nprocs > 1
                 /\ work_to_do(CallAt(j, m)) /\ ~short_circuit(CallAt(j, m))

Drawn(j, n)       == {m \in DOMAIN j.script : m < n /\ DrawsAt(j, m)}
List(j, m, s, d)  == SndTags(CallAt(j, m), s, d)
Joint(j, s, d, n) == {m \in Drawn(j, n) : List(j, m, s, d) # <<>>}
Index(j, s, d, m) == Cardinality(Joint(j, s, d, m)) + 1
NthTag(k)         == MinTag + (k % (MaxTag - MinTag + 1))
TagAt(j, n)       == NthTag(Cardinality(Drawn(j, n)))

IsEntry(j, s, d, m, x) ==
  x.tag = TagAt(j, m) /\ x.call = j.script[m].call /\ x.tags = List(j, m, s, d)

\* q is the beginning of the sequence for s and d, up to place n in the script.
UpTo(j, s, d, n, q) ==
  /\ \E S : q \in Seq(S)
  /\ Len(q) = Cardinality(Joint(j, s, d, n))
  /\ \A m \in Joint(j, s, d, n) : Index(j, s, d, m) \in 1..Len(q) /\ IsEntry(j, s, d, m, q[Index(j, s, d, m)])
  /\ \A k \in 1..Len(q) : \E m \in Joint(j, s, d, n) : k = Index(j, s, d, m)

\* A script of calls that all ranks can make, with lists that agree.
ListsAgree(j) ==
  \A i \in DOMAIN j.calls : \A s, d \in 0..j.nprocs-1 : SndTags(j.calls[i], s, d) = RcvTags(j.calls[i], d, s)

IsProgram(j) ==
  /\ j.nprocs \in Nat
  /\ j.script \in Seq([do : {"nowait", "finish"}, call : DOMAIN j.calls])

LEMMA DrawnFinite ==
  ASSUME NEW j, IsProgram(j), NEW n \in Nat, NEW s, NEW d
  PROVE  /\ IsFiniteSet(Drawn(j, n)) /\ Cardinality(Drawn(j, n)) \in Nat
         /\ IsFiniteSet(Joint(j, s, d, n)) /\ Cardinality(Joint(j, s, d, n)) \in Nat
<1>1. DOMAIN j.script = 1..Len(j.script) /\ Len(j.script) \in Nat
  BY DEF IsProgram
<1>2. IsFiniteSet(1..Len(j.script))
  BY <1>1, FS_Interval
<1>3. IsFiniteSet(Drawn(j, n))
  BY <1>1, <1>2, FS_Subset DEF Drawn
<1>4. IsFiniteSet(Joint(j, s, d, n))
  BY <1>3, FS_Subset DEF Joint
<1>5. QED
  BY <1>3, <1>4, FS_CardinalityType

\* One step of the script adds itself, or nothing.
LEMMA DrawnNext ==
  ASSUME NEW j, IsProgram(j), NEW n \in DOMAIN j.script, NEW s, NEW d
  PROVE  /\ n \in Nat
         /\ DrawsAt(j, n) => /\ Drawn(j, n+1) = Drawn(j, n) \union {n}
                             /\ Cardinality(Drawn(j, n+1)) = Cardinality(Drawn(j, n)) + 1
         /\ ~DrawsAt(j, n) => Drawn(j, n+1) = Drawn(j, n)
         /\ DrawsAt(j, n) /\ List(j, n, s, d) # <<>> =>
              /\ Joint(j, s, d, n+1) = Joint(j, s, d, n) \union {n}
              /\ Cardinality(Joint(j, s, d, n+1)) = Cardinality(Joint(j, s, d, n)) + 1
         /\ ~(DrawsAt(j, n) /\ List(j, n, s, d) # <<>>) => Joint(j, s, d, n+1) = Joint(j, s, d, n)
<1>1. DOMAIN j.script = 1..Len(j.script) /\ Len(j.script) \in Nat /\ n \in Nat
  BY DEF IsProgram
<1>2. \A m \in DOMAIN j.script : m < n+1 <=> m < n \/ m = n
  BY <1>1
<1>3. n \notin Drawn(j, n) /\ n \notin Joint(j, s, d, n)
  BY <1>1 DEF Drawn, Joint
<1>4. DrawsAt(j, n) => Drawn(j, n+1) = Drawn(j, n) \union {n}
  BY <1>2 DEF Drawn
<1>5. ~DrawsAt(j, n) => Drawn(j, n+1) = Drawn(j, n)
  BY <1>2 DEF Drawn
<1>6. DrawsAt(j, n) /\ List(j, n, s, d) # <<>> => Joint(j, s, d, n+1) = Joint(j, s, d, n) \union {n}
  BY <1>4 DEF Joint
<1>7. ~(DrawsAt(j, n) /\ List(j, n, s, d) # <<>>) => Joint(j, s, d, n+1) = Joint(j, s, d, n)
  BY <1>4, <1>5 DEF Joint
<1>8. QED
  BY <1>1, <1>3, <1>4, <1>5, <1>6, <1>7, DrawnFinite, FS_AddElement

LEMMA RemainderParts ==
  ASSUME NEW y \in Int, NEW e \in Nat \ {0}
  PROVE  y = e * (y \div e) + (y % e) /\ y % e \in 0..e-1 /\ y \div e \in Int
OBVIOUS

LEMMA RemainderIs ==
  ASSUME NEW q \in Int, NEW e \in Nat \ {0}, NEW x \in 0..e-1, NEW y, y = e * q + x
  PROVE  y % e = x
<1>1. y \in Int /\ x \in Int
  OBVIOUS
<1> DEFINE p == y \div e
           z == y % e
<1>2. y = e * p + z /\ z \in 0..e-1 /\ p \in Int
  BY <1>1, RemainderParts
<1> HIDE DEF p, z
<1>3. z - x = e * (q - p)
  BY <1>1, <1>2, Z3
<1>4. z - x < e /\ x - z < e /\ z \in Int
  BY <1>2
<1>5. CASE q - p >= 1
  <2>1. e * (q - p) >= e
    BY <1>2, <1>5, Z3
  <2>2. QED
    BY <1>1, <1>2, <1>3, <1>4, <2>1
<1>6. CASE q - p <= -1
  <2>1. e * (q - p) <= -e
    BY <1>2, <1>6, Z3
  <2>2. QED
    BY <1>1, <1>2, <1>3, <1>4, <2>1
<1>7. CASE q - p = 0
  <2>1. e * (q - p) = 0
    BY <1>7
  <2>2. QED
    BY <1>1, <1>3, <1>4, <2>1 DEF z
<1>8. QED
  BY <1>2, <1>5, <1>6, <1>7

LEMMA RemainderNext ==
  ASSUME NEW k \in Nat, NEW e \in Nat \ {0}
  PROVE  (k + 1) % e = IF k % e = e - 1 THEN 0 ELSE (k % e) + 1
<1>1. k = e * (k \div e) + (k % e) /\ k % e \in 0..e-1 /\ k \div e \in Int
  BY RemainderParts
<1>2. \A q \in Int, x \in 0..e-1 : (e * q + x) % e = x
  BY RemainderIs
<1>3. CASE k % e = e - 1
  <2>1. k + 1 = e * (k \div e + 1) + 0
    BY <1>1, <1>3
  <2>2. (e * (k \div e + 1) + 0) % e = 0
    BY <1>1, <1>2
  <2>3. QED
    BY <1>3, <2>1, <2>2
<1>4. CASE k % e # e - 1
  <2>1. k + 1 = e * (k \div e) + ((k % e) + 1) /\ (k % e) + 1 \in 0..e-1
    BY <1>1, <1>4
  <2>2. (e * (k \div e) + ((k % e) + 1)) % e = (k % e) + 1
    BY <1>1, <1>2, <2>1
  <2>3. QED
    BY <1>4, <2>1, <2>2
<1>5. QED
  BY <1>3, <1>4

\* The counter gives the numbers of the script one after the other, from the start again after MaxTag.
LEMMA NextTagAt ==
  ASSUME NEW j, IsProgram(j), NEW n \in DOMAIN j.script
  PROVE  TagAt(j, n+1) = IF DrawsAt(j, n) THEN NextTag(TagAt(j, n)) ELSE TagAt(j, n)
<1> DEFINE k == Cardinality(Drawn(j, n))
           e == MaxTag - MinTag + 1
<1>1. k \in Nat /\ e \in Nat \ {0} /\ MinTag \in Nat /\ MaxTag \in Nat
  <2>1. n \in Nat
    BY DEF IsProgram
  <2>2. k \in Nat
    BY <2>1, DrawnFinite
  <2>3. QED
    BY <2>2, TagAssumption
<1>2. NthTag(k+1) = NextTag(NthTag(k))
  <2>1. (k + 1) % e = IF k % e = e - 1 THEN 0 ELSE (k % e) + 1
    BY <1>1, RemainderNext
  <2>2. k % e \in 0..e-1
    BY <1>1
  <2> HIDE DEF k
  <2>3. QED
    BY <1>1, <2>1, <2>2 DEF NthTag, NextTag
<1>3. CASE DrawsAt(j, n)
  BY <1>2, <1>3, DrawnNext DEF TagAt
<1>4. CASE ~DrawsAt(j, n)
  BY <1>4, DrawnNext DEF TagAt
<1>5. QED
  BY <1>3, <1>4

LEMMA SeqElements ==
  ASSUME NEW S, NEW q \in Seq(S)
  PROVE  \A k \in DOMAIN q : q[k] \in S
OBVIOUS

LEMMA SeqAppend ==
  ASSUME NEW S, NEW q \in Seq(S), NEW x
  PROVE  /\ Append(q, x) \in Seq(S \union {x})
         /\ Len(Append(q, x)) = Len(q) + 1 /\ Len(q) \in Nat
         /\ \A k \in 1..Len(q) : Append(q, x)[k] = q[k]
         /\ Append(q, x)[Len(q) + 1] = x
         /\ DOMAIN q = 1..Len(q)
<1>1. q \in Seq(S \union {x})
  OBVIOUS
<1>2. QED
  BY <1>1

\* An exchange of both ranks adds its entry.
LEMMA UpToAppend ==
  ASSUME NEW j, IsProgram(j), NEW n \in DOMAIN j.script, NEW s, NEW d, NEW q, NEW x,
         UpTo(j, s, d, n, q), DrawsAt(j, n), List(j, n, s, d) # <<>>, IsEntry(j, s, d, n, x)
  PROVE  UpTo(j, s, d, n+1, Append(q, x))
<1>1. PICK S : q \in Seq(S)
  BY DEF UpTo
<1> DEFINE p == Append(q, x)
<1>2. /\ p \in Seq(S \union {x}) /\ Len(p) = Len(q) + 1 /\ Len(q) \in Nat
      /\ (\A k \in 1..Len(q) : p[k] = q[k]) /\ p[Len(q) + 1] = x
  BY <1>1, SeqAppend
<1> HIDE DEF p
<1>3. /\ Joint(j, s, d, n+1) = Joint(j, s, d, n) \union {n}
      /\ Cardinality(Joint(j, s, d, n+1)) = Cardinality(Joint(j, s, d, n)) + 1
  BY DrawnNext
<1>4. Len(q) = Cardinality(Joint(j, s, d, n)) /\ Index(j, s, d, n) = Len(q) + 1
  BY DEF UpTo, Index
<1>5. ASSUME NEW m \in Joint(j, s, d, n+1)
      PROVE  Index(j, s, d, m) \in 1..Len(p) /\ IsEntry(j, s, d, m, p[Index(j, s, d, m)])
  <2>1. CASE m = n
    BY <1>2, <1>4, <2>1
  <2>2. CASE m \in Joint(j, s, d, n)
    <3>1. Index(j, s, d, m) \in 1..Len(q) /\ IsEntry(j, s, d, m, q[Index(j, s, d, m)])
      BY <2>2 DEF UpTo
    <3>2. QED
      BY <1>2, <3>1
  <2>3. QED
    BY <1>3, <2>1, <2>2
<1>6. ASSUME NEW k \in 1..Len(p)
      PROVE  \E m \in Joint(j, s, d, n+1) : k = Index(j, s, d, m)
  <2>1. CASE k = Len(q) + 1
    BY <1>3, <1>4, <2>1
  <2>2. CASE k \in 1..Len(q)
    BY <1>3, <2>2 DEF UpTo
  <2>3. QED
    BY <1>2, <2>1, <2>2
<1>7. Len(p) = Cardinality(Joint(j, s, d, n+1))
  BY <1>2, <1>3, <1>4
<1>8. QED
  BY <1>2, <1>5, <1>6, <1>7 DEF UpTo, p

LEMMA UpToSame ==
  ASSUME NEW j, IsProgram(j), NEW n \in DOMAIN j.script, NEW s, NEW d, NEW q,
         UpTo(j, s, d, n, q), ~(DrawsAt(j, n) /\ List(j, n, s, d) # <<>>)
  PROVE  UpTo(j, s, d, n+1, q)
<1>1. Joint(j, s, d, n+1) = Joint(j, s, d, n)
  BY DrawnNext
<1>2. QED
  BY <1>1 DEF UpTo

\* Of two exchanges of two ranks the earlier has the smaller place.
LEMMA IndexGrows ==
  ASSUME NEW j, IsProgram(j), NEW s, NEW d, NEW n \in Nat, NEW m \in Joint(j, s, d, n),
         NEW l \in Nat, m < l
  PROVE  Index(j, s, d, m) < Index(j, s, d, l)
<1>1. m \in DOMAIN j.script /\ m \in Nat
  BY DEF IsProgram, Joint, Drawn
<1>2. Joint(j, s, d, m) \union {m} \subseteq Joint(j, s, d, l)
  <2>1. ASSUME NEW i \in DOMAIN j.script, i < m
        PROVE  i < l
    BY <1>1, <2>1 DEF IsProgram
  <2>2. QED
    BY <2>1 DEF Joint, Drawn
<1>3. m \notin Joint(j, s, d, m)
  BY <1>1 DEF Joint, Drawn
<1>4. /\ IsFiniteSet(Joint(j, s, d, m)) /\ Cardinality(Joint(j, s, d, m)) \in Nat
      /\ IsFiniteSet(Joint(j, s, d, l)) /\ Cardinality(Joint(j, s, d, l)) \in Nat
  BY <1>1, DrawnFinite
<1>5. Cardinality(Joint(j, s, d, m) \union {m}) = Cardinality(Joint(j, s, d, m)) + 1
  BY <1>3, <1>4, FS_AddElement
<1>6. Cardinality(Joint(j, s, d, m) \union {m}) <= Cardinality(Joint(j, s, d, l))
  BY <1>2, <1>4, FS_Subset
<1>7. QED
  BY <1>4, <1>5, <1>6 DEF Index

\* What both ranks have at one place is one exchange.
LEMMA SameEntry ==
  ASSUME NEW j, IsProgram(j), NEW s, NEW d, NEW n \in Nat, NEW o \in Nat, NEW q, NEW p,
         UpTo(j, s, d, n, q), UpTo(j, s, d, o, p), NEW k \in 1..Len(q), k \in 1..Len(p)
  PROVE  q[k].tag = p[k].tag /\ q[k].call = p[k].call /\ q[k].tags = p[k].tags
<1>1. PICK m \in Joint(j, s, d, n) : k = Index(j, s, d, m)
  BY DEF UpTo
<1>2. PICK l \in Joint(j, s, d, o) : k = Index(j, s, d, l)
  BY DEF UpTo
<1>3. m \in Nat /\ l \in Nat
  BY DEF IsProgram, Joint, Drawn
<1>4. Index(j, s, d, m) \in Nat /\ Index(j, s, d, l) \in Nat
  BY <1>3, DrawnFinite DEF Index
<1>5. ~(m < l) /\ ~(l < m)
  <2>1. m < l => Index(j, s, d, m) < Index(j, s, d, l)
    BY <1>3, IndexGrows
  <2>2. l < m => Index(j, s, d, l) < Index(j, s, d, m)
    BY <1>3, IndexGrows
  <2>3. QED
    BY <1>1, <1>2, <1>4, <2>1, <2>2
<1>6. m = l
  BY <1>3, <1>5
<1>7. IsEntry(j, s, d, m, q[k]) /\ IsEntry(j, s, d, m, p[k])
  BY <1>1, <1>2, <1>6 DEF UpTo
<1>8. QED
  BY <1>7 DEF IsEntry

\* In sequences with the same numbers, a later one with a number is of higher rank among its equals.
LEMMA NthGrows ==
  ASSUME NEW q, NEW p, NEW i \in Nat, NEW k \in Nat, i < k,
         \A l \in 1..i : q[l].tag = p[l].tag, q[i].tag = p[k].tag
  PROVE  Nth(q, i) # Nth(p, k)
<1> DEFINE E == {l \in 1..i : q[l].tag = q[i].tag}
           F == {l \in 1..k : p[l].tag = p[k].tag}
<1>1. E \union {k} \subseteq F
  OBVIOUS
<1>2. k \notin E
  OBVIOUS
<1>3. IsFiniteSet(1..i) /\ IsFiniteSet(1..k)
  BY FS_Interval
<1>4. IsFiniteSet(E) /\ IsFiniteSet(F)
  BY <1>3, FS_Subset
<1> HIDE DEF E, F
<1>5. Cardinality(E) \in Nat /\ Cardinality(F) \in Nat
  BY <1>4, FS_CardinalityType
<1>6. Cardinality(E \union {k}) = Cardinality(E) + 1
  BY <1>2, <1>4, FS_AddElement
<1>7. Cardinality(E \union {k}) <= Cardinality(F)
  BY <1>1, <1>4, FS_Subset
<1>8. QED
  BY <1>5, <1>6, <1>7 DEF Nth, E, F

\* What MPI matches is one exchange of both ranks.
LEMMA UpToMatch ==
  ASSUME NEW j, IsProgram(j), NEW s, NEW d, NEW n \in Nat, NEW o \in Nat, NEW q, NEW p,
         UpTo(j, s, d, n, q), UpTo(j, s, d, o, p), NEW i \in DOMAIN q, NEW k \in DOMAIN p,
         Matches(q, i, p, k)
  PROVE  q[i].call = p[k].call /\ q[i].tags = p[k].tags
<1>1. /\ DOMAIN q = 1..Len(q) /\ Len(q) \in Nat /\ i \in Nat
      /\ DOMAIN p = 1..Len(p) /\ Len(p) \in Nat /\ k \in Nat
  BY SeqAppend DEF UpTo
<1>2. \A l \in 1..Len(q) : l \in 1..Len(p) => q[l].tag = p[l].tag
  BY SameEntry
<1>3. q[i].tag = p[k].tag /\ Nth(q, i) = Nth(p, k)
  BY DEF Matches
<1>4. ~(i < k)
  <2>1. SUFFICES ASSUME i < k PROVE FALSE
    OBVIOUS
  <2>2. \A l \in 1..i : q[l].tag = p[l].tag
    BY <1>1, <1>2, <2>1
  <2>3. QED
    BY <1>1, <1>3, <2>1, <2>2, NthGrows
<1>5. ~(k < i)
  <2>1. SUFFICES ASSUME k < i PROVE FALSE
    OBVIOUS
  <2>2. \A l \in 1..k : p[l].tag = q[l].tag
    BY <1>1, <1>2, <2>1
  <2>3. QED
    BY <1>1, <1>3, <2>1, <2>2, NthGrows
<1>6. i = k
  BY <1>1, <1>4, <1>5
<1>7. QED
  BY <1>1, <1>6, SameEntry

Ranks(j) == 0..j.nprocs-1

\* Every rank has the number that its place in the script has, and has started the receives and
\* the sends up to there.
IInv(j) ==
  /\ job = j
  /\ pos \in [Ranks(j) -> Nat]
  /\ DOMAIN seqnum = Ranks(j) /\ \A r \in Ranks(j) : seqnum[r] = TagAt(j, pos[r])
  /\ DOMAIN posted = Ranks(j) \X Ranks(j) /\ DOMAIN sent = Ranks(j) \X Ranks(j)
  /\ \A s, d \in Ranks(j) : s # d => UpTo(j, s, d, pos[d], posted[<<s, d>>])
  /\ \A s, d \in Ranks(j) : s # d => UpTo(j, s, d, pos[s], sent[<<s, d>>])
  /\ \A r \in Ranks(j) : posted[<<r, r>>] = <<>> /\ sent[<<r, r>>] = <<>>

LEMMA Start ==
  ASSUME NEW j \in Jobs, IsProgram(j), Init, job = j
  PROVE  IInv(j)
<1>1. Procs = Ranks(j)
  BY DEF Procs, Ranks
<1>2. /\ posted = [e \in Ranks(j) \X Ranks(j) |-> <<>>] /\ sent = [e \in Ranks(j) \X Ranks(j) |-> <<>>]
      /\ pos = [r \in Ranks(j) |-> 1] /\ seqnum = [r \in Ranks(j) |-> MinTag]
  BY <1>1 DEF Init
<1>3. Drawn(j, 1) = {}
  BY DEF Drawn, IsProgram
<1>4. Cardinality(Drawn(j, 1)) = 0
  BY <1>3, FS_EmptySet
<1>5. TagAt(j, 1) = MinTag
  BY <1>4, TagAssumption DEF TagAt, NthTag
<1>6. ASSUME NEW s, NEW d
      PROVE  UpTo(j, s, d, 1, <<>>)
  <2>1. Joint(j, s, d, 1) = {}
    BY <1>3 DEF Joint
  <2>2. Cardinality(Joint(j, s, d, 1)) = 0
    BY <2>1, FS_EmptySet
  <2>3. <<>> \in Seq({}) /\ Len(<<>>) = 0 /\ 1..0 = {}
    OBVIOUS
  <2>4. QED
    BY <2>1, <2>2, <2>3 DEF UpTo
<1>7. QED
  BY <1>2, <1>5, <1>6 DEF IInv

\* What a call starts, in terms of the script.
LEMMA Started ==
  ASSUME NEW j \in Jobs, IsProgram(j), ListsAgree(j), IInv(j), NEW r \in Ranks(j), Nowait(r)
  PROVE  LET n == pos[r] IN
         /\ n \in DOMAIN j.script
         /\ pos' = [pos EXCEPT ![r] = n + 1]
         /\ job' = job
         /\ seqnum' = [seqnum EXCEPT ![r] = IF DrawsAt(j, n) THEN NextTag(@) ELSE @]
         /\ DOMAIN posted' = DOMAIN posted /\ DOMAIN sent' = DOMAIN sent
         /\ \A e \in DOMAIN posted :
              IF e[2] = r /\ e[1] # r /\ DrawsAt(j, n) /\ List(j, n, e[1], r) # <<>>
              THEN \E x : IsEntry(j, e[1], r, n, x) /\ posted'[e] = Append(posted[e], x)
              ELSE posted'[e] = posted[e]
         /\ \A e \in DOMAIN sent :
              IF e[1] = r /\ e[2] # r /\ DrawsAt(j, n) /\ List(j, n, r, e[2]) # <<>>
              THEN \E x : IsEntry(j, r, e[2], n, x) /\ sent'[e] = Append(sent[e], x)
              ELSE sent'[e] = sent[e]
<1> DEFINE n == pos[r]
           c == CallAt(j, n)
<1>1. job = j /\ Procs = Ranks(j)
  BY DEF IInv, Procs, Ranks
<1>2. Item(r) = j.script[n] /\ Call(r) = c
  BY <1>1 DEF Item, Call, CallAt
<1>3. n \in DOMAIN j.script /\ j.script[n].do = "nowait"
  BY <1>1, <1>2 DEF Nowait, NowaitTurn, Making
<1>4. Draws(c, r) <=> DrawsAt(j, n)
  BY <1>1, <1>3 DEF Draws, DrawsAt
<1>5. /\ pos' = [pos EXCEPT ![r] = n + 1] /\ job' = job
      /\ seqnum' = [seqnum EXCEPT ![r] = IF DrawsAt(j, n) THEN NextTag(@) ELSE @]
  <2>1. pos' = [pos EXCEPT ![r] = n + 1] /\ job' = job
    BY DEF Nowait, NowaitTurn
  <2>2. seqnum' = [seqnum EXCEPT ![r] = IF Draws(c, r) THEN NextTag(@) ELSE @]
    BY <1>2 DEF Nowait
  <2> HIDE DEF n, c
  <2>3. CASE DrawsAt(j, n)
    BY <1>4, <2>1, <2>2, <2>3
  <2>4. CASE ~DrawsAt(j, n)
    BY <1>4, <2>1, <2>2, <2>4
  <2>5. QED
    BY <2>3, <2>4
<1>6. j.script[n].call \in DOMAIN j.calls
  <2> HIDE DEF n, c
  <2>1. \A m \in DOMAIN j.script : j.script[m] \in [do : {"nowait", "finish"}, call : DOMAIN j.calls]
    BY SeqElements DEF IsProgram
  <2>2. j.script[n] \in [do : {"nowait", "finish"}, call : DOMAIN j.calls]
    BY <1>3, <2>1
  <2>3. QED
    BY <2>2
<1>7. \A s, d \in Ranks(j) : List(j, n, s, d) = SndTags(c, s, d) /\ List(j, n, s, d) = RcvTags(c, d, s)
  BY <1>6 DEF ListsAgree, List, CallAt, Ranks
<1>8. seqnum[r] = TagAt(j, n)
  BY DEF IInv
<1>9. \A e \in DOMAIN posted : e[1] \in Ranks(j) /\ e[2] \in Ranks(j)
  BY DEF IInv
<1>10. DOMAIN sent = DOMAIN posted
  BY DEF IInv
<1> HIDE DEF n, c
<1>11. CASE Draws(c, r) /\ HasWork(c, r)
  <2>1. Exchange(r)
    BY <1>2, <1>11 DEF Nowait
  <2>2. posted' = [e \in DOMAIN posted |->
          IF e[2] = r /\ e[1] # r /\ [s \in Others(r) |-> RcvTags(c, r, s)][e[1]] # <<>>
          THEN Append(posted[e], [tag |-> seqnum[r], call |-> Item(r).call,
                                  tags |-> [s \in Others(r) |-> RcvTags(c, r, s)][e[1]]])
          ELSE posted[e]]
    BY <1>2, <2>1 DEF Exchange
  <2>3. sent' = [e \in DOMAIN sent |->
          IF e[1] = r /\ e[2] # r /\ [d \in Others(r) |-> SndTags(c, r, d)][e[2]] # <<>>
          THEN Append(sent[e], [tag |-> seqnum[r], call |-> Item(r).call,
                                tags |-> [d \in Others(r) |-> SndTags(c, r, d)][e[2]],
                                values |-> Pack(data[c.src.id], SrcCells([d \in Others(r) |-> SndTags(c, r, d)][e[2]]))])
          ELSE sent[e]]
    BY <1>2, <2>1 DEF Exchange
  <2>4. \A s \in Ranks(j) : s # r =>
          /\ [q \in Others(r) |-> RcvTags(c, r, q)][s] = List(j, n, s, r)
          /\ [q \in Others(r) |-> SndTags(c, r, q)][s] = List(j, n, r, s)
    BY <1>1, <1>7 DEF Others
  <2>5. ASSUME NEW e \in DOMAIN posted
        PROVE  IF e[2] = r /\ e[1] # r /\ DrawsAt(j, n) /\ List(j, n, e[1], r) # <<>>
               THEN \E x : IsEntry(j, e[1], r, n, x) /\ posted'[e] = Append(posted[e], x)
               ELSE posted'[e] = posted[e]
    <3>1. CASE e[2] = r /\ e[1] # r /\ List(j, n, e[1], r) # <<>>
      <4> DEFINE x == [tag |-> seqnum[r], call |-> Item(r).call, tags |-> List(j, n, e[1], r)]
      <4>1. posted'[e] = Append(posted[e], x)
        BY <1>9, <2>2, <2>4, <3>1
      <4>2. IsEntry(j, e[1], r, n, x)
        BY <1>2, <1>8 DEF IsEntry
      <4> HIDE DEF x
      <4>3. QED
        BY <1>4, <1>11, <3>1, <4>1, <4>2
    <3>2. CASE ~(e[2] = r /\ e[1] # r /\ List(j, n, e[1], r) # <<>>)
      BY <1>9, <2>2, <2>4, <3>2
    <3>3. QED
      BY <3>1, <3>2
  <2>6. ASSUME NEW e \in DOMAIN sent
        PROVE  IF e[1] = r /\ e[2] # r /\ DrawsAt(j, n) /\ List(j, n, r, e[2]) # <<>>
               THEN \E x : IsEntry(j, r, e[2], n, x) /\ sent'[e] = Append(sent[e], x)
               ELSE sent'[e] = sent[e]
    <3>1. CASE e[1] = r /\ e[2] # r /\ List(j, n, r, e[2]) # <<>>
      <4> DEFINE x == [tag |-> seqnum[r], call |-> Item(r).call, tags |-> List(j, n, r, e[2]),
                       values |-> Pack(data[c.src.id], SrcCells(List(j, n, r, e[2])))]
      <4>1. sent'[e] = Append(sent[e], x)
        BY <1>9, <1>10, <2>3, <2>4, <3>1
      <4>2. IsEntry(j, r, e[2], n, x)
        BY <1>2, <1>8 DEF IsEntry
      <4> HIDE DEF x
      <4>3. QED
        BY <1>4, <1>11, <3>1, <4>1, <4>2
    <3>2. CASE ~(e[1] = r /\ e[2] # r /\ List(j, n, r, e[2]) # <<>>)
      BY <1>9, <1>10, <2>3, <2>4, <3>2
    <3>3. QED
      BY <3>1, <3>2
  <2>7. DOMAIN posted' = DOMAIN posted /\ DOMAIN sent' = DOMAIN sent
    BY <2>2, <2>3
  <2>8. QED
    BY <1>3, <1>5, <2>5, <2>6, <2>7 DEF n
<1>12. CASE ~(Draws(c, r) /\ HasWork(c, r))
  <2>1. posted' = posted /\ sent' = sent
    BY <1>2, <1>12 DEF Nowait, DoLocally
  <2>2. \A s \in Ranks(j) : s # r => \/ ~DrawsAt(j, n)
                                     \/ List(j, n, s, r) = <<>> /\ List(j, n, r, s) = <<>>
    BY <1>1, <1>4, <1>7, <1>12 DEF HasWork, Others
  <2>3. QED
    BY <1>3, <1>5, <1>9, <1>10, <2>1, <2>2 DEF n
<1>13. QED
  BY <1>11, <1>12

LEMMA NowaitKeeps ==
  ASSUME NEW j \in Jobs, IsProgram(j), ListsAgree(j), IInv(j), NEW r \in Ranks(j), Nowait(r)
  PROVE  IInv(j)'
<1> DEFINE n == pos[r]
<1>1. /\ n \in DOMAIN j.script
      /\ pos' = [pos EXCEPT ![r] = n + 1]
      /\ job' = job
      /\ seqnum' = [seqnum EXCEPT ![r] = IF DrawsAt(j, n) THEN NextTag(@) ELSE @]
      /\ DOMAIN posted' = DOMAIN posted /\ DOMAIN sent' = DOMAIN sent
      /\ \A e \in DOMAIN posted :
           IF e[2] = r /\ e[1] # r /\ DrawsAt(j, n) /\ List(j, n, e[1], r) # <<>>
           THEN \E x : IsEntry(j, e[1], r, n, x) /\ posted'[e] = Append(posted[e], x)
           ELSE posted'[e] = posted[e]
      /\ \A e \in DOMAIN sent :
           IF e[1] = r /\ e[2] # r /\ DrawsAt(j, n) /\ List(j, n, r, e[2]) # <<>>
           THEN \E x : IsEntry(j, r, e[2], n, x) /\ sent'[e] = Append(sent[e], x)
           ELSE sent'[e] = sent[e]
  BY Started
<1>2. /\ job = j /\ pos \in [Ranks(j) -> Nat] /\ DOMAIN seqnum = Ranks(j)
      /\ DOMAIN posted = Ranks(j) \X Ranks(j) /\ DOMAIN sent = Ranks(j) \X Ranks(j)
  BY DEF IInv
<1>3. n + 1 \in Nat
  BY <1>2
<1>4. pos' \in [Ranks(j) -> Nat] /\ pos'[r] = n + 1 /\ \A q \in Ranks(j) : q # r => pos'[q] = pos[q]
  BY <1>1, <1>2, <1>3
<1> HIDE DEF n
<1>5. DOMAIN seqnum' = Ranks(j) /\ \A q \in Ranks(j) : seqnum'[q] = TagAt(j, pos'[q])
  <2>1. TagAt(j, n + 1) = IF DrawsAt(j, n) THEN NextTag(TagAt(j, n)) ELSE TagAt(j, n)
    BY <1>1, NextTagAt
  <2>2. \A q \in Ranks(j) : seqnum[q] = TagAt(j, pos[q])
    BY DEF IInv
  <2>3. QED
    BY <1>1, <1>2, <1>4, <2>1, <2>2 DEF n
<1>6. ASSUME NEW s \in Ranks(j), NEW d \in Ranks(j), s # d
      PROVE  UpTo(j, s, d, pos'[d], posted'[<<s, d>>])
  <2>1. UpTo(j, s, d, pos[d], posted[<<s, d>>]) /\ <<s, d>> \in DOMAIN posted
    BY <1>2, <1>6 DEF IInv
  <2>2. CASE d = r /\ DrawsAt(j, n) /\ List(j, n, s, r) # <<>>
    <3>1. PICK x : IsEntry(j, s, r, n, x) /\ posted'[<<s, d>>] = Append(posted[<<s, d>>], x)
      BY <1>1, <1>6, <2>1, <2>2
    <3>2. QED
      BY <1>1, <1>4, <2>1, <2>2, <3>1, UpToAppend DEF n
  <2>3. CASE d = r /\ ~(DrawsAt(j, n) /\ List(j, n, s, r) # <<>>)
    <3>1. posted'[<<s, d>>] = posted[<<s, d>>]
      BY <1>1, <2>1, <2>3
    <3>2. QED
      BY <1>1, <1>4, <2>1, <2>3, <3>1, UpToSame DEF n
  <2>4. CASE d # r
    <3>1. posted'[<<s, d>>] = posted[<<s, d>>]
      BY <1>1, <2>1, <2>4
    <3>2. QED
      BY <1>4, <2>1, <2>4, <3>1
  <2>5. QED
    BY <2>2, <2>3, <2>4
<1>7. ASSUME NEW s \in Ranks(j), NEW d \in Ranks(j), s # d
      PROVE  UpTo(j, s, d, pos'[s], sent'[<<s, d>>])
  <2>1. UpTo(j, s, d, pos[s], sent[<<s, d>>]) /\ <<s, d>> \in DOMAIN sent
    BY <1>2, <1>7 DEF IInv
  <2>2. CASE s = r /\ DrawsAt(j, n) /\ List(j, n, r, d) # <<>>
    <3>1. PICK x : IsEntry(j, r, d, n, x) /\ sent'[<<s, d>>] = Append(sent[<<s, d>>], x)
      BY <1>1, <1>7, <2>1, <2>2
    <3>2. QED
      BY <1>1, <1>4, <2>1, <2>2, <3>1, UpToAppend DEF n
  <2>3. CASE s = r /\ ~(DrawsAt(j, n) /\ List(j, n, r, d) # <<>>)
    <3>1. sent'[<<s, d>>] = sent[<<s, d>>]
      BY <1>1, <2>1, <2>3
    <3>2. QED
      BY <1>1, <1>4, <2>1, <2>3, <3>1, UpToSame DEF n
  <2>4. CASE s # r
    <3>1. sent'[<<s, d>>] = sent[<<s, d>>]
      BY <1>1, <2>1, <2>4
    <3>2. QED
      BY <1>4, <2>1, <2>4, <3>1
  <2>5. QED
    BY <2>2, <2>3, <2>4
<1>8. ASSUME NEW q \in Ranks(j)
      PROVE  posted'[<<q, q>>] = <<>> /\ sent'[<<q, q>>] = <<>>
  <2>1. <<q, q>> \in DOMAIN posted /\ <<q, q>> \in DOMAIN sent
    BY <1>2
  <2>2. posted'[<<q, q>>] = posted[<<q, q>>] /\ sent'[<<q, q>>] = sent[<<q, q>>]
    BY <1>1, <2>1
  <2>3. QED
    BY <2>2 DEF IInv
<1>9. QED
  BY <1>1, <1>2, <1>4, <1>5, <1>6, <1>7, <1>8 DEF IInv

LEMMA FinishKeeps ==
  ASSUME NEW j \in Jobs, IsProgram(j), IInv(j), NEW r \in Ranks(j), FinishRecv(r) \/ FinishSend(r)
  PROVE  IInv(j)'
<1>1. job' = job /\ seqnum' = seqnum /\ posted' = posted /\ sent' = sent
  BY DEF FinishRecv, FinishSend
<1>2. CASE FinishRecv(r)
  <2>1. pos' = pos
    BY <1>2 DEF FinishRecv, RecvTurn
  <2>2. QED
    BY <1>1, <2>1 DEF IInv
<1>3. CASE FinishSend(r)
  <2> DEFINE n == pos[r]
  <2>1. job = j /\ pos \in [Ranks(j) -> Nat] /\ pos' = [pos EXCEPT ![r] = n + 1]
    BY <1>3 DEF IInv, FinishSend, SendTurn
  <2>2. n \in DOMAIN j.script /\ j.script[n].do = "finish"
    BY <1>3, <2>1 DEF FinishSend, SendTurn, Making, Item
  <2>3. ~DrawsAt(j, n)
    BY <2>2 DEF DrawsAt
  <2>4. pos' \in [Ranks(j) -> Nat] /\ pos'[r] = n + 1 /\ \A q \in Ranks(j) : q # r => pos'[q] = pos[q]
    BY <2>1
  <2>5. TagAt(j, n + 1) = TagAt(j, n)
    BY <2>2, <2>3, NextTagAt
  <2>6. ASSUME NEW s, NEW d, NEW q, UpTo(j, s, d, n, q)
        PROVE  UpTo(j, s, d, n + 1, q)
    BY <2>2, <2>3, <2>6, UpToSame
  <2> HIDE DEF n
  <2>7. \A q \in Ranks(j) : seqnum[q] = TagAt(j, pos'[q])
    BY <2>4, <2>5 DEF IInv, n
  <2>8. ASSUME NEW s \in Ranks(j), NEW d \in Ranks(j), s # d
        PROVE  UpTo(j, s, d, pos'[d], posted[<<s, d>>]) /\ UpTo(j, s, d, pos'[s], sent[<<s, d>>])
    <3>1. UpTo(j, s, d, pos[d], posted[<<s, d>>]) /\ UpTo(j, s, d, pos[s], sent[<<s, d>>])
      BY <2>8 DEF IInv
    <3>2. QED
      BY <2>4, <2>6, <3>1 DEF n
  <2>9. QED
    BY <1>1, <2>4, <2>7, <2>8 DEF IInv
<1>4. QED
  BY <1>2, <1>3

\* What the invariant says of the messages that MPI matches.
LEMMA Matched ==
  ASSUME NEW j \in Jobs, IsProgram(j), IInv(j)
  PROVE  MessagesMatch
<1>1. Procs = Ranks(j)
  BY DEF IInv, Procs, Ranks
<1>2. SUFFICES ASSUME NEW s \in Ranks(j), NEW d \in Ranks(j),
                      NEW i \in DOMAIN posted[<<s, d>>], NEW k \in DOMAIN sent[<<s, d>>],
                      Matches(posted[<<s, d>>], i, sent[<<s, d>>], k)
               PROVE  /\ posted[<<s, d>>][i].call = sent[<<s, d>>][k].call
                      /\ posted[<<s, d>>][i].tags = sent[<<s, d>>][k].tags
  BY <1>1 DEF MessagesMatch
<1>3. s # d
  BY DEF IInv
<1>4. /\ pos[s] \in Nat /\ pos[d] \in Nat
      /\ UpTo(j, s, d, pos[d], posted[<<s, d>>]) /\ UpTo(j, s, d, pos[s], sent[<<s, d>>])
  BY <1>3 DEF IInv
<1>5. QED
  BY <1>2, <1>4, UpToMatch

\* Whatever ranks, boxes and calls there are, however the ranks run apart and the numbers repeat: a
\* message is received by the call that it was sent for, with the list that it was packed by.  All
\* that this takes is that the two lists of a call agree (AMReX_FabArrayBase.cpp, the loops over
\* imap of define_fb, define_sb, CPC::define), and that every rank draws the same numbers
\* (AMReX_FabArrayCommI.H:94, 554).
THEOREM MessagesAlwaysMatch ==
  ASSUME \A j \in Jobs : IsProgram(j) /\ ListsAgree(j)
  PROVE  Spec => []MessagesMatch
<1> DEFINE Inv == \E j \in Jobs : IInv(j)
<1>1. Init => Inv
  <2>1. Init => job \in Jobs
    BY DEF Init
  <2>2. QED
    BY <2>1, Start
<1>2. Inv /\ [Next]_vars => Inv'
  <2>1. ASSUME NEW j \in Jobs, IInv(j), [Next]_vars
        PROVE  IInv(j)'
    <3>1. IsProgram(j) /\ ListsAgree(j) /\ Procs = Ranks(j)
      BY <2>1 DEF IInv, Procs, Ranks
    <3>2. CASE \E r \in Procs : Nowait(r)
      BY <2>1, <3>1, <3>2, NowaitKeeps
    <3>3. CASE \E r \in Procs : FinishRecv(r) \/ FinishSend(r)
      BY <2>1, <3>1, <3>3, FinishKeeps
    <3>4. CASE UNCHANGED vars
      BY <2>1, <3>4 DEF IInv, vars
    <3>5. QED
      BY <2>1, <3>2, <3>3, <3>4 DEF Next
  <2>2. QED
    BY <2>1
<1>3. Inv => MessagesMatch
  BY Matched
<1>4. QED
  BY <1>1, <1>2, <1>3, PTL DEF Spec

\* FillBoundary, SumBoundary and ParallelCopy in any order that all ranks keep, and interleaved as they
\* like: the lists of their calls do agree, so no message is read as another.
THEOREM ExchangesMatch ==
  ASSUME NEW MaxSize \in Nat,
         \A j \in Jobs : IsProgram(j) /\ \A i \in DOMAIN j.calls : IsCall(j.calls[i], MaxSize)
  PROVE  Spec => []MessagesMatch
<1>1. ASSUME NEW j \in Jobs
      PROVE  IsProgram(j) /\ ListsAgree(j)
  BY MessagesAgree DEF ListsAgree
<1>2. QED
  BY <1>1, MessagesAlwaysMatch
=============================================================================
