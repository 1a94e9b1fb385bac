---------------------------- MODULE FabArrayCache ----------------------------
(***************************************************************************)
(* The metadata caches of FabArrayBase (Src/Base/AMReX_FabArrayBase.cpp)   *)
(* and the objects that count themselves for them: FabArray, LayoutData    *)
(* and the MFIter that is made from a BoxArray.                            *)
(*                                                                         *)
(* What a FabArray needs to communicate, iterate and interpolate is built  *)
(* once and kept under a BDKey: the two ADDRESSES its BoxArray and its     *)
(* DistributionMapping share with their copies.  An address is free for    *)
(* another list of boxes when its last owner is gone, so whatever is kept  *)
(* under it must be gone by then.                                          *)
(***************************************************************************)
EXTENDS Integers, FiniteSets

CONSTANTS
  BARefs, DMRefs,    \* addresses of BoxArray::BARef, DistributionMapping::Ref
  BoxLists, Maps,    \* what is stored at them
  Transformers,      \* BATransformer: index type, coarsen ratio, boundary face
  FabArrays, LayoutDatas, Iters,  \* the objects
  None,
  MaxLive,           \* bound: objects defined at a time
  MaxCached          \* bound: metadata kept at a time

ASSUME CacheAssumption ==
  /\ None \notin BARefs \cup DMRefs
  /\ \A t \in Transformers : t = [typ |-> t.typ, ratio |-> t.ratio, face |-> t.face]
  /\ IsFiniteSet(FabArrays) /\ IsFiniteSet(LayoutDatas) /\ IsFiniteSet(Iters)
  /\ FabArrays \cap LayoutDatas = {} /\ (FabArrays \cup LayoutDatas) \cap Iters = {}
  /\ MaxLive \in Nat /\ MaxCached \in Nat

VARIABLES
  boxes, maps,   \* the heap: what the addresses hold
  grids, dmaps,  \* addresses a BoxArray, a DistributionMapping of the user holds
  fab,           \* the objects
  reg,           \* the static members: m_BD_count and the caches
  initialized

heap == <<boxes, maps, grids, dmaps>>
vars == <<heap, fab, reg, initialized>>

Objects  == FabArrays \cup LayoutDatas \cup Iters
Keys     == BARefs \X DMRefs
Single   == {"TileArray", "FB", "Rotate", "CFinfo", "ParFor"}
Pairwise == {"CPC", "FPinfo"}

Undefined == [ba |-> None, dm |-> None, bat |-> None, bdkey |-> None, counted |-> FALSE]
define(r, d, t) == [ba |-> r, dm |-> d, bat |-> t, bdkey |-> None, counted |-> FALSE]
getBDKey(x) == <<x.ba, x.dm>>
Counted == {s \in Objects : fab[s].counted}

--------------------------------------------------------------------------
(* m_BD_count and the flushing of the caches.                             *)

\* cache: multimaps from one key.  pairs: entries of the two multimaps that keep
\* an object under both its keys; objs: the objects of those that are not deleted.
Empty == [count |-> [k \in Keys |-> 0], cache |-> {}, pairs |-> {}, objs |-> {}]

otherkey(o, k) == IF k = o.src THEN o.dst ELSE o.src

FlushPairs_OneKey(g, k) ==
  LET deleted == {p.obj : p \in {q \in g.pairs : q.at = k}}
  IN  [g EXCEPT !.pairs = {p \in @ : p.at # k}, !.objs = @ \ deleted]

FlushPairs(g, k) ==
  LET deleted == {p.obj : p \in {q \in g.pairs : q.at = k}}
      others  == {p \in g.pairs : p.obj \in deleted /\ p.at = otherkey(p.obj, k)}
  IN  [g EXCEPT !.pairs = {p \in @ : p.at # k} \ others, !.objs = @ \ deleted]

FlushSingle(g, k) == [g EXCEPT !.cache = {e \in @ : e.key # k}]

Flush(g, k) == FlushSingle(FlushPairs(g, k), k)

clearThisBD_Early(g, k) ==
  LET g1 == [g EXCEPT !.count[k] = IF @ > 0 THEN @ - 1 ELSE @]
  IN  IF g1.count[k] <= 1 THEN Flush(g1, k) ELSE g1

clearThisBD(g, k) ==
  LET g1 == [g EXCEPT !.count[k] = IF @ > 0 THEN @ - 1 ELSE @]
  IN  IF g.count[k] > 0 /\ g1.count[k] = 0 THEN Flush(g1, k) ELSE g1

addThisBD(g, k) == [g EXCEPT !.count[k] = @ + 1]

\* An object with its key, as addThisBD leaves it.
WithKey(x) ==
  [ba |-> x.ba, dm |-> x.dm, bat |-> x.bat, bdkey |-> getBDKey(x), counted |-> TRUE]

\* The caches when object s is cleared.
Released(s) == IF fab[s].counted THEN clearThisBD(reg, fab[s].bdkey) ELSE reg

--------------------------------------------------------------------------
(* The owners of an address.  A copy the CPC cache keeps owns it, too.    *)

HeldByCPC(g, r) ==
  \E o \in g.objs : o.kind = "CPC" /\ (o.src[1] = r \/ o.dst[1] = r)
BAUsed(g, r, S) == r \in grids \/ HeldByCPC(g, r) \/ \E s \in S : fab[s].ba = r
DMUsed(d) == d \in dmaps \/ \E s \in Objects : fab[s].dm = d

\* Addresses an operation on s can be given: the user's, or those of another object.
BAOf(s) == {r \in BARefs : r \in grids \/ \E o \in Objects \ {s} : fab[o].ba = r}
DMOf(s) == {d \in DMRefs : d \in dmaps \/ \E o \in Objects \ {s} : fab[o].dm = d}

MakeGrids(r, b) ==
  /\ ~BAUsed(reg, r, Objects)
  /\ grids' = grids \cup {r}
  /\ boxes' = [boxes EXCEPT ![r] = b]
  /\ UNCHANGED <<maps, dmaps, fab, reg, initialized>>

DropGrids(r) ==
  /\ r \in grids
  /\ grids' = grids \ {r}
  /\ UNCHANGED <<boxes, maps, dmaps, fab, reg, initialized>>

\* uniqify: the only owner of r changes it in place, any other in a copy at n.
Uniqify(shared, g, r, n) ==
  IF shared THEN ~BAUsed(g, n, Objects) ELSE n = r

ModifyGrids(r, n, b) ==
  /\ r \in grids /\ b # boxes[r]
  /\ Uniqify(HeldByCPC(reg, r) \/ \E s \in Objects : fab[s].ba = r, reg, r, n)
  /\ grids' = (grids \ {r}) \cup {n}
  /\ boxes' = [boxes EXCEPT ![n] = b]
  /\ UNCHANGED <<maps, dmaps, fab, reg, initialized>>

MakeMap(d, p) ==
  /\ ~DMUsed(d)
  /\ dmaps' = dmaps \cup {d}
  /\ maps' = [maps EXCEPT ![d] = p]
  /\ UNCHANGED <<boxes, grids, fab, reg, initialized>>

DropMap(d) ==
  /\ d \in dmaps
  /\ dmaps' = dmaps \ {d}
  /\ UNCHANGED <<boxes, maps, grids, fab, reg, initialized>>

--------------------------------------------------------------------------
(* Metadata: what a lookup compares besides the key, what is built from.  *)

\* The domain a caller passes is that of the array's level, coarsened as the array is.
Domain(t) == t.ratio

Seen_NoRatio(kind, t) ==
  CASE kind = "FB"        -> t.typ
    [] kind = "TileArray" -> t.ratio
    [] kind \in {"Rotate", "CFinfo"} -> Domain(t)
    [] kind = "ParFor"    -> t

Seen(kind, t) ==
  CASE kind = "TileArray" -> t.ratio
    [] kind = "FB"        -> <<t.typ, t.ratio>>
    [] kind = "Rotate"    -> Domain(t)
    [] kind = "CFinfo"    -> Domain(t)
    [] kind = "ParFor"    -> t

\* Tiles and the coarse-fine boundary are built from the cell-centred boxes.
Used(kind, t) ==
  IF kind \in {"TileArray", "CFinfo"} THEN [typ |-> "cell", ratio |-> t.ratio, face |-> "none"]
                                      ELSE t

\* What the callers see to: only boundary registers have faces.
MayLookUp(kind, s) ==
  LET t == fab[s].bat
  IN  CASE kind = "TileArray" -> TRUE
        [] kind = "FB"        -> s \in FabArrays /\ t.face = "none"
        [] kind = "Rotate"    -> s \in FabArrays /\ t.face = "none" /\ t.typ = "cell"
        [] kind = "CFinfo"    -> s \in FabArrays /\ t.face = "none"
        [] kind = "ParFor"    -> s \in FabArrays

MayLookUpPair(kind, src, dst) ==
  /\ {src, dst} \subseteq FabArrays
  /\ fab[src].bat.typ = fab[dst].bat.typ
  /\ kind = "FPinfo" => /\ fab[src].bat = fab[dst].bat
                        /\ fab[dst].bat.face = "none"

\* Boxes and owners of the boxes of an object; FPinfo distributes its patches itself.
Boxes(x, t) == [boxes |-> boxes[x.ba], bat |-> t]
Layout(kind, x) == [on |-> Boxes(x, Used(kind, x.bat)), map |-> maps[x.dm]]
PairLayout(kind, x, y) ==
  [src |-> Boxes(x, x.bat), dst |-> Boxes(y, y.bat),
   map |-> IF kind = "CPC" THEN <<maps[x.dm], maps[y.dm]>> ELSE <<>>]

SeenPair(kind, x, y) ==
  IF kind = "CPC" THEN <<Boxes(x, x.bat), Boxes(y, y.bat)>>
                  ELSE <<Domain(y.bat), y.bat.typ>>

Hit(e, kind, x) == e.kind = kind /\ e.key = x.bdkey /\ e.seen = Seen(kind, x.bat)
HitPair(p, kind, x, y) ==
  /\ p.at = getBDKey(y) /\ p.obj.kind = kind
  /\ p.obj.src = getBDKey(x) /\ p.obj.dst = getBDKey(y)
  /\ p.obj.seen = SeenPair(kind, x, y)

\* The caches after object x has looked up its metadata.
LookUp(g, kind, x) ==
  IF \E e \in g.cache : Hit(e, kind, x) THEN g
  ELSE [g EXCEPT !.cache = @ \cup {[kind |-> kind, key |-> x.bdkey,
                                     seen |-> Seen(kind, x.bat),
                                     built |-> Layout(kind, x)]}]

LookUpPair(g, kind, x, y) ==
  LET o == [kind |-> kind, src |-> getBDKey(x), dst |-> getBDKey(y),
            seen |-> SeenPair(kind, x, y), built |-> PairLayout(kind, x, y)]
  IN  IF \E p \in g.pairs : HitPair(p, kind, x, y) THEN g
      ELSE [count |-> g.count, cache |-> g.cache,
            pairs |-> g.pairs \cup {[at |-> k, obj |-> o] : k \in {o.src, o.dst}},
            objs  |-> g.objs \cup {o}]

Cached(g) == Cardinality(g.cache) + Cardinality(g.objs)

GetMetadata(kind, s) ==
  /\ fab[s].counted /\ MayLookUp(kind, s)
  /\ reg' = LookUp(reg, kind, fab[s])
  /\ Cached(reg') <= MaxCached
  /\ UNCHANGED <<heap, fab, initialized>>

GetPairMetadata(kind, src, dst) ==
  /\ fab[src].counted /\ fab[dst].counted /\ MayLookUpPair(kind, src, dst)
  /\ reg' = LookUpPair(reg, kind, fab[src], fab[dst])
  /\ Cached(reg') <= MaxCached
  /\ UNCHANGED <<heap, fab, initialized>>

--------------------------------------------------------------------------
(* FabArray.                                                              *)

\* Object s becomes x, which counts itself; g: the caches when s has let go.
Take(s, x, g) ==
  /\ initialized /\ Cardinality(Counted \ {s}) < MaxLive
  /\ fab' = [fab EXCEPT ![s] = WithKey(x)]
  /\ reg' = addThisBD(g, getBDKey(x))

Define(f, r, d, t) ==
  /\ r \in BAOf(f) /\ d \in DMOf(f)
  /\ Take(f, define(r, d, t), Released(f))
  /\ UNCHANGED <<heap, initialized>>

Clear(f) ==
  /\ fab[f].counted
  /\ fab' = [fab EXCEPT ![f] = Undefined]
  /\ reg' = Released(f)
  /\ UNCHANGED <<heap, initialized>>

Move_KeepsCount(f, h) ==
  /\ f # h /\ fab[h].counted
  /\ fab' = [fab EXCEPT ![f] = fab[h]]
  /\ reg' = Released(f)
  /\ UNCHANGED <<heap, initialized>>

\* Move construction and move assignment: f takes what h has, its count included.
Move(f, h) ==
  /\ f # h /\ fab[h].counted
  /\ fab' = [fab EXCEPT ![f] = fab[h], ![h] = Undefined]
  /\ reg' = Released(f)
  /\ UNCHANGED <<heap, initialized>>

\* The boxes move: in place when no one else owns them, else at a new address n.
Shift(f, n, b) ==
  LET x == fab[f]
      g == Released(f)
      t == [x.bat EXCEPT !.ratio = 1]
  IN  /\ x.counted /\ x.bat.face = "none" /\ t \in Transformers /\ b # boxes[x.ba]
      /\ Uniqify(BAUsed(g, x.ba, Objects \ {f}), g, x.ba, n)
      /\ boxes' = [boxes EXCEPT ![n] = b]
      /\ Take(f, define(n, x.dm, t), g)
      /\ UNCHANGED <<maps, grids, dmaps, initialized>>

--------------------------------------------------------------------------
(* LayoutData, which copies as well, and MFIter on a BoxArray.            *)

LayoutDefine(l, r, d, t) ==
  /\ fab[l] = Undefined
  /\ Define(l, r, d, t)

\* Copy construction and copy assignment of a LayoutData that counts.
LayoutCopy(l, h) ==
  /\ l # h /\ fab[h].counted
  /\ Take(l, fab[h], Released(l))
  /\ UNCHANGED <<heap, initialized>>

IterBegin(i, r, d, t) ==
  /\ fab[i] = Undefined /\ r \in BAOf(i) /\ d \in DMOf(i)
  /\ initialized /\ Cardinality(Counted) < MaxLive
  /\ LET x == WithKey(define(r, d, t))
     IN  /\ fab' = [fab EXCEPT ![i] = x]
         /\ reg' = LookUp(addThisBD(reg, x.bdkey), "TileArray", x)
  /\ Cached(reg') <= MaxCached
  /\ UNCHANGED <<heap, initialized>>

--------------------------------------------------------------------------
(* FabArrayBase::Finalize, once the program has let go of its objects.    *)

Finalize ==
  /\ initialized /\ Counted = {}
  /\ initialized' = FALSE
  /\ LET cpcs == {p.obj : p \in {q \in reg.pairs : q.obj.kind = "CPC" /\ q.at = q.obj.src}}
     IN  reg' = [count |-> [k \in Keys |-> 0],
                 cache |-> {e \in reg.cache : e.kind = "CFinfo"},
                 pairs |-> {p \in reg.pairs : p.obj.kind = "FPinfo"},
                 objs  |-> reg.objs \ cpcs]
  /\ UNCHANGED <<heap, fab>>

Initialize ==
  /\ ~initialized
  /\ initialized' = TRUE
  /\ UNCHANGED <<heap, fab, reg>>

Init ==
  /\ boxes \in [BARefs -> BoxLists] /\ maps \in [DMRefs -> Maps]
  /\ grids = {} /\ dmaps = {}
  /\ fab = [s \in Objects |-> Undefined]
  /\ reg = Empty
  /\ initialized = TRUE

HeapStep ==
  \/ \E r \in BARefs, b \in BoxLists : MakeGrids(r, b)
  \/ \E r \in BARefs : DropGrids(r)
  \/ \E r, n \in BARefs, b \in BoxLists : ModifyGrids(r, n, b)
  \/ \E d \in DMRefs, p \in Maps : MakeMap(d, p)
  \/ \E d \in DMRefs : DropMap(d)

ObjectStep ==
  \/ \E f \in FabArrays, r \in BARefs, d \in DMRefs, t \in Transformers : Define(f, r, d, t)
  \/ \E s \in Objects : Clear(s)
  \/ \E f, h \in FabArrays : Move(f, h)
  \/ \E l, h \in LayoutDatas : Move(l, h)
  \/ \E f \in FabArrays, n \in BARefs, b \in BoxLists : Shift(f, n, b)
  \/ \E l \in LayoutDatas, r \in BARefs, d \in DMRefs, t \in Transformers :
       LayoutDefine(l, r, d, t)
  \/ \E l, h \in LayoutDatas : LayoutCopy(l, h)
  \/ \E i \in Iters, r \in BARefs, d \in DMRefs, t \in Transformers : IterBegin(i, r, d, t)

Next ==
  \/ HeapStep
  \/ ObjectStep
  \/ \E kind \in Single, s \in Objects : GetMetadata(kind, s)
  \/ \E kind \in Pairwise, src, dst \in FabArrays : GetPairMetadata(kind, src, dst)
  \/ Finalize
  \/ Initialize

Spec == Init /\ [][Next]_vars

--------------------------------------------------------------------------
(* Type invariant: counts are counts, what counts has its addresses, and  *)
(* the objects that do not count own none.                                *)
TypeOK ==
  /\ boxes \in [BARefs -> BoxLists] /\ maps \in [DMRefs -> Maps]
  /\ grids \subseteq BARefs /\ dmaps \subseteq DMRefs
  /\ fab \in [Objects -> {Undefined} \cup
                [ba : BARefs, dm : DMRefs, bat : Transformers, bdkey : Keys,
                 counted : {TRUE}]]
  /\ reg.count \in [Keys -> Nat]
  /\ initialized \in BOOLEAN

\* Whatever was freed, reused, shifted or moved before, a lookup that hits returns
\* what building anew would give: metadata of the boxes, owners and transformation
\* the arrays have now (getFB, getCPC, TheFPinfo, TheCFinfo, getTileArray, ...).
CacheTrue ==
  /\ \A s \in Counted : \A e \in reg.cache :
       Hit(e, e.kind, fab[s]) /\ MayLookUp(e.kind, s) => e.built = Layout(e.kind, fab[s])
  /\ \A s, t \in Counted : \A p \in reg.pairs :
       /\ HitPair(p, p.obj.kind, fab[s], fab[t]) /\ MayLookUpPair(p.obj.kind, s, t)
       => p.obj.built = PairLayout(p.obj.kind, fab[s], fab[t])

\* m_BD_count is the number of objects with the key, each object's key is the one
\* it was counted under (the assertion getBDKey() == m_bdkey of every lookup), and
\* what is cached has keys that are counted: nothing outlives the last array.
Holders(k) == {s \in Counted : fab[s].bdkey = k}
CountsTrue ==
  /\ \A k \in Keys : reg.count[k] = Cardinality(Holders(k))
  /\ \A s \in Counted : fab[s].bdkey = getBDKey(fab[s])
  /\ \A e \in reg.cache : reg.count[e.key] > 0
  /\ \A o \in reg.objs : reg.count[o.src] > 0 /\ reg.count[o.dst] > 0

\* No multimap entry leads to a deleted CPC or FPinfo, and none is lost: each is
\* found, and so deleted, under either of its keys (flushCPC, flushFPinfo).
NoDangling ==
  /\ \A p \in reg.pairs : p.obj \in reg.objs
  /\ \A o \in reg.objs : \A k \in {o.src, o.dst} : [at |-> k, obj |-> o] \in reg.pairs

\* Metadata that an operation holds by reference between its _nowait and its _finish
\* stays for as long as the arrays it is about do, whatever happens to others.
\* (An array defined anew as it was does not change fab, but holds nothing any more.)
HeldStays ==
  LET kept == {s \in Counted : fab'[s] = fab[s]}
      keys == {fab[s].bdkey : s \in kept}
  IN  fab' # fab =>
      /\ \A e \in reg.cache : e.key \in keys => e \in reg'.cache
      /\ \A o \in reg.objs : {o.src, o.dst} \subseteq keys => o \in reg'.objs
HeldMetadataStays == [][HeldStays]_vars
=============================================================================
