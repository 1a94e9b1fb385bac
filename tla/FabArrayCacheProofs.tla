------------------------ MODULE FabArrayCacheProofs ------------------------
(***************************************************************************)
(* Theorems about the metadata caches, for any number of objects,          *)
(* addresses, box lists, mappings and transformers.                        *)
(*                                                                         *)
(* An operation lets go of an object's old key and then takes a new one,   *)
(* so the invariant is stated of any heap, objects and caches: RegInv      *)
(* holds between the two as well.                                          *)
(***************************************************************************)
EXTENDS FabArrayCache, FiniteSetTheorems, TLAPS

-----------------------------------------------------------------------------
(* The invariant                                                           *)

Holder == [ba : BARefs, dm : DMRefs, bat : Transformers, bdkey : Keys, counted : {TRUE}]

HoldersOf(fb, k) == {s \in {o \in Objects : fb[o].counted} : fb[s].bdkey = k}

\* The metadata of one kind for boxes and owners at the two addresses of a key.
SingleEntry(bx, mp, kind, k, t) ==
  [kind |-> kind, key |-> k, seen |-> Seen(kind, t),
   built |-> [on |-> [boxes |-> bx[k[1]], bat |-> Used(kind, t)], map |-> mp[k[2]]]]

PairSeen(bx, kind, j, k, t, u) ==
  IF kind = "CPC" THEN <<[boxes |-> bx[j[1]], bat |-> t], [boxes |-> bx[k[1]], bat |-> u]>>
                  ELSE <<Domain(u), u.typ>>
PairBuilt(bx, mp, kind, j, k, t, u) ==
  [src |-> [boxes |-> bx[j[1]], bat |-> t], dst |-> [boxes |-> bx[k[1]], bat |-> u],
   map |-> IF kind = "CPC" THEN <<mp[j[2]], mp[k[2]]>> ELSE <<>>]
PairEntry(bx, mp, kind, j, k, t, u) ==
  [kind |-> kind, src |-> j, dst |-> k, seen |-> PairSeen(bx, kind, j, k, t, u),
   built |-> PairBuilt(bx, mp, kind, j, k, t, u)]

\* Transformers that a lookup of the kind can come with.
Looked(kind, t) ==
  /\ kind \in {"FB", "Rotate", "CFinfo"} => t.face = "none"
  /\ kind = "Rotate" => t.typ = "cell"
LookedPair(kind, t, u) ==
  kind = "FPinfo" => t = u /\ u.face = "none"

CacheFresh(bx, mp, g) ==
  \A e \in g.cache : \E kind \in Single, k \in Keys, t \in Transformers :
    e = SingleEntry(bx, mp, kind, k, t) /\ Looked(kind, t) /\ g.count[k] > 0
ObjsFresh(bx, mp, g) ==
  \A o \in g.objs : \E kind \in Pairwise, j, k \in Keys, t, u \in Transformers :
    /\ o = PairEntry(bx, mp, kind, j, k, t, u) /\ LookedPair(kind, t, u)
    /\ g.count[j] > 0 /\ g.count[k] > 0

FabsOK(fb) ==
  /\ fb \in [Objects -> {Undefined} \cup Holder]
  /\ \A s \in Objects : fb[s] # Undefined => fb[s].bdkey = <<fb[s].ba, fb[s].dm>>

CountOK(fb, g) ==
  /\ g.count \in [Keys -> Nat]
  /\ \A k \in Keys : g.count[k] = Cardinality(HoldersOf(fb, k))

PairsOK(g) ==
  /\ \A p \in g.pairs : /\ p = [at |-> p.at, obj |-> p.obj]
                        /\ p.obj \in g.objs /\ p.at \in {p.obj.src, p.obj.dst}
  /\ \A o \in g.objs : \A k \in {o.src, o.dst} : [at |-> k, obj |-> o] \in g.pairs

RegOK(g) ==
  g = [count |-> g.count, cache |-> g.cache, pairs |-> g.pairs, objs |-> g.objs]

RegInv(bx, mp, fb, g) ==
  /\ RegOK(g) /\ FabsOK(fb) /\ CountOK(fb, g) /\ PairsOK(g)
  /\ CacheFresh(bx, mp, g) /\ ObjsFresh(bx, mp, g)

IInv ==
  /\ boxes \in [BARefs -> BoxLists] /\ maps \in [DMRefs -> Maps]
  /\ grids \subseteq BARefs /\ dmaps \subseteq DMRefs
  /\ initialized \in BOOLEAN
  /\ RegInv(boxes, maps, fab, reg)

-----------------------------------------------------------------------------
(* Counting                                                                *)

LEMMA HoldersFinite ==
    ASSUME NEW fb, NEW k
    PROVE  IsFiniteSet(HoldersOf(fb, k)) /\ Cardinality(HoldersOf(fb, k)) \in Nat
<1>1. IsFiniteSet(Objects)
  BY CacheAssumption, FS_Union DEF Objects
<1>2. HoldersOf(fb, k) \in SUBSET Objects
  BY DEF HoldersOf
<1> QED
  BY <1>1, <1>2, FS_Subset, FS_CardinalityType

LEMMA UndefinedFields ==
    /\ Undefined.counted = FALSE /\ Undefined.ba = None /\ Undefined.dm = None
    /\ Undefined \notin Holder
BY DEF Undefined, Holder

LEMMA HolderFields ==
    ASSUME NEW x \in Holder
    PROVE  /\ x.counted = TRUE /\ x.ba \in BARefs /\ x.dm \in DMRefs
           /\ x.bat \in Transformers /\ x.bdkey \in Keys /\ x # Undefined
BY UndefinedFields DEF Holder

\* What an object's count says of it.
LEMMA CountedHolds ==
    ASSUME NEW fb, FabsOK(fb), NEW s \in Objects
    PROVE  /\ fb[s].counted <=> fb[s] # Undefined
           /\ fb[s].counted => /\ fb[s] \in Holder
                               /\ fb[s].bdkey = <<fb[s].ba, fb[s].dm>>
                               /\ s \in HoldersOf(fb, fb[s].bdkey)
<1>1. fb[s] = Undefined \/ fb[s] \in Holder
  BY DEF FabsOK
<1>2. CASE fb[s] = Undefined
  BY <1>2, UndefinedFields
<1>3. CASE fb[s] \in Holder
  BY <1>3, HolderFields DEF FabsOK, HoldersOf
<1> QED
  BY <1>1, <1>2, <1>3

\* A key is counted exactly when an object has it.
LEMMA CountedKey ==
    ASSUME NEW fb, NEW g, FabsOK(fb), CountOK(fb, g), NEW k \in Keys, g.count[k] > 0
    PROVE  \E s \in Objects : fb[s].counted /\ fb[s].ba = k[1] /\ fb[s].dm = k[2]
<1>1. HoldersOf(fb, k) # {}
  BY FS_EmptySet DEF CountOK
<1>2. PICK s \in HoldersOf(fb, k) : TRUE
  BY <1>1
<1>3. s \in Objects /\ fb[s].counted /\ fb[s].bdkey = k
  BY <1>2 DEF HoldersOf
<1>4. k = <<fb[s].ba, fb[s].dm>>
  BY <1>3, CountedHolds
<1> QED
  BY <1>3, <1>4

LEMMA HoldersReleased ==
    ASSUME NEW fb, FabsOK(fb), NEW s \in Objects, fb[s].counted, NEW k
    PROVE  HoldersOf([fb EXCEPT ![s] = Undefined], k) = HoldersOf(fb, k) \ {s}
BY UndefinedFields DEF HoldersOf, FabsOK

LEMMA HoldersTaken ==
    ASSUME NEW fb, FabsOK(fb), NEW s \in Objects, fb[s] = Undefined,
           NEW x \in Holder, NEW k
    PROVE  HoldersOf([fb EXCEPT ![s] = x], k) =
             IF k = x.bdkey THEN HoldersOf(fb, k) \cup {s} ELSE HoldersOf(fb, k)
BY UndefinedFields, HolderFields DEF HoldersOf, FabsOK

-----------------------------------------------------------------------------
(* Flushing                                                                *)

LEMMA ObjKeys ==
    ASSUME NEW bx, NEW mp, NEW g, ObjsFresh(bx, mp, g), NEW o \in g.objs
    PROVE  /\ o.src \in Keys /\ o.dst \in Keys
           /\ g.count[o.src] > 0 /\ g.count[o.dst] > 0
BY DEF ObjsFresh, PairEntry

LEMMA EntryKey ==
    ASSUME NEW bx, NEW mp, NEW g, CacheFresh(bx, mp, g), NEW e \in g.cache
    PROVE  e.key \in Keys /\ g.count[e.key] > 0
BY DEF CacheFresh, SingleEntry

\* Flushing a key deletes the objects with the key, and all that leads to them.
LEMMA FlushFields ==
    ASSUME NEW g, RegOK(g), PairsOK(g), NEW k
    PROVE  /\ RegOK(Flush(g, k))
           /\ Flush(g, k).count = g.count
           /\ Flush(g, k).cache = {e \in g.cache : e.key # k}
           /\ Flush(g, k).objs = {o \in g.objs : o.src # k /\ o.dst # k}
           /\ Flush(g, k).pairs = {p \in g.pairs : p.obj.src # k /\ p.obj.dst # k}
<1> DEFINE deleted == {p.obj : p \in {q \in g.pairs : q.at = k}}
           others  == {p \in g.pairs : p.obj \in deleted /\ p.at = otherkey(p.obj, k)}
<1> DEFINE h == FlushPairs(g, k)
<1>1. /\ RegOK(Flush(g, k))
      /\ Flush(g, k).count = g.count
      /\ Flush(g, k).cache = {e \in g.cache : e.key # k}
      /\ Flush(g, k).pairs = {p \in g.pairs : p.at # k} \ others
      /\ Flush(g, k).objs = g.objs \ deleted
  <2>1. h = [g EXCEPT !.pairs = {p \in @ : p.at # k} \ others, !.objs = @ \ deleted]
    BY DEF FlushPairs
  <2> HIDE DEF deleted, others
  <2>2. /\ RegOK(h) /\ h.count = g.count /\ h.cache = g.cache
        /\ h.pairs = {p \in g.pairs : p.at # k} \ others
        /\ h.objs = g.objs \ deleted
    BY <2>1 DEF RegOK
  <2>3. Flush(g, k) = [h EXCEPT !.cache = {e \in @ : e.key # k}]
    BY DEF Flush, FlushSingle
  <2> HIDE DEF h
  <2> QED
    BY <2>2, <2>3 DEF RegOK
<1>2. deleted = {o \in g.objs : o.src = k \/ o.dst = k}
  <2>1. ASSUME NEW o \in deleted PROVE o \in g.objs /\ (o.src = k \/ o.dst = k)
    BY <2>1 DEF PairsOK
  <2>2. ASSUME NEW o \in g.objs, o.src = k \/ o.dst = k PROVE o \in deleted
    <3>1. [at |-> k, obj |-> o] \in g.pairs
      BY <2>2 DEF PairsOK
    <3> QED
      BY <3>1
  <2> QED
    BY <2>1, <2>2
<1>3. {p \in g.pairs : p.at # k} \ others
        = {p \in g.pairs : p.obj.src # k /\ p.obj.dst # k}
  <2>1. ASSUME NEW p \in g.pairs
        PROVE  (p.at # k /\ p \notin others) <=> (p.obj.src # k /\ p.obj.dst # k)
    <3>1. p.obj \in g.objs /\ p.at \in {p.obj.src, p.obj.dst}
      BY DEF PairsOK
    <3>2. CASE p.obj \in deleted
      BY <3>1, <3>2, <1>2 DEF otherkey
    <3>3. CASE p.obj \notin deleted
      BY <3>1, <3>3, <1>2
    <3> QED
      BY <3>2, <3>3
  <2> QED
    BY <2>1
<1> HIDE DEF deleted, others
<1>4. g.objs \ deleted = {o \in g.objs : o.src # k /\ o.dst # k}
  BY <1>2
<1> QED
  BY <1>1, <1>3, <1>4

\* A subset of the caches that keeps objects and their entries together.
LEMMA FlushPairsOK ==
    ASSUME NEW g, RegOK(g), PairsOK(g), NEW k
    PROVE  PairsOK(Flush(g, k))
<1>1. /\ Flush(g, k).objs = {o \in g.objs : o.src # k /\ o.dst # k}
      /\ Flush(g, k).pairs = {p \in g.pairs : p.obj.src # k /\ p.obj.dst # k}
  BY FlushFields
<1>2. ASSUME NEW p \in Flush(g, k).pairs
      PROVE  /\ p = [at |-> p.at, obj |-> p.obj]
             /\ p.obj \in Flush(g, k).objs /\ p.at \in {p.obj.src, p.obj.dst}
  BY <1>1 DEF PairsOK
<1>3. ASSUME NEW o \in Flush(g, k).objs, NEW j \in {o.src, o.dst}
      PROVE  [at |-> j, obj |-> o] \in Flush(g, k).pairs
  BY <1>1 DEF PairsOK
<1> QED
  BY <1>2, <1>3 DEF PairsOK

\* What clearThisBD makes of the count, and when it flushes.
LEMMA ClearFields ==
    ASSUME NEW g, RegOK(g), PairsOK(g), g.count \in [Keys -> Nat],
           NEW k \in Keys, g.count[k] > 0
    PROVE  LET h == clearThisBD(g, k)
           IN  /\ RegOK(h) /\ PairsOK(h)
               /\ h.count = [g.count EXCEPT ![k] = @ - 1]
               /\ g.count[k] > 1 =>
                    h.cache = g.cache /\ h.objs = g.objs /\ h.pairs = g.pairs
               /\ g.count[k] = 1 =>
                    /\ h.cache = {e \in g.cache : e.key # k}
                    /\ h.objs = {o \in g.objs : o.src # k /\ o.dst # k}
<1> DEFINE g1 == [count |-> [g.count EXCEPT ![k] = @ - 1], cache |-> g.cache,
                  pairs |-> g.pairs, objs |-> g.objs]
<1>1. [g EXCEPT !.count[k] = IF @ > 0 THEN @ - 1 ELSE @] = g1
  BY DEF RegOK
<1>2. RegOK(g1) /\ PairsOK(g1)
  BY DEF RegOK, PairsOK
<1>3. clearThisBD(g, k) = IF g.count[k] > 0 /\ g1.count[k] = 0 THEN Flush(g1, k) ELSE g1
  BY <1>1 DEF clearThisBD
<1>4. g1.count[k] = g.count[k] - 1 /\ g.count[k] \in Nat
  OBVIOUS
<1>5. /\ g1.count = [g.count EXCEPT ![k] = @ - 1]
      /\ g1.cache = g.cache /\ g1.objs = g.objs /\ g1.pairs = g.pairs
  OBVIOUS
<1> HIDE DEF g1
<1>6. CASE g.count[k] = 1
  <2>1. clearThisBD(g, k) = Flush(g1, k)
    BY <1>3, <1>4, <1>6
  <2> QED
    BY <2>1, <1>2, <1>5, <1>6, FlushFields, FlushPairsOK
<1>7. CASE g.count[k] > 1
  <2>1. clearThisBD(g, k) = g1
    BY <1>3, <1>4, <1>7
  <2> QED
    BY <2>1, <1>2, <1>5, <1>7
<1> QED
  BY <1>4, <1>6, <1>7

-----------------------------------------------------------------------------
(* The parts of an operation                                               *)

\* Caches none of whose keys lost its count stay fresh, and so do parts of them.
LEMMA FreshKept ==
    ASSUME NEW bx, NEW mp, NEW g, NEW h,
           CacheFresh(bx, mp, g), ObjsFresh(bx, mp, g),
           h.cache \subseteq g.cache, h.objs \subseteq g.objs,
           \A e \in h.cache : h.count[e.key] > 0,
           \A o \in h.objs : h.count[o.src] > 0 /\ h.count[o.dst] > 0
    PROVE  CacheFresh(bx, mp, h) /\ ObjsFresh(bx, mp, h)
<1>1. ASSUME NEW e \in h.cache
      PROVE  \E kind \in Single, k \in Keys, t \in Transformers :
               e = SingleEntry(bx, mp, kind, k, t) /\ Looked(kind, t) /\ h.count[k] > 0
  <2>1. PICK kind \in Single, k \in Keys, t \in Transformers :
          e = SingleEntry(bx, mp, kind, k, t) /\ Looked(kind, t)
    BY DEF CacheFresh
  <2>2. e.key = k
    BY <2>1 DEF SingleEntry
  <2> QED
    BY <2>1, <2>2
<1>2. ASSUME NEW o \in h.objs
      PROVE  \E kind \in Pairwise, j, k \in Keys, t, u \in Transformers :
               /\ o = PairEntry(bx, mp, kind, j, k, t, u) /\ LookedPair(kind, t, u)
               /\ h.count[j] > 0 /\ h.count[k] > 0
  <2>1. PICK kind \in Pairwise, j \in Keys, k \in Keys, t \in Transformers, u \in Transformers :
          o = PairEntry(bx, mp, kind, j, k, t, u) /\ LookedPair(kind, t, u)
    BY DEF ObjsFresh
  <2>2. o.src = j /\ o.dst = k
    BY <2>1 DEF PairEntry
  <2> QED
    BY <2>1, <2>2
<1> QED
  BY <1>1, <1>2 DEF CacheFresh, ObjsFresh

LEMMA Release ==
    ASSUME NEW bx, NEW mp, NEW fb, NEW g, RegInv(bx, mp, fb, g),
           NEW s \in Objects, fb[s].counted
    PROVE  RegInv(bx, mp, [fb EXCEPT ![s] = Undefined], clearThisBD(g, fb[s].bdkey))
<1> DEFINE k  == fb[s].bdkey
           fn == [fb EXCEPT ![s] = Undefined]
           h  == clearThisBD(g, k)
<1>1. /\ RegOK(g) /\ FabsOK(fb) /\ CountOK(fb, g) /\ PairsOK(g)
      /\ CacheFresh(bx, mp, g) /\ ObjsFresh(bx, mp, g)
  BY DEF RegInv
<1>2. k \in Keys /\ s \in HoldersOf(fb, k)
  BY <1>1, CountedHolds, HolderFields
<1>3. FabsOK(fn)
  BY <1>1, UndefinedFields DEF FabsOK
<1>4. g.count \in [Keys -> Nat] /\ g.count[k] = Cardinality(HoldersOf(fb, k))
  BY <1>1, <1>2 DEF CountOK
<1>5. g.count[k] > 0
  <2>1. Cardinality(HoldersOf(fb, k)) # 0
    BY <1>2, HoldersFinite, FS_EmptySet
  <2> QED
    BY <1>4, <2>1, HoldersFinite
<1>6. /\ RegOK(h) /\ PairsOK(h) /\ h.count = [g.count EXCEPT ![k] = @ - 1]
      /\ g.count[k] > 1 => h.cache = g.cache /\ h.objs = g.objs
      /\ g.count[k] = 1 => /\ h.cache = {e \in g.cache : e.key # k}
                           /\ h.objs = {o \in g.objs : o.src # k /\ o.dst # k}
  BY <1>1, <1>2, <1>4, <1>5, ClearFields
<1>7. CountOK(fn, h)
  <2>1. ASSUME NEW j \in Keys PROVE h.count[j] = Cardinality(HoldersOf(fn, j))
    <3>1. HoldersOf(fn, j) = HoldersOf(fb, j) \ {s}
      BY <1>1, HoldersReleased
    <3>2. CASE j = k
      <4>1. Cardinality(HoldersOf(fb, k) \ {s}) = Cardinality(HoldersOf(fb, k)) - 1
        BY <1>2, HoldersFinite, FS_RemoveElement
      <4> QED
        BY <3>1, <3>2, <4>1, <1>2, <1>4, <1>6
    <3>3. CASE j # k
      <4>1. s \notin HoldersOf(fb, j)
        BY <3>3 DEF HoldersOf
      <4>2. HoldersOf(fn, j) = HoldersOf(fb, j)
        BY <3>1, <4>1
      <4> QED
        BY <3>3, <4>2, <1>1, <1>4, <1>6 DEF CountOK
    <3> QED
      BY <3>2, <3>3
  <2>2. h.count \in [Keys -> Nat]
    BY <1>2, <1>4, <1>5, <1>6
  <2> QED
    BY <2>1, <2>2 DEF CountOK
<1>8. /\ h.cache \subseteq g.cache /\ h.objs \subseteq g.objs
      /\ \A e \in h.cache : h.count[e.key] > 0
      /\ \A o \in h.objs : h.count[o.src] > 0 /\ h.count[o.dst] > 0
  <2>1. /\ \A e \in g.cache : e.key \in Keys /\ g.count[e.key] > 0
        /\ \A o \in g.objs : /\ o.src \in Keys /\ o.dst \in Keys
                             /\ g.count[o.src] > 0 /\ g.count[o.dst] > 0
    BY <1>1, EntryKey, ObjKeys
  <2>2. \A j \in Keys : h.count[j] = IF j = k THEN g.count[k] - 1 ELSE g.count[j]
    BY <1>4, <1>6
  <2> HIDE DEF h, k
  <2>3. CASE g.count[k] = 1
    BY <2>1, <2>2, <2>3, <1>6
  <2>4. CASE g.count[k] > 1
    <3>1. g.count[k] - 1 > 0 /\ h.cache = g.cache /\ h.objs = g.objs
      BY <2>4, <1>2, <1>4, <1>6
    <3> QED
      BY <2>1, <2>2, <3>1
  <2> QED
    BY <2>3, <2>4, <1>2, <1>4, <1>5
<1>9. CacheFresh(bx, mp, h) /\ ObjsFresh(bx, mp, h)
  BY <1>1, <1>8, FreshKept
<1> QED
  BY <1>3, <1>6, <1>7, <1>9 DEF RegInv

LEMMA Taken ==
    ASSUME NEW bx, NEW mp, NEW fb, NEW g, RegInv(bx, mp, fb, g),
           NEW s \in Objects, fb[s] = Undefined,
           NEW x \in Holder, x.bdkey = <<x.ba, x.dm>>
    PROVE  RegInv(bx, mp, [fb EXCEPT ![s] = x], addThisBD(g, x.bdkey))
<1> DEFINE k  == x.bdkey
           fn == [fb EXCEPT ![s] = x]
           h  == addThisBD(g, k)
<1>1. /\ RegOK(g) /\ FabsOK(fb) /\ CountOK(fb, g) /\ PairsOK(g)
      /\ CacheFresh(bx, mp, g) /\ ObjsFresh(bx, mp, g)
  BY DEF RegInv
<1>2. k \in Keys
  BY HolderFields
<1>3. FabsOK(fn)
  BY <1>1 DEF FabsOK
<1>4. g.count \in [Keys -> Nat] /\ \A j \in Keys : g.count[j] = Cardinality(HoldersOf(fb, j))
  BY <1>1 DEF CountOK
<1>5. /\ RegOK(h) /\ h.count = [g.count EXCEPT ![k] = @ + 1]
      /\ h.cache = g.cache /\ h.objs = g.objs /\ h.pairs = g.pairs
  BY <1>1 DEF addThisBD, RegOK
<1>6. PairsOK(h)
  BY <1>1, <1>5 DEF PairsOK
<1>7. CountOK(fn, h)
  <2>1. ASSUME NEW j \in Keys PROVE h.count[j] = Cardinality(HoldersOf(fn, j))
    <3>1. HoldersOf(fn, j) = IF j = k THEN HoldersOf(fb, j) \cup {s} ELSE HoldersOf(fb, j)
      BY <1>1, HoldersTaken
    <3>2. CASE j = k
      <4>1. s \notin HoldersOf(fb, k)
        BY UndefinedFields DEF HoldersOf
      <4>2. Cardinality(HoldersOf(fb, k) \cup {s}) = Cardinality(HoldersOf(fb, k)) + 1
        BY <4>1, HoldersFinite, FS_AddElement
      <4> QED
        BY <3>1, <3>2, <4>2, <1>2, <1>4, <1>5
    <3>3. CASE j # k
      BY <3>1, <3>3, <1>4, <1>5
    <3> QED
      BY <3>2, <3>3
  <2>2. h.count \in [Keys -> Nat]
    BY <1>2, <1>4, <1>5
  <2> QED
    BY <2>1, <2>2 DEF CountOK
<1>8. /\ \A e \in h.cache : h.count[e.key] > 0
      /\ \A o \in h.objs : h.count[o.src] > 0 /\ h.count[o.dst] > 0
  <2>1. /\ \A e \in g.cache : e.key \in Keys /\ g.count[e.key] > 0
        /\ \A o \in g.objs : /\ o.src \in Keys /\ o.dst \in Keys
                             /\ g.count[o.src] > 0 /\ g.count[o.dst] > 0
    BY <1>1, EntryKey, ObjKeys
  <2>2. \A j \in Keys : g.count[j] > 0 => h.count[j] > 0
    BY <1>2, <1>4, <1>5
  <2> HIDE DEF h, k
  <2> QED
    BY <2>1, <2>2, <1>5
<1>9. CacheFresh(bx, mp, h) /\ ObjsFresh(bx, mp, h)
  <2> HIDE DEF h
  <2> QED
    BY <1>1, <1>5, <1>8, FreshKept
<1> QED
  BY <1>3, <1>5, <1>6, <1>7, <1>9 DEF RegInv

\* The contents of an address no object has may change.
LEMMA BoxesChanged ==
    ASSUME NEW bx \in [BARefs -> BoxLists], NEW mp, NEW fb, NEW g, RegInv(bx, mp, fb, g),
           NEW r \in BARefs, \A s \in Objects : fb[s].ba # r, NEW b
    PROVE  RegInv([bx EXCEPT ![r] = b], mp, fb, g)
<1> DEFINE bn == [bx EXCEPT ![r] = b]
<1>1. /\ RegOK(g) /\ FabsOK(fb) /\ CountOK(fb, g) /\ PairsOK(g)
      /\ CacheFresh(bx, mp, g) /\ ObjsFresh(bx, mp, g)
  BY DEF RegInv
<1>2. ASSUME NEW k \in Keys, g.count[k] > 0 PROVE bn[k[1]] = bx[k[1]]
  <2>1. k[1] # r
    BY <1>1, <1>2, CountedKey
  <2>2. k[1] \in BARefs
    BY DEF Keys
  <2> QED
    BY <2>1, <2>2
<1> HIDE DEF bn
<1>3. CacheFresh(bn, mp, g)
  <2>1. ASSUME NEW kind, NEW k \in Keys, NEW t, g.count[k] > 0
        PROVE  SingleEntry(bn, mp, kind, k, t) = SingleEntry(bx, mp, kind, k, t)
    BY <2>1, <1>2 DEF SingleEntry
  <2> QED
    BY <2>1, <1>1 DEF CacheFresh
<1>4. ObjsFresh(bn, mp, g)
  <2>1. ASSUME NEW kind, NEW j \in Keys, NEW k \in Keys, NEW t, NEW u,
               g.count[j] > 0, g.count[k] > 0
        PROVE  PairEntry(bn, mp, kind, j, k, t, u) = PairEntry(bx, mp, kind, j, k, t, u)
    <3>1. bn[j[1]] = bx[j[1]] /\ bn[k[1]] = bx[k[1]]
      BY <2>1, <1>2
    <3> QED
      BY <3>1 DEF PairEntry, PairSeen, PairBuilt
  <2> QED
    BY <2>1, <1>1 DEF ObjsFresh
<1>5. RegInv(bn, mp, fb, g)
  BY <1>1, <1>3, <1>4 DEF RegInv
<1> QED
  BY <1>5 DEF bn

LEMMA MapsChanged ==
    ASSUME NEW bx, NEW mp \in [DMRefs -> Maps], NEW fb, NEW g, RegInv(bx, mp, fb, g),
           NEW d \in DMRefs, \A s \in Objects : fb[s].dm # d, NEW p
    PROVE  RegInv(bx, [mp EXCEPT ![d] = p], fb, g)
<1> DEFINE mn == [mp EXCEPT ![d] = p]
<1>1. /\ RegOK(g) /\ FabsOK(fb) /\ CountOK(fb, g) /\ PairsOK(g)
      /\ CacheFresh(bx, mp, g) /\ ObjsFresh(bx, mp, g)
  BY DEF RegInv
<1>2. ASSUME NEW k \in Keys, g.count[k] > 0 PROVE mn[k[2]] = mp[k[2]]
  <2>1. k[2] # d
    BY <1>1, <1>2, CountedKey
  <2>2. k[2] \in DMRefs
    BY DEF Keys
  <2> QED
    BY <2>1, <2>2
<1> HIDE DEF mn
<1>3. CacheFresh(bx, mn, g)
  <2>1. ASSUME NEW kind, NEW k \in Keys, NEW t, g.count[k] > 0
        PROVE  SingleEntry(bx, mn, kind, k, t) = SingleEntry(bx, mp, kind, k, t)
    BY <2>1, <1>2 DEF SingleEntry
  <2> QED
    BY <2>1, <1>1 DEF CacheFresh
<1>4. ObjsFresh(bx, mn, g)
  <2>1. ASSUME NEW kind, NEW j \in Keys, NEW k \in Keys, NEW t, NEW u,
               g.count[j] > 0, g.count[k] > 0
        PROVE  PairEntry(bx, mn, kind, j, k, t, u) = PairEntry(bx, mp, kind, j, k, t, u)
    <3>1. mn[j[2]] = mp[j[2]] /\ mn[k[2]] = mp[k[2]]
      BY <2>1, <1>2
    <3> QED
      BY <3>1 DEF PairEntry, PairBuilt
  <2> QED
    BY <2>1, <1>1 DEF ObjsFresh
<1>5. RegInv(bx, mn, fb, g)
  BY <1>1, <1>3, <1>4 DEF RegInv
<1> QED
  BY <1>5 DEF mn

\* One object takes over what another was counted for.
LEMMA Moved ==
    ASSUME NEW bx, NEW mp, NEW fb, NEW g, RegInv(bx, mp, fb, g),
           NEW f \in Objects, fb[f] = Undefined,
           NEW h \in Objects, fb[h].counted, f # h
    PROVE  RegInv(bx, mp, [fb EXCEPT ![f] = fb[h], ![h] = Undefined], g)
<1> DEFINE fn == [fb EXCEPT ![f] = fb[h], ![h] = Undefined]
<1>1. FabsOK(fb) /\ CountOK(fb, g)
  BY DEF RegInv
<1>2. FabsOK(fn)
  BY <1>1, UndefinedFields DEF FabsOK
<1>3. CountOK(fn, g)
  <2>1. ASSUME NEW k \in Keys
        PROVE  Cardinality(HoldersOf(fn, k)) = Cardinality(HoldersOf(fb, k))
    <3>1. \A s \in Objects : fn[s] = IF s = h THEN Undefined
                                     ELSE IF s = f THEN fb[h] ELSE fb[s]
      BY <1>1 DEF FabsOK
    <3> HIDE DEF fn
    <3>2. f \notin HoldersOf(fb, k)
      BY UndefinedFields DEF HoldersOf
    <3>3. CASE fb[h].bdkey = k
      <4>1. HoldersOf(fn, k) = (HoldersOf(fb, k) \ {h}) \cup {f}
        BY <3>1, <3>3, UndefinedFields DEF HoldersOf
      <4>2. h \in HoldersOf(fb, k)
        BY <3>3 DEF HoldersOf
      <4>3. /\ IsFiniteSet(HoldersOf(fb, k) \ {h})
            /\ Cardinality(HoldersOf(fb, k) \ {h}) = Cardinality(HoldersOf(fb, k)) - 1
        BY <4>2, HoldersFinite, FS_RemoveElement
      <4>4. Cardinality((HoldersOf(fb, k) \ {h}) \cup {f})
              = Cardinality(HoldersOf(fb, k) \ {h}) + 1
        BY <3>2, <4>3, FS_AddElement
      <4> QED
        BY <4>1, <4>3, <4>4, HoldersFinite
    <3>4. CASE fb[h].bdkey # k
      <4>1. HoldersOf(fn, k) = HoldersOf(fb, k)
        BY <3>1, <3>2, <3>4, UndefinedFields DEF HoldersOf
      <4> QED
        BY <4>1
    <3> QED
      BY <3>3, <3>4
  <2> QED
    BY <2>1, <1>1 DEF CountOK
<1> QED
  BY <1>2, <1>3 DEF RegInv

\* A lookup adds what is fresh.
LEMMA LookedUp ==
    ASSUME NEW fb, NEW g, RegInv(boxes, maps, fb, g), NEW kind \in Single,
           NEW x \in Holder, x.bdkey = <<x.ba, x.dm>>, g.count[x.bdkey] > 0,
           Looked(kind, x.bat)
    PROVE  RegInv(boxes, maps, fb, LookUp(g, kind, x))
<1> DEFINE e == [kind |-> kind, key |-> x.bdkey, seen |-> Seen(kind, x.bat),
                 built |-> Layout(kind, x)]
           h == [g EXCEPT !.cache = @ \cup {e}]
<1>1. LookUp(g, kind, x) = g \/ LookUp(g, kind, x) = h
  BY DEF LookUp
<1>2. e = SingleEntry(boxes, maps, kind, x.bdkey, x.bat)
  BY DEF SingleEntry, Layout, Boxes
<1>3. x.bdkey \in Keys /\ x.bat \in Transformers
  BY HolderFields
<1> HIDE DEF e
<1>4. /\ RegOK(h) /\ h.count = g.count /\ h.pairs = g.pairs /\ h.objs = g.objs
      /\ h.cache = g.cache \cup {e}
  BY DEF RegInv, RegOK
<1> HIDE DEF h
<1>5. CacheFresh(boxes, maps, h)
  BY <1>2, <1>3, <1>4 DEF RegInv, CacheFresh
<1>6. RegInv(boxes, maps, fb, h)
  BY <1>4, <1>5 DEF RegInv, CountOK, PairsOK, ObjsFresh
<1> QED
  BY <1>1, <1>6

LEMMA PairLookedUp ==
    ASSUME RegInv(boxes, maps, fab, reg), NEW kind \in Pairwise,
           NEW s \in Objects, NEW d \in Objects, fab[s].counted, fab[d].counted,
           LookedPair(kind, fab[s].bat, fab[d].bat)
    PROVE  RegInv(boxes, maps, fab, LookUpPair(reg, kind, fab[s], fab[d]))
<1> DEFINE x == fab[s]
           y == fab[d]
           j == getBDKey(x)
           k == getBDKey(y)
           o == [kind |-> kind, src |-> j, dst |-> k, seen |-> SeenPair(kind, x, y),
                 built |-> PairLayout(kind, x, y)]
           added == {[at |-> i, obj |-> o] : i \in {o.src, o.dst}}
           h == [count |-> reg.count, cache |-> reg.cache,
                 pairs |-> reg.pairs \cup added, objs |-> reg.objs \cup {o}]
<1>1. LookUpPair(reg, kind, x, y) = reg \/ LookUpPair(reg, kind, x, y) = h
  BY DEF LookUpPair
<1>2. /\ x \in Holder /\ y \in Holder
      /\ j = x.bdkey /\ k = y.bdkey /\ s \in HoldersOf(fab, j) /\ d \in HoldersOf(fab, k)
  BY CountedHolds DEF RegInv, getBDKey
<1>3. j \in Keys /\ k \in Keys /\ x.bat \in Transformers /\ y.bat \in Transformers
  BY <1>2, HolderFields
<1>4. reg.count[j] > 0 /\ reg.count[k] > 0
  <2>1. ASSUME NEW i \in Keys, HoldersOf(fab, i) # {} PROVE reg.count[i] > 0
    <3>1. reg.count[i] = Cardinality(HoldersOf(fab, i))
      BY DEF RegInv, CountOK
    <3>2. Cardinality(HoldersOf(fab, i)) # 0
      BY <2>1, HoldersFinite, FS_EmptySet
    <3> QED
      BY <3>1, <3>2, HoldersFinite
  <2> QED
    BY <1>2, <1>3, <2>1
<1>5. o = PairEntry(boxes, maps, kind, j, k, x.bat, y.bat)
  <2>1. j[1] = x.ba /\ j[2] = x.dm /\ k[1] = y.ba /\ k[2] = y.dm
    BY DEF getBDKey
  <2>2. SeenPair(kind, x, y) = PairSeen(boxes, kind, j, k, x.bat, y.bat)
    BY <2>1 DEF SeenPair, PairSeen, Boxes
  <2>3. PairLayout(kind, x, y) = PairBuilt(boxes, maps, kind, j, k, x.bat, y.bat)
    BY <2>1 DEF PairLayout, PairBuilt, Boxes
  <2> QED
    BY <2>2, <2>3 DEF PairEntry
<1>6. o.src = j /\ o.dst = k
  OBVIOUS
<1> HIDE DEF o, j, k, x, y, added
<1>7. /\ RegOK(h) /\ h.count = reg.count /\ h.cache = reg.cache
      /\ h.objs = reg.objs \cup {o}
      /\ h.pairs = reg.pairs \cup added
  BY DEF RegOK
<1> HIDE DEF h
<1>8. PairsOK(h)
  <2>1. PairsOK(reg)
    BY DEF RegInv
  <2>2. ASSUME NEW p \in h.pairs
        PROVE  /\ p = [at |-> p.at, obj |-> p.obj]
               /\ p.obj \in h.objs /\ p.at \in {p.obj.src, p.obj.dst}
    <3>1. CASE p \in reg.pairs
      BY <2>1, <3>1, <1>7 DEF PairsOK
    <3>2. CASE p \in added
      BY <3>2, <1>7 DEF added
    <3> QED
      BY <3>1, <3>2, <1>7
  <2>3. ASSUME NEW q \in h.objs, NEW i \in {q.src, q.dst}
        PROVE  [at |-> i, obj |-> q] \in h.pairs
    <3>1. CASE q \in reg.objs
      BY <2>1, <3>1, <1>7 DEF PairsOK
    <3>2. CASE q = o
      BY <3>2, <1>7 DEF added
    <3> QED
      BY <3>1, <3>2, <1>7
  <2> QED
    BY <2>2, <2>3 DEF PairsOK
<1>9. ObjsFresh(boxes, maps, h)
  <2>1. LookedPair(kind, x.bat, y.bat)
    BY DEF x, y
  <2> QED
    BY <2>1, <1>3, <1>4, <1>5, <1>7 DEF RegInv, ObjsFresh
<1>10. RegInv(boxes, maps, fab, h)
  BY <1>7, <1>8, <1>9 DEF RegInv, CountOK, CacheFresh
<1> QED
  BY <1>1, <1>10 DEF x, y

-----------------------------------------------------------------------------
(* The invariant holds                                                     *)

LEMMA HeldCount ==
    ASSUME NEW bx, NEW mp, NEW fb, NEW g, RegInv(bx, mp, fb, g),
           NEW s \in Objects, fb[s].counted
    PROVE  fb[s].bdkey \in Keys /\ g.count[fb[s].bdkey] > 0
<1>1. fb[s].bdkey \in Keys /\ s \in HoldersOf(fb, fb[s].bdkey)
  BY CountedHolds, HolderFields DEF RegInv
<1>2. Cardinality(HoldersOf(fb, fb[s].bdkey)) # 0
  BY <1>1, HoldersFinite, FS_EmptySet
<1> QED
  BY <1>1, <1>2, HoldersFinite DEF RegInv, CountOK

\* What an object has let go of, it no longer has.
LEMMA ReleasedInv ==
    ASSUME RegInv(boxes, maps, fab, reg), NEW s \in Objects
    PROVE  RegInv(boxes, maps, [fab EXCEPT ![s] = Undefined], Released(s))
<1>1. CASE fab[s].counted
  BY <1>1, Release DEF Released
<1>2. CASE ~fab[s].counted
  <2>1. fab[s] = Undefined
    BY <1>2, CountedHolds DEF RegInv
  <2>2. [fab EXCEPT ![s] = Undefined] = fab
    BY <2>1 DEF RegInv, FabsOK
  <2> QED
    BY <1>2, <2>2 DEF Released
<1> QED
  BY <1>1, <1>2

LEMMA KeyFields ==
    ASSUME NEW x, x.ba \in BARefs, x.dm \in DMRefs, x.bat \in Transformers
    PROVE  /\ WithKey(x) \in Holder
           /\ WithKey(x).bdkey = getBDKey(x)
           /\ WithKey(x).bdkey = <<WithKey(x).ba, WithKey(x).dm>>
           /\ WithKey(x).bat = x.bat
<1>1. getBDKey(x) \in Keys
  BY DEF getBDKey, Keys
<1> QED
  BY <1>1 DEF WithKey, Holder, getBDKey

\* An object that has let go of its key takes a new one.
LEMMA TakeInv ==
    ASSUME NEW bx, NEW g, NEW s \in Objects, FabsOK(fab),
           RegInv(bx, maps, [fab EXCEPT ![s] = Undefined], g),
           NEW x, x.ba \in BARefs, x.dm \in DMRefs, x.bat \in Transformers,
           Take(s, x, g)
    PROVE  RegInv(bx, maps, fab', reg')
<1> DEFINE c == [fab EXCEPT ![s] = Undefined]
           y == WithKey(x)
<1>1. y \in Holder /\ y.bdkey = getBDKey(x) /\ y.bdkey = <<y.ba, y.dm>>
  BY KeyFields
<1>2. c[s] = Undefined /\ [c EXCEPT ![s] = y] = [fab EXCEPT ![s] = y]
  BY DEF FabsOK
<1>3. RegInv(bx, maps, [c EXCEPT ![s] = y], addThisBD(g, y.bdkey))
  BY <1>1, <1>2, Taken
<1> QED
  BY <1>1, <1>2, <1>3 DEF Take

LEMMA InitInv == Init => IInv
<1> SUFFICES ASSUME Init PROVE IInv
  OBVIOUS
<1>1. /\ reg.count = [k \in Keys |-> 0]
      /\ reg.cache = {} /\ reg.pairs = {} /\ reg.objs = {} /\ RegOK(reg)
  BY DEF Init, Empty, RegOK
<1>2. FabsOK(fab)
  BY DEF Init, FabsOK
<1>3. ASSUME NEW k \in Keys PROVE Cardinality(HoldersOf(fab, k)) = 0
  <2>1. HoldersOf(fab, k) = {}
    BY UndefinedFields DEF Init, HoldersOf
  <2> QED
    BY <2>1, FS_EmptySet
<1>4. CountOK(fab, reg)
  BY <1>1, <1>3 DEF CountOK
<1>5. PairsOK(reg) /\ CacheFresh(boxes, maps, reg) /\ ObjsFresh(boxes, maps, reg)
  BY <1>1 DEF PairsOK, CacheFresh, ObjsFresh
<1> QED
  BY <1>1, <1>2, <1>4, <1>5 DEF IInv, RegInv, Init

LEMMA HeapInv == IInv /\ HeapStep => IInv'
<1> SUFFICES ASSUME IInv, HeapStep PROVE IInv'
  OBVIOUS
<1>1. /\ boxes \in [BARefs -> BoxLists] /\ maps \in [DMRefs -> Maps]
      /\ grids \subseteq BARefs /\ dmaps \subseteq DMRefs /\ initialized \in BOOLEAN
      /\ RegInv(boxes, maps, fab, reg)
  BY DEF IInv
<1>2. ASSUME NEW r \in BARefs, NEW b \in BoxLists, MakeGrids(r, b) PROVE IInv'
  <2>1. \A s \in Objects : fab[s].ba # r
    BY <1>2 DEF MakeGrids, BAUsed
  <2>2. RegInv(boxes', maps', fab', reg')
    BY <1>1, <1>2, <2>1, BoxesChanged DEF MakeGrids
  <2> QED
    BY <1>1, <1>2, <2>2 DEF MakeGrids, IInv
<1>3. ASSUME NEW r \in BARefs, DropGrids(r) PROVE IInv'
  BY <1>1, <1>3 DEF DropGrids, IInv
<1>4. ASSUME NEW r \in BARefs, NEW n \in BARefs, NEW b \in BoxLists, ModifyGrids(r, n, b)
      PROVE  IInv'
  <2>1. \A s \in Objects : fab[s].ba # n
    BY <1>4 DEF ModifyGrids, Uniqify, BAUsed
  <2>2. RegInv(boxes', maps', fab', reg')
    BY <1>1, <1>4, <2>1, BoxesChanged DEF ModifyGrids
  <2> QED
    BY <1>1, <1>4, <2>2 DEF ModifyGrids, IInv
<1>5. ASSUME NEW d \in DMRefs, NEW p \in Maps, MakeMap(d, p) PROVE IInv'
  <2>1. \A s \in Objects : fab[s].dm # d
    BY <1>5 DEF MakeMap, DMUsed
  <2>2. RegInv(boxes', maps', fab', reg')
    BY <1>1, <1>5, <2>1, MapsChanged DEF MakeMap
  <2> QED
    BY <1>1, <1>5, <2>2 DEF MakeMap, IInv
<1>6. ASSUME NEW d \in DMRefs, DropMap(d) PROVE IInv'
  BY <1>1, <1>6 DEF DropMap, IInv
<1> QED
  BY <1>2, <1>3, <1>4, <1>5, <1>6 DEF HeapStep

LEMMA DefineInv ==
    ASSUME RegInv(boxes, maps, fab, reg), NEW s \in Objects,
           NEW r \in BARefs, NEW d \in DMRefs, NEW t \in Transformers, Define(s, r, d, t)
    PROVE  RegInv(boxes, maps, fab', reg')
<1>1. RegInv(boxes, maps, [fab EXCEPT ![s] = Undefined], Released(s))
  BY ReleasedInv
<1>2. /\ define(r, d, t).ba = r /\ define(r, d, t).dm = d /\ define(r, d, t).bat = t
  BY DEF define
<1>3. Take(s, define(r, d, t), Released(s))
  BY DEF Define
<1> QED
  BY <1>1, <1>2, <1>3, TakeInv DEF RegInv

LEMMA MoveInv ==
    ASSUME RegInv(boxes, maps, fab, reg), NEW f \in Objects, NEW h \in Objects, Move(f, h)
    PROVE  RegInv(boxes, maps, fab', reg')
<1> DEFINE c == [fab EXCEPT ![f] = Undefined]
<1>1. RegInv(boxes, maps, c, Released(f))
  BY ReleasedInv
<1>2. f # h /\ fab[h].counted /\ fab \in [Objects -> {Undefined} \cup Holder]
  BY DEF Move, RegInv, FabsOK
<1>3. c[f] = Undefined /\ c[h] = fab[h]
  BY <1>2
<1>4. [c EXCEPT ![f] = c[h], ![h] = Undefined] = [fab EXCEPT ![f] = fab[h], ![h] = Undefined]
  BY <1>2, <1>3
<1>5. c[h].counted
  BY <1>2, <1>3
<1> HIDE DEF c
<1>6. RegInv(boxes, maps, [c EXCEPT ![f] = c[h], ![h] = Undefined], Released(f))
  BY <1>1, <1>2, <1>3, <1>5, Moved
<1> QED
  BY <1>4, <1>6 DEF Move

LEMMA ShiftInv ==
    ASSUME IInv, NEW f \in Objects, NEW n \in BARefs, NEW b \in BoxLists, Shift(f, n, b)
    PROVE  IInv'
<1> DEFINE x == fab[f]
           g == Released(f)
           t == [x.bat EXCEPT !.ratio = 1]
           c == [fab EXCEPT ![f] = Undefined]
<1>1. /\ boxes \in [BARefs -> BoxLists] /\ maps \in [DMRefs -> Maps]
      /\ grids \subseteq BARefs /\ dmaps \subseteq DMRefs /\ initialized \in BOOLEAN
      /\ RegInv(boxes, maps, fab, reg) /\ FabsOK(fab)
  BY DEF IInv, RegInv
<1>2. /\ x.counted /\ t \in Transformers
      /\ Uniqify(BAUsed(g, x.ba, Objects \ {f}), g, x.ba, n)
      /\ boxes' = [boxes EXCEPT ![n] = b]
      /\ Take(f, define(n, x.dm, t), g)
      /\ UNCHANGED <<maps, grids, dmaps, initialized>>
  BY DEF Shift
<1>3. x \in Holder
  BY <1>1, <1>2, CountedHolds
<1>4. RegInv(boxes, maps, c, g)
  BY <1>1, ReleasedInv
<1>5. \A s \in Objects : c[s].ba # n
  <2>1. ASSUME NEW s \in Objects PROVE c[s].ba # n
    <3>1. CASE s = f
      BY <3>1, <1>1, UndefinedFields, CacheAssumption DEF FabsOK
    <3>2. CASE s # f
      <4>1. c[s] = fab[s]
        BY <3>2, <1>1 DEF FabsOK
      <4>2. CASE BAUsed(g, x.ba, Objects \ {f})
        BY <4>1, <4>2, <1>2 DEF Uniqify, BAUsed
      <4>3. CASE ~BAUsed(g, x.ba, Objects \ {f})
        BY <4>1, <4>3, <3>2, <1>2 DEF Uniqify, BAUsed
      <4> QED
        BY <4>2, <4>3
    <3> QED
      BY <3>1, <3>2
  <2> QED
    BY <2>1
<1>6. x.dm \in DMRefs
  BY <1>3, HolderFields
<1> HIDE DEF x, g, t
<1>7. RegInv(boxes', maps, c, g)
  <2> HIDE DEF c
  <2> QED
    BY <1>1, <1>2, <1>4, <1>5, BoxesChanged
<1>8. /\ define(n, x.dm, t).ba = n /\ define(n, x.dm, t).dm = x.dm
      /\ define(n, x.dm, t).bat = t
  BY DEF define
<1>9. RegInv(boxes', maps, fab', reg')
  BY <1>1, <1>2, <1>6, <1>7, <1>8, TakeInv
<1> QED
  BY <1>1, <1>2, <1>9 DEF IInv

LEMMA IterInv ==
    ASSUME RegInv(boxes, maps, fab, reg), NEW i \in Objects,
           NEW r \in BARefs, NEW d \in DMRefs, NEW t \in Transformers, IterBegin(i, r, d, t)
    PROVE  RegInv(boxes, maps, fab', reg')
<1> DEFINE x == WithKey(define(r, d, t))
           fn == [fab EXCEPT ![i] = x]
           h == addThisBD(reg, x.bdkey)
<1>1. x \in Holder /\ x.bdkey = <<x.ba, x.dm>> /\ x.bat = t
  BY KeyFields DEF define
<1>2. fab[i] = Undefined /\ fab' = fn /\ reg' = LookUp(h, "TileArray", x)
  BY DEF IterBegin
<1>3. fn[i] = x
  BY DEF RegInv, FabsOK
<1> HIDE DEF x
<1>4. RegInv(boxes, maps, fn, h)
  BY <1>1, <1>2, Taken
<1>5. h.count[x.bdkey] > 0
  <2>1. fn[i].counted
    BY <1>1, <1>3, HolderFields
  <2> HIDE DEF fn, h
  <2> QED
    BY <1>3, <1>4, <2>1, HeldCount
<1>6. "TileArray" \in Single /\ Looked("TileArray", x.bat)
  BY DEF Single, Looked
<1> HIDE DEF fn, h
<1>7. RegInv(boxes, maps, fn, LookUp(h, "TileArray", x))
  BY <1>1, <1>4, <1>5, <1>6, LookedUp
<1> QED
  BY <1>2, <1>7

LEMMA CopyInv ==
    ASSUME RegInv(boxes, maps, fab, reg), NEW l \in Objects, NEW h \in Objects,
           LayoutCopy(l, h)
    PROVE  RegInv(boxes, maps, fab', reg')
<1>1. RegInv(boxes, maps, [fab EXCEPT ![l] = Undefined], Released(l))
  BY ReleasedInv
<1>2. fab[h].counted /\ Take(l, fab[h], Released(l))
  BY DEF LayoutCopy
<1>3. fab[h].ba \in BARefs /\ fab[h].dm \in DMRefs /\ fab[h].bat \in Transformers
  BY <1>2, CountedHolds, HolderFields DEF RegInv
<1> QED
  BY <1>1, <1>2, <1>3, TakeInv DEF RegInv

LEMMA ObjectInv == IInv /\ ObjectStep => IInv'
<1> SUFFICES ASSUME IInv, ObjectStep PROVE IInv'
  OBVIOUS
<1> USE DEF Objects
<1>1. RegInv(boxes, maps, fab, reg)
  BY DEF IInv
<1>2. CASE \E f \in FabArrays, r \in BARefs, d \in DMRefs, t \in Transformers :
             Define(f, r, d, t)
  <2>1. RegInv(boxes, maps, fab', reg')
    BY <1>1, <1>2, DefineInv
  <2> QED
    BY <1>2, <2>1 DEF IInv, Define, heap
<1>3. CASE \E s \in Objects : Clear(s)
  <2>1. RegInv(boxes, maps, fab', reg')
    BY <1>1, <1>3, ReleasedInv DEF Clear
  <2> QED
    BY <1>3, <2>1 DEF IInv, Clear, heap
<1>4. CASE \E f, h \in Objects : Move(f, h)
  <2>1. RegInv(boxes, maps, fab', reg')
    BY <1>1, <1>4, MoveInv
  <2> QED
    BY <1>4, <2>1 DEF IInv, Move, heap
<1>5. CASE \E f \in FabArrays, n \in BARefs, b \in BoxLists : Shift(f, n, b)
  BY <1>5, ShiftInv
<1>6. CASE \E l \in LayoutDatas, r \in BARefs, d \in DMRefs, t \in Transformers :
             LayoutDefine(l, r, d, t)
  <2>1. RegInv(boxes, maps, fab', reg')
    BY <1>1, <1>6, DefineInv DEF LayoutDefine
  <2> QED
    BY <1>6, <2>1 DEF IInv, LayoutDefine, Define, heap
<1>7. CASE \E l, h \in LayoutDatas : LayoutCopy(l, h)
  <2>1. RegInv(boxes, maps, fab', reg')
    BY <1>1, <1>7, CopyInv
  <2> QED
    BY <1>7, <2>1 DEF IInv, LayoutCopy, heap
<1>8. CASE \E i \in Iters, r \in BARefs, d \in DMRefs, t \in Transformers :
             IterBegin(i, r, d, t)
  <2>1. RegInv(boxes, maps, fab', reg')
    BY <1>1, <1>8, IterInv
  <2> QED
    BY <1>8, <2>1 DEF IInv, IterBegin, heap
<1> QED
  BY <1>2, <1>3, <1>4, <1>5, <1>6, <1>7, <1>8 DEF ObjectStep

LEMMA GetInv ==
    ASSUME IInv, NEW kind \in Single, NEW s \in Objects, GetMetadata(kind, s)
    PROVE  IInv'
<1>1. RegInv(boxes, maps, fab, reg) /\ fab[s].counted
  BY DEF IInv, GetMetadata
<1>2. fab[s] \in Holder /\ fab[s].bdkey = <<fab[s].ba, fab[s].dm>>
  BY <1>1, CountedHolds DEF RegInv
<1>3. Looked(kind, fab[s].bat)
  BY DEF GetMetadata, MayLookUp, Looked
<1>4. RegInv(boxes, maps, fab, LookUp(reg, kind, fab[s]))
  BY <1>1, <1>2, <1>3, HeldCount, LookedUp
<1> QED
  BY <1>4 DEF IInv, GetMetadata, heap

LEMMA GetPairInv ==
    ASSUME IInv, NEW kind \in Pairwise, NEW s \in FabArrays, NEW d \in FabArrays,
           GetPairMetadata(kind, s, d)
    PROVE  IInv'
<1>1. RegInv(boxes, maps, fab, reg) /\ fab[s].counted /\ fab[d].counted
  BY DEF IInv, GetPairMetadata
<1>2. LookedPair(kind, fab[s].bat, fab[d].bat)
  BY DEF GetPairMetadata, MayLookUpPair, LookedPair
<1>3. RegInv(boxes, maps, fab, LookUpPair(reg, kind, fab[s], fab[d]))
  BY <1>1, <1>2, PairLookedUp DEF Objects
<1> QED
  BY <1>3 DEF IInv, GetPairMetadata, heap

\* Without objects nothing is cached, so the two caches Finalize passes over are empty.
LEMMA FinalizeInv ==
    ASSUME IInv, Finalize
    PROVE  IInv'
<1>1. /\ RegInv(boxes, maps, fab, reg) /\ RegOK(reg) /\ FabsOK(fab) /\ CountOK(fab, reg)
      /\ PairsOK(reg) /\ CacheFresh(boxes, maps, reg) /\ ObjsFresh(boxes, maps, reg)
  BY DEF IInv, RegInv
<1>2. \A s \in Objects : ~fab[s].counted
  BY DEF Finalize, Counted
<1>3. ASSUME NEW k \in Keys PROVE ~(reg.count[k] > 0) /\ Cardinality(HoldersOf(fab, k)) = 0
  <2>1. HoldersOf(fab, k) = {}
    BY <1>2 DEF HoldersOf
  <2>2. Cardinality(HoldersOf(fab, k)) = 0
    BY <2>1, FS_EmptySet
  <2> QED
    BY <2>2, <1>1 DEF CountOK
<1>4. reg.cache = {} /\ reg.objs = {}
  BY <1>1, <1>3, EntryKey, ObjKeys
<1>5. reg.pairs = {}
  BY <1>1, <1>4 DEF PairsOK
<1>6. /\ RegOK(reg') /\ reg'.count = [k \in Keys |-> 0]
      /\ reg'.cache = {} /\ reg'.objs = {} /\ reg'.pairs = {}
  BY <1>4, <1>5 DEF Finalize, RegOK
<1>7. CountOK(fab, reg') /\ PairsOK(reg') /\ CacheFresh(boxes, maps, reg')
      /\ ObjsFresh(boxes, maps, reg')
  BY <1>3, <1>6 DEF CountOK, PairsOK, CacheFresh, ObjsFresh
<1> QED
  BY <1>1, <1>6, <1>7 DEF IInv, RegInv, Finalize, heap

LEMMA NextInv == IInv /\ [Next]_vars => IInv'
<1> SUFFICES ASSUME IInv, [Next]_vars PROVE IInv'
  OBVIOUS
<1>1. CASE HeapStep
  BY <1>1, HeapInv
<1>2. CASE ObjectStep
  BY <1>2, ObjectInv
<1>3. CASE \E kind \in Single, s \in Objects : GetMetadata(kind, s)
  BY <1>3, GetInv
<1>4. CASE \E kind \in Pairwise, src, dst \in FabArrays : GetPairMetadata(kind, src, dst)
  BY <1>4, GetPairInv
<1>5. CASE Finalize
  BY <1>5, FinalizeInv
<1>6. CASE Initialize
  BY <1>6 DEF Initialize, IInv, heap
<1>7. CASE UNCHANGED vars
  BY <1>7 DEF vars, heap, IInv
<1> QED
  BY <1>1, <1>2, <1>3, <1>4, <1>5, <1>6, <1>7 DEF Next

LEMMA SpecInv == Spec => []IInv
BY InitInv, NextInv, PTL DEF Spec

-----------------------------------------------------------------------------
(* What follows from it                                                    *)

\* Types: what an object is, and counts that are counts.
THEOREM TypeCorrect == Spec => []TypeOK
<1>1. IInv => TypeOK
  BY DEF IInv, TypeOK, RegInv, FabsOK, CountOK, Holder
<1> QED
  BY <1>1, SpecInv, PTL

\* The counts of m_BD_count are exact, and whatever is cached has counted keys.
THEOREM CountsExact == Spec => []CountsTrue
<1>1. ASSUME IInv PROVE CountsTrue
  <2>1. RegInv(boxes, maps, fab, reg)
    BY <1>1 DEF IInv
  <2>2. \A k \in Keys : reg.count[k] = Cardinality(Holders(k))
    BY <2>1 DEF RegInv, CountOK, Holders, HoldersOf, Counted
  <2>3. \A s \in Counted : fab[s].bdkey = getBDKey(fab[s])
    BY <2>1, CountedHolds DEF RegInv, Counted, getBDKey
  <2> QED
    BY <2>1, <2>2, <2>3, EntryKey, ObjKeys DEF RegInv, CountsTrue
<1> QED
  BY <1>1, SpecInv, PTL

\* No entry of a multimap leads to a deleted object, and none is lost.
THEOREM NoneDangling == Spec => []NoDangling
<1>1. IInv => NoDangling
  BY DEF IInv, RegInv, PairsOK, NoDangling
<1> QED
  BY <1>1, SpecInv, PTL

\* Transformers that a lookup cannot tell apart give the same metadata.
LEMMA SeenUsed ==
    ASSUME NEW kind \in Single, NEW t \in Transformers, NEW u \in Transformers,
           Seen(kind, t) = Seen(kind, u), Looked(kind, t), Looked(kind, u)
    PROVE  Used(kind, t) = Used(kind, u)
<1>1. /\ t = [typ |-> t.typ, ratio |-> t.ratio, face |-> t.face]
      /\ u = [typ |-> u.typ, ratio |-> u.ratio, face |-> u.face]
  BY CacheAssumption
<1>2. CASE kind \in {"TileArray", "CFinfo"}
  <2>1. t.ratio = u.ratio
    BY <1>2 DEF Seen, Domain
  <2> QED
    BY <1>2, <2>1 DEF Used
<1>3. CASE kind = "ParFor"
  BY <1>3 DEF Seen, Used
<1>4. CASE kind \in {"FB", "Rotate"}
  <2>1. t.ratio = u.ratio /\ t.typ = u.typ /\ t.face = u.face
    BY <1>4 DEF Seen, Domain, Looked
  <2>2. t = u
    BY <1>1, <2>1
  <2> QED
    BY <2>2
<1> QED
  BY <1>2, <1>3, <1>4 DEF Single

\* A lookup that hits in a cache of one key returns what building anew would give.
LEMMA SingleTrue ==
    ASSUME IInv, NEW s \in Counted, NEW e \in reg.cache,
           Hit(e, e.kind, fab[s]), MayLookUp(e.kind, s)
    PROVE  e.built = Layout(e.kind, fab[s])
<1> DEFINE x == fab[s]
<1>1. FabsOK(fab) /\ CacheFresh(boxes, maps, reg) /\ s \in Objects /\ x.counted
  BY DEF IInv, RegInv, Counted
<1>2. PICK kind \in Single, k \in Keys, t \in Transformers :
        e = SingleEntry(boxes, maps, kind, k, t) /\ Looked(kind, t)
  BY <1>1 DEF CacheFresh
<1>3. /\ e.kind = kind /\ e.key = k /\ e.seen = Seen(kind, t)
      /\ e.built = [on |-> [boxes |-> boxes[k[1]], bat |-> Used(kind, t)], map |-> maps[k[2]]]
  BY <1>2 DEF SingleEntry
<1>4. k = x.bdkey /\ Seen(kind, t) = Seen(kind, x.bat)
  BY <1>3 DEF Hit
<1>5. x.bat \in Transformers /\ k[1] = x.ba /\ k[2] = x.dm
  <2>1. x \in Holder /\ x.bdkey = <<x.ba, x.dm>>
    BY <1>1, CountedHolds
  <2> HIDE DEF x
  <2>2. x.bat \in Transformers
    BY <2>1, HolderFields
  <2> QED
    BY <1>4, <2>1, <2>2
<1>6. Looked(kind, x.bat)
  BY <1>3 DEF MayLookUp, Looked
<1> HIDE DEF x
<1>7. Used(kind, t) = Used(kind, x.bat)
  BY <1>2, <1>4, <1>5, <1>6, SeenUsed
<1>8. e.built = Layout(kind, x)
  BY <1>3, <1>5, <1>7 DEF Layout, Boxes
<1> QED
  BY <1>3, <1>8 DEF x

\* So does one in a cache of two keys: a ParallelCopy sees the boxes themselves, and
\* FillPatch comes with one transformer for source and destination.
LEMMA PairTrue ==
    ASSUME IInv, NEW s \in Counted, NEW d \in Counted, NEW p \in reg.pairs,
           HitPair(p, p.obj.kind, fab[s], fab[d]), MayLookUpPair(p.obj.kind, s, d)
    PROVE  p.obj.built = PairLayout(p.obj.kind, fab[s], fab[d])
<1> DEFINE x == fab[s]
           y == fab[d]
<1>1. /\ FabsOK(fab) /\ PairsOK(reg) /\ ObjsFresh(boxes, maps, reg)
      /\ s \in Objects /\ d \in Objects /\ x.counted /\ y.counted
  BY DEF IInv, RegInv, Counted
<1>2. x.bat \in Transformers /\ y.bat \in Transformers
  BY <1>1, CountedHolds, HolderFields
<1>3. PICK kind \in Pairwise, j \in Keys, k \in Keys, t \in Transformers, u \in Transformers :
        p.obj = PairEntry(boxes, maps, kind, j, k, t, u) /\ LookedPair(kind, t, u)
  BY <1>1 DEF PairsOK, ObjsFresh
<1>4. /\ p.obj.kind = kind /\ p.obj.src = j /\ p.obj.dst = k
      /\ p.obj.seen = PairSeen(boxes, kind, j, k, t, u)
      /\ p.obj.built = PairBuilt(boxes, maps, kind, j, k, t, u)
  BY <1>3 DEF PairEntry
<1>5. j = <<x.ba, x.dm>> /\ k = <<y.ba, y.dm>>
  BY <1>4 DEF HitPair, getBDKey
<1>6. PairSeen(boxes, kind, j, k, t, u) = SeenPair(kind, x, y)
  BY <1>4 DEF HitPair
<1>7. kind = "FPinfo" => x.bat = y.bat /\ y.bat.face = "none"
  BY <1>4 DEF MayLookUpPair
<1> HIDE DEF x, y
<1>8. t = x.bat /\ u = y.bat
  <2>1. CASE kind = "CPC"
    BY <1>6, <2>1 DEF PairSeen, SeenPair, Boxes
  <2>2. CASE kind = "FPinfo"
    <3>1. u.ratio = y.bat.ratio /\ u.typ = y.bat.typ
      BY <1>6, <2>2 DEF PairSeen, SeenPair, Domain
    <3>2. t = u /\ u.face = "none"
      BY <1>3, <2>2 DEF LookedPair
    <3>3. u = y.bat
      BY <1>2, <1>7, <2>2, <3>1, <3>2, CacheAssumption
    <3> QED
      BY <1>7, <2>2, <3>2, <3>3
  <2> QED
    BY <2>1, <2>2 DEF Pairwise
<1>9. PairBuilt(boxes, maps, kind, j, k, t, u) = PairLayout(kind, x, y)
  BY <1>5, <1>8 DEF PairBuilt, PairLayout, Boxes
<1> QED
  BY <1>4, <1>9 DEF x, y

\* A lookup that hits returns what building anew would give, whatever addresses
\* were freed and used again and whatever was moved, copied or shifted before.
THEOREM CachesTrue == Spec => []CacheTrue
<1>1. IInv => CacheTrue
  BY SingleTrue, PairTrue DEF CacheTrue
<1> QED
  BY <1>1, SpecInv, PTL

-----------------------------------------------------------------------------
(* Metadata that is held                                                   *)

\* Letting go of s leaves alone what has the keys of other objects only: a key that
\* another object has was counted more than once.
LEMMA ReleaseKeeps ==
    ASSUME RegInv(boxes, maps, fab, reg), NEW s \in Objects, NEW K,
           \A k \in K : \E o \in Objects \ {s} : fab[o].counted /\ fab[o].bdkey = k
    PROVE  /\ \A e \in reg.cache : e.key \in K => e \in Released(s).cache
           /\ \A o \in reg.objs : {o.src, o.dst} \subseteq K => o \in Released(s).objs
<1> DEFINE k == fab[s].bdkey
           h == clearThisBD(reg, k)
<1>1. RegOK(reg) /\ FabsOK(fab) /\ CountOK(fab, reg) /\ PairsOK(reg)
  BY DEF RegInv
<1>2. CASE ~fab[s].counted
  BY <1>2 DEF Released
<1>3. CASE fab[s].counted
  <2>1. k \in Keys /\ s \in HoldersOf(fab, k) /\ Released(s) = h
    BY <1>1, <1>3, CountedHolds, HolderFields DEF Released
  <2>2. reg.count \in [Keys -> Nat] /\ reg.count[k] = Cardinality(HoldersOf(fab, k))
    BY <1>1, <2>1 DEF CountOK
  <2>3. Cardinality(HoldersOf(fab, k) \ {s}) = Cardinality(HoldersOf(fab, k)) - 1
    <3> HIDE DEF h, k
    <3>1. s \in HoldersOf(fab, k) /\ IsFiniteSet(HoldersOf(fab, k))
      BY <2>1, HoldersFinite
    <3> QED
      BY <3>1, FS_RemoveElement
  <2>4. IsFiniteSet(HoldersOf(fab, k) \ {s}) /\ Cardinality(HoldersOf(fab, k) \ {s}) \in Nat
    BY HoldersFinite, FS_Subset, FS_CardinalityType
  <2>5. reg.count[k] > 0
    BY <2>2, <2>3, <2>4, HoldersFinite
  <2>6. k \in K => reg.count[k] > 1
    <3>1. SUFFICES ASSUME k \in K PROVE reg.count[k] > 1
      OBVIOUS
    <3>2. PICK o \in Objects \ {s} : fab[o].counted /\ fab[o].bdkey = k
      BY <3>1
    <3>3. o \in HoldersOf(fab, k) \ {s}
      BY <3>2 DEF HoldersOf
    <3>4. Cardinality(HoldersOf(fab, k) \ {s}) # 0
      BY <3>3, <2>4, FS_EmptySet
    <3> QED
      BY <3>4, <2>2, <2>3, <2>4, HoldersFinite
  <2>7. /\ reg.count[k] > 1 => h.cache = reg.cache /\ h.objs = reg.objs
        /\ reg.count[k] = 1 => /\ h.cache = {e \in reg.cache : e.key # k}
                               /\ h.objs = {o \in reg.objs : o.src # k /\ o.dst # k}
    BY <1>1, <2>1, <2>2, <2>5, ClearFields
  <2>8. reg.count[k] > 1 \/ reg.count[k] = 1
    BY <2>1, <2>2, <2>5
  <2> HIDE DEF h, k
  <2> QED
    BY <2>1, <2>6, <2>7, <2>8
<1> QED
  BY <1>2, <1>3

LEMMA TakeKeeps ==
    ASSUME RegInv(boxes, maps, fab, reg), NEW s \in Objects, NEW x, Take(s, x, Released(s))
    PROVE  HeldStays
<1> DEFINE kept == {o \in Counted : fab'[o] = fab[o]}
           keys == {fab[o].bdkey : o \in kept}
           y == WithKey(x)
<1> SUFFICES ASSUME fab' # fab
             PROVE  /\ \A e \in reg.cache : e.key \in keys => e \in reg'.cache
                    /\ \A o \in reg.objs : {o.src, o.dst} \subseteq keys => o \in reg'.objs
  BY DEF HeldStays
<1>1. /\ fab' = [fab EXCEPT ![s] = y] /\ reg' = addThisBD(Released(s), getBDKey(x))
      /\ fab = [o \in Objects |-> fab[o]]
  BY DEF Take, RegInv, FabsOK
<1>2. RegOK(Released(s))
  BY ReleasedInv DEF RegInv
<1>3. reg'.cache = Released(s).cache /\ reg'.objs = Released(s).objs
  BY <1>1, <1>2 DEF addThisBD, RegOK
<1> HIDE DEF y
<1>4. s \notin kept
  <2>1. fab'[s] = fab[s] => fab' = fab
    BY <1>1
  <2> QED
    BY <2>1
<1>5. \A k \in keys : \E o \in Objects \ {s} : fab[o].counted /\ fab[o].bdkey = k
  BY <1>4 DEF Counted
<1> HIDE DEF keys
<1> QED
  BY <1>3, <1>5, ReleaseKeeps

LEMMA ClearKeeps ==
    ASSUME RegInv(boxes, maps, fab, reg), NEW s \in Objects, Clear(s)
    PROVE  HeldStays
<1> DEFINE kept == {o \in Counted : fab'[o] = fab[o]}
           keys == {fab[o].bdkey : o \in kept}
<1>1. reg' = Released(s) /\ fab' = [fab EXCEPT ![s] = Undefined] /\ fab[s].counted
  BY DEF Clear
<1>2. s \notin kept
  BY <1>1, UndefinedFields DEF RegInv, FabsOK
<1>3. \A k \in keys : \E o \in Objects \ {s} : fab[o].counted /\ fab[o].bdkey = k
  BY <1>2 DEF Counted
<1>4. /\ \A e \in reg.cache : e.key \in keys => e \in reg'.cache
      /\ \A o \in reg.objs : {o.src, o.dst} \subseteq keys => o \in reg'.objs
  <2> HIDE DEF keys
  <2> QED
    BY <1>1, <1>3, ReleaseKeeps
<1> QED
  BY <1>4 DEF HeldStays

\* Moving to f keeps its key when it is that of the object moved from.
LEMMA MoveKeeps ==
    ASSUME RegInv(boxes, maps, fab, reg), NEW f \in Objects, NEW h \in Objects, Move(f, h)
    PROVE  HeldStays
<1> DEFINE kept == {o \in Counted : fab'[o] = fab[o]}
           keys == {fab[o].bdkey : o \in kept}
<1>1. /\ reg' = Released(f) /\ f # h /\ fab[h].counted
      /\ fab' = [fab EXCEPT ![f] = fab[h], ![h] = Undefined]
  BY DEF Move
<1>2. fab'[f] = fab[h]
  BY <1>1 DEF RegInv, FabsOK
<1>3. ASSUME NEW k \in keys
      PROVE  \E o \in Objects \ {f} : fab[o].counted /\ fab[o].bdkey = k
  <2>1. PICK o \in kept : k = fab[o].bdkey
    OBVIOUS
  <2>2. CASE o = f
    BY <1>1, <1>2, <2>1, <2>2
  <2>3. CASE o # f
    BY <2>1, <2>3 DEF Counted
  <2> QED
    BY <2>2, <2>3
<1>4. /\ \A e \in reg.cache : e.key \in keys => e \in reg'.cache
      /\ \A o \in reg.objs : {o.src, o.dst} \subseteq keys => o \in reg'.objs
  <2> HIDE DEF keys
  <2> QED
    BY <1>1, <1>3, ReleaseKeeps
<1> QED
  BY <1>4 DEF HeldStays

LEMMA IterKeeps ==
    ASSUME RegInv(boxes, maps, fab, reg), NEW i \in Objects,
           NEW r, NEW d, NEW t, IterBegin(i, r, d, t)
    PROVE  HeldStays
<1> DEFINE x == WithKey(define(r, d, t))
           h == addThisBD(reg, x.bdkey)
<1>1. reg' = LookUp(h, "TileArray", x)
  BY DEF IterBegin
<1>2. RegOK(h) /\ h.cache = reg.cache /\ h.objs = reg.objs
  BY DEF addThisBD, RegInv, RegOK
<1> HIDE DEF x, h
<1>3. reg.cache \subseteq reg'.cache /\ reg'.objs = reg.objs
  BY <1>1, <1>2 DEF LookUp, RegOK
<1> QED
  BY <1>3 DEF HeldStays

LEMMA ObjectKeeps ==
    ASSUME RegInv(boxes, maps, fab, reg), ObjectStep
    PROVE  HeldStays
<1> USE DEF Objects
<1>1. CASE \E f \in FabArrays, r \in BARefs, d \in DMRefs, t \in Transformers :
             Define(f, r, d, t)
  BY <1>1, TakeKeeps DEF Define
<1>2. CASE \E s \in Objects : Clear(s)
  BY <1>2, ClearKeeps
<1>3. CASE \E f, h \in Objects : Move(f, h)
  BY <1>3, MoveKeeps
<1>4. CASE \E f \in FabArrays, n \in BARefs, b \in BoxLists : Shift(f, n, b)
  BY <1>4, TakeKeeps DEF Shift
<1>5. CASE \E l \in LayoutDatas, r \in BARefs, d \in DMRefs, t \in Transformers :
             LayoutDefine(l, r, d, t)
  BY <1>5, TakeKeeps DEF LayoutDefine, Define
<1>6. CASE \E l, h \in LayoutDatas : LayoutCopy(l, h)
  BY <1>6, TakeKeeps DEF LayoutCopy
<1>7. CASE \E i \in Iters, r \in BARefs, d \in DMRefs, t \in Transformers :
             IterBegin(i, r, d, t)
  BY <1>7, IterKeeps
<1> QED
  BY <1>1, <1>2, <1>3, <1>4, <1>5, <1>6, <1>7 DEF ObjectStep

\* Metadata an operation holds between its _nowait and its _finish is not deleted
\* while the arrays it is about exist, whatever is done to other objects.
THEOREM HeldKept == Spec => HeldMetadataStays
<1>1. IInv /\ [Next]_vars => HeldStays
  <2> SUFFICES ASSUME IInv, [Next]_vars PROVE HeldStays
    OBVIOUS
  <2>1. CASE ObjectStep
    BY <2>1, ObjectKeeps DEF IInv
  <2>2. CASE HeapStep
    BY <2>2 DEF HeapStep, MakeGrids, DropGrids, ModifyGrids, MakeMap, DropMap, HeldStays
  <2>3. CASE \E kind \in Single, s \in Objects : GetMetadata(kind, s)
    BY <2>3 DEF GetMetadata, HeldStays
  <2>4. CASE \E kind \in Pairwise, src, dst \in FabArrays : GetPairMetadata(kind, src, dst)
    BY <2>4 DEF GetPairMetadata, HeldStays
  <2>5. CASE Finalize
    BY <2>5 DEF Finalize, HeldStays
  <2>6. CASE Initialize
    BY <2>6 DEF Initialize, HeldStays
  <2>7. CASE UNCHANGED vars
    BY <2>7 DEF vars, HeldStays
  <2> QED
    BY <2>1, <2>2, <2>3, <2>4, <2>5, <2>6, <2>7 DEF Next
<1> QED
  BY <1>1, SpecInv, PTL DEF Spec, HeldMetadataStays
=============================================================================
