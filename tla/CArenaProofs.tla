---------------------------- MODULE CArenaProofs ----------------------------
(***************************************************************************)
(* Proofs about CArena, for any number of threads, any memory size and any *)
(* configuration of the arena.                                             *)
(***************************************************************************)
EXTENDS CArena, FiniteSetTheorems, WellFoundedInduction, TLAPS

----------------------------------------------------------------------------
(* Sums of sizes.                                                          *)

LEMMA UnitsFinite ==
  ASSUME NEW S, IsFiniteSet(S)
  PROVE  IsFiniteSet(Units(S))
<1>1. IsFiniteSet(Addr)
  BY FS_Interval, ArenaAssumption DEF Addr
<1>2. IsFiniteSet(S \X Addr)
  BY <1>1, FS_Product
<1> QED
  BY <1>2, FS_Subset DEF Units

\* A finite set of ranges has a total size.
LEMMA BytesNat ==
  ASSUME NEW S, IsFiniteSet(S)
  PROVE  Bytes(S) \in Nat
BY UnitsFinite, FS_CardinalityType DEF Bytes

\* One more range adds its size.
LEMMA BytesAdd ==
  ASSUME NEW S, IsFiniteSet(S), NEW r, r \notin S, r.size \in Addr
  PROVE  Bytes(S \cup {r}) = Bytes(S) + r.size
<1> DEFINE R == {r} \X (1..r.size)
           T == S \cup {r}
           K == Units(S) \cap R
           J == Units(S) \cup R
<1>1. r.size \in Nat
  BY ArenaAssumption DEF Addr
<1>2. IsFiniteSet(R) /\ Cardinality(R) = r.size
  <2> DEFINE P == {r}
             Q == 1..r.size
  <2>1. IsFiniteSet(Q) /\ Cardinality(Q) = r.size
    BY <1>1, FS_Interval
  <2>2. IsFiniteSet(P) /\ Cardinality(P) = 1
    BY FS_Singleton
  <2> HIDE DEF P, Q
  <2>3. IsFiniteSet(P \X Q) /\ Cardinality(P \X Q) = Cardinality(P) * Cardinality(Q)
    BY <2>1, <2>2, FS_Product
  <2>4. Cardinality(P \X Q) = r.size
    BY <1>1, <2>1, <2>2, <2>3
  <2> QED
    BY <2>3, <2>4 DEF P, Q
<1>3. Units(T) = J
  BY <1>1, ArenaAssumption DEF Units, Addr
<1>4. K = {}
  BY DEF Units
<1>5. Cardinality(K) = 0
  BY <1>4, FS_EmptySet
<1>6. IsFiniteSet(Units(S)) /\ Cardinality(Units(S)) \in Nat
  BY UnitsFinite, FS_CardinalityType
<1> HIDE DEF R
<1>7. Cardinality(J) = Cardinality(Units(S)) + Cardinality(R) - Cardinality(K)
  BY <1>2, <1>6, FS_Union
<1> HIDE DEF J, K, T
<1>8. Bytes(T) = Bytes(S) + r.size
  BY <1>1, <1>2, <1>3, <1>5, <1>6, <1>7 DEF Bytes
<1> QED
  BY <1>8 DEF T

\* Ranges that go take their sizes with them.
LEMMA BytesRemove ==
  ASSUME NEW S, IsFiniteSet(S), NEW T, T \subseteq S
  PROVE  Bytes(S \ T) = Bytes(S) - Bytes(T)
<1>1. IsFiniteSet(T)
  BY FS_Subset
<1>2. Units(S \ T) = Units(S) \ Units(T)
  BY DEF Units
<1>3. Units(S) \cap Units(T) = Units(T)
  BY DEF Units
<1> QED
  BY <1>1, <1>2, <1>3, UnitsFinite, FS_Difference DEF Bytes

LEMMA BytesOne ==
  ASSUME NEW r, r.size \in Addr
  PROVE  Bytes({r}) = r.size
<1>1. Units({}) = {}
  BY DEF Units
<1>2. Bytes({}) = 0
  BY <1>1, FS_EmptySet DEF Bytes
<1>3. r.size \in Nat
  BY ArenaAssumption DEF Addr
<1>4. Bytes({} \cup {r}) = Bytes({}) + r.size
  BY BytesAdd, FS_EmptySet
<1> QED
  BY <1>2, <1>3, <1>4
----------------------------------------------------------------------------
(* The memory invariant: what the lists of the arena always satisfy.       *)

ListsOK ==
  /\ m_alloc \subseteq Hunks /\ IsFiniteSet(m_alloc)
  /\ m_freelist \subseteq Nodes
  /\ m_busylist \subseteq Nodes /\ IsFiniteSet(m_busylist)
  /\ m_used \in Int /\ m_actually_used \in Int

HunksApart ==
  /\ \A h \in m_alloc : HunkEnd(h) <= MaxAddr + 1
  /\ \A g, h \in m_alloc : g # h => HunkEnd(g) <= h.base \/ HunkEnd(h) <= g.base

Memory == /\ ListsOK /\ HunksApart
          /\ BlocksInHunks /\ BlocksDisjoint /\ HunksTiled /\ Coalesced /\ Accounting

\* Nodes and hunks have integer fields.
LEMMA NodeFields ==
  ASSUME NEW n \in Nodes
  PROVE  /\ n = [block |-> n.block, owner |-> n.owner, size |-> n.size]
         /\ n.block \in Int /\ n.owner \in Int /\ n.size \in Int
         /\ n.block >= 1 /\ n.owner >= 1 /\ n.size >= 1
BY ArenaAssumption DEF Nodes, Addr

LEMMA HunkFields ==
  ASSUME NEW h \in Hunks
  PROVE  /\ h = [base |-> h.base, size |-> h.size]
         /\ h.base \in Int /\ h.size \in Int /\ h.base >= 1 /\ h.size >= 1
BY ArenaAssumption DEF Hunks, Addr

\* A node is made of integers in range.
LEMMA MakeNode ==
  ASSUME NEW a \in Int, NEW o \in Addr, NEW s \in Int,
         1 <= a, 1 <= s, a + s <= MaxAddr + 1
  PROVE  /\ [block |-> a, owner |-> o, size |-> s] \in Nodes
         /\ a \in Addr /\ s \in Addr
BY ArenaAssumption DEF Nodes, Addr

\* free: the block and its free neighbours become one free block.
LEMMA FreeBlockMemory ==
  ASSUME Memory, NEW b \in m_busylist, FreeBlock(b)
  PROVE  Memory'
<1>1. PICK lo \in m_freelist \cup {b}, hi \in m_freelist \cup {b} :
        /\ IF lo = b THEN \A f \in m_freelist : ~Below(f, b) ELSE Below(lo, b)
        /\ IF hi = b THEN \A f \in m_freelist : ~Below(b, f) ELSE Below(b, hi)
        /\ m_freelist' = (m_freelist \ {lo, hi})
             \cup {[block |-> lo.block, owner |-> b.owner, size |-> End(hi) - lo.block]}
  BY DEF FreeBlock, Coalesce
<1> DEFINE k == [block |-> lo.block, owner |-> b.owner, size |-> End(hi) - lo.block]
<1>2. /\ m_busylist' = m_busylist \ {b} /\ m_alloc' = m_alloc /\ m_used' = m_used
      /\ m_actually_used' = m_actually_used - b.size
  BY DEF FreeBlock
<1>3. b \in Nodes /\ lo \in Nodes /\ hi \in Nodes
  BY DEF Memory, ListsOK
<1>4. /\ b.block \in Int /\ b.owner \in Int /\ b.size \in Int /\ b.size >= 1 /\ b.block >= 1
      /\ lo.block \in Int /\ lo.owner \in Int /\ lo.size \in Int /\ lo.size >= 1 /\ lo.block >= 1
      /\ hi.block \in Int /\ hi.owner \in Int /\ hi.size \in Int /\ hi.size >= 1 /\ hi.block >= 1
  BY <1>3, NodeFields
<1>5. /\ lo = b \/ (lo \in m_freelist /\ End(lo) = b.block)
      /\ hi = b \/ (hi \in m_freelist /\ End(b) = hi.block)
      /\ lo.owner = b.owner /\ hi.owner = b.owner
  BY <1>1 DEF Below
<1>6. PICK h \in m_alloc : InHunk(b, h)
  BY DEF Memory, BlocksInHunks
<1>7. /\ h.base \in Int /\ h.size \in Int /\ h.size >= 1 /\ h.base >= 1
      /\ HunkEnd(h) <= MaxAddr + 1 /\ HunkEnd(h) \in Int
  BY HunkFields DEF Memory, ListsOK, HunksApart, HunkEnd
<1>8. \A n \in m_freelist \cup m_busylist : n.owner = h.base => InHunk(n, h)
  BY HunkFields DEF Memory, ListsOK, HunksApart, BlocksInHunks, InHunk, HunkEnd
<1>9. InHunk(lo, h) /\ InHunk(hi, h)
  BY <1>5, <1>6, <1>8 DEF InHunk
<1>10. /\ k.block = lo.block /\ k.owner = b.owner /\ End(k) = End(hi)
       /\ k.size = End(hi) - lo.block
  BY <1>4 DEF End
<1>11. lo.block <= b.block /\ End(b) <= End(hi)
  BY <1>4, <1>5 DEF End
<1>12. k \in Nodes /\ k.size \in Int /\ InHunk(k, h)
  <2>1. b.owner \in Addr
    BY <1>3 DEF Nodes
  <2>2. End(hi) - lo.block \in Int /\ 1 <= End(hi) - lo.block
    BY <1>4, <1>11 DEF End
  <2>3. lo.block + (End(hi) - lo.block) <= MaxAddr + 1
    BY <1>4, <1>7, <1>9, ArenaAssumption DEF InHunk, End
  <2>4. k \in Nodes
    BY <1>4, <2>1, <2>2, <2>3, MakeNode
  <2> QED
    BY <1>5, <1>6, <1>9, <1>10, <2>2, <2>4 DEF InHunk
<1> HIDE DEF k
<1> DEFINE Others == (m_freelist \ {lo, hi}) \cup (m_busylist \ {b})
<1>13. Others \subseteq Nodes
  BY DEF Memory, ListsOK
<1>14. \A f \in Others : Apart(f, k) /\ Apart(k, f)
  <2> TAKE f \in Others
  <2>1. f # b /\ f # lo /\ f # hi
    BY <1>5 DEF Memory, BlocksDisjoint
  <2>2. Apart(f, b) /\ Apart(f, lo) /\ Apart(f, hi)
    BY <1>5, <2>1 DEF Memory, BlocksDisjoint
  <2>3. f.block \in Int /\ f.size \in Int /\ f.size >= 1
    BY <1>13, NodeFields
  <2> QED
    BY <1>4, <1>5, <1>10, <2>2, <2>3 DEF Apart, End
<1>15. k \notin Others
  BY <1>4, <1>10, <1>11, <1>14 DEF Apart, End
<1>16. m_freelist' \cup m_busylist' = Others \cup {k}
  BY <1>1, <1>2 DEF k
<1>17. ListsOK'
  BY <1>1, <1>2, <1>4, <1>12, FS_RemoveElement DEF Memory, ListsOK, k
<1>18. HunksApart'
  BY <1>2 DEF Memory, HunksApart
<1>19. BlocksInHunks'
  BY <1>2, <1>12, <1>16 DEF Memory, BlocksInHunks
<1>20. BlocksDisjoint'
  BY <1>1, <1>2, <1>14, <1>15, <1>16 DEF Memory, BlocksDisjoint, k
<1>21. HunksTiled'
  <2> SUFFICES ASSUME NEW g \in m_alloc, NEW a \in g.base..(HunkEnd(g) - 1)
               PROVE  \E n \in Others \cup {k} : n.owner = g.base /\ n.block <= a /\ a < End(n)
    BY <1>2, <1>16 DEF HunksTiled
  <2>1. PICK n \in m_freelist \cup m_busylist : n.owner = g.base /\ n.block <= a /\ a < End(n)
    BY DEF Memory, HunksTiled
  <2>2. CASE n \in Others
    BY <2>1, <2>2
  <2>3. CASE n \notin Others
    <3>1. n = b \/ n = lo \/ n = hi
      BY <2>3
    <3>2. a \in Int
      BY HunkFields DEF Memory, ListsOK, HunkEnd
    <3>3. k.owner = g.base /\ k.block <= a /\ a < End(k)
      BY <1>4, <1>5, <1>10, <2>1, <3>1, <3>2 DEF End
    <3> QED
      BY <3>3
  <2> QED
    BY <2>2, <2>3
<1>22. Coalesced'
  <2> SUFFICES ASSUME NEW m \in (m_freelist \ {lo, hi}) \cup {k},
                      NEW n \in (m_freelist \ {lo, hi}) \cup {k},
                      End(m) = n.block, m.owner = n.owner
               PROVE  FALSE
    BY <1>1 DEF Coalesced, Below, k
  <2>1. CASE m = k /\ n = k
    BY <1>10, <1>12, <1>4, <1>11, <2>1 DEF End
  <2>2. CASE m # k /\ n # k
    BY <2>2 DEF Memory, Coalesced, Below
  <2>3. CASE m # k /\ n = k
    <3>1. Below(m, lo)
      BY <1>5, <1>10, <2>3 DEF Below
    <3> QED
      BY <1>1, <2>3, <3>1 DEF Memory, Coalesced
  <2>4. CASE m = k /\ n # k
    <3>1. Below(hi, n)
      BY <1>5, <1>10, <2>4 DEF Below
    <3> QED
      BY <1>1, <2>4, <3>1 DEF Memory, Coalesced
  <2> QED
    BY <2>1, <2>2, <2>3, <2>4
<1>23. Accounting'
  <2>1. Bytes(m_busylist \ {b}) = Bytes(m_busylist) - Bytes({b})
    BY BytesRemove DEF Memory, ListsOK
  <2>2. Bytes({b}) = b.size
    BY <1>3, BytesOne DEF Nodes
  <2> QED
    BY <1>2, <2>1, <2>2 DEF Memory, Accounting
<1> QED
  BY <1>17, <1>18, <1>19, <1>20, <1>21, <1>22, <1>23 DEF Memory

\* freeUnused_protected: whole free hunks leave the arena.
LEMMA FreeUnusedMemory ==
  ASSUME Memory, NEW gone, gone = {h \in m_alloc : Freeable(h)},
         m_alloc' = m_alloc \ gone,
         m_freelist' = m_freelist \ {WholeHunk(h) : h \in gone},
         m_used' = m_used - Bytes(gone),
         UNCHANGED <<m_busylist, m_actually_used>>
  PROVE  Memory'
<1>1. gone \subseteq m_alloc /\ \A h \in gone : WholeHunk(h) \in m_freelist
  BY DEF Freeable
<1>2. ListsOK'
  BY BytesNat, FS_Subset, <1>1 DEF Memory, ListsOK
<1>3. HunksApart'
  BY DEF Memory, HunksApart
<1>4. \A h \in m_alloc : h.base \in Int /\ h.size \in Int /\ h.size >= 1
  BY HunkFields DEF Memory, ListsOK
<1>5. \A n \in m_freelist \cup m_busylist :
         n.block \in Int /\ n.owner \in Int /\ n.size \in Int /\ n.size >= 1
  BY NodeFields DEF Memory, ListsOK
<1>6. \A g, h \in m_alloc : g.base = h.base => g = h
  BY <1>4 DEF Memory, HunksApart, HunkEnd
<1>7. \A n \in (m_freelist \cup m_busylist)' : \A h \in gone : n.owner # h.base
  <2> SUFFICES ASSUME NEW n \in (m_freelist \cup m_busylist)', NEW h \in gone, n.owner = h.base
               PROVE  FALSE
    OBVIOUS
  <2>1. n \in m_freelist \cup m_busylist /\ n # WholeHunk(h)
    BY <1>1 DEF Memory, BlocksDisjoint
  <2>2. InHunk(n, h)
    BY <1>1, <1>6, <2>1 DEF Memory, BlocksInHunks, InHunk
  <2>3. Apart(n, WholeHunk(h))
    BY <1>1, <2>1 DEF Memory, BlocksDisjoint
  <2> QED
    BY <1>1, <1>4, <1>5, <2>1, <2>2, <2>3 DEF Apart, InHunk, WholeHunk, End, HunkEnd
<1>8. BlocksInHunks'
  BY <1>7 DEF Memory, BlocksInHunks, InHunk
<1>9. BlocksDisjoint'
  BY DEF Memory, BlocksDisjoint
<1>10. HunksTiled'
  <2> SUFFICES ASSUME NEW g \in m_alloc \ gone, NEW a \in g.base..(HunkEnd(g) - 1)
               PROVE  \E n \in (m_freelist \cup m_busylist)' :
                        n.owner = g.base /\ n.block <= a /\ a < End(n)
    BY DEF HunksTiled
  <2>1. PICK n \in m_freelist \cup m_busylist : n.owner = g.base /\ n.block <= a /\ a < End(n)
    BY DEF Memory, HunksTiled
  <2>2. n \notin {WholeHunk(h) : h \in gone}
    BY <1>1, <1>6, <2>1 DEF WholeHunk
  <2> QED
    BY <2>1, <2>2
<1>11. Coalesced'
  BY DEF Memory, Coalesced
<1>12. Accounting'
  BY <1>1, BytesRemove DEF Memory, ListsOK, Accounting
<1> QED
  BY <1>2, <1>3, <1>8, <1>9, <1>10, <1>11, <1>12 DEF Memory

\* A block is split off the low end of a free block.
LEMMA FoundMemory ==
  ASSUME Memory, NEW n \in Nat \ {0}, NEW f \in m_freelist, f.size >= n,
         m_busylist' = m_busylist \cup {Taken(f, n)},
         m_freelist' = (m_freelist \ {f}) \cup Rest(f, n),
         m_actually_used' = m_actually_used + n,
         UNCHANGED <<m_alloc, m_used>>
  PROVE  Memory'
<1> DEFINE k == [block |-> f.block, owner |-> f.owner, size |-> n]
           r == [block |-> f.block + n, owner |-> f.owner, size |-> f.size - n]
           Others == (m_freelist \ {f}) \cup m_busylist
<1>1. /\ m_busylist' = m_busylist \cup {k}
      /\ m_freelist' = (m_freelist \ {f}) \cup (IF f.size > n THEN {r} ELSE {})
  BY DEF Taken, Rest
<1>2. f \in Nodes /\ f.block \in Int /\ f.owner \in Addr /\ f.size \in Int /\ f.block >= 1
  BY NodeFields DEF Memory, ListsOK, Nodes
<1>3. PICK h \in m_alloc : InHunk(f, h)
  BY DEF Memory, BlocksInHunks
<1>4. h.base \in Int /\ HunkEnd(h) \in Int /\ HunkEnd(h) <= MaxAddr + 1
  BY HunkFields DEF Memory, ListsOK, HunksApart, HunkEnd
<1>5. f.block + f.size <= MaxAddr + 1
  BY <1>2, <1>3, <1>4, ArenaAssumption DEF InHunk, End
<1>6. /\ k \in Nodes /\ k.size \in Addr /\ InHunk(k, h)
      /\ k.block = f.block /\ k.owner = f.owner /\ k.size = n /\ End(k) = f.block + n
  <2>1. k \in Nodes /\ n \in Addr
    BY <1>2, <1>5, MakeNode, ArenaAssumption DEF Addr
  <2> QED
    BY <1>2, <1>3, <1>4, <2>1 DEF InHunk, End
<1>7. ASSUME f.size > n
      PROVE  /\ r \in Nodes /\ InHunk(r, h)
             /\ r.block = f.block + n /\ r.owner = f.owner /\ End(r) = End(f)
  <2>1. r \in Nodes
    BY <1>2, <1>5, <1>7, MakeNode
  <2> QED
    BY <1>2, <1>3, <1>4, <2>1, <1>7 DEF InHunk, End
<1> HIDE DEF k, r
<1>8. \A g \in Others : g \in Nodes /\ g.block \in Int /\ g.size \in Int /\ g.size >= 1
  BY NodeFields DEF Memory, ListsOK
<1>9. \A g \in Others : Apart(g, f) /\ Apart(f, g)
  BY DEF Memory, BlocksDisjoint
<1>10. \A g \in Others : Apart(g, k) /\ Apart(k, g) /\ g # k
  BY <1>2, <1>6, <1>8, <1>9 DEF Apart, End
<1>11. ASSUME f.size > n
       PROVE  /\ \A g \in Others : Apart(g, r) /\ Apart(r, g) /\ g # r
              /\ Apart(r, k) /\ Apart(k, r) /\ r # k
  BY <1>2, <1>6, <1>7, <1>8, <1>9, <1>11 DEF Apart, End
<1>12. ListsOK'
  BY <1>1, <1>2, <1>6, <1>7, FS_AddElement DEF Memory, ListsOK
<1>13. HunksApart'
  BY DEF Memory, HunksApart
<1>14. BlocksInHunks'
  BY <1>1, <1>6, <1>7 DEF Memory, BlocksInHunks
<1>15. BlocksDisjoint'
  <2>1. \A m, q \in Others : m # q => Apart(m, q)
    BY DEF Memory, BlocksDisjoint
  <2>2. (m_freelist \ {f}) \cap m_busylist = {}
    BY DEF Memory, BlocksDisjoint
  <2> QED
    BY <1>1, <1>10, <1>11, <2>1, <2>2 DEF BlocksDisjoint
<1>16. HunksTiled'
  <2> SUFFICES ASSUME NEW g \in m_alloc, NEW a \in g.base..(HunkEnd(g) - 1)
               PROVE  \E m \in (m_freelist \cup m_busylist)' :
                        m.owner = g.base /\ m.block <= a /\ a < End(m)
    BY DEF HunksTiled
  <2>1. PICK m \in m_freelist \cup m_busylist : m.owner = g.base /\ m.block <= a /\ a < End(m)
    BY DEF Memory, HunksTiled
  <2>2. CASE m # f
    BY <1>1, <2>1, <2>2
  <2>3. CASE m = f
    <3>1. a \in Int
      BY HunkFields DEF Memory, ListsOK, HunkEnd
    <3>2. CASE a < f.block + n
      BY <1>1, <1>6, <2>1, <2>3, <3>2
    <3>3. CASE a >= f.block + n
      <4>1. f.size > n
        BY <1>2, <2>1, <2>3, <3>1, <3>3 DEF End
      <4> QED
        BY <1>1, <1>7, <2>1, <2>3, <3>3, <4>1
    <3> QED
      BY <1>2, <3>1, <3>2, <3>3
  <2> QED
    BY <2>2, <2>3
<1>17. Coalesced'
  <2> SUFFICES ASSUME NEW m \in m_freelist', NEW q \in m_freelist',
                      End(m) = q.block, m.owner = q.owner
               PROVE  FALSE
    BY DEF Coalesced, Below
  <2>1. CASE m \in m_freelist \ {f} /\ q \in m_freelist \ {f}
    BY <2>1 DEF Memory, Coalesced, Below
  <2>2. CASE f.size > n /\ m = r /\ q \in m_freelist \ {f}
    BY <1>7, <2>2 DEF Memory, Coalesced, Below
  <2>3. CASE f.size > n /\ q = r /\ m \in m_freelist \ {f}
    BY <1>2, <1>7, <1>8, <1>9, <2>3 DEF Apart, End
  <2>4. CASE f.size > n /\ m = r /\ q = r
    BY <1>2, <1>7, <2>4 DEF End
  <2> QED
    BY <1>1, <2>1, <2>2, <2>3, <2>4
<1>18. Accounting'
  <2>1. Bytes(m_busylist \cup {k}) = Bytes(m_busylist) + k.size
    BY <1>6, <1>10, BytesAdd DEF Memory, ListsOK
  <2> QED
    BY <1>1, <1>6, <2>1 DEF Memory, Accounting
<1> QED
  BY <1>12, <1>13, <1>14, <1>15, <1>16, <1>17, <1>18 DEF Memory

\* A new hunk: its first n units are handed out, the rest is free.
LEMMA NewHunkMemory ==
  ASSUME Memory, NEW h \in Hunks, NEW n \in Nat \ {0}, n <= h.size,
         HunkEnd(h) <= MaxAddr + 1,
         \A g \in m_alloc : HunkEnd(h) <= g.base \/ HunkEnd(g) <= h.base,
         m_used' = m_used + h.size,
         m_alloc' = m_alloc \cup {h},
         m_freelist' = m_freelist \cup Rest(WholeHunk(h), n),
         m_busylist' = m_busylist \cup {Taken(WholeHunk(h), n)},
         m_actually_used' = m_actually_used + n
  PROVE  Memory'
<1> DEFINE k == [block |-> h.base, owner |-> h.base, size |-> n]
           r == [block |-> h.base + n, owner |-> h.base, size |-> h.size - n]
           Old == m_freelist \cup m_busylist
<1>1. /\ m_busylist' = m_busylist \cup {k}
      /\ m_freelist' = m_freelist \cup (IF h.size > n THEN {r} ELSE {})
  BY DEF Taken, Rest, WholeHunk
<1>2. h.base \in Addr /\ h.size \in Addr /\ h.base \in Int /\ h.size \in Int /\ h.base >= 1
  BY HunkFields DEF Hunks
<1>3. h.base + h.size <= MaxAddr + 1
  BY <1>2 DEF HunkEnd
<1>4. /\ k \in Nodes /\ k.size \in Addr /\ InHunk(k, h)
      /\ k.block = h.base /\ k.owner = h.base /\ k.size = n /\ End(k) = h.base + n
  <2>1. k \in Nodes /\ n \in Addr
    BY <1>2, <1>3, MakeNode, ArenaAssumption DEF Addr
  <2> QED
    BY <1>2, <1>3, <2>1 DEF InHunk, End, HunkEnd
<1>5. ASSUME h.size > n
      PROVE  /\ r \in Nodes /\ InHunk(r, h)
             /\ r.block = h.base + n /\ r.owner = h.base /\ End(r) = HunkEnd(h)
  <2>1. r \in Nodes
    BY <1>2, <1>3, <1>5, MakeNode
  <2> QED
    BY <1>2, <1>3, <2>1, <1>5 DEF InHunk, End, HunkEnd
<1> HIDE DEF k, r
<1>6. \A g \in m_alloc : /\ g.base \in Int /\ g.size \in Int /\ g.size >= 1
                         /\ g # h /\ g.base # h.base
  BY <1>2, HunkFields DEF Memory, ListsOK, HunkEnd
<1>7. \A m \in Old : /\ m \in Nodes /\ m.block \in Int /\ m.size \in Int /\ m.size >= 1
                     /\ m.owner # h.base
                     /\ End(m) <= h.base \/ HunkEnd(h) <= m.block
  <2> SUFFICES ASSUME NEW m \in Old
               PROVE  /\ m \in Nodes /\ m.block \in Int /\ m.size \in Int /\ m.size >= 1
                      /\ m.owner # h.base
                      /\ End(m) <= h.base \/ HunkEnd(h) <= m.block
    OBVIOUS
  <2>1. m \in Nodes /\ m.block \in Int /\ m.size \in Int /\ m.size >= 1
    BY NodeFields DEF Memory, ListsOK
  <2>2. PICK g \in m_alloc : InHunk(m, g)
    BY DEF Memory, BlocksInHunks
  <2> QED
    BY <1>2, <1>6, <2>1, <2>2 DEF InHunk, End, HunkEnd
<1>8. \A m \in Old : Apart(m, k) /\ Apart(k, m) /\ m # k
  BY <1>2, <1>4, <1>7 DEF Apart, End, HunkEnd
<1>9. ASSUME h.size > n
      PROVE  /\ \A m \in Old : Apart(m, r) /\ Apart(r, m) /\ m # r
             /\ Apart(r, k) /\ Apart(k, r) /\ r # k
  BY <1>2, <1>4, <1>5, <1>7, <1>9 DEF Apart, End, HunkEnd
<1>10. ListsOK'
  BY <1>1, <1>2, <1>4, <1>5, FS_AddElement DEF Memory, ListsOK
<1>11. HunksApart'
  BY DEF Memory, HunksApart
<1>12. BlocksInHunks'
  BY <1>1, <1>4, <1>5 DEF Memory, BlocksInHunks
<1>13. BlocksDisjoint'
  BY <1>1, <1>8, <1>9 DEF Memory, BlocksDisjoint
<1>14. HunksTiled'
  <2> SUFFICES ASSUME NEW g \in m_alloc \cup {h}, NEW a \in g.base..(HunkEnd(g) - 1)
               PROVE  \E m \in (m_freelist \cup m_busylist)' :
                        m.owner = g.base /\ m.block <= a /\ a < End(m)
    BY DEF HunksTiled
  <2>1. CASE g \in m_alloc
    <3>1. PICK m \in Old : m.owner = g.base /\ m.block <= a /\ a < End(m)
      BY <2>1 DEF Memory, HunksTiled
    <3> QED
      BY <1>1, <3>1
  <2>2. CASE g = h
    <3>1. a \in Int /\ h.base <= a /\ a < HunkEnd(h)
      BY <1>2, <2>2 DEF HunkEnd
    <3>2. CASE a < h.base + n
      BY <1>1, <1>4, <2>2, <3>1, <3>2
    <3>3. CASE a >= h.base + n
      <4>1. h.size > n
        BY <1>2, <3>1, <3>3 DEF HunkEnd
      <4> QED
        BY <1>1, <1>5, <2>2, <3>1, <3>3, <4>1
    <3> QED
      BY <1>2, <3>1, <3>2, <3>3
  <2> QED
    BY <2>1, <2>2
<1>15. Coalesced'
  <2> SUFFICES ASSUME NEW m \in m_freelist', NEW q \in m_freelist',
                      End(m) = q.block, m.owner = q.owner
               PROVE  FALSE
    BY DEF Coalesced, Below
  <2>1. CASE m \in m_freelist /\ q \in m_freelist
    BY <2>1 DEF Memory, Coalesced, Below
  <2>2. CASE h.size > n /\ m = r /\ q = r
    BY <1>2, <1>5, <2>2 DEF HunkEnd
  <2> QED
    BY <1>1, <1>5, <1>7, <2>1, <2>2
<1>16. Accounting'
  <2>1. Bytes(m_busylist \cup {k}) = Bytes(m_busylist) + k.size
    BY <1>4, <1>8, BytesAdd DEF Memory, ListsOK
  <2>2. Bytes(m_alloc \cup {h}) = Bytes(m_alloc) + h.size
    BY <1>2, <1>6, BytesAdd DEF Memory, ListsOK
  <2> QED
    BY <1>1, <1>4, <2>1, <2>2 DEF Memory, Accounting
<1> QED
  BY <1>10, <1>11, <1>12, <1>13, <1>14, <1>15, <1>16 DEF Memory

\* shrink_in_place: the tail of a block becomes free, with its free neighbour.
LEMMA ShrinkMemory ==
  ASSUME Memory, NEW b \in m_busylist, NEW n \in Nat \ {0}, n < b.size,
         NEW hi \in m_freelist \cup {b},
         IF hi = b THEN \A f \in m_freelist : ~Below(b, f) ELSE Below(b, hi),
         m_freelist' = (m_freelist \ {hi})
            \cup {[block |-> b.block + n, owner |-> b.owner, size |-> End(hi) - (b.block + n)]},
         m_busylist' = (m_busylist \ {b}) \cup {Taken(b, n)},
         m_actually_used' = m_actually_used - (b.size - n),
         UNCHANGED <<m_alloc, m_used>>
  PROVE  Memory'
<1> DEFINE k == [block |-> b.block, owner |-> b.owner, size |-> n]
           r == [block |-> b.block + n, owner |-> b.owner, size |-> End(hi) - (b.block + n)]
           Others == (m_freelist \ {hi}) \cup (m_busylist \ {b})
<1>1. /\ m_busylist' = (m_busylist \ {b}) \cup {k}
      /\ m_freelist' = (m_freelist \ {hi}) \cup {r}
  BY DEF Taken
<1>2. /\ b \in Nodes /\ b.block \in Int /\ b.owner \in Addr /\ b.size \in Int /\ b.block >= 1
      /\ hi \in Nodes /\ hi.block \in Int /\ hi.size \in Int /\ hi.size >= 1
  BY NodeFields DEF Memory, ListsOK, Nodes
<1>3. /\ hi = b \/ (hi \in m_freelist /\ hi # b /\ End(b) = hi.block)
      /\ hi.owner = b.owner
  BY DEF Below
<1>4. PICK h \in m_alloc : InHunk(b, h)
  BY DEF Memory, BlocksInHunks
<1>5. /\ h.base \in Int /\ HunkEnd(h) \in Int /\ HunkEnd(h) <= MaxAddr + 1
      /\ \A m \in m_freelist \cup m_busylist : m.owner = h.base => InHunk(m, h)
  BY HunkFields DEF Memory, ListsOK, HunksApart, BlocksInHunks, InHunk, HunkEnd
<1>6. InHunk(hi, h) /\ End(b) <= End(hi) /\ End(hi) \in Int /\ End(b) \in Int
  BY <1>2, <1>3, <1>4, <1>5 DEF InHunk, End
<1>7. /\ k \in Nodes /\ k.size \in Addr /\ b.size \in Addr /\ InHunk(k, h)
      /\ k.block = b.block /\ k.owner = b.owner /\ k.size = n /\ End(k) = b.block + n
  <2>1. b.block + b.size <= MaxAddr + 1
    BY <1>2, <1>4, <1>5, ArenaAssumption DEF InHunk, End
  <2>2. k \in Nodes /\ n \in Addr /\ b.size \in Addr
    BY <1>2, <2>1, MakeNode, ArenaAssumption DEF Addr
  <2> QED
    BY <1>2, <1>4, <1>5, <2>2 DEF InHunk, End
<1>8. /\ r \in Nodes /\ InHunk(r, h)
      /\ r.block = b.block + n /\ r.owner = b.owner /\ End(r) = End(hi)
      /\ r.size \in Int /\ r.size >= 1
  <2>1. b.block + n \in Int /\ End(hi) - (b.block + n) \in Int /\ 1 <= End(hi) - (b.block + n)
        /\ (b.block + n) + (End(hi) - (b.block + n)) <= MaxAddr + 1
    BY <1>2, <1>5, <1>6, ArenaAssumption DEF InHunk, End
  <2>2. r \in Nodes
    BY <1>2, <2>1, MakeNode
  <2> QED
    BY <1>2, <1>3, <1>4, <1>5, <1>6, <2>1, <2>2 DEF InHunk, End
<1> HIDE DEF k, r
<1>9. \A g \in Others : /\ g \in Nodes /\ g.block \in Int /\ g.size \in Int /\ g.size >= 1
                        /\ Apart(g, b) /\ Apart(g, hi) /\ g # b /\ g # hi
  BY <1>3, NodeFields DEF Memory, ListsOK, BlocksDisjoint
<1>10. \A g \in Others : Apart(g, k) /\ Apart(k, g) /\ g # k
  BY <1>2, <1>7, <1>9 DEF Apart, End
<1>11. /\ \A g \in Others : Apart(g, r) /\ Apart(r, g) /\ g # r
       /\ Apart(r, k) /\ Apart(k, r) /\ r # k
  BY <1>2, <1>3, <1>6, <1>7, <1>8, <1>9 DEF Apart, End
<1>12. ListsOK'
  <2> DEFINE B == m_busylist \ {b}
  <2>1. IsFiniteSet(B)
    BY FS_RemoveElement DEF Memory, ListsOK
  <2> HIDE DEF B
  <2>2. IsFiniteSet(B \cup {k})
    BY <2>1, FS_AddElement
  <2>3. IsFiniteSet(m_busylist')
    BY <1>1, <2>2 DEF B
  <2> QED
    BY <1>1, <1>2, <1>7, <1>8, <2>3 DEF Memory, ListsOK
<1>13. HunksApart'
  BY DEF Memory, HunksApart
<1>14. (m_freelist \cup m_busylist)' = Others \cup {k, r}
  BY <1>1, <1>3
<1>15. BlocksInHunks'
  BY <1>7, <1>8, <1>14 DEF Memory, BlocksInHunks
<1>16. BlocksDisjoint'
  <2>1. (m_freelist \ {hi}) \cap (m_busylist \ {b}) = {}
    BY DEF Memory, BlocksDisjoint
  <2>2. \A m, q \in Others : m # q => Apart(m, q)
    BY DEF Memory, BlocksDisjoint
  <2> QED
    BY <1>1, <1>10, <1>11, <1>14, <2>1, <2>2 DEF BlocksDisjoint
<1>17. HunksTiled'
  <2> SUFFICES ASSUME NEW g \in m_alloc, NEW a \in g.base..(HunkEnd(g) - 1)
               PROVE  \E m \in Others \cup {k, r} :
                        m.owner = g.base /\ m.block <= a /\ a < End(m)
    BY <1>14 DEF HunksTiled
  <2>1. PICK m \in m_freelist \cup m_busylist : m.owner = g.base /\ m.block <= a /\ a < End(m)
    BY DEF Memory, HunksTiled
  <2>2. CASE m \in Others
    BY <2>1, <2>2
  <2>3. CASE m \notin Others
    <3>1. m = b \/ m = hi
      BY <2>3
    <3>2. a \in Int
      BY HunkFields DEF Memory, ListsOK, HunkEnd
    <3>3. CASE a < b.block + n
      BY <1>2, <1>3, <1>7, <2>1, <3>1, <3>2, <3>3 DEF End
    <3>4. CASE a >= b.block + n
      BY <1>2, <1>3, <1>6, <1>8, <2>1, <3>1, <3>2, <3>4 DEF End
    <3> QED
      BY <1>2, <3>2, <3>3, <3>4
  <2> QED
    BY <2>2, <2>3
<1>18. Coalesced'
  <2> SUFFICES ASSUME NEW m \in m_freelist', NEW q \in m_freelist',
                      End(m) = q.block, m.owner = q.owner
               PROVE  FALSE
    BY DEF Coalesced, Below
  <2>1. CASE m \in m_freelist \ {hi} /\ q \in m_freelist \ {hi}
    BY <2>1 DEF Memory, Coalesced, Below
  <2>2. CASE m = r /\ q \in m_freelist \ {hi}
    <3>1. Below(hi, q)
      BY <1>3, <1>8, <2>2 DEF Below
    <3> QED
      BY <1>3, <2>2, <3>1 DEF Memory, Coalesced
  <2>3. CASE q = r /\ m \in m_freelist \ {hi}
    <3>1. m \in Others
      BY <2>3
    <3> QED
      BY <1>2, <1>8, <1>9, <2>3, <3>1 DEF Apart, End
  <2>4. CASE m = r /\ q = r
    BY <1>2, <1>8, <2>4 DEF End
  <2> QED
    BY <1>1, <2>1, <2>2, <2>3, <2>4
<1>19. Accounting'
  <2> DEFINE B == m_busylist \ {b}
  <2>1. Bytes(B) = Bytes(m_busylist) - Bytes({b})
    BY BytesRemove DEF Memory, ListsOK
  <2>2. Bytes({b}) = b.size
    BY <1>7, BytesOne
  <2>3. IsFiniteSet(B) /\ k \notin B
    BY <1>10, FS_RemoveElement DEF Memory, ListsOK
  <2>4. m_busylist' = B \cup {k}
    BY <1>1
  <2> HIDE DEF B
  <2>5. Bytes(B \cup {k}) = Bytes(B) + k.size
    BY <1>7, <2>3, BytesAdd
  <2>6. Bytes(m_busylist) \in Int /\ Bytes(B) \in Int
    BY <2>3, BytesNat DEF Memory, ListsOK
  <2>7. Bytes(m_busylist') = Bytes(m_busylist) - b.size + n
    BY <1>2, <1>7, <2>1, <2>2, <2>4, <2>5, <2>6
  <2>8. m_actually_used = Bytes(m_busylist) /\ m_used = Bytes(m_alloc)
    BY DEF Memory, Accounting
  <2> QED
    BY <1>2, <2>6, <2>7, <2>8 DEF Accounting
<1> QED
  BY <1>12, <1>13, <1>15, <1>16, <1>17, <1>18, <1>19 DEF Memory

\* alloc_in_place: a block grows into the free block above it.
LEMMA GrowMemory ==
  ASSUME Memory, NEW b \in m_busylist, NEW f \in m_freelist, Below(b, f),
         NEW s \in Int, b.size < s, s <= b.size + f.size,
         m_freelist' = (m_freelist \ {f}) \cup Rest(Taken(b, b.size + f.size), s),
         m_busylist' = (m_busylist \ {b}) \cup {Taken(b, s)},
         m_actually_used' = m_actually_used + (s - b.size),
         UNCHANGED <<m_alloc, m_used>>
  PROVE  Memory'
<1> DEFINE k == [block |-> b.block, owner |-> b.owner, size |-> s]
           r == [block |-> b.block + s, owner |-> b.owner, size |-> b.size + f.size - s]
           Others == (m_freelist \ {f}) \cup (m_busylist \ {b})
<1>1. /\ m_busylist' = (m_busylist \ {b}) \cup {k}
      /\ m_freelist' = (m_freelist \ {f}) \cup (IF b.size + f.size > s THEN {r} ELSE {})
  <2> DEFINE w == Taken(b, b.size + f.size)
  <2>1. w.block = b.block /\ w.owner = b.owner /\ w.size = b.size + f.size
    BY DEF Taken
  <2>2. b.block \in Int /\ b.size \in Int /\ f.size \in Int
    BY NodeFields DEF Memory, ListsOK
  <2> HIDE DEF w
  <2>3. Rest(w, s) = IF b.size + f.size > s THEN {r} ELSE {}
    <3>1. CASE w.size > s
      <4>1. Rest(w, s) = {[block |-> w.block + s, owner |-> w.owner, size |-> w.size - s]}
        BY <3>1 DEF Rest
      <4>2. w.block + s = b.block + s /\ w.size - s = b.size + f.size - s
        BY <2>1, <2>2
      <4>3. [block |-> w.block + s, owner |-> w.owner, size |-> w.size - s] = r
        BY <2>1, <4>2
      <4> HIDE DEF r
      <4> QED
        BY <2>1, <3>1, <4>1, <4>3
    <3>2. CASE ~(w.size > s)
      BY <2>1, <3>2 DEF Rest
    <3> QED
      BY <3>1, <3>2
  <2> QED
    BY <2>3 DEF Taken, w
<1>2. /\ b \in Nodes /\ b.block \in Int /\ b.owner \in Addr /\ b.size \in Int
      /\ b.block >= 1 /\ b.size >= 1
      /\ f \in Nodes /\ f.block \in Int /\ f.size \in Int /\ f.size >= 1
  BY NodeFields DEF Memory, ListsOK, Nodes
<1>3. f.block = b.block + b.size /\ f.owner = b.owner /\ f # b
  BY DEF Below, End, Memory, BlocksDisjoint
<1>4. PICK h \in m_alloc : InHunk(b, h)
  BY DEF Memory, BlocksInHunks
<1>5. /\ h.base \in Int /\ HunkEnd(h) \in Int /\ HunkEnd(h) <= MaxAddr + 1
      /\ \A m \in m_freelist \cup m_busylist : m.owner = h.base => InHunk(m, h)
  BY HunkFields DEF Memory, ListsOK, HunksApart, BlocksInHunks, InHunk, HunkEnd
<1>6. InHunk(f, h)
  BY <1>3, <1>4, <1>5 DEF InHunk
<1>7. b.block + b.size + f.size <= HunkEnd(h)
  BY <1>2, <1>3, <1>6 DEF InHunk, End
<1>8. /\ k \in Nodes /\ k.size \in Addr /\ b.size \in Addr /\ InHunk(k, h)
      /\ k.block = b.block /\ k.owner = b.owner /\ k.size = s /\ End(k) = b.block + s
  <2>1. b.block + s <= MaxAddr + 1 /\ 1 <= s /\ s \in Addr /\ b.size \in Addr
    BY <1>2, <1>5, <1>7, ArenaAssumption DEF Addr
  <2>2. k \in Nodes
    BY <1>2, <2>1, MakeNode
  <2> QED
    BY <1>2, <1>4, <1>5, <1>7, <2>1, <2>2 DEF InHunk, End
<1>9. ASSUME b.size + f.size > s
      PROVE  /\ r \in Nodes /\ InHunk(r, h)
             /\ r.block = b.block + s /\ r.owner = b.owner /\ End(r) = End(f)
             /\ r.size \in Int /\ r.size >= 1
  <2>1. /\ b.block + s \in Int /\ b.size + f.size - s \in Int /\ 1 <= b.size + f.size - s
        /\ (b.block + s) + (b.size + f.size - s) <= MaxAddr + 1 /\ 1 <= b.block + s
    BY <1>2, <1>5, <1>7, <1>9, ArenaAssumption
  <2>2. r \in Nodes
    BY <1>2, <2>1, MakeNode
  <2> QED
    BY <1>2, <1>3, <1>4, <1>5, <1>7, <2>1, <2>2 DEF InHunk, End
<1> HIDE DEF k, r
<1>10. \A g \in Others : /\ g \in Nodes /\ g.block \in Int /\ g.size \in Int /\ g.size >= 1
                         /\ Apart(g, b) /\ Apart(g, f) /\ g # b /\ g # f
  BY NodeFields DEF Memory, ListsOK, BlocksDisjoint
<1>11. \A g \in Others : Apart(g, k) /\ Apart(k, g) /\ g # k
  BY <1>2, <1>3, <1>8, <1>10 DEF Apart, End
<1>12. ASSUME b.size + f.size > s
       PROVE  /\ \A g \in Others : Apart(g, r) /\ Apart(r, g) /\ g # r
              /\ Apart(r, k) /\ Apart(k, r) /\ r # k
  BY <1>2, <1>3, <1>8, <1>9, <1>10, <1>12 DEF Apart, End
<1>13. ListsOK'
  <2> DEFINE B == m_busylist \ {b}
  <2>1. IsFiniteSet(B)
    BY FS_RemoveElement DEF Memory, ListsOK
  <2> HIDE DEF B
  <2>2. IsFiniteSet(B \cup {k})
    BY <2>1, FS_AddElement
  <2>3. IsFiniteSet(m_busylist')
    BY <1>1, <2>2 DEF B
  <2> QED
    BY <1>1, <1>2, <1>8, <1>9, <2>3 DEF Memory, ListsOK
<1>14. HunksApart'
  BY DEF Memory, HunksApart
<1>15. BlocksInHunks'
  BY <1>1, <1>8, <1>9 DEF Memory, BlocksInHunks
<1>16. BlocksDisjoint'
  <2>1. (m_freelist \ {f}) \cap (m_busylist \ {b}) = {}
    BY DEF Memory, BlocksDisjoint
  <2>2. \A m, q \in Others : m # q => Apart(m, q)
    BY DEF Memory, BlocksDisjoint
  <2> QED
    BY <1>1, <1>11, <1>12, <2>1, <2>2 DEF BlocksDisjoint
<1>17. HunksTiled'
  <2> SUFFICES ASSUME NEW g \in m_alloc, NEW a \in g.base..(HunkEnd(g) - 1)
               PROVE  \E m \in (m_freelist \cup m_busylist)' :
                        m.owner = g.base /\ m.block <= a /\ a < End(m)
    BY DEF HunksTiled
  <2>1. PICK m \in m_freelist \cup m_busylist : m.owner = g.base /\ m.block <= a /\ a < End(m)
    BY DEF Memory, HunksTiled
  <2>2. CASE m \in Others
    BY <1>1, <2>1, <2>2
  <2>3. CASE m \notin Others
    <3>1. m = b \/ m = f
      BY <2>3
    <3>2. a \in Int
      BY HunkFields DEF Memory, ListsOK, HunkEnd
    <3>3. CASE a < b.block + s
      BY <1>1, <1>2, <1>3, <1>8, <2>1, <3>1, <3>2, <3>3 DEF End
    <3>4. CASE a >= b.block + s
      <4>1. m = f /\ b.size + f.size > s
        BY <1>2, <1>3, <2>1, <3>1, <3>2, <3>4 DEF End
      <4> QED
        BY <1>1, <1>3, <1>9, <2>1, <3>4, <4>1
    <3> QED
      BY <1>2, <3>2, <3>3, <3>4
  <2> QED
    BY <2>2, <2>3
<1>18. Coalesced'
  <2> SUFFICES ASSUME NEW m \in m_freelist', NEW q \in m_freelist',
                      End(m) = q.block, m.owner = q.owner
               PROVE  FALSE
    BY DEF Coalesced, Below
  <2>1. CASE m \in m_freelist \ {f} /\ q \in m_freelist \ {f}
    BY <2>1 DEF Memory, Coalesced, Below
  <2>2. CASE b.size + f.size > s /\ m = r /\ q \in m_freelist \ {f}
    BY <1>3, <1>9, <2>2 DEF Memory, Coalesced, Below
  <2>3. CASE b.size + f.size > s /\ q = r /\ m \in m_freelist \ {f}
    <3>1. m \in Others
      BY <2>3
    <3> QED
      BY <1>2, <1>3, <1>9, <1>10, <2>3, <3>1 DEF Apart, End
  <2>4. CASE b.size + f.size > s /\ m = r /\ q = r
    BY <1>2, <1>9, <2>4 DEF End
  <2> QED
    BY <1>1, <2>1, <2>2, <2>3, <2>4
<1>19. Accounting'
  <2> DEFINE B == m_busylist \ {b}
  <2>1. Bytes(B) = Bytes(m_busylist) - Bytes({b})
    BY BytesRemove DEF Memory, ListsOK
  <2>2. Bytes({b}) = b.size
    BY <1>8, BytesOne
  <2>3. IsFiniteSet(B) /\ k \notin B
    BY <1>11, FS_RemoveElement DEF Memory, ListsOK
  <2>4. m_busylist' = B \cup {k}
    BY <1>1
  <2> HIDE DEF B
  <2>5. Bytes(B \cup {k}) = Bytes(B) + k.size
    BY <1>8, <2>3, BytesAdd
  <2>6. Bytes(m_busylist) \in Int /\ Bytes(B) \in Int
    BY <2>3, BytesNat DEF Memory, ListsOK
  <2>7. Bytes(m_busylist') = Bytes(m_busylist) - b.size + s
    BY <1>2, <1>8, <2>1, <2>2, <2>4, <2>5, <2>6
  <2>8. m_actually_used = Bytes(m_busylist) /\ m_used = Bytes(m_alloc)
    BY DEF Memory, Accounting
  <2> QED
    BY <1>2, <2>6, <2>7, <2>8 DEF Accounting
<1> QED
  BY <1>13, <1>14, <1>15, <1>16, <1>17, <1>18, <1>19 DEF Memory

----------------------------------------------------------------------------
(* The inductive invariant.                                                *)

\* Where a thread goes once freeUnused_protected has returned.
Target(t) == IF pc[t] \in {"free_unused", "deallocate"} THEN cont[t] ELSE pc[t]

Allocating == {"search", "clear_async", "search_again", "allocate", "allocate_again"}

\* A thread that allocates wants at least one unit and a hunk that is large enough.
LocalsOK ==
  \A t \in Threads :
    /\ Target(t) \in Allocating => nbytes[t] >= 1
    /\ Target(t) \in {"allocate", "allocate_again"} => N[t] >= nbytes[t]

\* Only a thread that returns hunks to the system holds some.
ToFreeOK == \A t \in Threads : pc[t] # "deallocate" => to_free[t] = {}

\* The hunks of the process do not overlap.
SysOK ==
  /\ \A h \in sys : HunkEnd(h) <= MaxAddr + 1
  /\ \A g, h \in sys : g # h => HunkEnd(g) <= h.base \/ HunkEnd(h) <= g.base

IInv == TypeOK /\ Memory /\ SysOK /\ SystemHunks /\ LocalsOK /\ ToFreeOK

LEMMA MemoryUnchanged ==
  ASSUME Memory, UNCHANGED lists
  PROVE  Memory'
BY DEF lists, Memory, ListsOK, HunksApart, BlocksInHunks, BlocksDisjoint, HunksTiled,
       Coalesced, Accounting

\* Steps that change neither the hunks nor what is being returned.
LEMMA SystemUnchanged ==
  ASSUME SysOK, SystemHunks, UNCHANGED <<m_alloc, to_free, sys>>
  PROVE  SysOK' /\ SystemHunks'
BY DEF SysOK, SystemHunks

LEMMA InitIInv ==
  ASSUME Init
  PROVE  IInv
<1>1. TypeOK
  BY DEF Init, TypeOK, Labels
<1>2. Memory
  <2>1. Bytes({}) = 0
    <3>1. Units({}) = {}
      BY DEF Units
    <3> QED
      BY <3>1, FS_EmptySet DEF Bytes
  <2> QED
    BY <2>1, FS_EmptySet DEF Init, Memory, ListsOK, HunksApart, BlocksInHunks,
       BlocksDisjoint, HunksTiled, Coalesced, Accounting
<1>3. SysOK /\ SystemHunks
  BY DEF Init, SysOK, SystemHunks
<1>4. LocalsOK /\ ToFreeOK
  BY DEF Init, LocalsOK, ToFreeOK, Target, Allocating
<1> QED
  BY <1>1, <1>2, <1>3, <1>4 DEF IInv

----------------------------------------------------------------------------
(* Steps that only move a thread: one lemma each.                          *)

\* freeUnused_protected takes the mutex again.
LEMMA RelockStep ==
  ASSUME IInv, NEW t \in Threads, Relock(t)
  PROVE  IInv'
<1>1. UNCHANGED <<lists, to_free, sys>>
  BY DEF Relock
<1>2. Memory'
  BY <1>1, MemoryUnchanged DEF IInv
<1>3. SysOK' /\ SystemHunks'
  BY <1>1, SystemUnchanged DEF IInv, lists
<1>4. TypeOK'
  BY ArenaAssumption DEF IInv, TypeOK, Relock, Goto, Lock, Unlock, lists, locals, Labels
<1>5. LocalsOK'
  BY ArenaAssumption DEF IInv, TypeOK, LocalsOK, Target, Allocating, Relock, Goto, locals
<1>6. ToFreeOK'
  BY DEF IInv, TypeOK, ToFreeOK, Relock, Goto
<1> QED
  BY <1>2, <1>3, <1>4, <1>5, <1>6 DEF IInv

\* A public call ends.
LEMMA ReturnStep ==
  ASSUME IInv, NEW t \in Threads, Return(t)
  PROVE  IInv'
<1>1. UNCHANGED <<lists, to_free, sys>>
  BY DEF Return
<1>2. Memory'
  BY <1>1, MemoryUnchanged DEF IInv
<1>3. SysOK' /\ SystemHunks'
  BY <1>1, SystemUnchanged DEF IInv, lists
<1>4. TypeOK'
  BY ArenaAssumption DEF IInv, TypeOK, Return, Goto, Lock, Unlock, lists, locals, Labels
<1>5. LocalsOK'
  BY ArenaAssumption DEF IInv, TypeOK, LocalsOK, Target, Allocating, Return, Goto, locals
<1>6. ToFreeOK'
  BY DEF IInv, TypeOK, ToFreeOK, Return, Goto
<1> QED
  BY <1>2, <1>3, <1>4, <1>5, <1>6 DEF IInv

\* freeUnused begins.
LEMMA FreeUnusedStep ==
  ASSUME IInv, NEW t \in Threads, FreeUnused(t)
  PROVE  IInv'
<1>1. UNCHANGED <<lists, to_free, sys>>
  BY DEF FreeUnused
<1>2. Memory'
  BY <1>1, MemoryUnchanged DEF IInv
<1>3. SysOK' /\ SystemHunks'
  BY <1>1, SystemUnchanged DEF IInv, lists
<1>4. TypeOK'
  BY ArenaAssumption DEF IInv, TypeOK, FreeUnused, Goto, Lock, Unlock, lists, locals, Labels
<1>5. LocalsOK'
  BY ArenaAssumption DEF IInv, TypeOK, LocalsOK, Target, Allocating, FreeUnused, Goto, locals
<1>6. ToFreeOK'
  BY DEF IInv, TypeOK, ToFreeOK, FreeUnused, Goto
<1> QED
  BY <1>2, <1>3, <1>4, <1>5, <1>6 DEF IInv

\* alloc begins.
LEMMA AllocStep ==
  ASSUME IInv, NEW t \in Threads, NEW n \in Sizes, Alloc(t, n)
  PROVE  IInv'
<1>1. UNCHANGED <<lists, to_free, sys>>
  BY DEF Alloc, AllocProtected
<1>2. Memory'
  BY <1>1, MemoryUnchanged DEF IInv
<1>3. SysOK' /\ SystemHunks'
  BY <1>1, SystemUnchanged DEF IInv, lists
<1>4. TypeOK'
  BY ArenaAssumption DEF IInv, TypeOK, Alloc, AllocProtected, Goto, Lock, Unlock, lists, locals, Labels
<1>5. LocalsOK'
  BY ArenaAssumption DEF IInv, TypeOK, LocalsOK, Target, Allocating, Alloc, AllocProtected, Goto, locals
<1>6. ToFreeOK'
  BY DEF IInv, TypeOK, ToFreeOK, Alloc, AllocProtected, Goto
<1> QED
  BY <1>2, <1>3, <1>4, <1>5, <1>6 DEF IInv

\* The mutex is released for clearFreeAsyncBuffer.
LEMMA NotFoundStep ==
  ASSUME IInv, NEW t \in Threads, NotFound(t)
  PROVE  IInv'
<1>1. UNCHANGED <<lists, to_free, sys>>
  BY DEF NotFound
<1>2. Memory'
  BY <1>1, MemoryUnchanged DEF IInv
<1>3. SysOK' /\ SystemHunks'
  BY <1>1, SystemUnchanged DEF IInv, lists
<1>4. TypeOK'
  BY ArenaAssumption DEF IInv, TypeOK, NotFound, Goto, Lock, Unlock, lists, locals, Labels
<1>5. LocalsOK'
  BY ArenaAssumption DEF IInv, TypeOK, LocalsOK, Target, Allocating, NotFound, Goto, locals
<1>6. ToFreeOK'
  BY DEF IInv, TypeOK, ToFreeOK, NotFound, Goto
<1> QED
  BY <1>2, <1>3, <1>4, <1>5, <1>6 DEF IInv

\* The mutex is taken again after clearFreeAsyncBuffer.
LEMMA SearchAgainStep ==
  ASSUME IInv, NEW t \in Threads, SearchAgain(t)
  PROVE  IInv'
<1>1. UNCHANGED <<lists, to_free, sys>>
  BY DEF SearchAgain
<1>2. Memory'
  BY <1>1, MemoryUnchanged DEF IInv
<1>3. SysOK' /\ SystemHunks'
  BY <1>1, SystemUnchanged DEF IInv, lists
<1>4. TypeOK'
  BY ArenaAssumption DEF IInv, TypeOK, SearchAgain, Goto, Lock, Unlock, lists, locals, Labels
<1>5. LocalsOK'
  BY ArenaAssumption DEF IInv, TypeOK, LocalsOK, Target, Allocating, SearchAgain, Goto, locals
<1>6. ToFreeOK'
  BY DEF IInv, TypeOK, ToFreeOK, SearchAgain, Goto
<1> QED
  BY <1>2, <1>3, <1>4, <1>5, <1>6 DEF IInv

\* allocate_system fails.
LEMMA SystemRefusesStep ==
  ASSUME IInv, NEW t \in Threads, SystemRefuses(t)
  PROVE  IInv'
<1>1. UNCHANGED <<lists, to_free, sys>>
  BY DEF SystemRefuses
<1>2. Memory'
  BY <1>1, MemoryUnchanged DEF IInv
<1>3. SysOK' /\ SystemHunks'
  BY <1>1, SystemUnchanged DEF IInv, lists
<1>4. TypeOK'
  BY ArenaAssumption DEF IInv, TypeOK, SystemRefuses, Goto, Lock, Unlock, lists, locals, Labels
<1>5. LocalsOK'
  BY ArenaAssumption DEF IInv, TypeOK, LocalsOK, Target, Allocating, SystemRefuses, Goto, locals
<1>6. ToFreeOK'
  BY DEF IInv, TypeOK, ToFreeOK, SystemRefuses, Goto
<1> QED
  BY <1>2, <1>3, <1>4, <1>5, <1>6 DEF IInv

\* Gpu::Elixir queues a host function.
LEMMA QueueElixirStep ==
  ASSUME IInv, NEW t \in Threads, NEW b \in m_busylist, QueueElixir(t, b)
  PROVE  IInv'
<1>1. UNCHANGED <<lists, to_free, sys, pc, cont, locals>>
  BY DEF QueueElixir
<1>2. Memory'
  BY <1>1, MemoryUnchanged DEF IInv
<1>3. SysOK' /\ SystemHunks'
  BY <1>1, SystemUnchanged DEF IInv, lists
<1>4. TypeOK'
  <2>1. b.block \in Addr
    BY DEF IInv, TypeOK, Nodes
  <2> QED
    BY <2>1 DEF IInv, TypeOK, QueueElixir, lists, locals
<1>5. LocalsOK' /\ ToFreeOK'
  BY <1>1 DEF IInv, LocalsOK, ToFreeOK, Target, Allocating, locals
<1> QED
  BY <1>2, <1>3, <1>4, <1>5 DEF IInv

\* A hunk is needed: the choice between a hunk of its own and defragmentation.
LEMMA NeedHunkStep ==
  ASSUME IInv, NEW t \in Threads, NeedHunk(t)
  PROVE  IInv'
<1> DEFINE size == Larger(Hunk, nbytes[t])
           freeable == Bytes({h \in m_alloc : Freeable(h)})
           defrag == ~freeunused_called[t] /\ Defragmentation /\ freeable >= size
<1>1. /\ UNCHANGED <<lists, mutex, nbytes, freeunused_called, to_free, sys, elixir>>
      /\ pc[t] \in {"search", "search_again"}
      /\ N' = [N EXCEPT ![t] = IF defrag THEN freeable ELSE size]
      /\ cont' = [cont EXCEPT ![t] = "allocate"]
      /\ pc' = [pc EXCEPT ![t] = IF defrag THEN "free_unused" ELSE "allocate"]
  BY DEF NeedHunk, Goto
<1>2. nbytes[t] \in Nat /\ nbytes[t] >= 1
  BY <1>1 DEF IInv, TypeOK, LocalsOK, Target, Allocating
<1>3. freeable \in Nat
  <2>1. IsFiniteSet({h \in m_alloc : Freeable(h)})
    BY FS_Subset DEF IInv, Memory, ListsOK
  <2> QED
    BY <2>1, BytesNat
<1>4. size \in Nat /\ size >= nbytes[t]
  BY <1>2, ArenaAssumption DEF Larger
<1> HIDE DEF size, freeable
<1>5. N'[t] \in Nat /\ N'[t] >= nbytes[t]
  BY <1>1, <1>2, <1>3, <1>4 DEF IInv, TypeOK
<1>6. \A u \in Threads : u # t => N'[u] = N[u] /\ pc'[u] = pc[u] /\ cont'[u] = cont[u]
  BY <1>1 DEF IInv, TypeOK
<1>7. Memory'
  BY <1>1, MemoryUnchanged DEF IInv
<1>8. SysOK' /\ SystemHunks'
  BY <1>1, SystemUnchanged DEF IInv, lists
<1>9. TypeOK'
  BY <1>1, <1>5 DEF IInv, TypeOK, lists, Labels
<1>10. LocalsOK'
  BY <1>1, <1>2, <1>5, <1>6 DEF IInv, TypeOK, LocalsOK, Target, Allocating
<1>11. ToFreeOK'
  BY <1>1 DEF IInv, TypeOK, ToFreeOK
<1> QED
  BY <1>7, <1>8, <1>9, <1>10, <1>11 DEF IInv

\* freeUnused_protected: hunks move from the arena to the thread that returns them.
LEMMA FreeUnusedProtectedStep ==
  ASSUME IInv, NEW t \in Threads, FreeUnusedProtected(t)
  PROVE  IInv'
<1> DEFINE gone == {h \in m_alloc : Freeable(h)}
<1>1. /\ pc[t] = "free_unused"
      /\ m_alloc' = m_alloc \ gone
      /\ m_freelist' = m_freelist \ {WholeHunk(h) : h \in gone}
      /\ m_used' = m_used - Bytes(gone)
      /\ to_free' = [to_free EXCEPT ![t] = gone]
      /\ IF gone = {} THEN Goto(t, cont[t]) /\ UNCHANGED mutex
                      ELSE Goto(t, "deallocate") /\ Unlock
      /\ UNCHANGED <<m_busylist, m_actually_used, cont, locals, sys, elixir>>
  BY DEF FreeUnusedProtected
<1>2. Memory'
  BY <1>1, FreeUnusedMemory DEF IInv
<1>3. SysOK'
  BY <1>1 DEF IInv, SysOK
<1>4. to_free[t] = {} /\ gone \subseteq m_alloc
  BY <1>1 DEF IInv, ToFreeOK
<1>5. SystemHunks'
  <2> HIDE DEF gone
  <2>1. \A u \in Threads : to_free'[u] = IF u = t THEN gone ELSE to_free[u]
    BY <1>1 DEF IInv, TypeOK
  <2>2. UNION {to_free'[u] : u \in Threads} = (UNION {to_free[u] : u \in Threads}) \cup gone
    <3>1. ASSUME NEW x PROVE (\E u \in Threads : x \in to_free'[u])
                             <=> (\E u \in Threads : x \in to_free[u]) \/ x \in gone
      BY <1>4, <2>1
    <3> QED
      BY <3>1
  <2>3. sys' = m_alloc' \cup UNION {to_free'[u] : u \in Threads}
    <3>1. sys' = sys /\ m_alloc' = m_alloc \ gone /\ gone \subseteq m_alloc
      BY <1>1, <1>4
    <3>2. sys = m_alloc \cup UNION {to_free[u] : u \in Threads}
      BY DEF IInv, SystemHunks
    <3> QED
      BY <2>2, <3>1, <3>2
  <2>4. \A u \in Threads : m_alloc' \cap to_free'[u] = {}
    BY <1>1, <2>1 DEF IInv, SystemHunks
  <2>5. \A u, v \in Threads : u # v => to_free'[u] \cap to_free'[v] = {}
    BY <1>4, <2>1 DEF IInv, SystemHunks
  <2> QED
    BY <2>3, <2>4, <2>5 DEF SystemHunks
<1>6. TypeOK'
  <2>1. m_used' \in Int
    BY <1>2 DEF Memory, ListsOK
  <2>2. gone \subseteq Hunks
    BY DEF IInv, TypeOK
  <2> HIDE DEF gone
  <2> QED
    BY <1>1, <2>1, <2>2 DEF IInv, TypeOK, Goto, Unlock, Labels, locals
<1> HIDE DEF gone
<1>7. LocalsOK'
  BY <1>1 DEF IInv, TypeOK, LocalsOK, Target, Allocating, Goto, locals, Labels
<1>8. ToFreeOK'
  BY <1>1 DEF IInv, TypeOK, ToFreeOK, Goto
<1> QED
  BY <1>2, <1>3, <1>5, <1>6, <1>7, <1>8 DEF IInv

\* deallocate_system of one hunk.
LEMMA DeallocateStep ==
  ASSUME IInv, NEW t \in Threads, Deallocate(t)
  PROVE  IInv'
<1>1. PICK h \in to_free[t] : /\ to_free' = [to_free EXCEPT ![t] = @ \ {h}]
                              /\ sys' = sys \ {h}
  BY DEF Deallocate
<1>2. pc[t] = "deallocate" /\ UNCHANGED <<lists, mutex, pc, cont, locals, elixir>>
  BY DEF Deallocate
<1>3. Memory'
  BY <1>2, MemoryUnchanged DEF IInv
<1>4. SysOK'
  BY <1>1 DEF IInv, SysOK
<1>5. SystemHunks'
  <2>1. \A u \in Threads : to_free'[u] = IF u = t THEN to_free[t] \ {h} ELSE to_free[u]
    BY <1>1 DEF IInv, TypeOK
  <2>2. h \notin m_alloc /\ \A u \in Threads : u # t => h \notin to_free[u]
    BY <1>1 DEF IInv, SystemHunks
  <2>3. sys' = m_alloc \cup UNION {to_free'[u] : u \in Threads}
    <3>1. ASSUME NEW x PROVE (\E u \in Threads : x \in to_free'[u])
                             <=> (\E u \in Threads : x \in to_free[u]) /\ x # h
      BY <2>1, <2>2
    <3>2. UNION {to_free'[u] : u \in Threads} = (UNION {to_free[u] : u \in Threads}) \ {h}
      BY <3>1
    <3>3. sys = m_alloc \cup UNION {to_free[u] : u \in Threads}
      BY DEF IInv, SystemHunks
    <3> QED
      BY <1>1, <2>2, <3>2, <3>3
  <2> QED
    BY <1>2, <2>1, <2>3 DEF IInv, SystemHunks, lists
<1>6. TypeOK'
  BY <1>1, <1>2 DEF IInv, TypeOK, lists, locals
<1>7. LocalsOK' /\ ToFreeOK'
  BY <1>1, <1>2 DEF IInv, TypeOK, LocalsOK, ToFreeOK, Target, Allocating, locals
<1> QED
  BY <1>3, <1>4, <1>5, <1>6, <1>7 DEF IInv

\* A free block that is large enough is found.
LEMMA FoundStep ==
  ASSUME IInv, NEW t \in Threads, Found(t)
  PROVE  IInv'
<1>1. PICK f \in m_freelist :
        /\ FirstFit(f, nbytes[t])
        /\ m_busylist' = m_busylist \cup {Taken(f, nbytes[t])}
        /\ m_freelist' = (m_freelist \ {f}) \cup Rest(f, nbytes[t])
  BY DEF Found
<1>2. /\ pc[t] \in {"search", "search_again"}
      /\ m_actually_used' = m_actually_used + nbytes[t]
      /\ mutex' = NoThread /\ pc' = [pc EXCEPT ![t] = "idle"]
      /\ UNCHANGED <<m_alloc, m_used, cont, locals, to_free, sys, elixir>>
  BY DEF Found, Unlock, Goto
<1>3. nbytes[t] \in Nat \ {0}
  BY <1>2 DEF IInv, TypeOK, LocalsOK, Target, Allocating
<1>4. Memory'
  BY <1>1, <1>2, <1>3, FoundMemory DEF IInv, FirstFit
<1>5. SysOK' /\ SystemHunks'
  BY <1>2, SystemUnchanged DEF IInv
<1>6. TypeOK'
  BY <1>2, <1>4 DEF IInv, TypeOK, Memory, ListsOK, Labels, locals
<1>7. LocalsOK' /\ ToFreeOK'
  BY <1>2 DEF IInv, TypeOK, LocalsOK, ToFreeOK, Target, Allocating, locals
<1> QED
  BY <1>4, <1>5, <1>6, <1>7 DEF IInv

\* The system gives a hunk.
LEMMA NewHunkStep ==
  ASSUME IInv, NEW t \in Threads, NEW base \in Addr, NewHunk(t, base)
  PROVE  IInv'
<1> DEFINE h == [base |-> base, size |-> N[t]]
<1>1. /\ pc[t] \in {"allocate", "allocate_again"}
      /\ SystemCanGive(h)
      /\ sys' = sys \cup {h}
      /\ m_used' = m_used + N[t]
      /\ m_alloc' = m_alloc \cup {h}
      /\ m_freelist' = m_freelist \cup Rest(WholeHunk(h), nbytes[t])
      /\ m_busylist' = m_busylist \cup {Taken(WholeHunk(h), nbytes[t])}
      /\ m_actually_used' = m_actually_used + nbytes[t]
      /\ mutex' = NoThread /\ pc' = [pc EXCEPT ![t] = "idle"]
      /\ UNCHANGED <<cont, locals, to_free, elixir>>
  BY DEF NewHunk, Unlock, Goto
<1>2. nbytes[t] \in Nat \ {0} /\ nbytes[t] <= N[t]
  BY <1>1 DEF IInv, TypeOK, LocalsOK, Target, Allocating
<1>3. h.size = N[t]
  OBVIOUS
<1> HIDE DEF h
<1>4. /\ h \in Hunks /\ HunkEnd(h) <= MaxAddr + 1
      /\ \A g \in sys : HunkEnd(g) <= h.base \/ HunkEnd(h) <= g.base
  BY <1>1 DEF SystemCanGive
<1>5. m_alloc \subseteq sys
  BY DEF IInv, SystemHunks
<1>6. Memory'
  BY <1>1, <1>2, <1>3, <1>4, <1>5, NewHunkMemory DEF IInv
<1>7. SysOK'
  BY <1>1, <1>4 DEF IInv, SysOK
<1>8. SystemHunks'
  <2>1. h \notin sys
    BY <1>4, HunkFields DEF HunkEnd
  <2>2. \A u \in Threads : h \notin to_free[u]
    BY <2>1 DEF IInv, SystemHunks
  <2> QED
    BY <1>1, <2>2 DEF IInv, SystemHunks
<1>9. TypeOK'
  BY <1>1, <1>4, <1>6 DEF IInv, TypeOK, Memory, ListsOK, Labels, locals
<1>10. LocalsOK' /\ ToFreeOK'
  BY <1>1 DEF IInv, TypeOK, LocalsOK, ToFreeOK, Target, Allocating, locals
<1> QED
  BY <1>6, <1>7, <1>8, <1>9, <1>10 DEF IInv

\* Steps that only change the blocks.
LEMMA BlocksOnly ==
  ASSUME IInv, Memory',
         UNCHANGED <<m_alloc, m_used, mutex, pc, cont, locals, to_free, sys>>,
         elixir' \subseteq elixir
  PROVE  IInv'
<1>1. SysOK' /\ SystemHunks'
  BY SystemUnchanged DEF IInv
<1>2. TypeOK'
  BY DEF IInv, TypeOK, Memory, ListsOK, locals
<1>3. LocalsOK' /\ ToFreeOK'
  BY DEF IInv, LocalsOK, ToFreeOK, Target, Allocating, locals
<1> QED
  BY <1>1, <1>2, <1>3 DEF IInv

\* free, by a thread or by a host function.
LEMMA FreeStep ==
  ASSUME IInv, NEW b \in m_busylist,
         (\E t \in Threads : Free(t, b)) \/ HostFunction(b)
  PROVE  IInv'
<1>1. /\ FreeBlock(b)
      /\ UNCHANGED <<m_alloc, m_used, mutex, pc, cont, locals, to_free, sys>>
      /\ elixir' \subseteq elixir
  BY DEF Free, HostFunction, FreeBlock
<1>2. Memory'
  BY <1>1, FreeBlockMemory DEF IInv
<1> QED
  BY <1>1, <1>2, BlocksOnly

\* shrink_in_place.
LEMMA ShrinkInPlaceStep ==
  ASSUME IInv, NEW t \in Threads, NEW b \in m_busylist, NEW n \in Sizes,
         ShrinkInPlace(t, b, n)
  PROVE  IInv'
<1>1. PICK hi \in m_freelist \cup {b} :
        /\ IF hi = b THEN \A f \in m_freelist : ~Below(b, f) ELSE Below(b, hi)
        /\ m_freelist' = (m_freelist \ {hi})
             \cup {[block |-> b.block + n, owner |-> b.owner, size |-> End(hi) - (b.block + n)]}
  BY DEF ShrinkInPlace
<1>2. /\ n < b.size
      /\ m_busylist' = (m_busylist \ {b}) \cup {Taken(b, n)}
      /\ m_actually_used' = m_actually_used - (b.size - n)
      /\ UNCHANGED <<m_alloc, m_used, mutex, pc, cont, locals, to_free, sys, elixir>>
  BY DEF ShrinkInPlace, ShrinkCount
<1>3. n \in Nat \ {0}
  BY ArenaAssumption
<1>4. Memory'
  BY <1>1, <1>2, <1>3, ShrinkMemory DEF IInv
<1> QED
  BY <1>2, <1>4, BlocksOnly

\* alloc_in_place: growth in place, or an allocation.
LEMMA AllocInPlaceStep ==
  ASSUME IInv, NEW t \in Threads, NEW b \in m_busylist,
         NEW szmin \in Sizes, NEW szmax \in Sizes, AllocInPlace(t, b, szmin, szmax)
  PROVE  IInv'
<1>1. ASSUME NEW f \in m_freelist,
             /\ mutex = NoThread /\ UNCHANGED mutex
             /\ Below(b, f) /\ b.size + f.size >= szmin
             /\ LET size == Extended(b, f, szmax)
                IN /\ m_freelist' = (m_freelist \ {f}) \cup Rest(Taken(b, b.size + f.size), size)
                   /\ m_busylist' = (m_busylist \ {b}) \cup {Taken(b, size)}
                   /\ m_actually_used' = m_actually_used + (size - b.size)
             /\ UNCHANGED <<m_alloc, m_used, pc, cont, locals, to_free, sys, elixir>>
      PROVE  IInv'
  <2> DEFINE size == Extended(b, f, szmax)
  <2>1. b.size \in Int /\ f.size \in Int /\ f.size >= 1
    BY NodeFields DEF IInv, Memory, ListsOK
  <2>2. b.size < szmax /\ szmax \in Int
    BY ArenaAssumption DEF AllocInPlace
  <2>3. size \in Int /\ b.size < size /\ size <= b.size + f.size
    BY <2>1, <2>2 DEF Extended
  <2>4. /\ Below(b, f)
        /\ m_freelist' = (m_freelist \ {f}) \cup Rest(Taken(b, b.size + f.size), size)
        /\ m_busylist' = (m_busylist \ {b}) \cup {Taken(b, size)}
        /\ m_actually_used' = m_actually_used + (size - b.size)
        /\ UNCHANGED <<m_alloc, m_used>>
    BY <1>1
  <2> HIDE DEF size
  <2>5. Memory'
    BY <2>3, <2>4, GrowMemory DEF IInv
  <2> QED
    BY <1>1, <2>5, BlocksOnly
<1>2. ASSUME Lock(t), AllocProtected(t, szmax), pc[t] = "idle"
      PROVE  IInv'
  <2>1. Alloc(t, szmax)
    BY <1>2 DEF Alloc
  <2> QED
    BY <2>1, AllocStep
<1> QED
  BY <1>1, <1>2 DEF AllocInPlace

----------------------------------------------------------------------------

LEMMA NextIInv ==
  ASSUME IInv, [Next]_vars
  PROVE  IInv'
<1>1. ASSUME NEW t \in Threads, Inside(t)
      PROVE  IInv'
  BY <1>1, FreeUnusedProtectedStep, DeallocateStep, RelockStep, ReturnStep, FoundStep,
     NotFoundStep, SearchAgainStep, NeedHunkStep, SystemRefusesStep, NewHunkStep DEF Inside
<1>2. ASSUME NEW t \in Threads, Call(t)
      PROVE  IInv'
  BY <1>2, FreeUnusedStep, AllocStep, FreeStep, QueueElixirStep, ShrinkInPlaceStep,
     AllocInPlaceStep DEF Call
<1>3. ASSUME NEW b \in m_busylist, HostFunction(b)
      PROVE  IInv'
  BY <1>3, FreeStep
<1>4. CASE UNCHANGED vars
  <2>1. Memory' /\ SysOK' /\ SystemHunks'
    BY <1>4, MemoryUnchanged, SystemUnchanged DEF IInv, vars, lists
  <2> QED
    BY <1>4, <2>1 DEF IInv, vars, lists, locals, TypeOK, LocalsOK, ToFreeOK, Target, Allocating
<1> QED
  BY <1>1, <1>2, <1>3, <1>4 DEF Next

LEMMA AlwaysIInv == Spec => []IInv
BY InitIInv, NextIInv, PTL DEF Spec

\* The variables keep their types: in particular no block is ever empty or outside the
\* address space.
THEOREM TypeCorrect == Spec => []TypeOK
<1>1. IInv => TypeOK
  BY DEF IInv
<1> QED
  BY <1>1, AlwaysIInv, PTL

\* alloc, free, alloc_in_place and shrink_in_place never hand out memory twice, however
\* calls interleave with the windows in which carena_mutex is released.
THEOREM NoOverlap == Spec => []BlocksDisjoint
<1>1. IInv => BlocksDisjoint
  BY DEF IInv, Memory
<1> QED
  BY <1>1, AlwaysIInv, PTL

\* freeUnused_protected never returns memory to the system that is in use.
THEOREM BlocksOwned == Spec => []BlocksInHunks
<1>1. IInv => BlocksInHunks
  BY DEF IInv, Memory
<1> QED
  BY <1>1, AlwaysIInv, PTL

\* Splitting and coalescing lose no memory of a hunk.
THEOREM NothingLost == Spec => []HunksTiled
<1>1. IInv => HunksTiled
  BY DEF IInv, Memory
<1> QED
  BY <1>1, AlwaysIInv, PTL

\* free and shrink_in_place leave no two free neighbours unmerged.
THEOREM FreeNeighboursMerged == Spec => []Coalesced
<1>1. IInv => Coalesced
  BY DEF IInv, Memory
<1> QED
  BY <1>1, AlwaysIInv, PTL

\* Each hunk of the system is the arena's, or is being returned by exactly one thread.
THEOREM NoHunkLeaked == Spec => []SystemHunks
<1>1. IInv => SystemHunks
  BY DEF IInv
<1> QED
  BY <1>1, AlwaysIInv, PTL

\* m_used and m_actually_used are exact.
THEOREM CountersExact == Spec => []Accounting
<1>1. IInv => Accounting
  BY DEF IInv, Memory
<1> QED
  BY <1>1, AlwaysIInv, PTL

----------------------------------------------------------------------------
(* The mutex.                                                              *)

\* Where a thread has carena_mutex, and where freeUnused_protected may return to.
Protected == {"free_unused", "return", "search", "search_again", "allocate", "allocate_again"}
Continuations == {"return", "search", "allocate", "allocate_again"}

\* The mutex is held exactly where the code says so, outside of the two windows, unless the
\* process has aborted.
MutexOK ==
  /\ mutex \in Threads \cup {NoThread, Aborted}
  /\ pc \in [Threads -> Labels] /\ cont \in [Threads -> Continuations]
  /\ \A t \in Threads : mutex = t => pc[t] \in Protected
  /\ \A t \in Threads : pc[t] \in Protected => mutex \in {t, Aborted}
  /\ \A t \in Threads : pc[t] \in {"clear_async", "search_again"} => Gpu

\* A thread moves with the mutex in its hands, takes it, or gives it back.
LEMMA MutexKept ==
  ASSUME MutexOK, NEW t \in Threads,
         UNCHANGED mutex, NEW l \in Protected, mutex = t, pc' = [pc EXCEPT ![t] = l],
         l = "search_again" => Gpu,
         cont' \in [Threads -> Continuations]
  PROVE  MutexOK'
BY ArenaAssumption DEF MutexOK, Protected, Labels

LEMMA MutexTaken ==
  ASSUME MutexOK, NEW t \in Threads, Lock(t), NEW l \in Protected, pc' = [pc EXCEPT ![t] = l],
         l = "search_again" => Gpu, cont' \in [Threads -> Continuations]
  PROVE  MutexOK'
BY ArenaAssumption DEF MutexOK, Protected, Labels, Lock

LEMMA MutexGiven ==
  ASSUME MutexOK, NEW t \in Threads, mutex = t, Unlock,
         NEW l \in {"idle", "deallocate", "clear_async"}, pc' = [pc EXCEPT ![t] = l],
         l = "clear_async" => Gpu, UNCHANGED cont
  PROVE  MutexOK'
BY ArenaAssumption DEF MutexOK, Protected, Labels, Unlock

LEMMA InsideMutex ==
  ASSUME MutexOK, NEW t \in Threads, Inside(t)
  PROVE  MutexOK'
<1> USE DEF Goto
<1>0. cont[t] \in Continuations /\ cont[t] \in Protected /\ cont[t] # "search_again"
  BY DEF MutexOK, Continuations, Protected
<1>1. CASE FreeUnusedProtected(t)
  <2> DEFINE gone == {h \in m_alloc : Freeable(h)}
  <2>1. mutex = t /\ UNCHANGED cont
    BY <1>1 DEF FreeUnusedProtected
  <2>2. \/ pc' = [pc EXCEPT ![t] = cont[t]] /\ UNCHANGED mutex
        \/ pc' = [pc EXCEPT ![t] = "deallocate"] /\ Unlock
    BY <1>1 DEF FreeUnusedProtected
  <2> QED
    BY <1>0, <2>1, <2>2, MutexKept, MutexGiven DEF MutexOK
<1>2. CASE Deallocate(t)
  BY <1>2 DEF Deallocate, MutexOK
<1>3. CASE Relock(t)
  BY <1>0, <1>3, MutexTaken DEF Relock, MutexOK
<1>4. CASE Return(t)
  BY <1>4, MutexGiven DEF Return
<1>5. CASE Found(t)
  BY <1>5, MutexGiven DEF Found
<1>6. CASE NotFound(t)
  BY <1>6, MutexGiven DEF NotFound
<1>7. CASE SearchAgain(t)
  <2>1. Gpu /\ "search_again" \in Protected
    BY <1>7 DEF SearchAgain, MutexOK, Protected
  <2> QED
    BY <1>7, <2>1, MutexTaken DEF SearchAgain, MutexOK
<1>8. CASE NeedHunk(t)
  <2>1. \E l \in {"free_unused", "allocate"} : pc' = [pc EXCEPT ![t] = l]
    BY <1>8 DEF NeedHunk
  <2>2. UNCHANGED mutex /\ mutex = t /\ cont' \in [Threads -> Continuations]
    BY <1>8 DEF NeedHunk, MutexOK, Continuations
  <2> QED
    BY <2>1, <2>2, MutexKept DEF Protected
<1>9. CASE SystemRefuses(t)
  <2>1. CASE pc[t] = "allocate"
    <3>1. /\ mutex = t /\ UNCHANGED mutex /\ pc' = [pc EXCEPT ![t] = "free_unused"]
          /\ cont' = [cont EXCEPT ![t] = "allocate_again"]
      BY <1>9, <2>1 DEF SystemRefuses
    <3>2. cont' \in [Threads -> Continuations] /\ "free_unused" \in Protected
      BY <3>1 DEF MutexOK, Continuations, Protected
    <3> QED
      BY <3>1, <3>2, MutexKept
  <2>2. CASE pc[t] # "allocate"
    BY <1>9, <2>2, ArenaAssumption DEF SystemRefuses, MutexOK
  <2> QED
    BY <2>1, <2>2
<1>10. CASE \E base \in Addr : NewHunk(t, base)
  BY <1>10, MutexGiven DEF NewHunk
<1> QED
  BY <1>1, <1>2, <1>3, <1>4, <1>5, <1>6, <1>7, <1>8, <1>9, <1>10 DEF Inside

LEMMA AllocMutex ==
  ASSUME MutexOK, NEW t \in Threads, NEW n, Lock(t), AllocProtected(t, n)
  PROVE  MutexOK'
<1>1. \E l \in {"free_unused", "search"} : pc' = [pc EXCEPT ![t] = l]
  BY DEF AllocProtected, Goto
<1>2. cont' \in [Threads -> Continuations]
  BY DEF AllocProtected, MutexOK, Continuations
<1> QED
  BY <1>1, <1>2, MutexTaken DEF Protected

LEMMA CallMutex ==
  ASSUME MutexOK, NEW t \in Threads, Call(t)
  PROVE  MutexOK'
<1>1. CASE FreeUnused(t)
  <2>1. cont' \in [Threads -> Continuations] /\ "free_unused" \in Protected
    BY <1>1 DEF FreeUnused, MutexOK, Continuations, Protected
  <2> QED
    BY <1>1, <2>1, MutexTaken DEF FreeUnused, Goto
<1>2. CASE \E n \in Sizes : Alloc(t, n)
  BY <1>2, AllocMutex DEF Alloc
<1>3. ASSUME UNCHANGED <<mutex, pc, cont>> PROVE MutexOK'
  BY <1>3 DEF MutexOK
<1>4. ASSUME NEW b \in m_busylist, Free(t, b) \/ QueueElixir(t, b) PROVE MutexOK'
  BY <1>3, <1>4 DEF Free, QueueElixir
<1>5. ASSUME NEW b \in m_busylist, NEW n \in Sizes, ShrinkInPlace(t, b, n) PROVE MutexOK'
  BY <1>3, <1>5 DEF ShrinkInPlace
<1>6. ASSUME NEW b \in m_busylist, NEW szmin \in Sizes, NEW szmax \in Sizes,
             AllocInPlace(t, b, szmin, szmax)
      PROVE  MutexOK'
  BY <1>3, <1>6, AllocMutex DEF AllocInPlace
<1> QED
  BY <1>1, <1>2, <1>4, <1>5, <1>6 DEF Call

LEMMA NextMutex ==
  ASSUME MutexOK, [Next]_vars
  PROVE  MutexOK'
<1>1. ASSUME UNCHANGED <<mutex, pc, cont>> PROVE MutexOK'
  BY <1>1 DEF MutexOK
<1>2. ASSUME NEW b \in m_busylist, HostFunction(b) PROVE MutexOK'
  BY <1>1, <1>2 DEF HostFunction
<1> QED
  BY <1>1, <1>2, InsideMutex, CallMutex DEF Next, vars

\* The first fit exists if anything fits.
LEMMA FitIsFound ==
  ASSUME m_freelist \subseteq Nodes, NEW n \in Nat, ~NoFit(n)
  PROVE  \E f \in m_freelist : FirstFit(f, n)
<1> DEFINE fits == {g \in m_freelist : g.size >= n}
           blocks == {g.block : g \in fits}
<1>1. \A g \in m_freelist : g.block \in Nat /\ g.size \in Nat
  BY ArenaAssumption DEF Nodes, Addr
<1>2. blocks \subseteq Nat /\ blocks # {}
  BY <1>1 DEF NoFit
<1> HIDE DEF blocks
<1>3. PICK a \in blocks : \A c \in blocks : <<c, a>> \notin OpToRel(<, Nat)
  BY <1>2, WFMin, NatLessThanWellFounded, Zenon
<1>4. \A c \in blocks : a <= c
  <2>1. a \in Nat /\ \A c \in blocks : c \in Nat
    BY <1>2
  <2>2. \A c \in blocks : ~(c < a)
    BY <1>3, <2>1, Zenon DEF OpToRel
  <2> QED
    BY <2>1, <2>2
<1> QED
  BY <1>4 DEF blocks, FirstFit

\* What Inside(t) asks for when t has the mutex: nothing at the places of freeUnused_protected,
\* Return and SystemRefuses; Found a block that fits; NotFound or NeedHunk that none does.
CanGoOn(t) ==
  \/ pc[t] \in {"free_unused", "return", "allocate", "allocate_again"}
  \/ /\ pc[t] \in {"search", "search_again"}
     /\ \/ \E f \in m_freelist : FirstFit(f, nbytes[t])
        \/ NoFit(nbytes[t]) /\ (pc[t] = "search_again" => Gpu)

\* A thread that has carena_mutex can always go on: it is never at one of the two windows, where
\* it could wait for a stream, and where it is the guard of its next step holds.
THEOREM HolderGoesOn == Spec => [](\A t \in Threads : mutex = t => CanGoOn(t))
<1>1. Init => MutexOK
  BY ArenaAssumption DEF Init, MutexOK, Labels, Continuations, Protected
<1>2. MutexOK /\ [Next]_vars => MutexOK'
  BY NextMutex
<1>3. IInv /\ MutexOK => \A t \in Threads : mutex = t => CanGoOn(t)
  <2> SUFFICES ASSUME IInv, MutexOK, NEW t \in Threads, mutex = t PROVE CanGoOn(t)
    OBVIOUS
  <2>1. pc[t] \in Protected /\ (pc[t] = "search_again" => Gpu)
    BY DEF MutexOK
  <2>2. NoFit(nbytes[t]) \/ \E f \in m_freelist : FirstFit(f, nbytes[t])
    BY FitIsFound DEF IInv, TypeOK
  <2> QED
    BY <2>1, <2>2 DEF CanGoOn, Protected
<1> QED
  BY <1>1, <1>2, <1>3, AlwaysIInv, PTL DEF Spec
=============================================================================
