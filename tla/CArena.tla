------------------------------- MODULE CArena -------------------------------
(***************************************************************************)
(* The coalescing memory arena of Src/Base/AMReX_CArena.cpp, shared by     *)
(* threads and by the host functions that a GPU stream runs                *)
(* (Gpu::Elixir).  Addresses and sizes are counted in units of             *)
(* Arena::align_size, the granularity of every block: all sizes the code   *)
(* compares are multiples of it, or are compared with one.                 *)
(*                                                                         *)
(* carena_mutex is explicit.  A public call holds it except in two         *)
(* windows: while freeUnused_protected returns hunks to the system, and    *)
(* while an allocation clears the freeAsync buffer.                        *)
(***************************************************************************)
EXTENDS Integers, FiniteSets

CONSTANTS
  Threads,          \* the threads that call the arena
  NoThread,         \* carena_mutex is free
  Aborted,          \* the process has aborted: nobody gets the mutex any more
  MaxAddr,          \* addresses are 1..MaxAddr; 0 is nullptr
  Sizes,            \* the sizes clients ask for
  Hunk,             \* m_hunk
  ReleaseThreshold, \* arena_info.release_threshold
  Defragmentation,  \* arena_info.defragmentation
  Gpu,              \* AMREX_USE_GPU
  FreeSynchronizes  \* deallocate_system waits for the streams (cudaFree)

ASSUME ArenaAssumption ==
  /\ NoThread \notin Threads /\ Aborted \notin Threads /\ NoThread # Aborted
  /\ MaxAddr \in Nat
  /\ Sizes \subseteq Nat \ {0}
  /\ Hunk \in Nat \ {0}
  /\ ReleaseThreshold \in Nat
  /\ Defragmentation \in BOOLEAN /\ Gpu \in BOOLEAN /\ FreeSynchronizes \in BOOLEAN

VARIABLES
  m_alloc,          \* hunks obtained from the system and not given up
  m_freelist, m_busylist,
  m_used, m_actually_used,
  mutex,            \* carena_mutex: its holder
  pc, cont,         \* per thread: where it is, where freeUnused_protected returns to
  nbytes, N,        \* locals of alloc_protected
  freeunused_called,
  to_free,          \* local of freeUnused_protected: hunks to return to the system
  sys,              \* external: hunks the system has given to the process
  elixir            \* external: blocks a host function queued in a stream will free

lists  == <<m_alloc, m_freelist, m_busylist, m_used, m_actually_used>>
locals == <<nbytes, N, freeunused_called>>
vars   == <<lists, mutex, pc, cont, locals, to_free, sys, elixir>>

Addr  == 1..MaxAddr
Hunks == [base : Addr, size : Addr]
Nodes == [block : Addr, owner : Addr, size : Addr]

End(n) == n.block + n.size
HunkEnd(h) == h.base + h.size

\* n ends where m begins and both come from one hunk (Node::coalescable): two hunks that
\* happen to be adjacent are never merged.
Below(n, m) == End(n) = m.block /\ n.owner = m.owner

Init ==
  /\ m_alloc = {} /\ m_freelist = {} /\ m_busylist = {}
  /\ m_used = 0 /\ m_actually_used = 0
  /\ mutex = NoThread
  /\ pc = [t \in Threads |-> "idle"] /\ cont = [t \in Threads |-> "return"]
  /\ nbytes = [t \in Threads |-> 0] /\ N = [t \in Threads |-> 0]
  /\ freeunused_called = [t \in Threads |-> FALSE]
  /\ to_free = [t \in Threads |-> {}]
  /\ sys = {} /\ elixir = {}

Goto(t, l)   == pc' = [pc EXCEPT ![t] = l]
Unlock       == mutex' = NoThread
Lock(t)      == mutex = NoThread /\ mutex' = t

----------------------------------------------------------------------------
(* freeUnused_protected, called with carena_mutex held.                    *)

WholeHunk(h) == [block |-> h.base, owner |-> h.base, size |-> h.size]

\* A hunk can go if one free block covers it.
Freeable(h) == WholeHunk(h) \in m_freelist

\* Their total size, one pair for each unit of memory.
Units(ranges) == {p \in ranges \X Addr : p[2] <= p[1].size}
Bytes(ranges) == Cardinality(Units(ranges))

\* The mutex is released while the hunks are returned, if there are any.
FreeUnusedProtected_KeepsMutex(t) ==
  /\ pc[t] = "free_unused" /\ mutex = t
  /\ LET gone == {h \in m_alloc : Freeable(h)}
     IN /\ m_alloc' = m_alloc \ gone
        /\ m_freelist' = m_freelist \ {WholeHunk(h) : h \in gone}
        /\ m_used' = m_used - Bytes(gone)
        /\ to_free' = [to_free EXCEPT ![t] = gone]
        /\ Goto(t, IF gone = {} THEN cont[t] ELSE "deallocate")
  /\ UNCHANGED <<m_busylist, m_actually_used, mutex, cont, locals, sys, elixir>>

FreeUnusedProtected_Leaks(t) ==
  /\ pc[t] = "free_unused" /\ mutex = t
  /\ LET gone == {h \in m_alloc : Freeable(h)}
     IN /\ m_alloc' = m_alloc \ gone
        /\ m_freelist' = m_freelist \ {WholeHunk(h) : h \in gone}
        /\ m_used' = m_used - Bytes(gone)
  /\ Goto(t, cont[t])
  /\ UNCHANGED <<m_busylist, m_actually_used, mutex, to_free, cont, locals, sys, elixir>>

FreeUnusedProtected(t) ==
  /\ pc[t] = "free_unused" /\ mutex = t
  /\ LET gone == {h \in m_alloc : Freeable(h)}
     IN /\ m_alloc' = m_alloc \ gone
        /\ m_freelist' = m_freelist \ {WholeHunk(h) : h \in gone}
        /\ m_used' = m_used - Bytes(gone)
        /\ to_free' = [to_free EXCEPT ![t] = gone]
        /\ IF gone = {} THEN Goto(t, cont[t]) /\ UNCHANGED mutex
                        ELSE Goto(t, "deallocate") /\ Unlock
  /\ UNCHANGED <<m_busylist, m_actually_used, cont, locals, sys, elixir>>

\* deallocate_system of one hunk, without the mutex.  cudaFree may wait for all streams,
\* hence for the host functions queued in them.
Deallocate(t) ==
  /\ pc[t] = "deallocate"
  /\ FreeSynchronizes => elixir = {}
  /\ \E h \in to_free[t] :
       /\ to_free' = [to_free EXCEPT ![t] = @ \ {h}]
       /\ sys' = sys \ {h}
  /\ UNCHANGED <<lists, mutex, pc, cont, locals, elixir>>

Relock(t) ==
  /\ pc[t] = "deallocate" /\ to_free[t] = {}
  /\ Lock(t)
  /\ Goto(t, cont[t])
  /\ UNCHANGED <<lists, cont, locals, to_free, sys, elixir>>

\* The scoped_lock of a public call is released.
Return(t) ==
  /\ pc[t] = "return" /\ mutex = t
  /\ Unlock /\ Goto(t, "idle")
  /\ UNCHANGED <<lists, cont, locals, to_free, sys, elixir>>

\* freeUnused().
FreeUnused(t) ==
  /\ pc[t] = "idle" /\ Lock(t)
  /\ Goto(t, "free_unused")
  /\ cont' = [cont EXCEPT ![t] = "return"]
  /\ UNCHANGED <<lists, locals, to_free, sys, elixir>>

----------------------------------------------------------------------------
(* alloc, alloc_protected.                                                 *)

\* alloc_protected(n), with the mutex held: give unused hunks back first if the threshold
\* is reached.
AllocProtected(t, n) ==
  LET over == m_used + n >= ReleaseThreshold
  IN /\ nbytes' = [nbytes EXCEPT ![t] = n]
     /\ freeunused_called' = [freeunused_called EXCEPT ![t] = over]
     /\ cont' = [cont EXCEPT ![t] = "search"]
     /\ Goto(t, IF over THEN "free_unused" ELSE "search")
     /\ UNCHANGED <<lists, N, to_free, sys, elixir>>

Alloc(t, n) ==
  /\ pc[t] = "idle" /\ Lock(t)
  /\ AllocProtected(t, n)

\* First fit: f is the free block of lowest address that is large enough.
FirstFit(f, n) ==
  /\ f \in m_freelist /\ f.size >= n
  /\ \A g \in m_freelist : g.size >= n => f.block <= g.block

NoFit(n) == \A f \in m_freelist : f.size < n

\* The first n units of the free node f become busy.
Rest_Lost(f, n) == {}
Rest_NotMoved(f, n) == IF f.size > n THEN {[f EXCEPT !.size = @ - n]} ELSE {}
Rest(f, n) ==
  IF f.size > n THEN {[block |-> f.block + n, owner |-> f.owner, size |-> f.size - n]} ELSE {}
Taken(f, n) == [block |-> f.block, owner |-> f.owner, size |-> n]

Found(t) ==
  /\ pc[t] \in {"search", "search_again"} /\ mutex = t
  /\ \E f \in m_freelist :
       /\ FirstFit(f, nbytes[t])
       /\ m_busylist' = m_busylist \cup {Taken(f, nbytes[t])}
       /\ m_freelist' = (m_freelist \ {f}) \cup Rest(f, nbytes[t])
  /\ m_actually_used' = m_actually_used + nbytes[t]
  /\ Unlock /\ Goto(t, "idle")
  /\ UNCHANGED <<m_alloc, m_used, cont, locals, to_free, sys, elixir>>

\* Nothing fits: Gpu::clearFreeAsyncBuffer is called without the mutex.
NotFound(t) ==
  /\ pc[t] = "search" /\ mutex = t /\ Gpu /\ NoFit(nbytes[t])
  /\ Unlock /\ Goto(t, "clear_async")
  /\ UNCHANGED <<lists, cont, locals, to_free, sys, elixir>>

SearchAgain(t) ==
  /\ pc[t] = "clear_async" /\ Lock(t)
  /\ Goto(t, "search_again")
  /\ UNCHANGED <<lists, cont, locals, to_free, sys, elixir>>

Larger(a, b) == IF a >= b THEN a ELSE b

\* A new hunk is needed.  With defragmentation, hunks that can go are merged into one new
\* hunk of the same total size when that is large enough.
NeedHunk(t) ==
  /\ pc[t] = (IF Gpu THEN "search_again" ELSE "search") /\ mutex = t /\ NoFit(nbytes[t])
  /\ LET size     == Larger(Hunk, nbytes[t])
         freeable == Bytes({h \in m_alloc : Freeable(h)})
         defrag   == ~freeunused_called[t] /\ Defragmentation /\ freeable >= size
     IN /\ N' = [N EXCEPT ![t] = IF defrag THEN freeable ELSE size]
        /\ cont' = [cont EXCEPT ![t] = "allocate"]
        /\ Goto(t, IF defrag THEN "free_unused" ELSE "allocate")
  /\ UNCHANGED <<lists, mutex, nbytes, freeunused_called, to_free, sys, elixir>>

\* External: memory the system can give for a hunk of this size.
SystemCanGive(h) ==
  /\ h \in Hunks /\ HunkEnd(h) <= MaxAddr + 1
  /\ \A g \in sys : HunkEnd(h) <= g.base \/ HunkEnd(g) <= h.base

\* allocate_system succeeds: the hunk's first nbytes are handed out, the rest is free.
NewHunk(t, base) ==
  LET h == [base |-> base, size |-> N[t]]
  IN /\ pc[t] \in {"allocate", "allocate_again"} /\ mutex = t
     /\ SystemCanGive(h)
     /\ sys' = sys \cup {h}
     /\ m_used' = m_used + N[t]
     /\ m_alloc' = m_alloc \cup {h}
     /\ m_freelist' = m_freelist \cup Rest(WholeHunk(h), nbytes[t])
     /\ m_busylist' = m_busylist \cup {Taken(WholeHunk(h), nbytes[t])}
     /\ m_actually_used' = m_actually_used + nbytes[t]
     /\ Unlock /\ Goto(t, "idle")
     /\ UNCHANGED <<cont, locals, to_free, elixir>>

\* allocate_system gets nothing, also for reasons of the system's own: it calls
\* freeUnused_protected and tries once more, then the process aborts.
SystemRefuses(t) ==
  /\ mutex = t
  /\ \/ /\ pc[t] = "allocate"
        /\ Goto(t, "free_unused")
        /\ cont' = [cont EXCEPT ![t] = "allocate_again"]
        /\ UNCHANGED mutex
     \/ /\ pc[t] = "allocate_again"
        /\ mutex' = Aborted
        /\ UNCHANGED <<pc, cont>>
  /\ UNCHANGED <<lists, locals, to_free, sys, elixir>>

----------------------------------------------------------------------------
(* Operations on a block a client holds.                                   *)

\* b goes to the free list and is merged with the free neighbours of its hunk: lo and hi
\* are those neighbours, or b itself on a side where there is none.
Coalesce_LowOnly(b) ==
  \E lo \in m_freelist \cup {b} :
    /\ IF lo = b THEN \A f \in m_freelist : ~Below(f, b) ELSE Below(lo, b)
    /\ m_freelist' = (m_freelist \ {lo})
         \cup {[block |-> lo.block, owner |-> b.owner, size |-> End(b) - lo.block]}

Coalesce(b) ==
  \E lo, hi \in m_freelist \cup {b} :
    /\ IF lo = b THEN \A f \in m_freelist : ~Below(f, b) ELSE Below(lo, b)
    /\ IF hi = b THEN \A f \in m_freelist : ~Below(b, f) ELSE Below(b, hi)
    /\ m_freelist' = (m_freelist \ {lo, hi})
         \cup {[block |-> lo.block, owner |-> b.owner, size |-> End(hi) - lo.block]}

FreeBlock(b) ==
  /\ m_actually_used' = m_actually_used - b.size
  /\ Coalesce(b)
  /\ m_busylist' = m_busylist \ {b}
  /\ UNCHANGED <<m_alloc, m_used>>

\* free(pt) by a thread, also by one that is clearing the freeAsync buffer.
Free(t, b) ==
  /\ pc[t] \in {"idle", "clear_async"} /\ mutex = NoThread
  /\ b.block \notin elixir
  /\ FreeBlock(b)
  /\ UNCHANGED <<mutex, pc, cont, locals, to_free, sys, elixir>>

\* Gpu::Elixir::clear queues a host function that will free b; the stream runs it later.
QueueElixir(t, b) ==
  /\ Gpu /\ pc[t] = "idle"
  /\ b.block \notin elixir
  /\ elixir' = elixir \cup {b.block}
  /\ UNCHANGED <<lists, mutex, pc, cont, locals, to_free, sys>>

HostFunction(b) ==
  /\ mutex = NoThread
  /\ b.block \in elixir
  /\ FreeBlock(b)
  /\ elixir' = elixir \ {b.block}
  /\ UNCHANGED <<mutex, pc, cont, locals, to_free, sys>>

\* shrink_in_place(pt, n): the tail becomes free, merged with a free neighbour.
Shrink_KeepsCount(b, n) == UNCHANGED m_actually_used
ShrinkCount(b, n) == m_actually_used' = m_actually_used - (b.size - n)

ShrinkInPlace(t, b, n) ==
  /\ pc[t] = "idle" /\ mutex = NoThread
  /\ b.block \notin elixir /\ n < b.size
  /\ \E hi \in m_freelist \cup {b} :
       /\ IF hi = b THEN \A f \in m_freelist : ~Below(b, f) ELSE Below(b, hi)
       /\ m_freelist' = (m_freelist \ {hi})
            \cup {[block |-> b.block + n, owner |-> b.owner, size |-> End(hi) - (b.block + n)]}
  /\ m_busylist' = (m_busylist \ {b}) \cup {Taken(b, n)}
  /\ ShrinkCount(b, n)
  /\ UNCHANGED <<m_alloc, m_used, mutex, pc, cont, locals, to_free, sys, elixir>>

\* The size b can be extended to: all of the free neighbour f, or the maximum asked for.
Extended(b, f, szmax) ==
  IF b.size + f.size >= szmax THEN szmax ELSE b.size + f.size

\* alloc_in_place(pt, szmin, szmax): grow into the free neighbour, else keep the block if
\* it is large enough, else allocate another one (pt is not freed).
AllocInPlace(t, b, szmin, szmax) ==
  /\ pc[t] = "idle"
  /\ b.block \notin elixir /\ szmin <= szmax /\ b.size < szmax
  /\ \/ \E f \in m_freelist :
          /\ mutex = NoThread /\ UNCHANGED mutex
          /\ Below(b, f) /\ b.size + f.size >= szmin
          /\ LET size == Extended(b, f, szmax)
             IN /\ m_freelist' = (m_freelist \ {f}) \cup Rest(Taken(b, b.size + f.size), size)
                /\ m_busylist' = (m_busylist \ {b}) \cup {Taken(b, size)}
                /\ m_actually_used' = m_actually_used + (size - b.size)
          /\ UNCHANGED <<m_alloc, m_used, pc, cont, locals, to_free, sys, elixir>>
     \/ /\ Lock(t)
        /\ b.size < szmin
        /\ \A f \in m_freelist : Below(b, f) => b.size + f.size < szmin
        /\ AllocProtected(t, szmax)

----------------------------------------------------------------------------

\* What a thread does on its own once it has entered the arena.
Inside(t) ==
  \/ FreeUnusedProtected(t) \/ Deallocate(t) \/ Relock(t) \/ Return(t)
  \/ Found(t) \/ NotFound(t) \/ SearchAgain(t) \/ NeedHunk(t) \/ SystemRefuses(t)
  \/ \E base \in Addr : NewHunk(t, base)

Call(t) ==
  \/ FreeUnused(t)
  \/ \E n \in Sizes : Alloc(t, n)
  \/ \E b \in m_busylist :
       \/ Free(t, b) \/ QueueElixir(t, b)
       \/ \E n \in Sizes : ShrinkInPlace(t, b, n)
       \/ \E szmin, szmax \in Sizes : AllocInPlace(t, b, szmin, szmax)

Next ==
  \/ \E t \in Threads : Inside(t) \/ Call(t)
  \/ \E b \in m_busylist : HostFunction(b)

Spec == Init /\ [][Next]_vars

----------------------------------------------------------------------------
(* Properties.                                                             *)

Labels == {"idle", "free_unused", "deallocate", "return", "search", "clear_async",
           "search_again", "allocate", "allocate_again"}

TypeOK ==
  /\ m_alloc \subseteq Hunks
  /\ m_freelist \subseteq Nodes /\ m_busylist \subseteq Nodes
  /\ m_used \in Int /\ m_actually_used \in Int
  /\ mutex \in Threads \cup {NoThread, Aborted}
  /\ pc \in [Threads -> Labels] /\ cont \in [Threads -> Labels]
  /\ nbytes \in [Threads -> Nat] /\ N \in [Threads -> Nat]
  /\ freeunused_called \in [Threads -> BOOLEAN]
  /\ to_free \in [Threads -> SUBSET Hunks]
  /\ sys \subseteq Hunks
  /\ elixir \subseteq Addr

\* Two blocks, busy or free, never share memory ("a block is either on the freelist or on
\* the blocklist, but not on both").
Apart(m, n) == End(m) <= n.block \/ End(n) <= m.block

BlocksDisjoint ==
  /\ \A m, n \in m_freelist \cup m_busylist : m # n => Apart(m, n)
  /\ m_freelist \cap m_busylist = {}

\* Every block lies in the hunk that owns it, and the arena still has that hunk: memory a
\* client holds has not been returned to the system.
InHunk(n, h) == n.owner = h.base /\ h.base <= n.block /\ End(n) <= HunkEnd(h)

BlocksInHunks == \A n \in m_freelist \cup m_busylist : \E h \in m_alloc : InHunk(n, h)

\* No memory of a hunk is lost: each unit belongs to a block.
HunksTiled ==
  \A h \in m_alloc : \A a \in h.base..(HunkEnd(h) - 1) :
    \E n \in m_freelist \cup m_busylist : n.owner = h.base /\ n.block <= a /\ a < End(n)

\* Free neighbours in one hunk are merged, so that an empty hunk is one free block and can
\* be given back.
Coalesced == \A m, n \in m_freelist : ~Below(m, n)

\* The system's hunks are exactly those of the arena and those being returned, each by one
\* thread: none is leaked, returned twice, or used again while it is being returned.
SystemHunks ==
  /\ sys = m_alloc \cup UNION {to_free[t] : t \in Threads}
  /\ \A t \in Threads : m_alloc \cap to_free[t] = {}
  /\ \A t, u \in Threads : t # u => to_free[t] \cap to_free[u] = {}

\* heap_space_used and heap_space_actually_used are the sizes of the hunks and of the
\* blocks handed out.
Accounting == m_used = Bytes(m_alloc) /\ m_actually_used = Bytes(m_busylist)

\* A thread that has the mutex can always go on: it never waits, with the mutex, for a
\* stream whose host function needs the mutex ("carena_mutex needs to be unlocked first to
\* avoid a deadlock").
HolderNeverWaits == \A t \in Threads : mutex = t => ENABLED Inside(t)
=============================================================================
