---------------------------- MODULE StreamManager ----------------------------
(***************************************************************************)
(* GPU streams and asynchronous frees: StreamManager and the stream part   *)
(* of Gpu::Device (Src/Base/AMReX_GpuDevice.cpp), composed with the        *)
(* locking of CArena::alloc and with the host functions of Gpu::Elixir.    *)
(*                                                                         *)
(* A stream is in order: the i-th piece of work given to it is done when   *)
(* done[s] >= i.  m_mutex of a StreamManager is held for single accesses   *)
(* only, so every step on a wait list is atomic; carena_mutex is explicit. *)
(***************************************************************************)
EXTENDS Integers, Sequences, FiniteSets

CONSTANTS
  Threads, Master,   \* OpenMP threads; the one that runs outside parallel regions
  NoThread, Aborted, \* carena_mutex is free; the process has aborted
  Blocks,            \* the memory of The_Arena
  max_gpu_streams,   \* size of the pool
  Streams,           \* the pool's and those a user supplies
  UserStreams,       \* those a user sets as external
  MaxDepth,          \* bound: nesting of external streams
  Limit,             \* length a wait list may have (100 in the code)
  MaxWork,           \* bound: work given to the streams before a last host function
  MaxAllocs          \* bound: allocations

ASSUME StreamAssumption ==
  /\ Master \in Threads /\ NoThread \notin Threads /\ Aborted \notin Threads
  /\ NoThread # Aborted
  /\ {"free", "deferred", "elixir"} \cap Threads = {}
  /\ max_gpu_streams \in Nat \ {0} /\ MaxDepth \in Nat
  /\ Streams \subseteq Nat /\ (1..max_gpu_streams) \cup UserStreams \subseteq Streams
  /\ Limit \in Nat /\ MaxWork \in Nat /\ MaxAllocs \in Nat

VARIABLES
  owner,             \* of a block: a thread, "free", "deferred", "elixir"
  issued, done,      \* per stream: work given to it, work it has done
  last,              \* last[b][s]: the last kernel on s that uses b
  host,              \* Elixir's host functions, with their place in a stream
  m_free_wait_list,  \* per StreamManager
  gpu_stream_index,  \* per thread
  depth, ext,        \* external_stream_stack: its size and entries
  mutex,             \* carena_mutex
  pc, after,         \* where a thread is, and goes when it has synchronised
  todo, clearing,    \* managers it still has to sync; only those with a list
  new_empty_wait_list, target,  \* locals of sync()
  allocs

work   == <<issued, done, last, host>>
config == <<gpu_stream_index, depth, ext>>
locals == <<after, todo, clearing, new_empty_wait_list, target>>
vars   == <<owner, work, m_free_wait_list, config, mutex, pc, locals, allocs>>

Pool     == 1..max_gpu_streams
Managers == 1..(max_gpu_streams + MaxDepth)

\* The StreamManager of the external stream at depth d.
External(d) == max_gpu_streams + d
m_stream(m) == IF m \in Pool THEN m ELSE ext[m - max_gpu_streams].stream

\* The manager and the stream a thread's kernels and frees go to (Device::gpuStream).
CurrentManager(t) == IF depth > 0 THEN External(depth) ELSE gpu_stream_index[t]
gpuStream(t) == m_stream(CurrentManager(t))

PoolSeq     == [i \in Pool |-> i]
ExternalSeq == [d \in 1..depth |-> External(d)]

Init ==
  /\ owner = [b \in Blocks |-> "free"]
  /\ issued = [s \in Streams |-> 0] /\ done = [s \in Streams |-> 0]
  /\ last = [b \in Blocks |-> [s \in Streams |-> 0]]
  /\ host = {}
  /\ m_free_wait_list = [m \in Managers |-> {}]
  /\ gpu_stream_index = [t \in Threads |-> 1]
  /\ depth = 0 /\ ext = [d \in 1..MaxDepth |-> [stream |-> 1, saved_stream_index |-> 1]]
  /\ mutex = NoThread
  /\ pc = [t \in Threads |-> "idle"] /\ after = [t \in Threads |-> "idle"]
  /\ todo = [t \in Threads |-> <<>>] /\ clearing = [t \in Threads |-> FALSE]
  /\ new_empty_wait_list = [t \in Threads |-> {}] /\ target = [t \in Threads |-> 0]
  /\ allocs = 0

\* Where a thread can be, and where it goes when it has synchronised.
Labels == {"idle", "sync", "swapped", "waiting", "freeing", "pop",
           "search", "search_again", "cleared"}
Afters == {"idle", "pop", "cleared"}

\* Blocks, streams, lists and threads stay within their types.
TypeOK ==
  /\ owner \in [Blocks -> Threads \cup {"free", "deferred", "elixir"}]
  /\ issued \in [Streams -> Nat] /\ done \in [Streams -> Nat]
  /\ last \in [Blocks -> [Streams -> Nat]]
  /\ host \subseteq [stream : Streams, place : Nat, block : Blocks]
  /\ m_free_wait_list \in [Managers -> SUBSET Blocks]
  /\ gpu_stream_index \in [Threads -> Pool] /\ depth \in 0..MaxDepth
  /\ ext \in [1..MaxDepth -> [stream : Streams, saved_stream_index : Pool]]
  /\ mutex \in Threads \cup {NoThread, Aborted}
  /\ pc \in [Threads -> Labels] /\ after \in [Threads -> Afters]
  /\ todo \in [Threads -> Seq(Managers)] /\ clearing \in [Threads -> BOOLEAN]
  /\ new_empty_wait_list \in [Threads -> SUBSET Blocks] /\ target \in [Threads -> Nat]
  /\ allocs \in 0..MaxAllocs

Goto(t, l) == pc' = [pc EXCEPT ![t] = l]
Unlock     == mutex' = NoThread
Lock(t)    == mutex = NoThread /\ mutex' = t

\* Outside OpenMP parallel regions the other threads are idle.  While the master resets an
\* external stream there is no such region.
InParallel == \E t \in Threads \ {Master} : pc[t] # "idle"
MayCall(t) == pc[t] = "idle" /\ after[Master] # "pop"

Using(b, s) == last[b][s] > done[s]
InUse(b)    == \E s \in Streams : Using(b, s)

----------------------------------------------------------------------------
(* The streams (external): kernels and host functions, in order.           *)

WorkGiven == {w \in Streams \X (1..MaxWork + 1) : w[2] <= issued[w[1]]}

Launch(t, b) ==
  LET s == gpuStream(t) IN
  /\ MayCall(t) /\ owner[b] = t /\ Cardinality(WorkGiven) < MaxWork
  /\ issued' = [issued EXCEPT ![s] = @ + 1]
  /\ last' = [last EXCEPT ![b][s] = issued[s] + 1]
  /\ UNCHANGED <<owner, done, host, m_free_wait_list, config, mutex, pc, locals, allocs>>

IsHost(s, i, b) == [stream |-> s, place |-> i, block |-> b] \in host

Kernel(s) ==
  /\ done[s] < issued[s]
  /\ \A b \in Blocks : ~IsHost(s, done[s] + 1, b)
  /\ done' = [done EXCEPT ![s] = @ + 1]
  /\ UNCHANGED <<owner, issued, last, host, m_free_wait_list, config, mutex, pc, locals, allocs>>

\* amrex_elixir_delete: the stream stands still until it has carena_mutex.
HostFunction(s) ==
  /\ done[s] < issued[s]
  /\ mutex = NoThread
  /\ \E b \in Blocks :
       /\ IsHost(s, done[s] + 1, b)
       /\ owner' = [owner EXCEPT ![b] = "free"]
       /\ host' = host \ {[stream |-> s, place |-> done[s] + 1, block |-> b]}
  /\ done' = [done EXCEPT ![s] = @ + 1]
  /\ UNCHANGED <<issued, last, m_free_wait_list, config, mutex, pc, locals, allocs>>

\* What a client must see to before it gives up b: kernels on other streams are done
\* ("kernels that were already launched on the currently active stream can still continue
\* to use the memory").
OthersDone(b, s) == \A r \in Streams \ {s} : ~Using(b, r)

\* Elixir::clear.
QueueElixir(t, b) ==
  LET s == gpuStream(t) IN
  /\ MayCall(t) /\ owner[b] = t /\ Cardinality(WorkGiven) <= MaxWork
  /\ OthersDone(b, s)
  /\ owner' = [owner EXCEPT ![b] = "elixir"]
  /\ issued' = [issued EXCEPT ![s] = @ + 1]
  /\ host' = host \cup {[stream |-> s, place |-> issued[s] + 1, block |-> b]}
  /\ UNCHANGED <<done, last, m_free_wait_list, config, mutex, pc, locals, allocs>>

----------------------------------------------------------------------------
(* StreamManager::sync, of each manager in todo[t].                        *)

\* The thread goes on to sync the managers ms and then to l.
StartSync(t, ms, l, c) ==
  /\ todo' = [todo EXCEPT ![t] = ms]
  /\ after' = [after EXCEPT ![t] = l]
  /\ clearing' = [clearing EXCEPT ![t] = c]
  /\ Goto(t, "sync")
  /\ UNCHANGED <<new_empty_wait_list, target>>

\* On to the next manager; after the last one the loop is over.
NextManager(t) ==
  /\ todo' = [todo EXCEPT ![t] = Tail(@)]
  /\ IF Len(todo[t]) > 1
       THEN Goto(t, "sync") /\ UNCHANGED <<after, clearing>>
       ELSE /\ Goto(t, after[t])
            /\ after' = [after EXCEPT ![t] = IF @ = "pop" THEN @ ELSE "idle"]
            /\ clearing' = [clearing EXCEPT ![t] = FALSE]

\* clearFreeAsyncBuffer passes over a manager on whose list nothing waits.
PassOver(t) ==
  /\ pc[t] = "sync"
  /\ clearing[t] /\ m_free_wait_list[Head(todo[t])] = {}
  /\ NextManager(t)
  /\ UNCHANGED <<owner, work, m_free_wait_list, config, mutex, new_empty_wait_list,
                 target, allocs>>

\* m_free_wait_list.swap(new_empty_wait_list), under m_mutex.
Swap(t) ==
  /\ pc[t] = "sync"
  /\ clearing[t] => m_free_wait_list[Head(todo[t])] # {}
  /\ LET m == Head(todo[t])
     IN /\ new_empty_wait_list' = [new_empty_wait_list EXCEPT ![t] = m_free_wait_list[m]]
        /\ m_free_wait_list' = [m_free_wait_list EXCEPT ![m] = {}]
  /\ Goto(t, "swapped")
  /\ UNCHANGED <<owner, work, config, mutex, after, todo, clearing, target, allocs>>

\* The stream is asked for what has been given to it by now...
SyncStream(t) ==
  /\ pc[t] = "swapped"
  /\ target' = [target EXCEPT ![t] = issued[m_stream(Head(todo[t]))]]
  /\ Goto(t, "waiting")
  /\ UNCHANGED <<owner, work, m_free_wait_list, config, mutex,
                 after, todo, clearing, new_empty_wait_list, allocs>>

\* ... and answers when it has done that.
StreamSynced_SwapsHere(t) ==
  /\ pc[t] = "waiting"
  /\ done[m_stream(Head(todo[t]))] >= target[t]
  /\ target' = [target EXCEPT ![t] = 0]
  /\ LET m == Head(todo[t])
     IN /\ new_empty_wait_list' = [new_empty_wait_list EXCEPT ![t] = @ \cup m_free_wait_list[m]]
        /\ m_free_wait_list' = [m_free_wait_list EXCEPT ![m] = {}]
  /\ Goto(t, "freeing")
  /\ UNCHANGED <<owner, work, config, mutex, after, todo, clearing, allocs>>

StreamSynced(t) ==
  /\ pc[t] = "waiting"
  /\ done[m_stream(Head(todo[t]))] >= target[t]
  /\ target' = [target EXCEPT ![t] = 0]
  /\ Goto(t, "freeing")
  /\ UNCHANGED <<owner, work, m_free_wait_list, config, mutex,
                 after, todo, clearing, new_empty_wait_list, allocs>>

\* arena->free(mem).
FreeOne(t) ==
  /\ pc[t] = "freeing" /\ mutex = NoThread
  /\ \E b \in new_empty_wait_list[t] :
       /\ owner' = [owner EXCEPT ![b] = "free"]
       /\ new_empty_wait_list' = [new_empty_wait_list EXCEPT ![t] = @ \ {b}]
  /\ UNCHANGED <<work, m_free_wait_list, config, mutex, pc, after, todo, clearing, target, allocs>>

Freed(t) ==
  /\ pc[t] = "freeing" /\ new_empty_wait_list[t] = {}
  /\ NextManager(t)
  /\ UNCHANGED <<owner, work, m_free_wait_list, config, mutex, new_empty_wait_list,
                 target, allocs>>

\* streamSynchronize() and streamSynchronizeAll().
StreamSynchronize(t) ==
  /\ MayCall(t)
  /\ StartSync(t, <<CurrentManager(t)>>, "idle", FALSE)
  /\ UNCHANGED <<owner, work, m_free_wait_list, config, mutex, allocs>>

StreamSynchronizeAll(t) ==
  /\ MayCall(t)
  /\ StartSync(t, ExternalSeq \o PoolSeq, "idle", FALSE)
  /\ UNCHANGED <<owner, work, m_free_wait_list, config, mutex, allocs>>

\* streamSynchronize(s): every external manager of s in turn, or else the pool's.
ManagersOf(s) ==
  LET external == {External(d) : d \in {e \in 1..depth : ext[e].stream = s}}
  IN IF external # {} THEN external ELSE Pool \cap {s}

StreamSynchronizeOne(t, s) ==
  /\ MayCall(t)
  /\ ManagersOf(s) # {}
  /\ \E ms \in [1..Cardinality(ManagersOf(s)) -> ManagersOf(s)] :
       /\ \A i, j \in DOMAIN ms : i < j => ms[i] < ms[j]
       /\ StartSync(t, ms, "idle", FALSE)
  /\ UNCHANGED <<owner, work, m_free_wait_list, config, mutex, allocs>>

----------------------------------------------------------------------------
(* StreamManager::free_async, for freeAsync and streamOrderedFreeAsync.    *)

TooLong(list) == Cardinality(list) > Limit

FreeAsyncOn(t, b, m) ==
  LET list == m_free_wait_list[m] \cup {b} IN
  /\ owner' = [owner EXCEPT ![b] = "deferred"]
  /\ m_free_wait_list' = [m_free_wait_list EXCEPT ![m] = list]
  /\ IF TooLong(list) THEN StartSync(t, <<m>>, "idle", FALSE)
                      ELSE UNCHANGED <<pc, locals>>
  /\ UNCHANGED <<work, config, mutex, allocs>>

FreeAsync(t, b) ==
  /\ MayCall(t) /\ owner[b] = t
  /\ OthersDone(b, gpuStream(t))
  /\ FreeAsyncOn(t, b, CurrentManager(t))

\* The innermost manager of stream s: of external streams first, then of the pool.
ManagerOf(s, m) ==
  \/ \E d \in 1..depth : /\ m = External(d) /\ ext[d].stream = s
                         /\ \A e \in (d + 1)..depth : ext[e].stream # s
  \/ /\ \A d \in 1..depth : ext[d].stream # s
     /\ m = s /\ s \in Pool

StreamOrderedFreeAsync(t, b, s) ==
  /\ MayCall(t) /\ owner[b] = t
  /\ OthersDone(b, s)
  /\ \E m \in Managers : ManagerOf(s, m) /\ FreeAsyncOn(t, b, m)

\* The stream is not managed (any more): Abort.
StreamNotManaged(t, b, s) ==
  /\ MayCall(t) /\ owner[b] = t /\ mutex = NoThread
  /\ \A m \in Managers : ~ManagerOf(s, m)
  /\ mutex' = Aborted
  /\ UNCHANGED <<owner, work, m_free_wait_list, config, pc, locals, allocs>>

----------------------------------------------------------------------------
(* The arena (CArena::alloc and free, as far as locks are concerned).      *)

Alloc(t) ==
  /\ MayCall(t) /\ allocs < MaxAllocs
  /\ Lock(t)
  /\ allocs' = allocs + 1
  /\ Goto(t, "search")
  /\ UNCHANGED <<owner, work, m_free_wait_list, config, locals>>

Found(t) ==
  /\ pc[t] \in {"search", "search_again"} /\ mutex = t
  /\ \E b \in Blocks :
       /\ owner[b] = "free"
       /\ owner' = [owner EXCEPT ![b] = t]
       /\ last' = [last EXCEPT ![b] = [s \in Streams |-> 0]]
  /\ Unlock /\ Goto(t, "idle")
  /\ UNCHANGED <<issued, done, host, m_free_wait_list, config, locals, allocs>>

\* clearFreeAsyncBuffer is called without carena_mutex.
NotFound_KeepsMutex(t) ==
  /\ pc[t] = "search" /\ mutex = t
  /\ \A b \in Blocks : owner[b] # "free"
  /\ StartSync(t, PoolSeq \o ExternalSeq, "cleared", TRUE)
  /\ UNCHANGED <<owner, work, m_free_wait_list, config, mutex, allocs>>

NotFound(t) ==
  /\ pc[t] = "search" /\ mutex = t
  /\ \A b \in Blocks : owner[b] # "free"
  /\ Unlock
  /\ StartSync(t, PoolSeq \o ExternalSeq, "cleared", TRUE)
  /\ UNCHANGED <<owner, work, m_free_wait_list, config, allocs>>

SearchAgain(t) ==
  /\ pc[t] = "cleared" /\ Lock(t)
  /\ Goto(t, "search_again")
  /\ UNCHANGED <<owner, work, m_free_wait_list, config, locals, allocs>>

\* The system gives no further hunk: the process aborts.
OutOfMemory(t) ==
  /\ pc[t] = "search_again" /\ mutex = t
  /\ \A b \in Blocks : owner[b] # "free"
  /\ mutex' = Aborted
  /\ UNCHANGED <<owner, work, m_free_wait_list, config, pc, locals, allocs>>

\* free() of memory no kernel uses: by a client, or by free_async when the memory is not
\* accessible to the device.
Free(t, b) ==
  /\ MayCall(t) /\ owner[b] = t /\ ~InUse(b) /\ mutex = NoThread
  /\ owner' = [owner EXCEPT ![b] = "free"]
  /\ UNCHANGED <<work, m_free_wait_list, config, mutex, pc, locals, allocs>>

----------------------------------------------------------------------------
(* Which stream is current.                                                *)

StreamOfIndex(idx) == (idx % max_gpu_streams) + 1

SetStreamIndex(t, idx) ==
  /\ MayCall(t)
  /\ gpu_stream_index' = [gpu_stream_index EXCEPT ![t] = StreamOfIndex(idx)]
  /\ UNCHANGED <<owner, work, m_free_wait_list, depth, ext, mutex, pc, locals, allocs>>

SetExternalStream(s) ==
  /\ MayCall(Master) /\ ~InParallel /\ depth < MaxDepth
  /\ depth' = depth + 1
  /\ ext' = [ext EXCEPT ![depth + 1] =
               [stream |-> s, saved_stream_index |-> gpu_stream_index[Master]]]
  /\ UNCHANGED <<owner, work, m_free_wait_list, gpu_stream_index, mutex, pc,
                 locals, allocs>>

\* resetExternalStream synchronises if asked to, or if memory waits.
ResetMustSync_OnlyIfAsked(sync) == sync
ResetMustSync(sync) == sync \/ m_free_wait_list[External(depth)] # {}

ResetExternalStream(sync) ==
  /\ MayCall(Master) /\ ~InParallel /\ depth > 0
  /\ IF ResetMustSync(sync)
       THEN StartSync(Master, <<External(depth)>>, "pop", FALSE)
       ELSE /\ Goto(Master, "pop")
            /\ after' = [after EXCEPT ![Master] = "pop"]
            /\ UNCHANGED <<todo, clearing, new_empty_wait_list, target>>
  /\ UNCHANGED <<owner, work, m_free_wait_list, config, mutex, allocs>>

\* The manager is destroyed, with what is on its list.
PopExternalStream ==
  /\ pc[Master] = "pop"
  /\ depth' = depth - 1
  /\ m_free_wait_list' = [m_free_wait_list EXCEPT ![External(depth)] = {}]
  /\ gpu_stream_index' = [gpu_stream_index EXCEPT ![Master] = ext[depth].saved_stream_index]
  /\ ext' = [ext EXCEPT ![depth] = [stream |-> 1, saved_stream_index |-> 1]]
  /\ Goto(Master, "idle")
  /\ after' = [after EXCEPT ![Master] = "idle"]
  /\ UNCHANGED <<owner, work, mutex, todo, clearing, new_empty_wait_list, target, allocs>>

----------------------------------------------------------------------------

Inside(t) ==
  \/ t = Master /\ PopExternalStream
  \/ PassOver(t) \/ Swap(t) \/ SyncStream(t) \/ StreamSynced(t)
  \/ FreeOne(t) \/ Freed(t)
  \/ Found(t) \/ NotFound(t) \/ SearchAgain(t) \/ OutOfMemory(t)

Run(s) == Kernel(s) \/ HostFunction(s)

Call(t) ==
  \/ StreamSynchronize(t) \/ StreamSynchronizeAll(t) \/ Alloc(t)
  \/ \E idx \in 0..max_gpu_streams : SetStreamIndex(t, idx)
  \/ \E s \in Streams : StreamSynchronizeOne(t, s)
  \/ \E b \in Blocks :
       \/ Launch(t, b) \/ QueueElixir(t, b) \/ FreeAsync(t, b) \/ Free(t, b)
       \/ \E s \in Streams : StreamOrderedFreeAsync(t, b, s) \/ StreamNotManaged(t, b, s)

Next ==
  \/ \E t \in Threads : Inside(t) \/ Call(t)
  \/ \E s \in Streams : Run(s)
  \/ \E s \in UserStreams : SetExternalStream(s)
  \/ \E sync \in BOOLEAN : ResetExternalStream(sync)

\* A call that has begun goes on, and streams run.
Fairness ==
  /\ \A t \in Threads : WF_vars(Inside(t))
  /\ \A s \in Streams : WF_vars(Run(s))

Spec == Init /\ [][Next]_vars /\ Fairness

----------------------------------------------------------------------------
(* Properties.                                                             *)

\* Memory given up asynchronously is reused only when the kernels launched before are done:
\* the streams, their managers, the arena's clearing of their lists and Elixirs implement
\* AsyncMemory.
Async == INSTANCE AsyncMemory WITH
  held     <- {b \in Blocks : owner[b] \in Threads},
  released <- {b \in Blocks : owner[b] \in {"deferred", "elixir"}},
  busy     <- {b \in Blocks : InUse(b)}

Promise == Async!Spec

\* A block that was freed asynchronously waits in exactly one place, on the list of a
\* manager in force or with one thread that is synchronising: it is neither lost with an
\* external stream that is reset nor freed twice.
InForce == Pool \cup {External(d) : d \in 1..depth}
Waiting(b) ==
  {m \in InForce : b \in m_free_wait_list[m]} \X {NoThread}
    \cup {0} \X {t \in Threads : b \in new_empty_wait_list[t]}

NothingLost ==
  \A b \in Blocks : Cardinality(Waiting(b)) = (IF owner[b] = "deferred" THEN 1 ELSE 0)

\* Every call returns: threads that allocate, free and synchronise, and streams whose host
\* functions free, never wait for one another in a circle ("to avoid deadlocks from the
\* CArena mutex").
CallsReturn ==
  \A t \in Threads : (pc[t] # "idle") ~> (pc[t] = "idle" \/ mutex = Aborted)
=============================================================================
