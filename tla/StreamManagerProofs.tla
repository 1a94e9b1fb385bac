------------------------- MODULE StreamManagerProofs -------------------------
(***************************************************************************)
(* Proofs about StreamManager, for any number of threads, streams, blocks  *)
(* and nested external streams: it implements AsyncMemory, and no block is *)
(* lost or freed twice.                                                    *)
(***************************************************************************)
EXTENDS StreamManager, FiniteSetTheorems, SequenceTheorems, TLAPS

Syncing(t) == pc[t] \in {"sync", "swapped", "waiting", "freeing"}
Resetting  == after[Master] = "pop"

\* The stream whose work a thread waits for.
SyncedStream(t) == m_stream(Head(todo[t]))

\* Only a thread that synchronises holds a list.  While the master resets an external
\* stream all other threads are idle, and nothing waits there once its list has been taken.
Calls ==
  /\ \A t \in Threads :
       /\ Syncing(t) => todo[t] # <<>>
       /\ new_empty_wait_list[t] # {} => pc[t] \in {"swapped", "waiting", "freeing"}
       /\ t # Master => pc[t] # "pop" /\ after[t] # "pop"
       /\ t # Master /\ Resetting => pc[t] = "idle"
  /\ pc[Master] = "pop" => Resetting
  /\ Resetting =>
       /\ depth > 0
       /\ Syncing(Master) => todo[Master] = <<External(depth)>> /\ ~clearing[Master]
       /\ pc[Master] # "sync" =>
            pc[Master] \in Labels \ {"idle", "search", "search_again", "cleared"}
              /\ m_free_wait_list[External(depth)] = {}

\* A deferred block is on one list, of a manager in force, or with one thread.
Lists ==
  /\ \A m \in Managers \ InForce : m_free_wait_list[m] = {}
  /\ \A m \in Managers : \A b \in m_free_wait_list[m] :
       /\ owner[b] = "deferred"
       /\ \A n \in Managers : b \in m_free_wait_list[n] => n = m
       /\ \A t \in Threads : b \notin new_empty_wait_list[t]
  /\ \A t \in Threads : \A b \in new_empty_wait_list[t] :
       /\ owner[b] = "deferred"
       /\ \A u \in Threads : b \in new_empty_wait_list[u] => u = t
  /\ \A b \in Blocks : owner[b] = "deferred" =>
       \/ \E m \in Managers : b \in m_free_wait_list[m]
       \/ \E t \in Threads : b \in new_empty_wait_list[t]

\* What may still use a block: nothing if it is free, the kernels of one stream if it waits
\* for that stream, which are done when the stream has answered.
Streamed ==
  /\ \A s \in Streams : done[s] <= issued[s]
  /\ \A b \in Blocks, s \in Streams : last[b][s] <= issued[s]

Uses ==
  /\ \A b \in Blocks : owner[b] = "free" => ~InUse(b)
  /\ \A m \in Managers : \A b \in m_free_wait_list[m] : OthersDone(b, m_stream(m))
  /\ \A t \in Threads : \A b \in new_empty_wait_list[t] :
       /\ OthersDone(b, SyncedStream(t))
       /\ pc[t] = "waiting" => last[b][SyncedStream(t)] <= target[t]
       /\ pc[t] = "freeing" => ~InUse(b)

\* The host function of an Elixir comes after all kernels that use its memory.
Elixirs ==
  /\ \A h \in host :
       /\ owner[h.block] = "elixir" /\ OthersDone(h.block, h.stream)
       /\ last[h.block][h.stream] < h.place /\ h.place <= issued[h.stream]
       /\ \A b \in Blocks : last[b][h.stream] # h.place
       /\ \A i \in host : i.block = h.block => i = h

IInv == TypeOK /\ Calls /\ Lists /\ Streamed /\ Uses /\ Elixirs

----------------------------------------------------------------------------
(* Managers and their streams.                                             *)

LEMMA ManagersTyped ==
  ASSUME TypeOK
  PROVE  /\ Pool \subseteq Managers /\ Pool \subseteq Streams /\ InForce \subseteq Managers
         /\ \A d \in 1..MaxDepth : /\ External(d) \in Managers \ Pool
                                  /\ External(d) - max_gpu_streams = d
         /\ \A m \in Managers \ Pool : m - max_gpu_streams \in 1..MaxDepth
         /\ \A m \in Managers : m_stream(m) \in Streams
         /\ \A t \in Threads : CurrentManager(t) \in InForce
         /\ depth \in 0..MaxDepth /\ MaxDepth \in Nat /\ 1..depth \subseteq 1..MaxDepth
<1>1. \A d \in 1..MaxDepth : /\ External(d) \in Managers \ Pool
                            /\ External(d) - max_gpu_streams = d
  BY StreamAssumption DEF External, Managers, Pool
<1>2. Pool \subseteq Managers /\ Pool \subseteq Streams
  BY StreamAssumption DEF Managers, Pool
<1>3. \A m \in Managers \ Pool : m - max_gpu_streams \in 1..MaxDepth
  BY StreamAssumption DEF Managers, Pool
<1>4. depth \in 0..MaxDepth /\ MaxDepth \in Nat /\ 1..depth \subseteq 1..MaxDepth
  BY StreamAssumption DEF TypeOK
<1>5. InForce \subseteq Managers
  BY <1>1, <1>2, <1>4 DEF InForce
<1>6. \A m \in Managers : m_stream(m) \in Streams
  BY <1>2, <1>3 DEF TypeOK, m_stream
<1>7. \A t \in Threads : CurrentManager(t) \in InForce
  BY StreamAssumption DEF TypeOK, CurrentManager, InForce
<1> QED
  BY <1>1, <1>2, <1>3, <1>4, <1>5, <1>6, <1>7

\* The managers a call synchronises make up a sequence that is not empty.
LEMMA ToSync ==
  ASSUME TypeOK
  PROVE  /\ PoolSeq \in Seq(Managers) /\ PoolSeq # <<>> /\ ExternalSeq \in Seq(Managers)
         /\ ExternalSeq \o PoolSeq \in Seq(Managers) /\ ExternalSeq \o PoolSeq # <<>>
         /\ PoolSeq \o ExternalSeq \in Seq(Managers) /\ PoolSeq \o ExternalSeq # <<>>
<1>1. PoolSeq \in Seq(Managers) /\ Len(PoolSeq) = max_gpu_streams
  BY ManagersTyped, StreamAssumption DEF PoolSeq, Pool
<1>2. ExternalSeq \in Seq(Managers) /\ Len(ExternalSeq) \in Nat
  BY ManagersTyped DEF ExternalSeq
<1>3. max_gpu_streams > 0
  BY StreamAssumption
<1> HIDE DEF PoolSeq, ExternalSeq
<1> QED
  BY <1>1, <1>2, <1>3

LEMMA SomeToSync ==
  ASSUME TypeOK, NEW s \in Streams, ManagersOf(s) # {},
         NEW ms \in [1..Cardinality(ManagersOf(s)) -> ManagersOf(s)]
  PROVE  ms \in Seq(Managers) /\ ms # <<>>
<1>1. ManagersOf(s) \subseteq Managers
  BY ManagersTyped DEF ManagersOf
<1>2. IsFiniteSet(Managers)
  BY FS_Interval, StreamAssumption DEF Managers
<1>3. Cardinality(ManagersOf(s)) \in Nat \ {0}
  BY <1>1, <1>2, FS_Subset, FS_CardinalityType, FS_EmptySet
<1> QED
  BY <1>1, <1>3

----------------------------------------------------------------------------
(* Type correctness.                                                       *)

LEMMA InitType == Init => TypeOK
<1> SUFFICES ASSUME Init PROVE TypeOK
  OBVIOUS
<1>1. 1 \in Pool /\ Pool \subseteq Streams /\ MaxDepth \in Nat
  BY StreamAssumption DEF Pool
<1> QED
  BY <1>1, StreamAssumption DEF Init, TypeOK, Labels, Afters

\* The locals of a thread that starts to synchronise, or goes on to the next manager.
LEMMA StartSyncType ==
  ASSUME TypeOK, NEW t \in Threads, NEW ms \in Seq(Managers), NEW l \in Afters,
         NEW c \in BOOLEAN, StartSync(t, ms, l, c)
  PROVE  /\ pc' \in [Threads -> Labels] /\ after' \in [Threads -> Afters]
         /\ todo' \in [Threads -> Seq(Managers)] /\ clearing' \in [Threads -> BOOLEAN]
         /\ new_empty_wait_list' \in [Threads -> SUBSET Blocks]
         /\ target' \in [Threads -> Nat]
BY DEF TypeOK, StartSync, Goto, Labels, Afters

LEMMA NextManagerType ==
  ASSUME TypeOK, NEW t \in Threads, todo[t] # <<>>, NextManager(t)
  PROVE  /\ pc' \in [Threads -> Labels] /\ after' \in [Threads -> Afters]
         /\ todo' \in [Threads -> Seq(Managers)] /\ clearing' \in [Threads -> BOOLEAN]
<1>1. Tail(todo[t]) \in Seq(Managers)
  BY DEF TypeOK
<1>2. todo' \in [Threads -> Seq(Managers)]
  BY <1>1 DEF TypeOK, NextManager
<1>3. pc' \in [Threads -> Labels] /\ after' \in [Threads -> Afters]
      /\ clearing' \in [Threads -> BOOLEAN]
  <2>1. CASE Len(todo[t]) > 1
    BY <2>1 DEF TypeOK, NextManager, Goto, Labels, Afters
  <2>2. CASE ~(Len(todo[t]) > 1)
    <3>1. after[t] \in Labels /\ "idle" \in Afters
      BY DEF TypeOK, Labels, Afters
    <3> QED
      BY <2>2, <3>1 DEF TypeOK, NextManager, Goto
  <2> QED
    BY <2>1, <2>2
<1> QED
  BY <1>2, <1>3

LEMMA InsideType ==
  ASSUME TypeOK, Calls, NEW t \in Threads, Inside(t)
  PROVE  TypeOK'
<1> USE DEF work, config, locals
<1>1. CASE PassOver(t)
  BY <1>1, NextManagerType DEF PassOver, Calls, Syncing, TypeOK
<1>2. CASE Swap(t)
  <2>1. Head(todo[t]) \in Managers
    BY <1>2 DEF Swap, Calls, Syncing, TypeOK
  <2> QED
    BY <1>2, <2>1 DEF Swap, Goto, Labels, Afters, TypeOK
<1>3. CASE SyncStream(t)
  <2>1. Head(todo[t]) \in Managers
    BY <1>3 DEF SyncStream, Calls, Syncing, TypeOK
  <2>2. issued[m_stream(Head(todo[t]))] \in Nat
    BY <2>1, ManagersTyped DEF TypeOK
  <2> QED
    BY <1>3, <2>2 DEF SyncStream, Goto, Labels, Afters, TypeOK
<1>4. CASE StreamSynced(t)
  BY <1>4 DEF StreamSynced, Goto, Labels, Afters, TypeOK
<1>5. CASE FreeOne(t)
  BY <1>5 DEF FreeOne, TypeOK
<1>6. CASE Freed(t)
  BY <1>6, NextManagerType DEF Freed, Calls, Syncing, TypeOK
<1>7. CASE Found(t)
  BY <1>7 DEF Found, Unlock, Goto, Labels, Afters, TypeOK
<1>8. CASE NotFound(t)
  <2>1. "cleared" \in Afters
    BY DEF Labels, Afters
  <2> QED
    BY <1>8, <2>1, ToSync, StartSyncType DEF NotFound, Unlock, TypeOK
<1>9. CASE SearchAgain(t)
  BY <1>9 DEF SearchAgain, Lock, Goto, Labels, Afters, TypeOK
<1>10. CASE OutOfMemory(t)
  BY <1>10 DEF OutOfMemory, TypeOK
<1>11. CASE t = Master /\ PopExternalStream
  <2>1. depth \in 1..MaxDepth /\ depth - 1 \in 0..MaxDepth
    <3>1. depth > 0
      BY <1>11 DEF PopExternalStream, Calls
    <3> QED
      BY <3>1, ManagersTyped
  <2>2. 1 \in Pool /\ 1 \in Streams
    BY StreamAssumption, ManagersTyped DEF Pool
  <2> QED
    BY <1>11, <2>1, <2>2, ManagersTyped DEF PopExternalStream, Goto, Labels, Afters, TypeOK
<1> QED
  BY <1>1, <1>2, <1>3, <1>4, <1>5, <1>6, <1>7, <1>8, <1>9, <1>10, <1>11 DEF Inside

\* A block that is freed asynchronously, on a manager in force.
LEMMA FreeAsyncOnType ==
  ASSUME TypeOK, NEW t \in Threads, NEW b \in Blocks, NEW m \in Managers,
         FreeAsyncOn(t, b, m)
  PROVE  TypeOK'
<1> DEFINE list == m_free_wait_list[m] \cup {b}
<1>1. <<m>> \in Seq(Managers) /\ "idle" \in Afters
  BY DEF Labels, Afters
<1>2. CASE TooLong(list)
  BY <1>1, <1>2, StartSyncType DEF FreeAsyncOn, work, config, TypeOK
<1>3. CASE ~TooLong(list)
  BY <1>3 DEF FreeAsyncOn, work, config, locals, TypeOK
<1> QED
  BY <1>2, <1>3

LEMMA CallType ==
  ASSUME TypeOK, NEW t \in Threads, Call(t)
  PROVE  TypeOK'
<1> USE DEF work, config, locals
<1>0. CurrentManager(t) \in Managers /\ gpuStream(t) \in Streams /\ "idle" \in Afters
  BY ManagersTyped DEF gpuStream, Labels, Afters
<1>1. CASE StreamSynchronize(t)
  <2>1. <<CurrentManager(t)>> \in Seq(Managers)
    BY <1>0
  <2> QED
    BY <1>0, <1>1, <2>1, StartSyncType DEF StreamSynchronize, TypeOK
<1>2. CASE StreamSynchronizeAll(t)
  BY <1>0, <1>2, ToSync, StartSyncType DEF StreamSynchronizeAll, TypeOK
<1>3. CASE Alloc(t)
  BY <1>3, StreamAssumption DEF Alloc, Lock, Goto, Labels, Afters, TypeOK
<1>4. ASSUME NEW idx \in 0..max_gpu_streams, SetStreamIndex(t, idx)
      PROVE  TypeOK'
  <2>1. StreamOfIndex(idx) \in Pool
    BY StreamAssumption DEF StreamOfIndex, Pool
  <2> QED
    BY <1>4, <2>1 DEF SetStreamIndex, TypeOK
<1>5. ASSUME NEW s \in Streams, StreamSynchronizeOne(t, s)
      PROVE  TypeOK'
  BY <1>0, <1>5, SomeToSync, StartSyncType DEF StreamSynchronizeOne, TypeOK
<1>6. ASSUME NEW b \in Blocks, Launch(t, b)
      PROVE  TypeOK'
  <2>1. issued[gpuStream(t)] + 1 \in Nat
    BY <1>0 DEF TypeOK
  <2>2. issued' \in [Streams -> Nat] /\ last' \in [Blocks -> [Streams -> Nat]]
    BY <1>0, <1>6, <2>1 DEF Launch, TypeOK
  <2> QED
    BY <1>6, <2>2 DEF Launch, TypeOK
<1>7. ASSUME NEW b \in Blocks, QueueElixir(t, b)
      PROVE  TypeOK'
  BY <1>0, <1>7 DEF QueueElixir, TypeOK
<1>8. ASSUME NEW b \in Blocks, FreeAsync(t, b)
      PROVE  TypeOK'
  BY <1>0, <1>8, FreeAsyncOnType DEF FreeAsync
<1>9. ASSUME NEW b \in Blocks, Free(t, b)
      PROVE  TypeOK'
  BY <1>9 DEF Free, TypeOK
<1>10. ASSUME NEW b \in Blocks, NEW s \in Streams, StreamOrderedFreeAsync(t, b, s)
       PROVE  TypeOK'
  BY <1>10, FreeAsyncOnType DEF StreamOrderedFreeAsync
<1>11. ASSUME NEW b \in Blocks, NEW s \in Streams, StreamNotManaged(t, b, s)
       PROVE  TypeOK'
  BY <1>11 DEF StreamNotManaged, TypeOK
<1> QED
  BY <1>1, <1>2, <1>3, <1>4, <1>5, <1>6, <1>7, <1>8, <1>9, <1>10, <1>11 DEF Call

LEMMA NextType ==
  ASSUME TypeOK, Calls, [Next]_vars
  PROVE  TypeOK'
<1> USE DEF work, config, locals
<1>1. ASSUME NEW t \in Threads, Inside(t)
      PROVE  TypeOK'
  BY <1>1, InsideType
<1>2. ASSUME NEW t \in Threads, Call(t)
      PROVE  TypeOK'
  BY <1>2, CallType
<1>3. ASSUME NEW s \in Streams, Kernel(s)
      PROVE  TypeOK'
  BY <1>3 DEF Kernel, TypeOK
<1>4. ASSUME NEW s \in Streams, HostFunction(s)
      PROVE  TypeOK'
  BY <1>4 DEF HostFunction, TypeOK
<1>5. ASSUME NEW s \in UserStreams, SetExternalStream(s)
      PROVE  TypeOK'
  <2>1. depth + 1 \in 1..MaxDepth /\ s \in Streams /\ Master \in Threads
    BY <1>5, ManagersTyped, StreamAssumption DEF SetExternalStream, TypeOK
  <2> QED
    BY <1>5, <2>1 DEF SetExternalStream, TypeOK
<1>6. ASSUME NEW sync \in BOOLEAN, ResetExternalStream(sync)
      PROVE  TypeOK'
  <2>1. /\ Master \in Threads /\ "pop" \in Afters /\ UNCHANGED <<work, config, mutex, allocs>>
        /\ owner' = owner /\ m_free_wait_list' = m_free_wait_list
    BY <1>6, StreamAssumption DEF ResetExternalStream, Labels, Afters
  <2>2. CASE ResetMustSync(sync)
    <3>1. depth \in 1..depth
      BY <1>6, ManagersTyped DEF ResetExternalStream
    <3>2. <<External(depth)>> \in Seq(Managers)
      BY <3>1, ManagersTyped
    <3> QED
      BY <1>6, <2>1, <2>2, <3>2, StartSyncType DEF ResetExternalStream, TypeOK
  <2>3. CASE ~ResetMustSync(sync)
    BY <1>6, <2>1, <2>3 DEF ResetExternalStream, Goto, Labels, TypeOK
  <2> QED
    BY <2>2, <2>3
<1>7. CASE UNCHANGED vars
  BY <1>7 DEF vars, TypeOK
<1> QED
  BY <1>1, <1>2, <1>3, <1>4, <1>5, <1>6, <1>7 DEF Next, Run

----------------------------------------------------------------------------
(* Who synchronises.                                                       *)

LEMMA InitCalls == Init => Calls
BY StreamAssumption DEF Init, Calls, Syncing, Resetting

\* A thread that calls is idle and the master resets nothing.
LEMMA CallCalls ==
  ASSUME TypeOK, TypeOK', Calls, NEW t \in Threads, Call(t)
  PROVE  Calls'
<1> USE DEF work, config, locals
<1>0. pc[t] = "idle" /\ ~Resetting /\ new_empty_wait_list[t] = {} /\ Master \in Threads
  BY StreamAssumption DEF Call, MayCall, Calls, Resetting, StreamSynchronize, StreamSynchronizeAll,
     Alloc, SetStreamIndex, StreamSynchronizeOne, Launch, QueueElixir, FreeAsync, Free,
     StreamOrderedFreeAsync, StreamNotManaged
<1>1. ASSUME NEW ms \in Seq(Managers), ms # <<>>, StartSync(t, ms, "idle", FALSE)
      PROVE  Calls'
  BY <1>0, <1>1 DEF StartSync, Goto, Calls, Syncing, Resetting, TypeOK
<1>2. ASSUME UNCHANGED <<after, todo, clearing, new_empty_wait_list, pc>>
      PROVE  Calls'
  BY <1>0, <1>2 DEF Calls, Syncing, Resetting
<1>3. ASSUME NEW b \in Blocks, NEW m \in Managers, FreeAsyncOn(t, b, m)
      PROVE  Calls'
  <2>1. <<m>> \in Seq(Managers) /\ <<m>> # <<>>
    OBVIOUS
  <2> QED
    BY <1>1, <1>2, <1>3, <2>1 DEF FreeAsyncOn
<1>4. /\ CurrentManager(t) \in Managers
      /\ <<CurrentManager(t)>> \in Seq(Managers) /\ <<CurrentManager(t)>> # <<>>
  BY ManagersTyped
<1>5. CASE StreamSynchronize(t)
  BY <1>1, <1>4, <1>5 DEF StreamSynchronize
<1>6. CASE StreamSynchronizeAll(t)
  BY <1>1, <1>6, ToSync DEF StreamSynchronizeAll
<1>7. CASE Alloc(t)
  BY <1>0, <1>7 DEF Alloc, Goto, Calls, Syncing, Resetting, TypeOK
<1>8. ASSUME NEW s \in Streams, StreamSynchronizeOne(t, s)
      PROVE  Calls'
  BY <1>1, <1>8, SomeToSync DEF StreamSynchronizeOne
<1>9. ASSUME NEW b \in Blocks, FreeAsync(t, b)
      PROVE  Calls'
  BY <1>3, <1>4, <1>9 DEF FreeAsync
<1>10. ASSUME NEW b \in Blocks, NEW s \in Streams, StreamOrderedFreeAsync(t, b, s)
       PROVE  Calls'
  BY <1>3, <1>10 DEF StreamOrderedFreeAsync
<1> QED
  BY <1>2, <1>5, <1>6, <1>7, <1>8, <1>9, <1>10
  DEF Call, SetStreamIndex, Launch, QueueElixir, Free, StreamNotManaged

\* On to the next manager, if any: the list of the last one has been freed.
LEMMA NextManagerCalls ==
  ASSUME TypeOK, TypeOK', Calls, NEW t \in Threads, pc[t] \in {"sync", "freeing"},
         Resetting => pc[t] = "freeing", new_empty_wait_list[t] = {},
         NextManager(t), UNCHANGED <<m_free_wait_list, config, new_empty_wait_list>>
  PROVE  Calls'
<1> USE DEF config
<1>1. todo[t] \in Seq(Managers) /\ todo[t] # <<>> /\ todo'[t] = Tail(todo[t])
  BY DEF Calls, Syncing, NextManager, TypeOK
<1>2. \A u \in Threads \ {t} : /\ pc'[u] = pc[u] /\ after'[u] = after[u]
                               /\ todo'[u] = todo[u] /\ clearing'[u] = clearing[u]
  BY DEF NextManager, Goto, TypeOK
<1>3. Master \in Threads
  BY StreamAssumption
<1>4. CASE Len(todo[t]) > 1
  <2>1. pc'[t] = "sync" /\ after' = after /\ clearing' = clearing
    BY <1>4 DEF NextManager, Goto, TypeOK
  <2>2. todo'[t] # <<>>
    <3> DEFINE q == todo[t]
    <3>1. q \in Seq(Managers) /\ Len(q) > 1 /\ todo'[t] = Tail(q)
      BY <1>1, <1>4
    <3> HIDE DEF q
    <3>2. Tail(q) \in Seq(Managers) /\ Len(Tail(q)) # 0
      BY <3>1
    <3> QED
      BY <3>1, <3>2, EmptySeq
  <2>3. ~Resetting
    <3> SUFFICES ASSUME Resetting PROVE FALSE
      OBVIOUS
    <3>1. t = Master
      BY DEF Calls
    <3>2. todo[Master] = <<External(depth)>>
      BY <3>1 DEF Calls, Syncing
    <3> QED
      BY <1>4, <3>1, <3>2
  <2> QED
    BY <1>2, <1>3, <2>1, <2>2, <2>3 DEF Calls, Syncing, Resetting
<1>5. CASE ~(Len(todo[t]) > 1)
  <2>1. /\ pc'[t] = after[t] /\ clearing'[t] = FALSE
        /\ after'[t] = (IF after[t] = "pop" THEN "pop" ELSE "idle")
    BY <1>5 DEF NextManager, Goto, TypeOK
  <2>2. after[t] \in Afters
    BY DEF TypeOK, Afters
  <2> QED
    <3>1. CASE Resetting
      <4>1. t = Master /\ pc[t] = "freeing" /\ after[t] = "pop" /\ pc'[t] = "pop"
        BY <2>1, <3>1 DEF Calls, Resetting
      <4>2. /\ depth > 0 /\ m_free_wait_list[External(depth)] = {}
            /\ External(depth)' = External(depth) /\ depth' = depth
        BY <3>1, <4>1 DEF Calls, External
      <4> QED
        BY <1>2, <1>3, <2>1, <3>1, <4>1, <4>2 DEF Calls, Syncing, Resetting, Labels
    <3>2. CASE ~Resetting
      <4>1. ~Resetting' /\ pc'[t] \in {"idle", "cleared"} /\ after'[t] = "idle"
        BY <1>2, <1>3, <2>1, <2>2, <3>2 DEF Calls, Resetting, Afters
      <4> QED
        BY <1>2, <1>3, <3>2, <4>1 DEF Calls, Syncing, Resetting
    <3> QED
      BY <3>1, <3>2
<1> QED
  BY <1>4, <1>5

LEMMA InsideCalls ==
  ASSUME TypeOK, TypeOK', Calls, NEW t \in Threads, Inside(t)
  PROVE  Calls'
<1> USE DEF work, config, locals
<1>0. Master \in Threads
  BY StreamAssumption
\* A step within sync, of the managers that are left.
<1>1. ASSUME UNCHANGED <<after, todo, clearing, depth>>, pc[t] \in {"sync", "swapped", "waiting"},
             pc'[t] \in {"swapped", "waiting", "freeing"},
             \A u \in Threads \ {t} :
               pc'[u] = pc[u] /\ new_empty_wait_list'[u] = new_empty_wait_list[u],
             Resetting => m_free_wait_list'[External(depth)] = {}
      PROVE  Calls'
  <2>1. External(depth)' = External(depth)
    BY <1>1 DEF External
  <2> QED
    BY <1>0, <1>1, <2>1 DEF Calls, Syncing, Resetting, Labels
<1>2. CASE PassOver(t)
  <2>1. ~Resetting /\ new_empty_wait_list[t] = {}
    BY <1>2 DEF PassOver, Calls, Syncing
  <2> QED
    BY <1>2, <2>1, NextManagerCalls DEF PassOver
<1>3. CASE Swap(t)
  <2>1. ASSUME Resetting
        PROVE  m_free_wait_list'[External(depth)] = {}
    <3>1. t = Master /\ todo[t] = <<External(depth)>>
      BY <1>3, <2>1 DEF Swap, Calls, Syncing
    <3>2. Head(todo[t]) = External(depth) /\ Head(todo[t]) \in Managers
      <4>1. depth \in 1..MaxDepth
        BY <2>1, ManagersTyped DEF Calls
      <4> QED
        BY <3>1, <4>1, ManagersTyped
    <3> QED
      BY <1>3, <3>2 DEF Swap, TypeOK
  <2> QED
    BY <1>1, <1>3, <2>1 DEF Swap, Goto, TypeOK
<1>4. CASE SyncStream(t)
  <2>1. Resetting => m_free_wait_list'[External(depth)] = {}
    BY <1>4 DEF SyncStream, Calls
  <2> QED
    BY <1>1, <1>4, <2>1 DEF SyncStream, Goto, TypeOK
<1>5. CASE StreamSynced(t)
  <2>1. Resetting => m_free_wait_list'[External(depth)] = {}
    BY <1>5 DEF StreamSynced, Calls
  <2> QED
    BY <1>1, <1>5, <2>1 DEF StreamSynced, Goto, TypeOK
<1>6. CASE FreeOne(t)
  <2>1. \A u \in Threads : new_empty_wait_list'[u] # {} => new_empty_wait_list[u] # {}
    BY <1>6 DEF FreeOne, TypeOK
  <2>2. External(depth)' = External(depth)
    BY <1>6 DEF FreeOne, External
  <2> QED
    BY <1>6, <2>1, <2>2 DEF FreeOne, Calls, Syncing, Resetting
<1>7. CASE Freed(t)
  BY <1>7, NextManagerCalls DEF Freed
<1>8. ASSUME pc[t] \in {"search", "search_again", "cleared"}
      PROVE  ~Resetting /\ new_empty_wait_list[t] = {}
  BY <1>8 DEF Calls
<1>9. CASE Found(t)
  <2>1. ~Resetting /\ new_empty_wait_list[t] = {}
    BY <1>8, <1>9 DEF Found
  <2> QED
    BY <1>0, <1>9, <2>1 DEF Found, Goto, Calls, Syncing, Resetting, TypeOK
<1>10. CASE NotFound(t)
  <2>1. ~Resetting /\ new_empty_wait_list[t] = {}
    BY <1>8, <1>10 DEF NotFound
  <2> QED
    BY <1>0, <1>10, <2>1, ToSync DEF NotFound, StartSync, Goto, Calls, Syncing, Resetting, TypeOK
<1>11. CASE SearchAgain(t)
  <2>1. ~Resetting /\ new_empty_wait_list[t] = {}
    BY <1>8, <1>11 DEF SearchAgain
  <2> QED
    BY <1>0, <1>11, <2>1 DEF SearchAgain, Goto, Calls, Syncing, Resetting, TypeOK
<1>12. CASE OutOfMemory(t)
  <2>1. External(depth)' = External(depth)
    BY <1>12 DEF OutOfMemory, External
  <2> QED
    BY <1>12, <2>1 DEF OutOfMemory, Calls, Syncing, Resetting
<1>13. CASE t = Master /\ PopExternalStream
  BY <1>0, <1>13 DEF PopExternalStream, Goto, Calls, Syncing, Resetting, TypeOK
<1> QED
  BY <1>2, <1>3, <1>4, <1>5, <1>6, <1>7, <1>9, <1>10, <1>11, <1>12, <1>13 DEF Inside

LEMMA NextCalls ==
  ASSUME TypeOK, TypeOK', Calls, [Next]_vars
  PROVE  Calls'
<1> USE DEF work, config, locals
<1>0. Master \in Threads
  BY StreamAssumption
<1>1. ASSUME NEW t \in Threads, Inside(t)
      PROVE  Calls'
  BY <1>1, InsideCalls
<1>2. ASSUME NEW t \in Threads, Call(t)
      PROVE  Calls'
  BY <1>2, CallCalls
<1>3. ASSUME UNCHANGED <<m_free_wait_list, config, pc, locals>>
      PROVE  Calls'
  <2>1. External(depth)' = External(depth)
    BY <1>3 DEF External
  <2> QED
    BY <1>3, <2>1 DEF Calls, Syncing, Resetting
<1>4. ASSUME NEW s \in Streams, Run(s)
      PROVE  Calls'
  BY <1>3, <1>4 DEF Run, Kernel, HostFunction
<1>5. ASSUME NEW s \in UserStreams, SetExternalStream(s)
      PROVE  Calls'
  <2>1. ~Resetting /\ UNCHANGED <<pc, locals>>
    BY <1>0, <1>5 DEF SetExternalStream, MayCall, Resetting
  <2> QED
    BY <1>0, <2>1 DEF Calls, Syncing, Resetting
<1>6. ASSUME NEW sync \in BOOLEAN, ResetExternalStream(sync)
      PROVE  Calls'
  <2>1. /\ depth > 0 /\ depth' = depth /\ External(depth)' = External(depth)
        /\ m_free_wait_list' = m_free_wait_list /\ pc[Master] = "idle"
        /\ \A t \in Threads \ {Master} : pc[t] = "idle"
        /\ new_empty_wait_list' = new_empty_wait_list
    BY <1>6, ManagersTyped DEF ResetExternalStream, MayCall, InParallel, External, StartSync
  <2>2. CASE ResetMustSync(sync)
    <3>1. StartSync(Master, <<External(depth)>>, "pop", FALSE)
      BY <1>6, <2>2 DEF ResetExternalStream
    <3> QED
      BY <1>0, <2>1, <3>1 DEF StartSync, Goto, Calls, Syncing, Resetting, TypeOK
  <2>3. CASE ~ResetMustSync(sync)
    <3>1. m_free_wait_list[External(depth)] = {}
      BY <2>3 DEF ResetMustSync
    <3> QED
      BY <1>0, <1>6, <2>1, <2>3, <3>1
      DEF ResetExternalStream, Goto, Calls, Syncing, Resetting, Labels, TypeOK
  <2> QED
    BY <2>2, <2>3
<1>7. CASE UNCHANGED vars
  BY <1>3, <1>7 DEF vars
<1> QED
  BY <1>1, <1>2, <1>4, <1>5, <1>6, <1>7 DEF Next

----------------------------------------------------------------------------
(* Where deferred blocks wait.                                             *)

LEMMA InitLists == Init => Lists
BY DEF Init, Lists

\* Blocks change hands, none of them deferred before or after.
LEMMA OwnersLists ==
  ASSUME TypeOK, Lists, UNCHANGED <<m_free_wait_list, new_empty_wait_list, depth>>,
         \A b \in Blocks : owner'[b] = "deferred" <=> owner[b] = "deferred"
  PROVE  Lists'
<1>1. InForce' = InForce
  BY DEF InForce, External
<1>2. \A m \in Managers : m_free_wait_list[m] \subseteq Blocks
  BY DEF TypeOK
<1>3. \A t \in Threads : new_empty_wait_list[t] \subseteq Blocks
  BY DEF TypeOK
<1> QED
  BY <1>1, <1>2, <1>3 DEF Lists

LEMMA DepthLists ==
  ASSUME TypeOK, Lists, UNCHANGED <<owner, new_empty_wait_list>>,
         \/ depth' = depth + 1 /\ m_free_wait_list' = m_free_wait_list
         \/ /\ depth' = depth - 1 /\ depth > 0 /\ m_free_wait_list[External(depth)] = {}
            /\ m_free_wait_list' = [m_free_wait_list EXCEPT ![External(depth)] = {}]
  PROVE  Lists'
<1>1. m_free_wait_list' = m_free_wait_list
  BY DEF TypeOK
<1>2. \A m \in Managers \ InForce' : m_free_wait_list[m] = {}
  <2>1. CASE depth' = depth + 1
    <3>1. InForce \subseteq InForce'
      BY <2>1, ManagersTyped DEF InForce, External
    <3> QED
      BY <3>1 DEF Lists
  <2>2. CASE depth' = depth - 1 /\ depth > 0 /\ m_free_wait_list[External(depth)] = {}
    <3>1. InForce \subseteq InForce' \cup {External(depth)}
      BY <2>2, ManagersTyped DEF InForce, External
    <3> QED
      BY <2>2, <3>1 DEF Lists
  <2> QED
    BY <2>1, <2>2, ManagersTyped
<1> QED
  BY <1>1, <1>2 DEF Lists

LEMMA FreeAsyncOnLists ==
  ASSUME TypeOK, Lists, NEW t \in Threads, NEW b \in Blocks, NEW m \in InForce,
         owner[b] = t, FreeAsyncOn(t, b, m)
  PROVE  Lists'
<1>1. m \in Managers /\ owner[b] # "deferred"
  BY ManagersTyped, StreamAssumption
<1>2. /\ owner' = [owner EXCEPT ![b] = "deferred"]
      /\ m_free_wait_list' = [m_free_wait_list EXCEPT ![m] = @ \cup {b}]
      /\ depth' = depth /\ new_empty_wait_list' = new_empty_wait_list
  BY DEF FreeAsyncOn, StartSync, config, locals
<1>3. InForce' = InForce
  BY <1>2 DEF InForce, External
<1>4. \A n \in Managers :
        m_free_wait_list'[n] = m_free_wait_list[n] \cup (IF n = m THEN {b} ELSE {})
  BY <1>1, <1>2 DEF TypeOK
<1>5. \A c \in Blocks : owner'[c] = IF c = b THEN "deferred" ELSE owner[c]
  BY <1>2 DEF TypeOK
<1>6. /\ \A n \in Managers : b \notin m_free_wait_list[n] /\ m_free_wait_list[n] \subseteq Blocks
      /\ \A u \in Threads :
           b \notin new_empty_wait_list[u] /\ new_empty_wait_list[u] \subseteq Blocks
  BY <1>1 DEF Lists, TypeOK
<1> QED
  BY <1>1, <1>2, <1>3, <1>4, <1>5, <1>6 DEF Lists

LEMMA SwapLists ==
  ASSUME TypeOK, Calls, Lists, NEW t \in Threads, Swap(t)
  PROVE  Lists'
<1> DEFINE m == Head(todo[t])
<1>1. m \in Managers /\ new_empty_wait_list[t] = {}
  <2>1. todo[t] \in Seq(Managers) /\ todo[t] # <<>>
    BY DEF Swap, Calls, Syncing, TypeOK
  <2>2. new_empty_wait_list[t] = {}
    BY DEF Swap, Calls
  <2> QED
    BY <2>1, <2>2, HeadTailProperties
<1>2. /\ \A n \in Managers : m_free_wait_list'[n] = IF n = m THEN {} ELSE m_free_wait_list[n]
      /\ \A u \in Threads : new_empty_wait_list'[u] =
           IF u = t THEN m_free_wait_list[m] ELSE new_empty_wait_list[u]
      /\ owner' = owner /\ InForce' = InForce
  BY <1>1 DEF Swap, TypeOK, InForce, External, config
<1> HIDE DEF m
<1> QED
  BY <1>1, <1>2 DEF Lists

LEMMA FreeOneLists ==
  ASSUME TypeOK, Calls, Lists, NEW t \in Threads, FreeOne(t)
  PROVE  Lists'
<1>1. PICK b \in new_empty_wait_list[t] :
        /\ owner' = [owner EXCEPT ![b] = "free"]
        /\ new_empty_wait_list' = [new_empty_wait_list EXCEPT ![t] = @ \ {b}]
  BY DEF FreeOne
<1>2. b \in Blocks
  BY <1>1 DEF TypeOK
<1>3. /\ m_free_wait_list' = m_free_wait_list /\ InForce' = InForce
      /\ \A u \in Threads : new_empty_wait_list'[u] =
           IF u = t THEN new_empty_wait_list[t] \ {b} ELSE new_empty_wait_list[u]
      /\ \A c \in Blocks : owner'[c] = IF c = b THEN "free" ELSE owner[c]
  BY <1>1, <1>2 DEF FreeOne, TypeOK, InForce, External, config
<1>4. /\ \A n \in Managers : m_free_wait_list[n] \subseteq Blocks
      /\ \A u \in Threads : new_empty_wait_list[u] \subseteq Blocks
  BY DEF TypeOK
<1>5. /\ \A n \in Managers : b \notin m_free_wait_list[n]
      /\ \A u \in Threads \ {t} : b \notin new_empty_wait_list[u]
  BY <1>1 DEF Lists
<1> QED
  BY <1>2, <1>3, <1>4, <1>5 DEF Lists

LEMMA NextLists ==
  ASSUME TypeOK, Calls, Lists, Elixirs, [Next]_vars
  PROVE  Lists'
<1> USE DEF work, config, locals
<1>0. Master \in Threads /\ \A t \in Threads : t # "deferred"
  BY StreamAssumption
<1>1. ASSUME UNCHANGED <<owner, m_free_wait_list, new_empty_wait_list, depth>>
      PROVE  Lists'
  BY <1>1, OwnersLists
<1>2. ASSUME NEW t \in Threads, Inside(t)
      PROVE  Lists'
  <2>1. CASE Swap(t) \/ FreeOne(t)
    BY <2>1, SwapLists, FreeOneLists
  <2>2. CASE Found(t)
    <3>1. \A b \in Blocks : owner'[b] = "deferred" <=> owner[b] = "deferred"
      BY <1>0, <2>2 DEF Found, TypeOK
    <3> QED
      BY <2>2, <3>1, OwnersLists DEF Found
  <2>3. CASE t = Master /\ PopExternalStream
    <3>1. depth > 0 /\ m_free_wait_list[External(depth)] = {}
      BY <2>3 DEF PopExternalStream, Calls
    <3> QED
      BY <2>3, <3>1, DepthLists DEF PopExternalStream
  <2>4. CASE NotFound(t)
    BY <1>1, <2>4 DEF NotFound, StartSync
  <2>5. CASE PassOver(t) \/ SyncStream(t) \/ StreamSynced(t) \/ Freed(t)
             \/ SearchAgain(t) \/ OutOfMemory(t)
    BY <1>1, <2>5 DEF PassOver, SyncStream, StreamSynced, Freed, SearchAgain, OutOfMemory
  <2> QED
    BY <1>2, <2>1, <2>2, <2>3, <2>4, <2>5 DEF Inside
<1>3. ASSUME NEW t \in Threads, Call(t)
      PROVE  Lists'
  <2>1. ASSUME NEW b \in Blocks, FreeAsync(t, b)
        PROVE  Lists'
    BY <2>1, FreeAsyncOnLists, ManagersTyped DEF FreeAsync
  <2>2. ASSUME NEW b \in Blocks, NEW s \in Streams, StreamOrderedFreeAsync(t, b, s)
        PROVE  Lists'
    <3>1. PICK m \in Managers : ManagerOf(s, m) /\ FreeAsyncOn(t, b, m)
      BY <2>2 DEF StreamOrderedFreeAsync
    <3>2. m \in InForce
      BY <3>1 DEF ManagerOf, InForce
    <3> QED
      BY <2>2, <3>1, <3>2, FreeAsyncOnLists DEF StreamOrderedFreeAsync
  <2>3. ASSUME NEW b \in Blocks, QueueElixir(t, b) \/ Free(t, b)
        PROVE  Lists'
    <3>1. \A c \in Blocks : owner'[c] = "deferred" <=> owner[c] = "deferred"
      BY <1>0, <2>3 DEF QueueElixir, Free, TypeOK
    <3> QED
      BY <2>3, <3>1, OwnersLists DEF QueueElixir, Free
  <2>4. CASE \/ StreamSynchronize(t) \/ StreamSynchronizeAll(t)
             \/ \E s \in Streams : StreamSynchronizeOne(t, s)
    BY <1>1, <2>4
    DEF StreamSynchronize, StreamSynchronizeAll, StreamSynchronizeOne, StartSync
  <2> QED
    BY <1>1, <1>3, <2>1, <2>2, <2>3, <2>4
    DEF Call, Alloc, SetStreamIndex, Launch, StreamNotManaged
<1>4. ASSUME NEW s \in Streams, Run(s)
      PROVE  Lists'
  <2>1. CASE Kernel(s)
    BY <1>1, <2>1 DEF Kernel
  <2>2. CASE HostFunction(s)
    <3>1. PICK b \in Blocks : owner' = [owner EXCEPT ![b] = "free"] /\ owner[b] = "elixir"
      BY <2>2 DEF HostFunction, IsHost, Elixirs
    <3>2. \A c \in Blocks : owner'[c] = "deferred" <=> owner[c] = "deferred"
      BY <3>1 DEF TypeOK
    <3> QED
      BY <2>2, <3>2, OwnersLists DEF HostFunction
  <2> QED
    BY <1>4, <2>1, <2>2 DEF Run
<1>5. ASSUME NEW s \in UserStreams, SetExternalStream(s)
      PROVE  Lists'
  BY <1>5, DepthLists DEF SetExternalStream
<1>6. ASSUME NEW sync \in BOOLEAN, ResetExternalStream(sync)
      PROVE  Lists'
  BY <1>1, <1>6 DEF ResetExternalStream, StartSync
<1>7. CASE UNCHANGED vars
  BY <1>1, <1>7 DEF vars
<1> QED
  BY <1>2, <1>3, <1>4, <1>5, <1>6, <1>7 DEF Next

----------------------------------------------------------------------------
(* What kernels still use.                                                 *)

LEMMA InitUses == Init => Streamed /\ Uses /\ Elixirs
BY DEF Init, Streamed, Uses, Elixirs, InUse, Using

\* Streams go on, and kernels and host functions are added at their ends.
LEMMA NextStreamed ==
  ASSUME TypeOK, Streamed, [Next]_vars
  PROVE  Streamed'
<1> USE DEF work, config, locals
<1>1. ASSUME UNCHANGED <<issued, done, last>>
      PROVE  Streamed'
  BY <1>1 DEF Streamed
<1>2. ASSUME NEW s \in Streams, done[s] < issued[s], done' = [done EXCEPT ![s] = @ + 1],
             UNCHANGED <<issued, last>>
      PROVE  Streamed'
  BY <1>2 DEF Streamed, TypeOK
<1>3. ASSUME NEW t \in Threads, NEW b \in Blocks, Launch(t, b)
      PROVE  Streamed'
  <2>1. /\ gpuStream(t) \in Streams /\ done' = done
        /\ issued' = [issued EXCEPT ![gpuStream(t)] = @ + 1]
        /\ last' = [last EXCEPT ![b][gpuStream(t)] = issued[gpuStream(t)] + 1]
    BY <1>3, ManagersTyped DEF Launch, gpuStream
  <2>2. \A s \in Streams : issued'[s] = IF s = gpuStream(t) THEN issued[s] + 1 ELSE issued[s]
    BY <2>1 DEF TypeOK
  <2>3. \A c \in Blocks, s \in Streams : last'[c][s] =
          IF c = b /\ s = gpuStream(t) THEN issued[s] + 1 ELSE last[c][s]
    BY <2>1 DEF TypeOK
  <2>4. \A c \in Blocks, s \in Streams : last[c][s] \in Nat /\ issued[s] \in Nat /\ done[s] \in Nat
    BY DEF TypeOK
  <2> HIDE DEF work, config, locals
  <2> QED
    BY <2>1, <2>2, <2>3, <2>4 DEF Streamed
<1>4. ASSUME NEW t \in Threads, NEW b \in Blocks, QueueElixir(t, b)
      PROVE  Streamed'
  <2>1. /\ gpuStream(t) \in Streams /\ done' = done /\ last' = last
        /\ issued' = [issued EXCEPT ![gpuStream(t)] = @ + 1]
    BY <1>4, ManagersTyped DEF QueueElixir, gpuStream
  <2>2. \A s \in Streams : issued'[s] = IF s = gpuStream(t) THEN issued[s] + 1 ELSE issued[s]
    BY <2>1 DEF TypeOK
  <2>3. \A c \in Blocks, s \in Streams : last[c][s] \in Nat /\ issued[s] \in Nat /\ done[s] \in Nat
    BY DEF TypeOK
  <2> QED
    BY <2>1, <2>2, <2>3 DEF Streamed
<1>5. ASSUME NEW t \in Threads, Found(t)
      PROVE  Streamed'
  <2>1. PICK b \in Blocks : last' = [last EXCEPT ![b] = [s \in Streams |-> 0]]
    BY <1>5 DEF Found
  <2>2. \A c \in Blocks, s \in Streams : last'[c][s] = IF c = b THEN 0 ELSE last[c][s]
    BY <2>1 DEF TypeOK
  <2>3. \A s \in Streams : issued[s] \in Nat
    BY DEF TypeOK
  <2> QED
    BY <1>5, <2>2, <2>3 DEF Found, Streamed
<1>6. ASSUME NEW t \in Threads, Inside(t)
      PROVE  Streamed'
  BY <1>1, <1>5, <1>6 DEF Inside, PassOver, Swap, SyncStream, StreamSynced, FreeOne, Freed,
     NotFound, SearchAgain, OutOfMemory, PopExternalStream
<1>7. ASSUME NEW t \in Threads, Call(t)
      PROVE  Streamed'
  BY <1>1, <1>3, <1>4, <1>7 DEF Call, StreamSynchronize, StreamSynchronizeAll, Alloc,
     SetStreamIndex, StreamSynchronizeOne, FreeAsync, FreeAsyncOn, Free,
     StreamOrderedFreeAsync, StreamNotManaged
<1>8. ASSUME NEW s \in Streams, Run(s)
      PROVE  Streamed'
  BY <1>2, <1>8 DEF Run, Kernel, HostFunction
<1> QED
  BY <1>1, <1>6, <1>7, <1>8 DEF Next, SetExternalStream, ResetExternalStream, vars

\* A step that gives waiting blocks no new kernels, and frees blocks no kernel uses.
LEMMA UsesKept ==
  ASSUME Uses, TypeOK', Lists',
         ext' = ext,
         \A b \in Blocks : owner'[b] \in {"free", "deferred"} =>
           \A s \in Streams : Using(b, s)' => Using(b, s),
         \A b \in Blocks : owner'[b] = "free" => owner[b] = "free" \/ ~InUse(b),
         \A m \in Managers : \A b \in m_free_wait_list'[m] \ m_free_wait_list[m] :
           OthersDone(b, m_stream(m)),
         \A t \in Threads : \A b \in new_empty_wait_list'[t] :
           /\ b \in new_empty_wait_list[t] /\ last'[b] = last[b]
           /\ pc'[t] = pc[t] /\ todo'[t] = todo[t] /\ target'[t] = target[t]
  PROVE  Uses'
<1>1. \A m : m_stream(m)' = m_stream(m)
  BY DEF m_stream
<1>2. \A b \in Blocks : owner'[b] \in {"free", "deferred"} =>
        /\ InUse(b)' => InUse(b)
        /\ \A s \in Streams : OthersDone(b, s) => OthersDone(b, s)'
  BY DEF InUse, OthersDone
<1>3. \A b \in Blocks : owner'[b] = "free" => ~InUse(b)'
  BY <1>2 DEF Uses
<1>4. \A m \in Managers : \A b \in m_free_wait_list'[m] : OthersDone(b, m_stream(m))'
  <2> SUFFICES ASSUME NEW m \in Managers, NEW b \in m_free_wait_list'[m]
               PROVE  OthersDone(b, m_stream(m))'
    OBVIOUS
  <2>1. b \in Blocks /\ owner'[b] = "deferred"
    BY DEF TypeOK, Lists
  <2>2. OthersDone(b, m_stream(m))
    BY DEF Uses
  <2> QED
    BY <1>1, <2>1, <2>2 DEF OthersDone
<1>5. ASSUME NEW t \in Threads, NEW b \in new_empty_wait_list'[t]
      PROVE  /\ OthersDone(b, SyncedStream(t))'
             /\ pc'[t] = "waiting" => (last[b][SyncedStream(t)] <= target[t])'
             /\ pc'[t] = "freeing" => ~InUse(b)'
  <2>1. b \in Blocks /\ owner'[b] = "deferred" /\ b \in new_empty_wait_list[t]
    BY DEF TypeOK, Lists
  <2>2. SyncedStream(t)' = SyncedStream(t)
    BY <1>1 DEF SyncedStream, m_stream
  <2>3. /\ OthersDone(b, SyncedStream(t))
        /\ pc[t] = "waiting" => last[b][SyncedStream(t)] <= target[t]
        /\ pc[t] = "freeing" => ~InUse(b)
    BY <2>1 DEF Uses
  <2>4. OthersDone(b, SyncedStream(t))'
    BY <2>1, <2>2, <2>3 DEF OthersDone
  <2> QED
    BY <1>2, <2>1, <2>2, <2>3, <2>4
<1> QED
  BY <1>3, <1>4, <1>5 DEF Uses

\* Streams only advance.
LEMMA DoneUsing ==
  ASSUME TypeOK, TypeOK', last' = last, \A s \in Streams : done[s] <= done'[s]
  PROVE  \A b \in Blocks, s \in Streams : Using(b, s)' => Using(b, s)
BY DEF Using, TypeOK

\* What a thread takes off a list waits for the stream of that list, ...
LEMMA SwapUses ==
  ASSUME TypeOK, TypeOK', Calls, Lists, Uses, NEW t \in Threads, Swap(t)
  PROVE  Uses'
<1> DEFINE m == Head(todo[t])
<1>1. todo[t] \in Seq(Managers) /\ todo[t] # <<>>
  BY DEF Swap, Calls, Syncing, TypeOK
<1>2. m \in Managers
  BY <1>1, HeadTailProperties
<1>3. /\ \A n \in Managers : m_free_wait_list'[n] = IF n = m THEN {} ELSE m_free_wait_list[n]
      /\ \A u \in Threads : new_empty_wait_list'[u] =
           IF u = t THEN m_free_wait_list[m] ELSE new_empty_wait_list[u]
      /\ pc' = [pc EXCEPT ![t] = "swapped"]
      /\ UNCHANGED <<owner, last, done, todo, target, ext>>
  BY <1>2 DEF Swap, Goto, TypeOK, config, work
<1>4. /\ \A s : m_stream(s)' = m_stream(s)
      /\ \A u \in Threads : SyncedStream(u)' = SyncedStream(u)
      /\ \A b \in Blocks : InUse(b)' = InUse(b)
      /\ \A b \in Blocks, s \in Streams : OthersDone(b, s)' = OthersDone(b, s)
  BY <1>3 DEF m_stream, SyncedStream, InUse, OthersDone, Using
<1>5. /\ \A n \in Managers : m_free_wait_list[n] \subseteq Blocks
      /\ \A u \in Threads : new_empty_wait_list[u] \subseteq Blocks
  BY DEF TypeOK
<1>6. SyncedStream(t) = m_stream(m)
  BY DEF SyncedStream
<1>7. /\ \A u \in Threads \ {t} : pc'[u] = pc[u]
      /\ pc'[t] = "swapped"
  BY <1>3 DEF TypeOK
<1> HIDE DEF m
<1>8. \A b \in Blocks : owner'[b] = "free" => ~InUse(b)'
  BY <1>3, <1>4 DEF Uses
<1>9. \A n \in Managers : \A b \in m_free_wait_list'[n] : OthersDone(b, m_stream(n))'
  BY <1>3, <1>4, <1>5 DEF Uses, OthersDone, Using
<1>10. \A b \in new_empty_wait_list'[t] : OthersDone(b, SyncedStream(t))'
  BY <1>2, <1>3, <1>4, <1>5, <1>6 DEF Uses, OthersDone, Using
<1>11. ASSUME NEW u \in Threads \ {t}, NEW b \in new_empty_wait_list'[u]
       PROVE  /\ OthersDone(b, SyncedStream(u))'
              /\ pc'[u] = "waiting" => (last[b][SyncedStream(u)] <= target[u])'
              /\ pc'[u] = "freeing" => ~InUse(b)'
  <2>1. b \in new_empty_wait_list[u] /\ b \in Blocks
    BY <1>3, <1>5
  <2>2. /\ OthersDone(b, SyncedStream(u))
        /\ pc[u] = "waiting" => last[b][SyncedStream(u)] <= target[u]
        /\ pc[u] = "freeing" => ~InUse(b)
    BY <2>1 DEF Uses
  <2>3. OthersDone(b, SyncedStream(u))'
    BY <1>3, <1>4, <2>2 DEF OthersDone, Using
  <2> QED
    BY <1>3, <1>4, <1>7, <2>1, <2>2, <2>3
<1> QED
  BY <1>7, <1>8, <1>9, <1>10, <1>11 DEF Uses

\* ... of which the thread asks for all work that has been given to it, ...
LEMMA SyncStreamUses ==
  ASSUME TypeOK, Calls, Streamed, Uses, NEW t \in Threads, SyncStream(t)
  PROVE  Uses'
<1>1. todo[t] \in Seq(Managers) /\ todo[t] # <<>>
  BY DEF SyncStream, Calls, Syncing, TypeOK
<1>2. SyncedStream(t) \in Streams
  BY <1>1, HeadTailProperties, ManagersTyped DEF SyncedStream
<1>3. /\ pc' = [pc EXCEPT ![t] = "waiting"]
      /\ target' = [target EXCEPT ![t] = issued[SyncedStream(t)]]
      /\ UNCHANGED <<owner, last, done, todo, ext, m_free_wait_list, new_empty_wait_list>>
  BY DEF SyncStream, Goto, config, work, SyncedStream
<1>4. /\ \A s : m_stream(s)' = m_stream(s)
      /\ \A u \in Threads : SyncedStream(u)' = SyncedStream(u)
      /\ \A b \in Blocks : InUse(b)' = InUse(b)
      /\ \A b \in Blocks, s \in Streams : OthersDone(b, s)' = OthersDone(b, s)
  BY <1>3 DEF m_stream, SyncedStream, InUse, OthersDone, Using
<1>5. /\ \A n \in Managers : m_free_wait_list[n] \subseteq Blocks
      /\ \A u \in Threads : new_empty_wait_list[u] \subseteq Blocks
  BY DEF TypeOK
<1>6. /\ \A u \in Threads \ {t} : pc'[u] = pc[u] /\ target'[u] = target[u]
      /\ pc'[t] = "waiting" /\ target'[t] = issued[SyncedStream(t)]
  BY <1>3 DEF TypeOK
<1>7. \A b \in new_empty_wait_list[t] : last[b][SyncedStream(t)] <= issued[SyncedStream(t)]
  BY <1>2, <1>5 DEF Streamed
<1>8. /\ \A b \in Blocks : owner'[b] = "free" => ~InUse(b)'
      /\ \A n \in Managers : \A b \in m_free_wait_list'[n] : OthersDone(b, m_stream(n))'
  BY <1>3, <1>4, <1>5 DEF Uses, OthersDone, Using
<1>9. ASSUME NEW u \in Threads, NEW b \in new_empty_wait_list'[u]
      PROVE  /\ OthersDone(b, SyncedStream(u))'
             /\ pc'[u] = "waiting" => (last[b][SyncedStream(u)] <= target[u])'
             /\ pc'[u] = "freeing" => ~InUse(b)'
  <2>1. b \in new_empty_wait_list[u] /\ b \in Blocks
    BY <1>3, <1>5
  <2>2. /\ OthersDone(b, SyncedStream(u))
        /\ pc[u] = "waiting" => last[b][SyncedStream(u)] <= target[u]
        /\ pc[u] = "freeing" => ~InUse(b)
    BY <2>1 DEF Uses
  <2>3. OthersDone(b, SyncedStream(u))'
    BY <1>3, <1>4, <2>2 DEF OthersDone, Using
  <2> QED
    BY <1>3, <1>4, <1>6, <1>7, <2>1, <2>2, <2>3
<1> QED
  BY <1>8, <1>9 DEF Uses

\* ... so that nothing uses the blocks when it has done it.
LEMMA StreamSyncedUses ==
  ASSUME TypeOK, Calls, Uses, NEW t \in Threads, StreamSynced(t)
  PROVE  Uses'
<1>1. todo[t] \in Seq(Managers) /\ todo[t] # <<>>
  BY DEF StreamSynced, Calls, Syncing, TypeOK
<1>2. SyncedStream(t) \in Streams
  BY <1>1, HeadTailProperties, ManagersTyped DEF SyncedStream
<1>3. /\ pc[t] = "waiting" /\ pc' = [pc EXCEPT ![t] = "freeing"]
      /\ target' = [target EXCEPT ![t] = 0] /\ done[SyncedStream(t)] >= target[t]
      /\ UNCHANGED <<owner, last, done, todo, ext, m_free_wait_list, new_empty_wait_list>>
  BY DEF StreamSynced, Goto, config, work, SyncedStream
<1>4. /\ \A s : m_stream(s)' = m_stream(s)
      /\ \A u \in Threads : SyncedStream(u)' = SyncedStream(u)
      /\ \A b \in Blocks : InUse(b)' = InUse(b)
  BY <1>3 DEF m_stream, SyncedStream, InUse, Using
<1>5. /\ \A n \in Managers : m_free_wait_list[n] \subseteq Blocks
      /\ \A u \in Threads : new_empty_wait_list[u] \subseteq Blocks
  BY DEF TypeOK
<1>6. /\ \A u \in Threads \ {t} : pc'[u] = pc[u] /\ target'[u] = target[u]
      /\ pc'[t] = "freeing"
  BY <1>3 DEF TypeOK
<1>7. \A b \in new_empty_wait_list[t] : ~InUse(b)
  <2> SUFFICES ASSUME NEW b \in new_empty_wait_list[t], NEW s \in Streams
               PROVE  ~Using(b, s)
    BY DEF InUse
  <2>1. OthersDone(b, SyncedStream(t)) /\ last[b][SyncedStream(t)] <= target[t] /\ b \in Blocks
    BY <1>3, <1>5 DEF Uses
  <2>2. CASE s = SyncedStream(t)
    <3>1. last[b][s] \in Nat /\ target[t] \in Nat /\ done[s] \in Nat
      BY <2>1 DEF TypeOK
    <3> QED
      BY <1>3, <2>1, <2>2, <3>1 DEF Using
  <2>3. CASE s # SyncedStream(t)
    BY <2>1, <2>3 DEF OthersDone
  <2> QED
    BY <2>2, <2>3
<1>8. /\ \A b \in Blocks : owner'[b] = "free" => ~InUse(b)'
      /\ \A n \in Managers : \A b \in m_free_wait_list'[n] : OthersDone(b, m_stream(n))'
  BY <1>3, <1>4, <1>5 DEF Uses, OthersDone, Using
<1>9. ASSUME NEW u \in Threads, NEW b \in new_empty_wait_list'[u]
      PROVE  /\ OthersDone(b, SyncedStream(u))'
             /\ pc'[u] = "waiting" => (last[b][SyncedStream(u)] <= target[u])'
             /\ pc'[u] = "freeing" => ~InUse(b)'
  <2>1. b \in new_empty_wait_list[u] /\ b \in Blocks
    BY <1>3, <1>5
  <2>2. /\ OthersDone(b, SyncedStream(u))
        /\ pc[u] = "waiting" => last[b][SyncedStream(u)] <= target[u]
        /\ pc[u] = "freeing" => ~InUse(b)
    BY <2>1 DEF Uses
  <2>3. OthersDone(b, SyncedStream(u))'
    BY <1>3, <1>4, <2>2 DEF OthersDone, Using
  <2> QED
    BY <1>3, <1>4, <1>6, <1>7, <2>1, <2>2, <2>3
<1> QED
  BY <1>8, <1>9 DEF Uses

\* External streams come and go while no thread waits for a stream.
LEMMA ExternalUses ==
  ASSUME TypeOK, Uses, NEW d \in 1..MaxDepth,
         m_free_wait_list[External(d)] = {},
         \A e \in 1..MaxDepth : e # d => ext'[e] = ext[e],
         m_free_wait_list' = m_free_wait_list,
         \A t \in Threads : new_empty_wait_list'[t] = {},
         UNCHANGED <<owner, last, done>>
  PROVE  Uses'
<1>1. /\ \A b \in Blocks : InUse(b)' = InUse(b)
      /\ \A b, s : Using(b, s)' = Using(b, s)
  BY DEF InUse, Using
<1>2. \A b \in Blocks : owner'[b] = "free" => ~InUse(b)'
  BY <1>1 DEF Uses
<1>3. ASSUME NEW m \in Managers, NEW b \in m_free_wait_list'[m]
      PROVE  OthersDone(b, m_stream(m))'
  <2>1. m # External(d) /\ OthersDone(b, m_stream(m))
    BY <1>3 DEF Uses
  <2>2. m_stream(m)' = m_stream(m)
    <3>1. CASE m \in Pool
      BY <3>1 DEF m_stream
    <3>2. CASE m \notin Pool
      <4>1. m - max_gpu_streams \in 1..MaxDepth /\ m - max_gpu_streams # d
        BY <2>1, <3>2, ManagersTyped, StreamAssumption DEF External, Managers
      <4> QED
        BY <3>2, <4>1 DEF m_stream
    <3> QED
      BY <3>1, <3>2
  <2> QED
    BY <1>1, <2>1, <2>2 DEF OthersDone
<1> QED
  BY <1>2, <1>3 DEF Uses

\* When a stream comes to a host function, no kernel uses the memory it frees.
LEMMA HostReady ==
  ASSUME TypeOK, Elixirs, NEW s \in Streams, NEW b \in Blocks, IsHost(s, done[s] + 1, b)
  PROVE  /\ owner[b] = "elixir" /\ ~InUse(b)
         /\ \A c \in Blocks : last[c][s] # done[s] + 1
<1> DEFINE h == [stream |-> s, place |-> done[s] + 1, block |-> b]
<1>1. h \in host /\ h.stream = s /\ h.place = done[s] + 1 /\ h.block = b
  BY DEF IsHost
<1> HIDE DEF h
<1>2. /\ owner[b] = "elixir" /\ OthersDone(b, s) /\ last[b][s] < done[s] + 1
      /\ \A c \in Blocks : last[c][s] # done[s] + 1
  BY <1>1 DEF Elixirs
<1>3. ~Using(b, s)
  BY <1>2 DEF Using, TypeOK
<1> QED
  BY <1>2, <1>3 DEF InUse, OthersDone

LEMMA CallUses ==
  ASSUME TypeOK, TypeOK', Calls, Lists, Lists', Uses, NEW t \in Threads, Call(t)
  PROVE  Uses'
<1> USE DEF work, config, locals
<1>0. /\ new_empty_wait_list[t] = {} /\ t \notin {"free", "deferred", "elixir"}
  BY StreamAssumption DEF Call, MayCall, Calls, StreamSynchronize, StreamSynchronizeAll,
     Alloc, SetStreamIndex, StreamSynchronizeOne, Launch, QueueElixir, FreeAsync, Free,
     StreamOrderedFreeAsync, StreamNotManaged
<1>1. \A m \in Managers : m_free_wait_list[m] \subseteq Blocks
  BY DEF TypeOK
\* Calls that start to synchronise, or do nothing to the memory.
<1>2. ASSUME UNCHANGED <<owner, last, done, ext, m_free_wait_list, new_empty_wait_list>>,
             \A u \in Threads \ {t} :
               pc'[u] = pc[u] /\ todo'[u] = todo[u] /\ target'[u] = target[u]
      PROVE  Uses'
  BY <1>0, <1>2, UsesKept DEF Using
<1>3. ASSUME NEW ms, NEW l, NEW c, StartSync(t, ms, l, c)
      PROVE  /\ \A u \in Threads \ {t} :
                  pc'[u] = pc[u] /\ todo'[u] = todo[u] /\ target'[u] = target[u]
             /\ new_empty_wait_list' = new_empty_wait_list
  BY <1>3 DEF StartSync, Goto, TypeOK
<1>4. CASE \/ StreamSynchronize(t) \/ StreamSynchronizeAll(t)
           \/ \E s \in Streams : StreamSynchronizeOne(t, s)
  BY <1>2, <1>3, <1>4 DEF StreamSynchronize, StreamSynchronizeAll, StreamSynchronizeOne
<1>5. CASE Alloc(t) \/ \E idx \in 0..max_gpu_streams : SetStreamIndex(t, idx)
  BY <1>2, <1>5 DEF Alloc, SetStreamIndex, Goto, TypeOK
<1>6. ASSUME NEW b \in Blocks, NEW s \in Streams, StreamNotManaged(t, b, s)
      PROVE  Uses'
  BY <1>2, <1>6 DEF StreamNotManaged
<1>7. ASSUME NEW b \in Blocks, Launch(t, b)
      PROVE  Uses'
  <2>1. /\ owner[b] = t /\ UNCHANGED <<owner, done, ext, m_free_wait_list>>
        /\ \A c \in Blocks \ {b} : last'[c] = last[c]
        /\ UNCHANGED <<pc, todo, target, new_empty_wait_list>>
    BY <1>7 DEF Launch, TypeOK
  <2>2. \A c \in Blocks : owner'[c] \in {"free", "deferred"} =>
          c # b /\ \A s \in Streams : Using(c, s)' => Using(c, s)
    BY <1>0, <2>1 DEF Using
  <2>3. \A u \in Threads : \A c \in new_empty_wait_list[u] : last'[c] = last[c]
    BY <1>0, <2>1 DEF Lists, TypeOK
  <2> QED
    BY <2>1, <2>2, <2>3, UsesKept
<1>8. ASSUME NEW b \in Blocks, QueueElixir(t, b) \/ Free(t, b)
      PROVE  Uses'
  <2>1. /\ UNCHANGED <<done, last, ext, m_free_wait_list, pc, todo, target, new_empty_wait_list>>
        /\ \A c \in Blocks : owner'[c] = "free" => owner[c] = "free" \/ ~InUse(c)
    BY <1>8 DEF QueueElixir, Free, TypeOK
  <2> QED
    BY <2>1, UsesKept DEF Using
<1>9. ASSUME NEW b \in Blocks, NEW m \in Managers, OthersDone(b, m_stream(m)), FreeAsyncOn(t, b, m)
      PROVE  Uses'
  <2>1. /\ owner' = [owner EXCEPT ![b] = "deferred"]
        /\ m_free_wait_list' = [m_free_wait_list EXCEPT ![m] = @ \cup {b}]
        /\ UNCHANGED <<done, last, ext>>
    BY <1>9 DEF FreeAsyncOn
  <2>2. /\ \A u \in Threads \ {t} :
             pc'[u] = pc[u] /\ todo'[u] = todo[u] /\ target'[u] = target[u]
        /\ new_empty_wait_list' = new_empty_wait_list
    BY <1>3, <1>9 DEF FreeAsyncOn
  <2>3. \A n \in Managers : \A c \in m_free_wait_list'[n] \ m_free_wait_list[n] :
          c = b /\ n = m
    BY <2>1 DEF TypeOK
  <2>4. \A c \in Blocks : owner'[c] = "free" => owner[c] = "free"
    BY <2>1 DEF TypeOK
  <2>5. \A c \in Blocks, s \in Streams : Using(c, s)' => Using(c, s)
    BY <2>1 DEF Using
  <2> QED
    BY <1>0, <1>9, <2>1, <2>2, <2>3, <2>4, <2>5, UsesKept
<1>10. ASSUME NEW b \in Blocks, FreeAsync(t, b)
       PROVE  Uses'
  BY <1>9, <1>10, ManagersTyped DEF FreeAsync, gpuStream
<1>11. ASSUME NEW b \in Blocks, NEW s \in Streams, StreamOrderedFreeAsync(t, b, s)
       PROVE  Uses'
  <2>1. PICK m \in Managers : ManagerOf(s, m) /\ FreeAsyncOn(t, b, m)
    BY <1>11 DEF StreamOrderedFreeAsync
  <2>2. m_stream(m) = s
    BY <2>1, ManagersTyped DEF ManagerOf, m_stream
  <2> QED
    BY <1>9, <1>11, <2>1, <2>2 DEF StreamOrderedFreeAsync
<1> QED
  BY <1>4, <1>5, <1>6, <1>7, <1>8, <1>10, <1>11 DEF Call

LEMMA InsideUses ==
  ASSUME TypeOK, TypeOK', Calls, Lists, Lists', Streamed, Uses, NEW t \in Threads, Inside(t)
  PROVE  Uses'
<1> USE DEF work, config, locals
<1>0. \A u \in Threads : u \notin {"free", "deferred", "elixir"}
  BY StreamAssumption
<1>1. CASE Swap(t)
  BY <1>1, SwapUses
<1>2. CASE SyncStream(t)
  BY <1>2, SyncStreamUses
<1>3. CASE StreamSynced(t)
  BY <1>3, StreamSyncedUses
<1>4. CASE FreeOne(t)
  <2>1. PICK b \in new_empty_wait_list[t] :
          /\ owner' = [owner EXCEPT ![b] = "free"]
          /\ new_empty_wait_list' = [new_empty_wait_list EXCEPT ![t] = @ \ {b}]
    BY <1>4 DEF FreeOne
  <2>2. ~InUse(b) /\ UNCHANGED <<done, last, ext, m_free_wait_list, pc, todo, target>>
    BY <1>4, <2>1 DEF FreeOne, Uses
  <2>3. \A c \in Blocks : owner'[c] = "free" => owner[c] = "free" \/ ~InUse(c)
    BY <2>1, <2>2 DEF TypeOK
  <2>4. \A u \in Threads : new_empty_wait_list'[u] \subseteq new_empty_wait_list[u]
    BY <2>1 DEF TypeOK
  <2> QED
    BY <2>2, <2>3, <2>4, UsesKept DEF Using
\* Steps of a thread that holds no list.
<1>5. ASSUME new_empty_wait_list[t] = {},
             UNCHANGED <<owner, last, done, ext, m_free_wait_list, new_empty_wait_list>>,
             \A u \in Threads \ {t} :
               pc'[u] = pc[u] /\ todo'[u] = todo[u] /\ target'[u] = target[u]
      PROVE  Uses'
  BY <1>5, UsesKept DEF Using
<1>6. CASE PassOver(t)
  BY <1>5, <1>6 DEF PassOver, NextManager, Goto, Calls, Syncing, TypeOK
<1>7. CASE Freed(t)
  BY <1>5, <1>7 DEF Freed, NextManager, Goto, TypeOK
<1>8. CASE NotFound(t)
  BY <1>5, <1>8 DEF NotFound, StartSync, Goto, Calls, TypeOK
<1>9. CASE SearchAgain(t)
  BY <1>5, <1>9 DEF SearchAgain, Goto, Calls, TypeOK
<1>10. CASE OutOfMemory(t)
  BY <1>5, <1>10 DEF OutOfMemory, Calls, TypeOK
<1>11. CASE Found(t)
  <2>1. PICK b \in Blocks : /\ owner[b] = "free" /\ owner' = [owner EXCEPT ![b] = t]
                            /\ last' = [last EXCEPT ![b] = [s \in Streams |-> 0]]
    BY <1>11 DEF Found
  <2>2. /\ new_empty_wait_list[t] = {} /\ \A u \in Threads \ {t} : pc'[u] = pc[u]
        /\ UNCHANGED <<done, ext, m_free_wait_list, todo, target, new_empty_wait_list>>
    BY <1>11 DEF Found, Goto, Calls, TypeOK
  <2>3. \A c \in Blocks : owner'[c] \in {"free", "deferred"} => owner'[c] = owner[c] /\ c # b
    BY <1>0, <2>1 DEF TypeOK
  <2>4. \A c \in Blocks \ {b} : last'[c] = last[c]
    BY <2>1 DEF TypeOK
  <2>5. \A u \in Threads : \A c \in new_empty_wait_list[u] : c \in Blocks \ {b}
    BY <2>1 DEF Lists, TypeOK
  <2>6. \A c \in Blocks : owner'[c] \in {"free", "deferred"} =>
          \A s \in Streams : Using(c, s)' => Using(c, s)
    BY <2>2, <2>3, <2>4 DEF Using
  <2> QED
    BY <2>2, <2>3, <2>4, <2>5, <2>6, UsesKept
<1>12. CASE t = Master /\ PopExternalStream
  <2>1. /\ depth \in 1..MaxDepth /\ m_free_wait_list[External(depth)] = {}
        /\ \A u \in Threads : new_empty_wait_list[u] = {}
    BY <1>12, ManagersTyped DEF PopExternalStream, Calls
  <2>2. m_free_wait_list' = m_free_wait_list
    BY <1>12, <2>1 DEF PopExternalStream, TypeOK
  <2>3. \A e \in 1..MaxDepth : e # depth => ext'[e] = ext[e]
    BY <1>12 DEF PopExternalStream, TypeOK
  <2>4. UNCHANGED <<owner, last, done, new_empty_wait_list>>
    BY <1>12 DEF PopExternalStream
  <2> QED
    BY <2>1, <2>2, <2>3, <2>4, ExternalUses
<1> QED
  BY <1>1, <1>2, <1>3, <1>4, <1>6, <1>7, <1>8, <1>9, <1>10, <1>11, <1>12 DEF Inside

LEMMA NextUses ==
  ASSUME TypeOK, TypeOK', Calls, Lists, Lists', Streamed, Uses, Elixirs, [Next]_vars
  PROVE  Uses'
<1> USE DEF work, config, locals
<1>1. ASSUME NEW t \in Threads, Inside(t)
      PROVE  Uses'
  BY <1>1, InsideUses
<1>2. ASSUME NEW t \in Threads, Call(t)
      PROVE  Uses'
  BY <1>2, CallUses
<1>3. ASSUME NEW s \in Streams, Run(s)
      PROVE  Uses'
  <2>1. done' = [done EXCEPT ![s] = @ + 1]
        /\ UNCHANGED <<last, ext, m_free_wait_list, pc, todo, target, new_empty_wait_list>>
    BY <1>3 DEF Run, Kernel, HostFunction
  <2>2. /\ last' = last /\ \A r \in Streams : done[r] <= done'[r]
        /\ UNCHANGED <<ext, m_free_wait_list, pc, todo, target, new_empty_wait_list>>
    <3>1. \A r \in Streams : done'[r] = IF r = s THEN done[r] + 1 ELSE done[r]
      BY <2>1 DEF TypeOK
    <3>2. \A r \in Streams : done[r] \in Nat
      BY DEF TypeOK
    <3> QED
      BY <2>1, <3>1, <3>2
  <2>3. \A b \in Blocks, r \in Streams : Using(b, r)' => Using(b, r)
    BY <2>2, DoneUsing
  <2>4. \A b \in Blocks : owner'[b] = "free" => owner[b] = "free" \/ ~InUse(b)
    <3>1. CASE Kernel(s)
      BY <3>1 DEF Kernel
    <3>2. CASE HostFunction(s)
      <4>1. PICK b \in Blocks : IsHost(s, done[s] + 1, b) /\ owner' = [owner EXCEPT ![b] = "free"]
        BY <3>2 DEF HostFunction
      <4> QED
        BY <4>1, HostReady DEF TypeOK
    <3> QED
      BY <1>3, <3>1, <3>2 DEF Run
  <2> QED
    BY <2>2, <2>3, <2>4, UsesKept
<1>4. ASSUME NEW s \in UserStreams, SetExternalStream(s)
      PROVE  Uses'
  <2>1. depth + 1 \in 1..MaxDepth /\ depth + 1 \notin 1..depth
    BY <1>4, ManagersTyped DEF SetExternalStream
  <2>2. External(depth + 1) \in Managers \ InForce
    <3>1. \A d \in 1..depth : External(d) # External(depth + 1)
      BY <2>1, ManagersTyped, StreamAssumption DEF External
    <3> QED
      BY <2>1, <3>1, ManagersTyped DEF InForce
  <2>3. m_free_wait_list[External(depth + 1)] = {}
    BY <2>2 DEF Lists
  <2>4. \A t \in Threads : new_empty_wait_list[t] = {}
    BY <1>4 DEF SetExternalStream, MayCall, InParallel, Calls
  <2>5. \A e \in 1..MaxDepth : e # depth + 1 => ext'[e] = ext[e]
    BY <1>4 DEF SetExternalStream, TypeOK
  <2>6. UNCHANGED <<owner, last, done, m_free_wait_list, new_empty_wait_list>>
    BY <1>4 DEF SetExternalStream
  <2> QED
    BY <2>1, <2>3, <2>4, <2>5, <2>6, ExternalUses
<1>5. ASSUME NEW sync \in BOOLEAN, ResetExternalStream(sync)
      PROVE  Uses'
  <2>1. \A t \in Threads : new_empty_wait_list[t] = {}
    BY <1>5 DEF ResetExternalStream, MayCall, InParallel, Calls
  <2>2. UNCHANGED <<owner, last, done, ext, m_free_wait_list, new_empty_wait_list>>
    BY <1>5 DEF ResetExternalStream, StartSync
  <2> QED
    BY <2>1, <2>2, UsesKept DEF Using
<1>6. CASE UNCHANGED vars
  BY <1>6, UsesKept DEF vars, Using
<1> QED
  BY <1>1, <1>2, <1>3, <1>4, <1>5, <1>6 DEF Next

----------------------------------------------------------------------------
(* Elixirs.                                                                *)

\* A step that launches no kernel on the memory of an Elixir, nor frees it.
LEMMA ElixirsKept ==
  ASSUME TypeOK, TypeOK', Elixirs, host' \subseteq host,
         \A s \in Streams : issued[s] <= issued'[s] /\ done[s] <= done'[s],
         \A b \in Blocks : owner[b] = "elixir" => last'[b] = last[b],
         \A h \in host' : owner'[h.block] = "elixir",
         \A b \in Blocks, s \in Streams : last'[b][s] # last[b][s] =>
           \A h \in host : h.stream = s => last'[b][s] # h.place
  PROVE  Elixirs'
<1> SUFFICES ASSUME NEW h \in host'
             PROVE  /\ owner'[h.block] = "elixir" /\ OthersDone(h.block, h.stream)'
                    /\ last'[h.block][h.stream] < h.place /\ h.place <= issued'[h.stream]
                    /\ \A b \in Blocks : last'[b][h.stream] # h.place
                    /\ \A i \in host' : i.block = h.block => i = h
  BY DEF Elixirs
<1>1. /\ h \in host /\ h.block \in Blocks /\ h.stream \in Streams /\ h.place \in Nat
      /\ issued[h.stream] \in Nat /\ issued'[h.stream] \in Nat
  BY DEF TypeOK
<1>2. /\ owner[h.block] = "elixir" /\ OthersDone(h.block, h.stream)
      /\ last[h.block][h.stream] < h.place /\ h.place <= issued[h.stream]
      /\ \A b \in Blocks : last[b][h.stream] # h.place
      /\ \A i \in host : i.block = h.block => i = h
  BY <1>1 DEF Elixirs
<1>3. last'[h.block] = last[h.block]
  BY <1>1, <1>2
<1>4. \A b \in Blocks : last'[b][h.stream] # h.place
  BY <1>1, <1>2
<1>5. OthersDone(h.block, h.stream)'
  BY <1>1, <1>2, <1>3 DEF OthersDone, Using, TypeOK
<1> QED
  BY <1>1, <1>2, <1>3, <1>4, <1>5

LEMMA NextElixirs ==
  ASSUME TypeOK, TypeOK', Calls, Lists, Streamed, Uses, Elixirs, [Next]_vars
  PROVE  Elixirs'
<1> USE DEF work, config, locals
<1>0. /\ \A s \in Streams : issued[s] \in Nat /\ done[s] \in Nat /\ done[s] <= issued[s]
      /\ \A t \in Threads : t \notin {"free", "deferred", "elixir"}
  BY StreamAssumption DEF TypeOK, Streamed
<1>1. \A h \in host : h.block \in Blocks /\ owner[h.block] = "elixir" /\ h.stream \in Streams
  BY DEF TypeOK, Elixirs
\* Steps that do nothing to the streams and leave Elixirs their memory.
<1>2. ASSUME UNCHANGED work, \A b \in Blocks : owner[b] = "elixir" => owner'[b] = "elixir"
      PROVE  Elixirs'
  BY <1>0, <1>1, <1>2, ElixirsKept
<1>3. ASSUME NEW t \in Threads, Inside(t)
      PROVE  Elixirs'
  <2>1. CASE Found(t)
    <3>1. PICK b \in Blocks : /\ owner[b] = "free" /\ owner' = [owner EXCEPT ![b] = t]
                              /\ last' = [last EXCEPT ![b] = [s \in Streams |-> 0]]
      BY <2>1 DEF Found
    <3>2. /\ UNCHANGED <<issued, done, host>>
          /\ \A c \in Blocks : owner[c] = "elixir" => last'[c] = last[c] /\ owner'[c] = "elixir"
      BY <2>1, <3>1 DEF Found, TypeOK
    <3>3. \A c \in Blocks, s \in Streams : last'[c][s] # last[c][s] => last'[c][s] = 0
      BY <3>1 DEF TypeOK
    <3>4. \A h \in host : h.place # 0
      <4> SUFFICES ASSUME NEW h \in host PROVE h.place # 0
        OBVIOUS
      <4>1. last[h.block][h.stream] < h.place /\ last[h.block][h.stream] \in Nat /\ h.place \in Nat
        BY <1>1 DEF Elixirs, TypeOK
      <4> QED
        BY <4>1
    <3> QED
      BY <1>0, <1>1, <3>2, <3>3, <3>4, ElixirsKept
  <2>2. CASE FreeOne(t)
    <3>1. \A b \in Blocks : owner[b] = "elixir" => owner'[b] = "elixir"
      BY <2>2 DEF FreeOne, Lists, TypeOK
    <3> QED
      BY <1>2, <2>2, <3>1 DEF FreeOne
  <2> QED
    BY <1>2, <1>3, <2>1, <2>2 DEF Inside, PassOver, Swap, SyncStream, StreamSynced, Freed,
       NotFound, SearchAgain, OutOfMemory, PopExternalStream
<1>4. ASSUME NEW t \in Threads, NEW b \in Blocks, Launch(t, b)
      PROVE  Elixirs'
  <2>1. /\ gpuStream(t) \in Streams /\ owner[b] = t /\ UNCHANGED <<owner, done, host>>
        /\ issued' = [issued EXCEPT ![gpuStream(t)] = @ + 1]
        /\ last' = [last EXCEPT ![b][gpuStream(t)] = issued[gpuStream(t)] + 1]
    BY <1>4, ManagersTyped DEF Launch, gpuStream
  <2>2. \A s \in Streams : issued[s] <= issued'[s]
    <3>1. \A s \in Streams : issued'[s] = IF s = gpuStream(t) THEN issued[s] + 1 ELSE issued[s]
      BY <2>1 DEF TypeOK
    <3> QED
      BY <1>0, <3>1
  <2>3. \A c \in Blocks : owner[c] = "elixir" => last'[c] = last[c]
    BY <1>0, <2>1 DEF TypeOK
  <2>4. \A c \in Blocks, s \in Streams : last'[c][s] # last[c][s] => last'[c][s] = issued[s] + 1
    BY <2>1 DEF TypeOK
  <2>5. \A h \in host : h.place <= issued[h.stream] /\ h.place \in Nat
    BY DEF Elixirs, TypeOK
  <2>6. \A c \in Blocks, s \in Streams : last'[c][s] # last[c][s] =>
          \A h \in host : h.stream = s => last'[c][s] # h.place
    BY <1>0, <2>4, <2>5
  <2> QED
    BY <1>0, <1>1, <2>1, <2>2, <2>3, <2>6, ElixirsKept
<1>5. ASSUME NEW t \in Threads, NEW b \in Blocks, QueueElixir(t, b)
      PROVE  Elixirs'
  <2>1. PICK s \in Streams : s = gpuStream(t)
    BY ManagersTyped DEF gpuStream
  <2>2. PICK k : k = [stream |-> s, place |-> issued[s] + 1, block |-> b]
    OBVIOUS
  <2>3. /\ s \in Streams /\ owner[b] = t /\ OthersDone(b, s)
        /\ owner' = [owner EXCEPT ![b] = "elixir"]
        /\ issued' = [issued EXCEPT ![s] = @ + 1]
        /\ host' = host \cup {k} /\ UNCHANGED <<done, last>>
    BY <1>5, <2>1, <2>2 DEF QueueElixir
  <2>4. k.stream = s /\ k.place = issued[s] + 1 /\ k.block = b
    BY <2>2
  <2>5. \A c \in Blocks : owner[c] = "elixir" => owner'[c] = "elixir"
    BY <2>3 DEF TypeOK
  <2>6. \A r \in Streams : issued[r] <= issued'[r]
    <3>1. \A r \in Streams : issued'[r] = IF r = s THEN issued[r] + 1 ELSE issued[r]
      BY <2>3 DEF TypeOK
    <3> QED
      BY <1>0, <3>1
  <2>7. \A c \in Blocks, r \in Streams : OthersDone(c, r)' = OthersDone(c, r)
    BY <2>3 DEF OthersDone, Using
  <2>8. issued'[s] = issued[s] + 1 /\ owner'[b] = "elixir"
    BY <2>3 DEF TypeOK
  <2>9. /\ owner'[k.block] = "elixir" /\ OthersDone(k.block, k.stream)'
        /\ last'[k.block][k.stream] < k.place /\ k.place <= issued'[k.stream]
        /\ \A c \in Blocks : last'[c][k.stream] # k.place
    <3>1. \A c \in Blocks : last'[c][s] <= issued[s] /\ last'[c][s] \in Nat
      BY <2>3 DEF Streamed, TypeOK
    <3>2. owner'[k.block] = "elixir" /\ OthersDone(k.block, k.stream)'
      BY <2>3, <2>4, <2>7, <2>8
    <3>3. issued[s] \in Nat
      BY <1>0, <2>3
    <3>4. last'[b][s] < issued[s] + 1 /\ \A c \in Blocks : last'[c][s] # issued[s] + 1
      BY <3>1, <3>3
    <3> QED
      BY <2>4, <2>8, <3>2, <3>3, <3>4
  <2>10. \A h \in host : h.block # b
    BY <1>0, <1>1, <2>3
  <2>11. ASSUME NEW h \in host
        PROVE  /\ owner'[h.block] = "elixir" /\ OthersDone(h.block, h.stream)'
               /\ last'[h.block][h.stream] < h.place /\ h.place <= issued'[h.stream]
               /\ \A c \in Blocks : last'[c][h.stream] # h.place
    <3>1. /\ OthersDone(h.block, h.stream)
          /\ last[h.block][h.stream] < h.place /\ h.place <= issued[h.stream]
          /\ \A c \in Blocks : last[c][h.stream] # h.place
      BY DEF Elixirs
    <3>2. h.place \in Nat /\ issued'[h.stream] \in Nat
      BY <1>1 DEF TypeOK
    <3>3. issued[h.stream] <= issued'[h.stream] /\ issued[h.stream] \in Nat
      BY <1>0, <1>1, <2>6
    <3>4. owner'[h.block] = "elixir" /\ OthersDone(h.block, h.stream)'
      BY <1>1, <2>5, <2>7, <3>1
    <3> QED
      BY <2>3, <3>1, <3>2, <3>3, <3>4
  <2>12. \A h, i \in host' : i.block = h.block => i = h
    BY <2>3, <2>4, <2>10 DEF Elixirs
  <2> QED
    BY <2>3, <2>12, <2>4, <2>9, <2>10, <2>11 DEF Elixirs
<1>6. ASSUME NEW t \in Threads, Call(t)
      PROVE  Elixirs'
  <2>1. ASSUME NEW b \in Blocks, NEW m, owner[b] = t, FreeAsyncOn(t, b, m)
        PROVE  Elixirs'
    <3>1. \A c \in Blocks : owner[c] = "elixir" => owner'[c] = "elixir"
      BY <1>0, <2>1 DEF FreeAsyncOn, TypeOK
    <3> QED
      BY <1>2, <2>1, <3>1 DEF FreeAsyncOn
  <2>2. ASSUME NEW b \in Blocks, Free(t, b)
        PROVE  Elixirs'
    <3>1. \A c \in Blocks : owner[c] = "elixir" => owner'[c] = "elixir"
      BY <1>0, <2>2 DEF Free, TypeOK
    <3> QED
      BY <1>2, <2>2, <3>1 DEF Free
  <2> QED
    BY <1>2, <1>4, <1>5, <1>6, <2>1, <2>2 DEF Call, StreamSynchronize, StreamSynchronizeAll,
       Alloc, SetStreamIndex, StreamSynchronizeOne, FreeAsync, StreamOrderedFreeAsync,
       StreamNotManaged
<1>7. ASSUME NEW s \in Streams, Kernel(s)
      PROVE  Elixirs'
  BY <1>0, <1>1, <1>7, ElixirsKept DEF Kernel, TypeOK
<1>8. ASSUME NEW s \in Streams, HostFunction(s)
      PROVE  Elixirs'
  <2>1. PICK b \in Blocks :
          /\ IsHost(s, done[s] + 1, b) /\ owner' = [owner EXCEPT ![b] = "free"]
          /\ host' = host \ {[stream |-> s, place |-> done[s] + 1, block |-> b]}
    BY <1>8 DEF HostFunction
  <2>2. UNCHANGED <<issued, last>> /\ \A r \in Streams : done[r] <= done'[r]
    BY <1>0, <1>8 DEF HostFunction, TypeOK
  <2>3. \A h \in host' : h.block # b
    BY <2>1 DEF IsHost, Elixirs
  <2>4. \A h \in host' : owner'[h.block] = "elixir"
    BY <1>1, <2>1, <2>3 DEF TypeOK
  <2> QED
    BY <1>0, <2>1, <2>2, <2>4, ElixirsKept
<1> QED
  BY <1>2, <1>3, <1>6, <1>7, <1>8
  DEF Next, Run, SetExternalStream, ResetExternalStream, vars

----------------------------------------------------------------------------
(* The theorems.                                                           *)

LEMMA Inductive == Spec => []IInv
<1>1. Init => IInv
  BY InitType, InitCalls, InitLists, InitUses DEF IInv
<1>2. IInv /\ [Next]_vars => IInv'
  <2> SUFFICES ASSUME IInv, [Next]_vars PROVE IInv'
    OBVIOUS
  <2>1. TypeOK'
    BY NextType DEF IInv
  <2>2. Calls' /\ Lists' /\ Streamed' /\ Elixirs'
    BY <2>1, NextCalls, NextLists, NextStreamed, NextElixirs DEF IInv
  <2>3. Uses'
    BY <2>1, <2>2, NextUses DEF IInv
  <2> QED
    BY <2>1, <2>2, <2>3 DEF IInv
<1> QED
  BY <1>1, <1>2, PTL DEF Spec

\* Threads, streams, wait lists and external streams stay within their types.
THEOREM TypeCorrect == Spec => []TypeOK
<1>1. IInv => TypeOK
  BY DEF IInv
<1> QED
  BY <1>1, Inductive, PTL

\* With any number of threads and nested external streams, a block that is freed
\* asynchronously waits in exactly one place until it is freed.
THEOREM NeverLost == Spec => []NothingLost
<1>1. ASSUME IInv
      PROVE  NothingLost
  <2> SUFFICES ASSUME NEW b \in Blocks
               PROVE  Cardinality(Waiting(b)) = IF owner[b] = "deferred" THEN 1 ELSE 0
    BY DEF NothingLost
  <2>1. TypeOK /\ Lists /\ InForce \subseteq Managers
    BY <1>1, ManagersTyped DEF IInv
  <2>2. CASE owner[b] # "deferred"
    <3>1. Waiting(b) = {}
      BY <2>1, <2>2 DEF Waiting, Lists
    <3> QED
      BY <2>2, <3>1, FS_EmptySet
  <2>3. ASSUME owner[b] = "deferred", NEW m \in Managers, b \in m_free_wait_list[m]
        PROVE  Waiting(b) = {<<m, NoThread>>}
    <3>1. m \in InForce
      BY <2>1, <2>3 DEF Lists
    <3>2. {n \in InForce : b \in m_free_wait_list[n]} = {m}
      BY <2>1, <2>3, <3>1 DEF Lists
    <3>3. {t \in Threads : b \in new_empty_wait_list[t]} = {}
      BY <2>1, <2>3 DEF Lists
    <3> QED
      BY <3>2, <3>3 DEF Waiting
  <2>4. ASSUME owner[b] = "deferred", NEW t \in Threads, b \in new_empty_wait_list[t]
        PROVE  Waiting(b) = {<<0, t>>}
    <3>1. {n \in InForce : b \in m_free_wait_list[n]} = {}
      BY <2>1, <2>4 DEF Lists
    <3>2. {u \in Threads : b \in new_empty_wait_list[u]} = {t}
      BY <2>1, <2>4 DEF Lists
    <3> QED
      BY <3>1, <3>2 DEF Waiting
  <2>5. CASE owner[b] = "deferred"
    <3>1. \E x : Waiting(b) = {x}
      BY <2>1, <2>3, <2>4, <2>5 DEF Lists
    <3> QED
      BY <2>5, <3>1, FS_Singleton
  <2> QED
    BY <2>2, <2>5
<1> QED
  BY <1>1, Inductive, PTL

----------------------------------------------------------------------------
(* The refinement of AsyncMemory.                                          *)

held     == {b \in Blocks : owner[b] \in Threads}
released == {b \in Blocks : owner[b] \in {"deferred", "elixir"}}
busy     == {b \in Blocks : InUse(b)}

LEMMA InitAsync == Init => Async!Init
BY StreamAssumption DEF Init, Async!Init, InUse, Using

\* A block is in one of the hands that the abstract specification tells apart.
LEMMA Hands ==
  ASSUME IInv
  PROVE  /\ \A t \in Threads : t \notin {"free", "deferred", "elixir"}
         /\ \A b \in Blocks : owner[b] = "free" => b \notin held \cup released \cup busy
BY StreamAssumption DEF IInv, Uses, held, released, busy

LEMMA CallAsync ==
  ASSUME IInv, IInv', NEW t \in Threads, Call(t)
  PROVE  [Async!Next]_<<held, released, busy>>
<1> USE DEF work, config, locals
<1>0. \A u \in Threads : u \notin {"free", "deferred", "elixir"}
  BY Hands
<1>1. ASSUME UNCHANGED <<owner, done, last>>
      PROVE  UNCHANGED <<held, released, busy>>
  BY <1>1 DEF held, released, busy, InUse, Using
<1>2. ASSUME UNCHANGED <<done, last>>
      PROVE  busy' = busy
  BY <1>2 DEF busy, InUse, Using
<1>3. ASSUME NEW b \in Blocks, Launch(t, b)
      PROVE  Async!Use(b)
  <2>1. /\ gpuStream(t) \in Streams /\ owner[b] = t /\ UNCHANGED <<owner, done>>
        /\ last' = [last EXCEPT ![b][gpuStream(t)] = issued[gpuStream(t)] + 1]
    BY <1>3, ManagersTyped DEF Launch, gpuStream, IInv
  <2>2. \A c \in Blocks, s \in Streams : last'[c][s] =
          IF c = b /\ s = gpuStream(t) THEN issued[s] + 1 ELSE last[c][s]
    BY <2>1 DEF TypeOK, IInv
  <2>3. /\ issued[gpuStream(t)] \in Nat /\ done[gpuStream(t)] \in Nat
        /\ done[gpuStream(t)] <= issued[gpuStream(t)]
    BY <2>1 DEF TypeOK, IInv, Streamed
  <2>4. InUse(b)'
    <3>1. last'[b][gpuStream(t)] > done'[gpuStream(t)]
      BY <2>1, <2>2, <2>3
    <3> QED
      BY <2>1, <3>1 DEF InUse, Using
  <2>5. \A c \in Blocks \ {b} : InUse(c)' <=> InUse(c)
    BY <2>1, <2>2 DEF InUse, Using
  <2>6. busy' = busy \cup {b}
    BY <2>4, <2>5 DEF busy
  <2>7. b \in held /\ held' = held /\ released' = released
    BY <2>1 DEF held, released
  <2> QED
    BY <2>6, <2>7 DEF Async!Use, held, released, busy
\* A block is given up.
<1>4. ASSUME NEW b \in Blocks, owner[b] = t, UNCHANGED <<done, last>>,
             NEW h \in {"deferred", "elixir"}, owner' = [owner EXCEPT ![b] = h]
      PROVE  Async!Release(b)
  <2>1. b \in held /\ held' = held \ {b} /\ released' = released \cup {b}
    BY <1>0, <1>4 DEF held, released, TypeOK, IInv
  <2> QED
    BY <1>2, <1>4, <2>1 DEF Async!Release, held, released, busy
<1>5. ASSUME NEW b \in Blocks, Free(t, b)
      PROVE  Async!Free(b)
  <2>1. b \in held /\ b \notin busy /\ held' = held \ {b} /\ released' = released
    BY <1>0, <1>5 DEF Free, held, released, busy, TypeOK, IInv
  <2>2. busy' = busy
    BY <1>2, <1>5 DEF Free
  <2> QED
    BY <2>1, <2>2 DEF Async!Free, held, released, busy
<1>6. ASSUME NEW b \in Blocks, NEW m, owner[b] = t, FreeAsyncOn(t, b, m)
      PROVE  Async!Release(b)
  BY <1>4, <1>6 DEF FreeAsyncOn
<1>7. ASSUME NEW b \in Blocks, QueueElixir(t, b)
      PROVE  Async!Release(b)
  BY <1>4, <1>7 DEF QueueElixir
<1>8. ASSUME NEW b \in Blocks, \/ FreeAsync(t, b)
                               \/ \E s \in Streams : StreamOrderedFreeAsync(t, b, s)
      PROVE  Async!Release(b)
  BY <1>6, <1>8 DEF FreeAsync, StreamOrderedFreeAsync
<1>9. ASSUME NEW b \in Blocks, NEW s \in Streams, StreamNotManaged(t, b, s)
      PROVE  UNCHANGED <<held, released, busy>>
  BY <1>1, <1>9 DEF StreamNotManaged
<1>10. CASE \/ StreamSynchronize(t) \/ StreamSynchronizeAll(t) \/ Alloc(t)
            \/ \E idx \in 0..max_gpu_streams : SetStreamIndex(t, idx)
            \/ \E s \in Streams : StreamSynchronizeOne(t, s)
  BY <1>1, <1>10 DEF StreamSynchronize, StreamSynchronizeAll, Alloc, SetStreamIndex,
     StreamSynchronizeOne
<1> QED
  BY <1>3, <1>5, <1>7, <1>8, <1>9, <1>10 DEF Call, Async!Next

LEMMA InsideAsync ==
  ASSUME IInv, NEW t \in Threads, Inside(t)
  PROVE  [Async!Next]_<<held, released, busy>>
<1> USE DEF work, config, locals
<1>1. ASSUME UNCHANGED <<owner, done, last>>
      PROVE  UNCHANGED <<held, released, busy>>
  BY <1>1 DEF held, released, busy, InUse, Using
<1>2. CASE Found(t)
  <2>1. PICK b \in Blocks : /\ owner[b] = "free" /\ owner' = [owner EXCEPT ![b] = t]
                            /\ last' = [last EXCEPT ![b] = [s \in Streams |-> 0]]
    BY <1>2 DEF Found
  <2>2. b \notin held \cup released \cup busy
    BY <2>1, Hands
  <2>3. held' = held \cup {b} /\ released' = released
    BY <2>1, Hands DEF held, released, TypeOK, IInv
  <2>4. ~InUse(b)'
    <3>1. \A s \in Streams : last'[b][s] = 0 /\ done'[s] \in Nat
      BY <1>2, <2>1 DEF Found, TypeOK, IInv
    <3> QED
      BY <3>1 DEF InUse, Using
  <2>5. \A c \in Blocks \ {b} : InUse(c)' <=> InUse(c)
    <3>1. done' = done /\ \A c \in Blocks \ {b} : last'[c] = last[c]
      BY <1>2, <2>1 DEF Found, TypeOK, IInv
    <3> QED
      BY <3>1 DEF InUse, Using
  <2>6. busy' = busy
    BY <2>2, <2>4, <2>5 DEF busy
  <2>7. Async!Acquire(b)
    BY <2>2, <2>3, <2>6 DEF Async!Acquire, held, released, busy
  <2> QED
    BY <2>7 DEF Async!Next
<1>3. CASE FreeOne(t)
  <2>1. PICK b \in new_empty_wait_list[t] : owner' = [owner EXCEPT ![b] = "free"]
    BY <1>3 DEF FreeOne
  <2>2. b \in Blocks /\ owner[b] = "deferred" /\ ~InUse(b)
    BY <1>3, <2>1 DEF FreeOne, TypeOK, Lists, Uses, IInv
  <2>3. b \in released \ busy /\ released' = released \ {b} /\ held' = held
    BY <2>1, <2>2, Hands DEF held, released, busy, TypeOK, IInv
  <2>4. busy' = busy
    BY <1>3 DEF FreeOne, busy, InUse, Using
  <2>5. Async!Reclaim(b)
    BY <2>3, <2>4 DEF Async!Reclaim, held, released, busy
  <2> QED
    BY <2>2, <2>5 DEF Async!Next
<1>4. CASE NotFound(t)
  BY <1>1, <1>4 DEF NotFound
<1>5. CASE t = Master /\ PopExternalStream
  BY <1>1, <1>5 DEF PopExternalStream
<1> QED
  BY <1>1, <1>2, <1>3, <1>4, <1>5 DEF Inside, PassOver, Swap, SyncStream, StreamSynced, Freed,
     SearchAgain, OutOfMemory

LEMMA RunAsync ==
  ASSUME IInv, IInv', NEW s \in Streams, Run(s)
  PROVE  [Async!Next]_<<held, released, busy>>
<1> USE DEF work, config, locals
<1>1. done' = [done EXCEPT ![s] = @ + 1] /\ last' = last
  BY DEF Run, Kernel, HostFunction
<1>2. \A r \in Streams : done'[r] = IF r = s THEN done[r] + 1 ELSE done[r]
  BY <1>1 DEF IInv, TypeOK
<1>3. \A c \in Blocks, r \in Streams : done[r] \in Nat /\ last[c][r] \in Nat
  BY DEF IInv, TypeOK
<1>4. CASE Kernel(s)
  <2>1. busy' \subseteq busy
    BY <1>1, <1>2, <1>3 DEF busy, InUse, Using
  <2>2. held' = held /\ released' = released
    BY <1>4 DEF Kernel, held, released
  <2>3. Async!Done
    BY <2>1, <2>2 DEF Async!Done, held, released, busy
  <2> QED
    BY <2>3 DEF Async!Next
<1>5. CASE HostFunction(s)
  <2>1. PICK b \in Blocks : IsHost(s, done[s] + 1, b) /\ owner' = [owner EXCEPT ![b] = "free"]
    BY <1>5 DEF HostFunction
  <2>2. /\ owner[b] = "elixir" /\ ~InUse(b)
        /\ \A c \in Blocks : last[c][s] # done[s] + 1
    BY <2>1, HostReady DEF IInv
  <2>3. b \in released \ busy /\ released' = released \ {b} /\ held' = held
    BY <2>1, <2>2, Hands DEF held, released, busy, TypeOK, IInv
  <2>4. \A c \in Blocks, r \in Streams : Using(c, r)' <=> Using(c, r)
    BY <1>1, <1>2, <1>3, <2>2 DEF Using
  <2>5. busy' = busy
    BY <2>4 DEF busy, InUse
  <2>6. Async!Reclaim(b)
    BY <2>3, <2>5 DEF Async!Reclaim, held, released, busy
  <2> QED
    BY <2>6 DEF Async!Next
<1> QED
  BY <1>4, <1>5 DEF Run

LEMMA StepAsync ==
  ASSUME IInv, IInv', [Next]_vars
  PROVE  [Async!Next]_<<held, released, busy>>
<1>1. ASSUME UNCHANGED <<owner, done, last>>
      PROVE  UNCHANGED <<held, released, busy>>
  BY <1>1 DEF held, released, busy, InUse, Using
<1>2. CASE Next
  <2>1. ASSUME NEW t \in Threads, Inside(t) \/ Call(t)
        PROVE  [Async!Next]_<<held, released, busy>>
    BY <2>1, CallAsync, InsideAsync
  <2>2. ASSUME NEW s \in Streams, Run(s)
        PROVE  [Async!Next]_<<held, released, busy>>
    BY <2>2, RunAsync
  <2>3. ASSUME NEW s \in UserStreams, SetExternalStream(s)
        PROVE  UNCHANGED <<held, released, busy>>
    BY <1>1, <2>3 DEF SetExternalStream, work
  <2>4. ASSUME NEW sync \in BOOLEAN, ResetExternalStream(sync)
        PROVE  UNCHANGED <<held, released, busy>>
    BY <1>1, <2>4 DEF ResetExternalStream, work
  <2> QED
    BY <1>2, <2>1, <2>2, <2>3, <2>4 DEF Next
<1>3. CASE UNCHANGED vars
  BY <1>1, <1>3 DEF vars, work
<1> QED
  BY <1>2, <1>3

\* Whatever the number of threads, streams and nested external streams, memory that is given
\* up asynchronously is reused only when the kernels launched before are done: streams, wait
\* lists, the arena and Elixirs implement AsyncMemory.
THEOREM Implements == Spec => Promise
<1>1. Init => Async!Init
  BY InitAsync
<1>2. IInv /\ IInv' /\ [Next]_vars => [Async!Next]_(Async!vars)
  BY StepAsync DEF Async!vars, held, released, busy
<1> QED
  BY <1>1, <1>2, Inductive, PTL DEF Spec, Promise, Async!Spec
=============================================================================
