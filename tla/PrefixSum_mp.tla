---------------------------- MODULE PrefixSum_mp ----------------------------
(***************************************************************************)
(* Scan::PrefixSum_mp (Src/Base/AMReX_Scan.H): the prefix sum in three     *)
(* kernels, as the SYCL build does it.  Each block scans its chunks, one   *)
(* block scans the sums of the blocks, and the blocks add these to what    *)
(* they had.                                                               *)
(*                                                                         *)
(* A warp is in lockstep, since its lanes exchange values all the time;    *)
(* the warps of a block meet at barriers only, and work on the memory      *)
(* they share; blocks run in any order, some at the same time.             *)
(***************************************************************************)
EXTENDS Integers, FiniteSets

CONSTANTS
  warp_size, nwarps, nchunks,
  Lengths,      \* the values of n
  fin(_),       \* the input
  MaxResident   \* blocks that run at the same time

ScanAssumption ==
  /\ warp_size \in Nat \ {0} /\ nwarps \in 1..warp_size /\ nchunks \in Nat \ {0}
  /\ Lengths \subseteq Nat \ {0} /\ MaxResident \in Nat \ {0}
  /\ \A n \in Lengths : \A i \in 0..n-1 : fin(i) \in Int

VARIABLES
  n, inclusive,          \* arguments of the call
  kernel,                \* 1 to 3; 4 when they are done
  waiting, running,      \* blocks of the kernel
  pc, ichunk, barriers,  \* per block and warp; barriers it has reached
  sum_prev_chunk,        \* local
  shared, shared2,       \* memory of a block
  blockresult, blocksum, totalsum,
  fout                   \* the output

args   == <<n, inclusive>>
locals == <<pc, ichunk, barriers, sum_prev_chunk, shared, shared2>>
vars   == <<args, kernel, waiting, running, locals, blockresult, blocksum, totalsum, fout>>

Lanes == 0..warp_size-1
Warps == 0..nwarps-1
LastLane == warp_size - 1

blockDim        == warp_size * nwarps
nelms_per_block == blockDim * nchunks
NumBlocks       == (n + nelms_per_block - 1) \div nelms_per_block

\* The blocks of a kernel, and what is in a block's memory before it writes there.
Grid(k) == CASE k \in {1, 3} -> 0..NumBlocks-1 [] k = 2 -> {0} [] k = 4 -> {}
Unset   == -1

Smaller(a, b) == IF a <= b THEN a ELSE b

\* The elements of a block: the second kernel scans the sums of the blocks.
ibegin(b) == IF kernel = 2 THEN 0 ELSE nelms_per_block * b
iend(b)   == IF kernel = 2 THEN NumBlocks ELSE Smaller(ibegin(b) + nelms_per_block, n)

Offset(b, w, l) == ibegin(b) + ichunk[b][w] * blockDim + w * warp_size + l

Input(b, offset) ==
  IF offset >= iend(b) THEN 0 ELSE IF kernel = 2 THEN blocksum[offset] ELSE fin(offset)

----------------------------------------------------------------------------

\* The shifts of the loop: 1, 2, 4, ...
Shift == LET i[e \in 0..warp_size] == IF e = 0 THEN 1 ELSE 2 * i[e - 1] IN i

\* Scan within a warp by shift_group_right.  From warp_size on, a shift changes nothing.
WarpScan(x) ==
  LET y[e \in 0..warp_size] ==
        IF e = 0 THEN x
        ELSE LET prev == y[e - 1]
                 i    == Shift[e - 1]
             IN [l \in Lanes |-> IF l >= i THEN prev[l] + prev[l - i] ELSE prev[l]]
  IN y[warp_size]

X0(b, w) == [l \in Lanes |-> Input(b, Offset(b, w, l))]
X(b, w)  == WarpScan(X0(b, w))

\* Every warp has reached the barrier that w waits at.
Passed_FirstOnly(b, w) == pc[b][w] = "block" => \A v \in Warps : barriers[b][v] >= barriers[b][w]
Passed(b, w) == \A v \in Warps : barriers[b][v] >= barriers[b][w]
Arrive(b, w) == barriers' = [barriers EXCEPT ![b][w] = @ + 1]
Goto(b, w, l) == pc' = [pc EXCEPT ![b][w] = l]

MoreChunks(b, w) ==
  /\ kernel = 1 => ichunk[b][w] < nchunks
  /\ ibegin(b) + ichunk[b][w] * blockDim < iend(b)

Launch(b) ==
  /\ b \in waiting /\ Cardinality(running) < MaxResident
  /\ waiting' = waiting \ {b} /\ running' = running \cup {b}
  /\ UNCHANGED <<args, kernel, locals, blockresult, blocksum, totalsum, fout>>

\* The last lane of a warp stores the sum of the warp.
WarpSum(b, w) ==
  /\ pc[b][w] = "warp" /\ MoreChunks(b, w)
  /\ shared' = [shared EXCEPT ![b][w] = X(b, w)[LastLane]]
  /\ Arrive(b, w) /\ Goto(b, w, "block")
  /\ UNCHANGED <<args, kernel, waiting, running, ichunk, sum_prev_chunk, shared2, blockresult,
                 blocksum, totalsum, fout>>

\* The first warp scans the sums of the warps.
BlockScan(b, w) ==
  /\ pc[b][w] = "block" /\ Passed(b, w)
  /\ shared2' = IF w # 0 THEN shared2
                ELSE LET y == WarpScan([l \in Lanes |-> IF l < nwarps THEN shared[b][l] ELSE 0])
                     IN [shared2 EXCEPT ![b] = [l \in Warps |-> y[l]]]
  /\ Arrive(b, w) /\ Goto(b, w, "chunk")
  /\ UNCHANGED <<args, kernel, waiting, running, ichunk, sum_prev_chunk, shared, blockresult,
                 blocksum, totalsum, fout>>

\* tmp_out of the lanes.  The scan of the sums of the blocks is inclusive.
ChunkOut(b, w) ==
  LET sum_prev_warp == IF w = 0 THEN 0 ELSE shared2[b][w - 1]
  IN [l \in Lanes |-> sum_prev_warp + sum_prev_chunk[b][w] +
        (IF inclusive \/ kernel = 2 THEN X(b, w)[l] ELSE X(b, w)[l] - X0(b, w)[l])]

\* An array after the warp has stored its lanes' results in it.
Stored(array, b, w) ==
  [o \in DOMAIN array |->
     IF \E l \in Lanes : o = Offset(b, w, l) /\ o < iend(b)
     THEN ChunkOut(b, w)[o - Offset(b, w, 0)] ELSE array[o]]

ChunkResult(b, w) ==
  /\ pc[b][w] = "chunk" /\ Passed(b, w)
  /\ IF kernel = 1 THEN blockresult' = Stored(blockresult, b, w) /\ UNCHANGED blocksum
                   ELSE blocksum' = Stored(blocksum, b, w) /\ UNCHANGED blockresult
  /\ sum_prev_chunk' = [sum_prev_chunk EXCEPT ![b][w] = @ + shared2[b][nwarps - 1]]
  /\ ichunk' = [ichunk EXCEPT ![b][w] = @ + 1]
  /\ Goto(b, w, "warp")
  /\ UNCHANGED <<args, kernel, waiting, running, barriers, shared, shared2, totalsum, fout>>

\* The first thread stores the sum of the whole block, or of everything.
BlockSum(b, w) ==
  /\ pc[b][w] = "warp" /\ ~MoreChunks(b, w)
  /\ blocksum' = IF w = 0 /\ kernel = 1
                 THEN [blocksum EXCEPT ![b] = sum_prev_chunk[b][w]] ELSE blocksum
  /\ totalsum' = IF w = 0 /\ kernel = 2 THEN sum_prev_chunk[b][w] ELSE totalsum
  /\ Goto(b, w, "end")
  /\ UNCHANGED <<args, kernel, waiting, running, ichunk, barriers, sum_prev_chunk, shared,
                 shared2, blockresult, fout>>

\* The sum of the blocks before b.
PreviousSum(b) == IF b = 0 THEN 0 ELSE blocksum[b - 1]

\* The third kernel.
AddPrevious(b, w) ==
  /\ pc[b][w] = "add"
  /\ LET prev_sum == PreviousSum(b)
     IN fout' = [o \in DOMAIN fout |->
                   IF o \in ibegin(b)..iend(b)-1 /\ ((o - ibegin(b)) % blockDim) \div warp_size = w
                   THEN prev_sum + blockresult[o] ELSE fout[o]]
  /\ Goto(b, w, "end")
  /\ UNCHANGED <<args, kernel, waiting, running, ichunk, barriers, sum_prev_chunk, shared,
                 shared2, blockresult, blocksum, totalsum>>

BlockEnd(b) ==
  /\ \A w \in Warps : pc[b][w] = "end"
  /\ running' = running \ {b}
  /\ UNCHANGED <<args, kernel, waiting, locals, blockresult, blocksum, totalsum, fout>>

\* The threads of a kernel at its start.
AllBlocks(v) == [b \in 0..NumBlocks-1 |-> [w \in Warps |-> v]]

\* The kernels are on one stream.
NextKernel ==
  /\ waiting = {} /\ running = {} /\ kernel < 4
  /\ kernel' = kernel + 1
  /\ waiting' = Grid(kernel + 1)
  /\ pc' = AllBlocks(IF kernel = 2 THEN "add" ELSE "warp")
  /\ ichunk' = AllBlocks(0) /\ barriers' = AllBlocks(0) /\ sum_prev_chunk' = AllBlocks(0)
  /\ shared' = AllBlocks(Unset) /\ shared2' = AllBlocks(Unset)
  /\ UNCHANGED <<args, running, blockresult, blocksum, totalsum, fout>>

Init ==
  /\ n \in Lengths /\ inclusive \in BOOLEAN
  /\ kernel = 1 /\ waiting = Grid(1) /\ running = {}
  /\ pc = AllBlocks("warp") /\ ichunk = AllBlocks(0) /\ barriers = AllBlocks(0)
  /\ sum_prev_chunk = AllBlocks(0) /\ shared = AllBlocks(Unset) /\ shared2 = AllBlocks(Unset)
  /\ blockresult = [o \in 0..n-1 |-> Unset] /\ blocksum = [b \in 0..NumBlocks-1 |-> Unset]
  /\ totalsum = Unset /\ fout = [o \in 0..n-1 |-> Unset]

Next ==
  \/ NextKernel
  \/ \E b \in waiting : Launch(b)
  \/ \E b \in running :
       \/ BlockEnd(b)
       \/ \E w \in Warps : \/ WarpSum(b, w) \/ BlockScan(b, w) \/ ChunkResult(b, w)
                           \/ BlockSum(b, w) \/ AddPrevious(b, w)

Spec == Init /\ [][Next]_vars /\ WF_vars(Next)

----------------------------------------------------------------------------
(* The loop of the build without GPUs, to compare with.                    *)

\* totalsum after each round.
Sums == LET s[k \in 0..n] == IF k = 0 THEN 0 ELSE s[k - 1] + fin(k - 1) IN s

PrefixSum(i) == IF inclusive THEN Sums[i + 1] ELSE Sums[i]

\* Properties.

\* When the kernels are done, the output and the returned sum are those of the sequential
\* loop, for both types and with blocks, chunks and warps that are not full.  What a block has
\* stored is right at any time: no warp has overtaken another one at the memory they share,
\* although two barriers separate three uses of two arrays.
ScanTrue ==
  /\ kernel = 4 => /\ \A i \in 0..n-1 : fout[i] = PrefixSum(i)
                   /\ totalsum = Sums[n]
  /\ kernel = 1 =>
       \A o \in 0..n-1 : blockresult[o] # Unset =>
         blockresult[o] = PrefixSum(o) - Sums[o - (o % nelms_per_block)]

\* The kernels end: no warp waits at a barrier for one that has left its loop.
KernelsEnd == <>(kernel = 4)
=============================================================================
