------------------------------ MODULE PrefixSum ------------------------------
(***************************************************************************)
(* Scan::PrefixSum (Src/Base/AMReX_Scan.H): the prefix sum in one kernel.  *)
(* Each block publishes the sum of its own elements, an aggregate, and     *)
(* then looks back at the blocks before it, a warp's width at a time,      *)
(* until it meets one that has published the sum of everything up to it,   *)
(* an inclusive prefix.                                                    *)
(*                                                                         *)
(* A sum is the set of the blocks whose elements have been added up.  What *)
(* happens within a block is PrefixSum_mp's.  The status of a block is one *)
(* word, or it is written and read field by field.                         *)
(***************************************************************************)
EXTENDS Integers, FiniteSets

CONSTANTS
  nblocks, warp_size,
  MaxResident  \* blocks that run at the same time

ASSUME PrefixSumAssumption ==
  /\ nblocks \in Nat \ {0} /\ warp_size \in Nat \ {0} /\ MaxResident \in Nat \ {0}

Blocks == 0..nblocks-1
Lanes  == 0..warp_size-1

VARIABLES
  SINGLE_WORD,                   \* sizeof(STVA<T>) <= 8
  virtual_block_id,              \* the counter
  status, aggregate, inclusive,  \* BlockStatus
  pc,
  iblock0, stva,                 \* per block: window it looks at, what its lanes have read
  exclusive_prefix,
  fout,                          \* what a block has added to its own sums in the output
  totalsum_p                     \* the sum that is returned

block_status == <<status, aggregate, inclusive>>
lookback     == <<iblock0, stva, exclusive_prefix>>
vars         == <<SINGLE_WORD, virtual_block_id, block_status, pc, lookback, fout, totalsum_p>>

None == [status |-> "none", value |-> {}]

\* What is in memory before it is written: the sum of nothing that is there.
Garbage == {-1}

\* A lane has read the status and not yet the sum.
Unread == {-2}

Resident == {b \in Blocks : pc[b] \notin {"waiting", "done"}}

\* A lane whose block does not exist takes it for an empty prefix.
Window(i) == [l \in Lanes |-> IF i - l >= 0 THEN None ELSE [status |-> "p", value |-> {}]]

Init ==
  /\ SINGLE_WORD \in BOOLEAN /\ virtual_block_id = 0
  /\ status = [b \in Blocks |-> "x"]
  /\ aggregate = [b \in Blocks |-> Garbage] /\ inclusive = [b \in Blocks |-> Garbage]
  /\ pc = [b \in Blocks |-> "waiting"]
  /\ iblock0 = [b \in Blocks |-> b - 1] /\ stva = [b \in Blocks |-> Window(b - 1)]
  /\ exclusive_prefix = [b \in Blocks |-> {}]
  /\ fout = [b \in Blocks |-> Garbage] /\ totalsum_p = {}

Goto(b, l) == pc' = [pc EXCEPT ![b] = l]

----------------------------------------------------------------------------

\* The numbers a block that starts may get: Atomic::Add, and blockIdx for comparison.
VirtualIds_BlockIdx == {b \in Blocks : pc[b] = "waiting"}
VirtualIds == {virtual_block_id} \cap Blocks

Start(b) ==
  /\ b \in VirtualIds /\ Cardinality(Resident) < MaxResident
  /\ virtual_block_id' = virtual_block_id + 1
  /\ Goto(b, "sum")
  /\ UNCHANGED <<SINGLE_WORD, block_status, lookback, fout, totalsum_p>>

\* BlockStatus::write puts the sum in the field of its status, or into one for both.
Store_OneField(b, s, value) ==
  aggregate' = [aggregate EXCEPT ![b] = value] /\ inclusive' = [inclusive EXCEPT ![b] = value]
Store(b, s, value) ==
  IF SINGLE_WORD
  THEN aggregate' = [aggregate EXCEPT ![b] = value] /\ inclusive' = [inclusive EXCEPT ![b] = value]
  ELSE IF s = "a" THEN aggregate' = [aggregate EXCEPT ![b] = value] /\ UNCHANGED inclusive
       ELSE inclusive' = [inclusive EXCEPT ![b] = value] /\ UNCHANGED aggregate

\* write: one word, or the sum first and, after a fence, the status.
Write(b, s, value, between, next) ==
  /\ Store(b, s, value)
  /\ IF SINGLE_WORD THEN status' = [status EXCEPT ![b] = s] /\ Goto(b, next)
                    ELSE Goto(b, between) /\ UNCHANGED status

SetStatus(b, s, next) ==
  /\ status' = [status EXCEPT ![b] = s] /\ Goto(b, next)
  /\ UNCHANGED <<SINGLE_WORD, virtual_block_id, aggregate, inclusive, lookback, fout, totalsum_p>>

\* The status of the first block is a prefix at once.
OwnStatus(b) == IF b = 0 THEN "p" ELSE "a"
AfterOwn(b)  == IF b = 0 THEN "out" ELSE "lookback"

PublishSum(b) ==
  /\ pc[b] = "sum"
  /\ IF nblocks > 1 THEN Write(b, OwnStatus(b), {b}, "sum_fence", AfterOwn(b))
     ELSE Goto(b, AfterOwn(b)) /\ UNCHANGED block_status
  /\ UNCHANGED <<SINGLE_WORD, virtual_block_id, lookback, fout, totalsum_p>>

SumPublished(b) == pc[b] = "sum_fence" /\ SetStatus(b, OwnStatus(b), AfterOwn(b))

\* wait() of a lane: read() again and again until there is a status.  A word has one value;
\* otherwise the status is read, and then the field it names.
Field(i, s) == IF s = "a" THEN aggregate[i] ELSE inclusive[i]

ReadStatus(b, l) ==
  /\ pc[b] = "lookback" /\ stva[b][l] = None
  /\ LET i == iblock0[b] - l
     IN /\ status[i] # "x"
        /\ stva' = [stva EXCEPT ![b][l] =
             IF SINGLE_WORD THEN [status |-> status[i], value |-> Field(i, status[i])]
                            ELSE [status |-> status[i], value |-> Unread]]
  /\ UNCHANGED <<SINGLE_WORD, virtual_block_id, block_status, pc, iblock0, exclusive_prefix,
                 fout, totalsum_p>>

ReadValue(b, l) ==
  /\ pc[b] = "lookback" /\ stva[b][l].value = Unread
  /\ stva' = [stva EXCEPT ![b][l].value = Field(iblock0[b] - l, stva[b][l].status)]
  /\ UNCHANGED <<SINGLE_WORD, virtual_block_id, block_status, pc, iblock0, exclusive_prefix,
                 fout, totalsum_p>>

AllRead(b) == \A l \in Lanes : stva[b][l] # None /\ stva[b][l].value # Unread

\* status_bf, the ballot of the lanes that have read a prefix; the nearest of them ends the
\* look-back, and the lanes up to it are added.
status_bf(b)     == {l \in Lanes : stva[b][l].status = "p"}
stop_lookback(b) == status_bf(b) # {}
Added_Nearer(b)  == {l \in Lanes : \A k \in status_bf(b) : l < k}
Added(b)         == {l \in Lanes : \A k \in status_bf(b) : l <= k}

LookBack(b) ==
  /\ pc[b] = "lookback" /\ AllRead(b)
  /\ exclusive_prefix' =
       [exclusive_prefix EXCEPT ![b] = @ \cup UNION {stva[b][l].value : l \in Added(b)}]
  /\ IF stop_lookback(b) \/ iblock0[b] - warp_size < 0
     THEN Goto(b, "prefix") /\ UNCHANGED <<iblock0, stva>>
     ELSE /\ iblock0' = [iblock0 EXCEPT ![b] = @ - warp_size]
          /\ stva' = [stva EXCEPT ![b] = Window(iblock0[b] - warp_size)]
          /\ UNCHANGED pc
  /\ UNCHANGED <<SINGLE_WORD, virtual_block_id, block_status, fout, totalsum_p>>

PublishPrefix(b) ==
  /\ pc[b] = "prefix"
  /\ Write(b, "p", aggregate[b] \cup exclusive_prefix[b], "prefix_fence", "out")
  /\ UNCHANGED <<SINGLE_WORD, virtual_block_id, lookback, fout, totalsum_p>>

PrefixPublished(b) == pc[b] = "prefix_fence" /\ SetStatus(b, "p", "out")

\* The elements of the block, with the prefix added.  The thread of the last element adds its sum
\* to the total, and with an exclusive scan has added the element itself before.
AddTotal(b) ==
  totalsum_p' = IF b = nblocks - 1 THEN totalsum_p \cup {b} \cup exclusive_prefix[b] ELSE totalsum_p

Output(b) ==
  /\ pc[b] = "out"
  /\ fout' = [fout EXCEPT ![b] = exclusive_prefix[b]] /\ AddTotal(b)
  /\ Goto(b, "done")
  /\ UNCHANGED <<SINGLE_WORD, virtual_block_id, block_status, lookback>>

Step(b) ==
  \/ PublishSum(b) \/ SumPublished(b) \/ LookBack(b) \/ PublishPrefix(b) \/ PrefixPublished(b)
  \/ Output(b)
  \/ \E l \in Lanes : ReadStatus(b, l) \/ ReadValue(b, l)

Next == \E b \in Blocks : Start(b) \/ Step(b)

\* Resident blocks go on, and a block is started when there is room for it.
Spec ==
  /\ Init /\ [][Next]_vars
  /\ WF_vars(\E b \in Blocks : Start(b)) /\ \A b \in Blocks : WF_vars(Step(b))

----------------------------------------------------------------------------
(* Properties.                                                             *)

Before(b) == 0..b-1

\* What a block publishes is what its status says it is, the output of a block has the sum of
\* exactly the blocks before it, and the total is that of all blocks when the last one is done,
\* which may be before the others are.
PrefixesTrue ==
  \A b \in Blocks :
    /\ status[b] = "a" => aggregate[b] = {b}
    /\ status[b] = "p" => inclusive[b] = Before(b + 1)
    /\ pc[b] = "done" => fout[b] = Before(b) /\ (b = nblocks - 1 => totalsum_p = Blocks)

\* The sums that are about to be added have no block in common: none counts twice, although
\* a block may go from aggregate to prefix while the lanes read it and its neighbours.
AddedOnce ==
  \A b \in Blocks : (pc[b] = "lookback" /\ AllRead(b)) =>
    \A l \in Added(b) :
      /\ stva[b][l].value \cap exclusive_prefix[b] = {}
      /\ \A k \in Added(b) : k # l => stva[b][k].value \cap stva[b][l].value = {}

\* Every block is done at last, however few can run at the same time: a block waits for
\* blocks that have started before it only.
AllDone == <>(\A b \in Blocks : pc[b] = "done")
=============================================================================
