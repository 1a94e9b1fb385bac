-------------------------- MODULE PrefixSumProofs --------------------------
(***************************************************************************)
(* Proofs about Scan, for any number of blocks, any width of a warp and    *)
(* any number of blocks that run at the same time.  PrefixSum: what blocks *)
(* publish and add is right in every order of their steps.  PrefixSum_mp:  *)
(* the three kernels give what the sequential loop gives, in every order   *)
(* of the blocks and of the warps between their barriers.                  *)
(***************************************************************************)
EXTENDS Scan, WellFoundedInduction, TLAPS

Labels == {"waiting", "sum", "sum_fence", "lookback", "prefix", "prefix_fence", "out", "done"}
Stvas  == [status : {"none", "a", "p"}, value : SUBSET Int]

TypeOK ==
  /\ SINGLE_WORD \in BOOLEAN /\ virtual_block_id \in Nat
  /\ status \in [Blocks -> {"x", "a", "p"}]
  /\ aggregate \in [Blocks -> SUBSET Int] /\ inclusive \in [Blocks -> SUBSET Int]
  /\ pc \in [Blocks -> Labels]
  /\ iblock0 \in [Blocks -> Int] /\ stva \in [Blocks -> [Lanes -> Stvas]]
  /\ exclusive_prefix \in [Blocks -> SUBSET Int] /\ fout \in [Blocks -> SUBSET Int]

\* A block that has not been numbered waits.
Numbered == \A b \in Blocks : b >= virtual_block_id => pc[b] = "waiting"

\* What stands in the status of block i, and stays readable as an aggregate.
Published(i) ==
  /\ status[i] = "a" => i > 0 /\ aggregate[i] = {i}
  /\ status[i] = "p" => inclusive[i] = Before(i + 1)
  /\ ~SINGLE_WORD /\ status[i] # "x" /\ i > 0 => aggregate[i] = {i}

\* How far block b has got with its own status.
OwnStage(b) ==
  /\ pc[b] \in {"waiting", "sum", "sum_fence"} => status[b] = "x"
  /\ pc[b] = "sum_fence" => ~SINGLE_WORD /\ (b = 0 => inclusive[b] = {0})
                                        /\ (b > 0 => aggregate[b] = {b})
  /\ pc[b] \in {"lookback", "prefix", "prefix_fence"} => b > 0 /\ status[b] = "a"
  /\ pc[b] = "prefix_fence" => ~SINGLE_WORD /\ inclusive[b] = Before(b + 1)

\* What a lane that looks at block i knows of it.
Known(v, i) ==
  \/ v = None /\ i >= 0
  \/ v = [status |-> "p", value |-> {}] /\ i < 0
  \/ i > 0 /\ v = [status |-> "a", value |-> {i}]
  \/ i >= 0 /\ v = [status |-> "p", value |-> Before(i + 1)]
  \/ i > 0 /\ v = [status |-> "a", value |-> Unread] /\ ~SINGLE_WORD /\ status[i] # "x"
  \/ i >= 0 /\ v = [status |-> "p", value |-> Unread] /\ ~SINGLE_WORD /\ status[i] = "p"

\* A block has added the blocks behind its window.
LookBackStage(b) ==
  /\ pc[b] \in {"waiting", "sum", "sum_fence"} => iblock0[b] = b - 1 /\ exclusive_prefix[b] = {}
  /\ pc[b] \in {"waiting", "sum", "sum_fence", "lookback"} =>
       \A l \in Lanes : Known(stva[b][l], iblock0[b] - l)
  /\ pc[b] = "lookback" => /\ iblock0[b] \in 0..b-1
                           /\ exclusive_prefix[b] = (iblock0[b] + 1)..(b - 1)
  /\ pc[b] \in {"prefix", "prefix_fence", "out", "done"} => exclusive_prefix[b] = Before(b)
  /\ pc[b] = "done" => fout[b] = Before(b)

IInv ==
  /\ TypeOK /\ Numbered
  /\ \A b \in Blocks : Published(b) /\ OwnStage(b) /\ LookBackStage(b)

LEMMA BlocksNat == Blocks \subseteq Nat /\ Lanes \subseteq Nat /\ nblocks \in Nat
  BY PrefixSumAssumption DEF Blocks, Lanes

LEMMA Windows ==
  ASSUME NEW i \in Int
  PROVE  /\ Window(i) \in [Lanes -> Stvas]
         /\ \A l \in Lanes : Known(Window(i)[l], i - l)
  BY BlocksNat DEF Window, Stvas, None, Known

LEMMA InitInv == Init => IInv
<1> SUFFICES ASSUME Init PROVE IInv
  OBVIOUS
<1>1. TypeOK
  BY BlocksNat, Windows DEF Init, TypeOK, Labels, Garbage
<1>2. Numbered
  BY DEF Init, Numbered
<1>3. ASSUME NEW b \in Blocks PROVE Published(b) /\ OwnStage(b) /\ LookBackStage(b)
  <2>1. Published(b) /\ OwnStage(b)
    BY DEF Init, Published, OwnStage
  <2>2. LookBackStage(b)
    <3>1. b - 1 \in Int
      BY BlocksNat
    <3>2. iblock0[b] = b - 1 /\ stva[b] = Window(b - 1) /\ pc[b] = "waiting"
          /\ exclusive_prefix[b] = {}
      BY DEF Init
    <3>3. \A l \in Lanes : Known(stva[b][l], iblock0[b] - l)
      BY <3>1, <3>2, Windows
    <3> QED
      BY <3>2, <3>3 DEF LookBackStage
  <2> QED
    BY <2>1, <2>2
<1> QED
  BY <1>1, <1>2, <1>3 DEF IInv

\* A set of lanes that is not empty has a first one.
LEMMA SmallestOf ==
  ASSUME NEW S, S \subseteq Lanes, S # {}
  PROVE  \E m \in S : \A k \in S : m <= k
<1>1. S \subseteq Nat
  BY BlocksNat
<1>2. PICK m \in S : \A k \in S : <<k, m>> \notin OpToRel(<, Nat)
  BY <1>1, WFMin, NatLessThanWellFounded, Zenon
<1>3. \A k \in S : ~(k < m)
  BY <1>1, <1>2 DEF OpToRel
<1> QED
  BY <1>1, <1>3

----------------------------------------------------------------------------
(* A window whose lanes have all read.                                     *)

\* The lanes that are added: all of them have aggregates but the last one, which may have a
\* prefix.
LEMMA AddedLanes ==
  ASSUME IInv, NEW b \in Blocks, pc[b] = "lookback", AllRead(b), NEW l \in Added(b)
  PROVE  /\ l \in Lanes /\ iblock0[b] - l >= 0
         /\ \/ l \notin status_bf(b) /\ iblock0[b] - l > 0 /\ stva[b][l].value = {iblock0[b] - l}
            \/ l \in status_bf(b) /\ stva[b][l].value = Before(iblock0[b] - l + 1)
<1> DEFINE i == iblock0[b]
<1>1. i \in 0..b-1 /\ b \in Nat /\ l \in Nat /\ l \in Lanes /\ Lanes = 0..warp_size-1
      /\ warp_size \in Nat
  BY BlocksNat, PrefixSumAssumption DEF IInv, LookBackStage, Added, Lanes
<1>2. \A k \in Lanes : Known(stva[b][k], i - k) /\ stva[b][k] # None /\ stva[b][k].value # Unread
  BY DEF IInv, LookBackStage, AllRead
<1> HIDE DEF i
<1>3. i - l >= 0
  <2> SUFFICES ASSUME i - l < 0 PROVE FALSE
    BY <1>1
  <2>1. i \in Lanes /\ i < l
    BY <1>1
  <2>2. stva[b][i].status = "p"
    <3>1. Known(stva[b][i], 0) /\ stva[b][i] # None /\ stva[b][i].value # Unread
      <4>1. i - i = 0
        BY <1>1
      <4> QED
        BY <1>2, <2>1, <4>1
    <3> QED
      BY <3>1 DEF Known
  <2>3. i \in status_bf(b)
    BY <2>1, <2>2 DEF status_bf
  <2> QED
    BY <1>1, <2>1, <2>3 DEF Added
<1>4. Known(stva[b][l], i - l) /\ stva[b][l] # None /\ stva[b][l].value # Unread
  BY <1>1, <1>2
<1>5. \/ i - l > 0 /\ stva[b][l] = [status |-> "a", value |-> {i - l}]
      \/ stva[b][l] = [status |-> "p", value |-> Before(i - l + 1)]
  BY <1>1, <1>3, <1>4 DEF Known
<1> QED
  BY <1>1, <1>3, <1>5 DEF status_bf, i

\* Without a prefix among them, the lanes add the blocks of their window, which does not
\* reach the first block; with one, they add all blocks up to the window's.
LEMMA WindowSum ==
  ASSUME IInv, NEW b \in Blocks, pc[b] = "lookback", AllRead(b)
  PROVE  LET sum == UNION {stva[b][l].value : l \in Added(b)}
         IN IF stop_lookback(b) THEN sum = Before(iblock0[b] + 1)
            ELSE iblock0[b] - warp_size >= 0
                 /\ sum = (iblock0[b] - warp_size + 1)..iblock0[b]
<1> DEFINE i == iblock0[b]
           sum == UNION {stva[b][l].value : l \in Added(b)}
<1>1. i \in 0..b-1 /\ b \in Nat /\ Lanes = 0..warp_size-1 /\ warp_size \in Nat \ {0}
      /\ Lanes \subseteq Nat
  BY BlocksNat, PrefixSumAssumption DEF IInv, LookBackStage, Lanes
<1>2. \A l \in Added(b) :
        /\ l \in Lanes /\ i - l >= 0
        /\ \/ l \notin status_bf(b) /\ i - l > 0 /\ stva[b][l].value = {i - l}
           \/ l \in status_bf(b) /\ stva[b][l].value = 0..i-l
  BY <1>1, AddedLanes DEF Before
<1> HIDE DEF i
<1>3. CASE stop_lookback(b)
  <2>1. PICK m \in status_bf(b) : \A k \in status_bf(b) : m <= k
    <3>1. PICK k \in status_bf(b) : TRUE
      BY <1>3 DEF stop_lookback
    <3> QED
      BY <1>1, <3>1, SmallestOf DEF status_bf
  <2>2. m \in Lanes /\ m \in Added(b) /\ Added(b) = 0..m
    BY <1>1, <2>1 DEF status_bf, Added
  <2>3. stva[b][m].value = 0..i-m /\ i - m >= 0
    BY <1>2, <2>1, <2>2
  <2>4. \A l \in 0..m : l # m => stva[b][l].value = {i - l} /\ i - l > 0
    <3> SUFFICES ASSUME NEW l \in 0..m, l # m
                 PROVE  stva[b][l].value = {i - l} /\ i - l > 0
      OBVIOUS
    <3>1. l < m /\ l \in Added(b)
      BY <1>1, <2>2
    <3>2. l \notin status_bf(b)
      BY <1>1, <2>1, <2>2, <3>1
    <3> QED
      BY <1>2, <3>1, <3>2
  <2>5. sum = 0..i
    <3>1. \A x \in sum : x \in 0..i
      BY <1>1, <2>2, <2>3, <2>4
    <3>2. ASSUME NEW x \in 0..i PROVE x \in sum
      <4>1. CASE x <= i - m
        BY <1>1, <2>2, <2>3, <4>1
      <4>2. CASE x > i - m
        <5>1. i - x \in 0..m /\ i - x # m /\ i - (i - x) = x
          BY <1>1, <2>2, <4>2
        <5>2. x \in stva[b][i - x].value /\ i - x \in Added(b)
          BY <2>2, <2>4, <5>1
        <5> QED
          BY <5>2
      <4> QED
        BY <1>1, <2>2, <4>1, <4>2
    <3> QED
      BY <3>1, <3>2
  <2> QED
    BY <1>1, <1>3, <2>5 DEF i, Before
<1>4. CASE ~stop_lookback(b)
  <2>1. Added(b) = Lanes /\ status_bf(b) = {}
    BY <1>4 DEF stop_lookback, Added
  <2>2. \A l \in Lanes : i - l > 0 /\ stva[b][l].value = {i - l}
    BY <1>2, <2>1
  <2>3. i - warp_size >= 0
    <3>1. warp_size - 1 \in Lanes
      BY <1>1
    <3>2. i - (warp_size - 1) > 0
      BY <2>2, <3>1
    <3> QED
      BY <1>1, <3>2
  <2>4. sum = (i - warp_size + 1)..i
    <3>1. \A x \in sum : x \in (i - warp_size + 1)..i
      BY <1>1, <2>1, <2>2
    <3>2. ASSUME NEW x \in (i - warp_size + 1)..i PROVE x \in sum
      <4>1. i - x \in Lanes /\ i - (i - x) = x
        BY <1>1
      <4>2. x \in stva[b][i - x].value
        BY <2>2, <4>1
      <4> QED
        BY <2>1, <4>1, <4>2
    <3> QED
      BY <3>1, <3>2
  <2> QED
    BY <1>4, <2>3, <2>4 DEF i
<1> QED
  BY <1>3, <1>4

----------------------------------------------------------------------------
(* Steps.                                                                  *)

\* A status only goes from nothing to an aggregate to a prefix.
Upwards ==
  /\ SINGLE_WORD' = SINGLE_WORD
  /\ \A i \in Blocks : /\ status[i] # "x" => status'[i] # "x"
                       /\ status[i] = "p" => status'[i] = "p"

LEMMA KnownKept ==
  ASSUME Upwards, NEW v, NEW i \in Int, i < nblocks, Known(v, i)
  PROVE  Known(v, i)'
<1>1. i >= 0 => i \in Blocks
  BY BlocksNat DEF Blocks
<1> QED
  BY <1>1 DEF Upwards, Known, None, Unread, Before

\* The lanes of a window know what they knew.
LEMMA LanesKept ==
  ASSUME IInv, Upwards, NEW b \in Blocks, NEW l \in Lanes,
         pc[b] \in {"waiting", "sum", "sum_fence", "lookback"},
         iblock0'[b] = iblock0[b], stva'[b][l] = stva[b][l]
  PROVE  Known(stva[b][l], iblock0[b] - l)'
<1>1. iblock0[b] \in Int /\ iblock0[b] <= b - 1 /\ b \in Nat /\ b < nblocks
  BY BlocksNat DEF IInv, LookBackStage, TypeOK, Blocks
<1>2. iblock0[b] - l \in Int /\ iblock0[b] - l < nblocks
  BY <1>1, BlocksNat
<1>3. Known(stva[b][l], iblock0[b] - l)
  BY DEF IInv, LookBackStage
<1>4. ASSUME NEW v, v = stva[b][l], NEW i, i = iblock0[b] - l
      PROVE  Known(v, i)'
  BY <1>2, <1>3, <1>4, KnownKept
<1> QED
  BY <1>4 DEF Known

\* A block that does nothing.
Idle(q) ==
  /\ pc'[q] = pc[q] /\ status'[q] = status[q] /\ aggregate'[q] = aggregate[q]
  /\ inclusive'[q] = inclusive[q] /\ iblock0'[q] = iblock0[q] /\ stva'[q] = stva[q]
  /\ exclusive_prefix'[q] = exclusive_prefix[q] /\ fout'[q] = fout[q]

LEMMA IdleKept ==
  ASSUME IInv, Upwards, NEW q \in Blocks, Idle(q)
  PROVE  Published(q)' /\ OwnStage(q)' /\ LookBackStage(q)'
<1>1. Published(q)'
  BY DEF IInv, Upwards, Idle, Published, Before
<1>2. OwnStage(q)'
  BY DEF IInv, Upwards, Idle, OwnStage, Before
<1>3. pc[q] \in {"waiting", "sum", "sum_fence", "lookback"} =>
        \A l \in Lanes : Known(stva[q][l], iblock0[q] - l)'
  BY LanesKept DEF Idle
<1>4. LookBackStage(q)'
  BY <1>3 DEF IInv, Idle, LookBackStage, Before
<1> QED
  BY <1>1, <1>2, <1>4

\* A step of block b alone.
LEMMA OneBlock ==
  ASSUME IInv, TypeOK', Upwards, NEW b \in Blocks, \A q \in Blocks \ {b} : Idle(q),
         virtual_block_id' >= virtual_block_id, b < virtual_block_id',
         Published(b)', OwnStage(b)', LookBackStage(b)'
  PROVE  IInv'
<1>1. \A q \in Blocks : Published(q)' /\ OwnStage(q)' /\ LookBackStage(q)'
  BY IdleKept
<1>2. Numbered'
  BY BlocksNat DEF IInv, TypeOK, Numbered, Idle
<1> QED
  BY <1>1, <1>2 DEF IInv

LEMMA StartInv ==
  ASSUME IInv, NEW b \in Blocks, Start(b)
  PROVE  IInv'
<1> USE DEF Start, Goto, block_status, lookback
<1>1. b = virtual_block_id /\ b \in Nat
  BY BlocksNat DEF VirtualIds
<1>2. pc[b] = "waiting"
  BY <1>1 DEF IInv, Numbered
<1>3. TypeOK'
  BY DEF IInv, TypeOK, Labels
<1>4. Upwards /\ \A q \in Blocks \ {b} : Idle(q)
  BY DEF IInv, TypeOK, Upwards, Idle
<1>5. Published(b)' /\ OwnStage(b)'
  BY <1>2 DEF IInv, TypeOK, Published, OwnStage, Before
<1>6. \A l \in Lanes : Known(stva[b][l], iblock0[b] - l)'
  BY <1>2, <1>4, LanesKept
<1>7. LookBackStage(b)'
  BY <1>2, <1>6 DEF IInv, TypeOK, LookBackStage, Before
<1> QED
  BY <1>1, <1>3, <1>4, <1>5, <1>7, OneBlock

LEMMA SumInv ==
  ASSUME IInv, NEW b \in Blocks, PublishSum(b) \/ SumPublished(b)
  PROVE  IInv'
<1> USE DEF Goto, block_status, lookback, OwnStatus, AfterOwn
<1>1. /\ pc[b] \in {"sum", "sum_fence"} /\ status[b] = "x" /\ b \in Nat
      /\ UNCHANGED <<SINGLE_WORD, virtual_block_id, lookback, fout>>
  BY BlocksNat DEF IInv, OwnStage, PublishSum, SumPublished, SetStatus
<1>2. b < virtual_block_id
  BY <1>1 DEF IInv, Numbered, TypeOK
<1>3. CASE PublishSum(b) /\ nblocks > 1
  <2>1. Write(b, OwnStatus(b), {b}, "sum_fence", AfterOwn(b))
    BY <1>3 DEF PublishSum
  <2>2. TypeOK'
    BY <1>1, <2>1 DEF IInv, TypeOK, Labels, Write, Store
  <2>3. Upwards /\ \A q \in Blocks \ {b} : Idle(q)
    BY <1>1, <2>1 DEF IInv, TypeOK, Upwards, Idle, Write, Store
  <2>4. Published(b)' /\ OwnStage(b)'
    <3>1. Before(0 + 1) = {0} /\ (Before(b + 1))' = Before(b + 1)
      BY DEF Before
    <3>2. CASE b = 0
      <4>1. /\ inclusive'[b] = Before(b + 1)
            /\ IF SINGLE_WORD THEN status'[b] = "p" /\ pc'[b] = "out"
                              ELSE status'[b] = "x" /\ pc'[b] = "sum_fence"
        BY <1>1, <2>1, <3>1, <3>2 DEF IInv, TypeOK, Write, Store
      <4> QED
        BY <1>1, <3>1, <3>2, <4>1 DEF IInv, TypeOK, Published, OwnStage
    <3>3. CASE b > 0
      BY <1>1, <2>1, <3>3 DEF IInv, TypeOK, Published, OwnStage, Write, Store
    <3> QED
      BY <1>1, <3>2, <3>3
  <2>5. \A l \in Lanes : Known(stva[b][l], iblock0[b] - l)'
    BY <1>1, <2>3, LanesKept
  <2>6. LookBackStage(b)'
    <3>1. iblock0[b] = b - 1 /\ exclusive_prefix[b] = {}
      BY <1>1 DEF IInv, LookBackStage
    <3>2. pc'[b] \in {"sum_fence", AfterOwn(b)}
      BY <1>1, <2>1 DEF IInv, TypeOK, Write
    <3>3. b = 0 => Before(b) = {}
      BY DEF Before
    <3>4. b > 0 => b - 1 \in 0..b-1 /\ (b - 1 + 1)..(b - 1) = {}
      BY <1>1
    <3> QED
      BY <1>1, <2>5, <3>1, <3>2, <3>3, <3>4 DEF LookBackStage, Before
  <2> QED
    BY <1>1, <1>2, <2>2, <2>3, <2>4, <2>6, OneBlock DEF IInv, TypeOK
<1>4. CASE PublishSum(b) /\ ~(nblocks > 1)
  <2>1. UNCHANGED block_status /\ pc' = [pc EXCEPT ![b] = "out"] /\ b = 0
    BY <1>1, <1>4, PrefixSumAssumption DEF PublishSum, Blocks
  <2>2. TypeOK'
    BY <1>1, <2>1 DEF IInv, TypeOK, Labels
  <2>3. Upwards /\ \A q \in Blocks \ {b} : Idle(q)
    BY <1>1, <2>1 DEF IInv, TypeOK, Upwards, Idle
  <2>4. Published(b)' /\ OwnStage(b)'
    BY <1>1, <2>1 DEF IInv, TypeOK, Published, OwnStage
  <2>5. LookBackStage(b)'
    <3>1. Before(b) = {}
      BY <2>1 DEF Before
    <3> QED
      BY <1>1, <2>1, <3>1 DEF IInv, TypeOK, LookBackStage, Before
  <2> QED
    BY <1>1, <1>2, <2>2, <2>3, <2>4, <2>5, OneBlock DEF IInv, TypeOK
<1>5. CASE SumPublished(b)
  <2>1. /\ status' = [status EXCEPT ![b] = OwnStatus(b)]
        /\ pc' = [pc EXCEPT ![b] = AfterOwn(b)] /\ UNCHANGED <<aggregate, inclusive>>
        /\ pc[b] = "sum_fence"
    BY <1>5 DEF SumPublished, SetStatus
  <2>2. TypeOK'
    BY <1>1, <2>1 DEF IInv, TypeOK, Labels
  <2>3. Upwards /\ \A q \in Blocks \ {b} : Idle(q)
    BY <1>1, <2>1 DEF IInv, TypeOK, Upwards, Idle
  <2>4. Published(b)' /\ OwnStage(b)'
    <3>1. Before(0 + 1) = {0} /\ (Before(b + 1))' = Before(b + 1)
      BY DEF Before
    <3>2. CASE b = 0
      BY <1>1, <2>1, <3>1, <3>2 DEF IInv, TypeOK, Published, OwnStage
    <3>3. CASE b > 0
      BY <1>1, <2>1, <3>3 DEF IInv, TypeOK, Published, OwnStage
    <3> QED
      BY <1>1, <3>2, <3>3
  <2>5. \A l \in Lanes : Known(stva[b][l], iblock0[b] - l)'
    BY <1>1, <2>3, LanesKept
  <2>6. LookBackStage(b)'
    <3>1. iblock0[b] = b - 1 /\ exclusive_prefix[b] = {}
      BY <1>1 DEF IInv, LookBackStage
    <3>2. pc'[b] = AfterOwn(b)
      BY <2>1 DEF IInv, TypeOK
    <3>3. b = 0 => Before(b) = {}
      BY DEF Before
    <3>4. b > 0 => b - 1 \in 0..b-1 /\ (b - 1 + 1)..(b - 1) = {}
      BY <1>1
    <3> QED
      BY <1>1, <2>5, <3>1, <3>2, <3>3, <3>4 DEF LookBackStage, Before
  <2> QED
    BY <1>1, <1>2, <2>2, <2>3, <2>4, <2>6, OneBlock DEF IInv, TypeOK
<1> QED
  BY <1>3, <1>4, <1>5

\* What a lane knows that has read a status only.
LEMMA UnreadKnown ==
  ASSUME NEW u, NEW i \in Int, Known(u, i), u.value = Unread
  PROVE  /\ i >= 0
         /\ \/ u.status = "a" /\ i > 0 /\ ~SINGLE_WORD /\ status[i] # "x"
            \/ u.status = "p" /\ status[i] = "p"
<1>1. -2 \in Unread /\ \A j \in Int : j >= 0 => -2 \notin {j}
  BY DEF Unread
<1>2. -2 \notin Before(i + 1) /\ Unread # {}
  BY <1>1 DEF Before
<1>3. u # None
  BY <1>2 DEF None
<1>4. u # [status |-> "p", value |-> {}]
  BY <1>2
<1>5. ~(i > 0 /\ u = [status |-> "a", value |-> {i}])
  BY <1>1
<1>6. u # [status |-> "p", value |-> Before(i + 1)]
  BY <1>1, <1>2
<1>7. \/ i > 0 /\ u = [status |-> "a", value |-> Unread] /\ ~SINGLE_WORD /\ status[i] # "x"
      \/ i >= 0 /\ u = [status |-> "p", value |-> Unread] /\ ~SINGLE_WORD /\ status[i] = "p"
  BY <1>3, <1>4, <1>5, <1>6 DEF Known
<1>8. CASE i > 0 /\ u = [status |-> "a", value |-> Unread] /\ ~SINGLE_WORD /\ status[i] # "x"
  <2>1. i >= 0 /\ u.status = "a"
    BY <1>8
  <2> QED
    BY <1>8, <2>1
<1>9. CASE i >= 0 /\ u = [status |-> "p", value |-> Unread] /\ ~SINGLE_WORD /\ status[i] = "p"
  <2>1. u.status = "p"
    BY <1>9
  <2> QED
    BY <1>9, <2>1
<1> QED
  BY <1>7, <1>8, <1>9

LEMMA ReadInv ==
  ASSUME IInv, NEW b \in Blocks, NEW l \in Lanes, ReadStatus(b, l) \/ ReadValue(b, l)
  PROVE  IInv'
<1> USE DEF block_status
<1> DEFINE i == iblock0[b] - l
<1>1. /\ pc[b] = "lookback" /\ b \in Nat /\ iblock0[b] \in 0..b-1 /\ l \in Nat
      /\ UNCHANGED <<SINGLE_WORD, virtual_block_id, block_status, pc, iblock0, exclusive_prefix,
                     fout>>
  BY BlocksNat DEF IInv, LookBackStage, ReadStatus, ReadValue
<1>2. Known(stva[b][l], i)
  BY <1>1 DEF IInv, LookBackStage
<1>3. i \in Int /\ (i >= 0 => i \in Blocks) /\ b < virtual_block_id
  BY <1>1, BlocksNat DEF Blocks, IInv, Numbered, TypeOK
<1>4. PICK v \in Stvas : stva' = [stva EXCEPT ![b][l] = v] /\ Known(v, i)
  <2>1. CASE ReadStatus(b, l)
    <3>1. i >= 0
      BY <1>2, <2>1 DEF ReadStatus, Known, None
    <3>2. Published(i) /\ status[i] \in {"a", "p"} /\ aggregate[i] \in SUBSET Int
          /\ inclusive[i] \in SUBSET Int
      BY <1>3, <2>1, <3>1 DEF ReadStatus, IInv, TypeOK
    <3>3. CASE SINGLE_WORD
      <4> DEFINE v == [status |-> status[i], value |-> Field(i, status[i])]
      <4>1. stva' = [stva EXCEPT ![b][l] = v]
        BY <2>1, <3>3 DEF ReadStatus
      <4>2. v \in Stvas /\ Known(v, i)
        BY <1>3, <3>1, <3>2 DEF Stvas, Field, Known, Published
      <4> QED
        BY <4>1, <4>2
    <3>4. CASE ~SINGLE_WORD
      <4> DEFINE v == [status |-> status[i], value |-> Unread]
      <4>1. stva' = [stva EXCEPT ![b][l] = v]
        BY <2>1, <3>4 DEF ReadStatus
      <4>2. v \in Stvas
        BY <3>2 DEF Stvas, Unread
      <4>3. status[i] = "a" => Known(v, i)
        BY <3>2, <3>4 DEF Known, Published
      <4>4. status[i] = "p" => Known(v, i)
        BY <3>1, <3>4 DEF Known
      <4> QED
        BY <3>2, <4>1, <4>2, <4>3, <4>4
    <3> QED
      BY <3>3, <3>4
  <2>2. CASE ReadValue(b, l)
    <3> DEFINE s == stva[b][l].status
               v == [status |-> s, value |-> Field(i, s)]
    <3>1. stva[b][l] \in Stvas /\ stva[b][l].value = Unread
      BY <1>1, <2>2 DEF ReadValue, IInv, TypeOK
    <3>2. /\ i >= 0
          /\ \/ s = "a" /\ i > 0 /\ ~SINGLE_WORD /\ status[i] # "x"
             \/ s = "p" /\ status[i] = "p"
      <4>1. ASSUME NEW j, j = i, NEW u, u = stva[b][l]
            PROVE  /\ j >= 0
                   /\ \/ u.status = "a" /\ j > 0 /\ ~SINGLE_WORD /\ status[j] # "x"
                      \/ u.status = "p" /\ status[j] = "p"
        BY <1>2, <1>3, <3>1, <4>1, UnreadKnown
      <4> QED
        BY <4>1
    <3>3. Published(i) /\ aggregate[i] \in SUBSET Int /\ inclusive[i] \in SUBSET Int
      BY <1>3, <3>2 DEF IInv, TypeOK
    <3>4. v \in Stvas /\ Known(v, i)
      BY <1>3, <3>2, <3>3 DEF Stvas, Field, Known, Published
    <3>5. stva' = [stva EXCEPT ![b][l] = v]
      <4>1. stva' = [stva EXCEPT ![b][l].value = Field(i, s)]
        BY <2>2 DEF ReadValue
      <4>2. [stva[b][l] EXCEPT !.value = Field(i, s)] = v
        BY <3>1 DEF Stvas
      <4> QED
        BY <4>1, <4>2 DEF IInv, TypeOK
    <3> QED
      BY <3>4, <3>5
  <2> QED
    BY <2>1, <2>2
<1>5. TypeOK'
  BY <1>1, <1>4 DEF IInv, TypeOK
<1>6. Upwards /\ \A q \in Blocks \ {b} : Idle(q)
  BY <1>1, <1>4 DEF IInv, TypeOK, Upwards, Idle
<1>7. Published(b)' /\ OwnStage(b)'
  BY <1>1 DEF IInv, Published, OwnStage, Before
<1>8. \A k \in Lanes : Known(stva[b][k], iblock0[b] - k)'
  <2> SUFFICES ASSUME NEW k \in Lanes PROVE Known(stva[b][k], iblock0[b] - k)'
    OBVIOUS
  <2>1. CASE k = l
    <3>1. ASSUME NEW j, j = i PROVE Known(v, j)'
      BY <1>1, <1>3, <1>4, <1>6, <3>1, KnownKept, BlocksNat DEF Blocks
    <3>2. stva'[b][k] = v /\ iblock0'[b] - k = i
      BY <1>1, <1>4, <2>1 DEF IInv, TypeOK
    <3>3. ASSUME NEW u, u = v, NEW j, j = i PROVE Known(u, j)'
      BY <3>1, <3>3
    <3> QED
      BY <3>2, <3>3 DEF Known
  <2>2. CASE k # l
    <3>1. stva'[b][k] = stva[b][k] /\ iblock0'[b] = iblock0[b]
      BY <1>1, <1>4, <2>2 DEF IInv, TypeOK
    <3> QED
      BY <1>1, <1>6, <3>1, LanesKept
  <2> QED
    BY <2>1, <2>2
<1>9. LookBackStage(b)'
  BY <1>1, <1>8 DEF IInv, LookBackStage, Before
<1> QED
  BY <1>1, <1>3, <1>5, <1>6, <1>7, <1>9, OneBlock DEF IInv, TypeOK

LEMMA LookBackInv ==
  ASSUME IInv, NEW b \in Blocks, LookBack(b)
  PROVE  IInv'
<1> USE DEF block_status, Goto
<1> DEFINE i   == iblock0[b]
           sum == UNION {stva[b][l].value : l \in Added(b)}
<1>1. /\ pc[b] = "lookback" /\ AllRead(b) /\ b \in Nat /\ b < virtual_block_id
      /\ i \in 0..b-1 /\ exclusive_prefix[b] = (i + 1)..(b - 1)
      /\ UNCHANGED <<SINGLE_WORD, virtual_block_id, block_status, fout>>
  <2>1. /\ pc[b] = "lookback" /\ AllRead(b)
        /\ UNCHANGED <<SINGLE_WORD, virtual_block_id, block_status, fout>>
    BY DEF LookBack
  <2>2. b \in Nat /\ virtual_block_id \in Nat /\ b < virtual_block_id
    BY <2>1, BlocksNat DEF IInv, Numbered, TypeOK
  <2>3. i \in 0..b-1 /\ exclusive_prefix[b] = (i + 1)..(b - 1)
    BY <2>1 DEF IInv, LookBackStage
  <2> QED
    BY <2>1, <2>2, <2>3
<1>2. exclusive_prefix' = [exclusive_prefix EXCEPT ![b] = @ \cup sum]
  BY DEF LookBack
<1>3. warp_size \in Nat \ {0}
  BY PrefixSumAssumption
<1>4. CASE stop_lookback(b)
  <2>1. sum = Before(i + 1)
    BY <1>1, <1>4, WindowSum
  <2>2. pc' = [pc EXCEPT ![b] = "prefix"] /\ UNCHANGED <<iblock0, stva>>
    BY <1>4 DEF LookBack
  <2> HIDE DEF sum, i
  <2>3. exclusive_prefix'[b] = Before(b) /\ Before(b) \subseteq Int
    <3>1. ((i + 1)..(b - 1)) \cup Before(i + 1) = Before(b)
      BY <1>1 DEF Before
    <3> QED
      BY <1>1, <1>2, <2>1, <3>1 DEF IInv, TypeOK, Before
  <2>4. TypeOK'
    <3>1. exclusive_prefix[b] \cup sum \in SUBSET Int
      BY <1>1, <2>1 DEF Before
    <3> QED
      BY <1>1, <1>2, <2>2, <3>1 DEF IInv, TypeOK, Labels
  <2>5. Upwards /\ \A q \in Blocks \ {b} : Idle(q)
    BY <1>1, <1>2, <2>2 DEF IInv, TypeOK, Upwards, Idle
  <2>6. Published(b)' /\ OwnStage(b)'
    BY <1>1, <2>2 DEF IInv, TypeOK, Published, OwnStage, Before
  <2>7. LookBackStage(b)'
    BY <2>2, <2>3 DEF IInv, TypeOK, LookBackStage, Before
  <2>8. b < virtual_block_id' /\ virtual_block_id' >= virtual_block_id
    BY <1>1 DEF IInv, TypeOK
  <2> QED
    BY <2>4, <2>5, <2>6, <2>7, <2>8, OneBlock
<1>5. CASE ~stop_lookback(b)
  <2>1. i - warp_size >= 0 /\ sum = (i - warp_size + 1)..i
    BY <1>1, <1>5, WindowSum
  <2>2. /\ UNCHANGED pc
        /\ iblock0' = [iblock0 EXCEPT ![b] = i - warp_size]
        /\ stva' = [stva EXCEPT ![b] = Window(i - warp_size)]
    <3>1. ~(i - warp_size < 0)
      BY <1>1, <1>3, <2>1
    <3> QED
      BY <1>5, <3>1 DEF LookBack
  <2> HIDE DEF sum, i
  <2>3. i - warp_size \in 0..b-1 /\ i - warp_size \in Int
    BY <1>1, <1>3, <2>1
  <2>4. exclusive_prefix'[b] = (i - warp_size + 1)..(b - 1)
    <3>1. ((i + 1)..(b - 1)) \cup ((i - warp_size + 1)..i) = (i - warp_size + 1)..(b - 1)
      BY <1>1, <1>3, <2>3
    <3> QED
      BY <1>1, <1>2, <2>1, <3>1 DEF IInv, TypeOK
  <2>5. TypeOK'
    <3>1. exclusive_prefix[b] \cup sum \in SUBSET Int
      BY <1>1, <1>3, <2>1
    <3>2. Window(i - warp_size) \in [Lanes -> Stvas]
      BY <2>3, Windows
    <3> QED
      BY <1>1, <1>2, <2>2, <2>3, <3>1, <3>2 DEF IInv, TypeOK
  <2>6. Upwards /\ \A q \in Blocks \ {b} : Idle(q)
    BY <1>1, <1>2, <2>2 DEF IInv, TypeOK, Upwards, Idle
  <2>7. Published(b)' /\ OwnStage(b)'
    BY <1>1, <2>2 DEF IInv, TypeOK, Published, OwnStage, Before
  <2>8. \A l \in Lanes : Known(stva[b][l], iblock0[b] - l)'
    <3> SUFFICES ASSUME NEW l \in Lanes PROVE Known(stva[b][l], iblock0[b] - l)'
      OBVIOUS
    <3>1. stva'[b][l] = Window(i - warp_size)[l] /\ iblock0'[b] - l = i - warp_size - l
      BY <2>2 DEF IInv, TypeOK
    <3>2. Known(Window(i - warp_size)[l], i - warp_size - l)
      BY <2>3, Windows
    <3>3. i - warp_size - l < nblocks /\ i - warp_size - l \in Int
      BY <1>1, <1>3, <2>3, BlocksNat DEF Blocks
    <3>4. ASSUME NEW v, v = Window(i - warp_size)[l], NEW j, j = i - warp_size - l
          PROVE  Known(v, j)'
      BY <2>6, <3>2, <3>3, <3>4, KnownKept
    <3> QED
      BY <3>1, <3>4 DEF Known
  <2>9. LookBackStage(b)'
    <3>1. iblock0'[b] = i - warp_size
      BY <2>2 DEF IInv, TypeOK
    <3> QED
      BY <1>1, <2>2, <2>3, <2>4, <2>8, <3>1 DEF LookBackStage
  <2>10. b < virtual_block_id' /\ virtual_block_id' >= virtual_block_id
    BY <1>1 DEF IInv, TypeOK
  <2> QED
    BY <2>5, <2>6, <2>7, <2>9, <2>10, OneBlock
<1> QED
  BY <1>4, <1>5

LEMMA PrefixInv ==
  ASSUME IInv, NEW b \in Blocks, PublishPrefix(b) \/ PrefixPublished(b) \/ Output(b)
  PROVE  IInv'
<1> USE DEF Goto, block_status, lookback
<1>1. /\ pc[b] \in {"prefix", "prefix_fence", "out"} /\ b \in Nat /\ b < virtual_block_id
      /\ exclusive_prefix[b] = Before(b) /\ Before(b) \subseteq Int
      /\ {b} \cup Before(b) = Before(b + 1) /\ Before(b + 1) \subseteq Int
      /\ UNCHANGED <<SINGLE_WORD, virtual_block_id, lookback>>
  BY BlocksNat DEF IInv, Numbered, TypeOK, LookBackStage, PublishPrefix, PrefixPublished,
                   SetStatus, Output, Before
<1>2. CASE PublishPrefix(b)
  <2>1. /\ Write(b, "p", Before(b + 1), "prefix_fence", "out") /\ UNCHANGED fout
        /\ pc[b] = "prefix" /\ status[b] = "a" /\ b > 0 /\ aggregate[b] = {b}
    BY <1>1, <1>2 DEF PublishPrefix, IInv, OwnStage, Published
  <2>2. TypeOK'
    BY <1>1, <2>1 DEF IInv, TypeOK, Labels, Write, Store
  <2>3. Upwards /\ \A q \in Blocks \ {b} : Idle(q)
    BY <1>1, <2>1 DEF IInv, TypeOK, Upwards, Idle, Write, Store
  <2>4. Published(b)' /\ OwnStage(b)'
    BY <1>1, <2>1 DEF IInv, TypeOK, Published, OwnStage, Write, Store, Before
  <2>5. pc'[b] \in {"prefix_fence", "out"}
    BY <2>1 DEF IInv, TypeOK, Write
  <2>6. LookBackStage(b)'
    BY <1>1, <2>5 DEF LookBackStage, Before
  <2> QED
    BY <1>1, <2>2, <2>3, <2>4, <2>6, OneBlock DEF IInv, TypeOK
<1>3. CASE PrefixPublished(b)
  <2>1. /\ status' = [status EXCEPT ![b] = "p"] /\ pc' = [pc EXCEPT ![b] = "out"]
        /\ UNCHANGED <<aggregate, inclusive, fout>> /\ inclusive[b] = Before(b + 1)
        /\ status[b] = "a" /\ aggregate[b] = {b}
    BY <1>3 DEF PrefixPublished, SetStatus, IInv, OwnStage, Published
  <2>2. TypeOK'
    BY <1>1, <2>1 DEF IInv, TypeOK, Labels
  <2>3. Upwards /\ \A q \in Blocks \ {b} : Idle(q)
    BY <1>1, <2>1 DEF IInv, TypeOK, Upwards, Idle
  <2>4. Published(b)' /\ OwnStage(b)'
    BY <1>1, <2>1 DEF IInv, TypeOK, Published, OwnStage, Before
  <2>5. LookBackStage(b)'
    BY <1>1, <2>1 DEF IInv, TypeOK, LookBackStage, Before
  <2> QED
    BY <1>1, <2>2, <2>3, <2>4, <2>5, OneBlock DEF IInv, TypeOK
<1>4. CASE Output(b)
  <2>1. /\ pc' = [pc EXCEPT ![b] = "done"] /\ fout' = [fout EXCEPT ![b] = Before(b)]
        /\ UNCHANGED block_status
    BY <1>1, <1>4 DEF Output
  <2>2. TypeOK'
    BY <1>1, <2>1 DEF IInv, TypeOK, Labels
  <2>3. Upwards /\ \A q \in Blocks \ {b} : Idle(q)
    BY <1>1, <2>1 DEF IInv, TypeOK, Upwards, Idle
  <2>4. Published(b)' /\ OwnStage(b)'
    BY <1>1, <2>1 DEF IInv, TypeOK, Published, OwnStage, Before
  <2>5. LookBackStage(b)'
    BY <1>1, <2>1 DEF IInv, TypeOK, LookBackStage, Before
  <2> QED
    BY <1>1, <2>2, <2>3, <2>4, <2>5, OneBlock DEF IInv, TypeOK
<1> QED
  BY <1>2, <1>3, <1>4

LEMMA NextInv == IInv /\ [Next]_vars => IInv'
<1> SUFFICES ASSUME IInv, [Next]_vars PROVE IInv'
  OBVIOUS
<1>1. CASE Next
  BY <1>1, StartInv, SumInv, ReadInv, LookBackInv, PrefixInv DEF Next, Step
<1>2. CASE UNCHANGED vars
  BY <1>2 DEF vars, block_status, lookback, IInv, TypeOK, Numbered, Published, OwnStage,
              LookBackStage, Known, None, Unread, Before
<1> QED
  BY <1>1, <1>2

LEMMA Inductive == Spec => []IInv
  BY InitInv, NextInv, PTL DEF Spec

\* The total is that of nothing until the last block is done.
Total == totalsum_p = IF pc[nblocks - 1] = "done" THEN Blocks ELSE {}

LEMMA LastBlock == nblocks - 1 \in Blocks /\ Before(nblocks - 1) \cup {nblocks - 1} = Blocks
  BY PrefixSumAssumption DEF Blocks, Before

LEMMA NextTotal == IInv /\ Total /\ [Next]_vars => Total'
<1> SUFFICES ASSUME IInv, Total, [Next]_vars PROVE Total'
  OBVIOUS
<1> DEFINE last == nblocks - 1
<1>1. pc \in [Blocks -> Labels] /\ last \in Blocks
  BY LastBlock DEF IInv, TypeOK
<1>2. ASSUME NEW b \in Blocks, Output(b) PROVE Total'
  <2>1. exclusive_prefix[b] = Before(b)
    BY <1>2 DEF IInv, LookBackStage, Output
  <2>2. CASE b = last
    BY <1>1, <1>2, <2>1, <2>2, LastBlock DEF Total, Output, AddTotal, Goto
  <2>3. CASE b # last
    BY <1>1, <1>2, <2>3 DEF Total, Output, AddTotal, Goto
  <2> QED
    BY <2>2, <2>3
<1>3. ASSUME NEW b \in Blocks, UNCHANGED totalsum_p, pc[b] # "done",
             \/ UNCHANGED pc
             \/ \E l \in Labels \ {"done"} : pc' = [pc EXCEPT ![b] = l]
      PROVE  Total'
  BY <1>1, <1>3 DEF Total
<1>4. ASSUME NEW b \in Blocks, Start(b) PROVE Total'
  <2>1. pc[b] # "done"
    BY <1>4 DEF IInv, Numbered, Start, VirtualIds, Blocks
  <2>2. pc' = [pc EXCEPT ![b] = "sum"] /\ UNCHANGED totalsum_p
    BY <1>4 DEF Start, Goto
  <2> QED
    BY <2>1, <2>2, <1>3 DEF Labels
<1>5. ASSUME NEW b \in Blocks, PublishSum(b) \/ SumPublished(b) PROVE Total'
  BY <1>3, <1>5 DEF PublishSum, SumPublished, SetStatus, Write, Goto, AfterOwn, Labels
<1>6. ASSUME NEW b \in Blocks, LookBack(b) PROVE Total'
  BY <1>3, <1>6 DEF LookBack, Goto, Labels
<1>7. ASSUME NEW b \in Blocks, PublishPrefix(b) \/ PrefixPublished(b) PROVE Total'
  BY <1>3, <1>7 DEF PublishPrefix, PrefixPublished, SetStatus, Write, Goto, Labels
<1>8. ASSUME NEW b \in Blocks, NEW l \in Lanes, ReadStatus(b, l) \/ ReadValue(b, l) PROVE Total'
  BY <1>3, <1>8 DEF ReadStatus, ReadValue
<1>9. CASE UNCHANGED vars
  BY <1>9 DEF Total, vars
<1> QED
  BY <1>2, <1>4, <1>5, <1>6, <1>7, <1>8, <1>9 DEF Next, Step

LEMMA TotalRight == Spec => []Total
<1>1. Init => Total
  BY LastBlock DEF Init, Total
<1> QED
  BY <1>1, Inductive, NextTotal, PTL DEF Spec

\* Whatever the order in which blocks start, publish and look back: a status never says more
\* than what stands beside it, the output of a block has the sum of the blocks before it, and
\* the sum that is returned that of all blocks.
THEOREM PrefixesAlwaysTrue == Spec => []PrefixesTrue
<1>1. IInv /\ Total => PrefixesTrue
  BY DEF IInv, Total, Published, LookBackStage, PrefixesTrue
<1> QED
  BY <1>1, Inductive, TotalRight, PTL

\* A look-back never adds a block twice: of the lanes that are added only the farthest has a
\* prefix, and that ends where the aggregates of the others begin.
THEOREM NeverAddedTwice == Spec => []AddedOnce
<1>1. IInv => AddedOnce
  <2> SUFFICES ASSUME IInv, NEW b \in Blocks, pc[b] = "lookback", AllRead(b),
                      NEW l \in Added(b)
               PROVE  /\ stva[b][l].value \cap exclusive_prefix[b] = {}
                      /\ \A k \in Added(b) : k # l => stva[b][k].value \cap stva[b][l].value = {}
    BY DEF AddedOnce
  <2> DEFINE i == iblock0[b]
  <2>1. /\ i \in 0..b-1 /\ exclusive_prefix[b] = (i + 1)..(b - 1) /\ b \in Nat
    BY BlocksNat DEF IInv, LookBackStage
  <2>2. \A k \in Added(b) :
          /\ k \in Nat /\ i - k >= 0
          /\ \/ k \notin status_bf(b) /\ stva[b][k].value = {i - k}
             \/ k \in status_bf(b) /\ stva[b][k].value = 0..i-k
    <3> SUFFICES ASSUME NEW k \in Added(b)
                 PROVE  /\ k \in Nat /\ i - k >= 0
                        /\ \/ k \notin status_bf(b) /\ stva[b][k].value = {i - k}
                           \/ k \in status_bf(b) /\ stva[b][k].value = 0..i-k
      OBVIOUS
    <3>1. /\ k \in Lanes /\ i - k >= 0
          /\ \/ k \notin status_bf(b) /\ i - k > 0 /\ stva[b][k].value = {i - k}
             \/ k \in status_bf(b) /\ stva[b][k].value = Before(i - k + 1)
      BY AddedLanes
    <3>2. k \in Nat
      BY <3>1, BlocksNat
    <3>3. Before(i - k + 1) = 0..i-k
      BY <2>1, <3>2 DEF Before
    <3> QED
      BY <3>1, <3>2, <3>3
  <2>3. \A k, m \in Added(b) : m \in status_bf(b) => k <= m
    BY DEF Added
  <2> HIDE DEF i
  <2>4. stva[b][l].value \cap exclusive_prefix[b] = {}
    BY <2>1, <2>2
  <2>5. ASSUME NEW k \in Added(b), k # l
        PROVE  stva[b][k].value \cap stva[b][l].value = {}
    <3>1. CASE k \in status_bf(b)
      <4>1. l < k /\ l \notin status_bf(b)
        BY <2>2, <2>3, <2>5, <3>1
      <4> QED
        BY <2>1, <2>2, <3>1, <4>1
    <3>2. CASE l \in status_bf(b)
      <4>1. k < l /\ k \notin status_bf(b)
        BY <2>2, <2>3, <2>5, <3>2
      <4> QED
        BY <2>1, <2>2, <3>2, <4>1
    <3>3. CASE k \notin status_bf(b) /\ l \notin status_bf(b)
      BY <2>1, <2>2, <2>5, <3>3
    <3> QED
      BY <3>1, <3>2, <3>3
  <2> QED
    BY <2>4, <2>5
<1> QED
  BY <1>1, Inductive, PTL

----------------------------------------------------------------------------
(* The scan in three kernels: its invariant.                               *)

\* Element w * warp_size + l of chunk c.
Place(c, w, l) == c * MP!blockDim + w * warp_size + l

\* Where element o of the whole is, and which warp of a block has its element j.
BlockOf(o) == o \div MP!nelms_per_block
InBlock(o) == o % MP!nelms_per_block
WarpOf(j)  == (j % MP!blockDim) \div warp_size

\* The sum of what block b has before its element j.  The elements of the second kernel are
\* the sums of the blocks.
Upto(b, j) ==
  IF kernel = 2 THEN MP!Sums[MP!Smaller(MP!nelms_per_block * j, n)]
  ELSE MP!Sums[MP!Smaller(MP!ibegin(b) + j, MP!iend(b))] - MP!Sums[MP!ibegin(b)]

\* A warp has dealt with element j of block b.
Dealt(b, j) == j \div MP!blockDim < ichunk[b][WarpOf(j)]

WarpLabels == IF kernel = 3 THEN {"add", "end"} ELSE {"warp", "block", "chunk", "end"}
Blockset   == 0..MP!NumBlocks-1

MPTypeOK ==
  /\ n \in Lengths /\ type \in BOOLEAN /\ kernel \in 1..4
  /\ waiting \subseteq MP!Grid(kernel) /\ running \subseteq MP!Grid(kernel)
  /\ warp_pc \in [Blockset -> [MP!Warps -> WarpLabels]]
  /\ ichunk \in [Blockset -> [MP!Warps -> Nat]] /\ barriers \in [Blockset -> [MP!Warps -> Nat]]
  /\ sum_prev_chunk \in [Blockset -> [MP!Warps -> Int]]
  /\ shared \in [Blockset -> [MP!Warps -> Int]] /\ shared2 \in [Blockset -> [MP!Warps -> Int]]
  /\ blockresult \in [0..n-1 -> Int] /\ blocksum \in [Blockset -> Int]
  /\ totalsum \in Int /\ out \in [0..n-1 -> Int]

\* A warp passes two barriers for each chunk.
Counted(b, w) ==
  barriers[b][w] = 2 * ichunk[b][w] + (CASE warp_pc[b][w] = "block" -> 1
                                         [] warp_pc[b][w] = "chunk" -> 2
                                         [] OTHER -> 0)

\* No warp is ahead of another one by more than the barrier it waits at.
InStep(b, w) ==
  \A v \in MP!Warps :
    barriers[b][v] >= barriers[b][w] - (IF warp_pc[b][w] \in {"block", "chunk"} THEN 1 ELSE 0)

\* The last chunk whose warps the first warp has added up.
LastChunk(b) == IF warp_pc[b][0] = "chunk" THEN ichunk[b][0] ELSE ichunk[b][0] - 1

\* What a warp has in its variables and in the memory of the block.
Adding(b, w) ==
  /\ sum_prev_chunk[b][w] = Upto(b, Place(ichunk[b][w], 0, 0))
  /\ warp_pc[b][w] \in {"block", "chunk"} =>
       shared[b][w] = Upto(b, Place(ichunk[b][w], w + 1, 0)) - Upto(b, Place(ichunk[b][w], w, 0))
  /\ LastChunk(b) >= 0 =>
       shared2[b][w] = Upto(b, Place(LastChunk(b), w + 1, 0)) - Upto(b, Place(LastChunk(b), 0, 0))
  /\ warp_pc[b][w] = "end" => ~MP!MoreChunks(b, w)

\* The block is over when it has left the kernel.
Over(b) == b \notin waiting \cup running => \A w \in MP!Warps : warp_pc[b][w] = "end"

Threads ==
  /\ \A b \in MP!Grid(kernel) : Over(b)
  /\ kernel \in {1, 2} => \A b \in MP!Grid(kernel), w \in MP!Warps :
                            Counted(b, w) /\ InStep(b, w) /\ Adding(b, w)

\* The sum of a block, and of it and those before it.
SumOf(b)   == MP!Sums[MP!Smaller(MP!nelms_per_block * (b + 1), n)] - MP!Sums[MP!nelms_per_block * b]
SumUpTo(b) == MP!Sums[MP!Smaller(MP!nelms_per_block * (b + 1), n)]

\* What is in the arrays.
Results ==
  /\ \A o \in 0..n-1 :
       blockresult[o] = IF kernel = 1 /\ ~Dealt(BlockOf(o), InBlock(o)) THEN MP!Unset
                        ELSE MP!PrefixSum(o) - MP!Sums[o - InBlock(o)]
  /\ \A b \in Blockset :
       CASE kernel = 1 -> warp_pc[b][0] = "end" => blocksum[b] = SumOf(b)
         [] kernel = 2 -> blocksum[b] = IF Dealt(0, b) THEN SumUpTo(b) ELSE SumOf(b)
         [] OTHER -> blocksum[b] = SumUpTo(b)
  /\ kernel > 2 \/ (kernel = 2 /\ warp_pc[0][0] = "end") => totalsum = MP!Sums[n]
  /\ \A o \in 0..n-1 :
       kernel = 4 \/ (kernel = 3 /\ warp_pc[BlockOf(o)][WarpOf(InBlock(o))] = "end") =>
         out[o] = MP!PrefixSum(o)

MPInv == MPTypeOK /\ Threads /\ Results

----------------------------------------------------------------------------
(* Induction, and functions defined by recursion.                          *)

\* What holds of zero and passes on up to n.
LEMMA UpTo ==
  ASSUME NEW m \in Nat, NEW S, 0 \in S, \A i \in 1..m : i - 1 \in S => i \in S
  PROVE  0..m \subseteq S
<1> DEFINE Bad == (0..m) \ S
<1> SUFFICES ASSUME Bad # {} PROVE FALSE
  OBVIOUS
<1>0. Bad \subseteq Nat
  OBVIOUS
<1>1. PICK k \in Bad : \A j \in Bad : <<j, k>> \notin OpToRel(<, Nat)
  BY <1>0, WFMin, NatLessThanWellFounded, Zenon
<1>2. k \in 1..m /\ k - 1 \in 0..m /\ k - 1 \in Nat /\ k \in Nat /\ k - 1 < k
  OBVIOUS
<1>3. k - 1 \in S
  <2>1. ASSUME k - 1 \in Bad PROVE FALSE
    <3>1. <<k - 1, k>> \in OpToRel(<, Nat)
      BY <1>2, Zenon DEF OpToRel
    <3> QED
      BY <1>1, <2>1, <3>1
  <2> QED
    BY <1>2, <2>1
<1> QED
  BY <1>2, <1>3

\* Entry 0 of f is v, and step[i] takes entry i - 1 to entry i.
Unfolds(f, m, V, v, step) ==
  f \in [0..m -> V] /\ f[0] = v /\ \A i \in 1..m : f[i] = step[i][f[i-1]]

LEMMA RecursionExists ==
  ASSUME NEW m \in Nat, NEW V, NEW v \in V, NEW step \in [1..m -> [V -> V]]
  PROVE  \E f : Unfolds(f, m, V, v, step)
<1> DEFINE Up(k, f) == f[0] = v /\ \A i \in 1..k : f[i] = step[i][f[i-1]]
           S == {k \in 0..m : \E f \in [0..m -> V] : Up(k, f)}
<1>1. 0 \in S
  <2>1. Up(0, [i \in 0..m |-> v]) /\ [i \in 0..m |-> v] \in [0..m -> V] /\ 0 \in 0..m
    OBVIOUS
  <2>2. \E f \in [0..m -> V] : Up(0, f)
    BY <2>1, Zenon
  <2> QED
    BY <2>1, <2>2
<1>2. ASSUME NEW k \in 1..m, k - 1 \in S PROVE k \in S
  <2>1. PICK f \in [0..m -> V] : Up(k - 1, f)
    BY <1>2
  <2> DEFINE g == [f EXCEPT ![k] = step[k][f[k-1]]]
  <2>2. g \in [0..m -> V]
    <3>1. f[k-1] \in V /\ k - 1 \in 0..m
      OBVIOUS
    <3>2. step[k][f[k-1]] \in V
      BY <3>1
    <3> QED
      BY <3>2
  <2>3. g[k] = step[k][f[k-1]] /\ \A i \in 0..k-1 : g[i] = f[i]
    OBVIOUS
  <2> HIDE DEF g
  <2>4. ASSUME NEW i \in 1..k PROVE g[i] = step[i][g[i-1]]
    <3>1. CASE i = k
      BY <2>3, <3>1
    <3>2. CASE i # k
      <4>1. i \in 0..k-1 /\ i - 1 \in 0..k-1 /\ i \in 1..k-1
        BY <3>2
      <4> QED
        BY <2>1, <2>3, <4>1
    <3> QED
      BY <3>1, <3>2
  <2>5. g[0] = v
    BY <2>1, <2>3
  <2> QED
    BY <2>2, <2>4, <2>5
<1> HIDE DEF S
<1>3. m \in S
  <2>1. 0..m \subseteq S
    BY <1>1, <1>2, UpTo
  <2> QED
    BY <2>1
<1> QED
  BY <1>3 DEF S, Unfolds

----------------------------------------------------------------------------
(* The sums of the sequential loop, and the scan within a warp.            *)

LEMMA ScanConstants ==
  /\ warp_size \in Nat \ {0} /\ nwarps \in Nat \ {0} /\ nwarps <= warp_size
  /\ nchunks \in Nat \ {0} /\ mp_resident \in Nat \ {0}
  /\ \A m \in Lengths : m \in Nat \ {0} /\ \A i \in 0..m-1 : fin(i) \in Int
  /\ MP!blockDim \in Nat \ {0} /\ MP!nelms_per_block \in Nat \ {0}
<1>1. /\ warp_size \in Nat \ {0} /\ nwarps \in Nat \ {0} /\ nwarps <= warp_size
      /\ nchunks \in Nat \ {0} /\ mp_resident \in Nat \ {0}
      /\ \A m \in Lengths : m \in Nat \ {0} /\ \A i \in 0..m-1 : fin(i) \in Int
  BY MPAssumption DEF MP!ScanAssumption
<1>2. \A a, b \in Nat \ {0} : a * b \in Nat \ {0}
  OBVIOUS
<1> QED
  BY <1>1, <1>2 DEF MP!blockDim, MP!nelms_per_block

LEMMA SumsIs ==
  ASSUME n \in Lengths
  PROVE  /\ MP!Sums \in [0..n -> Int] /\ MP!Sums[0] = 0
         /\ \A k \in 0..n-1 : MP!Sums[k + 1] = MP!Sums[k] + fin(k)
<1> DEFINE Def(f) == f = [k \in 0..n |-> IF k = 0 THEN 0 ELSE f[k-1] + fin(k-1)]
           F == CHOOSE f : Def(f)
           step == [k \in 1..n |-> [x \in Int |-> x + fin(k-1)]]
<1>1. n \in Nat /\ \A k \in 1..n : fin(k-1) \in Int
  BY ScanConstants
<1>2. \E f \in [0..n -> Int] : Def(f)
  <2>1. step \in [1..n -> [Int -> Int]]
    BY <1>1
  <2>2. \A k \in 1..n, x \in Int : step[k][x] = x + fin(k-1)
    OBVIOUS
  <2> HIDE DEF step
  <2>3. PICK f : Unfolds(f, n, Int, 0, step)
    <3>1. 0 \in Int /\ n \in Nat
      BY <1>1
    <3> QED
      BY <2>1, <3>1, RecursionExists
  <2>4. f \in [0..n -> Int] /\ f[0] = 0 /\ \A k \in 1..n : f[k] = f[k-1] + fin(k-1)
    <3>1. f \in [0..n -> Int] /\ f[0] = 0 /\ \A k \in 1..n : f[k] = step[k][f[k-1]]
      BY <2>3, Zenon DEF Unfolds
    <3>2. \A k \in 1..n : f[k-1] \in Int
      BY <1>1, <3>1
    <3> QED
      BY <2>2, <3>1, <3>2
  <2>5. Def(f)
    <3>1. \A k \in 0..n : f[k] = IF k = 0 THEN 0 ELSE f[k-1] + fin(k-1)
      BY <2>4
    <3> QED
      BY <2>4, <3>1
  <2> QED
    BY <2>4, <2>5
<1>3. PICK f \in [0..n -> Int] : Def(f)
  BY <1>2
<1>4. Def(F)
  BY <1>3
<1>5. MP!Sums = F
  BY DEF MP!Sums
<1> HIDE DEF F
<1>6. F[0] = 0 /\ \A k \in 1..n : F[k] = F[k-1] + fin(k-1)
  BY <1>1, <1>4
<1>7. F \in [0..n -> Int]
  <2> DEFINE S == {k \in 0..n : F[k] \in Int}
  <2>1. \A i \in 1..n : i - 1 \in S => i \in S
    BY <1>1, <1>6
  <2>2. 0 \in S
    BY <1>1, <1>6
  <2> HIDE DEF S
  <2>3. 0..n \subseteq S
    BY <1>1, <2>1, <2>2, UpTo
  <2>4. \A k \in 0..n : F[k] \in Int
    BY <2>3 DEF S
  <2>5. DOMAIN F = 0..n /\ F = [k \in DOMAIN F |-> F[k]]
    BY <1>4
  <2> QED
    BY <2>4, <2>5
<1>8. \A k \in 0..n-1 : F[k + 1] = F[k] + fin(k)
  <2> SUFFICES ASSUME NEW k \in 0..n-1 PROVE F[k + 1] = F[k] + fin(k)
    OBVIOUS
  <2>1. k + 1 \in 1..n /\ (k + 1) - 1 = k
    BY <1>1
  <2> QED
    BY <1>6, <2>1
<1> QED
  BY <1>5, <1>6, <1>7, <1>8

LEMMA ShiftIs ==
  /\ MP!Shift \in [0..warp_size -> Nat \ {0}] /\ MP!Shift[0] = 1
  /\ \A e \in 1..warp_size : MP!Shift[e] = 2 * MP!Shift[e-1]
  /\ \A e \in 0..warp_size : MP!Shift[e] > e
<1> DEFINE Def(f) == f = [e \in 0..warp_size |-> IF e = 0 THEN 1 ELSE 2 * f[e-1]]
           F == CHOOSE f : Def(f)
           step == [e \in 1..warp_size |-> [x \in Nat |-> 2 * x]]
<1>1. warp_size \in Nat
  BY ScanConstants
<1>2. \E f \in [0..warp_size -> Nat] : Def(f)
  <2>1. step \in [1..warp_size -> [Nat -> Nat]]
    BY <1>1
  <2>2. \A k \in 1..warp_size, x \in Nat : step[k][x] = 2 * x
    OBVIOUS
  <2> HIDE DEF step
  <2>3. PICK f : Unfolds(f, warp_size, Nat, 1, step)
    <3>1. 1 \in Nat
      OBVIOUS
    <3> QED
      BY <1>1, <2>1, <3>1, RecursionExists
  <2>4. f \in [0..warp_size -> Nat] /\ f[0] = 1 /\ \A k \in 1..warp_size : f[k] = 2 * f[k-1]
    <3>1. f \in [0..warp_size -> Nat] /\ f[0] = 1 /\ \A k \in 1..warp_size : f[k] = step[k][f[k-1]]
      BY <2>3, Zenon DEF Unfolds
    <3>2. \A k \in 1..warp_size : f[k-1] \in Nat
      BY <1>1, <3>1
    <3> QED
      BY <2>2, <3>1, <3>2
  <2>5. Def(f)
    <3>1. \A k \in 0..warp_size : f[k] = IF k = 0 THEN 1 ELSE 2 * f[k-1]
      BY <2>4
    <3> QED
      BY <2>4, <3>1
  <2> QED
    BY <2>4, <2>5
<1>3. PICK f \in [0..warp_size -> Nat] : Def(f)
  BY <1>2
<1>4. Def(F)
  BY <1>3
<1>5. MP!Shift = F
  BY DEF MP!Shift
<1> HIDE DEF F
<1>6. F[0] = 1 /\ \A k \in 1..warp_size : F[k] = 2 * F[k-1]
  BY <1>1, <1>4
<1> DEFINE S == {e \in 0..warp_size : F[e] \in Nat /\ F[e] > e}
<1>7. 0..warp_size \subseteq S
  <2>1. \A i \in 1..warp_size : i - 1 \in S => i \in S
    BY <1>1, <1>6
  <2>2. 0 \in S
    BY <1>1, <1>6
  <2> HIDE DEF S
  <2> QED
    BY <1>1, <2>1, <2>2, UpTo
<1>8. \A e \in 0..warp_size : F[e] \in Nat \ {0} /\ F[e] > e
  BY <1>7
<1>9. DOMAIN F = 0..warp_size /\ F = [k \in DOMAIN F |-> F[k]]
  BY <1>4
<1> QED
  BY <1>5, <1>6, <1>8, <1>9

\* If the values of the lanes are differences of s, each lane gets the sum of those up to it.
LEMMA WarpScanIs ==
  ASSUME NEW x \in [MP!Lanes -> Int], NEW s \in [0..warp_size -> Int],
         \A l \in MP!Lanes : x[l] = s[l + 1] - s[l]
  PROVE  MP!WarpScan(x) = [l \in MP!Lanes |-> s[l + 1] - s[0]]
<1> DEFINE W == warp_size
           V == [MP!Lanes -> Int]
           Sh == MP!Shift
           Moved(y, i) == [l \in MP!Lanes |-> IF l >= i THEN y[l] + y[l - i] ELSE y[l]]
           Def(f) == f = [e \in 0..W |-> IF e = 0 THEN x ELSE Moved(f[e-1], Sh[e-1])]
           F == CHOOSE f : Def(f)
           step == [e \in 1..W |-> [y \in V |-> Moved(y, Sh[e-1])]]
           From(l, i) == IF l + 1 >= i THEN l + 1 - i ELSE 0
           Upon(i) == [l \in MP!Lanes |-> s[l + 1] - s[From(l, i)]]
<1>1. W \in Nat /\ W > 0 /\ MP!Lanes = 0..W-1
  BY ScanConstants DEF MP!Lanes
<1>2. /\ \A e \in 0..W : Sh[e] \in Nat \ {0} /\ Sh[e] > e
      /\ Sh[0] = 1 /\ \A e \in 1..W : Sh[e] = 2 * Sh[e-1] /\ Sh[e-1] \in Nat \ {0}
  BY <1>1, ShiftIs
<1>3. ASSUME NEW y \in V, NEW i \in Nat \ {0} PROVE Moved(y, i) \in V
  <2>1. ASSUME NEW l \in MP!Lanes PROVE (IF l >= i THEN y[l] + y[l - i] ELSE y[l]) \in Int
    <3>1. l >= i => l - i \in MP!Lanes
      BY <1>1
    <3> QED
      BY <3>1
  <2> QED
    BY <2>1
<1>4. \E f \in [0..W -> V] : Def(f)
  <2> HIDE DEF Moved, V, Sh
  <2>1. step \in [1..W -> [V -> V]]
    BY <1>2, <1>3
  <2>2. \A e \in 1..W, y \in V : step[e][y] = Moved(y, Sh[e-1])
    OBVIOUS
  <2> HIDE DEF step
  <2>3. PICK f : Unfolds(f, W, V, x, step)
    <3>1. x \in V
      BY DEF V
    <3> QED
      BY <1>1, <2>1, <3>1, RecursionExists
  <2>4. f \in [0..W -> V] /\ f[0] = x /\ \A e \in 1..W : f[e] = Moved(f[e-1], Sh[e-1])
    <3>1. f \in [0..W -> V] /\ f[0] = x /\ \A e \in 1..W : f[e] = step[e][f[e-1]]
      BY <2>3, Zenon DEF Unfolds
    <3>2. \A e \in 1..W : f[e-1] \in V
      BY <1>1, <3>1
    <3> QED
      BY <2>2, <3>1, <3>2
  <2>5. Def(f)
    <3> DEFINE G(e) == IF e = 0 THEN x ELSE Moved(f[e-1], Sh[e-1])
    <3>1. \A e \in 0..W : f[e] = G(e)
      BY <1>1, <2>4
    <3> HIDE DEF G
    <3>2. f = [e \in 0..W |-> G(e)]
      BY <2>4, <3>1
    <3> QED
      BY <3>2 DEF G
  <2> QED
    BY <2>4, <2>5
<1>5. Def(F)
  BY <1>4
<1>6. MP!WarpScan(x) = F[W]
  BY DEF MP!WarpScan
<1> HIDE DEF F
<1>7. F[0] = x /\ \A e \in 1..W : F[e] = Moved(F[e-1], Sh[e-1])
  <2> HIDE DEF Moved, Sh
  <2> QED
    BY <1>1, <1>5
<1>8. x = Upon(1)
  BY <1>1
<1>9. ASSUME NEW i \in Nat \ {0} PROVE Moved(Upon(i), i) = Upon(2 * i)
  <2>1. ASSUME NEW l \in MP!Lanes PROVE Moved(Upon(i), i)[l] = Upon(2 * i)[l]
    <3>0. /\ l \in 0..W-1 /\ From(l, i) \in 0..W /\ From(l, 2 * i) \in 0..W /\ l + 1 \in 0..W
          /\ s[l + 1] \in Int /\ s[From(l, i)] \in Int /\ s[From(l, 2 * i)] \in Int
      BY <1>1
    <3>1. CASE l >= i
      <4>1. l - i \in MP!Lanes /\ From(l - i, i) = From(l, 2 * i) /\ From(l, i) = (l - i) + 1
        BY <1>1, <3>0, <3>1
      <4> HIDE DEF From
      <4>2. Moved(Upon(i), i)[l] = (s[l + 1] - s[From(l, i)]) + (s[(l - i) + 1] - s[From(l - i, i)])
        BY <3>1, <4>1
      <4>3. Moved(Upon(i), i)[l] = s[l + 1] - s[From(l, 2 * i)]
        BY <3>0, <4>1, <4>2
      <4> QED
        BY <4>3
    <3>2. CASE ~(l >= i)
      <4>1. From(l, 2 * i) = 0 /\ From(l, i) = 0
        BY <1>1, <3>0, <3>2
      <4> HIDE DEF From
      <4> QED
        BY <3>0, <3>2, <4>1
    <3> QED
      BY <3>1, <3>2
  <2> HIDE DEF From
  <2> QED
    BY <2>1
<1> HIDE DEF Moved, Upon, From, V
<1> DEFINE S == {e \in 0..W : F[e] = Upon(Sh[e])}
<1>10. 0..W \subseteq S
  <2>1. 0 \in S
    BY <1>1, <1>2, <1>7, <1>8
  <2>2. ASSUME NEW e \in 1..W, e - 1 \in S PROVE e \in S
    <3>1. F[e] = Moved(Upon(Sh[e-1]), Sh[e-1])
      BY <1>7, <2>2
    <3>2. F[e] = Upon(Sh[e])
      BY <1>2, <1>9, <3>1
    <3> QED
      BY <1>1, <3>2
  <2> HIDE DEF S
  <2> QED
    BY <1>1, <2>1, <2>2, UpTo
<1>11. F[W] = Upon(Sh[W]) /\ Sh[W] \in Nat /\ Sh[W] > W
  BY <1>1, <1>2, <1>10
<1>12. Upon(Sh[W]) = [l \in MP!Lanes |-> s[l + 1] - s[0]]
  <2>1. \A l \in MP!Lanes : From(l, Sh[W]) = 0
    BY <1>1, <1>11 DEF From
  <2> QED
    BY <2>1 DEF Upon
<1> QED
  BY <1>6, <1>11, <1>12

----------------------------------------------------------------------------
(* Where an element is: block, chunk, warp and lane.                       *)

LEMMA DivMod ==
  ASSUME NEW a \in Nat, NEW b \in Nat \ {0}
  PROVE  a \div b \in Nat /\ a % b \in 0..b-1 /\ a = b * (a \div b) + (a % b)
<1>1. a % b \in 0..b-1
  OBVIOUS
<1>2. a = b * (a \div b) + (a % b)
  BY SMT
<1>3. a \div b \in Int /\ a \div b >= 0
  OBVIOUS
<1> QED
  BY <1>1, <1>2, <1>3

LEMMA DivUnique ==
  ASSUME NEW b \in Nat \ {0}, NEW k \in Nat, NEW c \in 0..b-1
  PROVE  b * k + c \in Nat /\ (b * k + c) \div b = k /\ (b * k + c) % b = c
<1>1. b * k + c \in Nat
  OBVIOUS
<1>2. (b * k + c) \div b = k
  OBVIOUS
<1>3. (b * k + c) % b = c
  OBVIOUS
<1> QED
  BY <1>1, <1>2, <1>3

LEMMA TimesGrows ==
  ASSUME NEW a \in Nat, NEW b \in Nat, NEW k \in Nat, a <= b
  PROVE  k * a \in Nat /\ k * b \in Nat /\ k * a <= k * b
OBVIOUS

\* The lanes of a warp, the warps of a chunk and the chunks of a block are next to each other.
LEMMA PlaceIs ==
  ASSUME NEW c \in Nat, NEW w \in MP!Warps, NEW l \in MP!Lanes
  PROVE  /\ Place(c, w, l) \in Nat /\ c \in Nat /\ w \in Nat /\ l \in Nat
         /\ Place(c, w, l) \div MP!blockDim = c /\ WarpOf(Place(c, w, l)) = w
         /\ Place(c, w, 0) + l = Place(c, w, l)
<1> DEFINE W == warp_size
           N == nwarps
           D == MP!blockDim
           r == W * w + l
<1>1. W \in Nat \ {0} /\ N \in Nat \ {0} /\ D \in Nat \ {0}
  BY ScanConstants
<1>2. D = W * N
  BY DEF MP!blockDim
<1>3. w \in 0..N-1 /\ l \in 0..W-1
  BY DEF MP!Warps, MP!Lanes
<1>4. w \in Nat /\ N - 1 \in Nat /\ w <= N - 1 /\ l \in Nat
  BY <1>1, <1>3
<1>5. W * w \in Nat /\ W * w <= W * (N - 1)
  BY <1>1, <1>4, TimesGrows
<1>6. W * (N - 1) = D - W
  BY <1>1, <1>2
<1> HIDE DEF D
<1>7. r \in 0..D-1
  BY <1>1, <1>3, <1>5, <1>6
<1>8. Place(c, w, l) = D * c + r /\ Place(c, w, 0) + l = Place(c, w, l)
  <2>1. c * D = D * c /\ c * D \in Nat /\ w * W = W * w
    BY <1>1, <1>4
  <2>2. Place(c, w, l) = c * D + w * W + l /\ Place(c, w, 0) = c * D + w * W + 0
    BY DEF Place, D
  <2> QED
    BY <1>4, <1>5, <2>1, <2>2
<1>9. r \div W = w
  BY <1>1, <1>3, <1>4, DivUnique
<1> HIDE DEF r
<1>10. D * c + r \in Nat /\ (D * c + r) \div D = c /\ (D * c + r) % D = r
  BY <1>1, <1>7, DivUnique
<1> QED
  BY <1>4, <1>8, <1>9, <1>10 DEF WarpOf, D

LEMMA PlaceExists ==
  ASSUME NEW j \in Nat
  PROVE  /\ j \div MP!blockDim \in Nat /\ WarpOf(j) \in MP!Warps
         /\ \E l \in MP!Lanes : j = Place(j \div MP!blockDim, WarpOf(j), l)
<1> DEFINE W == warp_size
           N == nwarps
           D == MP!blockDim
           c == j \div D
           r == j % D
           w == r \div W
           l == r % W
<1>1. W \in Nat \ {0} /\ N \in Nat \ {0} /\ D \in Nat \ {0}
  BY ScanConstants
<1>2. D = W * N
  BY DEF MP!blockDim
<1> HIDE DEF D
<1>3. c \in Nat /\ r \in 0..D-1 /\ j = D * c + r
  BY <1>1, DivMod
<1> HIDE DEF c, r
<1>4. r \in Nat
  BY <1>1, <1>3
<1>5. w \in Nat /\ l \in 0..W-1 /\ r = W * w + l
  BY <1>1, <1>4, DivMod
<1> HIDE DEF w, l
<1>6. w < N
  <2>1. ASSUME N <= w PROVE FALSE
    <3>1. W * N <= W * w
      BY <1>1, <1>5, <2>1, TimesGrows
    <3>2. W * w \in Nat /\ W * N \in Nat
      BY <1>1, <1>5
    <3> QED
      BY <1>1, <1>2, <1>3, <1>5, <3>1, <3>2
  <2> QED
    BY <1>1, <1>5, <2>1
<1>7. w \in MP!Warps /\ l \in MP!Lanes
  BY <1>1, <1>5, <1>6 DEF MP!Warps, MP!Lanes
<1>8. j = Place(c, w, l)
  <2>1. c * D = D * c /\ c * D \in Nat /\ w * W = W * w /\ w * W \in Nat
    BY <1>1, <1>3, <1>5
  <2>2. Place(c, w, l) = c * D + w * W + l
    BY DEF Place, D
  <2> QED
    BY <1>1, <1>3, <1>5, <2>1, <2>2
<1>9. WarpOf(j) = w
  BY DEF WarpOf, w, r, D
<1> QED
  BY <1>3, <1>7, <1>8, <1>9 DEF c, D

\* The first warp is there, and all warps are lanes of the warp that adds up their sums.
LEMMA WarpsAreLanes ==
  /\ MP!Warps = 0..nwarps-1 /\ MP!Lanes = 0..warp_size-1
  /\ 0 \in MP!Warps /\ nwarps - 1 \in MP!Warps /\ MP!LastLane \in MP!Lanes
  /\ MP!Warps \subseteq MP!Lanes /\ MP!Lanes \subseteq Nat
BY ScanConstants DEF MP!Warps, MP!Lanes, MP!LastLane

\* Warps and chunks follow each other.
LEMMA PlaceSteps ==
  ASSUME NEW c \in Nat, NEW w \in Nat
  PROVE  /\ Place(c, w, 0) \in Nat /\ Place(c, w, 0) + warp_size = Place(c, w + 1, 0)
         /\ Place(c, nwarps, 0) = Place(c + 1, 0, 0)
         /\ Place(c, 0, 0) = c * MP!blockDim /\ Place(0, 0, 0) = 0
<1> DEFINE W == warp_size
           N == nwarps
           D == MP!blockDim
<1>1. W \in Nat \ {0} /\ N \in Nat \ {0} /\ D \in Nat \ {0}
  BY ScanConstants
<1>2. D = N * W
  BY <1>1 DEF MP!blockDim
<1> HIDE DEF D
<1>3. /\ c * D \in Nat /\ w * W \in Nat /\ (c + 1) * D = c * D + D
      /\ (w + 1) * W = w * W + W /\ 0 * W = 0 /\ 0 * D = 0
  BY <1>1
<1> QED
  BY <1>1, <1>2, <1>3 DEF Place, D

LEMMA BlockIs ==
  ASSUME NEW b \in Nat, NEW j \in 0..MP!nelms_per_block-1
  PROVE  /\ MP!nelms_per_block * b + j \in Nat
         /\ BlockOf(MP!nelms_per_block * b + j) = b
         /\ InBlock(MP!nelms_per_block * b + j) = j
<1>1. MP!nelms_per_block \in Nat \ {0}
  BY ScanConstants
<1> QED
  BY <1>1, DivUnique DEF BlockOf, InBlock

\* The blocks have all elements, and each has one.
LEMMA BlocksCover ==
  ASSUME n \in Lengths
  PROVE  /\ n \in Nat \ {0} /\ MP!NumBlocks \in Nat \ {0}
         /\ n <= MP!nelms_per_block * MP!NumBlocks
         /\ \A b \in Blockset : b \in Nat /\ MP!nelms_per_block * b \in 0..n-1
         /\ \A o \in 0..n-1 : /\ BlockOf(o) \in Blockset /\ InBlock(o) \in 0..MP!nelms_per_block-1
                              /\ o = MP!nelms_per_block * BlockOf(o) + InBlock(o)
                              /\ o - InBlock(o) = MP!nelms_per_block * BlockOf(o)
<1> DEFINE E == MP!nelms_per_block
           B == MP!NumBlocks
<1>1. E \in Nat \ {0} /\ n \in Nat \ {0}
  BY ScanConstants
<1> HIDE DEF E
<1>2. n + E - 1 \in Nat
  BY <1>1
<1>3. B = (n + E - 1) \div E
  BY DEF MP!NumBlocks, E
<1> HIDE DEF B
<1>4. B \in Nat /\ E * B \in Nat /\ n <= E * B /\ E * B < n + E
  <2>1. B \in Nat /\ (n + E - 1) % E \in 0..E-1 /\ n + E - 1 = E * B + ((n + E - 1) % E)
    BY <1>1, <1>2, <1>3, DivMod
  <2>2. E * B \in Nat
    BY <1>1, <2>1
  <2> QED
    BY <1>1, <2>1, <2>2
<1>5. B # 0
  BY <1>1, <1>4
<1>6. ASSUME NEW b \in 0..B-1 PROVE b \in Nat /\ E * b \in 0..n-1
  <2>1. b \in Nat /\ b <= B - 1 /\ B - 1 \in Nat
    BY <1>4, <1>5
  <2>2. E * b \in Nat /\ E * b <= E * (B - 1)
    BY <1>1, <2>1, TimesGrows
  <2>3. E * (B - 1) = E * B - E
    BY <1>1, <1>4
  <2> QED
    BY <1>1, <1>4, <2>1, <2>2, <2>3
<1>7. ASSUME NEW o \in 0..n-1
      PROVE  o \div E \in 0..B-1 /\ o % E \in 0..E-1 /\ o = E * (o \div E) + (o % E)
             /\ o - (o % E) = E * (o \div E)
  <2>1. o \in Nat
    BY <1>1
  <2> DEFINE q == o \div E
             r == o % E
  <2>2. q \in Nat /\ r \in 0..E-1 /\ o = E * q + r
    BY <1>1, <2>1, DivMod
  <2> HIDE DEF q, r
  <2>3. q < B
    <3>1. ASSUME B <= q PROVE FALSE
      <4>1. E * B <= E * q /\ E * q \in Nat
        BY <1>1, <1>4, <2>2, <3>1, TimesGrows
      <4> QED
        BY <1>1, <1>4, <2>1, <2>2, <4>1
    <3> QED
      BY <1>4, <2>2, <3>1
  <2>4. E * q \in Nat /\ o - r = E * q
    BY <1>1, <2>2
  <2>5. q \in 0..B-1
    BY <1>4, <2>2, <2>3
  <2> QED
    BY <2>2, <2>4, <2>5 DEF q, r
<1> QED
  BY <1>1, <1>4, <1>5, <1>6, <1>7 DEF Blockset, BlockOf, InBlock, E, B

----------------------------------------------------------------------------
(* The sums that the threads of a block have.                              *)

Summing == MPTypeOK /\ Results /\ kernel \in {1, 2}

LEMMA SumsRange ==
  ASSUME n \in Lengths
  PROVE  /\ \A k \in 0..n : MP!Sums[k] \in Int
         /\ \A k \in Nat : MP!Smaller(k, n) \in 0..n /\ MP!Sums[MP!Smaller(k, n)] \in Int
         /\ MP!Sums[0] = 0
<1>1. n \in Nat /\ MP!Sums \in [0..n -> Int] /\ MP!Sums[0] = 0
  BY SumsIs, ScanConstants
<1>2. \A k \in Nat : MP!Smaller(k, n) \in 0..n
  BY <1>1 DEF MP!Smaller
<1> QED
  BY <1>1, <1>2

\* Up to the last element of a block, and beyond.
LEMMA FirstUpto ==
  ASSUME n \in Lengths, kernel = 1, NEW b \in Blockset
  PROVE  /\ MP!ibegin(b) = MP!nelms_per_block * b /\ MP!ibegin(b) \in 0..n-1
         /\ MP!iend(b) \in MP!ibegin(b)+1..n
         /\ MP!iend(b) = MP!Smaller(MP!nelms_per_block * (b + 1), n)
         /\ MP!iend(b) = n \/ MP!iend(b) = MP!ibegin(b) + MP!nelms_per_block
         /\ \A j \in Nat : /\ Upto(b, j) \in Int
                           /\ MP!ibegin(b) + j <= MP!iend(b) =>
                                Upto(b, j) = MP!Sums[MP!ibegin(b) + j] - MP!Sums[MP!ibegin(b)]
                           /\ MP!ibegin(b) + j >= MP!iend(b) => Upto(b, j) = SumOf(b)
<1> DEFINE E == MP!nelms_per_block
<1>1. E \in Nat \ {0} /\ n \in Nat \ {0} /\ b \in Nat /\ E * b \in 0..n-1
  BY ScanConstants, BlocksCover
<1> HIDE DEF E
<1>2. E * (b + 1) = E * b + E /\ E * b \in Nat
  BY <1>1
<1>3. MP!ibegin(b) = E * b /\ MP!iend(b) = MP!Smaller(E * b + E, n)
  BY DEF MP!ibegin, MP!iend, E
<1>4. MP!iend(b) \in (E * b)+1..n /\ (MP!iend(b) = n \/ MP!iend(b) = E * b + E)
  BY <1>1, <1>2, <1>3 DEF MP!Smaller
<1>5. ASSUME NEW j \in Nat
      PROVE  /\ Upto(b, j) \in Int
             /\ E * b + j <= MP!iend(b) => Upto(b, j) = MP!Sums[E * b + j] - MP!Sums[E * b]
             /\ E * b + j >= MP!iend(b) => Upto(b, j) = SumOf(b)
  <2>1. Upto(b, j) = MP!Sums[MP!Smaller(E * b + j, MP!iend(b))] - MP!Sums[E * b]
    BY <1>3 DEF Upto
  <2>2. SumOf(b) = MP!Sums[MP!iend(b)] - MP!Sums[E * b]
    BY <1>2, <1>3 DEF SumOf, E
  <2>3. /\ MP!Smaller(E * b + j, MP!iend(b)) \in 0..n
        /\ E * b + j <= MP!iend(b) => MP!Smaller(E * b + j, MP!iend(b)) = E * b + j
        /\ E * b + j >= MP!iend(b) => MP!Smaller(E * b + j, MP!iend(b)) = MP!iend(b)
    BY <1>1, <1>2, <1>4 DEF MP!Smaller
  <2>4. MP!Sums[MP!Smaller(E * b + j, MP!iend(b))] \in Int /\ MP!Sums[E * b] \in Int
    BY <1>1, <2>3, SumsRange
  <2> QED
    BY <2>1, <2>2, <2>3, <2>4
<1> QED
  BY <1>1, <1>2, <1>3, <1>4, <1>5 DEF E

LEMMA SecondUpto ==
  ASSUME n \in Lengths, kernel = 2, NEW b
  PROVE  /\ MP!ibegin(b) = 0 /\ MP!iend(b) = MP!NumBlocks
         /\ \A j \in Nat : /\ Upto(b, j) \in Int
                           /\ j >= MP!NumBlocks => Upto(b, j) = MP!Sums[n]
                           /\ j < MP!NumBlocks =>
                                Upto(b, j) = MP!Sums[MP!nelms_per_block * j]
                           /\ Upto(b, j + 1) = SumUpTo(j)
         /\ Upto(b, 0) = 0
<1> DEFINE E == MP!nelms_per_block
           B == MP!NumBlocks
<1>1. /\ E \in Nat \ {0} /\ n \in Nat \ {0} /\ B \in Nat \ {0} /\ n <= E * B
      /\ \A j \in 0..B-1 : E * j \in 0..n-1
  BY ScanConstants, BlocksCover DEF Blockset
<1>2. MP!ibegin(b) = 0 /\ MP!iend(b) = B
  BY DEF MP!ibegin, MP!iend
<1>3. \A j : Upto(b, j) = MP!Sums[MP!Smaller(E * j, n)]
  BY DEF Upto
<1> HIDE DEF E, B
<1>4. ASSUME NEW j \in Nat
      PROVE  /\ Upto(b, j) \in Int
             /\ j >= B => Upto(b, j) = MP!Sums[n]
             /\ j < B => Upto(b, j) = MP!Sums[E * j]
             /\ Upto(b, j + 1) = SumUpTo(j)
  <2>1. E * j \in Nat
    BY <1>1
  <2>2. Upto(b, j) \in Int
    BY <1>3, <2>1, SumsRange
  <2>3. ASSUME j >= B PROVE MP!Smaller(E * j, n) = n
    <3>1. E * B <= E * j /\ E * B \in Nat
      BY <1>1, <2>3, TimesGrows
    <3> QED
      BY <1>1, <2>1, <3>1 DEF MP!Smaller
  <2>4. ASSUME j < B PROVE MP!Smaller(E * j, n) = E * j
    <3>1. E * j \in 0..n-1
      BY <1>1, <2>4
    <3> QED
      BY <1>1, <3>1 DEF MP!Smaller
  <2> QED
    BY <1>3, <2>2, <2>3, <2>4 DEF SumUpTo, E
<1>5. Upto(b, 0) = 0
  <2>1. E * 0 = 0 /\ MP!Smaller(0, n) = 0
    BY <1>1 DEF MP!Smaller
  <2> QED
    BY <1>3, <2>1, SumsRange
<1> QED
  BY <1>1, <1>2, <1>3, <1>4, <1>5 DEF E, B

LEMMA UptoIs ==
  ASSUME Summing, NEW b \in MP!Grid(kernel)
  PROVE  /\ b \in Blockset /\ MP!ibegin(b) \in Nat /\ MP!iend(b) \in Nat
         /\ \A j \in Nat : Upto(b, j) \in Int
         /\ Upto(b, 0) = 0
<1>1. n \in Lengths /\ kernel \in {1, 2} /\ MP!NumBlocks \in Nat \ {0}
  BY BlocksCover DEF Summing, MPTypeOK
<1>2. b \in Blockset /\ (kernel = 2 => b = 0)
  BY <1>1 DEF MP!Grid, Blockset
<1>3. CASE kernel = 1
  <2>1. /\ \A j \in Nat : Upto(b, j) \in Int
        /\ MP!ibegin(b) \in 0..n-1 /\ MP!iend(b) \in MP!ibegin(b)+1..n
        /\ (MP!ibegin(b) + 0 <= MP!iend(b) =>
              Upto(b, 0) = MP!Sums[MP!ibegin(b) + 0] - MP!Sums[MP!ibegin(b)])
    BY <1>1, <1>2, <1>3, FirstUpto
  <2>2. n \in Nat /\ MP!Sums[MP!ibegin(b)] \in Int
    BY <1>1, <2>1, ScanConstants, SumsRange
  <2>3. MP!ibegin(b) + 0 = MP!ibegin(b) /\ MP!ibegin(b) <= MP!iend(b) /\ MP!ibegin(b) \in Nat
        /\ MP!iend(b) \in Nat
    BY <2>1, <2>2
  <2> QED
    BY <1>2, <2>1, <2>2, <2>3
<1>4. CASE kernel = 2
  BY <1>1, <1>2, <1>4, SecondUpto
<1> QED
  BY <1>1, <1>3, <1>4

\* An element, until the warp that has it stores its sum in its place.
LEMMA ElementIs ==
  ASSUME Summing, NEW b \in MP!Grid(kernel), NEW j \in Nat, ~Dealt(b, j)
  PROVE  MP!Input(b, MP!ibegin(b) + j) = Upto(b, j + 1) - Upto(b, j)
<1> DEFINE o == MP!ibegin(b) + j
<1>1. n \in Lengths /\ kernel \in {1, 2} /\ n \in Nat \ {0} /\ MP!NumBlocks \in Nat \ {0}
  BY BlocksCover DEF Summing, MPTypeOK
<1>2. /\ b \in Blockset /\ MP!ibegin(b) \in Nat /\ MP!iend(b) \in Nat
      /\ Upto(b, j + 1) \in Int /\ Upto(b, j) \in Int
  BY UptoIs
<1>3. CASE kernel = 1
  <2>1. /\ MP!ibegin(b) \in 0..n-1 /\ MP!iend(b) \in MP!ibegin(b)+1..n
        /\ \A k \in Nat : /\ MP!ibegin(b) + k <= MP!iend(b) =>
                               Upto(b, k) = MP!Sums[MP!ibegin(b) + k] - MP!Sums[MP!ibegin(b)]
                          /\ MP!ibegin(b) + k >= MP!iend(b) => Upto(b, k) = SumOf(b)
    BY <1>1, <1>2, <1>3, FirstUpto
  <2>2. CASE o >= MP!iend(b)
    <3>1. MP!ibegin(b) + (j + 1) >= MP!iend(b) /\ j + 1 \in Nat
      BY <1>2, <2>2
    <3>2. Upto(b, j) = SumOf(b) /\ Upto(b, j + 1) = SumOf(b)
      BY <2>1, <2>2, <3>1
    <3>3. MP!Input(b, o) = 0
      BY <2>2 DEF MP!Input
    <3> QED
      BY <1>2, <3>2, <3>3
  <2>3. CASE ~(o >= MP!iend(b))
    <3>1. /\ o \in 0..n-1 /\ o + 1 \in 0..n /\ MP!ibegin(b) + (j + 1) = o + 1
          /\ o <= MP!iend(b) /\ o + 1 <= MP!iend(b) /\ j + 1 \in Nat /\ MP!ibegin(b) \in 0..n
      BY <1>1, <1>2, <2>1, <2>3
    <3>2. /\ Upto(b, j) = MP!Sums[o] - MP!Sums[MP!ibegin(b)]
          /\ Upto(b, j + 1) = MP!Sums[o + 1] - MP!Sums[MP!ibegin(b)]
      BY <2>1, <3>1
    <3>3. MP!Input(b, o) = fin(o) /\ fin(o) \in Int
      BY <1>1, <1>3, <2>3, <3>1, ScanConstants DEF MP!Input
    <3> HIDE DEF o
    <3>4. MP!Sums[o + 1] = MP!Sums[o] + fin(o)
      BY <1>1, <3>1, SumsIs
    <3>5. MP!Sums[o] \in Int /\ MP!Sums[MP!ibegin(b)] \in Int
      BY <1>1, <3>1, SumsRange
    <3> QED
      BY <3>2, <3>3, <3>4, <3>5 DEF o
  <2> QED
    BY <2>2, <2>3
<1>4. CASE kernel = 2
  <2>1. /\ MP!ibegin(b) = 0 /\ MP!iend(b) = MP!NumBlocks /\ b = 0
        /\ \A k \in Nat : /\ k >= MP!NumBlocks => Upto(b, k) = MP!Sums[n]
                          /\ k < MP!NumBlocks => Upto(b, k) = MP!Sums[MP!nelms_per_block * k]
                          /\ Upto(b, k + 1) = SumUpTo(k)
    BY <1>1, <1>4, SecondUpto DEF MP!Grid
  <2>2. o = j
    BY <2>1
  <2>3. CASE j >= MP!NumBlocks
    <3>1. j + 1 >= MP!NumBlocks /\ j + 1 \in Nat
      BY <1>1, <2>3
    <3>2. MP!Input(b, o) = 0
      BY <2>1, <2>2, <2>3 DEF MP!Input
    <3> QED
      BY <1>2, <2>1, <2>3, <3>1, <3>2
  <2>4. CASE ~(j >= MP!NumBlocks)
    <3>1. j \in Blockset /\ j < MP!NumBlocks
      BY <1>1, <2>4 DEF Blockset
    <3>2. MP!Input(b, o) = blocksum[j]
      BY <1>4, <2>1, <2>2, <2>4 DEF MP!Input
    <3>3. blocksum[j] = SumOf(j)
      BY <1>4, <2>1, <3>1 DEF Summing, Results
    <3>4. SumOf(j) = SumUpTo(j) - MP!Sums[MP!nelms_per_block * j]
      BY DEF SumOf, SumUpTo
    <3> QED
      BY <2>1, <3>1, <3>2, <3>3, <3>4
  <2> QED
    BY <2>3, <2>4
<1> QED
  BY <1>1, <1>3, <1>4


\* What the lanes of a warp have read, and what they have after the scan within the warp.
LEMMA XIs ==
  ASSUME Summing, NEW b \in MP!Grid(kernel), NEW w \in MP!Warps
  PROVE  /\ ichunk[b][w] \in Nat
         /\ \A l \in MP!Lanes :
              /\ MP!Offset(b, w, l) = MP!ibegin(b) + Place(ichunk[b][w], w, l)
              /\ MP!X0(b, w)[l] = Upto(b, Place(ichunk[b][w], w, l) + 1)
                                    - Upto(b, Place(ichunk[b][w], w, l))
         /\ MP!X(b, w) = [l \in MP!Lanes |-> Upto(b, Place(ichunk[b][w], w, l) + 1)
                                               - Upto(b, Place(ichunk[b][w], w, 0))]
<1> DEFINE c == ichunk[b][w]
           p == Place(c, w, 0)
           s == [l \in 0..warp_size |-> Upto(b, p + l)]
<1>1. b \in Blockset /\ MP!ibegin(b) \in Nat /\ \A j \in Nat : Upto(b, j) \in Int
  BY UptoIs
<1>2. c \in Nat
  BY <1>1 DEF Summing, MPTypeOK
<1>3. warp_size \in Nat \ {0} /\ MP!Lanes = 0..warp_size-1 /\ 0 \in MP!Lanes /\ nwarps \in Nat
      /\ MP!blockDim \in Nat
  BY ScanConstants, WarpsAreLanes
<1> HIDE DEF c
<1>4. ASSUME NEW l \in MP!Lanes
      PROVE  /\ Place(c, w, l) \in Nat /\ p + l = Place(c, w, l) /\ l \in Nat
             /\ Place(c, w, l) \div MP!blockDim = c /\ WarpOf(Place(c, w, l)) = w
  BY <1>2, PlaceIs
<1>5. p \in Nat
  BY <1>3, <1>4
<1>6. ASSUME NEW l \in MP!Lanes
      PROVE  /\ MP!Offset(b, w, l) = MP!ibegin(b) + Place(c, w, l)
             /\ MP!X0(b, w)[l] = Upto(b, Place(c, w, l) + 1) - Upto(b, Place(c, w, l))
  <2>1. MP!Offset(b, w, l) = MP!ibegin(b) + Place(c, w, l)
    <3>1. w \in Nat
      BY <1>3 DEF MP!Warps
    <3>2. c * MP!blockDim \in Nat /\ w * warp_size \in Nat /\ l \in Nat
      BY <1>2, <1>3, <3>1
    <3> QED
      BY <1>1, <3>2 DEF MP!Offset, Place, c
  <2>2. ~Dealt(b, Place(c, w, l))
    BY <1>2, <1>4 DEF Dealt, c
  <2>3. MP!X0(b, w)[l] = MP!Input(b, MP!ibegin(b) + Place(c, w, l))
    BY <2>1 DEF MP!X0
  <2> QED
    BY <1>4, <2>1, <2>2, <2>3, ElementIs
<1>7. MP!X0(b, w) \in [MP!Lanes -> Int]
  <2>1. \A l \in MP!Lanes : MP!Input(b, MP!Offset(b, w, l)) \in Int
    <3> SUFFICES ASSUME NEW l \in MP!Lanes PROVE MP!Input(b, MP!Offset(b, w, l)) \in Int
      OBVIOUS
    <3>1. MP!Input(b, MP!Offset(b, w, l)) = MP!X0(b, w)[l]
      BY DEF MP!X0
    <3>2. Place(c, w, l) \in Nat /\ Place(c, w, l) + 1 \in Nat
      BY <1>4
    <3> QED
      BY <1>1, <1>6, <3>1, <3>2
  <2> QED
    BY <2>1 DEF MP!X0
<1>8. s \in [0..warp_size -> Int] /\ \A l \in MP!Lanes : MP!X0(b, w)[l] = s[l + 1] - s[l]
  <2>1. \A l \in 0..warp_size : p + l \in Nat
    BY <1>3, <1>5
  <2>2. s \in [0..warp_size -> Int]
    BY <1>1, <2>1
  <2>3. ASSUME NEW l \in MP!Lanes PROVE MP!X0(b, w)[l] = s[l + 1] - s[l]
    <3>1. l \in 0..warp_size /\ l + 1 \in 0..warp_size /\ p + (l + 1) = (p + l) + 1
      BY <1>3, <1>5
    <3>2. s[l] = Upto(b, p + l) /\ s[l + 1] = Upto(b, (p + l) + 1)
      BY <3>1
    <3> QED
      BY <1>4, <1>6, <3>2
  <2> QED
    BY <2>2, <2>3
<1>9. \A l \in MP!Lanes : s[l + 1] - s[0] = Upto(b, Place(c, w, l) + 1) - Upto(b, p)
  <2> SUFFICES ASSUME NEW l \in MP!Lanes
               PROVE  s[l + 1] - s[0] = Upto(b, Place(c, w, l) + 1) - Upto(b, p)
    OBVIOUS
  <2>1. l + 1 \in 0..warp_size /\ p + (l + 1) = (p + l) + 1 /\ 0 \in 0..warp_size /\ p + 0 = p
    BY <1>3, <1>5
  <2> QED
    BY <1>4, <2>1
<1> HIDE DEF s
<1>10. MP!X(b, w) = [l \in MP!Lanes |-> s[l + 1] - s[0]]
  BY <1>7, <1>8, WarpScanIs DEF MP!X
<1>11. MP!X(b, w) = [l \in MP!Lanes |-> Upto(b, Place(c, w, l) + 1) - Upto(b, p)]
  BY <1>9, <1>10
<1> QED
  BY <1>2, <1>6, <1>11 DEF c

\* The last lane has the sum of the warp.
LEMMA WarpSumIs ==
  ASSUME Summing, NEW b \in MP!Grid(kernel), NEW w \in MP!Warps
  PROVE  MP!X(b, w)[MP!LastLane] =
           Upto(b, Place(ichunk[b][w], w + 1, 0)) - Upto(b, Place(ichunk[b][w], w, 0))
<1> DEFINE c == ichunk[b][w]
<1>1. c \in Nat /\ w \in Nat /\ MP!LastLane \in MP!Lanes /\ MP!LastLane = warp_size - 1
      /\ warp_size \in Nat
  BY XIs, WarpsAreLanes, ScanConstants DEF MP!Warps, MP!LastLane
<1> HIDE DEF c
<1>2. /\ Place(c, w, 0) \in Nat /\ Place(c, w, 0) + warp_size = Place(c, w + 1, 0)
      /\ Place(c, w, 0) + MP!LastLane = Place(c, w, MP!LastLane)
  BY <1>1, PlaceSteps, PlaceIs
<1>3. Place(c, w, MP!LastLane) + 1 = Place(c, w + 1, 0)
  BY <1>1, <1>2
<1> QED
  BY <1>1, <1>3, XIs DEF c

\* The scan of the sums of the warps.
LEMMA BlockScanIs ==
  ASSUME Summing, NEW b \in MP!Grid(kernel), NEW c \in Nat,
         \A w \in MP!Warps :
           shared[b][w] = Upto(b, Place(c, w + 1, 0)) - Upto(b, Place(c, w, 0))
  PROVE  \A w \in MP!Warps :
           MP!WarpScan([l \in MP!Lanes |-> IF l < nwarps THEN shared[b][l] ELSE 0])[w] =
             Upto(b, Place(c, w + 1, 0)) - Upto(b, Place(c, 0, 0))
<1> DEFINE x == [l \in MP!Lanes |-> IF l < nwarps THEN shared[b][l] ELSE 0]
           p(l) == Place(c, IF l < nwarps THEN l ELSE nwarps, 0)
           s == [l \in 0..warp_size |-> Upto(b, p(l))]
<1>1. b \in Blockset /\ \A j \in Nat : Upto(b, j) \in Int
  BY UptoIs
<1>2. /\ warp_size \in Nat /\ nwarps \in Nat /\ MP!Lanes = 0..warp_size-1
      /\ MP!Warps = 0..nwarps-1 /\ MP!Warps \subseteq MP!Lanes /\ 0 < nwarps
  BY ScanConstants, WarpsAreLanes
<1>3. \A l \in Nat : p(l) \in Nat /\ Upto(b, p(l)) \in Int
  <2> SUFFICES ASSUME NEW l \in Nat PROVE p(l) \in Nat /\ Upto(b, p(l)) \in Int
    OBVIOUS
  <2>1. (IF l < nwarps THEN l ELSE nwarps) \in Nat
    BY <1>2
  <2>2. p(l) \in Nat
    BY <2>1, PlaceSteps
  <2> QED
    BY <1>1, <2>2
<1>4. ASSUME NEW l \in MP!Lanes PROVE x[l] \in Int /\ x[l] = Upto(b, p(l + 1)) - Upto(b, p(l))
  <2>0. l \in Nat /\ l + 1 \in Nat
    BY <1>2
  <2>1. CASE l < nwarps
    <3>1. l \in MP!Warps /\ p(l) = Place(c, l, 0) /\ p(l + 1) = Place(c, l + 1, 0)
      BY <1>2, <2>0, <2>1
    <3>2. x[l] = shared[b][l]
      BY <2>1
    <3> HIDE DEF x, p
    <3> QED
      BY <1>3, <2>0, <3>1, <3>2
  <2>2. CASE ~(l < nwarps)
    <3>1. p(l) = p(l + 1) /\ x[l] = 0
      BY <1>2, <2>0, <2>2
    <3> HIDE DEF x, p
    <3> QED
      BY <1>3, <2>0, <3>1
  <2> QED
    BY <2>1, <2>2
<1>5. x \in [MP!Lanes -> Int]
  BY <1>4
<1>6. \A w \in MP!Warps : p(w + 1) = Place(c, w + 1, 0) /\ p(0) = Place(c, 0, 0)
  BY <1>2
<1> HIDE DEF x, p
<1>7. s \in [0..warp_size -> Int] /\ \A l \in 0..warp_size : s[l] = Upto(b, p(l))
  BY <1>2, <1>3
<1> HIDE DEF s
<1>8. \A l \in MP!Lanes : l \in 0..warp_size /\ l + 1 \in 0..warp_size /\ 0 \in 0..warp_size
  BY <1>2
<1>9. \A l \in MP!Lanes : x[l] = s[l + 1] - s[l]
  BY <1>4, <1>7, <1>8
<1>10. MP!WarpScan(x) = [l \in MP!Lanes |-> s[l + 1] - s[0]]
  BY <1>5, <1>7, <1>9, WarpScanIs
<1> QED
  BY <1>2, <1>6, <1>7, <1>8, <1>10 DEF x

\* What a warp stores for its lanes.
LEMMA ChunkOutIs ==
  ASSUME Summing, NEW b \in MP!Grid(kernel), NEW w \in MP!Warps,
         sum_prev_chunk[b][w] = Upto(b, Place(ichunk[b][w], 0, 0)),
         \A v \in MP!Warps : shared2[b][v] = Upto(b, Place(ichunk[b][w], v + 1, 0))
                                               - Upto(b, Place(ichunk[b][w], 0, 0)),
         NEW l \in MP!Lanes
  PROVE  MP!ChunkOut(b, w)[l] = IF type \/ kernel = 2 THEN Upto(b, Place(ichunk[b][w], w, l) + 1)
                                ELSE Upto(b, Place(ichunk[b][w], w, l))
<1> DEFINE c == ichunk[b][w]
           u(v) == Upto(b, Place(c, v, 0))
           t == Upto(b, Place(c, w, l))
           t1 == Upto(b, Place(c, w, l) + 1)
           prev == IF w = 0 THEN 0 ELSE shared2[b][w - 1]
<1>1. /\ c \in Nat /\ MP!X0(b, w)[l] = t1 - t /\ MP!X(b, w)[l] = t1 - u(w)
  BY XIs
<1>2. w \in Nat /\ nwarps \in Nat /\ MP!Warps = 0..nwarps-1
  BY WarpsAreLanes, ScanConstants
<1> HIDE DEF c
<1>3. u(w) \in Int /\ u(0) \in Int /\ t \in Int /\ t1 \in Int
  <2>1. Place(c, w, 0) \in Nat /\ Place(c, 0, 0) \in Nat /\ Place(c, w, l) \in Nat
        /\ Place(c, w, l) + 1 \in Nat
    <3>1. Place(c, w, 0) \in Nat
      BY <1>1, <1>2, PlaceSteps
    <3>2. Place(c, 0, 0) \in Nat
      BY <1>1, PlaceSteps
    <3>3. Place(c, w, l) \in Nat
      BY <1>1, PlaceIs
    <3> QED
      BY <3>1, <3>2, <3>3
  <2> QED
    BY <2>1, UptoIs
<1>4. prev = u(w) - u(0)
  <2>1. CASE w = 0
    BY <1>3, <2>1
  <2>2. CASE w # 0
    <3>1. w - 1 \in MP!Warps /\ (w - 1) + 1 = w
      BY <1>2, <2>2
    <3>2. shared2[b][w - 1] = u((w - 1) + 1) - u(0)
      BY <3>1 DEF c
    <3> HIDE DEF u
    <3> QED
      BY <2>2, <3>1, <3>2
  <2> QED
    BY <2>1, <2>2
<1>5. sum_prev_chunk[b][w] = u(0)
  BY DEF c
<1>6. MP!ChunkOut(b, w)[l] = prev + sum_prev_chunk[b][w] +
        (IF type \/ kernel = 2 THEN MP!X(b, w)[l] ELSE MP!X(b, w)[l] - MP!X0(b, w)[l])
  BY DEF MP!ChunkOut
<1> HIDE DEF u, t, t1, prev
<1>7. MP!ChunkOut(b, w)[l] = IF type \/ kernel = 2 THEN t1 ELSE t
  BY <1>1, <1>3, <1>4, <1>5, <1>6
<1> QED
  BY <1>7 DEF t, t1, c

----------------------------------------------------------------------------
(* The warps of a block.                                                   *)

WarpOK(b, w) == Counted(b, w) /\ InStep(b, w) /\ Adding(b, w)

inputs == <<n, type, kernel>>

LEMMA InputsKept ==
  ASSUME UNCHANGED inputs
  PROVE  /\ Blockset' = Blockset /\ MP!NumBlocks' = MP!NumBlocks /\ MP!Sums' = MP!Sums
         /\ MP!Grid(kernel)' = MP!Grid(kernel) /\ WarpLabels' = WarpLabels
         /\ \A b : MP!ibegin(b)' = MP!ibegin(b) /\ MP!iend(b)' = MP!iend(b)
         /\ \A b, j : Upto(b, j)' = Upto(b, j)
         /\ \A b : SumOf(b)' = SumOf(b) /\ SumUpTo(b)' = SumUpTo(b)
         /\ \A o : MP!PrefixSum(o)' = MP!PrefixSum(o)
<1>1. n' = n /\ type' = type /\ kernel' = kernel
  BY DEF inputs
<1>2. MP!NumBlocks' = MP!NumBlocks /\ MP!Sums' = MP!Sums
  BY <1>1 DEF MP!NumBlocks, MP!Sums
<1>3. \A b : MP!ibegin(b)' = MP!ibegin(b) /\ MP!iend(b)' = MP!iend(b)
  BY <1>1, <1>2 DEF MP!ibegin, MP!iend
<1>4. \A b, j : Upto(b, j)' = Upto(b, j)
  BY <1>1, <1>2, <1>3 DEF Upto
<1>5. Blockset' = Blockset
  BY <1>2 DEF Blockset
<1>6. MP!Grid(kernel)' = MP!Grid(kernel) /\ WarpLabels' = WarpLabels
  BY <1>1, <1>2 DEF MP!Grid, WarpLabels
<1>7. \A b : SumOf(b)' = SumOf(b) /\ SumUpTo(b)' = SumUpTo(b)
  BY <1>1, <1>2 DEF SumOf, SumUpTo
<1>8. \A o : MP!PrefixSum(o)' = MP!PrefixSum(o)
  BY <1>1, <1>2 DEF MP!PrefixSum
<1> QED
  BY <1>2, <1>3, <1>4, <1>5, <1>6, <1>7, <1>8

\* A warp that adds up is in one of the first two kernels.
LEMMA Moving ==
  ASSUME MPInv, NEW b \in running, NEW w \in MP!Warps,
         warp_pc[b][w] \in {"warp", "block", "chunk"}
  PROVE  /\ Summing /\ b \in MP!Grid(kernel) /\ b \in Blockset
         /\ \A v \in MP!Warps : WarpOK(b, v)
<1>1. MPTypeOK /\ Results /\ Threads /\ b \in MP!Grid(kernel)
  BY DEF MPInv, MPTypeOK
<1>2. kernel \in 1..4 /\ n \in Lengths
  BY <1>1 DEF MPTypeOK
<1>3. kernel # 4
  BY <1>1 DEF MP!Grid
<1>4. b \in Blockset
  <2>1. MP!NumBlocks \in Nat \ {0}
    BY <1>2, BlocksCover
  <2> QED
    BY <1>1, <1>2, <1>3, <2>1 DEF MP!Grid, Blockset
<1>5. warp_pc[b][w] \in WarpLabels
  BY <1>1, <1>4 DEF MPTypeOK
<1>6. kernel \in {1, 2}
  BY <1>2, <1>3, <1>5 DEF WarpLabels
<1> QED
  BY <1>1, <1>4, <1>6 DEF Summing, Threads, WarpOK

\* A block none of whose warps takes a step.
LEMMA RestKept ==
  ASSUME UNCHANGED inputs, NEW b, NEW v \in MP!Warps, 0 \in MP!Warps,
         warp_pc[b]' = warp_pc[b], ichunk[b]' = ichunk[b], barriers[b]' = barriers[b],
         sum_prev_chunk[b]' = sum_prev_chunk[b], shared[b]' = shared[b], shared2[b]' = shared2[b],
         WarpOK(b, v)
  PROVE  WarpOK(b, v)'
<1>1. /\ \A j : Upto(b, j)' = Upto(b, j)
      /\ MP!ibegin(b)' = MP!ibegin(b) /\ MP!iend(b)' = MP!iend(b) /\ kernel' = kernel
  BY InputsKept DEF inputs
<1>2. Counted(b, v)' /\ InStep(b, v)'
  BY DEF WarpOK, Counted, InStep
<1>3. MP!MoreChunks(b, v)' <=> MP!MoreChunks(b, v)
  BY <1>1 DEF MP!MoreChunks
<1>4. LastChunk(b)' = LastChunk(b)
  BY DEF LastChunk
<1>5. Adding(b, v)'
  BY <1>1, <1>3, <1>4 DEF WarpOK, Adding
<1> QED
  BY <1>2, <1>5 DEF WarpOK

\* A step of one warp.
WarpStep(b, w) ==
  /\ UNCHANGED <<inputs, waiting, running>>
  /\ \A c \in Blockset : c # b =>
       /\ warp_pc'[c] = warp_pc[c] /\ ichunk'[c] = ichunk[c] /\ barriers'[c] = barriers[c]
       /\ sum_prev_chunk'[c] = sum_prev_chunk[c] /\ shared'[c] = shared[c]
       /\ shared2'[c] = shared2[c]

LEMMA ThreadsKept ==
  ASSUME MPInv, NEW b \in running, NEW w \in MP!Warps, WarpStep(b, w), kernel \in {1, 2},
         \A v \in MP!Warps : WarpOK(b, v)'
  PROVE  Threads'
<1>1. MPTypeOK /\ Threads
  BY DEF MPInv
<1>2. /\ MP!NumBlocks \in Nat \ {0} /\ UNCHANGED inputs /\ waiting' = waiting
      /\ running' = running /\ kernel' = kernel /\ MP!Grid(kernel)' = MP!Grid(kernel)
  BY <1>1, BlocksCover, InputsKept DEF MPTypeOK, WarpStep, inputs
<1>3. MP!Grid(kernel) \subseteq Blockset
  BY <1>2 DEF MP!Grid, Blockset
<1>4. ASSUME NEW c \in MP!Grid(kernel), NEW v \in MP!Warps PROVE WarpOK(c, v)'
  <2>1. CASE c = b
    BY <2>1
  <2>2. CASE c # b
    <3>1. WarpOK(c, v)
      BY <1>1 DEF Threads, WarpOK
    <3>2. /\ warp_pc[c]' = warp_pc[c] /\ ichunk[c]' = ichunk[c] /\ barriers[c]' = barriers[c]
          /\ sum_prev_chunk[c]' = sum_prev_chunk[c] /\ shared[c]' = shared[c]
          /\ shared2[c]' = shared2[c]
      BY <1>3, <2>2 DEF WarpStep
    <3> QED
      BY <1>2, <3>1, <3>2, RestKept, WarpsAreLanes
  <2> QED
    BY <2>1, <2>2
<1>5. ASSUME NEW c \in MP!Grid(kernel) PROVE Over(c)'
  <2>1. CASE c = b
    BY <1>2, <2>1 DEF Over
  <2>2. CASE c # b
    <3>1. warp_pc'[c] = warp_pc[c] /\ Over(c)
      BY <1>1, <1>3, <2>2 DEF WarpStep, Threads
    <3> QED
      BY <1>2, <3>1 DEF Over
  <2> QED
    BY <2>1, <2>2
<1> QED
  BY <1>2, <1>4, <1>5 DEF Threads, WarpOK

\* The first warp adds up what all warps of the chunk have stored.
LEMMA AllStored ==
  ASSUME MPInv, NEW b \in running, warp_pc[b][0] = "block", MP!Passed(b, 0)
  PROVE  \A v \in MP!Warps : warp_pc[b][v] \in {"block", "chunk"} /\ ichunk[b][v] = ichunk[b][0]
<1>1. 0 \in MP!Warps
  BY WarpsAreLanes
<1>2. Summing /\ b \in Blockset /\ \A v \in MP!Warps : WarpOK(b, v)
  BY <1>1, Moving
<1>3. \A v \in MP!Warps : /\ ichunk[b][v] \in Nat /\ barriers[b][v] \in Nat
                          /\ warp_pc[b][v] \in {"warp", "block", "chunk", "end"}
  BY <1>2 DEF Summing, MPTypeOK, WarpLabels
<1> TAKE v \in MP!Warps
<1>4. barriers[b][0] = 2 * ichunk[b][0] + 1 /\ barriers[b][v] >= barriers[b][0]
  BY <1>1, <1>2 DEF WarpOK, Counted, MP!Passed
<1>5. /\ warp_pc[b][v] \in {"warp", "end"} => /\ barriers[b][v] = 2 * ichunk[b][v]
                                               /\ barriers[b][0] >= barriers[b][v]
      /\ warp_pc[b][v] = "block" => /\ barriers[b][v] = 2 * ichunk[b][v] + 1
                                    /\ barriers[b][0] >= barriers[b][v] - 1
      /\ warp_pc[b][v] = "chunk" => /\ barriers[b][v] = 2 * ichunk[b][v] + 2
                                    /\ barriers[b][0] >= barriers[b][v] - 1
  <2>1. Counted(b, v) /\ InStep(b, v)
    BY <1>1, <1>2 DEF WarpOK
  <2>2. barriers[b][0] >=
          barriers[b][v] - (IF warp_pc[b][v] \in {"block", "chunk"} THEN 1 ELSE 0)
    BY <1>1, <2>1 DEF InStep
  <2>3. /\ warp_pc[b][v] \in {"warp", "end"} => barriers[b][v] = 2 * ichunk[b][v] + 0
        /\ warp_pc[b][v] = "block" => barriers[b][v] = 2 * ichunk[b][v] + 1
        /\ warp_pc[b][v] = "chunk" => barriers[b][v] = 2 * ichunk[b][v] + 2
    BY <2>1 DEF Counted
  <2> QED
    BY <1>1, <1>3, <2>2, <2>3
<1> QED
  BY <1>1, <1>3, <1>4, <1>5

\* A warp that uses the sums of a chunk finds those of its own chunk.
LEMMA SumsFound ==
  ASSUME MPInv, NEW b \in running, NEW w \in MP!Warps, warp_pc[b][w] = "chunk", MP!Passed(b, w)
  PROVE  LastChunk(b) = ichunk[b][w] /\ LastChunk(b) >= 0
<1>1. 0 \in MP!Warps
  BY WarpsAreLanes
<1>2. Summing /\ b \in Blockset /\ \A v \in MP!Warps : WarpOK(b, v)
  BY Moving
<1>3. \A v \in MP!Warps : /\ ichunk[b][v] \in Nat /\ barriers[b][v] \in Nat
                          /\ warp_pc[b][v] \in {"warp", "block", "chunk", "end"}
  BY <1>2 DEF Summing, MPTypeOK, WarpLabels
<1>4. barriers[b][w] = 2 * ichunk[b][w] + 2 /\ barriers[b][0] >= barriers[b][w]
  BY <1>1, <1>2 DEF WarpOK, Counted, MP!Passed
<1>5. /\ warp_pc[b][0] \in {"warp", "end"} => /\ barriers[b][0] = 2 * ichunk[b][0]
                                               /\ barriers[b][w] >= barriers[b][0]
      /\ warp_pc[b][0] = "block" => /\ barriers[b][0] = 2 * ichunk[b][0] + 1
                                    /\ barriers[b][w] >= barriers[b][0] - 1
      /\ warp_pc[b][0] = "chunk" => /\ barriers[b][0] = 2 * ichunk[b][0] + 2
                                    /\ barriers[b][w] >= barriers[b][0] - 1
  <2>1. Counted(b, 0) /\ InStep(b, 0)
    BY <1>1, <1>2 DEF WarpOK
  <2>2. barriers[b][w] >=
          barriers[b][0] - (IF warp_pc[b][0] \in {"block", "chunk"} THEN 1 ELSE 0)
    BY <1>1, <2>1 DEF InStep
  <2>3. /\ warp_pc[b][0] \in {"warp", "end"} => barriers[b][0] = 2 * ichunk[b][0] + 0
        /\ warp_pc[b][0] = "block" => barriers[b][0] = 2 * ichunk[b][0] + 1
        /\ warp_pc[b][0] = "chunk" => barriers[b][0] = 2 * ichunk[b][0] + 2
    BY <2>1 DEF Counted
  <2> QED
    BY <1>1, <1>3, <2>2, <2>3
<1> QED
  BY <1>1, <1>3, <1>4, <1>5 DEF LastChunk

\* The arrays of the kernels as long as no warp changes them.
LEMMA ResultsKept ==
  ASSUME MPInv, NEW b \in running, NEW w \in MP!Warps,
         UNCHANGED <<inputs, ichunk, blockresult, blocksum, totalsum, out>>,
         kernel \in {1, 2}, b \in Blockset, NEW label, label # "end",
         warp_pc' = [warp_pc EXCEPT ![b][w] = label]
  PROVE  Results'
<1>1. MPTypeOK /\ Results /\ 0 \in MP!Warps /\ n \in Lengths
  BY WarpsAreLanes DEF MPInv, MPTypeOK
<1>2. /\ n' = n /\ type' = type /\ kernel' = kernel /\ ichunk' = ichunk /\ out' = out
      /\ blockresult' = blockresult /\ blocksum' = blocksum /\ totalsum' = totalsum
  BY DEF inputs
<1>3. /\ Blockset' = Blockset /\ MP!Sums' = MP!Sums
      /\ \A c : SumOf(c)' = SumOf(c) /\ SumUpTo(c)' = SumUpTo(c)
      /\ \A o : MP!PrefixSum(o)' = MP!PrefixSum(o)
  BY <1>2, InputsKept DEF inputs
<1>4. \A c, j : Dealt(c, j)' <=> Dealt(c, j)
  BY <1>2 DEF Dealt
<1>5. \A c \in Blockset : warp_pc'[c][0] = "end" => warp_pc[c][0] = "end"
  BY <1>1 DEF MPTypeOK
<1>6. 0 \in Blockset
  BY <1>1, BlocksCover DEF Blockset
<1>7. ASSUME NEW o \in 0..n-1
      PROVE  blockresult[o] = IF kernel = 1 /\ ~Dealt(BlockOf(o), InBlock(o)) THEN MP!Unset
                              ELSE MP!PrefixSum(o) - MP!Sums[o - InBlock(o)]
  BY <1>1 DEF Results
<1>8. ASSUME NEW c \in Blockset
      PROVE  /\ kernel = 1 => (warp_pc'[c][0] = "end" => blocksum[c] = SumOf(c))
             /\ kernel = 2 => blocksum[c] = IF Dealt(0, c) THEN SumUpTo(c) ELSE SumOf(c)
  BY <1>1, <1>5 DEF Results
<1>9. kernel = 2 /\ warp_pc'[0][0] = "end" => totalsum = MP!Sums[n]
  BY <1>1, <1>5, <1>6 DEF Results
<1> QED
  BY <1>2, <1>3, <1>4, <1>7, <1>8, <1>9 DEF Results

LEMMA TypesKept ==
  ASSUME MPTypeOK, UNCHANGED <<inputs, waiting, running>>,
         warp_pc' \in [Blockset -> [MP!Warps -> WarpLabels]],
         ichunk' \in [Blockset -> [MP!Warps -> Nat]],
         barriers' \in [Blockset -> [MP!Warps -> Nat]],
         sum_prev_chunk' \in [Blockset -> [MP!Warps -> Int]],
         shared' \in [Blockset -> [MP!Warps -> Int]],
         shared2' \in [Blockset -> [MP!Warps -> Int]],
         blockresult' \in [0..n-1 -> Int], blocksum' \in [Blockset -> Int],
         totalsum' \in Int, out' \in [0..n-1 -> Int]
  PROVE  MPTypeOK'
<1>1. Blockset' = Blockset /\ WarpLabels' = WarpLabels /\ MP!Grid(kernel)' = MP!Grid(kernel)
  BY InputsKept DEF inputs
<1>2. n' = n /\ type' = type /\ kernel' = kernel /\ waiting' = waiting /\ running' = running
  BY DEF inputs
<1>3. waiting' \subseteq MP!Grid(kernel)' /\ running' \subseteq MP!Grid(kernel)'
  BY <1>1, <1>2 DEF MPTypeOK
<1>4. n' \in Lengths /\ type' \in BOOLEAN /\ kernel' \in 1..4
  BY <1>2 DEF MPTypeOK
<1> QED
  BY <1>1, <1>2, <1>3, <1>4 DEF MPTypeOK

LEMMA WarpSumInv ==
  ASSUME MPInv, NEW b \in running, NEW w \in MP!Warps, MP!WarpSum(b, w)
  PROVE  MPInv'
<1> DEFINE x == MP!X(b, w)[MP!LastLane]
<1>1. /\ warp_pc[b][w] = "warp" /\ warp_pc' = [warp_pc EXCEPT ![b][w] = "block"]
      /\ shared' = [shared EXCEPT ![b][w] = x] /\ barriers' = [barriers EXCEPT ![b][w] = @ + 1]
      /\ UNCHANGED <<n, type, kernel, waiting, running, ichunk, sum_prev_chunk, shared2,
                     blockresult, blocksum, totalsum, out>>
  BY DEF MP!WarpSum, MP!Goto, MP!Arrive, MP!args
<1>2. Summing /\ b \in MP!Grid(kernel) /\ b \in Blockset /\ \A v \in MP!Warps : WarpOK(b, v)
  BY <1>1, Moving
<1>3. MPTypeOK /\ kernel \in {1, 2} /\ 0 \in MP!Warps /\ w \in Nat /\ ichunk[b][w] \in Nat
  <2>1. 0 \in MP!Warps /\ w \in Nat
    BY WarpsAreLanes
  <2> QED
    BY <1>2, <2>1 DEF Summing, MPTypeOK
<1>4. x = Upto(b, Place(ichunk[b][w], w + 1, 0)) - Upto(b, Place(ichunk[b][w], w, 0)) /\ x \in Int
  <2>1. Place(ichunk[b][w], w, 0) \in Nat
    BY <1>3, PlaceSteps
  <2>2. w + 1 \in Nat
    BY <1>3
  <2>3. Place(ichunk[b][w], w + 1, 0) \in Nat
    BY <1>3, <2>2, PlaceSteps
  <2> QED
    BY <1>2, <2>1, <2>3, WarpSumIs, UptoIs
<1> HIDE DEF x
<1>5. UNCHANGED inputs /\ WarpStep(b, w)
  BY <1>1, <1>2, <1>3 DEF inputs, WarpStep, MPTypeOK
<1>6. MPTypeOK'
  <2>1. warp_pc' \in [Blockset -> [MP!Warps -> WarpLabels]]
    BY <1>1, <1>2, <1>3 DEF MPTypeOK, WarpLabels
  <2>2. /\ barriers' \in [Blockset -> [MP!Warps -> Nat]]
        /\ shared' \in [Blockset -> [MP!Warps -> Int]]
    BY <1>1, <1>2, <1>3, <1>4 DEF MPTypeOK
  <2>3. /\ ichunk' \in [Blockset -> [MP!Warps -> Nat]]
        /\ sum_prev_chunk' \in [Blockset -> [MP!Warps -> Int]]
        /\ shared2' \in [Blockset -> [MP!Warps -> Int]]
        /\ blockresult' \in [0..n-1 -> Int] /\ blocksum' \in [Blockset -> Int]
        /\ totalsum' \in Int /\ out' \in [0..n-1 -> Int]
    BY <1>1, <1>3 DEF MPTypeOK
  <2>4. UNCHANGED <<inputs, waiting, running>>
    BY <1>1, <1>5
  <2> QED
    BY <1>3, <2>1, <2>2, <2>3, <2>4, TypesKept
<1>7. /\ \A j : Upto(b, j)' = Upto(b, j)
      /\ MP!ibegin(b)' = MP!ibegin(b) /\ MP!iend(b)' = MP!iend(b)
  BY <1>5, InputsKept
<1>8. ASSUME NEW v \in MP!Warps
      PROVE  /\ warp_pc'[b][v] = IF v = w THEN "block" ELSE warp_pc[b][v]
             /\ barriers'[b][v] = IF v = w THEN barriers[b][v] + 1 ELSE barriers[b][v]
             /\ shared'[b][v] = IF v = w THEN x ELSE shared[b][v]
             /\ barriers[b][v] \in Nat /\ ichunk[b][v] \in Nat
  BY <1>1, <1>2, <1>3 DEF MPTypeOK
<1>9. ASSUME NEW v \in MP!Warps PROVE WarpOK(b, v)'
  <2>1. WarpOK(b, v) /\ WarpOK(b, w)
    BY <1>2
  <2>2. Counted(b, v)'
    BY <1>1, <1>8, <2>1 DEF WarpOK, Counted
  <2>3. InStep(b, v)'
    <3>1. ASSUME NEW u \in MP!Warps
          PROVE  barriers'[b][u] >=
                   barriers'[b][v] - (IF warp_pc'[b][v] \in {"block", "chunk"} THEN 1 ELSE 0)
      <4>1. barriers[b][u] >=
              barriers[b][v] - (IF warp_pc[b][v] \in {"block", "chunk"} THEN 1 ELSE 0)
        BY <2>1 DEF WarpOK, InStep
      <4>2. barriers'[b][u] >= barriers[b][u] /\ barriers'[b][u] \in Nat
        BY <1>8
      <4> QED
        BY <1>1, <1>8, <4>1, <4>2
    <3> QED
      BY <3>1 DEF InStep
  <2>4. LastChunk(b)' = LastChunk(b)
    BY <1>1, <1>3, <1>8 DEF LastChunk
  <2>5. warp_pc'[b][v] = "end" => ~MP!MoreChunks(b, v)'
    BY <1>1, <1>7, <1>8, <2>1 DEF WarpOK, Adding, MP!MoreChunks
  <2>6. warp_pc'[b][v] \in {"block", "chunk"} =>
          shared'[b][v] = Upto(b, Place(ichunk[b][v], v + 1, 0)) - Upto(b, Place(ichunk[b][v], v, 0))
    BY <1>4, <1>8, <2>1 DEF WarpOK, Adding
  <2>7. Adding(b, v)'
    BY <1>1, <1>7, <2>1, <2>4, <2>5, <2>6 DEF WarpOK, Adding
  <2> QED
    BY <2>2, <2>3, <2>7 DEF WarpOK
<1>10. Threads'
  BY <1>3, <1>5, <1>9, ThreadsKept
<1>11. Results'
  BY <1>1, <1>2, <1>3, <1>5, ResultsKept
<1> QED
  BY <1>6, <1>10, <1>11 DEF MPInv

LEMMA BlockScanInv ==
  ASSUME MPInv, NEW b \in running, NEW w \in MP!Warps, MP!BlockScan(b, w)
  PROVE  MPInv'
<1> DEFINE y == MP!WarpScan([l \in MP!Lanes |-> IF l < nwarps THEN shared[b][l] ELSE 0])
<1>1. /\ warp_pc[b][w] = "block" /\ warp_pc' = [warp_pc EXCEPT ![b][w] = "chunk"]
      /\ MP!Passed(b, w) /\ barriers' = [barriers EXCEPT ![b][w] = @ + 1]
      /\ shared2' = IF w # 0 THEN shared2
                    ELSE [shared2 EXCEPT ![b] = [l \in MP!Warps |-> y[l]]]
      /\ UNCHANGED <<n, type, kernel, waiting, running, ichunk, sum_prev_chunk, shared,
                     blockresult, blocksum, totalsum, out>>
  BY DEF MP!BlockScan, MP!Goto, MP!Arrive, MP!args
<1>2. Summing /\ b \in MP!Grid(kernel) /\ b \in Blockset /\ \A v \in MP!Warps : WarpOK(b, v)
  BY <1>1, Moving
<1>3. MPTypeOK /\ kernel \in {1, 2} /\ 0 \in MP!Warps /\ \A v \in MP!Warps : ichunk[b][v] \in Nat
  BY <1>2, WarpsAreLanes DEF Summing, MPTypeOK
<1>4. ASSUME w = 0, NEW v \in MP!Warps
      PROVE  /\ y[v] = Upto(b, Place(ichunk[b][0], v + 1, 0)) - Upto(b, Place(ichunk[b][0], 0, 0))
             /\ y[v] \in Int
  <2>1. \A u \in MP!Warps : warp_pc[b][u] \in {"block", "chunk"} /\ ichunk[b][u] = ichunk[b][0]
    BY <1>1, <1>4, AllStored
  <2>2. \A u \in MP!Warps :
          shared[b][u] = Upto(b, Place(ichunk[b][0], u + 1, 0)) - Upto(b, Place(ichunk[b][0], u, 0))
    BY <1>2, <2>1 DEF WarpOK, Adding
  <2>3. v \in Nat /\ v + 1 \in Nat /\ 0 \in Nat /\ ichunk[b][0] \in Nat
    BY <1>3, WarpsAreLanes
  <2>4. y[v] = Upto(b, Place(ichunk[b][0], v + 1, 0)) - Upto(b, Place(ichunk[b][0], 0, 0))
    BY <1>2, <2>2, <2>3, BlockScanIs
  <2>5. Place(ichunk[b][0], v + 1, 0) \in Nat
    BY <2>3, PlaceSteps
  <2>6. Place(ichunk[b][0], 0, 0) \in Nat
    BY <2>3, PlaceSteps
  <2> HIDE DEF y
  <2> QED
    BY <1>2, <2>4, <2>5, <2>6, UptoIs
<1> HIDE DEF y
<1>5. UNCHANGED inputs /\ WarpStep(b, w)
  BY <1>1, <1>2, <1>3 DEF inputs, WarpStep, MPTypeOK
<1>6. MPTypeOK'
  <2>1. warp_pc' \in [Blockset -> [MP!Warps -> WarpLabels]]
    BY <1>1, <1>2, <1>3 DEF MPTypeOK, WarpLabels
  <2>2. barriers' \in [Blockset -> [MP!Warps -> Nat]]
    BY <1>1, <1>2, <1>3 DEF MPTypeOK
  <2>3. shared2' \in [Blockset -> [MP!Warps -> Int]]
    <3>1. w = 0 => [l \in MP!Warps |-> y[l]] \in [MP!Warps -> Int]
      BY <1>4
    <3> QED
      BY <1>1, <1>2, <1>3, <3>1 DEF MPTypeOK
  <2>4. /\ ichunk' \in [Blockset -> [MP!Warps -> Nat]]
        /\ sum_prev_chunk' \in [Blockset -> [MP!Warps -> Int]]
        /\ shared' \in [Blockset -> [MP!Warps -> Int]]
        /\ blockresult' \in [0..n-1 -> Int] /\ blocksum' \in [Blockset -> Int]
        /\ totalsum' \in Int /\ out' \in [0..n-1 -> Int]
    BY <1>1, <1>3 DEF MPTypeOK
  <2>5. UNCHANGED <<inputs, waiting, running>>
    BY <1>1, <1>5
  <2> QED
    BY <1>3, <2>1, <2>2, <2>3, <2>4, <2>5, TypesKept
<1>7. /\ \A j : Upto(b, j)' = Upto(b, j)
      /\ MP!ibegin(b)' = MP!ibegin(b) /\ MP!iend(b)' = MP!iend(b)
  BY <1>5, InputsKept
<1>8. ASSUME NEW v \in MP!Warps
      PROVE  /\ warp_pc'[b][v] = IF v = w THEN "chunk" ELSE warp_pc[b][v]
             /\ barriers'[b][v] = IF v = w THEN barriers[b][v] + 1 ELSE barriers[b][v]
             /\ shared2'[b][v] = IF w = 0 THEN y[v] ELSE shared2[b][v]
             /\ barriers[b][v] \in Nat /\ ichunk[b][v] \in Nat
  BY <1>1, <1>2, <1>3 DEF MPTypeOK
<1>9. ASSUME NEW v \in MP!Warps PROVE WarpOK(b, v)'
  <2>1. WarpOK(b, v) /\ WarpOK(b, w)
    BY <1>2
  <2>2. Counted(b, v)'
    BY <1>1, <1>8, <2>1 DEF WarpOK, Counted
  <2>3. InStep(b, v)'
    <3>1. ASSUME NEW u \in MP!Warps
          PROVE  barriers'[b][u] >=
                   barriers'[b][v] - (IF warp_pc'[b][v] \in {"block", "chunk"} THEN 1 ELSE 0)
      <4>1. barriers[b][u] >=
              barriers[b][v] - (IF warp_pc[b][v] \in {"block", "chunk"} THEN 1 ELSE 0)
        BY <2>1 DEF WarpOK, InStep
      <4>2. barriers'[b][u] >= barriers[b][u] /\ barriers'[b][u] \in Nat
        BY <1>8
      <4>3. barriers[b][u] >= barriers[b][w]
        BY <1>1 DEF MP!Passed
      <4> QED
        BY <1>1, <1>8, <4>1, <4>2, <4>3
    <3> QED
      BY <3>1 DEF InStep
  <2>4. /\ w # 0 => LastChunk(b)' = LastChunk(b)
        /\ w = 0 => LastChunk(b)' = ichunk[b][0]
    BY <1>1, <1>3, <1>8 DEF LastChunk
  <2>5. warp_pc'[b][v] = "end" => ~MP!MoreChunks(b, v)'
    BY <1>1, <1>7, <1>8, <2>1 DEF WarpOK, Adding, MP!MoreChunks
  <2>6. warp_pc'[b][v] \in {"block", "chunk"} => warp_pc[b][v] \in {"block", "chunk"}
    BY <1>1, <1>8
  <2>7. LastChunk(b)' >= 0 =>
          shared2'[b][v] = Upto(b, Place(LastChunk(b)', v + 1, 0))
                             - Upto(b, Place(LastChunk(b)', 0, 0))
    <3>1. CASE w = 0
      BY <1>4, <1>8, <2>4, <3>1
    <3>2. CASE w # 0
      BY <1>8, <2>1, <2>4, <3>2 DEF WarpOK, Adding
    <3> QED
      BY <3>1, <3>2
  <2>8. Adding(b, v)'
    BY <1>1, <1>7, <2>1, <2>5, <2>6, <2>7 DEF WarpOK, Adding
  <2> QED
    BY <2>2, <2>3, <2>8 DEF WarpOK
<1>10. Threads'
  BY <1>3, <1>5, <1>9, ThreadsKept
<1>11. Results'
  BY <1>1, <1>2, <1>3, <1>5, ResultsKept
<1> QED
  BY <1>6, <1>10, <1>11 DEF MPInv

\* The elements a warp stores with its next chunk.
Stores(b, w, c, j) == c = b /\ WarpOf(j) = w /\ j \div MP!blockDim = ichunk[b][w]

LEMMA StoresIs ==
  ASSUME NEW b, NEW w \in MP!Warps, ichunk[b][w] \in Nat, NEW j \in Nat
  PROVE  /\ \A l \in MP!Lanes : j = Place(ichunk[b][w], w, l) => Stores(b, w, b, j)
         /\ Stores(b, w, b, j) => \E l \in MP!Lanes : j = Place(ichunk[b][w], w, l)
<1>1. ASSUME NEW l \in MP!Lanes, j = Place(ichunk[b][w], w, l) PROVE Stores(b, w, b, j)
  BY <1>1, PlaceIs DEF Stores
<1>2. ASSUME Stores(b, w, b, j) PROVE \E l \in MP!Lanes : j = Place(ichunk[b][w], w, l)
  BY <1>2, PlaceExists DEF Stores
<1> QED
  BY <1>1, <1>2

LEMMA StoredIs ==
  ASSUME Summing, NEW b \in MP!Grid(kernel), NEW w \in MP!Warps, NEW array,
         NEW j \in Nat, MP!ibegin(b) + j \in DOMAIN array, MP!ibegin(b) + j < MP!iend(b)
  PROVE  MP!Stored(array, b, w)[MP!ibegin(b) + j] =
           IF Stores(b, w, b, j)
           THEN MP!ChunkOut(b, w)[CHOOSE l \in MP!Lanes : j = Place(ichunk[b][w], w, l)]
           ELSE array[MP!ibegin(b) + j]
<1> DEFINE c == ichunk[b][w]
           o == MP!ibegin(b) + j
           k == CHOOSE l \in MP!Lanes : j = Place(c, w, l)
<1>1. /\ c \in Nat /\ MP!ibegin(b) \in Nat /\ 0 \in MP!Lanes
      /\ \A l \in MP!Lanes : /\ MP!Offset(b, w, l) = MP!ibegin(b) + Place(c, w, l)
                             /\ Place(c, w, l) \in Nat /\ l \in Nat
                             /\ Place(c, w, 0) + l = Place(c, w, l)
  <2>1. c \in Nat /\ MP!ibegin(b) \in Nat /\ 0 \in MP!Lanes
    BY XIs, UptoIs, WarpsAreLanes
  <2>2. \A l \in MP!Lanes : MP!Offset(b, w, l) = MP!ibegin(b) + Place(c, w, l)
    BY XIs
  <2> HIDE DEF c
  <2>3. \A l \in MP!Lanes : /\ Place(c, w, l) \in Nat /\ l \in Nat
                            /\ Place(c, w, 0) + l = Place(c, w, l)
    BY <2>1, PlaceIs
  <2> QED
    BY <2>1, <2>2, <2>3
<1>2. Stores(b, w, b, j) <=> \E l \in MP!Lanes : j = Place(c, w, l)
  BY <1>1, StoresIs
<1> HIDE DEF c
<1>3. ASSUME NEW l \in MP!Lanes PROVE o = MP!Offset(b, w, l) <=> j = Place(c, w, l)
  BY <1>1
<1>4. CASE Stores(b, w, b, j)
  <2>1. k \in MP!Lanes /\ j = Place(c, w, k)
    BY <1>2, <1>4
  <2> HIDE DEF k
  <2>2. o = MP!Offset(b, w, k) /\ o - MP!Offset(b, w, 0) = k
    BY <1>1, <2>1
  <2>3. MP!Stored(array, b, w)[o] = MP!ChunkOut(b, w)[k]
    BY <2>1, <2>2 DEF MP!Stored
  <2> QED
    BY <1>4, <2>3 DEF k, c
<1>5. CASE ~Stores(b, w, b, j)
  <2>1. ~\E l \in MP!Lanes : o = MP!Offset(b, w, l)
    BY <1>2, <1>3, <1>5
  <2>2. MP!Stored(array, b, w)[o] = array[o]
    BY <2>1 DEF MP!Stored
  <2> QED
    BY <1>5, <2>2
<1> QED
  BY <1>4, <1>5

\* What a warp adds to the results of the first kernel, and to the sums in the second.
LEMMA StoredValue ==
  ASSUME Summing, NEW b \in MP!Grid(kernel), NEW w \in MP!Warps, NEW array,
         sum_prev_chunk[b][w] = Upto(b, Place(ichunk[b][w], 0, 0)),
         \A v \in MP!Warps : shared2[b][v] = Upto(b, Place(ichunk[b][w], v + 1, 0))
                                               - Upto(b, Place(ichunk[b][w], 0, 0)),
         NEW j \in Nat, MP!ibegin(b) + j \in DOMAIN array, MP!ibegin(b) + j < MP!iend(b)
  PROVE  MP!Stored(array, b, w)[MP!ibegin(b) + j] =
           IF ~Stores(b, w, b, j) THEN array[MP!ibegin(b) + j]
           ELSE IF type \/ kernel = 2 THEN Upto(b, j + 1) ELSE Upto(b, j)
<1>1. CASE ~Stores(b, w, b, j)
  BY <1>1, StoredIs
<1>2. CASE Stores(b, w, b, j)
  <2> DEFINE k == CHOOSE l \in MP!Lanes : j = Place(ichunk[b][w], w, l)
  <2>1. ichunk[b][w] \in Nat
    BY XIs
  <2>2. k \in MP!Lanes /\ j = Place(ichunk[b][w], w, k)
    BY <1>2, <2>1, StoresIs
  <2>3. MP!Stored(array, b, w)[MP!ibegin(b) + j] = MP!ChunkOut(b, w)[k]
    BY <1>2, StoredIs
  <2> HIDE DEF k
  <2>4. MP!ChunkOut(b, w)[k] = IF type \/ kernel = 2 THEN Upto(b, j + 1) ELSE Upto(b, j)
    BY <2>2, ChunkOutIs
  <2> QED
    BY <1>2, <2>3, <2>4
<1> QED
  BY <1>1, <1>2

\* A warp stores nothing that belongs to another block.
LEMMA StoredElsewhere ==
  ASSUME Summing, kernel = 1, NEW b \in MP!Grid(kernel), NEW w \in MP!Warps, NEW array,
         NEW o \in DOMAIN array, o \in 0..n-1, BlockOf(o) # b
  PROVE  MP!Stored(array, b, w)[o] = array[o]
<1> DEFINE E == MP!nelms_per_block
<1>1. n \in Lengths /\ b \in Blockset /\ ichunk[b][w] \in Nat
  BY UptoIs, XIs DEF Summing, MPTypeOK
<1>2. /\ b \in Nat /\ MP!ibegin(b) = E * b /\ MP!ibegin(b) \in Nat /\ MP!iend(b) \in Nat
      /\ MP!iend(b) <= E * b + E /\ E \in Nat
  <2>1. b \in Nat /\ E \in Nat
    BY <1>1, BlocksCover, ScanConstants
  <2>2. E * (b + 1) = E * b + E /\ E * b \in Nat
    BY <2>1
  <2>3. /\ MP!ibegin(b) = E * b /\ MP!iend(b) = MP!Smaller(E * (b + 1), n)
        /\ MP!ibegin(b) \in Nat /\ MP!iend(b) \in Nat
    BY <1>1, FirstUpto, UptoIs
  <2>4. n \in Nat
    BY <1>1, ScanConstants
  <2> HIDE DEF E
  <2>5. MP!iend(b) <= E * b + E
    BY <2>1, <2>2, <2>3, <2>4 DEF MP!Smaller
  <2> QED
    BY <2>1, <2>3, <2>5
<1> HIDE DEF E
<1>3. ASSUME NEW l \in MP!Lanes, o = MP!Offset(b, w, l), o < MP!iend(b) PROVE FALSE
  <2>1. Place(ichunk[b][w], w, l) \in Nat /\ o = E * b + Place(ichunk[b][w], w, l)
    BY <1>1, <1>2, <1>3, XIs, PlaceIs
  <2>2. Place(ichunk[b][w], w, l) \in 0..E-1
    BY <1>2, <1>3, <2>1
  <2>3. BlockOf(E * b + Place(ichunk[b][w], w, l)) = b
    BY <1>2, <2>2, BlockIs DEF E
  <2> QED
    BY <2>1, <2>3
<1>4. ~\E l \in MP!Lanes : o = MP!Offset(b, w, l) /\ o < MP!iend(b)
  BY <1>3
<1> QED
  BY <1>4 DEF MP!Stored

LEMMA FirstResult ==
  ASSUME n \in Lengths, kernel = 1, NEW b \in Blockset, NEW j \in 0..MP!nelms_per_block-1,
         MP!nelms_per_block * b + j < n
  PROVE  /\ MP!ibegin(b) + j < MP!iend(b) /\ MP!ibegin(b) = MP!nelms_per_block * b
         /\ (IF type THEN Upto(b, j + 1) ELSE Upto(b, j)) =
              MP!PrefixSum(MP!nelms_per_block * b + j) - MP!Sums[MP!nelms_per_block * b]
<1> DEFINE E == MP!nelms_per_block
<1>1. /\ MP!ibegin(b) = E * b /\ MP!ibegin(b) \in 0..n-1
      /\ MP!iend(b) = n \/ MP!iend(b) = MP!ibegin(b) + E
      /\ \A k \in Nat : MP!ibegin(b) + k <= MP!iend(b) =>
                          Upto(b, k) = MP!Sums[MP!ibegin(b) + k] - MP!Sums[MP!ibegin(b)]
  BY FirstUpto
<1>2. E \in Nat \ {0} /\ n \in Nat /\ j \in Nat /\ j + 1 \in Nat
  BY ScanConstants
<1> HIDE DEF E
<1>3. MP!ibegin(b) + j < MP!iend(b)
  BY <1>1, <1>2 DEF E
<1>4. E * b \in Nat /\ MP!iend(b) \in Nat /\ E * b + (j + 1) = (E * b + j) + 1
  BY <1>1, <1>2
<1>5. MP!ibegin(b) + j <= MP!iend(b) /\ MP!ibegin(b) + (j + 1) <= MP!iend(b)
  BY <1>1, <1>2, <1>3, <1>4
<1>6. /\ Upto(b, j) = MP!Sums[E * b + j] - MP!Sums[E * b]
      /\ Upto(b, j + 1) = MP!Sums[(E * b + j) + 1] - MP!Sums[E * b]
  BY <1>1, <1>2, <1>4, <1>5
<1>7. (IF type THEN Upto(b, j + 1) ELSE Upto(b, j)) = MP!PrefixSum(E * b + j) - MP!Sums[E * b]
  BY <1>6 DEF MP!PrefixSum
<1> QED
  BY <1>1, <1>3, <1>7 DEF E

LEMMA ChunkResultThreads ==
  ASSUME MPInv, NEW b \in running, NEW w \in MP!Warps, MP!ChunkResult(b, w)
  PROVE  Threads'
<1> DEFINE c == ichunk[b][w]
<1>1. /\ warp_pc[b][w] = "chunk" /\ warp_pc' = [warp_pc EXCEPT ![b][w] = "warp"]
      /\ MP!Passed(b, w) /\ ichunk' = [ichunk EXCEPT ![b][w] = @ + 1]
      /\ sum_prev_chunk' = [sum_prev_chunk EXCEPT ![b][w] = @ + shared2[b][nwarps - 1]]
      /\ UNCHANGED <<n, type, kernel, waiting, running, barriers, shared, shared2>>
  BY DEF MP!ChunkResult, MP!Goto, MP!args
<1>2. Summing /\ b \in MP!Grid(kernel) /\ b \in Blockset /\ \A v \in MP!Warps : WarpOK(b, v)
  BY <1>1, Moving
<1>3. 0 \in MP!Warps /\ nwarps - 1 \in MP!Warps /\ (nwarps - 1) + 1 = nwarps /\ nwarps \in Nat
  BY WarpsAreLanes, ScanConstants
<1>4. MPTypeOK /\ kernel \in {1, 2} /\ \A v \in MP!Warps : ichunk[b][v] \in Nat
  BY <1>2 DEF Summing, MPTypeOK
<1>5. UNCHANGED inputs /\ WarpStep(b, w)
  BY <1>1, <1>2, <1>4 DEF inputs, WarpStep, MPTypeOK
<1>6. LastChunk(b) = c /\ LastChunk(b) >= 0
  BY <1>1, SumsFound
<1>7. /\ \A j : Upto(b, j)' = Upto(b, j)
      /\ MP!ibegin(b)' = MP!ibegin(b) /\ MP!iend(b)' = MP!iend(b)
  BY <1>5, InputsKept
<1>8. ASSUME NEW v \in MP!Warps
      PROVE  /\ warp_pc'[b][v] = IF v = w THEN "warp" ELSE warp_pc[b][v]
             /\ ichunk'[b][v] = IF v = w THEN ichunk[b][v] + 1 ELSE ichunk[b][v]
             /\ sum_prev_chunk'[b][v] = IF v = w THEN sum_prev_chunk[b][v] + shared2[b][nwarps - 1]
                                        ELSE sum_prev_chunk[b][v]
             /\ barriers[b][v] \in Nat /\ ichunk[b][v] \in Nat
  BY <1>1, <1>2, <1>4 DEF MPTypeOK
<1>9. sum_prev_chunk[b][w] + shared2[b][nwarps - 1] = Upto(b, Place(c + 1, 0, 0))
  <2>1. c \in Nat /\ c + 1 \in Nat /\ 0 \in Nat
    BY <1>4
  <2>2. sum_prev_chunk[b][w] = Upto(b, Place(c, 0, 0))
    BY <1>2 DEF WarpOK, Adding
  <2>3. shared2[b][nwarps - 1] = Upto(b, Place(c, (nwarps - 1) + 1, 0)) - Upto(b, Place(c, 0, 0))
    BY <1>2, <1>3, <1>6 DEF WarpOK, Adding
  <2>4. Place(c, nwarps, 0) = Place(c + 1, 0, 0) /\ Place(c, 0, 0) \in Nat
    BY <2>1, PlaceSteps
  <2>5. Place(c + 1, 0, 0) \in Nat
    BY <2>1, PlaceSteps
  <2>6. Upto(b, Place(c, 0, 0)) \in Int /\ Upto(b, Place(c + 1, 0, 0)) \in Int
    BY <1>2, <2>4, <2>5, UptoIs
  <2> HIDE DEF c
  <2> QED
    BY <1>3, <2>2, <2>3, <2>4, <2>6
<1>10. ASSUME NEW v \in MP!Warps PROVE WarpOK(b, v)'
  <2>1. WarpOK(b, v) /\ WarpOK(b, w)
    BY <1>2
  <2>2. Counted(b, v)'
    <3>1. barriers[b][v] = 2 * ichunk[b][v] + (CASE warp_pc[b][v] = "block" -> 1
                                                 [] warp_pc[b][v] = "chunk" -> 2
                                                 [] OTHER -> 0)
      BY <2>1 DEF WarpOK, Counted
    <3>2. CASE v = w
      BY <1>1, <1>8, <3>1, <3>2 DEF Counted
    <3>3. CASE v # w
      BY <1>1, <1>8, <3>1, <3>3 DEF Counted
    <3> QED
      BY <3>2, <3>3
  <2>3. InStep(b, v)'
    <3>1. ASSUME NEW u \in MP!Warps
          PROVE  barriers[b][u] >=
                   barriers[b][v] - (IF warp_pc'[b][v] \in {"block", "chunk"} THEN 1 ELSE 0)
      <4>1. barriers[b][u] >=
              barriers[b][v] - (IF warp_pc[b][v] \in {"block", "chunk"} THEN 1 ELSE 0)
        BY <2>1 DEF WarpOK, InStep
      <4>2. barriers[b][u] >= barriers[b][w]
        BY <1>1 DEF MP!Passed
      <4> QED
        BY <1>1, <1>8, <4>1, <4>2
    <3> QED
      BY <1>1, <3>1 DEF InStep
  <2>4. LastChunk(b)' = LastChunk(b)
    BY <1>1, <1>3, <1>8 DEF LastChunk
  <2>5. warp_pc'[b][v] = "end" => ~MP!MoreChunks(b, v)'
    BY <1>1, <1>7, <1>8, <2>1 DEF WarpOK, Adding, MP!MoreChunks
  <2>6. sum_prev_chunk'[b][v] = Upto(b, Place(ichunk'[b][v], 0, 0))
    BY <1>8, <1>9, <2>1 DEF WarpOK, Adding
  <2>7. warp_pc'[b][v] \in {"block", "chunk"} =>
          shared[b][v] = Upto(b, Place(ichunk'[b][v], v + 1, 0))
                           - Upto(b, Place(ichunk'[b][v], v, 0))
    BY <1>8, <2>1 DEF WarpOK, Adding
  <2>8. Adding(b, v)'
    BY <1>1, <1>7, <2>1, <2>4, <2>5, <2>6, <2>7 DEF WarpOK, Adding
  <2> QED
    BY <2>2, <2>3, <2>8 DEF WarpOK
<1> QED
  BY <1>4, <1>5, <1>10, ThreadsKept

LEMMA ChunkResultArrays ==
  ASSUME MPInv, NEW b \in running, NEW w \in MP!Warps, MP!ChunkResult(b, w)
  PROVE  MPTypeOK' /\ Results'
<1> DEFINE c == ichunk[b][w]
           E == MP!nelms_per_block
<1>1. /\ warp_pc[b][w] = "chunk" /\ warp_pc' = [warp_pc EXCEPT ![b][w] = "warp"]
      /\ MP!Passed(b, w) /\ ichunk' = [ichunk EXCEPT ![b][w] = @ + 1]
      /\ sum_prev_chunk' = [sum_prev_chunk EXCEPT ![b][w] = @ + shared2[b][nwarps - 1]]
      /\ IF kernel = 1
         THEN blockresult' = MP!Stored(blockresult, b, w) /\ blocksum' = blocksum
         ELSE blocksum' = MP!Stored(blocksum, b, w) /\ blockresult' = blockresult
      /\ UNCHANGED <<n, type, kernel, waiting, running, barriers, shared, shared2, totalsum, out>>
  BY DEF MP!ChunkResult, MP!Goto, MP!args
<1>2. Summing /\ b \in MP!Grid(kernel) /\ b \in Blockset /\ \A v \in MP!Warps : WarpOK(b, v)
  BY <1>1, Moving
<1>3. 0 \in MP!Warps /\ nwarps - 1 \in MP!Warps
  BY WarpsAreLanes
<1>4. MPTypeOK /\ Results /\ kernel \in {1, 2} /\ n \in Lengths
  BY <1>2 DEF Summing, MPTypeOK
<1>5. UNCHANGED inputs
  BY <1>1 DEF inputs
<1>6. /\ sum_prev_chunk[b][w] = Upto(b, Place(c, 0, 0))
      /\ \A v \in MP!Warps : shared2[b][v] = Upto(b, Place(c, v + 1, 0)) - Upto(b, Place(c, 0, 0))
  <2>1. LastChunk(b) = c /\ LastChunk(b) >= 0
    BY <1>1, SumsFound
  <2> QED
    BY <1>2, <2>1 DEF WarpOK, Adding
<1>7. ASSUME NEW a \in Blockset, NEW j \in Nat
      PROVE  Dealt(a, j)' <=> Dealt(a, j) \/ Stores(b, w, a, j)
  <2>1. WarpOf(j) \in MP!Warps /\ j \div MP!blockDim \in Nat
    BY PlaceExists
  <2>2. ichunk'[a][WarpOf(j)] = IF a = b /\ WarpOf(j) = w THEN c + 1 ELSE ichunk[a][WarpOf(j)]
    BY <1>1, <1>2, <1>4, <2>1 DEF MPTypeOK
  <2>3. ichunk[a][WarpOf(j)] \in Nat
    BY <1>4, <2>1 DEF MPTypeOK
  <2> QED
    BY <2>1, <2>2, <2>3 DEF Dealt, Stores
<1>8. /\ n \in Nat \ {0} /\ \A a \in Blockset : a \in Nat /\ 0 \in Blockset
      /\ \A o \in 0..n-1 : /\ BlockOf(o) \in Blockset /\ InBlock(o) \in 0..E-1
                           /\ o = E * BlockOf(o) + InBlock(o)
                           /\ o - InBlock(o) = E * BlockOf(o)
      /\ MP!NumBlocks \in Nat \ {0} /\ E \in Nat
  BY <1>4, BlocksCover, ScanConstants DEF Blockset
<1> HIDE DEF c, E
\* The results of the first kernel.
<1>9. ASSUME kernel = 1, NEW o \in 0..n-1
      PROVE  /\ blockresult'[o] = IF Stores(b, w, BlockOf(o), InBlock(o))
                                  THEN MP!PrefixSum(o) - MP!Sums[o - InBlock(o)] ELSE blockresult[o]
             /\ DOMAIN blockresult = 0..n-1
  <2>0. DOMAIN blockresult = 0..n-1 /\ blockresult' = MP!Stored(blockresult, b, w)
    BY <1>1, <1>4, <1>9 DEF MPTypeOK
  <2>1. CASE BlockOf(o) # b
    <3>1. o \in DOMAIN blockresult
      BY <2>0
    <3>2. MP!Stored(blockresult, b, w)[o] = blockresult[o]
      BY <1>2, <1>9, <2>1, <3>1, StoredElsewhere
    <3> QED
      BY <2>0, <2>1, <3>2 DEF Stores
  <2>2. CASE BlockOf(o) = b
    <3> DEFINE j == InBlock(o)
    <3>1. j \in 0..E-1 /\ j \in Nat /\ o = E * b + j /\ o - j = E * b /\ o < n
      BY <1>8, <2>2
    <3> HIDE DEF j
    <3>2. /\ MP!ibegin(b) + j < MP!iend(b) /\ MP!ibegin(b) = E * b
          /\ (IF type THEN Upto(b, j + 1) ELSE Upto(b, j)) = MP!PrefixSum(o) - MP!Sums[E * b]
      BY <1>2, <1>4, <1>9, <3>1, FirstResult DEF E
    <3>3. MP!ibegin(b) + j = o
      BY <3>1, <3>2
    <3>4. MP!Stored(blockresult, b, w)[o] =
            IF ~Stores(b, w, b, j) THEN blockresult[o]
            ELSE IF type \/ kernel = 2 THEN Upto(b, j + 1) ELSE Upto(b, j)
      <4>1. MP!ibegin(b) + j \in DOMAIN blockresult
        BY <2>0, <3>3
      <4>2. MP!Stored(blockresult, b, w)[MP!ibegin(b) + j] =
              IF ~Stores(b, w, b, j) THEN blockresult[MP!ibegin(b) + j]
              ELSE IF type \/ kernel = 2 THEN Upto(b, j + 1) ELSE Upto(b, j)
        BY <1>2, <1>6, <3>1, <3>2, <4>1, StoredValue DEF c
      <4> QED
        BY <3>3, <4>2
    <3>5. blockresult'[o] = IF Stores(b, w, b, j) THEN MP!PrefixSum(o) - MP!Sums[o - j]
                            ELSE blockresult[o]
      BY <1>9, <2>0, <3>1, <3>2, <3>4
    <3> QED
      BY <2>0, <2>2, <3>5 DEF j
  <2> QED
    BY <2>1, <2>2
\* The sums of the second.
<1>10. ASSUME kernel = 2, NEW j \in Blockset
       PROVE  /\ blocksum'[j] = IF Stores(b, w, 0, j) THEN SumUpTo(j) ELSE blocksum[j]
              /\ b = 0 /\ j \in Nat
  <2>1. DOMAIN blocksum = Blockset /\ blocksum' = MP!Stored(blocksum, b, w)
    BY <1>1, <1>4, <1>10 DEF MPTypeOK
  <2>2. b = 0 /\ j \in Nat /\ j < MP!NumBlocks
    BY <1>2, <1>8, <1>10 DEF MP!Grid, Blockset
  <2>3. MP!ibegin(b) = 0 /\ MP!iend(b) = MP!NumBlocks /\ Upto(b, j + 1) = SumUpTo(j)
    BY <1>4, <1>10, <2>2, SecondUpto
  <2>4. MP!ibegin(b) + j = j
    BY <2>2, <2>3
  <2>5. MP!Stored(blocksum, b, w)[MP!ibegin(b) + j] =
          IF ~Stores(b, w, b, j) THEN blocksum[MP!ibegin(b) + j]
          ELSE IF type \/ kernel = 2 THEN Upto(b, j + 1) ELSE Upto(b, j)
    BY <1>2, <1>6, <2>1, <2>2, <2>3, <2>4, StoredValue DEF c
  <2> QED
    BY <1>10, <2>1, <2>2, <2>3, <2>4, <2>5
<1>11. Results'
  <2>1. /\ n' = n /\ type' = type /\ kernel' = kernel /\ out' = out /\ totalsum' = totalsum
        /\ MP!Sums' = MP!Sums /\ Blockset' = Blockset
        /\ \A a : SumOf(a)' = SumOf(a) /\ SumUpTo(a)' = SumUpTo(a)
        /\ \A o : MP!PrefixSum(o)' = MP!PrefixSum(o)
    BY <1>1, <1>5, InputsKept
  <2>2. \A a \in Blockset : warp_pc'[a][0] = "end" => warp_pc[a][0] = "end"
    BY <1>1, <1>2, <1>3, <1>4 DEF MPTypeOK
  <2>3. ASSUME NEW o \in 0..n-1
        PROVE  blockresult'[o] = IF kernel = 1 /\ ~Dealt(BlockOf(o), InBlock(o))' THEN MP!Unset
                                 ELSE MP!PrefixSum(o) - MP!Sums[o - InBlock(o)]
    <3>1. blockresult[o] = IF kernel = 1 /\ ~Dealt(BlockOf(o), InBlock(o)) THEN MP!Unset
                           ELSE MP!PrefixSum(o) - MP!Sums[o - InBlock(o)]
      BY <1>4 DEF Results
    <3>2. InBlock(o) \in Nat /\ BlockOf(o) \in Blockset
      BY <1>8
    <3>3. Dealt(BlockOf(o), InBlock(o))' <=>
            Dealt(BlockOf(o), InBlock(o)) \/ Stores(b, w, BlockOf(o), InBlock(o))
      BY <1>7, <3>2
    <3>4. CASE kernel = 1
      BY <1>9, <3>1, <3>3, <3>4
    <3>5. CASE kernel # 1
      BY <1>1, <3>1, <3>5
    <3> QED
      BY <3>4, <3>5
  <2>4. ASSUME NEW a \in Blockset
        PROVE  /\ kernel = 1 => (warp_pc'[a][0] = "end" => blocksum'[a] = SumOf(a))
               /\ kernel = 2 => blocksum'[a] = IF Dealt(0, a)' THEN SumUpTo(a) ELSE SumOf(a)
    <3>1. /\ kernel = 1 => (warp_pc[a][0] = "end" => blocksum[a] = SumOf(a))
          /\ kernel = 2 => blocksum[a] = IF Dealt(0, a) THEN SumUpTo(a) ELSE SumOf(a)
      BY <1>4 DEF Results
    <3>2. a \in Nat /\ 0 \in Blockset
      BY <1>8
    <3>3. Dealt(0, a)' <=> Dealt(0, a) \/ Stores(b, w, 0, a)
      BY <1>7, <3>2
    <3> QED
      BY <1>1, <1>10, <2>2, <3>1, <3>3
  <2>5. kernel = 2 /\ warp_pc'[0][0] = "end" => totalsum = MP!Sums[n]
    BY <1>2, <1>4, <1>8, <2>2 DEF Results
  <2> QED
    BY <1>4, <2>1, <2>3, <2>4, <2>5 DEF Results
<1>12. MPTypeOK'
  <2>1. warp_pc' \in [Blockset -> [MP!Warps -> WarpLabels]]
    BY <1>1, <1>2, <1>4 DEF MPTypeOK, WarpLabels
  <2>2. ichunk' \in [Blockset -> [MP!Warps -> Nat]]
    BY <1>1, <1>2, <1>4 DEF MPTypeOK
  <2>3. sum_prev_chunk' \in [Blockset -> [MP!Warps -> Int]]
    BY <1>1, <1>2, <1>3, <1>4 DEF MPTypeOK
  <2>4. \A o \in 0..n-1 : MP!PrefixSum(o) - MP!Sums[o - InBlock(o)] \in Int
    <3> SUFFICES ASSUME NEW o \in 0..n-1 PROVE MP!PrefixSum(o) - MP!Sums[o - InBlock(o)] \in Int
      OBVIOUS
    <3>1. o \in 0..n /\ o + 1 \in 0..n /\ o - InBlock(o) \in 0..n
      BY <1>8
    <3> QED
      BY <1>4, <3>1, SumsRange DEF MP!PrefixSum
  <2>5. blockresult' \in [0..n-1 -> Int]
    <3>1. CASE kernel = 1
      <4>1. \A o \in 0..n-1 : blockresult'[o] \in Int
        BY <1>4, <1>9, <2>4, <3>1 DEF MPTypeOK
      <4>2. blockresult' = [o \in 0..n-1 |-> blockresult'[o]]
        BY <1>1, <1>4, <3>1 DEF MP!Stored, MPTypeOK
      <4> QED
        BY <4>1, <4>2
    <3>2. CASE kernel # 1
      BY <1>1, <1>4, <3>2 DEF MPTypeOK
    <3> QED
      BY <3>1, <3>2
  <2>6. blocksum' \in [Blockset -> Int]
    <3>1. CASE kernel = 2
      <4>1. \A j \in Blockset : SumUpTo(j) \in Int
        <5> SUFFICES ASSUME NEW j \in Blockset PROVE SumUpTo(j) \in Int
          OBVIOUS
        <5>1. E * (j + 1) \in Nat
          BY <1>8
        <5> QED
          BY <1>4, <5>1, SumsRange DEF SumUpTo, E
      <4>2. \A j \in Blockset : blocksum'[j] \in Int
        BY <1>4, <1>10, <3>1, <4>1 DEF MPTypeOK
      <4>3. blocksum' = [j \in Blockset |-> blocksum'[j]]
        BY <1>1, <1>4, <3>1 DEF MP!Stored, MPTypeOK
      <4> QED
        BY <4>2, <4>3
    <3>2. CASE kernel # 2
      BY <1>1, <1>4, <3>2 DEF MPTypeOK
    <3> QED
      BY <3>1, <3>2
  <2>7. /\ barriers' \in [Blockset -> [MP!Warps -> Nat]]
        /\ shared' \in [Blockset -> [MP!Warps -> Int]]
        /\ shared2' \in [Blockset -> [MP!Warps -> Int]]
        /\ totalsum' \in Int /\ out' \in [0..n-1 -> Int]
        /\ UNCHANGED <<inputs, waiting, running>>
    BY <1>1, <1>4, <1>5 DEF MPTypeOK
  <2> QED
    BY <1>4, <2>1, <2>2, <2>3, <2>5, <2>6, <2>7, TypesKept
<1> QED
  BY <1>11, <1>12

LEMMA ChunkResultInv ==
  ASSUME MPInv, NEW b \in running, NEW w \in MP!Warps, MP!ChunkResult(b, w)
  PROVE  MPInv'
BY ChunkResultThreads, ChunkResultArrays DEF MPInv

LEMMA BlockSumInv ==
  ASSUME MPInv, NEW b \in running, NEW w \in MP!Warps, MP!BlockSum(b, w)
  PROVE  MPInv'
<1> DEFINE c == ichunk[b][w]
           E == MP!nelms_per_block
           D == MP!blockDim
<1>1. /\ warp_pc[b][w] = "warp" /\ warp_pc' = [warp_pc EXCEPT ![b][w] = "end"]
      /\ ~MP!MoreChunks(b, w)
      /\ blocksum' = IF w = 0 /\ kernel = 1
                     THEN [blocksum EXCEPT ![b] = sum_prev_chunk[b][w]] ELSE blocksum
      /\ totalsum' = IF w = 0 /\ kernel = 2 THEN sum_prev_chunk[b][w] ELSE totalsum
      /\ UNCHANGED <<n, type, kernel, waiting, running, ichunk, barriers, sum_prev_chunk, shared,
                     shared2, blockresult, out>>
  BY DEF MP!BlockSum, MP!Goto, MP!args
<1>2. Summing /\ b \in MP!Grid(kernel) /\ b \in Blockset /\ \A v \in MP!Warps : WarpOK(b, v)
  BY <1>1, Moving
<1>3. 0 \in MP!Warps
  BY WarpsAreLanes
<1>4. MPTypeOK /\ Results /\ kernel \in {1, 2} /\ n \in Lengths /\ c \in Nat
  BY <1>2 DEF Summing, MPTypeOK
<1>5. UNCHANGED inputs /\ WarpStep(b, w)
  BY <1>1, <1>2, <1>4 DEF inputs, WarpStep, MPTypeOK
<1>6. MPTypeOK'
  <2>1. warp_pc' \in [Blockset -> [MP!Warps -> WarpLabels]]
    BY <1>1, <1>2, <1>4 DEF MPTypeOK, WarpLabels
  <2>2. sum_prev_chunk[b][w] \in Int
    BY <1>2, <1>4 DEF MPTypeOK
  <2>3. blocksum' \in [Blockset -> Int] /\ totalsum' \in Int
    BY <1>1, <1>2, <1>4, <2>2 DEF MPTypeOK
  <2>4. /\ ichunk' \in [Blockset -> [MP!Warps -> Nat]]
        /\ barriers' \in [Blockset -> [MP!Warps -> Nat]]
        /\ sum_prev_chunk' \in [Blockset -> [MP!Warps -> Int]]
        /\ shared' \in [Blockset -> [MP!Warps -> Int]]
        /\ shared2' \in [Blockset -> [MP!Warps -> Int]]
        /\ blockresult' \in [0..n-1 -> Int] /\ out' \in [0..n-1 -> Int]
        /\ UNCHANGED <<inputs, waiting, running>>
    BY <1>1, <1>4, <1>5 DEF MPTypeOK
  <2> QED
    BY <1>4, <2>1, <2>3, <2>4, TypesKept
<1>7. /\ \A j : Upto(b, j)' = Upto(b, j)
      /\ MP!ibegin(b)' = MP!ibegin(b) /\ MP!iend(b)' = MP!iend(b)
  BY <1>5, InputsKept
<1>8. ASSUME NEW v \in MP!Warps
      PROVE  /\ warp_pc'[b][v] = IF v = w THEN "end" ELSE warp_pc[b][v]
             /\ barriers[b][v] \in Nat /\ ichunk[b][v] \in Nat
  BY <1>1, <1>2, <1>4 DEF MPTypeOK
<1>9. ASSUME NEW v \in MP!Warps PROVE WarpOK(b, v)'
  <2>1. WarpOK(b, v)
    BY <1>2
  <2>2. Counted(b, v)'
    BY <1>1, <1>8, <2>1 DEF WarpOK, Counted
  <2>3. InStep(b, v)'
    BY <1>1, <1>8, <2>1 DEF WarpOK, InStep
  <2>4. LastChunk(b)' = LastChunk(b)
    BY <1>1, <1>3, <1>8 DEF LastChunk
  <2>5. warp_pc'[b][v] = "end" => ~MP!MoreChunks(b, v)'
    BY <1>1, <1>7, <1>8, <2>1 DEF WarpOK, Adding, MP!MoreChunks
  <2>6. warp_pc'[b][v] \in {"block", "chunk"} => warp_pc[b][v] \in {"block", "chunk"}
    BY <1>8
  <2>7. Adding(b, v)'
    BY <1>1, <1>7, <2>1, <2>4, <2>5, <2>6 DEF WarpOK, Adding
  <2> QED
    BY <2>2, <2>3, <2>7 DEF WarpOK
<1>10. Threads'
  BY <1>4, <1>5, <1>9, ThreadsKept
\* The loop has gone through all elements.
<1>11. sum_prev_chunk[b][w] = Upto(b, c * D) /\ c * D \in Nat
  BY <1>2, <1>4, PlaceSteps DEF WarpOK, Adding
<1>12. ASSUME kernel = 1 PROVE sum_prev_chunk[b][w] = SumOf(b)
  <2>1. /\ MP!ibegin(b) \in 0..n-1 /\ MP!iend(b) \in MP!ibegin(b)+1..n
        /\ MP!iend(b) = MP!Smaller(E * (b + 1), n)
        /\ MP!iend(b) = n \/ MP!iend(b) = MP!ibegin(b) + E
        /\ \A j \in Nat : MP!ibegin(b) + j >= MP!iend(b) => Upto(b, j) = SumOf(b)
        /\ MP!ibegin(b) = E * b
    BY <1>2, <1>4, <1>12, FirstUpto
  <2>2. n \in Nat /\ D \in Nat /\ nchunks \in Nat /\ E = D * nchunks /\ E \in Nat /\ b \in Nat
    BY <1>2, <1>4, ScanConstants, BlocksCover DEF MP!nelms_per_block
  <2>3. MP!iend(b) <= MP!ibegin(b) + E
    <3> HIDE DEF E
    <3>1. E * (b + 1) = E * b + E /\ E * b \in Nat
      BY <2>2
    <3> QED
      BY <2>1, <2>2, <3>1 DEF MP!Smaller
  <2>4. ~(c < nchunks) \/ ~(MP!ibegin(b) + c * D < MP!iend(b))
    BY <1>1, <1>12 DEF MP!MoreChunks
  <2> HIDE DEF c, D, E
  <2>5. nchunks <= c => E <= c * D
    <3>1. nchunks <= c => D * nchunks <= D * c
      BY <1>4, <2>2, TimesGrows
    <3> QED
      BY <1>4, <2>2, <3>1
  <2>6. MP!ibegin(b) + c * D >= MP!iend(b)
    BY <1>4, <1>11, <2>1, <2>2, <2>3, <2>4, <2>5
  <2> QED
    BY <1>11, <2>1, <2>6
<1>13. ASSUME kernel = 2 PROVE sum_prev_chunk[b][w] = MP!Sums[n]
  <2>1. /\ MP!ibegin(b) = 0 /\ MP!iend(b) = MP!NumBlocks
        /\ \A j \in Nat : j >= MP!NumBlocks => Upto(b, j) = MP!Sums[n]
    BY <1>4, <1>13, SecondUpto
  <2>2. MP!NumBlocks \in Nat
    BY <1>4, BlocksCover
  <2>3. ~(0 + c * D < MP!NumBlocks)
    BY <1>1, <1>13, <2>1 DEF MP!MoreChunks
  <2> QED
    BY <1>11, <2>1, <2>2, <2>3
<1> HIDE DEF c, D, E
<1>14. Results'
  <2>1. /\ n' = n /\ type' = type /\ kernel' = kernel /\ out' = out /\ blockresult' = blockresult
        /\ MP!Sums' = MP!Sums /\ Blockset' = Blockset
        /\ \A a : SumOf(a)' = SumOf(a) /\ SumUpTo(a)' = SumUpTo(a)
        /\ \A o : MP!PrefixSum(o)' = MP!PrefixSum(o)
    BY <1>1, <1>5, InputsKept
  <2>2. \A a, j : Dealt(a, j)' <=> Dealt(a, j)
    BY <1>1 DEF Dealt
  <2>3. ASSUME NEW o \in 0..n-1
        PROVE  blockresult[o] = IF kernel = 1 /\ ~Dealt(BlockOf(o), InBlock(o)) THEN MP!Unset
                                ELSE MP!PrefixSum(o) - MP!Sums[o - InBlock(o)]
    BY <1>4 DEF Results
  <2>4. ASSUME NEW a \in Blockset
        PROVE  /\ kernel = 1 => (warp_pc'[a][0] = "end" => blocksum'[a] = SumOf(a))
               /\ kernel = 2 => blocksum'[a] = IF Dealt(0, a) THEN SumUpTo(a) ELSE SumOf(a)
    <3>1. /\ kernel = 1 => (warp_pc[a][0] = "end" => blocksum[a] = SumOf(a))
          /\ kernel = 2 => blocksum[a] = IF Dealt(0, a) THEN SumUpTo(a) ELSE SumOf(a)
      BY <1>4 DEF Results
    <3>2. ASSUME kernel = 1, warp_pc'[a][0] = "end" PROVE blocksum'[a] = SumOf(a)
      <4>1. CASE a = b /\ w = 0
        <5>1. blocksum'[b] = sum_prev_chunk[b][w]
          BY <1>1, <1>2, <1>4, <3>2, <4>1 DEF MPTypeOK
        <5> QED
          BY <1>12, <3>2, <4>1, <5>1
      <4>2. CASE ~(a = b /\ w = 0)
        <5>1. blocksum'[a] = blocksum[a] /\ warp_pc'[a][0] = warp_pc[a][0]
          BY <1>1, <1>2, <1>3, <1>4, <4>2 DEF MPTypeOK
        <5> QED
          BY <3>1, <3>2, <5>1
      <4> QED
        BY <4>1, <4>2
    <3>3. kernel = 2 => blocksum'[a] = blocksum[a]
      BY <1>1
    <3> QED
      BY <3>1, <3>2, <3>3
  <2>5. ASSUME kernel = 2, warp_pc'[0][0] = "end" PROVE totalsum' = MP!Sums[n]
    <3>1. b = 0
      BY <1>2, <2>5 DEF MP!Grid
    <3>2. CASE w = 0
      BY <1>1, <1>13, <2>5, <3>2
    <3>3. CASE w # 0
      <4>1. totalsum' = totalsum /\ warp_pc'[0][0] = warp_pc[0][0]
        BY <1>1, <1>2, <1>3, <1>4, <3>1, <3>3 DEF MPTypeOK
      <4> QED
        BY <1>4, <2>5, <4>1 DEF Results
    <3> QED
      BY <3>2, <3>3
  <2> QED
    BY <1>4, <2>1, <2>2, <2>3, <2>4, <2>5 DEF Results
<1> QED
  BY <1>6, <1>10, <1>14 DEF MPInv

LEMMA AddPreviousInv ==
  ASSUME MPInv, NEW b \in running, NEW w \in MP!Warps, MP!AddPrevious(b, w)
  PROVE  MPInv'
<1> DEFINE E == MP!nelms_per_block
           prev == MP!PreviousSum(b)
           mine(o) == /\ o \in MP!ibegin(b)..MP!iend(b)-1
                      /\ ((o - MP!ibegin(b)) % MP!blockDim) \div warp_size = w
<1>1. /\ warp_pc[b][w] = "add" /\ warp_pc' = [warp_pc EXCEPT ![b][w] = "end"]
      /\ out' = [o \in DOMAIN out |-> IF mine(o) THEN prev + blockresult[o] ELSE out[o]]
      /\ UNCHANGED <<n, type, kernel, waiting, running, ichunk, barriers, sum_prev_chunk, shared,
                     shared2, blockresult, blocksum, totalsum>>
  BY DEF MP!AddPrevious, MP!Goto, MP!args
<1>2. MPTypeOK /\ Results /\ Threads /\ n \in Lengths /\ kernel \in 1..4 /\ b \in MP!Grid(kernel)
  BY DEF MPInv, MPTypeOK
<1>3. /\ n \in Nat \ {0} /\ MP!NumBlocks \in Nat \ {0} /\ E \in Nat \ {0}
      /\ \A a \in Blockset : a \in Nat /\ E * a \in 0..n-1
      /\ \A o \in 0..n-1 : /\ BlockOf(o) \in Blockset /\ InBlock(o) \in 0..E-1
                           /\ o = E * BlockOf(o) + InBlock(o)
                           /\ o - InBlock(o) = E * BlockOf(o)
  BY <1>2, BlocksCover, ScanConstants
<1>4. kernel = 3 /\ b \in Blockset
  <2>1. kernel # 4
    BY <1>2 DEF MP!Grid
  <2>2. b \in Blockset
    BY <1>2, <1>3, <2>1 DEF MP!Grid, Blockset
  <2>3. warp_pc[b][w] \in WarpLabels
    BY <1>2, <2>2 DEF MPTypeOK
  <2> QED
    BY <1>1, <2>2, <2>3 DEF WarpLabels
<1>5. UNCHANGED inputs
  BY <1>1 DEF inputs
<1> HIDE DEF E
<1>6. /\ b \in Nat /\ E * b \in 0..n-1 /\ MP!ibegin(b) = E * b
      /\ MP!iend(b) = MP!Smaller(E * b + E, n)
  BY <1>3, <1>4 DEF MP!ibegin, MP!iend, E
\* The elements of the warp.
<1>7. ASSUME NEW o \in 0..n-1
      PROVE  mine(o) <=> BlockOf(o) = b /\ WarpOf(InBlock(o)) = w
  <2>1. BlockOf(o) = b => mine(o) <=> WarpOf(InBlock(o)) = w
    <3> SUFFICES ASSUME BlockOf(o) = b PROVE mine(o) <=> WarpOf(InBlock(o)) = w
      OBVIOUS
    <3>1. n \in Nat /\ E \in Nat
      BY <1>3
    <3>2. o = E * b + InBlock(o) /\ InBlock(o) \in 0..E-1
      BY <1>3
    <3>3. E * b \in Nat /\ InBlock(o) \in Nat
      BY <1>6, <3>1, <3>2
    <3>4. PICK k \in Nat, j \in Nat : k = E * b /\ j = InBlock(o)
      BY <3>3
    <3>5. o = k + j /\ j <= E - 1 /\ MP!ibegin(b) = k /\ MP!iend(b) = MP!Smaller(k + E, n)
      BY <1>6, <3>1, <3>2, <3>4
    <3>6. o - MP!ibegin(b) = j
      BY <3>5
    <3>7. o >= k /\ o < MP!iend(b) /\ MP!iend(b) \in Nat /\ o \in Int
      BY <3>1, <3>5 DEF MP!Smaller
    <3>8. o \in MP!ibegin(b)..MP!iend(b)-1
      BY <3>5, <3>7
    <3> QED
      BY <3>4, <3>6, <3>8 DEF WarpOf
  <2>2. ASSUME mine(o) PROVE BlockOf(o) = b
    <3> DEFINE j == o - E * b
    <3>1. j \in 0..E-1 /\ o = E * b + j
      BY <1>3, <1>6, <2>2 DEF MP!Smaller
    <3> HIDE DEF j
    <3> QED
      BY <1>6, <3>1, BlockIs DEF E
  <2> QED
    BY <2>1, <2>2
<1> HIDE DEF mine
\* What is added to a block is the sum of those before it.
<1>8. prev = MP!Sums[E * b]
  <2>1. CASE b = 0
    <3>1. E * b = 0 /\ prev = 0
      BY <1>3, <2>1 DEF MP!PreviousSum
    <3> QED
      BY <1>2, <3>1, SumsRange
  <2>2. CASE b # 0
    <3>1. b - 1 \in Blockset /\ (b - 1) + 1 = b
      BY <1>3, <1>4, <1>6, <2>2 DEF Blockset
    <3>2. prev = blocksum[b - 1]
      BY <2>2 DEF MP!PreviousSum
    <3>3. blocksum[b - 1] = SumUpTo(b - 1)
      BY <1>2, <1>4, <3>1 DEF Results
    <3>4. SumUpTo(b - 1) = MP!Sums[MP!Smaller(E * b, n)]
      BY <3>1 DEF SumUpTo, E
    <3>5. MP!Smaller(E * b, n) = E * b
      BY <1>3, <1>6 DEF MP!Smaller
    <3> QED
      BY <3>2, <3>3, <3>4, <3>5
  <2> QED
    BY <2>1, <2>2
<1> HIDE DEF prev
<1>9. ASSUME NEW o \in 0..n-1
      PROVE  /\ out'[o] = IF BlockOf(o) = b /\ WarpOf(InBlock(o)) = w THEN MP!PrefixSum(o) ELSE out[o]
             /\ out'[o] \in Int
  <2>1. DOMAIN out = 0..n-1 /\ out[o] \in Int
    BY <1>2 DEF MPTypeOK
  <2>2. blockresult[o] = MP!PrefixSum(o) - MP!Sums[o - InBlock(o)]
    BY <1>2, <1>4 DEF Results
  <2>3. MP!PrefixSum(o) \in Int
    <3>1. o \in 0..n /\ o + 1 \in 0..n
      BY <1>3
    <3> QED
      BY <1>2, <3>1, SumsRange DEF MP!PrefixSum
  <2>4. BlockOf(o) = b => /\ o - InBlock(o) = E * b /\ MP!Sums[E * b] \in Int
    <3>1. E * b \in 0..n
      BY <1>3, <1>6
    <3> QED
      BY <1>2, <1>3, <3>1, SumsRange
  <2> QED
    BY <1>1, <1>7, <1>8, <2>1, <2>2, <2>3, <2>4
<1>10. MPTypeOK'
  <2>1. warp_pc' \in [Blockset -> [MP!Warps -> WarpLabels]]
    BY <1>1, <1>2, <1>4 DEF MPTypeOK, WarpLabels
  <2>2. out' \in [0..n-1 -> Int]
    <3>1. out' = [o \in 0..n-1 |-> out'[o]]
      BY <1>1, <1>2 DEF MPTypeOK
    <3> QED
      BY <1>9, <3>1
  <2>3. /\ ichunk' \in [Blockset -> [MP!Warps -> Nat]]
        /\ barriers' \in [Blockset -> [MP!Warps -> Nat]]
        /\ sum_prev_chunk' \in [Blockset -> [MP!Warps -> Int]]
        /\ shared' \in [Blockset -> [MP!Warps -> Int]]
        /\ shared2' \in [Blockset -> [MP!Warps -> Int]]
        /\ blockresult' \in [0..n-1 -> Int] /\ blocksum' \in [Blockset -> Int] /\ totalsum' \in Int
        /\ UNCHANGED <<inputs, waiting, running>>
    BY <1>1, <1>2, <1>5 DEF MPTypeOK
  <2> QED
    BY <1>2, <2>1, <2>2, <2>3, TypesKept
<1>11. Threads'
  <2>1. ASSUME NEW a \in MP!Grid(kernel) PROVE Over(a)'
    <3>1. Over(a) /\ a \in Blockset
      BY <1>2, <1>4 DEF Threads, MP!Grid, Blockset
    <3>2. a # b => warp_pc'[a] = warp_pc[a]
      BY <1>1, <1>2, <3>1 DEF MPTypeOK
    <3> QED
      BY <1>1, <3>1, <3>2 DEF Over
  <2>2. MP!Grid(kernel)' = MP!Grid(kernel)
    BY <1>5, InputsKept
  <2> QED
    BY <1>1, <1>4, <2>1, <2>2 DEF Threads
<1>12. Results'
  <2>1. /\ n' = n /\ type' = type /\ kernel' = kernel /\ blockresult' = blockresult
        /\ blocksum' = blocksum /\ totalsum' = totalsum
        /\ MP!Sums' = MP!Sums /\ Blockset' = Blockset
        /\ \A a : SumUpTo(a)' = SumUpTo(a)
        /\ \A o : MP!PrefixSum(o)' = MP!PrefixSum(o)
    BY <1>1, <1>5, InputsKept
  <2>2. /\ \A o \in 0..n-1 : blockresult[o] = MP!PrefixSum(o) - MP!Sums[o - InBlock(o)]
        /\ \A a \in Blockset : blocksum[a] = SumUpTo(a)
        /\ totalsum = MP!Sums[n]
    BY <1>2, <1>4 DEF Results
  <2>3. ASSUME NEW o \in 0..n-1, warp_pc'[BlockOf(o)][WarpOf(InBlock(o))] = "end"
        PROVE  out'[o] = MP!PrefixSum(o)
    <3>1. CASE BlockOf(o) = b /\ WarpOf(InBlock(o)) = w
      BY <1>9, <3>1
    <3>2. CASE ~(BlockOf(o) = b /\ WarpOf(InBlock(o)) = w)
      <4>1. InBlock(o) \in Nat /\ BlockOf(o) \in Blockset
        BY <1>3
      <4>2. WarpOf(InBlock(o)) \in MP!Warps
        BY <4>1, PlaceExists
      <4>3. warp_pc'[BlockOf(o)][WarpOf(InBlock(o))] = warp_pc[BlockOf(o)][WarpOf(InBlock(o))]
        BY <1>1, <1>2, <1>4, <3>2, <4>1, <4>2 DEF MPTypeOK
      <4>4. out[o] = MP!PrefixSum(o)
        BY <1>2, <1>4, <2>3, <4>3 DEF Results
      <4> QED
        BY <1>9, <3>2, <4>4
    <3> QED
      BY <3>1, <3>2
  <2> QED
    BY <1>4, <2>1, <2>2, <2>3 DEF Results
<1> QED
  BY <1>10, <1>11, <1>12 DEF MPInv

\* A kernel starts when the one before it is over: all its warps have ended.
LEMMA KernelOver ==
  ASSUME MPInv, waiting = {}, running = {}, kernel < 4
  PROVE  /\ \A b \in MP!Grid(kernel), w \in MP!Warps : warp_pc[b][w] = "end"
         /\ kernel = 1 => \A o \in 0..n-1 : Dealt(BlockOf(o), InBlock(o))
         /\ kernel = 2 => \A b \in Blockset : Dealt(0, b)
<1> DEFINE E == MP!nelms_per_block
           D == MP!blockDim
<1>1. MPTypeOK /\ Threads /\ n \in Lengths /\ kernel \in 1..4
  BY DEF MPInv, MPTypeOK
<1>2. \A b \in MP!Grid(kernel), w \in MP!Warps : warp_pc[b][w] = "end"
  BY <1>1 DEF Threads, Over
<1>3. /\ n \in Nat \ {0} /\ MP!NumBlocks \in Nat \ {0} /\ E \in Nat /\ D \in Nat \ {0}
      /\ nchunks \in Nat /\ E = D * nchunks
      /\ \A o \in 0..n-1 : /\ BlockOf(o) \in Blockset /\ InBlock(o) \in 0..E-1
                           /\ o = E * BlockOf(o) + InBlock(o)
  BY <1>1, BlocksCover, ScanConstants DEF MP!nelms_per_block
<1> HIDE DEF E, D
\* A warp that has left the loop has dealt with all its elements.
<1>4. ASSUME NEW b \in MP!Grid(kernel), b \in Blockset, kernel \in {1, 2}, NEW j \in Nat,
             MP!ibegin(b) \in Nat, MP!iend(b) \in Nat,
             MP!ibegin(b) + j < MP!iend(b), kernel = 1 => j < E
      PROVE  Dealt(b, j)
  <2> DEFINE q == j \div D
             c == ichunk[b][WarpOf(j)]
  <2>1. WarpOf(j) \in MP!Warps
    BY PlaceExists
  <2>2. c \in Nat /\ ~MP!MoreChunks(b, WarpOf(j))
    BY <1>1, <1>2, <1>4, <2>1 DEF MPTypeOK, Threads, Adding
  <2>3. q \in Nat /\ j >= D * q
    <3>1. q \in Nat /\ j % D \in 0..D-1 /\ j = D * q + (j % D)
      BY <1>3, DivMod
    <3> HIDE DEF q
    <3>2. D * q \in Nat
      BY <1>3, <3>1
    <3> QED
      BY <3>1, <3>2
  <2>4. ~(kernel = 1 => c < nchunks) \/ ~(MP!ibegin(b) + c * D < MP!iend(b))
    BY <2>2 DEF MP!MoreChunks, D
  <2> HIDE DEF q, c
  <2>5. ASSUME c <= q PROVE FALSE
    <3>1. D * c <= D * q /\ D * c \in Nat /\ D * q \in Nat /\ c * D = D * c
      BY <1>3, <2>2, <2>3, <2>5, TimesGrows
    <3>2. ASSUME kernel = 1, nchunks <= c PROVE FALSE
      <4>1. D * nchunks <= D * c /\ D * nchunks \in Nat
        BY <1>3, <2>2, <3>2, TimesGrows
      <4> QED
        BY <1>3, <1>4, <2>3, <3>1, <3>2, <4>1
    <3>3. MP!ibegin(b) + c * D < MP!iend(b)
      BY <1>4, <2>3, <3>1
    <3> QED
      BY <1>3, <2>2, <2>4, <3>2, <3>3
  <2> QED
    BY <2>2, <2>3, <2>5 DEF Dealt, q, c, D
<1>5. ASSUME kernel = 1, NEW o \in 0..n-1 PROVE Dealt(BlockOf(o), InBlock(o))
  <2> DEFINE b == BlockOf(o)
             j == InBlock(o)
  <2>1. b \in Blockset /\ b \in MP!Grid(kernel) /\ j \in 0..E-1 /\ o = E * b + j /\ o < n
    BY <1>3, <1>5 DEF MP!Grid, Blockset
  <2> HIDE DEF b, j
  <2>2. MP!ibegin(b) + j < MP!iend(b)
    BY <1>1, <1>5, <2>1, FirstResult DEF E
  <2>3. MP!ibegin(b) \in 0..n-1 /\ MP!iend(b) \in MP!ibegin(b)+1..n
    BY <1>1, <1>5, <2>1, FirstUpto
  <2>4. MP!ibegin(b) \in Nat /\ MP!iend(b) \in Nat /\ j \in Nat /\ j < E
    BY <1>3, <2>1, <2>3
  <2>5. Dealt(b, j)
    BY <1>4, <1>5, <2>1, <2>2, <2>4
  <2> QED
    BY <2>5 DEF b, j
<1>6. ASSUME kernel = 2, NEW b \in Blockset PROVE Dealt(0, b)
  <2>1. 0 \in MP!Grid(kernel) /\ 0 \in Blockset /\ b \in Nat /\ b < MP!NumBlocks
    BY <1>3, <1>6 DEF MP!Grid, Blockset
  <2>2. MP!ibegin(0) = 0 /\ MP!iend(0) = MP!NumBlocks
    BY <1>6 DEF MP!ibegin, MP!iend
  <2>3. MP!ibegin(0) \in Nat /\ MP!iend(0) \in Nat /\ MP!ibegin(0) + b < MP!iend(0)
    BY <1>3, <2>1, <2>2
  <2> QED
    BY <1>4, <1>6, <2>1, <2>3
<1> QED
  BY <1>2, <1>5, <1>6

\* The variables of the threads at the start of a kernel.
Fresh(b, w) ==
  /\ ichunk[b][w] = 0 /\ barriers[b][w] = 0 /\ sum_prev_chunk[b][w] = 0
  /\ warp_pc[b][w] = "warp"

LEMMA FreshOK ==
  ASSUME n \in Lengths, kernel \in {1, 2}, NEW b \in MP!Grid(kernel), Upto(b, 0) = 0,
         \A w \in MP!Warps : Fresh(b, w)
  PROVE  \A w \in MP!Warps : WarpOK(b, w)
<1> TAKE w \in MP!Warps
<1>1. 0 \in MP!Warps /\ Place(0, 0, 0) = 0
  <2>1. 0 \in Nat
    OBVIOUS
  <2> QED
    BY <2>1, WarpsAreLanes, PlaceSteps
<1>2. Counted(b, w) /\ InStep(b, w)
  BY DEF Fresh, Counted, InStep
<1>3. LastChunk(b) = -1
  BY <1>1 DEF LastChunk, Fresh
<1>4. Adding(b, w)
  BY <1>1, <1>3 DEF Adding, Fresh
<1> QED
  BY <1>2, <1>4 DEF WarpOK

LEMMA UptoZero ==
  ASSUME n \in Lengths, kernel \in {1, 2}, NEW b \in MP!Grid(kernel)
  PROVE  Upto(b, 0) = 0 /\ b \in Blockset
<1>1. b \in Blockset
  BY BlocksCover DEF MP!Grid, Blockset
<1>2. CASE kernel = 1
  <2>1. /\ MP!ibegin(b) \in 0..n-1 /\ MP!iend(b) \in MP!ibegin(b)+1..n
        /\ MP!ibegin(b) + 0 <= MP!iend(b) =>
              Upto(b, 0) = MP!Sums[MP!ibegin(b) + 0] - MP!Sums[MP!ibegin(b)]
    BY <1>1, <1>2, FirstUpto
  <2>2. n \in Nat
    BY ScanConstants
  <2>3. MP!ibegin(b) + 0 = MP!ibegin(b) /\ MP!ibegin(b) <= MP!iend(b) /\ MP!ibegin(b) \in 0..n
    BY <2>1, <2>2
  <2>4. MP!Sums[MP!ibegin(b)] \in Int
    BY <2>3, SumsRange
  <2> QED
    BY <1>1, <2>1, <2>3, <2>4
<1>3. CASE kernel = 2
  BY <1>1, <1>3, SecondUpto
<1> QED
  BY <1>2, <1>3

\* What the elements of a block have at the start of a kernel.
LEMMA NothingDealt ==
  ASSUME NEW b, NEW j \in Nat, \A w \in MP!Warps : ichunk[b][w] = 0
  PROVE  ~Dealt(b, j)
<1>1. j \div MP!blockDim \in Nat /\ WarpOf(j) \in MP!Warps
  BY PlaceExists
<1> QED
  BY <1>1 DEF Dealt

LEMMA InitMPInv ==
  ASSUME MP!Init
  PROVE  MPInv
<1>1. /\ n \in Lengths /\ type \in BOOLEAN
      /\ kernel = 1 /\ waiting = MP!Grid(1) /\ running = {}
      /\ warp_pc = [b \in Blockset |-> [w \in MP!Warps |-> "warp"]]
      /\ ichunk = [b \in Blockset |-> [w \in MP!Warps |-> 0]]
      /\ barriers = [b \in Blockset |-> [w \in MP!Warps |-> 0]]
      /\ sum_prev_chunk = [b \in Blockset |-> [w \in MP!Warps |-> 0]]
      /\ shared = [b \in Blockset |-> [w \in MP!Warps |-> -1]]
      /\ shared2 = [b \in Blockset |-> [w \in MP!Warps |-> -1]]
      /\ blockresult = [o \in 0..n-1 |-> -1] /\ blocksum = [b \in Blockset |-> -1]
      /\ totalsum = -1 /\ out = [o \in 0..n-1 |-> -1]
  BY DEF MP!Init, MP!AllBlocks, MP!Unset, Blockset
<1>2. /\ n \in Nat \ {0}
      /\ \A o \in 0..n-1 : BlockOf(o) \in Blockset /\ InBlock(o) \in Nat
  <2>1. MP!nelms_per_block \in Nat \ {0}
    BY ScanConstants
  <2> QED
    BY <1>1, <2>1, BlocksCover
<1>3. MPTypeOK
  BY <1>1 DEF MPTypeOK, WarpLabels
<1>4. Threads
  <2>1. ASSUME NEW b \in MP!Grid(kernel) PROVE \A w \in MP!Warps : WarpOK(b, w)
    <3>1. Upto(b, 0) = 0 /\ b \in Blockset
      BY <1>1, UptoZero
    <3>2. \A w \in MP!Warps : Fresh(b, w)
      BY <1>1, <3>1 DEF Fresh
    <3> QED
      BY <1>1, <3>1, <3>2, FreshOK
  <2>2. \A b \in MP!Grid(kernel) : Over(b)
    BY <1>1 DEF Over
  <2> QED
    BY <2>1, <2>2 DEF Threads, WarpOK
<1>5. Results
  <2>1. \A o \in 0..n-1 : ~Dealt(BlockOf(o), InBlock(o)) /\ blockresult[o] = MP!Unset
    BY <1>1, <1>2, NothingDealt DEF MP!Unset
  <2>2. 0 \in MP!Warps
    BY WarpsAreLanes
  <2>3. \A b \in Blockset : warp_pc[b][0] # "end"
    BY <1>1, <2>2
  <2> QED
    BY <1>1, <2>1, <2>3 DEF Results
<1> QED
  BY <1>3, <1>4, <1>5 DEF MPInv

\* The next kernel finds in the arrays what the one before it has left there.
LEMMA NextKernelInv ==
  ASSUME MPInv, MP!NextKernel
  PROVE  MPInv'
<1>1. MPTypeOK /\ Results /\ n \in Lengths /\ kernel \in {1, 2, 3}
  BY DEF MPInv, MPTypeOK, MP!NextKernel
<1>2. /\ waiting = {} /\ running = {} /\ kernel' = kernel + 1 /\ waiting' = MP!Grid(kernel + 1)
      /\ warp_pc' = [b \in Blockset |-> [w \in MP!Warps |-> IF kernel = 2 THEN "add" ELSE "warp"]]
      /\ ichunk' = [b \in Blockset |-> [w \in MP!Warps |-> 0]]
      /\ barriers' = [b \in Blockset |-> [w \in MP!Warps |-> 0]]
      /\ sum_prev_chunk' = [b \in Blockset |-> [w \in MP!Warps |-> 0]]
      /\ shared' = [b \in Blockset |-> [w \in MP!Warps |-> -1]]
      /\ shared2' = [b \in Blockset |-> [w \in MP!Warps |-> -1]]
      /\ UNCHANGED <<n, type, running, blockresult, blocksum, totalsum, out>>
  BY DEF MP!NextKernel, MP!args, MP!AllBlocks, MP!Unset, Blockset
<1>3. /\ \A b \in MP!Grid(kernel), w \in MP!Warps : warp_pc[b][w] = "end"
      /\ kernel = 1 => \A o \in 0..n-1 : Dealt(BlockOf(o), InBlock(o))
      /\ kernel = 2 => \A b \in Blockset : Dealt(0, b)
  BY <1>1, <1>2, KernelOver
<1>4. /\ n' = n /\ MP!NumBlocks' = MP!NumBlocks /\ Blockset' = Blockset
      /\ MP!Sums' = MP!Sums /\ MP!Grid(kernel)' = MP!Grid(kernel + 1)
  <2>1. MP!NumBlocks' = MP!NumBlocks /\ MP!Sums' = MP!Sums
    BY <1>2 DEF MP!NumBlocks, MP!Sums
  <2> QED
    BY <1>2, <2>1 DEF Blockset, MP!Grid
<1>5. /\ \A b : SumOf(b)' = SumOf(b) /\ SumUpTo(b)' = SumUpTo(b)
      /\ \A o : MP!PrefixSum(o)' = MP!PrefixSum(o)
  BY <1>2, <1>4 DEF SumOf, SumUpTo, MP!PrefixSum
<1>6. /\ n \in Nat \ {0} /\ MP!NumBlocks \in Nat \ {0}
      /\ \A o \in 0..n-1 : BlockOf(o) \in Blockset /\ InBlock(o) \in Nat
  <2>1. MP!nelms_per_block \in Nat \ {0}
    BY ScanConstants
  <2> QED
    BY <1>1, <2>1, BlocksCover
<1>7. 0 \in MP!Warps /\ 0 \in Blockset
  BY <1>6, WarpsAreLanes DEF Blockset
<1>8. MPTypeOK'
  <2>1. warp_pc' \in [Blockset -> [MP!Warps -> WarpLabels']]
    BY <1>1, <1>2 DEF WarpLabels
  <2>2. n' \in Lengths /\ type' \in BOOLEAN /\ kernel' \in 1..4
    BY <1>1, <1>2 DEF MPTypeOK
  <2>3. waiting' \subseteq MP!Grid(kernel)' /\ running' \subseteq MP!Grid(kernel)'
    BY <1>2, <1>4
  <2>4. /\ ichunk' \in [Blockset -> [MP!Warps -> Nat]]
        /\ barriers' \in [Blockset -> [MP!Warps -> Nat]]
        /\ sum_prev_chunk' \in [Blockset -> [MP!Warps -> Int]]
        /\ shared' \in [Blockset -> [MP!Warps -> Int]]
        /\ shared2' \in [Blockset -> [MP!Warps -> Int]]
    BY <1>2
  <2>5. /\ blockresult' \in [0..n-1 -> Int] /\ blocksum' \in [Blockset -> Int]
        /\ totalsum' \in Int /\ out' \in [0..n-1 -> Int]
    BY <1>1, <1>2 DEF MPTypeOK
  <2>6. MP!Warps' = MP!Warps
    BY DEF MP!Warps
  <2> QED
    BY <1>4, <2>1, <2>2, <2>3, <2>4, <2>5, <2>6 DEF MPTypeOK
<1>9. Threads'
  <2>1. \A b \in MP!Grid(kernel)' : Over(b)'
    BY <1>2, <1>4 DEF Over
  <2>2. ASSUME kernel' = 2, NEW b \in MP!Grid(kernel)', NEW w \in MP!Warps
        PROVE  (Counted(b, w) /\ InStep(b, w) /\ Adding(b, w))'
    <3>1. kernel = 1 /\ b = 0
      BY <1>1, <1>2, <1>4, <2>2 DEF MP!Grid
    <3>2. \A v \in MP!Warps : /\ ichunk'[b][v] = 0 /\ barriers'[b][v] = 0
                              /\ sum_prev_chunk'[b][v] = 0 /\ warp_pc'[b][v] = "warp"
      BY <1>2, <1>7, <3>1
    <3>3. Counted(b, w)' /\ InStep(b, w)'
      BY <3>2 DEF Counted, InStep
    <3>4. LastChunk(b)' = -1
      BY <1>7, <3>2 DEF LastChunk
    <3>5. Upto(b, 0)' = 0
      <4>1. MP!nelms_per_block * 0 = 0 /\ MP!Smaller(0, n) = 0
        BY <1>6, ScanConstants DEF MP!Smaller
      <4>2. MP!Sums[0] = 0
        BY <1>1, SumsRange
      <4> QED
        BY <1>4, <2>2, <4>1, <4>2 DEF Upto
    <3>6. Place(0, 0, 0) = 0
      <4>1. 0 \in Nat
        OBVIOUS
      <4> QED
        BY <4>1, PlaceSteps
    <3>7. Adding(b, w)'
      BY <3>2, <3>4, <3>5, <3>6 DEF Adding
    <3> QED
      BY <3>3, <3>7
  <2> QED
    BY <1>1, <1>2, <2>1, <2>2 DEF Threads
<1>10. Results'
  <2>1. ASSUME NEW o \in 0..n-1
        PROVE  blockresult'[o] = MP!PrefixSum(o) - MP!Sums[o - InBlock(o)]
    BY <1>1, <1>2, <1>3 DEF Results
  <2>2. ASSUME NEW b \in Blockset
        PROVE  /\ kernel' = 2 => /\ blocksum'[b] = SumOf(b)
                                 /\ ~Dealt(0, b)'
               /\ kernel' \in {3, 4} => blocksum'[b] = SumUpTo(b)
    <3>1. CASE kernel = 1
      <4>1. warp_pc[b][0] = "end"
        BY <1>3, <1>7, <3>1 DEF MP!Grid, Blockset
      <4>2. blocksum[b] = SumOf(b)
        BY <1>1, <3>1, <4>1 DEF Results
      <4>3. ~Dealt(0, b)'
        <5>1. b \in Nat
          BY DEF Blockset
        <5>2. b \div MP!blockDim \in Nat /\ WarpOf(b) \in MP!Warps
          BY <5>1, PlaceExists
        <5>3. ichunk'[0][WarpOf(b)] = 0
          BY <1>2, <1>7, <5>2
        <5> QED
          BY <5>2, <5>3 DEF Dealt
      <4> QED
        BY <1>2, <3>1, <4>2, <4>3
    <3>2. CASE kernel = 2
      BY <1>1, <1>2, <1>3, <3>2 DEF Results
    <3>3. CASE kernel = 3
      BY <1>1, <1>2, <3>3 DEF Results
    <3> QED
      BY <1>1, <3>1, <3>2, <3>3
  <2>3. ASSUME kernel' > 2 \/ (kernel' = 2 /\ warp_pc'[0][0] = "end") PROVE totalsum' = MP!Sums[n]
    <3>1. CASE kernel = 1
      BY <1>2, <1>7, <2>3, <3>1
    <3>2. CASE kernel = 2
      <4>1. warp_pc[0][0] = "end"
        BY <1>3, <1>7, <3>2 DEF MP!Grid
      <4> QED
        BY <1>1, <1>2, <3>2, <4>1 DEF Results
    <3>3. CASE kernel = 3
      BY <1>1, <1>2, <3>3 DEF Results
    <3> QED
      BY <1>1, <3>1, <3>2, <3>3
  <2>4. ASSUME NEW o \in 0..n-1,
               kernel' = 4 \/ (kernel' = 3 /\ warp_pc'[BlockOf(o)][WarpOf(InBlock(o))] = "end")
        PROVE  out'[o] = MP!PrefixSum(o)
    <3>1. BlockOf(o) \in Blockset /\ WarpOf(InBlock(o)) \in MP!Warps
      BY <1>6, PlaceExists
    <3>2. kernel = 3
      BY <1>1, <1>2, <2>4, <3>1
    <3>3. warp_pc[BlockOf(o)][WarpOf(InBlock(o))] = "end"
      BY <1>3, <3>1, <3>2 DEF MP!Grid, Blockset
    <3> QED
      BY <1>1, <1>2, <3>2, <3>3 DEF Results
  <2>5. kernel' \in {2, 3, 4}
    BY <1>1, <1>2
  <2> QED
    BY <1>4, <1>5, <2>1, <2>2, <2>3, <2>4, <2>5 DEF Results
<1> QED
  BY <1>8, <1>9, <1>10 DEF MPInv

\* Steps that change which blocks run, and nothing in them.
LEMMA BlocksMove ==
  ASSUME MPInv,
         UNCHANGED <<n, type, kernel, warp_pc, ichunk, barriers, sum_prev_chunk, shared, shared2,
                     blockresult, blocksum, totalsum, out>>,
         waiting' \subseteq MP!Grid(kernel), running' \subseteq MP!Grid(kernel),
         \A b \in MP!Grid(kernel) : b \notin waiting' \cup running' =>
            b \notin waiting \cup running \/ \A w \in MP!Warps : warp_pc[b][w] = "end"
  PROVE  MPInv'
<1>1. MPTypeOK /\ Threads /\ Results /\ n \in Lengths
  BY DEF MPInv, MPTypeOK
<1>2. UNCHANGED inputs
  BY DEF inputs
<1>3. /\ Blockset' = Blockset /\ MP!Sums' = MP!Sums /\ MP!Grid(kernel)' = MP!Grid(kernel)
      /\ WarpLabels' = WarpLabels
      /\ \A b : SumOf(b)' = SumOf(b) /\ SumUpTo(b)' = SumUpTo(b)
      /\ \A o : MP!PrefixSum(o)' = MP!PrefixSum(o)
  BY <1>2, InputsKept
<1>4. MPTypeOK'
  BY <1>1, <1>3 DEF MPTypeOK, MP!Warps
<1>5. Threads'
  <2>1. ASSUME NEW b \in MP!Grid(kernel) PROVE Over(b)'
    BY <1>1 DEF Threads, Over
  <2>2. ASSUME NEW b \in MP!Grid(kernel), NEW w \in MP!Warps, kernel \in {1, 2}
        PROVE  WarpOK(b, w)'
    <3>1. WarpOK(b, w) /\ 0 \in MP!Warps
      BY <1>1, <2>2, WarpsAreLanes DEF Threads, WarpOK
    <3> QED
      BY <1>2, <3>1, RestKept
  <2> QED
    BY <1>3, <2>1, <2>2 DEF Threads, WarpOK
<1>6. Results'
  BY <1>1, <1>3 DEF Results, Dealt
<1> QED
  BY <1>4, <1>5, <1>6 DEF MPInv

LEMMA MPNextInv == MPInv /\ [MP!Next]_(MP!vars) => MPInv'
<1> SUFFICES ASSUME MPInv, [MP!Next]_(MP!vars) PROVE MPInv'
  OBVIOUS
<1>1. /\ waiting \subseteq MP!Grid(kernel) /\ running \subseteq MP!Grid(kernel)
  BY DEF MPInv, MPTypeOK
<1>2. CASE MP!NextKernel
  BY <1>2, NextKernelInv
<1>3. ASSUME NEW b \in waiting, MP!Launch(b) PROVE MPInv'
  <2>1. /\ waiting' = waiting \ {b} /\ running' = running \cup {b}
        /\ UNCHANGED <<n, type, kernel, warp_pc, ichunk, barriers, sum_prev_chunk, shared, shared2,
                       blockresult, blocksum, totalsum, out>>
    BY <1>3 DEF MP!Launch, MP!args, MP!locals
  <2>2. waiting' \cup running' = waiting \cup running
    BY <2>1
  <2> QED
    BY <1>1, <2>1, <2>2, BlocksMove
<1>4. ASSUME NEW b \in running, MP!BlockEnd(b) PROVE MPInv'
  <2>1. /\ \A w \in MP!Warps : warp_pc[b][w] = "end"
        /\ waiting' = waiting /\ running' = running \ {b}
        /\ UNCHANGED <<n, type, kernel, warp_pc, ichunk, barriers, sum_prev_chunk, shared, shared2,
                       blockresult, blocksum, totalsum, out>>
    BY <1>4 DEF MP!BlockEnd, MP!args, MP!locals
  <2> QED
    BY <1>1, <2>1, BlocksMove
<1>5. ASSUME NEW b \in running, NEW w \in MP!Warps,
             \/ MP!WarpSum(b, w) \/ MP!BlockScan(b, w) \/ MP!ChunkResult(b, w)
             \/ MP!BlockSum(b, w) \/ MP!AddPrevious(b, w)
      PROVE  MPInv'
  BY <1>5, WarpSumInv, BlockScanInv, ChunkResultInv, BlockSumInv, AddPreviousInv
<1>6. CASE UNCHANGED MP!vars
  BY <1>1, <1>6, BlocksMove DEF MP!vars, MP!args, MP!locals
<1> QED
  BY <1>2, <1>3, <1>4, <1>5, <1>6 DEF MP!Next

LEMMA MPInvScan == MPInv => ScanTrue
<1> SUFFICES ASSUME MPInv PROVE ScanTrue
  OBVIOUS
<1>1. MPTypeOK /\ Results
  BY DEF MPInv
<1>2. ASSUME kernel = 4
      PROVE  (\A o \in 0..n-1 : out[o] = MP!PrefixSum(o)) /\ totalsum = MP!Sums[n]
  BY <1>1, <1>2 DEF Results
<1>3. ASSUME kernel = 1, NEW o \in 0..n-1, blockresult[o] # MP!Unset
      PROVE  blockresult[o] = MP!PrefixSum(o) - MP!Sums[o - (o % MP!nelms_per_block)]
  BY <1>1, <1>3 DEF Results, InBlock
<1> QED
  BY <1>2, <1>3 DEF ScanTrue, MP!ScanTrue

\* The scan in three kernels gives what the sequential loop gives, and what a block has stored
\* is right at any time, for every width of a warp, number of warps, chunks and blocks that run
\* at the same time, and for every length and input.
THEOREM ScanAlwaysTrue == ScanSpec => []ScanTrue
<1>1. ScanInit => MPInv
  BY InitMPInv DEF ScanInit
<1>2. MPInv /\ [ScanNext]_<<multipass, vars, mp_vars>> => MPInv'
  <2>1. UNCHANGED mp_vars => UNCHANGED MP!vars
    BY DEF mp_vars, MP!vars, MP!args, MP!locals
  <2>2. [ScanNext]_<<multipass, vars, mp_vars>> => [MP!Next]_(MP!vars)
    BY <2>1 DEF ScanNext
  <2> QED
    BY <2>2, MPNextInv
<1> QED
  BY <1>1, <1>2, MPInvScan, PTL DEF ScanSpec
============================================================================
