----------------------------- MODULE NFilesIter -----------------------------
(***************************************************************************)
(* Src/Base/AMReX_NFiles.cpp: the ranks of a job write into a few files,   *)
(* or read a file, in turns that they arrange by messages.  With static    *)
(* sets the turns are fixed; with dynamic sets a decider makes the first   *)
(* rank that has finished the coordinator, which hands each file that      *)
(* becomes available to a rank that waits.  VisMF::FindOffsets then says   *)
(* in the header where the data of each rank is.  A send is buffered by    *)
(* MPI, the data of a rank is its number.                                  *)
(***************************************************************************)
EXTENDS Integers, Sequences, SequencesExt, Selection

CONSTANTS
  NProcs,         \* nProcs
  OutFilesInputs, \* the values of noutfiles
  DeciderInputs,  \* the arguments of SetDynamic
  DeciderIndices, \* the values of currentDeciderIndex left by earlier iterators
  RanksInputs     \* ranksToWrite of SetSparseFPP, readRanks of the reading constructor

Ranks == 0..NProcs-1

ASSUME NFilesAssumption ==
  /\ NProcs \in Nat \ {0} /\ OutFilesInputs \subseteq Ranks \cup {NProcs}
  /\ DeciderInputs \subseteq Int /\ DeciderIndices \subseteq Int
  /\ \A s \in RanksInputs : s \in Seq(Ranks) /\ s # <<>> /\ IsInjective(s)

VARIABLES
  mode,                 \* "static", "dynamic", "sparse" or "read"
  nOutFiles, groupSets,
  ranks,                \* sparseWritingRanks or readRanks
  deciderProc,
  pc,                   \* per rank
  fileNumber, coordinatorProc,
  remainingWriters, procsToWrite, availableFileNumbers, \* on the coordinator
  fileNumbersWriteOrder,                                \* on the coordinator
  unreadMessages,       \* per rank and tag: messages CleanUpMessages will receive
  msgs,                 \* external: messages sent and not received
  files                 \* external: the ranks whose data is in each file

config == <<mode, nOutFiles, groupSets, ranks, deciderProc>>
coord  == <<remainingWriters, procsToWrite, availableFileNumbers, fileNumbersWriteOrder>>
local  == <<pc, fileNumber, coordinatorProc, unreadMessages>>
vars   == <<config, coord, local, msgs, files>>

Smaller(a, b) == IF a <= b THEN a ELSE b
ActualNFiles(n) == IF n < 1 THEN 1 ELSE Smaller(NProcs, n)
LengthOfSet(n) == (NProcs + (n - 1)) \div n

WhichSetPosition(p, n, group) == IF group THEN p \div n ELSE p % LengthOfSet(n)
FileNumber(n, p, group) == IF group THEN p % n ELSE p \div LengthOfSet(n)

Position(p) == WhichSetPosition(p, nOutFiles, groupSets)
SetZero(n, group) == {p \in Ranks : WhichSetPosition(p, n, group) = 0}
setZeroProcs == SetZero(nOutFiles, groupSets)

RankSeq == [i \in 1..NProcs |-> i - 1]

\* SetDynamic: the decider cannot have set position zero.
Decider(n, group, index, deciderproc) ==
  LET availableDeciders == Selected(RankSeq, Ranks \ SetZero(n, group))
      i == IF index >= Len(availableDeciders) \/ index < 0 THEN 0 ELSE index
  IN IF deciderproc \in Ranks \ SetZero(n, group) THEN deciderproc
     ELSE availableDeciders[i + 1]

IOProcessor == 0

\* The constructors, SetDynamic and SetSparseFPP.
StaticOrder(n, group) ==
  [f \in Ranks |-> Selected(RankSeq, {p \in Ranks : FileNumber(n, p, group) = f})]

InitWriting ==
  /\ ranks = <<>> /\ groupSets \in BOOLEAN
  /\ \E noutfiles \in OutFilesInputs : nOutFiles = ActualNFiles(noutfiles)
  /\ \/ /\ mode = "static" /\ deciderProc = -1
        /\ fileNumbersWriteOrder = StaticOrder(nOutFiles, groupSets)
     \/ /\ mode = "dynamic" /\ nOutFiles < NProcs
        /\ \E index \in DeciderIndices, d \in DeciderInputs :
             deciderProc = Decider(nOutFiles, groupSets, index, d)
        /\ fileNumbersWriteOrder = [f \in Ranks |-> <<>>]
  /\ fileNumber = [r \in Ranks |-> FileNumber(nOutFiles, r, groupSets)]

InitRanks ==
  /\ ranks \in RanksInputs /\ groupSets = FALSE /\ deciderProc = -1
  /\ mode \in {"sparse", "read"}
  /\ nOutFiles = Len(ranks)
  /\ fileNumber = [r \in Ranks |-> IF mode = "sparse" THEN r ELSE 0]
  /\ fileNumbersWriteOrder =
       [i \in Ranks |-> IF mode = "sparse" /\ i < Len(ranks) THEN <<ranks[i + 1]>> ELSE <<>>]

Init ==
  /\ InitWriting \/ InitRanks
  /\ pc = [r \in Ranks |-> "ready"]
  /\ coordinatorProc = [r \in Ranks |-> IOProcessor]
  /\ remainingWriters = NProcs /\ procsToWrite = [f \in Ranks |-> <<>>]
  /\ availableFileNumbers = {}
  /\ unreadMessages = [r \in Ranks |-> [tag \in {"decider", "done"} |-> 0]]
  /\ msgs = {} /\ files = [f \in Ranks |-> <<>>]

----------------------------------------------------------------------------

Message(tag, src, dst, val) == [tag |-> tag, src |-> src, dst |-> dst, val |-> val]

Goto(r, l) == pc' = [pc EXCEPT ![r] = l]

\* fileStream.open, truncating the file or to append to it.
Truncate(f) == files' = [files EXCEPT ![f] = <<>>]

\* The data of r goes into its file, which is then closed.
WriteData(r) == files' = [files EXCEPT ![fileNumber[r]] = Append(@, r)]

(* Static sets.                                                            *)

WaitForPID(r) == IF groupSets THEN r - nOutFiles ELSE r - 1
WakeUpPID(r) == IF groupSets THEN r + nOutFiles ELSE r + 1

StaticReady(r) ==
  /\ mode = "static" /\ pc[r] = "ready"
  /\ \/ Position(r) = 0 /\ Truncate(fileNumber[r]) /\ UNCHANGED msgs
     \/ /\ Position(r) > 0 /\ UNCHANGED files
        /\ \E m \in msgs : /\ m.dst = r /\ m.tag = "stWrite" /\ m.src = WaitForPID(r)
                           /\ msgs' = msgs \ {m}
  /\ Goto(r, "open")
  /\ UNCHANGED <<config, coord, fileNumber, coordinatorProc, unreadMessages>>

\* The last rank of a set does not wake up the first one of the next set.
WakesUp(r) == WakeUpPID(r) < NProcs /\ Position(WakeUpPID(r)) > Position(r)

StaticNext(r) ==
  /\ mode = "static" /\ pc[r] = "open"
  /\ WriteData(r)
  /\ msgs' = IF WakesUp(r) THEN msgs \cup {Message("stWrite", r, WakeUpPID(r), 0)} ELSE msgs
  /\ Goto(r, "left")
  /\ UNCHANGED <<config, coord, fileNumber, coordinatorProc, unreadMessages>>

(* A file for each of the ranks that have data.                            *)

SparseReady(r) ==
  /\ mode = "sparse" /\ pc[r] = "ready"
  /\ IF Contains(ranks, r) THEN Truncate(fileNumber[r]) /\ Goto(r, "open")
                           ELSE Goto(r, "left") /\ UNCHANGED files
  /\ UNCHANGED <<config, coord, fileNumber, coordinatorProc, unreadMessages, msgs>>

SparseNext(r) ==
  /\ mode = "sparse" /\ pc[r] = "open"
  /\ WriteData(r) /\ Goto(r, "left")
  /\ UNCHANGED <<config, coord, fileNumber, coordinatorProc, unreadMessages, msgs>>

(* A chain of ranks that read one file.                                    *)

Predecessor(r) == {ranks[i] : i \in {k \in 1..Len(ranks)-1 : ranks[k+1] = r}}
Successor(r) == {ranks[i] : i \in {k \in 2..Len(ranks) : ranks[k-1] = r}}

ReadyToRead(r) ==
  /\ mode = "read" /\ pc[r] = "ready"
  /\ IF ~Contains(ranks, r) THEN Goto(r, "left") /\ UNCHANGED msgs
     ELSE /\ Goto(r, "open")
          /\ \/ Predecessor(r) = {} /\ UNCHANGED msgs
             \/ \E m \in msgs : /\ m.dst = r /\ m.tag = "stRead" /\ m.src \in Predecessor(r)
                                /\ msgs' = msgs \ {m}
  /\ UNCHANGED <<config, coord, fileNumber, coordinatorProc, unreadMessages, files>>

ReadNext(r) ==
  /\ mode = "read" /\ pc[r] = "open"
  /\ msgs' = msgs \cup {Message("stRead", r, q, 0) : q \in Successor(r)}
  /\ Goto(r, "left")
  /\ UNCHANGED <<config, coord, fileNumber, coordinatorProc, unreadMessages, files>>

----------------------------------------------------------------------------
(* Dynamic sets.                                                           *)

SetZeroReady(r) ==
  /\ mode = "dynamic" /\ pc[r] = "ready" /\ Position(r) = 0
  /\ Truncate(fileNumber[r])
  /\ Goto(r, "open")
  /\ UNCHANGED <<config, coord, fileNumber, coordinatorProc, unreadMessages, msgs>>

\* The first message the decider receives names the coordinator; the others stay unread.
Decide(r) ==
  /\ mode = "dynamic" /\ pc[r] = "ready" /\ r = deciderProc
  /\ \E m \in msgs :
       /\ m.dst = r /\ m.tag = "decider"
       /\ coordinatorProc' = [coordinatorProc EXCEPT ![r] = m.val]
       /\ msgs' = (msgs \ {m}) \cup {Message("coordinator", r, q, m.val) : q \in setZeroProcs}
  /\ unreadMessages' = [unreadMessages EXCEPT ![r]["decider"] = Cardinality(setZeroProcs) - 1]
  /\ Goto(r, "wait_write")
  /\ UNCHANGED <<config, coord, fileNumber, files>>

Waiting(r) == pc[r] = "wait_write" \/ (pc[r] = "ready" /\ r # deciderProc /\ Position(r) # 0)

\* The signal to write, and to which file.
ReceiveFile(r) ==
  /\ mode = "dynamic" /\ Waiting(r)
  /\ \E m \in msgs :
       /\ m.dst = r /\ m.tag = "write"
       /\ fileNumber' = [fileNumber EXCEPT ![r] = m.val]
       /\ coordinatorProc' = [coordinatorProc EXCEPT ![r] = m.src]
       /\ msgs' = msgs \ {m}
  /\ Goto(r, "open")
  /\ UNCHANGED <<config, coord, unreadMessages, files>>

\* operator++: the file is written and closed, and somebody is told.
DynamicNext(r) ==
  /\ mode = "dynamic" /\ pc[r] = "open"
  /\ WriteData(r)
  /\ IF Position(r) = 0
     THEN /\ msgs' = msgs \cup {Message("decider", r, deciderProc, r)}
          /\ Goto(r, "wait_coordinator")
     ELSE /\ msgs' = msgs \cup {Message("done", r, coordinatorProc[r], fileNumber[r])}
          /\ Goto(r, "left")
  /\ UNCHANGED <<config, coord, fileNumber, coordinatorProc, unreadMessages>>

\* The coordinator starts with its own file: the others of set zero may still be open.
FirstAvailable_AllSetZero(r) == {fileNumber[p] : p \in setZeroProcs}
FirstAvailable(r) == {fileNumber[r]}

BecomeCoordinator(r) ==
  /\ fileNumbersWriteOrder' =
       [f \in Ranks |-> fileNumbersWriteOrder[f] \o
          Selected(RankSeq, {p \in setZeroProcs : fileNumber[p] = f})]
  /\ remainingWriters' = remainingWriters - Cardinality(setZeroProcs)
  /\ procsToWrite' =
       [f \in Ranks |-> Selected(RankSeq,
          {p \in Ranks \ setZeroProcs : FileNumber(nOutFiles, p, groupSets) = f})]
  /\ availableFileNumbers' = FirstAvailable(r)

LearnCoordinator(r) ==
  /\ mode = "dynamic" /\ pc[r] = "wait_coordinator"
  /\ \E m \in msgs :
       /\ m.dst = r /\ m.tag = "coordinator"
       /\ coordinatorProc' = [coordinatorProc EXCEPT ![r] = m.val]
       /\ IF m.val = r
          THEN BecomeCoordinator(r) /\ Goto(r, "assign") /\ msgs' = msgs \ {m}
          ELSE /\ msgs' = (msgs \ {m}) \cup {Message("done", r, m.val, fileNumber[r])}
               /\ Goto(r, "left")
               /\ UNCHANGED coord
  /\ UNCHANGED <<config, fileNumber, unreadMessages, files>>

\* The queue to serve for file f: its own, or the next one that is not empty.
NextQueue_OwnOnly(f) == {k \in {f} : procsToWrite[k] # <<>>}
NextQueue(f) ==
  LET at(n)    == (f + n) % nOutFiles
      nonempty == {n \in 0..nOutFiles-1 : procsToWrite[at(n)] # <<>>}
  IN {at(n) : n \in {k \in nonempty : \A o \in nonempty : k <= o}}

\* The smallest available file goes to the next rank that waits.
Assign(r) ==
  /\ pc[r] = "assign" /\ remainingWriters > 0
  /\ \E f \in availableFileNumbers :
       /\ \A g \in availableFileNumbers : f <= g
       /\ availableFileNumbers' = availableFileNumbers \ {f}
       /\ IF NextQueue(f) = {}
          THEN /\ remainingWriters' = remainingWriters - 1
               /\ UNCHANGED <<procsToWrite, fileNumbersWriteOrder, msgs, pc>>
          ELSE \E k \in NextQueue(f) :
                 LET p == Head(procsToWrite[k])
                 IN /\ procsToWrite' = [procsToWrite EXCEPT ![k] = Tail(@)]
                    /\ fileNumbersWriteOrder' =
                         [fileNumbersWriteOrder EXCEPT ![f] = Append(@, p)]
                    /\ msgs' = msgs \cup {Message("write", r, p, f)}
                    /\ Goto(r, "wait_done")
                    /\ UNCHANGED remainingWriters
  /\ UNCHANGED <<config, fileNumber, coordinatorProc, unreadMessages, files>>

WaitDone(r) ==
  /\ pc[r] = "wait_done"
  /\ \E m \in msgs :
       /\ m.dst = r /\ m.tag = "done"
       /\ availableFileNumbers' = availableFileNumbers \cup {m.val}
       /\ msgs' = msgs \ {m}
  /\ remainingWriters' = remainingWriters - 1
  /\ Goto(r, "assign")
  /\ UNCHANGED <<config, procsToWrite, fileNumbersWriteOrder, fileNumber, coordinatorProc,
                 unreadMessages, files>>

\* What the coordinator leaves unread.
DoneUnread == Cardinality(setZeroProcs) - 1

AllAssigned(r) ==
  /\ pc[r] = "assign" /\ remainingWriters = 0
  /\ unreadMessages' = [unreadMessages EXCEPT ![r]["done"] = DoneUnread]
  /\ Goto(r, "left")
  /\ UNCHANGED <<config, coord, fileNumber, coordinatorProc, msgs, files>>

----------------------------------------------------------------------------
(* The destructor.                                                         *)

CleanUpMessages(r) ==
  /\ pc[r] = "left"
  /\ \E tag \in DOMAIN unreadMessages[r] :
       /\ unreadMessages[r][tag] > 0
       /\ \E m \in msgs : m.dst = r /\ m.tag = tag /\ msgs' = msgs \ {m}
       /\ unreadMessages' = [unreadMessages EXCEPT ![r][tag] = @ - 1]
  /\ UNCHANGED <<config, coord, pc, fileNumber, coordinatorProc, files>>

Destroy(r) ==
  /\ pc[r] = "left" /\ \A tag \in DOMAIN unreadMessages[r] : unreadMessages[r][tag] = 0
  /\ Goto(r, "gone")
  /\ UNCHANGED <<config, coord, fileNumber, coordinatorProc, unreadMessages, msgs, files>>

Rank(r) ==
  \/ StaticReady(r) \/ StaticNext(r) \/ SparseReady(r) \/ SparseNext(r)
  \/ ReadyToRead(r) \/ ReadNext(r)
  \/ SetZeroReady(r) \/ Decide(r) \/ ReceiveFile(r) \/ DynamicNext(r)
  \/ LearnCoordinator(r) \/ Assign(r) \/ WaitDone(r) \/ AllAssigned(r)
  \/ CleanUpMessages(r) \/ Destroy(r)

Next == \E r \in Ranks : Rank(r)

\* Every rank goes on, and a message that is waited for arrives.
Spec == Init /\ [][Next]_vars /\ \A r \in Ranks : WF_vars(Rank(r))

----------------------------------------------------------------------------
(* VisMF::FindOffsets on the coordinator.                                  *)

FileNumbersWritten ==
  [p \in Ranks |-> CHOOSE f \in Ranks : Contains(fileNumbersWriteOrder[f], p)]

fileNumbers_Static == [p \in Ranks |-> FileNumber(ActualNFiles(nOutFiles), p, groupSets)]
fileNumbers ==
  CASE mode = "dynamic" -> FileNumbersWritten
    [] mode = "sparse"  -> [p \in Ranks |-> p]
    [] mode = "static"  -> [p \in Ranks |-> FileNumber(ActualNFiles(nOutFiles), p, groupSets)]

\* The ranks whose data is in file f, in the order of their offsets.
FindOffsets(f) ==
  Selected(FlattenSeq([i \in 1..NProcs |-> fileNumbersWriteOrder[i - 1]]),
           {p \in Ranks : fileNumbers[p] = f})

----------------------------------------------------------------------------
(* Properties.                                                             *)

Left(r) == pc[r] \in {"left", "gone"}

\* At any time one rank has a file open at most.
OneWriter ==
  \A r, q \in Ranks :
    (r # q /\ pc[r] = "open" /\ pc[q] = "open") => fileNumber[r] # fileNumber[q]

\* When all ranks have left the loop they agree on CoordinatorProc(), the root of the
\* collective operations that follow, and each file holds the data of the ranks, in the
\* order, that the header will say; no data is lost, none is written twice.
HeaderTrue ==
  (mode # "read" /\ \A r \in Ranks : Left(r)) =>
    /\ \A r, q \in Ranks : coordinatorProc[r] = coordinatorProc[q]
    /\ \A f \in Ranks : files[f] = FindOffsets(f)
    /\ \A r \in Ranks : mode = "sparse" \/ \E f \in Ranks : Contains(files[f], r)

Ended == (\A r \in Ranks : pc[r] = "gone") /\ msgs = {}

\* Every rank gets its turn, leaves the loop and cleans up, and no message outlives the
\* iterators.
AllEnd == <>[]Ended
=============================================================================
