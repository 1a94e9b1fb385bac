----------------------------- MODULE AsyncWrite -----------------------------
(***************************************************************************)
(* VisMF::AsyncWrite (Src/Base/AMReX_VisMF.cpp) on the ranks of a job:     *)
(* several ranks share a file, their background threads (BackgroundThread, *)
(* here a queue served in order) take turns through the barriers of        *)
(* AsyncOut::Wait and AsyncOut::Notify (Src/Base/AMReX_AsyncOut.cpp), and  *)
(* the I/O rank predicts in the header where each FAB will be.  A FAB is   *)
(* its number of bytes; a write has a directory of its own, created empty. *)
(***************************************************************************)
EXTENDS Integers, Sequences, FiniteSets, SequencesExt

CONSTANTS
  NProcs,      \* ParallelDescriptor::NProcs
  NOutFiles,   \* s_noutfiles, already limited to NProcs
  Layouts,     \* the distributions of FABs: for each rank, the sizes of its FABs
  NWrites,     \* bound: calls of AsyncWrite
  MinMax       \* a word that holds minima and maxima of a FAB (its value is arbitrary)

Ranks  == 0..NProcs-1
Writes == 1..NWrites
io_proc == NProcs - 1

WriteAssumption ==
  /\ NProcs \in Nat \ {0} /\ NOutFiles \in 1..NProcs /\ NWrites \in Nat /\ MinMax \in Nat
  /\ Layouts \subseteq [Ranks -> Seq(Nat \ {0})]

\* GetWriteInfo: a rank's file, its turn in the file, and the number of turns.
GetWriteInfo(rank) ==
  LET nmaxspots == (NProcs + (NOutFiles - 1)) \div NOutFiles
      nfull     == NOutFiles + NProcs - nmaxspots * NOutFiles
      tmpproc   == rank - nfull * nmaxspots
  IN IF rank < nfull * nmaxspots
     THEN [ifile |-> rank \div nmaxspots, ispot |-> rank % nmaxspots, nspots |-> nmaxspots]
     ELSE [ifile |-> nfull + tmpproc \div (nmaxspots - 1), ispot |-> tmpproc % (nmaxspots - 1),
           nspots |-> nmaxspots - 1]

s_info == [r \in Ranks |-> GetWriteInfo(r)]

Files == 0..NOutFiles-1

\* The ranks of s_comm.
s_comm == [r \in Ranks |-> {q \in Ranks : s_info[q].ifile = s_info[r].ifile}]

VARIABLES
  layout,    \* per write: the distribution of its FABs
  called,    \* per rank: calls of AsyncWrite, each of which submits a job to its thread
  job,       \* per rank: jobs its thread has begun
  pc,        \* per rank: where the thread is in the job
  nwritten,  \* per rank: FABs it has written in the job
  posted,    \* per rank: Abarriers posted on s_comm so far
  files,     \* per write and file: the FABs in it
  header     \* per write: what WriteHeaderDoit says of each FAB, or nothing

main   == <<layout, called>>
thread == <<job, pc, nwritten, posted, files, header>>
vars   == <<main, thread>>

Init ==
  /\ layout \in [Writes -> Layouts]
  /\ called = [r \in Ranks |-> 0]
  /\ job = [r \in Ranks |-> 0] /\ pc = [r \in Ranks |-> "idle"]
  /\ nwritten = [r \in Ranks |-> 0] /\ posted = [r \in Ranks |-> 0]
  /\ files = [w \in Writes |-> [n \in Files |-> <<>>]]
  /\ header = [w \in Writes |-> <<>>]

----------------------------------------------------------------------------
(* The header, from the numbers gathered on io_proc.                       *)

Fabs(w) == UNION {{r} \X DOMAIN layout[w][r] : r \in Ranks}

\* Bytes of the first n of the sizes s.
Bytes(s, n) == LET sum[k \in 0..Len(s)] == IF k = 0 THEN 0 ELSE sum[k-1] + s[k] IN sum[n]

\* A rank sends its total, then for each FAB the bytes before it and its extrema.
localdata(w, r) ==
  LET s == layout[w][r]
  IN <<Bytes(s, Len(s))>> \o FlattenSeq([j \in 1..Len(s) |-> <<Bytes(s, j - 1), MinMax>>])

globaldata(w) == FlattenSeq([i \in 1..NProcs |-> localdata(w, i - 1)])

\* The words that the loop over all FABs has consumed when it comes to the FABs of rank r:
\* one for each earlier rank that has FABs, and two for each of their FABs.
Consumed(w, r) ==
  LET earlier == {q \in Ranks : q < r /\ layout[w][q] # <<>>}
  IN Cardinality(earlier) + 2 * Cardinality({x \in Fabs(w) : x[1] < r})

\* -1 unless the loop comes to the rank.
nbytes_on_rank(w, r) ==
  IF layout[w][r] = <<>> THEN -1 ELSE globaldata(w)[Consumed(w, r) + 1]

nbytes(w, r, j) == globaldata(w)[Consumed(w, r) + 2 * j]

offset_NotReset(w) ==
  LET at[r \in Ranks] == IF r = 0 THEN 0 ELSE at[r-1] + nbytes_on_rank(w, r-1)
  IN at

offset(w) ==
  LET at[r \in Ranks] ==
        IF s_info[r].ispot = 0 THEN 0 ELSE at[r-1] + nbytes_on_rank(w, r-1)
  IN at

Header(w) ==
  [x \in Fabs(w) |-> [m_name |-> s_info[x[1]].ifile,
                      m_head |-> nbytes(w, x[1], x[2]) + offset(w)[x[1]]]]

----------------------------------------------------------------------------
(* AsyncWrite on the main thread of a rank.                                *)

\* The rank sends its numbers to io_proc (MPI_Gatherv), copies its FABs and submits the job;
\* io_proc waits for the numbers of all ranks.
GatherComplete(r) == r = io_proc => \A q \in Ranks \ {r} : called[q] > called[r]

Call(r) ==
  /\ called[r] < NWrites /\ GatherComplete(r)
  /\ called' = [called EXCEPT ![r] = @ + 1]
  /\ UNCHANGED <<layout, thread>>

----------------------------------------------------------------------------
(* The job, on the background thread of a rank.                            *)

\* Wait posts a barrier for each earlier turn, Notify one for each later turn; each waits
\* for those it posted.  The k-th barriers of the ranks of s_comm match.
WaitBarriers(r) == s_info[r].ispot
NotifyBarriers_All(r) == s_info[r].nspots - 1
NotifyBarriers(r) == s_info[r].nspots - 1 - s_info[r].ispot

Post(r, n) == posted' = [posted EXCEPT ![r] = @ + n]

Completed(r) == \A q \in s_comm[r] : posted[q] >= posted[r]

MyTurn_Always(r) == TRUE
MyTurn(r) == WaitBarriers(r) > 0 => Completed(r)

Notified(r) == NotifyBarriers(r) > 0 => Completed(r)

HasMore(r) == nwritten[r] < Len(layout[job[r]][r])

\* The header on io_proc, then Wait.
BeginJob(r) ==
  /\ pc[r] = "idle" /\ job[r] < called[r]
  /\ job' = [job EXCEPT ![r] = @ + 1]
  /\ header' = IF r = io_proc THEN [header EXCEPT ![job'[r]] = Header(job'[r])] ELSE header
  /\ Post(r, WaitBarriers(r))
  /\ pc' = [pc EXCEPT ![r] = "wait"]
  /\ UNCHANGED <<main, nwritten, files>>

\* My turn: the first of the file truncates it; a rank without FABs does not open it.
Open(r) ==
  /\ pc[r] = "wait" /\ MyTurn(r)
  /\ pc' = [pc EXCEPT ![r] = "write"]
  /\ nwritten' = [nwritten EXCEPT ![r] = 0]
  /\ LET info == s_info[r]
     IN files' = IF info.ispot = 0 /\ layout[job[r]][r] # <<>>
                 THEN [files EXCEPT ![job[r]][info.ifile] = <<>>] ELSE files
  /\ UNCHANGED <<main, job, posted, header>>

WriteFab(r) ==
  /\ pc[r] = "write" /\ HasMore(r)
  /\ nwritten' = [nwritten EXCEPT ![r] = @ + 1]
  /\ files' = [files EXCEPT ![job[r]][s_info[r].ifile] = Append(@, <<r, nwritten'[r]>>)]
  /\ UNCHANGED <<main, job, pc, posted, header>>

Notify(r) ==
  /\ pc[r] = "write" /\ ~HasMore(r)
  /\ Post(r, NotifyBarriers(r))
  /\ pc' = [pc EXCEPT ![r] = "notify"]
  /\ UNCHANGED <<main, job, nwritten, files, header>>

EndJob(r) ==
  /\ pc[r] = "notify" /\ Notified(r)
  /\ pc' = [pc EXCEPT ![r] = "idle"]
  /\ UNCHANGED <<main, job, nwritten, posted, files, header>>

----------------------------------------------------------------------------

Thread(r) == BeginJob(r) \/ Open(r) \/ WriteFab(r) \/ Notify(r) \/ EndJob(r)

Next == \E r \in Ranks : Call(r) \/ Thread(r)

\* Threads run; a rank need not call AsyncWrite.
Fairness == \A r \in Ranks : WF_vars(Thread(r))

Spec == Init /\ [][Next]_vars /\ Fairness

----------------------------------------------------------------------------
(* Properties.                                                             *)

\* "Wait for my turn to write file": one rank at a time appends to a file, and it finds the
\* FABs of all the ranks that come before it in the file, and of no other.
InTurn ==
  \A r \in Ranks :
    pc[r] = "write" =>
      LET info == s_info[r]
          mine == 1..nwritten[r]
      IN ToSet(files[job[r]][info.ifile]) =
           {x \in Fabs(job[r]) : x[1] \in s_comm[r] /\ x[1] < r} \cup {<<r, j>> : j \in mine}

\* "Offset to start of FAB in file": the header, written before the files, says where each
\* FAB is.
HeaderExact ==
  \A w \in Writes : header[w] # <<>> =>
    \A n \in Files : \A i \in DOMAIN files[w][n] :
      LET x    == files[w][n][i]
          size == [k \in 1..Len(files[w][n]) |->
                     layout[w][files[w][n][k][1]][files[w][n][k][2]]]
      IN header[w][x] = [m_name |-> n, m_head |-> Bytes(size, i - 1)]

AllCalled == \A r \in Ranks : called[r] = NWrites

Written ==
  /\ \A r \in Ranks : job[r] = NWrites /\ pc[r] = "idle"
  /\ \A w \in Writes : \A x \in Fabs(w) : x \in ToSet(files[w][s_info[x[1]].ifile])

\* Once all ranks have made all the calls, every FAB gets into the files and every job ends:
\* the barriers of several ranks, files and writes never wait for one another in a circle.
AllWritten == AllCalled ~> Written
=============================================================================
