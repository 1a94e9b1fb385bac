------------------------------- MODULE VisMF -------------------------------
(***************************************************************************)
(* Src/Base/AMReX_VisMF.cpp: the two ways to write FABs into few files.    *)
(* amrex.async_out says which code runs: NFilesIter (VisMF::Write, and     *)
(* reading), or the background threads of AsyncOut (VisMF::AsyncWrite).    *)
(***************************************************************************)
EXTENDS NFilesIter

CONSTANTS NOutFiles, Layouts, NWrites, MinMax

VARIABLES
  s_asyncout,  \* AsyncOut::UseAsyncOut()
  layout, called, job, thread_pc, nwritten, posted, async_files, header

async_vars == <<layout, called, job, thread_pc, nwritten, posted, async_files, header>>

Async == INSTANCE AsyncWrite WITH pc <- thread_pc, files <- async_files

ASSUME AsyncAssumption == Async!WriteAssumption

\* The code that does not run stays at a state of its beginning.
Runs(iterator, async) ==
  \/ s_asyncout /\ async /\ UNCHANGED <<s_asyncout, vars>>
  \/ ~s_asyncout /\ iterator /\ UNCHANGED <<s_asyncout, async_vars>>

VisInit == s_asyncout \in BOOLEAN /\ Init /\ Async!Init

VisNext == Runs(Next, Async!Next)

\* The fairness of both modules.
VisFairness ==
  \A r \in Ranks : WF_<<vars, async_vars>>(Runs(Rank(r), Async!Thread(r)))

VisSpec == VisInit /\ [][VisNext]_<<s_asyncout, vars, async_vars>> /\ VisFairness

\* One rank at a time appends to a file, in the order of the turns.
InTurn == Async!InTurn

\* "Offset to start of FAB in file": the header says where each FAB is.
HeaderExact == Async!HeaderExact

\* Every iterator ends (NFilesIter's AllEnd: the end is final), and once all ranks have called
\* every asynchronous write does; no message outlives the iterators.
WritesEnd ==
  (s_asyncout => Async!AllCalled) ~> IF s_asyncout THEN Async!Written ELSE Ended
=============================================================================
