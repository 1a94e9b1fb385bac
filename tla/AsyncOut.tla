------------------------------ MODULE AsyncOut ------------------------------
(***************************************************************************)
(* Src/Base/AMReX_AsyncOut.cpp: s_thread, the background thread of         *)
(* asynchronous output.  AsyncOut::Submit, Finish and Finalize are calls   *)
(* of this BackgroundThread.                                               *)
(***************************************************************************)

CONSTANTS Clients, Owner, Finishers, Jobs, Clear, Finalize, MaxFinish

VARIABLES m_func, m_clearing, m_finalizing, worker, m_job, client, finishes, done, awaited

Thread == INSTANCE BackgroundThread WITH f <- m_job

ASSUME ThreadAssumption == Thread!ThreadConstants

thread_vars ==
  <<m_func, m_clearing, m_finalizing, worker, m_job, client, finishes, done, awaited>>

ThreadSpec == Thread!Init /\ [][Thread!Next]_thread_vars /\ Thread!Fairness

\* The thread never sleeps, and never exits, while there is work in the queue.
NeverIdle == Thread!NeverIdle

\* A client asleep in Finish will be woken.
WakeupComing == Thread!WakeupComing

\* The thread implements JobQueue: jobs in order, each once; Finish and the destructor return
\* when what was submitted before has been done, and do return.
Promise == Thread!Promise
=============================================================================
