-------------------------- MODULE BackgroundThread --------------------------
(***************************************************************************)
(* Src/Base/AMReX_BackgroundThread.cpp: the thread that runs the jobs of   *)
(* asynchronous output.  Each section that holds m_mutx is one action, as  *)
(* nothing blocks in it but a wait on a condition variable; f() and the    *)
(* reads of m_clearing and m_finalizing happen without the mutex.          *)
(***************************************************************************)
EXTENDS Naturals, Sequences, Selection

CONSTANTS
  Clients,    \* the threads that submit jobs
  Owner,      \* the client that destroys the object
  Finishers,  \* the clients that call Finish
  Jobs,       \* the functions clients submit, each one once
  Clear,      \* the job that Finish submits: m_clearing = true
  Finalize,   \* the job that the destructor submits: m_finalizing = true
  MaxFinish   \* bound: calls of Finish

ThreadConstants ==
  /\ Owner \in Clients /\ Finishers \subseteq Clients
  /\ Clear \notin Jobs /\ Finalize \notin Jobs /\ Clear # Finalize
  /\ MaxFinish \in Nat

VARIABLES
  m_func, m_clearing, m_finalizing,
  worker,     \* where the thread is in do_job
  f,          \* the job it took last
  client,     \* per client: "idle", or where it is in a call
  finishes,   \* calls of Finish so far
  done,       \* history: the submitted jobs that have returned, in order
  awaited     \* history: the jobs submitted before a client's Finish and not done then

vars == <<m_func, m_clearing, m_finalizing, worker, f, client, finishes, done, awaited>>

IsJob(x) == x \in Jobs

\* The submitted jobs that have not returned, in order.
Pending ==
  (IF worker = "run" /\ IsJob(f) THEN <<f>> ELSE <<>>) \o Selected(m_func, Jobs)

JobsOf(s) == {s[i] : i \in DOMAIN s}

PendingJobs == {j \in Jobs : j \in JobsOf(m_func) \/ (worker = "run" /\ f = j)}

\* The constructor starts the thread.
Init ==
  /\ m_func = <<>> /\ m_clearing = FALSE /\ m_finalizing = FALSE
  /\ worker = "start" /\ f = Clear
  /\ client = [c \in Clients |-> "idle"]
  /\ finishes = 0
  /\ done = <<>> /\ awaited = [c \in Clients |-> {}]

----------------------------------------------------------------------------
(* do_job.                                                                 *)

\* m_job_cond.wait finds the queue empty.
WaitForJob ==
  /\ worker = "start" /\ m_func = <<>>
  /\ worker' = "asleep"
  /\ UNCHANGED <<m_func, m_clearing, m_finalizing, f, client, finishes, done, awaited>>

TakeJob ==
  /\ worker = "start" /\ m_func # <<>>
  /\ f' = Head(m_func) /\ m_func' = Tail(m_func)
  /\ worker' = "run"
  /\ UNCHANGED <<m_clearing, m_finalizing, client, finishes, done, awaited>>

\* f() returns.
RunJob ==
  /\ worker = "run"
  /\ worker' = "ran"
  /\ m_clearing' = (m_clearing \/ f = Clear)
  /\ m_finalizing' = (m_finalizing \/ f = Finalize)
  /\ done' = IF IsJob(f) THEN Append(done, f) ELSE done
  /\ UNCHANGED <<m_func, f, client, finishes, awaited>>

BreakOrLoop == IF m_finalizing THEN "exited" ELSE "start"

\* m_clearing is read without the mutex.
TestClearing_AfterClearOnly ==
  /\ worker = "ran"
  /\ worker' = IF f = Clear THEN "notify" ELSE BreakOrLoop
  /\ UNCHANGED <<m_func, m_clearing, m_finalizing, f, client, finishes, done, awaited>>

TestClearing ==
  /\ worker = "ran"
  /\ worker' = IF m_clearing THEN "notify" ELSE BreakOrLoop
  /\ UNCHANGED <<m_func, m_clearing, m_finalizing, f, client, finishes, done, awaited>>

\* m_done_cond.notify_one
NotifyDone ==
  /\ worker = "notify"
  /\ worker' = BreakOrLoop
  /\ IF \E c \in Clients : client[c] = "asleep"
     THEN \E c \in Clients : client[c] = "asleep" /\ client' = [client EXCEPT ![c] = "check"]
     ELSE UNCHANGED client
  /\ UNCHANGED <<m_func, m_clearing, m_finalizing, f, finishes, done, awaited>>

----------------------------------------------------------------------------
(* Calls of the clients.                                                   *)

\* Submit: emplace and m_job_cond.notify_one, under the mutex.
Submit_WithoutNotify(x) == m_func' = Append(m_func, x) /\ UNCHANGED worker
Submit(x) ==
  /\ m_func' = Append(m_func, x)
  /\ worker' = IF worker = "asleep" THEN "start" ELSE worker

\* The object is being destroyed, or is gone: no client calls it any more.
Alive == client[Owner] \notin {"join", "destroyed"}

SubmitJob(c, j) ==
  /\ client[c] = "idle" /\ Alive
  /\ j \notin PendingJobs \cup JobsOf(done)
  /\ Submit(j)
  /\ UNCHANGED <<m_clearing, m_finalizing, f, client, finishes, done, awaited>>

\* Finish, up to its wait on m_done_cond.
Finish_WithoutJob(c) ==
  /\ c \in Finishers /\ client[c] = "idle" /\ Alive /\ finishes < MaxFinish
  /\ finishes' = finishes + 1
  /\ client' = [client EXCEPT ![c] = "check"]
  /\ awaited' = [awaited EXCEPT ![c] = PendingJobs]
  /\ UNCHANGED <<m_func, m_clearing, m_finalizing, worker, f, done>>

Finish(c) ==
  /\ c \in Finishers /\ client[c] = "idle" /\ Alive /\ finishes < MaxFinish
  /\ finishes' = finishes + 1
  /\ Submit(Clear)
  /\ client' = [client EXCEPT ![c] = "check"]
  /\ awaited' = [awaited EXCEPT ![c] = PendingJobs]
  /\ UNCHANGED <<m_clearing, m_finalizing, f, done>>

\* One evaluation of the wait's predicate.
MayReturn == m_func = <<>>

FinishWaits(c) ==
  /\ client[c] = "check" /\ ~MayReturn
  /\ client' = [client EXCEPT ![c] = "asleep"]
  /\ UNCHANGED <<m_func, m_clearing, m_finalizing, worker, f, finishes, done, awaited>>

FinishReturns(c) ==
  /\ client[c] = "check" /\ MayReturn
  /\ m_clearing' = FALSE
  /\ client' = [client EXCEPT ![c] = "idle"]
  /\ awaited' = [awaited EXCEPT ![c] = {}]
  /\ UNCHANGED <<m_func, m_finalizing, worker, f, finishes, done>>

\* The destructor; no other client is in a call.
Destroy(c) ==
  /\ c = Owner /\ Alive /\ \A d \in Clients : client[d] = "idle"
  /\ Submit(Finalize)
  /\ client' = [client EXCEPT ![c] = "join"]
  /\ UNCHANGED <<m_clearing, m_finalizing, f, finishes, done, awaited>>

Join(c) ==
  /\ client[c] = "join" /\ worker = "exited"
  /\ client' = [client EXCEPT ![c] = "destroyed"]
  /\ UNCHANGED <<m_func, m_clearing, m_finalizing, worker, f, finishes, done, awaited>>

\* A condition variable may wake its waiters without a notification.
SpuriousWakeup ==
  /\ \/ worker = "asleep" /\ worker' = "start" /\ UNCHANGED client
     \/ /\ \E c \in Clients : client[c] = "asleep" /\ client' = [client EXCEPT ![c] = "check"]
        /\ UNCHANGED worker
  /\ UNCHANGED <<m_func, m_clearing, m_finalizing, f, finishes, done, awaited>>

----------------------------------------------------------------------------

Worker == WaitForJob \/ TakeJob \/ RunJob \/ TestClearing \/ NotifyDone

InCall(c) == FinishWaits(c) \/ FinishReturns(c) \/ Join(c)

Next ==
  \/ Worker
  \/ \E c \in Clients : \/ InCall(c) \/ Finish(c) \/ Destroy(c)
                        \/ \E j \in Jobs : SubmitJob(c, j)
  \/ SpuriousWakeup

\* Threads are scheduled and jobs return; nobody has to call, no wakeup is spurious.
Fairness == WF_vars(Worker) /\ \A c \in Clients : WF_vars(InCall(c))

Spec == Init /\ [][Next]_vars /\ Fairness

----------------------------------------------------------------------------
(* Properties.                                                             *)

\* Types, and: only the destructor sets m_finalizing.
TypeOK ==
  /\ m_func \in Seq(Jobs \cup {Clear, Finalize})
  /\ m_clearing \in BOOLEAN /\ m_finalizing \in BOOLEAN
  /\ worker \in {"start", "asleep", "run", "ran", "notify", "exited"}
  /\ f \in Jobs \cup {Clear, Finalize}
  /\ client \in [Clients -> {"idle", "check", "asleep", "join", "destroyed"}]
  /\ finishes \in 0..MaxFinish
  /\ done \in Seq(Jobs) /\ awaited \in [Clients -> SUBSET Jobs]
  /\ m_finalizing => client[Owner] \in {"join", "destroyed"}

Call(c) ==
  CASE client[c] \in {"check", "asleep"} -> "finish"
    [] client[c] = "join" -> "destroy"
    [] OTHER -> client[c]

Queue == INSTANCE JobQueue WITH todo <- Pending, call <- [c \in Clients |-> Call(c)]

\* The thread keeps the promise of JobQueue: jobs in order, each once; "wait for jobs
\* submitted to finish" (AMReX_AsyncOut.H); all of them done when the destructor returns; and
\* no wakeup is lost, so that every job runs and Finish returns.
Promise == Queue!Spec

\* The thread never sleeps, and never exits, while there is work in the queue.
NeverIdle == worker \in {"asleep", "exited"} => m_func = <<>>

\* A client asleep in Finish will be woken: its Clear job is still ahead, or m_clearing is
\* set (not reset under it) and another job, or the notification itself, is still to come.
WakeupComing ==
  \A c \in Clients :
    client[c] = "asleep" =>
      \/ Clear \in JobsOf(m_func)
      \/ worker = "run" /\ f = Clear
      \/ m_clearing /\ (m_func # <<>> \/ worker \in {"run", "ran", "notify"})
=============================================================================
