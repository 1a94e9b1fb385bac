------------------------------ MODULE JobQueue ------------------------------
(***************************************************************************)
(* What BackgroundThread promises to its clients: jobs run one at a time   *)
(* in the order of their submission; Finish returns when the jobs that had *)
(* been submitted are done; the destructor returns when all jobs are done. *)
(***************************************************************************)
EXTENDS Naturals, Sequences

CONSTANTS Clients, Jobs

VARIABLES
  todo,     \* the jobs submitted and not done, in order
  done,     \* the jobs done, in order
  awaited,  \* per client: the jobs its Finish waits for
  call      \* per client: "idle", or the call it is in

vars == <<todo, done, awaited, call>>

JobsOf(s) == {s[i] : i \in DOMAIN s}

Init ==
  /\ todo = <<>> /\ done = <<>>
  /\ awaited = [c \in Clients |-> {}]
  /\ call = [c \in Clients |-> "idle"]

Open == \A c \in Clients : call[c] \in {"idle", "finish"}

Submit(c, j) ==
  /\ call[c] = "idle" /\ Open
  /\ j \notin JobsOf(todo) \cup JobsOf(done)
  /\ todo' = Append(todo, j)
  /\ UNCHANGED <<done, awaited, call>>

Run ==
  /\ todo # <<>>
  /\ done' = Append(done, Head(todo)) /\ todo' = Tail(todo)
  /\ UNCHANGED <<awaited, call>>

Finish(c) ==
  /\ call[c] = "idle" /\ Open
  /\ awaited' = [awaited EXCEPT ![c] = JobsOf(todo)]
  /\ call' = [call EXCEPT ![c] = "finish"]
  /\ UNCHANGED <<todo, done>>

FinishReturns(c) ==
  /\ call[c] = "finish" /\ awaited[c] \subseteq JobsOf(done)
  /\ call' = [call EXCEPT ![c] = "idle"]
  /\ awaited' = [awaited EXCEPT ![c] = {}]
  /\ UNCHANGED <<todo, done>>

Destroy(c) ==
  /\ \A d \in Clients : call[d] = "idle"
  /\ call' = [call EXCEPT ![c] = "destroy"]
  /\ UNCHANGED <<todo, done, awaited>>

Destroyed(c) ==
  /\ call[c] = "destroy" /\ todo = <<>>
  /\ call' = [call EXCEPT ![c] = "destroyed"]
  /\ UNCHANGED <<todo, done, awaited>>

Next ==
  \/ Run
  \/ \E c \in Clients : \/ Finish(c) \/ FinishReturns(c) \/ Destroy(c) \/ Destroyed(c)
                        \/ \E j \in Jobs : Submit(c, j)

\* Every job is run, and every call returns.
Fairness ==
  /\ WF_vars(Run)
  /\ \A c \in Clients : WF_vars(FinishReturns(c)) /\ WF_vars(Destroyed(c))

Spec == Init /\ [][Next]_vars /\ Fairness
=============================================================================
