----------------------------- MODULE AsyncMemory -----------------------------
(***************************************************************************)
(* What Gpu::freeAsync and Gpu::Elixir promise: memory a client has given  *)
(* up may still be used by the kernels launched before, and nobody gets it *)
(* again until they are done.                                              *)
(***************************************************************************)
CONSTANT Blocks

VARIABLES
  held,      \* blocks clients own
  released,  \* blocks given up and not yet back in the arena
  busy       \* blocks a launched and unfinished kernel uses

vars == <<held, released, busy>>

Init == held = {} /\ released = {} /\ busy = {}

Acquire(b) ==
  /\ b \notin held \cup released \cup busy
  /\ held' = held \cup {b}
  /\ UNCHANGED <<released, busy>>

Use(b) ==
  /\ b \in held
  /\ busy' = busy \cup {b}
  /\ UNCHANGED <<held, released>>

\* Kernels end.
Done ==
  /\ busy' \in SUBSET busy
  /\ UNCHANGED <<held, released>>

Release(b) ==
  /\ b \in held
  /\ held' = held \ {b}
  /\ released' = released \cup {b}
  /\ UNCHANGED busy

Reclaim(b) ==
  /\ b \in released \ busy
  /\ released' = released \ {b}
  /\ UNCHANGED <<held, busy>>

\* Memory that no kernel uses is given up and reclaimed at once.
Free(b) ==
  /\ b \in held \ busy
  /\ held' = held \ {b}
  /\ UNCHANGED <<released, busy>>

Next ==
  \/ Done
  \/ \E b \in Blocks : Acquire(b) \/ Use(b) \/ Release(b) \/ Reclaim(b) \/ Free(b)

Spec == Init /\ [][Next]_vars
=============================================================================
