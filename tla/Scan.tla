-------------------------------- MODULE Scan --------------------------------
(***************************************************************************)
(* Scan::PrefixSum (Src/Base/AMReX_Scan.H): in one kernel or in three, as  *)
(* a matter of the build.                                                  *)
(***************************************************************************)
EXTENDS PrefixSum

CONSTANTS
  nwarps, nchunks, Lengths, fin(_),   \* of PrefixSum_mp
  mp_resident                         \* blocks of its kernels that run at the same time

VARIABLES
  multipass,   \* AMREX_SYCL_NO_MULTIPASS_SCAN is not defined
  n, type, kernel, waiting, running, warp_pc, ichunk, barriers, sum_prev_chunk, shared, shared2,
  blockresult, blocksum, totalsum, out

mp_vars == <<n, type, kernel, waiting, running, warp_pc, ichunk, barriers, sum_prev_chunk,
             shared, shared2, blockresult, blocksum, totalsum, out>>

MP == INSTANCE PrefixSum_mp
        WITH MaxResident <- mp_resident, inclusive <- type, pc <- warp_pc, fout <- out

ASSUME MPAssumption == MP!ScanAssumption

\* The version that does not run stays at a state of its beginning.
ScanInit ==
  \/ /\ multipass = FALSE /\ Init
     /\ n = (CHOOSE i \in Lengths : TRUE) /\ type = FALSE /\ MP!Init
  \/ /\ multipass = TRUE /\ MP!Init
     /\ SINGLE_WORD = FALSE /\ Init

ScanNext ==
  \/ multipass /\ MP!Next /\ UNCHANGED <<multipass, vars>>
  \/ ~multipass /\ Next /\ UNCHANGED <<multipass, mp_vars>>

ScanSpec ==
  /\ ScanInit /\ [][ScanNext]_<<multipass, vars, mp_vars>>
  /\ WF_mp_vars(multipass /\ MP!Next /\ UNCHANGED <<multipass, vars>>)
  /\ WF_vars(~multipass /\ (\E b \in Blocks : Start(b)) /\ UNCHANGED <<multipass, mp_vars>>)
  /\ \A b \in Blocks : WF_vars(~multipass /\ Step(b) /\ UNCHANGED <<multipass, mp_vars>>)

\* PrefixSum_mp gives what the sequential loop gives.
ScanTrue == MP!ScanTrue

\* Every version ends: no warp waits for one that has left the loop, no block for one that has
\* not started.
ScanEnds == (multipass => MP!KernelsEnd) /\ (~multipass => AllDone)
=============================================================================
