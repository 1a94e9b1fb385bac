---------------------------- MODULE MCPrefixSum ----------------------------
(* The input of the scan for TLC.                                          *)
EXTENDS Scan

\* Different sums have different values.
MCfin(i) == (i + 1) * (i + 1) * (i + 1)
=============================================================================
