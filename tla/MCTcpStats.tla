------------------------------ MODULE MCTcpStats ------------------------------
(* Small instances of TcpStats.  CPUs and elements are only compared for       *)
(* equality.                                                                   *)
EXTENDS TcpStats, TLC

Symmetry == Permutations(Cpus) \cup Permutations(Elems)
===============================================================================
