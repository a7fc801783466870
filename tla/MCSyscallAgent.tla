--------------------------- MODULE MCSyscallAgent ---------------------------
(* Small instances of the syscall pipeline for TLC.  Containers and CPUs are   *)
(* only ever compared for equality, so each set is symmetric.                  *)
EXTENDS SyscallAgent, TLC

CidSymmetry == Permutations(Cids)

BothSymmetries == Permutations(Cids) \cup Permutations(Cpus)

\* A restriction of the state space to the program and the updates.  pollOnce
\* only reads what they write and an update never waits for a poll, so what is
\* counted does not depend on where a poll is.
NoPoll == ~polling
=============================================================================
