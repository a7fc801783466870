------------------------------- MODULE MCCpuTime -------------------------------
(* Instance for TLC of the two accounts of CPU time in a Vector.  They share no *)
(* variable, and no property is about both, so what an interleaving of them     *)
(* shows of one of them, its own steps alone show: a behaviour has the steps of *)
(* the account that it began with.  For the cgroup's, no task exists.           *)
EXTENDS PidRuntime, CgroupMeter, TLC

VARIABLE account

AccountInit ==
  /\ Init
  /\ CgroupInit
  /\ \/ account = "runtime"
     \/ account = "cgroup" /\ owner = EmptyMap

AccountNext ==
  \/ account = "runtime" /\ Next /\ UNCHANGED <<account, cgroupVars>>
  \/ account = "cgroup" /\ CgroupNext /\ UNCHANGED <<account, vars>>

AccountSpec == AccountInit /\ [][AccountNext]_<<account, vars, cgroupVars>>

\* Pids and CPUs are interchangeable in PidRuntime.
MCSymmetry == Permutations(Pids) \cup Permutations(Cpus)
================================================================================
