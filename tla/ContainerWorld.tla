---------------------------- MODULE ContainerWorld ----------------------------
(* The environment of the agent: docker containers that start, stop and       *)
(* restart.  The kernel gives every run of a container a cgroup of its own,    *)
(* whose id it never hands out again, so a cgroup id is the container and the  *)
(* number of its run.                                                          *)
EXTENDS Naturals

CONSTANTS Cids,        \* docker container ids
          MaxStarts    \* bound: how often a container may be started

ASSUME WorldAssumption == MaxStarts \in Nat \ {0}

VARIABLES up,          \* the containers that run
          starts       \* how often each container was started

worldVars == <<up, starts>>

Cgids == Cids \X (1 .. MaxStarts)

Owner(g) == g[1]

\* The cgroup of the container's current (or latest) run.
CgroupOf(c) == <<c, starts[c]>>

Created == {c \in Cids : starts[c] > 0}

WorldTypeOK ==
  /\ starts \in [Cids -> 0 .. MaxStarts]
  /\ up \subseteq Created

\* Containers may be running before the agent starts.
WorldInit ==
  /\ up \in SUBSET Cids
  /\ starts = [c \in Cids |-> IF c \in up THEN 1 ELSE 0]

StartContainer(c) ==
  /\ c \notin up
  /\ starts[c] < MaxStarts
  /\ starts' = [starts EXCEPT ![c] = @ + 1]
  /\ up' = up \cup {c}

StopContainer(c) ==
  /\ c \in up
  /\ up' = up \ {c}
  /\ UNCHANGED starts
===============================================================================
