----------------------------- MODULE PidRuntime -----------------------------
(* bpf/pid_runtime.bpf.c and pkg/collector/pidruntime/collector.go: CPU time  *)
(* per pid.  Every context switch charges the outgoing task and stamps the    *)
(* incoming one in a per-CPU hash map from which nothing is ever deleted;     *)
(* pollOnce reads the totals and then reports, pid by pid, what they grew by  *)
(* to the container that has the pid by then.  The totals of different pids   *)
(* are never compared, so their lookups are one step.  A lookup that a context*)
(* switch overlaps finds a total between the old and the new one, which only  *)
(* leaves the difference to the next poll.  Resolve itself is module Resolver:*)
(* here it answers at once.                                                   *)
EXTENDS BpfMaps, Functions

CONSTANTS Pids,
          Idle,         \* pid 0
          Cpus,
          Cids,         \* container ids
          Host,         \* the empty container id
          Capacity,     \* max_entries (65536) of cpu_acct_by_pid
          MaxTime,      \* bound: the clock
          MaxForks,     \* bound: new processes
          MaxMishaps    \* bound: execs by a thread that is not the leader, and
                        \* polls whose iteration fails

ASSUME RuntimeAssumption ==
  /\ IsFiniteSet(Pids) /\ IsFiniteSet(Cpus) /\ IsFiniteSet(Cids)
  /\ Idle \notin Pids
  /\ Host \notin Cids
  /\ Capacity \in Nat /\ MaxTime \in Nat \ {0}
  /\ MaxForks \in Nat /\ MaxMishaps \in Nat

VARIABLES now,          \* bpf_ktime_get_ns
          running,      \* CPU -> the task that runs there
          owner,        \* pid -> container of the task that has it, or Host
          acct,         \* pid -> CPU -> [start, run]: cpu_acct_by_pid
          current,      \* pid -> total read in this poll, until its row is made
          prevSeen,     \* pid -> total that was reported
          ran,          \* history: pid -> container -> time since first seen
          seen,         \* history: CPUs whose task was switched in and has an entry
          forks,        \* history: new processes
          renames,      \* history: pid -> renames it took part in
          errors,       \* history: failed iterations
          credited,     \* history: container -> reported time
          inherited,    \* history: container -> time that reused pids brought along
          forgotten     \* history: reported totals that were evicted

kernelVars == <<now, running, owner, acct>>
pollVars == <<current, prevSeen>>
runHistory == <<ran, seen, forks, renames, inherited>>
pollHistory == <<errors, credited, forgotten>>
vars == <<kernelVars, pollVars, runHistory, pollHistory>>

Keys == Cids \cup {Host}

\* last_start_ns and runtime_ns; start is 0 while the task does not run.
Accts == [start : 0 .. MaxTime, run : Nat]

TypeOK ==
  /\ now \in 1 .. MaxTime
  /\ running \in [Cpus -> Pids \cup {Idle}]
  /\ IsMap(owner, Pids, Keys)
  /\ IsMap(acct, Pids, [Cpus -> Accts]) /\ Cardinality(DOMAIN acct) <= Capacity
  /\ IsMap(current, Pids, Nat)
  /\ IsMap(prevSeen, Pids, Nat)
  /\ ran \in [Pids -> [Keys -> Nat]]
  /\ seen \subseteq Cpus
  /\ forks \in 0 .. MaxForks /\ renames \in [Pids -> Nat]
  /\ errors \in 0 .. MaxMishaps
  /\ credited \in [Keys -> Nat] /\ inherited \in [Cids -> Nat]
  /\ forgotten \in Nat

ZeroOf(S) == [k \in S |-> 0]

\* Tasks run when the program is attached, and are not in the map.
Init ==
  /\ now = 1
  /\ owner \in UNION {[S -> Keys] : S \in SUBSET Pids}
  /\ running \in [Cpus -> DOMAIN owner \cup {Idle}]
  /\ \A c, d \in Cpus : c # d /\ running[c] # Idle => running[c] # running[d]
  /\ acct = EmptyMap
  /\ current = EmptyMap /\ prevSeen = EmptyMap
  /\ ran = [p \in Pids |-> ZeroOf(Keys)]
  /\ seen = {} /\ forks = 0 /\ renames = ZeroOf(Pids) /\ errors = 0
  /\ credited = ZeroOf(Keys) /\ inherited = ZeroOf(Cids)
  /\ forgotten = 0

Total(p) ==
  IF p \in DOMAIN acct THEN SumFunction([c \in Cpus |-> acct[p][c].run]) ELSE 0

\* Two pids take part in a rename.
Mishaps == errors + SumFunction(renames) \div 2

-----------------------------------------------------------------------------
(* The kernel *)

Tick ==
  /\ now < MaxTime
  /\ now' = now + 1
  /\ ran' = [p \in Pids |-> [o \in Keys |->
               ran[p][o] + Cardinality({c \in seen : running[c] = p /\ owner[p] = o})]]
  /\ UNCHANGED <<running, owner, acct, pollVars, seen, forks, renames, inherited, pollHistory>>

OnCpu(p) == p \in Range(running)

\* A new process; its pid may have been another's.
Fork(p, o) ==
  /\ p \notin DOMAIN owner
  /\ forks < MaxForks
  /\ forks' = forks + 1
  /\ owner' = Put(owner, p, o)
  /\ inherited' = [a \in Cids |-> IF a = o THEN inherited[a] + Total(p) - At(prevSeen, p, 0)
                                           ELSE inherited[a]]
  /\ UNCHANGED <<now, running, acct, pollVars, ran, seen, renames, pollHistory>>

Reap(p) ==
  /\ p \in DOMAIN owner
  /\ ~OnCpu(p)
  /\ owner' = Drop(owner, {p})
  /\ UNCHANGED <<now, running, acct, pollVars, runHistory, pollHistory>>

\* execve by a thread that is not the leader: it takes the leader's pid p and
\* goes on running.
Exec(c, p) ==
  /\ running[c] \notin {Idle, p}
  /\ p \in DOMAIN owner /\ ~OnCpu(p)
  /\ owner[p] = owner[running[c]]
  /\ Mishaps < MaxMishaps
  /\ running' = [running EXCEPT ![c] = p]
  /\ owner' = Drop(owner, {running[c]})
  /\ renames' = [q \in Pids |-> IF q \in {p, running[c]} THEN renames[q] + 1 ELSE renames[q]]
  /\ UNCHANGED <<now, acct, pollVars, ran, seen, forks, inherited, pollHistory>>

-----------------------------------------------------------------------------
(* trace_sched_switch.  A task is on one CPU at a time, and only the CPU that
   it is on touches its entry. *)

\* What the outgoing task ran since it was stamped; start 0 is not told apart.
Charge(p, c) ==
  LET a == acct[p][c] IN
  [start |-> 0, run |-> IF now >= a.start THEN a.run + (now - a.start) ELSE a.run]

SwitchedOut(p, c) ==
  IF p \in DOMAIN acct THEN [acct EXCEPT ![p][c] = Charge(p, c)] ELSE acct

\* A new entry is zero on the other CPUs.
Fresh(c) == [d \in Cpus |-> [start |-> IF d = c THEN now ELSE 0, run |-> 0]]

SwitchedInOnce(m, p, c) ==
  IF p # Idle /\ p \notin DOMAIN m /\ HasRoom(m, p, Capacity)
  THEN Put(m, p, Fresh(c)) ELSE m

SwitchedIn(m, p, c) ==
  IF p \in DOMAIN m THEN [m EXCEPT ![p][c].start = now]
  ELSE IF p # Idle /\ HasRoom(m, p, Capacity) THEN Put(m, p, Fresh(c))
  ELSE m

Switch(c, p) ==
  /\ p # running[c]
  /\ p # Idle => p \in DOMAIN owner /\ ~OnCpu(p)
  /\ acct' = SwitchedIn(SwitchedOut(running[c], c), p, c)
  /\ running' = [running EXCEPT ![c] = p]
  /\ seen' = IF p \in DOMAIN acct' THEN seen \cup {c} ELSE seen \ {c}
  /\ UNCHANGED <<now, owner, pollVars, ran, forks, renames, inherited, pollHistory>>

-----------------------------------------------------------------------------
(* pollOnce *)

\* Pids with a total that was reported and not read again.
Evicted(read) == DOMAIN prevSeen \ read

\* The iteration ends, or fails after some of the keys: pollOnce does not ask
\* which, and evicts every pid that it has not read.
Iterate(read) ==
  /\ current = EmptyMap
  /\ IF read = DOMAIN acct THEN UNCHANGED errors
     ELSE Mishaps < MaxMishaps /\ errors' = errors + 1
  /\ current' = [p \in read |-> Total(p)]
  /\ prevSeen' = Drop(prevSeen, Evicted(read))
  /\ forgotten' = forgotten + SumFunction([p \in Evicted(read) |-> prevSeen[p]])
  /\ UNCHANGED <<kernelVars, runHistory, credited>>

RowOfTotal(p) == current[p]

RowSwapped(p) == At(prevSeen, p, 0) - current[p]

\* What is new since the total was last seen.
RowOf(p) == current[p] - At(prevSeen, p, 0)

\* A total that has grown makes a row, for the container that has the pid now.
Row(p) ==
  /\ p \in DOMAIN current
  /\ prevSeen' = Put(prevSeen, p, current[p])
  /\ LET o == At(owner, p, Host) IN
       credited' = IF current[p] > At(prevSeen, p, 0)
                   THEN [credited EXCEPT ![o] = @ + RowOf(p)] ELSE credited
  /\ current' = Drop(current, {p})
  /\ UNCHANGED <<kernelVars, runHistory, errors, forgotten>>

Kernel ==
  \/ Tick
  \/ \E p \in Pids : Reap(p) \/ \E o \in Keys : Fork(p, o)
  \/ \E c \in Cpus : \/ \E p \in Pids : Exec(c, p)
                     \/ \E p \in Pids \cup {Idle} : Switch(c, p)

Poll ==
  \/ \E read \in SUBSET DOMAIN acct : Iterate(read)
  \/ \E p \in Pids : Row(p)

Next == Kernel \/ Poll

Spec == Init /\ [][Next]_vars

-----------------------------------------------------------------------------
(* Properties *)

\* Time that a task has run since it was stamped and is not yet charged for.
InFlight(p) ==
  SumFunction([c \in Cpus |->
    IF running[c] = p /\ acct[p][c].start # 0 THEN now - acct[p][c].start ELSE 0])

RanAs(p) == SumFunction(ran[p])

\* However a task moves between CPUs, and although no lock is taken, the time
\* charged to a pid and the time since its last stamp make up exactly the time
\* it ran since it was first seen.  An exec that renames a running task charges
\* at most the machine's uptime too much, once: the stamp 0 of its new pid reads
\* as a stamp at boot.
RuntimeExact ==
  \A p \in DOMAIN acct :
    IF renames[p] = 0 THEN Total(p) + InFlight(p) = RanAs(p)
                      ELSE Total(p) <= RanAs(p) + renames[p] * now

\* No container is reported to use more time than its tasks ran, but for what
\* its pids had run for others and not been reported for, for totals reported
\* again after a failed iteration, and for renames.
ContainerNotOvercharged ==
  \A o \in Cids :
    credited[o] <= SumFunction([p \in Pids |-> ran[p][o]]) + inherited[o]
                   + forgotten + SumFunction(renames) * now

\* The collector is a meter of CPU time: run, or reported again, then credited.
CpuMeter == INSTANCE Meter WITH
  Keys <- {"ns"},
  done <- [k \in {"ns"} |-> SumFunction([p \in Pids |-> Total(p)]) + forgotten],
  told <- [k \in {"ns"} |-> SumFunction(credited)]

\* Rows of CPU time, over all polls and whatever iteration fails, never add up
\* to more than what the map has charged, and no step lowers what it charged.
MetersCpu == CpuMeter!Spec
=============================================================================
