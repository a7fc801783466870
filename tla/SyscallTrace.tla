---------------------------- MODULE SyscallTrace ----------------------------
(* bpf/syscall_trace.bpf.c: the BPF program on raw_tracepoint/sys_enter and    *)
(* its two maps.  cgid_map says which cgroup is which container index, and is  *)
(* written by the agent only; syscalls_by_cgid holds one histogram per index   *)
(* and CPU, and is written by this program only.  A CPU runs at most one       *)
(* instance of the program at a time; instances on different CPUs interleave   *)
(* between their map accesses and counter increments.                          *)
EXTENDS BpfMaps, ContainerWorld

CONSTANTS Cpus,
          Buckets,       \* counters of syscall_counts other than total
          MaxCgids,      \* max_entries of cgid_map (1024 in the source)
          MaxIdx,        \* max_entries of syscalls_by_cgid (256 in the source)
          MaxSyscalls    \* bound: attributed system calls in a behaviour

ASSUME TraceAssumption ==
  /\ IsFiniteSet(Cpus) /\ IsFiniteSet(Buckets)
  /\ "total" \notin Buckets
  /\ MaxCgids \in Nat
  /\ MaxIdx \in Nat
  /\ MaxSyscalls \in Nat

VARIABLES cgidMap,    \* cgroup id -> container index
          hist,       \* container index -> CPU -> counters
          prog,       \* CPU -> the program instance it runs (absent: none)
          issued,     \* history: system calls of mapped cgroups
          dropped,    \* history: of those, the ones not counted
          origin      \* history: index -> whose calls it counted

traceVars == <<cgidMap, hist, prog, issued, dropped, origin>>

Fields == {"total"} \cup Buckets

Counts == [Fields -> Nat]

ZeroCounts == [f \in Fields |-> 0]

\* The elements of cgid_map are preallocated.  One that holds no entry is a
\* spare, of which each CPU has one for replacements, or in the free list.
Spare == <<"spare">>
Free == <<"free">>
Places == Cgids \cup {Spare, Free}

\* A program instance: its next step, the cgroup of the calling task, where the
\* element is that its idx pointer refers to, the index read through it, and
\* whether the element was given to another entry since the instance found it.
Instances == [pc : {"found", "create", "again", "total", "bucket"},
              cg : Cgids, elem : Places, idx : Nat, rewritten : BOOLEAN]

\* A cgroup whose call was counted, and whether by an instance whose element
\* was rewritten.
Origins == Cgids \X BOOLEAN

TraceTypeOK ==
  /\ IsMap(cgidMap, Cgids, Nat)
  /\ IsMap(hist, Nat, [Cpus -> Counts])
  /\ IsMap(prog, Cpus, Instances)
  /\ issued \in 0 .. MaxSyscalls
  /\ dropped \in [BOOLEAN -> Nat]
  /\ IsMap(origin, Nat, SUBSET Origins)

TraceInit ==
  /\ cgidMap = EmptyMap
  /\ hist = EmptyMap
  /\ prog = EmptyMap
  /\ issued = 0
  /\ dropped = [rewritten \in BOOLEAN |-> 0]
  /\ origin = EmptyMap

Goto(p, pc) == prog' = [prog EXCEPT ![p].pc = pc]

\* A task of cgroup g enters a system call.  An unmapped cgroup is the host:
\* the program returns and nothing changes.
Enter(p, g) ==
  /\ p \in Cpus \ DOMAIN prog
  /\ g \in DOMAIN cgidMap
  /\ issued < MaxSyscalls
  /\ prog' = Put(prog, p, [pc |-> "found", cg |-> g, elem |-> g,
                           idx |-> cgidMap[g], rewritten |-> FALSE])
  /\ issued' = issued + 1
  /\ UNCHANGED <<cgidMap, hist, dropped, origin>>

\* First lookup of the histogram.
LookupCounts(p) ==
  /\ p \in DOMAIN prog
  /\ prog[p].pc = "found"
  /\ Goto(p, IF prog[p].idx \in DOMAIN hist THEN "total" ELSE "create")
  /\ UNCHANGED <<cgidMap, hist, issued, dropped, origin>>

ZeroEntry == [q \in Cpus |-> ZeroCounts]

CreateAlways(i) ==
  IF HasRoom(hist, i, MaxIdx) THEN Put(hist, i, ZeroEntry) ELSE hist

CreateEvicting(i) ==
  IF i \in DOMAIN hist THEN hist
  ELSE IF HasRoom(hist, i, MaxIdx) THEN Put(hist, i, ZeroEntry)
  ELSE Put(Drop(hist, {CHOOSE j \in DOMAIN hist : TRUE}), i, ZeroEntry)

\* What bpf_map_update_elem(..., &zero, BPF_NOEXIST) leaves in the map:
\* an existing entry is kept, and a full map takes no new one.
CreateIfAbsent(i) ==
  IF i \notin DOMAIN hist /\ HasRoom(hist, i, MaxIdx)
  THEN Put(hist, i, ZeroEntry)
  ELSE hist

\* The miss path: create the entry.
CreateCounts(p) ==
  /\ p \in DOMAIN prog
  /\ prog[p].pc = "create"
  /\ hist' = CreateIfAbsent(prog[p].idx)
  /\ Goto(p, "again")
  /\ UNCHANGED <<cgidMap, issued, dropped, origin>>

\* Look the entry up again, and give up if it is absent.
LookupAgain(p) ==
  /\ p \in DOMAIN prog
  /\ prog[p].pc = "again"
  /\ IF prog[p].idx \in DOMAIN hist
     THEN Goto(p, "total") /\ UNCHANGED dropped
     ELSE /\ prog' = Drop(prog, {p})
          /\ dropped' = [dropped EXCEPT ![prog[p].rewritten] = @ + 1]
  /\ UNCHANGED <<cgidMap, hist, issued, origin>>

\* c->total++
CountTotal(p) ==
  /\ p \in DOMAIN prog
  /\ prog[p].pc = "total"
  /\ hist' = [hist EXCEPT ![prog[p].idx][p]["total"] = @ + 1]
  /\ origin' = Put(origin, prog[p].idx,
                   At(origin, prog[p].idx, {})
                     \cup {<<prog[p].cg, prog[p].rewritten>>})
  /\ Goto(p, "bucket")
  /\ UNCHANGED <<cgidMap, issued, dropped>>

\* The switch on the syscall number: exactly one bucket is incremented.
CountBucket(p, b) ==
  /\ p \in DOMAIN prog
  /\ prog[p].pc = "bucket"
  /\ hist' = [hist EXCEPT ![prog[p].idx][p][b] = @ + 1]
  /\ prog' = Drop(prog, {p})
  /\ UNCHANGED <<cgidMap, issued, dropped, origin>>

\* A task stays in its system call, and so its container runs, until the
\* program instance it triggered has returned.
Busy(g) == \E p \in DOMAIN prog : prog[p].cg = g

\* The steps of an instance that has found its container.
TraceStep(p) ==
  \/ LookupCounts(p)
  \/ CreateCounts(p)
  \/ LookupAgain(p)
  \/ CountTotal(p)
  \/ \E b \in Buckets : CountBucket(p, b)
=============================================================================
