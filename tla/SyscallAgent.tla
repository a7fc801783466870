---------------------------- MODULE SyscallAgent ----------------------------
(* The syscall pipeline of the agent: docker containers, the refresh           *)
(* goroutine of cmd/agent/main.go, the collector and the BPF program.          *)
EXTENDS SyscallCollector, Functions, FiniteSetsExt

CONSTANTS InspectMayFail,  \* docker may fail to inspect a running container
          SystemdLayout    \* containers have their cgroup at docker-<cid>.scope

ASSUME AgentAssumption ==
  /\ InspectMayFail \in BOOLEAN
  /\ SystemdLayout \in BOOLEAN

VARIABLES building,    \* updateMappings is running
          todo,        \* container -> inspected init process, not yet mapped
          found,       \* mappings built so far
          idxByCid,    \* container id -> its index, for good
          nextIdx      \* the next index to hand out

agentVars == <<building, todo, found, idxByCid, nextIdx>>
vars == <<worldVars, traceVars, updVars, pollVars, agentVars>>

\* Info.Pid: the init process is known by the run it belongs to; 0 if stopped.
InitPid(c) == IF c \in up THEN starts[c] ELSE 0

TypeOK ==
  /\ WorldTypeOK
  /\ TraceTypeOK
  /\ CollectorTypeOK
  /\ building \in BOOLEAN
  /\ IsMap(todo, Cids, Nat)
  /\ found \subseteq Mappings
  /\ IsMap(idxByCid, Cids, Nat)
  /\ nextIdx = Cardinality(DOMAIN idxByCid)

\* main has refreshed the resolver once and begins the initial updateMappings.
Init ==
  /\ WorldInit
  /\ TraceInit
  /\ CollectorInit
  /\ building = TRUE
  /\ todo = [c \in up |-> InitPid(c)]
  /\ found = {}
  /\ idxByCid = EmptyMap
  /\ nextIdx = 0

-----------------------------------------------------------------------------
(* Docker and the containers' tasks *)

Start(c) == StartContainer(c) /\ UNCHANGED <<traceVars, updVars, pollVars, agentVars>>

Stop(c) ==
  /\ ~Busy(CgroupOf(c))
  /\ StopContainer(c)
  /\ UNCHANGED <<traceVars, updVars, pollVars, agentVars>>

Syscall(p) ==
  /\ \/ \E c \in up : Enter(p, CgroupOf(c))
     \/ TraceStep(p)
  /\ UNCHANGED <<worldVars, updVars, pollVars, agentVars>>

-----------------------------------------------------------------------------
(* The refresh goroutine *)

\* A tick: the containers that docker lists and that could be inspected.
\* Stopped ones are listed too.
Refresh ==
  /\ ~building
  /\ upd = "off"
  /\ \E listed \in SUBSET Created :
       /\ InspectMayFail \/ up \subseteq listed
       /\ todo' = [c \in listed |-> InitPid(c)]
  /\ building' = TRUE
  /\ UNCHANGED <<found, idxByCid, nextIdx>>

\* PathForContainer and GetCgroupID: the conventional path exists while the
\* container runs; the fallback needs the init process that was inspected.
HasCgroup(c) == c \in up /\ (SystemdLayout \/ todo[c] = starts[c])

IndexInList(c) == Cardinality(found)

\* idxByCid[cid], or the next unused index.
IndexFor(c) == At(idxByCid, c, nextIdx)

NextIndexAlways(c) == nextIdx + 1

\* nextIdx++ for a container that has no index.
NextIndex(c) == IF c \in DOMAIN idxByCid THEN nextIdx ELSE nextIdx + 1

\* One turn of the loop in updateMappings.
MapOne(c) ==
  /\ building
  /\ c \in DOMAIN todo
  /\ todo' = Drop(todo, {c})
  /\ IF HasCgroup(c)
     THEN /\ idxByCid' = Put(idxByCid, c, IndexFor(c))
          /\ nextIdx' = NextIndex(c)
          /\ found' = found \cup
               {[cgid |-> CgroupOf(c), idx |-> idxByCid'[c], cid |-> c]}
     ELSE UNCHANGED <<idxByCid, nextIdx, found>>
  /\ UNCHANGED building

\* The loop has ended.  Without a mapping UpdateContainers is not called.
EndBuild ==
  /\ building
  /\ DOMAIN todo = {}
  /\ IF found = {} THEN UNCHANGED updVars ELSE BeginUpdate(found)
  /\ building' = FALSE /\ found' = {}
  /\ UNCHANGED <<todo, idxByCid, nextIdx>>

AgentStep ==
  \/ /\ Refresh \/ \E c \in DOMAIN todo : MapOne(c)
     /\ UNCHANGED <<worldVars, traceVars, updVars, pollVars>>
  \/ EndBuild /\ UNCHANGED <<worldVars, traceVars, pollVars>>
  \/ UpdateStep /\ UNCHANGED <<worldVars, agentVars>>

Poll == PollStep /\ UNCHANGED <<worldVars, agentVars>>

Next ==
  \/ \E c \in Cids : Start(c) \/ Stop(c)
  \/ \E p \in Cpus : Syscall(p)
  \/ AgentStep
  \/ Poll

Spec == Init /\ [][Next]_vars

-----------------------------------------------------------------------------
(* Properties *)

Counted(i, f) ==
  IF i \in DOMAIN hist THEN SumFunction([p \in Cpus |-> hist[i][p][f]]) ELSE 0

Reported(i, f) == At(reported, i, ZeroCounts)[f]

\* A row that names a container holds system calls of that container only,
\* over all its runs: no restart, stale mapping, index hand-out or half-done
\* update ever puts calls of one container into a row of another
\* (updateMappings, UpdateContainers and pollOnce together); nor does the BPF
\* program, but for the calls of an instance whose element of cgid_map was given
\* to another entry between its lookup there and its last use of the pointer.
RowsOfOwnContainer ==
  \A r \in snap :
    r.cid # Host =>
      \A o \in At(origin, r.idx, {}) : Owner(o[1]) = r.cid \/ o[2]

\* A row without a container never shows an index in the middle of its first
\* update: such a row is for an index that was named before, or one that a full
\* cgid_map kept from its name.  The program counts from the first Put on, but
\* the mutex makes entries and names appear together to pollOnce.
HostRowsSettled == \A r \in snap : r.cid = Host => r.idx \in settled

\* Entries and counters of syscalls_by_cgid never vanish or decrease, so the
\* clamp in subtract never hides anything and a first touch by two CPUs at
\* once loses nothing (BPF_NOEXIST and the second lookup).
CountersOnlyGrow ==
  [][\A i \in DOMAIN hist :
       /\ i \in DOMAIN hist'
       /\ \A p \in Cpus, f \in Fields : hist'[i][p][f] >= hist[i][p][f]]_vars

\* Every system call of a mapped cgroup is counted in exactly one place, still
\* on its way, or dropped; and it is dropped only when the histogram map is full,
\* unless the index changed under the instance between creation and lookup.
EveryCallAccounted ==
  /\ issued = SumFunction([i \in DOMAIN hist |-> Counted(i, "total")])
              + Cardinality({p \in DOMAIN prog : prog[p].pc # "bucket"})
              + dropped[FALSE] + dropped[TRUE]
  /\ dropped[FALSE] > 0 => Cardinality(DOMAIN hist) = MaxIdx

\* The collector is a meter of system calls, per counter of a histogram.
Indexes == 0 .. Cardinality(Cids) - 1

SyscallMeter == INSTANCE Meter WITH
  Keys <- Indexes \X Fields,
  done <- [k \in Indexes \X Fields |-> Counted(k[1], k[2])],
  told <- [k \in Indexes \X Fields |-> Reported(k[1], k[2])]

\* No counter is reported twice: rows never add up to more of a counter than
\* the kernel counted, whatever a copy missed and whichever rows are skipped,
\* and neither side ever goes back.
MetersSyscalls == SyscallMeter!Spec

\* The buckets that pollOnce reads of a histogram trail the total by one call per
\* CPU at most, because the program increments total first and the copy reads
\* total first.  They may lead it by any number of calls.
TornByOnePerCpu ==
  \A i \in DOMAIN prevSeen :
    prevSeen[i]["total"] <= SumFunction([b \in Buckets |-> prevSeen[i][b]])
                            + Cardinality(Cpus)

-----------------------------------------------------------------------------
(* Liveness: every goroutine keeps being scheduled, the tickers keep ticking,
   a program instance that began runs to its end, and sync.Mutex does not
   starve a waiter: pollOnce gets its lock although updates keep coming. *)

Fairness ==
  /\ WF_vars(AgentStep)
  /\ SF_vars(Poll)
  /\ \A p \in Cpus :
       WF_vars(TraceStep(p) /\ UNCHANGED <<worldVars, updVars, pollVars, agentVars>>)

FairSpec == Spec /\ Fairness

\* Whatever a histogram has counted in total is eventually reported in rows.
TotalsReported ==
  \A i \in Indexes, n \in 1 .. MaxSyscalls :
    Counted(i, "total") >= n ~> Reported(i, "total") >= n

\* A container that stays up is eventually in cgid_map, under the cgroup of
\* its current run, for good; given reliable docker answers and map room.
RunningIsMapped ==
  \A c \in Cids :
    <>[](c \in up) => <>[](c \in up /\ CgroupOf(c) \in DOMAIN cgidMap)

-----------------------------------------------------------------------------
(* What a comment of the source says and the code does not do. *)

\* "Key insight: this lookup happens in BPF at syscall time, so attribution is
\* instant" (syscall_trace.bpf.c): a row that names a container holds calls of
\* that container only, without exception.
AttributionIsInstant ==
  \A r \in snap :
    r.cid # Host => \A o \in At(origin, r.idx, {}) : Owner(o[1]) = r.cid
=============================================================================
