# Container anomaly agent: TLA+ specifications

The agent watches docker containers. BPF programs in the kernel count system
calls, TCP traffic, CPU time and process exits; Go collectors poll the counters;
an aggregator sums them per container and window into feature vectors and writes
a CSV file; a Python detector scores the file. Everything the detector says
rests on one promise: *a number in a row was really done by the container the
row names, in that window, once.* The specifications here state that promise for
each stage and check it against the order in which CPUs, goroutines, docker and
the kernel may act.

Line numbers below refer to the files under `src/`.

## Components

| Part | State | Operations | Talks to | What makes it correct |
|---|---|---|---|---|
| `bpf/syscall_trace.bpf.c` | `cgid_map`, `syscalls_by_cgid` (per CPU) | `trace_sys_enter` on every system call | maps shared with the collector | each call of a mapped cgroup is counted once, under its container's index |
| `pkg/collector/syscalls` | `idxToCid`, `prevSeen`, mutex | `UpdateContainers`, `pollOnce`, `run`, `Stop` | reads the histogram, writes `cgid_map`, sends snapshots to main | rows name the right container, nothing is reported twice, everything is reported in the end |
| `cmd/agent/main.go` | `idxByCid`, `nextIdx` | `updateMappings`, refresh goroutine, `pollCgroup`, select loop, deferred stops | all others | an index belongs to one container for good; what arrives is ingested and what is finished is written |
| `pkg/container/docker.go` | none | list, inspect | docker daemon | external answers |
| `pkg/container/resolver.go` | `containers`, `upidCache`, `pidSet` | `Refresh`, `Resolve`, `Containers`, `ContainerByID` | docker, `/proc`; called by three collectors, main and the aggregator | a pid is attributed to the container it runs in |
| `pkg/cgroup` | none | `PathForContainer`, `GetCgroupID`, `Read` | cgroup file system | the id is that of the current run |
| `pkg/feature/aggregator.go` | accumulators, channel of vectors | `Ingest*`, `Run`, `Stop` | main goroutine on both sides | every ingested number is in one vector; windows are contiguous; nothing is dropped |
| `pkg/feature/csv.go` | the file | `NewEncoder`, `Write`, `Close` | main | one row per vector, one header |
| `tcp_stats` (BPF and Go) | `tcp_stats_by_tgid` (per CPU) | `bump` in three probes, `pollOnce` | shared map, resolver | what is read is deleted, nothing is counted twice |
| `pid_runtime` (BPF and Go) | `cpu_acct_by_pid` (per CPU), `prevSeen` | `trace_sched_switch`, `pollOnce` | shared map, resolver | a task is charged for the time it ran |
| `proc_exit` (BPF and Go) | perf ring, event channel | `handle_proc_exit`, `run` | perf buffer, resolver, main | each exit of a container's process is one event |
| `detect/detect.py` | none | train, score | CSV | the rules fire on what the baseline did not have |

Visualisation, `cmd/p1demo`, the experiment scripts, `bpf/test.bpf.c` and the
generated bindings carry no logic of the agent and are not modelled.

### What is hard

* **Kernel against user space.** A program instance runs between any two steps
  of the agent. It looks a container up, then its histogram, then increments two
  counters; the agent meanwhile replaces map entries and copies histograms.
* **Two goroutines over one collector.** The refresh goroutine updates mappings
  under a mutex, the poll goroutine reads the histogram *before* it takes it.
* **Containers restart.** The same container gets a new cgroup, under the same
  index; the agent notices up to a refresh later, from answers that are already
  stale when it uses them.
* **Bounded maps and channels** that refuse, drop or block.
* **Independent tickers** (refresh, four polls, cgroup samples, windows), so that
  any number of one kind of event falls between two of another.
* **Iteration over a map that others change**, with deletion in the loop.
* **Pids are reused** and change: between an exit and its resolution, between two
  reads of `/proc`, between two polls, and in an `execve` of a thread.
* **Shutdown** waits for goroutines that may be blocked on channels which nobody
  empties any more, and then closes what they used.
* **A run may end anywhere**, and the next one appends to the same file.

`PROJECT.json` lists the hazards line by line with the properties that cover them.

## Modules

| Module | Models | Extends |
|---|---|---|
| `BpfMaps` | keyed maps with a capacity | |
| `ContainerWorld` | docker containers and the cgroups of their runs (external) | |
| `SyscallTrace` | `bpf/syscall_trace.bpf.c` | `BpfMaps`, `ContainerWorld` |
| `SyscallCollector` | `pkg/collector/syscalls/collector.go` | `SyscallTrace` |
| `SyscallAgent` | `updateMappings` and the refresh goroutine; composes the pipeline | `SyscallCollector` |
| `Aggregator` | `pkg/feature/aggregator.go` with main's select loop | `BpfMaps` |
| `CgroupMeter` | `pollCgroup`, `Reader.Read`, `IngestCgroup` against windows | |
| `TcpStats` | `bpf/tcp_stats.bpf.c` and `pkg/collector/tcpstats` | `BpfMaps` |
| `Resolver` | `pkg/container/resolver.go`: concurrent `Resolve` against `Refresh` | `BpfMaps` |
| `PidRuntime` | `bpf/pid_runtime.bpf.c` and `pkg/collector/pidruntime` | `BpfMaps` |
| `ProcExit` | `bpf/proc_exit.bpf.c` and `pkg/collector/procexit` | `BpfMaps` |
| `Shutdown` | main's select loop and deferred calls, `run` and `Stop` of the polling collectors; composes them with the exit collector | `ProcExit` |
| `Encoder` | `pkg/feature/csv.go` over several runs | |
| `Meter` | abstract: what a stage promises of the numbers that pass through it | |
| `MCSyscallAgent`, `MCTcpStats` | symmetry sets for TLC, and a restriction for `MCSyscallCount` | |
| `MCCpuTime` | the two accounts of CPU time, one or the other in a behaviour | `PidRuntime`, `CgroupMeter` |
| `MCShutdown` | the pollers of the instance | |
| `LedgerLemmas` | lemmas about maps, sums over finite sets, and sums over sequences | |
| `SyscallAgentProofs`, `AggregatorProofs`, `TcpStatsProofs`, `ShutdownProofs` | theorems | the module of that name, `LedgerLemmas` |
| `CpuTimeProofs` | theorems about the two accounts of CPU time in a vector | `PidRuntime`, `CgroupMeter`, `LedgerLemmas` |
| `ResolverProofs`, `EncoderProofs` | theorems | the module of that name |

`BpfMaps` is also used for the Go maps, which have the same operations. The
composition is by stages: a module whose input is another module's output takes
it as a choice of everything the other may hand over. `SyscallAgent` and
`Shutdown` compose components that share state.

### Meter

`Meter` has two variables, what was *done* and what was *told* to the next stage,
per key, and says that the first only grows, that the second only grows, and that
a telling never goes beyond what was done. Three collectors implement it, each
under its own refinement mapping (`INSTANCE Meter WITH`):

| Module | done | told |
|---|---|---|
| `SyscallAgent` (`MetersSyscalls`) | each counter of each histogram | rows, summed over all polls |
| `TcpStats` (`MetersCalls`) | calls of a process group, and those credited to it through a stale pointer | rows |
| `PidRuntime` (`MetersCpu`) | charged time, and totals forgotten after a failed iteration | rows |

What the collectors tell is what the aggregator ingests, and `CountedOnce` says that
the aggregator puts it into vectors once; for the cgroup's counters `NotOverReported`
says it directly. So no number in a vector is larger than what happened in the
kernel, up to the exceptions that the mappings name. A mapping that left an exception
out would fail in its run.

### Syscall pipeline

*World.* A cgroup id is the pair of a container and the number of its run:
docker makes a new cgroup for each run, and the kernel does not reuse ids.
Containers start and stop at any time, except that a container stays up while one
of its tasks is inside the traced system call (`Busy`), as the task is in the cgroup.

*BPF program.* `prog[p]` is the instance that runs on CPU `p`: after `Enter` (the
lookup in `cgid_map`) it takes `LookupCounts`, on a miss `CreateCounts` and
`LookupAgain`, then `CountTotal` and `CountBucket`, one action for each access to
shared memory. A CPU runs one instance at a time. Histograms are per CPU.

*Elements of `cgid_map`.* The first lookup returns a pointer into the map, through
which the program reads the index up to three times. The map is preallocated:
`bpf_map_update_elem` on a key that is there writes the spare element of the CPU,
links it and keeps the old element as the next spare; a new key takes an element
from the free list, where `bpf_map_delete_elem` puts them; neither waits for
programs that still point to an element. So an instance has an `elem`, the place of
the element that it found: the entry of a cgroup, a spare, or the free list. `Relink`
(part of `PutOne`) and `Unlink` (part of `CleanVisit`) move elements between places, and
when a put takes an element from a place, any of the instances that point there may
be the ones whose element it is: these get the new entry's index and are marked
`rewritten`. Every refresh writes every entry again, so it takes two puts of one
update, and no container needs to start or end.

*UpdateContainers.* `BeginUpdate` takes the mutex, `PutOne` writes one mapping,
`PutFails` is the early return on a full map (no cleanup, no commit),
`CleanVisit` is one turn of the cleanup loop, and `CommitUpdate` replaces
`idxToCid` and releases the mutex. Deleting the key an iterator stands on makes
it start over, and it gives up after `max_entries + 1` keys; both are modelled.

*pollOnce.* `PollStart`, then for each entry `ReadEntry` and one `ReadWord` per
CPU and counter, then `PollCommit` under the mutex. The counters of a CPU are
copied word by word from the start of the struct, `total` first.

*updateMappings.* `Refresh` is a docker refresh: all created containers (docker is
asked for stopped ones too), with the init process of those that run. All
inspections of one refresh are taken at one moment; each is used later, in
`MapOne`, so it may be stale by then. `HasCgroup` says when the path is found: at
the conventional place (`SystemdLayout`), or through the inspected init process.
`EndBuild` calls `UpdateContainers` only if there is a mapping.

History variables: `issued`, `dropped`, `origin` (whose calls an index counted, and
whether by a rewritten instance),
`reported` (sums of rows), `settled` (indices that an update which has ended put
into `cgid_map`).

### Aggregator

`Ingest`, `Write` and `Stop` are the main goroutine, `Finalize`, `Send` and
`RunReturns` the goroutine of `Run`, `IngestCgroup` and `Refresh` the other two
goroutines as far as names go, which nothing stops before the process exits. Time is
counted in windows. The ticker's channel
holds one tick, as Go's does: a tick that finds it full is dropped. A name is
missing, made up from the container id, or docker's. The history `since` is when the
oldest row of an accumulator was ingested, which `RowsNotPostponed` compares with the
beginning of the window that reports it.

### Cgroup meter

One container, since each has its own accumulator. `Consume` and `Restart` are the
kernel; `Read` and `Ingest` are two actions because windows close in between.
Deltas are divided by `Unit` and lose the remainder, as in the code. `Miss` is a
read whose directory was found but whose file could not be opened any more
(`readCPUStat` then leaves zeros): `IngestCgroup` takes the zeros for counters, so
the previous total is forgotten and a later sample charges that part again. The
histories `owed` and `dropped` say how much: `NotOverReported` bounds what is
charged by what was consumed plus what was dropped. `UsedBefore` is what the
container used before the agent came; its first sample charges all of it.
`CgroupInit`, `CgroupNext` and `CgroupSpec` have a prefix because `CpuTimeProofs`
extends this module together with `PidRuntime`.

### TCP collector

`Call`, `Add` and `Create` are a probe's lookup, addition and creation. A probe
keeps a pointer to the *element* it found; `table` says which element belongs to
which process group, and a freed element may be handed out again at once, even
while a probe points to it, which the kernel allows. The history `astray` counts
what such pointers credit to another group. Process groups are numbered by their
place in the hash order, which decides what the iterator returns next: the key
after the cursor, or the first one if the cursor's key is gone. All counters of
the struct are bumped alike, so one stands for them.

### Resolver

`proc` is the process that has a pid, with the container its cgroup belongs to;
`starts` stands for its start time. `Fork`, `Join` (runc forks outside and joins the
container's cgroup later), `Reap`, `Create` and `Remove` are the kernel and docker.
`Resolve` takes three steps, `ReadStart`, then `Lookup` under the read lock,
`ReadCgroup`, which asks for the pid again, and `Store` under the lock: two callers
and `Refresh` (`RefreshList`, `RefreshCommit`) go in between, and the pid may have
another owner at each of them. The history `was` of a call holds every container
that a process with this pid was in since the call began.

### CPU runtime collector

A `Switch` is one run of `trace_sched_switch`: it charges the outgoing task and
stamps the incoming one, in the values of its own CPU. That a task is on one CPU at
a time is the kernel's promise and a guard of `Switch`. `Exec` is an `execve` by a
thread that is not the leader: the kernel gives the running thread the leader's pid,
so that the outgoing pid of the next switch is one that was never stamped on this
CPU. `Iterate` is the loop over the map, which may also stop after some keys
(`iter.Err()` is not asked), with the eviction that follows; `Row` is one turn of
the loop that builds rows, with the resolution of the pid at that time. `ran` is
what each task really ran, in which container.

### Process exits and shutdown

`Output` is `bpf_perf_event_output`: a record of what was lost goes ahead of the
event if both fit, otherwise the event is lost and counted in `missed`. `Read`,
`Resolve`, `Send` and `Return` are the goroutine of `run`; resolution comes after the
exit, so that the pid may be a zombie, gone or another's (`ContainerOf`).
`ExecAfterExit` is a thread that does `execve` after its leader has exited and so
becomes a leader that exits again: the program then emits two events for one
process, which its comment ("every process (not thread) exit",
`proc_exit.bpf.c:10`) does not expect.

In `Shutdown`, `main` is 0 in the select loop, afterwards the deferred call in
progress, in the order of `Deferred`, and `step` is where that call is in its
`Steps`: one for each `close(stopCh)`, `rd.Close()`, `wg.Wait()` and the closing of
maps and channels. A poller waits for a
tick, polls, sends; `select` may take any ready case, so that a closed `stopCh` does
not mean that the goroutine returns at once. `ClosedIsUnused` says that nobody is
left that could send on a closed channel, which panics. The refresh goroutine and
`pollCgroup` are never waited for: after the stop of the syscall collector,
`UpdateContainers` gets an error from the closed map, which is logged.

### Encoder

The file is a sequence of lines; a line that was cut short has no end, so that the
next thing written continues it. `Stat` and `Open` are two actions because a run may
end in between, and before `WriteHeader`. `Flush` may put all of a line, a part of it
or nothing into the file, and an error is remembered by the writers of the run,
which then write nothing any more (`bufio.Writer` keeps its first error).

## Runs

Properties that hold:

| Run | Instance | Shows |
|---|---|---|
| `MCSyscallChurn` | 2 containers, 2 runs each, `cgid_map` with room for 3 of the 4 cgroups, 1 CPU, 1 call; 3.1 M states | attribution survives every interleaving of restarts, refreshes, half-done and failing updates, reused elements, polls and a call, and no poll sees an update half-done |
| `MCSyscallCount` | 2 containers, 2 runs each, 2 CPUs, 2 calls, 1 histogram entry, `cgid_map` with room for 2, no polls; 1.2 M states | first touch by two CPUs keeps every count, and a call is dropped only if the histogram map is full or its instance was rewritten |
| `MCSyscallLive` | 1 container, 2 runs, 2 calls; 0.15 M states | reads are torn by at most one call per CPU; implements `Meter`, so nothing is reported twice; calls get reported, runs get mapped |
| `MCAggregator` | 1 container and the host, 2 rows, 3 windows, channel of 1; 58 k states | rows, vectors, windows and names; vectors get written, `Stop` ends `Run`, and no row is reported in a window that began after it |
| `MCTcpStats` | 3 process groups, 2 CPUs, 2 elements, 4 calls; 49 k states | every count has exactly one place; implements `Meter` |
| `MCResolver` | 1 pid with 2 owners, 2 containers, 2 callers; 0.18 M states | a live process is never cached under a foreign container, an answer is never older than its question, a removed container is forgotten in the end |
| `MCCpuTime` | 2 pids, 2 CPUs, map with room for 1, clock up to 4, 1 new process, 1 rename or failed iteration; a cgroup's usage up to 6, unit 2, 3 windows, 2 failed reads; 0.8 M states | charged time is the time run, whatever CPUs a task moves between; who is charged for it; implements `Meter`. A cgroup's container is never charged beyond what was consumed and forgotten |
| `MCShutdown` | 1 pid with 3 lives, a ring for one event and one note, channels of 1, 1 poller; 80 k states | every exit has one place; a signal ends the agent wherever its goroutines are, and nothing closed is used |
| `MCEncoder` | 3 runs with 3 rows each; 2.8 k states | at most one header, at the start; an acknowledged row is readable |

The bounds are small but not too small: two runs of a container are what it takes
for a stale cgroup; two containers for a wrong attribution; two CPUs for a
creation race; one call is followed through every interleaving, and a second
makes a delta differ from a total; a channel of one blocks as a channel of 256
does. The runs of the pipeline divide the work, because two containers, two CPUs,
two calls and polls at once have too many states. `MCSyscallCount` leaves the polls
out (`NoPoll`): `pollOnce` only reads what the program and the updates write, and no
update waits for it, so neither what is counted nor where depends on a poll.
`MCSyscallChurn` and `MCSyscallLive` have one CPU, on which one copy of a histogram is
already torn by the call under way. Inspections fail in `MCSyscallReuse` only; the
theorems hold with and without such failures and for any number of CPUs, and the Churn
run has the other way to a stale answer, a container that restarts after it was
inspected. `PidRuntime` and `CgroupMeter` share no variable and are stepped one or the
other in a behaviour of `MCCpuTime`. Three windows give a row with a predecessor that
had one. Both BPF maps and the TCP map are smaller than what wants to get in. Two elements and four calls let
the TCP iteration meet more keys than the map has elements, so the iterator's
limit is reached. Two owners of a pid and two callers are what it takes for a
stale entry: one caller stores while the other is between its reads. A clock of
four stamps a task, moves it to the other CPU and charges it there. Three lives
are two processes and one `execve`, more than the ring and the channel hold. In
`Encoder` the third run shows what the second leaves behind after the first was
cut. The pollers of `Shutdown` share nothing with each other and are stopped one
after the other, so that one of the three stands for each.

Deadlock is checked in all runs: only the aggregator, the agent as a whole and the
runs of the encoder end, and they have explicit steps for it (`Ended`, `Over`).

Disagreements with comments of the source, one run each (`PROJECT.json`,
"findings", quotes them):

| Run | What happens |
|---|---|
| `MCSyscallRestartFull` | cgroups of earlier runs fill `cgid_map`: updates fail for good, a running container is never mapped |
| `MCSyscallReuse` | an instance finds its element, an update writes its container's entry anew and then another container's into that element, before the instance reads its index: the call is in the other container's row |
| `MCCgroupTwoSamples` | the second sample of a window replaces the first |

The models also contain behaviour of which a reader should know, and which no run
singles out:

* `EndBuild`: when the last container stops, `UpdateContainers` is not called at
  all and the old entries stay (`main.go:101`).
* `CleanVisit`: the cleanup compares indices, and a restarted container keeps its
  index, so the cgroup of an earlier run stays (`collector.go:131`).
* `PutFails`: an update that fails leaves the entries it wrote, and their calls
  are counted and reported without a container until an update succeeds.
* `PollCommit`: a container that stopped before the poll has no name any more and
  its last calls are reported as the host's, although the lookup in the program is
  said to make attribution survive exits (`syscall_trace.bpf.c:97`). A row is
  skipped if its total did not grow, after `prevSeen` took over the buckets: a
  bucket that was read without its total is lost (`collector.go:229`). Nothing
  deletes from `syscalls_by_cgid`, so the loop under "Evict dead container indices"
  (`collector.go:217`) finds nothing to evict.
* `Relink`: an instance that is delayed over two puts into the map may also read an
  index whose histogram does not exist yet and return without counting
  (`syscall_trace.bpf.c:143`), although the histogram map has room.
* `Stop` of `Aggregator`: "Stop drains the loop" (`aggregator.go:123`), but main
  returns at once: vectors in the channel and rows of the open window are not
  written.
* `Ingest` of `CgroupMeter`: the first sample charges a container's whole past to
  one window (`aggregator.go:213`).
* `Create` of `TcpStats`: of two CPUs that create an entry at once, the second
  loses its count, as the result of the update is ignored (`tcp_stats.bpf.c:57`).
* `PollRead` of `TcpStats`: after a deletion the iterator may start over, a busy
  group is read twice in a poll and the second sum replaces the first
  (`tcpstats/collector.go:173`): more than the "counts between read+delete" that
  the comment at line 151 accepts.
* `Store` of `Resolver`: a process that is resolved before it joins its container
  is cached as the host's until it exits, as `Refresh` drops no such entry; for the
  same reason the cache grows with every host process that is asked about.
* `Iterate` of `PidRuntime`: the program deletes nothing, so pids that have exited
  are still read and never "evicted from prevSeen" (`pidruntime/collector.go:116`),
  the map fills up, and a new process inherits the total of its pid. A failed
  iteration, on the other hand, evicts pids that are alive and reports their totals
  again.
* `Exec` of `PidRuntime`: the renamed task is charged from stamp 0, that is for the
  machine's uptime (`pid_runtime.bpf.c:60`).
* `Read` of `ProcExit`: the record that tells of lost events is skipped, so losses
  are not counted (`procexit/collector.go:116`).
* `WriteHeader` of `Encoder`: the error of the first flush is ignored; a run that
  ends before it leaves a file without a header for good, and a line that was cut
  is continued by the first row of the next run.

### Fairness

`SyscallAgent`: weak fairness of the refresh goroutine and of every program
instance that has begun; strong fairness of the poll goroutine, because
`sync.Mutex` hands the lock to a waiter that is starved, although updates keep
coming. Nothing is assumed of docker, of containers or of system calls.
`RunningIsMapped` assumes reliable inspections and room in the map by its
constants. `Aggregator`: weak fairness of time, of main's receive from the
vector channel (a select with several ready cases picks at random) and of `Run`.
`Resolver`: weak fairness of both steps of the refresh ticker and of every call
that has begun, nothing of processes and docker. `Shutdown`: weak fairness of main's cases, of its deferred
calls, of the exit collector's goroutine and of each poller's next step. Strong fairness is
assumed only of a poller's choice of `stopCh`: the closed channel is
ready each time the poller comes to its select, and a random choice takes it in
the end. Nothing is assumed of processes or of the signal.

## Proofs

Checked by the TLA+ proof system for all values of the constants:

* `TypeCorrect` (in every proof module, and `CgroupTypeCorrect`): the type invariants.
  For the composed syscall pipeline it is
  inductive together with nothing but the phase of an update; one lemma per group of
  actions. For the encoder it needs what each state of a run says of the file: it
  exists from `Open` on. In `TcpStats` a loss is a difference, and is a natural number
  because no element belongs to two process groups and an entry that is being read
  keeps its element and its counts. In `PidRuntime` a charge and a delta are
  differences, and the invariant says why neither is negative: stamps are never
  later than the clock, and totals that were reported or read are never above those in
  the map. In `Shutdown`, what `run` sends was resolved to a container.
* `Attribution`: `RowsOfOwnContainer`, with elements of `cgid_map` reused at once. The
  inductive invariant follows an index through every place it is stored in: the
  hand-out is injective and below `nextIdx`; mappings under construction, in an
  update and in `cgid_map` carry the index of their cgroup's owner; so do program
  instances that are not marked `rewritten`; hence an index counts one container's
  calls and those of marked instances, and `idxToCid` names that container. The
  property alone is not inductive: it says nothing of indices that are still on their
  way. What the exception lets through is what `MCSyscallReuse` shows; it cannot be
  dropped.
* `UnnamedRowsAreSettled`: `HostRowsSettled`. The invariant says that everything that
  has an index (`cgid_map`, program instances, histograms, what a poll has read) has
  one that an ended update wrote or the update in progress has written; while the
  mutex is free, which is when names are given, the second kind is empty. Rewritten
  instances are no exception: what they read was written by the same updates.
* `CountersGrow`: `CountersOnlyGrow`, from the type invariant.
* `EachRowInOneWindow`: `CountedOnce`, inductive with the types of the three
  variables it relates.
* `RowsInTime`: `RowsNotPostponed`. The first tick is at 1 and waits in the ticker's
  channel until `Run` takes it; afterwards the open window began at a tick that is not
  later than the clock, and every row in an accumulator was ingested after that.
* `RowsAreContiguous`: `WindowsTile`. The vectors of a container wait in the channel, in
  the order of sending, then in `pending`, then in the open window; the invariant
  says that each of these begins where the one before it ends, the first where the
  latest row in the file ended. The action property is its first link.
* `RowsKeepTheirName`: `NamesImprove`, along the same queue: behind a vector with
  docker's name there is none without it, up to the accumulator.
* `ChargedAtMostConsumed`: `NotOverReported`. The invariant adds that the usage of
  the current run grew by no more than what was consumed since the last ingested
  sample (and likewise for a sample that is still on its way), and that nothing is
  charged beyond that sample; what misses took from the previous total is carried
  along as `owed` until a real sample charges it.
* `CacheNotForeign`: `LiveNotForeign`. Cached entries and calls under way name start
  times that have been; one that names the current start time of a live process
  names its container or the host. This is inductive because a process that joins a
  container was the host's before, and a new process has a start time that nothing
  names yet.
* `AnswersNotStale`: `AnswersWereThere`. The invariant adds that what a call has read,
  and the cache entry of a process that still has the pid, are in the call's `was`.
* `OneHeader`: `HeaderOnce`. A run that will write a header found no file, so the
  file is empty until it does; a file without its header at the start was left by a
  bad start.
* `AcknowledgedRows`: `AckedIsReadable`. The invariant adds that the latest row of a
  run without a write error ends its line, which is what the next row starts after.
* `NothingClosedIsUsed`: `ClosedIsUnused`, for any number of pollers. The invariant
  says that whenever the next step of the deferred calls is a release, the goroutine of
  that collector has returned: no collector has a release first, each one waits in
  the step before it, and a goroutine that has returned does not come back.
* `EveryCallHasAPlace`: `EveryCallAccounted` of the syscall pipeline. An instance on
  its way to a counter has a histogram to write to, the map never outgrows its
  capacity, and an instance that looks a histogram up again and was not rewritten has
  just created it or found the map full; with this each step takes a call from one place and puts it in another.
* `ReadsAreTornByOne`: `TornByOnePerCpu`. The words of a CPU differ by at most the
  instance between its two increments. A copy under way is balanced against what its
  unread words still hold: for each CPU whose total has been read, its unread
  buckets, which only grow meanwhile, and one call.
* `SyscallsAreMetered`: the syscall pipeline implements `Meter`. What was read of a counter,
  together with the words that are still to be read, lies between what the last poll
  saw and what is counted, so that `prevSeen` is below every later read and the clamp in
  `subtract` never takes effect; what was reported is at most what was seen.
* `NoVectorIsLost`: `VectorsKept`. The invariant adds that `pending` is finite; a window
  makes one vector of each container, so that the sums over `pending` and over the
  channel exchange exactly one vector in each step.
* `EveryCountHasAPlace`: `EveryCallAccounted` of the TCP collector, on top of the
  element discipline of its `TypeCorrect`. `CallsAreMetered`: the TCP collector implements
  `Meter`. Here each process group has a ledger of its own, in which a probe that is
  under way counts for the group that issued it.
* `EveryExitHasAPlace`: `ExitsAccounted`. Records of a ring weigh one event, or as many
  as their note tells of. `NoExitIsInvented`: `ExitsNotInvented`. The credit of a
  container covers what it was credited with and, for each pid that is its own,
  the events under way and one more while the leader is alive; a pid that changes
  hands brings the events under way along.
* `TimeIsExact`: `RuntimeExact`. A task that was not renamed is stamped on its CPU exactly
  if it has an entry, so that entry and stamp together, on all CPUs, are what it ran.
* `NotOvercharged`: `ContainerNotOvercharged`. What the entries of a container's pids hold
  beyond what was reported is *due* to it. What it was credited with and what is due
  stay below what its tasks ran, what its pids inherited, what was forgotten, and the
  uptime once per rename.
* `CpuTimeIsMetered`: the CPU runtime collector implements `Meter`. What was credited is
  the sum of `prevSeen` and of what failed iterations forgot, and no entry of
  `prevSeen` is above the map's total.

Many of these are ledgers: sums over CPUs, pids, buckets or the positions of a
channel. `LedgerLemmas` proves that a sum over a finite set does not depend on the
order in which it is taken, and from this what happens to it if one entry changes, if all
grow, if it is split, or if a sequence loses its head or gets a new last element. The
library's induction theorems take a predicate, which the provers cannot instantiate; the
lemmas use induction over *sets of subsets* instead: a family of subsets that has the
empty set, and with each set that set and one element more, has all finite sets.

The assumptions are the named `ASSUME`s on constants, which TLC evaluates in the
runs; no theorem has another one. They say that there are finitely many CPUs, buckets, map elements, pids, process groups and containers
(sums are taken over them), that capacities and bounds are natural numbers, and that
the values that stand for nobody (`Host`, `Idle`) are not among the others.

Only model-checked: liveness, which is outside the prover's reach as it rests on
fairness: `TotalsReported`, `RunningIsMapped`, `IngestedIsWritten`, `StopEndsRun`,
`RemovedForgotten`, `SignalEndsAgent` and `ResolvedIsIngested`. Every safety property
that a passing run checks is the statement of a theorem.

## Not modelled

* The 64-bit counters do not overflow in any realistic run and are natural
  numbers.
* BPF loading, HTTP over docker's socket, the decoding of perf samples and the
  formatting of a CSV row are data conversions without state.
* `ResolveFast`, `pidSet`, `ClearCache` and `WriteHeaderTo` have no caller in the
  agent.
* The cgroup reader's point-in-time gauges (`memory.current`, pressure, the throttle
  ratio) and the cumulative `oom_kill` are copied from file to vector.
* The detector is a script over a finished file: IsolationForest and PCA are numerical
  library code, and its rules are comparisons with fixed thresholds, without any
  order of events.
* Visualisation, `cmd/p1demo`, the experiment scripts and `bpf/test.bpf.c` are no part
  of the running agent. `bpf/vmlinux.h` and the Go bindings are generated, the former
  being the declarations of the kernel's types.

## Plan

Done: all components of the running agent, each with a run, and `Meter` as the
promise of the three collectors that poll counters of the kernel.

All invariants and action properties of the passing runs are theorems. What is left:
the steps between the stages as lemmas (what a collector tells is what the aggregator
ingests), and the safety part of the liveness properties: what each of them needs to
stay possible, such as that a full channel always has a receiver until main stops.
