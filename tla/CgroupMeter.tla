----------------------------- MODULE CgroupMeter -----------------------------
(* The cgroup features of a Vector: the pollCgroup goroutine of               *)
(* cmd/agent/main.go, Reader.Read of pkg/cgroup/reader.go and IngestCgroup of *)
(* pkg/feature/aggregator.go, against windows that the Run goroutine closes   *)
(* at any time.  Every container has an accumulator of its own, so one        *)
(* container and its restarts are modelled.  usage_usec, rbytes and wbytes    *)
(* are treated alike by the code; usage stands for any of them.               *)
EXTENDS Naturals

CONSTANTS Unit,            \* divisor of a delta (1000 for usec, 2^20 for bytes)
          MaxUsage,        \* bound: usage over all runs
          MaxWindows,      \* bound: windows
          UsedBefore,      \* usage of the running container at agent start
          MaxMisses        \* bound: reads that fail to open the file

ASSUME MeterAssumption ==
  /\ Unit \in Nat \ {0}
  /\ MaxUsage \in Nat /\ MaxWindows \in Nat /\ MaxMisses \in Nat
  /\ UsedBefore \in 0 .. MaxUsage

VARIABLES usage,       \* cumulative usage of the current run's cgroup
          sample,      \* stats read and not yet ingested
          prev,        \* ac.prevCPUUsageUsec, prevIORead, prevIOWrite
          delta,       \* v.CgroupCPUUsageMS, CgroupIOReadMB, CgroupIOWriteMB
          consumed,    \* history: usage of all runs
          sampledAt,   \* history: consumed when sample was read
          ingestedAt,  \* history: consumed when the last one ingested was read
          misses,      \* history: reads that failed to open the file
          owed,        \* history: of prev, what misses dropped since ingestedAt
          dropped,     \* history: of prev, what misses ever dropped
          sumDelta,    \* history: delta summed over the finished windows
          windows      \* history: finished windows

ledger == <<sumDelta, windows>>
lapses == <<misses, owed, dropped>>
cgroupVars == <<usage, sample, prev, delta, consumed, sampledAt, ingestedAt,
                lapses, ledger>>

NoSample == [some |-> FALSE, real |-> FALSE, usage |-> 0]

\* real: the file was open when usage was read.
Samples == [some : BOOLEAN, real : BOOLEAN, usage : Nat]

CgroupTypeOK ==
  /\ usage \in Nat /\ prev \in Nat /\ delta \in Nat
  /\ sample \in Samples
  /\ consumed \in Nat /\ sampledAt \in Nat /\ ingestedAt \in Nat
  /\ misses \in 0 .. MaxMisses /\ owed \in Nat /\ dropped \in Nat
  /\ sumDelta \in Nat /\ windows \in 0 .. MaxWindows

CgroupInit ==
  /\ usage = UsedBefore /\ consumed = UsedBefore
  /\ sample = NoSample
  /\ prev = 0 /\ delta = 0
  /\ sampledAt = 0 /\ ingestedAt = 0
  /\ misses = 0 /\ owed = 0 /\ dropped = 0
  /\ sumDelta = 0 /\ windows = 0

-----------------------------------------------------------------------------
(* The container and its cgroup, kept by the kernel *)

Consume ==
  /\ consumed < MaxUsage
  /\ usage' = usage + 1 /\ consumed' = consumed + 1
  /\ UNCHANGED <<sample, prev, delta, sampledAt, ingestedAt, lapses, ledger>>

\* A restarted container has a new cgroup, whose counters start at zero.
Restart ==
  /\ usage > 0
  /\ usage' = 0
  /\ UNCHANGED <<sample, prev, delta, consumed, sampledAt, ingestedAt, lapses,
                 ledger>>

-----------------------------------------------------------------------------
(* The agent *)

\* The file that holds usage is read.
Read ==
  /\ ~sample.some
  /\ sample' = [some |-> TRUE, real |-> TRUE, usage |-> usage]
  /\ sampledAt' = consumed
  /\ UNCHANGED <<usage, prev, delta, consumed, ingestedAt, lapses, ledger>>

\* The directory was there, but the file cannot be opened: its counters are
\* left at zero, and the sample is used like any other.
Miss ==
  /\ ~sample.some
  /\ misses < MaxMisses
  /\ sample' = [some |-> TRUE, real |-> FALSE, usage |-> 0]
  /\ misses' = misses + 1
  /\ UNCHANGED <<usage, prev, delta, consumed, sampledAt, ingestedAt, owed,
                 dropped, ledger>>

DeltaOfAll(new) == new \div Unit

DeltaUnguarded(new) == (new - prev) \div Unit

\* The delta is set, not added; a counter that went back leaves it alone.
NewDelta(new) == IF new >= prev THEN (new - prev) \div Unit ELSE delta

\* The previous total is replaced in either case.
NewPrev(new) == new

Ingest ==
  /\ sample.some
  /\ delta' = NewDelta(sample.usage)
  /\ prev' = NewPrev(sample.usage)
  /\ sample' = NoSample
  /\ IF sample.real
     THEN ingestedAt' = sampledAt /\ owed' = 0 /\ UNCHANGED dropped
     ELSE owed' = owed + prev /\ dropped' = dropped + prev
          /\ UNCHANGED ingestedAt
  /\ UNCHANGED <<usage, consumed, sampledAt, misses, ledger>>

\* Run: the vector is emitted, the delta fields are reset, prev is kept.
CloseWindow ==
  /\ windows < MaxWindows
  /\ windows' = windows + 1
  /\ sumDelta' = sumDelta + delta
  /\ delta' = 0
  /\ UNCHANGED <<usage, sample, prev, consumed, sampledAt, ingestedAt, lapses>>

CgroupNext ==
  \/ Consume
  \/ Restart
  \/ Read
  \/ Miss
  \/ Ingest
  \/ CloseWindow

CgroupSpec == CgroupInit /\ [][CgroupNext]_cgroupVars

-----------------------------------------------------------------------------
(* Properties *)

\* Over all windows a container is never charged for more than it consumed,
\* whenever windows close and however often it restarts, but for what a file
\* that could not be opened made the agent forget and charge again.
NotOverReported == (sumDelta + delta) * Unit <= consumed + dropped

-----------------------------------------------------------------------------
(* What comments of the source say and the code does not do. *)

\* A Vector is "one container's behavior in one window" and holds the
\* "cpu.stat usage_usec delta" (aggregator.go): a second sample adds to what the
\* first one of the same window found.
SamplesAddUp ==
  [][sample.real /\ ~sample'.some /\ sample.usage >= prev =>
       sumDelta' + delta' =
         sumDelta + delta + (sample.usage - prev) \div Unit]_cgroupVars
=============================================================================
