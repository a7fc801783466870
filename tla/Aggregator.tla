----------------------------- MODULE Aggregator -----------------------------
(* pkg/feature/aggregator.go with its two users in cmd/agent/main.go: the main *)
(* goroutine, whose select loop feeds collector output in and takes finished   *)
(* vectors out, and the goroutine of Run, which finalizes every accumulator on *)
(* each window tick and then sends the vectors, outside the lock, into a       *)
(* channel that only the main goroutine drains.                                *)
EXTENDS BpfMaps, Sequences, Functions, FiniteSetsExt

CONSTANTS Cids,         \* container ids
          Host,         \* the empty container id
          Metrics,      \* the summed features of a Vector
          BufferSize,   \* capacity of the channel out (256 in main)
          MaxIngests,   \* bound: rows that collectors deliver
          MaxTicks      \* bound: window lengths the agent runs for

ASSUME AggregatorAssumption ==
  /\ IsFiniteSet(Cids)
  /\ Host \notin Cids
  /\ BufferSize \in Nat \ {0}
  /\ MaxIngests \in Nat
  /\ MaxTicks \in Nat

VARIABLES acc,          \* cid -> [counts, name]: the accumulators
          known,        \* the resolver's containers
          clock,        \* time, in windows since Run started
          tick,         \* the buffered time of the ticker's channel (0: empty)
          windowStart,  \* Run's variable (NoTime until the first tick)
          pending,      \* vectors that Run still has to send
          out,          \* the channel of vectors
          stopped,      \* stopCh is closed: main has returned from its loop
          running,      \* Run has not returned
          ingested,     \* history: cid -> counts handed to the ingest methods
          finalized,    \* history: cid -> counts put into vectors
          written,      \* history: cid -> counts of the rows in the CSV file
          since,        \* history: cid -> when the oldest row in acc was ingested
          lastEnd,      \* history: cid -> WindowEnd of its latest row
          lastName      \* history: cid -> the name in its latest row

vars == <<acc, known, clock, tick, windowStart, pending, out, stopped, running,
          ingested, finalized, written, since, lastEnd, lastName>>

Keys == Cids \cup {Host}

NoTime == MaxTicks + 1

Counts == [Metrics -> Nat]

ZeroCounts == [m \in Metrics |-> 0]

\* A name is missing, made up from the container id, or docker's.
Names == {"none", "cid", "docker"}

Accumulators == [counts : Counts, name : Names]

Vectors == [cid : Keys, start : 0 .. MaxTicks, end : 1 .. MaxTicks,
            counts : Counts, name : Names]

TypeOK ==
  /\ IsMap(acc, Keys, Accumulators)
  /\ clock \in 0 .. MaxTicks
  /\ tick \in 0 .. MaxTicks
  /\ windowStart \in (1 .. MaxTicks) \cup {NoTime}
  /\ pending \subseteq Vectors
  /\ out \in Seq(Vectors) /\ Len(out) <= BufferSize
  /\ stopped \in BOOLEAN /\ running \in BOOLEAN
  /\ ingested \in [Keys -> Counts]
  /\ finalized \in [Keys -> Counts]
  /\ written \in [Keys -> Counts]
  /\ since \in [Keys -> 0 .. MaxTicks]
  /\ lastEnd \in [Keys -> 0 .. MaxTicks]
  /\ lastName \in [Keys -> Names]
  /\ known \subseteq Cids

Init ==
  /\ acc = EmptyMap
  /\ clock = 0 /\ tick = 0 /\ windowStart = NoTime
  /\ pending = {} /\ out = <<>>
  /\ stopped = FALSE /\ running = TRUE
  /\ ingested = [c \in Keys |-> ZeroCounts]
  /\ finalized = [c \in Keys |-> ZeroCounts]
  /\ written = [c \in Keys |-> ZeroCounts]
  /\ since = [c \in Keys |-> 0]
  /\ lastEnd = [c \in Keys |-> 0]
  /\ lastName = [c \in Keys |-> "none"]
  /\ known \in SUBSET Cids

Plus(a, b) == [m \in Metrics |-> a[m] + b[m]]

One(m) == [ZeroCounts EXCEPT ![m] = 1]

Sum(counts) == SumFunction(counts)

-----------------------------------------------------------------------------
(* Time.  A ticker whose receiver is late keeps one tick and drops the rest. *)

Advance ==
  /\ clock < MaxTicks
  /\ clock' = clock + 1
  /\ tick' = IF tick = 0 THEN clock + 1 ELSE tick
  /\ UNCHANGED <<acc, known, windowStart, pending, out, stopped, running,
                 ingested, finalized, written, since, lastEnd, lastName>>

-----------------------------------------------------------------------------
(* The main goroutine *)

NewAccumulator == [counts |-> ZeroCounts, name |-> "none"]

\* accFor, then the additions of an ingest method: one row of a snapshot (or
\* one exit event).  Rows of a snapshot are added under one lock, each to the
\* accumulator of its own container.
Ingest(c, m) ==
  /\ ~stopped
  /\ SumFunction([k \in Keys |-> Sum(ingested[k])]) < MaxIngests
  /\ LET ac == At(acc, c, NewAccumulator) IN
       /\ acc' = Put(acc, c, [ac EXCEPT !.counts = Plus(@, One(m))])
       /\ since' = [since EXCEPT ![c] = IF ac.counts = ZeroCounts THEN clock ELSE @]
  /\ ingested' = [ingested EXCEPT ![c] = Plus(@, One(m))]
  /\ UNCHANGED <<known, clock, tick, windowStart, pending, out, stopped, running,
                 finalized, written, lastEnd, lastName>>

\* Encoder.Write of the vector at the head of the channel.
Write ==
  /\ ~stopped
  /\ out # <<>>
  /\ LET v == Head(out) IN
       /\ written' = [written EXCEPT ![v.cid] = Plus(@, v.counts)]
       /\ lastEnd' = [lastEnd EXCEPT ![v.cid] = v.end]
       /\ lastName' = [lastName EXCEPT ![v.cid] = v.name]
  /\ out' = Tail(out)
  /\ UNCHANGED <<acc, known, clock, tick, windowStart, pending, stopped, running,
                 ingested, finalized, since>>

\* SIGTERM: main returns, and the deferred agg.Stop closes stopCh.
Stop ==
  /\ ~stopped
  /\ stopped' = TRUE
  /\ UNCHANGED <<acc, known, clock, tick, windowStart, pending, out, running,
                 ingested, finalized, written, since, lastEnd, lastName>>

-----------------------------------------------------------------------------
(* The refresh and pollCgroup goroutines, as far as names go.  Nothing stops
   them: they go on until the process exits.  The numbers of IngestCgroup are in
   module CgroupMeter. *)

\* Resolver.Refresh replaces the map of containers.
Refresh ==
  /\ known' \in SUBSET Cids
  /\ known' # known
  /\ UNCHANGED <<acc, clock, tick, windowStart, pending, out, stopped, running,
                 ingested, finalized, written, since, lastEnd, lastName>>

\* The container may have left the resolver since the poll began.
IngestCgroup(c) ==
  /\ acc' = Put(acc, c, [At(acc, c, NewAccumulator) EXCEPT !.name = "docker"])
  /\ acc' # acc
  /\ UNCHANGED <<known, clock, tick, windowStart, pending, out, stopped, running,
                 ingested, finalized, written, since, lastEnd, lastName>>

-----------------------------------------------------------------------------
(* The goroutine of Run *)

WindowBeforeEnd(end) == end - 1

StartAtEnd(end) == IF windowStart = NoTime THEN end ELSE windowStart

\* The first window began one window length before its end.
WindowStart(end) == IF windowStart = NoTime THEN end - 1 ELSE windowStart

ResolveName(c) == IF c \in known THEN "docker" ELSE "cid"

\* A container that has no name yet gets one; the host keeps none.
NameOf(c) ==
  IF c # Host /\ acc[c].name = "none" THEN ResolveName(c) ELSE acc[c].name

Finished(c, end) ==
  [cid |-> c, start |-> WindowStart(end), end |-> end,
   counts |-> acc[c].counts, name |-> NameOf(c)]

ResetForgotten(c) == [acc[c] EXCEPT !.name = NameOf(c)]

ResetName(c) == [counts |-> ZeroCounts, name |-> "none"]

\* ac.v = Vector{Name, Image}: what a finalized accumulator starts again from.
ResetTo(c) == [counts |-> ZeroCounts, name |-> NameOf(c)]

\* A tick arrives: under the lock, every accumulator becomes a vector and is
\* reset.
Finalize ==
  /\ running
  /\ pending = {}
  /\ tick # 0
  /\ pending' = {Finished(c, tick) : c \in DOMAIN acc}
  /\ acc' = [c \in DOMAIN acc |-> ResetTo(c)]
  /\ finalized' = [c \in Keys |-> IF c \in DOMAIN acc
                                  THEN Plus(finalized[c], acc[c].counts)
                                  ELSE finalized[c]]
  /\ windowStart' = tick
  /\ tick' = 0
  /\ UNCHANGED <<known, clock, out, stopped, running, ingested, written, since, lastEnd,
                 lastName>>

NoCapacity == TRUE

HasCapacity == Len(out) < BufferSize

SendOrDrop(v) ==
  /\ running
  /\ v \in pending
  /\ pending' = pending \ {v}
  /\ out' = IF HasCapacity THEN Append(out, v) ELSE out
  /\ UNCHANGED <<acc, known, clock, tick, windowStart, stopped, running,
                 ingested, finalized, written, since, lastEnd, lastName>>

\* One vector is sent; a full channel makes Run wait.
Send(v) ==
  /\ running
  /\ v \in pending
  /\ HasCapacity
  /\ pending' = pending \ {v}
  /\ out' = Append(out, v)
  /\ UNCHANGED <<acc, known, clock, tick, windowStart, stopped, running,
                 ingested, finalized, written, since, lastEnd, lastName>>

RunReturnsIdle ==
  /\ running
  /\ stopped
  /\ pending = {}
  /\ running' = FALSE
  /\ UNCHANGED <<acc, known, clock, tick, windowStart, pending, out, stopped,
                 ingested, finalized, written, since, lastEnd, lastName>>

\* Both selects of Run return when stopCh is closed.
RunReturns ==
  /\ running
  /\ stopped
  /\ running' = FALSE
  /\ UNCHANGED <<acc, known, clock, tick, windowStart, pending, out, stopped,
                 ingested, finalized, written, since, lastEnd, lastName>>

RunStep == Finalize \/ (\E v \in pending : Send(v)) \/ RunReturns

\* The process is about to exit.
Ended == ~running /\ stopped /\ UNCHANGED vars

Next ==
  \/ Advance
  \/ \E c \in Keys, m \in Metrics : Ingest(c, m)
  \/ Write
  \/ Stop
  \/ Refresh
  \/ \E c \in Cids : IngestCgroup(c)
  \/ RunStep
  \/ Ended

Spec == Init /\ [][Next]_vars

-----------------------------------------------------------------------------
(* Properties *)

InAcc(c, m) == IF c \in DOMAIN acc THEN acc[c].counts[m] ELSE 0

InPending(c, m) == SumFunction([v \in pending |-> IF v.cid = c THEN v.counts[m] ELSE 0])

InChannel(c, m) ==
  SumFunction([i \in DOMAIN out |-> IF out[i].cid = c THEN out[i].counts[m] ELSE 0])

\* Whatever a collector reported for a container is in its accumulator or was
\* put into exactly one of its vectors: the reset of a window neither loses a
\* row that is ingested around the tick nor leaves one to be counted again.
CountedOnce ==
  \A c \in Keys, m \in Metrics : ingested[c][m] = InAcc(c, m) + finalized[c][m]

\* A row is never reported in a window that began after it was ingested, however
\* late Run gets a tick and whichever ticks are dropped: the first window reaches
\* back to when Run started, and each further one to the end of the one before.
RowsNotPostponed ==
  [][\A v \in pending' \ pending :
       v.counts # ZeroCounts => v.start <= since[v.cid]]_vars

\* A vector that Run has made is still to be sent, in the channel, or written,
\* once: a full channel delays vectors and drops none.
VectorsKept ==
  \A c \in Keys, m \in Metrics :
    finalized[c][m] = InPending(c, m) + InChannel(c, m) + written[c][m]

\* The rows of a container follow each other without a gap or an overlap, also
\* when it is idle and when ticks were dropped because Run was blocked.
WindowsTile ==
  [][\A c \in Keys :
       lastEnd'[c] # lastEnd[c] /\ lastEnd[c] # 0 => Head(out).start = lastEnd[c]]_vars

\* Every row of a container has a name, even if the cgroup poller never saw
\* the container, and rows that carry docker's name are never followed by rows
\* under a made-up one, though the container leaves the resolver in between: the
\* detector would take them for rows of the host, or of a second container.
NamesImprove ==
  [][\A c \in Cids :
       lastEnd'[c] # lastEnd[c] =>
         /\ lastName'[c] # "none"
         /\ lastName[c] = "docker" => lastName'[c] = "docker"]_vars

-----------------------------------------------------------------------------
(* Liveness: time passes, Run and the select loop of main keep running.  A
   select with several ready cases picks one at random, so that a vector that
   waits in the channel is taken in the end. *)

FairSpec ==
  /\ Spec
  /\ WF_vars(Advance)
  /\ WF_vars(Write)
  /\ WF_vars(RunStep)

\* A row that is ingested before the last tick of the model is in the CSV file
\* in the end, unless the agent is stopped: Run and main never wait for each
\* other in a circle.
IngestedIsWritten ==
  \A c \in Keys, m \in Metrics, n \in 1 .. MaxIngests :
    ingested[c][m] >= n /\ clock < MaxTicks ~> written[c][m] >= n \/ stopped

\* Stop makes Run return, even if it is blocked on a full channel.
StopEndsRun == stopped ~> ~running

=============================================================================
