------------------------------ MODULE ProcExit ------------------------------
(* bpf/proc_exit.bpf.c and pkg/collector/procexit/collector.go: exits of      *)
(* thread-group leaders go through a perf ring per CPU to the goroutine of    *)
(* run, which resolves the pid, by then perhaps reaped or another process's,  *)
(* and sends the event to the main goroutine.  Stop, one step at a time, is   *)
(* driven by module Shutdown.  Comm and exit code are left out; Resolve is    *)
(* module Resolver: here it answers at once.                                  *)
EXTENDS BpfMaps, Sequences, Functions, SequencesExt

CONSTANTS Pids,
          Cpus,
          Cids,         \* container ids
          Host,         \* the empty container id
          RingSize,     \* size of a perf ring (256 KiB), in notes
          ChannelSize,  \* capacity of events (1024)
          MaxLives      \* bound: processes and lives after an exec

ASSUME ProcExitAssumption ==
  /\ IsFiniteSet(Pids) /\ IsFiniteSet(Cpus) /\ IsFiniteSet(Cids)
  /\ Host \notin Cids
  /\ RingSize \in Nat \ {0} /\ ChannelSize \in Nat /\ MaxLives \in Nat

VARIABLES proc,         \* pid -> [cid, leader]: processes that are not reaped
          ring,         \* CPU -> records: events and notes of lost ones
          missed,       \* CPU -> events lost since its latest note
          attached,     \* the tracepoint link is open
          reader,       \* run: "read", "resolve", "send" or "returned"
          hand,         \* the event that run holds
          events,       \* the channel of events, as container ids
          stopCh,       \* stopCh is closed
          rdClosed,     \* the perf reader is closed
          eventsClosed, \* the channel is closed
          lives,        \* history: container -> processes and lives after exec
          takenOver,    \* history: container -> events under way for its pids
                        \* when they were forked
          exits,        \* history: events that the program emitted
          resolved,     \* history: container -> events resolved to it
          gone          \* history: reason -> events that are not delivered

kernelVars == <<proc, ring, missed, attached>>
readerVars == <<reader, hand, events>>
stopVars == <<stopCh, rdClosed, eventsClosed>>
exitHistory == <<lives, takenOver, exits, resolved, gone>>
exitVars == <<kernelVars, readerVars, stopVars, exitHistory>>

Keys == Cids \cup {Host}

NoHand == [pid |-> {}, cid |-> Host]

\* A note says how many events did not fit before it.
Event(p) == [pid |-> {p}, lost |-> 0]
Note(n) == [pid |-> {}, lost |-> n]

IsEvent(r) == r.pid # {}

\* A note is 24 bytes long, an event more than twice that.
Size(rs) == SumFunction([i \in DOMAIN rs |-> IF IsEvent(rs[i]) THEN 2 ELSE 1])

Records == [pid : SUBSET Pids, lost : Nat]

\* An event is skipped because it is the host's, dropped by Stop, or one of
\* those that a note tells run about.
Reasons == {"host", "stopped", "noted"}

ExitTypeOK ==
  /\ IsMap(proc, Pids, [cid : Keys, leader : {"alive", "exited"}])
  /\ ring \in [Cpus -> Seq(Records)] /\ \A c \in Cpus : Size(ring[c]) <= RingSize
  /\ missed \in [Cpus -> Nat]
  /\ attached \in BOOLEAN
  /\ reader \in {"read", "resolve", "send", "returned"}
  /\ hand \in [pid : SUBSET Pids, cid : Keys]
  /\ events \in Seq(Cids) /\ Len(events) <= ChannelSize
  /\ stopCh \in BOOLEAN /\ rdClosed \in BOOLEAN /\ eventsClosed \in BOOLEAN
  /\ lives \in [Keys -> Nat]
  /\ takenOver \in [Cids -> Nat]
  /\ exits \in Nat
  /\ resolved \in [Cids -> Nat]
  /\ gone \in [Reasons -> Nat]

ZeroOf(S) == [k \in S |-> 0]

ExitInit ==
  /\ proc = EmptyMap
  /\ ring = [c \in Cpus |-> <<>>] /\ missed = ZeroOf(Cpus)
  /\ attached = TRUE
  /\ reader = "read" /\ hand = NoHand /\ events = <<>>
  /\ stopCh = FALSE /\ rdClosed = FALSE /\ eventsClosed = FALSE
  /\ lives = ZeroOf(Keys) /\ takenOver = ZeroOf(Cids)
  /\ exits = 0 /\ resolved = ZeroOf(Cids)
  /\ gone = ZeroOf(Reasons)

-----------------------------------------------------------------------------
(* The kernel *)

\* Events of p that are not resolved yet.
EventsIn(c, p) ==
  SumFunction([i \in DOMAIN ring[c] |-> IF ring[c][i].pid = {p} THEN 1 ELSE 0])

UnderWay(p) ==
  SumFunction([c \in Cpus |-> EventsIn(c, p)])
  + (IF reader = "resolve" /\ hand.pid = {p} THEN 1 ELSE 0)

Live(c) ==
  /\ SumFunction(lives) < MaxLives
  /\ lives' = [lives EXCEPT ![c] = @ + 1]

Fork(p, c) ==
  /\ p \notin DOMAIN proc
  /\ Live(c)
  /\ proc' = Put(proc, p, [cid |-> c, leader |-> "alive"])
  /\ takenOver' = [a \in Cids |-> takenOver[a] + IF a = c THEN UnderWay(p) ELSE 0]
  /\ UNCHANGED <<ring, missed, attached, readerVars, stopVars, exits, resolved, gone>>

\* The leader has exited and another thread of the process does execve: it
\* becomes the leader, and will exit as such.
ExecAfterExit(p) ==
  /\ p \in DOMAIN proc
  /\ proc[p].leader = "exited"
  /\ Live(proc[p].cid)
  /\ proc' = [proc EXCEPT ![p].leader = "alive"]
  /\ UNCHANGED <<ring, missed, attached, readerVars, stopVars, takenOver, exits,
                 resolved, gone>>

Reap(p) ==
  /\ p \in DOMAIN proc
  /\ proc[p].leader = "exited"
  /\ proc' = Drop(proc, {p})
  /\ UNCHANGED <<ring, missed, attached, readerVars, stopVars, exitHistory>>

\* bpf_perf_event_output: a note of earlier losses goes ahead of the event, if
\* both fit.
Output(c, e) ==
  LET records == IF missed[c] > 0 THEN <<Note(missed[c]), e>> ELSE <<e>>
      fits == Size(ring[c]) + Size(records) <= RingSize
  IN /\ ring' = [ring EXCEPT ![c] = IF fits THEN @ \o records ELSE @]
     /\ missed' = [missed EXCEPT ![c] = IF fits THEN 0 ELSE @ + 1]

ThreadExit(c, p) ==
  /\ p \in DOMAIN proc
  /\ attached
  /\ Output(c, Event(p))
  /\ exits' = exits + 1
  /\ UNCHANGED <<proc, attached, readerVars, stopVars, lives, takenOver, resolved, gone>>

\* handle_proc_exit, for the thread-group leader: its process is a zombie, or
\* goes on with its other threads.
LeaderExit(c, p) ==
  /\ p \in DOMAIN proc
  /\ proc[p].leader = "alive"
  /\ proc' = [proc EXCEPT ![p].leader = "exited"]
  /\ IF attached THEN Output(c, Event(p)) /\ exits' = exits + 1
                 ELSE UNCHANGED <<ring, missed, exits>>
  /\ UNCHANGED <<attached, readerVars, stopVars, lives, takenOver, resolved, gone>>

-----------------------------------------------------------------------------
(* run *)

Gone(why, n) == gone' = [gone EXCEPT ![why] = @ + n]

\* The oldest record of a ring; the loss that a note tells of is passed over.
Read(c) ==
  /\ reader = "read"
  /\ ~rdClosed
  /\ ring[c] # <<>>
  /\ ring' = [ring EXCEPT ![c] = Tail(@)]
  /\ LET r == Head(ring[c]) IN
       IF IsEvent(r) THEN /\ reader' = "resolve"
                          /\ hand' = [pid |-> r.pid, cid |-> Host]
                          /\ UNCHANGED gone
       ELSE Gone("noted", r.lost) /\ UNCHANGED <<reader, hand>>
  /\ UNCHANGED <<proc, missed, attached, events, stopVars, lives, takenOver, exits, resolved>>

\* A zombie still has its cgroup; a reaped pid resolves to nothing, and one that
\* has been given away to its new owner.
ContainerOf(p) == IF p \in DOMAIN proc THEN proc[p].cid ELSE Host

Resolve(p) ==
  /\ reader = "resolve"
  /\ hand.pid = {p}
  /\ LET c == ContainerOf(p) IN
       IF c = Host
       THEN /\ reader' = "read" /\ hand' = NoHand
            /\ Gone("host", 1)
            /\ UNCHANGED resolved
       ELSE /\ reader' = "send" /\ hand' = [pid |-> {}, cid |-> c]
            /\ resolved' = [resolved EXCEPT ![c] = @ + 1]
            /\ UNCHANGED gone
  /\ UNCHANGED <<kernelVars, events, stopVars, lives, takenOver, exits>>

NoCapacity == TRUE

HasCapacity == Len(events) < ChannelSize

SendOrDrop ==
  /\ reader = "send"
  /\ events' = IF HasCapacity THEN Append(events, hand.cid) ELSE events
  /\ reader' = "read" /\ hand' = NoHand
  /\ UNCHANGED <<kernelVars, stopVars, exitHistory>>

\* A channel without room makes run wait.
Send ==
  /\ reader = "send"
  /\ HasCapacity
  /\ events' = Append(events, hand.cid)
  /\ reader' = "read" /\ hand' = NoHand
  /\ UNCHANGED <<kernelVars, stopVars, exitHistory>>

\* The select of the send sees stopCh, the read a closed reader.
Return ==
  /\ \/ reader = "read" /\ rdClosed /\ UNCHANGED gone
     \/ reader = "send" /\ stopCh /\ Gone("stopped", 1)
  /\ reader' = "returned" /\ hand' = NoHand
  /\ UNCHANGED <<kernelVars, events, stopVars, lives, takenOver, exits, resolved>>

Run == (\E c \in Cpus : Read(c)) \/ (\E p \in Pids : Resolve(p)) \/ Send \/ Return

Kernel ==
  \E p \in Pids :
    \/ \E c \in Keys : Fork(p, c)
    \/ \E c \in Cpus : LeaderExit(c, p)
    \/ ExecAfterExit(p)
    \/ Reap(p)

-----------------------------------------------------------------------------
(* Properties; taken counts, by container, the events that main has taken. *)

InRing(c) ==
  SumFunction([i \in DOMAIN ring[c] |-> IF IsEvent(ring[c][i]) THEN 1 ELSE ring[c][i].lost])

Holding == IF reader \in {"resolve", "send"} THEN 1 ELSE 0

\* Every event is in a ring, lost to a full one and noted or to be noted, in
\* run's hands, in the channel, taken by main, or gone for a known reason: a
\* note stands for exactly the events before it, and none is delivered twice.
ExitsAccountedFor(taken) ==
  exits = SumFunction([c \in Cpus |-> InRing(c) + missed[c]])
          + Holding + Len(events) + taken + SumFunction(gone)

\* A container is not credited with more exits than it had processes, lives
\* after an exec included, but for events of pids that it took over while they
\* were still under way.
ExitsNotInvented ==
  \A c \in Cids : resolved[c] <= lives[c] + takenOver[c]
=============================================================================
