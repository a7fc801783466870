------------------------------ MODULE Shutdown ------------------------------
(* cmd/agent/main.go: the select loop of the main goroutine and the deferred  *)
(* calls that run when a signal ends it, with the goroutines they wait for:   *)
(* the exit collector's (ProcExit), the collectors that poll on a ticker      *)
(* (syscalls, pidruntime and tcpstats have the same run and Stop).  What a     *)
(* poll counts is in the modules of the pollers: here one snapshot is like    *)
(* another.  The aggregator's Run, which Stop does not wait for, and the loop's*)
(* case for its vectors are in module Aggregator.                             *)
EXTENDS ProcExit

CONSTANTS Pollers,      \* in the order in which main stops them
          SnapChannel   \* capacity of a poller's channel (16)

ASSUME ShutdownAssumption ==
  /\ Pollers \in Seq(Range(Pollers)) /\ IsInjective(Pollers)
  /\ Range(Pollers) \cap {"agg", "pec", "enc"} = {}
  /\ SnapChannel \in Nat

VARIABLES main,         \* 0 in the select loop, or the deferred call under way
          step,         \* the step of that call to do next
          signalled,    \* SIGINT or SIGTERM is in the channel stop
          poller,       \* poller -> "wait", "poll", "send" or "returned"
          snaps,        \* poller -> snapshots in its channel
          pollStop,     \* pollers whose stopCh is closed
          released,     \* pollers whose links and maps are closed
          snapsClosed,  \* pollers whose channel is closed
          aggStop,      \* the aggregator's stopCh is closed
          fileOpen,     \* the CSV file is open
          ingested      \* history: container -> IngestExit calls

pollerVars == <<poller, snaps, pollStop, released, snapsClosed>>
mainVars == <<main, step, signalled, aggStop, fileOpen, ingested>>
vars == <<exitVars, pollerVars, mainVars>>

PollerSet == Range(Pollers)

\* The deferred calls, last defer first, by whose Stop or Close they are.
Deferred == <<"agg">> \o Pollers \o <<"pec", "enc">>

\* A collector's Stop closes stopCh, waits for the goroutine, and closes what the
\* goroutine used; agg.Stop only closes stopCh.
Steps(k) ==
  CASE k \in {"agg", "enc"} -> <<"close">>
    [] k = "pec"            -> <<"close", "closeReader", "wait", "release">>
    [] OTHER                -> <<"close", "wait", "release">>

Exited == Len(Deferred) + 1

TypeOK ==
  /\ ExitTypeOK
  /\ main \in 0 .. Exited /\ step \in 1 .. 4 /\ signalled \in BOOLEAN
  /\ poller \in [PollerSet -> {"wait", "poll", "send", "returned"}]
  /\ snaps \in [PollerSet -> 0 .. SnapChannel]
  /\ pollStop \subseteq PollerSet
  /\ released \subseteq PollerSet
  /\ snapsClosed \subseteq PollerSet
  /\ aggStop \in BOOLEAN /\ fileOpen \in BOOLEAN
  /\ ingested \in [Cids -> Nat]

Init ==
  /\ ExitInit
  /\ main = 0 /\ step = 1 /\ signalled = FALSE
  /\ poller = [k \in PollerSet |-> "wait"] /\ snaps = ZeroOf(PollerSet)
  /\ pollStop = {} /\ released = {} /\ snapsClosed = {}
  /\ aggStop = FALSE /\ fileOpen = TRUE
  /\ ingested = ZeroOf(Cids)
-----------------------------------------------------------------------------
(* The main goroutine's select loop *)

Signal ==
  /\ signalled' = TRUE
  /\ ~signalled
  /\ UNCHANGED <<exitVars, pollerVars, main, step, aggStop, fileOpen, ingested>>

\* The loop returns; the deferred calls follow.
TakeSignal ==
  /\ main = 0
  /\ signalled
  /\ main' = 1
  /\ UNCHANGED <<exitVars, pollerVars, step, signalled, aggStop, fileOpen, ingested>>

TakeExit ==
  /\ main = 0
  /\ events # <<>>
  /\ ingested' = [ingested EXCEPT ![Head(events)] = @ + 1]
  /\ events' = Tail(events)
  /\ UNCHANGED <<kernelVars, reader, hand, stopVars, exitHistory, pollerVars, main,
                 step, signalled, aggStop, fileOpen>>

TakeSnapshot(k) ==
  /\ main = 0
  /\ snaps[k] > 0
  /\ snaps' = [snaps EXCEPT ![k] = @ - 1]
  /\ UNCHANGED <<exitVars, poller, pollStop, released, snapsClosed, mainVars>>

-----------------------------------------------------------------------------
(* The deferred calls *)

Doing(k, what) ==
  main \in DOMAIN Deferred /\ Deferred[main] = k /\ Steps(k)[step] = what

Done ==
  /\ IF step < Len(Steps(Deferred[main])) THEN step' = step + 1 /\ UNCHANGED main
                                          ELSE step' = 1 /\ main' = main + 1
  /\ UNCHANGED <<signalled, ingested>>

AggStop ==
  /\ Doing("agg", "close")
  /\ aggStop' = TRUE
  /\ Done
  /\ UNCHANGED <<exitVars, pollerVars, fileOpen>>

PollerClose(k) ==
  /\ Doing(k, "close")
  /\ pollStop' = pollStop \cup {k}
  /\ Done
  /\ UNCHANGED <<exitVars, poller, snaps, released, snapsClosed, aggStop, fileOpen>>

NoWait(k) == TRUE

\* wg.Wait
HasReturned(k) == IF k = "pec" THEN reader = "returned" ELSE poller[k] = "returned"

Wait(k) ==
  /\ Doing(k, "wait")
  /\ HasReturned(k)
  /\ Done
  /\ UNCHANGED <<exitVars, pollerVars, aggStop, fileOpen>>

\* Links and maps are closed, then the channel.
PollerRelease(k) ==
  /\ Doing(k, "release")
  /\ released' = released \cup {k}
  /\ snapsClosed' = snapsClosed \cup {k}
  /\ Done
  /\ UNCHANGED <<exitVars, poller, snaps, pollStop, aggStop, fileOpen>>

ExitClose ==
  /\ Doing("pec", "close") \/ Doing("pec", "closeReader")
  /\ IF Doing("pec", "close") THEN stopCh' = TRUE /\ UNCHANGED rdClosed
                              ELSE rdClosed' = TRUE /\ UNCHANGED stopCh
  /\ Done
  /\ UNCHANGED <<kernelVars, readerVars, eventsClosed, exitHistory, pollerVars, aggStop,
                 fileOpen>>

ExitRelease ==
  /\ Doing("pec", "release")
  /\ attached' = FALSE
  /\ eventsClosed' = TRUE
  /\ Done
  /\ UNCHANGED <<proc, ring, missed, readerVars, stopCh, rdClosed, exitHistory,
                 pollerVars, aggStop, fileOpen>>

EncoderClose ==
  /\ Doing("enc", "close")
  /\ fileOpen' = FALSE
  /\ Done
  /\ UNCHANGED <<exitVars, pollerVars, aggStop>>

Main ==
  \/ TakeSignal
  \/ TakeExit
  \/ \E k \in PollerSet : TakeSnapshot(k)

Stop ==
  \/ AggStop
  \/ \E k \in PollerSet : PollerClose(k) \/ PollerRelease(k)
  \/ \E k \in PollerSet \cup {"pec"} : Wait(k)
  \/ ExitClose
  \/ ExitRelease
  \/ EncoderClose

-----------------------------------------------------------------------------
(* The goroutines, which end with the process.  A select whose stopCh is closed
   may still take another ready case. *)

Alive == main # Exited

MovePoller(k, from, to) ==
  /\ Alive
  /\ poller[k] = from
  /\ poller' = [poller EXCEPT ![k] = to]
  /\ UNCHANGED <<exitVars, pollStop, released, snapsClosed, mainVars>>

\* A tick, and the end of the pollOnce that it starts.
PollerTick(k) == MovePoller(k, "wait", "poll") /\ UNCHANGED snaps

PollerPolled(k) == MovePoller(k, "poll", "send") /\ UNCHANGED snaps

PollerSend(k) ==
  /\ snaps[k] < SnapChannel
  /\ snaps' = [snaps EXCEPT ![k] = @ + 1]
  /\ MovePoller(k, "send", "wait")

PollerReturnIdle(k) ==
  /\ k \in pollStop
  /\ MovePoller(k, "wait", "returned")
  /\ UNCHANGED snaps

PollerReturn(k) ==
  /\ k \in pollStop
  /\ MovePoller(k, "wait", "returned") \/ MovePoller(k, "send", "returned")
  /\ UNCHANGED snaps

PollerStep(k) == PollerTick(k) \/ PollerPolled(k) \/ PollerSend(k) \/ PollerReturn(k)

ExitStep == Alive /\ (Kernel \/ Run) /\ UNCHANGED <<pollerVars, mainVars>>

Ended == ~Alive /\ UNCHANGED vars

Next ==
  \/ Signal
  \/ Main
  \/ Stop
  \/ \E k \in PollerSet : PollerStep(k)
  \/ ExitStep
  \/ Ended

Spec == Init /\ [][Next]_vars

-----------------------------------------------------------------------------
(* Properties *)

ExitsAccounted == ExitsAccountedFor(SumFunction(ingested))

\* No goroutine is left that could poll a closed map or send on a closed
\* channel, which panics: whatever it was doing when its stopCh was closed.
ClosedIsUnused ==
  /\ eventsClosed \/ ~attached => reader = "returned"
  /\ \A k \in released \cup snapsClosed : poller[k] = "returned"

-----------------------------------------------------------------------------
(* Liveness: the goroutines keep running.  The select loop takes every ready
   case in the end, because select picks at random; so does the select of a
   poller or of Run with its stopCh, which is ready again and again. *)

RunStep == Alive /\ Run /\ UNCHANGED <<pollerVars, mainVars>>

FairSpec ==
  /\ Spec
  /\ WF_vars(TakeSignal) /\ WF_vars(TakeExit)
  /\ \A k \in PollerSet : WF_vars(TakeSnapshot(k))
  /\ WF_vars(Stop)
  /\ WF_vars(RunStep)
  /\ \A k \in PollerSet : WF_vars(PollerStep(k)) /\ SF_vars(PollerReturn(k))

\* The agent exits after a signal, though main no longer empties the channels
\* that the goroutines it waits for may be blocked on.
SignalEndsAgent == signalled ~> main = Exited

\* An exit that was resolved to a container gets ingested while the agent runs.
ResolvedIsIngested ==
  \A c \in Cids, n \in 1 .. MaxLives :
    resolved[c] >= n ~> ingested[c] >= n \/ signalled
=============================================================================
