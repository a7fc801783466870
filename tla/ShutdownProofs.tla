----------------------------- MODULE ShutdownProofs -----------------------------
(* Nothing is used after the deferred calls have closed it, and no exit of a    *)
(* process is lost, for any number of polling collectors and any capacities.    *)
EXTENDS Shutdown, LedgerLemmas, SequenceTheorems

-----------------------------------------------------------------------------
(* Closing *)

\* What is closed in a release was waited for in the step before it.
WaitsBeforeRelease ==
  /\ \A k \in PollerSet : Doing(k, "release") => poller[k] = "returned"
  /\ Doing("pec", "release") => reader = "returned"

CloseType ==
  /\ main \in Nat /\ step \in 1 .. 4
  /\ main = 0 => step = 1
  /\ DOMAIN poller = PollerSet
  /\ released \subseteq PollerSet /\ snapsClosed \subseteq PollerSet

CloseInv == CloseType /\ WaitsBeforeRelease /\ ClosedIsUnused

LEMMA StepsOrder ==
  ASSUME NEW k
  PROVE  /\ Len(Steps(k)) \in 1 .. 4
         /\ Steps(k)[1] = "close"
         /\ \A n \in 1 .. 3 :
              n < Len(Steps(k)) /\ Steps(k)[n + 1] = "release" => Steps(k)[n] = "wait"
<1>1. CASE k \in {"agg", "enc"}
  BY <1>1 DEF Steps
<1>2. CASE k = "pec"
  <2>1. Steps(k) = <<"close", "closeReader", "wait", "release">>
    BY <1>2 DEF Steps
  <2> QED  BY <2>1
<1>3. CASE k \notin {"agg", "enc", "pec"}
  <2>1. Steps(k) = <<"close", "wait", "release">>
    BY <1>3 DEF Steps
  <2> QED  BY <2>1
<1> QED  BY <1>1, <1>2, <1>3

\* The next step is a release only after a wait of the same collector.
LEMMA DoneOrder ==
  ASSUME CloseType, NEW j, NEW what, Doing(j, what), Done
  PROVE  /\ main' \in Nat /\ step' \in 1 .. 4 /\ main' # 0
         /\ \A k : Doing(k, "release")' => k = j /\ what = "wait"
<1>1. /\ main \in DOMAIN Deferred /\ Deferred[main] = j /\ Steps(j)[step] = what
      /\ main \in Nat /\ step \in 1 .. 4 /\ main # 0
  <2>1. main \in DOMAIN Deferred => main # 0
    BY DEF Deferred
  <2> QED  BY <2>1 DEF Doing, CloseType
<1>2. CASE step < Len(Steps(j))
  <2>1. step' = step + 1 /\ main' = main /\ step \in 1 .. 3
    <3>1. step' = step + 1 /\ main' = main
      BY <1>1, <1>2, Zenon DEF Done
    <3>2. Len(Steps(j)) \in 1 .. 4
      BY StepsOrder
    <3> QED  BY <1>1, <1>2, <3>1, <3>2
  <2>2. ASSUME NEW k, Doing(k, "release")' PROVE k = j /\ what = "wait"
    <3>1. k = j /\ Steps(j)[step + 1] = "release"
      BY <1>1, <2>1, <2>2 DEF Doing
    <3> QED  BY <1>1, <1>2, <2>1, <3>1, StepsOrder
  <2> QED  BY <1>1, <2>1, <2>2
<1>3. CASE ~(step < Len(Steps(j)))
  <2>1. step' = 1 /\ main' = main + 1
    BY <1>1, <1>3 DEF Done
  <2>2. ASSUME NEW k, Doing(k, "release")' PROVE FALSE
    BY <2>1, <2>2, StepsOrder DEF Doing
  <2> QED  BY <1>1, <2>1, <2>2
<1> QED  BY <1>2, <1>3

LEMMA CloseInit == Init => CloseInv
<1> SUFFICES ASSUME Init PROVE CloseInv
  OBVIOUS
<1>1. \A k : ~Doing(k, "release")
  BY DEF Init, Doing, Deferred
<1> QED
  BY <1>1 DEF Init, ExitInit, CloseInv, CloseType, WaitsBeforeRelease, ClosedIsUnused

LEMMA CloseStop ==
  ASSUME CloseInv, Stop
  PROVE  CloseInv'
<1> USE DEF CloseInv
<1>1. ASSUME NEW j, NEW what, Doing(j, what), Done, what # "wait",
             UNCHANGED <<poller, reader>>,
             released' \subseteq PollerSet, snapsClosed' \subseteq PollerSet,
             ClosedIsUnused'
      PROVE  CloseInv'
  BY <1>1, DoneOrder DEF CloseType, WaitsBeforeRelease
<1>2. CASE AggStop \/ ExitClose \/ EncoderClose
  <2>1. UNCHANGED <<poller, reader, released, snapsClosed, attached, eventsClosed>>
    BY <1>2 DEF AggStop, ExitClose, EncoderClose, exitVars, kernelVars, readerVars,
       stopVars, pollerVars
  <2>2. ClosedIsUnused'
    BY <2>1 DEF ClosedIsUnused
  <2> QED
    BY <1>1, <1>2, <2>1, <2>2 DEF AggStop, ExitClose, EncoderClose, CloseType
<1>3. ASSUME NEW j \in PollerSet, PollerClose(j) PROVE CloseInv'
  <2>1. UNCHANGED <<poller, reader, released, snapsClosed, attached, eventsClosed>>
    BY <1>3 DEF PollerClose, exitVars, kernelVars, readerVars, stopVars
  <2>2. ClosedIsUnused'
    BY <2>1 DEF ClosedIsUnused
  <2> QED  BY <1>1, <1>3, <2>1, <2>2 DEF PollerClose, CloseType
<1>4. ASSUME NEW j \in PollerSet, PollerRelease(j) PROVE CloseInv'
  <2>1. /\ UNCHANGED <<poller, reader, attached, eventsClosed>>
        /\ released' = released \cup {j} /\ snapsClosed' = snapsClosed \cup {j}
    BY <1>4 DEF PollerRelease, exitVars, kernelVars, readerVars, stopVars
  <2>2. poller[j] = "returned"
    BY <1>4 DEF PollerRelease, WaitsBeforeRelease
  <2>3. ClosedIsUnused'
    BY <2>1, <2>2 DEF ClosedIsUnused
  <2> QED  BY <1>1, <1>4, <2>1, <2>3 DEF PollerRelease, CloseType
<1>5. CASE ExitRelease
  <2>1. reader = "returned" /\ UNCHANGED <<poller, reader, released, snapsClosed>>
    BY <1>5 DEF ExitRelease, WaitsBeforeRelease, readerVars, pollerVars
  <2>2. ClosedIsUnused'
    BY <2>1 DEF ClosedIsUnused
  <2> QED  BY <1>1, <1>5, <2>1, <2>2 DEF ExitRelease, CloseType
<1>6. ASSUME NEW j \in PollerSet \cup {"pec"}, Wait(j) PROVE CloseInv'
  <2>1. /\ UNCHANGED <<poller, reader, released, snapsClosed, attached, eventsClosed>>
        /\ HasReturned(j) /\ Doing(j, "wait") /\ Done
    BY <1>6 DEF Wait, exitVars, kernelVars, readerVars, stopVars, pollerVars
  <2>2. ClosedIsUnused'
    BY <2>1 DEF ClosedIsUnused
  <2>3. "pec" \notin PollerSet
    BY ShutdownAssumption DEF PollerSet
  <2>4. WaitsBeforeRelease'
    BY <2>1, <2>3, DoneOrder DEF WaitsBeforeRelease, HasReturned
  <2> QED  BY <2>1, <2>2, <2>4, DoneOrder DEF CloseType
<1> QED  BY <1>2, <1>3, <1>4, <1>5, <1>6 DEF Stop

\* A goroutine that has returned does not come back.
LEMMA CloseGoroutines ==
  ASSUME CloseInv, (\E k \in PollerSet : PollerStep(k)) \/ ExitStep
  PROVE  CloseInv'
<1> USE DEF CloseInv
<1>1. UNCHANGED <<main, step, released, snapsClosed, attached, eventsClosed>>
  <2>1. UNCHANGED <<main, step, released, snapsClosed>>
    BY DEF PollerStep, PollerTick, PollerPolled, PollerSend, PollerReturn, MovePoller,
       ExitStep, pollerVars, mainVars
  <2>2. ASSUME NEW k \in PollerSet, PollerStep(k) PROVE UNCHANGED exitVars
    BY <2>2 DEF PollerStep, PollerTick, PollerPolled, PollerSend, PollerReturn, MovePoller
  <2>3. Kernel => UNCHANGED <<attached, eventsClosed>>
    BY DEF Kernel, Fork, LeaderExit, ExecAfterExit, Reap, stopVars
  <2>4. Run => UNCHANGED <<attached, eventsClosed>>
    BY DEF Run, Read, Resolve, Send, Return, kernelVars, stopVars
  <2> QED  BY <2>1, <2>2, <2>3, <2>4 DEF ExitStep, exitVars, kernelVars, stopVars
<1>2. /\ DOMAIN poller' = PollerSet
      /\ \A k \in PollerSet : poller[k] = "returned" => poller'[k] = "returned"
  <2>1. ASSUME NEW j \in PollerSet, PollerStep(j)
        PROVE  \E to : poller[j] # "returned" /\ poller' = [poller EXCEPT ![j] = to]
    BY <2>1 DEF PollerStep, PollerTick, PollerPolled, PollerSend, PollerReturn, MovePoller
  <2>2. ExitStep => UNCHANGED poller
    BY DEF ExitStep, pollerVars
  <2> QED  BY <2>1, <2>2 DEF CloseType
<1>3. reader = "returned" => reader' = "returned"
  <2>1. ASSUME NEW j \in PollerSet, PollerStep(j) PROVE UNCHANGED reader
    BY <2>1 DEF PollerStep, PollerTick, PollerPolled, PollerSend, PollerReturn,
       MovePoller, exitVars, readerVars
  <2>2. Kernel => UNCHANGED reader
    BY DEF Kernel, Fork, LeaderExit, ExecAfterExit, Reap, readerVars
  <2>3. Run => reader # "returned"
    BY DEF Run, Read, Resolve, Send, Return
  <2> QED  BY <2>1, <2>2, <2>3 DEF ExitStep
<1>4. \A k, what : Doing(k, what)' = Doing(k, what)
  BY <1>1 DEF Doing
<1> QED
  BY <1>1, <1>2, <1>3, <1>4 DEF CloseType, WaitsBeforeRelease, ClosedIsUnused

LEMMA CloseStep == CloseInv /\ [Next]_vars => CloseInv'
<1> SUFFICES ASSUME CloseInv, [Next]_vars PROVE CloseInv'
  OBVIOUS
<1>1. ASSUME UNCHANGED <<poller, released, snapsClosed, reader, attached, eventsClosed,
                         main, step>>
      PROVE  CloseInv'
  BY <1>1 DEF CloseInv, CloseType, WaitsBeforeRelease, ClosedIsUnused, Doing
<1>2. CASE Signal \/ Ended \/ UNCHANGED vars
  BY <1>1, <1>2 DEF Signal, Ended, vars, exitVars, kernelVars, readerVars, stopVars,
     pollerVars, mainVars
<1>3. CASE TakeExit \/ \E k \in PollerSet : TakeSnapshot(k)
  BY <1>1, <1>3 DEF TakeExit, TakeSnapshot, exitVars, kernelVars, readerVars, stopVars,
     pollerVars, mainVars
<1>4. CASE TakeSignal
  <2>1. main' = 1 /\ step' = 1
    BY <1>4 DEF TakeSignal, CloseInv, CloseType
  <2>2. \A k : ~Doing(k, "release")'
    BY <2>1, StepsOrder DEF Doing
  <2>3. UNCHANGED <<poller, released, snapsClosed, reader, attached, eventsClosed>>
    BY <1>4 DEF TakeSignal, exitVars, kernelVars, readerVars, stopVars, pollerVars
  <2> QED
    BY <2>1, <2>2, <2>3 DEF CloseInv, CloseType, WaitsBeforeRelease, ClosedIsUnused
<1> QED
  BY <1>2, <1>3, <1>4, CloseStop, CloseGoroutines DEF Next, Main

\* Whatever a goroutine was doing when its stopCh was closed, it has returned
\* before the channel that it sends on, or the map that it reads, is closed.
THEOREM NothingClosedIsUsed == Spec => []ClosedIsUnused
<1>1. CloseInv => ClosedIsUnused
  BY DEF CloseInv
<1> QED  BY <1>1, CloseInit, CloseStep, PTL DEF Spec

-----------------------------------------------------------------------------
(* What is in the rings, as sums over their records *)

Weight == [r \in Records |-> IF IsEvent(r) THEN 1 ELSE r.lost]

Length == [r \in Records |-> IF IsEvent(r) THEN 2 ELSE 1]

Of(p) == [r \in Records |-> IF r.pid = {p} THEN 1 ELSE 0]

RingType ==
  /\ ring \in [Cpus -> Seq(Records)] /\ \A c \in Cpus : Size(ring[c]) <= RingSize
  /\ missed \in [Cpus -> Nat]

LEMMA RingSums ==
  ASSUME NEW s \in Seq(Records)
  PROVE  /\ SumFunction([i \in DOMAIN s |-> IF IsEvent(s[i]) THEN 1 ELSE s[i].lost])
              = SeqSum(Weight, s)
         /\ \A p : SumFunction([i \in DOMAIN s |-> IF s[i].pid = {p} THEN 1 ELSE 0])
              = SeqSum(Of(p), s)
         /\ Size(s) = SeqSum(Length, s)
<1>1. \A i \in DOMAIN s : s[i] \in Records
  OBVIOUS
<1>2. [i \in DOMAIN s |-> IF IsEvent(s[i]) THEN 1 ELSE s[i].lost]
        = [i \in DOMAIN s |-> Weight[s[i]]]
  BY <1>1 DEF Weight
<1>3. \A p : [i \in DOMAIN s |-> IF s[i].pid = {p} THEN 1 ELSE 0]
              = [i \in DOMAIN s |-> Of(p)[s[i]]]
  BY <1>1 DEF Of
<1>4. [i \in DOMAIN s |-> IF IsEvent(s[i]) THEN 2 ELSE 1]
        = [i \in DOMAIN s |-> Length[s[i]]]
  BY <1>1 DEF Length
<1> QED  BY <1>2, <1>3, <1>4 DEF SeqSum, Size

LEMMA WeightTypes ==
  /\ Weight \in [Records -> Nat] /\ Length \in [Records -> Nat]
  /\ \A p : Of(p) \in [Records -> Nat]
BY DEF Weight, Length, Of, Records

LEMMA RingSumTypes ==
  ASSUME NEW s \in Seq(Records)
  PROVE  /\ SeqSum(Weight, s) \in Nat /\ SeqSum(Length, s) \in Nat
         /\ \A p : SeqSum(Of(p), s) \in Nat
BY SeqSumIsNat, WeightTypes

\* What a record adds to a ring.
LEMMA RecordAdds ==
  ASSUME NEW s \in Seq(Records), NEW r \in Records
  PROVE  /\ s \o <<r>> \in Seq(Records)
         /\ SeqSum(Weight, s \o <<r>>) = SeqSum(Weight, s) + Weight[r]
         /\ SeqSum(Length, s \o <<r>>) = SeqSum(Length, s) + Length[r]
         /\ \A p : SeqSum(Of(p), s \o <<r>>) = SeqSum(Of(p), s) + Of(p)[r]
<1>1. s \o <<r>> = Append(s, r)
  OBVIOUS
<1>2. Append(s, r) \in Seq(Records)
  OBVIOUS
<1> QED  BY <1>1, <1>2, SeqSumAppend, WeightTypes

LEMMA NotesAdd ==
  ASSUME NEW s \in Seq(Records), NEW n \in Nat, NEW p \in Pids
  PROVE  LET two == s \o <<Note(n), Event(p)>> IN
         /\ two \in Seq(Records)
         /\ SeqSum(Weight, two) = SeqSum(Weight, s) + n + 1
         /\ SeqSum(Length, two) = SeqSum(Length, s) + 3
         /\ \A q : SeqSum(Of(q), two) = SeqSum(Of(q), s) + (IF q = p THEN 1 ELSE 0)
<1>1. /\ Note(n) \in Records /\ Event(p) \in Records
      /\ Weight[Note(n)] = n /\ Length[Note(n)] = 1 /\ \A q : Of(q)[Note(n)] = 0
      /\ Weight[Event(p)] = 1 /\ Length[Event(p)] = 2
      /\ \A q : Of(q)[Event(p)] = IF q = p THEN 1 ELSE 0
  BY DEF Note, Event, Records, Weight, Length, Of, IsEvent
<1> DEFINE one == s \o <<Note(n)>>
<1>2. s \o <<Note(n), Event(p)>> = one \o <<Event(p)>>
  BY <1>1
<1>3. /\ one \in Seq(Records) /\ SeqSum(Weight, one) = SeqSum(Weight, s) + n
      /\ SeqSum(Length, one) = SeqSum(Length, s) + 1
      /\ \A q : SeqSum(Of(q), one) = SeqSum(Of(q), s) + 0
  BY <1>1, RecordAdds
<1> HIDE DEF one
<1>4. /\ one \o <<Event(p)>> \in Seq(Records)
      /\ SeqSum(Weight, one \o <<Event(p)>>) = SeqSum(Weight, one) + 1
      /\ SeqSum(Length, one \o <<Event(p)>>) = SeqSum(Length, one) + 2
      /\ \A q : SeqSum(Of(q), one \o <<Event(p)>>)
                  = SeqSum(Of(q), one) + (IF q = p THEN 1 ELSE 0)
  BY <1>1, <1>3, RecordAdds
<1>5. /\ SeqSum(Weight, s) \in Nat /\ SeqSum(Length, s) \in Nat
      /\ \A q : SeqSum(Of(q), s) \in Nat
  BY RingSumTypes
<1>6. \A q : SeqSum(Of(q), one \o <<Event(p)>>)
               = SeqSum(Of(q), s) + (IF q = p THEN 1 ELSE 0)
  BY <1>3, <1>4, <1>5
<1>7. /\ SeqSum(Weight, one \o <<Event(p)>>) = SeqSum(Weight, s) + n + 1
      /\ SeqSum(Length, one \o <<Event(p)>>) = SeqSum(Length, s) + 3
  BY <1>3, <1>4, <1>5
<1> QED  BY <1>2, <1>4, <1>6, <1>7, Zenon

LEMMA EventAdds ==
  ASSUME NEW s \in Seq(Records), NEW p \in Pids
  PROVE  LET one == s \o <<Event(p)>> IN
         /\ one \in Seq(Records)
         /\ SeqSum(Weight, one) = SeqSum(Weight, s) + 1
         /\ SeqSum(Length, one) = SeqSum(Length, s) + 2
         /\ \A q : SeqSum(Of(q), one) = SeqSum(Of(q), s) + (IF q = p THEN 1 ELSE 0)
<1>1. /\ Event(p) \in Records /\ Weight[Event(p)] = 1 /\ Length[Event(p)] = 2
      /\ \A q : Of(q)[Event(p)] = IF q = p THEN 1 ELSE 0
  BY DEF Event, Records, Weight, Length, Of, IsEvent
<1> QED  BY <1>1, RecordAdds

LEMMA SizeOfNew ==
  ASSUME NEW n \in Nat, NEW p \in Pids
  PROVE  Size(<<Note(n), Event(p)>>) = 3 /\ Size(<<Event(p)>>) = 2
<1>1. /\ Note(n) \in Records /\ Event(p) \in Records
      /\ Length[Note(n)] = 1 /\ Length[Event(p)] = 2
  BY DEF Note, Event, Records, Length, IsEvent
<1> DEFINE e == Event(p)
           k == Note(n)
<1> HIDE DEF e, k
<1>2. \A r : Append(<<>>, r) = <<r>>
  OBVIOUS
<1>3. SeqSum(Length, <<>>) = 0
  BY SeqSumOfNone
<1>4. k \in Records /\ e \in Records /\ Length[k] = 1 /\ Length[e] = 2
  BY <1>1 DEF e, k
<1>5. SeqSum(Length, <<e>>) = 2 /\ SeqSum(Length, <<k>>) = 1
  <2>1. \A r \in Records : SeqSum(Length, Append(<<>>, r)) = SeqSum(Length, <<>>) + Length[r]
    <3>1. <<>> \in Seq(Records)
      OBVIOUS
    <3> QED  BY <3>1, SeqSumAppend, WeightTypes
  <2>2. SeqSum(Length, Append(<<>>, e)) = 2 /\ SeqSum(Length, Append(<<>>, k)) = 1
    BY <1>3, <1>4, <2>1
  <2> QED  BY <1>2, <2>2, Zenon
<1>6. SeqSum(Length, <<k, e>>) = 3
  <2>1. <<k>> \in Seq(Records) /\ <<k, e>> \in Seq(Records)
    BY <1>4
  <2>2. SeqSum(Length, Append(<<k>>, e)) = SeqSum(Length, <<k>>) + Length[e]
    BY <1>4, <2>1, SeqSumAppend, WeightTypes
  <2>3. /\ Append(<<k>>, e) \in Seq(Records) /\ Len(Append(<<k>>, e)) = 2
        /\ Append(<<k>>, e)[1] = k /\ Append(<<k>>, e)[2] = e
    BY <1>4, <2>1, AppendProperties
  <2>4. Append(<<k>>, e) = <<k, e>>
    <3> DEFINE t == Append(<<k>>, e)
    <3>1. Len(t) = 2 /\ Len(<<k, e>>) = 2 /\ \A i \in 1 .. 2 : t[i] = <<k, e>>[i]
      BY <2>3
    <3> QED  BY <2>1, <2>3, <3>1, SeqEqual
  <2>5. SeqSum(Length, Append(<<k>>, e)) = 3
    BY <1>4, <1>5, <2>2
  <2> QED  BY <2>4, <2>5, Zenon
<1>7. <<k, e>> \in Seq(Records) /\ <<e>> \in Seq(Records)
  BY <1>4
<1>8. Size(<<k, e>>) = 3 /\ Size(<<e>>) = 2
  BY <1>5, <1>6, <1>7, RingSums, Zenon
<1> QED  BY <1>8 DEF e, k

\* An exit adds one event to those in the ring or missed, and one at most to
\* those of its pid.
LEMMA OutputAdds ==
  ASSUME RingType, NEW c \in Cpus, NEW p \in Pids, Output(c, Event(p))
  PROVE  /\ RingType'
         /\ \A d \in Cpus : (InRing(d) + missed[d])'
                              = InRing(d) + missed[d] + (IF d = c THEN 1 ELSE 0)
         /\ \A d \in Cpus : \A q : EventsIn(d, q)' \in Nat
         /\ \A d \in Cpus \ {c} : \A q : EventsIn(d, q)' = EventsIn(d, q)
         /\ \A q : EventsIn(c, q)' <= EventsIn(c, q) + (IF q = p THEN 1 ELSE 0)
<1> DEFINE s == ring[c]
           n == missed[c]
           t == ring'[c]
<1>1. s \in Seq(Records) /\ n \in Nat /\ Size(s) <= RingSize /\ RingSize \in Nat
  BY ProcExitAssumption DEF RingType
<1>2. /\ \A d \in Cpus \ {c} : ring'[d] = ring[d] /\ missed'[d] = missed[d]
      /\ DOMAIN ring' = Cpus /\ DOMAIN missed' = Cpus
  BY DEF RingType, Output
<1>3. /\ SeqSum(Weight, s) \in Nat /\ SeqSum(Length, s) \in Nat
      /\ \A q : SeqSum(Of(q), s) \in Nat
  BY <1>1, RingSumTypes
<1>4. Size(s) = SeqSum(Length, s)
  BY <1>1, RingSums
<1>5. /\ t \in Seq(Records) /\ missed'[c] \in Nat /\ Size(t) <= RingSize
      /\ SeqSum(Weight, t) + missed'[c] = SeqSum(Weight, s) + n + 1
      /\ \A q : SeqSum(Of(q), t) <= SeqSum(Of(q), s) + (IF q = p THEN 1 ELSE 0)
  <2>1. CASE n > 0 /\ Size(s) + Size(<<Note(n), Event(p)>>) <= RingSize
    <3>1. t = s \o <<Note(n), Event(p)>> /\ missed'[c] = 0
      BY <2>1 DEF RingType, Output
    <3>2. /\ t \in Seq(Records) /\ SeqSum(Weight, t) = SeqSum(Weight, s) + n + 1
          /\ SeqSum(Length, t) = SeqSum(Length, s) + 3
          /\ \A q : SeqSum(Of(q), t) = SeqSum(Of(q), s) + (IF q = p THEN 1 ELSE 0)
      <4> HIDE DEF s, n, t
      <4> QED  BY <1>1, <3>1, NotesAdd
    <3>3. Size(t) <= RingSize
      <4>1. Size(<<Note(n), Event(p)>>) = 3 /\ Size(t) = SeqSum(Length, t)
        BY <1>1, <3>2, SizeOfNew, RingSums
      <4> QED  BY <1>3, <1>4, <2>1, <3>2, <4>1
    <3>4. \A q : SeqSum(Of(q), t) <= SeqSum(Of(q), s) + (IF q = p THEN 1 ELSE 0)
      <4> HIDE DEF s, t
      <4> QED  BY <1>3, <3>2
    <3>5. SeqSum(Weight, t) + missed'[c] = SeqSum(Weight, s) + n + 1
      <4> HIDE DEF s, n, t
      <4> QED  BY <1>1, <1>3, <3>1, <3>2
    <3>6. missed'[c] \in Nat
      BY <3>1
    <3> HIDE DEF s, n, t
    <3> QED  BY <3>2, <3>3, <3>4, <3>5, <3>6, Zenon
  <2>2. CASE n = 0 /\ Size(s) + Size(<<Event(p)>>) <= RingSize
    <3>1. t = s \o <<Event(p)>> /\ missed'[c] = 0
      BY <2>2 DEF RingType, Output
    <3>2. /\ t \in Seq(Records) /\ SeqSum(Weight, t) = SeqSum(Weight, s) + 1
          /\ SeqSum(Length, t) = SeqSum(Length, s) + 2
          /\ \A q : SeqSum(Of(q), t) = SeqSum(Of(q), s) + (IF q = p THEN 1 ELSE 0)
      <4> HIDE DEF s, n, t
      <4> QED  BY <1>1, <3>1, EventAdds
    <3>3. Size(t) <= RingSize
      <4>1. Size(<<Event(p)>>) = 2 /\ Size(t) = SeqSum(Length, t)
        BY <1>1, <3>2, SizeOfNew, RingSums
      <4> QED  BY <1>3, <1>4, <2>2, <3>2, <4>1
    <3> HIDE DEF s, n, t
    <3> QED  BY <1>1, <1>3, <2>2, <3>1, <3>2, <3>3
  <2>3. CASE t = s /\ missed'[c] = n + 1
    <3> HIDE DEF s, n, t
    <3> QED  BY <1>1, <1>3, <2>3
  <2>4. \/ n > 0 /\ Size(s) + Size(<<Note(n), Event(p)>>) <= RingSize
        \/ n = 0 /\ Size(s) + Size(<<Event(p)>>) <= RingSize
        \/ t = s /\ missed'[c] = n + 1
    <3>1. n > 0 \/ n = 0
      BY <1>1
    <3> QED  BY <3>1 DEF RingType, Output
  <2> QED  BY <2>1, <2>2, <2>3, <2>4
<1>6. RingType'
  <2>1. ring' = [ring EXCEPT ![c] = t] /\ missed' = [missed EXCEPT ![c] = missed'[c]]
    BY DEF RingType, Output
  <2>2. t \in Seq(Records) /\ missed'[c] \in Nat /\ Size(t) <= RingSize
    BY <1>5
  <2> QED  BY <1>2, <2>1, <2>2 DEF RingType
<1>7. ASSUME NEW d \in Cpus
      PROVE  /\ ring[d] \in Seq(Records) /\ ring'[d] \in Seq(Records)
             /\ InRing(d) = SeqSum(Weight, ring[d]) /\ InRing(d)' = SeqSum(Weight, ring'[d])
             /\ \A q : EventsIn(d, q) = SeqSum(Of(q), ring[d])
             /\ \A q : EventsIn(d, q)' = SeqSum(Of(q), ring'[d])
  <2>1. ring[d] \in Seq(Records) /\ ring'[d] \in Seq(Records)
    BY <1>6 DEF RingType
  <2> QED  BY <2>1, RingSums DEF InRing, EventsIn
<1>8. \A d \in Cpus : /\ SeqSum(Weight, ring[d]) \in Nat /\ missed[d] \in Nat
                      /\ \A q : SeqSum(Of(q), ring[d]) \in Nat /\ SeqSum(Of(q), ring'[d]) \in Nat
  BY <1>7, RingSumTypes DEF RingType
<1>9. \A d \in Cpus : (InRing(d) + missed[d])'
                        = InRing(d) + missed[d] + (IF d = c THEN 1 ELSE 0)
  <2>1. CASE TRUE
    <3>1. (InRing(c) + missed[c])' = InRing(c) + missed[c] + 1
      BY <1>5, <1>7
    <3>2. \A d \in Cpus \ {c} : (InRing(d) + missed[d])' = InRing(d) + missed[d]
      BY <1>2, <1>7
    <3> QED  BY <1>7, <1>8, <3>1, <3>2
  <2> QED  BY <2>1
<1>10. \A q : EventsIn(c, q)' <= EventsIn(c, q) + (IF q = p THEN 1 ELSE 0)
  BY <1>5, <1>7
<1>11. \A d \in Cpus \ {c} : \A q : EventsIn(d, q)' = EventsIn(d, q)
  BY <1>2, <1>7
<1>12. \A d \in Cpus : \A q : EventsIn(d, q)' \in Nat
  BY <1>7, <1>8
<1> QED  BY <1>6, <1>9, <1>10, <1>11, <1>12, Zenon

\* A read takes the oldest record away.
LEMMA ReadTakes ==
  ASSUME RingType, NEW c \in Cpus, ring[c] # <<>>, UNCHANGED missed,
         ring' = [ring EXCEPT ![c] = Tail(@)]
  PROVE  LET r == Head(ring[c]) IN
         /\ r \in Records
         /\ RingType'
         /\ \A d \in Cpus : InRing(d) = InRing(d)' + (IF d = c THEN Weight[r] ELSE 0)
         /\ \A d \in Cpus : \A q : EventsIn(d, q)' \in Nat
         /\ \A d \in Cpus : \A q :
              EventsIn(d, q) = EventsIn(d, q)' + (IF d = c THEN Of(q)[r] ELSE 0)
<1> DEFINE s == ring[c]
           t == ring'[c]
           r == Head(s)
<1>1. /\ s \in Seq(Records) /\ s # <<>> /\ t = Tail(s) /\ t \in Seq(Records) /\ r \in Records
      /\ Size(s) <= RingSize /\ RingSize \in Nat
  BY ProcExitAssumption DEF RingType
<1>2. /\ \A d \in Cpus \ {c} : ring'[d] = ring[d]
      /\ DOMAIN ring' = Cpus
  BY DEF RingType
<1>3. /\ SeqSum(Weight, s) = Weight[r] + SeqSum(Weight, t)
      /\ SeqSum(Length, s) = Length[r] + SeqSum(Length, t)
      /\ \A q : SeqSum(Of(q), s) = Of(q)[r] + SeqSum(Of(q), t)
  <2> HIDE DEF s, t
  <2> QED  BY <1>1, SeqSumTail, WeightTypes
<1>4. Size(t) <= RingSize
  <2>1. Size(s) = SeqSum(Length, s) /\ Size(t) = SeqSum(Length, t) /\ SeqSum(Length, t) \in Nat
    BY <1>1, RingSums, RingSumTypes
  <2>2. Length[r] \in Nat
    BY <1>1, WeightTypes
  <2> HIDE DEF s, t, r
  <2> QED  BY <1>1, <1>3, <2>1, <2>2
<1>5. RingType'
  BY <1>1, <1>2, <1>4 DEF RingType
<1>6. ASSUME NEW d \in Cpus
      PROVE  /\ InRing(d) = SeqSum(Weight, ring[d]) /\ InRing(d)' = SeqSum(Weight, ring'[d])
             /\ \A q : EventsIn(d, q) = SeqSum(Of(q), ring[d])
             /\ \A q : EventsIn(d, q)' = SeqSum(Of(q), ring'[d])
             /\ SeqSum(Weight, ring'[d]) \in Nat
             /\ \A q : SeqSum(Of(q), ring'[d]) \in Nat
  <2>1. ring[d] \in Seq(Records) /\ ring'[d] \in Seq(Records)
    BY <1>5 DEF RingType
  <2> QED  BY <2>1, RingSums, RingSumTypes DEF InRing, EventsIn
<1>7. Weight[r] \in Nat /\ \A q : Of(q)[r] \in Nat
  BY <1>1, WeightTypes
<1>8. \A d \in Cpus : InRing(d) = InRing(d)' + (IF d = c THEN Weight[r] ELSE 0)
  <2>1. InRing(c) = InRing(c)' + Weight[r]
    BY <1>3, <1>6, <1>7
  <2>2. \A d \in Cpus \ {c} : InRing(d)' = InRing(d)
    BY <1>2, <1>6
  <2> HIDE DEF r
  <2> QED  BY <1>6, <2>1, <2>2
<1>9. \A d \in Cpus : \A q : EventsIn(d, q) = EventsIn(d, q)' + (IF d = c THEN Of(q)[r] ELSE 0)
  <2>1. \A q : EventsIn(c, q) = EventsIn(c, q)' + Of(q)[r]
    BY <1>3, <1>6, <1>7
  <2>2. \A d \in Cpus \ {c} : \A q : EventsIn(d, q)' = EventsIn(d, q)
    BY <1>2, <1>6
  <2> HIDE DEF r
  <2> QED  BY <1>6, <2>1, <2>2
<1> QED  BY <1>1, <1>5, <1>6, <1>8, <1>9

\* Events in the rings, counted or missed, and those of one pid.
Kept == SumFunction([c \in Cpus |-> InRing(c) + missed[c]])

RingEvents(p) == SumFunction([c \in Cpus |-> EventsIn(c, p)])

LEMMA InRingTypes ==
  RingType => /\ \A d \in Cpus : InRing(d) + missed[d] \in Nat
              /\ \A d \in Cpus : \A q : EventsIn(d, q) \in Nat
              /\ Kept \in Nat /\ \A q : RingEvents(q) \in Nat
<1> SUFFICES ASSUME RingType
             PROVE  /\ \A d \in Cpus : InRing(d) + missed[d] \in Nat
                    /\ \A d \in Cpus : \A q : EventsIn(d, q) \in Nat
                    /\ Kept \in Nat /\ \A q : RingEvents(q) \in Nat
  OBVIOUS
<1>1. ASSUME NEW d \in Cpus
      PROVE  InRing(d) + missed[d] \in Nat /\ \A q : EventsIn(d, q) \in Nat
  <2>1. ring[d] \in Seq(Records) /\ missed[d] \in Nat
    BY DEF RingType
  <2>2. InRing(d) \in Nat /\ \A q : EventsIn(d, q) \in Nat
    BY <2>1, RingSums, RingSumTypes DEF InRing, EventsIn
  <2> QED  BY <2>1, <2>2
<1>2. IsFiniteSet(Cpus)
  BY ProcExitAssumption
<1>3. Kept \in Nat
  <2>1. [c \in Cpus |-> InRing(c) + missed[c]] \in [Cpus -> Nat]
    BY <1>1
  <2> QED  BY <1>2, <2>1, FunSumIsNat DEF Kept
<1>4. ASSUME NEW q PROVE RingEvents(q) \in Nat
  <2>1. [c \in Cpus |-> EventsIn(c, q)] \in [Cpus -> Nat]
    BY <1>1
  <2> QED  BY <1>2, <2>1, FunSumIsNat DEF RingEvents
<1> QED  BY <1>1, <1>3, <1>4

LEMMA InRingTypesNext == RingType' =>
  /\ \A d \in Cpus : (InRing(d) + missed[d])' \in Nat
  /\ \A d \in Cpus : \A q : EventsIn(d, q)' \in Nat
  /\ Kept' \in Nat /\ \A q : RingEvents(q)' \in Nat
<1>1. (RingType => /\ \A d \in Cpus : InRing(d) + missed[d] \in Nat
                   /\ \A d \in Cpus : \A q : EventsIn(d, q) \in Nat
                   /\ Kept \in Nat /\ \A q : RingEvents(q) \in Nat)'
  BY InRingTypes, PTL
<1> QED  BY <1>1

LEMMA OutputTotals ==
  ASSUME RingType, NEW c \in Cpus, NEW p \in Pids, Output(c, Event(p))
  PROVE  /\ Kept' = Kept + 1
         /\ \A q : RingEvents(q)' <= RingEvents(q) + (IF q = p THEN 1 ELSE 0)
<1>1. /\ RingType'
      /\ \A d \in Cpus : (InRing(d) + missed[d])'
                           = InRing(d) + missed[d] + (IF d = c THEN 1 ELSE 0)
      /\ \A d \in Cpus \ {c} : \A q : EventsIn(d, q)' = EventsIn(d, q)
      /\ \A q : EventsIn(c, q)' <= EventsIn(c, q) + (IF q = p THEN 1 ELSE 0)
  BY OutputAdds
<1>2. IsFiniteSet(Cpus)
  BY ProcExitAssumption
<1>3. Kept' = Kept + 1
  <2> DEFINE f == [d \in Cpus |-> InRing(d) + missed[d]]
             e == [d \in Cpus |-> (InRing(d) + missed[d])']
  <2>1. f \in [Cpus -> Int] /\ e \in [Cpus -> Int]
    BY <1>1, InRingTypes, InRingTypesNext
  <2>2. (\A d \in Cpus : d # c => e[d] = f[d]) /\ e[c] = f[c] + 1 /\ f[c] \in Nat
    BY <1>1, InRingTypes
  <2>3. SumFunction(f) \in Nat
    BY InRingTypes DEF Kept
  <2>4. SumFunction(e) = SumFunction(f) + 1
    <3> HIDE DEF e, f
    <3>1. SumFunction(e) = SumFunction(f) - f[c] + e[c]
      BY <1>2, <2>1, <2>2, FunSumChanges
    <3> QED  BY <2>2, <2>3, <3>1
  <2> QED  BY <2>4 DEF Kept
<1>4. ASSUME NEW q PROVE RingEvents(q)' <= RingEvents(q) + (IF q = p THEN 1 ELSE 0)
  <2> DEFINE f == [d \in Cpus |-> EventsIn(d, q)]
             e == [d \in Cpus |-> EventsIn(d, q)']
  <2>1. f \in [Cpus -> Int] /\ e \in [Cpus -> Int]
    BY <1>1, InRingTypes, InRingTypesNext
  <2>2. /\ \A d \in Cpus : d # c => e[d] = f[d]
        /\ e[c] <= f[c] + (IF q = p THEN 1 ELSE 0) /\ f[c] \in Nat /\ e[c] \in Nat
    BY <1>1, InRingTypes, InRingTypesNext
  <2>3. SumFunction(f) \in Nat
    BY InRingTypes DEF RingEvents
  <2>4. SumFunction(e) <= SumFunction(f) + (IF q = p THEN 1 ELSE 0)
    <3> HIDE DEF e, f
    <3>1. SumFunction(e) = SumFunction(f) - f[c] + e[c]
      BY <1>2, <2>1, <2>2, FunSumChanges
    <3> QED  BY <2>2, <2>3, <3>1
  <2> QED  BY <2>4 DEF RingEvents
<1> QED  BY <1>3, <1>4

LEMMA ReadTotals ==
  ASSUME RingType, NEW c \in Cpus, ring[c] # <<>>, UNCHANGED missed,
         ring' = [ring EXCEPT ![c] = Tail(@)]
  PROVE  LET r == Head(ring[c]) IN
         /\ Kept' + Weight[r] = Kept
         /\ \A q : RingEvents(q)' + Of(q)[r] = RingEvents(q)
<1> DEFINE r == Head(ring[c])
<1>1. /\ r \in Records /\ RingType'
      /\ \A d \in Cpus : InRing(d) = InRing(d)' + (IF d = c THEN Weight[r] ELSE 0)
      /\ \A d \in Cpus : \A q :
           EventsIn(d, q) = EventsIn(d, q)' + (IF d = c THEN Of(q)[r] ELSE 0)
  BY ReadTakes
<1>2. IsFiniteSet(Cpus) /\ Weight[r] \in Nat /\ \A q : Of(q)[r] \in Nat
  BY <1>1, WeightTypes, ProcExitAssumption
<1> HIDE DEF r
<1>3. Kept' + Weight[r] = Kept
  <2> DEFINE f == [d \in Cpus |-> InRing(d) + missed[d]]
             e == [d \in Cpus |-> (InRing(d) + missed[d])']
  <2>1. f \in [Cpus -> Int] /\ e \in [Cpus -> Int]
    BY <1>1, InRingTypes, InRingTypesNext
  <2>2. \A d \in Cpus : InRing(d) \in Nat /\ InRing(d)' \in Nat /\ missed[d] \in Nat
    <3>1. \A d \in Cpus : ring[d] \in Seq(Records) /\ ring'[d] \in Seq(Records) /\ missed[d] \in Nat
      BY <1>1 DEF RingType
    <3> QED  BY <3>1, RingSums, RingSumTypes DEF InRing
  <2>3. (\A d \in Cpus : d # c => e[d] = f[d]) /\ f[c] = e[c] + Weight[r]
    BY <1>1, <1>2, <2>2
  <2>4. SumFunction(e) \in Nat
    BY <1>1, InRingTypesNext DEF Kept
  <2>5. SumFunction(f) = SumFunction(e) + Weight[r]
    <3> HIDE DEF e, f
    <3>1. SumFunction(f) = SumFunction(e) - e[c] + f[c]
      BY <1>2, <2>1, <2>3, FunSumChanges
    <3> QED  BY <1>2, <2>1, <2>3, <2>4, <3>1
  <2> QED  BY <2>5 DEF Kept
<1>4. ASSUME NEW q PROVE RingEvents(q)' + Of(q)[r] = RingEvents(q)
  <2> DEFINE f == [d \in Cpus |-> EventsIn(d, q)]
             e == [d \in Cpus |-> EventsIn(d, q)']
  <2>1. f \in [Cpus -> Int] /\ e \in [Cpus -> Int]
    BY <1>1, InRingTypes, InRingTypesNext
  <2>2. \A d \in Cpus : EventsIn(d, q)' \in Nat
    BY <1>1, InRingTypesNext
  <2>3. (\A d \in Cpus : d # c => e[d] = f[d]) /\ f[c] = e[c] + Of(q)[r]
    BY <1>1, <1>2, <2>2
  <2>4. SumFunction(e) \in Nat
    BY <1>1, InRingTypesNext DEF RingEvents
  <2>5. SumFunction(f) = SumFunction(e) + Of(q)[r]
    <3>1. (\A d \in Cpus : d # c => f[d] = e[d]) /\ IsFiniteSet(Cpus)
      BY <1>2, <2>3
    <3> HIDE DEF e, f
    <3>2. SumFunction(f) = SumFunction(e) - e[c] + f[c]
      BY <2>1, <3>1, FunSumChanges
    <3> QED  BY <1>2, <2>1, <2>3, <2>4, <3>2
  <2> QED  BY <2>5 DEF RingEvents
<1> QED  BY <1>3, <1>4 DEF r

-----------------------------------------------------------------------------
(* Types *)

\* run sends only what it resolved to a container.
HandInv == reader = "send" => hand.cid \in Cids

\* The deferred calls are a list, and main goes down it.
LEMMA DeferredLength == Len(Deferred) \in Nat /\ DOMAIN Deferred = 1 .. Len(Deferred)
<1> DEFINE S == PollerSet \cup {"agg", "pec", "enc"}
<1>1. Pollers \in Seq(S)
  BY ShutdownAssumption DEF PollerSet
<1>2. <<"agg">> \o Pollers \o <<"pec", "enc">> \in Seq(S)
  <2>1. <<"agg">> \in Seq(S) /\ <<"pec", "enc">> \in Seq(S)
    OBVIOUS
  <2> HIDE DEF S
  <2> QED  BY <1>1, <2>1, ConcatProperties
<1> QED  BY <1>2 DEF Deferred

LEMMA TypeInit == Init => TypeOK /\ HandInv
<1> SUFFICES ASSUME Init PROVE TypeOK /\ HandInv
  OBVIOUS
<1>1. Size(<<>>) <= RingSize
  <2>1. <<>> \in Seq(Records)
    OBVIOUS
  <2>2. Size(<<>>) = SeqSum(Length, <<>>)
    BY <2>1, RingSums, Zenon
  <2>3. SeqSum(Length, <<>>) = 0
    BY SeqSumOfNone, Zenon
  <2> QED  BY <2>2, <2>3, ProcExitAssumption
<1>2. IsMap(proc, Pids, [cid : Keys, leader : {"alive", "exited"}])
  BY EmptyIsMap, Zenon DEF Init, ExitInit
<1>3. /\ ring \in [Cpus -> Seq(Records)] /\ \A c \in Cpus : Size(ring[c]) <= RingSize
      /\ missed \in [Cpus -> Nat]
  <2>1. ring = [c \in Cpus |-> <<>>] /\ missed = [c \in Cpus |-> 0]
    BY DEF Init, ExitInit, ZeroOf
  <2> QED  BY <1>1, <2>1
<1>4. ExitTypeOK
  <2>1. hand \in [pid : SUBSET Pids, cid : Keys]
    BY DEF Init, ExitInit, NoHand, Keys
  <2>2. events \in Seq(Cids) /\ Len(events) <= ChannelSize
    BY ProcExitAssumption DEF Init, ExitInit
  <2> QED  BY <1>2, <1>3, <2>1, <2>2 DEF Init, ExitInit, ExitTypeOK, ZeroOf
<1>5. main \in 0 .. Exited
  BY DeferredLength DEF Init, Exited
<1>6. snaps \in [PollerSet -> 0 .. SnapChannel] /\ ingested \in [Cids -> Nat]
  BY ShutdownAssumption DEF Init, ZeroOf
<1>7. HandInv
  BY DEF Init, ExitInit, HandInv
<1>8. /\ step \in 1 .. 4
      /\ poller \in [PollerSet -> {"wait", "poll", "send", "returned"}]
      /\ pollStop \subseteq PollerSet /\ released \subseteq PollerSet
      /\ snapsClosed \subseteq PollerSet
  BY DEF Init
<1>9. signalled \in BOOLEAN /\ aggStop \in BOOLEAN /\ fileOpen \in BOOLEAN
  BY Zenon DEF Init
<1> QED  BY <1>4, <1>5, <1>6, <1>7, <1>8, <1>9 DEF TypeOK

LEMMA MainMoves ==
  ASSUME TypeOK, CloseInv, NEW j, NEW what, Doing(j, what), Done
  PROVE  main' \in 0 .. Exited /\ step' \in 1 .. 4 /\ UNCHANGED <<signalled, ingested>>
<1>1. step' \in 1 .. 4
  BY DoneOrder DEF CloseInv
<1>2. main \in 1 .. Len(Deferred) /\ Len(Deferred) \in Nat
  BY DeferredLength DEF Doing
<1>3. main' = main \/ main' = main + 1
  BY DEF Done
<1> QED  BY <1>1, <1>2, <1>3 DEF Exited, Done

LEMMA TypeStop ==
  ASSUME TypeOK, CloseInv, Stop
  PROVE  TypeOK'
<1>1. PICK j, what : Doing(j, what) /\ Done
  BY DEF Stop, AggStop, PollerClose, PollerRelease, Wait, ExitClose, ExitRelease, EncoderClose
<1>2. main' \in 0 .. Exited /\ step' \in 1 .. 4 /\ UNCHANGED <<signalled, ingested>>
  BY <1>1, MainMoves
<1>3. /\ UNCHANGED <<proc, ring, missed, readerVars, exitHistory>>
      /\ attached' \in BOOLEAN
      /\ stopCh' \in BOOLEAN /\ rdClosed' \in BOOLEAN /\ eventsClosed' \in BOOLEAN
  BY DEF Stop, AggStop, PollerClose, PollerRelease, Wait, ExitClose, ExitRelease,
     EncoderClose, exitVars, kernelVars, stopVars, TypeOK, ExitTypeOK
<1>4. ExitTypeOK'
  BY <1>3 DEF TypeOK, ExitTypeOK, readerVars, exitHistory
<1>5. /\ UNCHANGED <<poller, snaps>>
      /\ pollStop' \subseteq PollerSet
      /\ released' \subseteq PollerSet /\ snapsClosed' \subseteq PollerSet
      /\ aggStop' \in BOOLEAN /\ fileOpen' \in BOOLEAN
  BY DEF Stop, AggStop, PollerClose, PollerRelease, Wait, ExitClose, ExitRelease,
     EncoderClose, pollerVars, TypeOK
<1> QED  BY <1>2, <1>4, <1>5 DEF TypeOK

LEMMA TypePoller ==
  ASSUME TypeOK, NEW k \in PollerSet, PollerStep(k)
  PROVE  TypeOK'
<1>1. /\ poller' \in [PollerSet -> {"wait", "poll", "send", "returned"}]
      /\ UNCHANGED <<exitVars, pollStop, released, snapsClosed, mainVars>>
  BY DEF PollerStep, PollerTick, PollerPolled, PollerSend, PollerReturn, MovePoller, TypeOK
<1>2. snaps' \in [PollerSet -> 0 .. SnapChannel]
  <2>1. CASE UNCHANGED snaps
    BY <2>1 DEF TypeOK
  <2>2. CASE PollerSend(k)
    BY <2>2, ShutdownAssumption DEF PollerSend, TypeOK
  <2> QED
    BY <2>1, <2>2 DEF PollerStep, PollerTick, PollerPolled, PollerReturn
<1> QED
  BY <1>1, <1>2 DEF TypeOK, ExitTypeOK, exitVars, kernelVars, readerVars, stopVars,
     exitHistory, mainVars

LEMMA TypeKernel ==
  ASSUME ExitTypeOK, Kernel
  PROVE  ExitTypeOK'
<1>1. PICK p \in Pids : \/ \E c \in Keys : Fork(p, c)
                        \/ \E c \in Cpus : LeaderExit(c, p)
                        \/ ExecAfterExit(p)
                        \/ Reap(p)
  BY DEF Kernel
<1>2. UNCHANGED <<attached, readerVars, stopVars, resolved, gone>>
  BY <1>1 DEF Fork, LeaderExit, ExecAfterExit, Reap, exitHistory
<1>3. RingType
  BY DEF ExitTypeOK, RingType
<1>4. ASSUME NEW c \in Keys, Fork(p, c) PROVE ExitTypeOK'
  <2>1. IsMap(proc', Pids, [cid : Keys, leader : {"alive", "exited"}])
    <3>1. [cid |-> c, leader |-> "alive"] \in [cid : Keys, leader : {"alive", "exited"}]
      OBVIOUS
    <3> QED  BY <1>4, <3>1, PutIsMap, Zenon DEF Fork, ExitTypeOK
  <2>2. UnderWay(p) \in Nat
    BY <1>3, InRingTypes DEF UnderWay, RingEvents
  <2>3. takenOver' \in [Cids -> Nat]
    BY <1>4, <2>2 DEF Fork, ExitTypeOK
  <2>4. lives' \in [Keys -> Nat]
    BY <1>4 DEF Fork, Live, ExitTypeOK
  <2> QED  BY <1>2, <1>4, <2>1, <2>3, <2>4 DEF Fork, ExitTypeOK, readerVars, stopVars
<1>5. ASSUME NEW c \in Cpus, LeaderExit(c, p) PROVE ExitTypeOK'
  <2>1. IsMap(proc', Pids, [cid : Keys, leader : {"alive", "exited"}])
    BY <1>5 DEF LeaderExit, ExitTypeOK, IsMap
  <2>2. RingType' /\ exits' \in Nat
    <3>1. CASE attached
      BY <1>3, <1>5, <3>1, OutputAdds DEF LeaderExit, ExitTypeOK
    <3>2. CASE ~attached
      BY <1>3, <1>5, <3>2 DEF LeaderExit, ExitTypeOK, RingType
    <3> QED  BY <3>1, <3>2
  <2> QED  BY <1>2, <1>5, <2>1, <2>2 DEF LeaderExit, ExitTypeOK, readerVars, stopVars, RingType
<1>6. CASE ExecAfterExit(p)
  <2>1. IsMap(proc', Pids, [cid : Keys, leader : {"alive", "exited"}])
    BY <1>6 DEF ExecAfterExit, ExitTypeOK, IsMap
  <2>2. lives' \in [Keys -> Nat]
    BY <1>6 DEF ExecAfterExit, Live, ExitTypeOK, IsMap
  <2> QED  BY <1>2, <1>6, <2>1, <2>2 DEF ExecAfterExit, ExitTypeOK, readerVars, stopVars
<1>7. CASE Reap(p)
  <2>1. IsMap(proc', Pids, [cid : Keys, leader : {"alive", "exited"}])
    BY <1>7, DropIsMap, Zenon DEF Reap, ExitTypeOK
  <2> QED  BY <1>2, <1>7, <2>1 DEF Reap, ExitTypeOK, readerVars, stopVars, exitHistory
<1> QED  BY <1>1, <1>4, <1>5, <1>6, <1>7

LEMMA TypeRun ==
  ASSUME ExitTypeOK, HandInv, Run
  PROVE  ExitTypeOK' /\ HandInv'
<1>1. UNCHANGED <<proc, missed, attached, stopVars, lives, takenOver, exits>>
  BY DEF Run, Read, Resolve, Send, Return, exitHistory, kernelVars
<1>2. RingType
  BY DEF ExitTypeOK, RingType
<1>3. ASSUME NEW c \in Cpus, Read(c) PROVE ExitTypeOK' /\ HandInv'
  <2> DEFINE r == Head(ring[c])
  <2>1. RingType' /\ r \in Records
    BY <1>2, <1>3, ReadTakes DEF Read
  <2>2. CASE IsEvent(r)
    <3>1. reader' = "resolve" /\ hand' = [pid |-> r.pid, cid |-> Host] /\ gone' = gone
      BY <1>3, <2>2 DEF Read
    <3>2. hand' \in [pid : SUBSET Pids, cid : Keys]
      BY <2>1, <3>1 DEF Records, Keys
    <3> HIDE DEF r
    <3> QED  BY <1>1, <1>3, <2>1, <3>1, <3>2 DEF Read, ExitTypeOK, HandInv, RingType, stopVars
  <2>3. CASE ~IsEvent(r)
    <3>1. Gone("noted", r.lost) /\ UNCHANGED <<reader, hand>>
      BY <1>3, <2>3 DEF Read
    <3>2. r.lost \in Nat
      BY <2>1 DEF Records
    <3> HIDE DEF r
    <3>3. gone' \in [Reasons -> Nat]
      BY <3>1, <3>2 DEF ExitTypeOK, Gone, Reasons
    <3> QED  BY <1>1, <1>3, <2>1, <3>1, <3>3 DEF Read, ExitTypeOK, HandInv, RingType, stopVars
  <2> QED  BY <2>2, <2>3
<1>4. ASSUME NEW p \in Pids, Resolve(p) PROVE ExitTypeOK' /\ HandInv'
  <2> DEFINE c == ContainerOf(p)
  <2>1. c \in Keys
    BY DEF ContainerOf, ExitTypeOK, IsMap, Keys
  <2>2. CASE c = Host
    <3>1. reader' = "read" /\ hand' = NoHand /\ Gone("host", 1) /\ UNCHANGED resolved
      BY <1>4, <2>2 DEF Resolve
    <3>2. gone' \in [Reasons -> Nat] /\ hand' \in [pid : SUBSET Pids, cid : Keys]
      BY <3>1 DEF Gone, ExitTypeOK, NoHand, Keys, Reasons
    <3> QED  BY <1>1, <1>4, <3>1, <3>2 DEF Resolve, ExitTypeOK, HandInv, stopVars, kernelVars
  <2>3. CASE c # Host
    <3>1. /\ reader' = "send" /\ hand' = [pid |-> {}, cid |-> c] /\ UNCHANGED gone
          /\ resolved' = [resolved EXCEPT ![c] = @ + 1]
      BY <1>4, <2>3 DEF Resolve
    <3>2. c \in Cids
      BY <2>1, <2>3 DEF Keys
    <3> HIDE DEF c
    <3>3. hand' \in [pid : SUBSET Pids, cid : Keys] /\ hand'.cid \in Cids
      BY <2>1, <3>1, <3>2
    <3>4. resolved' \in [Cids -> Nat]
      BY <3>1, <3>2 DEF ExitTypeOK
    <3> QED  BY <1>1, <1>4, <3>1, <3>3, <3>4 DEF Resolve, ExitTypeOK, HandInv, stopVars, kernelVars
  <2> QED  BY <2>2, <2>3
<1>5. CASE Send
  <2>1. events' \in Seq(Cids) /\ Len(events') <= ChannelSize
    <3>1. hand.cid \in Cids /\ events \in Seq(Cids) /\ Len(events) < ChannelSize
      BY <1>5 DEF Send, HandInv, HasCapacity, ExitTypeOK
    <3>2. events' = Append(events, hand.cid)
      BY <1>5 DEF Send
    <3> QED  BY <3>1, <3>2, ProcExitAssumption
  <2>2. hand' \in [pid : SUBSET Pids, cid : Keys]
    BY <1>5 DEF Send, NoHand, Keys
  <2> QED
    BY <1>1, <1>5, <2>1, <2>2 DEF Send, ExitTypeOK, HandInv, stopVars, kernelVars, exitHistory
<1>6. CASE Return
  <2>1. gone' \in [Reasons -> Nat]
    BY <1>6 DEF Return, Gone, ExitTypeOK, Reasons
  <2>2. hand' \in [pid : SUBSET Pids, cid : Keys]
    BY <1>6 DEF Return, NoHand, Keys
  <2> QED
    BY <1>1, <1>6, <2>1, <2>2 DEF Return, ExitTypeOK, HandInv, stopVars, kernelVars
<1> QED  BY <1>3, <1>4, <1>5, <1>6 DEF Run

LEMMA TypeStep == TypeOK /\ HandInv /\ CloseInv /\ [Next]_vars => TypeOK' /\ HandInv'
<1> SUFFICES ASSUME TypeOK, HandInv, CloseInv, [Next]_vars PROVE TypeOK' /\ HandInv'
  OBVIOUS
<1>1. CASE UNCHANGED vars \/ Ended
  BY <1>1 DEF Ended, vars, TypeOK, ExitTypeOK, HandInv, exitVars, kernelVars, readerVars,
     stopVars, exitHistory, pollerVars, mainVars
<1>2. CASE Signal \/ TakeSignal
  <2>1. main' \in 0 .. Exited
    BY <1>2, DeferredLength DEF Signal, TakeSignal, TypeOK, Exited
  <2>2. UNCHANGED <<exitVars, pollerVars, step, aggStop, fileOpen, ingested>>
        /\ signalled' \in BOOLEAN
    BY <1>2 DEF Signal, TakeSignal, TypeOK
  <2> QED  BY <2>1, <2>2 DEF TypeOK, ExitTypeOK, HandInv, exitVars, kernelVars, readerVars,
     stopVars, exitHistory, pollerVars
<1>3. CASE TakeExit
  <2>1. /\ events' \in Seq(Cids) /\ Len(events') <= ChannelSize
        /\ ingested' \in [Cids -> Nat]
    <3>1. Head(events) \in Cids /\ Len(events) \in Nat \ {0}
          /\ Tail(events) \in Seq(Cids) /\ Len(Tail(events)) = Len(events) - 1
      BY <1>3 DEF TakeExit, TypeOK, ExitTypeOK
    <3> QED  BY <1>3, <3>1, ProcExitAssumption DEF TakeExit, TypeOK, ExitTypeOK
  <2> QED  BY <1>3, <2>1 DEF TakeExit, TypeOK, ExitTypeOK, HandInv, exitVars, kernelVars,
     stopVars, exitHistory, pollerVars
<1>4. CASE \E k \in PollerSet : TakeSnapshot(k)
  <2>1. snaps' \in [PollerSet -> 0 .. SnapChannel]
    BY <1>4, ShutdownAssumption DEF TakeSnapshot, TypeOK
  <2> QED  BY <1>4, <2>1 DEF TakeSnapshot, TypeOK, ExitTypeOK, HandInv, exitVars, kernelVars,
     readerVars, stopVars, exitHistory, mainVars
<1>5. CASE Stop
  <2>1. UNCHANGED <<reader, hand>>
    BY <1>5 DEF Stop, AggStop, PollerClose, PollerRelease, Wait, ExitClose, ExitRelease,
       EncoderClose, exitVars, readerVars
  <2> QED  BY <1>5, <2>1, TypeStop DEF HandInv
<1>6. CASE \E k \in PollerSet : PollerStep(k)
  <2>1. UNCHANGED <<reader, hand>>
    BY <1>6 DEF PollerStep, PollerTick, PollerPolled, PollerSend, PollerReturn, MovePoller,
       exitVars, readerVars
  <2> QED  BY <1>6, <2>1, TypePoller DEF HandInv
<1>7. CASE ExitStep
  <2>1. ExitTypeOK' /\ HandInv'
    <3>1. CASE Kernel
      <4>1. UNCHANGED <<reader, hand>>
        BY <3>1 DEF Kernel, Fork, LeaderExit, ExecAfterExit, Reap, readerVars
      <4> QED  BY <3>1, <4>1, TypeKernel DEF TypeOK, HandInv
    <3>2. CASE Run
      BY <3>2, TypeRun DEF TypeOK
    <3> QED  BY <1>7, <3>1, <3>2 DEF ExitStep
  <2> QED  BY <1>7, <2>1 DEF ExitStep, TypeOK, pollerVars, mainVars
<1> QED  BY <1>1, <1>2, <1>3, <1>4, <1>5, <1>6, <1>7 DEF Next, Main

-----------------------------------------------------------------------------
(* Every exit is accounted for *)

\* The events and their counts change in the goroutine's and the kernel's steps,
\* and when main takes one.
LEMMA OthersLeaveExits ==
  ASSUME [Next]_vars, ~TakeExit, ~ExitStep
  PROVE  /\ UNCHANGED <<proc, ring, missed, reader, hand, events, ingested>>
         /\ UNCHANGED <<lives, takenOver, exits, resolved, gone>>
<1>1. CASE Signal \/ TakeSignal \/ UNCHANGED vars \/ Ended
  BY <1>1 DEF Signal, TakeSignal, Ended, vars, exitVars, kernelVars, readerVars, exitHistory,
     mainVars
<1>2. CASE Stop
  BY <1>2 DEF Stop, AggStop, PollerClose, PollerRelease, Wait, ExitClose, ExitRelease,
     EncoderClose, Done, exitVars, kernelVars, readerVars, exitHistory
<1>3. CASE \E k \in PollerSet : PollerStep(k) \/ TakeSnapshot(k)
  BY <1>3 DEF PollerStep, PollerTick, PollerPolled, PollerSend, PollerReturn, MovePoller,
     TakeSnapshot, exitVars, kernelVars, readerVars, exitHistory, mainVars
<1> QED  BY <1>1, <1>2, <1>3 DEF Next, Main

Ledger == Kept + Holding + Len(events) + SumFunction(ingested) + SumFunction(gone)

LEMMA LedgerIs == ExitsAccounted <=> exits = Ledger
BY DEF ExitsAccounted, ExitsAccountedFor, Ledger, Kept

LEMMA ReasonsFinite == IsFiniteSet(Reasons)
<1>1. IsFiniteSet({"host"})
  BY FS_Singleton
<1>2. IsFiniteSet({"host"} \cup {"stopped"})
  BY <1>1, FS_AddElement
<1>3. IsFiniteSet(({"host"} \cup {"stopped"}) \cup {"noted"})
  BY <1>2, FS_AddElement
<1>4. ({"host"} \cup {"stopped"}) \cup {"noted"} = Reasons
  BY DEF Reasons
<1> QED  BY <1>3, <1>4

LEMMA LedgerTypes ==
  TypeOK => /\ Kept \in Nat /\ Holding \in Nat /\ Len(events) \in Nat /\ exits \in Nat
            /\ SumFunction(ingested) \in Nat /\ SumFunction(gone) \in Nat
<1> SUFFICES ASSUME TypeOK
             PROVE  /\ Kept \in Nat /\ Holding \in Nat /\ Len(events) \in Nat /\ exits \in Nat
                    /\ SumFunction(ingested) \in Nat /\ SumFunction(gone) \in Nat
  OBVIOUS
<1>1. Kept \in Nat
  BY InRingTypes DEF TypeOK, ExitTypeOK, RingType
<1>2. SumFunction(ingested) \in Nat
  BY FunSumIsNat, ProcExitAssumption DEF TypeOK
<1>3. SumFunction(gone) \in Nat
  BY ReasonsFinite, FunSumIsNat DEF TypeOK, ExitTypeOK
<1> QED  BY <1>1, <1>2, <1>3 DEF Holding, TypeOK, ExitTypeOK

\* What Ledger adds up to when its parts do.
LEMMA LedgerMoves ==
  ASSUME NEW k \in Int, NEW h \in Int, NEW e \in Int, NEW t \in Int, NEW g \in Int,
         TypeOK, ExitsAccounted,
         exits' = exits + k + h + e + t + g,
         Kept' = Kept + k, Holding' = Holding + h, Len(events') = Len(events) + e,
         SumFunction(ingested') = SumFunction(ingested) + t,
         SumFunction(gone') = SumFunction(gone) + g
  PROVE  ExitsAccounted'
<1>1. exits' = Ledger'
  <2>1. /\ Kept \in Nat /\ Holding \in Nat /\ Len(events) \in Nat /\ exits \in Nat
        /\ SumFunction(ingested) \in Nat /\ SumFunction(gone) \in Nat
    BY LedgerTypes
  <2>2. Kept + Holding + Len(events) + SumFunction(ingested) + SumFunction(gone) = exits
    BY LedgerIs DEF Ledger
  <2>3. exits' = (Kept + k) + (Holding + h) + (Len(events) + e)
                 + (SumFunction(ingested) + t) + (SumFunction(gone) + g)
    <3>1. ASSUME NEW x1 \in Int, NEW x2 \in Int, NEW x3 \in Int, NEW x4 \in Int, NEW x5 \in Int
          PROVE  (x1 + x2 + x3 + x4 + x5) + k + h + e + t + g
                   = (x1 + k) + (x2 + h) + (x3 + e) + (x4 + t) + (x5 + g)
      OBVIOUS
    <3> QED  BY <2>1, <2>2, <3>1
  <2> QED  BY <2>3 DEF Ledger
<1> QED  BY <1>1 DEF ExitsAccounted, ExitsAccountedFor, Ledger, Kept

LEMMA GoneAdds ==
  ASSUME gone \in [Reasons -> Nat], NEW why \in Reasons, NEW n \in Nat, Gone(why, n)
  PROVE  SumFunction(gone') = SumFunction(gone) + n
<1>1. IsFiniteSet(Reasons)
  BY ReasonsFinite
<1>2. /\ gone \in [Reasons -> Int] /\ gone' \in [Reasons -> Int]
      /\ \A x \in Reasons : x # why => gone'[x] = gone[x]
      /\ gone'[why] = gone[why] + n /\ gone[why] \in Nat
  BY DEF Gone
<1>3. SumFunction(gone') = SumFunction(gone) - gone[why] + gone'[why]
  BY <1>1, <1>2, FunSumChanges
<1>4. SumFunction(gone) \in Nat
  BY <1>1, FunSumIsNat
<1> QED  BY <1>2, <1>3, <1>4

LEMMA LedgerInit == Init => ExitsAccounted
<1> SUFFICES ASSUME Init PROVE ExitsAccounted
  OBVIOUS
<1>1. Kept = 0
  <2>1. \A c \in Cpus : InRing(c) = 0 /\ missed[c] = 0
    <3>1. \A c \in Cpus : ring[c] = <<>> /\ missed[c] = 0
      BY DEF Init, ExitInit, ZeroOf
    <3>2. <<>> \in Seq(Records)
      OBVIOUS
    <3>3. ASSUME NEW c \in Cpus PROVE InRing(c) = 0
      <4>1. InRing(c) = SeqSum(Weight, ring[c])
        BY <3>1, <3>2, RingSums DEF InRing
      <4>2. SeqSum(Weight, <<>>) = 0
        BY SeqSumOfNone, Zenon
      <4> QED  BY <3>1, <4>1, <4>2, Zenon
    <3> QED  BY <3>1, <3>3
  <2>2. \A c \in Cpus : [d \in Cpus |-> InRing(d) + missed[d]][c] = 0
    BY <2>1
  <2>3. IsFiniteSet(Cpus)
    BY ProcExitAssumption
  <2> QED  BY <2>2, <2>3, FunSumOfZeros DEF Kept
<1>2. SumFunction(ingested) = 0
  <2>1. DOMAIN ingested = Cids /\ \A c \in Cids : ingested[c] = 0
    BY DEF Init, ZeroOf
  <2> QED  BY <2>1, FunSumOfZeros, ProcExitAssumption
<1>3. SumFunction(gone) = 0
  <2>1. DOMAIN gone = Reasons /\ (\A c \in Reasons : gone[c] = 0) /\ IsFiniteSet(Reasons)
    BY ReasonsFinite DEF Init, ExitInit, ZeroOf
  <2> QED  BY <2>1, FunSumOfZeros
<1>4. Holding = 0 /\ Len(events) = 0 /\ exits = 0
  BY DEF Init, ExitInit, Holding
<1> QED  BY <1>1, <1>2, <1>3, <1>4, LedgerIs DEF Ledger

\* A step that moves nothing between the places, or as much into one of them as
\* out of another.
LEMMA LedgerStep == TypeOK /\ ExitsAccounted /\ HandInv /\ [Next]_vars => ExitsAccounted'
<1> SUFFICES ASSUME TypeOK, ExitsAccounted, HandInv, [Next]_vars PROVE ExitsAccounted'
  OBVIOUS
<1>1. /\ Kept \in Nat /\ Holding \in Nat /\ Len(events) \in Nat /\ exits \in Nat
      /\ SumFunction(ingested) \in Nat /\ SumFunction(gone) \in Nat
  BY LedgerTypes
<1>2. RingType /\ gone \in [Reasons -> Nat]
  BY DEF TypeOK, ExitTypeOK, RingType
<1>3. ASSUME UNCHANGED <<ring, missed>> PROVE Kept' = Kept
  BY <1>3 DEF Kept, InRing
<1>4. CASE ~TakeExit /\ ~ExitStep
  <2>1. /\ UNCHANGED <<proc, ring, missed, reader, hand, events, ingested>>
        /\ UNCHANGED <<lives, takenOver, exits, resolved, gone>>
    BY <1>4, OthersLeaveExits
  <2>2. Kept' = Kept /\ Holding' = Holding
    BY <1>3, <2>1 DEF Holding
  <2> QED  BY <2>1, <2>2 DEF ExitsAccounted, ExitsAccountedFor, Kept
<1>5. CASE TakeExit
  <2> DEFINE c == Head(events)
  <2>1. c \in Cids /\ Len(Tail(events)) = Len(events) - 1
    BY <1>5 DEF TakeExit, TypeOK, ExitTypeOK
  <2>2. /\ UNCHANGED <<ring, missed, reader, exits, gone>>
        /\ events' = Tail(events) /\ ingested' = [ingested EXCEPT ![c] = @ + 1]
    BY <1>5 DEF TakeExit, kernelVars, exitHistory
  <2>3. SumFunction(ingested') = SumFunction(ingested) + 1
    <3> HIDE DEF c
    <3>1. /\ ingested \in [Cids -> Int] /\ ingested' \in [Cids -> Int]
          /\ \A x \in Cids : x # c => ingested'[x] = ingested[x]
          /\ ingested'[c] = ingested[c] + 1 /\ ingested[c] \in Nat
      BY <2>1, <2>2 DEF TypeOK
    <3>2. IsFiniteSet(Cids)
      BY ProcExitAssumption
    <3>3. SumFunction(ingested') = SumFunction(ingested) - ingested[c] + ingested'[c]
      BY <2>1, <3>1, <3>2, FunSumChanges
    <3> QED  BY <1>1, <3>1, <3>3
  <2>4. Kept' = Kept /\ Holding' = Holding
    BY <1>3, <2>2 DEF Holding
  <2>5. /\ Kept' = Kept + 0 /\ Holding' = Holding + 0 /\ Len(events') = Len(events) + (-1)
        /\ SumFunction(ingested') = SumFunction(ingested) + 1
        /\ SumFunction(gone') = SumFunction(gone) + 0
        /\ exits' = exits + 0 + 0 + (-1) + 1 + 0
    <3> HIDE DEF c
    <3> QED  BY <1>1, <2>1, <2>2, <2>3, <2>4
  <2> QED  BY <2>5, LedgerMoves
<1>6. CASE ExitStep /\ Kernel
  <2>1. UNCHANGED <<reader, events, ingested, gone>>
    BY <1>6 DEF ExitStep, Kernel, Fork, LeaderExit, ExecAfterExit, Reap, readerVars, exitHistory,
       mainVars
  <2>2. \E n \in Int : Kept' = Kept + n /\ exits' = exits + n
    <3>1. CASE UNCHANGED <<ring, missed, exits>>
      <4>1. Kept' = Kept + 0 /\ exits' = exits + 0
        BY <1>1, <1>3, <3>1
      <4> QED  BY <4>1
    <3>2. ASSUME NEW c \in Cpus, NEW p \in Pids, LeaderExit(c, p), attached
          PROVE  \E n \in Int : Kept' = Kept + n /\ exits' = exits + n
      <4>1. Kept' = Kept + 1 /\ exits' = exits + 1
        BY <1>2, <3>2, OutputTotals DEF LeaderExit
      <4> QED  BY <4>1
    <3> QED
      BY <1>6, <3>1, <3>2 DEF Kernel, Fork, LeaderExit, ExecAfterExit, Reap, exitHistory
  <2>3. PICK n \in Int : Kept' = Kept + n /\ exits' = exits + n
    BY <2>2
  <2>4. /\ Holding' = Holding + 0 /\ Len(events') = Len(events) + 0
        /\ SumFunction(ingested') = SumFunction(ingested) + 0
        /\ SumFunction(gone') = SumFunction(gone) + 0
        /\ exits' = exits + n + 0 + 0 + 0 + 0
    <3>1. Holding' = Holding
      BY <2>1 DEF Holding
    <3> QED  BY <1>1, <2>1, <2>3, <3>1
  <2> QED  BY <2>3, <2>4, LedgerMoves
<1>7. CASE ExitStep /\ Run
  <2>1. UNCHANGED <<exits, ingested>>
    BY <1>7 DEF ExitStep, Run, Read, Resolve, Send, Return, exitHistory, mainVars
  <2>2. ASSUME NEW k \in Int, NEW h \in Int, NEW e \in Int, NEW g \in Int, k + h + e + g = 0,
               Kept' = Kept + k, Holding' = Holding + h, Len(events') = Len(events) + e,
               SumFunction(gone') = SumFunction(gone) + g
        PROVE  ExitsAccounted'
    <3>1. exits' = exits + k + h + e + 0 + g
          /\ SumFunction(ingested') = SumFunction(ingested) + 0
      BY <1>1, <2>1, <2>2
    <3> QED  BY <2>2, <3>1, LedgerMoves
  <2>3. ASSUME NEW c \in Cpus, Read(c) PROVE ExitsAccounted'
    <3> DEFINE r == Head(ring[c])
    <3>1. r \in Records /\ Kept' + Weight[r] = Kept /\ Kept' \in Nat
      BY <1>2, <2>3, ReadTotals, ReadTakes, InRingTypesNext DEF Read
    <3>2. Len(events') = Len(events) + 0 /\ Holding = 0
      BY <1>1, <2>3 DEF Read, Holding
    <3>3. CASE IsEvent(r)
      <4>1. Weight[r] = 1 /\ Holding' = 1 /\ gone' = gone
        BY <2>3, <3>1, <3>3 DEF Read, Weight, Holding
      <4>2. /\ Kept' = Kept + (-1) /\ Holding' = Holding + 1
            /\ SumFunction(gone') = SumFunction(gone) + 0
        <5>1. SumFunction(gone') = SumFunction(gone) + 0
          BY <1>1, <4>1
        <5>2. Kept' + 1 = Kept /\ Kept' \in Nat
          BY <3>1, <4>1
        <5>3. Kept' = Kept + (-1)
          BY <5>2
        <5> QED  BY <3>2, <4>1, <5>1, <5>3
      <4> QED  BY <2>2, <3>2, <4>2
    <3>4. CASE ~IsEvent(r)
      <4>1. Weight[r] = r.lost /\ Gone("noted", r.lost) /\ Holding' = 0 /\ r.lost \in Nat
        BY <2>3, <3>1, <3>4 DEF Read, Weight, Holding, Records
      <4> DEFINE n == r.lost
      <4> HIDE DEF n, r
      <4>2. SumFunction(gone') = SumFunction(gone) + n /\ n \in Nat /\ Weight[r] = n
        BY <1>2, <4>1, GoneAdds DEF Reasons, n
      <4>3. Kept' = Kept + (-n) /\ (-n) + 0 + 0 + n = 0 /\ -n \in Int
        <5>1. Kept' + n = Kept /\ Kept' \in Nat
          BY <3>1, <4>2
        <5> QED  BY <4>2, <5>1
      <4>4. Holding' = Holding + 0
        BY <3>2, <4>1
      <4> QED  BY <2>2, <3>2, <4>2, <4>3, <4>4
    <3> QED  BY <3>3, <3>4
  <2>4. ASSUME NEW p \in Pids, Resolve(p) PROVE ExitsAccounted'
    <3>1. Holding = 1 /\ UNCHANGED <<ring, missed, events>>
      BY <2>4 DEF Resolve, Holding, kernelVars
    <3>2. Kept' = Kept + 0 /\ Len(events') = Len(events) + 0
      BY <1>1, <1>3, <3>1
    <3>3. CASE ContainerOf(p) = Host
      <4>1. Gone("host", 1) /\ Holding' = Holding + (-1)
        BY <2>4, <3>1, <3>3 DEF Resolve, Holding
      <4>2. SumFunction(gone') = SumFunction(gone) + 1
        BY <1>2, <4>1, GoneAdds DEF Reasons
      <4> QED  BY <2>2, <3>2, <4>1, <4>2
    <3>4. CASE ContainerOf(p) # Host
      <4>1. SumFunction(gone') = SumFunction(gone) + 0 /\ Holding' = Holding + 0
        BY <1>1, <2>4, <3>1, <3>4 DEF Resolve, Holding
      <4> QED  BY <2>2, <3>2, <4>1
    <3> QED  BY <3>3, <3>4
  <2>5. CASE Send
    <3>1. Holding = 1 /\ Holding' = 0 /\ UNCHANGED <<ring, missed, gone>>
      BY <2>5 DEF Send, Holding, kernelVars, exitHistory
    <3>2. Len(events') = Len(events) + 1
      BY <2>5 DEF Send, HandInv, TypeOK, ExitTypeOK
    <3>3. Kept' = Kept + 0 /\ Holding' = Holding + (-1)
          /\ SumFunction(gone') = SumFunction(gone) + 0
      BY <1>1, <1>3, <3>1
    <3> QED  BY <2>2, <3>2, <3>3
  <2>6. CASE Return
    <3>1. UNCHANGED <<ring, missed, events>> /\ Holding' = 0
      BY <2>6 DEF Return, Holding, kernelVars
    <3>2. Kept' = Kept + 0 /\ Len(events') = Len(events) + 0
      BY <1>1, <1>3, <3>1
    <3>3. CASE reader = "read"
      <4>1. Holding' = Holding + 0 /\ SumFunction(gone') = SumFunction(gone) + 0
        BY <1>1, <2>6, <3>1, <3>3 DEF Return, Holding
      <4> QED  BY <2>2, <3>2, <4>1
    <3>4. CASE reader # "read"
      <4>1. Holding' = Holding + (-1) /\ Gone("stopped", 1)
        BY <2>6, <3>1, <3>4 DEF Return, Holding
      <4>2. SumFunction(gone') = SumFunction(gone) + 1
        BY <1>2, <4>1, GoneAdds DEF Reasons
      <4> QED  BY <2>2, <3>2, <4>1, <4>2
    <3> QED  BY <3>3, <3>4
  <2> QED  BY <1>7, <2>3, <2>4, <2>5, <2>6 DEF Run
<1> QED  BY <1>4, <1>5, <1>6, <1>7 DEF ExitStep

-----------------------------------------------------------------------------
(* No exit is invented *)

\* The exits that c may still be credited with for pid p: those under way, and
\* one more while the leader is alive.
Charge(c, p) ==
  IF p \in DOMAIN proc /\ proc[p].cid = c
  THEN UnderWay(p) + (IF proc[p].leader = "alive" THEN 1 ELSE 0)
  ELSE 0

\* The credit of c covers what it was credited with and what it still may be.
ChargeInv ==
  \A c \in Cids :
    resolved[c] + SumFunction([p \in Pids |-> Charge(c, p)]) <= lives[c] + takenOver[c]

LEMMA UnderWayIs ==
  \A p : UnderWay(p) = RingEvents(p) + (IF reader = "resolve" /\ hand.pid = {p} THEN 1 ELSE 0)
BY DEF UnderWay, RingEvents

LEMMA ChargeTypes ==
  TypeOK => /\ \A p : UnderWay(p) \in Nat
            /\ \A c, p : Charge(c, p) \in Nat
            /\ \A c \in Cids : resolved[c] \in Nat /\ lives[c] \in Nat /\ takenOver[c] \in Nat
<1> SUFFICES ASSUME TypeOK
             PROVE  /\ \A p : UnderWay(p) \in Nat
                    /\ \A c, p : Charge(c, p) \in Nat
                    /\ \A c \in Cids :
                         resolved[c] \in Nat /\ lives[c] \in Nat /\ takenOver[c] \in Nat
  OBVIOUS
<1>1. ASSUME NEW p PROVE UnderWay(p) \in Nat
  <2>1. RingEvents(p) \in Nat
    BY InRingTypes DEF TypeOK, ExitTypeOK, RingType
  <2>2. UnderWay(p) = RingEvents(p) + (IF reader = "resolve" /\ hand.pid = {p} THEN 1 ELSE 0)
    BY UnderWayIs
  <2> QED  BY <2>1, <2>2
<1> QED  BY <1>1 DEF Charge, TypeOK, ExitTypeOK, Keys

LEMMA ChargeTypesNext ==
  TypeOK' => /\ \A p : UnderWay(p)' \in Nat
             /\ \A c, p : Charge(c, p)' \in Nat
             /\ \A c \in Cids : resolved'[c] \in Nat /\ lives'[c] \in Nat /\ takenOver'[c] \in Nat
<1>1. (TypeOK => /\ \A p : UnderWay(p) \in Nat
                 /\ \A c, p : Charge(c, p) \in Nat
                 /\ \A c \in Cids : resolved[c] \in Nat /\ lives[c] \in Nat /\ takenOver[c] \in Nat)'
  BY ChargeTypes, PTL
<1> QED  BY <1>1

LEMMA ChargeImplies == TypeOK /\ ChargeInv => ExitsNotInvented
<1> SUFFICES ASSUME TypeOK, ChargeInv, NEW c \in Cids
             PROVE  resolved[c] <= lives[c] + takenOver[c]
  BY DEF ExitsNotInvented
<1>1. SumFunction([p \in Pids |-> Charge(c, p)]) \in Nat
  <2>1. [p \in Pids |-> Charge(c, p)] \in [Pids -> Nat]
    BY ChargeTypes
  <2> QED  BY <2>1, FunSumIsNat, ProcExitAssumption
<1>2. resolved[c] \in Nat /\ lives[c] \in Nat /\ takenOver[c] \in Nat
  BY ChargeTypes
<1> QED  BY <1>1, <1>2 DEF ChargeInv

LEMMA ChargeInit == Init => ChargeInv
<1> SUFFICES ASSUME Init, NEW c \in Cids
             PROVE  resolved[c] + SumFunction([p \in Pids |-> Charge(c, p)])
                      <= lives[c] + takenOver[c]
  BY DEF ChargeInv
<1>1. \A p \in Pids : [q \in Pids |-> Charge(c, q)][p] = 0
  BY DEF Charge, Init, ExitInit, EmptyMap
<1>2. SumFunction([q \in Pids |-> Charge(c, q)]) = 0
  BY <1>1, FunSumOfZeros, ProcExitAssumption
<1>3. resolved[c] = 0 /\ lives[c] = 0 /\ takenOver[c] = 0
  BY DEF Init, ExitInit, ZeroOf, Keys
<1> QED  BY <1>2, <1>3

\* A step about one pid, after which the containers are charged for it no more
\* than they were, but for what their credit grew by.
LEMMA ChargeMoves ==
  ASSUME TypeOK, TypeOK', ChargeInv, NEW p \in Pids,
         \A c \in Cids, q \in Pids : q # p => Charge(c, q)' <= Charge(c, q),
         \A c \in Cids : \E d \in Int, l \in Int, t \in Int, r \in Int :
            /\ Charge(c, p)' <= Charge(c, p) + d /\ d + r <= l + t
            /\ lives'[c] = lives[c] + l /\ takenOver'[c] = takenOver[c] + t
            /\ resolved'[c] = resolved[c] + r
  PROVE  ChargeInv'
<1>1. ASSUME NEW c \in Cids
      PROVE  resolved'[c] + SumFunction([q \in Pids |-> Charge(c, q)'])
               <= lives'[c] + takenOver'[c]
  <2>1. PICK d \in Int, l \in Int, t \in Int, r \in Int :
            /\ Charge(c, p)' <= Charge(c, p) + d /\ d + r <= l + t
            /\ lives'[c] = lives[c] + l /\ takenOver'[c] = takenOver[c] + t
            /\ resolved'[c] = resolved[c] + r
    OBVIOUS
  <2> DEFINE f == [q \in Pids |-> Charge(c, q)]
             e == [q \in Pids |-> Charge(c, q)']
  <2>2. f \in [Pids -> Nat] /\ e \in [Pids -> Nat]
    BY ChargeTypes, ChargeTypesNext
  <2>3. (\A q \in Pids : q # p => e[q] <= f[q]) /\ e[p] <= f[p] + d
    BY <2>1
  <2>4. resolved[c] + SumFunction(f) <= lives[c] + takenOver[c]
    BY DEF ChargeInv
  <2>5. resolved[c] \in Nat /\ lives[c] \in Nat /\ takenOver[c] \in Nat
    BY ChargeTypes
  <2> HIDE DEF f, e
  <2>6. IsFiniteSet(Pids) /\ f \in [Pids -> Int] /\ e \in [Pids -> Int]
    BY <2>2, ProcExitAssumption
  <2>7. SumFunction(e) <= SumFunction(f) + d
    BY <2>3, <2>6, FunSumMoves
  <2>8. SumFunction(e) \in Int /\ SumFunction(f) \in Int
    BY <2>6, FunSumIsInt
  <2>9. resolved'[c] + SumFunction(e) <= lives'[c] + takenOver'[c]
    BY <2>1, <2>4, <2>5, <2>7, <2>8
  <2> QED  BY <2>9 DEF e
<1> QED  BY <1>1 DEF ChargeInv

LEMMA ChargeKernel ==
  ASSUME TypeOK, TypeOK', ChargeInv, Kernel
  PROVE  ChargeInv'
<1>1. PICK p \in Pids : \/ \E c \in Keys : Fork(p, c)
                        \/ \E c \in Cpus : LeaderExit(c, p)
                        \/ ExecAfterExit(p)
                        \/ Reap(p)
  BY DEF Kernel
<1>2. UNCHANGED <<reader, hand, resolved>>
  BY <1>1 DEF Fork, LeaderExit, ExecAfterExit, Reap, readerVars, exitHistory
<1>3. \A c \in Cids : resolved[c] \in Nat /\ lives[c] \in Nat /\ takenOver[c] \in Nat
  BY ChargeTypes
<1>4. \A q : UnderWay(q) \in Nat /\ UnderWay(q)' \in Nat
  BY ChargeTypes, ChargeTypesNext
<1>5. \A c, q : Charge(c, q) \in Nat /\ Charge(c, q)' \in Nat
  BY ChargeTypes, ChargeTypesNext
<1>6. ASSUME UNCHANGED ring PROVE \A q : UnderWay(q)' = UnderWay(q)
  BY <1>2, <1>6 DEF UnderWay, EventsIn
<1>7. ASSUME NEW k \in Keys, Fork(p, k) PROVE ChargeInv'
  <2>1. p \notin DOMAIN proc /\ proc' = Put(proc, p, [cid |-> k, leader |-> "alive"])
        /\ UNCHANGED ring
    BY <1>7 DEF Fork
  <2>2. \A c, q : q # p => Charge(c, q)' <= Charge(c, q)
    <3>1. \A q : q # p => (q \in DOMAIN proc <=> q \in DOMAIN proc') /\ (q \in DOMAIN proc => proc'[q] = proc[q])
      BY <2>1 DEF Put
    <3> QED  BY <1>4, <1>6, <2>1, <3>1 DEF Charge
  <2>3. ASSUME NEW c \in Cids
        PROVE  \E d \in Int, l \in Int, t \in Int, r \in Int :
                 /\ Charge(c, p)' <= Charge(c, p) + d /\ d + r <= l + t
                 /\ lives'[c] = lives[c] + l /\ takenOver'[c] = takenOver[c] + t
                 /\ resolved'[c] = resolved[c] + r
    <3> DEFINE u == IF c = k THEN UnderWay(p) ELSE 0
               l == IF c = k THEN 1 ELSE 0
    <3>1. Charge(c, p) = 0 /\ Charge(c, p)' = u + l
      <4>1. p \in DOMAIN proc' /\ proc'[p] = [cid |-> k, leader |-> "alive"]
        BY <2>1 DEF Put
      <4> QED  BY <1>4, <1>6, <2>1, <4>1 DEF Charge
    <3>2. lives'[c] = lives[c] + l
      <4>1. /\ lives' = [lives EXCEPT ![k] = @ + 1] /\ lives \in [Keys -> Nat] /\ c \in Keys
        BY <1>7 DEF Fork, Live, TypeOK, ExitTypeOK, Keys
      <4> QED  BY <4>1
    <3>3. takenOver'[c] = takenOver[c] + u
      BY <1>7 DEF Fork
    <3>4. u \in Int /\ l \in Int
      BY <1>4
    <3>5. resolved'[c] = resolved[c] + 0
      BY <1>2, <1>3
    <3> HIDE DEF u, l
    <3>6. Charge(c, p)' <= Charge(c, p) + (u + l) /\ (u + l) + 0 <= l + u /\ u + l \in Int
      BY <3>1, <3>4
    <3> QED  BY <3>2, <3>3, <3>4, <3>5, <3>6
  <2> QED  BY <2>2, <2>3, ChargeMoves
<1>8. ASSUME NEW k \in Cpus, LeaderExit(k, p) PROVE ChargeInv'
  <2>1. /\ p \in DOMAIN proc /\ proc[p].leader = "alive"
        /\ proc' = [proc EXCEPT ![p].leader = "exited"] /\ UNCHANGED <<lives, takenOver>>
    BY <1>8 DEF LeaderExit
  <2>2. \A q : UnderWay(q)' <= UnderWay(q) + (IF q = p THEN 1 ELSE 0)
    <3>1. CASE attached
      <4>1. \A q : RingEvents(q)' <= RingEvents(q) + (IF q = p THEN 1 ELSE 0)
        BY <1>8, <3>1, OutputTotals DEF LeaderExit, TypeOK, ExitTypeOK, RingType
      <4>2. \A q : RingEvents(q) \in Nat /\ RingEvents(q)' \in Nat
        BY InRingTypes, InRingTypesNext DEF TypeOK, ExitTypeOK, RingType
      <4> QED  BY <1>2, <4>1, <4>2 DEF UnderWay, RingEvents
    <3>2. CASE ~attached
      <4>1. UNCHANGED ring
        BY <1>8, <3>2 DEF LeaderExit
      <4> QED  BY <1>4, <1>6, <4>1
    <3> QED  BY <3>1, <3>2
  <2>3. \A c, q : q # p => Charge(c, q)' <= Charge(c, q)
    <3>1. \A q : q # p => (q \in DOMAIN proc <=> q \in DOMAIN proc') /\ (q \in DOMAIN proc => proc'[q] = proc[q])
      BY <2>1
    <3> QED  BY <1>4, <2>2, <3>1 DEF Charge
  <2>4. ASSUME NEW c \in Cids
        PROVE  \E d \in Int, l \in Int, t \in Int, r \in Int :
                 /\ Charge(c, p)' <= Charge(c, p) + d /\ d + r <= l + t
                 /\ lives'[c] = lives[c] + l /\ takenOver'[c] = takenOver[c] + t
                 /\ resolved'[c] = resolved[c] + r
    <3>1. Charge(c, p)' <= Charge(c, p)
      <4>1. p \in DOMAIN proc' /\ proc'[p].cid = proc[p].cid /\ proc'[p].leader = "exited"
        BY <2>1 DEF TypeOK, ExitTypeOK, IsMap
      <4>2. UnderWay(p)' <= UnderWay(p) + 1
        BY <2>2
      <4> QED  BY <1>4, <2>1, <4>1, <4>2 DEF Charge
    <3>2. /\ Charge(c, p)' <= Charge(c, p) + 0 /\ 0 + 0 <= 0 + 0
          /\ lives'[c] = lives[c] + 0 /\ takenOver'[c] = takenOver[c] + 0
          /\ resolved'[c] = resolved[c] + 0
      BY <1>2, <1>3, <1>5, <2>1, <3>1
    <3> QED  BY <3>2
  <2> QED  BY <2>3, <2>4, ChargeMoves
<1>9. CASE ExecAfterExit(p)
  <2>1. /\ p \in DOMAIN proc /\ proc[p].leader = "exited"
        /\ proc' = [proc EXCEPT ![p].leader = "alive"] /\ Live(proc[p].cid)
        /\ UNCHANGED <<ring, takenOver>>
    BY <1>9 DEF ExecAfterExit
  <2>2. \A c, q : q # p => Charge(c, q)' <= Charge(c, q)
    <3>1. \A q : q # p => (q \in DOMAIN proc <=> q \in DOMAIN proc') /\ (q \in DOMAIN proc => proc'[q] = proc[q])
      BY <2>1
    <3> QED  BY <1>4, <1>6, <2>1, <3>1 DEF Charge
  <2>3. ASSUME NEW c \in Cids
        PROVE  \E d \in Int, l \in Int, t \in Int, r \in Int :
                 /\ Charge(c, p)' <= Charge(c, p) + d /\ d + r <= l + t
                 /\ lives'[c] = lives[c] + l /\ takenOver'[c] = takenOver[c] + t
                 /\ resolved'[c] = resolved[c] + r
    <3> DEFINE l == IF c = proc[p].cid THEN 1 ELSE 0
    <3>1. Charge(c, p)' = Charge(c, p) + l
      <4>1. p \in DOMAIN proc' /\ proc'[p].cid = proc[p].cid /\ proc'[p].leader = "alive"
        BY <2>1 DEF TypeOK, ExitTypeOK, IsMap
      <4> QED  BY <1>4, <1>6, <2>1, <4>1 DEF Charge
    <3>2. lives'[c] = lives[c] + l
      <4> DEFINE k == proc[p].cid
      <4>1. /\ lives' = [lives EXCEPT ![k] = @ + 1] /\ lives \in [Keys -> Nat] /\ c \in Keys
        BY <2>1 DEF Live, TypeOK, ExitTypeOK, Keys
      <4> HIDE DEF k
      <4>2. lives'[c] = lives[c] + (IF c = k THEN 1 ELSE 0)
        BY <4>1
      <4> QED  BY <4>2 DEF k
    <3>3. resolved'[c] = resolved[c] + 0 /\ takenOver'[c] = takenOver[c] + 0 /\ l \in Int
      BY <1>2, <1>3, <2>1
    <3> HIDE DEF l
    <3>4. Charge(c, p)' <= Charge(c, p) + l /\ l + 0 <= l + 0
      BY <1>5, <3>1, <3>3
    <3> QED  BY <3>2, <3>3, <3>4
  <2> QED  BY <2>2, <2>3, ChargeMoves
<1>10. CASE Reap(p)
  <2>1. proc' = Drop(proc, {p}) /\ UNCHANGED <<ring, lives, takenOver>>
    BY <1>10 DEF Reap, exitHistory
  <2>2. \A c, q : q # p => Charge(c, q)' <= Charge(c, q)
    <3>1. \A q : q # p => (q \in DOMAIN proc <=> q \in DOMAIN proc') /\ (q \in DOMAIN proc => proc'[q] = proc[q])
      BY <2>1 DEF Drop
    <3> QED  BY <1>4, <1>6, <2>1, <3>1 DEF Charge
  <2>3. \A c \in Cids : Charge(c, p)' <= Charge(c, p)
    <3>1. p \notin DOMAIN proc'
      BY <2>1 DEF Drop
    <3>2. \A c : Charge(c, p)' = 0
      BY <3>1 DEF Charge
    <3> QED  BY <1>5, <3>2
  <2>4. ASSUME NEW c \in Cids
        PROVE  \E d \in Int, l \in Int, t \in Int, r \in Int :
                 /\ Charge(c, p)' <= Charge(c, p) + d /\ d + r <= l + t
                 /\ lives'[c] = lives[c] + l /\ takenOver'[c] = takenOver[c] + t
                 /\ resolved'[c] = resolved[c] + r
    <3>1. /\ Charge(c, p)' <= Charge(c, p) + 0 /\ 0 + 0 <= 0 + 0
          /\ lives'[c] = lives[c] + 0 /\ takenOver'[c] = takenOver[c] + 0
          /\ resolved'[c] = resolved[c] + 0
      BY <1>2, <1>3, <1>5, <2>1, <2>3
    <3> QED  BY <3>1
  <2> QED  BY <2>2, <2>4, ChargeMoves
<1> QED  BY <1>1, <1>7, <1>8, <1>9, <1>10

\* Where no pid changes hands and its events do not multiply, no charge grows.
LEMMA ChargeSettles ==
  ASSUME TypeOK, TypeOK', ChargeInv, UNCHANGED <<proc, lives, takenOver, resolved>>,
         \A q \in Pids : UnderWay(q)' <= UnderWay(q)
  PROVE  ChargeInv'
<1>1. \A c \in Cids, q \in Pids : Charge(c, q)' <= Charge(c, q)
  <2>1. \A q : UnderWay(q) \in Nat /\ UnderWay(q)' \in Nat
    BY ChargeTypes, ChargeTypesNext
  <2> QED  BY <2>1 DEF Charge
<1>2. ASSUME NEW c \in Cids
      PROVE  resolved'[c] + SumFunction([q \in Pids |-> Charge(c, q)'])
               <= lives'[c] + takenOver'[c]
  <2> DEFINE f == [q \in Pids |-> Charge(c, q)]
             e == [q \in Pids |-> Charge(c, q)']
  <2>1. f \in [Pids -> Int] /\ e \in [Pids -> Int] /\ \A q \in Pids : e[q] <= f[q]
    BY <1>1, ChargeTypes, ChargeTypesNext
  <2>2. resolved[c] + SumFunction(f) <= lives[c] + takenOver[c]
    BY DEF ChargeInv
  <2>3. resolved[c] \in Nat /\ lives[c] \in Nat /\ takenOver[c] \in Nat
    BY ChargeTypes
  <2> HIDE DEF f, e
  <2>4. SumFunction(e) <= SumFunction(f)
    BY <2>1, FunSumLeq, ProcExitAssumption
  <2>5. SumFunction(e) \in Int /\ SumFunction(f) \in Int
    BY <2>1, FunSumIsInt, ProcExitAssumption
  <2>6. resolved'[c] + SumFunction(e) <= lives'[c] + takenOver'[c]
    BY <2>2, <2>3, <2>4, <2>5
  <2> QED  BY <2>6 DEF e
<1> QED  BY <1>2 DEF ChargeInv

LEMMA ChargeRun ==
  ASSUME TypeOK, TypeOK', ChargeInv, Run
  PROVE  ChargeInv'
<1>1. UNCHANGED <<proc, lives, takenOver>>
  BY DEF Run, Read, Resolve, Send, Return, exitHistory, kernelVars
<1>2. RingType /\ RingType'
  BY DEF TypeOK, ExitTypeOK, RingType
<1>3. \A q : RingEvents(q) \in Nat /\ RingEvents(q)' \in Nat
  BY <1>2, InRingTypes, InRingTypesNext
<1>4. ASSUME NEW c \in Cpus, Read(c) PROVE ChargeInv'
  <2> DEFINE r == Head(ring[c])
  <2>1. /\ r \in Records
        /\ \A q : RingEvents(q)' + Of(q)[r] = RingEvents(q)
    BY <1>2, <1>4, ReadTakes, ReadTotals DEF Read
  <2>2. \A q : Of(q)[r] = IF r.pid = {q} THEN 1 ELSE 0
    BY <2>1 DEF Of
  <2>3. ASSUME NEW q PROVE UnderWay(q)' <= UnderWay(q)
    <3> DEFINE n == RingEvents(q)
               m == RingEvents(q)'
    <3>1. n \in Nat /\ m \in Nat
      BY <1>3
    <3>2. /\ UnderWay(q) = n + (IF reader = "resolve" /\ hand.pid = {q} THEN 1 ELSE 0)
          /\ UnderWay(q)' = m + (IF reader' = "resolve" /\ hand'.pid = {q} THEN 1 ELSE 0)
      BY DEF UnderWay, RingEvents
    <3> HIDE DEF n, m, r
    <3>3. UnderWay(q) = n
      BY <1>4, <3>1, <3>2 DEF Read
    <3>4. UnderWay(q)' <= m + (IF r.pid = {q} THEN 1 ELSE 0)
      <4>1. CASE IsEvent(r)
        <5>1. reader' = "resolve" /\ hand'.pid = r.pid
          BY <1>4, <4>1 DEF Read, r
        <5> QED  BY <3>1, <3>2, <5>1
      <4>2. CASE ~IsEvent(r)
        <5>1. reader' = "read"
          BY <1>4, <4>2 DEF Read, r
        <5> QED  BY <3>1, <3>2, <5>1
      <4> QED  BY <4>1, <4>2
    <3>5. m + (IF r.pid = {q} THEN 1 ELSE 0) = n
      BY <2>1, <2>2 DEF n, m
    <3> QED  BY <3>1, <3>3, <3>4, <3>5
  <2>4. UNCHANGED resolved
    BY <1>4 DEF Read
  <2> QED  BY <1>1, <2>3, <2>4, ChargeSettles
<1>5. ASSUME NEW p \in Pids, Resolve(p) PROVE ChargeInv'
  <2>1. \A q : UnderWay(q) = UnderWay(q)' + (IF q = p THEN 1 ELSE 0)
    <3>1. reader = "resolve" /\ hand.pid = {p} /\ reader' # "resolve" /\ UNCHANGED ring
      BY <1>5 DEF Resolve, kernelVars
    <3>2. \A q : RingEvents(q)' = RingEvents(q)
      BY <3>1 DEF RingEvents, EventsIn
    <3>3. \A q : hand.pid = {q} <=> q = p
      BY <3>1
    <3> QED  BY <1>3, <3>1, <3>2, <3>3 DEF UnderWay, RingEvents
  <2>2. \A q : UnderWay(q) \in Nat /\ UnderWay(q)' \in Nat
    BY ChargeTypes, ChargeTypesNext
  <2>3. CASE ContainerOf(p) = Host
    <3>1. UNCHANGED resolved
      BY <1>5, <2>3 DEF Resolve
    <3> QED  BY <1>1, <2>1, <2>2, <3>1, ChargeSettles
  <2>4. CASE ContainerOf(p) # Host
    <3>1. p \in DOMAIN proc /\ resolved' = [resolved EXCEPT ![proc[p].cid] = @ + 1]
      BY <1>5, <2>4 DEF Resolve, ContainerOf
    <3>2. \A c \in Cids, q \in Pids : q # p => Charge(c, q)' <= Charge(c, q)
      BY <1>1, <2>1, <2>2 DEF Charge
    <3>3. ASSUME NEW c \in Cids
          PROVE  \E d \in Int, l \in Int, t \in Int, r \in Int :
                   /\ Charge(c, p)' <= Charge(c, p) + d /\ d + r <= l + t
                   /\ lives'[c] = lives[c] + l /\ takenOver'[c] = takenOver[c] + t
                   /\ resolved'[c] = resolved[c] + r
      <4>1. CASE proc[p].cid = c
        <5>1. Charge(c, p)' <= Charge(c, p) + (-1)
          BY <1>1, <2>1, <2>2, <3>1, <4>1 DEF Charge
        <5>2. resolved'[c] = resolved[c] + 1
          BY <3>1, <4>1 DEF TypeOK, ExitTypeOK
        <5>3. lives'[c] = lives[c] + 0 /\ takenOver'[c] = takenOver[c] + 0 /\ (-1) + 1 <= 0 + 0
          BY <1>1, ChargeTypes
        <5> QED  BY <5>1, <5>2, <5>3
      <4>2. CASE proc[p].cid # c
        <5>1. Charge(c, p)' <= Charge(c, p) + 0
          BY <1>1, <4>2 DEF Charge
        <5>2. resolved'[c] = resolved[c] + 0
          BY <3>1, <4>2 DEF TypeOK, ExitTypeOK
        <5>3. lives'[c] = lives[c] + 0 /\ takenOver'[c] = takenOver[c] + 0 /\ 0 + 0 <= 0 + 0
          BY <1>1, ChargeTypes
        <5> QED  BY <5>1, <5>2, <5>3
      <4> QED  BY <4>1, <4>2
    <3> QED  BY <3>2, <3>3, ChargeMoves
  <2> QED  BY <2>3, <2>4
<1>6. CASE Send \/ Return
  <2>1. reader # "resolve" /\ reader' # "resolve" /\ UNCHANGED <<ring, resolved>>
    BY <1>6 DEF Send, Return, kernelVars, exitHistory
  <2>2. \A q : UnderWay(q)' = UnderWay(q)
    BY <2>1 DEF UnderWay, EventsIn
  <2>3. \A q \in Pids : UnderWay(q)' <= UnderWay(q)
    BY <2>2, ChargeTypes
  <2> QED  BY <1>1, <2>1, <2>3, ChargeSettles
<1> QED  BY <1>4, <1>5, <1>6 DEF Run

LEMMA ChargeStep == TypeOK /\ TypeOK' /\ ChargeInv /\ [Next]_vars => ChargeInv'
<1> SUFFICES ASSUME TypeOK, TypeOK', ChargeInv, [Next]_vars PROVE ChargeInv'
  OBVIOUS
<1>1. CASE ExitStep
  BY <1>1, ChargeKernel, ChargeRun DEF ExitStep
<1>2. CASE ~ExitStep
  <2>1. UNCHANGED <<proc, ring, reader, hand, lives, takenOver, resolved>>
    <3>1. CASE TakeExit
      BY <3>1 DEF TakeExit, kernelVars, exitHistory
    <3> QED  BY <1>2, <3>1, OthersLeaveExits
  <2>2. \A q : UnderWay(q)' = UnderWay(q)
    BY <2>1 DEF UnderWay, EventsIn
  <2>3. \A q \in Pids : UnderWay(q)' <= UnderWay(q)
    BY <2>2, ChargeTypes
  <2> QED  BY <2>1, <2>3, ChargeSettles
<1> QED  BY <1>1, <1>2

-----------------------------------------------------------------------------
(* The theorems; they share one inductive invariant. *)

ShutdownInv == CloseInv /\ TypeOK /\ HandInv /\ ExitsAccounted /\ ChargeInv

LEMMA ShutdownInvariant == Spec => []ShutdownInv
<1>1. Init => ShutdownInv
  BY CloseInit, TypeInit, LedgerInit, ChargeInit DEF ShutdownInv
<1>2. ShutdownInv /\ [Next]_vars => ShutdownInv'
  <2> SUFFICES ASSUME ShutdownInv, [Next]_vars PROVE ShutdownInv'
    OBVIOUS
  <2>1. CloseInv'
    BY CloseStep DEF ShutdownInv
  <2>2. TypeOK' /\ HandInv'
    BY TypeStep DEF ShutdownInv
  <2>3. ExitsAccounted'
    BY LedgerStep DEF ShutdownInv
  <2>4. ChargeInv'
    BY <2>2, ChargeStep DEF ShutdownInv
  <2> QED  BY <2>1, <2>2, <2>3, <2>4 DEF ShutdownInv
<1> QED  BY <1>1, <1>2, PTL DEF Spec

\* The rings, the channels and the deferred calls stay in their bounds.
THEOREM TypeCorrect == Spec => []TypeOK
<1>1. ShutdownInv => TypeOK
  BY DEF ShutdownInv
<1> QED  BY <1>1, ShutdownInvariant, PTL

\* Every exit that the program emitted is in a ring, told of or to be told of by
\* a note, in run's hands, in the channel, ingested, or dropped for one of three
\* reasons: whatever the sizes, and however late the agent is stopped.
THEOREM EveryExitHasAPlace == Spec => []ExitsAccounted
<1>1. ShutdownInv => ExitsAccounted
  BY DEF ShutdownInv
<1> QED  BY <1>1, ShutdownInvariant, PTL

\* A container is credited with an exit per life of its processes at most, and
\* with those it took over with a pid whose events were under way.
THEOREM NoExitIsInvented == Spec => []ExitsNotInvented
<1>1. ShutdownInv => ExitsNotInvented
  BY ChargeImplies DEF ShutdownInv
<1> QED  BY <1>1, ShutdownInvariant, PTL
=============================================================================
