--------------------------- MODULE AggregatorProofs ---------------------------
(* Every row a collector reports is counted in exactly one window, and every   *)
(* window of a container follows the one before it and reaches the file, for   *)
(* any number of containers, any features and any channel capacity.            *)
EXTENDS Aggregator, LedgerLemmas

CountType ==
  /\ IsMap(acc, Keys, Accumulators)
  /\ ingested \in [Keys -> Counts]
  /\ finalized \in [Keys -> Counts]

CountInv == CountType /\ CountedOnce

LEMMA CountTypes == ZeroCounts \in Counts /\ \A a, b \in Counts : Plus(a, b) \in Counts
BY DEF ZeroCounts, Counts, Plus

LEMMA OneType == \A m \in Metrics : One(m) \in Counts
BY DEF One, ZeroCounts, Counts

LEMMA CountInit == Init => CountInv
<1> SUFFICES ASSUME Init PROVE CountInv
  OBVIOUS
<1>1. CountType
  BY CountTypes DEF Init, CountType, IsMap, EmptyMap
<1>2. CountedOnce
  BY DEF Init, CountedOnce, InAcc, EmptyMap, ZeroCounts
<1> QED  BY <1>1, <1>2 DEF CountInv

LEMMA AccForType ==
  ASSUME CountType, NEW c \in Keys
  PROVE  At(acc, c, NewAccumulator) \in Accumulators
BY CountTypes DEF CountType, IsMap, At, NewAccumulator, Accumulators, Names

LEMMA CountIngest ==
  ASSUME CountInv, NEW c \in Keys, NEW m \in Metrics, Ingest(c, m)
  PROVE  CountInv'
<1> DEFINE ac  == At(acc, c, NewAccumulator)
           new == [ac EXCEPT !.counts = Plus(@, One(m))]
<1> USE DEF CountInv, CountType
<1>1. ac \in Accumulators
  BY AccForType
<1>2. /\ new \in Accumulators
      /\ new.counts = Plus(ac.counts, One(m))
  BY <1>1, CountTypes, OneType DEF Accumulators
<1>3. acc' = Put(acc, c, new) /\ finalized' = finalized
      /\ ingested' = [ingested EXCEPT ![c] = Plus(@, One(m))]
  BY DEF Ingest
<1>4. CountType'
  BY <1>2, <1>3, CountTypes, OneType DEF IsMap, Put
<1>5. ASSUME NEW d \in Keys, NEW n \in Metrics
      PROVE  ingested'[d][n] = InAcc(d, n)' + finalized'[d][n]
  <2>1. ingested[d][n] = InAcc(d, n) + finalized[d][n]
    BY DEF CountedOnce
  <2>2. CASE d # c
    BY <1>3, <2>1, <2>2 DEF InAcc, Put
  <2>3. CASE d = c
    <3>1. InAcc(c, n) = ac.counts[n]
      BY DEF InAcc, At, NewAccumulator, ZeroCounts
    <3>2. InAcc(c, n)' = ac.counts[n] + One(m)[n]
      BY <1>2, <1>3 DEF InAcc, Put, Plus
    <3>3. ingested'[c][n] = ingested[c][n] + One(m)[n]
      BY <1>3 DEF Plus
    <3>4. ac.counts[n] \in Nat /\ One(m)[n] \in Nat /\ finalized[c][n] \in Nat
      BY <1>1, OneType DEF Accumulators, Counts
    <3> QED  BY <1>3, <2>1, <2>3, <3>1, <3>2, <3>3, <3>4
  <2> QED  BY <2>2, <2>3
<1> QED  BY <1>4, <1>5 DEF CountedOnce

LEMMA CountFinalize ==
  ASSUME CountInv, Finalize
  PROVE  CountInv'
<1> USE DEF CountInv, CountType
<1>1. /\ acc' = [c \in DOMAIN acc |-> ResetTo(c)]
      /\ finalized' = [c \in Keys |-> IF c \in DOMAIN acc
                                      THEN Plus(finalized[c], acc[c].counts)
                                      ELSE finalized[c]]
      /\ ingested' = ingested
  BY DEF Finalize
<1>2. \A c \in DOMAIN acc : c \in Keys /\ acc[c].counts \in Counts /\ acc[c].name \in Names
  BY DEF IsMap, Accumulators
<1>3. \A c \in DOMAIN acc : ResetTo(c) \in Accumulators
  BY <1>2, CountTypes DEF ResetTo, NameOf, ResolveName, Names, Accumulators
<1>4. CountType'
  BY <1>1, <1>2, <1>3, CountTypes DEF IsMap
<1>5. ASSUME NEW c \in Keys, NEW m \in Metrics
      PROVE  ingested'[c][m] = InAcc(c, m)' + finalized'[c][m]
  <2>1. ingested[c][m] = InAcc(c, m) + finalized[c][m]
    BY DEF CountedOnce
  <2>2. finalized[c][m] \in Nat
    BY DEF Counts
  <2>3. CASE c \in DOMAIN acc
    <3>1. InAcc(c, m)' = 0
      BY <1>1, <2>3 DEF InAcc, ResetTo, ZeroCounts
    <3>2. finalized'[c][m] = finalized[c][m] + acc[c].counts[m]
      BY <1>1, <2>3 DEF Plus
    <3>3. acc[c].counts[m] \in Nat /\ InAcc(c, m) = acc[c].counts[m]
      BY <1>2, <2>3 DEF Counts, InAcc
    <3> QED  BY <1>1, <2>1, <2>2, <3>1, <3>2, <3>3
  <2>4. CASE c \notin DOMAIN acc
    BY <1>1, <2>1, <2>4 DEF InAcc
  <2> QED  BY <2>3, <2>4
<1> QED  BY <1>4, <1>5 DEF CountedOnce

LEMMA CountNamed ==
  ASSUME CountInv, NEW c \in Cids, IngestCgroup(c)
  PROVE  CountInv'
<1> DEFINE ac  == At(acc, c, NewAccumulator)
           new == [ac EXCEPT !.name = "docker"]
<1> USE DEF CountInv, CountType
<1>1. c \in Keys /\ ac \in Accumulators
  BY AccForType DEF Keys
<1>2. new \in Accumulators /\ new.counts = ac.counts
  BY <1>1 DEF Accumulators, Names
<1>3. acc' = Put(acc, c, new) /\ UNCHANGED <<ingested, finalized>>
  BY DEF IngestCgroup
<1>4. CountType'
  BY <1>1, <1>2, <1>3 DEF IsMap, Put
<1>5. ASSUME NEW d \in Keys, NEW n \in Metrics
      PROVE  InAcc(d, n)' = InAcc(d, n)
  BY <1>2, <1>3 DEF InAcc, Put, At, NewAccumulator, ZeroCounts
<1> QED  BY <1>3, <1>4, <1>5 DEF CountedOnce

LEMMA CountStep == CountInv /\ [Next]_vars => CountInv'
<1> SUFFICES ASSUME CountInv, [Next]_vars PROVE CountInv'
  OBVIOUS
<1>1. ASSUME UNCHANGED <<acc, ingested, finalized>> PROVE CountInv'
  BY <1>1 DEF CountInv, CountType, CountedOnce, InAcc
<1>2. ASSUME NEW c \in Keys, NEW m \in Metrics, Ingest(c, m) PROVE CountInv'
  BY <1>2, CountIngest
<1>3. ASSUME NEW c \in Cids, IngestCgroup(c) PROVE CountInv'
  BY <1>3, CountNamed
<1>4. CASE RunStep
  BY <1>1, <1>4, CountFinalize DEF RunStep, Send, RunReturns
<1>5. CASE Advance \/ Write \/ Stop \/ Refresh \/ Ended \/ UNCHANGED vars
  BY <1>1, <1>5 DEF Advance, Write, Stop, Refresh, Ended, vars
<1> QED  BY <1>2, <1>3, <1>4, <1>5 DEF Next

\* Whatever a collector reported for a container is in its accumulator or was
\* put into exactly one of its vectors.
THEOREM EachRowInOneWindow == Spec => []CountedOnce
<1>1. CountInv => CountedOnce
  BY DEF CountInv
<1> QED  BY <1>1, CountInit, CountStep, PTL DEF Spec

-----------------------------------------------------------------------------
(* Type correctness *)

LEMMA Queues ==
  ASSUME out \in Seq(Vectors)
  PROVE  /\ Len(out) \in Nat /\ DOMAIN out = 1 .. Len(out)
         /\ \A i \in 1 .. Len(out) : out[i] \in Vectors
         /\ out # <<>> => /\ Head(out) = out[1] /\ Len(out) >= 1
                          /\ Tail(out) \in Seq(Vectors)
                          /\ Len(Tail(out)) = Len(out) - 1
                          /\ DOMAIN Tail(out) = 1 .. Len(out) - 1
                          /\ \A i \in 1 .. Len(out) - 1 : Tail(out)[i] = out[i + 1]
         /\ \A v \in Vectors :
              /\ Append(out, v) \in Seq(Vectors)
              /\ Len(Append(out, v)) = Len(out) + 1
              /\ DOMAIN Append(out, v) = 1 .. Len(out) + 1
              /\ \A i \in 1 .. Len(out) : Append(out, v)[i] = out[i]
              /\ Append(out, v)[Len(out) + 1] = v
<1>1. /\ Len(out) \in Nat /\ DOMAIN out = 1 .. Len(out)
      /\ \A i \in 1 .. Len(out) : out[i] \in Vectors
  OBVIOUS
<1>2. ASSUME out # <<>>
      PROVE  /\ Head(out) = out[1] /\ Len(out) >= 1
             /\ Tail(out) \in Seq(Vectors)
             /\ Len(Tail(out)) = Len(out) - 1
             /\ DOMAIN Tail(out) = 1 .. Len(out) - 1
             /\ \A i \in 1 .. Len(out) - 1 : Tail(out)[i] = out[i + 1]
  BY <1>2
<1>3. ASSUME NEW v \in Vectors
      PROVE  /\ Append(out, v) \in Seq(Vectors)
             /\ Len(Append(out, v)) = Len(out) + 1
             /\ DOMAIN Append(out, v) = 1 .. Len(out) + 1
             /\ \A i \in 1 .. Len(out) : Append(out, v)[i] = out[i]
             /\ Append(out, v)[Len(out) + 1] = v
  OBVIOUS
<1> QED  BY <1>1, <1>2, <1>3

LEMMA TypeInit == Init => TypeOK
<1> SUFFICES ASSUME Init PROVE TypeOK
  OBVIOUS
<1>1. CountType
  BY CountInit DEF CountInv
<1>2. /\ clock \in 0 .. MaxTicks /\ tick \in 0 .. MaxTicks
      /\ windowStart = NoTime
      /\ lastEnd \in [Keys -> 0 .. MaxTicks] /\ lastName \in [Keys -> Names]
      /\ since \in [Keys -> 0 .. MaxTicks]
  BY AggregatorAssumption DEF Init, Names
<1>3. out \in Seq(Vectors) /\ Len(out) <= BufferSize /\ pending \subseteq Vectors
  BY AggregatorAssumption DEF Init
<1>4. written \in [Keys -> Counts]
  BY CountTypes DEF Init
<1> QED  BY <1>1, <1>2, <1>3, <1>4 DEF Init, TypeOK, CountType

\* A vector of the window that ends with the tick.
LEMMA FinishedType ==
  ASSUME TypeOK, tick # 0, NEW c \in DOMAIN acc
  PROVE  /\ Finished(c, tick) \in Vectors /\ ResetTo(c) \in Accumulators
         /\ Finished(c, tick).cid = c /\ Finished(c, tick).end = tick
         /\ Finished(c, tick).start = WindowStart(tick)
         /\ Finished(c, tick).name = NameOf(c)
<1>1. c \in Keys /\ acc[c].counts \in Counts /\ acc[c].name \in Names
  BY DEF TypeOK, IsMap, Accumulators
<1>2. tick \in 1 .. MaxTicks /\ WindowStart(tick) \in 0 .. MaxTicks
  BY AggregatorAssumption DEF TypeOK, WindowStart
<1>3. NameOf(c) \in Names
  BY <1>1 DEF NameOf, ResolveName, Names
<1> QED
  BY <1>1, <1>2, <1>3, CountTypes DEF Finished, ResetTo, Vectors, Accumulators

LEMMA TypeStep == TypeOK /\ [Next]_vars => TypeOK'
<1> SUFFICES ASSUME TypeOK, [Next]_vars PROVE TypeOK'
  OBVIOUS
<1> USE DEF TypeOK
<1>0. MaxTicks \in Nat /\ CountType
  BY AggregatorAssumption DEF CountType
<1>1. CASE Advance
  BY <1>0, <1>1 DEF Advance
<1>2. ASSUME NEW c \in Keys, NEW m \in Metrics, Ingest(c, m) PROVE TypeOK'
  <2> DEFINE ac  == At(acc, c, NewAccumulator)
             new == [ac EXCEPT !.counts = Plus(@, One(m))]
  <2>1. new \in Accumulators
    BY <1>0, AccForType, CountTypes, OneType DEF Accumulators
  <2>2. acc' = Put(acc, c, new) /\ ingested' = [ingested EXCEPT ![c] = Plus(@, One(m))]
    BY <1>2 DEF Ingest
  <2>3. IsMap(acc', Keys, Accumulators) /\ ingested' \in [Keys -> Counts]
    BY <2>1, <2>2, CountTypes, OneType DEF IsMap, Put
  <2> QED  BY <1>2, <2>3 DEF Ingest
<1>3. CASE Write
  <2>1. /\ Head(out) \in Vectors /\ Tail(out) \in Seq(Vectors)
        /\ Len(Tail(out)) <= BufferSize
    BY <1>3, Queues, AggregatorAssumption DEF Write
  <2>2. /\ Head(out).cid \in Keys /\ Head(out).end \in 0 .. MaxTicks
        /\ Head(out).counts \in Counts /\ Head(out).name \in Names
    BY <1>0, <2>1 DEF Vectors
  <2> QED  BY <1>3, <2>1, <2>2, CountTypes DEF Write
<1>4. CASE Stop \/ Refresh \/ RunReturns \/ Ended \/ UNCHANGED vars
  BY <1>4 DEF Stop, Refresh, RunReturns, Ended, vars
<1>5. ASSUME NEW c \in Cids, IngestCgroup(c) PROVE TypeOK'
  <2> DEFINE ac  == At(acc, c, NewAccumulator)
             new == [ac EXCEPT !.name = "docker"]
  <2>1. c \in Keys /\ new \in Accumulators
    BY <1>0, AccForType DEF Accumulators, Names, Keys
  <2>2. acc' = Put(acc, c, new)
    BY <1>5 DEF IngestCgroup
  <2>3. IsMap(acc', Keys, Accumulators)
    BY <2>1, <2>2 DEF IsMap, Put
  <2> QED  BY <1>5, <2>3 DEF IngestCgroup
<1>6. CASE Finalize
  <2>1. tick \in 1 .. MaxTicks
    BY <1>6 DEF Finalize
  <2>2. pending' \subseteq Vectors /\ IsMap(acc', Keys, Accumulators)
    BY <1>6, FinishedType DEF Finalize, IsMap
  <2>3. \A c \in DOMAIN acc : acc[c].counts \in Counts
    BY DEF IsMap, Accumulators
  <2>4. finalized' \in [Keys -> Counts]
    BY <1>6, <2>3, CountTypes DEF Finalize
  <2>5. /\ windowStart' \in 1 .. MaxTicks /\ tick' \in 0 .. MaxTicks
        /\ UNCHANGED <<known, clock, out, stopped, running, ingested, written, since,
                       lastEnd, lastName>>
    BY <1>0, <1>6, <2>1 DEF Finalize
  <2> QED  BY <2>2, <2>4, <2>5
<1>7. ASSUME NEW v \in pending, Send(v) PROVE TypeOK'
  <2>1. Append(out, v) \in Seq(Vectors) /\ Len(Append(out, v)) <= BufferSize
    BY <1>7, Queues, AggregatorAssumption DEF Send, HasCapacity
  <2> QED  BY <1>7, <2>1 DEF Send
<1> QED  BY <1>1, <1>2, <1>3, <1>4, <1>5, <1>6, <1>7 DEF Next, RunStep

\* The accumulators, the channel and the vectors in it keep their types.
THEOREM TypeCorrect == Spec => []TypeOK
BY TypeInit, TypeStep, PTL DEF Spec

-----------------------------------------------------------------------------
(* No row is postponed.  The open window began when Run started or where the   *)
(* last one ended, so never after a row that is still in an accumulator.       *)

\* The first tick is at 1 and stays in the channel until Run takes it.
FirstWindow ==
  windowStart = NoTime => \/ tick = 0 /\ clock = 0
                          \/ tick = 1

OpenWindow ==
  windowStart = NoTime \/ windowStart <= clock

RowsInside ==
  \A c \in DOMAIN acc :
    acc[c].counts # ZeroCounts => windowStart = NoTime \/ windowStart <= since[c]

TimeInv == TypeOK /\ tick <= clock /\ FirstWindow /\ OpenWindow /\ RowsInside

LEMMA TimeInit == Init => TimeInv
BY TypeInit DEF Init, TimeInv, FirstWindow, OpenWindow, RowsInside, EmptyMap

LEMMA TimeStep == TimeInv /\ [Next]_vars => TimeInv'
<1> SUFFICES ASSUME TimeInv, [Next]_vars PROVE TimeInv'
  OBVIOUS
<1> USE DEF TimeInv
<1>0. /\ TypeOK' /\ clock \in Nat /\ tick \in Nat /\ MaxTicks \in Nat
      /\ windowStart \in (1 .. MaxTicks) \cup {NoTime}
      /\ since \in [Keys -> 0 .. MaxTicks] /\ DOMAIN acc \subseteq Keys
  BY TypeStep, AggregatorAssumption DEF TypeOK, IsMap
<1>1. CASE Advance
  BY <1>0, <1>1 DEF Advance, FirstWindow, OpenWindow, RowsInside
<1>2. ASSUME NEW c \in Keys, NEW m \in Metrics, Ingest(c, m) PROVE TimeInv'
  <2> DEFINE ac  == At(acc, c, NewAccumulator)
             new == [ac EXCEPT !.counts = Plus(@, One(m))]
  <2>1. /\ acc' = Put(acc, c, new) /\ UNCHANGED <<clock, tick, windowStart>>
        /\ since' = [since EXCEPT ![c] = IF ac.counts = ZeroCounts THEN clock ELSE @]
    BY <1>2 DEF Ingest
  <2>2. ac.counts # ZeroCounts => c \in DOMAIN acc /\ ac = acc[c]
    BY DEF At, NewAccumulator
  <2>3. windowStart = NoTime \/ windowStart <= since'[c]
    <3>1. CASE ac.counts = ZeroCounts
      BY <1>0, <2>1, <3>1 DEF OpenWindow
    <3>2. CASE ac.counts # ZeroCounts
      BY <1>0, <2>1, <2>2, <3>2 DEF RowsInside
    <3> QED  BY <3>1, <3>2
  <2>4. \A d \in DOMAIN acc' \ {c} : d \in DOMAIN acc /\ acc'[d] = acc[d] /\ since'[d] = since[d]
    BY <1>0, <2>1 DEF Put
  <2>5. RowsInside'
    BY <2>1, <2>3, <2>4 DEF RowsInside
  <2> QED  BY <1>0, <2>1, <2>5 DEF FirstWindow, OpenWindow
<1>3. ASSUME NEW c \in Cids, IngestCgroup(c) PROVE TimeInv'
  <2> DEFINE ac  == At(acc, c, NewAccumulator)
             new == [ac EXCEPT !.name = "docker"]
  <2>1. acc' = Put(acc, c, new) /\ UNCHANGED <<clock, tick, windowStart, since>>
    BY <1>3 DEF IngestCgroup
  <2>2. ac \in Accumulators
    BY AccForType DEF Keys, CountType, TypeOK
  <2>3. new.counts = ac.counts
    BY <2>2 DEF Accumulators
  <2>4. ac.counts # ZeroCounts => c \in DOMAIN acc /\ ac = acc[c]
    BY DEF At, NewAccumulator
  <2>5. RowsInside'
    BY <2>1, <2>3, <2>4 DEF RowsInside, Put
  <2> QED  BY <1>0, <2>1, <2>5 DEF FirstWindow, OpenWindow
<1>4. CASE Write \/ Stop \/ Refresh \/ RunReturns \/ Ended \/ UNCHANGED vars
  BY <1>0, <1>4 DEF Write, Stop, Refresh, RunReturns, Ended, vars, FirstWindow, OpenWindow,
     RowsInside
<1>5. CASE Finalize
  <2>1. /\ acc' = [c \in DOMAIN acc |-> ResetTo(c)] /\ windowStart' = tick /\ tick' = 0
        /\ tick # 0 /\ UNCHANGED clock
    BY <1>5 DEF Finalize
  <2>2. RowsInside'
    BY <2>1 DEF RowsInside, ResetTo
  <2>3. windowStart' # NoTime
    BY <1>0, <2>1 DEF NoTime, TypeOK
  <2> QED  BY <1>0, <2>1, <2>2, <2>3 DEF FirstWindow, OpenWindow, NoTime
<1>6. ASSUME NEW v \in pending, Send(v) PROVE TimeInv'
  BY <1>0, <1>6 DEF Send, FirstWindow, OpenWindow, RowsInside
<1> QED  BY <1>1, <1>2, <1>3, <1>4, <1>5, <1>6 DEF Next, RunStep

\* No row is reported in a window that began after it was ingested, however late
\* Run takes a tick and whichever ticks the ticker drops.
THEOREM RowsInTime == Spec => RowsNotPostponed
<1>1. ASSUME TimeInv, [Next]_vars
      PROVE  [\A v \in pending' \ pending :
                v.counts # ZeroCounts => v.start <= since[v.cid]]_vars
  <2>1. CASE Finalize
    <3>1. ASSUME NEW c \in DOMAIN acc, acc[c].counts # ZeroCounts
          PROVE  WindowStart(tick) <= since[c]
      <4>1. /\ since[c] \in Nat /\ tick # 0 /\ NoTime \in Nat
            /\ windowStart = NoTime => tick = 1
        BY <1>1, <2>1, AggregatorAssumption DEF TimeInv, TypeOK, IsMap, FirstWindow, Finalize,
           NoTime
      <4> QED  BY <1>1, <3>1, <4>1 DEF TimeInv, RowsInside, WindowStart
    <3>2. pending' = {Finished(c, tick) : c \in DOMAIN acc}
      BY <2>1 DEF Finalize
    <3> QED  BY <3>1, <3>2 DEF Finished
  <2>2. CASE pending' \subseteq pending
    BY <2>2
  <2> QED
    BY <1>1, <2>1, <2>2 DEF Next, RunStep, Advance, Ingest, Write, Stop, Refresh,
       IngestCgroup, Send, RunReturns, Ended, vars
<1> QED  BY <1>1, TimeInit, TimeStep, PTL DEF Spec, RowsNotPostponed

-----------------------------------------------------------------------------
(* Contiguous windows.  A row is written long after the tick it belongs to, so *)
(* what counts is every place where a container's vectors wait: the channel, in*)
(* the order of sending, then pending, then the open window.                   *)

\* The vector at i is the oldest of its container in the channel, or the latest.
First(i) == \A k \in DOMAIN out : k < i => out[k].cid # out[i].cid
Last(i) == \A k \in DOMAIN out : k > i => out[k].cid # out[i].cid

\* The vector at j is the next one of its container after that at i.
Follows(i, j) ==
  /\ i < j /\ out[i].cid = out[j].cid
  /\ \A k \in DOMAIN out : i < k /\ k < j => out[k].cid # out[i].cid

Alone(c) == \A i \in DOMAIN out : out[i].cid # c

\* A row of c that starts at t fits what has been written and sent.
Fits(c, t) ==
  /\ \A i \in DOMAIN out : out[i].cid = c /\ Last(i) => out[i].end = t
  /\ Alone(c) => lastEnd[c] \in {0, t}

ChannelTiles ==
  /\ \A i, j \in DOMAIN out : Follows(i, j) => out[j].start = out[i].end
  /\ \A i \in DOMAIN out : First(i) => lastEnd[out[i].cid] \in {0, out[i].start}

PendingTiles ==
  /\ \A v \in pending : v.end = windowStart /\ Fits(v.cid, v.start)
  /\ \A v, w \in pending : v.cid = w.cid => v = w

\* A container whose vectors have all been sent continues with the open window.
OpenTiles == \A c \in Keys : (\A v \in pending : v.cid # c) => Fits(c, windowStart)

\* Before the first tick, or the first row of a container, there is no vector.
Unseen(c) == lastEnd[c] = 0 /\ Alone(c) /\ \A v \in pending : v.cid # c

NothingBefore ==
  /\ \A c \in Keys \ DOMAIN acc : Unseen(c)
  /\ windowStart = NoTime => \A c \in Keys : Unseen(c)

TileInv == TypeOK /\ ChannelTiles /\ PendingTiles /\ OpenTiles /\ NothingBefore

LEMMA TileInit == Init => TileInv
BY TypeInit DEF Init, TileInv, ChannelTiles, PendingTiles, OpenTiles, NothingBefore,
   Fits, Unseen, Alone

\* What sending does to the places in the channel.
LEMMA SentPlaces ==
  ASSUME out \in Seq(Vectors), NEW v \in Vectors, out' = Append(out, v)
  PROVE  /\ \A i \in DOMAIN out' : First(i)' =>
              \/ i \in DOMAIN out /\ First(i) /\ out'[i] = out[i]
              \/ out'[i] = v /\ Alone(v.cid)
         /\ \A i, j \in DOMAIN out' : Follows(i, j)' =>
              /\ i \in DOMAIN out /\ out'[i] = out[i]
              /\ \/ j \in DOMAIN out /\ Follows(i, j) /\ out'[j] = out[j]
                 \/ out'[j] = v /\ out[i].cid = v.cid /\ Last(i)
         /\ \A i \in DOMAIN out' : Last(i)' =>
              \/ i \in DOMAIN out /\ Last(i) /\ out'[i] = out[i] /\ out[i].cid # v.cid
              \/ out'[i] = v
         /\ \A c : Alone(c)' => Alone(c) /\ c # v.cid
<1>1. /\ Len(out) \in Nat /\ DOMAIN out = 1 .. Len(out)
      /\ DOMAIN out' = 1 .. Len(out) + 1
      /\ \A i \in 1 .. Len(out) : out'[i] = out[i]
      /\ out'[Len(out) + 1] = v
  BY Queues
<1>2. ASSUME NEW i \in DOMAIN out', First(i)'
      PROVE  \/ i \in DOMAIN out /\ First(i) /\ out'[i] = out[i]
             \/ out'[i] = v /\ Alone(v.cid)
  <2>1. \A k \in DOMAIN out : k < i => out[k].cid # out'[i].cid
    BY <1>1, <1>2 DEF First
  <2>2. CASE i \in DOMAIN out
    BY <1>1, <2>1, <2>2 DEF First
  <2>3. CASE i = Len(out) + 1
    BY <1>1, <2>1, <2>3 DEF Alone
  <2> QED  BY <1>1, <2>2, <2>3
<1>3. ASSUME NEW i \in DOMAIN out', NEW j \in DOMAIN out', Follows(i, j)'
      PROVE  /\ i \in DOMAIN out /\ out'[i] = out[i]
             /\ \/ j \in DOMAIN out /\ Follows(i, j) /\ out'[j] = out[j]
                \/ out'[j] = v /\ out[i].cid = v.cid /\ Last(i)
  <2>1. /\ i < j /\ out'[i].cid = out'[j].cid
        /\ \A k \in DOMAIN out' : i < k /\ k < j => out'[k].cid # out'[i].cid
    BY <1>3 DEF Follows
  <2>2. i \in DOMAIN out /\ out'[i] = out[i]
    BY <1>1, <2>1
  <2>3. \A k \in DOMAIN out : i < k /\ k < j => out[k].cid # out[i].cid
    BY <1>1, <2>1, <2>2
  <2>4. CASE j \in DOMAIN out
    BY <1>1, <2>1, <2>2, <2>3, <2>4 DEF Follows
  <2>5. CASE j = Len(out) + 1
    BY <1>1, <2>1, <2>2, <2>3, <2>5 DEF Last
  <2> QED  BY <1>1, <2>2, <2>4, <2>5
<1>4. ASSUME NEW i \in DOMAIN out', Last(i)'
      PROVE  \/ i \in DOMAIN out /\ Last(i) /\ out'[i] = out[i] /\ out[i].cid # v.cid
             \/ out'[i] = v
  BY <1>1, <1>4 DEF Last
<1>5. ASSUME NEW c, Alone(c)' PROVE Alone(c) /\ c # v.cid
  <2>1. \A i \in DOMAIN out' : out'[i].cid # c
    BY <1>5 DEF Alone
  <2>2. Len(out) + 1 \in DOMAIN out' /\ \A i \in DOMAIN out : i \in DOMAIN out'
    BY <1>1
  <2> QED  BY <1>1, <2>1, <2>2 DEF Alone
<1> QED  BY <1>2, <1>3, <1>4, <1>5

\* What a receive does to them.
LEMMA TakenPlaces ==
  ASSUME out \in Seq(Vectors), out # <<>>, out' = Tail(out)
  PROVE  /\ 1 \in DOMAIN out /\ out[1] = Head(out) /\ First(1)
         /\ \A i \in DOMAIN out' : i + 1 \in DOMAIN out /\ out'[i] = out[i + 1]
         /\ \A i \in DOMAIN out' : First(i)' => First(i + 1) \/ Follows(1, i + 1)
         /\ \A i, j \in DOMAIN out' : Follows(i, j)' => Follows(i + 1, j + 1)
         /\ \A i \in DOMAIN out' : Last(i)' => Last(i + 1)
         /\ \A c : Alone(c)' => Alone(c) \/ (c = out[1].cid /\ Last(1))
<1>1. /\ Len(out) \in Nat /\ DOMAIN out = 1 .. Len(out) /\ Len(out) >= 1
      /\ DOMAIN out' = 1 .. Len(out) - 1
      /\ \A i \in 1 .. Len(out) - 1 : out'[i] = out[i + 1]
      /\ out[1] = Head(out)
  BY Queues
<1>2. 1 \in DOMAIN out /\ First(1)
  BY <1>1 DEF First
<1>3. \A i \in DOMAIN out' : i + 1 \in DOMAIN out /\ out'[i] = out[i + 1]
  BY <1>1
<1>4. \A k \in DOMAIN out : k # 1 => k - 1 \in DOMAIN out' /\ out'[k - 1] = out[k]
  BY <1>1
<1>5. ASSUME NEW i \in DOMAIN out', First(i)'
      PROVE  First(i + 1) \/ Follows(1, i + 1)
  <2>1. \A k \in DOMAIN out' : k < i => out'[k].cid # out'[i].cid
    BY <1>5 DEF First
  <2>2. i \in 1 .. Len(out) - 1 /\ i + 1 \in DOMAIN out /\ out'[i] = out[i + 1]
    BY <1>1
  <2>3. \A k \in DOMAIN out : 1 < k /\ k < i + 1 => out[k].cid # out[i + 1].cid
    <3> TAKE k \in DOMAIN out
    <3> HAVE 1 < k /\ k < i + 1
    <3>1. k - 1 \in DOMAIN out' /\ k - 1 < i /\ out'[k - 1] = out[k]
      BY <1>1, <1>4, <2>2
    <3> QED  BY <2>1, <2>2, <3>1
  <2>4. CASE out[1].cid = out[i + 1].cid
    BY <1>1, <2>2, <2>3, <2>4 DEF Follows
  <2>5. CASE out[1].cid # out[i + 1].cid
    BY <1>1, <2>2, <2>3, <2>5 DEF First
  <2> QED  BY <2>4, <2>5
<1>6. ASSUME NEW i \in DOMAIN out', NEW j \in DOMAIN out', Follows(i, j)'
      PROVE  Follows(i + 1, j + 1)
  <2>1. /\ i < j /\ out'[i].cid = out'[j].cid
        /\ \A k \in DOMAIN out' : i < k /\ k < j => out'[k].cid # out'[i].cid
    BY <1>6 DEF Follows
  <2>2. /\ i \in 1 .. Len(out) - 1 /\ out'[i] = out[i + 1]
        /\ j \in 1 .. Len(out) - 1 /\ out'[j] = out[j + 1]
    BY <1>1
  <2>3. \A k \in DOMAIN out : i + 1 < k /\ k < j + 1 => out[k].cid # out[i + 1].cid
    <3> TAKE k \in DOMAIN out
    <3> HAVE i + 1 < k /\ k < j + 1
    <3>1. k - 1 \in DOMAIN out' /\ i < k - 1 /\ k - 1 < j /\ out'[k - 1] = out[k]
      BY <1>1, <1>4, <2>2
    <3> QED  BY <2>1, <2>2, <3>1
  <2> QED  BY <1>1, <2>1, <2>2, <2>3 DEF Follows
<1>7. ASSUME NEW i \in DOMAIN out', Last(i)'
      PROVE  Last(i + 1)
  BY <1>1, <1>4, <1>7 DEF Last
<1>8. ASSUME NEW c, Alone(c)'
      PROVE  Alone(c) \/ (c = out[1].cid /\ Last(1))
  <2>1. \A i \in DOMAIN out' : out'[i].cid # c
    BY <1>8 DEF Alone
  <2>2. \A k \in DOMAIN out : k # 1 => out[k].cid # c
    BY <1>4, <2>1
  <2>3. CASE c = out[1].cid
    BY <1>1, <2>2, <2>3 DEF Last
  <2>4. CASE c # out[1].cid
    BY <2>2, <2>4 DEF Alone
  <2> QED  BY <2>3, <2>4
<1> QED  BY <1>1, <1>2, <1>3, <1>5, <1>6, <1>7, <1>8

\* The window that a tick closes, for one container.
LEMMA FinishedFits ==
  ASSUME TileInv, Finalize, NEW c \in DOMAIN acc
  PROVE  /\ Finished(c, tick).cid = c /\ Finished(c, tick).end = tick
         /\ Fits(c, Finished(c, tick).start)
<1> USE DEF TileInv
<1>1. /\ Finished(c, tick).cid = c /\ Finished(c, tick).end = tick
      /\ Finished(c, tick).start = WindowStart(tick)
      /\ c \in Keys /\ pending = {}
  BY FinishedType DEF Finalize, TypeOK, IsMap
<1>2. CASE windowStart = NoTime
  BY <1>1, <1>2 DEF NothingBefore, Unseen, Fits, Alone
<1>3. CASE windowStart # NoTime
  BY <1>1, <1>3 DEF OpenTiles, WindowStart
<1> QED  BY <1>1, <1>2, <1>3

LEMMA TileFinalize ==
  ASSUME TileInv, Finalize
  PROVE  TileInv'
<1> USE DEF TileInv
<1>1. /\ pending = {} /\ pending' = {Finished(c, tick) : c \in DOMAIN acc}
      /\ windowStart' = tick /\ UNCHANGED <<out, lastEnd>>
      /\ DOMAIN acc' = DOMAIN acc /\ DOMAIN acc \subseteq Keys
  BY DEF Finalize, TypeOK, IsMap
<1>2. TypeOK'
  BY TypeStep DEF Next, RunStep
<1>3. \A c, t : Fits(c, t)' = Fits(c, t)
  BY <1>1 DEF Fits, Last, Alone
<1>4. ChannelTiles'
  BY <1>1 DEF ChannelTiles, First, Follows
<1>5. PendingTiles'
  BY <1>1, <1>3, FinishedFits DEF PendingTiles
<1>6. \A c \in DOMAIN acc : Finished(c, tick) \in pending' /\ Finished(c, tick).cid = c
  BY <1>1, FinishedFits
<1>7. OpenTiles'
  <2> SUFFICES ASSUME NEW c \in Keys, \A v \in pending' : v.cid # c
               PROVE  Fits(c, tick)
    BY <1>1, <1>3 DEF OpenTiles
  <2>1. Unseen(c)
    BY <1>6 DEF NothingBefore
  <2> QED  BY <2>1 DEF Unseen, Fits, Alone
<1>8. NothingBefore'
  <2>1. tick # NoTime
    BY AggregatorAssumption DEF TypeOK, NoTime
  <2>2. \A c \in Keys \ DOMAIN acc : Unseen(c)'
    BY <1>1, FinishedFits DEF NothingBefore, Unseen, Alone
  <2> QED  BY <1>1, <2>1, <2>2 DEF NothingBefore
<1> QED  BY <1>2, <1>4, <1>5, <1>7, <1>8

LEMMA TileSend ==
  ASSUME TileInv, NEW v \in pending, Send(v)
  PROVE  TileInv'
<1> USE DEF TileInv
<1>0. v \in Vectors /\ v.cid \in Keys /\ out \in Seq(Vectors) /\ Len(out) \in Nat
  BY Queues DEF TypeOK, Vectors
<1>1. /\ out' = Append(out, v) /\ pending' = pending \ {v}
      /\ UNCHANGED <<acc, windowStart, lastEnd>>
  BY DEF Send
<1>2. TypeOK'
  BY TypeStep DEF Next, RunStep
<1>3. v.end = windowStart /\ Fits(v.cid, v.start)
  BY DEF PendingTiles
<1>4. ChannelTiles'
  <2>1. ASSUME NEW i \in DOMAIN out', NEW j \in DOMAIN out', Follows(i, j)'
        PROVE  out'[j].start = out'[i].end
    BY <1>0, <1>1, <1>3, <2>1, SentPlaces DEF ChannelTiles, Fits
  <2>2. ASSUME NEW i \in DOMAIN out', First(i)'
        PROVE  lastEnd'[out'[i].cid] \in {0, out'[i].start}
    BY <1>0, <1>1, <1>3, <2>2, SentPlaces DEF ChannelTiles, Fits
  <2> QED  BY <2>1, <2>2 DEF ChannelTiles
<1>5. ASSUME NEW c, NEW t, c # v.cid, Fits(c, t) PROVE Fits(c, t)'
  BY <1>0, <1>1, <1>5, SentPlaces DEF Fits
<1>6. Fits(v.cid, windowStart)'
  BY <1>0, <1>1, <1>3, SentPlaces DEF Fits
<1>7. PendingTiles'
  <2>1. \A w \in pending' : w \in pending /\ w.cid # v.cid
    BY <1>1 DEF PendingTiles
  <2> QED  BY <1>1, <1>5, <2>1 DEF PendingTiles
<1>8. OpenTiles'
  <2> SUFFICES ASSUME NEW c \in Keys, \A w \in pending' : w.cid # c
               PROVE  Fits(c, windowStart)'
    BY <1>1 DEF OpenTiles
  <2>1. CASE c # v.cid
    BY <1>1, <1>5, <2>1 DEF OpenTiles
  <2> QED  BY <1>6, <2>1
<1>9. NothingBefore'
  <2>1. v.cid \in DOMAIN acc /\ windowStart # NoTime
    BY <1>0 DEF NothingBefore, Unseen
  <2>2. ASSUME NEW c, Unseen(c), c # v.cid PROVE Unseen(c)'
    <3>1. DOMAIN out = 1 .. Len(out) /\ DOMAIN out' = 1 .. Len(out) + 1
          /\ \A i \in DOMAIN out' : out'[i] = v \/ (i \in DOMAIN out /\ out'[i] = out[i])
      BY <1>0, <1>1, Queues
    <3> QED  BY <1>1, <2>2, <3>1 DEF Unseen, Alone
  <2> QED  BY <1>1, <2>1, <2>2 DEF NothingBefore
<1> QED  BY <1>2, <1>4, <1>7, <1>8, <1>9

LEMMA TileWrite ==
  ASSUME TileInv, Write
  PROVE  TileInv'
<1> USE DEF TileInv
<1> DEFINE v == Head(out)
<1>0. out \in Seq(Vectors) /\ out # <<>> /\ v = out[1] /\ v \in Vectors /\ v.cid \in Keys
  BY Queues DEF Write, TypeOK, Vectors
<1>1. /\ out' = Tail(out) /\ lastEnd' = [lastEnd EXCEPT ![v.cid] = v.end]
      /\ UNCHANGED <<acc, windowStart, pending>>
  BY DEF Write
<1>2. TypeOK'
  BY TypeStep DEF Next
<1>3. lastEnd'[v.cid] = v.end /\ \A c \in Keys : c # v.cid => lastEnd'[c] = lastEnd[c]
  BY <1>0, <1>1 DEF TypeOK
<1>4. ChannelTiles'
  <2>1. ASSUME NEW i \in DOMAIN out', NEW j \in DOMAIN out', Follows(i, j)'
        PROVE  out'[j].start = out'[i].end
    BY <1>0, <1>1, <2>1, TakenPlaces DEF ChannelTiles
  <2>2. ASSUME NEW i \in DOMAIN out', First(i)'
        PROVE  lastEnd'[out'[i].cid] \in {0, out'[i].start}
    <3>1. i + 1 \in DOMAIN out /\ out'[i] = out[i + 1] /\ out[i + 1].cid \in Keys
      BY <1>0, <1>1, TakenPlaces, Queues DEF Vectors
    <3>2. CASE out[i + 1].cid = v.cid
      <4>1. Follows(1, i + 1)
        <5>1. First(i + 1) \/ Follows(1, i + 1)
          BY <1>0, <1>1, <2>2, TakenPlaces
        <5>2. 1 \in DOMAIN out /\ 1 < i + 1
          BY <1>0, <1>1, Queues
        <5> QED  BY <1>0, <3>2, <5>1, <5>2 DEF First
      <4>2. 1 \in DOMAIN out
        BY <1>0, Queues
      <4> QED  BY <1>0, <1>3, <3>1, <3>2, <4>1, <4>2 DEF ChannelTiles
    <3>3. CASE out[i + 1].cid # v.cid
      <4>1. First(i + 1)
        BY <1>0, <1>1, <2>2, <3>3, TakenPlaces DEF Follows
      <4> QED  BY <1>3, <3>1, <3>3, <4>1 DEF ChannelTiles
    <3> QED  BY <3>2, <3>3
  <2> QED  BY <2>1, <2>2 DEF ChannelTiles
<1>5. ASSUME NEW c \in Keys, NEW t, Fits(c, t) PROVE Fits(c, t)'
  <2>1. \A i \in DOMAIN out' : out'[i].cid = c /\ Last(i)' => out'[i].end = t
    BY <1>0, <1>1, <1>5, TakenPlaces DEF Fits
  <2>2. Alone(c)' => lastEnd'[c] \in {0, t}
    <3>1. CASE Alone(c)
      <4>1. c # v.cid
        BY <1>0, <3>1, Queues DEF Alone
      <4> QED  BY <1>3, <1>5, <3>1, <4>1 DEF Fits
    <3>2. CASE c = v.cid /\ Last(1)
      BY <1>0, <1>3, <1>5, <3>2, Queues DEF Fits
    <3> QED  BY <1>0, <1>1, <3>1, <3>2, TakenPlaces
  <2> QED  BY <2>1, <2>2 DEF Fits
<1>6. PendingTiles' /\ OpenTiles'
  BY <1>1, <1>5 DEF PendingTiles, OpenTiles, TypeOK, Vectors
<1>7. NothingBefore'
  <2>1. ASSUME NEW c \in Keys, Unseen(c) PROVE Unseen(c)'
    <3>1. c # v.cid
      BY <1>0, <2>1, Queues DEF Unseen, Alone
    <3> QED  BY <1>0, <1>1, <1>3, <2>1, <3>1, TakenPlaces DEF Unseen, Alone
  <2> QED  BY <1>1, <2>1 DEF NothingBefore
<1> QED  BY <1>2, <1>4, <1>6, <1>7

LEMMA TileStep == TileInv /\ [Next]_vars => TileInv'
<1> SUFFICES ASSUME TileInv, [Next]_vars PROVE TileInv'
  OBVIOUS
<1>0. TypeOK'
  BY TypeStep DEF TileInv
<1>1. ASSUME UNCHANGED <<windowStart, pending, out, lastEnd>>,
             DOMAIN acc \subseteq DOMAIN acc'
      PROVE  TileInv'
  BY <1>0, <1>1 DEF TileInv, ChannelTiles, PendingTiles, OpenTiles, NothingBefore, Fits,
     Unseen, Alone, First, Last, Follows
<1>2. ASSUME NEW c \in Keys, NEW m \in Metrics, Ingest(c, m) PROVE TileInv'
  BY <1>1, <1>2 DEF Ingest, Put
<1>3. ASSUME NEW c \in Cids, IngestCgroup(c) PROVE TileInv'
  BY <1>1, <1>3 DEF IngestCgroup, Put
<1>4. CASE Advance \/ Stop \/ Refresh \/ RunReturns \/ Ended \/ UNCHANGED vars
  BY <1>1, <1>4 DEF Advance, Stop, Refresh, RunReturns, Ended, vars
<1> QED
  BY <1>2, <1>3, <1>4, TileWrite, TileFinalize, TileSend DEF Next, RunStep

\* The rows of a container follow each other without a gap or an overlap.
THEOREM RowsAreContiguous == Spec => WindowsTile
<1>1. ASSUME TileInv, [Next]_vars
      PROVE  [\A c \in Keys : lastEnd'[c] # lastEnd[c] /\ lastEnd[c] # 0
                                => Head(out).start = lastEnd[c]]_vars
  <2>1. CASE Write
    <3>1. /\ 1 \in DOMAIN out /\ out[1] = Head(out) /\ First(1)
          /\ lastEnd' = [lastEnd EXCEPT ![Head(out).cid] = Head(out).end]
      BY <1>1, <2>1, TakenPlaces DEF Write, TileInv, TypeOK
    <3>2. lastEnd[Head(out).cid] \in {0, Head(out).start}
      BY <1>1, <3>1 DEF TileInv, ChannelTiles
    <3> QED  BY <1>1, <3>1, <3>2 DEF TileInv, TypeOK
  <2>2. CASE UNCHANGED lastEnd
    BY <2>2
  <2> QED
    BY <1>1, <2>1, <2>2 DEF Next, RunStep, Advance, Ingest, Stop, Refresh, IngestCgroup,
       Finalize, Send, RunReturns, Ended, vars
<1> QED  BY <1>1, TileInit, TileStep, PTL DEF Spec, WindowsTile

-----------------------------------------------------------------------------
(* Names.  Once a vector has docker's name, so has everything of its container *)
(* behind it: in the channel, in pending, and the accumulator.                 *)

Named(c) == c \in DOMAIN acc /\ acc[c].name = "docker"

PendingNamed(c) == \A v \in pending : v.cid = c => v.name = "docker"

ChannelNamed(c) == \A i \in DOMAIN out : out[i].cid = c => out[i].name = "docker"

NamesOrdered(c) ==
  /\ lastName[c] = "docker" => ChannelNamed(c) /\ PendingNamed(c) /\ Named(c)
  /\ \A i \in DOMAIN out :
       out[i].cid = c /\ out[i].name = "docker" =>
         /\ \A j \in DOMAIN out : i < j /\ out[j].cid = c => out[j].name = "docker"
         /\ PendingNamed(c) /\ Named(c)
  /\ \A v \in pending : v.cid = c /\ v.name = "docker" => Named(c)

\* Run has given every vector of a container some name.
NoneUnnamed(c) ==
  /\ \A i \in DOMAIN out : out[i].cid = c => out[i].name # "none"
  /\ \A v \in pending : v.cid = c => v.name # "none"

NameInv == TileInv /\ \A c \in Cids : NamesOrdered(c) /\ NoneUnnamed(c)

LEMMA NameInit == Init => NameInv
<1> SUFFICES ASSUME Init PROVE NameInv
  OBVIOUS
<1>1. \A c \in Cids : lastName[c] = "none"
  BY DEF Init, Keys
<1> QED  BY <1>1, TileInit DEF Init, NameInv, NamesOrdered, NoneUnnamed

LEMMA NameWrite ==
  ASSUME NameInv, Write, NEW c \in Cids
  PROVE  NamesOrdered(c)' /\ NoneUnnamed(c)'
<1> DEFINE v == Head(out)
<1>0. out \in Seq(Vectors) /\ out # <<>> /\ NamesOrdered(c) /\ NoneUnnamed(c) /\ c \in Keys
  BY DEF NameInv, TileInv, TypeOK, Write, Keys
<1>1. /\ Len(out) \in Nat /\ DOMAIN out = 1 .. Len(out) /\ v = out[1] /\ 1 \in DOMAIN out
      /\ DOMAIN out' = 1 .. Len(out) - 1
      /\ \A i \in DOMAIN out' : i + 1 \in DOMAIN out /\ out'[i] = out[i + 1]
  BY <1>0, Queues DEF Write
<1>2. /\ UNCHANGED <<acc, pending>>
      /\ lastName'[c] = IF c = v.cid THEN v.name ELSE lastName[c]
  BY <1>0 DEF Write, NameInv, TileInv, TypeOK
<1>3. Named(c)' = Named(c) /\ PendingNamed(c)' = PendingNamed(c)
  BY <1>2 DEF Named, PendingNamed
<1>4. lastName'[c] = "docker" => ChannelNamed(c)' /\ PendingNamed(c) /\ Named(c)
  <2>1. CASE c = v.cid
    BY <1>0, <1>1, <1>2, <2>1 DEF NamesOrdered, ChannelNamed
  <2>2. CASE c # v.cid
    BY <1>0, <1>1, <1>2, <2>2 DEF NamesOrdered, ChannelNamed
  <2> QED  BY <2>1, <2>2
<1>5. ASSUME NEW i \in DOMAIN out', out'[i].cid = c, out'[i].name = "docker"
      PROVE  /\ \A j \in DOMAIN out' : i < j /\ out'[j].cid = c => out'[j].name = "docker"
             /\ PendingNamed(c) /\ Named(c)
  BY <1>0, <1>1, <1>5 DEF NamesOrdered
<1>6. \A w \in pending' : w.cid = c /\ w.name = "docker" => Named(c)
  BY <1>0, <1>2 DEF NamesOrdered
<1>7. NoneUnnamed(c)'
  BY <1>0, <1>1, <1>2 DEF NoneUnnamed
<1> QED  BY <1>3, <1>4, <1>5, <1>6, <1>7 DEF NamesOrdered

LEMMA NameSend ==
  ASSUME NameInv, NEW v \in pending, Send(v), NEW c \in Cids
  PROVE  NamesOrdered(c)' /\ NoneUnnamed(c)'
<1>0. out \in Seq(Vectors) /\ v \in Vectors /\ NamesOrdered(c) /\ NoneUnnamed(c)
  BY DEF NameInv, TileInv, TypeOK
<1>1. /\ Len(out) \in Nat /\ DOMAIN out = 1 .. Len(out)
      /\ DOMAIN out' = 1 .. Len(out) + 1
      /\ \A i \in DOMAIN out : out'[i] = out[i]
      /\ out'[Len(out) + 1] = v
  BY <1>0, Queues DEF Send
<1>2. UNCHANGED <<acc, lastName>> /\ pending' = pending \ {v}
  BY DEF Send
<1>3. Named(c)' = Named(c) /\ (PendingNamed(c) => PendingNamed(c)')
  BY <1>2 DEF Named, PendingNamed
<1>4. ChannelNamed(c) /\ PendingNamed(c) => ChannelNamed(c)'
  BY <1>1 DEF ChannelNamed, PendingNamed
<1>5. ASSUME NEW i \in DOMAIN out', out'[i].cid = c, out'[i].name = "docker"
      PROVE  /\ \A j \in DOMAIN out' : i < j /\ out'[j].cid = c => out'[j].name = "docker"
             /\ PendingNamed(c)' /\ Named(c)'
  <2>1. CASE i \in DOMAIN out
    <3>1. /\ \A j \in DOMAIN out : i < j /\ out[j].cid = c => out[j].name = "docker"
          /\ PendingNamed(c) /\ Named(c)
      BY <1>0, <1>1, <1>5, <2>1 DEF NamesOrdered
    <3>2. v.cid = c => v.name = "docker"
      BY <3>1 DEF PendingNamed
    <3> QED  BY <1>1, <1>3, <3>1, <3>2
  <2>2. CASE i = Len(out) + 1
    <3>1. v.cid = c /\ v.name = "docker"
      BY <1>1, <1>5, <2>2
    <3>2. \A w \in pending' : w.cid # c
      BY <1>2, <3>1 DEF NameInv, TileInv, PendingTiles
    <3>3. Named(c)
      BY <1>0, <3>1 DEF NamesOrdered
    <3> QED  BY <1>1, <1>3, <2>2, <3>2, <3>3 DEF PendingNamed
  <2> QED  BY <1>1, <2>1, <2>2
<1>6. \A w \in pending' : w.cid = c /\ w.name = "docker" => Named(c)
  BY <1>0, <1>2 DEF NamesOrdered
<1>7. NoneUnnamed(c)'
  BY <1>0, <1>1, <1>2 DEF NoneUnnamed
<1>8. lastName'[c] = "docker" => ChannelNamed(c) /\ PendingNamed(c) /\ Named(c)
  BY <1>0, <1>2 DEF NamesOrdered
<1> QED  BY <1>3, <1>4, <1>5, <1>6, <1>7, <1>8 DEF NamesOrdered

LEMMA NameFinalize ==
  ASSUME NameInv, Finalize, NEW c \in Cids
  PROVE  NamesOrdered(c)' /\ NoneUnnamed(c)'
<1>0. NamesOrdered(c) /\ NoneUnnamed(c) /\ c # Host /\ TypeOK
  BY AggregatorAssumption DEF NameInv, TileInv
<1>1. /\ UNCHANGED <<out, lastName>>
      /\ pending' = {Finished(d, tick) : d \in DOMAIN acc}
      /\ acc' = [d \in DOMAIN acc |-> ResetTo(d)]
  BY DEF Finalize
<1>2. \A v \in pending' : v.cid = c => c \in DOMAIN acc /\ v.name = NameOf(c)
  BY <1>1, <1>0, FinishedType DEF Finalize
<1>3. NameOf(c) # "none"
  BY <1>0 DEF NameOf, ResolveName
<1>4. c \in DOMAIN acc => c \in DOMAIN acc' /\ acc'[c].name = NameOf(c)
  BY <1>1 DEF ResetTo
<1>5. Named(c) => PendingNamed(c)' /\ Named(c)'
  BY <1>2, <1>4 DEF Named, NameOf, PendingNamed
<1>6. \A v \in pending' : v.cid = c /\ v.name = "docker" => Named(c)'
  BY <1>2, <1>4 DEF Named
<1>7. NoneUnnamed(c)'
  BY <1>0, <1>1, <1>2, <1>3 DEF NoneUnnamed
<1>8. ChannelNamed(c)' = ChannelNamed(c)
  BY <1>1 DEF ChannelNamed
<1> QED  BY <1>0, <1>1, <1>5, <1>6, <1>7, <1>8 DEF NamesOrdered

LEMMA NameStep == NameInv /\ [Next]_vars => NameInv'
<1> SUFFICES ASSUME NameInv, [Next]_vars PROVE NameInv'
  OBVIOUS
<1>0. TileInv' /\ TypeOK
  BY TileStep DEF NameInv, TileInv
<1>1. ASSUME UNCHANGED <<pending, out, lastName>>,
             \A c \in Cids : Named(c) => Named(c)'
      PROVE  NameInv'
  BY <1>0, <1>1 DEF NameInv, NamesOrdered, NoneUnnamed, PendingNamed, ChannelNamed
<1>2. ASSUME NEW c \in Keys, NEW m \in Metrics, Ingest(c, m) PROVE NameInv'
  <2> DEFINE ac  == At(acc, c, NewAccumulator)
             new == [ac EXCEPT !.counts = Plus(@, One(m))]
  <2>1. ac \in Accumulators
    BY <1>0, AccForType DEF TypeOK, CountType
  <2>2. new.name = ac.name /\ acc' = Put(acc, c, new)
    BY <1>2, <2>1 DEF Ingest, Accumulators
  <2>3. \A d \in Cids : Named(d) => Named(d)'
    BY <2>2 DEF Named, Put, At
  <2> QED  BY <1>1, <1>2, <2>3 DEF Ingest
<1>3. ASSUME NEW c \in Cids, IngestCgroup(c) PROVE NameInv'
  <2> DEFINE ac  == At(acc, c, NewAccumulator)
             new == [ac EXCEPT !.name = "docker"]
  <2>1. c \in Keys /\ ac \in Accumulators
    BY <1>0, AccForType DEF TypeOK, CountType, Keys
  <2>2. new.name = "docker" /\ acc' = Put(acc, c, new)
    BY <1>3, <2>1 DEF IngestCgroup, Accumulators
  <2>3. \A d \in Cids : Named(d) => Named(d)'
    BY <2>2 DEF Named, Put
  <2> QED  BY <1>1, <1>3, <2>3 DEF IngestCgroup
<1>4. CASE Advance \/ Stop \/ Refresh \/ RunReturns \/ Ended \/ UNCHANGED vars
  BY <1>1, <1>4 DEF Advance, Stop, Refresh, RunReturns, Ended, vars, Named
<1>5. CASE Write
  BY <1>0, <1>5, NameWrite DEF NameInv
<1>6. CASE Finalize
  BY <1>0, <1>6, NameFinalize DEF NameInv
<1>7. ASSUME NEW v \in pending, Send(v) PROVE NameInv'
  BY <1>0, <1>7, NameSend DEF NameInv
<1> QED  BY <1>2, <1>3, <1>4, <1>5, <1>6, <1>7 DEF Next, RunStep

\* Every row of a container has a name, and none under a made-up name follows
\* one under docker's.
THEOREM RowsKeepTheirName == Spec => NamesImprove
<1>1. ASSUME NameInv, [Next]_vars
      PROVE  [\A c \in Cids :
                lastEnd'[c] # lastEnd[c] =>
                  /\ lastName'[c] # "none"
                  /\ lastName[c] = "docker" => lastName'[c] = "docker"]_vars
  <2>1. CASE Write
    <3>1. /\ 1 \in DOMAIN out /\ out[1] = Head(out)
          /\ lastEnd' = [lastEnd EXCEPT ![Head(out).cid] = Head(out).end]
          /\ lastName' = [lastName EXCEPT ![Head(out).cid] = Head(out).name]
      BY <1>1, <2>1, TakenPlaces DEF Write, NameInv, TileInv, TypeOK
    <3>2. \A c \in Cids : /\ c = Head(out).cid => Head(out).name # "none"
                          /\ c = Head(out).cid /\ lastName[c] = "docker"
                               => Head(out).name = "docker"
      BY <1>1, <3>1 DEF NameInv, NamesOrdered, NoneUnnamed, ChannelNamed
    <3>3. Cids \subseteq Keys
      BY DEF Keys
    <3> QED  BY <1>1, <3>1, <3>2, <3>3 DEF NameInv, TileInv, TypeOK
  <2>2. CASE UNCHANGED lastEnd
    BY <2>2
  <2> QED
    BY <1>1, <2>1, <2>2 DEF Next, RunStep, Advance, Ingest, Stop, Refresh, IngestCgroup,
       Finalize, Send, RunReturns, Ended, vars
<1> QED  BY <1>1, NameInit, NameStep, PTL DEF Spec, NamesImprove
-----------------------------------------------------------------------------
(* No vector is lost.  A window makes one vector of each container, which then *)
(* moves from pending to the channel to the file; what a place holds of a      *)
(* container is a sum over the vectors that are there.                         *)

Weight(c, m) == [v \in Vectors |-> IF v.cid = c THEN v.counts[m] ELSE 0]

KeepInv == TypeOK /\ IsFiniteSet(pending) /\ VectorsKept

LEMMA WeightType ==
  ASSUME NEW c \in Keys, NEW m \in Metrics
  PROVE  Weight(c, m) \in [Vectors -> Nat]
BY DEF Weight, Vectors, Counts

LEMMA Places ==
  ASSUME TypeOK, NEW c \in Keys, NEW m \in Metrics
  PROVE  /\ InChannel(c, m) = SeqSum(Weight(c, m), out)
         /\ InPending(c, m) = SumFunction([v \in pending |-> Weight(c, m)[v]])
         /\ InChannel(c, m) \in Nat
         /\ IsFiniteSet(pending) => InPending(c, m) \in Nat
<1>1. \A i \in DOMAIN out : out[i] \in Vectors
  BY DEF TypeOK
<1>2. [i \in DOMAIN out |-> IF out[i].cid = c THEN out[i].counts[m] ELSE 0]
      = [i \in DOMAIN out |-> Weight(c, m)[out[i]]]
  BY <1>1 DEF Weight
<1>3. InChannel(c, m) = SeqSum(Weight(c, m), out)
  BY <1>2 DEF InChannel, SeqSum
<1>4. InChannel(c, m) \in Nat
  <2>1. out \in Seq(Vectors)
    BY DEF TypeOK
  <2>2. Weight(c, m) \in [Vectors -> Nat]
    BY WeightType
  <2>3. SeqSum(Weight(c, m), out) \in Nat
    BY <2>1, <2>2, SeqSumIsNat
  <2> QED  BY <1>3, <2>3
<1>5. [v \in pending |-> IF v.cid = c THEN v.counts[m] ELSE 0]
      = [v \in pending |-> Weight(c, m)[v]]
  BY DEF Weight, TypeOK
<1>6. [v \in pending |-> Weight(c, m)[v]] \in [pending -> Nat]
  BY WeightType DEF TypeOK
<1>7. InPending(c, m) = SumFunction([v \in pending |-> Weight(c, m)[v]])
  BY <1>5 DEF InPending
<1>8. ASSUME IsFiniteSet(pending)
      PROVE  InPending(c, m) \in Nat
  BY <1>6, <1>7, <1>8, FunSumIsNat
<1> QED  BY <1>3, <1>4, <1>7, <1>8

LEMMA PlacesNext ==
  (TypeOK => \A c \in Keys, m \in Metrics :
     /\ InChannel(c, m) = SeqSum(Weight(c, m), out)
     /\ InPending(c, m) = SumFunction([v \in pending |-> Weight(c, m)[v]]))'
<1>1. TypeOK => \A c \in Keys, m \in Metrics :
        /\ InChannel(c, m) = SeqSum(Weight(c, m), out)
        /\ InPending(c, m) = SumFunction([v \in pending |-> Weight(c, m)[v]])
  BY Places
<1> QED  BY <1>1, PTL

LEMMA KeepInit == Init => KeepInv
<1> SUFFICES ASSUME Init PROVE KeepInv
  OBVIOUS
<1>1. pending = {} /\ out = <<>> /\ TypeOK /\ IsFiniteSet({})
  BY TypeInit, FS_EmptySet DEF Init
<1>2. ASSUME NEW c \in Keys, NEW m \in Metrics
      PROVE  finalized[c][m] = InPending(c, m) + InChannel(c, m) + written[c][m]
  <2>1. InChannel(c, m) = 0
    BY <1>1, SeqSumOfNone, Places
  <2>2. InPending(c, m) = 0
    BY <1>1, FunSumOfZeros DEF InPending
  <2>3. finalized[c][m] = 0 /\ written[c][m] = 0
    BY DEF Init, ZeroCounts
  <2> QED  BY <2>1, <2>2, <2>3
<1> QED  BY <1>1, <1>2 DEF KeepInv, VectorsKept

LEMMA KeepSend ==
  ASSUME KeepInv, TypeOK', NEW v \in pending, Send(v)
  PROVE  KeepInv'
<1>1. /\ pending' = pending \ {v} /\ out' = Append(out, v) /\ UNCHANGED <<finalized, written>>
      /\ v \in Vectors /\ out \in Seq(Vectors) /\ pending \subseteq Vectors /\ TypeOK
  BY DEF Send, KeepInv, TypeOK
<1>2. IsFiniteSet(pending) /\ IsFiniteSet(pending')
  BY <1>1, FS_RemoveElement DEF KeepInv
<1>3. ASSUME NEW c \in Keys, NEW m \in Metrics
      PROVE  InPending(c, m)' + InChannel(c, m)' = InPending(c, m) + InChannel(c, m)
  <2> DEFINE w == Weight(c, m)
             f == [u \in pending |-> w[u]]
             g == [u \in pending \ {v} |-> w[u]]
  <2>1. w \in [Vectors -> Nat] /\ w[v] \in Nat
    BY <1>1, WeightType
  <2>2. InChannel(c, m) = SeqSum(w, out) /\ InPending(c, m) = SumFunction(f)
        /\ InChannel(c, m) \in Nat /\ InPending(c, m) \in Nat
    BY <1>1, <1>2, Places
  <2>3. InChannel(c, m)' = SeqSum(w, Append(out, v)) /\ InPending(c, m)' = SumFunction(g)
    BY <1>1, PlacesNext DEF Weight
  <2>4. \A u \in pending : f[u] \in Int
    BY <1>1, <2>1
  <2>5. \A u \in pending \ {v} : f[u] = g[u]
    OBVIOUS
  <2>6. f[v] = w[v] /\ DOMAIN f = pending /\ DOMAIN g = pending \ {v}
    OBVIOUS
  <2>7. SeqSum(w, Append(out, v)) = SeqSum(w, out) + w[v]
    BY <1>1, <2>1, SeqSumAppend
  <2> HIDE DEF f, g, w
  <2>8. SumFunctionOnSet(f, pending) = f[v] + SumFunctionOnSet(g, pending \ {v})
    BY <1>2, <2>4, <2>5, SumAdds
  <2>9. SumFunction(f) = f[v] + SumFunction(g)
    BY <2>6, <2>8 DEF SumFunction
  <2>10. SumFunction(g) \in Int
    <3>1. \A u \in pending \ {v} : g[u] \in Int
      BY <2>4, <2>5
    <3> QED  BY <1>1, <1>2, <2>6, <3>1, SumTakes DEF SumFunction
  <2> QED  BY <2>1, <2>2, <2>3, <2>6, <2>7, <2>9, <2>10
<1>4. ASSUME NEW c \in Keys, NEW m \in Metrics
      PROVE  finalized'[c][m] = InPending(c, m)' + InChannel(c, m)' + written'[c][m]
  <2>1. finalized[c][m] = InPending(c, m) + InChannel(c, m) + written[c][m]
    BY DEF KeepInv, VectorsKept
  <2> QED  BY <1>1, <1>3, <2>1
<1> QED  BY <1>2, <1>4 DEF KeepInv, VectorsKept

LEMMA KeepWrite ==
  ASSUME KeepInv, TypeOK', Write
  PROVE  KeepInv'
<1> DEFINE v == Head(out)
<1>1. /\ out' = Tail(out) /\ out # <<>> /\ UNCHANGED <<finalized, pending>>
      /\ written' = [written EXCEPT ![v.cid] = Plus(@, v.counts)]
      /\ out \in Seq(Vectors) /\ TypeOK /\ IsFiniteSet(pending) /\ written \in [Keys -> Counts]
  BY DEF Write, KeepInv, TypeOK
<1>2. v \in Vectors /\ v.cid \in Keys /\ v.counts \in Counts
  <2>1. out \in Seq(Vectors) /\ out # <<>>
    BY <1>1
  <2>2. v = out[1] /\ out[1] \in Vectors
    BY <2>1, Queues
  <2>3. v \in Vectors
    BY <2>2
  <2> HIDE DEF v
  <2> QED  BY <2>3 DEF Vectors
<1>3. ASSUME NEW c \in Keys, NEW m \in Metrics
      PROVE  finalized'[c][m] = InPending(c, m)' + InChannel(c, m)' + written'[c][m]
  <2> DEFINE w == Weight(c, m)
  <2>1. finalized[c][m] = InPending(c, m) + InChannel(c, m) + written[c][m]
    BY DEF KeepInv, VectorsKept
  <2>2. w \in [Vectors -> Nat] /\ w[v] \in Nat
    BY <1>2, WeightType
  <2>3. SeqSum(w, out) = w[v] + SeqSum(w, Tail(out))
    BY <1>1, <2>2, SeqSumTail
  <2>4. InChannel(c, m) = SeqSum(w, out) /\ InPending(c, m) \in Nat
    BY <1>1, Places
  <2>5. InChannel(c, m)' = SeqSum(w, Tail(out))
    BY <1>1, PlacesNext DEF Weight
  <2>6. InPending(c, m)' = InPending(c, m)
    BY <1>1 DEF InPending
  <2>7. written'[c][m] = written[c][m] + w[v] /\ written[c][m] \in Nat
    BY <1>1, <1>2 DEF Plus, Weight, Counts
  <2>8. SeqSum(w, Tail(out)) \in Nat
    <3>1. Tail(out) \in Seq(Vectors)
      BY <1>1
    <3> QED  BY <2>2, <3>1, SeqSumIsNat
  <2> HIDE DEF v, w
  <2> QED  BY <1>1, <2>1, <2>2, <2>3, <2>4, <2>5, <2>6, <2>7, <2>8
<1> QED  BY <1>1, <1>3 DEF KeepInv, VectorsKept

LEMMA WindowIsFinite ==
  ASSUME TypeOK, Finalize
  PROVE  IsFiniteSet(pending')
<1> DEFINE s == [d \in DOMAIN acc |-> Finished(d, tick)]
           P == {Finished(d, tick) : d \in DOMAIN acc}
<1>1. IsFiniteSet(Keys) /\ DOMAIN acc \subseteq Keys
  BY FS_AddElement, AggregatorAssumption DEF Keys, TypeOK, IsMap
<1>2. IsFiniteSet(DOMAIN acc)
  BY <1>1, FS_Subset
<1>3. s \in Surjection(DOMAIN acc, P)
  BY DEF Surjection
<1>4. pending' = P
  BY DEF Finalize
<1> HIDE DEF s, P
<1> QED  BY <1>2, <1>3, <1>4, FS_Surjection

\* Of a container that has an accumulator, a window's vectors hold what was in it.
LEMMA WindowHolds ==
  ASSUME KeepInv, TypeOK', Finalize, NEW c \in Keys, NEW m \in Metrics
  PROVE  InPending(c, m)' = InAcc(c, m)
<1> DEFINE P == {Finished(d, tick) : d \in DOMAIN acc}
           w == Weight(c, m)
           f == [u \in P |-> w[u]]
<1>1. /\ pending' = P /\ DOMAIN acc \subseteq Keys /\ TypeOK /\ tick # 0
  BY DEF Finalize, KeepInv, TypeOK, IsMap
<1>2. \A d \in DOMAIN acc : Finished(d, tick) \in Vectors /\ Finished(d, tick).cid = d
                            /\ Finished(d, tick).counts = acc[d].counts
  BY <1>1, FinishedType DEF Finished
<1>3. IsFiniteSet(P)
  BY <1>1, WindowIsFinite
<1>4. InPending(c, m)' = SumFunction(f)
  BY <1>1, PlacesNext DEF Weight
<1>5. \A u \in P : f[u] \in Nat /\ (u.cid # c => f[u] = 0)
  BY <1>2, WeightType DEF Weight
<1>6. CASE c \in DOMAIN acc
  <2> DEFINE a == Finished(c, tick)
  <2>1. a \in P /\ f[a] = acc[c].counts[m]
    BY <1>2, <1>6 DEF Weight
  <2>2. \A u \in P \ {a} : f[u] = 0
    <3>1. \A u \in P \ {a} : u.cid # c
      BY <1>2
    <3> QED  BY <1>5, <3>1
  <2>3. IsFiniteSet(P \ {a})
    BY <1>3, FS_RemoveElement
  <2>4. DOMAIN f = P /\ \A u \in P : f[u] \in Int
    BY <1>5
  <2> HIDE DEF f, P, a
  <2>5. SumFunctionOnSet(f, P) = f[a] + SumFunctionOnSet(f, P \ {a})
    BY <1>3, <2>1, <2>4, SumTakes
  <2>6. SumFunctionOnSet(f, P \ {a}) = 0
    BY <2>2, <2>3, SumOfZeros
  <2>7. f[a] \in Nat /\ SumFunction(f) = f[a]
    BY <1>5, <2>1, <2>4, <2>5, <2>6 DEF SumFunction
  <2> QED  BY <1>1, <1>3, <1>4, <1>6, <2>1, <2>7 DEF InAcc
<1>7. CASE c \notin DOMAIN acc
  <2>1. \A u \in P : f[u] = 0
    <3>1. \A u \in P : u.cid # c
      BY <1>2, <1>7
    <3> QED  BY <1>5, <3>1
  <2>2. DOMAIN f = P
    OBVIOUS
  <2> HIDE DEF f, P
  <2>3. SumFunction(f) = 0
    BY <1>3, <2>1, <2>2, FunSumOfZeros
  <2> QED  BY <1>1, <1>3, <1>4, <1>7, <2>3 DEF InAcc
<1> QED  BY <1>6, <1>7

LEMMA KeepFinalize ==
  ASSUME KeepInv, TypeOK', Finalize
  PROVE  KeepInv'
<1>1. /\ finalized' = [c \in Keys |-> IF c \in DOMAIN acc
                                      THEN Plus(finalized[c], acc[c].counts)
                                      ELSE finalized[c]]
      /\ pending = {} /\ UNCHANGED <<out, written>> /\ TypeOK
  BY DEF Finalize, KeepInv
<1>2. IsFiniteSet(pending')
  BY <1>1, WindowIsFinite
<1>3. ASSUME NEW c \in Keys, NEW m \in Metrics
      PROVE  finalized'[c][m] = InPending(c, m)' + InChannel(c, m)' + written'[c][m]
  <2>1. finalized[c][m] = InPending(c, m) + InChannel(c, m) + written[c][m]
    BY DEF KeepInv, VectorsKept
  <2>2. InPending(c, m) = 0
    BY <1>1, FunSumOfZeros, FS_EmptySet DEF InPending
  <2>3. InPending(c, m)' = InAcc(c, m)
    BY WindowHolds
  <2>4. InChannel(c, m)' = InChannel(c, m) /\ InChannel(c, m) \in Nat
    BY <1>1, Places DEF InChannel
  <2>5. finalized'[c][m] = finalized[c][m] + InAcc(c, m) /\ InAcc(c, m) \in Nat
    BY <1>1 DEF InAcc, Plus, TypeOK, IsMap, Accumulators, Counts
  <2>6. finalized[c][m] \in Nat /\ written[c][m] \in Nat
    BY <1>1 DEF TypeOK, Counts
  <2> QED  BY <1>1, <2>1, <2>2, <2>3, <2>4, <2>5, <2>6
<1> QED  BY <1>1, <1>2, <1>3 DEF KeepInv, VectorsKept

LEMMA KeepStep == KeepInv /\ [Next]_vars => KeepInv'
<1> SUFFICES ASSUME KeepInv, [Next]_vars PROVE KeepInv'
  OBVIOUS
<1>1. TypeOK'
  BY TypeStep DEF KeepInv
<1>2. ASSUME UNCHANGED <<finalized, pending, out, written>>
      PROVE  KeepInv'
  BY <1>1, <1>2 DEF KeepInv, VectorsKept, InPending, InChannel
<1>3. ASSUME (\E c \in Keys, m \in Metrics : Ingest(c, m)) \/ (\E c \in Cids : IngestCgroup(c))
      PROVE  UNCHANGED <<finalized, pending, out, written>>
  BY <1>3 DEF Ingest, IngestCgroup
<1>4. CASE Advance \/ Stop \/ Refresh \/ RunReturns \/ Ended \/ UNCHANGED vars
  BY <1>2, <1>4 DEF Advance, Stop, Refresh, RunReturns, Ended, vars
<1> QED
  BY <1>1, <1>2, <1>3, <1>4, KeepWrite, KeepFinalize, KeepSend DEF Next, RunStep

\* A full channel makes Run wait, and a slow main goroutine makes the channel
\* full; none of it loses or repeats a vector, for any capacity of the channel.
THEOREM NoVectorIsLost == Spec => []VectorsKept
<1>1. KeepInv => VectorsKept
  BY DEF KeepInv
<1> QED  BY <1>1, KeepInit, KeepStep, PTL DEF Spec

=============================================================================
