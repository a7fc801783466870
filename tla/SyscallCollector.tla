-------------------------- MODULE SyscallCollector --------------------------
(* pkg/collector/syscalls/collector.go: the Go side of syscall accounting.     *)
(* The refresh goroutine of the agent calls UpdateContainers, which writes     *)
(* cgid_map entry by entry and then replaces idxToCid, all under c.mu.  The    *)
(* poll goroutine runs pollOnce: it iterates syscalls_by_cgid word by word     *)
(* without the mutex, then turns totals into rows under it.                    *)
EXTENDS SyscallTrace

CONSTANT Host     \* the empty container id, which stands for the host
ASSUME HostAssumption == Host \notin Cids

VARIABLES upd,        \* UpdateContainers: where it is ("off": mutex free)
          mappings,   \* its argument: the ContainerMapping records
          toPut,      \* those not yet written to cgid_map
          passed,     \* cleanup: keys the iterator passed since it (re)started
          visits,     \* cleanup: keys the iterator has returned
          idxToCid,   \* container index -> container id
          prevSeen,   \* container index -> counters at the last poll
          polling,    \* pollOnce is running
          must,       \* entries present when its iteration began
          current,    \* entries read so far, summed over the CPUs
          reading,    \* the entry being read
          unread,     \* its words <<CPU, field>> not yet read
          sum,        \* its counters summed so far
          snap,       \* the rows of the latest snapshot
          reported,   \* history: index -> counters reported in rows
          settled     \* history: indices that an update which has ended wrote

updVars == <<upd, mappings, toPut, passed, visits, idxToCid, settled>>
scanVars == <<polling, must, current, reading, unread, sum>>
pollVars == <<scanVars, prevSeen, snap, reported>>

\* Go zero value of an index; only meaningful while unread is not empty.
NoIdx == 0

Mappings == [cgid : Cgids, idx : Nat, cid : Cids]
Rows == [idx : Nat, cid : Cids \cup {Host}, counts : Counts]

CollectorTypeOK ==
  /\ upd \in {"off", "put", "clean"}
  /\ mappings \subseteq Mappings
  /\ toPut \subseteq mappings
  /\ passed \subseteq Cgids
  /\ visits \in Nat
  /\ IsMap(idxToCid, Nat, Cids)
  /\ IsMap(prevSeen, Nat, Counts)
  /\ polling \in BOOLEAN
  /\ must \subseteq Nat
  /\ IsMap(current, Nat, Counts)
  /\ reading \in Nat
  /\ unread \subseteq Cpus \X Fields
  /\ sum \in Counts
  /\ snap \subseteq Rows
  /\ IsMap(reported, Nat, Counts)
  /\ settled \subseteq Nat

CollectorInit ==
  /\ upd = "off" /\ mappings = {} /\ toPut = {} /\ passed = {} /\ visits = 0
  /\ idxToCid = EmptyMap /\ settled = {}
  /\ polling = FALSE /\ must = {} /\ current = EmptyMap
  /\ reading = NoIdx /\ unread = {} /\ sum = ZeroCounts
  /\ prevSeen = EmptyMap /\ snap = {} /\ reported = EmptyMap

MutexForgotten == TRUE

\* c.mu is held from the first Put until idxToCid is replaced.
MutexFree == upd = "off"

-----------------------------------------------------------------------------
(* UpdateContainers *)

BeginUpdate(ms) ==
  /\ upd = "off"
  /\ upd' = "put" /\ mappings' = ms /\ toPut' = ms
  /\ UNCHANGED <<passed, visits, idxToCid, settled>>

\* The instances that still use their pointer to the element at a place.
Holding(place) ==
  {p \in DOMAIN prog : prog[p].pc \in {"found", "create", "again"}
                       /\ prog[p].elem = place}

\* A new entry takes an element from the free list; a replacement takes the
\* spare of the CPU that the agent runs on.
ElementFor(g) == IF g \in DOMAIN cgidMap THEN Spare ELSE Free

\* The kernel writes m into an element, to which the instances ps point, and
\* leaves the element that it replaces as a spare.  The instances keep theirs.
Relink(m, ps) ==
  [p \in DOMAIN prog |->
    IF p \in ps
    THEN [prog[p] EXCEPT !.elem = m.cgid, !.idx = m.idx, !.rewritten = TRUE]
    ELSE IF p \in Holding(m.cgid) THEN [prog[p] EXCEPT !.elem = Spare] ELSE prog[p]]

\* The kernel puts the element of a deleted entry on the free list.
Unlink(g) ==
  [p \in DOMAIN prog |->
    IF p \in Holding(g) THEN [prog[p] EXCEPT !.elem = Free] ELSE prog[p]]

\* c.objs.CgidMap.Put succeeds for one mapping.
PutOne(m) ==
  /\ upd = "put"
  /\ m \in toPut
  /\ HasRoom(cgidMap, m.cgid, MaxCgids)
  /\ cgidMap' = Put(cgidMap, m.cgid, m.idx)
  /\ \E ps \in SUBSET Holding(ElementFor(m.cgid)) : prog' = Relink(m, ps)
  /\ toPut' = toPut \ {m}
  /\ upd' = IF toPut = {m} THEN "clean" ELSE "put"
  /\ UNCHANGED <<hist, issued, dropped, origin,
                 mappings, passed, visits, idxToCid, settled>>

\* Put fails on a full map: UpdateContainers returns before its cleanup and
\* before it updates idxToCid.  The entries already written stay.
PutFails(m) ==
  /\ upd = "put"
  /\ m \in toPut
  /\ ~HasRoom(cgidMap, m.cgid, MaxCgids)
  /\ upd' = "off" /\ mappings' = {} /\ toPut' = {}
  /\ settled' = settled \cup {x.idx : x \in mappings \ toPut}
  /\ UNCHANGED <<traceVars, passed, visits, idxToCid>>

\* newIdx, built from the mappings.
NewIdx(ms) ==
  [i \in {m.idx : m \in ms} |-> (CHOOSE m \in ms : m.idx = i).cid]

IsMapped(i) == i \in DOMAIN NewIdx(mappings)

IsStale(i) == i \notin DOMAIN NewIdx(mappings)

\* The cleanup's iterator returns a key.  Deleting it makes the next NextKey
\* start again from the first key; the iterator gives up, with an error nobody
\* reads, once it has returned more than max_entries keys.
CleanVisit(g) ==
  /\ upd = "clean"
  /\ visits <= MaxCgids
  /\ g \in DOMAIN cgidMap \ passed
  /\ visits' = visits + 1
  /\ IF IsStale(cgidMap[g])
     THEN cgidMap' = Drop(cgidMap, {g}) /\ prog' = Unlink(g) /\ passed' = {}
     ELSE passed' = passed \cup {g} /\ UNCHANGED <<cgidMap, prog>>
  /\ UNCHANGED <<hist, issued, dropped, origin,
                 upd, mappings, toPut, idxToCid, settled>>

\* The iteration has ended: c.idxToCid = newIdx, and the mutex is released.
CommitUpdate ==
  /\ upd = "clean"
  /\ DOMAIN cgidMap \subseteq passed \/ visits > MaxCgids
  /\ idxToCid' = NewIdx(mappings)
  /\ settled' = settled \cup DOMAIN idxToCid'
  /\ upd' = "off" /\ mappings' = {} /\ passed' = {} /\ visits' = 0
  /\ UNCHANGED <<traceVars, toPut>>

UpdateStep ==
  /\ \/ \E m \in toPut : PutOne(m) \/ PutFails(m)
     \/ \E g \in DOMAIN cgidMap : CleanVisit(g)
     \/ CommitUpdate
  /\ UNCHANGED pollVars

-----------------------------------------------------------------------------
(* pollOnce *)

PollStart ==
  /\ ~polling
  /\ polling' = TRUE
  /\ must' = DOMAIN hist
  /\ current' = EmptyMap
  /\ UNCHANGED <<reading, unread, sum, prevSeen, snap, reported>>

\* The iterator moves to an entry.  Entries are never deleted from this map,
\* so every entry present from the start is met exactly once; one inserted
\* meanwhile may or may not be met.
ReadEntry(i) ==
  /\ polling
  /\ unread = {}
  /\ i \in DOMAIN hist \ DOMAIN current
  /\ reading' = i
  /\ unread' = Cpus \X Fields
  /\ sum' = ZeroCounts
  /\ UNCHANGED <<polling, must, current, prevSeen, snap, reported>>

TotalReadLast(p, f) == f # "total" \/ \A x \in Buckets : <<p, x>> \notin unread

\* total is the first word of syscall_counts.
TotalReadFirst(p, f) == f = "total" \/ <<p, "total">> \notin unread

\* The kernel copies a CPU's counters word by word, total (the first) first,
\* while the program on that CPU goes on; pollOnce adds the copies up.
ReadWord(p, f) ==
  /\ <<p, f>> \in unread
  /\ TotalReadFirst(p, f)
  /\ sum' = [sum EXCEPT ![f] = @ + hist[reading][p][f]]
  /\ unread' = unread \ {<<p, f>>}
  /\ current' = IF unread' = {} THEN Put(current, reading, sum') ELSE current
  /\ UNCHANGED <<polling, must, reading, prevSeen, snap, reported>>

\* subtract: every counter, clamped at zero.
Subtract(a, b) == [f \in Fields |-> IF a[f] < b[f] THEN 0 ELSE a[f] - b[f]]

DeltaOfAll(i) == Subtract(current[i], ZeroCounts)

Delta(i) == Subtract(current[i], At(prevSeen, i, ZeroCounts))

ReportableOnceSeen ==
  {i \in DOMAIN current \cap DOMAIN prevSeen : Delta(i)["total"] # 0}

\* Indices whose row is not skipped.
Reportable == {i \in DOMAIN current : Delta(i)["total"] # 0}

NewRows ==
  {[idx |-> i, cid |-> At(idxToCid, i, Host), counts |-> Delta(i)] :
     i \in Reportable}

\* History: the counters of i reported so far, the new row included.
Credit(i) ==
  LET old == At(reported, i, ZeroCounts) IN
  IF i \in Reportable THEN [f \in Fields |-> old[f] + Delta(i)[f]] ELSE old

\* The critical section.  Indices that were not read are evicted from prevSeen
\* and the others take what was read, whether a row is emitted or not.
PollCommit ==
  /\ polling
  /\ unread = {}
  /\ must \subseteq DOMAIN current
  /\ MutexFree
  /\ prevSeen' = current
  /\ snap' = NewRows
  /\ reported' = [i \in DOMAIN current |-> Credit(i)]
  /\ polling' = FALSE /\ must' = {} /\ current' = EmptyMap
  /\ reading' = NoIdx /\ sum' = ZeroCounts
  /\ UNCHANGED unread

PollStep ==
  /\ \/ PollStart
     \/ \E i \in DOMAIN hist : ReadEntry(i)
     \/ \E w \in unread : ReadWord(w[1], w[2])
     \/ PollCommit
  /\ UNCHANGED <<traceVars, updVars>>
=============================================================================
