------------------------------- MODULE TcpStats -------------------------------
(* bpf/tcp_stats.bpf.c and pkg/collector/tcpstats/collector.go: TCP counters   *)
(* per process group in a preallocated per-CPU hash map.  The probes bump an   *)
(* entry or create it; pollOnce reads and deletes every entry while the probes *)
(* go on.  bytes_tx, bytes_rx, the packet counts and retransmits are bumped    *)
(* alike: one counter stands for them, and a call adds one to it.              *)
EXTENDS BpfMaps, Functions, FiniteSetsExt

CONSTANTS Tgids,       \* process groups, each by its place in the hash order
          Cpus,
          Elems,       \* preallocated elements: max_entries (10240) of them
          Miss,        \* the null pointer of a failed lookup
          MaxCalls     \* bound: calls of the probed functions

ASSUME TcpAssumption ==
  /\ Tgids \subseteq Nat \ {0}
  /\ IsFiniteSet(Tgids) /\ IsFiniteSet(Cpus) /\ IsFiniteSet(Elems)
  /\ Miss \notin Elems
  /\ MaxCalls \in Nat

VARIABLES table,      \* tgid -> its element
          count,      \* element -> CPU -> counter
          prog,       \* CPU -> the probe that runs there
          polling,    \* pollOnce iterates
          cursor,     \* the key the iterator returned last (NoKey: none yet)
          visits,     \* keys the iterator has returned
          perTgid,    \* tgid -> sum read in this poll
          reading,    \* {}, or the key that was read and is not yet deleted
          called,     \* history: tgid -> calls with something to count
          reported,   \* history: tgid -> reported in snapshots
          astray,     \* history: tgid -> counts that belong to another one
          lost        \* history: reason -> counts that no snapshot will hold

vars == <<table, count, prog, polling, cursor, visits, perTgid, reading, called,
          reported, astray, lost>>

pollVars == <<polling, cursor, visits, perTgid, reading, reported>>

\* Why a count is lost: another CPU created the entry first; the map is full;
\* the entry was deleted after it was read; a second read of the key in the
\* same poll replaced the first.
Reasons == {"exists", "full", "deleted", "replaced"}

\* A probe after its lookup, with the element found.
Probes == [tgid : Tgids, elem : Elems \cup {Miss}]

NoKey == 0

MaxVisits == Cardinality(Elems)

TypeOK ==
  /\ IsMap(table, Tgids, Elems)
  /\ count \in [Elems -> [Cpus -> Nat]]
  /\ IsMap(prog, Cpus, Probes)
  /\ polling \in BOOLEAN
  /\ cursor \in Tgids \cup {NoKey}
  /\ visits \in 0 .. MaxVisits + 1
  /\ IsMap(perTgid, Tgids, Nat)
  /\ reading \subseteq Tgids
  /\ called \in [Tgids -> Nat]
  /\ reported \in [Tgids -> Nat]
  /\ astray \in [Tgids -> Nat]
  /\ lost \in [Reasons -> Nat]

Zeros == [p \in Cpus |-> 0]

Init ==
  /\ table = EmptyMap
  /\ count = [e \in Elems |-> Zeros]
  /\ prog = EmptyMap
  /\ polling = FALSE /\ cursor = NoKey /\ visits = 0 /\ perTgid = EmptyMap /\ reading = {}
  /\ called = [t \in Tgids |-> 0]
  /\ reported = [t \in Tgids |-> 0]
  /\ astray = [t \in Tgids |-> 0]
  /\ lost = [r \in Reasons |-> 0]

Lose(r, n) == lost' = [lost EXCEPT ![r] = @ + n]

SumOf(e) == SumFunction(count[e])

-----------------------------------------------------------------------------
(* The probes: bump *)

\* The lookup.
Call(p, t) ==
  /\ p \notin DOMAIN prog
  /\ SumFunction(called) < MaxCalls
  /\ called' = [called EXCEPT ![t] = @ + 1]
  /\ prog' = Put(prog, p, [tgid |-> t, elem |-> At(table, t, Miss)])
  /\ UNCHANGED <<table, count, pollVars, astray, lost>>

Linked(e) == e \in Range(table)

\* A hit adds through the pointer, whether or not the entry still exists: a
\* deleted entry takes the count with it, and an element that another process
\* group got meanwhile counts it there.
Add(p) ==
  /\ p \in DOMAIN prog
  /\ prog[p].elem # Miss
  /\ LET e == prog[p].elem
         others == {t \in DOMAIN table : table[t] = e /\ t # prog[p].tgid} IN
       /\ count' = [count EXCEPT ![e][p] = @ + 1]
       /\ astray' = [t \in Tgids |-> IF t \in others THEN astray[t] + 1 ELSE astray[t]]
       /\ IF Linked(e) THEN UNCHANGED lost ELSE Lose("deleted", 1)
  /\ prog' = Drop(prog, {p})
  /\ UNCHANGED <<table, pollVars, called>>

\* Deleted elements are free at once, though a probe may still point to them.
Free == {e \in Elems : ~Linked(e)}

\* A new entry holds the caller's count on its CPU and zero on the others.
Fresh(p) == [Zeros EXCEPT ![p] = 1]

FreshUncleared(e, p) == [count[e] EXCEPT ![p] = @ + 1]

NewCount(e, p) == Fresh(p)

\* A miss creates the entry with BPF_NOEXIST and does not look at the result.
Create(p) ==
  /\ p \in DOMAIN prog
  /\ prog[p].elem = Miss
  /\ LET t == prog[p].tgid IN
       \/ /\ t \in DOMAIN table
          /\ Lose("exists", 1)
          /\ UNCHANGED <<table, count>>
       \/ /\ t \notin DOMAIN table
          /\ Free = {}
          /\ Lose("full", 1)
          /\ UNCHANGED <<table, count>>
       \/ /\ t \notin DOMAIN table
          /\ \E e \in Free :
               /\ table' = Put(table, t, e)
               /\ count' = [count EXCEPT ![e] = NewCount(e, p)]
          /\ UNCHANGED lost
  /\ prog' = Drop(prog, {p})
  /\ UNCHANGED <<pollVars, called, astray>>

-----------------------------------------------------------------------------
(* pollOnce *)

PollStart ==
  /\ ~polling
  /\ polling' = TRUE
  /\ UNCHANGED <<table, count, prog, cursor, visits, perTgid, reading, called,
                 reported, astray, lost>>

\* What NextKey may return: the key after the cursor, or the first of all if
\* the cursor, which pollOnce deleted, is not in the map again.
Candidates ==
  IF cursor \in DOMAIN table THEN {t \in DOMAIN table : t > cursor}
  ELSE DOMAIN table

EndlessIteration == TRUE

\* cilium's iterator gives up after max_entries + 1 keys.
MayVisit == visits <= MaxVisits

\* The iterator returns a key and pollOnce sums its counters.
PollRead(t) ==
  /\ polling
  /\ reading = {}
  /\ MayVisit
  /\ t \in Candidates
  /\ t = Min(Candidates)
  /\ cursor' = t
  /\ visits' = visits + 1
  /\ perTgid' = Put(perTgid, t, SumOf(table[t]))
  /\ reading' = {t}
  /\ Lose("replaced", At(perTgid, t, 0))
  /\ UNCHANGED <<table, count, prog, polling, called, reported, astray>>

NotDeleted(t) == table

AfterDelete(t) == Drop(table, {t})

\* Delete: what was added after the sum was taken goes with the entry.
PollDelete(t) ==
  /\ t \in reading
  /\ table' = AfterDelete(t)
  /\ Lose("deleted", SumOf(table[t]) - perTgid[t])
  /\ reading' = {}
  /\ UNCHANGED <<count, prog, polling, cursor, visits, perTgid, called, reported, astray>>

\* The iteration has ended or was given up; every sum becomes a row.
PollEnd ==
  /\ polling
  /\ reading = {}
  /\ Candidates = {} \/ ~MayVisit
  /\ reported' = [t \in Tgids |-> reported[t] + At(perTgid, t, 0)]
  /\ polling' = FALSE /\ cursor' = NoKey /\ visits' = 0 /\ perTgid' = EmptyMap
  /\ UNCHANGED <<table, count, prog, reading, called, astray, lost>>

Probe(p) == (\E t \in Tgids : Call(p, t)) \/ Add(p) \/ Create(p)

Poll == PollStart \/ (\E t \in Tgids : PollRead(t) \/ PollDelete(t)) \/ PollEnd

Next == (\E p \in Cpus : Probe(p)) \/ Poll

Spec == Init /\ [][Next]_vars

-----------------------------------------------------------------------------
(* Properties *)

\* The collector is a meter of TCP calls, counts that went astray included.
CallMeter == INSTANCE Meter WITH
  Keys <- Tgids,
  done <- [t \in Tgids |-> called[t] + astray[t]],
  told <- reported

\* No process group is ever credited with more than it did, over all polls,
\* but for counts that reached its entry through a stale pointer: reading,
\* deleting and creating entries never counts anything twice.
MetersCalls == CallMeter!Spec

\* What is neither in the map nor read for a snapshot.
InMap(t) ==
  IF t \in DOMAIN table /\ t \notin reading THEN SumOf(table[t]) ELSE 0

\* Counts added to an entry between its read and its deletion.
InGap(t) == IF t \in reading THEN SumOf(table[t]) - perTgid[t] ELSE 0

\* Every count is on its way, in the map, read, reported or lost for one of
\* the four known reasons; there is no fifth.
EveryCallAccounted ==
  SumFunction(called)
    = Cardinality(DOMAIN prog)
      + SumFunction([t \in Tgids |-> InMap(t) + InGap(t)])
      + SumFunction([t \in Tgids |-> At(perTgid, t, 0) + reported[t]])
      + SumFunction(lost)

=============================================================================
