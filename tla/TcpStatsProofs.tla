---------------------------- MODULE TcpStatsProofs ----------------------------
(* The ledger of TCP calls, for any number of process groups, CPUs and elements.*)
EXTENDS TcpStats, LedgerLemmas

-----------------------------------------------------------------------------
(* Types.  That a loss is never negative depends on the elements: an entry has  *)
(* one of its own, and keeps it and its counts from its read to its deletion.   *)

ElemInv ==
  /\ IsInjective(table)
  /\ reading \subseteq DOMAIN table \cap DOMAIN perTgid
  /\ \A t, u \in reading : t = u
  /\ \A t \in reading : perTgid[t] <= SumOf(table[t])

TInv == TypeOK /\ ElemInv

LEMMA SumOfIsNat ==
  ASSUME NEW c \in [Elems -> [Cpus -> Nat]], NEW e \in Elems
  PROVE  SumFunction(c[e]) \in Nat
BY FunSumIsNat, TcpAssumption

LEMMA TypeInit == Init => TInv
<1> SUFFICES ASSUME Init PROVE TInv
  OBVIOUS
<1>1. MaxVisits \in Nat
  BY FS_CardinalityType, TcpAssumption DEF MaxVisits
<1>2. TypeOK
  <2>1. IsMap(table, Tgids, Elems) /\ IsMap(prog, Cpus, Probes) /\ IsMap(perTgid, Tgids, Nat)
    BY EmptyIsMap, Zenon DEF Init
  <2>2. visits \in 0 .. MaxVisits + 1
    BY <1>1 DEF Init
  <2>3. count \in [Elems -> [Cpus -> Nat]]
    BY DEF Init, Zeros
  <2> QED  BY <2>1, <2>2, <2>3 DEF Init, TypeOK
<1>3. ElemInv
  BY DEF Init, ElemInv, EmptyMap, IsInjective
<1> QED  BY <1>2, <1>3 DEF TInv

LEMMA LoseType ==
  ASSUME lost \in [Reasons -> Nat], NEW r \in Reasons, NEW n \in Nat, Lose(r, n)
  PROVE  lost' \in [Reasons -> Nat]
BY DEF Lose

\* A probe adds to an element: no count goes down.
LEMMA AddGrows ==
  ASSUME TypeOK, NEW p \in Cpus, Add(p)
  PROVE  /\ count' \in [Elems -> [Cpus -> Nat]]
         /\ \A e \in Elems : SumFunction(count'[e])
                               = SumOf(e) + (IF e = prog[p].elem THEN 1 ELSE 0)
<1> DEFINE f == prog[p].elem
<1>1. f \in Elems /\ count' = [count EXCEPT ![f][p] = @ + 1]
  BY DEF TypeOK, Add, IsMap, Probes
<1>2. count' \in [Elems -> [Cpus -> Nat]]
  BY <1>1 DEF TypeOK
<1>3. ASSUME NEW e \in Elems
      PROVE  SumFunction(count'[e]) = SumOf(e) + (IF e = f THEN 1 ELSE 0)
  <2>1. CASE e = f
    <3>1. /\ count[f] \in [Cpus -> Int] /\ count'[f] \in [Cpus -> Int]
          /\ \A x \in Cpus : x # p => count'[f][x] = count[f][x]
          /\ count'[f][p] = count[f][p] + 1 /\ count[f][p] \in Nat
      BY <1>1, <1>2 DEF TypeOK
    <3>2. SumFunction(count'[f]) = SumFunction(count[f]) - count[f][p] + count'[f][p]
      BY <3>1, FunSumChanges, TcpAssumption
    <3>3. SumFunction(count[f]) \in Nat
      BY <1>1, SumOfIsNat DEF TypeOK
    <3> QED  BY <2>1, <3>1, <3>2, <3>3 DEF SumOf
  <2>2. CASE e # f
    <3>1. count'[e] = count[e] /\ SumFunction(count[e]) \in Nat
      BY <1>1, <2>2, SumOfIsNat DEF TypeOK
    <3> QED  BY <2>2, <3>1 DEF SumOf
  <2> QED  BY <2>1, <2>2
<1> QED  BY <1>2, <1>3

LEMMA TypeAdd ==
  ASSUME TInv, NEW p \in Cpus, Add(p)
  PROVE  TInv'
<1> USE DEF TInv
<1>1. TypeOK'
  <2>1. lost' \in [Reasons -> Nat]
    BY LoseType DEF TypeOK, Add, Reasons
  <2>2. IsMap(prog', Cpus, Probes)
    BY DropIsMap DEF TypeOK, Add
  <2>3. astray' \in [Tgids -> Nat]
    BY DEF TypeOK, Add
  <2> QED  BY <2>1, <2>2, <2>3, AddGrows DEF TypeOK, Add, pollVars
<1>2. ElemInv'
  <2>1. UNCHANGED <<table, reading, perTgid>>
    BY DEF Add, pollVars
  <2>2. ASSUME NEW t \in reading PROVE perTgid[t] <= SumFunction(count'[table[t]])
    <3>1. /\ table[t] \in Elems /\ perTgid[t] \in Nat /\ perTgid[t] <= SumOf(table[t])
          /\ SumOf(table[t]) \in Nat
      BY SumOfIsNat DEF TypeOK, ElemInv, IsMap, SumOf
    <3> QED  BY <3>1, AddGrows
  <2> QED  BY <2>1, <2>2 DEF ElemInv, SumOf
<1> QED  BY <1>1, <1>2

\* What a new entry does to the table and to the counters.
Creates(p, t, e) ==
  /\ t \notin DOMAIN table /\ e \in Free
  /\ table' = Put(table, t, e)
  /\ count' = [count EXCEPT ![e] = NewCount(e, p)]
  /\ UNCHANGED lost

LEMMA CreateGives ==
  ASSUME TypeOK, NEW p \in Cpus, NEW t \in Tgids, NEW e \in Elems, Creates(p, t, e)
  PROVE  /\ IsMap(table', Tgids, Elems)
         /\ count' \in [Elems -> [Cpus -> Nat]]
         /\ SumFunction(count'[e]) = 1
         /\ \A f \in Elems : f # e => count'[f] = count[f]
         /\ \A u \in DOMAIN table : table'[u] = table[u] /\ table[u] # e
<1>1. Fresh(p) \in [Cpus -> Nat] /\ Fresh(p)[p] = 1 /\ \A x \in Cpus : x # p => Fresh(p)[x] = 0
  BY DEF Fresh, Zeros
<1>2. SumFunction(Fresh(p)) = 1
  <2>1. Zeros \in [Cpus -> Int] /\ Fresh(p) \in [Cpus -> Int] /\ Zeros[p] = 0
        /\ \A x \in Cpus : x # p => Fresh(p)[x] = Zeros[x]
    BY <1>1 DEF Zeros
  <2>2. SumFunction(Zeros) = 0
    BY FunSumOfZeros, TcpAssumption DEF Zeros
  <2>3. SumFunction(Fresh(p)) = SumFunction(Zeros) - Zeros[p] + Fresh(p)[p]
    BY <2>1, FunSumChanges, TcpAssumption
  <2> QED  BY <1>1, <2>1, <2>2, <2>3
<1>3. IsMap(table', Tgids, Elems)
  BY PutIsMap DEF TypeOK, Creates
<1>4. \A u \in DOMAIN table : table'[u] = table[u] /\ table[u] # e
  BY DEF Creates, Put, Free, Linked, Range
<1> QED  BY <1>1, <1>2, <1>3, <1>4 DEF TypeOK, Creates, NewCount

LEMMA TypeCreate ==
  ASSUME TInv, NEW p \in Cpus, Create(p)
  PROVE  TInv'
<1> USE DEF TInv
<1> DEFINE t == prog[p].tgid
<1>1. t \in Tgids /\ IsMap(prog', Cpus, Probes)
  <2>1. t \in Tgids
    BY DEF TypeOK, Create, IsMap, Probes
  <2>2. IsMap(prog', Cpus, Probes)
    BY DropIsMap DEF TypeOK, Create
  <2> QED  BY <2>1, <2>2
<1>2. UNCHANGED <<pollVars, called, astray>>
  BY DEF Create
<1>3. CASE UNCHANGED <<table, count>> /\ \E r \in {"exists", "full"} : Lose(r, 1)
  <2>1. lost' \in [Reasons -> Nat]
    BY <1>3, LoseType DEF TypeOK, Reasons
  <2> QED  BY <1>1, <1>2, <1>3, <2>1 DEF TypeOK, ElemInv, pollVars, SumOf
<1>4. ASSUME NEW e \in Elems, Creates(p, t, e) PROVE TInv'
  <2>1. TypeOK'
    BY <1>1, <1>2, <1>4, CreateGives DEF TypeOK, pollVars, Creates
  <2>2. ElemInv'
    <3>1. DOMAIN table' = DOMAIN table \cup {t} /\ table'[t] = e
      BY <1>4 DEF Creates, Put
    <3>2. IsInjective(table')
      BY <1>1, <1>4, <3>1, CreateGives DEF ElemInv, IsInjective
    <3>3. \A u \in reading : table'[u] = table[u] /\ count'[table[u]] = count[table[u]]
      BY <1>1, <1>4, CreateGives DEF ElemInv, TypeOK, IsMap
    <3> QED  BY <1>2, <3>1, <3>2, <3>3 DEF ElemInv, pollVars, SumOf
  <2> QED  BY <2>1, <2>2
<1> QED  BY <1>1, <1>3, <1>4 DEF Create, Creates, Free

LEMMA TypePollRead ==
  ASSUME TInv, NEW t \in Tgids, PollRead(t)
  PROVE  TInv' /\ t \in DOMAIN table /\ SumOf(table[t]) \in Nat
<1> USE DEF TInv
<1>1. t \in DOMAIN table /\ table[t] \in Elems
  BY DEF TypeOK, PollRead, Candidates, IsMap
<1>2. SumOf(table[t]) \in Nat
  BY <1>1, SumOfIsNat DEF TypeOK, SumOf
<1>3. TypeOK'
  <2>1. IsMap(perTgid', Tgids, Nat)
    BY <1>2, PutIsMap DEF TypeOK, PollRead
  <2>2. lost' \in [Reasons -> Nat]
    BY AtInRange, LoseType DEF TypeOK, PollRead, Reasons
  <2>3. visits' \in 0 .. MaxVisits + 1
    BY FS_CardinalityType, TcpAssumption DEF TypeOK, PollRead, MayVisit, MaxVisits
  <2> QED  BY <2>1, <2>2, <2>3 DEF TypeOK, PollRead
<1>4. ElemInv'
  <2>1. /\ UNCHANGED <<table, count>> /\ reading' = {t}
        /\ perTgid' = Put(perTgid, t, SumOf(table[t]))
    BY DEF PollRead
  <2>2. t \in DOMAIN perTgid' /\ perTgid'[t] = SumOf(table[t])
    BY <2>1 DEF Put
  <2> QED  BY <1>1, <1>2, <2>1, <2>2 DEF ElemInv, SumOf
<1> QED  BY <1>1, <1>2, <1>3, <1>4

LEMMA TypePollDelete ==
  ASSUME TInv, NEW t \in Tgids, PollDelete(t)
  PROVE  TInv' /\ SumOf(table[t]) - perTgid[t] \in Nat
<1> USE DEF TInv
<1>1. /\ t \in DOMAIN table \cap DOMAIN perTgid /\ table[t] \in Elems /\ perTgid[t] \in Nat
      /\ perTgid[t] <= SumOf(table[t])
  BY DEF TypeOK, PollDelete, ElemInv, IsMap
<1>2. SumOf(table[t]) - perTgid[t] \in Nat
  <2>1. SumOf(table[t]) \in Nat
    BY <1>1, SumOfIsNat DEF TypeOK, SumOf
  <2> QED  BY <1>1, <2>1
<1>3. TypeOK'
  <2>1. IsMap(table', Tgids, Elems)
    BY DropIsMap DEF TypeOK, PollDelete, AfterDelete
  <2>2. lost' \in [Reasons -> Nat]
    BY <1>2, LoseType DEF TypeOK, PollDelete, Reasons
  <2> QED  BY <2>1, <2>2 DEF TypeOK, PollDelete
<1>4. ElemInv'
  BY DEF ElemInv, PollDelete, AfterDelete, Drop, IsInjective
<1> QED  BY <1>2, <1>3, <1>4

LEMMA TypeStep == TInv /\ [Next]_vars => TInv'
<1> SUFFICES ASSUME TInv, [Next]_vars PROVE TInv'
  OBVIOUS
<1>1. ASSUME NEW p \in Cpus, NEW t \in Tgids, Call(p, t) PROVE TInv'
  <2>1. IsMap(prog', Cpus, Probes)
    <3>1. [tgid |-> t, elem |-> At(table, t, Miss)] \in Probes
      BY DEF TInv, TypeOK, IsMap, At, Probes
    <3> QED  BY <1>1, <3>1, PutIsMap DEF TInv, TypeOK, Call
  <2>2. called' \in [Tgids -> Nat]
    BY <1>1 DEF TInv, TypeOK, Call
  <2> QED  BY <1>1, <2>1, <2>2 DEF TInv, TypeOK, ElemInv, Call, pollVars, SumOf
<1>2. CASE PollStart
  BY <1>2 DEF TInv, TypeOK, ElemInv, PollStart, SumOf
<1>3. CASE PollEnd
  <2>1. reported' \in [Tgids -> Nat]
    BY <1>3, AtInRange DEF TInv, TypeOK, PollEnd
  <2>2. IsMap(perTgid', Tgids, Nat) /\ visits' \in 0 .. MaxVisits + 1
    BY <1>3, EmptyIsMap, FS_CardinalityType, TcpAssumption DEF PollEnd, MaxVisits
  <2> QED  BY <1>3, <2>1, <2>2 DEF TInv, TypeOK, ElemInv, PollEnd, SumOf
<1>4. CASE UNCHANGED vars
  BY <1>4 DEF TInv, TypeOK, ElemInv, vars, pollVars, SumOf
<1> QED
  BY <1>1, <1>2, <1>3, <1>4, TypeAdd, TypeCreate, TypePollRead, TypePollDelete
     DEF Next, Probe, Poll

\* Every variable keeps its type: a loss is never negative, and the iterator stops.
THEOREM TypeCorrect == Spec => []TypeOK
<1>1. Spec => []TInv
  BY TypeInit, TypeStep, PTL DEF Spec
<1>2. TInv => TypeOK
  BY DEF TInv
<1> QED  BY <1>1, <1>2, PTL

-----------------------------------------------------------------------------
(* The ledger.  Each step moves counts of one process group at most: what waits *)
(* in its entry, and what was got from it for a row. *)

Wait(t) == InMap(t) + InGap(t)
Got(t) == At(perTgid, t, 0) + reported[t]

LEMMA LedgerTypes ==
  TInv => \A t \in Tgids : Wait(t) \in Nat /\ Got(t) \in Nat /\ At(perTgid, t, 0) \in Nat
<1> SUFFICES ASSUME TInv, NEW t \in Tgids
             PROVE  Wait(t) \in Nat /\ Got(t) \in Nat /\ At(perTgid, t, 0) \in Nat
  OBVIOUS
<1> USE DEF TInv
<1>1. At(perTgid, t, 0) \in Nat /\ reported[t] \in Nat
  BY AtInRange DEF TypeOK
<1>2. t \in DOMAIN table => SumOf(table[t]) \in Nat
  BY SumOfIsNat DEF TypeOK, IsMap, SumOf
<1>3. t \in reading => t \in DOMAIN table /\ perTgid[t] \in Nat /\ perTgid[t] <= SumOf(table[t])
  BY DEF TypeOK, ElemInv, IsMap
<1>4. Wait(t) \in Nat
  BY <1>2, <1>3 DEF Wait, InMap, InGap
<1> QED  BY <1>1, <1>4 DEF Got

LEMMA LedgerTypesNext == TInv' => \A t \in Tgids : Wait(t)' \in Nat /\ Got(t)' \in Nat
<1>1. (TInv => \A t \in Tgids : Wait(t) \in Nat /\ Got(t) \in Nat)'
  <2>1. TInv => \A t \in Tgids : Wait(t) \in Nat /\ Got(t) \in Nat
    BY LedgerTypes
  <2> QED  BY <2>1, PTL
<1> QED  BY <1>1

LEMMA AddMoves ==
  ASSUME TInv, NEW p \in Cpus, Add(p)
  PROVE  /\ \A t \in Tgids :
              Wait(t)' = Wait(t) + (IF t \in DOMAIN table /\ table[t] = prog[p].elem
                                    THEN 1 ELSE 0)
         /\ \A t \in Tgids : Got(t)' = Got(t)
<1>1. UNCHANGED <<table, reading, perTgid, reported>>
  BY DEF Add, pollVars
<1>2. ASSUME NEW t \in Tgids
      PROVE  Wait(t)' = Wait(t) + (IF t \in DOMAIN table /\ table[t] = prog[p].elem
                                   THEN 1 ELSE 0)
  <2>1. CASE t \notin DOMAIN table
    BY <1>1, <2>1 DEF Wait, InMap, InGap, TInv, ElemInv
  <2>2. CASE t \in DOMAIN table
    <3>1. table[t] \in Elems /\ SumOf(table[t]) \in Nat
      BY <2>2, SumOfIsNat DEF TInv, TypeOK, IsMap, SumOf
    <3>2. SumOf(table[t])' = SumOf(table[t]) + (IF table[t] = prog[p].elem THEN 1 ELSE 0)
      BY <1>1, <3>1, AddGrows DEF SumOf, TInv
    <3>3. t \in reading => perTgid[t] \in Nat
      BY DEF TInv, TypeOK, ElemInv, IsMap
    <3> QED  BY <1>1, <2>2, <3>1, <3>2, <3>3 DEF Wait, InMap, InGap
  <2> QED  BY <2>1, <2>2
<1> QED  BY <1>1, <1>2 DEF Got

LEMMA CreateMoves ==
  ASSUME TInv, NEW p \in Cpus, NEW t \in Tgids, NEW e \in Elems, Creates(p, t, e),
         UNCHANGED pollVars
  PROVE  /\ \A u \in Tgids : Wait(u)' = Wait(u) + (IF u = t THEN 1 ELSE 0)
         /\ \A u \in Tgids : Got(u)' = Got(u)
<1>1. UNCHANGED <<reading, perTgid, reported>>
  BY DEF pollVars
<1>2. DOMAIN table' = DOMAIN table \cup {t} /\ table'[t] = e /\ t \notin DOMAIN table
  BY DEF Creates, Put
<1>3. t \notin reading
  BY <1>2 DEF TInv, ElemInv
<1>4. Wait(t)' = 1 /\ Wait(t) = 0
  BY <1>1, <1>2, <1>3, CreateGives DEF TInv, Wait, InMap, InGap, SumOf
<1>5. ASSUME NEW u \in Tgids, u # t PROVE Wait(u)' = Wait(u)
  <2>1. CASE u \notin DOMAIN table
    BY <1>1, <1>2, <1>5, <2>1 DEF Wait, InMap, InGap, TInv, ElemInv
  <2>2. CASE u \in DOMAIN table
    <3>1. table'[u] = table[u] /\ count'[table[u]] = count[table[u]]
      BY <2>2, CreateGives DEF TInv, TypeOK, IsMap
    <3> QED  BY <1>1, <1>2, <2>2, <3>1 DEF Wait, InMap, InGap, SumOf
  <2> QED  BY <2>1, <2>2
<1>6. \A u \in Tgids : Wait(u) \in Nat
  BY LedgerTypes
<1> QED  BY <1>1, <1>4, <1>5, <1>6 DEF Got

LEMMA ReadMoves ==
  ASSUME TInv, NEW t \in Tgids, PollRead(t)
  PROVE  /\ Wait(t) = SumOf(table[t]) /\ Wait(t)' = 0
         /\ Got(t)' = Wait(t) + reported[t]
         /\ \A u \in Tgids : u # t => Wait(u)' = Wait(u) /\ Got(u)' = Got(u)
<1>1. /\ UNCHANGED <<table, count, reported>> /\ reading = {} /\ reading' = {t}
      /\ perTgid' = Put(perTgid, t, SumOf(table[t]))
  BY DEF PollRead
<1>2. t \in DOMAIN table /\ SumOf(table[t]) \in Nat
  BY TypePollRead
<1>3. /\ t \in DOMAIN perTgid' /\ perTgid'[t] = SumOf(table[t])
      /\ \A u : u # t => /\ u \in DOMAIN perTgid' <=> u \in DOMAIN perTgid
                         /\ u \in DOMAIN perTgid => perTgid'[u] = perTgid[u]
  BY <1>1 DEF Put
<1>4. Wait(t) = SumOf(table[t]) /\ Wait(t)' = 0
  BY <1>1, <1>2, <1>3 DEF Wait, InMap, InGap, SumOf
<1>5. Got(t)' = Wait(t) + reported[t]
  BY <1>1, <1>3, <1>4 DEF Got, At
<1>6. ASSUME NEW u \in Tgids, u # t PROVE Wait(u)' = Wait(u) /\ Got(u)' = Got(u)
  BY <1>1, <1>3, <1>6 DEF Wait, InMap, InGap, SumOf, Got, At
<1> QED  BY <1>4, <1>5, <1>6

LEMMA DeleteMoves ==
  ASSUME TInv, NEW t \in Tgids, PollDelete(t)
  PROVE  /\ Wait(t) = SumOf(table[t]) - perTgid[t] /\ Wait(t)' = 0
         /\ \A u \in Tgids : u # t => Wait(u)' = Wait(u)
         /\ \A u \in Tgids : Got(u)' = Got(u)
<1>1. /\ UNCHANGED <<count, perTgid, reported>> /\ t \in reading /\ reading' = {}
      /\ table' = Drop(table, {t})
  BY DEF PollDelete, AfterDelete
<1>2. /\ t \notin DOMAIN table'
      /\ \A u : u # t => /\ u \in DOMAIN table' <=> u \in DOMAIN table
                         /\ u \in DOMAIN table => table'[u] = table[u]
  BY <1>1 DEF Drop
<1>3. SumOf(table[t]) - perTgid[t] \in Nat
  BY TypePollDelete
<1>4. Wait(t) = SumOf(table[t]) - perTgid[t] /\ Wait(t)' = 0
  BY <1>1, <1>2, <1>3 DEF Wait, InMap, InGap
<1>5. ASSUME NEW u \in Tgids, u # t PROVE Wait(u)' = Wait(u)
  <2>1. u \notin reading
    BY <1>1, <1>5 DEF TInv, ElemInv
  <2> QED  BY <1>1, <1>2, <1>5, <2>1 DEF Wait, InMap, InGap, SumOf
<1> QED  BY <1>1, <1>4, <1>5 DEF Got

LEMMA EndMoves ==
  ASSUME TInv, PollEnd
  PROVE  \A u \in Tgids : Wait(u)' = Wait(u) /\ Got(u)' = Got(u)
<1> SUFFICES ASSUME NEW u \in Tgids PROVE Wait(u)' = Wait(u) /\ Got(u)' = Got(u)
  OBVIOUS
<1>1. At(perTgid, u, 0) \in Nat /\ reported[u] \in Nat
  BY LedgerTypes DEF TInv, TypeOK
<1>2. Wait(u)' = Wait(u)
  BY DEF PollEnd, Wait, InMap, InGap, SumOf
<1>3. Got(u)' = Got(u)
  BY <1>1 DEF PollEnd, Got, At, EmptyMap
<1> QED  BY <1>2, <1>3

-----------------------------------------------------------------------------
(* Every count is accounted for. *)

Waits == [t \in Tgids |-> Wait(t)]
Gots == [t \in Tgids |-> Got(t)]

Accounted ==
  SumFunction(called) = Cardinality(DOMAIN prog) + SumFunction(Waits)
                        + SumFunction(Gots) + SumFunction(lost)

AccountInv == TInv /\ Accounted

LEMMA AccountedSums == Accounted => EveryCallAccounted
BY DEF EveryCallAccounted, Accounted, Waits, Gots, Wait, Got

LEMMA ReasonsFinite == IsFiniteSet(Reasons)
<1>1. IsFiniteSet({"exists"} \cup {"full"}) /\ IsFiniteSet({"deleted"} \cup {"replaced"})
  BY FS_Singleton, FS_AddElement
<1>2. Reasons = ({"exists"} \cup {"full"}) \cup ({"deleted"} \cup {"replaced"})
  BY DEF Reasons
<1> QED  BY <1>1, <1>2, FS_Union

SumsAreNat ==
  /\ SumFunction(called) \in Nat /\ Cardinality(DOMAIN prog) \in Nat
  /\ SumFunction(Waits) \in Nat /\ SumFunction(Gots) \in Nat
  /\ SumFunction(lost) \in Nat
  /\ Waits \in [Tgids -> Nat] /\ Gots \in [Tgids -> Nat]

LEMMA SumTypes == TInv => SumsAreNat
<1> SUFFICES ASSUME TInv PROVE SumsAreNat
  OBVIOUS
<1>1. Waits \in [Tgids -> Nat] /\ Gots \in [Tgids -> Nat]
  BY LedgerTypes DEF Waits, Gots
<1>2. IsFiniteSet(DOMAIN prog)
  BY FS_Subset, TcpAssumption DEF TInv, TypeOK, IsMap
<1> QED
  BY <1>1, <1>2, ReasonsFinite, FunSumIsNat, FS_CardinalityType, TcpAssumption
     DEF TInv, TypeOK, SumsAreNat

\* One reason is charged with n counts.
LEMMA LoseMoves ==
  ASSUME TInv, NEW r \in Reasons, NEW n \in Nat, Lose(r, n)
  PROVE  SumFunction(lost') = SumFunction(lost) + n
<1>1. IsFiniteSet(Reasons)
  BY ReasonsFinite
<1>2. /\ lost \in [Reasons -> Int] /\ lost' \in [Reasons -> Int]
      /\ \A x \in Reasons : x # r => lost'[x] = lost[x]
      /\ lost'[r] = lost[r] + n /\ lost[r] \in Nat
  BY DEF TInv, TypeOK, Lose
<1>3. SumFunction(lost') = SumFunction(lost) - lost[r] + lost'[r]
  BY <1>1, <1>2, FunSumChanges
<1> QED  BY <1>2, <1>3, SumTypes DEF SumsAreNat

\* One process group's part of a sum changes.
LEMMA PartMoves ==
  ASSUME NEW f \in [Tgids -> Nat], NEW e \in [Tgids -> Nat], NEW t \in Tgids,
         \A u \in Tgids : u # t => e[u] = f[u]
  PROVE  SumFunction(e) = SumFunction(f) - f[t] + e[t]
<1>1. /\ DOMAIN f = Tgids /\ DOMAIN e = Tgids
      /\ \A u \in Tgids : f[u] \in Int /\ e[u] \in Int
      /\ \A u \in Tgids \ {t} : e[u] = f[u]
  OBVIOUS
<1>2. IsFiniteSet(Tgids)
  BY TcpAssumption
<1> QED  BY <1>1, <1>2, SumChanges DEF SumFunction

LEMMA SumTypesNext == (TInv => SumsAreNat)'
BY SumTypes, PTL

LEMMA AccountInit == Init => AccountInv
<1> SUFFICES ASSUME Init PROVE AccountInv
  OBVIOUS
<1>1. TInv
  BY TypeInit
<1>2. \A t \in Tgids : Wait(t) = 0 /\ Got(t) = 0
  BY DEF Init, Wait, Got, InMap, InGap, At, EmptyMap
<1>3. /\ SumFunction(called) = 0 /\ SumFunction(Waits) = 0 /\ SumFunction(Gots) = 0
      /\ SumFunction(lost) = 0
  BY <1>2, FunSumOfZeros, ReasonsFinite, TcpAssumption DEF Init, Waits, Gots
<1>4. Cardinality(DOMAIN prog) = 0
  BY FS_EmptySet DEF Init, EmptyMap
<1> QED  BY <1>1, <1>3, <1>4 DEF AccountInv, Accounted

LEMMA AccountCall ==
  ASSUME AccountInv, NEW p \in Cpus, NEW t \in Tgids, Call(p, t), TInv'
  PROVE  Accounted'
<1>1. Waits' = Waits /\ Gots' = Gots /\ lost' = lost
  BY DEF Call, pollVars, Waits, Gots, Wait, Got, InMap, InGap, SumOf
<1>2. SumFunction(called') = SumFunction(called) + 1
  <2>1. /\ called \in [Tgids -> Nat] /\ called' \in [Tgids -> Nat]
        /\ called[t] \in Nat /\ called'[t] = called[t] + 1
        /\ \A u \in Tgids : u # t => called'[u] = called[u]
    BY DEF AccountInv, TInv, TypeOK, Call
  <2>2. SumFunction(called') = SumFunction(called) - called[t] + called'[t]
    BY <2>1, PartMoves
  <2> QED  BY <2>1, <2>2, SumTypes DEF AccountInv, SumsAreNat
<1>3. Cardinality(DOMAIN prog') = Cardinality(DOMAIN prog) + 1
  <2>1. p \notin DOMAIN prog /\ DOMAIN prog \subseteq Cpus
    BY DEF AccountInv, TInv, TypeOK, IsMap, Call
  <2> QED  BY <2>1, MapSize, TcpAssumption DEF Call
<1> QED  BY <1>1, <1>2, <1>3, SumTypes DEF AccountInv, Accounted, SumsAreNat

LEMMA ProbeLeaves ==
  ASSUME TInv, NEW p \in DOMAIN prog, prog' = Drop(prog, {p})
  PROVE  Cardinality(DOMAIN prog') = Cardinality(DOMAIN prog) - 1
<1>1. p \in Cpus /\ DOMAIN prog \subseteq Cpus
  BY DEF TInv, TypeOK, IsMap
<1> QED  BY <1>1, MapSize, TcpAssumption

LEMMA AccountAdd ==
  ASSUME AccountInv, NEW p \in Cpus, Add(p), TInv'
  PROVE  Accounted'
<1> USE DEF AccountInv
<1> DEFINE e == prog[p].elem
<1>1. /\ SumFunction(called') = SumFunction(called)
      /\ Cardinality(DOMAIN prog') = Cardinality(DOMAIN prog) - 1
  BY ProbeLeaves DEF Add
<1>2. Gots' = Gots
  BY AddMoves DEF Gots
<1>3. CASE Linked(e)
  <2>1. PICK t \in DOMAIN table : table[t] = e
    BY <1>3 DEF Linked, Range
  <2>2. t \in Tgids /\ \A u \in Tgids : u \in DOMAIN table /\ table[u] = e <=> u = t
    BY <2>1 DEF TInv, TypeOK, IsMap, ElemInv, IsInjective
  <2>3. /\ Waits \in [Tgids -> Nat] /\ Waits' \in [Tgids -> Nat]
        /\ \A u \in Tgids : u # t => Waits'[u] = Waits[u]
        /\ Waits'[t] = Waits[t] + 1 /\ Waits[t] \in Nat
    BY <2>2, AddMoves, LedgerTypes, SumTypes, SumTypesNext DEF Waits, SumsAreNat
  <2>4. SumFunction(Waits') = SumFunction(Waits) - Waits[t] + Waits'[t]
    BY <2>2, <2>3, PartMoves
  <2>5. lost' = lost
    BY <1>3 DEF Add
  <2> QED
    BY <1>1, <1>2, <2>3, <2>4, <2>5, SumTypes DEF Accounted, SumsAreNat
<1>4. CASE ~Linked(e)
  <2>1. \A u \in Tgids : ~(u \in DOMAIN table /\ table[u] = e)
    BY <1>4 DEF Linked, Range
  <2>2. Waits' = Waits
    BY <2>1, AddMoves, LedgerTypes DEF Waits
  <2>3. SumFunction(lost') = SumFunction(lost) + 1
    BY <1>4, LoseMoves DEF Add, Reasons
  <2> QED  BY <1>1, <1>2, <2>2, <2>3, SumTypes DEF Accounted, SumsAreNat
<1> QED  BY <1>3, <1>4

LEMMA AccountCreate ==
  ASSUME AccountInv, NEW p \in Cpus, Create(p), TInv'
  PROVE  Accounted'
<1> USE DEF AccountInv
<1> DEFINE t == prog[p].tgid
<1>1. /\ SumFunction(called') = SumFunction(called)
      /\ Cardinality(DOMAIN prog') = Cardinality(DOMAIN prog) - 1
  BY ProbeLeaves DEF Create
<1>2. t \in Tgids /\ UNCHANGED pollVars
  BY DEF TInv, TypeOK, Create, IsMap, Probes
<1>3. CASE UNCHANGED <<table, count>> /\ \E r \in {"exists", "full"} : Lose(r, 1)
  <2>1. SumFunction(lost') = SumFunction(lost) + 1
    BY <1>3, LoseMoves DEF Reasons
  <2>2. Waits' = Waits /\ Gots' = Gots
    BY <1>2, <1>3 DEF pollVars, Waits, Gots, Wait, Got, InMap, InGap, SumOf
  <2> QED  BY <1>1, <2>1, <2>2, SumTypes DEF Accounted, SumsAreNat
<1>4. ASSUME NEW e \in Elems, Creates(p, t, e) PROVE Accounted'
  <2>1. /\ \A u \in Tgids : Wait(u)' = Wait(u) + (IF u = t THEN 1 ELSE 0)
        /\ \A u \in Tgids : Got(u)' = Got(u)
    BY <1>2, <1>4, CreateMoves
  <2>2. Gots' = Gots
    BY <2>1 DEF Gots
  <2>3. /\ Waits \in [Tgids -> Nat] /\ Waits' \in [Tgids -> Nat]
        /\ \A u \in Tgids : u # t => Waits'[u] = Waits[u]
        /\ Waits'[t] = Waits[t] + 1 /\ Waits[t] \in Nat
    BY <1>2, <2>1, LedgerTypes, SumTypes, SumTypesNext DEF Waits, SumsAreNat
  <2>4. SumFunction(Waits') = SumFunction(Waits) - Waits[t] + Waits'[t]
    BY <1>2, <2>3, PartMoves
  <2>5. lost' = lost
    BY <1>4 DEF Creates
  <2> QED
    BY <1>1, <2>2, <2>3, <2>4, <2>5, SumTypes DEF Accounted, SumsAreNat
<1> QED  BY <1>3, <1>4 DEF Create, Creates, Free

LEMMA AccountRead ==
  ASSUME AccountInv, NEW t \in Tgids, PollRead(t), TInv'
  PROVE  Accounted'
<1> USE DEF AccountInv
<1> DEFINE old == At(perTgid, t, 0)
<1>1. UNCHANGED <<called, prog>>
  BY DEF PollRead
<1>2. /\ Wait(t)' = 0 /\ Got(t)' = Wait(t) + reported[t]
      /\ \A u \in Tgids : u # t => Wait(u)' = Wait(u) /\ Got(u)' = Got(u)
  BY ReadMoves
<1>3. /\ Waits \in [Tgids -> Nat] /\ Waits' \in [Tgids -> Nat]
      /\ Gots \in [Tgids -> Nat] /\ Gots' \in [Tgids -> Nat]
      /\ \A u \in Tgids : u # t => Waits'[u] = Waits[u] /\ Gots'[u] = Gots[u]
  BY <1>2, SumTypes, SumTypesNext DEF Waits, Gots, SumsAreNat
<1>4. /\ Waits[t] \in Nat /\ Waits'[t] = 0
      /\ Gots[t] = old + reported[t] /\ Gots'[t] = Waits[t] + reported[t]
      /\ old \in Nat /\ reported[t] \in Nat
  BY <1>2, LedgerTypes DEF Waits, Gots, Got, TInv, TypeOK
<1>5. SumFunction(Waits') = SumFunction(Waits) - Waits[t] + Waits'[t]
  BY <1>3, PartMoves
<1>6. SumFunction(Gots') = SumFunction(Gots) - Gots[t] + Gots'[t]
  BY <1>3, PartMoves
<1>7. SumFunction(lost') = SumFunction(lost) + old
  BY <1>4, LoseMoves DEF PollRead, Reasons
<1> HIDE DEF old
<1> QED  BY <1>1, <1>4, <1>5, <1>6, <1>7, SumTypes DEF Accounted, SumsAreNat

LEMMA AccountDelete ==
  ASSUME AccountInv, NEW t \in Tgids, PollDelete(t), TInv'
  PROVE  Accounted'
<1> USE DEF AccountInv
<1>1. UNCHANGED <<called, prog>>
  BY DEF PollDelete
<1>2. /\ Wait(t) = SumOf(table[t]) - perTgid[t] /\ Wait(t)' = 0 /\ Wait(t) \in Nat
      /\ \A u \in Tgids : u # t => Wait(u)' = Wait(u)
      /\ \A u \in Tgids : Got(u)' = Got(u)
  BY DeleteMoves, LedgerTypes
<1>3. Gots' = Gots
  BY <1>2 DEF Gots
<1>4. /\ Waits \in [Tgids -> Nat] /\ Waits' \in [Tgids -> Nat]
      /\ \A u \in Tgids : u # t => Waits'[u] = Waits[u]
      /\ Waits'[t] = 0 /\ Waits[t] = Wait(t)
  BY <1>2, SumTypes, SumTypesNext DEF Waits, SumsAreNat
<1>5. SumFunction(Waits') = SumFunction(Waits) - Waits[t] + Waits'[t]
  BY <1>4, PartMoves
<1>6. SumFunction(lost') = SumFunction(lost) + Wait(t)
  BY <1>2, LoseMoves DEF PollDelete, Reasons
<1> QED
  BY <1>1, <1>2, <1>3, <1>4, <1>5, <1>6, SumTypes DEF Accounted, SumsAreNat

LEMMA AccountStep == AccountInv /\ [Next]_vars => AccountInv'
<1> SUFFICES ASSUME AccountInv, [Next]_vars PROVE Accounted'
  BY TypeStep DEF AccountInv
<1>1. TInv'
  BY TypeStep DEF AccountInv
<1>2. CASE PollStart \/ UNCHANGED vars
  BY <1>2 DEF AccountInv, Accounted, PollStart, vars, pollVars, Waits, Gots, Wait, Got,
     InMap, InGap, SumOf
<1>3. CASE PollEnd
  <2>1. Waits' = Waits /\ Gots' = Gots
    BY <1>3, EndMoves DEF AccountInv, Waits, Gots
  <2> QED  BY <1>3, <2>1 DEF AccountInv, Accounted, PollEnd
<1> QED
  BY <1>1, <1>2, <1>3, AccountCall, AccountAdd, AccountCreate, AccountRead, AccountDelete
     DEF Next, Probe, Poll

\* Every count of the probes is under way, in the map, read, reported, or lost for
\* one of the four reasons the code has, whatever interleaving of probes and polls.
THEOREM EveryCountHasAPlace == Spec => []EveryCallAccounted
<1>1. Spec => []AccountInv
  BY AccountInit, AccountStep, PTL DEF Spec
<1>2. AccountInv => EveryCallAccounted
  BY AccountedSums DEF AccountInv
<1> QED  BY <1>1, <1>2, PTL

-----------------------------------------------------------------------------
(* The collector implements Meter.  Here each process group has a ledger of its *)
(* own, in which what is lost may be left out.                                  *)

Going(t) == {p \in DOMAIN prog : prog[p].tgid = t}

OwnLedger ==
  \A t \in Tgids :
    Cardinality(Going(t)) + Wait(t) + Got(t) <= called[t] + astray[t]

OwnInv == TInv /\ OwnLedger

LEMMA GoingSize ==
  TInv => \A t \in Tgids : IsFiniteSet(Going(t)) /\ Cardinality(Going(t)) \in Nat
<1> SUFFICES ASSUME TInv, NEW t \in Tgids
             PROVE  IsFiniteSet(Going(t)) /\ Cardinality(Going(t)) \in Nat
  OBVIOUS
<1>1. Going(t) \in SUBSET Cpus
  BY DEF TInv, TypeOK, IsMap, Going
<1> QED  BY <1>1, FS_Subset, FS_CardinalityType, TcpAssumption

LEMMA GoingSizeNext == TInv' => \A t \in Tgids : Cardinality(Going(t))' \in Nat
<1>1. (TInv => \A t \in Tgids : Cardinality(Going(t)) \in Nat)'
  <2>1. TInv => \A t \in Tgids : Cardinality(Going(t)) \in Nat
    BY GoingSize
  <2> QED  BY <2>1, PTL
<1> QED  BY <1>1

LEMMA OwnInit == Init => OwnInv
<1> SUFFICES ASSUME Init PROVE OwnInv
  OBVIOUS
<1>1. TInv
  BY TypeInit
<1>2. \A t \in Tgids : Wait(t) = 0 /\ Got(t) = 0 /\ Cardinality(Going(t)) = 0
  BY FS_EmptySet DEF Init, Wait, Got, InMap, InGap, At, EmptyMap, Going
<1> QED  BY <1>1, <1>2 DEF OwnInv, OwnLedger, Init

\* A probe that ends was its process group's, and nobody else's.
LEMMA ProbeEnds ==
  ASSUME TInv, NEW p \in DOMAIN prog, prog' = Drop(prog, {p}), NEW t \in Tgids
  PROVE  Cardinality(Going(t)')
           = Cardinality(Going(t)) - (IF t = prog[p].tgid THEN 1 ELSE 0)
<1>1. CASE t = prog[p].tgid
  <2>1. Going(t)' = Going(t) \ {p} /\ p \in Going(t)
    BY <1>1 DEF Going, Drop
  <2> QED  BY <1>1, <2>1, GoingSize, FS_RemoveElement
<1>2. CASE t # prog[p].tgid
  <2>1. Going(t)' = Going(t)
    BY <1>2 DEF Going, Drop
  <2> QED  BY <1>2, <2>1, GoingSize
<1> QED  BY <1>1, <1>2

LEMMA OwnCall ==
  ASSUME OwnInv, NEW p \in Cpus, NEW c \in Tgids, Call(p, c), NEW t \in Tgids
  PROVE  Cardinality(Going(t)') + Wait(t)' + Got(t)' <= called'[t] + astray'[t]
<1>1. Wait(t)' = Wait(t) /\ Got(t)' = Got(t) /\ astray' = astray
  BY DEF Call, pollVars, Wait, Got, InMap, InGap, SumOf
<1>2. called'[t] = called[t] + (IF t = c THEN 1 ELSE 0)
  BY DEF OwnInv, TInv, TypeOK, Call
<1>3. Cardinality(Going(t)') = Cardinality(Going(t)) + (IF t = c THEN 1 ELSE 0)
  <2>1. CASE t = c
    <3>1. Going(t)' = Going(t) \cup {p} /\ p \notin Going(t)
      BY <2>1 DEF Call, Put, Going
    <3> QED  BY <2>1, <3>1, GoingSize, FS_AddElement DEF OwnInv
  <2>2. CASE t # c
    <3>1. Going(t)' = Going(t)
      BY <2>2 DEF Call, Put, Going
    <3> QED  BY <2>2, <3>1, GoingSize DEF OwnInv
  <2> QED  BY <2>1, <2>2
<1>4. /\ Cardinality(Going(t)) + Wait(t) + Got(t) <= called[t] + astray[t]
      /\ Cardinality(Going(t)) \in Nat /\ Wait(t) \in Nat /\ Got(t) \in Nat
      /\ called[t] \in Nat /\ astray[t] \in Nat
  BY GoingSize, LedgerTypes DEF OwnInv, OwnLedger, TInv, TypeOK
<1> QED  BY <1>1, <1>2, <1>3, <1>4

LEMMA OwnAdd ==
  ASSUME OwnInv, NEW p \in Cpus, Add(p), NEW t \in Tgids
  PROVE  Cardinality(Going(t)') + Wait(t)' + Got(t)' <= called'[t] + astray'[t]
<1> DEFINE hit == t \in DOMAIN table /\ table[t] = prog[p].elem
           own == t = prog[p].tgid
<1>1. /\ Wait(t)' = Wait(t) + (IF hit THEN 1 ELSE 0)
      /\ Got(t)' = Got(t)
  BY AddMoves DEF OwnInv
<1>2. called' = called /\ astray'[t] = astray[t] + (IF hit /\ ~own THEN 1 ELSE 0)
  BY DEF OwnInv, TInv, TypeOK, Add
<1>3. Cardinality(Going(t)') = Cardinality(Going(t)) - (IF own THEN 1 ELSE 0)
  BY ProbeEnds DEF OwnInv, Add
<1>4. /\ Cardinality(Going(t)) + Wait(t) + Got(t) <= called[t] + astray[t]
      /\ Cardinality(Going(t)) \in Nat /\ Wait(t) \in Nat /\ Got(t) \in Nat
      /\ called[t] \in Nat /\ astray[t] \in Nat
  BY GoingSize, LedgerTypes DEF OwnInv, OwnLedger, TInv, TypeOK
<1> HIDE DEF hit, own
<1> QED  BY <1>1, <1>2, <1>3, <1>4

LEMMA OwnCreate ==
  ASSUME OwnInv, NEW p \in Cpus, Create(p), NEW t \in Tgids
  PROVE  Cardinality(Going(t)') + Wait(t)' + Got(t)' <= called'[t] + astray'[t]
<1> DEFINE u == prog[p].tgid
<1>1. u \in Tgids /\ UNCHANGED <<pollVars, called, astray>>
  BY DEF OwnInv, TInv, TypeOK, Create, IsMap, Probes
<1>2. Cardinality(Going(t)') = Cardinality(Going(t)) - (IF t = u THEN 1 ELSE 0)
  BY ProbeEnds DEF OwnInv, Create
<1>3. /\ Cardinality(Going(t)) + Wait(t) + Got(t) <= called[t] + astray[t]
      /\ Cardinality(Going(t)) \in Nat /\ Wait(t) \in Nat /\ Got(t) \in Nat
      /\ called[t] \in Nat /\ astray[t] \in Nat
  BY GoingSize, LedgerTypes DEF OwnInv, OwnLedger, TInv, TypeOK
<1>4. Wait(t)' <= Wait(t) + (IF t = u THEN 1 ELSE 0) /\ Wait(t)' \in Nat /\ Got(t)' = Got(t)
  <2>1. CASE UNCHANGED <<table, count>>
    <3>1. Wait(t)' = Wait(t) /\ Got(t)' = Got(t)
      BY <1>1, <2>1 DEF pollVars, Wait, Got, InMap, InGap, SumOf
    <3> QED  BY <1>3, <3>1
  <2>2. ASSUME NEW e \in Elems, Creates(p, u, e)
        PROVE  Wait(t)' = Wait(t) + (IF t = u THEN 1 ELSE 0) /\ Got(t)' = Got(t)
    BY <1>1, <2>2, CreateMoves DEF OwnInv
  <2> QED  BY <1>3, <2>1, <2>2 DEF Create, Creates, Free
<1> HIDE DEF u
<1> QED  BY <1>1, <1>2, <1>3, <1>4

LEMMA OwnPoll ==
  ASSUME OwnInv, NEW c \in Tgids, PollRead(c) \/ PollDelete(c) \/ PollEnd, NEW t \in Tgids
  PROVE  /\ UNCHANGED <<prog, called, astray>>
         /\ Wait(t)' + Got(t)' \in Nat /\ Wait(t)' + Got(t)' <= Wait(t) + Got(t)
<1>1. UNCHANGED <<prog, called, astray>>
  BY DEF PollRead, PollDelete, PollEnd
<1>2. /\ Wait(t) \in Nat /\ Got(t) \in Nat /\ At(perTgid, t, 0) \in Nat
      /\ reported[t] \in Nat /\ Got(t) = At(perTgid, t, 0) + reported[t]
  BY LedgerTypes DEF OwnInv, TInv, TypeOK, Got
<1>3. CASE PollRead(c)
  <2>1. CASE t = c
    <3>1. Wait(t)' = 0 /\ Got(t)' = Wait(t) + reported[t]
      BY <1>3, <2>1, ReadMoves DEF OwnInv
    <3> QED  BY <1>1, <1>2, <3>1
  <2>2. CASE t # c
    <3>1. Wait(t)' = Wait(t) /\ Got(t)' = Got(t)
      BY <1>3, <2>2, ReadMoves DEF OwnInv
    <3> QED  BY <1>1, <1>2, <3>1
  <2> QED  BY <2>1, <2>2
<1>4. CASE PollDelete(c)
  <2>1. (Wait(t)' = 0 \/ Wait(t)' = Wait(t)) /\ Got(t)' = Got(t)
    BY <1>4, DeleteMoves DEF OwnInv
  <2> QED  BY <1>1, <1>2, <2>1
<1>5. CASE PollEnd
  <2>1. Wait(t)' = Wait(t) /\ Got(t)' = Got(t)
    BY <1>5, EndMoves DEF OwnInv
  <2> QED  BY <1>1, <1>2, <2>1
<1> QED  BY <1>3, <1>4, <1>5

LEMMA OwnStep == OwnInv /\ [Next]_vars => OwnInv'
<1> SUFFICES ASSUME OwnInv, [Next]_vars PROVE OwnLedger'
  BY TypeStep DEF OwnInv
<1>1. SUFFICES ASSUME NEW t \in Tgids
      PROVE  (Cardinality(Going(t)) + Wait(t) + Got(t) <= called[t] + astray[t])'
  BY DEF OwnLedger
<1>2. CASE PollStart \/ UNCHANGED vars
  <2>1. /\ Going(t)' = Going(t) /\ Wait(t)' = Wait(t) /\ Got(t)' = Got(t)
        /\ UNCHANGED <<called, astray>>
    BY <1>2 DEF PollStart, vars, pollVars, Going, Wait, Got, InMap, InGap, SumOf
  <2> QED  BY <2>1 DEF OwnInv, OwnLedger
<1>3. ASSUME NEW c \in Tgids, PollRead(c) \/ PollDelete(c) \/ PollEnd
      PROVE  (Cardinality(Going(t)) + Wait(t) + Got(t) <= called[t] + astray[t])'
  <2>1. /\ Cardinality(Going(t)) + Wait(t) + Got(t) <= called[t] + astray[t]
        /\ Cardinality(Going(t)) \in Nat /\ Wait(t) \in Nat /\ Got(t) \in Nat
        /\ called[t] \in Nat /\ astray[t] \in Nat
    BY GoingSize, LedgerTypes DEF OwnInv, OwnLedger, TInv, TypeOK
  <2>2. Wait(t)' \in Nat /\ Got(t)' \in Nat
    BY LedgerTypesNext, TypeStep DEF OwnInv
  <2>3. Going(t)' = Going(t) /\ UNCHANGED <<called, astray>>
    BY <1>3, OwnPoll DEF Going
  <2>4. Wait(t)' + Got(t)' <= Wait(t) + Got(t)
    BY <1>3, OwnPoll
  <2> QED  BY <2>1, <2>2, <2>3, <2>4
<1> QED
  BY <1>2, <1>3, OwnCall, OwnAdd, OwnCreate DEF Next, Probe, Poll

Done == [t \in Tgids |-> called[t] + astray[t]]

LEMMA MeterInit == Init => CallMeter!Init
<1> SUFFICES ASSUME Init PROVE CallMeter!Init
  OBVIOUS
<1>1. Done \in [Tgids -> Nat]
  BY DEF Init, Done
<1> QED  BY <1>1 DEF Init, Done, CallMeter!Init, CallMeter!Amounts

LEMMA MeterStep == OwnInv /\ OwnInv' /\ [Next]_vars => [CallMeter!Next]_(CallMeter!vars)
<1> SUFFICES ASSUME OwnInv, OwnInv', [Next]_vars
             PROVE  [CallMeter!Next]_(CallMeter!vars)
  OBVIOUS
<1>1. /\ called \in [Tgids -> Nat] /\ astray \in [Tgids -> Nat]
      /\ called' \in [Tgids -> Nat] /\ astray' \in [Tgids -> Nat]
      /\ reported' \in [Tgids -> Nat] /\ reported \in [Tgids -> Nat]
  BY DEF OwnInv, TInv, TypeOK
<1>2. Done \in [Tgids -> Nat] /\ Done' \in [Tgids -> Nat]
  BY <1>1 DEF Done
<1>3. ASSUME UNCHANGED reported,
             \A t \in Tgids : called'[t] >= called[t] /\ astray'[t] >= astray[t]
      PROVE  CallMeter!Do
  <2>1. \A t \in Tgids : Done'[t] >= Done[t]
    BY <1>1, <1>3 DEF Done
  <2> QED  BY <1>2, <1>3, <2>1 DEF CallMeter!Do, CallMeter!Amounts, Done
<1>4. ASSUME NEW p \in Cpus, Probe(p) PROVE CallMeter!Do
  <2>1. UNCHANGED reported
    BY <1>4 DEF Probe, Call, Add, Create, pollVars
  <2>2. ASSUME NEW t \in Tgids PROVE called'[t] >= called[t] /\ astray'[t] >= astray[t]
    <3>1. called'[t] \in {called[t], called[t] + 1} /\ astray'[t] \in {astray[t], astray[t] + 1}
      BY <1>1, <1>4 DEF Probe, Call, Add, Create
    <3> QED  BY <1>1, <3>1
  <2> QED  BY <1>3, <2>1, <2>2
<1>5. CASE PollEnd
  <2>1. UNCHANGED <<called, astray>>
    BY <1>5 DEF PollEnd
  <2>2. ASSUME NEW t \in Tgids PROVE reported'[t] >= reported[t] /\ reported'[t] <= Done[t]
    <3>1. reported'[t] = reported[t] + At(perTgid, t, 0) /\ At(perTgid, t, 0) \in Nat
      BY <1>5, LedgerTypes DEF OwnInv, PollEnd
    <3>2. Got(t)' = reported'[t]
      BY <1>1, <1>5 DEF PollEnd, Got, At, EmptyMap
    <3>3. (Cardinality(Going(t)) + Wait(t) + Got(t) <= called[t] + astray[t])'
      BY DEF OwnInv, OwnLedger
    <3>4. Cardinality(Going(t))' \in Nat /\ Wait(t)' \in Nat
      BY LedgerTypesNext, GoingSizeNext DEF OwnInv
    <3> QED  BY <1>1, <2>1, <3>1, <3>2, <3>3, <3>4 DEF Done
  <2>3. CallMeter!Tell
    BY <1>1, <2>1, <2>2 DEF CallMeter!Tell, CallMeter!Amounts, Done
  <2> QED  BY <2>3 DEF CallMeter!Next
<1>6. CASE UNCHANGED <<called, astray, reported>>
  BY <1>6 DEF CallMeter!vars
<1>7. ASSUME PollStart \/ \E t \in Tgids : PollRead(t) \/ PollDelete(t)
      PROVE  UNCHANGED <<called, astray, reported>>
  BY <1>7 DEF PollStart, PollRead, PollDelete
<1> QED
  BY <1>4, <1>5, <1>6, <1>7 DEF Next, Poll, vars, pollVars, CallMeter!Next

\* The collector implements Meter: no process group is ever credited with more than
\* it did, counts that reached its entry through a stale pointer included.
THEOREM CallsAreMetered == Spec => MetersCalls
<1>1. Spec => []OwnInv
  BY OwnInit, OwnStep, PTL DEF Spec
<1> QED  BY <1>1, MeterInit, MeterStep, PTL DEF Spec, MetersCalls, CallMeter!Spec
===============================================================================
