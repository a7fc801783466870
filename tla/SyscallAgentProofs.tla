-------------------------- MODULE SyscallAgentProofs --------------------------
(* What holds of the syscall pipeline for any number of containers, restarts,  *)
(* CPUs and counters, and any map capacities.                                  *)
EXTENDS SyscallAgent, LedgerLemmas

-----------------------------------------------------------------------------
(* Type correctness *)

\* An entry that is being read exists; mappings are written in phase "put" only;
\* only finitely many containers were ever mapped.
PhaseOK ==
  /\ unread # {} => reading \in DOMAIN hist
  /\ upd # "put" => toPut = {}
  /\ IsFiniteSet(DOMAIN idxByCid)

TInv == TypeOK /\ PhaseOK

LEMMA CgroupOfType ==
  ASSUME TypeOK, NEW c \in up
  PROVE  CgroupOf(c) \in Cgids /\ c \in Cids
<1>1. c \in Cids /\ starts[c] \in 0 .. MaxStarts /\ starts[c] > 0
  BY DEF TypeOK, WorldTypeOK, Created
<1> QED  BY <1>1, WorldAssumption DEF CgroupOf, Cgids

LEMMA ZeroCountsType == ZeroCounts \in Counts
BY DEF ZeroCounts, Counts

\* nextIdx counts the containers that have an index.
LEMMA NextIdxIsNat == TInv => nextIdx \in Nat
BY FS_CardinalityType DEF TInv, PhaseOK, TypeOK

LEMMA TypeInit == Init => TInv
<1> SUFFICES ASSUME Init PROVE TInv
  OBVIOUS
<1> USE DEF Init, WorldInit, TraceInit, CollectorInit
<1>1. WorldTypeOK
  BY WorldAssumption DEF WorldTypeOK, Created
<1>2. TraceTypeOK
  BY EmptyIsMap, TraceAssumption DEF TraceTypeOK
<1>3. CollectorTypeOK
  BY EmptyIsMap, ZeroCountsType DEF CollectorTypeOK, NoIdx
<1>4. IsMap(todo, Cids, Nat)
  BY DEF IsMap, InitPid
<1>5. IsFiniteSet(DOMAIN idxByCid) /\ nextIdx = Cardinality(DOMAIN idxByCid)
  BY FS_EmptySet DEF EmptyMap
<1> QED  BY <1>1, <1>2, <1>3, <1>4, <1>5, EmptyIsMap DEF TInv, TypeOK, PhaseOK

LEMMA WorldStepType ==
  ASSUME TInv, NEW c \in Cids, Start(c) \/ Stop(c)
  PROVE  TInv'
<1> USE DEF TInv, TypeOK
<1>1. WorldTypeOK'
  <2>1. CASE Start(c)
    BY <2>1, WorldAssumption DEF Start, StartContainer, WorldTypeOK, Created
  <2>2. CASE Stop(c)
    BY <2>2 DEF Stop, StopContainer, WorldTypeOK, Created
  <2> QED  BY <2>1, <2>2
<1>2. UNCHANGED <<traceVars, updVars, pollVars, agentVars>>
  BY DEF Start, Stop
<1>3. TraceTypeOK' /\ PhaseOK'
  BY <1>2 DEF traceVars, TraceTypeOK, PhaseOK, updVars, pollVars, scanVars, agentVars
<1>4. CollectorTypeOK'
  BY <1>2 DEF updVars, pollVars, scanVars, CollectorTypeOK
<1> QED  BY <1>1, <1>2, <1>3, <1>4 DEF agentVars

LEMMA TraceStepType ==
  ASSUME TInv, NEW p \in Cpus, Syscall(p)
  PROVE  TInv'
<1> USE DEF TInv, TypeOK
<1>1. UNCHANGED <<worldVars, updVars, pollVars, agentVars>>
  BY DEF Syscall
<1>2. TraceTypeOK' /\ DOMAIN hist \subseteq DOMAIN hist'
  <2>1. ASSUME NEW c \in up, Enter(p, CgroupOf(c))
        PROVE  TraceTypeOK' /\ DOMAIN hist \subseteq DOMAIN hist'
    <3> DEFINE g == CgroupOf(c)
               inst == [pc |-> "found", cg |-> g, elem |-> g, idx |-> cgidMap[g],
                       rewritten |-> FALSE]
    <3>1. g \in Cgids
      BY CgroupOfType
    <3>2. inst \in Instances
      BY <2>1, <3>1 DEF Enter, Instances, Places, TraceTypeOK, IsMap
    <3>3. IsMap(prog', Cpus, Instances)
      BY <2>1, <3>2, PutIsMap DEF Enter, TraceTypeOK
    <3> QED  BY <2>1, <3>3, TraceAssumption DEF Enter, TraceTypeOK
  <2>2. ASSUME NEW pc \in {"found", "create", "again", "total", "bucket"}, Goto(p, pc)
        PROVE  IsMap(prog', Cpus, Instances)
    BY <2>2 DEF Goto, TraceTypeOK, IsMap, Instances
  <2>3. CASE LookupCounts(p)
    BY <2>3, <2>2 DEF LookupCounts, TraceTypeOK
  <2>4. CASE CreateCounts(p)
    <3>1. prog[p].idx \in Nat
      BY <2>4 DEF CreateCounts, TraceTypeOK, IsMap, Instances
    <3>2. ZeroEntry \in [Cpus -> Counts]
      BY ZeroCountsType DEF ZeroEntry
    <3>3. IsMap(hist', Nat, [Cpus -> Counts]) /\ DOMAIN hist \subseteq DOMAIN hist'
      <4>1. hist' = hist \/ hist' = Put(hist, prog[p].idx, ZeroEntry)
        BY <2>4 DEF CreateCounts, CreateIfAbsent
      <4>2. IsMap(Put(hist, prog[p].idx, ZeroEntry), Nat, [Cpus -> Counts])
        BY <3>1, <3>2, PutIsMap DEF TraceTypeOK
      <4> QED  BY <4>1, <4>2 DEF TraceTypeOK, Put
    <3>4. IsMap(prog', Cpus, Instances)
      BY <2>4, <2>2 DEF CreateCounts
    <3> QED  BY <2>4, <3>3, <3>4 DEF CreateCounts, TraceTypeOK
  <2>8. CASE LookupAgain(p)
    <3>1. prog[p].rewritten \in BOOLEAN
      BY <2>8 DEF LookupAgain, TraceTypeOK, IsMap, Instances
    <3>2. IsMap(prog', Cpus, Instances)
      BY <2>8, <2>2, DropIsMap DEF LookupAgain, TraceTypeOK
    <3>3. dropped' \in [BOOLEAN -> Nat]
      BY <2>8, <3>1 DEF LookupAgain, TraceTypeOK
    <3> QED  BY <2>8, <3>2, <3>3 DEF LookupAgain, TraceTypeOK
  <2>5. ASSUME NEW f \in Fields, NEW i,
               hist' = [hist EXCEPT ![i][p][f] = @ + 1]
        PROVE  IsMap(hist', Nat, [Cpus -> Counts]) /\ DOMAIN hist = DOMAIN hist'
    BY <2>5 DEF TraceTypeOK, IsMap, Counts
  <2>6. CASE CountTotal(p)
    <3>1. prog[p].idx \in Nat /\ <<prog[p].cg, prog[p].rewritten>> \in Origins
      BY <2>6 DEF CountTotal, TraceTypeOK, IsMap, Instances, Origins
    <3>2. At(origin, prog[p].idx, {}) \cup {<<prog[p].cg, prog[p].rewritten>>}
            \in SUBSET Origins
      BY <3>1 DEF TraceTypeOK, IsMap, At
    <3>3. IsMap(origin', Nat, SUBSET Origins)
      BY <2>6, <3>1, <3>2, PutIsMap DEF CountTotal, TraceTypeOK
    <3>4. IsMap(prog', Cpus, Instances)
      BY <2>6, <2>2 DEF CountTotal
    <3>5. IsMap(hist', Nat, [Cpus -> Counts]) /\ DOMAIN hist = DOMAIN hist'
      BY <2>6, <2>5 DEF CountTotal, Fields
    <3> QED  BY <2>6, <3>3, <3>4, <3>5 DEF CountTotal, TraceTypeOK
  <2>7. ASSUME NEW b \in Buckets, CountBucket(p, b)
        PROVE  TraceTypeOK' /\ DOMAIN hist \subseteq DOMAIN hist'
    <3>1. IsMap(hist', Nat, [Cpus -> Counts]) /\ DOMAIN hist = DOMAIN hist'
      BY <2>7, <2>5 DEF CountBucket, Fields
    <3> QED  BY <2>7, <3>1, DropIsMap DEF CountBucket, TraceTypeOK
  <2> QED  BY <2>1, <2>3, <2>4, <2>6, <2>7, <2>8 DEF Syscall, TraceStep
<1>3. CollectorTypeOK' /\ PhaseOK'
  BY <1>1, <1>2 DEF updVars, pollVars, scanVars, agentVars, CollectorTypeOK, PhaseOK
<1> QED  BY <1>1, <1>2, <1>3 DEF worldVars, WorldTypeOK, Created, agentVars

LEMMA NewIdxIsMap ==
  ASSUME NEW ms, ms \subseteq Mappings
  PROVE  IsMap(NewIdx(ms), Nat, Cids)
<1> SUFFICES ASSUME NEW i \in {m.idx : m \in ms}
             PROVE  i \in Nat /\ (CHOOSE m \in ms : m.idx = i).cid \in Cids
  BY DEF IsMap, NewIdx
<1>1. \E m \in ms : m.idx = i
  OBVIOUS
<1>2. (CHOOSE m \in ms : m.idx = i) \in ms
  BY <1>1
<1> QED  BY <1>1, <1>2 DEF Mappings

\* The pcs of an instance that still uses its pointer into cgid_map.
Looking == {"found", "create", "again"}

\* P is what the agent's work on cgid_map may make of prog: instances go on, and
\* one that still uses its pointer may find that it now refers to an index in I.
Rewritten(P, I) ==
  /\ DOMAIN P = DOMAIN prog
  /\ \A p \in DOMAIN prog :
       /\ P[p] \in Instances /\ P[p].pc = prog[p].pc /\ P[p].cg = prog[p].cg
       /\ \/ P[p].idx = prog[p].idx /\ P[p].rewritten = prog[p].rewritten
          \/ P[p].pc \in Looking /\ P[p].idx \in I /\ P[p].rewritten

LEMMA RelinkRewrites ==
  ASSUME TypeOK, NEW m \in Mappings, NEW ps \in SUBSET Holding(ElementFor(m.cgid))
  PROVE  Rewritten(Relink(m, ps), {m.idx})
<1> SUFFICES ASSUME NEW p \in DOMAIN prog, NEW n, n = Relink(m, ps)[p]
             PROVE  /\ n \in Instances /\ n.pc = prog[p].pc /\ n.cg = prog[p].cg
                    /\ \/ n.idx = prog[p].idx /\ n.rewritten = prog[p].rewritten
                       \/ n.pc \in Looking /\ n.idx = m.idx /\ n.rewritten
  BY DEF Rewritten, Relink
<1>1. /\ prog[p] \in Instances
      /\ m.cgid \in Places /\ m.idx \in Nat /\ Spare \in Places
  BY DEF TypeOK, TraceTypeOK, IsMap, Mappings, Places
<1>2. CASE p \in ps
  <2>1. n = [prog[p] EXCEPT !.elem = m.cgid, !.idx = m.idx, !.rewritten = TRUE]
    BY <1>2 DEF Relink
  <2>2. prog[p].pc \in Looking
    BY <1>2 DEF Holding, Looking
  <2> QED  BY <1>1, <2>1, <2>2 DEF Instances
<1>3. CASE p \notin ps
  <2>1. n = [prog[p] EXCEPT !.elem = Spare] \/ n = prog[p]
    BY <1>3 DEF Relink
  <2> QED  BY <1>1, <2>1 DEF Instances
<1> QED  BY <1>2, <1>3

LEMMA UnlinkRewrites ==
  ASSUME TypeOK, NEW g
  PROVE  Rewritten(Unlink(g), {})
<1> SUFFICES ASSUME NEW p \in DOMAIN prog, NEW n, n = Unlink(g)[p]
             PROVE  /\ n \in Instances /\ n.pc = prog[p].pc /\ n.cg = prog[p].cg
                    /\ n.idx = prog[p].idx /\ n.rewritten = prog[p].rewritten
  BY DEF Rewritten, Unlink
<1>1. prog[p] \in Instances /\ Free \in Places
  BY DEF TypeOK, TraceTypeOK, IsMap, Places
<1>2. n = [prog[p] EXCEPT !.elem = Free] \/ n = prog[p]
  BY DEF Unlink
<1> QED  BY <1>1, <1>2 DEF Instances

LEMMA KeptRewrites ==
  ASSUME TypeOK
  PROVE  Rewritten(prog, {})
BY DEF Rewritten, TypeOK, TraceTypeOK, IsMap

LEMMA PutOneRewrites ==
  ASSUME TypeOK, NEW m \in toPut, PutOne(m)
  PROVE  m \in Mappings /\ Rewritten(prog', {m.idx})
<1>1. m \in Mappings
  BY DEF TypeOK, CollectorTypeOK
<1>2. PICK ps \in SUBSET Holding(ElementFor(m.cgid)) : prog' = Relink(m, ps)
  BY DEF PutOne
<1> QED  BY <1>1, <1>2, RelinkRewrites

LEMMA CleanVisitRewrites ==
  ASSUME TypeOK, NEW g \in DOMAIN cgidMap, CleanVisit(g)
  PROVE  Rewritten(prog', {})
<1>1. prog' = Unlink(g) \/ prog' = prog
  BY DEF CleanVisit
<1> QED  BY <1>1, UnlinkRewrites, KeptRewrites

\* Only system calls do more to prog than that.
LEMMA OnlyRewritten ==
  ASSUME TypeOK, [Next]_vars, \A p \in Cpus : ~Syscall(p)
  PROVE  \E I : Rewritten(prog', I)
<1>1. ASSUME prog' = prog PROVE \E I : Rewritten(prog', I)
  BY <1>1, KeptRewrites
<1>2. CASE UpdateStep
  <2>1. CASE \E m \in toPut : PutOne(m)
    BY <2>1, PutOneRewrites
  <2>2. CASE \E g \in DOMAIN cgidMap : CleanVisit(g)
    BY <2>2, CleanVisitRewrites
  <2> QED  BY <1>1, <1>2, <2>1, <2>2 DEF UpdateStep, PutFails, CommitUpdate, traceVars
<1> QED
  BY <1>1, <1>2 DEF Next, Start, Stop, AgentStep, EndBuild, Poll, PollStep, vars, traceVars

LEMMA UpdateStepType ==
  ASSUME TInv, UpdateStep, UNCHANGED <<worldVars, agentVars>>
  PROVE  TInv'
<1> USE DEF TInv, TypeOK
<1>1. ASSUME NEW m \in toPut, PutOne(m)
      PROVE  TInv'
  <2>1. m.cgid \in Cgids /\ m.idx \in Nat
    BY DEF CollectorTypeOK, Mappings
  <2>2. IsMap(cgidMap', Cgids, Nat)
    BY <1>1, <2>1, PutIsMap DEF PutOne, TraceTypeOK
  <2>3. IsMap(prog', Cpus, Instances)
    <3>1. Rewritten(prog', {m.idx})
      BY <1>1, PutOneRewrites
    <3> QED  BY <3>1 DEF Rewritten, TraceTypeOK, IsMap
  <2>4. TraceTypeOK'
    BY <1>1, <2>2, <2>3 DEF PutOne, TraceTypeOK
  <2>5. CollectorTypeOK' /\ PhaseOK'
    BY <1>1 DEF PutOne, UpdateStep, pollVars, scanVars, agentVars, CollectorTypeOK, PhaseOK
  <2> QED  BY <1>1, <2>4, <2>5 DEF worldVars, agentVars, WorldTypeOK, Created
<1>2. ASSUME NEW m \in toPut, PutFails(m)
      PROVE  TInv'
  <2>1. \A x \in mappings : x.idx \in Nat
    BY DEF CollectorTypeOK, Mappings
  <2>2. settled' \subseteq Nat
    BY <1>2, <2>1 DEF PutFails, CollectorTypeOK
  <2> QED
    BY <1>2, <2>2 DEF PutFails, UpdateStep, worldVars, WorldTypeOK, Created,
       agentVars, traceVars, TraceTypeOK, pollVars, scanVars, CollectorTypeOK, PhaseOK
<1>3. ASSUME NEW g \in DOMAIN cgidMap, CleanVisit(g)
      PROVE  TInv'
  <2>1. IsMap(cgidMap', Cgids, Nat)
    BY <1>3, DropIsMap DEF CleanVisit, TraceTypeOK
  <2>2. passed' \subseteq Cgids /\ visits' \in Nat
    BY <1>3 DEF CleanVisit, CollectorTypeOK, TraceTypeOK, IsMap
  <2>3. IsMap(prog', Cpus, Instances)
    <3>1. Rewritten(prog', {})
      BY <1>3, CleanVisitRewrites
    <3> QED  BY <3>1 DEF Rewritten, TraceTypeOK, IsMap
  <2> QED
    BY <1>3, <2>1, <2>2, <2>3 DEF CleanVisit, UpdateStep, worldVars, WorldTypeOK, Created,
       agentVars, TraceTypeOK, pollVars, scanVars, CollectorTypeOK, PhaseOK
<1>4. CASE CommitUpdate
  <2>1. IsMap(idxToCid', Nat, Cids)
    BY <1>4, NewIdxIsMap DEF CommitUpdate, CollectorTypeOK
  <2>2. settled' \subseteq Nat /\ toPut' \subseteq mappings'
    BY <1>4, <2>1 DEF CommitUpdate, CollectorTypeOK, IsMap, PhaseOK
  <2> QED
    BY <1>4, <2>1, <2>2 DEF CommitUpdate, UpdateStep, worldVars, WorldTypeOK, Created,
       agentVars, traceVars, TraceTypeOK, pollVars, scanVars, CollectorTypeOK, PhaseOK
<1> QED  BY <1>1, <1>2, <1>3, <1>4 DEF UpdateStep

LEMMA DeltaType ==
  ASSUME TypeOK, NEW i \in DOMAIN current
  PROVE  Delta(i) \in Counts
<1>1. current[i] \in Counts
  BY DEF TypeOK, CollectorTypeOK, IsMap
<1>2. At(prevSeen, i, ZeroCounts) \in Counts
  BY ZeroCountsType, AtInRange DEF TypeOK, CollectorTypeOK
<1> QED  BY <1>1, <1>2 DEF Delta, Subtract, Counts

LEMMA PollStepType ==
  ASSUME TInv, PollStep, UNCHANGED <<worldVars, agentVars>>
  PROVE  TInv'
<1> USE DEF TInv, TypeOK
<1>1. TraceTypeOK' /\ WorldTypeOK' /\ UNCHANGED <<traceVars, updVars>>
  BY DEF PollStep, traceVars, TraceTypeOK, worldVars, WorldTypeOK, Created
<1>2. CASE PollStart
  <2>1. IsMap(current', Nat, Counts) /\ must' \subseteq Nat
    BY <1>2, EmptyIsMap DEF PollStart, TraceTypeOK, IsMap
  <2> QED
    BY <1>1, <1>2, <2>1 DEF PollStart, traceVars, updVars, agentVars, CollectorTypeOK, PhaseOK
<1>3. ASSUME NEW i \in DOMAIN hist, ReadEntry(i)
      PROVE  TInv'
  BY <1>1, <1>3, ZeroCountsType DEF ReadEntry, traceVars, updVars, agentVars,
     CollectorTypeOK, PhaseOK, TraceTypeOK, IsMap
<1>4. ASSUME NEW w \in unread, ReadWord(w[1], w[2])
      PROVE  TInv'
  <2>1. w[1] \in Cpus /\ w[2] \in Fields /\ reading \in DOMAIN hist
    BY DEF CollectorTypeOK, PhaseOK
  <2>2. hist[reading][w[1]][w[2]] \in Nat
    BY <2>1 DEF TraceTypeOK, IsMap, Counts
  <2>3. sum' \in Counts
    BY <1>4, <2>1, <2>2 DEF ReadWord, CollectorTypeOK, Counts
  <2>4. IsMap(current', Nat, Counts)
    BY <1>4, <2>3, PutIsMap DEF ReadWord, CollectorTypeOK
  <2>5. unread' \subseteq Cpus \X Fields
    BY <1>4 DEF ReadWord, CollectorTypeOK
  <2>6. PhaseOK'
    BY <1>1, <1>4, <2>1 DEF ReadWord, PhaseOK, traceVars, updVars, agentVars
  <2> QED
    BY <1>1, <1>4, <2>3, <2>4, <2>5, <2>6 DEF ReadWord, updVars, agentVars, CollectorTypeOK
<1>5. CASE PollCommit
  <2>1. snap' \subseteq Rows
    <3> SUFFICES ASSUME NEW i \in DOMAIN current
                 PROVE  [idx |-> i, cid |-> At(idxToCid, i, Host), counts |-> Delta(i)] \in Rows
      BY <1>5 DEF PollCommit, NewRows, Reportable
    <3>1. At(idxToCid, i, Host) \in Cids \cup {Host}
      BY DEF CollectorTypeOK, At, IsMap
    <3> QED  BY <3>1, DeltaType DEF Rows, CollectorTypeOK, IsMap
  <2>2. IsMap(reported', Nat, Counts)
    <3> SUFFICES ASSUME NEW i \in DOMAIN current
                 PROVE  i \in Nat /\ Credit(i) \in Counts
      BY <1>5 DEF PollCommit, IsMap
    <3>1. At(reported, i, ZeroCounts) \in Counts
      BY ZeroCountsType, AtInRange DEF CollectorTypeOK
    <3> QED  BY <3>1, DeltaType DEF Credit, Counts, CollectorTypeOK, IsMap
  <2>3. IsMap(current', Nat, Counts) /\ sum' \in Counts /\ reading' \in Nat
    BY <1>5, EmptyIsMap, ZeroCountsType DEF PollCommit, NoIdx
  <2> QED
    BY <1>1, <1>5, <2>1, <2>2, <2>3 DEF PollCommit, updVars, agentVars,
       CollectorTypeOK, PhaseOK
<1> QED  BY <1>2, <1>3, <1>4, <1>5 DEF PollStep

LEMMA AgentStepType ==
  ASSUME TInv, AgentStep
  PROVE  TInv'
<1> USE DEF TInv, TypeOK
<1>1. ASSUME UNCHANGED <<worldVars, traceVars, pollVars>>
      PROVE  WorldTypeOK' /\ TraceTypeOK'
  BY <1>1 DEF worldVars, WorldTypeOK, Created, traceVars, TraceTypeOK
<1>2. ASSUME UNCHANGED <<traceVars, updVars, pollVars>>, IsFiniteSet(DOMAIN idxByCid)'
      PROVE  CollectorTypeOK' /\ PhaseOK'
  BY <1>2 DEF traceVars, updVars, pollVars, scanVars, CollectorTypeOK, PhaseOK
<1>7. UNCHANGED idxByCid => IsFiniteSet(DOMAIN idxByCid)'
  BY DEF PhaseOK
<1>3. ASSUME Refresh, UNCHANGED <<worldVars, traceVars, updVars, pollVars>>
      PROVE  TInv'
  <2>1. IsMap(todo', Cids, Nat)
    BY <1>3 DEF Refresh, IsMap, InitPid, Created, WorldTypeOK
  <2> QED  BY <1>1, <1>2, <1>3, <1>7, <2>1 DEF Refresh
<1>4. ASSUME NEW c \in DOMAIN todo, MapOne(c),
             UNCHANGED <<worldVars, traceVars, updVars, pollVars>>
      PROVE  TInv'
  <2>1. c \in Cids /\ IsMap(todo', Cids, Nat)
    BY <1>4, DropIsMap DEF MapOne, IsMap
  <2>2. CASE HasCgroup(c)
    <3>1. IndexFor(c) \in Nat
      BY AtInRange, NextIdxIsNat DEF IndexFor
    <3>2. IsMap(idxByCid', Cids, Nat)
      BY <1>4, <2>1, <2>2, <3>1, PutIsMap DEF MapOne
    <3>6. IsFiniteSet(DOMAIN idxByCid)' /\ nextIdx' = Cardinality(DOMAIN idxByCid')
      <4>1. DOMAIN idxByCid' = DOMAIN idxByCid \cup {c} /\ nextIdx' = NextIndex(c)
        BY <1>4, <2>2 DEF MapOne, Put
      <4>2. IsFiniteSet(DOMAIN idxByCid) /\ nextIdx = Cardinality(DOMAIN idxByCid)
        BY DEF PhaseOK
      <4>3. CASE c \in DOMAIN idxByCid
        <5>1. DOMAIN idxByCid' = DOMAIN idxByCid
          BY <4>1, <4>3
        <5> QED  BY <4>1, <4>2, <4>3, <5>1 DEF NextIndex
      <4>4. CASE c \notin DOMAIN idxByCid
        <5>1. /\ IsFiniteSet(DOMAIN idxByCid \cup {c})
              /\ Cardinality(DOMAIN idxByCid \cup {c}) = Cardinality(DOMAIN idxByCid) + 1
          BY <4>2, <4>4, FS_AddElement
        <5> QED  BY <4>1, <4>2, <4>4, <5>1 DEF NextIndex
      <4> QED  BY <4>3, <4>4
    <3>3. idxByCid'[c] \in Nat
      BY <1>4, <2>2, <3>1 DEF MapOne, Put
    <3>4. CgroupOf(c) \in Cgids
      BY <2>2, CgroupOfType DEF HasCgroup
    <3>5. found' \subseteq Mappings
      BY <1>4, <2>1, <2>2, <3>3, <3>4 DEF MapOne, Mappings
    <3> QED  BY <1>1, <1>2, <1>4, <2>1, <3>2, <3>5, <3>6 DEF MapOne
  <2>3. CASE ~HasCgroup(c)
    BY <1>1, <1>2, <1>4, <1>7, <2>1, <2>3 DEF MapOne
  <2> QED  BY <2>2, <2>3
<1>5. ASSUME EndBuild, UNCHANGED <<worldVars, traceVars, pollVars>>
      PROVE  TInv'
  <2>1. CollectorTypeOK' /\ PhaseOK'
    BY <1>5, <1>7 DEF EndBuild, BeginUpdate, traceVars, updVars, pollVars, scanVars,
       CollectorTypeOK, PhaseOK
  <2> QED  BY <1>1, <1>5, <2>1 DEF EndBuild
<1>6. ASSUME UpdateStep, UNCHANGED <<worldVars, agentVars>>
      PROVE  TInv'
  BY <1>6, UpdateStepType
<1> QED  BY <1>3, <1>4, <1>5, <1>6 DEF AgentStep

LEMMA TypeStep == TInv /\ [Next]_vars => TInv'
<1> SUFFICES ASSUME TInv, [Next]_vars PROVE TInv'
  OBVIOUS
<1>1. ASSUME NEW c \in Cids, Start(c) \/ Stop(c) PROVE TInv'
  BY <1>1, WorldStepType
<1>2. ASSUME NEW p \in Cpus, Syscall(p) PROVE TInv'
  BY <1>2, TraceStepType
<1>3. CASE AgentStep
  BY <1>3, AgentStepType
<1>4. CASE Poll
  BY <1>4, PollStepType DEF Poll
<1>5. CASE UNCHANGED vars
  BY <1>5 DEF vars, worldVars, traceVars, updVars, pollVars, scanVars, agentVars,
     TInv, TypeOK, WorldTypeOK, Created, TraceTypeOK, CollectorTypeOK, PhaseOK
<1> QED  BY <1>1, <1>2, <1>3, <1>4, <1>5 DEF Next

\* Every variable keeps its type in every behaviour of the pipeline.
THEOREM TypeCorrect == Spec => []TypeOK
<1>1. Init => TInv
  BY TypeInit
<1>2. TInv /\ [Next]_vars => TInv'
  BY TypeStep
<1>3. TInv => TypeOK
  BY DEF TInv
<1> QED  BY <1>1, <1>2, <1>3, PTL DEF Spec

-----------------------------------------------------------------------------
(* Attribution.  A row is labelled long after its calls were counted, so       *)
(* RowsOfOwnContainer is not inductive: it follows from the fact that all the  *)
(* places that pair a container with an index agree with idxByCid, which only  *)
(* ever grows and never gives one index to two containers.                     *)

HasIdx(c, i) == c \in DOMAIN idxByCid /\ idxByCid[c] = i

IndexInv ==
  /\ \A c, d \in DOMAIN idxByCid : idxByCid[c] = idxByCid[d] => c = d
  /\ \A c \in DOMAIN idxByCid : idxByCid[c] < nextIdx

MapInv == \A g \in DOMAIN cgidMap : HasIdx(Owner(g), cgidMap[g])

MappingInv ==
  \A m \in found \cup mappings : m.cid = Owner(m.cgid) /\ HasIdx(m.cid, m.idx)

ProgInv ==
  \A p \in DOMAIN prog :
    ~prog[p].rewritten => HasIdx(Owner(prog[p].cg), prog[p].idx)

OriginInv ==
  \A i \in DOMAIN origin : \A o \in origin[i] : HasIdx(Owner(o[1]), i) \/ o[2]

NameInv == \A i \in DOMAIN idxToCid : HasIdx(idxToCid[i], i)

RowInv == \A r \in snap : r.cid # Host => HasIdx(r.cid, r.idx)

AttrInv ==
  /\ TInv
  /\ IndexInv /\ MapInv /\ MappingInv /\ ProgInv /\ OriginInv /\ NameInv /\ RowInv

\* As long as idxByCid stays, so does everything that agrees with it.
Unindexed == UNCHANGED <<idxByCid, nextIdx>>

LEMMA AttrInit == Init => AttrInv
<1> SUFFICES ASSUME Init PROVE AttrInv
  OBVIOUS
<1>1. TInv
  BY TypeInit
<1> QED
  BY <1>1 DEF Init, TraceInit, CollectorInit, EmptyMap, AttrInv, IndexInv, MapInv,
     MappingInv, ProgInv, OriginInv, NameInv, RowInv

LEMMA AttrTraceStep ==
  ASSUME AttrInv, NEW p \in Cpus, Syscall(p)
  PROVE  ProgInv' /\ OriginInv' /\ UNCHANGED cgidMap
<1>1. Unindexed
  BY DEF Syscall, agentVars, Unindexed
<1> USE DEF AttrInv, ProgInv, OriginInv, HasIdx, Unindexed
<1>2. ASSUME NEW c \in up, Enter(p, CgroupOf(c))
      PROVE  ProgInv' /\ OriginInv' /\ UNCHANGED cgidMap
  <2>1. HasIdx(Owner(CgroupOf(c)), cgidMap[CgroupOf(c)])
    BY <1>2 DEF Enter, MapInv
  <2> QED  BY <1>1, <1>2, <2>1 DEF Enter, Put
<1>3. ASSUME NEW pc, Goto(p, pc), p \in DOMAIN prog
      PROVE  ProgInv'
  <2>1. DOMAIN prog' = DOMAIN prog
    BY <1>3 DEF Goto
  <2>2. \A q \in DOMAIN prog :
          /\ prog'[q].cg = prog[q].cg /\ prog'[q].idx = prog[q].idx
          /\ prog'[q].rewritten = prog[q].rewritten
    BY <1>3 DEF Goto, TInv, TypeOK, TraceTypeOK, IsMap, Instances
  <2> QED  BY <1>1, <2>1, <2>2
<1>4. CASE LookupCounts(p)
  BY <1>1, <1>3, <1>4 DEF LookupCounts
<1>5. CASE CreateCounts(p)
  BY <1>1, <1>3, <1>5 DEF CreateCounts
<1>8. CASE LookupAgain(p)
  <2>1. ProgInv'
    <3>1. CASE prog' = Drop(prog, {p})
      BY <1>1, <3>1 DEF Drop
    <3> QED  BY <1>3, <1>8, <3>1 DEF LookupAgain
  <2> QED  BY <1>1, <1>8, <2>1 DEF LookupAgain
<1>6. CASE CountTotal(p)
  <2>1. ProgInv'
    BY <1>3, <1>6 DEF CountTotal
  <2> DEFINE new == <<prog[p].cg, prog[p].rewritten>>
  <2>2. HasIdx(Owner(new[1]), prog[p].idx) \/ new[2]
    BY <1>6 DEF CountTotal
  <2>3. OriginInv'
    BY <1>1, <1>6, <2>2 DEF CountTotal, Put, At
  <2> QED  BY <1>6, <2>1, <2>3 DEF CountTotal
<1>7. ASSUME NEW b \in Buckets, CountBucket(p, b)
      PROVE  ProgInv' /\ OriginInv' /\ UNCHANGED cgidMap
  BY <1>1, <1>7 DEF CountBucket, Drop
<1> QED  BY <1>2, <1>4, <1>5, <1>6, <1>7, <1>8 DEF Syscall, TraceStep

\* A pointer that refers to another entry is one of a rewritten instance.
LEMMA AttrRewritten ==
  ASSUME ProgInv, NEW I, Rewritten(prog', I), Unindexed
  PROVE  ProgInv'
BY DEF ProgInv, Rewritten, HasIdx, Unindexed

LEMMA AttrUpdateStep ==
  ASSUME AttrInv, UpdateStep, UNCHANGED <<worldVars, agentVars>>
  PROVE  AttrInv'
<1>1. TInv'
  BY UpdateStepType DEF AttrInv
<1>2. Unindexed /\ UNCHANGED <<found, snap>>
  BY DEF agentVars, Unindexed, UpdateStep, pollVars
<1> USE DEF AttrInv, HasIdx, Unindexed
<1>3. IndexInv' /\ RowInv'
  BY <1>2 DEF IndexInv, RowInv
<1>4. ASSUME NEW m \in toPut, PutOne(m)
      PROVE  AttrInv'
  <2>1. m \in mappings
    BY DEF TInv, TypeOK, CollectorTypeOK
  <2>2. MapInv'
    BY <1>2, <1>4, <2>1 DEF PutOne, Put, MapInv, MappingInv
  <2>3. UNCHANGED <<mappings, origin, idxToCid>>
    BY <1>4 DEF PutOne
  <2>4. ProgInv'
    <3>1. Rewritten(prog', {m.idx})
      BY <1>4, PutOneRewrites DEF TInv
    <3> QED  BY <1>2, <3>1, AttrRewritten
  <2> QED
    BY <1>1, <1>2, <1>3, <2>2, <2>3, <2>4 DEF MappingInv, OriginInv, NameInv
<1>5. ASSUME NEW m \in toPut, PutFails(m)
      PROVE  AttrInv'
  BY <1>1, <1>2, <1>3, <1>5 DEF PutFails, traceVars, MapInv, MappingInv, ProgInv,
     OriginInv, NameInv
<1>6. ASSUME NEW g \in DOMAIN cgidMap, CleanVisit(g)
      PROVE  AttrInv'
  <2>1. MapInv'
    BY <1>2, <1>6 DEF CleanVisit, Drop, MapInv
  <2>2. ProgInv'
    <3>1. Rewritten(prog', {})
      BY <1>6, CleanVisitRewrites DEF TInv
    <3> QED  BY <1>2, <3>1, AttrRewritten
  <2> QED
    BY <1>1, <1>2, <1>3, <1>6, <2>1, <2>2 DEF CleanVisit, MappingInv, OriginInv, NameInv
<1>7. CASE CommitUpdate
  <2>1. NameInv'
    <3> SUFFICES ASSUME NEW i \in DOMAIN NewIdx(mappings)
                 PROVE  HasIdx(NewIdx(mappings)[i], i)
      BY <1>2, <1>7 DEF CommitUpdate, NameInv
    <3> DEFINE m == CHOOSE x \in mappings : x.idx = i
    <3>1. \E x \in mappings : x.idx = i
      BY DEF NewIdx
    <3>2. m \in mappings /\ m.idx = i
      BY <3>1
    <3>3. NewIdx(mappings)[i] = m.cid
      BY DEF NewIdx
    <3> QED  BY <3>2, <3>3 DEF MappingInv
  <2>2. UNCHANGED <<cgidMap, prog, origin>> /\ mappings' = {}
    BY <1>7 DEF CommitUpdate, traceVars
  <2> QED
    BY <1>1, <1>2, <1>3, <2>1, <2>2 DEF MapInv, MappingInv, ProgInv, OriginInv
<1> QED  BY <1>4, <1>5, <1>6, <1>7 DEF UpdateStep

LEMMA AttrPollStep ==
  ASSUME AttrInv, PollStep, UNCHANGED <<worldVars, agentVars>>
  PROVE  AttrInv'
<1>1. TInv'
  BY PollStepType DEF AttrInv
<1>2. Unindexed /\ UNCHANGED <<found, cgidMap, prog, origin, mappings, idxToCid>>
  BY DEF PollStep, agentVars, traceVars, updVars, Unindexed
<1> USE DEF AttrInv, HasIdx, Unindexed
<1>3. RowInv'
  <2>1. CASE PollCommit
    BY <1>2, <2>1 DEF PollCommit, NewRows, At, RowInv, NameInv
  <2>2. CASE UNCHANGED snap
    BY <1>2, <2>2 DEF RowInv
  <2> QED  BY <2>1, <2>2 DEF PollStep, PollStart, ReadEntry, ReadWord
<1> QED
  BY <1>1, <1>2, <1>3 DEF IndexInv, MapInv, MappingInv, ProgInv, OriginInv, NameInv

\* Handing out a new index disturbs no pair that already exists.
LEMMA AttrMapOne ==
  ASSUME AttrInv, NEW c \in DOMAIN todo, MapOne(c),
         UNCHANGED <<worldVars, traceVars, updVars, pollVars>>
  PROVE  IndexInv' /\ MappingInv' /\ \A d, i : HasIdx(d, i) => HasIdx(d, i)'
<1> USE DEF AttrInv, HasIdx
<1>1. UNCHANGED mappings
  BY DEF updVars
<1>2. CASE ~HasCgroup(c)
  BY <1>1, <1>2 DEF MapOne, IndexInv, MappingInv
<1>3. CASE HasCgroup(c)
  <2>1. idxByCid' = Put(idxByCid, c, IndexFor(c)) /\ nextIdx \in Nat
    BY <1>3, NextIdxIsNat DEF MapOne
  <2>2. CASE c \in DOMAIN idxByCid
    <3>1. DOMAIN idxByCid' = DOMAIN idxByCid
          /\ \A d \in DOMAIN idxByCid : idxByCid'[d] = idxByCid[d]
      BY <2>1, <2>2 DEF Put, IndexFor, At
    <3>2. nextIdx' = nextIdx
      BY <1>3, <2>2 DEF MapOne, NextIndex
    <3>3. IndexInv' /\ \A d, i : HasIdx(d, i) => HasIdx(d, i)'
      BY <3>1, <3>2 DEF IndexInv
    <3>4. MappingInv'
      BY <1>1, <1>3, <2>2, <3>1 DEF MapOne, MappingInv, Owner, CgroupOf
    <3> QED  BY <3>3, <3>4
  <2>3. CASE c \notin DOMAIN idxByCid
    <3>1. DOMAIN idxByCid' = DOMAIN idxByCid \cup {c} /\ idxByCid'[c] = nextIdx
          /\ \A d \in DOMAIN idxByCid : idxByCid'[d] = idxByCid[d]
      BY <2>1, <2>3 DEF Put, IndexFor, At
    <3>2. nextIdx' = nextIdx + 1
      BY <1>3, <2>3 DEF MapOne, NextIndex
    <3>3. \A d \in DOMAIN idxByCid : idxByCid[d] \in Nat
      BY DEF TInv, TypeOK, IsMap
    <3>4. IndexInv'
      BY <2>1, <3>1, <3>2, <3>3 DEF IndexInv
    <3>5. MappingInv'
      BY <1>1, <1>3, <3>1 DEF MapOne, MappingInv, Owner, CgroupOf
    <3> QED  BY <3>1, <3>4, <3>5
  <2> QED  BY <2>2, <2>3
<1> QED  BY <1>2, <1>3

LEMMA AttrStep ==
  ASSUME AttrInv, [Next]_vars
  PROVE  AttrInv'
<1> DEFINE Kept == UNCHANGED <<cgidMap, prog, origin, idxToCid, snap>>
<1>0. TInv'
  BY TypeStep DEF AttrInv
<1>1. ASSUME Kept, Unindexed, UNCHANGED <<found, mappings>>
      PROVE  AttrInv'
  BY <1>0, <1>1 DEF AttrInv, HasIdx, Unindexed, IndexInv, MapInv, MappingInv,
     ProgInv, OriginInv, NameInv, RowInv
<1>2. ASSUME NEW c \in Cids, Start(c) \/ Stop(c)
      PROVE  AttrInv'
  BY <1>1, <1>2 DEF Start, Stop, traceVars, updVars, pollVars, agentVars, Unindexed
<1>3. ASSUME NEW p \in Cpus, Syscall(p)
      PROVE  AttrInv'
  <2>1. UNCHANGED <<idxByCid, nextIdx, found, mappings, idxToCid, snap>>
    BY <1>3 DEF Syscall, updVars, pollVars, agentVars
  <2> QED
    BY <1>0, <1>3, <2>1, AttrTraceStep DEF AttrInv, HasIdx, IndexInv, MapInv,
       MappingInv, NameInv, RowInv
<1>4. ASSUME Refresh, UNCHANGED <<worldVars, traceVars, updVars, pollVars>>
      PROVE  AttrInv'
  BY <1>1, <1>4 DEF Refresh, traceVars, updVars, pollVars, Unindexed
<1>5. ASSUME NEW c \in DOMAIN todo, MapOne(c),
             UNCHANGED <<worldVars, traceVars, updVars, pollVars>>
      PROVE  AttrInv'
  <2>1. Kept
    BY <1>5 DEF traceVars, updVars, pollVars
  <2>2. IndexInv' /\ MappingInv' /\ \A d, i : HasIdx(d, i) => HasIdx(d, i)'
    BY <1>5, AttrMapOne
  <2>3. MapInv' /\ ProgInv' /\ OriginInv' /\ NameInv' /\ RowInv'
    BY <2>1, <2>2 DEF AttrInv, MapInv, ProgInv, OriginInv, NameInv, RowInv
  <2> QED  BY <1>0, <2>2, <2>3 DEF AttrInv
<1>6. ASSUME EndBuild, UNCHANGED <<worldVars, traceVars, pollVars>>
      PROVE  AttrInv'
  <2>1. Kept /\ Unindexed
    BY <1>6 DEF EndBuild, BeginUpdate, traceVars, updVars, pollVars, Unindexed
  <2>2. MappingInv'
    BY <1>6, <2>1 DEF EndBuild, BeginUpdate, updVars, AttrInv, MappingInv, HasIdx, Unindexed
  <2> QED
    BY <1>0, <2>1, <2>2 DEF AttrInv, HasIdx, Unindexed, IndexInv, MapInv, ProgInv,
       OriginInv, NameInv, RowInv
<1>7. CASE AgentStep
  BY <1>4, <1>5, <1>6, <1>7, AttrUpdateStep DEF AgentStep
<1>8. CASE Poll
  BY <1>8, AttrPollStep DEF Poll
<1>9. CASE UNCHANGED vars
  BY <1>1, <1>9 DEF vars, traceVars, updVars, pollVars, agentVars, Unindexed
<1> QED  BY <1>2, <1>3, <1>7, <1>8, <1>9 DEF Next

LEMMA AttrImplies == AttrInv => RowsOfOwnContainer
BY DEF AttrInv, OriginInv, RowInv, IndexInv, HasIdx, RowsOfOwnContainer, At

\* No row that names a container holds a system call of another one, however
\* containers restart and updates fail half-way, but for calls of an instance
\* whose element of cgid_map was given to another entry while it used it.
THEOREM Attribution == Spec => []RowsOfOwnContainer
<1>1. Init => AttrInv
  BY AttrInit
<1>2. AttrInv /\ [Next]_vars => AttrInv'
  BY AttrStep
<1> QED  BY <1>1, <1>2, AttrImplies, PTL DEF Spec

-----------------------------------------------------------------------------
(* Rows without a name.  The program counts for an index from its first Put    *)
(* on, so an index that is counted, or on its way to be, is one that the       *)
(* update in progress has written or an earlier one did; and while no update is*)
(* in progress, which is when pollOnce gives names, it is the latter.          *)

Written == {m.idx : m \in mappings \ toPut}

Known == settled \cup Written

MapKnown == \A g \in DOMAIN cgidMap : cgidMap[g] \in Known

ProgKnown == \A p \in DOMAIN prog : prog[p].idx \in Known

CountsKnown == DOMAIN hist \subseteq Known /\ DOMAIN current \subseteq Known

SettleInv ==
  /\ TInv
  /\ upd = "off" => mappings = {}
  /\ MapKnown /\ ProgKnown /\ CountsKnown
  /\ HostRowsSettled

LEMMA SettleInit == Init => SettleInv
BY TypeInit DEF Init, TraceInit, CollectorInit, EmptyMap, SettleInv, MapKnown,
   ProgKnown, CountsKnown, HostRowsSettled

LEMMA SettleTraceStep ==
  ASSUME SettleInv, NEW p \in Cpus, Syscall(p)
  PROVE  SettleInv'
<1> USE DEF SettleInv
<1>0. TInv'
  BY TypeStep DEF Next
<1>1. Known' = Known /\ UNCHANGED <<cgidMap, current, snap, upd, mappings, settled>>
  <2>1. UNCHANGED <<current, snap, upd, mappings, toPut, settled>>
    BY DEF Syscall, updVars, pollVars, scanVars
  <2>2. UNCHANGED cgidMap
    BY DEF Syscall, Enter, TraceStep, LookupCounts, CreateCounts, LookupAgain, CountTotal,
       CountBucket
  <2> QED  BY <2>1, <2>2 DEF Known, Written
<1>2. ASSUME NEW pc, Goto(p, pc), p \in DOMAIN prog
      PROVE  ProgKnown'
  <2>1. DOMAIN prog' = DOMAIN prog
    BY <1>2 DEF Goto
  <2>2. \A q \in DOMAIN prog : prog'[q].idx = prog[q].idx
    BY <1>2 DEF Goto, TInv, TypeOK, TraceTypeOK, IsMap, Instances
  <2> QED  BY <1>1, <2>1, <2>2 DEF ProgKnown
<1>3. ASSUME prog' = Drop(prog, {p})
      PROVE  ProgKnown'
  BY <1>1, <1>3 DEF ProgKnown, Drop
<1>4. ProgKnown'
  <2>1. ASSUME NEW c \in up, Enter(p, CgroupOf(c)) PROVE ProgKnown'
    BY <1>1, <2>1 DEF Enter, Put, ProgKnown, MapKnown
  <2> QED
    BY <1>2, <1>3, <2>1 DEF Syscall, TraceStep, LookupCounts, CreateCounts, LookupAgain,
       CountTotal, CountBucket
<1>5. DOMAIN hist' \subseteq Known
  <2>1. CASE CreateCounts(p)
    BY <2>1 DEF CreateCounts, CreateIfAbsent, Put, ProgKnown, CountsKnown
  <2>2. CASE DOMAIN hist' = DOMAIN hist
    BY <2>2 DEF CountsKnown
  <2> QED
    BY <2>1, <2>2 DEF Syscall, TraceStep, Enter, LookupCounts, LookupAgain, CountTotal,
       CountBucket
<1> QED
  BY <1>0, <1>1, <1>4, <1>5 DEF MapKnown, CountsKnown, HostRowsSettled

LEMMA SettleUpdateStep ==
  ASSUME SettleInv, UpdateStep, UNCHANGED <<worldVars, agentVars>>
  PROVE  SettleInv'
<1> USE DEF SettleInv
<1>0. TInv' /\ UNCHANGED <<hist, current, snap>>
  <2>1. UNCHANGED hist
    BY DEF UpdateStep, PutOne, PutFails, CleanVisit, CommitUpdate, traceVars
  <2> QED  BY <2>1, UpdateStepType DEF UpdateStep, pollVars, scanVars
<1>1. ASSUME Known \subseteq Known', settled \subseteq settled',
             upd' = "off" => mappings' = {}, MapKnown', ProgKnown'
      PROVE  SettleInv'
  BY <1>0, <1>1 DEF CountsKnown, HostRowsSettled
<1>2. ASSUME NEW m \in toPut, PutOne(m)
      PROVE  SettleInv'
  <2>1. m \in mappings /\ m.idx \in Known' /\ Known \subseteq Known'
        /\ settled' = settled /\ upd' # "off"
    BY <1>2 DEF PutOne, Known, Written, TInv, TypeOK, CollectorTypeOK
  <2>2. MapKnown'
    BY <1>2, <2>1 DEF PutOne, Put, MapKnown
  <2>3. ProgKnown'
    <3>1. Rewritten(prog', {m.idx})
      BY <1>2, PutOneRewrites DEF TInv
    <3> QED  BY <2>1, <3>1 DEF Rewritten, ProgKnown
  <2> QED  BY <1>1, <2>1, <2>2, <2>3
<1>3. ASSUME NEW m \in toPut, PutFails(m)
      PROVE  SettleInv'
  <2>1. /\ settled' = settled \cup Written /\ Written' = {}
        /\ mappings' = {} /\ UNCHANGED <<cgidMap, prog>>
    BY <1>3 DEF PutFails, Written, traceVars
  <2>2. Known' = Known
    BY <2>1 DEF Known
  <2> QED  BY <1>1, <2>1, <2>2 DEF MapKnown, ProgKnown
<1>4. ASSUME NEW g \in DOMAIN cgidMap, CleanVisit(g)
      PROVE  SettleInv'
  <2>1. Known' = Known /\ UNCHANGED <<settled, upd, mappings>>
    BY <1>4 DEF CleanVisit, Known, Written
  <2>2. MapKnown'
    BY <1>4, <2>1 DEF CleanVisit, Drop, MapKnown
  <2>3. ProgKnown'
    <3>1. Rewritten(prog', {})
      BY <1>4, CleanVisitRewrites DEF TInv
    <3> QED  BY <2>1, <3>1 DEF Rewritten, ProgKnown
  <2> QED  BY <1>1, <2>1, <2>2, <2>3
<1>5. CASE CommitUpdate
  <2>1. /\ settled' = settled \cup DOMAIN NewIdx(mappings)
        /\ mappings' = {} /\ UNCHANGED <<cgidMap, prog>>
    BY <1>5 DEF CommitUpdate, traceVars
  <2>2. Known \subseteq settled'
    BY <2>1 DEF Known, Written, NewIdx
  <2> QED  BY <1>1, <2>1, <2>2 DEF Known, MapKnown, ProgKnown
<1> QED  BY <1>2, <1>3, <1>4, <1>5 DEF UpdateStep

LEMMA SettlePollStep ==
  ASSUME SettleInv, PollStep, UNCHANGED <<worldVars, agentVars>>
  PROVE  SettleInv'
<1> USE DEF SettleInv
<1>0. TInv' /\ UNCHANGED <<cgidMap, prog, hist, upd, mappings, settled>> /\ Known' = Known
  BY PollStepType DEF PollStep, traceVars, updVars, Known, Written
<1>1. MapKnown' /\ ProgKnown'
  BY <1>0 DEF MapKnown, ProgKnown
<1>2. CountsKnown'
  <2>1. DOMAIN current' \subseteq Known
    <3>1. ASSUME NEW w \in unread, ReadWord(w[1], w[2]) PROVE DOMAIN current' \subseteq Known
      BY <3>1 DEF ReadWord, Put, CountsKnown, TInv, PhaseOK
    <3>2. CASE current' = EmptyMap
      BY <3>2 DEF EmptyMap
    <3>3. CASE UNCHANGED current
      BY <3>3 DEF CountsKnown
    <3> QED  BY <3>1, <3>2, <3>3 DEF PollStep, PollStart, ReadEntry, PollCommit
  <2> QED  BY <1>0, <2>1 DEF CountsKnown
<1>3. HostRowsSettled'
  <2>1. CASE PollCommit
    <3>1. mappings = {} /\ Known = settled
      BY <2>1 DEF PollCommit, MutexFree, Known, Written
    <3>2. \A r \in snap' : r.idx \in DOMAIN current
      BY <2>1 DEF PollCommit, NewRows, Reportable
    <3> QED  BY <1>0, <3>1, <3>2 DEF CountsKnown, HostRowsSettled
  <2>2. CASE UNCHANGED snap
    BY <1>0, <2>2 DEF HostRowsSettled
  <2> QED  BY <2>1, <2>2 DEF PollStep, PollStart, ReadEntry, ReadWord
<1> QED  BY <1>0, <1>1, <1>2, <1>3

LEMMA SettleStep == SettleInv /\ [Next]_vars => SettleInv'
<1> SUFFICES ASSUME SettleInv, [Next]_vars PROVE SettleInv'
  OBVIOUS
<1>0. TInv'
  BY TypeStep DEF SettleInv
<1>1. ASSUME UNCHANGED <<traceVars, updVars, pollVars>>
      PROVE  SettleInv'
  BY <1>0, <1>1 DEF traceVars, updVars, pollVars, scanVars, SettleInv, Known, Written,
     MapKnown, ProgKnown, CountsKnown, HostRowsSettled
<1>2. ASSUME NEW c \in Cids, Start(c) \/ Stop(c) PROVE SettleInv'
  BY <1>1, <1>2 DEF Start, Stop
<1>3. CASE AgentStep
  <2>1. ASSUME BeginUpdate(found), UNCHANGED <<traceVars, pollVars>>
        PROVE  SettleInv'
    <3>1. Known' = Known /\ settled' = settled /\ upd' # "off"
      BY <2>1 DEF BeginUpdate, SettleInv, Known, Written
    <3> QED
      BY <1>0, <2>1, <3>1 DEF traceVars, pollVars, scanVars, SettleInv, MapKnown,
         ProgKnown, CountsKnown, HostRowsSettled
  <2>2. CASE EndBuild /\ UNCHANGED <<worldVars, traceVars, pollVars>>
    BY <1>1, <2>1, <2>2 DEF EndBuild
  <2> QED  BY <1>1, <1>3, <2>2, SettleUpdateStep DEF AgentStep
<1>4. CASE UNCHANGED vars
  BY <1>1, <1>4 DEF vars
<1> QED  BY <1>2, <1>3, <1>4, SettleTraceStep, SettlePollStep DEF Next, Poll

\* A row without a container is for an index that an earlier update wrote:
\* however an update is interleaved with a poll or fails half-way, no index is
\* reported while its first update is under way.
THEOREM UnnamedRowsAreSettled == Spec => []HostRowsSettled
<1>1. SettleInv => HostRowsSettled
  BY DEF SettleInv
<1> QED  BY <1>1, SettleInit, SettleStep, PTL DEF Spec

-----------------------------------------------------------------------------
(* Monotone counters *)

Grows ==
  \A i \in DOMAIN hist :
    /\ i \in DOMAIN hist'
    /\ \A p \in Cpus, f \in Fields : hist'[i][p][f] >= hist[i][p][f]

LEMMA HistGrows ==
  ASSUME TypeOK, [Next]_vars
  PROVE  Grows
<1>0. \A i \in DOMAIN hist, p \in Cpus, f \in Fields : hist[i][p][f] \in Nat
  BY DEF TypeOK, TraceTypeOK, IsMap, Counts
<1>1. CASE UNCHANGED hist
  BY <1>0, <1>1 DEF Grows
<1>2. ASSUME NEW j, NEW q, NEW g \in Fields,
             hist' = [hist EXCEPT ![j][q][g] = @ + 1]
      PROVE  Grows
  <2> SUFFICES ASSUME NEW i \in DOMAIN hist, NEW p \in Cpus, NEW f \in Fields
               PROVE  i \in DOMAIN hist' /\ hist'[i][p][f] >= hist[i][p][f]
    BY <1>2 DEF Grows
  <2>1. hist[i][p][f] \in Nat /\ hist[i] \in [Cpus -> Counts] /\ hist[i][p] \in Counts
    BY <1>0 DEF TypeOK, TraceTypeOK, IsMap
  <2> QED  BY <1>2, <2>1 DEF Counts
<1>3. ASSUME NEW j, hist' = CreateIfAbsent(j)
      PROVE  Grows
  BY <1>0, <1>3 DEF Grows, CreateIfAbsent, Put
<1>4. ASSUME NEW p \in Cpus, Syscall(p)
      PROVE  Grows
  <2>1. CASE CreateCounts(p)
    BY <1>3, <2>1 DEF CreateCounts
  <2>2. CASE CountTotal(p)
    BY <1>2, <2>2 DEF CountTotal, Fields
  <2>3. ASSUME NEW b \in Buckets, CountBucket(p, b) PROVE Grows
    BY <1>2, <2>3 DEF CountBucket, Fields
  <2>4. CASE UNCHANGED hist
    BY <1>1, <2>4
  <2> QED
    BY <1>4, <2>1, <2>2, <2>3, <2>4 DEF Syscall, TraceStep, Enter, LookupCounts, LookupAgain
<1>5. ASSUME NEW c \in Cids, Start(c) \/ Stop(c) PROVE Grows
  BY <1>1, <1>5 DEF Start, Stop, traceVars
<1>6. CASE AgentStep
  BY <1>1, <1>6 DEF AgentStep, UpdateStep, PutOne, PutFails, CleanVisit, CommitUpdate,
     traceVars
<1>7. CASE Poll
  BY <1>1, <1>7 DEF Poll, PollStep, traceVars
<1>8. CASE UNCHANGED vars
  BY <1>1, <1>8 DEF vars, traceVars
<1> QED  BY <1>4, <1>5, <1>6, <1>7, <1>8 DEF Next

\* Histogram entries and counters never vanish or decrease.
THEOREM CountersGrow == Spec => CountersOnlyGrow
<1>1. TypeOK /\ [Next]_vars => [Grows]_vars
  BY HistGrows
<1> QED  BY <1>1, TypeCorrect, PTL DEF Spec, CountersOnlyGrow, Grows
-----------------------------------------------------------------------------
(* Every call is accounted for.  An instance on its way to total has a         *)
(* histogram to write to, and the map never outgrows its capacity; that is what*)
(* makes each step take a call from one place and put it in exactly one other. *)

TotalCounted == SumFunction([i \in DOMAIN hist |-> Counted(i, "total")])

OnTheWay == {p \in DOMAIN prog : prog[p].pc # "bucket"}

\* p has a histogram to count in.
Placed(p) == prog[p].pc \in {"total", "bucket"} => prog[p].idx \in DOMAIN hist

\* p, looking up the entry it tried to create, will find it or the map is full.
Tried(p) ==
  prog[p].pc = "again" /\ ~prog[p].rewritten =>
    prog[p].idx \in DOMAIN hist \/ Cardinality(DOMAIN hist) = MaxIdx

HistInv ==
  /\ IsFiniteSet(DOMAIN hist) /\ Cardinality(DOMAIN hist) <= MaxIdx
  /\ \A p \in DOMAIN prog : Placed(p) /\ Tried(p)

CallInv == TInv /\ HistInv /\ EveryCallAccounted

LEMMA CallInit == Init => CallInv
<1> SUFFICES ASSUME Init PROVE CallInv
  OBVIOUS
<1>1. /\ hist = EmptyMap /\ prog = EmptyMap /\ issued = 0 /\ DOMAIN EmptyMap = {}
      /\ dropped[FALSE] = 0 /\ dropped[TRUE] = 0
  BY DEF Init, TraceInit, EmptyMap
<1>2. IsFiniteSet({}) /\ Cardinality({}) = 0
  BY FS_EmptySet
<1>3. TotalCounted = 0
  BY <1>1, <1>2, FunSumOfZeros DEF TotalCounted
<1>4. OnTheWay = {}
  BY <1>1 DEF OnTheWay
<1> QED
  BY <1>1, <1>2, <1>3, <1>4, TypeInit, TraceAssumption
     DEF CallInv, HistInv, EveryCallAccounted, TotalCounted, OnTheWay

LEMMA CountedIsNat ==
  ASSUME TypeOK, NEW i, NEW f \in Fields
  PROVE  /\ Counted(i, f) \in Nat
         /\ i \in DOMAIN hist => [p \in Cpus |-> hist[i][p][f]] \in [Cpus -> Nat]
<1>1. ASSUME i \in DOMAIN hist
      PROVE  [p \in Cpus |-> hist[i][p][f]] \in [Cpus -> Nat]
  BY <1>1 DEF TypeOK, TraceTypeOK, IsMap, Counts
<1> QED  BY <1>1, FunSumIsNat, TraceAssumption DEF Counted

LEMMA TotalIsNat ==
  ASSUME TypeOK, IsFiniteSet(DOMAIN hist)
  PROVE  TotalCounted \in Nat
<1>1. [i \in DOMAIN hist |-> Counted(i, "total")] \in [DOMAIN hist -> Nat]
  BY CountedIsNat DEF Fields
<1> QED  BY <1>1, FunSumIsNat DEF TotalCounted

LEMMA TotalsAreNat == TypeOK => \A i : Counted(i, "total") \in Nat
BY CountedIsNat DEF Fields

LEMMA TotalsAreNatNext == (TypeOK => \A i : Counted(i, "total") \in Nat)'
BY TotalsAreNat, PTL

\* A new entry counts nothing yet.
LEMMA NewEntryCountsNothing ==
  ASSUME CallInv, TInv', NEW i \in Nat, i \notin DOMAIN hist, hist' = Put(hist, i, ZeroEntry)
  PROVE  /\ TotalCounted' = TotalCounted
         /\ IsFiniteSet(DOMAIN hist') /\ Cardinality(DOMAIN hist') = Cardinality(DOMAIN hist) + 1
<1> DEFINE f == [j \in DOMAIN hist |-> Counted(j, "total")]
           e == [j \in DOMAIN hist' |-> Counted(j, "total")']
<1>1. /\ DOMAIN hist' = DOMAIN hist \cup {i} /\ hist'[i] = ZeroEntry
      /\ \A j \in DOMAIN hist : hist'[j] = hist[j]
  BY DEF Put
<1>2. IsFiniteSet(DOMAIN hist)
  BY DEF CallInv, HistInv
<1>3. IsFiniteSet(DOMAIN hist') /\ Cardinality(DOMAIN hist') = Cardinality(DOMAIN hist) + 1
  BY <1>1, <1>2, FS_AddElement
<1>4. e[i] = 0
  <2>1. e[i] = SumFunction([p \in Cpus |-> hist'[i][p]["total"]])
    BY <1>1 DEF Counted
  <2>2. \A p \in Cpus : hist'[i][p]["total"] = 0
    BY <1>1 DEF ZeroEntry, ZeroCounts, Fields
  <2> QED  BY <2>1, <2>2, FunSumOfZeros, TraceAssumption
<1>5. \A j \in DOMAIN hist' \ {i} : e[j] = f[j]
  BY <1>1 DEF Counted
<1>6. \A j \in DOMAIN hist' : e[j] \in Int
  <2>1. \A j : Counted(j, "total")' \in Nat
    BY TotalsAreNatNext DEF TInv
  <2> QED  BY <2>1
<1> HIDE DEF e, f
<1>7. SumFunctionOnSet(e, DOMAIN hist') = e[i] + SumFunctionOnSet(f, DOMAIN hist' \ {i})
  BY <1>1, <1>3, <1>5, <1>6, SumAdds
<1>8. DOMAIN hist' \ {i} = DOMAIN hist
  BY <1>1
<1>9. SumFunctionOnSet(f, DOMAIN hist) = TotalCounted
  BY DEF f, TotalCounted, SumFunction
<1>10. SumFunctionOnSet(e, DOMAIN hist') = TotalCounted'
  BY DEF e, TotalCounted, SumFunction
<1>11. TotalCounted \in Nat
  BY <1>2, TotalIsNat DEF CallInv, TInv
<1> QED  BY <1>3, <1>4, <1>7, <1>8, <1>9, <1>10, <1>11

\* An increment of one word is an increment of the histogram's counter.
LEMMA WordCounts ==
  ASSUME TypeOK, TypeOK', NEW j \in DOMAIN hist, NEW p \in Cpus, NEW g \in Fields,
         hist' = [hist EXCEPT ![j][p][g] = @ + 1]
  PROVE  /\ DOMAIN hist' = DOMAIN hist
         /\ \A i : \A f \in Fields : i # j \/ f # g => Counted(i, f)' = Counted(i, f)
         /\ Counted(j, g)' = Counted(j, g) + 1
<1>1. \A i \in DOMAIN hist : hist[i] \in [Cpus -> Counts]
  BY DEF TypeOK, TraceTypeOK, IsMap
<1>2. /\ DOMAIN hist' = DOMAIN hist
      /\ \A i \in DOMAIN hist, q \in Cpus, f \in Fields :
           hist'[i][q][f] = IF i = j /\ q = p /\ f = g THEN hist[i][q][f] + 1 ELSE hist[i][q][f]
  BY <1>1 DEF Counts
<1>3. ASSUME NEW i, NEW f \in Fields, i # j \/ f # g
      PROVE  Counted(i, f)' = Counted(i, f)
  <2>1. CASE i \in DOMAIN hist
    <3>1. [q \in Cpus |-> hist'[i][q][f]] = [q \in Cpus |-> hist[i][q][f]]
      BY <1>2, <1>3, <2>1
    <3> QED  BY <1>2, <2>1, <3>1 DEF Counted
  <2>2. CASE i \notin DOMAIN hist
    BY <1>2, <2>2 DEF Counted
  <2> QED  BY <2>1, <2>2
<1>4. Counted(j, g)' = Counted(j, g) + 1
  <2> DEFINE a == [q \in Cpus |-> hist[j][q][g]]
             b == [q \in Cpus |-> hist'[j][q][g]]
  <2>0. a \in [Cpus -> Nat]
    BY CountedIsNat
  <2>1. a \in [Cpus -> Int] /\ b \in [Cpus -> Int]
        /\ (\A q \in Cpus : q # p => b[q] = a[q]) /\ b[p] = a[p] + 1 /\ a[p] \in Int
    BY <1>2, <2>0
  <2>2. Counted(j, g) = SumFunction(a) /\ Counted(j, g)' = SumFunction(b)
    BY <1>2 DEF Counted
  <2> HIDE DEF a, b
  <2>3. SumFunction(b) = SumFunction(a) - a[p] + b[p] /\ SumFunction(a) \in Int
    BY <2>1, FunSumChanges, FunSumIsInt, TraceAssumption
  <2> QED  BY <2>1, <2>2, <2>3
<1> QED  BY <1>2, <1>3, <1>4

LEMMA TotalCounts ==
  ASSUME CallInv, TypeOK', NEW j \in DOMAIN hist, NEW p \in Cpus, NEW g \in Fields,
         hist' = [hist EXCEPT ![j][p][g] = @ + 1]
  PROVE  /\ DOMAIN hist' = DOMAIN hist
         /\ TotalCounted' = IF g = "total" THEN TotalCounted + 1 ELSE TotalCounted
<1> DEFINE a == [i \in DOMAIN hist |-> Counted(i, "total")]
           b == [i \in DOMAIN hist |-> Counted(i, "total")']
<1>1. /\ DOMAIN hist' = DOMAIN hist
      /\ \A i : i # j \/ g # "total" => Counted(i, "total")' = Counted(i, "total")
      /\ g = "total" => Counted(j, "total")' = Counted(j, "total") + 1
  <2>1. TypeOK /\ "total" \in Fields
    BY DEF CallInv, TInv, Fields
  <2>2. /\ DOMAIN hist' = DOMAIN hist
        /\ \A i : \A f \in Fields : i # j \/ f # g => Counted(i, f)' = Counted(i, f)
        /\ Counted(j, g)' = Counted(j, g) + 1
    BY <2>1, WordCounts
  <2> QED  BY <2>1, <2>2
<1>2. IsFiniteSet(DOMAIN hist) /\ TotalCounted \in Nat
  BY TotalIsNat DEF CallInv, TInv, HistInv
<1>3. TotalCounted = SumFunction(a) /\ TotalCounted' = SumFunction(b)
  BY <1>1 DEF TotalCounted
<1>4. CASE g # "total"
  BY <1>1, <1>3, <1>4
<1>5. CASE g = "total"
  <2>1. \A i : Counted(i, "total") \in Nat
    BY CountedIsNat DEF CallInv, TInv, Fields
  <2>2. a \in [DOMAIN hist -> Int] /\ b \in [DOMAIN hist -> Int]
        /\ (\A i \in DOMAIN hist : i # j => b[i] = a[i]) /\ b[j] = a[j] + 1 /\ a[j] \in Int
    BY <1>1, <1>5, <2>1
  <2> HIDE DEF a, b
  <2>3. SumFunction(b) = SumFunction(a) - a[j] + b[j]
    BY <1>2, <2>2, FunSumChanges
  <2> QED  BY <1>1, <1>2, <1>3, <1>5, <2>2, <2>3
<1> QED  BY <1>1, <1>4, <1>5

\* One instance less, or one more, on its way.
LEMMA WayChanges ==
  ASSUME TypeOK, NEW p \in Cpus
  PROVE  /\ IsFiniteSet(OnTheWay) /\ Cardinality(OnTheWay) \in Nat
         /\ p \in OnTheWay => Cardinality(OnTheWay \ {p}) + 1 = Cardinality(OnTheWay)
         /\ p \notin OnTheWay => Cardinality(OnTheWay \cup {p}) = Cardinality(OnTheWay) + 1
<1>1. OnTheWay \subseteq Cpus
  BY DEF OnTheWay, TypeOK, TraceTypeOK, IsMap
<1>2. IsFiniteSet(OnTheWay)
  BY <1>1, FS_Subset, TraceAssumption
<1>3. Cardinality(OnTheWay) \in Nat
  BY <1>2, FS_CardinalityType
<1>4. p \in OnTheWay => Cardinality(OnTheWay \ {p}) = Cardinality(OnTheWay) - 1
  BY <1>2, FS_RemoveElement
<1>5. p \notin OnTheWay => Cardinality(OnTheWay \cup {p}) = Cardinality(OnTheWay) + 1
  BY <1>2, FS_AddElement
<1> QED  BY <1>2, <1>3, <1>4, <1>5

\* Calls dropped by instances as they were, and by rewritten ones.
Refused == dropped[FALSE]

Misled == dropped[TRUE]

Balanced == issued = TotalCounted + Cardinality(OnTheWay) + Refused + Misled

FullIfDropped == Refused > 0 => Cardinality(DOMAIN hist) = MaxIdx

LEMMA CallParts == EveryCallAccounted <=> Balanced /\ FullIfDropped
BY DEF EveryCallAccounted, TotalCounted, OnTheWay, Balanced, FullIfDropped, Refused, Misled

LEMMA DroppedOne ==
  ASSUME TypeOK, NEW w \in BOOLEAN, dropped' = [dropped EXCEPT ![w] = @ + 1]
  PROVE  /\ Refused' = IF w THEN Refused ELSE Refused + 1
         /\ Misled' = IF w THEN Misled + 1 ELSE Misled
<1>1. dropped \in [BOOLEAN -> Nat]
  BY DEF TypeOK, TraceTypeOK
<1>2. CASE w = TRUE
  <2>1. dropped' = [dropped EXCEPT ![TRUE] = @ + 1]
    BY <1>2
  <2>2. dropped'[TRUE] = dropped[TRUE] + 1 /\ dropped'[FALSE] = dropped[FALSE]
    BY <1>1, <2>1
  <2> QED  BY <1>2, <2>2 DEF Refused, Misled
<1>3. CASE w = FALSE
  <2>1. dropped' = [dropped EXCEPT ![FALSE] = @ + 1]
    BY <1>3
  <2>2. dropped'[FALSE] = dropped[FALSE] + 1 /\ dropped'[TRUE] = dropped[TRUE]
    BY <1>1, <2>1
  <2> QED  BY <1>3, <2>2 DEF Refused, Misled
<1> QED  BY <1>2, <1>3

LEMMA CallSyscall ==
  ASSUME CallInv, TInv', NEW p \in Cpus, Syscall(p)
  PROVE  HistInv' /\ Balanced' /\ FullIfDropped'
<1> DEFINE Full == Cardinality(DOMAIN hist) = MaxIdx
<1>1. /\ issued = TotalCounted + Cardinality(OnTheWay) + Refused + Misled
      /\ Refused > 0 => Full
      /\ IsFiniteSet(DOMAIN hist) /\ Cardinality(DOMAIN hist) <= MaxIdx
      /\ \A q \in DOMAIN prog : Placed(q) /\ Tried(q)
  BY CallParts DEF CallInv, HistInv, Balanced, FullIfDropped
<1>2. /\ TotalCounted \in Nat /\ Cardinality(OnTheWay) \in Nat
      /\ Refused \in Nat /\ Misled \in Nat
      /\ Cardinality(DOMAIN hist) \in Nat
      /\ p \in OnTheWay => Cardinality(OnTheWay \ {p}) + 1 = Cardinality(OnTheWay)
      /\ p \notin OnTheWay => Cardinality(OnTheWay \cup {p}) = Cardinality(OnTheWay) + 1
  BY <1>1, TotalIsNat, WayChanges, FS_CardinalityType DEF CallInv, TInv, TypeOK, TraceTypeOK,
     Refused, Misled
<1>13. dropped' = dropped => Refused' = Refused /\ Misled' = Misled
  BY DEF Refused, Misled
<1>3. \A q \in DOMAIN prog : prog[q] \in Instances
  BY DEF CallInv, TInv, TypeOK, TraceTypeOK, IsMap
<1>5. ASSUME NEW pc, p \in DOMAIN prog, Goto(p, pc)
      PROVE  /\ DOMAIN prog' = DOMAIN prog /\ prog'[p].pc = pc
             /\ \A q \in DOMAIN prog : /\ prog'[q].idx = prog[q].idx
                                       /\ prog'[q].rewritten = prog[q].rewritten
             /\ \A q \in DOMAIN prog : q # p => prog'[q] = prog[q]
  BY <1>3, <1>5 DEF Goto, Instances
<1>6. ASSUME hist' = hist
      PROVE  TotalCounted' = TotalCounted
  BY <1>6 DEF TotalCounted, Counted
<1>7. ASSUME NEW c \in up, Enter(p, CgroupOf(c))
      PROVE  HistInv' /\ Balanced' /\ FullIfDropped'
  <2>1. /\ p \notin DOMAIN prog /\ DOMAIN prog' = DOMAIN prog \cup {p}
        /\ prog'[p].pc = "found" /\ \A q \in DOMAIN prog : prog'[q] = prog[q]
    BY <1>7 DEF Enter, Put
  <2>2. OnTheWay' = OnTheWay \cup {p} /\ p \notin OnTheWay
    BY <2>1 DEF OnTheWay
  <2>3. issued' = issued + 1 /\ UNCHANGED <<hist, dropped>>
    BY <1>7 DEF Enter
  <2>5. Cardinality(OnTheWay') = Cardinality(OnTheWay) + 1 /\ TotalCounted' = TotalCounted
    BY <1>2, <1>6, <2>2, <2>3
  <2>4. Balanced' /\ FullIfDropped'
    BY <1>1, <1>2, <1>13, <2>3, <2>5 DEF Balanced, FullIfDropped
  <2> QED  BY <1>1, <2>1, <2>3, <2>4 DEF HistInv, Placed, Tried
<1>8. CASE LookupCounts(p)
  <2>1. p \in DOMAIN prog /\ prog[p].pc = "found" /\ UNCHANGED <<hist, issued, dropped>>
        /\ Goto(p, IF prog[p].idx \in DOMAIN hist THEN "total" ELSE "create")
    BY <1>8 DEF LookupCounts
  <2>2. OnTheWay' = OnTheWay
    BY <1>5, <2>1 DEF OnTheWay
  <2>3. Balanced' /\ FullIfDropped'
    BY <1>1, <1>6, <1>13, <2>1, <2>2 DEF Balanced, FullIfDropped
  <2>4. \A q \in DOMAIN prog' : Placed(q)' /\ Tried(q)'
    BY <1>1, <1>5, <2>1 DEF Placed, Tried
  <2> QED  BY <1>1, <2>1, <2>3, <2>4 DEF HistInv
<1>9. CASE CreateCounts(p)
  <2> DEFINE i == prog[p].idx
  <2>1. /\ p \in DOMAIN prog /\ prog[p].pc = "create" /\ Goto(p, "again")
        /\ hist' = CreateIfAbsent(i) /\ i \in Nat /\ UNCHANGED <<issued, dropped>>
    BY <1>3, <1>9 DEF CreateCounts, Instances
  <2>2. OnTheWay' = OnTheWay
    BY <1>5, <2>1 DEF OnTheWay
  <2>3. CASE i \in DOMAIN hist \/ ~(Cardinality(DOMAIN hist) < MaxIdx)
    <3>1. hist' = hist
      BY <2>1, <2>3 DEF CreateIfAbsent, HasRoom
    <3>2. Balanced' /\ FullIfDropped'
      BY <1>1, <1>6, <1>13, <2>1, <2>2, <3>1 DEF Balanced, FullIfDropped
    <3>3. i \in DOMAIN hist \/ Full
      BY <1>1, <1>2, <2>3, TraceAssumption
    <3>4. \A q \in DOMAIN prog' : Placed(q)' /\ Tried(q)'
      BY <1>1, <1>5, <2>1, <3>1, <3>3 DEF Placed, Tried
    <3> QED  BY <1>1, <3>1, <3>2, <3>4 DEF HistInv
  <2>4. CASE i \notin DOMAIN hist /\ Cardinality(DOMAIN hist) < MaxIdx
    <3>1. hist' = Put(hist, i, ZeroEntry)
      BY <2>1, <2>4 DEF CreateIfAbsent, HasRoom
    <3>2. /\ TotalCounted' = TotalCounted
          /\ IsFiniteSet(DOMAIN hist') /\ Cardinality(DOMAIN hist') = Cardinality(DOMAIN hist) + 1
      BY <2>1, <2>4, <3>1, NewEntryCountsNothing
    <3>3. DOMAIN hist \subseteq DOMAIN hist' /\ i \in DOMAIN hist'
      BY <3>1 DEF Put
    <3>4. ~Full /\ Cardinality(DOMAIN hist') <= MaxIdx
      BY <1>2, <2>4, <3>2, TraceAssumption
    <3>5. Balanced' /\ FullIfDropped'
      BY <1>1, <1>13, <2>1, <2>2, <3>2, <3>4 DEF Balanced, FullIfDropped
    <3>6. \A q \in DOMAIN prog' : Placed(q)' /\ Tried(q)'
      BY <1>1, <1>5, <2>1, <3>3, <3>4 DEF Placed, Tried
    <3> QED  BY <3>2, <3>4, <3>5, <3>6 DEF HistInv
  <2> QED  BY <2>3, <2>4
<1>12. CASE LookupAgain(p)
  <2> DEFINE i == prog[p].idx
             w == prog[p].rewritten
  <2>1. /\ p \in DOMAIN prog /\ prog[p].pc = "again" /\ p \in OnTheWay
        /\ UNCHANGED <<hist, issued>> /\ w \in BOOLEAN
    BY <1>3, <1>12 DEF LookupAgain, OnTheWay, Instances
  <2>2. CASE i \in DOMAIN hist
    <3>1. Goto(p, "total") /\ dropped' = dropped
      BY <1>12, <2>2 DEF LookupAgain
    <3>2. OnTheWay' = OnTheWay
      BY <1>5, <2>1, <3>1 DEF OnTheWay
    <3>3. Balanced' /\ FullIfDropped'
      BY <1>1, <1>6, <1>13, <2>1, <3>1, <3>2 DEF Balanced, FullIfDropped
    <3>4. \A q \in DOMAIN prog' : Placed(q)' /\ Tried(q)'
      BY <1>1, <1>5, <2>1, <2>2, <3>1 DEF Placed, Tried
    <3> QED  BY <1>1, <2>1, <3>3, <3>4 DEF HistInv
  <2>3. CASE i \notin DOMAIN hist
    <3>1. prog' = Drop(prog, {p}) /\ dropped' = [dropped EXCEPT ![w] = @ + 1]
      BY <1>12, <2>3 DEF LookupAgain
    <3>2. DOMAIN prog' = DOMAIN prog \ {p} /\ \A q \in DOMAIN prog' : prog'[q] = prog[q]
      BY <3>1 DEF Drop
    <3>3. OnTheWay' = OnTheWay \ {p}
      BY <3>2 DEF OnTheWay
    <3>4. Cardinality(OnTheWay') + 1 = Cardinality(OnTheWay)
      BY <1>2, <2>1, <3>3
    <3>5. Cardinality(OnTheWay \ {p}) \in Nat
      BY WayChanges, FS_RemoveElement, FS_CardinalityType DEF CallInv, TInv
    <3>6. /\ Refused' + Misled' = Refused + Misled + 1 /\ Refused' \in Nat /\ Misled' \in Nat
          /\ w => Refused' = Refused
      <4>1. /\ Refused' = IF w THEN Refused ELSE Refused + 1
            /\ Misled' = IF w THEN Misled + 1 ELSE Misled
        BY <2>1, <3>1, DroppedOne DEF CallInv, TInv
      <4> QED  BY <1>2, <4>1
    <3>7. Balanced'
      <4>1. TotalCounted' = TotalCounted /\ issued' = issued
        BY <1>6, <2>1
      <4>2. Cardinality(OnTheWay') \in Nat
        BY <3>3, <3>5
      <4> QED  BY <1>1, <1>2, <3>4, <3>6, <4>1, <4>2 DEF Balanced
    <3>8. ~w => Full
      BY <1>1, <2>1, <2>3 DEF Tried
    <3>9. FullIfDropped'
      BY <1>1, <2>1, <3>6, <3>8 DEF FullIfDropped
    <3>10. \A q \in DOMAIN prog' : Placed(q)' /\ Tried(q)'
      BY <1>1, <2>1, <3>2 DEF Placed, Tried
    <3> QED  BY <1>1, <2>1, <3>7, <3>9, <3>10 DEF HistInv
  <2> QED  BY <2>2, <2>3
<1>10. CASE CountTotal(p)
  <2> DEFINE i == prog[p].idx
  <2>1. /\ p \in DOMAIN prog /\ prog[p].pc = "total" /\ p \in OnTheWay /\ i \in DOMAIN hist
        /\ hist' = [hist EXCEPT ![i][p]["total"] = @ + 1] /\ Goto(p, "bucket")
        /\ UNCHANGED <<issued, dropped>>
    BY <1>1, <1>10 DEF CountTotal, OnTheWay, Placed
  <2>2. DOMAIN hist' = DOMAIN hist /\ TotalCounted' = TotalCounted + 1
    BY <2>1, TotalCounts DEF TInv, Fields
  <2>3. OnTheWay' = OnTheWay \ {p}
    BY <1>5, <2>1 DEF OnTheWay
  <2>4. Cardinality(OnTheWay \ {p}) \in Nat
    BY WayChanges, FS_RemoveElement, FS_CardinalityType DEF CallInv, TInv
  <2>7. Cardinality(OnTheWay') + 1 = Cardinality(OnTheWay) /\ Cardinality(OnTheWay') \in Nat
    BY <1>2, <2>1, <2>3, <2>4
  <2>5. Balanced' /\ FullIfDropped'
    BY <1>1, <1>2, <1>13, <2>1, <2>2, <2>7 DEF Balanced, FullIfDropped
  <2>6. \A q \in DOMAIN prog' : Placed(q)' /\ Tried(q)'
    BY <1>1, <1>5, <2>1, <2>2 DEF Placed, Tried
  <2> QED  BY <1>1, <2>2, <2>5, <2>6 DEF HistInv
<1>11. ASSUME NEW b \in Buckets, CountBucket(p, b)
       PROVE  HistInv' /\ Balanced' /\ FullIfDropped'
  <2> DEFINE i == prog[p].idx
  <2>1. /\ p \in DOMAIN prog /\ prog[p].pc = "bucket" /\ i \in DOMAIN hist
        /\ hist' = [hist EXCEPT ![i][p][b] = @ + 1] /\ prog' = Drop(prog, {p})
        /\ UNCHANGED <<issued, dropped>>
    BY <1>1, <1>11 DEF CountBucket, Placed
  <2>2. DOMAIN hist' = DOMAIN hist /\ TotalCounted' = TotalCounted
    BY <2>1, TotalCounts, TraceAssumption DEF TInv, Fields
  <2>3. DOMAIN prog' = DOMAIN prog \ {p} /\ \A q \in DOMAIN prog' : prog'[q] = prog[q]
    BY <2>1 DEF Drop
  <2>4. OnTheWay' = OnTheWay
    BY <2>1, <2>3 DEF OnTheWay
  <2>5. Balanced' /\ FullIfDropped'
    BY <1>1, <1>13, <2>1, <2>2, <2>4 DEF Balanced, FullIfDropped
  <2>6. \A q \in DOMAIN prog' : Placed(q)' /\ Tried(q)'
    BY <1>1, <2>2, <2>3 DEF Placed, Tried
  <2> QED  BY <1>1, <2>2, <2>5, <2>6 DEF HistInv
<1> QED  BY <1>7, <1>8, <1>9, <1>10, <1>11, <1>12 DEF Syscall, TraceStep

\* What the agent does changes no count; a recycled map element changes the
\* index an instance will read, but only while it still uses its pointer, and
\* the instance is a rewritten one from then on.
LEMMA CallElsewhere ==
  ASSUME CallInv, [Next]_vars, \A p \in Cpus : ~Syscall(p)
  PROVE  HistInv' /\ Balanced' /\ FullIfDropped'
<1>1. UNCHANGED <<hist, issued, dropped>>
  BY DEF Next, Start, Stop, AgentStep, EndBuild, BeginUpdate, UpdateStep, PutOne, PutFails, CleanVisit,
     CommitUpdate, Poll, PollStep, vars, traceVars
<1>2. PICK I : Rewritten(prog', I)
  BY OnlyRewritten DEF CallInv, TInv
<1>3. OnTheWay' = OnTheWay
  BY <1>2 DEF Rewritten, OnTheWay
<1>4. HistInv'
  BY <1>1, <1>2 DEF CallInv, HistInv, Rewritten, Looking, Placed, Tried
<1>5. TotalCounted' = TotalCounted
  BY <1>1 DEF TotalCounted, Counted
<1>6. Balanced /\ FullIfDropped
  BY CallParts DEF CallInv
<1> QED  BY <1>1, <1>3, <1>4, <1>5, <1>6 DEF Balanced, FullIfDropped, Refused, Misled

LEMMA CallPartsNext == (EveryCallAccounted <=> Balanced /\ FullIfDropped)'
BY CallParts, PTL

LEMMA CallStep == CallInv /\ [Next]_vars => CallInv'
<1> SUFFICES ASSUME CallInv, [Next]_vars PROVE CallInv'
  OBVIOUS
<1>1. TInv'
  BY TypeStep DEF CallInv
<1> QED  BY <1>1, CallSyscall, CallElsewhere, CallPartsNext DEF CallInv

\* However the instances on the CPUs, the agent's updates of cgid_map and its
\* reads interleave, no system call of a mapped cgroup is lost or counted twice.
THEOREM EveryCallHasAPlace == Spec => []EveryCallAccounted
<1>1. CallInv => EveryCallAccounted
  BY DEF CallInv
<1> QED  BY <1>1, CallInit, CallStep, PTL DEF Spec

-----------------------------------------------------------------------------
(* Torn reads.  A program that is between its two increments has counted one   *)
(* call more in total than in its buckets; a copy that has read total still    *)
(* owes the buckets it has not read, which only grow meanwhile.                *)

BucketsOf(w) == SumFunction([b \in Buckets |-> w[b]])

Torn(w) == w["total"] <= BucketsOf(w) + Cardinality(Cpus)

Begun(i, p) == IF p \in DOMAIN prog /\ prog[p].pc = "bucket" /\ prog[p].idx = i THEN 1 ELSE 0

\* What a copy of entry e owes when the words u are unread: of a CPU's buckets,
\* of the CPU, and of all.
Left(u, e, p) == SumFunction([b \in Buckets |-> IF <<p, b>> \in u THEN e[p][b] ELSE 0])

Owed(u, e, p) == IF <<p, "total">> \in u THEN 0 ELSE 1 + Left(u, e, p)

AllOwed(u, e) == SumFunction([p \in Cpus |-> Owed(u, e, p)])

WordsInv ==
  \A i \in DOMAIN hist, p \in Cpus :
    hist[i][p]["total"] <= BucketsOf(hist[i][p]) + Begun(i, p)

ReadInv ==
  /\ \A p \in Cpus : <<p, "total">> \in unread => \A b \in Buckets : <<p, b>> \in unread
  /\ unread # {} => sum["total"] <= BucketsOf(sum) + AllOwed(unread, hist[reading])

KeptInv ==
  /\ \A i \in DOMAIN current : Torn(current[i])
  /\ TornByOnePerCpu

TornInv == CallInv /\ WordsInv /\ ReadInv /\ KeptInv

LEMMA BucketsOfIsNat ==
  ASSUME NEW w \in Counts
  PROVE  BucketsOf(w) \in Nat /\ [b \in Buckets |-> w[b]] \in [Buckets -> Nat]
<1>1. [b \in Buckets |-> w[b]] \in [Buckets -> Nat]
  BY DEF Counts, Fields
<1> QED  BY <1>1, FunSumIsNat, TraceAssumption DEF BucketsOf

LEMMA BucketsOfAdded ==
  ASSUME NEW w \in Counts, NEW v \in Counts, NEW f \in Fields, NEW n \in Nat,
         v[f] = w[f] + n, \A x \in Fields : x # f => v[x] = w[x]
  PROVE  /\ f = "total" => v["total"] = w["total"] + n /\ BucketsOf(v) = BucketsOf(w)
         /\ f \in Buckets => v["total"] = w["total"] /\ BucketsOf(v) = BucketsOf(w) + n
<1> DEFINE a == [b \in Buckets |-> w[b]]
           e == [b \in Buckets |-> v[b]]
<1>1. /\ "total" \notin Buckets /\ "total" \in Fields /\ Buckets \subseteq Fields
      /\ \A x \in Fields : w[x] \in Nat
      /\ v[f] = w[f] + n /\ \A x \in Fields : x # f => v[x] = w[x]
  BY TraceAssumption DEF Fields, Counts
<1>2. CASE f = "total"
  <2>1. a = e
    BY <1>1, <1>2
  <2> QED  BY <1>1, <1>2, <2>1 DEF BucketsOf
<1>3. CASE f \in Buckets
  <2>1. /\ a \in [Buckets -> Int] /\ e \in [Buckets -> Int] /\ a[f] \in Int
        /\ e[f] = a[f] + n /\ \A x \in Buckets : x # f => e[x] = a[x]
    BY <1>1, <1>3
  <2>2. BucketsOf(w) = SumFunction(a) /\ BucketsOf(v) = SumFunction(e)
    BY DEF BucketsOf
  <2> HIDE DEF a, e
  <2>3. SumFunction(e) = SumFunction(a) - a[f] + e[f] /\ SumFunction(a) \in Int
    BY <1>3, <2>1, FunSumChanges, FunSumIsInt, TraceAssumption
  <2> QED  BY <1>1, <1>3, <2>1, <2>2, <2>3
<1> QED  BY <1>1, <1>2, <1>3

LEMMA OwedIsNat ==
  ASSUME NEW e \in [Cpus -> Counts], NEW u
  PROVE  /\ \A p \in Cpus : Left(u, e, p) \in Nat /\ Owed(u, e, p) \in Nat
         /\ AllOwed(u, e) \in Nat
<1>1. ASSUME NEW p \in Cpus
      PROVE  Left(u, e, p) \in Nat /\ Owed(u, e, p) \in Nat
  <2>1. [b \in Buckets |-> IF <<p, b>> \in u THEN e[p][b] ELSE 0] \in [Buckets -> Nat]
    BY DEF Counts, Fields
  <2>2. Left(u, e, p) \in Nat
    BY <2>1, FunSumIsNat, TraceAssumption DEF Left
  <2> QED  BY <2>2 DEF Owed
<1>2. [p \in Cpus |-> Owed(u, e, p)] \in [Cpus -> Nat]
  BY <1>1
<1> QED  BY <1>1, <1>2, FunSumIsNat, TraceAssumption DEF AllOwed

\* The program may go on: what is owed of a larger entry is not less.
LEMMA OwedGrows ==
  ASSUME NEW e \in [Cpus -> Counts], NEW v \in [Cpus -> Counts], NEW u,
         \A p \in Cpus, b \in Buckets : e[p][b] <= v[p][b]
  PROVE  AllOwed(u, e) <= AllOwed(u, v)
<1>1. ASSUME NEW p \in Cpus
      PROVE  Owed(u, e, p) <= Owed(u, v, p)
  <2> DEFINE f == [b \in Buckets |-> IF <<p, b>> \in u THEN e[p][b] ELSE 0]
             g == [b \in Buckets |-> IF <<p, b>> \in u THEN v[p][b] ELSE 0]
  <2>1. \A b \in Buckets : e[p][b] \in Nat /\ v[p][b] \in Nat
    BY DEF Counts, Fields
  <2>2. f \in [Buckets -> Int] /\ g \in [Buckets -> Int] /\ \A b \in Buckets : f[b] <= g[b]
    BY <2>1
  <2>3. Left(u, e, p) = SumFunction(f) /\ Left(u, v, p) = SumFunction(g)
    BY DEF Left
  <2> HIDE DEF f, g
  <2>4. Left(u, e, p) <= Left(u, v, p)
    BY <2>2, <2>3, FunSumLeq, TraceAssumption
  <2>5. Left(u, e, p) \in Nat /\ Left(u, v, p) \in Nat
    BY OwedIsNat
  <2> QED  BY <2>4, <2>5 DEF Owed
<1> DEFINE f == [p \in Cpus |-> Owed(u, e, p)]
           g == [p \in Cpus |-> Owed(u, v, p)]
<1>2. \A p \in Cpus : Owed(u, e, p) \in Nat /\ Owed(u, v, p) \in Nat
  BY OwedIsNat
<1>3. f \in [Cpus -> Int] /\ g \in [Cpus -> Int] /\ \A p \in Cpus : f[p] <= g[p]
  BY <1>1, <1>2
<1>4. AllOwed(u, e) = SumFunction(f) /\ AllOwed(u, v) = SumFunction(g)
  BY DEF AllOwed
<1> HIDE DEF f, g
<1> QED  BY <1>3, <1>4, FunSumLeq, TraceAssumption

\* Before the first word nothing is owed, after the last one a call per CPU.
LEMMA OwedAtEnds ==
  ASSUME NEW e \in [Cpus -> Counts]
  PROVE  /\ AllOwed(Cpus \X Fields, e) = 0
         /\ AllOwed({}, e) = Cardinality(Cpus)
<1>1. \A p \in Cpus : Owed(Cpus \X Fields, e, p) = 0
  BY DEF Owed, Fields
<1>2. ASSUME NEW p \in Cpus
      PROVE  Owed({}, e, p) = 1
  <2>1. Left({}, e, p) = 0
    BY FunSumOfZeros, TraceAssumption DEF Left
  <2> QED  BY <2>1 DEF Owed
<1>3. AllOwed(Cpus \X Fields, e) = 0
  BY <1>1, FunSumOfZeros, TraceAssumption DEF AllOwed
<1>4. AllOwed({}, e) = Cardinality(Cpus)
  BY <1>2, FunSumOfOnes, TraceAssumption DEF AllOwed
<1> QED  BY <1>3, <1>4

\* Reading a bucket pays a part of what is owed.
LEMMA BucketPays ==
  ASSUME NEW e \in [Cpus -> Counts], NEW u, NEW p \in Cpus, NEW c \in Buckets,
         <<p, c>> \in u, <<p, "total">> \notin u
  PROVE  AllOwed(u \ {<<p, c>>}, e) + e[p][c] = AllOwed(u, e)
<1> DEFINE w == u \ {<<p, c>>}
           f == [b \in Buckets |-> IF <<p, b>> \in u THEN e[p][b] ELSE 0]
           g == [b \in Buckets |-> IF <<p, b>> \in w THEN e[p][b] ELSE 0]
           h == [q \in Cpus |-> Owed(u, e, q)]
           k == [q \in Cpus |-> Owed(w, e, q)]
<1>1. \A b \in Buckets : e[p][b] \in Nat
  BY DEF Counts, Fields
<1>2. /\ f \in [Buckets -> Int] /\ g \in [Buckets -> Int]
      /\ f[c] = e[p][c] /\ g[c] = 0 /\ \A b \in Buckets : b # c => g[b] = f[b]
  BY <1>1
<1>3. Left(u, e, p) = SumFunction(f) /\ Left(w, e, p) = SumFunction(g)
  BY DEF Left
<1>4. c # "total" /\ \A q \in Cpus : q # p => \A x : <<q, x>> \in w <=> <<q, x>> \in u
  BY TraceAssumption
<1>5. \A q \in Cpus : q # p => Owed(w, e, q) = Owed(u, e, q)
  BY <1>4 DEF Owed, Left
<1>6. h[p] = 1 + Left(u, e, p) /\ k[p] = 1 + Left(w, e, p)
  BY <1>4 DEF Owed
<1>7. \A q \in Cpus : Owed(u, e, q) \in Nat /\ Owed(w, e, q) \in Nat
                      /\ Left(u, e, q) \in Nat /\ Left(w, e, q) \in Nat
  BY OwedIsNat
<1>8. h \in [Cpus -> Int] /\ k \in [Cpus -> Int] /\ \A q \in Cpus : q # p => k[q] = h[q]
  <2> HIDE DEF w, f, g
  <2> QED  BY <1>5, <1>7
<1>9. AllOwed(u, e) = SumFunction(h) /\ AllOwed(w, e) = SumFunction(k)
  BY DEF AllOwed
<1>10. AllOwed(u, e) \in Nat /\ AllOwed(w, e) \in Nat
  BY OwedIsNat
<1> HIDE DEF f, g, h, k, w
<1>11. SumFunction(g) = SumFunction(f) - f[c] + g[c]
  BY <1>2, FunSumChanges, TraceAssumption
<1>12. SumFunction(k) = SumFunction(h) - h[p] + k[p]
  BY <1>8, FunSumChanges, TraceAssumption
<1>13. Left(w, e, p) + e[p][c] = Left(u, e, p)
  BY <1>1, <1>2, <1>3, <1>7, <1>11
<1>14. AllOwed(w, e) + e[p][c] = AllOwed(u, e)
  BY <1>1, <1>6, <1>7, <1>9, <1>10, <1>12, <1>13
<1> QED  BY <1>14 DEF w

\* Reading the total borrows all that the buckets hold, and a call.
LEMMA TotalBorrows ==
  ASSUME NEW e \in [Cpus -> Counts], NEW u, NEW p \in Cpus,
         <<p, "total">> \in u, \A b \in Buckets : <<p, b>> \in u
  PROVE  AllOwed(u \ {<<p, "total">>}, e) = AllOwed(u, e) + 1 + BucketsOf(e[p])
<1> DEFINE w == u \ {<<p, "total">>}
           h == [q \in Cpus |-> Owed(u, e, q)]
           k == [q \in Cpus |-> Owed(w, e, q)]
<1>1. "total" \notin Buckets /\ \A b \in Buckets : <<p, b>> \in w
  BY TraceAssumption
<1>2. Left(w, e, p) = BucketsOf(e[p])
  <2>1. [b \in Buckets |-> IF <<p, b>> \in w THEN e[p][b] ELSE 0] = [b \in Buckets |-> e[p][b]]
    BY <1>1
  <2> QED  BY <2>1 DEF Left, BucketsOf
<1>3. \A q \in Cpus : q # p => \A x : <<q, x>> \in w <=> <<q, x>> \in u
  OBVIOUS
<1>4. \A q \in Cpus : q # p => Owed(w, e, q) = Owed(u, e, q)
  BY <1>3 DEF Owed, Left
<1>5. h[p] = 0 /\ k[p] = 1 + BucketsOf(e[p])
  BY <1>2 DEF Owed
<1>6. \A q \in Cpus : Owed(u, e, q) \in Nat /\ Owed(w, e, q) \in Nat
  BY OwedIsNat
<1>7. h \in [Cpus -> Int] /\ k \in [Cpus -> Int] /\ \A q \in Cpus : q # p => k[q] = h[q]
  BY <1>4, <1>6
<1>8. AllOwed(u, e) = SumFunction(h) /\ AllOwed(w, e) = SumFunction(k)
  BY DEF AllOwed
<1>9. AllOwed(u, e) \in Nat /\ AllOwed(w, e) \in Nat /\ BucketsOf(e[p]) \in Nat
  BY OwedIsNat, BucketsOfIsNat
<1> HIDE DEF h, k, w
<1>10. SumFunction(k) = SumFunction(h) - h[p] + k[p]
  BY <1>7, FunSumChanges, TraceAssumption
<1>11. AllOwed(w, e) = AllOwed(u, e) + 1 + BucketsOf(e[p])
  BY <1>5, <1>8, <1>9, <1>10
<1> QED  BY <1>11 DEF w

LEMMA TornInit == Init => TornInv
<1> SUFFICES ASSUME Init PROVE TornInv
  OBVIOUS
<1>1. /\ hist = EmptyMap /\ current = EmptyMap /\ prevSeen = EmptyMap /\ unread = {}
      /\ DOMAIN EmptyMap = {}
  BY DEF Init, TraceInit, CollectorInit, EmptyMap
<1> QED
  BY <1>1, CallInit DEF TornInv, WordsInv, ReadInv, KeptInv, TornByOnePerCpu

-----------------------------------------------------------------------------

\* The program's two increments keep the words of its CPU together.
LEMMA WordsStep ==
  ASSUME TornInv, CallInv', NEW q \in Cpus, Syscall(q)
  PROVE  WordsInv'
<1>1. /\ \A i \in DOMAIN hist : hist[i] \in [Cpus -> Counts]
      /\ \A p \in DOMAIN prog : prog[p] \in Instances
      /\ \A i \in DOMAIN hist, p \in Cpus : hist[i][p] \in Counts
  BY DEF TornInv, CallInv, TInv, TypeOK, TraceTypeOK, IsMap
<1>2. \A i \in DOMAIN hist, p \in Cpus :
        /\ BucketsOf(hist[i][p]) \in Nat /\ hist[i][p]["total"] \in Nat
        /\ hist[i][p]["total"] <= BucketsOf(hist[i][p]) + Begun(i, p)
        /\ Begun(i, p) \in {0, 1}
  BY <1>1, BucketsOfIsNat DEF TornInv, WordsInv, Begun, Counts, Fields
<1>3. ASSUME NEW pc, q \in DOMAIN prog, Goto(q, pc)
      PROVE  /\ DOMAIN prog' = DOMAIN prog /\ prog'[q].pc = pc /\ prog'[q].idx = prog[q].idx
             /\ \A p \in DOMAIN prog : p # q => prog'[p] = prog[p]
  BY <1>1, <1>3 DEF Goto, Instances
<1>4. ASSUME NEW i, NEW p \in Cpus, p # q
      PROVE  Begun(i, p)' = Begun(i, p)
  <2>1. p \in DOMAIN prog' <=> p \in DOMAIN prog
    BY <1>3, <1>4 DEF Syscall, Enter, TraceStep, LookupCounts, CreateCounts, LookupAgain,
       CountTotal, CountBucket, Put, Drop
  <2>2. p \in DOMAIN prog => prog'[p] = prog[p]
    BY <1>3, <1>4 DEF Syscall, Enter, TraceStep, LookupCounts, CreateCounts, LookupAgain,
       CountTotal, CountBucket, Put, Drop
  <2> QED  BY <2>1, <2>2 DEF Begun
<1>5. ASSUME NEW i, ~(q \in DOMAIN prog /\ prog[q].pc = "bucket")
      PROVE  Begun(i, q) = 0 /\ Begun(i, q)' \in Nat
  BY <1>5 DEF Begun
<1>6. ASSUME ~(q \in DOMAIN prog /\ prog[q].pc = "bucket"),
             NEW i \in DOMAIN hist', NEW p \in Cpus,
             i \notin DOMAIN hist => hist'[i] = ZeroEntry, i \in DOMAIN hist => hist'[i] = hist[i]
      PROVE  hist'[i][p]["total"] <= BucketsOf(hist'[i][p]) + Begun(i, p)'
  <2>1. CASE i \in DOMAIN hist
    BY <1>2, <1>4, <1>5, <1>6, <2>1
  <2>2. CASE i \notin DOMAIN hist
    <3>1. hist'[i][p] = ZeroCounts /\ ZeroCounts["total"] = 0
      BY <1>6, <2>2 DEF ZeroEntry, ZeroCounts, Fields
    <3>2. BucketsOf(ZeroCounts) \in Nat /\ Begun(i, p)' \in Nat
      BY BucketsOfIsNat, ZeroCountsType DEF Begun
    <3> QED  BY <3>1, <3>2
  <2> QED  BY <2>1, <2>2
<1>7. CASE CountTotal(q)
  <2> DEFINE j == prog[q].idx
  <2>1. /\ q \in DOMAIN prog /\ prog[q].pc = "total" /\ Goto(q, "bucket") /\ j \in DOMAIN hist
        /\ hist' = [hist EXCEPT ![j][q]["total"] = @ + 1]
    BY <1>7 DEF CountTotal, TornInv, CallInv, HistInv, Placed
  <2>0. "total" \in Fields /\ hist[j] \in [Cpus -> Counts] /\ hist[j][q] \in Counts
    BY <1>1, <2>1 DEF Fields
  <2>2. /\ DOMAIN hist' = DOMAIN hist
        /\ hist'[j][q]["total"] = hist[j][q]["total"] + 1
        /\ \A x \in Fields : x # "total" => hist'[j][q][x] = hist[j][q][x]
        /\ \A i \in DOMAIN hist, p \in Cpus : i # j \/ p # q => hist'[i][p] = hist[i][p]
    BY <1>1, <2>0, <2>1 DEF Counts
  <2>3. hist'[j][q] \in Counts
    BY <1>1, <2>1, <2>2 DEF CallInv, TInv, TypeOK, TraceTypeOK, IsMap
  <2>4. hist'[j][q]["total"] = hist[j][q]["total"] + 1
        /\ BucketsOf(hist'[j][q]) = BucketsOf(hist[j][q])
    BY <2>0, <2>2, <2>3, BucketsOfAdded
  <2>5. Begun(j, q) = 0 /\ \A i : i = j => Begun(i, q)' = 1
    BY <1>3, <2>1 DEF Begun
  <2>6. ASSUME NEW i \in DOMAIN hist, NEW p \in Cpus
        PROVE  hist'[i][p]["total"] <= BucketsOf(hist'[i][p]) + Begun(i, p)'
    <3>1. CASE i = j /\ p = q
      <4>1. hist[j][q]["total"] <= BucketsOf(hist[j][q]) + 0 /\ BucketsOf(hist[j][q]) \in Nat
            /\ hist[j][q]["total"] \in Nat
        BY <1>2, <2>1, <2>5
      <4>2. hist'[j][q]["total"] <= BucketsOf(hist'[j][q]) + 1
        BY <2>4, <4>1
      <4> QED  BY <2>5, <3>1, <4>2
    <3>2. CASE i # j /\ p = q
      BY <1>2, <1>5, <2>1, <2>2, <3>2
    <3>3. CASE p # q
      BY <1>2, <1>4, <2>2, <3>3
    <3> QED  BY <3>1, <3>2, <3>3
  <2> QED  BY <2>2, <2>6 DEF WordsInv
<1>8. ASSUME NEW b \in Buckets, CountBucket(q, b)
      PROVE  WordsInv'
  <2> DEFINE j == prog[q].idx
  <2>1. /\ q \in DOMAIN prog /\ prog[q].pc = "bucket" /\ prog' = Drop(prog, {q}) /\ j \in DOMAIN hist
        /\ hist' = [hist EXCEPT ![j][q][b] = @ + 1] /\ b \in Fields
    BY <1>8 DEF CountBucket, TornInv, CallInv, HistInv, Placed, Fields
  <2>2. /\ DOMAIN hist' = DOMAIN hist
        /\ hist'[j][q][b] = hist[j][q][b] + 1
        /\ \A x \in Fields : x # b => hist'[j][q][x] = hist[j][q][x]
        /\ \A i \in DOMAIN hist, p \in Cpus : i # j \/ p # q => hist'[i][p] = hist[i][p]
    BY <1>1, <2>1 DEF Counts
  <2>3. hist'[j][q] \in Counts
    BY <1>1, <2>1, <2>2 DEF CallInv, TInv, TypeOK, TraceTypeOK, IsMap
  <2>4. hist'[j][q]["total"] = hist[j][q]["total"]
        /\ BucketsOf(hist'[j][q]) = BucketsOf(hist[j][q]) + 1
    <3>1. hist[j][q] \in Counts /\ b \in Fields /\ b \in Buckets
      BY <1>1, <2>1
    <3> QED  BY <2>2, <2>3, <3>1, BucketsOfAdded
  <2>5. \A i : Begun(i, q)' = 0
    BY <2>1 DEF Begun, Drop
  <2>6. \A i : i # j => Begun(i, q) = 0
    BY DEF Begun
  <2>7. ASSUME NEW i \in DOMAIN hist, NEW p \in Cpus
        PROVE  hist'[i][p]["total"] <= BucketsOf(hist'[i][p]) + Begun(i, p)'
    <3>1. CASE i = j /\ p = q
      <4>1. hist[j][q]["total"] <= BucketsOf(hist[j][q]) + 1 /\ BucketsOf(hist[j][q]) \in Nat
            /\ hist[j][q]["total"] \in Nat
        BY <1>2, <2>1
      <4>2. hist'[j][q]["total"] <= BucketsOf(hist'[j][q]) + 0
        BY <2>4, <4>1
      <4> QED  BY <2>5, <3>1, <4>2
    <3>2. CASE i # j /\ p = q
      BY <1>2, <2>2, <2>5, <2>6, <3>2
    <3>3. CASE p # q
      BY <1>2, <1>4, <2>2, <3>3
    <3> QED  BY <3>1, <3>2, <3>3
  <2> QED  BY <2>2, <2>7 DEF WordsInv
<1>9. CASE ~CountTotal(q) /\ ~\E b \in Buckets : CountBucket(q, b)
  <2>1. ~(q \in DOMAIN prog /\ prog[q].pc = "bucket")
    BY <1>9 DEF Syscall, Enter, TraceStep, LookupCounts, CreateCounts, LookupAgain
  <2>2. hist' = hist \/ hist' = CreateIfAbsent(prog[q].idx)
    BY <1>9 DEF Syscall, Enter, TraceStep, LookupCounts, CreateCounts, LookupAgain
  <2>3. \A i \in DOMAIN hist' :
          /\ i \notin DOMAIN hist => hist'[i] = ZeroEntry
          /\ i \in DOMAIN hist => hist'[i] = hist[i]
    BY <2>2 DEF CreateIfAbsent, Put
  <2> QED  BY <1>6, <2>1, <2>3 DEF WordsInv
<1> QED  BY <1>7, <1>8, <1>9


\* The program's step leaves the copy as it is and makes no word smaller.
LEMMA ReadDuringCall ==
  ASSUME TornInv, CallInv', NEW q \in Cpus, Syscall(q)
  PROVE  ReadInv'
<1>1. UNCHANGED <<unread, reading, sum>>
  BY DEF Syscall, pollVars, scanVars
<1>2. \A p \in Cpus : <<p, "total">> \in unread => \A b \in Buckets : <<p, b>> \in unread
  BY DEF TornInv, ReadInv
<1>3. ASSUME unread # {}
      PROVE  sum["total"] <= BucketsOf(sum) + AllOwed(unread, hist'[reading])
  <2>1. Grows
    BY HistGrows DEF Next, TornInv, CallInv, TInv
  <2>2. reading \in DOMAIN hist /\ reading \in DOMAIN hist'
    BY <1>3, <2>1 DEF Grows, TornInv, CallInv, TInv, PhaseOK
  <2>3. hist[reading] \in [Cpus -> Counts] /\ hist'[reading] \in [Cpus -> Counts]
    BY <2>2 DEF TornInv, CallInv, TInv, TypeOK, TraceTypeOK, IsMap
  <2>4. \A p \in Cpus, b \in Buckets :
          /\ hist'[reading][p][b] >= hist[reading][p][b]
          /\ hist[reading][p][b] \in Nat /\ hist'[reading][p][b] \in Nat
    BY <2>1, <2>2, <2>3 DEF Grows, Fields, Counts
  <2>5. AllOwed(unread, hist[reading]) <= AllOwed(unread, hist'[reading])
    BY <2>3, <2>4, OwedGrows
  <2>6. AllOwed(unread, hist[reading]) \in Nat /\ AllOwed(unread, hist'[reading]) \in Nat
    BY <2>3, OwedIsNat
  <2>7. sum["total"] \in Nat /\ BucketsOf(sum) \in Nat
    BY BucketsOfIsNat DEF TornInv, CallInv, TInv, TypeOK, CollectorTypeOK, Counts, Fields
  <2>8. sum["total"] <= BucketsOf(sum) + AllOwed(unread, hist[reading])
    BY <1>3 DEF TornInv, ReadInv
  <2> QED  BY <2>5, <2>6, <2>7, <2>8
<1> QED  BY <1>1, <1>2, <1>3 DEF ReadInv

LEMMA KeptStays ==
  ASSUME KeptInv, UNCHANGED <<current, prevSeen>>
  PROVE  KeptInv'
BY DEF KeptInv, TornByOnePerCpu, Torn, BucketsOf

\* A word that is read moves from what is owed to the sums; and when all are
\* read each CPU owes one call at most.
LEMMA TornReadWord ==
  ASSUME TornInv, TInv', NEW p \in Cpus, NEW f \in Fields, ReadWord(p, f),
         UNCHANGED traceVars
  PROVE  /\ ReadInv' /\ sum' \in Counts
         /\ unread' = {} => Torn(sum')
<1> DEFINE e == hist[reading]
           n == hist[reading][p][f]
<1>1. /\ <<p, f>> \in unread /\ unread # {} /\ unread' = unread \ {<<p, f>>}
      /\ f = "total" \/ <<p, "total">> \notin unread
      /\ sum' = [sum EXCEPT ![f] = @ + n]
      /\ UNCHANGED <<reading, hist>>
  BY DEF ReadWord, TotalReadFirst, traceVars
<1>2. /\ \A q \in Cpus : <<q, "total">> \in unread => \A b \in Buckets : <<q, b>> \in unread
      /\ sum["total"] <= BucketsOf(sum) + AllOwed(unread, e)
  BY <1>1 DEF TornInv, ReadInv
<1>3. TInv /\ reading \in DOMAIN hist /\ e \in [Cpus -> Counts] /\ e[p] \in Counts /\ sum \in Counts
  BY <1>1 DEF TornInv, CallInv, TInv, PhaseOK, TypeOK, TraceTypeOK, CollectorTypeOK, IsMap
<1>4. sum' \in Counts
  BY DEF TInv, TypeOK, CollectorTypeOK
<1>5. n \in Nat /\ "total" \in Fields
  BY <1>3 DEF Counts, Fields
<1>6. /\ f = "total" => sum'["total"] = sum["total"] + n /\ BucketsOf(sum') = BucketsOf(sum)
      /\ f \in Buckets => sum'["total"] = sum["total"] /\ BucketsOf(sum') = BucketsOf(sum) + n
  <2> HIDE DEF n, e
  <2>1. sum'[f] = sum[f] + n /\ \A x \in Fields : x # f => sum'[x] = sum[x]
    BY <1>1, <1>3 DEF Counts
  <2> QED  BY <1>3, <1>4, <1>5, <2>1, BucketsOfAdded
<1>7. \A q \in Cpus : <<q, "total">> \in unread' => \A b \in Buckets : <<q, b>> \in unread'
  BY <1>1, <1>2
<1>8. /\ AllOwed(unread, e) \in Nat /\ AllOwed(unread', e) \in Nat
      /\ BucketsOf(sum) \in Nat /\ BucketsOf(e[p]) \in Nat /\ sum["total"] \in Nat
  BY <1>3, <1>5, OwedIsNat, BucketsOfIsNat DEF Counts
<1>9. sum'["total"] <= BucketsOf(sum') + AllOwed(unread', e)
  <2>1. CASE f = "total"
    <3>1. AllOwed(unread', e) = AllOwed(unread, e) + 1 + BucketsOf(e[p])
      BY <1>1, <1>2, <1>3, <2>1, TotalBorrows
    <3>2. n <= BucketsOf(e[p]) + 1
      BY <1>3, <1>5, <1>8, <2>1 DEF TornInv, WordsInv, Begun
    <3> QED  BY <1>2, <1>5, <1>6, <1>8, <2>1, <3>1, <3>2
  <2>2. CASE f \in Buckets
    <3>1. <<p, "total">> \notin unread
      BY <1>1, <2>2, TraceAssumption
    <3>2. AllOwed(unread', e) + n = AllOwed(unread, e)
      BY <1>1, <1>3, <2>2, <3>1, BucketPays
    <3> QED  BY <1>2, <1>5, <1>6, <1>8, <2>2, <3>2
  <2> QED  BY <2>1, <2>2 DEF Fields
<1>10. ReadInv'
  BY <1>1, <1>7, <1>9 DEF ReadInv
<1>11. unread' = {} => Torn(sum')
  BY <1>3, <1>9, OwedAtEnds DEF Torn
<1> QED  BY <1>4, <1>10, <1>11

LEMMA TornPoll ==
  ASSUME TornInv, CallInv', PollStep
  PROVE  WordsInv' /\ ReadInv' /\ KeptInv'
<1>1. UNCHANGED <<hist, prog>> /\ UNCHANGED traceVars
  BY DEF PollStep, traceVars
<1>2. WordsInv'
  BY <1>1 DEF TornInv, WordsInv, Begun, BucketsOf
<1>3. ASSUME UNCHANGED <<unread, reading, sum>>
      PROVE  ReadInv'
  BY <1>1, <1>3 DEF TornInv, ReadInv
<1>4. ASSUME DOMAIN current' = {}, prevSeen' = prevSeen
      PROVE  KeptInv'
  BY <1>4 DEF TornInv, KeptInv, TornByOnePerCpu, Torn, BucketsOf
<1>5. DOMAIN EmptyMap = {}
  BY DEF EmptyMap
<1>6. CASE PollStart
  BY <1>2, <1>3, <1>4, <1>5, <1>6 DEF PollStart
<1>7. ASSUME NEW i \in DOMAIN hist, ReadEntry(i)
      PROVE  WordsInv' /\ ReadInv' /\ KeptInv'
  <2>1. /\ reading' = i /\ unread' = Cpus \X Fields /\ sum' = ZeroCounts /\ hist' = hist
        /\ UNCHANGED <<current, prevSeen>>
    BY <1>1, <1>7 DEF ReadEntry
  <2>2. hist[i] \in [Cpus -> Counts]
    BY DEF TornInv, CallInv, TInv, TypeOK, TraceTypeOK, IsMap
  <2>3. ZeroCounts["total"] = 0 /\ BucketsOf(ZeroCounts) \in Nat /\ AllOwed(Cpus \X Fields, hist[i]) = 0
    BY <2>2, ZeroCountsType, BucketsOfIsNat, OwedAtEnds DEF ZeroCounts, Fields
  <2>4. ReadInv'
    BY <2>1, <2>3 DEF ReadInv, Fields
  <2> QED  BY <1>2, <2>1, <2>4, KeptStays DEF TornInv
<1>8. ASSUME NEW w \in unread, ReadWord(w[1], w[2])
      PROVE  WordsInv' /\ ReadInv' /\ KeptInv'
  <2>1. w[1] \in Cpus /\ w[2] \in Fields
    BY DEF TornInv, CallInv, TInv, TypeOK, CollectorTypeOK
  <2>2. ReadInv' /\ (unread' = {} => Torn(sum'))
    BY <1>1, <1>8, <2>1, TornReadWord DEF CallInv
  <2>3. CASE unread' # {}
    <3>1. UNCHANGED <<current, prevSeen>>
      BY <1>8, <2>3 DEF ReadWord
    <3> QED  BY <1>2, <2>2, <3>1, KeptStays DEF TornInv
  <2>4. CASE unread' = {}
    <3>1. current' = Put(current, reading, sum') /\ prevSeen' = prevSeen
      BY <1>8, <2>4 DEF ReadWord
    <3>2. \A i \in DOMAIN current' : Torn(current'[i])
      BY <2>2, <2>4, <3>1 DEF Put, TornInv, KeptInv
    <3> QED  BY <1>2, <2>2, <3>1, <3>2 DEF TornInv, KeptInv, TornByOnePerCpu, Torn, BucketsOf
  <2> QED  BY <2>3, <2>4
<1>9. CASE PollCommit
  <2>1. prevSeen' = current /\ DOMAIN current' = {} /\ unread' = {}
    BY <1>5, <1>9 DEF PollCommit
  <2>2. ReadInv'
    BY <2>1 DEF ReadInv
  <2>3. KeptInv'
    BY <2>1 DEF TornInv, KeptInv, TornByOnePerCpu, Torn, BucketsOf
  <2> QED  BY <1>2, <2>2, <2>3
<1> QED  BY <1>6, <1>7, <1>8, <1>9 DEF PollStep

\* Neither the agent nor docker touches a counter or a copy of one.
LEMMA TornElsewhere ==
  ASSUME TornInv, [Next]_vars, \A p \in Cpus : ~Syscall(p), ~PollStep
  PROVE  WordsInv' /\ ReadInv' /\ KeptInv'
<1>1. UNCHANGED <<hist, unread, reading, sum, current, prevSeen>>
  BY DEF Next, Start, Stop, AgentStep, EndBuild, BeginUpdate, UpdateStep, PutOne, PutFails, CleanVisit,
     CommitUpdate, Poll, vars, traceVars, pollVars, scanVars
<1>2. ASSUME NEW i, NEW p
      PROVE  Begun(i, p)' = Begun(i, p)
  <2>1. PICK I : Rewritten(prog', I)
    BY OnlyRewritten DEF TornInv, CallInv, TInv
  <2> QED  BY <2>1 DEF Rewritten, Looking, Begun
<1>3. WordsInv'
  BY <1>1, <1>2 DEF TornInv, WordsInv, BucketsOf
<1>4. ReadInv'
  BY <1>1 DEF TornInv, ReadInv
<1> QED  BY <1>1, <1>3, <1>4, KeptStays DEF TornInv

LEMMA TornStep == TornInv /\ [Next]_vars => TornInv'
<1> SUFFICES ASSUME TornInv, [Next]_vars PROVE TornInv'
  OBVIOUS
<1>1. CallInv'
  BY CallStep DEF TornInv
<1>2. ASSUME NEW p \in Cpus, Syscall(p)
      PROVE  TornInv'
  <2>1. UNCHANGED <<current, prevSeen>>
    BY <1>2 DEF Syscall, pollVars, scanVars
  <2> QED  BY <1>1, <1>2, <2>1, WordsStep, ReadDuringCall, KeptStays DEF TornInv
<1>3. CASE PollStep
  BY <1>1, <1>3, TornPoll DEF TornInv
<1>4. CASE ~PollStep /\ \A p \in Cpus : ~Syscall(p)
  BY <1>1, <1>4, TornElsewhere DEF TornInv
<1> QED  BY <1>2, <1>3, <1>4

\* What pollOnce reads of a histogram, word by word and without the mutex, is
\* never off by more than the calls that were between their two increments.
THEOREM ReadsAreTornByOne == Spec => []TornByOnePerCpu
<1>1. TornInv => TornByOnePerCpu
  BY DEF TornInv, KeptInv
<1> QED  BY <1>1, TornInit, TornStep, PTL DEF Spec

-----------------------------------------------------------------------------
(* The collector as a meter.  prevSeen is a lower bound of every later read of *)
(* the same histogram, so that the clamp in subtract never takes effect; and   *)
(* what a copy has read, with the words that wait, is between what the last    *)
(* poll saw and what is counted.                                               *)

\* The unread words of field f in a copy of entry e.
Waiting(u, e, f) == SumFunction([p \in Cpus |-> IF <<p, f>> \in u THEN e[p][f] ELSE 0])

Before(i, f) == At(prevSeen, i, ZeroCounts)[f]

SeenInv ==
  /\ DOMAIN reported = DOMAIN prevSeen
  /\ DOMAIN prevSeen \subseteq DOMAIN hist /\ DOMAIN current \subseteq DOMAIN hist
  /\ polling => DOMAIN prevSeen \subseteq must
  /\ \A i \in DOMAIN prevSeen, f \in Fields :
       reported[i][f] <= prevSeen[i][f] /\ prevSeen[i][f] <= Counted(i, f)

CopyInv ==
  /\ \A i \in DOMAIN current, f \in Fields :
       Before(i, f) <= current[i][f] /\ current[i][f] <= Counted(i, f)
  /\ unread # {} =>
       \A f \in Fields :
         /\ Before(reading, f) <= sum[f] + Waiting(unread, hist[reading], f)
         /\ sum[f] + Waiting(unread, hist[reading], f) <= Counted(reading, f)

ScanInv == TInv /\ SeenInv /\ CopyInv

LEMMA WaitingIsNat ==
  ASSUME NEW e \in [Cpus -> Counts], NEW u, NEW f \in Fields
  PROVE  /\ Waiting(u, e, f) \in Nat
         /\ [p \in Cpus |-> IF <<p, f>> \in u THEN e[p][f] ELSE 0] \in [Cpus -> Nat]
<1>1. [p \in Cpus |-> IF <<p, f>> \in u THEN e[p][f] ELSE 0] \in [Cpus -> Nat]
  BY DEF Counts
<1> QED  BY <1>1, FunSumIsNat, TraceAssumption DEF Waiting

LEMMA WaitingAtEnds ==
  ASSUME NEW e, NEW f \in Fields
  PROVE  /\ Waiting(Cpus \X Fields, e, f) = SumFunction([p \in Cpus |-> e[p][f]])
         /\ Waiting({}, e, f) = 0
<1>1. [p \in Cpus |-> IF <<p, f>> \in Cpus \X Fields THEN e[p][f] ELSE 0] = [p \in Cpus |-> e[p][f]]
  OBVIOUS
<1>2. Waiting({}, e, f) = 0
  BY FunSumOfZeros, TraceAssumption DEF Waiting
<1> QED  BY <1>1, <1>2 DEF Waiting

\* A word that is read no longer waits.
LEMMA WordArrives ==
  ASSUME NEW e \in [Cpus -> Counts], NEW u, NEW p \in Cpus, NEW f \in Fields, <<p, f>> \in u
  PROVE  /\ Waiting(u \ {<<p, f>>}, e, f) + e[p][f] = Waiting(u, e, f)
         /\ \A g \in Fields : g # f => Waiting(u \ {<<p, f>>}, e, g) = Waiting(u, e, g)
<1> DEFINE w == u \ {<<p, f>>}
           a == [q \in Cpus |-> IF <<q, f>> \in u THEN e[q][f] ELSE 0]
           b == [q \in Cpus |-> IF <<q, f>> \in w THEN e[q][f] ELSE 0]
<1>1. e[p][f] \in Nat
  BY DEF Counts
<1>2. a \in [Cpus -> Int] /\ b \in [Cpus -> Int]
  BY DEF Counts
<1>3. a[p] = e[p][f] /\ b[p] = 0 /\ \A q \in Cpus : q # p => b[q] = a[q]
  OBVIOUS
<1>4. Waiting(u, e, f) = SumFunction(a) /\ Waiting(w, e, f) = SumFunction(b)
  BY DEF Waiting
<1>5. Waiting(u, e, f) \in Nat
  BY WaitingIsNat
<1>6. ASSUME NEW g \in Fields, g # f
      PROVE  Waiting(w, e, g) = Waiting(u, e, g)
  <2>1. [q \in Cpus |-> IF <<q, g>> \in w THEN e[q][g] ELSE 0]
        = [q \in Cpus |-> IF <<q, g>> \in u THEN e[q][g] ELSE 0]
    BY <1>6
  <2> QED  BY <2>1 DEF Waiting
<1> HIDE DEF a, b, w
<1>7. SumFunction(b) = SumFunction(a) - a[p] + b[p]
  BY <1>2, <1>3, FunSumChanges, TraceAssumption
<1>8. Waiting(w, e, f) + e[p][f] = Waiting(u, e, f)
  BY <1>1, <1>3, <1>4, <1>5, <1>7
<1> QED  BY <1>6, <1>8 DEF w

\* A word that is incremented, read or not.
OneMore(e, v, p, f) ==
  /\ v[p][f] = e[p][f] + 1
  /\ \A q \in Cpus, g \in Fields : q # p \/ g # f => v[q][g] = e[q][g]

LEMMA WordGrows ==
  ASSUME NEW e \in [Cpus -> Counts], NEW v \in [Cpus -> Counts], NEW u, NEW p \in Cpus,
         NEW f \in Fields, OneMore(e, v, p, f)
  PROVE  /\ Waiting(u, e, f) <= Waiting(u, v, f) /\ Waiting(u, v, f) <= Waiting(u, e, f) + 1
         /\ \A g \in Fields : g # f => Waiting(u, v, g) = Waiting(u, e, g)
<1> DEFINE a == [q \in Cpus |-> IF <<q, f>> \in u THEN e[q][f] ELSE 0]
           b == [q \in Cpus |-> IF <<q, f>> \in u THEN v[q][f] ELSE 0]
<1>1. e[p][f] \in Nat
  BY DEF Counts
<1>2. a \in [Cpus -> Int] /\ b \in [Cpus -> Int]
  BY DEF Counts
<1>3. /\ a[p] <= b[p] /\ b[p] <= a[p] + 1 /\ a[p] \in Int /\ b[p] \in Int
      /\ \A q \in Cpus : q # p => b[q] = a[q]
  BY <1>1 DEF OneMore
<1>4. Waiting(u, e, f) = SumFunction(a) /\ Waiting(u, v, f) = SumFunction(b)
  BY DEF Waiting
<1>5. Waiting(u, e, f) \in Nat
  BY WaitingIsNat
<1>6. ASSUME NEW g \in Fields, g # f
      PROVE  Waiting(u, v, g) = Waiting(u, e, g)
  <2>1. [q \in Cpus |-> IF <<q, g>> \in u THEN v[q][g] ELSE 0]
        = [q \in Cpus |-> IF <<q, g>> \in u THEN e[q][g] ELSE 0]
    BY <1>6 DEF OneMore
  <2> QED  BY <2>1 DEF Waiting
<1> HIDE DEF a, b
<1>7. SumFunction(b) = SumFunction(a) - a[p] + b[p]
  BY <1>2, <1>3, FunSumChanges, TraceAssumption
<1>8. Waiting(u, e, f) <= Waiting(u, v, f) /\ Waiting(u, v, f) <= Waiting(u, e, f) + 1
  BY <1>3, <1>4, <1>5, <1>7
<1> QED  BY <1>6, <1>8

\* Every number the invariant compares is a natural one.
LEMMA ScanTypes ==
  ASSUME TInv
  PROVE  /\ \A i : \A f \in Fields : Before(i, f) \in Nat /\ Counted(i, f) \in Nat
         /\ \A i \in DOMAIN prevSeen, f \in Fields : prevSeen[i][f] \in Nat
         /\ \A i \in DOMAIN current, f \in Fields : current[i][f] \in Nat
         /\ \A i \in DOMAIN reported, f \in Fields : reported[i][f] \in Nat
         /\ \A f \in Fields : sum[f] \in Nat
         /\ \A f \in Fields : ZeroCounts[f] = 0
<1>1. ASSUME NEW i
      PROVE  At(prevSeen, i, ZeroCounts) \in Counts
  BY AtInRange, ZeroCountsType DEF TInv, TypeOK, CollectorTypeOK
<1>2. \A i : \A f \in Fields : Before(i, f) \in Nat
  BY <1>1 DEF Before, Counts
<1>3. \A i : \A f \in Fields : Counted(i, f) \in Nat
  BY CountedIsNat DEF TInv
<1>4. \A i \in DOMAIN prevSeen, f \in Fields : prevSeen[i][f] \in Nat
  BY DEF TInv, TypeOK, CollectorTypeOK, IsMap, Counts
<1>5. \A i \in DOMAIN current, f \in Fields : current[i][f] \in Nat
  BY DEF TInv, TypeOK, CollectorTypeOK, IsMap, Counts
<1>6. \A i \in DOMAIN reported, f \in Fields : reported[i][f] \in Nat
  BY DEF TInv, TypeOK, CollectorTypeOK, IsMap, Counts
<1>7. \A f \in Fields : sum[f] \in Nat
  BY DEF TInv, TypeOK, CollectorTypeOK, Counts
<1>8. \A f \in Fields : ZeroCounts[f] = 0
  BY DEF ZeroCounts
<1> QED  BY <1>2, <1>3, <1>4, <1>5, <1>6, <1>7, <1>8

LEMMA ScanInit == Init => ScanInv
<1> SUFFICES ASSUME Init PROVE ScanInv
  OBVIOUS
<1>1. /\ current = EmptyMap /\ prevSeen = EmptyMap /\ reported = EmptyMap /\ unread = {}
      /\ polling = FALSE /\ DOMAIN EmptyMap = {}
  BY DEF Init, CollectorInit, EmptyMap
<1> QED  BY <1>1, TypeInit DEF ScanInv, SeenInv, CopyInv

\* Counters only grow, and no new entry counts anything.
LEMMA CountedGrows ==
  ASSUME TInv, TInv', NEW q \in Cpus, Syscall(q)
  PROVE  /\ DOMAIN hist \subseteq DOMAIN hist'
         /\ \/ /\ \A i : \A f \in Fields : Counted(i, f)' = Counted(i, f)
               /\ \A i \in DOMAIN hist : hist'[i] = hist[i]
            \/ \E j \in DOMAIN hist, g \in Fields : hist' = [hist EXCEPT ![j][q][g] = @ + 1]
<1>1. ASSUME DOMAIN hist' = DOMAIN hist, \A i \in DOMAIN hist : hist'[i] = hist[i]
      PROVE  \A i : \A f \in Fields : Counted(i, f)' = Counted(i, f)
  BY <1>1 DEF Counted
<1>2. ASSUME NEW j, hist' = CreateIfAbsent(j)
      PROVE  /\ \A i : \A f \in Fields : Counted(i, f)' = Counted(i, f)
             /\ \A i \in DOMAIN hist : i \in DOMAIN hist' /\ hist'[i] = hist[i]
  <2>1. \A i \in DOMAIN hist : i \in DOMAIN hist' /\ hist'[i] = hist[i]
    BY <1>2 DEF CreateIfAbsent, Put
  <2>2. \A i \in DOMAIN hist' : i \notin DOMAIN hist => hist'[i] = ZeroEntry
    BY <1>2 DEF CreateIfAbsent, Put
  <2>3. ASSUME NEW i, NEW f \in Fields
        PROVE  Counted(i, f)' = Counted(i, f)
    <3>1. CASE i \in DOMAIN hist
      BY <2>1, <3>1 DEF Counted
    <3>2. CASE i \notin DOMAIN hist /\ i \in DOMAIN hist'
      <4>1. \A p \in Cpus : hist'[i][p][f] = 0
        BY <2>2, <3>2 DEF ZeroEntry, ZeroCounts
      <4>2. SumFunction([p \in Cpus |-> hist'[i][p][f]]) = 0
        BY <4>1, FunSumOfZeros, TraceAssumption
      <4> QED  BY <3>2, <4>2 DEF Counted
    <3>3. CASE i \notin DOMAIN hist /\ i \notin DOMAIN hist'
      BY <3>3 DEF Counted
    <3> QED  BY <3>1, <3>2, <3>3
  <2> QED  BY <2>1, <2>3
<1>3. ASSUME NEW j, NEW g \in Fields, hist' = [hist EXCEPT ![j][q][g] = @ + 1]
      PROVE  DOMAIN hist' = DOMAIN hist /\ (j \notin DOMAIN hist => \A i \in DOMAIN hist : hist'[i] = hist[i])
  BY <1>3
<1>4. CASE CreateCounts(q)
  BY <1>2, <1>4 DEF CreateCounts
<1>5. CASE CountTotal(q)
  <2>1. hist' = [hist EXCEPT ![prog[q].idx][q]["total"] = @ + 1] /\ "total" \in Fields
    BY <1>5 DEF CountTotal, Fields
  <2> QED  BY <1>1, <1>3, <2>1
<1>6. ASSUME NEW b \in Buckets, CountBucket(q, b)
      PROVE  /\ DOMAIN hist \subseteq DOMAIN hist'
             /\ \/ /\ \A i : \A f \in Fields : Counted(i, f)' = Counted(i, f)
                   /\ \A i \in DOMAIN hist : hist'[i] = hist[i]
                \/ \E j \in DOMAIN hist, g \in Fields : hist' = [hist EXCEPT ![j][q][g] = @ + 1]
  <2>1. hist' = [hist EXCEPT ![prog[q].idx][q][b] = @ + 1] /\ b \in Fields
    BY <1>6 DEF CountBucket, Fields
  <2> QED  BY <1>1, <1>3, <2>1
<1>7. CASE UNCHANGED hist
  BY <1>1, <1>7
<1> QED
  BY <1>4, <1>5, <1>6, <1>7 DEF Syscall, TraceStep, Enter, LookupCounts, LookupAgain


LEMMA ScanDuringCall ==
  ASSUME ScanInv, TInv', NEW q \in Cpus, Syscall(q)
  PROVE  SeenInv' /\ CopyInv'
<1>1. UNCHANGED <<reported, prevSeen, current, polling, must, unread, reading, sum>>
  BY DEF Syscall, pollVars, scanVars
<1>2. \A i : \A f \in Fields : Before(i, f)' = Before(i, f)
  BY <1>1 DEF Before
<1>3. DOMAIN hist \subseteq DOMAIN hist'
  BY CountedGrows DEF ScanInv
<1>4. ASSUME NEW i \in DOMAIN hist
      PROVE  hist[i] \in [Cpus -> Counts] /\ hist'[i] \in [Cpus -> Counts]
  BY <1>3 DEF ScanInv, TInv, TypeOK, TraceTypeOK, IsMap
<1>5. unread # {} => reading \in DOMAIN hist
  BY DEF ScanInv, TInv, PhaseOK
<1>6. ASSUME \A i : \A f \in Fields : Counted(i, f)' = Counted(i, f),
             \A i \in DOMAIN hist : hist'[i] = hist[i]
      PROVE  SeenInv' /\ CopyInv'
  <2>1. SeenInv'
    BY <1>1, <1>3, <1>6 DEF ScanInv, SeenInv
  <2>2. CopyInv'
    BY <1>1, <1>2, <1>5, <1>6 DEF ScanInv, CopyInv
  <2> QED  BY <2>1, <2>2
<1>7. ASSUME NEW j \in DOMAIN hist, NEW g \in Fields, hist' = [hist EXCEPT ![j][q][g] = @ + 1]
      PROVE  SeenInv' /\ CopyInv'
  <2>1. /\ DOMAIN hist' = DOMAIN hist
        /\ \A i : \A f \in Fields : i # j \/ f # g => Counted(i, f)' = Counted(i, f)
        /\ Counted(j, g)' = Counted(j, g) + 1
    BY <1>7, WordCounts DEF ScanInv, TInv
  <2>2. \A i : \A f \in Fields :
          Counted(i, f) \in Nat /\ Counted(i, f)' \in Nat /\ Counted(i, f) <= Counted(i, f)'
    <3> SUFFICES ASSUME NEW i, NEW f \in Fields
                 PROVE  Counted(i, f) \in Nat /\ Counted(i, f)' \in Nat
                        /\ Counted(i, f) <= Counted(i, f)'
      OBVIOUS
    <3>1. Counted(i, f) \in Nat /\ Counted(j, g) \in Nat
      BY ScanTypes DEF ScanInv
    <3> QED  BY <2>1, <3>1
  <2>3. SeenInv'
    <3>1. \A i \in DOMAIN prevSeen, f \in Fields :
            reported[i][f] <= prevSeen[i][f] /\ prevSeen[i][f] <= Counted(i, f)'
      BY <2>2, ScanTypes DEF ScanInv, SeenInv
    <3> QED  BY <1>1, <1>3, <3>1 DEF ScanInv, SeenInv
  <2>4. \A i \in DOMAIN current, f \in Fields :
          Before(i, f) <= current[i][f] /\ current[i][f] <= Counted(i, f)'
    BY <2>2, ScanTypes DEF ScanInv, CopyInv
  <2>5. ASSUME unread # {}, NEW f \in Fields
        PROVE  /\ Before(reading, f) <= sum[f] + Waiting(unread, hist'[reading], f)
               /\ sum[f] + Waiting(unread, hist'[reading], f) <= Counted(reading, f)'
    <3> DEFINE e == hist[reading]
               v == hist'[reading]
    <3>1. /\ Before(reading, f) <= sum[f] + Waiting(unread, e, f)
          /\ sum[f] + Waiting(unread, e, f) <= Counted(reading, f)
      BY <2>5 DEF ScanInv, CopyInv
    <3>2. e \in [Cpus -> Counts] /\ v \in [Cpus -> Counts] /\ reading \in DOMAIN hist
      BY <1>4, <1>5, <2>5
    <3>3. /\ Waiting(unread, e, f) \in Nat /\ Waiting(unread, v, f) \in Nat
          /\ sum[f] \in Nat /\ Before(reading, f) \in Nat
      BY <3>2, WaitingIsNat, ScanTypes DEF ScanInv
    <3>4. CASE reading # j
      <4>1. v = e
        BY <1>7, <3>2, <3>4
      <4> QED  BY <1>1, <2>1, <3>1, <3>4, <4>1
    <3>5. CASE reading = j
      <4>1. OneMore(e, v, q, g)
        BY <1>7, <3>2, <3>5 DEF OneMore, Counts
      <4> HIDE DEF e, v
      <4>2. /\ Waiting(unread, e, g) <= Waiting(unread, v, g)
            /\ Waiting(unread, v, g) <= Waiting(unread, e, g) + 1
            /\ \A h \in Fields : h # g => Waiting(unread, v, h) = Waiting(unread, e, h)
        BY <3>2, <4>1, WordGrows
      <4>3. CASE f = g
        <5>1. Counted(reading, f)' = Counted(reading, f) + 1 /\ Counted(reading, f) \in Nat
          BY <1>1, <2>1, <2>2, <3>5, <4>3
        <5> QED  BY <3>1, <3>3, <4>2, <4>3, <5>1 DEF v
      <4>4. CASE f # g
        BY <1>1, <2>1, <3>1, <4>2, <4>4 DEF v
      <4> QED  BY <4>3, <4>4
    <3> QED  BY <3>4, <3>5
  <2>6. CopyInv'
    BY <1>1, <1>2, <2>4, <2>5 DEF CopyInv
  <2> QED  BY <2>3, <2>6
<1> QED  BY <1>6, <1>7, CountedGrows DEF ScanInv

LEMMA ScanReadWord ==
  ASSUME ScanInv, TInv', NEW p \in Cpus, NEW f \in Fields, ReadWord(p, f), UNCHANGED traceVars
  PROVE  SeenInv' /\ CopyInv'
<1> DEFINE e == hist[reading]
           n == hist[reading][p][f]
<1>1. /\ <<p, f>> \in unread /\ unread # {} /\ unread' = unread \ {<<p, f>>}
      /\ sum' = [sum EXCEPT ![f] = @ + n]
      /\ current' = IF unread' = {} THEN Put(current, reading, sum') ELSE current
      /\ UNCHANGED <<reading, hist, polling, must, prevSeen, reported>>
  BY DEF ReadWord, traceVars
<1>2. e \in [Cpus -> Counts] /\ reading \in DOMAIN hist /\ n \in Nat /\ sum \in Counts
  BY <1>1 DEF ScanInv, TInv, PhaseOK, TypeOK, TraceTypeOK, CollectorTypeOK, IsMap, Counts
<1>3. \A i : \A g \in Fields : Before(i, g)' = Before(i, g) /\ Counted(i, g)' = Counted(i, g)
  BY <1>1 DEF Before, Counted
<1>4. sum'[f] = sum[f] + n /\ \A g \in Fields : g # f => sum'[g] = sum[g]
  BY <1>1, <1>2 DEF Counts
<1>5. /\ Waiting(unread', e, f) + n = Waiting(unread, e, f)
      /\ \A g \in Fields : g # f => Waiting(unread', e, g) = Waiting(unread, e, g)
  BY <1>1, <1>2, WordArrives
<1>6. ASSUME NEW g \in Fields
      PROVE  /\ Before(reading, g) <= sum'[g] + Waiting(unread', e, g)
             /\ sum'[g] + Waiting(unread', e, g) <= Counted(reading, g)
  <2>1. /\ Before(reading, g) <= sum[g] + Waiting(unread, e, g)
        /\ sum[g] + Waiting(unread, e, g) <= Counted(reading, g)
    BY <1>1 DEF ScanInv, CopyInv
  <2>2. sum[g] \in Nat /\ Waiting(unread, e, g) \in Nat /\ Waiting(unread', e, g) \in Nat
    BY <1>2, WaitingIsNat, ScanTypes DEF ScanInv
  <2>3. sum'[g] + Waiting(unread', e, g) = sum[g] + Waiting(unread, e, g)
    BY <1>2, <1>4, <1>5, <2>2
  <2> QED  BY <2>1, <2>3
<1>7. ASSUME unread' = {}, NEW g \in Fields
      PROVE  Before(reading, g) <= sum'[g] /\ sum'[g] <= Counted(reading, g)
  <2>1. Waiting(unread', e, g) = 0
    BY <1>7, WaitingAtEnds
  <2>2. sum'[g] \in Nat
    BY DEF TInv, TypeOK, CollectorTypeOK, Counts
  <2> QED  BY <1>6, <2>1, <2>2
<1>8. ASSUME NEW i \in DOMAIN current', NEW g \in Fields
      PROVE  Before(i, g) <= current'[i][g] /\ current'[i][g] <= Counted(i, g)
  <2>1. CASE unread' = {} /\ i = reading
    BY <1>1, <1>7, <2>1 DEF Put
  <2>2. CASE ~(unread' = {} /\ i = reading)
    <3>1. i \in DOMAIN current /\ current'[i] = current[i]
      BY <1>1, <2>2 DEF Put
    <3> QED  BY <3>1 DEF ScanInv, CopyInv
  <2> QED  BY <2>1, <2>2
<1>9. SeenInv'
  <2>1. DOMAIN current' \subseteq DOMAIN hist
    BY <1>1, <1>2 DEF Put, ScanInv, SeenInv
  <2> QED  BY <1>1, <1>3, <2>1 DEF ScanInv, SeenInv
<1>10. CopyInv'
  BY <1>1, <1>3, <1>6, <1>8 DEF CopyInv
<1> QED  BY <1>9, <1>10

\* The critical section: what was read takes the place of what was seen, and no
\* more is credited than the difference.
LEMMA ScanCommit ==
  ASSUME ScanInv, PollCommit, UNCHANGED traceVars
  PROVE  /\ SeenInv' /\ CopyInv'
         /\ \A i : \A f \in Fields : Reported(i, f) <= Reported(i, f)'
<1>1. /\ prevSeen' = current /\ reported' = [i \in DOMAIN current |-> Credit(i)]
      /\ polling' = FALSE /\ current' = EmptyMap /\ unread' = {} /\ hist' = hist
      /\ polling /\ must \subseteq DOMAIN current
  BY DEF PollCommit, traceVars
<1>2. DOMAIN current' = {} /\ \A i : \A f \in Fields : Counted(i, f)' = Counted(i, f)
  BY <1>1 DEF EmptyMap, Counted
<1>3. DOMAIN prevSeen \subseteq DOMAIN current
  BY <1>1 DEF ScanInv, SeenInv
<1>4. ASSUME NEW i \in DOMAIN current, NEW f \in Fields
      PROVE  /\ Reported(i, f) <= Credit(i)[f] /\ Credit(i)[f] <= current[i][f]
  <2>1. /\ Before(i, f) <= current[i][f] /\ Before(i, f) \in Nat /\ current[i][f] \in Nat
    BY ScanTypes DEF ScanInv, CopyInv
  <2>2. Delta(i)[f] + Before(i, f) = current[i][f] /\ Delta(i)[f] \in Nat
    BY <2>1 DEF Delta, Subtract, Before
  <2>3. Reported(i, f) <= Before(i, f) /\ Reported(i, f) \in Nat
    <3>1. CASE i \in DOMAIN prevSeen
      <4>1. Reported(i, f) = reported[i][f] /\ Before(i, f) = prevSeen[i][f]
        BY <3>1 DEF ScanInv, SeenInv, Reported, Before, At
      <4>2. reported[i][f] <= prevSeen[i][f] /\ reported[i][f] \in Nat
        BY <3>1, ScanTypes DEF ScanInv, SeenInv
      <4> QED  BY <4>1, <4>2
    <3>2. CASE i \notin DOMAIN prevSeen
      BY <3>2 DEF ScanInv, SeenInv, Reported, Before, At, ZeroCounts
    <3> QED  BY <3>1, <3>2
  <2>4. Credit(i)[f] \in {Reported(i, f), Reported(i, f) + Delta(i)[f]}
    BY DEF Credit, Reported
  <2> QED  BY <2>1, <2>2, <2>3, <2>4
<1>5. SeenInv'
  <2>1. \A i \in DOMAIN current, f \in Fields :
          Credit(i)[f] <= current[i][f] /\ current[i][f] <= Counted(i, f)
    BY <1>4 DEF ScanInv, CopyInv
  <2> QED  BY <1>1, <1>2, <2>1 DEF ScanInv, SeenInv
<1>6. CopyInv'
  BY <1>1, <1>2 DEF CopyInv
<1>7. ASSUME NEW i, NEW f \in Fields
      PROVE  Reported(i, f) <= Reported(i, f)'
  <2>1. CASE i \in DOMAIN current
    <3>1. Reported(i, f)' = Credit(i)[f]
      BY <1>1, <2>1 DEF Reported, At
    <3> QED  BY <1>4, <2>1, <3>1
  <2>2. CASE i \notin DOMAIN current
    <3>1. Reported(i, f) = 0 /\ Reported(i, f)' = 0
      BY <1>1, <1>3, <2>2 DEF ScanInv, SeenInv, Reported, At, ZeroCounts
    <3> QED  BY <3>1
  <2> QED  BY <2>1, <2>2
<1> QED  BY <1>5, <1>6, <1>7

LEMMA ScanPoll ==
  ASSUME ScanInv, TInv', PollStep
  PROVE  SeenInv' /\ CopyInv'
<1>1. UNCHANGED traceVars /\ hist' = hist
  BY DEF PollStep, traceVars
<1>2. \A i : \A f \in Fields : Counted(i, f)' = Counted(i, f)
  BY <1>1 DEF Counted
<1>3. ASSUME UNCHANGED <<prevSeen, reported>>
      PROVE  \A i : \A f \in Fields : Before(i, f)' = Before(i, f)
  BY <1>3 DEF Before
<1>4. CASE PollStart
  <2>1. /\ must' = DOMAIN hist /\ DOMAIN current' = {}
        /\ UNCHANGED <<prevSeen, reported, unread, reading, sum>>
    BY <1>4 DEF PollStart, EmptyMap
  <2>2. SeenInv'
    BY <1>1, <1>2, <2>1 DEF ScanInv, SeenInv
  <2>3. CopyInv'
    BY <1>1, <1>2, <1>3, <2>1 DEF ScanInv, CopyInv
  <2> QED  BY <2>2, <2>3
<1>5. ASSUME NEW i \in DOMAIN hist, ReadEntry(i)
      PROVE  SeenInv' /\ CopyInv'
  <2>1. /\ reading' = i /\ unread' = Cpus \X Fields /\ sum' = ZeroCounts
        /\ UNCHANGED <<prevSeen, reported, current, polling, must>>
    BY <1>5 DEF ReadEntry
  <2>2. ASSUME NEW f \in Fields
        PROVE  /\ Before(i, f) <= ZeroCounts[f] + Waiting(Cpus \X Fields, hist[i], f)
               /\ ZeroCounts[f] + Waiting(Cpus \X Fields, hist[i], f) <= Counted(i, f)
    <3>1. Waiting(Cpus \X Fields, hist[i], f) = Counted(i, f)
      BY WaitingAtEnds DEF Counted
    <3>2. ZeroCounts[f] = 0 /\ Counted(i, f) \in Nat /\ Before(i, f) \in Nat
      BY ScanTypes DEF ScanInv
    <3>3. Before(i, f) <= Counted(i, f)
      <4>1. CASE i \in DOMAIN prevSeen
        BY <4>1 DEF ScanInv, SeenInv, Before, At
      <4>2. CASE i \notin DOMAIN prevSeen
        BY <3>2, <4>2 DEF Before, At
      <4> QED  BY <4>1, <4>2
    <3> QED  BY <3>1, <3>2, <3>3
  <2>3. SeenInv'
    BY <1>1, <1>2, <2>1 DEF ScanInv, SeenInv
  <2>4. CopyInv'
    BY <1>1, <1>2, <1>3, <2>1, <2>2 DEF ScanInv, CopyInv
  <2> QED  BY <2>3, <2>4
<1>6. ASSUME NEW w \in unread, ReadWord(w[1], w[2])
      PROVE  SeenInv' /\ CopyInv'
  <2>1. w[1] \in Cpus /\ w[2] \in Fields
    BY DEF ScanInv, TInv, TypeOK, CollectorTypeOK
  <2> QED  BY <1>1, <1>6, <2>1, ScanReadWord
<1>7. CASE PollCommit
  BY <1>1, <1>7, ScanCommit
<1> QED  BY <1>4, <1>5, <1>6, <1>7 DEF PollStep

LEMMA ScanStep == ScanInv /\ [Next]_vars => ScanInv'
<1> SUFFICES ASSUME ScanInv, [Next]_vars PROVE ScanInv'
  OBVIOUS
<1>1. TInv'
  BY TypeStep DEF ScanInv
<1>2. CASE ~PollStep /\ \A p \in Cpus : ~Syscall(p)
  <2>1. UNCHANGED <<hist, reported, prevSeen, current, polling, must, unread, reading, sum>>
    BY <1>2 DEF Next, Start, Stop, AgentStep, EndBuild, BeginUpdate, UpdateStep, PutOne, PutFails,
       CleanVisit, CommitUpdate, Poll, vars, traceVars, pollVars, scanVars
  <2>2. \A i : \A f \in Fields : Before(i, f)' = Before(i, f) /\ Counted(i, f)' = Counted(i, f)
    BY <2>1 DEF Before, Counted
  <2>3. SeenInv'
    BY <2>1, <2>2 DEF ScanInv, SeenInv
  <2>4. CopyInv'
    BY <2>1, <2>2 DEF ScanInv, CopyInv
  <2> QED  BY <1>1, <2>3, <2>4 DEF ScanInv
<1> QED  BY <1>1, <1>2, ScanDuringCall, ScanPoll DEF ScanInv

SyscallsDone == [k \in Indexes \X Fields |-> Counted(k[1], k[2])]

SyscallsTold == [k \in Indexes \X Fields |-> Reported(k[1], k[2])]

LEMMA MeterTypes ==
  ScanInv => SyscallsDone \in [Indexes \X Fields -> Nat] /\ SyscallsTold \in [Indexes \X Fields -> Nat]
<1> SUFFICES ASSUME ScanInv, NEW k \in Indexes \X Fields
             PROVE  Counted(k[1], k[2]) \in Nat /\ Reported(k[1], k[2]) \in Nat
  BY DEF SyscallsDone, SyscallsTold
<1>1. k[2] \in Fields
  OBVIOUS
<1>2. At(reported, k[1], ZeroCounts) \in Counts
  BY AtInRange, ZeroCountsType DEF ScanInv, TInv, TypeOK, CollectorTypeOK
<1> QED  BY <1>1, <1>2, ScanTypes DEF ScanInv, Reported, Counts

LEMMA ToldIsDone == ScanInv => \A i : \A f \in Fields : Reported(i, f) <= Counted(i, f)
<1> SUFFICES ASSUME ScanInv, NEW i, NEW f \in Fields
             PROVE  Reported(i, f) <= Counted(i, f)
  OBVIOUS
<1>1. Counted(i, f) \in Nat
  BY ScanTypes DEF ScanInv
<1>2. CASE i \in DOMAIN reported
  <2>1. i \in DOMAIN prevSeen /\ reported[i][f] \in Nat /\ prevSeen[i][f] \in Nat
    BY <1>2, ScanTypes DEF ScanInv, SeenInv
  <2>2. reported[i][f] <= prevSeen[i][f] /\ prevSeen[i][f] <= Counted(i, f)
    BY <2>1 DEF ScanInv, SeenInv
  <2> QED  BY <1>1, <1>2, <2>1, <2>2 DEF Reported, At
<1>3. CASE i \notin DOMAIN reported
  BY <1>1, <1>3 DEF Reported, At, ZeroCounts
<1> QED  BY <1>2, <1>3

LEMMA ToldIsDoneNext == (ScanInv => \A i : \A f \in Fields : Reported(i, f) <= Counted(i, f))'
BY ToldIsDone, PTL

LEMMA MeterTypesNext ==
  (ScanInv => SyscallsDone \in [Indexes \X Fields -> Nat]
              /\ SyscallsTold \in [Indexes \X Fields -> Nat])'
BY MeterTypes, PTL

LEMMA MeterInit == Init => SyscallMeter!Init
<1> SUFFICES ASSUME Init PROVE SyscallMeter!Init
  OBVIOUS
<1>1. SyscallsDone \in [Indexes \X Fields -> Nat]
  BY ScanInit, MeterTypes
<1>2. \A k \in Indexes \X Fields : Reported(k[1], k[2]) = 0
  BY DEF Init, CollectorInit, Reported, At, EmptyMap, ZeroCounts
<1> QED  BY <1>1, <1>2 DEF SyscallsDone, SyscallMeter!Init, SyscallMeter!Amounts

LEMMA MeterStep ==
  ScanInv /\ ScanInv' /\ [Next]_vars => [SyscallMeter!Next]_(SyscallMeter!vars)
<1> SUFFICES ASSUME ScanInv, ScanInv', [Next]_vars
             PROVE  [SyscallMeter!Next]_(SyscallMeter!vars)
  OBVIOUS
<1>1. SyscallsDone' \in [Indexes \X Fields -> Nat] /\ SyscallsTold' \in [Indexes \X Fields -> Nat]
  BY MeterTypesNext
<1>2. ASSUME hist' = hist
      PROVE  SyscallsDone' = SyscallsDone
  BY <1>2 DEF SyscallsDone, Counted
<1>3. ASSUME reported' = reported
      PROVE  SyscallsTold' = SyscallsTold
  BY <1>3 DEF SyscallsTold, Reported
<1>4. ASSUME NEW p \in Cpus, Syscall(p)
      PROVE  SyscallMeter!Do
  <2>1. UNCHANGED reported
    BY <1>4 DEF Syscall, pollVars
  <2>2. ASSUME NEW i, NEW f \in Fields
        PROVE  Counted(i, f)' >= Counted(i, f)
    <3>1. Counted(i, f) \in Nat
      BY ScanTypes DEF ScanInv
    <3>2. ASSUME NEW j \in DOMAIN hist, NEW g \in Fields, hist' = [hist EXCEPT ![j][p][g] = @ + 1]
          PROVE  Counted(i, f)' \in {Counted(i, f), Counted(i, f) + 1}
      BY <3>2, WordCounts DEF ScanInv, TInv
    <3>3. Counted(i, f)' \in {Counted(i, f), Counted(i, f) + 1}
      BY <1>4, <3>2, CountedGrows DEF ScanInv
    <3> QED  BY <3>1, <3>3
  <2>3. \A k \in Indexes \X Fields : SyscallsDone'[k] >= SyscallsDone[k]
    BY <2>2 DEF SyscallsDone
  <2>4. SyscallsTold' = SyscallsTold
    BY <1>3, <2>1
  <2> QED
    BY <1>1, <2>3, <2>4 DEF SyscallMeter!Do, SyscallMeter!Amounts, SyscallsDone, SyscallsTold
<1>5. CASE PollCommit /\ UNCHANGED traceVars
  <2>1. hist' = hist
    BY <1>5 DEF traceVars
  <2>2. ASSUME NEW i, NEW f \in Fields
        PROVE  Reported(i, f)' >= Reported(i, f) /\ Reported(i, f)' <= Counted(i, f)
    <3>1. Reported(i, f) <= Reported(i, f)'
      BY <1>5, ScanCommit
    <3>2. Reported(i, f)' <= Counted(i, f)'
      BY ToldIsDoneNext
    <3>3. Counted(i, f)' = Counted(i, f)
      BY <2>1 DEF Counted
    <3> QED  BY <3>1, <3>2, <3>3
  <2>3. \A k \in Indexes \X Fields :
          SyscallsTold'[k] >= SyscallsTold[k] /\ SyscallsTold'[k] <= SyscallsDone[k]
    BY <2>2 DEF SyscallsDone, SyscallsTold
  <2>4. SyscallMeter!Tell
    BY <1>1, <1>2, <2>1, <2>3 DEF SyscallMeter!Tell, SyscallMeter!Amounts, SyscallsDone, SyscallsTold
  <2> QED  BY <2>4 DEF SyscallMeter!Next
<1>6. CASE UNCHANGED <<hist, reported>>
  BY <1>2, <1>3, <1>6 DEF SyscallMeter!vars, SyscallsDone, SyscallsTold
<1>7. UNCHANGED <<hist, reported>> \/ (PollCommit /\ UNCHANGED traceVars)
      \/ \E p \in Cpus : Syscall(p)
  BY DEF Next, Start, Stop, AgentStep, EndBuild, BeginUpdate, UpdateStep, PutOne, PutFails,
     CleanVisit, CommitUpdate, Poll, PollStep, PollStart, ReadEntry, ReadWord, vars, traceVars,
     pollVars, scanVars
<1> QED  BY <1>4, <1>5, <1>6, <1>7 DEF SyscallMeter!Next

\* The collector implements Meter: over all rows, no counter of a histogram is
\* ever reported beyond what the kernel counted, and neither side goes back.
THEOREM SyscallsAreMetered == Spec => MetersSyscalls
<1>1. Spec => []ScanInv
  BY ScanInit, ScanStep, PTL DEF Spec
<1> QED  BY <1>1, MeterInit, MeterStep, PTL DEF Spec, MetersSyscalls, SyscallMeter!Spec

=============================================================================
