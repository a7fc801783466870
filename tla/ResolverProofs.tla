---------------------------- MODULE ResolverProofs ----------------------------
(* The UPID cache never names a wrong container for a process that exists, for *)
(* any number of processes, containers and concurrent callers.                 *)
EXTENDS Resolver, TLAPS

LEMMA EmptyIsMap == \A K, V : IsMap(EmptyMap, K, V)
BY DEF IsMap, EmptyMap

LEMMA PutIsMap ==
  ASSUME NEW K, NEW V, NEW m, IsMap(m, K, V), NEW k \in K, NEW v \in V
  PROVE  IsMap(Put(m, k, v), K, V)
BY DEF IsMap, Put

LEMMA DropIsMap ==
  ASSUME NEW K, NEW V, NEW m, IsMap(m, K, V), NEW ks
  PROVE  IsMap(Drop(m, ks), K, V)
BY DEF IsMap, Drop

LEMMA AtInV ==
  ASSUME NEW K, NEW V, NEW m, IsMap(m, K, V), NEW k, NEW z \in V
  PROVE  At(m, k, z) \in V
BY DEF IsMap, At

LEMMA HostIsKey == Host \in Keys /\ \A c \in Cids : c \in Keys /\ c # Host
BY ResolverAssumption DEF Keys

\* What a call looks like after a step that moves it or that a process is
\* witnessed by.
LEMMA CallMoves ==
  ASSUME NEW r \in Calls, NEW c \in Keys,
         NEW q \in {"lookup", "cgroup", "store"}
  PROVE  /\ [r EXCEPT !.was = @ \cup {c}] \in Calls
         /\ [r EXCEPT !.pc = q] \in Calls
         /\ [r EXCEPT !.pc = q, !.cid = c] \in Calls
BY DEF Calls

LEMMA WitnessIsMap ==
  ASSUME IsMap(call, Callers, Calls), NEW p, NEW c \in Keys, Witness(p, c)
  PROVE  IsMap(call, Callers, Calls)'
<1>1. \A t \in DOMAIN call : [call[t] EXCEPT !.was = @ \cup {c}] \in Calls
  BY CallMoves DEF IsMap
<1> QED  BY <1>1 DEF Witness, IsMap

-----------------------------------------------------------------------------
(* Types *)

\* A process has a start time.
Typed == TypeOK /\ \A p \in DOMAIN proc : starts[p] >= 1

LEMMA TypedInit == Init => Typed
<1> SUFFICES ASSUME Init PROVE Typed
  OBVIOUS
<1>1. DOMAIN EmptyMap = {}
  BY DEF EmptyMap
<1>2. starts \in [Pids -> 0 .. MaxStarts]
  BY ResolverAssumption DEF Init
<1> QED  BY <1>1, <1>2, EmptyIsMap DEF Init, Typed, TypeOK

LEMMA TypedStep == Typed /\ [Next]_vars => Typed'
<1> SUFFICES ASSUME Typed, [Next]_vars PROVE Typed'
  OBVIOUS
<1> USE DEF Typed, TypeOK
<1>1. ASSUME NEW p \in Pids, NEW c \in Keys, Fork(p, c) PROVE Typed'
  <2>1. /\ starts' \in [Pids -> 0 .. MaxStarts]
        /\ starts'[p] >= 1
        /\ \A q \in Pids \ {p} : starts'[q] = starts[q]
    BY <1>1, ResolverAssumption DEF Fork
  <2>2. IsMap(proc, Pids, Keys)'
    BY <1>1, PutIsMap DEF Fork
  <2>5. DOMAIN proc' = DOMAIN proc \cup {p}
    BY <1>1 DEF Fork, Put
  <2>3. IsMap(call, Callers, Calls)'
    BY <1>1, WitnessIsMap DEF Fork
  <2>4. \A q \in DOMAIN proc' : starts'[q] >= 1
    BY <2>1, <2>2, <2>5 DEF IsMap
  <2> QED  BY <1>1, <2>1, <2>2, <2>3, <2>4 DEF Fork, refreshVars
<1>2. ASSUME NEW p \in Pids, NEW c \in Cids, Join(p, c) PROVE Typed'
  <2>1. IsMap(proc, Pids, Keys)' /\ DOMAIN proc' = DOMAIN proc
    BY <1>2, HostIsKey DEF Join, IsMap
  <2>2. IsMap(call, Callers, Calls)'
    BY <1>2, WitnessIsMap, HostIsKey DEF Join
  <2> QED  BY <1>2, <2>1, <2>2 DEF Join, refreshVars
<1>3. ASSUME NEW p \in Pids, Reap(p) PROVE Typed'
  <2>1. IsMap(proc, Pids, Keys)' /\ DOMAIN proc' \subseteq DOMAIN proc
    BY <1>3, DropIsMap DEF Reap, Drop
  <2> QED  BY <1>3, <2>1 DEF Reap, refreshVars
<1>4. ASSUME NEW c \in Cids, Create(c) \/ Remove(c) PROVE Typed'
  BY <1>4 DEF Create, Remove, refreshVars
<1>5. CASE RefreshList
  BY <1>5 DEF RefreshList, worldVars
<1>6. CASE RefreshCommit
  BY <1>6, DropIsMap DEF RefreshCommit, worldVars
<1>7. ASSUME NEW t \in Callers, NEW p \in Pids, ReadStart(t, p) PROVE Typed'
  <2> DEFINE r == [pc |-> "lookup", pid |-> p, start |-> starts[p], cid |-> Host,
                   was |-> {proc[p]}]
  <2>1. proc[p] \in Keys /\ starts[p] \in 1 .. MaxStarts
    BY <1>7, ResolverAssumption DEF ReadStart, IsMap
  <2>2. r \in Calls
    BY <2>1, HostIsKey DEF Calls
  <2> QED  BY <1>7, <2>2, PutIsMap DEF ReadStart, worldVars, refreshVars
<1>8. ASSUME NEW t \in Callers, Resolve(t) PROVE Typed'
  <2>1. t \in DOMAIN call => /\ call[t] \in Calls
                             /\ Upid(t) \in UPIDs
                             /\ call[t].cid \in Keys
    BY DEF IsMap, Calls, Upid, UPIDs
  <2>2. CASE Lookup(t)
    <3>1. call' = Drop(call, {t}) \/ call' = [call EXCEPT ![t].pc = "cgroup"]
      BY <2>2 DEF Lookup
    <3>2. CASE call' = [call EXCEPT ![t].pc = "cgroup"]
      <4>1. [call[t] EXCEPT !.pc = "cgroup"] \in Calls
        BY <2>1, <2>2, CallMoves, HostIsKey DEF Lookup
      <4> QED  BY <2>2, <3>2, <4>1 DEF Lookup, IsMap, worldVars, refreshVars
    <3> QED  BY <2>2, <3>1, <3>2, DropIsMap DEF Lookup, worldVars, refreshVars
  <2>3. CASE ReadCgroup(t)
    <3> DEFINE c == At(proc, call[t].pid, Host)
    <3>1. c \in Keys
      BY AtInV, HostIsKey
    <3>2. [call[t] EXCEPT !.pc = "store", !.cid = c] \in Calls
      BY <2>1, <2>3, <3>1, CallMoves DEF ReadCgroup
    <3>3. call' = [call EXCEPT ![t] = [call[t] EXCEPT !.pc = "store", !.cid = c]]
      BY <2>3 DEF ReadCgroup
    <3> QED  BY <2>3, <3>2, <3>3 DEF ReadCgroup, IsMap, worldVars, refreshVars
  <2>4. CASE Store(t)
    BY <2>1, <2>4, PutIsMap, DropIsMap DEF Store, worldVars, refreshVars
  <2> QED  BY <1>8, <2>2, <2>3, <2>4 DEF Resolve
<1>9. CASE UNCHANGED vars
  BY <1>9 DEF vars, worldVars, refreshVars
<1> QED  BY <1>1, <1>2, <1>3, <1>4, <1>5, <1>6, <1>7, <1>8, <1>9 DEF Next, World

\* Every variable of the resolver keeps its type, whatever its callers and the
\* kernel do meanwhile.
THEOREM TypeCorrect == Spec => []TypeOK
<1>1. Typed => TypeOK
  BY DEF Typed
<1> QED  BY <1>1, TypedInit, TypedStep, PTL DEF Spec

-----------------------------------------------------------------------------
(* The cache *)

\* No entry and no call is of a process that is still to come.
FromPast ==
  /\ \A u \in DOMAIN upidCache : u[2] <= starts[u[1]]
  /\ \A t \in DOMAIN call : call[t].start <= starts[call[t].pid]

\* What a call is about to store is right, if its process still exists.
StoresRight ==
  \A t \in DOMAIN call :
    /\ call[t].pc = "store"
    /\ call[t].pid \in DOMAIN proc
    /\ call[t].start = starts[call[t].pid]
    => call[t].cid \in {Host, proc[call[t].pid]}

\* LiveNotForeign, entry by entry.
EntriesRight ==
  \A u \in DOMAIN upidCache :
    u[1] \in DOMAIN proc /\ u[2] = starts[u[1]] => upidCache[u] \in {Host, proc[u[1]]}

CacheInv == Typed /\ FromPast /\ StoresRight /\ EntriesRight

LEMMA CacheInit == Init => CacheInv
BY TypedInit DEF Init, CacheInv, FromPast, StoresRight, EntriesRight, EmptyMap

LEMMA CacheStep == CacheInv /\ [Next]_vars => CacheInv'
<1> SUFFICES ASSUME CacheInv, [Next]_vars PROVE CacheInv'
  OBVIOUS
<1>0. Typed' /\ IsMap(call, Callers, Calls) /\ IsMap(proc, Pids, Keys)
      /\ IsMap(upidCache, UPIDs, Keys) /\ starts \in [Pids -> 0 .. MaxStarts]
      /\ MaxStarts \in Nat
  BY TypedStep, ResolverAssumption DEF CacheInv, Typed, TypeOK
<1>a. \A t \in DOMAIN call : call[t] \in Calls /\ call[t].pid \in Pids /\ call[t].start \in Nat
  BY <1>0 DEF IsMap, Calls
<1>b. \A u \in DOMAIN upidCache : u \in UPIDs /\ u[1] \in Pids /\ u[2] \in Nat
  BY <1>0 DEF IsMap, UPIDs
<1> USE DEF CacheInv, FromPast, StoresRight, EntriesRight
<1>1. ASSUME NEW p \in Pids, NEW c \in Keys, Fork(p, c) PROVE CacheInv'
  <2>1. /\ starts' = [starts EXCEPT ![p] = @ + 1]
        /\ proc' = Put(proc, p, c)
        /\ upidCache' = upidCache
        /\ Witness(p, c)
    BY <1>1 DEF Fork
  <2>2. \A q \in Pids : starts[q] \in Nat /\ starts'[q] = IF q = p THEN starts[p] + 1 ELSE starts[q]
    BY <1>0, <2>1
  <2>3. /\ DOMAIN call' = DOMAIN call
        /\ \A t \in DOMAIN call : /\ call'[t].pid = call[t].pid
                                  /\ call'[t].start = call[t].start
                                  /\ call'[t].pc = call[t].pc
                                  /\ call'[t].cid = call[t].cid
    BY <1>a, <2>1 DEF Witness, Calls
  <2>4. FromPast'
    BY <1>a, <1>b, <2>1, <2>2, <2>3
  <2>5. StoresRight'
    BY <1>a, <2>1, <2>2, <2>3 DEF Put
  <2>6. EntriesRight'
    BY <1>b, <2>1, <2>2 DEF Put
  <2> QED  BY <1>0, <2>4, <2>5, <2>6
<1>2. ASSUME NEW p \in Pids, NEW c \in Cids, Join(p, c) PROVE CacheInv'
  <2>1. /\ proc[p] = Host
        /\ DOMAIN proc' = DOMAIN proc
        /\ \A q \in DOMAIN proc : proc'[q] = IF q = p THEN c ELSE proc[q]
        /\ UNCHANGED <<starts, upidCache>>
        /\ Witness(p, c)
    BY <1>2 DEF Join
  <2>3. /\ DOMAIN call' = DOMAIN call
        /\ \A t \in DOMAIN call : /\ call'[t].pid = call[t].pid
                                  /\ call'[t].start = call[t].start
                                  /\ call'[t].pc = call[t].pc
                                  /\ call'[t].cid = call[t].cid
    BY <1>a, <2>1 DEF Witness, Calls
  <2>4. FromPast' /\ EntriesRight'
    BY <2>1, <2>3
  <2>5. StoresRight'
    BY <2>1, <2>3
  <2> QED  BY <1>0, <2>4, <2>5
<1>3. ASSUME NEW p \in Pids, Reap(p) PROVE CacheInv'
  BY <1>0, <1>3 DEF Reap, Drop
<1>4. ASSUME UNCHANGED <<proc, starts, upidCache, call>> PROVE CacheInv'
  BY <1>0, <1>4
<1>5. CASE RefreshCommit
  BY <1>0, <1>5 DEF RefreshCommit, worldVars, Drop
<1>6. ASSUME NEW t \in Callers, NEW p \in Pids, ReadStart(t, p) PROVE CacheInv'
  BY <1>0, <1>6 DEF ReadStart, worldVars, refreshVars, Put
<1>7. ASSUME NEW t \in Callers, Resolve(t) PROVE CacheInv'
  <2>1. CASE Lookup(t)
    <3>1. /\ DOMAIN call' \subseteq DOMAIN call
          /\ \A s \in DOMAIN call' : /\ call'[s].pid = call[s].pid
                                     /\ call'[s].start = call[s].start
                                     /\ call'[s].cid = call[s].cid
                                     /\ call'[s].pc = "store" => call[s].pc = "store"
      BY <1>a, <2>1 DEF Lookup, Drop, Calls
    <3>2. UNCHANGED <<proc, starts, upidCache>>
      BY <2>1 DEF Lookup, worldVars
    <3>3. FromPast' /\ EntriesRight'
      BY <3>1, <3>2
    <3>4. StoresRight'
      BY <3>1, <3>2
    <3> QED  BY <1>0, <3>3, <3>4
  <2>2. CASE ReadCgroup(t)
    <3>1. /\ DOMAIN call' = DOMAIN call
          /\ \A s \in DOMAIN call : /\ call'[s].pid = call[s].pid
                                    /\ call'[s].start = call[s].start
                                    /\ s # t => call'[s] = call[s]
          /\ call'[t].cid = At(proc, call[t].pid, Host)
      BY <1>a, <2>2 DEF ReadCgroup, Calls
    <3>2. StoresRight'
      BY <2>2, <3>1 DEF ReadCgroup, worldVars, At
    <3> QED  BY <1>0, <2>2, <3>1, <3>2 DEF ReadCgroup, worldVars, refreshVars
  <2>3. CASE Store(t)
    <3>1. /\ upidCache' = Put(upidCache, <<call[t].pid, call[t].start>>, call[t].cid)
          /\ call' = Drop(call, {t})
          /\ t \in DOMAIN call /\ call[t].pc = "store"
          /\ UNCHANGED <<proc, starts>>
      BY <2>3 DEF Store, Upid, worldVars
    <3>2. FromPast' /\ StoresRight'
      BY <1>a, <1>b, <3>1 DEF Put, Drop
    <3>3. EntriesRight'
      BY <1>a, <1>b, <3>1 DEF Put
    <3> QED  BY <1>0, <3>2, <3>3
  <2> QED  BY <1>7, <2>1, <2>2, <2>3 DEF Resolve
<1> QED
  BY <1>1, <1>2, <1>3, <1>4, <1>5, <1>6, <1>7
     DEF Next, World, Create, Remove, RefreshList, vars, worldVars, refreshVars

\* "Cached by UPID so PID reuse is safe": no process that exists is cached under
\* a container that it is not in.
THEOREM CacheNotForeign == Spec => []LiveNotForeign
<1>1. CacheInv => LiveNotForeign
  <2> SUFFICES ASSUME CacheInv, NEW p \in DOMAIN proc
               PROVE  At(upidCache, <<p, starts[p]>>, Host) \in {Host, proc[p]}
    BY DEF LiveNotForeign
  <2> QED  BY DEF CacheInv, EntriesRight, At
<1> QED  BY <1>1, CacheInit, CacheStep, PTL DEF Spec

-----------------------------------------------------------------------------
(* Answers *)

\* The process that has a call's pid has been witnessed.
PresentWitnessed ==
  \A t \in DOMAIN call :
    call[t].pid \in DOMAIN proc => proc[call[t].pid] \in call[t].was

SameUpid(s, t) == call[s].pid = call[t].pid /\ call[s].start = call[t].start

\* What a call finds in the cache, or will find there, has been witnessed.
CachedWitnessed ==
  \A t \in DOMAIN call :
    Upid(t) \in DOMAIN upidCache => upidCache[Upid(t)] \in call[t].was \cup {Host}

StoresWitnessed ==
  \A s, t \in DOMAIN call :
    SameUpid(s, t) /\ call[s].pc = "store" => call[s].cid \in call[t].was \cup {Host}

AnswerInv == CacheInv /\ PresentWitnessed /\ CachedWitnessed /\ StoresWitnessed

LEMMA AnswerInit == Init => AnswerInv
BY CacheInit DEF Init, AnswerInv, PresentWitnessed, CachedWitnessed, StoresWitnessed,
                 EmptyMap

\* A fork or a join: the container joins the witnessed ones of the pid's calls.
LEMMA AnswerWitness ==
  ASSUME AnswerInv, NEW p \in Pids, NEW c \in Keys, Witness(p, c), upidCache' = upidCache,
         DOMAIN proc' = DOMAIN proc \cup {p},
         \A q \in DOMAIN proc' : proc'[q] = IF q = p THEN c ELSE proc[q]
  PROVE  PresentWitnessed' /\ CachedWitnessed' /\ StoresWitnessed'
<1>1. IsMap(call, Callers, Calls)
  BY DEF AnswerInv, CacheInv, Typed, TypeOK
<1>2. /\ DOMAIN call' = DOMAIN call
      /\ \A t \in DOMAIN call :
           /\ call'[t].pid = call[t].pid
           /\ call'[t].start = call[t].start
           /\ call'[t].pc = call[t].pc
           /\ call'[t].cid = call[t].cid
           /\ call'[t].was = IF call[t].pid = p THEN call[t].was \cup {c} ELSE call[t].was
  BY <1>1 DEF Witness, IsMap, Calls
<1>3. \A t \in DOMAIN call : Upid(t)' = Upid(t)
  BY <1>2 DEF Upid
<1> USE DEF AnswerInv
<1>4. PresentWitnessed'
  BY <1>2 DEF PresentWitnessed
<1>5. CachedWitnessed'
  <2>1. ASSUME NEW t \in DOMAIN call', Upid(t)' \in DOMAIN upidCache'
        PROVE  upidCache'[Upid(t)'] \in call'[t].was \cup {Host}
    <3>1. Upid(t)' = Upid(t) /\ t \in DOMAIN call
      BY <1>2, <1>3
    <3>2. upidCache[Upid(t)] \in call[t].was \cup {Host}
      BY <2>1, <3>1 DEF CachedWitnessed
    <3>3. call[t].was \subseteq call'[t].was
      BY <1>2, <3>1
    <3> QED  BY <3>1, <3>2, <3>3
  <2> QED  BY <2>1 DEF CachedWitnessed
<1>6. ASSUME NEW s \in DOMAIN call', NEW t \in DOMAIN call', SameUpid(s, t)',
             call'[s].pc = "store"
      PROVE  call'[s].cid \in call'[t].was \cup {Host}
  <2>1. /\ s \in DOMAIN call /\ t \in DOMAIN call
        /\ SameUpid(s, t) /\ call[s].pc = "store" /\ call'[s].cid = call[s].cid
    BY <1>2, <1>6 DEF SameUpid
  <2>2. call[s].cid \in call[t].was \cup {Host}
    BY <2>1 DEF StoresWitnessed
  <2>3. call[t].was \subseteq call'[t].was
    BY <1>2, <2>1
  <2> QED  BY <2>1, <2>2, <2>3
<1>7. StoresWitnessed'
  BY <1>6 DEF StoresWitnessed
<1> QED  BY <1>4, <1>5, <1>7

LEMMA AnswerStep == AnswerInv /\ [Next]_vars => AnswerInv'
<1> SUFFICES ASSUME AnswerInv, [Next]_vars PROVE AnswerInv'
  OBVIOUS
<1>0. CacheInv' /\ IsMap(call, Callers, Calls)
  BY CacheStep DEF AnswerInv, CacheInv, Typed, TypeOK
<1>a. \A t \in DOMAIN call : call[t] \in Calls /\ call[t].pid \in Pids
  BY <1>0 DEF IsMap, Calls
<1> USE DEF AnswerInv
<1>1. ASSUME NEW p \in Pids, NEW c \in Keys, Fork(p, c) PROVE AnswerInv'
  <2>1. /\ DOMAIN proc' = DOMAIN proc \cup {p}
        /\ \A q \in DOMAIN proc' : proc'[q] = IF q = p THEN c ELSE proc[q]
        /\ Witness(p, c) /\ upidCache' = upidCache
    BY <1>1 DEF Fork, Put
  <2> QED  BY <1>0, <2>1, AnswerWitness
<1>2. ASSUME NEW p \in Pids, NEW c \in Cids, Join(p, c) PROVE AnswerInv'
  <2>1. /\ DOMAIN proc' = DOMAIN proc \cup {p}
        /\ \A q \in DOMAIN proc' : proc'[q] = IF q = p THEN c ELSE proc[q]
        /\ Witness(p, c) /\ upidCache' = upidCache
    BY <1>2 DEF Join
  <2> QED  BY <1>0, <2>1, HostIsKey, AnswerWitness
<1>3. ASSUME UNCHANGED call,
             DOMAIN proc' \subseteq DOMAIN proc,
             \A q \in DOMAIN proc' : proc'[q] = proc[q],
             DOMAIN upidCache' \subseteq DOMAIN upidCache,
             \A u \in DOMAIN upidCache' : upidCache'[u] = upidCache[u]
      PROVE  AnswerInv'
  <2>1. PresentWitnessed'
    BY <1>3 DEF PresentWitnessed
  <2>2. CachedWitnessed'
    BY <1>3 DEF CachedWitnessed, Upid
  <2>3. StoresWitnessed'
    BY <1>3 DEF StoresWitnessed, SameUpid
  <2> QED  BY <1>0, <2>1, <2>2, <2>3
<1>4. ASSUME NEW p \in Pids, Reap(p) PROVE AnswerInv'
  BY <1>3, <1>4 DEF Reap, Drop
<1>5. CASE RefreshCommit
  BY <1>3, <1>5 DEF RefreshCommit, worldVars, Drop
<1>6. ASSUME NEW t \in Callers, NEW p \in Pids, ReadStart(t, p) PROVE AnswerInv'
  <2>1. /\ DOMAIN call' = DOMAIN call \cup {t}
        /\ \A s \in DOMAIN call : call'[s] = call[s] /\ s # t
        /\ call'[t].pid = p /\ call'[t].start = starts[p] /\ call'[t].pc = "lookup"
        /\ call'[t].was = {proc[p]}
        /\ p \in DOMAIN proc
        /\ UNCHANGED <<proc, upidCache>>
    BY <1>6 DEF ReadStart, worldVars, refreshVars, Put
  <2>2. PresentWitnessed'
    BY <2>1 DEF PresentWitnessed
  <2>3. CachedWitnessed'
    <3>1. \A s \in DOMAIN call : Upid(s)' = Upid(s)
      BY <2>1 DEF Upid
    <3>2. Upid(t)' = <<p, starts[p]>>
      BY <2>1 DEF Upid
    <3>3. <<p, starts[p]>> \in DOMAIN upidCache =>
            upidCache[<<p, starts[p]>>] \in {proc[p]} \cup {Host}
      BY <2>1 DEF CacheInv, EntriesRight
    <3> QED  BY <2>1, <3>1, <3>2, <3>3 DEF CachedWitnessed
  <2>4. StoresWitnessed'
    BY <2>1 DEF StoresWitnessed, SameUpid, CacheInv, StoresRight
  <2> QED  BY <1>0, <2>2, <2>3, <2>4
<1>7. ASSUME NEW t \in Callers, Lookup(t) PROVE AnswerInv'
  <2>1. /\ DOMAIN call' \subseteq DOMAIN call
        /\ \A s \in DOMAIN call' : /\ call'[s].pid = call[s].pid
                                   /\ call'[s].start = call[s].start
                                   /\ call'[s].cid = call[s].cid
                                   /\ call'[s].was = call[s].was
                                   /\ call'[s].pc = "store" => call[s].pc = "store"
        /\ UNCHANGED <<proc, upidCache>>
    BY <1>a, <1>7 DEF Lookup, Drop, Calls, worldVars
  <2>2. PresentWitnessed' /\ CachedWitnessed'
    BY <2>1 DEF PresentWitnessed, CachedWitnessed, Upid
  <2>3. StoresWitnessed'
    BY <2>1 DEF StoresWitnessed, SameUpid
  <2> QED  BY <1>0, <2>2, <2>3
<1>8. ASSUME NEW t \in Callers, ReadCgroup(t) PROVE AnswerInv'
  <2>1. /\ DOMAIN call' = DOMAIN call
        /\ \A s \in DOMAIN call : /\ call'[s].pid = call[s].pid
                                  /\ call'[s].start = call[s].start
                                  /\ call'[s].was = call[s].was
                                  /\ s # t => call'[s] = call[s]
        /\ call'[t].cid = At(proc, call[t].pid, Host)
        /\ UNCHANGED <<proc, upidCache>>
    BY <1>a, <1>8 DEF ReadCgroup, Calls, worldVars
  <2>2. PresentWitnessed' /\ CachedWitnessed'
    BY <2>1 DEF PresentWitnessed, CachedWitnessed, Upid
  <2>3. StoresWitnessed'
    BY <2>1 DEF StoresWitnessed, SameUpid, PresentWitnessed, At
  <2> QED  BY <1>0, <2>2, <2>3
<1>9. ASSUME NEW t \in Callers, Store(t) PROVE AnswerInv'
  <2>1. /\ DOMAIN call' = DOMAIN call \ {t}
        /\ \A s \in DOMAIN call' : call'[s] = call[s]
        /\ t \in DOMAIN call /\ call[t].pc = "store"
        /\ upidCache' = Put(upidCache, Upid(t), call[t].cid)
        /\ UNCHANGED proc
    BY <1>9 DEF Store, Drop, worldVars
  <2>2. PresentWitnessed'
    BY <2>1 DEF PresentWitnessed
  <2>3. StoresWitnessed'
    BY <2>1 DEF StoresWitnessed, SameUpid
  <2>4. ASSUME NEW s \in DOMAIN call', Upid(s)' \in DOMAIN upidCache'
        PROVE  upidCache'[Upid(s)'] \in call'[s].was \cup {Host}
    <3>1. Upid(s)' = Upid(s) /\ s \in DOMAIN call /\ call'[s] = call[s]
      BY <2>1 DEF Upid
    <3>2. CASE Upid(s) = Upid(t)
      <4>1. SameUpid(t, s)
        BY <3>2 DEF Upid, SameUpid
      <4>2. upidCache'[Upid(s)] = call[t].cid
        BY <2>1, <3>2 DEF Put
      <4> QED  BY <2>1, <3>1, <4>1, <4>2 DEF StoresWitnessed
    <3>3. CASE Upid(s) # Upid(t)
      <4>1. Upid(s) \in DOMAIN upidCache /\ upidCache'[Upid(s)] = upidCache[Upid(s)]
        BY <2>1, <2>4, <3>1, <3>3 DEF Put
      <4> QED  BY <3>1, <4>1 DEF CachedWitnessed
    <3> QED  BY <3>2, <3>3
  <2> QED  BY <1>0, <2>2, <2>3, <2>4 DEF CachedWitnessed
<1>10. CASE UNCHANGED <<proc, starts, upidCache, call>>
  BY <1>3, <1>10
<1> QED
  BY <1>1, <1>2, <1>4, <1>5, <1>6, <1>7, <1>8, <1>9, <1>10
     DEF Next, World, Resolve, Create, Remove, RefreshList, vars, worldVars, refreshVars

\* A container that Resolve returns, from the cache or not, is one in which a
\* process with that pid was while the call ran.
THEOREM AnswersNotStale == Spec => AnswersWereThere
<1>1. AnswerInv /\ [Next]_vars =>
        [\A t \in DOMAIN call \ DOMAIN call' : Answer(t) \in call[t].was \cup {Host}]_vars
  <2> SUFFICES ASSUME AnswerInv, Next, NEW t \in DOMAIN call \ DOMAIN call'
               PROVE  Answer(t) \in call[t].was \cup {Host}
    OBVIOUS
  <2>1. ASSUME NEW s \in Callers, Lookup(s)
        PROVE  s = t /\ call[t].pc = "lookup" /\ Upid(t) \in DOMAIN upidCache
    BY <2>1 DEF Lookup, Drop
  <2>2. ASSUME NEW s \in Callers, Store(s)
        PROVE  s = t /\ call[t].pc = "store"
    BY <2>2 DEF Store, Drop
  <2>3. PICK s \in Callers : Lookup(s) \/ Store(s)
    BY DEF Next, World, Resolve, ReadCgroup, ReadStart, Put, Fork, Join, Reap, Create,
           Remove, RefreshList, RefreshCommit, Witness
  <2>4. \/ call[t].pc = "lookup" /\ Upid(t) \in DOMAIN upidCache
        \/ call[t].pc = "store"
    BY <2>1, <2>2, <2>3
  <2> QED
    BY <2>4 DEF Answer, AnswerInv, CachedWitnessed, StoresWitnessed, SameUpid
<1> QED  BY <1>1, AnswerInit, AnswerStep, PTL DEF Spec, AnswersWereThere
===============================================================================
