----------------------------- MODULE CpuTimeProofs -----------------------------
(* The two accounts of CPU time in a Vector: what PidRuntime adds up from the   *)
(* context switches of pids, and what CgroupMeter takes from the kernel's own   *)
(* account of a cgroup.  Neither charges a container for time that it did not   *)
(* use, up to what the properties name, for any number of pids, CPUs and        *)
(* containers, and for every order of polls, samples and windows.               *)
EXTENDS PidRuntime, CgroupMeter, LedgerLemmas

-----------------------------------------------------------------------------
(* Types.  No sum of CPU time is ever negative: a stamp is never later than the *)
(* clock, and a total that was read or reported is never above the one that the *)
(* map has now, from which nothing is deleted.                                  *)

Stamps == \A p \in DOMAIN acct, c \in Cpus : acct[p][c].start <= now

\* A task is a process that exists, and is on one CPU at a time.
Tasks ==
  /\ \A c \in Cpus : running[c] \in DOMAIN owner \cup {Idle}
  /\ \A c, d \in Cpus : c # d /\ running[c] # Idle => running[c] # running[d]

Old(p) == At(prevSeen, p, 0)

Totals ==
  /\ DOMAIN prevSeen \subseteq DOMAIN acct /\ DOMAIN current \subseteq DOMAIN acct
  /\ \A p \in Pids : Old(p) <= Total(p)
  /\ \A p \in DOMAIN current : Old(p) <= current[p] /\ current[p] <= Total(p)

RuntimeInv == TypeOK /\ Stamps /\ Tasks /\ Totals

\* What p ran on CPU c by its entry, the time since its stamp included.
Part(p, c) ==
  acct[p][c].run + (IF running[c] = p THEN now - acct[p][c].start ELSE 0)

Parts(p) == [c \in Cpus |-> Part(p, c)]

\* What p ran by the map, on all CPUs.
Spent(p) == IF p \in DOMAIN acct THEN SumFunction(Parts(p)) ELSE 0

Runs(p) == [c \in Cpus |-> acct[p][c].run]

Finite == IsFiniteSet(Pids) /\ IsFiniteSet(Cpus) /\ IsFiniteSet(Cids) /\ IsFiniteSet(Keys)

LEMMA AllFinite == Finite
<1>1. IsFiniteSet(Cids \cup {Host})
  BY RuntimeAssumption, FS_AddElement
<1> QED  BY <1>1, RuntimeAssumption DEF Finite, Keys

LEMMA EntryTypes ==
  (TypeOK /\ Stamps) => \A p \in DOMAIN acct, c \in Cpus :
    /\ p \in Pids /\ acct[p][c] \in Accts
    /\ acct[p][c].run \in Nat /\ acct[p][c].start \in Nat
    /\ now - acct[p][c].start \in Nat
<1> SUFFICES ASSUME TypeOK, Stamps, NEW p \in DOMAIN acct, NEW c \in Cpus
             PROVE  /\ p \in Pids /\ acct[p][c] \in Accts
                    /\ acct[p][c].run \in Nat /\ acct[p][c].start \in Nat
                    /\ now - acct[p][c].start \in Nat
  OBVIOUS
<1>1. p \in Pids /\ acct[p] \in [Cpus -> Accts]
  BY DEF TypeOK, IsMap
<1>2. acct[p][c] \in Accts /\ acct[p][c].run \in Nat /\ acct[p][c].start \in 0 .. MaxTime
  BY <1>1 DEF Accts
<1>3. acct[p][c].start <= now /\ now \in 1 .. MaxTime
  BY DEF Stamps, TypeOK
<1>4. acct[p][c].start \in Nat /\ now \in Nat
  BY <1>2, <1>3, RuntimeAssumption
<1> QED  BY <1>1, <1>2, <1>3, <1>4

LEMMA TotalTypes ==
  (TypeOK /\ Stamps) => \A p \in Pids :
    /\ Total(p) \in Nat
    /\ p \in DOMAIN acct => /\ Runs(p) \in [Cpus -> Nat] /\ Parts(p) \in [Cpus -> Nat]
                            /\ Total(p) = SumFunction(Runs(p))
                            /\ SumFunction(Parts(p)) \in Nat
                            /\ Total(p) <= SumFunction(Parts(p))
<1> SUFFICES ASSUME TypeOK, Stamps, NEW p \in Pids
             PROVE  /\ Total(p) \in Nat
                    /\ p \in DOMAIN acct =>
                         /\ Runs(p) \in [Cpus -> Nat] /\ Parts(p) \in [Cpus -> Nat]
                         /\ Total(p) = SumFunction(Runs(p))
                         /\ SumFunction(Parts(p)) \in Nat
                         /\ Total(p) <= SumFunction(Parts(p))
  OBVIOUS
<1>1. CASE p \notin DOMAIN acct
  BY <1>1 DEF Total
<1>2. CASE p \in DOMAIN acct
  <2>1. \A c \in Cpus : acct[p][c].run \in Nat /\ now - acct[p][c].start \in Nat
    BY <1>2, EntryTypes
  <2>2. \A c \in Cpus : Part(p, c) \in Nat /\ acct[p][c].run <= Part(p, c)
    BY <2>1 DEF Part
  <2>3. /\ Runs(p) \in [Cpus -> Nat] /\ Parts(p) \in [Cpus -> Nat]
        /\ \A c \in Cpus : Runs(p)[c] <= Parts(p)[c]
    BY <2>1, <2>2 DEF Runs, Parts
  <2>4. Runs(p) \in [Cpus -> Int] /\ Parts(p) \in [Cpus -> Int]
    BY <2>3
  <2>5. Total(p) = SumFunction(Runs(p))
    BY <1>2 DEF Total, Runs
  <2>6. SumFunction(Runs(p)) \in Nat /\ SumFunction(Parts(p)) \in Nat
    BY <2>3, FunSumIsNat, AllFinite DEF Finite
  <2>7. SumFunction(Runs(p)) <= SumFunction(Parts(p))
    BY <2>3, <2>4, FunSumLeq, AllFinite DEF Finite
  <2> QED  BY <1>2, <2>3, <2>5, <2>6, <2>7
<1> QED  BY <1>1, <1>2

LEMMA OldTypes == TypeOK => \A p \in Pids : Old(p) \in Nat
BY AtInRange DEF TypeOK, Old

LEMMA TypeInit == Init => RuntimeInv
<1> SUFFICES ASSUME Init PROVE RuntimeInv
  OBVIOUS
<1>1. /\ IsMap(acct, Pids, [Cpus -> Accts]) /\ IsMap(current, Pids, Nat)
      /\ IsMap(prevSeen, Pids, Nat)
  BY EmptyIsMap, Zenon DEF Init
<1>2. DOMAIN acct = {} /\ DOMAIN current = {} /\ DOMAIN prevSeen = {}
  BY DEF Init, EmptyMap
<1>3. IsMap(owner, Pids, Keys) /\ running \in [Cpus -> Pids \cup {Idle}]
  BY DEF Init, IsMap
<1>4. /\ ran \in [Pids -> [Keys -> Nat]] /\ renames \in [Pids -> Nat]
      /\ credited \in [Keys -> Nat] /\ inherited \in [Cids -> Nat]
  BY DEF Init, ZeroOf
<1>5. now \in 1 .. MaxTime /\ forks \in 0 .. MaxForks /\ errors \in 0 .. MaxMishaps
  BY RuntimeAssumption DEF Init
<1>6. Cardinality(DOMAIN acct) <= Capacity
  BY <1>2, FS_EmptySet, RuntimeAssumption
<1>7. TypeOK
  BY <1>1, <1>3, <1>4, <1>5, <1>6 DEF Init, TypeOK
<1>8. Stamps /\ Totals
  BY <1>2 DEF Stamps, Totals, Old, At, Total
<1>9. Tasks
  BY DEF Init, Tasks
<1> QED  BY <1>7, <1>8, <1>9 DEF RuntimeInv

\* What a context switch on CPU c, from q to p, does to the entries: it stamps
\* that of p, charges that of q, and moves no time from one to another.
LEMMA OutGives ==
  ASSUME TypeOK, Stamps, NEW c \in Cpus, NEW m, m = SwitchedOut(running[c], c)
  PROVE  /\ DOMAIN m = DOMAIN acct /\ IsMap(m, Pids, [Cpus -> Accts])
         /\ \A r \in DOMAIN acct, d \in Cpus :
              m[r][d] = IF r = running[c] /\ d = c THEN Charge(r, c) ELSE acct[r][d]
<1> DEFINE q == running[c]
<1>1. IsMap(acct, Pids, [Cpus -> Accts])
  BY DEF TypeOK
<1>2. CASE q \notin DOMAIN acct
  BY <1>1, <1>2 DEF SwitchedOut
<1>3. CASE q \in DOMAIN acct
  <2>1. m = [acct EXCEPT ![q] = [acct[q] EXCEPT ![c] = Charge(q, c)]]
    BY <1>3 DEF SwitchedOut
  <2>2. acct[q] \in [Cpus -> Accts] /\ q \in Pids
    BY <1>1, <1>3 DEF IsMap
  <2>3. Charge(q, c) \in Accts
    <3>1. acct[q][c].run \in Nat /\ now - acct[q][c].start \in Nat /\ now \in Nat
          /\ acct[q][c].start \in Nat
      BY <1>3, EntryTypes DEF TypeOK
    <3>2. acct[q][c].run + (now - acct[q][c].start) \in Nat /\ 0 \in 0 .. MaxTime
      BY <3>1, RuntimeAssumption
    <3> QED  BY <3>1, <3>2 DEF Charge, Accts
  <2>4. [acct[q] EXCEPT ![c] = Charge(q, c)] \in [Cpus -> Accts]
    BY <2>2, <2>3
  <2>5. /\ DOMAIN m = DOMAIN acct
        /\ m[q] = [acct[q] EXCEPT ![c] = Charge(q, c)]
        /\ \A r \in DOMAIN acct : r # q => m[r] = acct[r]
    BY <1>3, <2>1
  <2>6. IsMap(m, Pids, [Cpus -> Accts])
    BY <1>1, <2>4, <2>5 DEF IsMap
  <2>7. \A r \in DOMAIN acct, d \in Cpus :
          m[r][d] = IF r = q /\ d = c THEN Charge(r, c) ELSE acct[r][d]
    BY <2>2, <2>5
  <2> QED  BY <2>5, <2>6, <2>7
<1> QED  BY <1>2, <1>3

\* n is m with p stamped on c, if there was room for it.
Stamped(n, m, p, c) ==
  /\ IsMap(n, Pids, [Cpus -> Accts]) /\ Cardinality(DOMAIN n) <= Capacity
  /\ DOMAIN m \subseteq DOMAIN n /\ DOMAIN n \subseteq DOMAIN m \cup {p}
  /\ \A r \in DOMAIN m, d \in Cpus :
       n[r][d] = IF r = p /\ d = c THEN [start |-> now, run |-> m[r][d].run]
                                   ELSE m[r][d]
  /\ p \in DOMAIN n \ DOMAIN m => n[p] = Fresh(c)

IsSwitchedIn(n, m, p, c) == n = SwitchedIn(m, p, c)

LEMMA InGives ==
  ASSUME TypeOK, NEW c \in Cpus, NEW p \in Pids \cup {Idle},
         NEW m, IsMap(m, Pids, [Cpus -> Accts]), Cardinality(DOMAIN m) <= Capacity,
         NEW n, IsSwitchedIn(n, m, p, c)
  PROVE  Stamped(n, m, p, c)
<1> USE DEF Stamped
<1>0. now \in 0 .. MaxTime /\ 0 \in 0 .. MaxTime
  BY RuntimeAssumption DEF TypeOK
<1>1. CASE p \in DOMAIN m
  <2> DEFINE e == [m[p][c] EXCEPT !.start = now]
  <2>1. n = [m EXCEPT ![p] = [m[p] EXCEPT ![c] = e]]
    BY <1>1 DEF IsSwitchedIn, SwitchedIn
  <2>2. m[p] \in [Cpus -> Accts] /\ m[p][c] \in Accts
    BY <1>1 DEF IsMap
  <2>3. e \in Accts /\ e = [start |-> now, run |-> m[p][c].run]
    BY <1>0, <2>2 DEF Accts
  <2> HIDE DEF e
  <2>4. [m[p] EXCEPT ![c] = e] \in [Cpus -> Accts]
    BY <2>2, <2>3
  <2>5. /\ DOMAIN n = DOMAIN m
        /\ n[p] = [m[p] EXCEPT ![c] = e]
        /\ \A r \in DOMAIN m : r # p => n[r] = m[r]
    BY <1>1, <2>1
  <2>6. IsMap(n, Pids, [Cpus -> Accts])
    BY <2>4, <2>5 DEF IsMap
  <2>7. \A r \in DOMAIN m, d \in Cpus :
          n[r][d] = IF r = p /\ d = c THEN e ELSE m[r][d]
    BY <2>2, <2>5
  <2> QED  BY <1>1, <2>3, <2>5, <2>6, <2>7
<1>2. CASE p \notin DOMAIN m /\ p # Idle /\ HasRoom(m, p, Capacity)
  <2>1. n = Put(m, p, Fresh(c)) /\ p \in Pids
    BY <1>2 DEF IsSwitchedIn, SwitchedIn
  <2>2. Fresh(c) \in [Cpus -> Accts]
    BY <1>0 DEF Fresh, Accts
  <2>3. IsMap(n, Pids, [Cpus -> Accts])
    BY <2>1, <2>2, PutIsMap
  <2>4. DOMAIN m \subseteq Pids /\ Cardinality(DOMAIN m) < Capacity
    BY <1>2 DEF IsMap, HasRoom
  <2>5. Cardinality(DOMAIN n) <= Capacity
    <3>1. Cardinality(DOMAIN m) \in Nat
          /\ Cardinality(DOMAIN Put(m, p, Fresh(c))) = Cardinality(DOMAIN m) + 1
      BY <1>2, <2>1, <2>4, MapSize, AllFinite DEF Finite
    <3> QED  BY <2>1, <2>4, <3>1, RuntimeAssumption
  <2>6. /\ DOMAIN n = DOMAIN m \cup {p} /\ n[p] = Fresh(c)
        /\ \A r \in DOMAIN m : n[r] = m[r] /\ r # p
    BY <1>2, <2>1 DEF Put
  <2> QED  BY <2>3, <2>5, <2>6
<1>3. CASE p \notin DOMAIN m /\ ~(p # Idle /\ HasRoom(m, p, Capacity))
  BY <1>3 DEF IsSwitchedIn, SwitchedIn
<1> QED  BY <1>1, <1>2, <1>3

LEMMA SwitchGives ==
  ASSUME RuntimeInv, NEW c \in Cpus, NEW p \in Pids \cup {Idle}, Switch(c, p)
  PROVE  /\ IsMap(acct', Pids, [Cpus -> Accts]) /\ Cardinality(DOMAIN acct') <= Capacity
         /\ DOMAIN acct \subseteq DOMAIN acct' /\ DOMAIN acct' \subseteq DOMAIN acct \cup {p}
         /\ \A r \in DOMAIN acct', d \in Cpus :
              /\ acct'[r][d].start <= now
              /\ r \notin DOMAIN acct =>
                   acct'[r][d].run = 0 /\ (running'[d] = r => acct'[r][d].start = now)
              /\ r \in DOMAIN acct =>
                   /\ acct'[r][d].run >= acct[r][d].run
                   /\ running'[d] = r =>
                        \/ d = c /\ acct'[r][d].start = now
                        \/ d # c /\ running[d] = r /\ acct'[r][d].start = acct[r][d].start
                   /\ Part(r, d)' = Part(r, d)
<1> DEFINE q == running[c]
           m == SwitchedOut(q, c)
<1>1. TypeOK /\ Stamps /\ Tasks /\ now \in Nat /\ now' = now
  BY RuntimeAssumption DEF RuntimeInv, TypeOK, Switch
<1>2. /\ running' = [running EXCEPT ![c] = p] /\ p # q
      /\ running \in [Cpus -> Pids \cup {Idle}]
      /\ p # Idle => \A d \in Cpus : running[d] # p
      /\ acct' = SwitchedIn(m, p, c)
  BY DEF Switch, OnCpu, Range, RuntimeInv, TypeOK
<1>3. /\ DOMAIN m = DOMAIN acct /\ IsMap(m, Pids, [Cpus -> Accts])
      /\ \A r \in DOMAIN acct, d \in Cpus :
           m[r][d] = IF r = q /\ d = c THEN Charge(r, c) ELSE acct[r][d]
  BY <1>1, OutGives
<1> HIDE DEF m
<1>4. /\ IsMap(acct', Pids, [Cpus -> Accts]) /\ Cardinality(DOMAIN acct') <= Capacity
      /\ DOMAIN m \subseteq DOMAIN acct' /\ DOMAIN acct' \subseteq DOMAIN m \cup {p}
      /\ \A r \in DOMAIN m, d \in Cpus :
           acct'[r][d] = IF r = p /\ d = c THEN [start |-> now, run |-> m[r][d].run]
                                           ELSE m[r][d]
      /\ p \in DOMAIN acct' \ DOMAIN m => acct'[p] = Fresh(c)
  <2>1. Cardinality(DOMAIN m) <= Capacity
    BY <1>1, <1>3 DEF TypeOK
  <2>2. IsSwitchedIn(acct', m, p, c)
    BY <1>2 DEF IsSwitchedIn
  <2>3. TypeOK /\ IsMap(m, Pids, [Cpus -> Accts])
    BY <1>1, <1>3
  <2>4. Stamped(acct', m, p, c)
    BY <2>1, <2>2, <2>3, InGives
  <2> QED  BY <2>4 DEF Stamped
<1>5. Idle \notin DOMAIN acct'
  BY <1>4, RuntimeAssumption DEF IsMap
<1>6. ASSUME NEW r \in DOMAIN acct', NEW d \in Cpus, r \notin DOMAIN acct
      PROVE  /\ acct'[r][d].start <= now /\ acct'[r][d].run = 0
             /\ running'[d] = r => acct'[r][d].start = now
  <2>1. r = p /\ acct'[r] = Fresh(c)
    BY <1>3, <1>4, <1>6
  <2>2. p # Idle
    BY <1>5, <1>6, <2>1
  <2>3. running'[d] = r => d = c
    BY <1>2, <2>1, <2>2
  <2> QED  BY <1>1, <2>1, <2>3 DEF Fresh
<1>7. ASSUME NEW r \in DOMAIN acct', NEW d \in Cpus, r \in DOMAIN acct
      PROVE  /\ acct'[r][d].start <= now
             /\ acct'[r][d].run >= acct[r][d].run
             /\ running'[d] = r =>
                  \/ d = c /\ acct'[r][d].start = now
                  \/ d # c /\ running[d] = r /\ acct'[r][d].start = acct[r][d].start
             /\ Part(r, d)' = Part(r, d)
  <2>0. /\ m[r][d] = (IF r = q /\ d = c THEN Charge(r, c) ELSE acct[r][d])
        /\ acct'[r][d] = (IF r = p /\ d = c THEN [start |-> now, run |-> m[r][d].run]
                                            ELSE m[r][d])
    BY <1>3, <1>4, <1>7
  <2>1. /\ acct[r][d].run \in Nat /\ acct[r][d].start \in Nat
        /\ acct[r][d].start <= now
    BY <1>1, <1>7, EntryTypes DEF Stamps
  <2>2. r # Idle
    BY <1>5
  <2>3. CASE r = p
    <3>1. running[d] # r /\ (running'[d] = r <=> d = c)
      BY <1>2, <2>2, <2>3
    <3>2. acct'[r][d].run = acct[r][d].run
          /\ acct'[r][d].start = (IF d = c THEN now ELSE acct[r][d].start)
      BY <1>2, <2>0, <2>3
    <3> QED  BY <1>1, <2>1, <3>1, <3>2 DEF Part
  <2>4. CASE r # p /\ d = c
    <3>1. running'[d] = p /\ acct'[r][d] = (IF r = q THEN Charge(r, c) ELSE acct[r][d])
      BY <1>2, <2>0, <2>4
    <3> QED  BY <1>1, <2>1, <2>4, <3>1 DEF Part, Charge
  <2>5. CASE r # p /\ d # c
    <3>1. running'[d] = running[d] /\ acct'[r][d] = acct[r][d]
      BY <1>2, <2>0, <2>5
    <3> QED  BY <1>1, <2>1, <2>5, <3>1 DEF Part
  <2> QED  BY <2>3, <2>4, <2>5
<1> QED  BY <1>3, <1>4, <1>6, <1>7

\* No total that the map has ever goes down.
LEMMA TotalGrows ==
  ASSUME RuntimeInv, NEW c \in Cpus, NEW p \in Pids \cup {Idle}, Switch(c, p)
  PROVE  \A r \in Pids : Total(r)' \in Nat /\ Total(r) <= Total(r)'
<1> SUFFICES ASSUME NEW r \in Pids PROVE Total(r)' \in Nat /\ Total(r) <= Total(r)'
  OBVIOUS
<1>1. /\ DOMAIN acct \subseteq DOMAIN acct'
      /\ \A s \in DOMAIN acct, d \in Cpus : acct'[s][d].run >= acct[s][d].run
      /\ IsMap(acct', Pids, [Cpus -> Accts])
  BY SwitchGives
<1>2. Total(r) \in Nat
  BY TotalTypes DEF RuntimeInv
<1>3. CASE r \notin DOMAIN acct'
  BY <1>1, <1>3 DEF Total
<1>4. CASE r \in DOMAIN acct'
  <2> DEFINE e == [d \in Cpus |-> acct'[r][d].run]
  <2>1. acct'[r] \in [Cpus -> Accts]
    BY <1>1, <1>4 DEF IsMap
  <2>2. e \in [Cpus -> Nat]
    BY <2>1 DEF Accts
  <2>3. Total(r)' = SumFunction(e)
    BY <1>4 DEF Total
  <2>4. SumFunction(e) \in Nat
    BY <2>2, FunSumIsNat, AllFinite DEF Finite
  <2>5. CASE r \notin DOMAIN acct
    BY <2>3, <2>4, <2>5 DEF Total
  <2>6. CASE r \in DOMAIN acct
    <3>1. Runs(r) \in [Cpus -> Nat] /\ Total(r) = SumFunction(Runs(r))
      BY <2>6, TotalTypes DEF RuntimeInv
    <3>2. \A d \in Cpus : Runs(r)[d] <= e[d]
      <4> SUFFICES ASSUME NEW d \in Cpus PROVE Runs(r)[d] <= e[d]
        OBVIOUS
      <4>1. Runs(r)[d] = acct[r][d].run /\ e[d] = acct'[r][d].run
        BY DEF Runs
      <4>2. acct'[r][d].run >= acct[r][d].run
        BY <1>1, <2>6
      <4> QED  BY <4>1, <4>2
    <3>3. Runs(r) \in [Cpus -> Int] /\ e \in [Cpus -> Int]
      BY <2>2, <3>1
    <3> HIDE DEF e
    <3>4. SumFunction(Runs(r)) <= SumFunction(e)
      BY <3>2, <3>3, FunSumLeq, AllFinite DEF Finite
    <3> QED  BY <2>3, <2>4, <3>1, <3>4
  <2> QED  BY <2>5, <2>6
<1> QED  BY <1>3, <1>4

LEMMA TypeSwitch ==
  ASSUME RuntimeInv, NEW c \in Cpus, NEW p \in Pids \cup {Idle}, Switch(c, p)
  PROVE  RuntimeInv'
<1> USE DEF RuntimeInv
<1>1. /\ UNCHANGED <<now, owner, current, prevSeen>> /\ UNCHANGED <<ran, forks, renames, inherited>>
      /\ UNCHANGED <<errors, credited, forgotten>>
      /\ running' = [running EXCEPT ![c] = p]
      /\ p # Idle => p \in DOMAIN owner /\ \A d \in Cpus : running[d] # p
  BY DEF Switch, pollVars, pollHistory, OnCpu, Range, TypeOK
<1>2. seen' \subseteq Cpus /\ running' \in [Cpus -> Pids \cup {Idle}]
  BY <1>1 DEF Switch, TypeOK
<1>3. TypeOK'
  BY <1>1, <1>2, SwitchGives DEF TypeOK
<1>4. Stamps'
  BY <1>1, SwitchGives DEF Stamps
<1>5. Tasks'
  BY <1>1 DEF Tasks, TypeOK
<1>6. Totals'
  <2>1. \A r \in Pids : /\ Total(r) \in Nat /\ Total(r)' \in Nat /\ Total(r) <= Total(r)'
                        /\ Old(r) \in Nat /\ Old(r)' = Old(r)
    BY <1>1, TotalGrows, TotalTypes, OldTypes DEF Old
  <2>2. \A r \in DOMAIN current : r \in Pids /\ current[r] \in Nat
    BY DEF TypeOK, IsMap
  <2>3. DOMAIN acct \subseteq DOMAIN acct'
    BY SwitchGives
  <2> QED  BY <1>1, <2>1, <2>2, <2>3 DEF Totals
<1> QED  BY <1>3, <1>4, <1>5, <1>6

LEMMA TotalStays ==
  UNCHANGED acct => \A p \in Pids : Total(p)' = Total(p)
BY DEF Total

LEMMA TotalsStay ==
  ASSUME Totals, UNCHANGED <<acct, prevSeen, current>>
  PROVE  Totals'
BY TotalStays DEF Totals, Old, Total

\* The CPUs whose time is counted for p as a task of o.
Busy(p, o) == {c \in seen : running[c] = p /\ owner[p] = o}

LEMMA RanGives ==
  ASSUME RuntimeInv, Tick
  PROVE  /\ ran' \in [Pids -> [Keys -> Nat]]
         /\ \A p \in Pids, o \in Keys :
              /\ Cardinality(Busy(p, o)) \in Nat
              /\ ran'[p][o] = ran[p][o] + Cardinality(Busy(p, o))
<1>1. \A p, o : Cardinality(Busy(p, o)) \in Nat
  <2> SUFFICES ASSUME NEW p, NEW o
               PROVE  Cardinality(Busy(p, o)) \in Nat
    OBVIOUS
  <2>1. Busy(p, o) \subseteq Cpus
    BY DEF Busy, RuntimeInv, TypeOK
  <2>2. IsFiniteSet(Busy(p, o))
    BY <2>1, FS_Subset, RuntimeAssumption
  <2> QED  BY <2>2, FS_CardinalityType
<1>2. ran \in [Pids -> [Keys -> Nat]]
  BY DEF RuntimeInv, TypeOK
<1>3. ran' = [p \in Pids |-> [o \in Keys |-> ran[p][o] + Cardinality(Busy(p, o))]]
  BY DEF Tick, Busy
<1> QED  BY <1>1, <1>2, <1>3

LEMMA TypeTick ==
  ASSUME RuntimeInv, Tick
  PROVE  RuntimeInv'
<1> USE DEF RuntimeInv
<1>1. /\ now < MaxTime /\ now' = now + 1
      /\ UNCHANGED <<running, owner, acct, current, prevSeen>>
      /\ UNCHANGED <<seen, forks, renames, inherited, errors, credited, forgotten>>
  BY DEF Tick, pollVars, pollHistory
<1>2. now \in Nat /\ MaxTime \in Nat
  BY RuntimeAssumption DEF TypeOK
<1>5. TypeOK'
  BY <1>1, <1>2, RanGives DEF TypeOK
<1>6. Stamps'
  <2>1. \A p \in DOMAIN acct, c \in Cpus : acct[p][c].start \in Nat /\ acct[p][c].start <= now
    BY EntryTypes DEF Stamps
  <2> QED  BY <1>1, <1>2, <2>1 DEF Stamps
<1>7. Tasks' /\ Totals'
  BY <1>1, TotalsStay DEF Tasks
<1> QED  BY <1>5, <1>6, <1>7

LEMMA TypeFork ==
  ASSUME RuntimeInv, NEW p \in Pids, NEW o \in Keys, Fork(p, o)
  PROVE  RuntimeInv'
<1> USE DEF RuntimeInv
<1>1. /\ UNCHANGED <<now, running, acct, current, prevSeen>>
      /\ UNCHANGED <<ran, seen, renames, errors, credited, forgotten>>
      /\ forks < MaxForks /\ forks' = forks + 1 /\ owner' = Put(owner, p, o)
  BY DEF Fork, pollVars, pollHistory
<1>2. Total(p) - Old(p) \in Nat
  BY TotalTypes, OldTypes DEF Totals
<1>3. inherited' \in [Cids -> Nat]
  <2>1. inherited' = [a \in Cids |-> IF a = o THEN inherited[a] + Total(p) - Old(p)
                                              ELSE inherited[a]]
    BY DEF Fork, Old
  <2>2. Total(p) \in Nat /\ Old(p) \in Nat /\ inherited \in [Cids -> Nat]
    BY TotalTypes, OldTypes DEF TypeOK
  <2>3. \A a \in Cids : inherited[a] + Total(p) - Old(p) \in Nat
    BY <1>2, <2>2
  <2> QED  BY <2>1, <2>2, <2>3
<1>4. IsMap(owner', Pids, Keys)
  BY <1>1, PutIsMap DEF TypeOK
<1>5. TypeOK'
  BY <1>1, <1>3, <1>4, RuntimeAssumption DEF TypeOK
<1>6. Tasks'
  BY <1>1 DEF Tasks, Put
<1>7. Stamps' /\ Totals'
  BY <1>1, TotalsStay DEF Stamps
<1> QED  BY <1>5, <1>6, <1>7

LEMMA TypeReap ==
  ASSUME RuntimeInv, NEW p \in Pids, Reap(p)
  PROVE  RuntimeInv'
<1> USE DEF RuntimeInv
<1>1. /\ UNCHANGED <<now, running, acct, current, prevSeen, ran, seen, forks, renames>>
      /\ UNCHANGED <<inherited, errors, credited, forgotten>>
      /\ owner' = Drop(owner, {p}) /\ \A c \in Cpus : running[c] # p
  BY DEF Reap, pollVars, pollHistory, runHistory, OnCpu, Range, TypeOK
<1>2. IsMap(owner', Pids, Keys)
  BY <1>1, DropIsMap DEF TypeOK
<1>3. Tasks'
  BY <1>1 DEF Tasks, Drop
<1>4. TypeOK' /\ Stamps' /\ Totals'
  BY <1>1, <1>2, TotalsStay DEF TypeOK, Stamps
<1> QED  BY <1>3, <1>4

LEMMA TypeExec ==
  ASSUME RuntimeInv, NEW c \in Cpus, NEW p \in Pids, Exec(c, p)
  PROVE  RuntimeInv'
<1> USE DEF RuntimeInv
<1> DEFINE q == running[c]
<1>1. /\ UNCHANGED <<now, acct, current, prevSeen, ran, seen, forks>>
      /\ UNCHANGED <<inherited, errors, credited, forgotten>>
      /\ running' = [running EXCEPT ![c] = p] /\ owner' = Drop(owner, {q})
      /\ p \in DOMAIN owner /\ p # q /\ q # Idle /\ \A d \in Cpus : running[d] # p
  BY DEF Exec, pollVars, pollHistory, OnCpu, Range, TypeOK
<1>2. IsMap(owner', Pids, Keys)
  BY <1>1, DropIsMap DEF TypeOK
<1>3. renames' \in [Pids -> Nat]
  BY DEF Exec, TypeOK
<1>4. Tasks'
  BY <1>1 DEF Tasks, Drop, TypeOK
<1>5. running' \in [Cpus -> Pids \cup {Idle}]
  BY <1>1 DEF TypeOK
<1>6. TypeOK' /\ Stamps' /\ Totals'
  BY <1>1, <1>2, <1>3, <1>5, TotalsStay DEF TypeOK, Stamps
<1> QED  BY <1>4, <1>6

\* What a poll finds is between what it reported and what the map has, and what
\* it evicts is what it forgets.
LEMMA TypeIterate ==
  ASSUME RuntimeInv, NEW read \in SUBSET DOMAIN acct, Iterate(read)
  PROVE  RuntimeInv' /\ SumFunction([p \in Evicted(read) |-> prevSeen[p]]) \in Nat
<1> USE DEF RuntimeInv
<1> DEFINE E == Evicted(read)
           f == [p \in E |-> prevSeen[p]]
<1>1. /\ UNCHANGED <<now, running, owner, acct, ran, seen, forks, renames, inherited, credited>>
      /\ current = EmptyMap /\ current' = [p \in read |-> Total(p)]
      /\ prevSeen' = Drop(prevSeen, E) /\ forgotten' = forgotten + SumFunction(f)
  BY DEF Iterate, kernelVars, runHistory
<1>2. errors' \in 0 .. MaxMishaps
  <2>1. SumFunction(renames) \in Nat
    BY FunSumIsNat, AllFinite DEF Finite, TypeOK
  <2>2. errors \in Nat /\ errors <= Mishaps
    BY <2>1 DEF TypeOK, Mishaps
  <2>3. Mishaps \in Nat /\ MaxMishaps \in Nat
    BY <2>1, <2>2, RuntimeAssumption DEF Mishaps
  <2> QED  BY <2>2, <2>3 DEF Iterate, TypeOK
<1>3. SumFunction(f) \in Nat
  <2>1. E \subseteq DOMAIN prevSeen /\ DOMAIN prevSeen \subseteq Pids
    BY DEF Evicted, TypeOK, IsMap
  <2>2. IsFiniteSet(E)
    BY <2>1, FS_Subset, AllFinite DEF Finite
  <2>3. f \in [E -> Nat]
    BY <2>1 DEF TypeOK, IsMap
  <2> QED  BY <2>2, <2>3, FunSumIsNat
<1>4. \A p \in read : p \in Pids /\ Total(p) \in Nat
  BY TotalTypes DEF TypeOK, IsMap
<1>5. IsMap(current', Pids, Nat) /\ IsMap(prevSeen', Pids, Nat)
  <2>1. IsMap(current', Pids, Nat)
    BY <1>1, <1>4 DEF IsMap
  <2> QED  BY <1>1, <2>1, DropIsMap DEF TypeOK
<1>6. forgotten' \in Nat
  BY <1>1, <1>3 DEF TypeOK
<1>7. TypeOK'
  BY <1>1, <1>2, <1>5, <1>6 DEF TypeOK
<1>8. Stamps' /\ Tasks'
  BY <1>1 DEF Stamps, Tasks
<1>9. Totals'
  <2>1. \A p \in Pids : /\ Total(p)' = Total(p) /\ Total(p) \in Nat
                        /\ Old(p) \in Nat /\ Old(p) <= Total(p)
    BY <1>1, TotalStays, TotalTypes, OldTypes DEF Totals
  <2>2. \A p \in Pids : Old(p)' = IF p \in E THEN 0 ELSE Old(p)
    BY <1>1 DEF Old, At, Drop
  <2>3. DOMAIN current' = read /\ \A p \in read : current'[p] = Total(p)
    BY <1>1
  <2>4. DOMAIN prevSeen' \subseteq DOMAIN acct /\ DOMAIN current' \subseteq DOMAIN acct'
    BY <1>1, <2>3 DEF Totals, Drop
  <2>5. \A p \in DOMAIN current' : Old(p)' <= current'[p] /\ current'[p] <= Total(p)'
    BY <1>4, <2>1, <2>2, <2>3
  <2> QED  BY <1>1, <2>1, <2>2, <2>4, <2>5 DEF Totals
<1> QED  BY <1>3, <1>7, <1>8, <1>9

\* A row raises what was reported of p by what is new.
LEMMA RowGives ==
  ASSUME RuntimeInv, NEW p \in Pids, Row(p)
  PROVE  /\ \A r \in Pids : r # p => Old(r)' = Old(r)
         /\ Old(p)' = current[p] /\ RowOf(p) = Old(p)' - Old(p) /\ RowOf(p) \in Nat
         /\ current[p] \in Nat /\ current[p] <= Total(p)
         /\ At(owner, p, Host) \in Keys
         /\ credited' \in [Keys -> Nat]
         /\ \A o \in Keys : credited'[o] = credited[o]
                                + (IF o = At(owner, p, Host) THEN RowOf(p) ELSE 0)
<1> DEFINE h == At(owner, p, Host)
<1>1. p \in DOMAIN current /\ prevSeen' = Put(prevSeen, p, current[p])
  BY DEF Row
<1>2. current[p] \in Nat /\ Old(p) \in Nat /\ Old(p) <= current[p] /\ current[p] <= Total(p)
  BY <1>1, OldTypes DEF RuntimeInv, Totals, TypeOK, IsMap
<1>3. Old(p)' = current[p] /\ \A r \in Pids : r # p => Old(r)' = Old(r)
  BY <1>1 DEF Old, At, Put
<1>4. RowOf(p) = current[p] - Old(p)
  BY DEF RowOf, Old
<1>5. RowOf(p) \in Nat /\ (~(current[p] > Old(p)) => RowOf(p) = 0)
  BY <1>2, <1>4
<1>6. h \in Keys
  BY AtInRange DEF RuntimeInv, TypeOK, Keys
<1>7. credited \in [Keys -> Nat]
  BY DEF RuntimeInv, TypeOK
<1>8. credited' = IF current[p] > Old(p) THEN [credited EXCEPT ![h] = @ + RowOf(p)] ELSE credited
  BY DEF Row, Old
<1> HIDE DEF h
<1>9. /\ credited' \in [Keys -> Nat]
      /\ \A o \in Keys : credited'[o] = credited[o] + (IF o = h THEN RowOf(p) ELSE 0)
  <2>1. CASE current[p] > Old(p)
    BY <1>5, <1>6, <1>7, <1>8, <2>1
  <2>2. CASE ~(current[p] > Old(p))
    BY <1>5, <1>6, <1>7, <1>8, <2>2
  <2> QED  BY <2>1, <2>2
<1> QED  BY <1>2, <1>3, <1>4, <1>5, <1>6, <1>9 DEF h

LEMMA TypeRow ==
  ASSUME RuntimeInv, NEW p \in Pids, Row(p)
  PROVE  RuntimeInv'
<1> USE DEF RuntimeInv
<1>1. /\ UNCHANGED <<now, running, owner, acct, ran, seen, forks, renames, inherited>>
      /\ UNCHANGED <<errors, forgotten>>
      /\ p \in DOMAIN current /\ prevSeen' = Put(prevSeen, p, current[p])
      /\ current' = Drop(current, {p})
  BY DEF Row, kernelVars, runHistory
<1>2. IsMap(prevSeen', Pids, Nat) /\ IsMap(current', Pids, Nat)
  <2>1. current[p] \in Nat
    BY RowGives
  <2> QED  BY <1>1, <2>1, PutIsMap, DropIsMap DEF TypeOK
<1>3. TypeOK'
  BY <1>1, <1>2, RowGives DEF TypeOK
<1>4. Stamps' /\ Tasks'
  BY <1>1 DEF Stamps, Tasks
<1>5. Totals'
  <2>1. DOMAIN prevSeen' = DOMAIN prevSeen \cup {p} /\ DOMAIN current' = DOMAIN current \ {p}
        /\ \A r \in DOMAIN current' : current'[r] = current[r]
    BY <1>1 DEF Put, Drop
  <2>2. \A r \in Pids : Total(r)' = Total(r)
    BY <1>1, TotalStays
  <2>3. \A r \in DOMAIN current : r \in Pids
    BY DEF TypeOK, IsMap
  <2>4. \A r \in Pids : Old(r)' <= Total(r)'
    BY <2>2, RowGives DEF Totals
  <2>5. \A r \in DOMAIN current' : Old(r)' <= current'[r] /\ current'[r] <= Total(r)'
    <3> SUFFICES ASSUME NEW r \in DOMAIN current'
                 PROVE  Old(r)' <= current'[r] /\ current'[r] <= Total(r)'
      OBVIOUS
    <3>1. r \in DOMAIN current /\ r \in Pids /\ r # p /\ current'[r] = current[r]
      BY <2>1, <2>3
    <3>2. Old(r)' = Old(r) /\ Total(r)' = Total(r)
      BY <2>2, <3>1, RowGives
    <3> QED  BY <3>1, <3>2 DEF Totals
  <2> QED  BY <1>1, <2>1, <2>4, <2>5 DEF Totals
<1> QED  BY <1>3, <1>4, <1>5

LEMMA TypeStep == RuntimeInv /\ [Next]_vars => RuntimeInv'
<1> SUFFICES ASSUME RuntimeInv, [Next]_vars PROVE RuntimeInv'
  OBVIOUS
<1>1. CASE UNCHANGED vars
  <2>1. /\ UNCHANGED <<now, running, owner, acct, current, prevSeen, ran, seen, forks, renames>>
        /\ UNCHANGED <<inherited, errors, credited, forgotten>>
    BY <1>1 DEF vars, kernelVars, pollVars, runHistory, pollHistory
  <2>2. TypeOK'
    BY <2>1 DEF RuntimeInv, TypeOK
  <2> QED  BY <2>1, <2>2, TotalsStay DEF RuntimeInv, Stamps, Tasks
<1>2. CASE Kernel
  BY <1>2, TypeTick, TypeFork, TypeReap, TypeExec, TypeSwitch DEF Kernel
<1>3. CASE Poll
  BY <1>3, TypeIterate, TypeRow DEF Poll
<1> QED  BY <1>1, <1>2, <1>3 DEF Next

\* Every variable keeps its type: no row of CPU time is negative, and the map of
\* totals never outgrows its capacity.
THEOREM TypeCorrect == Spec => []TypeOK
<1>1. RuntimeInv => TypeOK
  BY DEF RuntimeInv
<1> QED  BY <1>1, TypeInit, TypeStep, PTL DEF Spec

-----------------------------------------------------------------------------
(* The time of a pid.  A task that was not renamed is stamped from its switch   *)
(* to the next one, on a CPU that is in seen if and only if it has an entry, so *)
(* that what its entry and its stamp tell is what it ran.                       *)

Synced ==
  \A c \in Cpus, p \in Pids :
    running[c] = p /\ renames[p] = 0 =>
      /\ c \in seen <=> p \in DOMAIN acct
      /\ p \in DOMAIN acct => acct[p][c].start # 0

\* A rename adds no more than the uptime.
Exact ==
  \A p \in Pids : IF renames[p] = 0 THEN Spent(p) = RanAs(p)
                                    ELSE Spent(p) <= RanAs(p) + renames[p] * now

ExactInv == RuntimeInv /\ Synced /\ Exact

LEMMA SpentTypes ==
  (TypeOK /\ Stamps) => \A p \in Pids : Spent(p) \in Nat /\ Total(p) <= Spent(p)
BY TotalTypes DEF Spent, Total

LEMMA SpentTypesNext == RuntimeInv' => \A p \in Pids : Spent(p)' \in Nat /\ Total(p)' \in Nat
<1>1. (RuntimeInv => \A p \in Pids : Spent(p) \in Nat /\ Total(p) \in Nat)'
  <2>1. RuntimeInv => \A p \in Pids : Spent(p) \in Nat /\ Total(p) \in Nat
    BY SpentTypes, TotalTypes DEF RuntimeInv
  <2> QED  BY <2>1, PTL
<1> QED  BY <1>1

LEMMA RanTypes == TypeOK => \A p \in Pids : RanAs(p) \in Nat /\ ran[p] \in [Keys -> Nat]
<1>1. TypeOK => \A p \in Pids : ran[p] \in [Keys -> Nat]
  BY DEF TypeOK
<1> QED  BY <1>1, FunSumIsNat, AllFinite DEF RanAs, Finite

\* A context switch moves time from the stamp to the entry and makes none.
LEMMA SwitchKeeps ==
  ASSUME RuntimeInv, NEW c \in Cpus, NEW p \in Pids \cup {Idle}, Switch(c, p)
  PROVE  \A r \in Pids : Spent(r)' = Spent(r)
<1> SUFFICES ASSUME NEW r \in Pids PROVE Spent(r)' = Spent(r)
  OBVIOUS
<1> DEFINE f == [d \in Cpus |-> Part(r, d)']
<1>1. now \in Nat /\ now' = now
  BY RuntimeAssumption DEF Switch, RuntimeInv, TypeOK
<1>2. CASE r \in DOMAIN acct
  <2>1. r \in DOMAIN acct' /\ \A d \in Cpus : Part(r, d)' = Part(r, d)
    BY <1>2, SwitchGives
  <2>2. f = Parts(r)
    BY <2>1 DEF Parts
  <2>3. Parts(r)' = f
    BY DEF Parts
  <2> QED  BY <1>2, <2>1, <2>2, <2>3 DEF Spent
<1>3. CASE r \in DOMAIN acct' /\ r \notin DOMAIN acct
  <2>1. \A d \in Cpus : Part(r, d)' = 0
    BY <1>1, <1>3, SwitchGives DEF Part
  <2>2. \A d \in Cpus : f[d] = 0
    BY <2>1
  <2>3. DOMAIN f = Cpus
    OBVIOUS
  <2>4. Parts(r)' = f
    BY DEF Parts
  <2> HIDE DEF f
  <2>5. SumFunction(f) = 0
    BY <2>2, <2>3, FunSumOfZeros, AllFinite DEF Finite
  <2> QED  BY <1>3, <2>4, <2>5 DEF Spent
<1>4. CASE r \notin DOMAIN acct' /\ r \notin DOMAIN acct
  BY <1>4 DEF Spent
<1> QED  BY <1>2, <1>3, <1>4

LEMMA SpentStays ==
  ASSUME UNCHANGED <<now, running, acct>>
  PROVE  \A r \in Pids : Spent(r)' = Spent(r)
BY DEF Spent, Parts, Part

\* A task that runs and has an entry.
OnBooks(p) == p \in DOMAIN acct /\ OnCpu(p)

LEMMA TickSpends ==
  ASSUME RuntimeInv, Tick
  PROVE  \A p \in Pids : Spent(p)' = Spent(p) + (IF OnBooks(p) THEN 1 ELSE 0)
<1> SUFFICES ASSUME NEW p \in Pids
             PROVE  Spent(p)' = Spent(p) + (IF OnBooks(p) THEN 1 ELSE 0)
  OBVIOUS
<1> USE DEF RuntimeInv
<1> DEFINE f == [d \in Cpus |-> Part(p, d)']
<1>1. now' = now + 1 /\ now \in Nat /\ UNCHANGED <<running, acct>>
  BY RuntimeAssumption DEF Tick, TypeOK
<1>2. CASE p \notin DOMAIN acct
  BY <1>1, <1>2 DEF Spent, OnBooks
<1>3. CASE p \in DOMAIN acct
  <2>1. \A d \in Cpus : acct[p][d].run \in Nat /\ acct[p][d].start \in Nat
                        /\ acct[p][d].start <= now
    BY <1>3, EntryTypes DEF Stamps
  <2>2. \A d \in Cpus : /\ Part(p, d) \in Nat /\ Part(p, d)' \in Nat
                        /\ running[d] = p => Part(p, d)' = Part(p, d) + 1
                        /\ running[d] # p => Part(p, d)' = Part(p, d)
    BY <1>1, <2>1 DEF Part
  <2>3. Parts(p)' = f
    BY DEF Parts
  <2>4. SumFunction(Parts(p)) \in Nat /\ Parts(p) \in [Cpus -> Nat]
    BY <1>3, TotalTypes
  <2>5. CASE \A d \in Cpus : running[d] # p
    <3>1. f = Parts(p)
      BY <2>2, <2>5 DEF Parts
    <3>2. ~OnCpu(p)
      BY <2>5 DEF OnCpu, Range, TypeOK
    <3> QED  BY <1>1, <1>3, <2>3, <2>4, <3>1, <3>2 DEF Spent, OnBooks
  <2>6. ASSUME NEW d \in Cpus, running[d] = p
        PROVE  Spent(p)' = Spent(p) + (IF OnBooks(p) THEN 1 ELSE 0)
    <3>1. p # Idle
      BY RuntimeAssumption
    <3>2. \A e \in Cpus : e # d => running[e] # p
      BY <2>6, <3>1 DEF Tasks
    <3>3. \A e \in Cpus : e # d => f[e] = Parts(p)[e]
      BY <2>2, <3>2 DEF Parts
    <3>4. f[d] = Parts(p)[d] + 1 /\ Parts(p)[d] \in Nat
      BY <2>2, <2>6 DEF Parts
    <3>5. f \in [Cpus -> Int] /\ Parts(p) \in [Cpus -> Int]
      BY <2>2, <2>4
    <3>6. OnCpu(p)
      BY <2>6 DEF OnCpu, Range, TypeOK
    <3> HIDE DEF f
    <3>7. SumFunction(f) = SumFunction(Parts(p)) - Parts(p)[d] + f[d]
      BY <3>3, <3>5, FunSumChanges, AllFinite DEF Finite
    <3> QED  BY <1>1, <1>3, <2>3, <2>4, <3>4, <3>6, <3>7 DEF Spent, OnBooks
  <2> QED  BY <2>5, <2>6
<1> QED  BY <1>2, <1>3

\* The new pid may take over a stamp that is as old as the machine.
LEMMA ExecSpends ==
  ASSUME RuntimeInv, NEW c \in Cpus, NEW p \in Pids, Exec(c, p)
  PROVE  \A r \in Pids : Spent(r)' <= Spent(r) + (IF r = p THEN now ELSE 0)
                         /\ (r \notin {p, running[c]} => Spent(r)' = Spent(r))
<1> SUFFICES ASSUME NEW r \in Pids
             PROVE  Spent(r)' <= Spent(r) + (IF r = p THEN now ELSE 0)
                    /\ (r \notin {p, running[c]} => Spent(r)' = Spent(r))
  OBVIOUS
<1> USE DEF RuntimeInv
<1> DEFINE f == [d \in Cpus |-> Part(r, d)']
<1>1. /\ UNCHANGED <<now, acct>> /\ running' = [running EXCEPT ![c] = p]
      /\ running \in [Cpus -> Pids \cup {Idle}] /\ p # running[c] /\ now \in Nat
  BY RuntimeAssumption DEF Exec, TypeOK
<1>2. CASE r \notin DOMAIN acct
  BY <1>1, <1>2 DEF Spent
<1>3. CASE r \in DOMAIN acct
  <2>1. \A d \in Cpus : acct[r][d].run \in Nat /\ acct[r][d].start \in Nat
                        /\ acct[r][d].start <= now
    BY <1>3, EntryTypes DEF Stamps
  <2>2. Part(r, c) \in Nat /\ Part(r, c)' \in Nat
        /\ Part(r, c)' <= Part(r, c) + (IF r = p THEN now ELSE 0)
        /\ (r \notin {p, running[c]} => Part(r, c)' = Part(r, c))
    BY <1>1, <2>1 DEF Part
  <2>3. \A d \in Cpus : d # c => Part(r, d) \in Nat /\ Part(r, d)' = Part(r, d)
    BY <1>1, <2>1 DEF Part
  <2>4. Parts(r)' = f
    BY DEF Parts
  <2>5. SumFunction(Parts(r)) \in Nat /\ Parts(r) \in [Cpus -> Int] /\ f \in [Cpus -> Int]
    BY <1>3, <2>2, <2>3, TotalTypes
  <2>6. /\ \A d \in Cpus : d # c => f[d] = Parts(r)[d] /\ f[d] <= Parts(r)[d]
        /\ f[c] <= Parts(r)[c] + (IF r = p THEN now ELSE 0)
        /\ (r \notin {p, running[c]} => f = Parts(r))
    BY <2>2, <2>3 DEF Parts
  <2> DEFINE n == IF r = p THEN now ELSE 0
  <2>7. n \in Int
    BY <1>1
  <2> HIDE DEF f, n
  <2>8. SumFunction(f) <= SumFunction(Parts(r)) + n
    BY <2>5, <2>6, <2>7, FunSumMoves, AllFinite DEF Finite, n
  <2> QED  BY <1>1, <1>3, <2>4, <2>6, <2>8 DEF Spent, n
<1> QED  BY <1>2, <1>3

LEMMA ExactInit == Init => ExactInv
<1> SUFFICES ASSUME Init PROVE ExactInv
  OBVIOUS
<1>1. DOMAIN acct = {}
  BY DEF Init, EmptyMap
<1>2. Synced
  BY <1>1 DEF Init, Synced
<1>3. \A p \in Pids : Spent(p) = 0 /\ renames[p] = 0
  BY <1>1 DEF Init, Spent, ZeroOf
<1>4. \A p \in Pids : RanAs(p) = 0
  <2> SUFFICES ASSUME NEW p \in Pids PROVE RanAs(p) = 0
    OBVIOUS
  <2>1. DOMAIN ran[p] = Keys /\ \A o \in Keys : ran[p][o] = 0
    BY DEF Init, ZeroOf
  <2> QED  BY <2>1, FunSumOfZeros, AllFinite DEF RanAs, Finite
<1>5. Exact
  BY <1>3, <1>4 DEF Exact
<1> QED  BY <1>2, <1>5, TypeInit DEF ExactInv

LEMMA ExactSwitch ==
  ASSUME ExactInv, NEW c \in Cpus, NEW p \in Pids \cup {Idle}, Switch(c, p)
  PROVE  Synced' /\ Exact'
<1> USE DEF ExactInv, RuntimeInv
<1>1. /\ UNCHANGED <<now, ran, renames>> /\ now \in 1 .. MaxTime /\ now \in Nat
      /\ running' = [running EXCEPT ![c] = p] /\ running \in [Cpus -> Pids \cup {Idle}]
      /\ seen' = IF p \in DOMAIN acct' THEN seen \cup {c} ELSE seen \ {c}
  BY RuntimeAssumption DEF Switch, TypeOK
<1>2. Synced'
  <2> SUFFICES ASSUME NEW d \in Cpus, NEW r \in Pids, running'[d] = r, renames'[r] = 0
               PROVE  /\ d \in seen' <=> r \in DOMAIN acct'
                      /\ r \in DOMAIN acct' => acct'[r][d].start # 0
    BY DEF Synced
  <2>1. CASE d = c
    <3>1. r = p
      BY <1>1, <2>1
    <3>2. r \in DOMAIN acct' => acct'[r][d].start = now
      BY <2>1, SwitchGives
    <3> QED  BY <1>1, <2>1, <3>1, <3>2
  <2>2. CASE d # c
    <3>1. running[d] = r /\ (d \in seen' <=> d \in seen)
      BY <1>1, <2>2
    <3>2. r # p
      BY <2>2, <3>1, RuntimeAssumption DEF Switch, OnCpu, Range, TypeOK
    <3>3. r \in DOMAIN acct' <=> r \in DOMAIN acct
      BY <3>2, SwitchGives
    <3>4. r \in DOMAIN acct' => acct'[r][d].start = acct[r][d].start
      BY <2>2, <3>3, SwitchGives
    <3>5. d \in seen <=> r \in DOMAIN acct
      BY <1>1, <3>1 DEF Synced
    <3>6. r \in DOMAIN acct => acct[r][d].start # 0
      BY <1>1, <3>1 DEF Synced
    <3> QED  BY <3>1, <3>3, <3>4, <3>5, <3>6
  <2> QED  BY <2>1, <2>2
<1>3. \A r \in Pids : RanAs(r)' = RanAs(r)
  BY <1>1 DEF RanAs
<1>4. Exact'
  BY <1>1, <1>3, SwitchKeeps DEF Exact
<1> QED  BY <1>2, <1>4

\* The CPUs that count for p are the one it runs on, if it has an entry.
LEMMA BusyIs ==
  ASSUME ExactInv, NEW p \in Pids, NEW o \in Keys
  PROVE  /\ ~OnCpu(p) \/ owner[p] # o => Cardinality(Busy(p, o)) = 0
         /\ renames[p] = 0 /\ OnCpu(p) /\ owner[p] = o =>
              Cardinality(Busy(p, o)) = (IF p \in DOMAIN acct THEN 1 ELSE 0)
<1> USE DEF ExactInv, RuntimeInv
<1>1. CASE ~OnCpu(p) \/ owner[p] # o
  <2>1. Busy(p, o) = {}
    BY <1>1 DEF Busy, OnCpu, Range, TypeOK
  <2> QED  BY <1>1, <2>1, FS_EmptySet
<1>2. CASE OnCpu(p) /\ owner[p] = o /\ renames[p] = 0
  <2>1. PICK c \in Cpus : running[c] = p
    BY <1>2 DEF OnCpu, Range, TypeOK
  <2>2. \A d \in Cpus : d # c => running[d] # p
    BY <2>1, RuntimeAssumption DEF Tasks
  <2>3. c \in seen <=> p \in DOMAIN acct
    BY <1>2, <2>1 DEF Synced
  <2>4. Busy(p, o) = IF p \in DOMAIN acct THEN {c} ELSE {}
    BY <1>2, <2>1, <2>2, <2>3 DEF Busy, TypeOK
  <2> QED  BY <1>2, <2>4, FS_EmptySet, FS_Singleton
<1> QED  BY <1>1, <1>2

LEMMA RanGrows ==
  ASSUME ExactInv, Tick, NEW p \in Pids
  PROVE  /\ RanAs(p)' \in Nat /\ RanAs(p) \in Nat /\ RanAs(p) <= RanAs(p)'
         /\ renames[p] = 0 => RanAs(p)' = RanAs(p) + (IF OnBooks(p) THEN 1 ELSE 0)
<1> USE DEF ExactInv, RuntimeInv
<1>1. /\ ran'[p] \in [Keys -> Nat] /\ ran[p] \in [Keys -> Nat]
      /\ \A o \in Keys : /\ Cardinality(Busy(p, o)) \in Nat
                         /\ ran'[p][o] = ran[p][o] + Cardinality(Busy(p, o))
  BY RanGives DEF TypeOK
<1>2. RanAs(p)' = SumFunction(ran'[p]) /\ RanAs(p) = SumFunction(ran[p])
  BY DEF RanAs
<1>3. RanAs(p)' \in Nat /\ RanAs(p) \in Nat
  BY <1>1, <1>2, FunSumIsNat, AllFinite DEF Finite
<1>4. ran'[p] \in [Keys -> Int] /\ ran[p] \in [Keys -> Int]
      /\ \A o \in Keys : ran[p][o] <= ran'[p][o]
  BY <1>1
<1>5. SumFunction(ran[p]) <= SumFunction(ran'[p])
  BY <1>4, FunSumLeq, AllFinite DEF Finite
<1>6. ASSUME renames[p] = 0
      PROVE  RanAs(p)' = RanAs(p) + (IF OnBooks(p) THEN 1 ELSE 0)
  <2>1. CASE ~OnCpu(p)
    <3>1. \A o \in Keys : ran'[p][o] = ran[p][o]
      BY <1>1, <2>1, BusyIs
    <3>2. ran'[p] = ran[p]
      BY <1>1, <3>1
    <3> QED  BY <1>2, <1>3, <2>1, <3>2 DEF OnBooks
  <2>2. CASE OnCpu(p)
    <3>1. owner[p] \in Keys
      <4>1. p \in DOMAIN owner
        BY <2>2, RuntimeAssumption DEF OnCpu, Range, Tasks, TypeOK
      <4> QED  BY <4>1 DEF TypeOK, IsMap
    <3> DEFINE o == owner[p]
               n == IF p \in DOMAIN acct THEN 1 ELSE 0
    <3>2. \A k \in Keys : k # o => ran'[p][k] = ran[p][k]
      BY <1>1, BusyIs
    <3>3. ran'[p][o] = ran[p][o] + n /\ ran[p][o] \in Nat /\ n \in Nat
      BY <1>1, <1>6, <2>2, <3>1, BusyIs
    <3> HIDE DEF o
    <3>4. SumFunction(ran'[p]) = SumFunction(ran[p]) - ran[p][o] + ran'[p][o]
      BY <1>4, <3>1, <3>2, FunSumChanges, AllFinite DEF Finite, o
    <3> QED  BY <1>2, <1>3, <2>2, <3>3, <3>4 DEF OnBooks
  <2> QED  BY <2>1, <2>2
<1> QED  BY <1>2, <1>3, <1>5, <1>6

LEMMA Times ==
  ASSUME NEW n \in Nat, NEW t \in Nat
  PROVE  /\ n * (t + 1) = n * t + n /\ (n + 1) * t = n * t + t
         /\ n * t \in Nat /\ n * (t + 1) \in Nat /\ (n + 1) * t \in Nat
OBVIOUS

LEMMA ExactTick ==
  ASSUME ExactInv, Tick
  PROVE  Synced' /\ Exact'
<1> USE DEF ExactInv, RuntimeInv
<1>1. UNCHANGED <<running, acct, seen, renames>> /\ now' = now + 1 /\ now \in Nat
  BY RuntimeAssumption DEF Tick, TypeOK
<1>2. Synced'
  BY <1>1 DEF Synced
<1>3. ASSUME NEW p \in Pids
      PROVE  IF renames'[p] = 0 THEN Spent(p)' = RanAs(p)'
                                ELSE Spent(p)' <= RanAs(p)' + renames'[p] * now'
  <2>1. Spent(p) \in Nat /\ Spent(p)' = Spent(p) + (IF OnBooks(p) THEN 1 ELSE 0)
    BY TickSpends, SpentTypes
  <2>2. CASE renames[p] = 0
    <3>1. Spent(p) = RanAs(p)
      BY <2>2 DEF Exact
    <3> QED  BY <1>1, <2>1, <2>2, <3>1, RanGrows
  <2>3. CASE renames[p] # 0
    <3> DEFINE k == renames[p]
    <3>1. k \in Nat /\ k >= 1
      BY <2>3 DEF TypeOK
    <3>2. Spent(p) <= RanAs(p) + k * now
      BY <2>3 DEF Exact
    <3>3. k * (now + 1) = k * now + k /\ k * now \in Nat
      BY <1>1, <3>1, Times
    <3>4. RanAs(p) \in Nat /\ RanAs(p)' \in Nat /\ RanAs(p) <= RanAs(p)'
      BY RanGrows
    <3>5. renames'[p] = k /\ k * now' = k * (now + 1)
      BY <1>1
    <3> HIDE DEF k
    <3>6. Spent(p)' <= RanAs(p)' + (k * now + k)
      BY <2>1, <3>1, <3>2, <3>3, <3>4
    <3> QED  BY <3>1, <3>3, <3>5, <3>6
  <2> QED  BY <2>2, <2>3
<1> QED  BY <1>2, <1>3 DEF Exact

LEMMA ExactExec ==
  ASSUME ExactInv, NEW c \in Cpus, NEW p \in Pids, Exec(c, p)
  PROVE  Synced' /\ Exact'
<1> USE DEF ExactInv, RuntimeInv
<1> DEFINE q == running[c]
<1>1. /\ UNCHANGED <<now, acct, ran, seen>> /\ running' = [running EXCEPT ![c] = p]
      /\ running \in [Cpus -> Pids \cup {Idle}] /\ p # q /\ now \in Nat
      /\ renames \in [Pids -> Nat]
      /\ \A r \in Pids : renames'[r] = IF r \in {p, q} THEN renames[r] + 1 ELSE renames[r]
  BY RuntimeAssumption DEF Exec, TypeOK
<1>2. Synced'
  BY <1>1 DEF Synced
<1>3. \A r \in Pids : RanAs(r)' = RanAs(r) /\ RanAs(r) \in Nat
  BY <1>1, RanTypes DEF RanAs
<1>4. ASSUME NEW r \in Pids
      PROVE  IF renames'[r] = 0 THEN Spent(r)' = RanAs(r)'
                                ELSE Spent(r)' <= RanAs(r)' + renames'[r] * now'
  <2>1. CASE r \notin {p, q}
    BY <1>1, <1>3, <2>1, ExecSpends DEF Exact
  <2>2. CASE r \in {p, q}
    <3> DEFINE k == renames[r]
    <3>1. k \in Nat /\ renames'[r] = k + 1
      BY <1>1, <2>2
    <3>2. /\ (k + 1) * now = k * now + now /\ k * now \in Nat
          /\ k = 0 => k * now = 0
      BY <1>1, <3>1, Times
    <3>3. Spent(r) <= RanAs(r) + k * now /\ Spent(r) \in Nat
      BY <1>3, <3>2, SpentTypes DEF Exact
    <3>4. Spent(r)' \in Nat
      BY TypeExec, SpentTypesNext
    <3>5. Spent(r)' <= Spent(r) + now
      BY <1>1, <3>3, <3>4, ExecSpends
    <3> HIDE DEF k
    <3>6. Spent(r)' <= RanAs(r) + (k * now + now)
      BY <1>1, <1>3, <3>2, <3>3, <3>4, <3>5
    <3> QED  BY <1>1, <1>3, <3>1, <3>2, <3>6
  <2> QED  BY <2>1, <2>2
<1> QED  BY <1>2, <1>4 DEF Exact

LEMMA ExactStep == ExactInv /\ [Next]_vars => ExactInv'
<1> SUFFICES ASSUME ExactInv, [Next]_vars PROVE ExactInv'
  OBVIOUS
<1>1. RuntimeInv'
  BY TypeStep DEF ExactInv
<1>2. ASSUME UNCHANGED <<now, running, acct, ran, seen, renames>>
      PROVE  Synced' /\ Exact'
  <2>1. \A r \in Pids : RanAs(r)' = RanAs(r) /\ Spent(r)' = Spent(r)
    BY <1>2, SpentStays DEF RanAs
  <2> QED  BY <1>2, <2>1 DEF ExactInv, Synced, Exact
<1>3. CASE Poll \/ UNCHANGED vars
  <2>1. UNCHANGED <<now, running, acct, ran, seen, renames>>
    BY <1>3 DEF Poll, Iterate, Row, kernelVars, runHistory, vars
  <2> QED  BY <1>1, <1>2, <2>1 DEF ExactInv
<1>4. CASE \E p \in Pids : Reap(p) \/ \E o \in Keys : Fork(p, o)
  <2>1. UNCHANGED <<now, running, acct, ran, seen, renames>>
    BY <1>4 DEF Reap, Fork, runHistory
  <2> QED  BY <1>1, <1>2, <2>1 DEF ExactInv
<1>5. CASE Tick
  BY <1>1, <1>5, ExactTick DEF ExactInv
<1>6. CASE \E c \in Cpus : \/ \E p \in Pids : Exec(c, p)
                          \/ \E p \in Pids \cup {Idle} : Switch(c, p)
  BY <1>1, <1>6, ExactExec, ExactSwitch DEF ExactInv
<1> QED  BY <1>3, <1>4, <1>5, <1>6 DEF Next, Kernel

\* What is in flight is the part of the stamps.
LEMMA SpentIs ==
  ASSUME ExactInv, NEW p \in DOMAIN acct, renames[p] = 0
  PROVE  Total(p) + InFlight(p) = Spent(p)
<1> USE DEF ExactInv, RuntimeInv
<1> DEFINE g == [c \in Cpus |->
                   IF running[c] = p /\ acct[p][c].start # 0 THEN now - acct[p][c].start ELSE 0]
<1>1. p \in Pids
  BY DEF TypeOK, IsMap
<1>2. \A c \in Cpus : acct[p][c].run \in Nat /\ now - acct[p][c].start \in Nat
  BY EntryTypes
<1>3. \A c \in Cpus : running[c] = p => acct[p][c].start # 0
  BY <1>1 DEF Synced
<1>4. \A c \in Cpus : /\ Runs(p)[c] \in Int /\ g[c] \in Int
                      /\ Parts(p)[c] = Runs(p)[c] + g[c]
  BY <1>2, <1>3 DEF Runs, Parts, Part
<1>5. DOMAIN Runs(p) = Cpus /\ DOMAIN g = Cpus /\ DOMAIN Parts(p) = Cpus
  BY DEF Runs, Parts
<1>6. InFlight(p) = SumFunction(g) /\ Total(p) = SumFunction(Runs(p))
  BY <1>1, TotalTypes DEF InFlight
<1> HIDE DEF g
<1>7. SumFunctionOnSet(Parts(p), Cpus)
        = SumFunctionOnSet(Runs(p), Cpus) + SumFunctionOnSet(g, Cpus)
  BY <1>4, SumOfBoth, AllFinite DEF Finite
<1> QED  BY <1>5, <1>6, <1>7 DEF Spent, SumFunction

\* However a task moves between CPUs, the time charged to its pid and the time
\* since its last stamp make up exactly what it ran since it was first seen; a
\* rename adds no more than the uptime.
THEOREM TimeIsExact == Spec => []RuntimeExact
<1>1. ExactInv => RuntimeExact
  <2> SUFFICES ASSUME ExactInv, NEW p \in DOMAIN acct
               PROVE  IF renames[p] = 0 THEN Total(p) + InFlight(p) = RanAs(p)
                                        ELSE Total(p) <= RanAs(p) + renames[p] * now
    BY DEF RuntimeExact
  <2>1. p \in Pids
    BY DEF ExactInv, RuntimeInv, TypeOK, IsMap
  <2>2. CASE renames[p] = 0
    BY <2>1, <2>2, SpentIs DEF ExactInv, Exact
  <2>3. CASE renames[p] # 0
    <3>1. /\ Total(p) \in Nat /\ Spent(p) \in Nat /\ Total(p) <= Spent(p)
          /\ RanAs(p) \in Nat /\ renames[p] * now \in Nat
      <4>1. renames[p] \in Nat /\ now \in Nat
        BY <2>1, RuntimeAssumption DEF ExactInv, RuntimeInv, TypeOK
      <4>2. renames[p] * now \in Nat
        BY <4>1, Times
      <4> QED  BY <2>1, <4>2, TotalTypes, SpentTypes, RanTypes DEF ExactInv, RuntimeInv
    <3> DEFINE n == renames[p] * now
    <3>2. Spent(p) <= RanAs(p) + n
      BY <2>1, <2>3 DEF ExactInv, Exact
    <3> HIDE DEF n
    <3>3. Total(p) <= RanAs(p) + n
      BY <3>1, <3>2 DEF n
    <3> QED  BY <2>3, <3>3 DEF n
  <2> QED  BY <2>2, <2>3
<1> QED  BY <1>1, ExactInit, ExactStep, PTL DEF Spec

-----------------------------------------------------------------------------
(* The time of a container.  What its pids can still be reported to have used   *)
(* is due to it, as long as they are its own; together with what was reported   *)
(* it never is more than what ran as its tasks, and what the three ways bring   *)
(* along that ContainerNotOvercharged names.                                    *)

Due(p, o) == IF At(owner, p, Host) = o THEN Spent(p) - Old(p) ELSE 0

Dues(o) == [p \in Pids |-> Due(p, o)]
RanIn(o) == [p \in Pids |-> ran[p][o]]
Renames == SumFunction(renames)

Owed(o) ==
  credited[o] + SumFunction(Dues(o))
    <= SumFunction(RanIn(o)) + inherited[o] + forgotten + Renames * now

DueInv == ExactInv /\ \A o \in Cids : Owed(o)

LEMMA DueTypes ==
  RuntimeInv => \A o \in Cids :
    /\ o \in Keys /\ o # Host
    /\ \A p \in Pids : Due(p, o) \in Nat /\ Spent(p) \in Nat /\ Old(p) \in Nat
                       /\ Spent(p) - Old(p) \in Nat
    /\ Dues(o) \in [Pids -> Nat] /\ SumFunction(Dues(o)) \in Nat
    /\ RanIn(o) \in [Pids -> Nat] /\ SumFunction(RanIn(o)) \in Nat
    /\ Renames \in Nat /\ now \in Nat /\ Renames * now \in Nat
    /\ credited[o] \in Nat /\ inherited[o] \in Nat /\ forgotten \in Nat
<1> SUFFICES ASSUME RuntimeInv, NEW o \in Cids
             PROVE  /\ o \in Keys /\ o # Host
                    /\ \A p \in Pids : /\ Due(p, o) \in Nat /\ Spent(p) \in Nat
                                       /\ Old(p) \in Nat /\ Spent(p) - Old(p) \in Nat
                    /\ Dues(o) \in [Pids -> Nat] /\ SumFunction(Dues(o)) \in Nat
                    /\ RanIn(o) \in [Pids -> Nat] /\ SumFunction(RanIn(o)) \in Nat
                    /\ Renames \in Nat /\ now \in Nat /\ Renames * now \in Nat
                    /\ credited[o] \in Nat /\ inherited[o] \in Nat /\ forgotten \in Nat
  OBVIOUS
<1> USE DEF RuntimeInv
<1>1. o \in Keys /\ o # Host
  BY RuntimeAssumption DEF Keys
<1>2. \A p \in Pids : Due(p, o) \in Nat /\ Spent(p) \in Nat /\ Old(p) \in Nat
                      /\ Spent(p) - Old(p) \in Nat
  <2> SUFFICES ASSUME NEW p \in Pids
               PROVE  Due(p, o) \in Nat /\ Spent(p) \in Nat /\ Old(p) \in Nat
                      /\ Spent(p) - Old(p) \in Nat
    OBVIOUS
  <2>1. /\ Spent(p) \in Nat /\ Total(p) \in Nat /\ Old(p) \in Nat
        /\ Old(p) <= Total(p) /\ Total(p) <= Spent(p)
    BY SpentTypes, TotalTypes, OldTypes DEF Totals
  <2> QED  BY <2>1 DEF Due
<1>3. Dues(o) \in [Pids -> Nat] /\ RanIn(o) \in [Pids -> Nat]
  BY <1>1, <1>2 DEF Dues, RanIn, TypeOK
<1>4. SumFunction(Dues(o)) \in Nat /\ SumFunction(RanIn(o)) \in Nat /\ Renames \in Nat
  BY <1>3, FunSumIsNat, AllFinite DEF Finite, Renames, TypeOK
<1>5. now \in Nat /\ credited[o] \in Nat /\ inherited[o] \in Nat /\ forgotten \in Nat
  BY <1>1, RuntimeAssumption DEF TypeOK
<1>6. Renames * now \in Nat
  BY <1>4, <1>5, Times
<1> QED  BY <1>1, <1>2, <1>3, <1>4, <1>5, <1>6

LEMMA DueTypesNext ==
  RuntimeInv' => \A o \in Cids :
    /\ \A p \in Pids : Due(p, o)' \in Nat
    /\ Dues(o)' \in [Pids -> Nat] /\ SumFunction(Dues(o))' \in Nat
    /\ RanIn(o)' \in [Pids -> Nat] /\ SumFunction(RanIn(o))' \in Nat
    /\ Renames' \in Nat /\ credited'[o] \in Nat /\ inherited'[o] \in Nat /\ forgotten' \in Nat
<1> DEFINE F == \A o \in Cids :
                  /\ \A p \in Pids : Due(p, o) \in Nat
                  /\ Dues(o) \in [Pids -> Nat] /\ SumFunction(Dues(o)) \in Nat
                  /\ RanIn(o) \in [Pids -> Nat] /\ SumFunction(RanIn(o)) \in Nat
                  /\ Renames \in Nat
                  /\ credited[o] \in Nat /\ inherited[o] \in Nat /\ forgotten \in Nat
<1>1. RuntimeInv => F
  BY DueTypes
<1> HIDE DEF F
<1>2. (RuntimeInv => F)'
  BY <1>1, PTL
<1> QED  BY <1>2 DEF F

\* All but the sum of what is due stays.
LEMMA DuesFall ==
  ASSUME RuntimeInv, RuntimeInv', NEW o \in Cids, Owed(o),
         UNCHANGED <<now, ran, renames, inherited, forgotten, credited>>,
         \A p \in Pids : Due(p, o)' <= Due(p, o)
  PROVE  Owed(o)'
<1>1. /\ Dues(o) \in [Pids -> Nat] /\ Dues(o)' \in [Pids -> Nat]
      /\ SumFunction(Dues(o)) \in Nat /\ SumFunction(Dues(o))' \in Nat
      /\ SumFunction(Dues(o)') = SumFunction(Dues(o))'
  BY DueTypes, DueTypesNext
<1>2. \A p \in Pids : Dues(o)'[p] <= Dues(o)[p]
  BY DEF Dues
<1>3. Dues(o) \in [Pids -> Int] /\ Dues(o)' \in [Pids -> Int]
  BY <1>1
<1>4. SumFunction(Dues(o)') <= SumFunction(Dues(o))
  BY <1>2, <1>3, FunSumLeq, AllFinite DEF Finite
<1>5. /\ SumFunction(RanIn(o))' = SumFunction(RanIn(o))
      /\ Renames' = Renames /\ Renames' * now' = Renames * now
  BY DEF RanIn, Renames
<1> DEFINE n == Renames * now
<1>6. /\ credited[o] \in Nat /\ inherited[o] \in Nat /\ forgotten \in Nat /\ n \in Nat
      /\ SumFunction(RanIn(o)) \in Nat
  BY DueTypes
<1>7. credited[o] + SumFunction(Dues(o)) <= SumFunction(RanIn(o)) + inherited[o] + forgotten + n
  BY DEF Owed
<1>8. Renames' * now' = n
  BY <1>5
<1> HIDE DEF n
<1> QED  BY <1>1, <1>4, <1>5, <1>6, <1>7, <1>8 DEF Owed

LEMMA DueInit == Init => DueInv
<1> SUFFICES ASSUME Init PROVE DueInv
  OBVIOUS
<1>1. ExactInv /\ RuntimeInv
  BY ExactInit DEF ExactInv
<1>2. ASSUME NEW o \in Cids PROVE Owed(o)
  <2>1. \A p \in Pids : Spent(p) = 0 /\ Old(p) = 0
    BY DEF Init, Spent, Old, At, EmptyMap
  <2>2. DOMAIN Dues(o) = Pids /\ \A p \in Pids : Dues(o)[p] = 0
    BY <2>1 DEF Dues, Due
  <2>3. SumFunction(Dues(o)) = 0
    BY <2>2, FunSumOfZeros, AllFinite DEF Finite
  <2>4. credited[o] = 0
    BY DEF Init, ZeroOf, Keys
  <2> DEFINE n == Renames * now
  <2>5. n \in Nat /\ SumFunction(RanIn(o)) \in Nat /\ inherited[o] \in Nat /\ forgotten \in Nat
    BY <1>1, DueTypes
  <2> HIDE DEF n
  <2>6. credited[o] + SumFunction(Dues(o)) <= SumFunction(RanIn(o)) + inherited[o] + forgotten + n
    BY <2>3, <2>4, <2>5
  <2> QED  BY <2>6 DEF Owed, n
<1> QED  BY <1>1, <1>2 DEF DueInv

\* A tick is due to the owner of the task that has run.
LEMMA DueTick ==
  ASSUME DueInv, ExactInv', Tick, NEW o \in Cids
  PROVE  Owed(o)'
<1>1. ExactInv /\ RuntimeInv /\ RuntimeInv' /\ Owed(o)
  BY DEF DueInv, ExactInv
<1>2. /\ UNCHANGED <<owner, prevSeen, renames, inherited, forgotten, credited>>
      /\ now' = now + 1 /\ o \in Keys /\ o # Host /\ renames \in [Pids -> Nat]
  BY <1>1, DueTypes DEF Tick, pollVars, pollHistory, RuntimeInv, TypeOK
<1>3. ASSUME NEW p \in Pids
      PROVE  Due(p, o)' + ran[p][o] <= Due(p, o) + ran'[p][o] + renames[p]
  <2>1. /\ Due(p, o) \in Nat /\ Due(p, o)' \in Nat /\ ran[p][o] \in Nat /\ renames[p] \in Nat
        /\ Spent(p) \in Nat /\ Old(p) \in Nat
    BY <1>1, <1>2, DueTypes, DueTypesNext DEF RuntimeInv, TypeOK
  <2>2. Cardinality(Busy(p, o)) \in Nat /\ ran'[p][o] = ran[p][o] + Cardinality(Busy(p, o))
    BY <1>1, <1>2, RanGives
  <2>3. Spent(p)' = Spent(p) + (IF OnBooks(p) THEN 1 ELSE 0) /\ Old(p)' = Old(p)
    BY <1>1, <1>2, TickSpends DEF Old
  <2>4. Due(p, o)' = Due(p, o) + (IF At(owner, p, Host) = o /\ OnBooks(p) THEN 1 ELSE 0)
    BY <1>2, <2>1, <2>3 DEF Due
  <2>5. CASE renames[p] = 0 /\ At(owner, p, Host) = o /\ OnBooks(p)
    <3>1. owner[p] = o /\ OnCpu(p) /\ p \in DOMAIN acct
      BY <1>2, <2>5 DEF At, OnBooks
    <3>2. Cardinality(Busy(p, o)) = 1
      BY <1>1, <1>2, <2>5, <3>1, BusyIs
    <3> QED  BY <2>1, <2>2, <2>4, <3>2
  <2>6. CASE ~(renames[p] = 0 /\ At(owner, p, Host) = o /\ OnBooks(p))
    BY <2>1, <2>2, <2>4, <2>6
  <2> QED  BY <2>5, <2>6
<1>4. /\ Dues(o) \in [Pids -> Int] /\ Dues(o)' \in [Pids -> Int]
      /\ RanIn(o) \in [Pids -> Int] /\ RanIn(o)' \in [Pids -> Int]
      /\ renames \in [Pids -> Int]
  BY <1>1, <1>2, DueTypes, DueTypesNext
<1>5. \A p \in Pids : Dues(o)'[p] + RanIn(o)[p] <= Dues(o)[p] + RanIn(o)'[p] + renames[p]
  BY <1>3 DEF Dues, RanIn
<1>6. SumFunction(Dues(o)') + SumFunction(RanIn(o))
        <= SumFunction(Dues(o)) + SumFunction(RanIn(o)') + SumFunction(renames)
  BY <1>4, <1>5, FunSumBalance, AllFinite DEF Finite
<1> DEFINE n == Renames * now
           m == Renames' * now'
<1>7. /\ credited[o] \in Nat /\ inherited[o] \in Nat /\ forgotten \in Nat /\ n \in Nat
      /\ SumFunction(RanIn(o)) \in Nat /\ SumFunction(RanIn(o))' \in Nat
      /\ SumFunction(Dues(o)) \in Nat /\ SumFunction(Dues(o))' \in Nat /\ Renames \in Nat
  BY <1>1, DueTypes, DueTypesNext
<1>8. m = n + Renames
  <2>1. Renames' = Renames /\ now \in Nat
    BY <1>1, <1>2, DueTypes DEF Renames
  <2> QED  BY <1>2, <1>7, <2>1, Times
<1>9. credited[o] + SumFunction(Dues(o)) <= SumFunction(RanIn(o)) + inherited[o] + forgotten + n
  BY <1>1 DEF Owed
<1>10. SumFunction(Dues(o))' + SumFunction(RanIn(o))
        <= SumFunction(Dues(o)) + SumFunction(RanIn(o))' + Renames
  BY <1>6 DEF Renames
<1> HIDE DEF n, m
<1>11. credited'[o] + SumFunction(Dues(o))'
         <= SumFunction(RanIn(o))' + inherited'[o] + forgotten' + m
  BY <1>2, <1>7, <1>8, <1>9, <1>10
<1> QED  BY <1>11 DEF Owed, m

LEMMA IdleSpent ==
  ASSUME RuntimeInv, NEW p \in Pids, ~OnCpu(p)
  PROVE  Spent(p) = Total(p)
<1>1. \A c \in Cpus : running[c] # p
  BY DEF OnCpu, Range, RuntimeInv, TypeOK
<1>2. CASE p \in DOMAIN acct
  <2>1. \A c \in Cpus : Part(p, c) = acct[p][c].run
    BY <1>1, <1>2, EntryTypes DEF RuntimeInv, Part
  <2>2. Parts(p) = Runs(p)
    BY <2>1 DEF Parts, Runs
  <2> QED  BY <1>2, <2>2, TotalTypes DEF RuntimeInv, Spent
<1>3. CASE p \notin DOMAIN acct
  BY <1>3 DEF Spent, Total
<1> QED  BY <1>2, <1>3

\* A pid that is used again brings along what was not yet reported of it.
LEMMA DueFork ==
  ASSUME DueInv, ExactInv', NEW q \in Pids, NEW k \in Keys, Fork(q, k), NEW o \in Cids
  PROVE  Owed(o)'
<1>1. ExactInv /\ RuntimeInv /\ RuntimeInv' /\ Owed(o)
  BY DEF DueInv, ExactInv
<1>2. /\ UNCHANGED <<now, running, acct, prevSeen, ran, renames, forgotten, credited>>
      /\ o \in Keys /\ o # Host /\ q \notin DOMAIN owner /\ owner' = Put(owner, q, k)
      /\ inherited'[o] = IF o = k THEN inherited[o] + Total(q) - Old(q) ELSE inherited[o]
  BY <1>1, DueTypes DEF Fork, pollVars, pollHistory, Old
<1>3. Total(q) = Spent(q)
  <2>1. q # Idle /\ \A c \in Cpus : running[c] # q
    BY <1>1, <1>2, RuntimeAssumption DEF RuntimeInv, Tasks
  <2>2. ~OnCpu(q)
    BY <1>1, <2>1 DEF OnCpu, Range, RuntimeInv, TypeOK
  <2> QED  BY <1>1, <2>2, IdleSpent
<1>4. \A p \in Pids : Spent(p)' = Spent(p) /\ Old(p)' = Old(p)
  BY <1>2, SpentStays DEF Old
<1>5. /\ \A p \in Pids : p # q => At(owner', p, Host) = At(owner, p, Host)
      /\ At(owner', q, Host) = k /\ At(owner, q, Host) = Host
  BY <1>2 DEF At, Put
<1>6. \A p \in Pids : p # q => Due(p, o)' = Due(p, o)
  BY <1>4, <1>5 DEF Due
<1>7. Due(q, o) = 0 /\ Due(q, o)' = (IF o = k THEN Spent(q) - Old(q) ELSE 0)
  BY <1>2, <1>4, <1>5 DEF Due
<1>8. /\ Dues(o) \in [Pids -> Int] /\ Dues(o)' \in [Pids -> Int]
      /\ \A p \in Pids : p # q => Dues(o)'[p] = Dues(o)[p]
      /\ Dues(o)[q] = Due(q, o) /\ Dues(o)'[q] = Due(q, o)'
  <2>1. Dues(o) \in [Pids -> Int] /\ Dues(o)' \in [Pids -> Int]
    BY <1>1, DueTypes, DueTypesNext
  <2>2. \A p \in Pids : Dues(o)[p] = Due(p, o) /\ Dues(o)'[p] = Due(p, o)'
    BY DEF Dues
  <2> QED  BY <1>6, <2>1, <2>2
<1>9. SumFunction(Dues(o)') = SumFunction(Dues(o)) - Dues(o)[q] + Dues(o)'[q]
  BY <1>8, FunSumChanges, AllFinite DEF Finite
<1> DEFINE n == Renames * now
<1>10. /\ credited[o] \in Nat /\ inherited[o] \in Nat /\ forgotten \in Nat /\ n \in Nat
       /\ SumFunction(RanIn(o)) \in Nat /\ SumFunction(Dues(o)) \in Nat
       /\ Spent(q) \in Nat /\ Old(q) \in Nat
  BY <1>1, DueTypes
<1>11. credited[o] + SumFunction(Dues(o)) <= SumFunction(RanIn(o)) + inherited[o] + forgotten + n
  BY <1>1 DEF Owed
<1>12. Renames' * now' = n /\ SumFunction(RanIn(o))' = SumFunction(RanIn(o))
  BY <1>2 DEF Renames, RanIn
<1>13. SumFunction(Dues(o))' = SumFunction(Dues(o)) - Dues(o)[q] + Dues(o)'[q]
  BY <1>9
<1> HIDE DEF n
<1>14. credited'[o] + SumFunction(Dues(o))'
         <= SumFunction(RanIn(o)) + inherited'[o] + forgotten' + n
  BY <1>2, <1>3, <1>7, <1>8, <1>10, <1>11, <1>13
<1> QED  BY <1>12, <1>14 DEF Owed

LEMMA DueReap ==
  ASSUME DueInv, ExactInv', NEW q \in Pids, Reap(q), NEW o \in Cids
  PROVE  Owed(o)'
<1>1. ExactInv /\ RuntimeInv /\ RuntimeInv' /\ Owed(o)
  BY DEF DueInv, ExactInv
<1>2. /\ UNCHANGED <<now, running, acct, prevSeen, ran, renames, inherited, forgotten, credited>>
      /\ o # Host /\ owner' = Drop(owner, {q})
  BY <1>1, DueTypes DEF Reap, pollVars, pollHistory, runHistory
<1>3. \A p \in Pids : Spent(p)' = Spent(p) /\ Old(p)' = Old(p)
  BY <1>2, SpentStays DEF Old
<1>4. \A p \in Pids : At(owner', p, Host) \in {Host, At(owner, p, Host)}
  BY <1>2 DEF At, Drop
<1>5. \A p \in Pids : Due(p, o)' <= Due(p, o)
  <2> SUFFICES ASSUME NEW p \in Pids PROVE Due(p, o)' <= Due(p, o)
    OBVIOUS
  <2>1. Due(p, o)' \in {0, Due(p, o)} /\ Due(p, o) \in Nat
    BY <1>1, <1>2, <1>3, <1>4, DueTypes DEF Due
  <2> QED  BY <2>1
<1> QED  BY <1>1, <1>2, <1>5, DuesFall

\* What the new pid takes over is due to the same container, and is covered by
\* one of its two renames.
LEMMA DueExec ==
  ASSUME DueInv, ExactInv', NEW c \in Cpus, NEW q \in Pids, Exec(c, q), NEW o \in Cids
  PROVE  Owed(o)'
<1>1. ExactInv /\ RuntimeInv /\ RuntimeInv' /\ Owed(o)
  BY DEF DueInv, ExactInv
<1> DEFINE z == running[c]
<1>2. /\ UNCHANGED <<now, acct, prevSeen, ran, inherited, forgotten, credited>>
      /\ o # Host /\ owner' = Drop(owner, {z}) /\ z # q /\ renames \in [Pids -> Nat]
      /\ now \in Nat
      /\ \A r \in Pids : renames'[r] = IF r \in {q, z} THEN renames[r] + 1 ELSE renames[r]
  BY <1>1, DueTypes DEF Exec, pollVars, pollHistory, RuntimeInv, TypeOK
<1>3. \A p \in Pids : /\ Spent(p)' <= Spent(p) + (IF p = q THEN now ELSE 0)
                      /\ Old(p)' = Old(p)
  BY <1>1, <1>2, ExecSpends DEF Old
<1>4. \A p \in Pids : At(owner', p, Host) \in {Host, At(owner, p, Host)}
  BY <1>2 DEF At, Drop
<1>5. \A p \in Pids : Due(p, o)' <= Due(p, o) + (IF p = q THEN now ELSE 0)
  <2> SUFFICES ASSUME NEW p \in Pids
               PROVE  Due(p, o)' <= Due(p, o) + (IF p = q THEN now ELSE 0)
    OBVIOUS
  <2>1. /\ Due(p, o) \in Nat /\ Spent(p) \in Nat /\ Old(p) \in Nat /\ Spent(p)' \in Nat
        /\ Spent(p)' <= Spent(p) + (IF p = q THEN now ELSE 0) /\ Old(p)' = Old(p)
    BY <1>1, <1>3, DueTypes, SpentTypesNext
  <2>2. CASE At(owner', p, Host) # o
    BY <1>2, <2>1, <2>2 DEF Due
  <2>3. CASE At(owner', p, Host) = o
    <3>1. At(owner, p, Host) = o
      BY <1>2, <1>4, <2>3
    <3>2. Due(p, o)' = Spent(p)' - Old(p) /\ Due(p, o) = Spent(p) - Old(p)
      BY <2>1, <2>3, <3>1 DEF Due
    <3> QED  BY <1>2, <2>1, <3>2
  <2> QED  BY <2>2, <2>3
<1>6. /\ Dues(o) \in [Pids -> Int] /\ Dues(o)' \in [Pids -> Int]
      /\ \A p \in Pids : p # q => Dues(o)'[p] <= Dues(o)[p]
      /\ Dues(o)'[q] <= Dues(o)[q] + now
  <2>1. Dues(o) \in [Pids -> Int] /\ Dues(o)' \in [Pids -> Int]
    BY <1>1, DueTypes, DueTypesNext
  <2>2. \A p \in Pids : Dues(o)[p] = Due(p, o) /\ Dues(o)'[p] = Due(p, o)' /\ Due(p, o) \in Nat
    BY <1>1, DueTypes DEF Dues
  <2>3. ASSUME NEW p \in Pids, p # q PROVE Dues(o)'[p] <= Dues(o)[p]
    BY <1>5, <2>2, <2>3
  <2>4. Dues(o)'[q] <= Dues(o)[q] + now
    BY <1>5, <2>2
  <2> QED  BY <2>1, <2>3, <2>4
<1>7. now \in Int
  BY <1>2
<1>8. SumFunction(Dues(o)') <= SumFunction(Dues(o)) + now
  BY <1>6, <1>7, FunSumMoves, AllFinite DEF Finite
<1>9. Renames <= Renames' + (-1)
  <2>1. renames' \in [Pids -> Nat]
    BY <1>1 DEF RuntimeInv, TypeOK
  <2>2. /\ renames \in [Pids -> Int] /\ renames' \in [Pids -> Int] /\ -1 \in Int
        /\ \A r \in Pids : r # q => renames[r] <= renames'[r]
        /\ renames[q] <= renames'[q] + (-1)
    BY <1>2, <2>1
  <2>3. SumFunction(renames) <= SumFunction(renames') + (-1)
    BY <2>2, FunSumMoves, AllFinite DEF Finite
  <2> QED  BY <2>3 DEF Renames
<1>10. PICK d \in Nat : Renames' = Renames + 1 + d
  <2>1. Renames \in Nat /\ Renames' \in Nat
    BY <1>1, DueTypes, DueTypesNext
  <2>2. \A a, b \in Nat : a <= b + (-1) => b - (a + 1) \in Nat /\ b = a + 1 + (b - (a + 1))
    OBVIOUS
  <2>3. /\ Renames' - (Renames + 1) \in Nat
        /\ Renames' = Renames + 1 + (Renames' - (Renames + 1))
    BY <1>9, <2>1, <2>2
  <2> QED  BY <2>3
<1> DEFINE n == Renames * now
           m == Renames' * now'
<1>11. /\ credited[o] \in Nat /\ inherited[o] \in Nat /\ forgotten \in Nat /\ n \in Nat
       /\ SumFunction(RanIn(o)) \in Nat /\ SumFunction(Dues(o)) \in Nat
       /\ SumFunction(Dues(o))' \in Nat /\ Renames \in Nat /\ Renames' \in Nat
  BY <1>1, DueTypes, DueTypesNext
<1>12. m \in Nat /\ m >= n + now
  <2>1. m = Renames' * now
    BY <1>2
  <2>2. (Renames + 1 + d) * now = (Renames + 1) * now + d * now
    BY <1>2, <1>11, <1>10
  <2>3. (Renames + 1) * now = n + now /\ d * now \in Nat
    BY <1>2, <1>11, <1>10, Times
  <2> HIDE DEF m, n
  <2> QED  BY <1>2, <1>11, <1>10, <2>1, <2>2, <2>3
<1>13. credited[o] + SumFunction(Dues(o)) <= SumFunction(RanIn(o)) + inherited[o] + forgotten + n
  BY <1>1 DEF Owed
<1>14. SumFunction(RanIn(o))' = SumFunction(RanIn(o))
  BY <1>2 DEF RanIn
<1>15. SumFunction(Dues(o))' <= SumFunction(Dues(o)) + now
  BY <1>8
<1> HIDE DEF n, m
<1>16. credited'[o] + SumFunction(Dues(o))'
         <= SumFunction(RanIn(o)) + inherited'[o] + forgotten' + m
  BY <1>2, <1>11, <1>12, <1>13, <1>15
<1> QED  BY <1>14, <1>16 DEF Owed, m

LEMMA DueSwitch ==
  ASSUME DueInv, ExactInv', NEW c \in Cpus, NEW q \in Pids \cup {Idle}, Switch(c, q), NEW o \in Cids
  PROVE  Owed(o)'
<1>1. ExactInv /\ RuntimeInv /\ RuntimeInv' /\ Owed(o)
  BY DEF DueInv, ExactInv
<1>2. UNCHANGED <<now, owner, prevSeen, ran, renames, inherited, forgotten, credited>>
  BY DEF Switch, pollVars, pollHistory
<1>3. \A p \in Pids : Spent(p)' = Spent(p) /\ Old(p)' = Old(p)
  BY <1>1, <1>2, SwitchKeeps DEF Old
<1>4. \A p \in Pids : Due(p, o)' = Due(p, o) /\ Due(p, o) \in Nat
  BY <1>1, <1>2, <1>3, DueTypes DEF Due
<1>5. \A p \in Pids : Due(p, o)' <= Due(p, o)
  BY <1>4
<1> QED  BY <1>1, <1>2, <1>5, DuesFall

LEMMA DueRow ==
  ASSUME DueInv, ExactInv', NEW q \in Pids, Row(q), NEW o \in Cids
  PROVE  Owed(o)'
<1>1. ExactInv /\ RuntimeInv /\ RuntimeInv' /\ Owed(o)
  BY DEF DueInv, ExactInv
<1> DEFINE h == At(owner, q, Host)
           r == IF o = h THEN RowOf(q) ELSE 0
<1>2. /\ UNCHANGED <<now, running, owner, acct, ran, renames, inherited, forgotten>>
      /\ o \in Keys
  BY <1>1, DueTypes DEF Row, kernelVars, runHistory
<1>3. /\ credited'[o] = credited[o] + r /\ RowOf(q) \in Nat
      /\ RowOf(q) = Old(q)' - Old(q) /\ Old(q)' \in Nat
      /\ \A p \in Pids : p # q => Old(p)' = Old(p)
  BY <1>1, <1>2, RowGives
<1>4. \A p \in Pids : Spent(p)' = Spent(p)
  BY <1>2, SpentStays
<1>5. \A p \in Pids : p # q => Due(p, o)' = Due(p, o)
  BY <1>2, <1>3, <1>4 DEF Due
<1>6. Due(q, o)' = Due(q, o) - r
  <2>1. Spent(q) \in Nat /\ Old(q) \in Nat
    BY <1>1, DueTypes
  <2> QED  BY <1>2, <1>3, <1>4, <2>1 DEF Due
<1>7. /\ Dues(o) \in [Pids -> Int] /\ Dues(o)' \in [Pids -> Int]
      /\ \A p \in Pids : p # q => Dues(o)'[p] = Dues(o)[p]
      /\ Dues(o)[q] = Due(q, o) /\ Dues(o)'[q] = Due(q, o)'
  <2>1. Dues(o) \in [Pids -> Int] /\ Dues(o)' \in [Pids -> Int]
    BY <1>1, DueTypes, DueTypesNext
  <2>2. \A p \in Pids : Dues(o)[p] = Due(p, o) /\ Dues(o)'[p] = Due(p, o)'
    BY DEF Dues
  <2> QED  BY <1>5, <2>1, <2>2
<1>8. SumFunction(Dues(o))' = SumFunction(Dues(o)) - Dues(o)[q] + Dues(o)'[q]
  <2>1. SumFunction(Dues(o)') = SumFunction(Dues(o)) - Dues(o)[q] + Dues(o)'[q]
    BY <1>7, FunSumChanges, AllFinite DEF Finite
  <2> QED  BY <2>1
<1> DEFINE n == Renames * now
<1>9. /\ credited[o] \in Nat /\ inherited[o] \in Nat /\ forgotten \in Nat /\ n \in Nat
      /\ SumFunction(RanIn(o)) \in Nat /\ SumFunction(Dues(o)) \in Nat /\ Due(q, o) \in Nat
      /\ r \in Nat
  BY <1>1, <1>3, DueTypes
<1>10. credited[o] + SumFunction(Dues(o)) <= SumFunction(RanIn(o)) + inherited[o] + forgotten + n
  BY <1>1 DEF Owed
<1>11. Renames' * now' = n /\ SumFunction(RanIn(o))' = SumFunction(RanIn(o))
  BY <1>2 DEF Renames, RanIn
<1> HIDE DEF n, r
<1>12. credited'[o] + SumFunction(Dues(o))'
         <= SumFunction(RanIn(o)) + inherited'[o] + forgotten' + n
  BY <1>2, <1>3, <1>6, <1>7, <1>8, <1>9, <1>10
<1> QED  BY <1>11, <1>12 DEF Owed

-----------------------------------------------------------------------------
(* What was reported *)

Olds == [p \in Pids |-> Old(p)]

\* What an iteration forgets of a pid.
Lost(read) == [p \in Pids |-> IF p \in Evicted(read) THEN Old(p) ELSE 0]

LEMMA IterateLoses ==
  ASSUME RuntimeInv, NEW read \in SUBSET DOMAIN acct, Iterate(read)
  PROVE  /\ Lost(read) \in [Pids -> Nat] /\ SumFunction(Lost(read)) \in Nat
         /\ forgotten' = forgotten + SumFunction(Lost(read))
         /\ \A p \in Pids : /\ Old(p) \in Nat /\ Old(p)' \in Nat
                            /\ Old(p) = Old(p)' + Lost(read)[p]
<1> USE DEF RuntimeInv
<1> DEFINE E == Evicted(read)
           f == [p \in E |-> prevSeen[p]]
<1>1. prevSeen' = Drop(prevSeen, E) /\ forgotten' = forgotten + SumFunction(f)
  BY DEF Iterate
<1>2. E \subseteq DOMAIN prevSeen /\ DOMAIN prevSeen \subseteq Pids
  BY DEF Evicted, TypeOK, IsMap
<1>3. \A p \in Pids : Old(p) \in Nat
  BY OldTypes
<1>4. Lost(read) \in [Pids -> Nat]
  BY <1>3 DEF Lost
<1>5. SumFunction(Lost(read)) \in Nat
  BY <1>4, FunSumIsNat, AllFinite DEF Finite
<1>6. E \in SUBSET Pids /\ f \in [E -> Int] /\ \A p \in E : f[p] = Old(p)
  BY <1>2 DEF TypeOK, IsMap, Old, At
<1>7. Lost(read) \in [Pids -> Int] /\ \A p \in Pids : Lost(read)[p] = IF p \in E THEN f[p] ELSE 0
  BY <1>4, <1>6 DEF Lost
<1>8. ASSUME NEW p \in Pids
      PROVE  Old(p)' \in Nat /\ Old(p) = Old(p)' + Lost(read)[p]
  <2>1. Old(p)' = (IF p \in E THEN 0 ELSE Old(p))
    BY <1>1 DEF Old, At, Drop
  <2>2. Lost(read)[p] = (IF p \in E THEN Old(p) ELSE 0)
    BY DEF Lost
  <2> QED  BY <1>3, <2>1, <2>2
<1> HIDE DEF E, f
<1>9. SumFunction(Lost(read)) = SumFunction(f)
  BY <1>6, <1>7, FunSumOfPart, AllFinite DEF Finite
<1> QED  BY <1>1, <1>3, <1>4, <1>5, <1>8, <1>9

\* What is forgotten of a pid can be reported again.
LEMMA DueIterate ==
  ASSUME DueInv, ExactInv', NEW read \in SUBSET DOMAIN acct, Iterate(read), NEW o \in Cids
  PROVE  Owed(o)'
<1>1. ExactInv /\ RuntimeInv /\ RuntimeInv' /\ Owed(o)
  BY DEF DueInv, ExactInv
<1>2. UNCHANGED <<now, running, owner, acct, ran, renames, inherited, credited>>
  BY DEF Iterate, kernelVars, runHistory
<1>3. \A p \in Pids : Spent(p)' = Spent(p)
  BY <1>2, SpentStays
<1> DEFINE z == [p \in Pids |-> 0]
<1>4. ASSUME NEW p \in Pids
      PROVE  Dues(o)'[p] + z[p] <= Dues(o)[p] + Lost(read)[p] + z[p]
  <2>1. /\ Old(p) \in Nat /\ Old(p)' \in Nat /\ Old(p) = Old(p)' + Lost(read)[p]
        /\ Spent(p) \in Nat /\ Lost(read)[p] \in Nat
    BY <1>1, IterateLoses, DueTypes
  <2>2. Due(p, o)' = (IF At(owner, p, Host) = o THEN Spent(p) - Old(p)' ELSE 0)
    BY <1>2, <1>3 DEF Due
  <2>3. Due(p, o) = (IF At(owner, p, Host) = o THEN Spent(p) - Old(p) ELSE 0)
    BY DEF Due
  <2>4. Dues(o)'[p] = Due(p, o)' /\ Dues(o)[p] = Due(p, o)
    BY DEF Dues
  <2> QED  BY <2>1, <2>2, <2>3, <2>4
<1>5. /\ Dues(o) \in [Pids -> Int] /\ Dues(o)' \in [Pids -> Int]
      /\ Lost(read) \in [Pids -> Int] /\ z \in [Pids -> Int]
  BY <1>1, DueTypes, DueTypesNext, IterateLoses
<1>6. DOMAIN z = Pids /\ \A p \in Pids : z[p] = 0
  OBVIOUS
<1> HIDE DEF z
<1>7. SumFunction(z) = 0
  BY <1>6, FunSumOfZeros, AllFinite DEF Finite
<1>8. SumFunction(Dues(o)') + SumFunction(z)
        <= SumFunction(Dues(o)) + SumFunction(Lost(read)) + SumFunction(z)
  BY <1>4, <1>5, FunSumBalance, AllFinite DEF Finite
<1> DEFINE n == Renames * now
<1>9. /\ credited[o] \in Nat /\ inherited[o] \in Nat /\ forgotten \in Nat /\ n \in Nat
      /\ SumFunction(RanIn(o)) \in Nat /\ SumFunction(Dues(o)) \in Nat
      /\ SumFunction(Dues(o))' \in Nat
      /\ SumFunction(Lost(read)) \in Nat /\ forgotten' = forgotten + SumFunction(Lost(read))
  BY <1>1, DueTypes, DueTypesNext, IterateLoses
<1>10. credited[o] + SumFunction(Dues(o)) <= SumFunction(RanIn(o)) + inherited[o] + forgotten + n
  BY <1>1 DEF Owed
<1>11. Renames' * now' = n /\ SumFunction(RanIn(o))' = SumFunction(RanIn(o))
  BY <1>2 DEF Renames, RanIn
<1>12. SumFunction(Dues(o))' <= SumFunction(Dues(o)) + SumFunction(Lost(read))
  BY <1>7, <1>8, <1>9
<1> HIDE DEF n
<1>13. credited'[o] + SumFunction(Dues(o))'
         <= SumFunction(RanIn(o)) + inherited'[o] + forgotten' + n
  BY <1>2, <1>9, <1>10, <1>12
<1> QED  BY <1>11, <1>13 DEF Owed

LEMMA DueStep == DueInv /\ [Next]_vars => DueInv'
<1> SUFFICES ASSUME DueInv, [Next]_vars PROVE DueInv'
  OBVIOUS
<1>1. ExactInv'
  BY ExactStep DEF DueInv
<1>2. ASSUME NEW o \in Cids PROVE Owed(o)'
  <2>1. CASE UNCHANGED vars
    <3>1. UNCHANGED <<now, running, owner, acct, prevSeen, ran, renames, inherited, forgotten,
                      credited>>
      BY <2>1 DEF vars, kernelVars, pollVars, runHistory, pollHistory
    <3>2. \A p \in Pids : Due(p, o)' = Due(p, o)
      BY <3>1, SpentStays DEF Due, Old
    <3>3. Dues(o)' = Dues(o)
      BY <3>2 DEF Dues
    <3> QED  BY <3>1, <3>3 DEF DueInv, Owed, RanIn, Renames
  <2>2. CASE Kernel
    BY <1>1, <2>2, DueTick, DueFork, DueReap, DueExec, DueSwitch DEF Kernel
  <2>3. CASE Poll
    BY <1>1, <2>3, DueIterate, DueRow DEF Poll
  <2> QED  BY <2>1, <2>2, <2>3 DEF Next
<1> QED  BY <1>1, <1>2 DEF DueInv

\* No container is reported to use more time than its tasks ran, but for what
\* reused pids brought along, what a failed iteration made the collector forget,
\* and renames.
THEOREM NotOvercharged == Spec => []ContainerNotOvercharged
<1>1. DueInv => ContainerNotOvercharged
  <2> SUFFICES ASSUME DueInv, NEW o \in Cids
               PROVE  credited[o] <= SumFunction(RanIn(o)) + inherited[o] + forgotten
                                     + Renames * now
    BY DEF ContainerNotOvercharged, RanIn, Renames
  <2> DEFINE n == Renames * now
  <2>1. /\ credited[o] \in Nat /\ inherited[o] \in Nat /\ forgotten \in Nat /\ n \in Nat
        /\ SumFunction(RanIn(o)) \in Nat /\ SumFunction(Dues(o)) \in Nat
    BY DueTypes DEF DueInv, ExactInv
  <2>2. credited[o] + SumFunction(Dues(o)) <= SumFunction(RanIn(o)) + inherited[o] + forgotten + n
    BY DEF DueInv, Owed
  <2> HIDE DEF n
  <2>3. credited[o] <= SumFunction(RanIn(o)) + inherited[o] + forgotten + n
    BY <2>1, <2>2
  <2> QED  BY <2>3 DEF n
<1> QED  BY <1>1, DueInit, DueStep, PTL DEF Spec

-----------------------------------------------------------------------------
(* The collector is a meter: what was reported of the pids and not forgotten is *)
(* what is in prevSeen, which is never above the totals.                        *)

Reported == SumFunction(credited) = SumFunction(Olds) + forgotten

ReportInv == RuntimeInv /\ Reported

Charges == [p \in Pids |-> Total(p)]

LEMMA ReportTypes ==
  RuntimeInv => /\ Olds \in [Pids -> Nat] /\ SumFunction(Olds) \in Nat
                /\ Charges \in [Pids -> Nat] /\ SumFunction(Charges) \in Nat
                /\ SumFunction(Olds) <= SumFunction(Charges)
                /\ SumFunction(credited) \in Nat /\ forgotten \in Nat
<1> SUFFICES ASSUME RuntimeInv
             PROVE  /\ Olds \in [Pids -> Nat] /\ SumFunction(Olds) \in Nat
                    /\ Charges \in [Pids -> Nat] /\ SumFunction(Charges) \in Nat
                    /\ SumFunction(Olds) <= SumFunction(Charges)
                    /\ SumFunction(credited) \in Nat /\ forgotten \in Nat
  OBVIOUS
<1> USE DEF RuntimeInv
<1>1. \A p \in Pids : Old(p) \in Nat /\ Total(p) \in Nat /\ Old(p) <= Total(p)
  BY OldTypes, TotalTypes DEF Totals
<1>2. Olds \in [Pids -> Nat] /\ Charges \in [Pids -> Nat]
  BY <1>1 DEF Olds, Charges
<1>3. /\ SumFunction(Olds) \in Nat /\ SumFunction(Charges) \in Nat
      /\ SumFunction(credited) \in Nat
  BY <1>2, FunSumIsNat, AllFinite DEF Finite, TypeOK
<1>4. /\ Olds \in [Pids -> Int] /\ Charges \in [Pids -> Int]
      /\ \A p \in Pids : Olds[p] <= Charges[p]
  BY <1>1 DEF Olds, Charges
<1>5. SumFunction(Olds) <= SumFunction(Charges)
  BY <1>4, FunSumLeq, AllFinite DEF Finite
<1> QED  BY <1>2, <1>3, <1>5 DEF TypeOK

LEMMA ReportTypesNext ==
  RuntimeInv' => /\ Olds' \in [Pids -> Nat] /\ SumFunction(Olds)' \in Nat
                 /\ Charges' \in [Pids -> Nat] /\ SumFunction(Charges)' \in Nat
                 /\ SumFunction(Olds)' <= SumFunction(Charges)'
                 /\ SumFunction(credited)' \in Nat /\ forgotten' \in Nat
<1> DEFINE F == /\ Olds \in [Pids -> Nat] /\ SumFunction(Olds) \in Nat
                /\ Charges \in [Pids -> Nat] /\ SumFunction(Charges) \in Nat
                /\ SumFunction(Olds) <= SumFunction(Charges)
                /\ SumFunction(credited) \in Nat /\ forgotten \in Nat
<1>1. RuntimeInv => F
  BY ReportTypes
<1> HIDE DEF F
<1>2. (RuntimeInv => F)'
  BY <1>1, PTL
<1> QED  BY <1>2 DEF F

LEMMA ReportInit == Init => ReportInv
<1> SUFFICES ASSUME Init PROVE ReportInv
  OBVIOUS
<1>1. /\ DOMAIN credited = Keys /\ \A o \in Keys : credited[o] = 0
      /\ DOMAIN Olds = Pids /\ \A p \in Pids : Olds[p] = 0
      /\ forgotten = 0
  BY DEF Init, ZeroOf, Olds, Old, At, EmptyMap
<1>2. SumFunction(credited) = 0 /\ SumFunction(Olds) = 0
  BY <1>1, FunSumOfZeros, AllFinite DEF Finite
<1> QED  BY <1>1, <1>2, TypeInit DEF ReportInv, Reported

\* A row tells of what it adds to prevSeen.
LEMMA RowReports ==
  ASSUME RuntimeInv, RuntimeInv', NEW q \in Pids, Row(q)
  PROVE  /\ RowOf(q) \in Nat /\ UNCHANGED forgotten
         /\ SumFunction(credited)' = SumFunction(credited) + RowOf(q)
         /\ SumFunction(Olds)' = SumFunction(Olds) + RowOf(q)
<1> DEFINE h == At(owner, q, Host)
<1>1. /\ RowOf(q) \in Nat /\ h \in Keys /\ RowOf(q) = Old(q)' - Old(q)
      /\ \A p \in Pids : p # q => Old(p)' = Old(p)
      /\ \A o \in Keys : credited'[o] = credited[o] + (IF o = h THEN RowOf(q) ELSE 0)
      /\ credited' \in [Keys -> Nat] /\ credited \in [Keys -> Nat]
  BY RowGives DEF RuntimeInv, TypeOK
<1> HIDE DEF h
<1>2. SumFunction(credited)' = SumFunction(credited) + RowOf(q)
  <2>1. /\ credited \in [Keys -> Int] /\ credited' \in [Keys -> Int]
        /\ \A o \in Keys : o # h => credited'[o] = credited[o]
        /\ credited'[h] = credited[h] + RowOf(q)
        /\ credited[h] \in Nat
    BY <1>1
  <2>2. SumFunction(credited') = SumFunction(credited) - credited[h] + credited'[h]
    BY <1>1, <2>1, FunSumChanges, AllFinite DEF Finite
  <2>3. SumFunction(credited) \in Nat
    BY ReportTypes
  <2> QED  BY <1>1, <2>1, <2>2, <2>3
<1>3. SumFunction(Olds)' = SumFunction(Olds) + RowOf(q)
  <2>1. Olds \in [Pids -> Int] /\ Olds' \in [Pids -> Int] /\ SumFunction(Olds) \in Nat
    BY ReportTypes, ReportTypesNext
  <2>2. \A p \in Pids : Olds[p] = Old(p) /\ Olds'[p] = Old(p)'
    BY DEF Olds
  <2>3. SumFunction(Olds') = SumFunction(Olds) - Olds[q] + Olds'[q]
    <3>1. \A p \in Pids : p # q => Olds'[p] = Olds[p]
      BY <1>1, <2>2
    <3> QED  BY <2>1, <3>1, FunSumChanges, AllFinite DEF Finite
  <2>4. Olds[q] \in Int /\ Olds'[q] \in Int
    BY <2>1
  <2> QED  BY <1>1, <2>1, <2>2, <2>3, <2>4
<1> QED  BY <1>1, <1>2, <1>3 DEF Row

LEMMA IterateReports ==
  ASSUME RuntimeInv, RuntimeInv', NEW read \in SUBSET DOMAIN acct, Iterate(read)
  PROVE  /\ UNCHANGED <<credited, acct>>
         /\ SumFunction(Olds)' + forgotten' = SumFunction(Olds) + forgotten
         /\ forgotten' >= forgotten
<1>1. /\ Lost(read) \in [Pids -> Nat] /\ SumFunction(Lost(read)) \in Nat
      /\ forgotten' = forgotten + SumFunction(Lost(read))
      /\ \A p \in Pids : Old(p) = Old(p)' + Lost(read)[p]
  BY IterateLoses
<1>2. Olds' \in [Pids -> Nat] /\ Lost(read) \in [Pids -> Int] /\ Olds' \in [Pids -> Int]
      /\ SumFunction(Olds)' \in Nat /\ forgotten \in Nat
  BY <1>1, ReportTypes, ReportTypesNext
<1>3. Olds = [p \in Pids |-> Olds'[p] + Lost(read)[p]]
  BY <1>1 DEF Olds
<1>4. SumFunction([p \in Pids |-> Olds'[p] + Lost(read)[p]])
        = SumFunction(Olds') + SumFunction(Lost(read))
  BY <1>2, FunSumOfBoth, AllFinite DEF Finite
<1>5. SumFunction(Olds) = SumFunction(Olds') + SumFunction(Lost(read))
  BY <1>3, <1>4
<1> QED  BY <1>1, <1>2, <1>5 DEF Iterate, kernelVars

LEMMA ReportStep == ReportInv /\ [Next]_vars => ReportInv'
<1> SUFFICES ASSUME ReportInv, [Next]_vars PROVE ReportInv'
  OBVIOUS
<1>1. RuntimeInv /\ RuntimeInv' /\ SumFunction(credited) = SumFunction(Olds) + forgotten
  BY TypeStep DEF ReportInv, Reported
<1>2. /\ SumFunction(credited) \in Nat /\ SumFunction(Olds) \in Nat /\ forgotten \in Nat
      /\ SumFunction(Olds)' \in Nat /\ forgotten' \in Nat
  BY <1>1, ReportTypes, ReportTypesNext
<1>3. CASE Kernel \/ UNCHANGED vars
  <2>1. UNCHANGED <<prevSeen, credited, forgotten>>
    BY <1>3 DEF Kernel, Tick, Reap, Fork, Exec, Switch, vars, pollVars, pollHistory
  <2> QED  BY <1>1, <2>1 DEF ReportInv, Reported, Olds, Old
<1>4. ASSUME NEW read \in SUBSET DOMAIN acct, Iterate(read) PROVE ReportInv'
  <2>1. /\ SumFunction(Olds)' + forgotten' = SumFunction(Olds) + forgotten
        /\ SumFunction(credited)' = SumFunction(credited)
    BY <1>1, <1>4, IterateReports
  <2> QED  BY <1>1, <1>2, <2>1 DEF ReportInv, Reported
<1>5. ASSUME NEW q \in Pids, Row(q) PROVE ReportInv'
  <2>1. /\ RowOf(q) \in Nat /\ forgotten' = forgotten
        /\ SumFunction(credited)' = SumFunction(credited) + RowOf(q)
        /\ SumFunction(Olds)' = SumFunction(Olds) + RowOf(q)
    BY <1>1, <1>5, RowReports
  <2> QED  BY <1>1, <1>2, <2>1 DEF ReportInv, Reported
<1> QED  BY <1>3, <1>4, <1>5 DEF Next, Poll

LEMMA CpuInit == Init => CpuMeter!Init
<1> SUFFICES ASSUME Init PROVE CpuMeter!Init
  OBVIOUS
<1>1. SumFunction(Charges) + forgotten \in Nat
  BY ReportInit, ReportTypes DEF ReportInv
<1>2. SumFunction(credited) = 0
  <2>1. DOMAIN credited = Keys /\ \A o \in Keys : credited[o] = 0
    BY DEF Init, ZeroOf
  <2> QED  BY <2>1, FunSumOfZeros, AllFinite DEF Finite
<1> QED  BY <1>1, <1>2 DEF CpuMeter!Init, CpuMeter!Amounts, Charges

LEMMA CpuDoes ==
  ASSUME RuntimeInv', UNCHANGED credited,
         SumFunction(Charges)' + forgotten' >= SumFunction(Charges) + forgotten
  PROVE  [CpuMeter!Next]_(CpuMeter!vars)
<1>1. SumFunction(Charges)' + forgotten' \in Nat
  BY ReportTypesNext
<1>2. CpuMeter!Do
  BY <1>1 DEF CpuMeter!Do, CpuMeter!Amounts, Charges
<1> QED  BY <1>2 DEF CpuMeter!Next

LEMMA CpuTells ==
  ASSUME ReportInv, ReportInv', NEW q \in Pids, Row(q)
  PROVE  [CpuMeter!Next]_(CpuMeter!vars)
<1>1. RuntimeInv /\ RuntimeInv'
  BY DEF ReportInv
<1>2. /\ RowOf(q) \in Nat /\ forgotten' = forgotten
      /\ SumFunction(credited)' = SumFunction(credited) + RowOf(q)
  BY <1>1, RowReports
<1>3. /\ SumFunction(credited)' \in Nat /\ SumFunction(credited) \in Nat /\ forgotten \in Nat
      /\ SumFunction(Olds)' <= SumFunction(Charges)' /\ SumFunction(Olds)' \in Nat
      /\ SumFunction(Charges)' \in Nat
  BY <1>1, ReportTypes, ReportTypesNext
<1>4. SumFunction(credited)' = SumFunction(Olds)' + forgotten'
  BY DEF ReportInv, Reported
<1>5. Charges' = Charges
  BY DEF Row, kernelVars, Charges, Total
<1>6. /\ SumFunction(credited)' >= SumFunction(credited)
      /\ SumFunction(credited)' <= SumFunction(Charges) + forgotten
  BY <1>2, <1>3, <1>4, <1>5
<1>7. SumFunction(Charges)' + forgotten' = SumFunction(Charges) + forgotten
  BY <1>2, <1>5
<1>8. CpuMeter!Tell
  BY <1>3, <1>6, <1>7 DEF CpuMeter!Tell, CpuMeter!Amounts, Charges
<1> QED  BY <1>8 DEF CpuMeter!Next

LEMMA CpuStep ==
  ReportInv /\ ReportInv' /\ [Next]_vars => [CpuMeter!Next]_(CpuMeter!vars)
<1> SUFFICES ASSUME ReportInv, ReportInv', [Next]_vars
             PROVE  [CpuMeter!Next]_(CpuMeter!vars)
  OBVIOUS
<1>1. RuntimeInv /\ RuntimeInv'
  BY DEF ReportInv
<1>2. SumFunction(Charges) \in Nat /\ forgotten \in Nat
  BY <1>1, ReportTypes
<1>3. CASE UNCHANGED vars \/ Tick \/ \E p \in Pids : Reap(p) \/ \E o \in Keys : Fork(p, o)
  <2>1. UNCHANGED <<acct, credited, forgotten>>
    BY <1>3 DEF Tick, Reap, Fork, vars, kernelVars, pollHistory
  <2>2. Charges' = Charges
    BY <2>1 DEF Charges, Total
  <2> QED  BY <1>1, <1>2, <2>1, <2>2, CpuDoes
<1>4. ASSUME NEW c \in Cpus, NEW p \in Pids, Exec(c, p)
      PROVE  [CpuMeter!Next]_(CpuMeter!vars)
  <2>1. UNCHANGED <<acct, credited, forgotten>>
    BY <1>4 DEF Exec, pollHistory
  <2>2. Charges' = Charges
    BY <2>1 DEF Charges, Total
  <2> QED  BY <1>1, <1>2, <2>1, <2>2, CpuDoes
<1>5. ASSUME NEW c \in Cpus, NEW p \in Pids \cup {Idle}, Switch(c, p)
      PROVE  [CpuMeter!Next]_(CpuMeter!vars)
  <2>1. UNCHANGED <<credited, forgotten>>
    BY <1>5 DEF Switch, pollHistory
  <2>2. \A r \in Pids : Charges[r] <= Charges'[r]
    BY <1>1, <1>5, TotalGrows DEF Charges
  <2>3. Charges \in [Pids -> Int] /\ Charges' \in [Pids -> Int] /\ SumFunction(Charges)' \in Nat
    BY <1>1, ReportTypes, ReportTypesNext
  <2>4. SumFunction(Charges) <= SumFunction(Charges')
    BY <2>2, <2>3, FunSumLeq, AllFinite DEF Finite
  <2>5. SumFunction(Charges)' + forgotten' >= SumFunction(Charges) + forgotten
    BY <1>2, <2>1, <2>3, <2>4
  <2> QED  BY <1>1, <2>1, <2>5, CpuDoes
<1>6. ASSUME NEW read \in SUBSET DOMAIN acct, Iterate(read)
      PROVE  [CpuMeter!Next]_(CpuMeter!vars)
  <2>1. UNCHANGED <<acct, credited>> /\ forgotten' >= forgotten /\ forgotten' \in Nat
    BY <1>1, <1>6, IterateReports, ReportTypesNext
  <2>2. Charges' = Charges
    BY <2>1 DEF Charges, Total
  <2>3. SumFunction(Charges)' + forgotten' >= SumFunction(Charges) + forgotten
    BY <1>2, <2>1, <2>2
  <2> QED  BY <1>1, <2>1, <2>3, CpuDoes
<1> QED  BY <1>3, <1>4, <1>5, <1>6, CpuTells DEF Next, Kernel, Poll

\* The collector implements Meter: over all polls, whatever fails, the rows never
\* tell of more time than the map has charged, and no charge is taken back.
THEOREM CpuTimeIsMetered == Spec => MetersCpu
<1>1. Spec => []ReportInv
  BY ReportInit, ReportStep, PTL DEF Spec
<1> QED  BY <1>1, CpuInit, CpuStep, PTL DEF Spec, MetersCpu, CpuMeter!Spec

-----------------------------------------------------------------------------
(* The account of the cgroup *)

LEMMA DivTimes ==
  ASSUME NEW a \in Nat, NEW u \in Nat \ {0}
  PROVE  a \div u \in Nat /\ (a \div u) * u <= a
OBVIOUS

LEMMA Distribute ==
  ASSUME NEW a \in Nat, NEW b \in Nat, NEW u \in Nat
  PROVE  (a + b) * u = a * u + b * u /\ a * u \in Nat /\ b * u \in Nat
OBVIOUS

LEMMA Products ==
  ASSUME NEW a \in Nat, NEW b \in Nat, NEW c \in Nat, NEW u \in Nat
  PROVE  (a + b) * u \in Nat /\ (a + c) * u \in Nat
OBVIOUS

\* The usage of the current run grew by no more than the container consumed
\* since the last ingested sample, since the pending one, and between the two.
\* What misses took from prev since then has to be added to it.
Growth ==
  /\ usage + ingestedAt <= consumed + prev + owed
  /\ sample.some /\ sample.real =>
       /\ usage + sampledAt <= consumed + sample.usage
       /\ sample.usage + ingestedAt <= sampledAt + prev + owed
  /\ ~sample.real => sample.usage = 0
  /\ ingestedAt <= sampledAt /\ sampledAt <= consumed

\* Nothing is charged beyond the last ingested sample and what was dropped
\* before it.
Charged == (sumDelta + delta) * Unit + owed <= ingestedAt + dropped

MeterInv == CgroupTypeOK /\ Growth /\ Charged

LEMMA MeterInit == CgroupInit => MeterInv
BY MeterAssumption DEF CgroupInit, MeterInv, CgroupTypeOK, Growth, Charged, NoSample, Samples

LEMMA IngestReal ==
  ASSUME MeterInv, Ingest, sample.real
  PROVE  MeterInv'
<1> USE MeterAssumption DEF MeterInv, CgroupTypeOK, Growth, Charged
<1> DEFINE s == sample.usage
<1>1. s \in Nat /\ sample.some
  BY DEF Samples, Ingest
<1>2. sumDelta' = sumDelta /\ ingestedAt' = sampledAt /\ owed' = 0 /\ dropped' = dropped
  BY DEF Ingest, ledger
<1>3. delta' \in Nat /\ (sumDelta + delta') * Unit <= sampledAt + dropped
  <2>1. sumDelta * Unit + owed <= ingestedAt + dropped
    BY Distribute
  <2>2. CASE s >= prev
    <3>1. s - prev \in Nat /\ delta' = (s - prev) \div Unit
      BY <1>1, <2>2 DEF Ingest, NewDelta
    <3>2. delta' \in Nat /\ delta' * Unit <= s - prev
      BY <3>1, DivTimes
    <3>3. s - prev <= sampledAt - ingestedAt + owed
      BY <1>1
    <3> QED  BY <2>1, <3>1, <3>2, <3>3, Distribute
  <2>3. CASE ~(s >= prev)
    <3>1. delta' = delta
      BY <2>3 DEF Ingest, NewDelta
    <3> QED  BY <3>1, Distribute
  <2> QED  BY <2>2, <2>3
<1>4. Growth'
  BY <1>1, <1>2 DEF Ingest, NewPrev, NoSample
<1>5. CgroupTypeOK'
  BY <1>1, <1>2, <1>3 DEF Ingest, NewPrev, NoSample, Samples, ledger
<1>6. (sumDelta + delta') * Unit + 0 = (sumDelta + delta') * Unit
  BY <1>3, Distribute
<1>7. Charged'
  BY <1>2, <1>3, <1>6
<1> QED  BY <1>4, <1>5, <1>7

LEMMA IngestMiss ==
  ASSUME MeterInv, Ingest, ~sample.real
  PROVE  MeterInv'
<1> USE MeterAssumption DEF MeterInv, CgroupTypeOK, Growth, Charged
<1>1. sample.usage = 0 /\ prev' = 0
  BY DEF Ingest, NewPrev
<1>2. /\ sumDelta' = sumDelta /\ ingestedAt' = ingestedAt
      /\ owed' = owed + prev /\ dropped' = dropped + prev
  BY DEF Ingest, ledger
<1>3. delta' \in Nat /\ (sumDelta + delta') * Unit <= (sumDelta + delta) * Unit
  <2>1. CASE prev = 0
    <3>1. delta' = 0
      BY <1>1, <2>1, DivTimes DEF Ingest, NewDelta
    <3> QED  BY <3>1, Distribute
  <2>2. CASE prev # 0
    <3>1. delta' = delta
      BY <1>1, <2>2 DEF Ingest, NewDelta
    <3> QED  BY <3>1, Distribute
  <2> QED  BY <2>1, <2>2
<1>4. Growth'
  <2>1. usage' = usage /\ consumed' = consumed /\ sampledAt' = sampledAt /\ sample' = NoSample
    BY DEF Ingest
  <2> QED  BY <1>1, <1>2, <2>1 DEF NoSample
<1>5. CgroupTypeOK'
  BY <1>1, <1>2, <1>3 DEF Ingest, NoSample, Samples, ledger
<1>6. Charged'
  <2> DEFINE before == (sumDelta + delta) * Unit
             after  == (sumDelta + delta') * Unit
  <2>1. sumDelta \in Nat /\ delta \in Nat /\ Unit \in Nat
    OBVIOUS
  <2>2. before \in Nat /\ after \in Nat
    BY ONLY <1>3, <2>1, Products
  <2>3. after <= before /\ before + owed <= ingestedAt + dropped
    BY <1>3
  <2>4. Charged' = (after + owed' <= ingestedAt' + dropped')
    BY <1>2
  <2> HIDE DEF before, after
  <2> QED  BY <1>2, <2>2, <2>3, <2>4
<1> QED  BY <1>4, <1>5, <1>6

LEMMA MeterStep == MeterInv /\ [CgroupNext]_cgroupVars => MeterInv'
<1> SUFFICES ASSUME MeterInv, [CgroupNext]_cgroupVars PROVE MeterInv'
  OBVIOUS
<1> USE MeterAssumption DEF MeterInv, CgroupTypeOK, Growth
<1>0. ASSUME UNCHANGED <<sumDelta, delta, ingestedAt, owed, dropped>>
      PROVE  Charged'
  BY <1>0 DEF Charged
<1>1. CASE Consume
  BY <1>0, <1>1 DEF Consume, Samples, lapses, ledger
<1>2. CASE Restart
  BY <1>0, <1>2 DEF Restart, Samples, lapses, ledger
<1>3. CASE Read
  <2>1. sample' \in Samples /\ sample'.usage = usage /\ sample'.real
    BY <1>3 DEF Read, Samples
  <2> QED  BY <1>0, <1>3, <2>1 DEF Read, lapses, ledger
<1>4. CASE Miss
  <2>1. sample' \in Samples /\ sample'.usage = 0 /\ ~sample'.real
    BY <1>4 DEF Miss, Samples
  <2> QED  BY <1>0, <1>4, <2>1 DEF Miss, ledger
<1>5. CASE Ingest
  BY <1>5, IngestReal, IngestMiss
<1>6. CASE CloseWindow
  <2>1. sumDelta' + delta' = sumDelta + delta /\ UNCHANGED <<ingestedAt, owed, dropped>>
    BY <1>6 DEF CloseWindow, lapses
  <2>2. Charged'
    BY <2>1 DEF Charged
  <2> QED  BY <1>6, <2>2 DEF CloseWindow, lapses
<1>7. CASE UNCHANGED cgroupVars
  BY <1>0, <1>7 DEF cgroupVars, lapses, ledger
<1> QED  BY <1>1, <1>2, <1>3, <1>4, <1>5, <1>6, <1>7 DEF CgroupNext

\* Over all windows a container is never charged for more than it consumed,
\* but for what a file that could not be opened made the agent forget.
THEOREM ChargedAtMostConsumed == CgroupSpec => []NotOverReported
<1>1. MeterInv => NotOverReported
  <2> SUFFICES ASSUME MeterInv PROVE NotOverReported
    OBVIOUS
  <2>1. (sumDelta + delta) * Unit \in Nat
    BY Distribute, MeterAssumption DEF MeterInv, CgroupTypeOK
  <2> QED  BY <2>1 DEF MeterInv, CgroupTypeOK, Growth, Charged, NotOverReported
<1> QED  BY <1>1, MeterInit, MeterStep, PTL DEF CgroupSpec

\* The types of the model's variables.
THEOREM CgroupTypeCorrect == CgroupSpec => []CgroupTypeOK
<1>1. MeterInv => CgroupTypeOK
  BY DEF MeterInv
<1> QED  BY <1>1, MeterInit, MeterStep, PTL DEF CgroupSpec

==============================================================================
