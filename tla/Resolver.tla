------------------------------ MODULE Resolver ------------------------------
(* pkg/container/resolver.go: pids to containers.  Resolve is called by the    *)
(* goroutines of three collectors; it reads /proc twice and the cache in       *)
(* between, and holds the lock for each cache access only.  Meanwhile processes*)
(* fork, move into a container's cgroup, exit and leave their pid to others,   *)
(* and Refresh drops cache entries.  The map of containers that Refresh also   *)
(* replaces, which Resolve does not read, is known in module Aggregator and    *)
(* the input of Refresh in module SyscallAgent.  pidSet and ClearCache, which  *)
(* the agent does not use, are left out.                                       *)
EXTENDS BpfMaps

CONSTANTS Pids,
          Cids,         \* docker container ids
          Host,         \* the empty container id
          Callers,      \* goroutines that call Resolve
          MaxStarts     \* bound: processes that get the same pid

ASSUME ResolverAssumption ==
  /\ Host \notin Cids
  /\ MaxStarts \in Nat \ {0}

VARIABLES proc,         \* pid -> container of the process that has it, or Host
          starts,       \* pid -> processes so far, which is its start time
          docker,       \* container -> "new", "created" or "removed"
          listed,       \* what Refresh got from docker
          refreshing,   \* Refresh is between docker's answers and its lock
          upidCache,    \* <<pid, start time>> -> container or Host
          call          \* caller -> its running Resolve

worldVars == <<proc, starts, docker>>
refreshVars == <<listed, refreshing>>
vars == <<worldVars, refreshVars, upidCache, call>>

Keys == Cids \cup {Host}

\* The clock ticks between two processes with the same pid.
UPIDs == Pids \X (1 .. MaxStarts)

\* A running Resolve; was is history: the containers that processes with this
\* pid were in since the call began.
Calls == [pc : {"lookup", "cgroup", "store"}, pid : Pids, start : 1 .. MaxStarts,
          cid : Keys, was : SUBSET Keys]

TypeOK ==
  /\ IsMap(proc, Pids, Keys)
  /\ starts \in [Pids -> 0 .. MaxStarts]
  /\ docker \in [Cids -> {"new", "created", "removed"}]
  /\ listed \subseteq Cids
  /\ refreshing \in BOOLEAN
  /\ IsMap(upidCache, UPIDs, Keys)
  /\ IsMap(call, Callers, Calls)

Init ==
  /\ proc = EmptyMap
  /\ starts = [p \in Pids |-> 0]
  /\ docker = [c \in Cids |-> "new"]
  /\ listed = {} /\ refreshing = FALSE
  /\ upidCache = EmptyMap
  /\ call = EmptyMap

-----------------------------------------------------------------------------
(* The kernel and docker *)

\* History: a process with pid p is in c from now on.
Witness(p, c) ==
  call' = [t \in DOMAIN call |->
             IF call[t].pid = p THEN [call[t] EXCEPT !.was = @ \cup {c}]
                                ELSE call[t]]

Fork(p, c) ==
  /\ p \notin DOMAIN proc
  /\ starts[p] < MaxStarts
  /\ c \in Cids => docker[c] = "created"
  /\ proc' = Put(proc, p, c)
  /\ starts' = [starts EXCEPT ![p] = @ + 1]
  /\ Witness(p, c)
  /\ UNCHANGED <<docker, refreshVars, upidCache>>

\* A container's process is forked outside and joins the cgroup later.
Join(p, c) ==
  /\ p \in DOMAIN proc
  /\ proc[p] = Host
  /\ docker[c] = "created"
  /\ proc' = [proc EXCEPT ![p] = c]
  /\ Witness(p, c)
  /\ UNCHANGED <<starts, docker, refreshVars, upidCache>>

\* The process is reaped; until then /proc still shows it.
Reap(p) ==
  /\ p \in DOMAIN proc
  /\ proc' = Drop(proc, {p})
  /\ UNCHANGED <<starts, docker, refreshVars, upidCache, call>>

Create(c) ==
  /\ docker[c] = "new"
  /\ docker' = [docker EXCEPT ![c] = "created"]
  /\ UNCHANGED <<proc, starts, refreshVars, upidCache, call>>

Remove(c) ==
  /\ docker[c] = "created"
  /\ \A p \in DOMAIN proc : proc[p] # c
  /\ docker' = [docker EXCEPT ![c] = "removed"]
  /\ UNCHANGED <<proc, starts, refreshVars, upidCache, call>>

-----------------------------------------------------------------------------
(* Refresh, called by the refresh goroutine only *)

\* ListContainers and InspectContainer of each; one that fails is left out.
RefreshList ==
  /\ ~refreshing
  /\ refreshing' = TRUE
  /\ listed' \in SUBSET {c \in Cids : docker[c] = "created"}
  /\ UNCHANGED <<worldVars, upidCache, call>>

StaleNever(next) == {}

\* Cache entries of a container that is not in the new list.
Stale(next) == {u \in DOMAIN upidCache : upidCache[u] \in Cids \ next}

\* Under the lock.
RefreshCommit ==
  /\ refreshing
  /\ upidCache' = Drop(upidCache, Stale(listed))
  /\ refreshing' = FALSE /\ listed' = {}
  /\ UNCHANGED <<worldVars, call>>

-----------------------------------------------------------------------------
(* Resolve *)

PidOnly(t) == <<call[t].pid, 1>>

UpidUnset(t) == <<call[t].pid, 0>>

UpidByThen(t) == <<call[t].pid, starts[call[t].pid]>>

Upid(t) == <<call[t].pid, call[t].start>>

\* readStartTimeTicks; a pid that is gone is answered at once with the host.
ReadStart(t, p) ==
  /\ t \notin DOMAIN call
  /\ p \in DOMAIN proc
  /\ call' = Put(call, t, [pc |-> "lookup", pid |-> p, start |-> starts[p],
                           cid |-> Host, was |-> {proc[p]}])
  /\ UNCHANGED <<worldVars, refreshVars, upidCache>>

\* Under the read lock; a hit is the answer.
Lookup(t) ==
  /\ t \in DOMAIN call
  /\ call[t].pc = "lookup"
  /\ call' = IF Upid(t) \in DOMAIN upidCache THEN Drop(call, {t})
             ELSE [call EXCEPT ![t].pc = "cgroup"]
  /\ UNCHANGED <<worldVars, refreshVars, upidCache>>

\* parseContainerIDFromCgroup, of whichever process has the pid now; none, or
\* one outside every container, reads as the host.
ReadCgroup(t) ==
  /\ t \in DOMAIN call
  /\ call[t].pc = "cgroup"
  /\ call' = [call EXCEPT ![t].pc = "store", ![t].cid = At(proc, call[t].pid, Host)]
  /\ UNCHANGED <<worldVars, refreshVars, upidCache>>

\* Under the lock; the container need not be known, and an entry that another
\* caller stored meanwhile is replaced.
Store(t) ==
  /\ t \in DOMAIN call
  /\ call[t].pc = "store"
  /\ upidCache' = Put(upidCache, Upid(t), call[t].cid)
  /\ call' = Drop(call, {t})
  /\ UNCHANGED <<worldVars, refreshVars>>

Resolve(t) == Lookup(t) \/ ReadCgroup(t) \/ Store(t)

World ==
  \/ \E p \in Pids, c \in Keys : Fork(p, c)
  \/ \E p \in Pids, c \in Cids : Join(p, c)
  \/ \E p \in Pids : Reap(p)
  \/ \E c \in Cids : Create(c) \/ Remove(c)

Next ==
  \/ World
  \/ RefreshList
  \/ RefreshCommit
  \/ \E t \in Callers, p \in Pids : ReadStart(t, p)
  \/ \E t \in Callers : Resolve(t)

Spec == Init /\ [][Next]_vars

-----------------------------------------------------------------------------
(* Properties *)

\* "Cached by UPID so PID reuse is safe": whatever callers raced for it, the
\* cache never says of a process that exists that it belongs to a container it
\* is not in.  (It may still say host of one that has joined a container.)
LiveNotForeign ==
  \A p \in DOMAIN proc :
    At(upidCache, <<p, starts[p]>>, Host) \in {Host, proc[p]}

\* What a call returns in its last step.
Answer(t) ==
  IF call[t].pc = "lookup" THEN upidCache[Upid(t)] ELSE call[t].cid

\* A container that Resolve returns is one in which a process with that pid was
\* while the call ran, through the cache or not: an answer is never older than
\* its question.
AnswersWereThere ==
  [][\A t \in DOMAIN call \ DOMAIN call' : Answer(t) \in call[t].was \cup {Host}]_vars

-----------------------------------------------------------------------------
(* Liveness: the refresh ticker and every caller keep running. *)

FairSpec ==
  /\ Spec
  /\ WF_vars(RefreshList) /\ WF_vars(RefreshCommit)
  /\ \A t \in Callers : WF_vars(Resolve(t))

\* Entries of a removed container are gone for good in the end, though calls
\* and a refresh that began before its removal may bring some back.
RemovedForgotten ==
  \A c \in Cids :
    docker[c] = "removed" ~> [](\A u \in DOMAIN upidCache : upidCache[u] # c)

=============================================================================
