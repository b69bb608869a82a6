-------------------------- MODULE ProcessPool_proofs --------------------------
(***************************************************************************)
(* Proofs about ProcessPool for every set of processes, operations and     *)
(* directories and every capacity: leases, capacity, the processes that    *)
(* are taken out of the pool, the commands that outlive their caller, and  *)
(* the refinement of LeaseContract.                                        *)
(***************************************************************************)
EXTENDS ProcessPool, FiniteSetTheorems, TLAPS

USE DEF Alive

OsState == {"unborn", "gone"} \cup Alive

\* The cardinalities compared with maxProcesses and prewarmCount are numbers.
LEMMA CountsAreNaturals ==
  ASSUME NEW o
  PROVE  /\ IsFiniteSet(PooledIn(o))
         /\ Total(o) \in Nat
         /\ Needed(o) \in Int
<1>1. IsFiniteSet(PooledIn(o))
  <2>1. PooledIn(o) \subseteq Proc
    BY DEF PooledIn
  <2> QED BY <2>1, ConstantsAssumption, FS_Subset
<1>2. Total(o) \in Nat
  BY <1>1, FS_CardinalityType DEF Total
<1>3. IsFiniteSet({p \in PooledIn(o) : cwd[p] = DefaultCwd})
  BY <1>1, FS_Subset
<1>4. Cardinality({p \in PooledIn(o) : cwd[p] = DefaultCwd}) \in Nat
  BY <1>3, FS_CardinalityType
<1> QED BY <1>1, <1>2, <1>4, ConstantsAssumption DEF Needed, PrewarmTarget

\* A turn of prewarm's loop keeps the type of everything it assigns.
LEMMA PrewarmLoopType ==
  ASSUME TypeOK, NEW n \in Int,
         NEW o \in [Proc -> OsState],
         NEW pnd \in [Proc -> SUBSET Request],
         NEW dec \in SUBSET Proc,
         NEW wrm \in [Proc -> Nat],
         PrewarmLoop(n, o, pnd, dec, wrm)
  PROVE  /\ os' \in [Proc -> OsState]
         /\ cwd' \in [Proc -> Cwd \cup {NoCwd}]
         /\ bySignal' \subseteq Proc
         /\ decommissioning' \subseteq Proc
         /\ pending' \in [Proc -> SUBSET Request]
         /\ executing' \in [Proc -> SUBSET Request]
         /\ warming' \in [Proc -> Nat]
<1>1. CASE ~MoreNeeded(n, o)
  <2>1. os' = o /\ pending' = pnd /\ decommissioning' = dec /\ warming' = wrm
        /\ UNCHANGED <<cwd, bySignal, executing>>
    BY <1>1 DEF PrewarmLoop, NoSpawn
  <2> QED BY <2>1 DEF TypeOK, OsState
<1>2. CASE MoreNeeded(n, o)
  <2>1. n > 0
    BY <1>2 DEF MoreNeeded
  <2>2. PICK p \in Proc :
          /\ os' = [o EXCEPT ![p] = "running"]
          /\ cwd' = [cwd EXCEPT ![p] = DefaultCwd]
          /\ bySignal' = bySignal \ {p}
          /\ decommissioning' = dec \ {p}
          /\ pending' = [pnd EXCEPT ![p] = IF n > 1 THEN {Probe} ELSE {}]
          /\ executing' = [executing EXCEPT ![p] = IF n > 1 THEN {Probe} ELSE {}]
          /\ warming' = [wrm EXCEPT ![p] = n - 1]
    BY <1>2 DEF PrewarmLoop, Spawn
  <2>3. n - 1 \in Nat
    BY <2>1
  <2> QED BY <2>2, <2>3, ConstantsAssumption DEF TypeOK, OsState, Request
<1> QED BY <1>1, <1>2

LEMMA SignalledType ==
  ASSUME NEW o \in [Proc -> OsState], NEW S
  PROVE  Signalled(o, S) \in [Proc -> OsState]
BY DEF Signalled, OsState

\* Initially and after every step each variable has its type.
LEMMA TypeStep == TypeOK /\ [Next]_vars => TypeOK'
<1> SUFFICES ASSUME TypeOK, [Next]_vars PROVE TypeOK'
  OBVIOUS
<1> USE ConstantsAssumption
<1>t. os \in [Proc -> OsState]
  BY DEF TypeOK, OsState
<1>1. ASSUME NEW o \in Op, NEW c \in Cwd, RequestProcess(o, c) PROVE TypeOK'
  BY <1>1 DEF RequestProcess, TypeOK, procVars, poolVars
<1>2. ASSUME NEW o \in Op, RequestAnyProcess(o) PROVE TypeOK'
  BY <1>2 DEF RequestAnyProcess, TypeOK, Reserve, procVars
<1>3. ASSUME NEW o \in Op, NEW p \in Proc, AcquireIdle(o, p) PROVE TypeOK'
  BY <1>3 DEF AcquireIdle, TypeOK, Reserve, procVars
<1>4. ASSUME NEW o \in Op, NEW p \in Proc, AcquireSpawn(o, p) PROVE TypeOK'
  BY <1>4 DEF AcquireSpawn, Spawn, TypeOK, Reserve
<1>5. ASSUME NEW o \in Op, NEW p \in Proc, Evict(o, p) PROVE TypeOK'
  <2>1. os' \in [Proc -> OsState]
    BY <1>5, <1>t, SignalledType DEF Evict
  <2> QED BY <1>5, <2>1 DEF Evict, TypeOK, OsState, opVars
<1>6. ASSUME NEW o \in Op, GiveUp(o) \/ Elapse(o) PROVE TypeOK'
  BY <1>6 DEF GiveUp, Elapse, TypeOK, procVars, poolVars
<1>7. ASSUME NEW o \in Op, SendRpc(o) PROVE TypeOK'
  <2> DEFINE p == leaseProc[o]
             r == <<o, sent[o] + 1>>
  <2>1. sent[o] + 1 \in 1 .. MaxRpc
    BY <1>7 DEF SendRpc, TypeOK
  <2>2. r \in Request
    BY <2>1 DEF Request, Command
  <2>3. pending' \in [Proc -> SUBSET Request]
    BY <1>7, <2>2 DEF SendRpc, TypeOK
  <2>4. executing' \in [Proc -> SUBSET Request]
    BY <1>7, <2>2 DEF SendRpc, TypeOK
  <2>5. sent' \in [Op -> 0 .. MaxRpc]
    BY <1>7, <2>1 DEF SendRpc, TypeOK
  <2> QED BY <1>7, <2>3, <2>4, <2>5 DEF SendRpc, TypeOK, procVars
<1>8. ASSUME NEW p \in Proc, NEW r \in Request, Respond(p, r) PROVE TypeOK'
  BY <1>8 DEF Respond, TypeOK, procVars, opVars
<1>9. ASSUME NEW p \in Proc, NEW r \in Request, TimeoutRpc(p, r) PROVE TypeOK'
  <2>1. os' \in [Proc -> OsState]
    BY <1>9, <1>t, SignalledType DEF TimeoutRpc
  <2> QED BY <1>9, <2>1 DEF TimeoutRpc, NewlyMarked, TypeOK, OsState, opVars
<1>10. ASSUME NEW o \in Op, ReleaseLease(o) \/ AbandonStart(o) \/ HardKill(o)
       PROVE TypeOK'
  <2>1. os' \in [Proc -> OsState]
    BY <1>10, <1>t, SignalledType DEF ReleaseLease, AbandonStart, HardKill
  <2>2. leases' \in [Proc -> Op \cup {NoOp}]
    BY <1>10 DEF ReleaseLease, AbandonStart, HardKill, Release, TypeOK
  <2>3. decommissioning' \subseteq Proc
    BY <1>10 DEF ReleaseLease, AbandonStart, HardKill, TypeOK
  <2> QED BY <1>10, <2>1, <2>2, <2>3
          DEF ReleaseLease, AbandonStart, HardKill, Release, TypeOK, OsState
<1>11. CASE EnsurePool
  <2>1. PrewarmLoop(Needed(os), os, pending, decommissioning, warming)
    BY <1>11 DEF EnsurePool
  <2> QED BY <1>11, <1>t, <2>1, CountsAreNaturals, PrewarmLoopType
          DEF EnsurePool, TypeOK, OsState, opVars
<1>12. ASSUME NEW p \in Proc, ContinuePrewarm(p) PROVE TypeOK'
  <2>1. PrewarmLoop(warming[p], os, pending, decommissioning,
                    [warming EXCEPT ![p] = 0])
    BY <1>12 DEF ContinuePrewarm
  <2>2. warming[p] \in Int /\ [warming EXCEPT ![p] = 0] \in [Proc -> Nat]
    BY DEF TypeOK
  <2> QED BY <1>12, <1>t, <2>1, <2>2, PrewarmLoopType
          DEF ContinuePrewarm, TypeOK, OsState, opVars
<1>13. ASSUME NEW p \in Proc, Exit(p) PROVE TypeOK'
  BY <1>13 DEF Exit, TypeOK, opVars
<1>14. ASSUME NEW p \in Proc, Finalize(p) PROVE TypeOK'
  <2> DEFINE g == [os EXCEPT ![p] = "gone"]
  <2>1. PrewarmLoop(Needed(g), g, [pending EXCEPT ![p] = {}],
                    decommissioning \ {p}, warming)
    BY <1>14 DEF Finalize
  <2>2. g \in [Proc -> OsState] /\ [pending EXCEPT ![p] = {}] \in [Proc -> SUBSET Request]
    BY <1>t DEF TypeOK, OsState
  <2>3. Needed(g) \in Int
    BY CountsAreNaturals
  <2>4. decommissioning \ {p} \in SUBSET Proc /\ warming \in [Proc -> Nat]
    BY DEF TypeOK
  <2>5. leases' \in [Proc -> Op \cup {NoOp}] /\ released' \subseteq Op
    BY <1>14 DEF Finalize, EndedBy, TypeOK
  <2> HIDE DEF g
  <2>6. /\ os' \in [Proc -> OsState]
        /\ cwd' \in [Proc -> Cwd \cup {NoCwd}]
        /\ bySignal' \subseteq Proc
        /\ decommissioning' \subseteq Proc
        /\ pending' \in [Proc -> SUBSET Request]
        /\ executing' \in [Proc -> SUBSET Request]
        /\ warming' \in [Proc -> Nat]
    BY <2>1, <2>2, <2>3, <2>4, PrewarmLoopType
  <2>7. UNCHANGED <<phase, want, elapsed, leaseProc, sent>>
    BY <1>14 DEF Finalize
  <2> QED BY <2>5, <2>6, <2>7 DEF TypeOK, OsState
<1>15. CASE RecycleWorkers
  <2>1. os' \in [Proc -> OsState]
    BY <1>15, <1>t, SignalledType DEF RecycleWorkers, AllKilled
  <2> QED BY <1>15, <2>1
          DEF RecycleWorkers, AllMarked, NewlyMarked, Pooled, PooledIn, TypeOK,
              OsState, opVars
<1>16. CASE ReloadProcesses
  <2>1. PrewarmLoop(Needed(os), AllKilled, pending, AllMarked, warming)
    BY <1>16 DEF ReloadProcesses
  <2>2. AllKilled \in [Proc -> OsState]
    BY <1>t, SignalledType DEF AllKilled
  <2>3. AllMarked \in SUBSET Proc
    BY DEF AllMarked, NewlyMarked, Pooled, PooledIn, TypeOK
  <2> QED BY <1>16, <2>1, <2>2, <2>3, CountsAreNaturals, PrewarmLoopType
          DEF ReloadProcesses, TypeOK, OsState, opVars
<1>17. CASE UNCHANGED vars
  BY <1>17 DEF TypeOK, vars, procVars, poolVars, opVars
<1> QED
  BY <1>1, <1>2, <1>3, <1>4, <1>5, <1>6, <1>7, <1>8, <1>9, <1>10, <1>11, <1>12,
     <1>13, <1>14, <1>15, <1>16, <1>17
     DEF Next, OpNext, AcquireStep, ProcNext

\* Every variable of the pool has its type in every reachable state.
THEOREM TypeCorrect == Spec => []TypeOK
<1>1. Init => TypeOK
  BY ConstantsAssumption DEF Init, TypeOK
<1> QED BY <1>1, TypeStep, PTL DEF Spec

-------------------------------------------------------------------------------
(* Leases *)

\* What keeps LeaseExclusive inductive: who has a lease, that a registered
\* lease is on a pooled process, and that an operation whose lease an exit
\* ended still pins the dead process, so no new process takes its place.
LeaseBook ==
  /\ LeaseExclusive
  /\ \A o \in Op : leaseProc[o] # NoProc <=> phase[o] \in {"holding", "done"}
  /\ \A p \in Proc : leases[p] # NoOp => os[p] \in Alive
  /\ \A o \in Op : phase[o] = "done" => o \in released
  /\ \A o \in Op : leaseProc[o] # NoProc => os[leaseProc[o]] # "unborn"
  /\ \A o \in Op :
       (phase[o] = "holding" /\ o \in released) => os[leaseProc[o]] = "gone"
  /\ \A o \in released : leaseProc[o] # NoProc

\* What a turn of prewarm's loop does to one process: nothing beyond the
\* segment it ends, or it is the new process, asked at most for its state.
LEMMA PrewarmLoopEffect ==
  ASSUME TypeOK, NEW n, NEW o, NEW pnd, NEW dec, NEW wrm,
         o \in [Proc -> OsState],
         pnd \in [Proc -> SUBSET Request],
         PrewarmLoop(n, o, pnd, dec, wrm),
         NEW q \in Proc
  PROVE  \/ /\ os'[q] = o[q]
            /\ pending'[q] = pnd[q]
            /\ executing'[q] = executing[q]
            /\ q \in decommissioning' <=> q \in dec
         \/ /\ Spawnable(q)
            /\ os'[q] = "running"
            /\ pending'[q] \subseteq {Probe}
            /\ executing'[q] = pending'[q]
            /\ q \notin decommissioning'
<1>1. CASE /\ os' = o /\ pending' = pnd /\ decommissioning' = dec
           /\ UNCHANGED executing
  BY <1>1
<1>2. CASE \E p \in Proc : LET probe == IF n > 1 THEN {Probe} ELSE {}
          IN /\ Spawn(p, DefaultCwd, o)
             /\ decommissioning' = dec \ {p}
             /\ pending'   = [pnd EXCEPT ![p] = probe]
             /\ executing' = [executing EXCEPT ![p] = probe]
  <2>1. PICK p \in Proc :
          /\ Spawnable(p)
          /\ os' = [o EXCEPT ![p] = "running"]
          /\ decommissioning' = dec \ {p}
          /\ pending'   = [pnd EXCEPT ![p] = IF n > 1 THEN {Probe} ELSE {}]
          /\ executing' = [executing EXCEPT ![p] = IF n > 1 THEN {Probe} ELSE {}]
    BY <1>2 DEF Spawn
  <2> QED BY <2>1 DEF TypeOK
<1> QED BY <1>1, <1>2 DEF PrewarmLoop, NoSpawn

\* A new process never takes the place of one that a lease still refers to.
LEMMA SpawnableIsFree ==
  ASSUME TypeOK, LeaseBook, NEW q \in Proc, Spawnable(q)
  PROVE  /\ os[q] \in {"unborn", "gone"}
         /\ leases[q] = NoOp
         /\ \A o \in Op : leaseProc[o] = q => phase[o] = "done" /\ o \in released
BY ConstantsAssumption DEF Spawnable, LeaseBook, LeaseExclusive, TypeOK

LEMMA SignalledEffect ==
  ASSUME NEW o \in [Proc -> OsState], NEW S, NEW q \in Proc
  PROVE  /\ Signalled(o, S)[q] \in Alive <=> o[q] \in Alive
         /\ Signalled(o, S)[q] = "gone" <=> o[q] = "gone"
         /\ Signalled(o, S)[q] = "unborn" <=> o[q] = "unborn"
         /\ q \in S => Signalled(o, S)[q] # "running"
         /\ o[q] # "running" => Signalled(o, S)[q] # "running"
BY DEF Signalled, OsState

\* A step that moves no lease and neither kills for good nor revives a process
\* somebody refers to keeps the book.
LEMMA BookKept ==
  ASSUME TypeOK, LeaseBook,
         UNCHANGED <<leases, leaseProc, released, phase>>,
         \A q \in Proc : \/ /\ os'[q] \in Alive <=> os[q] \in Alive
                            /\ os'[q] = "gone" <=> os[q] = "gone"
                            /\ os'[q] = "unborn" <=> os[q] = "unborn"
                         \/ Spawnable(q) /\ os'[q] = "running"
  PROVE  LeaseBook'
<1>1. LeaseExclusive'
  BY DEF LeaseBook, LeaseExclusive
<1>2. \A p \in Proc : leases'[p] # NoOp => os'[p] \in Alive
  BY DEF LeaseBook
<1>3. ASSUME NEW o \in Op, leaseProc[o] # NoProc
      PROVE os'[leaseProc[o]] # "unborn"
  BY <1>3 DEF LeaseBook, TypeOK
<1>4. ASSUME NEW o \in Op, phase[o] = "holding", o \in released
      PROVE os'[leaseProc[o]] = "gone"
  <2>1. leaseProc[o] \in Proc
    BY <1>4 DEF LeaseBook, TypeOK
  <2>2. ~Spawnable(leaseProc[o])
    BY <1>4, <2>1, SpawnableIsFree
  <2> QED BY <1>4, <2>1, <2>2 DEF LeaseBook
<1> QED BY <1>1, <1>2, <1>3, <1>4 DEF LeaseBook

\* The same for a turn of prewarm's loop that starts from the present states.
LEMMA PrewarmKeepsBook ==
  ASSUME TypeOK, LeaseBook, NEW n \in Int,
         NEW o \in [Proc -> OsState],
         NEW dec \in SUBSET Proc,
         NEW wrm \in [Proc -> Nat],
         PrewarmLoop(n, o, pending, dec, wrm),
         UNCHANGED <<leases, leaseProc, released, phase>>,
         \A q \in Proc : /\ o[q] \in Alive <=> os[q] \in Alive
                         /\ o[q] = "gone" <=> os[q] = "gone"
                         /\ o[q] = "unborn" <=> os[q] = "unborn"
  PROVE  LeaseBook'
<1>1. ASSUME NEW q \in Proc
      PROVE  \/ os'[q] = o[q]
             \/ Spawnable(q) /\ os'[q] = "running"
  <2>1. pending \in [Proc -> SUBSET Request]
    BY DEF TypeOK
  <2> QED BY <2>1, PrewarmLoopEffect
<1> QED BY <1>1, BookKept

\* A lease is granted only on a process that no unreleased lease refers to.
LEMMA GrantKeepsBook ==
  ASSUME TypeOK, LeaseBook, NEW o \in Op, NEW p \in Proc,
         phase[o] \in {"idle", "waiting"},
         leases[p] = NoOp, Reserve(o, p), UNCHANGED released,
         \/ IsAvailable(p) /\ UNCHANGED os
         \/ Spawnable(p) /\ os' = [os EXCEPT ![p] = "running"]
  PROVE  LeaseBook'
<1> USE ConstantsAssumption
<1>1. leaseProc[o] = NoProc /\ o \notin released /\ \A q \in Proc : leases[q] # o
  BY DEF LeaseBook, LeaseExclusive, TypeOK
<1>2. \A b \in Op : leaseProc[b] = p => b \in released
  BY DEF LeaseBook, LeaseExclusive
<1>3. os'[p] \in Alive /\ \A q \in Proc : q # p => os'[q] = os[q]
  BY DEF IsAvailable, Pooled, PooledIn, TypeOK
<1>4. LeaseExclusive'
  BY <1>1, <1>2 DEF LeaseBook, LeaseExclusive, Reserve, TypeOK
<1>5. \A q \in Proc : leases'[q] # NoOp => os'[q] \in Alive
  BY <1>3 DEF LeaseBook, Reserve, TypeOK
<1>6. ASSUME NEW b \in Op, leaseProc'[b] # NoProc
      PROVE  os'[leaseProc'[b]] # "unborn"
  BY <1>3, <1>6 DEF LeaseBook, Reserve, TypeOK
<1>7. ASSUME NEW b \in Op, phase'[b] = "holding", b \in released'
      PROVE  os'[leaseProc'[b]] = "gone"
  <2>1. b # o /\ phase[b] = "holding" /\ leaseProc[b] \in Proc
    BY <1>1, <1>7 DEF LeaseBook, Reserve, TypeOK
  <2>2. ~IsAvailable(p) \/ leaseProc[b] # p
    BY <1>7, <2>1 DEF LeaseBook, IsAvailable, Pooled, PooledIn
  <2>3. ~Spawnable(p) \/ leaseProc[b] # p
    BY <2>1, SpawnableIsFree
  <2> QED BY <1>3, <1>7, <2>1, <2>2, <2>3 DEF LeaseBook, Reserve, TypeOK
<1>8. \A b \in Op : leaseProc'[b] # NoProc <=> phase'[b] \in {"holding", "done"}
  BY DEF LeaseBook, Reserve, TypeOK
<1>9. \A b \in Op : phase'[b] = "done" => b \in released'
  BY DEF LeaseBook, Reserve, TypeOK
<1>10. \A b \in released' : leaseProc'[b] # NoProc
  BY <1>1 DEF LeaseBook, Reserve, TypeOK
<1> QED BY <1>4, <1>5, <1>6, <1>7, <1>8, <1>9, <1>10 DEF LeaseBook

\* Ending a lease, once or again, frees at most the process it is registered
\* for.
LEMMA ReleaseKeepsBook ==
  ASSUME TypeOK, LeaseBook, NEW o \in Op,
         phase[o] \in {"holding", "done"}, Release(o), UNCHANGED leaseProc,
         \A q \in Proc : /\ os'[q] \in Alive <=> os[q] \in Alive
                         /\ os'[q] = "gone" <=> os[q] = "gone"
                         /\ os'[q] = "unborn" <=> os[q] = "unborn"
  PROVE  LeaseBook'
<1> USE ConstantsAssumption
<1>1. leaseProc[o] \in Proc
  BY DEF LeaseBook, TypeOK
<1>2. LeaseExclusive'
  BY <1>1 DEF LeaseBook, LeaseExclusive, Release, Frees, TypeOK
<1>3. \A q \in Proc : leases'[q] # NoOp => os'[q] \in Alive
  BY <1>1 DEF LeaseBook, Release, TypeOK
<1>4. \A b \in Op : leaseProc'[b] # NoProc => os'[leaseProc'[b]] # "unborn"
  BY DEF LeaseBook, TypeOK
<1>5. ASSUME NEW b \in Op, phase'[b] = "holding", b \in released'
      PROVE  os'[leaseProc'[b]] = "gone"
  <2>1. phase[b] = "holding" /\ b \in released /\ leaseProc[b] \in Proc
    BY <1>5 DEF LeaseBook, Release, TypeOK
  <2> QED BY <2>1 DEF LeaseBook
<1>6. \A b \in Op : leaseProc'[b] # NoProc <=> phase'[b] \in {"holding", "done"}
  BY DEF LeaseBook, Release, TypeOK
<1>7. \A b \in Op : phase'[b] = "done" => b \in released'
  BY DEF LeaseBook, Release, TypeOK
<1>8. \A b \in released' : leaseProc'[b] # NoProc
  BY <1>1 DEF LeaseBook, Release, TypeOK
<1> QED BY <1>2, <1>3, <1>4, <1>5, <1>6, <1>7, <1>8 DEF LeaseBook

\* An exit ends the lease registered for the process, and only that one.
LEMMA FinalizeKeepsBook ==
  ASSUME TypeOK, LeaseBook, NEW p \in Proc, Finalize(p)
  PROVE  LeaseBook'
<1> USE ConstantsAssumption
<1> DEFINE g == [os EXCEPT ![p] = "gone"]
           pnd == [pending EXCEPT ![p] = {}]
<1>0. Needed(g) \in Int
  BY CountsAreNaturals
<1>1. g \in [Proc -> OsState] /\ Needed(g) \in Int
      /\ pnd \in [Proc -> SUBSET Request]
      /\ decommissioning \ {p} \in SUBSET Proc /\ warming \in [Proc -> Nat]
  BY <1>0 DEF TypeOK, OsState
<1>2. PrewarmLoop(Needed(g), g, pnd, decommissioning \ {p}, warming)
  BY DEF Finalize
<1> HIDE DEF g, pnd
<1>3. ASSUME NEW q \in Proc
      PROVE  os'[q] = g[q] \/ (Spawnable(q) /\ os'[q] = "running")
  BY <1>1, <1>2, PrewarmLoopEffect
<1> USE DEF g
<1>4. ~Spawnable(p) /\ os'[p] = "gone"
  BY <1>3 DEF Finalize, Spawnable, TypeOK
<1>5. \A q \in Proc :
        q # p => os'[q] = os[q] \/ (Spawnable(q) /\ os'[q] = "running")
  BY <1>3 DEF TypeOK
<1>6. /\ leases' = [leases EXCEPT ![p] = NoOp]
      /\ released' = released \cup ({leases[p]} \ {NoOp})
      /\ UNCHANGED <<phase, leaseProc>>
  BY DEF Finalize, EndedBy
<1>7. LeaseExclusive'
  BY <1>6 DEF LeaseBook, LeaseExclusive, TypeOK
<1>8. \A q \in Proc : leases'[q] # NoOp => os'[q] \in Alive
  BY <1>5, <1>6 DEF LeaseBook, TypeOK
<1>9. ASSUME NEW b \in Op, leaseProc'[b] # NoProc
      PROVE  os'[leaseProc'[b]] # "unborn"
  BY <1>4, <1>5, <1>6, <1>9 DEF LeaseBook, TypeOK
<1>10. ASSUME NEW b \in Op, phase'[b] = "holding", b \in released'
       PROVE  os'[leaseProc'[b]] = "gone"
  <2>1. phase[b] = "holding" /\ leaseProc[b] \in Proc /\ ~Spawnable(leaseProc[b])
    BY <1>6, <1>10, SpawnableIsFree DEF LeaseBook, TypeOK
  <2>2. CASE leaseProc[b] = p
    BY <1>4, <1>6, <2>2
  <2>3. CASE leaseProc[b] # p
    BY <1>5, <1>6, <1>10, <2>1, <2>3 DEF LeaseBook, LeaseExclusive, TypeOK
  <2> QED BY <2>2, <2>3
<1>11. \A b \in released' : leaseProc'[b] # NoProc
  BY <1>6 DEF LeaseBook, LeaseExclusive, TypeOK
<1> QED BY <1>6, <1>7, <1>8, <1>9, <1>10, <1>11 DEF LeaseBook

LEMMA BookStep == TypeOK /\ LeaseBook /\ [Next]_vars => LeaseBook'
<1> SUFFICES ASSUME TypeOK, LeaseBook, [Next]_vars PROVE LeaseBook'
  OBVIOUS
<1> USE ConstantsAssumption
<1>t. /\ os \in [Proc -> OsState]
      /\ decommissioning \in SUBSET Proc
      /\ warming \in [Proc -> Nat]
  BY DEF TypeOK, OsState
<1>1. ASSUME NEW o \in Op, NEW c \in Cwd, RequestProcess(o, c) PROVE LeaseBook'
  BY <1>1 DEF RequestProcess, LeaseBook, LeaseExclusive, TypeOK, procVars, poolVars
<1>2. ASSUME NEW o \in Op, RequestAnyProcess(o) PROVE LeaseBook'
  <2>1. ASSUME NEW p \in Proc, IsAvailable(p), Reserve(o, p), UNCHANGED procVars
        PROVE LeaseBook'
    BY <1>2, <2>1, GrantKeepsBook DEF RequestAnyProcess, IsAvailable, procVars
  <2>2. ASSUME phase' = [phase EXCEPT ![o] = "waiting"],
               UNCHANGED <<procVars, leases, leaseProc>>
        PROVE LeaseBook'
    BY <1>2, <2>2 DEF RequestAnyProcess, LeaseBook, LeaseExclusive, TypeOK, procVars
  <2> QED BY <1>2, <2>1, <2>2 DEF RequestAnyProcess
<1>3. ASSUME NEW o \in Op, NEW p \in Proc, AcquireIdle(o, p) PROVE LeaseBook'
  BY <1>3, GrantKeepsBook DEF AcquireIdle, IdleIn, IsAvailable, procVars
<1>4. ASSUME NEW o \in Op, NEW p \in Proc, AcquireSpawn(o, p) PROVE LeaseBook'
  BY <1>4, GrantKeepsBook, SpawnableIsFree DEF AcquireSpawn, Spawn
<1>5. ASSUME NEW o \in Op, NEW p \in Proc, Evict(o, p) PROVE LeaseBook'
  BY <1>5, <1>t, SignalledEffect, BookKept DEF Evict, opVars
<1>6. ASSUME NEW o \in Op, GiveUp(o) PROVE LeaseBook'
  BY <1>6 DEF GiveUp, CannotAcquire, LeaseBook, LeaseExclusive, TypeOK, procVars,
              poolVars
<1>7. ASSUME NEW o \in Op, Elapse(o) \/ SendRpc(o) PROVE LeaseBook'
  BY <1>7, BookKept DEF Elapse, SendRpc, procVars, poolVars
<1>8. ASSUME NEW p \in Proc, NEW r \in Request, Respond(p, r) PROVE LeaseBook'
  BY <1>8, BookKept DEF Respond, procVars, opVars
<1>9. ASSUME NEW p \in Proc, NEW r \in Request, TimeoutRpc(p, r) PROVE LeaseBook'
  BY <1>9, <1>t, SignalledEffect, BookKept DEF TimeoutRpc, opVars
<1>10. ASSUME NEW o \in Op, ReleaseLease(o) \/ AbandonStart(o) \/ HardKill(o)
       PROVE LeaseBook'
  <2>1. \A q \in Proc : /\ os'[q] \in Alive <=> os[q] \in Alive
                        /\ os'[q] = "gone" <=> os[q] = "gone"
                        /\ os'[q] = "unborn" <=> os[q] = "unborn"
    BY <1>10, <1>t, SignalledEffect DEF ReleaseLease, AbandonStart, HardKill
  <2> QED BY <1>10, <2>1, ReleaseKeepsBook DEF ReleaseLease, AbandonStart, HardKill
<1>11. CASE EnsurePool
  BY <1>11, <1>t, CountsAreNaturals, PrewarmKeepsBook DEF EnsurePool, opVars
<1>12. ASSUME NEW p \in Proc, ContinuePrewarm(p) PROVE LeaseBook'
  <2>1. warming[p] \in Int /\ [warming EXCEPT ![p] = 0] \in [Proc -> Nat]
    BY <1>t
  <2> QED BY <1>12, <1>t, <2>1, PrewarmKeepsBook DEF ContinuePrewarm, opVars
<1>13. ASSUME NEW p \in Proc, Exit(p) PROVE LeaseBook'
  BY <1>13, <1>t, BookKept DEF Exit, opVars
<1>14. ASSUME NEW p \in Proc, Finalize(p) PROVE LeaseBook'
  BY <1>14, FinalizeKeepsBook
<1>15. CASE RecycleWorkers
  BY <1>15, <1>t, SignalledEffect, BookKept DEF RecycleWorkers, AllKilled, opVars
<1>16. CASE ReloadProcesses
  <2>1. AllKilled \in [Proc -> OsState] /\ AllMarked \in SUBSET Proc
    BY <1>t, SignalledType
       DEF AllKilled, AllMarked, NewlyMarked, Pooled, PooledIn
  <2>2. \A q \in Proc : /\ AllKilled[q] \in Alive <=> os[q] \in Alive
                        /\ AllKilled[q] = "gone" <=> os[q] = "gone"
                        /\ AllKilled[q] = "unborn" <=> os[q] = "unborn"
    BY <1>t, SignalledEffect DEF AllKilled
  <2> QED BY <1>16, <1>t, <2>1, <2>2, CountsAreNaturals, PrewarmKeepsBook
          DEF ReloadProcesses, opVars
<1>17. CASE UNCHANGED vars
  BY <1>17, BookKept DEF vars, procVars, poolVars, opVars
<1> QED
  BY <1>1, <1>2, <1>3, <1>4, <1>5, <1>6, <1>7, <1>8, <1>9, <1>10, <1>11, <1>12,
     <1>13, <1>14, <1>15, <1>16, <1>17
     DEF Next, OpNext, AcquireStep, ProcNext

\* Two operations never own one process: an unreleased lease is always the one
\* registered for its process.
THEOREM LeasesAreExclusive == Spec => []LeaseExclusive
<1>1. Init => TypeOK /\ LeaseBook
  BY ConstantsAssumption DEF Init, TypeOK, LeaseBook, LeaseExclusive
<1>2. LeaseBook => LeaseExclusive
  BY DEF LeaseBook
<1> QED BY <1>1, <1>2, TypeStep, BookStep, PTL DEF Spec

-------------------------------------------------------------------------------
(* Capacity *)

\* A step that adds no process to those of a segment within capacity.
LEMMA FewerFit ==
  ASSUME NEW o, NEW s, PooledIn(s) \subseteq PooledIn(o), Total(o) <= MaxProcesses
  PROVE  Total(s) <= MaxProcesses
<1>1. /\ IsFiniteSet(PooledIn(o))
      /\ Total(o) \in Nat
      /\ Total(s) \in Nat
  BY CountsAreNaturals
<1>2. Total(s) <= Total(o)
  BY <1>1, FS_Subset DEF Total
<1> QED BY <1>1, <1>2, ConstantsAssumption

\* One more process fits where there is room.
LEMMA OneMoreFits ==
  ASSUME NEW o \in [Proc -> OsState], NEW p \in Proc, HasRoom(o)
  PROVE  Total([o EXCEPT ![p] = "running"]) <= MaxProcesses
<1> DEFINE s == [o EXCEPT ![p] = "running"]
<1>1. /\ IsFiniteSet(PooledIn(o))
      /\ Total(o) \in Nat
      /\ Total(s) \in Nat
  BY CountsAreNaturals
<1>2. PooledIn(s) = PooledIn(o) \cup {p}
  BY DEF PooledIn, OsState
<1>3. Cardinality(PooledIn(o) \cup {p}) \in {Cardinality(PooledIn(o)), Cardinality(PooledIn(o)) + 1}
  BY <1>1, FS_AddElement
<1>4. Total(s) <= Total(o) + 1
  <2>1. Total(s) = Cardinality(PooledIn(o) \cup {p})
    BY <1>2 DEF Total
  <2>2. Total(s) \in {Total(o), Total(o) + 1}
    BY <1>3, <2>1 DEF Total
  <2> QED BY <1>1, <2>2
<1> QED BY <1>1, <1>4, ConstantsAssumption DEF HasRoom

\* prewarm looks at the room before each of its spawns.
LEMMA PrewarmFits ==
  ASSUME NEW n \in Int, NEW o \in [Proc -> OsState], NEW pnd, NEW dec, NEW wrm,
         PrewarmLoop(n, o, pnd, dec, wrm), Total(o) <= MaxProcesses
  PROVE  Total(os') <= MaxProcesses
<1>1. CASE os' = o
  BY <1>1
<1>2. CASE MoreNeeded(n, o) /\ \E p \in Proc : os' = [o EXCEPT ![p] = "running"]
  BY <1>2, OneMoreFits DEF MoreNeeded
<1> QED BY <1>1, <1>2 DEF PrewarmLoop, NoSpawn, Spawn

LEMMA CapacityStep == TypeOK /\ CapacityRespected /\ [Next]_vars => CapacityRespected'
<1> SUFFICES ASSUME TypeOK, Total(os) <= MaxProcesses, [Next]_vars
             PROVE  Total(os') <= MaxProcesses
  BY DEF CapacityRespected
<1>t. /\ os \in [Proc -> OsState]
      /\ warming \in [Proc -> Nat]
  BY DEF TypeOK, OsState
<1>k. ASSUME NEW S PROVE Total(Signalled(os, S)) <= MaxProcesses
  <2>1. PooledIn(Signalled(os, S)) \subseteq PooledIn(os)
    BY <1>t, SignalledEffect DEF PooledIn
  <2> QED BY <2>1, FewerFit
<1>1. CASE os' = os
  BY <1>1
<1>2. CASE \E S : os' = Signalled(os, S)
  BY <1>2, <1>k
<1>3. ASSUME NEW o \in Op, NEW p \in Proc, AcquireSpawn(o, p)
      PROVE  Total(os') <= MaxProcesses
  BY <1>3, <1>t, OneMoreFits DEF AcquireSpawn, Spawn
<1>4. CASE EnsurePool
  BY <1>4, <1>t, CountsAreNaturals, PrewarmFits DEF EnsurePool
<1>5. ASSUME NEW p \in Proc, ContinuePrewarm(p) PROVE Total(os') <= MaxProcesses
  <2>1. warming[p] \in Int
    BY <1>t
  <2> QED BY <1>5, <1>t, <2>1, PrewarmFits DEF ContinuePrewarm
<1>6. ASSUME NEW p \in Proc, Exit(p) PROVE Total(os') <= MaxProcesses
  <2>1. PooledIn(os') \subseteq PooledIn(os)
    BY <1>6, <1>t DEF Exit, PooledIn
  <2> QED BY <2>1, FewerFit
<1>7. ASSUME NEW p \in Proc, Finalize(p) PROVE Total(os') <= MaxProcesses
  <2> DEFINE o == [os EXCEPT ![p] = "gone"]
  <2>1. o \in [Proc -> OsState] /\ Needed(o) \in Int
    BY <1>t, CountsAreNaturals DEF OsState
  <2>2. PooledIn(o) \subseteq PooledIn(os)
    BY <1>t DEF PooledIn
  <2>3. Total(o) <= MaxProcesses
    BY <2>2, FewerFit
  <2>4. PrewarmLoop(Needed(o), o, [pending EXCEPT ![p] = {}], decommissioning \ {p}, warming)
    BY <1>7 DEF Finalize
  <2> QED BY <2>1, <2>3, <2>4, PrewarmFits
<1>8. CASE ReloadProcesses
  <2>1. AllKilled \in [Proc -> OsState] /\ Total(AllKilled) <= MaxProcesses
    BY <1>t, <1>k, SignalledType DEF AllKilled
  <2> QED BY <1>8, <2>1, CountsAreNaturals, PrewarmFits DEF ReloadProcesses
<1>9. ASSUME NEW o \in Op, OpNext(o), \A p \in Proc : ~AcquireSpawn(o, p)
      PROVE  os' = os \/ \E S : os' = Signalled(os, S)
  <2>1. CASE \E c \in Cwd : RequestProcess(o, c)
    BY <2>1 DEF RequestProcess, procVars
  <2>2. CASE RequestAnyProcess(o)
    BY <2>2 DEF RequestAnyProcess, procVars
  <2>3. CASE \E p \in Proc : AcquireIdle(o, p)
    BY <2>3 DEF AcquireIdle, procVars
  <2>4. CASE \E p \in Proc : Evict(o, p)
    BY <2>4 DEF Evict
  <2>5. CASE GiveUp(o) \/ Elapse(o) \/ SendRpc(o)
    BY <2>5 DEF GiveUp, Elapse, SendRpc, procVars
  <2>6. CASE ReleaseLease(o) \/ AbandonStart(o) \/ HardKill(o)
    BY <2>6 DEF ReleaseLease, AbandonStart, HardKill
  <2> QED BY <1>9, <2>1, <2>2, <2>3, <2>4, <2>5, <2>6 DEF OpNext, AcquireStep
<1>10. ASSUME NEW p \in Proc, NEW r \in Request, Respond(p, r) \/ TimeoutRpc(p, r)
       PROVE  os' = os \/ \E S : os' = Signalled(os, S)
  BY <1>10 DEF Respond, TimeoutRpc, procVars
<1>11. CASE RecycleWorkers
  BY <1>11, <1>2 DEF RecycleWorkers, AllKilled
<1>12. CASE UNCHANGED vars
  BY <1>12, <1>1 DEF vars, procVars
<1> QED BY <1>1, <1>2, <1>3, <1>4, <1>5, <1>6, <1>7, <1>8, <1>9, <1>10, <1>11, <1>12
        DEF Next, ProcNext

\* The pool never runs more processes than maxProcesses, concurrent prewarms,
\* acquisitions and replacements after an exit included.
THEOREM CapacityHolds == Spec => []CapacityRespected
<1>1. Init => CapacityRespected
  <2> SUFFICES ASSUME Init PROVE Total(os) <= MaxProcesses
    BY DEF CapacityRespected
  <2>1. PooledIn(os) = {}
    BY DEF Init, PooledIn
  <2>2. Total(os) = 0
    BY <2>1, FS_EmptySet DEF Total
  <2> QED BY <2>2, ConstantsAssumption
<1> QED BY <1>1, TypeCorrect, CapacityStep, PTL DEF Spec

-------------------------------------------------------------------------------
(* Decommissioned processes *)

\* A step that stops what it marks or releases.
LEMMA DoomedKept ==
  ASSUME TypeOK, DoomedIdleIsSignalled,
         \A q \in Proc :
           \/ q \notin decommissioning'
           \/ os'[q] # "running"
           \/ leases'[q] # NoOp
           \/ os'[q] = os[q] /\ q \in decommissioning /\ leases[q] = NoOp
  PROVE  DoomedIdleIsSignalled'
BY DEF DoomedIdleIsSignalled, Pooled, PooledIn

\* A turn of prewarm's loop brings back no marked process.
LEMMA PrewarmDoesNotRevive ==
  ASSUME TypeOK, NEW n \in Int,
         NEW o \in [Proc -> OsState],
         NEW pnd \in [Proc -> SUBSET Request],
         NEW dec \in SUBSET Proc,
         NEW wrm \in [Proc -> Nat],
         PrewarmLoop(n, o, pnd, dec, wrm),
         NEW q \in Proc
  PROVE  q \in decommissioning' => os'[q] = o[q] /\ q \in dec
BY PrewarmLoopEffect

\* decommissionAll signals every process it marks, unless it is leased.
LEMMA AllMarkedAreKilled ==
  ASSUME TypeOK, NEW q \in Proc, q \in AllMarked
  PROVE  \/ AllKilled[q] # "running"
         \/ leases[q] # NoOp
         \/ AllKilled[q] = os[q] /\ q \in decommissioning
BY DEF AllMarked, AllKilled, NewlyMarked, Unleased, Signalled, TypeOK

LEMMA DoomedStep ==
  TypeOK /\ LeaseBook /\ DoomedIdleIsSignalled /\ [Next]_vars => DoomedIdleIsSignalled'
<1> SUFFICES ASSUME TypeOK, LeaseBook, DoomedIdleIsSignalled, [Next]_vars
             PROVE  DoomedIdleIsSignalled'
  OBVIOUS
<1> USE ConstantsAssumption
<1>t. /\ os \in [Proc -> OsState]
      /\ decommissioning \in SUBSET Proc
      /\ warming \in [Proc -> Nat]
      /\ pending \in [Proc -> SUBSET Request]
      /\ leases \in [Proc -> Op \cup {NoOp}]
  BY DEF TypeOK, OsState
<1>1. CASE UNCHANGED <<os, decommissioning, leases>>
  BY <1>1, DoomedKept
<1>2. ASSUME NEW o \in Op, NEW p \in Proc, Reserve(o, p), UNCHANGED <<os, decommissioning>>
      PROVE  DoomedIdleIsSignalled'
  BY <1>2, <1>t, DoomedKept DEF Reserve
<1>3. ASSUME NEW o \in Op, NEW p \in Proc, AcquireSpawn(o, p) PROVE DoomedIdleIsSignalled'
  <2>1. \A q \in Proc : q # p => /\ os'[q] = os[q]
                                 /\ leases'[q] = leases[q]
                                 /\ q \in decommissioning' <=> q \in decommissioning
    BY <1>3, <1>t DEF AcquireSpawn, Spawn, Reserve
  <2>2. p \notin decommissioning'
    BY <1>3 DEF AcquireSpawn
  <2> QED BY <2>1, <2>2, DoomedKept
<1>4. ASSUME NEW o \in Op, NEW p \in Proc, Evict(o, p) PROVE DoomedIdleIsSignalled'
  BY <1>4, <1>t, DoomedKept DEF Evict, Signalled
<1>5. ASSUME NEW p \in Proc, NEW r \in Request, TimeoutRpc(p, r)
      PROVE  DoomedIdleIsSignalled'
  BY <1>5, <1>t, DoomedKept DEF TimeoutRpc, Signalled, NewlyMarked, Unleased
<1>6. ASSUME NEW o \in Op, ReleaseLease(o) PROVE DoomedIdleIsSignalled'
  <2>1. leaseProc[o] \in Proc
    BY <1>6 DEF ReleaseLease, TypeOK
  <2> QED BY <1>6, <1>t, <2>1, DoomedKept DEF ReleaseLease, Release, KilledOnRelease, Signalled
<1>7. ASSUME NEW o \in Op, AbandonStart(o) \/ HardKill(o) PROVE DoomedIdleIsSignalled'
  <2>1. leaseProc[o] \in Proc
    BY <1>7 DEF AbandonStart, HardKill, LeaseBook, TypeOK
  <2>2. \A q \in Proc : q # leaseProc[o] => /\ os'[q] = os[q]
                                            /\ leases'[q] = leases[q]
                                            /\ q \in decommissioning' => q \in decommissioning
    BY <1>7, <1>t, <2>1 DEF AbandonStart, HardKill, Release, Signalled
  <2>3. os'[leaseProc[o]] # "running"
    BY <1>7, <1>t, <2>1 DEF AbandonStart, HardKill, Signalled
  <2> QED BY <2>1, <2>2, <2>3, DoomedKept
<1>8. CASE EnsurePool
  BY <1>8, <1>t, CountsAreNaturals, PrewarmDoesNotRevive, DoomedKept DEF EnsurePool
<1>9. ASSUME NEW p \in Proc, ContinuePrewarm(p) PROVE DoomedIdleIsSignalled'
  <2>1. warming[p] \in Int /\ [warming EXCEPT ![p] = 0] \in [Proc -> Nat]
    BY <1>t
  <2>2. PrewarmLoop(warming[p], os, pending, decommissioning, [warming EXCEPT ![p] = 0])
    BY <1>9 DEF ContinuePrewarm
  <2>3. \A q \in Proc : q \in decommissioning' => os'[q] = os[q] /\ q \in decommissioning
    BY <1>t, <2>1, <2>2, PrewarmDoesNotRevive
  <2> QED BY <1>9, <2>3, DoomedKept DEF ContinuePrewarm
<1>10. ASSUME NEW p \in Proc, Exit(p) PROVE DoomedIdleIsSignalled'
  BY <1>10, <1>t, DoomedKept DEF Exit
<1>11. ASSUME NEW p \in Proc, Finalize(p) PROVE DoomedIdleIsSignalled'
  <2> DEFINE o == [os EXCEPT ![p] = "gone"]
             pnd == [pending EXCEPT ![p] = {}]
  <2>1. /\ o \in [Proc -> OsState]
        /\ pnd \in [Proc -> SUBSET Request]
        /\ decommissioning \ {p} \in SUBSET Proc
        /\ Needed(o) \in Int
    BY <1>t, CountsAreNaturals DEF OsState
  <2>2. PrewarmLoop(Needed(o), o, pnd, decommissioning \ {p}, warming)
    BY <1>11 DEF Finalize
  <2>3. \A q \in Proc : q \in decommissioning' => os'[q] = o[q] /\ q \in decommissioning \ {p}
    BY <1>t, <2>1, <2>2, PrewarmDoesNotRevive
  <2>4. \A q \in Proc : q # p => leases'[q] = leases[q]
    BY <1>11, <1>t DEF Finalize
  <2> QED BY <1>t, <2>3, <2>4, DoomedKept
<1>12. CASE RecycleWorkers
  BY <1>12, AllMarkedAreKilled, DoomedKept DEF RecycleWorkers
<1>13. CASE ReloadProcesses
  <2>1. AllKilled \in [Proc -> OsState] /\ AllMarked \in SUBSET Proc
    BY <1>t, SignalledType DEF AllKilled, AllMarked, NewlyMarked, Pooled, PooledIn
  <2>2. \A q \in Proc : q \in decommissioning' => os'[q] = AllKilled[q] /\ q \in AllMarked
    BY <1>13, <1>t, <2>1, CountsAreNaturals, PrewarmDoesNotRevive DEF ReloadProcesses
  <2> QED BY <1>13, <2>2, AllMarkedAreKilled, DoomedKept DEF ReloadProcesses
<1>14. ASSUME NEW o \in Op, OpNext(o)
       PROVE  \/ UNCHANGED <<os, decommissioning, leases>>
              \/ \E p \in Proc : Reserve(o, p) /\ UNCHANGED <<os, decommissioning>>
              \/ \E p \in Proc : AcquireSpawn(o, p) \/ Evict(o, p)
              \/ ReleaseLease(o) \/ AbandonStart(o) \/ HardKill(o)
  <2>1. CASE \E c \in Cwd : RequestProcess(o, c)
    BY <2>1 DEF RequestProcess, procVars, poolVars
  <2>2. CASE RequestAnyProcess(o)
    BY <2>2 DEF RequestAnyProcess, procVars
  <2>3. CASE \E p \in Proc : AcquireIdle(o, p)
    BY <2>3 DEF AcquireIdle, procVars
  <2>4. CASE GiveUp(o) \/ Elapse(o) \/ SendRpc(o)
    BY <2>4 DEF GiveUp, Elapse, SendRpc, procVars, poolVars
  <2> QED BY <1>14, <2>1, <2>2, <2>3, <2>4 DEF OpNext, AcquireStep
<1>15. ASSUME NEW p \in Proc, NEW r \in Request, Respond(p, r)
       PROVE  UNCHANGED <<os, decommissioning, leases>>
  BY <1>15 DEF Respond, procVars
<1>16. CASE UNCHANGED vars
  BY <1>16, <1>1 DEF vars, procVars, poolVars
<1> QED
  BY <1>1, <1>2, <1>3, <1>4, <1>5, <1>6, <1>7, <1>8, <1>9, <1>10, <1>11, <1>12,
     <1>13, <1>14, <1>15, <1>16
     DEF Next, ProcNext

\* A decommissioned process that nobody holds has been told to stop, whichever
\* of a timeout, an eviction, a reload, a hard kill and a release came last.
THEOREM DoomedIsSignalled == Spec => []DoomedIdleIsSignalled
<1>1. Init => TypeOK /\ LeaseBook /\ DoomedIdleIsSignalled
  BY ConstantsAssumption
     DEF Init, TypeOK, LeaseBook, LeaseExclusive, DoomedIdleIsSignalled, Pooled, PooledIn
<1> QED BY <1>1, TypeStep, BookStep, DoomedStep, PTL DEF Spec

-------------------------------------------------------------------------------
(* Commands *)

\* A command of o that its caller awaits on the process it holds.
IsCurrent(p, r) ==
  /\ r \in pending[p]
  /\ \E o \in Op : r = <<o, sent[o]>> /\ leases[p] = o

\* What pi works on, and on which process: the command its holder awaits, or
\* one given up on a process that is marked.
CommandsOf(p) ==
  /\ executing[p] # {} => os[p] \in {"running", "signalled"}
  /\ \A r \in executing[p] : r # Probe => p \in decommissioning \/ IsCurrent(p, r)

CommandBook == \A p \in Proc : CommandsOf(p)

\* The commands of a process stay in order if they stay current or it is marked,
\* or if there are none.
LEMMA CommandsKept ==
  ASSUME NEW q \in Proc, CommandsOf(q),
         executing'[q] # {} => os'[q] \in {"running", "signalled"},
         \/ /\ executing'[q] \subseteq executing[q]
            /\ \/ q \in decommissioning'
               \/ /\ q \notin decommissioning
                  /\ \A r \in executing'[q] : IsCurrent(q, r) => IsCurrent(q, r)'
         \/ executing'[q] \subseteq {Probe}
  PROVE  CommandsOf(q)'
BY DEF CommandsOf

\* A turn of prewarm's loop, from a segment that ends no command on a live process.
LEMMA PrewarmKeepsCommands ==
  ASSUME TypeOK, NEW n \in Int,
         NEW o \in [Proc -> OsState],
         NEW pnd \in [Proc -> SUBSET Request],
         NEW dec \in SUBSET Proc,
         NEW wrm \in [Proc -> Nat],
         PrewarmLoop(n, o, pnd, dec, wrm), UNCHANGED sent,
         NEW q \in Proc, CommandsOf(q),
         executing[q] # {} =>
           /\ o[q] \in {"running", "signalled"}
           /\ pnd[q] = pending[q]
           /\ leases'[q] = leases[q]
           /\ q \in decommissioning => q \in dec
  PROVE  CommandsOf(q)'
<1>1. CASE /\ os'[q] = o[q]
           /\ pending'[q] = pnd[q]
           /\ executing'[q] = executing[q]
           /\ q \in decommissioning' <=> q \in dec
  <2>1. CASE executing[q] = {}
    BY <1>1, <2>1, CommandsKept
  <2>2. CASE executing[q] # {}
    <3>1. \A r \in executing'[q] : IsCurrent(q, r) => IsCurrent(q, r)'
      BY <1>1, <2>2 DEF IsCurrent
    <3> QED BY <1>1, <2>2, <3>1, CommandsKept
  <2> QED BY <2>1, <2>2
<1>2. CASE /\ os'[q] = "running"
           /\ pending'[q] \subseteq {Probe}
           /\ executing'[q] = pending'[q]
  BY <1>2, CommandsKept
<1>3. \/ /\ os'[q] = o[q]
         /\ pending'[q] = pnd[q]
         /\ executing'[q] = executing[q]
         /\ q \in decommissioning' <=> q \in dec
      \/ /\ os'[q] = "running"
         /\ pending'[q] \subseteq {Probe}
         /\ executing'[q] = pending'[q]
  BY PrewarmLoopEffect
<1> QED BY <1>1, <1>2, <1>3

\* A command is sent to the process of the lease, if that process still lives.
LEMMA SendKeepsCommands ==
  ASSUME TypeOK, LeaseBook, NEW o \in Op, SendRpc(o), NEW q \in Proc, CommandsOf(q)
  PROVE  CommandsOf(q)'
<1>r. PICK r : r = <<o, sent[o] + 1>>
  OBVIOUS
<1> DEFINE p == leaseProc[o]
<1>1. /\ phase[o] = "holding"
      /\ ~Awaiting(o)
      /\ sent' = [sent EXCEPT ![o] = @ + 1]
      /\ pending' = [pending EXCEPT ![p] = @ \cup {r}]
      /\ executing' = IF os[p] \in {"running", "signalled"}
                      THEN [executing EXCEPT ![p] = @ \cup {r}]
                      ELSE executing
      /\ UNCHANGED <<os, leases, decommissioning>>
  BY <1>r DEF SendRpc, procVars
<1>2. p \in Proc
  BY <1>1 DEF LeaseBook, TypeOK
<1>3. ASSUME NEW s \in executing[q], IsCurrent(q, s) PROVE IsCurrent(q, s)'
  <2>1. PICK b \in Op : s = <<b, sent[b]>> /\ leases[q] = b /\ s \in pending[q]
    BY <1>3 DEF IsCurrent
  <2>2. b # o
    BY <1>1, <2>1 DEF Awaiting
  <2>3. s \in pending'[q]
    BY <1>1, <1>2, <2>1 DEF TypeOK
  <2>4. s = <<b, sent'[b]>> /\ leases'[q] = b
    BY <1>1, <2>1, <2>2 DEF TypeOK
  <2> QED BY <2>3, <2>4 DEF IsCurrent
<1>4. CASE executing'[q] = executing[q]
  BY <1>1, <1>3, <1>4 DEF CommandsOf
<1>5. CASE /\ os[q] \in {"running", "signalled"}
           /\ q = p
           /\ executing'[q] = executing[q] \cup {r}
  <2>1. leases[q] = o
    BY <1>1, <1>2, <1>5 DEF LeaseBook, LeaseExclusive
  <2>2. r \in pending'[q] /\ r = <<o, sent'[o]>> /\ leases'[q] = o
    BY <1>r, <1>1, <1>2, <1>5, <2>1 DEF TypeOK
  <2>3. IsCurrent(q, r)'
    BY <2>2 DEF IsCurrent
  <2> QED BY <1>1, <1>3, <1>5, <2>3 DEF CommandsOf
<1> QED BY <1>1, <1>2, <1>4, <1>5 DEF TypeOK

\* A lease ends when its holder awaits nothing, or with its process marked.
LEMMA ReleaseKeepsCommands ==
  ASSUME TypeOK, LeaseBook, NEW o \in Op, Release(o),
         leaseProc[o] \in Proc,
         UNCHANGED <<executing, pending, sent>>,
         decommissioning \subseteq decommissioning',
         NEW q \in Proc, CommandsOf(q),
         os[q] \in {"running", "signalled"} => os'[q] \in {"running", "signalled"},
         /\ Awaiting(o)
         /\ q = leaseProc[o]
         /\ os[q] \in {"running", "signalled"}
         => q \in decommissioning'
  PROVE  CommandsOf(q)'
<1>1. executing'[q] # {} => os'[q] \in {"running", "signalled"}
  BY DEF CommandsOf
<1>2. ASSUME NEW r \in executing'[q], r # Probe, q \notin decommissioning'
      PROVE  IsCurrent(q, r)'
  <2>1. IsCurrent(q, r)
    BY <1>2 DEF CommandsOf
  <2>2. PICK b \in Op : r = <<b, sent[b]>> /\ leases[q] = b /\ r \in pending[q]
    BY <2>1 DEF IsCurrent
  <2>3. CASE leases'[q] = leases[q]
    <3>1. r \in pending'[q] /\ r = <<b, sent'[b]>> /\ leases'[q] = b
      BY <2>2, <2>3
    <3> QED BY <3>1 DEF IsCurrent
  <2>4. CASE leases'[q] # leases[q]
    <3>1. q = leaseProc[o] /\ b = o
      BY <2>2, <2>4 DEF Release, Frees, TypeOK
    <3>2. Awaiting(o)
      BY <2>2, <3>1 DEF Awaiting
    <3>3. os[q] \in {"running", "signalled"}
      BY <1>2 DEF CommandsOf
    <3> QED BY <1>2, <3>1, <3>2, <3>3
  <2> QED BY <2>3, <2>4
<1> QED BY <1>1, <1>2 DEF CommandsOf

\* A signal leaves a process that runs or dies in the operating system there.
LEMMA SignalledStays ==
  ASSUME NEW o \in [Proc -> OsState], NEW S, NEW q \in Proc,
         o[q] \in {"running", "signalled"}
  PROVE  Signalled(o, S)[q] \in {"running", "signalled"}
BY DEF Signalled

\* A step that touches no command and no lease, and takes no marker away.
LEMMA UntouchedCommands ==
  ASSUME NEW q \in Proc, CommandsOf(q),
         executing'[q] \subseteq executing[q],
         UNCHANGED <<leases, sent>>,
         os[q] \in {"running", "signalled"} => os'[q] \in {"running", "signalled"},
         decommissioning \subseteq decommissioning',
         \/ q \in decommissioning'
         \/ \A r \in executing'[q] \cap pending[q] : r \in pending'[q]
  PROVE  CommandsOf(q)'
<1>1. executing'[q] # {} => os'[q] \in {"running", "signalled"}
  BY DEF CommandsOf
<1>2. ASSUME NEW r \in executing'[q], r # Probe, q \notin decommissioning'
      PROVE  IsCurrent(q, r)'
  <2>1. r \in executing[q] /\ IsCurrent(q, r)
    BY <1>2 DEF CommandsOf
  <2>2. r \in pending'[q]
    BY <1>2, <2>1 DEF IsCurrent
  <2> QED BY <2>1, <2>2 DEF IsCurrent
<1> QED BY <1>1, <1>2 DEF CommandsOf

\* A lease is granted on an idle process, or on a new one.
LEMMA GrantKeepsCommands ==
  ASSUME TypeOK, NEW o \in Op, NEW p \in Proc,
         leases' = [leases EXCEPT ![p] = o],
         UNCHANGED <<pending, executing, sent>>,
         \/ IsAvailable(p) /\ UNCHANGED <<os, decommissioning>>
         \/ /\ executing[p] = {}
            /\ os' = [os EXCEPT ![p] = "running"]
            /\ decommissioning' = decommissioning \ {p},
         NEW q \in Proc, CommandsOf(q)
  PROVE  CommandsOf(q)'
<1>1. CASE q = p
  <2>1. executing'[q] \subseteq {Probe}
    BY <1>1, ConstantsAssumption DEF CommandsOf, IsAvailable, IsCurrent, TypeOK
  <2>2. executing'[q] # {} => os'[q] \in {"running", "signalled"}
    BY <1>1 DEF CommandsOf
  <2> QED BY <2>1, <2>2 DEF CommandsOf
<1>2. CASE q # p
  <2>1. /\ os'[q] = os[q]
        /\ leases'[q] = leases[q]
        /\ q \in decommissioning' <=> q \in decommissioning
    BY <1>2 DEF TypeOK
  <2>2. \A r \in executing[q] : IsCurrent(q, r) => IsCurrent(q, r)'
    BY <2>1 DEF IsCurrent
  <2> QED BY <2>1, <2>2, CommandsKept DEF CommandsOf
<1> QED BY <1>1, <1>2

LEMMA CommandStep ==
  TypeOK /\ LeaseBook /\ CommandBook /\ [Next]_vars => CommandBook'
<1> SUFFICES ASSUME TypeOK, LeaseBook, CommandBook, [Next]_vars, NEW q \in Proc
             PROVE  CommandsOf(q)'
  BY DEF CommandBook
<1> USE ConstantsAssumption
<1>c. CommandsOf(q)
  BY DEF CommandBook
<1>t. /\ os \in [Proc -> OsState]
      /\ decommissioning \in SUBSET Proc
      /\ warming \in [Proc -> Nat]
      /\ pending \in [Proc -> SUBSET Request]
      /\ executing \in [Proc -> SUBSET Request]
      /\ leases \in [Proc -> Op \cup {NoOp}]
  BY DEF TypeOK, OsState
<1>1. CASE UNCHANGED <<os, decommissioning, leases, pending, executing, sent>>
  BY <1>1, <1>c, UntouchedCommands
<1>2. ASSUME NEW o \in Op, NEW p \in Proc, Reserve(o, p), IsAvailable(p),
             UNCHANGED <<os, decommissioning, pending, executing, sent>>
      PROVE  CommandsOf(q)'
  BY <1>2, <1>c, GrantKeepsCommands DEF Reserve
<1>3. ASSUME NEW o \in Op, NEW p \in Proc, AcquireSpawn(o, p) PROVE CommandsOf(q)'
  <2>1. os[p] \in {"unborn", "gone"}
    BY <1>3, SpawnableIsFree DEF AcquireSpawn, Spawn
  <2>2. executing[p] = {}
    BY <2>1 DEF CommandBook, CommandsOf
  <2> QED BY <1>3, <1>c, <2>2, GrantKeepsCommands DEF AcquireSpawn, Spawn, Reserve
<1>4. ASSUME NEW o \in Op, NEW p \in Proc, Evict(o, p) PROVE CommandsOf(q)'
  BY <1>4, <1>c, <1>t, SignalledStays, UntouchedCommands DEF Evict, opVars
<1>5. ASSUME NEW o \in Op, SendRpc(o) PROVE CommandsOf(q)'
  BY <1>5, <1>c, SendKeepsCommands
<1>6. ASSUME NEW p \in Proc, NEW r \in Request, Respond(p, r) PROVE CommandsOf(q)'
  <2>1. /\ executing'[q] \subseteq executing[q]
        /\ \A s \in executing'[q] \cap pending[q] : s \in pending'[q]
    BY <1>6, <1>t DEF Respond, Settles
  <2> QED BY <1>6, <1>c, <2>1, UntouchedCommands DEF Respond, procVars, opVars
<1>7. ASSUME NEW p \in Proc, NEW r \in Request, TimeoutRpc(p, r)
      PROVE  CommandsOf(q)'
  <2>1. os[q] \in {"running", "signalled"} => os'[q] \in {"running", "signalled"}
    BY <1>7, <1>t, SignalledStays DEF TimeoutRpc
  <2>2. /\ UNCHANGED <<leases, sent, executing>>
        /\ decommissioning \subseteq decommissioning'
        /\ pending' = [pending EXCEPT ![p] = @ \ {r}]
    BY <1>7 DEF TimeoutRpc, opVars
  <2>3. CASE q # p
    BY <1>c, <1>t, <2>1, <2>2, <2>3, UntouchedCommands
  <2>4. CASE q = p /\ executing[q] = {}
    BY <1>c, <2>1, <2>2, <2>4, UntouchedCommands
  <2>5. CASE q = p /\ executing[q] # {}
    <3>1. NullExitCode(q)
      BY <1>c, <2>5 DEF CommandsOf, NullExitCode
    <3>2. q \in decommissioning'
      BY <1>7, <2>5, <3>1 DEF TimeoutRpc, NewlyMarked
    <3> QED BY <1>c, <2>1, <2>2, <3>2, UntouchedCommands
  <2> QED BY <2>3, <2>4, <2>5
<1>8. ASSUME NEW o \in Op, ReleaseLease(o) \/ AbandonStart(o) PROVE CommandsOf(q)'
  <2>1. leaseProc[o] \in Proc
    BY <1>8 DEF ReleaseLease, AbandonStart, LeaseBook, TypeOK
  <2>2. os[q] \in {"running", "signalled"} => os'[q] \in {"running", "signalled"}
    BY <1>8, <1>t, SignalledStays DEF ReleaseLease, AbandonStart
  <2>3. Release(o) /\ ~Awaiting(o)
    BY <1>8 DEF ReleaseLease, AbandonStart
  <2>4. UNCHANGED <<executing, pending, sent, decommissioning>>
    BY <1>8 DEF ReleaseLease, AbandonStart
  <2> QED BY <1>c, <2>1, <2>2, <2>3, <2>4, ReleaseKeepsCommands
<1>9. ASSUME NEW o \in Op, HardKill(o) PROVE CommandsOf(q)'
  <2>1. leaseProc[o] \in Proc
    BY <1>9 DEF HardKill, LeaseBook, TypeOK
  <2>2. os[q] \in {"running", "signalled"} => os'[q] \in {"running", "signalled"}
    BY <1>9, <1>t, SignalledStays DEF HardKill
  <2>3. /\ Release(o)
        /\ UNCHANGED <<executing, pending, sent>>
        /\ decommissioning \subseteq decommissioning'
    BY <1>9 DEF HardKill
  <2>4. q = leaseProc[o] /\ os[q] \in {"running", "signalled"} => q \in decommissioning'
    BY <1>9 DEF HardKill, NullExitCode
  <2> QED BY <1>c, <2>1, <2>2, <2>3, <2>4, ReleaseKeepsCommands
<1>10. CASE EnsurePool
  BY <1>10, <1>c, <1>t, CountsAreNaturals, PrewarmKeepsCommands
     DEF EnsurePool, CommandsOf, opVars
<1>11. ASSUME NEW p \in Proc, ContinuePrewarm(p) PROVE CommandsOf(q)'
  <2>1. warming[p] \in Int /\ [warming EXCEPT ![p] = 0] \in [Proc -> Nat]
    BY <1>t
  <2>2. /\ PrewarmLoop(warming[p], os, pending, decommissioning, [warming EXCEPT ![p] = 0])
        /\ UNCHANGED <<leases, sent>>
    BY <1>11 DEF ContinuePrewarm, opVars
  <2>3. executing[q] # {} => os[q] \in {"running", "signalled"}
    BY <1>c DEF CommandsOf
  <2> QED BY <1>c, <1>t, <2>1, <2>2, <2>3, PrewarmKeepsCommands
<1>12. ASSUME NEW p \in Proc, Exit(p) PROVE CommandsOf(q)'
  <2>1. CASE q = p
    BY <1>12, <1>t, <2>1 DEF Exit, CommandsOf
  <2>2. CASE q # p
    <3>1. executing'[q] = executing[q] /\ os'[q] = os[q]
      BY <1>12, <1>t, <2>2 DEF Exit
    <3> QED BY <1>12, <1>c, <3>1, UntouchedCommands DEF Exit, opVars
  <2> QED BY <2>1, <2>2
<1>13. ASSUME NEW p \in Proc, Finalize(p) PROVE CommandsOf(q)'
  <2> DEFINE o == [os EXCEPT ![p] = "gone"]
             pnd == [pending EXCEPT ![p] = {}]
  <2>1. /\ o \in [Proc -> OsState]
        /\ pnd \in [Proc -> SUBSET Request]
        /\ decommissioning \ {p} \in SUBSET Proc
        /\ Needed(o) \in Int
    BY <1>t, CountsAreNaturals DEF OsState
  <2>2. /\ PrewarmLoop(Needed(o), o, pnd, decommissioning \ {p}, warming)
        /\ UNCHANGED sent
    BY <1>13 DEF Finalize
  <2>3. ASSUME executing[q] # {}
        PROVE  /\ o[q] \in {"running", "signalled"}
               /\ pnd[q] = pending[q]
               /\ leases'[q] = leases[q]
               /\ q \in decommissioning => q \in decommissioning \ {p}
    <3>1. q # p /\ os[q] \in {"running", "signalled"}
      BY <1>13, <1>c, <2>3 DEF Finalize, CommandsOf
    <3> QED BY <1>13, <1>t, <3>1 DEF Finalize
  <2> HIDE DEF o, pnd
  <2> QED BY <1>c, <1>t, <2>1, <2>2, <2>3, PrewarmKeepsCommands
<1>14. CASE RecycleWorkers
  BY <1>14, <1>c, <1>t, SignalledStays, UntouchedCommands
     DEF RecycleWorkers, AllMarked, AllKilled, opVars
<1>15. CASE ReloadProcesses
  <2>1. AllKilled \in [Proc -> OsState] /\ AllMarked \in SUBSET Proc
    BY <1>t, SignalledType DEF AllKilled, AllMarked, NewlyMarked, Pooled, PooledIn
  <2>2. /\ PrewarmLoop(Needed(os), AllKilled, pending, AllMarked, warming)
        /\ UNCHANGED <<leases, sent>>
    BY <1>15 DEF ReloadProcesses, opVars
  <2>3. executing[q] # {} => AllKilled[q] \in {"running", "signalled"}
    BY <1>c, <1>t, SignalledStays DEF CommandsOf, AllKilled
  <2>4. q \in decommissioning => q \in AllMarked
    BY DEF AllMarked
  <2> QED BY <1>c, <1>t, <2>1, <2>2, <2>3, <2>4, CountsAreNaturals, PrewarmKeepsCommands
<1>16. ASSUME NEW o \in Op, OpNext(o)
       PROVE  \/ UNCHANGED <<os, decommissioning, leases, pending, executing, sent>>
              \/ \E p \in Proc : /\ Reserve(o, p)
                                 /\ IsAvailable(p)
                                 /\ UNCHANGED <<os, decommissioning, pending, executing, sent>>
              \/ \E p \in Proc : AcquireSpawn(o, p) \/ Evict(o, p)
              \/ SendRpc(o) \/ ReleaseLease(o) \/ AbandonStart(o) \/ HardKill(o)
  <2>1. CASE \E c \in Cwd : RequestProcess(o, c)
    BY <2>1 DEF RequestProcess, procVars, poolVars
  <2>2. CASE RequestAnyProcess(o)
    BY <2>2 DEF RequestAnyProcess, procVars
  <2>3. CASE \E p \in Proc : AcquireIdle(o, p)
    BY <2>3 DEF AcquireIdle, IdleIn, procVars
  <2>4. CASE GiveUp(o) \/ Elapse(o)
    BY <2>4 DEF GiveUp, Elapse, procVars, poolVars
  <2> QED BY <1>16, <2>1, <2>2, <2>3, <2>4 DEF OpNext, AcquireStep
<1>17. CASE UNCHANGED vars
  BY <1>17, <1>1 DEF vars, procVars, poolVars, opVars
<1> QED
  BY <1>1, <1>2, <1>3, <1>4, <1>5, <1>6, <1>7, <1>8, <1>9, <1>10, <1>11, <1>12,
     <1>13, <1>14, <1>15, <1>16, <1>17
     DEF Next, ProcNext

\* An operation never starts on a process that still works on the command of
\* an earlier one: a holder that gives up on a command leaves the marker behind.
THEOREM IdleStaysQuiet == Spec => []IdleIsQuiet
<1>1. Init => TypeOK /\ LeaseBook /\ CommandBook
  BY ConstantsAssumption
     DEF Init, TypeOK, LeaseBook, LeaseExclusive, CommandBook, CommandsOf
<1>2. TypeOK /\ CommandBook => IdleIsQuiet
  BY ConstantsAssumption
     DEF IdleIsQuiet, IsAvailable, CommandBook, CommandsOf, IsCurrent, TypeOK
<1> QED BY <1>1, <1>2, TypeStep, BookStep, CommandStep, PTL DEF Spec

\* A process that nobody holds works on nothing, and if it is doomed it has been
\* told: it can be leased or it leaves (ProcessPool.releaseLease).
THEOREM IdleStaysOrderly == Spec => []IdleIsOrderly
<1>1. IdleIsQuiet /\ DoomedIdleIsSignalled => IdleIsOrderly
  BY DEF IdleIsOrderly
<1> QED BY <1>1, IdleStaysQuiet, DoomedIsSignalled, PTL

-------------------------------------------------------------------------------
(* Answers *)

\* Nothing is asked of a process that does not exist yet.
UnbornIsUnknown ==
  \A p \in Proc : os[p] = "unborn" => pending[p] = {} /\ p \notin bySignal

\* What may end a caller's wait for r.
Ended(p, r) ==
  \/ r \in executing[p] \ executing'[p]
  \/ p \in decommissioning'
  \/ os'[p] = "gone"

\* A turn of prewarm's loop asks only the process it starts.
LEMMA PrewarmAnswersNothing ==
  ASSUME TypeOK, UnbornIsUnknown, NEW n, NEW o, NEW pnd, NEW dec, NEW wrm,
         o \in [Proc -> OsState],
         pnd \in [Proc -> SUBSET Request],
         PrewarmLoop(n, o, pnd, dec, wrm),
         NEW q \in Proc,
         o[q] = "unborn" => os[q] = "unborn",
         pnd[q] \in {pending[q], {}}
  PROVE  /\ os'[q] = "unborn" => pending'[q] = {} /\ q \notin bySignal'
         /\ \/ os'[q] = o[q] /\ pending'[q] = pnd[q]
            \/ pending[q] = {}
<1>1. CASE /\ os' = o /\ pending' = pnd /\ UNCHANGED bySignal
  BY <1>1 DEF UnbornIsUnknown
<1>2. ASSUME NEW p \in Proc, NEW probe, Spawnable(p),
             os' = [o EXCEPT ![p] = "running"],
             bySignal' = bySignal \ {p},
             pending' = [pnd EXCEPT ![p] = probe]
      PROVE  /\ os'[q] = "unborn" => pending'[q] = {} /\ q \notin bySignal'
             /\ \/ os'[q] = o[q] /\ pending'[q] = pnd[q]
                \/ pending[q] = {}
  <2>1. pending[p] = {}
    BY <1>2 DEF Spawnable, UnbornIsUnknown
  <2> QED BY <1>2, <2>1 DEF UnbornIsUnknown
<1> QED BY <1>1, <1>2 DEF PrewarmLoop, NoSpawn, Spawn

LEMMA AnswerStep ==
  ASSUME TypeOK, UnbornIsUnknown, [Next]_vars
  PROVE  /\ UnbornIsUnknown'
         /\ \A p \in Proc : \A r \in pending[p] \ pending'[p] : Ended(p, r)
<1> DEFINE Good(q) ==
      /\ os'[q] = "unborn" => pending'[q] = {} /\ q \notin bySignal'
      /\ \A r \in pending[q] \ pending'[q] : Ended(q, r)
<1> SUFFICES ASSUME NEW q \in Proc PROVE Good(q)
  BY DEF UnbornIsUnknown
<1>t. /\ os \in [Proc -> OsState]
      /\ decommissioning \in SUBSET Proc
      /\ warming \in [Proc -> Nat]
      /\ pending \in [Proc -> SUBSET Request]
      /\ executing \in [Proc -> SUBSET Request]
  BY ConstantsAssumption DEF TypeOK, OsState
<1>k. \A S : /\ Signalled(os, S) \in [Proc -> OsState]
             /\ Signalled(os, S)[q] = "unborn" <=> os[q] = "unborn"
  BY <1>t, SignalledEffect, SignalledType
<1>1. CASE UNCHANGED <<pending, bySignal>> /\ (os'[q] = "unborn" => os[q] = "unborn")
  BY <1>1 DEF UnbornIsUnknown
<1>2. ASSUME NEW o \in Op, NEW p \in Proc, AcquireSpawn(o, p) PROVE Good(q)
  BY <1>2, <1>t DEF AcquireSpawn, Spawn, UnbornIsUnknown
<1>3. ASSUME NEW o \in Op, SendRpc(o) PROVE Good(q)
  <2>1. os[leaseProc[o]] # "unborn" \/ leaseProc[o] \notin Proc
    BY <1>3 DEF SendRpc, NullExitCode, UnbornIsUnknown
  <2>2. /\ UNCHANGED <<os, bySignal>>
        /\ pending' = [pending EXCEPT ![leaseProc[o]] = @ \cup {<<o, sent[o] + 1>>}]
    BY <1>3 DEF SendRpc, procVars
  <2> QED BY <1>t, <2>1, <2>2 DEF UnbornIsUnknown
<1>4. ASSUME NEW p \in Proc, NEW r \in Request, Respond(p, r) PROVE Good(q)
  <2>1. /\ UNCHANGED <<os, bySignal>>
        /\ pending' = [pending EXCEPT ![p] = @ \ {r}]
        /\ executing' = [executing EXCEPT ![p] = @ \ {r}]
        /\ r \in executing[p]
    BY <1>4 DEF Respond, Settles, procVars
  <2> QED BY <1>t, <2>1 DEF UnbornIsUnknown, Ended
<1>5. ASSUME NEW p \in Proc, NEW r \in Request, TimeoutRpc(p, r) PROVE Good(q)
  <2>1. /\ UNCHANGED bySignal
        /\ r \in pending[p]
        /\ pending' = [pending EXCEPT ![p] = @ \ {r}]
        /\ os' = Signalled(os, Unleased(NewlyMarked({p})))
    BY <1>5 DEF TimeoutRpc
  <2>2. os'[q] = "unborn" => pending'[q] = {} /\ q \notin bySignal'
    BY <1>t, <1>k, <2>1 DEF UnbornIsUnknown
  <2>3. q = p => q \in decommissioning' \/ os'[q] = "gone"
    <3>1. CASE NullExitCode(p)
      BY <1>5, <3>1 DEF TimeoutRpc, NewlyMarked
    <3>2. CASE ~NullExitCode(p)
      BY <1>t, <2>1, <3>2, SignalledEffect DEF NullExitCode, UnbornIsUnknown, OsState
    <3> QED BY <3>1, <3>2
  <2>4. q # p => pending'[q] = pending[q]
    BY <1>t, <2>1
  <2> QED BY <2>2, <2>3, <2>4 DEF Ended
<1>6. CASE EnsurePool
  <2>1. PrewarmLoop(Needed(os), os, pending, decommissioning, warming) /\ Needed(os) \in Int
    BY <1>6, CountsAreNaturals DEF EnsurePool
  <2>2. /\ os'[q] = "unborn" => pending'[q] = {} /\ q \notin bySignal'
        /\ pending'[q] = pending[q] \/ pending[q] = {}
    BY <1>t, <2>1, PrewarmAnswersNothing
  <2> QED BY <2>2
<1>7. ASSUME NEW p \in Proc, ContinuePrewarm(p) PROVE Good(q)
  <2> DEFINE n == warming[p]
             wrm == [warming EXCEPT ![p] = 0]
  <2>1. n \in Int /\ wrm \in [Proc -> Nat]
    BY <1>t
  <2>2. PrewarmLoop(n, os, pending, decommissioning, wrm)
    BY <1>7 DEF ContinuePrewarm
  <2> HIDE DEF n, wrm
  <2>3. /\ os'[q] = "unborn" => pending'[q] = {} /\ q \notin bySignal'
        /\ pending'[q] = pending[q] \/ pending[q] = {}
    BY <1>t, <2>1, <2>2, PrewarmAnswersNothing
  <2> QED BY <2>3
<1>8. ASSUME NEW p \in Proc, Exit(p) PROVE Good(q)
  BY <1>8, <1>t DEF Exit, UnbornIsUnknown
<1>9. ASSUME NEW p \in Proc, Finalize(p) PROVE Good(q)
  <2> DEFINE o == [os EXCEPT ![p] = "gone"]
             pnd == [pending EXCEPT ![p] = {}]
             dec == decommissioning \ {p}
             need == Needed(o)
  <2>1. /\ o \in [Proc -> OsState]
        /\ pnd \in [Proc -> SUBSET Request]
        /\ dec \in SUBSET Proc
        /\ need \in Int
    BY <1>t, CountsAreNaturals DEF OsState
  <2>2. PrewarmLoop(need, o, pnd, dec, warming)
    BY <1>9 DEF Finalize
  <2>3. /\ o[q] = "unborn" => os[q] = "unborn"
        /\ pnd[q] = pending[q] \/ (pnd[q] = {} /\ o[q] = "gone")
    BY <1>t
  <2>5. pnd[q] \in {pending[q], {}}
    BY <2>3
  <2> HIDE DEF o, pnd, dec, need
  <2>4. /\ os'[q] = "unborn" => pending'[q] = {} /\ q \notin bySignal'
        /\ (os'[q] = o[q] /\ pending'[q] = pnd[q]) \/ pending[q] = {}
    BY <1>t, <2>1, <2>2, <2>3, <2>5, PrewarmAnswersNothing
  <2> QED BY <2>3, <2>4 DEF Ended
<1>10. CASE ReloadProcesses
  <2> DEFINE n == Needed(os)
  <2>1. AllKilled \in [Proc -> OsState] /\ AllMarked \in SUBSET Proc
    BY <1>t, <1>k DEF AllKilled, AllMarked, NewlyMarked, Pooled, PooledIn
  <2>2. PrewarmLoop(n, AllKilled, pending, AllMarked, warming)
    BY <1>10 DEF ReloadProcesses
  <2>3. n \in Int /\ (AllKilled[q] = "unborn" => os[q] = "unborn")
    BY <1>k, CountsAreNaturals DEF AllKilled
  <2> HIDE DEF n
  <2>4. /\ os'[q] = "unborn" => pending'[q] = {} /\ q \notin bySignal'
        /\ pending'[q] = pending[q] \/ pending[q] = {}
    BY <1>t, <2>1, <2>2, <2>3, PrewarmAnswersNothing
  <2> QED BY <2>4
<1>11. CASE RecycleWorkers
  BY <1>11, <1>1, <1>k DEF RecycleWorkers, AllKilled
<1>12. ASSUME NEW o \in Op, OpNext(o)
       PROVE  \/ UNCHANGED <<pending, bySignal>> /\ (os'[q] = "unborn" => os[q] = "unborn")
              \/ \E p \in Proc : AcquireSpawn(o, p)
              \/ SendRpc(o)
  <2>1. CASE \E c \in Cwd : RequestProcess(o, c)
    BY <2>1 DEF RequestProcess, procVars, poolVars
  <2>2. CASE RequestAnyProcess(o)
    BY <2>2 DEF RequestAnyProcess, procVars
  <2>3. CASE \E p \in Proc : AcquireIdle(o, p)
    BY <2>3 DEF AcquireIdle, procVars
  <2>4. CASE GiveUp(o) \/ Elapse(o)
    BY <2>4 DEF GiveUp, Elapse, procVars, poolVars
  <2>5. CASE \E p \in Proc : Evict(o, p)
    BY <2>5, <1>k DEF Evict
  <2>6. CASE ReleaseLease(o) \/ AbandonStart(o) \/ HardKill(o)
    BY <2>6, <1>k DEF ReleaseLease, AbandonStart, HardKill
  <2> QED BY <1>12, <2>1, <2>2, <2>3, <2>4, <2>5, <2>6 DEF OpNext, AcquireStep
<1>13. CASE UNCHANGED vars
  BY <1>13, <1>1 DEF vars, procVars, poolVars
<1> QED
  BY <1>1, <1>2, <1>3, <1>4, <1>5, <1>6, <1>7, <1>8, <1>9, <1>10, <1>11, <1>12, <1>13
     DEF Next, ProcNext

\* No caller of sendRpc is answered but by pi finishing its own command, or
\* because the process is marked or has ended.
THEOREM AnswersMatch == Spec => AnswersMatchRequests
<1>1. Init => TypeOK /\ UnbornIsUnknown
  BY ConstantsAssumption DEF Init, TypeOK, UnbornIsUnknown
<1>2. TypeOK /\ UnbornIsUnknown /\ [Next]_vars =>
        /\ UnbornIsUnknown'
        /\ [\A p \in Proc : \A r \in pending[p] \ pending'[p] :
               \/ r \in executing[p] \ executing'[p]
               \/ p \in decommissioning'
               \/ os'[p] = "gone"]_vars
  BY AnswerStep DEF Ended
<1> QED BY <1>1, <1>2, TypeStep, PTL DEF Spec, AnswersMatchRequests

-------------------------------------------------------------------------------
(***************************************************************************)
(* The pool implements the contract of leased processes: every step of the *)
(* code is a step of the contract, or one it does not see.                 *)
(***************************************************************************)
\* What the contract sees of the pool.
Doomed == decommissioning \cap Pooled
Used   == {o \in Op : leaseProc[o] # NoProc}

\* At most one process starts in the segment.
OneNew(new) == /\ new \subseteq Proc \ Pooled
               /\ \A p, q \in new : p = q

-------------------------------------------------------------------------------
(* Lemmas *)

\* A turn of prewarm's loop adds at most one process, which is not marked.
LEMMA PrewarmRefills ==
  ASSUME TypeOK, NEW n \in Int,
         NEW o \in [Proc -> OsState],
         NEW pnd \in [Proc -> SUBSET Request],
         NEW dec \in SUBSET Proc,
         NEW wrm \in [Proc -> Nat],
         PrewarmLoop(n, o, pnd, dec, wrm),
         PooledIn(o) \subseteq Pooled
  PROVE  \E new \in SUBSET (Proc \ Pooled) :
            /\ OneNew(new)
            /\ Pooled' = PooledIn(o) \cup new
            /\ Doomed' = dec \cap PooledIn(o)
<1>1. CASE os' = o /\ decommissioning' = dec
  <2>1. Pooled' = PooledIn(o) \cup {} /\ Doomed' = dec \cap PooledIn(o) /\ OneNew({})
    BY <1>1 DEF Pooled, PooledIn, Doomed, OneNew
  <2> QED BY <2>1
<1>2. ASSUME NEW p \in Proc, Spawnable(p),
             os' = [o EXCEPT ![p] = "running"],
             decommissioning' = dec \ {p}
      PROVE  \E new \in SUBSET (Proc \ Pooled) :
                /\ OneNew(new)
                /\ Pooled' = PooledIn(o) \cup new
                /\ Doomed' = dec \cap PooledIn(o)
  <2>1. p \notin Pooled
    BY <1>2 DEF Spawnable, Pooled, PooledIn
  <2>2. Pooled' = PooledIn(o) \cup {p}
    BY <1>2 DEF Pooled, PooledIn
  <2>3. Doomed' = dec \cap PooledIn(o)
    BY <1>2, <2>1, <2>2 DEF Doomed
  <2>4. OneNew({p})
    BY <2>1 DEF OneNew
  <2> QED BY <2>1, <2>2, <2>3, <2>4
<1> QED BY <1>1, <1>2 DEF PrewarmLoop, NoSpawn, Spawn

\* Signals take no process out of the pool.
LEMMA SignalsKeepPool ==
  ASSUME TypeOK, NEW S
  PROVE  PooledIn(Signalled(os, S)) = Pooled
BY SignalledEffect DEF TypeOK, OsState, Pooled, PooledIn

\* A step that the contract does not see.
LEMMA Unseen ==
  ASSUME UNCHANGED <<leases, leaseProc>>, Pooled' = Pooled, Doomed' = Doomed
  PROVE  [Contract!Next]_(Contract!vars)
BY DEF Contract!vars, Doomed

\* A step that marks the processes of S and may start a new one.
LEMMA Dooms ==
  ASSUME NEW S \in SUBSET Pooled, NEW new \in SUBSET (Proc \ Pooled), OneNew(new),
         Pooled' = Pooled \cup new,
         Doomed' = Doomed \cup S,
         UNCHANGED <<leases, leaseProc>>
  PROVE  Contract!Next
<1>1. Contract!Doom(S)
  BY DEF Contract!Doom, Contract!Refill, Doomed, OneNew
<1> QED BY <1>1 DEF Contract!Next

\* A step that marks the processes of S and starts none.
LEMMA OnlyDooms ==
  ASSUME NEW S \in SUBSET Pooled,
         Pooled' = Pooled, Doomed' = Doomed \cup S,
         UNCHANGED <<leases, leaseProc>>
  PROVE  Contract!Next
<1>1. OneNew({})
  BY DEF OneNew
<1> QED BY <1>1, Dooms, Pooled' = Pooled \cup {}

\* A lease is granted on an idle process or on a new one.
LEMMA Grants ==
  ASSUME TypeOK, LeaseBook, NEW o \in Op, NEW p \in Proc, Reserve(o, p),
         phase[o] \in {"idle", "waiting"},
         \/ IsAvailable(p) /\ UNCHANGED <<os, decommissioning>>
         \/ /\ Spawnable(p)
            /\ os' = [os EXCEPT ![p] = "running"]
            /\ decommissioning' = decommissioning \ {p}
  PROVE  Contract!Next
<1> USE ConstantsAssumption
<1>1. o \notin Used
  BY DEF Used, LeaseBook
<1>2. leases[p] = NoOp /\ (p \in Pooled \ Doomed \/ p \notin Pooled)
  BY SpawnableIsFree DEF IsAvailable, Pooled, PooledIn, Doomed
<1>3. Pooled' = Pooled \cup {p}
  BY DEF Pooled, PooledIn, IsAvailable, TypeOK
<1>4. Doomed' = Doomed
  BY <1>3, SpawnableIsFree DEF Doomed, IsAvailable, Pooled, PooledIn
<1>5. leases' = [leases EXCEPT ![p] = o] /\ Used' = Used \cup {o}
  BY DEF Reserve, Used, TypeOK
<1>6. Contract!Grant(p, o)
  BY <1>1, <1>2, <1>3, <1>4, <1>5 DEF Contract!Grant, Doomed, Used
<1> QED BY <1>6 DEF Contract!Next

\* A release gives the process back, perhaps marked; a late one does nothing.
LEMMA Returns ==
  ASSUME TypeOK, LeaseBook, NEW o \in Op, Release(o), UNCHANGED leaseProc,
         leaseProc[o] \in Proc, Pooled' = Pooled,
         \/ UNCHANGED decommissioning
         \/ /\ phase[o] = "holding"
            /\ decommissioning' \ {leaseProc[o]} = decommissioning \ {leaseProc[o]}
            /\ decommissioning \subseteq decommissioning'
  PROVE  [Contract!Next]_(Contract!vars)
<1> USE ConstantsAssumption
<1>1. CASE Frees(o)
  <2>1. /\ leases[leaseProc[o]] # NoOp
        /\ leases' = [leases EXCEPT ![leaseProc[o]] = NoOp]
    BY <1>1 DEF Frees, Release
  <2>2. Doomed' \in {Doomed, Doomed \cup {leaseProc[o]}}
    BY DEF Doomed
  <2>3. Contract!Return(leaseProc[o])
    BY <2>1, <2>2 DEF Contract!Return, Doomed
  <2> QED BY <2>3 DEF Contract!Next
<1>2. CASE ~Frees(o)
  <2>1. leases' = leases
    BY <1>2 DEF Release
  <2>2. CASE UNCHANGED decommissioning
    BY <2>1, <2>2, Unseen DEF Doomed
  <2>3. CASE phase[o] = "holding"
    <3>1. leaseProc[o] \notin Pooled
      BY <1>2, <2>3 DEF LeaseBook, LeaseExclusive, Frees, Pooled, PooledIn
    <3>2. Doomed' = Doomed
      BY <3>1 DEF Doomed
    <3> QED BY <2>1, <3>2, Unseen
  <2> QED BY <2>2, <2>3
<1> QED BY <1>1, <1>2

-------------------------------------------------------------------------------
(* The simulation *)

LEMMA ContractStep ==
  TypeOK /\ LeaseBook /\ [Next]_vars => [Contract!Next]_(Contract!vars)
<1> SUFFICES ASSUME TypeOK, LeaseBook, [Next]_vars
             PROVE  [Contract!Next]_(Contract!vars)
  OBVIOUS
<1> USE ConstantsAssumption
<1>t. /\ os \in [Proc -> OsState]
      /\ decommissioning \in SUBSET Proc
      /\ warming \in [Proc -> Nat]
      /\ pending \in [Proc -> SUBSET Request]
      /\ leases \in [Proc -> Op \cup {NoOp}]
  BY DEF TypeOK, OsState
<1>s. \A S : os' = Signalled(os, S) => Pooled' = Pooled
  BY SignalsKeepPool DEF Pooled
<1>1. CASE UNCHANGED <<os, decommissioning, leases, leaseProc>>
  BY <1>1, Unseen DEF Doomed, Pooled, PooledIn
<1>2. ASSUME NEW o \in Op, NEW p \in Proc, Reserve(o, p), IsAvailable(p),
             phase[o] \in {"idle", "waiting"}, UNCHANGED <<os, decommissioning>>
      PROVE  Contract!Next
  BY <1>2, Grants
<1>3. ASSUME NEW o \in Op, NEW p \in Proc, AcquireSpawn(o, p) PROVE Contract!Next
  BY <1>3, Grants DEF AcquireSpawn, Spawn
<1>4. ASSUME NEW o \in Op, NEW p \in Proc, Evict(o, p) PROVE Contract!Next
  <2>1. p \in Pooled /\ Pooled' = Pooled /\ UNCHANGED <<leases, leaseProc>>
    BY <1>4, <1>s DEF Evict, IsAvailable, opVars
  <2>2. Doomed' = Doomed \cup {p}
    BY <1>4, <2>1 DEF Evict, Doomed
  <2> QED BY <2>1, <2>2, OnlyDooms
<1>5. ASSUME NEW p \in Proc, NEW r \in Request, TimeoutRpc(p, r)
      PROVE  Contract!Next
  <2>1. Pooled' = Pooled /\ UNCHANGED <<leases, leaseProc>>
    BY <1>5, <1>s DEF TimeoutRpc, opVars
  <2>2. Doomed' = Doomed \cup (NewlyMarked({p}) \cap Pooled)
    BY <1>5, <2>1 DEF TimeoutRpc, Doomed
  <2> QED BY <2>1, <2>2, OnlyDooms
<1>6. ASSUME NEW o \in Op, ReleaseLease(o) PROVE [Contract!Next]_(Contract!vars)
  <2>1. leaseProc[o] \in Proc /\ Release(o) /\ UNCHANGED <<leaseProc, decommissioning>>
    BY <1>6 DEF ReleaseLease, TypeOK
  <2>2. Pooled' = Pooled
    BY <1>6, <1>s DEF ReleaseLease, Pooled, PooledIn
  <2> QED BY <2>1, <2>2, Returns
<1>7. ASSUME NEW o \in Op, AbandonStart(o) \/ HardKill(o)
      PROVE  [Contract!Next]_(Contract!vars)
  <2>1. /\ leaseProc[o] \in Proc
        /\ Release(o)
        /\ UNCHANGED leaseProc
        /\ phase[o] = "holding"
    BY <1>7 DEF AbandonStart, HardKill, LeaseBook, TypeOK
  <2>2. Pooled' = Pooled
    BY <1>7, <1>s DEF AbandonStart, HardKill
  <2>3. /\ decommissioning' \ {leaseProc[o]} = decommissioning \ {leaseProc[o]}
        /\ decommissioning \subseteq decommissioning'
    BY <1>7 DEF AbandonStart, HardKill
  <2> QED BY <2>1, <2>2, <2>3, Returns
<1>8. CASE EnsurePool
  <2>1. PICK new \in SUBSET (Proc \ Pooled) :
          OneNew(new) /\ Pooled' = Pooled \cup new /\ Doomed' = Doomed
    BY <1>8, <1>t, CountsAreNaturals, PrewarmRefills DEF EnsurePool, Pooled, Doomed
  <2> QED BY <1>8, <2>1, Dooms, Doomed = Doomed \cup {} DEF EnsurePool, opVars
<1>9. ASSUME NEW p \in Proc, ContinuePrewarm(p) PROVE Contract!Next
  <2>1. warming[p] \in Int /\ [warming EXCEPT ![p] = 0] \in [Proc -> Nat]
    BY <1>t
  <2>2. /\ PrewarmLoop(warming[p], os, pending, decommissioning, [warming EXCEPT ![p] = 0])
        /\ UNCHANGED <<leases, leaseProc>>
    BY <1>9 DEF ContinuePrewarm, opVars
  <2>3. PICK new \in SUBSET (Proc \ Pooled) :
          OneNew(new) /\ Pooled' = Pooled \cup new /\ Doomed' = Doomed
    BY <1>t, <2>1, <2>2, PrewarmRefills DEF Pooled, Doomed
  <2> QED BY <2>2, <2>3, Dooms, Doomed = Doomed \cup {}
<1>10. ASSUME NEW p \in Proc, Exit(p) PROVE [Contract!Next]_(Contract!vars)
  <2>1. Pooled' = Pooled
    BY <1>10, <1>t DEF Exit, Pooled, PooledIn
  <2> QED BY <1>10, <2>1, Unseen DEF Exit, Doomed, opVars
<1>11. ASSUME NEW p \in Proc, Finalize(p) PROVE Contract!Next
  <2> DEFINE o == [os EXCEPT ![p] = "gone"]
             pnd == [pending EXCEPT ![p] = {}]
  <2>1. /\ o \in [Proc -> OsState]
        /\ pnd \in [Proc -> SUBSET Request]
        /\ decommissioning \ {p} \in SUBSET Proc
        /\ Needed(o) \in Int
    BY <1>t, CountsAreNaturals DEF OsState
  <2>2. /\ PrewarmLoop(Needed(o), o, pnd, decommissioning \ {p}, warming)
        /\ leases' = [leases EXCEPT ![p] = NoOp]
        /\ UNCHANGED leaseProc
    BY <1>11 DEF Finalize
  <2>3. p \in Pooled /\ PooledIn(o) = Pooled \ {p}
    BY <1>11, <1>t DEF Finalize, Pooled, PooledIn
  <2> HIDE DEF o, pnd
  <2>4. PICK new \in SUBSET (Proc \ Pooled) :
          /\ OneNew(new)
          /\ Pooled' = (Pooled \ {p}) \cup new
          /\ Doomed' = (decommissioning \ {p}) \cap (Pooled \ {p})
    BY <1>t, <2>1, <2>2, <2>3, PrewarmRefills
  <2>5. Doomed' = Doomed \ {p}
    BY <2>4 DEF Doomed
  <2>6. Contract!Leave(p)
    BY <2>2, <2>3, <2>4, <2>5 DEF Contract!Leave, Contract!Refill, Doomed, OneNew
  <2> QED BY <2>6 DEF Contract!Next
<1>12. CASE RecycleWorkers
  <2>1. Pooled' = Pooled /\ UNCHANGED <<leases, leaseProc>>
    BY <1>12, <1>s DEF RecycleWorkers, AllKilled, opVars
  <2>2. Doomed' = Doomed \cup (AllMarked \cap Pooled)
    BY <1>12, <2>1 DEF RecycleWorkers, AllMarked, Doomed
  <2> QED BY <2>1, <2>2, OnlyDooms
<1>13. CASE ReloadProcesses
  <2>1. AllKilled \in [Proc -> OsState] /\ AllMarked \in SUBSET Proc
    BY <1>t, SignalledType DEF AllKilled, AllMarked, NewlyMarked, Pooled, PooledIn
  <2>2. /\ PrewarmLoop(Needed(os), AllKilled, pending, AllMarked, warming)
        /\ UNCHANGED <<leases, leaseProc>>
    BY <1>13 DEF ReloadProcesses, opVars
  <2>3. PooledIn(AllKilled) = Pooled
    BY SignalsKeepPool DEF AllKilled
  <2>4. PICK new \in SUBSET (Proc \ Pooled) :
          /\ OneNew(new)
          /\ Pooled' = Pooled \cup new
          /\ Doomed' = AllMarked \cap Pooled
    BY <1>t, <2>1, <2>2, <2>3, CountsAreNaturals, PrewarmRefills
  <2>5. Doomed' = Doomed \cup (AllMarked \cap Pooled)
    BY <2>4 DEF AllMarked, Doomed
  <2> QED BY <2>2, <2>4, <2>5, Dooms
<1>14. ASSUME NEW o \in Op, OpNext(o)
       PROVE  \/ UNCHANGED <<os, decommissioning, leases, leaseProc>>
              \/ \E p \in Proc : /\ Reserve(o, p)
                                 /\ IsAvailable(p)
                                 /\ phase[o] \in {"idle", "waiting"}
                                 /\ UNCHANGED <<os, decommissioning>>
              \/ \E p \in Proc : AcquireSpawn(o, p) \/ Evict(o, p)
              \/ ReleaseLease(o) \/ AbandonStart(o) \/ HardKill(o)
  <2>1. CASE \E c \in Cwd : RequestProcess(o, c)
    BY <2>1 DEF RequestProcess, procVars, poolVars
  <2>2. CASE RequestAnyProcess(o)
    BY <2>2 DEF RequestAnyProcess, procVars
  <2>3. CASE \E p \in Proc : AcquireIdle(o, p)
    BY <2>3 DEF AcquireIdle, IdleIn, procVars
  <2>4. CASE GiveUp(o) \/ Elapse(o) \/ SendRpc(o)
    BY <2>4 DEF GiveUp, Elapse, SendRpc, procVars, poolVars
  <2> QED BY <1>14, <2>1, <2>2, <2>3, <2>4 DEF OpNext, AcquireStep
<1>15. ASSUME NEW p \in Proc, NEW r \in Request, Respond(p, r)
       PROVE  UNCHANGED <<os, decommissioning, leases, leaseProc>>
  BY <1>15 DEF Respond, procVars, opVars
<1>16. CASE UNCHANGED vars
  BY <1>16, <1>1 DEF vars, procVars, poolVars, opVars
<1> QED
  BY <1>1, <1>2, <1>3, <1>4, <1>5, <1>6, <1>7, <1>8, <1>9, <1>10, <1>11, <1>12,
     <1>13, <1>14, <1>15, <1>16
     DEF Next, ProcNext

\* Callers may rely on the contract instead of the pool's code: a process has
\* one holder, keeps it until that holder or the process ends, and is never
\* leased again once it is marked.
THEOREM PoolImplementsContract == Spec => ImplementsContract
<1>1. Init => Contract!Init
  BY DEF Init, Contract!Init, Pooled, PooledIn
<1>2. Init => TypeOK /\ LeaseBook
  BY ConstantsAssumption DEF Init, TypeOK, LeaseBook, LeaseExclusive
<1> QED BY <1>1, <1>2, TypeStep, BookStep, ContractStep, PTL
        DEF Spec, ImplementsContract, Contract!Spec

===============================================================================
