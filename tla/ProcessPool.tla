------------------------------ MODULE ProcessPool ------------------------------
(***************************************************************************)
(* The leased pool of `pi` RPC subprocesses (src/server/process-pool.ts)   *)
(* together with its callers: the acquire loops and direct leases of       *)
(* src/server/ws-handler.ts and the prewarm-on-exit wiring of              *)
(* src/server/server.ts.                                                   *)
(*                                                                         *)
(* JavaScript runs to completion between awaits, so an action is one       *)
(* synchronous segment: everything the code does from one await, timer or  *)
(* child-process event to the next.                                        *)
(*                                                                         *)
(* Abstractions.  Which of several idle processes `find` returns, and the  *)
(* order in which pi answers, are left open.  What an RPC does is left     *)
(* out; whether pi is still working on it is not.  A process object that   *)
(* has exited and that nobody refers to any more is garbage, and its       *)
(* element of Proc may stand for a process spawned later.                  *)
(***************************************************************************)
EXTENDS Integers, FiniteSets

CONSTANTS
  Proc,          \* identities of spawned processes
  Op,            \* operations that lease a process once each
  Cwd,           \* working directories
  DefaultCwd,    \* the directory the server prewarms
  NoCwd,         \* the cwd of a process that does not exist yet
  NoProc,        \* "no process"
  NoOp,          \* "no lease"
  Probe,         \* the get_state of waitForReady in prewarm
  MaxProcesses,  \* PoolOptions.maxProcesses
  PrewarmCount,  \* PoolOptions.prewarmCount
  MaxRpc         \* bound: commands one operation sends

ASSUME ConstantsAssumption ==
  /\ IsFiniteSet(Proc)
  /\ DefaultCwd \in Cwd
  /\ NoCwd \notin Cwd
  /\ NoProc \notin Proc
  /\ NoOp \notin Op
  /\ Probe \notin Op \X (1 .. MaxRpc)
  /\ MaxProcesses \in Nat
  /\ PrewarmCount \in Nat
  /\ MaxRpc \in Nat

\* RPC ids are unique per process: `req_${++proc.requestId}`.
Command == Op \X (1 .. MaxRpc)
Request == Command \cup {Probe}

VARIABLES
  \* The operating system's and Node's view of each process.
  os,              \* unborn, running, signalled, exited (event pending), gone
  cwd,             \* its working directory
  bySignal,        \* dead processes a signal ended: exitCode stays null
  \* The pool's bookkeeping.
  leases,          \* leases: the operation whose lease is registered
  decommissioning, \* decommissioning: the marked processes
  pending,         \* pendingRequests of each process
  executing,       \* requests pi received and has not finished
  warming,         \* spawns left to a prewarm that awaits this process
  \* The callers.
  phase,           \* idle, waiting (acquireProcess), holding, done, failed
  want,            \* the cwd an operation waits for
  elapsed,         \* operations whose 60 s in acquireProcess are over
  leaseProc,       \* lease.process of each operation's lease
  released,        \* operations whose lease has _released set
  sent             \* commands each operation has sent

procVars == <<os, cwd, bySignal>>
poolVars == <<leases, decommissioning, pending, executing, warming>>
opVars   == <<phase, want, elapsed, leaseProc, released, sent>>
vars     == <<procVars, poolVars, opVars>>

-------------------------------------------------------------------------------
(* Processes, seen from the pool *)

Alive == {"running", "signalled", "exited"}

\* A process stays in `pools`, with a null exitCode, until its exit event.
PooledIn(o) == {p \in Proc : o[p] \in Alive}
Pooled == PooledIn(os)

Total(o) == Cardinality(PooledIn(o))

\* Mutant: the capacity check is off by one.
HasRoomForOneMore(o) == Total(o) <= MaxProcesses

HasRoom(o) == Total(o) < MaxProcesses

\* exitCode === null: the process has not exited, or a signal ended it.
NullExitCode(p) == os[p] \in Alive \/ p \in bySignal

\* Mutant: a decommissioned process that was released is idle again.
IsUnleased(p) == p \in Pooled /\ leases[p] = NoOp

IsAvailable(p) ==
  /\ p \in Pooled
  /\ leases[p] = NoOp
  /\ p \notin decommissioning

\* An element of Proc that can stand for a new process.
Spawnable(p) ==
  \/ os[p] = "unborn"
  \/ /\ os[p] = "gone"
     /\ pending[p] = {}
     /\ warming[p] = 0
     /\ \A o \in Op : leaseProc[o] = p => phase[o] # "holding"

\* A signal changes only a process that has not exited or been killed before.
Signalled(o, S) ==
  [p \in Proc |-> IF p \in S /\ o[p] = "running" THEN "signalled" ELSE o[p]]

\* Mutant: a leased process is not marked.
MarkUnleased(S) ==
  {p \in S : NullExitCode(p) /\ p \notin decommissioning /\ leases[p] = NoOp}

\* decommission(proc) of every process in S: the newly marked ones, and the
\* unleased ones among them are sent SIGTERM.
NewlyMarked(S) == {p \in S : NullExitCode(p) /\ p \notin decommissioning}
Unleased(S)    == {p \in S : leases[p] = NoOp}

Spawn(p, c, o) ==
  /\ Spawnable(p)
  /\ os' = [o EXCEPT ![p] = "running"]
  /\ cwd' = [cwd EXCEPT ![p] = c]
  /\ bySignal' = bySignal \ {p}

NoSpawn(o) ==
  /\ os' = o
  /\ UNCHANGED <<cwd, bySignal>>

-------------------------------------------------------------------------------
(* acquire, acquireAny, evictIdleDifferentCwd and the acquireProcess loop *)

Reserve(o, p) ==
  /\ leases' = [leases EXCEPT ![p] = o]
  /\ leaseProc' = [leaseProc EXCEPT ![o] = p]
  /\ phase' = [phase EXCEPT ![o] = "holding"]

\* A command for a cwd enters acquireProcess.
RequestProcess(o, c) ==
  /\ phase[o] = "idle"
  /\ phase' = [phase EXCEPT ![o] = "waiting"]
  /\ want' = [want EXCEPT ![o] = c]
  /\ UNCHANGED <<procVars, poolVars, elapsed, leaseProc, released, sent>>

\* acquireAnyProcess: any idle process, else acquireProcess(defaultCwd).
RequestAnyProcess(o) ==
  /\ phase[o] = "idle"
  /\ \/ \E p \in Proc :
          /\ IsAvailable(p)
          /\ Reserve(o, p)
          /\ UNCHANGED <<procVars, want>>
     \/ /\ \A p \in Proc : ~IsAvailable(p)
        /\ phase' = [phase EXCEPT ![o] = "waiting"]
        /\ want' = [want EXCEPT ![o] = DefaultCwd]
        /\ UNCHANGED <<procVars, leases, leaseProc>>
  /\ UNCHANGED <<decommissioning, pending, executing, warming, elapsed,
                 released, sent>>

IdleIn(c) == {p \in Proc : IsAvailable(p) /\ cwd[p] = c}

AcquireIdle(o, p) ==
  /\ phase[o] = "waiting"
  /\ p \in IdleIn(want[o])
  /\ Reserve(o, p)
  /\ UNCHANGED <<procVars, decommissioning, pending, executing, warming,
                 want, elapsed, released, sent>>

AcquireSpawn(o, p) ==
  /\ phase[o] = "waiting"
  /\ IdleIn(want[o]) = {}
  /\ HasRoom(os)
  /\ Spawn(p, want[o], os)
  /\ Reserve(o, p)
  /\ decommissioning' = decommissioning \ {p}
  /\ UNCHANGED <<pending, executing, warming, want, elapsed, released, sent>>

CannotAcquire(o) ==
  /\ phase[o] = "waiting"
  /\ IdleIn(want[o]) = {}
  /\ ~HasRoom(os)

\* An idle process of another cwd is killed; the loop sleeps 50 ms and goes
\* round again without looking at the clock.
Evict(o, p) ==
  /\ CannotAcquire(o)
  /\ IsAvailable(p)
  /\ cwd[p] # want[o]
  /\ decommissioning' = decommissioning \cup {p}
  /\ os' = Signalled(os, {p})
  /\ UNCHANGED <<cwd, bySignal, leases, pending, executing, warming, opVars>>

\* With nothing to evict, the loop gives up once the 60 s are over.
GiveUp(o) ==
  /\ CannotAcquire(o)
  /\ \A p \in Proc : ~IsAvailable(p)
  /\ o \in elapsed
  /\ phase' = [phase EXCEPT ![o] = "failed"]
  /\ UNCHANGED <<procVars, poolVars, want, elapsed, leaseProc, released, sent>>

Elapse(o) ==
  /\ phase[o] = "waiting"
  /\ elapsed' = elapsed \cup {o}
  /\ UNCHANGED <<procVars, poolVars, phase, want, leaseProc, released, sent>>

-------------------------------------------------------------------------------
(* sendRpc, its answer and its timeout *)

Awaiting(o) == \E p \in Proc : <<o, sent[o]>> \in pending[p]

\* The caller keeps lease.process after the lease was ended by an exit.  A dead
\* process with a null exitCode (killed by a signal) still takes the request.
SendRpc(o) ==
  LET p == leaseProc[o]
      r == <<o, sent[o] + 1>>
  IN /\ phase[o] = "holding"
     /\ ~Awaiting(o)
     /\ sent[o] < MaxRpc
     /\ NullExitCode(p)
     /\ sent' = [sent EXCEPT ![o] = @ + 1]
     /\ pending' = [pending EXCEPT ![p] = @ \cup {r}]
     /\ executing' = IF os[p] \in {"running", "signalled"}
                     THEN [executing EXCEPT ![p] = @ \cup {r}]
                     ELSE executing
     /\ UNCHANGED <<procVars, leases, decommissioning, warming, phase, want,
                    elapsed, leaseProc, released>>

\* Mutant: a response settles whatever is pending.
SettlesAll(p, r) == pending[p]

Settles(p, r) == {r}

\* A response settles the pending request with its id; with a mismatched
\* command it rejects that request, and with no pending request it is ignored.
Respond(p, r) ==
  /\ os[p] \in {"running", "signalled"}
  /\ r \in executing[p]
  /\ executing' = [executing EXCEPT ![p] = @ \ {r}]
  /\ pending' = [pending EXCEPT ![p] = @ \ Settles(p, r)]
  /\ UNCHANGED <<procVars, leases, decommissioning, warming, opVars>>

\* The timer of sendRpc: forget the request and decommission the process.
TimeoutRpc(p, r) ==
  /\ r \in pending[p]
  /\ pending' = [pending EXCEPT ![p] = @ \ {r}]
  /\ decommissioning' = decommissioning \cup NewlyMarked({p})
  /\ os' = Signalled(os, Unleased(NewlyMarked({p})))
  /\ UNCHANGED <<cwd, bySignal, leases, executing, warming, opVars>>

-------------------------------------------------------------------------------
(* releaseLease, forceKill and the callers' endings *)

\* releaseLease: only the registered, unreleased lease frees its process.
Frees(o) == o \notin released /\ leases[leaseProc[o]] = o

Release(o) ==
  /\ released' = released \cup {o}
  /\ leases' = IF Frees(o) THEN [leases EXCEPT ![leaseProc[o]] = NoOp]
                           ELSE leases
  /\ phase' = [phase EXCEPT ![o] = "done"]

\* Mutant: a draining process is not killed on release.
KillNoneOnRelease(o) == {}

\* A marked process is sent SIGTERM and keeps its marker until it exits.
KilledOnRelease(o) == {leaseProc[o]} \cap decommissioning

ReleaseLease(o) ==
  /\ phase[o] \in {"holding", "done"}
  /\ leaseProc[o] # NoProc
  /\ ~Awaiting(o)
  /\ Release(o)
  /\ os' = IF Frees(o) THEN Signalled(os, KilledOnRelease(o))
                       ELSE os
  /\ UNCHANGED <<cwd, bySignal, decommissioning, pending, executing, warming,
                 want, elapsed, leaseProc, sent>>

\* handlePrompt and handleForkPrompt failing before the session took the
\* lease: release it, then proc.process.kill("SIGTERM") behind the pool's back.
AbandonStart(o) ==
  /\ phase[o] = "holding"
  /\ ~Awaiting(o)
  /\ Release(o)
  /\ os' = Signalled(os, {leaseProc[o]})
  /\ UNCHANGED <<cwd, bySignal, decommissioning, pending, executing, warming,
                 want, elapsed, leaseProc, sent>>

\* handleHardKill: forceKill(proc), then the actor releases its lease.
HardKill(o) ==
  /\ phase[o] = "holding"
  /\ decommissioning' =
       decommissioning \cup {p \in Proc : p = leaseProc[o] /\ NullExitCode(p)}
  /\ os' = Signalled(os, {leaseProc[o]})
  /\ Release(o)
  /\ UNCHANGED <<cwd, bySignal, pending, executing, warming, want, elapsed,
                 leaseProc, sent>>

-------------------------------------------------------------------------------
(* prewarm, exits and decommissionAll *)

PrewarmTarget ==
  IF PrewarmCount < MaxProcesses THEN PrewarmCount ELSE MaxProcesses

\* Mutant: prewarm spawns its full number whatever is there already.
NeededAlways(o) == PrewarmTarget

Needed(o) ==
  PrewarmTarget - Cardinality({p \in PooledIn(o) : cwd[p] = DefaultCwd})

MoreNeeded(n, o) == n > 0 /\ HasRoom(o)

\* One turn of prewarm's loop with n spawns left, in the synchronous segment
\* that has brought the processes to o, the pending requests to pnd, the
\* markers to dec and the continuations to wrm.  Every spawn but the last is
\* awaited with a get_state.
PrewarmLoop(n, o, pnd, dec, wrm) ==
  \/ /\ ~MoreNeeded(n, o)
     /\ NoSpawn(o)
     /\ pending' = pnd
     /\ decommissioning' = dec
     /\ warming' = wrm
     /\ UNCHANGED executing
  \/ /\ MoreNeeded(n, o)
     /\ \E p \in Proc :
          LET probe == IF n > 1 THEN {Probe} ELSE {}
          IN /\ Spawn(p, DefaultCwd, o)
             /\ decommissioning' = dec \ {p}
             /\ pending'   = [pnd EXCEPT ![p] = probe]
             /\ executing' = [executing EXCEPT ![p] = probe]
             /\ warming'   = [wrm EXCEPT ![p] = n - 1]

\* ensurePool: called at startup, after a hard kill and after an update.
EnsurePool ==
  /\ PrewarmLoop(Needed(os), os, pending, decommissioning, warming)
  /\ UNCHANGED <<leases, opVars>>

\* waitForReady answered, failed or timed out: the loop goes on either way.
ContinuePrewarm(p) ==
  /\ warming[p] > 0
  /\ Probe \notin pending[p]
  /\ PrewarmLoop(warming[p], os, pending, decommissioning,
                 [warming EXCEPT ![p] = 0])
  /\ UNCHANGED <<leases, opVars>>

\* The process dies in the operating system; Node has not said so yet.
Exit(p) ==
  /\ os[p] \in {"running", "signalled"}
  /\ os' = [os EXCEPT ![p] = "exited"]
  /\ bySignal' \in {bySignal, bySignal \cup {p}}
  /\ executing' = [executing EXCEPT ![p] = {}]
  /\ UNCHANGED <<cwd, leases, decommissioning, pending, warming, opVars>>

\* Mutant: the exit ends a lease whether or not one is registered.
EndsAnyLease(p) == {leases[p]}

EndedBy(p) == {leases[p]} \ {NoOp}

\* The exit (or spawn error) event: finalizeProcess, then onProcessExit, which
\* prewarms the default cwd in the same turn of the event loop.
Finalize(p) ==
  /\ os[p] = "exited"
  /\ released' = released \cup EndedBy(p)
  /\ leases' = [leases EXCEPT ![p] = NoOp]
  /\ LET o == [os EXCEPT ![p] = "gone"]
     IN PrewarmLoop(Needed(o), o, [pending EXCEPT ![p] = {}],
                    decommissioning \ {p}, warming)
  /\ UNCHANGED <<phase, want, elapsed, leaseProc, sent>>

\* decommissionAll: mark every pooled process, kill the unleased ones.
AllMarked == decommissioning \cup NewlyMarked(Pooled)
AllKilled == Signalled(os, Unleased(NewlyMarked(Pooled)))

\* A refreshed model catalogue recycles the workers.
RecycleWorkers ==
  /\ decommissioning' = AllMarked
  /\ os' = AllKilled
  /\ UNCHANGED <<cwd, bySignal, leases, pending, executing, warming, opVars>>

\* handleReloadProcesses: decommissionAll, then ensurePool.
ReloadProcesses ==
  /\ PrewarmLoop(Needed(os), AllKilled, pending, AllMarked, warming)
  /\ UNCHANGED <<leases, opVars>>

-------------------------------------------------------------------------------
(* Specification *)

Init ==
  /\ os = [p \in Proc |-> "unborn"]
  /\ cwd = [p \in Proc |-> NoCwd]
  /\ bySignal = {}
  /\ leases = [p \in Proc |-> NoOp]
  /\ decommissioning = {}
  /\ pending = [p \in Proc |-> {}]
  /\ executing = [p \in Proc |-> {}]
  /\ warming = [p \in Proc |-> 0]
  /\ phase = [o \in Op |-> "idle"]
  /\ want = [o \in Op |-> DefaultCwd]
  /\ elapsed = {}
  /\ leaseProc = [o \in Op |-> NoProc]
  /\ released = {}
  /\ sent = [o \in Op |-> 0]

AcquireStep(o) ==
  \/ \E p \in Proc : AcquireIdle(o, p) \/ AcquireSpawn(o, p) \/ Evict(o, p)
  \/ GiveUp(o)

OpNext(o) ==
  \/ \E c \in Cwd : RequestProcess(o, c)
  \/ RequestAnyProcess(o)
  \/ AcquireStep(o)
  \/ Elapse(o)
  \/ SendRpc(o)
  \/ ReleaseLease(o)
  \/ AbandonStart(o)
  \/ HardKill(o)

ProcNext(p) ==
  \/ \E r \in Request : Respond(p, r) \/ TimeoutRpc(p, r)
  \/ ContinuePrewarm(p)
  \/ Exit(p)
  \/ Finalize(p)

Next ==
  \/ \E o \in Op : OpNext(o)
  \/ \E p \in Proc : ProcNext(p)
  \/ EnsurePool
  \/ RecycleWorkers
  \/ ReloadProcesses

Spec == Init /\ [][Next]_vars

\* Timers fire, events are delivered and pi obeys signals.
SystemFairness ==
  /\ \A p \in Proc :
       /\ WF_vars(os[p] = "signalled" /\ Exit(p))
       /\ WF_vars(Finalize(p))
       /\ WF_vars(ContinuePrewarm(p))
       /\ \A r \in Request : WF_vars(TimeoutRpc(p, r))
  /\ \A o \in Op :
       /\ WF_vars(AcquireStep(o))
       /\ WF_vars(Elapse(o))

\* Every holder ends its lease (each handler does so in a finally).
HoldersReturn ==
  \A o \in Op : WF_vars(phase[o] = "holding" /\ ReleaseLease(o))

FairSpec == Spec /\ SystemFairness /\ HoldersReturn

\* Turns may hold their process for hours.
BusySpec == Spec /\ SystemFairness

-------------------------------------------------------------------------------
(* Properties *)

TypeOK ==
  /\ os \in [Proc -> {"unborn", "gone"} \cup Alive]
  /\ cwd \in [Proc -> Cwd \cup {NoCwd}]
  /\ bySignal \subseteq Proc
  /\ leases \in [Proc -> Op \cup {NoOp}]
  /\ decommissioning \subseteq Proc
  /\ pending \in [Proc -> SUBSET Request]
  /\ executing \in [Proc -> SUBSET Request]
  /\ warming \in [Proc -> Nat]
  /\ phase \in [Op -> {"idle", "waiting", "holding", "done", "failed"}]
  /\ want \in [Op -> Cwd]
  /\ elapsed \subseteq Op
  /\ leaseProc \in [Op -> Proc \cup {NoProc}]
  /\ released \subseteq Op
  /\ sent \in [Op -> 0 .. MaxRpc]

\* The pool never runs more processes than maxProcesses, the dying ones and
\* those of concurrent prewarms included (process-pool.ts totalProcesses).
CapacityRespected == Total(os) <= MaxProcesses

\* A lease that has not been released is the one registered for its process,
\* and a registered lease has not been released: two operations never own one
\* process, whatever exits and repeated releases do (RpcProcessLease).
LeaseExclusive ==
  /\ \A o \in Op :
       (leaseProc[o] # NoProc /\ o \notin released) => leases[leaseProc[o]] = o
  /\ \A p \in Proc :
       leases[p] # NoOp => leaseProc[leases[p]] = p /\ leases[p] \notin released

\* pi works on no command of an earlier operation when its process can be
\* leased: an RPC given up on a timeout may still run (process-pool.ts:375).
IdleIsQuiet ==
  \A p \in Proc : IsAvailable(p) => executing[p] \subseteq {Probe}

\* A decommissioned process that nobody holds has been sent its signal; none
\* keeps a place in the pool for ever without being told to stop.
DoomedIdleIsSignalled ==
  \A p \in Pooled :
    (p \in decommissioning /\ leases[p] = NoOp) => os[p] # "running"

\* Both hold of the processes that nobody holds (ProcessPool.releaseLease).
IdleIsOrderly == IdleIsQuiet /\ DoomedIdleIsSignalled

\* A caller stops waiting for a command only when pi finished that command or
\* the process is on its way out: a late or foreign answer settles nothing.
AnswersMatchRequests ==
  [][\A p \in Proc : \A r \in pending[p] \ pending'[p] :
          \/ r \in executing[p] \ executing'[p]
          \/ p \in decommissioning'
          \/ os'[p] = "gone"]_vars

\* The pool implements the contract of leased processes; a release that loses
\* the marker, or an exit that leaves a lease registered, would break it.
Contract == INSTANCE LeaseContract WITH
  present <- Pooled,
  doomed  <- decommissioning \cap Pooled,
  holder  <- leases,
  used    <- {o \in Op : leaseProc[o] # NoProc}

ImplementsContract == Contract!Spec

\* A decommissioned process leaves the pool once its holders let go of it.
DoomedLeavesPool ==
  \A p \in Proc : (p \in decommissioning /\ p \in Pooled) ~> (p \notin Pooled)

\* A command waiting in acquireProcess gets a process or fails after its 60 s.
AcquireResolves ==
  \A o \in Op : (phase[o] = "waiting") ~> (phase[o] # "waiting")

\* No lease is granted on a process that was already told to die: the pool keeps
\* a marker so that no acquisition leases a dying process (process-pool.ts:305).
NeverLeaseDying ==
  [][\A p \in Proc :
       (leases[p] = NoOp /\ leases'[p] # NoOp) => os[p] # "signalled"]_vars

================================================================================
