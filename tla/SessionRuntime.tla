----------------------------- MODULE SessionRuntime -----------------------------
(***************************************************************************)
(* One session of the server: its actor (src/server/session-actor.ts), its *)
(* entry in the registry (src/server/session-registry.ts) and the commands *)
(* of src/server/ws-handler.ts that run through the actor's mailbox, down  *)
(* to the RPCs they send to the leased pi process and the turn events pi   *)
(* sends back.                                                             *)
(*                                                                         *)
(* A request is one call of a handler.  Its code runs in segments between  *)
(* awaits: those inside the mailbox are steps of the task at its head, the *)
(* others are steps of the handler.  The pool is used through what         *)
(* LeaseContract promises; other sessions appear as its refusals.          *)
(*                                                                         *)
(* Outside src/ is pi itself: it runs one turn at a time, announces it     *)
(* with agent_start, agent_end and agent_settled, refuses no get_state,    *)
(* and calls itself streaming until the turn settles.                      *)
(***************************************************************************)
EXTENDS Naturals, Sequences, FiniteSets

CONSTANTS
  Req,    \* requests
  Kinds,  \* the kinds of request to consider
  Proc,   \* pi processes
  NoReq,
  NoProc

\* Requests that start a turn; those that create the session come first.
Prompts  == {"prompt", "new", "fork"}
Creators == {"new", "fork"}
Commands == {"steer", "unsteer", "abort", "kill", "compact", "stats"}

ASSUME RuntimeAssumption ==
  /\ IsFiniteSet(Req)
  /\ Kinds \subseteq Prompts \cup Commands
  /\ NoReq \notin Req
  /\ NoProc \notin Proc
  /\ Req \cap Proc = {}

VARIABLES
  \* pi processes, and the pool's view of them.
  life,       \* up, told (to terminate) or dead (exit event delivered)
  doomed,     \* decommissioned processes
  holder,     \* the request whose lease is registered
  turn,       \* the request whose turn pi runs
  stage,      \* the turn: accepted, started or ended
  queued,     \* steering messages pi has not consumed
  \* SessionActor and SessionRegistry.
  phase,      \* _phase
  lease,      \* _lease: the request that acquired it
  generation, \* _turnGeneration
  steering,   \* _steeringQueue
  status,     \* hidden (pendingActors), known, running or done
  mailbox,    \* the tasks chained on commandTail
  step,       \* how far the first of them is
  \* The requests.
  kind,       \* what each request asks for
  at,         \* where its handler is
  answer,     \* none, ok or error
  got,        \* the process whose lease it acquired
  gen,        \* its turn generation, 0 before beginTurn
  streaming,  \* requests whose promptStarted is true
  started,    \* requests whose observer has started
  settled,    \* requests whose observer has settled
  timedOut,   \* requests whose prompt RPC timed out
  \* History.
  reached,    \* messages pi received as a prompt or during a turn
  removed,    \* steering messages the user removed
  accepted    \* prompts pi has answered with success

procVars  == <<life, doomed, holder>>
piVars    == <<turn, stage, queued>>
actorVars == <<phase, lease, generation, steering, status>>
mailVars  == <<mailbox, step>>
obsVars   == <<streaming, started, settled, timedOut>>
reqVars   == <<kind, at, answer, got, gen>>
history   == <<reached, removed, accepted>>
vars == <<procVars, piVars, actorVars, mailVars, obsVars, reqVars, history>>

-------------------------------------------------------------------------------
(* The mailbox *)

Message(d, r, m) == [do |-> d, by |-> r, msg |-> m]
Task(d, r) == Message(d, r, r)

Enqueue(t) == mailbox' = Append(mailbox, t) /\ UNCHANGED step

\* The task at the head of the mailbox is task d of request r, at step s.
At(d, r, s) ==
  /\ mailbox # <<>>
  /\ Head(mailbox).do = d
  /\ Head(mailbox).by = r
  /\ step = s

Goto(s) == step' = s /\ UNCHANGED mailbox

TaskEnds == mailbox' = Tail(mailbox) /\ step' = "begin"

Moves(r, a) == at' = [at EXCEPT ![r] = a]

\* The first outcome reported to the client stands.
Answers(r, a) ==
  answer' = [answer EXCEPT ![r] = IF @ = "none" THEN a ELSE @]

\* The handler of r has nothing left to do.
Finishes(r, a) == Moves(r, "done") /\ Answers(r, a)

-------------------------------------------------------------------------------
(* The pool and the RPCs *)

Process == IF lease = NoReq THEN NoProc ELSE got[lease]

TurnPhases == {"starting", "running", "settling"}
IsTurnActive == phase \in TurnPhases

Tell(lf, p) == IF lf[p] = "up" THEN [lf EXCEPT ![p] = "told"] ELSE lf

Holds(r) == got[r] # NoProc /\ holder[got[r]] = r

Freed(r) == IF Holds(r) THEN [holder EXCEPT ![got[r]] = NoReq] ELSE holder

\* releaseLease kills a process that was decommissioned meanwhile.
KilledOnRelease(lf, r, dm) ==
  IF Holds(r) /\ got[r] \in dm THEN Tell(lf, got[r]) ELSE lf

Available(p) ==
  /\ life[p] \in {"up", "told"}
  /\ holder[p] = NoReq
  /\ p \notin doomed

\* The timer of an RPC fires, which decommissions the process.
TimesOut(p) == life[p] # "dead" /\ doomed' = doomed \cup {p}

\* An RPC also fails because the process is dead or because pi refuses it, if it
\* may.
RpcFails(p, mayRefuse) ==
  \/ life[p] = "dead" /\ doomed' = doomed
  \/ life[p] # "dead" /\ mayRefuse /\ doomed' = doomed
  \/ TimesOut(p)

-------------------------------------------------------------------------------
(* The actor *)

Attach(r) ==
  /\ lease' = r
  /\ status' = IF status = "hidden" THEN "hidden" ELSE "running"

\* Mutant: a new turn keeps the generation of the last one.
BeginTurnUncounted(r) ==
  /\ generation' = generation
  /\ gen' = [gen EXCEPT ![r] = generation + 1]
  /\ phase' = "starting"

BeginTurn(r) ==
  /\ generation' = generation + 1
  /\ gen' = [gen EXCEPT ![r] = generation + 1]
  /\ phase' = "starting"

\* detach, in a segment that has brought life to lf and doomed to dm.
Detach(lf, dm) ==
  /\ phase' = "detached"
  /\ lease' = NoReq
  /\ steering' = {}
  /\ holder' = Freed(lease)
  /\ life' = KilledOnRelease(lf, lease, dm)
  /\ status' = IF status = "hidden" THEN "hidden" ELSE "done"
  /\ UNCHANGED generation

Owns(r) == Process # NoProc /\ Process = got[r]
OwnsTurn(r) == Owns(r) /\ gen[r] = generation

-------------------------------------------------------------------------------
(* Requests arrive *)

\* Other requests can name the session once it is on disk and advertised.
Addressable ==
  \A r \in Req : kind[r] \in Creators =>
    IF kind[r] = "new" THEN status # "hidden" ELSE at[r] # "idle"

FirstTask(k) == IF k \in Prompts THEN "start" ELSE k

Submit(r) ==
  /\ at[r] = "idle"
  /\ kind[r] \notin Creators => Addressable
  /\ IF kind[r] = "new"
     THEN Moves(r, "acquiring") /\ UNCHANGED mailVars
     ELSE Moves(r, "queued") /\ Enqueue(Task(FirstTask(kind[r]), r))
  /\ UNCHANGED <<procVars, piVars, actorVars, obsVars, kind, answer, got, gen,
                 history>>

\* A new session leases a process before it knows its own path.
AcquireNew(r, p) ==
  /\ at[r] = "acquiring"
  /\ Available(p)
  /\ holder' = [holder EXCEPT ![p] = r]
  /\ got' = [got EXCEPT ![r] = p]
  /\ queued' = [queued EXCEPT ![p] = {}]
  /\ Moves(r, "creating")
  /\ UNCHANGED <<life, doomed, turn, stage, actorVars, mailVars,
                 obsVars, kind, answer, gen, history>>

AcquireNewFails(r) ==
  /\ at[r] = "acquiring"
  /\ Moves(r, "caught")
  /\ UNCHANGED <<procVars, piVars, actorVars, mailVars, obsVars, kind, answer,
                 got, gen, history>>

\* new_session and get_state give the path; the actor starts out pending.
CreateSession(r) ==
  /\ at[r] = "creating"
  /\ \/ /\ life[got[r]] # "dead"
        /\ Moves(r, "queued")
        /\ Enqueue(Task("start", r))
        /\ UNCHANGED doomed
     \/ /\ RpcFails(got[r], TRUE)
        /\ Moves(r, "caught")
        /\ UNCHANGED mailVars
  /\ UNCHANGED <<life, holder, piVars, actorVars, obsVars, kind,
                 answer, got, gen, history>>

-------------------------------------------------------------------------------
(* acquireForActor, shared by prompts, compact and stats *)

\* Mutant: nobody asks whether a turn is active.
AlwaysAvailable(d) == TRUE

AssertAvailable(d) == phase \in {"detached", "ready"}

\* compact and stats.  Statistics of an attached session use its process and
\* leave the lease to the turn that owns it.
BeginCommand(d, r) ==
  /\ d \in {"compact", "stats"}
  /\ At(d, r, "begin")
  /\ d = "compact" => AssertAvailable(d)
  /\ Goto(IF Process = NoProc THEN "acquire"
          ELSE IF d = "compact" THEN "rpc" ELSE "peek")
  /\ UNCHANGED <<procVars, piVars, actorVars, obsVars, reqVars, history>>

\* A prompt for a session that has no turn.
BeginStart(r) ==
  /\ At("start", r, "begin")
  /\ kind[r] # "new"
  /\ ~IsTurnActive
  /\ AssertAvailable("start")
  /\ Goto("acquire")
  /\ UNCHANGED <<procVars, piVars, actorVars, obsVars, reqVars, history>>

Acquire(d, r, p) ==
  /\ At(d, r, "acquire")
  /\ Available(p)
  /\ holder' = [holder EXCEPT ![p] = r]
  /\ got' = [got EXCEPT ![r] = p]
  /\ queued' = [queued EXCEPT ![p] = {}]
  /\ Goto("switch")
  /\ UNCHANGED <<life, doomed, turn, stage, actorVars, obsVars, kind,
                 at, answer, gen, history>>

\* switch_session: the lease passes to the actor; a prompt begins its turn in
\* the same segment.
Switched(d, r) ==
  /\ At(d, r, "switch")
  /\ life[got[r]] # "dead"
  /\ Attach(r)
  /\ IF d = "start"
     THEN BeginTurn(r) /\ Goto("control")
     ELSE phase' = "ready" /\ Goto("rpc") /\ UNCHANGED <<generation, gen>>
  /\ UNCHANGED <<procVars, piVars, steering, obsVars, kind, at, answer, got,
                 history>>

\* The task of r throws: the handler of a prompt catches it.
Throws(r) ==
  IF kind[r] \in Prompts THEN Moves(r, "caught") /\ UNCHANGED answer
                         ELSE Finishes(r, "error")

AcquireFails(d, r) ==
  /\ At(d, r, "acquire")
  /\ TaskEnds
  /\ Throws(r)
  /\ UNCHANGED <<procVars, piVars, actorVars, obsVars, kind, got, gen, history>>

\* acquireForActor releases the lease; handleForkPrompt does so in its catch.
SwitchFails(d, r) ==
  /\ At(d, r, "switch")
  /\ RpcFails(got[r], TRUE)
  /\ IF kind[r] = "fork"
     THEN UNCHANGED <<holder, life>>
     ELSE /\ holder' = Freed(r)
          /\ life' = KilledOnRelease(life, r, doomed')
  /\ TaskEnds
  /\ Throws(r)
  /\ UNCHANGED <<piVars, actorVars, obsVars, kind, got, gen, history>>

\* A task that finds the session in the wrong phase throws at once.
Refused(d, r) ==
  /\ At(d, r, "begin")
  /\ \/ d = "start" /\ ~AssertAvailable(d) /\ (IsTurnActive => kind[r] = "fork")
     \/ d = "compact" /\ ~AssertAvailable(d)
     \/ d = "steer" /\ ~IsTurnActive
  /\ TaskEnds
  /\ Throws(r)
  /\ UNCHANGED <<procVars, piVars, actorVars, obsVars, kind, got, gen, history>>

-------------------------------------------------------------------------------
(* Prompt start *)

\* A new session brings its own lease.
BeginNew(r) ==
  /\ At("start", r, "begin")
  /\ kind[r] = "new"
  /\ phase = "detached"
  /\ Attach(r)
  /\ BeginTurn(r)
  /\ Goto("control")
  /\ UNCHANGED <<procVars, piVars, steering, obsVars, kind, at, answer, got,
                 history>>

\* The RPC transaction of applyRequestedControlState, then the images.
ControlApplied(r) ==
  /\ At("start", r, "control")
  /\ life[got[r]] # "dead"
  /\ Goto("prompt")
  /\ UNCHANGED <<procVars, piVars, actorVars, obsVars, reqVars, history>>

PiStartsTurn(p, r) ==
  /\ turn' = [turn EXCEPT ![p] = r]
  /\ stage' = [stage EXCEPT ![p] = "accepted"]

\* pi accepts a prompt; an extension command starts no turn.
PromptAccepted(r) ==
  /\ At("start", r, "prompt")
  /\ life[got[r]] # "dead"
  /\ PiStartsTurn(got[r], r) \/ UNCHANGED <<turn, stage>>
  /\ reached' = reached \cup {r}
  /\ accepted' = accepted \cup {r}
  /\ IF kind[r] = "fork"
     THEN Goto("reconcile") /\ Answers(r, "ok")
     ELSE Goto("probe") /\ UNCHANGED answer
  /\ UNCHANGED <<procVars, queued, actorVars, obsVars, kind, at, got, gen,
                 removed>>

\* A control or prompt RPC fails; pi may have taken a prompt nobody waits for.
StartFails(r) ==
  \/ /\ At("start", r, "control")
     /\ RpcFails(got[r], TRUE)
     /\ TaskEnds
     /\ Throws(r)
     /\ UNCHANGED <<life, holder, piVars, actorVars, obsVars, kind,
                    got, gen, history>>
  \/ /\ At("start", r, "prompt")
     /\ \/ /\ RpcFails(got[r], TRUE)
           /\ UNCHANGED <<turn, stage, reached, timedOut>>
        \/ /\ TimesOut(got[r])
           /\ timedOut' = timedOut \cup {r}
           /\ \/ PiStartsTurn(got[r], r) /\ reached' = reached \cup {r}
              \/ UNCHANGED <<turn, stage, reached>>
     /\ TaskEnds
     /\ Throws(r)
     /\ UNCHANGED <<life, holder, queued, actorVars, streaming, started, settled,
                    kind, got, gen, removed, accepted>>

\* The streaming flag of get_state, or an observed start.  (A turn that settled
\* meanwhile counts as not started: all its events are queued.)
PromptStarted(p, r) == r \in started \/ turn[p] = r

\* Mutant: the start waits for the turn's first event instead of asking pi.
AwaitsStart(p, r, did) == did /\ r \in started /\ doomed' = doomed

\* didPromptStart: a failed get_state counts as a started turn.
ProbeEnds(p, r, did) ==
  \/ life[p] # "dead" /\ did = PromptStarted(p, r) /\ doomed' = doomed
  \/ did /\ RpcFails(p, FALSE)

\* Mutant: the prompt is answered only when the start is over.
AcceptLate(r) ==
  /\ At("start", r, "probe")
  /\ \E did \in BOOLEAN :
       /\ ProbeEnds(got[r], r, did)
       /\ streaming' = IF did THEN streaming \cup {r} ELSE streaming
  /\ Goto("reconcile")
  /\ UNCHANGED <<life, holder, piVars, actorVars, started, settled, timedOut,
                 reqVars, history>>

\* didPromptStart, and the answer that accepts the prompt.  A new session is
\* kept if a turn started or pi wrote its file, and advertised.
Accept(r) ==
  /\ At("start", r, "probe")
  /\ \E did \in BOOLEAN :
       /\ ProbeEnds(got[r], r, did)
       /\ streaming' = IF did THEN streaming \cup {r} ELSE streaming
       /\ status' \in IF status # "hidden" THEN {status}
                      ELSE IF did THEN {"running"} ELSE {"hidden", "running"}
  /\ Answers(r, "ok")
  /\ Goto("reconcile")
  /\ UNCHANGED <<life, holder, piVars, phase, lease, generation,
                 steering, started, settled, timedOut, kind, at, got, gen,
                 history>>

\* reconcileEffectiveControlState ends the start.  An extension command is
\* settled at once; a fork asks again whether its turn has started.
StartEnds(r) ==
  /\ At("start", r, "reconcile")
  /\ life[got[r]] # "dead"
  /\ IF kind[r] # "fork" /\ r \notin streaming
     THEN /\ mailbox' = Append(Tail(mailbox), Task("settle", r))
          /\ step' = "begin"
          /\ Moves(r, "settling")
     ELSE /\ TaskEnds
          /\ Moves(r, IF kind[r] = "fork" THEN "probing" ELSE "waiting")
  /\ UNCHANGED <<procVars, piVars, actorVars, obsVars, kind, answer, got, gen,
                 history>>

ReconcileFails(d, r) ==
  /\ d \in {"start", "settle"}
  /\ At(d, r, "reconcile")
  /\ RpcFails(got[r], FALSE)
  /\ TaskEnds
  /\ Moves(r, "caught")
  /\ UNCHANGED <<life, holder, piVars, actorVars, obsVars, kind,
                 answer, got, gen, history>>

-------------------------------------------------------------------------------
(* The end of a turn *)

EnqueueSettlement(r) == Moves(r, "settling") /\ Enqueue(Task("settle", r))

\* waitForPromptSettlement of a fork: hasStarted, else a get_state.  The exit
\* listener comes after this await; exitCode is null after a fatal signal, so
\* that the wait for a process that died meanwhile is deaf.
ForkProbes(r) ==
  LET p == got[r] IN
  /\ at[r] = "probing"
  /\ \/ /\ life[p] # "dead"
        /\ IF PromptStarted(p, r)
           THEN Moves(r, "waiting") /\ UNCHANGED mailVars
           ELSE EnqueueSettlement(r)
        /\ doomed' = doomed
     \/ /\ RpcFails(p, FALSE)
        /\ \E a \in IF life[p] = "dead" THEN {"deaf", "caught"} ELSE {"waiting"} :
             Moves(r, a)
        /\ UNCHANGED mailVars
  /\ UNCHANGED <<life, holder, piVars, actorVars, obsVars, kind,
                 answer, got, gen, history>>

TurnSettled(r) ==
  /\ at[r] \in {"waiting", "deaf"}
  /\ r \in settled
  /\ EnqueueSettlement(r)
  /\ UNCHANGED <<procVars, piVars, actorVars, obsVars, kind, answer, got, gen,
                 history>>

HearsExit(r) == at[r] = "waiting" /\ life[got[r]] = "dead"

TurnExited(r) ==
  /\ HearsExit(r)
  /\ Moves(r, "caught")
  /\ UNCHANGED <<procVars, piVars, actorVars, mailVars, obsVars, kind, answer,
                 got, gen, history>>

\* The settlement task: nothing to do if the turn is no longer the actor's.
BeginSettle(r) ==
  /\ At("settle", r, "begin")
  /\ IF OwnsTurn(r)
     THEN Goto("reconcile") /\ UNCHANGED at
     ELSE TaskEnds /\ Moves(r, "done")
  /\ UNCHANGED <<procVars, piVars, actorVars, obsVars, kind, answer, got, gen,
                 history>>

Settle(r) ==
  /\ At("settle", r, "reconcile")
  /\ life[got[r]] # "dead"
  /\ Detach(life, doomed)
  /\ TaskEnds
  /\ Moves(r, "done")
  /\ UNCHANGED <<doomed, piVars, obsVars, kind, answer, got, gen,
                 history>>

\* The local variable `proc` of the handler is set.
HasProc(r) ==
  IF kind[r] \in Creators THEN got[r] # NoProc ELSE gen[r] > 0

\* Mutant: the lease of a failed start is left to the exit of its process.
KeepsLease(r) == holder

ReleasesUnowned(r) == Freed(r)

\* catch: release a lease the actor never got and kill its process, or have the
\* actor fail in its turn in the mailbox.
Catch(r) ==
  /\ at[r] = "caught"
  /\ IF HasProc(r) /\ Owns(r)
     THEN /\ Moves(r, "failing")
          /\ Enqueue(Task("fail", r))
          /\ UNCHANGED <<holder, life, answer>>
     ELSE /\ Finishes(r, "error")
          /\ holder' = IF lease = r THEN holder ELSE ReleasesUnowned(r)
          /\ life' = IF HasProc(r) THEN Tell(life, got[r]) ELSE life
          /\ UNCHANGED mailVars
  /\ UNCHANGED <<doomed, piVars, actorVars, obsVars, kind, got,
                 gen, history>>

\* prompt failure: markFailed, then releaseActor; back in the handler, a prompt
\* that timed out has its process killed whoever released it.
Fail(r) ==
  /\ At("fail", r, "begin")
  /\ LET lf == IF r \in timedOut THEN Tell(life, got[r]) ELSE life
     IN IF Owns(r) THEN Detach(lf, doomed)
                   ELSE life' = lf /\ UNCHANGED <<holder, actorVars>>
  /\ TaskEnds
  /\ Finishes(r, "error")
  /\ UNCHANGED <<doomed, piVars, obsVars, kind, got, gen, history>>

-------------------------------------------------------------------------------
(* Steering, abort, hard kill, compact and stats *)

\* A steer, or a prompt that finds a turn, is shown in the queue at once.
BeginSteer(d, r) ==
  /\ d \in {"start", "steer"}
  /\ At(d, r, "begin")
  /\ IsTurnActive
  /\ kind[r] # "fork"
  /\ steering' = steering \cup {r}
  /\ Goto("steer")
  /\ UNCHANGED <<procVars, piVars, phase, lease, generation, status, obsVars,
                 reqVars, history>>

\* pi's answer is not looked at: it may have refused the message.
Steered(d, r) ==
  LET p == Process IN
  /\ At(d, r, "steer")
  /\ life[p] # "dead"
  /\ \/ /\ queued' = [queued EXCEPT ![p] = @ \cup {r}]
        /\ reached' = IF turn[p] = NoReq THEN reached ELSE reached \cup {r}
     \/ UNCHANGED <<queued, reached>>
  /\ TaskEnds
  /\ Finishes(r, "ok")
  /\ UNCHANGED <<procVars, turn, stage, actorVars, obsVars, kind, got, gen,
                 removed, accepted>>

\* dequeueSteering, then the error.
SteerFails(d, r) ==
  /\ At(d, r, "steer")
  /\ RpcFails(Process, FALSE)
  /\ steering' = steering \ {r}
  /\ TaskEnds
  /\ Throws(r)
  /\ UNCHANGED <<life, holder, piVars, phase, lease, generation,
                 status, obsVars, kind, got, gen, history>>

\* removeSteeringByIndex: pi is not told.
RemoveSteering(r) ==
  /\ At("unsteer", r, "begin")
  /\ \/ \E m \in steering : /\ steering' = steering \ {m}
                            /\ removed' = removed \cup {m}
     \/ UNCHANGED <<steering, removed>>
  /\ TaskEnds
  /\ Finishes(r, "ok")
  /\ UNCHANGED <<procVars, piVars, phase, lease, generation, status, obsVars,
                 kind, got, gen, reached, accepted>>

BeginAbort(r) ==
  /\ At("abort", r, "begin")
  /\ IF IsTurnActive
     THEN Goto("abort") /\ UNCHANGED <<at, answer>>
     ELSE TaskEnds /\ Finishes(r, "ok")
  /\ UNCHANGED <<procVars, piVars, actorVars, obsVars, kind, got, gen, history>>

AbortEnds(r) ==
  /\ At("abort", r, "abort")
  /\ \/ life[Process] # "dead" /\ doomed' = doomed /\ Finishes(r, "ok")
     \/ RpcFails(Process, FALSE) /\ Finishes(r, "error")
  /\ TaskEnds
  /\ UNCHANGED <<life, holder, piVars, actorVars, obsVars, kind, got,
                 gen, history>>

\* forceKill, markFailed and releaseActor; ensurePool is the pool's affair.
HardKill(r) ==
  /\ At("kill", r, "begin")
  /\ IF Process = NoProc
     THEN UNCHANGED <<life, doomed, holder, actorVars>>
     ELSE /\ doomed' = IF life[Process] = "dead" THEN doomed
                       ELSE doomed \cup {Process}
          /\ Detach(Tell(life, Process), doomed')
  /\ TaskEnds
  /\ Finishes(r, "ok")
  /\ UNCHANGED <<piVars, obsVars, kind, got, gen, history>>

\* The RPC of compact or stats, whatever its outcome, and the finally.
CommandEnds(d, r) ==
  /\ d \in {"compact", "stats"}
  /\ At(d, r, "rpc")
  /\ \/ life[Process] # "dead" /\ doomed' = doomed /\ Finishes(r, "ok")
     \/ RpcFails(Process, TRUE) /\ Finishes(r, "error")
  /\ Detach(life, doomed')
  /\ TaskEnds
  /\ UNCHANGED <<piVars, obsVars, kind, got, gen, history>>

StatsPeeked(r) ==
  /\ At("stats", r, "peek")
  /\ \/ life[Process] # "dead" /\ doomed' = doomed /\ Finishes(r, "ok")
     \/ RpcFails(Process, TRUE) /\ Finishes(r, "error")
  /\ TaskEnds
  /\ UNCHANGED <<life, holder, piVars, actorVars, obsVars, kind, got,
                 gen, history>>

-------------------------------------------------------------------------------
(* Process events *)

Events == {"agent_start", "agent_end", "agent_settled", "message_end"}

NextPhase(e) ==
  IF e = "agent_start" /\ phase = "starting" THEN "running"
  ELSE IF e \in {"agent_end", "agent_settled"} /\ phase \in {"starting", "running"}
       THEN "settling"
  ELSE phase

Settles(e) == e = "agent_settled"

\* applyProcessEvent: an event of a turn the actor does not own is dropped.
ProcessEvent(e, r) ==
  /\ At(e, r, "begin")
  /\ IF OwnsTurn(r)
     THEN /\ phase' = NextPhase(e)
          /\ steering' = IF e = "agent_end" THEN {}
                         ELSE IF e = "message_end"
                              THEN steering \ {Head(mailbox).msg}
                         ELSE steering
          /\ started' = IF e \in {"agent_start", "agent_settled"}
                        THEN started \cup {r} ELSE started
          /\ settled' = IF Settles(e) THEN settled \cup {r} ELSE settled
     ELSE UNCHANGED <<phase, steering, started, settled>>
  /\ TaskEnds
  /\ UNCHANGED <<procVars, piVars, lease, generation, status, streaming,
                 timedOut, reqVars, history>>

\* handleProcessExit: markFailed and releaseActor.
ProcessExit(p) ==
  /\ At("exit", p, "begin")
  /\ IF Process = p THEN Detach(life, doomed)
                    ELSE UNCHANGED <<life, holder, actorVars>>
  /\ TaskEnds
  /\ UNCHANGED <<doomed, piVars, obsVars, reqVars, history>>

-------------------------------------------------------------------------------
(* pi and the pool *)

\* An event of p is put into the mailbox while the turn is subscribed.
Emit(p, e, m) ==
  IF IsTurnActive /\ Process = p
  THEN \E r \in Req : gen[r] = generation /\ Enqueue(Message(e, r, m))
  ELSE UNCHANGED mailVars

TurnProceeds(p, from, to, e) ==
  /\ turn[p] # NoReq
  /\ stage[p] = from
  /\ stage' = [stage EXCEPT ![p] = to]
  /\ turn' = IF to = "none" THEN [turn EXCEPT ![p] = NoReq] ELSE turn
  /\ Emit(p, e, NoReq)
  /\ UNCHANGED <<procVars, queued, actorVars, obsVars, reqVars, history>>

PiStarts(p)  == TurnProceeds(p, "accepted", "started", "agent_start")
PiEnds(p)    == TurnProceeds(p, "started", "ended", "agent_end")
PiSettles(p) == TurnProceeds(p, "ended", "none", "agent_settled")

\* pi takes a steering message into the conversation.
PiConsumes(p, m) ==
  /\ turn[p] # NoReq
  /\ stage[p] = "started"
  /\ m \in queued[p]
  /\ queued' = [queued EXCEPT ![p] = @ \ {m}]
  /\ Emit(p, "message_end", m)
  /\ UNCHANGED <<procVars, turn, stage, actorVars, obsVars, reqVars, history>>

\* The exit event: the pool ends the lease, then the owning actor is told.
Exit(p) ==
  /\ life[p] # "dead"
  /\ life' = [life EXCEPT ![p] = "dead"]
  /\ doomed' = doomed \ {p}
  /\ holder' = [holder EXCEPT ![p] = NoReq]
  /\ turn' = [turn EXCEPT ![p] = NoReq]
  /\ stage' = [stage EXCEPT ![p] = "none"]
  /\ queued' = [queued EXCEPT ![p] = {}]
  /\ IF Process = p THEN Enqueue(Task("exit", p)) ELSE UNCHANGED mailVars
  /\ UNCHANGED <<actorVars, obsVars, reqVars, history>>

\* decommissionAll: a reload, or a new model catalogue.
Recycle ==
  /\ doomed' = doomed \cup {p \in Proc : life[p] # "dead"}
  /\ life' = [p \in Proc |-> IF life[p] = "up" /\ p \notin doomed /\ holder[p] = NoReq
                             THEN "told" ELSE life[p]]
  /\ UNCHANGED <<holder, piVars, actorVars, mailVars, obsVars,
                 reqVars, history>>

-------------------------------------------------------------------------------
(* Specification *)

Init ==
  /\ life = [p \in Proc |-> "up"]
  /\ doomed = {}
  /\ holder = [p \in Proc |-> NoReq]
  /\ turn = [p \in Proc |-> NoReq]
  /\ stage = [p \in Proc |-> "none"]
  /\ queued = [p \in Proc |-> {}]
  /\ phase = "detached"
  /\ lease = NoReq
  /\ generation = 0
  /\ steering = {}
  /\ mailbox = <<>>
  /\ step = "begin"
  /\ kind \in [Req -> Kinds]
  /\ Cardinality({r \in Req : kind[r] \in Creators}) <= 1
  /\ status = IF \E r \in Req : kind[r] = "new" THEN "hidden" ELSE "known"
  /\ at = [r \in Req |-> "idle"]
  /\ answer = [r \in Req |-> "none"]
  /\ got = [r \in Req |-> NoProc]
  /\ gen = [r \in Req |-> 0]
  /\ streaming = {}
  /\ started = {}
  /\ settled = {}
  /\ reached = {}
  /\ removed = {}
  /\ timedOut = {}
  /\ accepted = {}

\* One segment of the task at the head of the mailbox.
MailboxStep ==
  \/ \E r \in Req, d \in {"start", "compact", "stats"} :
       \/ \E p \in Proc : Acquire(d, r, p)
       \/ AcquireFails(d, r) \/ Switched(d, r) \/ SwitchFails(d, r)
       \/ BeginCommand(d, r) \/ CommandEnds(d, r)
  \/ \E r \in Req, d \in {"start", "compact", "steer"} : Refused(d, r)
  \/ \E r \in Req, d \in {"start", "steer"} :
       BeginSteer(d, r) \/ Steered(d, r) \/ SteerFails(d, r)
  \/ \E r \in Req, d \in {"start", "settle"} : ReconcileFails(d, r)
  \/ \E r \in Req :
       \/ BeginStart(r) \/ BeginNew(r) \/ ControlApplied(r) \/ PromptAccepted(r)
       \/ StartFails(r) \/ Accept(r) \/ StartEnds(r)
       \/ BeginSettle(r) \/ Settle(r) \/ Fail(r)
       \/ RemoveSteering(r) \/ BeginAbort(r) \/ AbortEnds(r) \/ HardKill(r)
       \/ StatsPeeked(r)
       \/ \E e \in Events : ProcessEvent(e, r)
  \/ \E p \in Proc : ProcessExit(p)

\* One segment of a handler outside the mailbox.
HandlerStep(r) ==
  \/ \E p \in Proc : AcquireNew(r, p)
  \/ AcquireNewFails(r) \/ CreateSession(r)
  \/ ForkProbes(r) \/ TurnSettled(r) \/ TurnExited(r) \/ Catch(r)

PiStep(p) ==
  \/ PiStarts(p) \/ PiEnds(p) \/ PiSettles(p)
  \/ \E m \in Req : PiConsumes(p, m)

Next ==
  \/ MailboxStep
  \/ \E r \in Req : Submit(r) \/ HandlerStep(r)
  \/ \E p \in Proc : PiStep(p) \/ Exit(p)
  \/ Recycle

Spec == Init /\ [][Next]_vars

\* Every await but that for a turn ends: by an answer, its timer or an exit.
FairSpec ==
  /\ Spec
  /\ WF_vars(MailboxStep)
  /\ \A r \in Req : WF_vars(HandlerStep(r))

-------------------------------------------------------------------------------
(* Properties *)

TypeOK ==
  /\ life \in [Proc -> {"up", "told", "dead"}]
  /\ doomed \subseteq Proc
  /\ holder \in [Proc -> Req \cup {NoReq}]
  /\ turn \in [Proc -> Req \cup {NoReq}]
  /\ stage \in [Proc -> {"none", "accepted", "started", "ended"}]
  /\ queued \in [Proc -> SUBSET Req]
  /\ phase \in {"detached", "ready"} \cup TurnPhases
  /\ lease \in Req \cup {NoReq}
  /\ generation \in 0 .. Cardinality(Req)
  /\ steering \subseteq Req
  /\ status \in {"hidden", "known", "running", "done"}
  /\ kind \in [Req -> Kinds]
  /\ answer \in [Req -> {"none", "ok", "error"}]
  /\ got \in [Req -> Proc \cup {NoProc}]
  /\ gen \in [Req -> 0 .. generation]
  /\ UNION {streaming, started, settled, timedOut} \subseteq Req
  /\ UNION {reached, removed, accepted} \subseteq Req

\* The mailbox leaves the actor detached or in a turn, never half attached; a
\* detached actor has no lease and shows no steering (session-actor.ts:217).
CleanBetweenTasks ==
  /\ step = "begin" => phase # "ready"
  /\ phase = "detached" <=> lease = NoReq
  /\ phase = "detached" => steering = {}

\* A handler that is done has given back the process it leased, whichever of
\* the pool, the RPCs and the actor failed under it (ws-handler.ts:1010).
FinishedHoldsNothing ==
  \A r \in Req : at[r] = "done" => lease # r /\ \A p \in Proc : holder[p] # r

\* No process goes back to the pool while pi runs a turn on it.
ReleasedIsQuiet ==
  \A p \in Proc : (life[p] = "up" /\ holder[p] = NoReq) => turn[p] = NoReq

\* The actor, its handlers and the pool agree on who owns which process
\* (SessionActor.detach, WsHandler.releaseActor).
LeaseDiscipline == CleanBetweenTasks /\ FinishedHoldsNothing /\ ReleasedIsQuiet

\* A compaction never overlaps a turn (session-actor.ts:44; forks without a prompt and
\* renames, of which the code says the same, are not modelled).
ExclusiveRunsAlone ==
  (mailbox # <<>> /\ Head(mailbox).do = "compact" /\ step = "rpc") =>
    phase = "ready" /\ turn[Process] = NoReq

\* A prompt that pi has accepted is never reported as failed, so that nobody
\* offers a model turn for retry (ws-handler.ts:985).
AcceptedNeverFails ==
  \A r \in accepted : answer[r] # "error"

\* A command in the mailbox is answered: no task waits for one behind it.
CommandsAreAnswered ==
  <>[](\A r \in Req : at[r] # "idle" => answer[r] # "none")

\* The wait for a turn to settle ends when its process exits: "waits for agent
\* settlement and rejects promptly on process exit" (ws-handler.test.ts:937).
ExitEndsTheWait ==
  \A r \in Req :
    (at[r] \in {"probing", "waiting", "deaf"} /\ life[got[r]] = "dead")
      ~> (at[r] = "done")

\* A prompt that arrives during startup becomes steering (ws-handler.ts:930):
\* the accepted message reaches a turn, or the process does not survive.
AcceptedReachesATurn ==
  \A r \in Req : (kind[r] = "prompt" /\ answer[r] = "ok") => r \in reached

\* A message the user removes from the queue (main.ts:362) is not run later.
RemovedIsNotRun ==
  [][\A p \in Proc : \A m \in removed :
       ~(m \in queued[p] /\ m \notin queued'[p] /\ turn[p] # NoReq)]_vars

================================================================================
