------------------------------ MODULE OperationReceipts ------------------------------
(***************************************************************************)
(* A prompt, a steer or a fork is executed once however often its frame    *)
(* is sent: the browser sends unresolved requests again after it           *)
(* reconnects (pendingRequests of src/client/ws-agent-adapter.ts), and the *)
(* server answers from a receipt what it knows already                     *)
(* (runIdempotentControl of src/server/ws-handler.ts).  A request that is  *)
(* not answered in time is reported as timed out, whatever became of its   *)
(* frame.  Prompts typed during a compaction wait in the browser and carry *)
(* no operationId: each time they are sent they are a new request.         *)
(*                                                                         *)
(* A frame is its request: the operation ids are random, so the check of   *)
(* the fingerprint never fails.  What an operation does is left to         *)
(* SessionRuntime; here it is accepted or fails, then settles.             *)
(***************************************************************************)
EXTENDS Integers, Sequences, FiniteSets, SequencesExt

CONSTANTS
  Client,        \* browsers
  Op,            \* what the users submit
  Owner,         \* [Op -> Client]
  Deferred,      \* those that are typed during a compaction
  MaxActive,     \* MAX_ACTIVE_CONTROL_OPERATIONS
  MaxCompleted,  \* MAX_COMPLETED_CONTROL_OPERATIONS
  MaxDrops,      \* bound: connections that are lost
  MaxTimeOuts,   \* bound: requests that time out
  MaxCompactions,\* bound: compactions
  MaxRestarts,   \* bound: restarts of the server
  MaxLosses      \* bound: both together

ASSUME ConstantsAssumption ==
  /\ IsFiniteSet(Op) /\ Owner \in [Op -> Client] /\ Deferred \subseteq Op
  /\ MaxActive \in Nat \ {0} /\ MaxCompleted \in Nat \ {0}
  /\ MaxDrops \in Nat /\ MaxTimeOuts \in Nat /\ MaxCompactions \in Nat
  /\ MaxRestarts \in Nat /\ MaxLosses \in Nat

VARIABLES
  \* the browsers
  connected,    \* isConnected
  pending,      \* pendingRequests
  told,         \* how a submission ended for the user
  flushes,      \* how often a deferred prompt was sent, each time with a new id
  compacting,   \* a compact request is pending
  queue,        \* _compactionQueues
  failed,       \* of the flushed ones, failed while others are pending
  \* the carriers
  toServer,     \* frames
  toClient,     \* responses
  \* the server
  receipts,     \* controlOperations: the operations that have a receipt
  older,        \* the receipts that were inserted before an operation's
  response,     \* their promises
  settled,      \* receipts that are settled
  waiting,      \* requests whose response is awaited for the current connection
  starting,     \* executions with a receipt that are neither accepted nor failed
  turns,        \* executions with a receipt that are accepted and not settled
  unrecorded,   \* requests without operationId that are executed
  \* history
  executed,     \* executions that were accepted since the server started
  earlier,      \* operations that were accepted before
  met,          \* operations that were active when an operation got its receipt,
                \* and those that got one since
  drops, timeOuts, compactions, restarts

browserVars == <<connected, pending, told, flushes, compacting, queue, failed>>
carrierVars == <<toServer, toClient>>
serverVars  == <<receipts, older, response, settled, waiting, starting, turns, unrecorded>>
historyVars == <<executed, earlier, met>>
boundVars   == <<drops, timeOuts, compactions, restarts>>
vars        == <<browserVars, carrierVars, serverVars, historyVars, boundVars>>

OfClient(c)   == {op \in Op : Owner[op] = c}
Resumable     == Op \ Deferred
HasReceipt(op) == op \in receipts

-------------------------------------------------------------------------------
(* The browser *)

\* The last request of an operation.  A resumable one keeps its id when it is
\* sent again.
Request(op) == [op |-> op, id |-> flushes[op]]

\* Frames of a set of requests, one after the other.
Sent(c, requests) == [toServer EXCEPT ![c] = @ \o SetToSeq(requests)]

\* send, by prompt, steer or a fork.
Submit(op) ==
  /\ connected[Owner[op]] /\ op \in Resumable
  /\ told[op] = "nothing" /\ op \notin pending
  /\ pending' = pending \cup {op}
  /\ toServer' = Sent(Owner[op], {Request(op)})
  /\ UNCHANGED <<connected, told, flushes, compacting, queue, failed, toClient, serverVars,
                 historyVars, boundVars>>

\* Bound: the prompts of one flush are answered before the next compaction.
StartCompaction(c) ==
  /\ connected[c] /\ ~compacting[c] /\ compactions < MaxCompactions
  /\ failed \cap OfClient(c) = {} /\ pending \cap Deferred \cap OfClient(c) = {}
  /\ compactions' = compactions + 1
  /\ compacting' = [compacting EXCEPT ![c] = TRUE]
  /\ UNCHANGED <<connected, pending, told, flushes, queue, failed, carrierVars, serverVars,
                 historyVars, drops, timeOuts, restarts>>

\* enqueueCompactionPrompt
QueuePrompt(op) ==
  /\ op \in Deferred /\ compacting[Owner[op]]
  /\ told[op] = "nothing" /\ op \notin queue \cup pending \cup failed
  /\ queue' = queue \cup {op}
  /\ UNCHANGED <<connected, pending, told, flushes, compacting, failed, carrierVars,
                 serverVars, historyVars, boundVars>>

\* flushCompactionQueue: all of the queue is sent.
Flushed(c) == queue \cap OfClient(c)

\* The compaction is answered, or timed out.
CompactionEnds(c) ==
  /\ connected[c] /\ compacting[c]
  /\ compacting' = [compacting EXCEPT ![c] = FALSE]
  /\ pending' = pending \cup Flushed(c)
  /\ queue' = queue \ Flushed(c)
  /\ flushes' = [op \in Op |-> IF op \in Flushed(c) THEN flushes[op] + 1 ELSE flushes[op]]
  /\ toServer' = Sent(c, {Request(op)' : op \in Flushed(c)})
  /\ UNCHANGED <<connected, told, failed, toClient, serverVars, historyVars, boundVars>>

\* A deferred prompt that failed, and those of its flush that failed before.
Refused(op, answer) == failed \cup (IF op \in Deferred /\ answer # "accepted" THEN {op} ELSE {})

\* A pending request is resolved or rejected.  A deferred prompt that failed
\* returns to the queue when all that were flushed with it are answered.
Ends(op, answer) ==
  /\ pending' = pending \ {op}
  /\ told' = IF op \in Resumable \/ answer = "accepted" THEN [told EXCEPT ![op] = answer] ELSE told
  /\ LET mine    == OfClient(Owner[op])
         refused == Refused(op, answer)
     IN IF pending \cap Deferred \cap mine \subseteq {op}
        THEN queue' = queue \cup (refused \cap mine) /\ failed' = refused \ mine
        ELSE failed' = refused /\ UNCHANGED queue

\* A response is ignored when its request is not pending any more.
ReceiveResponse(c) ==
  /\ toClient[c] # <<>>
  /\ toClient' = [toClient EXCEPT ![c] = Tail(@)]
  /\ LET request == Head(toClient[c]).request
     IN IF request.op \in pending /\ request = Request(request.op)
        THEN Ends(request.op, Head(toClient[c]).answer)
        ELSE UNCHANGED <<pending, told, queue, failed>>
  /\ UNCHANGED <<connected, flushes, compacting, toServer, serverVars, historyVars, boundVars>>

\* armPendingRequestTimeout: its timer is stopped while the connection is lost.
\* The frame, its execution and its response stay under way.
TimeOut(op) ==
  /\ op \in pending /\ connected[Owner[op]] /\ timeOuts < MaxTimeOuts
  /\ timeOuts' = timeOuts + 1
  /\ Ends(op, "timed out")
  /\ UNCHANGED <<connected, flushes, compacting, carrierVars, serverVars, historyVars, drops,
                 compactions, restarts>>

\* Mutant: every pending request is rejected.
KeepsNone(c) == {}

\* Requests that survive a disconnect: those with an operationId.
Kept(c) == pending \cap OfClient(c) \cap Resumable

\* handleTransportDisconnected: the others are rejected, the compaction among
\* them.  Its flush finds no connection, so its prompts are back in the queue.
Disconnected(lost) ==
  /\ connected' = [c \in Client |-> connected[c] /\ c \notin lost]
  /\ compacting' = [c \in Client |-> compacting[c] /\ c \notin lost]
  /\ LET gone     == UNION {OfClient(c) : c \in lost}
         rejected == (pending \cap gone) \ UNION {Kept(c) : c \in lost}
     IN /\ pending' = pending \ rejected
        /\ told' = [op \in Op |-> IF op \in rejected \ Deferred THEN "failed" ELSE told[op]]
        /\ queue' = queue \cup (rejected \cap Deferred) \cup (failed \cap gone)
        /\ failed' = failed \ gone
  /\ toServer' = [c \in Client |-> IF c \in lost THEN <<>> ELSE toServer[c]]
  /\ toClient' = [c \in Client |-> IF c \in lost THEN <<>> ELSE toClient[c]]

\* The responses of the lost connection are awaited for nobody.
Disconnect(c) ==
  /\ connected[c] /\ drops < MaxDrops /\ drops + restarts < MaxLosses
  /\ drops' = drops + 1
  /\ Disconnected({c})
  /\ waiting' = {request \in waiting : Owner[request.op] # c}
  /\ UNCHANGED <<flushes, receipts, older, response, settled, starting, turns, unrecorded,
                 historyVars, timeOuts, compactions, restarts>>

\* Mutant: the browser waits for the response of the lost connection.
SendsNothing(c) == {}

\* onReconnected: what is pending is sent again, with its ids.
Replayed(c) == pending \cap OfClient(c)

Reconnect(c) ==
  /\ ~connected[c]
  /\ connected' = [connected EXCEPT ![c] = TRUE]
  /\ toServer' = Sent(c, {Request(op) : op \in Replayed(c)})
  /\ UNCHANGED <<pending, told, flushes, compacting, queue, failed, toClient, serverVars,
                 historyVars, boundVars>>

-------------------------------------------------------------------------------
(* The server *)

\* Mutant: the response is broadcast.
AnsweredToAll(request, answer) ==
  [c \in Client |-> Append(toClient[c], [request |-> request, answer |-> answer])]

Answered(request, answer) ==
  [toClient EXCEPT ![Owner[request.op]] = Append(@, [request |-> request, answer |-> answer])]

Active == {op \in Op : HasReceipt(op) /\ op \notin settled}

Known(op) == HasReceipt(op)

Full == Cardinality(Active) >= MaxActive

\* handleMessage and runIdempotentControl
Receive(c) ==
  /\ toServer[c] # <<>>
  /\ toServer' = [toServer EXCEPT ![c] = Tail(@)]
  /\ LET request == Head(toServer[c])
         op      == request.op
     IN \/ /\ op \in Resumable /\ Known(op)
           /\ IF response[op] = "open"
              THEN waiting' = waiting \cup {request} /\ UNCHANGED toClient
              ELSE toClient' = Answered(request, response[op]) /\ UNCHANGED waiting
           /\ UNCHANGED <<receipts, older, response, settled, starting, unrecorded, met>>
        \/ /\ op \in Resumable /\ ~Known(op) /\ Full
           /\ toClient' = Answered(request, "failed")
           /\ UNCHANGED <<receipts, older, response, settled, waiting, starting, unrecorded, met>>
        \/ /\ op \in Resumable /\ ~Known(op) /\ ~Full
           /\ receipts' = receipts \cup {op}
           /\ older' = [older EXCEPT ![op] = receipts]
           /\ response' = [response EXCEPT ![op] = "open"]
           /\ settled' = settled \ {op}
           /\ met' = [o \in Op |-> IF o = op THEN Active ELSE met[o] \cup {op}]
           /\ waiting' = waiting \cup {request}
           /\ starting' = [starting EXCEPT ![op] = @ + 1]
           /\ UNCHANGED <<toClient, unrecorded>>
        \/ /\ op \in Deferred
           /\ waiting' = waiting \cup {request}
           /\ unrecorded' = unrecorded \cup {request}
           /\ UNCHANGED <<toClient, receipts, older, response, settled, starting, met>>
  /\ UNCHANGED <<browserVars, turns, executed, earlier, boundVars>>

\* Mutant: the oldest settled receipt goes although there is room for it.
OneMore == Cardinality(receipts) - MaxCompleted + 1

Excess == Cardinality(receipts) - MaxCompleted

\* pruneControlOperations: the oldest settled receipts in excess are deleted.
Pruned(done) ==
  LET Place(op) == Cardinality((older[op] \cup {op}) \cap done)
  IN {op \in receipts : op \notin done \/ Place(op) > Excess}

\* The receipt, if it has one, is settled.
Settled(op) ==
  IF HasReceipt(op)
  THEN LET kept == Pruned(settled \cup {op})
       IN /\ receipts' = kept
          /\ older' = [o \in Op |-> IF o \in kept THEN older[o] \cap kept ELSE {}]
          /\ settled' = (settled \cup {op}) \cap kept
  ELSE UNCHANGED <<settled, receipts, older>>

\* The response goes to the connection that awaits it, if there is one.
Responds(request, answer) ==
  IF request \in waiting
  THEN toClient' = Answered(request, answer) /\ waiting' = waiting \ {request}
  ELSE UNCHANGED <<toClient, waiting>>

\* Pi took the operation.
Accept(op) ==
  /\ starting[op] > 0
  /\ starting' = [starting EXCEPT ![op] = @ - 1]
  /\ turns' = [turns EXCEPT ![op] = @ + 1]
  /\ executed' = [executed EXCEPT ![op] = @ + 1]
  /\ response' = [response EXCEPT ![op] = "accepted"]
  /\ Responds(Request(op), "accepted")
  /\ UNCHANGED <<browserVars, toServer, receipts, older, settled, unrecorded, earlier, met,
                 boundVars>>

\* It failed.
Fail(op) ==
  /\ starting[op] > 0
  /\ starting' = [starting EXCEPT ![op] = @ - 1]
  /\ response' = [response EXCEPT ![op] = "failed"]
  /\ Responds(Request(op), "failed")
  /\ Settled(op)
  /\ UNCHANGED <<browserVars, toServer, turns, unrecorded, historyVars, boundVars>>

\* Pi took a prompt that has no operationId, or it failed.
Answer(request, answer) ==
  /\ request \in unrecorded
  /\ unrecorded' = unrecorded \ {request}
  /\ executed' = IF answer = "accepted" THEN [executed EXCEPT ![request.op] = @ + 1] ELSE executed
  /\ Responds(request, answer)
  /\ UNCHANGED <<browserVars, toServer, receipts, older, response, settled, starting, turns,
                 earlier, met, boundVars>>

\* Its turn is over.
Settle(op) ==
  /\ turns[op] > 0
  /\ turns' = [turns EXCEPT ![op] = @ - 1]
  /\ Settled(op)
  /\ UNCHANGED <<browserVars, carrierVars, response, waiting, starting, unrecorded, historyVars,
                 boundVars>>

\* The receipts are only in memory.
Restart ==
  /\ restarts < MaxRestarts /\ drops + restarts < MaxLosses
  /\ restarts' = restarts + 1
  /\ Disconnected(Client)
  /\ receipts' = {} /\ older' = [op \in Op |-> {}] /\ settled' = {} /\ waiting' = {}
  /\ response' = [op \in Op |-> "open"]
  /\ starting' = [op \in Op |-> 0] /\ turns' = [op \in Op |-> 0] /\ unrecorded' = {}
  /\ earlier' = earlier \cup {op \in Op : executed[op] > 0}
  /\ executed' = [op \in Op |-> 0] /\ met' = [op \in Op |-> {}]
  /\ UNCHANGED <<flushes, drops, timeOuts, compactions>>

-------------------------------------------------------------------------------
Init ==
  /\ connected = [c \in Client |-> TRUE]
  /\ pending = {} /\ queue = {} /\ failed = {}
  /\ told = [op \in Op |-> "nothing"] /\ flushes = [op \in Op |-> 0]
  /\ compacting = [c \in Client |-> FALSE]
  /\ toServer = [c \in Client |-> <<>>] /\ toClient = [c \in Client |-> <<>>]
  /\ receipts = {} /\ older = [op \in Op |-> {}] /\ settled = {} /\ waiting = {}
  /\ response = [op \in Op |-> "open"]
  /\ starting = [op \in Op |-> 0] /\ turns = [op \in Op |-> 0] /\ unrecorded = {}
  /\ executed = [op \in Op |-> 0] /\ earlier = {} /\ met = [op \in Op |-> {}]
  /\ drops = 0 /\ timeOuts = 0 /\ compactions = 0 /\ restarts = 0

Outcome == {"accepted", "failed"}

Next ==
  \/ \E op \in Op : \/ Submit(op) \/ QueuePrompt(op) \/ TimeOut(op)
                     \/ Accept(op) \/ Fail(op) \/ Settle(op)
  \/ \E request \in unrecorded, answer \in Outcome : Answer(request, answer)
  \/ \E c \in Client :
       \/ StartCompaction(c) \/ CompactionEnds(c) \/ ReceiveResponse(c)
       \/ Disconnect(c) \/ Reconnect(c) \/ Receive(c)
  \/ Restart

Spec == Init /\ [][Next]_vars

\* The carrier delivers and comes back, the server executes what it received,
\* and a compaction is answered.
FairSpec ==
  /\ Spec
  /\ \A c \in Client : /\ WF_vars(ReceiveResponse(c)) /\ WF_vars(Reconnect(c))
                       /\ WF_vars(Receive(c)) /\ WF_vars(CompactionEnds(c))
                       /\ WF_vars(\E request \in unrecorded, answer \in Outcome :
                                    Owner[request.op] = c /\ Answer(request, answer))
  /\ \A op \in Op : WF_vars(Accept(op) \/ Fail(op)) /\ WF_vars(Settle(op))

-------------------------------------------------------------------------------
(* Properties *)

\* The maps and queues are well formed (WsAgentAdapter, WsHandler.controlOperations).
TypeOK ==
  /\ connected \in [Client -> BOOLEAN] /\ compacting \in [Client -> BOOLEAN]
  /\ pending \subseteq Op /\ queue \subseteq Deferred /\ failed \subseteq Deferred
  /\ told \in [Op -> Outcome \cup {"timed out", "nothing"}]
  /\ \A c \in Client : /\ \A i \in DOMAIN toServer[c] : toServer[c][i].op \in OfClient(c)
                       /\ \A i \in DOMAIN toClient[c] :
                            /\ toClient[c][i].request.op \in OfClient(c)
                            /\ toClient[c][i].answer \in Outcome
  /\ receipts \subseteq Op \ Deferred /\ settled \subseteq receipts
  /\ older \in [Op -> SUBSET receipts]
  /\ response \in [Op -> Outcome \cup {"open"}]
  /\ waiting \cup unrecorded \subseteq [op : Op, id : Nat]
  /\ {starting, turns, executed, flushes} \subseteq [Op -> Nat]

\* An operation that was executed is started again only when at least MaxCompleted
\* others were active when it got its receipt or got one since: duplicated frames,
\* lost responses, time-outs and reconnects alone never cause it
\* (runIdempotentControl, pruneControlOperations).
StartedOnceInWindow ==
  [][\A op \in Resumable :
       starting'[op] > starting[op] /\ executed[op] > 0 => Cardinality(met[op]) >= MaxCompleted]_vars

\* An operation never runs twice at the same time, pruned receipts included.
OneAtATime == \A op \in Resumable : starting[op] + turns[op] <= 1

\* Neither twice in the window nor twice at once (WsHandler.runIdempotentControl).
ExecutedOnceAtATime == StartedOnceInWindow /\ []OneAtATime

\* What the server said has failed, and the user may submit again, does not run
\* later (handleTransportDisconnected keeps what the server may still execute).
FailedStaysUnrun ==
  [][\A op \in Resumable : told[op] = "failed" => executed'[op] <= executed[op]]_vars

\* What the user was told was accepted was executed, before a restart or after it.
AcceptedWasExecuted ==
  \A op \in Op : told[op] = "accepted" => executed[op] > 0 \/ op \in earlier

Held == queue \cup pending \cup failed

\* A prompt typed during a compaction waits in the browser until a response
\* says that it was accepted, whatever fails on the way (flushCompactionQueue).
DeferredIsKept ==
  [][\A op \in Deferred : op \in Held => op \in Held' \/ told'[op] = "accepted"]_vars

\* What the browser says of a prompt is true: what was accepted was executed, what
\* failed is not executed later, and what is still to be sent is there.  Of a request
\* that timed out it says neither (handleMessage, handleTransportDisconnected,
\* armPendingRequestTimeout, flushCompactionQueue).
ToldIsTrue == FailedStaysUnrun /\ []AcceptedWasExecuted /\ DeferredIsKept

\* What timed out, and the user may submit again, does not run later.
TimedOutStaysUnrun ==
  [][\A op \in Resumable : told[op] = "timed out" => executed'[op] <= executed[op]]_vars

\* A submission is answered, across lost connections (onReconnected).
SubmittedIsAnswered == \A op \in Resumable : op \in pending ~> told[op] # "nothing"

\* What a connected browser waits for is under way: the frame, its execution by the server,
\* which answers to the present connection, or the response (onReconnected,
\* runIdempotentControl).
Executing(op) == Request(op) \in waiting /\ (starting[op] > 0 \/ Request(op) \in unrecorded)
Responded(op) == \E i \in DOMAIN toClient[Owner[op]] : toClient[Owner[op]][i].request = Request(op)
AnswerIsDue == \A op \in pending : connected[Owner[op]] =>
  Request(op) \in ToSet(toServer[Owner[op]]) \/ Executing(op) \/ Responded(op)

\* No submission is executed twice: "Replay unresolved prompts ... without
\* executing accepted operations twice".
ExecutedOnce ==
  \A op \in Op : executed[op] + (IF op \in earlier THEN 1 ELSE 0) <= 1

\* A prompt typed during a compaction is executed some time after it
\* (flushCompactionQueue: "queued work remains valid and must not disappear").
QueuedIsExecuted == \A op \in Deferred : op \in queue ~> executed[op] > 0

===============================================================================
