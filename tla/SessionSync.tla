------------------------------- MODULE SessionSync -------------------------------
(***************************************************************************)
(* How one conversation reaches the browsers that show it: the revisions,  *)
(* subscriptions and file watching of src/server/ws-handler.ts, the        *)
(* carrier between them, and the sync base, queue and recovery of          *)
(* src/client/ws-agent-adapter.ts.                                         *)
(*                                                                         *)
(* A session state is [file, live]: how much of the JSONL it shows, and    *)
(* what only the server's memory adds to it.  Its hash and its JSON are    *)
(* the state itself; a patch is the pair (base, result), which applies     *)
(* to its base alone.  The content of messages is left out: a content      *)
(* sync remembers which cached bodies it leaves to the browser.            *)
(*                                                                         *)
(* session_sync frames all travel in the carrier's bulk lane, so each      *)
(* browser receives them in order.  Frames stamped with another nonce      *)
(* never meet the queue: every change of nonce clears it.                  *)
(***************************************************************************)
EXTENDS Integers, Sequences, FiniteSets

CONSTANTS
  Client,       \* browsers that show the session
  NoState,      \* an empty base: ""
  Idle,         \* no segmented transfer, no batch being hashed
  Segmented,    \* whether the backend offers segmented-session-sync
  MaxBatches,   \* bound: content_batch frames of one transfer
  MaxFile,      \* bound: how long the JSONL grows
  MaxLive,      \* bound: events of a turn that change the state
  MaxTurns,     \* bound: turns
  MaxRaces,     \* bound: appends that land between a read and a stat
  MaxRequests,  \* bound: subscriptions a browser sends of its own accord
  MaxDrops      \* bound: connections that break

ASSUME ConstantsAssumption ==
  /\ IsFiniteSet(Client)
  /\ Segmented \in BOOLEAN
  /\ MaxBatches \in Nat /\ MaxFile \in Nat \ {0} /\ MaxLive \in Nat /\ MaxTurns \in Nat
  /\ MaxRaces \in Nat /\ MaxRequests \in Nat /\ MaxDrops \in Nat

State == [file : 1 .. MaxFile, live : 0 .. MaxLive]

ASSUME NoStateAssumption == NoState \notin State

VARIABLES
  \* The session file and its watcher.
  file,        \* length of the JSONL
  noticed,     \* a file event waits for the server
  timer,       \* pendingDetachedSyncs has the session
  fileSize,    \* subscribedFileSizes of the session; 0: unset
  \* The server.
  turn,        \* the attached actor's state, or NoState
  revisions,   \* the state of each revision; the last is sessionRevisions
  subscribed,  \* clients with subscribedSession set
  last,        \* lastJson and lastHash of each client
  \* The carrier.
  open,        \* clients whose connection is open
  up,          \* subscribe_session commands on their way
  down,        \* session_sync frames on their way
  \* The browsers.
  active,      \* _sessionSubscriptionActive
  nonce,       \* _sessionNonce
  awaiting,    \* _awaitingFullSync is set, for the current nonce
  queue,       \* _pendingSessionSyncs
  parts,       \* _pendingSegmentedSessionSync
  batch,       \* the batch applySyncOps is hashing
  sync,        \* _syncJson and _syncHash
  syncRevision,\* _syncRevision; 0: undefined
  cached,      \* _cachedStateHash with its message inventory
  seen,        \* history: the newest revision the browser has shown
  spent        \* what is used up of the bounds

diskVars   == <<file, noticed, timer, fileSize>>
serverVars == <<turn, revisions, subscribed, last>>
wireVars   == <<open, up, down>>
clientVars == <<active, nonce, awaiting, queue, parts, batch, sync, syncRevision,
                cached, seen>>
vars       == <<diskVars, serverVars, wireVars, clientVars, spent>>

Op == {"full", "delta", "not_modified", "content", "content_manifest", "content_batch"}

\* `base` is the baseHash of a delta, and the inventory a content sync builds
\* on; `count` a manifest's batchCount and a batch's index.
Frame == [op : Op, revision : Nat, state : State, base : State \cup {NoState}, count : Nat]

\* `path` is empty in an unsubscription; `known`: knownMessageHashes is there.
Command == [path : BOOLEAN, cached : State \cup {NoState}, known : BOOLEAN]

Batch == [nonce : Nat, result : State, revision : Nat,
          inventory : State \cup {NoState}]

\* A segmented transfer; `next` is the batch it waits for.
Transfer == [revision : Nat, state : State, base : State \cup {NoState}, count : Nat, next : Nat]

ASSUME IdleAssumption == Idle \notin Batch \cup Transfer

-------------------------------------------------------------------------------
(* The server *)

Spent(what) == spent[what]
Spend(what) == spent' = [spent EXCEPT ![what] = @ + 1]

LastOf(s) == s[Len(s)]

\* Mutant: a state that was seen before the last one keeps its old revision.
ReusedRevisions(s) ==
  IF \E i \in DOMAIN revisions : revisions[i] = s THEN revisions ELSE Append(revisions, s)

\* revisionForState: only a change of the state makes a new revision.
RevisionsWith(s) ==
  IF revisions # <<>> /\ LastOf(revisions) = s THEN revisions ELSE Append(revisions, s)

\* Mutant: an update travels with the control frames.
SentAhead(c, frame) == <<frame>> \o down[c]

\* sendMessage: every session_sync is a bulk frame.
Sent(c, frame) == Append(down[c], frame)

\* pushSnapshotToSubscribers and pushUpdateToSubscribers: whoever has another
\* state gets it, whole when there is no base, or the patch is too large.
Push(s) ==
  LET after   == RevisionsWith(s)
      targets == {c \in subscribed : c \in open /\ last[c] # s}
      SyncOp(c, whole) ==
        [op |-> IF whole THEN "full" ELSE "delta", revision |-> Len(after), state |-> s,
         base |-> IF whole THEN NoState ELSE last[c], count |-> 0]
  IN \E whole \in SUBSET targets :
       /\ \A c \in targets : last[c] = NoState => c \in whole
       /\ revisions' = after
       /\ last' = [c \in Client |-> IF c \in targets THEN s ELSE last[c]]
       /\ down' = [c \in Client |->
                     IF c \in targets THEN Sent(c, SyncOp(c, c \in whole)) ELSE down[c]]

Detached == turn = NoState
DiskState(n) == [file |-> n, live |-> 0]

\* An append that lands between a read and a stat, or the other way round.
LandsBetween(n) ==
  /\ n \in {file, file + 1} \cap 1 .. MaxFile
  /\ n > file => Spent("races") < MaxRaces
  /\ file' = n
  /\ spent' = [spent EXCEPT !["races"] = @ + (n - file)]

\* pi, or a pi in a terminal, appends to the JSONL; the watcher will tell.
AppendFile ==
  /\ file < MaxFile
  /\ file' = file + 1
  /\ noticed' = TRUE
  /\ UNCHANGED <<timer, fileSize, serverVars, wireVars, clientVars, spent>>

\* notifySessionFileChanged: attached events remain authoritative.
FileNoticed ==
  /\ noticed
  /\ noticed' = FALSE
  /\ timer' = (timer \/ (Detached /\ subscribed # {}))
  /\ UNCHANGED <<file, fileSize, serverVars, wireVars, clientVars, spent>>

\* flushDetachedSessionSync, before it reads the file.
Publishes == Detached /\ subscribed # {} /\ fileSize # file

\* The size is taken first, the content read after it.
FlushDetached ==
  /\ timer
  /\ timer' = FALSE
  /\ IF Publishes
     THEN /\ fileSize' = file
          /\ \E n \in 1 .. MaxFile :
               /\ LandsBetween(n)
               /\ noticed' = (noticed \/ n > file)
               /\ Push(DiskState(n))
     ELSE UNCHANGED <<file, noticed, fileSize, revisions, last, down, spent>>
  /\ UNCHANGED <<turn, subscribed, open, up, clientVars>>

\* SessionActor.attach loads the state from disk.
StartTurn ==
  /\ Detached /\ Spent("turns") < MaxTurns
  /\ turn' = DiskState(file)
  /\ Spend("turns")
  /\ UNCHANGED <<diskVars, revisions, subscribed, last, wireVars, clientVars>>

\* A process event that changes the state.
TurnEvent ==
  /\ ~Detached /\ turn.live < MaxLive
  /\ turn' = [turn EXCEPT !.live = @ + 1]
  /\ Push(turn')
  /\ UNCHANGED <<diskVars, subscribed, open, up, clientVars, spent>>

\* Mutant: the release leaves the final state to the watcher.
PublishesNothing(s) == UNCHANGED <<revisions, last, down>>

PublishesRelease(s) == Push(s)

\* releaseActor: the file is read, then its size is taken; the live timings and
\* error survive in the snapshot, though not on disk.
EndTurn ==
  /\ ~Detached
  /\ turn' = NoState
  /\ \E n \in 1 .. MaxFile, live \in {0, turn.live} :
       /\ LandsBetween(n)
       /\ fileSize' = n
       /\ noticed' = (noticed \/ n > file)
       /\ PublishesRelease([file |-> file, live |-> live])
  /\ UNCHANGED <<timer, subscribed, open, up, clientVars>>

\* makeInitialSessionSync: nothing, the missing bodies, or everything.
InitialSync(cmd, s, count) ==
  LET Sync(op, n) == [op |-> op, revision |-> Len(RevisionsWith(s)), state |-> s,
                      base |-> IF cmd.known THEN cmd.cached ELSE NoState, count |-> n]
  IN CASE cmd.cached = s -> <<Sync("not_modified", 0)>>
       [] cmd.cached # s /\ cmd.known /\ Segmented ->
            <<Sync("content_manifest", count)>>
              \o [i \in 1 .. count |-> Sync("content_batch", i - 1)]
       [] cmd.cached # s /\ cmd.known /\ ~Segmented -> <<Sync("content", 0)>>
       [] OTHER -> <<Sync("full", 0)>>

\* cancelTransfer: what the carrier did not take yet is dropped.
Remaining(c, kept) == SubSeq(down[c], 1, kept)

Received(c) == Head(up[c])

Unsubscribe(c) ==
  /\ up[c] # <<>> /\ ~Received(c).path
  /\ up' = [up EXCEPT ![c] = Tail(@)]
  /\ \E kept \in 0 .. Len(down[c]) : down' = [down EXCEPT ![c] = Remaining(c, kept)]
  /\ subscribed' = subscribed \ {c}
  /\ last' = [last EXCEPT ![c] = NoState]
  /\ UNCHANGED <<diskVars, turn, revisions, open, clientVars, spent>>

SetsBase(c, s) == last' = [last EXCEPT ![c] = s]

AnswerWith(c, s) ==
  /\ up' = [up EXCEPT ![c] = Tail(@)]
  /\ subscribed' = subscribed \cup {c}
  /\ SetsBase(c, s)
  /\ revisions' = RevisionsWith(s)
  /\ \E kept \in 0 .. Len(down[c]), count \in 0 .. MaxBatches :
       down' = [down EXCEPT ![c] = Remaining(c, kept) \o InitialSync(Received(c), s, count)]
  /\ UNCHANGED <<turn, open, clientVars>>

SubscribeAttached(c) ==
  /\ up[c] # <<>> /\ Received(c).path /\ ~Detached
  /\ AnswerWith(c, turn)
  /\ UNCHANGED <<diskVars, spent>>

\* The file is read, then its size is taken, for every subscriber.
SubscribeDetached(c) ==
  /\ up[c] # <<>> /\ Received(c).path /\ Detached
  /\ \E n \in 1 .. MaxFile :
       /\ LandsBetween(n)
       /\ fileSize' = n
       /\ noticed' = (noticed \/ n > file)
  /\ AnswerWith(c, DiskState(file))
  /\ UNCHANGED timer

-------------------------------------------------------------------------------
(* A browser asks for the state *)

\* subscribeToSession offers its cached state when that is its sync base.
SubscribeCommand(forced, synced, inventory) ==
  LET canResume == ~forced /\ inventory # NoState /\ inventory = synced
  IN [path |-> TRUE, cached |-> IF canResume THEN inventory ELSE NoState,
      known |-> canResume \/ Segmented]

Send(c, cmd) == up' = IF c \in open THEN [up EXCEPT ![c] = Append(@, cmd)] ELSE up

\* requestFullSessionSync once no request is outstanding: the base goes, unless
\* it is the verified cache, and so does what was queued on it.
AskForState(c, forced) ==
  LET keeps     == ~forced /\ cached[c] # NoState /\ cached[c] = sync[c]
      synced    == IF keeps THEN sync[c] ELSE NoState
      inventory == IF forced THEN NoState ELSE cached[c]
  IN /\ awaiting' = [awaiting EXCEPT ![c] = TRUE]
     /\ sync' = [sync EXCEPT ![c] = synced]
     /\ syncRevision' = [syncRevision EXCEPT ![c] = IF keeps THEN @ ELSE 0]
     /\ cached' = [cached EXCEPT ![c] = inventory]
     /\ queue' = [queue EXCEPT ![c] = <<>>]
     /\ parts' = [parts EXCEPT ![c] = Idle]
     /\ Send(c, SubscribeCommand(forced, synced, inventory))

\* Mutant: a gap is logged, and nothing is requested.
DropsQueue(c, forced, left) ==
  /\ queue' = [queue EXCEPT ![c] = left]
  /\ UNCHANGED <<awaiting, sync, syncRevision, cached, parts, up>>

\* requestFullSessionSync: one request per scope; `left` is the queue if it is
\* already outstanding.
RequestFull(c, forced, left) ==
  IF awaiting[c]
  THEN /\ queue' = [queue EXCEPT ![c] = left]
       /\ UNCHANGED <<awaiting, sync, syncRevision, cached, parts, up>>
  ELSE AskForState(c, forced)

Asks(c) ==
  /\ Spent("requests") < MaxRequests
  /\ Spend("requests")

\* syncStateOnFocus, only while this backend drives the conversation.
Refocus(c) ==
  /\ active[c] /\ Asks(c)
  /\ Send(c, SubscribeCommand(FALSE, sync[c], cached[c]))
  /\ UNCHANGED <<diskVars, serverVars, open, down, clientVars>>

\* The answer to compact, whichever backend drives the conversation by then.
CompactionEnds(c) ==
  /\ Asks(c)
  /\ Send(c, SubscribeCommand(FALSE, sync[c], cached[c]))
  /\ UNCHANGED <<diskVars, serverVars, open, down, clientVars>>

\* session_attached of a session the browser started.
SessionAttached(c) ==
  /\ c \in open /\ Asks(c)
  /\ RequestFull(c, FALSE, queue[c])
  /\ UNCHANGED <<diskVars, serverVars, open, down, active, nonce, batch, seen>>

\* setSessionSubscriptionActive(false)
Deactivate(c) ==
  /\ active[c] /\ Asks(c)
  /\ active' = [active EXCEPT ![c] = FALSE]
  /\ nonce' = [nonce EXCEPT ![c] = @ + 1]
  /\ awaiting' = [awaiting EXCEPT ![c] = FALSE]
  /\ queue' = [queue EXCEPT ![c] = <<>>]
  /\ parts' = [parts EXCEPT ![c] = Idle]
  /\ Send(c, [path |-> FALSE, cached |-> NoState, known |-> FALSE])
  /\ UNCHANGED <<diskVars, serverVars, open, down, batch, sync, syncRevision, cached, seen>>

\* setSessionSubscriptionActive(true)
Activate(c) ==
  /\ ~active[c]
  /\ active' = [active EXCEPT ![c] = TRUE]
  /\ nonce' = [nonce EXCEPT ![c] = @ + 1]
  /\ AskForState(c, FALSE)
  /\ UNCHANGED <<diskVars, serverVars, open, down, batch, seen, spent>>

\* The connection breaks; what is on its way is lost and the server forgets the
\* client.
Disconnect(c) ==
  /\ c \in open /\ Spent("drops") < MaxDrops
  /\ Spend("drops")
  /\ open' = open \ {c}
  /\ up' = [up EXCEPT ![c] = <<>>]
  /\ down' = [down EXCEPT ![c] = <<>>]
  /\ subscribed' = subscribed \ {c}
  /\ last' = [last EXCEPT ![c] = NoState]
  /\ UNCHANGED <<diskVars, turn, revisions, clientVars>>

\* onReconnected: a request made on the old connection can never complete.
Reconnect(c) ==
  /\ c \notin open
  /\ open' = open \cup {c}
  /\ IF active[c]
     THEN LET keeps  == cached[c] # NoState /\ cached[c] = sync[c]
              synced == IF keeps THEN sync[c] ELSE NoState
          IN /\ awaiting' = [awaiting EXCEPT ![c] = TRUE]
             /\ sync' = [sync EXCEPT ![c] = synced]
             /\ syncRevision' = [syncRevision EXCEPT ![c] = IF keeps THEN @ ELSE 0]
             /\ queue' = [queue EXCEPT ![c] = <<>>]
             /\ parts' = [parts EXCEPT ![c] = Idle]
             /\ up' = [up EXCEPT ![c] = Append(@, SubscribeCommand(FALSE, synced, cached[c]))]
     ELSE UNCHANGED <<awaiting, sync, syncRevision, queue, parts, up>>
  /\ UNCHANGED <<diskVars, serverVars, down, active, nonce, batch, cached, seen, spent>>

-------------------------------------------------------------------------------
(* A browser receives frames *)

Frames(c) == down[c] # <<>>
Taken(c)  == down' = [down EXCEPT ![c] = Tail(@)]

\* enqueueSessionSync: a snapshot supersedes what is queued and answers the
\* request; deltas that come before it have no usable base.
EnqueueSync(c, m) ==
  IF m.op = "delta"
  THEN /\ queue' = [queue EXCEPT ![c] = IF awaiting[c] THEN @ ELSE Append(@, m)]
       /\ UNCHANGED awaiting
  ELSE /\ queue' = [queue EXCEPT ![c] = <<m>>]
       /\ awaiting' = [awaiting EXCEPT ![c] = FALSE]

ReceiveSync(c) ==
  /\ Frames(c) /\ Head(down[c]).op \notin {"content_manifest", "content_batch"}
  /\ Taken(c)
  /\ EnqueueSync(c, Head(down[c]))
  /\ UNCHANGED <<diskVars, serverVars, open, up, active, nonce, parts, batch, sync,
                 syncRevision, cached, seen, spent>>

\* completeSegmentedSessionSync: the assembled content enters the queue.
Complete(c, p) ==
  /\ parts' = [parts EXCEPT ![c] = Idle]
  /\ EnqueueSync(c, [op |-> "content", revision |-> p.revision, state |-> p.state,
                     base |-> p.base, count |-> 0])

\* Mutant: the transfer waits for a batch more than the manifest announced.
CollectOneMore(c, p) ==
  IF p.next > p.count
  THEN Complete(c, p)
  ELSE parts' = [parts EXCEPT ![c] = p] /\ UNCHANGED <<awaiting, queue>>

\* Collects one batch more, or starts with none.
Collect(c, p) ==
  IF p.next = p.count
  THEN Complete(c, p)
  ELSE parts' = [parts EXCEPT ![c] = p] /\ UNCHANGED <<awaiting, queue>>

ReceiveManifest(c) ==
  /\ Frames(c) /\ Head(down[c]).op = "content_manifest"
  /\ Taken(c)
  /\ LET m == Head(down[c])
     IN Collect(c, [revision |-> m.revision, state |-> m.state, base |-> m.base,
                    count |-> m.count, next |-> 0])
  /\ UNCHANGED <<diskVars, serverVars, open, up, active, nonce, batch, sync,
                 syncRevision, cached, seen, spent>>

\* A batch of another transfer is ignored: transferId is revision and hash.
IsPartOf(m, p) == p # Idle /\ m.revision = p.revision /\ m.state = p.state

\* A batch of the transfer is the next one; NothingIsOutOfStep checks it.
InStep(c) ==
  IsPartOf(Head(down[c]), parts[c]) => Head(down[c]).count = parts[c].next

ReceiveBatch(c) ==
  /\ Frames(c) /\ Head(down[c]).op = "content_batch"
  /\ Taken(c)
  /\ InStep(c)
  /\ IF IsPartOf(Head(down[c]), parts[c])
     THEN Collect(c, [parts[c] EXCEPT !.next = @ + 1])
     ELSE UNCHANGED <<awaiting, queue, parts>>
  /\ UNCHANGED <<diskVars, serverVars, open, up, active, nonce, batch, sync,
                 syncRevision, cached, seen, spent>>

-------------------------------------------------------------------------------
(* A browser applies what it queued *)

\* The revision, and the state, before the i-th queued operation.
RevisionBefore(c, i) == IF i = 1 THEN syncRevision[c] ELSE queue[c][i - 1].revision
StateBefore(c, i)    == IF i = 1 THEN sync[c] ELSE queue[c][i - 1].state

\* A delta must follow the revision before it.
RevisionGap(c) ==
  \E i \in DOMAIN queue[c] :
    /\ queue[c][i].op = "delta"
    /\ \/ RevisionBefore(c, i) = 0
       \/ queue[c][i].revision # RevisionBefore(c, i) + 1

\* applySyncOps: every delta names the state it patches.  A batch that passed the
\* revision check always does: NothingIsOutOfStep checks it.
Chained(c) ==
  \A i \in DOMAIN queue[c] :
    queue[c][i].op = "delta" =>
      StateBefore(c, i) # NoState /\ queue[c][i].base = StateBefore(c, i)

\* A not_modified that is not about the state at hand.
NotModifiedMismatch(c) ==
  /\ queue[c][1].op = "not_modified"
  /\ sync[c] = NoState \/ sync[c] # queue[c][1].state

\* Bodies that the browser offered are gone, or may be, with its inventory.
LacksBodies(c) ==
  /\ queue[c][1].op = "content"
  /\ queue[c][1].base # NoState /\ cached[c] # queue[c][1].base

OnlyNotModified(c) == Len(queue[c]) = 1 /\ queue[c][1].op = "not_modified"

CanFlush(c) == batch[c] = Idle /\ queue[c] # <<>>

\* applySessionSyncBatch gives up before it computes anything.
RejectBatch(c) ==
  /\ CanFlush(c)
  /\ RevisionGap(c) \/ NotModifiedMismatch(c) \/ LacksBodies(c)
  /\ RequestFull(c, TRUE, <<>>)
  /\ UNCHANGED <<diskVars, serverVars, open, down, active, nonce, batch, seen, spent>>

Shown(c, revision) == seen' = [seen EXCEPT ![c] = IF @ > revision THEN @ ELSE revision]

\* The cached state is confirmed.
ConfirmState(c) ==
  /\ CanFlush(c) /\ ~RevisionGap(c)
  /\ OnlyNotModified(c) /\ ~NotModifiedMismatch(c)
  /\ queue' = [queue EXCEPT ![c] = <<>>]
  /\ syncRevision' = [syncRevision EXCEPT ![c] = queue[c][1].revision]
  /\ Shown(c, queue[c][1].revision)
  /\ UNCHANGED <<diskVars, serverVars, wireVars, active, nonce, awaiting, parts, batch,
                 sync, cached, spent>>

\* The patches are applied at once; the hash of their result comes later.
FlushBatch(c) ==
  /\ CanFlush(c) /\ ~RevisionGap(c) /\ ~NotModifiedMismatch(c)
  /\ ~OnlyNotModified(c) /\ Chained(c)
  \* Bodies that were offered may still be there although the inventory moved on.
  /\ LacksBodies(c) => cached[c] # NoState
  /\ batch' = [batch EXCEPT ![c] =
                 [nonce |-> nonce[c],
                  result |-> LastOf(queue[c]).state,
                  revision |-> LastOf(queue[c]).revision,
                  inventory |-> IF queue[c][1].op = "content" /\ Len(queue[c]) = 1
                                THEN queue[c][1].state ELSE NoState]]
  /\ queue' = [queue EXCEPT ![c] = <<>>]
  /\ UNCHANGED <<diskVars, serverVars, wireVars, active, nonce, awaiting, parts, sync,
                 syncRevision, cached, seen, spent>>

Hashed(c) == batch[c] # Idle

InScope(c) == batch[c].nonce = nonce[c]

CommitBatch(c) ==
  /\ Hashed(c) /\ InScope(c)
  /\ sync' = [sync EXCEPT ![c] = batch[c].result]
  /\ syncRevision' = [syncRevision EXCEPT ![c] = batch[c].revision]
  /\ cached' = [cached EXCEPT ![c] = batch[c].inventory]
  /\ Shown(c, batch[c].revision)
  /\ batch' = [batch EXCEPT ![c] = Idle]
  /\ UNCHANGED <<diskVars, serverVars, wireVars, active, nonce, awaiting, queue, parts, spent>>

ForgetBatch(c) ==
  /\ Hashed(c) /\ ~InScope(c)
  /\ batch' = [batch EXCEPT ![c] = Idle]
  /\ UNCHANGED <<diskVars, serverVars, wireVars, active, nonce, awaiting, queue, parts,
                 sync, syncRevision, cached, seen, spent>>

-------------------------------------------------------------------------------
\* A browser opens the session, with or without a state that its cache restored.
Init ==
  /\ file \in 1 .. MaxFile /\ noticed = FALSE /\ timer = FALSE /\ fileSize = 0
  /\ turn = NoState /\ revisions = <<>> /\ subscribed = {}
  /\ last = [c \in Client |-> NoState]
  /\ open = Client
  /\ cached \in [Client -> {NoState} \cup {DiskState(n) : n \in 1 .. file}]
  /\ sync = cached
  /\ up = [c \in Client |-> <<SubscribeCommand(FALSE, sync[c], cached[c])>>]
  /\ down = [c \in Client |-> <<>>]
  /\ active = [c \in Client |-> TRUE] /\ nonce = [c \in Client |-> 0]
  /\ awaiting = [c \in Client |-> TRUE]
  /\ queue = [c \in Client |-> <<>>] /\ parts = [c \in Client |-> Idle]
  /\ batch = [c \in Client |-> Idle] /\ syncRevision = [c \in Client |-> 0]
  /\ seen = [c \in Client |-> 0]
  /\ spent = [what \in {"turns", "races", "requests", "drops"} |-> 0]

Serves(c)   == Unsubscribe(c) \/ SubscribeAttached(c) \/ SubscribeDetached(c)
Receives(c) == ReceiveSync(c) \/ ReceiveManifest(c) \/ ReceiveBatch(c)
Flushes(c)  == RejectBatch(c) \/ ConfirmState(c) \/ FlushBatch(c)
Commits(c)  == CommitBatch(c) \/ ForgetBatch(c)

Next ==
  \/ AppendFile \/ FileNoticed \/ FlushDetached
  \/ StartTurn \/ TurnEvent \/ EndTurn
  \/ \E c \in Client :
       \/ Serves(c) \/ Receives(c) \/ Flushes(c) \/ Commits(c)
       \/ Refocus(c) \/ CompactionEnds(c) \/ SessionAttached(c)
       \/ Deactivate(c) \/ Activate(c) \/ Disconnect(c) \/ Reconnect(c)

Spec == Init /\ [][Next]_vars

\* Node serves commands, timers and file events; the browser frames and hashes;
\* a lost connection is tried again.  A turn, an append, a request and a drop
\* may always stay out.
Fairness ==
  /\ WF_vars(FileNoticed) /\ WF_vars(FlushDetached)
  /\ \A c \in Client :
       /\ WF_vars(Serves(c)) /\ WF_vars(Receives(c))
       /\ WF_vars(Flushes(c)) /\ WF_vars(Commits(c)) /\ WF_vars(Reconnect(c))

FairSpec == Spec /\ Fairness

-------------------------------------------------------------------------------
(* Properties *)

\* The state is well formed (WsHandler.sessionRevisions, its clients, and the adapter's
\* sync fields).
TypeOK ==
  /\ file \in 1 .. MaxFile /\ fileSize \in 0 .. MaxFile
  /\ {noticed, timer} \subseteq BOOLEAN
  /\ turn \in State \cup {NoState}
  /\ revisions \in Seq(State)
  /\ {subscribed, open} \subseteq SUBSET Client
  /\ \A c \in Client :
       /\ {last[c], sync[c], cached[c]} \subseteq State \cup {NoState}
       /\ up[c] \in Seq(Command) /\ down[c] \in Seq(Frame) /\ queue[c] \in Seq(Frame)
       /\ active[c] \in BOOLEAN /\ awaiting[c] \in BOOLEAN
       /\ nonce[c] \in Nat /\ syncRevision[c] \in Nat /\ seen[c] \in Nat
       /\ batch[c] \in Batch \cup {Idle}
       /\ parts[c] = Idle \/ (parts[c] \in Transfer /\ parts[c].next < parts[c].count)

\* Whatever was lost, cancelled, dropped or overtaken while it hashed, a browser
\* shows at a revision exactly what the server had at that revision
\* (applySessionSyncBatch).
ShowsItsRevision ==
  \A c \in Client :
    sync[c] # NoState /\ syncRevision[c] # 0 =>
      /\ syncRevision[c] <= Len(revisions)
      /\ revisions[syncRevision[c]] = sync[c]

\* The view never returns to an older revision, not even when a batch is still
\* being hashed as its browser reconnects or asks again (_syncRevision).
NeverGoesBack ==
  \A c \in Client : syncRevision[c] # 0 => syncRevision[c] = seen[c]

\* With nothing on its way, a subscriber has what the server believes it has, so
\* the next delta applies (client.lastHash of the server, _syncHash of the
\* browser).
BasesAgree ==
  \A c \in Client :
    /\ c \in subscribed /\ up[c] = <<>> /\ down[c] = <<>>
    /\ queue[c] = <<>> /\ batch[c] = Idle
    => sync[c] = last[c]

\* The browser's paths for batches out of order, for deltas without a base and for
\* patches that miss theirs are never needed: consecutive revisions are chained,
\* through cancelled transfers, reconnects and new scopes (handleSegmentedSessionSync,
\* applySessionSyncBatch, applySyncOps).
NothingIsOutOfStep ==
  \A c \in Client :
    /\ down[c] # <<>> /\ Head(down[c]).op = "content_batch" => InStep(c)
    /\ CanFlush(c) /\ ~RevisionGap(c) /\ ~NotModifiedMismatch(c) => Chained(c)

\* Between the two ends no patch goes astray (flushDetachedSessionSync, applySyncOps).
PatchesFit == BasesAgree /\ NothingIsOutOfStep

\* Whether the browser shows all the server could show it.  An attached session
\* shows its turn from the turn's first event on.
UpToDate(c) ==
  /\ Detached => sync[c] # NoState /\ sync[c].file = file
  /\ ~Detached /\ turn.live > 0 => sync[c] = turn

\* Once nothing more happens to a session, every browser that has it open comes
\* to show all of it (flushDetachedSessionSync, requestFullSessionSync).
CatchesUp == \A c \in Client : <>[](active[c] /\ c \in open => UpToDate(c))
EventuallyUpToDate == [](Spent("races") = 0) => CatchesUp

\* A browser whose user works on another backend ends up without a subscription
\* (setSessionSubscriptionActive).
InactiveIsUnsubscribed ==
  \A c \in Client :
    ~active[c] /\ up[c] = <<>> /\ down[c] = <<>> /\ queue[c] = <<>> /\ batch[c] = Idle
      => c \notin subscribed

===============================================================================
