# A specification of pipane

pipane is a web client for the `pi` coding agent. A server on the user's machine
(the *backend*) keeps a pool of `pi --mode rpc` subprocesses and serves
conversations to browsers, either over a local WebSocket or over a WebRTC
DataChannel that a *rendezvous* server helps to set up. This directory specifies
the parts of it whose correctness depends on the order in which things happen,
model-checks them on small instances with TLC and proves some of their
properties for all instances with TLAPS.

* [The system](#the-system): parts, their state, how they interact, what is hard
* [The modules](#the-modules): what each one models, and how
* [The runs](#the-runs): what each one shows, bounds, fairness
* [The proofs](#the-proofs)
* [Where the code and its documents disagree](#where-the-code-and-its-documents-disagree)
* [What is not modelled](#what-is-not-modelled)

Source paths below are relative to the repository's `src/`.

## The system

| part | state it keeps | operations | talks to |
|---|---|---|---|
| `server/process-pool.ts` | processes per directory, one lease per process, the *decommissioning* marks, pending RPCs | prewarm, acquire, release, RPC, evict, reload, exit | `ws-handler.ts`, `server.ts`, the children |
| `server/session-actor.ts`, `session-registry.ts` | phase, lease, turn generation, steering queue, and one mailbox (`commandTail`) per session | attach, beginTurn, applyProcessEvent, release | `ws-handler.ts` |
| `server/ws-handler.ts`, commands | receipts of operations, observers of turns | prompt, fork_prompt, new_session, steer, remove_steering, abort, hard_kill, compact, stats | pool, actors, pi |
| `server/ws-handler.ts`, synchronisation | the last state sent to each client, revision of each session, file size of each subscribed session, timers of detached refreshes | subscribe, flush, push, release | `session-jsonl.ts`, carriers |
| `client/ws-agent-adapter.ts` | the state on show with its hash and revision, a queue of sync frames, pending requests, the compaction queue | send, receive, reconnect, select | carriers, user interface |
| `server/frame-connection.ts`, `frame-router.ts`, `shared/data-channel-framing.ts` | two lanes of frames, bytes queued, partial frames | send, sendSequence, cancelTransfer, flush, accept | the sockets |
| `server/backend-protocol-handler.ts`, `client/data-channel-backend-api.ts` | active and completed requests of each device; pending requests | request, replay | `local-backend-api.ts` |
| `server/local-backend-api.ts` | uploads in progress and their manifests on disk | create, append, complete, abort, expire | file system |
| `server/session-index.ts`, `local-settings.ts` | the index in memory and on disk; the settings and their file | list, invalidate; load, save, patch, reload | file system, watchers |
| `client/session-picker.ts` | the list on show, one request in flight, deletions | refresh, merge, delete, open | adapter |
| `server/update-manager.ts` | the memoised check, one active update | check, run | child processes |
| `rendezvous/rendezvous-hub.ts`, `trust-store.ts` | connections of backends and browsers, routes, tickets, accounts, devices, invitations | register, connect, pair, revoke | backends, browsers |
| `server/rendezvous-client.ts`, `backend-webrtc.ts`, `backend-trust-store.ts`, `backend-connection-authorizer.ts` | registration, peers, used tickets, the paired account | register, reconnect, offer, authorize, confirm | hub, browsers |
| `client/*-frame-transport.ts`, `browser-rendezvous-client.ts` | the attempt under way, the current connection, the timer of the next one | connect, close, reconnect | hub, backend |
| `client/workspace-backend-client.ts`, `remote-backend-manager.ts` | the hosts, which of them is active, what waits for which | select, activate, remove, discover | carriers, adapters |

The path of a prompt: the browser's adapter gives it an `operationId`
(**OperationReceipts**) and hands it to a carrier (**FrameQueue**); the handler
enqueues a task in the mailbox of the session's actor (**SessionRuntime**), which
leases a process (**ProcessPool**), sends pi the prompt and follows the turn's
events; the session's changing state is pushed to every subscriber as revisions
(**SessionSync**), again through the carrier. Which host all this happens on is
decided by the workspace (**Workspace**, over one **BrowserCarrier** for each
host), which conversations there are by the list (**Catalog**), and files are
attached through the semantic protocol (**BackendApi** over **FileUpload**).

What is hard:

* JavaScript runs to completion, but every `await` is a point where another
  handler, a child's exit or a timer may run. Most of the state that a handler
  read before an await may be stale after it.
* Child processes may ignore, survive or outrun what the server believes of
  them: a timed-out RPC is still executing, a signalled process has not exited,
  a process that a signal ended never gets an `exitCode`.
* Carriers break and come back; what was in flight is lost in both directions,
  and the browser sends again what it has no answer to.
* Browser and server each keep a copy of the conversation and send differences.
  A difference is only good for its base.
* Two lanes reorder frames on purpose; cancellation removes half-sent frames.
* Limits (processes, receipts, queued bytes) are checked before an await and used
  after it.
* The rendezvous service and each backend keep their own record of who owns the
  backend. They agree through messages that a lost link drops, and a pairing or a
  revocation may be under way while the other side decides.

`PROJECT.json` lists each of these where it bites (*hazards*), and the property
that would notice.

## The modules

An action is one synchronous segment of the code: what runs between two awaits,
or in one callback. Where an action has a guard, an early return or a condition
of the code is its reason. Data is reduced to what the properties tell apart.
`PROJECT.json` maps every definition to the lines it stands for. A definition
whose comment begins with *Mutant* is a plausible mistake, used to confirm that
a property would notice it; no specification refers to one.

### ProcessPool, LeaseContract

`ProcessPool` is `RpcProcessPool` and `RpcProcessLease` with their callers: the
`acquireProcess` loop of `ws-handler.ts`, its direct leases, and the timers and
exit handlers of `server.ts` that prewarm. `os` is what the operating system
knows of a process, `leases`, `decommissioning` and `pending` are the pool's
maps of the same name, and `executing` is what pi really works on, so that a
timed-out RPC and a finished one differ. `Exit` and `Finalize` are apart because
the exit event is delivered later than the process ends. `prewarm` waits between
its spawns (`warming`). A dead process's identity may be used again once nobody
refers to it, so a handful of identities stand for any number of processes.

`LeaseContract` is what callers rely on: at most one holder, no grant of a doomed
process, and a lease ends only by its holder or by the end of the process.
`ImplementsContract` says that the pool is a refinement of it: `present` is the
set of pooled processes, `doomed` the marked ones among them, `holder` is
`leases`, and `used` is the set of operations that have had a lease.

### SessionRuntime

One session: actor, registry entry and command handlers. `mailbox` is the chain
of promises `commandTail`; only the task at its head runs, in steps named by
`step`; a handler's code outside the mailbox is at `at[r]`. The steps of one
prompt, for instance, are `BeginStart` → `Acquire` (its process comes from the
pool, here through what `LeaseContract` promises) → `Switched` → `ControlApplied`
→ `PromptAccepted` → `Accept` → `StartEnds`, then the wait for settlement outside
the mailbox, then `BeginSettle` → `Settle`. Every RPC of these may be refused,
time out, or be cut off by an exit, which `Catch` and `Fail` handle as the code's
`catch` blocks do. A hard kill, an exit event and turn events enter the same
mailbox. `turn`, `stage` and `queued` are pi itself, which is outside the
repository: one turn at a time, announced by `agent_start`, `agent_end`,
`agent_settled`, with steering consumed between.

### SessionSync

A session state is the pair of how much of the JSONL file it shows and what only
memory adds to it; its hash is itself. The server half is `subscribe_session`,
`pushSnapshotToSubscribers`, the debounced flush of detached sessions and
`releaseActor`; the browser half is the adapter's sync queue, its batch that is
hashed asynchronously, its segmented transfer and its three ways to start over
(gap, reconnect, scope change). `revisions` is a history: the state each revision
number was given to.

### FrameQueue

`PrioritizedFrameQueue`, its two adapters and the decoder. A frame's size is its
number of physical messages. What never changes of a frame is in `made`, by its id;
the lanes hold ids, cancellations and at most one sequence, and `nextIndex` says how
much of a frame is written. `flush` is a loop that returns when the carrier is
above its high-water mark; each round is an action, since frames are received
meanwhile. `ThroughRouter` says whether the connection is seen through
`RoutedFrameConnection`, as DataChannels are. `dropped`, `delivered`, `queued`, the ranks
of frames and sequences and `overflow` are histories for the properties.

### OperationReceipts

`runIdempotentControl` with its map of receipts and its pruning, and the
browser's `pendingRequests`, their replay on a reconnect, and the queue of
prompts typed during a compaction. An operation is *accepted* or *fails*, and an
accepted one *settles* later, as SessionRuntime details; a settled receipt is not yet a
pruned one, and active receipts count in the window. A prompt typed during a compaction
has no `operationId`: each flush sends it as a new request, told apart by `flushes`, and
the server executes it without a receipt (`unrecorded`). One flush of the
compaction queue is under way in a browser at a time. While the browser is connected, a
request may time out at any moment (`TimeOut`); its frame, its execution and its response
stay where they are, and the response is ignored. `met` is a history: the
operations that were active when an operation got its receipt, and those that got one
since.

### TrustStore, Rendezvous

`TrustStore` is the file of the rendezvous service: accounts, devices, owners,
retained revocations, completed pairings, invitations, used tickets. Each of its
actions is one operation of `RendezvousTrustStore`, written to disk before it
returns. A challenge and its answer are one step: what the first checks, the
second or `confirmPairing` checks again. Keys, signatures and secrets are left
out; whoever holds an id holds the capability. `lapsed` is what has expired.

`Rendezvous` extends it with the hub (`link`, `stale`, `hubPairs`, `routes` are
its maps of backends, pairings and routes), the two directions of each link, the
backend's client (`known` is `registered`, `active` is `activePairings`,
`awaiting` is `confirmationResolvers`), its peers and its own file (`bOwner`,
`bPairs`, `bSpent`, `bUsed`, `bRevoked`). The hub handles a command, with the
operation of the store that it makes, in one step. A link goes from `down` over
`fresh` to `joined`; the hub may drop it first (`left`), or the backend may lose
it while the hub still holds the dead socket (`stale`) until its heartbeat or a
newer registration removes it. What resolves a confirmation and what continues
after it are two steps (`PairingConfirmed`, `CompletePairing`): one chunk of the
socket may hold several messages, and the next is handled first (`Coalescing`).
Negotiation of a peer is one step, which succeeds or fails; the relayed
descriptions, candidates and bindings change no other state. The
`open_pairing` commands of one registration are one command, and
`pairing_opened` is left out. Browsers open one socket per connection. With one
backend, as in the runs, a hub that drops the link and one that restarts differ
only in the sockets that are not registered.

### FileUpload, BackendApi

`FileUpload` is the store of uploads of `local-backend-api.ts`. A call of one of
its four operations runs in steps that end at an await: the sweep of expired
uploads, the directory, the write of a chunk, the joins of an `append` that meets
another of the same chunk, the wait for writes that an abort or a completion
makes, the reading of the parts. `tracked`, `chunks` and `received` are the
process's map, `dirs` what is on disk, and `stale` and `aged` the two expiries.
`BackendApi` extends it with the protocol by which browsers call it: `completed`
is the cache of answers with its bound, a request that arrives again while it
runs joins the execution, and a browser sends again after a reconnect what it has
no answer to. `stage` follows the loop of `file-upload.ts` for each file. A document that was uploaded
may be mentioned by prompts at any later time and any number of times (`Prompt`): its path
goes into the text without a question to the backend, so it may be gone by then. Images
that were uploaded are put into the prompt themselves, and no session mentions their path;
that changes no state here and is left out. `referenced` is what some session file
mentions, `aged` and `reclaimed` are the uploads whose seven days have passed and those
that a sweep aborted.
`UploadSpec` is the abstract specification of the store alone;
`ImplementsUploads` says that the protocol does nothing else to it.

### BrowserCarrier, Workspace

`BrowserCarrier` is `WebRtcFrameTransport` with the rendezvous client that it
makes for each attempt: `stage` is what the promise of `connect()` waits for,
`live` whether there is a triple of sockets that handlers compare themselves
with, `timer` the next attempt, `closed` `manuallyClosed`. An attempt that fails
collects its diagnostics before it closes anything; `doomed` is one that was
authenticated meanwhile.

`Workspace` has one carrier and one subscription flag for each host, and the
operations of `WorkspaceBackendClient`, step by step between their awaits:
`Begin`, `SessionsListed`, `Paused`, `Initialized` for a selection, `RemoveBegins`
and `Removed`, and the five-second discovery. `joining` is `context.connecting`:
whoever calls `connectContext` meanwhile shares its promise. Simplifications:
capabilities and the first listing of sessions are one await; every host is
compatible; a preview painted from the cache does not count as a subscription; a
host that was removed by the user is not authorized again in the same run; and
the page's own retry of its first load is left out.

### Catalog

What the sidebar shows and where it comes from: `file` is the version of each
session file, `index` the entries of `SessionIndex`, `rule` and `written` the
settings in memory and in their file, `fetch` and `again` the picker's request in
flight and its dirty mark, `list` its rows, `optimistic` the adapter's entries for
sessions that have no row yet. `Answer` is a whole `listSessions`, which is
synchronous; a file of `raced` grows between its stat and its read. `watchFile`
with its debounce is one step (`Reload`), and so is the write of the index with
its answer. One browser with the local backend; another browser is an outside
deletion. Left out: the row of the virtual conversation, lineage and worktree
decorations, and an index that cannot be written.

### MC*, *_proofs

`MC…` modules give TLC model values, definitions for function-valued constants
and the symmetry sets. Each `…_proofs` module extends the module it proves about and
TLAPS: `ProcessPool_proofs` (the pool and its refinement of `LeaseContract`),
`SessionRuntime_proofs`, `SessionSync_proofs`, `OperationReceipts_proofs`,
`Rendezvous_proofs` (the trust store, the hub and the backends), `BackendApi_proofs`
(with the store of uploads that `BackendApi` extends), `Connections_proofs` (`Workspace`,
the hosts of a browser, and `FrameQueue`, what one carrier sends) and `Catalog_proofs`.

## The runs

| run | question | instance and bounds |
|---|---|---|
| `pool_safety` | do leases, capacity and the rule about doomed or busy processes survive every interleaving? | 3 processes (2 at a time), 2 operations, 2 directories, 1 RPC each |
| `pool_liveness` | is every acquisition granted or refused, and does every decommissioned process leave? | the same, without RPCs, prewarm of 1 |
| `session` | is every command answered, whatever the other is and does, and does nobody keep, lose or share a lease that is not his? | 2 requests of 9 kinds, 2 processes |
| `session_lost_prompt` | (violated) does an accepted prompt reach a turn? | 2 prompts, 1 process |
| `sync` | does a browser only ever show states of the server, in order and on the right base, through every kind of recovery, and does it come to show everything? | 1 browser, segmented, file of 2, 1 turn of 1 event, 1 append inside a read, 1 own request, 1 lost connection |
| `frame_queue` | order, accounting, decoding, cancellation, progress | 4 frames of at most 2 messages, 2 cancellations, marks 2 and 0, queue of 5 |
| `frame_routed` | (violated) is a snapshot lazy over a DataChannel? | as above, `ThroughRouter` |
| `receipts` | is anything executed twice inside the window of receipts, or twice at once, is everything a browser waits for under way, and is what it tells of a prompt true? | 2 browsers, 4 operations (one of them deferred), 1 receipt kept, 2 active, 1 drop or restart, 1 time-out, 1 compaction |
| `rendezvous` | does the file stay readable, is a stale owner retained, and is an authenticated peer a member of its account? | 1 backend, 2 devices, 2 accounts, 2 capabilities, 2 tickets, 1 invitation, 1 lost link or restart, 1 expiry or acceptance, 1 revocation |
| `api` | is a request executed once while its answer is kept, does what was said of an upload stay true, does what a session mentions stay, and does the protocol refine the store? | 2 files of 1 chunk, 2 ids, 1 upload at a time, 2 kept answers, 1 drop, restart, hour or refused write |
| `workspace` | does an undisturbed selection leave its host active and the others silent, and does nobody wait for nothing? | 2 hosts, 2 operations of 4 kinds, 1 failure |
| `catalog` | is a cached entry true, and does the list come to show the files? | 2 sessions, 2 rules, 2 versions, 1 act of the user, 1 of another program, 1 trouble |

Why these are enough:

* **Pool.** Capacity 2 with two operations is the smallest pool in which an
  operation can wait, evict another directory's process, and find it refilled; a
  third identity lets a replacement exist beside the dying process it replaces.
  The liveness run has no RPCs because their time-outs only add decommissioning,
  which `RecycleWorkers` provides too.
* **Session.** The code's handlers interact through one mailbox, one lease and
  one turn. Two requests give every pairing of a handler with another one in its
  awaits. Two processes distinguish the lease that was lost from the next one.
* **Sync.** The base of a difference is one of at most three: the state before,
  during and after a turn. A file of length 2 and one live event produce all of
  them, one request and one drop give each recovery the chance to meet another.
* **Frames.** Marks 2 and 0 stop `flush` after each frame of two messages; four
  frames are a control frame, one cut by the mark, one behind it and one of a
  sequence; a second subscription cancels what the first one began.
* **Receipts.** A single kept receipt is pruned at the first opportunity, so every
  loss of an answer meets a pruned receipt; with two active operations the only settled
  receipt can be pruned because of one that is still active. Three operations with
  receipts put one behind two active ones, where it is refused. One time-out meets a frame,
  an execution, a response and a lost connection. That every
  submission is answered in the end, and that two deferred prompts are kept when
  one of them is refused, is shown by `ReceiptsLive.cfg` on a smaller instance.
* **Rendezvous.** Two accounts, two capabilities and two tickets are the smallest
  instance in which a backend changes its owner while the first pairing is still
  being confirmed, and in which a device joins an account between its ticket and
  its confirmation. `RendezvousLive.cfg` shows with one device, two failures and
  fairness that a backend that was offline when it was revoked learns it
  (`OfflineRevocationArrives`).
* **Api.** One kept answer less than there are requests makes every answer one
  that can be forgotten before it is asked for again; two attempts with one place
  for an upload meet in the sweep and in the refusal. `BackendApiChunks.cfg` checks
  `TypeOK`, `ExecutedOnce` and `AnswersHold` for one file of two chunks with three troubles.
* **Workspace.** Two operations meet each other, the discovery and a removal at
  each of their awaits; one failure decides which carrier is late.
  `WorkspaceLive.cfg` shows under fairness that a host which stays up and listed is
  connected in the end (`Converges`).
  With `"activate"` as a fourth kind the invariants hold as well (8.6 million states).
* **Catalog.** Two sessions, one of them new, and two rules: one that changes while
  the other is being fetched. The invariants hold with two acts of the user as well
  (17 million states, `Acts = 2` in `Catalog.cfg`).

Deadlock is checked in `workspace` only, whose discovery goes on for ever. In every
other model all work may end (all requests done, all bounds used up), and the system
then rightly stops.

Bounds are constants named in each module (`MaxRpc`, `MaxFile`, `MaxLive`,
`MaxTurns`, `MaxRaces`, `MaxRequests`, `MaxDrops`, `MaxBatches`, `MaxFrames`,
`MaxSubscriptions`, `MaxChunks`, `MaxCompactions`, `MaxRestarts`, `MaxFailures`,
`MaxTimeOuts`, `MaxLosses`, `MaxLapses`, `MaxRevocations`, `MaxTrouble`, `MaxOps`, `Troubles`, `MaxVersion`, `Acts`,
`Outside`); a bound guards the environment's action, never the
system's.

### Fairness

* Pool: timers fire, exit events are delivered, a signalled child exits (pi
  installs no handler that ignores SIGTERM), the loop of `acquireProcess` runs
  on. `FairSpec` adds that holders return their lease, which every handler does
  in its `finally` or at settlement, *if* turns end; `BusySpec` leaves that out.
* Session: the mailbox and every handler proceed, since each of their RPCs has a
  timer. That a turn ends is **not** assumed; the properties do not need it.
* Sync: frames and commands are delivered, the watcher's event and its debounce
  timer fire, hashing ends, a lost connection is tried again (the transports
  retry without limit). No new event is assumed.
* Frames: `flush` is a loop and the carrier makes progress; a sender is a loop too.
* Receipts (`ReceiptsLive.cfg`): delivery and reconnection as above; the server
  executes what it received; a compaction is answered (its RPC has a timer). No time-out
  is assumed to happen.
* Rendezvous (`RendezvousLive.cfg`): a client that runs opens its socket again
  without limit, both ends handle what arrives, continuations run, and the hub's
  heartbeat finds dead sockets. That a backend which has stopped is started
  again is not assumed.

* Catalog: timers end, messages and requests arrive while both ends are there, and
  a request to a server that is down fails. Nothing is assumed of pi, the user,
  other programs, a reconnection or a restart: `EventuallyListed` is about what the
  system owes when they stop.
* Workspace (`WorkspaceLive.cfg`): attempts end, timers fire, requests are answered
  or fail; no failure is ever required.

## The proofs

Everything that `pool_safety` checks on three processes and two operations is
proved of `ProcessPool` for any sets of processes, operations and directories and
any capacities that satisfy `ConstantsAssumption` (finitely many processes, the
prewarmed directory is one of the directories, the markers for "nothing" are not
values). Each proof shows that an inductive invariant holds initially and that
each action keeps it; the actions that run `prewarm` share a lemma about one turn
of its loop (`PrewarmLoop…`), and the signals share `SignalledEffect`.

| theorem | states | inductive invariant |
|---|---|---|
| `TypeCorrect` | `TypeOK` | itself; the loop count of `prewarm` stays a number because cardinalities of sets of processes are (`CountsAreNaturals`) |
| `LeasesAreExclusive` | `LeaseExclusive` | `LeaseBook` |
| `CapacityHolds` | `CapacityRespected` | itself with `TypeOK` |
| `DoomedIsSignalled` | `DoomedIdleIsSignalled` | itself with `LeaseBook` |
| `IdleStaysQuiet` | `IdleIsQuiet` | `CommandBook` with `LeaseBook` |
| `IdleStaysOrderly` | `IdleIsOrderly` | the conjunction of the last two |
| `AnswersMatch` | `AnswersMatchRequests` | `UnbornIsUnknown` |
| `PoolImplementsContract` | `ImplementsContract` | `LeaseBook`, then a step simulation |

* `LeaseExclusive` is not inductive: it does not say that a process somebody still
  refers to cannot be replaced by a new one, nor what phase its holder is in.
  `LeaseBook` adds exactly this: a registered lease belongs to an operation that
  holds its process, its process is in the pool, an operation that no longer holds
  has released its lease, and an operation whose lease ended under it holds a
  process that is gone. There is one lemma for each way to change the book
  (`GrantKeepsBook`, `ReleaseKeepsBook`, `FinalizeKeepsBook`, `PrewarmKeepsBook`)
  and one (`BookKept`) for the actions that only touch processes and requests.
* `CapacityRespected` holds because each segment that starts a process has looked
  for room in the same segment: `OneMoreFits` is about the set of pooled processes
  and one more, `FewerFit` about the steps that only let processes go.
* `DoomedIdleIsSignalled` holds because marking and signalling a process, or
  releasing and signalling a marked one, happen in one segment; what could break
  it is a new process under an old marker, which `Spawn` removes.
* `IdleIsQuiet` says nothing of leased processes, so it cannot survive a release.
  `CommandBook` says where every command pi works on comes from: it is the one its
  holder awaits, or it was given up, and then the process is marked. A release
  waits for the answer or comes with a mark (`ReleaseKeepsCommands`), a timeout
  marks, and only the holder sends (`SendKeepsCommands`, which needs `LeaseBook`).
* `AnswersMatchRequests` needs that nothing is asked of a process that does not
  exist yet, so that a request that times out is on a process that can be marked.
* `PoolImplementsContract` maps every action to `Grant`, `Return`, `Doom` or
  `Leave` of `LeaseContract`, or to a step it does not see; `prewarm` adds at most
  one process to any of them (`PrewarmRefills`).

Of the session actor, for any number of requests and any set of processes
(`RuntimeAssumption`: the requests are finitely many, since turns are counted by the
cardinality of a set of them, and the names do not overlap):

| theorem | states | inductive invariant |
|---|---|---|
| `SessionInvariant` | `Spec => []SessionInv` | itself |
| `SessionTypeCorrect` | `TypeOK` | `SessionInv` |
| `LeasesAreDisciplined` | `LeaseDiscipline` | `SessionInv` |
| `ExclusiveIsAlone` | `ExclusiveRunsAlone` | `SessionInv` |
| `AcceptedStaysAccepted` | `AcceptedNeverFails` | `SessionInv` |

* These are statements about the moments between two tasks, at the end of a handler or
  at one await, and each step of one handler may be followed by any step of another.
  `SessionInv` therefore says for *every* place at which the code of a request may be
  suspended what it may rely on there. `pos[r]` is that place: the step of its task,
  if the mailbox is executing it, and where the handler stands otherwise. `Fits(r, s)`
  is the conjunction for request `r` at place `s`: which kinds can be there
  (`KindFits`), in which phase its awaits find the actor (`PhaseFits`), whether its
  turn has begun (`TurnFits`), that the pool still registers the lease it keeps or has
  given the process up (`Held`), that every lease in its name is one it will give
  back (`Accounted`), that nothing runs on its process before its prompt is sent
  (`Quiet`), that its turn does not outlive it except on a doomed process
  (`TurnEnds`), that nobody names a new session before it is announced (`Unknown`),
  and what it may have been answered (`AnswerFits`).
* `Book` adds what holds between requests: no process is kept by two of them
  (`KeptOnce`), the actor's phase, lease and generation belong together (`PhasesFit`),
  generations are counted (`TurnsCounted`), and a process with a turn is the
  actor's or doomed (`ProcessesFit`). `MailInv` says that each task of the mailbox is there
  for what its request or process came to, and only once per request, so that a
  settlement or a failure cannot be handled twice.
* Most steps move one request only (`Moved`, `PassKeeps`, `MovesKeep`); the lemmas
  about the mailbox (`TaskEnded`, `EventTaken`, `WentOn`, `Enqueued`, `Requeued`,
  `Emitted`) say who is where after a task ends, waits or is added. The steps that
  carry the argument are those that change the owner of a process: `LeaseTaken`,
  `Attached`, `Detached` and `Released`, and the two ways in which a turn begins and
  leaves (`TurnBegun`, `TurnLeaves`). `…Keeps` is one lemma for each action.

Of the synchronisation of a session, for any finite set of browsers, with and without
segmented transfers, and any bounds (`ConstantsAssumption`, `NoStateAssumption`,
`IdleAssumption`: the markers for "nothing" are no states, batches or transfers):

| theorem | states | inductive invariant |
|---|---|---|
| `SyncTypes` | `TypeOK` | `SyncInv` |
| `BrowsersShowTheirRevision` | `ShowsItsRevision` | `SyncInv` |
| `BrowsersNeverGoBack` | `NeverGoesBack` | `SyncInv` |
| `NoPatchGoesAstray` | `PatchesFit` | `SyncInv` |

`SyncInv` is the types and, for each browser, `ClientInv`. None of the four properties
is inductive, since each speaks of what the browser has and not of what is under way.

* `TrueStates` says that every frame under way or queued, the transfer being collected
  and the batch being hashed are what the server had at their revision. Revisions are
  only added (`Grown`, `GrownKeeps`), so this stays true.
* `InOrder` puts all of them into one order: what is shown, hashed, queued and under
  way do not get older, and a delta whose revision is the next one patches the state of
  the revision before it (`Follows`). That is what makes the check of revisions in
  `applySessionSyncBatch` sufficient for the check of states in `applySyncOps`, although
  cancelled transfers leave gaps (`SyncInvChained`). `BaseIsNewest` says where such a
  delta comes from: the server's `lastHash` of a client is as new as all it sent.
* `BatchesFollow` says that batches come right behind their manifest or the batch before
  them, as they are all sent at once and a cancellation cuts off an end.
* `OnCourse` is why bases agree in the end. While no request of a subscriber is under
  way, *either* a whole snapshot is (`SnapshotIn`), *or* the browser collects one whose
  remaining batches are next (`Collecting`), *or* only deltas follow, it accepts them,
  and what it has received ends in the server's base (`Patching`). A frame that is
  taken moves from one to the next (`FrameTaken`, `PartTaken`); whoever gives up what
  it had sends a request in the same step (`Asked`); an answer and an update put more
  behind what is under way (`Answered`, `UpdateReaches`).
* `OthersUntouched` reduces the rest to one browser: only revisions are shared.

Of the receipts, for any finite set of operations, any browsers and any bounds
(`ConstantsAssumption`: at least one receipt is kept and one operation may be active):

| theorem | states | inductive invariant |
|---|---|---|
| `ReceiptsTypeCorrect` | `TypeOK` | `IInv` |
| `ReceiptsWork` | `ExecutedOnceAtATime` | `IInv` |
| `AnswersAreDue` | `AnswerIsDue` | `IInv` |
| `WhatIsToldIsTrue` | `ToldIsTrue` | `IInv` |

* `ExecutedOnceAtATime` looks at the step that starts an operation again, long after its
  receipt has gone. A receipt exists while its operation runs (`RunsAreRecorded`), so that
  nothing runs twice at once. `ReceiptsInOrder` says that a receipt which an operation has not
  met is older than its own and settled, so that it is pruned first. Pruning removes the oldest settled receipts in excess, so one that goes has at
  least `MaxCompleted` others that are older and still active or that came after it
  (`PrunedHasMet`); all of them are in `met`, which keeps them until the
  operation gets its next receipt (`WindowIsSpent`). With the sizes of the code,
  `MaxCompleted` 512 and `MaxActive` 128, at most 127 of them were active before, and at
  least 385 got a receipt after it.
* `AnswerIsDue` and `FailedStaysUnrun` need the whole
  way of a request: it is in one frame, *or* in one execution whose response is
  awaited, *or* in one response (`AskedOnce`); and a lost connection leaves nothing behind
  that could answer late (`LostIsEmpty`). What is no longer pending is nowhere any more,
  *unless it timed out*: of such a request the browser says neither that it was executed nor
  that it failed, and `ToldIsTrue` says nothing of it.
* `AcceptedWasExecuted`, the middle part of `ToldIsTrue`, follows a response backwards: one that says
  *accepted*, and a receipt that holds one, are of an operation that was executed, before a
  restart or after it (`AcceptedIsTrue`). `DeferredIsKept` needs no invariant beyond the types.

Of the semantic protocol, for any attempts, calls and bounds (`ApiAssumption`: the calls of
one attempt are finitely many and, but for the appends, of one kind each):

| theorem | states | inductive invariant |
|---|---|---|
| `ApiTypeCorrect` | `TypeOK` | `ApiInv` |
| `RequestsRunOnce` | `ExecutedOnce` | `ApiInv` |
| `ApiImplementsUploads` | `ImplementsUploads` | `ApiInv`, then a step simulation: every step is an operation of the store of uploads or a stutter |
| `ApiUploadsAreWhole` | `CompletedIsWhole` | from the refinement and `UploadsAreWhole` |
| `AnswersStayTrue` | `AnswersHold` | `TruthInv` with `ApiInv` |

* An execution is counted against the answers that were forgotten. `Counted` says that
  a request which is neither under way nor cached was forgotten as often as it was
  executed; without it the next execution could be one too many. `PendingFits` keeps
  the browser's queue in step with the stage of its attempt, `NamesIssued` says that
  whoever names an upload got its id from a creation, also through the cache and a
  response under way, which the refinement needs for each operation of the store.
* `AnswersHold` looks at the browser only; between the execution and the browser lie a
  result, the cache, the connection and further executions of the same request.
  `TruthInv` says what is true as soon as an execution has ended (`CompleteHolds`,
  `MentionsAreTold`, `AbortHolds`), and what keeps it so. Only uploads that the browser was
  told are complete are ever mentioned, so that `MentionedIsKept`, a property of steps,
  rests on the same lemma about one upload; a sweep leaves alone what is mentioned when it
  looks, in the segment in which it removes. Nobody but the attempt itself knows
  its upload, not even a repeated creation, and an upload that is still being made is
  known to nobody (`OwnNames`); a call works on the upload of its attempt
  (`CallsFit`); no abort is pending, in flight, running or answered before the attempt
  has given up (`NothingEarly`); and a sweep removes only what it has marked
  (`SweptIsReclaimed`). `UploadKept` takes one upload through every step of the store
  under these conditions, `GoodResults` shows that an execution that ends well has
  done what it reports, and `BrowserTurns` on whose word each attempt moves.

The following is proved of the rendezvous service for any sets of devices,
backends, accounts, capabilities, tickets and invitations and any bounds, from
`TrustAssumption` (a capability has one host; the marker for "nothing" is no
account) and `RendezvousAssumption`:

| theorem | states | inductive invariant |
|---|---|---|
| `FileReloads` | `StoreSpec => []StoreReloads` | `StoreInv`: the types and `StoreReloads` |
| `HubImplementsStore` | `Spec => StoreSpec` | `HubInv`, then a step simulation: each step is an operation of the store or leaves the file alone |
| `HubReloads` | `StoreReloads` | from the two above |
| `RendezvousTypeCorrect` | `TypeOK` | `IInv` |
| `RevocationsAreRetained` | `StaleIsRetained` | `IInv` |
| `PeersStayMembers` | `PeersAreMembers` | `IInv` |

* `StoreReloads` is inductive with the types. The cases that matter are
  `ConfirmPairing`, where a device that is known already has the account it is
  added to because `Refuses` and `Grantees` agree on it, and `RevokeBackend`,
  which must take the backend off the list of the one account that lists it.
* `StaleIsRetained` speaks of what a backend has written, and it writes what a
  message told it. So the invariant (`BackendInv`) says of every confirmation that
  is under way, and of every one whose continuation has not run, that its account
  is *accounted for*: it is the hub's owner, or retained, or was superseded.
  Without these the property is not inductive: a revocation may overtake the
  confirmation. `StaysAccounted` shows that an account once accounted for remains
  so at each operation of the store; it needs `Exclusive`, that a backend with an
  owner has no revocation retained, since a revocation would overwrite an older
  one. The `…Flows` lemmas show for each group of steps where an account that a
  backend learns can come from, and `FlowsKeep` concludes.
* `PeersAreMembers` speaks of a peer that is ready and of the account that the hub
  gives its device, two records that no step writes together. `MemberInv` follows the
  account from one to the other: a ticket that names an account names that of its
  device, and a ticket for a connection names one (`TicketsAreTrue`); a confirmation
  under way names a ticket whose device has the account (`MailNames`), its
  continuation as well (`CompletionsName`). A confirmation names its peer by an id
  only, so ids must be unique (`TicketsAreUnique`) and routes, peers and
  continuations must be about tickets that were signed (`RoutesAreSigned`). It holds
  because a device that has an account keeps it (`MembersStay`, where `JoinedElsewhere`
  matters: `ConfirmedIsMember`). The `…Warrants` lemmas show on what ground each group
  of steps makes a peer ready, and `MembershipKeeps` concludes.
* `IInv` joins these with the types and with `LinkBook`: a backend that does not run
  has no link, and a link that is down holds no message, so that a process that
  ended is never `known`. There is a lemma for each group of steps (`FailureKeeps`,
  `LinkKeeps`, `HubKeeps`, `UserKeeps`, `MessageKeeps`, `CompletionKeeps`,
  `PeerKeeps`).

Of the store of uploads, for any sets of ids, calls and chunks (`UploadAssumption`,
with finitely many chunks):

| theorem | states | inductive invariant |
|---|---|---|
| `UploadsAreWhole` | `UploadSpec => []CompletedIsWhole` | `UploadInv` |

A manifest is rewritten to *completed* after awaits in which the upload may have been
swept, aborted or begun again under another id. So `UploadInv` says that ids are
fresh until they are drawn, that `received` counts the written chunks, that what is
counted as written is in the directory if there is one, and that a completion which
has begun to read has seen every chunk. Each has its lemma (`FreshKept`, `CountKept`,
`StoredKept`, `ReadingKept`), and `WholeKept` concludes.

Of the list of sessions, for any sessions, rules and bounds (`CatalogAssumption`):

| theorem | states | inductive invariant |
|---|---|---|
| `TypeCorrect` | `TypeOK` | itself; the case that matters is that the rule in use is one that parses |
| `IndexStaysTrue` | `IndexIsTrue` | `IndexInv`: the types and `IndexBook` |

* `IndexIsTrue` says that an entry with the stamp of the present file has its
  content. An append makes the entry unusable, and a deletion makes it irrelevant;
  a file that began again under the same name could make an old one usable.
  `IndexBook` therefore says that an entry is never newer than its row, which is
  never newer than the file, and that a file that is gone has been written once,
  after which its life does not begin again (`FilesKeepBook`, `AnswerKeepsBook`).

Of the hosts of the browser, for any set of hosts and any number of operations and
failures (`WorkspaceAssumption`):

| theorem | states | inductive invariant |
|---|---|---|
| `TypeCorrect` | `TypeOK` | `WaitInv`: the types and `EveryWaitEnds` |
| `WaitsEnd` | `EveryWaitEnds` | `WaitInv` |
| `SelectionsStayClean` | `SelectionsAreClean` | `CleanInv` with `TypeOK` |

* `EveryWaitEnds` is inductive with the types. An attempt that ends has its waiters
  told in the same step (`NotifiedKeeps`); whoever calls `connectContext` finds an
  attempt under way or begins one (`ConnectsKeeps`); and what the discovery closes it
  does not await (`DiscoveredKeeps`).
* `SelectionsAreClean` says nothing while an operation is under way. `CleanInv` says
  what is true in between: as long as nothing has disturbed them, one operation at
  most selects a host (`SoleSelection`); the active host is one of the workspace; from
  the pause to the next activation no host streams at all; and the active host wants
  its subscription unless an operation is just there (`Between`). `OrderBook` adds
  that operations begin in order, so that the latest one is the one that selected.
  `ReadyKeeps`, `PausedIsClean` and `InitializedIsClean` are the three segments of a
  selection; all other steps are background (`BackgroundIsClean`).

Of the carrier of one connection, for any limits, marks and bounds
(`ConstantsAssumption`: the low mark is below the high one, and the decoder allows two
frames in pieces; the code allows four):

| theorem | states | inductive invariant |
|---|---|---|
| `FrameTypeCorrect` | `FrameTypeOK` | `FrameInv` |
| `CancellationCorrect` | `CancellationIsClean` | `FrameInv` |
| `LanesCorrect` | `LanesArriveInOrder` | `FrameInv` |
| `TransfersFit` | `~ThroughRouter => ([]NeverOverflowsItself)` | `TransferInv` with `FrameInv` |

`FrameInv` has four parts, each of which follows a frame one place further.

* `LanesInv` is the two lanes: both hold their items in the order of their ranks, and
  only the first item of a lane can have been started (`ControlIsOrdered`,
  `BulkIsOrdered`), which is why one cancellation at most is due; a frame that was
  dropped is not held any more and stays incomplete, so that it is never delivered
  (`FramesAreKnown`).
* `AccountsForTheQueue` needs no strengthening but the lanes. What is unsent is counted as
  a set of pairs (frame, message), so that a new frame adds a set of its length, a
  written message removes one pair, and a cancelled transfer removes what the control
  lane does not hold (`CreationAccounts`, `WriteAccounts`, `SubscribeAccounts`).
* `DecoderInv` is about the wire. The messages of a frame follow each other without a gap
  from the one the decoder expects, up to the last one that was written (`ChunksInOrder`);
  and wherever a message follows one of another frame of its lane, that other frame has
  ended in between, by its last message or by its cancellation (`OneInPieces`). So the
  message at the head is the expected one, and no other frame of its lane is in pieces
  (`ReceiveFits`): the decoder never refuses. `FinishDecodes` and `ContinueDecodes` are
  the two ways on.
* `OrderInv` says that what was delivered precedes what is on the wire, that precedes what
  comes behind it, and what was ever started precedes what is still held, also the
  frames that a sequence has yet to yield.

Steps are put into four kinds first (`LanesStep`): nothing is written (`QuietStep`), a message
(`WriteStep`) or a cancellation (`CancelStep`) is, or a message arrives. The last three
parts are proved for these kinds and not for each action. `TransferInv` says that a
transfer of several payloads is one sequence which holds one frame at a time, and that
nothing else of a snapshot is queued beside it; its hypothesis is what the run
`frame_routed` refutes for a connection behind the router.

Only model-checked: every liveness property (`DoomedLeavesPool`, `AcquireResolves`,
`CommandsAreAnswered`, `EventuallyUpToDate`, `QueuedArrives`, `EventuallyListed` and
those of the configurations that are not runs), since liveness needs fairness and
`ENABLED`. Every invariant and every action property of a passing run is proved.

## Where the code and its documents disagree

Two runs are expected to find a violation of what a comment, a document or a
test says; `PROJECT.json` quotes it (*findings*).

* `session_lost_prompt`: a prompt that arrives while another is starting is
  accepted as steering of a turn that may still fail, and is lost with it.
* `frame_routed`: `RoutedFrameConnection` offers no `sendSequence`, so over a
  DataChannel a segmented snapshot is queued at once instead of being pulled.

The models show more, for which there is a configuration but no listed run
(`tlc -config <cfg> <module>` shows the behaviour). Where the table says
`X.cfg, alone`, put the property in the place of those of `X.cfg` (an action or liveness property under
`PROPERTIES`, an invariant under `INVARIANTS`), with the specification it names:

| configuration | property | behaviour |
|---|---|---|
| `PoolLiveness.cfg`, alone | `AcquireResolves` under `BusySpec` | `acquireProcess` looks at its deadline only when there was nothing to evict (`server/ws-handler.ts:1662`). With the other processes busy, eviction and the prewarm that follows each exit can alternate for ever. |
| `PoolSafety.cfg`, alone | `NeverLeaseDying` | A failed start returns its lease (`server/ws-handler.ts:1012`) and then kills the process itself (`:1030`), past the marker that `process-pool.ts:305` explains; it can be leased in between. |
| `SessionForkExit.cfg` | `ExitEndsTheWait` | A forked prompt whose process is ended by a signal during the awaits before the exit listener is installed (`server/ws-handler.ts:1538`) waits for ever, since `exitCode` stays null. |
| `SessionRemove.cfg` | `RemovedIsNotRun` | Removing a steering message (`server/ws-handler.ts:1050`) does not reach pi, which delivers it. |
| `SyncTwoTabs.cfg` | `EventuallyUpToDate` | One file size serves all subscribers of a session (`server/ws-handler.ts:436`). A second tab that opens it just after a change takes the change away from the first. |
| `SyncStat.cfg` | `CatchesUp` | An append between a subscription's read and its stat (`server/ws-handler.ts:868`, `:873`) counts as published. |
| `SyncInactive.cfg` | `InactiveIsUnsubscribed` | The end of a compaction subscribes a browser that has moved to another host (`client/ws-agent-adapter.ts:1962`). |
| `ReceiptsRestart.cfg` | `ExecutedOnce` | Receipts are in memory (`server/ws-handler.ts:229`); a prompt accepted before a restart is replayed after it and executed again. |
| `ReceiptsTwice.cfg` | `ExecutedOnce` | Prompts of the compaction queue have no `operationId` (`client/ws-agent-adapter.ts:507`); one whose answer was lost is sent again. |
| `ReceiptsStuck.cfg` | `QueuedIsExecuted` | The flush after a compaction finds no carrier (`client/ws-agent-adapter.ts:1977`), and nothing flushes again after the reconnect. |
| `ReceiptsRestart.cfg` with `MaxRestarts = 0`, alone | `TimedOutStaysUnrun` | A request that is not answered in time is rejected (`client/ws-agent-adapter.ts:1438`) while the server may have its frame; it is executed although the user has been told otherwise, and again if it is submitted again under a new `operationId`. |
| `RendezvousRetained.cfg` | `StaleIsAlwaysRetained` | `confirmPairing` deletes a retained revocation (`rendezvous/trust-store.ts:281`), also one of another account that is still under way. If the link is lost before it arrives, the backend keeps its former owner and refuses the new one, although `docs/protocol.md:101` says that a revocation is retained so that an offline backend clears stale ownership when it next registers. |
| `RendezvousRetained.cfg`, alone, without symmetry | `BackendStaysUp` | A link that is lost during a confirmation (`server/rendezvous-client.ts:239`), or a peer that fails while the backend is not registered (`server/backend-webrtc.ts:292`), throws where nothing catches it, and the backend's process ends. |
| `BackendApi.cfg`, alone | `UploadsAreBounded` | `createFileUpload` counts the active uploads before its awaits (`server/local-backend-api.ts:286`), so two calls at once exceed the limit. |
| `BackendApi.cfg`, alone | `UploadedIsUsable` | The sweep aborts an upload that is being completed; the completion then answers with success about a file that is gone (`server/local-backend-api.ts:399`). |
| `BackendApi.cfg`, alone | `MentionedIsThere` | A completed file that no session mentions is removed after seven days (`server/local-backend-api.ts:501`). A prompt that is sent after that, with the attachment still in the editor, mentions a path that is gone (`client/attachment-prompt.ts:36`). |
| `WorkspaceStreams.cfg` | `InactiveIsQuiet` | A fail-over or a removal changes the active host without pausing the one that was active (`client/workspace-backend-client.ts:516`), which stays subscribed. |
| `WorkspaceLate.cfg` | `LastSelectionWins` | A slow host that was selected first takes over when it is connected at last, although another one was selected after it (`client/workspace-backend-client.ts:415`). |
| `WorkspaceRevived.cfg` | `ClosedStaysClosed` | `close()` during the request for a ticket finds nothing to close; the attempt goes on and connects (`client/webrtc-frame-transport.ts:157`). |
| `Workspace.cfg`, alone | `ActiveIsSubscribed` | A fail-over, a removal (`client/workspace-backend-client.ts:278`) or a `newSession` that fails once its host is active (`:253`) makes a host active whose subscription was paused before. Nothing resumes it, and `activateBackend` of the active host does nothing (`:419`). |
| `Catalog.cfg`, alone | `ConnectedIsCurrent` | `onReconnected` does not ask for the list (`client/ws-agent-adapter.ts:664`), and a server that starts before there is a sessions directory never watches it (`server/server.ts:411`). |
| `Catalog.cfg`, alone | `DeletedDisappears` | An optimistic entry is dropped when its row arrives (`client/ws-agent-adapter.ts:2247`); if the file is deleted elsewhere first, it stays. |
| `Catalog.cfg`, alone | `EditsSurvive` | `patch` merges into the settings in memory (`server/local-settings.ts:291`); an edit of the file that has not been reloaded is overwritten. |

The passing runs leave out exactly the circumstance of each: `CommandsAreAnswered`
counts a forked prompt as answered when it is accepted, `sync` has one browser and
claims nothing of an append between a read and a stat, `pool_liveness` has holders
that return; `receipts` claims nothing of a request that timed out, nor that an operation
is executed once beyond the window of receipts, after a restart or without an
`operationId`; `rendezvous` counts a deleted revocation as superseded, and lets the
process end; `api` excepts what the sweep aborted, and a
file that was removed before it was mentioned; `workspace` looks at selections
that nothing disturbed; `catalog` excuses a list that nothing has asked for since a
message was lost, and rows that an index kept across a restart under other settings.

## What is not modelled

* *Updates* (`update-manager.ts`): one memoised check and one child. Its end is
  decided by npm and systemd, and what it does to the rest is a restart, which the
  other models contain.
* *Browser caches and drafts*: storage, whose content a subscription revalidates by
  its hash; the revalidation is in `SessionSync`.
* *Pi RPC codec and launch*, *application protocol codec*: pure decoding. Every frame
  that the models exchange has passed it.
* *HTTP server and routes*: wiring; its timers and watchers are in `ProcessPool` and
  `Catalog`.
* *User interface*: rendering, panels, dialogs, the folder picker and the file
  preview. The order of answers matters in two places that no model covers: answers
  about a directory of a host that the folder picker has left, and two overlapping
  requests for the settings.
* In the modelled parts: contents of messages, titles, models and thinking
  levels, extension dialogs, uploaded images; rewrites of a session file that
  keep its size; equal texts in a steering queue; hash collisions; failures to write
  the two files of trust, the index or the settings; frames above the decoder's
  64 MiB limit; errors of a write to a child's stdin; two server processes sharing
  one agent directory; the WebSocket carrier's and the DataChannel's byte queues in
  the browser.
* Not covered by any proof or run: how a session file becomes messages, how their
  hashes and splices are computed, the cryptography of trust, static assets,
  launching and build scripts.
