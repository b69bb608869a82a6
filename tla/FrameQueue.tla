-------------------------------- MODULE FrameQueue --------------------------------
(***************************************************************************)
(* The carrier of one connection: PrioritizedFrameQueue and its two        *)
(* adapters (src/server/frame-connection.ts), the chunk envelopes and      *)
(* their decoder (src/shared/data-channel-framing.ts), and what            *)
(* src/server/frame-router.ts passes on of them.                           *)
(*                                                                         *)
(* Sizes are counted in physical messages: a frame of one is sent as it    *)
(* is, a longer one in chunks.  The carrier is reliable and ordered; its   *)
(* bufferedAmount is what the browser did not receive yet.  The bytes of   *)
(* an envelope, and frames above the 64 MiB limit, are left out.           *)
(***************************************************************************)
EXTENDS Integers, Sequences, FiniteSets, SequencesExt

CONSTANTS
  HighWater,   \* DATA_CHANNEL_BUFFER_HIGH_WATER_BYTES
  LowWater,    \* DATA_CHANNEL_BUFFER_LOW_WATER_BYTES
  QueueLimit,  \* MAX_DATA_CHANNEL_QUEUED_BYTES
  MaxPending,  \* MAX_DATA_CHANNEL_PENDING_FRAMES
  ThroughRouter, \* the connection is seen through a RoutedFrameConnection
  MaxChunks,   \* bound: physical messages of one frame
  MaxFrames,   \* bound: frames that are created
  MaxSubscriptions   \* bound: subscriptions, which cancel a transfer

\* One frame of each lane may be in pieces; the code allows four.
ASSUME ConstantsAssumption ==
  /\ HighWater \in Nat /\ LowWater \in Nat /\ LowWater < HighWater
  /\ QueueLimit \in Nat /\ MaxPending \in Nat /\ MaxPending >= 2 /\ ThroughRouter \in BOOLEAN
  /\ MaxChunks \in Nat \ {0} /\ MaxFrames \in Nat /\ MaxSubscriptions \in Nat

VARIABLES
  open,         \* readyState
  made,         \* the frames created so far, by id: what never changes of them
  nextIndex,    \* messages of each frame that have been written
  control,      \* frames of the control lane
  bulk,         \* frames and sequences of the bulk lane
  queuedBytes,  \* physical messages accounted for
  flushing,     \* flush is running
  pushing,      \* payloads sendInitialSessionSync has yet to send
  wire,         \* messages in the carrier
  pending,      \* the decoder: chunks received of each frame
  broken,       \* the decoder threw
  delivered,    \* history: frames the browser got, in order
  dropped,      \* history: frames that were cancelled
  subscriptions,\* subscriptions so far
  queued,       \* history: items the lanes took in so far
  overflow      \* history: what made the queue exceed its limit

senderVars   == <<made, nextIndex, control, bulk, queuedBytes, flushing, pushing>>
receiverVars == <<pending, broken, delivered>>
historyVars  == <<dropped, subscriptions, queued, overflow>>
frameVars    == <<open, senderVars, wire, receiverVars, historyVars>>

Id == 1 .. MaxFrames
nextFrameId == Len(made)

\* Responses and statuses are control frames; updates of the session on show and
\* the payloads of its snapshot are bulk frames, with its transferKey.
Purpose == {"control", "update", "snapshot"}
Content == [rank : Nat, purpose : Purpose, total : 1 .. MaxChunks]

Part == [kind : {"frame", "cancel"}, id : Id]
Frame(id) == [kind |-> "frame", id |-> id]

\* A cancellation envelope, queued like a frame of one message.
Cancellation(id) == [kind |-> "cancel", id |-> id]

\* An OutgoingSequence: payloads it has yet to yield, and the current frame, if any.
OutgoingSequence ==
  [kind : {"sequence"}, rank : Nat, left : 0 .. MaxFrames, current : SUBSET Id]
Sequence(n) == [kind |-> "sequence", rank |-> queued + 1, left |-> n, current |-> {}]

-------------------------------------------------------------------------------
(* The queue *)

\* The frames that a lane holds.
FramesOf(item) ==
  CASE item.kind = "frame" -> {item.id}
    [] item.kind = "sequence" -> item.current
    [] OTHER -> {}
FramesIn(lane) == UNION {FramesOf(lane[i]) : i \in DOMAIN lane}

\* The messages of some frames that are still to be written.
Unsent(frames) ==
  {p \in frames \X (1 .. MaxChunks) : nextIndex[p[1]] < p[2] /\ p[2] <= made[p[1]].total}

\* createFrame: a frame that would exceed the limit closes the connection.
Fits(total) == queuedBytes + total <= QueueLimit

\* What the queue holds of the snapshot that is being sent.
IsSnapshot(item) == item.kind = "frame" /\ made[item.id].purpose = "snapshot"
UnsentSnapshot ==
  Cardinality(Unsent(UNION {FramesOf(bulk[i]) : i \in {j \in DOMAIN bulk : IsSnapshot(bulk[j])}}))

\* onFailure: the adapter closes and clears the queue.
Overflows(purpose, total) ==
  /\ overflow' = IF purpose = "snapshot" /\ queuedBytes - UnsentSnapshot + total <= QueueLimit
                 THEN "itself" ELSE "others"
  /\ open' = FALSE
  /\ control' = <<>> /\ bulk' = <<>> /\ queuedBytes' = 0 /\ flushing' = FALSE
  /\ pushing' = 0
  /\ UNCHANGED <<made, nextIndex, wire, receiverVars, dropped, subscriptions, queued>>

Creates(rank, purpose, total) ==
  /\ made' = Append(made, [rank |-> rank, purpose |-> purpose, total |-> total])
  /\ queuedBytes' = queuedBytes + total

\* Mutant: an item goes to the front of its lane, as cancellations do.
QueuedFirst(lane, item) == <<item>> \o lane

Queued(lane, item) == Append(lane, item)

\* enqueue; `left` payloads of a snapshot follow.
Enqueue(purpose, total, left) ==
  IF Fits(total)
  THEN /\ Creates(queued + 1, purpose, total)
       /\ queued' = queued + 1
       /\ IF purpose = "control"
          THEN control' = Queued(control, Frame(nextFrameId + 1)) /\ UNCHANGED bulk
          ELSE bulk' = Queued(bulk, Frame(nextFrameId + 1)) /\ UNCHANGED control
       /\ flushing' = TRUE /\ pushing' = left
       /\ UNCHANGED <<open, nextIndex, wire, receiverVars, dropped, subscriptions, overflow>>
  ELSE Overflows(purpose, total)

\* Other code runs only when flush and a subscription have returned.
Idle == open /\ ~flushing /\ pushing = 0

\* Bound: the frames that a sequence has yet to yield are created too.
RoomForOne ==
  /\ nextFrameId < MaxFrames
  /\ \A i \in DOMAIN bulk : bulk[i].kind = "sequence" => nextFrameId + bulk[i].left < MaxFrames

SendFrame ==
  /\ Idle /\ RoomForOne
  /\ \E purpose \in {"control", "update"}, total \in 1 .. MaxChunks : Enqueue(purpose, total, 0)

\* Mutant: payloads are always sent one by one.
NeverLazy == FALSE

\* sendInitialSessionSync: several payloads, and a connection with sendSequence.
Lazy == pushing > 1 /\ ~ThroughRouter

\* enqueueSequence
SendSequence ==
  /\ open /\ ~flushing /\ pushing > 0 /\ Lazy
  /\ bulk' = Queued(bulk, Sequence(pushing))
  /\ queued' = queued + 1
  /\ pushing' = 0
  /\ flushing' = TRUE
  /\ UNCHANGED <<open, made, nextIndex, control, queuedBytes, wire, receiverVars, dropped,
                 subscriptions, overflow>>

SendPayload ==
  /\ open /\ ~flushing /\ pushing > 0 /\ ~Lazy
  /\ \E total \in 1 .. MaxChunks : Enqueue("snapshot", total, pushing - 1)

\* A new subscription makes every bulk frame stale: all have the transferKey.
StaleFrames == FramesIn(bulk)

\* Only a partly written frame needs a cancellation, and flush writes one at a time, so that
\* the order in which several would be cancelled is of no consequence.
CancellationIds == SetToSeq({id \in StaleFrames : nextIndex[id] > 0})

Discarded == Cardinality(Unsent(StaleFrames))

\* Mutant: only what has started is removed.
KeepsUnstarted == SelectSeq(bulk, LAMBDA item : item.kind = "frame" /\ nextIndex[item.id] = 0)

Kept == <<>>

\* handleSubscribeSession: cancelTransfer, then the payloads of the new snapshot.
Subscribe ==
  /\ Idle /\ subscriptions < MaxSubscriptions
  /\ subscriptions' = subscriptions + 1
  /\ pushing' \in 0 .. MaxFrames - nextFrameId
  /\ LET ids == CancellationIds
     IN /\ control' = [i \in 1 .. Len(ids) |-> Cancellation(ids[i])] \o control
        /\ queuedBytes' = queuedBytes - Discarded + Len(ids)
  /\ bulk' = Kept
  /\ dropped' = dropped \cup StaleFrames
  /\ flushing' = TRUE
  /\ UNCHANGED <<open, made, nextIndex, wire, receiverVars, queued, overflow>>

-------------------------------------------------------------------------------
(* flush, one message at a time *)

CanWrite == flushing /\ Len(wire) < HighWater

\* The next message of a frame; encodeDataChannelFrame numbers them.
Chunk(id) == [kind |-> "chunk", id |-> id, index |-> nextIndex[id]]

Written(id) ==
  /\ wire' = Append(wire, Chunk(id))
  /\ nextIndex' = [nextIndex EXCEPT ![id] = @ + 1]
  /\ queuedBytes' = queuedBytes - 1

\* Mutant: the index is compared before it is advanced.
IsPastLast(id) == nextIndex[id] = made[id].total

IsLastMessage(id) == nextIndex[id] + 1 = made[id].total

WriteCancellation ==
  /\ CanWrite /\ control # <<>> /\ Head(control).kind = "cancel"
  /\ wire' = Append(wire, Head(control))
  /\ queuedBytes' = queuedBytes - 1
  /\ control' = Tail(control)
  /\ UNCHANGED <<open, made, nextIndex, bulk, flushing, pushing, receiverVars, historyVars>>

WriteControl ==
  /\ CanWrite /\ control # <<>> /\ Head(control).kind = "frame"
  /\ Written(Head(control).id)
  /\ control' = IF IsLastMessage(Head(control).id) THEN Tail(control) ELSE control
  /\ UNCHANGED <<open, made, bulk, flushing, pushing, receiverVars, historyVars>>

BulkIsNext == CanWrite /\ control = <<>> /\ bulk # <<>>

WriteBulk ==
  /\ BulkIsNext /\ Head(bulk).kind = "frame"
  /\ Written(Head(bulk).id)
  /\ bulk' = IF IsLastMessage(Head(bulk).id) THEN Tail(bulk) ELSE bulk
  /\ UNCHANGED <<open, made, control, flushing, pushing, receiverVars, historyVars>>

\* The sequence yields its next frame, which must fit, or is done.
SequenceEnds ==
  /\ Head(bulk).left = 0
  /\ bulk' = Tail(bulk)
  /\ UNCHANGED <<open, made, nextIndex, control, queuedBytes, flushing, pushing, wire,
                 receiverVars, historyVars>>

SequenceYields(total) ==
  /\ Head(bulk).left > 0
  /\ IF Fits(total)
     THEN /\ Creates(Head(bulk).rank, "snapshot", total)
          /\ bulk' = [bulk EXCEPT ![1].left = @ - 1, ![1].current = {nextFrameId + 1}]
          /\ UNCHANGED <<open, nextIndex, control, flushing, pushing, wire, receiverVars,
                         historyVars>>
     ELSE Overflows("snapshot", total)

PullSequence ==
  /\ BulkIsNext /\ Head(bulk).kind = "sequence" /\ Head(bulk).current = {}
  /\ SequenceEnds \/ \E total \in 1 .. MaxChunks : SequenceYields(total)

WriteSequence ==
  /\ BulkIsNext /\ Head(bulk).kind = "sequence"
  /\ \E id \in Head(bulk).current :
       /\ Written(id)
       /\ bulk' = IF IsLastMessage(id) THEN [bulk EXCEPT ![1].current = {}] ELSE bulk
  /\ UNCHANGED <<open, made, control, flushing, pushing, receiverVars, historyVars>>

\* Nothing is left, or the carrier is full.
FlushReturns ==
  /\ flushing
  /\ Len(wire) >= HighWater \/ (control = <<>> /\ bulk = <<>>)
  /\ flushing' = FALSE
  /\ UNCHANGED <<open, made, nextIndex, control, bulk, queuedBytes, pushing, wire,
                 receiverVars, historyVars>>

-------------------------------------------------------------------------------
(* The carrier and the browser's decoder *)

\* Mutant: flush is called only once the buffer is empty.
NeverLow == FALSE

\* onBufferedAmountLow: the amount falls to the threshold.
FallsLow == Len(wire) = LowWater + 1

NumberPending == Cardinality({id \in Id : pending[id] > 0})

\* accept: a message of its own, the next chunk of a frame or the first of another one, the
\* last chunk, or a cancellation.
IsWhole(m) == made[m.id].total = 1
IsExpected(m) == m.index = pending[m.id] /\ (m.index = 0 => NumberPending < MaxPending)
Completes(m) == m.index + 1 = made[m.id].total

AcceptCancellation(m) ==
  /\ m.kind = "cancel"
  /\ pending' = [pending EXCEPT ![m.id] = 0]
  /\ UNCHANGED <<delivered, broken>>

AcceptWhole(m) ==
  /\ m.kind = "chunk" /\ IsWhole(m)
  /\ delivered' = Append(delivered, m.id)
  /\ UNCHANGED <<pending, broken>>

AcceptChunk(m) ==
  /\ m.kind = "chunk" /\ ~IsWhole(m) /\ IsExpected(m)
  /\ pending' = [pending EXCEPT ![m.id] = IF Completes(m) THEN 0 ELSE @ + 1]
  /\ delivered' = IF Completes(m) THEN Append(delivered, m.id) ELSE delivered
  /\ UNCHANGED broken

Refuse(m) ==
  /\ m.kind = "chunk" /\ ~IsWhole(m) /\ ~IsExpected(m)
  /\ broken' = TRUE
  /\ pending' = [id \in Id |-> 0]
  /\ UNCHANGED delivered

Accept(m) == AcceptCancellation(m) \/ AcceptWhole(m) \/ AcceptChunk(m) \/ Refuse(m)

Receive ==
  /\ open /\ wire # <<>>
  /\ Accept(Head(wire))
  /\ wire' = Tail(wire)
  /\ flushing' = (flushing \/ FallsLow)
  /\ UNCHANGED <<open, made, nextIndex, control, bulk, queuedBytes, pushing, historyVars>>

-------------------------------------------------------------------------------
FrameInit ==
  /\ open = TRUE /\ made = <<>> /\ nextIndex = [id \in Id |-> 0]
  /\ control = <<>> /\ bulk = <<>> /\ queuedBytes = 0
  /\ flushing = FALSE /\ pushing = 0 /\ wire = <<>>
  /\ pending = [id \in Id |-> 0] /\ broken = FALSE
  /\ delivered = <<>> /\ dropped = {} /\ subscriptions = 0 /\ queued = 0 /\ overflow = "none"

Flush ==
  \/ WriteCancellation \/ WriteControl \/ WriteBulk
  \/ PullSequence \/ WriteSequence \/ FlushReturns

FrameNext == SendFrame \/ Subscribe \/ SendSequence \/ SendPayload \/ Flush \/ Receive

FrameSpec == FrameInit /\ [][FrameNext]_frameVars

\* flush is a loop, a transfer is sent in another, and the carrier makes progress.
FrameFairSpec == FrameSpec /\ WF_frameVars(Flush) /\ WF_frameVars(SendSequence)
                   /\ WF_frameVars(SendPayload) /\ WF_frameVars(Receive)

-------------------------------------------------------------------------------
(* Properties *)

IsControl(id) == made[id].purpose = "control"

LiveFrames == FramesIn(control) \cup FramesIn(bulk)
Cancelling == {id \in Id : \E i \in DOMAIN control : control[i] = Cancellation(id)}

\* The queue is well formed: what it holds of a frame is not written yet
\* (PrioritizedFrameQueue, DataChannelFrameDecoder).
FrameTypeOK ==
  /\ {open, flushing, broken} \subseteq BOOLEAN
  /\ made \in Seq(Content) /\ nextFrameId <= MaxFrames
  /\ control \in Seq(Part) /\ bulk \in Seq(Part \cup OutgoingSequence)
  /\ \A id \in LiveFrames : id <= nextFrameId /\ nextIndex[id] < made[id].total
  /\ pushing \in 0 .. MaxFrames /\ queuedBytes \in Nat
  /\ nextIndex \in [Id -> 0 .. MaxChunks] /\ pending \in [Id -> 0 .. MaxChunks - 1]
  /\ overflow \in {"none", "itself", "others"}

\* The bytes that are accounted for are those that are queued, after every
\* cancellation of frames, sequences and half-written chunks: a drift would let
\* the queue grow without bound, or close healthy connections (queuedBytes).
AccountsForTheQueue == queuedBytes = Cardinality(Unsent(LiveFrames)) + Cardinality(Cancelling)

\* Overtaking and cancelling never garble a frame for the decoder, and leave it
\* at most one frame in pieces for each lane, below the limit at which it would
\* give up (DataChannelFrameDecoder.accept, cancelTransfer).
DecodesCleanly == ~broken /\ NumberPending <= 2

\* What a lane takes in first arrives first, the frames of a sequence in the
\* place of the sequence: no update overtakes the snapshot it patches, although
\* the rest of the snapshot is produced after it (enqueueSequence, flush).
Precedes(id, later) ==
  \/ made[id].rank < made[later].rank
  \/ made[id].rank = made[later].rank /\ id < later
LanesKeepOrder ==
  \A i, j \in DOMAIN delivered :
    i < j /\ (IsControl(delivered[i]) <=> IsControl(delivered[j])) =>
      Precedes(delivered[i], delivered[j])

\* A cancelled frame is never delivered (cancelTransfer).
CancelledIsGone == \A i \in DOMAIN delivered : delivered[i] \notin dropped

\* The two ends of a cancellation (cancelTransfer).
CancellationIsClean == AccountsForTheQueue /\ CancelledIsGone

\* The two ends of a lane (flush, DataChannelFrameDecoder.accept).
LanesArriveInOrder == DecodesCleanly /\ LanesKeepOrder

\* A transfer, each of whose frames fits the queue, does not overflow it by
\* itself, however many frames it has (enqueueSequence).
NeverOverflowsItself == overflow # "itself"

Arrived(id) == \E i \in DOMAIN delivered : delivered[i] = id

\* As long as the connection lives, whatever was queued arrives, unless it was
\* cancelled: flush is called again whenever the carrier has room
\* (setBufferedAmountLowThreshold).
QueuedArrives ==
  \A id \in Id : id <= nextFrameId ~> (Arrived(id) \/ id \in dropped \/ ~open)

===============================================================================
