------------------------------- MODULE BackendApi -------------------------------
(***************************************************************************)
(* The semantic protocol of a backend, with the uploads of files on top.   *)
(* A browser sends requests over a connection that breaks and comes back   *)
(* (src/client/data-channel-backend-api.ts); it sends again what is not    *)
(* answered.  The backend answers a request it knows from a cache, or      *)
(* joins the execution that is under way                                   *)
(* (src/server/backend-protocol-handler.ts).  A request is identified by   *)
(* the call it makes, and its parameters never change.  An attempt is one  *)
(* run of uploadAttachmentFile (src/client/file-upload.ts).                *)
(***************************************************************************)
EXTENDS FileUpload, Sequences, SequencesExt

CONSTANTS
  Attempt,        \* files that the user attaches
  Owner,          \* [Call -> Attempt]
  Kind,           \* [Call -> the method of the request]
  Part,           \* [Call -> Chunk \cup {Nothing}], the chunk of an append
  MaxCompleted,   \* MAX_COMPLETED_REQUESTS
  MaxActive       \* MAX_ACTIVE_REQUESTS

ASSUME ApiAssumption ==
  /\ Owner \in [Call -> Attempt]
  /\ Kind \in [Call -> {"create", "append", "complete", "abort"}]
  /\ Part \in [Call -> Chunk \cup {Nothing}]
  /\ \A c \in Call : Kind[c] = "append" => Part[c] \in Chunk
  /\ MaxCompleted \in Nat /\ MaxActive \in Nat
  \* A file has finitely many chunks, and its attempt makes one request of each other kind.
  /\ \A a \in Attempt : IsFiniteSet({c \in Call : Owner[c] = a})
  /\ \A c, d \in Call :
       Owner[c] = Owner[d] /\ Kind[c] = Kind[d] /\ Kind[c] # "append" => c = d

VARIABLES
  stage,      \* how far an attempt is
  uploadId,   \* the id that it was given
  pending,    \* the requests that wait for an answer, in the order they were made
  connected,  \* whether the connection is open
  toServer,   \* requests in flight
  toClient,   \* answers in flight
  completed,  \* the cache of answers, oldest first
  waiting,    \* executions that answer to the present connection when they end
  executed,   \* history: how often a request was executed
  forgotten   \* history: how often its answer was pushed out of the cache, or lost

clientVars == <<stage, uploadId, pending>>
linkVars == <<connected, toServer, toClient>>
serverVars == <<completed, waiting, executed, forgotten>>
vars == <<uploadVars, clientVars, linkVars, serverVars>>

Stages == {"idle", "creating", "sending", "completing", "aborting", "uploaded", "aborted", "failed"}
Answers == [call: Call, status: {"ok", "error"}, upload: Upload \cup {Nothing}]

\* The requests of an attempt.
Requests(a, kind) == {c \in Call : Owner[c] = a /\ Kind[c] = kind}

TypeOK ==
  /\ UploadTypeOK /\ trouble \in Nat
  /\ stage \in [Attempt -> Stages]
  /\ uploadId \in [Attempt -> Upload \cup {Nothing}]
  /\ pending \in Seq(Call) /\ IsInjective(pending)
  /\ connected \in BOOLEAN
  /\ toServer \in Seq(Call)
  /\ toClient \in Seq(Answers)
  /\ completed \in Seq(Answers) /\ Len(completed) <= MaxCompleted
  /\ waiting \subseteq Call
  /\ executed \in [Call -> Nat]
  /\ forgotten \in [Call -> Nat]

Init ==
  /\ UploadInit
  /\ stage = [a \in Attempt |-> "idle"]
  /\ uploadId = [a \in Attempt |-> Nothing]
  /\ pending = <<>>
  /\ connected = TRUE
  /\ toServer = <<>> /\ toClient = <<>>
  /\ completed = <<>>
  /\ waiting = {}
  /\ executed = [c \in Call |-> 0]
  /\ forgotten = [c \in Call |-> 0]

(***************************************************************************)
(* The browser                                                             *)
(***************************************************************************)
\* What becomes of an attempt, with the requests it makes: they are refused at once when
\* the connection is down.  `rest` are the requests that are pending already.
Requested(a, next, kind, rest) ==
  LET cs == SetToSeq(Requests(a, kind)) IN
  /\ stage' = [stage EXCEPT ![a] = next]
  /\ pending' = rest \o cs
  /\ toServer' = toServer \o cs

Dropped(a, rest) == stage' = [stage EXCEPT ![a] = "failed"] /\ pending' = rest /\ UNCHANGED toServer

\* The catch block: the upload is aborted, if the backend can be reached.
Aborts(a, rest) ==
  IF connected THEN Requested(a, "aborting", "abort", rest) ELSE Dropped(a, rest)

Completes(a, rest) ==
  IF connected THEN Requested(a, "completing", "complete", rest) ELSE Dropped(a, rest)

\* Chunks are sent in parallel; the first request that cannot be sent makes the attempt fail.
Sends(a, rest) ==
  IF ~connected THEN Dropped(a, rest)
  ELSE IF Chunk = {} THEN Completes(a, rest)
  ELSE Requested(a, "sending", "append", rest)

Attach(a) ==
  /\ stage[a] = "idle"
  /\ IF connected THEN Requested(a, "creating", "create", pending) ELSE Dropped(a, pending)
  /\ UNCHANGED <<uploadVars, uploadId, connected, toClient, serverVars>>

\* What a promise of the attempt leads to; chunks of an attempt that has failed are ignored.
Continues(c, status, u, rest) ==
  LET a == Owner[c]
      ignored == stage' = stage /\ pending' = rest /\ UNCHANGED toServer IN
  /\ uploadId' = IF Kind[c] = "create" /\ status = "ok" THEN [uploadId EXCEPT ![a] = u] ELSE uploadId
  /\ CASE Kind[c] = "create" -> IF status = "ok" THEN Sends(a, rest) ELSE Dropped(a, rest)
       [] Kind[c] = "append" -> IF stage[a] # "sending" THEN ignored
                                ELSE IF status = "error" THEN Aborts(a, rest)
                                ELSE IF Requests(a, "append") \cap Range(rest) = {} THEN Completes(a, rest)
                                ELSE ignored
       [] Kind[c] = "complete" -> IF status = "ok"
                                  THEN /\ stage' = [stage EXCEPT ![a] = "uploaded"]
                                       /\ pending' = rest
                                       /\ UNCHANGED toServer
                                  ELSE Aborts(a, rest)
       [] Kind[c] = "abort" -> /\ stage' = [stage EXCEPT ![a] = IF status = "ok" THEN "aborted" ELSE "failed"]
                               /\ pending' = rest
                               /\ UNCHANGED toServer

\* The requests that are pending after one of them.
Without(c) == RemoveAt(pending, CHOOSE i \in DOMAIN pending : pending[i] = c)

\* handleFrame: an answer to a request that is no longer pending is dropped.
HandleFrame ==
  /\ toClient # <<>>
  /\ toClient' = Tail(toClient)
  /\ LET x == Head(toClient) IN
     IF x.call \in Range(pending)
     THEN Continues(x.call, x.status, x.upload, Without(x.call))
     ELSE UNCHANGED <<clientVars, toServer>>
  /\ UNCHANGED <<uploadVars, connected, serverVars>>

RequestTimesOut(c) ==
  /\ c \in Range(pending)
  /\ Continues(c, "error", Nothing, Without(c))
  /\ UNCHANGED <<uploadVars, connected, toClient, serverVars>>

\* A prompt that names the uploaded document reaches a session: once or more often, and any
\* time after the attachment got its path.
Prompt(a) ==
  /\ stage[a] = "uploaded"
  /\ Refer(uploadId[a])
  /\ UNCHANGED <<clientVars, linkVars, serverVars>>

(***************************************************************************)
(* The connection                                                          *)
(***************************************************************************)
\* Mutant: the answers belong to a connection.
DropForgets ==
  /\ connected /\ Trouble
  /\ connected' = FALSE
  /\ toServer' = <<>> /\ toClient' = <<>>
  /\ completed' = <<>> /\ waiting' = {}
  /\ UNCHANGED <<issued, memory, calls, results, disk, ages, reclaimed, clientVars, executed, forgotten>>

Drop ==
  /\ connected /\ Trouble
  /\ connected' = FALSE
  /\ toServer' = <<>> /\ toClient' = <<>>
  /\ waiting' = {}
  /\ UNCHANGED <<issued, memory, calls, results, disk, ages, reclaimed, clientVars, completed, executed, forgotten>>

\* Every pending request is sent again.
Reconnect ==
  /\ ~connected
  /\ connected' = TRUE
  /\ toServer' = pending
  /\ UNCHANGED <<uploadVars, clientVars, toClient, serverVars>>

BackendRestarts ==
  /\ Restart
  /\ connected' = FALSE
  /\ toServer' = <<>> /\ toClient' = <<>>
  /\ completed' = <<>> /\ waiting' = {}
  /\ forgotten' = [c \in Call |-> IF executed[c] > forgotten[c] THEN forgotten[c] + 1 ELSE forgotten[c]]
  /\ UNCHANGED <<clientVars, executed>>

(***************************************************************************)
(* The backend                                                             *)
(***************************************************************************)
\* Mutant: requests that run are not remembered.
NoneActive == {c \in Call : IsAt(c, "none", "none")}

Active == {c \in Call : ~IsIdle(c)}
Cached(c) == {i \in DOMAIN completed : completed[i].call = c}

Dispatch(c) ==
  LET u == uploadId[Owner[c]] IN
  CASE Kind[c] = "create"   -> CreateBegins(c)
    [] Kind[c] = "append"   -> AppendBegins(c, u, Part[c])
    [] Kind[c] = "complete" -> CompleteBegins(c, u)
    [] Kind[c] = "abort"    -> AbortBegins(c, u)

AnswersFromCache(c) ==
  /\ Cached(c) # {}
  /\ toClient' = Append(toClient, completed[CHOOSE i \in Cached(c) : TRUE])
  /\ UNCHANGED <<uploadVars, serverVars>>

JoinsExecution(c) ==
  /\ Cached(c) = {} /\ c \in Active
  /\ waiting' = waiting \cup {c}
  /\ UNCHANGED <<uploadVars, toClient, completed, executed, forgotten>>

RefusesRequest(c) ==
  /\ Cached(c) = {} /\ c \notin Active /\ Cardinality(Active) >= MaxActive
  /\ toClient' = Append(toClient, [call |-> c, status |-> "error", upload |-> Nothing])
  /\ UNCHANGED <<uploadVars, serverVars>>

Executes(c) ==
  /\ Cached(c) = {} /\ c \notin Active /\ Cardinality(Active) < MaxActive
  /\ Dispatch(c)
  /\ waiting' = waiting \cup {c}
  /\ executed' = [executed EXCEPT ![c] = @ + 1]
  /\ UNCHANGED <<toClient, completed, forgotten>>

Accept ==
  /\ toServer # <<>>
  /\ toServer' = Tail(toServer)
  /\ LET c == Head(toServer) IN
     AnswersFromCache(c) \/ JoinsExecution(c) \/ RefusesRequest(c) \/ Executes(c)
  /\ UNCHANGED <<clientVars, connected>>

\* Mutant: the oldest answer stays.
RemembersAll(x) == completed' = Append(completed, x) /\ UNCHANGED forgotten

\* execute ends: the answer is remembered, the oldest one makes room for it, and whoever
\* waits on an open connection is told.
Remembered(x) ==
  LET all == Append(completed, x) IN
  IF Len(all) <= MaxCompleted
  THEN completed' = all /\ UNCHANGED forgotten
  ELSE completed' = Tail(all) /\ forgotten' = [forgotten EXCEPT ![Head(all).call] = @ + 1]

Answer(c) ==
  LET x == [call |-> c, status |-> results[c].status, upload |-> results[c].upload] IN
  /\ Forget(c)
  /\ Remembered(x)
  /\ toClient' = IF c \in waiting THEN Append(toClient, x) ELSE toClient
  /\ waiting' = waiting \ {c}
  /\ UNCHANGED <<clientVars, connected, toServer, executed>>

StoreStep ==
  /\ \/ \E c \in Call : CallStep(c)
     \/ WriteStep
     \/ TimeGoesBy
     \/ \E u \in Upload : DeleteSession(u)
  /\ UNCHANGED <<clientVars, linkVars, serverVars>>

Next ==
  \/ \E a \in Attempt : Attach(a) \/ Prompt(a)
  \/ HandleFrame
  \/ \E c \in Call : RequestTimesOut(c) \/ Answer(c)
  \/ Drop \/ Reconnect \/ BackendRestarts
  \/ Accept
  \/ StoreStep

Spec == Init /\ [][Next]_vars

(***************************************************************************)
(* Properties                                                              *)
(***************************************************************************)
\* A request that is sent again is not executed again while its answer is kept or its
\* execution is under way (BackendProtocolHandler.accept).
ExecutedOnce == \A c \in Call : executed[c] <= 1 + forgotten[c]

\* A file that the browser was told is uploaded is there for seven days, whatever is repeated,
\* swept or restarted.  Left out are uploads that cleanupUploads aborted while they were being
\* completed (completeFileUpload, cleanupUploads).
Whole(u) == dirs[u].manifest = "completed" /\ dirs[u].data = Chunk
UploadedIsKept ==
  \A a \in Attempt : stage[a] = "uploaded" => Whole(uploadId[a]) \/ uploadId[a] \in reclaimed \cup aged

\* A file that is there when a session mentions it stays as long as one does, with the same
\* exception; one that was gone before is not missed (isUploadReferenced).
MentionedIsKept ==
  [][\A u \in Upload : u \in referenced /\ Whole(u) => Whole(u)' \/ u \in reclaimed']_vars

\* An upload whose abort was confirmed leaves nothing behind and does not come back
\* (abortFileUpload), unless it had been completed first.
AbortedIsGone ==
  \A a \in Attempt : stage[a] = "aborted" => dirs[uploadId[a]].manifest # "active"

\* What the server has answered about an upload stays true, whatever is repeated, expires or is
\* restarted afterwards (completeFileUpload, pruneCompletedUploads, abortFileUpload).
AnswersHold == []UploadedIsKept /\ MentionedIsKept /\ []AbortedIsGone

\* Repeated requests, lost connections and restarts do to the uploads nothing that the
\* operations of LocalBackendApi do not do, each call run at most once at a time.
ImplementsUploads == UploadSpec

\* What completeFileUpload tells the user of an upload holds without exception.
UploadedIsUsable ==
  \A a \in Attempt : stage[a] = "uploaded" => Whole(uploadId[a]) \/ uploadId[a] \in aged

\* What a session mentions is there, unless cleanupUploads aborted it while it was completed.
MentionedIsThere == \A u \in referenced : Whole(u) \/ u \in reclaimed

\* No more uploads are active than createFileUpload allows.
UploadsAreBounded == Cardinality(tracked) <= MaxUploads
=================================================================================
