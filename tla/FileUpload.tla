------------------------------- MODULE FileUpload -------------------------------
(***************************************************************************)
(* Uploads of files to a backend (src/server/local-backend-api.ts).  A     *)
(* call of one of the four operations runs in steps, each of which ends at *)
(* an await: other calls, the end of a disk write, or the end of the       *)
(* process may come between.  An upload is kept twice: in the map `uploads`*)
(* of the process, and as a directory with a manifest and the file.  A     *)
(* file is the set Chunk of its chunks; chunks of one file do not overlap. *)
(***************************************************************************)
EXTENDS Integers, FiniteSets

CONSTANTS
  Upload,      \* random upload ids
  Call,        \* calls of the operations
  Chunk,       \* the chunks of a file
  MaxUploads,  \* MAX_ACTIVE_UPLOADS
  Nothing,     \* undefined
  MaxTrouble   \* bound: restarts, hours that go by, writes that the disk refuses

ASSUME UploadAssumption ==
  /\ IsFiniteSet(Chunk)
  /\ Nothing \notin Upload \cup Chunk

VARIABLES
  issued,     \* history: the ids that createFileUpload has drawn
  tracked,    \* the keys of `uploads`
  chunks,     \* `chunks` of an upload
  received,   \* `received` of an upload, counted in chunks
  cleaned,    \* whether lastUploadCleanupAt is less than an hour ago
  calls,      \* the calls that run
  results,    \* the results of the calls that have ended
  dirs,       \* the directories of uploads
  referenced, \* uploads whose path a session file contains
  stale,      \* uploads whose updatedAt is more than ACTIVE_UPLOAD_TTL_MS ago
  aged,       \* uploads whose updatedAt is more than COMPLETED_UPLOAD_RETENTION_MS ago
  reclaimed,  \* history: uploads that cleanupUploads has aborted
  trouble     \* how much of what MaxTrouble bounds has happened

memory == <<tracked, chunks, received, cleaned>>
disk == <<dirs, referenced>>
ages == <<stale, aged>>
storeVars == <<issued, memory, calls, results, disk, ages, reclaimed>>
uploadVars == <<storeVars, trouble>>

\* What a call waits for.  A create sweeps expired uploads first and then makes its
\* directory; "settling" is the wait for the chunks `left`.
Places == {"sweeping", "making", "writing", "joining", "settling", "reading", "removing"}
Running == [method: {"create", "append", "complete", "abort"}, upload: Upload \cup {Nothing},
            chunk: Chunk \cup {Nothing}, at: Places, expired: SUBSET Upload, left: SUBSET Chunk]
Idle == [method |-> "none", upload |-> Nothing, chunk |-> Nothing, at |-> "idle", expired |-> {}, left |-> {}]
Results == [status: {"none", "ok", "error"}, upload: Upload \cup {Nothing}]
NoResult == [status |-> "none", upload |-> Nothing]
Directories == [made: BOOLEAN, manifest: {"none", "active", "completed"}, data: SUBSET Chunk]
NoDirectory == [made |-> FALSE, manifest |-> "none", data |-> {}]

UploadTypeOK ==
  /\ issued \subseteq Upload
  /\ tracked \subseteq Upload
  /\ chunks \in [Upload -> [Chunk -> {"none", "writing", "written"}]]
  /\ received \in [Upload -> Nat]
  /\ cleaned \in BOOLEAN
  /\ calls \in [Call -> Running \cup {Idle}]
  /\ results \in [Call -> Results]
  /\ dirs \in [Upload -> Directories]
  /\ referenced \subseteq Upload
  /\ stale \subseteq Upload
  /\ aged \subseteq Upload
  /\ reclaimed \subseteq Upload

NoChunks == [u \in Upload |-> [k \in Chunk |-> "none"]]

UploadInit ==
  /\ issued = {}
  /\ tracked = {}
  /\ chunks = NoChunks
  /\ received = [u \in Upload |-> 0]
  /\ cleaned = FALSE
  /\ calls = [c \in Call |-> Idle]
  /\ results = [c \in Call |-> NoResult]
  /\ dirs = [u \in Upload |-> NoDirectory]
  /\ referenced = {} /\ stale = {} /\ aged = {} /\ reclaimed = {}
  /\ trouble = 0

(***************************************************************************)
(* Steps of a call                                                         *)
(***************************************************************************)
IsIdle(c) == calls[c] = Idle /\ results[c] = NoResult
IsAt(c, method, at) == calls[c].method = method /\ calls[c].at = at
Writing(u) == {k \in Chunk : chunks[u][k] = "writing"}

Waits(c, method, u, k, at, left) ==
  /\ calls' = [calls EXCEPT ![c] =
       [method |-> method, upload |-> u, chunk |-> k, at |-> at, expired |-> {}, left |-> left]]
  /\ UNCHANGED results

Ends(c, status, u) ==
  /\ calls' = [calls EXCEPT ![c] = Idle]
  /\ results' = [results EXCEPT ![c] = [status |-> status, upload |-> u]]

Trouble == trouble < MaxTrouble /\ trouble' = trouble + 1
NoTrouble == UNCHANGED trouble

\* cleanupUploads first aborts, one after the other, the uploads that are expired now,
\* unless a chunk has come for one of them before its turn.
CreateBegins(c) ==
  /\ calls' = [calls EXCEPT ![c] =
       [method |-> "create", upload |-> Nothing, chunk |-> Nothing, at |-> "sweeping",
        expired |-> tracked \cap stale, left |-> {}]]
  /\ UNCHANGED <<issued, memory, results, disk, ages, reclaimed, trouble>>

SweepBegins(c, u) ==
  /\ IsAt(c, "create", "sweeping") /\ calls[c].upload = Nothing /\ u \in calls[c].expired
  /\ \/ /\ u \in stale
        /\ u \in tracked \/ dirs[u].manifest = "active"
        /\ calls' = [calls EXCEPT ![c].upload = u,
                                  ![c].left = IF u \in tracked THEN Writing(u) ELSE {}]
        /\ reclaimed' = reclaimed \cup {u}
        /\ tracked' = tracked \ {u}
     \/ /\ u \notin stale \/ (u \notin tracked /\ dirs[u].manifest # "active")
        /\ calls' = [calls EXCEPT ![c].expired = @ \ {u}]
        /\ UNCHANGED <<reclaimed, tracked>>
  /\ UNCHANGED <<issued, chunks, received, cleaned, results, disk, ages, trouble>>

SweepEnds(c) ==
  LET u == calls[c].upload IN
  /\ IsAt(c, "create", "sweeping") /\ u # Nothing /\ calls[c].left = {}
  /\ dirs' = [dirs EXCEPT ![u] = NoDirectory]
  /\ calls' = [calls EXCEPT ![c].upload = Nothing, ![c].expired = @ \ {u}]
  /\ UNCHANGED <<issued, memory, results, referenced, ages, reclaimed, trouble>>

\* Mutant: nobody looks for the path in the sessions.
SweepableUnread(u) ==
  \/ dirs[u].manifest = "none"
  \/ dirs[u].manifest = "active" /\ u \in stale \ tracked
  \/ dirs[u].manifest = "completed" /\ u \in aged

\* Directories without a manifest, those of expired uploads, and those of completed
\* uploads that are old and that no session mentions.  What the map still holds was
\* not expired when cleanupUploads read the clock.
Sweepable(u) ==
  \/ dirs[u].manifest = "none"
  \/ dirs[u].manifest = "active" /\ u \in stale \ tracked
  \/ dirs[u].manifest = "completed" /\ u \in aged \ referenced

CreateChecks(c) ==
  /\ IsAt(c, "create", "sweeping") /\ calls[c].upload = Nothing /\ calls[c].expired = {}
  /\ dirs' = [u \in Upload |-> IF ~cleaned /\ Sweepable(u) THEN NoDirectory ELSE dirs[u]]
  /\ cleaned' = TRUE
  /\ IF Cardinality(tracked) >= MaxUploads
     THEN Ends(c, "error", Nothing)
     ELSE Waits(c, "create", Nothing, Nothing, "making", {})
  /\ UNCHANGED <<issued, tracked, chunks, received, referenced, ages, reclaimed, trouble>>

CreateMakes(c, u) ==
  /\ IsAt(c, "create", "making") /\ calls[c].upload = Nothing
  /\ u \notin issued
  /\ issued' = issued \cup {u}
  /\ dirs' = [dirs EXCEPT ![u].made = TRUE]
  /\ calls' = [calls EXCEPT ![c].upload = u]
  /\ UNCHANGED <<memory, results, referenced, ages, reclaimed, trouble>>

\* The manifest is written and the upload entered in the map, unless the directory was
\* swept meanwhile or the disk refuses.
CreateFinishes(c) ==
  LET u == calls[c].upload IN
  /\ IsAt(c, "create", "making") /\ u # Nothing
  /\ \/ /\ dirs[u].made /\ NoTrouble
        /\ dirs' = [dirs EXCEPT ![u].manifest = "active"]
        /\ tracked' = tracked \cup {u}
        /\ Ends(c, "ok", u)
     \/ /\ IF dirs[u].made THEN Trouble ELSE NoTrouble
        /\ dirs' = [dirs EXCEPT ![u] = NoDirectory]
        /\ Ends(c, "error", Nothing)
        /\ UNCHANGED tracked
  /\ UNCHANGED <<issued, chunks, received, cleaned, referenced, ages, reclaimed>>

Fails(c) ==
  /\ Ends(c, "error", Nothing)
  /\ UNCHANGED <<issued, memory, disk, ages, reclaimed, trouble>>

\* A chunk that is there already, or on its way, is not written again.
AppendBegins(c, u, k) ==
  \/ u \notin tracked /\ Fails(c)
  \/ /\ u \in tracked /\ chunks[u][k] = "none"
     /\ stale' = stale \ {u} /\ aged' = aged \ {u}
     /\ \/ /\ chunks' = [chunks EXCEPT ![u][k] = "writing"]
           /\ Waits(c, "append", u, k, "writing", {})
           /\ NoTrouble
        \/ Trouble /\ Ends(c, "error", Nothing) /\ UNCHANGED chunks
     /\ UNCHANGED <<issued, tracked, received, cleaned, disk, reclaimed>>
  \/ /\ u \in tracked /\ chunks[u][k] # "none"
     /\ IF chunks[u][k] = "writing"
        THEN Waits(c, "append", u, k, "joining", {})
        ELSE Ends(c, "ok", u)
     /\ UNCHANGED <<issued, memory, disk, ages, reclaimed, trouble>>

\* The calls that wait for the write of a chunk, when it has ended.
OnChunk(c, u, k) == calls[c].upload = u /\ calls[c].chunk = k /\ calls[c].at \in {"writing", "joining"}
AwaitsChunk(c, u, k) == calls[c].upload = u /\ k \in calls[c].left
Rejected(c, u, k) == OnChunk(c, u, k) \/ (AwaitsChunk(c, u, k) /\ calls[c].method = "complete")

WriteSucceeds(u, k) ==
  /\ chunks[u][k] = "writing" /\ dirs[u].made
  /\ chunks' = [chunks EXCEPT ![u][k] = "written"]
  /\ received' = [received EXCEPT ![u] = @ + 1]
  /\ dirs' = [dirs EXCEPT ![u].data = @ \cup {k}]
  /\ calls' = [c \in Call |-> IF OnChunk(c, u, k) THEN Idle
                              ELSE IF AwaitsChunk(c, u, k) THEN [calls[c] EXCEPT !.left = @ \ {k}]
                              ELSE calls[c]]
  /\ results' = [c \in Call |-> IF OnChunk(c, u, k) THEN [status |-> "ok", upload |-> u] ELSE results[c]]
  /\ UNCHANGED <<issued, tracked, cleaned, referenced, ages, reclaimed, trouble>>

\* The record of the chunk is deleted, so that it may be sent again; a complete that
\* waits for it is rejected with it, an abort only waits for its end.
WriteFails(u, k) ==
  /\ chunks[u][k] = "writing"
  /\ IF dirs[u].made THEN Trouble ELSE NoTrouble
  /\ chunks' = [chunks EXCEPT ![u][k] = "none"]
  /\ calls' = [c \in Call |-> IF Rejected(c, u, k) THEN Idle
                              ELSE IF AwaitsChunk(c, u, k) THEN [calls[c] EXCEPT !.left = @ \ {k}]
                              ELSE calls[c]]
  /\ results' = [c \in Call |-> IF Rejected(c, u, k) THEN [status |-> "error", upload |-> Nothing] ELSE results[c]]
  /\ UNCHANGED <<issued, tracked, received, cleaned, disk, ages, reclaimed>>

\* An upload that is not in the map may have been completed before.
CompleteBegins(c, u) ==
  /\ IF u \in tracked THEN Waits(c, "complete", u, Nothing, "settling", Writing(u))
     ELSE IF dirs[u].manifest = "completed" THEN Ends(c, "ok", u)
     ELSE Ends(c, "error", Nothing)
  /\ UNCHANGED <<issued, memory, disk, ages, reclaimed, trouble>>

CompleteReads(c) ==
  LET u == calls[c].upload IN
  /\ IsAt(c, "complete", "settling") /\ calls[c].left = {}
  /\ IF received[u] # Cardinality(Chunk)
     THEN Ends(c, "error", Nothing)
     ELSE Waits(c, "complete", u, Nothing, "reading", {})
  /\ UNCHANGED <<issued, memory, disk, ages, reclaimed, trouble>>

CompleteFinishes(c) ==
  LET u == calls[c].upload IN
  /\ IsAt(c, "complete", "reading")
  /\ \/ /\ dirs[u].made /\ NoTrouble
        /\ dirs' = [dirs EXCEPT ![u].manifest = "completed"]
        /\ tracked' = tracked \ {u}
        /\ stale' = stale \ {u} /\ aged' = aged \ {u}
        /\ Ends(c, "ok", u)
     \/ /\ IF dirs[u].made THEN Trouble ELSE NoTrouble
        /\ Ends(c, "error", Nothing)
        /\ UNCHANGED <<dirs, tracked, ages>>
  /\ UNCHANGED <<issued, chunks, received, cleaned, referenced, reclaimed>>

AbortBegins(c, u) ==
  /\ IF u \in tracked THEN Waits(c, "abort", u, Nothing, "settling", Writing(u))
     ELSE IF dirs[u].manifest = "active" THEN Waits(c, "abort", u, Nothing, "removing", {})
     ELSE Ends(c, "ok", u)
  /\ tracked' = tracked \ {u}
  /\ UNCHANGED <<issued, chunks, received, cleaned, disk, ages, reclaimed, trouble>>

AbortRemoves(c) ==
  LET u == calls[c].upload IN
  /\ IsAt(c, "abort", "settling") \/ IsAt(c, "abort", "removing")
  /\ calls[c].left = {}
  /\ dirs' = [dirs EXCEPT ![u] = NoDirectory]
  /\ Ends(c, "ok", u)
  /\ UNCHANGED <<issued, memory, referenced, ages, reclaimed, trouble>>

(***************************************************************************)
(* Around the calls                                                        *)
(***************************************************************************)
\* A session contains a prompt with the path of a document, whether it is still there or
\* not.  The path of an image is replaced by its content before the session sees it.
Refer(u) ==
  /\ u \in issued
  /\ referenced' = referenced \cup {u}
  /\ UNCHANGED <<issued, memory, calls, results, dirs, ages, reclaimed, trouble>>

DeleteSession(u) ==
  /\ u \in referenced
  /\ referenced' = referenced \ {u}
  /\ UNCHANGED <<issued, memory, calls, results, dirs, ages, reclaimed, trouble>>

\* The answer of a call has been taken.
Forget(c) ==
  /\ results[c] # NoResult
  /\ results' = [results EXCEPT ![c] = NoResult]
  /\ UNCHANGED <<issued, memory, calls, disk, ages, reclaimed, trouble>>

\* No hour goes by during a sweep.
TimeGoesBy ==
  /\ \A c \in Call : calls[c].at # "sweeping"
  /\ Trouble
  /\ cleaned' = FALSE
  /\ stale' = issued
  /\ aged' \in {aged, issued}
  /\ UNCHANGED <<issued, tracked, chunks, received, calls, results, disk, reclaimed>>

Restart ==
  /\ Trouble
  /\ tracked' = {} /\ chunks' = NoChunks /\ received' = [u \in Upload |-> 0]
  /\ cleaned' = FALSE
  /\ calls' = [c \in Call |-> Idle]
  /\ results' = [c \in Call |-> NoResult]
  /\ UNCHANGED <<issued, disk, ages, reclaimed>>

CallBegins(c) ==
  /\ IsIdle(c)
  /\ \/ CreateBegins(c)
     \/ \E u \in issued : \/ \E k \in Chunk : AppendBegins(c, u, k)
                          \/ CompleteBegins(c, u)
                          \/ AbortBegins(c, u)

CallStep(c) ==
  \/ \E u \in Upload : SweepBegins(c, u) \/ CreateMakes(c, u)
  \/ SweepEnds(c) \/ CreateChecks(c) \/ CreateFinishes(c)
  \/ CompleteReads(c) \/ CompleteFinishes(c) \/ AbortRemoves(c)

WriteStep == \E u \in Upload, k \in Chunk : WriteSucceeds(u, k) \/ WriteFails(u, k)
UserStep == \E u \in Upload : Refer(u) \/ DeleteSession(u)

UploadNext ==
  \/ \E c \in Call : CallBegins(c) \/ CallStep(c) \/ Forget(c)
  \/ WriteStep \/ UserStep \/ TimeGoesBy \/ Restart

UploadSpec == UploadInit /\ [][UploadNext]_storeVars

(***************************************************************************)
(* Properties                                                              *)
(***************************************************************************)
\* A file that a manifest calls completed has all of its chunks, whatever was sent twice,
\* refused by the disk, swept or aborted meanwhile (completeFileUpload trusts `received`).
CompletedIsWhole == \A u \in Upload : dirs[u].manifest = "completed" => dirs[u].data = Chunk
=================================================================================
