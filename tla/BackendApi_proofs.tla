---------------------------- MODULE BackendApi_proofs ----------------------------
(***************************************************************************)
(* A file that its manifest calls completed is whole, whatever calls the   *)
(* operations run at once.  Requests that are sent again over a connection *)
(* that breaks are executed once, and do to the uploads what their         *)
(* operations do.  What was answered about an upload stays true.           *)
(***************************************************************************)
EXTENDS BackendApi, FiniteSetTheorems, SequenceTheorems, TLAPS

-------------------------------------------------------------------------------
(* The store of uploads *)

Written(u) == {k \in Chunk : chunks[u][k] = "written"}

\* Ids are given out once: nothing is known of one that was not drawn.
IdsAreFresh ==
  /\ tracked \subseteq issued
  /\ \A c \in Call : calls[c].at = "making" /\ calls[c].upload # Nothing => calls[c].upload \in issued
  /\ \A u \in Upload \ issued : \A k \in Chunk : chunks[u][k] = "none"

\* `received` counts the chunks that were written.
CountsTheWritten == \A u \in Upload : received[u] = Cardinality(Written(u))

\* What was written is in the file, as long as there is one.
WrittenIsStored == \A u \in Upload : dirs[u].made => Written(u) \subseteq dirs[u].data

\* A complete is for an upload.
CompletesAnUpload == \A c \in Call : calls[c].method = "complete" => calls[c].upload \in Upload

\* A complete that reads the file has seen every chunk.
ReadsTheWhole ==
  \A c \in Call : calls[c].at = "reading" => calls[c].upload \in Upload /\ Written(calls[c].upload) = Chunk

UploadInv ==
  /\ UploadTypeOK
  /\ IdsAreFresh
  /\ CountsTheWritten
  /\ WrittenIsStored
  /\ CompletesAnUpload
  /\ ReadsTheWhole
  /\ CompletedIsWhole

\* The service starts with nothing.
LEMMA UploadInitial == UploadInit => UploadInv
<1> SUFFICES ASSUME UploadInit PROVE UploadInv
  OBVIOUS
<1>1. UploadTypeOK
  BY DEF UploadInit, UploadTypeOK, NoChunks, NoResult, Results, Directories, NoDirectory
<1>2. \A u \in Upload : Written(u) = {}
  BY DEF UploadInit, Written, NoChunks
<1>3. CountsTheWritten
  BY <1>2, FS_EmptySet DEF UploadInit, CountsTheWritten
<1> QED
  BY <1>1, <1>2, <1>3 DEF UploadInit, UploadInv, IdsAreFresh, NoChunks, WrittenIsStored, CompletesAnUpload,
    ReadsTheWhole, CompletedIsWhole, Idle, NoDirectory

CallTypes == calls \in [Call -> Running \cup {Idle}] /\ results \in [Call -> Results]

\* A call that waits is a running one.
LEMMA WaitsTypes ==
  ASSUME CallTypes, NEW c \in Call, NEW method \in {"create", "append", "complete", "abort"},
         NEW u \in Upload \cup {Nothing}, NEW k \in Chunk \cup {Nothing}, NEW at \in Places,
         NEW left \in SUBSET Chunk, Waits(c, method, u, k, at, left)
  PROVE  CallTypes'
<1>1. [method |-> method, upload |-> u, chunk |-> k, at |-> at, expired |-> {}, left |-> left] \in Running
  BY DEF Running
<1> QED
  BY <1>1 DEF Waits, CallTypes

\* A call that ends has a result.
LEMMA EndsTypes ==
  ASSUME CallTypes, NEW c \in Call, NEW status \in {"ok", "error"}, NEW u \in Upload \cup {Nothing},
         Ends(c, status, u)
  PROVE  CallTypes'
BY DEF Ends, CallTypes, Results

\* A call that runs goes on with other fields.
LEMMA ProceedsTypes ==
  ASSUME CallTypes, NEW c \in Call, NEW x \in Running, calls' = [calls EXCEPT ![c] = x], UNCHANGED results
  PROVE  CallTypes'
BY DEF CallTypes

\* What the steps of a call do to its record.
LEMMA RecordTypes ==
  ASSUME NEW x \in Running
  PROVE  /\ \A u \in Upload \cup {Nothing} : [x EXCEPT !.upload = u] \in Running
         /\ \A e \in SUBSET Upload : [x EXCEPT !.expired = e] \in Running
         /\ \A l \in SUBSET Chunk : [x EXCEPT !.left = l] \in Running
         /\ x.upload \in Upload \cup {Nothing} /\ x.expired \subseteq Upload /\ x.left \subseteq Chunk
BY DEF Running

StorageTypes ==
  /\ issued \subseteq Upload
  /\ tracked \subseteq Upload
  /\ chunks \in [Upload -> [Chunk -> {"none", "writing", "written"}]]
  /\ received \in [Upload -> Nat]
  /\ cleaned \in BOOLEAN
  /\ dirs \in [Upload -> Directories]
  /\ referenced \subseteq Upload
  /\ stale \subseteq Upload
  /\ aged \subseteq Upload
  /\ reclaimed \subseteq Upload

\* The two halves of the types.
LEMMA TypesSplit == UploadTypeOK <=> CallTypes /\ StorageTypes
BY DEF UploadTypeOK, CallTypes, StorageTypes

\* The calls keep their types.
LEMMA CallTypesKept == ASSUME UploadTypeOK, [UploadNext]_storeVars PROVE CallTypes'
<1>t. CallTypes /\ StorageTypes
  BY TypesSplit
<1>w. \A u \in Upload : Writing(u) \subseteq Chunk
  BY DEF Writing
<1>0. CASE UNCHANGED storeVars
  BY <1>0, <1>t DEF storeVars, CallTypes
<1>1. ASSUME NEW c \in Call, CallBegins(c) PROVE CallTypes'
  <2>1. CASE CreateBegins(c)
    <3> DEFINE x == [method |-> "create", upload |-> Nothing, chunk |-> Nothing, at |-> "sweeping",
                     expired |-> tracked \cap stale, left |-> {}]
    <3>1. x \in Running
      BY <1>t DEF Running, Places, StorageTypes
    <3>2. calls' = [calls EXCEPT ![c] = x] /\ UNCHANGED results
      BY <2>1 DEF CreateBegins
    <3> HIDE DEF x
    <3> QED
      BY <3>1, <3>2, <1>t, ProceedsTypes
  <2>2. ASSUME NEW u \in Upload, NEW k \in Chunk, AppendBegins(c, u, k) PROVE CallTypes'
    <3>1. \/ Ends(c, "error", Nothing) \/ Ends(c, "ok", u)
          \/ Waits(c, "append", u, k, "writing", {}) \/ Waits(c, "append", u, k, "joining", {})
      BY <2>2 DEF AppendBegins, Fails
    <3> QED
      BY <3>1, <1>t, EndsTypes, WaitsTypes DEF Places
  <2>3. ASSUME NEW u \in Upload, CompleteBegins(c, u) PROVE CallTypes'
    <3>1. \/ Ends(c, "error", Nothing) \/ Ends(c, "ok", u)
          \/ Waits(c, "complete", u, Nothing, "settling", Writing(u))
      BY <2>3 DEF CompleteBegins
    <3> QED
      BY <3>1, <1>t, <1>w, EndsTypes, WaitsTypes DEF Places
  <2>4. ASSUME NEW u \in Upload, AbortBegins(c, u) PROVE CallTypes'
    <3>1. \/ Ends(c, "ok", u)
          \/ Waits(c, "abort", u, Nothing, "settling", Writing(u))
          \/ Waits(c, "abort", u, Nothing, "removing", {})
      BY <2>4 DEF AbortBegins
    <3> QED
      BY <3>1, <1>t, <1>w, EndsTypes, WaitsTypes DEF Places
  <2> QED
    BY <1>1, <2>1, <2>2, <2>3, <2>4, <1>t DEF CallBegins, StorageTypes
<1>2. ASSUME NEW c \in Call, CallStep(c) PROVE CallTypes'
  <2>t. calls[c] \in Running \/ calls[c] = Idle
    BY <1>t DEF CallTypes
  <2>i. \A method, at \in {"create", "append", "complete", "abort"} \cup Places :
          IsAt(c, method, at) => calls[c] \in Running
    BY <2>t DEF IsAt, Idle, Places
  <2>1. ASSUME NEW u \in Upload, SweepBegins(c, u) PROVE CallTypes'
    <3>1. calls[c] \in Running
      BY <2>1, <2>i DEF SweepBegins, Places
    <3>2. CASE calls' = [calls EXCEPT ![c].expired = @ \ {u}]
      <4> DEFINE x == [calls[c] EXCEPT !.expired = @ \ {u}]
      <4>1. x \in Running
        BY <3>1 DEF Running
      <4>2. calls' = [calls EXCEPT ![c] = x] /\ UNCHANGED results
        BY <3>2, <2>1, <1>t DEF SweepBegins, CallTypes
      <4> HIDE DEF x
      <4> QED
        BY <4>1, <4>2, <1>t, ProceedsTypes
    <3>3. CASE calls' = [calls EXCEPT ![c].upload = u, ![c].left = IF u \in tracked THEN Writing(u) ELSE {}]
      <4> DEFINE x == [calls[c] EXCEPT !.upload = u, !.left = IF u \in tracked THEN Writing(u) ELSE {}]
      <4>1. x \in Running
        BY <3>1, <1>w DEF Running
      <4>2. calls' = [calls EXCEPT ![c] = x] /\ UNCHANGED results
        BY <3>3, <2>1, <1>t DEF SweepBegins, CallTypes
      <4> HIDE DEF x
      <4> QED
        BY <4>1, <4>2, <1>t, ProceedsTypes
    <3> QED
      BY <2>1, <3>2, <3>3 DEF SweepBegins
  <2>2. CASE SweepEnds(c)
    <3> DEFINE x == [calls[c] EXCEPT !.upload = Nothing, !.expired = @ \ {calls[c].upload}]
    <3>1. x \in Running
      BY <2>2, <2>i DEF SweepEnds, Running, Places
    <3>2. calls' = [calls EXCEPT ![c] = x] /\ UNCHANGED results
      BY <2>2, <1>t DEF SweepEnds, CallTypes
    <3> HIDE DEF x
    <3> QED
      BY <3>1, <3>2, <1>t, ProceedsTypes
  <2>3. CASE CreateChecks(c)
    <3>1. Ends(c, "error", Nothing) \/ Waits(c, "create", Nothing, Nothing, "making", {})
      BY <2>3 DEF CreateChecks
    <3> QED
      BY <3>1, <1>t, EndsTypes, WaitsTypes DEF Places
  <2>4. ASSUME NEW u \in Upload, CreateMakes(c, u) PROVE CallTypes'
    <3> DEFINE x == [calls[c] EXCEPT !.upload = u]
    <3>1. x \in Running
      BY <2>4, <2>i DEF CreateMakes, Running, Places
    <3>2. calls' = [calls EXCEPT ![c] = x] /\ UNCHANGED results
      BY <2>4, <1>t DEF CreateMakes, CallTypes
    <3> HIDE DEF x
    <3> QED
      BY <3>1, <3>2, <1>t, ProceedsTypes
  <2>5. CASE CreateFinishes(c) \/ CompleteReads(c) \/ CompleteFinishes(c) \/ AbortRemoves(c)
    <3> DEFINE u == calls[c].upload
    <3>1. u \in Upload \cup {Nothing}
      BY <2>5, <2>i DEF CreateFinishes, CompleteReads, CompleteFinishes, AbortRemoves, Running, IsAt, Places
    <3>2. \/ Ends(c, "error", Nothing) \/ Ends(c, "ok", u)
          \/ Waits(c, "complete", u, Nothing, "reading", {})
      BY <2>5 DEF CreateFinishes, CompleteReads, CompleteFinishes, AbortRemoves
    <3> HIDE DEF u
    <3> QED
      BY <3>1, <3>2, <1>t, EndsTypes, WaitsTypes DEF Places
  <2> QED
    BY <1>2, <2>1, <2>2, <2>3, <2>4, <2>5 DEF CallStep
<1>3. ASSUME NEW c \in Call, Forget(c) PROVE CallTypes'
  BY <1>3, <1>t DEF Forget, CallTypes, Results, NoResult
<1>4. ASSUME NEW u \in Upload, NEW k \in Chunk, WriteSucceeds(u, k) \/ WriteFails(u, k) PROVE CallTypes'
  <2>1. \A c \in Call : \/ calls'[c] = Idle \/ calls'[c] = calls[c]
                        \/ AwaitsChunk(c, u, k) /\ calls'[c] = [calls[c] EXCEPT !.left = @ \ {k}]
    BY <1>4 DEF WriteSucceeds, WriteFails
  <2>2. \A c \in Call : calls'[c] \in Running \cup {Idle}
    <3> SUFFICES ASSUME NEW c \in Call PROVE calls'[c] \in Running \cup {Idle}
      OBVIOUS
    <3>1. CASE AwaitsChunk(c, u, k) /\ calls'[c] = [calls[c] EXCEPT !.left = @ \ {k}]
      <4>1. calls[c] \in Running
        BY <3>1, <1>t DEF AwaitsChunk, Idle, CallTypes
      <4> QED
        BY <3>1, <4>1 DEF Running
    <3> QED
      BY <3>1, <2>1, <1>t DEF CallTypes
  <2>3. DOMAIN calls' = Call /\ calls' = [c \in Call |-> calls'[c]]
    BY <1>4 DEF WriteSucceeds, WriteFails
  <2>4. results' \in [Call -> Results]
    BY <1>4, <1>t DEF WriteSucceeds, WriteFails, CallTypes, Results
  <2> QED
    BY <2>2, <2>3, <2>4 DEF CallTypes
<1>5. CASE UserStep \/ TimeGoesBy
  BY <1>5, <1>t DEF UserStep, Refer, DeleteSession, TimeGoesBy, CallTypes
<1>6. CASE Restart
  BY <1>6, <1>t DEF Restart, CallTypes, Results, NoResult
<1> QED
  BY <1>0, <1>1, <1>2, <1>3, <1>4, <1>5, <1>6 DEF UploadNext, WriteStep

\* A directory is made, given a manifest or a chunk, or removed.
LEMMA DirectoryTypes ==
  ASSUME NEW d \in Directories
  PROVE  /\ [d EXCEPT !.made = TRUE] \in Directories
         /\ \A m \in {"none", "active", "completed"} : [d EXCEPT !.manifest = m] \in Directories
         /\ \A k \in Chunk : [d EXCEPT !.data = d.data \cup {k}] \in Directories
         /\ NoDirectory \in Directories
BY DEF Directories, NoDirectory

\* What is stored keeps its types.
LEMMA StorageTypesKept == ASSUME UploadTypeOK, [UploadNext]_storeVars PROVE StorageTypes'
<1>t. CallTypes /\ StorageTypes
  BY TypesSplit
<1> USE <1>t DEF StorageTypes
<1>d. NoDirectory \in Directories
  BY DEF Directories, NoDirectory
<1>0. CASE UNCHANGED storeVars
  BY <1>0 DEF storeVars, memory, disk, ages
<1>1. ASSUME NEW c \in Call, CallBegins(c) PROVE StorageTypes'
  <2>1. ASSUME NEW u \in Upload, NEW k \in Chunk, AppendBegins(c, u, k) PROVE StorageTypes'
    <3>1. CASE chunks' = [chunks EXCEPT ![u][k] = "writing"]
      <4>1. chunks' \in [Upload -> [Chunk -> {"none", "writing", "written"}]]
        BY <3>1
      <4> QED
        BY <2>1, <4>1 DEF AppendBegins, Fails, memory, disk, ages
    <3>2. CASE UNCHANGED chunks
      BY <2>1, <3>2 DEF AppendBegins, Fails, memory, disk, ages
    <3> QED
      BY <2>1, <3>1, <3>2 DEF AppendBegins, Fails, memory
  <2> QED
    BY <1>1, <2>1 DEF CallBegins, CreateBegins, CompleteBegins, AbortBegins, memory, disk, ages
<1>2. ASSUME NEW c \in Call, CallStep(c) PROVE StorageTypes'
  <2> DEFINE v == calls[c].upload
  <2>t. v # Nothing /\ calls[c].method # "none" => v \in Upload
    BY DEF CallTypes, Running, Idle
  <2>1. ASSUME NEW u \in Upload, SweepBegins(c, u) PROVE StorageTypes'
    BY <2>1 DEF SweepBegins, disk, ages
  <2>2. CASE SweepEnds(c) \/ AbortRemoves(c)
    <3>1. dirs' \in [Upload -> Directories]
      BY <2>2, <1>d DEF SweepEnds, AbortRemoves
    <3> QED
      BY <2>2, <3>1 DEF SweepEnds, AbortRemoves, memory, ages
  <2>3. CASE CreateChecks(c)
    BY <2>3, <1>d DEF CreateChecks, ages
  <2>4. ASSUME NEW u \in Upload, CreateMakes(c, u) PROVE StorageTypes'
    <3>1. dirs' = [dirs EXCEPT ![u] = [dirs[u] EXCEPT !.made = TRUE]]
      BY <2>4 DEF CreateMakes
    <3>2. dirs' \in [Upload -> Directories]
      BY <3>1, DirectoryTypes
    <3> QED
      BY <2>4, <3>2 DEF CreateMakes, memory, ages
  <2>5. CASE CreateFinishes(c)
    <3>1. v \in Upload
      BY <2>5, <2>t DEF CreateFinishes, IsAt
    <3>2. dirs' = [dirs EXCEPT ![v] = [dirs[v] EXCEPT !.manifest = "active"]]
          \/ dirs' = [dirs EXCEPT ![v] = NoDirectory]
      BY <2>5 DEF CreateFinishes
    <3> HIDE DEF v
    <3>a. [dirs[v] EXCEPT !.manifest = "active"] \in Directories
      BY <3>1, DirectoryTypes
    <3>3. dirs' \in [Upload -> Directories]
      BY <3>1, <3>2, <1>d, <3>a
    <3>4. tracked' = tracked \cup {v} \/ tracked' = tracked
      BY <2>5 DEF CreateFinishes, v
    <3>5. UNCHANGED <<issued, chunks, received, cleaned, referenced, stale, aged, reclaimed>>
      BY <2>5 DEF CreateFinishes, ages
    <3> QED
      BY <3>1, <3>3, <3>4, <3>5
  <2>6. CASE CompleteReads(c)
    BY <2>6 DEF CompleteReads, memory, disk, ages
  <2>7. CASE CompleteFinishes(c)
    <3>1. \/ dirs' = [dirs EXCEPT ![v] = [dirs[v] EXCEPT !.manifest = "completed"]]
          \/ dirs' = dirs
      BY <2>7 DEF CompleteFinishes
    <3> HIDE DEF v
    <3>a. v \in Upload => [dirs[v] EXCEPT !.manifest = "completed"] \in Directories
      BY DirectoryTypes
    <3>b. v \notin Upload => dirs' = dirs
      BY <3>1
    <3>2. dirs' \in [Upload -> Directories]
      BY <3>1, <3>a, <3>b
    <3>3. tracked' \subseteq tracked /\ stale' \subseteq stale /\ aged' \subseteq aged
      BY <2>7 DEF CompleteFinishes, ages
    <3>4. UNCHANGED <<issued, chunks, received, cleaned, referenced, reclaimed>>
      BY <2>7 DEF CompleteFinishes
    <3> QED
      BY <3>2, <3>3, <3>4
  <2> QED
    BY <1>2, <2>1, <2>2, <2>3, <2>4, <2>5, <2>6, <2>7 DEF CallStep
<1>3. ASSUME NEW c \in Call, Forget(c) PROVE StorageTypes'
  BY <1>3 DEF Forget, memory, disk, ages
<1>4. ASSUME NEW u \in Upload, NEW k \in Chunk, WriteSucceeds(u, k) \/ WriteFails(u, k) PROVE StorageTypes'
  <2>1. CASE WriteSucceeds(u, k)
    <3>1. /\ chunks' = [chunks EXCEPT ![u][k] = "written"]
          /\ received' = [received EXCEPT ![u] = @ + 1]
          /\ dirs' = [dirs EXCEPT ![u] = [dirs[u] EXCEPT !.data = dirs[u].data \cup {k}]]
          /\ UNCHANGED <<issued, tracked, cleaned, referenced, stale, aged, reclaimed>>
      BY <2>1 DEF WriteSucceeds, ages
    <3>2. dirs' \in [Upload -> Directories]
      BY <3>1, DirectoryTypes
    <3>3. received' \in [Upload -> Nat]
      BY <3>1
    <3> QED
      BY <3>1, <3>2, <3>3
  <2>2. CASE WriteFails(u, k)
    <3>1. /\ chunks' = [chunks EXCEPT ![u][k] = "none"]
          /\ UNCHANGED <<issued, tracked, received, cleaned, dirs, referenced, stale, aged, reclaimed>>
      BY <2>2 DEF WriteFails, disk, ages
    <3> QED
      BY <3>1
  <2> QED
    BY <1>4, <2>1, <2>2
<1>5. CASE UserStep \/ TimeGoesBy
  BY <1>5 DEF UserStep, Refer, DeleteSession, TimeGoesBy, memory, disk, ages
<1>6. CASE Restart
  BY <1>6 DEF Restart, disk, ages, NoChunks
<1> QED
  BY <1>0, <1>1, <1>2, <1>3, <1>4, <1>5, <1>6 DEF UploadNext, WriteStep

\* The types hold in every state.
LEMMA UploadTypesKept == ASSUME UploadTypeOK, [UploadNext]_storeVars PROVE UploadTypeOK'
<1>1. CallTypes' /\ StorageTypes'
  BY CallTypesKept, StorageTypesKept
<1> QED
  BY <1>1 DEF UploadTypeOK, CallTypes, StorageTypes

\* An id in the hands of a create was drawn for it.
LEMMA FreshKept ==
  ASSUME UploadTypeOK, IdsAreFresh, [UploadNext]_storeVars
  PROVE  IdsAreFresh'
<1>t. calls \in [Call -> Running \cup {Idle}]
  BY DEF UploadTypeOK
<1>0. CASE UNCHANGED storeVars
  BY <1>0 DEF storeVars, memory, IdsAreFresh
<1>1. ASSUME NEW c \in Call, CallBegins(c) PROVE IdsAreFresh'
  <2>1. issued' = issued /\ tracked' \subseteq tracked
    BY <1>1 DEF CallBegins, CreateBegins, AppendBegins, CompleteBegins, AbortBegins, Fails, memory
  <2>2. \A d \in Call : calls'[d] = calls[d] \/ calls'[d].at # "making"
    BY <1>1, <1>t DEF CallBegins, CreateBegins, AppendBegins, CompleteBegins, AbortBegins, Fails, Ends, Waits, Idle
  <2>3. \A u \in Upload \ issued : chunks'[u] = chunks[u]
    BY <1>1 DEF CallBegins, CreateBegins, AppendBegins, CompleteBegins, AbortBegins, Fails, memory, UploadTypeOK
  <2> QED
    BY <2>1, <2>2, <2>3 DEF IdsAreFresh
<1>2. ASSUME NEW c \in Call, CallStep(c) PROVE IdsAreFresh'
  <2>1. ASSUME NEW u \in Upload, SweepBegins(c, u) PROVE IdsAreFresh'
    <3>1. \A d \in Call : calls'[d].at = calls[d].at
      BY <2>1, <1>t DEF SweepBegins, Running, Idle
    <3>2. \A d \in Call : calls'[d] = calls[d] \/ calls[d].at = "sweeping"
      BY <2>1, <1>t DEF SweepBegins, IsAt
    <3> QED
      BY <2>1, <3>1, <3>2 DEF SweepBegins, IdsAreFresh
  <2>2. CASE SweepEnds(c)
    <3>1. \A d \in Call : calls'[d] = calls[d] \/ calls'[d].at = "sweeping"
      BY <2>2, <1>t DEF SweepEnds, IsAt, Running, Idle
    <3>2. UNCHANGED <<issued, tracked, chunks>>
      BY <2>2 DEF SweepEnds, memory
    <3> QED
      BY <3>1, <3>2 DEF IdsAreFresh
  <2>3. CASE CreateChecks(c)
    <3>1. \A d \in Call : calls'[d] = calls[d] \/ calls'[d].at = "idle" \/ calls'[d].upload = Nothing
      BY <2>3, <1>t DEF CreateChecks, Ends, Waits, Idle
    <3> QED
      BY <2>3, <3>1 DEF CreateChecks, IdsAreFresh
  <2>4. ASSUME NEW u \in Upload, CreateMakes(c, u) PROVE IdsAreFresh'
    <3>1. \A d \in Call : calls'[d] = calls[d] \/ calls'[d].upload = u
      BY <2>4, <1>t DEF CreateMakes, IsAt, Running, Idle
    <3> QED
      BY <2>4, <3>1 DEF CreateMakes, IdsAreFresh, memory
  <2>5. CASE CreateFinishes(c)
    <3>1. tracked' \subseteq tracked \cup {calls[c].upload} /\ calls[c].upload \in issued
      BY <2>5 DEF CreateFinishes, IsAt, IdsAreFresh
    <3>2. \A d \in Call : calls'[d] = calls[d] \/ calls'[d] = Idle
      BY <2>5, <1>t DEF CreateFinishes, Ends
    <3> QED
      BY <2>5, <3>1, <3>2 DEF CreateFinishes, IdsAreFresh, Idle
  <2>6. CASE CompleteReads(c) \/ CompleteFinishes(c) \/ AbortRemoves(c)
    <3>1. tracked' \subseteq tracked /\ issued' = issued /\ chunks' = chunks
      BY <2>6 DEF CompleteReads, CompleteFinishes, AbortRemoves, memory
    <3>2. \A d \in Call : calls'[d] = calls[d] \/ calls'[d].at # "making"
      BY <2>6, <1>t DEF CompleteReads, CompleteFinishes, AbortRemoves, Ends, Waits, Idle
    <3> QED
      BY <3>1, <3>2 DEF IdsAreFresh
  <2> QED
    BY <1>2, <2>1, <2>2, <2>3, <2>4, <2>5, <2>6 DEF CallStep
<1>3. ASSUME NEW c \in Call, Forget(c) PROVE IdsAreFresh'
  BY <1>3 DEF Forget, memory, IdsAreFresh
<1>4. ASSUME NEW u \in Upload, NEW k \in Chunk, WriteSucceeds(u, k) \/ WriteFails(u, k) PROVE IdsAreFresh'
  <2>1. \A d \in Call : \/ calls'[d] = calls[d] \/ calls'[d] = Idle
                        \/ AwaitsChunk(d, u, k) /\ calls'[d] = [calls[d] EXCEPT !.left = @ \ {k}]
    BY <1>4 DEF WriteSucceeds, WriteFails
  <2>2. \A d \in Call : \/ calls'[d] = Idle
                        \/ calls'[d].at = calls[d].at /\ calls'[d].upload = calls[d].upload
    <3> SUFFICES ASSUME NEW d \in Call
                 PROVE  \/ calls'[d] = Idle
                        \/ calls'[d].at = calls[d].at /\ calls'[d].upload = calls[d].upload
      OBVIOUS
    <3>1. CASE calls'[d] = [calls[d] EXCEPT !.left = @ \ {k}]
      <4>1. CASE calls[d] \in Running
        BY <3>1, <4>1 DEF Running
      <4>2. CASE calls[d] = Idle
        BY <3>1, <4>2 DEF Idle
      <4> QED
        BY <4>1, <4>2, <1>t
    <3> QED
      BY <2>1, <3>1
  <2>3. u \in issued /\ \A v \in Upload : v # u => chunks'[v] = chunks[v]
    BY <1>4 DEF WriteSucceeds, WriteFails, IdsAreFresh, UploadTypeOK
  <2>4. issued' = issued /\ tracked' = tracked
    BY <1>4 DEF WriteSucceeds, WriteFails
  <2> QED
    BY <2>2, <2>3, <2>4 DEF IdsAreFresh, Idle
<1>5. CASE UserStep \/ TimeGoesBy
  BY <1>5 DEF UserStep, Refer, DeleteSession, TimeGoesBy, memory, IdsAreFresh
<1>6. CASE Restart
  BY <1>6 DEF Restart, IdsAreFresh, NoChunks, Idle
<1> QED
  BY <1>0, <1>1, <1>2, <1>3, <1>4, <1>5, <1>6 DEF UploadNext, WriteStep

\* A step writes a chunk, loses the memory of all, or leaves alone what was written.
LEMMA WritingSteps ==
  ASSUME UploadTypeOK, IdsAreFresh, [UploadNext]_storeVars
  PROVE  \/ \E u \in Upload, k \in Chunk : WriteSucceeds(u, k)
         \/ Restart
         \/ \A u \in Upload : Written(u)' = Written(u) /\ received'[u] = received[u]
<1>0. ASSUME UNCHANGED <<chunks, received>>
      PROVE \A u \in Upload : Written(u)' = Written(u) /\ received'[u] = received[u]
  BY <1>0 DEF Written
<1>1. ASSUME NEW u \in Upload, NEW k \in Chunk, NEW x \in {"none", "writing"},
             chunks' = [chunks EXCEPT ![u][k] = x], chunks[u][k] # "written", UNCHANGED received
      PROVE \A v \in Upload : Written(v)' = Written(v) /\ received'[v] = received[v]
  BY <1>1 DEF Written, UploadTypeOK
<1>2. ASSUME NEW c \in Call, CallBegins(c)
      PROVE  \A v \in Upload : Written(v)' = Written(v) /\ received'[v] = received[v]
  <2>1. ASSUME NEW u \in Upload, NEW k \in Chunk, AppendBegins(c, u, k)
        PROVE  \A v \in Upload : Written(v)' = Written(v) /\ received'[v] = received[v]
    <3>1. \/ UNCHANGED <<chunks, received>>
          \/ chunks' = [chunks EXCEPT ![u][k] = "writing"] /\ chunks[u][k] = "none" /\ UNCHANGED received
      BY <2>1 DEF AppendBegins, Fails, memory
    <3> QED
      BY <3>1, <1>0, <1>1
  <2>2. ASSUME CreateBegins(c) \/ \E u \in issued : CompleteBegins(c, u) \/ AbortBegins(c, u)
        PROVE  UNCHANGED <<chunks, received>>
    BY <2>2 DEF CreateBegins, CompleteBegins, AbortBegins, memory
  <2> QED
    BY <1>2, <1>0, <2>1, <2>2 DEF CallBegins, UploadTypeOK
<1>3. ASSUME \/ \E c \in Call : CallStep(c) \/ Forget(c)
             \/ UserStep \/ TimeGoesBy \/ UNCHANGED storeVars
      PROVE  UNCHANGED <<chunks, received>>
  BY <1>3 DEF CallStep, SweepBegins, SweepEnds, CreateChecks, CreateMakes, CreateFinishes, CompleteReads,
    CompleteFinishes, AbortRemoves, Forget, UserStep, Refer, DeleteSession, TimeGoesBy, storeVars, memory
<1>4. ASSUME NEW u \in Upload, NEW k \in Chunk, WriteFails(u, k)
      PROVE  \A v \in Upload : Written(v)' = Written(v) /\ received'[v] = received[v]
  <2>1. chunks' = [chunks EXCEPT ![u][k] = "none"] /\ chunks[u][k] = "writing" /\ UNCHANGED received
    BY <1>4 DEF WriteFails
  <2> QED
    BY <2>1, <1>1
<1> QED
  BY <1>0, <1>2, <1>3, <1>4 DEF UploadNext, WriteStep

\* `received` goes up by one with the chunk that is written.
LEMMA CountKept ==
  ASSUME UploadTypeOK, IdsAreFresh, CountsTheWritten, [UploadNext]_storeVars
  PROVE  CountsTheWritten'
<1>1. ASSUME NEW u \in Upload, NEW k \in Chunk, WriteSucceeds(u, k) PROVE CountsTheWritten'
  <2>1. k \notin Written(u) /\ Written(u)' = Written(u) \cup {k}
    BY <1>1 DEF WriteSucceeds, Written, UploadTypeOK
  <2>2. IsFiniteSet(Written(u))
    BY UploadAssumption, FS_Subset DEF Written
  <2>3. Cardinality(Written(u)') = Cardinality(Written(u)) + 1
    BY <2>1, <2>2, FS_AddElement
  <2>4. received'[u] = received[u] + 1
    BY <1>1 DEF WriteSucceeds, UploadTypeOK
  <2>5. \A v \in Upload \ {u} : Written(v)' = Written(v) /\ received'[v] = received[v]
    BY <1>1 DEF WriteSucceeds, Written, UploadTypeOK
  <2> QED
    BY <2>3, <2>4, <2>5 DEF CountsTheWritten
<1>2. CASE Restart
  <2>1. \A u \in Upload : Written(u)' = {} /\ received'[u] = 0
    BY <1>2 DEF Restart, Written, NoChunks
  <2> QED
    BY <2>1, FS_EmptySet DEF CountsTheWritten
<1>3. CASE \A u \in Upload : Written(u)' = Written(u) /\ received'[u] = received[u]
  BY <1>3 DEF CountsTheWritten
<1> QED
  BY <1>1, <1>2, <1>3, WritingSteps

\* A directory that is there was there before, with what it held, or was just made.
LEMMA DirectorySteps ==
  ASSUME UploadTypeOK, IdsAreFresh, [UploadNext]_storeVars, NEW v \in Upload, dirs'[v].made
  PROVE  \/ dirs[v].made /\ dirs[v].data \subseteq dirs'[v].data
         \/ v \notin issued
<1>t. dirs \in [Upload -> Directories] /\ dirs' \in [Upload -> Directories]
  BY UploadTypesKept DEF UploadTypeOK
<1>1. ASSUME dirs' = dirs PROVE dirs[v].made /\ dirs[v].data \subseteq dirs'[v].data
  BY <1>1
<1>2. ASSUME NEW u, dirs' = [dirs EXCEPT ![u] = NoDirectory]
      PROVE  dirs[v].made /\ dirs[v].data \subseteq dirs'[v].data
  BY <1>2, <1>t DEF NoDirectory
<1>3. ASSUME NEW u, NEW x, dirs' = [dirs EXCEPT ![u] = [dirs[u] EXCEPT !.manifest = x]]
      PROVE  dirs[v].made /\ dirs[v].data \subseteq dirs'[v].data
  BY <1>3, <1>t DEF Directories
<1>4. ASSUME NEW c \in Call, CallBegins(c) \/ Forget(c) PROVE dirs' = dirs
  BY <1>4 DEF CallBegins, CreateBegins, AppendBegins, CompleteBegins, AbortBegins, Fails, Forget, disk
<1>5. ASSUME NEW c \in Call, CallStep(c)
      PROVE  (dirs[v].made /\ dirs[v].data \subseteq dirs'[v].data) \/ v \notin issued
  <2>1. ASSUME NEW u \in Upload, CreateMakes(c, u)
        PROVE  (dirs[v].made /\ dirs[v].data \subseteq dirs'[v].data) \/ v \notin issued
    BY <2>1, <1>t DEF CreateMakes
  <2>2. ASSUME \/ \E u \in Upload : SweepBegins(c, u)
               \/ CompleteReads(c)
        PROVE  dirs' = dirs
    BY <2>2 DEF SweepBegins, CompleteReads, disk
  <2>3. ASSUME SweepEnds(c) \/ AbortRemoves(c) PROVE dirs' = [dirs EXCEPT ![calls[c].upload] = NoDirectory]
    BY <2>3 DEF SweepEnds, AbortRemoves
  <2>4. ASSUME CreateFinishes(c) \/ CompleteFinishes(c)
        PROVE  \/ dirs' = dirs \/ dirs' = [dirs EXCEPT ![calls[c].upload] = NoDirectory]
               \/ dirs' = [dirs EXCEPT ![calls[c].upload] = [dirs[calls[c].upload] EXCEPT !.manifest = "active"]]
               \/ dirs' = [dirs EXCEPT ![calls[c].upload] = [dirs[calls[c].upload] EXCEPT !.manifest = "completed"]]
    BY <2>4 DEF CreateFinishes, CompleteFinishes
  <2>5. CASE CreateChecks(c)
    BY <2>5, <1>t DEF CreateChecks, NoDirectory
  <2> QED
    BY <1>5, <1>1, <1>2, <1>3, <2>1, <2>2, <2>3, <2>4, <2>5 DEF CallStep
<1>6. ASSUME NEW u \in Upload, NEW k \in Chunk, WriteSucceeds(u, k) \/ WriteFails(u, k)
      PROVE  dirs[v].made /\ dirs[v].data \subseteq dirs'[v].data
  <2>1. dirs' = dirs \/ dirs' = [dirs EXCEPT ![u] = [dirs[u] EXCEPT !.data = dirs[u].data \cup {k}]]
    BY <1>6 DEF WriteSucceeds, WriteFails, disk
  <2> QED
    BY <2>1, <1>t DEF Directories
<1>7. ASSUME UserStep \/ TimeGoesBy \/ Restart \/ UNCHANGED storeVars PROVE dirs' = dirs
  BY <1>7 DEF UserStep, Refer, DeleteSession, TimeGoesBy, Restart, storeVars, disk
<1> QED
  BY <1>1, <1>4, <1>5, <1>6, <1>7 DEF UploadNext, WriteStep

\* A chunk counts once it is in the file; a new directory has none that count.
LEMMA StoredKept ==
  ASSUME UploadTypeOK, IdsAreFresh, WrittenIsStored, [UploadNext]_storeVars
  PROVE  WrittenIsStored'
<1> SUFFICES ASSUME NEW v \in Upload, dirs'[v].made PROVE Written(v)' \subseteq dirs'[v].data
  BY DEF WrittenIsStored
<1>0. Written(v) \subseteq dirs'[v].data
  <2>1. CASE dirs[v].made /\ dirs[v].data \subseteq dirs'[v].data
    BY <2>1 DEF WrittenIsStored
  <2>2. CASE v \notin issued
    BY <2>2 DEF IdsAreFresh, Written
  <2> QED
    BY <2>1, <2>2, DirectorySteps
<1>1. ASSUME NEW u \in Upload, NEW k \in Chunk, WriteSucceeds(u, k) PROVE Written(v)' \subseteq dirs'[v].data
  <2>1. Written(v)' = IF v = u THEN Written(u) \cup {k} ELSE Written(v)
    BY <1>1 DEF WriteSucceeds, Written, UploadTypeOK
  <2>2. v = u => k \in dirs'[v].data
    BY <1>1 DEF WriteSucceeds, UploadTypeOK, Directories
  <2> QED
    BY <1>0, <2>1, <2>2
<1>2. CASE Restart
  BY <1>2 DEF Restart, Written, NoChunks
<1>3. CASE Written(v)' = Written(v)
  BY <1>0, <1>3
<1> QED
  BY <1>1, <1>2, <1>3, WritingSteps

\* A complete reads the file when `received` says that all of it has come.
LEMMA ReadingKept ==
  ASSUME UploadTypeOK, IdsAreFresh, CountsTheWritten, CompletesAnUpload, ReadsTheWhole, [UploadNext]_storeVars
  PROVE  ReadsTheWhole'
<1>t. calls \in [Call -> Running \cup {Idle}]
  BY DEF UploadTypeOK
<1>a. ASSUME NEW d \in Call
      PROVE  \/ calls'[d].at # "reading"
             \/ calls[d].at = "reading" /\ calls'[d].upload = calls[d].upload
             \/ CompleteReads(d) /\ received[calls[d].upload] = Cardinality(Chunk)
                /\ calls'[d].upload = calls[d].upload /\ calls[d].upload \in Upload
  <2>0. CASE UNCHANGED storeVars
    BY <2>0 DEF storeVars
  <2>1. ASSUME NEW c \in Call, CallBegins(c) PROVE calls'[d] = calls[d] \/ calls'[d].at # "reading"
    BY <2>1, <1>t DEF CallBegins, CreateBegins, AppendBegins, CompleteBegins, AbortBegins, Fails, Ends, Waits, Idle
  <2>2. ASSUME NEW c \in Call, CallStep(c), ~CompleteReads(c)
        PROVE  calls'[d] = calls[d] \/ calls'[d].at # "reading"
    <3>1. ASSUME \/ \E u \in Upload : SweepBegins(c, u) \/ CreateMakes(c, u)
                 \/ SweepEnds(c)
          PROVE  calls'[d] = calls[d] \/ calls'[d].at # "reading"
      <4>0. IsAt(c, "create", "sweeping") \/ IsAt(c, "create", "making")
        BY <3>1 DEF SweepBegins, SweepEnds, CreateMakes
      <4>1. calls[c] \in Running /\ calls[c].at \in {"sweeping", "making"}
        BY <4>0, <1>t DEF IsAt, Idle
      <4>2. \A e \in Call \ {c} : calls'[e] = calls[e]
        BY <3>1, <1>t DEF SweepBegins, SweepEnds, CreateMakes
      <4>3. calls'[c].at = calls[c].at
        <5>1. ASSUME NEW u \in Upload, SweepBegins(c, u) PROVE calls'[c].at = calls[c].at
          BY <4>1, <5>1, <1>t DEF SweepBegins, Running
        <5>2. ASSUME NEW u \in Upload, CreateMakes(c, u) PROVE calls'[c].at = calls[c].at
          BY <4>1, <5>2, <1>t DEF CreateMakes, Running
        <5>3. CASE SweepEnds(c)
          BY <4>1, <5>3, <1>t DEF SweepEnds, Running
        <5> QED
          BY <3>1, <5>1, <5>2, <5>3
      <4> QED
        BY <4>1, <4>2, <4>3
    <3>2. ASSUME CreateChecks(c) \/ CreateFinishes(c) \/ CompleteFinishes(c) \/ AbortRemoves(c)
          PROVE  calls'[d] = calls[d] \/ calls'[d].at # "reading"
      BY <3>2, <1>t DEF CreateChecks, CreateFinishes, CompleteFinishes, AbortRemoves, Ends, Waits, Idle
    <3> QED
      BY <2>2, <3>1, <3>2 DEF CallStep
  <2>3. ASSUME NEW c \in Call, CompleteReads(c)
        PROVE  \/ calls'[d] = calls[d] \/ calls'[d].at # "reading"
               \/ CompleteReads(d) /\ received[calls[d].upload] = Cardinality(Chunk)
                  /\ calls'[d].upload = calls[d].upload /\ calls[d].upload \in Upload
    <3>1. calls[c].upload \in Upload
      BY <2>3 DEF CompleteReads, IsAt, CompletesAnUpload
    <3> QED
      BY <2>3, <3>1, <1>t DEF CompleteReads, Ends, Waits, Idle
  <2>4. ASSUME NEW c \in Call, Forget(c) PROVE calls'[d] = calls[d]
    BY <2>4 DEF Forget
  <2>5. ASSUME NEW u \in Upload, NEW k \in Chunk, WriteSucceeds(u, k) \/ WriteFails(u, k)
        PROVE  \/ calls'[d].at # "reading"
               \/ calls[d].at = "reading" /\ calls'[d].upload = calls[d].upload
    <3>1. \/ calls'[d] = calls[d] \/ calls'[d] = Idle
          \/ AwaitsChunk(d, u, k) /\ calls'[d] = [calls[d] EXCEPT !.left = @ \ {k}]
      BY <2>5 DEF WriteSucceeds, WriteFails
    <3> QED
      BY <3>1, <1>t DEF Running, Idle
  <2>6. CASE UserStep \/ TimeGoesBy
    BY <2>6 DEF UserStep, Refer, DeleteSession, TimeGoesBy
  <2>7. CASE Restart
    BY <2>7 DEF Restart, Idle
  <2> QED
    BY <2>0, <2>1, <2>2, <2>3, <2>4, <2>5, <2>6, <2>7 DEF UploadNext, WriteStep
<1>b. ASSUME ~Restart, NEW u \in Upload PROVE Written(u) \subseteq Written(u)'
  <2>1. ASSUME NEW w \in Upload, NEW k \in Chunk, WriteSucceeds(w, k) PROVE Written(u) \subseteq Written(u)'
    BY <2>1 DEF WriteSucceeds, Written, UploadTypeOK
  <2> QED
    BY <1>b, <2>1, WritingSteps
<1>c. ASSUME NEW d \in Call, calls'[d].at = "reading"
      PROVE  \E u \in Upload : calls'[d].upload = u /\ Written(u)' = Chunk
  <2>1. ~Restart
    BY <1>c DEF Restart, Idle
  <2>2. PICK u \in Upload : calls'[d].upload = u /\ Written(u) = Chunk
    <3>1. CASE CompleteReads(d) /\ received[calls[d].upload] = Cardinality(Chunk) /\ calls[d].upload \in Upload
               /\ calls'[d].upload = calls[d].upload
      <4>1. Cardinality(Written(calls[d].upload)) = Cardinality(Chunk)
        BY <3>1 DEF CountsTheWritten
      <4>2. Written(calls[d].upload) \subseteq Chunk
        BY DEF Written
      <4>3. Written(calls[d].upload) = Chunk
        BY <4>1, <4>2, UploadAssumption, FS_Subset
      <4> QED
        BY <3>1, <4>3
    <3>2. CASE calls[d].at = "reading" /\ calls'[d].upload = calls[d].upload
      BY <3>2 DEF ReadsTheWhole
    <3> QED
      BY <1>a, <1>c, <3>1, <3>2
  <2>3. Written(u) \subseteq Written(u)'
    BY <1>b, <2>1
  <2>4. Written(u)' \subseteq Chunk
    BY DEF Written
  <2>5. Written(u)' = Chunk
    BY <2>2, <2>3, <2>4
  <2> QED
    BY <2>2, <2>5
<1> QED
  BY <1>c DEF ReadsTheWhole

\* Only a complete has the place "reading", and it keeps its upload.
LEMMA CompletesKept ==
  ASSUME UploadTypeOK, CompletesAnUpload, [UploadNext]_storeVars
  PROVE  CompletesAnUpload'
<1>t. calls \in [Call -> Running \cup {Idle}] /\ issued \subseteq Upload
  BY DEF UploadTypeOK
<1> SUFFICES ASSUME NEW d \in Call, calls'[d].method = "complete", calls'[d] # calls[d]
             PROVE  calls'[d].upload \in Upload
  BY DEF CompletesAnUpload
<1>1. ASSUME NEW c \in Call, CallBegins(c) PROVE calls'[d].upload \in Upload
  <2>1. ASSUME NEW u \in issued, CompleteBegins(c, u) PROVE calls'[d].upload \in Upload
    BY <2>1, <1>t DEF CompleteBegins, Ends, Waits, Idle
  <2>2. ASSUME \/ CreateBegins(c)
               \/ \E u \in issued : AbortBegins(c, u) \/ \E k \in Chunk : AppendBegins(c, u, k)
        PROVE  FALSE
    BY <2>2, <1>t DEF CreateBegins, AbortBegins, AppendBegins, Fails, Ends, Waits, Idle
  <2> QED
    BY <1>1, <2>1, <2>2 DEF CallBegins
<1>2. ASSUME NEW c \in Call, CallStep(c) PROVE calls'[d].upload \in Upload
  <2>1. ASSUME CreateChecks(c) \/ CreateFinishes(c) \/ CompleteFinishes(c) \/ AbortRemoves(c) PROVE FALSE
    BY <2>1, <1>t DEF CreateChecks, CreateFinishes, CompleteFinishes, AbortRemoves, Ends, Waits, Idle
  <2>2. CASE CompleteReads(c)
    BY <2>2, <1>t DEF CompleteReads, Ends, Waits, Idle, CompletesAnUpload, IsAt
  <2>3. ASSUME \/ \E u \in Upload : SweepBegins(c, u) \/ CreateMakes(c, u)
               \/ SweepEnds(c)
        PROVE  FALSE
    <3>0. IsAt(c, "create", "sweeping") \/ IsAt(c, "create", "making")
      BY <2>3 DEF SweepBegins, SweepEnds, CreateMakes
    <3>1. calls[c] \in Running /\ calls[c].method = "create"
      BY <3>0, <1>t DEF IsAt, Idle
    <3>2. \A e \in Call \ {c} : calls'[e] = calls[e]
      BY <2>3, <1>t DEF SweepBegins, SweepEnds, CreateMakes
    <3>3. calls'[c].method = calls[c].method
      <4>1. ASSUME NEW u \in Upload, SweepBegins(c, u) PROVE calls'[c].method = calls[c].method
        BY <3>1, <4>1, <1>t DEF SweepBegins, Running
      <4>2. ASSUME NEW u \in Upload, CreateMakes(c, u) PROVE calls'[c].method = calls[c].method
        BY <3>1, <4>2, <1>t DEF CreateMakes, Running
      <4>3. CASE SweepEnds(c)
        BY <3>1, <4>3, <1>t DEF SweepEnds, Running
      <4> QED
        BY <2>3, <4>1, <4>2, <4>3
    <3> QED
      BY <3>1, <3>2, <3>3
  <2> QED
    BY <1>2, <2>1, <2>2, <2>3 DEF CallStep
<1>3. ASSUME NEW u \in Upload, NEW k \in Chunk, WriteSucceeds(u, k) \/ WriteFails(u, k)
      PROVE  calls'[d].upload \in Upload
  <2>1. calls'[d] = Idle \/ (AwaitsChunk(d, u, k) /\ calls'[d] = [calls[d] EXCEPT !.left = @ \ {k}])
    BY <1>3 DEF WriteSucceeds, WriteFails
  <2>2. AwaitsChunk(d, u, k) /\ calls'[d] = [calls[d] EXCEPT !.left = @ \ {k}]
    BY <2>1 DEF Idle
  <2>3. calls[d] \in Running
    BY <2>2, <1>t DEF AwaitsChunk, Idle
  <2> QED
    BY <2>2, <2>3 DEF Running, CompletesAnUpload, AwaitsChunk
<1>4. ASSUME \/ \E c \in Call : Forget(c)
             \/ UserStep \/ TimeGoesBy \/ Restart \/ UNCHANGED storeVars
      PROVE  FALSE
  BY <1>4 DEF Forget, UserStep, Refer, DeleteSession, TimeGoesBy, Restart, Idle, storeVars
<1> QED
  BY <1>1, <1>2, <1>3, <1>4 DEF UploadNext, WriteStep

\* The manifest of a file becomes completed when the file is read, and its directory stays whole.
LEMMA WholeKept ==
  ASSUME UploadInv, [UploadNext]_storeVars
  PROVE  CompletedIsWhole'
<1>t. /\ dirs \in [Upload -> Directories] /\ dirs' \in [Upload -> Directories]
      /\ calls \in [Call -> Running \cup {Idle}]
  BY UploadTypesKept DEF UploadInv, UploadTypeOK
<1> SUFFICES ASSUME NEW v \in Upload, dirs'[v].manifest = "completed" PROVE dirs'[v].data = Chunk
  BY DEF CompletedIsWhole
<1>1. ASSUME dirs'[v].manifest = dirs[v].manifest, dirs[v].data \subseteq dirs'[v].data
      PROVE  dirs'[v].data = Chunk
  <2>1. dirs[v].data = Chunk
    BY <1>1 DEF UploadInv, CompletedIsWhole
  <2>2. dirs'[v].data \subseteq Chunk
    BY <1>t DEF Directories
  <2> QED
    BY <1>1, <2>1, <2>2
<1>2. ASSUME NEW c \in Call, CallBegins(c) \/ Forget(c) PROVE dirs' = dirs
  BY <1>2 DEF CallBegins, CreateBegins, AppendBegins, CompleteBegins, AbortBegins, Fails, Forget, disk
<1>3. ASSUME NEW c \in Call, CallStep(c) PROVE dirs'[v].data = Chunk
  <2>1. CASE \E u \in Upload : CreateMakes(c, u)
    BY <2>1, <1>1, <1>t DEF CreateMakes, Directories
  <2>2. CASE (\E u \in Upload : SweepBegins(c, u)) \/ CompleteReads(c)
    BY <2>2, <1>1 DEF SweepBegins, CompleteReads, disk
  <2>3. CASE SweepEnds(c) \/ AbortRemoves(c)
    <3>1. dirs' = [dirs EXCEPT ![calls[c].upload] = NoDirectory]
      BY <2>3 DEF SweepEnds, AbortRemoves
    <3> QED
      BY <3>1, <1>1, <1>t DEF NoDirectory
  <2>4. CASE CreateFinishes(c)
    <3>1. \/ dirs' = [dirs EXCEPT ![calls[c].upload] = NoDirectory]
          \/ dirs' = [dirs EXCEPT ![calls[c].upload] = [dirs[calls[c].upload] EXCEPT !.manifest = "active"]]
      BY <2>4 DEF CreateFinishes
    <3> QED
      BY <3>1, <1>1, <1>t DEF NoDirectory, Directories
  <2>5. CASE CompleteFinishes(c)
    <3> DEFINE u == calls[c].upload
    <3>1. u \in Upload /\ Written(u) = Chunk
      BY <2>5 DEF CompleteFinishes, IsAt, UploadInv, ReadsTheWhole
    <3>2. \/ dirs' = dirs
          \/ dirs[u].made /\ dirs' = [dirs EXCEPT ![u] = [dirs[u] EXCEPT !.manifest = "completed"]]
      BY <2>5 DEF CompleteFinishes
    <3> HIDE DEF u
    <3>3. dirs[u].made => dirs[u].data = Chunk
      BY <3>1, <1>t DEF UploadInv, WrittenIsStored, Directories
    <3> QED
      BY <3>1, <3>2, <3>3, <1>1, <1>t DEF Directories
  <2>6. CASE CreateChecks(c)
    BY <2>6, <1>1, <1>t DEF CreateChecks, NoDirectory
  <2> QED
    BY <1>3, <2>1, <2>2, <2>3, <2>4, <2>5, <2>6 DEF CallStep
<1>4. ASSUME NEW u \in Upload, NEW k \in Chunk, WriteSucceeds(u, k) \/ WriteFails(u, k)
      PROVE  dirs'[v].data = Chunk
  <2>1. dirs' = dirs \/ dirs' = [dirs EXCEPT ![u] = [dirs[u] EXCEPT !.data = dirs[u].data \cup {k}]]
    BY <1>4 DEF WriteSucceeds, WriteFails, disk
  <2>2. dirs'[v].manifest = dirs[v].manifest /\ dirs[v].data \subseteq dirs'[v].data
    BY <2>1, <1>t DEF Directories
  <2> QED
    BY <2>2, <1>1
<1>5. ASSUME UserStep \/ TimeGoesBy \/ Restart \/ UNCHANGED storeVars PROVE dirs' = dirs
  BY <1>5 DEF UserStep, Refer, DeleteSession, TimeGoesBy, Restart, storeVars, disk
<1> QED
  BY <1>1, <1>2, <1>3, <1>4, <1>5 DEF UploadNext, WriteStep

\* Whatever calls run at once and whatever the disk refuses, a file that is called
\* completed has all of its chunks (completeFileUpload trusts `received`).
THEOREM UploadsAreWhole == UploadSpec => []CompletedIsWhole
<1>1. UploadInit => UploadInv
  BY UploadInitial
<1>2. UploadInv /\ [UploadNext]_storeVars => UploadInv'
  BY UploadTypesKept, FreshKept, CountKept, StoredKept, CompletesKept, ReadingKept, WholeKept DEF UploadInv
<1>3. UploadInv => CompletedIsWhole
  BY DEF UploadInv
<1> QED
  BY <1>1, <1>2, <1>3, PTL DEF UploadSpec

-------------------------------------------------------------------------------
(* The protocol *)

USE UploadAssumption, ApiAssumption

-------------------------------------------------------------------------------
(* Sequences *)

\* The requests of an attempt in the order in which they are made.
LEMMA SetToSeqInjective ==
  ASSUME NEW S, IsFiniteSet(S)
  PROVE  SetToSeq(S) \in Seq(S) /\ IsInjective(SetToSeq(S)) /\ Range(SetToSeq(S)) = S
<1> DEFINE n == Cardinality(S)
           s == SetToSeq(S)
<1>1. n \in Nat /\ ExistsBijection(1 .. n, S)
  BY FS_CardinalityType
<1>2. PICK f \in [1 .. n -> S] : IsInjective(f)
  BY <1>1 DEF ExistsBijection, Bijection, Injection
<1>3. s \in [1 .. n -> S] /\ IsInjective(s)
  BY <1>2 DEF SetToSeq
<1>4. s \in Surjection(1 .. n, S)
  <2>1. s \in Injection(1 .. n, S)
    BY <1>3 DEF Injection
  <2>2. IsFiniteSet(1 .. n) /\ Cardinality(1 .. n) = n
    BY <1>1, FS_Interval
  <2> QED BY <2>1, <2>2, FS_Injection
<1>5. Range(s) = S
  BY <1>3, <1>4 DEF Range, Surjection
<1>6. s \in Seq(S)
  BY <1>1, <1>3, SeqDef
<1> QED BY <1>3, <1>5, <1>6

\* Requests that are made after others.
LEMMA ConcatInjective ==
  ASSUME NEW S, NEW s \in Seq(S), NEW t \in Seq(S)
  PROVE  /\ s \o t \in Seq(S) /\ Range(s \o t) = Range(s) \cup Range(t)
         /\ IsInjective(s) /\ IsInjective(t) /\ Range(s) \cap Range(t) = {} => IsInjective(s \o t)
<1>1. /\ s \o t \in Seq(S) /\ Len(s \o t) = Len(s) + Len(t)
      /\ \A i \in 1 .. Len(s) + Len(t) :
           (s \o t)[i] = IF i <= Len(s) THEN s[i] ELSE t[i - Len(s)]
  BY ConcatProperties
<1>2. /\ DOMAIN s = 1 .. Len(s) /\ DOMAIN t = 1 .. Len(t)
      /\ DOMAIN (s \o t) = 1 .. (Len(s) + Len(t))
      /\ Len(s) \in Nat /\ Len(t) \in Nat
  BY <1>1, LenProperties
<1>3. ASSUME IsInjective(s), IsInjective(t), Range(s) \cap Range(t) = {},
             NEW i \in 1 .. (Len(s) + Len(t)), NEW j \in 1 .. (Len(s) + Len(t)), (s \o t)[i] = (s \o t)[j]
      PROVE  i = j
  <2>1. ASSUME NEW k \in 1 .. Len(s), NEW l \in 1 .. Len(t) PROVE s[k] # t[l]
    <3>1. s[k] \in Range(s) /\ t[l] \in Range(t)
      BY <1>2, <2>1 DEF Range
    <3> QED BY <3>1, <1>3
  <2>2. CASE i <= Len(s) /\ j <= Len(s)
    BY <1>1, <1>2, <1>3, <2>2 DEF IsInjective
  <2>3. CASE ~(i <= Len(s)) /\ ~(j <= Len(s))
    <3>1. i - Len(s) \in 1 .. Len(t) /\ j - Len(s) \in 1 .. Len(t)
      BY <1>2, <2>3
    <3>2. i - Len(s) = j - Len(s)
      BY <3>1, <2>3, <1>1, <1>2, <1>3 DEF IsInjective
    <3> QED BY <1>2, <3>2
  <2>4. CASE i <= Len(s) /\ ~(j <= Len(s))
    <3>1. i \in 1 .. Len(s) /\ j - Len(s) \in 1 .. Len(t)
      BY <2>4, <1>2
    <3> QED BY <3>1, <2>1, <2>4, <1>1, <1>2, <1>3
  <2>5. CASE ~(i <= Len(s)) /\ j <= Len(s)
    <3>1. j \in 1 .. Len(s) /\ i - Len(s) \in 1 .. Len(t)
      BY <2>5, <1>2
    <3> QED BY <3>1, <2>1, <2>5, <1>1, <1>2, <1>3
  <2> QED BY <1>2, <2>2, <2>3, <2>4, <2>5
<1> QED BY <1>1, <1>2, <1>3, RangeConcatenation DEF IsInjective

\* A sequence without one of its elements.
LEMMA CutOut ==
  ASSUME NEW S, NEW q \in Seq(S), IsInjective(q), NEW i \in 1 .. Len(q)
  PROVE  /\ RemoveAt(q, i) \in Seq(S) /\ IsInjective(RemoveAt(q, i))
         /\ Range(RemoveAt(q, i)) = Range(q) \ {q[i]}
<1>1. Len(q) \in Nat /\ DOMAIN q = 1 .. Len(q) /\ \A j \in 1 .. Len(q) : q[j] \in S
  BY LenProperties, ElementOfSeq
<1>2. PICK s : s = SubSeq(q, 1, i - 1)
  OBVIOUS
<1>3. PICK t : t = SubSeq(q, i + 1, Len(q))
  OBVIOUS
<1>4. s \in Seq(S) /\ Len(s) = i - 1 /\ \A j \in 1 .. i - 1 : s[j] = q[j]
  BY <1>1, <1>2, SubSeqProperties
<1>5. t \in Seq(S) /\ Len(t) = Len(q) - i /\ \A j \in 1 .. Len(q) - i : t[j] = q[i + j]
  <2>1. \A j \in i + 1 .. Len(q) : q[j] \in S
    BY <1>1
  <2>2. /\ t \in Seq(S) /\ Len(t) = (IF i + 1 <= Len(q) THEN Len(q) - (i + 1) + 1 ELSE 0)
        /\ \A j \in 1 .. Len(q) - (i + 1) + 1 : t[j] = q[(i + 1) + j - 1]
    BY <1>1, <1>3, <2>1, SubSeqProperties
  <2>3. Len(q) - (i + 1) + 1 = Len(q) - i /\ \A j \in 1 .. Len(q) - i : (i + 1) + j - 1 = i + j
    BY <1>1
  <2>4. Len(t) = Len(q) - i
    <3>1. i \in Nat /\ Len(q) \in Nat /\ i <= Len(q)
      BY <1>1
    <3>2. CASE i < Len(q)
      <4>1. i + 1 <= Len(q)
        BY <3>1, <3>2
      <4>2. Len(t) = Len(q) - (i + 1) + 1
        BY <2>2, <4>1
      <4> QED BY <2>3, <4>2
    <3>3. CASE i = Len(q)
      <4>1. ~(i + 1 <= Len(q)) /\ Len(q) - i = 0
        BY <3>1, <3>3
      <4> QED BY <2>2, <4>1
    <3> QED BY <3>1, <3>2, <3>3
  <2>5. ASSUME NEW j \in 1 .. Len(q) - i PROVE t[j] = q[i + j]
    <3>1. t[j] = q[(i + 1) + j - 1]
      BY <2>2, <2>3
    <3> QED BY <3>1, <2>3
  <2> QED BY <2>2, <2>4, <2>5
<1>6. DOMAIN s = 1 .. i - 1 /\ DOMAIN t = 1 .. Len(q) - i
  BY <1>4, <1>5, LenProperties
<1>7. \A j, k \in 1 .. Len(q) : q[j] = q[k] => j = k
  BY <1>1 DEF IsInjective
<1>8. IsInjective(s)
  BY <1>1, <1>4, <1>6, <1>7 DEF IsInjective
<1>9. IsInjective(t)
  <2> SUFFICES ASSUME NEW j \in 1 .. Len(q) - i, NEW k \in 1 .. Len(q) - i, t[j] = t[k] PROVE j = k
    BY <1>6 DEF IsInjective
  <2>1. i + j \in 1 .. Len(q) /\ i + k \in 1 .. Len(q) /\ q[i + j] = q[i + k]
    BY <1>1, <1>5
  <2>2. i + j = i + k
    BY <1>7, <2>1
  <2> QED BY <2>2
<1>10. \A j \in 1 .. i - 1 : s[j] \in Range(q) /\ s[j] # q[i]
  BY <1>1, <1>4, <1>7 DEF Range
<1>11. \A j \in 1 .. Len(q) - i : t[j] \in Range(q) /\ t[j] # q[i]
  <2> TAKE j \in 1 .. Len(q) - i
  <2>1. i + j \in 1 .. Len(q) /\ i + j # i /\ t[j] = q[i + j]
    BY <1>1, <1>5
  <2> QED BY <2>1, <1>1, <1>7 DEF Range
<1>12. Range(s) \cap Range(t) = {}
  <2> SUFFICES ASSUME NEW j \in 1 .. i - 1, NEW k \in 1 .. Len(q) - i, s[j] = t[k] PROVE FALSE
    BY <1>6 DEF Range
  <2>1. i + k \in 1 .. Len(q) /\ j \in 1 .. Len(q) /\ q[j] = q[i + k] /\ j # i + k
    BY <1>1, <1>4, <1>5
  <2> QED BY <2>1, <1>7
<1>13. Range(q) \ {q[i]} \subseteq Range(s) \cup Range(t)
  <2> SUFFICES ASSUME NEW j \in 1 .. Len(q), q[j] # q[i] PROVE q[j] \in Range(s) \cup Range(t)
    BY <1>1 DEF Range
  <2>1. CASE j < i
    <3>1. j \in 1 .. i - 1 /\ s[j] = q[j]
      BY <2>1, <1>4
    <3> QED BY <3>1, <1>6 DEF Range
  <2>2. CASE j > i
    <3>1. j - i \in 1 .. Len(q) - i /\ i + (j - i) = j
      BY <2>2, <1>1
    <3>2. t[j - i] = q[j]
      BY <3>1, <1>5
    <3> QED BY <3>1, <3>2, <1>6 DEF Range
  <2> QED BY <1>1, <2>1, <2>2
<1>14. Range(s) \cup Range(t) = Range(q) \ {q[i]}
  <2>1. Range(s) \subseteq Range(q) \ {q[i]}
    BY <1>6, <1>10 DEF Range
  <2>2. Range(t) \subseteq Range(q) \ {q[i]}
    BY <1>6, <1>11 DEF Range
  <2> QED BY <2>1, <2>2, <1>13
<1>15. RemoveAt(q, i) = s \o t
  BY <1>2, <1>3 DEF RemoveAt
<1> QED BY <1>4, <1>5, <1>8, <1>9, <1>12, <1>14, <1>15, ConcatInjective

\* The requests that are left when one of them is answered.
LEMMA RestOfPending ==
  ASSUME pending \in Seq(Call), IsInjective(pending), NEW c \in Range(pending)
  PROVE  Without(c) \in Seq(Call) /\ IsInjective(Without(c)) /\ Range(Without(c)) = Range(pending) \ {c}
<1>1. PICK i : i = CHOOSE j \in DOMAIN pending : pending[j] = c
  OBVIOUS
<1>2. \E j \in DOMAIN pending : pending[j] = c
  BY DEF Range
<1>3. i \in DOMAIN pending /\ pending[i] = c
  BY <1>1, <1>2
<1>4. DOMAIN pending = 1 .. Len(pending)
  BY LenProperties
<1> QED BY <1>1, <1>3, <1>4, CutOut DEF Without

-------------------------------------------------------------------------------
(* What the store knows of uploads *)

CallKnows(x, ids) ==
  /\ x.upload \in ids \cup {Nothing} /\ x.expired \subseteq ids
  /\ x.method \in {"append", "complete", "abort"} => x.upload # Nothing

ResultKnows(r, ids) == r = NoResult \/ r.status = "error" \/ (r.status = "ok" /\ r.upload \in ids)

\* Calls and results name no upload that was not given out.
IssuedOnly == \A c \in Call : CallKnows(calls[c], issued) /\ ResultKnows(results[c], issued)

StoreInv == UploadInv /\ IssuedOnly

\* An id stays given out.
LEMMA IssuedGrow == ASSUME [UploadNext]_storeVars PROVE issued \subseteq issued'
<1>1. ASSUME NEW c \in Call, CallBegins(c) \/ CallStep(c) \/ Forget(c) PROVE issued \subseteq issued'
  BY <1>1 DEF CallBegins, CreateBegins, AppendBegins, Fails, CompleteBegins, AbortBegins, CallStep, SweepBegins,
     CreateMakes, SweepEnds, CreateChecks, CreateFinishes, CompleteReads, CompleteFinishes, AbortRemoves, Forget
<1>2. ASSUME WriteStep \/ UserStep \/ TimeGoesBy \/ Restart \/ UNCHANGED storeVars PROVE issued \subseteq issued'
  BY <1>2 DEF WriteStep, WriteSucceeds, WriteFails, UserStep, Refer, DeleteSession, TimeGoesBy, Restart, storeVars
<1> QED BY <1>1, <1>2 DEF UploadNext

\* What is known of a call that did not change.
LEMMA KnowsMore ==
  ASSUME IssuedOnly, issued \subseteq issued', NEW d \in Call
  PROVE  CallKnows(calls[d], issued') /\ ResultKnows(results[d], issued')
BY DEF IssuedOnly, CallKnows, ResultKnows

\* A call that waits or ends.
LEMMA WaitsKnows ==
  ASSUME CallTypes, IssuedOnly, issued \subseteq issued', NEW c \in Call,
         NEW method \in {"create", "append", "complete", "abort"}, NEW u \in issued \cup {Nothing}, NEW k, NEW at,
         NEW left, method = "create" \/ u # Nothing, Waits(c, method, u, k, at, left)
  PROVE  IssuedOnly'
<1> SUFFICES ASSUME NEW d \in Call PROVE CallKnows(calls'[d], issued') /\ ResultKnows(results'[d], issued')
  BY DEF IssuedOnly
<1>1. results' = results /\ calls' = [calls EXCEPT ![c] =
        [method |-> method, upload |-> u, chunk |-> k, at |-> at, expired |-> {}, left |-> left]]
  BY DEF Waits
<1>2. d # c => calls'[d] = calls[d]
  BY <1>1 DEF CallTypes
<1>3. d = c => CallKnows(calls'[d], issued')
  BY <1>1 DEF CallTypes, CallKnows
<1> QED BY <1>1, <1>2, <1>3, KnowsMore

LEMMA EndsKnows ==
  ASSUME CallTypes, IssuedOnly, issued \subseteq issued', NEW c \in Call, NEW u,
         Ends(c, "error", u) \/ (Ends(c, "ok", u) /\ u \in issued')
  PROVE  IssuedOnly'
<1> SUFFICES ASSUME NEW d \in Call PROVE CallKnows(calls'[d], issued') /\ ResultKnows(results'[d], issued')
  BY DEF IssuedOnly
<1>1. PICK s \in {"ok", "error"} :
        /\ calls' = [calls EXCEPT ![c] = Idle]
        /\ results' = [results EXCEPT ![c] = [status |-> s, upload |-> u]]
        /\ s = "ok" => u \in issued'
  BY DEF Ends
<1>2. d # c => calls'[d] = calls[d] /\ results'[d] = results[d]
  BY <1>1 DEF CallTypes
<1>3. d = c => calls'[d] = Idle /\ results'[d] = [status |-> s, upload |-> u]
  BY <1>1 DEF CallTypes
<1>4. CallKnows(Idle, issued')
  BY DEF CallKnows, Idle
<1>5. ResultKnows([status |-> s, upload |-> u], issued')
  BY <1>1 DEF ResultKnows
<1> QED BY <1>2, <1>3, <1>4, <1>5, KnowsMore

\* A call that goes on with other fields.
LEMMA ProceedsKnows ==
  ASSUME CallTypes, IssuedOnly, issued \subseteq issued', NEW c \in Call, NEW x, CallKnows(x, issued'),
         calls' = [calls EXCEPT ![c] = x], UNCHANGED results
  PROVE  IssuedOnly'
<1> SUFFICES ASSUME NEW d \in Call PROVE CallKnows(calls'[d], issued') /\ ResultKnows(results'[d], issued')
  BY DEF IssuedOnly
<1>1. calls'[d] = (IF d = c THEN x ELSE calls[d]) /\ results'[d] = results[d]
  BY DEF CallTypes
<1> QED BY <1>1, KnowsMore

\* Nothing is known of an upload before it is created.
LEMMA IssuedOnlyKept == ASSUME StoreInv, [UploadNext]_storeVars PROVE IssuedOnly'
<1>t. CallTypes /\ StorageTypes /\ IssuedOnly /\ issued \subseteq issued' /\ issued \subseteq Upload
  BY TypesSplit, IssuedGrow DEF StoreInv, UploadInv, UploadTypeOK
<1>k. /\ \A c \in Call : CallKnows(calls[c], issued)
      /\ tracked \subseteq issued
      /\ Nothing \notin issued
  BY <1>t DEF StoreInv, UploadInv, IdsAreFresh, IssuedOnly
<1>0. CASE UNCHANGED storeVars
  BY <1>0, <1>t DEF storeVars, IssuedOnly
<1>1. ASSUME NEW c \in Call, CallBegins(c) PROVE IssuedOnly'
  <2>1. CASE CreateBegins(c)
    <3> DEFINE x == [method |-> "create", upload |-> Nothing, chunk |-> Nothing, at |-> "sweeping",
                     expired |-> tracked \cap stale, left |-> {}]
    <3>1. CallKnows(x, issued')
      BY <1>k, <1>t DEF CallKnows
    <3>2. calls' = [calls EXCEPT ![c] = x] /\ UNCHANGED results
      BY <2>1 DEF CreateBegins
    <3> HIDE DEF x
    <3> QED BY <3>1, <3>2, <1>t, ProceedsKnows
  <2>2. ASSUME NEW u \in issued,
               (\E k \in Chunk : AppendBegins(c, u, k)) \/ CompleteBegins(c, u) \/ AbortBegins(c, u)
        PROVE  IssuedOnly'
    <3>1. \/ Ends(c, "error", Nothing) \/ Ends(c, "ok", u)
          \/ \E method \in {"append", "complete", "abort"} : \E k, at, left : Waits(c, method, u, k, at, left)
      BY <2>2 DEF AppendBegins, Fails, CompleteBegins, AbortBegins
    <3> QED BY <3>1, <1>t, <1>k, EndsKnows, WaitsKnows
  <2> QED BY <1>1, <2>1, <2>2 DEF CallBegins
<1>2. ASSUME NEW c \in Call, CallStep(c) PROVE IssuedOnly'
  <2> DEFINE v == calls[c].upload
  <2>t. calls[c] \in Running \/ calls[c] = Idle
    BY <1>t DEF CallTypes
  <2>k. v \in issued \cup {Nothing} /\ calls[c].expired \subseteq issued
        /\ (calls[c].method \in {"append", "complete", "abort"} => v # Nothing)
    BY <1>k DEF CallKnows
  <2>1. ASSUME NEW u \in Upload, SweepBegins(c, u) PROVE IssuedOnly'
    <3>1. calls[c] \in Running
      BY <2>1, <2>t DEF SweepBegins, IsAt, Idle
    <3>2. CASE calls' = [calls EXCEPT ![c].expired = @ \ {u}]
      <4> DEFINE x == [calls[c] EXCEPT !.expired = @ \ {u}]
      <4>1. CallKnows(x, issued')
        BY <3>1, <2>k, <1>t DEF Running, CallKnows
      <4>2. calls' = [calls EXCEPT ![c] = x] /\ UNCHANGED results
        BY <3>2, <2>1, <1>t DEF SweepBegins, CallTypes
      <4> HIDE DEF x
      <4> QED BY <4>1, <4>2, <1>t, ProceedsKnows
    <3>3. CASE calls' = [calls EXCEPT ![c].upload = u, ![c].left = IF u \in tracked THEN Writing(u) ELSE {}]
      <4> DEFINE x == [calls[c] EXCEPT !.upload = u, !.left = IF u \in tracked THEN Writing(u) ELSE {}]
      <4>0. u \in issued
        BY <2>1, <2>k DEF SweepBegins
      <4>1. CallKnows(x, issued')
        BY <3>1, <2>k, <1>t, <1>k, <4>0 DEF Running, CallKnows
      <4>2. calls' = [calls EXCEPT ![c] = x] /\ UNCHANGED results
        BY <3>3, <2>1, <1>t DEF SweepBegins, CallTypes
      <4> HIDE DEF x
      <4> QED BY <4>1, <4>2, <1>t, ProceedsKnows
    <3> QED BY <2>1, <3>2, <3>3 DEF SweepBegins
  <2>2. CASE SweepEnds(c)
    <3> DEFINE x == [calls[c] EXCEPT !.upload = Nothing, !.expired = @ \ {v}]
    <3>0. calls[c] \in Running /\ calls[c].method = "create"
      BY <2>2, <2>t DEF SweepEnds, IsAt, Idle
    <3>1. CallKnows(x, issued')
      BY <3>0, <2>k, <1>t DEF Running, CallKnows
    <3>2. calls' = [calls EXCEPT ![c] = x] /\ UNCHANGED results
      BY <2>2, <1>t DEF SweepEnds, CallTypes
    <3> HIDE DEF x
    <3> QED BY <3>1, <3>2, <1>t, ProceedsKnows
  <2>3. CASE CreateChecks(c)
    <3>1. Ends(c, "error", Nothing) \/ Waits(c, "create", Nothing, Nothing, "making", {})
      BY <2>3 DEF CreateChecks
    <3> QED BY <3>1, <1>t, EndsKnows, WaitsKnows
  <2>4. ASSUME NEW u \in Upload, CreateMakes(c, u) PROVE IssuedOnly'
    <3> DEFINE x == [calls[c] EXCEPT !.upload = u]
    <3>0. calls[c] \in Running /\ calls[c].method = "create"
      BY <2>4, <2>t DEF CreateMakes, IsAt, Idle
    <3>1. CallKnows(x, issued')
      BY <3>0, <2>4, <2>k, <1>t DEF Running, CallKnows, CreateMakes
    <3>2. calls' = [calls EXCEPT ![c] = x] /\ UNCHANGED results
      BY <2>4, <1>t DEF CreateMakes, CallTypes
    <3> HIDE DEF x
    <3> QED BY <3>1, <3>2, <1>t, ProceedsKnows
  <2>5. CASE CreateFinishes(c) \/ CompleteReads(c) \/ CompleteFinishes(c) \/ AbortRemoves(c)
    <3>1. v \in issued /\ v # Nothing
      BY <2>5, <2>k, <1>k DEF CreateFinishes, CompleteReads, CompleteFinishes, AbortRemoves, IsAt
    <3>2. \/ Ends(c, "error", Nothing) \/ Ends(c, "ok", v)
          \/ Waits(c, "complete", v, Nothing, "reading", {})
      BY <2>5 DEF CreateFinishes, CompleteReads, CompleteFinishes, AbortRemoves
    <3> HIDE DEF v
    <3> QED BY <3>1, <3>2, <1>t, EndsKnows, WaitsKnows
  <2> QED BY <1>2, <2>1, <2>2, <2>3, <2>4, <2>5 DEF CallStep
<1>3. ASSUME NEW c \in Call, Forget(c) PROVE IssuedOnly'
  BY <1>3, <1>t DEF Forget, IssuedOnly, ResultKnows, CallKnows, CallTypes
<1>4. ASSUME NEW u \in Upload, NEW k \in Chunk, WriteSucceeds(u, k) \/ WriteFails(u, k) PROVE IssuedOnly'
  <2> SUFFICES ASSUME NEW d \in Call PROVE CallKnows(calls'[d], issued') /\ ResultKnows(results'[d], issued')
    BY DEF IssuedOnly
  <2>1. \/ calls'[d] = Idle \/ calls'[d] = calls[d]
        \/ AwaitsChunk(d, u, k) /\ calls'[d] = [calls[d] EXCEPT !.left = @ \ {k}]
    BY <1>4 DEF WriteSucceeds, WriteFails
  <2>2. \/ results'[d] = results[d]
        \/ results'[d] = [status |-> "error", upload |-> Nothing]
        \/ calls[d].upload = u /\ results'[d] = [status |-> "ok", upload |-> u]
    BY <1>4 DEF WriteSucceeds, WriteFails, OnChunk
  <2>3. CallKnows(Idle, issued')
    BY DEF CallKnows, Idle
  <2>4. ASSUME AwaitsChunk(d, u, k), calls'[d] = [calls[d] EXCEPT !.left = @ \ {k}] PROVE CallKnows(calls'[d], issued')
    <3>1. calls[d] \in Running
      BY <2>4, <1>t DEF AwaitsChunk, Idle, CallTypes
    <3> QED BY <3>1, <2>4, <1>t, KnowsMore DEF Running, CallKnows
  <2>5. calls[d].upload = u => u \in issued
    BY <1>k DEF CallKnows
  <2> QED BY <2>1, <2>2, <2>3, <2>4, <2>5, <1>t, KnowsMore DEF ResultKnows
<1>5. CASE UserStep \/ TimeGoesBy
  BY <1>5, <1>t DEF UserStep, Refer, DeleteSession, TimeGoesBy, IssuedOnly
<1>6. CASE Restart
  BY <1>6, <1>t DEF Restart, IssuedOnly, CallKnows, ResultKnows, Idle
<1> QED BY <1>0, <1>1, <1>2, <1>3, <1>4, <1>5, <1>6 DEF UploadNext, WriteStep

\* The store keeps its invariant.
LEMMA StoreKept == ASSUME StoreInv, [UploadNext]_storeVars PROVE StoreInv'
BY IssuedOnlyKept, UploadTypesKept, FreshKept, CountKept, StoredKept, CompletesKept, ReadingKept, WholeKept
   DEF StoreInv, UploadInv

\* A call that is under way stays so, or leaves a result.
LEMMA ActiveStays ==
  ASSUME UploadTypeOK, IssuedOnly, \/ \E c \in Call : CallStep(c)
                                   \/ WriteStep \/ TimeGoesBy \/ UserStep,
         NEW d \in Call, ~IsIdle(d)
  PROVE  ~IsIdle(d)'
<1>t. calls \in [Call -> Running \cup {Idle}] /\ results \in [Call -> Results]
  BY DEF UploadTypeOK
<1>1. ASSUME NEW c \in Call, CallStep(c) PROVE ~IsIdle(d)'
  <2>1. ASSUME NEW u \in Upload, SweepBegins(c, u) \/ CreateMakes(c, u) PROVE ~IsIdle(d)'
    <3>1. calls[c] \in Running
      BY <2>1, <1>t DEF SweepBegins, CreateMakes, IsAt, Idle
    <3>2. calls'[d].method = calls[d].method /\ results' = results
      BY <2>1, <3>1, <1>t DEF SweepBegins, CreateMakes, Running
    <3>3. results[d] = NoResult => calls[d].method # "none"
      BY <1>t DEF IsIdle, Running
    <3> QED BY <3>2, <3>3 DEF IsIdle, Idle
  <2>s. CASE SweepEnds(c)
    <3>1. calls[c] \in Running
      BY <2>s, <1>t DEF SweepEnds, IsAt, Idle
    <3>2. calls'[d].method = calls[d].method /\ results' = results
      BY <2>s, <3>1, <1>t DEF SweepEnds, Running
    <3>3. results[d] = NoResult => calls[d].method # "none"
      BY <1>t DEF IsIdle, Running
    <3> QED BY <3>2, <3>3 DEF IsIdle, Idle
  <2>2. ASSUME CreateChecks(c) \/ CreateFinishes(c) \/ CompleteReads(c) \/ CompleteFinishes(c) \/ AbortRemoves(c)
        PROVE  ~IsIdle(d)'
    <3>1. \/ \E s \in {"ok", "error"} : \E u : Ends(c, s, u)
          \/ \E m \in {"create", "complete"} : \E u, k, at, left : Waits(c, m, u, k, at, left)
      BY <2>2 DEF CreateChecks, CreateFinishes, CompleteReads, CompleteFinishes, AbortRemoves
    <3>2. ASSUME NEW s \in {"ok", "error"}, NEW u, Ends(c, s, u) PROVE ~IsIdle(d)'
      BY <3>2, <1>t DEF Ends, IsIdle, NoResult
    <3>3. ASSUME NEW m \in {"create", "complete"}, NEW u, NEW k, NEW at, NEW left, Waits(c, m, u, k, at, left)
          PROVE  ~IsIdle(d)'
      BY <3>3, <1>t DEF Waits, IsIdle, Idle
    <3> QED BY <3>1, <3>2, <3>3
  <2> QED BY <1>1, <2>1, <2>s, <2>2 DEF CallStep
<1>2. ASSUME NEW u \in Upload, NEW k \in Chunk, WriteSucceeds(u, k) \/ WriteFails(u, k) PROVE ~IsIdle(d)'
  <2>1. \/ results'[d].status \in {"ok", "error"}
        \/ /\ results'[d] = results[d]
           /\ \/ calls'[d] = calls[d]
              \/ AwaitsChunk(d, u, k) /\ calls'[d] = [calls[d] EXCEPT !.left = @ \ {k}]
    <3>1. CASE WriteSucceeds(u, k)
      BY <3>1 DEF WriteSucceeds
    <3>2. CASE WriteFails(u, k)
      BY <3>2 DEF WriteFails
    <3> QED BY <1>2, <3>1, <3>2
  <2>2. ASSUME AwaitsChunk(d, u, k), calls'[d] = [calls[d] EXCEPT !.left = @ \ {k}] PROVE calls'[d] # Idle
    <3>1. calls[d] \in Running
      BY <2>2, <1>t DEF AwaitsChunk, Idle
    <3> QED BY <3>1, <2>2 DEF Running, Idle
  <2> QED BY <2>1, <2>2 DEF IsIdle, NoResult
<1>3. CASE TimeGoesBy \/ UserStep
  BY <1>3 DEF TimeGoesBy, UserStep, Refer, DeleteSession, IsIdle
<1> QED BY <1>1, <1>2, <1>3 DEF WriteStep

\* A call that begins is under way, or has its result, and no other call changes.
LEMMA BeginsOne ==
  ASSUME UploadTypeOK, NEW c \in Call, CallBegins(c)
  PROVE  ~IsIdle(c)' /\ \A d \in Call \ {c} : calls'[d] = calls[d] /\ results'[d] = results[d]
<1>t. calls \in [Call -> Running \cup {Idle}] /\ results \in [Call -> Results]
  BY DEF UploadTypeOK
<1>1. CASE CreateBegins(c)
  BY <1>1, <1>t DEF CreateBegins, IsIdle, Idle
<1>2. ASSUME NEW u \in issued, (\E k \in Chunk : AppendBegins(c, u, k)) \/ CompleteBegins(c, u) \/ AbortBegins(c, u)
      PROVE  ~IsIdle(c)' /\ \A d \in Call \ {c} : calls'[d] = calls[d] /\ results'[d] = results[d]
  <2>1. \/ Ends(c, "error", Nothing) \/ Ends(c, "ok", u)
        \/ \E method \in {"append", "complete", "abort"} : \E k, at, left : Waits(c, method, u, k, at, left)
    BY <1>2 DEF AppendBegins, Fails, CompleteBegins, AbortBegins
  <2>2. CASE Ends(c, "error", Nothing) \/ Ends(c, "ok", u)
    BY <2>2, <1>t DEF Ends, IsIdle, NoResult
  <2>3. ASSUME NEW m \in {"append", "complete", "abort"}, NEW k, NEW at, NEW left, Waits(c, m, u, k, at, left)
        PROVE  ~IsIdle(c)' /\ \A d \in Call \ {c} : calls'[d] = calls[d] /\ results'[d] = results[d]
    BY <2>3, <1>t DEF Waits, IsIdle, Idle
  <2> QED BY <2>1, <2>2, <2>3
<1> QED BY <1>1, <1>2 DEF CallBegins

-------------------------------------------------------------------------------
(* What an attempt waits for *)

\* The requests that an attempt can wait for at a stage: its appends may outlive it.
Fits(c, s) ==
  /\ Kind[c] = "create" => s = "creating"
  /\ Kind[c] = "append" => s \notin {"idle", "creating"}
  /\ Kind[c] = "complete" => s = "completing"
  /\ Kind[c] = "abort" => s = "aborting"

PendingFits == \A c \in Range(pending) : Fits(c, stage[Owner[c]])

\* Every request after the create, every upload that is complete and every good answer names an
\* upload that was created.
NamesIssued ==
  /\ \A c \in Range(pending) \cup Range(toServer) : Kind[c] # "create" => uploadId[Owner[c]] \in issued
  /\ \A a \in Attempt : stage[a] = "uploaded" => uploadId[a] \in issued
  /\ \A x \in Range(toClient) \cup Range(completed) : x.status = "ok" => x.upload \in issued

\* A request that is neither under way nor cached was forgotten as often as it was executed.
Counted ==
  \A c \in Call : /\ executed[c] <= 1 + forgotten[c]
                  /\ IsIdle(c) /\ Cached(c) = {} => executed[c] <= forgotten[c]

ApiInv ==
  /\ StoreInv
  /\ TypeOK
  /\ PendingFits
  /\ NamesIssued
  /\ Counted

\* An attempt moves to a stage and makes the requests `new`; `rest` are those that wait already.
Moves(a, next, new, rest) ==
  /\ stage' = [stage EXCEPT ![a] = next]
  /\ pending' \in Seq(Call) /\ IsInjective(pending') /\ Range(pending') = rest \cup new
  /\ toServer' \in Seq(Call) /\ Range(toServer') = Range(toServer) \cup new

\* What waits fits the next stage.
Fitting(a, next, new, rest) ==
  /\ next \in Stages
  /\ \A d \in new : d \in Call /\ Owner[d] = a /\ Fits(d, next)
  /\ \A d \in rest : Owner[d] = a => Fits(d, next)

BrowserTypes ==
  /\ stage \in [Attempt -> Stages]
  /\ uploadId \in [Attempt -> Upload \cup {Nothing}]
  /\ pending \in Seq(Call) /\ IsInjective(pending)
  /\ toServer \in Seq(Call)

LEMMA RequestedMoves ==
  ASSUME BrowserTypes, NEW a \in Attempt, NEW next \in Stages, NEW kind, NEW rest \in Seq(Call), IsInjective(rest),
         Requests(a, kind) \cap Range(rest) = {}, Requested(a, next, kind, rest)
  PROVE  Moves(a, next, Requests(a, kind), Range(rest))
<1> DEFINE R == Requests(a, kind)
<1>1. IsFiniteSet(R) /\ R \subseteq Call
  <2>1. IsFiniteSet({c \in Call : Owner[c] = a}) /\ R \in SUBSET {c \in Call : Owner[c] = a}
    BY DEF Requests
  <2> QED BY <2>1, FS_Subset
<1>2. PICK cs : cs = SetToSeq(R)
  OBVIOUS
<1>3. cs \in Seq(R) /\ IsInjective(cs) /\ Range(cs) = R
  BY <1>1, <1>2, SetToSeqInjective
<1>4. cs \in Seq(Call)
  BY <1>1, <1>3, SeqMonotonic
<1>5. stage' = [stage EXCEPT ![a] = next] /\ pending' = rest \o cs /\ toServer' = toServer \o cs
  BY <1>2 DEF Requested
<1>6. rest \o cs \in Seq(Call) /\ Range(rest \o cs) = Range(rest) \cup R /\ IsInjective(rest \o cs)
  BY <1>3, <1>4, ConcatInjective
<1>7. toServer \o cs \in Seq(Call) /\ Range(toServer \o cs) = Range(toServer) \cup R
  BY <1>3, <1>4, ConcatInjective DEF BrowserTypes
<1> QED BY <1>5, <1>6, <1>7 DEF Moves

LEMMA StaysMoves ==
  ASSUME BrowserTypes, NEW a \in Attempt, NEW next \in Stages, NEW rest \in Seq(Call), IsInjective(rest),
         stage' = [stage EXCEPT ![a] = next], pending' = rest, UNCHANGED toServer
  PROVE  Moves(a, next, {}, Range(rest))
BY DEF Moves, BrowserTypes

\* The requests of an attempt fit the stage at which they are made.
LEMMA RequestsFit ==
  ASSUME NEW a \in Attempt, NEW d \in Call
  PROVE  /\ d \in Requests(a, "create") => Owner[d] = a /\ Fits(d, "creating")
         /\ d \in Requests(a, "append") => Owner[d] = a /\ Fits(d, "sending")
         /\ d \in Requests(a, "complete") => Owner[d] = a /\ Fits(d, "completing")
         /\ d \in Requests(a, "abort") => Owner[d] = a /\ Fits(d, "aborting")
BY DEF Requests, Fits

\* The attempt fails, or is aborted; only its appends may still be pending.
OnlyAppends(a, rest) == \A d \in Range(rest) : Owner[d] = a => Kind[d] = "append"

LEMMA DroppedFits ==
  ASSUME BrowserTypes, NEW a \in Attempt, NEW rest \in Seq(Call), IsInjective(rest), OnlyAppends(a, rest),
         Dropped(a, rest)
  PROVE  Moves(a, "failed", {}, Range(rest)) /\ Fitting(a, "failed", {}, Range(rest))
<1>1. Moves(a, "failed", {}, Range(rest))
  BY StaysMoves DEF Dropped, Stages
<1> QED BY <1>1 DEF Fitting, Fits, OnlyAppends, Stages

LEMMA AbortsFits ==
  ASSUME BrowserTypes, NEW a \in Attempt, NEW rest \in Seq(Call), IsInjective(rest), OnlyAppends(a, rest),
         Aborts(a, rest)
  PROVE  \E next \in {"aborting", "failed"}, new \in SUBSET Requests(a, "abort") :
           Moves(a, next, new, Range(rest)) /\ Fitting(a, next, new, Range(rest))
<1>1. CASE connected
  <2>1. Requests(a, "abort") \cap Range(rest) = {}
    BY DEF OnlyAppends, Requests
  <2>2. Moves(a, "aborting", Requests(a, "abort"), Range(rest))
    BY <1>1, <2>1, RequestedMoves DEF Aborts, Stages
  <2>3. Fitting(a, "aborting", Requests(a, "abort"), Range(rest))
    BY RequestsFit DEF Fitting, Fits, OnlyAppends, Stages, Requests
  <2> QED BY <2>2, <2>3
<1>2. CASE ~connected
  BY <1>2, DroppedFits DEF Aborts
<1> QED BY <1>1, <1>2

LEMMA CompletesFits ==
  ASSUME BrowserTypes, NEW a \in Attempt, NEW rest \in Seq(Call), IsInjective(rest), OnlyAppends(a, rest),
         Completes(a, rest)
  PROVE  \E next \in {"completing", "failed"}, new \in SUBSET Requests(a, "complete") :
           Moves(a, next, new, Range(rest)) /\ Fitting(a, next, new, Range(rest))
<1>1. CASE connected
  <2>1. Requests(a, "complete") \cap Range(rest) = {}
    BY DEF OnlyAppends, Requests
  <2>2. Moves(a, "completing", Requests(a, "complete"), Range(rest))
    BY <1>1, <2>1, RequestedMoves DEF Completes, Stages
  <2>3. Fitting(a, "completing", Requests(a, "complete"), Range(rest))
    BY RequestsFit DEF Fitting, Fits, OnlyAppends, Stages, Requests
  <2> QED BY <2>2, <2>3
<1>2. CASE ~connected
  BY <1>2, DroppedFits DEF Completes
<1> QED BY <1>1, <1>2

\* The upload exists: its chunks are sent, or it has none.
Sent(a, rest, next, new) ==
  /\ next # "uploaded" /\ new \subseteq Requests(a, "append") \cup Requests(a, "complete")
  /\ Moves(a, next, new, Range(rest)) /\ Fitting(a, next, new, Range(rest))

LEMMA SendsFits ==
  ASSUME BrowserTypes, NEW a \in Attempt, NEW rest \in Seq(Call), IsInjective(rest),
         \A d \in Range(rest) : Owner[d] # a, Sends(a, rest)
  PROVE  \E next, new : Sent(a, rest, next, new)
<1>0. OnlyAppends(a, rest)
  BY DEF OnlyAppends
<1>1. CASE connected /\ Chunk # {}
  <2>1. Requests(a, "append") \cap Range(rest) = {}
    BY DEF Requests
  <2>2. Moves(a, "sending", Requests(a, "append"), Range(rest))
    BY <1>1, <2>1, RequestedMoves DEF Sends, Stages
  <2>3. Fitting(a, "sending", Requests(a, "append"), Range(rest))
    BY RequestsFit DEF Fitting, Stages, Requests
  <2>4. Sent(a, rest, "sending", Requests(a, "append"))
    BY <2>2, <2>3 DEF Sent
  <2> QED BY <2>4
<1>2. CASE connected /\ Chunk = {}
  <2>1. PICK next \in {"completing", "failed"}, new \in SUBSET Requests(a, "complete") :
           Moves(a, next, new, Range(rest)) /\ Fitting(a, next, new, Range(rest))
    BY <1>0, <1>2, CompletesFits DEF Sends
  <2>2. Sent(a, rest, next, new)
    BY <2>1 DEF Sent
  <2> QED BY <2>2
<1>3. CASE ~connected
  <2>1. Sent(a, rest, "failed", {})
    BY <1>0, <1>3, DroppedFits DEF Sends, Sent
  <2> QED BY <2>1
<1> QED BY <1>1, <1>2, <1>3

\* What an answer leads to: the attempt moves, and makes requests only for an upload that exists.
Outcome(c, status, next, new) ==
  /\ Moves(Owner[c], next, new, Range(pending) \ {c})
  /\ Fitting(Owner[c], next, new, Range(pending) \ {c})
  /\ Kind[c] = "create" /\ status # "ok" => new = {}
  /\ \A d \in new : d \in Call /\ Kind[d] # "create"
  /\ next = "uploaded" => stage[Owner[c]] = "uploaded" \/ (Kind[c] = "complete" /\ status = "ok")

LEMMA ContinuesMoves ==
  ASSUME BrowserTypes, PendingFits, NEW c \in Range(pending), NEW status, NEW u, Continues(c, status, u, Without(c))
  PROVE  \E next, new : Outcome(c, status, next, new)
<1> DEFINE a == Owner[c]
<1>1. PICK rest : rest = Without(c)
  OBVIOUS
<1>2. rest \in Seq(Call) /\ IsInjective(rest) /\ Range(rest) = Range(pending) \ {c}
  BY <1>1, RestOfPending DEF BrowserTypes
<1>3. c \in Call /\ a \in Attempt /\ stage[a] \in Stages /\ Range(pending) \subseteq Call
  BY RangeOfSeq DEF BrowserTypes
<1>4. \A d \in Range(pending) : d \in Call /\ Fits(d, stage[Owner[d]])
  BY <1>3 DEF PendingFits
<1>5. \A d \in Range(rest) : d \in Call /\ Owner[d] = a => Fits(d, stage[a])
  BY <1>2, <1>4
<1>6. Kind[c] \in {"create", "append", "complete", "abort"} /\ Fits(c, stage[a])
  BY <1>3, <1>4
<1>c. Continues(c, status, u, rest)
  BY <1>1
<1>n. \A d \in Requests(a, "append") \cup Requests(a, "complete") \cup Requests(a, "abort") : d \in Call /\ Kind[d] # "create"
  BY DEF Requests
<1>u. \A d \in Range(rest) : Owner[d] = a /\ Kind[d] = Kind[c] => Kind[c] = "append"
  <2> SUFFICES ASSUME NEW d \in Range(rest), Owner[d] = a, Kind[d] = Kind[c], Kind[c] # "append" PROVE FALSE
    OBVIOUS
  <2>1. d \in Call /\ d # c
    BY <1>2, <1>3
  <2> QED BY <2>1, <1>3
<1>k. \A d \in Range(rest) : d \in Call /\ Kind[d] \in {"create", "append", "complete", "abort"}
  BY <1>2, <1>3
<1> HIDE DEF a
<1> USE <1>2, <1>3
<1>o. ASSUME NEW next, NEW new, Moves(a, next, new, Range(rest)), Fitting(a, next, new, Range(rest)),
             new \subseteq Requests(a, "append") \cup Requests(a, "complete") \cup Requests(a, "abort"),
             Kind[c] = "create" /\ status # "ok" => new = {},
             next = "uploaded" => stage[a] = "uploaded" \/ (Kind[c] = "complete" /\ status = "ok")
      PROVE  \E n, w : Outcome(c, status, n, w)
  <2>1. Outcome(c, status, next, new)
    BY <1>o, <1>n DEF Outcome, a
  <2> QED BY <2>1
<1>7. CASE Kind[c] = "create"
  <2>1. \A d \in Range(rest) : Owner[d] # a
    BY <1>5, <1>6, <1>7, <1>u, <1>k DEF Fits
  <2>2. CASE status = "ok"
    <3>1. Sends(a, rest)
      BY <1>c, <1>7, <2>2 DEF Continues, a
    <3>2. PICK next, new : Sent(a, rest, next, new)
      BY <2>1, <3>1, SendsFits
    <3> QED BY <3>2, <2>2, <1>o DEF Sent
  <2>3. CASE status # "ok"
    <3>1. Dropped(a, rest)
      BY <1>c, <1>7, <2>3 DEF Continues, a
    <3>2. Moves(a, "failed", {}, Range(rest)) /\ Fitting(a, "failed", {}, Range(rest))
      BY <2>1, <3>1, DroppedFits DEF OnlyAppends
    <3> QED BY <3>2, <1>o
  <2> QED BY <2>2, <2>3
<1>i. ASSUME stage' = stage, pending' = rest, UNCHANGED toServer
      PROVE  Moves(a, stage[a], {}, Range(rest)) /\ Fitting(a, stage[a], {}, Range(rest))
  <2>1. stage' = [stage EXCEPT ![a] = stage[a]]
    BY <1>i DEF BrowserTypes
  <2>2. Moves(a, stage[a], {}, Range(rest))
    BY <2>1, <1>i, StaysMoves
  <2> QED BY <2>2, <1>5, <1>k DEF Fitting
<1>8. CASE Kind[c] = "append"
  <2>1. CASE stage[a] # "sending"
    <3>1. stage' = stage /\ pending' = rest /\ UNCHANGED toServer
      BY <1>c, <1>8, <2>1 DEF Continues, a
    <3>2. Moves(a, stage[a], {}, Range(rest)) /\ Fitting(a, stage[a], {}, Range(rest))
      BY <3>1, <1>i
    <3> QED BY <3>2, <1>8, <1>o
  <2>2. CASE stage[a] = "sending"
    <3>0. OnlyAppends(a, rest)
      BY <2>2, <1>5, <1>k DEF OnlyAppends, Fits
    <3>1. CASE Aborts(a, rest)
      <4>1. PICK next \in {"aborting", "failed"}, new \in SUBSET Requests(a, "abort") :
               Moves(a, next, new, Range(rest)) /\ Fitting(a, next, new, Range(rest))
        BY <3>0, <3>1, AbortsFits
      <4> QED BY <4>1, <1>8, <1>o
    <3>2. CASE Completes(a, rest)
      <4>1. PICK next \in {"completing", "failed"}, new \in SUBSET Requests(a, "complete") :
               Moves(a, next, new, Range(rest)) /\ Fitting(a, next, new, Range(rest))
        BY <3>0, <3>2, CompletesFits
      <4> QED BY <4>1, <1>8, <1>o
    <3>3. CASE stage' = stage /\ pending' = rest /\ UNCHANGED toServer
      <4>1. Moves(a, stage[a], {}, Range(rest)) /\ Fitting(a, stage[a], {}, Range(rest))
        BY <3>3, <1>i
      <4> QED BY <4>1, <1>8, <1>o
    <3> QED BY <1>c, <1>8, <2>2, <3>1, <3>2, <3>3 DEF Continues, a
  <2> QED BY <2>1, <2>2
<1>9. CASE Kind[c] = "complete"
  <2>0. OnlyAppends(a, rest)
    BY <1>5, <1>6, <1>9, <1>u, <1>k DEF OnlyAppends, Fits
  <2>1. CASE status = "ok"
    <3>1. stage' = [stage EXCEPT ![a] = "uploaded"] /\ pending' = rest /\ UNCHANGED toServer
      BY <1>c, <1>9, <2>1 DEF Continues, a
    <3>2. Moves(a, "uploaded", {}, Range(rest))
      BY <3>1, StaysMoves DEF Stages
    <3>3. Fitting(a, "uploaded", {}, Range(rest))
      BY <2>0 DEF Fitting, Fits, OnlyAppends, Stages
    <3> QED BY <3>2, <3>3, <2>1, <1>9, <1>o
  <2>2. CASE status # "ok"
    <3>1. Aborts(a, rest)
      BY <1>c, <1>9, <2>2 DEF Continues, a
    <3>2. PICK next \in {"aborting", "failed"}, new \in SUBSET Requests(a, "abort") :
             Moves(a, next, new, Range(rest)) /\ Fitting(a, next, new, Range(rest))
      BY <2>0, <3>1, AbortsFits
    <3> QED BY <3>2, <1>9, <1>o
  <2> QED BY <2>1, <2>2
<1>10. CASE Kind[c] = "abort"
  <2>0. OnlyAppends(a, rest)
    BY <1>5, <1>6, <1>10, <1>u, <1>k DEF OnlyAppends, Fits
  <2>1. PICK next \in {"aborted", "failed"} :
          stage' = [stage EXCEPT ![a] = next] /\ pending' = rest /\ UNCHANGED toServer
    BY <1>c, <1>10 DEF Continues, a
  <2>a. next \in Stages
    BY DEF Stages
  <2>2. Moves(a, next, {}, Range(rest))
    BY <2>1, <2>a, StaysMoves
  <2>3. Fitting(a, next, {}, Range(rest))
    BY <2>0 DEF Fitting, Fits, OnlyAppends, Stages
  <2> QED BY <2>2, <2>3, <1>10, <1>o
<1> QED BY <1>6, <1>7, <1>8, <1>9, <1>10

\* An answer is taken from the front, or added at the end.
LEMMA TailRange ==
  ASSUME NEW S, NEW s \in Seq(S), s # <<>>
  PROVE  /\ Head(s) \in S /\ Tail(s) \in Seq(S) /\ Len(Tail(s)) = Len(s) - 1
         /\ Head(s) \in Range(s) /\ Range(Tail(s)) \subseteq Range(s) /\ Range(s) \subseteq {Head(s)} \cup Range(Tail(s))
<1>1. /\ Len(s) \in Nat \ {0} /\ DOMAIN s = 1 .. Len(s) /\ Head(s) = s[1]
      /\ Head(s) \in S /\ Tail(s) \in Seq(S) /\ Len(Tail(s)) = Len(s) - 1
      /\ \A i \in 1 .. Len(Tail(s)) : Tail(s)[i] = s[i + 1]
  BY HeadTailProperties, LenProperties, EmptySeq
<1>2. DOMAIN Tail(s) = 1 .. Len(s) - 1
  BY <1>1, LenProperties
<1>3. Head(s) \in Range(s)
  BY <1>1 DEF Range
<1>4. Range(Tail(s)) \subseteq Range(s)
  <2>1. ASSUME NEW i \in 1 .. Len(s) - 1 PROVE i + 1 \in 1 .. Len(s) /\ Tail(s)[i] = s[i + 1]
    BY <1>1
  <2> QED BY <1>1, <1>2, <2>1 DEF Range
<1>5. ASSUME NEW i \in 1 .. Len(s), i # 1 PROVE s[i] \in Range(Tail(s))
  <2>1. i - 1 \in 1 .. Len(s) - 1 /\ (i - 1) + 1 = i
    BY <1>1, <1>5
  <2>2. Tail(s)[i - 1] = s[i]
    BY <1>1, <2>1
  <2> QED BY <1>2, <2>1, <2>2 DEF Range
<1>6. Range(s) \subseteq {Head(s)} \cup Range(Tail(s))
  BY <1>1, <1>5 DEF Range
<1> QED BY <1>1, <1>3, <1>4, <1>6

LEMMA AppendRange ==
  ASSUME NEW S, NEW s \in Seq(S), NEW x \in S
  PROVE  /\ Append(s, x) \in Seq(S) /\ Len(Append(s, x)) = Len(s) + 1 /\ Append(s, x) # <<>>
         /\ Range(Append(s, x)) = Range(s) \cup {x}
<1>1. /\ Append(s, x) \in Seq(S) /\ Append(s, x) # <<>> /\ Len(Append(s, x)) = Len(s) + 1
      /\ \A i \in 1 .. Len(s) : Append(s, x)[i] = s[i]
      /\ Append(s, x)[Len(s) + 1] = x
  BY AppendProperties
<1>2. Len(s) \in Nat /\ DOMAIN s = 1 .. Len(s) /\ DOMAIN Append(s, x) = 1 .. Len(s) + 1
  BY <1>1, LenProperties
<1>3. 1 .. Len(s) + 1 = (1 .. Len(s)) \cup {Len(s) + 1}
  BY <1>2
<1> QED BY <1>1, <1>2, <1>3 DEF Range

-------------------------------------------------------------------------------
(* The protocol implements the store *)

\* A request that is executed begins a call of the store.
LEMMA TakenUp ==
  ASSUME ApiInv, Accept
  PROVE  \E c \in Call : /\ c = Head(toServer)
                         /\ AnswersFromCache(c) \/ JoinsExecution(c) \/ RefusesRequest(c)
                              \/ (Executes(c) /\ CallBegins(c))
<1>t. toServer \in Seq(Call) /\ NamesIssued
  BY DEF ApiInv, TypeOK
<1>1. PICK c : c = Head(toServer)
  OBVIOUS
<1>2. c \in Call /\ c \in Range(toServer)
  BY <1>1, <1>t, TailRange DEF Accept
<1>3. ASSUME Executes(c) PROVE CallBegins(c)
  <2>1. IsIdle(c) /\ Dispatch(c)
    BY <1>2, <1>3 DEF Executes, Active
  <2>2. Kind[c] # "create" => uploadId[Owner[c]] \in issued
    BY <1>2, <1>t DEF NamesIssued
  <2>3. Kind[c] \in {"create", "append", "complete", "abort"} /\ (Kind[c] = "append" => Part[c] \in Chunk)
    BY <1>2
  <2> QED BY <2>1, <2>2, <2>3 DEF Dispatch, CallBegins
<1> QED BY <1>1, <1>2, <1>3 DEF Accept

\* Whatever the protocol does is a step of the operations, or none.
LEMMA StepImplements == ASSUME ApiInv, [Next]_vars PROVE [UploadNext]_storeVars
<1>t. toServer \in Seq(Call) /\ issued \subseteq Upload /\ NamesIssued
  BY DEF ApiInv, TypeOK, UploadTypeOK
<1>0. ASSUME UNCHANGED uploadVars PROVE [UploadNext]_storeVars
  BY <1>0 DEF uploadVars
<1>1. ASSUME NEW a \in Attempt, Attach(a) PROVE [UploadNext]_storeVars
  BY <1>1, <1>0 DEF Attach
<1>2. ASSUME NEW a \in Attempt, Prompt(a) PROVE [UploadNext]_storeVars
  <2>1. uploadId[a] \in Upload
    BY <1>2, <1>t DEF Prompt, Refer
  <2> QED BY <1>2, <2>1 DEF Prompt, UploadNext, UserStep
<1>3. CASE HandleFrame
  BY <1>3, <1>0 DEF HandleFrame
<1>4. ASSUME NEW c \in Call, RequestTimesOut(c) PROVE [UploadNext]_storeVars
  BY <1>4, <1>0 DEF RequestTimesOut
<1>5. ASSUME NEW c \in Call, Answer(c) PROVE [UploadNext]_storeVars
  BY <1>5 DEF Answer, UploadNext
<1>6. CASE Drop
  BY <1>6 DEF Drop, storeVars
<1>7. CASE Reconnect
  BY <1>7, <1>0 DEF Reconnect
<1>8. CASE BackendRestarts
  BY <1>8 DEF BackendRestarts, UploadNext
<1>9. CASE Accept
  <2>1. PICK c \in Call : AnswersFromCache(c) \/ JoinsExecution(c) \/ RefusesRequest(c) \/ CallBegins(c)
    BY <1>9, TakenUp
  <2>2. CASE AnswersFromCache(c) \/ JoinsExecution(c) \/ RefusesRequest(c)
    BY <2>2, <1>0 DEF AnswersFromCache, JoinsExecution, RefusesRequest
  <2> QED BY <2>1, <2>2 DEF UploadNext
<1>10. CASE StoreStep
  BY <1>10 DEF StoreStep, UploadNext, UserStep
<1>11. CASE UNCHANGED vars
  BY <1>11, <1>0 DEF vars
<1> QED BY <1>1, <1>2, <1>3, <1>4, <1>5, <1>6, <1>7, <1>8, <1>9, <1>10, <1>11 DEF Next

-------------------------------------------------------------------------------
(* The browser *)

LEMMA MovesKeep ==
  ASSUME BrowserTypes, PendingFits, NEW a \in Attempt, NEW next, NEW new, NEW rest \in SUBSET Range(pending),
         Moves(a, next, new, rest), Fitting(a, next, new, rest), uploadId' \in [Attempt -> Upload \cup {Nothing}]
  PROVE  BrowserTypes' /\ PendingFits'
<1>0. Range(pending) \subseteq Call
  BY RangeOfSeq DEF BrowserTypes
<1>1. BrowserTypes'
  BY DEF Moves, Fitting, BrowserTypes
<1>2. ASSUME NEW d \in Range(pending') PROVE Fits(d, stage'[Owner[d]])
  <2>1. d \in rest \cup new /\ d \in Call /\ Owner[d] \in Attempt
    BY <1>0, <1>2 DEF Moves, Fitting
  <2>2. CASE Owner[d] = a
    BY <2>1, <2>2 DEF Moves, Fitting, BrowserTypes
  <2>3. CASE Owner[d] # a
    <3>1. d \in rest /\ stage'[Owner[d]] = stage[Owner[d]]
      BY <2>1, <2>3 DEF Moves, Fitting, BrowserTypes
    <3> QED BY <3>1 DEF PendingFits
  <2> QED BY <2>2, <2>3
<1> QED BY <1>1, <1>2 DEF PendingFits

\* A file is attached: its attempt waits for nothing else.
LEMMA AttachMoves ==
  ASSUME BrowserTypes, PendingFits, NEW a \in Attempt, Attach(a)
  PROVE  \E next, new : /\ Moves(a, next, new, Range(pending)) /\ Fitting(a, next, new, Range(pending))
                        /\ next # "uploaded" /\ \A d \in new : Kind[d] = "create"
<1>1. Range(pending) \subseteq Call
  BY RangeOfSeq DEF BrowserTypes
<1>2. \A d \in Range(pending) : Owner[d] # a
  <2> SUFFICES ASSUME NEW d \in Range(pending), Owner[d] = a PROVE FALSE
    OBVIOUS
  <2>1. Fits(d, "idle") /\ Kind[d] \in {"create", "append", "complete", "abort"}
    BY <1>1 DEF PendingFits, Attach
  <2> QED BY <2>1 DEF Fits
<1>3. CASE connected
  <2>1. Requested(a, "creating", "create", pending)
    BY <1>3 DEF Attach
  <2>2. Requests(a, "create") \cap Range(pending) = {}
    BY <1>2 DEF Requests
  <2>3. Moves(a, "creating", Requests(a, "create"), Range(pending))
    BY <2>1, <2>2, RequestedMoves DEF BrowserTypes, Stages
  <2>4. Fitting(a, "creating", Requests(a, "create"), Range(pending))
    BY <1>2, RequestsFit DEF Fitting, Stages, Requests
  <2>5. \A d \in Requests(a, "create") : Kind[d] = "create"
    BY DEF Requests
  <2> QED BY <2>3, <2>4, <2>5
<1>4. CASE ~connected
  <2>1. Moves(a, "failed", {}, Range(pending)) /\ Fitting(a, "failed", {}, Range(pending))
    BY <1>2, <1>4, DroppedFits DEF Attach, BrowserTypes, OnlyAppends
  <2> QED BY <2>1
<1> QED BY <1>3, <1>4

\* The names stay good when an attempt moves.
LEMMA MovesName ==
  ASSUME BrowserTypes, NamesIssued, NEW a \in Attempt, NEW next, NEW new, NEW rest \in SUBSET Range(pending),
         Moves(a, next, new, rest), Fitting(a, next, new, rest),
         \A b \in Attempt : uploadId'[b] = uploadId[b] \/ uploadId'[b] \in issued,
         \A d \in new : Kind[d] # "create" => uploadId'[a] \in issued,
         next = "uploaded" => stage[a] = "uploaded" \/ uploadId'[a] \in issued,
         UNCHANGED <<issued, completed>>, Range(toClient') \subseteq Range(toClient)
  PROVE  NamesIssued'
<1>0. Range(pending) \cup Range(toServer) \subseteq Call
  BY RangeOfSeq DEF BrowserTypes
<1>1. ASSUME NEW d \in Range(pending') \cup Range(toServer'), Kind[d] # "create" PROVE uploadId'[Owner[d]] \in issued
  <2>1. CASE d \in new
    BY <1>1, <2>1 DEF Fitting
  <2>2. CASE d \in Range(pending) \cup Range(toServer)
    <3>1. uploadId[Owner[d]] \in issued /\ Owner[d] \in Attempt
      BY <1>0, <1>1, <2>2 DEF NamesIssued
    <3> QED BY <3>1
  <2> QED BY <1>1, <2>1, <2>2 DEF Moves
<1>2. ASSUME NEW b \in Attempt, stage'[b] = "uploaded" PROVE uploadId'[b] \in issued
  <2>1. stage[b] = "uploaded" \/ uploadId'[b] \in issued
    BY <1>2 DEF Moves, BrowserTypes
  <2> QED BY <2>1 DEF NamesIssued
<1>3. issued' = issued /\ \A x \in Range(toClient') \cup Range(completed') : x.status = "ok" => x.upload \in issued
  BY DEF NamesIssued
<1> QED BY <1>1, <1>2, <1>3 DEF NamesIssued

\* An answer, or a timeout.
LEMMA AnswerTaken ==
  ASSUME BrowserTypes, PendingFits, NamesIssued, issued \subseteq Upload, NEW c \in Range(pending), NEW status,
         NEW u \in Upload \cup {Nothing}, status = "ok" => u \in issued, Continues(c, status, u, Without(c)),
         UNCHANGED <<issued, completed>>, Range(toClient') \subseteq Range(toClient)
  PROVE  BrowserTypes' /\ PendingFits' /\ NamesIssued'
<1>0. c \in Call /\ Owner[c] \in Attempt
  BY RangeOfSeq DEF BrowserTypes
<1>1. PICK next, new : Outcome(c, status, next, new)
  BY ContinuesMoves
<1>2. uploadId' = IF Kind[c] = "create" /\ status = "ok" THEN [uploadId EXCEPT ![Owner[c]] = u] ELSE uploadId
  BY DEF Continues
<1>3. /\ uploadId' \in [Attempt -> Upload \cup {Nothing}]
      /\ \A b \in Attempt : uploadId'[b] = uploadId[b] \/ uploadId'[b] \in issued
      /\ Kind[c] = "create" /\ status = "ok" => uploadId'[Owner[c]] \in issued
      /\ Kind[c] # "create" => uploadId' = uploadId
  BY <1>0, <1>2 DEF BrowserTypes
<1>4. Kind[c] # "create" => uploadId'[Owner[c]] \in issued
  BY <1>3 DEF NamesIssued
<1>5. \A d \in new : Kind[d] # "create" => uploadId'[Owner[c]] \in issued
  BY <1>1, <1>3, <1>4 DEF Outcome
<1>6. next = "uploaded" => stage[Owner[c]] = "uploaded" \/ uploadId'[Owner[c]] \in issued
  BY <1>1, <1>4 DEF Outcome
<1>7. Moves(Owner[c], next, new, Range(pending) \ {c}) /\ Fitting(Owner[c], next, new, Range(pending) \ {c})
  BY <1>1 DEF Outcome
<1>8. Range(pending) \ {c} \in SUBSET Range(pending)
  OBVIOUS
<1>9. BrowserTypes' /\ PendingFits'
  BY <1>0, <1>3, <1>7, <1>8, MovesKeep
<1>10. NamesIssued'
  BY <1>0, <1>3, <1>5, <1>6, <1>7, <1>8, MovesName
<1> QED BY <1>9, <1>10

-------------------------------------------------------------------------------
(* The backend *)

ServerTypes ==
  /\ connected \in BOOLEAN
  /\ toClient \in Seq(Answers)
  /\ completed \in Seq(Answers) /\ Len(completed) <= MaxCompleted
  /\ waiting \subseteq Call
  /\ executed \in [Call -> Nat]
  /\ forgotten \in [Call -> Nat]

LEMMA TypeParts == TypeOK <=> UploadTypeOK /\ trouble \in Nat /\ BrowserTypes /\ ServerTypes
BY DEF TypeOK, BrowserTypes, ServerTypes

\* An answer is remembered; the one that makes room for it is counted as forgotten.
LEMMA RememberedKeeps ==
  ASSUME completed \in Seq(Answers), Len(completed) <= MaxCompleted, forgotten \in [Call -> Nat],
         NEW x \in Answers, Remembered(x)
  PROVE  /\ completed' \in Seq(Answers) /\ Len(completed') <= MaxCompleted
         /\ Range(completed') \subseteq Range(completed) \cup {x}
         /\ forgotten' \in [Call -> Nat]
         /\ \A d \in Call : forgotten[d] <= forgotten'[d]
         /\ \A y \in Range(completed) \cup {x} : y \in Range(completed') \/ forgotten'[y.call] = forgotten[y.call] + 1
<1>1. PICK all : all = Append(completed, x)
  OBVIOUS
<1>2. /\ all \in Seq(Answers) /\ all # <<>> /\ Len(all) = Len(completed) + 1
      /\ Range(all) = Range(completed) \cup {x} /\ Len(completed) \in Nat
  BY <1>1, AppendRange, LenProperties
<1>3. CASE Len(all) <= MaxCompleted
  <2>1. completed' = all /\ forgotten' = forgotten
    BY <1>1, <1>3 DEF Remembered
  <2> QED BY <2>1, <1>2, <1>3
<1>4. CASE ~(Len(all) <= MaxCompleted)
  <2>1. completed' = Tail(all) /\ forgotten' = [forgotten EXCEPT ![Head(all).call] = @ + 1]
    BY <1>1, <1>4 DEF Remembered
  <2>2. /\ Head(all) \in Answers /\ Tail(all) \in Seq(Answers) /\ Len(Tail(all)) = Len(all) - 1
        /\ Range(Tail(all)) \subseteq Range(all) /\ Range(all) \subseteq {Head(all)} \cup Range(Tail(all))
    BY <1>2, TailRange
  <2>3. PICK h : h = Head(all)
    OBVIOUS
  <2>4. h.call \in Call
    BY <2>2, <2>3 DEF Answers
  <2>5. /\ forgotten' \in [Call -> Nat] /\ forgotten'[h.call] = forgotten[h.call] + 1
        /\ \A d \in Call : forgotten[d] <= forgotten'[d]
    BY <2>1, <2>3, <2>4
  <2>6. \A y \in Range(all) : y \in Range(completed') \/ forgotten'[y.call] = forgotten[y.call] + 1
    BY <2>1, <2>2, <2>3, <2>5
  <2> QED BY <1>2, <2>1, <2>2, <2>5, <2>6
<1> QED BY <1>3, <1>4

Kept == BrowserTypes /\ PendingFits /\ NamesIssued /\ ServerTypes

\* The server leaves the attempts alone.
LEMMA ServerKeeps ==
  ASSUME Kept, issued \subseteq issued', UNCHANGED clientVars, toServer' \in Seq(Call),
         Range(toServer') \subseteq Range(toServer) \cup Range(pending), ServerTypes',
         \A x \in Range(toClient') \cup Range(completed') : x.status = "ok" => x.upload \in issued'
  PROVE  Kept'
<1>1. stage' = stage /\ uploadId' = uploadId /\ pending' = pending
  BY DEF clientVars
<1>2. BrowserTypes' /\ PendingFits'
  BY <1>1 DEF Kept, BrowserTypes, PendingFits
<1>3. \A c \in Range(pending') \cup Range(toServer') : Kind[c] # "create" => uploadId'[Owner[c]] \in issued'
  BY <1>1 DEF Kept, NamesIssued
<1>4. \A a \in Attempt : stage'[a] = "uploaded" => uploadId'[a] \in issued'
  BY <1>1 DEF Kept, NamesIssued
<1>5. NamesIssued'
  BY <1>3, <1>4 DEF NamesIssued
<1> QED BY <1>2, <1>5 DEF Kept

\* A request is taken up.
LEMMA AcceptKeeps == ASSUME ApiInv, Accept, issued \subseteq issued' PROVE Kept'
<1>t. Kept /\ toServer \in Seq(Call) /\ toServer # <<>>
  BY TypeParts DEF ApiInv, Kept, BrowserTypes, Accept
<1>1. PICK c : c = Head(toServer)
  OBVIOUS
<1>2. c \in Call /\ toServer' \in Seq(Call) /\ Range(toServer') \subseteq Range(toServer)
  BY <1>t, <1>1, TailRange DEF Accept
<1>3. AnswersFromCache(c) \/ JoinsExecution(c) \/ RefusesRequest(c) \/ Executes(c)
  BY <1>1 DEF Accept
<1>4. UNCHANGED clientVars /\ UNCHANGED connected
  BY DEF Accept
<1>s. ServerTypes /\ NamesIssued
  BY <1>t DEF Kept
<1>a. ASSUME NEW x \in Answers, x.status = "ok" => x.upload \in issued,
             toClient' = Append(toClient, x), UNCHANGED <<completed, waiting, executed, forgotten>>
      PROVE  Kept'
  <2>1. toClient' \in Seq(Answers) /\ Range(toClient') = Range(toClient) \cup {x}
    BY <1>a, <1>s, AppendRange DEF ServerTypes
  <2>2. ServerTypes'
    BY <2>1, <1>a, <1>s, <1>4 DEF ServerTypes
  <2>3. \A y \in Range(toClient') \cup Range(completed') : y.status = "ok" => y.upload \in issued'
    BY <2>1, <1>a, <1>s DEF NamesIssued
  <2> QED BY <2>2, <2>3, <1>t, <1>2, <1>4, ServerKeeps
<1>5. CASE AnswersFromCache(c)
  <2>1. PICK i \in DOMAIN completed : toClient' = Append(toClient, completed[i])
    BY <1>5 DEF AnswersFromCache, Cached
  <2>2. completed[i] \in Answers /\ completed[i] \in Range(completed)
    BY <1>s, LenProperties, ElementOfSeq DEF ServerTypes, Range
  <2>3. completed[i].status = "ok" => completed[i].upload \in issued
    BY <2>2, <1>s DEF NamesIssued
  <2> QED BY <2>1, <2>2, <2>3, <1>a, <1>5 DEF AnswersFromCache, serverVars
<1>6. CASE RefusesRequest(c)
  <2> DEFINE x == [call |-> c, status |-> "error", upload |-> Nothing]
  <2>1. x \in Answers /\ x.status # "ok"
    BY <1>2 DEF Answers
  <2>2. toClient' = Append(toClient, x) /\ UNCHANGED <<completed, waiting, executed, forgotten>>
    BY <1>6 DEF RefusesRequest, serverVars
  <2> HIDE DEF x
  <2> QED BY <2>1, <2>2, <1>a
<1>7. CASE JoinsExecution(c) \/ Executes(c)
  <2>1. /\ UNCHANGED <<toClient, completed, forgotten>> /\ waiting' = waiting \cup {c}
        /\ executed' = executed \/ executed' = [executed EXCEPT ![c] = @ + 1]
    BY <1>7 DEF JoinsExecution, Executes
  <2>2. ServerTypes'
    BY <2>1, <1>2, <1>4, <1>s DEF ServerTypes
  <2>3. \A y \in Range(toClient') \cup Range(completed') : y.status = "ok" => y.upload \in issued'
    BY <2>1, <1>s DEF NamesIssued
  <2> QED BY <2>2, <2>3, <1>t, <1>2, <1>4, ServerKeeps
<1> QED BY <1>3, <1>5, <1>6, <1>7

\* What the answer of an execution says.
LEMMA ResultAnswers ==
  ASSUME ApiInv, NEW c \in Call, Answer(c)
  PROVE  LET x == [call |-> c, status |-> results[c].status, upload |-> results[c].upload]
         IN  x \in Answers /\ x.call = c /\ (x.status = "ok" => x.upload \in issued)
<1>1. results[c] \in Results /\ results[c] # NoResult /\ ResultKnows(results[c], issued)
  BY DEF ApiInv, StoreInv, UploadInv, UploadTypeOK, IssuedOnly, Answer, Forget
<1>2. results[c].status \in {"ok", "error"}
  BY <1>1 DEF ResultKnows
<1> QED BY <1>1, <1>2 DEF Answers, Results, ResultKnows

\* An execution ends.
LEMMA AnswerKeeps == ASSUME ApiInv, NEW c \in Call, Answer(c), issued \subseteq issued' PROVE Kept'
<1>t. Kept /\ ServerTypes /\ NamesIssued
  BY TypeParts DEF ApiInv, Kept
<1>1. PICK x : x = [call |-> c, status |-> results[c].status, upload |-> results[c].upload]
  OBVIOUS
<1>2. x \in Answers /\ (x.status = "ok" => x.upload \in issued)
  BY <1>1, ResultAnswers
<1>3. /\ Remembered(x) /\ UNCHANGED <<clientVars, connected, toServer, executed>> /\ waiting' \subseteq waiting
      /\ toClient' = Append(toClient, x) \/ toClient' = toClient
  BY <1>1 DEF Answer
<1>4. /\ completed' \in Seq(Answers) /\ Len(completed') <= MaxCompleted
      /\ Range(completed') \subseteq Range(completed) \cup {x} /\ forgotten' \in [Call -> Nat]
  BY <1>t, <1>2, <1>3, RememberedKeeps DEF ServerTypes
<1>5. toClient' \in Seq(Answers) /\ Range(toClient') \subseteq Range(toClient) \cup {x}
  <2>1. Append(toClient, x) \in Seq(Answers) /\ Range(Append(toClient, x)) = Range(toClient) \cup {x}
    BY <1>t, <1>2, AppendRange DEF ServerTypes
  <2> QED BY <2>1, <1>3, <1>t DEF ServerTypes
<1>6. ServerTypes'
  BY <1>3, <1>4, <1>5, <1>t DEF ServerTypes
<1>7. \A y \in Range(toClient') \cup Range(completed') : y.status = "ok" => y.upload \in issued'
  BY <1>2, <1>4, <1>5, <1>t DEF NamesIssued
<1>8. toServer' = toServer /\ toServer \in Seq(Call)
  BY <1>3, <1>t DEF Kept, BrowserTypes
<1> QED BY <1>3, <1>6, <1>7, <1>8, <1>t, ServerKeeps

\* The types, and what is known of requests and answers, are kept by every step.
LEMMA PartsKept == ASSUME ApiInv, [Next]_vars, issued \subseteq issued' PROVE Kept'
<1>t. Kept /\ BrowserTypes /\ PendingFits /\ NamesIssued /\ ServerTypes /\ issued \subseteq Upload
  BY TypeParts DEF ApiInv, Kept, UploadTypeOK
<1>e. <<>> \in Seq(Answers) /\ <<>> \in Seq(Call) /\ Len(<<>>) = 0 /\ Range(<<>>) = {}
  BY EmptySeq DEF Range
<1>1. ASSUME NEW a \in Attempt, Attach(a) PROVE Kept'
  <2>1. UNCHANGED <<uploadVars, uploadId, connected, toClient, serverVars>>
    BY <1>1 DEF Attach
  <2>2. PICK next, new : /\ Moves(a, next, new, Range(pending)) /\ Fitting(a, next, new, Range(pending))
                         /\ next # "uploaded" /\ \A d \in new : Kind[d] = "create"
    BY <1>1, <1>t, AttachMoves
  <2>3. BrowserTypes' /\ PendingFits'
    <3>1. uploadId' \in [Attempt -> Upload \cup {Nothing}]
      BY <2>1, <1>t DEF BrowserTypes
    <3> QED BY <3>1, <2>2, <1>t, MovesKeep
  <2>4. NamesIssued'
    <3>1. uploadId' = uploadId /\ UNCHANGED <<issued, completed>> /\ Range(toClient') \subseteq Range(toClient)
      BY <2>1 DEF uploadVars, storeVars, serverVars
    <3> QED BY <3>1, <2>2, <1>t, MovesName
  <2>5. ServerTypes'
    BY <2>1, <1>t DEF ServerTypes, serverVars
  <2> QED BY <2>3, <2>4, <2>5 DEF Kept
<1>2. CASE HandleFrame
  <2>1. toClient # <<>> /\ toClient' = Tail(toClient) /\ UNCHANGED <<uploadVars, connected, serverVars>>
    BY <1>2 DEF HandleFrame
  <2>2. /\ Head(toClient) \in Answers /\ Tail(toClient) \in Seq(Answers)
        /\ Head(toClient) \in Range(toClient) /\ Range(Tail(toClient)) \subseteq Range(toClient)
    BY <2>1, <1>t, TailRange DEF ServerTypes
  <2>3. ServerTypes'
    BY <2>1, <2>2, <1>t DEF ServerTypes, serverVars
  <2>4. PICK x : x = Head(toClient)
    OBVIOUS
  <2>5. x.upload \in Upload \cup {Nothing} /\ (x.status = "ok" => x.upload \in issued)
    BY <2>2, <2>4, <1>t DEF Answers, NamesIssued
  <2>6. CASE x.call \in Range(pending)
    <3>1. Continues(x.call, x.status, x.upload, Without(x.call))
      BY <1>2, <2>4, <2>6 DEF HandleFrame
    <3>2. UNCHANGED <<issued, completed>> /\ Range(toClient') \subseteq Range(toClient)
      BY <2>1, <2>2 DEF uploadVars, storeVars, serverVars
    <3>3. PICK c, s, u : c = x.call /\ s = x.status /\ u = x.upload
      OBVIOUS
    <3>4. BrowserTypes' /\ PendingFits' /\ NamesIssued'
      BY <3>1, <3>2, <3>3, <2>5, <2>6, <1>t, AnswerTaken
    <3> QED BY <3>4, <2>3 DEF Kept
  <2>7. CASE x.call \notin Range(pending)
    <3>1. UNCHANGED <<clientVars, toServer>>
      BY <1>2, <2>4, <2>7 DEF HandleFrame
    <3>2. \A y \in Range(toClient') \cup Range(completed') : y.status = "ok" => y.upload \in issued'
      BY <2>1, <2>2, <1>t DEF NamesIssued, uploadVars, storeVars, serverVars
    <3>3. toServer' \in Seq(Call) /\ Range(toServer') \subseteq Range(toServer) \cup Range(pending)
      BY <3>1, <1>t DEF BrowserTypes
    <3> QED BY <3>1, <3>2, <3>3, <2>3, <1>t, ServerKeeps
  <2> QED BY <2>6, <2>7
<1>3. ASSUME NEW c \in Call, RequestTimesOut(c) PROVE Kept'
  <2>1. /\ c \in Range(pending) /\ Continues(c, "error", Nothing, Without(c))
        /\ UNCHANGED <<uploadVars, connected, toClient, serverVars>>
    BY <1>3 DEF RequestTimesOut
  <2>2. UNCHANGED <<issued, completed>> /\ Range(toClient') \subseteq Range(toClient)
    BY <2>1 DEF uploadVars, storeVars, serverVars
  <2>3. BrowserTypes' /\ PendingFits' /\ NamesIssued'
    BY <2>1, <2>2, <1>t, AnswerTaken
  <2>4. ServerTypes'
    BY <2>1, <1>t DEF ServerTypes, serverVars
  <2> QED BY <2>3, <2>4 DEF Kept
<1>4. ASSUME NEW c \in Call, Answer(c) PROVE Kept'
  BY <1>4, AnswerKeeps
<1>5. CASE Drop \/ BackendRestarts
  <2>1. /\ UNCHANGED <<clientVars, executed>> /\ connected' = FALSE /\ toServer' = <<>> /\ toClient' = <<>>
        /\ waiting' = {} /\ (completed' = completed \/ completed' = <<>>)
    BY <1>5 DEF Drop, BackendRestarts
  <2>2. forgotten' \in [Call -> Nat]
    <3>1. CASE Drop
      BY <3>1, <1>t DEF Drop, ServerTypes
    <3>2. CASE BackendRestarts
      BY <3>2, <1>t DEF BackendRestarts, ServerTypes
    <3> QED BY <1>5, <3>1, <3>2
  <2>3. completed' \in Seq(Answers) /\ Len(completed') <= MaxCompleted
    <3>1. 0 <= MaxCompleted
      OBVIOUS
    <3>2. CASE completed' = completed
      BY <3>2, <1>t DEF ServerTypes
    <3>3. CASE completed' = <<>>
      <4>1. Len(completed') = 0
        BY <3>3, <1>e
      <4> QED BY <3>1, <3>3, <4>1, <1>e
    <3> QED BY <2>1, <3>2, <3>3
  <2>4. ServerTypes'
    BY <2>1, <2>2, <2>3, <1>t, <1>e DEF ServerTypes
  <2>5. \A y \in Range(toClient') \cup Range(completed') : y.status = "ok" => y.upload \in issued'
    <3>1. Range(toClient') = {} /\ Range(completed') \subseteq Range(completed)
      BY <2>1, <1>e
    <3> QED BY <3>1, <1>t DEF NamesIssued
  <2>6. toServer' \in Seq(Call) /\ Range(toServer') \subseteq Range(toServer) \cup Range(pending)
    BY <2>1, <1>e
  <2> QED BY <2>1, <2>4, <2>5, <2>6, <1>t, ServerKeeps
<1>6. CASE Reconnect
  <2>1. connected' = TRUE /\ toServer' = pending /\ UNCHANGED <<uploadVars, clientVars, toClient, serverVars>>
    BY <1>6 DEF Reconnect
  <2>2. ServerTypes'
    BY <2>1, <1>t DEF ServerTypes, serverVars
  <2>3. \A y \in Range(toClient') \cup Range(completed') : y.status = "ok" => y.upload \in issued'
    BY <2>1, <1>t DEF NamesIssued, uploadVars, storeVars, serverVars
  <2>4. toServer' \in Seq(Call) /\ Range(toServer') \subseteq Range(toServer) \cup Range(pending)
    BY <2>1, <1>t DEF BrowserTypes
  <2> QED BY <2>1, <2>2, <2>3, <2>4, <1>t, ServerKeeps
<1>7. CASE Accept
  BY <1>7, AcceptKeeps
<1>8. CASE StoreStep \/ (\E a \in Attempt : Prompt(a)) \/ UNCHANGED vars
  <2>1. UNCHANGED <<clientVars, linkVars, serverVars>>
    BY <1>8 DEF StoreStep, Prompt, vars
  <2>2. ServerTypes'
    BY <2>1, <1>t DEF ServerTypes, serverVars, linkVars
  <2>3. \A y \in Range(toClient') \cup Range(completed') : y.status = "ok" => y.upload \in issued'
    BY <2>1, <1>t DEF NamesIssued, linkVars, serverVars
  <2>4. toServer' \in Seq(Call) /\ Range(toServer') \subseteq Range(toServer) \cup Range(pending)
    BY <2>1, <1>t DEF BrowserTypes, linkVars
  <2> QED BY <2>1, <2>2, <2>3, <2>4, <1>t, ServerKeeps
<1> QED BY <1>1, <1>2, <1>3, <1>4, <1>5, <1>6, <1>7, <1>8 DEF Next

\* Trouble is counted.
LEMMA TroubleCounted == ASSUME ApiInv, [Next]_vars PROVE trouble' \in Nat
<1>t. trouble \in Nat
  BY DEF ApiInv, TypeOK
<1>b. ASSUME NEW c \in Call, CallBegins(c) PROVE trouble' \in Nat
  <2>1. ASSUME NEW u, NEW k, AppendBegins(c, u, k) PROVE trouble' \in Nat
    <3>1. UNCHANGED trouble \/ Trouble
      BY <2>1 DEF AppendBegins, Fails, NoTrouble
    <3> QED BY <3>1, <1>t DEF Trouble
  <2>2. ASSUME NEW u, CreateBegins(c) \/ CompleteBegins(c, u) \/ AbortBegins(c, u) PROVE trouble' \in Nat
    BY <2>2, <1>t DEF CreateBegins, CompleteBegins, AbortBegins
  <2> QED BY <1>b, <2>1, <2>2 DEF CallBegins
<1>1. ASSUME NEW a \in Attempt, Attach(a) \/ Prompt(a) PROVE trouble' = trouble
  BY <1>1 DEF Attach, Prompt, Refer, uploadVars
<1>2. ASSUME NEW c \in Call, RequestTimesOut(c) \/ Answer(c) PROVE trouble' = trouble
  BY <1>2 DEF RequestTimesOut, Answer, Forget, uploadVars
<1>3. CASE HandleFrame \/ Reconnect \/ UNCHANGED vars
  BY <1>3, <1>t DEF HandleFrame, Reconnect, vars, uploadVars
<1>4. CASE Drop \/ BackendRestarts
  BY <1>4, <1>t DEF Drop, BackendRestarts, Restart, Trouble
<1>5. CASE Accept
  <2>1. PICK c \in Call : AnswersFromCache(c) \/ JoinsExecution(c) \/ RefusesRequest(c) \/ CallBegins(c)
    BY <1>5, TakenUp
  <2> QED BY <2>1, <1>t, <1>b DEF AnswersFromCache, JoinsExecution, RefusesRequest, uploadVars
<1>6. CASE StoreStep
  <2>1. ASSUME NEW c \in Call, CallStep(c) PROVE UNCHANGED trouble \/ Trouble
    <3>1. ASSUME NEW u \in Upload, SweepBegins(c, u) \/ CreateMakes(c, u) PROVE UNCHANGED trouble
      BY <3>1 DEF SweepBegins, CreateMakes
    <3>2. ASSUME SweepEnds(c) \/ CreateChecks(c) \/ CompleteReads(c) \/ AbortRemoves(c) PROVE UNCHANGED trouble
      BY <3>2 DEF SweepEnds, CreateChecks, CompleteReads, AbortRemoves
    <3>3. ASSUME CreateFinishes(c) \/ CompleteFinishes(c) PROVE UNCHANGED trouble \/ Trouble
      BY <3>3 DEF CreateFinishes, CompleteFinishes, NoTrouble
    <3> QED BY <2>1, <3>1, <3>2, <3>3 DEF CallStep
  <2>2. ASSUME WriteStep \/ TimeGoesBy \/ \E u \in Upload : DeleteSession(u) PROVE UNCHANGED trouble \/ Trouble
    BY <2>2 DEF WriteStep, WriteSucceeds, WriteFails, TimeGoesBy, DeleteSession, NoTrouble
  <2> QED BY <1>6, <1>t, <2>1, <2>2 DEF StoreStep, Trouble
<1> QED BY <1>t, <1>1, <1>2, <1>3, <1>4, <1>5, <1>6 DEF Next

-------------------------------------------------------------------------------
(* How often a request is executed *)

\* The invariant of counting, when neither the answers nor the counts change.
LEMMA StillCounted ==
  ASSUME Counted, UNCHANGED <<completed, executed, forgotten>>, \A d \in Call : IsIdle(d)' => IsIdle(d)
  PROVE  Counted'
BY DEF Counted, Cached

LEMMA CountedKept == ASSUME ApiInv, [Next]_vars PROVE Counted'
<1>t. /\ Counted /\ UploadTypeOK /\ IssuedOnly /\ BrowserTypes /\ ServerTypes
      /\ executed \in [Call -> Nat] /\ forgotten \in [Call -> Nat]
      /\ completed \in Seq(Answers) /\ Len(completed) <= MaxCompleted
  BY TypeParts DEF ApiInv, StoreInv, ServerTypes
<1>0. ASSUME UNCHANGED <<completed, executed, forgotten, calls, results>> PROVE Counted'
  BY <1>0, <1>t, StillCounted DEF IsIdle
<1>1. ASSUME NEW a \in Attempt, Attach(a) \/ Prompt(a) PROVE Counted'
  BY <1>1, <1>0 DEF Attach, Prompt, Refer, serverVars, uploadVars, storeVars
<1>2. CASE HandleFrame \/ Reconnect \/ UNCHANGED vars
  BY <1>2, <1>0 DEF HandleFrame, Reconnect, vars, serverVars, uploadVars, storeVars
<1>3. ASSUME NEW c \in Call, RequestTimesOut(c) PROVE Counted'
  BY <1>3, <1>0 DEF RequestTimesOut, serverVars, uploadVars, storeVars
<1>4. CASE Drop
  BY <1>4, <1>0 DEF Drop
<1>5. CASE BackendRestarts
  <2> SUFFICES ASSUME NEW d \in Call PROVE executed'[d] <= 1 + forgotten'[d] /\ executed'[d] <= forgotten'[d]
    BY DEF Counted
  <2>1. /\ executed' = executed
        /\ forgotten'[d] = IF executed[d] > forgotten[d] THEN forgotten[d] + 1 ELSE forgotten[d]
    BY <1>5 DEF BackendRestarts
  <2>2. executed[d] <= 1 + forgotten[d] /\ executed[d] \in Nat /\ forgotten[d] \in Nat
    BY <1>t DEF Counted
  <2> QED BY <2>1, <2>2
<1>6. CASE StoreStep
  <2>1. UNCHANGED <<completed, executed, forgotten>>
    BY <1>6 DEF StoreStep, serverVars
  <2>2. \/ \E c \in Call : CallStep(c)
        \/ WriteStep \/ TimeGoesBy \/ UserStep
    BY <1>6 DEF StoreStep, UserStep
  <2> QED BY <2>1, <2>2, <1>t, ActiveStays, StillCounted
<1>7. CASE Accept
  <2>1. PICK c \in Call : \/ AnswersFromCache(c) \/ JoinsExecution(c) \/ RefusesRequest(c)
                          \/ (Executes(c) /\ CallBegins(c))
    BY <1>7, TakenUp
  <2>2. CASE AnswersFromCache(c) \/ JoinsExecution(c) \/ RefusesRequest(c)
    BY <2>2, <1>0 DEF AnswersFromCache, JoinsExecution, RefusesRequest, serverVars, uploadVars, storeVars
  <2>3. CASE Executes(c) /\ CallBegins(c)
    <3>1. IsIdle(c) /\ Cached(c) = {} /\ executed' = [executed EXCEPT ![c] = @ + 1] /\ UNCHANGED <<completed, forgotten>>
      BY <2>3 DEF Executes, Active
    <3>2. ~IsIdle(c)' /\ \A d \in Call \ {c} : calls'[d] = calls[d] /\ results'[d] = results[d]
      BY <2>3, <1>t, BeginsOne
    <3> SUFFICES ASSUME NEW d \in Call
                 PROVE  /\ executed'[d] <= 1 + forgotten'[d]
                        /\ IsIdle(d)' /\ Cached(d)' = {} => executed'[d] <= forgotten'[d]
      BY DEF Counted
    <3>3. /\ executed[d] <= 1 + forgotten[d] /\ executed[d] \in Nat /\ forgotten[d] \in Nat
          /\ IsIdle(d) /\ Cached(d) = {} => executed[d] <= forgotten[d]
      BY <1>t DEF Counted
    <3>4. CASE d = c
      BY <3>1, <3>2, <3>3, <3>4, <1>t
    <3>5. CASE d # c
      <4>1. executed'[d] = executed[d] /\ forgotten'[d] = forgotten[d]
        BY <3>1, <3>5, <1>t
      <4>2. (IsIdle(d)' => IsIdle(d)) /\ Cached(d)' = Cached(d)
        BY <3>1, <3>2, <3>5 DEF IsIdle, Cached
      <4> QED BY <3>3, <4>1, <4>2
    <3> QED BY <3>4, <3>5
  <2> QED BY <2>1, <2>2, <2>3
<1>8. ASSUME NEW c \in Call, Answer(c) PROVE Counted'
  <2>1. PICK x : x = [call |-> c, status |-> results[c].status, upload |-> results[c].upload]
    OBVIOUS
  <2>2. x \in Answers /\ x.call = c
    BY <1>8, <2>1, ResultAnswers
  <2>3. Remembered(x) /\ executed' = executed /\ calls' = calls /\ results' = [results EXCEPT ![c] = NoResult]
    BY <1>8, <2>1 DEF Answer, Forget
  <2>4. /\ \A d \in Call : forgotten[d] <= forgotten'[d]
        /\ \A y \in Range(completed) \cup {x} : y \in Range(completed') \/ forgotten'[y.call] = forgotten[y.call] + 1
        /\ forgotten' \in [Call -> Nat]
    BY <2>2, <2>3, <1>t, RememberedKeeps
  <2> SUFFICES ASSUME NEW d \in Call
               PROVE  /\ executed'[d] <= 1 + forgotten'[d]
                      /\ IsIdle(d)' /\ Cached(d)' = {} => executed'[d] <= forgotten'[d]
    BY DEF Counted
  <2>5. /\ executed[d] <= 1 + forgotten[d] /\ executed[d] \in Nat /\ forgotten[d] \in Nat /\ forgotten'[d] \in Nat
        /\ IsIdle(d) /\ Cached(d) = {} => executed[d] <= forgotten[d]
    BY <2>4, <1>t DEF Counted
  <2>6. executed'[d] <= 1 + forgotten'[d]
    BY <2>3, <2>4, <2>5
  <2>7. ASSUME IsIdle(d)', Cached(d)' = {} PROVE executed'[d] <= forgotten'[d]
    <3>1. \A y \in Range(completed') : y.call # d
      BY <2>7 DEF Cached, Range
    <3>2. CASE \E y \in Range(completed) \cup {x} : y.call = d
      BY <3>1, <3>2, <2>3, <2>4, <2>5
    <3>3. CASE ~\E y \in Range(completed) \cup {x} : y.call = d
      <4>1. d # c /\ Cached(d) = {}
        BY <3>3, <2>2 DEF Cached, Range
      <4>2. IsIdle(d)
        BY <4>1, <2>3, <2>7 DEF IsIdle
      <4> QED BY <4>1, <4>2, <2>3, <2>4, <2>5
    <3> QED BY <3>2, <3>3
  <2> QED BY <2>6, <2>7
<1> QED BY <1>1, <1>2, <1>3, <1>4, <1>5, <1>6, <1>7, <1>8 DEF Next

-------------------------------------------------------------------------------
(* Theorems *)

LEMMA ApiInitial == Init => ApiInv
<1> SUFFICES ASSUME Init PROVE ApiInv
  OBVIOUS
<1>e. <<>> \in Seq(Answers) /\ <<>> \in Seq(Call) /\ Len(<<>>) = 0 /\ Range(<<>>) = {} /\ IsInjective(<<>>)
  BY EmptySeq DEF Range, IsInjective
<1>1. StoreInv
  <2>1. UploadInv
    BY UploadInitial DEF Init
  <2>2. IssuedOnly
    BY DEF Init, UploadInit, IssuedOnly, CallKnows, ResultKnows, Idle
  <2> QED BY <2>1, <2>2 DEF StoreInv
<1>2. BrowserTypes /\ ServerTypes /\ trouble \in Nat
  BY <1>e DEF Init, UploadInit, BrowserTypes, ServerTypes, Stages
<1>3. TypeOK
  BY <1>1, <1>2, TypeParts DEF StoreInv, UploadInv
<1>4. PendingFits /\ NamesIssued
  BY <1>e DEF Init, PendingFits, NamesIssued
<1>5. Counted
  BY DEF Init, Counted
<1> QED BY <1>1, <1>3, <1>4, <1>5 DEF ApiInv

LEMMA ApiInductive == ApiInv /\ [Next]_vars => ApiInv'
<1> SUFFICES ASSUME ApiInv, [Next]_vars PROVE ApiInv'
  OBVIOUS
<1>1. [UploadNext]_storeVars
  BY StepImplements
<1>2. StoreInv' /\ issued \subseteq issued'
  BY <1>1, StoreKept, IssuedGrow DEF ApiInv
<1>3. Kept'
  BY <1>2, PartsKept
<1>4. TypeOK'
  <2>1. trouble' \in Nat
    BY TroubleCounted
  <2>2. UploadTypeOK' /\ BrowserTypes' /\ ServerTypes'
    BY <1>2, <1>3 DEF StoreInv, UploadInv, Kept
  <2> QED BY <2>1, <2>2 DEF TypeOK, BrowserTypes, ServerTypes
<1>5. Counted'
  BY CountedKept
<1> QED BY <1>2, <1>3, <1>4, <1>5 DEF ApiInv, Kept

\* The variables of the browser, the connection and the backend have their types: no request waits
\* twice for its answer (DataChannelBackendApi.request), and the cache of answers keeps its bound
\* (remember).
THEOREM ApiTypeCorrect == Spec => []TypeOK
<1>1. Init => ApiInv
  BY ApiInitial
<1>2. ApiInv /\ [Next]_vars => ApiInv'
  BY ApiInductive
<1>3. ApiInv => TypeOK
  BY DEF ApiInv
<1> QED BY <1>1, <1>2, <1>3, PTL DEF Spec

\* However often a request is sent again, it is executed once, and once more for each time its
\* answer was pushed out of the cache or lost with the process (BackendProtocolHandler.accept).
THEOREM RequestsRunOnce == Spec => []ExecutedOnce
<1>1. Init => ApiInv
  BY ApiInitial
<1>2. ApiInv /\ [Next]_vars => ApiInv'
  BY ApiInductive
<1>3. ApiInv => ExecutedOnce
  BY DEF ApiInv, Counted, ExecutedOnce
<1> QED BY <1>1, <1>2, <1>3, PTL DEF Spec

\* Lost connections, repeated requests and restarts do to the uploads only what the operations of
\* LocalBackendApi do, on uploads that were created.
THEOREM ApiImplementsUploads == Spec => ImplementsUploads
<1>1. Init => UploadInit
  BY DEF Init
<1>2. Init => ApiInv
  BY ApiInitial
<1>3. ApiInv /\ [Next]_vars => ApiInv'
  BY ApiInductive
<1>4. ApiInv /\ [Next]_vars => [UploadNext]_storeVars
  BY StepImplements
<1> QED BY <1>1, <1>2, <1>3, <1>4, PTL DEF Spec, UploadSpec, ImplementsUploads

\* So a file that is called completed is whole, with the protocol on top as well
\* (completeFileUpload).
THEOREM ApiUploadsAreWhole == Spec => []CompletedIsWhole
BY ApiImplementsUploads, UploadsAreWhole, PTL DEF ImplementsUploads

-------------------------------------------------------------------------------
(* What has been answered stays true *)

Kinds == {"create", "append", "complete", "abort"}

\* The stages at which an attempt has not made a request of a kind yet.
NotYet(kind) ==
  {s \in Stages :
     \/ s = "idle"
     \/ kind # "create" /\ s = "creating"
     \/ kind \in {"complete", "abort"} /\ s = "sending"
     \/ kind = "abort" /\ s \in {"completing", "uploaded"}}

\* The answers that the browser got or may still get.
Told == Range(completed) \cup Range(toClient)

\* A request that waits, travels or runs, or one that was answered.
Alive(c) ==
  \/ c \in Range(pending) \cup Range(toServer)
  \/ ~IsIdle(c)
  \/ \E x \in Told : x.call = c

\* A request was found good, and its answer names u.
SaysOk(c, u) ==
  \/ results[c].status = "ok" /\ results[c].upload = u
  \/ \E x \in Told : x.call = c /\ x.status = "ok" /\ x.upload = u

Confirmed(a, kind) == \E c \in Requests(a, kind) : \E u \in Upload : SaysOk(c, u)

\* No request is met before its attempt has come to it.
NothingEarly == \A c \in Call : Alive(c) => stage[Owner[c]] \notin NotYet(Kind[c])

\* An attempt that goes on has an upload.
HasUpload ==
  \A a \in Attempt : /\ uploadId[a] \in issued \cup {Nothing}
                     /\ stage[a] \notin {"idle", "creating", "failed"} => uploadId[a] \in issued

\* A call runs the request it was made for, on the upload of its attempt.
CallFits(c) ==
  /\ calls[c].method = Kind[c]
  /\ Kind[c] # "create" => calls[c].upload = uploadId[Owner[c]]
  /\ calls[c].at \in {"writing", "joining"} => Kind[c] = "append"

CallsFit == \A c \in Call : calls[c] # Idle => CallFits(c)

\* A sweep aborts only what it has marked as reclaimed.
SweptIsReclaimed ==
  \A c \in Call : calls[c].at = "sweeping" /\ calls[c].upload # Nothing => calls[c].upload \in reclaimed

Makes(c, u) == IsAt(c, "create", "making") /\ calls[c].upload = u

\* The attempt knows u, or will when the answer to its create arrives.
Named(a, u) == uploadId[a] = u \/ \E c \in Requests(a, "create") : SaysOk(c, u)

\* No two attempts get the same upload, and nobody knows an upload that is being made.
OwnNames ==
  \A u \in Upload :
    /\ \A a, b \in Attempt : Named(a, u) /\ Named(b, u) => a = b
    /\ \A c \in Call : Makes(c, u) => /\ \A a \in Attempt : ~Named(a, u)
                                      /\ \A d \in Call : Makes(d, u) => d = c

\* An upload that was completed: what takes it away is an expiry.
Settled(u) == u \notin tracked /\ (Whole(u) \/ u \in reclaimed \cup aged)

CompleteHolds ==
  \A a \in Attempt :
    stage[a] = "uploaded" \/ (stage[a] = "completing" /\ Confirmed(a, "complete")) => Settled(uploadId[a])

\* A session mentions only what a browser was told is uploaded.
MentionsAreTold ==
  \A u \in referenced : \E a \in Attempt : stage[a] = "uploaded" /\ uploadId[a] = u

AbortHolds ==
  \A a \in Attempt :
    stage[a] = "aborted" \/ (stage[a] = "aborting" /\ Confirmed(a, "abort")) => dirs[uploadId[a]].manifest # "active"

TruthInv ==
  /\ NothingEarly
  /\ HasUpload
  /\ CallsFit
  /\ SweptIsReclaimed
  /\ OwnNames
  /\ CompleteHolds
  /\ MentionsAreTold
  /\ AbortHolds

\* What a request leads to when it is answered, or not.
After(kind, status, from, to) ==
  \/ kind = "create" /\ from = "creating" /\ (to = "failed" \/ (status = "ok" /\ to \in {"sending", "completing"}))
  \/ kind = "append" /\ to = from
  \/ kind = "append" /\ from = "sending" /\ to \in {"completing", "aborting", "failed"}
  \/ kind = "complete" /\ from = "completing" /\ (to \in {"aborting", "failed"} \/ (status = "ok" /\ to = "uploaded"))
  \/ kind = "abort" /\ from = "aborting" /\ (to = "failed" \/ (status = "ok" /\ to = "aborted"))

\* An answer, or a timeout, moves the attempt accordingly.
LEMMA ContinuesAfter ==
  ASSUME BrowserTypes, PendingFits, NEW c \in Range(pending), NEW status, NEW u, NEW rest,
         Continues(c, status, u, rest)
  PROVE  \E next : stage' = [stage EXCEPT ![Owner[c]] = next] /\ After(Kind[c], status, stage[Owner[c]], next)
<1>1. c \in Call /\ Range(pending) \subseteq Call
  BY RangeOfSeq DEF BrowserTypes
<1>2. PICK a : a = Owner[c]
  OBVIOUS
<1>3. Kind[c] \in Kinds /\ Fits(c, stage[a]) /\ a \in Attempt
  BY <1>1, <1>2 DEF PendingFits, Kinds
<1>a. ASSUME NEW next, NEW kind, Requested(a, next, kind, rest) PROVE stage' = [stage EXCEPT ![a] = next]
  BY <1>a DEF Requested
<1>d. ASSUME Dropped(a, rest) PROVE stage' = [stage EXCEPT ![a] = "failed"]
  BY <1>d DEF Dropped
<1>b. ASSUME Aborts(a, rest) PROVE \E next \in {"aborting", "failed"} : stage' = [stage EXCEPT ![a] = next]
  BY <1>b, <1>a, <1>d DEF Aborts
<1>e. ASSUME Completes(a, rest) PROVE \E next \in {"completing", "failed"} : stage' = [stage EXCEPT ![a] = next]
  BY <1>e, <1>a, <1>d DEF Completes
<1>s. ASSUME Sends(a, rest)
      PROVE  \E next \in {"sending", "completing", "failed"} : stage' = [stage EXCEPT ![a] = next]
  BY <1>s, <1>a, <1>d, <1>e DEF Sends
<1>i. ASSUME stage' = stage PROVE stage' = [stage EXCEPT ![a] = stage[a]]
  BY <1>3, <1>i DEF BrowserTypes
<1>4. CASE Kind[c] = "create"
  <2>1. Dropped(a, rest) \/ (status = "ok" /\ Sends(a, rest))
    BY <1>2, <1>4 DEF Continues
  <2> QED BY <2>1, <1>2, <1>3, <1>4, <1>d, <1>s DEF After, Fits
<1>5. CASE Kind[c] = "append"
  <2>1. stage' = stage \/ (stage[a] = "sending" /\ (Aborts(a, rest) \/ Completes(a, rest)))
    BY <1>2, <1>5 DEF Continues
  <2> QED BY <2>1, <1>2, <1>5, <1>i, <1>b, <1>e DEF After
<1>6. CASE Kind[c] = "complete"
  <2>1. (status = "ok" /\ stage' = [stage EXCEPT ![a] = "uploaded"]) \/ Aborts(a, rest)
    BY <1>2, <1>6 DEF Continues
  <2> QED BY <2>1, <1>2, <1>3, <1>6, <1>b DEF After, Fits
<1>7. CASE Kind[c] = "abort"
  <2>1. stage' = [stage EXCEPT ![a] = IF status = "ok" THEN "aborted" ELSE "failed"]
    BY <1>2, <1>7 DEF Continues
  <2> QED BY <2>1, <1>2, <1>3, <1>7 DEF After, Fits
<1> QED BY <1>3, <1>4, <1>5, <1>6, <1>7 DEF Kinds

\* How an attempt moves in one step, and on whose word.
Turn(a) ==
  \/ stage'[a] = stage[a] /\ uploadId'[a] = uploadId[a]
  \/ /\ uploadId'[a] = uploadId[a]
     /\ \/ stage[a] = "idle" /\ stage'[a] \in {"creating", "failed"}
        \/ stage[a] = "creating" /\ stage'[a] = "failed"
        \/ stage[a] = "sending" /\ stage'[a] \in {"completing", "aborting", "failed"}
        \/ stage[a] = "completing" /\ stage'[a] \in {"aborting", "failed"}
        \/ stage[a] = "completing" /\ stage'[a] = "uploaded" /\ Confirmed(a, "complete")
        \/ stage[a] = "aborting" /\ stage'[a] = "failed"
        \/ stage[a] = "aborting" /\ stage'[a] = "aborted" /\ Confirmed(a, "abort")
  \/ /\ stage[a] = "creating" /\ stage'[a] \in {"sending", "completing", "failed"}
     /\ uploadId'[a] \in issued /\ \E c \in Requests(a, "create") : SaysOk(c, uploadId'[a])

\* The store and the answers, while the browser acts.
BrowserActs ==
  /\ UNCHANGED <<issued, memory, calls, results, dirs, ages, reclaimed, completed>>
  /\ Range(toClient') \subseteq Range(toClient)

\* A browser acts on an answer that it was given, or on its own; else it does nothing.
LEMMA BrowserTurns ==
  ASSUME ApiInv, [Next]_vars, NEW a \in Attempt
  PROVE  /\ Turn(a)
         /\ BrowserActs \/ UNCHANGED clientVars
<1>t. BrowserTypes /\ PendingFits /\ NamesIssued /\ ServerTypes /\ issued \subseteq Upload
  BY TypeParts DEF ApiInv, UploadTypeOK
<1>p. Range(pending) \subseteq Call
  BY <1>t, RangeOfSeq DEF BrowserTypes
<1>0. ASSUME UNCHANGED clientVars PROVE Turn(a)
  BY <1>0 DEF clientVars, Turn
<1>c. ASSUME NEW c \in Range(pending), NEW status, NEW u, Continues(c, status, u, Without(c)),
             status = "ok" => u \in issued /\ SaysOk(c, u)
      PROVE  Turn(a)
  <2>1. PICK next : stage' = [stage EXCEPT ![Owner[c]] = next] /\ After(Kind[c], status, stage[Owner[c]], next)
    BY <1>c, <1>t, ContinuesAfter
  <2>2. uploadId' = IF Kind[c] = "create" /\ status = "ok" THEN [uploadId EXCEPT ![Owner[c]] = u] ELSE uploadId
    BY <1>c DEF Continues
  <2>3. CASE a # Owner[c]
    <3>1. stage'[a] = stage[a] /\ uploadId'[a] = uploadId[a]
      BY <2>1, <2>2, <2>3, <1>t DEF BrowserTypes
    <3> QED BY <3>1 DEF Turn
  <2>4. CASE a = Owner[c]
    <3>1. stage'[a] = next /\ After(Kind[c], status, stage[a], next)
      BY <2>1, <2>4, <1>t DEF BrowserTypes
    <3>2. /\ Kind[c] = "create" /\ status = "ok" => uploadId'[a] = u
          /\ ~(Kind[c] = "create" /\ status = "ok") => uploadId'[a] = uploadId[a]
      BY <2>2, <2>4, <1>t DEF BrowserTypes
    <3>3. c \in Requests(a, Kind[c]) /\ (status = "ok" => u \in Upload)
      BY <2>4, <1>p, <1>c, <1>t DEF Requests
    <3>4. status = "ok" => Confirmed(a, Kind[c])
      BY <3>3, <1>c DEF Confirmed
    <3>5. CASE Kind[c] = "create" /\ status = "ok"
      <4>1. stage[a] = "creating" /\ stage'[a] \in {"sending", "completing", "failed"}
        BY <3>1, <3>5 DEF After
      <4>2. uploadId'[a] \in issued /\ \E d \in Requests(a, "create") : SaysOk(d, uploadId'[a])
        BY <3>2, <3>3, <3>5, <1>c
      <4> QED BY <4>1, <4>2 DEF Turn
    <3>6. CASE ~(Kind[c] = "create" /\ status = "ok")
      BY <3>1, <3>2, <3>4, <3>6 DEF Turn, After
    <3> QED BY <3>5, <3>6
  <2> QED BY <2>3, <2>4
<1>1. ASSUME NEW b \in Attempt, Attach(b) PROVE Turn(a) /\ BrowserActs
  <2>1. stage[b] = "idle" /\ \E next \in {"creating", "failed"} : stage' = [stage EXCEPT ![b] = next]
    BY <1>1 DEF Attach, Requested, Dropped
  <2>2. UNCHANGED <<uploadVars, uploadId, toClient, completed>>
    BY <1>1 DEF Attach, serverVars
  <2>3. Turn(a)
    BY <2>1, <2>2, <1>t DEF Turn, BrowserTypes
  <2> QED BY <2>2, <2>3 DEF BrowserActs, uploadVars, storeVars, disk
<1>2. ASSUME NEW b \in Attempt, Prompt(b) PROVE UNCHANGED clientVars
  BY <1>2 DEF Prompt
<1>3. CASE HandleFrame
  <2>1. toClient # <<>> /\ toClient' = Tail(toClient) /\ UNCHANGED <<uploadVars, completed>>
    BY <1>3 DEF HandleFrame, serverVars
  <2>2. PICK x : x = Head(toClient)
    OBVIOUS
  <2>3. x \in Answers /\ x \in Range(toClient) /\ Range(toClient') \subseteq Range(toClient)
    BY <2>1, <2>2, <1>t, TailRange DEF ServerTypes
  <2>4. BrowserActs
    BY <2>1, <2>3 DEF BrowserActs, uploadVars, storeVars, disk
  <2>5. CASE x.call \in Range(pending)
    <3>1. Continues(x.call, x.status, x.upload, Without(x.call))
      BY <1>3, <2>2, <2>5 DEF HandleFrame
    <3>2. x.status = "ok" => x.upload \in issued /\ SaysOk(x.call, x.upload)
      BY <2>3, <1>t DEF NamesIssued, SaysOk, Told
    <3>3. PICK c, s, u : c = x.call /\ s = x.status /\ u = x.upload
      OBVIOUS
    <3> QED BY <3>1, <3>2, <3>3, <2>4, <2>5, <1>c
  <2>6. CASE x.call \notin Range(pending)
    <3>1. UNCHANGED clientVars
      BY <1>3, <2>2, <2>6 DEF HandleFrame
    <3> QED BY <3>1, <2>4, <1>0
  <2> QED BY <2>5, <2>6
<1>4. ASSUME NEW c \in Call, RequestTimesOut(c) PROVE Turn(a) /\ BrowserActs
  <2>1. /\ c \in Range(pending) /\ Continues(c, "error", Nothing, Without(c))
        /\ UNCHANGED <<uploadVars, toClient, completed>>
    BY <1>4 DEF RequestTimesOut, serverVars
  <2> QED BY <2>1, <1>c DEF BrowserActs, uploadVars, storeVars, disk
<1>5. ASSUME \/ \E c \in Call : Answer(c)
             \/ Drop \/ Reconnect \/ BackendRestarts \/ Accept \/ StoreStep \/ UNCHANGED vars
      PROVE  UNCHANGED clientVars
  BY <1>5 DEF Answer, Drop, Reconnect, BackendRestarts, Accept, StoreStep, vars
<1> QED BY <1>0, <1>1, <1>2, <1>3, <1>4, <1>5 DEF Next

\* Nothing is said but what an execution found, or a refusal.
LEMMA TellsOnly ==
  ASSUME ApiInv, [Next]_vars
  PROVE  /\ \A x \in Told' : \/ x \in Told
                             \/ x.call \in Range(toServer) /\ x.status = "error"
                             \/ ~IsIdle(x.call) /\ x.status = results[x.call].status /\ x.upload = results[x.call].upload
         /\ Range(toServer') \subseteq Range(toServer) \cup Range(pending')
<1>t. BrowserTypes /\ PendingFits /\ ServerTypes
  BY TypeParts DEF ApiInv
<1>e. Range(<<>>) = {}
  BY DEF Range
<1> DEFINE Good == /\ \A x \in Told' : \/ x \in Told
                                       \/ x.call \in Range(toServer) /\ x.status = "error"
                                       \/ /\ ~IsIdle(x.call) /\ x.status = results[x.call].status
                                          /\ x.upload = results[x.call].upload
                   /\ Range(toServer') \subseteq Range(toServer) \cup Range(pending')
<1>0. ASSUME UNCHANGED completed, Range(toClient') \subseteq Range(toClient),
             Range(toServer') \subseteq Range(toServer) \cup Range(pending')
      PROVE  Good
  BY <1>0 DEF Told
<1>1. ASSUME NEW a \in Attempt, Attach(a) PROVE Good
  <2>1. PICK next, new : Moves(a, next, new, Range(pending))
    BY <1>1, <1>t, AttachMoves
  <2> QED BY <1>1, <2>1, <1>0 DEF Attach, Moves, serverVars
<1>2. ASSUME NEW a \in Attempt, Prompt(a) PROVE Good
  BY <1>2, <1>0 DEF Prompt, linkVars, serverVars
<1>c. ASSUME NEW c \in Range(pending), NEW status, NEW u, Continues(c, status, u, Without(c))
      PROVE  Range(toServer') \subseteq Range(toServer) \cup Range(pending')
  <2>1. PICK next, new : Outcome(c, status, next, new)
    BY <1>c, <1>t, ContinuesMoves
  <2> QED BY <2>1 DEF Outcome, Moves
<1>3. CASE HandleFrame
  <2>1. toClient # <<>> /\ toClient' = Tail(toClient) /\ UNCHANGED completed
    BY <1>3 DEF HandleFrame, serverVars
  <2>2. PICK x : x = Head(toClient)
    OBVIOUS
  <2>3. Range(toClient') \subseteq Range(toClient)
    BY <2>1, <1>t, TailRange DEF ServerTypes
  <2>4. CASE x.call \in Range(pending)
    <3>1. PICK c, s, u : c = x.call /\ s = x.status /\ u = x.upload
      OBVIOUS
    <3>2. Continues(c, s, u, Without(c))
      BY <1>3, <2>2, <2>4, <3>1 DEF HandleFrame
    <3> QED BY <3>1, <3>2, <2>1, <2>3, <2>4, <1>0, <1>c
  <2>5. CASE x.call \notin Range(pending)
    <3>1. UNCHANGED toServer
      BY <1>3, <2>2, <2>5 DEF HandleFrame
    <3> QED BY <3>1, <2>1, <2>3, <1>0
  <2> QED BY <2>4, <2>5
<1>4. ASSUME NEW c \in Call, RequestTimesOut(c) PROVE Good
  BY <1>4, <1>0, <1>c DEF RequestTimesOut, serverVars
<1>5. ASSUME NEW c \in Call, Answer(c) PROVE Good
  <2>1. PICK x : x = [call |-> c, status |-> results[c].status, upload |-> results[c].upload]
    OBVIOUS
  <2>2. x \in Answers /\ x.call = c /\ x.status = results[c].status /\ x.upload = results[c].upload
    BY <1>5, <2>1, ResultAnswers
  <2>3. /\ Remembered(x) /\ results[c] # NoResult /\ toServer' = toServer
        /\ toClient' = Append(toClient, x) \/ toClient' = toClient
    BY <1>5, <2>1 DEF Answer, Forget
  <2>4. Range(completed') \subseteq Range(completed) \cup {x}
    BY <2>2, <2>3, <1>t, RememberedKeeps DEF ServerTypes
  <2>5. Range(toClient') \subseteq Range(toClient) \cup {x}
    <3>1. Range(Append(toClient, x)) = Range(toClient) \cup {x}
      BY <2>2, <1>t, AppendRange DEF ServerTypes
    <3> QED BY <3>1, <2>3
  <2>6. ~IsIdle(c)
    BY <2>3 DEF IsIdle
  <2> QED BY <2>2, <2>3, <2>4, <2>5, <2>6 DEF Told
<1>6. CASE Drop \/ BackendRestarts
  <2>1. toServer' = <<>> /\ toClient' = <<>> /\ (completed' = completed \/ completed' = <<>>)
    BY <1>6 DEF Drop, BackendRestarts
  <2> QED BY <2>1, <1>e DEF Told
<1>7. CASE Reconnect
  BY <1>7, <1>0 DEF Reconnect, clientVars, serverVars
<1>8. CASE Accept
  <2>1. PICK c \in Call : /\ c = Head(toServer)
                          /\ AnswersFromCache(c) \/ JoinsExecution(c) \/ RefusesRequest(c) \/ Executes(c)
    BY <1>8, TakenUp
  <2>2. c \in Range(toServer) /\ Range(toServer') \subseteq Range(toServer)
    BY <1>8, <2>1, <1>t, TailRange DEF Accept, BrowserTypes
  <2>a. ASSUME NEW x \in Answers, toClient' = Append(toClient, x), UNCHANGED completed,
               x \in Told \/ (x.call = c /\ x.status = "error")
        PROVE  Good
    <3>1. Range(toClient') = Range(toClient) \cup {x}
      BY <2>a, <1>t, AppendRange DEF ServerTypes
    <3> QED BY <3>1, <2>a, <2>2 DEF Told
  <2>3. CASE AnswersFromCache(c)
    <3>1. PICK i \in DOMAIN completed : toClient' = Append(toClient, completed[i])
      BY <2>3 DEF AnswersFromCache, Cached
    <3>2. completed[i] \in Answers /\ completed[i] \in Range(completed)
      BY <1>t, LenProperties, ElementOfSeq DEF ServerTypes, Range
    <3> QED BY <3>1, <3>2, <2>3, <2>a DEF AnswersFromCache, serverVars, Told
  <2>4. CASE RefusesRequest(c)
    <3> DEFINE x == [call |-> c, status |-> "error", upload |-> Nothing]
    <3>1. x \in Answers /\ x.call = c /\ x.status = "error"
      BY DEF Answers
    <3>2. toClient' = Append(toClient, x) /\ UNCHANGED completed
      BY <2>4 DEF RefusesRequest, serverVars
    <3> HIDE DEF x
    <3> QED BY <3>1, <3>2, <2>a
  <2>5. CASE JoinsExecution(c) \/ Executes(c)
    BY <2>2, <2>5, <1>0 DEF JoinsExecution, Executes
  <2> QED BY <2>1, <2>3, <2>4, <2>5
<1>9. CASE StoreStep \/ UNCHANGED vars
  BY <1>9, <1>0 DEF StoreStep, vars, linkVars, serverVars
<1> QED BY <1>1, <1>2, <1>3, <1>4, <1>5, <1>6, <1>7, <1>8, <1>9 DEF Next

\* A request is executed.
Taken(c) == Executes(c) /\ CallBegins(c) /\ Dispatch(c) /\ c \in Range(toServer)

\* What a step does to the calls: the browser and the connection leave them alone, a restart ends
\* them, a request that is executed begins one.
LEMMA CallsOnly ==
  ASSUME ApiInv, [Next]_vars
  PROVE  \/ UNCHANGED <<calls, results>>
         \/ calls' = [c \in Call |-> Idle] /\ results' = [c \in Call |-> NoResult]
         \/ UNCHANGED calls /\ \E c \in Call : results' = [results EXCEPT ![c] = NoResult]
         \/ \E c \in Call : Taken(c)
         \/ (\E c \in Call : CallStep(c)) \/ WriteStep
<1>t. toServer \in Seq(Call)
  BY DEF ApiInv, TypeOK
<1>1. CASE (\E a \in Attempt : Attach(a) \/ Prompt(a)) \/ HandleFrame \/ (\E c \in Call : RequestTimesOut(c))
  BY <1>1 DEF Attach, Prompt, HandleFrame, RequestTimesOut, Refer, uploadVars, storeVars
<1>2. CASE Drop \/ Reconnect \/ UNCHANGED vars
  BY <1>2 DEF Drop, Reconnect, vars, uploadVars, storeVars
<1>3. CASE BackendRestarts
  BY <1>3 DEF BackendRestarts, Restart
<1>4. CASE \E c \in Call : Answer(c)
  BY <1>4 DEF Answer, Forget
<1>5. CASE Accept
  <2>1. PICK c \in Call : /\ c = Head(toServer)
                          /\ AnswersFromCache(c) \/ JoinsExecution(c) \/ RefusesRequest(c)
                               \/ (Executes(c) /\ CallBegins(c))
    BY <1>5, TakenUp
  <2>2. c \in Range(toServer)
    BY <1>5, <2>1, <1>t, TailRange DEF Accept
  <2>3. CASE Executes(c) /\ CallBegins(c)
    BY <2>2, <2>3 DEF Executes, Taken
  <2> QED BY <2>1, <2>3 DEF AnswersFromCache, JoinsExecution, RefusesRequest, uploadVars, storeVars
<1>6. CASE StoreStep
  BY <1>6 DEF StoreStep, TimeGoesBy, DeleteSession
<1> QED BY <1>1, <1>2, <1>3, <1>4, <1>5, <1>6 DEF Next

\* A call that goes on is for what it was for; only a create takes another upload, a new one or
\* one that it has marked as reclaimed.
GoesOn(c) ==
  /\ calls'[c].method = calls[c].method
  /\ calls[c].method # "create" => calls'[c].upload = calls[c].upload
  /\ calls'[c].at \notin {"writing", "joining"}
  /\ calls'[c].at = "sweeping" /\ calls'[c].upload # Nothing => calls'[c].upload \in reclaimed'
  /\ calls'[c].at = "making" /\ calls'[c].upload # Nothing => calls'[c].upload \notin issued

\* A step of a call changes this call only.
LEMMA CallStepEffect ==
  ASSUME UploadTypeOK, NEW c \in Call, CallStep(c)
  PROVE  /\ calls[c] \in Running
         /\ \A d \in Call \ {c} : calls'[d] = calls[d] /\ results'[d] = results[d]
         /\ calls'[c] # Idle => GoesOn(c)
<1>t. calls \in [Call -> Running \cup {Idle}] /\ results \in [Call -> Results]
  BY DEF UploadTypeOK
<1>r. calls[c].at \in Places => calls[c] \in Running
  BY <1>t DEF Idle, Places
<1>1. ASSUME NEW u \in Upload, SweepBegins(c, u)
      PROVE  /\ calls[c] \in Running
             /\ \A d \in Call \ {c} : calls'[d] = calls[d] /\ results'[d] = results[d]
             /\ GoesOn(c)
  <2>1. calls[c] \in Running /\ calls[c].method = "create" /\ calls[c].at = "sweeping" /\ calls[c].upload = Nothing
    BY <1>1, <1>r DEF SweepBegins, IsAt, Places
  <2>2. results' = results
    BY <1>1 DEF SweepBegins
  <2>3. \/ /\ reclaimed' = reclaimed \cup {u}
           /\ \E left : calls' = [calls EXCEPT ![c].upload = u, ![c].left = left]
        \/ calls' = [calls EXCEPT ![c].expired = @ \ {u}]
    BY <1>1 DEF SweepBegins
  <2>4. CASE reclaimed' = reclaimed \cup {u} /\ \E left : calls' = [calls EXCEPT ![c].upload = u, ![c].left = left]
    <3>1. /\ calls'[c].method = "create" /\ calls'[c].at = "sweeping" /\ calls'[c].upload = u
          /\ \A d \in Call \ {c} : calls'[d] = calls[d]
      BY <2>1, <2>4, <1>t DEF Running
    <3> QED BY <2>1, <2>2, <2>4, <3>1 DEF GoesOn
  <2>5. CASE calls' = [calls EXCEPT ![c].expired = @ \ {u}]
    <3>1. /\ calls'[c].method = "create" /\ calls'[c].at = "sweeping" /\ calls'[c].upload = Nothing
          /\ \A d \in Call \ {c} : calls'[d] = calls[d]
      BY <2>1, <2>5, <1>t DEF Running
    <3> QED BY <2>1, <2>2, <3>1 DEF GoesOn
  <2> QED BY <2>3, <2>4, <2>5
<1>2. CASE SweepEnds(c)
  <2>1. /\ calls[c] \in Running /\ calls[c].method = "create" /\ calls[c].at = "sweeping" /\ results' = results
        /\ calls' = [calls EXCEPT ![c].upload = Nothing, ![c].expired = @ \ {calls[c].upload}]
    BY <1>2, <1>r DEF SweepEnds, IsAt, Places
  <2>2. /\ calls'[c].method = "create" /\ calls'[c].at = "sweeping" /\ calls'[c].upload = Nothing
        /\ \A d \in Call \ {c} : calls'[d] = calls[d]
    BY <2>1, <1>t DEF Running
  <2> QED BY <2>1, <2>2 DEF GoesOn
<1>3. ASSUME NEW u \in Upload, CreateMakes(c, u)
      PROVE  /\ calls[c] \in Running
             /\ \A d \in Call \ {c} : calls'[d] = calls[d] /\ results'[d] = results[d]
             /\ GoesOn(c)
  <2>1. /\ calls[c] \in Running /\ calls[c].method = "create" /\ calls[c].at = "making" /\ results' = results
        /\ calls' = [calls EXCEPT ![c].upload = u] /\ u \notin issued
    BY <1>3, <1>r DEF CreateMakes, IsAt, Places
  <2>2. /\ calls'[c].method = "create" /\ calls'[c].at = "making" /\ calls'[c].upload = u
        /\ \A d \in Call \ {c} : calls'[d] = calls[d]
    BY <2>1, <1>t DEF Running
  <2> QED BY <2>1, <2>2 DEF GoesOn
<1>4. ASSUME \/ (\E s \in {"ok", "error"} : \E u : Ends(c, s, u))
             \/ (calls[c].method = "create" /\ Waits(c, "create", Nothing, Nothing, "making", {}))
             \/ (calls[c].method = "complete" /\ Waits(c, "complete", calls[c].upload, Nothing, "reading", {}))
      PROVE  /\ \A d \in Call \ {c} : calls'[d] = calls[d] /\ results'[d] = results[d]
             /\ calls'[c] # Idle => GoesOn(c)
  BY <1>4, <1>t DEF Ends, Waits, GoesOn
<1>5. CASE CreateChecks(c) \/ CreateFinishes(c) \/ CompleteReads(c) \/ CompleteFinishes(c) \/ AbortRemoves(c)
  <2>1. calls[c].at \in Places
    BY <1>5 DEF CreateChecks, CreateFinishes, CompleteReads, CompleteFinishes, AbortRemoves, IsAt, Places
  <2>2. \/ (\E s \in {"ok", "error"} : \E u : Ends(c, s, u))
        \/ (calls[c].method = "create" /\ Waits(c, "create", Nothing, Nothing, "making", {}))
        \/ (calls[c].method = "complete" /\ Waits(c, "complete", calls[c].upload, Nothing, "reading", {}))
    BY <1>5 DEF CreateChecks, CreateFinishes, CompleteReads, CompleteFinishes, AbortRemoves, IsAt
  <2> QED BY <2>1, <2>2, <1>4, <1>r
<1> QED BY <1>1, <1>2, <1>3, <1>5 DEF CallStep

\* The end of a write changes of a call only what it waits for, or ends it.
LEMMA WriteStepEffect ==
  ASSUME UploadTypeOK, WriteStep, NEW c \in Call
  PROVE  /\ calls'[c] # Idle => /\ calls'[c].method = calls[c].method /\ calls'[c].upload = calls[c].upload
                                /\ calls'[c].at = calls[c].at /\ calls[c] # Idle
         /\ results'[c] # results[c] => calls[c] # Idle
         /\ results'[c] # results[c] /\ results'[c].status = "ok" => calls[c].at \in {"writing", "joining"}
<1>t. calls \in [Call -> Running \cup {Idle}] /\ results \in [Call -> Results]
  BY DEF UploadTypeOK
<1>1. PICK u \in Upload, k \in Chunk : WriteSucceeds(u, k) \/ WriteFails(u, k)
  BY DEF WriteStep
<1>2. /\ OnChunk(c, u, k) => calls[c].at \in {"writing", "joining"} /\ calls[c] # Idle
      /\ AwaitsChunk(c, u, k) => calls[c] \in Running
      /\ Rejected(c, u, k) => calls[c] # Idle
  BY <1>t DEF OnChunk, AwaitsChunk, Rejected, Idle
<1>3. /\ \/ calls'[c] = Idle \/ calls'[c] = calls[c]
         \/ AwaitsChunk(c, u, k) /\ calls'[c] = [calls[c] EXCEPT !.left = @ \ {k}]
      /\ \/ results'[c] = results[c]
         \/ OnChunk(c, u, k)
         \/ Rejected(c, u, k) /\ results'[c].status = "error"
  <2>1. CASE WriteSucceeds(u, k)
    BY <2>1 DEF WriteSucceeds
  <2>2. CASE WriteFails(u, k)
    BY <2>2 DEF WriteFails
  <2> QED BY <1>1, <2>1, <2>2
<1>4. ASSUME AwaitsChunk(c, u, k), calls'[c] = [calls[c] EXCEPT !.left = @ \ {k}]
      PROVE  /\ calls'[c].method = calls[c].method /\ calls'[c].upload = calls[c].upload
             /\ calls'[c].at = calls[c].at /\ calls[c] # Idle
  BY <1>2, <1>4 DEF Running, Idle
<1> QED BY <1>2, <1>3, <1>4

\* A request that is executed begins a call for it, on the upload of its attempt.
Begun(c) ==
  /\ c \in Range(toServer) /\ IsIdle(c)
  /\ calls'[c].method = Kind[c]
  /\ Kind[c] # "create" => calls'[c].upload = uploadId[Owner[c]]
  /\ calls'[c].at \in {"writing", "joining"} => Kind[c] = "append"
  /\ calls'[c].at # "making"
  /\ calls'[c].at = "sweeping" => calls'[c].upload = Nothing

\* No other call changes.
LEMMA TakenEffect ==
  ASSUME UploadTypeOK, NEW c \in Call, Taken(c)
  PROVE  /\ \A d \in Call \ {c} : calls'[d] = calls[d] /\ results'[d] = results[d]
         /\ calls'[c] # Idle => Begun(c)
         /\ c \in Range(toServer) /\ IsIdle(c)
<1>t. calls \in [Call -> Running \cup {Idle}] /\ results \in [Call -> Results]
  BY DEF UploadTypeOK
<1>1. c \in Range(toServer) /\ IsIdle(c) /\ Dispatch(c) /\ CallBegins(c)
  BY DEF Taken, CallBegins
<1>2. PICK u : u = uploadId[Owner[c]]
  OBVIOUS
<1>3. Kind[c] \in Kinds
  BY DEF Kinds
<1>4. \A d \in Call \ {c} : calls'[d] = calls[d] /\ results'[d] = results[d]
  BY <1>1, BeginsOne
<1>5. CASE Kind[c] = "create"
  <2>1. CreateBegins(c)
    BY <1>1, <1>5 DEF Dispatch
  <2>2. calls'[c] = [method |-> "create", upload |-> Nothing, chunk |-> Nothing, at |-> "sweeping",
                     expired |-> tracked \cap stale, left |-> {}]
    BY <2>1, <1>t DEF CreateBegins
  <2>3. Begun(c)
    BY <2>2, <1>1, <1>5 DEF Begun
  <2> QED BY <2>3, <1>1, <1>4
<1>6. CASE Kind[c] # "create"
  <2>1. \/ (\E s \in {"ok", "error"} : \E v : Ends(c, s, v))
        \/ \E k, left : \/ Kind[c] = "append" /\ Waits(c, "append", u, k, "writing", left)
                        \/ Kind[c] = "append" /\ Waits(c, "append", u, k, "joining", left)
                        \/ Kind[c] = "complete" /\ Waits(c, "complete", u, k, "settling", left)
                        \/ Kind[c] = "abort" /\ Waits(c, "abort", u, k, "settling", left)
                        \/ Kind[c] = "abort" /\ Waits(c, "abort", u, k, "removing", left)
    <3>1. CASE Kind[c] = "append"
      <4>1. AppendBegins(c, u, Part[c])
        BY <1>1, <1>2, <3>1 DEF Dispatch
      <4> QED BY <4>1, <3>1 DEF AppendBegins, Fails
    <3>2. CASE Kind[c] = "complete"
      <4>1. CompleteBegins(c, u)
        BY <1>1, <1>2, <3>2 DEF Dispatch
      <4> QED BY <4>1, <3>2 DEF CompleteBegins
    <3>3. CASE Kind[c] = "abort"
      <4>1. AbortBegins(c, u)
        BY <1>1, <1>2, <3>3 DEF Dispatch
      <4> QED BY <4>1, <3>3 DEF AbortBegins
    <3> QED BY <1>3, <1>6, <3>1, <3>2, <3>3 DEF Kinds
  <2>2. ASSUME NEW s, NEW v, Ends(c, s, v) PROVE calls'[c] = Idle
    BY <2>2, <1>t DEF Ends
  <2>3. ASSUME NEW m, NEW k, NEW at, NEW left, Waits(c, m, u, k, at, left)
        PROVE  calls'[c].method = m /\ calls'[c].upload = u /\ calls'[c].at = at
    BY <2>3, <1>t DEF Waits
  <2>4. \/ calls'[c] = Idle
        \/ /\ calls'[c].method = Kind[c] /\ calls'[c].upload = u
           /\ calls'[c].at \in {"writing", "joining"} => Kind[c] = "append"
           /\ calls'[c].at \in {"writing", "joining", "settling", "removing"}
    BY <2>1, <2>2, <2>3
  <2> QED BY <2>4, <1>1, <1>2, <1>4 DEF Begun
<1> QED BY <1>5, <1>6

\* What comes of the calls in one step.
LEMMA CallsFollow ==
  ASSUME ApiInv, [Next]_vars, NEW c \in Call
  PROVE  /\ calls'[c] # Idle =>
              \/ /\ calls[c] # Idle /\ calls'[c].method = calls[c].method /\ calls'[c].upload = calls[c].upload
                 /\ calls'[c].at = calls[c].at
              \/ Begun(c)
              \/ calls[c] # Idle /\ GoesOn(c) /\ \A d \in Call \ {c} : calls'[d] = calls[d]
         /\ ~IsIdle(c)' => ~IsIdle(c) \/ c \in Range(toServer)
<1>t. UploadTypeOK /\ calls \in [Call -> Running \cup {Idle}] /\ results \in [Call -> Results]
  BY DEF ApiInv, TypeOK, UploadTypeOK
<1>i. Idle \notin Running
  BY DEF Idle, Running
<1>1. CASE UNCHANGED <<calls, results>>
  BY <1>1 DEF IsIdle
<1>2. CASE calls' = [d \in Call |-> Idle] /\ results' = [d \in Call |-> NoResult]
  BY <1>2 DEF IsIdle
<1>3. CASE UNCHANGED calls /\ \E d \in Call : results' = [results EXCEPT ![d] = NoResult]
  BY <1>3, <1>t DEF IsIdle
<1>4. ASSUME NEW d \in Call, Taken(d)
      PROVE  /\ calls'[c] # Idle => (calls'[c] = calls[c] \/ Begun(c))
             /\ ~IsIdle(c)' => ~IsIdle(c) \/ c \in Range(toServer)
  BY <1>4, <1>t, TakenEffect DEF IsIdle
<1>5. ASSUME NEW d \in Call, CallStep(d)
      PROVE  /\ calls'[c] # Idle => \/ calls'[c] = calls[c]
                                    \/ calls[c] # Idle /\ GoesOn(c) /\ \A e \in Call \ {c} : calls'[e] = calls[e]
             /\ ~IsIdle(c)' => ~IsIdle(c)
  BY <1>5, <1>t, <1>i, CallStepEffect DEF IsIdle
<1>6. CASE WriteStep
  BY <1>6, <1>t, WriteStepEffect DEF IsIdle
<1> QED BY <1>1, <1>2, <1>3, <1>4, <1>5, <1>6, CallsOnly

\* A request that comes to life is one that the browser makes.
LEMMA AliveOnly ==
  ASSUME ApiInv, [Next]_vars, NEW c \in Call, Alive(c)'
  PROVE  Alive(c) \/ c \in Range(pending')
<1>1. ASSUME NEW x \in Told', x.call = c PROVE Alive(c)
  <2>1. x \in Told \/ x.call \in Range(toServer) \/ ~IsIdle(x.call)
    BY TellsOnly
  <2> QED BY <2>1, <1>1 DEF Alive
<1>2. c \in Range(toServer') => Alive(c) \/ c \in Range(pending')
  BY TellsOnly DEF Alive
<1>3. ~IsIdle(c)' => Alive(c)
  BY CallsFollow DEF Alive
<1> QED BY <1>1, <1>2, <1>3 DEF Alive

\* An execution that ends well has done what it says.
LEMMA GoodResults ==
  ASSUME ApiInv, CallsFit, [Next]_vars, NEW c \in Call, results'[c] # results[c], results'[c].status = "ok"
  PROVE  /\ Kind[c] = "create" => Makes(c, results'[c].upload) /\ calls'[c] = Idle
         /\ Kind[c] = "complete" => Settled(uploadId[Owner[c]])'
         /\ Kind[c] = "abort" => dirs'[uploadId[Owner[c]]].manifest # "active"
<1>t. UploadTypeOK /\ calls \in [Call -> Running \cup {Idle}] /\ results \in [Call -> Results] /\ BrowserTypes
      /\ dirs \in [Upload -> Directories] /\ tracked \subseteq Upload
  BY TypeParts DEF ApiInv, UploadTypeOK
<1>w. CompletedIsWhole /\ CompletedIsWhole' /\ UploadTypeOK'
  BY StepImplements, StoreKept DEF ApiInv, StoreInv, UploadInv
<1>n. NoResult.status # "ok"
  BY DEF NoResult
<1>e. ASSUME NEW s, NEW v, Ends(c, s, v) PROVE results'[c].status = s /\ results'[c].upload = v /\ calls'[c] = Idle
  BY <1>e, <1>t DEF Ends
<1>1. ASSUME NEW d \in Call, Taken(d)
      PROVE  /\ Kind[c] # "create"
             /\ Kind[c] = "complete" => Settled(uploadId[Owner[c]])'
             /\ Kind[c] = "abort" => dirs'[uploadId[Owner[c]]].manifest # "active"
  <2>1. d = c
    BY <1>1, <1>t, TakenEffect
  <2>2. Dispatch(c)
    BY <1>1, <2>1, <1>t DEF Taken
  <2>u. UNCHANGED clientVars
    <3>1. UNCHANGED clientVars \/ UNCHANGED <<calls, results>>
      BY BrowserTurns DEF BrowserActs
    <3> QED BY <3>1
  <2>3. PICK u : u = uploadId[Owner[c]]
    OBVIOUS
  <2>4. Kind[c] # "create"
    <3>1. CreateBegins(c) => results' = results
      BY DEF CreateBegins
    <3> QED BY <3>1, <2>2 DEF Dispatch
  <2>5. ASSUME Kind[c] \in {"complete", "abort"} PROVE u \in issued /\ u \in Upload
    <3>1. c \in Range(toServer)
      BY <1>1, <2>1 DEF Taken
    <3> QED BY <3>1, <2>3, <2>5, <1>t DEF ApiInv, NamesIssued, UploadTypeOK
  <2>6. CASE Kind[c] = "complete"
    <3>1. CompleteBegins(c, u)
      BY <2>2, <2>3, <2>6 DEF Dispatch
    <3>2. u \notin tracked /\ dirs[u].manifest = "completed" /\ tracked' = tracked /\ dirs' = dirs
      BY <3>1, <1>e DEF CompleteBegins, memory, disk, Waits
    <3>3. Settled(u)'
      BY <3>2, <2>5, <2>6, <1>w DEF Settled, Whole, CompletedIsWhole
    <3>4. uploadId'[Owner[c]] = u
      BY <2>u, <2>3 DEF clientVars
    <3> QED BY <3>3, <3>4, <2>6
  <2>7. CASE Kind[c] = "abort"
    <3>1. AbortBegins(c, u)
      BY <2>2, <2>3, <2>7 DEF Dispatch
    <3>2. dirs[u].manifest # "active" /\ dirs' = dirs
      BY <3>1, <1>e DEF AbortBegins, disk, Waits
    <3> QED BY <3>2, <2>3, <2>7
  <2> QED BY <2>4, <2>6, <2>7
<1>2. ASSUME NEW d \in Call, CallStep(d)
      PROVE  /\ Kind[c] = "create" => Makes(c, results'[c].upload) /\ calls'[c] = Idle
             /\ Kind[c] = "complete" => Settled(uploadId[Owner[c]])'
             /\ Kind[c] = "abort" => dirs'[uploadId[Owner[c]]].manifest # "active"
  <2>1. d = c /\ calls[c] \in Running /\ calls[c] # Idle
    BY <1>2, <1>t, CallStepEffect DEF Running, Idle
  <2>2. CallFits(c)
    BY <2>1 DEF CallsFit
  <2>u. UNCHANGED clientVars
    <3>1. UNCHANGED clientVars \/ UNCHANGED <<calls, results>>
      BY BrowserTurns DEF BrowserActs
    <3> QED BY <3>1
  <2>3. PICK u : u = calls[c].upload
    OBVIOUS
  <2>4. results' # results
    OBVIOUS
  <2>5. CreateFinishes(c) \/ CompleteFinishes(c) \/ AbortRemoves(c)
    <3>1. ASSUME NEW v \in Upload PROVE ~SweepBegins(c, v) /\ ~CreateMakes(c, v)
      BY <2>4 DEF SweepBegins, CreateMakes
    <3>2. ~SweepEnds(c) /\ ~CreateChecks(c) /\ ~CompleteReads(c)
      BY <1>e, <2>4 DEF SweepEnds, CreateChecks, CompleteReads, Waits
    <3>3. CallStep(c)
      BY <1>2, <2>1
    <3> QED BY <3>1, <3>2, <3>3 DEF CallStep
  <2>6. CASE CreateFinishes(c)
    <3>1. IsAt(c, "create", "making") /\ Ends(c, "ok", u)
      BY <2>3, <2>6, <1>e DEF CreateFinishes
    <3>2. Makes(c, results'[c].upload) /\ calls'[c] = Idle /\ calls[c].method = "create"
      BY <3>1, <2>3, <1>e DEF Makes, IsAt
    <3> QED BY <3>2, <2>2 DEF CallFits
  <2>7. CASE CompleteFinishes(c)
    <3>1. calls[c].method = "complete" /\ u \in Upload
      BY <2>3, <2>7 DEF CompleteFinishes, IsAt, ApiInv, StoreInv, UploadInv, CompletesAnUpload
    <3>2. dirs' = [dirs EXCEPT ![u].manifest = "completed"] /\ tracked' = tracked \ {u}
      BY <2>3, <2>7, <1>e DEF CompleteFinishes
    <3>3. dirs'[u].manifest = "completed"
      BY <3>1, <3>2, <1>t DEF Directories
    <3>4. Settled(u)'
      BY <3>1, <3>2, <3>3, <1>w DEF Settled, Whole, CompletedIsWhole
    <3>5. Kind[c] = "complete" /\ uploadId'[Owner[c]] = u
      BY <3>1, <2>2, <2>3, <2>u DEF CallFits, clientVars
    <3> QED BY <3>4, <3>5
  <2>8. CASE AbortRemoves(c)
    <3>1. calls[c].method = "abort" /\ dirs' = [dirs EXCEPT ![u] = NoDirectory]
      BY <2>3, <2>8 DEF AbortRemoves, IsAt
    <3>2. Kind[c] = "abort" /\ uploadId[Owner[c]] = u
      BY <3>1, <2>2, <2>3 DEF CallFits
    <3>3. u \in Upload
      BY <3>1, <2>1, <2>3, <1>t DEF ApiInv, StoreInv, IssuedOnly, CallKnows, UploadTypeOK, Running
    <3>4. dirs'[u].manifest # "active"
      BY <3>1, <3>3, <1>t DEF NoDirectory
    <3> QED BY <3>2, <3>4
  <2> QED BY <2>5, <2>6, <2>7, <2>8
<1>3. CASE WriteStep
  <2>1. calls[c].at \in {"writing", "joining"}
    BY <1>3, <1>t, WriteStepEffect
  <2>2. calls[c] # Idle
    BY <2>1 DEF Idle
  <2> QED BY <2>1, <2>2 DEF CallsFit, CallFits
<1>4. CASE UNCHANGED <<calls, results>>
  BY <1>4
<1>5. CASE results' = [d \in Call |-> NoResult]
  BY <1>5, <1>n
<1>6. CASE \E d \in Call : results' = [results EXCEPT ![d] = NoResult]
  BY <1>6, <1>n, <1>t
<1> QED BY <1>1, <1>2, <1>3, <1>4, <1>5, <1>6, CallsOnly

\* What was said, or is said from now on.
LEMMA SaysOnly ==
  ASSUME ApiInv, [Next]_vars, NEW c \in Call, NEW u, SaysOk(c, u)'
  PROVE  SaysOk(c, u) \/ (results'[c] # results[c] /\ results'[c].status = "ok" /\ results'[c].upload = u)
<1>1. ASSUME NEW x \in Told', x.call = c, x.status = "ok", x.upload = u PROVE SaysOk(c, u)
  <2>1. x \in Told \/ (results[x.call].status = "ok" /\ results[x.call].upload = u)
    BY <1>1, TellsOnly
  <2> QED BY <2>1, <1>1 DEF SaysOk
<1>2. ASSUME results'[c].status = "ok", results'[c].upload = u
      PROVE  SaysOk(c, u) \/ results'[c] # results[c]
  BY <1>2 DEF SaysOk
<1> QED BY <1>1, <1>2 DEF SaysOk

\* Who says something lives.
LEMMA SaysAlive ==
  ASSUME NEW c \in Call, NEW u, SaysOk(c, u)
  PROVE  Alive(c)
BY DEF SaysOk, Alive, IsIdle, NoResult

\* What takes from an upload what makes it complete, or makes it active, is an expiry, an abort of
\* it, or the create that makes it.
LEMMA UploadKept ==
  ASSUME StoreInv, SweptIsReclaimed, [UploadNext]_storeVars, NEW u \in issued, \A c \in Call : ~Makes(c, u)
  PROVE  /\ dirs[u].manifest # "active" => dirs'[u].manifest # "active"
         /\ tracked' \cap {u} \subseteq tracked
         /\ reclaimed \subseteq reclaimed'
         /\ (\A c \in Call : ~(calls[c].method = "abort" /\ calls[c].upload = u)) =>
              /\ Settled(u) => Settled(u)'
              /\ u \in referenced /\ Whole(u) => Whole(u)' \/ u \in reclaimed'
<1>t. /\ u \in Upload /\ dirs \in [Upload -> Directories] /\ CompletedIsWhole /\ CompletedIsWhole'
      /\ calls \in [Call -> Running \cup {Idle}]
  BY StoreKept DEF StoreInv, UploadInv, UploadTypeOK
<1> DEFINE Good == /\ dirs[u].manifest # "active" => dirs'[u].manifest # "active"
                   /\ tracked' \cap {u} \subseteq tracked
                   /\ reclaimed \subseteq reclaimed'
                   /\ (\A c \in Call : ~(calls[c].method = "abort" /\ calls[c].upload = u)) =>
                        /\ Settled(u) => Settled(u)'
                        /\ u \in referenced /\ Whole(u) => Whole(u)' \/ u \in reclaimed'
<1>0. ASSUME dirs'[u] = dirs[u], u \in tracked' => u \in tracked, reclaimed \subseteq reclaimed',
             u \in aged => u \in aged' \/ u \in tracked
      PROVE  Good
  BY <1>0 DEF Settled, Whole
<1>1. ASSUME NEW c \in Call, CallBegins(c) PROVE Good
  <2>1. ASSUME NEW v \in issued, NEW k \in Chunk, AppendBegins(c, v, k) PROVE Good
    <3>1. UNCHANGED <<tracked, dirs, reclaimed>> /\ (aged' = aged \/ (v \in tracked /\ aged' = aged \ {v}))
      BY <2>1 DEF AppendBegins, Fails, memory, disk, ages
    <3> QED BY <3>1, <1>0
  <2>2. ASSUME NEW v, CreateBegins(c) \/ CompleteBegins(c, v) \/ AbortBegins(c, v) PROVE Good
    <3>1. UNCHANGED <<dirs, reclaimed, aged>> /\ tracked' \subseteq tracked
      BY <2>2 DEF CreateBegins, CompleteBegins, AbortBegins, memory, disk, ages
    <3> QED BY <3>1, <1>0
  <2> QED BY <1>1, <2>1, <2>2 DEF CallBegins
<1>2. ASSUME NEW c \in Call, CallStep(c) PROVE Good
  <2> DEFINE v == calls[c].upload
  <2>m. ~(IsAt(c, "create", "making") /\ v = u)
    BY DEF Makes
  <2>1. ASSUME NEW w \in Upload, SweepBegins(c, w) PROVE Good
    BY <2>1, <1>0 DEF SweepBegins, disk, ages
  <2>2. CASE SweepEnds(c)
    <3>1. /\ dirs' = [dirs EXCEPT ![v] = NoDirectory] /\ UNCHANGED <<tracked, reclaimed, aged>>
          /\ calls[c].at = "sweeping" /\ v # Nothing
      BY <2>2 DEF SweepEnds, memory, ages, IsAt
    <3>2. CASE v = u
      <4>1. u \in reclaimed
        BY <3>1, <3>2 DEF SweptIsReclaimed
      <4>2. dirs'[u] = NoDirectory
        BY <3>1, <3>2, <1>t
      <4> QED BY <3>1, <4>1, <4>2 DEF Settled, NoDirectory
    <3>3. CASE v # u
      <4>1. dirs'[u] = dirs[u]
        BY <3>1, <3>3, <1>t
      <4> QED BY <3>1, <4>1, <1>0
    <3> QED BY <3>2, <3>3
  <2>3. CASE CreateChecks(c)
    <3>1. /\ dirs'[u] = IF ~cleaned /\ Sweepable(u) THEN NoDirectory ELSE dirs[u]
          /\ UNCHANGED <<tracked, reclaimed, aged>>
      BY <2>3, <1>t DEF CreateChecks, ages
    <3>2. CASE Sweepable(u) /\ dirs'[u] = NoDirectory
      <4>1. ~Whole(u) \/ (u \in aged /\ u \notin referenced)
        BY <3>2 DEF Sweepable, Whole
      <4> QED BY <3>1, <3>2, <4>1 DEF Settled, NoDirectory
    <3>3. CASE dirs'[u] = dirs[u]
      BY <3>1, <3>3, <1>0
    <3> QED BY <3>1, <3>2, <3>3
  <2>4. ASSUME NEW w \in Upload, CreateMakes(c, w) PROVE Good
    <3>1. u # w /\ dirs' = [dirs EXCEPT ![w].made = TRUE] /\ UNCHANGED <<tracked, reclaimed, aged>>
      BY <2>4 DEF CreateMakes, memory, ages
    <3>2. dirs'[u] = dirs[u]
      BY <3>1, <1>t
    <3> QED BY <3>1, <3>2, <1>0
  <2>5. CASE CreateFinishes(c)
    <3>1. v # u
      BY <2>5, <2>m DEF CreateFinishes
    <3>2. dirs' = [dirs EXCEPT ![v].manifest = "active"] \/ dirs' = [dirs EXCEPT ![v] = NoDirectory]
      BY <2>5 DEF CreateFinishes
    <3>3. (tracked' = tracked \cup {v} \/ tracked' = tracked) /\ UNCHANGED <<reclaimed, aged>>
      BY <2>5 DEF CreateFinishes, ages
    <3>4. dirs'[u] = dirs[u]
      BY <3>1, <3>2, <1>t
    <3> HIDE DEF v
    <3> QED BY <3>1, <3>3, <3>4, <1>0
  <2>6. CASE CompleteReads(c)
    BY <2>6, <1>0 DEF CompleteReads, memory, disk, ages
  <2>7. CASE CompleteFinishes(c)
    <3>1. \/ /\ dirs' = [dirs EXCEPT ![v].manifest = "completed"]
             /\ tracked' = tracked \ {v} /\ aged' = aged \ {v} /\ reclaimed' = reclaimed
          \/ UNCHANGED <<dirs, tracked, aged, reclaimed>>
      BY <2>7 DEF CompleteFinishes, ages
    <3>2. CASE UNCHANGED <<dirs, tracked, aged, reclaimed>>
      BY <3>2, <1>0
    <3>3. CASE /\ dirs' = [dirs EXCEPT ![v].manifest = "completed"]
               /\ tracked' = tracked \ {v} /\ aged' = aged \ {v} /\ reclaimed' = reclaimed
      <4>1. CASE v = u
        <5>1. dirs'[u].manifest = "completed"
          BY <3>3, <4>1, <1>t DEF Directories
        <5>2. Whole(u)'
          BY <5>1, <1>t DEF Whole, CompletedIsWhole
        <5> QED BY <3>3, <4>1, <5>1, <5>2 DEF Settled
      <4>2. CASE v # u
        <5>1. dirs'[u] = dirs[u]
          BY <3>3, <4>2, <1>t
        <5> HIDE DEF v
        <5> QED BY <3>3, <4>2, <5>1, <1>0
      <4> QED BY <4>1, <4>2
    <3> QED BY <3>1, <3>2, <3>3
  <2>8. CASE AbortRemoves(c)
    <3>1. /\ dirs' = [dirs EXCEPT ![v] = NoDirectory] /\ UNCHANGED <<tracked, reclaimed, aged>>
          /\ calls[c].method = "abort"
      BY <2>8 DEF AbortRemoves, memory, ages, IsAt
    <3>2. CASE v = u
      <4>1. dirs'[u] = NoDirectory
        BY <3>1, <3>2, <1>t
      <4> QED BY <3>1, <3>2, <4>1 DEF NoDirectory
    <3>3. CASE v # u
      <4>1. dirs'[u] = dirs[u]
        BY <3>1, <3>3, <1>t
      <4> QED BY <3>1, <4>1, <1>0
    <3> QED BY <3>2, <3>3
  <2> QED BY <1>2, <2>1, <2>2, <2>3, <2>4, <2>5, <2>6, <2>7, <2>8 DEF CallStep
<1>3. ASSUME NEW v \in Upload, NEW k \in Chunk, WriteSucceeds(v, k) \/ WriteFails(v, k) PROVE Good
  <2>1. UNCHANGED <<tracked, reclaimed, aged>>
    BY <1>3 DEF WriteSucceeds, WriteFails, ages
  <2>2. dirs' = [dirs EXCEPT ![v].data = @ \cup {k}] \/ dirs' = dirs
    BY <1>3 DEF WriteSucceeds, WriteFails, disk
  <2>3. dirs'[u].manifest = dirs[u].manifest /\ (dirs'[u].data = dirs[u].data \/ dirs'[u].data = dirs[u].data \cup {k})
    BY <2>2, <1>t DEF Directories
  <2>4. Whole(u) => Whole(u)'
    BY <2>3 DEF Whole
  <2> QED BY <2>1, <2>3, <2>4 DEF Settled
<1>4. CASE UserStep \/ (\E c \in Call : Forget(c)) \/ UNCHANGED storeVars
  BY <1>4, <1>0 DEF UserStep, Refer, DeleteSession, Forget, storeVars, memory, disk, ages
<1>5. CASE TimeGoesBy
  BY <1>5, <1>0 DEF TimeGoesBy, disk
<1>6. CASE Restart
  BY <1>6, <1>0 DEF Restart, disk, ages
<1> QED BY <1>1, <1>2, <1>3, <1>4, <1>5, <1>6 DEF UploadNext, WriteStep

\* An attempt goes on.
LEMMA NothingEarlyKept ==
  ASSUME ApiInv, NothingEarly, [Next]_vars
  PROVE  NothingEarly'
<1>t. BrowserTypes /\ PendingFits'
  BY ApiInductive, TypeParts DEF ApiInv
<1> SUFFICES ASSUME NEW c \in Call, Alive(c)' PROVE stage'[Owner[c]] \notin NotYet(Kind[c])
  BY DEF NothingEarly
<1>1. PICK a : a = Owner[c] /\ a \in Attempt
  OBVIOUS
<1>2. Kind[c] \in Kinds
  BY DEF Kinds
<1>3. CASE Alive(c)
  <2>1. stage[a] \notin NotYet(Kind[c]) /\ stage[a] \in Stages
    BY <1>1, <1>3, <1>t DEF NothingEarly, BrowserTypes
  <2>2. Turn(a)
    BY <1>1, BrowserTurns
  <2> QED BY <1>1, <1>2, <2>1, <2>2 DEF Turn, NotYet, Kinds, Stages
<1>4. CASE c \in Range(pending')
  <2>1. Fits(c, stage'[a])
    BY <1>1, <1>4, <1>t DEF PendingFits
  <2> QED BY <1>1, <1>2, <2>1 DEF Fits, NotYet, Kinds
<1> QED BY <1>3, <1>4, AliveOnly

\* It has its upload from its create on.
LEMMA HasUploadKept ==
  ASSUME ApiInv, HasUpload, [Next]_vars
  PROVE  HasUpload'
<1> SUFFICES ASSUME NEW a \in Attempt
             PROVE  /\ uploadId'[a] \in issued' \cup {Nothing}
                    /\ stage'[a] \notin {"idle", "creating", "failed"} => uploadId'[a] \in issued'
  BY DEF HasUpload
<1>1. issued \subseteq issued'
  BY StepImplements, IssuedGrow
<1>2. Turn(a)
  BY BrowserTurns
<1> QED BY <1>1, <1>2 DEF HasUpload, Turn

\* An attempt keeps its upload while it has calls that need it.
LEMMA SameUpload ==
  ASSUME ApiInv, NothingEarly, [Next]_vars, NEW c \in Call, Alive(c), Kind[c] # "create"
  PROVE  uploadId'[Owner[c]] = uploadId[Owner[c]]
<1>1. PICK a : a = Owner[c] /\ a \in Attempt
  OBVIOUS
<1>2. stage[a] # "creating"
  BY <1>1 DEF NothingEarly, NotYet, Stages
<1>3. Turn(a)
  BY <1>1, BrowserTurns
<1> QED BY <1>1, <1>2, <1>3 DEF Turn

\* The calls stay with their requests.
LEMMA CallsFitKept ==
  ASSUME ApiInv, NothingEarly, CallsFit, SweptIsReclaimed, [Next]_vars
  PROVE  CallsFit' /\ SweptIsReclaimed'
<1>r. reclaimed \subseteq reclaimed'
  <2>1. CASE BrowserActs
    BY <2>1 DEF BrowserActs
  <2>2. [UploadNext]_storeVars
    BY StepImplements
  <2>3. ASSUME NEW c \in Call, CallBegins(c) \/ CallStep(c) \/ Forget(c) PROVE reclaimed \subseteq reclaimed'
    BY <2>3 DEF CallBegins, CreateBegins, AppendBegins, Fails, CompleteBegins, AbortBegins, CallStep, SweepBegins,
       CreateMakes, SweepEnds, CreateChecks, CreateFinishes, CompleteReads, CompleteFinishes, AbortRemoves, Forget
  <2>4. ASSUME WriteStep \/ UserStep \/ TimeGoesBy \/ Restart \/ UNCHANGED storeVars PROVE reclaimed \subseteq reclaimed'
    BY <2>4 DEF WriteStep, WriteSucceeds, WriteFails, UserStep, Refer, DeleteSession, TimeGoesBy, Restart, storeVars
  <2> QED BY <2>2, <2>3, <2>4 DEF UploadNext
<1>1. ASSUME NEW c \in Call, calls'[c] # Idle
      PROVE  /\ CallFits(c)'
             /\ calls'[c].at = "sweeping" /\ calls'[c].upload # Nothing => calls'[c].upload \in reclaimed'
  <2>1. CASE Begun(c)
    <3>1. Alive(c)
      BY <2>1 DEF Begun, Alive
    <3>2. Kind[c] # "create" => uploadId'[Owner[c]] = uploadId[Owner[c]]
      BY <3>1, SameUpload
    <3> QED BY <2>1, <3>2 DEF Begun, CallFits
  <2>2. CASE calls[c] # Idle
    <3>1. Alive(c) /\ CallFits(c)
      BY <2>2 DEF Alive, IsIdle, CallsFit
    <3>2. Kind[c] # "create" => uploadId'[Owner[c]] = uploadId[Owner[c]]
      BY <3>1, SameUpload
    <3>3. CASE GoesOn(c)
      BY <3>1, <3>2, <3>3 DEF GoesOn, CallFits
    <3>4. CASE calls'[c].method = calls[c].method /\ calls'[c].upload = calls[c].upload /\ calls'[c].at = calls[c].at
      BY <3>1, <3>2, <3>4, <1>r DEF CallFits, SweptIsReclaimed
    <3> QED BY <3>3, <3>4, <2>1, <1>1, CallsFollow
  <2> QED BY <2>1, <2>2, <1>1, CallsFollow
<1>2. Idle.at # "sweeping"
  BY DEF Idle
<1> QED BY <1>1, <1>2 DEF CallsFit, SweptIsReclaimed

\* Whom an upload belongs to.
LEMMA NamesOnly ==
  ASSUME ApiInv, CallsFit, [Next]_vars, NEW a \in Attempt, NEW u \in Upload, Named(a, u)'
  PROVE  Named(a, u) \/ \E c \in Call : Owner[c] = a /\ Makes(c, u) /\ calls'[c] = Idle
<1>1. Turn(a)
  BY BrowserTurns
<1>2. uploadId'[a] = u => Named(a, u)
  BY <1>1 DEF Turn, Named
<1>3. ASSUME NEW c \in Requests(a, "create"), SaysOk(c, u)'
      PROVE  Named(a, u) \/ (c \in Call /\ Owner[c] = a /\ Makes(c, u) /\ calls'[c] = Idle)
  <2>1. c \in Call /\ Owner[c] = a /\ Kind[c] = "create"
    BY DEF Requests
  <2>2. SaysOk(c, u) \/ (results'[c] # results[c] /\ results'[c].status = "ok" /\ results'[c].upload = u)
    BY <1>3, <2>1, SaysOnly
  <2> QED BY <2>1, <2>2, GoodResults DEF Named
<1>4. Requests(a, "create")' = Requests(a, "create")
  BY DEF Requests
<1> QED BY <1>2, <1>3, <1>4 DEF Named

\* A known upload was given out.
LEMMA NamedIssued ==
  ASSUME ApiInv, HasUpload, NEW a \in Attempt, NEW u \in Upload, Named(a, u)
  PROVE  u \in issued
<1>1. ASSUME NEW c \in Call, SaysOk(c, u) PROVE u \in issued
  <2>1. CASE results[c].status = "ok" /\ results[c].upload = u
    <3>1. ResultKnows(results[c], issued)
      BY DEF ApiInv, StoreInv, IssuedOnly
    <3> QED BY <2>1, <3>1 DEF ResultKnows, NoResult
  <2>2. CASE \E x \in Told : x.call = c /\ x.status = "ok" /\ x.upload = u
    BY <2>2 DEF ApiInv, NamesIssued, Told
  <2> QED BY <1>1, <2>1, <2>2 DEF SaysOk
<1>2. uploadId[a] = u => u \in issued
  BY DEF HasUpload
<1> QED BY <1>1, <1>2 DEF Named, Requests

\* The uploads stay with their attempts.
LEMMA OwnNamesKept ==
  ASSUME ApiInv, CallsFit, HasUpload, OwnNames, [Next]_vars
  PROVE  OwnNames'
<1> SUFFICES ASSUME NEW u \in Upload
             PROVE  /\ \A a, b \in Attempt : Named(a, u)' /\ Named(b, u)' => a = b
                    /\ \A c \in Call : Makes(c, u)' => /\ \A a \in Attempt : ~Named(a, u)'
                                                       /\ \A d \in Call : Makes(d, u)' => d = c
  BY DEF OwnNames
<1>o. /\ \A a, b \in Attempt : Named(a, u) /\ Named(b, u) => a = b
      /\ \A c \in Call : Makes(c, u) => /\ \A a \in Attempt : ~Named(a, u)
                                        /\ \A d \in Call : Makes(d, u) => d = c
  BY DEF OwnNames
<1>i. \A c \in Call : Makes(c, u) => u \in issued
  BY DEF ApiInv, StoreInv, UploadInv, IdsAreFresh, Makes, IsAt
<1>j. \A a \in Attempt : Named(a, u) => u \in issued
  BY NamedIssued
<1>n. u # Nothing
  OBVIOUS
<1>m. ASSUME NEW c \in Call, Makes(c, u)'
      PROVE  /\ calls'[c] # Idle
             /\ Makes(c, u) \/ (u \notin issued /\ \A d \in Call \ {c} : calls'[d] = calls[d])
  <2>1. calls'[c].method = "create" /\ calls'[c].at = "making" /\ calls'[c].upload = u
    BY <1>m DEF Makes, IsAt
  <2>2. calls'[c] # Idle
    BY <2>1 DEF Idle
  <2>3. \/ /\ calls'[c].method = calls[c].method /\ calls'[c].upload = calls[c].upload
           /\ calls'[c].at = calls[c].at
        \/ Begun(c)
        \/ GoesOn(c) /\ \A d \in Call \ {c} : calls'[d] = calls[d]
    BY <2>2, CallsFollow
  <2> QED BY <2>1, <2>2, <2>3, <1>n DEF Begun, GoesOn, Makes, IsAt
<1>k. ASSUME NEW a \in Attempt, Named(a, u)'
      PROVE  Named(a, u) \/ \E c \in Call : Owner[c] = a /\ Makes(c, u) /\ calls'[c] = Idle
  BY <1>k, NamesOnly
<1>1. ASSUME NEW a \in Attempt, NEW b \in Attempt, Named(a, u)', Named(b, u)' PROVE a = b
  BY <1>1, <1>k, <1>o
<1>2. ASSUME NEW c \in Call, Makes(c, u)', NEW a \in Attempt, Named(a, u)' PROVE FALSE
  BY <1>2, <1>m, <1>k, <1>o, <1>i, <1>j
<1>3. ASSUME NEW c \in Call, Makes(c, u)', NEW d \in Call, Makes(d, u)' PROVE d = c
  <2>1. CASE Makes(c, u) /\ Makes(d, u)
    BY <2>1, <1>o
  <2>2. CASE ~Makes(c, u) /\ d # c
    <3>1. u \notin issued /\ calls'[d] = calls[d]
      BY <2>2, <1>3, <1>m
    <3>2. Makes(d, u)
      BY <3>1, <1>3 DEF Makes, IsAt
    <3> QED BY <3>1, <3>2, <1>i
  <2>3. CASE ~Makes(d, u) /\ d # c
    <3>1. u \notin issued /\ calls'[c] = calls[c]
      BY <2>3, <1>3, <1>m
    <3>2. Makes(c, u)
      BY <3>1, <1>3 DEF Makes, IsAt
    <3> QED BY <3>1, <3>2, <1>i
  <2> QED BY <2>1, <2>2, <2>3
<1> QED BY <1>1, <1>2, <1>3

\* A confirmation is old, or the execution has just done what it confirms.
LEMMA ConfirmedOnly ==
  ASSUME ApiInv, CallsFit, [Next]_vars, NEW a \in Attempt, NEW kind \in {"complete", "abort"}, Confirmed(a, kind)'
  PROVE  \/ Confirmed(a, kind)
         \/ /\ kind = "complete" => Settled(uploadId[a])'
            /\ kind = "abort" => dirs'[uploadId[a]].manifest # "active"
            /\ UNCHANGED clientVars
<1>1. PICK c \in Requests(a, kind), u \in Upload : SaysOk(c, u)'
  BY DEF Confirmed, Requests
<1>2. c \in Call /\ Owner[c] = a /\ Kind[c] = kind
  BY DEF Requests
<1>3. CASE SaysOk(c, u)
  BY <1>3 DEF Confirmed
<1>4. CASE results'[c] # results[c] /\ results'[c].status = "ok"
  <2>1. UNCHANGED clientVars
    BY <1>4, BrowserTurns DEF BrowserActs
  <2> QED BY <2>1, <1>2, <1>4, GoodResults
<1> QED BY <1>1, <1>2, <1>3, <1>4, SaysOnly

\* Nobody confirms what was not asked for.
LEMMA NotConfirmed ==
  ASSUME NothingEarly, NEW a \in Attempt, NEW kind, stage[a] \in NotYet(kind)
  PROVE  ~Confirmed(a, kind)
<1> SUFFICES ASSUME NEW c \in Requests(a, kind), NEW u \in Upload, SaysOk(c, u) PROVE FALSE
  BY DEF Confirmed
<1>1. c \in Call /\ Owner[c] = a /\ Kind[c] = kind
  BY DEF Requests
<1> QED BY <1>1, SaysAlive DEF NothingEarly

\* Only a prompt makes a session mention an upload.
LEMMA ReferredOnly ==
  ASSUME ApiInv, [Next]_vars
  PROVE  \/ referenced' \subseteq referenced
         \/ \E b \in Attempt : stage[b] = "uploaded" /\ referenced' = referenced \cup {uploadId[b]}
<1>b. ASSUME NEW c \in Call, CallBegins(c) PROVE referenced' = referenced
  BY <1>b DEF CallBegins, CreateBegins, AppendBegins, Fails, CompleteBegins, AbortBegins, disk
<1>1. ASSUME NEW a \in Attempt, Attach(a) PROVE referenced' = referenced
  BY <1>1 DEF Attach, uploadVars, storeVars, disk
<1>2. ASSUME NEW c \in Call, RequestTimesOut(c) \/ Answer(c) PROVE referenced' = referenced
  BY <1>2 DEF RequestTimesOut, Answer, Forget, uploadVars, storeVars, disk
<1>3. CASE HandleFrame \/ Drop \/ Reconnect \/ BackendRestarts \/ UNCHANGED vars
  BY <1>3 DEF HandleFrame, Drop, Reconnect, BackendRestarts, Restart, vars, uploadVars, storeVars, disk
<1>4. CASE Accept
  <2>1. PICK c \in Call : AnswersFromCache(c) \/ JoinsExecution(c) \/ RefusesRequest(c) \/ CallBegins(c)
    BY <1>4, TakenUp
  <2> QED BY <2>1, <1>b DEF AnswersFromCache, JoinsExecution, RefusesRequest, uploadVars, storeVars, disk
<1>5. ASSUME NEW c \in Call, CallStep(c) PROVE referenced' = referenced
  BY <1>5 DEF CallStep, SweepBegins, CreateMakes, SweepEnds, CreateChecks, CreateFinishes, CompleteReads,
     CompleteFinishes, AbortRemoves, disk
<1>6. CASE WriteStep \/ TimeGoesBy \/ \E u \in Upload : DeleteSession(u)
  BY <1>6 DEF WriteStep, WriteSucceeds, WriteFails, TimeGoesBy, DeleteSession, disk
<1>7. ASSUME NEW a \in Attempt, Prompt(a)
      PROVE  stage[a] = "uploaded" /\ referenced' = referenced \cup {uploadId[a]}
  BY <1>7 DEF Prompt, Refer
<1> QED BY <1>1, <1>2, <1>3, <1>4, <1>5, <1>6, <1>7 DEF Next, StoreStep

\* What an attempt has uploaded is taken away by an expiry only, unless it aborts it.
LEMMA UploadOfAttempt ==
  ASSUME ApiInv, TruthInv, [Next]_vars, NEW a \in Attempt, NEW u \in issued, uploadId[a] = u
  PROVE  /\ dirs[u].manifest # "active" => dirs'[u].manifest # "active"
         /\ reclaimed \subseteq reclaimed'
         /\ stage[a] \in NotYet("abort") =>
              /\ Settled(u) => Settled(u)'
              /\ u \in referenced /\ Whole(u) => Whole(u)' \/ u \in reclaimed'
<1>t. issued \subseteq Upload /\ NothingEarly /\ CallsFit /\ SweptIsReclaimed /\ OwnNames
  BY TypeParts DEF ApiInv, UploadTypeOK, TruthInv
<1>s. StoreInv /\ [UploadNext]_storeVars
  BY StepImplements DEF ApiInv
<1>1. \A c \in Call : ~Makes(c, u)
  BY <1>t DEF OwnNames, Named
<1>2. ASSUME stage[a] \in NotYet("abort"), NEW c \in Call, calls[c].method = "abort", calls[c].upload = u PROVE FALSE
  <2>1. calls[c] # Idle
    BY <1>2 DEF Idle
  <2>2. Kind[c] = "abort" /\ uploadId[Owner[c]] = u /\ Owner[c] \in Attempt
    BY <1>2, <2>1, <1>t DEF CallsFit, CallFits
  <2>3. Owner[c] = a
    BY <2>2, <1>t DEF OwnNames, Named
  <2>4. Alive(c)
    BY <2>1 DEF Alive, IsIdle
  <2> QED BY <1>2, <2>2, <2>3, <2>4, <1>t DEF NothingEarly
<1> QED BY <1>1, <1>2, <1>s, <1>t, UploadKept

\* No step breaks what was confirmed.
LEMMA PromisesKept ==
  ASSUME ApiInv, TruthInv, [Next]_vars
  PROVE  CompleteHolds' /\ MentionsAreTold' /\ AbortHolds'
<1>t. /\ BrowserTypes /\ issued \subseteq Upload
      /\ NothingEarly /\ HasUpload /\ CallsFit /\ SweptIsReclaimed /\ OwnNames /\ CompleteHolds /\ MentionsAreTold /\ AbortHolds
  BY TypeParts DEF ApiInv, UploadTypeOK, TruthInv
<1>a. ASSUME NEW a \in Attempt, stage[a] \notin {"idle", "creating", "failed"}
      PROVE  \E u \in issued : uploadId[a] = u /\ uploadId'[a] = u
  <2>1. uploadId[a] \in issued
    BY <1>a, <1>t DEF HasUpload
  <2>2. Turn(a)
    BY BrowserTurns
  <2> QED BY <1>a, <2>1, <2>2 DEF Turn
<1>y. /\ \A s \in {"completing", "uploaded"} : s \in NotYet("abort")
      /\ \A s \in {"creating", "sending"} : s \in NotYet("complete")
      /\ \A s \in {"completing", "sending"} : s \in NotYet("abort")
  BY DEF NotYet, Stages
<1>1. ASSUME NEW a \in Attempt, stage'[a] = "uploaded" \/ (stage'[a] = "completing" /\ Confirmed(a, "complete")')
      PROVE  Settled(uploadId[a])'
  <2>1. Turn(a)
    BY BrowserTurns
  <2>2. \/ stage[a] = "uploaded" \/ (stage[a] = "completing" /\ Confirmed(a, "complete"))
        \/ stage[a] \in {"creating", "sending", "completing"} /\ stage'[a] = "completing" /\ Confirmed(a, "complete")'
    BY <1>1, <2>1 DEF Turn
  <2>3. CASE stage[a] = "uploaded" \/ (stage[a] = "completing" /\ Confirmed(a, "complete"))
    <3>1. PICK u \in issued : uploadId[a] = u /\ uploadId'[a] = u
      BY <2>3, <1>a
    <3>2. Settled(u)
      BY <2>3, <3>1, <1>t DEF CompleteHolds
    <3>3. Settled(u)'
      BY <2>3, <3>1, <3>2, <1>y, UploadOfAttempt
    <3> QED BY <3>1, <3>3
  <2>4. CASE ~Confirmed(a, "complete") /\ stage'[a] = "completing" /\ Confirmed(a, "complete")'
    BY <2>4, <1>t, ConfirmedOnly
  <2>5. stage[a] \in {"creating", "sending"} => ~Confirmed(a, "complete")
    BY <1>t, <1>y, NotConfirmed
  <2> QED BY <2>2, <2>3, <2>4, <2>5
<1>2. ASSUME NEW u \in referenced' PROVE \E a \in Attempt : stage'[a] = "uploaded" /\ uploadId'[a] = u
  <2>1. PICK a \in Attempt : stage[a] = "uploaded" /\ uploadId[a] = u
    BY <1>2, <1>t, ReferredOnly DEF MentionsAreTold
  <2>2. Turn(a)
    BY BrowserTurns
  <2> QED BY <2>1, <2>2 DEF Turn
<1>3. ASSUME NEW a \in Attempt, stage'[a] = "aborted" \/ (stage'[a] = "aborting" /\ Confirmed(a, "abort")')
      PROVE  dirs'[uploadId'[a]].manifest # "active"
  <2>1. Turn(a)
    BY BrowserTurns
  <2>2. \/ stage[a] = "aborted" \/ (stage[a] = "aborting" /\ Confirmed(a, "abort"))
        \/ stage[a] \in {"sending", "completing", "aborting"} /\ stage'[a] = "aborting" /\ Confirmed(a, "abort")'
    BY <1>3, <2>1 DEF Turn
  <2>a. PICK u \in issued : uploadId[a] = u /\ uploadId'[a] = u
    BY <2>2, <1>a
  <2>3. CASE stage[a] = "aborted" \/ (stage[a] = "aborting" /\ Confirmed(a, "abort"))
    <3>1. dirs[u].manifest # "active"
      BY <2>3, <2>a, <1>t DEF AbortHolds
    <3> QED BY <3>1, <2>a, UploadOfAttempt
  <2>4. CASE ~Confirmed(a, "abort") /\ stage'[a] = "aborting" /\ Confirmed(a, "abort")'
    BY <2>4, <2>a, <1>t, ConfirmedOnly
  <2>5. stage[a] \in {"sending", "completing"} => ~Confirmed(a, "abort")
    BY <1>t, <1>y, NotConfirmed
  <2> QED BY <2>2, <2>3, <2>4, <2>5
<1> QED BY <1>1, <1>2, <1>3 DEF CompleteHolds, MentionsAreTold, AbortHolds

\* Nothing has been said at first.
LEMMA TruthInitial == Init => TruthInv
<1> SUFFICES ASSUME Init PROVE TruthInv
  OBVIOUS
<1>e. Range(<<>>) = {}
  BY DEF Range
<1>1. Told = {} /\ \A c \in Call : ~Alive(c)
  BY <1>e DEF Init, UploadInit, Told, Alive, IsIdle
<1>2. \A c \in Call, u \in Upload : ~SaysOk(c, u)
  BY <1>1, SaysAlive
<1>3. \A a \in Attempt, u \in Upload : ~Named(a, u)
  BY <1>2 DEF Named, Requests, Init
<1>4. \A c \in Call : calls[c] = Idle
  BY DEF Init, UploadInit
<1>5. \A c \in Call, u \in Upload : ~Makes(c, u)
  BY <1>4 DEF Makes, IsAt, Idle
<1>6. OwnNames
  BY <1>3, <1>5 DEF OwnNames
<1>7. CallsFit /\ SweptIsReclaimed
  BY <1>4 DEF CallsFit, SweptIsReclaimed, Idle
<1>8. \A a \in Attempt : stage[a] = "idle" /\ uploadId[a] = Nothing
  BY DEF Init
<1>9. HasUpload /\ CompleteHolds /\ AbortHolds
  BY <1>8 DEF HasUpload, CompleteHolds, AbortHolds
<1>10. MentionsAreTold
  BY DEF Init, UploadInit, MentionsAreTold
<1> QED BY <1>1, <1>6, <1>7, <1>9, <1>10 DEF TruthInv, NothingEarly

\* Every step keeps the truth of what was said.
LEMMA TruthInductive == ApiInv /\ TruthInv /\ [Next]_vars => TruthInv'
<1> SUFFICES ASSUME ApiInv, TruthInv, [Next]_vars PROVE TruthInv'
  OBVIOUS
<1>1. NothingEarly' /\ HasUpload' /\ CallsFit' /\ SweptIsReclaimed' /\ OwnNames'
  BY NothingEarlyKept, HasUploadKept, CallsFitKept, OwnNamesKept DEF TruthInv
<1>2. CompleteHolds' /\ MentionsAreTold' /\ AbortHolds'
  BY PromisesKept
<1> QED BY <1>1, <1>2 DEF TruthInv

\* A step keeps a file that a session mentions.
LEMMA MentionedStep ==
  ASSUME ApiInv, TruthInv, [Next]_vars, NEW u \in Upload, u \in referenced, Whole(u)
  PROVE  Whole(u)' \/ u \in reclaimed'
<1>1. PICK a \in Attempt : stage[a] = "uploaded" /\ uploadId[a] = u
  BY DEF TruthInv, MentionsAreTold
<1>2. u \in issued /\ stage[a] \in NotYet("abort")
  BY <1>1 DEF TruthInv, HasUpload, NotYet, Stages
<1> QED BY <1>1, <1>2, UploadOfAttempt

\* What the server has answered about an upload stays true, whatever is repeated, lost, swept or
\* restarted afterwards: a file that was called uploaded is there for seven days, and as long as
\* sessions mention it if it is there when they begin to; an upload that was called aborted does
\* not come back (completeFileUpload, abortFileUpload, cleanupUploads, pruneCompletedUploads).
THEOREM AnswersStayTrue == Spec => AnswersHold
<1>1. Init => ApiInv /\ TruthInv
  BY ApiInitial, TruthInitial
<1>2. ApiInv /\ TruthInv /\ [Next]_vars => (ApiInv /\ TruthInv)'
  BY ApiInductive, TruthInductive
<1>3. TruthInv => UploadedIsKept /\ AbortedIsGone
  BY DEF TruthInv, CompleteHolds, AbortHolds, Settled, UploadedIsKept, AbortedIsGone
<1>4. ApiInv /\ TruthInv /\ [Next]_vars =>
        [\A u \in Upload : u \in referenced /\ Whole(u) => Whole(u)' \/ u \in reclaimed']_vars
  BY MentionedStep
<1> QED BY <1>1, <1>2, <1>3, <1>4, PTL DEF Spec, AnswersHold, MentionedIsKept

=================================================================================
