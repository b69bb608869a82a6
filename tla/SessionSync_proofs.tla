---------------------------- MODULE SessionSync_proofs ----------------------------
(***************************************************************************)
(* A browser shows states of the server, in order and each at its          *)
(* revision, and no patch ever misses the state it was made from.          *)
(***************************************************************************)
EXTENDS SessionSync, SequenceTheorems, TLAPS

-------------------------------------------------------------------------------
(* Frames and revisions *)

\* The server had state s at revision r.
Stamped(rv, r, s) == r \in 1 .. Len(rv) /\ rv[r] = s

\* Every frame of q says what the server had at its revision.
FramesStamped(rv, q) == \A i \in 1 .. Len(q) : Stamped(rv, q[i].revision, q[i].state)

\* Frame m is not older than revision r, and if it patches the next one, it patches r.
Follows(rv, r, m) ==
  /\ r <= m.revision
  /\ m.op = "delta" /\ m.revision = r + 1 => Stamped(rv, r, m.base)

After(rv, r, q) == \A i \in 1 .. Len(q) : Follows(rv, r, q[i])
Ordered(rv, q)  == \A i, j \in 1 .. Len(q) : i < j => Follows(rv, q[i].revision, q[j])

\* No frame of q is newer than revision r.
UpTo(r, q) == \A i \in 1 .. Len(q) : q[i].revision <= r

\* Revisions are only added.
Grown(rv, more) == Len(rv) <= Len(more) /\ \A i \in 1 .. Len(rv) : more[i] = rv[i]

SameTransfer(m, n) == m.revision = n.revision /\ m.state = n.state

\* A batch comes right behind the one before it, or behind its manifest.
Adjacent(m, n) ==
  n.op = "content_batch" =>
    /\ SameTransfer(m, n)
    /\ \/ m.op = "content_manifest" /\ n.count = 0
       \/ m.op = "content_batch" /\ n.count = m.count + 1

Chain(q) == \A i, j \in 1 .. Len(q) : j = i + 1 => Adjacent(q[i], q[j])

\* Behind the i-th frame of q come the batches of transfer m from number k to its
\* end at n, and deltas.
RestAt(q, i, m, k, n) ==
  /\ i + (n - k) <= Len(q)
  /\ \A j \in i + 1 .. Len(q) :
       IF j <= i + (n - k)
       THEN q[j].op = "content_batch" /\ SameTransfer(q[j], m) /\ q[j].count = k + (j - i) - 1
       ELSE q[j].op = "delta"

Starts(m)  == m.op \notin {"delta", "content_batch"}
Batches(m) == IF m.op = "content_manifest" THEN m.count ELSE 0

\* The last snapshot in q is there with all that belongs to it.
SnapshotIn(q) == \E i \in 1 .. Len(q) : Starts(q[i]) /\ RestAt(q, i, q[i], 0, Batches(q[i]))

OnlyDeltas(q) == \A i \in 1 .. Len(q) : q[i].op = "delta"

-------------------------------------------------------------------------------
(* The inductive invariant *)

Types ==
  /\ file \in 1 .. MaxFile /\ fileSize \in 0 .. MaxFile
  /\ noticed \in BOOLEAN /\ timer \in BOOLEAN
  /\ turn \in State \cup {NoState}
  /\ revisions \in Seq(State)
  /\ open \subseteq Client /\ subscribed \subseteq open
  /\ last \in [Client -> State \cup {NoState}]
  /\ sync \in [Client -> State \cup {NoState}]
  /\ cached \in [Client -> State \cup {NoState}]
  /\ up \in [Client -> Seq(Command)]
  /\ down \in [Client -> Seq(Frame)] /\ queue \in [Client -> Seq(Frame)]
  /\ active \in [Client -> BOOLEAN] /\ awaiting \in [Client -> BOOLEAN]
  /\ nonce \in [Client -> Nat] /\ syncRevision \in [Client -> Nat] /\ seen \in [Client -> Nat]
  /\ batch \in [Client -> Batch \cup {Idle}]
  /\ parts \in [Client -> Transfer \cup {Idle}]

\* Whatever a browser received or will receive is what the server had at its revision.
TrueStates(c) ==
  /\ FramesStamped(revisions, down[c]) /\ FramesStamped(revisions, queue[c])
  /\ parts[c] # Idle => Stamped(revisions, parts[c].revision, parts[c].state)
  /\ batch[c] # Idle => Stamped(revisions, batch[c].revision, batch[c].result)
  /\ syncRevision[c] # 0 => Stamped(revisions, syncRevision[c], sync[c])

\* What a browser shows, hashes, has queued and will receive follow each other.
InOrder(c) ==
  /\ Ordered(revisions, down[c]) /\ Ordered(revisions, queue[c])
  /\ \A i \in 1 .. Len(queue[c]) : After(revisions, queue[c][i].revision, down[c])
  /\ After(revisions, seen[c], queue[c]) /\ After(revisions, seen[c], down[c])
  /\ batch[c] # Idle => /\ seen[c] <= batch[c].revision
                        /\ After(revisions, batch[c].revision, queue[c])
                        /\ After(revisions, batch[c].revision, down[c])
  /\ syncRevision[c] # 0 => syncRevision[c] = seen[c]
  /\ seen[c] <= Len(revisions)

\* Nothing that was sent to the browser is newer than revision r.
SentUpTo(c, r) ==
  /\ UpTo(r, down[c]) /\ UpTo(r, queue[c])
  /\ batch[c] # Idle => batch[c].revision <= r
  /\ seen[c] <= r

\* The next delta is made from a state that is as new as whatever was sent before.
BaseIsNewest(c) ==
  c \in subscribed => \E r \in 1 .. Len(revisions) : revisions[r] = last[c] /\ SentUpTo(c, r)

\* Batches arrive in their order, or not at all.
BatchesFollow(c) ==
  /\ Chain(down[c])
  /\ down[c] # <<>> /\ down[c][1].op = "content_batch" /\ parts[c] # Idle =>
       SameTransfer(down[c][1], parts[c]) /\ down[c][1].count = parts[c].next
  /\ parts[c] # Idle => parts[c].next < parts[c].count

\* The browser has a part of a snapshot, and the rest is next.
Collecting(c) ==
  parts[c] # Idle /\ RestAt(down[c], 0, parts[c], parts[c].next, parts[c].count)

\* The state to which all that the browser has received will bring it.
Tip(c) ==
  IF queue[c] # <<>> THEN LastOf(queue[c]).state
  ELSE IF batch[c] # Idle THEN batch[c].result ELSE sync[c]

\* The browser has a snapshot, and only deltas are under way.
Patching(c) ==
  /\ ~awaiting[c] /\ OnlyDeltas(down[c])
  /\ queue[c] = <<>> /\ batch[c] # Idle => InScope(c)
  /\ down[c] = <<>> => Tip(c) = last[c]

\* A subscriber whose requests were answered comes to have what the server believes it has.
OnCourse(c) ==
  c \in subscribed =>
    /\ down[c] # <<>> => LastOf(down[c]).state = last[c]
    /\ up[c] = <<>> => SnapshotIn(down[c]) \/ Collecting(c) \/ Patching(c)

ClientInv(c) ==
  /\ c \notin open => up[c] = <<>>
  /\ TrueStates(c) /\ InOrder(c) /\ BaseIsNewest(c) /\ BatchesFollow(c) /\ OnCourse(c)

SyncInv == Types /\ \A c \in Client : ClientInv(c)

USE ConstantsAssumption, NoStateAssumption, IdleAssumption

-------------------------------------------------------------------------------
(* Sequences of frames *)

\* The first and last elements, by their places.
LEMMA Places ==
  ASSUME NEW S, NEW q \in Seq(S), q # <<>>
  PROVE  /\ Len(q) \in Nat \ {0} /\ Head(q) = q[1] /\ q[1] \in S /\ q[Len(q)] \in S
         /\ \A i \in 1 .. Len(q) : q[i] \in S
<1>1. Len(q) \in Nat \ {0}
  BY EmptySeq
<1>2. 1 \in 1 .. Len(q) /\ Len(q) \in 1 .. Len(q)
  BY <1>1
<1>3. \A i \in 1 .. Len(q) : q[i] \in S
  BY ElementOfSeq
<1> QED BY <1>1, <1>2, <1>3

\* Older revisions stay what they were.
LEMMA GrownKeeps ==
  ASSUME NEW rv \in Seq(State), NEW more \in Seq(State), Grown(rv, more)
  PROVE  /\ \A r, s : Stamped(rv, r, s) => Stamped(more, r, s)
         /\ \A r, m : Follows(rv, r, m) => Follows(more, r, m)
         /\ \A q : FramesStamped(rv, q) => FramesStamped(more, q)
         /\ \A r, q : After(rv, r, q) => After(more, r, q)
         /\ \A q : Ordered(rv, q) => Ordered(more, q)
<1>1. Len(rv) \in Nat /\ Len(more) \in Nat
  BY LenProperties
<1>2. \A r, s : Stamped(rv, r, s) => Stamped(more, r, s)
  BY <1>1 DEF Stamped, Grown
<1>3. \A r, m : Follows(rv, r, m) => Follows(more, r, m)
  BY <1>2 DEF Follows
<1> QED BY <1>2, <1>3 DEF FramesStamped, After, Ordered

\* revisionForState: the present state has the newest revision.
LEMMA RevisionsGrow ==
  ASSUME revisions \in Seq(State), NEW s \in State
  PROVE  /\ RevisionsWith(s) \in Seq(State) /\ Grown(revisions, RevisionsWith(s))
         /\ Len(RevisionsWith(s)) \in Nat \ {0}
         /\ Stamped(RevisionsWith(s), Len(RevisionsWith(s)), s)
<1>1. Len(revisions) \in Nat
  BY LenProperties
<1>2. CASE revisions # <<>> /\ LastOf(revisions) = s
  <2>1. RevisionsWith(s) = revisions
    BY <1>2 DEF RevisionsWith
  <2>2. Len(revisions) \in Nat \ {0}
    BY <1>2, EmptySeq
  <2> QED BY <1>2, <2>1, <2>2 DEF Grown, Stamped, LastOf
<1>3. CASE ~(revisions # <<>> /\ LastOf(revisions) = s)
  <2>1. RevisionsWith(s) = Append(revisions, s)
    BY <1>3 DEF RevisionsWith
  <2>2. /\ Append(revisions, s) \in Seq(State) /\ Len(Append(revisions, s)) = Len(revisions) + 1
        /\ \A i \in 1 .. Len(revisions) : Append(revisions, s)[i] = revisions[i]
        /\ Append(revisions, s)[Len(revisions) + 1] = s
    BY AppendProperties
  <2> QED BY <1>1, <2>1, <2>2 DEF Grown, Stamped
<1> QED BY <1>2, <1>3

\* A cancelled transfer leaves the frames that the carrier has taken.
LEMMA PrefixKeeps ==
  ASSUME NEW q \in Seq(Frame), NEW kept \in 0 .. Len(q)
  PROVE  /\ SubSeq(q, 1, kept) \in Seq(Frame) /\ Len(SubSeq(q, 1, kept)) = kept
         /\ \A i \in 1 .. kept : SubSeq(q, 1, kept)[i] = q[i] /\ i \in 1 .. Len(q)
<1>1. Len(q) \in Nat /\ \A i \in 1 .. Len(q) : q[i] \in Frame
  BY LenProperties, ElementOfSeq
<1>2. 1 \in Int /\ kept \in Int /\ \A i \in 1 .. kept : q[i] \in Frame /\ i \in 1 .. Len(q)
  BY <1>1
<1>3. /\ SubSeq(q, 1, kept) \in Seq(Frame)
      /\ Len(SubSeq(q, 1, kept)) = IF 1 <= kept THEN kept - 1 + 1 ELSE 0
      /\ \A i \in 1 .. kept - 1 + 1 : SubSeq(q, 1, kept)[i] = q[1 + i - 1]
  BY <1>2, SubSeqProperties
<1>4. kept \in Nat /\ kept - 1 + 1 = kept /\ \A i \in 1 .. kept : 1 + i - 1 = i
  BY <1>1
<1>5. Len(SubSeq(q, 1, kept)) = kept
  BY <1>3, <1>4
<1>6. ASSUME NEW i \in 1 .. kept PROVE SubSeq(q, 1, kept)[i] = q[i]
  <2>1. i \in 1 .. kept - 1 + 1 /\ 1 + i - 1 = i
    BY <1>4
  <2>2. SubSeq(q, 1, kept)[i] = q[1 + i - 1]
    BY <1>3, <2>1
  <2> QED BY <2>1, <2>2
<1> QED BY <1>2, <1>3, <1>5, <1>6

\* The places of frames that are sent behind others.
LEMMA ConcatPlaces ==
  ASSUME NEW p \in Seq(Frame), NEW t \in Seq(Frame)
  PROVE  /\ p \o t \in Seq(Frame) /\ Len(p \o t) = Len(p) + Len(t)
         /\ Len(p) \in Nat /\ Len(t) \in Nat
         /\ \A i \in 1 .. Len(p) : (p \o t)[i] = p[i]
         /\ \A i \in 1 .. Len(t) : (p \o t)[Len(p) + i] = t[i]
         /\ \A i \in 1 .. Len(p \o t) :
              i \in 1 .. Len(p) \/ \E k \in 1 .. Len(t) : i = Len(p) + k
<1>1. Len(p) \in Nat /\ Len(t) \in Nat
  BY LenProperties
<1>2. /\ p \o t \in Seq(Frame) /\ Len(p \o t) = Len(p) + Len(t)
      /\ \A i \in 1 .. Len(p) + Len(t) :
           (p \o t)[i] = IF i <= Len(p) THEN p[i] ELSE t[i - Len(p)]
  BY ConcatProperties
<1>3. ASSUME NEW i \in 1 .. Len(t) PROVE (p \o t)[Len(p) + i] = t[i]
  <2>1. Len(p) + i \in 1 .. Len(p) + Len(t) /\ ~(Len(p) + i <= Len(p)) /\ Len(p) + i - Len(p) = i
    BY <1>1
  <2> QED BY <1>2, <2>1
<1>4. ASSUME NEW i \in 1 .. Len(p \o t)
      PROVE  i \in 1 .. Len(p) \/ \E k \in 1 .. Len(t) : i = Len(p) + k
  <2>1. CASE i > Len(p)
    <3>1. i - Len(p) \in 1 .. Len(t) /\ i = Len(p) + (i - Len(p))
      BY <1>1, <1>2, <2>1
    <3> QED BY <3>1
  <2> QED BY <1>1, <1>2, <2>1
<1> QED BY <1>1, <1>2, <1>3, <1>4

\* The places of what is left when a frame was taken.
LEMMA TailPlaces ==
  ASSUME NEW q \in Seq(Frame), q # <<>>
  PROVE  /\ Tail(q) \in Seq(Frame) /\ Len(Tail(q)) = Len(q) - 1
         /\ Len(q) \in Nat \ {0} /\ Head(q) = q[1] /\ q[1] \in Frame
         /\ \A i \in 1 .. Len(Tail(q)) : Tail(q)[i] = q[i + 1] /\ i + 1 \in 1 .. Len(q)
<1>1. /\ Tail(q) \in Seq(Frame) /\ Len(Tail(q)) = Len(q) - 1
      /\ \A i \in 1 .. Len(Tail(q)) : Tail(q)[i] = q[i + 1]
  BY HeadTailProperties
<1>2. Len(q) \in Nat \ {0} /\ Head(q) = q[1] /\ q[1] \in Frame
  BY Places
<1> QED BY <1>1, <1>2

\* What is under way stays in order when more is sent behind a part of it.
LEMMA SentOrdered ==
  ASSUME NEW rv \in Seq(State), NEW q \in Seq(Frame), NEW p \in Seq(Frame), NEW t \in Seq(Frame),
         NEW top \in Nat,
         Len(p) <= Len(q), \A i \in 1 .. Len(p) : p[i] = q[i],
         UpTo(top, q), \A r \in 0 .. top : After(rv, r, t), Ordered(rv, t),
         FramesStamped(rv, q), FramesStamped(rv, t), Ordered(rv, q)
  PROVE  /\ FramesStamped(rv, p \o t) /\ Ordered(rv, p \o t)
         /\ \A r \in 0 .. top : After(rv, r, q) => After(rv, r, p \o t)
<1>1. /\ p \o t \in Seq(Frame) /\ Len(p \o t) = Len(p) + Len(t)
      /\ Len(p) \in Nat /\ Len(t) \in Nat
      /\ \A i \in 1 .. Len(p) : (p \o t)[i] = p[i]
      /\ \A i \in 1 .. Len(t) : (p \o t)[Len(p) + i] = t[i]
      /\ \A i \in 1 .. Len(p \o t) :
           i \in 1 .. Len(p) \/ \E k \in 1 .. Len(t) : i = Len(p) + k
  BY ConcatPlaces
<1>2. Len(q) \in Nat /\ \A i \in 1 .. Len(p) : i \in 1 .. Len(q) /\ (p \o t)[i] = q[i]
  BY <1>1, LenProperties
<1>3. FramesStamped(rv, p \o t)
  BY <1>1, <1>2 DEF FramesStamped
<1>4. ASSUME NEW r \in 0 .. top, After(rv, r, q) PROVE After(rv, r, p \o t)
  BY <1>1, <1>2, <1>4 DEF After
<1>5. Ordered(rv, p \o t)
  <2> SUFFICES ASSUME NEW i \in 1 .. Len(p \o t), NEW j \in 1 .. Len(p \o t), i < j
               PROVE  Follows(rv, (p \o t)[i].revision, (p \o t)[j])
    BY DEF Ordered
  <2>1. CASE i \in 1 .. Len(p) /\ j \in 1 .. Len(p)
    BY <1>2, <2>1 DEF Ordered
  <2>2. ASSUME i \in 1 .. Len(p), NEW k \in 1 .. Len(t), j = Len(p) + k
        PROVE  Follows(rv, (p \o t)[i].revision, (p \o t)[j])
    <3>1. (p \o t)[i] = q[i] /\ q[i] \in Frame /\ q[i].revision <= top
      BY <1>2, <2>2, ElementOfSeq DEF UpTo
    <3>2. q[i].revision \in 0 .. top
      BY <3>1 DEF Frame
    <3>3. After(rv, q[i].revision, t)
      BY <3>2
    <3> QED BY <1>1, <2>2, <3>1, <3>3 DEF After
  <2>3. ASSUME NEW k \in 1 .. Len(t), i = Len(p) + k, NEW l \in 1 .. Len(t), j = Len(p) + l
        PROVE  Follows(rv, (p \o t)[i].revision, (p \o t)[j])
    <3>1. k < l
      BY <1>1, <2>3
    <3> QED BY <1>1, <2>3, <3>1 DEF Ordered
  <2>4. ASSUME NEW k \in 1 .. Len(t), i = Len(p) + k, j \in 1 .. Len(p) PROVE FALSE
    BY <1>1, <2>4
  <2> QED BY <1>1, <2>1, <2>2, <2>3, <2>4
<1> QED BY <1>3, <1>4, <1>5

\* What is left when a frame was taken is in order.
LEMMA TailOrdered ==
  ASSUME NEW rv \in Seq(State), NEW q \in Seq(Frame), q # <<>>,
         FramesStamped(rv, q), Ordered(rv, q)
  PROVE  /\ FramesStamped(rv, Tail(q)) /\ Ordered(rv, Tail(q))
         /\ After(rv, q[1].revision, Tail(q))
         /\ Stamped(rv, q[1].revision, q[1].state)
         /\ \A r : After(rv, r, q) => After(rv, r, Tail(q)) /\ Follows(rv, r, q[1])
         /\ \A r : UpTo(r, q) => UpTo(r, Tail(q)) /\ q[1].revision <= r
<1>1. /\ Tail(q) \in Seq(Frame) /\ Len(Tail(q)) = Len(q) - 1
      /\ Len(q) \in Nat \ {0} /\ Head(q) = q[1] /\ q[1] \in Frame
      /\ \A i \in 1 .. Len(Tail(q)) : Tail(q)[i] = q[i + 1] /\ i + 1 \in 1 .. Len(q)
  BY TailPlaces
<1>2. 1 \in 1 .. Len(q)
  BY <1>1
<1>3. FramesStamped(rv, Tail(q)) /\ Stamped(rv, q[1].revision, q[1].state)
  BY <1>1, <1>2 DEF FramesStamped
<1>4. Ordered(rv, Tail(q))
  <2> SUFFICES ASSUME NEW i \in 1 .. Len(Tail(q)), NEW j \in 1 .. Len(Tail(q)), i < j
               PROVE  Follows(rv, Tail(q)[i].revision, Tail(q)[j])
    BY DEF Ordered
  <2>1. i + 1 \in 1 .. Len(q) /\ j + 1 \in 1 .. Len(q) /\ i + 1 < j + 1
    BY <1>1
  <2> QED BY <1>1, <2>1 DEF Ordered
<1>5. After(rv, q[1].revision, Tail(q))
  <2> SUFFICES ASSUME NEW i \in 1 .. Len(Tail(q)) PROVE Follows(rv, q[1].revision, Tail(q)[i])
    BY DEF After
  <2>1. i + 1 \in 1 .. Len(q) /\ 1 < i + 1
    BY <1>1
  <2> QED BY <1>1, <1>2, <2>1 DEF Ordered
<1>6. \A r : After(rv, r, q) => After(rv, r, Tail(q)) /\ Follows(rv, r, q[1])
  BY <1>1, <1>2 DEF After
<1>7. \A r : UpTo(r, q) => UpTo(r, Tail(q)) /\ q[1].revision <= r
  BY <1>1, <1>2 DEF UpTo
<1> QED BY <1>3, <1>4, <1>5, <1>6, <1>7

\* A frame at the end of a queue.
LEMMA AppendOrdered ==
  ASSUME NEW rv \in Seq(State), NEW q \in Seq(Frame), NEW m \in Frame,
         FramesStamped(rv, q), Ordered(rv, q), Stamped(rv, m.revision, m.state),
         \A i \in 1 .. Len(q) : Follows(rv, q[i].revision, m)
  PROVE  /\ Append(q, m) \in Seq(Frame) /\ Append(q, m) # <<>> /\ LastOf(Append(q, m)) = m
         /\ FramesStamped(rv, Append(q, m)) /\ Ordered(rv, Append(q, m))
         /\ \A r : After(rv, r, q) /\ Follows(rv, r, m) => After(rv, r, Append(q, m))
         /\ \A r : UpTo(r, q) /\ m.revision <= r => UpTo(r, Append(q, m))
         /\ Len(Append(q, m)) = Len(q) + 1
         /\ \A i \in 1 .. Len(Append(q, m)) :
              (i \in 1 .. Len(q) /\ Append(q, m)[i] = q[i]) \/ (i = Len(q) + 1 /\ Append(q, m)[i] = m)
<1>1. /\ Append(q, m) \in Seq(Frame) /\ Append(q, m) # <<>>
      /\ Len(Append(q, m)) = Len(q) + 1 /\ Len(q) \in Nat
      /\ \A i \in 1 .. Len(q) : Append(q, m)[i] = q[i]
      /\ Append(q, m)[Len(q) + 1] = m
  BY AppendProperties, LenProperties
<1>2. \A i \in 1 .. Len(Append(q, m)) :
        (i \in 1 .. Len(q) /\ Append(q, m)[i] = q[i]) \/ (i = Len(q) + 1 /\ Append(q, m)[i] = m)
  BY <1>1
<1>3. FramesStamped(rv, Append(q, m))
  BY <1>2 DEF FramesStamped
<1>4. Ordered(rv, Append(q, m))
  <2> SUFFICES ASSUME NEW i \in 1 .. Len(Append(q, m)), NEW j \in 1 .. Len(Append(q, m)), i < j
               PROVE  Follows(rv, Append(q, m)[i].revision, Append(q, m)[j])
    BY DEF Ordered
  <2>1. i \in 1 .. Len(q) /\ Append(q, m)[i] = q[i]
    BY <1>1, <1>2
  <2>2. CASE j \in 1 .. Len(q) /\ Append(q, m)[j] = q[j]
    BY <2>1, <2>2 DEF Ordered
  <2>3. CASE j = Len(q) + 1 /\ Append(q, m)[j] = m
    BY <2>1, <2>3
  <2> QED BY <1>2, <2>2, <2>3
<1>5. \A r : After(rv, r, q) /\ Follows(rv, r, m) => After(rv, r, Append(q, m))
  BY <1>2 DEF After
<1>6. \A r : UpTo(r, q) /\ m.revision <= r => UpTo(r, Append(q, m))
  BY <1>2 DEF UpTo
<1>7. LastOf(Append(q, m)) = m
  BY <1>1 DEF LastOf
<1> QED BY <1>1, <1>2, <1>3, <1>4, <1>5, <1>6, <1>7

\* One frame alone.
LEMMA Alone ==
  ASSUME NEW rv, NEW m
  PROVE  /\ Len(<<m>>) = 1 /\ <<m>> # <<>> /\ LastOf(<<m>>) = m
         /\ \A i \in 1 .. Len(<<m>>) : <<m>>[i] = m
         /\ Ordered(rv, <<m>>)
         /\ FramesStamped(rv, <<m>>) <=> Stamped(rv, m.revision, m.state)
         /\ \A r : After(rv, r, <<m>>) <=> Follows(rv, r, m)
         /\ \A r : UpTo(r, <<m>>) <=> m.revision <= r
<1>1. Len(<<m>>) = 1 /\ <<m>>[1] = m /\ <<m>> # <<>>
  OBVIOUS
<1>2. \A i \in 1 .. Len(<<m>>) : i = 1
  BY <1>1
<1>3. \A i \in 1 .. Len(<<m>>) : <<m>>[i] = m
  BY <1>1, <1>2
<1>4. 1 \in 1 .. Len(<<m>>)
  BY <1>1
<1>5. ~\E i, j \in 1 .. Len(<<m>>) : i < j
  BY <1>2
<1> QED BY <1>1, <1>3, <1>4, <1>5 DEF Ordered, FramesStamped, After, UpTo, LastOf

\* Nothing is in order.
LEMMA Nothing ==
  /\ Len(<<>>) = 0
  /\ \A rv : Ordered(rv, <<>>) /\ FramesStamped(rv, <<>>)
  /\ \A rv, r : After(rv, r, <<>>)
  /\ \A r : UpTo(r, <<>>)
BY DEF Ordered, FramesStamped, After, UpTo

-------------------------------------------------------------------------------
(* Segmented transfers *)

\* The batches of a frame are a number.
LEMMA BatchesCounted == ASSUME NEW m \in Frame PROVE Batches(m) \in Nat
BY DEF Batches, Frame

\* An initial synchronisation is a snapshot with all its batches.
Snapshot(t, r, s) ==
  /\ t \in Seq(Frame) /\ Len(t) \in Nat \ {0}
  /\ Starts(t[1]) /\ Batches(t[1]) = Len(t) - 1
  /\ \A i \in 1 .. Len(t) :
       /\ t[i].revision = r /\ t[i].state = s /\ t[i].op # "delta"
       /\ i > 1 => t[i].op = "content_batch" /\ t[i].count = i - 2

\* makeInitialSessionSync and the segments that follow its manifest.
LEMMA InitialSyncIsWhole ==
  ASSUME revisions \in Seq(State), NEW s \in State, NEW cmd \in Command, NEW count \in 0 .. MaxBatches
  PROVE  Snapshot(InitialSync(cmd, s, count), Len(RevisionsWith(s)), s)
<1> DEFINE n == Len(RevisionsWith(s))
           f(op, k) == [op |-> op, revision |-> n, state |-> s,
                        base |-> IF cmd.known THEN cmd.cached ELSE NoState, count |-> k]
           t == InitialSync(cmd, s, count)
<1>1. n \in Nat /\ count \in Nat
  BY RevisionsGrow
<1>2. \A op \in Op, k \in Nat : f(op, k) \in Frame
  BY <1>1 DEF Frame, Command
<1>3. ASSUME NEW op \in {"full", "not_modified", "content"}, t = <<f(op, 0)>>
      PROVE  Snapshot(t, n, s)
  <2>1. f(op, 0) \in Frame
    BY <1>2 DEF Op
  <2>2. t \in Seq(Frame) /\ Len(t) = 1 /\ t[1] = f(op, 0)
    BY <1>3, <2>1
  <2>3. \A i \in 1 .. Len(t) : i = 1
    BY <2>2
  <2>4. Starts(t[1]) /\ Batches(t[1]) = 0
    BY <2>2 DEF Starts, Batches
  <2> HIDE DEF t
  <2>5. \A i \in 1 .. Len(t) : /\ t[i].revision = n /\ t[i].state = s /\ t[i].op # "delta"
                               /\ ~(i > 1)
    BY <2>2, <2>3
  <2> QED BY <2>2, <2>4, <2>5 DEF Snapshot
<1>4. CASE cmd.cached # s /\ cmd.known /\ Segmented
  <2> DEFINE m == f("content_manifest", count)
             b == [i \in 1 .. count |-> f("content_batch", i - 1)]
  <2>1. t = <<m>> \o b
    BY <1>4 DEF InitialSync
  <2>2. m \in Frame
    BY <1>1, <1>2 DEF Op
  <2>3. b \in Seq(Frame) /\ Len(b) = count
    <3>1. b \in [1 .. count -> Frame]
      <4> SUFFICES ASSUME NEW i \in 1 .. count PROVE f("content_batch", i - 1) \in Frame
        OBVIOUS
      <4>1. i - 1 \in Nat
        BY <1>1
      <4> QED BY <1>2, <4>1 DEF Op
    <3>2. b \in Seq(Frame)
      BY <1>1, <3>1, SeqDef
    <3>3. DOMAIN b = 1 .. count
      BY DEF b
    <3> HIDE DEF b
    <3> QED BY <1>1, <3>2, <3>3, LenProperties
  <2>4. <<m>> \in Seq(Frame) /\ Len(<<m>>) = 1 /\ <<m>>[1] = m
    BY <2>2
  <2>5. \A i \in 1 .. count : /\ b[i].op = "content_batch" /\ b[i].count = i - 1
                              /\ b[i].revision = n /\ b[i].state = s
    OBVIOUS
  <2>6. m.op = "content_manifest" /\ m.count = count /\ m.revision = n /\ m.state = s
    OBVIOUS
  <2> HIDE DEF m, b
  <2>7. PICK w : w = <<m>>
    OBVIOUS
  <2>8. /\ w \o b \in Seq(Frame) /\ Len(w \o b) = 1 + count
        /\ \A i \in 1 .. 1 : (w \o b)[i] = w[i]
        /\ \A i \in 1 .. count : (w \o b)[1 + i] = b[i]
    <3>1. w \in Seq(Frame) /\ Len(w) = 1
      BY <2>4, <2>7
    <3>2. /\ w \o b \in Seq(Frame) /\ Len(w \o b) = Len(w) + Len(b)
          /\ \A i \in 1 .. Len(w) : (w \o b)[i] = w[i]
          /\ \A i \in 1 .. Len(b) : (w \o b)[Len(w) + i] = b[i]
      BY <3>1, <2>3, ConcatPlaces
    <3> QED BY <3>1, <3>2, <2>3
  <2>9. t = w \o b
    BY <2>1, <2>7
  <2> HIDE DEF t
  <2>10. t \in Seq(Frame) /\ Len(t) = 1 + count /\ t[1] = m
    BY <2>4, <2>7, <2>8, <2>9
  <2> HIDE DEF n
  <2>11. \A i \in 2 .. Len(t) : /\ t[i].op = "content_batch" /\ t[i].count = i - 2
                                /\ t[i].revision = n /\ t[i].state = s
    <3> SUFFICES ASSUME NEW i \in 2 .. Len(t)
                 PROVE  /\ t[i].op = "content_batch" /\ t[i].count = i - 2
                        /\ t[i].revision = n /\ t[i].state = s
      OBVIOUS
    <3>1. i - 1 \in 1 .. count /\ 1 + (i - 1) = i /\ (i - 1) - 1 = i - 2
      BY <1>1, <2>10
    <3>2. t[i] = b[i - 1]
      BY <2>8, <2>9, <3>1
    <3> QED BY <2>5, <3>1, <3>2
  <2>12. Starts(t[1]) /\ Batches(t[1]) = count
    BY <2>6, <2>10 DEF Starts, Batches
  <2>13. ASSUME NEW i \in 1 .. Len(t)
         PROVE  /\ t[i].revision = n /\ t[i].state = s /\ t[i].op # "delta"
                /\ i > 1 => t[i].op = "content_batch" /\ t[i].count = i - 2
    <3>1. CASE i = 1
      BY <3>1, <2>6, <2>10
    <3>2. CASE i # 1
      <4>1. i \in 2 .. Len(t)
        BY <1>1, <2>10, <3>2
      <4> QED BY <4>1, <2>11
    <3> QED BY <3>1, <3>2
  <2>14. Snapshot(t, n, s)
    BY <1>1, <2>10, <2>12, <2>13 DEF Snapshot
  <2> QED BY <2>14 DEF t, n
<1>5. CASE ~(cmd.cached # s /\ cmd.known /\ Segmented)
  <2>1. CASE cmd.cached = s
    <3>1. t = <<f("not_modified", 0)>>
      BY <2>1 DEF InitialSync
    <3> HIDE DEF t, f, n
    <3> QED BY <3>1, <1>3 DEF t, n
  <2>2. CASE cmd.cached # s /\ cmd.known /\ ~Segmented
    <3>1. t = <<f("content", 0)>>
      BY <2>2 DEF InitialSync
    <3> HIDE DEF t, f, n
    <3> QED BY <3>1, <1>3 DEF t, n
  <2>3. CASE cmd.cached # s /\ ~cmd.known
    <3>1. t = <<f("full", 0)>>
      BY <2>3 DEF InitialSync
    <3> HIDE DEF t, f, n
    <3> QED BY <3>1, <1>3 DEF t, n
  <2> QED BY <1>5, <2>1, <2>2, <2>3
<1> QED BY <1>4, <1>5

\* What a snapshot adds to what is under way.
LEMMA SnapshotSent ==
  ASSUME NEW p \in Seq(Frame), NEW t, NEW r \in Nat, NEW s, NEW rv \in Seq(State), Stamped(rv, r, s),
         Snapshot(t, r, s), Chain(p)
  PROVE  /\ FramesStamped(rv, t) /\ Ordered(rv, t)
         /\ \A k \in 0 .. r : After(rv, k, t)
         /\ p \o t # <<>> /\ LastOf(p \o t).state = s
         /\ SnapshotIn(p \o t) /\ Chain(p \o t)
         /\ UpTo(r, t)
         /\ p = <<>> => (p \o t)[1].op # "content_batch"
<1>0. t \in Seq(Frame) /\ Len(t) \in Nat \ {0}
  BY DEF Snapshot
<1>1. /\ p \o t \in Seq(Frame) /\ Len(p \o t) = Len(p) + Len(t)
      /\ Len(p) \in Nat /\ Len(t) \in Nat
      /\ \A i \in 1 .. Len(p) : (p \o t)[i] = p[i]
      /\ \A i \in 1 .. Len(t) : (p \o t)[Len(p) + i] = t[i]
      /\ \A i \in 1 .. Len(p \o t) :
           i \in 1 .. Len(p) \/ \E k \in 1 .. Len(t) : i = Len(p) + k
  BY <1>0, ConcatPlaces
<1>2. \A i \in 1 .. Len(t) : t[i].revision = r /\ t[i].state = s /\ t[i].op # "delta"
  BY DEF Snapshot
<1>3. FramesStamped(rv, t) /\ UpTo(r, t)
  BY <1>2 DEF FramesStamped, UpTo
<1>4. Ordered(rv, t) /\ \A k \in 0 .. r : After(rv, k, t)
  BY <1>2 DEF Ordered, After, Follows
<1>5. p \o t # <<>> /\ LastOf(p \o t).state = s
  <2>1. Len(t) \in 1 .. Len(t) /\ (p \o t)[Len(p) + Len(t)] = t[Len(t)]
    BY <1>0, <1>1
  <2>2. Len(p \o t) # 0
    BY <1>0, <1>1
  <2> QED BY <1>1, <1>2, <2>1, <2>2 DEF LastOf
<1>6. 1 \in 1 .. Len(t) /\ (p \o t)[Len(p) + 1] = t[1]
  BY <1>0, <1>1
<1>7. SnapshotIn(p \o t)
  <2> DEFINE q == p \o t
             i == Len(p) + 1
  <2>1. i \in 1 .. Len(q) /\ q[i] = t[1] /\ Starts(q[i])
    BY <1>0, <1>1, <1>6 DEF Snapshot
  <2>2. Batches(q[i]) = Len(t) - 1
    BY <2>1 DEF Snapshot
  <2>3. i + (Batches(q[i]) - 0) = Len(q)
    BY <2>2, <1>0, <1>1
  <2>4. ASSUME NEW j \in i + 1 .. Len(q)
        PROVE  q[j].op = "content_batch" /\ SameTransfer(q[j], q[i]) /\ q[j].count = 0 + (j - i) - 1
    <3>1. PICK k \in 1 .. Len(t) : j = Len(p) + k
      BY <1>1, <2>4
    <3>2. k > 1 /\ q[j] = t[k] /\ k - 2 = 0 + (j - i) - 1
      BY <1>1, <3>1
    <3>3. t[k].op = "content_batch" /\ t[k].count = k - 2
      BY <3>1, <3>2 DEF Snapshot
    <3> QED BY <3>1, <3>2, <3>3, <2>1, <1>2, <1>6 DEF SameTransfer
  <2>5. \A j \in i + 1 .. Len(q) : j <= i + (Batches(q[i]) - 0)
    BY <2>3, <1>1
  <2>6. i + (Batches(q[i]) - 0) <= Len(q)
    <3>1. Len(q) \in Nat
      BY <1>1
    <3> HIDE DEF q, i
    <3> QED BY <2>3, <3>1
  <2>7. RestAt(q, i, q[i], 0, Batches(q[i]))
    <3> HIDE DEF q, i
    <3> QED BY <2>4, <2>5, <2>6 DEF RestAt
  <2> HIDE DEF q, i
  <2>8. SnapshotIn(q)
    BY <2>1, <2>7 DEF SnapshotIn
  <2> QED BY <2>8 DEF q
<1>8. Chain(p \o t)
  <2> SUFFICES ASSUME NEW i \in 1 .. Len(p \o t), NEW j \in 1 .. Len(p \o t), j = i + 1
               PROVE  Adjacent((p \o t)[i], (p \o t)[j])
    BY DEF Chain
  <2>1. CASE j \in 1 .. Len(p)
    <3>1. i \in 1 .. Len(p)
      BY <1>1, <2>1
    <3> QED BY <1>1, <2>1, <3>1 DEF Chain
  <2>2. CASE j = Len(p) + 1
    <3>1. (p \o t)[j].op # "content_batch"
      BY <1>6, <2>2 DEF Snapshot, Starts
    <3> QED BY <3>1 DEF Adjacent
  <2>3. ASSUME NEW k \in 1 .. Len(t), j = Len(p) + k, k # 1
        PROVE  Adjacent((p \o t)[i], (p \o t)[j])
    <3>1. k - 1 \in 1 .. Len(t) /\ i = Len(p) + (k - 1) /\ k > 1
      BY <1>1, <2>3
    <3>2. (p \o t)[i] = t[k - 1] /\ (p \o t)[j] = t[k]
      BY <1>1, <2>3, <3>1
    <3>3. SameTransfer(t[k - 1], t[k])
      BY <1>2, <3>1, <2>3 DEF SameTransfer
    <3>4. t[k].op = "content_batch" /\ t[k].count = k - 2
      BY <2>3, <3>1 DEF Snapshot
    <3>5. CASE k = 2
      <4>1. t[k - 1].op = "content_manifest"
        <5>1. Batches(t[1]) = Len(t) - 1 /\ Len(t) - 1 # 0
          BY <1>0, <2>3, <3>5 DEF Snapshot
        <5>2. t[1].op = "content_manifest"
          BY <5>1 DEF Batches
        <5> QED BY <5>2, <3>5
      <4> QED BY <4>1, <3>2, <3>3, <3>4, <3>5 DEF Adjacent
    <3>6. CASE k # 2
      <4>1. k - 1 > 1 /\ k - 2 = ((k - 1) - 2) + 1
        BY <3>1, <3>6
      <4>2. t[k - 1].op = "content_batch" /\ t[k - 1].count = (k - 1) - 2
        BY <3>1, <4>1 DEF Snapshot
      <4> QED BY <4>1, <4>2, <3>2, <3>3, <3>4 DEF Adjacent
    <3> QED BY <3>5, <3>6
  <2> QED BY <1>1, <2>1, <2>2, <2>3
<1>9. p = <<>> => (p \o t)[1].op # "content_batch"
  <2>1. p = <<>> => (p \o t)[1] = t[1]
    BY <1>6, Nothing
  <2> QED BY <2>1 DEF Snapshot, Starts
<1> QED BY <1>3, <1>4, <1>5, <1>7, <1>8, <1>9

\* An update behind what is under way.
LEMMA UpdateSent ==
  ASSUME NEW q \in Seq(Frame), NEW m \in Frame, m.op \in {"full", "delta"}, Chain(q)
  PROVE  /\ Chain(Append(q, m))
         /\ SnapshotIn(q) => SnapshotIn(Append(q, m))
         /\ m.op = "full" => SnapshotIn(Append(q, m))
         /\ OnlyDeltas(q) => OnlyDeltas(Append(q, m)) \/ SnapshotIn(Append(q, m))
         /\ \A n, k, l : k \in Nat /\ l \in Nat /\ RestAt(q, 0, n, k, l)
              => RestAt(Append(q, m), 0, n, k, l) \/ SnapshotIn(Append(q, m))
<1> DEFINE a == Append(q, m)
<1>1. /\ a \in Seq(Frame) /\ Len(a) = Len(q) + 1 /\ Len(q) \in Nat
      /\ \A i \in 1 .. Len(q) : a[i] = q[i]
      /\ a[Len(q) + 1] = m
  BY AppendProperties, LenProperties
<1> HIDE DEF a
<1>2. Chain(a)
  <2> SUFFICES ASSUME NEW i \in 1 .. Len(a), NEW j \in 1 .. Len(a), j = i + 1 PROVE Adjacent(a[i], a[j])
    BY DEF Chain
  <2>1. CASE j = Len(q) + 1
    BY <1>1, <2>1 DEF Adjacent
  <2>2. CASE j # Len(q) + 1
    <3>1. i \in 1 .. Len(q) /\ j \in 1 .. Len(q)
      BY <1>1, <2>2
    <3> QED BY <1>1, <3>1 DEF Chain
  <2> QED BY <2>1, <2>2
<1>3. CASE m.op = "full"
  <2>1. Starts(m) /\ Batches(m) = 0
    BY <1>3 DEF Starts, Batches
  <2>2. RestAt(a, Len(a), a[Len(a)], 0, 0)
    BY <1>1 DEF RestAt
  <2>3. Len(a) \in 1 .. Len(a) /\ a[Len(a)] = m
    BY <1>1
  <2>4. SnapshotIn(a)
    BY <2>1, <2>2, <2>3 DEF SnapshotIn
  <2> QED BY <1>2, <1>3, <2>4 DEF a
<1>4. CASE m.op = "delta"
  <2>1. OnlyDeltas(q) => OnlyDeltas(a)
    BY <1>1, <1>4 DEF OnlyDeltas
  <2>2. ASSUME NEW i \in 0 .. Len(q), NEW n, NEW k \in Nat, NEW l \in Nat, RestAt(q, i, n, k, l)
        PROVE  RestAt(a, i, n, k, l)
    <3>1. i + (l - k) <= Len(a)
      BY <1>1, <2>2 DEF RestAt
    <3>2. ASSUME NEW j \in i + 1 .. Len(a)
          PROVE  IF j <= i + (l - k)
                 THEN a[j].op = "content_batch" /\ SameTransfer(a[j], n) /\ a[j].count = k + (j - i) - 1
                 ELSE a[j].op = "delta"
      <4>1. CASE j = Len(q) + 1
        <5>1. ~(j <= i + (l - k))
          BY <1>1, <2>2, <4>1 DEF RestAt
        <5> QED BY <5>1, <1>1, <1>4, <4>1
      <4>2. CASE j # Len(q) + 1
        <5>1. j \in i + 1 .. Len(q) /\ j \in 1 .. Len(q)
          BY <1>1, <4>2
        <5> QED BY <1>1, <2>2, <5>1 DEF RestAt
      <4> QED BY <4>1, <4>2
    <3> QED BY <3>1, <3>2 DEF RestAt
  <2>3. SnapshotIn(q) => SnapshotIn(a)
    <3> SUFFICES ASSUME SnapshotIn(q) PROVE SnapshotIn(a)
      OBVIOUS
    <3>1. PICK i \in 1 .. Len(q) : Starts(q[i]) /\ RestAt(q, i, q[i], 0, Batches(q[i]))
      BY DEF SnapshotIn
    <3>2. i \in 0 .. Len(q) /\ i \in 1 .. Len(a) /\ a[i] = q[i]
      BY <1>1, <3>1
    <3>3. Batches(q[i]) \in Nat
      BY Places, BatchesCounted, Nothing
    <3>4. RestAt(a, i, q[i], 0, Batches(q[i]))
      BY <2>2, <3>1, <3>2, <3>3
    <3> QED BY <3>1, <3>2, <3>4 DEF SnapshotIn
  <2>4. \A n, k, l : k \in Nat /\ l \in Nat /\ RestAt(q, 0, n, k, l) => RestAt(a, 0, n, k, l)
    BY <1>1, <2>2
  <2> QED BY <1>2, <1>4, <2>1, <2>3, <2>4 DEF a
<1> QED BY <1>3, <1>4

\* Taking a frame of what is under way.
LEMMA TailFollows ==
  ASSUME NEW q \in Seq(Frame), q # <<>>, Chain(q)
  PROVE  /\ Chain(Tail(q))
         /\ Tail(q) # <<>> => Adjacent(q[1], Tail(q)[1])
         /\ Tail(q) # <<>> => LastOf(Tail(q)) = LastOf(q)
         /\ Tail(q) = <<>> => LastOf(q) = q[1]
         /\ OnlyDeltas(q) => q[1].op = "delta" /\ OnlyDeltas(Tail(q))
         /\ SnapshotIn(q) =>
              \/ SnapshotIn(Tail(q))
              \/ Starts(q[1]) /\ RestAt(Tail(q), 0, q[1], 0, Batches(q[1]))
         /\ \A m, k, n : k \in Nat /\ n \in Nat /\ k < n /\ RestAt(q, 0, m, k, n) =>
              /\ q[1].op = "content_batch" /\ SameTransfer(q[1], m) /\ q[1].count = k
              /\ RestAt(Tail(q), 0, m, k + 1, n)
<1> DEFINE t == Tail(q)
<1>1. /\ t \in Seq(Frame) /\ Len(t) = Len(q) - 1
      /\ Len(q) \in Nat \ {0} /\ Head(q) = q[1] /\ q[1] \in Frame
      /\ \A i \in 1 .. Len(t) : t[i] = q[i + 1] /\ i + 1 \in 1 .. Len(q)
  BY TailPlaces
<1> HIDE DEF t
<1>2. 1 \in 1 .. Len(q) /\ Len(t) \in Nat
  BY <1>1
<1>3. Chain(t)
  <2> SUFFICES ASSUME NEW i \in 1 .. Len(t), NEW j \in 1 .. Len(t), j = i + 1 PROVE Adjacent(t[i], t[j])
    BY DEF Chain
  <2>1. i + 1 \in 1 .. Len(q) /\ j + 1 \in 1 .. Len(q) /\ j + 1 = (i + 1) + 1
    BY <1>1
  <2> QED BY <1>1, <2>1 DEF Chain
<1>4. ASSUME t # <<>>
      PROVE  Adjacent(q[1], t[1]) /\ LastOf(t) = LastOf(q)
  <2>1. Len(t) \in Nat \ {0}
    BY <1>1, <1>4, EmptySeq
  <2>2. 1 \in 1 .. Len(t) /\ 1 + 1 \in 1 .. Len(q) /\ t[1] = q[1 + 1]
    BY <1>1, <2>1
  <2>3. Len(t) \in 1 .. Len(t) /\ Len(t) + 1 = Len(q)
    BY <1>1, <2>1
  <2>4. t[Len(t)] = q[Len(q)]
    BY <1>1, <2>3
  <2> QED BY <1>2, <2>2, <2>4 DEF Chain, LastOf
<1>5. t = <<>> => LastOf(q) = q[1]
  <2>1. t = <<>> => Len(t) = 0
    BY Nothing
  <2>2. t = <<>> => Len(q) = 1
    BY <1>1, <2>1
  <2> QED BY <2>2 DEF LastOf
<1>6. OnlyDeltas(q) => q[1].op = "delta" /\ OnlyDeltas(t)
  BY <1>1, <1>2 DEF OnlyDeltas
<1>7. ASSUME NEW i \in 1 .. Len(q), NEW m, NEW k \in Nat, NEW n \in Nat, RestAt(q, i, m, k, n)
      PROVE  RestAt(t, i - 1, m, k, n)
  <2>1. (i - 1) + (n - k) <= Len(t)
    BY <1>1, <1>7 DEF RestAt
  <2>2. ASSUME NEW j \in (i - 1) + 1 .. Len(t)
        PROVE  IF j <= (i - 1) + (n - k)
               THEN t[j].op = "content_batch" /\ SameTransfer(t[j], m) /\ t[j].count = k + (j - (i - 1)) - 1
               ELSE t[j].op = "delta"
    <3>1. /\ j + 1 \in i + 1 .. Len(q) /\ t[j] = q[j + 1]
          /\ k + (j - (i - 1)) - 1 = k + ((j + 1) - i) - 1
          /\ j <= (i - 1) + (n - k) <=> j + 1 <= i + (n - k)
      BY <1>1
    <3>2. IF j + 1 <= i + (n - k)
          THEN q[j + 1].op = "content_batch" /\ SameTransfer(q[j + 1], m) /\ q[j + 1].count = k + ((j + 1) - i) - 1
          ELSE q[j + 1].op = "delta"
      BY <1>7, <3>1 DEF RestAt
    <3> QED BY <3>1, <3>2
  <2> QED BY <2>1, <2>2 DEF RestAt
<1>8. ASSUME SnapshotIn(q)
      PROVE  \/ SnapshotIn(t)
             \/ Starts(q[1]) /\ RestAt(t, 0, q[1], 0, Batches(q[1]))
  <2>1. PICK i \in 1 .. Len(q) : Starts(q[i]) /\ RestAt(q, i, q[i], 0, Batches(q[i]))
    BY <1>8 DEF SnapshotIn
  <2>2. Batches(q[i]) \in Nat
    BY Places, BatchesCounted
  <2>3. RestAt(t, i - 1, q[i], 0, Batches(q[i]))
    BY <1>7, <2>1, <2>2
  <2>4. CASE i = 1
    BY <2>1, <2>3, <2>4
  <2>5. CASE i # 1
    <3>1. i - 1 \in 1 .. Len(t) /\ (i - 1) + 1 = i
      BY <1>1, <2>5
    <3>2. t[i - 1] = q[i]
      BY <1>1, <3>1
    <3> QED BY <2>1, <2>3, <3>1, <3>2 DEF SnapshotIn
  <2> QED BY <2>4, <2>5
<1>9. ASSUME NEW m, NEW k \in Nat, NEW n \in Nat, k < n, RestAt(q, 0, m, k, n)
      PROVE  /\ q[1].op = "content_batch" /\ SameTransfer(q[1], m) /\ q[1].count = k
             /\ RestAt(t, 0, m, k + 1, n)
  <2>1. 1 \in 0 + 1 .. Len(q) /\ 1 <= 0 + (n - k) /\ k + (1 - 0) - 1 = k
    BY <1>1, <1>9
  <2>2. q[1].op = "content_batch" /\ SameTransfer(q[1], m) /\ q[1].count = k + (1 - 0) - 1
    BY <1>9, <2>1 DEF RestAt
  <2>3. 0 + (n - (k + 1)) <= Len(t)
    BY <1>1, <1>9 DEF RestAt
  <2>4. ASSUME NEW j \in 0 + 1 .. Len(t)
        PROVE  IF j <= 0 + (n - (k + 1))
               THEN t[j].op = "content_batch" /\ SameTransfer(t[j], m) /\ t[j].count = (k + 1) + (j - 0) - 1
               ELSE t[j].op = "delta"
    <3>1. /\ j + 1 \in 0 + 1 .. Len(q) /\ t[j] = q[j + 1]
          /\ (k + 1) + (j - 0) - 1 = k + ((j + 1) - 0) - 1
          /\ j <= 0 + (n - (k + 1)) <=> j + 1 <= 0 + (n - k)
      BY <1>1
    <3>2. IF j + 1 <= 0 + (n - k)
          THEN q[j + 1].op = "content_batch" /\ SameTransfer(q[j + 1], m) /\ q[j + 1].count = k + ((j + 1) - 0) - 1
          ELSE q[j + 1].op = "delta"
      BY <1>9, <3>1 DEF RestAt
    <3> QED BY <3>1, <3>2
  <2>5. RestAt(t, 0, m, k + 1, n)
    BY <2>3, <2>4 DEF RestAt
  <2> QED BY <2>1, <2>2, <2>5
<1>10. \A m, k, n : k \in Nat /\ n \in Nat /\ k < n /\ RestAt(q, 0, m, k, n) =>
         /\ q[1].op = "content_batch" /\ SameTransfer(q[1], m) /\ q[1].count = k
         /\ RestAt(t, 0, m, k + 1, n)
  BY <1>9
<1> QED BY <1>3, <1>4, <1>5, <1>6, <1>8, <1>10 DEF t

\* A cancelled transfer is cut off, never mixed.
LEMMA PrefixFollows ==
  ASSUME NEW q \in Seq(Frame), NEW kept \in 0 .. Len(q), Chain(q)
  PROVE  /\ Chain(SubSeq(q, 1, kept))
         /\ SubSeq(q, 1, kept) # <<>> => q # <<>> /\ SubSeq(q, 1, kept)[1] = q[1]
<1> DEFINE p == SubSeq(q, 1, kept)
<1>1. p \in Seq(Frame) /\ Len(p) = kept /\ \A i \in 1 .. kept : p[i] = q[i] /\ i \in 1 .. Len(q)
  BY PrefixKeeps
<1> HIDE DEF p
<1>2. Chain(p)
  BY <1>1 DEF Chain
<1>3. ASSUME p # <<>> PROVE q # <<>> /\ p[1] = q[1]
  <2>1. Len(p) \in Nat \ {0}
    BY <1>1, <1>3, EmptySeq
  <2>2. 1 \in 1 .. kept /\ 1 \in 1 .. Len(q)
    BY <1>1, <2>1
  <2> QED BY <1>1, <2>2, Nothing
<1> QED BY <1>2, <1>3 DEF p

-------------------------------------------------------------------------------
(* What happens to one browser *)

\* Revisions of frames are numbers.
LEMMA RevisionsAreNumbers ==
  ASSUME NEW q \in Seq(Frame)
  PROVE  /\ \A i \in 1 .. Len(q) : q[i] \in Frame /\ q[i].revision \in Nat
         /\ \A r \in Nat, n \in Nat : r <= n /\ UpTo(r, q) => UpTo(n, q)
<1>1. ASSUME NEW i \in 1 .. Len(q) PROVE q[i] \in Frame /\ q[i].revision \in Nat
  <2>1. q[i] \in Frame
    BY ElementOfSeq
  <2> QED BY <2>1 DEF Frame
<1> QED BY <1>1 DEF UpTo

\* What a browser has is a matter of types.
LEMMA TypesOf ==
  ASSUME Types, NEW c \in Client
  PROVE  /\ revisions \in Seq(State) /\ Len(revisions) \in Nat
         /\ down[c] \in Seq(Frame) /\ queue[c] \in Seq(Frame) /\ up[c] \in Seq(Command)
         /\ batch[c] # Idle => batch[c] \in Batch /\ batch[c].revision \in Nat
         /\ parts[c] # Idle => parts[c] \in Transfer
         /\ seen[c] \in Nat /\ syncRevision[c] \in Nat
         /\ last[c] \in State \cup {NoState} /\ sync[c] \in State \cup {NoState}
BY LenProperties DEF Types, Batch

\* Nothing of a browser changes, while others may be told of new revisions.
LEMMA Unmoved ==
  ASSUME Types, Types', NEW c \in Client, ClientInv(c), Grown(revisions, revisions'),
         down'[c] = down[c], queue'[c] = queue[c], batch'[c] = batch[c], parts'[c] = parts[c],
         seen'[c] = seen[c], sync'[c] = sync[c], syncRevision'[c] = syncRevision[c],
         up'[c] = up[c], awaiting'[c] = awaiting[c], nonce'[c] = nonce[c], last'[c] = last[c],
         c \in subscribed' <=> c \in subscribed, c \in open' <=> c \in open
  PROVE  ClientInv(c)'
<1>1. /\ \A r, s : Stamped(revisions, r, s) => Stamped(revisions', r, s)
      /\ \A r, m : Follows(revisions, r, m) => Follows(revisions', r, m)
      /\ \A q : FramesStamped(revisions, q) => FramesStamped(revisions', q)
      /\ \A r, q : After(revisions, r, q) => After(revisions', r, q)
      /\ \A q : Ordered(revisions, q) => Ordered(revisions', q)
  BY GrownKeeps DEF Types
<1>2. Len(revisions) \in Nat /\ Len(revisions') \in Nat
  BY LenProperties DEF Types
<1>3. TrueStates(c)'
  BY <1>1 DEF ClientInv, TrueStates
<1>4. InOrder(c)'
  <2>1. seen[c] <= Len(revisions')
    BY <1>2, TypesOf DEF ClientInv, InOrder, Grown
  <2> QED BY <1>1, <2>1 DEF ClientInv, InOrder
<1>5. BaseIsNewest(c)'
  <2> SUFFICES ASSUME c \in subscribed
               PROVE  \E r \in 1 .. Len(revisions') : revisions'[r] = last[c] /\ SentUpTo(c, r)'
    BY DEF BaseIsNewest
  <2>1. PICK r \in 1 .. Len(revisions) : revisions[r] = last[c] /\ SentUpTo(c, r)
    BY DEF ClientInv, BaseIsNewest
  <2>2. r \in 1 .. Len(revisions') /\ revisions'[r] = revisions[r]
    BY <1>2 DEF Grown
  <2>3. SentUpTo(c, r)'
    BY <2>1 DEF SentUpTo
  <2> QED BY <2>1, <2>2, <2>3
<1>6. BatchesFollow(c)'
  BY DEF ClientInv, BatchesFollow
<1>7. OnCourse(c)'
  BY DEF ClientInv, OnCourse, Collecting, Patching, Tip, InScope
<1> QED BY <1>3, <1>4, <1>5, <1>6, <1>7 DEF ClientInv

\* pushUpdateToSubscribers: a subscriber is sent another state.
LEMMA UpdateReaches ==
  ASSUME Types, Types', NEW c \in Client, ClientInv(c), NEW s \in State, NEW m \in Frame,
         revisions' = RevisionsWith(s), c \in subscribed, last[c] # s,
         m.op \in {"full", "delta"}, m.revision = Len(revisions'), m.state = s,
         m.op = "delta" => m.base = last[c],
         down'[c] = Append(down[c], m), last'[c] = s,
         queue'[c] = queue[c], batch'[c] = batch[c], parts'[c] = parts[c],
         seen'[c] = seen[c], sync'[c] = sync[c], syncRevision'[c] = syncRevision[c],
         up'[c] = up[c], awaiting'[c] = awaiting[c], nonce'[c] = nonce[c],
         subscribed' = subscribed, open' = open
  PROVE  ClientInv(c)'
<1>1. /\ revisions' \in Seq(State) /\ Grown(revisions, revisions')
      /\ Len(revisions') \in Nat \ {0} /\ Stamped(revisions', Len(revisions'), s)
  BY RevisionsGrow DEF Types
<1>2. /\ \A r, x : Stamped(revisions, r, x) => Stamped(revisions', r, x)
      /\ \A r, n : Follows(revisions, r, n) => Follows(revisions', r, n)
      /\ \A q : FramesStamped(revisions, q) => FramesStamped(revisions', q)
      /\ \A r, q : After(revisions, r, q) => After(revisions', r, q)
      /\ \A q : Ordered(revisions, q) => Ordered(revisions', q)
  BY <1>1, GrownKeeps DEF Types
<1>3. /\ Len(revisions) \in Nat /\ down[c] \in Seq(Frame) /\ queue[c] \in Seq(Frame)
      /\ batch[c] # Idle => batch[c].revision \in Nat
      /\ seen[c] \in Nat
      /\ parts[c] # Idle => parts[c] \in Transfer
  BY TypesOf
<1>4. PICK top \in 1 .. Len(revisions) : revisions[top] = last[c] /\ SentUpTo(c, top)
  BY DEF ClientInv, BaseIsNewest
<1>5. top < Len(revisions')
  <2>1. revisions'[top] = last[c] /\ top <= Len(revisions')
    BY <1>1, <1>3, <1>4 DEF Grown
  <2>2. revisions'[Len(revisions')] = s
    BY <1>1 DEF Stamped
  <2>3. top # Len(revisions')
    BY <2>1, <2>2
  <2> QED BY <1>1, <1>3, <2>1, <2>3
<1>6. ASSUME NEW r \in 0 .. top PROVE Follows(revisions', r, m)
  <2>1. r <= m.revision
    BY <1>5, <1>1, <1>3
  <2>2. ASSUME m.op = "delta", m.revision = r + 1 PROVE Stamped(revisions', r, m.base)
    <3>1. r = top
      BY <1>1, <1>3, <1>5, <2>2
    <3>2. Stamped(revisions, top, last[c])
      BY <1>4 DEF Stamped
    <3> QED BY <1>2, <2>2, <3>1, <3>2
  <2> QED BY <2>1, <2>2 DEF Follows
<1>7. \A i \in 1 .. Len(down[c]) : Follows(revisions', down[c][i].revision, m)
  <2> SUFFICES ASSUME NEW i \in 1 .. Len(down[c]) PROVE Follows(revisions', down[c][i].revision, m)
    OBVIOUS
  <2>1. down[c][i].revision \in 0 .. top
    BY <1>3, <1>4, RevisionsAreNumbers DEF SentUpTo, UpTo
  <2> QED BY <1>6, <2>1
<1>8. Stamped(revisions', m.revision, m.state)
  BY <1>1
<1>9. /\ FramesStamped(revisions', down[c]) /\ Ordered(revisions', down[c])
  BY <1>2 DEF ClientInv, TrueStates, InOrder
<1>10. PICK d : d = Append(down[c], m)
  OBVIOUS
<1>11. /\ d \in Seq(Frame) /\ d # <<>> /\ LastOf(d) = m
       /\ FramesStamped(revisions', d) /\ Ordered(revisions', d)
       /\ \A r : After(revisions', r, down[c]) /\ Follows(revisions', r, m) => After(revisions', r, d)
       /\ \A r : UpTo(r, down[c]) /\ m.revision <= r => UpTo(r, d)
       /\ \A i \in 1 .. Len(d) :
            (i \in 1 .. Len(down[c]) /\ d[i] = down[c][i]) \/ (i = Len(down[c]) + 1 /\ d[i] = m)
  BY <1>1, <1>3, <1>7, <1>8, <1>9, <1>10, AppendOrdered
<1>12. down'[c] = d
  BY <1>10
<1>13. TrueStates(c)'
  BY <1>2, <1>11, <1>12 DEF ClientInv, TrueStates
<1>14. ASSUME NEW r \in 0 .. top, After(revisions, r, down[c]) PROVE After(revisions', r, d)
  BY <1>2, <1>6, <1>11, <1>14
<1>15. InOrder(c)'
  <2>1. \A i \in 1 .. Len(queue[c]) : After(revisions', queue[c][i].revision, d)
    <3> SUFFICES ASSUME NEW i \in 1 .. Len(queue[c]) PROVE After(revisions', queue[c][i].revision, d)
      OBVIOUS
    <3>1. queue[c][i].revision \in 0 .. top
      BY <1>3, <1>4, RevisionsAreNumbers DEF SentUpTo, UpTo
    <3>2. After(revisions, queue[c][i].revision, down[c])
      BY DEF ClientInv, InOrder
    <3> QED BY <1>14, <3>1, <3>2
  <2>2. After(revisions', seen[c], d)
    <3>1. seen[c] \in 0 .. top /\ After(revisions, seen[c], down[c])
      BY <1>3, <1>4 DEF ClientInv, InOrder, SentUpTo
    <3> QED BY <1>14, <3>1
  <2>3. batch[c] # Idle => After(revisions', batch[c].revision, d)
    <3>1. batch[c] # Idle => batch[c].revision \in 0 .. top /\ After(revisions, batch[c].revision, down[c])
      BY <1>3, <1>4 DEF ClientInv, InOrder, SentUpTo
    <3> QED BY <1>14, <3>1
  <2>4. seen[c] <= Len(revisions')
    BY <1>1, <1>3 DEF ClientInv, InOrder, Grown
  <2> QED BY <1>2, <1>11, <1>12, <2>1, <2>2, <2>3, <2>4 DEF ClientInv, InOrder
<1>16. BaseIsNewest(c)'
  <2> DEFINE n == Len(revisions')
  <2>1. n \in 1 .. Len(revisions') /\ revisions'[n] = s
    BY <1>1 DEF Stamped
  <2>2. UpTo(n, down[c]) /\ UpTo(n, queue[c])
    <3>1. top \in Nat /\ n \in Nat /\ top <= n
      BY <1>1, <1>3, <1>5
    <3> HIDE DEF n
    <3> QED BY <1>3, <1>4, <3>1, RevisionsAreNumbers DEF SentUpTo
  <2>3. UpTo(n, d)
    <3>1. m.revision <= n
      BY <1>1
    <3> HIDE DEF n
    <3> QED BY <1>11, <2>2, <3>1
  <2>4. seen[c] <= n /\ (batch[c] # Idle => batch[c].revision <= n)
    BY <1>1, <1>3, <1>4, <1>5 DEF SentUpTo
  <2> QED BY <2>1, <2>2, <2>3, <2>4, <1>12 DEF BaseIsNewest, SentUpTo
<1>17. /\ Chain(d)
       /\ SnapshotIn(down[c]) => SnapshotIn(d)
       /\ m.op = "full" => SnapshotIn(d)
       /\ OnlyDeltas(down[c]) => OnlyDeltas(d) \/ SnapshotIn(d)
       /\ \A n, k, l : k \in Nat /\ l \in Nat /\ RestAt(down[c], 0, n, k, l)
            => RestAt(d, 0, n, k, l) \/ SnapshotIn(d)
  BY <1>3, <1>10, UpdateSent DEF ClientInv, BatchesFollow
<1>18. BatchesFollow(c)'
  <2>1. d[1].op = "content_batch" => down[c] # <<>> /\ d[1] = down[c][1]
    <3>1. 1 \in 1 .. Len(d)
      BY <1>11, Places
    <3>2. CASE 1 \in 1 .. Len(down[c]) /\ d[1] = down[c][1]
      BY <3>2, Nothing
    <3>3. CASE d[1] = m
      BY <3>3
    <3> QED BY <1>11, <3>1, <3>2, <3>3
  <2> QED BY <1>12, <1>17, <2>1 DEF ClientInv, BatchesFollow
<1>19. OnCourse(c)'
  <2>1. LastOf(d).state = s
    BY <1>11
  <2>2. ASSUME up[c] = <<>> PROVE SnapshotIn(d) \/ Collecting(c)' \/ Patching(c)'
    <3>1. CASE SnapshotIn(down[c])
      BY <1>17, <3>1
    <3>2. CASE Collecting(c)
      <4>1. parts[c].next \in Nat /\ parts[c].count \in Nat
        BY <1>3, <3>2 DEF Collecting, Transfer
      <4> QED BY <1>12, <1>17, <3>2, <4>1 DEF Collecting
    <3>3. CASE Patching(c)
      BY <1>11, <1>12, <1>17, <3>3 DEF Patching, InScope
    <3> QED BY <2>2, <3>1, <3>2, <3>3 DEF ClientInv, OnCourse
  <2> QED BY <1>12, <2>1, <2>2 DEF OnCourse
<1> QED BY <1>13, <1>15, <1>16, <1>18, <1>19 DEF ClientInv

\* Nothing is newer than the newest revision.
LEMMA StampedUpTo ==
  ASSUME NEW rv, NEW q, FramesStamped(rv, q), NEW n \in Nat, Len(rv) \in Nat, Len(rv) <= n
  PROVE  UpTo(n, q)
<1> SUFFICES ASSUME NEW i \in 1 .. Len(q) PROVE q[i].revision <= n
  BY DEF UpTo
<1>1. q[i].revision \in 1 .. Len(rv)
  BY DEF FramesStamped, Stamped
<1> QED BY <1>1

\* What a browser has is not newer than the newest revision.
LEMMA NothingIsNewer ==
  ASSUME Types, NEW c \in Client, ClientInv(c), NEW n \in Nat, Len(revisions) <= n
  PROVE  SentUpTo(c, n)
<1>1. /\ Len(revisions) \in Nat
      /\ batch[c] # Idle => batch[c].revision \in 1 .. Len(revisions)
      /\ seen[c] \in Nat /\ seen[c] <= Len(revisions)
  BY TypesOf DEF ClientInv, TrueStates, InOrder, Stamped
<1>2. UpTo(n, down[c]) /\ UpTo(n, queue[c])
  BY <1>1, StampedUpTo DEF ClientInv, TrueStates
<1>3. (batch[c] # Idle => batch[c].revision <= n) /\ seen[c] <= n
  BY <1>1
<1> QED BY <1>2, <1>3 DEF SentUpTo

\* subscribeClient: the answer follows what the carrier has taken before.
LEMMA Answered ==
  ASSUME Types, Types', NEW c \in Client, ClientInv(c), NEW s \in State, NEW t, NEW kept \in 0 .. Len(down[c]),
         revisions' = RevisionsWith(s), Snapshot(t, Len(revisions'), s),
         down'[c] = SubSeq(down[c], 1, kept) \o t, last'[c] = s, c \in open',
         queue'[c] = queue[c], batch'[c] = batch[c], parts'[c] = parts[c],
         seen'[c] = seen[c], sync'[c] = sync[c], syncRevision'[c] = syncRevision[c]
  PROVE  ClientInv(c)'
<1> DEFINE n == Len(revisions')
<1>1. /\ revisions' \in Seq(State) /\ Grown(revisions, revisions')
      /\ n \in Nat \ {0} /\ Stamped(revisions', n, s)
  BY RevisionsGrow DEF Types
<1>2. /\ \A r, x : Stamped(revisions, r, x) => Stamped(revisions', r, x)
      /\ \A q : FramesStamped(revisions, q) => FramesStamped(revisions', q)
      /\ \A r, q : After(revisions, r, q) => After(revisions', r, q)
      /\ \A q : Ordered(revisions, q) => Ordered(revisions', q)
  BY <1>1, GrownKeeps DEF Types
<1>3. /\ Len(revisions) \in Nat /\ down[c] \in Seq(Frame) /\ queue[c] \in Seq(Frame)
      /\ batch[c] # Idle => batch[c].revision \in Nat
      /\ seen[c] \in Nat
  BY TypesOf
<1>4. SentUpTo(c, n)
  BY <1>1, NothingIsNewer DEF Grown
<1>5. PICK p : p = SubSeq(down[c], 1, kept)
  OBVIOUS
<1>6. p \in Seq(Frame) /\ Len(p) = kept /\ \A i \in 1 .. kept : p[i] = down[c][i] /\ i \in 1 .. Len(down[c])
  BY <1>3, <1>5, PrefixKeeps
<1>7. Chain(p) /\ (p # <<>> => down[c] # <<>> /\ p[1] = down[c][1])
  BY <1>3, <1>5, PrefixFollows DEF ClientInv, BatchesFollow
<1>8. t \in Seq(Frame)
  BY DEF Snapshot
<1>9. /\ FramesStamped(revisions', t) /\ Ordered(revisions', t)
      /\ \A k \in 0 .. n : After(revisions', k, t)
      /\ p \o t # <<>> /\ LastOf(p \o t).state = s
      /\ SnapshotIn(p \o t) /\ Chain(p \o t)
      /\ UpTo(n, t)
      /\ p = <<>> => (p \o t)[1].op # "content_batch"
  <2>1. PICK rv : rv = revisions'
    OBVIOUS
  <2>2. PICK k : k = n
    OBVIOUS
  <2>3. rv \in Seq(State) /\ k \in Nat /\ Snapshot(t, k, s) /\ Stamped(rv, k, s)
    BY <1>1, <2>1, <2>2
  <2>4. /\ FramesStamped(rv, t) /\ Ordered(rv, t)
        /\ \A i \in 0 .. k : After(rv, i, t)
        /\ p \o t # <<>> /\ LastOf(p \o t).state = s
        /\ SnapshotIn(p \o t) /\ Chain(p \o t)
        /\ UpTo(k, t)
        /\ p = <<>> => (p \o t)[1].op # "content_batch"
    BY <1>6, <1>7, <2>3, SnapshotSent
  <2> QED BY <2>1, <2>2, <2>4
<1>10. FramesStamped(revisions', down[c]) /\ Ordered(revisions', down[c])
  BY <1>2 DEF ClientInv, TrueStates, InOrder
<1>11. /\ FramesStamped(revisions', p \o t) /\ Ordered(revisions', p \o t)
       /\ \A r \in 0 .. n : After(revisions', r, down[c]) => After(revisions', r, p \o t)
  <2>1. n \in Nat /\ UpTo(n, down[c]) /\ Len(p) <= Len(down[c])
    BY <1>1, <1>4, <1>6 DEF SentUpTo
  <2> HIDE DEF n
  <2> QED BY <1>1, <1>3, <1>6, <1>8, <1>9, <1>10, <2>1, SentOrdered
<1>12. PICK d : d = p \o t
  OBVIOUS
<1>13. down'[c] = d
  BY <1>5, <1>12
<1>14. TrueStates(c)'
  BY <1>2, <1>11, <1>12, <1>13 DEF ClientInv, TrueStates
<1>15. ASSUME NEW r \in 0 .. n, After(revisions, r, down[c]) PROVE After(revisions', r, d)
  BY <1>2, <1>11, <1>12, <1>15
<1>16. InOrder(c)'
  <2>1. \A i \in 1 .. Len(queue[c]) : After(revisions', queue[c][i].revision, d)
    <3> SUFFICES ASSUME NEW i \in 1 .. Len(queue[c]) PROVE After(revisions', queue[c][i].revision, d)
      OBVIOUS
    <3>1. queue[c][i].revision \in 0 .. n
      BY <1>1, <1>3, <1>4, RevisionsAreNumbers DEF SentUpTo, UpTo
    <3>2. After(revisions, queue[c][i].revision, down[c])
      BY DEF ClientInv, InOrder
    <3> QED BY <1>15, <3>1, <3>2
  <2>2. After(revisions', seen[c], d)
    <3>1. seen[c] \in 0 .. n /\ After(revisions, seen[c], down[c])
      BY <1>1, <1>3, <1>4 DEF ClientInv, InOrder, SentUpTo
    <3> QED BY <1>15, <3>1
  <2>3. batch[c] # Idle => After(revisions', batch[c].revision, d)
    <3>1. batch[c] # Idle => batch[c].revision \in 0 .. n /\ After(revisions, batch[c].revision, down[c])
      BY <1>1, <1>3, <1>4 DEF ClientInv, InOrder, SentUpTo
    <3> QED BY <1>15, <3>1
  <2>4. seen[c] <= Len(revisions')
    BY <1>4 DEF SentUpTo
  <2> QED BY <1>2, <1>11, <1>12, <1>13, <2>1, <2>2, <2>3, <2>4 DEF ClientInv, InOrder
<1>17. BaseIsNewest(c)'
  <2>1. n \in 1 .. Len(revisions') /\ revisions'[n] = s
    BY <1>1 DEF Stamped
  <2>2. UpTo(n, d)
    <3>1. n \in Nat
      BY <1>1
    <3> HIDE DEF n
    <3> QED BY <3>1, <1>11, <1>12, <2>1, StampedUpTo DEF n
  <2> QED BY <1>4, <1>13, <2>1, <2>2 DEF BaseIsNewest, SentUpTo
<1>18. BatchesFollow(c)'
  <2>1. d[1].op = "content_batch" => down[c] # <<>> /\ d[1] = down[c][1]
    <3>1. CASE p = <<>>
      BY <1>9, <1>12, <3>1
    <3>2. CASE p # <<>>
      <4>1. 1 \in 1 .. Len(p)
        BY <1>6, <3>2, Places
      <4>2. d[1] = p[1]
        BY <1>6, <1>8, <1>12, <4>1, ConcatPlaces
      <4> QED BY <1>7, <3>2, <4>2
    <3> QED BY <3>1, <3>2
  <2> QED BY <1>9, <1>12, <1>13, <2>1 DEF ClientInv, BatchesFollow
<1>19. OnCourse(c)'
  BY <1>9, <1>12, <1>13 DEF OnCourse
<1> QED BY <1>14, <1>16, <1>17, <1>18, <1>19 DEF ClientInv

\* A subscription ends, or the connection is lost.
LEMMA CutOff ==
  ASSUME Types, Types', NEW c \in Client, ClientInv(c), NEW kept \in 0 .. Len(down[c]),
         c \notin subscribed', c \notin open' => up'[c] = <<>>,
         down'[c] = SubSeq(down[c], 1, kept), revisions' = revisions,
         queue'[c] = queue[c], batch'[c] = batch[c], parts'[c] = parts[c],
         seen'[c] = seen[c], sync'[c] = sync[c], syncRevision'[c] = syncRevision[c]
  PROVE  ClientInv(c)'
<1>1. down[c] \in Seq(Frame) /\ Len(down[c]) \in Nat
  BY TypesOf, LenProperties
<1>2. PICK p : p = SubSeq(down[c], 1, kept)
  OBVIOUS
<1>3. p \in Seq(Frame) /\ Len(p) = kept /\ \A i \in 1 .. kept : p[i] = down[c][i] /\ i \in 1 .. Len(down[c])
  BY <1>1, <1>2, PrefixKeeps
<1>4. Chain(p) /\ (p # <<>> => down[c] # <<>> /\ p[1] = down[c][1])
  BY <1>1, <1>2, PrefixFollows DEF ClientInv, BatchesFollow
<1>5. down'[c] = p
  BY <1>2
<1>6. /\ FramesStamped(revisions, p) /\ Ordered(revisions, p)
      /\ \A r : After(revisions, r, down[c]) => After(revisions, r, p)
  BY <1>3 DEF ClientInv, TrueStates, InOrder, FramesStamped, Ordered, After
<1>7. TrueStates(c)'
  BY <1>5, <1>6 DEF ClientInv, TrueStates
<1>8. InOrder(c)'
  BY <1>5, <1>6 DEF ClientInv, InOrder
<1>9. BatchesFollow(c)'
  BY <1>4, <1>5 DEF ClientInv, BatchesFollow
<1> QED BY <1>7, <1>8, <1>9 DEF ClientInv, BaseIsNewest, OnCourse

\* A browser asks for the state, or gives up what it has queued while it waits for one.
LEMMA Asked ==
  ASSUME Types, Types', NEW c \in Client, ClientInv(c),
         revisions' = revisions, subscribed' = subscribed, last' = last, down' = down,
         batch'[c] = batch[c], seen'[c] = seen[c],
         queue'[c] \in {queue[c], <<>>}, parts'[c] \in {parts[c], Idle},
         \/ syncRevision'[c] = 0
         \/ syncRevision'[c] = syncRevision[c] /\ sync'[c] = sync[c],
         c \notin open' => up'[c] = <<>>,
         c \in subscribed =>
           \/ up'[c] # <<>>
           \/ awaiting[c] /\ up'[c] = up[c] /\ parts'[c] = parts[c]
  PROVE  ClientInv(c)'
<1>1. /\ Len(<<>>) = 0 /\ Ordered(revisions, <<>>) /\ FramesStamped(revisions, <<>>)
      /\ \A r : After(revisions, r, <<>>) /\ UpTo(r, <<>>)
  BY Nothing
<1>2. TrueStates(c)'
  BY <1>1 DEF ClientInv, TrueStates
<1>3. InOrder(c)'
  BY <1>1 DEF ClientInv, InOrder
<1>4. BaseIsNewest(c)'
  <2>1. ASSUME NEW r, SentUpTo(c, r) PROVE SentUpTo(c, r)'
    BY <1>1, <2>1 DEF SentUpTo
  <2> QED BY <2>1 DEF ClientInv, BaseIsNewest
<1>5. BatchesFollow(c)'
  BY DEF ClientInv, BatchesFollow
<1>6. OnCourse(c)'
  <2> SUFFICES ASSUME c \in subscribed, up'[c] = <<>> PROVE SnapshotIn(down[c]) \/ Collecting(c)'
    BY DEF ClientInv, OnCourse
  <2>1. SnapshotIn(down[c]) \/ Collecting(c)
    BY DEF ClientInv, OnCourse, Patching
  <2> QED BY <2>1 DEF Collecting
<1> QED BY <1>2, <1>3, <1>4, <1>5, <1>6 DEF ClientInv

-------------------------------------------------------------------------------
(* A browser receives a frame *)

\* handleFrame: the frame was the oldest under way, and is the newest that the browser has.
LEMMA FrameTaken ==
  ASSUME Types, Types', NEW c \in Client, ClientInv(c), down[c] # <<>>, NEW n \in Frame,
         down'[c] = Tail(down[c]), revisions' = revisions, subscribed' = subscribed,
         last'[c] = last[c], batch'[c] = batch[c], seen'[c] = seen[c],
         sync'[c] = sync[c], syncRevision'[c] = syncRevision[c],
         \/ queue'[c] = queue[c]
         \/ queue'[c] = Append(queue[c], down[c][1])
         \/ queue'[c] = <<n>> /\ n.op # "delta" /\ SameTransfer(n, down[c][1]),
         parts'[c] # Idle => \/ SameTransfer(parts'[c], down[c][1])
                             \/ parts[c] # Idle /\ SameTransfer(parts'[c], parts[c])
  PROVE  TrueStates(c)' /\ InOrder(c)' /\ BaseIsNewest(c)'
<1>1. /\ revisions \in Seq(State) /\ Len(revisions) \in Nat
      /\ down[c] \in Seq(Frame) /\ queue[c] \in Seq(Frame)
      /\ batch[c] # Idle => batch[c].revision \in Nat
      /\ seen[c] \in Nat
  BY TypesOf
<1>2. PICK h : h = down[c][1]
  OBVIOUS
<1>3. PICK t : t = Tail(down[c])
  OBVIOUS
<1>4. h \in Frame /\ h.revision \in Nat /\ n.revision \in Nat
  <2>1. h \in Frame
    BY <1>1, <1>2, Places
  <2> QED BY <2>1 DEF Frame
<1>5. FramesStamped(revisions, down[c]) /\ Ordered(revisions, down[c])
  BY DEF ClientInv, TrueStates, InOrder
<1>6. /\ FramesStamped(revisions, t) /\ Ordered(revisions, t)
      /\ After(revisions, h.revision, t)
      /\ Stamped(revisions, h.revision, h.state)
      /\ \A r : After(revisions, r, down[c]) => After(revisions, r, t) /\ Follows(revisions, r, h)
      /\ \A r : UpTo(r, down[c]) => UpTo(r, t) /\ h.revision <= r
  BY <1>1, <1>2, <1>3, <1>5, TailOrdered
<1>7. PICK q : q = queue'[c]
  OBVIOUS
<1>8. /\ FramesStamped(revisions, queue[c]) /\ Ordered(revisions, queue[c])
      /\ \A i \in 1 .. Len(queue[c]) : Follows(revisions, queue[c][i].revision, h)
      /\ \A i \in 1 .. Len(queue[c]) : After(revisions, queue[c][i].revision, t)
  BY <1>6 DEF ClientInv, TrueStates, InOrder
\* The queue that results is in order, and all of it is older than what is under way.
<1>9. /\ FramesStamped(revisions, q) /\ Ordered(revisions, q)
      /\ \A i \in 1 .. Len(q) : After(revisions, q[i].revision, t)
      /\ \A r \in Nat : After(revisions, r, queue[c]) /\ Follows(revisions, r, h) => After(revisions, r, q)
      /\ \A r : UpTo(r, queue[c]) /\ h.revision <= r => UpTo(r, q)
  <2>1. CASE queue'[c] = queue[c]
    BY <1>7, <1>8, <2>1
  <2>2. CASE queue'[c] = Append(queue[c], down[c][1])
    <3>1. q = Append(queue[c], h)
      BY <1>2, <1>7, <2>2
    <3>2. /\ FramesStamped(revisions, q) /\ Ordered(revisions, q)
          /\ \A r : After(revisions, r, queue[c]) /\ Follows(revisions, r, h) => After(revisions, r, q)
          /\ \A r : UpTo(r, queue[c]) /\ h.revision <= r => UpTo(r, q)
          /\ \A i \in 1 .. Len(q) :
               (i \in 1 .. Len(queue[c]) /\ q[i] = queue[c][i]) \/ (i = Len(queue[c]) + 1 /\ q[i] = h)
      <4>1. PICK k : k = queue[c]
        OBVIOUS
      <4>2. /\ k \in Seq(Frame) /\ q = Append(k, h) /\ FramesStamped(revisions, k) /\ Ordered(revisions, k)
            /\ \A i \in 1 .. Len(k) : Follows(revisions, k[i].revision, h)
        BY <1>1, <1>8, <3>1, <4>1
      <4>3. /\ FramesStamped(revisions, q) /\ Ordered(revisions, q)
            /\ \A r : After(revisions, r, k) /\ Follows(revisions, r, h) => After(revisions, r, q)
            /\ \A r : UpTo(r, k) /\ h.revision <= r => UpTo(r, q)
            /\ \A i \in 1 .. Len(q) :
                 (i \in 1 .. Len(k) /\ q[i] = k[i]) \/ (i = Len(k) + 1 /\ q[i] = h)
        BY <1>1, <1>4, <1>6, <4>2, AppendOrdered
      <4> QED BY <4>1, <4>3
    <3>3. \A i \in 1 .. Len(q) : After(revisions, q[i].revision, t)
      BY <1>6, <1>8, <3>2
    <3> QED BY <3>2, <3>3
  <2>3. CASE queue'[c] = <<n>> /\ n.op # "delta" /\ SameTransfer(n, down[c][1])
    <3>1. q = <<n>> /\ n.revision = h.revision /\ n.state = h.state
      BY <1>2, <1>7, <2>3 DEF SameTransfer
    <3>2. /\ \A i \in 1 .. Len(q) : q[i] = n
          /\ Ordered(revisions, q)
          /\ FramesStamped(revisions, q) <=> Stamped(revisions, n.revision, n.state)
          /\ \A r : After(revisions, r, q) <=> Follows(revisions, r, n)
          /\ \A r : UpTo(r, q) <=> n.revision <= r
      BY <3>1, Alone
    <3>3. \A r \in Nat : Follows(revisions, r, h) => Follows(revisions, r, n)
      BY <2>3, <3>1 DEF Follows
    <3> QED BY <1>6, <3>1, <3>2, <3>3
  <2> QED BY <2>1, <2>2, <2>3
<1>10. TrueStates(c)'
  <2>1. parts'[c] # Idle => Stamped(revisions, parts'[c].revision, parts'[c].state)
    BY <1>2, <1>6 DEF ClientInv, TrueStates, SameTransfer
  <2> QED BY <1>3, <1>6, <1>7, <1>9, <2>1 DEF ClientInv, TrueStates
<1>11. InOrder(c)'
  <2>1. After(revisions, seen[c], t) /\ After(revisions, seen[c], q)
    BY <1>1, <1>6, <1>9 DEF ClientInv, InOrder
  <2>2. batch[c] # Idle => After(revisions, batch[c].revision, t) /\ After(revisions, batch[c].revision, q)
    BY <1>1, <1>6, <1>9 DEF ClientInv, InOrder
  <2> QED BY <1>3, <1>6, <1>7, <1>9, <2>1, <2>2 DEF ClientInv, InOrder
<1>12. BaseIsNewest(c)'
  <2>1. ASSUME NEW r, SentUpTo(c, r) PROVE SentUpTo(c, r)'
    BY <1>3, <1>6, <1>7, <1>9, <2>1 DEF SentUpTo
  <2> QED BY <2>1 DEF ClientInv, BaseIsNewest
<1> QED BY <1>10, <1>11, <1>12

\* What is under way behind the frame that was taken.
LEMMA Behind ==
  ASSUME Types, NEW c \in Client, ClientInv(c), down[c] # <<>>, NEW t, t = Tail(down[c]), NEW h, h = down[c][1]
  PROVE  /\ h \in Frame /\ h = Head(down[c]) /\ t \in Seq(Frame) /\ Chain(t)
         /\ t # <<>> => Adjacent(h, t[1])
         /\ c \in subscribed => /\ t # <<>> => LastOf(t).state = last[c]
                                /\ t = <<>> => h.state = last[c]
         /\ OnlyDeltas(down[c]) => h.op = "delta" /\ OnlyDeltas(t)
         /\ SnapshotIn(down[c]) => SnapshotIn(t) \/ (Starts(h) /\ RestAt(t, 0, h, 0, Batches(h)))
         /\ Collecting(c) => /\ h.op = "content_batch" /\ SameTransfer(h, parts[c])
                             /\ h.count = parts[c].next
                             /\ RestAt(t, 0, parts[c], parts[c].next + 1, parts[c].count)
<1>1. /\ down[c] \in Seq(Frame)
      /\ parts[c] # Idle => parts[c].next \in Nat /\ parts[c].count \in Nat /\ parts[c].next < parts[c].count
  BY TypesOf DEF ClientInv, BatchesFollow, Transfer
<1>2. Chain(down[c])
  BY DEF ClientInv, BatchesFollow
<1>3. h \in Frame /\ h = Head(down[c]) /\ t \in Seq(Frame)
  BY <1>1, TailPlaces
<1>4. /\ Chain(t)
      /\ t # <<>> => Adjacent(h, t[1])
      /\ t # <<>> => LastOf(t) = LastOf(down[c])
      /\ t = <<>> => LastOf(down[c]) = h
      /\ OnlyDeltas(down[c]) => h.op = "delta" /\ OnlyDeltas(t)
      /\ SnapshotIn(down[c]) => SnapshotIn(t) \/ (Starts(h) /\ RestAt(t, 0, h, 0, Batches(h)))
      /\ \A m, k, n : k \in Nat /\ n \in Nat /\ k < n /\ RestAt(down[c], 0, m, k, n) =>
           /\ h.op = "content_batch" /\ SameTransfer(h, m) /\ h.count = k
           /\ RestAt(t, 0, m, k + 1, n)
  BY <1>1, <1>2, TailFollows
<1>5. c \in subscribed => LastOf(down[c]).state = last[c]
  BY DEF ClientInv, OnCourse
<1> QED BY <1>1, <1>3, <1>4, <1>5 DEF Collecting

\* What follows a complete transfer are deltas.
LEMMA NothingLeft ==
  ASSUME NEW q \in Seq(Frame), NEW m, NEW n \in Nat, RestAt(q, 0, m, n, n)
  PROVE  OnlyDeltas(q)
<1>1. \A j \in 1 .. Len(q) : ~(j <= 0 + (n - n)) /\ j \in 0 + 1 .. Len(q)
  BY LenProperties
<1> QED BY <1>1 DEF RestAt, OnlyDeltas

\* enqueueSessionSync of a frame that is not part of a transfer.
LEMMA ReceiveSyncKeeps ==
  ASSUME Types, Types', NEW c \in Client, ClientInv(c), ReceiveSync(c)
  PROVE  ClientInv(c)'
<1>1. down[c] # <<>> /\ down'[c] = Tail(down[c])
  BY DEF ReceiveSync, Frames, Taken, Types
<1>2. PICK h : h = down[c][1]
  OBVIOUS
<1>3. PICK t : t = Tail(down[c])
  OBVIOUS
<1>4. /\ h \in Frame /\ h = Head(down[c]) /\ t \in Seq(Frame) /\ Chain(t)
      /\ t # <<>> => Adjacent(h, t[1])
      /\ c \in subscribed => /\ t # <<>> => LastOf(t).state = last[c]
                             /\ t = <<>> => h.state = last[c]
      /\ OnlyDeltas(down[c]) => h.op = "delta" /\ OnlyDeltas(t)
      /\ SnapshotIn(down[c]) => SnapshotIn(t) \/ (Starts(h) /\ RestAt(t, 0, h, 0, Batches(h)))
      /\ Collecting(c) => h.op = "content_batch"
  BY <1>1, <1>2, <1>3, Behind
<1>5. h.op \notin {"content_manifest", "content_batch"}
  BY <1>4 DEF ReceiveSync
<1>6. /\ UNCHANGED <<revisions, subscribed, last, open, up, nonce, parts, batch, sync, syncRevision, seen>>
      /\ EnqueueSync(c, h)
  BY <1>4 DEF ReceiveSync, serverVars
<1>7. \/ h.op = "delta" /\ awaiting[c] /\ queue'[c] = queue[c] /\ awaiting'[c]
      \/ h.op = "delta" /\ ~awaiting[c] /\ queue'[c] = Append(queue[c], h) /\ ~awaiting'[c]
      \/ h.op # "delta" /\ queue'[c] = <<h>> /\ ~awaiting'[c]
  BY <1>6 DEF EnqueueSync, Types
<1>8. TrueStates(c)' /\ InOrder(c)' /\ BaseIsNewest(c)'
  <2>1. \/ queue'[c] = queue[c]
        \/ queue'[c] = Append(queue[c], down[c][1])
        \/ queue'[c] = <<h>> /\ h.op # "delta" /\ SameTransfer(h, down[c][1])
    BY <1>2, <1>7 DEF SameTransfer
  <2>2. parts'[c] # Idle => parts[c] # Idle /\ SameTransfer(parts'[c], parts[c])
    BY <1>6 DEF SameTransfer
  <2> QED BY <1>1, <1>4, <1>6, <2>1, <2>2, FrameTaken
<1>9. BatchesFollow(c)'
  <2>1. t # <<>> => t[1].op # "content_batch"
    BY <1>4, <1>5 DEF Adjacent
  <2> QED BY <1>1, <1>3, <1>4, <1>6, <2>1 DEF ClientInv, BatchesFollow
<1>10. OnCourse(c)'
  <2> SUFFICES ASSUME c \in subscribed
               PROVE  /\ t # <<>> => LastOf(t).state = last[c]
                      /\ up[c] = <<>> => SnapshotIn(t) \/ Patching(c)'
    BY <1>1, <1>3, <1>6 DEF OnCourse
  <2>1. ASSUME up[c] = <<>>, ~SnapshotIn(t) PROVE Patching(c)'
    <3>1. ~Collecting(c)
      BY <1>4, <1>5
    <3>2. queue[c] \in Seq(Frame)
      BY TypesOf
    <3>3. CASE Patching(c)
      <4>1. h.op = "delta" /\ OnlyDeltas(t) /\ ~awaiting[c]
        BY <1>4, <3>3 DEF Patching
      <4>2. queue'[c] = Append(queue[c], h) /\ ~awaiting'[c]
        BY <1>7, <4>1
      <4>3. queue'[c] # <<>> /\ LastOf(queue'[c]) = h
        <5>1. /\ Append(queue[c], h) # <<>> /\ Len(Append(queue[c], h)) = Len(queue[c]) + 1
              /\ Append(queue[c], h)[Len(queue[c]) + 1] = h
          BY <1>4, <3>2, AppendProperties
        <5> QED BY <4>2, <5>1 DEF LastOf
      <4> QED BY <1>1, <1>3, <1>4, <1>6, <4>1, <4>2, <4>3 DEF Patching, Tip
    <3>4. CASE SnapshotIn(down[c])
      <4>1. Starts(h) /\ RestAt(t, 0, h, 0, Batches(h))
        BY <1>4, <2>1, <3>4
      <4>2. OnlyDeltas(t)
        <5>1. Batches(h) = 0
          BY <1>5 DEF Batches
        <5> QED BY <1>4, <4>1, <5>1, NothingLeft
      <4>3. queue'[c] = <<h>> /\ ~awaiting'[c]
        BY <1>7, <4>1 DEF Starts
      <4>4. queue'[c] # <<>> /\ LastOf(queue'[c]) = h
        BY <4>3, Alone
      <4> QED BY <1>1, <1>3, <1>4, <1>6, <4>2, <4>3, <4>4 DEF Patching, Tip
    <3> QED BY <2>1, <3>1, <3>3, <3>4 DEF ClientInv, OnCourse
  <2> QED BY <1>4, <2>1
<1> QED BY <1>6, <1>8, <1>9, <1>10 DEF ClientInv

\* handleSegmentedSessionSync: a part of a transfer was taken, and p is what the browser has of it.
LEMMA PartTaken ==
  ASSUME Types, Types', NEW c \in Client, ClientInv(c), down[c] # <<>>,
         NEW p \in Transfer, p.next <= p.count, Collect(c, p),
         NEW h, h = down[c][1], h.op # "delta", SameTransfer(p, h),
         NEW t, t = Tail(down[c]), down' = [down EXCEPT ![c] = Tail(@)],
         UNCHANGED <<revisions, subscribed, last, open, up, nonce, batch, sync, syncRevision, seen>>,
         t # <<>> /\ t[1].op = "content_batch" => SameTransfer(t[1], p) /\ t[1].count = p.next,
         c \in subscribed /\ up[c] = <<>> => SnapshotIn(t) \/ RestAt(t, 0, p, p.next, p.count)
  PROVE  ClientInv(c)'
<1>1. down'[c] = t
  BY DEF Types
<1>2. /\ h \in Frame /\ t \in Seq(Frame) /\ Chain(t)
      /\ c \in subscribed => /\ t # <<>> => LastOf(t).state = last[c]
                             /\ t = <<>> => h.state = last[c]
  BY Behind
<1>3. p.next \in Nat /\ p.count \in Nat /\ p # Idle
  BY DEF Transfer
<1>4. PICK f : f = [op |-> "content", revision |-> p.revision, state |-> p.state, base |-> p.base, count |-> 0]
  OBVIOUS
<1>5. f \in Frame /\ f.op = "content" /\ f.state = p.state /\ SameTransfer(f, h)
  BY <1>4 DEF Frame, Op, Transfer, SameTransfer
<1>6. \/ p.next = p.count /\ parts'[c] = Idle /\ queue'[c] = <<f>> /\ ~awaiting'[c]
      \/ p.next < p.count /\ parts'[c] = p /\ queue'[c] = queue[c]
  <2>1. CASE p.next = p.count
    <3>1. parts'[c] = Idle /\ EnqueueSync(c, f)
      BY <1>4, <2>1 DEF Collect, Complete, Types
    <3> QED BY <1>5, <2>1, <3>1 DEF EnqueueSync, Types
  <2>2. CASE p.next # p.count
    <3>1. p.next < p.count
      BY <1>3, <2>2
    <3> QED BY <2>2, <3>1 DEF Collect, Types
  <2> QED BY <2>1, <2>2
<1>7. TrueStates(c)' /\ InOrder(c)' /\ BaseIsNewest(c)'
  <2>1. queue'[c] = queue[c] \/ (queue'[c] = <<f>> /\ f.op # "delta" /\ SameTransfer(f, down[c][1]))
    BY <1>5, <1>6
  <2>2. parts'[c] # Idle => SameTransfer(parts'[c], down[c][1])
    BY <1>6
  <2>3. down'[c] = Tail(down[c])
    BY <1>1
  <2> QED BY <1>5, <2>1, <2>2, <2>3, FrameTaken
<1>8. BatchesFollow(c)'
  BY <1>1, <1>2, <1>6 DEF BatchesFollow
<1>9. OnCourse(c)'
  <2> SUFFICES ASSUME c \in subscribed, up[c] = <<>>, ~SnapshotIn(t)
               PROVE  Collecting(c)' \/ Patching(c)'
    BY <1>1, <1>2 DEF OnCourse
  <2>1. RestAt(t, 0, p, p.next, p.count)
    OBVIOUS
  <2>2. CASE p.next < p.count /\ parts'[c] = p
    BY <1>1, <1>3, <2>1, <2>2 DEF Collecting
  <2>3. CASE p.next = p.count /\ queue'[c] = <<f>> /\ ~awaiting'[c]
    <3>1. OnlyDeltas(t)
      BY <1>2, <1>3, <2>1, <2>3, NothingLeft
    <3>2. queue'[c] # <<>> /\ LastOf(queue'[c]) = f
      BY <2>3, Alone
    <3>3. t = <<>> => f.state = last[c]
      BY <1>2, <1>5 DEF SameTransfer
    <3> QED BY <1>1, <2>3, <3>1, <3>2, <3>3 DEF Patching, Tip
  <2> QED BY <1>6, <2>2, <2>3
<1> QED BY <1>7, <1>8, <1>9 DEF ClientInv

\* The manifest of a transfer.
LEMMA ReceiveManifestKeeps ==
  ASSUME Types, Types', NEW c \in Client, ClientInv(c), ReceiveManifest(c)
  PROVE  ClientInv(c)'
<1>1. down[c] # <<>> /\ down' = [down EXCEPT ![c] = Tail(@)]
  BY DEF ReceiveManifest, Frames, Taken
<1>2. PICK h : h = down[c][1]
  OBVIOUS
<1>3. PICK t : t = Tail(down[c])
  OBVIOUS
<1>4. /\ h \in Frame /\ h = Head(down[c]) /\ t \in Seq(Frame)
      /\ t # <<>> => Adjacent(h, t[1])
      /\ OnlyDeltas(down[c]) => h.op = "delta"
      /\ SnapshotIn(down[c]) => SnapshotIn(t) \/ (Starts(h) /\ RestAt(t, 0, h, 0, Batches(h)))
      /\ Collecting(c) => h.op = "content_batch"
  BY <1>1, <1>2, <1>3, Behind
<1>5. h.op = "content_manifest"
  BY <1>4 DEF ReceiveManifest
<1>6. PICK p : p = [revision |-> h.revision, state |-> h.state, base |-> h.base, count |-> h.count, next |-> 0]
  OBVIOUS
<1>7. /\ p \in Transfer /\ p.next <= p.count /\ p.next = 0 /\ p.count = h.count
      /\ p.revision = h.revision /\ p.state = h.state /\ SameTransfer(p, h)
  BY <1>4, <1>6 DEF Transfer, Frame, SameTransfer
<1>8. Collect(c, p)
  BY <1>4, <1>6 DEF ReceiveManifest
<1>9. UNCHANGED <<revisions, subscribed, last, open, up, nonce, batch, sync, syncRevision, seen>>
  BY DEF ReceiveManifest, serverVars
<1>10. t # <<>> /\ t[1].op = "content_batch" => SameTransfer(t[1], p) /\ t[1].count = p.next
  BY <1>4, <1>5, <1>7 DEF Adjacent, SameTransfer
<1>11. c \in subscribed /\ up[c] = <<>> => SnapshotIn(t) \/ RestAt(t, 0, p, p.next, p.count)
  <2> SUFFICES ASSUME c \in subscribed, up[c] = <<>>, ~SnapshotIn(t) PROVE RestAt(t, 0, p, p.next, p.count)
    OBVIOUS
  <2>1. SnapshotIn(down[c])
    BY <1>4, <1>5 DEF ClientInv, OnCourse, Patching
  <2>2. RestAt(t, 0, h, 0, h.count)
    BY <1>4, <1>5, <2>1 DEF Batches
  <2>3. \A m : SameTransfer(m, h) <=> SameTransfer(m, p)
    BY <1>7 DEF SameTransfer
  <2> QED BY <1>7, <2>2, <2>3 DEF RestAt
<1> QED BY <1>1, <1>2, <1>3, <1>5, <1>7, <1>8, <1>9, <1>10, <1>11, PartTaken

\* The next batch of a transfer, or of one that is over.
LEMMA ReceiveBatchKeeps ==
  ASSUME Types, Types', NEW c \in Client, ClientInv(c), ReceiveBatch(c)
  PROVE  ClientInv(c)'
<1>1. down[c] # <<>> /\ down' = [down EXCEPT ![c] = Tail(@)]
  BY DEF ReceiveBatch, Frames, Taken
<1>2. PICK h : h = down[c][1]
  OBVIOUS
<1>3. PICK t : t = Tail(down[c])
  OBVIOUS
<1>4. /\ h \in Frame /\ h = Head(down[c]) /\ t \in Seq(Frame) /\ Chain(t)
      /\ t # <<>> => Adjacent(h, t[1])
      /\ c \in subscribed => /\ t # <<>> => LastOf(t).state = last[c]
                             /\ t = <<>> => h.state = last[c]
      /\ OnlyDeltas(down[c]) => h.op = "delta"
      /\ SnapshotIn(down[c]) => SnapshotIn(t) \/ Starts(h)
      /\ Collecting(c) => RestAt(t, 0, parts[c], parts[c].next + 1, parts[c].count)
  BY <1>1, <1>2, <1>3, Behind
<1>5. h.op = "content_batch" /\ ~Starts(h)
  BY <1>4 DEF ReceiveBatch, Starts
<1>6. UNCHANGED <<revisions, subscribed, last, open, up, nonce, batch, sync, syncRevision, seen>>
  BY DEF ReceiveBatch, serverVars
<1>7. CASE parts[c] = Idle
  <2>1. UNCHANGED <<awaiting, queue, parts>> /\ down'[c] = t
    BY <1>1, <1>3, <1>7 DEF ReceiveBatch, IsPartOf, Types
  <2>2. TrueStates(c)' /\ InOrder(c)' /\ BaseIsNewest(c)'
    BY <1>1, <1>3, <1>4, <1>6, <1>7, <2>1, FrameTaken
  <2>3. BatchesFollow(c)'
    BY <1>4, <1>7, <2>1 DEF BatchesFollow
  <2>4. OnCourse(c)'
    BY <1>4, <1>5, <1>6, <1>7, <2>1 DEF ClientInv, OnCourse, Collecting, Patching
  <2> QED BY <1>6, <2>2, <2>3, <2>4 DEF ClientInv
<1>8. CASE parts[c] # Idle
  <2>1. /\ parts[c] \in Transfer /\ parts[c].next < parts[c].count
        /\ SameTransfer(h, parts[c]) /\ h.count = parts[c].next
    BY <1>1, <1>2, <1>5, <1>8, TypesOf DEF ClientInv, BatchesFollow
  <2>2. PICK p : p = [parts[c] EXCEPT !.next = @ + 1]
    OBVIOUS
  <2>3. /\ p \in Transfer /\ p.next = parts[c].next + 1 /\ p.count = parts[c].count
        /\ p.revision = parts[c].revision /\ p.state = parts[c].state
        /\ p.next <= p.count
    BY <2>1, <2>2 DEF Transfer
  <2>4. SameTransfer(p, h) /\ \A m : SameTransfer(m, parts[c]) <=> SameTransfer(m, p)
    BY <2>1, <2>3 DEF SameTransfer
  <2>5. Collect(c, p)
    BY <1>4, <1>8, <2>1, <2>2 DEF ReceiveBatch, IsPartOf, SameTransfer
  <2>6. t # <<>> /\ t[1].op = "content_batch" => SameTransfer(t[1], p) /\ t[1].count = p.next
    BY <1>4, <1>5, <2>1, <2>3 DEF Adjacent, SameTransfer
  <2>7. c \in subscribed /\ up[c] = <<>> => SnapshotIn(t) \/ RestAt(t, 0, p, p.next, p.count)
    <3> SUFFICES ASSUME c \in subscribed, up[c] = <<>>, ~SnapshotIn(t) PROVE RestAt(t, 0, p, p.next, p.count)
      OBVIOUS
    <3>1. RestAt(t, 0, parts[c], p.next, p.count)
      BY <1>4, <1>5, <2>3 DEF ClientInv, OnCourse, Patching
    <3> QED BY <2>4, <3>1 DEF RestAt
  <2> QED BY <1>1, <1>2, <1>3, <1>5, <1>6, <2>3, <2>4, <2>5, <2>6, <2>7, PartTaken
<1> QED BY <1>7, <1>8

-------------------------------------------------------------------------------
(* A browser asks *)

\* A command reaches the server over an open connection.
LEMMA Sending ==
  ASSUME Types, NEW c \in Client, NEW cmd \in Command, Send(c, cmd)
  PROVE  /\ c \in open => up'[c] = Append(up[c], cmd) /\ up'[c] # <<>>
         /\ c \notin open => up'[c] = up[c]
<1>1. up[c] \in Seq(Command)
  BY TypesOf
<1>2. Append(up[c], cmd) # <<>>
  BY <1>1, AppendProperties
<1> QED BY <1>2 DEF Send, Types

\* subscribeToSession sends a command.
LEMMA Commands ==
  /\ \A forced \in BOOLEAN, synced, inventory \in State \cup {NoState} :
       SubscribeCommand(forced, synced, inventory) \in Command
  /\ [path |-> FALSE, cached |-> NoState, known |-> FALSE] \in Command
BY DEF SubscribeCommand, Command

\* requestFullSessionSync keeps the base only with its revision.
LEMMA AskKeeps ==
  ASSUME Types, NEW c \in Client, NEW forced \in BOOLEAN, AskForState(c, forced)
  PROVE  /\ queue'[c] = <<>> /\ parts'[c] = Idle
         /\ syncRevision'[c] = 0 \/ (syncRevision'[c] = syncRevision[c] /\ sync'[c] = sync[c])
         /\ c \in open => up'[c] # <<>>
         /\ c \notin open => up'[c] = up[c]
<1>1. queue'[c] = <<>> /\ parts'[c] = Idle
  BY DEF AskForState, Types
<1>2. syncRevision'[c] = 0 \/ (syncRevision'[c] = syncRevision[c] /\ sync'[c] = sync[c])
  BY DEF AskForState, Types
<1>3. PICK cmd : cmd \in Command /\ Send(c, cmd)
  <2>1. sync[c] \in State \cup {NoState} /\ cached[c] \in State \cup {NoState}
    BY DEF Types
  <2>2. ASSUME NEW synced \in State \cup {NoState}, NEW inventory \in State \cup {NoState}
        PROVE  SubscribeCommand(forced, synced, inventory) \in Command
    BY Commands
  <2> QED BY <2>1, <2>2 DEF AskForState
<1> QED BY <1>1, <1>2, <1>3, Sending

\* requestFullSessionSync, whether or not a request is outstanding.
LEMMA RequestKeeps ==
  ASSUME Types, Types', NEW c \in Client, ClientInv(c), NEW forced \in BOOLEAN,
         NEW left \in {queue[c], <<>>}, RequestFull(c, forced, left),
         UNCHANGED <<revisions, subscribed, last, open, down, batch, seen>>
  PROVE  ClientInv(c)'
<1>1. c \notin open => up[c] = <<>>
  BY DEF ClientInv
<1>2. c \in subscribed => c \in open
  BY DEF Types
<1>3. CASE awaiting[c]
  <2>1. /\ queue'[c] = left
        /\ UNCHANGED <<awaiting, sync, syncRevision, parts, up>>
    BY <1>3 DEF RequestFull, Types
  <2> QED BY <1>1, <1>3, <2>1, Asked
<1>4. CASE ~awaiting[c]
  <2>1. /\ queue'[c] = <<>> /\ parts'[c] = Idle
        /\ syncRevision'[c] = 0 \/ (syncRevision'[c] = syncRevision[c] /\ sync'[c] = sync[c])
        /\ c \in open => up'[c] # <<>>
        /\ c \notin open => up'[c] = up[c]
    BY <1>4, AskKeeps DEF RequestFull
  <2> QED BY <1>1, <1>2, <2>1, Asked
<1> QED BY <1>3, <1>4

\* Whoever asks, or stops asking, breaks nothing on the way.
LEMMA AskingKeeps ==
  ASSUME Types, Types', NEW c \in Client, ClientInv(c),
         \/ RejectBatch(c) \/ Refocus(c) \/ CompactionEnds(c) \/ SessionAttached(c)
         \/ Deactivate(c) \/ Activate(c) \/ Reconnect(c)
  PROVE  ClientInv(c)'
<1>1. c \notin open => up[c] = <<>>
  BY DEF ClientInv
<1>2. c \in subscribed => c \in open
  BY DEF Types
<1>3. sync[c] \in State \cup {NoState} /\ cached[c] \in State \cup {NoState} /\ up[c] \in Seq(Command)
  BY DEF Types
<1>4. SubscribeCommand(FALSE, sync[c], cached[c]) \in Command
  BY <1>3, Commands
<1>5. CASE RejectBatch(c)
  <2>1. RequestFull(c, TRUE, <<>>) /\ UNCHANGED <<revisions, subscribed, last, open, down, batch, seen>>
    BY <1>5 DEF RejectBatch, serverVars
  <2> QED BY <2>1, RequestKeeps
<1>6. CASE SessionAttached(c)
  <2>1. RequestFull(c, FALSE, queue[c]) /\ UNCHANGED <<revisions, subscribed, last, open, down, batch, seen>>
    BY <1>6 DEF SessionAttached, serverVars
  <2> QED BY <2>1, RequestKeeps
<1>7. CASE Refocus(c) \/ CompactionEnds(c)
  <2>1. /\ Send(c, SubscribeCommand(FALSE, sync[c], cached[c]))
        /\ UNCHANGED <<revisions, subscribed, last, open, down, batch, seen, queue, parts, sync, syncRevision>>
    BY <1>7 DEF Refocus, CompactionEnds, serverVars, clientVars
  <2>2. /\ c \in open => up'[c] # <<>>
        /\ c \notin open => up'[c] = up[c]
    BY <1>4, <2>1, Sending
  <2> QED BY <1>1, <1>2, <2>1, <2>2, Asked
<1>8. CASE Deactivate(c)
  <2>1. /\ Send(c, [path |-> FALSE, cached |-> NoState, known |-> FALSE])
        /\ queue'[c] = <<>> /\ parts'[c] = Idle
        /\ UNCHANGED <<revisions, subscribed, last, open, down, batch, seen, sync, syncRevision>>
    BY <1>8 DEF Deactivate, serverVars, Types
  <2>2. /\ c \in open => up'[c] # <<>>
        /\ c \notin open => up'[c] = up[c]
    BY <2>1, Commands, Sending
  <2> QED BY <1>1, <1>2, <2>1, <2>2, Asked
<1>9. CASE Activate(c)
  <2>1. /\ AskForState(c, FALSE)
        /\ UNCHANGED <<revisions, subscribed, last, open, down, batch, seen>>
    BY <1>9 DEF Activate, serverVars
  <2>2. /\ queue'[c] = <<>> /\ parts'[c] = Idle
        /\ syncRevision'[c] = 0 \/ (syncRevision'[c] = syncRevision[c] /\ sync'[c] = sync[c])
        /\ c \in open => up'[c] # <<>>
        /\ c \notin open => up'[c] = up[c]
    BY <2>1, AskKeeps
  <2> QED BY <1>1, <1>2, <2>1, <2>2, Asked
<1>10. CASE Reconnect(c)
  <2>1. /\ c \in open' /\ c \notin subscribed
        /\ UNCHANGED <<revisions, subscribed, last, down, batch, seen>>
    BY <1>2, <1>10 DEF Reconnect, serverVars
  <2>2. /\ queue'[c] \in {queue[c], <<>>} /\ parts'[c] \in {parts[c], Idle}
        /\ syncRevision'[c] = 0 \/ (syncRevision'[c] = syncRevision[c] /\ sync'[c] = sync[c])
    <3>1. CASE ~active[c]
      BY <1>10, <3>1 DEF Reconnect
    <3>2. CASE active[c]
      <4>1. queue'[c] = <<>> /\ parts'[c] = Idle
        BY <1>10, <3>2 DEF Reconnect, Types
      <4>2. syncRevision'[c] = 0 \/ (syncRevision'[c] = syncRevision[c] /\ sync'[c] = sync[c])
        BY <1>10, <3>2 DEF Reconnect, Types
      <4> QED BY <4>1, <4>2
    <3> QED BY <3>1, <3>2
  <2> QED BY <2>1, <2>2, Asked
<1> QED BY <1>5, <1>6, <1>7, <1>8, <1>9, <1>10

-------------------------------------------------------------------------------
(* A browser applies what it queued *)

\* The newest queued frame.
LEMMA NewestQueued ==
  ASSUME Types, NEW c \in Client, ClientInv(c), queue[c] # <<>>, NEW m, m = LastOf(queue[c])
  PROVE  /\ m \in Frame /\ m.revision \in Nat /\ m.state \in State
         /\ Stamped(revisions, m.revision, m.state)
         /\ After(revisions, m.revision, down[c])
         /\ seen[c] <= m.revision /\ m.revision <= Len(revisions) /\ m.revision # 0
         /\ \A r : UpTo(r, queue[c]) => m.revision <= r
<1>1. queue[c] \in Seq(Frame) /\ Len(revisions) \in Nat
  BY TypesOf
<1>2. m \in Frame /\ Len(queue[c]) \in 1 .. Len(queue[c]) /\ m = queue[c][Len(queue[c])]
  BY <1>1, Places DEF LastOf
<1>3. m.revision \in Nat /\ m.state \in State
  BY <1>2 DEF Frame
<1>4. Stamped(revisions, m.revision, m.state)
  BY <1>2 DEF ClientInv, TrueStates, FramesStamped
<1>5. After(revisions, m.revision, down[c]) /\ seen[c] <= m.revision
  BY <1>2 DEF ClientInv, InOrder, After, Follows
<1>6. m.revision <= Len(revisions) /\ m.revision # 0
  BY <1>1, <1>4 DEF Stamped
<1>7. \A r : UpTo(r, queue[c]) => m.revision <= r
  BY <1>2 DEF UpTo
<1> QED BY <1>2, <1>3, <1>4, <1>5, <1>6, <1>7

\* applySessionSyncBatch: the cached state is confirmed, at a revision.
LEMMA ConfirmStateKeeps ==
  ASSUME Types, Types', NEW c \in Client, ClientInv(c), ConfirmState(c)
  PROVE  ClientInv(c)'
<1>1. PICK m : m = queue[c][1]
  OBVIOUS
<1>2. queue[c] # <<>> /\ batch[c] = Idle /\ m = LastOf(queue[c]) /\ m.state = sync[c]
  BY <1>1 DEF ConfirmState, CanFlush, OnlyNotModified, NotModifiedMismatch, LastOf
<1>3. /\ m.revision \in Nat /\ m.state \in State
      /\ Stamped(revisions, m.revision, m.state)
      /\ After(revisions, m.revision, down[c])
      /\ seen[c] <= m.revision /\ m.revision <= Len(revisions)
      /\ \A r : UpTo(r, queue[c]) => m.revision <= r
  BY <1>2, NewestQueued
<1>4. ~(seen[c] > m.revision)
  BY <1>3, TypesOf
<1>5. queue'[c] = <<>> /\ syncRevision'[c] = m.revision /\ seen'[c] = m.revision
  BY <1>1, <1>4 DEF ConfirmState, Shown, Types
<1>6. UNCHANGED <<revisions, subscribed, last, open, up, down, awaiting, nonce, parts, batch, sync>>
  BY DEF ConfirmState, serverVars, wireVars
<1>7. /\ Ordered(revisions, <<>>) /\ FramesStamped(revisions, <<>>) /\ Len(<<>>) = 0
      /\ \A r : After(revisions, r, <<>>) /\ UpTo(r, <<>>)
  BY Nothing
<1>8. TrueStates(c)'
  BY <1>2, <1>3, <1>5, <1>6, <1>7 DEF ClientInv, TrueStates
<1>9. InOrder(c)'
  BY <1>2, <1>3, <1>5, <1>6, <1>7 DEF ClientInv, InOrder
<1>10. BaseIsNewest(c)'
  <2>1. ASSUME NEW r, SentUpTo(c, r) PROVE SentUpTo(c, r)'
    BY <1>2, <1>3, <1>5, <1>6, <1>7, <2>1 DEF SentUpTo
  <2> QED BY <1>6, <2>1 DEF ClientInv, BaseIsNewest
<1>11. BatchesFollow(c)'
  BY <1>6 DEF ClientInv, BatchesFollow
<1>12. OnCourse(c)'
  BY <1>2, <1>5, <1>6 DEF ClientInv, OnCourse, Collecting, Patching, Tip
<1> QED BY <1>6, <1>8, <1>9, <1>10, <1>11, <1>12 DEF ClientInv

\* applySessionSyncBatch: what was queued is being hashed.
LEMMA FlushBatchKeeps ==
  ASSUME Types, Types', NEW c \in Client, ClientInv(c), FlushBatch(c)
  PROVE  ClientInv(c)'
<1>1. PICK m : m = LastOf(queue[c])
  OBVIOUS
<1>2. queue[c] # <<>> /\ batch[c] = Idle
  BY DEF FlushBatch, CanFlush
<1>3. /\ m.revision \in Nat /\ m.state \in State
      /\ Stamped(revisions, m.revision, m.state)
      /\ After(revisions, m.revision, down[c])
      /\ seen[c] <= m.revision
      /\ \A r : UpTo(r, queue[c]) => m.revision <= r
  BY <1>1, <1>2, NewestQueued
<1>4. /\ queue'[c] = <<>>
      /\ batch'[c].nonce = nonce[c] /\ batch'[c].result = m.state /\ batch'[c].revision = m.revision
  BY <1>1 DEF FlushBatch, Types
<1>5. UNCHANGED <<revisions, subscribed, last, open, up, down, awaiting, nonce, parts, sync, syncRevision, seen>>
  BY DEF FlushBatch, serverVars, wireVars
<1>6. batch'[c] # Idle
  <2>1. m.state \in State /\ m.revision \in Nat /\ nonce[c] \in Nat /\ queue[c] \in Seq(Frame)
    BY <1>3 DEF Types
  <2>2. queue[c][1].state \in State
    <3>1. queue[c][1] \in Frame
      BY <1>2, <2>1, Places
    <3> QED BY <3>1 DEF Frame
  <2> QED BY <1>1, <2>1, <2>2 DEF FlushBatch, Batch, Types
<1>7. /\ Ordered(revisions, <<>>) /\ FramesStamped(revisions, <<>>) /\ Len(<<>>) = 0
      /\ \A r : After(revisions, r, <<>>) /\ UpTo(r, <<>>)
  BY Nothing
<1>8. TrueStates(c)'
  BY <1>3, <1>4, <1>5, <1>7 DEF ClientInv, TrueStates
<1>9. InOrder(c)'
  BY <1>3, <1>4, <1>5, <1>7 DEF ClientInv, InOrder
<1>10. BaseIsNewest(c)'
  <2>1. ASSUME NEW r, SentUpTo(c, r) PROVE SentUpTo(c, r)'
    BY <1>3, <1>4, <1>5, <1>7, <2>1 DEF SentUpTo
  <2> QED BY <1>5, <2>1 DEF ClientInv, BaseIsNewest
<1>11. BatchesFollow(c)'
  BY <1>5 DEF ClientInv, BatchesFollow
<1>12. OnCourse(c)'
  BY <1>1, <1>2, <1>4, <1>5, <1>6 DEF ClientInv, OnCourse, Collecting, Patching, Tip, InScope
<1> QED BY <1>5, <1>8, <1>9, <1>10, <1>11, <1>12 DEF ClientInv

\* commitSyncBatch: the hash is there, for the scope it was computed for or too late.
LEMMA CommitKeeps ==
  ASSUME Types, Types', NEW c \in Client, ClientInv(c), CommitBatch(c) \/ ForgetBatch(c)
  PROVE  ClientInv(c)'
<1>1. PICK b : b = batch[c]
  OBVIOUS
<1>2. b # Idle /\ batch'[c] = Idle
  BY <1>1 DEF CommitBatch, ForgetBatch, Hashed, Types
<1>3. UNCHANGED <<revisions, subscribed, last, open, up, down, awaiting, nonce, parts, queue>>
  BY DEF CommitBatch, ForgetBatch, serverVars, wireVars
<1>4. /\ b.revision \in Nat /\ seen[c] \in Nat /\ Len(revisions) \in Nat
      /\ Stamped(revisions, b.revision, b.result) /\ seen[c] <= b.revision
      /\ After(revisions, b.revision, queue[c]) /\ After(revisions, b.revision, down[c])
  BY <1>1, <1>2, TypesOf DEF ClientInv, TrueStates, InOrder
<1>5. BatchesFollow(c)'
  BY <1>3 DEF ClientInv, BatchesFollow
<1>6. CASE CommitBatch(c)
  <2>1. sync'[c] = b.result /\ syncRevision'[c] = b.revision
    BY <1>1, <1>6 DEF CommitBatch, Types
  <2>2. seen'[c] = b.revision
    BY <1>1, <1>4, <1>6 DEF CommitBatch, Shown, Types
  <2>3. TrueStates(c)'
    BY <1>2, <1>3, <1>4, <2>1 DEF ClientInv, TrueStates
  <2>4. InOrder(c)'
    <3>1. b.revision <= Len(revisions)
      BY <1>4 DEF Stamped
    <3> QED BY <1>2, <1>3, <1>4, <2>1, <2>2, <3>1 DEF ClientInv, InOrder
  <2>5. BaseIsNewest(c)'
    <3>1. ASSUME NEW r, SentUpTo(c, r) PROVE SentUpTo(c, r)'
      BY <1>1, <1>2, <1>3, <2>2, <3>1 DEF SentUpTo
    <3> QED BY <1>3, <3>1 DEF ClientInv, BaseIsNewest
  <2>6. OnCourse(c)'
    BY <1>1, <1>2, <1>3, <2>1 DEF ClientInv, OnCourse, Collecting, Patching, Tip
  <2> QED BY <1>3, <1>5, <2>3, <2>4, <2>5, <2>6 DEF ClientInv
<1>7. CASE ForgetBatch(c)
  <2>1. UNCHANGED <<sync, syncRevision, seen>> /\ ~InScope(c)
    BY <1>7 DEF ForgetBatch
  <2>2. TrueStates(c)'
    BY <1>2, <1>3, <2>1 DEF ClientInv, TrueStates
  <2>3. InOrder(c)'
    BY <1>2, <1>3, <2>1 DEF ClientInv, InOrder
  <2>4. BaseIsNewest(c)'
    <3>1. ASSUME NEW r, SentUpTo(c, r) PROVE SentUpTo(c, r)'
      BY <1>2, <1>3, <2>1, <3>1 DEF SentUpTo
    <3> QED BY <1>3, <3>1 DEF ClientInv, BaseIsNewest
  <2>5. OnCourse(c)'
    BY <1>1, <1>2, <1>3, <2>1 DEF ClientInv, OnCourse, Collecting, Patching, Tip
  <2> QED BY <1>3, <1>5, <2>1, <2>2, <2>3, <2>4, <2>5 DEF ClientInv
<1> QED BY <1>6, <1>7

-------------------------------------------------------------------------------
(* The server tells its subscribers *)

\* pushUpdateToSubscribers: whoever has another state is sent the new one.
LEMMA PushReaches ==
  ASSUME NEW c \in Client, Types, NEW s \in State, Push(s)
  PROVE  /\ revisions' = RevisionsWith(s)
         /\ ~(c \in subscribed /\ c \in open /\ last[c] # s) => down'[c] = down[c] /\ last'[c] = last[c]
         /\ c \in subscribed /\ c \in open /\ last[c] # s =>
              /\ last'[c] = s
              /\ \E m \in Frame :
                   /\ m.op \in {"full", "delta"} /\ m.revision = Len(RevisionsWith(s)) /\ m.state = s
                   /\ m.op = "delta" => m.base = last[c]
                   /\ down'[c] = Append(down[c], m)
<1> DEFINE targets == {d \in subscribed : d \in open /\ last[d] # s}
           n == Len(RevisionsWith(s))
           m(d, w) == [op |-> IF w THEN "full" ELSE "delta", revision |-> n, state |-> s,
                       base |-> IF w THEN NoState ELSE last[d], count |-> 0]
<1>1. PICK whole \in SUBSET targets :
        /\ revisions' = RevisionsWith(s)
        /\ last' = [d \in Client |-> IF d \in targets THEN s ELSE last[d]]
        /\ down' = [d \in Client |-> IF d \in targets THEN Append(down[d], m(d, d \in whole)) ELSE down[d]]
  BY DEF Push, Sent
<1>2. c \notin targets => down'[c] = down[c] /\ last'[c] = last[c]
  BY <1>1
<1>3. c \in targets => last'[c] = s /\ down'[c] = Append(down[c], m(c, c \in whole))
  BY <1>1
<1>4. \A w \in BOOLEAN : /\ m(c, w) \in Frame /\ m(c, w).op \in {"full", "delta"}
                         /\ m(c, w).revision = n /\ m(c, w).state = s
                         /\ m(c, w).op = "delta" => m(c, w).base = last[c]
  <2>1. n \in Nat
    BY RevisionsGrow DEF Types
  <2>2. last[c] \in State \cup {NoState}
    BY DEF Types
  <2> HIDE DEF n
  <2> QED BY <2>1, <2>2 DEF Frame, Op
<1>5. (c \in whole) \in BOOLEAN
  OBVIOUS
<1> HIDE DEF m
<1> QED BY <1>1, <1>2, <1>3, <1>4, <1>5

\* pushUpdateToSubscribers keeps every browser on course.
LEMMA PushKeeps ==
  ASSUME Types, Types', NEW c \in Client, ClientInv(c), NEW s \in State, Push(s),
         UNCHANGED <<subscribed, open, up, clientVars>>
  PROVE  ClientInv(c)'
<1>1. /\ queue'[c] = queue[c] /\ batch'[c] = batch[c] /\ parts'[c] = parts[c]
      /\ seen'[c] = seen[c] /\ sync'[c] = sync[c] /\ syncRevision'[c] = syncRevision[c]
      /\ up'[c] = up[c] /\ awaiting'[c] = awaiting[c] /\ nonce'[c] = nonce[c]
      /\ subscribed' = subscribed /\ open' = open
  BY DEF clientVars
<1>2. /\ revisions' = RevisionsWith(s)
      /\ ~(c \in subscribed /\ c \in open /\ last[c] # s) => down'[c] = down[c] /\ last'[c] = last[c]
      /\ c \in subscribed /\ c \in open /\ last[c] # s =>
           /\ last'[c] = s
           /\ \E m \in Frame :
                /\ m.op \in {"full", "delta"} /\ m.revision = Len(RevisionsWith(s)) /\ m.state = s
                /\ m.op = "delta" => m.base = last[c]
                /\ down'[c] = Append(down[c], m)
  BY PushReaches
<1>3. CASE c \in subscribed /\ c \in open /\ last[c] # s
  <2>1. PICK m \in Frame :
          /\ m.op \in {"full", "delta"} /\ m.revision = Len(RevisionsWith(s)) /\ m.state = s
          /\ m.op = "delta" => m.base = last[c]
          /\ down'[c] = Append(down[c], m)
    BY <1>2, <1>3
  <2> QED BY <1>1, <1>2, <1>3, <2>1, UpdateReaches
<1>4. CASE ~(c \in subscribed /\ c \in open /\ last[c] # s)
  <2>1. Grown(revisions, revisions')
    BY <1>2, RevisionsGrow DEF Types
  <2> QED BY <1>1, <1>2, <1>4, <2>1, Unmoved
<1> QED BY <1>3, <1>4

\* Revisions that nobody adds to.
LEMMA GrownAlike == ASSUME Types, revisions' = revisions PROVE Grown(revisions, revisions')
BY LenProperties DEF Types, Grown

\* A turn, or the watcher of the file, reaches every browser.
LEMMA SessionKeeps ==
  ASSUME Types, Types', NEW c \in Client, ClientInv(c),
         AppendFile \/ FileNoticed \/ FlushDetached \/ StartTurn \/ TurnEvent \/ EndTurn
  PROVE  ClientInv(c)'
<1>1. ASSUME UNCHANGED <<revisions, subscribed, last, wireVars, clientVars>> PROVE ClientInv(c)'
  <2>1. Grown(revisions, revisions')
    BY <1>1, GrownAlike
  <2> QED BY <1>1, <2>1, Unmoved DEF wireVars, clientVars
<1>2. CASE AppendFile \/ FileNoticed \/ StartTurn
  BY <1>1, <1>2 DEF AppendFile, FileNoticed, StartTurn, serverVars
<1>3. CASE FlushDetached
  <2>1. CASE Publishes
    <3>1. PICK n \in 1 .. MaxFile : Push(DiskState(n))
      BY <1>3, <2>1 DEF FlushDetached
    <3>2. DiskState(n) \in State
      BY DEF DiskState, State
    <3>3. UNCHANGED <<subscribed, open, up, clientVars>>
      BY <1>3 DEF FlushDetached
    <3> QED BY <3>1, <3>2, <3>3, PushKeeps
  <2>2. CASE ~Publishes
    BY <1>1, <1>3, <2>2 DEF FlushDetached, wireVars
  <2> QED BY <2>1, <2>2
<1>4. CASE TurnEvent
  <2>1. turn' \in State
    <3>1. turn \in State
      BY <1>4 DEF TurnEvent, Detached, Types
    <3> QED BY <1>4, <3>1 DEF TurnEvent, State
  <2>2. PICK s : s = turn'
    OBVIOUS
  <2>3. Push(s) /\ UNCHANGED <<subscribed, open, up, clientVars>>
    BY <1>4, <2>2 DEF TurnEvent
  <2> QED BY <2>1, <2>2, <2>3, PushKeeps
<1>5. CASE EndTurn
  <2>1. PICK live \in {0, turn.live} : Push([file |-> file, live |-> live])
    BY <1>5 DEF EndTurn, PublishesRelease
  <2>2. [file |-> file, live |-> live] \in State
    <3>1. turn \in State
      BY <1>5 DEF EndTurn, Detached, Types
    <3>2. live \in 0 .. MaxLive
      <4>1. turn.live \in 0 .. MaxLive
        BY <3>1 DEF State
      <4> QED BY <4>1
    <3>3. file \in 1 .. MaxFile
      BY DEF Types
    <3> QED BY <3>2, <3>3 DEF State
  <2>3. UNCHANGED <<subscribed, open, up, clientVars>>
    BY <1>5 DEF EndTurn
  <2> QED BY <2>1, <2>2, <2>3, PushKeeps
<1> QED BY <1>2, <1>3, <1>4, <1>5

\* subscribeClient sends an initial synchronisation.
LEMMA AnswerReaches ==
  ASSUME Types, Types', NEW c \in Client, ClientInv(c), up[c] # <<>>, NEW s \in State, AnswerWith(c, s)
  PROVE  ClientInv(c)'
<1>1. Received(c) \in Command
  <2>1. up[c] \in Seq(Command)
    BY TypesOf
  <2> QED BY <2>1, Places DEF Received
<1>2. PICK kept \in 0 .. Len(down[c]), count \in 0 .. MaxBatches :
        down' = [down EXCEPT ![c] = Remaining(c, kept) \o InitialSync(Received(c), s, count)]
  BY DEF AnswerWith
<1>3. PICK t : t = InitialSync(Received(c), s, count)
  OBVIOUS
<1>4. Snapshot(t, Len(RevisionsWith(s)), s)
  BY <1>1, <1>3, InitialSyncIsWhole DEF Types
<1>5. /\ revisions' = RevisionsWith(s) /\ last'[c] = s
      /\ down'[c] = SubSeq(down[c], 1, kept) \o t
      /\ queue'[c] = queue[c] /\ batch'[c] = batch[c] /\ parts'[c] = parts[c]
      /\ seen'[c] = seen[c] /\ sync'[c] = sync[c] /\ syncRevision'[c] = syncRevision[c]
  BY <1>2, <1>3 DEF AnswerWith, SetsBase, Remaining, clientVars, Types
<1>6. c \in open'
  BY DEF AnswerWith, ClientInv
<1> QED BY <1>4, <1>5, <1>6, Answered

\* subscribe_session, with and without a path.
LEMMA ServesKeeps ==
  ASSUME Types, Types', NEW c \in Client, ClientInv(c), Serves(c)
  PROVE  ClientInv(c)'
<1>1. CASE SubscribeAttached(c)
  <2>1. turn \in State
    BY <1>1 DEF SubscribeAttached, Detached, Types
  <2> QED BY <1>1, <2>1, AnswerReaches DEF SubscribeAttached
<1>2. CASE SubscribeDetached(c)
  <2>1. DiskState(file) \in State
    BY DEF DiskState, State, Types
  <2> QED BY <1>2, <2>1, AnswerReaches DEF SubscribeDetached
<1>3. CASE Unsubscribe(c)
  <2>1. PICK kept \in 0 .. Len(down[c]) : down'[c] = SubSeq(down[c], 1, kept)
    BY <1>3 DEF Unsubscribe, Remaining, Types
  <2>2. /\ c \notin subscribed' /\ c \in open' /\ revisions' = revisions
        /\ queue'[c] = queue[c] /\ batch'[c] = batch[c] /\ parts'[c] = parts[c]
        /\ seen'[c] = seen[c] /\ sync'[c] = sync[c] /\ syncRevision'[c] = syncRevision[c]
    BY <1>3 DEF Unsubscribe, clientVars, ClientInv
  <2> QED BY <2>1, <2>2, CutOff
<1> QED BY <1>1, <1>2, <1>3 DEF Serves

\* The server forgets a client whose connection is lost.
LEMMA DisconnectKeeps ==
  ASSUME Types, Types', NEW c \in Client, ClientInv(c), Disconnect(c)
  PROVE  ClientInv(c)'
<1>1. down[c] \in Seq(Frame) /\ 0 \in 0 .. Len(down[c])
  BY TypesOf, LenProperties
<1>2. down'[c] = SubSeq(down[c], 1, 0)
  <2>1. Len(SubSeq(down[c], 1, 0)) = 0 /\ SubSeq(down[c], 1, 0) \in Seq(Frame)
    BY <1>1, PrefixKeeps
  <2>2. SubSeq(down[c], 1, 0) = <<>>
    BY <2>1, EmptySeq
  <2> QED BY <2>2 DEF Disconnect, Types
<1>3. /\ c \notin subscribed' /\ up'[c] = <<>> /\ revisions' = revisions
      /\ queue'[c] = queue[c] /\ batch'[c] = batch[c] /\ parts'[c] = parts[c]
      /\ seen'[c] = seen[c] /\ sync'[c] = sync[c] /\ syncRevision'[c] = syncRevision[c]
  BY DEF Disconnect, clientVars, Types
<1> QED BY <1>1, <1>2, <1>3, CutOff

-------------------------------------------------------------------------------
(* What one browser does leaves the others alone *)

\* The steps of one browser, or of the server for it.
StepOf(c) ==
  \/ Serves(c) \/ Receives(c) \/ Flushes(c) \/ Commits(c)
  \/ Refocus(c) \/ CompactionEnds(c) \/ SessionAttached(c)
  \/ Deactivate(c) \/ Activate(c) \/ Disconnect(c) \/ Reconnect(c)

\* A step of one browser changes nothing of another one's.
LEMMA OthersUntouched ==
  ASSUME Types, NEW c \in Client, NEW d \in Client, d # c, StepOf(c)
  PROVE  /\ down'[d] = down[d] /\ queue'[d] = queue[d] /\ batch'[d] = batch[d] /\ parts'[d] = parts[d]
         /\ seen'[d] = seen[d] /\ sync'[d] = sync[d] /\ syncRevision'[d] = syncRevision[d]
         /\ up'[d] = up[d] /\ awaiting'[d] = awaiting[d] /\ nonce'[d] = nonce[d] /\ last'[d] = last[d]
         /\ d \in subscribed' <=> d \in subscribed
         /\ d \in open' <=> d \in open
<1>1. CASE Serves(c)
  BY <1>1 DEF Serves, Unsubscribe, SubscribeAttached, SubscribeDetached, AnswerWith, SetsBase, clientVars, Types
<1>2. CASE Receives(c)
  <2>1. \A m : EnqueueSync(c, m) => queue'[d] = queue[d] /\ awaiting'[d] = awaiting[d]
    BY DEF EnqueueSync, Types
  <2>2. \A p : Collect(c, p) => parts'[d] = parts[d] /\ queue'[d] = queue[d] /\ awaiting'[d] = awaiting[d]
    BY <2>1 DEF Collect, Complete, Types
  <2>3. CASE ReceiveSync(c)
    BY <2>1, <2>3 DEF ReceiveSync, Taken, serverVars, Types
  <2>4. CASE ReceiveManifest(c)
    BY <2>2, <2>4 DEF ReceiveManifest, Taken, serverVars, Types
  <2>5. CASE ReceiveBatch(c)
    BY <2>2, <2>5 DEF ReceiveBatch, Taken, serverVars, Types
  <2> QED BY <1>2, <2>3, <2>4, <2>5 DEF Receives
<1>3. \A cmd : Send(c, cmd) => up'[d] = up[d]
  BY DEF Send, Types
<1>4. \A forced : AskForState(c, forced) =>
        /\ queue'[d] = queue[d] /\ parts'[d] = parts[d] /\ sync'[d] = sync[d]
        /\ syncRevision'[d] = syncRevision[d] /\ up'[d] = up[d] /\ awaiting'[d] = awaiting[d]
  BY <1>3 DEF AskForState, Types
<1>5. \A forced, left : RequestFull(c, forced, left) =>
        /\ queue'[d] = queue[d] /\ parts'[d] = parts[d] /\ sync'[d] = sync[d]
        /\ syncRevision'[d] = syncRevision[d] /\ up'[d] = up[d] /\ awaiting'[d] = awaiting[d]
  BY <1>4 DEF RequestFull, Types
<1>6. CASE Flushes(c)
  <2>1. CASE RejectBatch(c)
    BY <1>5, <2>1 DEF RejectBatch, serverVars
  <2>2. CASE ConfirmState(c) \/ FlushBatch(c)
    BY <2>2 DEF ConfirmState, FlushBatch, Shown, serverVars, wireVars, Types
  <2> QED BY <1>6, <2>1, <2>2 DEF Flushes
<1>7. CASE Commits(c)
  BY <1>7 DEF Commits, CommitBatch, ForgetBatch, Shown, serverVars, wireVars, Types
<1>8. CASE Refocus(c) \/ CompactionEnds(c)
  BY <1>3, <1>8 DEF Refocus, CompactionEnds, serverVars, clientVars
<1>9. CASE SessionAttached(c)
  BY <1>5, <1>9 DEF SessionAttached, serverVars
<1>10. CASE Deactivate(c)
  BY <1>3, <1>10 DEF Deactivate, serverVars, Types
<1>11. CASE Activate(c)
  BY <1>4, <1>11 DEF Activate, serverVars, Types
<1>12. CASE Disconnect(c)
  BY <1>12 DEF Disconnect, clientVars, Types
<1>13. CASE Reconnect(c)
  <2>1. /\ UNCHANGED <<subscribed, last, down, nonce, batch, seen>>
        /\ d \in open' <=> d \in open
    BY <1>13 DEF Reconnect, serverVars
  <2>2. CASE active[c]
    BY <1>13, <2>1, <2>2 DEF Reconnect, Types
  <2>3. CASE ~active[c]
    BY <1>13, <2>1, <2>3 DEF Reconnect
  <2> QED BY <2>2, <2>3
<1> QED BY <1>1, <1>2, <1>6, <1>7, <1>8, <1>9, <1>10, <1>11, <1>12, <1>13 DEF StepOf

\* A step of one browser, or of the server for it, adds revisions at most.
LEMMA StepsGrow ==
  ASSUME Types, NEW c \in Client, StepOf(c)
  PROVE  Grown(revisions, revisions')
<1>1. CASE SubscribeAttached(c)
  <2>1. turn \in State
    BY <1>1 DEF SubscribeAttached, Detached, Types
  <2>2. revisions' = RevisionsWith(turn)
    BY <1>1 DEF SubscribeAttached, AnswerWith
  <2> QED BY <2>1, <2>2, RevisionsGrow DEF Types
<1>2. CASE SubscribeDetached(c)
  <2>1. DiskState(file) \in State
    BY DEF DiskState, State, Types
  <2>2. revisions' = RevisionsWith(DiskState(file))
    BY <1>2 DEF SubscribeDetached, AnswerWith
  <2> QED BY <2>1, <2>2, RevisionsGrow DEF Types
<1>3. CASE ~SubscribeAttached(c) /\ ~SubscribeDetached(c)
  <2>1. revisions' = revisions
    BY <1>3 DEF StepOf, Serves, Receives, Flushes, Commits, Unsubscribe, ReceiveSync, ReceiveManifest,
                ReceiveBatch, RejectBatch, ConfirmState, FlushBatch, CommitBatch, ForgetBatch, Refocus,
                CompactionEnds, SessionAttached, Deactivate, Activate, Disconnect, Reconnect, serverVars
  <2> QED BY <2>1, GrownAlike
<1> QED BY <1>1, <1>2, <1>3

\* A step for one browser keeps the others on course.
LEMMA OthersKeep ==
  ASSUME Types, Types', NEW c \in Client, NEW d \in Client, d # c, ClientInv(d), StepOf(c)
  PROVE  ClientInv(d)'
BY OthersUntouched, StepsGrow, Unmoved

-------------------------------------------------------------------------------
(* Every step keeps the types *)

\* The session's states.
LEMMA SessionStates ==
  ASSUME Types
  PROVE  /\ \A n \in 1 .. MaxFile : DiskState(n) \in State
         /\ \A live \in 0 .. MaxLive : [file |-> file, live |-> live] \in State
         /\ turn # NoState => /\ turn \in State /\ turn.live \in 0 .. MaxLive
         /\ 0 \in 0 .. MaxLive
         /\ \A n : LandsBetween(n) => n \in 1 .. MaxFile /\ file' = n
<1>1. file \in 1 .. MaxFile /\ turn \in State \cup {NoState}
  BY DEF Types
<1>2. \A live \in 0 .. MaxLive : [file |-> file, live |-> live] \in State
  BY <1>1 DEF State
<1>3. turn # NoState => turn.live \in 0 .. MaxLive
  BY <1>1 DEF State
<1>4. \A n \in 1 .. MaxFile : DiskState(n) \in State
  BY DEF DiskState, State
<1>5. \A n : LandsBetween(n) => n \in 1 .. MaxFile /\ file' = n
  BY DEF LandsBetween
<1> QED BY <1>1, <1>2, <1>3, <1>4, <1>5

\* What pushUpdateToSubscribers sends.
LEMMA PushTypes ==
  ASSUME Types, NEW s \in State, Push(s)
  PROVE  /\ revisions' \in Seq(State)
         /\ last' \in [Client -> State \cup {NoState}] /\ down' \in [Client -> Seq(Frame)]
<1>1. revisions' \in Seq(State)
  BY RevisionsGrow DEF Push, Types
<1>2. ASSUME NEW c \in Client PROVE last'[c] \in State \cup {NoState} /\ down'[c] \in Seq(Frame)
  <2>1. last[c] \in State \cup {NoState} /\ down[c] \in Seq(Frame)
    BY DEF Types
  <2>2. CASE down'[c] = down[c] /\ last'[c] = last[c]
    BY <2>1, <2>2
  <2>3. ASSUME last'[c] = s, NEW m \in Frame, down'[c] = Append(down[c], m)
        PROVE  last'[c] \in State \cup {NoState} /\ down'[c] \in Seq(Frame)
    BY <2>1, <2>3, AppendProperties
  <2> QED BY <2>2, <2>3, PushReaches
<1>3. last' = [c \in Client |-> last'[c]] /\ down' = [c \in Client |-> down'[c]]
  BY DEF Push
<1> QED BY <1>1, <1>2, <1>3

\* The types of a session and its file.
LEMMA SessionTypes ==
  ASSUME Types, AppendFile \/ FileNoticed \/ FlushDetached \/ StartTurn \/ TurnEvent \/ EndTurn
  PROVE  Types'
<1>1. CASE AppendFile
  BY <1>1 DEF AppendFile, serverVars, wireVars, clientVars, Types
<1>2. CASE FileNoticed
  BY <1>2 DEF FileNoticed, serverVars, wireVars, clientVars, Types
<1>3. CASE StartTurn
  <2>1. turn' \in State
    BY <1>3, SessionStates DEF StartTurn, Types
  <2> QED BY <1>3, <2>1 DEF StartTurn, diskVars, wireVars, clientVars, Types
<1>4. ASSUME revisions' \in Seq(State),
             last' \in [Client -> State \cup {NoState}], down' \in [Client -> Seq(Frame)],
             UNCHANGED <<subscribed, open, up, clientVars>>,
             file' \in 1 .. MaxFile, fileSize' \in 0 .. MaxFile,
             noticed' \in BOOLEAN, timer' \in BOOLEAN, turn' \in State \cup {NoState}
      PROVE  Types'
  BY <1>4 DEF clientVars, Types
<1>5. CASE FlushDetached
  <2>1. CASE Publishes
    <3>1. PICK n \in 1 .. MaxFile : LandsBetween(n) /\ noticed' = (noticed \/ n > file) /\ Push(DiskState(n))
      BY <1>5, <2>1 DEF FlushDetached
    <3>2. file' \in 1 .. MaxFile /\ noticed' \in BOOLEAN
      BY <3>1, SessionStates
    <3>3. fileSize' = file /\ timer' = FALSE /\ turn' = turn
      BY <1>5, <2>1 DEF FlushDetached
    <3>4. fileSize' \in 0 .. MaxFile
      <4>1. file \in 1 .. MaxFile
        BY DEF Types
      <4> QED BY <3>3, <4>1
    <3> QED BY <3>4, <1>4, <1>5, <3>1, <3>2, <3>3, SessionStates, PushTypes DEF FlushDetached, Types
  <2>2. CASE ~Publishes
    BY <1>5, <2>2 DEF FlushDetached, clientVars, Types
  <2> QED BY <2>1, <2>2
<1>6. CASE TurnEvent
  <2>1. turn' \in State
    <3>1. turn \in State
      BY <1>6 DEF TurnEvent, Detached, Types
    <3> QED BY <1>6, <3>1 DEF TurnEvent, State
  <2>2. PICK s : s = turn'
    OBVIOUS
  <2>3. Push(s)
    BY <1>6, <2>2 DEF TurnEvent
  <2> QED BY <1>4, <1>6, <2>1, <2>2, <2>3, PushTypes DEF TurnEvent, diskVars, Types
<1>7. CASE EndTurn
  <2>1. PICK n \in 1 .. MaxFile, live \in {0, turn.live} :
          /\ LandsBetween(n) /\ fileSize' = n /\ noticed' = (noticed \/ n > file)
          /\ Push([file |-> file, live |-> live])
    BY <1>7 DEF EndTurn, PublishesRelease
  <2>2. [file |-> file, live |-> live] \in State
    <3>1. live \in 0 .. MaxLive
      BY <1>7, SessionStates DEF EndTurn, Detached
    <3> QED BY <3>1, SessionStates
  <2>3. file' \in 1 .. MaxFile /\ fileSize' \in 0 .. MaxFile /\ noticed' \in BOOLEAN
    BY <2>1, SessionStates
  <2> QED BY <1>4, <1>7, <2>1, <2>2, <2>3, PushTypes DEF EndTurn, Types
<1> QED BY <1>1, <1>2, <1>3, <1>5, <1>6, <1>7

\* The types of what the server does with a command, and when it loses a client.
LEMMA ServesTypes ==
  ASSUME Types, NEW c \in Client, c \notin open => up[c] = <<>>, Serves(c) \/ Disconnect(c)
  PROVE  Types'
<1>1. /\ up \in [Client -> Seq(Command)] /\ down \in [Client -> Seq(Frame)]
      /\ up[c] \in Seq(Command) /\ down[c] \in Seq(Frame)
  BY DEF Types
<1>2. ASSUME up[c] # <<>> PROVE Tail(up[c]) \in Seq(Command) /\ Received(c) \in Command /\ c \in open
  BY <1>1, <1>2, HeadTailProperties DEF Received
<1>3. CASE Unsubscribe(c)
  <2>1. up' \in [Client -> Seq(Command)]
    BY <1>1, <1>2, <1>3 DEF Unsubscribe
  <2>2. PICK kept \in 0 .. Len(down[c]) : down' = [down EXCEPT ![c] = SubSeq(down[c], 1, kept)]
    BY <1>3 DEF Unsubscribe, Remaining
  <2>3. SubSeq(down[c], 1, kept) \in Seq(Frame)
    BY <1>1, PrefixKeeps
  <2>4. down' \in [Client -> Seq(Frame)]
    BY <1>1, <2>2, <2>3
  <2>5. last' \in [Client -> State \cup {NoState}] /\ subscribed' \subseteq open
    BY <1>3 DEF Unsubscribe, Types
  <2> QED BY <1>3, <2>1, <2>4, <2>5 DEF Unsubscribe, diskVars, clientVars, Types
<1>4. ASSUME up[c] # <<>>, NEW s \in State, AnswerWith(c, s)
      PROVE  /\ up' \in [Client -> Seq(Command)] /\ down' \in [Client -> Seq(Frame)]
             /\ last' \in [Client -> State \cup {NoState}] /\ subscribed' \subseteq open
             /\ revisions' \in Seq(State)
  <2>1. up' \in [Client -> Seq(Command)]
    BY <1>1, <1>2, <1>4 DEF AnswerWith
  <2>2. PICK kept \in 0 .. Len(down[c]), count \in 0 .. MaxBatches :
          down' = [down EXCEPT ![c] = Remaining(c, kept) \o InitialSync(Received(c), s, count)]
    BY <1>4 DEF AnswerWith
  <2>3. InitialSync(Received(c), s, count) \in Seq(Frame)
    BY <1>2, <1>4, InitialSyncIsWhole DEF Snapshot, Types
  <2>4. Remaining(c, kept) \in Seq(Frame)
    BY <1>1, PrefixKeeps DEF Remaining
  <2>5. Remaining(c, kept) \o InitialSync(Received(c), s, count) \in Seq(Frame)
    BY <2>3, <2>4, ConcatPlaces
  <2>6. down' \in [Client -> Seq(Frame)]
    BY <1>1, <2>2, <2>5
  <2>7. last' \in [Client -> State \cup {NoState}] /\ subscribed' \subseteq open
    BY <1>2, <1>4 DEF AnswerWith, SetsBase, Types
  <2>8. revisions' \in Seq(State)
    BY <1>4, RevisionsGrow DEF AnswerWith, Types
  <2> QED BY <2>1, <2>6, <2>7, <2>8
<1>5. CASE SubscribeAttached(c)
  <2>1. turn \in State /\ up[c] # <<>> /\ AnswerWith(c, turn)
    BY <1>5 DEF SubscribeAttached, Detached, Types
  <2> QED BY <1>4, <1>5, <2>1 DEF SubscribeAttached, AnswerWith, diskVars, clientVars, Types
<1>6. CASE SubscribeDetached(c)
  <2>1. DiskState(file) \in State /\ up[c] # <<>> /\ AnswerWith(c, DiskState(file))
    BY <1>6, SessionStates DEF SubscribeDetached, Types
  <2>2. file' \in 1 .. MaxFile /\ fileSize' \in 0 .. MaxFile /\ noticed' \in BOOLEAN /\ timer' = timer
    BY <1>6, SessionStates DEF SubscribeDetached
  <2> QED BY <1>4, <2>1, <2>2 DEF AnswerWith, clientVars, Types
<1>7. CASE Disconnect(c)
  <2>1. up' \in [Client -> Seq(Command)] /\ down' \in [Client -> Seq(Frame)]
    BY <1>1, <1>7 DEF Disconnect
  <2> QED BY <1>7, <2>1 DEF Disconnect, diskVars, clientVars, Types
<1> QED BY <1>3, <1>5, <1>6, <1>7 DEF Serves

\* The types of what a browser receives.
LEMMA ReceivesTypes ==
  ASSUME Types, NEW c \in Client, Receives(c)
  PROVE  Types'
<1>1. /\ down \in [Client -> Seq(Frame)] /\ queue \in [Client -> Seq(Frame)]
      /\ down[c] \in Seq(Frame) /\ queue[c] \in Seq(Frame)
  BY DEF Types
<1>2. down[c] # <<>> /\ Taken(c)
  BY DEF Receives, ReceiveSync, ReceiveManifest, ReceiveBatch, Frames
<1>3. Head(down[c]) \in Frame /\ down' \in [Client -> Seq(Frame)]
  <2>1. Head(down[c]) \in Frame /\ Tail(down[c]) \in Seq(Frame)
    BY <1>1, <1>2, HeadTailProperties
  <2> QED BY <1>1, <1>2, <2>1 DEF Taken
<1>4. ASSUME NEW m \in Frame, EnqueueSync(c, m)
      PROVE  queue' \in [Client -> Seq(Frame)] /\ awaiting' \in [Client -> BOOLEAN]
  <2>1. <<m>> \in Seq(Frame) /\ Append(queue[c], m) \in Seq(Frame)
    BY <1>1, AppendProperties
  <2>2. CASE m.op = "delta"
    BY <1>1, <1>4, <2>1, <2>2 DEF EnqueueSync, Types
  <2>3. CASE m.op # "delta"
    BY <1>1, <1>4, <2>1, <2>3 DEF EnqueueSync, Types
  <2> QED BY <2>2, <2>3
<1>5. ASSUME NEW p \in Transfer, Collect(c, p)
      PROVE  /\ queue' \in [Client -> Seq(Frame)] /\ awaiting' \in [Client -> BOOLEAN]
             /\ parts' \in [Client -> Transfer \cup {Idle}]
  <2>1. CASE p.next = p.count
    <3>1. PICK f : f = [op |-> "content", revision |-> p.revision, state |-> p.state, base |-> p.base, count |-> 0]
      OBVIOUS
    <3>2. f \in Frame
      BY <3>1 DEF Frame, Op, Transfer
    <3>3. EnqueueSync(c, f) /\ parts' = [parts EXCEPT ![c] = Idle]
      BY <1>5, <2>1, <3>1 DEF Collect, Complete
    <3> QED BY <1>4, <3>2, <3>3 DEF Types
  <2>2. CASE p.next # p.count
    BY <1>5, <2>2 DEF Collect, Types
  <2> QED BY <2>1, <2>2
<1>6. CASE ReceiveSync(c)
  <2>1. EnqueueSync(c, Head(down[c]))
    BY <1>6 DEF ReceiveSync
  <2>2. queue' \in [Client -> Seq(Frame)] /\ awaiting' \in [Client -> BOOLEAN]
    BY <1>3, <1>4, <2>1
  <2> QED BY <1>3, <1>6, <2>2 DEF ReceiveSync, diskVars, serverVars, Types
<1>7. CASE ReceiveManifest(c)
  <2>1. PICK p : p = [revision |-> Head(down[c]).revision, state |-> Head(down[c]).state,
                      base |-> Head(down[c]).base, count |-> Head(down[c]).count, next |-> 0]
    OBVIOUS
  <2>2. p \in Transfer /\ Collect(c, p)
    BY <1>3, <1>7, <2>1 DEF ReceiveManifest, Transfer, Frame
  <2> QED BY <1>3, <1>5, <1>7, <2>2 DEF ReceiveManifest, diskVars, serverVars, Types
<1>8. CASE ReceiveBatch(c)
  <2>1. /\ queue' \in [Client -> Seq(Frame)] /\ awaiting' \in [Client -> BOOLEAN]
        /\ parts' \in [Client -> Transfer \cup {Idle}]
    <3>1. CASE IsPartOf(Head(down[c]), parts[c])
      <4>1. PICK p : p = [parts[c] EXCEPT !.next = @ + 1]
        OBVIOUS
      <4>2. parts[c] \in Transfer
        BY <3>1, TypesOf DEF IsPartOf
      <4>3. p \in Transfer /\ Collect(c, p)
        BY <1>8, <3>1, <4>1, <4>2 DEF ReceiveBatch, Transfer
      <4> QED BY <1>5, <4>3
    <3>2. CASE ~IsPartOf(Head(down[c]), parts[c])
      BY <1>8, <3>2 DEF ReceiveBatch, Types
    <3> QED BY <3>1, <3>2
  <2> QED BY <1>3, <1>8, <2>1 DEF ReceiveBatch, diskVars, serverVars, Types
<1> QED BY <1>6, <1>7, <1>8 DEF Receives

\* The types of what a browser asks.
LEMMA AskingTypes ==
  ASSUME Types, NEW c \in Client,
         \/ RejectBatch(c) \/ Refocus(c) \/ CompactionEnds(c) \/ SessionAttached(c)
         \/ Deactivate(c) \/ Activate(c) \/ Reconnect(c)
  PROVE  Types'
<1>1. /\ up \in [Client -> Seq(Command)] /\ up[c] \in Seq(Command)
      /\ sync[c] \in State \cup {NoState} /\ cached[c] \in State \cup {NoState}
      /\ <<>> \in Seq(Frame)
  BY DEF Types
<1>2. ASSUME NEW cmd \in Command, Send(c, cmd) PROVE up' \in [Client -> Seq(Command)]
  BY <1>1, <1>2, AppendProperties DEF Send
<1>3. ASSUME NEW forced \in BOOLEAN, NEW synced \in State \cup {NoState}, NEW inventory \in State \cup {NoState}
      PROVE  SubscribeCommand(forced, synced, inventory) \in Command
  BY <1>3, Commands
<1>4. ASSUME NEW forced \in BOOLEAN, AskForState(c, forced)
      PROVE  /\ up' \in [Client -> Seq(Command)] /\ queue' \in [Client -> Seq(Frame)]
             /\ awaiting' \in [Client -> BOOLEAN]
             /\ sync' \in [Client -> State \cup {NoState}] /\ cached' \in [Client -> State \cup {NoState}]
             /\ syncRevision' \in [Client -> Nat] /\ parts' \in [Client -> Transfer \cup {Idle}]
  <2>1. up' \in [Client -> Seq(Command)]
    BY <1>1, <1>2, <1>3, <1>4 DEF AskForState
  <2>2. sync' \in [Client -> State \cup {NoState}] /\ cached' \in [Client -> State \cup {NoState}]
    BY <1>1, <1>4 DEF AskForState, Types
  <2> QED BY <1>1, <1>4, <2>1, <2>2 DEF AskForState, Types
<1>5. ASSUME NEW forced \in BOOLEAN, NEW left \in Seq(Frame), RequestFull(c, forced, left)
      PROVE  /\ up' \in [Client -> Seq(Command)] /\ queue' \in [Client -> Seq(Frame)]
             /\ awaiting' \in [Client -> BOOLEAN]
             /\ sync' \in [Client -> State \cup {NoState}] /\ cached' \in [Client -> State \cup {NoState}]
             /\ syncRevision' \in [Client -> Nat] /\ parts' \in [Client -> Transfer \cup {Idle}]
  <2>1. CASE awaiting[c]
    <3>1. /\ queue' = [queue EXCEPT ![c] = left]
          /\ UNCHANGED <<awaiting, sync, syncRevision, cached, parts, up>>
      BY <1>5, <2>1 DEF RequestFull
    <3>2. queue' \in [Client -> Seq(Frame)]
      BY <3>1 DEF Types
    <3> QED BY <3>1, <3>2 DEF Types
  <2>2. CASE ~awaiting[c]
    BY <1>4, <1>5, <2>2 DEF RequestFull
  <2> QED BY <2>1, <2>2
\* What is not about the state that the browser asked for.
<1>6. ASSUME up' \in [Client -> Seq(Command)], queue' \in [Client -> Seq(Frame)],
             awaiting' \in [Client -> BOOLEAN],
             sync' \in [Client -> State \cup {NoState}], cached' \in [Client -> State \cup {NoState}],
             syncRevision' \in [Client -> Nat], parts' \in [Client -> Transfer \cup {Idle}],
             active' \in [Client -> BOOLEAN], nonce' \in [Client -> Nat],
             open' \subseteq Client, subscribed \subseteq open',
             UNCHANGED <<diskVars, serverVars, down, batch, seen>>
      PROVE  Types'
  BY <1>6 DEF diskVars, serverVars, Types
<1>7. ASSUME UNCHANGED <<active, nonce, open>>
      PROVE  /\ active' \in [Client -> BOOLEAN] /\ nonce' \in [Client -> Nat]
             /\ open' \subseteq Client /\ subscribed \subseteq open'
  BY <1>7 DEF Types
<1>8. CASE RejectBatch(c)
  <2>1. RequestFull(c, TRUE, <<>>) /\ UNCHANGED <<diskVars, serverVars, open, down, active, nonce, batch, seen>>
    BY <1>8 DEF RejectBatch
  <2>2. TRUE \in BOOLEAN
    OBVIOUS
  <2> QED BY <1>1, <1>5, <1>6, <1>7, <2>1, <2>2
<1>9. CASE SessionAttached(c)
  <2>1. /\ RequestFull(c, FALSE, queue[c])
        /\ UNCHANGED <<diskVars, serverVars, open, down, active, nonce, batch, seen>>
    BY <1>9 DEF SessionAttached
  <2>2. queue[c] \in Seq(Frame) /\ FALSE \in BOOLEAN
    BY DEF Types
  <2> QED BY <1>5, <1>6, <1>7, <2>1, <2>2
<1>10. CASE Refocus(c) \/ CompactionEnds(c)
  <2>1. /\ Send(c, SubscribeCommand(FALSE, sync[c], cached[c]))
        /\ UNCHANGED <<diskVars, serverVars, open, down, clientVars>>
    BY <1>10 DEF Refocus, CompactionEnds
  <2>2. up' \in [Client -> Seq(Command)]
    BY <1>1, <1>2, <1>3, <2>1
  <2> QED BY <2>1, <2>2 DEF diskVars, serverVars, clientVars, Types
<1>11. ASSUME nonce' = [nonce EXCEPT ![c] = @ + 1], NEW on \in BOOLEAN, active' = [active EXCEPT ![c] = on], open' = open
      PROVE  /\ active' \in [Client -> BOOLEAN] /\ nonce' \in [Client -> Nat]
             /\ open' \subseteq Client /\ subscribed \subseteq open'
  BY <1>11 DEF Types
<1>12. CASE Deactivate(c)
  <2>1. /\ nonce' = [nonce EXCEPT ![c] = @ + 1] /\ active' = [active EXCEPT ![c] = FALSE]
        /\ awaiting' = [awaiting EXCEPT ![c] = FALSE]
        /\ queue' = [queue EXCEPT ![c] = <<>>] /\ parts' = [parts EXCEPT ![c] = Idle]
        /\ UNCHANGED <<diskVars, serverVars, open, down, batch, sync, syncRevision, cached, seen>>
    BY <1>12 DEF Deactivate
  <2>2. up' \in [Client -> Seq(Command)]
    BY <1>2, <1>12, Commands DEF Deactivate
  <2>3. /\ queue' \in [Client -> Seq(Frame)] /\ awaiting' \in [Client -> BOOLEAN]
        /\ sync' \in [Client -> State \cup {NoState}] /\ cached' \in [Client -> State \cup {NoState}]
        /\ syncRevision' \in [Client -> Nat] /\ parts' \in [Client -> Transfer \cup {Idle}]
    BY <1>1, <2>1 DEF Types
  <2>4. /\ active' \in [Client -> BOOLEAN] /\ nonce' \in [Client -> Nat]
        /\ open' \subseteq Client /\ subscribed \subseteq open'
    BY <1>11, <2>1
  <2> QED BY <1>6, <2>1, <2>2, <2>3, <2>4
<1>13. CASE Activate(c)
  <2>1. /\ AskForState(c, FALSE) /\ nonce' = [nonce EXCEPT ![c] = @ + 1] /\ active' = [active EXCEPT ![c] = TRUE]
        /\ UNCHANGED <<diskVars, serverVars, open, down, batch, seen>>
    BY <1>13 DEF Activate
  <2>2. /\ active' \in [Client -> BOOLEAN] /\ nonce' \in [Client -> Nat]
        /\ open' \subseteq Client /\ subscribed \subseteq open'
    BY <1>11, <2>1
  <2>3. FALSE \in BOOLEAN
    OBVIOUS
  <2> QED BY <1>4, <1>6, <2>1, <2>2, <2>3
<1>14. CASE Reconnect(c)
  <2>1. /\ open' \subseteq Client /\ subscribed \subseteq open'
        /\ UNCHANGED <<diskVars, serverVars, down, active, nonce, batch, cached, seen>>
    BY <1>14 DEF Reconnect, Types
  <2>2. CASE active[c]
    <3>1. up' \in [Client -> Seq(Command)]
      <4>1. PICK cmd \in Command : up' = [up EXCEPT ![c] = Append(@, cmd)]
        BY <1>1, <1>3, <1>14, <2>2 DEF Reconnect
      <4> QED BY <1>1, <4>1, AppendProperties
    <3>2. PICK synced \in {sync[c], NoState} : sync' = [sync EXCEPT ![c] = synced]
      BY <1>14, <2>2 DEF Reconnect
    <3>3. sync' \in [Client -> State \cup {NoState}]
      BY <1>1, <3>2 DEF Types
    <3>4. PICK r \in {syncRevision[c], 0} : syncRevision' = [syncRevision EXCEPT ![c] = r]
      BY <1>14, <2>2 DEF Reconnect
    <3>5. syncRevision' \in [Client -> Nat]
      BY <3>4 DEF Types
    <3>6. /\ queue' \in [Client -> Seq(Frame)] /\ awaiting' \in [Client -> BOOLEAN]
          /\ parts' \in [Client -> Transfer \cup {Idle}]
      <4>1. /\ awaiting' = [awaiting EXCEPT ![c] = TRUE] /\ queue' = [queue EXCEPT ![c] = <<>>]
            /\ parts' = [parts EXCEPT ![c] = Idle]
        BY <1>14, <2>2 DEF Reconnect
      <4> QED BY <1>1, <4>1 DEF Types
    <3>7. /\ active' \in [Client -> BOOLEAN] /\ nonce' \in [Client -> Nat]
          /\ cached' \in [Client -> State \cup {NoState}]
      BY <2>1 DEF Types
    <3> QED BY <1>6, <2>1, <3>1, <3>3, <3>5, <3>6, <3>7
  <2>3. CASE ~active[c]
    <3>1. UNCHANGED <<awaiting, sync, syncRevision, queue, parts, up>>
      BY <1>14, <2>3 DEF Reconnect
    <3> QED BY <2>1, <3>1 DEF diskVars, serverVars, Types
  <2> QED BY <2>2, <2>3
<1> QED BY <1>8, <1>9, <1>10, <1>12, <1>13, <1>14

\* The types of what a browser applies.
LEMMA AppliesTypes ==
  ASSUME Types, NEW c \in Client, ConfirmState(c) \/ FlushBatch(c) \/ Commits(c)
  PROVE  Types'
<1>1. queue[c] \in Seq(Frame) /\ <<>> \in Seq(Frame) /\ nonce[c] \in Nat /\ seen[c] \in Nat
  BY DEF Types
<1>2. ASSUME queue[c] # <<>>
      PROVE  /\ queue[c][1].revision \in Nat /\ queue[c][1].state \in State
             /\ LastOf(queue[c]).revision \in Nat /\ LastOf(queue[c]).state \in State
  <2>1. queue[c][1] \in Frame /\ LastOf(queue[c]) \in Frame
    BY <1>1, <1>2, Places DEF LastOf
  <2> QED BY <2>1 DEF Frame
<1>3. \A n \in Nat : Shown(c, n) => seen' \in [Client -> Nat]
  BY <1>1 DEF Shown, Types
<1>4. CASE ConfirmState(c)
  <2>1. queue[c][1].revision \in Nat
    BY <1>2, <1>4 DEF ConfirmState, CanFlush
  <2>2. seen' \in [Client -> Nat]
    BY <1>3, <1>4, <2>1 DEF ConfirmState
  <2> QED BY <1>1, <1>4, <2>1, <2>2 DEF ConfirmState, diskVars, serverVars, wireVars, Types
<1>5. CASE FlushBatch(c)
  <2>1. PICK b : b = [nonce |-> nonce[c], result |-> LastOf(queue[c]).state, revision |-> LastOf(queue[c]).revision,
                      inventory |-> IF queue[c][1].op = "content" /\ Len(queue[c]) = 1
                                    THEN queue[c][1].state ELSE NoState]
    OBVIOUS
  <2>2. b \in Batch
    BY <1>1, <1>2, <1>5, <2>1 DEF FlushBatch, CanFlush, Batch
  <2>3. batch' = [batch EXCEPT ![c] = b]
    BY <1>5, <2>1 DEF FlushBatch
  <2>4. batch' \in [Client -> Batch \cup {Idle}]
    BY <2>2, <2>3 DEF Types
  <2> QED BY <1>1, <1>5, <2>4 DEF FlushBatch, diskVars, serverVars, wireVars, Types
<1>6. CASE CommitBatch(c)
  <2>1. batch[c] \in Batch
    BY <1>6, TypesOf DEF CommitBatch, Hashed
  <2>2. batch[c].revision \in Nat /\ batch[c].result \in State /\ batch[c].inventory \in State \cup {NoState}
    BY <2>1 DEF Batch
  <2>3. seen' \in [Client -> Nat]
    BY <1>3, <1>6, <2>2 DEF CommitBatch
  <2>4. sync' \in [Client -> State \cup {NoState}] /\ cached' \in [Client -> State \cup {NoState}]
    BY <1>6, <2>2 DEF CommitBatch, Types
  <2> QED BY <1>6, <2>2, <2>3, <2>4 DEF CommitBatch, diskVars, serverVars, wireVars, Types
<1>7. CASE ForgetBatch(c)
  BY <1>7 DEF ForgetBatch, diskVars, serverVars, wireVars, Types
<1> QED BY <1>4, <1>5, <1>6, <1>7 DEF Commits

-------------------------------------------------------------------------------
(* The invariant holds *)

\* The server knows nothing of any browser yet.
LEMMA InitEstablishesSyncInv ==
  ASSUME Init
  PROVE  SyncInv
<1>1. \A n \in 1 .. file : DiskState(n) \in State
  BY DEF Init, DiskState, State
<1>2. cached \in [Client -> State \cup {NoState}] /\ sync = cached
  BY <1>1 DEF Init
<1>3. \A c \in Client : SubscribeCommand(FALSE, sync[c], cached[c]) \in Command
  BY <1>2, Commands
<1>4. \A cmd \in Command : <<cmd>> \in Seq(Command)
  OBVIOUS
<1>5. up \in [Client -> Seq(Command)]
  <2>1. up = [c \in Client |-> <<SubscribeCommand(FALSE, sync[c], cached[c])>>]
    BY DEF Init
  <2> QED BY <1>3, <1>4, <2>1
<1>6. <<>> \in Seq(Frame) /\ <<>> \in Seq(State)
  OBVIOUS
<1>7. Types
  <2>1. file \in 1 .. MaxFile /\ fileSize \in 0 .. MaxFile
    BY DEF Init
  <2>2. down \in [Client -> Seq(Frame)] /\ queue \in [Client -> Seq(Frame)]
    BY <1>6 DEF Init
  <2> QED BY <1>2, <1>5, <1>6, <2>1, <2>2 DEF Init, Types
<1>8. ASSUME NEW c \in Client PROVE ClientInv(c)
  <2>1. /\ down[c] = <<>> /\ queue[c] = <<>> /\ batch[c] = Idle /\ parts[c] = Idle
        /\ syncRevision[c] = 0 /\ seen[c] = 0 /\ subscribed = {} /\ open = Client /\ revisions = <<>>
    BY DEF Init
  <2>2. /\ Len(<<>>) = 0 /\ Ordered(revisions, <<>>) /\ FramesStamped(revisions, <<>>)
        /\ \A r : After(revisions, r, <<>>)
    BY Nothing
  <2>3. TrueStates(c) /\ InOrder(c)
    BY <2>1, <2>2 DEF TrueStates, InOrder
  <2>4. BatchesFollow(c)
    BY <2>1, <2>2 DEF BatchesFollow, Chain
  <2> QED BY <2>1, <2>3, <2>4 DEF ClientInv, BaseIsNewest, OnCourse
<1> QED BY <1>7, <1>8 DEF SyncInv

\* A step of one browser, or of the server for it.
LEMMA StepKeeps ==
  ASSUME SyncInv, NEW c \in Client, StepOf(c)
  PROVE  SyncInv'
<1>1. Types /\ ClientInv(c) /\ (c \notin open => up[c] = <<>>)
  BY DEF SyncInv, ClientInv
<1>2. Types'
  BY <1>1, ServesTypes, ReceivesTypes, AskingTypes, AppliesTypes DEF StepOf, Flushes
<1>3. ClientInv(c)'
  <2>1. CASE Serves(c)
    BY <1>1, <1>2, <2>1, ServesKeeps
  <2>2. CASE Receives(c)
    BY <1>1, <1>2, <2>2, ReceiveSyncKeeps, ReceiveManifestKeeps, ReceiveBatchKeeps DEF Receives
  <2>3. CASE Flushes(c)
    BY <1>1, <1>2, <2>3, AskingKeeps, ConfirmStateKeeps, FlushBatchKeeps DEF Flushes
  <2>4. CASE Commits(c)
    BY <1>1, <1>2, <2>4, CommitKeeps DEF Commits
  <2>5. CASE Disconnect(c)
    BY <1>1, <1>2, <2>5, DisconnectKeeps
  <2>6. CASE \/ Refocus(c) \/ CompactionEnds(c) \/ SessionAttached(c)
             \/ Deactivate(c) \/ Activate(c) \/ Reconnect(c)
    BY <1>1, <1>2, <2>6, AskingKeeps
  <2> QED BY <2>1, <2>2, <2>3, <2>4, <2>5, <2>6 DEF StepOf
<1>4. ASSUME NEW d \in Client, d # c PROVE ClientInv(d)'
  BY <1>1, <1>2, <1>4, OthersKeep DEF SyncInv
<1> QED BY <1>2, <1>3, <1>4 DEF SyncInv

\* Every step keeps every browser on course.
LEMMA NextKeepsSyncInv ==
  ASSUME SyncInv, [Next]_vars
  PROVE  SyncInv'
<1>1. CASE AppendFile \/ FileNoticed \/ FlushDetached \/ StartTurn \/ TurnEvent \/ EndTurn
  <2>1. Types /\ Types'
    BY <1>1, SessionTypes DEF SyncInv
  <2> QED BY <1>1, <2>1, SessionKeeps DEF SyncInv
<1>2. ASSUME NEW c \in Client, StepOf(c) PROVE SyncInv'
  BY <1>2, StepKeeps
<1>3. CASE UNCHANGED vars
  <2>1. UNCHANGED <<file, noticed, timer, fileSize, turn, revisions, subscribed, last, open, up, down,
                    active, nonce, awaiting, queue, parts, batch, sync, syncRevision, cached, seen>>
    BY <1>3 DEF vars, diskVars, serverVars, wireVars, clientVars
  <2>2. Types'
    BY <2>1 DEF SyncInv, Types
  <2>3. Grown(revisions, revisions')
    BY <2>1, GrownAlike DEF SyncInv
  <2>4. ASSUME NEW c \in Client PROVE ClientInv(c)'
    BY <2>1, <2>2, <2>3, Unmoved DEF SyncInv
  <2> QED BY <2>2, <2>4 DEF SyncInv
<1> QED BY <1>1, <1>2, <1>3 DEF Next, StepOf

\* Whatever is lost, cancelled, dropped or overtaken, every browser stays on course
\* (ws-handler.ts, ws-agent-adapter.ts).
THEOREM SyncInvariant == Spec => []SyncInv
<1>1. Init => SyncInv
  BY InitEstablishesSyncInv
<1>2. SyncInv /\ [Next]_vars => SyncInv'
  BY NextKeepsSyncInv
<1> QED BY <1>1, <1>2, PTL DEF Spec

-------------------------------------------------------------------------------
(* What it gives *)

\* The state is well formed.
LEMMA SyncInvTypeOK == ASSUME SyncInv PROVE TypeOK
<1>1. Types
  BY DEF SyncInv
<1>2. ASSUME NEW c \in Client
      PROVE  parts[c] = Idle \/ (parts[c] \in Transfer /\ parts[c].next < parts[c].count)
  BY <1>1, TypesOf DEF SyncInv, ClientInv, BatchesFollow
<1> QED BY <1>1, <1>2 DEF Types, TypeOK

\* The variables of the session, its server and its browsers keep their types (TypeOK).
THEOREM SyncTypes == Spec => []TypeOK
BY SyncInvariant, SyncInvTypeOK, PTL

\* A browser shows what the server had.
LEMMA SyncInvShows == ASSUME SyncInv PROVE ShowsItsRevision
BY DEF SyncInv, ClientInv, TrueStates, Stamped, ShowsItsRevision

\* Whatever was lost or overtaken while it hashed, a browser shows at a revision exactly
\* what the server had at that revision (applySessionSyncBatch).
THEOREM BrowsersShowTheirRevision == Spec => []ShowsItsRevision
BY SyncInvariant, SyncInvShows, PTL

\* What is seen is the newest.
LEMMA SyncInvForward == ASSUME SyncInv PROVE NeverGoesBack
BY DEF SyncInv, ClientInv, InOrder, NeverGoesBack

\* The view never returns to an older revision (_syncRevision).
THEOREM BrowsersNeverGoBack == Spec => []NeverGoesBack
BY SyncInvariant, SyncInvForward, PTL

\* A queue without a gap in its revisions has none in its states.
LEMMA SyncInvChained ==
  ASSUME SyncInv, NEW c \in Client, CanFlush(c), ~RevisionGap(c)
  PROVE  Chained(c)
<1>1. Types /\ TrueStates(c) /\ InOrder(c)
  BY DEF SyncInv, ClientInv
<1>2. queue[c] \in Seq(Frame) /\ revisions \in Seq(State) /\ Len(revisions) \in Nat /\ seen[c] \in Nat
  BY <1>1, TypesOf
<1>3. Len(queue[c]) \in Nat /\ DOMAIN queue[c] = 1 .. Len(queue[c])
  BY <1>2, LenProperties
<1>4. ASSUME NEW r, NEW s, Stamped(revisions, r, s) PROVE s \in State
  <2>1. r \in 1 .. Len(revisions) /\ s = revisions[r]
    BY <1>4 DEF Stamped
  <2> QED BY <1>2, <2>1, ElementOfSeq
<1> SUFFICES ASSUME NEW i \in 1 .. Len(queue[c]), queue[c][i].op = "delta"
             PROVE  StateBefore(c, i) # NoState /\ queue[c][i].base = StateBefore(c, i)
  BY <1>3 DEF Chained
<1>5. RevisionBefore(c, i) # 0 /\ queue[c][i].revision = RevisionBefore(c, i) + 1
  BY <1>3 DEF RevisionGap
<1>6. Stamped(revisions, RevisionBefore(c, i), StateBefore(c, i))
  <2>1. CASE i = 1
    BY <1>1, <1>5, <2>1 DEF TrueStates, RevisionBefore, StateBefore
  <2>2. CASE i # 1
    <3>1. i - 1 \in 1 .. Len(queue[c])
      BY <1>3, <2>2
    <3> QED BY <1>1, <2>2, <3>1 DEF TrueStates, FramesStamped, RevisionBefore, StateBefore
  <2> QED BY <2>1, <2>2
<1>7. Follows(revisions, RevisionBefore(c, i), queue[c][i])
  <2>1. CASE i = 1
    <3>1. RevisionBefore(c, i) = seen[c]
      BY <1>1, <1>5, <2>1 DEF InOrder, RevisionBefore
    <3> QED BY <1>1, <3>1 DEF InOrder, After
  <2>2. CASE i # 1
    <3>1. i - 1 \in 1 .. Len(queue[c]) /\ i - 1 < i
      BY <1>3, <2>2
    <3> QED BY <1>1, <2>2, <3>1 DEF InOrder, Ordered, RevisionBefore
  <2> QED BY <2>1, <2>2
<1>8. Stamped(revisions, RevisionBefore(c, i), queue[c][i].base)
  BY <1>5, <1>7 DEF Follows
<1>9. queue[c][i].base = StateBefore(c, i)
  BY <1>6, <1>8 DEF Stamped
<1> QED BY <1>4, <1>6, <1>9

\* No patch goes astray.
LEMMA SyncInvPatchesFit == ASSUME SyncInv PROVE PatchesFit
<1>1. ASSUME NEW c \in Client, c \in subscribed, up[c] = <<>>, down[c] = <<>>, queue[c] = <<>>, batch[c] = Idle
      PROVE  sync[c] = last[c]
  <2>1. Types /\ OnCourse(c) /\ BatchesFollow(c)
    BY DEF SyncInv, ClientInv
  <2>2. ~SnapshotIn(down[c])
    BY <1>1, Nothing DEF SnapshotIn
  <2>3. ~Collecting(c)
    <3> SUFFICES ASSUME Collecting(c) PROVE FALSE
      OBVIOUS
    <3>1. parts[c].next \in Nat /\ parts[c].count \in Nat /\ parts[c].next < parts[c].count
      BY <2>1, TypesOf DEF Collecting, BatchesFollow, Transfer
    <3>2. 0 + (parts[c].count - parts[c].next) <= Len(down[c])
      BY DEF Collecting, RestAt
    <3> QED BY <1>1, <3>1, <3>2, Nothing
  <2>4. Patching(c)
    BY <1>1, <2>1, <2>2, <2>3 DEF OnCourse
  <2> QED BY <1>1, <2>4 DEF Patching, Tip
<1>2. ASSUME NEW c \in Client, down[c] # <<>>, Head(down[c]).op = "content_batch" PROVE InStep(c)
  <2>1. Head(down[c]) = down[c][1]
    BY <1>2, Places, TypesOf DEF SyncInv
  <2>2. BatchesFollow(c)
    BY DEF SyncInv, ClientInv
  <2> QED BY <1>2, <2>1, <2>2 DEF BatchesFollow, InStep, IsPartOf
<1>3. BasesAgree
  BY <1>1 DEF BasesAgree
<1>4. NothingIsOutOfStep
  BY <1>2, SyncInvChained DEF NothingIsOutOfStep
<1> QED BY <1>3, <1>4 DEF PatchesFit

\* The base of the next delta is what the browser has, batches arrive in step, and a
\* delta that follows the revision at hand patches the state at hand
\* (flushDetachedSessionSync, handleSegmentedSessionSync, applySyncOps).
THEOREM NoPatchGoesAstray == Spec => []PatchesFit
BY SyncInvariant, SyncInvPatchesFit, PTL
===============================================================================
