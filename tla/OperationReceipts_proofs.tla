------------------------- MODULE OperationReceipts_proofs -------------------------
(***************************************************************************)
(* A frame that is sent again is answered from the receipt, what a browser *)
(* waits for is under way, and what it was told stays true.                *)
(***************************************************************************)
EXTENDS OperationReceipts, FiniteSetTheorems, SequenceTheorems, TLAPS

\* The id of a resumable request never changes.
Requests == {r \in [op : Op, id : Nat] : r.op \in Resumable => r.id = 0}
Response == [request : Requests, answer : Outcome]

\* The requests of a sequence of responses.
AskedBy(s) == {s[i].request : i \in DOMAIN s}

\* No frame of a resumable operation is there twice, and no response to it.
FramesOnce(s)  == \A i, j \in DOMAIN s : s[i] = s[j] /\ s[i].op \in Resumable => i = j
AnswersOnce(s) ==
  \A i, j \in DOMAIN s : s[i].request = s[j].request /\ s[i].request.op \in Resumable => i = j

Resumables(R) == {r \in R : r.op \in Resumable}

-------------------------------------------------------------------------------
(* Sequences *)

\* The frames of a set are its members, each of them once.
LEMMA SetToSeqOnce ==
  ASSUME NEW S, IsFiniteSet(S)
  PROVE  /\ SetToSeq(S) \in Seq(S)
         /\ ToSet(SetToSeq(S)) = S
         /\ FramesOnce(SetToSeq(S))
<1> DEFINE n == Cardinality(S)
           s == SetToSeq(S)
<1>1. n \in Nat /\ ExistsBijection(1 .. n, S)
  BY FS_CardinalityType
<1>2. PICK f \in [1 .. n -> S] : IsInjective(f)
  BY <1>1 DEF ExistsBijection, Bijection, Injection
<1>3. s \in [1 .. n -> S] /\ IsInjective(s)
  BY <1>2 DEF SetToSeq
<1>4. s \in Surjection(1 .. n, S)
  <2>1. s \in Injection(1 .. n, S)
    BY <1>3 DEF Injection
  <2>2. IsFiniteSet(1 .. n) /\ Cardinality(1 .. n) = n
    BY <1>1, FS_Interval
  <2> QED BY <2>1, <2>2, FS_Injection
<1>5. ToSet(s) = S
  BY <1>3, <1>4 DEF ToSet, Surjection
<1>6. s \in Seq(S)
  BY <1>1, <1>3, SeqDef
<1>7. FramesOnce(s)
  BY <1>3 DEF FramesOnce, IsInjective
<1> QED BY <1>5, <1>6, <1>7

\* A sequence of frames that is sent after another one.
LEMMA ConcatOnce ==
  ASSUME NEW S, NEW s \in Seq(S), NEW t \in Seq(S)
  PROVE  /\ s \o t \in Seq(S)
         /\ ToSet(s \o t) = ToSet(s) \cup ToSet(t)
         /\ FramesOnce(s) /\ FramesOnce(t) /\ Resumables(ToSet(s) \cap ToSet(t)) = {}
              => FramesOnce(s \o t)
<1>1. /\ s \o t \in Seq(S) /\ Len(s \o t) = Len(s) + Len(t)
      /\ \A i \in 1 .. Len(s) + Len(t) :
           (s \o t)[i] = IF i <= Len(s) THEN s[i] ELSE t[i - Len(s)]
  BY ConcatProperties
<1>2. /\ DOMAIN s = 1 .. Len(s) /\ DOMAIN t = 1 .. Len(t)
      /\ DOMAIN (s \o t) = 1 .. (Len(s) + Len(t))
      /\ Len(s) \in Nat /\ Len(t) \in Nat
  BY <1>1, LenProperties
<1>3. ToSet(s \o t) \subseteq ToSet(s) \cup ToSet(t)
  BY <1>1, <1>2 DEF ToSet
<1>4. ToSet(s) \subseteq ToSet(s \o t)
  BY <1>1, <1>2 DEF ToSet
<1>5. ToSet(t) \subseteq ToSet(s \o t)
  <2>1. ASSUME NEW i \in 1 .. Len(t) PROVE t[i] \in ToSet(s \o t)
    <3>1. Len(s) + i \in 1 .. (Len(s) + Len(t)) /\ (s \o t)[Len(s) + i] = t[i]
      BY <1>1, <1>2
    <3> QED BY <3>1, <1>2 DEF ToSet
  <2> QED BY <2>1, <1>2 DEF ToSet
<1>6. ASSUME FramesOnce(s), FramesOnce(t), Resumables(ToSet(s) \cap ToSet(t)) = {}
      PROVE  FramesOnce(s \o t)
  <2> SUFFICES ASSUME NEW i \in DOMAIN (s \o t), NEW j \in DOMAIN (s \o t),
                      (s \o t)[i] = (s \o t)[j], (s \o t)[i].op \in Resumable
               PROVE  i = j
    BY DEF FramesOnce
  <2>1. ASSUME NEW k \in 1 .. Len(s), NEW l \in 1 .. Len(t), s[k].op \in Resumable
        PROVE  s[k] # t[l]
    BY <1>2, <1>6, <2>1 DEF ToSet, Resumables
  <2>2. CASE i <= Len(s) /\ j <= Len(s)
    BY <2>2, <1>1, <1>2, <1>6 DEF FramesOnce
  <2>3. CASE ~(i <= Len(s)) /\ ~(j <= Len(s))
    <3>1. i - Len(s) \in 1 .. Len(t) /\ j - Len(s) \in 1 .. Len(t)
      BY <2>3, <1>2
    <3> QED BY <3>1, <2>3, <1>1, <1>2, <1>6 DEF FramesOnce
  <2>4. CASE i <= Len(s) /\ ~(j <= Len(s))
    <3>1. i \in 1 .. Len(s) /\ j - Len(s) \in 1 .. Len(t)
      BY <2>4, <1>2
    <3> QED BY <3>1, <2>1, <2>4, <1>1, <1>2
  <2>5. CASE ~(i <= Len(s)) /\ j <= Len(s)
    <3>1. j \in 1 .. Len(s) /\ i - Len(s) \in 1 .. Len(t)
      BY <2>5, <1>2
    <3> QED BY <3>1, <2>1, <2>5, <1>1, <1>2
  <2> QED BY <2>2, <2>3, <2>4, <2>5
<1> QED BY <1>1, <1>3, <1>4, <1>5, <1>6

\* A sequence without its head.
LEMMA TailShifts ==
  ASSUME NEW S, NEW s \in Seq(S), s # <<>>
  PROVE  /\ Head(s) \in S /\ Tail(s) \in Seq(S)
         /\ 1 \in DOMAIN s /\ Head(s) = s[1]
         /\ \A i \in DOMAIN Tail(s) : i \in Nat /\ i + 1 \in DOMAIN s /\ i + 1 # 1
                                       /\ Tail(s)[i] = s[i + 1]
         /\ \A i \in DOMAIN s \ {1} : i - 1 \in DOMAIN Tail(s) /\ s[i] = Tail(s)[i - 1]
<1>1. /\ Head(s) \in S /\ Tail(s) \in Seq(S) /\ Head(s) = s[1]
      /\ Len(Tail(s)) = Len(s) - 1
      /\ \A i \in 1 .. Len(Tail(s)) : Tail(s)[i] = s[i + 1]
  BY HeadTailProperties
<1>2. /\ DOMAIN s = 1 .. Len(s) /\ DOMAIN Tail(s) = 1 .. (Len(s) - 1)
      /\ Len(s) \in Nat \ {0}
  BY <1>1, LenProperties, EmptySeq
<1>3. ASSUME NEW i \in DOMAIN s \ {1}
      PROVE  i - 1 \in DOMAIN Tail(s) /\ s[i] = Tail(s)[i - 1]
  <2>1. i \in Nat /\ 1 < i /\ i <= Len(s)
    BY <1>2
  <2>2. i - 1 \in 1 .. Len(Tail(s)) /\ (i - 1) + 1 = i
    BY <2>1, <1>1, <1>2
  <2> QED BY <2>2, <1>1, <1>2
<1> QED BY <1>1, <1>2, <1>3

\* What is left of frames when the first one was taken.
LEMMA TailOnce ==
  ASSUME NEW S, NEW s \in Seq(S), s # <<>>
  PROVE  /\ Head(s) \in S /\ Tail(s) \in Seq(S)
         /\ ToSet(s) = {Head(s)} \cup ToSet(Tail(s))
         /\ FramesOnce(s) =>
              FramesOnce(Tail(s)) /\ (Head(s).op \in Resumable => Head(s) \notin ToSet(Tail(s)))
<1> DEFINE t == Tail(s)
<1>1. /\ Head(s) \in S /\ t \in Seq(S)
      /\ 1 \in DOMAIN s /\ Head(s) = s[1]
      /\ \A i \in DOMAIN t : i \in Nat /\ i + 1 \in DOMAIN s /\ i + 1 # 1 /\ t[i] = s[i + 1]
      /\ \A i \in DOMAIN s \ {1} : i - 1 \in DOMAIN t /\ s[i] = t[i - 1]
  BY TailShifts
<1> HIDE DEF t
<1>2. ToSet(s) \subseteq {Head(s)} \cup ToSet(t)
  <2>1. ASSUME NEW i \in DOMAIN s PROVE s[i] \in {Head(s)} \cup ToSet(t)
    <3>1. CASE i = 1
      BY <3>1, <1>1
    <3>2. CASE i # 1
      BY <3>2, <1>1 DEF ToSet
    <3> QED BY <3>1, <3>2
  <2> QED BY <2>1 DEF ToSet
<1>3. ToSet(t) \cup {Head(s)} \subseteq ToSet(s)
  BY <1>1 DEF ToSet
<1>4. ASSUME FramesOnce(s)
      PROVE  FramesOnce(t) /\ (Head(s).op \in Resumable => Head(s) \notin ToSet(t))
  <2>1. Head(s).op \in Resumable => Head(s) \notin ToSet(t)
    BY <1>1, <1>4 DEF ToSet, FramesOnce
  <2>2. ASSUME NEW i \in DOMAIN t, NEW j \in DOMAIN t, t[i] = t[j], t[i].op \in Resumable
        PROVE  i = j
    <3>1. i + 1 = j + 1
      BY <2>2, <1>1, <1>4 DEF FramesOnce
    <3> QED BY <3>1, <1>1
  <2> QED BY <2>1, <2>2 DEF FramesOnce
<1> QED BY <1>1, <1>2, <1>3, <1>4 DEF t

\* What is left of responses when the first one was taken.
LEMMA TailAnswersOnce ==
  ASSUME NEW S, NEW s \in Seq(S), s # <<>>
  PROVE  /\ AskedBy(s) = {Head(s).request} \cup AskedBy(Tail(s))
         /\ AnswersOnce(s) =>
              AnswersOnce(Tail(s)) /\ (Head(s).request.op \in Resumable => Head(s).request \notin AskedBy(Tail(s)))
<1> DEFINE t == Tail(s)
<1>1. /\ Head(s) \in S /\ t \in Seq(S)
      /\ 1 \in DOMAIN s /\ Head(s) = s[1]
      /\ \A i \in DOMAIN t : i \in Nat /\ i + 1 \in DOMAIN s /\ i + 1 # 1 /\ t[i] = s[i + 1]
      /\ \A i \in DOMAIN s \ {1} : i - 1 \in DOMAIN t /\ s[i] = t[i - 1]
  BY TailShifts
<1> HIDE DEF t
<1>2. AskedBy(s) \subseteq {Head(s).request} \cup AskedBy(t)
  <2>1. ASSUME NEW i \in DOMAIN s PROVE s[i].request \in {Head(s).request} \cup AskedBy(t)
    <3>1. CASE i = 1
      BY <3>1, <1>1
    <3>2. CASE i # 1
      BY <3>2, <1>1 DEF AskedBy
    <3> QED BY <3>1, <3>2
  <2> QED BY <2>1 DEF AskedBy
<1>3. AskedBy(t) \cup {Head(s).request} \subseteq AskedBy(s)
  BY <1>1 DEF AskedBy
<1>4. ASSUME AnswersOnce(s)
      PROVE  AnswersOnce(t) /\ (Head(s).request.op \in Resumable => Head(s).request \notin AskedBy(t))
  <2>1. Head(s).request.op \in Resumable => Head(s).request \notin AskedBy(t)
    BY <1>1, <1>4 DEF AskedBy, AnswersOnce
  <2>2. ASSUME NEW i \in DOMAIN t, NEW j \in DOMAIN t, t[i].request = t[j].request, t[i].request.op \in Resumable
        PROVE  i = j
    <3>1. /\ i + 1 \in DOMAIN s /\ t[i] = s[i + 1]
          /\ j + 1 \in DOMAIN s /\ t[j] = s[j + 1]
      BY <1>1
    <3>2. s[i + 1].request = s[j + 1].request /\ s[i + 1].request.op \in Resumable
      BY <2>2, <3>1
    <3>3. i + 1 = j + 1
      BY <3>1, <3>2, <1>4 DEF AnswersOnce
    <3> QED BY <3>3, <1>1
  <2> QED BY <2>1, <2>2 DEF AnswersOnce
<1> QED BY <1>2, <1>3, <1>4 DEF t

\* A response that is sent after the others.
LEMMA AppendAnswersOnce ==
  ASSUME NEW S, NEW s \in Seq(S), NEW m \in S
  PROVE  /\ Append(s, m) \in Seq(S)
         /\ AskedBy(Append(s, m)) = AskedBy(s) \cup {m.request}
         /\ AnswersOnce(s) /\ (m.request.op \in Resumable => m.request \notin AskedBy(s))
              => AnswersOnce(Append(s, m))
<1> DEFINE t == Append(s, m)
           n == Len(s) + 1
<1>1. t \in Seq(S) /\ Len(t) = Len(s) + 1 /\ t[n] = m /\ \A i \in 1 .. Len(s) : t[i] = s[i]
  BY AppendProperties
<1>2. DOMAIN s = 1 .. Len(s) /\ DOMAIN t = 1 .. n /\ Len(s) \in Nat
  BY <1>1, LenProperties
<1>3. /\ DOMAIN t = DOMAIN s \cup {n} /\ n \notin DOMAIN s
      /\ t[n] = m /\ \A i \in DOMAIN s : t[i] = s[i]
  BY <1>1, <1>2
<1> HIDE DEF t, n
<1>4. AskedBy(t) = AskedBy(s) \cup {m.request}
  BY <1>3 DEF AskedBy
<1>5. ASSUME AnswersOnce(s), m.request.op \in Resumable => m.request \notin AskedBy(s)
      PROVE  AnswersOnce(t)
  BY <1>3, <1>5 DEF AnswersOnce, AskedBy
<1> QED BY <1>1, <1>4, <1>5 DEF t

-------------------------------------------------------------------------------
(* The inductive invariant *)

OfBrowser(c) == {r \in Requests : Owner[r.op] = c}

\* TypeOK, with the domains of the queues and what the server remembers.
Types ==
  /\ connected \in [Client -> BOOLEAN] /\ compacting \in [Client -> BOOLEAN]
  /\ pending \subseteq Op /\ queue \subseteq Deferred /\ failed \subseteq Deferred
  /\ told \in [Op -> Outcome \cup {"timed out", "nothing"}]
  /\ flushes \in [Op -> Nat] /\ \A op \in Resumable : flushes[op] = 0
  /\ toServer \in [Client -> Seq(Requests)] /\ toClient \in [Client -> Seq(Response)]
  /\ \A c \in Client : /\ ToSet(toServer[c]) \subseteq OfBrowser(c)
                       /\ AskedBy(toClient[c]) \subseteq OfBrowser(c)
  /\ settled \subseteq receipts /\ receipts \subseteq Resumable
  /\ older \in [Op -> SUBSET receipts] /\ met \in [Op -> SUBSET Op]
  /\ response \in [Op -> Outcome \cup {"open"}]
  /\ waiting \subseteq Requests /\ unrecorded \subseteq Requests
  /\ \A r \in unrecorded : r.op \in Deferred
  /\ starting \in [Op -> Nat] /\ turns \in [Op -> Nat] /\ executed \in [Op -> Nat]

\* What runs has a receipt that is not settled, and is the only execution of its
\* operation; its response is open as long as it is not accepted.
RunsAreRecorded ==
  \A op \in Resumable :
    /\ starting[op] + turns[op] <= 1
    /\ starting[op] + turns[op] > 0 => op \in receipts \ settled
    /\ op \in receipts => (response[op] = "open" <=> starting[op] > 0)

\* The receipts that an operation has not met are older and settled: they go first.
ReceiptsInOrder ==
  \A op \in receipts : receipts \ {op} \subseteq met[op] \cup (older[op] \cap settled)

\* The receipt of what was executed is pruned only after it met MaxCompleted others.
WindowIsSpent ==
  \A op \in Resumable :
    executed[op] > 0 /\ op \notin receipts => Cardinality(met[op]) >= MaxCompleted

\* Nothing is left of a lost connection.
LostIsEmpty ==
  \A c \in Client :
    ~connected[c] => /\ toServer[c] = <<>> /\ toClient[c] = <<>>
                     /\ \A r \in waiting : Owner[r.op] # c

\* Where the last request of an operation is on the way.
InFrame(op)    == Request(op) \in ToSet(toServer[Owner[op]])
IsAwaited(op)  == Request(op) \in waiting
IsAnswered(op) == Request(op) \in AskedBy(toClient[Owner[op]])

FramesAreOnce  == \A c \in Client : FramesOnce(toServer[c])
AnswersAreOnce == \A c \in Client : AnswersOnce(toClient[c])

\* The browser has an operation pending, or gave it up without an answer.
IsOpen(op) == op \in pending \/ told[op] = "timed out"

\* A resumable operation is in one place: a frame, an execution whose response is
\* awaited, or a response.  One that was answered is nowhere.
AskedOf(op) ==
  /\ InFrame(op) => IsOpen(op) /\ ~IsAwaited(op) /\ ~IsAnswered(op)
  /\ IsAnswered(op) => IsOpen(op) /\ starting[op] = 0
  /\ starting[op] > 0 => IsOpen(op)
  /\ IsAwaited(op) => starting[op] > 0
  /\ op \in pending => told[op] = "nothing"

AskedOnce == FramesAreOnce /\ AnswersAreOnce /\ \A op \in Resumable : AskedOf(op)

\* AnswerIsDue.
DueOf(op) ==
  op \in pending /\ connected[Owner[op]] => InFrame(op) \/ Executing(op) \/ IsAnswered(op)
AnswerIsOnTheWay == \A op \in Op : DueOf(op)

\* What a receipt, a response or the browser calls accepted was executed.
WasExecuted(op) == executed[op] > 0 \/ op \in earlier
AcceptedIsTrue ==
  /\ \A op \in receipts : response[op] = "accepted" => WasExecuted(op)
  /\ \A c \in Client : \A i \in DOMAIN toClient[c] :
       toClient[c][i].answer = "accepted" => WasExecuted(toClient[c][i].request.op)
  /\ AcceptedWasExecuted

IInv ==
  /\ Types /\ RunsAreRecorded /\ ReceiptsInOrder /\ WindowIsSpent /\ LostIsEmpty
  /\ AskedOnce /\ AnswerIsOnTheWay /\ AcceptedIsTrue

-------------------------------------------------------------------------------
(* What the carriers and the receipts do *)

USE ConstantsAssumption

\* The last request of an operation, and the only one if it is resumable.
LEMMA RequestIs ==
  ASSUME Types, NEW op \in Op
  PROVE  /\ Request(op) \in Requests /\ Request(op).op = op
         /\ \A r \in Requests : r.op = op /\ op \in Resumable => r = Request(op)
<1>1. Request(op) \in Requests /\ Request(op).op = op
  BY DEF Types, Request, Requests
<1>2. ASSUME NEW r \in Requests, r.op = op, op \in Resumable PROVE r = Request(op)
  <2>1. r \in [op : Op, id : Nat] /\ r.id = 0 /\ flushes[op] = 0
    BY <1>2 DEF Requests, Types
  <2>2. r = [op |-> r.op, id |-> r.id]
    BY <2>1
  <2> QED BY <1>2, <2>1, <2>2 DEF Request
<1> QED BY <1>1, <1>2

\* Requests of different operations differ.
LEMMA RequestsDiffer ==
  ASSUME NEW o, NEW p, Request(o) = Request(p) PROVE o = p
BY DEF Request

\* Frames that are sent.
LEMMA SentFrames ==
  ASSUME Types, NEW c \in Client, NEW R, R \subseteq OfBrowser(c), IsFiniteSet(R),
         toServer' = Sent(c, R)
  PROVE  /\ toServer' \in [Client -> Seq(Requests)]
         /\ ToSet(toServer'[c]) = ToSet(toServer[c]) \cup R
         /\ \A d \in Client : d # c => toServer'[d] = toServer[d]
         /\ \A d \in Client : ToSet(toServer'[d]) \subseteq OfBrowser(d)
         /\ FramesOnce(toServer[c]) /\ Resumables(ToSet(toServer[c]) \cap R) = {}
              => FramesOnce(toServer'[c])
<1> DEFINE s == SetToSeq(R)
<1>1. R \subseteq Requests
  BY DEF OfBrowser
<1>2. s \in Seq(R) /\ ToSet(s) = R /\ FramesOnce(s)
  BY SetToSeqOnce
<1>3. s \in Seq(Requests) /\ toServer[c] \in Seq(Requests)
  BY <1>1, <1>2, SeqMonotonic DEF Types
<1> HIDE DEF s
<1>4. /\ toServer[c] \o s \in Seq(Requests)
      /\ ToSet(toServer[c] \o s) = ToSet(toServer[c]) \cup ToSet(s)
      /\ FramesOnce(toServer[c]) /\ FramesOnce(s) /\ Resumables(ToSet(toServer[c]) \cap ToSet(s)) = {}
           => FramesOnce(toServer[c] \o s)
  BY <1>3, ConcatOnce
<1>5. toServer' = [toServer EXCEPT ![c] = toServer[c] \o s]
  BY DEF Sent, s
<1>6. toServer'[c] = toServer[c] \o s /\ \A d \in Client : d # c => toServer'[d] = toServer[d]
  <2>1. toServer \in [Client -> Seq(Requests)]
    BY DEF Types
  <2> QED BY <1>5, <2>1
<1>7. toServer' \in [Client -> Seq(Requests)]
  BY <1>4, <1>5 DEF Types
<1>8. \A d \in Client : ToSet(toServer'[d]) \subseteq OfBrowser(d)
  BY <1>1, <1>2, <1>4, <1>6 DEF Types
<1> QED BY <1>2, <1>4, <1>6, <1>7, <1>8

\* The frame of a submission.
LEMMA SubmittedFrame ==
  ASSUME Types, NEW op \in Op, Submit(op)
  PROVE  /\ toServer' \in [Client -> Seq(Requests)]
         /\ ToSet(toServer'[Owner[op]]) = ToSet(toServer[Owner[op]]) \cup {Request(op)}
         /\ \A d \in Client : d # Owner[op] => toServer'[d] = toServer[d]
         /\ \A d \in Client : ToSet(toServer'[d]) \subseteq OfBrowser(d)
         /\ FramesOnce(toServer[Owner[op]]) /\ Request(op) \notin ToSet(toServer[Owner[op]])
              => FramesOnce(toServer'[Owner[op]])
<1> DEFINE c == Owner[op]
           R == {Request(op)}
<1>1. c \in Client /\ IsFiniteSet(R)
  BY FS_Singleton DEF ConstantsAssumption
<1>2. R \subseteq OfBrowser(c)
  BY RequestIs DEF OfBrowser
<1>3. toServer' = Sent(c, R)
  BY DEF Submit
<1> HIDE DEF R, c
<1>4. /\ toServer' \in [Client -> Seq(Requests)]
      /\ ToSet(toServer'[c]) = ToSet(toServer[c]) \cup R
      /\ \A d \in Client : d # c => toServer'[d] = toServer[d]
      /\ \A d \in Client : ToSet(toServer'[d]) \subseteq OfBrowser(d)
      /\ FramesOnce(toServer[c]) /\ Resumables(ToSet(toServer[c]) \cap R) = {}
           => FramesOnce(toServer'[c])
  BY <1>1, <1>2, <1>3, SentFrames
<1> QED BY <1>4 DEF c, R, Resumables

\* The frames of a flush, each of a request that is new.
LEMMA FlushedFrames ==
  ASSUME Types, NEW c \in Client, CompactionEnds(c)
  PROVE  /\ flushes' \in [Op -> Nat] /\ \A o \in Resumable : flushes'[o] = 0
         /\ toServer' \in [Client -> Seq(Requests)]
         /\ ToSet(toServer'[c]) = ToSet(toServer[c]) \cup {Request(o)' : o \in Flushed(c)}
         /\ \A d \in Client : d # c => toServer'[d] = toServer[d]
         /\ \A d \in Client : ToSet(toServer'[d]) \subseteq OfBrowser(d)
         /\ FramesOnce(toServer[c]) => FramesOnce(toServer'[c])
<1> DEFINE S == Flushed(c)
           f == [o \in S |-> Request(o)']
           R == {f[o] : o \in S}
<1>1. S \subseteq Op /\ S \subseteq Deferred /\ \A o \in S : Owner[o] = c
  BY DEF Flushed, OfClient, Types
<1>2. flushes' \in [Op -> Nat] /\ \A o \in Resumable : flushes'[o] = 0
  <2>1. flushes' = [o \in Op |-> IF o \in S THEN flushes[o] + 1 ELSE flushes[o]]
    BY DEF CompactionEnds
  <2>2. flushes \in [Op -> Nat] /\ \A o \in Resumable : o \in Op /\ o \notin S /\ flushes[o] = 0
    BY <1>1 DEF Types, Resumable
  <2> HIDE DEF S
  <2> QED BY <2>1, <2>2
<1>3. \A o \in S : Request(o)' \in OfBrowser(c) /\ (Request(o)').op \notin Resumable
  <2> TAKE o \in S
  <2>1. o \in Op /\ o \notin Resumable /\ Owner[o] = c /\ flushes'[o] \in Nat
    BY <1>1, <1>2 DEF Resumable
  <2> QED BY <2>1 DEF Request, Requests, OfBrowser
<1>4. f \in [S -> OfBrowser(c)]
  BY <1>3
<1>5. R = {Request(o)' : o \in Flushed(c)}
  OBVIOUS
<1>6. toServer' = Sent(c, R)
  BY <1>5 DEF CompactionEnds
<1>7. Resumables(ToSet(toServer[c]) \cap R) = {}
  BY <1>3, <1>5 DEF Resumables
<1>9. R \subseteq OfBrowser(c) /\ f \in Surjection(S, R)
  BY <1>4 DEF Surjection
<1> HIDE DEF f, R, S
<1>10. R \subseteq OfBrowser(c) /\ IsFiniteSet(R)
  BY <1>1, <1>9, FS_Subset, FS_Surjection DEF ConstantsAssumption
<1>8. /\ toServer' \in [Client -> Seq(Requests)]
      /\ ToSet(toServer'[c]) = ToSet(toServer[c]) \cup R
      /\ \A d \in Client : d # c => toServer'[d] = toServer[d]
      /\ \A d \in Client : ToSet(toServer'[d]) \subseteq OfBrowser(d)
      /\ FramesOnce(toServer[c]) /\ Resumables(ToSet(toServer[c]) \cap R) = {}
           => FramesOnce(toServer'[c])
  BY <1>6, <1>10, SentFrames
<1> QED BY <1>2, <1>5, <1>7, <1>8

\* The frames of a replay.
LEMMA ReplayedFrames ==
  ASSUME Types, NEW c \in Client, Reconnect(c)
  PROVE  /\ toServer' \in [Client -> Seq(Requests)]
         /\ ToSet(toServer'[c]) = ToSet(toServer[c]) \cup {Request(o) : o \in Replayed(c)}
         /\ \A d \in Client : d # c => toServer'[d] = toServer[d]
         /\ \A d \in Client : ToSet(toServer'[d]) \subseteq OfBrowser(d)
         /\ toServer[c] = <<>> => FramesOnce(toServer'[c])
<1> DEFINE S == Replayed(c)
           f == [o \in S |-> Request(o)]
           R == {f[o] : o \in S}
<1>1. S \subseteq Op /\ \A o \in S : Owner[o] = c
  BY DEF Replayed, OfClient, Types
<1>2. \A o \in S : Request(o) \in OfBrowser(c)
  BY <1>1, RequestIs DEF OfBrowser
<1>3. f \in [S -> OfBrowser(c)]
  BY <1>2
<1>4. R = {Request(o) : o \in Replayed(c)}
  OBVIOUS
<1>5. toServer' = Sent(c, R)
  BY <1>4 DEF Reconnect
<1>9. R \subseteq OfBrowser(c) /\ f \in Surjection(S, R)
  BY <1>3 DEF Surjection
<1> HIDE DEF f, R, S
<1>8. R \subseteq OfBrowser(c) /\ IsFiniteSet(R)
  BY <1>1, <1>9, FS_Subset, FS_Surjection DEF ConstantsAssumption
<1>6. /\ toServer' \in [Client -> Seq(Requests)]
      /\ ToSet(toServer'[c]) = ToSet(toServer[c]) \cup R
      /\ \A d \in Client : d # c => toServer'[d] = toServer[d]
      /\ \A d \in Client : ToSet(toServer'[d]) \subseteq OfBrowser(d)
      /\ FramesOnce(toServer[c]) /\ Resumables(ToSet(toServer[c]) \cap R) = {}
           => FramesOnce(toServer'[c])
  BY <1>5, <1>8, SentFrames
<1>7. ToSet(<<>>) = {} /\ FramesOnce(<<>>)
  BY DEF ToSet, FramesOnce
<1> QED BY <1>4, <1>6, <1>7 DEF Resumables

\* The first frame is taken.
LEMMA TakenFrame ==
  ASSUME Types, NEW c \in Client, toServer[c] # <<>>,
         toServer' = [toServer EXCEPT ![c] = Tail(@)]
  PROVE  /\ Head(toServer[c]) \in OfBrowser(c)
         /\ toServer' \in [Client -> Seq(Requests)]
         /\ ToSet(toServer[c]) = {Head(toServer[c])} \cup ToSet(toServer'[c])
         /\ \A d \in Client : d # c => toServer'[d] = toServer[d]
         /\ FramesOnce(toServer[c]) =>
              /\ FramesOnce(toServer'[c])
              /\ Head(toServer[c]).op \in Resumable => Head(toServer[c]) \notin ToSet(toServer'[c])
<1>1. toServer[c] \in Seq(Requests) /\ ToSet(toServer[c]) \subseteq OfBrowser(c)
  BY DEF Types
<1>2. toServer'[c] = Tail(toServer[c]) /\ \A d \in Client : d # c => toServer'[d] = toServer[d]
  BY DEF Types
<1>3. /\ Tail(toServer[c]) \in Seq(Requests)
      /\ ToSet(toServer[c]) = {Head(toServer[c])} \cup ToSet(Tail(toServer[c]))
      /\ FramesOnce(toServer[c]) =>
           /\ FramesOnce(Tail(toServer[c]))
           /\ Head(toServer[c]).op \in Resumable => Head(toServer[c]) \notin ToSet(Tail(toServer[c]))
  BY <1>1, TailOnce
<1>4. toServer' \in [Client -> Seq(Requests)]
  BY <1>3 DEF Types
<1> QED BY <1>1, <1>2, <1>3, <1>4

\* A response is sent to the browser of its request.
LEMMA SentResponse ==
  ASSUME Types, NEW r \in Requests, NEW answer \in Outcome, toClient' = Answered(r, answer)
  PROVE  /\ toClient' \in [Client -> Seq(Response)]
         /\ AskedBy(toClient'[Owner[r.op]]) = AskedBy(toClient[Owner[r.op]]) \cup {r}
         /\ \A d \in Client : d # Owner[r.op] => toClient'[d] = toClient[d]
         /\ \A d \in Client : AskedBy(toClient'[d]) \subseteq OfBrowser(d)
         /\ AnswersOnce(toClient[Owner[r.op]])
              /\ (r.op \in Resumable => r \notin AskedBy(toClient[Owner[r.op]]))
              => AnswersOnce(toClient'[Owner[r.op]])
<1> DEFINE c == Owner[r.op]
           m == [request |-> r, answer |-> answer]
<1>1. c \in Client /\ m \in Response /\ m.request = r
  BY DEF ConstantsAssumption, Response, Requests
<1>2. toClient[c] \in Seq(Response)
  BY <1>1 DEF Types
<1>3. toClient' = [toClient EXCEPT ![c] = Append(toClient[c], m)]
  BY DEF Answered
<1>0. r \in OfBrowser(c)
  BY DEF OfBrowser
<1> HIDE DEF c, m
<1>4. /\ Append(toClient[c], m) \in Seq(Response)
      /\ AskedBy(Append(toClient[c], m)) = AskedBy(toClient[c]) \cup {m.request}
      /\ AnswersOnce(toClient[c]) /\ (m.request.op \in Resumable => m.request \notin AskedBy(toClient[c]))
           => AnswersOnce(Append(toClient[c], m))
  BY <1>1, <1>2, AppendAnswersOnce
<1>5. toClient'[c] = Append(toClient[c], m) /\ \A d \in Client : d # c => toClient'[d] = toClient[d]
  <2>1. toClient \in [Client -> Seq(Response)] /\ c \in Client
    BY <1>1 DEF Types
  <2> QED BY <1>3, <2>1
<1>6. toClient' \in [Client -> Seq(Response)]
  BY <1>3, <1>4 DEF Types
<1>7. \A d \in Client : AskedBy(toClient'[d]) \subseteq OfBrowser(d)
  BY <1>0, <1>1, <1>4, <1>5 DEF Types
<1> QED BY <1>1, <1>4, <1>5, <1>6, <1>7 DEF c

\* The first response is taken.
LEMMA TakenResponse ==
  ASSUME Types, NEW c \in Client, toClient[c] # <<>>,
         toClient' = [toClient EXCEPT ![c] = Tail(@)]
  PROVE  /\ Head(toClient[c]).request \in OfBrowser(c) /\ Head(toClient[c]).answer \in Outcome
         /\ Head(toClient[c]) = toClient[c][1] /\ 1 \in DOMAIN toClient[c]
         /\ toClient' \in [Client -> Seq(Response)]
         /\ AskedBy(toClient[c]) = {Head(toClient[c]).request} \cup AskedBy(toClient'[c])
         /\ \A d \in Client : d # c => toClient'[d] = toClient[d]
         /\ \A i \in DOMAIN toClient'[c] :
              i + 1 \in DOMAIN toClient[c] /\ toClient'[c][i] = toClient[c][i + 1]
         /\ AnswersOnce(toClient[c]) =>
              /\ AnswersOnce(toClient'[c])
              /\ Head(toClient[c]).request.op \in Resumable =>
                   Head(toClient[c]).request \notin AskedBy(toClient'[c])
<1>1. toClient[c] \in Seq(Response) /\ AskedBy(toClient[c]) \subseteq OfBrowser(c)
  BY DEF Types
<1>2. toClient'[c] = Tail(toClient[c]) /\ \A d \in Client : d # c => toClient'[d] = toClient[d]
  BY DEF Types
<1>3. /\ AskedBy(toClient[c]) = {Head(toClient[c]).request} \cup AskedBy(Tail(toClient[c]))
      /\ AnswersOnce(toClient[c]) =>
           /\ AnswersOnce(Tail(toClient[c]))
           /\ Head(toClient[c]).request.op \in Resumable =>
                Head(toClient[c]).request \notin AskedBy(Tail(toClient[c]))
  BY <1>1, TailAnswersOnce
<1>4. /\ Head(toClient[c]) \in Response /\ Tail(toClient[c]) \in Seq(Response)
      /\ 1 \in DOMAIN toClient[c] /\ Head(toClient[c]) = toClient[c][1]
      /\ \A i \in DOMAIN Tail(toClient[c]) :
           i + 1 \in DOMAIN toClient[c] /\ Tail(toClient[c])[i] = toClient[c][i + 1]
  BY <1>1, TailShifts
<1>5. toClient' \in [Client -> Seq(Response)]
  BY <1>4 DEF Types
<1>6. Head(toClient[c]).request \in OfBrowser(c) /\ Head(toClient[c]).answer \in Outcome
  BY <1>1, <1>3, <1>4 DEF Response
<1> QED BY <1>1, <1>2, <1>3, <1>4, <1>5, <1>6

\* A response that is taken leaves nothing but responses.
LEMMA TakenLeavesResponses ==
  ASSUME Types, NEW c \in Client, toClient[c] # <<>>,
         toClient' = [toClient EXCEPT ![c] = Tail(@)]
  PROVE  /\ toClient' \in [Client -> Seq(Response)]
         /\ \A d \in Client : AskedBy(toClient'[d]) \subseteq OfBrowser(d)
<1>1. toClient' \in [Client -> Seq(Response)]
  BY TakenResponse
<1>2. AskedBy(toClient'[c]) \subseteq AskedBy(toClient[c])
  <2>1. AskedBy(toClient[c]) = {Head(toClient[c]).request} \cup AskedBy(toClient'[c])
    BY TakenResponse
  <2> QED BY <2>1
<1>3. \A d \in Client : d # c => toClient'[d] = toClient[d]
  BY DEF Types
<1>4. \A d \in Client : AskedBy(toClient[d]) \subseteq OfBrowser(d)
  BY DEF Types
<1> QED BY <1>1, <1>2, <1>3, <1>4

\* Only settled receipts are pruned, and what is left keeps its order.
LEMMA PruneKeepsTheOrder ==
  ASSUME Types, NEW op \in Op, Settled(op)
  PROVE  /\ receipts' \subseteq receipts
         /\ receipts \ receipts' \subseteq settled \cup {op}
         /\ settled' \subseteq settled \cup {op} /\ settled' \subseteq receipts'
         /\ settled \cap receipts' \subseteq settled'
         /\ older' \in [Op -> SUBSET receipts']
         /\ \A o \in receipts' : older'[o] = older[o] \cap receipts'
<1>1. /\ settled \subseteq receipts /\ receipts \subseteq Op /\ older \in [Op -> SUBSET receipts]
  BY DEF Types, Resumable
<1>2. CASE ~HasReceipt(op)
  BY <1>1, <1>2 DEF Settled
<1>3. CASE HasReceipt(op)
  <2> DEFINE done == settled \cup {op}
             kept == Pruned(done)
  <2>1. /\ receipts' = kept
        /\ older' = [o \in Op |-> IF o \in kept THEN older[o] \cap kept ELSE {}]
        /\ settled' = done \cap kept
    BY <1>3 DEF Settled
  <2>2. kept \subseteq receipts /\ receipts \ kept \subseteq done
    BY DEF Pruned
  <2> HIDE DEF kept
  <2> QED BY <1>1, <2>1, <2>2
<1> QED BY <1>2, <1>3

\* An operation whose receipt is pruned has met MaxCompleted others: those that
\* are neither older nor settled.
LEMMA PrunedHasMet ==
  ASSUME Types, ReceiptsInOrder, NEW op \in Op, Settled(op), NEW p \in receipts \ receipts'
  PROVE  Cardinality(met[p]) >= MaxCompleted
<1> DEFINE done  == settled \cup {op}
           first == (older[p] \cup {p}) \cap done
           rest  == receipts \ first
<1>1. p \in done /\ ~(Cardinality(first) > Cardinality(receipts) - MaxCompleted)
  <2>1. HasReceipt(op)
    BY DEF Settled
  <2>2. receipts' = Pruned(done)
    BY <2>1 DEF Settled
  <2> QED BY <2>2 DEF Pruned, Excess
<1>2. /\ p \in Op /\ older[p] \subseteq receipts /\ receipts \subseteq Op /\ met[p] \subseteq Op
  BY DEF Types, Resumable
<1>3. rest \subseteq met[p]
  BY <1>1 DEF ReceiptsInOrder
<1>4. first \subseteq receipts
  BY <1>2
<1> HIDE DEF first
<1>5. IsFiniteSet(receipts) /\ IsFiniteSet(met[p]) /\ IsFiniteSet(first)
  BY <1>2, <1>4, FS_Subset DEF ConstantsAssumption
<1>6. Cardinality(rest) = Cardinality(receipts) - Cardinality(receipts \cap first)
  BY <1>5, FS_Difference
<1>7. receipts \cap first = first
  BY <1>4
<1>8. Cardinality(rest) <= Cardinality(met[p])
  BY <1>3, <1>5, FS_Subset
<1>9. Cardinality(receipts) \in Nat /\ Cardinality(first) \in Nat /\ Cardinality(met[p]) \in Nat
  BY <1>5, FS_CardinalityType
<1>10. Cardinality(rest) = Cardinality(receipts) - Cardinality(first)
  BY <1>6, <1>7
<1> HIDE DEF rest
<1> QED BY <1>1, <1>8, <1>9, <1>10 DEF ConstantsAssumption

\* The response of an execution goes to who awaits it, and is awaited no more.
LEMMA ResponseGoes ==
  ASSUME Types, NEW r \in Requests, NEW answer \in Outcome, Responds(r, answer)
  PROVE  /\ waiting' = waiting \ {r}
         /\ \/ r \in waiting /\ toClient' = Answered(r, answer)
            \/ r \notin waiting /\ UNCHANGED toClient
         /\ toClient' \in [Client -> Seq(Response)]
         /\ \A d \in Client : AskedBy(toClient'[d]) \subseteq OfBrowser(d)
<1>1. CASE r \in waiting
  <2>1. toClient' = Answered(r, answer) /\ waiting' = waiting \ {r}
    BY <1>1 DEF Responds
  <2> QED BY <1>1, <2>1, SentResponse
<1>2. CASE r \notin waiting
  <2>1. UNCHANGED <<toClient, waiting>>
    BY <1>2 DEF Responds
  <2> QED BY <1>2, <2>1 DEF Types
<1> QED BY <1>1, <1>2

\* A request ends, and a deferred prompt that was not accepted is kept.
LEMMA RequestEnds ==
  ASSUME Types, NEW op \in Op, NEW answer \in Outcome \cup {"timed out"}, Ends(op, answer)
  PROVE  /\ pending' = pending \ {op} /\ queue' \subseteq Deferred /\ failed' \subseteq Deferred
         /\ told' \in [Op -> Outcome \cup {"timed out", "nothing"}]
         /\ \A o \in Op : o # op => told'[o] = told[o]
         /\ op \in Resumable \/ answer = "accepted" => told'[op] = answer
         /\ told'[op] \in {told[op], answer}
         /\ queue \cup failed \subseteq queue' \cup failed'
         /\ op \in Deferred /\ answer # "accepted" => op \in queue' \cup failed'
<1> DEFINE mine    == OfClient(Owner[op])
           refused == Refused(op, answer)
<1>1. /\ pending' = pending \ {op}
      /\ told' = IF op \in Resumable \/ answer = "accepted" THEN [told EXCEPT ![op] = answer] ELSE told
      /\ \/ queue' = queue \cup (refused \cap mine) /\ failed' = refused \ mine
         \/ failed' = refused /\ queue' = queue
  BY DEF Ends
<1>2. /\ refused \subseteq Deferred /\ failed \subseteq refused
      /\ op \in Deferred /\ answer # "accepted" => op \in refused
  BY DEF Refused, Types
<1> HIDE DEF refused, mine
<1>3. queue \subseteq Deferred /\ told \in [Op -> Outcome \cup {"timed out", "nothing"}]
  BY DEF Types
<1>4. told' \in [Op -> Outcome \cup {"timed out", "nothing"}]
  BY <1>1, <1>3
<1>5. /\ \A o \in Op : o # op => told'[o] = told[o]
      /\ op \in Resumable \/ answer = "accepted" => told'[op] = answer
      /\ told'[op] \in {told[op], answer}
  BY <1>1, <1>3
<1>6. /\ queue \cup failed \subseteq queue' \cup failed'
      /\ op \in Deferred /\ answer # "accepted" => op \in queue' \cup failed'
      /\ queue' \subseteq Deferred /\ failed' \subseteq Deferred
  BY <1>1, <1>2, <1>3
<1> QED BY <1>1, <1>4, <1>5, <1>6

\* What the browser does with a response.
LEMMA ResponseCases ==
  ASSUME Types, NEW c \in Client, ReceiveResponse(c)
  PROVE  \E r \in OfBrowser(c), answer \in Outcome :
           /\ r.op \in Op /\ Owner[r.op] = c
           /\ [request |-> r, answer |-> answer] = toClient[c][1] /\ 1 \in DOMAIN toClient[c]
           /\ r = Head(toClient[c]).request
           /\ toClient[c] # <<>> /\ toClient' = [toClient EXCEPT ![c] = Tail(@)]
           /\ \/ r.op \in pending /\ r = Request(r.op) /\ Ends(r.op, answer)
              \/ ~(r.op \in pending /\ r = Request(r.op)) /\ UNCHANGED <<pending, told, queue, failed>>
           /\ UNCHANGED <<connected, flushes, compacting, toServer, serverVars, historyVars>>
<1> DEFINE m == Head(toClient[c])
<1>1. toClient[c] # <<>> /\ toClient' = [toClient EXCEPT ![c] = Tail(@)]
  BY DEF ReceiveResponse
<1>2. /\ m.request \in OfBrowser(c) /\ m.answer \in Outcome
      /\ m = toClient[c][1] /\ 1 \in DOMAIN toClient[c]
  BY <1>1, TakenResponse
<1>3. m \in Response
  <2>1. toClient[c] \in Seq(Response)
    BY DEF Types
  <2> QED BY <1>1, <2>1, HeadTailProperties
<1>4. [request |-> m.request, answer |-> m.answer] = m
  BY <1>3 DEF Response
<1>5. m.request.op \in Op /\ Owner[m.request.op] = c
  BY <1>2 DEF OfBrowser, Requests
<1>6. /\ \/ m.request.op \in pending /\ m.request = Request(m.request.op) /\ Ends(m.request.op, m.answer)
         \/ /\ ~(m.request.op \in pending /\ m.request = Request(m.request.op))
            /\ UNCHANGED <<pending, told, queue, failed>>
      /\ UNCHANGED <<connected, flushes, compacting, toServer, serverVars, historyVars>>
  BY DEF ReceiveResponse
<1> HIDE DEF m
<1>7. m = Head(toClient[c])
  BY DEF m
<1> QED BY <1>1, <1>2, <1>4, <1>5, <1>6, <1>7

\* What the server does with a frame.
LEMMA ReceiveCases ==
  ASSUME Types, NEW c \in Client, Receive(c)
  PROVE  \E r \in OfBrowser(c) : \E op \in Op :
           /\ r = Head(toServer[c]) /\ r.op = op /\ Owner[op] = c
           /\ toServer[c] # <<>> /\ toServer' = [toServer EXCEPT ![c] = Tail(@)]
           /\ UNCHANGED <<browserVars, turns, executed, earlier>>
           /\ \/ /\ op \in Resumable /\ op \in receipts
                 /\ \/ response[op] = "open" /\ waiting' = waiting \cup {r} /\ UNCHANGED toClient
                    \/ /\ response[op] \in Outcome /\ toClient' = Answered(r, response[op])
                       /\ UNCHANGED waiting
                 /\ UNCHANGED <<receipts, older, response, settled, starting, unrecorded, met>>
              \/ /\ op \in Resumable /\ op \notin receipts
                 /\ toClient' = Answered(r, "failed")
                 /\ UNCHANGED <<receipts, older, response, settled, waiting, starting, unrecorded, met>>
              \/ /\ op \in Resumable /\ op \notin receipts
                 /\ receipts' = receipts \cup {op}
                 /\ older' = [older EXCEPT ![op] = receipts]
                 /\ response' = [response EXCEPT ![op] = "open"]
                 /\ settled' = settled \ {op}
                 /\ met' = [o \in Op |-> IF o = op THEN Active ELSE met[o] \cup {op}]
                 /\ waiting' = waiting \cup {r}
                 /\ starting' = [starting EXCEPT ![op] = @ + 1]
                 /\ UNCHANGED <<toClient, unrecorded>>
              \/ /\ op \in Deferred
                 /\ waiting' = waiting \cup {r}
                 /\ unrecorded' = unrecorded \cup {r}
                 /\ UNCHANGED <<toClient, receipts, older, response, settled, starting, met>>
<1>1. toServer[c] # <<>> /\ toServer' = [toServer EXCEPT ![c] = Tail(@)]
  BY DEF Receive
<1> DEFINE r == Head(toServer[c])
<1>2. r \in OfBrowser(c)
  BY <1>1, TakenFrame
<1>3. r.op \in Op /\ Owner[r.op] = c /\ response[r.op] \in Outcome \cup {"open"}
  BY <1>2 DEF OfBrowser, Requests, Types
<1>4. /\ UNCHANGED <<browserVars, turns, executed, earlier>>
      /\ \/ /\ r.op \in Resumable /\ r.op \in receipts
            /\ \/ response[r.op] = "open" /\ waiting' = waiting \cup {r} /\ UNCHANGED toClient
               \/ /\ response[r.op] # "open" /\ toClient' = Answered(r, response[r.op])
                  /\ UNCHANGED waiting
            /\ UNCHANGED <<receipts, older, response, settled, starting, unrecorded, met>>
         \/ /\ r.op \in Resumable /\ r.op \notin receipts
            /\ toClient' = Answered(r, "failed")
            /\ UNCHANGED <<receipts, older, response, settled, waiting, starting, unrecorded, met>>
         \/ /\ r.op \in Resumable /\ r.op \notin receipts
            /\ receipts' = receipts \cup {r.op}
            /\ older' = [older EXCEPT ![r.op] = receipts]
            /\ response' = [response EXCEPT ![r.op] = "open"]
            /\ settled' = settled \ {r.op}
            /\ met' = [o \in Op |-> IF o = r.op THEN Active ELSE met[o] \cup {r.op}]
            /\ waiting' = waiting \cup {r}
            /\ starting' = [starting EXCEPT ![r.op] = @ + 1]
            /\ UNCHANGED <<toClient, unrecorded>>
         \/ /\ r.op \in Deferred
            /\ waiting' = waiting \cup {r}
            /\ unrecorded' = unrecorded \cup {r}
            /\ UNCHANGED <<toClient, receipts, older, response, settled, starting, met>>
  BY DEF Receive, Known, HasReceipt
<1> HIDE DEF r
<1>5. r = Head(toServer[c])
  BY DEF r
<1> QED BY <1>1, <1>2, <1>3, <1>4, <1>5

-------------------------------------------------------------------------------
(* Types *)

\* What a lost connection leaves is well formed.
LEMMA DisconnectedTypes ==
  ASSUME Types, NEW lost \in SUBSET Client, Disconnected(lost)
  PROVE  /\ connected' \in [Client -> BOOLEAN] /\ compacting' \in [Client -> BOOLEAN]
         /\ pending' \subseteq Op /\ queue' \subseteq Deferred /\ failed' \subseteq Deferred
         /\ told' = told
         /\ toServer' \in [Client -> Seq(Requests)] /\ toClient' \in [Client -> Seq(Response)]
         /\ \A c \in Client : /\ ToSet(toServer'[c]) \subseteq OfBrowser(c)
                              /\ AskedBy(toClient'[c]) \subseteq OfBrowser(c)
<1>1. connected' \in [Client -> BOOLEAN] /\ compacting' \in [Client -> BOOLEAN]
  BY DEF Disconnected
<1>2. pending' \subseteq Op /\ queue' \subseteq Deferred /\ failed' \subseteq Deferred
  BY DEF Disconnected, Types
<1>3. told' = told
  <2> DEFINE gone     == UNION {OfClient(c) : c \in lost}
             rejected == (pending \cap gone) \ UNION {Kept(c) : c \in lost}
  <2>1. told' = [op \in Op |-> IF op \in rejected \ Deferred THEN "failed" ELSE told[op]]
    BY DEF Disconnected
  <2>2. rejected \subseteq Deferred
    BY DEF Kept, Resumable, OfClient
  <2> HIDE DEF rejected
  <2>3. told' = [op \in Op |-> told[op]]
    BY <2>1, <2>2
  <2> QED BY <2>3 DEF Types
<1>4. \A S : <<>> \in Seq(S)
  BY EmptySeq
<1>5. ToSet(<<>>) = {} /\ AskedBy(<<>>) = {}
  BY DEF ToSet, AskedBy
<1>6. toServer' \in [Client -> Seq(Requests)] /\ toClient' \in [Client -> Seq(Response)]
  BY <1>4 DEF Disconnected, Types
<1>7. \A c \in Client : /\ ToSet(toServer'[c]) \subseteq OfBrowser(c)
                        /\ AskedBy(toClient'[c]) \subseteq OfBrowser(c)
  BY <1>5 DEF Disconnected, Types
<1> QED BY <1>1, <1>2, <1>3, <1>6, <1>7

\* A step keeps the types.
LEMMA TypeStep == ASSUME Types, [Next]_vars PROVE Types'
<1>0. "accepted" \in Outcome /\ "failed" \in Outcome
  BY DEF Outcome
<1>1. ASSUME NEW op \in Op, Submit(op) PROVE Types'
  <2>1. /\ toServer' \in [Client -> Seq(Requests)]
        /\ \A d \in Client : ToSet(toServer'[d]) \subseteq OfBrowser(d)
    BY <1>1, SubmittedFrame
  <2> QED BY <1>1, <2>1 DEF Submit, Types, serverVars, historyVars
<1>2. ASSUME NEW op \in Op, QueuePrompt(op) PROVE Types'
  BY <1>2 DEF QueuePrompt, Types, carrierVars, serverVars, historyVars
<1>3. ASSUME NEW op \in Op, TimeOut(op) PROVE Types'
  <2>1. /\ pending' \subseteq Op /\ queue' \subseteq Deferred /\ failed' \subseteq Deferred
        /\ told' \in [Op -> Outcome \cup {"timed out", "nothing"}]
    <3>1. Ends(op, "timed out") /\ "timed out" \in Outcome \cup {"timed out"}
      BY <1>3 DEF TimeOut
    <3>2. /\ pending' = pending \ {op} /\ queue' \subseteq Deferred /\ failed' \subseteq Deferred
          /\ told' \in [Op -> Outcome \cup {"timed out", "nothing"}]
      BY <3>1, RequestEnds
    <3> QED BY <3>2 DEF Types
  <2> QED BY <1>3, <2>1 DEF TimeOut, Types, carrierVars, serverVars, historyVars
<1>4. ASSUME NEW op \in Op, Accept(op) PROVE Types'
  <2>1. /\ waiting' \subseteq Requests /\ toClient' \in [Client -> Seq(Response)]
        /\ \A d \in Client : AskedBy(toClient'[d]) \subseteq OfBrowser(d)
    <3>1. Responds(Request(op), "accepted") /\ Request(op) \in Requests
      BY <1>4, RequestIs DEF Accept
    <3>2. /\ waiting' = waiting \ {Request(op)} /\ toClient' \in [Client -> Seq(Response)]
          /\ \A d \in Client : AskedBy(toClient'[d]) \subseteq OfBrowser(d)
      BY <1>0, <3>1, ResponseGoes
    <3> QED BY <3>2 DEF Types
  <2>2. starting' \in [Op -> Nat] /\ turns' \in [Op -> Nat] /\ executed' \in [Op -> Nat]
    <3>0. starting[op] > 0 /\ starting[op] \in Nat /\ turns[op] \in Nat /\ executed[op] \in Nat
      BY <1>4 DEF Accept, Types
    <3>1. starting[op] - 1 \in Nat /\ turns[op] + 1 \in Nat /\ executed[op] + 1 \in Nat
      BY <3>0
    <3> QED BY <1>4, <3>1 DEF Accept, Types
  <2>3. response' \in [Op -> Outcome \cup {"open"}]
    BY <1>0, <1>4 DEF Accept, Types
  <2> QED BY <1>4, <2>1, <2>2, <2>3 DEF Accept, Types, browserVars
<1>5. ASSUME NEW op \in Op, Fail(op) PROVE Types'
  <2>1. /\ waiting' \subseteq Requests /\ toClient' \in [Client -> Seq(Response)]
        /\ \A d \in Client : AskedBy(toClient'[d]) \subseteq OfBrowser(d)
    <3>1. Responds(Request(op), "failed") /\ Request(op) \in Requests
      BY <1>5, RequestIs DEF Fail
    <3>2. /\ waiting' = waiting \ {Request(op)} /\ toClient' \in [Client -> Seq(Response)]
          /\ \A d \in Client : AskedBy(toClient'[d]) \subseteq OfBrowser(d)
      BY <1>0, <3>1, ResponseGoes
    <3> QED BY <3>2 DEF Types
  <2>2. starting' \in [Op -> Nat]
    <3>0. starting[op] > 0 /\ starting[op] \in Nat
      BY <1>5 DEF Fail, Types
    <3>1. starting[op] - 1 \in Nat
      BY <3>0
    <3> QED BY <1>5, <3>1 DEF Fail, Types
  <2>3. response' \in [Op -> Outcome \cup {"open"}]
    BY <1>0, <1>5 DEF Fail, Types
  <2>4. /\ receipts' \subseteq Resumable /\ settled' \subseteq receipts'
        /\ older' \in [Op -> SUBSET receipts']
    BY <1>5, PruneKeepsTheOrder DEF Fail, Types
  <2> QED BY <1>5, <2>1, <2>2, <2>3, <2>4 DEF Fail, Types, browserVars, historyVars
<1>6. ASSUME NEW r \in unrecorded, NEW answer \in Outcome, Answer(r, answer) PROVE Types'
  <2>0. r \in Requests /\ r.op \in Op
    BY DEF Types, Requests
  <2>1. /\ waiting' \subseteq Requests /\ toClient' \in [Client -> Seq(Response)]
        /\ \A d \in Client : AskedBy(toClient'[d]) \subseteq OfBrowser(d)
    <3>1. /\ waiting' = waiting \ {r} /\ toClient' \in [Client -> Seq(Response)]
          /\ \A d \in Client : AskedBy(toClient'[d]) \subseteq OfBrowser(d)
      BY <1>6, <2>0, ResponseGoes DEF Answer
    <3> QED BY <3>1 DEF Types
  <2>2. executed' \in [Op -> Nat]
    <3>0. executed[r.op] \in Nat /\ executed \in [Op -> Nat]
      BY <2>0 DEF Types
    <3>1. executed[r.op] + 1 \in Nat /\ executed \in [Op -> Nat]
      BY <3>0
    <3>2. executed' = [executed EXCEPT ![r.op] = executed[r.op] + 1] \/ executed' = executed
      BY <1>6 DEF Answer
    <3> QED BY <3>1, <3>2
  <2>3. unrecorded' = unrecorded \ {r}
    BY <1>6 DEF Answer
  <2> QED BY <1>6, <2>1, <2>2, <2>3 DEF Answer, Types, browserVars
<1>7. ASSUME NEW op \in Op, Settle(op) PROVE Types'
  <2>1. turns' \in [Op -> Nat]
    <3>0. turns[op] > 0 /\ turns[op] \in Nat
      BY <1>7 DEF Settle, Types
    <3>1. turns[op] - 1 \in Nat
      BY <3>0
    <3> QED BY <1>7, <3>1 DEF Settle, Types
  <2>2. /\ receipts' \subseteq Resumable /\ settled' \subseteq receipts'
        /\ older' \in [Op -> SUBSET receipts']
    BY <1>7, PruneKeepsTheOrder DEF Settle, Types
  <2> QED BY <1>7, <2>1, <2>2 DEF Settle, Types, browserVars, carrierVars, historyVars
<1>8. ASSUME NEW c \in Client, StartCompaction(c) PROVE Types'
  BY <1>8 DEF StartCompaction, Types, carrierVars, serverVars, historyVars
<1>9. ASSUME NEW c \in Client, CompactionEnds(c) PROVE Types'
  <2>1. /\ flushes' \in [Op -> Nat] /\ \A o \in Resumable : flushes'[o] = 0
        /\ toServer' \in [Client -> Seq(Requests)]
        /\ \A d \in Client : ToSet(toServer'[d]) \subseteq OfBrowser(d)
    BY <1>9, FlushedFrames
  <2>2. Flushed(c) \subseteq Op
    BY DEF Flushed, OfClient
  <2> QED BY <1>9, <2>1, <2>2 DEF CompactionEnds, Types, serverVars, historyVars
<1>10. ASSUME NEW c \in Client, ReceiveResponse(c) PROVE Types'
  <2>1. PICK r \in OfBrowser(c), answer \in Outcome :
          /\ r.op \in Op
          /\ toClient[c] # <<>> /\ toClient' = [toClient EXCEPT ![c] = Tail(@)]
          /\ Ends(r.op, answer) \/ UNCHANGED <<pending, told, queue, failed>>
          /\ UNCHANGED <<connected, flushes, compacting, toServer, serverVars, historyVars>>
    BY <1>10, ResponseCases
  <2>2. /\ toClient' \in [Client -> Seq(Response)]
        /\ \A d \in Client : AskedBy(toClient'[d]) \subseteq OfBrowser(d)
    BY <2>1, TakenLeavesResponses
  <2>3. /\ pending' \subseteq Op /\ queue' \subseteq Deferred /\ failed' \subseteq Deferred
        /\ told' \in [Op -> Outcome \cup {"timed out", "nothing"}]
    <3>1. CASE Ends(r.op, answer)
      <4>1. /\ pending' = pending \ {r.op} /\ queue' \subseteq Deferred /\ failed' \subseteq Deferred
            /\ told' \in [Op -> Outcome \cup {"timed out", "nothing"}]
        BY <2>1, <3>1, RequestEnds
      <4> QED BY <4>1 DEF Types
    <3>2. CASE UNCHANGED <<pending, told, queue, failed>>
      BY <3>2 DEF Types
    <3> QED BY <2>1, <3>1, <3>2
  <2> QED BY <2>1, <2>2, <2>3 DEF Types, serverVars, historyVars
<1>11. ASSUME NEW c \in Client, Disconnect(c) PROVE Types'
  <2>1. {c} \in SUBSET Client /\ Disconnected({c})
    BY <1>11 DEF Disconnect
  <2>2. waiting' \subseteq waiting
    BY <1>11 DEF Disconnect
  <2>3. UNCHANGED <<flushes, receipts, older, response, settled, starting, turns, unrecorded, historyVars>>
    BY <1>11 DEF Disconnect
  <2> QED BY <2>1, <2>2, <2>3, DisconnectedTypes DEF Types, historyVars
<1>12. ASSUME NEW c \in Client, Reconnect(c) PROVE Types'
  <2>1. /\ toServer' \in [Client -> Seq(Requests)]
        /\ \A d \in Client : ToSet(toServer'[d]) \subseteq OfBrowser(d)
    BY <1>12, ReplayedFrames
  <2> QED BY <1>12, <2>1 DEF Reconnect, Types, serverVars, historyVars
<1>13. ASSUME NEW c \in Client, Receive(c) PROVE Types'
  <2>1. PICK r \in OfBrowser(c) : \E op \in Op :
          /\ r = Head(toServer[c]) /\ r.op = op
          /\ toServer[c] # <<>> /\ toServer' = [toServer EXCEPT ![c] = Tail(@)]
          /\ UNCHANGED <<browserVars, turns, executed, earlier>>
          /\ \/ /\ waiting' = waiting \cup {r}
                /\ UNCHANGED <<toClient, receipts, older, response, settled, starting, unrecorded, met>>
             \/ /\ \E answer \in Outcome : toClient' = Answered(r, answer)
                /\ UNCHANGED <<receipts, older, response, settled, waiting, starting, unrecorded, met>>
             \/ /\ op \in Resumable
                /\ receipts' = receipts \cup {op}
                /\ older' = [older EXCEPT ![op] = receipts]
                /\ response' = [response EXCEPT ![op] = "open"]
                /\ settled' = settled \ {op}
                /\ met' = [o \in Op |-> IF o = op THEN Active ELSE met[o] \cup {op}]
                /\ waiting' = waiting \cup {r}
                /\ starting' = [starting EXCEPT ![op] = @ + 1]
                /\ UNCHANGED <<toClient, unrecorded>>
             \/ /\ op \in Deferred
                /\ waiting' = waiting \cup {r}
                /\ unrecorded' = unrecorded \cup {r}
                /\ UNCHANGED <<toClient, receipts, older, response, settled, starting, met>>
    BY <1>0, <1>13, ReceiveCases
  <2>2. /\ toServer' \in [Client -> Seq(Requests)]
        /\ \A d \in Client : ToSet(toServer'[d]) \subseteq OfBrowser(d)
    <3>1. /\ toServer' \in [Client -> Seq(Requests)]
          /\ ToSet(toServer'[c]) \subseteq ToSet(toServer[c])
          /\ \A d \in Client : d # c => toServer'[d] = toServer[d]
      BY <2>1, TakenFrame
    <3> QED BY <3>1 DEF Types
  <2>3. r \in Requests
    BY DEF OfBrowser
  <2>4. CASE /\ waiting' = waiting \cup {r}
             /\ UNCHANGED <<toClient, receipts, older, response, settled, starting, unrecorded, met>>
    BY <2>1, <2>2, <2>3, <2>4 DEF Types, browserVars
  <2>5. CASE /\ \E answer \in Outcome : toClient' = Answered(r, answer)
             /\ UNCHANGED <<receipts, older, response, settled, waiting, starting, unrecorded, met>>
    <3>1. /\ toClient' \in [Client -> Seq(Response)]
          /\ \A d \in Client : AskedBy(toClient'[d]) \subseteq OfBrowser(d)
      BY <2>3, <2>5, SentResponse
    <3> QED BY <2>1, <2>2, <2>5, <3>1 DEF Types, browserVars
  <2>6. ASSUME NEW op \in Op, op \in Resumable,
               receipts' = receipts \cup {op},
               older' = [older EXCEPT ![op] = receipts],
               response' = [response EXCEPT ![op] = "open"],
               settled' = settled \ {op},
               met' = [o \in Op |-> IF o = op THEN Active ELSE met[o] \cup {op}],
               waiting' = waiting \cup {r},
               starting' = [starting EXCEPT ![op] = @ + 1],
               UNCHANGED <<toClient, unrecorded>>
        PROVE  Types'
    <3>1. older' \in [Op -> SUBSET receipts']
      BY <2>6 DEF Types
    <3>2. met' \in [Op -> SUBSET Op]
      BY <2>6 DEF Types, Active
    <3>3. starting' \in [Op -> Nat] /\ response' \in [Op -> Outcome \cup {"open"}]
      <4>0. starting[op] \in Nat
        BY DEF Types
      <4>1. starting[op] + 1 \in Nat
        BY <4>0
      <4> QED BY <2>6, <4>1 DEF Types
    <3>4. settled' \subseteq receipts' /\ receipts' \subseteq Resumable /\ waiting' \subseteq Requests
      BY <2>3, <2>6 DEF Types
    <3>5. UNCHANGED <<browserVars, turns, executed, toClient, unrecorded>>
      BY <2>1, <2>6
    <3>6. receipts' \subseteq receipts \cup {op} /\ op \in Resumable
      BY <2>6
    <3> QED BY <2>2, <3>1, <3>2, <3>3, <3>4, <3>5, <3>6 DEF Types, browserVars
  <2>7. CASE /\ r.op \in Deferred
             /\ waiting' = waiting \cup {r}
             /\ unrecorded' = unrecorded \cup {r}
             /\ UNCHANGED <<toClient, receipts, older, response, settled, starting, met>>
    BY <2>1, <2>2, <2>3, <2>7 DEF Types, browserVars
  <2> HIDE DEF Types
  <2> QED BY <2>1, <2>4, <2>5, <2>6, <2>7
<1>14. CASE Restart
  <2>1. Client \in SUBSET Client /\ Disconnected(Client) /\ UNCHANGED flushes
    BY <1>14 DEF Restart
  <2>2. /\ receipts' = {} /\ older' = [op \in Op |-> {}] /\ settled' = {} /\ waiting' = {}
        /\ response' = [op \in Op |-> "open"]
        /\ starting' = [op \in Op |-> 0] /\ turns' = [op \in Op |-> 0] /\ unrecorded' = {}
        /\ executed' = [op \in Op |-> 0] /\ met' = [op \in Op |-> {}]
    BY <1>14 DEF Restart
  <2>3. /\ older' \in [Op -> SUBSET receipts'] /\ response' \in [Op -> Outcome \cup {"open"}]
        /\ starting' \in [Op -> Nat] /\ turns' \in [Op -> Nat] /\ executed' \in [Op -> Nat]
        /\ met' \in [Op -> SUBSET Op]
    BY <2>2
  <2> QED BY <2>1, <2>2, <2>3, DisconnectedTypes DEF Types
<1>15. CASE UNCHANGED vars
  BY <1>15 DEF vars, browserVars, carrierVars, serverVars, historyVars, Types
<1> QED BY <1>1, <1>2, <1>3, <1>4, <1>5, <1>6, <1>7, <1>8, <1>9, <1>10, <1>11, <1>12, <1>13, <1>14, <1>15
     DEF Next

-------------------------------------------------------------------------------
(* Executions and their receipts *)

\* What the browsers and the carriers do leaves executions and receipts alone.
Recorded == <<receipts, older, settled, response, starting, turns, met>>
Beyond   == <<Recorded, executed, unrecorded, earlier>>

LEMMA BeyondTheServer ==
  /\ \A op \in Op : Submit(op) \/ QueuePrompt(op) \/ TimeOut(op) => UNCHANGED Beyond
  /\ \A c \in Client :
       \/ StartCompaction(c) \/ CompactionEnds(c) \/ ReceiveResponse(c)
       \/ Disconnect(c) \/ Reconnect(c)
       => UNCHANGED Beyond
BY DEF Beyond, Recorded, Submit, QueuePrompt, TimeOut, StartCompaction, CompactionEnds,
  ReceiveResponse, Disconnect, Reconnect, serverVars, historyVars

\* A deferred prompt has no receipt.
LEMMA AnswersBesides ==
  ASSUME Types, NEW r \in unrecorded, NEW answer \in Outcome, Answer(r, answer)
  PROVE  /\ UNCHANGED <<Recorded, earlier>> /\ r \in Requests /\ r.op \in Op /\ r.op \in Deferred
         /\ \A o \in Op : executed'[o] >= executed[o]
         /\ \A o \in Resumable : executed'[o] = executed[o]
         /\ answer = "accepted" => executed'[r.op] > 0
<1>1. r \in Requests /\ r.op \in Op /\ r.op \in Deferred
  BY DEF Types, Requests
<1>2. /\ UNCHANGED <<Recorded, earlier>>
      /\ executed' = IF answer = "accepted" THEN [executed EXCEPT ![r.op] = executed[r.op] + 1] ELSE executed
  BY DEF Answer, Recorded
<1>3. \A o \in Op : executed[o] \in Nat
  BY DEF Types
<1>4. \A o \in Op : executed'[o] = IF o = r.op /\ answer = "accepted" THEN executed[o] + 1 ELSE executed[o]
  BY <1>1, <1>2 DEF Types
<1>5. \A o \in Resumable : o \in Op /\ o # r.op
  BY <1>1 DEF Resumable
<1> QED BY <1>1, <1>2, <1>3, <1>4, <1>5

\* The numbers of an execution that is accepted, fails or settles.
LEMMA RunsOf ==
  ASSUME Types, NEW op \in Op
  PROVE  /\ Accept(op) => /\ starting[op] > 0 /\ UNCHANGED <<receipts, older, settled, met, earlier>>
                          /\ starting'[op] = starting[op] - 1 /\ turns'[op] = turns[op] + 1
                          /\ executed'[op] = executed[op] + 1
                          /\ response'[op] = "accepted"
         /\ Fail(op)   => /\ starting[op] > 0 /\ Settled(op) /\ UNCHANGED <<met, executed, earlier>>
                          /\ starting'[op] = starting[op] - 1 /\ turns'[op] = turns[op]
                          /\ response'[op] = "failed"
         /\ Settle(op) => /\ turns[op] > 0 /\ Settled(op) /\ UNCHANGED <<met, executed, earlier>>
                          /\ starting'[op] = starting[op] /\ turns'[op] = turns[op] - 1
                          /\ response'[op] = response[op]
         /\ Accept(op) \/ Fail(op) \/ Settle(op) =>
              \A o \in Op : o # op => /\ starting'[o] = starting[o] /\ turns'[o] = turns[o]
                                      /\ response'[o] = response[o] /\ executed'[o] = executed[o]
<1>1. /\ starting \in [Op -> Nat] /\ turns \in [Op -> Nat] /\ executed \in [Op -> Nat]
      /\ response \in [Op -> Outcome \cup {"open"}]
  BY DEF Types
<1>2. ASSUME Accept(op)
      PROVE  /\ starting[op] > 0 /\ UNCHANGED <<receipts, older, settled, met, earlier>>
             /\ starting' = [starting EXCEPT ![op] = @ - 1] /\ turns' = [turns EXCEPT ![op] = @ + 1]
             /\ executed' = [executed EXCEPT ![op] = @ + 1]
             /\ response' = [response EXCEPT ![op] = "accepted"]
  BY <1>2 DEF Accept
<1>3. ASSUME Fail(op)
      PROVE  /\ starting[op] > 0 /\ Settled(op) /\ UNCHANGED <<met, executed, earlier, turns>>
             /\ starting' = [starting EXCEPT ![op] = @ - 1]
             /\ response' = [response EXCEPT ![op] = "failed"]
  BY <1>3 DEF Fail, historyVars
<1>4. ASSUME Settle(op)
      PROVE  /\ turns[op] > 0 /\ Settled(op) /\ UNCHANGED <<met, executed, earlier, starting, response>>
             /\ turns' = [turns EXCEPT ![op] = @ - 1]
  BY <1>4 DEF Settle, historyVars
<1> QED BY <1>1, <1>2, <1>3, <1>4

\* Every execution of a resumable operation is on record, and the only one.
LEMMA RunsStep == ASSUME Types, RunsAreRecorded, [Next]_vars PROVE RunsAreRecorded'
<1>0. \A o \in Resumable : o \in Op /\ o \notin Deferred /\ starting[o] \in Nat /\ turns[o] \in Nat
  BY DEF Types, Resumable
<1>1. ASSUME UNCHANGED Recorded PROVE RunsAreRecorded'
  BY <1>1 DEF Recorded, RunsAreRecorded
<1>2. ASSUME NEW c \in Client, Receive(c) PROVE RunsAreRecorded'
  <2>1. PICK op \in Op :
          /\ UNCHANGED turns
          /\ \/ UNCHANGED <<receipts, response, settled, starting>>
             \/ /\ op \in Resumable /\ op \notin receipts
                /\ receipts' = receipts \cup {op}
                /\ response' = [response EXCEPT ![op] = "open"]
                /\ settled' = settled \ {op}
                /\ starting' = [starting EXCEPT ![op] = @ + 1]
    BY <1>2, ReceiveCases
  <2>2. CASE UNCHANGED <<receipts, response, settled, starting>>
    BY <2>1, <2>2 DEF RunsAreRecorded
  <2>3. CASE /\ op \in Resumable /\ op \notin receipts
             /\ receipts' = receipts \cup {op}
             /\ response' = [response EXCEPT ![op] = "open"]
             /\ settled' = settled \ {op}
             /\ starting' = [starting EXCEPT ![op] = @ + 1]
    <3>1. starting[op] = 0 /\ turns[op] = 0
      BY <1>0, <2>3 DEF RunsAreRecorded
    <3>2. starting'[op] = 1 /\ turns'[op] = 0 /\ response'[op] = "open"
      <4>1. starting \in [Op -> Nat] /\ response \in [Op -> Outcome \cup {"open"}]
        BY DEF Types
      <4> QED BY <2>1, <2>3, <3>1, <4>1
    <3>3. ASSUME NEW o \in Resumable, o # op
          PROVE  starting'[o] = starting[o] /\ turns'[o] = turns[o] /\ response'[o] = response[o]
      BY <1>0, <2>1, <2>3, <3>3 DEF Types
    <3> QED BY <2>3, <3>2, <3>3 DEF RunsAreRecorded
  <2> QED BY <2>1, <2>2, <2>3
<1>3. ASSUME NEW op \in Op, Accept(op) \/ Fail(op) \/ Settle(op) PROVE RunsAreRecorded'
  <2>1. /\ receipts' \subseteq receipts /\ receipts \ receipts' \subseteq settled \cup {op}
        /\ settled' \subseteq settled \cup {op}
        /\ Accept(op) => UNCHANGED <<receipts, settled>>
    BY <1>3, RunsOf, PruneKeepsTheOrder
  <2>2. ASSUME NEW o \in Resumable, o # op
        PROVE  starting'[o] = starting[o] /\ turns'[o] = turns[o] /\ response'[o] = response[o]
    BY <1>0, <1>3, <2>2, RunsOf
  <2>3. ASSUME op \in Resumable
        PROVE  /\ starting'[op] + turns'[op] <= 1
               /\ starting'[op] + turns'[op] > 0 => op \in receipts' \ settled'
               /\ op \in receipts' => (response'[op] = "open" <=> starting'[op] > 0)
    <3>1. /\ starting[op] \in Nat /\ turns[op] \in Nat /\ starting[op] + turns[op] <= 1
          /\ starting[op] + turns[op] > 0 => op \in receipts \ settled
          /\ op \in receipts => (response[op] = "open" <=> starting[op] > 0)
      BY <1>0, <2>3 DEF RunsAreRecorded
    <3>2. CASE Accept(op)
      <4>1. /\ starting[op] > 0 /\ starting'[op] = starting[op] - 1 /\ turns'[op] = turns[op] + 1
            /\ response'[op] = "accepted"
        BY <3>2, RunsOf
      <4>2. starting'[op] = 0 /\ turns'[op] = 1 /\ op \in receipts \ settled
        BY <3>1, <4>1
      <4> QED BY <2>1, <3>2, <4>1, <4>2
    <3>3. CASE Fail(op)
      <4>1. /\ starting[op] > 0 /\ starting'[op] = starting[op] - 1 /\ turns'[op] = turns[op]
            /\ response'[op] = "failed"
        BY <3>3, RunsOf
      <4>2. starting'[op] = 0 /\ turns'[op] = 0
        BY <3>1, <4>1
      <4> QED BY <4>1, <4>2
    <3>4. CASE Settle(op)
      <4>1. /\ turns[op] > 0 /\ starting'[op] = starting[op] /\ turns'[op] = turns[op] - 1
            /\ response'[op] = response[op]
        BY <3>4, RunsOf
      <4>2. starting'[op] = 0 /\ turns'[op] = 0 /\ starting[op] = 0 /\ op \in receipts
        BY <3>1, <4>1
      <4> QED BY <3>1, <4>1, <4>2
    <3> QED BY <1>3, <3>2, <3>3, <3>4
  <2> QED BY <2>1, <2>2, <2>3 DEF RunsAreRecorded
<1>4. CASE Restart
  <2>1. receipts' = {} /\ \A o \in Op : starting'[o] = 0 /\ turns'[o] = 0
    BY <1>4 DEF Restart
  <2> QED BY <1>0, <2>1 DEF RunsAreRecorded
<1>5. UNCHANGED vars \/ UNCHANGED Beyond => UNCHANGED Recorded
  BY DEF vars, serverVars, historyVars, Beyond, Recorded
<1> QED BY <1>1, <1>2, <1>3, <1>4, <1>5, BeyondTheServer, AnswersBesides DEF Next

\* Receipts are met in the order in which they were inserted.
LEMMA OrderStep ==
  ASSUME Types, ReceiptsInOrder, [Next]_vars PROVE ReceiptsInOrder'
<1>1. ASSUME UNCHANGED Recorded PROVE ReceiptsInOrder'
  BY <1>1 DEF Recorded, ReceiptsInOrder
<1>2. ASSUME NEW c \in Client, Receive(c) PROVE ReceiptsInOrder'
  <2>1. PICK op \in Op :
          \/ UNCHANGED <<receipts, older, settled, met>>
          \/ /\ op \notin receipts
             /\ receipts' = receipts \cup {op}
             /\ older' = [older EXCEPT ![op] = receipts]
             /\ settled' = settled \ {op}
             /\ met' = [o \in Op |-> IF o = op THEN Active ELSE met[o] \cup {op}]
    BY <1>2, ReceiveCases
  <2>2. CASE UNCHANGED <<receipts, older, settled, met>>
    BY <2>2 DEF ReceiptsInOrder
  <2>3. CASE /\ op \notin receipts
             /\ receipts' = receipts \cup {op}
             /\ older' = [older EXCEPT ![op] = receipts]
             /\ settled' = settled \ {op}
             /\ met' = [o \in Op |-> IF o = op THEN Active ELSE met[o] \cup {op}]
    <3>1. settled' = settled /\ settled \subseteq receipts /\ receipts \subseteq Op
      BY <2>3 DEF Types, Resumable
    <3>2. older'[op] = receipts /\ met'[op] = receipts \ settled
      BY <2>3, <3>1 DEF Types, Active, HasReceipt
    <3>3. ASSUME NEW o \in receipts PROVE older'[o] = older[o] /\ met'[o] = met[o] \cup {op}
      <4>1. o # op /\ o \in Op
        BY <2>3, <3>1
      <4> QED BY <2>3, <4>1 DEF Types
    <3> QED BY <2>3, <3>1, <3>2, <3>3 DEF ReceiptsInOrder
  <2> QED BY <2>1, <2>2, <2>3
<1>3. ASSUME NEW op \in Op, Accept(op) \/ Fail(op) \/ Settle(op) PROVE ReceiptsInOrder'
  <2>1. CASE Accept(op)
    <3>1. UNCHANGED <<receipts, older, settled, met>>
      BY <2>1, RunsOf
    <3> QED BY <3>1 DEF ReceiptsInOrder
  <2>2. CASE Fail(op) \/ Settle(op)
    <3>1. Settled(op) /\ UNCHANGED met
      BY <2>2, RunsOf
    <3>2. /\ receipts' \subseteq receipts /\ settled \cap receipts' \subseteq settled'
          /\ \A o \in receipts' : older'[o] = older[o] \cap receipts'
      BY <3>1, PruneKeepsTheOrder
    <3> QED BY <3>1, <3>2 DEF ReceiptsInOrder
  <2> QED BY <1>3, <2>1, <2>2
<1>4. CASE Restart
  BY <1>4 DEF Restart, ReceiptsInOrder
<1>5. UNCHANGED vars \/ UNCHANGED Beyond => UNCHANGED Recorded
  BY DEF vars, serverVars, historyVars, Beyond, Recorded
<1> QED BY <1>1, <1>2, <1>3, <1>4, <1>5, BeyondTheServer, AnswersBesides DEF Next

\* What was executed and has no receipt has met MaxCompleted others.
LEMMA WindowStep ==
  ASSUME Types, Types', RunsAreRecorded, ReceiptsInOrder, WindowIsSpent, [Next]_vars
  PROVE  WindowIsSpent'
<1>0. \A o \in Resumable : o \in Op
  BY DEF Resumable
<1>1. ASSUME UNCHANGED Recorded, \A o \in Resumable : executed'[o] = executed[o] PROVE WindowIsSpent'
  BY <1>1 DEF Recorded, WindowIsSpent
<1>2. ASSUME NEW c \in Client, Receive(c) PROVE WindowIsSpent'
  <2>1. PICK op \in Op :
          /\ UNCHANGED executed
          /\ \/ UNCHANGED <<receipts, met>>
             \/ /\ receipts' = receipts \cup {op}
                /\ met' = [o \in Op |-> IF o = op THEN Active ELSE met[o] \cup {op}]
    BY <1>2, ReceiveCases
  <2>2. ASSUME NEW o \in Resumable, executed'[o] > 0, o \notin receipts'
        PROVE  Cardinality(met'[o]) >= MaxCompleted
    <3>1. o \in Op /\ Cardinality(met[o]) >= MaxCompleted
      BY <1>0, <2>1, <2>2 DEF WindowIsSpent
    <3>2. met[o] \subseteq met'[o]
      BY <2>1, <2>2, <3>1
    <3>3. IsFiniteSet(met[o]) /\ IsFiniteSet(met'[o])
      BY <3>1, FS_Subset DEF ConstantsAssumption, Types
    <3>4. /\ Cardinality(met[o]) \in Nat /\ Cardinality(met'[o]) \in Nat
          /\ Cardinality(met[o]) <= Cardinality(met'[o])
      BY <3>2, <3>3, FS_Subset, FS_CardinalityType
    <3> QED BY <3>1, <3>4 DEF ConstantsAssumption
  <2> QED BY <2>2 DEF WindowIsSpent
<1>3. ASSUME NEW op \in Op, Accept(op) PROVE WindowIsSpent'
  <2>1. UNCHANGED <<receipts, met>> /\ \A o \in Op : o # op => executed'[o] = executed[o]
    BY <1>3, RunsOf
  <2>2. op \in Resumable => op \in receipts
    <3>1. starting[op] > 0 /\ starting[op] \in Nat /\ turns[op] \in Nat
      BY <1>3, RunsOf DEF Types
    <3> QED BY <3>1 DEF RunsAreRecorded
  <2> QED BY <1>0, <2>1, <2>2 DEF WindowIsSpent
<1>4. ASSUME NEW op \in Op, Fail(op) \/ Settle(op) PROVE WindowIsSpent'
  <2>1. Settled(op) /\ UNCHANGED <<met, executed>>
    BY <1>4, RunsOf
  <2>2. ASSUME NEW o \in receipts \ receipts' PROVE Cardinality(met[o]) >= MaxCompleted
    BY <2>1, <2>2, PrunedHasMet
  <2> QED BY <2>1, <2>2 DEF WindowIsSpent
<1>5. CASE Restart
  <2>1. \A o \in Op : executed'[o] = 0
    BY <1>5 DEF Restart
  <2> QED BY <1>0, <2>1 DEF WindowIsSpent
<1>6. UNCHANGED vars \/ UNCHANGED Beyond => UNCHANGED <<Recorded, executed>>
  BY DEF vars, serverVars, historyVars, Beyond, Recorded
<1> QED BY <1>1, <1>2, <1>3, <1>4, <1>5, <1>6, BeyondTheServer, AnswersBesides DEF Next

-------------------------------------------------------------------------------
(* Requests on the way *)

\* The carriers, operation by operation.
LEMMA SubmitSends ==
  ASSUME Types, NEW op \in Op, Submit(op)
  PROVE  /\ \A o \in Op : InFrame(o)' <=> InFrame(o) \/ o = op
         /\ FramesAreOnce /\ ~InFrame(op) => FramesAreOnce'
<1>1. /\ ToSet(toServer'[Owner[op]]) = ToSet(toServer[Owner[op]]) \cup {Request(op)}
      /\ \A d \in Client : d # Owner[op] => toServer'[d] = toServer[d]
      /\ FramesOnce(toServer[Owner[op]]) /\ Request(op) \notin ToSet(toServer[Owner[op]])
           => FramesOnce(toServer'[Owner[op]])
  BY SubmittedFrame
<1>2. \A o \in Op : Request(o)' = Request(o) /\ Owner[o] \in Client
  BY DEF Request, Submit, ConstantsAssumption
<1>3. ASSUME NEW o \in Op PROVE InFrame(o)' <=> InFrame(o) \/ o = op
  <2>1. CASE Owner[o] = Owner[op]
    BY <1>1, <1>2, <2>1, RequestsDiffer DEF InFrame
  <2>2. CASE Owner[o] # Owner[op]
    BY <1>1, <1>2, <2>2 DEF InFrame
  <2> QED BY <2>1, <2>2
<1>4. FramesAreOnce /\ ~InFrame(op) => FramesAreOnce'
  BY <1>1 DEF FramesAreOnce, InFrame
<1> QED BY <1>3, <1>4

LEMMA FlushSends ==
  ASSUME Types, NEW c \in Client, CompactionEnds(c)
  PROVE  /\ \A o \in Flushed(c) : InFrame(o)'
         /\ \A o \in Op \ Flushed(c) : Request(o)' = Request(o) /\ (InFrame(o)' <=> InFrame(o))
         /\ FramesAreOnce => FramesAreOnce'
<1>1. /\ ToSet(toServer'[c]) = ToSet(toServer[c]) \cup {Request(o)' : o \in Flushed(c)}
      /\ \A d \in Client : d # c => toServer'[d] = toServer[d]
      /\ FramesOnce(toServer[c]) => FramesOnce(toServer'[c])
  BY FlushedFrames
<1>2. Flushed(c) \subseteq Op /\ \A o \in Flushed(c) : Owner[o] = c
  BY DEF Flushed, OfClient
<1>3. \A o \in Flushed(c) : InFrame(o)'
  BY <1>1, <1>2 DEF InFrame
<1>4. \A o : (Request(o)').op = o
  BY DEF Request
<1>5. ASSUME NEW o \in Op \ Flushed(c)
      PROVE  Request(o)' = Request(o) /\ (InFrame(o)' <=> InFrame(o))
  <2>1. flushes'[o] = flushes[o]
    BY <1>5 DEF CompactionEnds
  <2>2. Request(o)' = Request(o)
    BY <2>1 DEF Request
  <2>3. \A p \in Flushed(c) : Request(p)' # Request(o)'
    BY <1>4, <1>5
  <2>4. CASE Owner[o] = c
    BY <1>1, <2>2, <2>3, <2>4 DEF InFrame
  <2>5. CASE Owner[o] # c
    <3>1. Owner[o] \in Client
      BY DEF ConstantsAssumption
    <3> QED BY <1>1, <2>2, <2>5, <3>1 DEF InFrame
  <2> QED BY <2>2, <2>4, <2>5
<1>6. FramesAreOnce => FramesAreOnce'
  BY <1>1 DEF FramesAreOnce
<1> QED BY <1>3, <1>5, <1>6

LEMMA ReplaySends ==
  ASSUME Types, NEW c \in Client, Reconnect(c), toServer[c] = <<>>
  PROVE  /\ \A o \in Op : InFrame(o)' <=> InFrame(o) \/ o \in Replayed(c)
         /\ FramesAreOnce => FramesAreOnce'
<1>1. /\ ToSet(toServer'[c]) = ToSet(toServer[c]) \cup {Request(o) : o \in Replayed(c)}
      /\ \A d \in Client : d # c => toServer'[d] = toServer[d]
      /\ FramesOnce(toServer'[c])
  BY ReplayedFrames
<1>2. \A o \in Op : Request(o)' = Request(o) /\ Owner[o] \in Client
  BY DEF Request, Reconnect, ConstantsAssumption
<1>3. Replayed(c) \subseteq Op /\ \A o \in Replayed(c) : Owner[o] = c
  BY DEF Replayed, OfClient
<1>4. ASSUME NEW o \in Op PROVE InFrame(o)' <=> InFrame(o) \/ o \in Replayed(c)
  <2>1. CASE Owner[o] = c
    <3>1. Request(o) \in {Request(p) : p \in Replayed(c)} <=> o \in Replayed(c)
      BY RequestsDiffer
    <3> QED BY <1>1, <1>2, <2>1, <3>1 DEF InFrame
  <2>2. CASE Owner[o] # c
    BY <1>1, <1>2, <1>3, <2>2 DEF InFrame
  <2> QED BY <2>1, <2>2
<1>5. FramesAreOnce => FramesAreOnce'
  BY <1>1 DEF FramesAreOnce
<1> QED BY <1>4, <1>5

LEMMA FrameTaken ==
  ASSUME Types, NEW c \in Client, toServer[c] # <<>>, UNCHANGED flushes,
         toServer' = [toServer EXCEPT ![c] = Tail(@)],
         NEW r, r = Head(toServer[c])
  PROVE  /\ \A o \in Op : InFrame(o) <=> InFrame(o)' \/ Request(o) = r
         /\ FramesAreOnce => FramesAreOnce' /\ \A o \in Resumable : Request(o) = r => ~InFrame(o)'
<1>1. /\ r \in OfBrowser(c)
      /\ ToSet(toServer[c]) = {r} \cup ToSet(toServer'[c])
      /\ \A d \in Client : d # c => toServer'[d] = toServer[d]
      /\ FramesOnce(toServer[c]) =>
           /\ FramesOnce(toServer'[c])
           /\ r.op \in Resumable => r \notin ToSet(toServer'[c])
  BY TakenFrame
<1>2. \A o \in Op : Request(o)' = Request(o) /\ Owner[o] \in Client /\ Request(o).op = o
  BY DEF Request, ConstantsAssumption
<1>3. Owner[r.op] = c
  BY <1>1 DEF OfBrowser
<1>4. ASSUME NEW o \in Op PROVE InFrame(o) <=> InFrame(o)' \/ Request(o) = r
  <2>1. CASE Owner[o] = c
    BY <1>1, <1>2, <2>1 DEF InFrame
  <2>2. CASE Owner[o] # c
    BY <1>1, <1>2, <1>3, <2>2 DEF InFrame
  <2> QED BY <2>1, <2>2
<1>5. ASSUME FramesAreOnce
      PROVE  FramesAreOnce' /\ \A o \in Resumable : Request(o) = r => ~InFrame(o)'
  <2>1. FramesAreOnce' /\ (r.op \in Resumable => r \notin ToSet(toServer'[c]))
    BY <1>1, <1>5 DEF FramesAreOnce
  <2>2. ASSUME NEW o \in Resumable, Request(o) = r PROVE ~InFrame(o)'
    <3>1. o \in Op /\ r.op = o /\ Owner[o] = c /\ Request(o)' = r
      BY <1>2, <1>3, <2>2 DEF Resumable
    <3> QED BY <2>1, <3>1 DEF InFrame
  <2> QED BY <2>1, <2>2
<1> QED BY <1>4, <1>5

LEMMA ResponseSent ==
  ASSUME Types, NEW r \in Requests, NEW answer \in Outcome, toClient' = Answered(r, answer),
         UNCHANGED flushes
  PROVE  /\ \A o \in Op : IsAnswered(o)' <=> IsAnswered(o) \/ Request(o) = r
         /\ AnswersAreOnce /\ (r.op \in Resumable => ~IsAnswered(r.op)) => AnswersAreOnce'
<1>1. /\ AskedBy(toClient'[Owner[r.op]]) = AskedBy(toClient[Owner[r.op]]) \cup {r}
      /\ \A d \in Client : d # Owner[r.op] => toClient'[d] = toClient[d]
      /\ AnswersOnce(toClient[Owner[r.op]])
           /\ (r.op \in Resumable => r \notin AskedBy(toClient[Owner[r.op]]))
           => AnswersOnce(toClient'[Owner[r.op]])
  BY SentResponse
<1>2. \A o \in Op : Request(o)' = Request(o) /\ Owner[o] \in Client /\ Request(o).op = o
  BY DEF Request, ConstantsAssumption
<1>3. r.op \in Op /\ (r.op \in Resumable => r = Request(r.op))
  <2>1. r.op \in Op
    BY DEF Requests
  <2> QED BY <2>1, RequestIs
<1>4. ASSUME NEW o \in Op PROVE IsAnswered(o)' <=> IsAnswered(o) \/ Request(o) = r
  <2>1. CASE Owner[o] = Owner[r.op]
    BY <1>1, <1>2, <2>1 DEF IsAnswered
  <2>2. CASE Owner[o] # Owner[r.op]
    BY <1>1, <1>2, <2>2 DEF IsAnswered
  <2> QED BY <2>1, <2>2
<1>5. AnswersAreOnce /\ (r.op \in Resumable => ~IsAnswered(r.op)) => AnswersAreOnce'
  BY <1>1, <1>2, <1>3 DEF AnswersAreOnce, IsAnswered
<1> QED BY <1>4, <1>5

LEMMA ResponseTaken ==
  ASSUME Types, NEW c \in Client, toClient[c] # <<>>, UNCHANGED flushes,
         toClient' = [toClient EXCEPT ![c] = Tail(@)],
         NEW r, r = Head(toClient[c]).request
  PROVE  /\ \A o \in Op : IsAnswered(o) <=> IsAnswered(o)' \/ Request(o) = r
         /\ AnswersAreOnce =>
              AnswersAreOnce' /\ \A o \in Resumable : Request(o) = r => ~IsAnswered(o)'
<1>1. /\ r \in OfBrowser(c)
      /\ AskedBy(toClient[c]) = {r} \cup AskedBy(toClient'[c])
      /\ \A d \in Client : d # c => toClient'[d] = toClient[d]
      /\ AnswersOnce(toClient[c]) =>
           /\ AnswersOnce(toClient'[c])
           /\ r.op \in Resumable => r \notin AskedBy(toClient'[c])
  BY TakenResponse
<1>2. \A o \in Op : Request(o)' = Request(o) /\ Owner[o] \in Client /\ Request(o).op = o
  BY DEF Request, ConstantsAssumption
<1>3. Owner[r.op] = c
  BY <1>1 DEF OfBrowser
<1>4. ASSUME NEW o \in Op PROVE IsAnswered(o) <=> IsAnswered(o)' \/ Request(o) = r
  <2>1. CASE Owner[o] = c
    BY <1>1, <1>2, <2>1 DEF IsAnswered
  <2>2. CASE Owner[o] # c
    BY <1>1, <1>2, <1>3, <2>2 DEF IsAnswered
  <2> QED BY <2>1, <2>2
<1>5. ASSUME AnswersAreOnce
      PROVE  AnswersAreOnce' /\ \A o \in Resumable : Request(o) = r => ~IsAnswered(o)'
  <2>1. AnswersAreOnce' /\ (r.op \in Resumable => r \notin AskedBy(toClient'[c]))
    BY <1>1, <1>5 DEF AnswersAreOnce
  <2>2. ASSUME NEW o \in Resumable, Request(o) = r PROVE ~IsAnswered(o)'
    <3>1. o \in Op /\ r.op = o /\ Owner[o] = c /\ Request(o)' = r
      BY <1>2, <1>3, <2>2 DEF Resumable
    <3> QED BY <2>1, <3>1 DEF IsAnswered
  <2> QED BY <2>1, <2>2
<1> QED BY <1>4, <1>5

LEMMA CarrierLost ==
  ASSUME Types, NEW lost \in SUBSET Client, Disconnected(lost), UNCHANGED flushes
  PROVE  /\ \A o \in Op : /\ InFrame(o)' <=> InFrame(o) /\ Owner[o] \notin lost
                          /\ IsAnswered(o)' <=> IsAnswered(o) /\ Owner[o] \notin lost
         /\ FramesAreOnce => FramesAreOnce'
         /\ AnswersAreOnce => AnswersAreOnce'
         /\ pending' \subseteq pending /\ pending \cap Resumable \subseteq pending'
         /\ \A c \in Client : connected'[c] <=> connected[c] /\ c \notin lost
         /\ \A c \in Client : c \in lost => toServer'[c] = <<>> /\ toClient'[c] = <<>>
         /\ \A c \in Client : c \notin lost => toServer'[c] = toServer[c] /\ toClient'[c] = toClient[c]
<1>1. \A c \in Client : /\ c \in lost => toServer'[c] = <<>> /\ toClient'[c] = <<>>
                        /\ c \notin lost => toServer'[c] = toServer[c] /\ toClient'[c] = toClient[c]
  BY DEF Disconnected
<1>2. ToSet(<<>>) = {} /\ AskedBy(<<>>) = {} /\ FramesOnce(<<>>) /\ AnswersOnce(<<>>)
  BY DEF ToSet, AskedBy, FramesOnce, AnswersOnce
<1>3. \A o \in Op : Owner[o] \in Client /\ Request(o)' = Request(o)
  BY DEF ConstantsAssumption, Request
<1>4. \A o \in Op : /\ InFrame(o)' <=> InFrame(o) /\ Owner[o] \notin lost
                    /\ IsAnswered(o)' <=> IsAnswered(o) /\ Owner[o] \notin lost
  BY <1>1, <1>2, <1>3 DEF InFrame, IsAnswered
<1>5. (FramesAreOnce => FramesAreOnce') /\ (AnswersAreOnce => AnswersAreOnce')
  BY <1>1, <1>2 DEF FramesAreOnce, AnswersAreOnce
<1>6. pending' \subseteq pending /\ pending \cap Resumable \subseteq pending'
  <2> DEFINE gone     == UNION {OfClient(c) : c \in lost}
             rejected == (pending \cap gone) \ UNION {Kept(c) : c \in lost}
  <2>1. pending' = pending \ rejected
    BY DEF Disconnected
  <2>2. rejected \subseteq Deferred
    BY DEF Kept, Resumable, OfClient
  <2> HIDE DEF rejected
  <2> QED BY <2>1, <2>2 DEF Resumable
<1>7. \A c \in Client : connected'[c] <=> connected[c] /\ c \notin lost
  BY DEF Disconnected, Types
<1> QED BY <1>1, <1>4, <1>5, <1>6, <1>7

\* Nothing is on the way to or from a browser that is not connected.
LEMMA LostStep == ASSUME Types, LostIsEmpty, [Next]_vars PROVE LostIsEmpty'
<1>0. "accepted" \in Outcome /\ "failed" \in Outcome /\ \A o \in Op : Owner[o] \in Client
  BY DEF Outcome, ConstantsAssumption
<1>1. ASSUME NEW op \in Op, Submit(op) PROVE LostIsEmpty'
  <2>1. connected[Owner[op]] /\ \A d \in Client : d # Owner[op] => toServer'[d] = toServer[d]
    BY <1>1, SubmittedFrame DEF Submit
  <2> QED BY <1>1, <2>1 DEF Submit, LostIsEmpty, serverVars
<1>2. ASSUME UNCHANGED <<connected, toServer, toClient, waiting>> PROVE LostIsEmpty'
  BY <1>2 DEF LostIsEmpty
<1>3. ASSUME NEW r \in Requests, NEW answer \in Outcome, Responds(r, answer),
             UNCHANGED <<connected, toServer>>
      PROVE  LostIsEmpty'
  <2>1. /\ waiting' = waiting \ {r}
        /\ (r \in waiting /\ toClient' = Answered(r, answer)) \/ UNCHANGED toClient
    BY <1>3, ResponseGoes
  <2>2. CASE UNCHANGED toClient
    BY <1>3, <2>1, <2>2 DEF LostIsEmpty
  <2>3. CASE r \in waiting /\ toClient' = Answered(r, answer)
    <3>1. Owner[r.op] \in Client
      BY <1>0 DEF Requests
    <3>2. connected[Owner[r.op]]
      BY <2>3, <3>1 DEF LostIsEmpty
    <3>3. \A d \in Client : d # Owner[r.op] => toClient'[d] = toClient[d]
      BY <2>3, SentResponse
    <3> QED BY <1>3, <2>1, <3>2, <3>3 DEF LostIsEmpty
  <2> QED BY <2>1, <2>2, <2>3
<1>4. ASSUME NEW op \in Op, Accept(op) \/ Fail(op) PROVE LostIsEmpty'
  <2>1. /\ Responds(Request(op), "accepted") \/ Responds(Request(op), "failed")
        /\ UNCHANGED <<connected, toServer>>
    BY <1>4 DEF Accept, Fail, browserVars
  <2> QED BY <1>0, <1>3, <2>1, RequestIs
<1>5. ASSUME NEW r \in unrecorded, NEW answer \in Outcome, Answer(r, answer) PROVE LostIsEmpty'
  <2>1. Responds(r, answer) /\ UNCHANGED <<connected, toServer>> /\ r \in Requests
    BY <1>5 DEF Answer, browserVars, Types
  <2> QED BY <1>3, <2>1
<1>6. ASSUME NEW c \in Client, CompactionEnds(c) PROVE LostIsEmpty'
  <2>1. \A d \in Client : d # c => toServer'[d] = toServer[d]
    BY <1>6, FlushedFrames
  <2> QED BY <1>6, <2>1 DEF CompactionEnds, LostIsEmpty, serverVars
<1>7. ASSUME NEW c \in Client, ReceiveResponse(c) PROVE LostIsEmpty'
  <2>1. toClient[c] # <<>> /\ \A d \in Client : d # c => toClient'[d] = toClient[d]
    BY <1>7 DEF ReceiveResponse, Types
  <2>2. connected[c]
    BY <2>1 DEF LostIsEmpty
  <2> QED BY <1>7, <2>1, <2>2 DEF ReceiveResponse, LostIsEmpty, serverVars
<1>8. ASSUME NEW c \in Client, Disconnect(c) PROVE LostIsEmpty'
  <2>1. {c} \in SUBSET Client /\ Disconnected({c}) /\ UNCHANGED flushes
    BY <1>8 DEF Disconnect
  <2>2. /\ \A d \in Client : connected'[d] <=> connected[d] /\ d # c
        /\ toServer'[c] = <<>> /\ toClient'[c] = <<>>
        /\ \A d \in Client : d # c => toServer'[d] = toServer[d] /\ toClient'[d] = toClient[d]
    BY <2>1, CarrierLost
  <2>3. waiting' \subseteq waiting /\ \A r \in waiting' : Owner[r.op] # c
    BY <1>8 DEF Disconnect
  <2> QED BY <2>2, <2>3 DEF LostIsEmpty
<1>9. ASSUME NEW c \in Client, Reconnect(c) PROVE LostIsEmpty'
  <2>1. \A d \in Client : d # c => toServer'[d] = toServer[d] /\ connected'[d] = connected[d]
    BY <1>9, ReplayedFrames DEF Reconnect, Types
  <2>2. connected'[c]
    BY <1>9 DEF Reconnect, Types
  <2> QED BY <1>9, <2>1, <2>2 DEF Reconnect, LostIsEmpty, serverVars
<1>10. ASSUME NEW c \in Client, Receive(c) PROVE LostIsEmpty'
  <2>1. PICK r \in OfBrowser(c) :
          /\ Owner[r.op] = c /\ UNCHANGED connected
          /\ toServer[c] # <<>> /\ toServer' = [toServer EXCEPT ![c] = Tail(@)]
          /\ waiting' \subseteq waiting \cup {r}
          /\ (\E answer \in Outcome : toClient' = Answered(r, answer)) \/ UNCHANGED toClient
    BY <1>0, <1>10, ReceiveCases DEF browserVars
  <2>2. \A d \in Client : d # c => toServer'[d] = toServer[d]
    BY <2>1 DEF Types
  <2>3. r \in Requests
    BY DEF OfBrowser
  <2>4. \A d \in Client : d # c => toClient'[d] = toClient[d]
    BY <2>1, <2>3, SentResponse
  <2>5. connected[c]
    BY <2>1 DEF LostIsEmpty
  <2> QED BY <2>1, <2>2, <2>4, <2>5 DEF LostIsEmpty
<1>11. CASE Restart
  <2>1. Client \in SUBSET Client /\ Disconnected(Client) /\ UNCHANGED flushes /\ waiting' = {}
    BY <1>11 DEF Restart
  <2>2. \A d \in Client : toServer'[d] = <<>> /\ toClient'[d] = <<>>
    BY <2>1, CarrierLost
  <2> QED BY <2>1, <2>2 DEF LostIsEmpty
<1>12. ASSUME NEW op \in Op, QueuePrompt(op) \/ TimeOut(op) \/ Settle(op)
       PROVE  UNCHANGED <<connected, toServer, toClient, waiting>>
  BY <1>12 DEF QueuePrompt, TimeOut, Settle, browserVars, carrierVars, serverVars
<1>13. ASSUME NEW c \in Client, StartCompaction(c)
       PROVE  UNCHANGED <<connected, toServer, toClient, waiting>>
  BY <1>13 DEF StartCompaction, carrierVars, serverVars
<1>14. UNCHANGED vars => UNCHANGED <<connected, toServer, toClient, waiting>>
  BY DEF vars, browserVars, carrierVars, serverVars
<1> QED BY <1>1, <1>2, <1>4, <1>5, <1>6, <1>7, <1>8, <1>9, <1>10, <1>11, <1>12, <1>13, <1>14 DEF Next

\* What a step leaves as it is.
LEMMA Unmoved ==
  /\ UNCHANGED <<toServer, flushes>> => (FramesAreOnce' <=> FramesAreOnce)
                                        /\ \A o \in Op : InFrame(o)' <=> InFrame(o)
  /\ UNCHANGED <<toClient, flushes>> => (AnswersAreOnce' <=> AnswersAreOnce)
                                        /\ \A o \in Op : IsAnswered(o)' <=> IsAnswered(o)
  /\ UNCHANGED <<waiting, flushes>> => \A o \in Op : IsAwaited(o)' <=> IsAwaited(o)
BY DEF FramesAreOnce, AnswersAreOnce, InFrame, IsAnswered, IsAwaited, Request

\* An operation of which a step adds nothing to the places it is in.
LEMMA StaysAsked ==
  ASSUME NEW o \in Resumable, AskedOf(o),
         InFrame(o)' => InFrame(o), IsAwaited(o)' => IsAwaited(o), IsAnswered(o)' => IsAnswered(o),
         starting'[o] = starting[o], IsOpen(o) => IsOpen(o)',
         o \in pending' => o \in pending /\ told'[o] = told[o]
  PROVE  AskedOf(o)'
BY DEF AskedOf

\* Every resumable operation stays in one place, and what was answered nowhere.
LEMMA AskedStep ==
  ASSUME Types, Types', RunsAreRecorded, LostIsEmpty, AskedOnce, [Next]_vars PROVE AskedOnce'
<1>0. /\ \A o \in Resumable : o \in Op /\ o \notin Deferred /\ starting[o] \in Nat
      /\ "accepted" \in Outcome /\ "failed" \in Outcome
  BY DEF Types, Resumable, Outcome
<1>1. FramesAreOnce /\ AnswersAreOnce /\ \A o \in Resumable : AskedOf(o)
  BY DEF AskedOnce
<1>2. ASSUME UNCHANGED <<toServer, toClient, waiting, starting, flushes, pending, told>>
      PROVE  AskedOnce'
  <2>1. \A o \in Resumable : IsOpen(o) => IsOpen(o)'
    BY <1>2 DEF IsOpen
  <2> QED BY <1>0, <1>1, <1>2, <2>1, StaysAsked, Unmoved DEF AskedOnce
<1>3. ASSUME NEW op \in Op, Submit(op) PROVE AskedOnce'
  <2>1. /\ op \in Resumable /\ told[op] = "nothing" /\ op \notin pending
        /\ pending' = pending \cup {op}
        /\ UNCHANGED <<toClient, waiting, starting, flushes, told>>
    BY <1>3 DEF Submit, serverVars
  <2>2. ~IsOpen(op)
    BY <2>1 DEF IsOpen
  <2>3. ~InFrame(op) /\ ~IsAwaited(op) /\ ~IsAnswered(op) /\ starting[op] = 0
    BY <1>0, <1>1, <2>1, <2>2 DEF AskedOf
  <2>4. FramesAreOnce' /\ \A o \in Op : InFrame(o)' <=> InFrame(o) \/ o = op
    BY <1>1, <1>3, <2>3, SubmitSends
  <2>5. AnswersAreOnce' /\ \A o \in Op : (IsAnswered(o)' <=> IsAnswered(o)) /\ (IsAwaited(o)' <=> IsAwaited(o))
    BY <1>1, <2>1, Unmoved
  <2>6. AskedOf(op)'
    <3>1. ~IsAwaited(op)' /\ ~IsAnswered(op)' /\ starting'[op] = 0 /\ IsOpen(op)' /\ told'[op] = "nothing"
      BY <2>1, <2>3, <2>5 DEF IsOpen
    <3> QED BY <3>1 DEF AskedOf
  <2>7. ASSUME NEW o \in Resumable, o # op PROVE AskedOf(o)'
    <3>1. IsOpen(o) => IsOpen(o)'
      BY <2>1 DEF IsOpen
    <3> QED BY <1>0, <1>1, <2>1, <2>4, <2>5, <2>7, <3>1, StaysAsked
  <2> QED BY <2>4, <2>5, <2>6, <2>7 DEF AskedOnce
<1>4. ASSUME NEW op \in Op, TimeOut(op) PROVE AskedOnce'
  <2>1. Ends(op, "timed out") /\ UNCHANGED <<toServer, toClient, waiting, starting, flushes>>
    BY <1>4 DEF TimeOut, carrierVars, serverVars
  <2>2. /\ pending' = pending \ {op} /\ \A o \in Op : o # op => told'[o] = told[o]
        /\ op \in Resumable => told'[op] = "timed out"
    BY <2>1, RequestEnds
  <2>3. /\ FramesAreOnce' /\ AnswersAreOnce'
        /\ \A o \in Op : /\ InFrame(o)' <=> InFrame(o)
                         /\ IsAnswered(o)' <=> IsAnswered(o)
                         /\ IsAwaited(o)' <=> IsAwaited(o)
    BY <1>1, <2>1, Unmoved
  <2>4. ASSUME NEW o \in Resumable PROVE AskedOf(o)'
    <3>1. IsOpen(o) => IsOpen(o)'
      BY <1>0, <2>2 DEF IsOpen
    <3>2. o \in pending' => o \in pending /\ told'[o] = told[o]
      BY <1>0, <2>2
    <3> QED BY <1>0, <1>1, <2>1, <2>3, <3>1, <3>2, StaysAsked
  <2> QED BY <2>3, <2>4 DEF AskedOnce
<1>5. ASSUME NEW op \in Op, Accept(op) \/ Fail(op) PROVE AskedOnce'
  <2>0. Request(op) \in Requests /\ Request(op).op = op
    BY RequestIs
  <2>1. /\ starting[op] > 0 /\ starting[op] \in Nat /\ starting'[op] = starting[op] - 1
        /\ \A o \in Op : o # op => starting'[o] = starting[o]
    BY <1>5, RunsOf DEF Types
  <2>2. PICK answer \in Outcome : Responds(Request(op), answer)
    BY <1>0, <1>5 DEF Accept, Fail
  <2>3. UNCHANGED <<toServer, flushes, pending, told>>
    BY <1>5 DEF Accept, Fail, browserVars
  <2>4. /\ waiting' = waiting \ {Request(op)}
        /\ \/ IsAwaited(op) /\ toClient' = Answered(Request(op), answer)
           \/ ~IsAwaited(op) /\ UNCHANGED toClient
    BY <2>0, <2>2, ResponseGoes DEF IsAwaited
  <2>5. \A o \in Op : /\ IsAwaited(o)' <=> IsAwaited(o) /\ o # op
                      /\ Request(o) = Request(op) <=> o = op
    BY <2>3, <2>4, RequestsDiffer DEF IsAwaited, Request
  <2>6. FramesAreOnce' /\ \A o \in Op : InFrame(o)' <=> InFrame(o)
    BY <1>1, <2>3, Unmoved
  <2>7. op \in Resumable => ~IsAnswered(op) /\ IsOpen(op) /\ starting'[op] = 0
    <3>1. op \in Resumable => starting[op] + turns[op] <= 1 /\ turns[op] \in Nat
      BY DEF RunsAreRecorded, Types
    <3>2. op \in Resumable => starting[op] = 1
      BY <2>1, <3>1
    <3> QED BY <1>1, <2>1, <3>2 DEF AskedOf
  <2>8. /\ AnswersAreOnce'
        /\ \A o \in Op : IsAnswered(o)' => IsAnswered(o) \/ (o = op /\ IsAwaited(op))
    <3>1. CASE IsAwaited(op) /\ toClient' = Answered(Request(op), answer)
      BY <1>1, <2>0, <2>3, <2>5, <2>7, <3>1, ResponseSent
    <3>2. CASE UNCHANGED toClient
      BY <1>1, <2>3, <3>2, Unmoved
    <3> QED BY <2>4, <3>1, <3>2
  <2>9. ASSUME NEW o \in Resumable PROVE AskedOf(o)'
    <3>1. IsOpen(o)' <=> IsOpen(o)
      BY <2>3 DEF IsOpen
    <3>2. CASE o = op
      <4>1. /\ ~IsAwaited(op)' /\ starting'[op] = 0 /\ IsOpen(op)'
            /\ InFrame(op)' <=> InFrame(op)
            /\ IsAnswered(op)' => IsAwaited(op)
        BY <1>0, <2>5, <2>6, <2>7, <2>8, <3>1, <3>2
      <4>2. /\ InFrame(op)' => ~IsAnswered(op)'
            /\ op \in pending' => told'[op] = "nothing"
        BY <1>1, <2>3, <3>2, <4>1 DEF AskedOf
      <4>3. AskedOf(op)'
        BY <4>1, <4>2 DEF AskedOf
      <4> QED BY <3>2, <4>3
    <3>3. CASE o # op
      BY <1>0, <1>1, <2>1, <2>3, <2>5, <2>6, <2>8, <3>1, <3>3, StaysAsked
    <3> QED BY <3>2, <3>3
  <2> QED BY <2>6, <2>8, <2>9 DEF AskedOnce
<1>6. ASSUME NEW r \in unrecorded, NEW answer \in Outcome, Answer(r, answer) PROVE AskedOnce'
  <2>1. r \in Requests /\ r.op \notin Resumable
    BY DEF Types, Resumable
  <2>2. Responds(r, answer) /\ UNCHANGED <<toServer, flushes, pending, told, starting>>
    BY <1>6 DEF Answer, browserVars
  <2>3. /\ waiting' = waiting \ {r}
        /\ (r \in waiting /\ toClient' = Answered(r, answer)) \/ UNCHANGED toClient
    BY <2>1, <2>2, ResponseGoes
  <2>4. \A o \in Resumable : Request(o) # r
    BY <1>0, <2>1, RequestIs
  <2>5. AnswersAreOnce' /\ \A o \in Resumable : IsAnswered(o)' => IsAnswered(o)
    <3>1. CASE toClient' = Answered(r, answer)
      BY <1>0, <1>1, <2>1, <2>2, <2>4, <3>1, ResponseSent
    <3>2. CASE UNCHANGED toClient
      BY <1>0, <1>1, <2>2, <3>2, Unmoved
    <3> QED BY <2>3, <3>1, <3>2
  <2>6. FramesAreOnce' /\ \A o \in Op : InFrame(o)' <=> InFrame(o)
    BY <1>1, <2>2, Unmoved
  <2>7. \A o \in Resumable : (IsAwaited(o)' => IsAwaited(o)) /\ (IsOpen(o) => IsOpen(o)')
    BY <2>2, <2>3 DEF IsAwaited, IsOpen, Request
  <2>8. \A o \in Resumable : AskedOf(o)'
    BY <1>0, <1>1, <2>2, <2>5, <2>6, <2>7, StaysAsked
  <2> QED BY <2>5, <2>6, <2>8 DEF AskedOnce
<1>7. ASSUME NEW c \in Client, CompactionEnds(c) PROVE AskedOnce'
  <2>1. \A o \in Resumable : o \in Op \ Flushed(c)
    BY <1>0 DEF Flushed, Types
  <2>2. FramesAreOnce' /\ \A o \in Resumable : Request(o)' = Request(o) /\ (InFrame(o)' <=> InFrame(o))
    BY <1>1, <1>7, <2>1, FlushSends
  <2>3. UNCHANGED <<toClient, waiting, starting, told>> /\ pending' = pending \cup Flushed(c)
    BY <1>7 DEF CompactionEnds, serverVars
  <2>4. \A o \in Resumable : /\ IsAnswered(o)' <=> IsAnswered(o)
                             /\ IsAwaited(o)' <=> IsAwaited(o)
                             /\ IsOpen(o) => IsOpen(o)'
    BY <2>2, <2>3 DEF IsAnswered, IsAwaited, IsOpen
  <2>5. AnswersAreOnce'
    BY <1>1, <2>3 DEF AnswersAreOnce
  <2>6. \A o \in Resumable : AskedOf(o)'
    BY <1>1, <2>1, <2>2, <2>3, <2>4, StaysAsked
  <2> QED BY <2>2, <2>5, <2>6 DEF AskedOnce
<1>8. ASSUME NEW c \in Client, ReceiveResponse(c) PROVE AskedOnce'
  <2>1. PICK r \in OfBrowser(c), answer \in Outcome :
          /\ r.op \in Op /\ r = Head(toClient[c]).request
          /\ toClient[c] # <<>> /\ toClient' = [toClient EXCEPT ![c] = Tail(@)]
          /\ \/ r.op \in pending /\ r = Request(r.op) /\ Ends(r.op, answer)
             \/ UNCHANGED <<pending, told, queue, failed>>
          /\ UNCHANGED <<flushes, toServer, waiting, starting>>
    BY <1>8, ResponseCases DEF serverVars
  <2>2. /\ AnswersAreOnce' /\ \A o \in Op : IsAnswered(o) <=> IsAnswered(o)' \/ Request(o) = r
        /\ \A o \in Resumable : Request(o) = r => ~IsAnswered(o)'
    BY <1>1, <2>1, ResponseTaken
  <2>3. /\ FramesAreOnce'
        /\ \A o \in Op : (InFrame(o)' <=> InFrame(o)) /\ (IsAwaited(o)' <=> IsAwaited(o))
    BY <1>1, <2>1, Unmoved
  <2>4. CASE UNCHANGED <<pending, told, queue, failed>>
    <3>1. \A o \in Resumable : IsOpen(o) => IsOpen(o)'
      BY <2>4 DEF IsOpen
    <3>2. \A o \in Resumable : AskedOf(o)'
      BY <1>0, <1>1, <2>1, <2>2, <2>3, <2>4, <3>1, StaysAsked
    <3> QED BY <2>2, <2>3, <3>2 DEF AskedOnce
  <2>5. CASE r.op \in pending /\ r = Request(r.op) /\ Ends(r.op, answer)
    <3> DEFINE op == r.op
    <3>1. pending' = pending \ {op} /\ \A o \in Op : o # op => told'[o] = told[o]
      BY <2>1, <2>5, RequestEnds
    <3>2. r = Request(op) /\ op \in Op
      BY <2>1, <2>5
    <3> HIDE DEF op
    <3>3. ASSUME NEW o \in Resumable, o # op PROVE AskedOf(o)'
      <4>1. IsOpen(o) => IsOpen(o)'
        BY <1>0, <3>1, <3>3 DEF IsOpen
      <4> QED BY <1>0, <1>1, <2>1, <2>2, <2>3, <3>1, <3>3, <4>1, StaysAsked
    <3>4. ASSUME op \in Resumable PROVE AskedOf(op)'
      <4>1. IsAnswered(op) /\ ~IsAnswered(op)'
        BY <2>2, <3>2, <3>4
      <4>2. ~InFrame(op) /\ starting[op] = 0 /\ ~IsAwaited(op)
        BY <1>1, <3>4, <4>1 DEF AskedOf
      <4>3. ~InFrame(op)' /\ starting'[op] = 0 /\ ~IsAwaited(op)' /\ op \notin pending'
        BY <2>1, <2>3, <3>1, <3>2, <4>2
      <4> QED BY <4>1, <4>3 DEF AskedOf
    <3> QED BY <2>2, <2>3, <3>3, <3>4 DEF AskedOnce
  <2> QED BY <2>1, <2>4, <2>5
<1>9. ASSUME NEW lost \in SUBSET Client, Disconnected(lost), UNCHANGED flushes,
             waiting' \subseteq waiting,
             UNCHANGED starting \/ (waiting' = {} /\ lost = Client /\ \A o \in Op : starting'[o] = 0)
      PROVE  AskedOnce'
  <2>1. /\ \A o \in Op : (InFrame(o)' => InFrame(o)) /\ (IsAnswered(o)' => IsAnswered(o))
        /\ FramesAreOnce' /\ AnswersAreOnce'
        /\ pending' \subseteq pending /\ pending \cap Resumable \subseteq pending'
    BY <1>1, <1>9, CarrierLost
  <2>2. told' = told
    BY <1>9, DisconnectedTypes
  <2>3. \A o \in Op : IsAwaited(o)' => IsAwaited(o)
    BY <1>9 DEF IsAwaited, Request
  <2>4. \A o \in Resumable : IsOpen(o) => IsOpen(o)'
    BY <2>1, <2>2 DEF IsOpen
  <2>5. ASSUME NEW o \in Resumable PROVE AskedOf(o)'
    <3>1. CASE UNCHANGED starting
      BY <1>0, <1>1, <2>1, <2>2, <2>3, <2>4, <3>1, StaysAsked
    <3>2. CASE waiting' = {} /\ lost = Client /\ \A p \in Op : starting'[p] = 0
      <4>1. ~IsAwaited(o)' /\ starting'[o] = 0 /\ ~InFrame(o)' /\ ~IsAnswered(o)'
        BY <1>0, <1>9, <3>2, CarrierLost DEF IsAwaited, ConstantsAssumption
      <4>2. o \in pending' => told'[o] = "nothing"
        BY <1>1, <2>1, <2>2 DEF AskedOf
      <4> QED BY <4>1, <4>2 DEF AskedOf
    <3> QED BY <1>9, <3>1, <3>2
  <2> QED BY <2>1, <2>5 DEF AskedOnce
<1>10. ASSUME NEW c \in Client, Disconnect(c) PROVE AskedOnce'
  <2>1. /\ {c} \in SUBSET Client /\ Disconnected({c}) /\ UNCHANGED <<flushes, starting>>
        /\ waiting' \subseteq waiting
    BY <1>10 DEF Disconnect
  <2> QED BY <1>9, <2>1
<1>11. CASE Restart
  <2>1. /\ Client \in SUBSET Client /\ Disconnected(Client) /\ UNCHANGED flushes
        /\ waiting' = {} /\ \A o \in Op : starting'[o] = 0
    BY <1>11 DEF Restart
  <2> QED BY <1>9, <2>1
<1>12. ASSUME NEW c \in Client, Reconnect(c) PROVE AskedOnce'
  <2>1. ~connected[c] /\ UNCHANGED <<toClient, waiting, starting, flushes, pending, told>>
    BY <1>12 DEF Reconnect, serverVars
  <2>2. toServer[c] = <<>> /\ toClient[c] = <<>> /\ \A r \in waiting : Owner[r.op] # c
    BY <2>1 DEF LostIsEmpty
  <2>3. FramesAreOnce' /\ \A o \in Op : InFrame(o)' <=> InFrame(o) \/ o \in Replayed(c)
    BY <1>1, <1>12, <2>2, ReplaySends
  <2>4. AnswersAreOnce' /\ \A o \in Op : (IsAnswered(o)' <=> IsAnswered(o)) /\ (IsAwaited(o)' <=> IsAwaited(o))
    BY <1>1, <2>1, Unmoved
  <2>5. \A o \in Op : IsOpen(o) <=> IsOpen(o)'
    BY <2>1 DEF IsOpen
  <2>6. ASSUME NEW o \in Resumable, o \in Replayed(c) PROVE AskedOf(o)'
    <3>1. o \in pending /\ Owner[o] = c
      BY <2>6 DEF Replayed, OfClient
    <3>2. ~IsAnswered(o)
      <4>1. AskedBy(<<>>) = {}
        BY DEF AskedBy
      <4> QED BY <2>2, <3>1, <4>1 DEF IsAnswered
    <3>3. ~IsAwaited(o)
      <4>1. Request(o).op = o
        BY DEF Request
      <4> QED BY <2>2, <3>1, <4>1 DEF IsAwaited
    <3>4. IsOpen(o)' /\ ~IsAnswered(o)' /\ ~IsAwaited(o)'
      BY <1>0, <2>1, <2>4, <3>1, <3>2, <3>3 DEF IsOpen
    <3>5. o \in pending' => told'[o] = "nothing"
      BY <1>1, <2>1 DEF AskedOf
    <3> QED BY <3>4, <3>5 DEF AskedOf
  <2>7. ASSUME NEW o \in Resumable, o \notin Replayed(c) PROVE AskedOf(o)'
    BY <1>0, <1>1, <2>1, <2>3, <2>4, <2>5, <2>7, StaysAsked
  <2> QED BY <2>3, <2>4, <2>6, <2>7 DEF AskedOnce
<1>13. ASSUME NEW c \in Client, Receive(c) PROVE AskedOnce'
  <2>1. PICK r \in OfBrowser(c) : \E op \in Op :
          /\ r = Head(toServer[c]) /\ r.op = op
          /\ toServer[c] # <<>> /\ toServer' = [toServer EXCEPT ![c] = Tail(@)]
          /\ UNCHANGED <<flushes, pending, told>>
          /\ \/ /\ op \in Resumable /\ op \in receipts
                /\ \/ response[op] = "open" /\ waiting' = waiting \cup {r} /\ UNCHANGED toClient
                   \/ /\ response[op] \in Outcome /\ toClient' = Answered(r, response[op])
                      /\ UNCHANGED waiting
                /\ UNCHANGED starting
             \/ /\ op \in Resumable /\ op \notin receipts
                /\ toClient' = Answered(r, "failed")
                /\ UNCHANGED <<waiting, starting>>
             \/ /\ op \in Resumable
                /\ waiting' = waiting \cup {r}
                /\ starting' = [starting EXCEPT ![op] = @ + 1]
                /\ UNCHANGED toClient
             \/ /\ op \in Deferred
                /\ waiting' = waiting \cup {r}
                /\ UNCHANGED <<toClient, starting>>
    BY <1>13, ReceiveCases DEF browserVars
  <2>2. r \in Requests /\ r.op \in Op
    BY DEF OfBrowser, Requests
  <2>3. /\ \A o \in Op : InFrame(o) <=> InFrame(o)' \/ Request(o) = r
        /\ FramesAreOnce' /\ \A o \in Resumable : Request(o) = r => ~InFrame(o)'
    BY <1>1, <2>1, FrameTaken
  <2>4. \A o \in Op : IsOpen(o)' <=> IsOpen(o)
    BY <2>1 DEF IsOpen
  <2>5. \A o \in Resumable : o # r.op => Request(o) # r
    BY DEF Request
  <2>6. \A o \in Op : waiting' \subseteq waiting \cup {r} /\ Request(o) # r => (IsAwaited(o)' => IsAwaited(o))
    BY <2>1 DEF IsAwaited, Request
  <2>7. CASE r.op \in Resumable
    <3> DEFINE op == r.op
    <3>1. r = Request(op) /\ op \in Op /\ op \in Resumable /\ starting[op] \in Nat /\ op = r.op
      BY <1>0, <2>2, <2>7, RequestIs
    <3> HIDE DEF op
    <3>2. /\ ~InFrame(op)' /\ IsOpen(op)' /\ ~IsAwaited(op) /\ ~IsAnswered(op)
          /\ op \in pending' => told'[op] = "nothing"
      BY <1>1, <2>1, <2>3, <2>4, <3>1 DEF AskedOf
    <3>3. ASSUME NEW answer \in Outcome, toClient' = Answered(r, answer), UNCHANGED <<waiting, starting>>,
                 starting[op] = 0
          PROVE  AskedOnce'
      <4>1. AnswersAreOnce' /\ \A o \in Op : IsAnswered(o)' <=> IsAnswered(o) \/ Request(o) = r
        BY <1>1, <2>1, <2>2, <3>1, <3>2, <3>3, ResponseSent
      <4>2. \A o \in Op : IsAwaited(o)' <=> IsAwaited(o)
        BY <2>1, <3>3, Unmoved
      <4>3. AskedOf(op)'
        BY <3>1, <3>2, <3>3, <4>2 DEF AskedOf
      <4>4. ASSUME NEW o \in Resumable, o # op PROVE AskedOf(o)'
        BY <1>0, <1>1, <2>1, <2>3, <2>4, <2>5, <3>1, <3>3, <4>1, <4>2, <4>4, StaysAsked
      <4> QED BY <2>3, <4>1, <4>3, <4>4 DEF AskedOnce
    <3>4. ASSUME waiting' = waiting \cup {r}, UNCHANGED toClient, starting'[op] > 0,
                 \A o \in Op : o # op => starting'[o] = starting[o]
          PROVE  AskedOnce'
      <4>1. AnswersAreOnce' /\ \A o \in Op : IsAnswered(o)' <=> IsAnswered(o)
        BY <1>1, <2>1, <3>4, Unmoved
      <4>2. AskedOf(op)'
        BY <3>1, <3>2, <3>4, <4>1 DEF AskedOf
      <4>3. ASSUME NEW o \in Resumable, o # op PROVE AskedOf(o)'
        BY <1>0, <1>1, <2>1, <2>3, <2>4, <2>5, <2>6, <3>1, <3>4, <4>1, <4>3, StaysAsked
      <4> QED BY <2>3, <4>1, <4>2, <4>3 DEF AskedOnce
    <3>5. CASE op \in receipts /\ response[op] = "open" /\ waiting' = waiting \cup {r}
               /\ UNCHANGED <<toClient, starting>>
      <4>1. starting[op] > 0
        BY <3>1, <3>5 DEF RunsAreRecorded
      <4> QED BY <3>4, <3>5, <4>1
    <3>6. CASE op \in receipts /\ response[op] \in Outcome /\ toClient' = Answered(r, response[op])
               /\ UNCHANGED <<waiting, starting>>
      <4>1. starting[op] = 0
        BY <3>1, <3>6 DEF RunsAreRecorded, Outcome
      <4> QED BY <3>3, <3>6, <4>1
    <3>7. CASE op \notin receipts /\ toClient' = Answered(r, "failed") /\ UNCHANGED <<waiting, starting>>
      <4>1. turns[op] \in Nat
        BY <3>1 DEF Types
      <4>2. starting[op] = 0
        BY <3>1, <3>7, <4>1 DEF RunsAreRecorded
      <4> QED BY <1>0, <3>3, <3>7, <4>2
    <3>8. CASE waiting' = waiting \cup {r} /\ starting' = [starting EXCEPT ![op] = @ + 1] /\ UNCHANGED toClient
      <4>1. starting \in [Op -> Nat]
        BY DEF Types
      <4>2. starting'[op] > 0 /\ \A o \in Op : o # op => starting'[o] = starting[o]
        BY <3>1, <3>8, <4>1
      <4> QED BY <3>4, <3>8, <4>2
    <3>9. op \notin Deferred
      BY <1>0, <3>1
    <3> QED BY <2>1, <3>1, <3>5, <3>6, <3>7, <3>8, <3>9
  <2>8. CASE r.op \notin Resumable
    <3>1. waiting' = waiting \cup {r} /\ UNCHANGED <<toClient, starting>>
      BY <2>1, <2>8
    <3>2. AnswersAreOnce' /\ \A o \in Op : IsAnswered(o)' <=> IsAnswered(o)
      BY <1>1, <2>1, <3>1, Unmoved
    <3>3. ASSUME NEW o \in Resumable PROVE AskedOf(o)'
      <4>1. Request(o) # r
        BY <2>5, <2>8
      <4> QED BY <1>0, <1>1, <2>1, <2>3, <2>4, <2>6, <3>1, <3>2, <4>1, StaysAsked
    <3> QED BY <2>3, <3>2, <3>3 DEF AskedOnce
  <2> QED BY <2>7, <2>8
<1>14. ASSUME NEW op \in Op, QueuePrompt(op) \/ Settle(op) PROVE AskedOnce'
  BY <1>2, <1>14 DEF QueuePrompt, Settle, browserVars, carrierVars, serverVars
<1>15. ASSUME NEW c \in Client, StartCompaction(c) PROVE AskedOnce'
  BY <1>2, <1>15 DEF StartCompaction, carrierVars, serverVars
<1>16. CASE UNCHANGED vars
  BY <1>2, <1>16 DEF vars, browserVars, carrierVars, serverVars
<1> HIDE DEF AskedOnce
<1> QED BY <1>3, <1>4, <1>5, <1>6, <1>7, <1>8, <1>10, <1>11, <1>12, <1>13, <1>14, <1>15, <1>16 DEF Next

\* What was under way stays under way.
LEMMA StaysDue ==
  ASSUME NEW o \in Op, DueOf(o),
         InFrame(o) => InFrame(o)', Executing(o) => Executing(o)', IsAnswered(o) => IsAnswered(o)',
         o \in pending' /\ connected'[Owner[o]] => o \in pending /\ connected[Owner[o]]
  PROVE  DueOf(o)'
BY DEF DueOf

\* What a connected browser waits for stays under way.
LEMMA DueStep ==
  ASSUME Types, RunsAreRecorded, LostIsEmpty, AnswerIsOnTheWay, [Next]_vars
  PROVE  AnswerIsOnTheWay'
<1>0. /\ \A o \in Op : DueOf(o) /\ Owner[o] \in Client /\ starting[o] \in Nat
      /\ "accepted" \in Outcome /\ "failed" \in Outcome
  BY DEF AnswerIsOnTheWay, Types, ConstantsAssumption, Outcome
<1>1. ASSUME UNCHANGED <<waiting, starting, unrecorded, flushes>>
      PROVE  \A o \in Op : Executing(o)' <=> Executing(o)
  BY <1>1 DEF Executing, Request
<1>2. ASSUME UNCHANGED <<toServer, toClient, waiting, starting, unrecorded, flushes, connected>>,
             pending' \subseteq pending
      PROVE  AnswerIsOnTheWay'
  BY <1>0, <1>1, <1>2, StaysDue, Unmoved DEF AnswerIsOnTheWay
<1>3. ASSUME NEW op \in Op, Submit(op) PROVE AnswerIsOnTheWay'
  <2>1. /\ pending' = pending \cup {op}
        /\ UNCHANGED <<toClient, waiting, starting, unrecorded, flushes, connected>>
    BY <1>3 DEF Submit, serverVars
  <2>2. \A o \in Op : InFrame(o)' <=> InFrame(o) \/ o = op
    BY <1>3, SubmitSends
  <2>3. \A o \in Op : (IsAnswered(o)' <=> IsAnswered(o)) /\ (Executing(o)' <=> Executing(o))
    BY <1>1, <2>1, Unmoved
  <2>4. DueOf(op)'
    BY <2>2 DEF DueOf
  <2>5. ASSUME NEW o \in Op, o # op PROVE DueOf(o)'
    BY <1>0, <2>1, <2>2, <2>3, <2>5, StaysDue
  <2> QED BY <2>4, <2>5 DEF AnswerIsOnTheWay
<1>4. ASSUME NEW op \in Op, TimeOut(op) PROVE AnswerIsOnTheWay'
  <2>1. Ends(op, "timed out")
        /\ UNCHANGED <<toServer, toClient, waiting, starting, unrecorded, flushes, connected>>
    BY <1>4 DEF TimeOut, carrierVars, serverVars
  <2>2. pending' \subseteq pending
    BY <2>1, RequestEnds
  <2> QED BY <1>2, <2>1, <2>2
<1>5. ASSUME NEW r \in Requests, NEW answer \in Outcome, Responds(r, answer),
             UNCHANGED <<toServer, flushes, pending, connected>>,
             \A o \in Op : Request(o) # r /\ Executing(o) => Executing(o)'
      PROVE  AnswerIsOnTheWay'
  <2>1. /\ \/ r \in waiting /\ toClient' = Answered(r, answer)
           \/ r \notin waiting /\ UNCHANGED toClient
    BY <1>5, ResponseGoes
  <2>2. \A o \in Op : InFrame(o)' <=> InFrame(o)
    BY <1>5, Unmoved
  <2>3. \A o \in Op : /\ IsAnswered(o) => IsAnswered(o)'
                      /\ Request(o) = r /\ r \in waiting => IsAnswered(o)'
    <3>1. CASE r \in waiting /\ toClient' = Answered(r, answer)
      BY <1>5, <3>1, ResponseSent
    <3>2. CASE r \notin waiting /\ UNCHANGED toClient
      BY <1>5, <3>2, Unmoved
    <3> QED BY <2>1, <3>1, <3>2
  <2>4. ASSUME NEW o \in Op PROVE DueOf(o)'
    <3>1. CASE Request(o) = r /\ r \in waiting
      BY <2>3, <3>1 DEF DueOf
    <3>2. CASE ~(Request(o) = r /\ r \in waiting)
      <4>1. Executing(o) => Executing(o)'
        <5>1. Executing(o) => Request(o) \in waiting
          BY DEF Executing
        <5> QED BY <1>5, <3>2, <5>1
      <4> QED BY <1>0, <1>5, <2>2, <2>3, <4>1, StaysDue
    <3> QED BY <3>1, <3>2
  <2> QED BY <2>4 DEF AnswerIsOnTheWay
<1>6. ASSUME NEW op \in Op, Accept(op) \/ Fail(op) PROVE AnswerIsOnTheWay'
  <2>0. Request(op) \in Requests
    BY RequestIs
  <2>1. PICK answer \in Outcome : Responds(Request(op), answer)
    BY <1>0, <1>6 DEF Accept, Fail
  <2>2. UNCHANGED <<toServer, flushes, pending, connected, unrecorded>>
    BY <1>6 DEF Accept, Fail, browserVars
  <2>3. waiting' = waiting \ {Request(op)} /\ \A o \in Op : o # op => starting'[o] = starting[o]
    BY <1>6, <2>0, <2>1, ResponseGoes, RunsOf
  <2>4. \A o \in Op : Request(o) # Request(op) /\ Executing(o) => Executing(o)'
    BY <2>2, <2>3, RequestsDiffer DEF Executing, Request
  <2> QED BY <1>5, <2>0, <2>1, <2>2, <2>4
<1>7. ASSUME NEW r \in unrecorded, NEW answer \in Outcome, Answer(r, answer) PROVE AnswerIsOnTheWay'
  <2>0. r \in Requests
    BY DEF Types
  <2>1. /\ Responds(r, answer) /\ unrecorded' = unrecorded \ {r}
        /\ UNCHANGED <<toServer, flushes, pending, connected, starting>>
    BY <1>7 DEF Answer, browserVars
  <2>2. waiting' = waiting \ {r}
    BY <2>0, <2>1, ResponseGoes
  <2>3. \A o \in Op : Request(o) # r /\ Executing(o) => Executing(o)'
    BY <2>1, <2>2 DEF Executing, Request
  <2> QED BY <1>5, <2>0, <2>1, <2>3
<1>8. ASSUME NEW c \in Client, CompactionEnds(c) PROVE AnswerIsOnTheWay'
  <2>1. /\ UNCHANGED <<connected, toClient, waiting, starting, unrecorded>>
        /\ pending' = pending \cup Flushed(c)
    BY <1>8 DEF CompactionEnds, serverVars
  <2>2. /\ \A o \in Flushed(c) : InFrame(o)'
        /\ \A o \in Op \ Flushed(c) : Request(o)' = Request(o) /\ (InFrame(o)' <=> InFrame(o))
    BY <1>8, FlushSends
  <2>3. \A o \in Op \ Flushed(c) : (IsAnswered(o)' <=> IsAnswered(o)) /\ (Executing(o)' <=> Executing(o))
    BY <2>1, <2>2 DEF IsAnswered, Executing
  <2>4. ASSUME NEW o \in Flushed(c) PROVE DueOf(o)'
    BY <2>2 DEF DueOf
  <2>5. ASSUME NEW o \in Op \ Flushed(c) PROVE DueOf(o)'
    BY <1>0, <2>1, <2>2, <2>3, StaysDue
  <2> QED BY <2>4, <2>5 DEF AnswerIsOnTheWay
<1>9. ASSUME NEW c \in Client, ReceiveResponse(c) PROVE AnswerIsOnTheWay'
  <2>1. PICK r \in OfBrowser(c), answer \in Outcome :
          /\ r.op \in Op /\ r = Head(toClient[c]).request
          /\ toClient[c] # <<>> /\ toClient' = [toClient EXCEPT ![c] = Tail(@)]
          /\ \/ r.op \in pending /\ r = Request(r.op) /\ Ends(r.op, answer)
             \/ ~(r.op \in pending /\ r = Request(r.op)) /\ UNCHANGED <<pending, told, queue, failed>>
          /\ UNCHANGED <<flushes, toServer, waiting, starting, unrecorded, connected>>
    BY <1>9, ResponseCases DEF serverVars
  <2>2. \A o \in Op : IsAnswered(o) <=> IsAnswered(o)' \/ Request(o) = r
    BY <2>1, ResponseTaken
  <2>3. \A o \in Op : (InFrame(o)' <=> InFrame(o)) /\ (Executing(o)' <=> Executing(o))
    BY <1>1, <2>1, Unmoved
  <2>4. \A o \in Op : Request(o) = r => o = r.op
    BY DEF Request
  <2>5. pending' \subseteq pending /\ \A o \in pending' : Request(o) # r
    <3>1. CASE r.op \in pending /\ r = Request(r.op) /\ Ends(r.op, answer)
      <4>1. pending' = pending \ {r.op}
        BY <2>1, <3>1, RequestEnds
      <4> QED BY <2>4, <4>1 DEF Types
    <3>2. CASE ~(r.op \in pending /\ r = Request(r.op)) /\ UNCHANGED <<pending, told, queue, failed>>
      BY <2>4, <3>2 DEF Types
    <3> QED BY <2>1, <3>1, <3>2
  <2>6. ASSUME NEW o \in Op PROVE DueOf(o)'
    <3>1. CASE o \in pending'
      BY <1>0, <2>1, <2>2, <2>3, <2>5, <3>1, StaysDue
    <3>2. CASE o \notin pending'
      BY <3>2 DEF DueOf
    <3> QED BY <3>1, <3>2
  <2> QED BY <2>6 DEF AnswerIsOnTheWay
<1>10. ASSUME NEW c \in Client, Disconnect(c) PROVE AnswerIsOnTheWay'
  <2>1. {c} \in SUBSET Client /\ Disconnected({c}) /\ UNCHANGED <<flushes, starting, unrecorded>>
    BY <1>10 DEF Disconnect
  <2>2. /\ \A o \in Op : /\ InFrame(o)' <=> InFrame(o) /\ Owner[o] # c
                         /\ IsAnswered(o)' <=> IsAnswered(o) /\ Owner[o] # c
        /\ pending' \subseteq pending
        /\ \A d \in Client : connected'[d] <=> connected[d] /\ d # c
    BY <2>1, CarrierLost
  <2>3. ASSUME NEW o \in Op, Owner[o] # c PROVE Executing(o) => Executing(o)'
    <3>1. waiting' = {r \in waiting : Owner[r.op] # c}
      BY <1>10 DEF Disconnect
    <3>2. Request(o).op = o /\ Request(o)' = Request(o)
      BY <2>1 DEF Request
    <3>3. Request(o) \in waiting => Request(o) \in waiting'
      BY <2>3, <3>1, <3>2
    <3> QED BY <2>1, <3>2, <3>3 DEF Executing
  <2>4. ASSUME NEW o \in Op PROVE DueOf(o)'
    <3>1. CASE Owner[o] = c
      BY <1>0, <2>2, <3>1 DEF DueOf
    <3>2. CASE Owner[o] # c
      BY <1>0, <2>2, <2>3, <3>2, StaysDue
    <3> QED BY <3>1, <3>2
  <2> QED BY <2>4 DEF AnswerIsOnTheWay
<1>11. ASSUME NEW c \in Client, Reconnect(c) PROVE AnswerIsOnTheWay'
  <2>1. ~connected[c] /\ UNCHANGED <<toClient, waiting, starting, unrecorded, flushes, pending>>
    BY <1>11 DEF Reconnect, serverVars
  <2>2. \A d \in Client : d # c => connected'[d] = connected[d]
    BY <1>11 DEF Reconnect, Types
  <2>3. toServer[c] = <<>>
    BY <2>1 DEF LostIsEmpty
  <2>4. \A o \in Op : InFrame(o)' <=> InFrame(o) \/ o \in Replayed(c)
    BY <1>11, <2>3, ReplaySends
  <2>5. \A o \in Op : (IsAnswered(o)' <=> IsAnswered(o)) /\ (Executing(o)' <=> Executing(o))
    BY <1>1, <2>1, Unmoved
  <2>6. ASSUME NEW o \in Op PROVE DueOf(o)'
    <3>1. CASE Owner[o] = c
      <4>1. o \in pending => o \in Replayed(c)
        BY <3>1 DEF Replayed, OfClient
      <4> QED BY <2>1, <2>4, <4>1 DEF DueOf
    <3>2. CASE Owner[o] # c
      BY <1>0, <2>1, <2>2, <2>4, <2>5, <3>2, StaysDue
    <3> QED BY <3>1, <3>2
  <2> QED BY <2>6 DEF AnswerIsOnTheWay
<1>12. ASSUME NEW c \in Client, Receive(c) PROVE AnswerIsOnTheWay'
  <2>1. PICK r \in OfBrowser(c) : \E op \in Op :
          /\ r = Head(toServer[c]) /\ r.op = op
          /\ toServer[c] # <<>> /\ toServer' = [toServer EXCEPT ![c] = Tail(@)]
          /\ UNCHANGED <<flushes, pending, connected>>
          /\ \/ /\ op \in Resumable /\ op \in receipts
                /\ \/ response[op] = "open" /\ waiting' = waiting \cup {r} /\ UNCHANGED toClient
                   \/ /\ response[op] \in Outcome /\ toClient' = Answered(r, response[op])
                      /\ UNCHANGED waiting
                /\ UNCHANGED <<starting, unrecorded>>
             \/ /\ toClient' = Answered(r, "failed")
                /\ UNCHANGED <<waiting, starting, unrecorded>>
             \/ /\ waiting' = waiting \cup {r}
                /\ starting' = [starting EXCEPT ![op] = @ + 1]
                /\ UNCHANGED <<toClient, unrecorded>>
             \/ /\ waiting' = waiting \cup {r}
                /\ unrecorded' = unrecorded \cup {r}
                /\ UNCHANGED <<toClient, starting>>
    BY <1>12, ReceiveCases DEF browserVars
  <2>2. r \in Requests /\ r.op \in Op
    BY DEF OfBrowser, Requests
  <2>3. \A o \in Op : InFrame(o) <=> InFrame(o)' \/ Request(o) = r
    BY <2>1, FrameTaken
  <2>4. \A o \in Op : Request(o)' = Request(o) /\ (Request(o) = r => o = r.op)
    BY <2>1 DEF Request
  <2>5. ASSUME NEW answer \in Outcome, toClient' = Answered(r, answer),
               UNCHANGED <<waiting, starting, unrecorded>>
        PROVE  AnswerIsOnTheWay'
    <3>1. \A o \in Op : IsAnswered(o)' <=> IsAnswered(o) \/ Request(o) = r
      BY <2>1, <2>2, <2>5, ResponseSent
    <3>2. \A o \in Op : Executing(o)' <=> Executing(o)
      BY <1>1, <2>1, <2>5
    <3>3. ASSUME NEW o \in Op PROVE DueOf(o)'
      <4>1. CASE Request(o) = r
        BY <3>1, <4>1 DEF DueOf
      <4>2. CASE Request(o) # r
        BY <1>0, <2>1, <2>3, <3>1, <3>2, <4>2, StaysDue
      <4> QED BY <4>1, <4>2
    <3> QED BY <3>3 DEF AnswerIsOnTheWay
  <2>6. ASSUME waiting' = waiting \cup {r}, unrecorded \subseteq unrecorded', UNCHANGED toClient,
               \A o \in Op : starting[o] > 0 => starting'[o] > 0,
               starting'[r.op] > 0 \/ r \in unrecorded'
        PROVE  AnswerIsOnTheWay'
    <3>1. \A o \in Op : IsAnswered(o)' <=> IsAnswered(o)
      BY <2>1, <2>6, Unmoved
    <3>2. ASSUME NEW o \in Op PROVE DueOf(o)'
      <4>1. CASE Request(o) = r
        <5>1. Executing(o)'
          BY <2>4, <2>6, <4>1 DEF Executing
        <5> QED BY <5>1 DEF DueOf
      <4>2. CASE Request(o) # r
        <5>1. Executing(o) => Executing(o)'
          BY <2>4, <2>6 DEF Executing
        <5> QED BY <1>0, <2>1, <2>3, <3>1, <4>2, <5>1, StaysDue
      <4> QED BY <4>1, <4>2
    <3> QED BY <3>2 DEF AnswerIsOnTheWay
  <2>7. CASE /\ r.op \in Resumable /\ r.op \in receipts /\ response[r.op] = "open"
             /\ waiting' = waiting \cup {r} /\ UNCHANGED <<toClient, starting, unrecorded>>
    <3>1. starting[r.op] > 0
      BY <2>7 DEF RunsAreRecorded
    <3> QED BY <2>6, <2>7, <3>1
  <2>8. CASE /\ waiting' = waiting \cup {r}
             /\ starting' = [starting EXCEPT ![r.op] = @ + 1]
             /\ UNCHANGED <<toClient, unrecorded>>
    <3>1. starting \in [Op -> Nat]
      BY DEF Types
    <3>2. starting'[r.op] > 0 /\ \A o \in Op : starting[o] > 0 => starting'[o] > 0
      BY <2>2, <2>8, <3>1
    <3> QED BY <2>6, <2>8, <3>2
  <2>9. CASE /\ waiting' = waiting \cup {r}
             /\ unrecorded' = unrecorded \cup {r}
             /\ UNCHANGED <<toClient, starting>>
    BY <2>6, <2>9
  <2> QED BY <1>0, <2>1, <2>5, <2>7, <2>8, <2>9
<1>13. CASE Restart
  <2>1. \A d \in Client : ~connected'[d]
    BY <1>13 DEF Restart, Disconnected
  <2> QED BY <1>0, <2>1 DEF AnswerIsOnTheWay, DueOf
<1>14. ASSUME NEW op \in Op, QueuePrompt(op) \/ Settle(op) PROVE AnswerIsOnTheWay'
  BY <1>2, <1>14 DEF QueuePrompt, Settle, browserVars, carrierVars, serverVars
<1>15. ASSUME NEW c \in Client, StartCompaction(c) PROVE AnswerIsOnTheWay'
  BY <1>2, <1>15 DEF StartCompaction, carrierVars, serverVars
<1>16. CASE UNCHANGED vars
  BY <1>2, <1>16 DEF vars, browserVars, carrierVars, serverVars
<1> HIDE DEF AnswerIsOnTheWay
<1> QED BY <1>3, <1>4, <1>6, <1>7, <1>8, <1>9, <1>10, <1>11, <1>12, <1>13, <1>14, <1>15, <1>16 DEF Next

-------------------------------------------------------------------------------
(* What the browser is told *)

\* What was executed stays executed, before a restart or after it.
LEMMA ExecutedStays ==
  ASSUME Types, Types', [Next]_vars, NEW o \in Op, WasExecuted(o) PROVE WasExecuted(o)'
<1>1. ASSUME executed'[o] >= executed[o], UNCHANGED earlier PROVE WasExecuted(o)'
  <2>1. executed[o] \in Nat /\ executed'[o] \in Nat
    BY DEF Types
  <2>2. executed[o] > 0 => executed'[o] > 0
    BY <1>1, <2>1
  <2> QED BY <1>1, <2>2 DEF WasExecuted
<1>2. ASSUME UNCHANGED <<executed, earlier>> PROVE WasExecuted(o)'
  BY <1>2 DEF WasExecuted
<1>3. ASSUME NEW op \in Op, Accept(op) PROVE WasExecuted(o)'
  <2>1. executed[o] \in Nat
    BY DEF Types
  <2>2. executed'[op] = executed[op] + 1 /\ UNCHANGED earlier /\ (o # op => executed'[o] = executed[o])
    BY <1>3, RunsOf
  <2>3. executed'[o] >= executed[o]
    BY <2>1, <2>2
  <2> QED BY <1>1, <2>2, <2>3
<1>4. ASSUME NEW op \in Op, Fail(op) \/ Settle(op) PROVE WasExecuted(o)'
  BY <1>2, <1>4, RunsOf
<1>5. ASSUME NEW r \in unrecorded, NEW answer \in Outcome, Answer(r, answer) PROVE WasExecuted(o)'
  BY <1>1, <1>5, AnswersBesides
<1>6. CASE Restart
  <2>1. earlier' = earlier \cup {op \in Op : executed[op] > 0}
    BY <1>6 DEF Restart
  <2> QED BY <2>1 DEF WasExecuted
<1>7. ASSUME NEW c \in Client, Receive(c) PROVE UNCHANGED <<executed, earlier>>
  BY <1>7, ReceiveCases
<1>8. UNCHANGED vars \/ UNCHANGED Beyond => UNCHANGED <<executed, earlier>>
  BY DEF vars, historyVars, Beyond
<1> QED BY <1>2, <1>3, <1>4, <1>5, <1>6, <1>7, <1>8, BeyondTheServer DEF Next

\* The responses after another one was sent.
LEMMA OneMoreResponse ==
  ASSUME Types, NEW r \in Requests, NEW answer \in Outcome, toClient' = Answered(r, answer),
         NEW c \in Client, NEW i \in DOMAIN toClient'[c]
  PROVE  \/ i \in DOMAIN toClient[c] /\ toClient'[c][i] = toClient[c][i]
         \/ toClient'[c][i] = [request |-> r, answer |-> answer]
<1> DEFINE m == [request |-> r, answer |-> answer]
           s == toClient[c]
<1>1. s \in Seq(Response) /\ m \in Response
  BY DEF Types, Response
<1>2. toClient'[c] = IF c = Owner[r.op] THEN Append(s, m) ELSE s
  BY DEF Types, Answered
<1> HIDE DEF m, s
<1>3. /\ Len(Append(s, m)) = Len(s) + 1 /\ Append(s, m)[Len(s) + 1] = m
      /\ \A j \in 1 .. Len(s) : Append(s, m)[j] = s[j]
      /\ Append(s, m) \in Seq(Response)
  BY <1>1, AppendProperties
<1>4. DOMAIN s = 1 .. Len(s) /\ Len(s) \in Nat /\ DOMAIN Append(s, m) = 1 .. (Len(s) + 1)
  BY <1>1, <1>3, LenProperties
<1>5. CASE c = Owner[r.op]
  <2>1. i \in 1 .. Len(s) \/ i = Len(s) + 1
    BY <1>2, <1>4, <1>5
  <2> QED BY <1>2, <1>3, <1>4, <1>5, <2>1 DEF s, m
<1>6. CASE c # Owner[r.op]
  BY <1>2, <1>6 DEF s
<1> QED BY <1>5, <1>6

\* What is called accepted was executed.
LEMMA AcceptedStep ==
  ASSUME Types, Types', AcceptedIsTrue, [Next]_vars PROVE AcceptedIsTrue'
<1> DEFINE InReceipts == \A op \in receipts : response[op] = "accepted" => WasExecuted(op)
           InResponses == \A c \in Client : \A i \in DOMAIN toClient[c] :
                            toClient[c][i].answer = "accepted" => WasExecuted(toClient[c][i].request.op)
<1>0. "accepted" \in Outcome /\ "failed" \in Outcome /\ \A o \in receipts : o \in Op
  BY DEF Types, Resumable, Outcome
<1>1. InReceipts /\ InResponses /\ AcceptedWasExecuted
  BY DEF AcceptedIsTrue
<1>2. \A o \in Op : WasExecuted(o) => WasExecuted(o)'
  BY ExecutedStays
<1>3. ASSUME NEW c \in Client, NEW i \in DOMAIN toClient[c] PROVE toClient[c][i].request.op \in Op
  <2>1. toClient[c][i].request \in AskedBy(toClient[c]) /\ AskedBy(toClient[c]) \subseteq OfBrowser(c)
    BY DEF Types, AskedBy
  <2> QED BY <2>1 DEF OfBrowser, Requests
<1>4. UNCHANGED <<receipts, response>> => InReceipts'
  BY <1>0, <1>1, <1>2
<1>5. UNCHANGED toClient => InResponses'
  BY <1>1, <1>2, <1>3
<1>6. UNCHANGED told => AcceptedWasExecuted'
  BY <1>1, <1>2 DEF AcceptedWasExecuted, WasExecuted
<1>7. ASSUME NEW r \in Requests, NEW answer \in Outcome, toClient' = Answered(r, answer),
             answer = "accepted" => WasExecuted(r.op)'
      PROVE  InResponses'
  <2>1. ASSUME NEW c \in Client, NEW i \in DOMAIN toClient'[c], toClient'[c][i].answer = "accepted",
               NEW o, o = toClient'[c][i].request.op
        PROVE  WasExecuted(o)'
    <3>1. CASE i \in DOMAIN toClient[c] /\ toClient'[c][i] = toClient[c][i]
      BY <1>1, <1>2, <1>3, <2>1, <3>1
    <3>2. CASE toClient'[c][i] = [request |-> r, answer |-> answer]
      BY <1>7, <2>1, <3>2
    <3> QED BY <1>7, <2>1, <3>1, <3>2, OneMoreResponse
  <2> QED BY <2>1 DEF WasExecuted
<1> HIDE DEF InReceipts, InResponses
<1>8. InReceipts' /\ InResponses' /\ AcceptedWasExecuted' => AcceptedIsTrue'
  BY DEF AcceptedIsTrue, InReceipts, InResponses
<1>9. ASSUME UNCHANGED <<receipts, response, toClient, told>> PROVE AcceptedIsTrue'
  BY <1>4, <1>5, <1>6, <1>8, <1>9
<1>10. ASSUME NEW r \in Requests, NEW answer \in Outcome, Responds(r, answer),
              answer = "accepted" => WasExecuted(r.op)'
       PROVE  InResponses'
  BY <1>5, <1>7, <1>10, ResponseGoes
<1>11. ASSUME NEW op \in Op, Accept(op) PROVE AcceptedIsTrue'
  <2>1. /\ response'[op] = "accepted" /\ \A o \in Op : o # op => response'[o] = response[o]
        /\ UNCHANGED receipts /\ executed'[op] = executed[op] + 1
    BY <1>11, RunsOf
  <2>2. WasExecuted(op)'
    <3>1. executed[op] \in Nat
      BY DEF Types
    <3> QED BY <2>1, <3>1 DEF WasExecuted
  <2>3. InReceipts'
    BY <1>0, <1>1, <1>2, <2>1, <2>2 DEF InReceipts
  <2>4. Responds(Request(op), "accepted") /\ UNCHANGED told
    BY <1>11 DEF Accept, browserVars
  <2>5. InResponses'
    BY <1>0, <1>10, <2>2, <2>4, RequestIs
  <2> QED BY <1>6, <1>8, <2>3, <2>4, <2>5
<1>12. ASSUME NEW op \in Op, Fail(op) PROVE AcceptedIsTrue'
  <2>1. /\ response'[op] = "failed" /\ \A o \in Op : o # op => response'[o] = response[o]
        /\ receipts' \subseteq receipts
    BY <1>12, RunsOf, PruneKeepsTheOrder
  <2>2. InReceipts'
    BY <1>0, <1>1, <1>2, <2>1 DEF InReceipts
  <2>3. Responds(Request(op), "failed") /\ UNCHANGED told
    BY <1>12 DEF Fail, browserVars
  <2>4. InResponses'
    BY <1>0, <1>10, <2>3, RequestIs
  <2> QED BY <1>6, <1>8, <2>2, <2>3, <2>4
<1>13. ASSUME NEW op \in Op, Settle(op) PROVE AcceptedIsTrue'
  <2>1. receipts' \subseteq receipts /\ UNCHANGED <<response, toClient, told>>
    <3>1. receipts' \subseteq receipts
      BY <1>13, RunsOf, PruneKeepsTheOrder
    <3> QED BY <1>13, <3>1 DEF Settle, browserVars, carrierVars
  <2>2. InReceipts'
    BY <1>0, <1>1, <1>2, <2>1 DEF InReceipts
  <2> QED BY <1>5, <1>6, <1>8, <2>1, <2>2
<1>14. ASSUME NEW r \in unrecorded, NEW answer \in Outcome, Answer(r, answer) PROVE AcceptedIsTrue'
  <2>1. r \in Requests /\ (answer = "accepted" => WasExecuted(r.op)')
    BY <1>14, AnswersBesides DEF WasExecuted
  <2>2. Responds(r, answer) /\ UNCHANGED <<receipts, response, told>>
    BY <1>14 DEF Answer, browserVars
  <2>3. InResponses'
    BY <1>10, <2>1, <2>2
  <2> QED BY <1>4, <1>6, <1>8, <2>2, <2>3
<1>15. ASSUME NEW op \in Op, NEW answer \in Outcome \cup {"timed out"}, Ends(op, answer),
              answer = "accepted" => WasExecuted(op)'
       PROVE  AcceptedWasExecuted'
  <2>1. \A o \in Op : o # op => told'[o] = told[o]
    BY <1>15, RequestEnds
  <2>2. told'[op] \in {told[op], answer}
    BY <1>15, RequestEnds
  <2> QED BY <1>1, <1>2, <1>15, <2>1, <2>2 DEF AcceptedWasExecuted, WasExecuted
<1>16. ASSUME NEW op \in Op, TimeOut(op) PROVE AcceptedIsTrue'
  <2>1. Ends(op, "timed out") /\ UNCHANGED <<receipts, response, toClient>>
    BY <1>16 DEF TimeOut, carrierVars, serverVars
  <2> QED BY <1>4, <1>5, <1>8, <1>15, <2>1
<1>17. ASSUME NEW c \in Client, ReceiveResponse(c) PROVE AcceptedIsTrue'
  <2>1. PICK r \in OfBrowser(c), answer \in Outcome :
          /\ r.op \in Op /\ Owner[r.op] = c
          /\ [request |-> r, answer |-> answer] = toClient[c][1] /\ 1 \in DOMAIN toClient[c]
          /\ r = Head(toClient[c]).request
          /\ toClient[c] # <<>> /\ toClient' = [toClient EXCEPT ![c] = Tail(@)]
          /\ \/ r.op \in pending /\ r = Request(r.op) /\ Ends(r.op, answer)
             \/ ~(r.op \in pending /\ r = Request(r.op)) /\ UNCHANGED <<pending, told, queue, failed>>
          /\ UNCHANGED <<connected, flushes, compacting, toServer, serverVars, historyVars>>
    BY <1>17, ResponseCases
  <2>2. answer = "accepted" => WasExecuted(r.op)'
    <3>1. toClient[c][1].answer = answer /\ toClient[c][1].request = r
      BY <2>1
    <3> QED BY <1>1, <1>2, <2>1, <3>1 DEF InResponses
  <2>3. AcceptedWasExecuted'
    BY <1>6, <1>15, <2>1, <2>2
  <2>4. /\ \A d \in Client : d # c => toClient'[d] = toClient[d]
        /\ \A i \in DOMAIN toClient'[c] :
             i + 1 \in DOMAIN toClient[c] /\ toClient'[c][i] = toClient[c][i + 1]
    BY <2>1, TakenResponse
  <2>5. InResponses'
    <3>1. ASSUME NEW d \in Client, NEW i \in DOMAIN toClient'[d], toClient'[d][i].answer = "accepted",
                 NEW o, o = toClient'[d][i].request.op
          PROVE  WasExecuted(o)'
      <4>1. PICK j \in DOMAIN toClient[d] : toClient'[d][i] = toClient[d][j]
        BY <2>4, <3>1
      <4> QED BY <1>1, <1>2, <1>3, <3>1, <4>1 DEF InResponses
    <3> QED BY <3>1 DEF WasExecuted, InResponses
  <2> QED BY <1>4, <1>8, <2>1, <2>3, <2>5 DEF serverVars
<1>18. ASSUME NEW lost \in SUBSET Client, Disconnected(lost), UNCHANGED flushes,
              UNCHANGED <<receipts, response>> \/ receipts' = {}
       PROVE  AcceptedIsTrue'
  <2>1. told' = told
    BY <1>18, DisconnectedTypes
  <2>2. /\ \A d \in Client : d \in lost => toClient'[d] = <<>>
        /\ \A d \in Client : d \notin lost => toClient'[d] = toClient[d]
    BY <1>18, CarrierLost
  <2>3. InResponses'
    BY <1>1, <1>2, <1>3, <2>2 DEF InResponses
  <2>4. InReceipts'
    BY <1>4, <1>18 DEF InReceipts
  <2> QED BY <1>6, <1>8, <2>1, <2>3, <2>4
<1>19. ASSUME NEW c \in Client, Disconnect(c) PROVE AcceptedIsTrue'
  <2>1. {c} \in SUBSET Client /\ Disconnected({c}) /\ UNCHANGED <<flushes, receipts, response>>
    BY <1>19 DEF Disconnect
  <2> QED BY <1>18, <2>1
<1>20. CASE Restart
  <2>1. Client \in SUBSET Client /\ Disconnected(Client) /\ UNCHANGED flushes /\ receipts' = {}
    BY <1>20 DEF Restart
  <2> QED BY <1>18, <2>1
<1>21. ASSUME NEW c \in Client, Receive(c) PROVE AcceptedIsTrue'
  <2>1. PICK r \in OfBrowser(c) : \E op \in Op :
          /\ r.op = op /\ UNCHANGED told
          /\ \/ /\ op \in receipts /\ response[op] \in Outcome /\ toClient' = Answered(r, response[op])
                /\ UNCHANGED <<receipts, response>>
             \/ /\ toClient' = Answered(r, "failed")
                /\ UNCHANGED <<receipts, response>>
             \/ /\ op \in Resumable
                /\ receipts' = receipts \cup {op}
                /\ response' = [response EXCEPT ![op] = "open"]
                /\ UNCHANGED toClient
             \/ UNCHANGED <<toClient, receipts, response>>
    BY <1>21, ReceiveCases DEF browserVars
  <2>2. r \in Requests /\ r.op \in Op
    BY DEF OfBrowser, Requests
  <2>3. CASE /\ r.op \in receipts /\ response[r.op] \in Outcome /\ toClient' = Answered(r, response[r.op])
             /\ UNCHANGED <<receipts, response>>
    <3>1. response[r.op] = "accepted" => WasExecuted(r.op)'
      BY <1>1, <1>2, <2>2, <2>3 DEF InReceipts
    <3> QED BY <1>4, <1>6, <1>7, <1>8, <2>1, <2>2, <2>3, <3>1
  <2>4. CASE toClient' = Answered(r, "failed") /\ UNCHANGED <<receipts, response>>
    BY <1>0, <1>4, <1>6, <1>7, <1>8, <2>1, <2>2, <2>4
  <2>5. CASE /\ receipts' = receipts \cup {r.op}
             /\ response' = [response EXCEPT ![r.op] = "open"]
             /\ UNCHANGED toClient
    <3>1. \A o \in Op : response'[o] = IF o = r.op THEN "open" ELSE response[o]
      BY <2>2, <2>5 DEF Types
    <3>2. InReceipts'
      BY <1>0, <1>1, <1>2, <2>2, <2>5, <3>1 DEF InReceipts
    <3> QED BY <1>5, <1>6, <1>8, <2>1, <2>5, <3>2
  <2>6. CASE UNCHANGED <<toClient, receipts, response>>
    BY <1>9, <2>1, <2>6
  <2> QED BY <2>1, <2>3, <2>4, <2>5, <2>6
<1>22. ASSUME NEW op \in Op, Submit(op) \/ QueuePrompt(op)
       PROVE  UNCHANGED <<receipts, response, toClient, told>>
  BY <1>22 DEF Submit, QueuePrompt, carrierVars, serverVars
<1>23. ASSUME NEW c \in Client, StartCompaction(c) \/ CompactionEnds(c) \/ Reconnect(c)
       PROVE  UNCHANGED <<receipts, response, toClient, told>>
  BY <1>23 DEF StartCompaction, CompactionEnds, Reconnect, carrierVars, serverVars
<1>24. UNCHANGED vars => UNCHANGED <<receipts, response, toClient, told>>
  BY DEF vars, browserVars, carrierVars, serverVars
<1> QED BY <1>9, <1>11, <1>12, <1>13, <1>14, <1>16, <1>17, <1>19, <1>20, <1>21, <1>22, <1>23, <1>24
     DEF Next

-------------------------------------------------------------------------------
(* The theorems *)

LEMMA Initial == Init => IInv
<1> SUFFICES ASSUME Init PROVE IInv
  OBVIOUS
<1>1. /\ \A S : <<>> \in Seq(S)
      /\ ToSet(<<>>) = {} /\ AskedBy(<<>>) = {} /\ FramesOnce(<<>>) /\ AnswersOnce(<<>>)
      /\ DOMAIN <<>> = {}
  BY EmptySeq DEF ToSet, AskedBy, FramesOnce, AnswersOnce
<1>2. /\ \A c \in Client : toServer[c] = <<>> /\ toClient[c] = <<>>
      /\ \A o \in Resumable : o \in Op /\ Owner[o] \in Client
  BY DEF Init, Resumable, ConstantsAssumption
<1>3. Types
  <2>1. /\ toServer \in [Client -> Seq(Requests)] /\ toClient \in [Client -> Seq(Response)]
        /\ \A c \in Client : /\ ToSet(toServer[c]) \subseteq OfBrowser(c)
                             /\ AskedBy(toClient[c]) \subseteq OfBrowser(c)
    BY <1>1 DEF Init
  <2> QED BY <1>2, <2>1 DEF Init, Types
<1>4. RunsAreRecorded
  BY <1>2 DEF Init, RunsAreRecorded
<1>5. ReceiptsInOrder /\ WindowIsSpent
  BY <1>2 DEF Init, ReceiptsInOrder, WindowIsSpent
<1>6. LostIsEmpty
  BY DEF Init, LostIsEmpty
<1>7. AskedOnce
  <2>1. FramesAreOnce /\ AnswersAreOnce
    BY <1>1, <1>2 DEF FramesAreOnce, AnswersAreOnce
  <2>2. ASSUME NEW o \in Resumable PROVE AskedOf(o)
    <3>1. ~InFrame(o) /\ ~IsAnswered(o) /\ ~IsAwaited(o) /\ starting[o] = 0 /\ o \notin pending
      BY <1>1, <1>2 DEF InFrame, IsAnswered, IsAwaited, Init
    <3> QED BY <3>1 DEF AskedOf
  <2> QED BY <2>1, <2>2 DEF AskedOnce
<1>8. AnswerIsOnTheWay
  BY DEF AnswerIsOnTheWay, DueOf, Init
<1>9. AcceptedIsTrue
  <2>1. AcceptedWasExecuted
    BY DEF Init, AcceptedWasExecuted
  <2> QED BY <1>1, <1>2, <2>1 DEF AcceptedIsTrue, Init
<1> QED BY <1>3, <1>4, <1>5, <1>6, <1>7, <1>8, <1>9 DEF IInv

LEMMA Inductive == IInv /\ [Next]_vars => IInv'
BY TypeStep, RunsStep, OrderStep, WindowStep, LostStep, AskedStep, DueStep, AcceptedStep DEF IInv

LEMMA Invariant == Spec => []IInv
BY Initial, Inductive, PTL DEF Spec

\* The maps and the queues are well formed in every reachable state, for any set
\* of operations and whatever is lost (WsAgentAdapter, WsHandler.controlOperations).
THEOREM ReceiptsTypeCorrect == Spec => []TypeOK
<1>1. ASSUME Types PROVE TypeOK
  <2>1. ASSUME NEW c \in Client, NEW i \in DOMAIN toServer[c] PROVE toServer[c][i].op \in OfClient(c)
    <3>1. toServer[c][i] \in ToSet(toServer[c]) /\ ToSet(toServer[c]) \subseteq OfBrowser(c)
      BY <1>1, <2>1 DEF Types, ToSet
    <3> QED BY <3>1 DEF OfBrowser, OfClient, Requests
  <2>2. ASSUME NEW c \in Client, NEW i \in DOMAIN toClient[c]
        PROVE  toClient[c][i].request.op \in OfClient(c) /\ toClient[c][i].answer \in Outcome
    <3>1. toClient[c] \in Seq(Response)
      BY <1>1 DEF Types
    <3>2. toClient[c][i] \in Response
      BY <3>1, <2>2, ElementOfSeq, LenProperties
    <3>3. toClient[c][i].request \in OfBrowser(c)
      BY <1>1, <2>2 DEF Types, AskedBy
    <3> QED BY <3>2, <3>3 DEF Response, OfBrowser, OfClient, Requests
  <2>3. waiting \cup unrecorded \subseteq [op : Op, id : Nat]
    BY <1>1 DEF Types, Requests
  <2>4. {starting, turns, executed, flushes} \subseteq [Op -> Nat]
    BY <1>1 DEF Types
  <2>5. /\ receipts \subseteq Op \ Deferred /\ settled \subseteq receipts
        /\ older \in [Op -> SUBSET receipts] /\ response \in [Op -> Outcome \cup {"open"}]
    BY <1>1 DEF Types, Resumable
  <2>6. /\ connected \in [Client -> BOOLEAN] /\ compacting \in [Client -> BOOLEAN]
        /\ pending \subseteq Op /\ queue \subseteq Deferred /\ failed \subseteq Deferred
        /\ told \in [Op -> Outcome \cup {"timed out", "nothing"}]
    BY <1>1 DEF Types
  <2> QED BY <2>1, <2>2, <2>3, <2>4, <2>5, <2>6 DEF TypeOK
<1> QED BY <1>1, Invariant, PTL DEF IInv

\* A start of a resumable operation is that of a frame without receipt.
LEMMA StartedStep ==
  ASSUME IInv, [Next]_vars, NEW op \in Resumable, starting'[op] > starting[op], executed[op] > 0
  PROVE  Cardinality(met[op]) >= MaxCompleted
<1>1. Types /\ op \in Op /\ starting[op] \in Nat
  BY DEF IInv, Types, Resumable
<1>2. ASSUME op \notin receipts PROVE Cardinality(met[op]) >= MaxCompleted
  BY <1>2 DEF IInv, WindowIsSpent
<1>3. ASSUME NEW o \in Op, Accept(o) \/ Fail(o) \/ Settle(o) PROVE FALSE
  <2>1. starting[o] \in Nat /\ starting'[o] <= starting[o] /\ (op # o => starting'[op] = starting[op])
    <3>1. starting[o] \in Nat
      BY <1>1 DEF Types
    <3> QED BY <1>1, <1>3, <3>1, RunsOf
  <2>2. starting'[op] \in Nat
    BY <1>1, Inductive DEF IInv, Types
  <2> QED BY <1>1, <2>1, <2>2
<1>4. ASSUME NEW c \in Client, Receive(c) PROVE op \notin receipts
  <2>1. PICK o \in Op :
          \/ UNCHANGED starting
          \/ o \notin receipts /\ starting' = [starting EXCEPT ![o] = @ + 1]
    BY <1>1, <1>4, ReceiveCases
  <2>2. op # o => starting'[op] = starting[op]
    BY <1>1, <2>1 DEF Types
  <2> QED BY <1>1, <2>1, <2>2
<1>5. CASE Restart
  BY <1>1, <1>5 DEF Restart
<1>6. ASSUME NEW r \in unrecorded, NEW answer \in Outcome, Answer(r, answer) PROVE UNCHANGED starting
  BY <1>6 DEF Answer
<1>7. UNCHANGED vars \/ UNCHANGED Beyond => UNCHANGED starting
  BY DEF vars, serverVars, Beyond, Recorded
<1> QED BY <1>1, <1>2, <1>3, <1>4, <1>5, <1>6, <1>7, BeyondTheServer DEF Next

\* However often its frame is sent, an operation never runs twice at a time, and is
\* started again only when MaxCompleted others were active at its receipt or got one
\* since (WsHandler.runIdempotentControl, pruneControlOperations).
THEOREM ReceiptsWork == Spec => ExecutedOnceAtATime
<1>1. ASSUME IInv PROVE OneAtATime
  BY <1>1 DEF IInv, RunsAreRecorded, OneAtATime
<1>2. IInv /\ [Next]_vars =>
        [\A op \in Resumable :
           starting'[op] > starting[op] /\ executed[op] > 0 => Cardinality(met[op]) >= MaxCompleted]_vars
  BY StartedStep
<1> QED BY <1>1, <1>2, Invariant, PTL DEF Spec, ExecutedOnceAtATime, StartedOnceInWindow

\* A connected browser never waits for an answer that cannot come
\* (WsAgentAdapter.onReconnected, WsHandler.runIdempotentControl).
THEOREM AnswersAreDue == Spec => []AnswerIsDue
<1>1. ASSUME Types, AnswerIsOnTheWay PROVE AnswerIsDue
  <2>1. SUFFICES ASSUME NEW op \in pending, connected[Owner[op]]
                 PROVE  \/ Request(op) \in ToSet(toServer[Owner[op]])
                        \/ Executing(op) \/ Responded(op)
    BY DEF AnswerIsDue
  <2>2. op \in Op
    BY <1>1 DEF Types
  <2>3. InFrame(op) \/ Executing(op) \/ IsAnswered(op)
    BY <1>1, <2>1, <2>2 DEF AnswerIsOnTheWay, DueOf
  <2>4. IsAnswered(op) => Responded(op)
    BY DEF IsAnswered, Responded, AskedBy
  <2> QED BY <2>3, <2>4 DEF InFrame
<1> QED BY <1>1, Invariant, PTL DEF IInv

\* A step executes what may be open, and nothing else.
LEMMA FailedStep ==
  ASSUME IInv, [Next]_vars, NEW op \in Resumable, told[op] = "failed"
  PROVE  executed'[op] <= executed[op]
<1>1. Types /\ op \in Op /\ executed[op] \in Nat /\ starting[op] = 0
  <2>1. Types /\ op \in Op /\ starting[op] \in Nat /\ executed[op] \in Nat
    BY DEF IInv, Types, Resumable
  <2>2. AskedOf(op)
    BY DEF IInv, AskedOnce
  <2>3. ~IsOpen(op)
    BY <2>2 DEF AskedOf, IsOpen
  <2> QED BY <2>1, <2>2, <2>3 DEF AskedOf
<1>2. CASE UNCHANGED executed
  BY <1>1, <1>2
<1>3. ASSUME NEW o \in Op, Accept(o) PROVE executed'[op] <= executed[op]
  <2>1. o # op
    BY <1>1, <1>3 DEF Accept
  <2>2. executed'[op] = executed[op]
    BY <1>1, <1>3, <2>1, RunsOf
  <2> QED BY <1>1, <2>2
<1>4. ASSUME NEW o \in Op, Fail(o) \/ Settle(o) PROVE UNCHANGED executed
  BY <1>1, <1>4, RunsOf
<1>5. ASSUME NEW r \in unrecorded, NEW answer \in Outcome, Answer(r, answer)
      PROVE  executed'[op] <= executed[op]
  BY <1>1, <1>5, AnswersBesides
<1>6. CASE Restart
  BY <1>1, <1>6 DEF Restart
<1>7. ASSUME NEW c \in Client, Receive(c) PROVE UNCHANGED executed
  BY <1>7 DEF Receive
<1>8. UNCHANGED vars \/ UNCHANGED Beyond => UNCHANGED executed
  BY DEF vars, historyVars, Beyond
<1> QED BY <1>2, <1>3, <1>4, <1>5, <1>6, <1>7, <1>8, BeyondTheServer DEF Next

\* A deferred prompt is held until the response that accepts it.
LEMMA DeferredStep ==
  ASSUME Types, [Next]_vars, NEW op \in Deferred, op \in Held
  PROVE  op \in Held' \/ told'[op] = "accepted"
<1>1. op \in Op /\ op \notin Resumable
  BY DEF ConstantsAssumption, Resumable
<1>2. CASE UNCHANGED <<queue, pending, failed>>
  BY <1>2 DEF Held
<1>3. ASSUME NEW o \in Op, Submit(o) \/ QueuePrompt(o) PROVE op \in Held'
  BY <1>3 DEF Submit, QueuePrompt, Held
<1>4. ASSUME NEW c \in Client, CompactionEnds(c) PROVE op \in Held'
  BY <1>4 DEF CompactionEnds, Held
<1>5. ASSUME NEW o \in Op, NEW answer \in Outcome \cup {"timed out"}, Ends(o, answer)
      PROVE  op \in Held' \/ told'[op] = "accepted"
  <2>1. /\ pending' = pending \ {o} /\ queue \cup failed \subseteq queue' \cup failed'
        /\ answer = "accepted" => told'[o] = answer
        /\ o \in Deferred /\ answer # "accepted" => o \in queue' \cup failed'
    BY <1>5, RequestEnds
  <2> QED BY <2>1 DEF Held
<1>6. ASSUME NEW o \in Op, TimeOut(o) PROVE op \in Held' \/ told'[op] = "accepted"
  BY <1>5, <1>6 DEF TimeOut
<1>7. ASSUME NEW c \in Client, ReceiveResponse(c) PROVE op \in Held' \/ told'[op] = "accepted"
  <2>1. PICK r \in OfBrowser(c), answer \in Outcome :
          r.op \in Op /\ (Ends(r.op, answer) \/ UNCHANGED <<pending, told, queue, failed>>)
    BY <1>7, ResponseCases
  <2> QED BY <1>2, <1>5, <2>1
<1>8. ASSUME NEW lost \in SUBSET Client, Disconnected(lost) PROVE op \in Held'
  BY <1>1, <1>8 DEF Disconnected, Held
<1>9. ASSUME NEW c \in Client, Disconnect(c) PROVE op \in Held'
  BY <1>8, <1>9 DEF Disconnect
<1>10. CASE Restart
  BY <1>8, <1>10 DEF Restart
<1>11. ASSUME NEW o \in Op, Accept(o) \/ Fail(o) \/ Settle(o) PROVE UNCHANGED <<queue, pending, failed>>
  BY <1>11 DEF Accept, Fail, Settle, browserVars
<1>12. ASSUME NEW r \in unrecorded, NEW answer \in Outcome, Answer(r, answer)
       PROVE  UNCHANGED <<queue, pending, failed>>
  BY <1>12 DEF Answer, browserVars
<1>13. ASSUME NEW c \in Client, StartCompaction(c) \/ Reconnect(c) \/ Receive(c)
       PROVE  UNCHANGED <<queue, pending, failed>>
  BY <1>13 DEF StartCompaction, Reconnect, Receive, browserVars
<1>14. UNCHANGED vars => UNCHANGED <<queue, pending, failed>>
  BY DEF vars, browserVars
<1> QED BY <1>2, <1>3, <1>4, <1>6, <1>7, <1>9, <1>10, <1>11, <1>12, <1>13, <1>14 DEF Next

\* What the browser says of a prompt is true: what the server accepted was executed,
\* what failed is not executed later, and a prompt that waits for the end of a
\* compaction stays until it was accepted.  Of what timed out it says nothing
\* (handleMessage, handleTransportDisconnected, flushCompactionQueue).
THEOREM WhatIsToldIsTrue == Spec => ToldIsTrue
<1>1. IInv /\ [Next]_vars =>
        [\A op \in Resumable : told[op] = "failed" => executed'[op] <= executed[op]]_vars
  BY FailedStep
<1>2. IInv /\ [Next]_vars =>
        [\A op \in Deferred : op \in Held => op \in Held' \/ told'[op] = "accepted"]_vars
  BY DeferredStep DEF IInv
<1>3. IInv => AcceptedWasExecuted
  BY DEF IInv, AcceptedIsTrue
<1> QED BY <1>1, <1>2, <1>3, Invariant, PTL DEF Spec, ToldIsTrue, FailedStaysUnrun, DeferredIsKept

===============================================================================
