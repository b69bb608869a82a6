-------------------------- MODULE SessionRuntime_proofs --------------------------
(***************************************************************************)
(* The invariants of a session for any number of requests and processes:   *)
(* the actor, its handlers and the pool agree on who owns which process,   *)
(* exclusive commands run alone, and accepted prompts never fail.          *)
(***************************************************************************)
EXTENDS SessionRuntime, FiniteSetTheorems, SequenceTheorems, TLAPS

-------------------------------------------------------------------------------
(* Where a request is *)

Places == {"idle", "acquiring", "creating", "queued", "probing", "waiting", "deaf",
           "settling", "caught", "failing", "done"}

\* The tasks of handlers; the others are events of the process.
Handlers == {"start", "settle", "fail"} \cup Commands
TaskType ==
  [do : Handlers \cup Events \cup {"exit"}, by : Req \cup Proc, msg : Req \cup Proc \cup {NoReq}]

Place(d) == IF d = "settle" THEN "settling" ELSE IF d = "fail" THEN "failing" ELSE "queued"

StepsOf(d) ==
  CASE d = "start" ->
         {"acquire", "switch", "control", "prompt", "probe", "reconcile", "steer"}
    [] d = "settle" -> {"reconcile"}
    [] d = "compact" -> {"acquire", "switch", "rpc"}
    [] d = "stats" -> {"acquire", "switch", "rpc", "peek"}
    [] d = "steer" -> {"steer"}
    [] d = "abort" -> {"abort"}
    [] OTHER -> {}

TaskFits(t) ==
  /\ t.do \in Handlers =>
       /\ t.by \in Req /\ at[t.by] = Place(t.do)
       /\ t.do \in Commands \cup {"start"} => t.do = FirstTask(kind[t.by])
  /\ t.do \in Events => t.by \in Req
  /\ t.do = "exit" => t.by \in Proc /\ life[t.by] = "dead"

TasksFit(m) == \A i \in 1 .. Len(m) : TaskFits(m[i])

TasksOnce(m) ==
  \A i, j \in 1 .. Len(m) :
    /\ m[i].do \in Handlers /\ m[j].do \in Handlers
    /\ m[i].by = m[j].by
    => i = j

\* Every task is there for what its request or process has come to, and only
\* the task of a handler is ever suspended.
MailInv ==
  /\ at \in [Req -> Places]
  /\ mailbox \in Seq(TaskType)
  /\ TasksFit(mailbox) /\ TasksOnce(mailbox)
  /\ step # "begin" => mailbox # <<>> /\ step \in StepsOf(Head(mailbox).do)

\* Where the code of a request is: the step of its task, if that has begun.
Pos(r) ==
  IF step = "begin" \/ Head(mailbox).by # r THEN at[r]
  ELSE IF Head(mailbox).do = "settle" THEN "ending" ELSE step

pos == [r \in Req |-> Pos(r)]

\* The settlement of the request's turn is known, or on its way to the actor.
AnnouncedIn(m) ==
  {r \in Req : \E i \in 1 .. Len(m) : m[i].do = "agent_settled" /\ m[i].by = r}
Announced == AnnouncedIn(mailbox)
over == settled \cup Announced

-------------------------------------------------------------------------------
(* What holds of a request at each place *)

Starting == {"control", "prompt", "probe", "reconcile"}
Turning  == {"probing", "waiting", "deaf", "settling", "ending"}
Failing  == {"caught", "failing"}
Inside   == Starting \cup {"acquire", "switch", "ending", "steer", "rpc", "peek", "abort"}

\* Only the kinds that can be there are.
KindFits(r, s) ==
  /\ s \in {"acquiring", "creating"} => kind[r] = "new"
  /\ s \in Starting \cup Turning \cup Failing => kind[r] \in Prompts
  /\ s \in {"probing", "deaf"} => kind[r] = "fork"
  /\ s = "probe" => kind[r] # "fork"
  /\ s \in {"acquire", "switch"} => kind[r] \in {"prompt", "fork", "compact", "stats"}
  /\ s = "rpc" => kind[r] \in {"compact", "stats"}
  /\ s = "peek" => kind[r] = "stats"
  /\ s = "steer" => kind[r] \in {"prompt", "steer"}
  /\ s = "abort" => kind[r] = "abort"

\* The segments between the awaits of a task find the actor as they left it.
PhaseFits(r, s) ==
  /\ s \in {"acquire", "switch"} => phase = "detached"
  /\ s = "rpc" => phase = "ready" /\ lease = r
  /\ s \in Starting => phase = "starting" /\ lease = r
  /\ s = "ending" => IsTurnActive /\ lease = r
  /\ s \in {"steer", "abort", "peek"} => IsTurnActive
  /\ phase = "ready" /\ lease = r => s = "rpc"
  /\ lease = r => got[r] \in Proc /\ s # "done"

\* A turn begins once and when there is a process.
TurnFits(r, s) ==
  /\ gen[r] > 0 =>
       /\ kind[r] \in Prompts
       /\ got[r] \in Proc
       /\ s \in Starting \cup Turning \cup Failing \cup {"done"}
  /\ s \in Starting \cup Turning => gen[r] > 0
  /\ s \in {"creating", "switch", "rpc", "failing"} => got[r] \in Proc
  /\ s = "queued" /\ kind[r] = "new" => got[r] \in Proc
  /\ got[r] \in Proc =>
       /\ s \notin {"idle", "acquiring", "acquire", "steer", "peek", "abort"}
       /\ s = "queued" => kind[r] = "new"

\* The handler has a process that it or the actor will give back.
Keeps(r, s) ==
  /\ got[r] \in Proc
  /\ s # "done"
  /\ s = "caught" /\ kind[r] = "prompt" => gen[r] > 0

Gone(p) == p \in doomed \/ life[p] = "dead"

\* Its lease is registered until the process is given up.
Held(r, s) == Keeps(r, s) => holder[got[r]] = r \/ Gone(got[r])

\* Leases of handlers that the actor does not have.
Unattached(r, s) ==
  \/ s \in {"creating", "switch"}
  \/ s = "queued" /\ kind[r] = "new"
  \/ s = "caught" /\ kind[r] \in Creators

Accounted(r, s) ==
  \A p \in Proc : holder[p] = r => got[r] = p /\ (lease = r \/ Unattached(r, s))

\* Before its prompt is sent nothing runs on the process of a request.
Fresh(r, s) == gen[r] = 0 \/ s \in {"control", "prompt"}

Quiet(r, s) ==
  /\ Fresh(r, s) =>
       /\ r \notin over
       /\ Keeps(r, s) => turn[got[r]] = NoReq

\* Where a turn is known not to run.
Ended(r, s) ==
  \/ Fresh(r, s)
  \/ r \in over
  \/ s \in {"settling", "ending"}
  \/ s = "reconcile" /\ kind[r] # "fork" /\ r \notin streaming

\* A turn does not survive its request, except on a process that is given up.
TurnEnds(r, s) ==
  \A p \in Proc : turn[p] = r =>
    /\ got[r] = p /\ ~Ended(r, s)
    /\ s \in Failing \cup {"done"} => p \in doomed

\* Nobody else can name a new session whose first turn has not begun.
Unknown(r) ==
  kind[r] = "new" /\ gen[r] = 0 =>
    /\ status = "hidden" /\ phase = "detached"
    /\ \A q \in Req \ {r} : pos[q] = "idle"

AnswerFits(r, s) ==
  /\ s \in {"idle", "acquiring", "creating", "queued", "acquire", "switch", "control",
            "prompt", "probe"} => answer[r] = "none"
  /\ r \in accepted => answer[r] = "ok" \/ s = "probe"

Fits(r, s) ==
  /\ KindFits(r, s) /\ PhaseFits(r, s) /\ TurnFits(r, s)
  /\ Held(r, s) /\ Accounted(r, s)
  /\ Quiet(r, s) /\ TurnEnds(r, s)
  /\ Unknown(r) /\ AnswerFits(r, s)

-------------------------------------------------------------------------------
(* The inductive invariant *)

RequestsFit == \A r \in Req : Fits(r, pos[r])

\* No process is kept by two requests.
KeptOnce ==
  \A q, r \in Req : Keeps(q, pos[q]) /\ Keeps(r, pos[r]) /\ got[q] = got[r] => q = r

PhasesFit ==
  /\ phase = "detached" <=> lease = NoReq
  /\ phase = "detached" => steering = {}
  /\ IsTurnActive => gen[lease] = generation /\ generation > 0

TurnsCounted ==
  /\ generation = Cardinality({r \in Req : gen[r] > 0})
  /\ \A q, r \in Req : gen[q] = gen[r] /\ gen[r] > 0 => q = r

ProcessesFit ==
  \A p \in Proc :
    /\ p \in doomed /\ holder[p] = NoReq => life[p] # "up"
    /\ life[p] = "dead" => holder[p] = NoReq /\ turn[p] = NoReq
    /\ turn[p] # NoReq => p \in doomed \/ (turn[p] = lease /\ IsTurnActive)

\* The actor, its requests and the pool agree about leases and turns.
Book == RequestsFit /\ KeptOnce /\ PhasesFit /\ TurnsCounted /\ ProcessesFit

OneCreator == \A q, r \in Req : kind[q] \in Creators /\ kind[r] \in Creators => q = r

SessionInv == TypeOK /\ MailInv /\ OneCreator /\ Book

-------------------------------------------------------------------------------
(* The mailbox *)

\* What a request asks for stays, and so does an exit.
Continues == kind' = kind /\ \A p \in Proc : life[p] = "dead" => life'[p] = "dead"

\* The tasks behind the first one.
LEMMA TailTasks ==
  ASSUME NEW m \in Seq(TaskType), m # <<>>
  PROVE  /\ Head(m) \in TaskType /\ Head(m) = m[1]
         /\ Len(m) \in Nat /\ 1 \in 1 .. Len(m)
         /\ Tail(m) \in Seq(TaskType)
         /\ Len(Tail(m)) \in Nat
         /\ \A i \in 1 .. Len(Tail(m)) :
              /\ i \in Nat /\ i + 1 \in 1 .. Len(m) /\ i + 1 # 1
              /\ Tail(m)[i] = m[i + 1]
<1>1. /\ Head(m) \in TaskType /\ Tail(m) \in Seq(TaskType)
      /\ Head(m) = m[1]
      /\ Len(Tail(m)) = Len(m) - 1
      /\ \A i \in 1 .. Len(Tail(m)) : Tail(m)[i] = m[i + 1]
  BY HeadTailProperties
<1>2. Len(m) \in Nat /\ Len(m) # 0
  BY LenProperties, EmptySeq
<1> QED BY <1>1, <1>2

\* The first task leaves others that were behind it.
LEMMA TailKeeps ==
  ASSUME NEW m \in Seq(TaskType), m # <<>>, TasksOnce(m)
  PROVE  /\ TasksOnce(Tail(m)) /\ AnnouncedIn(Tail(m)) \subseteq AnnouncedIn(m)
         /\ Head(m).do \in Handlers =>
              \A i \in 1 .. Len(Tail(m)) :
                Tail(m)[i].do \in Handlers => Tail(m)[i].by # Head(m).by
<1>1. PICK t : t = Tail(m)
  OBVIOUS
<1>2. /\ Head(m) = m[1] /\ 1 \in 1 .. Len(m)
      /\ \A i \in 1 .. Len(t) :
           i \in Nat /\ i + 1 \in 1 .. Len(m) /\ i + 1 # 1 /\ t[i] = m[i + 1]
  BY <1>1, TailTasks
<1>3. TasksOnce(t)
  <2> SUFFICES ASSUME NEW i \in 1 .. Len(t), NEW j \in 1 .. Len(t),
                      t[i].do \in Handlers, t[j].do \in Handlers, t[i].by = t[j].by
               PROVE  i = j
    BY DEF TasksOnce
  <2>1. i + 1 = j + 1
    BY <1>2 DEF TasksOnce
  <2> QED BY <2>1, <1>2
<1>4. AnnouncedIn(t) \subseteq AnnouncedIn(m)
  BY <1>2 DEF AnnouncedIn
<1>5. ASSUME Head(m).do \in Handlers, NEW i \in 1 .. Len(t), t[i].do \in Handlers
      PROVE  t[i].by # Head(m).by
  BY <1>2, <1>5 DEF TasksOnce
<1> QED BY <1>1, <1>3, <1>4, <1>5

\* One more task.
LEMMA AppendKeeps ==
  ASSUME NEW m \in Seq(TaskType), NEW t \in TaskType, TasksOnce(m),
         t.do \in Handlers =>
           \A i \in 1 .. Len(m) : m[i].do \in Handlers => m[i].by # t.by
  PROVE  /\ Append(m, t) \in Seq(TaskType) /\ TasksOnce(Append(m, t))
         /\ Append(m, t) # <<>>
         /\ m # <<>> => Head(Append(m, t)) = Head(m)
         /\ m = <<>> => Head(Append(m, t)) = t
         /\ Len(Append(m, t)) = Len(m) + 1
         /\ \A i \in 1 .. Len(m) + 1 :
              Append(m, t)[i] = IF i = Len(m) + 1 THEN t ELSE m[i]
         /\ Len(m) \in Nat
         /\ AnnouncedIn(Append(m, t)) = AnnouncedIn(m) \cup
              (IF t.do = "agent_settled" /\ t.by \in Req THEN {t.by} ELSE {})
<1>1. PICK a : a = Append(m, t)
  OBVIOUS
<1>2. /\ a \in Seq(TaskType) /\ Len(a) = Len(m) + 1 /\ Len(m) \in Nat
      /\ \A i \in 1 .. Len(m) : a[i] = m[i]
      /\ a[Len(m) + 1] = t
  BY <1>1, AppendProperties, LenProperties
<1>3. \A i \in 1 .. Len(m) + 1 : a[i] = IF i = Len(m) + 1 THEN t ELSE m[i]
  BY <1>2
<1>4. a # <<>> /\ Head(a) = a[1]
  BY <1>2, EmptySeq, HeadTailProperties
<1>5. (m # <<>> => Head(a) = Head(m)) /\ (m = <<>> => Head(a) = t)
  <2>1. CASE m = <<>>
    BY <2>1, <1>2, <1>4, EmptySeq
  <2>2. CASE m # <<>>
    BY <2>2, <1>2, <1>4, TailTasks
  <2> QED BY <2>1, <2>2
<1>6. TasksOnce(a)
  <2> SUFFICES ASSUME NEW i \in 1 .. Len(m) + 1, NEW j \in 1 .. Len(m) + 1,
                      a[i].do \in Handlers, a[j].do \in Handlers, a[i].by = a[j].by
               PROVE  i = j
    BY <1>2 DEF TasksOnce
  <2>1. CASE i = Len(m) + 1 /\ j # Len(m) + 1
    <3>1. j \in 1 .. Len(m)
      BY <2>1, <1>2
    <3> QED BY <2>1, <3>1, <1>3
  <2>2. CASE j = Len(m) + 1 /\ i # Len(m) + 1
    <3>1. i \in 1 .. Len(m)
      BY <2>2, <1>2
    <3> QED BY <2>2, <3>1, <1>3
  <2>3. CASE i # Len(m) + 1 /\ j # Len(m) + 1
    <3>1. i \in 1 .. Len(m) /\ j \in 1 .. Len(m)
      BY <2>3, <1>2
    <3> QED BY <2>3, <3>1, <1>3 DEF TasksOnce
  <2> QED BY <2>1, <2>2, <2>3
<1>7. AnnouncedIn(a) = AnnouncedIn(m) \cup
        (IF t.do = "agent_settled" /\ t.by \in Req THEN {t.by} ELSE {})
  <2>1. AnnouncedIn(m) \subseteq AnnouncedIn(a)
    BY <1>2 DEF AnnouncedIn
  <2>2. t.do = "agent_settled" /\ t.by \in Req => t.by \in AnnouncedIn(a)
    <3>1. Len(m) + 1 \in 1 .. Len(a)
      BY <1>2
    <3> QED BY <3>1, <1>2 DEF AnnouncedIn
  <2>3. ASSUME NEW r \in Req, NEW i \in 1 .. Len(a), a[i].do = "agent_settled", a[i].by = r
        PROVE  r \in AnnouncedIn(m) \/ (t.do = "agent_settled" /\ t.by = r)
    <3>1. CASE i = Len(m) + 1
      BY <3>1, <2>3, <1>2
    <3>2. CASE i # Len(m) + 1
      <4>1. i \in 1 .. Len(m)
        BY <3>2, <1>2
      <4> QED BY <4>1, <2>3, <1>2 DEF AnnouncedIn
    <3> QED BY <3>1, <3>2
  <2> QED BY <2>1, <2>2, <2>3 DEF AnnouncedIn
<1> QED BY <1>1, <1>2, <1>3, <1>4, <1>5, <1>6, <1>7

\* A position is a place or a step.
LEMMA PosType ==
  ASSUME MailInv
  PROVE  pos \in [Req -> Places \cup Inside]
<1> SUFFICES ASSUME NEW r \in Req PROVE Pos(r) \in Places \cup Inside
  BY DEF pos
<1>1. CASE step = "begin"
  BY <1>1 DEF Pos, MailInv
<1>2. CASE step # "begin"
  BY <1>2 DEF Pos, MailInv, StepsOf, Inside, Starting
<1> QED BY <1>1, <1>2

\* Where a task is, and that nothing else has begun.
LEMMA AtPos ==
  ASSUME MailInv, NEW d \in Handlers, NEW r \in Req, NEW s, At(d, r, s)
  PROVE  /\ mailbox # <<>> /\ Head(mailbox) \in TaskType
         /\ at[r] = Place(d)
         /\ d \in Commands \cup {"start"} => d = FirstTask(kind[r])
         /\ pos[r] = IF s = "begin" THEN Place(d) ELSE IF d = "settle" THEN "ending" ELSE s
         /\ s # "begin" => s \in StepsOf(d)
         /\ \A q \in Req \ {r} : pos[q] = at[q]
<1>1. /\ mailbox # <<>> /\ Head(mailbox) \in TaskType
      /\ 1 \in 1 .. Len(mailbox) /\ Head(mailbox) = mailbox[1]
  BY TailTasks DEF At, MailInv
<1>2. TaskFits(Head(mailbox))
  BY <1>1 DEF MailInv, TasksFit
<1>3. /\ at[r] = Place(d)
      /\ d \in Commands \cup {"start"} => d = FirstTask(kind[r])
  BY <1>2 DEF At, TaskFits
<1>4. s # "begin" => s \in StepsOf(d)
  BY <1>1 DEF At, MailInv
<1> QED BY <1>1, <1>3, <1>4 DEF At, pos, Pos

\* Events and exits are handled while nothing has begun.
LEMMA AtEvent ==
  ASSUME MailInv, NEW e, NEW x, At(e, x, "begin")
  PROVE  /\ mailbox # <<>> /\ Head(mailbox) \in TaskType
         /\ e \in Events => x \in Req
         /\ e = "exit" => x \in Proc /\ life[x] = "dead"
         /\ \A q \in Req : pos[q] = at[q]
<1>1. /\ mailbox # <<>> /\ Head(mailbox) \in TaskType
      /\ 1 \in 1 .. Len(mailbox) /\ Head(mailbox) = mailbox[1]
  BY TailTasks DEF At, MailInv
<1>2. TaskFits(Head(mailbox))
  BY <1>1 DEF MailInv, TasksFit
<1> QED BY <1>1, <1>2 DEF At, TaskFits, pos, Pos

\* Where a handler is that is not in the mailbox.
LEMMA OutsidePos ==
  ASSUME MailInv, NEW r \in Req, at[r] \notin {"queued", "settling"}
  PROVE  pos[r] = at[r]
<1>1. CASE step = "begin" \/ Head(mailbox).by # r
  BY <1>1 DEF pos, Pos
<1>2. CASE step # "begin" /\ Head(mailbox).by = r
  <2>1. mailbox # <<>> /\ step \in StepsOf(Head(mailbox).do)
    BY <1>2 DEF MailInv
  <2>2. Head(mailbox).do \in {"start", "settle", "compact", "stats", "steer", "abort"}
    BY <2>1 DEF StepsOf
  <2>3. TaskFits(Head(mailbox))
    BY <2>1, TailTasks DEF MailInv, TasksFit
  <2>4. at[r] \in {"queued", "settling"}
    BY <1>2, <2>2, <2>3 DEF TaskFits, Place, Handlers, Commands
  <2> QED BY <2>4
<1> QED BY <1>1, <1>2

\* A handler moves: tasks of others stay what they are.
LEMMA OthersFit ==
  ASSUME NEW t, TaskFits(t), NEW r \in Req, NEW b, at \in [Req -> Places],
         t.do \in Handlers => t.by # r,
         at' = [at EXCEPT ![r] = b], Continues
  PROVE  TaskFits(t)'
BY DEF TaskFits, Continues

\* The task at the head ends, and its handler is at b.
LEMMA TaskEnded ==
  ASSUME MailInv, NEW d \in Handlers, NEW r \in Req, NEW s, At(d, r, s),
         NEW b \in Places, at' = [at EXCEPT ![r] = b], TaskEnds, Continues
  PROVE  MailInv' /\ pos' = [pos EXCEPT ![r] = b] /\ Announced' \subseteq Announced
<1>1. PICK t : t = Tail(mailbox)
  OBVIOUS
<1>2. /\ mailbox # <<>> /\ t \in Seq(TaskType)
      /\ \A i \in 1 .. Len(t) :
           i \in Nat /\ i + 1 \in 1 .. Len(mailbox) /\ i + 1 # 1 /\ t[i] = mailbox[i + 1]
  BY <1>1, TailTasks DEF At, MailInv
<1>3. /\ TasksOnce(t) /\ AnnouncedIn(t) \subseteq AnnouncedIn(mailbox)
      /\ \A i \in 1 .. Len(t) : t[i].do \in Handlers => t[i].by # r
  BY <1>1, <1>2, TailKeeps DEF At, MailInv
<1>4. mailbox' = t /\ step' = "begin"
  BY <1>1 DEF TaskEnds
<1>5. at \in [Req -> Places] /\ at' \in [Req -> Places]
  BY DEF MailInv
<1>6. ASSUME NEW i \in 1 .. Len(t) PROVE TaskFits(t[i])'
  <2>1. PICK x : x = t[i]
    OBVIOUS
  <2>2. TaskFits(x)
    BY <2>1, <1>2 DEF MailInv, TasksFit
  <2>3. TaskFits(x)'
    BY <2>1, <2>2, <1>3, <1>5, OthersFit
  <2> QED BY <2>1, <2>3
<1>7. TasksFit(mailbox)'
  BY <1>4, <1>6 DEF TasksFit
<1>8. TasksOnce(mailbox)'
  BY <1>3, <1>4 DEF TasksOnce
<1>9. MailInv'
  BY <1>2, <1>4, <1>5, <1>7, <1>8 DEF MailInv
<1>10. \A q \in Req : pos'[q] = at'[q]
  BY <1>4 DEF pos, Pos
<1>11. pos' = [pos EXCEPT ![r] = b]
  <2>1. \A q \in Req \ {r} : pos[q] = at[q]
    BY AtPos
  <2>2. pos' = [q \in Req |-> at'[q]]
    BY <1>4 DEF pos, Pos
  <2>3. \A q \in Req : at'[q] = IF q = r THEN b ELSE at[q]
    BY <1>5
  <2>4. pos \in [Req -> Places \cup Inside]
    BY PosType
  <2> QED BY <2>1, <2>2, <2>3, <2>4
<1>12. Announced' \subseteq Announced
  BY <1>3, <1>4 DEF Announced, AnnouncedIn
<1> QED BY <1>9, <1>11, <1>12

\* An event was handled.
LEMMA EventTaken ==
  ASSUME MailInv, NEW e, NEW x, At(e, x, "begin"), at' = at, TaskEnds, Continues
  PROVE  MailInv' /\ pos' = pos /\ Announced' \subseteq Announced
<1>1. PICK t : t = Tail(mailbox)
  OBVIOUS
<1>2. /\ mailbox # <<>> /\ t \in Seq(TaskType)
      /\ \A i \in 1 .. Len(t) : i + 1 \in 1 .. Len(mailbox) /\ t[i] = mailbox[i + 1]
  BY <1>1, TailTasks DEF At, MailInv
<1>3. TasksOnce(t) /\ AnnouncedIn(t) \subseteq AnnouncedIn(mailbox)
  BY <1>1, <1>2, TailKeeps DEF MailInv
<1>4. mailbox' = t /\ step' = "begin"
  BY <1>1 DEF TaskEnds
<1>5. ASSUME NEW i \in 1 .. Len(t) PROVE TaskFits(t[i])'
  <2>1. TaskFits(t[i])
    BY <1>2 DEF MailInv, TasksFit
  <2> QED BY <2>1 DEF TaskFits, Continues
<1>6. MailInv'
  BY <1>2, <1>3, <1>4, <1>5 DEF MailInv, TasksFit, TasksOnce
<1>7. pos' = pos
  <2>1. \A q \in Req : pos[q] = at[q]
    BY AtEvent
  <2>2. pos' = [q \in Req |-> at[q]] /\ pos = [q \in Req |-> Pos(q)]
    BY <1>4 DEF pos, Pos
  <2> QED BY <2>1, <2>2
<1> QED BY <1>3, <1>4, <1>6, <1>7 DEF Announced, AnnouncedIn

\* Another segment of the same task.
LEMMA WentOn ==
  ASSUME MailInv, NEW d \in Handlers, NEW r \in Req, NEW s, At(d, r, s),
         NEW n \in StepsOf(d), Goto(n), at' = at, Continues
  PROVE  /\ MailInv' /\ Announced' = Announced
         /\ pos' = [pos EXCEPT ![r] = IF d = "settle" THEN "ending" ELSE n]
<1>1. mailbox' = mailbox /\ step' = n /\ n # "begin"
  BY DEF Goto, StepsOf
<1>2. mailbox # <<>> /\ Head(mailbox).do = d /\ Head(mailbox).by = r
  BY DEF At
<1>3. ASSUME NEW i \in 1 .. Len(mailbox) PROVE TaskFits(mailbox[i])'
  <2>1. PICK x : x = mailbox[i]
    OBVIOUS
  <2>2. TaskFits(x)
    BY <2>1 DEF MailInv, TasksFit
  <2>3. TaskFits(x)'
    BY <2>2 DEF TaskFits, Continues
  <2> QED BY <2>1, <2>3, <1>1
<1>4. MailInv'
  BY <1>1, <1>2, <1>3 DEF MailInv, TasksFit, TasksOnce
<1>5. \A q \in Req \ {r} : pos[q] = at[q]
  BY AtPos
<1>6. \A q \in Req : Pos(q)' = IF q # r THEN at[q] ELSE IF d = "settle" THEN "ending" ELSE n
  BY <1>1, <1>2 DEF Pos
<1>7. pos' = [q \in Req |-> IF q # r THEN at[q] ELSE IF d = "settle" THEN "ending" ELSE n]
  BY <1>6 DEF pos
<1>8. pos \in [Req -> Places \cup Inside]
  BY PosType
<1> QED BY <1>1, <1>4, <1>5, <1>7, <1>8 DEF Announced, AnnouncedIn

\* The mailbox is left alone.
LEMMA MailKept ==
  ASSUME MailInv, UNCHANGED mailVars, at' = at, Continues
  PROVE  MailInv' /\ pos' = pos /\ Announced' = Announced
<1>1. mailbox' = mailbox /\ step' = step
  BY DEF mailVars
<1>2. ASSUME NEW i \in 1 .. Len(mailbox) PROVE TaskFits(mailbox[i])'
  <2>1. PICK x : x = mailbox[i]
    OBVIOUS
  <2>2. TaskFits(x)
    BY <2>1 DEF MailInv, TasksFit
  <2>3. TaskFits(x)'
    BY <2>2 DEF TaskFits, Continues
  <2> QED BY <2>1, <2>3, <1>1
<1>3. MailInv'
  BY <1>1, <1>2 DEF MailInv, TasksFit, TasksOnce
<1> QED BY <1>1, <1>3 DEF Announced, AnnouncedIn, pos, Pos

\* A handler outside the mailbox goes on.
LEMMA Moved ==
  ASSUME MailInv, UNCHANGED mailVars, NEW r \in Req, NEW b \in Places,
         at[r] \notin {"queued", "settling", "failing"},
         at' = [at EXCEPT ![r] = b], Continues
  PROVE  MailInv' /\ pos' = [pos EXCEPT ![r] = b] /\ Announced' = Announced
<1>1. mailbox' = mailbox /\ step' = step
  BY DEF mailVars
<1>2. at \in [Req -> Places] /\ at' \in [Req -> Places]
  BY DEF MailInv
<1>3. ASSUME NEW i \in 1 .. Len(mailbox)
      PROVE  TaskFits(mailbox[i])' /\ (mailbox[i].do \in Handlers => mailbox[i].by # r)
  <2>1. PICK x : x = mailbox[i]
    OBVIOUS
  <2>2. TaskFits(x)
    BY <2>1 DEF MailInv, TasksFit
  <2>3. x.do \in Handlers => x.by # r
    BY <2>2 DEF TaskFits, Place
  <2>4. TaskFits(x)'
    BY <2>2, <2>3, <1>2, OthersFit
  <2> QED BY <2>1, <2>3, <2>4, <1>1
<1>4. MailInv'
  BY <1>1, <1>2, <1>3 DEF MailInv, TasksFit, TasksOnce
<1>5. step = "begin" \/ Head(mailbox).by # r
  <2> SUFFICES ASSUME step # "begin" PROVE Head(mailbox).by # r
    OBVIOUS
  <2>1. mailbox # <<>> /\ step \in StepsOf(Head(mailbox).do)
    BY DEF MailInv
  <2>2. Head(mailbox) = mailbox[1] /\ 1 \in 1 .. Len(mailbox)
    BY <2>1, TailTasks DEF MailInv
  <2>3. Head(mailbox).do \in Handlers
    BY <2>1 DEF StepsOf, Handlers, Commands
  <2> QED BY <1>3, <2>2, <2>3
<1>6. \A q \in Req : Pos(q)' = IF q = r THEN b ELSE Pos(q)
  BY <1>1, <1>2, <1>5 DEF Pos
<1>7. pos' = [q \in Req |-> IF q = r THEN b ELSE Pos(q)]
  BY <1>6 DEF pos
<1>8. pos' = [pos EXCEPT ![r] = b]
  BY <1>7 DEF pos
<1> QED BY <1>1, <1>4, <1>8 DEF Announced, AnnouncedIn

\* A handler puts its task into the mailbox.
LEMMA Enqueued ==
  ASSUME MailInv, NEW d \in Handlers, NEW r \in Req, Enqueue(Task(d, r)),
         at[r] \notin {"queued", "settling", "failing"},
         at' = [at EXCEPT ![r] = Place(d)],
         d \in Commands \cup {"start"} => d = FirstTask(kind[r]), Continues
  PROVE  /\ MailInv' /\ pos' = [pos EXCEPT ![r] = Place(d)] /\ Announced' = Announced
<1>1. PICK t, n : t = Task(d, r) /\ n = Append(mailbox, t)
  OBVIOUS
<1>2. t \in TaskType /\ t.do = d /\ t.by = r
  BY <1>1 DEF Task, Message, TaskType
<1>3. at \in [Req -> Places] /\ at' \in [Req -> Places] /\ Place(d) \in Places
  BY DEF MailInv, Place, Places
<1>4. ASSUME NEW i \in 1 .. Len(mailbox)
      PROVE  /\ TaskFits(mailbox[i])
             /\ mailbox[i].do \in Handlers => mailbox[i].by # r
  BY DEF MailInv, TasksFit, TaskFits, Place
<1>5. /\ mailbox' = n /\ step' = step
      /\ n \in Seq(TaskType) /\ TasksOnce(n) /\ n # <<>>
      /\ mailbox # <<>> => Head(n) = Head(mailbox)
      /\ mailbox = <<>> => Head(n) = t
      /\ Len(n) = Len(mailbox) + 1
      /\ \A i \in 1 .. Len(mailbox) + 1 :
           n[i] = IF i = Len(mailbox) + 1 THEN t ELSE mailbox[i]
      /\ Len(mailbox) \in Nat
      /\ AnnouncedIn(n) = AnnouncedIn(mailbox)
  <2>1. mailbox' = n /\ step' = step
    BY <1>1 DEF Enqueue
  <2>2. mailbox \in Seq(TaskType) /\ TasksOnce(mailbox)
    BY DEF MailInv
  <2>3. t.do # "agent_settled"
    BY <1>2 DEF Handlers, Commands
  <2>4. /\ Append(mailbox, t) \in Seq(TaskType) /\ TasksOnce(Append(mailbox, t))
        /\ Append(mailbox, t) # <<>>
        /\ mailbox # <<>> => Head(Append(mailbox, t)) = Head(mailbox)
        /\ mailbox = <<>> => Head(Append(mailbox, t)) = t
        /\ Len(Append(mailbox, t)) = Len(mailbox) + 1
        /\ \A i \in 1 .. Len(mailbox) + 1 :
             Append(mailbox, t)[i] = IF i = Len(mailbox) + 1 THEN t ELSE mailbox[i]
        /\ Len(mailbox) \in Nat
        /\ AnnouncedIn(Append(mailbox, t)) = AnnouncedIn(mailbox) \cup
              (IF t.do = "agent_settled" /\ t.by \in Req THEN {t.by} ELSE {})
    BY <2>2, <1>2, <1>4, AppendKeeps
  <2> QED BY <2>1, <2>3, <2>4, <1>1
<1>6. ASSUME NEW i \in 1 .. Len(mailbox) + 1 PROVE TaskFits(n[i])'
  <2>1. CASE i = Len(mailbox) + 1
    <3>1. TaskFits(t)'
      <4>1. at'[r] = Place(d) /\ d \notin Events \cup {"exit"}
        BY <1>3 DEF Handlers, Commands, Events, MailInv
      <4> QED BY <4>1, <1>2 DEF TaskFits, Continues
    <3> QED BY <2>1, <3>1, <1>5
  <2>2. CASE i # Len(mailbox) + 1
    <3>1. PICK x : x = mailbox[i]
      OBVIOUS
    <3>2. i \in 1 .. Len(mailbox)
      BY <2>2, <1>5
    <3>3. TaskFits(x)'
      BY <3>1, <3>2, <1>3, <1>4, OthersFit
    <3> QED BY <2>2, <3>1, <3>3, <1>5
  <2> QED BY <2>1, <2>2
<1>7. MailInv'
  <2>1. TasksFit(mailbox)'
    BY <1>5, <1>6 DEF TasksFit
  <2>2. TasksOnce(mailbox)'
    BY <1>5 DEF TasksOnce
  <2>3. step' # "begin" => step' \in StepsOf(Head(n).do)
    BY <1>5 DEF MailInv
  <2> QED BY <1>3, <1>5, <2>1, <2>2, <2>3 DEF MailInv
<1>8. step = "begin" \/ Head(mailbox).by # r
  <2> SUFFICES ASSUME step # "begin" PROVE Head(mailbox).by # r
    OBVIOUS
  <2>1. mailbox # <<>> /\ step \in StepsOf(Head(mailbox).do)
    BY DEF MailInv
  <2>2. Head(mailbox) = mailbox[1] /\ 1 \in 1 .. Len(mailbox)
    BY <2>1, TailTasks DEF MailInv
  <2>3. Head(mailbox).do \in Handlers
    BY <2>1 DEF StepsOf, Handlers, Commands
  <2> QED BY <1>4, <2>2, <2>3
<1>9. step # "begin" => mailbox # <<>>
  BY DEF MailInv
<1>10. \A q \in Req : Pos(q)' = IF q = r THEN Place(d) ELSE Pos(q)
  BY <1>3, <1>5, <1>8, <1>9 DEF Pos
<1>11. pos' = [q \in Req |-> IF q = r THEN Place(d) ELSE Pos(q)]
  BY <1>10 DEF pos
<1>12. pos' = [pos EXCEPT ![r] = Place(d)]
  BY <1>11 DEF pos
<1> QED BY <1>5, <1>7, <1>12 DEF Announced, AnnouncedIn

\* The start of a turn ends with the settlement of that turn.
LEMMA Requeued ==
  ASSUME MailInv, NEW r \in Req, NEW s, At("start", r, s),
         mailbox' = Append(Tail(mailbox), Task("settle", r)), step' = "begin",
         at' = [at EXCEPT ![r] = "settling"], Continues
  PROVE  /\ MailInv' /\ pos' = [pos EXCEPT ![r] = "settling"]
         /\ Announced' \subseteq Announced
<1>1. PICK t, m, n : t = Task("settle", r) /\ m = Tail(mailbox) /\ n = Append(m, t)
  OBVIOUS
<1>2. t \in TaskType /\ t.do = "settle" /\ t.by = r
  BY <1>1 DEF Task, Message, TaskType, Handlers
<1>3. at \in [Req -> Places] /\ at' \in [Req -> Places]
  BY DEF MailInv, Places
<1>4. /\ mailbox # <<>> /\ m \in Seq(TaskType) /\ Len(m) \in Nat
      /\ \A i \in 1 .. Len(m) : i + 1 \in 1 .. Len(mailbox) /\ m[i] = mailbox[i + 1]
  BY <1>1, TailTasks DEF At, MailInv
<1>5. /\ TasksOnce(m) /\ AnnouncedIn(m) \subseteq AnnouncedIn(mailbox)
      /\ \A i \in 1 .. Len(m) : m[i].do \in Handlers => m[i].by # r
  BY <1>1, <1>4, TailKeeps DEF At, MailInv, Handlers
<1>6. /\ mailbox' = n
      /\ n \in Seq(TaskType) /\ TasksOnce(n)
      /\ Len(n) = Len(m) + 1
      /\ \A i \in 1 .. Len(m) + 1 : n[i] = IF i = Len(m) + 1 THEN t ELSE m[i]
      /\ AnnouncedIn(n) = AnnouncedIn(m)
  <2>1. /\ Append(m, t) \in Seq(TaskType) /\ TasksOnce(Append(m, t)) /\ Append(m, t) # <<>>
        /\ m # <<>> => Head(Append(m, t)) = Head(m)
        /\ m = <<>> => Head(Append(m, t)) = t
        /\ Len(Append(m, t)) = Len(m) + 1
        /\ \A i \in 1 .. Len(m) + 1 :
             Append(m, t)[i] = IF i = Len(m) + 1 THEN t ELSE m[i]
        /\ Len(m) \in Nat
        /\ AnnouncedIn(Append(m, t)) = AnnouncedIn(m) \cup
              (IF t.do = "agent_settled" /\ t.by \in Req THEN {t.by} ELSE {})
    BY <1>2, <1>4, <1>5, AppendKeeps
  <2> QED BY <2>1, <1>1, <1>2
<1>7. ASSUME NEW i \in 1 .. Len(m) + 1 PROVE TaskFits(n[i])'
  <2>1. CASE i = Len(m) + 1
    <3>1. TaskFits(t)'
      BY <1>2, <1>3 DEF TaskFits, Place, Commands, Events, MailInv
    <3> QED BY <2>1, <3>1, <1>6
  <2>2. CASE i # Len(m) + 1
    <3>1. PICK x : x = m[i]
      OBVIOUS
    <3>2. i \in 1 .. Len(m)
      BY <2>2, <1>4
    <3>3. TaskFits(x)
      BY <3>1, <3>2, <1>4 DEF MailInv, TasksFit
    <3>4. TaskFits(x)'
      BY <3>1, <3>2, <3>3, <1>3, <1>5, OthersFit
    <3> QED BY <2>2, <3>1, <3>4, <1>6
  <2> QED BY <2>1, <2>2
<1>8. MailInv'
  <2>1. TasksFit(mailbox)'
    BY <1>6, <1>7 DEF TasksFit
  <2>2. TasksOnce(mailbox)'
    BY <1>6 DEF TasksOnce
  <2> QED BY <1>3, <1>6, <2>1, <2>2 DEF MailInv
<1>9. \A q \in Req \ {r} : pos[q] = at[q]
  BY AtPos DEF Handlers
<1>10. pos' = [q \in Req |-> at'[q]]
  BY DEF pos, Pos
<1>11. \A q \in Req : at'[q] = IF q = r THEN "settling" ELSE at[q]
  BY <1>3
<1>12. pos \in [Req -> Places \cup Inside]
  BY PosType
<1>13. pos' = [pos EXCEPT ![r] = "settling"]
  BY <1>9, <1>10, <1>11, <1>12
<1> QED BY <1>5, <1>6, <1>8, <1>13 DEF Announced, AnnouncedIn

\* An event or an exit of a process arrives.
LEMMA Emitted ==
  ASSUME MailInv, NEW t \in TaskType, Enqueue(t), at' = at, Continues,
         \/ t.do \in Events /\ t.by \in Req
         \/ t.do = "exit" /\ t.by \in Proc /\ life'[t.by] = "dead"
  PROVE  /\ MailInv' /\ pos' = pos
         /\ Announced' = Announced \cup (IF t.do = "agent_settled" THEN {t.by} ELSE {})
<1>1. t.do \notin Handlers
  BY DEF Events, Handlers, Commands
<1>2. PICK n : n = Append(mailbox, t)
  OBVIOUS
<1>3. mailbox \in Seq(TaskType) /\ TasksOnce(mailbox)
  BY DEF MailInv
<1>4. /\ mailbox' = n /\ step' = step
      /\ n \in Seq(TaskType) /\ TasksOnce(n) /\ n # <<>>
      /\ mailbox # <<>> => Head(n) = Head(mailbox)
      /\ Len(n) = Len(mailbox) + 1
      /\ \A i \in 1 .. Len(mailbox) + 1 :
           n[i] = IF i = Len(mailbox) + 1 THEN t ELSE mailbox[i]
      /\ Len(mailbox) \in Nat
      /\ AnnouncedIn(n) = AnnouncedIn(mailbox) \cup
              (IF t.do = "agent_settled" /\ t.by \in Req THEN {t.by} ELSE {})
  <2>1. mailbox' = n /\ step' = step
    BY <1>2 DEF Enqueue
  <2> QED BY <2>1, <1>1, <1>2, <1>3, AppendKeeps
<1>5. ASSUME NEW i \in 1 .. Len(mailbox) + 1 PROVE TaskFits(n[i])'
  <2>1. CASE i = Len(mailbox) + 1
    <3>1. TaskFits(t)'
      BY <1>1 DEF TaskFits, Events
    <3> QED BY <2>1, <3>1, <1>4
  <2>2. CASE i # Len(mailbox) + 1
    <3>1. PICK x : x = mailbox[i]
      OBVIOUS
    <3>2. TaskFits(x)
      BY <2>2, <3>1, <1>4 DEF MailInv, TasksFit
    <3>3. TaskFits(x)'
      BY <3>2 DEF TaskFits, Continues
    <3> QED BY <2>2, <3>1, <3>3, <1>4
  <2> QED BY <2>1, <2>2
<1>6. MailInv'
  <2>1. TasksFit(mailbox)'
    BY <1>4, <1>5 DEF TasksFit
  <2>2. TasksOnce(mailbox)'
    BY <1>4 DEF TasksOnce
  <2> QED BY <1>4, <2>1, <2>2 DEF MailInv
<1>7. step # "begin" => mailbox # <<>>
  BY DEF MailInv
<1>8. \A q \in Req : Pos(q)' = Pos(q)
  BY <1>4, <1>7 DEF Pos
<1>9. pos' = pos
  BY <1>8 DEF pos
<1> QED BY <1>4, <1>6, <1>9 DEF Announced, AnnouncedIn, Events

-------------------------------------------------------------------------------
(* Steps that move one request *)

\* Leases, turns and phases stay; processes may be given up, and messages of the
\* actor and of pi consumed.
Frame ==
  /\ UNCHANGED <<kind, phase, lease, generation, gen, got, holder, turn>>
  /\ doomed \subseteq doomed'
  /\ \A p \in Proc : life'[p] = "dead" <=> life[p] = "dead"
  /\ \A p \in Proc : life[p] # "up" => life'[p] # "up"
  /\ over' \subseteq over

\* What is said of a request other than where it is.
Untouched(q) ==
  /\ answer'[q] = answer[q]
  /\ q \in streaming' <=> q \in streaming
  /\ q \in accepted' <=> q \in accepted

\* A request in its place does not notice what others do.
LEMMA FrameFits ==
  ASSUME TypeOK, NEW q \in Req, NEW s, Fits(q, s), Frame, Untouched(q),
         Unknown(q)'
  PROVE  Fits(q, s)'
<1>1. KindFits(q, s)' /\ PhaseFits(q, s)' /\ TurnFits(q, s)'
  BY DEF Fits, Frame, KindFits, PhaseFits, TurnFits, IsTurnActive
<1>2. Held(q, s)'
  BY DEF Fits, Frame, Held, Keeps, Gone
<1>3. Accounted(q, s)'
  BY DEF Fits, Frame, Accounted, Unattached
<1>4. Quiet(q, s)'
  BY DEF Fits, Frame, Quiet, Keeps, Fresh
<1>5. TurnEnds(q, s)'
  BY DEF Fits, Frame, Untouched, TurnEnds, Ended, Fresh
<1>6. AnswerFits(q, s)'
  BY DEF Fits, Frame, Untouched, AnswerFits
<1> QED BY <1>1, <1>2, <1>3, <1>4, <1>5, <1>6 DEF Fits

\* Processes that somebody holds can be given up.
MayDoom ==
  \A p \in Proc : p \in doomed' =>
    p \in doomed \/ holder[p] # NoReq \/ life[p] # "up" \/ life'[p] # "up"

\* Processes keep their books too.
LEMMA FrameProcesses ==
  ASSUME TypeOK, ProcessesFit, Frame, MayDoom
  PROVE  ProcessesFit'
BY DEF ProcessesFit, Frame, MayDoom, IsTurnActive

\* Somebody may give up the process that he keeps.
LEMMA KeeperMayDoom ==
  ASSUME TypeOK, Book, NEW q \in Req, Keeps(q, pos[q]),
         doomed' \subseteq doomed \cup {got[q]}
  PROVE  MayDoom
<1>1. holder[got[q]] = q \/ Gone(got[q])
  BY DEF Book, RequestsFit, Fits, Held
<1>2. q # NoReq
  BY RuntimeAssumption
<1> QED BY <1>1, <1>2 DEF MayDoom, Gone

\* A request that arrives shows that every new session is known.
MayMove(r) == pos[r] # "idle" \/ \A q \in Req \ {r} : kind[q] = "new" => gen[q] # 0

\* Request r goes from where it is to b.
LEMMA MovesKeep ==
  ASSUME TypeOK, MailInv, Book, Frame, MayDoom,
         NEW r \in Req, NEW b, pos' = [pos EXCEPT ![r] = b],
         MayMove(r),
         \A q \in Req \ {r} : Untouched(q),
         phase = "detached" => steering' = {},
         Keeps(r, b)' => Keeps(r, pos[r]),
         Fits(r, b)'
  PROVE  Book'
<1>1. pos \in [Req -> Places \cup Inside]
  BY PosType
<1>2. pos'[r] = b /\ \A q \in Req \ {r} : pos'[q] = pos[q]
  BY <1>1
<1>3. ASSUME NEW q \in Req \ {r} PROVE Fits(q, pos[q])'
  <2>1. Fits(q, pos[q])
    BY DEF Book, RequestsFit
  <2>2. Unknown(q)'
    BY <2>1 DEF Fits, Unknown, Frame, MayMove
  <2>3. PICK s : s = pos[q]
    OBVIOUS
  <2>4. Fits(q, s)'
    BY <2>1, <2>2, <2>3, FrameFits
  <2> QED BY <2>3, <2>4, <1>2
<1>4. RequestsFit'
  BY <1>2, <1>3 DEF RequestsFit
<1>5. KeptOnce'
  <2>1. ASSUME NEW q \in Req, Keeps(q, pos[q])' PROVE Keeps(q, pos[q])
    BY <2>1, <1>2 DEF Keeps, Frame
  <2> QED BY <2>1 DEF KeptOnce, Book, Frame
<1>6. PhasesFit'
  BY DEF Book, PhasesFit, Frame, IsTurnActive
<1>7. TurnsCounted'
  BY DEF Book, TurnsCounted, Frame
<1>8. ProcessesFit'
  BY FrameProcesses DEF Book
<1> QED BY <1>4, <1>5, <1>6, <1>7, <1>8 DEF Book

\* A request fits where it is.
LEMMA FitsHere == ASSUME Book, NEW r \in Req PROVE Fits(r, pos[r])
BY DEF Book, RequestsFit

\* The lease of the actor is kept by a request that goes on.
LEMMA LeaseIsKept ==
  ASSUME TypeOK, Book, lease # NoReq
  PROVE  /\ lease \in Req /\ Process = got[lease] /\ Process \in Proc
         /\ Process # NoProc /\ phase # "detached"
         /\ Keeps(lease, pos[lease]) /\ pos[lease] # "done"
         /\ IsTurnActive => gen[lease] = generation /\ generation > 0
         /\ ~IsTurnActive => phase = "ready" /\ pos[lease] = "rpc"
<1>1. lease \in Req
  BY DEF TypeOK
<1>2. Process = got[lease] /\ phase # "detached"
  BY DEF Process, Book, PhasesFit
<1>3. PhaseFits(lease, pos[lease])
  BY <1>1, FitsHere DEF Fits
<1>4. Process \in Proc /\ Process # NoProc /\ pos[lease] # "done"
  BY <1>2, <1>3, RuntimeAssumption DEF PhaseFits
<1>5. IsTurnActive => gen[lease] = generation /\ generation > 0
  BY DEF Book, PhasesFit
<1>6. ~IsTurnActive => phase = "ready" /\ pos[lease] = "rpc"
  BY <1>2, <1>3 DEF IsTurnActive, TurnPhases, TypeOK, PhaseFits
<1>7. Keeps(lease, pos[lease])
  BY <1>2, <1>4, <1>5, <1>6 DEF Keeps
<1> QED BY <1>1, <1>2, <1>4, <1>5, <1>6, <1>7

\* Without a lease there is no turn and no process.
LEMMA NoLease ==
  ASSUME TypeOK, Book, lease = NoReq
  PROVE  Process = NoProc /\ phase = "detached" /\ ~IsTurnActive
BY DEF Process, Book, PhasesFit, IsTurnActive, TurnPhases

\* Who keeps the process of the actor has the lease.
LEMMA OwnerHasLease ==
  ASSUME TypeOK, Book, NEW r \in Req, Keeps(r, pos[r]), Owns(r)
  PROVE  lease = r
<1>1. lease # NoReq
  BY NoLease DEF Owns
<1>2. lease \in Req /\ Process = got[lease] /\ Keeps(lease, pos[lease])
  BY <1>1, LeaseIsKept
<1> QED BY <1>2 DEF Owns, Book, KeptOnce

USE DEF procVars, piVars, actorVars, obsVars, reqVars, history,
        Places, Starting, Turning, Failing, Handlers, Prompts, Creators, Commands

\* What is known of a request at a lets it be at b.
Passes(r, a, b) ==
  /\ KindFits(r, b) /\ PhaseFits(r, b) /\ TurnFits(r, b)
  /\ Keeps(r, b) => Keeps(r, a)
  /\ Unattached(r, a) => Unattached(r, b) \/ lease = r \/ \A p \in Proc : holder[p] # r
  /\ Fresh(r, b) => Fresh(r, a)

\* Request r goes from a to b, and nobody else notices.
LEMMA PassKeeps ==
  ASSUME TypeOK, MailInv, Book, Frame, MayDoom,
         NEW r \in Req, NEW a, NEW b, pos[r] = a, MayMove(r),
         pos' = [pos EXCEPT ![r] = b],
         \A q \in Req \ {r} : Untouched(q),
         phase = "detached" => steering' = {},
         status' = status \/ gen[r] > 0,
         Passes(r, a, b), Ended(r, a) \/ TurnEnds(r, b)', AnswerFits(r, b)'
  PROVE  Book'
<1>1. Fits(r, a)
  BY FitsHere
<1>2. pos \in [Req -> Places \cup Inside]
  BY PosType
<1>3. KindFits(r, b)' /\ PhaseFits(r, b)' /\ TurnFits(r, b)'
  BY DEF Passes, Frame, KindFits, PhaseFits, TurnFits, IsTurnActive
<1>4. Keeps(r, b)' => Keeps(r, a)
  BY DEF Passes, Frame, Keeps
<1>5. Held(r, b)'
  BY <1>1, <1>4 DEF Fits, Held, Keeps, Gone, Frame
<1>6. Accounted(r, b)'
  <2> SUFFICES ASSUME NEW p \in Proc, holder[p] = r
               PROVE  got[r] = p /\ (lease = r \/ Unattached(r, b))
    BY DEF Accounted, Unattached, Frame
  <2> QED BY <1>1 DEF Fits, Accounted, Passes
<1>7. Quiet(r, b)'
  BY <1>1, <1>4 DEF Fits, Quiet, Passes, Fresh, Frame
<1>8. TurnEnds(r, b)'
  BY <1>1 DEF Fits, TurnEnds, Frame
<1>9. Unknown(r)'
  <2>1. gen \in [Req -> Nat] /\ gen' = gen
    BY DEF TypeOK, Frame
  <2>2. \A q \in Req \ {r} : pos'[q] = pos[q]
    BY <1>2
  <2> QED BY <1>1, <2>1, <2>2 DEF Fits, Unknown, Frame
<1>10. Fits(r, b)'
  BY <1>3, <1>5, <1>6, <1>7, <1>8, <1>9 DEF Fits
<1> QED BY <1>4, <1>10, MovesKeep

\* The first outcome reported to the client stands.
OnlyAnswers(r) ==
  /\ answer[r] # "none" => answer'[r] = answer[r]
  /\ \A q \in Req \ {r} : answer'[q] = answer[q]

\* An answer is given to one request.
LEMMA AnswersOnly ==
  ASSUME TypeOK, NEW r \in Req, NEW x, Answers(r, x)
  PROVE  OnlyAnswers(r) /\ (answer[r] = "none" => answer'[r] = x)
BY DEF TypeOK, Answers, OnlyAnswers

\* An outcome that is reported late changes nothing that was accepted.
LEMMA AnswerStands ==
  ASSUME NEW r \in Req, NEW a, NEW b \in {"caught", "failing", "done", "settling", "waiting",
                                          "probing", "deaf", "ending"},
         AnswerFits(r, a), a # "probe", OnlyAnswers(r), accepted' = accepted
  PROVE  AnswerFits(r, b)'
BY DEF AnswerFits, OnlyAnswers

\* The task of r throws.
LEMMA Thrown ==
  ASSUME TypeOK, NEW r \in Req, Throws(r)
  PROVE  \E b \in {"caught", "done"} :
           /\ at' = [at EXCEPT ![r] = b]
           /\ b = "caught" <=> kind[r] \in Prompts
           /\ OnlyAnswers(r)
<1>1. CASE kind[r] \in Prompts
  BY <1>1 DEF Throws, Moves, OnlyAnswers
<1>2. CASE kind[r] \notin Prompts
  BY <1>2, AnswersOnly DEF Throws, Finishes, Moves
<1> QED BY <1>1, <1>2

\* A failed RPC decommissions no other process, and its own unless pi refused.
LEMMA FailsDooms ==
  ASSUME NEW p, NEW x \in BOOLEAN, RpcFails(p, x)
  PROVE  /\ doomed \subseteq doomed' /\ doomed' \subseteq doomed \cup {p}
         /\ x \/ life[p] = "dead" \/ p \in doomed'
BY DEF RpcFails, TimesOut

-------------------------------------------------------------------------------
(* One step after the other *)

\* The control RPCs succeed: the prompt is next.
LEMMA ControlAppliedKeeps ==
  ASSUME TypeOK, MailInv, Book, NEW r \in Req, ControlApplied(r)
  PROVE  MailInv' /\ Book'
<1>1. pos[r] = "control" /\ Fits(r, "control")
  BY AtPos, FitsHere DEF ControlApplied
<1>2. MailInv' /\ pos' = [pos EXCEPT ![r] = "prompt"] /\ Announced' = Announced
  BY WentOn DEF ControlApplied, StepsOf, Continues
<1>3. Frame /\ MayDoom /\ \A q \in Req : Untouched(q)
  BY <1>2 DEF ControlApplied, Frame, MayDoom, Untouched, over
<1>4. Passes(r, "control", "prompt") /\ Ended(r, "control")
  BY <1>1 DEF Passes, Fits, KindFits, PhaseFits, TurnFits, Keeps, Unattached, Fresh, Ended
<1>5. AnswerFits(r, "prompt")'
  BY <1>1, <1>3 DEF Fits, AnswerFits, Untouched
<1> QED BY <1>1, <1>2, <1>3, <1>4, <1>5, PassKeeps DEF MayMove, ControlApplied, Book, PhasesFit

\* The pool refuses a new session.
LEMMA AcquireNewFailsKeeps ==
  ASSUME TypeOK, MailInv, Book, NEW r \in Req, AcquireNewFails(r)
  PROVE  MailInv' /\ Book'
<1>1. pos[r] = "acquiring" /\ Fits(r, "acquiring")
  BY OutsidePos, FitsHere DEF AcquireNewFails
<1>2. MailInv' /\ pos' = [pos EXCEPT ![r] = "caught"] /\ Announced' = Announced
  BY Moved DEF AcquireNewFails, Moves, Continues
<1>3. Frame /\ MayDoom /\ (\A q \in Req : Untouched(q)) /\ OnlyAnswers(r)
  BY <1>2 DEF AcquireNewFails, Frame, MayDoom, Untouched, over, OnlyAnswers
<1>4. Passes(r, "acquiring", "caught") /\ Ended(r, "acquiring")
  BY <1>1 DEF Passes, Fits, KindFits, PhaseFits, TurnFits, Keeps, Unattached, Fresh, Ended, TypeOK
<1>5. AnswerFits(r, "caught")'
  BY <1>1, <1>3, AnswerStands DEF AcquireNewFails, Fits
<1> QED BY <1>1, <1>2, <1>3, <1>4, <1>5, PassKeeps DEF MayMove, AcquireNewFails, Book, PhasesFit

\* A new session gets its path, or fails with its lease unattached.
LEMMA CreateSessionKeeps ==
  ASSUME TypeOK, MailInv, Book, NEW r \in Req, CreateSession(r)
  PROVE  MailInv' /\ Book'
<1>1. pos[r] = "creating" /\ Fits(r, "creating")
  BY OutsidePos, FitsHere DEF CreateSession
<1>2. gen[r] = 0 /\ kind[r] = "new" /\ kind' = kind /\ life' = life
  BY <1>1 DEF Fits, TurnFits, KindFits, CreateSession, TypeOK
<1>3. PICK b \in {"queued", "caught"} :
        /\ MailInv' /\ pos' = [pos EXCEPT ![r] = b] /\ Announced' = Announced
        /\ doomed \subseteq doomed' /\ doomed' \subseteq doomed \cup {got[r]}
  <2>1. CASE Moves(r, "queued") /\ Enqueue(Task("start", r)) /\ UNCHANGED doomed
    BY <1>2, <2>1, Enqueued DEF CreateSession, Moves, Continues, Place, FirstTask
  <2>2. CASE RpcFails(got[r], TRUE) /\ Moves(r, "caught") /\ UNCHANGED mailVars
    BY <1>2, <2>2, Moved, FailsDooms DEF CreateSession, Moves, Continues
  <2> QED BY <2>1, <2>2 DEF CreateSession
<1>4. Keeps(r, "creating")
  BY <1>1 DEF Keeps, Fits, TurnFits
<1>5. Frame /\ MayDoom /\ (\A q \in Req : Untouched(q)) /\ OnlyAnswers(r)
  BY <1>1, <1>3, <1>4, KeeperMayDoom DEF CreateSession, Frame, Untouched, over, OnlyAnswers
<1>6. Passes(r, "creating", b) /\ Ended(r, "creating")
  BY <1>1, <1>2 DEF Passes, Fits, KindFits, PhaseFits, TurnFits, Keeps, Unattached, Fresh, Ended
<1>7. AnswerFits(r, b)'
  BY <1>1, <1>5 DEF Fits, AnswerFits, Untouched
<1> QED BY <1>1, <1>3, <1>5, <1>6, <1>7, PassKeeps DEF MayMove, CreateSession, Book, PhasesFit

\* A compaction finds no turn; statistics share the process of one.
LEMMA BeginCommandKeeps ==
  ASSUME TypeOK, MailInv, Book, NEW r \in Req, NEW d, BeginCommand(d, r)
  PROVE  MailInv' /\ Book'
<1>1. d \in {"compact", "stats"}
  BY DEF BeginCommand
<1>2. pos[r] = "queued" /\ Fits(r, "queued") /\ d = kind[r] /\ step = "begin"
  BY <1>1, AtPos, FitsHere DEF BeginCommand, Place, FirstTask, At
<1>3. \A q \in Req : pos[q] = at[q]
  BY <1>2 DEF pos, Pos
<1>4. lease # NoReq => IsTurnActive
  BY <1>3, LeaseIsKept DEF MailInv
<1>5. PICK b \in {"acquire", "peek"} :
        /\ Goto(b) /\ b \in StepsOf(d)
        /\ b = "acquire" => phase = "detached"
        /\ b = "peek" => IsTurnActive /\ kind[r] = "stats"
  <2>1. CASE lease = NoReq
    BY <1>1, <2>1, NoLease DEF BeginCommand, StepsOf
  <2>2. CASE lease # NoReq
    <3>1. Process # NoProc /\ IsTurnActive
      BY <1>4, <2>2, LeaseIsKept
    <3>2. d = "stats"
      BY <1>1, <3>1 DEF BeginCommand, AssertAvailable, IsTurnActive, TurnPhases
    <3> QED BY <1>2, <3>1, <3>2 DEF BeginCommand, StepsOf
  <2> QED BY <2>1, <2>2
<1>6. MailInv' /\ pos' = [pos EXCEPT ![r] = b] /\ Announced' = Announced
  BY <1>1, <1>5, WentOn DEF BeginCommand, Continues
<1>7. Frame /\ MayDoom /\ \A q \in Req : Untouched(q)
  BY <1>6 DEF BeginCommand, Frame, MayDoom, Untouched, over
<1>8. Passes(r, "queued", b) /\ Ended(r, "queued")
  BY <1>1, <1>2, <1>5
       DEF Passes, Fits, KindFits, PhaseFits, TurnFits, Keeps, Unattached, Fresh, Ended, TypeOK,
           IsTurnActive, TurnPhases
<1>9. AnswerFits(r, b)'
  BY <1>2, <1>7 DEF Fits, AnswerFits, Untouched
<1> QED BY <1>2, <1>6, <1>7, <1>8, <1>9, PassKeeps DEF MayMove, BeginCommand, Book, PhasesFit

\* A prompt finds the actor detached.
LEMMA BeginStartKeeps ==
  ASSUME TypeOK, MailInv, Book, NEW r \in Req, BeginStart(r)
  PROVE  MailInv' /\ Book'
<1>1. pos[r] = "queued" /\ Fits(r, "queued") /\ FirstTask(kind[r]) = "start" /\ step = "begin"
  BY AtPos, FitsHere DEF BeginStart, Place, At
<1>2. \A q \in Req : pos[q] = at[q]
  BY <1>1 DEF pos, Pos
<1>3. phase = "detached"
  BY <1>2, NoLease, LeaseIsKept DEF BeginStart, MailInv
<1>4. MailInv' /\ pos' = [pos EXCEPT ![r] = "acquire"] /\ Announced' = Announced
  BY WentOn DEF BeginStart, StepsOf, Continues
<1>5. Frame /\ MayDoom /\ \A q \in Req : Untouched(q)
  BY <1>4 DEF BeginStart, Frame, MayDoom, Untouched, over
<1>6. kind[r] \in {"prompt", "fork"}
  BY <1>1, RuntimeAssumption DEF BeginStart, FirstTask, TypeOK
<1>7. Passes(r, "queued", "acquire") /\ Ended(r, "queued")
  BY <1>1, <1>3, <1>6
       DEF Passes, Fits, KindFits, PhaseFits, TurnFits, Keeps, Unattached, Fresh, Ended, TypeOK,
           IsTurnActive, TurnPhases
<1>8. AnswerFits(r, "acquire")'
  BY <1>1, <1>5 DEF Fits, AnswerFits, Untouched
<1> QED BY <1>1, <1>4, <1>5, <1>7, <1>8, PassKeeps DEF MayMove, BeginStart, Book, PhasesFit

\* The pool refuses a task of the mailbox.
LEMMA AcquireFailsKeeps ==
  ASSUME TypeOK, MailInv, Book, NEW r \in Req, NEW d \in Handlers, AcquireFails(d, r)
  PROVE  MailInv' /\ Book'
<1>1. pos[r] = "acquire" /\ Fits(r, "acquire")
  BY AtPos, FitsHere DEF AcquireFails, StepsOf
<1>2. PICK b \in {"caught", "done"} :
        /\ at' = [at EXCEPT ![r] = b]
        /\ b = "caught" <=> kind[r] \in Prompts
        /\ OnlyAnswers(r)
  BY Thrown DEF AcquireFails
<1>3. MailInv' /\ pos' = [pos EXCEPT ![r] = b] /\ Announced' \subseteq Announced
  BY <1>2, TaskEnded DEF AcquireFails, Continues
<1>4. Frame /\ MayDoom /\ \A q \in Req \ {r} : Untouched(q)
  BY <1>2, <1>3 DEF AcquireFails, Frame, MayDoom, Untouched, over, OnlyAnswers
<1>5. Passes(r, "acquire", b) /\ Ended(r, "acquire")
  BY <1>1, <1>2
       DEF Passes, Fits, KindFits, PhaseFits, TurnFits, Keeps, Unattached, Fresh, Ended, TypeOK
<1>6. AnswerFits(r, b)'
  BY <1>1, <1>2, AnswerStands DEF AcquireFails, Fits
<1> QED BY <1>1, <1>3, <1>4, <1>5, <1>6, PassKeeps DEF MayMove, AcquireFails, Book, PhasesFit

\* A task is refused; that of a new session never is.
LEMMA RefusedKeeps ==
  ASSUME TypeOK, MailInv, Book, NEW r \in Req, NEW d \in Handlers, Refused(d, r)
  PROVE  MailInv' /\ Book'
<1>1. pos[r] = "queued" /\ Fits(r, "queued") /\ d = FirstTask(kind[r])
  BY AtPos, FitsHere DEF Refused, Place
<1>2. PICK b \in {"caught", "done"} :
        /\ at' = [at EXCEPT ![r] = b]
        /\ b = "caught" <=> kind[r] \in Prompts
        /\ OnlyAnswers(r)
  BY Thrown DEF Refused
<1>3. kind[r] # "new"
  <2> SUFFICES ASSUME kind[r] = "new" PROVE FALSE
    OBVIOUS
  <2>1. phase # "detached"
    BY <1>1 DEF Refused, AssertAvailable, IsTurnActive, TurnPhases, FirstTask
  <2>2. gen[r] = 0
    BY <1>1 DEF Fits, TurnFits, TypeOK
  <2> QED BY <1>1, <2>1, <2>2 DEF Fits, Unknown
<1>4. MailInv' /\ pos' = [pos EXCEPT ![r] = b] /\ Announced' \subseteq Announced
  BY <1>2, TaskEnded DEF Refused, Continues
<1>5. Frame /\ MayDoom /\ \A q \in Req \ {r} : Untouched(q)
  BY <1>2, <1>4 DEF Refused, Frame, MayDoom, Untouched, over, OnlyAnswers
<1>6. Passes(r, "queued", b) /\ Ended(r, "queued")
  BY <1>1, <1>2, <1>3 DEF Passes, Fits, KindFits, PhaseFits, TurnFits, Keeps, Unattached,
                          Fresh, Ended, TypeOK
<1>7. AnswerFits(r, b)'
  BY <1>1, <1>2, AnswerStands DEF Refused, Fits
<1> QED BY <1>1, <1>4, <1>5, <1>6, <1>7, PassKeeps DEF MayMove, Refused, Book, PhasesFit

\* A control RPC or a prompt that fails without a turn.
LEMMA StartRefusedKeeps ==
  ASSUME TypeOK, MailInv, Book, NEW r \in Req, NEW s \in {"control", "prompt"},
         At("start", r, s), Throws(r), TaskEnds,
         doomed \subseteq doomed', doomed' \subseteq doomed \cup {got[r]},
         UNCHANGED <<life, holder, turn, actorVars, streaming, settled, kind, got, gen, accepted>>
  PROVE  MailInv' /\ Book'
<1>1. pos[r] = s /\ Fits(r, s)
  BY AtPos, FitsHere
<1>2. kind[r] \in Prompts
  BY <1>1 DEF Fits, KindFits
<1>3. at' = [at EXCEPT ![r] = "caught"] /\ OnlyAnswers(r)
  BY <1>2, Thrown
<1>4. MailInv' /\ pos' = [pos EXCEPT ![r] = "caught"] /\ Announced' \subseteq Announced
  BY <1>3, TaskEnded DEF Continues
<1>5. Keeps(r, s)
  BY <1>1 DEF Keeps, Fits, PhaseFits
<1>6. Frame /\ MayDoom /\ \A q \in Req \ {r} : Untouched(q)
  BY <1>1, <1>3, <1>4, <1>5, KeeperMayDoom DEF Frame, Untouched, over, OnlyAnswers
<1>7. Passes(r, s, "caught") /\ Ended(r, s)
  BY <1>1 DEF Passes, Fits, KindFits, PhaseFits, TurnFits, Keeps, Unattached, Fresh, Ended
<1>8. AnswerFits(r, "caught")'
  BY <1>1, <1>3, AnswerStands DEF Fits
<1> QED BY <1>1, <1>4, <1>6, <1>7, <1>8, PassKeeps DEF MayMove, Book, PhasesFit

\* The probe answers the prompt and tells whether its turn streams.
LEMMA AcceptKeeps ==
  ASSUME TypeOK, MailInv, Book, NEW r \in Req, Accept(r)
  PROVE  MailInv' /\ Book'
<1>1. pos[r] = "probe" /\ Fits(r, "probe")
  BY AtPos, FitsHere DEF Accept
<1>2. MailInv' /\ pos' = [pos EXCEPT ![r] = "reconcile"] /\ Announced' = Announced
  BY WentOn DEF Accept, StepsOf, Continues
<1>3. PICK did \in BOOLEAN :
        /\ ProbeEnds(got[r], r, did)
        /\ streaming' = IF did THEN streaming \cup {r} ELSE streaming
  BY DEF Accept
<1>4. doomed \subseteq doomed' /\ doomed' \subseteq doomed \cup {got[r]}
  BY <1>3, FailsDooms DEF ProbeEnds
<1>5. OnlyAnswers(r) /\ answer[r] = "none" /\ answer'[r] = "ok"
  BY <1>1, AnswersOnly DEF Accept, Fits, AnswerFits
<1>6. Keeps(r, "probe")
  BY <1>1 DEF Keeps, Fits, PhaseFits
<1>7. Frame /\ MayDoom /\ \A q \in Req \ {r} : Untouched(q)
  BY <1>1, <1>2, <1>3, <1>4, <1>5, <1>6, KeeperMayDoom
     DEF Accept, Frame, Untouched, over, OnlyAnswers
<1>8. Passes(r, "probe", "reconcile")
  BY <1>1 DEF Passes, Fits, KindFits, PhaseFits, TurnFits, Keeps, Unattached, Fresh
<1>9. TurnEnds(r, "reconcile")'
  <2> SUFFICES ASSUME NEW p \in Proc, turn[p] = r
               PROVE  got[r] = p /\ ~Ended(r, "reconcile")'
    BY <1>7 DEF TurnEnds, Frame
  <2>1. got[r] = p /\ ~Ended(r, "probe")
    BY <1>1 DEF Fits, TurnEnds
  <2>2. did
    BY <1>3, <2>1 DEF ProbeEnds, PromptStarted
  <2> QED BY <1>3, <1>7, <2>1, <2>2 DEF Ended, Fresh, Frame
<1>10. AnswerFits(r, "reconcile")'
  BY <1>5 DEF AnswerFits
<1>11. gen[r] > 0
  BY <1>1 DEF Fits, TurnFits
<1> QED BY <1>1, <1>2, <1>7, <1>8, <1>9, <1>10, <1>11, PassKeeps
     DEF MayMove, Accept, Book, PhasesFit

\* The start is over: the handler waits, probes or settles at once.
LEMMA StartEndsKeeps ==
  ASSUME TypeOK, MailInv, Book, NEW r \in Req, StartEnds(r)
  PROVE  MailInv' /\ Book'
<1>1. pos[r] = "reconcile" /\ Fits(r, "reconcile")
  BY AtPos, FitsHere DEF StartEnds
<1>2. PICK b \in {"settling", "probing", "waiting"} :
        /\ MailInv' /\ pos' = [pos EXCEPT ![r] = b] /\ Announced' \subseteq Announced
        /\ b = "settling" => kind[r] # "fork" /\ r \notin streaming
        /\ b = "probing" => kind[r] = "fork"
        /\ b = "waiting" => kind[r] # "fork" /\ r \in streaming
  <2>1. CASE kind[r] # "fork" /\ r \notin streaming
    BY <2>1, Requeued DEF StartEnds, Continues, Moves
  <2>2. CASE ~(kind[r] # "fork" /\ r \notin streaming)
    BY <2>2, TaskEnded DEF StartEnds, Continues, Moves
  <2> QED BY <2>1, <2>2
<1>3. Frame /\ MayDoom /\ (\A q \in Req : Untouched(q)) /\ OnlyAnswers(r)
  BY <1>2 DEF StartEnds, Frame, MayDoom, Untouched, over, OnlyAnswers
<1>4. Passes(r, "reconcile", b)
  BY <1>1, <1>2 DEF Passes, Fits, KindFits, PhaseFits, TurnFits, Keeps, Unattached, Fresh
<1>5. Ended(r, "reconcile") \/ TurnEnds(r, b)'
  <2>1. CASE b = "settling"
    BY <1>2, <2>1 DEF Ended
  <2>2. CASE b # "settling"
    BY <1>1, <1>3, <2>2 DEF Fits, TurnEnds, Ended, Fresh, Frame
  <2> QED BY <2>1, <2>2
<1>6. AnswerFits(r, b)'
  BY <1>1, <1>3, AnswerStands DEF StartEnds, Fits
<1> QED BY <1>1, <1>2, <1>3, <1>4, <1>5, <1>6, PassKeeps DEF MayMove, StartEnds, Book, PhasesFit

\* A turn whose process does not answer is over, or its process is given up.
LEMMA FailureEndsTurn ==
  ASSUME TypeOK, Book, NEW r \in Req, NEW s, Fits(r, s), RpcFails(got[r], FALSE),
         UNCHANGED <<turn, gen, got>>, over' \subseteq over, gen[r] > 0
  PROVE  TurnEnds(r, "caught")'
<1> SUFFICES ASSUME NEW p \in Proc, turn[p] = r
             PROVE  got[r] = p /\ ~Ended(r, "caught")' /\ p \in doomed'
  BY DEF TurnEnds
<1>1. got[r] = p /\ ~Ended(r, s)
  BY DEF Fits, TurnEnds
<1>2. life[p] # "dead"
  BY RuntimeAssumption DEF Book, ProcessesFit
<1>3. p \in doomed'
  BY <1>1, <1>2, FailsDooms
<1>4. ~Ended(r, "caught")'
  BY <1>1 DEF Ended, Fresh, TypeOK
<1> QED BY <1>1, <1>3, <1>4

\* The process gives no answer: it is dead or given up, and so is its turn.
LEMMA ReconcileFailsKeeps ==
  ASSUME TypeOK, MailInv, Book, NEW r \in Req, NEW d, ReconcileFails(d, r)
  PROVE  MailInv' /\ Book'
<1>1. PICK a \in {"reconcile", "ending"} : pos[r] = a /\ Fits(r, a)
  BY AtPos, FitsHere DEF ReconcileFails
<1>2. MailInv' /\ pos' = [pos EXCEPT ![r] = "caught"] /\ Announced' \subseteq Announced
  BY TaskEnded DEF ReconcileFails, Moves, Continues
<1>3. doomed \subseteq doomed' /\ doomed' \subseteq doomed \cup {got[r]}
  BY FailsDooms DEF ReconcileFails
<1>4. Keeps(r, a)
  BY <1>1 DEF Keeps, Fits, PhaseFits
<1>5. Frame /\ MayDoom /\ (\A q \in Req : Untouched(q)) /\ OnlyAnswers(r)
  BY <1>1, <1>2, <1>3, <1>4, KeeperMayDoom DEF ReconcileFails, Frame, Untouched, over, OnlyAnswers
<1>6. Passes(r, a, "caught")
  BY <1>1 DEF Passes, Fits, KindFits, PhaseFits, TurnFits, Keeps, Unattached, Fresh
<1>7. gen[r] > 0
  BY <1>1 DEF Fits, TurnFits
<1>8. TurnEnds(r, "caught")'
  BY <1>1, <1>5, <1>7, FailureEndsTurn DEF ReconcileFails, Frame
<1>9. AnswerFits(r, "caught")'
  BY <1>1, <1>5, AnswerStands DEF ReconcileFails, Fits
<1> QED BY <1>1, <1>2, <1>5, <1>6, <1>8, <1>9, PassKeeps
     DEF MayMove, ReconcileFails, Book, PhasesFit

\* A fork whose turn does not run is settled; one that runs is waited for.
LEMMA ForkProbesKeeps ==
  ASSUME TypeOK, MailInv, Book, NEW r \in Req, ForkProbes(r)
  PROVE  MailInv' /\ Book'
<1>1. pos[r] = "probing" /\ Fits(r, "probing")
  BY OutsidePos, FitsHere DEF ForkProbes
<1>2. PICK b \in {"waiting", "settling", "deaf", "caught"} :
        /\ at' = [at EXCEPT ![r] = b]
        /\ IF b = "settling" THEN Enqueue(Task("settle", r)) ELSE UNCHANGED mailVars
        /\ doomed \subseteq doomed' /\ doomed' \subseteq doomed \cup {got[r]}
        /\ b = "settling" => turn[got[r]] # r
        /\ b \in {"deaf", "caught"} => life[got[r]] = "dead"
  <2>1. CASE /\ life[got[r]] # "dead"
             /\ IF PromptStarted(got[r], r)
                THEN Moves(r, "waiting") /\ UNCHANGED mailVars
                ELSE EnqueueSettlement(r)
             /\ doomed' = doomed
    BY <2>1 DEF Moves, EnqueueSettlement, PromptStarted
  <2>2. CASE /\ RpcFails(got[r], FALSE)
             /\ \E a \in IF life[got[r]] = "dead" THEN {"deaf", "caught"} ELSE {"waiting"} :
                  Moves(r, a)
             /\ UNCHANGED mailVars
    BY <2>2, FailsDooms DEF Moves
  <2> QED BY <2>1, <2>2 DEF ForkProbes
<1>3. MailInv' /\ pos' = [pos EXCEPT ![r] = b] /\ Announced' = Announced
  <2>1. at[r] = "probing" /\ Continues
    BY DEF ForkProbes, Continues
  <2>2. CASE b = "settling"
    BY <1>2, <2>1, <2>2, Enqueued DEF Place
  <2>3. CASE b # "settling"
    BY <1>2, <2>1, <2>3, Moved
  <2> QED BY <2>2, <2>3
<1>4. Keeps(r, "probing")
  BY <1>1 DEF Keeps, Fits, TurnFits
<1>5. Frame /\ MayDoom /\ (\A q \in Req : Untouched(q)) /\ OnlyAnswers(r)
  BY <1>1, <1>2, <1>3, <1>4, KeeperMayDoom DEF ForkProbes, Frame, Untouched, over, OnlyAnswers
<1>6. kind[r] = "fork" /\ gen[r] > 0 /\ got[r] \in Proc
  BY <1>1 DEF Fits, KindFits, TurnFits
<1>7. Passes(r, "probing", b)
  BY <1>1, <1>6 DEF Passes, Fits, KindFits, PhaseFits, TurnFits, Keeps, Unattached, Fresh
<1>8. TurnEnds(r, b)'
  <2> SUFFICES ASSUME NEW p \in Proc, turn[p] = r
               PROVE  /\ got[r] = p /\ ~Ended(r, b)'
                      /\ b \in Failing \cup {"done"} => p \in doomed'
    BY <1>5 DEF TurnEnds, Frame
  <2>1. got[r] = p /\ ~Ended(r, "probing")
    BY <1>1 DEF Fits, TurnEnds
  <2>2. life[p] # "dead"
    BY RuntimeAssumption DEF Book, ProcessesFit
  <2>3. b = "waiting"
    BY <1>2, <2>1, <2>2
  <2> QED BY <1>5, <2>1, <2>3 DEF Ended, Fresh, Frame
<1>9. AnswerFits(r, b)'
  BY <1>1, <1>5, AnswerStands DEF ForkProbes, Fits
<1> QED BY <1>1, <1>3, <1>5, <1>7, <1>8, <1>9, PassKeeps DEF MayMove, ForkProbes, Book, PhasesFit

\* The settlement of the turn is known.
LEMMA TurnSettledKeeps ==
  ASSUME TypeOK, MailInv, Book, NEW r \in Req, TurnSettled(r)
  PROVE  MailInv' /\ Book'
<1>1. PICK a \in {"waiting", "deaf"} : pos[r] = a /\ Fits(r, a) /\ at[r] = a
  BY OutsidePos, FitsHere DEF TurnSettled
<1>2. MailInv' /\ pos' = [pos EXCEPT ![r] = "settling"] /\ Announced' = Announced
  BY <1>1, Enqueued DEF TurnSettled, EnqueueSettlement, Moves, Continues, Place
<1>3. Frame /\ MayDoom /\ (\A q \in Req : Untouched(q)) /\ OnlyAnswers(r)
  BY <1>2 DEF TurnSettled, Frame, MayDoom, Untouched, over, OnlyAnswers
<1>4. Passes(r, a, "settling") /\ Ended(r, a)
  BY <1>1 DEF Passes, Fits, KindFits, PhaseFits, TurnFits, Keeps, Unattached, Fresh, Ended,
              TurnSettled, over
<1>5. AnswerFits(r, "settling")'
  BY <1>1, <1>3, AnswerStands DEF TurnSettled, Fits
<1> QED BY <1>1, <1>2, <1>3, <1>4, <1>5, PassKeeps DEF MayMove, TurnSettled, Book, PhasesFit

\* The process exits under a turn that is waited for.
LEMMA TurnExitedKeeps ==
  ASSUME TypeOK, MailInv, Book, NEW r \in Req, TurnExited(r)
  PROVE  MailInv' /\ Book'
<1>1. pos[r] = "waiting" /\ Fits(r, "waiting") /\ at[r] = "waiting"
  BY OutsidePos, FitsHere DEF TurnExited, HearsExit
<1>2. MailInv' /\ pos' = [pos EXCEPT ![r] = "caught"] /\ Announced' = Announced
  BY <1>1, Moved DEF TurnExited, Moves, Continues
<1>3. Frame /\ MayDoom /\ (\A q \in Req : Untouched(q)) /\ OnlyAnswers(r)
  BY <1>2 DEF TurnExited, Frame, MayDoom, Untouched, over, OnlyAnswers
<1>4. Passes(r, "waiting", "caught")
  BY <1>1 DEF Passes, Fits, KindFits, PhaseFits, TurnFits, Keeps, Unattached, Fresh
<1>5. TurnEnds(r, "caught")'
  <2>1. \A p \in Proc : turn[p] # r
    BY <1>1, RuntimeAssumption DEF Fits, TurnEnds, TurnExited, HearsExit, Book, ProcessesFit
  <2> QED BY <2>1, <1>3 DEF TurnEnds, Frame
<1>6. AnswerFits(r, "caught")'
  BY <1>1, <1>3, AnswerStands DEF TurnExited, Fits
<1> QED BY <1>1, <1>2, <1>3, <1>4, <1>5, <1>6, PassKeeps DEF MayMove, TurnExited, Book, PhasesFit

\* Whose generation is that of a turn has the lease.
LEMMA TurnHasLease ==
  ASSUME TypeOK, Book, NEW r \in Req, gen[r] = generation, IsTurnActive
  PROVE  lease = r
<1>1. lease # NoReq
  BY NoLease
<1>2. lease \in Req /\ gen[lease] = generation /\ generation > 0
  BY <1>1, LeaseIsKept
<1> QED BY <1>2 DEF Book, TurnsCounted

\* Between two tasks an actor with a lease is in a turn.
LEMMA CleanMailbox ==
  ASSUME TypeOK, MailInv, Book, step = "begin"
  PROVE  lease # NoReq <=> IsTurnActive
<1>1. \A q \in Req : pos[q] = at[q]
  BY DEF pos, Pos
<1> QED BY <1>1, LeaseIsKept, NoLease DEF MailInv

\* The settlement goes on exactly if the turn is still the actor's.
LEMMA BeginSettleKeeps ==
  ASSUME TypeOK, MailInv, Book, NEW r \in Req, BeginSettle(r)
  PROVE  MailInv' /\ Book'
<1>1. pos[r] = "settling" /\ Fits(r, "settling") /\ step = "begin"
  BY AtPos, FitsHere DEF BeginSettle, Place, At
<1>2. Keeps(r, "settling")
  BY <1>1 DEF Keeps, Fits, TurnFits
<1>3. OwnsTurn(r) <=> lease = r /\ IsTurnActive
  <2>1. ASSUME OwnsTurn(r) PROVE lease = r /\ IsTurnActive
    <3>1. lease = r
      BY <1>1, <1>2, <2>1, OwnerHasLease DEF OwnsTurn
    <3> QED BY <3>1, <1>1, CleanMailbox, RuntimeAssumption
  <2>2. ASSUME lease = r, IsTurnActive PROVE OwnsTurn(r)
    BY <2>2, LeaseIsKept, RuntimeAssumption DEF OwnsTurn, Owns
  <2> QED BY <2>1, <2>2
<1>4. lease = r => IsTurnActive
  BY <1>1, CleanMailbox, RuntimeAssumption
<1>5. PICK b \in {"ending", "done"} :
        /\ MailInv' /\ pos' = [pos EXCEPT ![r] = b] /\ Announced' \subseteq Announced
        /\ b = "ending" => lease = r /\ IsTurnActive
        /\ b = "done" => lease # r
  <2>1. CASE OwnsTurn(r)
    BY <1>3, <2>1, WentOn DEF BeginSettle, StepsOf, Continues
  <2>2. CASE ~OwnsTurn(r)
    BY <1>3, <1>4, <2>2, TaskEnded DEF BeginSettle, Moves, Continues
  <2> QED BY <2>1, <2>2
<1>6. Frame /\ MayDoom /\ (\A q \in Req : Untouched(q)) /\ OnlyAnswers(r)
  BY <1>5 DEF BeginSettle, Frame, MayDoom, Untouched, over, OnlyAnswers
<1>7. Passes(r, "settling", b) /\ Ended(r, "settling")
  BY <1>1, <1>5 DEF Passes, Fits, KindFits, PhaseFits, TurnFits, Keeps, Unattached, Fresh,
                    Ended, IsTurnActive, TurnPhases
<1>8. AnswerFits(r, b)'
  BY <1>1, <1>6, AnswerStands DEF BeginSettle, Fits
<1> QED BY <1>1, <1>5, <1>6, <1>7, <1>8, PassKeeps DEF MayMove, BeginSettle, Book, PhasesFit

\* The catch block leaves the lease of the actor to a task.
LEMMA CatchDefersKeeps ==
  ASSUME TypeOK, MailInv, Book, NEW r \in Req, Catch(r), HasProc(r), Owns(r)
  PROVE  MailInv' /\ Book'
<1>1. pos[r] = "caught" /\ Fits(r, "caught") /\ at[r] = "caught"
  BY OutsidePos, FitsHere DEF Catch
<1>2. MailInv' /\ pos' = [pos EXCEPT ![r] = "failing"] /\ Announced' = Announced
  BY <1>1, Enqueued DEF Catch, Moves, Continues, Place
<1>3. Frame /\ MayDoom /\ (\A q \in Req : Untouched(q)) /\ OnlyAnswers(r)
  BY <1>2 DEF Catch, Frame, MayDoom, Untouched, over, OnlyAnswers
<1>4. got[r] \in Proc /\ (kind[r] = "prompt" => gen[r] > 0)
  BY RuntimeAssumption DEF Owns, TypeOK, HasProc
<1>5. lease = r
  <2>1. Keeps(r, "caught")
    BY <1>4 DEF Keeps
  <2> QED BY <1>1, <2>1, OwnerHasLease
<1>6. Passes(r, "caught", "failing")
  BY <1>1, <1>4, <1>5 DEF Passes, Fits, KindFits, PhaseFits, TurnFits, Keeps, Unattached, Fresh
<1>7. Ended(r, "caught") \/ TurnEnds(r, "failing")'
  BY <1>1, <1>3 DEF Fits, TurnEnds, Ended, Fresh, Frame
<1>8. AnswerFits(r, "failing")'
  BY <1>1, <1>3, AnswerStands DEF Catch, Fits
<1> QED BY <1>1, <1>2, <1>3, <1>6, <1>7, <1>8, PassKeeps DEF MayMove, Catch, Book, PhasesFit

\* A prompt finds a turn and becomes steering.
LEMMA BeginSteerKeeps ==
  ASSUME TypeOK, MailInv, Book, NEW r \in Req, NEW d, BeginSteer(d, r)
  PROVE  MailInv' /\ Book'
<1>1. pos[r] = "queued" /\ Fits(r, "queued") /\ d = FirstTask(kind[r]) /\ d \in {"start", "steer"}
  BY AtPos, FitsHere DEF BeginSteer, Place
<1>2. phase # "detached" /\ IsTurnActive
  BY DEF BeginSteer, IsTurnActive, TurnPhases
<1>3. gen[r] = 0
  BY <1>1 DEF Fits, TurnFits, TypeOK
<1>4. kind[r] \in {"prompt", "steer"}
  BY <1>1, <1>2, <1>3, RuntimeAssumption DEF BeginSteer, Fits, Unknown, FirstTask, TypeOK
<1>5. MailInv' /\ pos' = [pos EXCEPT ![r] = "steer"] /\ Announced' = Announced
  BY <1>1, WentOn DEF BeginSteer, StepsOf, Continues
<1>6. Frame /\ MayDoom /\ \A q \in Req : Untouched(q)
  BY <1>5 DEF BeginSteer, Frame, MayDoom, Untouched, over
<1>7. Passes(r, "queued", "steer") /\ Ended(r, "queued")
  BY <1>1, <1>2, <1>3, <1>4 DEF Passes, Fits, KindFits, PhaseFits, TurnFits, Keeps, Unattached,
                                Fresh, Ended, IsTurnActive, TurnPhases
<1>8. AnswerFits(r, "steer")'
  BY <1>1, <1>6 DEF Fits, AnswerFits, Untouched
<1> QED BY <1>1, <1>2, <1>5, <1>6, <1>7, <1>8, PassKeeps DEF MayMove, BeginSteer

\* What a command that used the process of the turn leaves behind.
LEMMA UserEndsKeeps ==
  ASSUME TypeOK, MailInv, Book, NEW r \in Req, NEW d \in Handlers,
         NEW s \in {"steer", "abort", "peek"}, At(d, r, s), TaskEnds,
         NEW b \in {"caught", "done"}, at' = [at EXCEPT ![r] = b],
         b = "caught" => kind[r] \in Prompts, OnlyAnswers(r),
         doomed \subseteq doomed', doomed' \subseteq doomed \cup {Process},
         steering' \subseteq steering,
         UNCHANGED <<life, holder, turn, phase, lease, generation, status, streaming, settled,
                     kind, got, gen, accepted>>
  PROVE  MailInv' /\ Book'
<1>1. pos[r] = s /\ Fits(r, s)
  BY AtPos, FitsHere DEF StepsOf
<1>2. MailInv' /\ pos' = [pos EXCEPT ![r] = b] /\ Announced' \subseteq Announced
  BY TaskEnded DEF Continues
<1>3. lease # NoReq
  BY <1>1, NoLease DEF Fits, PhaseFits
<1>4. MayDoom
  BY <1>3, LeaseIsKept, KeeperMayDoom
<1>5. Frame /\ \A q \in Req \ {r} : Untouched(q)
  BY <1>2 DEF Frame, Untouched, over, OnlyAnswers
<1>6. Passes(r, s, b) /\ Ended(r, s)
  BY <1>1 DEF Passes, Fits, KindFits, PhaseFits, TurnFits, Keeps, Unattached, Fresh, Ended, TypeOK
<1>7. AnswerFits(r, b)'
  BY <1>1, AnswerStands DEF Fits
<1>8. phase = "detached" => steering' = {}
  BY DEF Book, PhasesFit
<1> QED BY <1>1, <1>2, <1>4, <1>5, <1>6, <1>7, <1>8, PassKeeps DEF MayMove

\* pi is told of a message.
LEMMA SteeredKeeps ==
  ASSUME TypeOK, MailInv, Book, NEW r \in Req, NEW d \in Handlers, Steered(d, r)
  PROVE  MailInv' /\ Book'
<1>1. at' = [at EXCEPT ![r] = "done"] /\ OnlyAnswers(r)
  BY AnswersOnly DEF Steered, Finishes, Moves
<1> QED BY <1>1, UserEndsKeeps DEF Steered

\* pi is not told of a message.
LEMMA SteerFailsKeeps ==
  ASSUME TypeOK, MailInv, Book, NEW r \in Req, NEW d \in Handlers, SteerFails(d, r)
  PROVE  MailInv' /\ Book'
<1>1. PICK b \in {"caught", "done"} :
        /\ at' = [at EXCEPT ![r] = b]
        /\ b = "caught" <=> kind[r] \in Prompts
        /\ OnlyAnswers(r)
  BY Thrown DEF SteerFails
<1>2. doomed \subseteq doomed' /\ doomed' \subseteq doomed \cup {Process}
  BY FailsDooms DEF SteerFails
<1> QED BY <1>1, <1>2, UserEndsKeeps DEF SteerFails

\* An abort ends.
LEMMA AbortEndsKeeps ==
  ASSUME TypeOK, MailInv, Book, NEW r \in Req, AbortEnds(r)
  PROVE  MailInv' /\ Book'
<1>1. at' = [at EXCEPT ![r] = "done"] /\ OnlyAnswers(r)
  BY AnswersOnly DEF AbortEnds, Finishes, Moves
<1>2. doomed \subseteq doomed' /\ doomed' \subseteq doomed \cup {Process}
  BY FailsDooms DEF AbortEnds
<1> QED BY <1>1, <1>2, UserEndsKeeps DEF AbortEnds

\* Statistics of the process of a turn end.
LEMMA StatsPeekedKeeps ==
  ASSUME TypeOK, MailInv, Book, NEW r \in Req, StatsPeeked(r)
  PROVE  MailInv' /\ Book'
<1>1. at' = [at EXCEPT ![r] = "done"] /\ OnlyAnswers(r)
  BY AnswersOnly DEF StatsPeeked, Finishes, Moves
<1>2. doomed \subseteq doomed' /\ doomed' \subseteq doomed \cup {Process}
  BY FailsDooms DEF StatsPeeked
<1> QED BY <1>1, <1>2, UserEndsKeeps DEF StatsPeeked

\* A command that needs no process of its own ends at once.
LEMMA CommandAnsweredKeeps ==
  ASSUME TypeOK, MailInv, Book, NEW r \in Req, NEW d \in {"unsteer", "abort", "kill"},
         At(d, r, "begin"), TaskEnds, Finishes(r, "ok"), steering' \subseteq steering,
         UNCHANGED <<life, doomed, holder, turn, phase, lease, generation, status, streaming,
                     settled, kind, got, gen, accepted>>
  PROVE  MailInv' /\ Book'
<1>1. pos[r] = "queued" /\ Fits(r, "queued") /\ d = FirstTask(kind[r])
  BY AtPos, FitsHere DEF Place
<1>2. at' = [at EXCEPT ![r] = "done"] /\ OnlyAnswers(r)
  BY AnswersOnly DEF Finishes, Moves
<1>3. MailInv' /\ pos' = [pos EXCEPT ![r] = "done"] /\ Announced' \subseteq Announced
  BY <1>2, TaskEnded DEF Continues
<1>4. Frame /\ MayDoom /\ \A q \in Req \ {r} : Untouched(q)
  BY <1>2, <1>3 DEF Frame, MayDoom, Untouched, over, OnlyAnswers
<1>5. Passes(r, "queued", "done") /\ Ended(r, "queued")
  BY <1>1 DEF Passes, Fits, KindFits, PhaseFits, TurnFits, Keeps, Unattached, Fresh, Ended,
              TypeOK, FirstTask
<1>6. AnswerFits(r, "done")'
  BY <1>1, <1>2, AnswerStands DEF Fits
<1>7. phase = "detached" => steering' = {}
  BY DEF Book, PhasesFit
<1> QED BY <1>1, <1>3, <1>4, <1>5, <1>6, <1>7, PassKeeps DEF MayMove

\* A message is taken from the queue.
LEMMA RemoveSteeringKeeps ==
  ASSUME TypeOK, MailInv, Book, NEW r \in Req, RemoveSteering(r)
  PROVE  MailInv' /\ Book'
<1>1. steering' \subseteq steering
  BY DEF RemoveSteering
<1> QED BY <1>1, CommandAnsweredKeeps DEF RemoveSteering

\* An abort without a turn ends at once.
LEMMA BeginAbortKeeps ==
  ASSUME TypeOK, MailInv, Book, NEW r \in Req, BeginAbort(r)
  PROVE  MailInv' /\ Book'
<1>1. CASE ~IsTurnActive
  BY <1>1, CommandAnsweredKeeps DEF BeginAbort
<1>2. CASE IsTurnActive
  <2>1. pos[r] = "queued" /\ Fits(r, "queued") /\ FirstTask(kind[r]) = "abort"
    BY AtPos, FitsHere DEF BeginAbort, Place
  <2>2. MailInv' /\ pos' = [pos EXCEPT ![r] = "abort"] /\ Announced' = Announced
    BY <1>2, WentOn DEF BeginAbort, StepsOf, Continues
  <2>3. Frame /\ MayDoom /\ \A q \in Req : Untouched(q)
    BY <1>2, <2>2 DEF BeginAbort, Frame, MayDoom, Untouched, over
  <2>4. Passes(r, "queued", "abort") /\ Ended(r, "queued")
    BY <1>2, <2>1 DEF Passes, Fits, KindFits, PhaseFits, TurnFits, Keeps, Unattached, Fresh,
                      Ended, TypeOK, FirstTask, IsTurnActive, TurnPhases
  <2>5. AnswerFits(r, "abort")'
    BY <2>1, <2>3 DEF Fits, AnswerFits, Untouched
  <2> QED BY <1>2, <2>1, <2>2, <2>3, <2>4, <2>5, PassKeeps
       DEF MayMove, BeginAbort, Book, PhasesFit
<1> QED BY <1>1, <1>2

\* While a new session is unknown, no other request arrives.
LEMMA SubmitKeeps ==
  ASSUME TypeOK, MailInv, OneCreator, Book, NEW r \in Req, Submit(r)
  PROVE  MailInv' /\ Book'
<1>1. pos[r] = "idle" /\ Fits(r, "idle")
  BY OutsidePos, FitsHere DEF Submit
<1>2. PICK b \in {"acquiring", "queued"} :
        /\ MailInv' /\ pos' = [pos EXCEPT ![r] = b] /\ Announced' = Announced
        /\ b = "acquiring" <=> kind[r] = "new"
  <2>1. at[r] = "idle" /\ Continues
    BY DEF Submit, Continues
  <2>2. CASE kind[r] = "new"
    BY <2>1, <2>2, Moved DEF Submit, Moves
  <2>3. CASE kind[r] # "new"
    <3>1. FirstTask(kind[r]) \in Handlers /\ Place(FirstTask(kind[r])) = "queued"
      BY RuntimeAssumption DEF FirstTask, Place, TypeOK
    <3> QED BY <2>1, <2>3, <3>1, Enqueued DEF Submit, Moves
  <2> QED BY <2>2, <2>3
<1>3. Frame /\ MayDoom /\ \A q \in Req : Untouched(q)
  BY <1>2 DEF Submit, Frame, MayDoom, Untouched, over
<1>4. MayMove(r)
  <2> SUFFICES ASSUME NEW q \in Req \ {r}, kind[q] = "new", gen[q] = 0 PROVE FALSE
    BY DEF MayMove
  <2>1. status = "hidden"
    BY FitsHere DEF Fits, Unknown
  <2>2. kind[r] \notin Creators
    BY DEF OneCreator
  <2> QED BY <2>1, <2>2 DEF Submit, Addressable
<1>5. Passes(r, "idle", b) /\ Ended(r, "idle")
  BY <1>1, <1>2
       DEF Passes, Fits, KindFits, PhaseFits, TurnFits, Keeps, Unattached, Fresh, Ended, TypeOK
<1>6. AnswerFits(r, b)'
  BY <1>1, <1>3 DEF Fits, AnswerFits, Untouched
<1> QED BY <1>1, <1>2, <1>3, <1>4, <1>5, <1>6, PassKeeps DEF Submit, Book, PhasesFit

-------------------------------------------------------------------------------
(* Leases *)

\* A request leases a process from the pool.
LEMMA LeaseTaken ==
  ASSUME TypeOK, MailInv, Book, NEW r \in Req, NEW p \in Proc, Available(p),
         NEW a \in {"acquiring", "acquire"}, pos[r] = a,
         NEW b, b = IF a = "acquire" THEN "switch" ELSE "creating",
         pos' = [pos EXCEPT ![r] = b], over' \subseteq over,
         holder' = [holder EXCEPT ![p] = r], got' = [got EXCEPT ![r] = p],
         UNCHANGED <<kind, phase, lease, generation, gen, steering, status, life, doomed,
                     turn, streaming, answer, accepted>>
  PROVE  Book'
<1>1. pos \in [Req -> Places \cup Inside]
  BY PosType
<1>2. Fits(r, a)
  BY FitsHere
<1>3. gen[r] = 0 /\ got[r] \notin Proc /\ lease # r
  BY <1>2 DEF Fits, TurnFits, PhaseFits, TypeOK
<1>4. pos'[r] = b /\ \A q \in Req \ {r} : pos'[q] = pos[q]
  BY <1>1
<1>5. got' \in [Req -> Proc \cup {NoProc}] /\ got'[r] = p /\ \A q \in Req \ {r} : got'[q] = got[q]
  BY DEF TypeOK
<1>6. holder'[p] = r /\ \A x \in Proc \ {p} : holder'[x] = holder[x]
  BY DEF TypeOK
<1>7. holder[p] = NoReq /\ ~Gone(p)
  BY DEF Available, Gone
<1>8. ASSUME NEW q \in Req, Keeps(q, pos[q]) PROVE got[q] # p
  BY <1>7, <1>8, FitsHere, RuntimeAssumption DEF Fits, Held
<1>9. turn[p] = NoReq
  <2>1. CASE lease = NoReq
    BY <2>1, <1>7, NoLease DEF Book, ProcessesFit, Gone
  <2>2. CASE lease # NoReq
    <3>1. lease \in Req /\ got[lease] # p
      BY <2>2, <1>8, LeaseIsKept
    <3>2. turn[p] # lease
      BY <3>1, FitsHere DEF Fits, TurnEnds
    <3> QED BY <3>2, <1>7 DEF Book, ProcessesFit, Gone
  <2> QED BY <2>1, <2>2
<1>10. ASSUME NEW q \in Req \ {r} PROVE Fits(q, pos[q])'
  <2>1. PICK s : s = pos[q]
    OBVIOUS
  <2>2. Fits(q, s)
    BY <2>1, FitsHere
  <2>3. KindFits(q, s)' /\ PhaseFits(q, s)' /\ TurnFits(q, s)' /\ AnswerFits(q, s)'
    BY <2>2, <1>5 DEF Fits, KindFits, PhaseFits, TurnFits, AnswerFits, IsTurnActive
  <2>4. Held(q, s)'
    BY <2>1, <2>2, <1>5, <1>6, <1>8 DEF Fits, Held, Keeps, Gone
  <2>5. Accounted(q, s)'
    BY <2>2, <1>5, <1>6 DEF Fits, Accounted, Unattached
  <2>6. Quiet(q, s)' /\ TurnEnds(q, s)'
    BY <2>2, <1>5 DEF Fits, Quiet, Keeps, Fresh, TurnEnds, Ended
  <2>7. Unknown(q)'
    BY <2>2 DEF Fits, Unknown
  <2>8. Fits(q, s)'
    BY <2>3, <2>4, <2>5, <2>6, <2>7 DEF Fits
  <2> QED BY <2>1, <2>8, <1>4
<1>11. Fits(r, b)'
  <2>1. KindFits(r, b)' /\ PhaseFits(r, b)' /\ TurnFits(r, b)' /\ AnswerFits(r, b)'
    BY <1>2, <1>3, <1>5 DEF Fits, KindFits, PhaseFits, TurnFits, AnswerFits, IsTurnActive
  <2>2. Held(r, b)'
    BY <1>5, <1>6 DEF Held
  <2>3. Accounted(r, b)'
    BY <1>2, <1>3, <1>5, <1>6 DEF Fits, Accounted, Unattached
  <2>4. Quiet(r, b)' /\ TurnEnds(r, b)'
    BY <1>2, <1>3, <1>5, <1>9 DEF Fits, Quiet, Keeps, Fresh, TurnEnds, Ended
  <2>5. Unknown(r)'
    BY <1>2, <1>4 DEF Fits, Unknown
  <2> QED BY <2>1, <2>2, <2>3, <2>4, <2>5 DEF Fits
<1>12. RequestsFit'
  BY <1>4, <1>10, <1>11 DEF RequestsFit
<1>13. KeptOnce'
  <2>1. ASSUME NEW q \in Req \ {r}, Keeps(q, pos[q])' PROVE Keeps(q, pos[q]) /\ got'[q] = got[q]
    BY <2>1, <1>4, <1>5 DEF Keeps
  <2> QED BY <2>1, <1>5, <1>8 DEF KeptOnce, Book
<1>14. PhasesFit' /\ TurnsCounted'
  BY DEF Book, PhasesFit, TurnsCounted, IsTurnActive
<1>15. ProcessesFit'
  BY <1>6, <1>7, RuntimeAssumption DEF Book, ProcessesFit, IsTurnActive, Gone
<1> QED BY <1>12, <1>13, <1>14, <1>15 DEF Book

\* A new session leases a process.
LEMMA AcquireNewKeeps ==
  ASSUME TypeOK, MailInv, Book, NEW r \in Req, NEW p \in Proc, AcquireNew(r, p)
  PROVE  MailInv' /\ Book'
<1>1. pos[r] = "acquiring"
  BY OutsidePos DEF AcquireNew
<1>2. MailInv' /\ pos' = [pos EXCEPT ![r] = "creating"] /\ Announced' = Announced
  BY Moved DEF AcquireNew, Moves, Continues
<1> QED BY <1>1, <1>2, LeaseTaken DEF AcquireNew, over

\* A task of the mailbox leases a process.
LEMMA AcquireKeeps ==
  ASSUME TypeOK, MailInv, Book, NEW r \in Req, NEW p \in Proc,
         NEW d \in {"start", "compact", "stats"}, Acquire(d, r, p)
  PROVE  MailInv' /\ Book'
<1>1. pos[r] = "acquire"
  BY AtPos DEF Acquire
<1>2. MailInv' /\ pos' = [pos EXCEPT ![r] = "switch"] /\ Announced' = Announced
  BY WentOn DEF Acquire, StepsOf, Continues
<1> QED BY <1>1, <1>2, LeaseTaken DEF Acquire, over

\* A turn more has begun.
LEMMA OneMoreTurn ==
  ASSUME TypeOK, TurnsCounted, NEW r \in Req, gen[r] = 0,
         generation' = generation + 1, gen' = [gen EXCEPT ![r] = generation + 1]
  PROVE  TurnsCounted' /\ \A q \in Req \ {r} : gen'[q] = gen[q] /\ gen[q] < generation'
<1> DEFINE S == {q \in Req : gen[q] > 0}
<1>1. /\ gen \in [Req -> Nat] /\ generation \in Nat
      /\ \A q \in Req : gen[q] <= generation
  BY DEF TypeOK
<1>2. gen'[r] = generation + 1 /\ \A q \in Req \ {r} : gen'[q] = gen[q]
  BY <1>1
<1>3. {q \in Req : gen'[q] > 0} = S \cup {r}
  BY <1>1, <1>2
<1>4. IsFiniteSet(S) /\ r \notin S
  BY FS_Subset, RuntimeAssumption
<1>5. Cardinality(S \cup {r}) = Cardinality(S) + 1
  BY <1>4, FS_AddElement
<1>6. \A q, s \in Req : gen'[q] = gen'[s] /\ gen'[s] > 0 => q = s
  <2> SUFFICES ASSUME NEW q \in Req, NEW s \in Req, gen'[q] = gen'[s], gen'[s] > 0
               PROVE  q = s
    OBVIOUS
  <2>1. CASE q = r \/ s = r
    BY <2>1, <1>1, <1>2
  <2>2. CASE q # r /\ s # r
    BY <2>2, <1>2 DEF TurnsCounted
  <2> QED BY <2>1, <2>2
<1> QED BY <1>1, <1>2, <1>3, <1>5, <1>6 DEF TurnsCounted

\* The lease of a request that has just begun passes to the actor.
LEMMA Attached ==
  ASSUME TypeOK, MailInv, Book, NEW r \in Req, NEW a \in {"queued", "switch"}, pos[r] = a,
         a = "queued" => kind[r] = "new", phase = "detached",
         NEW b, b = IF kind[r] \in Prompts THEN "control" ELSE "rpc",
         pos' = [pos EXCEPT ![r] = b], \A q \in Req \ {r} : pos[q] = at[q],
         over' \subseteq over, Attach(r),
         IF kind[r] \in Prompts THEN BeginTurn(r)
                                ELSE phase' = "ready" /\ UNCHANGED <<generation, gen>>,
         UNCHANGED <<kind, got, holder, life, doomed, turn, streaming, answer, accepted>>
  PROVE  Book'
<1>1. pos \in [Req -> Places \cup Inside]
  BY PosType
<1>2. Fits(r, a) /\ gen[r] = 0 /\ lease = NoReq /\ lease' = r
  BY FitsHere DEF Fits, TurnFits, TypeOK, Book, PhasesFit, Attach
<1>3. got[r] \in Proc
  BY <1>2 DEF Fits, TurnFits
<1>4. pos'[r] = b /\ \A q \in Req \ {r} : pos'[q] = pos[q]
  BY <1>1
<1>5. phase' = IF kind[r] \in Prompts THEN "starting" ELSE "ready"
  BY DEF BeginTurn
<1>6. /\ TurnsCounted' /\ \A q \in Req \ {r} : gen'[q] = gen[q]
      /\ IF kind[r] \in Prompts THEN gen'[r] = generation' /\ generation' > 0
                                ELSE gen'[r] = 0
  <2>1. CASE kind[r] \in Prompts
    BY <2>1, <1>2, OneMoreTurn DEF BeginTurn, Book, TypeOK
  <2>2. CASE kind[r] \notin Prompts
    BY <2>2, <1>2 DEF Book, TurnsCounted
  <2> QED BY <2>1, <2>2
<1>7. ASSUME NEW q \in Req \ {r} PROVE Fits(q, pos[q])'
  <2>1. PICK s \in Places : s = pos[q]
    BY DEF MailInv
  <2>2. Fits(q, s)
    BY <2>1, FitsHere
  <2>3. KindFits(q, s)' /\ PhaseFits(q, s)' /\ TurnFits(q, s)' /\ AnswerFits(q, s)'
    BY <2>2, <1>2, <1>6 DEF Fits, KindFits, PhaseFits, TurnFits, AnswerFits
  <2>4. Held(q, s)'
    BY <2>2, <1>6 DEF Fits, Held, Keeps, Gone
  <2>5. Accounted(q, s)'
    BY <2>2, <1>2, RuntimeAssumption DEF Fits, Accounted, Unattached
  <2>6. Quiet(q, s)' /\ TurnEnds(q, s)'
    BY <2>2, <1>6 DEF Fits, Quiet, Keeps, Fresh, TurnEnds, Ended
  <2>7. Unknown(q)'
    BY <2>2, <1>6 DEF Fits, Unknown
  <2>8. Fits(q, s)'
    BY <2>3, <2>4, <2>5, <2>6, <2>7 DEF Fits
  <2> QED BY <2>1, <2>8, <1>4
<1>8. Fits(r, b)'
  <2>1. KindFits(r, b)' /\ AnswerFits(r, b)'
    BY <1>2, RuntimeAssumption DEF Fits, KindFits, AnswerFits, TypeOK
  <2>2. PhaseFits(r, b)' /\ TurnFits(r, b)'
    BY <1>2, <1>3, <1>5, <1>6 DEF PhaseFits, TurnFits
  <2>3. Held(r, b)' /\ Accounted(r, b)'
    BY <1>2 DEF Fits, Held, Keeps, Gone, Accounted
  <2>4. Quiet(r, b)' /\ TurnEnds(r, b)'
    BY <1>2 DEF Fits, Quiet, Keeps, Fresh, TurnEnds, Ended
  <2>5. Unknown(r)'
    BY <1>6 DEF Unknown
  <2> QED BY <2>1, <2>2, <2>3, <2>4, <2>5 DEF Fits
<1>9. RequestsFit'
  BY <1>4, <1>7, <1>8 DEF RequestsFit
<1>10. KeptOnce'
  <2>1. ASSUME NEW q \in Req, Keeps(q, pos[q])' PROVE Keeps(q, pos[q])
    BY <2>1, <1>3, <1>4, <1>6 DEF Keeps
  <2> QED BY <2>1 DEF KeptOnce, Book
<1>11. PhasesFit'
  BY <1>2, <1>5, <1>6, RuntimeAssumption DEF PhasesFit, IsTurnActive, TurnPhases
<1>12. ProcessesFit'
  BY DEF Book, ProcessesFit, IsTurnActive, TurnPhases
<1> QED BY <1>6, <1>9, <1>10, <1>11, <1>12 DEF Book

\* The lease of a task passes to the actor.
LEMMA SwitchedKeeps ==
  ASSUME TypeOK, MailInv, Book, NEW r \in Req, NEW d \in {"start", "compact", "stats"},
         Switched(d, r)
  PROVE  MailInv' /\ Book'
<1>1. pos[r] = "switch" /\ Fits(r, "switch") /\ d = FirstTask(kind[r])
      /\ \A q \in Req \ {r} : pos[q] = at[q]
  BY AtPos, FitsHere DEF Switched
<1>2. kind[r] \in {"prompt", "fork", "compact", "stats"} /\ phase = "detached"
  BY <1>1 DEF Fits, KindFits, PhaseFits
<1>3. d = "start" <=> kind[r] \in Prompts
  BY <1>1, <1>2 DEF FirstTask
<1>4. PICK b : b = IF kind[r] \in Prompts THEN "control" ELSE "rpc"
  OBVIOUS
<1>5. MailInv' /\ pos' = [pos EXCEPT ![r] = b] /\ Announced' = Announced
  BY <1>3, <1>4, WentOn DEF Switched, StepsOf, Continues
<1> QED BY <1>1, <1>2, <1>3, <1>4, <1>5, Attached DEF Switched, over

\* The lease of a new session passes to the actor.
LEMMA BeginNewKeeps ==
  ASSUME TypeOK, MailInv, Book, NEW r \in Req, BeginNew(r)
  PROVE  MailInv' /\ Book'
<1>1. pos[r] = "queued" /\ \A q \in Req \ {r} : pos[q] = at[q]
  BY AtPos DEF BeginNew, Place
<1>2. MailInv' /\ pos' = [pos EXCEPT ![r] = "control"] /\ Announced' = Announced
  BY WentOn DEF BeginNew, StepsOf, Continues
<1> QED BY <1>1, <1>2, Attached DEF BeginNew, over

\* The actor gives its lease back.
LEMMA Detached ==
  ASSUME TypeOK, MailInv, Book, lease # NoReq,
         NEW lf \in [Proc -> {"up", "told", "dead"}], Detach(lf, doomed'),
         \A p \in Proc : lf[p] = "dead" <=> life[p] = "dead",
         \A p \in Proc : life[p] # "up" => lf[p] # "up",
         doomed \subseteq doomed', doomed' \subseteq doomed \cup {Process},
         UNCHANGED <<kind, turn, gen, got, accepted, streaming>>, over' \subseteq over,
         NEW r \in Req, NEW b, pos' = [pos EXCEPT ![r] = b],
         \A q \in Req : pos'[q] \in Places,
         b # pos[r] => /\ b = "done" /\ pos[r] # "idle"
                       /\ r = lease \/ got[r] \notin Proc,
         \A q \in Req \ {r} : answer'[q] = answer[q], AnswerFits(r, b)',
         pos'[lease] = "done" \/ Process \in doomed' \/ life[Process] = "dead",
         turn[Process] # NoReq => Process \in doomed'
  PROVE  Book'
<1>1. pos \in [Req -> Places \cup Inside]
  BY PosType
<1>2. pos'[r] = b /\ \A q \in Req \ {r} : pos'[q] = pos[q]
  BY <1>1
<1>3. lease \in Req /\ Process = got[lease] /\ Process \in Proc /\ Process # NoProc
  BY LeaseIsKept
<1>4. holder[Process] = lease \/ Gone(Process)
  BY <1>3, LeaseIsKept, FitsHere DEF Fits, Held
<1>5. \A p \in Proc :
        holder'[p] = IF p = Process /\ holder[p] = lease THEN NoReq ELSE holder[p]
  BY <1>3 DEF Detach, Freed, Holds, TypeOK
<1>6. /\ \A p \in Proc : life'[p] = "dead" <=> life[p] = "dead"
      /\ \A p \in Proc : life[p] # "up" => life'[p] # "up"
      /\ holder[Process] = lease /\ Process \in doomed' => life'[Process] # "up"
  BY <1>3 DEF Detach, KilledOnRelease, Holds, Tell
<1>7. phase' = "detached" /\ lease' = NoReq /\ steering' = {} /\ generation' = generation
      /\ (status = "hidden" => status' = "hidden")
  BY DEF Detach
<1>8. ASSUME NEW q \in Req PROVE Fits(q, pos[q])'
  <2>1. PICK a, s : a = pos[q] /\ s = pos'[q]
    OBVIOUS
  <2>2. /\ Fits(q, a) /\ s \in Places /\ AnswerFits(q, s)'
        /\ s # a => /\ s = "done" /\ a # "idle"
                    /\ q = lease \/ got[q] \notin Proc
    <3>1. Fits(q, a)
      BY <2>1, FitsHere
    <3>2. AnswerFits(q, s)'
      BY <2>1, <3>1, <1>2 DEF Fits, AnswerFits
    <3> QED BY <2>1, <3>1, <3>2, <1>2
  <2>3. KindFits(q, s)' /\ PhaseFits(q, s)'
    BY <2>2, <1>7, RuntimeAssumption DEF Fits, KindFits, PhaseFits
  <2>4. TurnFits(q, s)'
    BY <2>2 DEF Fits, TurnFits
  <2>5. Held(q, s)'
    <3> SUFFICES ASSUME Keeps(q, s)' PROVE holder'[got[q]] = q \/ Gone(got[q])'
      BY DEF Held
    <3>1. s = a /\ Keeps(q, a) /\ got[q] \in Proc
      BY <2>2 DEF Keeps
    <3>2. holder[got[q]] = q \/ Gone(got[q])
      BY <2>2, <3>1 DEF Fits, Held
    <3>3. Gone(got[q]) => Gone(got[q])'
      BY <3>1, <1>6 DEF Gone
    <3>4. CASE q = lease
      BY <3>4, <2>1, <3>1, <1>3, <1>6 DEF Keeps, Gone
    <3>5. CASE q # lease
      BY <3>1, <3>2, <3>3, <3>5, <1>5
    <3> QED BY <3>4, <3>5
  <2>6. Accounted(q, s)'
    <3> SUFFICES ASSUME NEW p \in Proc, holder'[p] = q
                 PROVE  got[q] = p /\ Unattached(q, s)'
      BY DEF Accounted
    <3>1. holder[p] = q /\ ~(p = Process /\ holder[p] = lease)
      BY <1>5, RuntimeAssumption
    <3>2. got[q] = p /\ (lease = q \/ Unattached(q, a))
      BY <2>2, <3>1 DEF Fits, Accounted
    <3>3. q # lease
      BY <3>1, <3>2, <1>3
    <3> QED BY <2>2, <3>2, <3>3 DEF Unattached
  <2>7. Quiet(q, s)'
    BY <2>2 DEF Fits, Quiet, Keeps, Fresh
  <2>8. TurnEnds(q, s)'
    <3> SUFFICES ASSUME NEW p \in Proc, turn[p] = q
                 PROVE  /\ got[q] = p /\ ~Ended(q, s)'
                        /\ s \in Failing \cup {"done"} => p \in doomed'
      BY DEF TurnEnds
    <3>1. got[q] = p /\ ~Ended(q, a) /\ (a \in Failing \cup {"done"} => p \in doomed)
      BY <2>2 DEF Fits, TurnEnds
    <3>2. ~Ended(q, s)'
      BY <2>2, <3>1 DEF Ended, Fresh
    <3>3. s # a => q = lease /\ p = Process
      BY <2>2, <3>1, <1>3
    <3>4. q # NoReq
      BY RuntimeAssumption
    <3> QED BY <3>1, <3>2, <3>3, <3>4
  <2>9. Unknown(q)'
    <3> SUFFICES ASSUME kind[q] = "new", gen[q] = 0
                 PROVE  status' = "hidden" /\ \A x \in Req \ {q} : pos'[x] = "idle"
      BY <1>7 DEF Unknown
    <3>1. status = "hidden" /\ \A x \in Req \ {q} : pos[x] = "idle"
      BY <2>2 DEF Fits, Unknown
    <3> QED BY <3>1, <1>2, <1>7
  <2>10. Fits(q, s)'
    BY <2>2, <2>3, <2>4, <2>5, <2>6, <2>7, <2>8, <2>9 DEF Fits
  <2> QED BY <2>1, <2>10
<1>9. RequestsFit'
  BY <1>8 DEF RequestsFit
<1>10. KeptOnce'
  <2>1. ASSUME NEW q \in Req, Keeps(q, pos[q])' PROVE Keeps(q, pos[q])
    BY <2>1, <1>2 DEF Keeps
  <2> QED BY <2>1 DEF KeptOnce, Book
<1>11. PhasesFit' /\ TurnsCounted'
  BY <1>7 DEF Book, PhasesFit, TurnsCounted, IsTurnActive, TurnPhases
<1>12. ProcessesFit'
  <2> SUFFICES ASSUME NEW p \in Proc
               PROVE  /\ p \in doomed' /\ holder'[p] = NoReq => life'[p] # "up"
                      /\ life'[p] = "dead" => holder'[p] = NoReq /\ turn[p] = NoReq
                      /\ turn[p] # NoReq => p \in doomed'
    BY DEF ProcessesFit
  <2>1. /\ p \in doomed /\ holder[p] = NoReq => life[p] # "up"
        /\ life[p] = "dead" => holder[p] = NoReq /\ turn[p] = NoReq
        /\ turn[p] # NoReq => p \in doomed \/ turn[p] = lease
    BY DEF Book, ProcessesFit
  <2>2. turn[p] = lease => p = Process
    BY <1>3, FitsHere DEF Fits, TurnEnds
  <2>3. CASE p = Process
    BY <2>1, <2>3, <1>4, <1>5, <1>6 DEF Gone
  <2>4. CASE p # Process
    BY <2>1, <2>2, <2>4, <1>5, <1>6
  <2> QED BY <2>3, <2>4
<1> QED BY <1>9, <1>10, <1>11, <1>12 DEF Book

\* The settlement gives the lease back: no turn runs on its process.
LEMMA SettleKeeps ==
  ASSUME TypeOK, MailInv, Book, NEW r \in Req, Settle(r)
  PROVE  MailInv' /\ Book'
<1>1. /\ pos[r] = "ending" /\ Fits(r, "ending")
      /\ \A q \in Req \ {r} : pos[q] = at[q]
  BY AtPos, FitsHere DEF Settle
<1>2. lease = r /\ lease # NoReq /\ Process = got[r] /\ Process \in Proc
  BY <1>1, LeaseIsKept, RuntimeAssumption DEF Fits, PhaseFits
<1>3. life' \in [Proc -> {"up", "told", "dead"}]
      /\ \A p \in Proc : life'[p] = "dead" <=> life[p] = "dead"
  BY <1>2 DEF Settle, Detach, KilledOnRelease, Holds, Tell, TypeOK
<1>4. MailInv' /\ pos' = [pos EXCEPT ![r] = "done"] /\ Announced' \subseteq Announced
  BY <1>3, TaskEnded DEF Settle, Moves, Continues
<1>5. \A q \in Req : pos'[q] \in Places
  BY <1>1, <1>4, PosType DEF MailInv
<1>6. turn[Process] # NoReq => Process \in doomed
  BY <1>1, <1>2 DEF Fits, TurnEnds, Ended, Book, ProcessesFit
<1>7. AnswerFits(r, "done")'
  BY <1>1, AnswerStands DEF Settle, Fits, OnlyAnswers
<1>8. life \in [Proc -> {"up", "told", "dead"}] /\ Detach(life, doomed') /\ pos'[lease] = "done"
  BY <1>1, <1>2, <1>4, PosType DEF Settle, TypeOK
<1> QED BY <1>1, <1>2, <1>4, <1>5, <1>6, <1>7, <1>8, Detached DEF Settle, over

\* The RPC of compact or stats ends, and with it its lease.
LEMMA CommandEndsKeeps ==
  ASSUME TypeOK, MailInv, Book, NEW r \in Req, NEW d, CommandEnds(d, r)
  PROVE  MailInv' /\ Book'
<1>1. /\ d \in {"compact", "stats"} /\ pos[r] = "rpc" /\ Fits(r, "rpc")
      /\ \A q \in Req \ {r} : pos[q] = at[q]
  BY AtPos, FitsHere DEF CommandEnds
<1>2. lease = r /\ lease # NoReq /\ Process = got[r] /\ Process \in Proc
  BY <1>1, LeaseIsKept, RuntimeAssumption DEF Fits, PhaseFits
<1>3. life' \in [Proc -> {"up", "told", "dead"}]
      /\ \A p \in Proc : life'[p] = "dead" <=> life[p] = "dead"
  BY <1>2 DEF CommandEnds, Detach, KilledOnRelease, Holds, Tell, TypeOK
<1>4. at' = [at EXCEPT ![r] = "done"] /\ OnlyAnswers(r)
  BY AnswersOnly DEF CommandEnds, Finishes, Moves
<1>5. doomed \subseteq doomed' /\ doomed' \subseteq doomed \cup {Process}
  BY FailsDooms DEF CommandEnds
<1>6. MailInv' /\ pos' = [pos EXCEPT ![r] = "done"] /\ Announced' \subseteq Announced
  BY <1>1, <1>3, <1>4, TaskEnded DEF CommandEnds, Continues
<1>7. \A q \in Req : pos'[q] \in Places
  BY <1>1, <1>6, PosType DEF MailInv
<1>8. turn[Process] = NoReq
  <2>1. Keeps(r, "rpc") /\ gen[r] = 0
    BY <1>1, <1>2 DEF Keeps, Fits, KindFits, TurnFits, TypeOK
  <2> QED BY <1>1, <1>2, <2>1 DEF Fits, Quiet, Fresh
<1>9. AnswerFits(r, "done")'
  BY <1>1, <1>4, AnswerStands DEF CommandEnds, Fits
<1>10. life \in [Proc -> {"up", "told", "dead"}] /\ Detach(life, doomed') /\ pos'[lease] = "done"
  BY <1>1, <1>2, <1>6, PosType DEF CommandEnds, TypeOK
<1>11. \A q \in Req \ {r} : answer'[q] = answer[q]
  BY <1>4 DEF OnlyAnswers
<1> QED BY <1>1, <1>2, <1>5, <1>6, <1>7, <1>8, <1>9, <1>10, <1>11, Detached
        DEF CommandEnds, over

\* A failure gives the lease back, if the actor still has it.
LEMMA FailKeeps ==
  ASSUME TypeOK, MailInv, Book, NEW r \in Req, Fail(r)
  PROVE  MailInv' /\ Book'
<1>1. /\ pos[r] = "failing" /\ Fits(r, "failing")
      /\ \A q \in Req \ {r} : pos[q] = at[q]
  BY AtPos, FitsHere DEF Fail, Place
<1>2. Keeps(r, "failing") /\ got[r] \in Proc
  BY <1>1 DEF Keeps, Fits, TurnFits
<1>3. PICK lf : lf = IF r \in timedOut THEN Tell(life, got[r]) ELSE life
  OBVIOUS
<1>4. /\ lf \in [Proc -> {"up", "told", "dead"}]
      /\ \A p \in Proc : lf[p] = "dead" <=> life[p] = "dead"
      /\ \A p \in Proc : life[p] # "up" => lf[p] # "up"
  BY <1>2, <1>3 DEF Tell, TypeOK
<1>5. at' = [at EXCEPT ![r] = "done"] /\ OnlyAnswers(r)
  BY AnswersOnly DEF Fail, Finishes, Moves
<1>6. IF Owns(r) THEN Detach(lf, doomed) ELSE life' = lf /\ UNCHANGED <<holder, actorVars>>
  BY <1>3 DEF Fail
<1>7. \A p \in Proc : life'[p] = "dead" <=> life[p] = "dead"
  <2>1. CASE Owns(r)
    <3>1. lease = r
      BY <1>1, <1>2, <2>1, OwnerHasLease
    <3> QED BY <1>2, <1>4, <1>6, <2>1, <3>1 DEF Detach, KilledOnRelease, Holds, Tell
  <2>2. CASE ~Owns(r)
    BY <1>4, <1>6, <2>2
  <2> QED BY <2>1, <2>2
<1>8. MailInv' /\ pos' = [pos EXCEPT ![r] = "done"] /\ Announced' \subseteq Announced
  BY <1>5, <1>7, TaskEnded DEF Fail, Continues
<1>9. AnswerFits(r, "done")'
  BY <1>1, <1>5, AnswerStands DEF Fail, Fits
<1>10. CASE Owns(r)
  <2>1. lease = r /\ lease # NoReq /\ Process = got[r]
    BY <1>1, <1>2, <1>10, OwnerHasLease, LeaseIsKept, RuntimeAssumption
  <2>2. \A q \in Req : pos'[q] \in Places
    BY <1>1, <1>8, PosType DEF MailInv
  <2>3. turn[Process] # NoReq => Process \in doomed
    BY <1>1, <1>2, <2>1 DEF Fits, TurnEnds, Book, ProcessesFit
  <2>4. Detach(lf, doomed') /\ pos'[lease] = "done"
    BY <1>6, <1>8, <1>10, <2>1, PosType DEF Fail
  <2>5. \A q \in Req \ {r} : answer'[q] = answer[q]
    BY <1>5 DEF OnlyAnswers
  <2> QED BY <1>1, <1>4, <1>8, <1>9, <2>1, <2>2, <2>3, <2>4, <2>5, Detached DEF Fail, over
<1>11. CASE ~Owns(r)
  <2>1. lease # r
    BY <1>11, LeaseIsKept, RuntimeAssumption DEF Owns
  <2>2. Frame /\ MayDoom /\ \A q \in Req \ {r} : Untouched(q)
    BY <1>4, <1>5, <1>6, <1>8, <1>11 DEF Fail, Frame, MayDoom, Untouched, over, OnlyAnswers
  <2>3. Passes(r, "failing", "done")
    BY <1>1, <2>1 DEF Passes, Fits, KindFits, PhaseFits, TurnFits, Keeps, Unattached, Fresh
  <2>4. Ended(r, "failing") \/ TurnEnds(r, "done")'
    BY <1>1, <2>2 DEF Fits, TurnEnds, Ended, Fresh, Frame
  <2>5. (phase = "detached" => steering' = {}) /\ status' = status
    BY <1>6, <1>11 DEF Book, PhasesFit
  <2> QED BY <1>1, <1>8, <1>9, <2>2, <2>3, <2>4, <2>5, PassKeeps DEF MayMove
<1> QED BY <1>8, <1>10, <1>11

\* A hard kill takes the lease from whoever has it, and the process with it.
LEMMA HardKillKeeps ==
  ASSUME TypeOK, MailInv, Book, NEW r \in Req, HardKill(r)
  PROVE  MailInv' /\ Book'
<1>1. CASE Process = NoProc
  BY <1>1, CommandAnsweredKeeps DEF HardKill
<1>2. CASE Process # NoProc
  <2>1. /\ pos[r] = "queued" /\ Fits(r, "queued") /\ FirstTask(kind[r]) = "kill"
        /\ \A q \in Req \ {r} : pos[q] = at[q]
    BY AtPos, FitsHere DEF HardKill, Place
  <2>2. lease # NoReq
    BY <1>2, NoLease
  <2>3. lease \in Req /\ Process = got[lease] /\ Process \in Proc
    BY <2>2, LeaseIsKept
  <2>4. PICK lf : lf = Tell(life, Process)
    OBVIOUS
  <2>5. /\ lf \in [Proc -> {"up", "told", "dead"}]
        /\ \A p \in Proc : lf[p] = "dead" <=> life[p] = "dead"
        /\ \A p \in Proc : life[p] # "up" => lf[p] # "up"
    BY <2>3, <2>4 DEF Tell, TypeOK
  <2>6. Detach(lf, doomed')
    BY <1>2, <2>4 DEF HardKill
  <2>7. at' = [at EXCEPT ![r] = "done"] /\ OnlyAnswers(r)
    BY AnswersOnly DEF HardKill, Finishes, Moves
  <2>8. \A p \in Proc : life'[p] = "dead" <=> life[p] = "dead"
    BY <2>3, <2>5, <2>6 DEF Detach, KilledOnRelease, Holds, Tell
  <2>9. MailInv' /\ pos' = [pos EXCEPT ![r] = "done"] /\ Announced' \subseteq Announced
    BY <2>7, <2>8, TaskEnded DEF HardKill, Continues
  <2>10. \A q \in Req : pos'[q] \in Places
    BY <2>1, <2>9, PosType DEF MailInv
  <2>11. /\ doomed \subseteq doomed' /\ doomed' \subseteq doomed \cup {Process}
         /\ Process \in doomed' \/ life[Process] = "dead"
    BY <1>2 DEF HardKill
  <2>12. turn[Process] # NoReq => Process \in doomed'
    BY <2>3, <2>11 DEF Book, ProcessesFit
  <2>13. got[r] \notin Proc
    BY <2>1 DEF Fits, TurnFits, FirstTask
  <2>14. AnswerFits(r, "done")'
    BY <2>1, <2>7, AnswerStands DEF HardKill, Fits
  <2>15. \A q \in Req \ {r} : answer'[q] = answer[q]
    BY <2>7 DEF OnlyAnswers
  <2> QED BY <2>1, <2>2, <2>5, <2>6, <2>9, <2>10, <2>11, <2>12, <2>13, <2>14, <2>15, Detached
          DEF HardKill, over
<1> QED BY <1>1, <1>2

-------------------------------------------------------------------------------
(* Processes and their events *)

\* What a process does that no request notices.
LEMMA NothingMoves ==
  ASSUME TypeOK, MailInv, Book, Frame, MayDoom, pos' = pos,
         \A q \in Req : Untouched(q), status' = status,
         phase = "detached" => steering' = {}
  PROVE  Book'
<1>1. ASSUME NEW q \in Req PROVE Fits(q, pos[q])'
  <2>1. PICK s : s = pos[q]
    OBVIOUS
  <2>2. Fits(q, s)
    BY <2>1, FitsHere
  <2>3. Unknown(q)'
    BY <2>2 DEF Fits, Unknown, Frame
  <2>4. Fits(q, s)'
    BY <2>2, <2>3, FrameFits
  <2> QED BY <2>1, <2>4
<1>2. RequestsFit'
  BY <1>1 DEF RequestsFit
<1>3. KeptOnce'
  BY DEF Book, KeptOnce, Keeps, Frame
<1>4. PhasesFit' /\ TurnsCounted'
  BY DEF Book, PhasesFit, TurnsCounted, Frame, IsTurnActive
<1>5. ProcessesFit'
  BY FrameProcesses DEF Book
<1> QED BY <1>2, <1>3, <1>4, <1>5 DEF Book

\* The actor's turn goes on to another phase.
LEMMA TurnGoesOn ==
  ASSUME TypeOK, MailInv, Book, step = "begin", IsTurnActive, phase' \in TurnPhases,
         pos' = pos, over' \subseteq over,
         UNCHANGED <<kind, lease, generation, gen, got, holder, turn, life, doomed, status,
                     streaming, answer, accepted>>
  PROVE  Book'
<1>1. \A q \in Req : pos[q] \in Places
  BY DEF pos, Pos, MailInv
<1>2. phase' # "detached" /\ phase' # "ready" /\ phase # "detached"
  BY DEF TurnPhases, IsTurnActive
<1>3. ASSUME NEW q \in Req PROVE Fits(q, pos[q])'
  <2>1. PICK s \in Places : s = pos[q]
    BY <1>1
  <2>2. Fits(q, s)
    BY <2>1, FitsHere
  <2>3. KindFits(q, s)' /\ TurnFits(q, s)' /\ AnswerFits(q, s)'
    BY <2>2 DEF Fits, KindFits, TurnFits, AnswerFits
  <2>4. PhaseFits(q, s)'
    BY <1>2, <2>2 DEF Fits, PhaseFits
  <2>5. Held(q, s)' /\ Accounted(q, s)'
    BY <2>2 DEF Fits, Held, Keeps, Gone, Accounted, Unattached
  <2>6. Quiet(q, s)' /\ TurnEnds(q, s)'
    BY <2>2 DEF Fits, Quiet, Keeps, Fresh, TurnEnds, Ended
  <2>7. Unknown(q)'
    BY <1>2, <2>2 DEF Fits, Unknown
  <2>8. Fits(q, s)'
    BY <2>2, <2>3, <2>4, <2>5, <2>6, <2>7 DEF Fits
  <2> QED BY <2>1, <2>8
<1>4. RequestsFit'
  BY <1>3 DEF RequestsFit
<1>5. KeptOnce'
  BY DEF Book, KeptOnce, Keeps
<1>6. PhasesFit' /\ TurnsCounted'
  BY <1>2 DEF Book, PhasesFit, TurnsCounted
<1>7. ProcessesFit'
  BY DEF Book, ProcessesFit, IsTurnActive
<1> QED BY <1>4, <1>5, <1>6, <1>7 DEF Book

\* An event moves the phase of the turn that the actor owns, and no other.
LEMMA ProcessEventKeeps ==
  ASSUME TypeOK, MailInv, Book, NEW r \in Req, NEW e \in Events, ProcessEvent(e, r)
  PROVE  MailInv' /\ Book'
<1>1. MailInv' /\ pos' = pos /\ Announced' \subseteq Announced
  BY EventTaken DEF ProcessEvent, Continues
<1>2. CASE ~OwnsTurn(r)
  <2>1. Frame /\ MayDoom /\ \A q \in Req : Untouched(q)
    BY <1>1, <1>2 DEF ProcessEvent, Frame, MayDoom, Untouched, over
  <2> QED BY <1>1, <1>2, <2>1, NothingMoves DEF ProcessEvent, Book, PhasesFit
<1>3. CASE OwnsTurn(r)
  <2>1. step = "begin" /\ lease # NoReq
    BY <1>3, NoLease DEF ProcessEvent, At, OwnsTurn, Owns
  <2>2. IsTurnActive
    BY <2>1, CleanMailbox
  <2>3. phase' \in TurnPhases
    BY <1>3, <2>2 DEF ProcessEvent, NextPhase, IsTurnActive, TurnPhases
  <2>4. e = "agent_settled" => r \in Announced
    <3>1. mailbox \in Seq(TaskType) /\ mailbox # <<>> /\ Head(mailbox).do = e
          /\ Head(mailbox).by = r
      BY DEF ProcessEvent, At, MailInv
    <3>2. Head(mailbox) = mailbox[1] /\ 1 \in 1 .. Len(mailbox)
      BY <3>1, TailTasks
    <3> QED BY <3>1, <3>2 DEF Announced, AnnouncedIn
  <2>5. over' \subseteq over
    BY <1>1, <1>3, <2>4 DEF ProcessEvent, Settles, over
  <2> QED BY <1>1, <2>1, <2>2, <2>3, <2>5, TurnGoesOn DEF ProcessEvent
<1> QED BY <1>2, <1>3

\* The exit of a process takes the lease of the actor.
LEMMA ProcessExitKeeps ==
  ASSUME TypeOK, MailInv, Book, NEW p \in Proc, ProcessExit(p)
  PROVE  MailInv' /\ Book'
<1>1. life[p] = "dead" /\ \A q \in Req : pos[q] \in Places
  BY AtEvent DEF ProcessExit, MailInv
<1>2. \A x \in Proc : life[x] = "dead" => life'[x] = "dead"
  BY DEF ProcessExit, Detach, KilledOnRelease, Tell, TypeOK
<1>3. MailInv' /\ pos' = pos /\ Announced' \subseteq Announced
  BY <1>2, EventTaken DEF ProcessExit, Continues
<1>4. CASE Process = p
  <2>1. lease # NoReq /\ lease \in Req
    BY <1>4, NoLease, LeaseIsKept, RuntimeAssumption
  <2>2. pos' = [pos EXCEPT ![lease] = pos[lease]]
    BY <1>3, PosType
  <2>3. turn[Process] = NoReq
    BY <1>1, <1>4 DEF Book, ProcessesFit
  <2>4. AnswerFits(lease, pos[lease])
    BY <2>1, FitsHere DEF Fits
  <2>5. PICK b : b = pos[lease]
    OBVIOUS
  <2>6. AnswerFits(lease, b)
    BY <2>4, <2>5
  <2>7. PICK r \in Req : r = lease
    BY <2>1
  <2>8. AnswerFits(r, b)'
    BY <2>6, <2>7 DEF ProcessExit, AnswerFits
  <2>9. Detach(life, doomed') /\ life \in [Proc -> {"up", "told", "dead"}]
    BY <1>4 DEF ProcessExit, TypeOK
  <2>10. over' \subseteq over
    BY <1>3 DEF ProcessExit, over
  <2> QED BY <1>1, <1>3, <1>4, <2>1, <2>2, <2>3, <2>5, <2>7, <2>8, <2>9, <2>10, Detached
          DEF ProcessExit
<1>5. CASE Process # p
  <2>1. Frame /\ MayDoom /\ \A q \in Req : Untouched(q)
    BY <1>3, <1>5 DEF ProcessExit, Frame, MayDoom, Untouched, over
  <2> QED BY <1>3, <1>5, <2>1, NothingMoves DEF ProcessExit, Book, PhasesFit
<1> QED BY <1>4, <1>5

\* Only processes that are held, or told to terminate, are given up.
LEMMA RecycleKeeps ==
  ASSUME TypeOK, MailInv, Book, Recycle
  PROVE  MailInv' /\ Book'
<1>1. MailInv' /\ pos' = pos /\ Announced' = Announced
  BY MailKept DEF Recycle, Continues
<1>2. Frame /\ \A q \in Req : Untouched(q)
  BY <1>1 DEF Recycle, Frame, Untouched, over
<1>3. MayDoom
  BY DEF Recycle, MayDoom, TypeOK
<1> QED BY <1>1, <1>2, <1>3, NothingMoves DEF Recycle, Book, PhasesFit

-------------------------------------------------------------------------------
(* pi *)

\* An event reaches the mailbox under the name of the request with the lease.
LEMMA EventEmitted ==
  ASSUME TypeOK, MailInv, Book, NEW p \in Proc, NEW e \in Events,
         NEW m \in Req \cup {NoReq}, Emit(p, e, m), at' = at, Continues
  PROVE  /\ MailInv' /\ pos' = pos
         /\ Announced' \subseteq Announced
              \cup {r \in Req : e = "agent_settled" /\ r = lease /\ Process = p}
<1>1. CASE IsTurnActive /\ Process = p
  <2>1. PICK r \in Req : gen[r] = generation /\ Enqueue(Message(e, r, m))
    BY <1>1 DEF Emit
  <2>2. r = lease
    BY <1>1, <2>1, TurnHasLease
  <2>3. PICK t : t = Message(e, r, m)
    OBVIOUS
  <2>4. t \in TaskType /\ t.do = e /\ t.by = r
    BY <2>3 DEF Message, TaskType
  <2> QED BY <1>1, <2>1, <2>2, <2>3, <2>4, Emitted
<1>2. CASE ~(IsTurnActive /\ Process = p)
  BY <1>2, MailKept DEF Emit
<1> QED BY <1>1, <1>2

\* The turn of a process is over, or the process itself.
LEMMA TurnLeaves ==
  ASSUME TypeOK, MailInv, Book, NEW p \in Proc, turn' = [turn EXCEPT ![p] = NoReq],
         \/ UNCHANGED <<life, doomed, holder>>
         \/ /\ life' = [life EXCEPT ![p] = "dead"]
            /\ doomed' = doomed \ {p}
            /\ holder' = [holder EXCEPT ![p] = NoReq],
         pos' = pos,
         \/ over' \subseteq over
         \/ turn[p] # NoReq /\ lease \in Req /\ Process = p /\ over' \subseteq over \cup {lease},
         UNCHANGED <<kind, phase, lease, generation, steering, status, gen, got, streaming,
                     answer, accepted>>
  PROVE  Book'
<1>1. turn'[p] = NoReq /\ \A x \in Proc \ {p} : turn'[x] = turn[x]
  BY DEF TypeOK
<1>2. /\ \A x \in Proc \ {p} : /\ life'[x] = life[x] /\ holder'[x] = holder[x]
                               /\ x \in doomed' <=> x \in doomed
      /\ \/ life'[p] = life[p] /\ holder'[p] = holder[p] /\ (p \in doomed' <=> p \in doomed)
         \/ life'[p] = "dead" /\ holder'[p] = NoReq
  BY DEF TypeOK
<1>3. \A x \in Proc : Gone(x) => Gone(x)'
  BY <1>2 DEF Gone
<1>4. ASSUME NEW q \in over' \ over PROVE q = lease /\ got[q] = p /\ q \in Req /\ turn[p] # NoReq
  <2>1. q = lease /\ lease \in Req /\ Process = p /\ turn[p] # NoReq
    BY <1>4
  <2> QED BY <2>1, LeaseIsKept, RuntimeAssumption
<1>5. ASSUME NEW q \in Req PROVE Fits(q, pos[q])'
  <2>1. PICK s : s = pos[q]
    OBVIOUS
  <2>2. Fits(q, s)
    BY <2>1, FitsHere
  <2>3. KindFits(q, s)' /\ PhaseFits(q, s)' /\ TurnFits(q, s)' /\ AnswerFits(q, s)'
    BY <2>2 DEF Fits, KindFits, PhaseFits, TurnFits, AnswerFits, IsTurnActive
  <2>4. Held(q, s)'
    BY <2>2, <1>2, <1>3 DEF Fits, Held, Keeps, Gone
  <2>5. Accounted(q, s)'
    BY <2>2, <1>2, RuntimeAssumption DEF Fits, Accounted, Unattached
  <2>6. Quiet(q, s)'
    <3> SUFFICES ASSUME Fresh(q, s) PROVE q \notin over' /\ (Keeps(q, s) => turn'[got[q]] = NoReq)
      BY DEF Quiet, Fresh, Keeps
    <3>1. q \notin over /\ (Keeps(q, s) => turn[got[q]] = NoReq)
      BY <2>2 DEF Fits, Quiet
    <3>2. q \notin over'
      <4> SUFFICES ASSUME q \in over' PROVE FALSE
        OBVIOUS
      <4>1. q = lease /\ got[q] = p /\ turn[p] # NoReq
        BY <1>4, <3>1
      <4>2. Keeps(q, s)
        BY <2>1, <4>1, LeaseIsKept, RuntimeAssumption
      <4> QED BY <3>1, <4>1, <4>2
    <3> QED BY <1>1, <3>1, <3>2 DEF Keeps
  <2>7. TurnEnds(q, s)'
    <3> SUFFICES ASSUME NEW x \in Proc, turn'[x] = q
                 PROVE  /\ got[q] = x /\ ~Ended(q, s)'
                        /\ s \in Failing \cup {"done"} => x \in doomed'
      BY DEF TurnEnds
    <3>1. x # p /\ turn[x] = q
      BY <1>1, RuntimeAssumption
    <3>2. got[q] = x /\ ~Ended(q, s) /\ (s \in Failing \cup {"done"} => x \in doomed)
      BY <2>2, <3>1 DEF Fits, TurnEnds
    <3>3. q \notin over'
      BY <1>4, <3>1, <3>2 DEF Ended
    <3> QED BY <1>2, <3>1, <3>2, <3>3 DEF Ended, Fresh
  <2>8. Unknown(q)'
    BY <2>2 DEF Fits, Unknown
  <2>9. Fits(q, s)'
    BY <2>3, <2>4, <2>5, <2>6, <2>7, <2>8 DEF Fits
  <2> QED BY <2>1, <2>9
<1>6. RequestsFit'
  BY <1>5 DEF RequestsFit
<1>7. KeptOnce'
  BY DEF Book, KeptOnce, Keeps
<1>8. PhasesFit' /\ TurnsCounted'
  BY DEF Book, PhasesFit, TurnsCounted, IsTurnActive
<1>9. ProcessesFit'
  BY <1>1, <1>2 DEF Book, ProcessesFit, IsTurnActive
<1> QED BY <1>6, <1>7, <1>8, <1>9 DEF Book

\* pi goes on with its turn and announces it.
LEMMA TurnProceedsKeeps ==
  ASSUME TypeOK, MailInv, Book, NEW p \in Proc, NEW from, NEW to, NEW e \in Events,
         e = "agent_settled" <=> to = "none", TurnProceeds(p, from, to, e)
  PROVE  MailInv' /\ Book'
<1>1. /\ MailInv' /\ pos' = pos
      /\ Announced' \subseteq Announced
           \cup {r \in Req : e = "agent_settled" /\ r = lease /\ Process = p}
  BY EventEmitted DEF TurnProceeds, Continues
<1>2. CASE to # "none"
  <2>1. Frame /\ MayDoom /\ \A q \in Req : Untouched(q)
    BY <1>1, <1>2 DEF TurnProceeds, Frame, MayDoom, Untouched, over
  <2> QED BY <1>1, <2>1, NothingMoves DEF TurnProceeds, Book, PhasesFit
<1>3. CASE to = "none"
  <2>1. \/ over' \subseteq over
        \/ turn[p] # NoReq /\ lease \in Req /\ Process = p /\ over' \subseteq over \cup {lease}
    BY <1>1 DEF TurnProceeds, over
  <2> QED BY <1>1, <1>3, <2>1, TurnLeaves DEF TurnProceeds
<1> QED BY <1>2, <1>3

\* Every step of pi.
LEMMA PiStepKeeps ==
  ASSUME TypeOK, MailInv, Book, NEW p \in Proc, PiStep(p)
  PROVE  MailInv' /\ Book'
<1>1. CASE PiStarts(p) \/ PiEnds(p) \/ PiSettles(p)
  BY <1>1, TurnProceedsKeeps DEF PiStarts, PiEnds, PiSettles, Events
<1>2. ASSUME NEW m \in Req, PiConsumes(p, m) PROVE MailInv' /\ Book'
  <2>1. MailInv' /\ pos' = pos /\ Announced' \subseteq Announced
    BY <1>2, EventEmitted DEF PiConsumes, Continues, Events
  <2>2. Frame /\ MayDoom /\ \A q \in Req : Untouched(q)
    BY <1>2, <2>1 DEF PiConsumes, Frame, MayDoom, Untouched, over
  <2> QED BY <1>2, <2>1, <2>2, NothingMoves DEF PiConsumes, Book, PhasesFit
<1> QED BY <1>1, <1>2 DEF PiStep

\* A process exits.
LEMMA ExitKeeps ==
  ASSUME TypeOK, MailInv, Book, NEW p \in Proc, Exit(p)
  PROVE  MailInv' /\ Book'
<1>1. life'[p] = "dead" /\ Continues
  BY DEF Exit, TypeOK, Continues
<1>2. MailInv' /\ pos' = pos /\ Announced' = Announced
  <2>1. CASE Process = p
    <3>1. PICK t : t = Task("exit", p)
      OBVIOUS
    <3>2. t \in TaskType /\ t.do = "exit" /\ t.by = p
      BY <3>1 DEF Task, Message, TaskType
    <3> QED BY <1>1, <2>1, <3>1, <3>2, Emitted DEF Exit
  <2>2. CASE Process # p
    BY <1>1, <2>2, MailKept DEF Exit
  <2> QED BY <2>1, <2>2
<1> QED BY <1>2, TurnLeaves DEF Exit, over

-------------------------------------------------------------------------------
(* Failures that give a lease back, and prompts that pi takes *)

\* A handler gives back a lease that the actor does not have.
LEMMA Released ==
  ASSUME TypeOK, MailInv, Book, NEW r \in Req, lease # r,
         NEW a \in {"switch", "caught"}, pos[r] = a, NEW b \in {"caught", "done"},
         pos' = [pos EXCEPT ![r] = b], KindFits(r, b), ~Keeps(r, b),
         a = "switch" => gen[r] = 0,
         holder' = Freed(r), OnlyAnswers(r),
         \A p \in Proc : life'[p] = "dead" <=> life[p] = "dead",
         \A p \in Proc : life[p] # "up" => life'[p] # "up",
         Holds(r) /\ got[r] \in doomed' => life'[got[r]] # "up",
         doomed \subseteq doomed', doomed' \subseteq doomed \cup {got[r]},
         doomed' = doomed \/ Keeps(r, a), over' \subseteq over,
         UNCHANGED <<kind, phase, lease, generation, steering, status, gen, got, turn,
                     streaming, accepted>>
  PROVE  Book'
<1>1. pos \in [Req -> Places \cup Inside]
  BY PosType
<1>2. pos'[r] = b /\ \A q \in Req \ {r} : pos'[q] = pos[q]
  BY <1>1
<1>3. Fits(r, a)
  BY FitsHere
<1>4. \A p \in Proc : holder'[p] = IF p = got[r] /\ holder[p] = r THEN NoReq ELSE holder[p]
  BY RuntimeAssumption DEF Freed, Holds, TypeOK
<1>5. \A p \in Proc : Gone(p) => Gone(p)'
  BY DEF Gone
<1>6. ASSUME NEW q \in Req \ {r} PROVE Fits(q, pos[q])'
  <2>1. PICK s : s = pos[q]
    OBVIOUS
  <2>2. Fits(q, s)
    BY <2>1, FitsHere
  <2>3. /\ KindFits(q, s)' /\ PhaseFits(q, s)' /\ TurnFits(q, s)'
        /\ AnswerFits(q, s)'
    BY <2>2 DEF Fits, KindFits, PhaseFits, TurnFits, AnswerFits, IsTurnActive, OnlyAnswers
  <2>4. Held(q, s)'
    BY <2>2, <1>4, <1>5 DEF Fits, Held, Keeps
  <2>5. Accounted(q, s)'
    BY <2>2, <1>4, RuntimeAssumption DEF Fits, Accounted, Unattached
  <2>6. Quiet(q, s)' /\ TurnEnds(q, s)'
    BY <2>2 DEF Fits, Quiet, Keeps, Fresh, TurnEnds, Ended
  <2>7. Unknown(q)'
    BY <2>2, <1>2 DEF Fits, Unknown
  <2>8. Fits(q, s)'
    BY <2>3, <2>4, <2>5, <2>6, <2>7 DEF Fits
  <2> QED BY <2>1, <2>8, <1>2
<1>7. Fits(r, b)'
  <2>1. KindFits(r, b)' /\ PhaseFits(r, b)' /\ TurnFits(r, b)'
    BY <1>3 DEF Fits, KindFits, PhaseFits, TurnFits
  <2>2. Held(r, b)'
    BY DEF Held, Keeps
  <2>3. Accounted(r, b)'
    BY <1>3, <1>4, RuntimeAssumption DEF Fits, Accounted
  <2>4. Quiet(r, b)'
    BY <1>3 DEF Fits, Quiet, Keeps, Fresh
  <2>5. TurnEnds(r, b)'
    BY <1>3 DEF Fits, TurnEnds, Ended, Fresh
  <2>6. Unknown(r)'
    BY <1>2, <1>3 DEF Fits, Unknown
  <2>7. AnswerFits(r, b)'
    BY <1>3, AnswerStands DEF Fits
  <2> QED BY <2>1, <2>2, <2>3, <2>4, <2>5, <2>6, <2>7 DEF Fits
<1>8. RequestsFit'
  BY <1>2, <1>6, <1>7 DEF RequestsFit
<1>9. KeptOnce'
  <2>1. ASSUME NEW q \in Req, Keeps(q, pos[q])' PROVE Keeps(q, pos[q])
    BY <2>1, <1>2 DEF Keeps
  <2> QED BY <2>1 DEF KeptOnce, Book
<1>10. PhasesFit' /\ TurnsCounted'
  BY DEF Book, PhasesFit, TurnsCounted, IsTurnActive
<1>11. ProcessesFit'
  <2> SUFFICES ASSUME NEW p \in Proc
               PROVE  /\ p \in doomed' /\ holder'[p] = NoReq => life'[p] # "up"
                      /\ life'[p] = "dead" => holder'[p] = NoReq /\ turn[p] = NoReq
                      /\ turn[p] # NoReq => p \in doomed' \/ (turn[p] = lease /\ IsTurnActive)
    BY DEF ProcessesFit, IsTurnActive
  <2>1. /\ p \in doomed /\ holder[p] = NoReq => life[p] # "up"
        /\ life[p] = "dead" => holder[p] = NoReq /\ turn[p] = NoReq
        /\ turn[p] # NoReq => p \in doomed \/ (turn[p] = lease /\ IsTurnActive)
    BY DEF Book, ProcessesFit
  <2>2. ASSUME p \in doomed', p \notin doomed PROVE holder[p] = r \/ life[p] = "dead"
    BY <2>2, <1>3 DEF Fits, Held, Gone
  <2>3. p \in doomed' /\ holder'[p] = NoReq => life'[p] # "up"
    BY <2>1, <2>2, <1>4, RuntimeAssumption DEF Holds, TypeOK
  <2> QED BY <2>1, <2>3, <1>4
<1> QED BY <1>8, <1>9, <1>10, <1>11 DEF Book

\* The session cannot be switched to: the lease is given back, by a fork later.
LEMMA SwitchFailsKeeps ==
  ASSUME TypeOK, MailInv, Book, NEW r \in Req, NEW d \in {"start", "compact", "stats"},
         SwitchFails(d, r)
  PROVE  MailInv' /\ Book'
<1>1. pos[r] = "switch" /\ Fits(r, "switch")
  BY AtPos, FitsHere DEF SwitchFails
<1>2. gen[r] = 0 /\ got[r] \in Proc /\ lease = NoReq /\ lease # r
  BY <1>1, RuntimeAssumption DEF Fits, TurnFits, PhaseFits, TypeOK, Book, PhasesFit
<1>3. PICK b \in {"caught", "done"} :
        /\ at' = [at EXCEPT ![r] = b]
        /\ b = "caught" <=> kind[r] \in Prompts
        /\ OnlyAnswers(r)
  BY Thrown DEF SwitchFails
<1>4. doomed \subseteq doomed' /\ doomed' \subseteq doomed \cup {got[r]}
  BY FailsDooms DEF SwitchFails
<1>5. \A p \in Proc : life'[p] = "dead" <=> life[p] = "dead"
  BY <1>2 DEF SwitchFails, KilledOnRelease, Tell, TypeOK
<1>6. MailInv' /\ pos' = [pos EXCEPT ![r] = b] /\ Announced' \subseteq Announced
  BY <1>3, <1>5, TaskEnded DEF SwitchFails, Continues
<1>7. Keeps(r, "switch")
  BY <1>2 DEF Keeps
<1>8. CASE kind[r] = "fork"
  <2>1. Frame /\ MayDoom /\ \A q \in Req \ {r} : Untouched(q)
    BY <1>1, <1>3, <1>4, <1>6, <1>7, <1>8, KeeperMayDoom
       DEF SwitchFails, Frame, Untouched, over, OnlyAnswers
  <2>2. Passes(r, "switch", b) /\ Ended(r, "switch")
    BY <1>1, <1>2, <1>3, <1>8 DEF Passes, Fits, KindFits, PhaseFits, TurnFits, Keeps, Unattached,
                                  Fresh, Ended
  <2>3. AnswerFits(r, b)'
    BY <1>1, <1>3, AnswerStands DEF SwitchFails, Fits
  <2> QED BY <1>1, <1>6, <2>1, <2>2, <2>3, PassKeeps DEF MayMove, SwitchFails, Book, PhasesFit
<1>9. CASE kind[r] # "fork"
  <2>1. holder' = Freed(r) /\ life' = KilledOnRelease(life, r, doomed')
    BY <1>9 DEF SwitchFails
  <2>2. KindFits(r, b) /\ ~Keeps(r, b)
    BY <1>1, <1>2, <1>3, <1>9 DEF Fits, KindFits, Keeps
  <2>3. /\ \A p \in Proc : life[p] # "up" => life'[p] # "up"
        /\ Holds(r) /\ got[r] \in doomed' => life'[got[r]] # "up"
    BY <1>2, <2>1 DEF KilledOnRelease, Tell, TypeOK
  <2> QED BY <1>1, <1>2, <1>3, <1>4, <1>5, <1>6, <1>7, <2>1, <2>2, <2>3, Released
          DEF SwitchFails, over
<1> QED BY <1>8, <1>9

\* The catch block gives back a lease that the actor does not have.
LEMMA CatchKeeps ==
  ASSUME TypeOK, MailInv, Book, NEW r \in Req, Catch(r)
  PROVE  MailInv' /\ Book'
<1>1. CASE HasProc(r) /\ Owns(r)
  BY <1>1, CatchDefersKeeps
<1>2. CASE ~(HasProc(r) /\ Owns(r))
  <2>1. pos[r] = "caught" /\ Fits(r, "caught") /\ at[r] = "caught"
    BY OutsidePos, FitsHere DEF Catch
  <2>2. lease # r
    <3> SUFFICES ASSUME lease = r PROVE HasProc(r) /\ Owns(r)
      BY <1>2
    <3>1. Process = got[r] /\ Process # NoProc /\ Keeps(r, "caught")
      BY <2>1, LeaseIsKept, RuntimeAssumption
    <3>2. kind[r] \in Prompts
      BY <2>1 DEF Fits, KindFits
    <3> QED BY <3>1, <3>2 DEF HasProc, Owns, Keeps
  <2>3. /\ Finishes(r, "error") /\ holder' = Freed(r) /\ UNCHANGED mailVars
        /\ life' = IF HasProc(r) THEN Tell(life, got[r]) ELSE life
    BY <1>2, <2>2 DEF Catch, ReleasesUnowned
  <2>4. at' = [at EXCEPT ![r] = "done"] /\ OnlyAnswers(r)
    BY <2>3, AnswersOnly DEF Finishes, Moves
  <2>5. /\ \A p \in Proc : life'[p] = "dead" <=> life[p] = "dead"
        /\ \A p \in Proc : life[p] # "up" => life'[p] # "up"
    BY <2>3 DEF Tell, TypeOK
  <2>6. MailInv' /\ pos' = [pos EXCEPT ![r] = "done"] /\ Announced' = Announced
    BY <2>1, <2>3, <2>4, <2>5, Moved DEF Catch, Continues
  <2>7. Holds(r) /\ got[r] \in doomed' => life'[got[r]] # "up"
    <3> SUFFICES ASSUME Holds(r), got[r] \in doomed PROVE life'[got[r]] # "up"
      BY DEF Catch
    <3>1. got[r] \in Proc /\ holder[got[r]] = r
      BY DEF Holds, TypeOK
    <3>2. Unattached(r, "caught")
      BY <2>1, <2>2, <3>1 DEF Fits, Accounted
    <3>3. HasProc(r)
      BY <3>1, <3>2, RuntimeAssumption DEF Unattached, HasProc
    <3> QED BY <2>3, <3>1, <3>3 DEF Tell, TypeOK
  <2>8. KindFits(r, "done") /\ ~Keeps(r, "done")
    BY DEF KindFits, Keeps
  <2> QED BY <2>1, <2>2, <2>3, <2>4, <2>5, <2>6, <2>7, <2>8, Released DEF Catch, over
<1> QED BY <1>1, <1>2

\* pi takes the prompt of the request with the lease.
LEMMA TurnBegun ==
  ASSUME TypeOK, MailInv, Book, NEW r \in Req, pos[r] = "prompt",
         NEW b \in {"probe", "reconcile", "caught"}, KindFits(r, b),
         b = "reconcile" => kind[r] = "fork", b = "caught" => got[r] \in doomed',
         pos' = [pos EXCEPT ![r] = b], turn' = [turn EXCEPT ![got[r]] = r],
         doomed \subseteq doomed', doomed' \subseteq doomed \cup {got[r]},
         \A q \in Req \ {r} : Untouched(q), AnswerFits(r, b)', over' \subseteq over,
         life[got[r]] # "dead",
         UNCHANGED <<kind, phase, lease, generation, steering, status, gen, got, life, holder>>
  PROVE  Book'
<1>1. pos \in [Req -> Places \cup Inside]
  BY PosType
<1>2. pos'[r] = b /\ \A q \in Req \ {r} : pos'[q] = pos[q]
  BY <1>1
<1>3. Fits(r, "prompt")
  BY FitsHere
<1>4. /\ lease = r /\ phase = "starting" /\ gen[r] > 0 /\ got[r] \in Proc
      /\ Keeps(r, "prompt") /\ r \notin over
  BY <1>3 DEF Fits, PhaseFits, TurnFits, Keeps, Quiet, Fresh
<1>5. turn'[got[r]] = r /\ \A p \in Proc \ {got[r]} : turn'[p] = turn[p]
  BY <1>4 DEF TypeOK
<1>6. \A p \in Proc : Gone(p) => Gone(p)'
  BY DEF Gone
<1>7. ASSUME NEW q \in Req \ {r} PROVE Fits(q, pos[q])'
  <2>1. PICK s : s = pos[q]
    OBVIOUS
  <2>2. Fits(q, s)
    BY <2>1, FitsHere
  <2>3. KindFits(q, s)' /\ PhaseFits(q, s)' /\ TurnFits(q, s)' /\ AnswerFits(q, s)'
    BY <2>2 DEF Fits, KindFits, PhaseFits, TurnFits, AnswerFits, IsTurnActive, Untouched
  <2>4. Held(q, s)'
    BY <2>2, <1>6 DEF Fits, Held, Keeps
  <2>5. Accounted(q, s)'
    BY <2>2 DEF Fits, Accounted, Unattached
  <2>6. Quiet(q, s)'
    <3>1. Keeps(q, s) => got[q] # got[r]
      BY <2>1, <1>4 DEF Book, KeptOnce
    <3> QED BY <2>2, <3>1, <1>5 DEF Fits, Quiet, Keeps, Fresh
  <2>7. TurnEnds(q, s)'
    BY <2>2, <1>5 DEF Fits, TurnEnds, Ended, Fresh, Untouched
  <2>8. Unknown(q)'
    BY <2>2, <1>4 DEF Fits, Unknown
  <2>9. Fits(q, s)'
    BY <2>3, <2>4, <2>5, <2>6, <2>7, <2>8 DEF Fits
  <2> QED BY <2>1, <2>9, <1>2
<1>8. Fits(r, b)'
  <2>1. KindFits(r, b)' /\ PhaseFits(r, b)' /\ TurnFits(r, b)'
    BY <1>3, <1>4 DEF Fits, KindFits, PhaseFits, TurnFits
  <2>2. Held(r, b)' /\ Accounted(r, b)'
    BY <1>3, <1>4, <1>6 DEF Fits, Held, Keeps, Accounted
  <2>3. Quiet(r, b)'
    BY <1>4 DEF Quiet, Fresh
  <2>4. TurnEnds(r, b)'
    <3>1. \A p \in Proc \ {got[r]} : turn'[p] # r
      BY <1>3, <1>5 DEF Fits, TurnEnds
    <3>2. ~Ended(r, b)'
      BY <1>4 DEF Ended, Fresh
    <3> QED BY <1>4, <3>1, <3>2 DEF TurnEnds
  <2>5. Unknown(r)'
    BY <1>4 DEF Unknown
  <2> QED BY <2>1, <2>2, <2>3, <2>4, <2>5 DEF Fits
<1>9. RequestsFit'
  BY <1>2, <1>7, <1>8 DEF RequestsFit
<1>10. KeptOnce'
  <2>1. ASSUME NEW q \in Req, Keeps(q, pos[q])' PROVE Keeps(q, pos[q])
    BY <2>1, <1>2, <1>4 DEF Keeps
  <2> QED BY <2>1 DEF KeptOnce, Book
<1>11. PhasesFit' /\ TurnsCounted'
  BY DEF Book, PhasesFit, TurnsCounted, IsTurnActive
<1>12. MayDoom
  BY <1>4, KeeperMayDoom
<1>13. ProcessesFit'
  BY <1>4, <1>5, <1>12 DEF Book, ProcessesFit, MayDoom, IsTurnActive, TurnPhases
<1> QED BY <1>9, <1>10, <1>11, <1>13 DEF Book

\* pi takes the prompt, and starts a turn or runs an extension command.
LEMMA PromptAcceptedKeeps ==
  ASSUME TypeOK, MailInv, Book, NEW r \in Req, PromptAccepted(r)
  PROVE  MailInv' /\ Book'
<1>1. pos[r] = "prompt" /\ Fits(r, "prompt")
  BY AtPos, FitsHere DEF PromptAccepted
<1>2. answer[r] = "none"
  BY <1>1 DEF Fits, AnswerFits
<1>3. PICK b \in {"probe", "reconcile"} :
        /\ b = "reconcile" <=> kind[r] = "fork"
        /\ Goto(b) /\ OnlyAnswers(r)
        /\ answer'[r] = IF b = "reconcile" THEN "ok" ELSE "none"
  BY <1>2, AnswersOnly DEF PromptAccepted, OnlyAnswers
<1>4. MailInv' /\ pos' = [pos EXCEPT ![r] = b] /\ Announced' = Announced
  BY <1>3, WentOn DEF PromptAccepted, StepsOf, Continues
<1>5. AnswerFits(r, b)'
  BY <1>3 DEF AnswerFits
<1>6. \A q \in Req \ {r} : Untouched(q)
  BY <1>3 DEF PromptAccepted, Untouched, OnlyAnswers
<1>7. KindFits(r, b)
  BY <1>1, <1>3 DEF Fits, KindFits
<1>8. CASE PiStartsTurn(got[r], r)
  BY <1>1, <1>3, <1>4, <1>5, <1>6, <1>7, <1>8, TurnBegun DEF PromptAccepted, PiStartsTurn, over
<1>9. CASE UNCHANGED <<turn, stage>>
  <2>1. Frame /\ MayDoom
    BY <1>4, <1>9 DEF PromptAccepted, Frame, MayDoom, over
  <2>2. Passes(r, "prompt", b) /\ Ended(r, "prompt")
    BY <1>1, <1>7 DEF Passes, Fits, PhaseFits, TurnFits, Keeps, Unattached, Fresh, Ended
  <2> QED BY <1>1, <1>4, <1>5, <1>6, <2>1, <2>2, PassKeeps
          DEF MayMove, PromptAccepted, Book, PhasesFit
<1> QED BY <1>8, <1>9 DEF PromptAccepted

\* The start fails: a turn that pi began unseen is left to a process given up.
LEMMA StartFailsKeeps ==
  ASSUME TypeOK, MailInv, Book, NEW r \in Req, StartFails(r)
  PROVE  MailInv' /\ Book'
<1>1. CASE At("start", r, "control")
  <2>1. doomed \subseteq doomed' /\ doomed' \subseteq doomed \cup {got[r]}
    BY <1>1, FailsDooms DEF StartFails, At
  <2> QED BY <1>1, <2>1, StartRefusedKeeps DEF StartFails, At
<1>2. CASE At("start", r, "prompt")
  <2>1. doomed \subseteq doomed' /\ doomed' \subseteq doomed \cup {got[r]}
    BY <1>2, FailsDooms DEF StartFails, At, TimesOut
  <2>2. /\ TaskEnds /\ Throws(r)
        /\ UNCHANGED <<life, holder, queued, actorVars, streaming, started, settled,
                       kind, got, gen, removed, accepted>>
    BY <1>2 DEF StartFails, At
  <2>3. CASE UNCHANGED turn
    BY <1>2, <2>1, <2>2, <2>3, StartRefusedKeeps
  <2>4. CASE turn' # turn
    <3>1. TimesOut(got[r]) /\ PiStartsTurn(got[r], r)
      BY <1>2, <2>4 DEF StartFails, At
    <3>2. pos[r] = "prompt" /\ Fits(r, "prompt")
      BY <1>2, AtPos, FitsHere
    <3>3. kind[r] \in Prompts
      BY <3>2 DEF Fits, KindFits
    <3>4. at' = [at EXCEPT ![r] = "caught"] /\ OnlyAnswers(r)
      BY <2>2, <3>3, Thrown
    <3>5. MailInv' /\ pos' = [pos EXCEPT ![r] = "caught"] /\ Announced' \subseteq Announced
      BY <1>2, <2>2, <3>4, TaskEnded DEF Continues
    <3>6. AnswerFits(r, "caught")'
      BY <2>2, <3>2, <3>4, AnswerStands DEF Fits
    <3>7. KindFits(r, "caught") /\ got[r] \in doomed' /\ \A q \in Req \ {r} : Untouched(q)
      BY <2>2, <3>1, <3>3, <3>4 DEF KindFits, TimesOut, Untouched, OnlyAnswers
    <3> QED BY <2>1, <2>2, <3>1, <3>2, <3>5, <3>6, <3>7, TurnBegun
            DEF TimesOut, PiStartsTurn, over
  <2> QED BY <2>3, <2>4
<1> QED BY <1>1, <1>2 DEF StartFails

-------------------------------------------------------------------------------
(* Types *)

\* No more turns than requests.
LEMMA TurnsBounded ==
  ASSUME NEW g \in [Req -> Nat], NEW n, n = Cardinality({r \in Req : g[r] > 0})
  PROVE  n \in 0 .. Cardinality(Req)
<1>1. IsFiniteSet(Req) /\ {r \in Req : g[r] > 0} \subseteq Req
  BY RuntimeAssumption
<1>2. Cardinality(Req) \in Nat /\ n \in Nat /\ n <= Cardinality(Req)
  BY <1>1, FS_Subset, FS_CardinalityType
<1> QED BY <1>2

\* The generations of turns stay in range.
LEMMA TurnType ==
  ASSUME TypeOK, NEW r \in Req, BeginTurn(r), TurnsCounted'
  PROVE  /\ phase' = "starting" /\ generation' \in 0 .. Cardinality(Req)
         /\ gen' \in [Req -> 0 .. generation']
<1>1. generation' = generation + 1 /\ gen' = [gen EXCEPT ![r] = generation + 1]
      /\ phase' = "starting"
  BY DEF BeginTurn
<1>2. gen' \in [Req -> 0 .. generation'] /\ gen' \in [Req -> Nat]
  BY <1>1 DEF TypeOK
<1>3. PICK g, n : g = gen' /\ n = generation'
  OBVIOUS
<1>4. n = Cardinality({q \in Req : g[q] > 0})
  BY <1>3 DEF TurnsCounted
<1>5. n \in 0 .. Cardinality(Req)
  BY <1>2, <1>3, <1>4, TurnsBounded
<1> QED BY <1>1, <1>2, <1>3, <1>5

\* What a step does to the processes and answers of requests.
LEMMA TypesOfParts ==
  ASSUME TypeOK, NEW r \in Req
  PROVE  /\ \A x \in {"ok", "error"} : Answers(r, x) =>
              answer' \in [Req -> {"none", "ok", "error"}]
         /\ Throws(r) => answer' \in [Req -> {"none", "ok", "error"}]
         /\ Freed(r) \in [Proc -> Req \cup {NoReq}]
         /\ \A lf \in [Proc -> {"up", "told", "dead"}] :
              /\ \A p : Tell(lf, p) \in [Proc -> {"up", "told", "dead"}]
              /\ \A dm : KilledOnRelease(lf, r, dm) \in [Proc -> {"up", "told", "dead"}]
<1>1. \A x \in {"ok", "error"} : Answers(r, x) => answer' \in [Req -> {"none", "ok", "error"}]
  BY DEF TypeOK, Answers
<1>2. Freed(r) \in [Proc -> Req \cup {NoReq}]
  BY DEF TypeOK, Freed
<1>3. \A lf \in [Proc -> {"up", "told", "dead"}] :
        /\ \A p : Tell(lf, p) \in [Proc -> {"up", "told", "dead"}]
        /\ \A dm : KilledOnRelease(lf, r, dm) \in [Proc -> {"up", "told", "dead"}]
  BY DEF Tell, KilledOnRelease
<1>4. Throws(r) => answer' \in [Req -> {"none", "ok", "error"}]
  BY <1>1 DEF Throws, Finishes, TypeOK
<1> QED BY <1>1, <1>2, <1>3, <1>4

\* What detach leaves has its types.
LEMMA DetachTypes ==
  ASSUME TypeOK, lease # NoReq, NEW lf \in [Proc -> {"up", "told", "dead"}], NEW dm,
         Detach(lf, dm)
  PROVE  /\ phase' = "detached" /\ lease' = NoReq /\ steering' = {}
         /\ generation' = generation
         /\ holder' \in [Proc -> Req \cup {NoReq}]
         /\ life' \in [Proc -> {"up", "told", "dead"}]
         /\ status' \in {"hidden", "known", "running", "done"}
<1>1. lease \in Req
  BY DEF TypeOK
<1> QED BY <1>1, TypesOfParts DEF Detach, TypeOK

\* A failing RPC gives up a process.
LEMMA DoomTypes ==
  ASSUME TypeOK, NEW p \in Proc, NEW x \in BOOLEAN
  PROVE  (RpcFails(p, x) \/ TimesOut(p) \/ doomed' = doomed) => doomed' \subseteq Proc
BY DEF RpcFails, TimesOut, TypeOK

\* A request leases a process, or not, and begins its turn.
LEMMA LeaseTypes ==
  ASSUME TypeOK, TurnsCounted', NEW r \in Req, NEW d \in {"start", "compact", "stats"},
         \/ \E p \in Proc : AcquireNew(r, p) \/ Acquire(d, r, p)
         \/ AcquireFails(d, r) \/ Switched(d, r) \/ BeginNew(r)
  PROVE  TypeOK'
<1>1. ASSUME NEW p \in Proc, AcquireNew(r, p) \/ Acquire(d, r, p) PROVE TypeOK'
  BY <1>1 DEF AcquireNew, Acquire, TypeOK
<1>2. CASE AcquireFails(d, r)
  BY <1>2, TypesOfParts DEF AcquireFails, TypeOK
<1>3. CASE BeginNew(r)
  BY <1>3, TurnType DEF BeginNew, Attach, TypeOK, TurnPhases
<1>4. CASE Switched(d, r)
  <2>1. CASE d = "start"
    BY <1>4, <2>1, TurnType DEF Switched, Attach, TypeOK, TurnPhases
  <2>2. CASE d # "start"
    BY <1>4, <2>2 DEF Switched, Attach, TypeOK
  <2> QED BY <2>1, <2>2
<1> QED BY <1>1, <1>2, <1>3, <1>4

\* An RPC goes to a process.
LEMMA RpcHasProcess ==
  ASSUME TypeOK, MailInv, Book, NEW r \in Req
  PROVE  /\ \A d \in Handlers, s \in {"switch"} \cup Starting : At(d, r, s) => got[r] \in Proc
         /\ \A d \in Handlers, s \in {"steer", "abort", "peek", "rpc"} :
              At(d, r, s) => Process \in Proc /\ lease # NoReq
         /\ at[r] \in {"creating", "probing"} => got[r] \in Proc
<1>1. ASSUME NEW d \in Handlers, NEW s \in {"switch"} \cup Starting, At(d, r, s)
      PROVE  got[r] \in Proc
  <2>1. pos[r] = (IF d = "settle" THEN "ending" ELSE s) /\ Fits(r, pos[r])
    BY <1>1, AtPos, FitsHere
  <2> QED BY <2>1 DEF Fits, TurnFits
<1>2. ASSUME NEW d \in Handlers, NEW s \in {"steer", "abort", "peek", "rpc"}, At(d, r, s)
      PROVE  Process \in Proc /\ lease # NoReq
  <2>1. pos[r] = s /\ Fits(r, s)
    BY <1>2, AtPos, FitsHere DEF StepsOf
  <2>2. lease # NoReq
    BY <2>1, NoLease, RuntimeAssumption DEF Fits, PhaseFits
  <2> QED BY <2>2, LeaseIsKept
<1>3. ASSUME at[r] \in {"creating", "probing"} PROVE got[r] \in Proc
  <2>1. pos[r] = at[r] /\ Fits(r, pos[r])
    BY <1>3, OutsidePos, FitsHere
  <2> QED BY <1>3, <2>1 DEF Fits, TurnFits
<1> QED BY <1>1, <1>2, <1>3

\* Steps of a turn, up to its settlement.
LEMMA TurnTypes ==
  ASSUME TypeOK, MailInv, Book, NEW r \in Req, NEW d \in Handlers,
         \/ CreateSession(r) \/ SwitchFails(d, r) \/ Refused(d, r) \/ PromptAccepted(r)
         \/ StartFails(r) \/ Accept(r) \/ ReconcileFails(d, r) \/ ForkProbes(r)
         \/ Settle(r) \/ Catch(r) \/ Fail(r)
  PROVE  TypeOK'
<1>1. CASE CreateSession(r) \/ ForkProbes(r) \/ ReconcileFails(d, r)
  <2>1. got[r] \in Proc
    BY <1>1, RpcHasProcess DEF CreateSession, ForkProbes, ReconcileFails
  <2>2. doomed' \subseteq Proc
    BY <1>1, <2>1, DoomTypes DEF CreateSession, ForkProbes, ReconcileFails
  <2> QED BY <1>1, <2>2 DEF CreateSession, ForkProbes, ReconcileFails, TypeOK
<1>2. CASE SwitchFails(d, r)
  <2>1. got[r] \in Proc
    BY <1>2, RpcHasProcess DEF SwitchFails
  <2>2. doomed' \subseteq Proc
    BY <1>2, <2>1, DoomTypes DEF SwitchFails
  <2>3. /\ answer' \in [Req -> {"none", "ok", "error"}]
        /\ holder' \in [Proc -> Req \cup {NoReq}]
        /\ life' \in [Proc -> {"up", "told", "dead"}]
    BY <1>2, TypesOfParts DEF SwitchFails, TypeOK
  <2> QED BY <1>2, <2>2, <2>3 DEF SwitchFails, TypeOK
<1>3. CASE Refused(d, r)
  BY <1>3, TypesOfParts DEF Refused, TypeOK
<1>4. CASE PromptAccepted(r)
  <2>1. answer' \in [Req -> {"none", "ok", "error"}]
    BY <1>4, TypesOfParts DEF PromptAccepted, TypeOK
  <2> QED BY <1>4, <2>1 DEF PromptAccepted, PiStartsTurn, TypeOK
<1>5. CASE StartFails(r)
  <2>1. got[r] \in Proc
    BY <1>5, RpcHasProcess DEF StartFails
  <2>2. doomed' \subseteq Proc
    BY <1>5, <2>1, DoomTypes DEF StartFails
  <2>3. answer' \in [Req -> {"none", "ok", "error"}]
    BY <1>5, TypesOfParts DEF StartFails
  <2>4. CASE At("start", r, "control")
    BY <1>5, <2>2, <2>3, <2>4 DEF StartFails, At, TypeOK
  <2>5. CASE At("start", r, "prompt")
    <3>1. /\ turn' = turn \/ turn' = [turn EXCEPT ![got[r]] = r]
          /\ stage' = stage \/ stage' = [stage EXCEPT ![got[r]] = "accepted"]
          /\ reached' \subseteq reached \cup {r} /\ timedOut' \subseteq timedOut \cup {r}
          /\ UNCHANGED <<life, holder, queued, actorVars, streaming, started, settled,
                         kind, got, gen, removed, accepted>>
      BY <1>5, <2>5 DEF StartFails, At, PiStartsTurn
    <3> QED BY <2>1, <2>2, <2>3, <3>1 DEF TypeOK
  <2> QED BY <1>5, <2>4, <2>5 DEF StartFails
<1>6. CASE Accept(r)
  <2>1. got[r] \in Proc
    BY <1>6, RpcHasProcess DEF Accept
  <2>2. doomed' \subseteq Proc
    BY <1>6, <2>1, DoomTypes DEF Accept, ProbeEnds
  <2>3. answer' \in [Req -> {"none", "ok", "error"}]
    BY <1>6, TypesOfParts DEF Accept
  <2>4. streaming' \subseteq Req /\ status' \in {"hidden", "known", "running", "done"}
    BY <1>6 DEF Accept, TypeOK
  <2> QED BY <1>6, <2>2, <2>3, <2>4 DEF Accept, TypeOK
<1>7. CASE Settle(r)
  <2>1. pos[r] = "ending" /\ Fits(r, "ending")
    BY <1>7, AtPos, FitsHere DEF Settle
  <2>2. lease # NoReq
    BY <2>1, RuntimeAssumption DEF Fits, PhaseFits
  <2> QED BY <1>7, <2>2, DetachTypes DEF Settle, TypeOK
<1>8. CASE Catch(r)
  <2>1. /\ answer' \in [Req -> {"none", "ok", "error"}]
        /\ holder' \in [Proc -> Req \cup {NoReq}]
        /\ life' \in [Proc -> {"up", "told", "dead"}]
    BY <1>8, TypesOfParts DEF Catch, Finishes, ReleasesUnowned, TypeOK
  <2> QED BY <1>8, <2>1 DEF Catch, TypeOK
<1>9. CASE Fail(r)
  <2>1. PICK lf : lf = IF r \in timedOut THEN Tell(life, got[r]) ELSE life
    OBVIOUS
  <2>2. lf \in [Proc -> {"up", "told", "dead"}]
    BY <2>1, TypesOfParts DEF TypeOK
  <2>3. IF Owns(r) THEN Detach(lf, doomed) ELSE life' = lf /\ UNCHANGED <<holder, actorVars>>
    BY <1>9, <2>1 DEF Fail
  <2>4. answer' \in [Req -> {"none", "ok", "error"}]
    BY <1>9, TypesOfParts DEF Fail, Finishes
  <2>5. CASE Owns(r)
    <3>1. lease # NoReq
      BY <2>5, NoLease DEF Owns
    <3> QED BY <1>9, <2>2, <2>3, <2>4, <2>5, <3>1, DetachTypes DEF Fail, TypeOK
  <2>6. CASE ~Owns(r)
    BY <1>9, <2>2, <2>3, <2>4, <2>6 DEF Fail, TypeOK
  <2> QED BY <2>5, <2>6
<1> QED BY <1>1, <1>2, <1>3, <1>4, <1>5, <1>6, <1>7, <1>8, <1>9

\* Steps of commands.
LEMMA CommandTypes ==
  ASSUME TypeOK, MailInv, Book, NEW r \in Req, NEW d \in Handlers,
         \/ BeginSteer(d, r) \/ Steered(d, r) \/ SteerFails(d, r) \/ RemoveSteering(r)
         \/ BeginAbort(r) \/ AbortEnds(r) \/ HardKill(r) \/ CommandEnds(d, r)
         \/ StatsPeeked(r)
  PROVE  TypeOK'
<1>1. CASE BeginSteer(d, r)
  BY <1>1 DEF BeginSteer, TypeOK
<1>2. CASE Steered(d, r) \/ RemoveSteering(r) \/ BeginAbort(r)
  <2>1. answer' \in [Req -> {"none", "ok", "error"}]
    BY <1>2, TypesOfParts DEF Steered, RemoveSteering, BeginAbort, Finishes, TypeOK
  <2> QED BY <1>2, <2>1 DEF Steered, RemoveSteering, BeginAbort, TypeOK
<1>3. CASE SteerFails(d, r) \/ AbortEnds(r) \/ StatsPeeked(r)
  <2>1. Process \in Proc
    BY <1>3, RpcHasProcess DEF SteerFails, AbortEnds, StatsPeeked
  <2>2. doomed' \subseteq Proc
    BY <1>3, <2>1, DoomTypes DEF SteerFails, AbortEnds, StatsPeeked
  <2>3. answer' \in [Req -> {"none", "ok", "error"}]
    BY <1>3, TypesOfParts DEF SteerFails, AbortEnds, StatsPeeked, Finishes
  <2> QED BY <1>3, <2>2, <2>3 DEF SteerFails, AbortEnds, StatsPeeked, TypeOK
<1>4. CASE CommandEnds(d, r)
  <2>1. Process \in Proc /\ lease # NoReq
    BY <1>4, RpcHasProcess DEF CommandEnds
  <2>2. doomed' \subseteq Proc
    BY <1>4, <2>1, DoomTypes DEF CommandEnds
  <2>3. answer' \in [Req -> {"none", "ok", "error"}]
    BY <1>4, TypesOfParts DEF CommandEnds, Finishes
  <2>4. Detach(life, doomed') /\ life \in [Proc -> {"up", "told", "dead"}]
    BY <1>4 DEF CommandEnds, TypeOK
  <2> QED BY <1>4, <2>1, <2>2, <2>3, <2>4, DetachTypes DEF CommandEnds, TypeOK
<1>5. CASE HardKill(r)
  <2>1. answer' \in [Req -> {"none", "ok", "error"}]
    BY <1>5, TypesOfParts DEF HardKill, Finishes
  <2>2. CASE Process = NoProc
    BY <1>5, <2>1, <2>2 DEF HardKill, TypeOK
  <2>3. CASE Process # NoProc
    <3>1. lease # NoReq
      BY <2>3, NoLease
    <3>2. Process \in Proc
      BY <3>1, LeaseIsKept
    <3>3. PICK lf : lf = Tell(life, Process)
      OBVIOUS
    <3>4. lf \in [Proc -> {"up", "told", "dead"}]
      BY <3>3, TypesOfParts DEF TypeOK
    <3>5. Detach(lf, doomed') /\ doomed' \subseteq Proc
      BY <1>5, <2>3, <3>2, <3>3 DEF HardKill, TypeOK
    <3> QED BY <1>5, <2>1, <3>1, <3>4, <3>5, DetachTypes DEF HardKill, TypeOK
  <2> QED BY <2>2, <2>3
<1> QED BY <1>1, <1>2, <1>3, <1>4, <1>5


-------------------------------------------------------------------------------
(* The invariant *)

\* Nothing has happened yet.
LEMMA InitHolds == Init => SessionInv
<1> SUFFICES ASSUME Init PROVE SessionInv
  OBVIOUS
<1>1. TypeOK
  <2>1. Cardinality(Req) \in Nat
    BY RuntimeAssumption, FS_CardinalityType
  <2> QED BY <2>1 DEF Init, TypeOK
<1>2. MailInv
  BY DEF Init, MailInv, TasksFit, TasksOnce
<1>3. OneCreator
  <2> SUFFICES ASSUME NEW q \in Req, NEW r \in Req,
                      kind[q] \in Creators, kind[r] \in Creators, q # r
               PROVE  FALSE
    BY DEF OneCreator
  <2> DEFINE S == {x \in Req : kind[x] \in Creators}
  <2>1. IsFiniteSet(S) /\ Cardinality(S) <= 1
    BY RuntimeAssumption, FS_Subset DEF Init
  <2>2. Cardinality({q}) = 1 /\ IsFiniteSet({q})
    BY FS_Singleton
  <2>3. Cardinality({q} \cup {r}) = 2
    BY <2>2, FS_AddElement
  <2>4. {q} \cup {r} \subseteq S
    OBVIOUS
  <2>5. Cardinality({q} \cup {r}) <= Cardinality(S)
    BY <2>1, <2>4, FS_Subset
  <2>6. Cardinality(S) \in Nat
    BY <2>1, FS_CardinalityType
  <2> QED BY <2>1, <2>3, <2>5, <2>6
<1>4. Book
  <2>1. \A r \in Req : pos[r] = "idle"
    BY DEF Init, pos, Pos
  <2>2. ASSUME NEW r \in Req PROVE Fits(r, "idle")
    <3>1. KindFits(r, "idle") /\ PhaseFits(r, "idle") /\ TurnFits(r, "idle")
      BY RuntimeAssumption DEF Init, KindFits, PhaseFits, TurnFits
    <3>2. /\ Held(r, "idle") /\ Accounted(r, "idle") /\ TurnEnds(r, "idle")
          /\ AnswerFits(r, "idle")
      BY RuntimeAssumption DEF Init, Held, Keeps, Accounted, TurnEnds, AnswerFits
    <3>3. Quiet(r, "idle")
      BY RuntimeAssumption DEF Init, Quiet, Keeps, over, Announced, AnnouncedIn
    <3>4. Unknown(r)
      BY <2>1 DEF Init, Unknown
    <3> QED BY <3>1, <3>2, <3>3, <3>4 DEF Fits
  <2>3. RequestsFit
    BY <2>1, <2>2 DEF RequestsFit
  <2>4. KeptOnce
    BY RuntimeAssumption DEF Init, KeptOnce, Keeps
  <2>5. PhasesFit /\ ProcessesFit
    BY DEF Init, PhasesFit, ProcessesFit, IsTurnActive, TurnPhases
  <2>6. TurnsCounted
    <3>1. {r \in Req : gen[r] > 0} = {}
      BY DEF Init
    <3> QED BY <3>1, FS_EmptySet DEF Init, TurnsCounted
  <2> QED BY <2>3, <2>4, <2>5, <2>6 DEF Book
<1> QED BY <1>1, <1>2, <1>3, <1>4 DEF SessionInv

\* One segment of a task.
LEMMA MailboxStepKeeps ==
  ASSUME SessionInv, MailboxStep
  PROVE  TypeOK' /\ MailInv' /\ Book'
<1>1. TypeOK /\ MailInv /\ Book
  BY DEF SessionInv
<1>2. ASSUME NEW r \in Req, NEW d \in {"start", "compact", "stats"}
      PROVE  /\ (\E p \in Proc : Acquire(d, r, p)) => TypeOK' /\ MailInv' /\ Book'
             /\ AcquireFails(d, r) => TypeOK' /\ MailInv' /\ Book'
             /\ Switched(d, r) => TypeOK' /\ MailInv' /\ Book'
  <2>1. (\E p \in Proc : Acquire(d, r, p)) \/ AcquireFails(d, r) \/ Switched(d, r)
        => MailInv' /\ Book'
    BY <1>1, AcquireKeeps, AcquireFailsKeeps, SwitchedKeeps
  <2> QED BY <1>1, <2>1, LeaseTypes DEF Book
<1>3. ASSUME NEW r \in Req, NEW d \in {"start", "compact", "stats"}
      PROVE  /\ SwitchFails(d, r) => TypeOK' /\ MailInv' /\ Book'
             /\ CommandEnds(d, r) => TypeOK' /\ MailInv' /\ Book'
  BY <1>1, SwitchFailsKeeps, TurnTypes, CommandEndsKeeps, CommandTypes
<1>4. ASSUME NEW r \in Req, NEW d \in {"start", "compact", "stats"}, BeginCommand(d, r)
      PROVE  TypeOK' /\ MailInv' /\ Book'
  <2>1. TypeOK'
    BY <1>1, <1>4 DEF BeginCommand, TypeOK
  <2> QED BY <1>1, <1>4, <2>1, BeginCommandKeeps
<1>5. ASSUME NEW r \in Req, NEW d \in {"start", "compact", "steer"}, Refused(d, r)
      PROVE  TypeOK' /\ MailInv' /\ Book'
  BY <1>1, <1>5, RefusedKeeps, TurnTypes
<1>6. ASSUME NEW r \in Req, NEW d \in {"start", "steer"}
      PROVE  /\ BeginSteer(d, r) => TypeOK' /\ MailInv' /\ Book'
             /\ Steered(d, r) => TypeOK' /\ MailInv' /\ Book'
             /\ SteerFails(d, r) => TypeOK' /\ MailInv' /\ Book'
  BY <1>1, BeginSteerKeeps, SteeredKeeps, SteerFailsKeeps, CommandTypes
<1>7. ASSUME NEW r \in Req, NEW d \in {"start", "settle"}, ReconcileFails(d, r)
      PROVE  TypeOK' /\ MailInv' /\ Book'
  BY <1>1, <1>7, ReconcileFailsKeeps, TurnTypes
<1>8. ASSUME NEW r \in Req
      PROVE  /\ BeginStart(r) => TypeOK' /\ MailInv' /\ Book'
             /\ ControlApplied(r) => TypeOK' /\ MailInv' /\ Book'
             /\ StartEnds(r) => TypeOK' /\ MailInv' /\ Book'
             /\ BeginSettle(r) => TypeOK' /\ MailInv' /\ Book'
  <2>1. BeginStart(r) \/ ControlApplied(r) \/ StartEnds(r) \/ BeginSettle(r) => TypeOK'
    BY <1>1 DEF BeginStart, ControlApplied, StartEnds, BeginSettle, TypeOK
  <2> QED BY <1>1, <2>1, BeginStartKeeps, ControlAppliedKeeps, StartEndsKeeps, BeginSettleKeeps
<1>9. ASSUME NEW r \in Req, BeginNew(r) PROVE TypeOK' /\ MailInv' /\ Book'
  <2>1. MailInv' /\ Book'
    BY <1>1, <1>9, BeginNewKeeps
  <2>2. TypeOK'
    BY <1>1, <1>9, <2>1, LeaseTypes DEF Book
  <2> QED BY <2>1, <2>2
<1>10. ASSUME NEW r \in Req
       PROVE  /\ PromptAccepted(r) => TypeOK' /\ MailInv' /\ Book'
              /\ StartFails(r) => TypeOK' /\ MailInv' /\ Book'
              /\ Accept(r) => TypeOK' /\ MailInv' /\ Book'
              /\ Settle(r) => TypeOK' /\ MailInv' /\ Book'
              /\ Fail(r) => TypeOK' /\ MailInv' /\ Book'
  <2>1. \/ PromptAccepted(r) \/ StartFails(r) \/ Accept(r) \/ Settle(r) \/ Fail(r)
        => TypeOK'
    BY <1>1, TurnTypes
  <2> QED BY <1>1, <2>1, PromptAcceptedKeeps, StartFailsKeeps, AcceptKeeps, SettleKeeps, FailKeeps
<1>11. ASSUME NEW r \in Req
       PROVE  /\ RemoveSteering(r) => TypeOK' /\ MailInv' /\ Book'
              /\ BeginAbort(r) => TypeOK' /\ MailInv' /\ Book'
              /\ AbortEnds(r) => TypeOK' /\ MailInv' /\ Book'
              /\ HardKill(r) => TypeOK' /\ MailInv' /\ Book'
              /\ StatsPeeked(r) => TypeOK' /\ MailInv' /\ Book'
  <2>1. \/ RemoveSteering(r) \/ BeginAbort(r) \/ AbortEnds(r) \/ HardKill(r) \/ StatsPeeked(r)
        => TypeOK'
    BY <1>1, CommandTypes
  <2> QED BY <1>1, <2>1, RemoveSteeringKeeps, BeginAbortKeeps, AbortEndsKeeps, HardKillKeeps,
          StatsPeekedKeeps
<1>12. ASSUME NEW r \in Req, NEW e \in Events, ProcessEvent(e, r)
       PROVE  TypeOK' /\ MailInv' /\ Book'
  <2>1. phase' \in {"detached", "ready"} \cup TurnPhases
    BY <1>1, <1>12 DEF ProcessEvent, NextPhase, TurnPhases, TypeOK
  <2>2. steering' \subseteq Req /\ started' \subseteq Req /\ settled' \subseteq Req
    BY <1>1, <1>12 DEF ProcessEvent, TypeOK
  <2>3. TypeOK'
    BY <1>1, <1>12, <2>1, <2>2 DEF ProcessEvent, TypeOK
  <2> QED BY <1>1, <1>12, <2>3, ProcessEventKeeps
<1>13. ASSUME NEW p \in Proc, ProcessExit(p) PROVE TypeOK' /\ MailInv' /\ Book'
  <2>1. CASE Process = p
    <3>1. lease # NoReq /\ life \in [Proc -> {"up", "told", "dead"}]
      BY <1>1, <2>1, NoLease, RuntimeAssumption DEF TypeOK
    <3>2. TypeOK'
      BY <1>1, <1>13, <2>1, <3>1, DetachTypes DEF ProcessExit, TypeOK
    <3> QED BY <1>1, <1>13, <3>2, ProcessExitKeeps
  <2>2. CASE Process # p
    <3>1. TypeOK'
      BY <1>1, <1>13, <2>2 DEF ProcessExit, TypeOK
    <3> QED BY <1>1, <1>13, <3>1, ProcessExitKeeps
  <2> QED BY <2>1, <2>2
<1>14. CASE \E r \in Req, d \in {"start", "compact", "stats"} :
              \/ \E p \in Proc : Acquire(d, r, p)
              \/ AcquireFails(d, r) \/ Switched(d, r) \/ SwitchFails(d, r)
              \/ BeginCommand(d, r) \/ CommandEnds(d, r)
  BY <1>2, <1>3, <1>4, <1>14
<1>15. CASE \E r \in Req :
              \/ BeginStart(r) \/ BeginNew(r) \/ ControlApplied(r) \/ PromptAccepted(r)
              \/ StartFails(r) \/ Accept(r) \/ StartEnds(r)
              \/ BeginSettle(r) \/ Settle(r) \/ Fail(r)
              \/ RemoveSteering(r) \/ BeginAbort(r) \/ AbortEnds(r) \/ HardKill(r)
              \/ StatsPeeked(r)
              \/ \E e \in Events : ProcessEvent(e, r)
  BY <1>8, <1>9, <1>10, <1>11, <1>12, <1>15
<1> QED BY <1>5, <1>6, <1>7, <1>13, <1>14, <1>15 DEF MailboxStep

\* One segment of a handler outside the mailbox.
LEMMA HandlerStepKeeps ==
  ASSUME SessionInv, NEW r \in Req, Submit(r) \/ HandlerStep(r)
  PROVE  TypeOK' /\ MailInv' /\ Book'
<1>1. TypeOK /\ MailInv /\ Book /\ OneCreator
  BY DEF SessionInv
<1>2. ASSUME NEW p \in Proc, AcquireNew(r, p) PROVE TypeOK' /\ MailInv' /\ Book'
  <2>1. MailInv' /\ Book'
    BY <1>1, <1>2, AcquireNewKeeps
  <2> QED BY <1>1, <1>2, <2>1, LeaseTypes DEF Book
<1>3. Submit(r) \/ AcquireNewFails(r) \/ TurnSettled(r) \/ TurnExited(r) => TypeOK'
  BY <1>1 DEF Submit, AcquireNewFails, TurnSettled, TurnExited, TypeOK
<1>4. CreateSession(r) \/ ForkProbes(r) \/ Catch(r) => TypeOK'
  BY <1>1, TurnTypes
<1>5. Submit(r) \/ AcquireNewFails(r) \/ TurnSettled(r) \/ TurnExited(r) => MailInv' /\ Book'
  BY <1>1, SubmitKeeps, AcquireNewFailsKeeps, TurnSettledKeeps, TurnExitedKeeps
<1>6. CreateSession(r) \/ ForkProbes(r) \/ Catch(r) => MailInv' /\ Book'
  BY <1>1, CreateSessionKeeps, ForkProbesKeeps, CatchKeeps
<1> QED BY <1>2, <1>3, <1>4, <1>5, <1>6 DEF HandlerStep

\* One step of a process or of the pool.
LEMMA ProcessStepKeeps ==
  ASSUME SessionInv, NEW p \in Proc, PiStep(p) \/ Exit(p)
  PROVE  TypeOK' /\ MailInv' /\ Book'
<1>1. TypeOK /\ MailInv /\ Book
  BY DEF SessionInv
<1>2. CASE PiStep(p)
  <2>1. TypeOK'
    BY <1>1, <1>2 DEF PiStep, PiStarts, PiEnds, PiSettles, PiConsumes, TurnProceeds, TypeOK
  <2> QED BY <1>1, <1>2, <2>1, PiStepKeeps
<1>3. CASE Exit(p)
  <2>1. TypeOK'
    BY <1>1, <1>3 DEF Exit, TypeOK
  <2> QED BY <1>1, <1>3, <2>1, ExitKeeps
<1> QED BY <1>2, <1>3

\* No request ever asks for something else.
LEMMA KindStays == ASSUME Next PROVE kind' = kind
<1>1. CASE MailboxStep
  <2>1. ASSUME NEW r \in Req, NEW d,
               \/ \E p \in Proc : Acquire(d, r, p)
               \/ AcquireFails(d, r) \/ Switched(d, r) \/ SwitchFails(d, r)
               \/ BeginCommand(d, r) \/ CommandEnds(d, r) \/ Refused(d, r)
               \/ BeginSteer(d, r) \/ Steered(d, r) \/ SteerFails(d, r)
               \/ ReconcileFails(d, r)
        PROVE  kind' = kind
    BY <2>1 DEF Acquire, AcquireFails, Switched, SwitchFails, BeginCommand, CommandEnds, Refused,
                BeginSteer, Steered, SteerFails, ReconcileFails
  <2>2. ASSUME NEW r \in Req,
               \/ BeginStart(r) \/ BeginNew(r) \/ ControlApplied(r) \/ PromptAccepted(r)
               \/ StartFails(r) \/ Accept(r) \/ StartEnds(r)
               \/ BeginSettle(r) \/ Settle(r) \/ Fail(r)
        PROVE  kind' = kind
    BY <2>2 DEF BeginStart, BeginNew, ControlApplied, PromptAccepted, StartFails, Accept,
                StartEnds, BeginSettle, Settle, Fail
  <2>3. ASSUME NEW r \in Req,
               \/ RemoveSteering(r) \/ BeginAbort(r) \/ AbortEnds(r) \/ HardKill(r)
               \/ StatsPeeked(r)
               \/ \E e \in Events : ProcessEvent(e, r)
        PROVE  kind' = kind
    BY <2>3 DEF RemoveSteering, BeginAbort, AbortEnds, HardKill, StatsPeeked, ProcessEvent
  <2>4. ASSUME NEW p \in Proc, ProcessExit(p) PROVE kind' = kind
    BY <2>4 DEF ProcessExit
  <2> QED BY <1>1, <2>1, <2>2, <2>3, <2>4 DEF MailboxStep
<1>2. CASE \E r \in Req : Submit(r) \/ HandlerStep(r)
  BY <1>2 DEF Submit, HandlerStep, AcquireNew, AcquireNewFails, CreateSession, ForkProbes,
              TurnSettled, TurnExited, Catch
<1>3. CASE Recycle \/ \E p \in Proc : PiStep(p) \/ Exit(p)
  BY <1>3 DEF Recycle, PiStep, PiStarts, PiEnds, PiSettles, PiConsumes, TurnProceeds, Exit
<1> QED BY <1>1, <1>2, <1>3 DEF Next

\* No step breaks the books.
LEMMA NextKeeps == SessionInv /\ [Next]_vars => SessionInv'
<1> SUFFICES ASSUME SessionInv, [Next]_vars PROVE SessionInv'
  OBVIOUS
<1>1. CASE Next
  <2>1. OneCreator'
    BY <1>1, KindStays DEF SessionInv, OneCreator
  <2>2. CASE MailboxStep
    BY <2>1, <2>2, MailboxStepKeeps DEF SessionInv
  <2>3. CASE \E r \in Req : Submit(r) \/ HandlerStep(r)
    BY <2>1, <2>3, HandlerStepKeeps DEF SessionInv
  <2>4. CASE \E p \in Proc : PiStep(p) \/ Exit(p)
    BY <2>1, <2>4, ProcessStepKeeps DEF SessionInv
  <2>5. CASE Recycle
    <3>1. TypeOK'
      BY <2>5 DEF SessionInv, Recycle, TypeOK
    <3> QED BY <2>1, <2>5, <3>1, RecycleKeeps DEF SessionInv
  <2> QED BY <1>1, <2>2, <2>3, <2>4, <2>5 DEF Next
<1>2. CASE UNCHANGED vars
  <2>1. TypeOK' /\ OneCreator'
    BY <1>2 DEF SessionInv, TypeOK, OneCreator, vars
  <2>2. MailInv' /\ pos' = pos /\ Announced' = Announced
    BY <1>2, MailKept DEF SessionInv, vars, Continues
  <2>3. Frame /\ MayDoom /\ \A q \in Req : Untouched(q)
    BY <1>2, <2>2 DEF vars, Frame, MayDoom, Untouched, over
  <2>4. Book'
    BY <1>2, <2>2, <2>3, NothingMoves DEF SessionInv, vars, Book, PhasesFit
  <2> QED BY <2>1, <2>2, <2>4 DEF SessionInv
<1> QED BY <1>1, <1>2

-------------------------------------------------------------------------------
(* The properties *)

\* Between two segments of the mailbox the actor is detached or in a turn.
LEMMA CleanFollows == SessionInv => CleanBetweenTasks
<1> SUFFICES ASSUME SessionInv PROVE CleanBetweenTasks
  OBVIOUS
<1>1. TypeOK /\ MailInv /\ Book
  BY DEF SessionInv
<1>2. phase = "ready" => ~IsTurnActive /\ lease # NoReq
  BY <1>1 DEF IsTurnActive, TurnPhases, Book, PhasesFit
<1>3. step = "begin" => phase # "ready"
  BY <1>1, <1>2, CleanMailbox
<1> QED BY <1>1, <1>3 DEF CleanBetweenTasks, Book, PhasesFit

\* A request that is done is done in every respect.
LEMMA FinishedFollows == SessionInv => FinishedHoldsNothing
<1> SUFFICES ASSUME SessionInv, NEW r \in Req, at[r] = "done"
             PROVE  lease # r /\ \A p \in Proc : holder[p] # r
  BY DEF FinishedHoldsNothing
<1>1. pos[r] = "done" /\ Fits(r, "done")
  BY OutsidePos, FitsHere DEF SessionInv
<1>2. lease # r
  BY <1>1 DEF Fits, PhaseFits
<1> QED BY <1>1, <1>2 DEF Fits, Accounted, Unattached

\* A process that can be leased again runs no turn.
LEMMA ReleasedFollows == SessionInv => ReleasedIsQuiet
<1> SUFFICES ASSUME SessionInv, NEW p \in Proc, life[p] = "up", holder[p] = NoReq, turn[p] # NoReq
             PROVE  FALSE
  BY DEF ReleasedIsQuiet
<1>1. TypeOK /\ Book
  BY DEF SessionInv
<1>2. p \notin doomed /\ turn[p] = lease /\ lease # NoReq
  BY <1>1 DEF Book, ProcessesFit
<1>3. lease \in Req /\ Process = got[lease] /\ Keeps(lease, pos[lease])
  BY <1>1, <1>2, LeaseIsKept
<1>4. Fits(lease, pos[lease])
  BY <1>1, <1>3, FitsHere
<1>5. got[lease] = p
  BY <1>2, <1>4 DEF Fits, TurnEnds
<1> QED BY <1>2, <1>3, <1>4, <1>5 DEF Fits, Held, Gone

\* A compaction holds the lease of an actor that has no turn.
LEMMA ExclusiveFollows == SessionInv => ExclusiveRunsAlone
<1> SUFFICES ASSUME SessionInv, mailbox # <<>>, Head(mailbox).do = "compact", step = "rpc"
             PROVE  phase = "ready" /\ turn[Process] = NoReq
  BY DEF ExclusiveRunsAlone
<1>1. TypeOK /\ MailInv /\ Book
  BY DEF SessionInv
<1>2. Head(mailbox) \in TaskType /\ TaskFits(Head(mailbox))
  BY <1>1, TailTasks DEF MailInv, TasksFit
<1>3. PICK r \in Req : r = Head(mailbox).by
  BY <1>2 DEF TaskFits
<1>4. At("compact", r, "rpc")
  BY <1>3 DEF At
<1>5. pos[r] = "rpc" /\ Fits(r, "rpc")
  BY <1>1, <1>4, AtPos, FitsHere
<1>6. phase = "ready" /\ lease = r /\ gen[r] = 0 /\ Keeps(r, "rpc")
  BY <1>1, <1>5 DEF Fits, PhaseFits, KindFits, TurnFits, Keeps, TypeOK
<1>7. Process = got[r]
  BY <1>6, RuntimeAssumption DEF Process
<1> QED BY <1>5, <1>6, <1>7 DEF Fits, Quiet, Fresh

\* The answer of an accepted prompt is success, or has not been given.
LEMMA AcceptedFollows == SessionInv => AcceptedNeverFails
<1> SUFFICES ASSUME SessionInv, NEW r \in accepted PROVE answer[r] # "error"
  BY DEF AcceptedNeverFails
<1>1. r \in Req
  BY DEF SessionInv, TypeOK
<1>2. Fits(r, pos[r])
  BY <1>1, FitsHere DEF SessionInv
<1> QED BY <1>2 DEF Fits, AnswerFits

\* Every state of a session is of its types and keeps its books: each request,
\* wherever its handler is suspended, agrees with the phase of the actor, the
\* lease, the pool and pi (session-actor.ts, ws-handler.ts).
THEOREM SessionInvariant == Spec => []SessionInv
<1> QED BY InitHolds, NextKeeps, PTL DEF Spec

\* The variables of the actor, its handlers and the pool keep their types; in
\* particular there are never more turn generations than requests
\* (SessionActor.beginTurn).
THEOREM SessionTypeCorrect == Spec => []TypeOK
<1>1. SessionInv => TypeOK
  BY DEF SessionInv
<1> QED BY <1>1, SessionInvariant, PTL

\* The mailbox leaves no half-attached actor, a handler that is done has given
\* back its process, and no process returns to the pool with a turn running:
\* SessionActor.detach, WsHandler.releaseActor and the pool agree.
THEOREM LeasesAreDisciplined == Spec => []LeaseDiscipline
<1>1. SessionInv => LeaseDiscipline
  BY CleanFollows, FinishedFollows, ReleasedFollows DEF LeaseDiscipline
<1> QED BY <1>1, SessionInvariant, PTL

\* A compaction never overlaps a turn (session-actor.ts:44).
THEOREM ExclusiveIsAlone == Spec => []ExclusiveRunsAlone
<1> QED BY ExclusiveFollows, SessionInvariant, PTL

\* A prompt that pi has accepted is never reported as failed
\* (ws-handler.ts:985).
THEOREM AcceptedStaysAccepted == Spec => []AcceptedNeverFails
<1> QED BY AcceptedFollows, SessionInvariant, PTL

================================================================================
