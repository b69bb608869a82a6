------------------------- MODULE Connections_proofs -------------------------
(***************************************************************************)
(* Proofs about the two ends of a connection, for any bounds.  Workspace,  *)
(* the hosts of a browser and their carriers: its types, and that nobody   *)
(* waits for an attempt that has ended.  FrameQueue, what one carrier      *)
(* sends: its accounts, the order of its lanes and what its decoder gets.  *)
(***************************************************************************)
EXTENDS Workspace, FrameQueue, FiniteSetTheorems, SequenceTheorems, TLAPS

Ops == [Op -> [kind : OpKinds, host : Host, pc : Pcs]]

(* The steps of one carrier.                                               *)

\* What may become of a carrier is a carrier.
LEMMA HelpersAreTyped ==
  ASSUME NEW c \in Carriers, NEW b \in BOOLEAN
  PROVE  /\ NewCarrier \in Carriers
         /\ Shut(c) \in Carriers
         /\ Starts(c, b) \in Carriers
         /\ Connect(c) \in Carriers
         /\ Close(c) \in Carriers
         /\ Rejects(c) \in Carriers
<1>1. NewCarrier \in Carriers
  BY DEF NewCarrier, Carriers, Stages
<1>2. Shut(c) \in Carriers
  BY DEF Shut, Carriers
<1>3. \A d \in BOOLEAN : Starts(c, d) \in Carriers
  BY DEF Starts, Carriers, Stages
<1>4. Connect(c) \in Carriers
  BY <1>3 DEF Connect
<1>5. Close(c) \in Carriers
  BY DEF Close, Shut, Carriers, Stages
<1>6. Rejects(c) \in Carriers
  BY DEF Rejects, Carriers, Stages
<1> QED BY <1>1, <1>2, <1>3, <1>4, <1>5, <1>6

\* connect() leaves an attempt under way unless there is a connection, and never ends one;
\* what close() ends is not connected.
LEMMA ConnectWaits ==
  ASSUME NEW c \in Carriers
  PROVE  /\ ~(c.connected /\ c.open) => Connect(c).stage # "idle"
         /\ c.stage # "idle" => Connect(c).stage # "idle"
         /\ ~Close(c).connected
<1>1. /\ ~(c.connected /\ c.open) => Connect(c).stage # "idle"
      /\ c.stage # "idle" => Connect(c).stage # "idle"
  BY DEF Connect, Starts, Carriers
<1>2. ~Close(c).connected
  BY DEF Close, Shut, Carriers
<1> QED BY <1>1, <1>2

LEMMA CarrierStepType ==
  ASSUME CarrierTypeOK, NEW h \in Host, CarrierStep(h)
  PROVE  CarrierTypeOK'
<1> DEFINE c == carrier[h]
<1>1. /\ c \in Carriers
      /\ carrier \in [Host -> Carriers]
      /\ up \subseteq Host
      /\ trouble \in Nat
  BY DEF CarrierTypeOK
<1>2. \A d \in Carriers : Becomes(h, d) => carrier' \in [Host -> Carriers]
  BY <1>1 DEF Becomes
<1>3. MayFail(h) => trouble' \in Nat
  BY <1>1 DEF MayFail
<1>4. /\ Rejects(c) \in Carriers
      /\ Shut(c) \in Carriers
      /\ Rejects(Shut(c)) \in Carriers
      /\ Starts(c, TRUE) \in Carriers
  BY <1>1, HelpersAreTyped
<1>5. CASE Authorized(h)
  <2>1. [c EXCEPT !.stage = "routing", !.live = TRUE, !.open = FALSE, !.doomed = FALSE] \in Carriers
    BY <1>1 DEF Carriers, Stages
  <2> QED BY <1>1, <1>2, <1>5, <2>1 DEF Authorized, CarrierTypeOK
<1>6. CASE Routed(h)
  <2>1. [c EXCEPT !.stage = "negotiating"] \in Carriers
    BY <1>1 DEF Carriers, Stages
  <2> QED BY <1>1, <1>2, <1>6, <2>1 DEF Routed, CarrierTypeOK
<1>7. CASE Authenticated(h)
  <2>1. [c EXCEPT !.stage = "idle", !.retry = FALSE, !.open = TRUE, !.connected = TRUE,
                  !.doomed = c.stage = "failing"] \in Carriers
    BY <1>1 DEF Carriers, Stages
  <2> QED BY <1>1, <1>2, <1>7, <2>1 DEF Authenticated, CarrierTypeOK
<1>8. CASE FailureEnds(h)
  BY <1>1, <1>2, <1>4, <1>8 DEF FailureEnds, CarrierTypeOK
<1>9. CASE DoomEnds(h) \/ TimerFires(h)
  BY <1>1, <1>2, <1>4, <1>9 DEF DoomEnds, TimerFires, CarrierTypeOK
<1>10. CASE AuthorizeFails(h)
  BY <1>1, <1>2, <1>3, <1>4, <1>10 DEF AuthorizeFails, CarrierTypeOK
<1>11. CASE AttemptFails(h)
  <2>1. [c EXCEPT !.stage = "failing"] \in Carriers
    BY <1>1 DEF Carriers, Stages
  <2> QED BY <1>1, <1>2, <1>3, <1>4, <1>11, <2>1 DEF AttemptFails, CarrierTypeOK
<1>12. CASE Lost(h)
  <2>1. /\ [c EXCEPT !.open = FALSE] \in Carriers
        /\ [Shut(c) EXCEPT !.timer = TRUE] \in Carriers
    BY <1>1, <1>4 DEF Carriers
  <2> QED BY <1>1, <1>2, <1>3, <1>12, <2>1 DEF Lost, CarrierTypeOK
<1> QED BY <1>5, <1>6, <1>7, <1>8, <1>9, <1>10, <1>11, <1>12
        DEF CarrierStep, Proceeds, Ends, Fails

-----------------------------------------------------------------------------
(* The operations of the user and those who wait.                          *)

LEMMA OpIsTyped ==
  ASSUME NEW r \in [kind : OpKinds, host : Host, pc : Pcs]
  PROVE  /\ \A pc \in Pcs : [r EXCEPT !.pc = pc] \in [kind : OpKinds, host : Host, pc : Pcs]
         /\ \A h, act : Ready(r, h, act) \in [kind : OpKinds, host : Host, pc : Pcs]
         /\ \A h, act : Ready(r, h, act).pc # "connecting"
<1>1. ASSUME NEW pc \in Pcs
      PROVE  /\ [r EXCEPT !.pc = pc] \in [kind : OpKinds, host : Host, pc : Pcs]
             /\ [r EXCEPT !.pc = pc].pc = pc
  OBVIOUS
<1>2. ASSUME NEW h, NEW act
      PROVE  /\ Ready(r, h, act) \in [kind : OpKinds, host : Host, pc : Pcs]
             /\ Ready(r, h, act).pc # "connecting"
  <2> DEFINE pc == IF act # h THEN "pausing" ELSE IF r.kind = "switch" THEN "done"
                   ELSE "initializing"
  <2>1. pc \in Pcs /\ pc # "connecting"
    BY DEF Pcs
  <2> QED BY <1>1, <2>1 DEF Ready
<1> QED BY <1>1, <1>2

LEMMA ToldType ==
  ASSUME NEW f \in Ops
  PROVE  /\ Told(f) \in Ops
         /\ \A o \in Op : Told(f)[o].pc = "connecting" =>
              /\ f[o].pc = "connecting"
              /\ Told(f)[o].host = f[o].host
              /\ f[o].host \notin Settled
<1>1. \A pc \in {"listing", "failed"} : pc \in Pcs
  BY DEF Pcs
<1>2. ASSUME NEW o \in Op
      PROVE  /\ Told(f)[o] \in [kind : OpKinds, host : Host, pc : Pcs]
             /\ Told(f)[o].pc = "connecting" =>
                  /\ f[o].pc = "connecting"
                  /\ Told(f)[o].host = f[o].host
                  /\ f[o].host \notin Settled
  <2> DEFINE r == f[o]
             pc == IF r.host \in Won THEN "listing" ELSE "failed"
  <2>1. r \in [kind : OpKinds, host : Host, pc : Pcs]
    BY DEF Ops
  <2>2. CASE r.pc = "connecting" /\ r.host \in Settled
    <3>1. Told(f)[o] = [r EXCEPT !.pc = pc]
      BY <2>2 DEF Told
    <3> QED BY <1>1, <2>1, <3>1
  <2>3. CASE ~(r.pc = "connecting" /\ r.host \in Settled)
    <3>1. Told(f)[o] = r
      BY <2>3 DEF Told
    <3> QED BY <2>1, <2>3, <3>1
  <2> QED BY <2>2, <2>3
<1>3. Told(f) = [o \in Op |-> Told(f)[o]]
  BY DEF Told
<1> QED BY <1>2, <1>3 DEF Ops

\* The invariant of what is waited for, with the types it needs.
WaitInv == TypeOK /\ EveryWaitEnds

\* What waits after the carriers have changed: those who waited for what has
\* ended are told, so that everyone else's attempt is still under way.
LEMMA NotifiedKeeps ==
  ASSUME WaitInv, carrier' \in [Host -> Carriers], NEW f \in Ops, Notified(f),
         \A o \in Op : f[o].pc = "connecting" => ops[o].pc = "connecting" /\ f[o].host = ops[o].host
  PROVE  /\ EveryWaitEnds'
         /\ ops' \in Ops
         /\ joining' \in [Host -> {"no", "carrier", "sessions"}]
         /\ starting' \subseteq Host /\ awaited' \subseteq Host
         /\ asking' \in {"timer", "listing", "connecting"}
<1>t. /\ ops \in Ops
      /\ joining \in [Host -> {"no", "carrier", "sessions"}]
      /\ starting \subseteq Host /\ awaited \subseteq Host
      /\ asking \in {"timer", "listing", "connecting"}
      /\ EveryWaitEnds
  BY DEF WaitInv, TypeOK, Ops
<1>1. /\ ops' \in Ops
      /\ joining' \in [Host -> {"no", "carrier", "sessions"}]
      /\ starting' \subseteq Host /\ awaited' \subseteq Host
      /\ asking' \in {"timer", "listing", "connecting"}
  BY <1>t, ToldType DEF Notified
<1>2. ASSUME NEW h \in Host, joining'[h] = "carrier" PROVE carrier'[h].stage # "idle"
  <2>1. joining[h] = "carrier" /\ h \notin Settled
    BY <1>t, <1>2 DEF Notified
  <2> QED BY <1>t, <2>1 DEF EveryWaitEnds, Settled
<1>3. ASSUME NEW o \in Op, ops'[o].pc = "connecting" PROVE carrier'[ops'[o].host].stage # "idle"
  <2>1. /\ f[o].pc = "connecting"
        /\ ops'[o].host = f[o].host
        /\ f[o].host \notin Settled
    BY <1>3, ToldType DEF Notified
  <2>2. carrier[f[o].host].stage # "idle" /\ f[o].host \in Host
    BY <1>t, <2>1 DEF EveryWaitEnds, Ops
  <2> QED BY <2>1, <2>2 DEF Settled
<1>4. ASSUME NEW h \in starting' \cup awaited' PROVE joining'[h] # "no"
  <2>1. h \in Host /\ joining[h] # "no" /\ h \notin Missed
    BY <1>t, <1>4 DEF Notified, EveryWaitEnds
  <2> QED BY <2>1 DEF Notified, Missed
<1>5. awaited' # {} <=> asking' = "connecting"
  BY <1>t DEF Notified, EveryWaitEnds
<1> QED BY <1>1, <1>2, <1>3, <1>4, <1>5 DEF EveryWaitEnds

\* connectContext of hosts that are not connected: each has an attempt under way, or
\* its sessions are being listed.
LEMMA ConnectsKeeps ==
  ASSUME WaitInv, NEW H \in SUBSET Host, \A h \in H : ~IsConnected(h)
  PROVE  /\ Connects(H) \in [Host -> Carriers]
         /\ Joins(H) \in [Host -> {"no", "carrier", "sessions"}]
         /\ \A h \in Host : /\ Joins(H)[h] = "carrier" => Connects(H)[h].stage # "idle"
                            /\ carrier[h].stage # "idle" => Connects(H)[h].stage # "idle"
                            /\ joining[h] # "no" \/ h \in H => Joins(H)[h] # "no"
<1>t. /\ carrier \in [Host -> Carriers]
      /\ joining \in [Host -> {"no", "carrier", "sessions"}]
      /\ EveryWaitEnds
  BY DEF WaitInv, TypeOK, CarrierTypeOK
<1>1. \A h \in Host : Connect(carrier[h]) \in Carriers
  BY <1>t, HelpersAreTyped
<1>2. ASSUME NEW h \in Host
      PROVE  /\ h \in H => Connect(carrier[h]).stage # "idle"
             /\ carrier[h].stage # "idle" => Connect(carrier[h]).stage # "idle"
  BY <1>t, ConnectWaits DEF IsConnected
<1>3. ASSUME NEW h \in Host, Joins(H)[h] = "carrier" PROVE Connects(H)[h].stage # "idle"
  BY <1>t, <1>2, <1>3 DEF Joins, Connects, EveryWaitEnds
<1> QED BY <1>t, <1>1, <1>2, <1>3 DEF Joins, Connects

-----------------------------------------------------------------------------
(* The steps.                                                              *)

LEMMA WaitInit == Init => WaitInv
<1> SUFFICES ASSUME Init PROVE WaitInv
  OBVIOUS
<1> USE WorkspaceAssumption DEF WorkspaceAssumption
<1>1. NoOp \in [kind : OpKinds, host : Host, pc : Pcs] /\ NoOp.pc = "unborn"
  BY DEF NoOp, OpKinds, Pcs
<1>2. /\ NewCarrier \in Carriers
      /\ NewCarrier.stage = "idle"
  BY DEF NewCarrier, Carriers, Stages
<1>3. /\ Starts(NewCarrier, FALSE) \in Carriers
      /\ Starts(NewCarrier, FALSE).stage = "authorizing"
  BY <1>2, HelpersAreTyped DEF Starts, Carriers
<1>4. CarrierTypeOK
  BY <1>2, <1>3 DEF Init, CarrierTypeOK
<1>5. TypeOK
  BY <1>1, <1>4 DEF Init, TypeOK
<1>6. EveryWaitEnds
  BY <1>1, <1>3 DEF Init, EveryWaitEnds
<1> QED BY <1>5, <1>6 DEF WaitInv

\* What a segment of an operation does to the flags of the hosts.
LEMMA FlagsAreTyped ==
  ASSUME TypeOK
  PROVE  \A K, h, act : /\ Wants(K, h, act) \in [Host -> BOOLEAN]
                        /\ Paths(K, h, act) \in [Host -> BOOLEAN]
BY DEF TypeOK, Wants, Paths

LEMMA CarrierKeeps ==
  ASSUME WaitInv, NEW h \in Host, Carrier(h)
  PROVE  WaitInv'
<1>1. CarrierTypeOK'
  BY CarrierStepType DEF WaitInv, TypeOK, Carrier
<1>2. ops \in Ops /\ carrier' \in [Host -> Carriers] /\ Notified(ops)
  BY <1>1 DEF WaitInv, TypeOK, Ops, CarrierTypeOK, Carrier
<1>3. /\ EveryWaitEnds'
      /\ ops' \in Ops
      /\ joining' \in [Host -> {"no", "carrier", "sessions"}]
      /\ starting' \subseteq Host /\ awaited' \subseteq Host
      /\ asking' \in {"timer", "listing", "connecting"}
  BY <1>2, NotifiedKeeps
<1> QED BY <1>1, <1>3 DEF WaitInv, TypeOK, Ops, Carrier, view

LEMMA BeginKeeps ==
  ASSUME WaitInv, NEW o \in Op, NEW k \in Kinds, NEW h \in Host, Begin(o, k, h)
  PROVE  WaitInv'
<1> DEFINE Record == [kind : OpKinds, host : Host, pc : Pcs]
           begun == [kind |-> k, host |-> h, pc |-> "connecting"]
<1>t. /\ ops \in [Op -> Record]
      /\ joining \in [Host -> {"no", "carrier", "sessions"}]
      /\ carrier \in [Host -> Carriers]
      /\ EveryWaitEnds
  BY DEF WaitInv, TypeOK, CarrierTypeOK
<1>1. begun \in Record /\ k \in OpKinds
  BY WorkspaceAssumption DEF WorkspaceAssumption, Pcs
<1>2. CASE IsConnected(h)
  <2>1. Ready(begun, h, active) \in Record /\ Ready(begun, h, active).pc # "connecting"
    BY <1>1, OpIsTyped
  <2>2. ops' = [ops EXCEPT ![o] = Ready(begun, h, active)]
    BY <1>2 DEF Begin
  <2>3. carrier' = carrier /\ joining' = joining
    BY <1>2 DEF Begin
  <2>4. want' \in [Host -> BOOLEAN] /\ path' \in [Host -> BOOLEAN]
    BY <1>2, FlagsAreTyped DEF Begin, WaitInv
  <2>5. ops' \in [Op -> Record]
    BY <1>t, <2>1, <2>2
  <2>6. EveryWaitEnds'
    <3>1. \A q \in Op : ops'[q].pc = "connecting" => ops'[q] = ops[q]
      BY <1>t, <2>1, <2>2
    <3> QED BY <1>t, <2>3, <3>1 DEF EveryWaitEnds, Begin
  <2> QED BY <2>3, <2>4, <2>5, <2>6 DEF WaitInv, TypeOK, CarrierTypeOK, Begin
<1>3. CASE ~IsConnected(h)
  <2> DEFINE pc == IF joining[h] = "sessions" THEN "listing" ELSE "connecting"
  <2>1. /\ ops' = [ops EXCEPT ![o] = [begun EXCEPT !.pc = pc]]
        /\ carrier' = Connects({h}) /\ joining' = Joins({h})
        /\ want' = want /\ path' = path
    BY <1>3 DEF Begin
  <2>2. /\ [begun EXCEPT !.pc = pc] \in Record
        /\ [begun EXCEPT !.pc = pc].host = h
        /\ [begun EXCEPT !.pc = pc].pc = pc
    <3>1. pc \in Pcs
      BY DEF Pcs
    <3> QED BY <1>1, <3>1
  <2>3. ops' \in [Op -> Record]
    BY <1>t, <2>1, <2>2
  <2>4. /\ carrier' \in [Host -> Carriers]
        /\ joining' \in [Host -> {"no", "carrier", "sessions"}]
        /\ \A g \in Host : /\ joining'[g] = "carrier" => carrier'[g].stage # "idle"
                           /\ carrier[g].stage # "idle" => carrier'[g].stage # "idle"
                           /\ joining[g] # "no" => joining'[g] # "no"
    BY <1>3, <2>1, ConnectsKeeps
  <2>5. joining[h] # "sessions" => carrier'[h].stage # "idle"
    <3>1. joining[h] # "sessions" => joining'[h] = "carrier"
      BY <1>t, <2>1 DEF Joins
    <3> QED BY <2>4, <3>1
  <2>6. EveryWaitEnds'
    <3>1. \A q \in Op : ops'[q].pc = "connecting" => carrier'[ops'[q].host].stage # "idle"
      <4> SUFFICES ASSUME NEW q \in Op, ops'[q].pc = "connecting"
                   PROVE  carrier'[ops'[q].host].stage # "idle"
        OBVIOUS
      <4>1. CASE q = o
        BY <1>t, <2>1, <2>2, <2>5, <4>1
      <4>2. CASE q # o
        <5>1. ops'[q] = ops[q]
          BY <1>t, <2>1, <4>2
        <5> QED BY <1>t, <2>4, <5>1 DEF EveryWaitEnds
      <4> QED BY <4>1, <4>2
    <3>2. starting \cup awaited \subseteq Host
      BY DEF WaitInv, TypeOK
    <3> QED BY <1>t, <2>4, <3>1, <3>2 DEF EveryWaitEnds, Begin
  <2> QED BY <2>1, <2>3, <2>4, <2>6 DEF WaitInv, TypeOK, CarrierTypeOK, Begin
<1> QED BY <1>2, <1>3

LEMMA SessionsListedKeeps ==
  ASSUME WaitInv, NEW h \in Host, SessionsListed(h)
  PROVE  WaitInv'
<1> DEFINE Record == [kind : OpKinds, host : Host, pc : Pcs]
           woken == {o \in Op : ops[o].pc = "listing" /\ ops[o].host = h}
           kinds == {ops[o].kind : o \in woken}
<1>t. /\ ops \in [Op -> Record]
      /\ joining \in [Host -> {"no", "carrier", "sessions"}]
      /\ starting \subseteq Host /\ awaited \subseteq Host
      /\ asking \in {"timer", "listing", "connecting"}
      /\ EveryWaitEnds
  BY DEF WaitInv, TypeOK
<1>1. active' \in Host
  BY DEF SessionsListed, WaitInv, TypeOK
<1>2. PICK act \in {active, active'} :
        /\ ops' = [o \in Op |-> IF o \in woken THEN Ready(ops[o], h, act) ELSE ops[o]]
        /\ want' = Wants(kinds, h, act)
        /\ path' = Paths(kinds, h, act)
  BY DEF SessionsListed
<1>3. want' \in [Host -> BOOLEAN] /\ path' \in [Host -> BOOLEAN]
  BY <1>2, FlagsAreTyped DEF WaitInv
<1>4. ASSUME NEW o \in Op
      PROVE  /\ ops'[o] \in Record
             /\ ops'[o].pc = "connecting" => ops'[o] = ops[o]
  BY <1>t, <1>2, OpIsTyped
<1>5. ops' \in [Op -> Record]
  BY <1>2, <1>4
<1>6. /\ joining' = [joining EXCEPT ![h] = IF @ = "sessions" THEN "no" ELSE @]
      /\ asking' = IF asking = "connecting" /\ awaited' = {} THEN "timer" ELSE asking
      /\ UNCHANGED <<carrierVars, authorized, contexts>>
      /\ disturbed' = (disturbed \/ active' # active)
      /\ joining[h] = "sessions" => /\ starting' = IF h \in starting THEN {} ELSE starting
                                    /\ awaited' = awaited \ {h}
      /\ joining[h] # "sessions" => starting' = starting /\ awaited' = awaited
  BY DEF SessionsListed
<1>7. EveryWaitEnds'
  <2>1. \A g \in Host : joining'[g] = "carrier" => carrier'[g].stage # "idle"
    BY <1>t, <1>6 DEF EveryWaitEnds, carrierVars
  <2>2. \A o \in Op : ops'[o].pc = "connecting" => carrier'[ops'[o].host].stage # "idle"
    BY <1>t, <1>4, <1>6 DEF EveryWaitEnds, carrierVars
  <2>3. \A g \in starting' \cup awaited' : joining'[g] # "no"
    BY <1>t, <1>6 DEF EveryWaitEnds
  <2>4. awaited' # {} <=> asking' = "connecting"
    BY <1>t, <1>6 DEF EveryWaitEnds
  <2> QED BY <2>1, <2>2, <2>3, <2>4 DEF EveryWaitEnds
<1>8. /\ joining' \in [Host -> {"no", "carrier", "sessions"}]
      /\ starting' \subseteq Host /\ awaited' \subseteq Host
      /\ asking' \in {"timer", "listing", "connecting"}
      /\ disturbed' \in BOOLEAN
  BY <1>t, <1>6
<1> QED BY <1>1, <1>3, <1>5, <1>6, <1>7, <1>8
        DEF WaitInv, TypeOK, CarrierTypeOK, carrierVars

\* The steps of an operation after its host is connected, and of its beginning that
\* change no carrier.
LEMMA OperationKeeps ==
  ASSUME WaitInv, NEW o \in Op,
         Paused(o) \/ Initialized(o) \/ RemoveFails(o) \/ \E h \in Host : RemoveBegins(o, h)
  PROVE  WaitInv'
<1> DEFINE Record == [kind : OpKinds, host : Host, pc : Pcs]
<1>t. ops \in [Op -> Record] /\ EveryWaitEnds /\ TypeOK
  BY DEF WaitInv, TypeOK
<1>1. /\ UNCHANGED <<carrier, up, joining, starting, awaited, asking>>
      /\ trouble' \in Nat
  BY <1>t DEF Paused, Initialized, RemoveFails, RemoveBegins, MayFail, carrierVars, TypeOK,
              CarrierTypeOK
<1>2. /\ ops'[o] \in Record
      /\ ops'[o].pc # "connecting"
      /\ ops' = [ops EXCEPT ![o] = ops'[o]]
  <2> DEFINE Moved(pc) == ops' = [ops EXCEPT ![o] = [ops[o] EXCEPT !.pc = pc]]
  <2>0. ASSUME NEW pc \in {"done", "failed", "initializing"}, Moved(pc)
        PROVE  /\ ops'[o] \in Record
               /\ ops'[o].pc # "connecting"
               /\ ops' = [ops EXCEPT ![o] = ops'[o]]
    <3>1. pc \in Pcs /\ pc # "connecting"
      BY DEF Pcs
    <3>2. [ops[o] EXCEPT !.pc = pc] \in Record /\ [ops[o] EXCEPT !.pc = pc].pc = pc
      BY <1>t, <3>1
    <3> QED BY <1>t, <2>0, <3>1, <3>2
  <2>1. CASE Paused(o)
    <3>1. Moved("done") \/ Moved("initializing")
      BY <2>1 DEF Paused
    <3> QED BY <2>0, <3>1
  <2>2. CASE Initialized(o)
    <3>1. Moved("done") \/ Moved("failed")
      BY <2>2 DEF Initialized
    <3> QED BY <2>0, <3>1
  <2>3. CASE RemoveFails(o)
    <3>1. Moved("failed")
      BY <2>3 DEF RemoveFails
    <3> QED BY <2>0, <3>1
  <2>4. ASSUME NEW h \in Host, RemoveBegins(o, h)
        PROVE  /\ ops'[o] \in Record
               /\ ops'[o].pc # "connecting"
               /\ ops' = [ops EXCEPT ![o] = ops'[o]]
    BY <1>t, <2>4 DEF RemoveBegins, OpKinds, Pcs
  <2> QED BY <2>1, <2>2, <2>3, <2>4
<1>3. ops' \in [Op -> Record]
  BY <1>t, <1>2
<1>4. EveryWaitEnds'
  <2>1. \A q \in Op : ops'[q].pc = "connecting" => ops'[q] = ops[q]
    BY <1>t, <1>2
  <2> QED BY <1>t, <1>1, <2>1 DEF EveryWaitEnds
<1>5. /\ authorized' \subseteq Host /\ contexts' \subseteq Host
      /\ active' \in Host
      /\ want' \in [Host -> BOOLEAN] /\ path' \in [Host -> BOOLEAN]
      /\ disturbed' \in BOOLEAN
  <2>0. /\ ops[o].host \in Host /\ active \in Host
        /\ want \in [Host -> BOOLEAN] /\ path \in [Host -> BOOLEAN]
        /\ authorized \subseteq Host /\ contexts \subseteq Host
        /\ disturbed \in BOOLEAN
    BY <1>t DEF TypeOK
  <2>1. CASE Paused(o)
    BY <2>0, <2>1 DEF Paused
  <2>2. CASE Initialized(o)
    BY <2>0, <2>2 DEF Initialized
  <2>3. CASE RemoveFails(o) \/ \E h \in Host : RemoveBegins(o, h)
    BY <2>0, <2>3 DEF RemoveFails, RemoveBegins, view
  <2> QED BY <2>1, <2>2, <2>3
<1> QED BY <1>t, <1>1, <1>3, <1>4, <1>5 DEF WaitInv, TypeOK, CarrierTypeOK

LEMMA RemovedKeeps ==
  ASSUME WaitInv, NEW o \in Op, Removed(o)
  PROVE  WaitInv'
<1> DEFINE h == ops[o].host
           f == [ops EXCEPT ![o].pc = "done"]
<1>t. ops \in Ops /\ TypeOK /\ carrier \in [Host -> Carriers] /\ h \in Host
  BY DEF WaitInv, TypeOK, Ops, CarrierTypeOK
<1>1. carrier' \in [Host -> Carriers]
  BY <1>t, HelpersAreTyped DEF Removed
<1>2. /\ f \in Ops
      /\ \A q \in Op : f[q].pc = "connecting" => ops[q].pc = "connecting" /\ f[q].host = ops[q].host
  <2>1. "done" \in Pcs
    BY DEF Pcs
  <2>2. /\ [ops[o] EXCEPT !.pc = "done"] \in [kind : OpKinds, host : Host, pc : Pcs]
        /\ [ops[o] EXCEPT !.pc = "done"].pc = "done"
    BY <1>t, <2>1 DEF Ops
  <2>3. f = [ops EXCEPT ![o] = [ops[o] EXCEPT !.pc = "done"]]
    OBVIOUS
  <2> QED BY <1>t, <2>2, <2>3 DEF Ops
<1>3. Notified(f)
  BY DEF Removed
<1>4. /\ EveryWaitEnds'
      /\ ops' \in Ops
      /\ joining' \in [Host -> {"no", "carrier", "sessions"}]
      /\ starting' \subseteq Host /\ awaited' \subseteq Host
      /\ asking' \in {"timer", "listing", "connecting"}
  BY <1>1, <1>2, <1>3, NotifiedKeeps
<1>5. active' \in Host
  BY <1>t DEF Removed, Preferred, TypeOK
<1>6. /\ authorized' \subseteq Host /\ contexts' \subseteq Host
      /\ UNCHANGED <<up, trouble, want, path>>
      /\ disturbed' \in BOOLEAN
  BY <1>t DEF Removed, TypeOK
<1> QED BY <1>t, <1>1, <1>4, <1>5, <1>6 DEF WaitInv, TypeOK, CarrierTypeOK, Ops

\* A round of the discovery closes the carriers of the hosts it drops, which ends their
\* attempts, and begins one for each host that it awaits.
LEMMA DiscoveredKeeps ==
  ASSUME WaitInv, Discovered
  PROVE  WaitInv'
<1> DEFINE H == {h \in authorized \cap up : ~IsConnected(h) /\ ~IsReconnecting(h)}
           gone == contexts \ authorized
<1>t. /\ ops \in Ops
      /\ carrier \in [Host -> Carriers]
      /\ joining \in [Host -> {"no", "carrier", "sessions"}]
      /\ starting \subseteq Host
      /\ authorized \subseteq Host
      /\ EveryWaitEnds /\ TypeOK
  BY DEF WaitInv, TypeOK, Ops, CarrierTypeOK
<1>1. /\ Connects(H) \in [Host -> Carriers]
      /\ Joins(H) \in [Host -> {"no", "carrier", "sessions"}]
      /\ \A h \in Host : /\ Joins(H)[h] = "carrier" => Connects(H)[h].stage # "idle"
                         /\ carrier[h].stage # "idle" => Connects(H)[h].stage # "idle"
                         /\ joining[h] # "no" \/ h \in H => Joins(H)[h] # "no"
  BY <1>t, ConnectsKeeps
<1>2. /\ carrier' = [h \in Host |-> IF h \in gone THEN Close(carrier[h]) ELSE Connects(H)[h]]
      /\ ops' = Told(ops)
      /\ joining' = [h \in Host |-> IF h \in Missed THEN "no" ELSE Joins(H)[h]]
      /\ starting' = starting \ Missed
      /\ awaited' = H
      /\ asking' = IF H = {} THEN "timer" ELSE "connecting"
  BY DEF Discovered
<1>3. /\ carrier' \in [Host -> Carriers]
      /\ \A h \in gone : ~carrier'[h].connected
  BY <1>t, <1>1, <1>2, HelpersAreTyped, ConnectWaits DEF TypeOK
<1>4. Settled \subseteq gone /\ Won = {}
  <2>1. Settled \subseteq gone
    BY <1>1, <1>2 DEF Settled
  <2> QED BY <1>3, <2>1 DEF Won
<1>5. \A h \in gone : h \notin H /\ Joins(H)[h] = joining[h]
  BY <1>t DEF Joins, TypeOK
<1>6. Missed = {h \in Settled : joining[h] = "carrier"}
  BY <1>4 DEF Missed
<1>7. EveryWaitEnds'
  <2>1. ASSUME NEW h \in Host, joining'[h] = "carrier" PROVE carrier'[h].stage # "idle"
    <3>1. h \notin Missed /\ Joins(H)[h] = "carrier"
      BY <1>2, <2>1
    <3>2. CASE h \in gone
      BY <1>5, <1>6, <1>t, <3>1, <3>2 DEF EveryWaitEnds, Settled
    <3>3. CASE h \notin gone
      BY <1>1, <1>2, <3>1, <3>3
    <3> QED BY <3>2, <3>3
  <2>2. ASSUME NEW o \in Op, ops'[o].pc = "connecting" PROVE carrier'[ops'[o].host].stage # "idle"
    <3>1. ops[o].pc = "connecting" /\ ops'[o].host = ops[o].host /\ ops[o].host \notin Settled
      BY <1>t, <1>2, <2>2, ToldType
    <3>2. carrier[ops[o].host].stage # "idle" /\ ops[o].host \in Host
      BY <1>t, <3>1 DEF EveryWaitEnds, Ops
    <3> QED BY <3>1, <3>2 DEF Settled
  <2>3. ASSUME NEW h \in starting' \cup awaited' PROVE joining'[h] # "no"
    <3>1. h \in Host /\ h \notin Missed /\ Joins(H)[h] # "no"
      BY <1>t, <1>1, <1>2, <1>4, <1>5, <1>6, <2>3 DEF EveryWaitEnds
    <3> QED BY <1>2, <3>1
  <2>4. awaited' # {} <=> asking' = "connecting"
    BY <1>2
  <2> QED BY <2>1, <2>2, <2>3, <2>4 DEF EveryWaitEnds
<1>8. ops' \in Ops
  BY <1>t, <1>2, ToldType
<1>9. active' \in Host /\ contexts' \subseteq Host /\ disturbed' \in BOOLEAN
  BY <1>t DEF Discovered, TypeOK
<1>10. /\ UNCHANGED <<up, trouble, authorized, want, path>>
       /\ joining' \in [Host -> {"no", "carrier", "sessions"}]
       /\ starting' \subseteq Host /\ awaited' \subseteq Host
       /\ asking' \in {"timer", "listing", "connecting"}
  BY <1>t, <1>1, <1>2 DEF Discovered
<1> QED BY <1>t, <1>3, <1>7, <1>8, <1>9, <1>10 DEF WaitInv, TypeOK, CarrierTypeOK, Ops

LEMMA WaitStep == WaitInv /\ [Next]_vars => WaitInv'
<1> SUFFICES ASSUME WaitInv, [Next]_vars PROVE WaitInv'
  OBVIOUS
<1>t. TypeOK /\ EveryWaitEnds
  BY DEF WaitInv
<1>1. ASSUME NEW h \in Host, Carrier(h) \/ SessionsListed(h) PROVE WaitInv'
  BY <1>1, CarrierKeeps, SessionsListedKeeps
<1>2. ASSUME NEW o \in Op, NEW h \in Host, RemoveBegins(o, h) \/ \E k \in Kinds : Begin(o, k, h)
      PROVE  WaitInv'
  BY <1>2, OperationKeeps, BeginKeeps
<1>3. ASSUME NEW o \in Op, Paused(o) \/ Initialized(o) \/ Removed(o) \/ RemoveFails(o)
      PROVE  WaitInv'
  BY <1>3, OperationKeeps, RemovedKeeps
<1>4. CASE Discovered
  BY <1>4, DiscoveredKeeps
<1>5. CASE DiscoveryTimer \/ DiscoveryFails
  <2>1. /\ UNCHANGED <<carrier, up, authorized, view, joining, ops, starting, awaited, disturbed>>
        /\ trouble' \in Nat
        /\ asking # "connecting" /\ asking' \in {"timer", "listing"}
    BY <1>5, <1>t DEF DiscoveryTimer, DiscoveryFails, carrierVars, TypeOK, CarrierTypeOK
  <2> QED BY <1>t, <2>1 DEF WaitInv, TypeOK, CarrierTypeOK, EveryWaitEnds, view
<1>6. CASE Outside
  <2>1. /\ UNCHANGED <<carrier, view, joining, tasks, disturbed>>
        /\ trouble' \in Nat /\ up' \subseteq Host /\ authorized' \subseteq Host
    BY <1>6, <1>t DEF Outside, GoesDown, ComesUp, carrierVars, TypeOK, CarrierTypeOK
  <2> QED BY <1>t, <2>1 DEF WaitInv, TypeOK, CarrierTypeOK, EveryWaitEnds, view, tasks
<1>7. CASE UNCHANGED vars
  BY <1>7, <1>t DEF WaitInv, vars, view, tasks, carrierVars, TypeOK, CarrierTypeOK, EveryWaitEnds
<1> QED BY <1>1, <1>2, <1>3, <1>4, <1>5, <1>6, <1>7 DEF Next

\* The carriers, the operations, the promises and the flags have the types of the model.
THEOREM TypeCorrect == Spec => []TypeOK
<1>1. WaitInv => TypeOK
  BY DEF WaitInv
<1> QED BY <1>1, WaitInit, WaitStep, PTL DEF Spec

\* Nobody waits for an attempt of a carrier that has ended: every promise of
\* connectContext has an attempt or a listing behind it, and so have connect() and
\* the discovery.
THEOREM WaitsEnd == Spec => []EveryWaitEnds
<1>1. WaitInv => EveryWaitEnds
  BY DEF WaitInv
<1> QED BY <1>1, WaitInit, WaitStep, PTL DEF Spec

-----------------------------------------------------------------------------
(* Selections.                                                             *)

Selecting(o) == ops[o].pc \in {"connecting", "listing", "pausing", "initializing"}

\* Operations begin in the order of their numbers, and a removal never selects.
OrderBook ==
  /\ \A p, o \in Op : p < o /\ ops[o].pc # "unborn" => ops[p].pc # "unborn"
  /\ \A o \in Op : Selecting(o) => ops[o].kind # "remove"
  /\ \A o \in Op : ops[o].pc = "revoking" => ops[o].kind = "remove"

\* While o selects a host, it is the only operation that does, and none has selected later.
SoleSelection(o) ==
  Selecting(o) =>
    /\ ops[o].host \in contexts
    /\ \A p \in Op \ {o} : ~Selecting(p)
    /\ \A p \in Op : o < p => ops[p].pc = "unborn" \/ ops[p].kind = "remove"
    /\ ops[o].pc = "initializing" => active = ops[o].host /\ ops[o].kind # "switch"

\* o has paused the subscription of the active host, or has not begun its own yet.
Between(o) ==
  \/ ops[o].pc = "pausing"
  \/ ops[o].pc = "initializing" /\ ops[o].kind = "new"

\* What is true while nothing has disturbed the selections.
Undisturbed ==
  /\ contexts # {} => active \in contexts
  /\ \A o \in Op : SoleSelection(o)
  /\ \A h \in Host \ {active} : ~Streams(h)
  /\ \A o \in Op : ops[o].pc = "pausing" => ~Streams(active)
  /\ want[active] \/ \E o \in Op : Between(o)
  /\ \A o \in Op : Latest(o) => active = ops[o].host

CleanInv == OrderBook /\ (~disturbed => Undisturbed)

LEMMA CleanInit == Init => CleanInv
<1> SUFFICES ASSUME Init PROVE CleanInv
  OBVIOUS
<1>1. \A o \in Op : ops[o].pc = "unborn" /\ ops[o].kind = "switch"
  BY DEF Init, NoOp
<1>2. OrderBook
  BY <1>1 DEF OrderBook, Selecting
<1>3. Undisturbed
  BY <1>1 DEF Init, Undisturbed, SoleSelection, Selecting, Streams, Latest, Between
<1> QED BY <1>2, <1>3 DEF CleanInv

\* An operation that is told, fails or removes a host; it neither selects nor has
\* begun to change a subscription.
Steps(o) ==
  \/ ops'[o] = ops[o]
  \/ /\ ops[o].pc # "unborn"
     /\ ops'[o].kind = ops[o].kind /\ ops'[o].host = ops[o].host
     /\ ~Between(o)
     /\ \/ ops[o].pc = "connecting" /\ ops'[o].pc = "listing"
        \/ ops'[o].pc = "failed"
        \/ ops'[o].pc = "done" /\ ops[o].kind = "remove"
  \/ IsNext(o) /\ ops'[o].pc = "revoking" /\ ops'[o].kind = "remove"

\* An operation that has not begun does so in its turn; one that has keeps its kind.
Orderly(o) ==
  \/ ops'[o] = ops[o]
  \/ /\ ops[o].pc # "unborn" /\ ops'[o].pc \notin {"unborn", "revoking"}
     /\ ops'[o].kind = ops[o].kind
     /\ Selecting(o)' => Selecting(o)
  \/ IsNext(o) /\ ops'[o].pc # "unborn" /\ (ops'[o].pc = "revoking" <=> ops'[o].kind = "remove")

LEMMA OrderKept ==
  ASSUME TypeOK, OrderBook, \A o \in Op : Orderly(o)
  PROVE  OrderBook'
<1>1. ASSUME NEW p \in Op, NEW o \in Op, p < o, ops'[o].pc # "unborn" PROVE ops'[p].pc # "unborn"
  <2>1. ops[p].pc # "unborn"
    <3>1. CASE IsNext(o)
      BY <1>1, <3>1 DEF IsNext, Op
    <3>2. CASE ~IsNext(o)
      BY <1>1, <3>2 DEF OrderBook, Orderly
    <3> QED BY <3>1, <3>2
  <2> QED BY <2>1 DEF Orderly
<1>2. ASSUME NEW o \in Op, Selecting(o)' PROVE ops'[o].kind # "remove"
  BY <1>2 DEF Orderly, OrderBook, Selecting
<1>3. ASSUME NEW o \in Op, ops'[o].pc = "revoking" PROVE ops'[o].kind = "remove"
  BY <1>3 DEF Orderly, OrderBook
<1> QED BY <1>1, <1>2, <1>3 DEF OrderBook

LEMMA StepsKeepOrder ==
  ASSUME TypeOK, OrderBook, \A o \in Op : Steps(o)
  PROVE  OrderBook'
<1>1. \A o \in Op : Orderly(o)
  BY DEF Steps, Orderly, Selecting, IsNext
<1> QED BY <1>1, OrderKept

\* Such steps leave the selection, and the hosts it is about, as they were.
LEMMA StepsKeepSelections ==
  ASSUME TypeOK, OrderBook, Undisturbed, \A o \in Op : Steps(o),
         UNCHANGED <<active, want, path>>,
         contexts' # {} => active \in contexts',
         \A o \in Op : Selecting(o) => ops[o].host \in contexts'
  PROVE  Undisturbed'
<1>1. ASSUME NEW o \in Op, Selecting(o)'
      PROVE  /\ Selecting(o)
             /\ ops'[o].kind = ops[o].kind /\ ops'[o].host = ops[o].host
             /\ ops'[o].pc \in {"pausing", "initializing"} => ops'[o] = ops[o]
  BY <1>1 DEF Steps, Selecting
<1>2. \A o \in Op : ops[o].pc = "unborn" \/ ops[o].kind = "remove"
                    => ops'[o].pc = "unborn" \/ ops'[o].kind = "remove"
  BY DEF Steps
<1>3. \A o \in Op : ops'[o].pc = "unborn" \/ ops'[o].kind = "remove"
                    => ops[o].pc = "unborn" \/ ops[o].kind = "remove"
  BY DEF Steps, IsNext
<1>4. ASSUME NEW o \in Op PROVE SoleSelection(o)'
  <2> SUFFICES ASSUME Selecting(o)'
               PROVE  /\ ops'[o].host \in contexts'
                      /\ \A p \in Op \ {o} : ~Selecting(p)'
                      /\ \A p \in Op : o < p => ops'[p].pc = "unborn" \/ ops'[p].kind = "remove"
                      /\ ops'[o].pc = "initializing" =>
                           active' = ops'[o].host /\ ops'[o].kind # "switch"
    BY DEF SoleSelection
  <2>1. SoleSelection(o) /\ Selecting(o)
    BY <1>1 DEF Undisturbed
  <2> QED BY <1>1, <1>2, <2>1 DEF SoleSelection
<1>5. \A h \in Host : Streams(h)' <=> Streams(h)
  BY DEF Streams
<1>6. \A o \in Op : ops'[o].pc = "pausing" => ops[o].pc = "pausing"
  BY DEF Steps
<1>7. \A o \in Op : Between(o) => Between(o)'
  BY DEF Steps, Between, IsNext
<1>8. ASSUME NEW o \in Op, Latest(o)' PROVE Latest(o) /\ ops'[o] = ops[o]
  <2>1. ops'[o].pc = "done" /\ ops'[o].kind # "remove"
    BY <1>8 DEF Latest
  <2>2. ops'[o] = ops[o]
    BY <2>1 DEF Steps
  <2>3. \A p \in (o + 1)..MaxOps : p \in Op
    BY WorkspaceAssumption DEF WorkspaceAssumption, Op
  <2> QED BY <1>3, <1>8, <2>1, <2>2, <2>3 DEF Latest
<1> QED
  <2>1. active \in Host
    BY DEF TypeOK
  <2> QED BY <1>4, <1>5, <1>6, <1>7, <1>8, <2>1 DEF Undisturbed

\* o is the only operation that selects, and none after it has.
Alone(o) ==
  /\ \A p \in Op \ {o} : ~Selecting(p)
  /\ \A p \in Op : o < p => ops[p].pc = "unborn" \/ ops[p].kind = "remove"

\* A step of the only operation that selects: what it must establish itself.
LEMMA SoleStepKeeps ==
  ASSUME TypeOK, OrderBook, Undisturbed, NEW o \in Op, Alone(o),
         NEW r \in [kind : OpKinds, host : Host, pc : Pcs],
         ops' = [ops EXCEPT ![o] = r],
         contexts' = contexts, r.host \in contexts, active' \in contexts,
         r.kind # "remove", r.pc # "unborn",
         r.pc = "done" => active' = r.host,
         r.pc = "initializing" => active' = r.host /\ r.kind # "switch",
         \A h \in Host \ {active'} : ~Streams(h)',
         r.pc = "pausing" => ~Streams(active)' /\ active' = active,
         \/ want'[active']
         \/ r.pc = "pausing"
         \/ r.pc = "initializing" /\ r.kind = "new"
  PROVE  Undisturbed'
<1>t. ops \in [Op -> [kind : OpKinds, host : Host, pc : Pcs]]
  BY DEF TypeOK
<1>1. ops'[o] = r /\ \A p \in Op \ {o} : ops'[p] = ops[p]
  BY <1>t
<1>2. ASSUME NEW p \in Op, Selecting(p)' PROVE p = o
  BY <1>1, <1>2 DEF Alone, Selecting
<1>3. ASSUME NEW p \in Op PROVE SoleSelection(p)'
  <2> SUFFICES ASSUME Selecting(p)'
               PROVE  /\ ops'[p].host \in contexts'
                      /\ \A q \in Op \ {p} : ~Selecting(q)'
                      /\ \A q \in Op : p < q => ops'[q].pc = "unborn" \/ ops'[q].kind = "remove"
                      /\ ops'[p].pc = "initializing" =>
                           active' = ops'[p].host /\ ops'[p].kind # "switch"
    BY DEF SoleSelection
  <2>1. p = o
    BY <1>2
  <2>2. \A q \in Op : o < q => q # o
    BY DEF Op
  <2> QED BY <1>1, <1>2, <2>1, <2>2 DEF Alone
<1>4. ASSUME NEW p \in Op, Latest(p)' PROVE active' = ops'[p].host
  <2>1. CASE p = o
    BY <1>1, <1>4, <2>1 DEF Latest
  <2>2. CASE p # o
    <3>1. ops[p].pc = "done" /\ ops[p].kind # "remove"
      BY <1>1, <1>4, <2>2 DEF Latest
    <3>2. ~(o < p)
      BY <3>1 DEF Alone
    <3>3. o \in (p + 1)..MaxOps
      BY <2>2, <3>2, WorkspaceAssumption DEF Op, WorkspaceAssumption
    <3> QED BY <1>1, <1>4, <3>3 DEF Latest
  <2> QED BY <2>1, <2>2
<1>5. \A p \in Op : ops'[p].pc = "pausing" => ~Streams(active)' /\ active' = active
  BY <1>1 DEF Alone, Selecting
<1>6. want'[active'] \/ Between(o)'
  BY <1>1 DEF Between
<1>7. ASSUME NEW p \in Op, ops'[p].pc = "pausing"
      PROVE  ~(want'[active'] /\ path'[active'])
  BY <1>5, <1>7 DEF Streams
<1> QED BY <1>3, <1>4, <1>6, <1>7 DEF Undisturbed, Streams

\* What it does when its host is connected: it pauses the host that is active, or,
\* if that is its own, goes on.
LEMMA ReadyKeeps ==
  ASSUME TypeOK, OrderBook, Undisturbed, NEW o \in Op, Alone(o),
         NEW r \in [kind : OpKinds, host : Host, pc : Pcs],
         r.host \in contexts, r.kind # "remove",
         \A p \in Op : ~Between(p),
         ops' = [ops EXCEPT ![o] = Ready(r, r.host, active)],
         want' = Wants({r.kind}, r.host, active),
         path' = Paths({r.kind}, r.host, active),
         UNCHANGED <<contexts, active>>
  PROVE  Undisturbed'
<1>t. /\ want \in [Host -> BOOLEAN] /\ path \in [Host -> BOOLEAN]
      /\ active \in Host /\ r.host \in Host /\ contexts \subseteq Host
      /\ active \in contexts
  BY DEF TypeOK, Undisturbed
<1>1. want[active] /\ \A h \in Host \ {active} : ~(want[h] /\ path[h])
  BY DEF Undisturbed, Streams
<1> DEFINE pc == IF active # r.host THEN "pausing" ELSE IF r.kind = "switch" THEN "done"
                 ELSE "initializing"
           s == Ready(r, r.host, active)
<1>2. /\ s \in [kind : OpKinds, host : Host, pc : Pcs]
      /\ s.kind = r.kind /\ s.host = r.host /\ s.pc = pc
  <2>1. pc \in Pcs
    BY DEF Pcs
  <2>2. s = [r EXCEPT !.pc = pc]
    BY DEF Ready
  <2> QED BY <2>1, <2>2
<1>3. CASE active # r.host
  <2>1. want' = [want EXCEPT ![active] = FALSE] /\ \A h \in Host : path'[h] = path[h]
    BY <1>t, <1>3 DEF Wants, Paths
  <2>2. \A h \in Host : ~(want'[h] /\ path'[h])
    BY <1>t, <1>1, <2>1
  <2>3. s.pc = "pausing"
    BY <1>2, <1>3
  <2> HIDE DEF s, pc
  <2>4. \A h \in Host : ~Streams(h)'
    BY <2>2 DEF Streams
  <2>5. ~Streams(active)'
    BY <1>t, <2>2 DEF Streams
  <2> QED BY <1>t, <1>2, <2>3, <2>4, <2>5, SoleStepKeeps DEF s
<1>4. CASE active = r.host
  <2>1. /\ want'[active]
        /\ \A h \in Host \ {active} : want'[h] = want[h] /\ path'[h] = path[h]
    BY <1>t, <1>1, <1>4 DEF Wants, Paths
  <2>2. \A h \in Host \ {active} : ~(want'[h] /\ path'[h])
    BY <1>1, <2>1
  <2>3. s.pc \in {"done", "initializing"} /\ (s.pc = "initializing" => r.kind # "switch")
    BY <1>2, <1>4
  <2> HIDE DEF s, pc
  <2>4. want'[active'] /\ \A h \in Host \ {active'} : ~Streams(h)'
    BY <2>1, <2>2 DEF Streams
  <2> QED BY <1>t, <1>2, <1>4, <2>3, <2>4, SoleStepKeeps DEF s
<1> QED BY <1>3, <1>4

LEMMA ToldSteps ==
  ASSUME TypeOK, OrderBook, NEW o \in Op, Told(ops)[o] = ops'[o]
  PROVE  Steps(o)
<1> DEFINE r == ops[o]
           pc == IF r.host \in Won THEN "listing" ELSE "failed"
<1>1. r \in [kind : OpKinds, host : Host, pc : Pcs]
  BY DEF TypeOK
<1>2. CASE r.pc = "connecting" /\ r.host \in Settled
  <2>1. ops'[o] = [r EXCEPT !.pc = pc]
    BY <1>2 DEF Told
  <2> QED BY <1>1, <1>2, <2>1 DEF Steps, Between
<1>3. CASE ~(r.pc = "connecting" /\ r.host \in Settled)
  <2>1. ops'[o] = r
    BY <1>3 DEF Told
  <2> QED BY <2>1 DEF Steps
<1> QED BY <1>2, <1>3

\* Steps of the carriers, the discovery, removals and the world.
LEMMA BackgroundIsClean ==
  ASSUME TypeOK, OrderBook, ~disturbed => Undisturbed,
         \A o \in Op : Steps(o), UNCHANGED <<want, path>>,
         ~disturbed' => /\ ~disturbed
                        /\ active' = active
                        /\ contexts # {} /\ active \in contexts => contexts' = {} \/ active \in contexts'
                        /\ contexts = {} => contexts' = {} \/ active \in contexts'
                        /\ \A o \in Op : Selecting(o) /\ ops[o].host \in contexts
                                         => ops[o].host \in contexts'
  PROVE  CleanInv'
<1>1. OrderBook'
  BY StepsKeepOrder
<1>2. ASSUME ~disturbed' PROVE Undisturbed'
  <2>1. Undisturbed
    BY <1>2
  <2>2. contexts' # {} => active \in contexts'
    BY <1>2, <2>1 DEF Undisturbed
  <2>3. \A o \in Op : Selecting(o) => ops[o].host \in contexts'
    BY <1>2, <2>1 DEF Undisturbed, SoleSelection
  <2> QED BY <1>2, <2>1, <2>2, <2>3, StepsKeepSelections
<1> QED BY <1>1, <1>2 DEF CleanInv

LEMMA BeginIsClean ==
  ASSUME TypeOK, CleanInv, NEW o \in Op, NEW k \in Kinds, NEW h \in Host, Begin(o, k, h)
  PROVE  CleanInv'
<1> DEFINE Record == [kind : OpKinds, host : Host, pc : Pcs]
           begun == [kind |-> k, host |-> h, pc |-> "connecting"]
           later == [begun EXCEPT !.pc = IF joining[h] = "sessions" THEN "listing" ELSE @]
<1>t. /\ ops \in [Op -> Record] /\ OrderBook
      /\ k # "remove" /\ h \in contexts /\ IsNext(o)
      /\ UNCHANGED <<contexts, active>>
  BY DEF TypeOK, CleanInv, Begin
<1>1. begun \in Record /\ k \in OpKinds
  BY WorkspaceAssumption DEF WorkspaceAssumption, Pcs
<1>2. /\ later \in Record
      /\ later.kind = k /\ later.host = h /\ later.pc \in {"connecting", "listing"}
  <2>1. "listing" \in Pcs
    BY DEF Pcs
  <2> QED BY <1>1, <2>1
<1>3. /\ Ready(begun, h, active) \in Record
      /\ Ready(begun, h, active).kind = k
      /\ Ready(begun, h, active).pc \in {"pausing", "done", "initializing"}
  BY <1>1, OpIsTyped DEF Ready
<1>4. \/ ops' = [ops EXCEPT ![o] = Ready(begun, h, active)]
      \/ ops' = [ops EXCEPT ![o] = later]
  BY DEF Begin
<1>5. OrderBook'
  <2>1. \A p \in Op : Orderly(p)
    BY <1>t, <1>2, <1>3, <1>4 DEF Orderly
  <2> QED BY <1>t, <2>1, OrderKept
<1>6. ASSUME ~disturbed' PROVE Undisturbed'
  <2>1. Undisturbed /\ \A p \in Op : ~Running(p)
    BY <1>6 DEF Begin, CleanInv
  <2>2. \A p \in Op : ~Selecting(p) /\ ~Between(p)
    BY <2>1 DEF Running, Selecting, Between
  <2>3. Alone(o)
    BY <1>t, <2>2 DEF Alone, IsNext, OrderBook
  <2>4. /\ want[active] /\ active \in contexts
        /\ \A g \in Host \ {active} : ~Streams(g)
    BY <1>t, <2>1, <2>2 DEF Undisturbed
  <2>5. CASE IsConnected(h)
    <3>1. /\ ops' = [ops EXCEPT ![o] = Ready(begun, h, active)]
          /\ want' = Wants({k}, h, active) /\ path' = Paths({k}, h, active)
      BY <2>5 DEF Begin
    <3> QED BY <1>t, <1>1, <2>1, <2>2, <2>3, <3>1, ReadyKeeps
  <2>6. CASE ~IsConnected(h)
    <3>1. ops' = [ops EXCEPT ![o] = later] /\ want' = want /\ path' = path
      BY <2>6 DEF Begin
    <3>2. want'[active'] /\ active' \in contexts /\ \A g \in Host \ {active'} : ~Streams(g)'
      BY <1>t, <2>4, <3>1 DEF Streams
    <3> HIDE DEF later
    <3> QED BY <1>t, <1>2, <2>1, <2>3, <3>1, <3>2, SoleStepKeeps
  <2> QED BY <2>5, <2>6
<1> QED BY <1>5, <1>6 DEF CleanInv

LEMMA SessionsListedIsClean ==
  ASSUME TypeOK, CleanInv, NEW h \in Host, SessionsListed(h)
  PROVE  CleanInv'
<1> DEFINE Record == [kind : OpKinds, host : Host, pc : Pcs]
           woken == {o \in Op : ops[o].pc = "listing" /\ ops[o].host = h}
           kinds == {ops[o].kind : o \in woken}
<1>t. /\ ops \in [Op -> Record] /\ OrderBook
      /\ UNCHANGED contexts
      /\ disturbed' = (disturbed \/ active' # active)
  BY DEF TypeOK, CleanInv, SessionsListed
<1>1. PICK act \in {active, active'} :
        /\ ops' = [o \in Op |-> IF o \in woken THEN Ready(ops[o], h, act) ELSE ops[o]]
        /\ want' = Wants(kinds, h, act)
        /\ path' = Paths(kinds, h, act)
  BY DEF SessionsListed
<1>2. \A o \in woken : /\ ops'[o].kind = ops[o].kind
                       /\ ops'[o].pc \in {"pausing", "done", "initializing"}
  BY <1>t, <1>1 DEF Ready
<1>3. OrderBook'
  <2>1. \A o \in Op : Orderly(o)
    BY <1>t, <1>1, <1>2 DEF Orderly, Selecting
  <2> QED BY <1>t, <2>1, OrderKept
<1>4. ASSUME ~disturbed' PROVE Undisturbed'
  <2>1. Undisturbed /\ active' = active /\ act = active
    BY <1>t, <1>4 DEF CleanInv
  <2>2. CASE woken = {}
    <3>1. ops' = ops
      BY <1>t, <1>1, <2>2
    <3>2. want' = want /\ path' = path
      <4>1. kinds = {}
        BY <2>2
      <4> QED BY <1>1, <4>1 DEF Wants, Paths, TypeOK
    <3>3. \A o \in Op : Steps(o)
      BY <3>1 DEF Steps
    <3>4. \A o \in Op : Selecting(o) => ops[o].host \in contexts
      BY <2>1 DEF Undisturbed, SoleSelection
    <3> QED BY <1>t, <2>1, <3>2, <3>3, <3>4, StepsKeepSelections DEF Undisturbed
  <2>3. ASSUME NEW o \in woken PROVE Undisturbed'
    <3>1. Selecting(o) /\ SoleSelection(o) /\ ops[o].host = h
      BY <2>1 DEF Selecting, Undisturbed
    <3>2. Alone(o) /\ ops[o].host \in contexts
      BY <3>1 DEF SoleSelection, Alone
    <3>3. woken = {o}
      BY <3>2 DEF Alone, Selecting
    <3>4. kinds = {ops[o].kind}
      BY <3>3
    <3>5. ops' = [ops EXCEPT ![o] = Ready(ops[o], h, active)]
      BY <1>t, <1>1, <2>1, <3>3
    <3>6. ops[o].kind # "remove"
      BY <1>t, <3>1 DEF OrderBook
    <3>7. \A p \in Op : ~Between(p)
      BY <3>2 DEF Between, Alone, Selecting
    <3> QED BY <1>t, <1>1, <2>1, <3>1, <3>2, <3>4, <3>5, <3>6, <3>7, ReadyKeeps
  <2> QED BY <2>2, <2>3
<1> QED BY <1>3, <1>4 DEF CleanInv

\* The host that was left is silent before the next one becomes active.
LEMMA PausedIsClean ==
  ASSUME TypeOK, CleanInv, NEW o \in Op, Paused(o)
  PROVE  CleanInv'
<1> DEFINE Record == [kind : OpKinds, host : Host, pc : Pcs]
           h == ops[o].host
           pc == IF ops[o].kind = "switch" THEN "done" ELSE "initializing"
           r == [ops[o] EXCEPT !.pc = pc]
<1>t. /\ ops \in [Op -> Record] /\ OrderBook
      /\ want \in [Host -> BOOLEAN] /\ path \in [Host -> BOOLEAN]
      /\ h \in Host /\ active \in Host
  BY DEF TypeOK, CleanInv
<1>0. /\ ops[o].pc = "pausing"
      /\ active' = h
      /\ want' = [want EXCEPT ![h] = @ \/ ops[o].kind \in {"switch", "activate"}]
      /\ path' = [path EXCEPT ![h] = @ \/ ops[o].kind = "switch"]
      /\ contexts' = contexts /\ disturbed' = disturbed
  BY DEF Paused
<1>1. /\ ops' = [ops EXCEPT ![o] = r]
      /\ r \in Record /\ r.kind = ops[o].kind /\ r.host = h /\ r.pc = pc
      /\ ops[o].kind # "remove"
  <2>1. pc \in Pcs
    BY DEF Pcs
  <2>2. ops' = [ops EXCEPT ![o] = r]
    BY DEF Paused
  <2> QED BY <1>t, <1>0, <2>1, <2>2 DEF OrderBook, Selecting
<1>2. OrderBook'
  <2>1. \A p \in Op : Orderly(p)
    BY <1>t, <1>0, <1>1 DEF Orderly, Selecting
  <2> QED BY <1>t, <2>1, OrderKept
<1>3. ASSUME ~disturbed' PROVE Undisturbed'
  <2>1. Undisturbed /\ Selecting(o) /\ SoleSelection(o)
    BY <1>0, <1>3 DEF CleanInv, Undisturbed, Selecting
  <2>2. Alone(o) /\ h \in contexts
    BY <2>1 DEF SoleSelection, Alone
  <2>3. \A g \in Host : ~(want[g] /\ path[g])
    BY <1>t, <1>0, <2>1 DEF Undisturbed, Streams
  <2>4. \A g \in Host \ {h} : want'[g] = want[g] /\ path'[g] = path[g]
    BY <1>t, <1>0
  <2>5. \A g \in Host \ {active'} : ~Streams(g)'
    BY <1>0, <2>3, <2>4 DEF Streams
  <2>6. want'[active'] \/ (pc = "initializing" /\ ops[o].kind = "new")
    <3>1. ops[o].kind \in {"switch", "activate", "new"}
      BY <1>t, <1>1 DEF OpKinds
    <3>2. CASE ops[o].kind \in {"switch", "activate"}
      BY <1>t, <1>0, <3>2
    <3> QED BY <3>1, <3>2
  <2>7. pc \in {"done", "initializing"} /\ (pc = "initializing" => ops[o].kind # "switch")
    OBVIOUS
  <2> HIDE DEF r, pc
  <2> QED BY <1>t, <1>0, <1>1, <2>1, <2>2, <2>5, <2>6, <2>7, SoleStepKeeps
<1> QED BY <1>2, <1>3 DEF CleanInv

LEMMA InitializedIsClean ==
  ASSUME TypeOK, CleanInv, NEW o \in Op, Initialized(o)
  PROVE  CleanInv'
<1> DEFINE Record == [kind : OpKinds, host : Host, pc : Pcs]
           h == ops[o].host
           r == ops'[o]
<1>t. /\ ops \in [Op -> Record] /\ OrderBook
      /\ want \in [Host -> BOOLEAN] /\ path \in [Host -> BOOLEAN]
      /\ h \in Host /\ active \in Host
  BY DEF TypeOK, CleanInv
<1>0. ops[o].pc = "initializing" /\ UNCHANGED <<contexts, active>>
  BY DEF Initialized
<1>1. /\ ops' = [ops EXCEPT ![o] = r]
      /\ r \in Record /\ r.kind = ops[o].kind /\ r.host = h /\ r.pc \in {"done", "failed"}
      /\ ops[o].kind # "remove"
  <2> DEFINE Moved(pc) == ops' = [ops EXCEPT ![o] = [ops[o] EXCEPT !.pc = pc]]
  <2>1. \A pc \in {"done", "failed"} : pc \in Pcs
    BY DEF Pcs
  <2>2. Moved("done") \/ Moved("failed")
    BY DEF Initialized
  <2>3. ops[o].kind # "remove"
    BY <1>t, <1>0 DEF OrderBook, Selecting
  <2>4. ASSUME NEW pc \in {"done", "failed"}, Moved(pc)
        PROVE  /\ ops' = [ops EXCEPT ![o] = r]
               /\ r \in Record /\ r.kind = ops[o].kind /\ r.host = h /\ r.pc = pc
    BY <1>t, <2>1, <2>4
  <2> QED BY <2>2, <2>3, <2>4
<1>2. OrderBook'
  <2>1. \A p \in Op : Orderly(p)
    BY <1>t, <1>0, <1>1 DEF Orderly, Selecting
  <2> QED BY <1>t, <2>1, OrderKept
<1>3. ASSUME ~disturbed' PROVE Undisturbed'
  <2>1. ~disturbed
    BY <1>3 DEF Initialized
  <2>2. Undisturbed /\ Selecting(o) /\ SoleSelection(o)
    BY <1>0, <2>1 DEF CleanInv, Undisturbed, Selecting
  <2>3. Alone(o) /\ h \in contexts /\ active = h
    BY <1>0, <2>2 DEF SoleSelection, Alone
  <2>4. /\ want[h] \/ ops[o].kind = "new"
        /\ \A g \in Host \ {h} : ~(want[g] /\ path[g])
    <3>1. \A p \in Op : Between(p) => p = o
      BY <2>3 DEF Between, Alone, Selecting
    <3> QED BY <1>0, <2>2, <2>3, <3>1 DEF Undisturbed, Streams, Between
  <2>5. /\ want'[h]
        /\ \A g \in Host \ {h} : want'[g] = want[g] /\ path'[g] = path[g]
    <3>1. CASE /\ want' = [want EXCEPT ![h] = @ \/ ops[o].kind = "new"]
               /\ path' = [path EXCEPT ![h] = @ /\ ops[o].kind # "new"]
      BY <1>t, <2>4, <3>1
    <3>2. CASE /\ disturbed' = (disturbed \/ ops[o].kind = "new")
               /\ UNCHANGED <<want, path>>
      BY <1>3, <2>4, <3>2
    <3> QED BY <3>1, <3>2 DEF Initialized
  <2>6. want'[active'] /\ \A g \in Host \ {active'} : ~Streams(g)'
    BY <1>0, <2>3, <2>4, <2>5 DEF Streams
  <2> HIDE DEF r
  <2> QED BY <1>t, <1>0, <1>1, <2>2, <2>3, <2>6, SoleStepKeeps
<1> QED BY <1>2, <1>3 DEF CleanInv

LEMMA RemovedIsClean ==
  ASSUME TypeOK, CleanInv, NEW o \in Op, Removed(o)
  PROVE  CleanInv'
<1> DEFINE Record == [kind : OpKinds, host : Host, pc : Pcs]
           f == [ops EXCEPT ![o].pc = "done"]
<1>t. /\ ops \in [Op -> Record] /\ OrderBook
      /\ ops[o].pc = "revoking" /\ ops[o].kind = "remove"
  BY DEF TypeOK, CleanInv, OrderBook, Removed
<1>1. \A p \in Op : Steps(p)
  <2> SUFFICES ASSUME NEW p \in Op PROVE Steps(p)
    OBVIOUS
  <2>1. ops' = Told(f)
    BY DEF Removed, Notified
  <2>2. CASE p = o
    <3>1. f[p].pc = "done" /\ f[p].kind = "remove" /\ f[p].host = ops[p].host
      BY <1>t, <2>2
    <3>2. ops'[p] = f[p]
      BY <2>1, <3>1 DEF Told
    <3> QED BY <1>t, <2>2, <3>1, <3>2 DEF Steps, Between
  <2>3. CASE p # o
    <3>1. f[p] = ops[p]
      BY <1>t, <2>3
    <3>2. Told(f)[p] = Told(ops)[p]
      BY <3>1 DEF Told
    <3> QED BY <1>t, <2>1, <3>2, ToldSteps
  <2> QED BY <2>2, <2>3
<1>2. UNCHANGED <<want, path>> /\ contexts' = contexts \ {ops[o].host}
  BY DEF Removed
<1>3. ASSUME ~disturbed'
      PROVE  /\ ~disturbed /\ active' = active /\ active # ops[o].host
             /\ \A p \in Op \ {o} : ~Running(p)
  BY <1>3 DEF Removed
<1>4. ASSUME ~disturbed', NEW p \in Op, Selecting(p) PROVE FALSE
  <2>1. p # o /\ Running(p)
    BY <1>t, <1>4 DEF Selecting, Running
  <2> QED BY <1>3, <1>4, <2>1
<1> QED BY <1>t, <1>1, <1>2, <1>3, <1>4, BackgroundIsClean DEF CleanInv

\* A discovery that leaves the active host and the one that is being selected alone
LEMMA DiscoveredIsClean ==
  ASSUME TypeOK, CleanInv, Discovered
  PROVE  CleanInv'
<1>1. \A o \in Op : Steps(o)
  <2>1. ops' = Told(ops)
    BY DEF Discovered
  <2> QED BY <2>1, ToldSteps DEF CleanInv
<1>2. contexts' = authorized /\ UNCHANGED <<want, path>>
  BY DEF Discovered
<1>3. ASSUME ~disturbed'
      PROVE  /\ ~disturbed /\ active' = active
             /\ \A o \in Op : Running(o) => ops[o].host \notin contexts \ authorized
             /\ authorized = {} \/ active \in authorized
  <2>1. /\ ~disturbed /\ active' = active
        /\ \A o \in Op : Running(o) => ops[o].host \notin contexts \ authorized
    BY <1>3 DEF Discovered
  <2>2. authorized # {} /\ active \notin authorized => active' \in authorized
    BY DEF Discovered
  <2> QED BY <2>1, <2>2
<1>4. \A o \in Op : Selecting(o) => Running(o)
  BY DEF Selecting, Running
<1> QED BY <1>1, <1>2, <1>3, <1>4, BackgroundIsClean DEF CleanInv

LEMMA CleanStep == TypeOK /\ CleanInv /\ [Next]_vars => CleanInv'
<1> SUFFICES ASSUME TypeOK, CleanInv, [Next]_vars PROVE CleanInv'
  OBVIOUS
<1>0. ASSUME \A o \in Op : Steps(o), UNCHANGED <<want, path, active, contexts, disturbed>>
      PROVE  CleanInv'
  BY <1>0, BackgroundIsClean DEF CleanInv
<1>1. ASSUME NEW h \in Host, Carrier(h) PROVE CleanInv'
  <2>1. \A o \in Op : Steps(o)
    <3>1. ops' = Told(ops)
      BY <1>1 DEF Carrier, Notified
    <3> QED BY <3>1, ToldSteps DEF CleanInv
  <2> QED BY <1>0, <1>1, <2>1 DEF Carrier, view
<1>2. ASSUME NEW o \in Op, RemoveFails(o) \/ \E h \in Host : RemoveBegins(o, h)
      PROVE  CleanInv'
  <2>1. /\ \A p \in Op \ {o} : ops'[p] = ops[p]
        /\ Steps(o)
    <3>1. ops \in [Op -> [kind : OpKinds, host : Host, pc : Pcs]]
      BY DEF TypeOK
    <3>2. CASE RemoveFails(o)
      BY <3>1, <3>2 DEF RemoveFails, Steps, Between
    <3>3. CASE \E h \in Host : RemoveBegins(o, h)
      BY <3>1, <3>3 DEF RemoveBegins, Steps
    <3> QED BY <1>2, <3>2, <3>3
  <2>2. \A p \in Op : Steps(p)
    BY <2>1 DEF Steps
  <2> QED BY <1>0, <1>2, <2>2 DEF RemoveFails, RemoveBegins, view
<1>3. ASSUME UNCHANGED ops, UNCHANGED <<view, disturbed>> PROVE CleanInv'
  <2>1. \A o \in Op : Steps(o)
    BY <1>3 DEF Steps
  <2> QED BY <1>0, <1>3, <2>1 DEF view
<1>4. CASE DiscoveryTimer \/ DiscoveryFails \/ Outside \/ UNCHANGED vars
  BY <1>3, <1>4 DEF DiscoveryTimer, DiscoveryFails, Outside, vars, tasks
<1>5. ASSUME NEW h \in Host, SessionsListed(h) PROVE CleanInv'
  BY <1>5, SessionsListedIsClean
<1>6. ASSUME NEW o \in Op, NEW h \in Host, NEW k \in Kinds, Begin(o, k, h) PROVE CleanInv'
  BY <1>6, BeginIsClean
<1>7. ASSUME NEW o \in Op, Paused(o) \/ Initialized(o) \/ Removed(o) PROVE CleanInv'
  BY <1>7, PausedIsClean, InitializedIsClean, RemovedIsClean
<1>8. CASE Discovered
  BY <1>8, DiscoveredIsClean
<1> QED BY <1>1, <1>2, <1>4, <1>5, <1>6, <1>7, <1>8 DEF Next

\* A selection that nothing disturbed leaves its host active and subscribed, and every
\* other host silent, whatever becomes of the carriers meanwhile.
THEOREM SelectionsStayClean == Spec => []SelectionsAreClean
<1>1. TypeOK /\ CleanInv => SelectionsAreClean
  <2> SUFFICES ASSUME TypeOK, CleanInv, Quiet, ~disturbed
               PROVE  /\ \A h \in contexts \ {active} : ~Streams(h)
                      /\ \A o \in Op : Latest(o) => active = ops[o].host /\ want[active]
    BY DEF SelectionsAreClean
  <2>1. Undisturbed /\ contexts \subseteq Host
    BY DEF CleanInv, TypeOK
  <2>2. \A o \in Op : ~Between(o)
    BY DEF Quiet, Running, Between
  <2> QED BY <2>1, <2>2 DEF Undisturbed
<1> QED BY <1>1, TypeCorrect, CleanInit, CleanStep, PTL DEF Spec

-------------------------------------------------------------------------------
(* The frames of one carrier: the queue, the wire and the decoder.          *)

(* The messages on the carrier.                                             *)
Envelope == [kind : {"chunk"}, id : Id, index : 0 .. MaxChunks - 1] \cup [kind : {"cancel"}, id : Id]

LaneTypes ==
  /\ open \in BOOLEAN /\ flushing \in BOOLEAN
  /\ made \in Seq(Content) /\ nextFrameId \in 0 .. MaxFrames
  /\ control \in Seq(Part) /\ bulk \in Seq(Part \cup OutgoingSequence)
  /\ \A id \in LiveFrames : id \in 1 .. nextFrameId /\ nextIndex[id] < made[id].total
  /\ pushing \in 0 .. MaxFrames /\ queuedBytes \in Int
  /\ nextIndex \in [Id -> 0 .. MaxChunks] /\ pending \in [Id -> 0 .. MaxChunks - 1]
  /\ wire \in Seq(Envelope) /\ delivered \in Seq(Id) /\ dropped \subseteq Id
  /\ queued \in Nat /\ broken \in BOOLEAN /\ overflow \in {"none", "itself", "others"}

(* What is known of a frame follows its next message: it exists once it has *)
(* been written to, what the browser has of it was written, and a dropped   *)
(* one stays as it was.                                                     *)
FramesAreKnown ==
  /\ \A id \in Id : nextIndex[id] > 0 => id <= nextFrameId
  /\ \A id \in 1 .. nextFrameId : nextIndex[id] <= made[id].total /\ made[id].rank <= queued
  /\ \A id \in Id : pending[id] <= nextIndex[id]
  /\ \A i \in DOMAIN wire : wire[i].kind = "chunk" => wire[i].index < nextIndex[wire[i].id]
  /\ \A i \in DOMAIN delivered :
       delivered[i] <= nextFrameId /\ nextIndex[delivered[i]] = made[delivered[i]].total
  /\ \A id \in dropped :
       /\ id <= nextFrameId /\ id \notin LiveFrames
       /\ nextIndex[id] < made[id].total /\ ~IsControl(id)

(* The control lane: cancellations of dropped frames, and control frames in *)
(* the order of their ranks of which only the first can have been started.  *)
ControlIsOrdered ==
  /\ \A i \in DOMAIN control :
       IF control[i].kind = "cancel" THEN control[i].id \in dropped ELSE IsControl(control[i].id)
  /\ \A i, j \in DOMAIN control :
       i < j /\ control[i].kind = "cancel" /\ control[j].kind = "cancel" => control[i].id # control[j].id
  /\ \A i, j \in DOMAIN control :
       i < j /\ control[i].kind = "frame" /\ control[j].kind = "frame" =>
         /\ made[control[i].id].rank < made[control[j].id].rank
         /\ nextIndex[control[j].id] = 0

RankOf(item) == IF item.kind = "sequence" THEN item.rank ELSE made[item.id].rank

(* The bulk lane: frames and at most one sequence, in the order of their    *)
(* ranks, of which only the first can have been started.                    *)
BulkIsOrdered ==
  /\ \A i \in DOMAIN bulk : bulk[i].kind # "cancel" /\ RankOf(bulk[i]) <= queued
  /\ \A i \in DOMAIN bulk : \A id \in FramesOf(bulk[i]) :
       ~IsControl(id) /\ made[id].rank = RankOf(bulk[i]) /\ (i > 1 => nextIndex[id] = 0)
  /\ \A i \in DOMAIN bulk : \A id, e \in FramesOf(bulk[i]) : id = e
  /\ \A i, j \in DOMAIN bulk : i < j => RankOf(bulk[i]) < RankOf(bulk[j])

(* What is still to be created fits the bound, and nothing is left of a     *)
(* queue that has failed.                                                   *)
PayloadsFit ==
  /\ nextFrameId + pushing <= MaxFrames
  /\ \A i \in DOMAIN bulk : bulk[i].kind = "sequence" => pushing = 0 /\ nextFrameId + bulk[i].left <= MaxFrames
  /\ \A i, j \in DOMAIN bulk : bulk[i].kind = "sequence" /\ bulk[j].kind = "sequence" => i = j
  /\ ~open => control = <<>> /\ bulk = <<>> /\ ~flushing /\ pushing = 0

LanesInv == LaneTypes /\ FramesAreKnown /\ ControlIsOrdered /\ BulkIsOrdered /\ PayloadsFit

(* The messages of a frame arrive in order, and of each lane one frame is   *)
(* in pieces at a time: another one was ended, by its last chunk or by a    *)
(* cancellation, before.                                                    *)
IsChunkOf(m, id) == m.kind = "chunk" /\ m.id = id
Closes(m, id) == m.id = id /\ (m.kind = "chunk" => m.index + 1 = made[id].total)
Touched(id, n) == pending[id] > 0 \/ \E i \in DOMAIN wire : i < n /\ IsChunkOf(wire[i], id)
Closed(id, n) == \E i \in DOMAIN wire : i < n /\ Closes(wire[i], id)
Started(id) == pending[id] > 0 \/ \E i \in DOMAIN wire : IsChunkOf(wire[i], id)
Ended(id) == \E i \in DOMAIN wire : Closes(wire[i], id)
SameLane(id, e) == IsControl(id) <=> IsControl(e)

ChunksInOrder ==
  /\ \A i, j \in DOMAIN wire : i < j /\ wire[j].kind = "chunk" /\ wire[i].id = wire[j].id =>
       wire[i].kind = "chunk" /\ wire[i].index < wire[j].index
  /\ \A i \in DOMAIN wire : wire[i].kind = "chunk" =>
       /\ pending[wire[i].id] <= wire[i].index
       /\ wire[i].index > pending[wire[i].id] =>
            \E j \in DOMAIN wire : j < i /\ IsChunkOf(wire[j], wire[i].id) /\ wire[j].index + 1 = wire[i].index
  /\ \A i \in DOMAIN wire : wire[i].kind = "cancel" => wire[i].id \in dropped
  /\ \A id \in LiveFrames : pending[id] < nextIndex[id] =>
       \E i \in DOMAIN wire : IsChunkOf(wire[i], id) /\ wire[i].index + 1 = nextIndex[id]

OneInPieces ==
  /\ open => \A id \in Id : Started(id) => Ended(id) \/ id \in LiveFrames \/ id \in Cancelling
  /\ \A i \in DOMAIN wire : \A id \in 1 .. nextFrameId :
       /\ wire[i].kind = "chunk" /\ id # wire[i].id /\ SameLane(id, wire[i].id) /\ Touched(id, i)
       => Closed(id, i)
  /\ \A id, e \in 1 .. nextFrameId :
       pending[id] > 0 /\ pending[e] > 0 /\ id # e => ~SameLane(id, e)

DecoderInv == ~broken /\ ChunksInOrder /\ OneInPieces

InOrder(id, e) == SameLane(id, e) => Precedes(id, e)
OrderInv ==
  /\ LanesKeepOrder
  /\ \A i \in DOMAIN delivered, j \in DOMAIN wire :
       wire[j].kind = "chunk" => delivered[i] # wire[j].id /\ InOrder(delivered[i], wire[j].id)
  /\ \A i, j \in DOMAIN wire :
       i < j /\ wire[i].kind = "chunk" /\ wire[j].kind = "chunk" /\ wire[i].id # wire[j].id =>
         InOrder(wire[i].id, wire[j].id)
  /\ \A id \in 1 .. nextFrameId : nextIndex[id] > 0 =>
       /\ \A e \in LiveFrames : e # id => InOrder(id, e)
       /\ ~IsControl(id) => \A i \in DOMAIN bulk : bulk[i].kind = "sequence" => made[id].rank <= bulk[i].rank

TransferInv ==
  /\ pushing > 0 => bulk = <<>>
  /\ \A i, j \in DOMAIN bulk : bulk[i].kind = "sequence" => ~IsSnapshot(bulk[j])
  /\ NeverOverflowsItself

-------------------------------------------------------------------------------
(* What the lanes hold.                                                     *)
LEMMA InLane ==
  ASSUME NEW lane, NEW id
  PROVE  id \in FramesIn(lane) <=> \E i \in DOMAIN lane : id \in FramesOf(lane[i])
BY DEF FramesIn

(* What an item of a lane holds.                                            *)
LEMMA HeldByItems ==
  ASSUME NEW x
  PROVE  /\ x.kind = "frame" => FramesOf(x) = {x.id}
         /\ x.kind = "sequence" => FramesOf(x) = x.current
         /\ x.kind = "cancel" => FramesOf(x) = {}
BY DEF FramesOf

(* An item more at the end of a lane.                                       *)
LEMMA LaneAppend ==
  ASSUME NEW S, NEW lane \in Seq(S), NEW x \in S
  PROVE  FramesIn(Append(lane, x)) = FramesIn(lane) \cup FramesOf(x)
<1> DEFINE longer == Append(lane, x)
<1>1. /\ DOMAIN longer = 1 .. Len(lane) + 1 /\ DOMAIN lane = 1 .. Len(lane) /\ Len(lane) \in Nat
      /\ longer[Len(lane) + 1] = x /\ \A i \in DOMAIN lane : longer[i] = lane[i]
  OBVIOUS
<1> HIDE DEF longer
<1>2. ASSUME NEW id
      PROVE  id \in FramesIn(longer) <=> id \in FramesIn(lane) \cup FramesOf(x)
  <2>1. id \in FramesIn(longer) <=> \E i \in 1 .. Len(lane) + 1 : id \in FramesOf(longer[i])
    BY <1>1, InLane
  <2>2. id \in FramesIn(lane) <=> \E i \in 1 .. Len(lane) : id \in FramesOf(lane[i])
    BY <1>1, InLane
  <2> QED BY <1>1, <2>1, <2>2
<1>3. FramesIn(longer) = FramesIn(lane) \cup FramesOf(x)
  BY <1>2
<1> QED BY <1>3 DEF longer

(* A lane is its first item and the rest.                                   *)
LEMMA LaneTail ==
  ASSUME NEW S, NEW lane \in Seq(S), lane # <<>>
  PROVE  FramesIn(lane) = FramesOf(lane[1]) \cup FramesIn(Tail(lane))
<1> DEFINE rest == Tail(lane)
<1>1. /\ Len(lane) \in Nat \ {0} /\ DOMAIN lane = 1 .. Len(lane) /\ DOMAIN rest = 1 .. Len(lane) - 1
      /\ \A i \in DOMAIN rest : rest[i] = lane[i + 1]
  OBVIOUS
<1> HIDE DEF rest
<1>2. ASSUME NEW id
      PROVE  id \in FramesIn(lane) <=> id \in FramesOf(lane[1]) \cup FramesIn(rest)
  <2>1. id \in FramesIn(lane) <=> \E i \in 1 .. Len(lane) : id \in FramesOf(lane[i])
    BY <1>1, InLane
  <2>2. id \in FramesIn(rest) <=> \E i \in 1 .. Len(lane) - 1 : id \in FramesOf(rest[i])
    BY <1>1, InLane
  <2>3. ASSUME NEW i \in 1 .. Len(lane), i # 1
        PROVE  i - 1 \in 1 .. Len(lane) - 1 /\ rest[i - 1] = lane[i]
    <3>1. i - 1 \in 1 .. Len(lane) - 1 /\ i - 1 + 1 = i
      BY <1>1, <2>3
    <3> QED BY <1>1, <3>1
  <2>4. 1 \in 1 .. Len(lane) /\ \A i \in 1 .. Len(lane) - 1 : i + 1 \in 1 .. Len(lane)
    BY <1>1
  <2> QED BY <1>1, <2>1, <2>2, <2>3, <2>4
<1>3. FramesIn(lane) = FramesOf(lane[1]) \cup FramesIn(rest)
  BY <1>2
<1> QED BY <1>3 DEF rest

(* The first item of a lane changes.                                        *)
LEMMA LaneFirst ==
  ASSUME NEW S, NEW lane \in Seq(S), lane # <<>>,
         NEW other, DOMAIN other = DOMAIN lane, \A i \in DOMAIN lane : i # 1 => other[i] = lane[i]
  PROVE  /\ FramesIn(lane) \subseteq FramesOf(lane[1]) \cup FramesIn(other)
         /\ FramesIn(other) \subseteq FramesOf(other[1]) \cup FramesIn(lane)
<1>1. Len(lane) \in Nat \ {0} /\ DOMAIN lane = 1 .. Len(lane) /\ 1 \in DOMAIN lane
  OBVIOUS
<1> QED BY <1>1, InLane

(* An empty lane holds no frame.                                            *)
LEMMA EmptyLane == FramesIn(<<>>) = {}
BY DEF FramesIn

(* Items keep apart the frames that they hold.                              *)
LEMMA BulkItems ==
  ASSUME LanesInv, NEW i \in DOMAIN bulk
  PROVE  /\ DOMAIN bulk = 1 .. Len(bulk) /\ Len(bulk) \in Nat /\ i \in 1 .. Len(bulk)
         /\ bulk[i].kind \in {"frame", "sequence"}
         /\ bulk[i].kind = "frame" =>
              bulk[i] \in Part /\ bulk[i].id \in LiveFrames /\ FramesOf(bulk[i]) = {bulk[i].id}
         /\ bulk[i].kind = "sequence" => bulk[i] \in OutgoingSequence /\ FramesOf(bulk[i]) = bulk[i].current
         /\ FramesOf(bulk[i]) \subseteq LiveFrames /\ FramesOf(bulk[i]) \subseteq FramesIn(bulk)
         /\ RankOf(bulk[i]) \in Nat
<1>1. bulk \in Seq(Part \cup OutgoingSequence)
  BY DEF LanesInv, LaneTypes
<1>2. DOMAIN bulk = 1 .. Len(bulk) /\ Len(bulk) \in Nat /\ i \in 1 .. Len(bulk)
  BY <1>1
<1>3. bulk[i] \in Part \cup OutgoingSequence
  BY <1>1, <1>2
<1>4. bulk[i].kind # "cancel"
  BY DEF LanesInv, BulkIsOrdered
<1>5. bulk[i].kind \in {"frame", "sequence"}
  BY <1>3, <1>4 DEF Part, OutgoingSequence
<1>6. bulk[i].kind = "frame" => bulk[i] \in Part
  BY <1>3 DEF Part, OutgoingSequence
<1>7. bulk[i].kind = "sequence" => bulk[i] \in OutgoingSequence
  BY <1>3 DEF Part, OutgoingSequence
<1>8. FramesOf(bulk[i]) \subseteq LiveFrames /\ FramesOf(bulk[i]) \subseteq FramesIn(bulk)
  BY InLane DEF LiveFrames
<1>9. bulk[i].kind = "frame" => FramesOf(bulk[i]) = {bulk[i].id}
  BY HeldByItems
<1>10. bulk[i].kind = "sequence" => FramesOf(bulk[i]) = bulk[i].current
  BY HeldByItems
<1>11. CASE bulk[i].kind = "frame"
  <2>1. bulk[i].id \in LiveFrames
    BY <1>8, <1>9, <1>11
  <2>2. bulk[i].id \in 1 .. Len(made) /\ made \in Seq(Content)
    BY <2>1 DEF LanesInv, LaneTypes, nextFrameId
  <2>3. made[bulk[i].id].rank \in Nat
    <3>1. made[bulk[i].id] \in Content
      BY <2>2
    <3> QED BY <3>1 DEF Content
  <2>4. RankOf(bulk[i]) \in Nat
    BY <1>11, <2>3 DEF RankOf
  <2> QED BY <1>2, <1>5, <1>6, <1>7, <1>8, <1>9, <1>10, <2>1, <2>4
<1>12. CASE bulk[i].kind = "sequence"
  <2>1. RankOf(bulk[i]) \in Nat
    BY <1>7, <1>12 DEF RankOf, OutgoingSequence
  <2> QED BY <1>2, <1>5, <1>6, <1>7, <1>8, <1>9, <1>10, <1>12, <2>1
<1> QED BY <1>5, <1>11, <1>12

(* What an item of the control lane is.                                     *)
LEMMA ControlItems ==
  ASSUME LanesInv, NEW i \in DOMAIN control
  PROVE  /\ DOMAIN control = 1 .. Len(control) /\ Len(control) \in Nat /\ i \in 1 .. Len(control)
         /\ control[i] \in Part
         /\ control[i].kind = "frame" =>
              control[i].id \in LiveFrames /\ IsControl(control[i].id) /\ FramesOf(control[i]) = {control[i].id}
         /\ control[i].kind = "cancel" =>
              control[i].id \in dropped /\ control[i].id \in Cancelling /\ FramesOf(control[i]) = {}
<1>1. control \in Seq(Part)
  BY DEF LanesInv, LaneTypes
<1>2. DOMAIN control = 1 .. Len(control) /\ Len(control) \in Nat /\ i \in 1 .. Len(control)
  BY <1>1
<1>3. control[i] \in Part
  BY <1>1, <1>2
<1>4. control[i].kind = "frame" => control[i].id \in LiveFrames /\ FramesOf(control[i]) = {control[i].id}
  BY InLane, HeldByItems DEF LiveFrames
<1>5. control[i].kind = "cancel" => control[i] = Cancellation(control[i].id) /\ control[i].id \in Id
  BY <1>3 DEF Part, Cancellation
<1>6. control[i].kind = "cancel" => FramesOf(control[i]) = {} /\ control[i].id \in Cancelling
  BY <1>5, HeldByItems DEF Cancelling
<1>7. IF control[i].kind = "cancel" THEN control[i].id \in dropped ELSE IsControl(control[i].id)
  BY DEF LanesInv, ControlIsOrdered
<1> QED BY <1>2, <1>3, <1>4, <1>6, <1>7

(* A live frame is in one of the lanes, at one place.                       *)
LEMMA LiveIsHeld ==
  ASSUME LanesInv, NEW id \in LiveFrames
  PROVE  /\ id \in Id /\ id \in 1 .. nextFrameId /\ nextIndex[id] < made[id].total
         /\ made[id] \in Content /\ nextIndex[id] \in Nat /\ id \notin dropped /\ id \notin Cancelling
         /\ IsControl(id) => \E i \in DOMAIN control : control[i] \in Part /\ control[i].kind = "frame" /\ control[i].id = id
         /\ ~IsControl(id) => \E i \in DOMAIN bulk : id \in FramesOf(bulk[i])
<1>1. id \in 1 .. nextFrameId /\ nextIndex[id] < made[id].total /\ nextFrameId \in 0 .. MaxFrames
      /\ made \in Seq(Content) /\ nextIndex \in [Id -> 0 .. MaxChunks]
  BY DEF LanesInv, LaneTypes
<1>2. id \in Id /\ id \in 1 .. Len(made)
  BY <1>1, ConstantsAssumption DEF ConstantsAssumption, Id, nextFrameId
<1>3. made[id] \in Content /\ nextIndex[id] \in Nat
  BY <1>1, <1>2, ConstantsAssumption DEF ConstantsAssumption
<1>4. id \notin dropped
  BY DEF LanesInv, FramesAreKnown
<1>5. id \notin Cancelling
  <2>1. ASSUME NEW i \in DOMAIN control, control[i] = Cancellation(id)
        PROVE  FALSE
    <3>1. control[i].kind = "cancel" /\ control[i].id = id
      BY <2>1 DEF Cancellation
    <3> QED BY <1>4, <3>1, ControlItems
  <2> QED BY <2>1 DEF Cancelling
<1>6. CASE id \in FramesIn(control)
  <2>1. PICK i \in DOMAIN control : id \in FramesOf(control[i])
    BY <1>6, InLane
  <2>2. control[i] \in Part /\ control[i].kind = "frame" /\ control[i].id = id /\ IsControl(id)
    BY <2>1, ControlItems DEF Part
  <2> QED BY <1>1, <1>2, <1>3, <1>4, <1>5, <2>2
<1>7. CASE id \in FramesIn(bulk)
  <2>1. PICK i \in DOMAIN bulk : id \in FramesOf(bulk[i])
    BY <1>7, InLane
  <2>2. ~IsControl(id)
    BY <2>1 DEF LanesInv, BulkIsOrdered
  <2> QED BY <1>1, <1>2, <1>3, <1>4, <1>5, <2>1, <2>2
<1> QED BY <1>6, <1>7 DEF LiveFrames

-------------------------------------------------------------------------------
(* What a step is to the carrier: nothing is written (QuietStep), a message *)
(* of a frame or a cancellation is, or the browser gets one.                *)
QuietStep ==
  /\ UNCHANGED <<nextIndex, wire, pending, broken, delivered>>
  /\ nextFrameId <= nextFrameId' /\ queued <= queued' /\ (open' => open)
  /\ \A id \in 1 .. nextFrameId : made'[id] = made[id]
  /\ \A id \in nextFrameId + 1 .. nextFrameId' :
       /\ made'[id].rank <= queued'
       /\ \/ made'[id].rank > queued
          \/ /\ ~IsControl(id)'
             /\ \E i \in DOMAIN bulk : bulk[i].kind = "sequence" /\ bulk[i].rank = made'[id].rank
  /\ \A i \in DOMAIN bulk' : bulk'[i].kind = "sequence" =>
       \/ bulk'[i].rank > queued
       \/ \E j \in DOMAIN bulk : bulk[j].kind = "sequence" /\ bulk[j].rank = bulk'[i].rank
  /\ \A id \in LiveFrames' : id \in LiveFrames \/ id \in nextFrameId + 1 .. nextFrameId'
  /\ dropped \subseteq dropped'
  /\ \A id \in dropped' : id \in dropped \/ (id \in LiveFrames /\ id \notin LiveFrames' /\ ~IsControl(id))
  /\ open' => /\ \A id \in LiveFrames : id \in LiveFrames' \/ nextIndex[id] = 0 \/ id \in Cancelling'
              /\ Cancelling \subseteq Cancelling'

WriteStep(id) ==
  /\ id \in LiveFrames /\ id \in Id
  /\ wire' = Append(wire, Chunk(id))
  /\ nextIndex' = [nextIndex EXCEPT ![id] = @ + 1]
  /\ UNCHANGED <<open, made, pending, broken, delivered, dropped, queued>>
  /\ LiveFrames' = IF IsLastMessage(id) THEN LiveFrames \ {id} ELSE LiveFrames
  /\ Cancelling' = Cancelling
  /\ \A e \in LiveFrames : e # id /\ SameLane(id, e) => nextIndex[e] = 0 /\ Precedes(id, e)
  /\ \A e \in Cancelling : ~SameLane(id, e)
  /\ \A i \in DOMAIN bulk' : bulk'[i].kind = "sequence" =>
       /\ \E j \in DOMAIN bulk : bulk[j].kind = "sequence" /\ bulk[j].rank = bulk'[i].rank
       /\ ~IsControl(id) => made[id].rank <= bulk'[i].rank

CancelStep(id) ==
  /\ id \in Cancelling /\ id \in dropped
  /\ wire' = Append(wire, Cancellation(id))
  /\ UNCHANGED <<open, made, nextIndex, bulk, pending, broken, delivered, dropped, queued>>
  /\ LiveFrames' = LiveFrames /\ Cancelling' = Cancelling \ {id}

(* What a new frame of so many messages adds to the queue.                  *)
Adds(total) ==
  /\ nextFrameId' = nextFrameId + 1 /\ nextFrameId + 1 \in Id
  /\ LiveFrames' = LiveFrames \cup {nextFrameId + 1} /\ nextFrameId + 1 \notin LiveFrames
  /\ Cancelling' = Cancelling
  /\ queuedBytes' = queuedBytes + total
  /\ nextIndex' = nextIndex /\ nextIndex[nextFrameId + 1] = 0
  /\ made'[nextFrameId + 1].total = total
  /\ \A id \in 1 .. nextFrameId : made'[id] = made[id]

SameQueue ==
  /\ queuedBytes' = queuedBytes /\ nextIndex' = nextIndex /\ made' = made
  /\ LiveFrames' = LiveFrames /\ Cancelling' = Cancelling

-------------------------------------------------------------------------------
(* Typed facts of a frame that is made.                                     *)
LEMMA MadeFacts ==
  ASSUME LanesInv
  PROVE  /\ nextFrameId \in Nat /\ nextFrameId <= MaxFrames /\ MaxFrames \in Nat /\ queued \in Nat
         /\ 1 .. nextFrameId \subseteq Id /\ DOMAIN made = 1 .. nextFrameId
         /\ \A id \in 1 .. nextFrameId :
              /\ made[id] \in Content /\ made[id].rank \in Nat /\ made[id].total \in 1 .. MaxChunks
              /\ made[id].rank <= queued /\ nextIndex[id] <= made[id].total
         /\ \A id \in Id : nextIndex[id] \in Nat /\ pending[id] \in Nat
         /\ \A id \in dropped : id \in 1 .. nextFrameId
<1>1. nextFrameId \in 0 .. MaxFrames /\ made \in Seq(Content) /\ queued \in Nat /\ dropped \subseteq Id
      /\ nextIndex \in [Id -> 0 .. MaxChunks] /\ pending \in [Id -> 0 .. MaxChunks - 1]
  BY DEF LanesInv, LaneTypes
<1>2. MaxFrames \in Nat /\ MaxChunks \in Nat
  BY ConstantsAssumption DEF ConstantsAssumption
<1>3. nextFrameId \in Nat /\ nextFrameId <= MaxFrames /\ 1 .. nextFrameId \subseteq Id
  BY <1>1, <1>2 DEF Id
<1>4. DOMAIN made = 1 .. nextFrameId
  BY <1>1 DEF nextFrameId
<1>5. ASSUME NEW id \in 1 .. nextFrameId
      PROVE  /\ made[id] \in Content /\ made[id].rank \in Nat /\ made[id].total \in 1 .. MaxChunks
             /\ made[id].rank <= queued /\ nextIndex[id] <= made[id].total
  <2>1. made[id] \in Content
    BY <1>1 DEF nextFrameId
  <2>2. made[id].rank <= queued /\ nextIndex[id] <= made[id].total
    BY DEF LanesInv, FramesAreKnown
  <2> QED BY <2>1, <2>2 DEF Content
<1>6. \A id \in Id : nextIndex[id] \in Nat /\ pending[id] \in Nat
  BY <1>1, <1>2
<1>7. \A id \in dropped : id \in 1 .. nextFrameId
  BY <1>1, <1>2, <1>3 DEF LanesInv, FramesAreKnown, Id
<1> QED BY <1>1, <1>2, <1>3, <1>4, <1>5, <1>6, <1>7

(* A frame that is created is a new one, of which nothing is written.       *)
LEMMA Creation ==
  ASSUME LanesInv, NEW c \in Content, made' = Append(made, c), nextFrameId < MaxFrames
  PROVE  /\ made' \in Seq(Content) /\ nextFrameId' = nextFrameId + 1 /\ nextFrameId' \in 0 .. MaxFrames
         /\ nextFrameId + 1 \in Id /\ nextFrameId + 1 \notin LiveFrames
         /\ nextIndex[nextFrameId + 1] = 0
         /\ made'[nextFrameId + 1] = c
         /\ \A id \in 1 .. nextFrameId : made'[id] = made[id]
<1>1. made \in Seq(Content) /\ nextFrameId = Len(made) /\ Len(made) \in Nat
  BY DEF LanesInv, LaneTypes, nextFrameId
<1>2. /\ made' \in Seq(Content) /\ Len(made') = Len(made) + 1
      /\ made'[Len(made) + 1] = c /\ \A id \in 1 .. Len(made) : made'[id] = made[id]
  BY <1>1
<1>3. nextFrameId + 1 \in Id
  BY <1>1, MadeFacts DEF Id
<1>4. nextFrameId + 1 \notin LiveFrames
  BY <1>1 DEF LanesInv, LaneTypes
<1>5. nextIndex[nextFrameId + 1] = 0
  <2>1. nextIndex[nextFrameId + 1] \in Nat
    BY <1>3, MadeFacts
  <2>2. ~(nextIndex[nextFrameId + 1] > 0)
    BY <1>1, <1>3 DEF LanesInv, FramesAreKnown
  <2> QED BY <2>1, <2>2
<1>6. nextFrameId' = nextFrameId + 1
  BY <1>1, <1>2 DEF nextFrameId
<1>7. nextFrameId' \in 0 .. MaxFrames
  BY <1>1, <1>6, MadeFacts
<1> QED BY <1>1, <1>2, <1>3, <1>4, <1>5, <1>6, <1>7

(* A failed queue holds nothing.                                            *)
LEMMA OverflowKeeps ==
  ASSUME LanesInv, open, NEW purpose, NEW total, Overflows(purpose, total)
  PROVE  QuietStep /\ LaneTypes' /\ ControlIsOrdered' /\ BulkIsOrdered' /\ PayloadsFit'
<1>1. /\ open' = FALSE /\ control' = <<>> /\ bulk' = <<>> /\ queuedBytes' = 0 /\ flushing' = FALSE /\ pushing' = 0
      /\ made' = made /\ nextIndex' = nextIndex /\ wire' = wire /\ pending' = pending /\ broken' = broken
      /\ delivered' = delivered /\ dropped' = dropped /\ queued' = queued
      /\ overflow' \in {"none", "itself", "others"}
  BY DEF Overflows, receiverVars
<1>2. LiveFrames' = {}
  BY <1>1, EmptyLane DEF LiveFrames
<1>3. nextFrameId' = nextFrameId /\ nextFrameId \in Nat /\ queued \in Nat
  BY <1>1, MadeFacts DEF nextFrameId
<1>4. DOMAIN bulk' = {} /\ DOMAIN control' = {}
  BY <1>1
<1>5. QuietStep
  BY <1>1, <1>2, <1>3, <1>4 DEF QuietStep
<1>6. LaneTypes'
  <2>1. pushing' \in 0 .. MaxFrames
    BY <1>1, MadeFacts
  <2>2. nextFrameId' \in 0 .. MaxFrames
    BY <1>3, MadeFacts
  <2>3. LaneTypes
    BY DEF LanesInv
  <2>4. open' \in BOOLEAN /\ flushing' \in BOOLEAN
    BY <1>1
  <2>5. made' \in Seq(Content)
    BY <1>1, <2>3 DEF LaneTypes
  <2>6. control' \in Seq(Part) /\ bulk' \in Seq(Part \cup OutgoingSequence)
    BY <1>1
  <2>7. queuedBytes' \in Int /\ queued' \in Nat /\ broken' \in BOOLEAN
    BY <1>1, <2>3 DEF LaneTypes
  <2>8. /\ nextIndex' \in [Id -> 0 .. MaxChunks] /\ pending' \in [Id -> 0 .. MaxChunks - 1]
        /\ wire' \in Seq(Envelope) /\ delivered' \in Seq(Id) /\ dropped' \subseteq Id
    BY <1>1, <2>3 DEF LaneTypes
  <2> QED BY <1>1, <1>2, <2>1, <2>2, <2>4, <2>5, <2>6, <2>7, <2>8 DEF LaneTypes
<1>7. ControlIsOrdered' /\ BulkIsOrdered'
  BY <1>4 DEF ControlIsOrdered, BulkIsOrdered
<1>8. PayloadsFit'
  BY <1>1, <1>3, <1>4, MadeFacts DEF PayloadsFit
<1> QED BY <1>5, <1>6, <1>7, <1>8

(* A frame is taken in by its lane.                                         *)
LEMMA EnqueueKeeps ==
  ASSUME LanesInv, open, NEW purpose \in Purpose, NEW total \in 1 .. MaxChunks, NEW left \in 0 .. MaxFrames,
         Enqueue(purpose, total, left), Fits(total), nextFrameId + 1 + left <= MaxFrames,
         \A i \in DOMAIN bulk : bulk[i].kind = "sequence" => left = 0 /\ nextFrameId + bulk[i].left < MaxFrames
  PROVE  QuietStep /\ LaneTypes' /\ ControlIsOrdered' /\ BulkIsOrdered' /\ PayloadsFit' /\ Adds(total)
<1>n. PICK n : n = nextFrameId + 1
  OBVIOUS
<1>f. PICK f : f = Frame(n)
  OBVIOUS
<1>c. PICK c : c = [rank |-> queued + 1, purpose |-> purpose, total |-> total]
  OBVIOUS
<1>m. made' = Append(made, c)
  BY <1>n, <1>f, <1>c DEF Enqueue, Creates
<1>q. IF purpose = "control" THEN control' = Append(control, f) /\ bulk' = bulk
                             ELSE bulk' = Append(bulk, f) /\ control' = control
  BY <1>n, <1>f, <1>c DEF Enqueue, Queued
<1>1. /\ queuedBytes' = queuedBytes + total /\ queued' = queued + 1
      /\ pushing' = left /\ nextIndex' = nextIndex /\ wire' = wire
      /\ pending' = pending /\ delivered' = delivered /\ dropped' = dropped
      /\ overflow' = overflow
  BY DEF Enqueue, Creates, receiverVars
<1>0. flushing' = TRUE /\ open' = open /\ broken' = broken
  BY DEF Enqueue, receiverVars
<1>2. /\ nextFrameId \in Nat /\ nextFrameId < MaxFrames /\ MaxFrames \in Nat /\ queued \in Nat
      /\ control \in Seq(Part) /\ bulk \in Seq(Part \cup OutgoingSequence)
      /\ MaxChunks \in Nat
  BY MadeFacts, ConstantsAssumption DEF LanesInv, LaneTypes, ConstantsAssumption
<1>02. LaneTypes
  BY DEF LanesInv
<1>3. c \in Content
  BY <1>2, <1>c DEF Content
<1>4. /\ made' \in Seq(Content) /\ nextFrameId' = n /\ nextFrameId' \in 0 .. MaxFrames
      /\ n \in Id /\ n \notin LiveFrames /\ nextIndex[n] = 0 /\ made'[n] = c
      /\ \A id \in 1 .. nextFrameId : made'[id] = made[id]
  BY <1>m, <1>2, <1>3, <1>n, Creation
<1>5. f \in Part /\ f.kind = "frame" /\ f.id = n /\ FramesOf(f) = {n}
  BY <1>4, <1>f, HeldByItems DEF Part, Frame
<1>6. made'[n].rank = queued + 1 /\ made'[n].purpose = purpose /\ made'[n].total = total
  BY <1>4, <1>c
<1>7. IF purpose = "control"
      THEN FramesIn(control') = FramesIn(control) \cup {n} /\ FramesIn(bulk') = FramesIn(bulk)
      ELSE FramesIn(bulk') = FramesIn(bulk) \cup {n} /\ FramesIn(control') = FramesIn(control)
  <2>1. FramesIn(Append(control, f)) = FramesIn(control) \cup {n}
    BY <1>2, <1>5, LaneAppend
  <2>2. FramesIn(Append(bulk, f)) = FramesIn(bulk) \cup {n}
    BY <1>2, <1>5, LaneAppend
  <2> QED BY <1>q, <2>1, <2>2
<1>8. LiveFrames' = LiveFrames \cup {n}
  BY <1>7 DEF LiveFrames
<1>9. LaneTypes'
  <2>1. ASSUME NEW id \in LiveFrames'
        PROVE  id \in 1 .. nextFrameId' /\ nextIndex'[id] < made'[id].total
    <3>1. CASE id = n
      <4>1. nextIndex'[id] = 0 /\ made'[id].total \in 1 .. MaxChunks
        BY <1>1, <1>4, <1>6, <3>1
      <4>2. id \in 1 .. nextFrameId'
        BY <1>2, <1>4, <1>n, <3>1
      <4> QED BY <4>1, <4>2
    <3>2. CASE id \in LiveFrames
      <4>1. id \in 1 .. nextFrameId /\ nextIndex[id] < made[id].total
        BY <1>02, <3>2 DEF LaneTypes
      <4>2. nextIndex'[id] = nextIndex[id] /\ made'[id] = made[id]
        BY <1>1, <1>4, <4>1
      <4>3. id \in 1 .. nextFrameId'
        BY <1>2, <1>4, <1>n, <4>1
      <4> QED BY <4>1, <4>2, <4>3
    <3> QED BY <1>8, <3>1, <3>2
  <2>2. control' \in Seq(Part)
    <3>1. control \in Seq(Part) /\ f \in Part
      BY <1>2, <1>5
    <3>2. CASE control' = Append(control, f)
      BY <3>1, <3>2
    <3>3. CASE control' = control
      BY <3>1, <3>3
    <3> QED BY <1>q, <3>2, <3>3
  <2>3. bulk' \in Seq(Part \cup OutgoingSequence)
    <3>1. bulk \in Seq(Part \cup OutgoingSequence) /\ f \in Part \cup OutgoingSequence
      BY <1>2, <1>5
    <3>2. CASE bulk' = Append(bulk, f)
      BY <3>1, <3>2
    <3>3. CASE bulk' = bulk
      BY <3>1, <3>3
    <3> QED BY <1>q, <3>2, <3>3
  <2>4. queuedBytes' \in Int
    BY <1>1, <1>02 DEF LaneTypes
  <2>5. open' \in BOOLEAN /\ flushing' \in BOOLEAN /\ broken' \in BOOLEAN
    BY <1>0, <1>02 DEF LaneTypes
  <2>6. /\ nextIndex' \in [Id -> 0 .. MaxChunks] /\ pending' \in [Id -> 0 .. MaxChunks - 1]
        /\ wire' \in Seq(Envelope) /\ delivered' \in Seq(Id) /\ dropped' \subseteq Id
        /\ overflow' \in {"none", "itself", "others"}
    BY <1>1, <1>02 DEF LaneTypes
  <2>7. pushing' \in 0 .. MaxFrames /\ queued' \in Nat
    BY <1>1, <1>2
  <2> QED BY <1>4, <2>1, <2>2, <2>3, <2>4, <2>5, <2>6, <2>7 DEF LaneTypes
<1>10. ASSUME NEW i \in DOMAIN control
       PROVE  /\ DOMAIN control = 1 .. Len(control) /\ Len(control) \in Nat
              /\ control[i].kind \in {"frame", "cancel"}
              /\ control[i].kind = "frame" => control[i].id \in 1 .. nextFrameId /\ IsControl(control[i].id)
              /\ control[i].kind = "cancel" => control[i].id \in dropped
  BY ControlItems, LiveIsHeld DEF Part
<1>11. DOMAIN control = 1 .. Len(control) /\ Len(control) \in Nat
  BY <1>2
<1>12. ControlIsOrdered'
  <2>1. CASE purpose # "control"
    <3>1. control' = control
      BY <1>q, <2>1
    <3>2. ControlIsOrdered
      BY DEF LanesInv
    <3>3. ASSUME NEW i \in DOMAIN control, control[i].kind = "frame"
          PROVE  made'[control[i].id] = made[control[i].id]
      BY <1>4, <1>10, <3>3
    <3>4. ASSUME NEW i \in DOMAIN control
          PROVE  IF control[i].kind = "cancel" THEN control[i].id \in dropped'
                                               ELSE made'[control[i].id].purpose = "control"
      BY <1>1, <1>10, <3>3 DEF IsControl
    <3>5. ASSUME NEW i \in DOMAIN control, NEW j \in DOMAIN control, i < j,
                 control[i].kind = "frame", control[j].kind = "frame"
          PROVE  made'[control[i].id].rank < made'[control[j].id].rank /\ nextIndex'[control[j].id] = 0
      BY <1>1, <3>2, <3>3, <3>5 DEF ControlIsOrdered
    <3>6. ASSUME NEW i \in DOMAIN control, NEW j \in DOMAIN control, i < j,
                 control[i].kind = "cancel", control[j].kind = "cancel"
          PROVE  control[i].id # control[j].id
      BY <3>2, <3>6 DEF ControlIsOrdered
    <3> QED BY <3>1, <3>4, <3>5, <3>6 DEF ControlIsOrdered, IsControl
  <2>2. CASE purpose = "control"
    <3>1. /\ DOMAIN control' = 1 .. Len(control) + 1 /\ control'[Len(control) + 1] = f
          /\ \A i \in DOMAIN control : control'[i] = control[i]
      BY <1>q, <1>2, <2>2
    <3>2. ControlIsOrdered
      BY DEF LanesInv
    <3>3. ASSUME NEW i \in DOMAIN control'
          PROVE  IF control'[i].kind = "cancel" THEN control'[i].id \in dropped' 
                ELSE made'[control'[i].id].purpose = "control"
      <4>1. CASE i = Len(control) + 1
        BY <1>5, <1>6, <2>2, <3>1, <4>1 DEF IsControl
      <4>2. CASE i \in DOMAIN control
        BY <1>1, <1>4, <1>10, <3>1, <4>2 DEF IsControl
      <4> QED BY <1>11, <3>1, <4>1, <4>2
    <3>4. ASSUME NEW i \in DOMAIN control', NEW j \in DOMAIN control', i < j
          PROVE  i \in DOMAIN control /\ (j \in DOMAIN control \/ j = Len(control) + 1)
      BY <1>11, <3>1, <3>4
    <3>5. ASSUME NEW i \in DOMAIN control', NEW j \in DOMAIN control', i < j,
                 control'[i].kind = "cancel", control'[j].kind = "cancel"
          PROVE  control'[i].id # control'[j].id
      BY <1>5, <3>1, <3>2, <3>4, <3>5 DEF ControlIsOrdered
    <3>6. ASSUME NEW i \in DOMAIN control', NEW j \in DOMAIN control', i < j,
                 control'[i].kind = "frame", control'[j].kind = "frame"
          PROVE  made'[control'[i].id].rank < made'[control'[j].id].rank /\ nextIndex'[control'[j].id] = 0
      <4>1. i \in DOMAIN control /\ control'[i] = control[i] /\ control[i].id \in 1 .. nextFrameId
        BY <1>10, <3>1, <3>4, <3>6
      <4>2. CASE j \in DOMAIN control
        <5>1. control'[j] = control[j] /\ control[j].id \in 1 .. nextFrameId
          BY <1>10, <3>1, <3>6, <4>2
        <5>2. made[control[i].id].rank < made[control[j].id].rank /\ nextIndex[control[j].id] = 0
          BY <3>2, <3>6, <4>1, <4>2, <5>1 DEF ControlIsOrdered
        <5>3. made'[control[i].id] = made[control[i].id] /\ made'[control[j].id] = made[control[j].id]
          BY <1>4, <4>1, <5>1
        <5> QED BY <1>1, <4>1, <5>1, <5>2, <5>3
      <4>3. CASE j = Len(control) + 1
        <5>1. made'[control'[i].id].rank <= queued /\ made'[control'[i].id].rank \in Nat
          BY <1>4, <4>1, MadeFacts
        <5>2. control'[j].id = n /\ made'[n].rank = queued + 1
          BY <1>5, <1>6, <3>1, <4>3
        <5>3. nextIndex'[n] = 0
          BY <1>1, <1>4
        <5> QED BY <1>2, <5>1, <5>2, <5>3
      <4> QED BY <3>4, <3>6, <4>2, <4>3
    <3> QED BY <3>3, <3>5, <3>6 DEF ControlIsOrdered, IsControl
  <2> QED BY <2>1, <2>2
<1>13. ASSUME NEW i \in DOMAIN bulk
       PROVE  /\ bulk[i].kind \in {"frame", "sequence"} /\ FramesOf(bulk[i]) \subseteq 1 .. nextFrameId
              /\ bulk[i].kind = "frame" => made'[bulk[i].id] = made[bulk[i].id]
              /\ RankOf(bulk[i]) <= queued /\ RankOf(bulk[i]) \in Nat
  <2>1. FramesOf(bulk[i]) \subseteq 1 .. nextFrameId
    BY BulkItems, LiveIsHeld
  <2>2. bulk[i].kind = "frame" => bulk[i].id \in 1 .. nextFrameId
    BY BulkItems, LiveIsHeld
  <2>3. bulk[i].kind \in {"frame", "sequence"} /\ RankOf(bulk[i]) \in Nat
    BY BulkItems
  <2>4. RankOf(bulk[i]) <= queued
    BY DEF LanesInv, BulkIsOrdered
  <2> QED BY <1>4, <2>1, <2>2, <2>3, <2>4
<1>14. DOMAIN bulk = 1 .. Len(bulk) /\ Len(bulk) \in Nat
  BY <1>2
<1>15. ASSUME NEW i \in DOMAIN bulk'
       PROVE  \/ i \in DOMAIN bulk /\ bulk'[i] = bulk[i]
              \/ i = Len(bulk) + 1 /\ bulk'[i] = f /\ purpose # "control"
  <2>1. CASE purpose = "control"
    <3>1. bulk' = bulk
      BY <1>q, <2>1
    <3> QED BY <3>1
  <2>2. CASE purpose # "control"
    <3>1. bulk' = Append(bulk, f) /\ bulk \in Seq(Part \cup OutgoingSequence)
      BY <1>q, <1>2, <2>2
    <3>2. /\ DOMAIN bulk' = 1 .. Len(bulk) + 1 /\ bulk'[Len(bulk) + 1] = f
          /\ \A k \in 1 .. Len(bulk) : bulk'[k] = bulk[k]
      BY <3>1
    <3> QED BY <1>14, <2>2, <3>2
  <2> QED BY <2>1, <2>2
<1>16. ASSUME NEW i \in DOMAIN bulk'
       PROVE  LET r == IF bulk'[i].kind = "sequence" THEN bulk'[i].rank ELSE made'[bulk'[i].id].rank
              IN \/ i \in DOMAIN bulk /\ bulk'[i] = bulk[i] /\ r = RankOf(bulk[i])
                 \/ i = Len(bulk) + 1 /\ bulk'[i] = f /\ purpose # "control" /\ r = queued + 1
  <2>1. CASE i \in DOMAIN bulk /\ bulk'[i] = bulk[i]
    BY <1>13, <2>1 DEF RankOf
  <2>2. CASE i = Len(bulk) + 1 /\ bulk'[i] = f /\ purpose # "control"
    BY <1>5, <1>6, <2>2
  <2> QED BY <1>15, <2>1, <2>2
<1>17. BulkIsOrdered
  BY DEF LanesInv
<1>18. BulkIsOrdered'
  <2>1. ASSUME NEW i \in DOMAIN bulk'
        PROVE  /\ bulk'[i].kind # "cancel"
               /\ (IF bulk'[i].kind = "sequence" THEN bulk'[i].rank ELSE made'[bulk'[i].id].rank) <= queued'
    <3>1. CASE i \in DOMAIN bulk /\ bulk'[i] = bulk[i]
      <4>1. bulk[i].kind # "cancel" /\ RankOf(bulk[i]) <= queued /\ RankOf(bulk[i]) \in Nat
        BY <1>13, <3>1
      <4>2. i # Len(bulk) + 1
        BY <1>14, <3>1
      <4>3. (IF bulk'[i].kind = "sequence" THEN bulk'[i].rank ELSE made'[bulk'[i].id].rank) = RankOf(bulk[i])
        BY <1>16, <4>2
      <4> QED BY <1>1, <1>2, <3>1, <4>1, <4>3
    <3>2. CASE bulk'[i] = f
      BY <1>1, <1>2, <1>5, <1>6, <3>2
    <3> QED BY <1>15, <3>1, <3>2
  <2>2. ASSUME NEW i \in DOMAIN bulk', NEW id \in FramesOf(bulk'[i])
        PROVE  /\ made'[id].purpose # "control"
               /\ made'[id].rank = IF bulk'[i].kind = "sequence" THEN bulk'[i].rank ELSE made'[bulk'[i].id].rank
               /\ i > 1 => nextIndex'[id] = 0
    <3>1. CASE i \in DOMAIN bulk /\ bulk'[i] = bulk[i]
      <4>1. id \in 1 .. nextFrameId /\ made'[id] = made[id]
        BY <1>4, <1>13, <3>1
      <4>2. ~IsControl(id) /\ made[id].rank = RankOf(bulk[i]) /\ (i > 1 => nextIndex[id] = 0)
        BY <1>17, <3>1 DEF BulkIsOrdered
      <4> QED BY <1>1, <1>13, <3>1, <4>1, <4>2 DEF IsControl, RankOf
    <3>2. CASE bulk'[i] = f /\ purpose # "control"
      <4>1. id = n
        BY <1>5, <3>2
      <4> QED BY <1>1, <1>4, <1>5, <1>6, <3>2, <4>1
    <3> QED BY <1>15, <3>1, <3>2
  <2>3. ASSUME NEW i \in DOMAIN bulk', NEW id \in FramesOf(bulk'[i]), NEW e \in FramesOf(bulk'[i])
        PROVE  id = e
    <3>1. CASE i \in DOMAIN bulk /\ bulk'[i] = bulk[i]
      BY <1>17, <3>1 DEF BulkIsOrdered
    <3>2. CASE bulk'[i] = f
      BY <1>5, <3>2
    <3> QED BY <1>15, <3>1, <3>2
  <2>4. ASSUME NEW i \in DOMAIN bulk', NEW j \in DOMAIN bulk', i < j
        PROVE  (IF bulk'[i].kind = "sequence" THEN bulk'[i].rank ELSE made'[bulk'[i].id].rank)
                 < (IF bulk'[j].kind = "sequence" THEN bulk'[j].rank ELSE made'[bulk'[j].id].rank)
    <3>1. i \in DOMAIN bulk
      BY <1>14, <1>15, <2>4
    <3>2. CASE j \in DOMAIN bulk
      <4>1. RankOf(bulk[i]) < RankOf(bulk[j])
        BY <1>17, <2>4, <3>1, <3>2 DEF BulkIsOrdered
      <4> QED BY <1>14, <1>16, <3>1, <3>2, <4>1
    <3>3. CASE j = Len(bulk) + 1
      <4>1. RankOf(bulk[i]) <= queued /\ RankOf(bulk[i]) \in Nat
        BY <1>13, <3>1
      <4> QED BY <1>2, <1>14, <1>16, <3>1, <3>3, <4>1
    <3> QED BY <1>15, <3>2, <3>3
  <2> QED BY <2>1, <2>2, <2>3, <2>4 DEF BulkIsOrdered, RankOf, IsControl
<1>19. PayloadsFit'
  <2>1. nextFrameId' + pushing' <= MaxFrames
    BY <1>1, <1>4, <1>n
  <2>2. ASSUME NEW i \in DOMAIN bulk', bulk'[i].kind = "sequence"
        PROVE  i \in DOMAIN bulk /\ bulk'[i] = bulk[i] /\ bulk[i].kind = "sequence"
    BY <1>5, <1>15, <2>2
  <2>3. ASSUME NEW i \in DOMAIN bulk', bulk'[i].kind = "sequence"
        PROVE  pushing' = 0 /\ nextFrameId' + bulk'[i].left <= MaxFrames
    <3>1. left = 0 /\ nextFrameId + bulk[i].left < MaxFrames /\ bulk[i] \in OutgoingSequence
      BY <2>2, <2>3, BulkItems
    <3>2. bulk[i].left \in Int
      BY <1>2, <3>1 DEF OutgoingSequence
    <3> QED BY <1>1, <1>2, <1>4, <1>n, <2>2, <2>3, <3>1, <3>2
  <2>4. ASSUME NEW i \in DOMAIN bulk', NEW j \in DOMAIN bulk', bulk'[i].kind = "sequence", bulk'[j].kind = "sequence"
        PROVE  i = j
    <3>1. PayloadsFit
      BY DEF LanesInv
    <3> QED BY <2>2, <2>4, <3>1 DEF PayloadsFit
  <2>5. open'
    BY <1>0
  <2> QED BY <2>1, <2>3, <2>4, <2>5 DEF PayloadsFit
<1>20. QuietStep
  <2>1. UNCHANGED <<nextIndex, wire, pending, broken, delivered>>
    BY <1>0, <1>1
  <2>2. nextFrameId <= nextFrameId' /\ queued <= queued' /\ (open' => open)
    BY <1>0, <1>1, <1>2, <1>4, <1>n
  <2>3. ASSUME NEW id \in nextFrameId + 1 .. nextFrameId'
        PROVE  id = n /\ made'[id].rank <= queued' /\ made'[id].rank > queued
    <3>1. id = n
      BY <1>2, <1>4, <1>n
    <3> QED BY <1>1, <1>2, <1>6, <3>1
  <2>4. ASSUME NEW i \in DOMAIN bulk', bulk'[i].kind = "sequence"
        PROVE  \E j \in DOMAIN bulk : bulk[j].kind = "sequence" /\ bulk[j].rank = bulk'[i].rank
    BY <1>5, <1>15, <2>4
  <2>5. \A id \in LiveFrames' : id \in LiveFrames \/ id \in nextFrameId + 1 .. nextFrameId'
    BY <1>2, <1>4, <1>8, <1>n
  <2>6. \A id \in LiveFrames : id \in LiveFrames'
    BY <1>8
  <2>7. Cancelling \subseteq Cancelling'
    <3>1. ASSUME NEW i \in DOMAIN control
          PROVE  i \in DOMAIN control' /\ control'[i] = control[i]
      <4>1. CASE control' = control
        BY <4>1
      <4>2. CASE control' = Append(control, f)
        <5>1. control \in Seq(Part)
          BY <1>2
        <5> QED BY <4>2, <5>1
      <4> QED BY <1>q, <4>1, <4>2
    <3> QED BY <3>1 DEF Cancelling
  <2>8. dropped' = dropped
    BY <1>1
  <2>9. \A id \in 1 .. nextFrameId : made'[id] = made[id]
    BY <1>4
  <2> QED BY <2>1, <2>2, <2>3, <2>4, <2>5, <2>6, <2>7, <2>8, <2>9 DEF QuietStep
<1>21. Cancelling' = Cancelling
  <2>1. CASE control' = control
    BY <2>1 DEF Cancelling
  <2>2. CASE control' = Append(control, f)
    <3>1. /\ DOMAIN control' = 1 .. Len(control) + 1 /\ control'[Len(control) + 1] = f
          /\ \A i \in DOMAIN control : control'[i] = control[i]
      BY <1>2, <2>2
    <3>2. DOMAIN control' = DOMAIN control \cup {Len(control) + 1}
      BY <1>11, <3>1
    <3>3. \A x : f # Cancellation(x)
      BY <1>5 DEF Cancellation
    <3> QED BY <3>1, <3>2, <3>3 DEF Cancelling
  <2> QED BY <1>q, <2>1, <2>2
<1>22. Adds(total)
  BY <1>1, <1>4, <1>6, <1>8, <1>21, <1>n DEF Adds
<1> QED BY <1>9, <1>12, <1>18, <1>19, <1>20, <1>22

(* What neither touches a lane nor the frames keeps the lane as it is.      *)
LEMMA ControlSame ==
  ASSUME LanesInv, control' = control, nextIndex' = nextIndex, dropped' = dropped, made' = made
  PROVE  ControlIsOrdered'
<1>1. ControlIsOrdered
  BY DEF LanesInv
<1> QED BY <1>1 DEF ControlIsOrdered, IsControl

(* What a step leaves alone keeps its type.                                 *)
LEMMA TypesSame ==
  ASSUME LanesInv, made' = made, nextIndex' = nextIndex, wire' = wire, pending' = pending,
         delivered' = delivered, LiveFrames' \subseteq LiveFrames,
         control' \in Seq(Part), bulk' \in Seq(Part \cup OutgoingSequence),
         queued' \in Nat, dropped' \subseteq Id, pushing' \in 0 .. MaxFrames, queuedBytes' \in Int,
         open' \in BOOLEAN, flushing' \in BOOLEAN, broken' \in BOOLEAN,
         overflow' \in {"none", "itself", "others"}
  PROVE  LaneTypes'
<1>1. LaneTypes
  BY DEF LanesInv
<1>2. made' \in Seq(Content) /\ nextFrameId' \in 0 .. MaxFrames
  BY <1>1 DEF LaneTypes, nextFrameId
<1>3. \A id \in LiveFrames' : id \in 1 .. nextFrameId' /\ nextIndex'[id] < made'[id].total
  BY <1>1 DEF LaneTypes, nextFrameId
<1>4. /\ nextIndex' \in [Id -> 0 .. MaxChunks] /\ pending' \in [Id -> 0 .. MaxChunks - 1]
      /\ wire' \in Seq(Envelope) /\ delivered' \in Seq(Id)
  BY <1>1 DEF LaneTypes
<1> QED BY <1>2, <1>3, <1>4 DEF LaneTypes

(* The payloads of a snapshot become a sequence.                            *)
LEMMA SendSequenceKeeps ==
  ASSUME LanesInv, SendSequence
  PROVE  QuietStep /\ LaneTypes' /\ ControlIsOrdered' /\ BulkIsOrdered' /\ PayloadsFit' /\ SameQueue
<1>s. PICK s : s = Sequence(pushing)
  OBVIOUS
<1>q. bulk' = Append(bulk, s)
  BY <1>s DEF SendSequence, Queued
<1>1. /\ queued' = queued + 1 /\ pushing' = 0 /\ pushing > 0
      /\ control' = control /\ made' = made /\ nextIndex' = nextIndex /\ queuedBytes' = queuedBytes /\ wire' = wire
      /\ pending' = pending /\ delivered' = delivered /\ dropped' = dropped /\ overflow' = overflow
  BY DEF SendSequence, receiverVars
<1>0. flushing' = TRUE /\ open' = open /\ broken' = broken /\ open
  BY DEF SendSequence, receiverVars
<1>2. bulk \in Seq(Part \cup OutgoingSequence) /\ queued \in Nat /\ pushing \in 0 .. MaxFrames
  BY DEF LanesInv, LaneTypes
<1>3. /\ s \in OutgoingSequence /\ s.kind = "sequence" /\ FramesOf(s) = {}
      /\ s.rank = queued + 1 /\ s.left = pushing
  <2>1. s = [kind |-> "sequence", rank |-> queued + 1, left |-> pushing, current |-> {}]
    BY <1>s DEF Sequence
  <2>2. s \in OutgoingSequence
    BY <1>2, <2>1 DEF OutgoingSequence
  <2> QED BY <2>1, <2>2, HeldByItems
<1>4. /\ DOMAIN bulk' = 1 .. Len(bulk) + 1 /\ bulk'[Len(bulk) + 1] = s /\ Len(bulk) \in Nat
      /\ DOMAIN bulk = 1 .. Len(bulk)
      /\ \A k \in 1 .. Len(bulk) : bulk'[k] = bulk[k]
  BY <1>q, <1>2
<1>t. PICK T : T = Part \cup OutgoingSequence
  OBVIOUS
<1>b. PICK b : b = Append(bulk, s)
  OBVIOUS
<1>u. s \in T /\ bulk \in Seq(T)
  BY <1>2, <1>3, <1>t
<1>5. bulk' \in Seq(Part \cup OutgoingSequence)
  <2>1. b \in Seq(T)
    BY <1>b, <1>u, AppendProperties
  <2>2. bulk' = b
    BY <1>q, <1>b
  <2> QED BY <1>t, <2>1, <2>2
<1>6. FramesIn(bulk') = FramesIn(bulk)
  <2>1. FramesIn(Append(bulk, s)) = FramesIn(bulk) \cup FramesOf(s)
    BY <1>u, LaneAppend
  <2>2. FramesIn(b) = FramesIn(bulk)
    BY <1>b, <1>3, <2>1
  <2> QED BY <1>q, <1>b, <2>2
<1>7. LiveFrames' = LiveFrames
  BY <1>1, <1>6 DEF LiveFrames
<1>8. LaneTypes'
  <2>1. LaneTypes
    BY DEF LanesInv
  <2>2. broken' \in BOOLEAN /\ open' \in BOOLEAN /\ flushing' \in BOOLEAN
    BY <1>0, <2>1 DEF LaneTypes
  <2>3. control' \in Seq(Part) /\ queuedBytes' \in Int /\ dropped' \subseteq Id
        /\ overflow' \in {"none", "itself", "others"}
    BY <1>1, <2>1 DEF LaneTypes
  <2>4. pushing' \in 0 .. MaxFrames /\ queued' \in Nat
    BY <1>1, <1>2, MadeFacts
  <2> QED BY <1>1, <1>5, <1>7, <2>2, <2>3, <2>4, TypesSame
<1>9. ControlIsOrdered'
  BY <1>1, ControlSame
<1>10. BulkIsOrdered
  BY DEF LanesInv
<1>11. ASSUME NEW i \in DOMAIN bulk'
       PROVE  \/ i \in DOMAIN bulk /\ bulk'[i] = bulk[i] /\ RankOf(bulk[i]) <= queued /\ RankOf(bulk[i]) \in Nat
              \/ i = Len(bulk) + 1 /\ bulk'[i] = s /\ RankOf(s) = queued + 1
  <2>1. CASE i \in DOMAIN bulk
    BY <1>4, <1>10, <2>1, BulkItems DEF BulkIsOrdered
  <2>2. CASE i = Len(bulk) + 1
    BY <1>3, <1>4, <2>2 DEF RankOf
  <2> QED BY <1>4, <2>1, <2>2
<1>12. BulkIsOrdered'
  <2>1. ASSUME NEW i \in DOMAIN bulk'
        PROVE  bulk'[i].kind # "cancel" /\ RankOf(bulk'[i]) <= queued'
    <3>1. CASE i \in DOMAIN bulk /\ bulk'[i] = bulk[i] /\ RankOf(bulk[i]) <= queued /\ RankOf(bulk[i]) \in Nat
      BY <1>1, <1>2, <1>10, <3>1 DEF BulkIsOrdered
    <3>2. CASE bulk'[i] = s /\ RankOf(s) = queued + 1
      BY <1>1, <1>2, <1>3, <3>2
    <3> QED BY <1>11, <3>1, <3>2
  <2>2. ASSUME NEW i \in DOMAIN bulk', NEW id \in FramesOf(bulk'[i])
        PROVE  i \in DOMAIN bulk /\ bulk'[i] = bulk[i] /\ id \in FramesOf(bulk[i])
    BY <1>3, <1>11
  <2>3. ASSUME NEW i \in DOMAIN bulk', NEW id \in FramesOf(bulk'[i])
        PROVE  ~IsControl(id) /\ made[id].rank = RankOf(bulk'[i]) /\ (i > 1 => nextIndex[id] = 0)
    BY <1>10, <2>2 DEF BulkIsOrdered
  <2>4. ASSUME NEW i \in DOMAIN bulk', NEW id \in FramesOf(bulk'[i]), NEW e \in FramesOf(bulk'[i])
        PROVE  id = e
    BY <1>10, <2>2 DEF BulkIsOrdered
  <2>5. ASSUME NEW i \in DOMAIN bulk', NEW j \in DOMAIN bulk', i < j
        PROVE  RankOf(bulk'[i]) < RankOf(bulk'[j])
    <3>1. i \in DOMAIN bulk /\ bulk'[i] = bulk[i] /\ RankOf(bulk[i]) <= queued /\ RankOf(bulk[i]) \in Nat
      BY <1>4, <1>11, <2>5
    <3>2. CASE j \in DOMAIN bulk /\ bulk'[j] = bulk[j]
      BY <1>10, <2>5, <3>1, <3>2 DEF BulkIsOrdered
    <3>3. CASE bulk'[j] = s /\ RankOf(s) = queued + 1
      BY <1>2, <3>1, <3>3
    <3> QED BY <1>11, <3>2, <3>3
  <2> QED BY <1>1, <2>1, <2>3, <2>4, <2>5 DEF BulkIsOrdered, RankOf, IsControl
<1>13. PayloadsFit
  BY DEF LanesInv
<1>14. PayloadsFit'
  <2>1. nextFrameId' = nextFrameId /\ nextFrameId \in Nat /\ MaxFrames \in Nat
    BY <1>1, MadeFacts DEF nextFrameId
  <2>2. ASSUME NEW i \in DOMAIN bulk', bulk'[i].kind = "sequence"
        PROVE  i = Len(bulk) + 1 /\ bulk'[i] = s
    BY <1>1, <1>11, <1>13, <2>2 DEF PayloadsFit
  <2>3. nextFrameId' + pushing' <= MaxFrames
    BY <1>1, <2>1, MadeFacts
  <2>4. nextFrameId + pushing <= MaxFrames
    BY <1>13 DEF PayloadsFit
  <2>5. \A i \in DOMAIN bulk' : bulk'[i].kind = "sequence" => pushing' = 0 /\ nextFrameId' + bulk'[i].left <= MaxFrames
    BY <1>1, <1>3, <2>1, <2>2, <2>4
  <2>6. \A i, j \in DOMAIN bulk' : bulk'[i].kind = "sequence" /\ bulk'[j].kind = "sequence" => i = j
    BY <2>2
  <2>7. open'
    BY <1>0
  <2> QED BY <2>3, <2>5, <2>6, <2>7 DEF PayloadsFit
<1>15. QuietStep
  <2>1. UNCHANGED <<nextIndex, wire, pending, broken, delivered>>
    BY <1>0, <1>1
  <2>2. nextFrameId' = nextFrameId /\ nextFrameId \in Nat /\ queued <= queued' /\ (open' => open)
    BY <1>0, <1>1, <1>2, MadeFacts DEF nextFrameId
  <2>3. ASSUME NEW i \in DOMAIN bulk', bulk'[i].kind = "sequence"
        PROVE  bulk'[i].rank > queued \/ \E j \in DOMAIN bulk : bulk[j].kind = "sequence" /\ bulk[j].rank = bulk'[i].rank
    BY <1>2, <1>3, <1>11, <2>3
  <2>4. Cancelling' = Cancelling
    BY <1>1 DEF Cancelling
  <2>5. made' = made /\ dropped' = dropped
    BY <1>1
  <2>6. nextFrameId + 1 .. nextFrameId' = {}
    BY <2>2
  <2> QED BY <1>7, <2>1, <2>2, <2>3, <2>4, <2>5, <2>6 DEF QuietStep
<1>16. SameQueue
  <2>1. Cancelling' = Cancelling
    BY <1>1 DEF Cancelling
  <2> QED BY <1>1, <1>7, <2>1 DEF SameQueue
<1> QED BY <1>8, <1>9, <1>12, <1>14, <1>15, <1>16

(* There are finitely many messages to write.                               *)
LEMMA UnsentIsFinite ==
  ASSUME NEW F \in SUBSET Id
  PROVE  IsFiniteSet(Unsent(F)) /\ Cardinality(Unsent(F)) \in Nat
<1>1. MaxFrames \in Nat /\ MaxChunks \in Nat
  BY ConstantsAssumption DEF ConstantsAssumption
<1>2. IsFiniteSet(Id) /\ IsFiniteSet(1 .. MaxChunks)
  BY <1>1, FS_Interval DEF Id
<1>3. IsFiniteSet(Id \X (1 .. MaxChunks))
  BY <1>2, FS_Product
<1>4. Unsent(F) \subseteq Id \X (1 .. MaxChunks)
  BY DEF Unsent
<1>5. IsFiniteSet(Unsent(F))
  BY <1>3, <1>4, FS_Subset
<1> QED BY <1>5, FS_CardinalityType

(* Of at most one frame that is partly written, the cancellation.           *)
LEMMA OneToSeq ==
  ASSUME NEW S, \A a, b \in S : a = b
  PROVE  \/ S = {} /\ SetToSeq(S) = <<>>
         \/ \E x : S = {x} /\ SetToSeq(S) = <<x>>
<1>1. CASE S = {}
  <2>1. Cardinality(S) = 0
    BY <1>1, FS_EmptySet
  <2>2. PICK e : e = <<>>
    OBVIOUS
  <2>3. e \in [1 .. Cardinality(S) -> S] /\ IsInjective(e)
    BY <1>1, <2>1, <2>2 DEF IsInjective
  <2>4. SetToSeq(S) \in [1 .. Cardinality(S) -> S]
    BY <2>3 DEF SetToSeq
  <2>5. SetToSeq(S) = <<>>
    BY <1>1, <2>1, <2>4
  <2> QED BY <1>1, <2>5
<1>2. CASE S # {}
  <2>1. PICK x \in S : TRUE
    BY <1>2
  <2>2. S = {x}
    BY <2>1
  <2>3. Cardinality(S) = 1
    BY <2>2, FS_Singleton
  <2>4. PICK e : e = <<x>>
    OBVIOUS
  <2>5. e \in [1 .. Cardinality(S) -> S] /\ IsInjective(e)
    BY <2>2, <2>3, <2>4 DEF IsInjective
  <2>6. SetToSeq(S) \in [1 .. Cardinality(S) -> S]
    BY <2>5 DEF SetToSeq
  <2>7. SetToSeq(S) = <<x>>
    BY <2>2, <2>3, <2>6
  <2> QED BY <2>2, <2>7
<1> QED BY <1>1, <1>2

(* What a subscription does to the control lane: a frame that is partly     *)
(* written is the first one, and its cancellation goes ahead of all.        *)
LEMMA SubscribeShape ==
  ASSUME LanesInv, Subscribe
  PROVE  \/ /\ control' = control /\ queuedBytes' = queuedBytes - Discarded
            /\ \A id \in FramesIn(bulk) : nextIndex[id] = 0
         \/ \E x \in FramesIn(bulk) :
              /\ nextIndex[x] > 0 /\ queuedBytes' = queuedBytes - Discarded + 1
              /\ \A id \in FramesIn(bulk) : nextIndex[id] = 0 \/ id = x
              /\ control' \in Seq(Part) /\ DOMAIN control' = 1 .. Len(control) + 1
              /\ control'[1] = Cancellation(x)
              /\ \A i \in DOMAIN control : control'[i + 1] = control[i]
<1>1. PICK S : S = {id \in FramesIn(bulk) : nextIndex[id] > 0}
  OBVIOUS
<1>2. PICK ids : ids = SetToSeq(S)
  OBVIOUS
<1>3. /\ control' = [i \in 1 .. Len(ids) |-> Cancellation(ids[i])] \o control
      /\ queuedBytes' = queuedBytes - Discarded + Len(ids)
  BY <1>1, <1>2 DEF Subscribe, CancellationIds, StaleFrames
<1>4. ASSUME NEW a \in S, NEW b \in S
      PROVE  a = b
  <2>1. ASSUME NEW id \in S
        PROVE  1 \in DOMAIN bulk /\ id \in FramesOf(bulk[1])
    <3>1. PICK i \in DOMAIN bulk : id \in FramesOf(bulk[i])
      BY <1>1, InLane
    <3>2. DOMAIN bulk = 1 .. Len(bulk) /\ Len(bulk) \in Nat
      BY BulkItems
    <3>3. ~(i > 1)
      BY <1>1, <3>1 DEF LanesInv, BulkIsOrdered
    <3>4. i = 1
      BY <3>2, <3>3
    <3> QED BY <3>1, <3>4
  <2> QED BY <2>1 DEF LanesInv, BulkIsOrdered
<1>5. ASSUME NEW id \in FramesIn(bulk)
      PROVE  id \in Id /\ nextIndex[id] \in Nat
  BY LiveIsHeld DEF LiveFrames
<1>6. control \in Seq(Part) /\ Len(control) \in Nat /\ DOMAIN control = 1 .. Len(control)
  BY DEF LanesInv, LaneTypes
<1>7. queuedBytes \in Int /\ Discarded = Discarded
  BY DEF LanesInv, LaneTypes
<1>8. CASE S = {} /\ ids = <<>>
  <2>1. Len(ids) = 0
    BY <1>8
  <2>2. [i \in 1 .. Len(ids) |-> Cancellation(ids[i])] = <<>>
    BY <2>1
  <2>3. control' = control
    BY <1>3, <1>6, <2>2
  <2>4. \A id \in FramesIn(bulk) : nextIndex[id] = 0
    BY <1>1, <1>5, <1>8
  <2>5. Discarded \in Int
    <3>1. FramesIn(bulk) \in SUBSET Id
      BY <1>5
    <3> QED BY <3>1, UnsentIsFinite DEF Discarded, StaleFrames
  <2>6. queuedBytes' = queuedBytes - Discarded
    BY <1>3, <1>7, <2>1, <2>5
  <2> QED BY <2>3, <2>4, <2>6
<1>9. ASSUME NEW x, S = {x}, ids = <<x>>
      PROVE  \E y \in FramesIn(bulk) :
              /\ nextIndex[y] > 0 /\ queuedBytes' = queuedBytes - Discarded + 1
              /\ \A id \in FramesIn(bulk) : nextIndex[id] = 0 \/ id = y
              /\ control' \in Seq(Part) /\ DOMAIN control' = 1 .. Len(control) + 1
              /\ control'[1] = Cancellation(y)
              /\ \A i \in DOMAIN control : control'[i + 1] = control[i]
  <2>1. Len(ids) = 1 /\ ids[1] = x
    BY <1>9
  <2>2. PICK c : c = Cancellation(x)
    OBVIOUS
  <2>3. [i \in 1 .. Len(ids) |-> Cancellation(ids[i])] = <<c>>
    BY <2>1, <2>2
  <2>4. x \in FramesIn(bulk) /\ nextIndex[x] > 0 /\ \A id \in FramesIn(bulk) : nextIndex[id] = 0 \/ id = x
    BY <1>1, <1>5, <1>9
  <2>5. c \in Part
    BY <1>5, <2>2, <2>4 DEF Cancellation, Part
  <2>6. control' = <<c>> \o control
    BY <1>3, <2>3
  <2>7. /\ control' \in Seq(Part) /\ DOMAIN control' = 1 .. Len(control) + 1 /\ control'[1] = c
        /\ \A i \in 1 .. Len(control) : control'[i + 1] = control[i]
    BY <1>6, <2>5, <2>6
  <2> QED BY <1>3, <1>6, <2>1, <2>2, <2>4, <2>7
<1> QED BY <1>2, <1>4, <1>8, <1>9, OneToSeq

(* A subscription drops the bulk lane.                                      *)
LEMMA SubscribeKeeps ==
  ASSUME LanesInv, Subscribe
  PROVE  /\ QuietStep /\ LaneTypes' /\ ControlIsOrdered' /\ BulkIsOrdered' /\ PayloadsFit'
         /\ LiveFrames' = FramesIn(control)
<1>1. /\ bulk' = <<>> /\ dropped' = dropped \cup FramesIn(bulk)
      /\ pushing' \in 0 .. MaxFrames - nextFrameId
      /\ made' = made /\ nextIndex' = nextIndex /\ wire' = wire /\ pending' = pending
      /\ delivered' = delivered /\ queued' = queued /\ overflow' = overflow
  BY DEF Subscribe, Kept, StaleFrames, receiverVars
<1>0. flushing' = TRUE /\ open' = open /\ broken' = broken /\ open
  BY DEF Subscribe, Idle, receiverVars
<1>2. DOMAIN bulk' = {}
  BY <1>1
<1>3. /\ control \in Seq(Part) /\ DOMAIN control = 1 .. Len(control) /\ Len(control) \in Nat
      /\ queuedBytes \in Int
  BY DEF LanesInv, LaneTypes
<1>4. ASSUME NEW id \in FramesIn(bulk)
      PROVE  /\ id \in LiveFrames /\ id \notin FramesIn(control) /\ ~IsControl(id)
             /\ id \in Id /\ id \notin dropped /\ id \in 1 .. nextFrameId
  <2>1. id \in LiveFrames
    BY DEF LiveFrames
  <2>2. PICK i \in DOMAIN bulk : id \in FramesOf(bulk[i])
    BY InLane
  <2>3. ~IsControl(id)
    BY <2>2 DEF LanesInv, BulkIsOrdered
  <2>4. ASSUME id \in FramesIn(control)
        PROVE  FALSE
    <3>1. PICK j \in DOMAIN control : id \in FramesOf(control[j])
      BY <2>4, InLane
    <3>2. IsControl(id)
      BY <3>1, ControlItems DEF Part
    <3> QED BY <2>3, <3>2
  <2> QED BY <2>1, <2>3, <2>4, LiveIsHeld
<1>5. PICK new \in SUBSET FramesIn(bulk) :
        /\ \A id \in FramesIn(bulk) : nextIndex[id] = 0 \/ id \in new
        /\ control' \in Seq(Part)
        /\ \/ new = {} /\ control' = control
           \/ \E x : /\ new = {x} /\ DOMAIN control' = 1 .. Len(control) + 1
                     /\ control'[1] = Cancellation(x)
                     /\ \A i \in DOMAIN control : control'[i + 1] = control[i]
  <2>1. CASE control' = control /\ \A id \in FramesIn(bulk) : nextIndex[id] = 0
    <3>1. {} \in SUBSET FramesIn(bulk) /\ control' \in Seq(Part)
      BY <1>3, <2>1
    <3> QED BY <2>1, <3>1
  <2>2. ASSUME NEW x \in FramesIn(bulk),
               \A id \in FramesIn(bulk) : nextIndex[id] = 0 \/ id = x,
               control' \in Seq(Part), DOMAIN control' = 1 .. Len(control) + 1,
               control'[1] = Cancellation(x),
               \A i \in DOMAIN control : control'[i + 1] = control[i]
        PROVE  \E n \in SUBSET FramesIn(bulk) :
                 /\ \A id \in FramesIn(bulk) : nextIndex[id] = 0 \/ id \in n
                 /\ control' \in Seq(Part)
                 /\ \E y : /\ n = {y} /\ DOMAIN control' = 1 .. Len(control) + 1
                           /\ control'[1] = Cancellation(y)
                           /\ \A i \in DOMAIN control : control'[i + 1] = control[i]
    <3>1. {x} \in SUBSET FramesIn(bulk) /\ \A id \in FramesIn(bulk) : nextIndex[id] = 0 \/ id \in {x}
      BY <2>2
    <3> QED BY <2>2, <3>1
  <2> QED BY <2>1, <2>2, SubscribeShape
<1>6. ASSUME NEW i \in DOMAIN control'
      PROVE  \/ \E j \in DOMAIN control : control'[i] = control[j] /\ (new = {} => i = j) /\ (new # {} => i = j + 1)
             \/ i = 1 /\ new # {} /\ \E x \in new : new = {x} /\ control'[i] = Cancellation(x)
  <2>1. CASE new = {}
    BY <1>5, <2>1
  <2>2. CASE new # {}
    <3>1. PICK x : /\ new = {x} /\ DOMAIN control' = 1 .. Len(control) + 1
                   /\ control'[1] = Cancellation(x)
                   /\ \A k \in DOMAIN control : control'[k + 1] = control[k]
      BY <1>5, <2>2
    <3>2. CASE i = 1
      BY <2>2, <3>1, <3>2
    <3>3. CASE i # 1
      <4>1. i - 1 \in DOMAIN control /\ i = (i - 1) + 1
        BY <1>3, <3>1, <3>3
      <4>2. control'[i] = control[i - 1]
        BY <3>1, <4>1
      <4> QED BY <2>2, <4>1, <4>2
    <3> QED BY <3>2, <3>3
  <2> QED BY <2>1, <2>2
<1>7. ASSUME NEW j \in DOMAIN control
      PROVE  \E i \in DOMAIN control' : control'[i] = control[j]
  <2>1. CASE new = {}
    BY <1>5, <2>1
  <2>2. CASE new # {}
    <3>1. j + 1 \in 1 .. Len(control) + 1
      BY <1>3
    <3> QED BY <1>5, <2>2, <3>1
  <2> QED BY <2>1, <2>2
<1>8. ASSUME NEW x \in new
      PROVE  x \in Cancelling' /\ FramesOf(Cancellation(x)) = {}
  <2>1. \E i \in DOMAIN control' : control'[i] = Cancellation(x)
    <3>1. DOMAIN control' = 1 .. Len(control) + 1 /\ control'[1] = Cancellation(x)
      BY <1>5
    <3>2. 1 \in 1 .. Len(control) + 1
      BY <1>3
    <3> QED BY <3>1, <3>2
  <2>2. Cancellation(x).kind = "cancel"
    BY DEF Cancellation
  <2> QED BY <1>4, <2>1, <2>2, HeldByItems DEF Cancelling
<1>9. FramesIn(control') = FramesIn(control)
  <2>1. ASSUME NEW id
        PROVE  id \in FramesIn(control') <=> id \in FramesIn(control)
    <3>1. id \in FramesIn(control) => id \in FramesIn(control')
      BY <1>7, InLane
    <3>2. id \in FramesIn(control') => id \in FramesIn(control)
      BY <1>6, <1>8, InLane
    <3> QED BY <3>1, <3>2
  <2> QED BY <2>1
<1>10. LiveFrames' = FramesIn(control)
  BY <1>1, <1>9, EmptyLane DEF LiveFrames
<1>11. nextFrameId' = nextFrameId /\ nextFrameId \in Nat /\ MaxFrames \in Nat
  BY <1>1, MadeFacts DEF nextFrameId
<1>12. LaneTypes'
  <2>1. LaneTypes
    BY DEF LanesInv
  <2>2. broken' \in BOOLEAN /\ open' \in BOOLEAN /\ flushing' \in BOOLEAN
    BY <1>0, <2>1 DEF LaneTypes
  <2>3. dropped' \subseteq Id
    BY <1>1, <1>4, <2>1 DEF LaneTypes
  <2>4. queued' \in Nat /\ overflow' \in {"none", "itself", "others"}
    BY <1>1, <2>1 DEF LaneTypes
  <2>5. LiveFrames' \subseteq LiveFrames
    BY <1>10 DEF LiveFrames
  <2>6. pushing' \in 0 .. MaxFrames
    BY <1>1, <1>11
  <2>7. bulk' \in Seq(Part \cup OutgoingSequence)
    BY <1>1
  <2>8. queuedBytes' \in Int
    <3>1. FramesIn(bulk) \in SUBSET Id
      BY <1>4
    <3>2. Discarded \in Nat
      BY <3>1, UnsentIsFinite DEF Discarded, StaleFrames
    <3> QED BY <1>3, <3>2, SubscribeShape
  <2>9. control' \in Seq(Part)
    BY <1>5
  <2> QED BY <1>1, <2>2, <2>3, <2>4, <2>5, <2>6, <2>7, <2>8, <2>9, TypesSame
<1>13. ControlIsOrdered
  BY DEF LanesInv
<1>14. ControlIsOrdered'
  <2>1. ASSUME NEW i \in DOMAIN control'
        PROVE  IF control'[i].kind = "cancel" THEN control'[i].id \in dropped' ELSE IsControl(control'[i].id)
    <3>1. ASSUME NEW j \in DOMAIN control, control'[i] = control[j]
          PROVE  IF control'[i].kind = "cancel" THEN control'[i].id \in dropped' ELSE IsControl(control'[i].id)
      BY <1>1, <1>13, <3>1 DEF ControlIsOrdered
    <3>2. ASSUME NEW x \in new, control'[i] = Cancellation(x)
          PROVE  IF control'[i].kind = "cancel" THEN control'[i].id \in dropped' ELSE IsControl(control'[i].id)
      BY <1>1, <3>2 DEF Cancellation
    <3> QED BY <1>6, <3>1, <3>2
  <2>2. ASSUME NEW i \in DOMAIN control', NEW j \in DOMAIN control', i < j
        PROVE  \E l \in DOMAIN control :
                 /\ control'[j] = control[l]
                 /\ \/ \E k \in DOMAIN control : k < l /\ control'[i] = control[k]
                    \/ \E x \in new : control'[i] = Cancellation(x)
    <3>1. PICK l \in DOMAIN control : control'[j] = control[l] /\ (new = {} => j = l) /\ (new # {} => j = l + 1)
      <4>1. ~(j = 1)
        BY <1>3, <1>6, <2>2
      <4> QED BY <1>6, <4>1
    <3>2. CASE \E k \in DOMAIN control : control'[i] = control[k] /\ (new = {} => i = k) /\ (new # {} => i = k + 1)
      <4>1. PICK k \in DOMAIN control : control'[i] = control[k] /\ (new = {} => i = k) /\ (new # {} => i = k + 1)
        BY <3>2
      <4>2. k < l
        BY <1>3, <2>2, <3>1, <4>1
      <4> QED BY <3>1, <4>1, <4>2
    <3>3. CASE \E x \in new : control'[i] = Cancellation(x)
      BY <3>1, <3>3
    <3> QED BY <1>6, <3>2, <3>3
  <2>3. ASSUME NEW i \in DOMAIN control', NEW j \in DOMAIN control', i < j,
               control'[i].kind = "cancel", control'[j].kind = "cancel"
        PROVE  control'[i].id # control'[j].id
    <3>1. PICK l \in DOMAIN control :
                 /\ control'[j] = control[l]
                 /\ \/ \E k \in DOMAIN control : k < l /\ control'[i] = control[k]
                    \/ \E x \in new : control'[i] = Cancellation(x)
      BY <2>2, <2>3
    <3>2. CASE \E k \in DOMAIN control : k < l /\ control'[i] = control[k]
      BY <1>13, <2>3, <3>1, <3>2 DEF ControlIsOrdered
    <3>3. CASE \E x \in new : control'[i] = Cancellation(x)
      <4>1. control'[j].id \in dropped
        BY <1>13, <2>3, <3>1 DEF ControlIsOrdered
      <4>2. control'[i].id \notin dropped
        BY <1>4, <3>3 DEF Cancellation
      <4> QED BY <4>1, <4>2
    <3> QED BY <3>1, <3>2, <3>3
  <2>4. ASSUME NEW i \in DOMAIN control', NEW j \in DOMAIN control', i < j,
               control'[i].kind = "frame", control'[j].kind = "frame"
        PROVE  made[control'[i].id].rank < made[control'[j].id].rank /\ nextIndex[control'[j].id] = 0
    <3>1. PICK l \in DOMAIN control :
                 /\ control'[j] = control[l]
                 /\ \/ \E k \in DOMAIN control : k < l /\ control'[i] = control[k]
                    \/ \E x \in new : control'[i] = Cancellation(x)
      BY <2>2, <2>4
    <3>2. CASE \E k \in DOMAIN control : k < l /\ control'[i] = control[k]
      BY <1>13, <2>4, <3>1, <3>2 DEF ControlIsOrdered
    <3>3. CASE \E x \in new : control'[i] = Cancellation(x)
      BY <2>4, <3>3 DEF Cancellation
    <3> QED BY <3>1, <3>2, <3>3
  <2> QED BY <1>1, <2>1, <2>3, <2>4 DEF ControlIsOrdered, IsControl
<1>15. BulkIsOrdered'
  BY <1>2 DEF BulkIsOrdered
<1>16. PayloadsFit'
  <2>0. pushing' \in 0 .. MaxFrames - nextFrameId
    BY <1>1
  <2>1. nextFrameId' + pushing' <= MaxFrames
    <3>1. PICK a \in Nat : a = nextFrameId
      BY <1>11
    <3>2. PICK p \in 0 .. MaxFrames - a : p = pushing'
      BY <2>0, <3>1
    <3>3. a + p <= MaxFrames
      BY <1>11
    <3> QED BY <1>11, <3>1, <3>2, <3>3
  <2> QED BY <1>0, <1>2, <2>1 DEF PayloadsFit
<1>17. QuietStep
  <2>1. UNCHANGED <<nextIndex, wire, pending, broken, delivered>>
    BY <1>0, <1>1
  <2>2. queued <= queued' /\ (open' => open)
    BY <1>0, <1>1, MadeFacts
  <2>3. Cancelling \subseteq Cancelling'
    BY <1>7 DEF Cancelling
  <2>4. \A id \in LiveFrames : id \in LiveFrames' \/ nextIndex[id] = 0 \/ id \in Cancelling'
    <3>1. \A id \in FramesIn(bulk) : nextIndex[id] = 0 \/ id \in Cancelling'
      BY <1>5, <1>8
    <3> QED BY <1>10, <3>1 DEF LiveFrames
  <2>5. \A id \in dropped' : id \in dropped \/ (id \in LiveFrames /\ id \notin LiveFrames' /\ ~IsControl(id))
    BY <1>1, <1>4, <1>10
  <2>6. \A id \in LiveFrames' : id \in LiveFrames
    BY <1>10 DEF LiveFrames
  <2>7. made' = made /\ dropped \subseteq dropped'
    BY <1>1
  <2>8. nextFrameId + 1 .. nextFrameId' = {} /\ nextFrameId <= nextFrameId'
    BY <1>11
  <2> QED BY <1>2, <2>1, <2>2, <2>3, <2>4, <2>5, <2>6, <2>7, <2>8 DEF QuietStep
<1> QED BY <1>10, <1>12, <1>14, <1>15, <1>16, <1>17

-------------------------------------------------------------------------------
(* The first item of the bulk lane leaves it, or changes in its place.      *)
LEMMA BulkTail ==
  ASSUME LanesInv, bulk # <<>>, bulk' = Tail(bulk), made' = made, queued' = queued,
         \A i \in DOMAIN bulk : i > 1 => \A id \in FramesOf(bulk[i]) : nextIndex'[id] = nextIndex[id]
  PROVE  /\ BulkIsOrdered'
         /\ bulk' \in Seq(Part \cup OutgoingSequence)
         /\ DOMAIN bulk' = 1 .. Len(bulk) - 1 /\ Len(bulk) \in Nat \ {0} /\ DOMAIN bulk = 1 .. Len(bulk)
         /\ \A i \in DOMAIN bulk' : i + 1 \in DOMAIN bulk /\ bulk'[i] = bulk[i + 1]
         /\ FramesIn(bulk) = FramesOf(bulk[1]) \cup FramesIn(bulk')
         /\ FramesOf(bulk[1]) \cap FramesIn(bulk') = {}
<1>1. bulk \in Seq(Part \cup OutgoingSequence)
  BY DEF LanesInv, LaneTypes
<1>t. PICK T : T = Part \cup OutgoingSequence
  OBVIOUS
<1>r. PICK r : r = Tail(bulk)
  OBVIOUS
<1>2. bulk \in Seq(T) /\ r \in Seq(T)
  BY <1>1, <1>t, <1>r
<1>3. /\ DOMAIN r = 1 .. Len(bulk) - 1 /\ Len(bulk) \in Nat \ {0} /\ DOMAIN bulk = 1 .. Len(bulk)
      /\ \A i \in DOMAIN r : r[i] = bulk[i + 1]
  BY <1>2, <1>r
<1>4. \A i \in DOMAIN r : i + 1 \in DOMAIN bulk /\ i + 1 > 1
  BY <1>3
<1>5. FramesIn(bulk) = FramesOf(bulk[1]) \cup FramesIn(r)
  BY <1>2, <1>r, LaneTail
<1>6. BulkIsOrdered
  BY DEF LanesInv
<1>7. ASSUME NEW id \in FramesOf(bulk[1]), id \in FramesIn(r)
      PROVE  FALSE
  <2>1. PICK i \in DOMAIN r : id \in FramesOf(r[i])
    BY <1>7, InLane
  <2>2. i + 1 \in DOMAIN bulk /\ 1 \in DOMAIN bulk /\ 1 < i + 1 /\ r[i] = bulk[i + 1]
    BY <1>3, <1>4
  <2>3. RankOf(bulk[1]) < RankOf(bulk[i + 1]) /\ RankOf(bulk[1]) \in Nat /\ RankOf(bulk[i + 1]) \in Nat
    BY <1>6, <2>2, BulkItems DEF BulkIsOrdered
  <2>4. made[id].rank = RankOf(bulk[1]) /\ made[id].rank = RankOf(bulk[i + 1])
    BY <1>6, <1>7, <2>1, <2>2 DEF BulkIsOrdered
  <2> QED BY <2>3, <2>4
<1>8. BulkIsOrdered'
  <2>1. bulk' = r
    BY <1>r
  <2>2. \A i \in DOMAIN r : r[i].kind # "cancel" /\ RankOf(r[i]) <= queued
    BY <1>3, <1>4, <1>6 DEF BulkIsOrdered
  <2>3. ASSUME NEW i \in DOMAIN r, NEW id \in FramesOf(r[i])
        PROVE  ~IsControl(id) /\ made[id].rank = RankOf(r[i]) /\ nextIndex'[id] = 0
    <3>1. i + 1 \in DOMAIN bulk /\ i + 1 > 1 /\ r[i] = bulk[i + 1]
      BY <1>3, <1>4
    <3>2. ~IsControl(id) /\ made[id].rank = RankOf(bulk[i + 1]) /\ nextIndex[id] = 0
      BY <1>6, <2>3, <3>1 DEF BulkIsOrdered
    <3>3. nextIndex'[id] = nextIndex[id]
      BY <2>3, <3>1
    <3> QED BY <3>1, <3>2, <3>3
  <2>4. ASSUME NEW i \in DOMAIN r, NEW id \in FramesOf(r[i]), NEW e \in FramesOf(r[i])
        PROVE  id = e
    BY <1>3, <1>4, <1>6, <2>4 DEF BulkIsOrdered
  <2>5. ASSUME NEW i \in DOMAIN r, NEW j \in DOMAIN r, i < j
        PROVE  RankOf(r[i]) < RankOf(r[j])
    <3>1. i + 1 \in DOMAIN bulk /\ j + 1 \in DOMAIN bulk /\ i + 1 < j + 1
      BY <1>3, <1>4, <2>5
    <3> QED BY <1>3, <1>6, <3>1 DEF BulkIsOrdered
  <2> QED BY <2>1, <2>2, <2>3, <2>4, <2>5 DEF BulkIsOrdered, RankOf, IsControl
<1>9. bulk' \in Seq(Part \cup OutgoingSequence)
  BY <1>2, <1>t, <1>r
<1> QED BY <1>r, <1>3, <1>4, <1>5, <1>7, <1>8, <1>9

(* The first item of the bulk lane changes in place.                        *)
LEMMA BulkFirst ==
  ASSUME LanesInv, bulk # <<>>, DOMAIN bulk' = DOMAIN bulk, queued' = queued,
         bulk' \in Seq(Part \cup OutgoingSequence),
         \A id \in 1 .. nextFrameId : made'[id] = made[id],
         \A i \in DOMAIN bulk : i # 1 => bulk'[i] = bulk[i],
         \A i \in DOMAIN bulk : i > 1 => \A id \in FramesOf(bulk[i]) : nextIndex'[id] = nextIndex[id],
         bulk'[1].kind = bulk[1].kind,
         bulk[1].kind = "frame" => bulk'[1].id = bulk[1].id,
         bulk[1].kind = "sequence" => bulk'[1].rank = bulk[1].rank,
         \A id \in FramesOf(bulk'[1]) : made'[id].purpose # "control" /\ made'[id].rank = RankOf(bulk[1]),
         \A id, e \in FramesOf(bulk'[1]) : id = e
  PROVE  /\ BulkIsOrdered'
         /\ FramesIn(bulk) \subseteq FramesOf(bulk[1]) \cup FramesIn(bulk')
         /\ FramesIn(bulk') \subseteq FramesOf(bulk'[1]) \cup FramesIn(bulk)
         /\ 1 \in DOMAIN bulk
<1>1. bulk \in Seq(Part \cup OutgoingSequence) /\ BulkIsOrdered
  BY DEF LanesInv, LaneTypes
<1>2. /\ FramesIn(bulk) \subseteq FramesOf(bulk[1]) \cup FramesIn(bulk')
      /\ FramesIn(bulk') \subseteq FramesOf(bulk'[1]) \cup FramesIn(bulk)
  BY <1>1, LaneFirst
<1>3. DOMAIN bulk = 1 .. Len(bulk) /\ Len(bulk) \in Nat \ {0} /\ 1 \in DOMAIN bulk
  BY <1>1
<1>4. ASSUME NEW i \in DOMAIN bulk
      PROVE  (IF bulk'[i].kind = "sequence" THEN bulk'[i].rank ELSE made'[bulk'[i].id].rank) = RankOf(bulk[i])
  <2>1. bulk[i].kind \in {"frame", "sequence"} /\ (bulk[i].kind = "frame" => bulk[i].id \in 1 .. nextFrameId)
    BY BulkItems, LiveIsHeld
  <2>2. bulk'[i].kind = bulk[i].kind
    BY <1>3
  <2>3. CASE bulk[i].kind = "sequence"
    <3>1. bulk'[i].rank = bulk[i].rank
      BY <2>3
    <3> QED BY <2>2, <2>3, <3>1 DEF RankOf
  <2>4. CASE bulk[i].kind = "frame"
    <3>1. bulk'[i].id = bulk[i].id
      BY <2>4
    <3>2. made'[bulk[i].id] = made[bulk[i].id]
      BY <2>1, <2>4
    <3> QED BY <2>2, <2>4, <3>1, <3>2 DEF RankOf
  <2> QED BY <2>1, <2>3, <2>4
<1>5. ASSUME NEW i \in DOMAIN bulk
      PROVE  bulk'[i].kind # "cancel" /\ RankOf(bulk[i]) <= queued'
  <2>1. bulk'[i].kind = bulk[i].kind
    BY <1>3
  <2> QED BY <1>1, <2>1 DEF BulkIsOrdered
<1>6. ASSUME NEW i \in DOMAIN bulk, NEW id \in FramesOf(bulk'[i])
      PROVE  /\ made'[id].purpose # "control" /\ made'[id].rank = RankOf(bulk[i])
             /\ i > 1 => nextIndex'[id] = 0
  <2>1. CASE i = 1
    BY <1>6, <2>1
  <2>2. CASE i # 1
    <3>1. bulk'[i] = bulk[i] /\ i > 1
      BY <1>3, <2>2
    <3>2. id \in 1 .. nextFrameId
      BY <1>6, <3>1, BulkItems, LiveIsHeld
    <3>3. made'[id] = made[id] /\ nextIndex'[id] = nextIndex[id]
      BY <1>6, <3>1, <3>2
    <3>4. ~IsControl(id) /\ made[id].rank = RankOf(bulk[i]) /\ nextIndex[id] = 0
      BY <1>1, <1>6, <3>1 DEF BulkIsOrdered
    <3> QED BY <3>3, <3>4 DEF IsControl
  <2> QED BY <2>1, <2>2
<1>7. ASSUME NEW i \in DOMAIN bulk, NEW id \in FramesOf(bulk'[i]), NEW e \in FramesOf(bulk'[i])
      PROVE  id = e
  <2>1. CASE i = 1
    BY <1>7, <2>1
  <2>2. CASE i # 1
    BY <1>1, <1>7, <2>2 DEF BulkIsOrdered
  <2> QED BY <2>1, <2>2
<1>8. ASSUME NEW i \in DOMAIN bulk, NEW j \in DOMAIN bulk, i < j
      PROVE  RankOf(bulk[i]) < RankOf(bulk[j])
  BY <1>1, <1>8 DEF BulkIsOrdered
<1>9. BulkIsOrdered'
  BY <1>4, <1>5, <1>6, <1>7, <1>8 DEF BulkIsOrdered, RankOf, IsControl
<1> QED BY <1>2, <1>3, <1>9

(* So for the control lane, from which the first item may leave.            *)
LEMMA ControlFirst ==
  ASSUME LanesInv, control # <<>>, control' = control \/ control' = Tail(control),
         made' = made, dropped' = dropped,
         \A i \in DOMAIN control : i > 1 => nextIndex'[control[i].id] = nextIndex[control[i].id]
  PROVE  ControlIsOrdered' /\ control' \in Seq(Part)
<1>1. control \in Seq(Part) /\ ControlIsOrdered
  BY DEF LanesInv, LaneTypes
<1>2. DOMAIN control = 1 .. Len(control) /\ Len(control) \in Nat \ {0}
  BY <1>1
<1>3. PICK d \in {0, 1} : /\ \A i \in DOMAIN control' : i + d \in DOMAIN control /\ control'[i] = control[i + d]
                          /\ DOMAIN control' \subseteq Nat \ {0} /\ control' \in Seq(Part)
  <2>1. CASE control' = control
    <3>1. \A i \in DOMAIN control' : i + 0 \in DOMAIN control /\ control'[i] = control[i + 0]
      BY <1>2, <2>1
    <3>2. DOMAIN control' \subseteq Nat \ {0} /\ control' \in Seq(Part)
      BY <1>1, <1>2, <2>1
    <3> QED BY <3>1, <3>2
  <2>2. CASE control' = Tail(control)
    <3>1. DOMAIN control' = 1 .. Len(control) - 1 /\ \A i \in DOMAIN control' : control'[i] = control[i + 1]
      BY <1>1, <1>2, <2>2
    <3>2. \A i \in DOMAIN control' : i + 1 \in DOMAIN control
      BY <1>2, <3>1
    <3>3. control' \in Seq(Part)
      BY <1>1, <2>2
    <3>4. DOMAIN control' \subseteq Nat \ {0}
      BY <1>2, <3>1
    <3> QED BY <3>1, <3>2, <3>3, <3>4
  <2> QED BY <2>1, <2>2
<1>4. ASSUME NEW i \in DOMAIN control'
      PROVE  IF control'[i].kind = "cancel" THEN control'[i].id \in dropped ELSE IsControl(control'[i].id)
  BY <1>1, <1>3 DEF ControlIsOrdered
<1>5. ASSUME NEW i \in DOMAIN control', NEW j \in DOMAIN control', i < j
      PROVE  /\ i + d \in DOMAIN control /\ j + d \in DOMAIN control /\ i + d < j + d /\ j + d > 1
             /\ control'[i] = control[i + d] /\ control'[j] = control[j + d]
  <2>1. i \in Nat \ {0} /\ j \in Nat \ {0}
    BY <1>3
  <2>2. i + d < j + d /\ j + d > 1
    BY <1>5, <2>1
  <2> QED BY <1>3, <2>2
<1>6. ASSUME NEW i \in DOMAIN control', NEW j \in DOMAIN control', i < j,
             control'[i].kind = "cancel", control'[j].kind = "cancel"
      PROVE  control'[i].id # control'[j].id
  BY <1>1, <1>5, <1>6 DEF ControlIsOrdered
<1>7. ASSUME NEW i \in DOMAIN control', NEW j \in DOMAIN control', i < j,
             control'[i].kind = "frame", control'[j].kind = "frame"
      PROVE  made[control'[i].id].rank < made[control'[j].id].rank /\ nextIndex'[control'[j].id] = 0
  <2>1. made[control'[i].id].rank < made[control'[j].id].rank /\ nextIndex[control'[j].id] = 0
    <3>1. PICK a, b \in DOMAIN control : a < b /\ control'[i] = control[a] /\ control'[j] = control[b]
      BY <1>5, <1>7
    <3>2. made[control[a].id].rank < made[control[b].id].rank /\ nextIndex[control[b].id] = 0
      BY <1>1, <1>7, <3>1 DEF ControlIsOrdered
    <3> QED BY <3>1, <3>2
  <2>2. nextIndex'[control'[j].id] = nextIndex[control'[j].id]
    BY <1>5, <1>7
  <2> QED BY <2>1, <2>2
<1>8. ControlIsOrdered'
  BY <1>4, <1>6, <1>7 DEF ControlIsOrdered, IsControl
<1> QED BY <1>3, <1>8

-------------------------------------------------------------------------------
(* New frames leave the control lane as it is.                              *)
LEMMA ControlKept ==
  ASSUME LanesInv, control' = control, nextIndex' = nextIndex, dropped' = dropped,
         \A id \in 1 .. nextFrameId : made'[id] = made[id]
  PROVE  ControlIsOrdered'
<1>1. ControlIsOrdered
  BY DEF LanesInv
<1>2. ASSUME NEW i \in DOMAIN control
      PROVE  /\ control[i].kind \in {"frame", "cancel"}
             /\ control[i].kind = "frame" => made'[control[i].id] = made[control[i].id] /\ IsControl(control[i].id)
  BY ControlItems, LiveIsHeld DEF Part
<1>3. ASSUME NEW i \in DOMAIN control
      PROVE  IF control[i].kind = "cancel" THEN control[i].id \in dropped'
                                           ELSE made'[control[i].id].purpose = "control"
  BY <1>1, <1>2 DEF ControlIsOrdered, IsControl
<1>4. ASSUME NEW i \in DOMAIN control, NEW j \in DOMAIN control, i < j,
             control[i].kind = "frame", control[j].kind = "frame"
      PROVE  made'[control[i].id].rank < made'[control[j].id].rank /\ nextIndex'[control[j].id] = 0
  <2>1. made[control[i].id].rank < made[control[j].id].rank /\ nextIndex[control[j].id] = 0
    BY <1>1, <1>4 DEF ControlIsOrdered
  <2> QED BY <1>2, <1>4, <2>1
<1>5. ASSUME NEW i \in DOMAIN control, NEW j \in DOMAIN control, i < j,
             control[i].kind = "cancel", control[j].kind = "cancel"
      PROVE  control[i].id # control[j].id
  BY <1>1, <1>5 DEF ControlIsOrdered
<1> QED BY <1>3, <1>4, <1>5 DEF ControlIsOrdered, IsControl

(* A sequence with nothing left gives up its place.                         *)
LEMMA EndsKeeps ==
  ASSUME LanesInv, BulkIsNext, Head(bulk).kind = "sequence", Head(bulk).current = {}, SequenceEnds
  PROVE  QuietStep /\ LaneTypes' /\ ControlIsOrdered' /\ BulkIsOrdered' /\ PayloadsFit' /\ SameQueue
<1>1. /\ bulk' = Tail(bulk) /\ bulk # <<>>
      /\ made' = made /\ nextIndex' = nextIndex /\ control' = control /\ queuedBytes' = queuedBytes
      /\ pushing' = pushing /\ wire' = wire /\ pending' = pending /\ delivered' = delivered
      /\ dropped' = dropped /\ queued' = queued /\ overflow' = overflow
  BY DEF SequenceEnds, BulkIsNext, receiverVars, historyVars
<1>0. open' = open /\ flushing' = flushing /\ broken' = broken
  BY DEF SequenceEnds, receiverVars
<1>2. /\ BulkIsOrdered'
      /\ bulk' \in Seq(Part \cup OutgoingSequence)
      /\ DOMAIN bulk' = 1 .. Len(bulk) - 1 /\ Len(bulk) \in Nat \ {0} /\ DOMAIN bulk = 1 .. Len(bulk)
      /\ \A i \in DOMAIN bulk' : i + 1 \in DOMAIN bulk /\ bulk'[i] = bulk[i + 1]
      /\ FramesIn(bulk) = FramesOf(bulk[1]) \cup FramesIn(bulk')
  BY <1>1, BulkTail
<1>3. bulk[1].kind = "sequence" /\ bulk[1].current = {}
  BY <1>1
<1>4. FramesIn(bulk') = FramesIn(bulk)
  BY <1>2, <1>3, HeldByItems
<1>5. LiveFrames' = LiveFrames
  BY <1>1, <1>4 DEF LiveFrames
<1>6. LaneTypes'
  <2>1. LaneTypes
    BY DEF LanesInv
  <2>2. broken' \in BOOLEAN /\ open' \in BOOLEAN /\ flushing' \in BOOLEAN
    BY <1>0, <2>1 DEF LaneTypes
  <2>3. control' \in Seq(Part) /\ queuedBytes' \in Int /\ dropped' \subseteq Id
        /\ overflow' \in {"none", "itself", "others"}
    BY <1>1, <2>1 DEF LaneTypes
  <2>4. pushing' \in 0 .. MaxFrames /\ queued' \in Nat
    BY <1>1, <2>1 DEF LaneTypes
  <2> QED BY <1>1, <1>2, <1>5, <2>2, <2>3, <2>4, TypesSame
<1>7. ControlIsOrdered'
  BY <1>1, ControlSame
<1>8. PayloadsFit
  BY DEF LanesInv
<1>9. nextFrameId' = nextFrameId /\ nextFrameId \in Nat /\ queued \in Nat
  BY <1>1, MadeFacts DEF nextFrameId
<1>10. PayloadsFit'
  <2>1. \A i \in DOMAIN bulk' : bulk'[i].kind = "sequence" => pushing' = 0 /\ nextFrameId' + bulk'[i].left <= MaxFrames
    BY <1>1, <1>2, <1>8, <1>9 DEF PayloadsFit
  <2>2. ASSUME NEW i \in DOMAIN bulk', NEW j \in DOMAIN bulk', bulk'[i].kind = "sequence", bulk'[j].kind = "sequence"
        PROVE  i = j
    <3>1. i + 1 = j + 1
      BY <1>2, <1>8, <2>2 DEF PayloadsFit
    <3> QED BY <1>2, <3>1
  <2>3. nextFrameId' + pushing' <= MaxFrames
    BY <1>1, <1>8, <1>9 DEF PayloadsFit
  <2>4. open'
    BY <1>0, <1>1, <1>8 DEF PayloadsFit
  <2> QED BY <2>1, <2>2, <2>3, <2>4 DEF PayloadsFit
<1>11. QuietStep
  <2>1. UNCHANGED <<nextIndex, wire, pending, broken, delivered>>
    BY <1>0, <1>1
  <2>2. nextFrameId' = nextFrameId /\ queued <= queued' /\ (open' => open)
    BY <1>0, <1>1, <1>9
  <2>3. ASSUME NEW i \in DOMAIN bulk', bulk'[i].kind = "sequence"
        PROVE  \E j \in DOMAIN bulk : bulk[j].kind = "sequence" /\ bulk[j].rank = bulk'[i].rank
    BY <1>2, <2>3
  <2>4. Cancelling' = Cancelling
    BY <1>1 DEF Cancelling
  <2>5. made' = made /\ dropped' = dropped
    BY <1>1
  <2>6. nextFrameId + 1 .. nextFrameId' = {} /\ nextFrameId <= nextFrameId'
    BY <1>9
  <2> QED BY <1>5, <2>1, <2>2, <2>3, <2>4, <2>5, <2>6 DEF QuietStep
<1>12. SameQueue
  <2>1. Cancelling' = Cancelling
    BY <1>1 DEF Cancelling
  <2> QED BY <1>1, <1>5, <2>1 DEF SameQueue
<1> QED BY <1>2, <1>6, <1>7, <1>10, <1>11, <1>12

(* The next payload of a sequence becomes its current frame.                *)
LEMMA YieldsShape ==
  ASSUME LanesInv, BulkIsNext, Head(bulk).kind = "sequence", Head(bulk).current = {},
         NEW total \in 1 .. MaxChunks, SequenceYields(total), Fits(total)
  PROVE  \E n \in Id :
           /\ n = nextFrameId + 1 /\ nextFrameId < MaxFrames
           /\ 1 \in DOMAIN bulk /\ bulk[1] \in OutgoingSequence /\ bulk[1].kind = "sequence"
           /\ made' = Append(made, [rank |-> bulk[1].rank, purpose |-> "snapshot", total |-> total])
           /\ [rank |-> bulk[1].rank, purpose |-> "snapshot", total |-> total] \in Content
           /\ bulk' \in Seq(Part \cup OutgoingSequence)
           /\ DOMAIN bulk' = DOMAIN bulk /\ \A i \in DOMAIN bulk : i # 1 => bulk'[i] = bulk[i]
           /\ bulk'[1].kind = "sequence" /\ bulk'[1].rank = bulk[1].rank /\ bulk'[1].current = {n}
           /\ bulk[1].left > 0 /\ bulk'[1].left = bulk[1].left - 1 /\ bulk[1].left \in Nat
           /\ FramesOf(bulk'[1]) = {n} /\ FramesOf(bulk[1]) = {}
           /\ queuedBytes' = queuedBytes + total
<1>1. bulk \in Seq(Part \cup OutgoingSequence) /\ bulk # <<>>
  BY DEF LanesInv, LaneTypes, BulkIsNext
<1>2. DOMAIN bulk = 1 .. Len(bulk) /\ Len(bulk) \in Nat \ {0} /\ 1 \in DOMAIN bulk /\ Head(bulk) = bulk[1]
  BY <1>1
<1>3. bulk[1].kind = "sequence" /\ bulk[1].current = {} /\ bulk[1].left > 0
  BY <1>2 DEF SequenceYields
<1>4. bulk[1] \in OutgoingSequence
  BY <1>2, <1>3, BulkItems
<1>5. bulk[1].left \in 0 .. MaxFrames /\ bulk[1].rank \in Nat
  BY <1>4 DEF OutgoingSequence
<1>6. nextFrameId + bulk[1].left <= MaxFrames
  BY <1>2, <1>3 DEF LanesInv, PayloadsFit
<1>7. nextFrameId \in Nat /\ MaxFrames \in Nat
  BY MadeFacts
<1>8. PICK n : n = nextFrameId + 1
  OBVIOUS
<1>9. n \in Id /\ nextFrameId < MaxFrames
  BY <1>3, <1>5, <1>6, <1>7, <1>8 DEF Id
<1>b. PICK b \in OutgoingSequence : b = bulk[1]
  BY <1>4
<1>10. PICK s : s = [b EXCEPT !.left = b.left - 1, !.current = {n}]
  OBVIOUS
<1>11. s \in OutgoingSequence
  <2>1. b.left - 1 \in 0 .. MaxFrames
    BY <1>3, <1>5, <1>7, <1>b
  <2>2. {n} \in SUBSET Id
    BY <1>9
  <2> QED BY <1>10, <2>1, <2>2 DEF OutgoingSequence
<1>12. bulk' = [bulk EXCEPT ![1].left = @ - 1, ![1].current = {n}]
  BY <1>8 DEF SequenceYields
<1>13. bulk' = [bulk EXCEPT ![1] = s]
  BY <1>2, <1>b, <1>10, <1>12
<1>14. bulk' \in Seq(Part \cup OutgoingSequence)
  <2>1. PICK T : T = Part \cup OutgoingSequence
    OBVIOUS
  <2>2. s \in T /\ bulk \in Seq(T)
    BY <1>1, <1>11, <2>1
  <2>3. bulk' \in Seq(T)
    BY <1>2, <1>13, <2>2, ExceptSeq
  <2> QED BY <2>1, <2>3
<1>15. DOMAIN bulk' = DOMAIN bulk /\ bulk'[1] = s /\ \A i \in DOMAIN bulk : i # 1 => bulk'[i] = bulk[i]
  BY <1>2, <1>13
<1>16. FramesOf(bulk[1]) = {}
  BY <1>3, HeldByItems
<1>17. s.kind = "sequence" /\ s.rank = bulk[1].rank /\ s.left = bulk[1].left - 1 /\ s.current = {n}
  BY <1>3, <1>10, <1>b DEF OutgoingSequence
<1>18. FramesOf(s) = {n}
  BY <1>17, HeldByItems
<1>19. made' = Append(made, [rank |-> bulk[1].rank, purpose |-> "snapshot", total |-> total])
       /\ queuedBytes' = queuedBytes + total
  BY <1>2 DEF SequenceYields, Creates
<1>20. [rank |-> bulk[1].rank, purpose |-> "snapshot", total |-> total] \in Content
  BY <1>5 DEF Content, Purpose
<1> QED BY <1>2, <1>3, <1>4, <1>5, <1>8, <1>9, <1>14, <1>15, <1>16, <1>17, <1>18, <1>19, <1>20

(* A sequence that yields its next frame keeps its place in the lane.       *)
LEMMA YieldsKeeps ==
  ASSUME LanesInv, BulkIsNext, Head(bulk).kind = "sequence", Head(bulk).current = {}, open,
         NEW total \in 1 .. MaxChunks, SequenceYields(total), Fits(total)
  PROVE  QuietStep /\ LaneTypes' /\ ControlIsOrdered' /\ BulkIsOrdered' /\ PayloadsFit' /\ Adds(total)
<1>1. PICK n \in Id :
           /\ n = nextFrameId + 1 /\ nextFrameId < MaxFrames
           /\ 1 \in DOMAIN bulk /\ bulk[1] \in OutgoingSequence /\ bulk[1].kind = "sequence"
           /\ made' = Append(made, [rank |-> bulk[1].rank, purpose |-> "snapshot", total |-> total])
           /\ [rank |-> bulk[1].rank, purpose |-> "snapshot", total |-> total] \in Content
           /\ bulk' \in Seq(Part \cup OutgoingSequence)
           /\ DOMAIN bulk' = DOMAIN bulk /\ \A i \in DOMAIN bulk : i # 1 => bulk'[i] = bulk[i]
           /\ bulk'[1].kind = "sequence" /\ bulk'[1].rank = bulk[1].rank /\ bulk'[1].current = {n}
           /\ bulk[1].left > 0 /\ bulk'[1].left = bulk[1].left - 1 /\ bulk[1].left \in Nat
           /\ FramesOf(bulk'[1]) = {n} /\ FramesOf(bulk[1]) = {}
           /\ queuedBytes' = queuedBytes + total
  BY YieldsShape
<1>c. PICK c \in Content : c = [rank |-> bulk[1].rank, purpose |-> "snapshot", total |-> total]
  BY <1>1
<1>2. /\ pushing' = pushing /\ control' = control /\ nextIndex' = nextIndex /\ wire' = wire
      /\ pending' = pending /\ delivered' = delivered /\ dropped' = dropped /\ queued' = queued
      /\ overflow' = overflow /\ bulk # <<>>
  BY DEF SequenceYields, receiverVars, historyVars, BulkIsNext
<1>0. open' = open /\ flushing' = flushing /\ broken' = broken
  BY DEF SequenceYields, receiverVars
<1>3. /\ made' \in Seq(Content) /\ nextFrameId' = n /\ nextFrameId' \in 0 .. MaxFrames
      /\ n \notin LiveFrames /\ nextIndex[n] = 0 /\ made'[n] = c
      /\ \A id \in 1 .. nextFrameId : made'[id] = made[id]
  BY <1>1, <1>c, Creation
<1>4. made'[n].rank = bulk[1].rank /\ made'[n].purpose = "snapshot" /\ made'[n].total = total
  BY <1>3, <1>c
<1>5. nextFrameId \in Nat /\ MaxFrames \in Nat /\ queued \in Nat /\ MaxChunks \in Nat
  BY MadeFacts, ConstantsAssumption DEF ConstantsAssumption
<1>6. RankOf(bulk[1]) = bulk[1].rank /\ bulk[1].rank <= queued
  <2>1. RankOf(bulk[1]) = bulk[1].rank
    BY <1>1 DEF RankOf
  <2> QED BY <1>1, <2>1 DEF LanesInv, BulkIsOrdered
<1>7. /\ BulkIsOrdered'
      /\ FramesIn(bulk) \subseteq FramesOf(bulk[1]) \cup FramesIn(bulk')
      /\ FramesIn(bulk') \subseteq FramesOf(bulk'[1]) \cup FramesIn(bulk)
  <2>1. \A id \in FramesOf(bulk'[1]) : made'[id].purpose # "control" /\ made'[id].rank = RankOf(bulk[1])
    BY <1>1, <1>4, <1>6
  <2>2. \A id, e \in FramesOf(bulk'[1]) : id = e
    BY <1>1
  <2> QED BY <1>1, <1>2, <1>3, <2>1, <2>2, BulkFirst
<1>8. FramesIn(bulk') = FramesIn(bulk) \cup {n}
  <2>1. n \in FramesIn(bulk')
    BY <1>1, InLane
  <2> QED BY <1>1, <1>7, <2>1
<1>9. LiveFrames' = LiveFrames \cup {n}
  BY <1>2, <1>8 DEF LiveFrames
<1>10. LaneTypes
  BY DEF LanesInv
<1>11. LaneTypes'
  <2>1. ASSUME NEW id \in LiveFrames'
        PROVE  id \in 1 .. nextFrameId' /\ nextIndex'[id] < made'[id].total
    <3>1. CASE id = n
      <4>1. nextIndex'[id] = 0 /\ made'[id].total \in 1 .. MaxChunks
        BY <1>2, <1>3, <1>4, <3>1
      <4>2. id \in 1 .. nextFrameId'
        BY <1>1, <1>3, <1>5, <3>1
      <4> QED BY <4>1, <4>2
    <3>2. CASE id \in LiveFrames
      <4>1. id \in 1 .. nextFrameId /\ nextIndex[id] < made[id].total
        BY <1>10, <3>2 DEF LaneTypes
      <4>2. nextIndex'[id] = nextIndex[id] /\ made'[id] = made[id]
        BY <1>2, <1>3, <4>1
      <4>3. id \in 1 .. nextFrameId'
        BY <1>1, <1>3, <1>5, <4>1
      <4> QED BY <4>1, <4>2, <4>3
    <3> QED BY <1>9, <3>1, <3>2
  <2>2. control' \in Seq(Part) /\ dropped' \subseteq Id /\ queued' \in Nat /\ pushing' \in 0 .. MaxFrames
        /\ overflow' \in {"none", "itself", "others"}
    BY <1>2, <1>10 DEF LaneTypes
  <2>3. queuedBytes' \in Int
    BY <1>1, <1>10 DEF LaneTypes
  <2>4. open' \in BOOLEAN /\ flushing' \in BOOLEAN /\ broken' \in BOOLEAN
    BY <1>0, <1>10 DEF LaneTypes
  <2>5. /\ nextIndex' \in [Id -> 0 .. MaxChunks] /\ pending' \in [Id -> 0 .. MaxChunks - 1]
        /\ wire' \in Seq(Envelope) /\ delivered' \in Seq(Id)
    BY <1>2, <1>10 DEF LaneTypes
  <2>6. bulk' \in Seq(Part \cup OutgoingSequence)
    BY <1>1
  <2> QED BY <1>3, <2>1, <2>2, <2>3, <2>4, <2>5, <2>6 DEF LaneTypes
<1>12. ControlIsOrdered'
  BY <1>2, <1>3, ControlKept
<1>13. PayloadsFit
  BY DEF LanesInv
<1>14. PayloadsFit'
  <2>1. pushing = 0 /\ nextFrameId + bulk[1].left <= MaxFrames
    BY <1>1, <1>13 DEF PayloadsFit
  <2>2. ASSUME NEW i \in DOMAIN bulk', bulk'[i].kind = "sequence"
        PROVE  i = 1
    <3>1. i \in DOMAIN bulk /\ bulk[i].kind = "sequence"
      BY <1>1, <2>2
    <3> QED BY <1>1, <1>13, <3>1 DEF PayloadsFit
  <2>3. pushing' = 0 /\ nextFrameId' + bulk'[1].left <= MaxFrames
    BY <1>1, <1>2, <1>3, <1>5, <2>1
  <2>4. nextFrameId' + pushing' <= MaxFrames
    BY <1>3, <2>3
  <2>5. open'
    BY <1>0
  <2> QED BY <2>2, <2>3, <2>4, <2>5 DEF PayloadsFit
<1>15. QuietStep
  <2>1. UNCHANGED <<nextIndex, wire, pending, broken, delivered>>
    BY <1>0, <1>2
  <2>2. nextFrameId <= nextFrameId' /\ queued <= queued' /\ (open' => open)
    BY <1>0, <1>1, <1>2, <1>3, <1>5
  <2>3. ASSUME NEW id \in nextFrameId + 1 .. nextFrameId'
        PROVE  /\ made'[id].rank <= queued' /\ made'[id].purpose # "control"
               /\ \E i \in DOMAIN bulk : bulk[i].kind = "sequence" /\ bulk[i].rank = made'[id].rank
    <3>1. id = n
      BY <1>1, <1>3, <1>5
    <3> QED BY <1>1, <1>2, <1>4, <1>6, <3>1
  <2>4. ASSUME NEW i \in DOMAIN bulk', bulk'[i].kind = "sequence"
        PROVE  \E j \in DOMAIN bulk : bulk[j].kind = "sequence" /\ bulk[j].rank = bulk'[i].rank
    <3>1. CASE i = 1
      BY <1>1, <3>1
    <3>2. CASE i # 1
      BY <1>1, <2>4, <3>2
    <3> QED BY <3>1, <3>2
  <2>5. \A id \in LiveFrames' : id \in LiveFrames \/ id \in nextFrameId + 1 .. nextFrameId'
    BY <1>1, <1>3, <1>5, <1>9
  <2>6. \A id \in LiveFrames : id \in LiveFrames'
    BY <1>9
  <2>7. Cancelling' = Cancelling /\ dropped' = dropped
    BY <1>2 DEF Cancelling
  <2> QED BY <1>3, <2>1, <2>2, <2>3, <2>4, <2>5, <2>6, <2>7 DEF QuietStep, IsControl
<1>16. Adds(total)
  <2>1. Cancelling' = Cancelling
    BY <1>2 DEF Cancelling
  <2> QED BY <1>1, <1>2, <1>3, <1>4, <1>9, <2>1 DEF Adds
<1> QED BY <1>7, <1>11, <1>12, <1>14, <1>15, <1>16

(* The steps that write nothing.                                            *)
WritesNothing == SendFrame \/ Subscribe \/ SendSequence \/ SendPayload \/ PullSequence \/ FlushReturns

(* The return of flush leaves the lanes alone.                              *)
LEMMA FlushReturnsKeeps ==
  ASSUME LanesInv, FlushReturns
  PROVE  QuietStep /\ LaneTypes' /\ ControlIsOrdered' /\ BulkIsOrdered' /\ PayloadsFit' /\ SameQueue
<1>1. /\ bulk' = bulk /\ made' = made /\ nextIndex' = nextIndex /\ control' = control /\ queuedBytes' = queuedBytes
      /\ pushing' = pushing /\ wire' = wire /\ pending' = pending /\ delivered' = delivered
      /\ dropped' = dropped /\ queued' = queued /\ overflow' = overflow
  BY DEF FlushReturns, receiverVars, historyVars
<1>0. open' = open /\ flushing' = FALSE /\ broken' = broken
  BY DEF FlushReturns, receiverVars
<1>2. LiveFrames' = LiveFrames /\ nextFrameId' = nextFrameId /\ Cancelling' = Cancelling
  BY <1>1 DEF LiveFrames, nextFrameId, Cancelling
<1>3. LaneTypes'
  <2>1. LaneTypes
    BY DEF LanesInv
  <2>2. broken' \in BOOLEAN /\ open' \in BOOLEAN /\ flushing' \in BOOLEAN
    BY <1>0, <2>1 DEF LaneTypes
  <2>3. control' \in Seq(Part) /\ queuedBytes' \in Int /\ dropped' \subseteq Id
        /\ overflow' \in {"none", "itself", "others"}
    BY <1>1, <2>1 DEF LaneTypes
  <2>4. pushing' \in 0 .. MaxFrames /\ queued' \in Nat /\ bulk' \in Seq(Part \cup OutgoingSequence)
    BY <1>1, <2>1 DEF LaneTypes
  <2> QED BY <1>1, <1>2, <2>2, <2>3, <2>4, TypesSame
<1>4. ControlIsOrdered'
  BY <1>1, ControlSame
<1>5. BulkIsOrdered'
  <2>1. BulkIsOrdered
    BY DEF LanesInv
  <2> QED BY <1>1, <2>1 DEF BulkIsOrdered, RankOf, IsControl
<1>6. PayloadsFit'
  <2>1. PayloadsFit
    BY DEF LanesInv
  <2>2. ~open' => ~open
    BY <1>0
  <2> QED BY <1>0, <1>1, <1>2, <2>1, <2>2 DEF PayloadsFit
<1>7. QuietStep
  <2>1. nextFrameId \in Nat /\ queued \in Nat
    BY MadeFacts
  <2>2. nextFrameId + 1 .. nextFrameId' = {} /\ nextFrameId <= nextFrameId' /\ queued <= queued'
    BY <1>1, <1>2, <2>1
  <2>3. UNCHANGED <<nextIndex, wire, pending, broken, delivered>> /\ (open' => open)
    BY <1>0, <1>1
  <2> QED BY <1>1, <1>2, <2>2, <2>3 DEF QuietStep
<1>8. SameQueue
  BY <1>1, <1>2 DEF SameQueue
<1> QED BY <1>3, <1>4, <1>5, <1>6, <1>7, <1>8

(* The steps that write nothing keep the lanes in order.                    *)
LEMMA QuietKeeps ==
  ASSUME LanesInv, WritesNothing
  PROVE  /\ QuietStep /\ LaneTypes' /\ ControlIsOrdered' /\ BulkIsOrdered' /\ PayloadsFit'
         /\ \/ \E total \in 1 .. MaxChunks : Adds(total)
            \/ \E purpose, total : Overflows(purpose, total)
            \/ Subscribe \/ SameQueue
<1> DEFINE Goal == /\ QuietStep /\ LaneTypes' /\ ControlIsOrdered' /\ BulkIsOrdered' /\ PayloadsFit'
                   /\ \/ \E total \in 1 .. MaxChunks : Adds(total)
                      \/ \E purpose, total : Overflows(purpose, total)
                      \/ Subscribe \/ SameQueue
<1>1. ASSUME open, NEW purpose \in Purpose, NEW total \in 1 .. MaxChunks, NEW left \in 0 .. MaxFrames,
             Enqueue(purpose, total, left), nextFrameId + 1 + left <= MaxFrames,
             \A i \in DOMAIN bulk : bulk[i].kind = "sequence" => left = 0 /\ nextFrameId + bulk[i].left < MaxFrames
      PROVE  Goal
  <2>1. CASE Fits(total)
    BY <1>1, <2>1, EnqueueKeeps
  <2>2. CASE ~Fits(total)
    <3>1. Overflows(purpose, total)
      BY <1>1, <2>2 DEF Enqueue
    <3> QED BY <1>1, <3>1, OverflowKeeps
  <2> QED BY <2>1, <2>2
<1>2. nextFrameId \in Nat /\ MaxFrames \in Nat /\ nextFrameId + pushing <= MaxFrames /\ pushing \in 0 .. MaxFrames
  BY MadeFacts DEF LanesInv, PayloadsFit, LaneTypes
<1>3. CASE SendFrame
  <2>1. PICK purpose \in Purpose, total \in 1 .. MaxChunks : Enqueue(purpose, total, 0)
    BY <1>3 DEF SendFrame, Purpose
  <2>2. open /\ nextFrameId + 1 + 0 <= MaxFrames /\ 0 \in 0 .. MaxFrames
    BY <1>2, <1>3 DEF SendFrame, Idle, RoomForOne
  <2>3. \A i \in DOMAIN bulk : bulk[i].kind = "sequence" => nextFrameId + bulk[i].left < MaxFrames
    BY <1>3 DEF SendFrame, RoomForOne
  <2> QED BY <1>1, <2>1, <2>2, <2>3
<1>4. CASE SendPayload
  <2>1. PICK total \in 1 .. MaxChunks : Enqueue("snapshot", total, pushing - 1)
    BY <1>4 DEF SendPayload
  <2>2. open /\ pushing > 0
    BY <1>4 DEF SendPayload
  <2>3. "snapshot" \in Purpose /\ pushing - 1 \in 0 .. MaxFrames /\ nextFrameId + 1 + (pushing - 1) <= MaxFrames
    BY <1>2, <2>2 DEF Purpose
  <2>4. \A i \in DOMAIN bulk : bulk[i].kind # "sequence"
    BY <1>2, <2>2 DEF LanesInv, PayloadsFit
  <2> QED BY <1>1, <2>1, <2>2, <2>3, <2>4
<1>5. CASE PullSequence
  <2>1. BulkIsNext /\ Head(bulk).kind = "sequence" /\ Head(bulk).current = {}
    BY <1>5 DEF PullSequence
  <2>2. CASE SequenceEnds
    BY <2>1, <2>2, EndsKeeps
  <2>3. CASE \E total \in 1 .. MaxChunks : SequenceYields(total)
    <3>1. PICK total \in 1 .. MaxChunks : SequenceYields(total)
      BY <2>3
    <3>2. open
      BY <2>1 DEF LanesInv, PayloadsFit, BulkIsNext, CanWrite
    <3>3. CASE Fits(total)
      BY <2>1, <3>1, <3>2, <3>3, YieldsKeeps
    <3>4. CASE ~Fits(total)
      <4>1. Overflows("snapshot", total)
        BY <3>1, <3>4 DEF SequenceYields
      <4> QED BY <3>2, <4>1, OverflowKeeps
    <3> QED BY <3>3, <3>4
  <2> QED BY <1>5, <2>2, <2>3 DEF PullSequence
<1> QED BY <1>3, <1>4, <1>5, SubscribeKeeps, SendSequenceKeeps, FlushReturnsKeeps DEF WritesNothing

-------------------------------------------------------------------------------
(* A message is written: what does not depend on the lane it comes from.    *)
LEMMA WrittenFacts ==
  ASSUME LanesInv, NEW id \in LiveFrames, Written(id), made' = made
  PROVE  /\ wire' = Append(wire, Chunk(id)) /\ queuedBytes' = queuedBytes - 1
         /\ nextIndex' = [nextIndex EXCEPT ![id] = @ + 1]
         /\ nextIndex'[id] = nextIndex[id] + 1 /\ nextIndex[id] \in Nat /\ id \in Id
         /\ \A e : e # id => nextIndex'[e] = nextIndex[e]
         /\ Chunk(id) \in Envelope
         /\ nextIndex' \in [Id -> 0 .. MaxChunks]
         /\ ~IsLastMessage(id) => nextIndex'[id] < made[id].total
<1>1. /\ id \in Id /\ id \in 1 .. nextFrameId /\ nextIndex[id] < made[id].total
      /\ made[id] \in Content /\ nextIndex[id] \in Nat
  BY LiveIsHeld
<1>2. made[id].total \in 1 .. MaxChunks /\ MaxChunks \in Nat
  BY <1>1, ConstantsAssumption DEF Content, ConstantsAssumption
<1>3. nextIndex \in [Id -> 0 .. MaxChunks]
  BY DEF LanesInv, LaneTypes
<1>4. nextIndex' = [nextIndex EXCEPT ![id] = @ + 1]
  BY DEF Written
<1>5. nextIndex'[id] = nextIndex[id] + 1
  BY <1>1, <1>3, <1>4
<1>6. \A e : e # id => nextIndex'[e] = nextIndex[e]
  BY <1>3, <1>4
<1>7. nextIndex[id] + 1 \in 0 .. MaxChunks /\ nextIndex[id] \in 0 .. MaxChunks - 1
  BY <1>1, <1>2
<1>8. nextIndex' \in [Id -> 0 .. MaxChunks]
  BY <1>3, <1>4, <1>7
<1>9. Chunk(id) \in Envelope
  BY <1>1, <1>7 DEF Chunk, Envelope
<1>10. ~IsLastMessage(id) => nextIndex'[id] < made[id].total
  BY <1>1, <1>2, <1>5 DEF IsLastMessage
<1> QED BY <1>1, <1>4, <1>5, <1>6, <1>8, <1>9, <1>10 DEF Written

(* A written message keeps the types.                                       *)
LEMMA WrittenTypes ==
  ASSUME LanesInv, NEW id \in LiveFrames, Written(id), made' = made,
         control' \in Seq(Part), bulk' \in Seq(Part \cup OutgoingSequence),
         LiveFrames' = IF IsLastMessage(id) THEN LiveFrames \ {id} ELSE LiveFrames,
         UNCHANGED <<open, flushing, pushing, receiverVars, historyVars>>
  PROVE  LaneTypes'
<1>1. /\ wire' = Append(wire, Chunk(id)) /\ queuedBytes' = queuedBytes - 1
      /\ nextIndex' \in [Id -> 0 .. MaxChunks]
      /\ \A e : e # id => nextIndex'[e] = nextIndex[e]
      /\ Chunk(id) \in Envelope
      /\ ~IsLastMessage(id) => nextIndex'[id] < made[id].total
  BY WrittenFacts
<1>2. LaneTypes
  BY DEF LanesInv
<1>3. open' \in BOOLEAN /\ flushing' \in BOOLEAN /\ broken' \in BOOLEAN
  BY <1>2 DEF LaneTypes, receiverVars
<1>4. made' \in Seq(Content) /\ nextFrameId' \in 0 .. MaxFrames /\ nextFrameId' = nextFrameId
  BY <1>2 DEF LaneTypes, nextFrameId
<1>5. pushing' \in 0 .. MaxFrames /\ pending' \in [Id -> 0 .. MaxChunks - 1] /\ delivered' \in Seq(Id)
  BY <1>2 DEF LaneTypes, receiverVars
<1>6. dropped' \subseteq Id /\ queued' \in Nat /\ overflow' \in {"none", "itself", "others"}
  BY <1>2 DEF LaneTypes, historyVars
<1>7. queuedBytes' \in Int
  BY <1>1, <1>2 DEF LaneTypes
<1>8. wire' \in Seq(Envelope)
  <2>1. PICK c \in Envelope : c = Chunk(id)
    BY <1>1
  <2>2. wire' = Append(wire, c) /\ wire \in Seq(Envelope)
    BY <1>1, <1>2, <2>1 DEF LaneTypes
  <2> QED BY <2>2, AppendProperties
<1>9. ASSUME NEW e \in LiveFrames'
      PROVE  e \in 1 .. nextFrameId' /\ nextIndex'[e] < made'[e].total
  <2>1. e \in 1 .. nextFrameId /\ nextIndex[e] < made[e].total
    BY <1>2 DEF LaneTypes
  <2>2. CASE e = id
    BY <1>1, <1>4, <2>1, <2>2
  <2>3. CASE e # id
    BY <1>1, <1>4, <2>1, <2>3
  <2> QED BY <2>2, <2>3
<1> QED BY <1>1, <1>3, <1>4, <1>5, <1>6, <1>7, <1>8, <1>9 DEF LaneTypes

(* A message of a control frame.                                            *)
LEMMA WriteControlKeeps ==
  ASSUME LanesInv, WriteControl
  PROVE  /\ LaneTypes' /\ ControlIsOrdered' /\ BulkIsOrdered' /\ PayloadsFit'
         /\ \E id \in LiveFrames : WriteStep(id) /\ queuedBytes' = queuedBytes - 1
<1>1. control \in Seq(Part) /\ control # <<>> /\ control[1].kind = "frame" /\ 1 \in DOMAIN control
      /\ DOMAIN control = 1 .. Len(control) /\ Len(control) \in Nat \ {0} /\ Head(control) = control[1]
  BY DEF LanesInv, LaneTypes, WriteControl
<1>2. PICK id : id = control[1].id
  OBVIOUS
<1>3. id \in LiveFrames /\ IsControl(id) /\ FramesOf(control[1]) = {id}
  BY <1>1, <1>2, ControlItems
<1>4. /\ Written(id) /\ made' = made /\ bulk' = bulk /\ dropped' = dropped /\ queued' = queued
      /\ control' = IF IsLastMessage(id) THEN Tail(control) ELSE control
  BY <1>1, <1>2 DEF WriteControl, historyVars
<1>5. UNCHANGED <<open, flushing, pushing, receiverVars, historyVars>>
  BY DEF WriteControl
<1>6. /\ wire' = Append(wire, Chunk(id)) /\ queuedBytes' = queuedBytes - 1
      /\ nextIndex' = [nextIndex EXCEPT ![id] = @ + 1]
      /\ \A e : e # id => nextIndex'[e] = nextIndex[e]
  BY <1>3, <1>4, WrittenFacts
<1>7. ControlIsOrdered /\ BulkIsOrdered /\ PayloadsFit
  BY DEF LanesInv
<1>8. ASSUME NEW i \in DOMAIN control, i > 1, control[i].kind = "frame"
      PROVE  control[i].id # id /\ made[id].rank < made[control[i].id].rank /\ nextIndex[control[i].id] = 0
  <2>1. made[control[1].id].rank < made[control[i].id].rank /\ nextIndex[control[i].id] = 0
    BY <1>1, <1>7, <1>8 DEF ControlIsOrdered
  <2>2. control[i].id \in LiveFrames
    BY <1>8, ControlItems
  <2>3. made[id].rank \in Nat /\ made[control[i].id].rank \in Nat
    BY <1>3, <2>2, LiveIsHeld DEF Content
  <2> QED BY <1>2, <2>1, <2>3
<1>9. ASSUME NEW i \in DOMAIN control, i > 1
      PROVE  control[i].id # id
  <2>1. CASE control[i].kind = "frame"
    BY <1>8, <1>9, <2>1
  <2>2. CASE control[i].kind = "cancel"
    BY <1>3, <2>2, ControlItems, LiveIsHeld
  <2> QED BY <2>1, <2>2, ControlItems DEF Part
<1>10. ControlIsOrdered' /\ control' \in Seq(Part)
  <2>1. control' = control \/ control' = Tail(control)
    BY <1>4
  <2>2. \A i \in DOMAIN control : i > 1 => nextIndex'[control[i].id] = nextIndex[control[i].id]
    BY <1>6, <1>9
  <2> QED BY <1>1, <1>4, <2>1, <2>2, ControlFirst
<1>11. ASSUME NEW i \in DOMAIN bulk, NEW e \in FramesOf(bulk[i])
       PROVE  ~IsControl(e) /\ e # id
  BY <1>3, <1>7, <1>11 DEF BulkIsOrdered
<1>12. BulkIsOrdered'
  <2>1. \A i \in DOMAIN bulk : \A e \in FramesOf(bulk[i]) : nextIndex'[e] = nextIndex[e]
    BY <1>6, <1>11
  <2> QED BY <1>4, <1>7, <2>1 DEF BulkIsOrdered, RankOf, IsControl
<1>13. PayloadsFit'
  <2>1. open' /\ pushing' = pushing /\ nextFrameId' = nextFrameId
    BY <1>1, <1>4, <1>5, <1>7 DEF PayloadsFit, nextFrameId
  <2> QED BY <1>4, <1>7, <2>1 DEF PayloadsFit
<1>14. id \notin FramesIn(bulk)
  BY <1>11, InLane
<1>15. LiveFrames' = IF IsLastMessage(id) THEN LiveFrames \ {id} ELSE LiveFrames
  <2>1. CASE ~IsLastMessage(id)
    BY <1>4, <2>1 DEF LiveFrames
  <2>2. CASE IsLastMessage(id)
    <3>1. PICK r : r = Tail(control)
      OBVIOUS
    <3>2. DOMAIN r = 1 .. Len(control) - 1 /\ \A i \in DOMAIN r : r[i] = control[i + 1]
      BY <1>1, <3>1
    <3>3. FramesIn(control) = {id} \cup FramesIn(r)
      BY <1>1, <1>3, <3>1, LaneTail
    <3>4. ASSUME id \in FramesIn(r)
          PROVE  FALSE
      <4>1. PICK i \in DOMAIN r : id \in FramesOf(r[i])
        BY <3>4, InLane
      <4>2. i + 1 \in DOMAIN control /\ i + 1 > 1 /\ id \in FramesOf(control[i + 1])
        BY <1>1, <3>2, <4>1
      <4>3. control[i + 1].id = id
        BY <4>2, ControlItems DEF Part
      <4> QED BY <1>9, <4>2, <4>3
    <3>5. LiveFrames' = FramesIn(r) \cup FramesIn(bulk)
      BY <1>4, <2>2, <3>1 DEF LiveFrames
    <3> QED BY <1>14, <2>2, <3>3, <3>4, <3>5 DEF LiveFrames
  <2> QED BY <2>1, <2>2
<1>16. LaneTypes'
  <2>1. bulk' \in Seq(Part \cup OutgoingSequence)
    BY <1>4 DEF LanesInv, LaneTypes
  <2> QED BY <1>3, <1>4, <1>5, <1>10, <1>15, <2>1, WrittenTypes
<1>17. Cancelling' = Cancelling
  <2>1. CASE control' = control
    BY <2>1 DEF Cancelling
  <2>2. CASE control' = Tail(control)
    <3>1. DOMAIN control' = 1 .. Len(control) - 1 /\ \A i \in DOMAIN control' : control'[i] = control[i + 1]
      BY <1>1, <2>2
    <3>2. ASSUME NEW x, NEW i \in DOMAIN control, control[i] = Cancellation(x)
          PROVE  \E j \in DOMAIN control' : control'[j] = Cancellation(x)
      <4>1. i # 1
        BY <1>1, <3>2 DEF Cancellation
      <4>2. i - 1 \in DOMAIN control' /\ (i - 1) + 1 = i
        BY <1>1, <3>1, <4>1
      <4> QED BY <3>1, <3>2, <4>2
    <3>3. ASSUME NEW x, NEW i \in DOMAIN control', control'[i] = Cancellation(x)
          PROVE  \E j \in DOMAIN control : control[j] = Cancellation(x)
      <4>1. i + 1 \in DOMAIN control /\ control'[i] = control[i + 1]
        BY <1>1, <3>1
      <4> QED BY <3>3, <4>1
    <3> QED BY <3>2, <3>3 DEF Cancelling
  <2> QED BY <1>4, <2>1, <2>2
<1>18. ASSUME NEW e \in LiveFrames, e # id, SameLane(id, e)
       PROVE  nextIndex[e] = 0 /\ Precedes(id, e)
  <2>1. PICK i \in DOMAIN control : control[i].kind = "frame" /\ control[i].id = e
    BY <1>3, <1>18, LiveIsHeld DEF SameLane
  <2>2. i > 1
    BY <1>1, <1>2, <1>18, <2>1
  <2> QED BY <1>8, <2>1, <2>2 DEF Precedes
<1>19. ASSUME NEW e \in Cancelling
       PROVE  ~SameLane(id, e)
  <2>1. PICK i \in DOMAIN control : control[i] = Cancellation(e)
    BY DEF Cancelling
  <2>2. e \in dropped
    BY <2>1, ControlItems DEF Cancellation
  <2>3. ~IsControl(e)
    BY <2>2 DEF LanesInv, FramesAreKnown
  <2> QED BY <1>3, <2>3 DEF SameLane
<1>20. WriteStep(id)
  <2>1. UNCHANGED <<open, made, pending, broken, delivered, dropped, queued>>
    BY <1>4, <1>5 DEF receiverVars, historyVars
  <2>2. id \in Id
    BY <1>3, LiveIsHeld
  <2> QED BY <1>3, <1>4, <1>6, <1>15, <1>17, <1>18, <1>19, <2>1, <2>2 DEF WriteStep
<1> QED BY <1>3, <1>6, <1>10, <1>12, <1>13, <1>16, <1>20

(* A cancellation.                                                          *)
LEMMA WriteCancellationKeeps ==
  ASSUME LanesInv, WriteCancellation
  PROVE  /\ LaneTypes' /\ ControlIsOrdered' /\ BulkIsOrdered' /\ PayloadsFit'
         /\ \E id \in Cancelling : CancelStep(id) /\ queuedBytes' = queuedBytes - 1
<1>1. control \in Seq(Part) /\ control # <<>> /\ control[1].kind = "cancel" /\ 1 \in DOMAIN control
      /\ DOMAIN control = 1 .. Len(control) /\ Len(control) \in Nat \ {0} /\ Head(control) = control[1]
  BY DEF LanesInv, LaneTypes, WriteCancellation
<1>2. PICK id : id = control[1].id
  OBVIOUS
<1>3. /\ id \in Cancelling /\ id \in dropped /\ FramesOf(control[1]) = {} /\ control[1] \in Part
      /\ control[1] = Cancellation(id) /\ id \in Id
  <2>1. id \in Cancelling /\ id \in dropped /\ FramesOf(control[1]) = {} /\ control[1] \in Part
    BY <1>1, <1>2, ControlItems
  <2> QED BY <1>1, <1>2, <2>1 DEF Part, Cancellation
<1>4. /\ made' = made /\ bulk' = bulk /\ dropped' = dropped /\ queued' = queued /\ nextIndex' = nextIndex
      /\ control' = Tail(control) /\ queuedBytes' = queuedBytes - 1 /\ wire' = Append(wire, control[1])
  BY <1>1 DEF WriteCancellation, historyVars
<1>5. UNCHANGED <<open, flushing, pushing, receiverVars, historyVars>>
  BY DEF WriteCancellation
<1>6. ControlIsOrdered /\ BulkIsOrdered /\ PayloadsFit /\ LaneTypes
  BY DEF LanesInv
<1>7. ControlIsOrdered' /\ control' \in Seq(Part)
  BY <1>1, <1>4, ControlFirst
<1>8. BulkIsOrdered'
  BY <1>4, <1>6 DEF BulkIsOrdered, RankOf, IsControl
<1>9. PayloadsFit'
  <2>1. open' /\ pushing' = pushing /\ nextFrameId' = nextFrameId
    BY <1>1, <1>4, <1>5, <1>6 DEF PayloadsFit, nextFrameId
  <2> QED BY <1>4, <1>6, <2>1 DEF PayloadsFit
<1>10. DOMAIN control' = 1 .. Len(control) - 1 /\ \A i \in DOMAIN control' : control'[i] = control[i + 1]
  BY <1>1, <1>4
<1>11. FramesIn(control') = FramesIn(control)
  <2>1. FramesIn(control) = FramesOf(control[1]) \cup FramesIn(Tail(control))
    BY <1>1, LaneTail
  <2> QED BY <1>3, <1>4, <2>1
<1>12. LiveFrames' = LiveFrames
  BY <1>4, <1>11 DEF LiveFrames
<1>13. Cancelling' = Cancelling \ {id}
  <2>1. ASSUME NEW x, x # id, NEW i \in DOMAIN control, control[i] = Cancellation(x)
        PROVE  \E j \in DOMAIN control' : control'[j] = Cancellation(x)
    <3>1. i # 1
      BY <1>3, <2>1 DEF Cancellation
    <3>2. i - 1 \in DOMAIN control' /\ (i - 1) + 1 = i
      BY <1>1, <1>10, <3>1
    <3> QED BY <1>10, <2>1, <3>2
  <2>2. ASSUME NEW x, NEW i \in DOMAIN control', control'[i] = Cancellation(x)
        PROVE  x # id /\ \E j \in DOMAIN control : control[j] = Cancellation(x)
    <3>1. i + 1 \in DOMAIN control /\ control'[i] = control[i + 1] /\ 1 < i + 1
      BY <1>1, <1>10
    <3>2. control[i + 1].kind = "cancel" /\ control[i + 1].id = x
      BY <2>2, <3>1 DEF Cancellation
    <3>3. control[1].id # control[i + 1].id
      BY <1>1, <1>6, <3>1, <3>2 DEF ControlIsOrdered
    <3> QED BY <1>2, <2>2, <3>1, <3>2, <3>3
  <2> QED BY <2>1, <2>2 DEF Cancelling
<1>14. LaneTypes'
  <2>1. open' \in BOOLEAN /\ flushing' \in BOOLEAN /\ broken' \in BOOLEAN
    BY <1>5, <1>6 DEF LaneTypes, receiverVars
  <2>2. made' \in Seq(Content) /\ nextFrameId' \in 0 .. MaxFrames /\ nextFrameId' = nextFrameId
    BY <1>4, <1>6 DEF LaneTypes, nextFrameId
  <2>3. pushing' \in 0 .. MaxFrames /\ pending' \in [Id -> 0 .. MaxChunks - 1] /\ delivered' \in Seq(Id)
    BY <1>5, <1>6 DEF LaneTypes, receiverVars
  <2>4. dropped' \subseteq Id /\ queued' \in Nat /\ overflow' \in {"none", "itself", "others"}
    BY <1>5, <1>6 DEF LaneTypes, historyVars
  <2>5. queuedBytes' \in Int /\ bulk' \in Seq(Part \cup OutgoingSequence) /\ nextIndex' \in [Id -> 0 .. MaxChunks]
    BY <1>4, <1>6 DEF LaneTypes
  <2>6. wire' \in Seq(Envelope)
    <3>1. PICK c : c = control[1]
      OBVIOUS
    <3>2. c \in Envelope
      BY <1>3, <3>1 DEF Envelope, Cancellation
    <3>3. wire' = Append(wire, c) /\ wire \in Seq(Envelope)
      BY <1>4, <1>6, <3>1 DEF LaneTypes
    <3> QED BY <3>2, <3>3, AppendProperties
  <2>7. \A e \in LiveFrames' : e \in 1 .. nextFrameId' /\ nextIndex'[e] < made'[e].total
    BY <1>4, <1>6, <1>12, <2>2 DEF LaneTypes
  <2> QED BY <1>7, <2>1, <2>2, <2>3, <2>4, <2>5, <2>6, <2>7 DEF LaneTypes
<1>15. CancelStep(id)
  <2>1. UNCHANGED <<open, made, nextIndex, bulk, pending, broken, delivered, dropped, queued>>
    BY <1>4, <1>5 DEF receiverVars, historyVars
  <2> QED BY <1>3, <1>4, <1>12, <1>13, <2>1 DEF CancelStep
<1> QED BY <1>3, <1>4, <1>7, <1>8, <1>9, <1>14, <1>15

(* A message of the frame that the first item of the bulk lane holds; rest  *)
(* tells what becomes of the lane.                                          *)
LEMMA BulkWritten ==
  ASSUME LanesInv, BulkIsNext, NEW id \in FramesOf(bulk[1]), Written(id),
         UNCHANGED <<open, made, control, flushing, pushing, receiverVars, historyVars>>,
         \/ ~IsLastMessage(id) /\ bulk' = bulk
         \/ IsLastMessage(id) /\ bulk[1].kind = "frame" /\ bulk' = Tail(bulk)
         \/ IsLastMessage(id) /\ bulk[1].kind = "sequence" /\ bulk' = [bulk EXCEPT ![1].current = {}]
  PROVE  /\ LaneTypes' /\ ControlIsOrdered' /\ BulkIsOrdered' /\ PayloadsFit'
         /\ \E x \in LiveFrames : WriteStep(x) /\ queuedBytes' = queuedBytes - 1
<1>1. bulk \in Seq(Part \cup OutgoingSequence) /\ bulk # <<>> /\ 1 \in DOMAIN bulk
      /\ DOMAIN bulk = 1 .. Len(bulk) /\ Len(bulk) \in Nat \ {0} /\ control = <<>>
  BY DEF LanesInv, LaneTypes, BulkIsNext
<1>01. DOMAIN bulk = 1 .. Len(bulk) /\ Len(bulk) \in Nat \ {0} /\ 1 \in DOMAIN bulk
  BY <1>1
<1>02. \A i \in DOMAIN bulk : i \in Nat /\ i + 0 = i /\ (i # 1 => i > 1)
  BY <1>01
<1>2. ControlIsOrdered /\ BulkIsOrdered /\ PayloadsFit
  BY DEF LanesInv
<1>3. id \in LiveFrames /\ id \in FramesIn(bulk)
  BY <1>1, BulkItems
<1>4. FramesOf(bulk[1]) = {id} /\ ~IsControl(id) /\ made[id].rank = RankOf(bulk[1])
  BY <1>1, <1>2 DEF BulkIsOrdered
<1>5. /\ made' = made /\ control' = control /\ dropped' = dropped /\ queued' = queued
      /\ pending' = pending /\ delivered' = delivered
  BY DEF receiverVars, historyVars
<1>6. /\ wire' = Append(wire, Chunk(id)) /\ queuedBytes' = queuedBytes - 1
      /\ nextIndex' = [nextIndex EXCEPT ![id] = @ + 1]
      /\ \A e : e # id => nextIndex'[e] = nextIndex[e]
  BY <1>3, WrittenFacts
<1>7. ASSUME NEW i \in DOMAIN bulk, i > 1
      PROVE  /\ RankOf(bulk[1]) < RankOf(bulk[i]) /\ RankOf(bulk[1]) \in Nat /\ RankOf(bulk[i]) \in Nat
             /\ \A e \in FramesOf(bulk[i]) : e # id /\ nextIndex[e] = 0 /\ made[e].rank = RankOf(bulk[i])
  <2>1. RankOf(bulk[1]) < RankOf(bulk[i]) /\ RankOf(bulk[1]) \in Nat /\ RankOf(bulk[i]) \in Nat
    BY <1>1, <1>2, <1>7, BulkItems DEF BulkIsOrdered
  <2>2. ASSUME NEW e \in FramesOf(bulk[i])
        PROVE  e # id /\ nextIndex[e] = 0 /\ made[e].rank = RankOf(bulk[i])
    <3>1. nextIndex[e] = 0 /\ made[e].rank = RankOf(bulk[i])
      BY <1>2, <1>7, <2>2 DEF BulkIsOrdered
    <3> QED BY <1>4, <2>1, <3>1
  <2> QED BY <2>1, <2>2
<1>8. \A i \in DOMAIN bulk : i > 1 => \A e \in FramesOf(bulk[i]) : nextIndex'[e] = nextIndex[e]
  BY <1>6, <1>7
<1>9. FramesIn(control) = {} /\ FramesIn(control') = {} /\ Cancelling = {} /\ Cancelling' = {}
  BY <1>1, <1>5, EmptyLane DEF Cancelling
<1>10. PICK d \in {0, 1} :
         /\ BulkIsOrdered' /\ bulk' \in Seq(Part \cup OutgoingSequence)
         /\ LiveFrames' = IF IsLastMessage(id) THEN LiveFrames \ {id} ELSE LiveFrames
         /\ \A i \in DOMAIN bulk' : bulk'[i].kind = "sequence" =>
              /\ i + d \in DOMAIN bulk /\ bulk[i + d].kind = "sequence"
              /\ bulk'[i].rank = bulk[i + d].rank /\ bulk'[i].left = bulk[i + d].left
         /\ DOMAIN bulk' \subseteq Nat
  <2>1. CASE ~IsLastMessage(id) /\ bulk' = bulk
    <3>1. BulkIsOrdered'
      <4>1. \A i \in DOMAIN bulk : \A e \in FramesOf(bulk[i]) : i > 1 => nextIndex'[e] = 0
        BY <1>7, <1>8
      <4> QED BY <1>2, <1>5, <2>1, <4>1 DEF BulkIsOrdered, RankOf, IsControl
    <3>2. LiveFrames' = LiveFrames
      BY <1>5, <2>1 DEF LiveFrames
    <3>3. \A i \in DOMAIN bulk' : i + 0 = i /\ i \in Nat
      BY <1>02, <2>1
    <3> QED BY <1>1, <2>1, <3>1, <3>2, <3>3
  <2>2. CASE IsLastMessage(id) /\ bulk' = Tail(bulk)
    <3>1. /\ BulkIsOrdered'
          /\ bulk' \in Seq(Part \cup OutgoingSequence)
          /\ DOMAIN bulk' = 1 .. Len(bulk) - 1
          /\ \A i \in DOMAIN bulk' : i + 1 \in DOMAIN bulk /\ bulk'[i] = bulk[i + 1]
          /\ FramesIn(bulk) = FramesOf(bulk[1]) \cup FramesIn(bulk')
          /\ FramesOf(bulk[1]) \cap FramesIn(bulk') = {}
      BY <1>1, <1>5, <1>8, <2>2, BulkTail
    <3>2. FramesIn(bulk') = FramesIn(bulk) \ {id}
      BY <1>4, <3>1
    <3>3. LiveFrames' = LiveFrames \ {id}
      BY <1>9, <3>2 DEF LiveFrames
    <3> QED BY <2>2, <3>1, <3>3
  <2>3. CASE IsLastMessage(id) /\ bulk[1].kind = "sequence" /\ bulk' = [bulk EXCEPT ![1].current = {}]
    <3>1. PICK b \in OutgoingSequence : b = bulk[1]
      BY <1>1, <2>3, BulkItems
    <3>2. PICK s : s = [b EXCEPT !.current = {}]
      OBVIOUS
    <3>3. s \in OutgoingSequence /\ s.kind = "sequence" /\ s.rank = b.rank /\ s.left = b.left /\ s.current = {}
      <4>1. {} \in SUBSET Id
        OBVIOUS
      <4> QED BY <3>2, <4>1 DEF OutgoingSequence
    <3>4. bulk' = [bulk EXCEPT ![1] = s]
      BY <1>1, <2>3, <3>1, <3>2
    <3>5. bulk' \in Seq(Part \cup OutgoingSequence)
      <4>1. PICK T : T = Part \cup OutgoingSequence
        OBVIOUS
      <4>2. s \in T /\ bulk \in Seq(T)
        BY <1>1, <3>3, <4>1
      <4>3. bulk' \in Seq(T)
        BY <1>01, <3>4, <4>2, ExceptSeq
      <4> QED BY <4>1, <4>3
    <3>6. DOMAIN bulk' = DOMAIN bulk /\ bulk'[1] = s /\ \A i \in DOMAIN bulk : i # 1 => bulk'[i] = bulk[i]
      BY <1>1, <3>4
    <3>7. FramesOf(bulk'[1]) = {}
      BY <3>3, <3>6, HeldByItems
    <3>8. bulk'[1].kind = bulk[1].kind /\ bulk'[1].rank = bulk[1].rank
      BY <2>3, <3>1, <3>3, <3>6
    <3>9. /\ BulkIsOrdered'
          /\ FramesIn(bulk) \subseteq FramesOf(bulk[1]) \cup FramesIn(bulk')
          /\ FramesIn(bulk') \subseteq FramesOf(bulk'[1]) \cup FramesIn(bulk)
      <4>1. \A e \in 1 .. nextFrameId : made'[e] = made[e]
        BY <1>5
      <4> QED BY <1>1, <1>5, <1>8, <2>3, <3>5, <3>6, <3>7, <3>8, <4>1, BulkFirst
    <3>10. id \notin FramesIn(bulk')
      <4>1. ASSUME NEW i \in DOMAIN bulk, id \in FramesOf(bulk'[i])
            PROVE  FALSE
        <5>1. i # 1
          BY <3>7, <4>1
        <5>2. i > 1 /\ id \in FramesOf(bulk[i])
          BY <1>02, <3>6, <4>1, <5>1
        <5> QED BY <1>7, <5>2
      <4> QED BY <3>6, <4>1, InLane
    <3>11. FramesIn(bulk') = FramesIn(bulk) \ {id}
      BY <1>4, <3>7, <3>9, <3>10
    <3>12. LiveFrames' = LiveFrames \ {id}
      BY <1>9, <3>11 DEF LiveFrames
    <3>13. ASSUME NEW i \in DOMAIN bulk', bulk'[i].kind = "sequence"
           PROVE  /\ i + 0 \in DOMAIN bulk /\ bulk[i + 0].kind = "sequence"
                  /\ bulk'[i].rank = bulk[i + 0].rank /\ bulk'[i].left = bulk[i + 0].left
      <4>1. i + 0 = i /\ i \in DOMAIN bulk
        BY <1>02, <3>6
      <4>2. CASE i = 1
        BY <2>3, <3>1, <3>3, <3>6, <4>1, <4>2
      <4>3. CASE i # 1
        BY <3>6, <3>13, <4>1, <4>3
      <4> QED BY <4>2, <4>3
    <3>14. DOMAIN bulk' \subseteq Nat
      BY <1>02, <3>6
    <3> QED BY <2>3, <3>5, <3>9, <3>12, <3>13, <3>14
  <2> QED BY <2>1, <2>2, <2>3
<1>11. LaneTypes'
  <2>1. control' \in Seq(Part)
    BY <1>5 DEF LanesInv, LaneTypes
  <2> QED BY <1>3, <1>5, <1>10, <2>1, WrittenTypes
<1>12. ControlIsOrdered'
  BY <1>1, <1>5 DEF ControlIsOrdered
<1>13. PayloadsFit'
  <2>1. open' /\ pushing' = pushing /\ nextFrameId' = nextFrameId
    BY <1>1, <1>2, <1>5 DEF PayloadsFit, nextFrameId
  <2>2. \A i \in DOMAIN bulk' : bulk'[i].kind = "sequence" => pushing' = 0 /\ nextFrameId' + bulk'[i].left <= MaxFrames
    BY <1>2, <1>10, <2>1 DEF PayloadsFit
  <2>3. ASSUME NEW i \in DOMAIN bulk', NEW j \in DOMAIN bulk', bulk'[i].kind = "sequence", bulk'[j].kind = "sequence"
        PROVE  i = j
    <3>1. i + d = j + d
      BY <1>2, <1>10, <2>3 DEF PayloadsFit
    <3> QED BY <1>10, <3>1
  <2>4. nextFrameId' + pushing' <= MaxFrames
    BY <1>2, <2>1 DEF PayloadsFit
  <2> QED BY <2>1, <2>2, <2>3, <2>4 DEF PayloadsFit
<1>14. ASSUME NEW e \in LiveFrames, e # id
       PROVE  nextIndex[e] = 0 /\ Precedes(id, e)
  <2>1. PICK i \in DOMAIN bulk : e \in FramesOf(bulk[i])
    BY <1>9, InLane DEF LiveFrames
  <2>2. i > 1
    BY <1>1, <1>4, <1>14, <2>1
  <2> QED BY <1>4, <1>7, <2>1, <2>2 DEF Precedes
<1>15. ASSUME NEW i \in DOMAIN bulk', bulk'[i].kind = "sequence"
       PROVE  /\ \E j \in DOMAIN bulk : bulk[j].kind = "sequence" /\ bulk[j].rank = bulk'[i].rank
              /\ made[id].rank <= bulk'[i].rank
  <2>1. PICK j \in DOMAIN bulk : bulk[j].kind = "sequence" /\ bulk[j].rank = bulk'[i].rank
    BY <1>10, <1>15
  <2>2. RankOf(bulk[j]) = bulk[j].rank /\ RankOf(bulk[j]) \in Nat /\ RankOf(bulk[1]) \in Nat
    BY <1>1, <2>1, BulkItems DEF RankOf
  <2>3. CASE j = 1
    BY <1>4, <2>1, <2>2, <2>3
  <2>4. CASE j # 1
    <3>1. j > 1
      BY <1>1, <2>4
    <3> QED BY <1>4, <1>7, <2>1, <2>2, <3>1
  <2> QED BY <2>1, <2>3, <2>4
<1>16. WriteStep(id)
  <2>1. UNCHANGED <<open, made, pending, broken, delivered, dropped, queued>>
    BY <1>5 DEF receiverVars
  <2>2. id \in Id
    BY <1>3, LiveIsHeld
  <2> QED BY <1>3, <1>6, <1>9, <1>10, <1>14, <1>15, <2>1, <2>2 DEF WriteStep
<1> QED BY <1>3, <1>6, <1>10, <1>11, <1>12, <1>13, <1>16

(* A message of the bulk lane is written.                                   *)
LEMMA WriteBulkKeeps ==
  ASSUME LanesInv, WriteBulk \/ WriteSequence
  PROVE  /\ LaneTypes' /\ ControlIsOrdered' /\ BulkIsOrdered' /\ PayloadsFit'
         /\ \E x \in LiveFrames : WriteStep(x) /\ queuedBytes' = queuedBytes - 1
<1>1. BulkIsNext
  BY DEF WriteBulk, WriteSequence
<1>2. Head(bulk) = bulk[1]
  BY <1>1 DEF BulkIsNext
<1>3. CASE WriteBulk
  <2>1. bulk[1].kind = "frame" /\ Written(bulk[1].id)
        /\ bulk' = IF IsLastMessage(bulk[1].id) THEN Tail(bulk) ELSE bulk
    BY <1>2, <1>3 DEF WriteBulk
  <2>2. UNCHANGED <<open, made, control, flushing, pushing, receiverVars, historyVars>>
    BY <1>3 DEF WriteBulk
  <2>3. PICK id \in FramesOf(bulk[1]) : id = bulk[1].id
    BY <2>1, HeldByItems
  <2> QED BY <1>1, <2>1, <2>2, <2>3, BulkWritten
<1>4. CASE WriteSequence
  <2>1. bulk[1].kind = "sequence"
    BY <1>2, <1>4 DEF WriteSequence
  <2>2. PICK id \in bulk[1].current :
             Written(id) /\ bulk' = IF IsLastMessage(id) THEN [bulk EXCEPT ![1].current = {}] ELSE bulk
    BY <1>2, <1>4 DEF WriteSequence
  <2>3. UNCHANGED <<open, made, control, flushing, pushing, receiverVars, historyVars>>
    BY <1>4 DEF WriteSequence
  <2>4. id \in FramesOf(bulk[1])
    BY <2>1, <2>2, HeldByItems
  <2> QED BY <1>1, <2>1, <2>2, <2>3, <2>4, BulkWritten
<1> QED BY <1>3, <1>4

-------------------------------------------------------------------------------
(* What is known of the frames follows each kind of step.                   *)
LEMMA QuietKnows ==
  ASSUME LanesInv, QuietStep, LaneTypes'
  PROVE  FramesAreKnown'
<1>1. FramesAreKnown /\ LaneTypes
  BY DEF LanesInv
<1>2. /\ nextIndex' = nextIndex /\ wire' = wire /\ pending' = pending /\ delivered' = delivered
      /\ nextFrameId <= nextFrameId' /\ queued <= queued'
      /\ \A id \in 1 .. nextFrameId : made'[id] = made[id]
  BY DEF QuietStep
<1>3. nextFrameId \in Nat /\ nextFrameId' \in Nat /\ queued \in Nat /\ queued' \in Nat
      /\ nextFrameId' <= MaxFrames /\ MaxFrames \in Nat
  BY <1>1, MadeFacts DEF LaneTypes
<1>4. \A id \in Id : nextIndex'[id] > 0 => id <= nextFrameId'
  BY <1>1, <1>2, <1>3 DEF FramesAreKnown, Id
<1>5. ASSUME NEW id \in 1 .. nextFrameId'
      PROVE  nextIndex'[id] <= made'[id].total /\ made'[id].rank <= queued'
  <2>1. CASE id \in 1 .. nextFrameId
    <3>1. /\ made'[id] = made[id] /\ nextIndex'[id] = nextIndex[id]
          /\ nextIndex[id] <= made[id].total /\ made[id].rank <= queued /\ made[id].rank \in Nat
      BY <1>2, <2>1, MadeFacts
    <3> QED BY <1>2, <1>3, <3>1
  <2>2. CASE id \in nextFrameId + 1 .. nextFrameId'
    <3>1. made'[id].rank <= queued'
      BY <2>2 DEF QuietStep
    <3>2. id \in Id /\ ~(id <= nextFrameId)
      BY <1>3, <2>2 DEF Id
    <3>3. nextIndex[id] \in Nat /\ ~(nextIndex[id] > 0)
      BY <1>1, <3>2, MadeFacts DEF FramesAreKnown
    <3>4. made'[id].total \in Nat
      <4>1. made' \in Seq(Content) /\ id \in 1 .. Len(made')
        BY DEF LaneTypes, nextFrameId
      <4>2. made'[id] \in Content
        BY <4>1
      <4> QED BY <4>2, ConstantsAssumption DEF Content, ConstantsAssumption
    <3> QED BY <1>2, <3>1, <3>3, <3>4
  <2> QED BY <1>2, <1>3, <2>1, <2>2
<1>6. \A id \in Id : pending'[id] <= nextIndex'[id]
  BY <1>1, <1>2 DEF FramesAreKnown
<1>7. \A i \in DOMAIN wire' : wire'[i].kind = "chunk" => wire'[i].index < nextIndex'[wire'[i].id]
  BY <1>1, <1>2 DEF FramesAreKnown
<1>8. ASSUME NEW i \in DOMAIN delivered'
      PROVE  delivered'[i] <= nextFrameId' /\ nextIndex'[delivered'[i]] = made'[delivered'[i]].total
  <2>1. delivered[i] <= nextFrameId /\ nextIndex[delivered[i]] = made[delivered[i]].total
    BY <1>1, <1>2 DEF FramesAreKnown
  <2>2. delivered[i] \in Id
    BY <1>1, <1>2 DEF LaneTypes
  <2>3. delivered[i] \in 1 .. nextFrameId /\ delivered[i] <= nextFrameId'
    BY <1>2, <1>3, <2>1, <2>2 DEF Id
  <2> QED BY <1>2, <2>1, <2>3
<1>9. ASSUME NEW id \in dropped'
      PROVE  /\ id <= nextFrameId' /\ id \notin LiveFrames'
             /\ nextIndex'[id] < made'[id].total /\ made'[id].purpose # "control"
  <2>1. id \in 1 .. nextFrameId /\ nextIndex[id] < made[id].total /\ ~IsControl(id) /\ id \notin LiveFrames'
    <3>1. CASE id \in dropped
      <4>1. nextIndex[id] < made[id].total /\ ~IsControl(id) /\ id \notin LiveFrames /\ id \in 1 .. nextFrameId
        BY <1>1, <3>1, MadeFacts DEF FramesAreKnown
      <4>2. id \notin nextFrameId + 1 .. nextFrameId'
        BY <1>3, <4>1
      <4>3. id \notin LiveFrames'
        BY <4>1, <4>2 DEF QuietStep
      <4> QED BY <4>1, <4>3
    <3>2. CASE id \in LiveFrames /\ id \notin LiveFrames' /\ ~IsControl(id)
      BY <3>2, LiveIsHeld
    <3> QED BY <3>1, <3>2 DEF QuietStep
  <2>2. made'[id] = made[id] /\ id <= nextFrameId'
    BY <1>2, <1>3, <2>1
  <2> QED BY <1>2, <2>1, <2>2 DEF IsControl
<1> QED BY <1>4, <1>5, <1>6, <1>7, <1>8, <1>9 DEF FramesAreKnown, IsControl

(* What is known of the frames, when a message of one is written.           *)
LEMMA WriteKnows ==
  ASSUME LanesInv, NEW id \in LiveFrames, WriteStep(id)
  PROVE  FramesAreKnown'
<1>1. FramesAreKnown /\ LaneTypes
  BY DEF LanesInv
<1>2. /\ made' = made /\ pending' = pending /\ delivered' = delivered /\ dropped' = dropped /\ queued' = queued
      /\ nextFrameId' = nextFrameId
      /\ nextIndex' = [nextIndex EXCEPT ![id] = @ + 1]
      /\ LiveFrames' \subseteq LiveFrames
  BY DEF WriteStep, nextFrameId
<1>3. /\ id \in Id /\ id \in 1 .. nextFrameId /\ nextIndex[id] < made[id].total
      /\ made[id].total \in Nat /\ nextIndex[id] \in Nat /\ id \notin dropped
  BY LiveIsHeld, MadeFacts
<1>4. nextIndex'[id] = nextIndex[id] + 1 /\ \A e : e # id => nextIndex'[e] = nextIndex[e]
  BY <1>1, <1>2, <1>3 DEF LaneTypes
<1>5. \A e \in Id : nextIndex'[e] > 0 => e <= nextFrameId'
  BY <1>1, <1>2, <1>3, <1>4, MadeFacts DEF FramesAreKnown
<1>6. ASSUME NEW e \in 1 .. nextFrameId'
      PROVE  nextIndex'[e] <= made'[e].total /\ made'[e].rank <= queued'
  <2>1. nextIndex[e] <= made[e].total /\ made[e].rank <= queued
    BY <1>2, MadeFacts
  <2>2. CASE e = id
    BY <1>2, <1>3, <1>4, <2>1, <2>2
  <2>3. CASE e # id
    BY <1>2, <1>4, <2>1, <2>3
  <2> QED BY <2>2, <2>3
<1>7. ASSUME NEW e \in Id
      PROVE  pending'[e] <= nextIndex'[e]
  <2>1. pending[e] <= nextIndex[e] /\ pending[e] \in Nat /\ nextIndex[e] \in Nat
    BY <1>1, MadeFacts DEF FramesAreKnown
  <2>2. nextIndex'[e] = nextIndex[e] \/ nextIndex'[e] = nextIndex[e] + 1
    BY <1>4
  <2> QED BY <1>2, <2>1, <2>2
<1>8. wire \in Seq(Envelope) /\ Chunk(id).kind = "chunk" /\ Chunk(id).id = id /\ Chunk(id).index = nextIndex[id]
  BY <1>1 DEF LaneTypes, Chunk
<1>9. ASSUME NEW i \in DOMAIN wire', wire'[i].kind = "chunk"
      PROVE  wire'[i].index < nextIndex'[wire'[i].id]
  <2>1. PICK c : c = Chunk(id)
    OBVIOUS
  <2>2. wire' = Append(wire, c)
    BY <2>1 DEF WriteStep
  <2>3. /\ DOMAIN wire' = 1 .. Len(wire) + 1 /\ wire'[Len(wire) + 1] = c
        /\ DOMAIN wire = 1 .. Len(wire) /\ Len(wire) \in Nat /\ \A j \in DOMAIN wire : wire'[j] = wire[j]
    BY <1>8, <2>2
  <2>4. CASE i = Len(wire) + 1
    BY <1>3, <1>4, <1>8, <2>1, <2>3, <2>4
  <2>5. CASE i \in DOMAIN wire
    <3>1. wire[i].kind = "chunk" /\ wire'[i] = wire[i] /\ wire[i] \in Envelope
      BY <1>8, <1>9, <2>3, <2>5
    <3>2. wire[i].index \in Nat /\ wire[i].id \in Id
      BY <3>1, ConstantsAssumption DEF Envelope, ConstantsAssumption
    <3>3. wire[i].index < nextIndex[wire[i].id] /\ nextIndex[wire[i].id] \in Nat
      BY <1>1, <2>5, <3>1, <3>2, MadeFacts DEF FramesAreKnown
    <3>4. nextIndex'[wire[i].id] = nextIndex[wire[i].id] \/ nextIndex'[wire[i].id] = nextIndex[wire[i].id] + 1
      BY <1>4
    <3> QED BY <3>1, <3>2, <3>3, <3>4
  <2> QED BY <2>3, <2>4, <2>5
<1>10. ASSUME NEW i \in DOMAIN delivered'
       PROVE  delivered'[i] <= nextFrameId' /\ nextIndex'[delivered'[i]] = made'[delivered'[i]].total
  <2>1. delivered[i] <= nextFrameId /\ nextIndex[delivered[i]] = made[delivered[i]].total
    BY <1>1, <1>2 DEF FramesAreKnown
  <2>2. delivered[i] # id
    BY <1>3, <2>1
  <2> QED BY <1>2, <1>4, <2>1, <2>2
<1>11. ASSUME NEW e \in dropped'
       PROVE  e <= nextFrameId' /\ e \notin LiveFrames' /\ nextIndex'[e] < made'[e].total /\ ~IsControl(e)
  <2>1. e <= nextFrameId /\ e \notin LiveFrames /\ nextIndex[e] < made[e].total /\ ~IsControl(e) /\ e # id
    BY <1>1, <1>2, <1>3 DEF FramesAreKnown
  <2> QED BY <1>2, <1>4, <2>1
<1> QED BY <1>2, <1>5, <1>6, <1>7, <1>9, <1>10, <1>11 DEF FramesAreKnown, IsControl

(* What is known of the frames, when a cancellation is written.             *)
LEMMA CancelKnows ==
  ASSUME LanesInv, NEW id, CancelStep(id)
  PROVE  FramesAreKnown'
<1>1. FramesAreKnown /\ LaneTypes
  BY DEF LanesInv
<1>2. /\ made' = made /\ pending' = pending /\ delivered' = delivered /\ dropped' = dropped /\ queued' = queued
      /\ nextFrameId' = nextFrameId /\ nextIndex' = nextIndex /\ LiveFrames' = LiveFrames
  BY DEF CancelStep, nextFrameId
<1>3. ASSUME NEW i \in DOMAIN wire', wire'[i].kind = "chunk"
      PROVE  wire'[i].index < nextIndex'[wire'[i].id]
  <2>1. PICK c : c = Cancellation(id)
    OBVIOUS
  <2>2. wire' = Append(wire, c) /\ wire \in Seq(Envelope) /\ c.kind = "cancel"
    BY <1>1, <2>1 DEF CancelStep, LaneTypes, Cancellation
  <2>3. /\ DOMAIN wire' = 1 .. Len(wire) + 1 /\ wire'[Len(wire) + 1] = c
        /\ DOMAIN wire = 1 .. Len(wire) /\ Len(wire) \in Nat /\ \A j \in DOMAIN wire : wire'[j] = wire[j]
    BY <2>2
  <2>4. i # Len(wire) + 1
    BY <1>3, <2>2, <2>3
  <2>5. i \in DOMAIN wire
    BY <2>3, <2>4
  <2> QED BY <1>1, <1>2, <1>3, <2>3, <2>5 DEF FramesAreKnown
<1> QED BY <1>1, <1>2, <1>3 DEF FramesAreKnown, IsControl

-------------------------------------------------------------------------------
(* The browser gets the first message of the carrier.                       *)
LEMMA ReceiveShape ==
  ASSUME LanesInv, Receive
  PROVE  \E m \in Envelope :
           /\ wire # <<>> /\ m = wire[1] /\ 1 \in DOMAIN wire /\ Accept(m)
           /\ wire' \in Seq(Envelope) /\ DOMAIN wire = 1 .. Len(wire) /\ Len(wire) \in Nat \ {0}
           /\ DOMAIN wire' = 1 .. Len(wire) - 1 /\ Len(wire') = Len(wire) - 1
           /\ \A i \in DOMAIN wire' : i + 1 \in DOMAIN wire /\ wire'[i] = wire[i + 1]
           /\ m.id \in Id
           /\ m.kind = "chunk" => /\ m.index \in Nat /\ m.index < nextIndex[m.id] /\ m.id \in 1 .. nextFrameId
                                  /\ made[m.id].total \in 1 .. MaxChunks /\ nextIndex[m.id] <= made[m.id].total
                                  /\ nextIndex[m.id] \in Nat /\ pending[m.id] \in Nat
<1>1. wire \in Seq(Envelope) /\ wire # <<>> /\ Accept(Head(wire)) /\ wire' = Tail(wire)
  BY DEF Receive, LanesInv, LaneTypes
<1>2. PICK T : T = Envelope
  OBVIOUS
<1>3. /\ wire' \in Seq(T) /\ DOMAIN wire = 1 .. Len(wire) /\ Len(wire) \in Nat \ {0}
      /\ DOMAIN wire' = 1 .. Len(wire) - 1 /\ Len(wire') = Len(wire) - 1 /\ Head(wire) = wire[1]
      /\ \A i \in DOMAIN wire' : wire'[i] = wire[i + 1]
  BY <1>1, <1>2
<1>4. 1 \in DOMAIN wire /\ \A i \in DOMAIN wire' : i + 1 \in DOMAIN wire
  BY <1>3
<1>5. PICK m \in Envelope : m = wire[1]
  BY <1>1, <1>4
<1>6. m.id \in Id
  BY DEF Envelope
<1>7. ASSUME m.kind = "chunk"
      PROVE  /\ m.index \in Nat /\ m.index < nextIndex[m.id] /\ m.id \in 1 .. nextFrameId
             /\ made[m.id].total \in 1 .. MaxChunks /\ nextIndex[m.id] <= made[m.id].total
             /\ nextIndex[m.id] \in Nat /\ pending[m.id] \in Nat
  <2>1. m.index \in Nat
    BY <1>7, ConstantsAssumption DEF Envelope, ConstantsAssumption
  <2>2. m.index < nextIndex[m.id] /\ nextIndex[m.id] \in Nat /\ pending[m.id] \in Nat
    BY <1>4, <1>5, <1>6, <1>7, MadeFacts DEF LanesInv, FramesAreKnown
  <2>3. m.id <= nextFrameId
    BY <1>6, <2>1, <2>2 DEF LanesInv, FramesAreKnown
  <2>4. m.id \in 1 .. nextFrameId
    BY <1>6, <2>3, MadeFacts DEF Id
  <2> QED BY <2>1, <2>2, <2>4, MadeFacts
<1> QED BY <1>1, <1>2, <1>3, <1>4, <1>5, <1>6, <1>7

(* A message that arrives leaves the lanes alone.                           *)
LEMMA ReceiveKeeps ==
  ASSUME LanesInv, Receive
  PROVE  LanesInv'
<1>1. PICK m \in Envelope :
           /\ wire # <<>> /\ m = wire[1] /\ 1 \in DOMAIN wire /\ Accept(m)
           /\ wire' \in Seq(Envelope) /\ DOMAIN wire = 1 .. Len(wire) /\ Len(wire) \in Nat \ {0}
           /\ DOMAIN wire' = 1 .. Len(wire) - 1 /\ Len(wire') = Len(wire) - 1
           /\ \A i \in DOMAIN wire' : i + 1 \in DOMAIN wire /\ wire'[i] = wire[i + 1]
           /\ m.id \in Id
           /\ m.kind = "chunk" => /\ m.index \in Nat /\ m.index < nextIndex[m.id] /\ m.id \in 1 .. nextFrameId
                                  /\ made[m.id].total \in 1 .. MaxChunks /\ nextIndex[m.id] <= made[m.id].total
                                  /\ nextIndex[m.id] \in Nat /\ pending[m.id] \in Nat
  BY ReceiveShape
<1>2. /\ made' = made /\ nextIndex' = nextIndex /\ control' = control /\ bulk' = bulk
      /\ queuedBytes' = queuedBytes /\ pushing' = pushing /\ dropped' = dropped /\ queued' = queued
      /\ overflow' = overflow
  BY DEF Receive, historyVars
<1>0. open /\ open' = open /\ flushing' = (flushing \/ FallsLow)
  BY DEF Receive
<1>3. LaneTypes /\ FramesAreKnown /\ ControlIsOrdered /\ BulkIsOrdered /\ PayloadsFit
  BY DEF LanesInv
<1>4. pending \in [Id -> 0 .. MaxChunks - 1] /\ delivered \in Seq(Id) /\ MaxChunks \in Nat \ {0} /\ broken \in BOOLEAN
  BY <1>3, ConstantsAssumption DEF LaneTypes, ConstantsAssumption
<1>5. /\ pending' \in [Id -> 0 .. MaxChunks - 1] /\ delivered' \in Seq(Id) /\ broken' \in BOOLEAN
      /\ \A id \in Id : pending'[id] <= nextIndex[id]
      /\ \A i \in DOMAIN delivered' :
           delivered'[i] <= nextFrameId /\ nextIndex[delivered'[i]] = made[delivered'[i]].total
  <2> DEFINE Goal == /\ pending' \in [Id -> 0 .. MaxChunks - 1] /\ delivered' \in Seq(Id) /\ broken' \in BOOLEAN
                     /\ \A id \in Id : pending'[id] <= nextIndex[id]
                     /\ \A i \in DOMAIN delivered' :
                          delivered'[i] <= nextFrameId /\ nextIndex[delivered'[i]] = made[delivered'[i]].total
  <2>1. \A id \in Id : pending[id] <= nextIndex[id] /\ nextIndex[id] \in Nat
    BY <1>3, MadeFacts DEF FramesAreKnown
  <2>2. \A i \in DOMAIN delivered :
           delivered[i] <= nextFrameId /\ nextIndex[delivered[i]] = made[delivered[i]].total
    BY <1>3 DEF FramesAreKnown
  <2>3. ASSUME m.kind = "chunk", nextIndex[m.id] = made[m.id].total, delivered' = Append(delivered, m.id)
        PROVE  /\ delivered' \in Seq(Id)
               /\ \A i \in DOMAIN delivered' :
                    delivered'[i] <= nextFrameId /\ nextIndex[delivered'[i]] = made[delivered'[i]].total
    <3>1. PICK x \in Id : x = m.id
      BY <1>1
    <3>2. /\ delivered' \in Seq(Id) /\ DOMAIN delivered' = 1 .. Len(delivered) + 1
          /\ DOMAIN delivered = 1 .. Len(delivered) /\ delivered'[Len(delivered) + 1] = x
          /\ \A i \in DOMAIN delivered : delivered'[i] = delivered[i]
          /\ Len(delivered) \in Nat
      BY <1>4, <2>3, <3>1
    <3>3. x <= nextFrameId /\ nextIndex[x] = made[x].total
      BY <1>1, <2>3, <3>1, MadeFacts
    <3>4. \A i \in DOMAIN delivered' : i = Len(delivered) + 1 \/ i \in DOMAIN delivered
      BY <3>2
    <3> QED BY <2>2, <3>2, <3>3, <3>4
  <2>4. CASE AcceptCancellation(m)
    <3>1. pending' = [pending EXCEPT ![m.id] = 0] /\ delivered' = delivered /\ broken' = broken
      BY <2>4 DEF AcceptCancellation
    <3>2. 0 \in 0 .. MaxChunks - 1
      BY <1>4
    <3>3. pending' \in [Id -> 0 .. MaxChunks - 1]
      BY <1>4, <3>1, <3>2
    <3>4. \A id \in Id : pending'[id] <= nextIndex[id]
      BY <1>4, <2>1, <3>1
    <3> QED BY <1>4, <2>2, <3>1, <3>3, <3>4
  <2>5. CASE AcceptWhole(m)
    <3>1. m.kind = "chunk" /\ made[m.id].total = 1 /\ delivered' = Append(delivered, m.id)
          /\ pending' = pending /\ broken' = broken
      BY <2>5 DEF AcceptWhole, IsWhole
    <3>2. nextIndex[m.id] = made[m.id].total
      BY <1>1, <3>1
    <3> QED BY <1>4, <2>1, <2>3, <3>1, <3>2
  <2>6. CASE AcceptChunk(m)
    <3>1. /\ m.kind = "chunk" /\ m.index = pending[m.id] /\ broken' = broken
          /\ pending' = [pending EXCEPT ![m.id] = IF Completes(m) THEN 0 ELSE @ + 1]
          /\ delivered' = IF Completes(m) THEN Append(delivered, m.id) ELSE delivered
      BY <2>6 DEF AcceptChunk, IsExpected
    <3>2. CASE Completes(m)
      <4>1. nextIndex[m.id] = made[m.id].total
        BY <1>1, <3>1, <3>2 DEF Completes
      <4>2. pending' = [pending EXCEPT ![m.id] = 0] /\ delivered' = Append(delivered, m.id)
        BY <3>1, <3>2
      <4>3. 0 \in 0 .. MaxChunks - 1
        BY <1>4
      <4>4. pending' \in [Id -> 0 .. MaxChunks - 1]
        BY <1>4, <4>2, <4>3
      <4>5. \A id \in Id : pending'[id] <= nextIndex[id]
        BY <1>4, <2>1, <4>2
      <4> QED BY <1>4, <2>3, <3>1, <4>1, <4>2, <4>4, <4>5
    <3>3. CASE ~Completes(m)
      <4>1. pending[m.id] + 1 \in 0 .. MaxChunks - 1 /\ pending[m.id] + 1 <= nextIndex[m.id]
        BY <1>1, <1>4, <3>1, <3>3 DEF Completes
      <4>2. pending' = [pending EXCEPT ![m.id] = pending[m.id] + 1] /\ delivered' = delivered
        BY <3>1, <3>3
      <4>3. pending' \in [Id -> 0 .. MaxChunks - 1]
        BY <1>4, <4>1, <4>2
      <4>4. \A id \in Id : pending'[id] <= nextIndex[id]
        BY <1>4, <2>1, <4>1, <4>2
      <4> QED BY <1>4, <2>2, <3>1, <4>2, <4>3, <4>4
    <3> QED BY <3>2, <3>3
  <2>7. CASE Refuse(m)
    <3>1. broken' = TRUE /\ pending' = [id \in Id |-> 0] /\ delivered' = delivered
      BY <2>7 DEF Refuse
    <3>2. 0 \in 0 .. MaxChunks - 1
      BY <1>4
    <3>3. pending' \in [Id -> 0 .. MaxChunks - 1] /\ \A id \in Id : pending'[id] <= nextIndex[id]
      BY <2>1, <3>1, <3>2
    <3> QED BY <1>4, <2>2, <3>1, <3>3
  <2> QED BY <1>1, <2>4, <2>5, <2>6, <2>7 DEF Accept
<1>6. LiveFrames' = LiveFrames /\ nextFrameId' = nextFrameId
  BY <1>2 DEF LiveFrames, nextFrameId
<1>7. LaneTypes'
  <2>1. open' \in BOOLEAN /\ flushing' \in BOOLEAN
    BY <1>0, <1>3 DEF LaneTypes
  <2>2. /\ made' \in Seq(Content) /\ nextFrameId' \in 0 .. MaxFrames
        /\ control' \in Seq(Part) /\ bulk' \in Seq(Part \cup OutgoingSequence)
    BY <1>2, <1>3, <1>6 DEF LaneTypes
  <2>3. /\ pushing' \in 0 .. MaxFrames /\ queuedBytes' \in Int /\ nextIndex' \in [Id -> 0 .. MaxChunks]
        /\ dropped' \subseteq Id /\ queued' \in Nat /\ overflow' \in {"none", "itself", "others"}
    BY <1>2, <1>3 DEF LaneTypes
  <2>4. \A id \in LiveFrames' : id \in 1 .. nextFrameId' /\ nextIndex'[id] < made'[id].total
    BY <1>2, <1>3, <1>6 DEF LaneTypes
  <2> QED BY <1>1, <1>5, <2>1, <2>2, <2>3, <2>4 DEF LaneTypes
<1>8. FramesAreKnown'
  <2>1. ASSUME NEW i \in DOMAIN wire', wire'[i].kind = "chunk"
        PROVE  wire'[i].index < nextIndex[wire'[i].id]
    BY <1>1, <1>3, <2>1 DEF FramesAreKnown
  <2>2. \A id \in Id : nextIndex'[id] > 0 => id <= nextFrameId'
    BY <1>2, <1>3, <1>6 DEF FramesAreKnown
  <2>3. \A id \in 1 .. nextFrameId' : nextIndex'[id] <= made'[id].total /\ made'[id].rank <= queued'
    BY <1>2, <1>3, <1>6 DEF FramesAreKnown
  <2>4. \A id \in dropped' :
          id <= nextFrameId' /\ id \notin LiveFrames' /\ nextIndex'[id] < made'[id].total /\ ~IsControl(id)
    BY <1>2, <1>3, <1>6 DEF FramesAreKnown
  <2> QED BY <1>2, <1>5, <1>6, <2>1, <2>2, <2>3, <2>4 DEF FramesAreKnown, IsControl
<1>9. ControlIsOrdered' /\ BulkIsOrdered'
  BY <1>2, <1>3 DEF ControlIsOrdered, BulkIsOrdered, RankOf, IsControl
<1>10. PayloadsFit'
  BY <1>0, <1>2, <1>3, <1>6 DEF PayloadsFit
<1> QED BY <1>7, <1>8, <1>9, <1>10 DEF LanesInv

-------------------------------------------------------------------------------
(* The lanes, whatever the step.                                            *)
LEMMA LanesInit ==
  ASSUME FrameInit
  PROVE  LanesInv
<1>1. /\ open = TRUE /\ made = <<>> /\ nextIndex = [id \in Id |-> 0]
      /\ control = <<>> /\ bulk = <<>> /\ queuedBytes = 0
      /\ flushing = FALSE /\ pushing = 0 /\ wire = <<>>
      /\ pending = [id \in Id |-> 0] /\ broken = FALSE
      /\ delivered = <<>> /\ dropped = {} /\ queued = 0 /\ overflow = "none"
  BY DEF FrameInit
<1>2. LiveFrames = {}
  BY <1>1, EmptyLane DEF LiveFrames
<1>3. nextFrameId = 0 /\ MaxFrames \in Nat /\ MaxChunks \in Nat \ {0}
  BY <1>1, ConstantsAssumption DEF nextFrameId, ConstantsAssumption
<1>4. LaneTypes
  <2>1. open \in BOOLEAN /\ flushing \in BOOLEAN /\ broken \in BOOLEAN
    BY <1>1
  <2>2. made \in Seq(Content) /\ control \in Seq(Part) /\ bulk \in Seq(Part \cup OutgoingSequence)
        /\ wire \in Seq(Envelope) /\ delivered \in Seq(Id)
    BY <1>1
  <2>3. 0 \in 0 .. MaxChunks /\ 0 \in 0 .. MaxChunks - 1 /\ 0 \in 0 .. MaxFrames
    BY <1>3
  <2>4. nextIndex \in [Id -> 0 .. MaxChunks] /\ pending \in [Id -> 0 .. MaxChunks - 1]
    BY <1>1, <2>3
  <2>5. nextFrameId \in 0 .. MaxFrames /\ pushing \in 0 .. MaxFrames /\ queuedBytes \in Int /\ queued \in Nat
    BY <1>1, <1>3
  <2>6. dropped \subseteq Id /\ overflow \in {"none", "itself", "others"}
    BY <1>1
  <2> QED BY <1>2, <2>1, <2>2, <2>4, <2>5, <2>6 DEF LaneTypes
<1>5. DOMAIN control = {} /\ DOMAIN bulk = {} /\ DOMAIN wire = {} /\ DOMAIN delivered = {} /\ 1 .. nextFrameId = {}
  BY <1>1, <1>3
<1>6. FramesAreKnown
  BY <1>1, <1>5 DEF FramesAreKnown
<1>7. ControlIsOrdered /\ BulkIsOrdered
  BY <1>5 DEF ControlIsOrdered, BulkIsOrdered
<1>8. PayloadsFit
  BY <1>1, <1>3, <1>5 DEF PayloadsFit
<1> QED BY <1>4, <1>6, <1>7, <1>8 DEF LanesInv

(* Every step keeps the lanes, and is one of four kinds to the carrier.     *)
LEMMA LanesStep ==
  ASSUME LanesInv, FrameNext
  PROVE  /\ LanesInv'
         /\ \/ WritesNothing /\ QuietStep
            \/ (WriteControl \/ WriteBulk \/ WriteSequence) /\ \E id \in LiveFrames : WriteStep(id) /\ queuedBytes' = queuedBytes - 1
            \/ WriteCancellation /\ \E id \in Cancelling : CancelStep(id) /\ queuedBytes' = queuedBytes - 1
            \/ Receive
<1>1. CASE WritesNothing
  BY <1>1, QuietKeeps, QuietKnows DEF LanesInv
<1>2. CASE WriteControl
  BY <1>2, WriteControlKeeps, WriteKnows DEF LanesInv
<1>3. CASE WriteBulk \/ WriteSequence
  BY <1>3, WriteBulkKeeps, WriteKnows DEF LanesInv
<1>4. CASE WriteCancellation
  BY <1>4, WriteCancellationKeeps, CancelKnows DEF LanesInv
<1>5. CASE Receive
  BY <1>5, ReceiveKeeps
<1> QED BY <1>1, <1>2, <1>3, <1>4, <1>5 DEF FrameNext, Flush, WritesNothing

(* Nothing of the lanes depends on what is not in them.                     *)
LEMMA LanesStutter ==
  ASSUME LanesInv, UNCHANGED frameVars
  PROVE  LanesInv'
<1>1. /\ made' = made /\ nextIndex' = nextIndex /\ control' = control /\ bulk' = bulk
      /\ queuedBytes' = queuedBytes /\ pushing' = pushing /\ dropped' = dropped /\ queued' = queued
      /\ overflow' = overflow /\ wire' = wire /\ pending' = pending /\ delivered' = delivered
  BY DEF frameVars, senderVars, receiverVars, historyVars
<1>2. open' = open /\ flushing' = flushing /\ broken' = broken
  BY DEF frameVars, senderVars, receiverVars
<1>3. LiveFrames' = LiveFrames /\ nextFrameId' = nextFrameId
  BY <1>1 DEF LiveFrames, nextFrameId
<1>4. LaneTypes /\ FramesAreKnown /\ ControlIsOrdered /\ BulkIsOrdered /\ PayloadsFit
  BY DEF LanesInv
<1>5. LaneTypes'
  <2>1. open' \in BOOLEAN /\ flushing' \in BOOLEAN /\ broken' \in BOOLEAN
    BY <1>2, <1>4 DEF LaneTypes
  <2>2. made' \in Seq(Content) /\ control' \in Seq(Part) /\ bulk' \in Seq(Part \cup OutgoingSequence)
        /\ wire' \in Seq(Envelope) /\ delivered' \in Seq(Id)
    BY <1>1, <1>4 DEF LaneTypes
  <2>3. nextIndex' \in [Id -> 0 .. MaxChunks] /\ pending' \in [Id -> 0 .. MaxChunks - 1]
    BY <1>1, <1>4 DEF LaneTypes
  <2>4. /\ nextFrameId' \in 0 .. MaxFrames /\ pushing' \in 0 .. MaxFrames /\ queuedBytes' \in Int /\ queued' \in Nat
        /\ dropped' \subseteq Id /\ overflow' \in {"none", "itself", "others"}
    BY <1>1, <1>3, <1>4 DEF LaneTypes
  <2>5. \A id \in LiveFrames' : id \in 1 .. nextFrameId' /\ nextIndex'[id] < made'[id].total
    BY <1>1, <1>3, <1>4 DEF LaneTypes
  <2> QED BY <2>1, <2>2, <2>3, <2>4, <2>5 DEF LaneTypes
<1>6. FramesAreKnown'
  BY <1>1, <1>3, <1>4 DEF FramesAreKnown, IsControl
<1>7. ControlIsOrdered' /\ BulkIsOrdered'
  BY <1>1, <1>4 DEF ControlIsOrdered, BulkIsOrdered, RankOf, IsControl
<1>8. PayloadsFit'
  BY <1>1, <1>2, <1>3, <1>4 DEF PayloadsFit
<1> QED BY <1>5, <1>6, <1>7, <1>8 DEF LanesInv

-------------------------------------------------------------------------------
(* The bytes that are accounted for.                                        *)
LEMMA QueueIsFinite ==
  ASSUME LanesInv
  PROVE  /\ LiveFrames \in SUBSET Id /\ Cancelling \in SUBSET Id
         /\ IsFiniteSet(Unsent(LiveFrames)) /\ Cardinality(Unsent(LiveFrames)) \in Nat
         /\ IsFiniteSet(Cancelling) /\ Cardinality(Cancelling) \in Nat
         /\ queuedBytes \in Int
<1>1. LiveFrames \in SUBSET Id
  BY LiveIsHeld
<1>2. Cancelling \in SUBSET Id
  BY DEF Cancelling
<1>3. IsFiniteSet(Id)
  <2>1. 1 \in Int /\ MaxFrames \in Int
    BY MadeFacts
  <2> QED BY <2>1, FS_Interval DEF Id
<1>4. IsFiniteSet(Cancelling) /\ Cardinality(Cancelling) \in Nat
  BY <1>2, <1>3, FS_Subset, FS_CardinalityType
<1> QED BY <1>1, <1>2, <1>4, UnsentIsFinite DEF LanesInv, LaneTypes

(* The same queue has the same accounts.                                    *)
LEMMA SameAccounts ==
  ASSUME LanesInv, AccountsForTheQueue, SameQueue
  PROVE  AccountsForTheQueue'
<1>1. Unsent(LiveFrames)' = Unsent(LiveFrames)
  BY DEF Unsent, SameQueue
<1> QED BY <1>1 DEF AccountsForTheQueue, SameQueue

(* The sizes of two parts add up.                                           *)
LEMMA TwoParts ==
  ASSUME NEW S, NEW T, IsFiniteSet(S), IsFiniteSet(T), S \cap T = {}
  PROVE  Cardinality(S \cup T) = Cardinality(S) + Cardinality(T)
<1>1. Cardinality({}) = 0
  BY FS_EmptySet
<1>2. Cardinality(S) \in Nat /\ Cardinality(T) \in Nat
  BY FS_CardinalityType
<1>3. Cardinality(S \cup T) = Cardinality(S) + Cardinality(T) - Cardinality(S \cap T)
  BY FS_Union
<1>4. Cardinality(S \cap T) = 0
  BY <1>1
<1>5. ASSUME NEW a, a = Cardinality(S), NEW b, b = Cardinality(T)
      PROVE  a + b - 0 = a + b
  BY <1>2, <1>5
<1> QED BY <1>3, <1>4, <1>5

(* A new frame adds all of its messages to the accounts.                    *)
LEMMA CreationAccounts ==
  ASSUME LanesInv, AccountsForTheQueue, NEW total \in 1 .. MaxChunks, Adds(total)
  PROVE  AccountsForTheQueue'
<1>1. PICK n \in Id : n = nextFrameId + 1
  BY DEF Adds
<1>2. /\ LiveFrames' = LiveFrames \cup {n} /\ n \notin LiveFrames /\ Cancelling' = Cancelling
      /\ queuedBytes' = queuedBytes + total /\ nextIndex' = nextIndex /\ nextIndex[n] = 0
      /\ made'[n].total = total /\ \A id \in 1 .. nextFrameId : made'[id] = made[id]
  BY <1>1 DEF Adds
<1>3. PICK P : P = {n} \X (1 .. total)
  OBVIOUS
<1>4. total \in Nat \ {0} /\ MaxChunks \in Nat /\ total <= MaxChunks
  BY ConstantsAssumption DEF ConstantsAssumption
<1>5. IsFiniteSet(P) /\ Cardinality(P) = total
  <2>1. IsFiniteSet(1 .. total) /\ Cardinality(1 .. total) = total
    BY <1>4, FS_Interval
  <2>2. IsFiniteSet({n}) /\ Cardinality({n}) = 1
    BY FS_Singleton
  <2>3. IsFiniteSet(P) /\ Cardinality(P) = 1 * total
    BY <1>3, <2>1, <2>2, FS_Product
  <2> QED BY <1>4, <2>3
<1>6. Unsent(LiveFrames)' = Unsent(LiveFrames) \cup P
  <2>1. ASSUME NEW id \in LiveFrames, NEW k \in 1 .. MaxChunks
        PROVE  (nextIndex'[id] < k /\ k <= made'[id].total) <=> (nextIndex[id] < k /\ k <= made[id].total)
    <3>1. made'[id] = made[id]
      BY <1>2, LiveIsHeld
    <3> QED BY <1>2, <3>1
  <2>2. ASSUME NEW k \in 1 .. MaxChunks
        PROVE  (nextIndex'[n] < k /\ k <= made'[n].total) <=> k \in 1 .. total
    BY <1>2, <1>4
  <2>3. ASSUME NEW id \in LiveFrames \cup {n}, NEW k \in 1 .. MaxChunks
        PROVE  (nextIndex'[id] < k /\ k <= made'[id].total)
                 <=> (<<id, k>> \in Unsent(LiveFrames) \/ <<id, k>> \in P)
    <3>1. CASE id = n
      <4>1. <<id, k>> \notin Unsent(LiveFrames)
        BY <1>2, <3>1 DEF Unsent
      <4>2. <<id, k>> \in P <=> k \in 1 .. total
        BY <1>3, <3>1
      <4> QED BY <2>2, <3>1, <4>1, <4>2
    <3>2. CASE id \in LiveFrames
      <4>1. <<id, k>> \notin P
        BY <1>2, <1>3, <3>2
      <4>2. <<id, k>> \in Unsent(LiveFrames) <=> (nextIndex[id] < k /\ k <= made[id].total)
        BY <3>2 DEF Unsent
      <4> QED BY <2>1, <3>2, <4>1, <4>2
    <3> QED BY <3>1, <3>2
  <2>4. P \subseteq (LiveFrames \cup {n}) \X (1 .. MaxChunks)
    BY <1>3, <1>4
  <2>5. Unsent(LiveFrames) \subseteq (LiveFrames \cup {n}) \X (1 .. MaxChunks)
    BY DEF Unsent
  <2>6. Unsent(LiveFrames)' = {p \in (LiveFrames \cup {n}) \X (1 .. MaxChunks) :
                                 nextIndex'[p[1]] < p[2] /\ p[2] <= made'[p[1]].total}
    BY <1>2 DEF Unsent
  <2> QED BY <2>3, <2>4, <2>5, <2>6
<1>7. Unsent(LiveFrames) \cap P = {}
  BY <1>2, <1>3 DEF Unsent
<1>8. Cardinality(Unsent(LiveFrames) \cup P) = Cardinality(Unsent(LiveFrames)) + total
  <2>1. IsFiniteSet(Unsent(LiveFrames))
    BY QueueIsFinite
  <2> QED BY <1>5, <1>7, <2>1, TwoParts
<1>9. Cardinality(Unsent(LiveFrames))' = Cardinality(Unsent(LiveFrames)) + total
  BY <1>6, <1>8
<1>10. Cardinality(Cancelling)' = Cardinality(Cancelling)
  BY <1>2
<1> QED BY <1>2, <1>4, <1>9, <1>10, QueueIsFinite DEF AccountsForTheQueue

(* A written message leaves the queue and its accounts.                     *)
LEMMA WriteAccounts ==
  ASSUME LanesInv, AccountsForTheQueue, NEW id \in LiveFrames, WriteStep(id), queuedBytes' = queuedBytes - 1
  PROVE  AccountsForTheQueue'
<1>1. /\ made' = made /\ Cancelling' = Cancelling
      /\ nextIndex' = [nextIndex EXCEPT ![id] = @ + 1]
      /\ LiveFrames' = IF IsLastMessage(id) THEN LiveFrames \ {id} ELSE LiveFrames
  BY DEF WriteStep
<1>2. id \in Id /\ nextIndex[id] < made[id].total /\ nextIndex[id] \in Nat
      /\ made[id].total \in 1 .. MaxChunks /\ MaxChunks \in Nat
  BY LiveIsHeld, ConstantsAssumption DEF Content, ConstantsAssumption
<1>3. nextIndex'[id] = nextIndex[id] + 1 /\ \A e : e # id => nextIndex'[e] = nextIndex[e]
  BY <1>1, <1>2 DEF LanesInv, LaneTypes
<1>4. PICK q : q = <<id, nextIndex[id] + 1>>
  OBVIOUS
<1>5. q \in Unsent(LiveFrames)
  <2>1. nextIndex[id] + 1 \in 1 .. MaxChunks /\ nextIndex[id] < nextIndex[id] + 1
        /\ nextIndex[id] + 1 <= made[id].total
    BY <1>2
  <2> QED BY <1>4, <2>1 DEF Unsent
<1>6. ASSUME NEW e \in LiveFrames, NEW k \in 1 .. MaxChunks
      PROVE  (e \in LiveFrames' /\ nextIndex'[e] < k /\ k <= made[e].total)
               <=> (nextIndex[e] < k /\ k <= made[e].total /\ <<e, k>> # q)
  <2>1. CASE e = id
    <3>1. <<e, k>> # q <=> k # nextIndex[id] + 1
      BY <1>4, <2>1
    <3>2. CASE IsLastMessage(id)
      <4>1. nextIndex[id] + 1 = made[id].total /\ e \notin LiveFrames'
        BY <1>1, <2>1, <3>2 DEF IsLastMessage
      <4> QED BY <1>2, <2>1, <3>1, <4>1
    <3>3. CASE ~IsLastMessage(id)
      <4>1. e \in LiveFrames'
        BY <1>1, <2>1, <3>3
      <4> QED BY <1>2, <1>3, <2>1, <3>1, <4>1
    <3> QED BY <3>2, <3>3
  <2>2. CASE e # id
    <3>1. <<e, k>> # q /\ e \in LiveFrames'
      BY <1>1, <1>4, <2>2
    <3> QED BY <1>3, <2>2, <3>1
  <2> QED BY <2>1, <2>2
<1>7. Unsent(LiveFrames)' = Unsent(LiveFrames) \ {q}
  <2>1. LiveFrames' \subseteq LiveFrames
    BY <1>1
  <2>2. Unsent(LiveFrames)' = {p \in LiveFrames' \X (1 .. MaxChunks) :
                                 nextIndex'[p[1]] < p[2] /\ p[2] <= made[p[1]].total}
    BY <1>1 DEF Unsent
  <2>3. Unsent(LiveFrames) = {p \in LiveFrames \X (1 .. MaxChunks) :
                                 nextIndex[p[1]] < p[2] /\ p[2] <= made[p[1]].total}
    BY DEF Unsent
  <2> QED BY <1>6, <2>1, <2>2, <2>3
<1>8. Cardinality(Unsent(LiveFrames))' = Cardinality(Unsent(LiveFrames)) - 1
  BY <1>5, <1>7, QueueIsFinite, FS_RemoveElement
<1>9. Cardinality(Cancelling)' = Cardinality(Cancelling)
  BY <1>1
<1> QED BY <1>8, <1>9, QueueIsFinite DEF AccountsForTheQueue

(* A written cancellation leaves the queue and its accounts.                *)
LEMMA CancelAccounts ==
  ASSUME LanesInv, AccountsForTheQueue, NEW id, CancelStep(id), queuedBytes' = queuedBytes - 1
  PROVE  AccountsForTheQueue'
<1>1. made' = made /\ nextIndex' = nextIndex /\ LiveFrames' = LiveFrames
      /\ Cancelling' = Cancelling \ {id} /\ id \in Cancelling
  BY DEF CancelStep
<1>2. Unsent(LiveFrames)' = Unsent(LiveFrames)
  BY <1>1 DEF Unsent
<1>3. Cardinality(Cancelling)' = Cardinality(Cancelling) - 1
  BY <1>1, QueueIsFinite, FS_RemoveElement
<1> QED BY <1>2, <1>3, QueueIsFinite DEF AccountsForTheQueue

(* A failed queue accounts for nothing.                                     *)
LEMMA OverflowAccounts ==
  ASSUME NEW purpose, NEW total, Overflows(purpose, total)
  PROVE  AccountsForTheQueue'
<1>1. control' = <<>> /\ bulk' = <<>> /\ queuedBytes' = 0
  BY DEF Overflows
<1>2. LiveFrames' = {}
  BY <1>1, EmptyLane DEF LiveFrames
<1>3. Unsent(LiveFrames)' = {}
  BY <1>2 DEF Unsent
<1>4. Cancelling' = {}
  BY <1>1 DEF Cancelling
<1>5. Cardinality({}) = 0
  BY FS_EmptySet
<1>6. Cardinality(Unsent(LiveFrames))' = 0
  BY <1>3, <1>5
<1>7. Cardinality(Cancelling)' = 0
  BY <1>4, <1>5
<1> QED BY <1>1, <1>6, <1>7 DEF AccountsForTheQueue

(* A cancelled transfer leaves the accounts, but for its cancellations.     *)
LEMMA SubscribeAccounts ==
  ASSUME LanesInv, AccountsForTheQueue, Subscribe
  PROVE  AccountsForTheQueue'
<1>1. made' = made /\ nextIndex' = nextIndex
  BY DEF Subscribe
<1>2. LiveFrames' = FramesIn(control)
  BY SubscribeKeeps
<1>3. FramesIn(control) \cap FramesIn(bulk) = {}
  <2>1. ASSUME NEW id \in FramesIn(control), id \in FramesIn(bulk)
        PROVE  FALSE
    <3>1. PICK i \in DOMAIN control : id \in FramesOf(control[i])
      BY InLane
    <3>2. PICK j \in DOMAIN bulk : id \in FramesOf(bulk[j])
      BY <2>1, InLane
    <3>3. IsControl(id)
      BY <3>1, ControlItems DEF Part
    <3>4. ~IsControl(id)
      BY <3>2 DEF LanesInv, BulkIsOrdered
    <3> QED BY <3>3, <3>4
  <2> QED BY <2>1
<1>4. PICK C : C = Unsent(FramesIn(control))
  OBVIOUS
<1>5. PICK B : B = Unsent(FramesIn(bulk))
  OBVIOUS
<1>6. Unsent(LiveFrames) = C \cup B /\ C \cap B = {}
  BY <1>3, <1>4, <1>5 DEF Unsent, LiveFrames
<1>7. /\ IsFiniteSet(C) /\ IsFiniteSet(B) /\ Cardinality(C) \in Nat /\ Cardinality(B) \in Nat
  <2>1. FramesIn(control) \in SUBSET Id /\ FramesIn(bulk) \in SUBSET Id
    BY QueueIsFinite DEF LiveFrames
  <2> QED BY <1>4, <1>5, <2>1, UnsentIsFinite
<1>8. Cardinality(Unsent(LiveFrames)) = Cardinality(C) + Cardinality(B)
  BY <1>6, <1>7, TwoParts
<1>9. Unsent(LiveFrames)' = C
  BY <1>1, <1>2, <1>4 DEF Unsent
<1>10. Discarded = Cardinality(B)
  BY <1>5 DEF Discarded, StaleFrames
<1>11. Cardinality(Unsent(LiveFrames))' = Cardinality(C)
  BY <1>9
<1>12. CASE control' = control /\ queuedBytes' = queuedBytes - Discarded
  <2>1. Cardinality(Cancelling)' = Cardinality(Cancelling)
    BY <1>12 DEF Cancelling
  <2> QED BY <1>7, <1>8, <1>10, <1>11, <1>12, <2>1, QueueIsFinite DEF AccountsForTheQueue
<1>13. ASSUME NEW x \in FramesIn(bulk), queuedBytes' = queuedBytes - Discarded + 1,
              DOMAIN control' = 1 .. Len(control) + 1,
              control'[1] = Cancellation(x),
              \A i \in DOMAIN control : control'[i + 1] = control[i]
       PROVE  AccountsForTheQueue'
  <2>1. DOMAIN control = 1 .. Len(control) /\ Len(control) \in Nat
    BY DEF LanesInv, LaneTypes
  <2>2. x \notin Cancelling /\ x \in Id
    BY LiveIsHeld DEF LiveFrames
  <2>3. ASSUME NEW e
        PROVE  (\E i \in DOMAIN control' : control'[i] = Cancellation(e))
                 <=> (e = x \/ \E i \in DOMAIN control : control[i] = Cancellation(e))
    <3>1. Cancellation(e) = Cancellation(x) <=> e = x
      BY DEF Cancellation
    <3>2. ASSUME NEW i \in DOMAIN control', i # 1
          PROVE  i - 1 \in DOMAIN control /\ control'[i] = control[i - 1]
      <4>1. i - 1 \in DOMAIN control /\ (i - 1) + 1 = i
        BY <1>13, <2>1, <3>2
      <4> QED BY <1>13, <4>1
    <3>3. \A i \in DOMAIN control : i + 1 \in DOMAIN control'
      BY <1>13, <2>1
    <3>4. 1 \in DOMAIN control'
      BY <1>13, <2>1
    <3> QED BY <1>13, <3>1, <3>2, <3>3, <3>4
  <2>4. Cancelling' = Cancelling \cup {x}
    BY <2>2, <2>3 DEF Cancelling
  <2>5. Cardinality(Cancelling)' = Cardinality(Cancelling) + 1
    BY <2>2, <2>4, QueueIsFinite, FS_AddElement
  <2> QED BY <1>7, <1>8, <1>10, <1>11, <1>13, <2>5, QueueIsFinite DEF AccountsForTheQueue
<1> QED BY <1>12, <1>13, SubscribeShape

(* Every step keeps the accounts.                                           *)
LEMMA AccountsStep ==
  ASSUME LanesInv, AccountsForTheQueue, FrameNext
  PROVE  AccountsForTheQueue'
<1>1. CASE WritesNothing
  BY <1>1, QuietKeeps, CreationAccounts, OverflowAccounts, SubscribeAccounts, SameAccounts
<1>2. CASE Receive
  <2>1. /\ queuedBytes' = queuedBytes /\ nextIndex' = nextIndex /\ made' = made
        /\ control' = control /\ bulk' = bulk
    BY <1>2 DEF Receive
  <2>2. LiveFrames' = LiveFrames /\ Cancelling' = Cancelling
    BY <2>1 DEF LiveFrames, Cancelling
  <2> QED BY <2>1, <2>2, SameAccounts DEF SameQueue
<1> QED BY <1>1, <1>2, LanesStep, WriteAccounts, CancelAccounts

-------------------------------------------------------------------------------
(* The messages on the carrier are of frames that are known.                *)
LEMMA WireFacts ==
  ASSUME LanesInv, DecoderInv
  PROVE  /\ wire \in Seq(Envelope) /\ DOMAIN wire = 1 .. Len(wire) /\ Len(wire) \in Nat
         /\ \A i \in DOMAIN wire :
              /\ wire[i] \in Envelope /\ wire[i].id \in Id /\ wire[i].id \in 1 .. nextFrameId
              /\ wire[i].kind \in {"chunk", "cancel"}
              /\ wire[i].kind = "chunk" => wire[i].index \in Nat /\ wire[i].index < nextIndex[wire[i].id]
              /\ i \in Nat \ {0}
         /\ \A id : (id \in Id /\ Started(id)) => id \in 1 .. nextFrameId /\ nextIndex[id] > 0
<1>1. wire \in Seq(Envelope) /\ FramesAreKnown
  BY DEF LanesInv, LaneTypes
<1>2. DOMAIN wire = 1 .. Len(wire) /\ Len(wire) \in Nat
  BY <1>1
<1>3. ASSUME NEW i \in DOMAIN wire
      PROVE  /\ wire[i] \in Envelope /\ wire[i].id \in Id /\ wire[i].id \in 1 .. nextFrameId
             /\ wire[i].kind \in {"chunk", "cancel"}
             /\ wire[i].kind = "chunk" => wire[i].index \in Nat /\ wire[i].index < nextIndex[wire[i].id]
             /\ i \in Nat \ {0}
  <2>1. wire[i] \in Envelope
    BY <1>1, <1>2
  <2>2. wire[i].id \in Id /\ wire[i].kind \in {"chunk", "cancel"}
        /\ (wire[i].kind = "chunk" => wire[i].index \in Nat)
    BY <2>1, ConstantsAssumption DEF Envelope, ConstantsAssumption
  <2>3. wire[i].kind = "chunk" => wire[i].index < nextIndex[wire[i].id]
    BY <1>1 DEF FramesAreKnown
  <2>4. wire[i].id \in 1 .. nextFrameId
    <3>1. CASE wire[i].kind = "chunk"
      <4>1. nextIndex[wire[i].id] > 0
        BY <2>2, <2>3, <3>1, MadeFacts
      <4>2. wire[i].id <= nextFrameId
        BY <1>1, <2>2, <4>1 DEF FramesAreKnown
      <4> QED BY <2>2, <4>2, MadeFacts DEF Id
    <3>2. CASE wire[i].kind = "cancel"
      BY <3>2, MadeFacts DEF DecoderInv, ChunksInOrder
    <3> QED BY <2>2, <3>1, <3>2
  <2>5. i \in Nat \ {0}
    BY <1>2
  <2> QED BY <2>1, <2>2, <2>3, <2>4, <2>5
<1>4. ASSUME NEW id \in Id, Started(id)
      PROVE  id \in 1 .. nextFrameId /\ nextIndex[id] > 0
  <2>1. nextIndex[id] > 0
    <3>1. CASE pending[id] > 0
      BY <1>1, <3>1, MadeFacts DEF FramesAreKnown
    <3>2. CASE \E i \in DOMAIN wire : IsChunkOf(wire[i], id)
      BY <1>3, <3>2, MadeFacts DEF IsChunkOf
    <3> QED BY <1>4, <3>1, <3>2 DEF Started
  <2>2. id <= nextFrameId
    BY <1>1, <2>1 DEF FramesAreKnown
  <2> QED BY <2>1, <2>2, MadeFacts DEF Id
<1> QED BY <1>1, <1>2, <1>3, <1>4

(* What the browser may know of a frame was begun.                          *)
LEMMA TouchedIsStarted ==
  ASSUME NEW id, NEW n
  PROVE  Touched(id, n) => Started(id)
BY DEF Touched, Started

(* A step that writes nothing.                                              *)
LEMMA QuietDecodes ==
  ASSUME LanesInv, DecoderInv, QuietStep, LanesInv'
  PROVE  DecoderInv'
<1>1. nextIndex' = nextIndex /\ wire' = wire /\ pending' = pending
  BY DEF QuietStep
<1>0. broken' = broken
  BY DEF QuietStep
<1>2. nextFrameId \in Nat /\ nextFrameId <= nextFrameId'
      /\ \A id \in 1 .. nextFrameId : made'[id] = made[id]
  BY MadeFacts DEF QuietStep
<1>3. /\ DOMAIN wire = 1 .. Len(wire) /\ Len(wire) \in Nat
      /\ \A i \in DOMAIN wire : wire[i].id \in 1 .. nextFrameId
      /\ \A id : (id \in Id /\ Started(id)) => id \in 1 .. nextFrameId /\ nextIndex[id] > 0
  BY WireFacts
<1>9. 1 .. nextFrameId' \subseteq Id /\ nextFrameId' \in Nat
  <2>1. PICK N : N = nextFrameId'
    OBVIOUS
  <2>2. N \in 0 .. MaxFrames
    BY <2>1 DEF LanesInv, LaneTypes
  <2>3. 1 .. N \subseteq Id /\ N \in Nat
    BY <2>2, MadeFacts DEF Id
  <2> QED BY <2>1, <2>3
<1>4. ChunksInOrder /\ OneInPieces /\ ~broken
  BY DEF DecoderInv
<1>5. \A id : Started(id)' <=> Started(id)
  BY <1>1 DEF Started
<1>6. ASSUME NEW id \in 1 .. nextFrameId
      PROVE  (IsControl(id)' <=> IsControl(id)) /\ (Ended(id)' <=> Ended(id))
             /\ \A n : (Closed(id, n)' <=> Closed(id, n)) /\ (Touched(id, n)' <=> Touched(id, n))
  BY <1>1, <1>2 DEF IsControl, Ended, Closed, Closes, Touched
<1>7. ChunksInOrder'
  <2>1. \A i \in DOMAIN wire : wire[i].kind = "cancel" => wire[i].id \in dropped'
    BY <1>4 DEF ChunksInOrder, QuietStep
  <2>2. ASSUME NEW id \in LiveFrames', pending[id] < nextIndex[id]
        PROVE  \E i \in DOMAIN wire : IsChunkOf(wire[i], id) /\ wire[i].index + 1 = nextIndex[id]
    <3>1. CASE id \in LiveFrames
      BY <1>4, <2>2, <3>1 DEF ChunksInOrder
    <3>2. CASE id \in nextFrameId + 1 .. nextFrameId'
      <4>1. id \in Id
        BY <1>2, <1>9, <3>2
      <4>2. nextIndex[id] = 0
        <5>1. ~(id <= nextFrameId) /\ nextIndex[id] \in Nat
          BY <1>2, <3>2, <4>1, MadeFacts
        <5> QED BY <4>1, <5>1 DEF LanesInv, FramesAreKnown
      <4> QED BY <2>2, <4>1, <4>2, MadeFacts
    <3> QED BY <3>1, <3>2 DEF QuietStep
  <2> QED BY <1>1, <1>4, <2>1, <2>2 DEF ChunksInOrder
<1>8. OneInPieces'
  <2>1. ASSUME open', NEW id \in Id, Started(id)'
        PROVE  Ended(id)' \/ id \in LiveFrames' \/ id \in Cancelling'
    <3>1. open /\ Started(id) /\ id \in 1 .. nextFrameId /\ nextIndex[id] > 0
      BY <1>3, <1>5, <2>1 DEF QuietStep
    <3>2. Ended(id) \/ id \in LiveFrames \/ id \in Cancelling
      BY <1>4, <3>1 DEF OneInPieces
    <3>3. CASE Ended(id)
      BY <1>6, <3>1, <3>3
    <3>4. CASE id \in LiveFrames
      BY <2>1, <3>1, <3>4 DEF QuietStep
    <3>5. CASE id \in Cancelling
      BY <2>1, <3>5 DEF QuietStep
    <3> QED BY <3>2, <3>3, <3>4, <3>5
  <2>2. ASSUME NEW i \in DOMAIN wire', NEW id \in 1 .. nextFrameId',
               wire'[i].kind = "chunk", id # wire'[i].id, SameLane(id, wire[i].id)', Touched(id, i)'
        PROVE  Closed(id, i)'
    <3>1. id \in Id
      BY <1>9, <2>2
    <3>2. Started(id)
      BY <1>1, <2>2 DEF Touched, Started
    <3>3. id \in 1 .. nextFrameId /\ wire[i].id \in 1 .. nextFrameId
      BY <1>1, <1>3, <2>2, <3>1, <3>2
    <3>4. SameLane(id, wire[i].id)
      BY <1>1, <1>2, <2>2, <3>3 DEF SameLane, IsControl
    <3>5. Touched(id, i)
      BY <1>6, <2>2, <3>3
    <3>6. Closed(id, i)
      BY <1>1, <1>4, <2>2, <3>3, <3>4, <3>5 DEF OneInPieces
    <3> QED BY <1>6, <3>3, <3>6
  <2>3. ASSUME NEW id \in 1 .. nextFrameId', NEW e \in 1 .. nextFrameId', pending'[id] > 0, pending'[e] > 0, id # e
        PROVE  ~SameLane(id, e)'
    <3>1. id \in Id /\ e \in Id
      BY <1>9, <2>3
    <3>2. Started(id) /\ Started(e)
      BY <1>1, <2>3 DEF Started
    <3>3. id \in 1 .. nextFrameId /\ e \in 1 .. nextFrameId
      BY <1>3, <3>1, <3>2
    <3>4. ~SameLane(id, e)
      BY <1>1, <1>4, <2>3, <3>3 DEF OneInPieces
    <3> QED BY <1>6, <3>3, <3>4 DEF SameLane
  <2> QED BY <2>1, <2>2, <2>3 DEF OneInPieces
<1> QED BY <1>0, <1>4, <1>7, <1>8 DEF DecoderInv

(* A message is appended to the carrier.                                    *)
LEMMA Appended ==
  ASSUME LanesInv, NEW c, wire' = Append(wire, c)
  PROVE  /\ DOMAIN wire' = 1 .. Len(wire) + 1 /\ DOMAIN wire = 1 .. Len(wire) /\ Len(wire) \in Nat
         /\ Len(wire) + 1 \in DOMAIN wire' /\ wire'[Len(wire) + 1] = c /\ Len(wire) + 1 \notin DOMAIN wire
         /\ \A i \in DOMAIN wire : i \in DOMAIN wire' /\ wire'[i] = wire[i] /\ i < Len(wire) + 1
         /\ \A i \in DOMAIN wire' : i \in DOMAIN wire \/ i = Len(wire) + 1
         /\ \A i, j \in DOMAIN wire' : i < j => i \in DOMAIN wire
<1>1. wire \in Seq(Envelope)
  BY DEF LanesInv, LaneTypes
<1>2. /\ DOMAIN wire' = 1 .. Len(wire) + 1 /\ DOMAIN wire = 1 .. Len(wire) /\ Len(wire) \in Nat
      /\ wire'[Len(wire) + 1] = c /\ \A i \in 1 .. Len(wire) : wire'[i] = wire[i]
  BY <1>1
<1>3. /\ DOMAIN wire = 1 .. Len(wire) /\ Len(wire) \in Nat /\ DOMAIN wire' = 1 .. Len(wire) + 1
  BY <1>2
<1>4. /\ Len(wire) + 1 \in DOMAIN wire' /\ Len(wire) + 1 \notin DOMAIN wire
      /\ \A i \in DOMAIN wire : i \in DOMAIN wire' /\ i < Len(wire) + 1
      /\ \A i \in DOMAIN wire' : i \in DOMAIN wire \/ i = Len(wire) + 1
      /\ \A i, j \in DOMAIN wire' : i < j => i \in DOMAIN wire
  BY <1>3
<1> QED BY <1>2, <1>4

(* A message of a frame is written behind those of its lane.                *)
LEMMA WriteDecodes ==
  ASSUME LanesInv, DecoderInv, NEW id \in LiveFrames, WriteStep(id)
  PROVE  DecoderInv'
<1>1. made' = made /\ pending' = pending /\ dropped' = dropped
      /\ nextIndex' = [nextIndex EXCEPT ![id] = @ + 1]
      /\ Cancelling' = Cancelling
      /\ LiveFrames' = (IF IsLastMessage(id) THEN LiveFrames \ {id} ELSE LiveFrames)
  BY DEF WriteStep
<1>0. broken' = broken /\ open' = open
  BY DEF WriteStep
<1>2. PICK c : c = Chunk(id)
  OBVIOUS
<1>3. PICK l : l = Len(wire) + 1
  OBVIOUS
<1>4. /\ l \in DOMAIN wire' /\ wire'[l] = c /\ l \notin DOMAIN wire
      /\ \A i \in DOMAIN wire : i \in DOMAIN wire' /\ wire'[i] = wire[i] /\ i < l
      /\ \A i \in DOMAIN wire' : i \in DOMAIN wire \/ i = l
      /\ \A i, j \in DOMAIN wire' : i < j => i \in DOMAIN wire
  BY <1>2, <1>3, Appended DEF WriteStep
<1>5. c.kind = "chunk" /\ c.id = id /\ c.index = nextIndex[id]
  BY <1>2 DEF Chunk
<1>6. /\ id \in Id /\ id \in 1 .. nextFrameId /\ nextIndex[id] < made[id].total
      /\ nextIndex[id] \in Nat /\ id \notin dropped
  BY LiveIsHeld
<1>7. nextIndex'[id] = nextIndex[id] + 1 /\ \A e : e # id => nextIndex'[e] = nextIndex[e]
  BY <1>1, <1>6 DEF LanesInv, LaneTypes
<1>8. ChunksInOrder /\ OneInPieces /\ ~broken
  BY DEF DecoderInv
<1>9. /\ \A i \in DOMAIN wire :
           /\ wire[i].id \in Id /\ wire[i].kind \in {"chunk", "cancel"}
           /\ wire[i].kind = "chunk" => wire[i].index \in Nat /\ wire[i].index < nextIndex[wire[i].id]
      /\ \A e : (e \in Id /\ Started(e)) => e \in 1 .. nextFrameId /\ nextIndex[e] > 0
  BY WireFacts
<1>10. ChunksInOrder'
  <2>1. ASSUME NEW i \in DOMAIN wire', NEW j \in DOMAIN wire',
               i < j, wire'[j].kind = "chunk", wire'[i].id = wire'[j].id
        PROVE  wire'[i].kind = "chunk" /\ wire'[i].index < wire'[j].index
    <3>1. i \in DOMAIN wire /\ wire'[i] = wire[i]
      BY <1>4, <2>1
    <3>2. CASE j \in DOMAIN wire
      BY <1>4, <1>8, <2>1, <3>1, <3>2 DEF ChunksInOrder
    <3>3. CASE j = l
      <4>1. wire[i].id = id
        BY <1>4, <1>5, <2>1, <3>1, <3>3
      <4>2. wire[i].kind = "chunk"
        BY <1>6, <1>8, <1>9, <3>1, <4>1 DEF ChunksInOrder
      <4> QED BY <1>4, <1>5, <1>9, <3>1, <3>3, <4>1, <4>2
    <3> QED BY <1>4, <3>2, <3>3
  <2>2. ASSUME NEW i \in DOMAIN wire', wire'[i].kind = "chunk"
        PROVE  /\ pending[wire'[i].id] <= wire'[i].index
               /\ wire'[i].index > pending[wire'[i].id] =>
                    \E j \in DOMAIN wire' : j < i /\ IsChunkOf(wire'[j], wire'[i].id) /\ wire'[j].index + 1 = wire'[i].index
    <3>1. CASE i \in DOMAIN wire
      <4>1. /\ pending[wire[i].id] <= wire[i].index
            /\ wire[i].index > pending[wire[i].id] =>
                 \E j \in DOMAIN wire : j < i /\ IsChunkOf(wire[j], wire[i].id) /\ wire[j].index + 1 = wire[i].index
        BY <1>4, <1>8, <2>2, <3>1 DEF ChunksInOrder
      <4> QED BY <1>4, <3>1, <4>1
    <3>2. CASE i = l
      <4>1. pending[id] <= nextIndex[id] /\ pending[id] \in Nat
        BY <1>6, MadeFacts DEF LanesInv, FramesAreKnown
      <4>2. pending[id] < nextIndex[id] =>
              \E j \in DOMAIN wire : IsChunkOf(wire[j], id) /\ wire[j].index + 1 = nextIndex[id]
        BY <1>8 DEF ChunksInOrder
      <4> QED BY <1>4, <1>5, <3>2, <4>1, <4>2
    <3> QED BY <1>4, <3>1, <3>2
  <2>3. ASSUME NEW i \in DOMAIN wire', wire'[i].kind = "cancel"
        PROVE  wire'[i].id \in dropped
    BY <1>4, <1>5, <1>8, <2>3 DEF ChunksInOrder
  <2>4. ASSUME NEW e \in LiveFrames', pending[e] < nextIndex'[e]
        PROVE  \E i \in DOMAIN wire' : IsChunkOf(wire'[i], e) /\ wire'[i].index + 1 = nextIndex'[e]
    <3>1. CASE e = id
      BY <1>4, <1>5, <1>7, <3>1 DEF IsChunkOf
    <3>2. CASE e # id
      <4>1. e \in LiveFrames /\ nextIndex'[e] = nextIndex[e]
        BY <1>1, <1>7, <3>2
      <4>2. PICK i \in DOMAIN wire : IsChunkOf(wire[i], e) /\ wire[i].index + 1 = nextIndex[e]
        BY <1>8, <2>4, <4>1 DEF ChunksInOrder
      <4> QED BY <1>4, <4>1, <4>2
    <3> QED BY <3>1, <3>2
  <2> QED BY <1>1, <2>1, <2>2, <2>3, <2>4 DEF ChunksInOrder
<1>11. ASSUME NEW e
       PROVE  /\ Ended(e) => Ended(e)'
              /\ Started(e)' => Started(e) \/ e = id
              /\ \A n \in DOMAIN wire : (Touched(e, n)' => Touched(e, n)) /\ (Closed(e, n) => Closed(e, n)')
              /\ Touched(e, l)' => Started(e)
              /\ Ended(e) => Closed(e, l)'
  <2>1. Ended(e) => Ended(e)'
    BY <1>1, <1>4 DEF Ended, Closes
  <2>2. Started(e)' => Started(e) \/ e = id
    BY <1>1, <1>4, <1>5 DEF Started, IsChunkOf
  <2>3. ASSUME NEW n \in DOMAIN wire
        PROVE  (Touched(e, n)' => Touched(e, n)) /\ (Closed(e, n) => Closed(e, n)')
    <3>1. Touched(e, n)' => Touched(e, n)
      BY <1>1, <1>4 DEF Touched
    <3>2. Closed(e, n) => Closed(e, n)'
      BY <1>1, <1>4 DEF Closed, Closes
    <3> QED BY <3>1, <3>2
  <2>4. Touched(e, l)' => Started(e)
    BY <1>1, <1>4 DEF Touched, Started
  <2>5. Ended(e) => Closed(e, l)'
    BY <1>1, <1>4 DEF Ended, Closed, Closes
  <2> QED BY <2>1, <2>2, <2>3, <2>4, <2>5
<1>12. open
  <2>1. DOMAIN control # {} \/ DOMAIN bulk # {}
    <3>1. CASE id \in FramesIn(control)
      BY <3>1, InLane
    <3>2. CASE id \in FramesIn(bulk)
      BY <3>2, InLane
    <3> QED BY <3>1, <3>2 DEF LiveFrames
  <2> QED BY <2>1 DEF LanesInv, PayloadsFit
<1>13. OneInPieces'
  <2>1. ASSUME NEW e \in Id, Started(e)'
        PROVE  Ended(e)' \/ e \in LiveFrames' \/ e \in Cancelling'
    <3>1. CASE e = id
      <4>1. CASE IsLastMessage(id)
        <5>1. Closes(c, id)'
          BY <1>1, <1>5, <4>1 DEF Closes, IsLastMessage
        <5> QED BY <1>4, <3>1, <5>1 DEF Ended
      <4>2. CASE ~IsLastMessage(id)
        BY <1>1, <3>1, <4>2
      <4> QED BY <4>1, <4>2
    <3>2. CASE e # id
      <4>1. Ended(e) \/ e \in LiveFrames \/ e \in Cancelling
        BY <1>8, <1>11, <1>12, <2>1, <3>2 DEF OneInPieces
      <4> QED BY <1>1, <1>11, <3>2, <4>1
    <3> QED BY <3>1, <3>2
  <2>2. ASSUME NEW i \in DOMAIN wire', NEW e \in 1 .. nextFrameId,
               wire'[i].kind = "chunk", e # wire'[i].id, SameLane(e, wire'[i].id), Touched(e, i)'
        PROVE  Closed(e, i)'
    <3>1. CASE i \in DOMAIN wire
      <4>1. Closed(e, i)
        BY <1>4, <1>8, <1>11, <2>2, <3>1 DEF OneInPieces
      <4> QED BY <1>11, <3>1, <4>1
    <3>2. CASE i = l
      <4>1. e # id /\ SameLane(id, e) /\ Started(e) /\ e \in Id
        BY <1>4, <1>5, <1>11, <2>2, <3>2, MadeFacts DEF SameLane
      <4>2. nextIndex[e] > 0
        BY <1>9, <4>1
      <4>3. e \notin LiveFrames /\ e \notin Cancelling
        BY <4>1, <4>2 DEF WriteStep
      <4>4. Ended(e)
        BY <1>8, <1>12, <4>1, <4>3 DEF OneInPieces
      <4> QED BY <1>11, <3>2, <4>4
    <3> QED BY <1>4, <3>1, <3>2
  <2>3. nextFrameId' = nextFrameId /\ \A a, b : SameLane(a, b)' <=> SameLane(a, b)
    BY <1>1 DEF nextFrameId, SameLane, IsControl
  <2>4. \A a, e \in 1 .. nextFrameId : pending[a] > 0 /\ pending[e] > 0 /\ a # e => ~SameLane(a, e)
    BY <1>8 DEF OneInPieces
  <2> QED BY <1>1, <2>1, <2>2, <2>3, <2>4 DEF OneInPieces, SameLane, IsControl
<1> QED BY <1>0, <1>8, <1>10, <1>13 DEF DecoderInv

(* A cancellation is written behind what it cancels.                        *)
LEMMA CancelDecodes ==
  ASSUME LanesInv, DecoderInv, NEW id, CancelStep(id)
  PROVE  DecoderInv'
<1>1. made' = made /\ pending' = pending /\ dropped' = dropped /\ nextIndex' = nextIndex
      /\ LiveFrames' = LiveFrames /\ Cancelling' = Cancelling \ {id} /\ id \in dropped
  BY DEF CancelStep
<1>0. broken' = broken /\ open' = open
  BY DEF CancelStep
<1>2. PICK c : c = Cancellation(id)
  OBVIOUS
<1>3. PICK l : l = Len(wire) + 1
  OBVIOUS
<1>4. /\ l \in DOMAIN wire' /\ wire'[l] = c /\ l \notin DOMAIN wire
      /\ \A i \in DOMAIN wire : i \in DOMAIN wire' /\ wire'[i] = wire[i] /\ i < l
      /\ \A i \in DOMAIN wire' : i \in DOMAIN wire \/ i = l
      /\ \A i, j \in DOMAIN wire' : i < j => i \in DOMAIN wire
  BY <1>2, <1>3, Appended DEF CancelStep
<1>5. c.kind = "cancel" /\ c.id = id
  BY <1>2 DEF Cancellation
<1>8. ChunksInOrder /\ OneInPieces /\ ~broken
  BY DEF DecoderInv
<1>9. \A i \in DOMAIN wire' : wire'[i].kind = "chunk" => i \in DOMAIN wire /\ wire'[i] = wire[i]
  BY <1>4, <1>5
<1>10. ChunksInOrder'
  <2>1. ASSUME NEW i \in DOMAIN wire', NEW j \in DOMAIN wire',
               i < j, wire'[j].kind = "chunk", wire'[i].id = wire'[j].id
        PROVE  wire'[i].kind = "chunk" /\ wire'[i].index < wire'[j].index
    BY <1>4, <1>8, <1>9, <2>1 DEF ChunksInOrder
  <2>2. ASSUME NEW i \in DOMAIN wire', wire'[i].kind = "chunk"
        PROVE  /\ pending[wire'[i].id] <= wire'[i].index
               /\ wire'[i].index > pending[wire'[i].id] =>
                    \E j \in DOMAIN wire' : j < i /\ IsChunkOf(wire'[j], wire'[i].id) /\ wire'[j].index + 1 = wire'[i].index
    <3>1. /\ pending[wire[i].id] <= wire[i].index
          /\ wire[i].index > pending[wire[i].id] =>
               \E j \in DOMAIN wire : j < i /\ IsChunkOf(wire[j], wire[i].id) /\ wire[j].index + 1 = wire[i].index
      BY <1>8, <1>9, <2>2 DEF ChunksInOrder
    <3> QED BY <1>4, <1>9, <2>2, <3>1
  <2>3. ASSUME NEW i \in DOMAIN wire', wire'[i].kind = "cancel"
        PROVE  wire'[i].id \in dropped
    BY <1>1, <1>4, <1>5, <1>8, <2>3 DEF ChunksInOrder
  <2>4. ASSUME NEW e \in LiveFrames, pending[e] < nextIndex[e]
        PROVE  \E i \in DOMAIN wire' : IsChunkOf(wire'[i], e) /\ wire'[i].index + 1 = nextIndex[e]
    <3>1. PICK i \in DOMAIN wire : IsChunkOf(wire[i], e) /\ wire[i].index + 1 = nextIndex[e]
      BY <1>8, <2>4 DEF ChunksInOrder
    <3> QED BY <1>4, <3>1
  <2> QED BY <1>1, <2>1, <2>2, <2>3, <2>4 DEF ChunksInOrder
<1>11. ASSUME NEW e
       PROVE  /\ Ended(e) => Ended(e)'
              /\ Started(e)' => Started(e)
              /\ \A n \in DOMAIN wire : (Touched(e, n)' => Touched(e, n)) /\ (Closed(e, n) => Closed(e, n)')
  <2>1. Ended(e) => Ended(e)'
    BY <1>1, <1>4 DEF Ended, Closes
  <2>2. Started(e)' => Started(e)
    BY <1>1, <1>9 DEF Started, IsChunkOf
  <2>3. ASSUME NEW n \in DOMAIN wire
        PROVE  (Touched(e, n)' => Touched(e, n)) /\ (Closed(e, n) => Closed(e, n)')
    <3>1. Touched(e, n)' => Touched(e, n)
      BY <1>1, <1>4 DEF Touched
    <3>2. Closed(e, n) => Closed(e, n)'
      BY <1>1, <1>4 DEF Closed, Closes
    <3> QED BY <3>1, <3>2
  <2> QED BY <2>1, <2>2, <2>3
<1>12. Ended(id)'
  <2>1. Closes(c, id)'
    BY <1>5 DEF Closes
  <2> QED BY <1>4, <2>1 DEF Ended
<1>13. OneInPieces'
  <2>1. ASSUME open, NEW e \in Id, Started(e)'
        PROVE  Ended(e)' \/ e \in LiveFrames' \/ e \in Cancelling'
    <3>1. Ended(e) \/ e \in LiveFrames \/ e \in Cancelling
      BY <1>8, <1>11, <2>1 DEF OneInPieces
    <3> QED BY <1>1, <1>11, <1>12, <3>1
  <2>2. ASSUME NEW i \in DOMAIN wire', NEW e \in 1 .. nextFrameId,
               wire'[i].kind = "chunk", e # wire'[i].id, SameLane(e, wire'[i].id), Touched(e, i)'
        PROVE  Closed(e, i)'
    <3>1. i \in DOMAIN wire /\ wire'[i] = wire[i]
      BY <1>9, <2>2
    <3>2. Closed(e, i)
      BY <1>8, <1>11, <2>2, <3>1 DEF OneInPieces
    <3> QED BY <1>11, <3>1, <3>2
  <2>3. nextFrameId' = nextFrameId /\ \A a, b : SameLane(a, b)' <=> SameLane(a, b)
    BY <1>1 DEF nextFrameId, SameLane, IsControl
  <2>4. \A a, e \in 1 .. nextFrameId : pending[a] > 0 /\ pending[e] > 0 /\ a # e => ~SameLane(a, e)
    BY <1>8 DEF OneInPieces
  <2> QED BY <1>0, <1>1, <2>1, <2>2, <2>3, <2>4 DEF OneInPieces, SameLane, IsControl
<1> QED BY <1>0, <1>8, <1>10, <1>13 DEF DecoderInv

-------------------------------------------------------------------------------
(* The decoder has at most one frame of each lane in pieces.                *)
LEMMA AtMostOne ==
  ASSUME NEW S, \A a, b \in S : a = b
  PROVE  IsFiniteSet(S) /\ Cardinality(S) \in {0, 1}
<1>1. CASE S = {}
  BY <1>1, FS_EmptySet
<1>2. CASE S # {}
  <2>1. PICK a : S = {a}
    BY <1>2
  <2> QED BY <2>1, FS_Singleton
<1> QED BY <1>1, <1>2

(* One frame of each lane, and none beside the frame of a lane that starts. *)
LEMMA FewArePending ==
  ASSUME LanesInv, DecoderInv
  PROVE  /\ NumberPending \in 0 .. 2
         /\ \A x \in 1 .. nextFrameId :
              (\A e \in 1 .. nextFrameId : pending[e] > 0 => ~SameLane(e, x)) => NumberPending \in 0 .. 1
<1> DEFINE P == {id \in Id : pending[id] > 0}
           C == {id \in P : IsControl(id)}
           B == {id \in P : ~IsControl(id)}
<1>1. \A id, e \in 1 .. nextFrameId : pending[id] > 0 /\ pending[e] > 0 /\ id # e => ~SameLane(id, e)
  BY DEF DecoderInv, OneInPieces
<1>2. \A id \in P : id \in 1 .. nextFrameId
  BY WireFacts DEF Started
<1>3. (\A a, b \in C : a = b) /\ (\A a, b \in B : a = b)
  BY <1>1, <1>2 DEF SameLane
<1>4. P = C \cup B /\ C \cap B = {}
  OBVIOUS
<1>5. NumberPending = Cardinality(P)
  BY DEF NumberPending
<1> HIDE DEF P, C, B
<1>6. IsFiniteSet(C) /\ Cardinality(C) \in {0, 1} /\ IsFiniteSet(B) /\ Cardinality(B) \in {0, 1}
  BY <1>3, AtMostOne
<1>7. Cardinality(P) = Cardinality(C) + Cardinality(B)
  BY <1>4, <1>6, FS_Union, FS_EmptySet
<1>8. ASSUME NEW x \in 1 .. nextFrameId,
             \A e \in 1 .. nextFrameId : pending[e] > 0 => ~SameLane(e, x)
      PROVE  NumberPending \in 0 .. 1
  <2>1. C = {} \/ B = {}
    BY <1>2, <1>8 DEF SameLane, C, B, P
  <2> QED BY <1>5, <1>6, <1>7, <2>1, FS_EmptySet
<1> QED BY <1>5, <1>6, <1>7, <1>8

(* What follows the message moves up by one.                                *)
MovesUp ==
  /\ \A i \in DOMAIN wire' : i + 1 \in DOMAIN wire /\ wire'[i] = wire[i + 1] /\ i + 1 # 1 /\ 1 < i + 1
  /\ \A i \in DOMAIN wire : i # 1 => i - 1 \in DOMAIN wire' /\ wire'[i - 1] = wire[i]
  /\ \A i \in DOMAIN wire', j \in DOMAIN wire : j < i + 1 /\ j # 1 => j - 1 < i
  /\ \A i, j \in DOMAIN wire' : i < j => i + 1 < j + 1

(* The decoder never refuses a message: it is the next one of its frame,    *)
(* and no other frame of its lane is in pieces.                             *)
LEMMA ReceiveFits ==
  ASSUME LanesInv, DecoderInv, Receive
  PROVE  \E m \in Envelope :
           /\ m = wire[1] /\ 1 \in DOMAIN wire /\ MovesUp /\ m.id \in Id /\ broken' = broken
           /\ AcceptCancellation(m) \/ AcceptWhole(m) \/ AcceptChunk(m)
           /\ m.kind = "chunk" =>
                /\ m.index = pending[m.id] /\ m.index \in Nat /\ m.index < nextIndex[m.id] /\ m.id \in 1 .. nextFrameId
                /\ made[m.id].total \in Nat /\ nextIndex[m.id] <= made[m.id].total /\ nextIndex[m.id] \in Nat
                /\ \A e \in 1 .. nextFrameId : e # m.id /\ pending[e] > 0 => ~SameLane(e, m.id)
<1>1. PICK m \in Envelope :
           /\ wire # <<>> /\ m = wire[1] /\ 1 \in DOMAIN wire /\ Accept(m)
           /\ wire' \in Seq(Envelope) /\ DOMAIN wire = 1 .. Len(wire) /\ Len(wire) \in Nat \ {0}
           /\ DOMAIN wire' = 1 .. Len(wire) - 1 /\ Len(wire') = Len(wire) - 1
           /\ \A i \in DOMAIN wire' : i + 1 \in DOMAIN wire /\ wire'[i] = wire[i + 1]
           /\ m.id \in Id
           /\ m.kind = "chunk" => /\ m.index \in Nat /\ m.index < nextIndex[m.id] /\ m.id \in 1 .. nextFrameId
                                  /\ made[m.id].total \in 1 .. MaxChunks /\ nextIndex[m.id] <= made[m.id].total
                                  /\ nextIndex[m.id] \in Nat /\ pending[m.id] \in Nat
  BY ReceiveShape
<1>2. DOMAIN wire = 1 .. Len(wire) /\ Len(wire) \in Nat \ {0} /\ DOMAIN wire' = 1 .. Len(wire) - 1
  BY <1>1
<1>3. \A i \in DOMAIN wire' : i + 1 \in DOMAIN wire /\ wire'[i] = wire[i + 1]
  BY <1>1
<1>4. /\ \A i \in DOMAIN wire' : i + 1 # 1 /\ 1 < i + 1
      /\ \A i \in DOMAIN wire : i # 1 => i - 1 \in DOMAIN wire' /\ (i - 1) + 1 = i
      /\ \A i \in DOMAIN wire', j \in DOMAIN wire : j < i + 1 /\ j # 1 => j - 1 < i
      /\ \A i, j \in DOMAIN wire' : i < j => i + 1 < j + 1
  BY <1>2
<1>5. \A i \in DOMAIN wire : i # 1 => wire'[i - 1] = wire[i]
  BY <1>3, <1>4
<1>6. MovesUp
  BY <1>3, <1>4, <1>5 DEF MovesUp
<1>7. ChunksInOrder /\ OneInPieces
  BY DEF DecoderInv
<1>8. \A j \in DOMAIN wire : ~(j < 1)
  BY <1>2
<1>9. ASSUME m.kind = "chunk"
      PROVE  /\ m.index = pending[m.id] /\ made[m.id].total \in Nat
             /\ \A e \in 1 .. nextFrameId : e # m.id /\ pending[e] > 0 => ~SameLane(e, m.id)
  <2>1. pending[m.id] <= m.index /\ ~(m.index > pending[m.id])
    BY <1>1, <1>7, <1>8, <1>9 DEF ChunksInOrder
  <2>2. m.index = pending[m.id] /\ made[m.id].total \in Nat
    BY <1>1, <1>9, <2>1
  <2>3. ASSUME NEW e \in 1 .. nextFrameId, e # m.id, pending[e] > 0, SameLane(e, m.id)
        PROVE  FALSE
    <3>1. Touched(e, 1)
      BY <2>3 DEF Touched
    <3>2. Closed(e, 1)
      BY <1>1, <1>7, <1>9, <2>3, <3>1 DEF OneInPieces
    <3> QED BY <1>8, <3>2 DEF Closed
  <2> QED BY <2>2, <2>3
<1>10. ~Refuse(m)
  <2>1. SUFFICES ASSUME Refuse(m) PROVE FALSE
    OBVIOUS
  <2>2. m.kind = "chunk" /\ ~IsExpected(m)
    BY <2>1 DEF Refuse
  <2>3. m.index = 0 /\ ~(NumberPending < MaxPending)
    BY <1>9, <2>2 DEF IsExpected
  <2>4. \A e \in 1 .. nextFrameId : pending[e] > 0 => ~SameLane(e, m.id)
    BY <1>9, <2>2, <2>3
  <2>5. NumberPending \in 0 .. 1
    BY <1>1, <2>2, <2>4, FewArePending
  <2> QED BY <2>3, <2>5, ConstantsAssumption DEF ConstantsAssumption
<1>11. AcceptCancellation(m) \/ AcceptWhole(m) \/ AcceptChunk(m)
  BY <1>1, <1>10 DEF Accept
<1>12. broken' = broken
  BY <1>11 DEF AcceptCancellation, AcceptWhole, AcceptChunk
<1> QED BY <1>1, <1>6, <1>9, <1>11, <1>12

(* The last message of a frame, or its cancellation, is received.           *)
LEMMA FinishDecodes ==
  ASSUME LanesInv, DecoderInv, MovesUp, NEW x \in Id,
         made' = made, nextIndex' = nextIndex, dropped' = dropped, open' = open, broken' = broken,
         LiveFrames' = LiveFrames, Cancelling' = Cancelling,
         1 \in DOMAIN wire, wire[1].id = x, x \notin LiveFrames,
         \A j \in DOMAIN wire : j # 1 => ~IsChunkOf(wire[j], x),
         pending'[x] = 0, \A e \in Id : e # x => pending'[e] = pending[e]
  PROVE  DecoderInv'
<1>1. ChunksInOrder /\ OneInPieces /\ ~broken
  BY DEF DecoderInv
<1>2. /\ \A i \in DOMAIN wire : wire[i].id \in Id /\ wire[i].kind \in {"chunk", "cancel"}
      /\ nextFrameId' = nextFrameId /\ 1 .. nextFrameId \subseteq Id
  BY WireFacts, MadeFacts DEF nextFrameId
<1>3. \A i \in DOMAIN wire' : wire'[i].kind = "chunk" => wire'[i].id # x /\ pending'[wire'[i].id] = pending[wire'[i].id]
  BY <1>2 DEF MovesUp, IsChunkOf
<1>4. ChunksInOrder'
  <2>1. ASSUME NEW i \in DOMAIN wire', NEW j \in DOMAIN wire',
               i < j, wire'[j].kind = "chunk", wire'[i].id = wire'[j].id
        PROVE  wire'[i].kind = "chunk" /\ wire'[i].index < wire'[j].index
    <3>1. i + 1 < j + 1 /\ i + 1 \in DOMAIN wire /\ j + 1 \in DOMAIN wire /\ wire'[i] = wire[i + 1] /\ wire'[j] = wire[j + 1]
      BY <2>1 DEF MovesUp
    <3> QED BY <1>1, <2>1, <3>1 DEF ChunksInOrder
  <2>2. ASSUME NEW i \in DOMAIN wire', wire'[i].kind = "chunk"
        PROVE  /\ pending'[wire'[i].id] <= wire'[i].index
               /\ wire'[i].index > pending'[wire'[i].id] =>
                    \E j \in DOMAIN wire' : j < i /\ IsChunkOf(wire'[j], wire'[i].id) /\ wire'[j].index + 1 = wire'[i].index
    <3>1. PICK k \in DOMAIN wire : k = i + 1 /\ wire'[i] = wire[k]
      BY DEF MovesUp
    <3>2. /\ pending[wire[k].id] <= wire[k].index
          /\ wire[k].index > pending[wire[k].id] =>
               \E j \in DOMAIN wire : j < k /\ IsChunkOf(wire[j], wire[k].id) /\ wire[j].index + 1 = wire[k].index
      BY <1>1, <2>2, <3>1 DEF ChunksInOrder
    <3>3. ASSUME NEW j \in DOMAIN wire, j < k, IsChunkOf(wire[j], wire[k].id)
          PROVE  j - 1 \in DOMAIN wire' /\ j - 1 < i /\ wire'[j - 1] = wire[j]
      BY <1>3, <2>2, <3>1, <3>3 DEF MovesUp, IsChunkOf
    <3> QED BY <1>3, <2>2, <3>1, <3>2, <3>3
  <2>3. ASSUME NEW i \in DOMAIN wire', wire'[i].kind = "cancel"
        PROVE  wire'[i].id \in dropped
    BY <1>1, <2>3 DEF ChunksInOrder, MovesUp
  <2>4. ASSUME NEW e \in LiveFrames, pending'[e] < nextIndex[e]
        PROVE  \E i \in DOMAIN wire' : IsChunkOf(wire'[i], e) /\ wire'[i].index + 1 = nextIndex[e]
    <3>1. e # x /\ e \in Id
      BY LiveIsHeld
    <3>2. PICK i \in DOMAIN wire : IsChunkOf(wire[i], e) /\ wire[i].index + 1 = nextIndex[e]
      BY <1>1, <2>4, <3>1 DEF ChunksInOrder
    <3>3. i # 1
      BY <3>1, <3>2 DEF IsChunkOf
    <3> QED BY <3>2, <3>3 DEF MovesUp
  <2> QED BY <2>1, <2>2, <2>3, <2>4 DEF ChunksInOrder
<1>5. ~Started(x)' /\ \A i : ~Touched(x, i)'
  BY DEF Started, Touched, MovesUp, IsChunkOf
<1>6. ASSUME NEW e \in Id, e # x
      PROVE  (Started(e)' => Started(e)) /\ (Ended(e) => Ended(e)')
  <2>1. Started(e)' => Started(e)
    BY <1>6 DEF Started, MovesUp
  <2>2. Ended(e) => Ended(e)'
    BY <1>6 DEF Ended, Closes, MovesUp
  <2> QED BY <2>1, <2>2
<1>7. OneInPieces'
  <2>1. ASSUME open, NEW e \in Id, Started(e)'
        PROVE  Ended(e)' \/ e \in LiveFrames \/ e \in Cancelling
    BY <1>1, <1>5, <1>6, <2>1 DEF OneInPieces
  <2>2. ASSUME NEW i \in DOMAIN wire', NEW e \in 1 .. nextFrameId,
               wire'[i].kind = "chunk", e # wire'[i].id, SameLane(e, wire'[i].id), Touched(e, i)'
        PROVE  Closed(e, i)'
    <3>1. PICK k \in DOMAIN wire : k = i + 1 /\ wire'[i] = wire[k]
      BY DEF MovesUp
    <3>2. e # x /\ e \in Id
      BY <1>2, <1>5, <2>2
    <3>3. Touched(e, k)
      <4>1. CASE pending'[e] > 0
        BY <3>2, <4>1 DEF Touched
      <4>2. CASE \E j \in DOMAIN wire' : j < i /\ IsChunkOf(wire'[j], e)
        <5>1. PICK j \in DOMAIN wire' : j < i /\ IsChunkOf(wire'[j], e)
          BY <4>2
        <5>2. j + 1 \in DOMAIN wire /\ j + 1 < k /\ wire'[j] = wire[j + 1]
          BY <3>1, <5>1 DEF MovesUp
        <5> QED BY <5>1, <5>2 DEF Touched
      <4> QED BY <2>2, <4>1, <4>2 DEF Touched
    <3>4. Closed(e, k)
      BY <1>1, <2>2, <3>1, <3>3 DEF OneInPieces
    <3>5. PICK j \in DOMAIN wire : j < k /\ Closes(wire[j], e)
      BY <3>4 DEF Closed
    <3>6. j # 1
      BY <3>2, <3>5 DEF Closes
    <3>7. j - 1 \in DOMAIN wire' /\ j - 1 < i /\ wire'[j - 1] = wire[j]
      BY <3>1, <3>5, <3>6 DEF MovesUp
    <3> QED BY <3>5, <3>7 DEF Closed, Closes
  <2>3. \A a, b : SameLane(a, b)' <=> SameLane(a, b)
    BY DEF SameLane, IsControl
  <2>4. ASSUME NEW a \in 1 .. nextFrameId, NEW e \in 1 .. nextFrameId, pending'[a] > 0, pending'[e] > 0, a # e
        PROVE  ~SameLane(a, e)
    BY <1>1, <1>2, <2>4 DEF OneInPieces
  <2> QED BY <1>2, <2>1, <2>2, <2>3, <2>4 DEF OneInPieces, SameLane, IsControl
<1> QED BY <1>1, <1>4, <1>7 DEF DecoderInv

(* A message of a frame that has others to come is received.                *)
LEMMA ContinueDecodes ==
  ASSUME LanesInv, DecoderInv, MovesUp, NEW x \in 1 .. nextFrameId,
         made' = made, nextIndex' = nextIndex, dropped' = dropped, open' = open, broken' = broken,
         LiveFrames' = LiveFrames, Cancelling' = Cancelling,
         1 \in DOMAIN wire, IsChunkOf(wire[1], x), wire[1].index = pending[x], wire[1].index + 1 # made[x].total,
         pending'[x] = pending[x] + 1, \A e \in Id : e # x => pending'[e] = pending[e],
         \A e \in 1 .. nextFrameId : e # x /\ pending[e] > 0 => ~SameLane(e, x)
  PROVE  DecoderInv'
<1>1. ChunksInOrder /\ OneInPieces /\ ~broken
  BY DEF DecoderInv
<1>2. /\ \A i \in DOMAIN wire : wire[i].id \in Id /\ wire[i].kind \in {"chunk", "cancel"}
      /\ \A i \in DOMAIN wire : wire[i].kind = "chunk" => wire[i].index \in Nat
      /\ nextFrameId' = nextFrameId /\ 1 .. nextFrameId \subseteq Id /\ pending[x] \in Nat
      /\ \A e \in Id : nextIndex[e] \in Nat
  BY WireFacts, MadeFacts DEF nextFrameId
<1>3. wire[1].kind = "chunk" /\ wire[1].id = x
  BY DEF IsChunkOf
<1>4. ChunksInOrder'
  <2>1. ASSUME NEW i \in DOMAIN wire', NEW j \in DOMAIN wire',
               i < j, wire'[j].kind = "chunk", wire'[i].id = wire'[j].id
        PROVE  wire'[i].kind = "chunk" /\ wire'[i].index < wire'[j].index
    <3>1. i + 1 < j + 1 /\ i + 1 \in DOMAIN wire /\ j + 1 \in DOMAIN wire /\ wire'[i] = wire[i + 1] /\ wire'[j] = wire[j + 1]
      BY <2>1 DEF MovesUp
    <3> QED BY <1>1, <2>1, <3>1 DEF ChunksInOrder
  <2>2. ASSUME NEW i \in DOMAIN wire', wire'[i].kind = "chunk"
        PROVE  /\ pending'[wire'[i].id] <= wire'[i].index
               /\ wire'[i].index > pending'[wire'[i].id] =>
                    \E j \in DOMAIN wire' : j < i /\ IsChunkOf(wire'[j], wire'[i].id) /\ wire'[j].index + 1 = wire'[i].index
    <3>1. PICK k \in DOMAIN wire : k = i + 1 /\ wire'[i] = wire[k] /\ 1 < k
      BY DEF MovesUp
    <3>2. /\ pending[wire[k].id] <= wire[k].index
          /\ wire[k].index > pending[wire[k].id] =>
               \E j \in DOMAIN wire : j < k /\ IsChunkOf(wire[j], wire[k].id) /\ wire[j].index + 1 = wire[k].index
      BY <1>1, <2>2, <3>1 DEF ChunksInOrder
    <3>3. CASE wire[k].id = x
      <4>1. PICK n : n = wire[k].index
        OBVIOUS
      <4>2. PICK p : p = pending[x]
        OBVIOUS
      <4>3. n \in Nat /\ p \in Nat /\ p < n
        BY <1>1, <1>2, <1>3, <2>2, <3>1, <3>3, <4>1, <4>2 DEF ChunksInOrder
      <4>4. PICK j \in DOMAIN wire : j < k /\ IsChunkOf(wire[j], x) /\ wire[j].index + 1 = n
        BY <3>2, <3>3, <4>1, <4>2, <4>3
      <4>5. ASSUME n > p + 1
            PROVE  j - 1 \in DOMAIN wire' /\ j - 1 < i /\ wire'[j - 1] = wire[j]
        <5>1. j # 1
          BY <4>2, <4>3, <4>4, <4>5
        <5> QED BY <3>1, <4>4, <5>1 DEF MovesUp
      <4>6. p + 1 <= n
        BY <4>3
      <4> QED BY <3>1, <3>3, <4>1, <4>2, <4>4, <4>5, <4>6
    <3>4. CASE wire[k].id # x
      <4>1. pending'[wire[k].id] = pending[wire[k].id]
        BY <1>2, <3>4
      <4>2. ASSUME NEW j \in DOMAIN wire, j < k, IsChunkOf(wire[j], wire[k].id)
            PROVE  j - 1 \in DOMAIN wire' /\ j - 1 < i /\ wire'[j - 1] = wire[j]
        <5>1. j # 1
          BY <1>3, <3>4, <4>2 DEF IsChunkOf
        <5> QED BY <3>1, <4>2, <5>1 DEF MovesUp
      <4> QED BY <3>1, <3>2, <4>1, <4>2
    <3> QED BY <3>3, <3>4
  <2>3. ASSUME NEW i \in DOMAIN wire', wire'[i].kind = "cancel"
        PROVE  wire'[i].id \in dropped
    BY <1>1, <2>3 DEF ChunksInOrder, MovesUp
  <2>4. ASSUME NEW e \in LiveFrames, pending'[e] < nextIndex[e]
        PROVE  \E i \in DOMAIN wire' : IsChunkOf(wire'[i], e) /\ wire'[i].index + 1 = nextIndex[e]
    <3>1. e \in Id
      BY LiveIsHeld
    <3>2. pending[e] < nextIndex[e] /\ (e = x => wire[1].index + 1 < nextIndex[e])
      <4>1. CASE e = x
        BY <1>2, <2>4, <3>1, <4>1
      <4>2. CASE e # x
        BY <2>4, <3>1, <4>2
      <4> QED BY <4>1, <4>2
    <3>3. PICK i \in DOMAIN wire : IsChunkOf(wire[i], e) /\ wire[i].index + 1 = nextIndex[e]
      BY <1>1, <3>2 DEF ChunksInOrder
    <3>4. i # 1
      <4>1. SUFFICES ASSUME i = 1 PROVE FALSE
        OBVIOUS
      <4>2. e = x
        BY <1>3, <3>3, <4>1 DEF IsChunkOf
      <4>3. wire[1].index + 1 < wire[1].index + 1
        BY <3>2, <3>3, <4>1, <4>2
      <4> QED BY <1>2, <4>3
    <3> QED BY <3>3, <3>4 DEF MovesUp
  <2> QED BY <2>1, <2>2, <2>3, <2>4 DEF ChunksInOrder
<1>5. Started(x)
  BY DEF Started
<1>6. ASSUME NEW e \in Id
      PROVE  (Started(e)' => Started(e)) /\ (Ended(e) => Ended(e)')
  <2>1. Started(e)' => Started(e)
    <3>1. CASE e = x
      BY <1>5, <3>1
    <3>2. CASE e # x
      BY <3>2 DEF Started, MovesUp
    <3> QED BY <3>1, <3>2
  <2>2. Ended(e) => Ended(e)'
    BY <1>3 DEF Ended, Closes, MovesUp
  <2> QED BY <2>1, <2>2
<1>7. OneInPieces'
  <2>1. ASSUME open, NEW e \in Id, Started(e)'
        PROVE  Ended(e)' \/ e \in LiveFrames \/ e \in Cancelling
    BY <1>1, <1>6, <2>1 DEF OneInPieces
  <2>2. ASSUME NEW i \in DOMAIN wire', NEW e \in 1 .. nextFrameId,
               wire'[i].kind = "chunk", e # wire'[i].id, SameLane(e, wire'[i].id), Touched(e, i)'
        PROVE  Closed(e, i)'
    <3>1. PICK k \in DOMAIN wire : k = i + 1 /\ wire'[i] = wire[k] /\ 1 < k
      BY DEF MovesUp
    <3>3. Touched(e, k)
      <4>1. CASE e = x
        BY <3>1, <4>1 DEF Touched
      <4>2. CASE e # x /\ pending'[e] > 0
        BY <1>2, <4>2 DEF Touched
      <4>3. CASE \E j \in DOMAIN wire' : j < i /\ IsChunkOf(wire'[j], e)
        <5>1. PICK j \in DOMAIN wire' : j < i /\ IsChunkOf(wire'[j], e)
          BY <4>3
        <5>2. j + 1 \in DOMAIN wire /\ j + 1 < k /\ wire'[j] = wire[j + 1]
          BY <3>1, <5>1 DEF MovesUp
        <5> QED BY <5>1, <5>2 DEF Touched
      <4> QED BY <2>2, <4>1, <4>2, <4>3 DEF Touched
    <3>4. Closed(e, k)
      BY <1>1, <2>2, <3>1, <3>3 DEF OneInPieces
    <3>5. PICK j \in DOMAIN wire : j < k /\ Closes(wire[j], e)
      BY <3>4 DEF Closed
    <3>6. j # 1
      BY <1>3, <3>5 DEF Closes
    <3>7. j - 1 \in DOMAIN wire' /\ j - 1 < i /\ wire'[j - 1] = wire[j]
      BY <3>1, <3>5, <3>6 DEF MovesUp
    <3> QED BY <3>5, <3>7 DEF Closed, Closes
  <2>3. \A a, b : SameLane(a, b)' <=> SameLane(a, b)
    BY DEF SameLane, IsControl
  <2>4. ASSUME NEW a \in 1 .. nextFrameId, NEW e \in 1 .. nextFrameId, pending'[a] > 0, pending'[e] > 0, a # e
        PROVE  ~SameLane(a, e)
    <3>1. CASE a = x
      BY <1>2, <2>4, <3>1 DEF SameLane
    <3>2. CASE e = x
      BY <1>2, <2>4, <3>2
    <3>3. CASE a # x /\ e # x
      BY <1>1, <1>2, <2>4, <3>3 DEF OneInPieces
    <3> QED BY <3>1, <3>2, <3>3
  <2> QED BY <1>2, <2>1, <2>2, <2>3, <2>4 DEF OneInPieces, SameLane, IsControl
<1> QED BY <1>1, <1>4, <1>7 DEF DecoderInv

(* Nothing of a frame comes after its last message.                         *)
LEMMA LastIsLast ==
  ASSUME LanesInv, DecoderInv, 1 \in DOMAIN wire, wire[1].kind = "chunk",
         wire[1].index + 1 = made[wire[1].id].total
  PROVE  /\ wire[1].id \notin LiveFrames
         /\ \A j \in DOMAIN wire : j # 1 => ~IsChunkOf(wire[j], wire[1].id)
<1>1. PICK x : x = wire[1].id
  OBVIOUS
<1>2. PICK n : n = wire[1].index
  OBVIOUS
<1>3. x \in 1 .. nextFrameId /\ n \in Nat /\ n < nextIndex[x]
  BY <1>1, <1>2, WireFacts
<1>4. n + 1 = made[x].total /\ nextIndex[x] <= made[x].total /\ nextIndex[x] \in Nat
  BY <1>1, <1>2, <1>3, MadeFacts
<1>5. nextIndex[x] = n + 1
  BY <1>3, <1>4
<1>6. x \notin LiveFrames
  <2>1. ~(nextIndex[x] < made[x].total)
    BY <1>3, <1>4, <1>5
  <2> QED BY <2>1, LiveIsHeld
<1>7. ASSUME NEW j \in DOMAIN wire, j # 1, IsChunkOf(wire[j], x)
      PROVE  FALSE
  <2>1. 1 < j
    BY <1>7, WireFacts
  <2>2. n < wire[j].index
    BY <1>1, <1>2, <1>7, <2>1 DEF DecoderInv, ChunksInOrder, IsChunkOf
  <2>3. wire[j].index < nextIndex[x] /\ wire[j].index \in Nat
    BY <1>7, WireFacts DEF IsChunkOf
  <2> QED BY <1>3, <1>5, <2>2, <2>3
<1> QED BY <1>1, <1>6, <1>7

(* The decoder goes on with every message it gets.                          *)
LEMMA ReceiveDecodes ==
  ASSUME LanesInv, DecoderInv, Receive
  PROVE  DecoderInv'
<1>1. PICK m \in Envelope :
           /\ m = wire[1] /\ 1 \in DOMAIN wire /\ MovesUp /\ m.id \in Id /\ broken' = broken
           /\ AcceptCancellation(m) \/ AcceptWhole(m) \/ AcceptChunk(m)
           /\ m.kind = "chunk" =>
                /\ m.index = pending[m.id] /\ m.index \in Nat /\ m.index < nextIndex[m.id] /\ m.id \in 1 .. nextFrameId
                /\ made[m.id].total \in Nat /\ nextIndex[m.id] <= made[m.id].total /\ nextIndex[m.id] \in Nat
                /\ \A e \in 1 .. nextFrameId : e # m.id /\ pending[e] > 0 => ~SameLane(e, m.id)
  BY ReceiveFits
<1>2. made' = made /\ nextIndex' = nextIndex /\ dropped' = dropped
      /\ LiveFrames' = LiveFrames /\ Cancelling' = Cancelling
  BY DEF Receive, historyVars, LiveFrames, Cancelling
<1>0. open' = open
  BY DEF Receive
<1>3. pending \in [Id -> 0 .. MaxChunks - 1]
  BY DEF LanesInv, LaneTypes
<1>4. ChunksInOrder
  BY DEF DecoderInv
<1>5. ASSUME m.kind = "chunk", m.index + 1 = made[m.id].total
      PROVE  m.id \notin LiveFrames /\ \A j \in DOMAIN wire : j # 1 => ~IsChunkOf(wire[j], m.id)
  BY <1>1, <1>5, LastIsLast
<1>6. CASE AcceptCancellation(m)
  <2>1. m.kind = "cancel" /\ pending' = [pending EXCEPT ![m.id] = 0]
    BY <1>6 DEF AcceptCancellation
  <2>2. m.id \in dropped
    BY <1>1, <1>4, <2>1 DEF ChunksInOrder
  <2>3. m.id \notin LiveFrames
    BY <2>2, LiveIsHeld
  <2>4. ASSUME NEW j \in DOMAIN wire, j # 1, IsChunkOf(wire[j], m.id)
        PROVE  FALSE
    <3>1. 1 < j
      BY <1>1, <2>4, WireFacts
    <3> QED BY <1>1, <1>4, <2>1, <2>4, <3>1 DEF ChunksInOrder, IsChunkOf
  <2>5. pending'[m.id] = 0 /\ \A e \in Id : e # m.id => pending'[e] = pending[e]
    BY <1>1, <1>3, <2>1
  <2> QED BY <1>0, <1>1, <1>2, <2>3, <2>4, <2>5, FinishDecodes
<1>7. CASE AcceptWhole(m)
  <2>1. m.kind = "chunk" /\ made[m.id].total = 1 /\ pending' = pending
    BY <1>7 DEF AcceptWhole, IsWhole
  <2>2. m.index + 1 = made[m.id].total /\ m.index = 0
    BY <1>1, <2>1
  <2>3. pending'[m.id] = 0 /\ \A e \in Id : e # m.id => pending'[e] = pending[e]
    BY <1>1, <2>1, <2>2
  <2>4. m.id \notin LiveFrames /\ \A j \in DOMAIN wire : j # 1 => ~IsChunkOf(wire[j], m.id)
    BY <1>5, <2>1, <2>2
  <2> QED BY <1>0, <1>1, <1>2, <2>3, <2>4, FinishDecodes
<1>8. CASE AcceptChunk(m)
  <2>1. m.kind = "chunk" /\ pending' = [pending EXCEPT ![m.id] = IF Completes(m) THEN 0 ELSE @ + 1]
    BY <1>8 DEF AcceptChunk
  <2>2. CASE Completes(m)
    <3>1. m.index + 1 = made[m.id].total
      BY <2>2 DEF Completes
    <3>2. pending'[m.id] = 0 /\ \A e \in Id : e # m.id => pending'[e] = pending[e]
      BY <1>1, <1>3, <2>1, <2>2
    <3>3. m.id \notin LiveFrames /\ \A j \in DOMAIN wire : j # 1 => ~IsChunkOf(wire[j], m.id)
      BY <1>5, <2>1, <3>1
    <3> QED BY <1>0, <1>1, <1>2, <3>2, <3>3, FinishDecodes
  <2>3. CASE ~Completes(m)
    <3>1. m.index + 1 # made[m.id].total
      BY <2>3 DEF Completes
    <3>2. pending'[m.id] = pending[m.id] + 1 /\ \A e \in Id : e # m.id => pending'[e] = pending[e]
      BY <1>1, <1>3, <2>1, <2>3
    <3>3. PICK x \in 1 .. nextFrameId : x = m.id
      BY <1>1, <2>1
    <3>4. IsChunkOf(wire[1], x) /\ wire[1].index = pending[x] /\ wire[1].index + 1 # made[x].total
      BY <1>1, <2>1, <3>1, <3>3 DEF IsChunkOf
    <3>5. \A e \in 1 .. nextFrameId : e # x /\ pending[e] > 0 => ~SameLane(e, x)
      BY <1>1, <2>1, <3>3
    <3>6. pending'[x] = pending[x] + 1 /\ \A e \in Id : e # x => pending'[e] = pending[e]
      BY <3>2, <3>3
    <3> QED BY <1>0, <1>1, <1>2, <3>4, <3>5, <3>6, ContinueDecodes
  <2> QED BY <2>2, <2>3
<1> QED BY <1>1, <1>6, <1>7, <1>8

(* An empty carrier decodes.                                                *)
LEMMA DecodesInit ==
  ASSUME FrameInit
  PROVE  DecoderInv
<1>1. /\ wire = <<>> /\ made = <<>> /\ pending = [id \in Id |-> 0] /\ broken = FALSE
      /\ control = <<>> /\ bulk = <<>>
  BY DEF FrameInit
<1>2. LiveFrames = {}
  BY <1>1, EmptyLane DEF LiveFrames
<1>3. DOMAIN wire = {} /\ 1 .. nextFrameId = {}
  BY <1>1 DEF nextFrameId
<1>4. ChunksInOrder
  BY <1>2, <1>3 DEF ChunksInOrder
<1>5. OneInPieces
  BY <1>1, <1>3 DEF OneInPieces, Started
<1> QED BY <1>1, <1>4, <1>5 DEF DecoderInv

(* What the decoder relies on depends on the variables only.                *)
LEMMA DecodesStutter ==
  ASSUME DecoderInv, UNCHANGED frameVars
  PROVE  DecoderInv'
<1>1. /\ made' = made /\ nextIndex' = nextIndex /\ control' = control /\ bulk' = bulk
      /\ dropped' = dropped /\ wire' = wire /\ pending' = pending
  BY DEF frameVars, senderVars, receiverVars, historyVars
<1>2. open' = open /\ broken' = broken
  BY DEF frameVars, receiverVars
<1>3. LiveFrames' = LiveFrames /\ nextFrameId' = nextFrameId /\ Cancelling' = Cancelling
  BY <1>1 DEF LiveFrames, nextFrameId, Cancelling
<1>4. ChunksInOrder'
  BY <1>1, <1>3 DEF DecoderInv, ChunksInOrder, IsChunkOf
<1>5. (\A e : (Started(e)' <=> Started(e)) /\ (Ended(e)' <=> Ended(e)))
      /\ (\A e, n : (Touched(e, n)' <=> Touched(e, n)) /\ (Closed(e, n)' <=> Closed(e, n)))
      /\ (\A a, b : SameLane(a, b)' <=> SameLane(a, b))
  BY <1>1 DEF Started, Ended, Touched, Closed, Closes, IsChunkOf, SameLane, IsControl
<1>6. OneInPieces'
  BY <1>1, <1>2, <1>3, <1>5 DEF DecoderInv, OneInPieces, SameLane, IsControl
<1> QED BY <1>2, <1>4, <1>6 DEF DecoderInv

-------------------------------------------------------------------------------
(* The order of a lane, from the queue to the browser.                      *)
LEMMA DeliveredFacts ==
  ASSUME LanesInv
  PROVE  \A i \in DOMAIN delivered :
           /\ delivered[i] \in 1 .. nextFrameId /\ nextIndex[delivered[i]] > 0
           /\ nextIndex[delivered[i]] = made[delivered[i]].total
           /\ delivered[i] \notin LiveFrames /\ delivered[i] \notin dropped
<1> SUFFICES ASSUME NEW i \in DOMAIN delivered
             PROVE  /\ delivered[i] \in 1 .. nextFrameId /\ nextIndex[delivered[i]] > 0
                    /\ nextIndex[delivered[i]] = made[delivered[i]].total
                    /\ delivered[i] \notin LiveFrames /\ delivered[i] \notin dropped
  OBVIOUS
<1>1. delivered \in Seq(Id)
  BY DEF LanesInv, LaneTypes
<1>2. PICK x \in Id : x = delivered[i]
  BY <1>1
<1>3. x <= nextFrameId /\ nextIndex[x] = made[x].total
  BY <1>2 DEF LanesInv, FramesAreKnown
<1>4. x \in 1 .. nextFrameId
  BY <1>3, MadeFacts DEF Id
<1>5. nextIndex[x] \in Nat \ {0}
  <2>1. made[x].total \in 1 .. MaxChunks /\ MaxChunks \in Nat
    BY <1>4, MadeFacts, ConstantsAssumption DEF ConstantsAssumption
  <2> QED BY <1>3, <2>1
<1>6. ~(nextIndex[x] < made[x].total)
  BY <1>3, <1>5
<1>7. x \notin LiveFrames
  BY <1>6, LiveIsHeld
<1>8. x \notin dropped
  BY <1>6 DEF LanesInv, FramesAreKnown
<1> QED BY <1>2, <1>3, <1>4, <1>5, <1>7, <1>8

(* The frames after a step are within the bound.                            *)
LEMMA NextIds ==
  ASSUME LanesInv, LanesInv'
  PROVE  1 .. nextFrameId' \subseteq Id /\ nextFrameId' \in Nat
<1>1. PICK N : N = nextFrameId'
  OBVIOUS
<1>2. N \in 0 .. MaxFrames
  BY <1>1 DEF LanesInv, LaneTypes
<1>3. 1 .. N \subseteq Id /\ N \in Nat
  BY <1>2, MadeFacts DEF Id
<1> QED BY <1>1, <1>3

(* What a lane takes in comes after all that it has written.                *)
LEMMA QuietOrders ==
  ASSUME LanesInv, DecoderInv, OrderInv, QuietStep, LanesInv'
  PROVE  OrderInv'
<1>1. nextIndex' = nextIndex /\ wire' = wire /\ delivered' = delivered
  BY DEF QuietStep
<1>2. \A id \in 1 .. nextFrameId : made'[id] = made[id]
  BY DEF QuietStep
<1>3. \A i \in DOMAIN delivered : delivered[i] \in 1 .. nextFrameId
  BY DeliveredFacts
<1>4. \A i \in DOMAIN wire : wire[i].id \in 1 .. nextFrameId
  BY WireFacts
<1>5. ASSUME NEW id \in 1 .. nextFrameId, NEW e \in 1 .. nextFrameId
      PROVE  (InOrder(id, e)' <=> InOrder(id, e)) /\ (IsControl(id)' <=> IsControl(id))
             /\ (SameLane(id, e)' <=> SameLane(id, e)) /\ (Precedes(id, e)' <=> Precedes(id, e))
  BY <1>2 DEF InOrder, SameLane, IsControl, Precedes
<1>6. LanesKeepOrder'
  <2>1. ASSUME NEW i \in DOMAIN delivered, NEW j \in DOMAIN delivered, i < j,
               (IsControl(delivered[i]) <=> IsControl(delivered[j]))'
        PROVE  Precedes(delivered[i], delivered[j])'
    <3>1. PICK d \in 1 .. nextFrameId, e \in 1 .. nextFrameId : d = delivered[i] /\ e = delivered[j]
      BY <1>3
    <3>2. SameLane(d, e)
      BY <1>1, <1>5, <2>1, <3>1 DEF SameLane, IsControl
    <3>3. Precedes(d, e)
      BY <2>1, <3>1, <3>2 DEF OrderInv, LanesKeepOrder, SameLane
    <3>4. Precedes(d, e)'
      BY <1>5, <3>3
    <3> QED BY <1>1, <3>1, <3>4 DEF Precedes
  <2> QED BY <1>1, <2>1 DEF LanesKeepOrder
<1>7. ASSUME NEW i \in DOMAIN delivered', NEW j \in DOMAIN wire', wire'[j].kind = "chunk"
      PROVE  delivered'[i] # wire'[j].id /\ InOrder(delivered[i], wire[j].id)'
  <2>1. PICK d \in 1 .. nextFrameId, e \in 1 .. nextFrameId : d = delivered[i] /\ e = wire[j].id
    BY <1>1, <1>3, <1>4
  <2>2. d # e /\ InOrder(d, e)
    BY <1>1, <1>7, <2>1 DEF OrderInv
  <2>3. InOrder(d, e)'
    BY <1>5, <2>2
  <2> QED BY <1>1, <2>1, <2>2, <2>3 DEF InOrder, SameLane, IsControl, Precedes
<1>8. ASSUME NEW i \in DOMAIN wire', NEW j \in DOMAIN wire',
             i < j, wire'[i].kind = "chunk", wire'[j].kind = "chunk", wire'[i].id # wire'[j].id
      PROVE  InOrder(wire[i].id, wire[j].id)'
  <2>1. PICK d \in 1 .. nextFrameId, e \in 1 .. nextFrameId : d = wire[i].id /\ e = wire[j].id
    BY <1>1, <1>4
  <2>2. InOrder(d, e)
    BY <1>1, <1>8, <2>1 DEF OrderInv
  <2>3. InOrder(d, e)'
    BY <1>5, <2>2
  <2> QED BY <1>1, <2>1, <2>3 DEF InOrder, SameLane, IsControl, Precedes
<1>9. ASSUME NEW id \in 1 .. nextFrameId', nextIndex'[id] > 0
      PROVE  /\ \A e \in LiveFrames' : e # id => InOrder(id, e)'
             /\ ~IsControl(id)' => \A i \in DOMAIN bulk' : bulk'[i].kind = "sequence" => made'[id].rank <= bulk'[i].rank
  <2>1. id \in 1 .. nextFrameId
    <3>1. id \in Id
      BY NextIds
    <3>2. id <= nextFrameId
      BY <1>1, <1>9, <3>1 DEF LanesInv, FramesAreKnown
    <3> QED BY <3>1, <3>2, MadeFacts DEF Id
  <2>2. PICK r : r = made[id].rank
    OBVIOUS
  <2>3. r \in Nat /\ r <= queued /\ queued \in Nat /\ made'[id].rank = r
    BY <1>2, <2>1, <2>2, MadeFacts
  <2>4. /\ \A e \in LiveFrames : e # id => InOrder(id, e)
        /\ ~IsControl(id) => \A i \in DOMAIN bulk : bulk[i].kind = "sequence" => r <= bulk[i].rank
    BY <1>1, <1>9, <2>1, <2>2 DEF OrderInv
  <2>5. ASSUME NEW e \in LiveFrames', e # id
        PROVE  InOrder(id, e)'
    <3>1. CASE e \in LiveFrames
      BY <1>5, <2>1, <2>4, <2>5, <3>1, LiveIsHeld
    <3>2. CASE e \in nextFrameId + 1 .. nextFrameId'
      <4>1. id < e
        BY <2>1, <3>2, MadeFacts, NextIds
      <4>2. PICK s : s = made'[e].rank
        OBVIOUS
      <4>3. s > queued \/ (~IsControl(e)' /\ \E i \in DOMAIN bulk : bulk[i].kind = "sequence" /\ bulk[i].rank = s)
        BY <3>2, <4>2 DEF QuietStep
      <4>4. s \in Int
        <5>1. made'[e] \in Content
          <6>1. made' \in Seq(Content) /\ e \in 1 .. nextFrameId'
            BY <2>1, <3>2, MadeFacts, NextIds DEF LanesInv, LaneTypes
          <6> QED BY <6>1 DEF nextFrameId
        <5> QED BY <4>2, <5>1 DEF Content
      <4>5. CASE s > queued
        <5>1. r < s
          BY <2>3, <4>4, <4>5
        <5> QED BY <2>3, <4>2, <5>1 DEF InOrder, Precedes
      <4>6. CASE ~IsControl(e)' /\ \E i \in DOMAIN bulk : bulk[i].kind = "sequence" /\ bulk[i].rank = s
        <5>1. CASE IsControl(id)
          <6>1. IsControl(id)'
            BY <1>5, <2>1, <5>1
          <6> QED BY <4>6, <6>1 DEF InOrder, SameLane
        <5>2. CASE ~IsControl(id)
          <6>1. r <= s
            BY <2>4, <4>6, <5>2
          <6>2. r < s \/ r = s
            BY <2>3, <4>4, <6>1
          <6> QED BY <2>3, <4>1, <4>2, <6>2 DEF InOrder, Precedes
        <5> QED BY <5>1, <5>2
      <4> QED BY <4>3, <4>5, <4>6
    <3> QED BY <2>5, <3>1, <3>2 DEF QuietStep
  <2>6. ASSUME ~IsControl(id)', NEW i \in DOMAIN bulk', bulk'[i].kind = "sequence"
        PROVE  made'[id].rank <= bulk'[i].rank
    <3>1. CASE bulk'[i].rank > queued
      <4>1. bulk'[i].rank \in Int
        <5>1. bulk' \in Seq(Part \cup OutgoingSequence)
          BY DEF LanesInv, LaneTypes
        <5>2. bulk'[i] \in Part \cup OutgoingSequence
          BY <2>6, <5>1
        <5>3. bulk'[i] \in OutgoingSequence
          BY <2>6, <5>2 DEF Part
        <5> QED BY <5>3 DEF OutgoingSequence
      <4> QED BY <2>3, <3>1, <4>1
    <3>2. CASE \E j \in DOMAIN bulk : bulk[j].kind = "sequence" /\ bulk[j].rank = bulk'[i].rank
      <4>1. ~IsControl(id)
        BY <1>5, <2>1, <2>6
      <4> QED BY <2>3, <2>4, <3>2, <4>1
    <3> QED BY <2>6, <3>1, <3>2 DEF QuietStep
  <2> QED BY <2>5, <2>6
<1> QED BY <1>6, <1>7, <1>8, <1>9 DEF OrderInv

(* What is written comes after all that was written of its lane.            *)
LEMMA WriteOrders ==
  ASSUME LanesInv, DecoderInv, OrderInv, NEW id \in LiveFrames, WriteStep(id)
  PROVE  OrderInv'
<1>1. /\ made' = made /\ delivered' = delivered /\ LiveFrames' \subseteq LiveFrames
      /\ nextIndex' = [nextIndex EXCEPT ![id] = @ + 1]
  BY DEF WriteStep
<1>2. PICK c : c = Chunk(id)
  OBVIOUS
<1>3. PICK l : l = Len(wire) + 1
  OBVIOUS
<1>4. /\ l \in DOMAIN wire' /\ wire'[l] = c /\ l \notin DOMAIN wire
      /\ \A i \in DOMAIN wire : i \in DOMAIN wire' /\ wire'[i] = wire[i] /\ i < l
      /\ \A i \in DOMAIN wire' : i \in DOMAIN wire \/ i = l
      /\ \A i, j \in DOMAIN wire' : i < j => i \in DOMAIN wire
  BY <1>2, <1>3, Appended DEF WriteStep
<1>5. c.kind = "chunk" /\ c.id = id
  BY <1>2 DEF Chunk
<1>6. id \in Id /\ id \in 1 .. nextFrameId /\ nextFrameId' = nextFrameId
  BY <1>1, LiveIsHeld DEF nextFrameId
<1>7. nextIndex'[id] = nextIndex[id] + 1 /\ \A e : e # id => nextIndex'[e] = nextIndex[e]
  BY <1>1, <1>6 DEF LanesInv, LaneTypes
<1>8. ASSUME NEW e \in 1 .. nextFrameId, nextIndex[e] > 0, e # id
      PROVE  InOrder(e, id)
  BY <1>8 DEF OrderInv
<1>9. ASSUME NEW e, NEW d
      PROVE  (InOrder(e, d)' <=> InOrder(e, d)) /\ (IsControl(e)' <=> IsControl(e))
  BY <1>1 DEF InOrder, SameLane, IsControl, Precedes
<1>10. LanesKeepOrder'
  BY <1>1 DEF OrderInv, LanesKeepOrder, IsControl, Precedes
<1>11. ASSUME NEW i \in DOMAIN delivered', NEW j \in DOMAIN wire', wire'[j].kind = "chunk"
       PROVE  delivered'[i] # wire'[j].id /\ InOrder(delivered[i], wire[j].id)'
  <2>1. PICK d : d = delivered[i]
    OBVIOUS
  <2>2. PICK e : e = wire'[j].id
    OBVIOUS
  <2>3. d # e /\ InOrder(d, e)
    <3>1. CASE j \in DOMAIN wire
      BY <1>1, <1>4, <1>11, <2>1, <2>2, <3>1 DEF OrderInv
    <3>2. CASE j = l
      <4>1. e = id
        BY <1>4, <1>5, <2>2, <3>2
      <4>2. d \in 1 .. nextFrameId /\ nextIndex[d] > 0 /\ d \notin LiveFrames
        BY <1>1, <2>1, DeliveredFacts
      <4> QED BY <1>8, <4>1, <4>2
    <3> QED BY <1>4, <3>1, <3>2
  <2> QED BY <1>1, <1>9, <2>1, <2>2, <2>3 DEF InOrder, SameLane, IsControl, Precedes
<1>12. ASSUME NEW i \in DOMAIN wire', NEW j \in DOMAIN wire',
              i < j, wire'[i].kind = "chunk", wire'[j].kind = "chunk", wire'[i].id # wire'[j].id
       PROVE  InOrder(wire[i].id, wire[j].id)'
  <2>1. PICK d : d = wire'[i].id
    OBVIOUS
  <2>2. PICK e : e = wire'[j].id
    OBVIOUS
  <2>3. i \in DOMAIN wire /\ wire'[i] = wire[i]
    BY <1>4, <1>12
  <2>4. InOrder(d, e)
    <3>1. CASE j \in DOMAIN wire
      BY <1>4, <1>12, <2>1, <2>2, <2>3, <3>1 DEF OrderInv
    <3>2. CASE j = l
      <4>1. e = id /\ d # id
        BY <1>4, <1>5, <1>12, <2>1, <2>2, <3>2
      <4>2. d \in Id /\ Started(d)
        BY <1>12, <2>1, <2>3, WireFacts DEF Started, IsChunkOf
      <4>3. d \in 1 .. nextFrameId /\ nextIndex[d] > 0
        BY <4>2, WireFacts
      <4> QED BY <1>8, <4>1, <4>3
    <3> QED BY <1>4, <3>1, <3>2
  <2> QED BY <1>1, <2>1, <2>2, <2>4 DEF InOrder, SameLane, IsControl, Precedes
<1>13. ASSUME NEW e \in 1 .. nextFrameId', nextIndex'[e] > 0
       PROVE  /\ \A d \in LiveFrames' : d # e => InOrder(e, d)'
              /\ ~IsControl(e)' => \A i \in DOMAIN bulk' : bulk'[i].kind = "sequence" => made'[e].rank <= bulk'[i].rank
  <2>1. ASSUME NEW i \in DOMAIN bulk', bulk'[i].kind = "sequence"
        PROVE  /\ \E j \in DOMAIN bulk : bulk[j].kind = "sequence" /\ bulk[j].rank = bulk'[i].rank
               /\ ~IsControl(id) => made[id].rank <= bulk'[i].rank
    BY <2>1 DEF WriteStep
  <2>2. CASE e # id
    <3>1. e \in 1 .. nextFrameId /\ nextIndex[e] > 0
      BY <1>6, <1>7, <1>13, <2>2
    <3>2. /\ \A d \in LiveFrames : d # e => InOrder(e, d)
          /\ ~IsControl(e) => \A i \in DOMAIN bulk : bulk[i].kind = "sequence" => made[e].rank <= bulk[i].rank
      BY <3>1 DEF OrderInv
    <3> QED BY <1>1, <1>9, <2>1, <3>2
  <2>3. CASE e = id
    <3>1. ASSUME NEW d \in LiveFrames, d # id
          PROVE  InOrder(id, d)
      BY <3>1 DEF WriteStep, InOrder
    <3> QED BY <1>1, <1>9, <2>1, <2>3, <3>1
  <2> QED BY <2>2, <2>3
<1> QED BY <1>10, <1>11, <1>12, <1>13 DEF OrderInv

(* A cancellation changes no order.                                         *)
LEMMA CancelOrders ==
  ASSUME LanesInv, DecoderInv, OrderInv, NEW id, CancelStep(id)
  PROVE  OrderInv'
<1>1. /\ made' = made /\ delivered' = delivered /\ nextIndex' = nextIndex /\ bulk' = bulk
      /\ LiveFrames' = LiveFrames /\ nextFrameId' = nextFrameId
  BY DEF CancelStep, nextFrameId
<1>2. PICK c : c = Cancellation(id)
  OBVIOUS
<1>3. \A i \in DOMAIN wire' : wire'[i].kind = "chunk" => i \in DOMAIN wire /\ wire'[i] = wire[i]
  BY <1>2, Appended DEF CancelStep, Cancellation
<1>4. LanesKeepOrder'
  BY <1>1 DEF OrderInv, LanesKeepOrder, IsControl, Precedes
<1>5. ASSUME NEW i \in DOMAIN delivered', NEW j \in DOMAIN wire', wire'[j].kind = "chunk"
      PROVE  delivered'[i] # wire'[j].id /\ InOrder(delivered[i], wire[j].id)'
  <2>1. delivered[i] # wire[j].id /\ InOrder(delivered[i], wire[j].id) /\ wire'[j] = wire[j]
    BY <1>1, <1>3, <1>5 DEF OrderInv
  <2> QED BY <1>1, <2>1 DEF InOrder, SameLane, IsControl, Precedes
<1>6. ASSUME NEW i \in DOMAIN wire', NEW j \in DOMAIN wire',
             i < j, wire'[i].kind = "chunk", wire'[j].kind = "chunk", wire'[i].id # wire'[j].id
      PROVE  InOrder(wire[i].id, wire[j].id)'
  <2>1. wire'[i] = wire[i] /\ wire'[j] = wire[j] /\ InOrder(wire[i].id, wire[j].id)
    BY <1>3, <1>6 DEF OrderInv
  <2> QED BY <1>1, <2>1 DEF InOrder, SameLane, IsControl, Precedes
<1>7. ASSUME NEW e \in 1 .. nextFrameId', nextIndex'[e] > 0
      PROVE  /\ \A d \in LiveFrames' : d # e => InOrder(e, d)'
             /\ ~IsControl(e)' => \A i \in DOMAIN bulk' : bulk'[i].kind = "sequence" => made'[e].rank <= bulk'[i].rank
  <2>1. /\ \A d \in LiveFrames : d # e => InOrder(e, d)
        /\ ~IsControl(e) => \A i \in DOMAIN bulk : bulk[i].kind = "sequence" => made[e].rank <= bulk[i].rank
    BY <1>1, <1>7 DEF OrderInv
  <2>2. ASSUME NEW d
        PROVE  (InOrder(e, d)' <=> InOrder(e, d)) /\ (IsControl(e)' <=> IsControl(e))
    BY <1>1 DEF InOrder, SameLane, IsControl, Precedes
  <2> QED BY <1>1, <2>1, <2>2
<1> QED BY <1>4, <1>5, <1>6, <1>7 DEF OrderInv

(* What is complete has arrived after all that arrived of its lane.         *)
LEMMA ReceiveOrders ==
  ASSUME LanesInv, DecoderInv, OrderInv, Receive
  PROVE  OrderInv'
<1>1. PICK m \in Envelope :
           /\ m = wire[1] /\ 1 \in DOMAIN wire /\ MovesUp /\ m.id \in Id
           /\ AcceptCancellation(m) \/ AcceptWhole(m) \/ AcceptChunk(m)
           /\ m.kind = "chunk" =>
                /\ m.index = pending[m.id] /\ m.index \in Nat /\ m.index < nextIndex[m.id] /\ m.id \in 1 .. nextFrameId
                /\ made[m.id].total \in Nat /\ nextIndex[m.id] <= made[m.id].total /\ nextIndex[m.id] \in Nat
  BY ReceiveFits
<1>2. made' = made /\ nextIndex' = nextIndex /\ bulk' = bulk
      /\ LiveFrames' = LiveFrames /\ nextFrameId' = nextFrameId
  BY DEF Receive, LiveFrames, nextFrameId
<1>3. PICK x : x = m.id
  OBVIOUS
<1>4. \/ delivered' = delivered
      \/ m.kind = "chunk" /\ m.index + 1 = made[x].total /\ delivered' = Append(delivered, x)
  <2>1. CASE AcceptCancellation(m)
    BY <2>1 DEF AcceptCancellation
  <2>2. CASE AcceptWhole(m)
    <3>1. m.kind = "chunk" /\ made[m.id].total = 1 /\ delivered' = Append(delivered, m.id)
      BY <2>2 DEF AcceptWhole, IsWhole
    <3>2. m.index + 1 = made[m.id].total
      BY <1>1, <3>1
    <3> QED BY <1>3, <3>1, <3>2
  <2>3. CASE AcceptChunk(m)
    BY <1>3, <2>3 DEF AcceptChunk, Completes
  <2> QED BY <1>1, <2>1, <2>2, <2>3
<1>5. ASSUME NEW e, NEW d
      PROVE  (InOrder(e, d)' <=> InOrder(e, d)) /\ (IsControl(e)' <=> IsControl(e)) /\ (Precedes(e, d)' <=> Precedes(e, d))
  BY <1>2 DEF InOrder, SameLane, IsControl, Precedes
<1>6. ASSUME NEW i \in DOMAIN wire', NEW j \in DOMAIN wire',
             i < j, wire'[i].kind = "chunk", wire'[j].kind = "chunk", wire'[i].id # wire'[j].id
      PROVE  InOrder(wire[i].id, wire[j].id)'
  <2>1. i + 1 \in DOMAIN wire /\ j + 1 \in DOMAIN wire /\ i + 1 < j + 1 /\ wire'[i] = wire[i + 1] /\ wire'[j] = wire[j + 1]
    BY <1>1, <1>6 DEF MovesUp
  <2>2. InOrder(wire[i + 1].id, wire[j + 1].id)
    BY <1>6, <2>1 DEF OrderInv
  <2> QED BY <1>2, <2>1, <2>2 DEF InOrder, SameLane, IsControl, Precedes
<1>7. ASSUME NEW e \in 1 .. nextFrameId', nextIndex'[e] > 0
      PROVE  /\ \A d \in LiveFrames' : d # e => InOrder(e, d)'
             /\ ~IsControl(e)' => \A i \in DOMAIN bulk' : bulk'[i].kind = "sequence" => made'[e].rank <= bulk'[i].rank
  <2>1. /\ \A d \in LiveFrames : d # e => InOrder(e, d)
        /\ ~IsControl(e) => \A i \in DOMAIN bulk : bulk[i].kind = "sequence" => made[e].rank <= bulk[i].rank
    BY <1>2, <1>7 DEF OrderInv
  <2> QED BY <1>2, <1>5, <2>1
<1>8. ASSUME NEW i \in DOMAIN delivered, NEW j \in DOMAIN wire', wire'[j].kind = "chunk"
      PROVE  delivered[i] # wire'[j].id /\ InOrder(delivered[i], wire'[j].id)
  BY <1>1, <1>8 DEF OrderInv, MovesUp
<1>9. CASE delivered' = delivered
  <2>1. LanesKeepOrder'
    BY <1>2, <1>9 DEF OrderInv, LanesKeepOrder, IsControl, Precedes
  <2>2. ASSUME NEW i \in DOMAIN delivered', NEW j \in DOMAIN wire', wire'[j].kind = "chunk"
        PROVE  delivered'[i] # wire'[j].id /\ InOrder(delivered[i], wire[j].id)'
    <3>1. delivered[i] # wire'[j].id /\ InOrder(delivered[i], wire'[j].id)
      BY <1>8, <1>9, <2>2
    <3> QED BY <1>2, <1>9, <3>1 DEF InOrder, SameLane, IsControl, Precedes
  <2> QED BY <1>6, <1>7, <2>1, <2>2 DEF OrderInv
<1>10. CASE m.kind = "chunk" /\ m.index + 1 = made[x].total /\ delivered' = Append(delivered, x)
  <2>1. PICK l : l = Len(delivered) + 1
    OBVIOUS
  <2>2. /\ delivered'[l] = x /\ l \notin DOMAIN delivered
        /\ \A i \in DOMAIN delivered : delivered'[i] = delivered[i]
        /\ \A i \in DOMAIN delivered' : i \in DOMAIN delivered \/ i = l
        /\ \A i, j \in DOMAIN delivered' : i < j => i \in DOMAIN delivered
    <3>1. delivered \in Seq(Id) /\ x \in Id
      BY <1>1, <1>3 DEF LanesInv, LaneTypes
    <3>2. /\ DOMAIN delivered' = 1 .. Len(delivered) + 1 /\ DOMAIN delivered = 1 .. Len(delivered)
          /\ Len(delivered) \in Nat /\ delivered'[Len(delivered) + 1] = x
          /\ \A i \in 1 .. Len(delivered) : delivered'[i] = delivered[i]
      BY <1>10, <3>1
    <3>3. DOMAIN delivered' = 1 .. Len(delivered) + 1 /\ DOMAIN delivered = 1 .. Len(delivered) /\ Len(delivered) \in Nat
      BY <3>2
    <3>4. /\ l \notin DOMAIN delivered
          /\ \A i \in DOMAIN delivered' : i \in DOMAIN delivered \/ i = l
          /\ \A i, j \in DOMAIN delivered' : i < j => i \in DOMAIN delivered
      BY <2>1, <3>3
    <3> QED BY <2>1, <3>2, <3>4
  <2>3. \A i \in DOMAIN delivered : InOrder(delivered[i], x)
    BY <1>1, <1>3, <1>10 DEF OrderInv
  <2>4. ASSUME NEW i \in DOMAIN delivered', NEW j \in DOMAIN delivered', i < j,
               (IsControl(delivered[i]) <=> IsControl(delivered[j]))'
        PROVE  Precedes(delivered[i], delivered[j])'
    <3>1. PICK d : d = delivered'[i]
      OBVIOUS
    <3>2. PICK e : e = delivered'[j]
      OBVIOUS
    <3>3. i \in DOMAIN delivered /\ d = delivered[i]
      BY <2>2, <2>4, <3>1
    <3>4. IsControl(d) <=> IsControl(e)
      BY <1>2, <2>4, <3>1, <3>2 DEF IsControl
    <3>5. Precedes(d, e)
      <4>1. CASE j \in DOMAIN delivered
        BY <2>2, <2>4, <3>2, <3>3, <3>4, <4>1 DEF OrderInv, LanesKeepOrder
      <4>2. CASE j = l
        BY <2>2, <2>3, <3>2, <3>3, <3>4, <4>2 DEF InOrder, SameLane
      <4> QED BY <2>2, <4>1, <4>2
    <3> QED BY <1>2, <3>1, <3>2, <3>5 DEF Precedes
  <2>5. LanesKeepOrder'
    BY <2>4 DEF LanesKeepOrder
  <2>6. ASSUME NEW j \in DOMAIN wire', wire'[j].kind = "chunk"
        PROVE  x # wire'[j].id /\ InOrder(x, wire'[j].id)
    <3>1. j + 1 \in DOMAIN wire /\ wire'[j] = wire[j + 1] /\ j + 1 # 1 /\ 1 < j + 1
      BY <1>1 DEF MovesUp
    <3>2. x # wire[j + 1].id
      BY <1>1, <1>3, <1>10, <2>6, <3>1, LastIsLast DEF IsChunkOf
    <3> QED BY <1>1, <1>3, <1>10, <2>6, <3>1, <3>2 DEF OrderInv
  <2>7. ASSUME NEW i \in DOMAIN delivered', NEW j \in DOMAIN wire', wire'[j].kind = "chunk"
        PROVE  delivered'[i] # wire'[j].id /\ InOrder(delivered[i], wire[j].id)'
    <3>1. PICK d : d = delivered'[i]
      OBVIOUS
    <3>2. d # wire'[j].id /\ InOrder(d, wire'[j].id)
      BY <1>8, <2>2, <2>6, <2>7, <3>1
    <3> QED BY <1>2, <3>1, <3>2 DEF InOrder, SameLane, IsControl, Precedes
  <2> QED BY <1>6, <1>7, <2>5, <2>7 DEF OrderInv
<1> QED BY <1>4, <1>9, <1>10

(* Nothing has arrived at first.                                            *)
LEMMA OrderInit ==
  ASSUME FrameInit
  PROVE  OrderInv
<1>1. wire = <<>> /\ made = <<>> /\ delivered = <<>>
  BY DEF FrameInit
<1>2. DOMAIN wire = {} /\ DOMAIN delivered = {} /\ 1 .. nextFrameId = {}
  BY <1>1 DEF nextFrameId
<1> QED BY <1>2 DEF OrderInv, LanesKeepOrder

(* The order depends on the variables only.                                 *)
LEMMA OrderStutter ==
  ASSUME OrderInv, UNCHANGED frameVars
  PROVE  OrderInv'
<1>1. /\ made' = made /\ nextIndex' = nextIndex /\ control' = control /\ bulk' = bulk
      /\ wire' = wire /\ delivered' = delivered
  BY DEF frameVars, senderVars, receiverVars
<1>2. LiveFrames' = LiveFrames /\ nextFrameId' = nextFrameId
  BY <1>1 DEF LiveFrames, nextFrameId
<1> QED BY <1>1, <1>2 DEF OrderInv, LanesKeepOrder, InOrder, SameLane, IsControl, Precedes

-------------------------------------------------------------------------------
(* A transfer is one payload, or one sequence that holds one frame at a     *)
(* time: nothing of it is queued when its next frame must fit.              *)
NoSnapshot == \A j \in DOMAIN bulk : ~IsSnapshot(bulk[j])

(* Without a frame of a snapshot, nothing of one is unsent.                 *)
LEMMA NothingIsHeld ==
  ASSUME NoSnapshot
  PROVE  UnsentSnapshot = 0
<1>1. {j \in DOMAIN bulk : IsSnapshot(bulk[j])} = {}
  BY DEF NoSnapshot
<1>2. UNION {FramesOf(bulk[i]) : i \in {j \in DOMAIN bulk : IsSnapshot(bulk[j])}} = {}
  BY <1>1
<1>3. Unsent({}) = {}
  BY DEF Unsent
<1> QED BY <1>2, <1>3, FS_EmptySet DEF UnsentSnapshot

(* A queue that overflows while it holds no snapshot is full of other frames.*)
LEMMA OverflowTransfers ==
  ASSUME LanesInv, TransferInv, NEW purpose, NEW total \in 1 .. MaxChunks, ~Fits(total),
         Overflows(purpose, total), purpose = "snapshot" => NoSnapshot
  PROVE  TransferInv'
<1>1. /\ bulk' = <<>> /\ pushing' = 0
      /\ overflow' = IF purpose = "snapshot" /\ queuedBytes - UnsentSnapshot + total <= QueueLimit
                     THEN "itself" ELSE "others"
  BY DEF Overflows
<1>2. ASSUME purpose = "snapshot"
      PROVE  ~(queuedBytes - UnsentSnapshot + total <= QueueLimit)
  <2>1. UnsentSnapshot = 0 /\ queuedBytes \in Int
    BY <1>2, NothingIsHeld DEF LanesInv, LaneTypes
  <2>2. queuedBytes - 0 = queuedBytes
    BY <2>1
  <2> QED BY <2>1, <2>2 DEF Fits
<1>3. overflow' = "others"
  BY <1>1, <1>2
<1>4. DOMAIN bulk' = {} /\ ~(pushing' > 0)
  BY <1>1
<1> QED BY <1>3, <1>4 DEF TransferInv, NeverOverflowsItself

(* Steps that bring no item to the bulk lane.                               *)
LEMMA TransferStays ==
  ASSUME LanesInv, LanesInv', TransferInv, overflow' = overflow, pushing' = pushing \/ pushing' = 0,
         \A id \in 1 .. nextFrameId : made'[id] = made[id],
         \A i \in DOMAIN bulk' : \E j \in DOMAIN bulk :
           bulk'[i].kind = bulk[j].kind /\ (bulk[j].kind = "frame" => bulk'[i].id = bulk[j].id)
  PROVE  TransferInv'
<1>1. ASSUME pushing' > 0
      PROVE  bulk' = <<>>
  <2>1. pushing > 0
    BY <1>1
  <2>2. DOMAIN bulk' = {}
    BY <2>1 DEF TransferInv
  <2>3. bulk' \in Seq(Part \cup OutgoingSequence)
    BY DEF LanesInv, LaneTypes
  <2> QED BY <2>2, <2>3
<1>2. ASSUME NEW i \in DOMAIN bulk', NEW j \in DOMAIN bulk', bulk'[i].kind = "sequence",
             bulk'[j].kind = "frame", made'[bulk'[j].id].purpose = "snapshot"
      PROVE  FALSE
  <2>1. PICK k \in DOMAIN bulk : bulk[k].kind = "sequence"
    BY <1>2
  <2>2. PICK n \in DOMAIN bulk : bulk[n].kind = "frame" /\ bulk'[j].id = bulk[n].id
    BY <1>2
  <2>3. bulk[n].id \in 1 .. nextFrameId
    BY <2>2, BulkItems, LiveIsHeld
  <2>4. IsSnapshot(bulk[n])
    BY <1>2, <2>2, <2>3 DEF IsSnapshot
  <2> QED BY <2>1, <2>4 DEF TransferInv
<1> QED BY <1>1, <1>2 DEF TransferInv, NeverOverflowsItself, IsSnapshot

(* A frame is taken in, or is too much for the queue.                       *)
LEMMA FrameTransfers ==
  ASSUME LanesInv, LanesInv', TransferInv, NEW purpose \in Purpose, NEW total \in 1 .. MaxChunks,
         Enqueue(purpose, total, 0), purpose = "snapshot" => bulk = <<>>
  PROVE  TransferInv'
<1>1. CASE ~Fits(total)
  <2>1. Overflows(purpose, total)
    BY <1>1 DEF Enqueue
  <2>2. bulk = <<>> => NoSnapshot
    BY DEF NoSnapshot
  <2> QED BY <1>1, <2>1, <2>2, OverflowTransfers
<1>2. CASE Fits(total)
  <2>n. PICK n : n = nextFrameId + 1
    OBVIOUS
  <2>f. PICK f : f = Frame(n)
    OBVIOUS
  <2>c. PICK c : c = [rank |-> queued + 1, purpose |-> purpose, total |-> total]
    OBVIOUS
  <2>1. /\ made' = Append(made, c) /\ pushing' = 0 /\ overflow' = overflow
        /\ bulk' = bulk \/ (purpose # "control" /\ bulk' = Append(bulk, f))
    BY <1>2, <2>n, <2>f, <2>c DEF Enqueue, Creates, Queued
  <2>2. /\ made'[n] = c /\ \A id \in 1 .. nextFrameId : made'[id] = made[id]
    <3>1. made \in Seq(Content) /\ nextFrameId = Len(made)
      BY DEF LanesInv, LaneTypes, nextFrameId
    <3> QED BY <2>n, <2>1, <3>1
  <2>3. made'[n].purpose = purpose
    BY <2>c, <2>2
  <2>4. f.kind = "frame" /\ f.id = n
    BY <2>f DEF Frame
  <2>5. CASE bulk' = bulk
    BY <2>1, <2>2, <2>5, TransferStays
  <2>6. CASE bulk' = Append(bulk, f)
    <3>1. \A i \in DOMAIN bulk' : (i \in DOMAIN bulk /\ bulk'[i] = bulk[i]) \/ bulk'[i] = f
      <4>1. bulk \in Seq(Part \cup OutgoingSequence)
        BY DEF LanesInv, LaneTypes
      <4>2. /\ DOMAIN bulk' = 1 .. Len(bulk) + 1 /\ DOMAIN bulk = 1 .. Len(bulk) /\ Len(bulk) \in Nat
            /\ bulk'[Len(bulk) + 1] = f /\ \A i \in 1 .. Len(bulk) : bulk'[i] = bulk[i]
        BY <2>6, <4>1
      <4> QED BY <4>2
    <3>2. ASSUME NEW i \in DOMAIN bulk', NEW j \in DOMAIN bulk', bulk'[i].kind = "sequence",
                 bulk'[j].kind = "frame", made'[bulk'[j].id].purpose = "snapshot"
          PROVE  FALSE
      <4>1. i \in DOMAIN bulk /\ bulk[i].kind = "sequence" /\ bulk # <<>>
        BY <2>4, <3>1, <3>2
      <4>2. purpose # "snapshot"
        BY <4>1
      <4>3. j \in DOMAIN bulk /\ bulk'[j] = bulk[j]
        BY <2>3, <2>4, <3>1, <3>2, <4>2
      <4>4. bulk[j].id \in 1 .. nextFrameId
        BY <3>2, <4>3, BulkItems, LiveIsHeld
      <4>5. IsSnapshot(bulk[j])
        BY <2>2, <3>2, <4>3, <4>4 DEF IsSnapshot
      <4> QED BY <4>1, <4>3, <4>5 DEF TransferInv
    <3>3. ~(pushing' > 0)
      BY <2>1
    <3> QED BY <2>1, <3>2, <3>3 DEF TransferInv, NeverOverflowsItself, IsSnapshot
  <2> QED BY <2>1, <2>5, <2>6
<1> QED BY <1>1, <1>2

(* No step overflows the queue by the transfer itself.                      *)
LEMMA TransferStep ==
  ASSUME ~ThroughRouter, LanesInv, LanesInv', TransferInv, FrameNext
  PROVE  TransferInv'
<1>1. CASE SendFrame
  <2>1. PICK purpose \in {"control", "update"}, total \in 1 .. MaxChunks : Enqueue(purpose, total, 0)
    BY <1>1 DEF SendFrame
  <2>2. purpose \in Purpose /\ purpose # "snapshot"
    BY DEF Purpose
  <2> QED BY <2>1, <2>2, FrameTransfers
<1>2. CASE Subscribe
  <2>1. bulk' = <<>> /\ overflow' = overflow
    BY <1>2 DEF Subscribe, Kept
  <2>2. DOMAIN bulk' = {}
    BY <2>1
  <2> QED BY <2>1, <2>2 DEF TransferInv, NeverOverflowsItself
<1>3. CASE SendSequence
  <2>1. bulk' = Append(bulk, Sequence(pushing)) /\ pushing' = 0 /\ overflow' = overflow /\ pushing > 0
    BY <1>3 DEF SendSequence, Queued
  <2>2. bulk = <<>>
    BY <2>1 DEF TransferInv
  <2>3. PICK s : s = Sequence(pushing)
    OBVIOUS
  <2>4. s.kind = "sequence"
    BY <2>3 DEF Sequence
  <2>5. \A i \in DOMAIN bulk' : bulk'[i] = s
    BY <2>1, <2>2, <2>3
  <2>6. ~(pushing' > 0)
    BY <2>1
  <2> QED BY <2>1, <2>4, <2>5, <2>6 DEF TransferInv, NeverOverflowsItself, IsSnapshot
<1>4. CASE SendPayload
  <2>1. pushing > 0 /\ ~Lazy /\ pushing \in 0 .. MaxFrames
    BY <1>4 DEF SendPayload, LanesInv, LaneTypes
  <2>2. MaxFrames \in Nat
    BY MadeFacts
  <2>3. pushing - 1 = 0
    BY <2>1, <2>2 DEF Lazy
  <2>4. bulk = <<>>
    BY <2>1 DEF TransferInv
  <2>5. PICK total \in 1 .. MaxChunks : Enqueue("snapshot", total, 0)
    BY <1>4, <2>3 DEF SendPayload
  <2> QED BY <2>4, <2>5, FrameTransfers DEF Purpose
<1>b. bulk \in Seq(Part \cup OutgoingSequence)
  BY DEF LanesInv, LaneTypes
<1>t. ASSUME bulk # <<>>, bulk' = Tail(bulk)
      PROVE  \A i \in DOMAIN bulk' : \E j \in DOMAIN bulk : bulk'[i] = bulk[j]
  <2>1. /\ DOMAIN bulk = 1 .. Len(bulk) /\ Len(bulk) \in Nat \ {0} /\ DOMAIN bulk' = 1 .. Len(bulk) - 1
        /\ \A i \in DOMAIN bulk' : bulk'[i] = bulk[i + 1]
    BY <1>b, <1>t
  <2>2. \A i \in DOMAIN bulk' : i + 1 \in DOMAIN bulk
    BY <2>1
  <2> QED BY <2>1, <2>2
<1>5. CASE PullSequence
  <2>1. bulk # <<>> /\ Head(bulk).kind = "sequence"
    BY <1>5 DEF PullSequence, BulkIsNext
  <2>2. CASE SequenceEnds
    <3>1. bulk' = Tail(bulk) /\ made' = made /\ pushing' = pushing /\ overflow' = overflow
      BY <2>2 DEF SequenceEnds, historyVars
    <3> QED BY <1>t, <2>1, <3>1, TransferStays
  <2>3. ASSUME NEW total \in 1 .. MaxChunks, SequenceYields(total)
        PROVE  TransferInv'
    <3>1. CASE ~Fits(total)
      <4>1. Overflows("snapshot", total)
        BY <2>3, <3>1 DEF SequenceYields
      <4>2. 1 \in DOMAIN bulk /\ bulk[1].kind = "sequence"
        BY <1>b, <2>1
      <4>3. NoSnapshot
        BY <4>2 DEF TransferInv, NoSnapshot
      <4> QED BY <3>1, <4>1, <4>3, OverflowTransfers
    <3>2. CASE Fits(total)
      <4>1. /\ bulk' = [bulk EXCEPT ![1].left = @ - 1, ![1].current = {nextFrameId + 1}]
            /\ pushing' = pushing /\ overflow' = overflow
            /\ made' = Append(made, [rank |-> Head(bulk).rank, purpose |-> "snapshot", total |-> total])
        BY <2>3, <3>2 DEF SequenceYields, Creates, historyVars
      <4>2. \A id \in 1 .. nextFrameId : made'[id] = made[id]
        <5>1. made \in Seq(Content) /\ nextFrameId = Len(made)
          BY DEF LanesInv, LaneTypes, nextFrameId
        <5>2. PICK c : c = [rank |-> Head(bulk).rank, purpose |-> "snapshot", total |-> total]
          OBVIOUS
        <5> QED BY <4>1, <5>1, <5>2
      <4>3. 1 \in DOMAIN bulk /\ bulk[1].kind = "sequence" /\ bulk[1] \in OutgoingSequence
        BY <1>b, <2>1, BulkItems
      <4>4. PICK n : n = nextFrameId + 1
        OBVIOUS
      <4>5. bulk'[1].kind = "sequence" /\ DOMAIN bulk' = DOMAIN bulk /\ \A i \in DOMAIN bulk : i # 1 => bulk'[i] = bulk[i]
        BY <4>1, <4>3, <4>4 DEF OutgoingSequence
      <4> QED BY <4>1, <4>2, <4>3, <4>5, TransferStays
    <3> QED BY <3>1, <3>2
  <2> QED BY <1>5, <2>2, <2>3 DEF PullSequence
<1>6. CASE FlushReturns \/ Receive \/ WriteControl \/ WriteCancellation
  <2>1. bulk' = bulk /\ made' = made /\ pushing' = pushing /\ overflow' = overflow
    BY <1>6 DEF FlushReturns, Receive, WriteControl, WriteCancellation, historyVars
  <2> QED BY <2>1, TransferStays
<1>7. CASE WriteBulk
  <2>1. /\ bulk' = bulk \/ bulk' = Tail(bulk)
        /\ made' = made /\ pushing' = pushing /\ overflow' = overflow
    BY <1>7 DEF WriteBulk, BulkIsNext, historyVars
  <2>2. bulk # <<>>
    BY <1>7 DEF WriteBulk, BulkIsNext
  <2> QED BY <1>t, <2>1, <2>2, TransferStays
<1>8. CASE WriteSequence
  <2>1. /\ bulk' = bulk \/ bulk' = [bulk EXCEPT ![1].current = {}]
        /\ made' = made /\ pushing' = pushing /\ overflow' = overflow
    BY <1>8 DEF WriteSequence, historyVars
  <2>2. bulk # <<>> /\ Head(bulk).kind = "sequence"
    BY <1>8 DEF WriteSequence, BulkIsNext
  <2>3. 1 \in DOMAIN bulk /\ bulk[1].kind = "sequence" /\ bulk[1] \in OutgoingSequence
    BY <1>b, <2>2, BulkItems
  <2>4. CASE bulk' = bulk
    BY <2>1, <2>4, TransferStays
  <2>5. CASE bulk' = [bulk EXCEPT ![1].current = {}]
    <3>1. bulk'[1].kind = "sequence" /\ DOMAIN bulk' = DOMAIN bulk /\ \A i \in DOMAIN bulk : i # 1 => bulk'[i] = bulk[i]
      BY <2>3, <2>5 DEF OutgoingSequence
    <3> QED BY <2>1, <2>3, <3>1, TransferStays
  <2> QED BY <2>1, <2>4, <2>5
<1> QED BY <1>1, <1>2, <1>3, <1>4, <1>5, <1>6, <1>7, <1>8 DEF FrameNext, Flush

-------------------------------------------------------------------------------
(* The inductive invariant of the carrier.                                  *)
FrameInv == LanesInv /\ AccountsForTheQueue /\ DecoderInv /\ OrderInv

(* The inductive invariant holds at first.                                  *)
LEMMA FrameInvInit ==
  ASSUME FrameInit
  PROVE  FrameInv
<1>1. control = <<>> /\ bulk = <<>> /\ queuedBytes = 0
  BY DEF FrameInit
<1>2. LiveFrames = {} /\ Cancelling = {}
  BY <1>1, EmptyLane DEF LiveFrames, Cancelling
<1>3. Unsent(LiveFrames) = {}
  BY <1>2 DEF Unsent
<1>4. AccountsForTheQueue
  BY <1>1, <1>2, <1>3, FS_EmptySet DEF AccountsForTheQueue
<1> QED BY <1>4, LanesInit, DecodesInit, OrderInit DEF FrameInv

(* Every step keeps the inductive invariant.                                *)
LEMMA FrameInvStep ==
  ASSUME FrameInv, [FrameNext]_frameVars
  PROVE  FrameInv'
<1>1. LanesInv /\ AccountsForTheQueue /\ DecoderInv /\ OrderInv
  BY DEF FrameInv
<1>2. CASE FrameNext
  <2>1. LanesInv' /\ AccountsForTheQueue'
    BY <1>1, <1>2, LanesStep, AccountsStep
  <2>2. DecoderInv' /\ OrderInv'
    <3>1. CASE QuietStep
      BY <1>1, <2>1, <3>1, QuietDecodes, QuietOrders
    <3>2. ASSUME NEW id \in LiveFrames, WriteStep(id)
          PROVE  DecoderInv' /\ OrderInv'
      BY <1>1, <3>2, WriteDecodes, WriteOrders
    <3>3. ASSUME NEW id, CancelStep(id)
          PROVE  DecoderInv' /\ OrderInv'
      BY <1>1, <3>3, CancelDecodes, CancelOrders
    <3>4. CASE Receive
      BY <1>1, <3>4, ReceiveDecodes, ReceiveOrders
    <3> QED BY <1>1, <1>2, <3>1, <3>2, <3>3, <3>4, LanesStep
  <2> QED BY <2>1, <2>2 DEF FrameInv
<1>3. CASE UNCHANGED frameVars
  <2>1. LanesInv' /\ DecoderInv' /\ OrderInv'
    BY <1>1, <1>3, LanesStutter, DecodesStutter, OrderStutter
  <2>2. queuedBytes' = queuedBytes /\ made' = made /\ nextIndex' = nextIndex /\ control' = control /\ bulk' = bulk
    BY <1>3 DEF frameVars, senderVars
  <2>3. SameQueue
    BY <2>2 DEF SameQueue, LiveFrames, Cancelling
  <2>4. AccountsForTheQueue'
    BY <1>1, <2>3, SameAccounts
  <2> QED BY <2>1, <2>4 DEF FrameInv
<1> QED BY <1>2, <1>3

(* The inductive invariant holds throughout.                                *)
LEMMA FrameInvHolds == FrameSpec => []FrameInv
BY FrameInvInit, FrameInvStep, PTL DEF FrameSpec

(* The queue is well formed, and what it accounts for is never negative     *)
(* (PrioritizedFrameQueue, DataChannelFrameDecoder).                        *)
THEOREM FrameTypeCorrect == FrameSpec => []FrameTypeOK
<1>1. ASSUME FrameInv
      PROVE  FrameTypeOK
  <2>1. LaneTypes /\ AccountsForTheQueue
    BY <1>1 DEF FrameInv, LanesInv
  <2>2. {open, flushing, broken} \subseteq BOOLEAN
    BY <2>1 DEF LaneTypes
  <2>3. queuedBytes \in Nat
    <3>1. Cardinality(Unsent(LiveFrames)) \in Nat /\ Cardinality(Cancelling) \in Nat
      BY <1>1, QueueIsFinite DEF FrameInv
    <3> QED BY <2>1, <3>1 DEF AccountsForTheQueue
  <2>4. nextFrameId <= MaxFrames /\ \A id \in LiveFrames : id <= nextFrameId
    BY <1>1, LiveIsHeld, MadeFacts DEF FrameInv
  <2> QED BY <2>1, <2>2, <2>3, <2>4 DEF LaneTypes, FrameTypeOK
<1> QED BY <1>1, FrameInvHolds, PTL

(* After every cancellation the bytes accounted for are those of the queue, *)
(* and what was cancelled never arrives (cancelTransfer).                   *)
THEOREM CancellationCorrect == FrameSpec => []CancellationIsClean
<1>1. ASSUME FrameInv
      PROVE  CancellationIsClean
  BY <1>1, DeliveredFacts DEF FrameInv, CancellationIsClean, CancelledIsGone
<1> QED BY <1>1, FrameInvHolds, PTL

(* Every message is the next one of its frame when the decoder gets it, and *)
(* a lane delivers in the order in which it took in (flush, accept).        *)
THEOREM LanesCorrect == FrameSpec => []LanesArriveInOrder
<1>1. ASSUME FrameInv
      PROVE  LanesArriveInOrder
  <2>1. ~broken /\ LanesKeepOrder
    BY <1>1 DEF FrameInv, DecoderInv, OrderInv
  <2>2. NumberPending <= 2
    BY <1>1, FewArePending DEF FrameInv
  <2> QED BY <2>1, <2>2 DEF LanesArriveInOrder, DecodesCleanly
<1> QED BY <1>1, FrameInvHolds, PTL

(* A transfer never fills the queue by itself, on a connection that is not  *)
(* seen through the router (sendInitialSessionSync, enqueueSequence).       *)
THEOREM TransfersFit == ~ThroughRouter => (FrameSpec => []NeverOverflowsItself)
<1> SUFFICES ASSUME ~ThroughRouter
             PROVE  FrameSpec => []NeverOverflowsItself
  OBVIOUS
<1>1. FrameInit => TransferInv
  <2> SUFFICES ASSUME FrameInit PROVE TransferInv
    OBVIOUS
  <2>1. bulk = <<>> /\ overflow = "none"
    BY DEF FrameInit
  <2> QED BY <2>1 DEF TransferInv, NeverOverflowsItself
<1>2. FrameInv /\ FrameInv' /\ TransferInv /\ [FrameNext]_frameVars => TransferInv'
  <2> SUFFICES ASSUME FrameInv, FrameInv', TransferInv, [FrameNext]_frameVars
               PROVE  TransferInv'
    OBVIOUS
  <2>1. LanesInv /\ LanesInv'
    BY DEF FrameInv
  <2>2. CASE FrameNext
    BY <2>1, <2>2, TransferStep
  <2>3. CASE UNCHANGED frameVars
    <3>1. bulk' = bulk /\ made' = made /\ pushing' = pushing /\ overflow' = overflow
      BY <2>3 DEF frameVars, senderVars, historyVars
    <3> QED BY <2>1, <3>1, TransferStays
  <2> QED BY <2>2, <2>3
<1>3. TransferInv => NeverOverflowsItself
  BY DEF TransferInv
<1> QED BY <1>1, <1>2, <1>3, FrameInvHolds, PTL DEF FrameSpec

=============================================================================
