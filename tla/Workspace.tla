------------------------------ MODULE Workspace ------------------------------
(***************************************************************************)
(* The browser's workspace of hosts: WorkspaceBackendClient with the       *)
(* clients of RemoteBackendManager, one carrier (BrowserCarrier) and one   *)
(* subscription flag of the adapter for each host                          *)
(* (src/client/workspace-backend-client.ts, remote-backend-manager.ts).    *)
(*                                                                         *)
(* Conversations are selected by operations whose awaits interleave with   *)
(* each other, with the discovery that runs every five seconds, and with   *)
(* the carriers' own reconnection.                                         *)
(***************************************************************************)
EXTENDS BrowserCarrier

CONSTANTS MaxOps,          \* bound on the operations of the user, one call each
          Kinds,           \* which kinds of them there are
          Troubles         \* bound on failures, losses and hosts that go down

OpKinds == {"switch", "new", "activate", "remove"}

WorkspaceAssumption ==
  MaxOps \in Nat /\ Troubles \in Nat /\ Host # {} /\ Kinds \subseteq OpKinds
ASSUME WorkspaceAssumption

VARIABLES
  authorized,              \* the hosts the rendezvous service lists for this browser
  contexts,                \* contexts
  joining,                 \* context.connecting: "no", or what it waits for
  active,                  \* activeId
  want,                    \* _sessionSubscriptionActive of each adapter
  path,                    \* whether switchSession has given the adapter a conversation
  ops,                     \* the operations of the user
  starting,                \* the hosts whose attempts connect() still waits for
  asking,                  \* discovery: "timer", "listing" or "connecting"
  awaited,                 \* the hosts whose attempts the discovery waits for
  disturbed                \* history: overlapping operations, a fail-over, a host that was
                           \* dropped while it was active or selected, a new conversation
                           \* that could not be begun

view == <<contexts, active, want, path>>
tasks == <<ops, starting, asking, awaited>>
vars == <<carrierVars, authorized, view, joining, tasks, disturbed>>

Op == 1..MaxOps

Pcs == {"unborn", "connecting", "listing", "pausing", "resuming", "initializing", "revoking",
        "done", "failed"}

NoOp == [kind |-> "switch", host |-> CHOOSE h \in Host : TRUE, pc |-> "unborn"]

TypeOK ==
  /\ CarrierTypeOK
  /\ authorized \subseteq Host /\ contexts \subseteq Host
  /\ joining \in [Host -> {"no", "carrier", "sessions"}]
  /\ active \in Host
  /\ want \in [Host -> BOOLEAN] /\ path \in [Host -> BOOLEAN]
  /\ ops \in [Op -> [kind : OpKinds, host : Host, pc : Pcs]]
  /\ starting \subseteq Host /\ awaited \subseteq Host
  /\ asking \in {"timer", "listing", "connecting"}
  /\ disturbed \in BOOLEAN

(* The page is loaded: some hosts are listed, one of them is active, and   *)
(* connect() has begun an attempt for each host that is listed as online.  *)
(* A stored conversation may have been painted: it is not subscribed yet.  *)
Init ==
  /\ up \in SUBSET Host
  /\ trouble = Troubles
  /\ authorized = Host
  /\ contexts = authorized
  /\ active \in contexts
  /\ carrier = [h \in Host |-> IF h \in contexts \cap up THEN Starts(NewCarrier, FALSE)
                               ELSE NewCarrier]
  /\ joining = [h \in Host |-> IF h \in contexts \cap up THEN "carrier" ELSE "no"]
  /\ want = [h \in Host |-> TRUE]
  /\ path = [h \in Host |-> FALSE]
  /\ ops = [o \in Op |-> NoOp]
  /\ starting = contexts \cap up
  /\ asking = "timer" /\ awaited = {}
  /\ disturbed = FALSE

-----------------------------------------------------------------------------
(* What connectContext waits for.  It joins context.connecting, whose      *)
(* promise waits for the carrier and then for the sessions of the host.    *)

Settled == {h \in Host : carrier[h].stage # "idle" /\ carrier'[h].stage = "idle"}
Won     == {h \in Settled : carrier'[h].connected}
Missed  == {h \in Settled \ Won : joining[h] = "carrier"}

\* Mutant of Told: an attempt that fails leaves those who wait for it where they are.
ToldOfSuccess(f) ==
  [o \in Op |-> IF f[o].pc = "connecting" /\ f[o].host \in Won
                THEN [f[o] EXCEPT !.pc = "listing"] ELSE f[o]]

\* Those who wait for an attempt that has ended; f holds the operations otherwise.
Told(f) ==
  [o \in Op |-> IF f[o].pc = "connecting" /\ f[o].host \in Settled
                THEN [f[o] EXCEPT !.pc = IF f[o].host \in Won THEN "listing" ELSE "failed"]
                ELSE f[o]]

Notified(f) ==
  /\ ops' = Told(f)
  /\ joining' = [h \in Host |->
        IF h \in Settled /\ joining[h] = "carrier"
        THEN IF h \in Won THEN "sessions" ELSE "no"
        ELSE joining[h]]
  /\ starting' = starting \ Missed
  /\ awaited' = awaited \ Missed
  /\ asking' = IF asking = "connecting" /\ awaited' = {} THEN "timer" ELSE asking

\* A step of the carrier, with what its listeners and waiters do about it.
Carrier(h) ==
  /\ CarrierStep(h)
  /\ Notified(ops)
  /\ UNCHANGED <<authorized, view, disturbed>>

\* Mutant of Joins: a second caller does not find the promise of the first.
JoinsAnew(H) == [h \in Host |-> IF h \in H THEN "joined" ELSE joining[h]]

\* connectContext of the hosts H: joined to context.connecting where there is one
Joins(H) == [h \in Host |-> IF h \in H /\ joining[h] = "no" THEN "carrier" ELSE joining[h]]
Connects(H) == [h \in Host |-> IF h \in H /\ joining[h] = "no" THEN Connect(carrier[h])
                               ELSE carrier[h]]

-----------------------------------------------------------------------------
(* The operations of the user.                                             *)

Running(o) == ops[o].pc \notin {"unborn", "done", "failed"}

\* What an operation o does when its host is connected, act being the active host:
\* it pauses another one's subscription, an await, and goes on at once otherwise.
Ready(o, h, act) ==
  [o EXCEPT !.pc = IF act # h THEN "pausing" ELSE IF o.kind = "switch" THEN "done"
                   ELSE "initializing"]

\* Mutant of Wants: the host that is left keeps its subscription.
WantsBoth(K, h, act) ==
  IF K = {} \/ act # h THEN want ELSE [want EXCEPT ![h] = @ \/ "switch" \in K]

\* The flags after the operations of kinds K have become ready for host h.
Wants(K, h, act) ==
  IF K = {} THEN want
  ELSE IF act # h THEN [want EXCEPT ![act] = @ /\ act \notin contexts]
  ELSE [want EXCEPT ![h] = @ \/ "switch" \in K]

Paths(K, h, act) == [path EXCEPT ![h] = @ \/ (act = h /\ "switch" \in K)]

\* operations begin in the order of their numbers
IsNext(o) == ops[o].pc = "unborn" /\ \A p \in 1..(o - 1) : ops[p].pc # "unborn"

\* activateContext up to its first await, of switchSession, newSession or activateBackend
Begin(o, k, h) ==
  /\ IsNext(o)
  /\ k \in Kinds \ {"remove"} /\ h \in contexts
  /\ LET begun == [kind |-> k, host |-> h, pc |-> "connecting"] IN
     IF IsConnected(h)
     THEN /\ ops' = [ops EXCEPT ![o] = Ready(begun, h, active)]
          /\ want' = Wants({k}, h, active) /\ path' = Paths({k}, h, active)
          /\ UNCHANGED <<carrier, joining>>
     ELSE /\ ops' = [ops EXCEPT ![o] = [begun EXCEPT !.pc =
                       IF joining[h] = "sessions" THEN "listing" ELSE @]]
          /\ carrier' = Connects({h}) /\ joining' = Joins({h})
          /\ UNCHANGED <<want, path>>
  /\ disturbed' = (disturbed \/ \E p \in Op : Running(p))
  /\ UNCHANGED <<up, trouble, authorized, contexts, active, starting, asking, awaited>>

\* The sessions of h are refreshed, well or not, and connectContext resolves.  connect()
\* and the discovery move to h when the active host is down, before or after the
\* operations that wait for h look at activeId.
SessionsListed(h) ==
  /\ joining[h] = "sessions" \/ \E o \in Op : ops[o].pc = "listing" /\ ops[o].host = h
  /\ joining' = [joining EXCEPT ![h] = IF @ = "sessions" THEN "no" ELSE @]
  /\ LET follows == joining[h] = "sessions" /\ h \in starting \cup awaited
                    /\ ~(active \in contexts /\ IsConnected(active))
         woken == {o \in Op : ops[o].pc = "listing" /\ ops[o].host = h}
         kinds == {ops[o].kind : o \in woken}
     IN /\ active' = IF follows THEN h ELSE active
        /\ disturbed' = (disturbed \/ active' # active)
        /\ \E act \in {active, active'} :
             /\ ops' = [o \in Op |-> IF o \in woken THEN Ready(ops[o], h, act) ELSE ops[o]]
             /\ want' = Wants(kinds, h, act)
             /\ path' = Paths(kinds, h, act)
  /\ IF joining[h] = "sessions"
     THEN /\ starting' = IF h \in starting THEN {} ELSE starting
          /\ awaited' = awaited \ {h}
     ELSE UNCHANGED <<starting, awaited>>
  /\ asking' = IF asking = "connecting" /\ awaited' = {} THEN "timer" ELSE asking
  /\ UNCHANGED <<carrierVars, authorized, contexts>>

\* The other host's subscription is paused: this one becomes active, whatever
\* has become of the workspace meanwhile.
Paused(o) ==
  LET h == ops[o].host IN
  /\ ops[o].pc = "pausing"
  /\ active' = h
  /\ want' = [want EXCEPT ![h] = @ \/ ops[o].kind \in {"switch", "activate"}]
  /\ path' = [path EXCEPT ![h] = @ \/ ops[o].kind = "switch"]
  /\ ops' = [ops EXCEPT ![o].pc = IF ops[o].kind = "switch" THEN "done" ELSE "initializing"]
  /\ UNCHANGED <<carrierVars, authorized, contexts, joining, starting, asking, awaited,
                 disturbed>>

\* ensureConversationInitialized, after which newSession has its own empty conversation;
\* when it fails, the host is active already and its subscription stays as it was left
Initialized(o) ==
  LET h == ops[o].host IN
  /\ ops[o].pc = "initializing"
  /\ \/ /\ ops' = [ops EXCEPT ![o].pc = "done"]
        /\ want' = [want EXCEPT ![h] = @ \/ ops[o].kind = "new"]
        /\ path' = [path EXCEPT ![h] = @ /\ ops[o].kind # "new"]
        /\ UNCHANGED <<trouble, disturbed>>
     \/ /\ ops' = [ops EXCEPT ![o].pc = "failed"]
        /\ MayFail(h)
        /\ disturbed' = (disturbed \/ ops[o].kind = "new")
        /\ UNCHANGED <<want, path>>
  /\ UNCHANGED <<carrier, up, authorized, contexts, active, joining, starting, asking,
                 awaited>>

RemoveBegins(o, h) ==
  /\ IsNext(o)
  /\ "remove" \in Kinds /\ h \in contexts
  /\ ops' = [ops EXCEPT ![o] = [kind |-> "remove", host |-> h, pc |-> "revoking"]]
  /\ UNCHANGED <<carrierVars, authorized, view, joining, starting, asking, awaited, disturbed>>

\* the hosts among which removeBackend takes the next one: a connected one if there is one
Preferred(H) == IF \E h \in H : IsConnected(h) THEN {h \in H : IsConnected(h)} ELSE H

\* revokeBackend has answered: the client is closed, the context deleted and another
\* host made active, whose subscription stays as it is
Removed(o) ==
  LET h == ops[o].host
      rest == contexts \ {h}
  IN /\ ops[o].pc = "revoking"
     /\ authorized' = authorized \ {h}
     /\ carrier' = [carrier EXCEPT ![h] = Close(@)]
     /\ contexts' = rest
     /\ IF active = h /\ rest # {} THEN active' \in Preferred(rest) ELSE UNCHANGED active
     /\ Notified([ops EXCEPT ![o].pc = "done"])
     /\ disturbed' = (disturbed \/ active = h \/ \E p \in Op \ {o} : Running(p))
     /\ UNCHANGED <<up, trouble, want, path>>

RemoveFails(o) ==
  /\ ops[o].pc = "revoking"
  /\ MayFail(ops[o].host)
  /\ ops' = [ops EXCEPT ![o].pc = "failed"]
  /\ UNCHANGED <<carrier, up, authorized, view, joining, starting, asking, awaited, disturbed>>

-----------------------------------------------------------------------------
(* The discovery.                                                          *)

DiscoveryTimer ==
  /\ asking = "timer"
  /\ asking' = "listing"
  /\ UNCHANGED <<carrierVars, authorized, view, joining, ops, starting, awaited, disturbed>>

\* refreshAuthorizedBackends: hosts that are not listed any more are closed and dropped,
\* new ones are added, and those that are neither connected nor reconnecting
\* are connected
Discovered ==
  LET found == authorized
      candidates == {h \in found \cap up : ~IsConnected(h) /\ ~IsReconnecting(h)}
  IN /\ asking = "listing"
     /\ contexts' = found
     /\ IF found # {} /\ active \notin found
        THEN active' \in IF found \cap up # {} THEN found \cap up ELSE found
        ELSE UNCHANGED active
     /\ carrier' = [h \in Host |-> IF h \in contexts \ found THEN Close(carrier[h])
                                   ELSE Connects(candidates)[h]]
     /\ ops' = Told(ops)
     /\ joining' = [h \in Host |-> IF h \in Missed THEN "no" ELSE Joins(candidates)[h]]
     /\ starting' = starting \ Missed
     /\ awaited' = candidates
     /\ asking' = IF candidates = {} THEN "timer" ELSE "connecting"
     /\ disturbed' = (disturbed \/ active' # active
                      \/ \E o \in Op : Running(o) /\ ops[o].host \in contexts \ found)
     /\ UNCHANGED <<up, trouble, authorized, want, path>>

DiscoveryFails ==
  /\ asking = "listing"
  /\ trouble > 0
  /\ trouble' = trouble - 1
  /\ asking' = "timer"
  /\ UNCHANGED <<carrier, up, authorized, view, joining, ops, starting, awaited, disturbed>>

-----------------------------------------------------------------------------
(* The world: hosts go down and come up, and another device revokes a host *)
(* or authorizes it again.                                                 *)

Outside ==
  /\ \/ \E h \in Host : (GoesDown(h) \/ ComesUp(h)) /\ UNCHANGED authorized
     \/ \E h \in authorized : /\ trouble > 0 /\ trouble' = trouble - 1
                              /\ authorized' = authorized \ {h}
                              /\ UNCHANGED <<carrier, up>>
     \/ \E h \in Host \ (authorized \cup contexts) :
          /\ joining[h] = "no"
          /\ \A o \in Op : ops[o].pc = "unborn" \/ ops[o].host # h \/ ops[o].kind # "remove"
          /\ authorized' = authorized \cup {h}
          /\ UNCHANGED carrierVars
  /\ UNCHANGED <<view, joining, tasks, disturbed>>

Next ==
  \/ \E h \in Host : Carrier(h) \/ SessionsListed(h)
  \/ \E o \in Op, h \in Host : RemoveBegins(o, h) \/ \E k \in Kinds : Begin(o, k, h)
  \/ \E o \in Op : Paused(o) \/ Initialized(o) \/ Removed(o) \/ RemoveFails(o)
  \/ DiscoveryTimer \/ Discovered \/ DiscoveryFails
  \/ Outside

Spec == Init /\ [][Next]_vars

(* Attempts end, the timers fire, and every request is answered or fails;  *)
(* that something fails although nothing is wrong is never required.       *)
Unforced(h) == Carrier(h) /\ trouble' = trouble

Fairness ==
  /\ \A h \in Host : WF_vars(Unforced(h)) /\ WF_vars(SessionsListed(h))
  /\ \A o \in Op : WF_vars(Paused(o)) /\ WF_vars(Initialized(o)) /\ WF_vars(Removed(o))
  /\ WF_vars(DiscoveryTimer) /\ WF_vars(Discovered)

FairSpec == Spec /\ Fairness

-----------------------------------------------------------------------------

Streams(h) == want[h] /\ path[h]

Quiet == \A o \in Op : ~Running(o)

\* the last operation that selects a conversation, if it succeeded
Latest(o) ==
  /\ ops[o].pc = "done" /\ ops[o].kind # "remove"
  /\ \A p \in (o + 1)..MaxOps : ops[p].pc = "unborn" \/ ops[p].kind = "remove"

(* A selection that nothing disturbed leaves exactly what it asked for: its *)
(* host is active and subscribed, and every other host is silent, however   *)
(* the carriers were lost and restored meanwhile.                           *)
SelectionsAreClean ==
  Quiet /\ ~disturbed =>
    /\ \A h \in contexts \ {active} : ~Streams(h)
    /\ \A o \in Op : Latest(o) => active = ops[o].host /\ want[active]

(* Whoever waits for a host waits for something that will end: a promise of *)
(* connectContext for an attempt of the carrier that is under way, connect() *)
(* and the discovery, whose next round depends on it, for such a promise.    *)
EveryWaitEnds ==
  /\ \A h \in Host : joining[h] = "carrier" => carrier[h].stage # "idle"
  /\ \A o \in Op : ops[o].pc = "connecting" => carrier[ops[o].host].stage # "idle"
  /\ \A h \in starting \cup awaited : joining[h] # "no"
  /\ awaited # {} <=> asking = "connecting"

(* A host that is listed and reachable from some point on is connected from *)
(* some point on, and the active host is one that is listed: whatever the   *)
(* attempts, timers and closes before.                                      *)
Converges ==
  /\ \A h \in Host : <>[](h \in up /\ h \in authorized) => <>[](h \in contexts /\ IsConnected(h))
  /\ <>[](authorized # {}) => <>[](active \in contexts)

(* The facade promises that inactive hosts never stream history.  The code  *)
(* does not keep it across a fail-over or two overlapping selections.       *)
InactiveIsQuiet == Quiet => \A h \in contexts \ {active} : ~Streams(h)

(* The active host is subscribed when nothing is under way.  The code does  *)
(* not keep it when a fail-over or a newSession that cannot initialize its  *)
(* host makes a host active whose subscription was paused before.           *)
ActiveIsSubscribed == Quiet => want[active]

(* The conversation selected last is the one in view.  A slower host that   *)
(* was asked before still takes over when it is connected at last.          *)
LastSelectionWins ==
  Quiet => \A o \in Op : Latest(o) => active = ops[o].host

(* A carrier that was closed stays closed until someone connects it.  The   *)
(* code does not keep it when close() meets the request for a ticket.       *)
ClosedStaysClosed == \A h \in Host : ~(carrier[h].closed /\ IsConnected(h))

=============================================================================
