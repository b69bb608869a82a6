------------------------------- MODULE Rendezvous -------------------------------
(***************************************************************************)
(* How a browser comes to talk to a backend that it cannot reach itself:   *)
(* the hub of the rendezvous service (src/rendezvous/rendezvous-hub.ts and *)
(* server.ts), its link to each backend (src/server/rendezvous-client.ts), *)
(* and what the backend decides and remembers by itself                    *)
(* (backend-webrtc.ts, backend-connection-authorizer.ts,                   *)
(* backend-trust-store.ts, wired in server.ts).                            *)
(*                                                                         *)
(* An operation of TrustStore that a request makes is part of the hub's    *)
(* step.  The two directions of a link are queues that are lost with it;   *)
(* each end notices the loss in its own time.  A connection has the id of  *)
(* its ticket, and a browser opens a socket for each.  The offer, answer,  *)
(* candidates and binding that the hub relays change nothing here: what    *)
(* comes of them is that the channel opens, or that the peer fails.        *)
(* pairing_opened is left out: it lets the command print the link, which   *)
(* is taken to be known once the hub has the pairing.                      *)
(***************************************************************************)
EXTENDS TrustStore, Sequences

CONSTANTS
  Coalescing,     \* a chunk of the link may hold several messages
  MaxFailures,    \* bound: lost links, restarts
  MaxLapses,      \* bound: pairings, tickets and invitations that expire or are accepted
  MaxRevocations  \* bound: revocations

ASSUME RendezvousAssumption ==
  Coalescing \in BOOLEAN /\ MaxFailures \in Nat /\ MaxLapses \in Nat /\ MaxRevocations \in Nat

VARIABLES
  \* the hub, in memory
  link,        \* the newest socket of a backend, see Links
  stale,       \* backends of which the hub still holds an older socket
  hubPairs,    \* pairings
  routes,      \* routes
  \* the carriers
  toBackend, toHub,
  \* a backend, on disk
  bOwner,      \* ownerAccountId
  bPairs,      \* pairings
  bSpent,      \* those with a usedAt
  bUsed,       \* usedTickets
  bRevoked,    \* revokedDevices
  \* a backend, in memory
  up,          \* backends whose process runs
  known,       \* registered of the client
  started,     \* backends that have registered since their process started
  active,      \* activePairings
  awaiting,    \* confirmationResolvers
  completing,  \* confirmations that have come and whose continuation has not run
  peers,       \* peers
  failures, revocations

hubVars     == <<link, stale, hubPairs, routes>>
carrierVars == <<toBackend, toHub>>
diskVars    == <<bOwner, bPairs, bSpent, bUsed, bRevoked>>
memoryVars  == <<up, known, started, active, awaiting, completing, peers>>
boundVars   == <<failures, revocations>>
vars == <<storeVars, hubVars, carrierVars, diskVars, memoryVars, boundVars>>

\* down; open and not registered; registered; closed by the hub, which the backend has not seen
Links == {"down", "fresh", "joined", "left"}
Phases == {"negotiating", "confirming", "ready"}

\* A message to a backend; the fields that a kind does not carry are Nobody.
Message(type, id, account, device) == [type |-> type, id |-> id, account |-> account, device |-> device]
Messages == [type: {"registered", "pairing_confirmed", "connection_request",
                    "connection_closed", "authorization_revoked", "error"},
             id: Ticket \cup {Nobody}, account: Account \cup {Nobody}, device: Device \cup {Nobody}]
Commands == [type: {"open_pairing"}, pairs: SUBSET Pair] \cup [type: {"confirm_pairing", "close_connection"}, id: Ticket]

TypeOK ==
  /\ StoreTypeOK
  /\ link \in [Backend -> Links] /\ stale \subseteq Backend
  /\ hubPairs \subseteq Pair
  /\ routes \subseteq [claims: Claims, account: Account \cup {Nobody}]
  /\ toBackend \in [Backend -> Seq(Messages)] /\ toHub \in [Backend -> Seq(Commands)]
  /\ bOwner \in [Backend -> Account \cup {Nobody}]
  /\ bPairs \in [Backend -> SUBSET Pair]
  /\ bSpent \in [Backend -> SUBSET Pair]
  /\ bUsed \in [Backend -> SUBSET Ticket]
  /\ bRevoked \in [Backend -> SUBSET Device]
  /\ up \subseteq Backend /\ known \subseteq up /\ started \subseteq up
  /\ active \in [Backend -> SUBSET Pair]
  /\ awaiting \in [Backend -> SUBSET Ticket]
  /\ completing \in [Backend -> SUBSET [claims: Claims, account: Account]]
  /\ peers \in [Backend -> SUBSET [claims: Claims, phase: Phases, account: Account \cup {Nobody}]]
  /\ failures \in 0..MaxFailures /\ revocations \in 0..MaxRevocations

Init ==
  /\ StoreInit
  /\ link = [b \in Backend |-> "down"] /\ stale = {} /\ hubPairs = {} /\ routes = {}
  /\ toBackend = [b \in Backend |-> <<>>] /\ toHub = [b \in Backend |-> <<>>]
  /\ bOwner = [b \in Backend |-> Nobody]
  /\ bPairs = [b \in Backend |-> {}]
  /\ bSpent = [b \in Backend |-> {}]
  /\ bUsed = [b \in Backend |-> {}]
  /\ bRevoked = [b \in Backend |-> {}]
  /\ up = Backend /\ known = {} /\ started = {}
  /\ active = [b \in Backend |-> {}]
  /\ awaiting = [b \in Backend |-> {}]
  /\ completing = [b \in Backend |-> {}]
  /\ peers = [b \in Backend |-> {}]
  /\ failures = 0 /\ revocations = 0

(***************************************************************************)
(* The links                                                               *)
(***************************************************************************)
Fails == failures < MaxFailures /\ failures' = failures + 1
Online(b) == link[b] = "joined" \/ b \in stale

\* What the hub sends is lost when the socket it holds is not the backend's any more.
HubSends(out) ==
  toBackend' = [b \in Backend |-> IF link[b] = "joined" THEN toBackend[b] \o out[b] ELSE toBackend[b]]
HubTells(b, messages) == HubSends([x \in Backend |-> IF x = b THEN messages ELSE <<>>])
Commanded(b, commands) == [toHub EXCEPT ![b] = IF link[b] = "joined" THEN @ \o commands ELSE @]

RoutesOf(b) == {r \in routes : r.claims.backend = b}
PairsOf(b) == {p \in hubPairs : Host[p] = b}

RemoveRegisteredBackend(b) ==
  /\ routes' = routes \ RoutesOf(b)
  /\ hubPairs' = hubPairs \ PairsOf(b)

\* The backend opens a socket; the challenge and its answer are part of Registers.
Connects(b) ==
  /\ b \in up /\ link[b] = "down"
  /\ link' = [link EXCEPT ![b] = "fresh"]
  /\ UNCHANGED <<storeVars, stale, hubPairs, routes, carrierVars, diskVars, memoryVars, boundVars>>

\* A newer registration replaces the one the hub still holds, and a revocation that was
\* retained is told right after it.
Revocation(b) ==
  IF revocation[b] = Nobody THEN <<>>
  ELSE <<Message("authorization_revoked", Nobody, revocation[b], Nobody)>>

Replaces(b) == b \in stale

Registers(b) ==
  /\ link[b] = "fresh"
  /\ IF Replaces(b) THEN RemoveRegisteredBackend(b) ELSE UNCHANGED <<routes, hubPairs>>
  /\ link' = [link EXCEPT ![b] = "joined"]
  /\ stale' = stale \ {b}
  /\ toBackend' = [toBackend EXCEPT ![b] = <<Message("registered", Nobody, Nobody, Nobody)>> \o Revocation(b)]
  /\ UNCHANGED <<storeVars, toHub, diskVars, memoryVars, boundVars>>

HubNotices(b) ==
  /\ b \in stale
  /\ stale' = stale \ {b}
  /\ RemoveRegisteredBackend(b)
  /\ UNCHANGED <<storeVars, link, carrierVars, diskVars, memoryVars, boundVars>>

\* The hub gives a link up first; what it has sent may still arrive.
HubDrops(b) ==
  /\ Fails
  /\ link[b] = "joined"
  /\ link' = [link EXCEPT ![b] = "left"]
  /\ toHub' = [toHub EXCEPT ![b] = <<>>]
  /\ RemoveRegisteredBackend(b)
  /\ UNCHANGED <<storeVars, stale, toBackend, diskVars, memoryVars, revocations>>

HubRestarts ==
  /\ Fails
  /\ link' = [b \in Backend |-> IF link[b] = "down" THEN "down" ELSE "left"]
  /\ toHub' = [b \in Backend |-> <<>>]
  /\ stale' = {} /\ routes' = {} /\ hubPairs' = {}
  /\ UNCHANGED <<storeVars, toBackend, diskVars, memoryVars, revocations>>

\* The socket of the backend is closed; the hub may not know it.
SocketCloses(b) ==
  /\ link' = [link EXCEPT ![b] = "down"]
  /\ stale' = IF link[b] = "joined" THEN stale \cup {b} ELSE stale
  /\ toBackend' = [toBackend EXCEPT ![b] = <<>>]
  /\ toHub' = [toHub EXCEPT ![b] = <<>>]

\* Mutant: the client stays registered without a socket.
StaysRegistered(b) == known' = known
IsUnregistered(b) == known' = known \ {b}

ProcessEnds(b) ==
  /\ SocketCloses(b) /\ IsUnregistered(b)
  /\ up' = up \ {b} /\ started' = started \ {b}
  /\ active' = [active EXCEPT ![b] = {}]
  /\ awaiting' = [awaiting EXCEPT ![b] = {}]
  /\ completing' = [completing EXCEPT ![b] = {}]
  /\ peers' = [peers EXCEPT ![b] = {}]

\* The continuation of a confirmation runs after the message that resolves it, and before
\* anything else unless the chunk holds another message.
IsSettled(b) == completing[b] = {}

PeersFor(b, t) == {x \in peers[b] : x.claims.id = t}

\* A confirmation that is waited for is rejected; the peer it was for then fails, sends
\* close_connection without a registration, and what that throws nobody catches.
Interrupted(b) == \E t \in awaiting[b] : PeersFor(b, t) # {}

LosesLink(b) ==
  IF Interrupted(b) THEN ProcessEnds(b)
  ELSE /\ SocketCloses(b) /\ IsUnregistered(b)
       /\ awaiting' = [awaiting EXCEPT ![b] = {}]
       /\ UNCHANGED <<up, started, active, completing, peers>>

LinkLost(b) ==
  /\ Fails
  /\ link[b] \in {"fresh", "joined"} /\ IsSettled(b)
  /\ LosesLink(b)
  /\ UNCHANGED <<storeVars, hubPairs, routes, diskVars, revocations>>

CloseArrives(b) ==
  /\ link[b] = "left" /\ IsSettled(b)
  /\ LosesLink(b)
  /\ UNCHANGED <<storeVars, hubPairs, routes, diskVars, boundVars>>

BackendStops(b) ==
  /\ Fails
  /\ b \in up
  /\ ProcessEnds(b)
  /\ UNCHANGED <<storeVars, hubPairs, routes, diskVars, revocations>>

BackendStarts(b) ==
  /\ b \notin up
  /\ up' = up \cup {b}
  /\ UNCHANGED <<storeVars, hubVars, carrierVars, diskVars, known, started, active, awaiting,
                 completing, peers, boundVars>>

(***************************************************************************)
(* The hub: commands of a backend                                          *)
(***************************************************************************)
Command(b, type) == link[b] = "joined" /\ toHub[b] # <<>> /\ Head(toHub[b]).type = type
CommandTaken(b) == toHub' = [toHub EXCEPT ![b] = Tail(@)]
RouteFor(b, t) == {r \in RoutesOf(b) : r.claims.id = t}
IsOpen(p) == p \in hubPairs /\ p \notin lapsed /\ Online(Host[p])

OpenPairing(b) ==
  /\ Command(b, "open_pairing")
  /\ CommandTaken(b)
  /\ hubPairs' = hubPairs \cup (Head(toHub[b]).pairs \ lapsed)
  /\ UNCHANGED <<storeVars, link, stale, routes, toBackend, diskVars, memoryVars, boundVars>>

\* The connection is a pairing attempt of this backend, and its pairing is open.
IsAttempt(b, r) ==
  /\ r.claims.kind = "pairing"
  /\ IsOpen(r.claims.pair)
  /\ Host[r.claims.pair] = b

Confirms(b, r, a) ==
  /\ ConfirmPairing(r.claims, a)
  /\ hubPairs' = hubPairs \ {r.claims.pair}
  /\ routes' = (routes \ {r}) \cup {[r EXCEPT !.account = a]}
  /\ HubTells(b, <<Message("pairing_confirmed", r.claims.id, a, r.claims.device)>>)

ConfirmCommand(b) ==
  /\ Command(b, "confirm_pairing")
  /\ CommandTaken(b)
  /\ \E r \in RouteFor(b, Head(toHub[b]).id) : \E a \in Account : IsAttempt(b, r) /\ Confirms(b, r, a)
  /\ UNCHANGED <<link, stale, diskVars, memoryVars, boundVars>>

RefuseCommand(b) ==
  /\ Command(b, "confirm_pairing")
  /\ CommandTaken(b)
  /\ \A r \in RouteFor(b, Head(toHub[b]).id) : ~IsAttempt(b, r) \/ Refuses(r.claims)
  /\ HubTells(b, <<Message("error", Head(toHub[b]).id, Nobody, Nobody)>>)
  /\ UNCHANGED <<storeVars, link, stale, hubPairs, routes, diskVars, memoryVars, boundVars>>

CloseFromBackend(b) ==
  /\ Command(b, "close_connection")
  /\ CommandTaken(b)
  /\ LET closed == RouteFor(b, Head(toHub[b]).id) IN
       /\ routes' = routes \ closed
       /\ HubTells(b, IF closed = {} THEN <<Message("error", Head(toHub[b]).id, Nobody, Nobody)>> ELSE <<>>)
  /\ UNCHANGED <<storeVars, link, stale, hubPairs, diskVars, memoryVars, boundVars>>

(***************************************************************************)
(* The hub: browsers                                                       *)
(***************************************************************************)
Untouched == UNCHANGED <<link, stale, hubPairs, toHub, diskVars, memoryVars>>

RequestPairing(d, p, t) ==
  /\ IsOpen(p)
  /\ IssuePairingTicket(d, p, t)
  /\ Untouched /\ UNCHANGED <<routes, toBackend, boundVars>>

RequestConnection(d, b, t) ==
  /\ Online(b)
  /\ IssueConnectionTicket(d, b, t)
  /\ Untouched /\ UNCHANGED <<routes, toBackend, boundVars>>

\* What a ticket still has to satisfy when it is used.
Admitted(c) ==
  IF c.kind = "pairing" THEN IsOpen(c.pair)
  ELSE owner[c.backend] = c.account /\ IsActive(c.device)

ConnectBrowser(c) ==
  /\ Online(c.backend)
  /\ ConsumeRouteTicket(c)
  /\ Admitted(c)
  /\ routes' = routes \cup {[claims |-> c, account |-> c.account]}
  /\ HubTells(c.backend, <<Message("connection_request", c.id, Nobody, Nobody)>>)
  /\ Untouched /\ UNCHANGED boundVars

TurnBrowserAway(c) ==
  /\ Online(c.backend)
  /\ ConsumeRouteTicket(c)
  /\ ~Admitted(c)
  /\ Untouched /\ UNCHANGED <<routes, toBackend, boundVars>>

Closed(r) == <<Message("connection_closed", r.claims.id, Nobody, Nobody)>>

RemoveBrowser(r) ==
  /\ r \in routes
  /\ routes' = routes \ {r}
  /\ HubTells(r.claims.backend, Closed(r))
  /\ Untouched /\ UNCHANGED <<storeVars, boundVars>>

Invites(d, i) ==
  /\ CreateDeviceInvite(d, i)
  /\ Untouched /\ UNCHANGED <<routes, toBackend, boundVars>>

\* The bound on what expires or is accepted.
MayLapse == Cardinality(lapsed) < MaxLapses

Joins(d, x) ==
  /\ MayLapse
  /\ AcceptDeviceInvite(d, x)
  /\ Untouched /\ UNCHANGED <<routes, toBackend, boundVars>>

Revokes == revocations < MaxRevocations /\ revocations' = revocations + 1

\* notifyRevocation: the backends of the account that have a socket are told, the routes of
\* the account are removed.
NotifyDevice(a, d) ==
  /\ HubSends([b \in Backend |-> IF owner[b] = a THEN <<Message("authorization_revoked", Nobody, a, d)>> ELSE <<>>])
  /\ routes' = {r \in routes : ~(r.account = a /\ r.claims.device = d)}

NotifyBackend(a, b) ==
  /\ HubTells(b, <<Message("authorization_revoked", Nobody, a, Nobody)>>)
  /\ routes' = {r \in routes : ~(r.account = a /\ r.claims.backend = b)}

DeviceIsRevoked(d, target) ==
  /\ Revokes
  /\ RevokeDevice(d, target)
  /\ NotifyDevice(deviceAccount[d], target)
  /\ Untouched /\ UNCHANGED failures

BackendIsRevoked(d, b) ==
  /\ Revokes
  /\ RevokeBackend(d, b)
  /\ NotifyBackend(deviceAccount[d], b)
  /\ Untouched /\ UNCHANGED failures

\* A pairing, a ticket or an invitation comes to its expiresAt.
Expires ==
  /\ MayLapse
  /\ \/ \E p \in Pair \ lapsed : (\E b \in Backend : p \in bPairs[b]) /\ PairingExpires(p)
     \/ \E c \in tickets : c.id \notin lapsed /\ TicketExpires(c)
     \/ \E x \in invites : InviteExpires(x)
  /\ Untouched /\ UNCHANGED <<routes, toBackend, boundVars>>

(***************************************************************************)
(* The backend: messages of the hub                                        *)
(***************************************************************************)
Received(b, type) ==
  /\ toBackend[b] # <<>> /\ Head(toBackend[b]).type = type
  /\ Coalescing \/ IsSettled(b)
  /\ toBackend' = [toBackend EXCEPT ![b] = Tail(@)]
Arrived(b) == Head(toBackend[b])
Without(b, t) == [peers EXCEPT ![b] = @ \ PeersFor(b, t)]
NothingElse == UNCHANGED <<storeVars, hubVars, boundVars>>

\* The pairings that a registration opens again: those on disk the first time.  What is sent
\* for each of them is one command here.
Reopens(b) == (IF b \in started THEN active[b] ELSE bPairs[b] \ bSpent[b]) \ lapsed
OpenCommands(pairs) == IF pairs = {} THEN <<>> ELSE <<[type |-> "open_pairing", pairs |-> pairs]>>

Registered(b) ==
  /\ Received(b, "registered")
  /\ known' = known \cup {b} /\ started' = started \cup {b}
  /\ active' = [active EXCEPT ![b] = Reopens(b)]
  /\ toHub' = Commanded(b, OpenCommands(Reopens(b)))
  /\ NothingElse /\ UNCHANGED <<diskVars, up, awaiting, completing, peers>>

\* A ticket that has expired on the way is refused.
CreatePeer(b) ==
  /\ Received(b, "connection_request")
  /\ \E c \in tickets : c.id = Arrived(b).id /\
       IF c.id \in lapsed
       THEN /\ toHub' = Commanded(b, <<[type |-> "close_connection", id |-> c.id]>>)
            /\ peers' = Without(b, c.id)
       ELSE /\ peers' = [Without(b, c.id) EXCEPT ![b] = @ \cup
                          {[claims |-> c, phase |-> "negotiating", account |-> Nobody]}]
            /\ UNCHANGED toHub
  /\ NothingElse /\ UNCHANGED <<diskVars, up, known, started, active, awaiting, completing>>

PairingConfirmed(b) ==
  /\ Received(b, "pairing_confirmed")
  /\ \E c \in tickets : c.id = Arrived(b).id
       /\ awaiting' = [awaiting EXCEPT ![b] = @ \ {c.id}]
       /\ active' = [active EXCEPT ![b] = @ \ {c.pair}]
       /\ completing' = [completing EXCEPT ![b] = @ \cup
            {x \in {[claims |-> c, account |-> Arrived(b).account]} : c.id \in awaiting[b]}]
  /\ NothingElse /\ UNCHANGED <<toHub, diskVars, up, known, started, peers>>

ConnectionClosed(b) ==
  /\ Received(b, "connection_closed")
  /\ awaiting' = [awaiting EXCEPT ![b] = @ \ {Arrived(b).id}]
  /\ peers' = Without(b, Arrived(b).id)
  /\ NothingElse /\ UNCHANGED <<toHub, diskVars, up, known, started, active, completing>>

\* An error is an answer to a confirmation; the peer that waits for it fails.
ErrorArrives(b) ==
  /\ Received(b, "error")
  /\ awaiting' = [awaiting EXCEPT ![b] = @ \ {Arrived(b).id}]
  /\ IF Arrived(b).id \in awaiting[b] /\ PeersFor(b, Arrived(b).id) # {}
     THEN /\ peers' = Without(b, Arrived(b).id)
          /\ toHub' = Commanded(b, <<[type |-> "close_connection", id |-> Arrived(b).id]>>)
     ELSE UNCHANGED <<peers, toHub>>
  /\ NothingElse /\ UNCHANGED <<diskVars, up, known, started, active, completing>>

\* closeAuthorization: the authenticated peers of the account, or of one device of it.
Affected(b, a, d) == {x \in peers[b] : x.phase = "ready" /\ x.account = a /\ d \in {Nobody, x.claims.device}}

\* applyRevocation: it is ignored unless the account owns this backend.
ApplyRevocation(b, a, d) ==
  IF bOwner[b] # a THEN UNCHANGED <<bOwner, bRevoked>>
  ELSE IF d = Nobody THEN bOwner' = [bOwner EXCEPT ![b] = Nobody] /\ UNCHANGED bRevoked
  ELSE bRevoked' = [bRevoked EXCEPT ![b] = @ \cup {d}] /\ UNCHANGED bOwner

AuthorizationRevoked(b) ==
  /\ Received(b, "authorization_revoked")
  /\ ApplyRevocation(b, Arrived(b).account, Arrived(b).device)
  /\ peers' = [peers EXCEPT ![b] = @ \ Affected(b, Arrived(b).account, Arrived(b).device)]
  /\ NothingElse
  /\ UNCHANGED <<toHub, bPairs, bSpent, bUsed, up, known, started, active, awaiting, completing>>

(***************************************************************************)
(* The backend: its own steps                                              *)
(***************************************************************************)
\* A link for a new device; it is asked for on the command line or at the start.
CreatePairing(b, p) ==
  /\ b \in started /\ IsSettled(b)
  /\ Host[p] = b /\ p \notin bPairs[b]
  /\ bPairs' = [bPairs EXCEPT ![b] = @ \cup {p}]
  /\ active' = [active EXCEPT ![b] = @ \cup {p}]
  /\ toHub' = IF b \in known THEN Commanded(b, OpenCommands({p})) ELSE toHub
  /\ UNCHANGED <<storeVars, hubVars, toBackend, bOwner, bSpent, bUsed, bRevoked, up, known, started,
                 awaiting, completing, peers, boundVars>>

\* The peer is given up and the hub told.  Without a registration that throws, in a timer or
\* in a promise nobody waits for, and the process ends.
FailPeer(b, x) ==
  IF b \in known
  THEN /\ peers' = Without(b, x.claims.id)
       /\ toHub' = Commanded(b, <<[type |-> "close_connection", id |-> x.claims.id]>>)
       /\ UNCHANGED <<link, stale, toBackend, up, known, started, active, awaiting, completing>>
  ELSE ProcessEnds(b)

\* It times out, does not prove what it should, or is not authorized.
PeerFails(b, x) ==
  /\ IsSettled(b)
  /\ x \in peers[b] /\ x.phase # "ready"
  /\ FailPeer(b, x)
  /\ UNCHANGED <<storeVars, hubPairs, routes, diskVars, boundVars>>

\* The connection to the browser ends; the hub is not told.
PeerCloses(b, x) ==
  /\ IsSettled(b)
  /\ x \in peers[b]
  /\ peers' = Without(b, x.claims.id)
  /\ UNCHANGED <<storeVars, hubVars, carrierVars, diskVars, up, known, started, active, awaiting,
                 completing, boundVars>>

Advanced(b, x, phase, account) ==
  [peers EXCEPT ![b] = (@ \ {x}) \cup {[claims |-> x.claims, phase |-> phase, account |-> account]}]

\* What both kinds of tickets must satisfy when the channel proves the device.
Authenticates(b, x) ==
  /\ IsSettled(b)
  /\ x \in peers[b] /\ x.phase = "negotiating"
  /\ x.claims.id \notin lapsed \cup bUsed[b]

GrantConnection(b, x) ==
  /\ Authenticates(b, x)
  /\ x.claims.kind = "connection"
  /\ x.claims.account = bOwner[b]
  /\ x.claims.device \notin bRevoked[b]
  /\ bUsed' = [bUsed EXCEPT ![b] = @ \cup {x.claims.id}]
  /\ peers' = Advanced(b, x, "ready", x.claims.account)
  /\ UNCHANGED <<storeVars, hubVars, carrierVars, bOwner, bPairs, bSpent, bRevoked, up, known, started,
                 active, awaiting, completing, boundVars>>

\* The capability is spent on disk before the hub is asked.
ConsumePairing(b, x) ==
  /\ Authenticates(b, x)
  /\ x.claims.kind = "pairing"
  /\ x.claims.pair \in bPairs[b] \ (bSpent[b] \cup lapsed)
  /\ bSpent' = [bSpent EXCEPT ![b] = @ \cup {x.claims.pair}]
  /\ IF b \in known
     THEN /\ awaiting' = [awaiting EXCEPT ![b] = @ \cup {x.claims.id}]
          /\ peers' = Advanced(b, x, "confirming", Nobody)
          /\ toHub' = Commanded(b, <<[type |-> "confirm_pairing", id |-> x.claims.id]>>)
          /\ UNCHANGED <<link, stale, toBackend, up, known, started, active, completing>>
     ELSE ProcessEnds(b)
  /\ UNCHANGED <<storeVars, hubPairs, routes, bOwner, bPairs, bUsed, bRevoked, boundVars>>

\* completePairing and what follows it: the account becomes the owner, and the peer, when it
\* is still there, is ready.
CompletePairing(b, c) ==
  /\ c \in completing[b]
  /\ bOwner[b] \in {Nobody, c.account}
  /\ completing' = [completing EXCEPT ![b] = @ \ {c}]
  /\ bOwner' = [bOwner EXCEPT ![b] = c.account]
  /\ bUsed' = [bUsed EXCEPT ![b] = @ \cup {c.claims.id}]
  /\ peers' = [peers EXCEPT ![b] = (@ \ PeersFor(b, c.claims.id)) \cup
                {[claims |-> x.claims, phase |-> "ready", account |-> c.account] : x \in PeersFor(b, c.claims.id)}]
  /\ UNCHANGED <<storeVars, hubVars, carrierVars, bPairs, bSpent, bRevoked, up, known, started, active,
                 awaiting, boundVars>>

\* Another account owns the backend: the confirmation fails, and with it the peer.
RejectPairing(b, c) ==
  /\ c \in completing[b]
  /\ bOwner[b] \notin {Nobody, c.account}
  /\ completing' = [completing EXCEPT ![b] = @ \ {c}]
  /\ peers' = Without(b, c.claims.id)
  /\ toHub' = IF PeersFor(b, c.claims.id) = {} THEN toHub
              ELSE Commanded(b, <<[type |-> "close_connection", id |-> c.claims.id]>>)
  /\ UNCHANGED <<storeVars, hubVars, toBackend, diskVars, up, known, started, active, awaiting, boundVars>>

(***************************************************************************)
(* Specification                                                           *)
(***************************************************************************)
Failure ==
  \/ HubRestarts
  \/ \E b \in Backend : HubDrops(b) \/ LinkLost(b) \/ BackendStops(b)

LinkStep(b) == Connects(b) \/ Registers(b) \/ HubNotices(b) \/ CloseArrives(b)
HubStep(b) == OpenPairing(b) \/ ConfirmCommand(b) \/ RefuseCommand(b) \/ CloseFromBackend(b)
MessageStep(b) ==
  \/ Registered(b) \/ CreatePeer(b) \/ PairingConfirmed(b) \/ ConnectionClosed(b)
  \/ ErrorArrives(b) \/ AuthorizationRevoked(b)
CompletionStep(b) == \E c \in completing[b] : CompletePairing(b, c) \/ RejectPairing(b, c)
PeerStep(b) == \E x \in peers[b] :
  PeerFails(b, x) \/ PeerCloses(b, x) \/ GrantConnection(b, x) \/ ConsumePairing(b, x)

UserStep ==
  \/ \E b \in Backend, p \in Pair : CreatePairing(b, p)
  \/ \E d \in Device, p \in Pair, t \in Ticket : RequestPairing(d, p, t)
  \/ \E d \in Device, b \in Backend, t \in Ticket : RequestConnection(d, b, t)
  \/ \E c \in tickets : ConnectBrowser(c) \/ TurnBrowserAway(c)
  \/ \E r \in routes : RemoveBrowser(r)
  \/ \E d \in Device, i \in Invite : Invites(d, i)
  \/ \E d \in Device, x \in invites : Joins(d, x)
  \/ \E d, target \in Device : DeviceIsRevoked(d, target)
  \/ \E d \in Device, b \in Backend : BackendIsRevoked(d, b)

Next ==
  \/ Failure \/ UserStep \/ Expires
  \/ \E b \in Backend : BackendStarts(b) \/ LinkStep(b) \/ HubStep(b) \/ MessageStep(b) \/ CompletionStep(b) \/ PeerStep(b)

Spec == Init /\ [][Next]_vars

\* The client opens a socket again for as long as it runs, the carrier delivers what it does
\* not lose, both ends handle what arrives, and the hub's heartbeat finds sockets that are dead.
FairSpec == Spec /\ \A b \in Backend :
  WF_vars(LinkStep(b)) /\ WF_vars(HubStep(b)) /\ WF_vars(MessageStep(b)) /\ WF_vars(CompletionStep(b))

(***************************************************************************)
(* Properties                                                              *)
(***************************************************************************)
\* Whoever a backend takes for its owner is the owner for the hub too, or the revocation is
\* kept for it.  The exception is a revocation that was deleted while it was under way, by
\* the confirmation of a pairing with another account: superseded.
Accounted(b, a) == owner[b] = a \/ revocation[b] = a \/ a \in superseded[b]
StaleIsRetained == \A b \in Backend : bOwner[b] # Nobody => Accounted(b, bOwner[b])

\* docs/protocol.md:101 makes no exception, and then a lost link leaves the stale owner for good.
IsUnderWay(b, a) == \E n \in 1..Len(toBackend[b]) :
  toBackend[b][n] = Message("authorization_revoked", Nobody, a, Nobody)
StaleIsAlwaysRetained == \A b \in Backend : bOwner[b] # Nobody =>
  owner[b] = bOwner[b] \/ revocation[b] = bOwner[b] \/ IsUnderWay(b, bOwner[b])

\* An authenticated peer speaks for the account that the hub knows its device by.
PeersAreMembers == \A b \in Backend : \A x \in peers[b] :
  x.phase = "ready" => deviceAccount[x.claims.device] = x.account

\* A backend that was offline when its account revoked it gives its owner up, unless it stops.
OfflineRevocationArrives == \A b \in Backend : \A a \in Account :
  (link[b] = "down" /\ bOwner[b] = a /\ revocation[b] = a) ~> (bOwner[b] # a \/ b \notin up)

\* A lost link and a failed peer do not end the process: what they are meant to do, and do
\* not do while the backend is not registered.
BackendStaysUp == [][\A b \in Backend : LinkLost(b) \/ CloseArrives(b) \/ PeerStep(b) => b \in up']_vars
=================================================================================
