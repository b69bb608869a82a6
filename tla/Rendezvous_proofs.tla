----------------------------- MODULE Rendezvous_proofs -----------------------------
(***************************************************************************)
(* The hub serves requests as TrustStore says, so that its file is always  *)
(* consistent; a backend whose owner the hub has forgotten can still be    *)
(* told; and a peer speaks for the account of its device.                  *)
(***************************************************************************)
EXTENDS Rendezvous, SequenceTheorems, TLAPS

(***************************************************************************)
(* The file of the rendezvous service is consistent whatever requests it   *)
(* serves.                                                                 *)
(***************************************************************************)
StoreInv == StoreTypeOK /\ StoreReloads

\* An empty file is consistent.
LEMMA StoreInitial == StoreInit => StoreInv
BY TrustAssumption DEF StoreInit, StoreInv, StoreTypeOK, StoreReloads, Claims, StoredInvites,
  DevicesAreListed, ListedDevicesBelong, ListedBackendsBelong, OwnersAreListed, InvitersBelong

\* The operations keep the types of what is stored.
LEMMA StoreTypes == ASSUME StoreTypeOK, [StoreNext]_storeVars PROVE StoreTypeOK'
<1>1. CASE UNCHANGED storeVars
  BY <1>1 DEF StoreTypeOK, storeVars, accountVars
<1>2. ASSUME NEW d \in Device, NEW p \in Pair, NEW t \in Ticket, IssuePairingTicket(d, p, t)
      PROVE  StoreTypeOK'
  BY <1>2, TrustAssumption DEF StoreTypeOK, IssuePairingTicket, accountVars, Claims
<1>3. ASSUME NEW d \in Device, NEW b \in Backend, NEW t \in Ticket, IssueConnectionTicket(d, b, t)
      PROVE  StoreTypeOK'
  BY <1>3 DEF StoreTypeOK, IssueConnectionTicket, accountVars, Claims
<1>4. ASSUME NEW c \in Claims, ConsumeRouteTicket(c) \/ TicketExpires(c)
      PROVE  StoreTypeOK'
  BY <1>4 DEF StoreTypeOK, ConsumeRouteTicket, TicketExpires, accountVars, Claims
<1>5. ASSUME NEW c \in Claims, NEW a \in Account, ConfirmPairing(c, a)
      PROVE  StoreTypeOK'
  <2>1. c.device \in Device /\ c.backend \in Backend /\ c.id \in Ticket /\ c.pair \in Pair
    BY <1>5 DEF Claims, ConfirmPairing
  <2>2. /\ accounts' \subseteq Account
        /\ deviceIds' \in [Account -> SUBSET Device]
        /\ backendIds' \in [Account -> SUBSET Backend]
        /\ deviceAccount' \in [Device -> Account \cup {Nobody}]
        /\ owner' \in [Backend -> Account \cup {Nobody}]
        /\ revocation' \in [Backend -> Account \cup {Nobody}]
    BY <1>5, <2>1 DEF StoreTypeOK, ConfirmPairing
  <2>3. superseded' \in [Backend -> SUBSET Account]
    BY <1>5, <2>1 DEF StoreTypeOK, ConfirmPairing
  <2>4. completions' \subseteq [pair: Pair, ticket: Ticket, account: Account, device: Device]
    BY <1>5, <2>1 DEF StoreTypeOK, ConfirmPairing
  <2> QED
    BY <1>5, <2>2, <2>3, <2>4 DEF StoreTypeOK, ConfirmPairing
<1>6. ASSUME NEW d \in Device, NEW i \in Invite, CreateDeviceInvite(d, i)
      PROVE  StoreTypeOK'
  BY <1>6 DEF StoreTypeOK, CreateDeviceInvite, IsActive, accountVars, StoredInvites
<1>7. ASSUME NEW d \in Device, NEW x \in StoredInvites, AcceptDeviceInvite(d, x)
      PROVE  StoreTypeOK'
  BY <1>7 DEF StoreTypeOK, AcceptDeviceInvite, StoredInvites
<1>8. ASSUME NEW x \in StoredInvites, InviteExpires(x) PROVE StoreTypeOK'
  BY <1>8 DEF StoreTypeOK, InviteExpires, accountVars, StoredInvites
<1>9. ASSUME NEW p \in Pair, PairingExpires(p) PROVE StoreTypeOK'
  BY <1>9 DEF StoreTypeOK, PairingExpires, accountVars
<1>10. ASSUME NEW d \in Device, NEW target \in Device, RevokeDevice(d, target) PROVE StoreTypeOK'
  BY <1>10 DEF StoreTypeOK, RevokeDevice
<1>11. ASSUME NEW d \in Device, NEW b \in Backend, RevokeBackend(d, b) PROVE StoreTypeOK'
  BY <1>11 DEF StoreTypeOK, RevokeBackend, Unlisted
<1> QED
  BY <1>1, <1>2, <1>3, <1>4, <1>5, <1>6, <1>7, <1>8, <1>9, <1>10, <1>11 DEF StoreNext

\* An operation that writes neither accounts, devices, owners nor invitations.
LEMMA OtherWrites ==
  ASSUME StoreReloads, UNCHANGED <<accounts, deviceIds, backendIds, deviceAccount, owner, invites>>
  PROVE  StoreReloads'
BY DEF StoreReloads, DevicesAreListed, ListedDevicesBelong, ListedBackendsBelong, OwnersAreListed,
  InvitersBelong

\* A confirmed pairing lists the device and the backend where they now belong.
LEMMA ConfirmReloads ==
  ASSUME StoreInv, NEW c \in Claims, NEW a \in Account, ConfirmPairing(c, a)
  PROVE  StoreReloads'
<1> DEFINE d == c.device
           b == c.backend
<1>1. d \in Device /\ b \in Backend
  BY DEF Claims
<1>2. deviceAccount[d] \in {Nobody, a}
  BY <1>1, TrustAssumption
  DEF ConfirmPairing, Refuses, JoinedElsewhere, Grantees, StoreInv, StoreTypeOK
<1>3. owner[b] \in {Nobody, a}
  BY <1>1, TrustAssumption
  DEF ConfirmPairing, Refuses, OwnedByOther, Grantees, StoreInv, StoreTypeOK, Claims
<1>4. /\ accounts' = accounts \cup {a}
      /\ deviceIds' = [deviceIds EXCEPT ![a] = @ \cup {d}]
      /\ backendIds' = [backendIds EXCEPT ![a] = @ \cup {b}]
      /\ deviceAccount' = [deviceAccount EXCEPT ![d] = a]
      /\ owner' = [owner EXCEPT ![b] = a]
      /\ invites' = invites
  BY <1>1, <1>2, TrustAssumption DEF ConfirmPairing, StoreInv, StoreTypeOK
<1> HIDE DEF d, b
<1>5. DevicesAreListed'
  BY <1>1, <1>2, <1>4 DEF StoreInv, StoreReloads, DevicesAreListed, StoreTypeOK
<1>6. ListedDevicesBelong'
  BY <1>1, <1>2, <1>4, TrustAssumption DEF StoreInv, StoreReloads, ListedDevicesBelong, StoreTypeOK
<1>7. ListedBackendsBelong'
  BY <1>1, <1>3, <1>4, TrustAssumption DEF StoreInv, StoreReloads, ListedBackendsBelong, StoreTypeOK
<1>8. OwnersAreListed'
  BY <1>1, <1>3, <1>4 DEF StoreInv, StoreReloads, OwnersAreListed, StoreTypeOK
<1>9. InvitersBelong'
  BY <1>1, <1>2, <1>4, TrustAssumption DEF StoreInv, StoreReloads, InvitersBelong, StoreTypeOK, StoredInvites
<1> QED
  BY <1>5, <1>6, <1>7, <1>8, <1>9 DEF StoreReloads

\* Every operation leaves a consistent file consistent.
LEMMA StoreStep == ASSUME StoreInv, [StoreNext]_storeVars PROVE StoreInv'
<1>1. StoreTypeOK'
  BY StoreTypes DEF StoreInv
<1>2. CASE UNCHANGED storeVars
  BY <1>1, <1>2, OtherWrites DEF StoreInv, storeVars, accountVars
<1>3. ASSUME NEW d \in Device, NEW p \in Pair, NEW t \in Ticket, IssuePairingTicket(d, p, t)
      PROVE  StoreReloads'
  BY <1>3, OtherWrites DEF StoreInv, IssuePairingTicket, accountVars
<1>4. ASSUME NEW d \in Device, NEW b \in Backend, NEW t \in Ticket, IssueConnectionTicket(d, b, t)
      PROVE  StoreReloads'
  BY <1>4, OtherWrites DEF StoreInv, IssueConnectionTicket, accountVars
<1>5. ASSUME NEW c \in Claims, ConsumeRouteTicket(c) \/ TicketExpires(c)
      PROVE  StoreReloads'
  BY <1>5, OtherWrites DEF StoreInv, ConsumeRouteTicket, TicketExpires, accountVars
<1>6. ASSUME NEW c \in Claims, NEW a \in Account, ConfirmPairing(c, a)
      PROVE  StoreReloads'
  BY <1>6, ConfirmReloads
<1>7. ASSUME NEW d \in Device, NEW i \in Invite, CreateDeviceInvite(d, i)
      PROVE  StoreReloads'
  BY <1>7 DEF StoreInv, CreateDeviceInvite, IsActive, accountVars, StoreReloads, DevicesAreListed,
    ListedDevicesBelong, ListedBackendsBelong, OwnersAreListed, InvitersBelong
<1>8. ASSUME NEW d \in Device, NEW x \in StoredInvites, AcceptDeviceInvite(d, x)
      PROVE  StoreReloads'
  <2>1. DevicesAreListed'
    BY <1>8 DEF StoreInv, StoreTypeOK, StoreReloads, DevicesAreListed, AcceptDeviceInvite, StoredInvites
  <2>2. ListedDevicesBelong'
    BY <1>8, TrustAssumption
    DEF StoreInv, StoreTypeOK, StoreReloads, ListedDevicesBelong, AcceptDeviceInvite, StoredInvites
  <2>3. ListedBackendsBelong' /\ OwnersAreListed'
    BY <1>8 DEF StoreInv, StoreReloads, ListedBackendsBelong, OwnersAreListed, AcceptDeviceInvite
  <2>4. InvitersBelong'
    BY <1>8, TrustAssumption
    DEF StoreInv, StoreTypeOK, StoreReloads, InvitersBelong, AcceptDeviceInvite, StoredInvites
  <2> QED
    BY <2>1, <2>2, <2>3, <2>4 DEF StoreReloads
<1>9. ASSUME NEW x \in StoredInvites, InviteExpires(x) PROVE StoreReloads'
  BY <1>9 DEF StoreInv, InviteExpires, accountVars, StoreReloads, DevicesAreListed,
    ListedDevicesBelong, ListedBackendsBelong, OwnersAreListed, InvitersBelong
<1>10. ASSUME NEW p \in Pair, PairingExpires(p) PROVE StoreReloads'
  BY <1>10, OtherWrites DEF StoreInv, PairingExpires, accountVars
<1>11. ASSUME NEW d \in Device, NEW target \in Device, RevokeDevice(d, target) PROVE StoreReloads'
  BY <1>11, OtherWrites DEF StoreInv, RevokeDevice
<1>12. ASSUME NEW d \in Device, NEW b \in Backend, RevokeBackend(d, b) PROVE StoreReloads'
  <2>1. owner[b] \in Account
    BY <1>12 DEF RevokeBackend, IsActive, StoreInv, StoreTypeOK
  <2>2. DevicesAreListed' /\ ListedDevicesBelong' /\ InvitersBelong'
    BY <1>12 DEF RevokeBackend, StoreInv, StoreReloads, DevicesAreListed, ListedDevicesBelong, InvitersBelong
  <2>3. ListedBackendsBelong'
    BY <1>12, <2>1 DEF RevokeBackend, Unlisted, StoreInv, StoreTypeOK, StoreReloads, ListedBackendsBelong
  <2>4. OwnersAreListed'
    BY <1>12, <2>1, TrustAssumption
    DEF RevokeBackend, Unlisted, StoreInv, StoreTypeOK, StoreReloads, OwnersAreListed
  <2> QED
    BY <2>2, <2>3, <2>4 DEF StoreReloads
<1> QED
  BY <1>1, <1>2, <1>3, <1>4, <1>5, <1>6, <1>7, <1>8, <1>9, <1>10, <1>11, <1>12 DEF StoreNext, StoreInv

\* Whatever requests the store serves, and in whatever order, its file can be loaded again
\* (hasConsistentReferences of trust-store.ts).
THEOREM FileReloads == StoreSpec => []StoreReloads
<1>1. StoreInv /\ [StoreNext]_storeVars => StoreInv'
  BY StoreStep
<1>2. StoreInv => StoreReloads
  BY DEF StoreInv
<1> QED
  BY StoreInitial, <1>1, <1>2, PTL DEF StoreSpec


Route == [claims: Claims, account: Account \cup {Nobody}]
RoutesAreSigned == \A r \in routes : r.claims \in tickets
HubInv == StoreTypeOK /\ routes \subseteq Route /\ RoutesAreSigned

(***************************************************************************)
(* The hub implements the store                                            *)
(***************************************************************************)
\* Every step of the system is an operation of the store, or none.
LEMMA StepsOfTheStore == ASSUME HubInv, [Next]_vars PROVE [StoreNext]_storeVars
<1>1. CASE UNCHANGED vars
  BY <1>1 DEF vars
<1>2. CASE Failure
  BY <1>2 DEF Failure, HubRestarts, HubDrops, LinkLost, BackendStops
<1>3. CASE Expires
  BY <1>3 DEF Expires, HubInv, StoreTypeOK, StoreNext
<1>4. CASE UserStep
  <2>1. ASSUME NEW b \in Backend, NEW p \in Pair, CreatePairing(b, p) PROVE UNCHANGED storeVars
    BY <2>1 DEF CreatePairing
  <2>2. ASSUME NEW d \in Device, NEW p \in Pair, NEW t \in Ticket, RequestPairing(d, p, t) PROVE StoreNext
    BY <2>2 DEF RequestPairing, StoreNext
  <2>3. ASSUME NEW d \in Device, NEW b \in Backend, NEW t \in Ticket, RequestConnection(d, b, t) PROVE StoreNext
    BY <2>3 DEF RequestConnection, StoreNext
  <2>4. ASSUME NEW c \in tickets, ConnectBrowser(c) \/ TurnBrowserAway(c) PROVE StoreNext
    BY <2>4 DEF ConnectBrowser, TurnBrowserAway, StoreNext, HubInv, StoreTypeOK
  <2>5. ASSUME NEW r \in routes, RemoveBrowser(r) PROVE UNCHANGED storeVars
    BY <2>5 DEF RemoveBrowser
  <2>6. ASSUME NEW d \in Device, NEW i \in Invite, Invites(d, i) PROVE StoreNext
    BY <2>6 DEF Invites, StoreNext
  <2>7. ASSUME NEW d \in Device, NEW x \in invites, Joins(d, x) PROVE StoreNext
    BY <2>7 DEF Joins, StoreNext, HubInv, StoreTypeOK
  <2>8. ASSUME NEW d \in Device, NEW target \in Device, DeviceIsRevoked(d, target) PROVE StoreNext
    BY <2>8 DEF DeviceIsRevoked, StoreNext
  <2>9. ASSUME NEW d \in Device, NEW b \in Backend, BackendIsRevoked(d, b) PROVE StoreNext
    BY <2>9 DEF BackendIsRevoked, StoreNext
  <2> QED
    BY <1>4, <2>1, <2>2, <2>3, <2>4, <2>5, <2>6, <2>7, <2>8, <2>9 DEF UserStep
<1>5. ASSUME NEW b \in Backend, BackendStarts(b) \/ LinkStep(b) PROVE UNCHANGED storeVars
  BY <1>5 DEF BackendStarts, LinkStep, Connects, Registers, HubNotices, CloseArrives
<1>6. ASSUME NEW b \in Backend, HubStep(b) PROVE [StoreNext]_storeVars
  <2>1. ASSUME ConfirmCommand(b) PROVE StoreNext
    <3>1. PICK r \in routes, a \in Account : ConfirmPairing(r.claims, a)
      BY <2>1 DEF ConfirmCommand, Confirms, RouteFor, RoutesOf
    <3>2. r.claims \in Claims
      BY <3>1 DEF HubInv, Route
    <3> QED
      BY <3>1, <3>2 DEF StoreNext
  <2> QED
    BY <1>6, <2>1 DEF HubStep, OpenPairing, RefuseCommand, CloseFromBackend
<1>7. ASSUME NEW b \in Backend, MessageStep(b) PROVE UNCHANGED storeVars
  BY <1>7 DEF MessageStep, Registered, CreatePeer, PairingConfirmed, ConnectionClosed, ErrorArrives,
    AuthorizationRevoked, NothingElse
<1>8. ASSUME NEW b \in Backend, CompletionStep(b) \/ PeerStep(b) PROVE UNCHANGED storeVars
  BY <1>8 DEF CompletionStep, CompletePairing, RejectPairing, PeerStep, PeerFails, PeerCloses,
    GrantConnection, ConsumePairing
<1> QED
  BY <1>1, <1>2, <1>3, <1>4, <1>5, <1>6, <1>7, <1>8 DEF Next

\* The routes of the hub are those of tickets that it signed.
LEMMA RoutesAreTyped == ASSUME HubInv, [Next]_vars PROVE routes' \subseteq Route
<1>1. CASE UNCHANGED vars
  BY <1>1 DEF vars, hubVars, HubInv
<1>2. CASE Failure
  BY <1>2 DEF Failure, HubRestarts, HubDrops, LinkLost, BackendStops, RemoveRegisteredBackend, HubInv
<1>3. CASE Expires
  BY <1>3 DEF Expires, HubInv
<1>4. CASE UserStep
  <2>1. ASSUME NEW c \in tickets, ConnectBrowser(c) PROVE routes' \subseteq Route
    <3>1. c \in Claims
      BY DEF HubInv, StoreTypeOK
    <3>2. [claims |-> c, account |-> c.account] \in Route
      BY <3>1 DEF Route, Claims
    <3> QED
      BY <2>1, <3>2 DEF ConnectBrowser, HubInv
  <2>2. ASSUME NEW d \in Device, NEW target \in Device, DeviceIsRevoked(d, target) PROVE routes' \subseteq routes
    BY <2>2 DEF DeviceIsRevoked, NotifyDevice
  <2>3. ASSUME NEW d \in Device, NEW b \in Backend, BackendIsRevoked(d, b) PROVE routes' \subseteq routes
    BY <2>3 DEF BackendIsRevoked, NotifyBackend
  <2> QED
    BY <1>4, <2>1, <2>2, <2>3 DEF UserStep, CreatePairing, RequestPairing, RequestConnection, TurnBrowserAway,
      RemoveBrowser, Invites, Joins, HubInv, hubVars
<1>5. ASSUME NEW b \in Backend, BackendStarts(b) \/ LinkStep(b) PROVE routes' \subseteq routes
  BY <1>5 DEF BackendStarts, LinkStep, Connects, Registers, HubNotices, CloseArrives, RemoveRegisteredBackend, hubVars
<1>6. ASSUME NEW b \in Backend, HubStep(b) PROVE routes' \subseteq Route
  <2>1. ASSUME ConfirmCommand(b) PROVE routes' \subseteq Route
    <3>1. PICK r \in routes, a \in Account : routes' = (routes \ {r}) \cup {[r EXCEPT !.account = a]}
      BY <2>1 DEF ConfirmCommand, Confirms, RouteFor, RoutesOf
    <3>2. [r EXCEPT !.account = a] \in Route
      BY <3>1 DEF HubInv, Route
    <3> QED
      BY <3>1, <3>2 DEF HubInv
  <2> QED
    BY <1>6, <2>1 DEF HubStep, OpenPairing, RefuseCommand, CloseFromBackend, HubInv
<1>7. ASSUME NEW b \in Backend, MessageStep(b) PROVE UNCHANGED routes
  BY <1>7 DEF MessageStep, Registered, CreatePeer, PairingConfirmed, ConnectionClosed, ErrorArrives,
    AuthorizationRevoked, NothingElse, hubVars
<1>8. ASSUME NEW b \in Backend, CompletionStep(b) \/ PeerStep(b) PROVE UNCHANGED routes
  BY <1>8 DEF CompletionStep, CompletePairing, RejectPairing, PeerStep, PeerFails, PeerCloses,
    GrantConnection, ConsumePairing, hubVars
<1> QED
  BY <1>1, <1>2, <1>3, <1>4, <1>5, <1>6, <1>7, <1>8 DEF Next, HubInv

\* A route is made for a ticket, and its claims are never changed.
LEMMA RoutesAreFromTickets ==
  ASSUME HubInv, [Next]_vars
  PROVE  \A r \in routes' : r.claims \in tickets
<1>1. CASE UNCHANGED vars
  BY <1>1 DEF vars, hubVars, HubInv, RoutesAreSigned
<1>2. CASE Failure
  BY <1>2 DEF Failure, HubRestarts, HubDrops, LinkLost, BackendStops, RemoveRegisteredBackend, HubInv, RoutesAreSigned
<1>3. CASE Expires
  BY <1>3 DEF Expires, HubInv, RoutesAreSigned
<1>4. CASE UserStep
  <2>1. ASSUME NEW c \in tickets, ConnectBrowser(c) PROVE \A r \in routes' : r.claims \in tickets
    BY <2>1 DEF ConnectBrowser, HubInv, RoutesAreSigned
  <2>2. ASSUME NEW d \in Device, NEW target \in Device, DeviceIsRevoked(d, target) PROVE routes' \subseteq routes
    BY <2>2 DEF DeviceIsRevoked, NotifyDevice
  <2>3. ASSUME NEW d \in Device, NEW b \in Backend, BackendIsRevoked(d, b) PROVE routes' \subseteq routes
    BY <2>3 DEF BackendIsRevoked, NotifyBackend
  <2> QED
    BY <1>4, <2>1, <2>2, <2>3 DEF UserStep, CreatePairing, RequestPairing, RequestConnection, TurnBrowserAway,
      RemoveBrowser, Invites, Joins, HubInv, RoutesAreSigned, hubVars
<1>5. ASSUME NEW b \in Backend, BackendStarts(b) \/ LinkStep(b) PROVE routes' \subseteq routes
  BY <1>5 DEF BackendStarts, LinkStep, Connects, Registers, HubNotices, CloseArrives, RemoveRegisteredBackend, hubVars
<1>6. ASSUME NEW b \in Backend, HubStep(b) PROVE \A r \in routes' : r.claims \in tickets
  <2>1. ASSUME ConfirmCommand(b) PROVE \A r \in routes' : r.claims \in tickets
    <3>1. PICK r \in routes, a \in Account : routes' = (routes \ {r}) \cup {[r EXCEPT !.account = a]}
      BY <2>1 DEF ConfirmCommand, Confirms, RouteFor, RoutesOf
    <3>2. [r EXCEPT !.account = a].claims = r.claims
      BY <3>1 DEF HubInv, Route
    <3> QED
      BY <3>1, <3>2 DEF HubInv, RoutesAreSigned
  <2> QED
    BY <1>6, <2>1 DEF HubStep, OpenPairing, RefuseCommand, CloseFromBackend, HubInv, RoutesAreSigned
<1>7. ASSUME NEW b \in Backend, MessageStep(b) PROVE UNCHANGED routes
  BY <1>7 DEF MessageStep, Registered, CreatePeer, PairingConfirmed, ConnectionClosed, ErrorArrives,
    AuthorizationRevoked, NothingElse, hubVars
<1>8. ASSUME NEW b \in Backend, CompletionStep(b) \/ PeerStep(b) PROVE UNCHANGED routes
  BY <1>8 DEF CompletionStep, CompletePairing, RejectPairing, PeerStep, PeerFails, PeerCloses,
    GrantConnection, ConsumePairing, hubVars
<1> QED
  BY <1>1, <1>2, <1>3, <1>4, <1>5, <1>6, <1>7, <1>8 DEF Next, HubInv, RoutesAreSigned

\* A ticket that was signed is never forgotten by the browser that holds it.
LEMMA TicketsRemain == ASSUME [StoreNext]_storeVars PROVE tickets \subseteq tickets'
BY DEF StoreNext, IssuePairingTicket, IssueConnectionTicket, ConsumeRouteTicket, TicketExpires, ConfirmPairing,
  CreateDeviceInvite, AcceptDeviceInvite, InviteExpires, PairingExpires, RevokeDevice, RevokeBackend, storeVars

LEMMA HubStepKeeps == ASSUME HubInv, [Next]_vars PROVE HubInv'
<1>1. StoreTypeOK'
  BY StepsOfTheStore, StoreTypes DEF HubInv
<1>2. RoutesAreSigned'
  BY StepsOfTheStore, TicketsRemain, RoutesAreFromTickets DEF RoutesAreSigned
<1> QED
  BY <1>1, <1>2, RoutesAreTyped DEF HubInv, Route

LEMMA HubInitial == Init => StoreInit /\ HubInv
BY StoreInitial DEF Init, HubInv, StoreInv, RoutesAreSigned

\* What the hub does with its file are the operations of TrustStore and nothing else.
THEOREM HubImplementsStore == Spec => StoreSpec
<1>1. HubInv /\ [Next]_vars => HubInv' /\ [StoreNext]_storeVars
  BY HubStepKeeps, StepsOfTheStore
<1> QED
  BY HubInitial, <1>1, PTL DEF Spec, StoreSpec

\* Whatever browsers, backends and failures do, the hub's file can be loaded again
\* (hasConsistentReferences of trust-store.ts).
THEOREM HubReloads == Spec => []StoreReloads
BY HubImplementsStore, FileReloads, PTL

(***************************************************************************)
(* A stale owner is retained                                               *)
(***************************************************************************)
\* A backend that is owned has no revocation, so that revoking it loses none.
Exclusive == \A b \in Backend : owner[b] # Nobody => revocation[b] = Nobody

\* A confirmation that is on its way, as a message or as a continuation, names an account
\* that the hub accounts for: it may become the owner whatever has happened meanwhile.
Contents(s) == {s[n] : n \in 1..Len(s)}
IsSound(b, m) == m.type = "pairing_confirmed" => m.account \in Account /\ Accounted(b, m.account)
MailIsSound == \A b \in Backend : \A m \in Contents(toBackend[b]) : IsSound(b, m)
CompletionsAreSound == \A b \in Backend : \A c \in completing[b] : Accounted(b, c.account)

\* It also names a ticket, and the device of that ticket belongs to the account.
Member(d, a) == a # Nobody /\ deviceAccount[d] = a
Named(m) == \E c \in tickets : c.id = m.id /\ Member(c.device, m.account)

Queues == [Backend -> Seq(Messages)]
Completions == [claims: Claims, account: Account]
BackendTypes ==
  /\ toBackend \in Queues
  /\ completing \in [Backend -> SUBSET Completions]
  /\ bOwner \in [Backend -> Account \cup {Nobody}]
BackendInv == BackendTypes /\ Exclusive /\ MailIsSound /\ CompletionsAreSound /\ StaleIsRetained

LEMMA BackendInitial == Init => BackendInv
<1> SUFFICES ASSUME Init PROVE BackendInv
  OBVIOUS
<1>1. BackendTypes
  BY DEF Init, BackendTypes, Queues
<1>2. Exclusive
  BY DEF Init, StoreInit, Exclusive
<1>3. MailIsSound /\ CompletionsAreSound /\ StaleIsRetained
  BY DEF Init, MailIsSound, Contents, CompletionsAreSound, StaleIsRetained
<1> QED
  BY <1>1, <1>2, <1>3 DEF BackendInv

\* Whoever the hub accounts for stays accounted for.
LEMMA StaysAccounted ==
  ASSUME StoreTypeOK, Exclusive, [StoreNext]_storeVars
  PROVE  Exclusive' /\ \A b \in Backend, a \in Account : Accounted(b, a) => Accounted(b, a)'
<1>1. CASE UNCHANGED <<owner, revocation, superseded>>
  BY <1>1 DEF Exclusive, Accounted
<1>2. ASSUME NEW c \in Claims, NEW a \in Account, ConfirmPairing(c, a)
      PROVE  Exclusive' /\ \A b \in Backend, x \in Account : Accounted(b, x) => Accounted(b, x)'
  <2>1. c.backend \in Backend
    BY DEF Claims
  <2>2. owner[c.backend] \in {Nobody, a}
    BY <1>2, <2>1, TrustAssumption DEF ConfirmPairing, Refuses, OwnedByOther, Grantees, StoreTypeOK, Claims
  <2>3. /\ owner' = [owner EXCEPT ![c.backend] = a]
        /\ revocation' = [revocation EXCEPT ![c.backend] = Nobody]
        /\ superseded' = [superseded EXCEPT ![c.backend] = @ \cup ({revocation[c.backend]} \ {a, Nobody})]
    BY <1>2 DEF ConfirmPairing
  <2>4. Exclusive'
    BY <2>1, <2>3 DEF Exclusive, StoreTypeOK
  <2>5. ASSUME NEW b \in Backend, NEW x \in Account, Accounted(b, x) PROVE Accounted(b, x)'
    BY <2>1, <2>2, <2>3, <2>5, TrustAssumption DEF Accounted, StoreTypeOK
  <2> QED
    BY <2>4, <2>5
<1>3. ASSUME NEW d \in Device, NEW v \in Backend, RevokeBackend(d, v)
      PROVE  Exclusive' /\ \A b \in Backend, x \in Account : Accounted(b, x) => Accounted(b, x)'
  <2>1. owner[v] # Nobody
    BY <1>3 DEF RevokeBackend, IsActive
  <2>2. /\ owner' = [owner EXCEPT ![v] = Nobody]
        /\ revocation' = [revocation EXCEPT ![v] = owner[v]]
        /\ superseded' = superseded
    BY <1>3 DEF RevokeBackend
  <2>3. Exclusive'
    BY <2>2 DEF Exclusive, StoreTypeOK
  <2>4. ASSUME NEW b \in Backend, NEW x \in Account, Accounted(b, x) PROVE Accounted(b, x)'
    BY <2>1, <2>2, <2>4, TrustAssumption DEF Accounted, Exclusive, StoreTypeOK
  <2> QED
    BY <2>3, <2>4
<1>4. CASE StoreNext
  BY <1>1, <1>2, <1>3, <1>4 DEF StoreNext, IssuePairingTicket, IssueConnectionTicket, ConsumeRouteTicket,
    TicketExpires, CreateDeviceInvite, AcceptDeviceInvite, InviteExpires, PairingExpires, RevokeDevice, accountVars
<1> QED
  BY <1>1, <1>4 DEF storeVars, accountVars

(***************************************************************************)
(* What a step does to the mail, to the continuations and to the owners    *)
(***************************************************************************)
MailFlows == \A b \in Backend : \A m \in Contents(toBackend'[b]) :
  \/ m \in Contents(toBackend[b])
  \/ m.type = "pairing_confirmed" => m.account \in Account /\ Accounted(b, m.account)' /\ Named(m)'
CompletionsFlow == \A b \in Backend : \A c \in completing'[b] :
  \/ c \in completing[b]
  \/ /\ c.claims \in tickets
     /\ \E m \in Contents(toBackend[b]) :
          m.type = "pairing_confirmed" /\ m.account = c.account /\ m.id = c.claims.id
OwnersFlow == \A b \in Backend :
  \/ bOwner'[b] \in {bOwner[b], Nobody}
  \/ \E c \in completing[b] : bOwner'[b] = c.account
Flows == BackendTypes' /\ MailFlows /\ CompletionsFlow /\ OwnersFlow

\* What only flows stays sound while the store is served.
LEMMA FlowsKeep ==
  ASSUME StoreTypeOK, BackendInv, [StoreNext]_storeVars, Flows
  PROVE  BackendInv'
<1>1. Exclusive' /\ \A b \in Backend, a \in Account : Accounted(b, a) => Accounted(b, a)'
  BY StaysAccounted DEF BackendInv
<1>2. MailIsSound'
  BY <1>1 DEF Flows, MailFlows, BackendInv, MailIsSound, IsSound, Accounted
<1>3. CompletionsAreSound'
  BY <1>1 DEF Flows, CompletionsFlow, BackendInv, BackendTypes, Completions, MailIsSound, IsSound,
    CompletionsAreSound, Accounted
<1>4. StaleIsRetained'
  <2> SUFFICES ASSUME NEW b \in Backend, bOwner'[b] # Nobody PROVE Accounted(b, bOwner[b])'
    BY DEF StaleIsRetained
  <2>1. bOwner'[b] \in Account /\ Accounted(b, bOwner'[b])
    BY DEF Flows, OwnersFlow, BackendInv, BackendTypes, Completions, CompletionsAreSound, StaleIsRetained
  <2> QED
    BY <1>1, <2>1 DEF Accounted
<1> QED
  BY <1>1, <1>2, <1>3, <1>4 DEF Flows, BackendInv

LEMMA ContentsOfTail ==
  ASSUME NEW s \in Seq(Messages), s # <<>>
  PROVE  Tail(s) \in Seq(Messages) /\ Contents(Tail(s)) \subseteq Contents(s) /\ Head(s) \in Contents(s)
BY DEF Contents

LEMMA ContentsOfConcatenation ==
  ASSUME NEW s \in Seq(Messages), NEW t \in Seq(Messages)
  PROVE  s \o t \in Seq(Messages) /\ Contents(s \o t) \subseteq Contents(s) \cup Contents(t)
BY DEF Contents

\* The hub adds what it sends to what is under way.
LEMMA Sends ==
  ASSUME BackendTypes, NEW out \in Queues, HubSends(out)
  PROVE  /\ toBackend' \in Queues
         /\ \A b \in Backend : Contents(toBackend'[b]) \subseteq Contents(toBackend[b]) \cup Contents(out[b])
<1> SUFFICES ASSUME NEW b \in Backend
             PROVE  /\ toBackend'[b] \in Seq(Messages)
                    /\ Contents(toBackend'[b]) \subseteq Contents(toBackend[b]) \cup Contents(out[b])
  BY DEF HubSends, Queues
<1>1. toBackend'[b] = IF link[b] = "joined" THEN toBackend[b] \o out[b] ELSE toBackend[b]
  BY DEF HubSends
<1>2. toBackend[b] \in Seq(Messages) /\ out[b] \in Seq(Messages)
  BY DEF BackendTypes, Queues
<1> QED
  BY <1>1, <1>2, ContentsOfConcatenation

LEMMA Tells ==
  ASSUME BackendTypes, NEW v \in Backend, NEW s \in Seq(Messages), HubTells(v, s)
  PROVE  /\ toBackend' \in Queues
         /\ \A b \in Backend :
              Contents(toBackend'[b]) \subseteq Contents(toBackend[b]) \cup (IF b = v THEN Contents(s) ELSE {})
<1> DEFINE out == [b \in Backend |-> IF b = v THEN s ELSE <<>>]
<1>1. out \in Queues
  BY DEF Queues
<1>2. HubSends(out)
  BY DEF HubTells
<1>3. \A b \in Backend : out[b] = IF b = v THEN s ELSE <<>>
  OBVIOUS
<1> HIDE DEF out
<1>4. Contents(<<>>) = {}
  BY DEF Contents
<1> QED
  BY <1>1, <1>2, <1>3, <1>4, Sends

\* Steps that leave the owners, the continuations and the mail alone.
LEMMA QuietFlows ==
  ASSUME BackendTypes, UNCHANGED <<toBackend, completing, bOwner>>
  PROVE  Flows
BY DEF BackendTypes, Flows, MailFlows, CompletionsFlow, OwnersFlow

\* Steps of the hub that send nothing but other messages.
LEMMA SentFlows ==
  ASSUME BackendTypes, UNCHANGED <<completing, bOwner>>, toBackend' \in Queues,
         NEW out \in Queues,
         \A b \in Backend : \A m \in Contents(out[b]) : m.type # "pairing_confirmed",
         \A b \in Backend : Contents(toBackend'[b]) \subseteq Contents(toBackend[b]) \cup Contents(out[b])
  PROVE  Flows
BY DEF BackendTypes, Flows, MailFlows, CompletionsFlow, OwnersFlow

LEMMA ToldFlows ==
  ASSUME BackendTypes, UNCHANGED <<completing, bOwner>>,
         NEW v \in Backend, NEW s \in Seq(Messages), HubTells(v, s),
         \A m \in Contents(s) : m.type # "pairing_confirmed"
  PROVE  Flows
<1>1. /\ toBackend' \in Queues
      /\ \A b \in Backend :
           Contents(toBackend'[b]) \subseteq Contents(toBackend[b]) \cup (IF b = v THEN Contents(s) ELSE {})
  BY Tells
<1> QED
  BY <1>1 DEF BackendTypes, Flows, MailFlows, CompletionsFlow, OwnersFlow

\* A link that is lost takes its mail with it, and a process its continuations.
LEMMA CutFlows ==
  ASSUME BackendTypes, NEW v \in Backend,
         toBackend' = [toBackend EXCEPT ![v] = <<>>],
         completing' = completing \/ completing' = [completing EXCEPT ![v] = {}],
         bOwner' = bOwner
  PROVE  Flows
<1>1. BackendTypes'
  <2>1. toBackend' \in Queues
    BY DEF BackendTypes, Queues
  <2>2. completing' \in [Backend -> SUBSET Completions]
    BY DEF BackendTypes
  <2> QED
    BY <2>1, <2>2 DEF BackendTypes
<1>2. MailFlows
  BY DEF BackendTypes, Queues, MailFlows, Contents
<1>3. CompletionsFlow /\ OwnersFlow
  BY DEF BackendTypes, CompletionsFlow, OwnersFlow
<1> QED
  BY <1>1, <1>2, <1>3 DEF Flows

\* What a backend takes from its mail.
LEMMA Takes ==
  ASSUME BackendTypes, NEW v \in Backend, NEW type, Received(v, type)
  PROVE  /\ toBackend' \in Queues
         /\ MailFlows
         /\ Arrived(v) \in Messages /\ Arrived(v) \in Contents(toBackend[v]) /\ Arrived(v).type = type
<1>1. toBackend[v] \in Seq(Messages) /\ toBackend[v] # <<>>
  BY DEF Received, BackendTypes, Queues
<1>2. toBackend' = [toBackend EXCEPT ![v] = Tail(@)] /\ Arrived(v).type = type
  BY DEF Received, Arrived
<1>3. /\ Tail(toBackend[v]) \in Seq(Messages)
      /\ Contents(Tail(toBackend[v])) \subseteq Contents(toBackend[v])
      /\ Head(toBackend[v]) \in Contents(toBackend[v])
  BY <1>1, ContentsOfTail
<1>4. Arrived(v) \in Messages
  BY <1>1 DEF Arrived
<1>5. toBackend' \in Queues
  BY <1>2, <1>3 DEF BackendTypes, Queues
<1>6. MailFlows
  BY <1>2, <1>3 DEF BackendTypes, Queues, MailFlows
<1> QED
  BY <1>2, <1>3, <1>4, <1>5, <1>6 DEF Arrived

LEMMA TakenFlows ==
  ASSUME BackendTypes, NEW v \in Backend, NEW type, Received(v, type), UNCHANGED <<completing, bOwner>>
  PROVE  Flows
BY Takes DEF BackendTypes, Flows, CompletionsFlow, OwnersFlow

\* The messages that the hub sends.
LEMMA MessagesAreTyped ==
  ASSUME NEW id \in Ticket \cup {Nobody}, NEW a \in Account \cup {Nobody}, NEW d \in Device \cup {Nobody},
         NEW type \in {"registered", "pairing_confirmed", "connection_request", "connection_closed",
                       "authorization_revoked", "error"}
  PROVE  /\ <<Message(type, id, a, d)>> \in Seq(Messages)
         /\ \A m \in Contents(<<Message(type, id, a, d)>>) : m.type = type /\ m.account = a
BY DEF Messages, Message, Contents

LEMMA RevocationIsNoConfirmation ==
  ASSUME NEW a \in Account \cup {Nobody}, NEW d \in Device \cup {Nobody}
  PROVE  /\ <<Message("authorization_revoked", Nobody, a, d)>> \in Seq(Messages)
         /\ \A m \in Contents(<<Message("authorization_revoked", Nobody, a, d)>>) : m.type # "pairing_confirmed"
BY DEF Messages, Message, Contents

(***************************************************************************)
(* Steps of the hub                                                        *)
(***************************************************************************)
LEMMA RegistersFlows ==
  ASSUME HubInv, BackendInv, NEW v \in Backend, Registers(v)
  PROVE  Flows
<1> DEFINE news == <<Message("registered", Nobody, Nobody, Nobody)>> \o Revocation(v)
<1>1. toBackend' = [toBackend EXCEPT ![v] = news] /\ UNCHANGED <<completing, bOwner>>
  BY DEF Registers, diskVars, memoryVars
<1>2. revocation[v] \in Account \cup {Nobody}
  BY DEF HubInv, StoreTypeOK
<1>3. Revocation(v) \in Seq(Messages) /\ \A m \in Contents(Revocation(v)) : m.type # "pairing_confirmed"
  <2>1. CASE revocation[v] = Nobody
    BY <2>1 DEF Revocation, Contents
  <2>2. CASE revocation[v] # Nobody
    BY <2>2, <1>2, RevocationIsNoConfirmation DEF Revocation
  <2> QED
    BY <2>1, <2>2
<1>4. /\ <<Message("registered", Nobody, Nobody, Nobody)>> \in Seq(Messages)
      /\ \A m \in Contents(<<Message("registered", Nobody, Nobody, Nobody)>>) : m.type # "pairing_confirmed"
  BY MessagesAreTyped
<1>5. news \in Seq(Messages) /\ \A m \in Contents(news) : m.type # "pairing_confirmed"
  BY <1>3, <1>4, ContentsOfConcatenation
<1> HIDE DEF news
<1>6. toBackend' \in Queues
  BY <1>1, <1>5 DEF BackendInv, BackendTypes, Queues
<1>7. MailFlows
  BY <1>1, <1>5 DEF BackendInv, BackendTypes, Queues, MailFlows
<1> QED
  BY <1>1, <1>6, <1>7 DEF BackendInv, BackendTypes, Flows, CompletionsFlow, OwnersFlow

\* The device of a confirmed pairing belongs to the account of the confirmation.
LEMMA ConfirmedIsMember ==
  ASSUME StoreTypeOK, NEW c \in Claims, NEW a \in Account, ConfirmPairing(c, a)
  PROVE  deviceAccount'[c.device] = a
<1>1. c.device \in Device
  BY DEF Claims
<1>2. deviceAccount[c.device] \in {Nobody, a}
  BY <1>1, TrustAssumption DEF ConfirmPairing, Refuses, JoinedElsewhere, Grantees, StoreTypeOK
<1> QED
  BY <1>1, <1>2 DEF ConfirmPairing, StoreTypeOK

\* A confirmation makes its account the owner before it is sent.
LEMMA ConfirmFlows ==
  ASSUME HubInv, BackendInv, NEW v \in Backend, ConfirmCommand(v)
  PROVE  Flows
<1>1. PICK r \in RouteFor(v, Head(toHub[v]).id), a \in Account : Confirms(v, r, a)
  BY DEF ConfirmCommand
<1>2. r.claims \in Claims /\ r.claims.backend = v
  BY <1>1 DEF RouteFor, RoutesOf, HubInv, Route
<1>3. r.claims.id \in Ticket /\ r.claims.device \in Device
  BY <1>2 DEF Claims
<1> DEFINE s == <<Message("pairing_confirmed", r.claims.id, a, r.claims.device)>>
<1>4. s \in Seq(Messages) /\ \A m \in Contents(s) : m.account = a /\ m.id = r.claims.id
  <2> HIDE DEF s
  <2> DEFINE id == r.claims.id
             d  == r.claims.device
  <2>1. id \in Ticket \cup {Nobody} /\ d \in Device \cup {Nobody} /\ a \in Account \cup {Nobody}
    BY <1>3
  <2> HIDE DEF id, d
  <2>2. /\ <<Message("pairing_confirmed", id, a, d)>> \in Seq(Messages)
        /\ \A m \in Contents(<<Message("pairing_confirmed", id, a, d)>>) : m.account = a /\ m.id = id
    BY <2>1 DEF Messages, Message, Contents
  <2> QED
    BY <2>2 DEF s, id, d
<1>5. HubTells(v, s) /\ UNCHANGED <<completing, bOwner>>
  BY <1>1 DEF Confirms, ConfirmCommand, diskVars, memoryVars
<1> HIDE DEF s
<1>6. /\ toBackend' \in Queues
      /\ \A b \in Backend :
           Contents(toBackend'[b]) \subseteq Contents(toBackend[b]) \cup (IF b = v THEN Contents(s) ELSE {})
  BY <1>4, <1>5, Tells DEF BackendInv
<1>7. owner'[v] = a
  BY <1>1, <1>2 DEF Confirms, ConfirmPairing, HubInv, StoreTypeOK
<1>8. r.claims \in tickets' /\ Member(r.claims.device, a)'
  <2>1. r.claims \in tickets /\ tickets' = tickets /\ ConfirmPairing(r.claims, a)
    BY <1>1 DEF RouteFor, RoutesOf, HubInv, RoutesAreSigned, Confirms, ConfirmPairing
  <2>2. deviceAccount'[r.claims.device] = a
    BY <1>2, <1>3, <2>1, ConfirmedIsMember DEF HubInv
  <2> QED
    BY <2>1, <2>2, TrustAssumption DEF Member
<1>9. \A m \in Contents(s) : Named(m)'
  BY <1>4, <1>8 DEF Named
<1>10. MailFlows
  BY <1>1, <1>4, <1>6, <1>7, <1>9 DEF MailFlows, Accounted
<1> QED
  BY <1>5, <1>6, <1>10 DEF BackendInv, BackendTypes, Flows, CompletionsFlow, OwnersFlow

LEMMA LinkFlows ==
  ASSUME HubInv, BackendInv, NEW v \in Backend, BackendStarts(v) \/ LinkStep(v)
  PROVE  Flows
<1>1. CASE BackendStarts(v) \/ Connects(v) \/ HubNotices(v)
  BY <1>1, QuietFlows DEF BackendInv, BackendStarts, Connects, HubNotices, carrierVars, diskVars, memoryVars
<1>2. CASE Registers(v)
  BY <1>2, RegistersFlows
<1>3. CASE CloseArrives(v)
  BY <1>3, CutFlows DEF BackendInv, CloseArrives, LosesLink, ProcessEnds, SocketCloses, diskVars
<1> QED
  BY <1>1, <1>2, <1>3 DEF LinkStep

LEMMA FailureFlows == ASSUME BackendInv, Failure PROVE Flows
<1>1. CASE HubRestarts
  BY <1>1, QuietFlows DEF BackendInv, HubRestarts, diskVars, memoryVars
<1>2. ASSUME NEW v \in Backend, HubDrops(v) PROVE Flows
  BY <1>2, QuietFlows DEF BackendInv, HubDrops, diskVars, memoryVars
<1>3. ASSUME NEW v \in Backend, LinkLost(v) \/ BackendStops(v) PROVE Flows
  BY <1>3, CutFlows DEF BackendInv, LinkLost, BackendStops, LosesLink, ProcessEnds, SocketCloses, diskVars
<1> QED
  BY <1>1, <1>2, <1>3 DEF Failure

\* The command that the hub looks at names a connection.
LEMMA CommandNamesTicket ==
  ASSUME TypeOK, NEW v \in Backend, Command(v, "confirm_pairing") \/ Command(v, "close_connection")
  PROVE  Head(toHub[v]).id \in Ticket
<1>1. toHub[v] \in Seq(Commands) /\ toHub[v] # <<>>
  BY DEF TypeOK, Command
<1>2. Head(toHub[v]) \in Commands
  BY <1>1
<1>3. Head(toHub[v]).type # "open_pairing"
  BY DEF Command
<1> QED
  BY <1>2, <1>3 DEF Commands

LEMMA HubFlows ==
  ASSUME TypeOK, HubInv, BackendInv, NEW v \in Backend, HubStep(v)
  PROVE  Flows
<1>1. CASE OpenPairing(v)
  BY <1>1, QuietFlows DEF BackendInv, OpenPairing, diskVars, memoryVars
<1>2. CASE ConfirmCommand(v)
  BY <1>2, ConfirmFlows
<1>3. ASSUME RefuseCommand(v) \/ CloseFromBackend(v) PROVE Flows
  <2> DEFINE refusal == <<Message("error", Head(toHub[v]).id, Nobody, Nobody)>>
  <2>1. PICK s \in {<<>>, refusal} : HubTells(v, s)
    BY <1>3 DEF RefuseCommand, CloseFromBackend
  <2>2. UNCHANGED <<completing, bOwner>>
    BY <1>3 DEF RefuseCommand, CloseFromBackend, diskVars, memoryVars
  <2>3. Head(toHub[v]).id \in Ticket
    BY <1>3, CommandNamesTicket DEF RefuseCommand, CloseFromBackend
  <2>4. refusal \in Seq(Messages) /\ \A m \in Contents(refusal) : m.type # "pairing_confirmed"
    BY <2>3 DEF Messages, Message, Contents
  <2>5. <<>> \in Seq(Messages) /\ Contents(<<>>) = {}
    BY DEF Contents
  <2> QED
    BY <2>1, <2>2, <2>4, <2>5, ToldFlows DEF BackendInv
<1> QED
  BY <1>1, <1>2, <1>3 DEF HubStep

\* What browsers make the hub say is never a confirmation.
LEMMA BrowserFlows ==
  ASSUME HubInv, BackendInv, NEW v \in Backend,
         NEW t \in Ticket \cup {Nobody}, NEW a \in Account \cup {Nobody},
         NEW type \in {"connection_request", "connection_closed", "authorization_revoked"},
         HubTells(v, <<Message(type, t, a, Nobody)>>), UNCHANGED <<completing, bOwner>>
  PROVE  Flows
<1>1. /\ <<Message(type, t, a, Nobody)>> \in Seq(Messages)
      /\ \A m \in Contents(<<Message(type, t, a, Nobody)>>) : m.type = type
  BY DEF Messages, Message, Contents
<1> QED
  BY <1>1, ToldFlows DEF BackendInv

LEMMA DeviceRevocationFlows ==
  ASSUME HubInv, BackendInv, NEW d \in Device, NEW target \in Device, DeviceIsRevoked(d, target)
  PROVE  Flows
<1> DEFINE a == deviceAccount[d]
           news == <<Message("authorization_revoked", Nobody, a, target)>>
           out == [b \in Backend |-> IF owner[b] = a THEN news ELSE <<>>]
<1>1. a \in Account \cup {Nobody}
  BY DEF HubInv, StoreTypeOK
<1>2. HubSends(out) /\ UNCHANGED <<completing, bOwner>>
  BY DEF DeviceIsRevoked, NotifyDevice, Untouched, diskVars, memoryVars
<1> HIDE DEF a
<1>3. news \in Seq(Messages) /\ \A m \in Contents(news) : m.type # "pairing_confirmed"
  BY <1>1, RevocationIsNoConfirmation
<1> HIDE DEF news
<1>4. out \in Queues
  BY <1>3 DEF Queues
<1>5. \A b \in Backend : \A m \in Contents(out[b]) : m.type # "pairing_confirmed"
  BY <1>3 DEF Contents
<1> HIDE DEF out
<1>6. /\ toBackend' \in Queues
      /\ \A b \in Backend : Contents(toBackend'[b]) \subseteq Contents(toBackend[b]) \cup Contents(out[b])
  BY <1>2, <1>4, Sends DEF BackendInv
<1> QED
  BY <1>2, <1>4, <1>5, <1>6, SentFlows DEF BackendInv

LEMMA UserFlows ==
  ASSUME HubInv, BackendInv, UserStep \/ Expires
  PROVE  Flows
<1>1. CASE UNCHANGED <<toBackend, completing, bOwner>>
  BY <1>1, QuietFlows DEF BackendInv
<1>2. ASSUME NEW c \in tickets, ConnectBrowser(c) PROVE Flows
  <2>1. c.id \in Ticket /\ c.backend \in Backend
    BY DEF HubInv, StoreTypeOK, Claims
  <2> QED
    BY <1>2, <2>1, BrowserFlows DEF ConnectBrowser, Untouched, diskVars, memoryVars
<1>3. ASSUME NEW r \in routes, RemoveBrowser(r) PROVE Flows
  <2>1. r.claims \in Claims
    BY DEF HubInv, Route
  <2>2. r.claims.id \in Ticket /\ r.claims.backend \in Backend
    BY <2>1 DEF Claims
  <2> QED
    BY <1>3, <2>2, BrowserFlows DEF RemoveBrowser, Closed, Untouched, diskVars, memoryVars
<1>4. ASSUME NEW d \in Device, NEW target \in Device, DeviceIsRevoked(d, target) PROVE Flows
  BY <1>4, DeviceRevocationFlows
<1>5. ASSUME NEW d \in Device, NEW b \in Backend, BackendIsRevoked(d, b) PROVE Flows
  <2>1. deviceAccount[d] \in Account \cup {Nobody}
    BY DEF HubInv, StoreTypeOK
  <2> QED
    BY <1>5, <2>1, BrowserFlows DEF BackendIsRevoked, NotifyBackend, Untouched, diskVars, memoryVars
<1>6. CASE Expires
  BY <1>6, <1>1 DEF Expires, Untouched, diskVars, memoryVars
<1> QED
  BY <1>1, <1>2, <1>3, <1>4, <1>5, <1>6 DEF UserStep, CreatePairing, RequestPairing, RequestConnection,
    TurnBrowserAway, Invites, Joins, Untouched, diskVars, memoryVars

(***************************************************************************)
(* Steps of a backend                                                      *)
(***************************************************************************)
LEMMA MessageFlows ==
  ASSUME HubInv, BackendInv, NEW v \in Backend, MessageStep(v)
  PROVE  Flows
<1>1. CASE Registered(v) \/ CreatePeer(v) \/ ConnectionClosed(v) \/ ErrorArrives(v)
  BY <1>1, TakenFlows DEF BackendInv, Registered, CreatePeer, ConnectionClosed, ErrorArrives, diskVars
<1>2. CASE PairingConfirmed(v)
  <2>1. /\ toBackend' \in Queues /\ MailFlows
        /\ Arrived(v) \in Contents(toBackend[v]) /\ Arrived(v).type = "pairing_confirmed"
    BY <1>2, Takes DEF BackendInv, PairingConfirmed
  <2>2. Arrived(v).account \in Account
    BY <2>1 DEF BackendInv, MailIsSound, IsSound
  <2>3. PICK c \in tickets : c.id = Arrived(v).id /\ completing' = [completing EXCEPT ![v] = @ \cup
          {x \in {[claims |-> c, account |-> Arrived(v).account]} : c.id \in awaiting[v]}]
    BY <1>2 DEF PairingConfirmed
  <2>4. [claims |-> c, account |-> Arrived(v).account] \in Completions
    BY <2>2 DEF Completions, HubInv, StoreTypeOK
  <2>5. completing' \in [Backend -> SUBSET Completions]
    BY <2>3, <2>4 DEF BackendInv, BackendTypes
  <2>6. CompletionsFlow
    BY <2>1, <2>3 DEF BackendInv, BackendTypes, CompletionsFlow
  <2>7. UNCHANGED bOwner
    BY <1>2 DEF PairingConfirmed, diskVars
  <2> QED
    BY <2>1, <2>5, <2>6, <2>7 DEF BackendInv, BackendTypes, Flows, OwnersFlow
<1>3. CASE AuthorizationRevoked(v)
  <2>1. toBackend' \in Queues /\ MailFlows
    BY <1>3, Takes DEF BackendInv, AuthorizationRevoked
  <2>2. UNCHANGED completing /\ (bOwner' = bOwner \/ bOwner' = [bOwner EXCEPT ![v] = Nobody])
    BY <1>3 DEF AuthorizationRevoked, ApplyRevocation
  <2>3. bOwner' \in [Backend -> Account \cup {Nobody}] /\ OwnersFlow
    BY <2>2 DEF BackendInv, BackendTypes, OwnersFlow
  <2> QED
    BY <2>1, <2>2, <2>3 DEF BackendInv, BackendTypes, Flows, CompletionsFlow
<1> QED
  BY <1>1, <1>2, <1>3 DEF MessageStep

LEMMA CompletionFlows ==
  ASSUME BackendInv, NEW v \in Backend, CompletionStep(v)
  PROVE  Flows
<1>1. PICK c \in completing[v] : CompletePairing(v, c) \/ RejectPairing(v, c)
  BY DEF CompletionStep
<1>2. c \in Completions /\ c.account \in Account
  BY <1>1 DEF BackendInv, BackendTypes, Completions
<1>3. UNCHANGED toBackend /\ completing' = [completing EXCEPT ![v] = @ \ {c}]
  BY <1>1 DEF CompletePairing, RejectPairing, carrierVars
<1>4. bOwner' = bOwner \/ bOwner' = [bOwner EXCEPT ![v] = c.account]
  BY <1>1 DEF CompletePairing, RejectPairing, diskVars
<1>5. BackendTypes'
  BY <1>2, <1>3, <1>4 DEF BackendInv, BackendTypes
<1>6. MailFlows /\ CompletionsFlow
  BY <1>3 DEF BackendInv, BackendTypes, MailFlows, CompletionsFlow
<1>7. OwnersFlow
  BY <1>1, <1>4 DEF BackendInv, BackendTypes, OwnersFlow
<1> QED
  BY <1>5, <1>6, <1>7 DEF Flows

LEMMA PeerFlows ==
  ASSUME BackendInv, NEW v \in Backend, PeerStep(v)
  PROVE  Flows
<1>1. PICK x \in peers[v] : PeerFails(v, x) \/ PeerCloses(v, x) \/ GrantConnection(v, x) \/ ConsumePairing(v, x)
  BY DEF PeerStep
<1>2. CASE UNCHANGED <<toBackend, completing, bOwner>>
  BY <1>2, QuietFlows DEF BackendInv
<1>3. CASE ProcessEnds(v) /\ UNCHANGED bOwner
  BY <1>3, CutFlows DEF BackendInv, ProcessEnds, SocketCloses
<1> QED
  BY <1>1, <1>2, <1>3 DEF PeerFails, FailPeer, PeerCloses, GrantConnection, ConsumePairing, carrierVars, diskVars

(***************************************************************************)
(* The other types                                                         *)
(***************************************************************************)
PeerRecords == [claims: Claims, phase: Phases, account: Account \cup {Nobody}]
LinkTypes ==
  /\ link \in [Backend -> Links] /\ stale \subseteq Backend
  /\ hubPairs \subseteq Pair
  /\ toHub \in [Backend -> Seq(Commands)]
DiskTypes ==
  /\ bPairs \in [Backend -> SUBSET Pair]
  /\ bSpent \in [Backend -> SUBSET Pair]
  /\ bUsed \in [Backend -> SUBSET Ticket]
  /\ bRevoked \in [Backend -> SUBSET Device]
MemoryTypes ==
  /\ up \subseteq Backend /\ known \subseteq up /\ started \subseteq up
  /\ active \in [Backend -> SUBSET Pair]
  /\ awaiting \in [Backend -> SUBSET Ticket]
  /\ peers \in [Backend -> SUBSET PeerRecords]
BoundTypes == failures \in 0..MaxFailures /\ revocations \in 0..MaxRevocations

\* A process that does not run has no link, and a link that is down carries nothing.
LinkBook == \A b \in Backend : (b \notin up => link[b] = "down") /\ (link[b] = "down" => toBackend[b] = <<>>)
LocalInv == LinkTypes /\ DiskTypes /\ MemoryTypes /\ BoundTypes /\ LinkBook

LEMMA TypesAreParts == HubInv /\ BackendTypes /\ LinkTypes /\ DiskTypes /\ MemoryTypes /\ BoundTypes => TypeOK
BY DEF TypeOK, HubInv, Route, BackendTypes, Queues, Completions, LinkTypes, DiskTypes, MemoryTypes, PeerRecords,
  BoundTypes

LEMMA LocalInitial == Init => LocalInv
BY RendezvousAssumption DEF Init, LocalInv, LinkTypes, DiskTypes, MemoryTypes, BoundTypes, LinkBook, Links

\* The socket of a backend is closed, and its process may have ended.
LEMMA SocketCloseKeeps ==
  ASSUME LocalInv, BackendTypes, NEW v \in Backend, SocketCloses(v), UNCHANGED hubPairs, up' \in {up, up \ {v}}
  PROVE  LinkTypes' /\ LinkBook'
<1>1. LinkTypes'
  BY DEF LocalInv, LinkTypes, SocketCloses, Links
<1>2. LinkBook'
  BY DEF LocalInv, LinkTypes, LinkBook, BackendTypes, Queues, SocketCloses
<1> QED
  BY <1>1, <1>2

LEMMA ProcessEndKeeps ==
  ASSUME LocalInv, BackendTypes, NEW v \in Backend, ProcessEnds(v), UNCHANGED hubPairs
  PROVE  LinkTypes' /\ MemoryTypes' /\ LinkBook'
<1>1. LinkTypes' /\ LinkBook'
  BY SocketCloseKeeps DEF ProcessEnds
<1>2. MemoryTypes'
  BY DEF ProcessEnds, IsUnregistered, LocalInv, MemoryTypes
<1> QED
  BY <1>1, <1>2

LEMMA LinkLossKeeps ==
  ASSUME LocalInv, BackendTypes, NEW v \in Backend, LosesLink(v), UNCHANGED hubPairs
  PROVE  LinkTypes' /\ MemoryTypes' /\ LinkBook'
<1>1. CASE ProcessEnds(v)
  BY <1>1, ProcessEndKeeps
<1>2. CASE /\ SocketCloses(v) /\ IsUnregistered(v)
           /\ awaiting' = [awaiting EXCEPT ![v] = {}]
           /\ UNCHANGED <<up, started, active, completing, peers>>
  <2>1. LinkTypes' /\ LinkBook'
    BY <1>2, SocketCloseKeeps
  <2>2. MemoryTypes'
    BY <1>2 DEF IsUnregistered, LocalInv, MemoryTypes
  <2> QED
    BY <2>1, <2>2
<1> QED
  BY <1>1, <1>2 DEF LosesLink

LEMMA FailureKeeps == ASSUME LocalInv, BackendTypes, Failure PROVE LocalInv'
<1>1. DiskTypes'
  BY DEF Failure, HubRestarts, HubDrops, LinkLost, BackendStops, LocalInv, DiskTypes, diskVars
<1>2. BoundTypes'
  BY RendezvousAssumption DEF Failure, HubRestarts, HubDrops, LinkLost, BackendStops, Fails, LocalInv, BoundTypes
<1>3. ASSUME HubRestarts PROVE LinkTypes' /\ MemoryTypes' /\ LinkBook'
  BY <1>3 DEF HubRestarts, LocalInv, LinkTypes, Links, MemoryTypes, LinkBook, memoryVars
<1>4. ASSUME NEW v \in Backend, HubDrops(v) PROVE LinkTypes' /\ MemoryTypes' /\ LinkBook'
  BY <1>4 DEF HubDrops, RemoveRegisteredBackend, LocalInv, LinkTypes, Links, MemoryTypes, LinkBook, memoryVars
<1>5. ASSUME NEW v \in Backend, LinkLost(v) \/ BackendStops(v) PROVE LinkTypes' /\ MemoryTypes' /\ LinkBook'
  BY <1>5, LinkLossKeeps, ProcessEndKeeps DEF LinkLost, BackendStops
<1> QED
  BY <1>1, <1>2, <1>3, <1>4, <1>5 DEF Failure, LocalInv

LEMMA LinkKeeps == ASSUME LocalInv, BackendTypes, NEW v \in Backend, BackendStarts(v) \/ LinkStep(v) PROVE LocalInv'
<1>1. DiskTypes' /\ BoundTypes'
  BY DEF BackendStarts, LinkStep, Connects, Registers, HubNotices, CloseArrives, LocalInv, DiskTypes, BoundTypes,
    diskVars, boundVars
<1>2. ASSUME BackendStarts(v) PROVE LinkTypes' /\ MemoryTypes' /\ LinkBook'
  BY <1>2 DEF BackendStarts, LocalInv, LinkTypes, MemoryTypes, LinkBook, hubVars, carrierVars
<1>3. ASSUME Connects(v) PROVE LinkTypes' /\ MemoryTypes' /\ LinkBook'
  BY <1>3 DEF Connects, LocalInv, LinkTypes, Links, MemoryTypes, LinkBook, carrierVars, memoryVars
<1>4. ASSUME Registers(v) PROVE LinkTypes' /\ MemoryTypes' /\ LinkBook'
  <2>1. hubPairs' \subseteq hubPairs
    BY <1>4 DEF Registers, RemoveRegisteredBackend
  <2>2. /\ link[v] = "fresh"
        /\ link' = [link EXCEPT ![v] = "joined"] /\ stale' = stale \ {v}
        /\ \A b \in Backend \ {v} : toBackend'[b] = toBackend[b]
        /\ UNCHANGED <<toHub, memoryVars>>
    BY <1>4 DEF Registers, BackendTypes, Queues
  <2>3. LinkTypes' /\ MemoryTypes'
    BY <2>1, <2>2 DEF LocalInv, LinkTypes, Links, MemoryTypes, memoryVars
  <2>4. LinkBook'
    BY <2>2 DEF LocalInv, LinkTypes, LinkBook, memoryVars
  <2> QED
    BY <2>3, <2>4
<1>5. ASSUME HubNotices(v) PROVE LinkTypes' /\ MemoryTypes' /\ LinkBook'
  BY <1>5 DEF HubNotices, RemoveRegisteredBackend, LocalInv, LinkTypes, MemoryTypes, LinkBook, carrierVars, memoryVars
<1>6. ASSUME CloseArrives(v) PROVE LinkTypes' /\ MemoryTypes' /\ LinkBook'
  BY <1>6, LinkLossKeeps DEF CloseArrives
<1> QED
  BY <1>1, <1>2, <1>3, <1>4, <1>5, <1>6 DEF LinkStep, LocalInv

\* The hub sends nothing over a link that is down.
LEMMA SendKeepsBook ==
  ASSUME LinkBook, NEW out, HubSends(out), UNCHANGED <<link, up>>
  PROVE  LinkBook'
BY DEF LinkBook, HubSends

\* A step that keeps what a backend and its link remember.
LEMMA LocalKept ==
  ASSUME LocalInv, UNCHANGED <<link, stale, hubPairs, toHub, diskVars, memoryVars>>, BoundTypes',
         UNCHANGED toBackend \/ \E out : HubSends(out)
  PROVE  LocalInv'
<1>1. LinkTypes' /\ DiskTypes' /\ MemoryTypes'
  BY DEF LocalInv, LinkTypes, DiskTypes, MemoryTypes, diskVars, memoryVars
<1>2. LinkBook'
  BY SendKeepsBook DEF LocalInv, LinkBook, memoryVars
<1> QED
  BY <1>1, <1>2 DEF LocalInv

\* The commands that a backend sends.
LEMMA CommandsAreTyped ==
  /\ \A pairs \in SUBSET Pair : OpenCommands(pairs) \in Seq(Commands)
  /\ \A t \in Ticket : /\ <<[type |-> "close_connection", id |-> t]>> \in Seq(Commands)
                       /\ <<[type |-> "confirm_pairing", id |-> t]>> \in Seq(Commands)
<1>1. ASSUME NEW pairs \in SUBSET Pair PROVE OpenCommands(pairs) \in Seq(Commands)
  <2>1. [type |-> "open_pairing", pairs |-> pairs] \in [type: {"open_pairing"}, pairs: SUBSET Pair]
    OBVIOUS
  <2>2. [type |-> "open_pairing", pairs |-> pairs] \in Commands
    BY <2>1 DEF Commands
  <2> QED
    BY <2>2 DEF OpenCommands
<1>2. ASSUME NEW t \in Ticket, NEW type \in {"close_connection", "confirm_pairing"}
      PROVE  <<[type |-> type, id |-> t]>> \in Seq(Commands)
  <2>1. [type |-> type, id |-> t] \in Commands
    BY DEF Commands
  <2> QED
    BY <2>1
<1> QED
  BY <1>1, <1>2

LEMMA CommandedIsTyped ==
  ASSUME LinkTypes, NEW v \in Backend, NEW s \in Seq(Commands)
  PROVE  Commanded(v, s) \in [Backend -> Seq(Commands)]
BY DEF LinkTypes, Commanded

LEMMA HubKeeps == ASSUME LocalInv, BackendTypes, NEW v \in Backend, HubStep(v) PROVE LocalInv'
<1>1. DiskTypes' /\ MemoryTypes' /\ BoundTypes' /\ UNCHANGED <<link, stale, up>>
  BY DEF HubStep, OpenPairing, ConfirmCommand, RefuseCommand, CloseFromBackend, LocalInv, DiskTypes, MemoryTypes,
    BoundTypes, diskVars, memoryVars, boundVars
<1>2. toHub[v] \in Seq(Commands) /\ toHub[v] # <<>> /\ toHub' = [toHub EXCEPT ![v] = Tail(@)]
  BY DEF HubStep, OpenPairing, ConfirmCommand, RefuseCommand, CloseFromBackend, Command, CommandTaken, LocalInv, LinkTypes
<1>3. toHub' \in [Backend -> Seq(Commands)]
  BY <1>2 DEF LocalInv, LinkTypes
<1>4. hubPairs' \subseteq Pair
  <2>1. ASSUME OpenPairing(v) PROVE hubPairs' \subseteq Pair
    <3>1. Head(toHub[v]) \in Commands /\ Head(toHub[v]).type = "open_pairing"
      BY <1>2, <2>1 DEF OpenPairing, Command
    <3>2. Head(toHub[v]).pairs \subseteq Pair
      BY <3>1 DEF Commands
    <3> QED
      BY <2>1, <3>2 DEF OpenPairing, LocalInv, LinkTypes
  <2>2. ASSUME ConfirmCommand(v) PROVE hubPairs' \subseteq hubPairs
    BY <2>2 DEF ConfirmCommand, Confirms
  <2> QED
    BY <2>1, <2>2 DEF HubStep, RefuseCommand, CloseFromBackend, LocalInv, LinkTypes
<1>5. UNCHANGED toBackend \/ \E out : HubSends(out)
  BY DEF HubStep, OpenPairing, ConfirmCommand, Confirms, RefuseCommand, CloseFromBackend, HubTells
<1>6. LinkBook'
  BY <1>1, <1>5, SendKeepsBook DEF LocalInv, LinkBook
<1> QED
  BY <1>1, <1>3, <1>4, <1>6 DEF LocalInv, LinkTypes

LEMMA UserKeeps == ASSUME LocalInv, BackendTypes, UserStep \/ Expires PROVE LocalInv'
<1>1. ASSUME NEW b \in Backend, NEW p \in Pair, CreatePairing(b, p) PROVE LocalInv'
  <2>1. OpenCommands({p}) \in Seq(Commands)
    BY CommandsAreTyped
  <2>2. toHub' \in [Backend -> Seq(Commands)]
    BY <1>1, <2>1, CommandedIsTyped DEF CreatePairing, LocalInv, LinkTypes
  <2>3. LinkTypes' /\ BoundTypes' /\ LinkBook'
    BY <1>1, <2>2 DEF CreatePairing, LocalInv, LinkTypes, BoundTypes, LinkBook, hubVars, boundVars
  <2>4. DiskTypes' /\ MemoryTypes'
    BY <1>1 DEF CreatePairing, LocalInv, DiskTypes, MemoryTypes
  <2> QED
    BY <2>3, <2>4 DEF LocalInv
<1>2. CASE Untouched /\ BoundTypes' /\ (UNCHANGED toBackend \/ \E out : HubSends(out))
  BY <1>2, LocalKept DEF Untouched
<1>3. ASSUME Revokes, UNCHANGED failures PROVE BoundTypes'
  BY <1>3, RendezvousAssumption DEF Revokes, LocalInv, BoundTypes
<1>4. ASSUME NEW d \in Device, NEW target \in Device, DeviceIsRevoked(d, target) PROVE LocalInv'
  BY <1>2, <1>3, <1>4 DEF DeviceIsRevoked, NotifyDevice
<1>5. ASSUME NEW d \in Device, NEW b \in Backend, BackendIsRevoked(d, b) PROVE LocalInv'
  BY <1>2, <1>3, <1>5 DEF BackendIsRevoked, NotifyBackend, HubTells
<1>6. UNCHANGED boundVars => BoundTypes'
  BY DEF LocalInv, BoundTypes, boundVars
<1> QED
  BY <1>1, <1>2, <1>4, <1>5, <1>6 DEF UserStep, Expires, RequestPairing, RequestConnection, ConnectBrowser,
    TurnBrowserAway, RemoveBrowser, Invites, Joins, HubTells

\* What is taken from the mail was sent to a process that runs.
LEMMA TakingKeeps ==
  ASSUME LocalInv, BackendTypes, NEW v \in Backend, NEW type, Received(v, type), UNCHANGED <<link, up>>
  PROVE  v \in up /\ LinkBook'
BY DEF Received, LocalInv, LinkBook, BackendTypes, Queues

LEMMA WithoutIsTyped ==
  ASSUME MemoryTypes, NEW v \in Backend, NEW t
  PROVE  Without(v, t) \in [Backend -> SUBSET PeerRecords]
BY DEF MemoryTypes, Without

LEMMA MessageKeeps ==
  ASSUME HubInv, LocalInv, BackendTypes, NEW v \in Backend, MessageStep(v)
  PROVE  LocalInv'
<1>1. UNCHANGED <<link, stale, hubPairs, up>> /\ BoundTypes' /\ v \in up /\ LinkBook'
  <2>1. UNCHANGED <<link, stale, hubPairs, up, boundVars>> /\ \E type : Received(v, type)
    BY DEF MessageStep, Registered, CreatePeer, PairingConfirmed, ConnectionClosed, ErrorArrives,
      AuthorizationRevoked, NothingElse, hubVars, boundVars
  <2> QED
    BY <2>1, TakingKeeps DEF LocalInv, BoundTypes, boundVars
<1>2. CASE Registered(v)
  <2>1. Reopens(v) \in SUBSET Pair
    BY DEF Reopens, LocalInv, DiskTypes, MemoryTypes
  <2>2. toHub' \in [Backend -> Seq(Commands)]
    BY <1>2, <2>1, CommandsAreTyped, CommandedIsTyped DEF Registered, LocalInv
  <2>3. DiskTypes' /\ MemoryTypes'
    BY <1>1, <1>2, <2>1 DEF Registered, LocalInv, DiskTypes, MemoryTypes, diskVars
  <2> QED
    BY <1>1, <2>2, <2>3 DEF LocalInv, LinkTypes
<1>3. CASE CreatePeer(v)
  <2>1. PICK c \in tickets :
          IF c.id \in lapsed
          THEN /\ toHub' = Commanded(v, <<[type |-> "close_connection", id |-> c.id]>>)
               /\ peers' = Without(v, c.id)
          ELSE /\ peers' = [Without(v, c.id) EXCEPT ![v] = @ \cup
                             {[claims |-> c, phase |-> "negotiating", account |-> Nobody]}]
               /\ UNCHANGED toHub
    BY <1>3 DEF CreatePeer
  <2>2. c \in Claims /\ c.id \in Ticket
    BY DEF HubInv, StoreTypeOK, Claims
  <2>3. toHub' \in [Backend -> Seq(Commands)]
    BY <2>1, <2>2, CommandsAreTyped, CommandedIsTyped DEF LocalInv, LinkTypes
  <2>4. [claims |-> c, phase |-> "negotiating", account |-> Nobody] \in PeerRecords
    BY <2>2 DEF PeerRecords, Phases
  <2>5. peers' \in [Backend -> SUBSET PeerRecords]
    BY <2>1, <2>4, WithoutIsTyped DEF LocalInv
  <2>6. DiskTypes' /\ MemoryTypes'
    BY <1>3, <2>5 DEF CreatePeer, LocalInv, DiskTypes, MemoryTypes, diskVars
  <2> QED
    BY <1>1, <2>3, <2>6 DEF LocalInv, LinkTypes
<1>4. CASE PairingConfirmed(v)
  <2>1. DiskTypes' /\ MemoryTypes' /\ UNCHANGED toHub
    BY <1>4 DEF PairingConfirmed, LocalInv, DiskTypes, MemoryTypes, diskVars
  <2> QED
    BY <1>1, <2>1 DEF LocalInv, LinkTypes
<1>5. CASE ConnectionClosed(v)
  <2>1. DiskTypes' /\ MemoryTypes' /\ UNCHANGED toHub
    BY <1>5, WithoutIsTyped DEF ConnectionClosed, LocalInv, DiskTypes, MemoryTypes, diskVars
  <2> QED
    BY <1>1, <2>1 DEF LocalInv, LinkTypes
<1>6. CASE ErrorArrives(v)
  <2>1. DiskTypes' /\ MemoryTypes'
    BY <1>6, WithoutIsTyped DEF ErrorArrives, LocalInv, DiskTypes, MemoryTypes, diskVars
  <2>2. Arrived(v).id \in awaiting[v] => Arrived(v).id \in Ticket
    BY DEF LocalInv, MemoryTypes
  <2>3. toHub' \in [Backend -> Seq(Commands)]
    BY <1>6, <2>2, CommandsAreTyped, CommandedIsTyped DEF ErrorArrives, LocalInv, LinkTypes
  <2> QED
    BY <1>1, <2>1, <2>3 DEF LocalInv, LinkTypes
<1>7. CASE AuthorizationRevoked(v)
  <2>1. Arrived(v) \in Messages
    BY <1>7, Takes DEF AuthorizationRevoked
  <2>2. Arrived(v).device \in Device \cup {Nobody}
    BY <2>1 DEF Messages
  <2>3. bRevoked' \in [Backend -> SUBSET Device]
    BY <1>7, <2>2 DEF AuthorizationRevoked, ApplyRevocation, LocalInv, DiskTypes
  <2>4. DiskTypes' /\ MemoryTypes' /\ UNCHANGED toHub
    BY <1>7, <2>3 DEF AuthorizationRevoked, LocalInv, DiskTypes, MemoryTypes
  <2> QED
    BY <1>1, <2>4 DEF LocalInv, LinkTypes
<1> QED
  BY <1>2, <1>3, <1>4, <1>5, <1>6, <1>7 DEF MessageStep

\* A peer goes from one phase to the next.
LEMMA PhaseIsTyped ==
  ASSUME NEW x \in PeerRecords, NEW phase \in Phases, NEW a \in Account \cup {Nobody}
  PROVE  [claims |-> x.claims, phase |-> phase, account |-> a] \in PeerRecords
  BY DEF PeerRecords

LEMMA CompletionKeeps ==
  ASSUME LocalInv, BackendTypes, NEW v \in Backend, CompletionStep(v)
  PROVE  LocalInv'
<1>1. PICK c \in completing[v] : CompletePairing(v, c) \/ RejectPairing(v, c)
  BY DEF CompletionStep
<1>2. c.claims \in Claims /\ c.account \in Account
  BY <1>1 DEF BackendTypes, Completions
<1>3. c.claims.id \in Ticket
  BY <1>2 DEF Claims
<1>4. UNCHANGED <<link, stale, hubPairs, toBackend, bPairs, bSpent, bRevoked, up, known, started, active, awaiting>>
  BY <1>1 DEF CompletePairing, RejectPairing, hubVars, carrierVars, diskVars
<1>5. BoundTypes' /\ LinkBook'
  BY <1>1, <1>4 DEF CompletePairing, RejectPairing, LocalInv, BoundTypes, LinkBook, boundVars
<1>6. toHub' \in [Backend -> Seq(Commands)]
  <2>1. LinkTypes
    BY DEF LocalInv
  <2>2. toHub' = toHub \/ \E s \in Seq(Commands) : toHub' = Commanded(v, s)
    BY <1>1, <1>3, CommandsAreTyped DEF CompletePairing, RejectPairing, carrierVars
  <2> QED
    BY <2>1, <2>2, CommandedIsTyped DEF LinkTypes
<1>7. bUsed' \in [Backend -> SUBSET Ticket]
  BY <1>1, <1>3 DEF CompletePairing, RejectPairing, diskVars, LocalInv, DiskTypes
<1>8. peers' \in [Backend -> SUBSET PeerRecords]
  <2>1. CASE RejectPairing(v, c)
    BY <2>1, WithoutIsTyped DEF RejectPairing, LocalInv
  <2>2. CASE CompletePairing(v, c)
    <3>1. \A x \in PeersFor(v, c.claims.id) : [claims |-> x.claims, phase |-> "ready", account |-> c.account] \in PeerRecords
      BY <1>2, PhaseIsTyped DEF PeersFor, LocalInv, MemoryTypes, Phases
    <3> DEFINE ready == {[claims |-> x.claims, phase |-> "ready", account |-> c.account] : x \in PeersFor(v, c.claims.id)}
    <3>2. ready \subseteq PeerRecords
      BY <3>1
    <3>3. peers' = [peers EXCEPT ![v] = (@ \ PeersFor(v, c.claims.id)) \cup ready]
      BY <2>2 DEF CompletePairing
    <3> QED
      BY <3>2, <3>3 DEF LocalInv, MemoryTypes
  <2> QED
    BY <1>1, <2>1, <2>2
<1> QED
  BY <1>4, <1>5, <1>6, <1>7, <1>8 DEF LocalInv, LinkTypes, DiskTypes, MemoryTypes

LEMMA AdvancedIsTyped ==
  ASSUME MemoryTypes, NEW v \in Backend, NEW x \in peers[v], NEW phase \in Phases, NEW a \in Account \cup {Nobody}
  PROVE  Advanced(v, x, phase, a) \in [Backend -> SUBSET PeerRecords]
<1>1. [claims |-> x.claims, phase |-> phase, account |-> a] \in PeerRecords
  BY PhaseIsTyped DEF MemoryTypes
<1> QED
  BY <1>1 DEF MemoryTypes, Advanced

LEMMA PeerKeeps ==
  ASSUME LocalInv, BackendTypes, NEW v \in Backend, PeerStep(v)
  PROVE  LocalInv'
<1>1. PICK x \in peers[v] : PeerFails(v, x) \/ PeerCloses(v, x) \/ GrantConnection(v, x) \/ ConsumePairing(v, x)
  BY DEF PeerStep
<1>2. x \in PeerRecords
  BY <1>1 DEF LocalInv, MemoryTypes
<1>3. x.claims.id \in Ticket /\ x.claims.account \in Account \cup {Nobody}
      /\ (x.claims.pair \in bPairs[v] => x.claims.pair \in Pair)
  BY <1>2 DEF PeerRecords, Claims, LocalInv, DiskTypes
<1>4. UNCHANGED hubPairs /\ BoundTypes'
  BY <1>1 DEF PeerFails, PeerCloses, GrantConnection, ConsumePairing, LocalInv, BoundTypes, hubVars, boundVars
<1>5. DiskTypes'
  BY <1>1, <1>3 DEF PeerFails, PeerCloses, GrantConnection, ConsumePairing, LocalInv, DiskTypes, diskVars
<1>6. CASE ProcessEnds(v)
  BY <1>4, <1>5, <1>6, ProcessEndKeeps DEF LocalInv
<1>7. ASSUME ~ProcessEnds(v) PROVE LocalInv'
  <2>1. UNCHANGED <<link, stale, toBackend, up, known, started, active>>
    BY <1>1, <1>7 DEF PeerFails, FailPeer, PeerCloses, GrantConnection, ConsumePairing, hubVars, carrierVars
  <2>2. toHub' \in [Backend -> Seq(Commands)]
    <3>1. CASE PeerFails(v, x)
      BY <1>3, <1>7, <3>1, CommandsAreTyped, CommandedIsTyped DEF PeerFails, FailPeer, LocalInv, LinkTypes
    <3>2. CASE ConsumePairing(v, x)
      <4>1. toHub' = Commanded(v, <<[type |-> "confirm_pairing", id |-> x.claims.id]>>)
        BY <1>7, <3>2 DEF ConsumePairing
      <4> QED
        BY <1>3, <4>1, CommandsAreTyped, CommandedIsTyped DEF LocalInv, LinkTypes
    <3>3. CASE PeerCloses(v, x) \/ GrantConnection(v, x)
      BY <3>3 DEF PeerCloses, GrantConnection, carrierVars, LocalInv, LinkTypes
    <3> QED
      BY <1>1, <3>1, <3>2, <3>3
  <2>3. awaiting' \in [Backend -> SUBSET Ticket]
    BY <1>1, <1>3, <1>7 DEF PeerFails, FailPeer, PeerCloses, GrantConnection, ConsumePairing, LocalInv, MemoryTypes
  <2>4. peers' \in [Backend -> SUBSET PeerRecords]
    BY <1>1, <1>3, <1>7, WithoutIsTyped, AdvancedIsTyped
    DEF PeerFails, FailPeer, PeerCloses, GrantConnection, ConsumePairing, Phases, LocalInv
  <2> QED
    BY <1>4, <1>5, <2>1, <2>2, <2>3, <2>4 DEF LocalInv, LinkTypes, MemoryTypes, LinkBook
<1> QED
  BY <1>6, <1>7

(***************************************************************************)
(* Peers and the accounts of their devices                                 *)
(***************************************************************************)
\* Tickets have ids of their own.  A ticket that names an account names that of its device,
\* and a ticket for a connection names one.
TicketsAreUnique == \A c, d \in tickets : c.id = d.id => c = d
TicketsAreTrue == \A c \in tickets :
  /\ c.account # Nobody => Member(c.device, c.account)
  /\ c.kind = "connection" => c.account # Nobody

\* What is on its way to make a peer ready names the account of the peer's device, and so
\* does what has made it ready.
MailNames == \A b \in Backend : \A m \in Contents(toBackend[b]) : m.type = "pairing_confirmed" => Named(m)
CompletionsName == \A b \in Backend : \A c \in completing[b] :
  c.claims \in tickets /\ Member(c.claims.device, c.account)
PeersName == \A b \in Backend : \A x \in peers[b] :
  x.claims \in tickets /\ (x.phase = "ready" => Member(x.claims.device, x.account))
MemberInv == TicketsAreUnique /\ TicketsAreTrue /\ MailNames /\ CompletionsName /\ PeersName

LEMMA MemberInitial == Init => MemberInv
BY DEF Init, StoreInit, MemberInv, TicketsAreUnique, TicketsAreTrue, MailNames, Contents, CompletionsName, PeersName

\* A device never leaves its account, not even when it is revoked.
LEMMA MembersStay ==
  ASSUME StoreTypeOK, [StoreNext]_storeVars
  PROVE  \A d \in Device, a \in Account : Member(d, a) => Member(d, a)'
<1>1. CASE UNCHANGED deviceAccount
  BY <1>1 DEF Member
<1>2. ASSUME NEW c \in Claims, NEW x \in Account, ConfirmPairing(c, x)
      PROVE  \A d \in Device, a \in Account : Member(d, a) => Member(d, a)'
  BY <1>2 DEF ConfirmPairing, Member, StoreTypeOK
<1>3. ASSUME NEW e \in Device, NEW x \in StoredInvites, AcceptDeviceInvite(e, x)
      PROVE  \A d \in Device, a \in Account : Member(d, a) => Member(d, a)'
  BY <1>3 DEF AcceptDeviceInvite, Member, StoreTypeOK
<1> QED
  BY <1>1, <1>2, <1>3 DEF StoreNext, IssuePairingTicket, IssueConnectionTicket, ConsumeRouteTicket, TicketExpires,
    CreateDeviceInvite, InviteExpires, PairingExpires, RevokeDevice, RevokeBackend, storeVars, accountVars

\* A new ticket has a new id, and names the account that its device has.
LEMMA NewTicket ==
  ASSUME StoreTypeOK, TicketsAreUnique, TicketsAreTrue, NEW c,
         Unissued(c.id), tickets' = tickets \cup {c}, UNCHANGED deviceAccount,
         c.account = deviceAccount[c.device], c.kind = "connection" => c.account # Nobody
  PROVE  TicketsAreUnique' /\ TicketsAreTrue'
BY DEF TicketsAreUnique, TicketsAreTrue, Unissued, Member

LEMMA TicketsStayTrue ==
  ASSUME StoreTypeOK, TicketsAreUnique, TicketsAreTrue, [StoreNext]_storeVars
  PROVE  TicketsAreUnique' /\ TicketsAreTrue'
<1>1. CASE UNCHANGED tickets
  <2>1. \A c \in tickets : c.device \in Device /\ c.account \in Account \cup {Nobody}
    BY DEF StoreTypeOK, Claims
  <2> QED
    BY <1>1, <2>1, MembersStay DEF TicketsAreUnique, TicketsAreTrue
<1>2. ASSUME NEW d \in Device, NEW p \in Pair, NEW t \in Ticket, IssuePairingTicket(d, p, t)
      PROVE  TicketsAreUnique' /\ TicketsAreTrue'
  <2>1. PICK c : c = [id |-> t, kind |-> "pairing", device |-> d, backend |-> Host[p],
                       account |-> deviceAccount[d], pair |-> p]
    OBVIOUS
  <2> QED
    BY <1>2, <2>1, NewTicket DEF IssuePairingTicket, accountVars
<1>3. ASSUME NEW d \in Device, NEW b \in Backend, NEW t \in Ticket, IssueConnectionTicket(d, b, t)
      PROVE  TicketsAreUnique' /\ TicketsAreTrue'
  <2>1. PICK c : c = [id |-> t, kind |-> "connection", device |-> d, backend |-> b,
                       account |-> deviceAccount[d], pair |-> Nobody]
    OBVIOUS
  <2> QED
    BY <1>3, <2>1, NewTicket DEF IssueConnectionTicket, IsActive, accountVars
<1> QED
  BY <1>1, <1>2, <1>3 DEF StoreNext, ConsumeRouteTicket, TicketExpires, ConfirmPairing, CreateDeviceInvite,
    AcceptDeviceInvite, InviteExpires, PairingExpires, RevokeDevice, RevokeBackend, storeVars

\* A peer that a step adds is for a ticket, and only a ticket for a connection or a
\* confirmation makes it ready.
IsWarranted(b, x) ==
  \/ x.claims.kind = "connection" /\ x.account = x.claims.account
  \/ \E c \in completing[b] : c.claims.id = x.claims.id /\ c.account = x.account
PeersFlow == \A b \in Backend : \A x \in peers'[b] :
  \/ x \in peers[b]
  \/ x.claims \in tickets /\ (x.phase = "ready" => IsWarranted(b, x))

\* What only flows stays true while the store is served.
LEMMA MembershipKeeps ==
  ASSUME HubInv, BackendTypes, MemoryTypes, MemberInv, [StoreNext]_storeVars, Flows, PeersFlow
  PROVE  MemberInv'
<1>1. tickets \subseteq tickets' /\ TicketsAreUnique' /\ TicketsAreTrue'
  BY TicketsRemain, TicketsStayTrue DEF HubInv, MemberInv
<1>2. \A d \in Device, a \in Account : Member(d, a) => Member(d, a)'
  BY MembersStay DEF HubInv
<1>3. \A c \in tickets : c.device \in Device /\ c.account \in Account \cup {Nobody}
  BY DEF HubInv, StoreTypeOK, Claims
<1>4. MailNames'
  <2> SUFFICES ASSUME NEW b \in Backend, NEW m \in Contents(toBackend'[b]), m.type = "pairing_confirmed"
               PROVE  Named(m)'
    BY DEF MailNames, Contents
  <2>1. CASE m \in Contents(toBackend[b])
    <3>1. m.account \in Account \cup {Nobody}
      <4>1. toBackend[b] \in Seq(Messages)
        BY DEF BackendTypes, Queues
      <4>2. m \in Messages
        BY <2>1, <4>1 DEF Contents
      <4> QED
        BY <4>2 DEF Messages
    <3>2. PICK c \in tickets : c.id = m.id /\ Member(c.device, m.account)
      BY <2>1 DEF MemberInv, MailNames, Named
    <3>3. m.account \in Account
      BY <3>1, <3>2 DEF Member
    <3> QED
      BY <1>1, <1>2, <1>3, <3>2, <3>3 DEF Named
  <2> QED
    BY <2>1 DEF Flows, MailFlows
<1>5. CompletionsName'
  <2> SUFFICES ASSUME NEW b \in Backend, NEW c \in completing'[b]
               PROVE  c.claims \in tickets' /\ Member(c.claims.device, c.account)'
    BY DEF CompletionsName
  <2>1. c.account \in Account
    BY DEF Flows, BackendTypes, Completions
  <2>2. c.claims \in tickets /\ Member(c.claims.device, c.account)
    <3>1. CASE c \in completing[b]
      BY <3>1 DEF MemberInv, CompletionsName
    <3>2. CASE c \notin completing[b]
      <4>1. c.claims \in tickets
        BY <3>2 DEF Flows, CompletionsFlow
      <4>2. PICK m \in Contents(toBackend[b]) :
              m.type = "pairing_confirmed" /\ m.account = c.account /\ m.id = c.claims.id
        BY <3>2 DEF Flows, CompletionsFlow
      <4>3. PICK e \in tickets : e.id = m.id /\ Member(e.device, m.account)
        BY <4>2 DEF MemberInv, MailNames, Named
      <4>4. e = c.claims
        BY <4>1, <4>2, <4>3 DEF MemberInv, TicketsAreUnique
      <4> QED
        BY <4>1, <4>2, <4>3, <4>4
    <3> QED
      BY <3>1, <3>2
  <2> QED
    BY <1>1, <1>2, <1>3, <2>1, <2>2
<1>6. PeersName'
  <2> SUFFICES ASSUME NEW b \in Backend, NEW x \in peers'[b]
               PROVE  x.claims \in tickets' /\ (x.phase = "ready" => Member(x.claims.device, x.account)')
    BY DEF PeersName
  <2>1. x.claims \in tickets /\ (x.phase = "ready" => Member(x.claims.device, x.account))
    <3>1. CASE x \in peers[b]
      BY <3>1 DEF MemberInv, PeersName
    <3>2. CASE x \notin peers[b]
      <4>1. x.claims \in tickets /\ (x.phase = "ready" => IsWarranted(b, x))
        BY <3>2 DEF PeersFlow
      <4>2. CASE x.claims.kind = "connection" /\ x.account = x.claims.account
        BY <4>1, <4>2 DEF MemberInv, TicketsAreTrue
      <4>3. ASSUME NEW c \in completing[b], c.claims.id = x.claims.id /\ c.account = x.account
            PROVE  Member(x.claims.device, x.account)
        <5>1. c.claims \in tickets /\ Member(c.claims.device, c.account)
          BY DEF MemberInv, CompletionsName
        <5>2. c.claims = x.claims
          BY <4>1, <4>3, <5>1 DEF MemberInv, TicketsAreUnique
        <5> QED
          BY <4>3, <5>1, <5>2
      <4> QED
        BY <4>1, <4>2, <4>3 DEF IsWarranted
    <3> QED
      BY <3>1, <3>2
  <2>2. x.phase = "ready" => x.account \in Account
    <3>1. Member(x.claims.device, x.account) => x.account \in Account
      BY <1>3, <2>1 DEF Member, HubInv, StoreTypeOK
    <3> QED
      BY <2>1, <3>1
  <2> QED
    BY <1>1, <1>2, <1>3, <2>1, <2>2
<1> QED
  BY <1>1, <1>4, <1>5, <1>6 DEF MemberInv

\* Steps that add no peer.
LEMMA FewerPeers ==
  ASSUME \A b \in Backend : peers'[b] \subseteq peers[b]
  PROVE  PeersFlow
BY DEF PeersFlow

LEMMA WithoutIsFewer ==
  ASSUME MemoryTypes, NEW v \in Backend, NEW t
  PROVE  \A b \in Backend : Without(v, t)[b] \subseteq peers[b]
BY DEF MemoryTypes, Without

LEMMA EndHasFewer ==
  ASSUME MemoryTypes, NEW v \in Backend, ProcessEnds(v) \/ LosesLink(v)
  PROVE  PeersFlow
<1>1. peers' = peers \/ peers' = [peers EXCEPT ![v] = {}]
  BY DEF LosesLink, ProcessEnds
<1>2. \A b \in Backend : peers'[b] \subseteq peers[b]
  BY <1>1 DEF MemoryTypes
<1> QED
  BY <1>2, FewerPeers

LEMMA FailureWarrants == ASSUME MemoryTypes, Failure PROVE PeersFlow
<1>1. CASE UNCHANGED peers
  BY <1>1, FewerPeers
<1>2. ASSUME NEW v \in Backend, LinkLost(v) \/ BackendStops(v) PROVE PeersFlow
  BY <1>2, EndHasFewer DEF LinkLost, BackendStops
<1> QED
  BY <1>1, <1>2 DEF Failure, HubRestarts, HubDrops, memoryVars

LEMMA LinkWarrants ==
  ASSUME MemoryTypes, NEW v \in Backend, BackendStarts(v) \/ LinkStep(v)
  PROVE  PeersFlow
<1>1. CASE UNCHANGED peers
  BY <1>1, FewerPeers
<1>2. CASE CloseArrives(v)
  BY <1>2, EndHasFewer DEF CloseArrives
<1> QED
  BY <1>1, <1>2 DEF BackendStarts, LinkStep, Connects, Registers, HubNotices, memoryVars

\* Hub and browsers reach no peer.
LEMMA HubTouchesNoPeer ==
  ASSUME UserStep \/ Expires \/ \E v \in Backend : HubStep(v)
  PROVE  UNCHANGED peers
BY DEF UserStep, Expires, HubStep, CreatePairing, RequestPairing, RequestConnection, ConnectBrowser, TurnBrowserAway,
  RemoveBrowser, Invites, Joins, DeviceIsRevoked, BackendIsRevoked, Untouched, OpenPairing, ConfirmCommand,
  RefuseCommand, CloseFromBackend, memoryVars

LEMMA MessageWarrants ==
  ASSUME MemoryTypes, NEW v \in Backend, MessageStep(v)
  PROVE  PeersFlow
<1>1. CASE UNCHANGED peers
  BY <1>1, FewerPeers
<1>2. ASSUME NEW t, peers' = Without(v, t) PROVE PeersFlow
  BY <1>2, WithoutIsFewer, FewerPeers
<1>3. CASE CreatePeer(v)
  <2>1. PICK c \in tickets :
          \/ peers' = Without(v, c.id)
          \/ peers' = [Without(v, c.id) EXCEPT ![v] = @ \cup
                        {[claims |-> c, phase |-> "negotiating", account |-> Nobody]}]
    BY <1>3 DEF CreatePeer
  <2> DEFINE new == [claims |-> c, phase |-> "negotiating", account |-> Nobody]
  <2>2. new.claims \in tickets /\ new.phase # "ready"
    OBVIOUS
  <2>3. \A b \in Backend : \A x \in peers'[b] : x \in peers[b] \/ x = new
    <3> HIDE DEF new
    <3>1. Without(v, c.id) \in [Backend -> SUBSET PeerRecords]
      BY WithoutIsTyped
    <3> QED
      BY <2>1, <3>1, WithoutIsFewer DEF new
  <2> HIDE DEF new
  <2> QED
    BY <2>2, <2>3 DEF PeersFlow
<1>4. CASE AuthorizationRevoked(v)
  <2>1. \A b \in Backend : peers'[b] \subseteq peers[b]
    BY <1>4 DEF AuthorizationRevoked, MemoryTypes
  <2> QED
    BY <2>1, FewerPeers
<1> QED
  BY <1>1, <1>2, <1>3, <1>4 DEF MessageStep, Registered, PairingConfirmed, ConnectionClosed, ErrorArrives

LEMMA CompletionWarrants ==
  ASSUME MemoryTypes, PeersName, NEW v \in Backend, CompletionStep(v)
  PROVE  PeersFlow
<1>1. PICK c \in completing[v] : CompletePairing(v, c) \/ RejectPairing(v, c)
  BY DEF CompletionStep
<1>2. CASE RejectPairing(v, c)
  BY <1>2, WithoutIsFewer, FewerPeers DEF RejectPairing
<1>3. CASE CompletePairing(v, c)
  <2> DEFINE ready == {[claims |-> x.claims, phase |-> "ready", account |-> c.account] : x \in PeersFor(v, c.claims.id)}
  <2>1. \A x \in ready : x.claims \in tickets /\ IsWarranted(v, x)
    <3> SUFFICES ASSUME NEW y \in PeersFor(v, c.claims.id),
                        NEW x, x = [claims |-> y.claims, phase |-> "ready", account |-> c.account]
                 PROVE  x.claims \in tickets /\ IsWarranted(v, x)
      OBVIOUS
    <3>1. y \in peers[v] /\ y.claims.id = c.claims.id
      BY DEF PeersFor
    <3>2. x.claims = y.claims /\ x.account = c.account
      OBVIOUS
    <3> QED
      BY <3>1, <3>2 DEF PeersName, IsWarranted
  <2>2. peers' = [peers EXCEPT ![v] = (@ \ PeersFor(v, c.claims.id)) \cup ready]
    BY <1>3 DEF CompletePairing
  <2> HIDE DEF ready
  <2>3. \A b \in Backend : \A x \in peers'[b] : x \in peers[b] \/ (b = v /\ x \in ready)
    BY <2>2 DEF MemoryTypes
  <2> QED
    BY <2>1, <2>3 DEF PeersFlow
<1> QED
  BY <1>1, <1>2, <1>3

LEMMA PeerWarrants ==
  ASSUME MemoryTypes, PeersName, NEW v \in Backend, PeerStep(v)
  PROVE  PeersFlow
<1>1. PICK x \in peers[v] : PeerFails(v, x) \/ PeerCloses(v, x) \/ GrantConnection(v, x) \/ ConsumePairing(v, x)
  BY DEF PeerStep
<1>2. x.claims \in tickets
  BY DEF PeersName
<1>3. CASE ProcessEnds(v)
  BY <1>3, EndHasFewer
<1>4. CASE peers' = Without(v, x.claims.id)
  BY <1>4, WithoutIsFewer, FewerPeers
<1>5. ASSUME NEW phase, NEW a, peers' = Advanced(v, x, phase, a),
             phase = "ready" => x.claims.kind = "connection" /\ a = x.claims.account
      PROVE  PeersFlow
  <2> DEFINE new == [claims |-> x.claims, phase |-> phase, account |-> a]
  <2>1. new.claims \in tickets /\ (new.phase = "ready" => IsWarranted(v, new))
    BY <1>2, <1>5 DEF IsWarranted
  <2>2. peers' = [peers EXCEPT ![v] = (@ \ {x}) \cup {new}]
    BY <1>5 DEF Advanced
  <2> HIDE DEF new
  <2>3. \A b \in Backend : \A y \in peers'[b] : y \in peers[b] \/ (b = v /\ y = new)
    BY <2>2 DEF MemoryTypes
  <2> QED
    BY <2>1, <2>3 DEF PeersFlow
<1>6. CASE GrantConnection(v, x)
  BY <1>5, <1>6 DEF GrantConnection
<1>7. CASE ConsumePairing(v, x)
  BY <1>3, <1>5, <1>7 DEF ConsumePairing
<1> QED
  BY <1>1, <1>3, <1>4, <1>6, <1>7 DEF PeerFails, FailPeer, PeerCloses

(***************************************************************************)
(* The invariant of the system                                             *)
(***************************************************************************)
IInv == HubInv /\ LocalInv /\ BackendInv /\ MemberInv

LEMMA StepKeeps == ASSUME IInv, [Next]_vars PROVE IInv'
<1>1. HubInv' /\ [StoreNext]_storeVars
  BY HubStepKeeps, StepsOfTheStore DEF IInv
<1>2. LocalInv' /\ Flows /\ PeersFlow
  <2>1. CASE UNCHANGED vars
    <3>1. UNCHANGED <<hubVars, carrierVars, diskVars, memoryVars, boundVars>>
      BY <2>1 DEF vars
    <3>2. Flows
      BY <3>1, QuietFlows DEF IInv, BackendInv, carrierVars, diskVars, memoryVars
    <3>3. LocalInv'
      BY <3>1, LocalKept DEF IInv, LocalInv, BoundTypes, hubVars, carrierVars, boundVars
    <3>4. PeersFlow
      BY <3>1, FewerPeers DEF memoryVars
    <3> QED
      BY <3>2, <3>3, <3>4
  <2>2. CASE Failure
    BY <2>2, FailureKeeps, FailureFlows, FailureWarrants DEF IInv, BackendInv, LocalInv
  <2>3. CASE UserStep \/ Expires
    BY <2>3, UserKeeps, UserFlows, HubTouchesNoPeer, FewerPeers DEF IInv, BackendInv
  <2>4. ASSUME NEW v \in Backend, BackendStarts(v) \/ LinkStep(v) PROVE LocalInv' /\ Flows /\ PeersFlow
    BY <2>4, LinkKeeps, LinkFlows, LinkWarrants DEF IInv, BackendInv, LocalInv
  <2>5. ASSUME NEW v \in Backend, HubStep(v) PROVE LocalInv' /\ Flows /\ PeersFlow
    BY <2>5, HubKeeps, HubFlows, HubTouchesNoPeer, FewerPeers, TypesAreParts DEF IInv, BackendInv, LocalInv
  <2>6. ASSUME NEW v \in Backend, MessageStep(v) PROVE LocalInv' /\ Flows /\ PeersFlow
    BY <2>6, MessageKeeps, MessageFlows, MessageWarrants DEF IInv, BackendInv, LocalInv
  <2>7. ASSUME NEW v \in Backend, CompletionStep(v) PROVE LocalInv' /\ Flows /\ PeersFlow
    BY <2>7, CompletionKeeps, CompletionFlows, CompletionWarrants DEF IInv, BackendInv, LocalInv, MemberInv
  <2>8. ASSUME NEW v \in Backend, PeerStep(v) PROVE LocalInv' /\ Flows /\ PeersFlow
    BY <2>8, PeerKeeps, PeerFlows, PeerWarrants DEF IInv, BackendInv, LocalInv, MemberInv
  <2> QED
    BY <2>1, <2>2, <2>3, <2>4, <2>5, <2>6, <2>7, <2>8 DEF Next
<1>3. BackendInv'
  BY <1>1, <1>2, FlowsKeep DEF IInv, HubInv
<1>4. MemberInv'
  BY <1>1, <1>2, MembershipKeeps DEF IInv, LocalInv, BackendInv
<1> QED
  BY <1>1, <1>2, <1>3, <1>4 DEF IInv

LEMMA Invariance == Spec => []IInv
<1>1. Init => IInv
  BY HubInitial, LocalInitial, BackendInitial, MemberInitial DEF IInv
<1>2. IInv /\ [Next]_vars => IInv'
  BY StepKeeps
<1> QED
  BY <1>1, <1>2, PTL DEF Spec

\* Hub, carriers and backends keep the types of what they remember and send.
THEOREM RendezvousTypeCorrect == Spec => []TypeOK
<1>1. IInv => TypeOK
  BY TypesAreParts DEF IInv, BackendInv, LocalInv
<1> QED
  BY <1>1, Invariance, PTL

\* Whoever a backend takes for its owner is the hub's owner of it, or the hub has kept the
\* revocation to tell (revokeBackend and registerBackend), unless the pairing of another
\* account has replaced it.
THEOREM RevocationsAreRetained == Spec => []StaleIsRetained
<1>1. IInv => StaleIsRetained
  BY DEF IInv, BackendInv
<1> QED
  BY <1>1, Invariance, PTL

\* A peer is ready for the account of its device (authorizeTicket and completePairing of
\* backend-trust-store.ts): a ticket keeps naming the account that its device had, a
\* confirmation names the one that the hub has just given it, and no device ever changes.
THEOREM PeersStayMembers == Spec => []PeersAreMembers
<1>1. IInv => PeersAreMembers
  BY DEF IInv, MemberInv, PeersName, PeersAreMembers, Member
<1> QED
  BY <1>1, Invariance, PTL
=================================================================================
