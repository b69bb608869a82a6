------------------------------- MODULE TrustStore -------------------------------
(***************************************************************************)
(* The state that the rendezvous service keeps on disk                     *)
(* (src/rendezvous/trust-store.ts): which devices and which backends       *)
(* belong to an account, what was revoked, the pairings that were          *)
(* completed, the invitations and the tickets that were used.  Every       *)
(* operation is written to disk before it returns, so the file is the      *)
(* state; a file that hasConsistentReferences refuses stops the service.   *)
(*                                                                         *)
(* A request is preceded by a challenge.  What is checked when the         *)
(* challenge is made is checked again when it is answered, or by           *)
(* confirmPairing, so that a request is one step here.                     *)
(***************************************************************************)
EXTENDS Integers, FiniteSets

CONSTANTS
  Device,   \* browsers' keys
  Backend,  \* backends' keys
  Account,  \* random account ids
  Pair,     \* random ids of pairing capabilities
  Ticket,   \* random ids of tickets, and of the connections they are for
  Invite,   \* random ids of device invitations
  Host,     \* [Pair -> Backend], the backend that creates the capability
  Nobody    \* undefined

ASSUME TrustAssumption ==
  /\ Host \in [Pair -> Backend]
  /\ Nobody \notin Account

VARIABLES
  accounts,       \* the keys of state.accounts
  deviceIds,      \* deviceIds of an account
  backendIds,     \* backendIds of an account
  deviceAccount,  \* accountId of a device, Nobody when it is unknown
  revoked,        \* devices with a revokedAt
  owner,          \* backendOwners
  revocation,     \* backendRevocations
  completions,    \* pairingCompletions
  invites,        \* deviceInvites
  usedTickets,    \* usedTickets
  tickets,        \* the claims that were signed; browsers hold them
  lapsed,         \* ids of pairings, tickets and invitations that have expired
  superseded      \* history: revocations that a pairing of another account deleted

accountVars == <<accounts, deviceIds, backendIds, deviceAccount, revoked, owner>>
storeVars == <<accountVars, revocation, completions, invites, usedTickets, tickets, lapsed, superseded>>

Claims == [id: Ticket, kind: {"pairing", "connection"}, device: Device, backend: Backend,
           account: Account \cup {Nobody}, pair: Pair \cup {Nobody}]
StoredInvites == [id: Invite, account: Account, by: Device]

StoreTypeOK ==
  /\ accounts \subseteq Account
  /\ deviceIds \in [Account -> SUBSET Device]
  /\ backendIds \in [Account -> SUBSET Backend]
  /\ deviceAccount \in [Device -> Account \cup {Nobody}]
  /\ revoked \subseteq Device
  /\ owner \in [Backend -> Account \cup {Nobody}]
  /\ revocation \in [Backend -> Account \cup {Nobody}]
  /\ completions \subseteq [pair: Pair, ticket: Ticket, account: Account, device: Device]
  /\ invites \subseteq StoredInvites
  /\ usedTickets \subseteq Ticket
  /\ tickets \subseteq Claims
  /\ lapsed \subseteq (Pair \cup Ticket \cup Invite)
  /\ superseded \in [Backend -> SUBSET Account]

StoreInit ==
  /\ accounts = {}
  /\ deviceIds = [a \in Account |-> {}]
  /\ backendIds = [a \in Account |-> {}]
  /\ deviceAccount = [d \in Device |-> Nobody]
  /\ revoked = {}
  /\ owner = [b \in Backend |-> Nobody]
  /\ revocation = [b \in Backend |-> Nobody]
  /\ completions = {}
  /\ invites = {}
  /\ usedTickets = {}
  /\ tickets = {}
  /\ lapsed = {}
  /\ superseded = [b \in Backend |-> {}]

(***************************************************************************)
(* Tickets                                                                 *)
(***************************************************************************)
IsActive(d) == deviceAccount[d] # Nobody /\ d \notin revoked
Unissued(t) == \A c \in tickets : c.id # t

\* The claims of a pairing ticket name the account that the device has when it is issued.
IssuePairingTicket(d, p, t) ==
  /\ d \notin revoked
  /\ Unissued(t)
  /\ tickets' = tickets \cup {[id |-> t, kind |-> "pairing", device |-> d, backend |-> Host[p],
                               account |-> deviceAccount[d], pair |-> p]}
  /\ UNCHANGED <<accountVars, revocation, completions, invites, usedTickets, lapsed, superseded>>

IssueConnectionTicket(d, b, t) ==
  /\ IsActive(d)
  /\ owner[b] = deviceAccount[d]
  /\ Unissued(t)
  /\ tickets' = tickets \cup {[id |-> t, kind |-> "connection", device |-> d, backend |-> b,
                               account |-> deviceAccount[d], pair |-> Nobody]}
  /\ UNCHANGED <<accountVars, revocation, completions, invites, usedTickets, lapsed, superseded>>

\* A ticket is used up before it is looked at, and for ever: the marks outlive a restart.
IsUsable(c) == c.id \notin lapsed /\ c.id \notin usedTickets

ConsumeRouteTicket(c) ==
  /\ IsUsable(c)
  /\ usedTickets' = usedTickets \cup {c.id}
  /\ UNCHANGED <<accountVars, revocation, completions, invites, tickets, lapsed, superseded>>

\* A mark that is pruned is that of a ticket that is refused for its age.
TicketExpires(c) ==
  /\ lapsed' = lapsed \cup {c.id}
  /\ usedTickets' = usedTickets \ {c.id}
  /\ UNCHANGED <<accountVars, revocation, completions, invites, tickets, superseded>>

(***************************************************************************)
(* Pairings                                                                *)
(***************************************************************************)
\* The reasons confirmPairing throws.  A repetition of the same ticket, which it answers as
\* before, does not reach it: the hub forgets a pairing when it is confirmed.
OwnedByOther(c) == c.account # Nobody /\ owner[c.backend] \notin {Nobody, c.account}

\* Mutant: a device may have joined an account since its ticket was issued.
JoinedNowhere(c) == FALSE
JoinedElsewhere(c) == deviceAccount[c.device] \notin {Nobody, c.account}

Refuses(c) ==
  \/ \E x \in completions : x.pair = c.pair
  \/ OwnedByOther(c)
  \/ c.device \in revoked
  \/ JoinedElsewhere(c)

\* Mutant: an unknown device always founds an account.
NewUnlessKnown(c) == IF c.account # Nobody THEN {c.account} ELSE Account \ accounts

\* The account that the backend is granted to: the device's, or else the owner's, or a new one.
Grantees(c) ==
  IF c.account # Nobody THEN {c.account}
  ELSE IF owner[c.backend] # Nobody THEN {owner[c.backend]}
  ELSE Account \ accounts

ConfirmPairing(c, a) ==
  /\ c.kind = "pairing" /\ c.pair \in Pair
  /\ ~Refuses(c)
  /\ a \in Grantees(c)
  /\ accounts' = accounts \cup {a}
  /\ deviceIds' = [deviceIds EXCEPT ![a] = @ \cup {c.device}]
  /\ backendIds' = [backendIds EXCEPT ![a] = @ \cup {c.backend}]
  /\ deviceAccount' = [deviceAccount EXCEPT ![c.device] = IF @ = Nobody THEN a ELSE @]
  /\ owner' = [owner EXCEPT ![c.backend] = a]
  /\ revocation' = [revocation EXCEPT ![c.backend] = Nobody]
  /\ superseded' = [superseded EXCEPT ![c.backend] = @ \cup ({revocation[c.backend]} \ {a, Nobody})]
  /\ completions' = completions \cup {[pair |-> c.pair, ticket |-> c.id, account |-> a, device |-> c.device]}
  /\ UNCHANGED <<revoked, invites, usedTickets, tickets, lapsed>>

(***************************************************************************)
(* Invitations                                                             *)
(***************************************************************************)
CreateDeviceInvite(d, i) ==
  /\ IsActive(d)
  /\ i \notin lapsed
  /\ \A x \in invites : x.id # i
  /\ invites' = invites \cup {[id |-> i, account |-> deviceAccount[d], by |-> d]}
  /\ UNCHANGED <<accountVars, revocation, completions, usedTickets, tickets, lapsed, superseded>>

\* An invitation that was accepted is deleted, and its id is not made again.
AcceptDeviceInvite(d, x) ==
  /\ deviceAccount[d] = Nobody
  /\ x.account \in accounts
  /\ deviceIds' = [deviceIds EXCEPT ![x.account] = @ \cup {d}]
  /\ deviceAccount' = [deviceAccount EXCEPT ![d] = x.account]
  /\ invites' = invites \ {x}
  /\ lapsed' = lapsed \cup {x.id}
  /\ UNCHANGED <<accounts, backendIds, revoked, owner, revocation, completions, usedTickets, tickets, superseded>>

InviteExpires(x) ==
  /\ invites' = invites \ {x}
  /\ lapsed' = lapsed \cup {x.id}
  /\ UNCHANGED <<accountVars, revocation, completions, usedTickets, tickets, superseded>>

PairingExpires(p) ==
  /\ lapsed' = lapsed \cup {p}
  /\ UNCHANGED <<accountVars, revocation, completions, invites, usedTickets, tickets, superseded>>

(***************************************************************************)
(* Revocations                                                             *)
(***************************************************************************)
RevokeDevice(d, target) ==
  /\ IsActive(d)
  /\ deviceAccount[target] = deviceAccount[d]
  /\ revoked' = revoked \cup {target}
  /\ UNCHANGED <<accounts, deviceIds, backendIds, deviceAccount, owner, revocation, completions,
                 invites, usedTickets, tickets, lapsed, superseded>>

\* Mutant: the revoked backend stays listed.
StaysListed(b) == backendIds
Unlisted(b) == [backendIds EXCEPT ![owner[b]] = @ \ {b}]

RevokeBackend(d, b) ==
  /\ IsActive(d)
  /\ owner[b] = deviceAccount[d]
  /\ owner' = [owner EXCEPT ![b] = Nobody]
  /\ revocation' = [revocation EXCEPT ![b] = owner[b]]
  /\ backendIds' = Unlisted(b)
  /\ UNCHANGED <<accounts, deviceIds, deviceAccount, revoked, completions, invites, usedTickets,
                 tickets, lapsed, superseded>>

(***************************************************************************)
(* Whatever the requests are                                               *)
(***************************************************************************)
StoreNext ==
  \/ \E d \in Device, p \in Pair, t \in Ticket : IssuePairingTicket(d, p, t)
  \/ \E d \in Device, b \in Backend, t \in Ticket : IssueConnectionTicket(d, b, t)
  \/ \E c \in Claims : ConsumeRouteTicket(c) \/ TicketExpires(c)
  \/ \E c \in Claims, a \in Account : ConfirmPairing(c, a)
  \/ \E d \in Device, i \in Invite : CreateDeviceInvite(d, i)
  \/ \E d \in Device, x \in StoredInvites : AcceptDeviceInvite(d, x)
  \/ \E x \in StoredInvites : InviteExpires(x)
  \/ \E p \in Pair : PairingExpires(p)
  \/ \E d, target \in Device : RevokeDevice(d, target)
  \/ \E d \in Device, b \in Backend : RevokeBackend(d, b)

StoreSpec == StoreInit /\ [][StoreNext]_storeVars

(***************************************************************************)
(* The property of the file                                                *)
(***************************************************************************)
DevicesAreListed == \A d \in Device : deviceAccount[d] # Nobody =>
  deviceAccount[d] \in accounts /\ d \in deviceIds[deviceAccount[d]]
ListedDevicesBelong == \A a \in Account : \A d \in deviceIds[a] : deviceAccount[d] = a
ListedBackendsBelong == \A a \in Account : \A b \in backendIds[a] : owner[b] = a
OwnersAreListed == \A b \in Backend : owner[b] # Nobody =>
  owner[b] \in accounts /\ b \in backendIds[owner[b]]
InvitersBelong == \A x \in invites : x.account \in accounts /\ deviceAccount[x.by] = x.account

\* What is written can be read: whatever was confirmed, accepted, revoked and in whatever
\* order, the file satisfies hasConsistentReferences, so that the service starts again.
StoreReloads ==
  /\ DevicesAreListed
  /\ ListedDevicesBelong
  /\ ListedBackendsBelong
  /\ OwnersAreListed
  /\ InvitersBelong
=================================================================================
