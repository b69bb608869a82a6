--------------------------- MODULE BrowserCarrier ---------------------------
(***************************************************************************)
(* The carrier of one browser to one host: WebRtcFrameTransport with the   *)
(* BrowserRendezvousClient that it makes for each attempt                  *)
(* (src/client/webrtc-frame-transport.ts, browser-rendezvous-client.ts).   *)
(*                                                                         *)
(* connect() is single-flight: `stage' is the attempt behind the promise   *)
(* `connecting'.  The triple (rendezvous, peer, channel) is created in the *)
(* middle of an attempt and is what isCurrentAttempt() compares; `live'    *)
(* says that there is one.  An attempt that fails first collects its       *)
(* diagnostics, an await, and closes its triple only afterwards: until     *)
(* then its handlers are current.                                          *)
(***************************************************************************)
EXTENDS Naturals

CONSTANT Host              \* the hosts the browser may be authorized for

VARIABLES
  carrier,                 \* of each host, see Carriers
  up,                      \* the hosts that are registered and reachable
  trouble                  \* how often something may still go wrong

carrierVars == <<carrier, up, trouble>>

Stages == {"idle", "authorizing", "routing", "negotiating", "failing"}

(* connected: an authenticated answer was seen and no close since; open: the *)
(* channel's readyState; doomed: an attempt that had failed was authenticated *)
(* while its diagnostics were collected; timer: reconnectTimer; retry: the    *)
(* pending attempt was started by that timer; closed: manuallyClosed.         *)
Carriers == [stage : Stages, live : BOOLEAN, open : BOOLEAN, connected : BOOLEAN,
             doomed : BOOLEAN, timer : BOOLEAN, retry : BOOLEAN, closed : BOOLEAN]

NewCarrier == [stage |-> "idle", live |-> FALSE, open |-> FALSE, connected |-> FALSE,
               doomed |-> FALSE, timer |-> FALSE, retry |-> FALSE, closed |-> FALSE]

CarrierTypeOK == /\ carrier \in [Host -> Carriers]
                 /\ up \subseteq Host
                 /\ trouble \in Nat

IsConnected(h) == carrier[h].connected /\ carrier[h].open

IsReconnecting(h) == carrier[h].timer

Becomes(h, c) == carrier' = [carrier EXCEPT ![h] = c]

\* closeInternal: the triple is dropped, and with it what its handlers may do
Shut(c) == [c EXCEPT !.live = FALSE, !.open = FALSE, !.connected = FALSE, !.doomed = FALSE]

\* connect() of a carrier that is neither connected nor connecting: it cancels the timer
Starts(c, byTimer) ==
  [c EXCEPT !.stage = "authorizing", !.timer = FALSE, !.closed = FALSE, !.retry = byTimer]

\* Whoever calls connect(): resolved at once, joined to the pending attempt, or a new one.
Connect(c) == IF c.stage # "idle" \/ (c.connected /\ c.open) THEN c ELSE Starts(c, FALSE)

\* close(): during the authorization there is nothing to close yet, and the
\* attempt goes on; the route of a waiting attempt is closed under it
Close(c) ==
  [Shut(c) EXCEPT !.closed = TRUE, !.timer = FALSE,
                  !.stage = IF c.stage = "routing" THEN "idle" ELSE c.stage]

\* the promise of connect() is rejected; the timer's own attempt schedules the next
Rejects(c) == [c EXCEPT !.stage = "idle", !.retry = FALSE,
                        !.timer = c.timer \/ (c.retry /\ ~c.closed)]

MayFail(h) == \/ h \notin up /\ UNCHANGED trouble
              \/ trouble > 0 /\ trouble' = trouble - 1

AuthorizeFails(h) ==
  /\ carrier[h].stage = "authorizing"
  /\ MayFail(h)
  /\ Becomes(h, Rejects(carrier[h]))
  /\ UNCHANGED up

\* The ticket has arrived: a new triple, whatever was there and whether or not
\* close() was called meanwhile.
Authorized(h) ==
  /\ carrier[h].stage = "authorizing"
  /\ Becomes(h, [carrier[h] EXCEPT !.stage = "routing", !.live = TRUE, !.open = FALSE,
                                   !.doomed = FALSE])
  /\ UNCHANGED <<up, trouble>>

\* backend_connected; the offer is sent in the same turn
Routed(h) ==
  /\ carrier[h].stage = "routing"
  /\ h \in up
  /\ Becomes(h, [carrier[h] EXCEPT !.stage = "negotiating"])
  /\ UNCHANGED <<up, trouble>>

\* fail(): an error of the route, the peer or the channel, or the timer of the
\* attempt.  Without a current triple only the timer is left, and it rejects.
AttemptFails(h) ==
  /\ carrier[h].stage \in {"routing", "negotiating"}
  /\ IF carrier[h].live
     THEN MayFail(h) /\ Becomes(h, [carrier[h] EXCEPT !.stage = "failing"])
     ELSE Becomes(h, Rejects(carrier[h])) /\ UNCHANGED trouble
  /\ UNCHANGED up

\* the diagnostics of a failed attempt are there
FailureEnds(h) ==
  /\ carrier[h].stage = "failing"
  /\ Becomes(h, Rejects(IF carrier[h].live THEN Shut(carrier[h]) ELSE carrier[h]))
  /\ UNCHANGED <<up, trouble>>

\* The channel opens, the device signs, and the backend's answer arrives: onmessage
\* looks at `authenticated' and not at `settled'.
Authenticated(h) ==
  /\ carrier[h].stage \in {"negotiating", "failing"} /\ carrier[h].live
  /\ h \in up
  /\ Becomes(h, [carrier[h] EXCEPT !.stage = "idle", !.retry = FALSE, !.open = TRUE,
                                   !.connected = TRUE,
                                   !.doomed = carrier[h].stage = "failing"])
  /\ UNCHANGED <<up, trouble>>

\* the late end of a failed attempt that was authenticated: closed, and nothing scheduled
DoomEnds(h) ==
  /\ carrier[h].doomed
  /\ Becomes(h, Shut(carrier[h]))
  /\ UNCHANGED <<up, trouble>>

\* handleDisconnected: of a carrier that was closed by hand only the channel is gone
Lost(h) ==
  /\ carrier[h].connected /\ carrier[h].open /\ carrier[h].stage = "idle"
  /\ MayFail(h)
  /\ Becomes(h, IF carrier[h].closed THEN [carrier[h] EXCEPT !.open = FALSE]
                ELSE [Shut(carrier[h]) EXCEPT !.timer = TRUE])
  /\ UNCHANGED up

TimerFires(h) ==
  /\ carrier[h].timer
  /\ Becomes(h, Starts(carrier[h], TRUE))
  /\ UNCHANGED <<up, trouble>>

GoesDown(h) ==
  /\ h \in up
  /\ trouble > 0
  /\ trouble' = trouble - 1
  /\ up' = up \ {h}
  /\ UNCHANGED carrier

ComesUp(h) ==
  /\ h \notin up
  /\ up' = up \cup {h}
  /\ UNCHANGED <<carrier, trouble>>

Proceeds(h) == Authorized(h) \/ Routed(h) \/ Authenticated(h)

Ends(h) == FailureEnds(h) \/ DoomEnds(h) \/ TimerFires(h)

Fails(h) == AuthorizeFails(h) \/ AttemptFails(h) \/ Lost(h)

CarrierStep(h) == Proceeds(h) \/ Ends(h) \/ Fails(h)

=============================================================================
