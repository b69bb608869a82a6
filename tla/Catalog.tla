------------------------------- MODULE Catalog -------------------------------
(***************************************************************************)
(* The list of conversations, from the session files to the sidebar:       *)
(* SessionIndex and its persistent cache, LocalSettingsStore, whose rules   *)
(* say how a directory is displayed, the watchers of both, the             *)
(* sessions_changed messages, and the adapter's optimistic entries and the  *)
(* picker's list in the browser (src/server/session-index.ts,              *)
(* local-settings.ts, local-backend-api.ts, server.ts,                     *)
(* src/client/ws-agent-adapter.ts, session-picker.ts).                     *)
(*                                                                         *)
(* One browser with the local backend; what another browser or the user    *)
(* does to the files comes from outside.                                   *)
(***************************************************************************)
EXTENDS Integers, FiniteSets

CONSTANTS Session,         \* session files that there may be
          Existing,        \* those there are when the page has been loaded
          Display,         \* display rules: valid contents of the settings file
          Default,         \* the rule of DEFAULT_SETTINGS
          MaxVersion,      \* bound on what is written to one session file
          Acts,            \* bound on what the user does on the page
          Outside,         \* bound on edits and deletions that other programs make
          Troubles,        \* bound on lost connections, refused or lost requests and restarts
          Bad, None        \* contents that do not parse; markers

CatalogAssumption ==
  /\ Existing \subseteq Session /\ Default \in Display
  /\ Bad \notin Display /\ None \notin Display
  /\ MaxVersion \in Nat \ {0} /\ Acts \in Nat /\ Outside \in Nat /\ Troubles \in Nat
ASSUME CatalogAssumption

Absent == -1               \* the version of a file that does not exist

VARIABLES
  file,                    \* version of each session file; 0: its header is not complete
  life,                    \* "unused", "started" by a prompt, "written" once it has a file
  watched,                 \* files whose 300 ms timer runs (sessionListTimers)
  watching,                \* whether startSessionsWatcher found the directory
  index,                   \* the entries of the session index, in memory and on disk
  written, rule,           \* the settings file; currentSettings of the store
  touched,                 \* the settings file has changed since watchFile last looked
  up, online,              \* the server runs; the page's socket is connected
  wire,                    \* messages on their way to the page
  optimistic,              \* _optimisticSessions of the adapter
  list,                    \* sessions of the picker
  fetch,                   \* _fetchInFlight: the request of the list and its answer
  again, due,              \* _fetchDirty; the 500 ms timer of debouncedRefreshSessions
  deleting,                \* the deletions that the page has asked for
  saved,                   \* an answer to saveLocalSettings is on its way
  excuses,                 \* history: why the list may be behind, see EventuallyListed
  budget                   \* what is left of the bounds

files == <<file, life, watched, watching>>
settings == <<written, rule, touched>>
page == <<optimistic, list, fetch, again, due, deleting, saved>>
net == <<up, online, wire>>
vars == <<files, index, settings, net, page, excuses, budget>>

Row == [version : 0..MaxVersion, display : Display \cup {None}]
Entry == [stamp : 0..MaxVersion, row : Row]
Rows == [Session -> Row \cup {None}]

TypeOK ==
  /\ file \in [Session -> Absent..MaxVersion]
  /\ life \in [Session -> {"unused", "started", "written"}]
  /\ watched \subseteq Session /\ watching \in BOOLEAN
  /\ index \in [Session -> Entry \cup {None}]
  /\ written \in Display \cup {Bad} /\ rule \in Display /\ touched \in BOOLEAN
  /\ up \in BOOLEAN /\ online \in BOOLEAN
  /\ wire \subseteq ({"files", "settings"} \X {None}) \cup ({"attached"} \X Session)
  /\ optimistic \subseteq Session
  /\ list \in Rows
  /\ fetch \in [stage : {"idle", "asked", "answered", "failed"}, rows : Rows]
  /\ again \in BOOLEAN /\ due \in BOOLEAN /\ saved \in BOOLEAN
  /\ deleting \in [Session -> {"no", "asked", "done", "failed"}]
  /\ excuses \subseteq {"missed", "restart"}
  /\ budget \in [acts : 0..Acts, outside : 0..Outside, troubles : 0..Troubles]

Nothing == [s \in Session |-> None]
NoFetch == [stage |-> "idle", rows |-> Nothing]
Asked == [stage |-> "asked", rows |-> Nothing]

(* What extractSessionMeta makes of a file under a rule. A directory that  *)
(* the header does not name yet has no display name.                       *)
RowOf(v, r) == [version |-> v, display |-> IF v = 0 THEN None ELSE r]
Due(s) == IF file[s] = Absent THEN None ELSE RowOf(file[s], rule)

Init ==
  /\ file = [s \in Session |-> IF s \in Existing THEN 1 ELSE Absent]
  /\ life = [s \in Session |-> IF s \in Existing THEN "written" ELSE "unused"]
  /\ watched = {} /\ watching = (Existing # {})
  /\ written = Default /\ rule = Default /\ touched = FALSE
  /\ list = [s \in Session |-> Due(s)]
  /\ index = [s \in Session |-> IF s \in Existing THEN [stamp |-> 1, row |-> Due(s)] ELSE None]
  /\ up = TRUE /\ online = TRUE /\ wire = {}
  /\ optimistic = {} /\ fetch = NoFetch /\ again = FALSE /\ due = FALSE
  /\ deleting = [s \in Session |-> "no"] /\ saved = FALSE
  /\ excuses = {}
  /\ budget = [acts |-> Acts, outside |-> Outside, troubles |-> Troubles]

Spend(what) == budget[what] > 0 /\ budget' = [budget EXCEPT ![what] = @ - 1]

-----------------------------------------------------------------------------
(* The server: session files and their watcher.                            *)

(* fs.watch reports a file: its timer is started again. Without a watcher  *)
(* nobody is told.                                                         *)
Seen(s) ==
  IF up /\ watching THEN watched' = watched \cup {s} /\ UNCHANGED excuses
  ELSE UNCHANGED watched /\ excuses' = excuses \cup {"missed"}

(* broadcast: a message that no socket takes is gone.                      *)
Told(m) ==
  IF online THEN wire' = wire \cup {<<m, None>>} /\ UNCHANGED excuses
  ELSE UNCHANGED wire /\ excuses' = excuses \cup {"missed"}

(* pi begins the file of a prompted session, or continues any.             *)
Written(s) ==
  /\ \/ file[s] = Absent /\ life[s] = "started"
     \/ file[s] # Absent /\ file[s] < MaxVersion
  /\ file' = [file EXCEPT ![s] = @ + 1]
  /\ life' = [life EXCEPT ![s] = "written"]
  /\ Seen(s)
  /\ UNCHANGED <<watching, index, settings, net, page, budget>>

(* Another browser, or the user, deletes a session.                        *)
RemovedElsewhere(s) ==
  /\ file[s] # Absent /\ Spend("outside")
  /\ file' = [file EXCEPT ![s] = Absent]
  /\ Seen(s)
  /\ UNCHANGED <<life, watching, index, settings, net, page>>

(* The timer of a file ends: notifySessionsChanged.                        *)
Notify(s) ==
  /\ s \in watched /\ watched' = watched \ {s}
  /\ Told("files")
  /\ UNCHANGED <<file, life, watching, index, settings, up, online, page, budget>>

-----------------------------------------------------------------------------
(* The server: settings.                                                   *)

(* settingsChanged: the index forgets what it formatted under the old rule *)
(* and every page is told.                                                 *)
SettingsChanged ==
  /\ index' = Nothing
  /\ wire' = IF online THEN wire \cup {<<"settings", None>>} ELSE wire
  /\ excuses' = (excuses \ {"restart"}) \cup (IF online THEN {} ELSE {"missed"})

(* An editor writes the settings file.                                     *)
Edit(c) ==
  /\ Spend("outside") /\ c # written
  /\ written' = c /\ touched' = TRUE
  /\ UNCHANGED <<files, index, rule, net, page, excuses>>

(* watchFile and its debounce: reloadFromDiskIfValid. What does not parse  *)
(* leaves the last good rule.                                              *)
Reload ==
  /\ up /\ touched /\ touched' = FALSE
  /\ IF written \in Display \ {rule}
     THEN rule' = written /\ SettingsChanged
     ELSE UNCHANGED <<rule, index, wire, excuses>>
  /\ UNCHANGED <<files, written, up, online, page, budget>>

(* The settings dialog is applied: save() and settingsChanged().           *)
Save(d) ==
  /\ up /\ Spend("acts") /\ ~saved
  /\ written' = d /\ rule' = d /\ touched' = TRUE
  /\ SettingsChanged
  /\ saved' = TRUE
  /\ UNCHANGED <<files, up, online, optimistic, list, fetch, again, due, deleting>>

(* A choice of theme: patch() merges it into the settings in memory and    *)
(* saves all of them.                                                      *)
Patch ==
  /\ up /\ Spend("acts")
  /\ written' = rule /\ touched' = TRUE
  /\ SettingsChanged
  /\ UNCHANGED <<files, rule, up, online, page>>

-----------------------------------------------------------------------------
(* The server: listSessions. It is synchronous, but pi may append to a     *)
(* file between its stat and its read.                                     *)

Cached(s) == index[s] # None /\ file[s] # Absent /\ index[s].stamp = file[s]

\* Mutant: the file is stamped after it has been read.
ListingStampsLate(read) ==
  [s \in Session |->
     IF file[s] = Absent THEN None
     ELSE IF Cached(s) THEN index[s]
     ELSE [stamp |-> read[s], row |-> RowOf(file[s], rule)]]

Listing(read) ==
  [s \in Session |->
     IF file[s] = Absent THEN None
     ELSE IF Cached(s) THEN index[s]
     ELSE [stamp |-> file[s], row |-> RowOf(read[s], rule)]]

RowsOf(entries) == [s \in Session |-> IF entries[s] = None THEN None ELSE entries[s].row]

Answer(raced) ==
  /\ up /\ fetch.stage = "asked"
  /\ \A s \in raced : file[s] \in 0..(MaxVersion - 1) /\ ~Cached(s)
  /\ LET read == [s \in Session |-> IF s \in raced THEN file[s] + 1 ELSE file[s]]
         entries == Listing(read)
     IN /\ index' = entries
        /\ fetch' = [stage |-> "answered", rows |-> RowsOf(entries)]
        /\ file' = read
  /\ IF raced = {} THEN UNCHANGED <<watched, excuses>> ELSE \E s \in raced : Seen(s)
  /\ UNCHANGED <<life, watching, settings, net, optimistic, list, again, due, deleting, saved,
                 budget>>

(* The request fails, as it does when the server is down.                  *)
Unanswered ==
  /\ fetch.stage \in {"asked", "answered"}
  /\ IF up THEN Spend("troubles") ELSE UNCHANGED budget
  /\ fetch' = [stage |-> "failed", rows |-> Nothing]
  /\ UNCHANGED <<files, index, settings, net, optimistic, list, again, due, deleting, saved,
                 excuses>>

-----------------------------------------------------------------------------
(* The page: refreshSessions.                                              *)

\* Mutant: a request that meets another one is dropped.
RefreshOnce ==
  IF fetch.stage = "idle"
  THEN fetch' = Asked /\ UNCHANGED again /\ excuses' = excuses \ {"missed"}
  ELSE UNCHANGED <<fetch, again, excuses>>

(* One request at a time; one that comes meanwhile makes it ask again.     *)
Refresh ==
  IF fetch.stage = "idle"
  THEN fetch' = Asked /\ UNCHANGED again /\ excuses' = excuses \ {"missed"}
  ELSE again' = TRUE /\ UNCHANGED <<fetch, excuses>>

(* The end of a request, which begins another if it is dirty.              *)
FetchEnds(behind) ==
  /\ again' = FALSE
  /\ fetch' = IF again THEN Asked ELSE NoFetch
  /\ excuses' = IF again THEN excuses \ {"missed"} ELSE excuses \cup behind

(* mergeOptimisticSessions: an entry without a row gets one.               *)
Merged(rows, entries) ==
  [s \in Session |-> IF s \in entries /\ rows[s] = None THEN RowOf(0, None) ELSE rows[s]]

(* The adapter merges its optimistic entries into the answer and drops     *)
(* those that have a row with a directory.                                 *)
Listed ==
  /\ fetch.stage = "answered"
  /\ list' = Merged(fetch.rows, optimistic)
  /\ optimistic' = {s \in optimistic : fetch.rows[s] = None \/ fetch.rows[s].version = 0}
  /\ FetchEnds({})
  /\ UNCHANGED <<files, index, settings, net, due, deleting, saved, budget>>

(* A failed request leaves an empty list.                                  *)
NotListed ==
  /\ fetch.stage = "failed"
  /\ list' = Nothing
  /\ FetchEnds({"missed"})
  /\ UNCHANGED <<files, index, settings, net, optimistic, due, deleting, saved, budget>>

(* sessions_changed: merge, and start the timer again.                     *)
ReceiveChanged(m) ==
  /\ <<m, None>> \in wire /\ wire' = wire \ {<<m, None>>}
  /\ list' = Merged(list, optimistic)
  /\ due' = TRUE
  /\ UNCHANGED <<files, index, settings, up, online, optimistic, fetch, again, deleting, saved,
                 excuses, budget>>

DueFires ==
  /\ due /\ due' = FALSE
  /\ Refresh
  /\ UNCHANGED <<files, index, settings, net, optimistic, list, deleting, saved, budget>>

(* session_attached: an optimistic entry. The listeners of the session     *)
(* merge and refresh, unless the user has moved on and it is not adopted.  *)
ReceiveAttached(s, adopted) ==
  /\ <<"attached", s>> \in wire /\ wire' = wire \ {<<"attached", s>>}
  /\ optimistic' = optimistic \cup {s}
  /\ IF adopted THEN list' = Merged(list, optimistic') /\ Refresh
     ELSE UNCHANGED <<list, fetch, again, excuses>>
  /\ UNCHANGED <<files, index, settings, up, online, due, deleting, saved, budget>>

-----------------------------------------------------------------------------
(* The page: what the user does.                                           *)

(* A prompt in a new conversation is accepted: it is attached, and pi will *)
(* write its file.                                                         *)
Start(s) ==
  /\ up /\ online /\ life[s] = "unused" /\ Spend("acts")
  /\ life' = [life EXCEPT ![s] = "started"]
  /\ wire' = wire \cup {<<"attached", s>>}
  /\ UNCHANGED <<file, watched, watching, index, settings, up, online, page, excuses>>

(* A row is opened. If there is no such session, the optimistic entry goes *)
(* and a new conversation is begun; either way the session has changed.    *)
Open(s) ==
  /\ list[s] # None /\ Spend("acts")
  /\ LET missing == online /\ life[s] = "written" /\ file[s] = Absent
     IN /\ optimistic' = IF missing THEN optimistic \ {s} ELSE optimistic
        /\ due' = (due \/ missing)
  /\ list' = Merged(list, optimistic')
  /\ Refresh
  /\ UNCHANGED <<files, index, settings, net, deleting, saved>>

(* A row is deleted at once and its file in the background. If it is the   *)
(* conversation on show, a new one is begun, which merges and refreshes.   *)
Delete(s, onShow) ==
  /\ list[s] # None /\ deleting[s] = "no" /\ Spend("acts")
  /\ deleting' = [deleting EXCEPT ![s] = "asked"]
  /\ LET rest == [list EXCEPT ![s] = None]
     IN IF onShow THEN list' = Merged(rest, optimistic) /\ Refresh
        ELSE list' = rest /\ UNCHANGED <<fetch, again, excuses>>
  /\ UNCHANGED <<files, index, settings, net, optimistic, due, saved>>

(* deleteSession of the backend; a file that is gone is deleted.           *)
Unlink(s) ==
  /\ up /\ deleting[s] = "asked"
  /\ deleting' = [deleting EXCEPT ![s] = "done"]
  /\ file' = [file EXCEPT ![s] = Absent]
  /\ IF file[s] # Absent THEN Seen(s) ELSE UNCHANGED <<watched, excuses>>
  /\ UNCHANGED <<life, watching, index, settings, net, optimistic, list, fetch, again, due,
                 saved, budget>>

(* A running session is refused; a server that is down does not answer.    *)
DeleteRefused(s) ==
  /\ deleting[s] = "asked"
  /\ IF up THEN Spend("troubles") ELSE UNCHANGED budget
  /\ deleting' = [deleting EXCEPT ![s] = "failed"]
  /\ UNCHANGED <<files, index, settings, net, optimistic, list, fetch, again, due, saved,
                 excuses>>

Deleted(s) ==
  /\ deleting[s] = "done"
  /\ deleting' = [deleting EXCEPT ![s] = "no"]
  /\ optimistic' = optimistic \ {s}
  /\ UNCHANGED <<files, index, settings, net, list, fetch, again, due, saved, excuses, budget>>

(* The row that was taken away comes back with a refresh.                  *)
NotDeleted(s) ==
  /\ deleting[s] = "failed"
  /\ deleting' = [deleting EXCEPT ![s] = "no"]
  /\ Refresh
  /\ UNCHANGED <<files, index, settings, net, optimistic, list, due, saved, budget>>

(* onSaved of the settings dialog refreshes the list.                      *)
Saved ==
  /\ saved /\ saved' = FALSE
  /\ Refresh
  /\ UNCHANGED <<files, index, settings, net, optimistic, list, due, deleting, budget>>

-----------------------------------------------------------------------------
(* Connections and restarts.                                               *)

Lose == wire' = {} /\ excuses' = IF wire = {} THEN excuses ELSE excuses \cup {"missed"}

Drop ==
  /\ online /\ Spend("troubles")
  /\ online' = FALSE /\ Lose
  /\ UNCHANGED <<files, index, settings, up, page>>

(* onReconnected asks for the conversation and the statuses, not the list. *)
Reconnect ==
  /\ up /\ ~online /\ online' = TRUE
  /\ UNCHANGED <<files, index, settings, up, wire, page, excuses, budget>>

Stop ==
  /\ up /\ Spend("troubles")
  /\ up' = FALSE /\ online' = FALSE /\ wire' = {} /\ watched' = {}
  /\ excuses' = IF wire = {} /\ watched = {} THEN excuses ELSE excuses \cup {"missed"}
  /\ UNCHANGED <<file, life, watching, index, settings, page>>

\* Mutant: the settings are taken as they are in the file.
RestartUnchecked ==
  /\ ~up /\ up' = TRUE
  /\ rule' = written /\ touched' = FALSE
  /\ watching' = (\E s \in Session : life[s] = "written")
  /\ excuses' = IF rule' = rule THEN excuses ELSE excuses \cup {"restart"}
  /\ UNCHANGED <<file, life, watched, index, written, online, wire, page, budget>>

(* The constructors: settings are read, defaults where they do not parse;  *)
(* the index takes up its file, whatever rule it was formatted under.      *)
Restart ==
  /\ ~up /\ up' = TRUE
  /\ rule' = IF written = Bad THEN Default ELSE written
  /\ touched' = FALSE
  /\ watching' = (\E s \in Session : life[s] = "written")
  /\ excuses' = IF rule' = rule THEN excuses ELSE excuses \cup {"restart"}
  /\ UNCHANGED <<file, life, watched, index, written, online, wire, page, budget>>

-----------------------------------------------------------------------------
Server == \/ \E s \in Session : Written(s) \/ RemovedElsewhere(s) \/ Notify(s)
                                \/ Unlink(s) \/ DeleteRefused(s)
          \/ \E c \in Display \cup {Bad} : Edit(c)
          \/ Reload \/ Patch \/ Stop \/ Restart
          \/ \E d \in Display : Save(d)
          \/ Answer({}) \/ \E s \in Session : Answer({s})

Browser == \/ Unanswered \/ Listed \/ NotListed \/ DueFires \/ Saved \/ Drop \/ Reconnect
           \/ \E m \in {"files", "settings"} : ReceiveChanged(m)
           \/ \E s \in Session : \/ Start(s) \/ Open(s) \/ Deleted(s) \/ NotDeleted(s)
                                 \/ \E b \in BOOLEAN : ReceiveAttached(s, b) \/ Delete(s, b)

Next == Server \/ Browser
Spec == Init /\ [][Next]_vars

(* Timers end, messages and requests arrive while both ends are there, and *)
(* a request to a server that is down fails. Nothing else is assumed: pi,   *)
(* the user, other programs, a reconnection and a restart may never come.  *)
Fairness ==
  /\ \A s \in Session :
       /\ WF_vars(Notify(s)) /\ WF_vars(Unlink(s)) /\ WF_vars(Deleted(s)) /\ WF_vars(NotDeleted(s))
       /\ WF_vars(~up /\ DeleteRefused(s))
       /\ WF_vars(\E b \in BOOLEAN : ReceiveAttached(s, b))
  /\ WF_vars(Reload) /\ WF_vars(Answer({})) /\ WF_vars(~up /\ Unanswered)
  /\ WF_vars(Listed) /\ WF_vars(NotListed) /\ WF_vars(DueFires) /\ WF_vars(Saved)
  /\ \A m \in {"files", "settings"} : WF_vars(ReceiveChanged(m))

FairSpec == Spec /\ Fairness

-----------------------------------------------------------------------------
(* An entry of the index that a listing would use again has the row of     *)
(* what the file holds now: the stat is taken before the read, so what is   *)
(* appended in between makes the entry unusable (SessionIndex.listSessions).*)
IndexIsTrue ==
  \A s \in Session : Cached(s) => index[s].row.version = file[s]

(* The rule that the list is to show: that of the settings file, or the    *)
(* last good one.                                                          *)
Rule == IF up /\ written \in Display THEN written ELSE rule

(* An optimistic entry whose file another program has deleted: see the     *)
(* property DeletedDisappears.                                             *)
Ghost(s) == s \in optimistic /\ file[s] = Absent

Current(s) ==
  IF file[s] = Absent THEN list[s] = None
  ELSE list[s] = RowOf(file[s], Rule)

(* When everything has settled the sidebar shows exactly the session files,*)
(* each as it is and under the display rule of the settings file, whatever *)
(* was deleted, edited, attached or asked for in whatever order. It may be *)
(* behind for two reasons that the code accepts: a notification or a list  *)
(* was lost and nothing has asked for the list since ("missed"), or the    *)
(* server was started with other settings than its index was made under    *)
(* ("restart").                                                            *)
EventuallyListed ==
  <>[](excuses # {} \/ \A s \in Session : Ghost(s) \/ Current(s))

(* What the two excuses and the exception cost, each violated by the code: *)
(* a page that was connected all along is up to date (startSessionsWatcher *)
(* gives up without a directory; onReconnected does not ask for the list), *)
ConnectedIsCurrent == <>[](online => \A s \in Session : Ghost(s) \/ Current(s))

(* a deleted session disappears from every page (listSessions of the       *)
(* adapter adds an optimistic entry that has no file),                     *)
DeletedDisappears ==
  <>[](excuses # {} \/ \A s \in Session :
         life[s] = "written" /\ file[s] = Absent => list[s] = None)

(* and what an editor writes is not undone by a choice of theme (patch     *)
(* merges into the settings in memory).                                    *)
EditsSurvive == [][Patch => written' = written]_vars
=============================================================================
