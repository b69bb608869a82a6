--------------------------- MODULE Catalog_proofs ---------------------------
(***************************************************************************)
(* Proofs about Catalog: its types, and that the session index never uses  *)
(* again what is not in the file any more.                                  *)
(***************************************************************************)
EXTENDS Catalog, TLAPS

(* What the record-valued helpers return.                                  *)
LEMMA RowType ==
  ASSUME NEW v \in 0..MaxVersion, NEW r \in Display
  PROVE  RowOf(v, r) \in Row
BY CatalogAssumption DEF CatalogAssumption, RowOf, Row

LEMMA MergedType ==
  ASSUME NEW rows \in Rows, NEW entries \in SUBSET Session
  PROVE  Merged(rows, entries) \in Rows
<1>1. RowOf(0, None) \in Row
  BY CatalogAssumption DEF CatalogAssumption, RowOf, Row
<1> QED BY <1>1 DEF Merged, Rows

LEMMA NothingType == Nothing \in Rows
BY DEF Nothing, Rows

(* The list request keeps its type whether it begins, waits or ends.       *)
LEMMA FetchTypes ==
  ASSUME TypeOK, Refresh \/ (\E behind \in SUBSET {"missed"} : FetchEnds(behind))
  PROVE  /\ fetch' \in [stage : {"idle", "asked", "answered", "failed"}, rows : Rows]
         /\ again' \in BOOLEAN /\ excuses' \subseteq {"missed", "restart"}
<1>1. Asked \in [stage : {"idle", "asked", "answered", "failed"}, rows : Rows]
  BY NothingType DEF Asked
<1>2. NoFetch \in [stage : {"idle", "asked", "answered", "failed"}, rows : Rows]
  BY NothingType DEF NoFetch
<1>3. CASE Refresh
  BY <1>1, <1>3 DEF TypeOK, Refresh
<1>4. ASSUME NEW behind \in SUBSET {"missed"}, FetchEnds(behind)
      PROVE  /\ fetch' \in [stage : {"idle", "asked", "answered", "failed"}, rows : Rows]
             /\ again' \in BOOLEAN /\ excuses' \subseteq {"missed", "restart"}
  BY <1>1, <1>2, <1>4 DEF TypeOK, FetchEnds
<1> QED BY <1>3, <1>4

LEMMA SpendTypes ==
  ASSUME TypeOK, NEW what \in {"acts", "outside", "troubles"}, Spend(what)
  PROVE  budget' \in [acts : 0..Acts, outside : 0..Outside, troubles : 0..Troubles]
BY CatalogAssumption DEF CatalogAssumption, TypeOK, Spend

LEMMA SeenTypes ==
  ASSUME TypeOK, NEW s \in Session, Seen(s)
  PROVE  watched' \subseteq Session /\ excuses' \subseteq {"missed", "restart"}
BY DEF TypeOK, Seen

LEMMA SettingsChangedTypes ==
  ASSUME TypeOK, SettingsChanged
  PROVE  /\ index' \in [Session -> Entry \cup {None}]
         /\ wire' \subseteq ({"files", "settings"} \X {None}) \cup ({"attached"} \X Session)
         /\ excuses' \subseteq {"missed", "restart"}
BY DEF TypeOK, SettingsChanged, Nothing

(* A listing makes an entry of every file, and rows of the entries.        *)
LEMMA ListingType ==
  ASSUME TypeOK, NEW raced \in SUBSET Session, Answer(raced)
  PROVE  /\ index' \in [Session -> Entry \cup {None}]
         /\ fetch' \in [stage : {"idle", "asked", "answered", "failed"}, rows : Rows]
         /\ file' \in [Session -> Absent..MaxVersion]
<1> DEFINE read == [s \in Session |-> IF s \in raced THEN file[s] + 1 ELSE file[s]]
<1> DEFINE entries == Listing(read)
<1>1. read \in [Session -> Absent..MaxVersion]
  BY CatalogAssumption DEF CatalogAssumption, Answer, TypeOK, Absent
<1>2. index' = entries /\ file' = read /\ fetch' = [stage |-> "answered", rows |-> RowsOf(entries)]
  BY DEF Answer
<1>3. ASSUME NEW s \in Session PROVE entries[s] \in Entry \cup {None}
  <2>1. CASE file[s] = Absent
    BY <2>1 DEF Listing
  <2>2. CASE file[s] # Absent /\ Cached(s)
    BY <2>2 DEF Listing, TypeOK
  <2>3. CASE file[s] # Absent /\ ~Cached(s)
    <3>1. file[s] \in 0..MaxVersion /\ read[s] \in 0..MaxVersion
      BY <2>3, <1>1, CatalogAssumption DEF CatalogAssumption, Answer, TypeOK, Absent
    <3>2. RowOf(read[s], rule) \in Row
      BY <3>1, RowType DEF TypeOK
    <3>3. entries[s] = [stamp |-> file[s], row |-> RowOf(read[s], rule)]
      BY <2>3 DEF Listing
    <3> QED BY <3>1, <3>2, <3>3 DEF Entry
  <2> QED BY <2>1, <2>2, <2>3
<1>4. entries \in [Session -> Entry \cup {None}]
  BY <1>3 DEF Listing
<1>5. RowsOf(entries) \in Rows
  BY <1>4 DEF RowsOf, Rows, Entry
<1> QED BY <1>1, <1>2, <1>4, <1>5

-----------------------------------------------------------------------------
(* Steps of the server, of the settings and of the watchers keep the types. *)
LEMMA ServerTypes ==
  ASSUME TypeOK, Server
  PROVE  TypeOK'
<1>1. ASSUME NEW s \in Session, Written(s) PROVE TypeOK'
  <2>1. file' \in [Session -> Absent..MaxVersion]
    BY <1>1, CatalogAssumption DEF CatalogAssumption, Written, TypeOK, Absent
  <2> QED BY <1>1, <2>1, SeenTypes DEF Written, TypeOK, settings, net, page
<1>2. ASSUME NEW s \in Session, RemovedElsewhere(s) PROVE TypeOK'
  <2>1. file' \in [Session -> Absent..MaxVersion]
    BY <1>2, CatalogAssumption DEF CatalogAssumption, RemovedElsewhere, TypeOK, Absent
  <2> QED BY <1>2, <2>1, SeenTypes, SpendTypes DEF RemovedElsewhere, TypeOK, settings, net, page
<1>3. ASSUME NEW s \in Session, Notify(s) PROVE TypeOK'
  <2>1. <<"files", None>> \in ({"files", "settings"} \X {None}) \cup ({"attached"} \X Session)
    OBVIOUS
  <2>2. /\ wire' \subseteq ({"files", "settings"} \X {None}) \cup ({"attached"} \X Session)
        /\ excuses' \subseteq {"missed", "restart"}
    <3>1. Told("files")
      BY <1>3 DEF Notify
    <3>2. CASE online
      <4>1. wire' = wire \cup {<<"files", None>>} /\ UNCHANGED excuses
        BY <3>1, <3>2 DEF Told
      <4> DEFINE Wire == ({"files", "settings"} \X {None}) \cup ({"attached"} \X Session)
      <4>2. <<"files", None>> \in Wire /\ wire \subseteq Wire
        BY <2>1 DEF TypeOK
      <4> HIDE DEF Wire
      <4>3. wire' \subseteq Wire
        BY <4>1, <4>2
      <4> QED BY <4>1, <4>3 DEF Wire, TypeOK
    <3>3. CASE ~online
      BY <3>1, <3>3 DEF Told, TypeOK
    <3> QED BY <3>2, <3>3
  <2> QED BY <1>3, <2>2 DEF Notify, TypeOK, settings, page
<1>4. ASSUME NEW s \in Session, Unlink(s) PROVE TypeOK'
  <2>1. file' \in [Session -> Absent..MaxVersion]
    BY <1>4, CatalogAssumption DEF CatalogAssumption, Unlink, TypeOK, Absent
  <2>2. watched' \subseteq Session /\ excuses' \subseteq {"missed", "restart"}
    BY <1>4, SeenTypes DEF Unlink, TypeOK
  <2> QED BY <1>4, <2>1, <2>2 DEF Unlink, TypeOK, settings, net
<1>5. ASSUME NEW s \in Session, DeleteRefused(s) PROVE TypeOK'
  BY <1>5, SpendTypes DEF DeleteRefused, TypeOK, files, settings, net
<1>6. ASSUME NEW c \in Display \cup {Bad}, Edit(c) PROVE TypeOK'
  BY <1>6, SpendTypes DEF Edit, TypeOK, files, net, page
<1>7. CASE Reload
  <2>1. CASE written \in Display \ {rule}
    BY <1>7, <2>1, SettingsChangedTypes DEF Reload, TypeOK, files, page
  <2>2. CASE written \notin Display \ {rule}
    BY <1>7, <2>2 DEF Reload, TypeOK, files, page
  <2> QED BY <2>1, <2>2
<1>8. CASE Patch
  BY <1>8, SettingsChangedTypes, SpendTypes DEF Patch, TypeOK, files, page
<1>9. CASE Stop
  BY <1>9, SpendTypes DEF Stop, TypeOK, settings, page
<1>10. CASE Restart
  BY <1>10, CatalogAssumption DEF CatalogAssumption, Restart, TypeOK, page
<1>11. ASSUME NEW d \in Display, Save(d) PROVE TypeOK'
  BY <1>11, SettingsChangedTypes, SpendTypes DEF Save, TypeOK, files
<1>12. ASSUME NEW raced \in SUBSET Session, Answer(raced) PROVE TypeOK'
  <2>1. watched' \subseteq Session /\ excuses' \subseteq {"missed", "restart"}
    BY <1>12, SeenTypes DEF Answer, TypeOK
  <2> QED BY <1>12, <2>1, ListingType DEF Answer, TypeOK, settings, net
<1> QED
  BY <1>1, <1>2, <1>3, <1>4, <1>5, <1>6, <1>7, <1>8, <1>9, <1>10, <1>11, <1>12 DEF Server

(* And so do the steps of the page and of the connection.                  *)
LEMMA BrowserTypes ==
  ASSUME TypeOK, Browser
  PROVE  TypeOK'
<1>1. CASE Unanswered
  BY <1>1, SpendTypes, NothingType DEF Unanswered, TypeOK, files, settings, net
<1>2. CASE Listed
  <2>1. list' \in Rows /\ optimistic' \subseteq Session
    BY <1>2, MergedType DEF Listed, TypeOK
  <2>2. FetchEnds({})
    BY <1>2 DEF Listed
  <2> QED BY <1>2, <2>1, <2>2, FetchTypes DEF Listed, TypeOK, files, settings, net
<1>3. CASE NotListed
  <2>1. FetchEnds({"missed"})
    BY <1>3 DEF NotListed
  <2> QED BY <1>3, <2>1, FetchTypes, NothingType DEF NotListed, TypeOK, files, settings, net
<1>4. CASE DueFires
  BY <1>4, FetchTypes DEF DueFires, TypeOK, files, settings, net
<1>5. CASE Saved
  BY <1>5, FetchTypes DEF Saved, TypeOK, files, settings, net
<1>6. CASE Drop
  BY <1>6, SpendTypes DEF Drop, Lose, TypeOK, files, settings, page
<1>7. CASE Reconnect
  BY <1>7 DEF Reconnect, TypeOK, files, settings, page
<1>8. ASSUME NEW m \in {"files", "settings"}, ReceiveChanged(m) PROVE TypeOK'
  BY <1>8, MergedType DEF ReceiveChanged, TypeOK, files, settings
<1>9. ASSUME NEW s \in Session, Start(s) PROVE TypeOK'
  BY <1>9, SpendTypes DEF Start, TypeOK, settings, page
<1>10. ASSUME NEW s \in Session, Open(s) PROVE TypeOK'
  <2>1. optimistic' \subseteq Session /\ due' \in BOOLEAN
    BY <1>10 DEF Open, TypeOK
  <2>2. list' \in Rows
    BY <1>10, <2>1, MergedType DEF Open, TypeOK
  <2> QED BY <1>10, <2>1, <2>2, FetchTypes, SpendTypes DEF Open, TypeOK, files, settings, net
<1>11. ASSUME NEW s \in Session, Deleted(s) PROVE TypeOK'
  BY <1>11 DEF Deleted, TypeOK, files, settings, net
<1>12. ASSUME NEW s \in Session, NotDeleted(s) PROVE TypeOK'
  BY <1>12, FetchTypes DEF NotDeleted, TypeOK, files, settings, net
<1>13. ASSUME NEW s \in Session, NEW b \in BOOLEAN, ReceiveAttached(s, b) PROVE TypeOK'
  <2>1. optimistic' \in SUBSET Session
    BY <1>13 DEF ReceiveAttached, TypeOK
  <2>2. list' \in Rows
    BY <1>13, <2>1, MergedType DEF ReceiveAttached, TypeOK
  <2>3. /\ fetch' \in [stage : {"idle", "asked", "answered", "failed"}, rows : Rows]
        /\ again' \in BOOLEAN /\ excuses' \subseteq {"missed", "restart"}
    BY <1>13, FetchTypes DEF ReceiveAttached, TypeOK
  <2> QED BY <1>13, <2>1, <2>2, <2>3 DEF ReceiveAttached, TypeOK, files, settings
<1>14. ASSUME NEW s \in Session, NEW b \in BOOLEAN, Delete(s, b) PROVE TypeOK'
  <2> DEFINE rest == [list EXCEPT ![s] = None]
  <2>1. rest \in Rows
    BY DEF TypeOK, Rows
  <2>2. list' \in Rows
    BY <1>14, <2>1, MergedType DEF Delete, TypeOK
  <2>3. /\ fetch' \in [stage : {"idle", "asked", "answered", "failed"}, rows : Rows]
        /\ again' \in BOOLEAN /\ excuses' \subseteq {"missed", "restart"}
    BY <1>14, FetchTypes DEF Delete, TypeOK
  <2> QED BY <1>14, <2>2, <2>3, SpendTypes DEF Delete, TypeOK, files, settings, net
<1> QED
  BY <1>1, <1>2, <1>3, <1>4, <1>5, <1>6, <1>7, <1>8, <1>9, <1>10, <1>11, <1>12, <1>13, <1>14
  DEF Browser

(* Every variable keeps its type for any sessions, rules and bounds.       *)
THEOREM TypeCorrect == Spec => []TypeOK
<1>1. Init => TypeOK
  <2> SUFFICES ASSUME Init PROVE TypeOK
    OBVIOUS
  <2>1. \A s \in Session : Due(s) \in Row \cup {None} /\ (s \in Existing => Due(s) \in Row)
    <3> TAKE s \in Session
    <3>1. file[s] = (IF s \in Existing THEN 1 ELSE Absent) /\ rule \in Display
      BY CatalogAssumption DEF CatalogAssumption, Init
    <3>2. RowOf(1, rule) \in Row
      BY <3>1, RowType, CatalogAssumption DEF CatalogAssumption
    <3> QED BY <3>1, <3>2 DEF Due, Absent
  <2>2. list \in Rows
    BY <2>1 DEF Init, Rows
  <2>3. index \in [Session -> Entry \cup {None}]
    BY <2>1, CatalogAssumption DEF CatalogAssumption, Init, Entry
  <2>4. fetch \in [stage : {"idle", "asked", "answered", "failed"}, rows : Rows]
    BY NothingType DEF Init, NoFetch
  <2>5. budget \in [acts : 0..Acts, outside : 0..Outside, troubles : 0..Troubles]
    BY CatalogAssumption DEF CatalogAssumption, Init
  <2>6. file \in [Session -> Absent..MaxVersion] /\ life \in [Session -> {"unused", "started", "written"}]
    BY CatalogAssumption DEF CatalogAssumption, Init, Absent
  <2> QED BY <2>2, <2>3, <2>4, <2>5, <2>6, CatalogAssumption DEF CatalogAssumption, Init, TypeOK
<1>2. TypeOK /\ [Next]_vars => TypeOK'
  <2>1. TypeOK /\ UNCHANGED vars => TypeOK'
    BY DEF TypeOK, vars, files, settings, net, page
  <2> QED BY <2>1, ServerTypes, BrowserTypes DEF Next
<1> QED BY <1>1, <1>2, PTL DEF Spec

-----------------------------------------------------------------------------
(* IndexIsTrue is not inductive: an append makes an entry unusable, and    *)
(* must not make an older one usable.  So: an entry is never newer than    *)
(* its row, which is never newer than the file, and a file that is gone     *)
(* was written once, and so never begins again under the same name.        *)
IndexBook ==
  \A s \in Session :
    /\ file[s] # Absent \/ index[s] # None => life[s] = "written"
    /\ index[s] # None /\ file[s] # Absent =>
         index[s].stamp <= index[s].row.version /\ index[s].row.version <= file[s]

IndexInv == TypeOK /\ IndexBook

(* What grows a file, ends it, or leaves it alone keeps the entries.       *)
LEMMA FilesKeepBook ==
  ASSUME IndexInv, UNCHANGED index,
         \A s \in Session :
           /\ \/ UNCHANGED <<file[s], life[s]>>
              \/ life'[s] = "written" /\ file[s] # Absent /\ file'[s] = file[s] + 1
              \/ life[s] = "started" /\ life'[s] = "written"
              \/ life'[s] = life[s] /\ file'[s] = Absent
              \/ life[s] = "unused" /\ file'[s] = file[s]
  PROVE  IndexBook'
<1> SUFFICES ASSUME NEW s \in Session
             PROVE  /\ file'[s] # Absent \/ index'[s] # None => life'[s] = "written"
                    /\ index'[s] # None /\ file'[s] # Absent =>
                         index'[s].stamp <= index'[s].row.version /\ index'[s].row.version <= file'[s]
  BY DEF IndexBook
<1>1. index[s] # None => index[s].row.version \in Nat /\ index[s].stamp \in Nat
  BY CatalogAssumption DEF CatalogAssumption, IndexInv, TypeOK, Entry, Row
<1>2. file[s] \in Int
  BY CatalogAssumption DEF CatalogAssumption, IndexInv, TypeOK, Absent
<1> QED BY <1>1, <1>2 DEF IndexInv, IndexBook, Absent

(* An entry that a listing makes has the stamp of before its read.         *)
LEMMA AnswerKeepsBook ==
  ASSUME IndexInv, NEW raced \in SUBSET Session, Answer(raced)
  PROVE  IndexBook'
<1> SUFFICES ASSUME NEW s \in Session
             PROVE  /\ file'[s] # Absent \/ index'[s] # None => life'[s] = "written"
                    /\ index'[s] # None /\ file'[s] # Absent =>
                         index'[s].stamp <= index'[s].row.version /\ index'[s].row.version <= file'[s]
  BY DEF IndexBook
<1> DEFINE read == [t \in Session |-> IF t \in raced THEN file[t] + 1 ELSE file[t]]
<1>1. index' = Listing(read) /\ file' = read /\ life' = life
  BY DEF Answer
<1>2. file[s] \in Int
  BY CatalogAssumption DEF CatalogAssumption, IndexInv, TypeOK, Absent
<1>3. CASE file[s] = Absent
  <2>1. s \notin raced
    BY <1>3, CatalogAssumption DEF CatalogAssumption, Answer, Absent
  <2> QED BY <1>1, <1>3, <2>1 DEF Listing
<1>4. CASE file[s] # Absent /\ Cached(s)
  <2>1. s \notin raced
    BY <1>4 DEF Answer
  <2>2. index'[s] = index[s] /\ file'[s] = file[s]
    BY <1>1, <1>4, <2>1 DEF Listing
  <2> QED BY <1>1, <1>4, <2>2 DEF IndexInv, IndexBook
<1>5. CASE file[s] # Absent /\ ~Cached(s)
  <2>1. index'[s] = [stamp |-> file[s], row |-> RowOf(read[s], rule)]
    BY <1>1, <1>5 DEF Listing
  <2>2. index'[s].stamp = file[s] /\ index'[s].row.version = read[s] /\ file'[s] = read[s]
    BY <1>1, <2>1 DEF RowOf
  <2>3. read[s] \in Int /\ file[s] <= read[s]
    BY <1>2
  <2> QED BY <1>1, <1>2, <1>5, <2>2, <2>3 DEF IndexInv, IndexBook
<1> QED BY <1>3, <1>4, <1>5

(* A change of the settings empties the index.                             *)
LEMMA ForgettingKeepsBook ==
  ASSUME IndexInv, UNCHANGED <<file, life>>, SettingsChanged
  PROVE  IndexBook'
BY DEF IndexInv, IndexBook, SettingsChanged, Nothing

LEMMA StepKeepsBook ==
  ASSUME IndexInv, Next
  PROVE  IndexBook'
<1>1. ASSUME UNCHANGED <<file, life, index>> PROVE IndexBook'
  BY <1>1 DEF IndexInv, IndexBook
<1>2. ASSUME NEW s \in Session, Written(s) PROVE IndexBook'
  <2>1. \A t \in Session \ {s} : UNCHANGED <<file[t], life[t]>>
    BY <1>2 DEF Written, IndexInv, TypeOK
  <2>2. \/ life'[s] = "written" /\ file[s] # Absent /\ file'[s] = file[s] + 1
        \/ life[s] = "started" /\ life'[s] = "written"
    BY <1>2 DEF Written, IndexInv, TypeOK
  <2> QED BY <1>2, <2>1, <2>2, FilesKeepBook DEF Written
<1>3. ASSUME NEW s \in Session, RemovedElsewhere(s) \/ Unlink(s) PROVE IndexBook'
  <2>1. \A t \in Session \ {s} : UNCHANGED <<file[t], life[t]>>
    BY <1>3 DEF RemovedElsewhere, Unlink, IndexInv, TypeOK
  <2>2. life'[s] = life[s] /\ file'[s] = Absent
    BY <1>3 DEF RemovedElsewhere, Unlink, IndexInv, TypeOK
  <2>3. UNCHANGED index
    BY <1>3 DEF RemovedElsewhere, Unlink
  <2> QED BY <2>1, <2>2, <2>3, FilesKeepBook
<1>4. ASSUME NEW s \in Session, Start(s) PROVE IndexBook'
  <2>1. \A t \in Session \ {s} : UNCHANGED <<file[t], life[t]>>
    BY <1>4 DEF Start, IndexInv, TypeOK
  <2>2. life[s] = "unused" /\ file'[s] = file[s] /\ UNCHANGED index
    BY <1>4 DEF Start
  <2>3. file[s] = Absent /\ index[s] = None
    BY <2>2 DEF IndexInv, IndexBook
  <2> QED BY <2>1, <2>2, <2>3 DEF IndexInv, IndexBook
<1>5. CASE Reload
  <2>1. CASE written \in Display \ {rule}
    BY <1>5, <2>1, ForgettingKeepsBook DEF Reload, files
  <2>2. CASE written \notin Display \ {rule}
    BY <1>1, <1>5, <2>2 DEF Reload, files
  <2> QED BY <2>1, <2>2
<1>6. ASSUME NEW d \in Display, Save(d) PROVE IndexBook'
  BY <1>6, ForgettingKeepsBook DEF Save, files
<1>7. CASE Patch
  BY <1>7, ForgettingKeepsBook DEF Patch, files
<1>8. CASE Server
  <2>1. ASSUME NEW s \in Session, Notify(s) \/ DeleteRefused(s) PROVE UNCHANGED <<file, life, index>>
    BY <2>1 DEF Notify, DeleteRefused, files
  <2>2. ASSUME NEW c \in Display \cup {Bad}, Edit(c) PROVE UNCHANGED <<file, life, index>>
    BY <2>2 DEF Edit, files
  <2>3. Stop \/ Restart => UNCHANGED <<file, life, index>>
    BY DEF Stop, Restart
  <2> QED
    BY <1>1, <1>2, <1>3, <1>5, <1>6, <1>7, <1>8, <2>1, <2>2, <2>3, AnswerKeepsBook DEF Server
<1>9. CASE Browser
  <2>1. Unanswered \/ Listed \/ NotListed \/ DueFires \/ Saved \/ Drop \/ Reconnect
          => UNCHANGED <<file, life, index>>
    BY DEF Unanswered, Listed, NotListed, DueFires, Saved, Drop, Reconnect, files
  <2>2. ASSUME NEW m \in {"files", "settings"}, ReceiveChanged(m) PROVE UNCHANGED <<file, life, index>>
    BY <2>2 DEF ReceiveChanged, files
  <2>3. ASSUME NEW s \in Session, Open(s) \/ Deleted(s) \/ NotDeleted(s)
        PROVE  UNCHANGED <<file, life, index>>
    BY <2>3 DEF Open, Deleted, NotDeleted, files
  <2>4. ASSUME NEW s \in Session, NEW b \in BOOLEAN, ReceiveAttached(s, b) \/ Delete(s, b)
        PROVE  UNCHANGED <<file, life, index>>
    BY <2>4 DEF ReceiveAttached, Delete, files
  <2> QED BY <1>1, <1>4, <1>9, <2>1, <2>2, <2>3, <2>4 DEF Browser
<1> QED BY <1>8, <1>9 DEF Next

(* Whatever pi appends, whoever deletes, and however settings and restarts *)
(* fall in between, a listing never takes from the index a row that the    *)
(* file has outgrown (SessionIndex.listSessions).                          *)
THEOREM IndexStaysTrue == Spec => []IndexIsTrue
<1>1. Init => IndexBook
  <2> SUFFICES ASSUME Init, NEW s \in Session
               PROVE  /\ file[s] # Absent \/ index[s] # None => life[s] = "written"
                      /\ index[s] # None /\ file[s] # Absent =>
                           index[s].stamp <= index[s].row.version /\ index[s].row.version <= file[s]
    BY DEF IndexBook
  <2>1. CASE s \in Existing
    BY <2>1 DEF Init, Due, RowOf, Absent
  <2>2. CASE s \notin Existing
    BY <2>2 DEF Init
  <2> QED BY <2>1, <2>2
<1>2. TypeOK /\ IndexBook /\ [Next]_vars => IndexBook'
  <2>1. IndexBook /\ UNCHANGED vars => IndexBook'
    BY DEF IndexBook, vars, files
  <2> QED BY <2>1, StepKeepsBook DEF IndexInv
<1>3. TypeOK /\ IndexBook => IndexIsTrue
  <2> SUFFICES ASSUME TypeOK, IndexBook, NEW s \in Session, Cached(s)
               PROVE  index[s].row.version = file[s]
    BY DEF IndexIsTrue
  <2>1. index[s] \in Entry /\ index[s] # None /\ file[s] # Absent /\ index[s].stamp = file[s]
    BY DEF Cached, TypeOK
  <2>2. index[s].row.version \in Int /\ file[s] \in Int
    BY <2>1, CatalogAssumption DEF CatalogAssumption, TypeOK, Entry, Row, Absent
  <2> QED BY <2>1, <2>2 DEF IndexBook
<1> QED BY <1>1, <1>2, <1>3, TypeCorrect, PTL DEF Spec
=============================================================================
