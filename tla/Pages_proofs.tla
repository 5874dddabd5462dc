---------------------------- MODULE Pages_proofs ----------------------------
(***************************************************************************)
(* The lists of the pages, for any items, changes, failing requests and     *)
(* visits.  What a page shows may be older than the server; the proofs say  *)
(* by how much: by a change the user made or was told of, only as long as   *)
(* an answer that knows of the change is on its way, or the page shows an   *)
(* error, or nothing.  JobsPage comes first, then LibraryPages.             *)
(***************************************************************************)
EXTENDS MCJobsPage, MCLibraryPages, TLAPS

-----------------------------------------------------------------------------
(* The query of a list, whatever the data D a list may be.                  *)
Fetches(D) == [at : {"idle", "asked", "read"}, got : D \union {NoData}]
Queries(D) == [data : D \union {NoData}, failed : BOOLEAN, stale : BOOLEAN, fetch : Fetches(D)]

(* What an invalidation leaves: the mark, and the next fetch if the list is *)
(* in use.                                                                  *)
LEMMA AsksIs ==
  ASSUME NEW D, NEW q \in Queries(D)
  PROVE  /\ Q!Asks(q) \in Queries(D)
         /\ Q!Asks(q).data = q.data
         /\ Q!Asks(q).fetch.at = IF q.fetch.at = "idle" THEN "asked" ELSE q.fetch.at
         /\ Q!Asks(q).fetch.got = q.fetch.got
         /\ q.data # NoData => Q!Asks(q).failed = q.failed
<1>1. CASE Q!Idle(q)
  <2>1. Q!Asks(q) = [q EXCEPT !.fetch.at = "asked", !.failed = q.failed /\ q.data # NoData]
    BY <1>1 DEF Q!Asks
  <2>2. (q.failed /\ q.data # NoData) \in BOOLEAN
    OBVIOUS
  <2>3. q.data # NoData => (q.failed /\ q.data # NoData) = q.failed
    BY DEF Queries
  <2> DEFINE flag == q.failed /\ q.data # NoData
             r == [data |-> q.data, failed |-> flag, stale |-> q.stale,
                   fetch |-> [at |-> "asked", got |-> q.fetch.got]]
  <2>4. q.fetch \in Fetches(D) /\ q.data \in D \union {NoData} /\ q.stale \in BOOLEAN
    BY DEF Queries
  <2>5. [q.fetch EXCEPT !.at = "asked"] = [at |-> "asked", got |-> q.fetch.got]
    BY <2>4 DEF Fetches
  <2>6. Q!Asks(q) = r
    BY <2>1, <2>5 DEF Queries
  <2>7. r.fetch \in Fetches(D)
    BY <2>4 DEF Fetches
  <2>8. r \in Queries(D)
    BY <2>2, <2>4, <2>7 DEF Queries
  <2> QED
    BY <1>1, <2>3, <2>6, <2>8 DEF Q!Idle
<1>2. CASE ~Q!Idle(q)
  BY <1>2 DEF Q!Asks, Q!Idle, Queries, Fetches
<1> QED
  BY <1>1, <1>2

LEMMA InvalidatedIs ==
  ASSUME NEW D, NEW q \in Queries(D), NEW used \in BOOLEAN
  PROVE  /\ Q!Invalidated(q, used) \in Queries(D)
         /\ Q!Invalidated(q, used).data = q.data
         /\ ~used => /\ Q!Invalidated(q, used).stale
                     /\ Q!Invalidated(q, used).fetch = q.fetch
         /\ used /\ q.data # NoData => Q!Invalidated(q, used).fetch.at = "asked"
         /\ Q!Invalidated(q, used).fetch.at = "read" =>
              Q!Invalidated(q, used).fetch.got = q.fetch.got /\ q.fetch.at = "read"
<1> DEFINE marked == [q EXCEPT !.stale = TRUE]
           anew   == [marked EXCEPT !.fetch = Q!NoFetch]
<1>1. /\ marked \in Queries(D) /\ marked.stale = TRUE /\ marked.data = q.data
      /\ marked.fetch = q.fetch
  BY DEF Queries
<1>2. /\ anew \in Queries(D) /\ anew.data = q.data /\ anew.fetch.at = "idle"
  BY DEF Queries, Fetches, Q!NoFetch
<1>3. Q!Invalidated(q, used) = IF ~used THEN marked
                               ELSE IF q.data = NoData THEN Q!Asks(marked) ELSE Q!Asks(anew)
  BY DEF Q!Invalidated
<1> HIDE DEF marked, anew
<1>4. CASE ~used
  BY <1>1, <1>3, <1>4
<1>5. CASE used /\ q.data = NoData
  <2>1. Q!Invalidated(q, used) = Q!Asks(marked)
    BY <1>3, <1>5
  <2>2. /\ Q!Asks(marked) \in Queries(D) /\ Q!Asks(marked).data = marked.data
        /\ Q!Asks(marked).fetch.at = IF marked.fetch.at = "idle" THEN "asked" ELSE marked.fetch.at
        /\ Q!Asks(marked).fetch.got = marked.fetch.got
    BY <1>1, AsksIs
  <2> QED
    BY <1>1, <1>5, <2>1, <2>2
<1>6. CASE used /\ q.data # NoData
  <2>1. Q!Invalidated(q, used) = Q!Asks(anew)
    BY <1>3, <1>6
  <2>2. /\ Q!Asks(anew) \in Queries(D) /\ Q!Asks(anew).data = anew.data
        /\ Q!Asks(anew).fetch.at = IF anew.fetch.at = "idle" THEN "asked" ELSE anew.fetch.at
        /\ Q!Asks(anew).fetch.got = anew.fetch.got
    BY <1>2, AsksIs
  <2> QED
    BY <1>2, <1>6, <2>1, <2>2
<1> QED
  BY <1>4, <1>5, <1>6

(* What each step makes of a list.                                          *)
ListOK(D, q) == q \in Queries(D) /\ (q.fetch.at = "read" => q.fetch.got \in D)

LEMMA FreshIs ==
  ASSUME NEW D
  PROVE  /\ Q!Fresh \in Queries(D) /\ Q!Fresh.fetch.at = "idle" /\ ~Q!Fresh.stale
BY DEF Q!Fresh, Q!NoFetch, Queries, Fetches

LEMMA AsksIsOK == ASSUME NEW D, NEW q, ListOK(D, q) PROVE ListOK(D, Q!Asks(q))
<1>1. q \in Queries(D) /\ Q!Asks(q) \in Queries(D) /\ Q!Asks(q).fetch.got = q.fetch.got
  BY AsksIs DEF ListOK
<1>2. Q!Asks(q).fetch.at = IF q.fetch.at = "idle" THEN "asked" ELSE q.fetch.at
  BY AsksIs DEF ListOK
<1> QED
  BY <1>1, <1>2 DEF ListOK

LEMMA InvalidatedIsOK ==
  ASSUME NEW D, NEW q, ListOK(D, q), NEW used \in BOOLEAN PROVE ListOK(D, Q!Invalidated(q, used))
<1>1. q \in Queries(D) /\ Q!Invalidated(q, used) \in Queries(D)
  BY InvalidatedIs DEF ListOK
<1>2. Q!Invalidated(q, used).fetch.at = "read" =>
        Q!Invalidated(q, used).fetch.got = q.fetch.got /\ q.fetch.at = "read"
  BY <1>1, InvalidatedIs
<1> QED
  BY <1>1, <1>2 DEF ListOK

LEMMA ReadsIs ==
  ASSUME NEW D, NEW q, ListOK(D, q), NEW d \in D
  PROVE  /\ ListOK(D, Q!Reads(q, d)) /\ Q!Reads(q, d).data = q.data
         /\ Q!Reads(q, d).fetch.at = "read" /\ Q!Reads(q, d).fetch.got = d
BY DEF ListOK, Q!Reads, Queries, Fetches

LEMMA ArrivesIs ==
  ASSUME NEW D, NEW q, ListOK(D, q), q.fetch.at = "read"
  PROVE  /\ ListOK(D, Q!Arrives(q)) /\ Q!Arrives(q).data = q.fetch.got
         /\ Q!Arrives(q).fetch.at = "idle"
BY DEF ListOK, Q!Arrives, Q!Fresh, Q!NoFetch, Queries, Fetches

LEMMA FailsIs ==
  ASSUME NEW D, NEW q, ListOK(D, q)
  PROVE  /\ ListOK(D, Q!Fails(q)) /\ Q!Fails(q).data = q.data
         /\ Q!Fails(q).fetch.at = "idle" /\ Q!Fails(q).failed
BY DEF ListOK, Q!Fails, Q!NoFetch, Queries, Fetches

LEMMA DroppedIs ==
  ASSUME NEW D, NEW q, ListOK(D, q)
  PROVE  /\ ListOK(D, Q!Dropped(q)) /\ Q!Dropped(q).data = q.data
         /\ Q!Dropped(q).fetch.at = "idle"
BY DEF ListOK, Q!Dropped, Q!NoFetch, Queries, Fetches

-----------------------------------------------------------------------------
(* JobsPage.                                                                *)
Data == [Jobs -> DB!Status]

TypeOK ==
  /\ status \in Data
  /\ list \in Queries(Data)
  /\ list.fetch.at = "read" => list.fetch.got \in Data
  /\ here \in BOOLEAN
  /\ owed \subseteq {"list", "answer"}

LEMMA TypeIs ==
  TypeOK <=> /\ status \in Data /\ ListOK(Data, list) /\ here \in BOOLEAN
             /\ owed \subseteq {"list", "answer"}
BY DEF TypeOK, ListOK

LEMMA MoveIsTyped ==
  ASSUME status \in Data, NEW j, NEW from, NEW to \in DB!Status, DB!Move(j, from, to)
  PROVE  status' \in Data
BY DEF DB!Move, Data

LEMMA StatusStep == ASSUME TypeOK, [Next]_vars PROVE status' \in Data
<1> USE DEF DB!Status, DB!RowStatus, DB!TerminalStatus, DB!FinishedStatus, DB!InFlightStatus
<1>1. ASSUME NEW j \in Jobs, Proceeds(j) PROVE status' \in Data
  BY <1>1, MoveIsTyped DEF Proceeds, DB!Claimed, DB!Requeued, DB!Worked, DB!Overwritten, TypeOK
<1>2. ASSUME NEW m, NEW j \in Jobs, Applies(m, j) PROVE status' \in Data
  BY <1>2, MoveIsTyped DEF Applies, DB!Cancelled, DB!Deleted, DB!Submitted, TypeOK
<1>3. ASSUME NEW m \in pending, Succeeds(m) \/ Breaks(m) PROVE status' \in Data
  BY <1>2, <1>3 DEF Succeeds, Breaks, server, TypeOK
<1>4. ASSUME status' = status PROVE status' \in Data
  BY <1>4 DEF TypeOK
<1> QED
  BY <1>1, <1>3, <1>4
  DEF Next, Select, PollList, ListIsRead, ListArrives, ListFails, AskAgain, PollDetail,
      DetailArrives, DetailFails, ClosePanel, OpenDialog, Dismiss, Confirm, Refused, Leave,
      Enter, vars, server

LEMMA TypeStep == ASSUME TypeOK, [Next]_vars PROVE TypeOK'
<1>0. ListOK(Data, list) /\ status' \in Data /\ status \in Data
  BY TypeIs, StatusStep
<1>1. here' \in BOOLEAN /\ owed' \subseteq {"list", "answer"}
  BY DEF TypeOK, Next, Proceeds, Select, PollList, ListIsRead, ListArrives, ListFails, AskAgain,
         PollDetail, DetailArrives, DetailFails, ClosePanel, OpenDialog, Dismiss, Confirm,
         Succeeds, Refused, Breaks, Settled, Leave, Enter, vars
<1>2. ListOK(Data, list')
  <2>1. CASE ListIsRead
    BY <1>0, <2>1, ReadsIs DEF ListIsRead
  <2>2. CASE ListArrives
    BY <1>0, <2>2, ArrivesIs DEF ListArrives
  <2>3. CASE ListFails
    BY <1>0, <2>3, FailsIs DEF ListFails
  <2>4. ASSUME list' \in {list, Q!Asks(list)} PROVE ListOK(Data, list')
    BY <1>0, <2>4, AsksIsOK
  <2>5. ASSUME list' = Q!Invalidated(list, here) PROVE ListOK(Data, list')
    BY <1>0, <2>5, InvalidatedIsOK DEF TypeOK
  <2>6. ASSUME list' = Q!Dropped(list) PROVE ListOK(Data, list')
    BY <1>0, <2>6, DroppedIs
  <2> QED
    BY <2>1, <2>2, <2>3, <2>4, <2>5, <2>6
    DEF Next, Proceeds, Select, PollList, AskAgain, PollDetail, DetailArrives, DetailFails,
        ClosePanel, OpenDialog, Dismiss, Confirm, Succeeds, Refused, Breaks, Settled, Leave,
        Enter, vars
<1> QED
  BY <1>0, <1>1, <1>2 DEF TypeOK, ListOK

-----------------------------------------------------------------------------
(* The invariant: an answer that has been read was read after every change  *)
(* made since the list was first there; and so was the list, unless an      *)
(* answer or a mutation is under way, the list is an error, or it is marked *)
(* and will be fetched when the user comes back.                            *)
Awaited ==
  \/ list.failed \/ list.fetch.at \in {"asked", "read"}
  \/ list.stale /\ ~here
  \/ pending # {}

Coherent ==
  /\ "answer" \in owed => list.fetch.at # "read"
  /\ "list" \in owed => list.data # NoData /\ Awaited

(* A step that leaves the data and what was read of it.                     *)
LEMMA SameData ==
  ASSUME Coherent, owed' = owed, list'.data = list.data,
         list'.fetch.at = "read" => list.fetch.at = "read",
         "list" \in owed /\ list.data # NoData /\ Awaited => Awaited'
  PROVE  Coherent'
BY DEF Coherent

LEMMA AsksKeeps ==
  ASSUME TypeOK, Coherent, owed' = owed, list' = Q!Asks(list) PROVE Coherent'
<1>1. /\ list'.data = list.data
      /\ list'.fetch.at = IF list.fetch.at = "idle" THEN "asked" ELSE list.fetch.at
  BY AsksIs DEF TypeOK
<1>2. list'.fetch.at \in {"asked", "read"}
  BY <1>1 DEF TypeOK, Queries, Fetches
<1> QED
  BY <1>1, <1>2, SameData DEF Awaited

(* A mutation ends: in use, the list is fetched anew; else it is marked.    *)
LEMMA SettledKeeps ==
  ASSUME TypeOK, Coherent, NEW m, Settled(m),
         owed' = owed \/ (here /\ list.data # NoData)
  PROVE  Coherent'
<1>1. /\ list \in Queries(Data) /\ list' = Q!Invalidated(list, here) /\ here' = here
      /\ here \in BOOLEAN
  BY DEF Settled, TypeOK
<1>2. list'.data = list.data
  BY <1>1, InvalidatedIs
<1>3. CASE here /\ list.data # NoData
  <2>1. list'.fetch.at = "asked"
    BY <1>1, <1>3, InvalidatedIs
  <2> QED
    BY <1>2, <1>3, <2>1 DEF Coherent, Awaited
<1>4. CASE ~(here /\ list.data # NoData)
  <2>1. list'.fetch.at = "read" => list.fetch.at = "read"
    BY <1>1, InvalidatedIs
  <2>2. list.data # NoData => Awaited'
    BY <1>1, <1>4, InvalidatedIs DEF Awaited
  <2> QED
    BY <1>2, <1>4, <2>1, <2>2, SameData
<1> QED
  BY <1>3, <1>4

LEMMA CoherentStep == ASSUME TypeOK, Coherent, [Next]_vars PROVE Coherent'
<1>0. ListOK(Data, list) /\ list \in Queries(Data)
  BY TypeIs DEF TypeOK
<1>1. ASSUME NEW m \in pending, Succeeds(m) \/ Refused(m) \/ Breaks(m) PROVE Coherent'
  <2>1. Settled(m) /\ (owed' = owed \/ (here /\ list.data # NoData))
    BY <1>1 DEF Succeeds, Refused, Breaks
  <2> QED
    BY <2>1, SettledKeeps
<1>2. CASE ListIsRead
  <2>1. list'.data = list.data /\ list'.fetch.at = "read" /\ owed' = owed \ {"answer"}
    BY <1>0, <1>2, ReadsIs DEF ListIsRead, TypeOK
  <2> QED
    BY <2>1 DEF Coherent, Awaited
<1>3. CASE ListArrives
  <2>1. owed' = {}
    BY <1>3 DEF ListArrives, Coherent
  <2> QED
    BY <2>1 DEF Coherent
<1>4. CASE ListFails
  <2>1. list'.data = list.data /\ list'.fetch.at = "idle" /\ list'.failed /\ owed' = owed
    BY <1>0, <1>4, FailsIs DEF ListFails
  <2> QED
    BY <2>1, SameData DEF Awaited
<1>5. CASE PollList \/ AskAgain
  BY <1>5, AsksKeeps DEF PollList, AskAgain
<1>6. ASSUME owed' = owed, list' = list, Awaited => Awaited' PROVE Coherent'
  BY <1>6, SameData
<1>7. ASSUME NEW d \in Dialogs, Confirm(d) PROVE Coherent'
  <2>1. pending' # {} /\ owed' = owed /\ (list' = list \/ list' = Q!Dropped(list))
    BY <1>7 DEF Confirm
  <2>2. CASE list' = list
    BY <1>6, <2>1, <2>2 DEF Awaited
  <2>3. CASE list' = Q!Dropped(list)
    <3>1. list'.data = list.data /\ list'.fetch.at = "idle"
      BY <1>0, <2>3, DroppedIs
    <3> QED
      BY <2>1, <3>1, SameData DEF Awaited
  <2> QED
    BY <2>1, <2>2, <2>3
<1>8. CASE Leave
  <2>1. ~here' /\ (pending # {} => pending' # {}) /\ list' = list /\ owed' = owed
    BY <1>8 DEF Leave, Unheard
  <2> QED
    BY <1>6, <2>1 DEF Awaited
<1>9. CASE Enter
  <2>1. CASE list' = Q!Asks(list)
    BY <1>9, <2>1, AsksKeeps DEF Enter
  <2>2. CASE list' = list /\ ~list.stale
    BY <1>6, <1>9, <2>2 DEF Enter, Awaited
  <2> QED
    BY <1>9, <2>1, <2>2 DEF Enter
<1>10. ASSUME UNCHANGED <<owed, list, here, pending>> PROVE Coherent'
  BY <1>6, <1>10 DEF Awaited
<1> QED
  BY <1>1, <1>2, <1>3, <1>4, <1>5, <1>7, <1>8, <1>9, <1>10
  DEF Next, Proceeds, Select, PollDetail, DetailArrives, DetailFails, ClosePanel,
      OpenDialog, Dismiss, vars

(* A list at rest was read after every change the user made while it was on *)
(* the screen: no answer that was read before the change survives the       *)
(* invalidation that follows it, and no cancel that drops a fetch under way *)
(* is left without one that follows.                                        *)
THEOREM ChangesReachTheList == Spec => []ChangesAreListed
<1>1. Init => TypeOK /\ Coherent
  <2> SUFFICES ASSUME Init PROVE TypeOK /\ Coherent
    OBVIOUS
  <2>1. list = [Q!Fresh EXCEPT !.fetch.at = "asked"]
    BY DEF Init
  <2>2. list \in Queries(Data) /\ list.fetch.at = "asked"
    BY <2>1 DEF Q!Fresh, Q!NoFetch, Queries, Fetches
  <2> QED
    BY <2>2, JobsAssumption DEF Init, TypeOK, Coherent, Data, JobsAssumption
<1>2. TypeOK /\ Coherent /\ [Next]_vars => TypeOK' /\ Coherent'
  BY TypeStep, CoherentStep
<1>3. TypeOK /\ Coherent => ChangesAreListed
  BY DEF Coherent, Awaited, ChangesAreListed, AtRest, Mounted, Q!Idle
<1> QED
  BY <1>1, <1>2, <1>3, PTL DEF Spec

-----------------------------------------------------------------------------
(* LibraryPages.  An item is born once: while its upload is under way there *)
(* is none, once it has succeeded there was one, and a deleted one stays    *)
(* deleted.                                                                 *)
There    == {"unborn", "listed", "hidden", "gone"}
JobState == {"none", "sent", "running"} \union Ended
SomeItem == Items \union {NoItem}
Removals == [item : SomeItem, heard : BOOLEAN]
Uploads  == [open : BOOLEAN, sending : SomeItem, job : SomeItem, seen : JobState,
             asking : BOOLEAN, handled : BOOLEAN, minimized : BOOLEAN, closing : BOOLEAN]
AllLinks == {NoLink} \union [item : Items, by : {"run", "job"}]
Lists    == SUBSET Items

LibraryTypeOK ==
  /\ there \in [Items -> There] /\ job \in [Items -> JobState]
  /\ here \in BOOLEAN /\ link \in AllLinks /\ selected \in SomeItem
  /\ box \in Uploads /\ removal \in Removals
  /\ ListOK(Lists, list)

(* The panel, a deletion and a look at an upload are always of an item.     *)
Named ==
  /\ open => selected \in Items
  /\ removal # NoRemoval => removal.item \in Items
  /\ box.asking => box.job \in Items

Born ==
  \A i \in Items : /\ job[i] \in {"sent", "running"} => there[i] = "unborn"
                   /\ job[i] = "succeeded" => there[i] # "unborn"

LibraryInv == LibraryTypeOK /\ Named /\ Born

LEMMA ServedIs == Served \in Lists
BY DEF Served, Lists

-----------------------------------------------------------------------------
(* What each step makes of the list, the panel, the deletion, the upload    *)
(* and the items.                                                           *)
LEMMA LibraryListStep ==
  ASSUME LibraryInv, [LibraryNext]_libraryVars PROVE ListOK(Lists, list')
<1>0. ListOK(Lists, list) /\ here \in BOOLEAN
  BY DEF LibraryInv, LibraryTypeOK
<1>1. CASE ItemsAreRead
  BY <1>0, <1>1, ServedIs, ReadsIs DEF ItemsAreRead
<1>2. CASE ItemsArrive
  BY <1>0, <1>2, ArrivesIs DEF ItemsArrive
<1>3. CASE ItemsFail
  BY <1>0, <1>3, FailsIs DEF ItemsFail
<1>4. ASSUME list' \in {list, Q!Asks(list)} PROVE ListOK(Lists, list')
  BY <1>0, <1>4, AsksIsOK
<1>5. ASSUME list' = Q!Invalidated(list, here) PROVE ListOK(Lists, list')
  BY <1>0, <1>5, InvalidatedIsOK
<1>6. ASSUME NEW i \in Items,
             \/ FetchedDirectly(i) \/ FetchedLate(i) \/ Appears(i)
             \/ SelectDataset(i) \/ SelectDocument(i) \/ SelectModel(i) \/ SelectGroup(i)
             \/ JobEnds(i) \/ Submit(i) \/ Accepted(i) \/ UploadFails(i)
             \/ TimerSees(i) \/ TimerGivesUp(i)
      PROVE  list' \in {list, Q!Asks(list), Q!Invalidated(list, here)}
  BY <1>6 DEF FetchedDirectly, FetchedLate, Appears, SelectDataset, SelectDocument, SelectModel,
              SelectGroup, SelectItem, JobEnds, Submit, Accepted, UploadFails, TimerSees,
              TimerGivesUp
<1>7. ASSUME \/ AskItemsAgain \/ PollGroups
             \/ CloseItem \/ LinkOutOfDataset \/ LinkOutOfModel \/ LinkOutOfGroup
             \/ RenameDataset \/ RenameDocument \/ RenameModel \/ NameTopic \/ Delete \/ Deleted \/ DeleteFails
             \/ OpenBox \/ CloseBox \/ PollBox \/ BoxSees \/ BoxIsBlind \/ BoxCloses
             \/ LeaveLibrary \/ EnterLibrary \/ UNCHANGED libraryVars
      PROVE  list' \in {list, Q!Asks(list), Q!Invalidated(list, here)}
  BY <1>7 DEF AskItemsAgain, PollGroups, CloseItem, LinkOutOfDataset, LinkOutOfModel,
              LinkOutOfGroup, RenameDataset, RenameDocument, RenameModel, NameTopic, Renamed, Delete, Deleted,
              DeleteFails, OpenBox, CloseBox, PollBox, BoxSees, BoxIsBlind, BoxCloses,
              LeaveLibrary, EnterLibrary, libraryVars
<1> QED
  BY <1>1, <1>2, <1>3, <1>4, <1>5, <1>6, <1>7 DEF LibraryNext

LEMMA HereStep == ASSUME LibraryInv, [LibraryNext]_libraryVars PROVE here' \in BOOLEAN
BY DEF LibraryInv, LibraryTypeOK, LibraryNext, ItemsAreRead, ItemsArrive, ItemsFail,
       FetchedDirectly, FetchedLate, Appears, SelectDataset, SelectDocument, SelectModel,
       SelectGroup, SelectItem, JobEnds, Submit, Accepted, UploadFails, TimerSees,
       TimerGivesUp, AskItemsAgain, PollGroups, CloseItem, LinkOutOfDataset, LinkOutOfModel,
       LinkOutOfGroup, RenameDataset, RenameDocument, RenameModel, NameTopic, Renamed, Delete, Deleted,
       DeleteFails, OpenBox, CloseBox, PollBox, BoxSees, BoxIsBlind, BoxCloses,
       LeaveLibrary, EnterLibrary, libraryVars

PanelOK == link \in AllLinks /\ selected \in SomeItem /\ (open => selected \in Items)

LEMMA PanelIs == LibraryInv => PanelOK
BY DEF LibraryInv, LibraryTypeOK, Named, PanelOK

(* A link is followed to an item, or kept, or dropped.                      *)
LEMMA FollowIs ==
  ASSUME PanelOK, NEW l \in AllLinks, NEW q, Follow(l, q) PROVE PanelOK'
<1>1. ASSUME l # NoLink, Opens(l) PROVE PanelOK'
  BY <1>1 DEF Opens, PanelOK, SomeItem, AllLinks
<1>2. ASSUME Keeps(l) \/ Drops PROVE PanelOK'
  BY <1>2 DEF Keeps, Drops, panel, PanelOK, AllLinks
<1>3. ASSUME link' = l, UNCHANGED panel PROVE PanelOK'
  BY <1>3 DEF panel, PanelOK
<1> QED
  BY <1>1, <1>2, <1>3 DEF Follow, FollowDataset, FollowDocument, FollowModel, FollowGroup

LEMMA PanelStep == ASSUME LibraryInv, [LibraryNext]_libraryVars PROVE PanelOK'
<1>0. PanelOK
  BY PanelIs
<1>1. ASSUME UNCHANGED <<link, panel>> PROVE PanelOK'
  BY <1>0, <1>1 DEF PanelOK, panel
<1>3. CASE ItemsArrive \/ ItemsFail
  <2>1. Untouched \/ Follow(link, list')
    BY <1>3 DEF ItemsArrive, ItemsFail
  <2> QED
    BY <1>0, <1>1, <2>1, FollowIs DEF Untouched, PanelOK, panel
<1>4. CASE EnterLibrary
  <2>1. PICK l \in {NoLink} \union Links : Follow(l, list')
    BY <1>4 DEF EnterLibrary
  <2>2. l \in AllLinks
    BY DEF AllLinks, Links
  <2> QED
    BY <1>0, <2>1, <2>2, FollowIs
<1>5. ASSUME NEW i \in Items, FetchedDirectly(i) PROVE PanelOK'
  BY <1>0, <1>5 DEF FetchedDirectly, PanelOK, panel, SomeItem, AllLinks
<1>6. ASSUME NEW i \in Items, FetchedLate(i) PROVE PanelOK'
  BY <1>0, <1>6 DEF FetchedLate, PanelOK, panel, SomeItem, AllLinks
<1>7. ASSUME NEW i \in Items, SelectItem(i) PROVE PanelOK'
  BY <1>0, <1>7 DEF SelectItem, PanelOK, SomeItem
<1>8. CASE CloseItem \/ Deleted \/ LeaveLibrary
  BY <1>0, <1>8 DEF CloseItem, Deleted, LeaveLibrary, PanelOK, SomeItem, AllLinks
<1>9. ASSUME Untouched PROVE PanelOK'
  BY <1>1, <1>9 DEF Untouched
<1>10. ASSUME NEW i \in Items,
              \/ SelectDataset(i) \/ SelectDocument(i) \/ SelectModel(i) \/ SelectGroup(i)
       PROVE  PanelOK'
  BY <1>7, <1>10 DEF SelectDataset, SelectDocument, SelectModel, SelectGroup
<1>11. ASSUME NEW i \in Items,
              \/ Appears(i) \/ JobEnds(i) \/ Submit(i) \/ Accepted(i) \/ UploadFails(i)
              \/ TimerSees(i) \/ TimerGivesUp(i)
       PROVE  Untouched
  BY <1>11 DEF Appears, JobEnds, Submit, Accepted, UploadFails, TimerSees, TimerGivesUp
<1>12. CASE LinkOutOfDataset \/ LinkOutOfModel \/ LinkOutOfGroup
  BY <1>8, <1>12 DEF LinkOutOfDataset, LinkOutOfModel, LinkOutOfGroup
<1>13. ASSUME \/ ItemsAreRead \/ AskItemsAgain \/ PollGroups \/ RenameDataset \/ RenameDocument \/ RenameModel
              \/ NameTopic \/ Delete \/ DeleteFails \/ OpenBox \/ CloseBox \/ PollBox
              \/ BoxSees \/ BoxIsBlind \/ BoxCloses
       PROVE  Untouched
  BY <1>13 DEF ItemsAreRead, AskItemsAgain, PollGroups, RenameDataset, RenameDocument, RenameModel, NameTopic,
               Renamed, Delete, DeleteFails, OpenBox, CloseBox, PollBox, BoxSees, BoxIsBlind,
               BoxCloses
<1>14. CASE UNCHANGED libraryVars
  BY <1>1, <1>14 DEF libraryVars
<1> QED
  BY <1>3, <1>4, <1>5, <1>6, <1>8, <1>9, <1>10, <1>11, <1>12, <1>13, <1>14 DEF LibraryNext

(* A deletion is of the item the panel shows when it is confirmed.          *)
RemovalOK == removal \in Removals /\ (removal # NoRemoval => removal.item \in Items)

LEMMA RemovalStep == ASSUME LibraryInv, [LibraryNext]_libraryVars PROVE RemovalOK'
<1>0. RemovalOK /\ (open => selected \in Items)
  BY DEF LibraryInv, LibraryTypeOK, Named, RemovalOK
<1>1. ASSUME removal' = removal PROVE RemovalOK'
  BY <1>0, <1>1 DEF RemovalOK, NoRemoval
<1>2. ASSUME removal' = NoRemoval PROVE RemovalOK'
  BY <1>2 DEF RemovalOK, Removals, NoRemoval, SomeItem
<1>3. ASSUME removal' = [removal EXCEPT !.heard = FALSE] PROVE RemovalOK'
  <2>1. removal' = [item |-> removal.item, heard |-> FALSE] /\ removal.item \in SomeItem
    BY <1>0, <1>3 DEF RemovalOK, Removals
  <2>2. CASE removal = NoRemoval
    BY <1>2, <2>1, <2>2 DEF NoRemoval
  <2>3. CASE removal # NoRemoval
    BY <1>0, <2>1, <2>3 DEF RemovalOK, Removals
  <2> QED
    BY <2>2, <2>3
<1>4. CASE Delete
  BY <1>0, <1>4 DEF Delete, RemovalOK, Removals, SomeItem
<1>5. CASE ItemsFail
  BY <1>1, <1>3, <1>5 DEF ItemsFail, Unmounted
<1> QED
  BY <1>1, <1>2, <1>3, <1>4, <1>5
  DEF LibraryNext, ItemsAreRead, ItemsArrive, FetchedDirectly, FetchedLate, Appears,
      SelectDataset, SelectDocument, SelectModel, SelectGroup, SelectItem, JobEnds, Submit,
      Accepted, UploadFails, TimerSees, TimerGivesUp, AskItemsAgain, PollGroups, CloseItem,
      LinkOutOfDataset, LinkOutOfModel, LinkOutOfGroup, RenameDataset, RenameDocument, RenameModel, NameTopic,
      Renamed, Deleted, DeleteFails, OpenBox, CloseBox, PollBox, BoxSees, BoxIsBlind,
      BoxCloses, LeaveLibrary, EnterLibrary, libraryVars, uploads

(* The dialog asks for an upload it has the answer to.                      *)
BoxOK == box \in Uploads /\ (box.asking => box.job \in Items)

LEMMA BoxStep == ASSUME LibraryInv, [LibraryNext]_libraryVars PROVE BoxOK'
<1>0. BoxOK /\ job \in [Items -> JobState]
  BY DEF LibraryInv, LibraryTypeOK, Named, BoxOK
<1>1. ASSUME box' = box PROVE BoxOK'
  BY <1>0, <1>1 DEF BoxOK
<1>2. ASSUME box' = NoUpload PROVE BoxOK'
  BY <1>2 DEF BoxOK, Uploads, NoUpload, SomeItem, JobState
<1>3. CASE ItemsFail \/ LeaveLibrary
  BY <1>1, <1>2, <1>3 DEF ItemsFail, Unmounted, LeaveLibrary
<1>4. CASE OpenBox \/ BoxCloses \/ BoxIsBlind
  BY <1>0, <1>4 DEF OpenBox, BoxCloses, BoxIsBlind, BoxOK, Uploads
<1>5. ASSUME NEW i \in Items, Submit(i) PROVE BoxOK'
  BY <1>0, <1>5 DEF Submit, BoxOK, Uploads, SomeItem, JobState
<1>6. ASSUME NEW i \in Items, Accepted(i) PROVE BoxOK'
  <2>1. CASE box' = [box EXCEPT !.sending = NoItem, !.job = i, !.asking = TRUE]
    BY <1>0, <2>1 DEF BoxOK, Uploads, SomeItem
  <2> QED
    BY <1>1, <1>2, <1>6, <2>1 DEF Accepted
<1>7. ASSUME NEW i \in Items, UploadFails(i) PROVE BoxOK'
  <2>1. CASE box' = [box EXCEPT !.sending = NoItem]
    BY <1>0, <2>1 DEF BoxOK, Uploads, SomeItem
  <2> QED
    BY <1>1, <1>7, <2>1 DEF UploadFails
<1>8. CASE CloseBox
  <2> DEFINE watched == box.job # NoItem /\ ~box.handled
  <2>1. CASE box' = [box EXCEPT !.open = FALSE, !.minimized = @ \/ watched]
    <3>1. (box.minimized \/ watched) \in BOOLEAN
      OBVIOUS
    <3> QED
      BY <1>0, <2>1, <3>1 DEF BoxOK, Uploads
  <2> QED
    BY <1>2, <1>8, <2>1 DEF CloseBox
<1>9. CASE PollBox
  BY <1>0, <1>9 DEF PollBox, BoxOK, Uploads, SomeItem
<1>10. CASE BoxSees
  <2> DEFINE s     == job[box.job]
             first == s \in {"succeeded", "failed"} /\ ~box.handled
  <2>1. box.asking /\ box' = [box EXCEPT !.asking = FALSE, !.seen = s, !.handled = @ \/ first,
                                        !.closing = @ \/ (first /\ s = "succeeded")]
    BY <1>10 DEF BoxSees
  <2>2. /\ s \in JobState /\ (box.handled \/ first) \in BOOLEAN
        /\ (box.closing \/ (first /\ s = "succeeded")) \in BOOLEAN
    BY <1>0, <2>1 DEF BoxOK
  <2> QED
    BY <1>0, <2>1, <2>2 DEF BoxOK, Uploads
<1> QED
  BY <1>1, <1>3, <1>4, <1>5, <1>6, <1>7, <1>8, <1>9, <1>10
  DEF LibraryNext, ItemsAreRead, ItemsArrive, FetchedDirectly, FetchedLate, Appears,
      SelectDataset, SelectDocument, SelectModel, SelectGroup, SelectItem, JobEnds, TimerSees,
      TimerGivesUp, AskItemsAgain, PollGroups, CloseItem, LinkOutOfDataset, LinkOutOfModel,
      LinkOutOfGroup, RenameDataset, RenameDocument, RenameModel, NameTopic, Renamed, Delete, Deleted,
      DeleteFails, EnterLibrary, libraryVars, uploads

(* The server never takes back what it has done.                            *)
Forth ==
  \A i \in Items : /\ there[i] # "unborn" => there'[i] # "unborn"
                   /\ there[i] \in {"hidden", "gone"} => there'[i] \in {"hidden", "gone"}

BornOK == there \in [Items -> There] /\ job \in [Items -> JobState] /\ Born

LEMMA BornStep == ASSUME LibraryInv, [LibraryNext]_libraryVars PROVE BornOK' /\ Forth
<1>0. BornOK
  BY DEF LibraryInv, LibraryTypeOK, BornOK
<1>1. ASSUME there' = there, job' = job PROVE BornOK' /\ Forth
  BY <1>0, <1>1 DEF BornOK, Born, Forth
<1>2. ASSUME NEW i \in Items, Appears(i) PROVE BornOK' /\ Forth
  BY <1>0, <1>2 DEF Appears, uploads, BornOK, Born, Forth, There
<1>3. ASSUME NEW i \in Items, JobEnds(i) PROVE BornOK' /\ Forth
  <2>1. PICK s \in Ended : /\ job' = [job EXCEPT ![i] = s]
                           /\ there' = IF s = "succeeded" THEN [there EXCEPT ![i] = "listed"]
                                       ELSE there
    BY <1>3 DEF JobEnds
  <2>2. there[i] = "unborn" /\ s \in JobState /\ s \notin {"sent", "running"}
    BY <1>0, <1>3 DEF JobEnds, BornOK, Born, JobState, Ended
  <2>3. CASE s = "succeeded"
    BY <1>0, <2>1, <2>2, <2>3 DEF BornOK, Born, Forth, There
  <2>4. CASE s # "succeeded"
    BY <1>0, <2>1, <2>2, <2>4 DEF BornOK, Born, Forth
  <2> QED
    BY <2>3, <2>4
<1>4. ASSUME NEW i \in Items, Submit(i) PROVE BornOK' /\ Forth
  BY <1>0, <1>4 DEF Submit, BornOK, Born, Forth, JobState
<1>5. ASSUME NEW i \in Items, Accepted(i) PROVE BornOK' /\ Forth
  BY <1>0, <1>5 DEF Accepted, BornOK, Born, Forth, JobState
<1>6. ASSUME NEW i \in Items, UploadFails(i) PROVE BornOK' /\ Forth
  BY <1>0, <1>6 DEF UploadFails, BornOK, Born, Forth, JobState, Ended
<1>7. CASE Deleted
  <2>1. removal.item \in Items
    BY <1>7 DEF Deleted, LibraryInv, Named
  <2> QED
    BY <1>0, <1>7, <2>1 DEF Deleted, uploads, BornOK, Born, Forth, There
<1> QED
  BY <1>1, <1>2, <1>3, <1>4, <1>5, <1>6, <1>7
  DEF LibraryNext, ItemsAreRead, ItemsArrive, ItemsFail, FetchedDirectly, FetchedLate,
      SelectDataset, SelectDocument, SelectModel, SelectGroup, SelectItem, TimerSees,
      TimerGivesUp, AskItemsAgain, PollGroups, CloseItem, LinkOutOfDataset, LinkOutOfModel,
      LinkOutOfGroup, RenameDataset, RenameDocument, RenameModel, NameTopic, Renamed, Delete,
      DeleteFails, OpenBox, CloseBox, PollBox, BoxSees, BoxIsBlind, BoxCloses, LeaveLibrary,
      EnterLibrary, libraryVars, uploads

LEMMA LibraryStep == ASSUME LibraryInv, [LibraryNext]_libraryVars PROVE LibraryInv' /\ Forth
BY LibraryListStep, HereStep, PanelStep, RemovalStep, BoxStep, BornStep
DEF LibraryInv, LibraryTypeOK, Named, PanelOK, RemovalOK, BoxOK, BornOK

LEMMA LibraryStart == LibraryInit => LibraryInv
<1> SUFFICES ASSUME LibraryInit PROVE LibraryInv
  OBVIOUS
<1>1. there \in [Items -> There]
  BY DEF LibraryInit, There
<1>2. /\ job \in [Items -> JobState] /\ box \in Uploads /\ removal \in Removals
      /\ removal = NoRemoval /\ ~box.asking /\ ~open
      /\ here \in BOOLEAN /\ link \in AllLinks /\ selected \in SomeItem
  BY DEF LibraryInit, JobState, Uploads, NoUpload, Removals, NoRemoval, SomeItem, AllLinks
<1>3. ListOK(Lists, list)
  <2>1. Served \in Lists
    BY ServedIs
  <2>2. list \in {Q!Fresh, [Q!Fresh EXCEPT !.data = Served]}
    BY DEF LibraryInit
  <2>3. Q!Fresh \in Queries(Lists) /\ Q!Fresh.fetch.at = "idle"
    BY FreshIs
  <2>4. CASE list = [Q!Fresh EXCEPT !.data = Served]
    <3>1. list \in Queries(Lists) /\ list.fetch.at = "idle"
      BY <2>1, <2>3, <2>4 DEF Queries
    <3> QED
      BY <3>1 DEF ListOK
  <2> QED
    BY <2>2, <2>3, <2>4 DEF ListOK
<1>4. Born
  BY DEF LibraryInit, Born
<1> QED
  BY <1>1, <1>2, <1>3, <1>4 DEF LibraryInv, LibraryTypeOK, Named

-----------------------------------------------------------------------------
(* What the list must show: an item the user was told is there, or that one *)
(* is deleted.                                                              *)
Announced(c) ==
  /\ c.item \in Items /\ c.what \in {"deleted", "uploaded", "again"}
  /\ IF c.what = "deleted" THEN there[c.item] \in {"hidden", "gone"} ELSE there[c.item] # "unborn"

Tells(c, d) == CASE c.what = "deleted"  -> c.item \notin d
                 [] c.what = "uploaded" -> c.item \in d \/ there[c.item] # "listed"
                 [] c.what = "again"    -> TRUE

LEMMA AnnouncedStays ==
  ASSUME Forth, NEW c, Announced(c), there \in [Items -> There], there' \in [Items -> There]
  PROVE  Announced(c)' /\ \A d : Tells(c, d) => Tells(c, d)'
BY DEF Forth, Announced, Tells, There

LEMMA ServerTells == ASSUME NEW c, Announced(c) PROVE Tells(c, Served)
BY DEF Announced, Tells, Served

(* The invariant, as for the jobs: an answer that has been read knows of    *)
(* all that was announced, and so does the list, unless an answer is under  *)
(* way, the list is an error, or it is marked and the user is elsewhere.    *)
Expected ==
  \/ list.failed \/ list.fetch.at \in {"asked", "read"}
  \/ list.stale /\ ~here

Told(c) ==
  /\ Announced(c) /\ list.data # NoData
  /\ list.fetch.at = "read" => Tells(c, list.fetch.got)
  /\ Expected \/ Tells(c, list.data)

AllTold == \A c \in owed : Told(c)

(* A step that leaves the data and what was read of it.                     *)
LEMMA SameItems ==
  ASSUME LibraryInv, LibraryInv', Forth, NEW c, Told(c), list'.data = list.data,
         list'.fetch.at = "read" => list.fetch.at = "read" /\ list'.fetch.got = list.fetch.got,
         Expected => Expected'
  PROVE  Told(c)'
<1>1. Announced(c)' /\ (\A d : Tells(c, d) => Tells(c, d)')
  BY AnnouncedStays DEF Told, LibraryInv, LibraryTypeOK
<1>2. list'.data # NoData
  BY DEF Told
<1>3. list'.fetch.at = "read" => Tells(c, list.fetch.got)' /\ list'.fetch.got = list.fetch.got
  BY <1>1 DEF Told
<1>4. Expected' \/ Tells(c, list.data)
  BY DEF Told
<1> QED
  BY <1>1, <1>2, <1>3, <1>4 DEF Told, Tells

(* An invalidation: in use, the list is fetched anew; else it is marked.    *)
LEMMA InvalidatedTells ==
  ASSUME LibraryInv, LibraryInv', Forth, list' = Q!Invalidated(list, here), here' = here,
         NEW c, Told(c)
  PROVE  Told(c)'
<1>1. list \in Queries(Lists) /\ here \in BOOLEAN
  BY DEF LibraryInv, LibraryTypeOK, ListOK
<1>2. list'.data = list.data /\ list.data # NoData
  BY <1>1, InvalidatedIs DEF Told
<1>3. list'.fetch.at = "read" => list.fetch.at = "read" /\ list'.fetch.got = list.fetch.got
  BY <1>1, InvalidatedIs
<1>4. /\ ~here => list'.stale
      /\ here => list'.fetch.at = "asked"
  BY <1>1, <1>2, InvalidatedIs
<1>5. Expected'
  BY <1>1, <1>4 DEF Expected
<1> QED
  BY <1>2, <1>3, <1>5, SameItems

(* What is announced while the list is in use is asked for.                 *)
LEMMA OwedIsTold ==
  ASSUME LibraryInv, LibraryInv', Forth, AllTold, NEW i \in Items, NEW what \in {"deleted", "uploaded"},
         list' = Q!Invalidated(list, here), here' = here, Owes(i, what),
         IF what = "deleted" THEN there'[i] \in {"hidden", "gone"} ELSE there'[i] # "unborn"
  PROVE  AllTold'
<1> DEFINE new == [item |-> i, what |-> what]
<1>1. ASSUME NEW c \in owed PROVE Told(c)'
  BY <1>1, InvalidatedTells DEF AllTold
<1>2. new.item = i /\ new.what = what
  OBVIOUS
<1>3. CASE here /\ list.data # NoData
  <2>1. list \in Queries(Lists) /\ here \in BOOLEAN
    BY DEF LibraryInv, LibraryTypeOK, ListOK
  <2>2. list'.data # NoData /\ list'.fetch.at = "asked"
    BY <1>3, <2>1, InvalidatedIs
  <2>3. owed' = owed \union {new}
    BY <1>3 DEF Owes
  <2> HIDE DEF new
  <2>4. Told(new)'
    BY <1>2, <2>2 DEF Told, Announced, Expected
  <2> QED
    BY <1>1, <2>3, <2>4 DEF AllTold
<1>4. CASE ~(here /\ list.data # NoData)
  BY <1>1, <1>4 DEF Owes, AllTold
<1> QED
  BY <1>3, <1>4

(* An upload announced "again" is not asked for, nor said to be in the list. *)
LEMMA AgainIsTold ==
  ASSUME LibraryInv, LibraryInv', Forth, AllTold, NEW i \in Items, Owes(i, "again"),
         UNCHANGED <<list, here>>, there'[i] # "unborn"
  PROVE  AllTold'
<1> DEFINE new == [item |-> i, what |-> "again"]
<1>1. ASSUME NEW c \in owed PROVE Told(c)'
  BY <1>1, SameItems DEF AllTold, Expected
<1>2. new.item = i /\ new.what = "again"
  OBVIOUS
<1>3. CASE here /\ list.data # NoData
  <2>1. owed' = owed \union {new}
    BY <1>3 DEF Owes
  <2> HIDE DEF new
  <2>2. \A d : Tells(new, d)'
    BY <1>2 DEF Tells
  <2>3. Told(new)'
    BY <1>2, <1>3, <2>2 DEF Told, Announced, Tells
  <2> QED
    BY <1>1, <2>1, <2>3 DEF AllTold
<1>4. CASE ~(here /\ list.data # NoData)
  BY <1>1, <1>4 DEF Owes, AllTold
<1> QED
  BY <1>3, <1>4

LEMMA AllToldStep ==
  ASSUME LibraryInv, AllTold, [LibraryNext]_libraryVars PROVE AllTold'
<1>0. LibraryInv' /\ Forth
  BY LibraryStep
<1>a. /\ ListOK(Lists, list) /\ list \in Queries(Lists) /\ here \in BOOLEAN
      /\ there \in [Items -> There] /\ there' \in [Items -> There]
  BY <1>0 DEF LibraryInv, LibraryTypeOK, ListOK
<1>1. CASE ItemsAreRead
  <2>1. /\ list'.data = list.data /\ list'.fetch.at = "read" /\ list'.fetch.got = Served
        /\ there' = there /\ owed' = owed
    BY <1>a, <1>1, ServedIs, ReadsIs DEF ItemsAreRead
  <2>2. ASSUME NEW c \in owed PROVE Told(c)'
    <3>1. Announced(c) /\ list.data # NoData
      BY <2>2 DEF AllTold, Told
    <3>2. Tells(c, Served)
      BY <3>1, ServerTells
    <3> QED
      BY <2>1, <3>1, <3>2 DEF Told, Announced, Tells, Expected
  <2> QED
    BY <2>1, <2>2 DEF AllTold
<1>2. CASE ItemsArrive
  <2>1. /\ list'.data = list.fetch.got /\ list'.fetch.at = "idle" /\ list.fetch.at = "read"
        /\ there' = there /\ owed' = owed
    BY <1>a, <1>2, ArrivesIs DEF ItemsArrive
  <2>2. list'.data # NoData
    BY <1>a, <2>1, LibraryAssumption DEF ListOK, Lists
  <2>3. ASSUME NEW c \in owed PROVE Told(c)'
    <3>1. Announced(c) /\ Tells(c, list.fetch.got)
      BY <2>1, <2>3 DEF AllTold, Told
    <3> QED
      BY <2>1, <2>2, <3>1 DEF Told, Announced, Tells
  <2> QED
    BY <2>1, <2>3 DEF AllTold
<1>3. CASE ItemsFail
  <2>1. list'.data = list.data /\ list'.fetch.at = "idle" /\ list'.failed /\ owed' = owed
    BY <1>a, <1>3, FailsIs DEF ItemsFail
  <2>2. ASSUME NEW c \in owed PROVE Told(c)'
    BY <1>0, <2>1, <2>2, SameItems DEF AllTold, Expected
  <2> QED
    BY <2>1, <2>2 DEF AllTold
<1>4. ASSUME owed' = owed, list' = Q!Asks(list) PROVE AllTold'
  <2>1. /\ list'.data = list.data /\ list'.fetch.got = list.fetch.got
        /\ list'.fetch.at = IF list.fetch.at = "idle" THEN "asked" ELSE list.fetch.at
    BY <1>a, <1>4, AsksIs
  <2>2. list'.fetch.at \in {"asked", "read"}
    BY <1>a, <2>1 DEF Queries, Fetches
  <2>3. ASSUME NEW c \in owed PROVE Told(c)'
    BY <1>0, <2>1, <2>2, <2>3, SameItems DEF AllTold, Expected
  <2> QED
    BY <1>4, <2>3 DEF AllTold
<1>5. ASSUME owed' = owed, list' = list, Expected => Expected' PROVE AllTold'
  <2>1. ASSUME NEW c \in owed PROVE Told(c)'
    BY <1>0, <1>5, <2>1, SameItems DEF AllTold
  <2> QED
    BY <1>5, <2>1 DEF AllTold
<1>6. ASSUME owed' = owed, list' = Q!Invalidated(list, here), here' = here PROVE AllTold'
  <2>1. ASSUME NEW c \in owed PROVE Told(c)'
    BY <1>0, <1>6, <2>1, InvalidatedTells DEF AllTold
  <2> QED
    BY <1>6, <2>1 DEF AllTold
<1>7. ASSUME UNCHANGED <<owed, list, here>> PROVE AllTold'
  BY <1>5, <1>7 DEF Expected
<1>8. CASE Deleted
  <2>1. removal.item \in Items
    BY <1>8 DEF Deleted, LibraryInv, Named
  <2>2. there'[removal.item] \in {"hidden", "gone"}
    BY <1>a, <1>8, <2>1 DEF Deleted
  <2> QED
    BY <1>0, <1>8, <2>1, <2>2, OwedIsTold DEF Deleted
<1>9. ASSUME NEW i \in Items, job[i] = "succeeded", there' = there, Owes(i, "uploaded"),
             list' = Q!Invalidated(list, here), here' = here
      PROVE  AllTold'
  <2>1. there'[i] # "unborn"
    BY <1>9 DEF LibraryInv, Born
  <2> QED
    BY <1>0, <1>9, <2>1, OwedIsTold
<1>10. CASE BoxSees
  <2>1. box.asking /\ box.job \in Items /\ there' = there /\ here' = here
    BY <1>10 DEF BoxSees, LibraryInv, Named
  <2>2. \/ UNCHANGED <<list, owed>>
        \/ /\ job[box.job] = "succeeded"
           /\ list' = Q!Invalidated(list, here) /\ Owes(box.job, "uploaded")
        \/ job[box.job] = "succeeded" /\ list' = list /\ Owes(box.job, "again")
    BY <1>10 DEF BoxSees
  <2>3. ASSUME job[box.job] = "succeeded", list' = list, Owes(box.job, "again") PROVE AllTold'
    <3>1. there'[box.job] # "unborn"
      BY <2>1, <2>3 DEF LibraryInv, Born
    <3> QED
      BY <1>0, <2>1, <2>3, <3>1, AgainIsTold
  <2> QED
    BY <1>7, <1>9, <2>1, <2>2, <2>3
<1>11. ASSUME NEW i \in Items, TimerSees(i) PROVE AllTold'
  BY <1>7, <1>9, <1>11 DEF TimerSees
<1>12. ASSUME NEW i \in Items, FetchedLate(i) PROVE AllTold'
  <2>1. CASE here
    BY <1>5, <1>12, <2>1 DEF FetchedLate, Expected
  <2>2. CASE ~here
    BY <1>4, <1>12, <2>2 DEF FetchedLate
  <2> QED
    BY <2>1, <2>2
<1>13. ASSUME NEW i \in Items, Accepted(i) \/ UploadFails(i) PROVE AllTold'
  BY <1>6, <1>7, <1>13 DEF Accepted, UploadFails
<1>14. CASE LeaveLibrary
  BY <1>5, <1>14 DEF LeaveLibrary, Expected
<1>15. CASE EnterLibrary
  <2>1. CASE list' = Q!Asks(list)
    BY <1>4, <1>15, <2>1 DEF EnterLibrary
  <2>2. CASE list' = list /\ ~list.stale
    BY <1>5, <1>15, <2>2 DEF EnterLibrary, Expected
  <2> QED
    BY <1>15, <2>1, <2>2 DEF EnterLibrary
<1>16. CASE RenameDataset \/ RenameDocument \/ RenameModel \/ NameTopic \/ DeleteFails
  BY <1>6, <1>16 DEF RenameDataset, RenameDocument, RenameModel, NameTopic, Renamed, DeleteFails
<1>17. CASE AskItemsAgain \/ PollGroups
  BY <1>4, <1>17 DEF AskItemsAgain, PollGroups
<1> QED
  BY <1>1, <1>2, <1>3, <1>7, <1>8, <1>10, <1>11, <1>12, <1>13, <1>14, <1>15, <1>16, <1>17
  DEF LibraryNext, FetchedDirectly, Appears, SelectDataset, SelectDocument, SelectModel,
      SelectGroup, SelectItem, JobEnds, Submit, TimerGivesUp, CloseItem, LinkOutOfDataset,
      LinkOutOfModel, LinkOutOfGroup, Delete, OpenBox, CloseBox, PollBox, BoxIsBlind,
      BoxCloses, libraryVars

(* An item is born once and stays deleted; the list, what was read of it,   *)
(* the panel, the deletion and the upload are what their types say.         *)
THEOREM LibraryInvariant == LibrarySpec => []LibraryInv
<1>1. LibraryInv /\ [LibraryNext]_libraryVars => LibraryInv'
  BY LibraryStep
<1> QED
  BY <1>1, LibraryStart, PTL DEF LibrarySpec

(* What was announced is what a list at rest shows, whatever requests were  *)
(* under way when it was announced, which of them fail, and how often the   *)
(* user leaves and comes back: every announcement but those made "again", by *)
(* a dialog that has handled an end before, invalidates the list in the same *)
(* step, and no page comes back to a marked list without fetching.          *)
THEOREM AnnouncementsReachTheList == LibrarySpec => []ListKeepsUp
<1>1. LibraryInit => AllTold
  BY DEF LibraryInit, AllTold
<1>2. LibraryInv /\ AllTold /\ [LibraryNext]_libraryVars => AllTold'
  BY AllToldStep
<1>3. AllTold => ListKeepsUp
  <2> SUFFICES ASSUME AllTold, Mounted, Q!Idle(list), NEW c \in owed
               PROVE  CASE c.what = "deleted"  -> ~Has(list, c.item)
                        [] c.what = "uploaded" -> Has(list, c.item) \/ there[c.item] # "listed"
                        [] c.what = "again"    -> TRUE
    BY DEF ListKeepsUp
  <2>1. list.data # NoData /\ (Expected \/ Tells(c, list.data)) /\ Announced(c)
    BY DEF AllTold, Told
  <2>2. ~Expected
    BY DEF Expected, Mounted, Q!Idle
  <2> QED
    BY <2>1, <2>2 DEF Tells, Has, Announced
<1> QED
  BY <1>1, <1>2, <1>3, LibraryInvariant, PTL DEF LibrarySpec
=============================================================================
