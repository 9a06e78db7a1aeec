--------------------------- MODULE CalendarSession ---------------------------
(***************************************************************************)
(* The life of one user's schedule document between Firestore and the      *)
(* devices the user is signed in on: sign-in, the loads started by Home    *)
(* and by the Day sheet, edits, saves, tab changes, logout and restarts,   *)
(* all interleaved with the answers of the network.                        *)
(*                                                                         *)
(* Dart runs one handler at a time up to its next await, so an action is a *)
(* handler up to the await, or the continuation of one.  The Firestore     *)
(* client (external) answers a get with the server's document overlaid by  *)
(* this device's own unacknowledged writes, and sends writes in order,     *)
(* each a whole document, while their user is signed in.                   *)
(***************************************************************************)
EXTENDS BandPlan

CONSTANTS
    Devices,
    TypedTexts,     \* the texts the user may leave in a field
    Absent,         \* "no such document"
    NoPeriods,      \* a schedule whose list of periods is empty
    NetworkFails,   \* whether a get may end in an error
    MaxMounts,      \* bound: Day sheets opened in one Home
    MaxPending      \* bound: writes in flight on a device

ASSUME SessionAssumption ==
    /\ TypedTexts \subseteq Texts
    /\ Absent \notin Schedule /\ NoPeriods \notin Schedule /\ Absent # NoPeriods
    /\ NetworkFails \in BOOLEAN
    /\ MaxMounts \in Nat \ {0} /\ MaxPending \in Nat \ {0}

VARIABLES
    server,     \* users/<uid> in Firestore
    pending,    \* per device: its writes not yet acknowledged
    screen,     \* per device: "SignIn", "Home", or "SigningOut" with Home still up
    schedule,   \* per device: person.schedule
    dubs,       \* per device: person.dubs
    gets,       \* per device: loads waiting for their get
    tab,        \* per device: the tab in front
    day,        \* per device: the State of the Day sheet
    loaded,     \* history: a load of this Person has set its schedule
    dirty,      \* history: the schedule was edited since it was loaded or sent
    hasty,      \* history: some Person sent a schedule before it had loaded one
    emptied     \* history: an edit or Save took the last class of a schedule away

appVars == <<schedule, dubs, gets, tab, day>>
history == <<loaded, dirty, hasty, emptied>>
vars == <<server, pending, screen, appVars, history>>

\* Load 0 is Home's, load n the one of the n-th Day sheet of this Home.
HomeLoad == 0
NoLoad == -1
Loads == 0..MaxMounts

\* What toMap writes and fromFirestore reads back: every field of every Period
\* but the date and time lists, which nothing fills in a schedule.
Docs == Schedule \cup {NoPeriods}

NoRow == [b \in Bands |-> FALSE]

\* ADayState: alive until disposed; mount numbers it; bound when the rows on
\* screen hold Period objects of the current schedule; shown is the text in
\* the rows' text fields, which take their initialValue only once.
DayState == [alive: BOOLEAN, isLoading: BOOLEAN, bound: BOOLEAN, mount: Loads,
             rowEdited: [Bands -> BOOLEAN], shown: [Bands -> Texts]]

NewDay(n) == [alive |-> TRUE, isLoading |-> TRUE, bound |-> FALSE, mount |-> n,
              rowEdited |-> NoRow, shown |-> [b \in Bands |-> NoText]]

Disposed(dy) == [NewDay(dy.mount) EXCEPT !.alive = FALSE]

TypeOK ==
    /\ server \in Docs \cup {Absent}
    /\ pending \in [Devices -> Seq([doc: Docs, load: Loads \cup {NoLoad}])]
    /\ screen \in [Devices -> {"SignIn", "Home", "SigningOut"}]
    /\ schedule \in [Devices -> Docs]
    /\ dubs \in [Devices -> [Bands -> BOOLEAN]]
    /\ gets \in [Devices -> SUBSET Loads]
    /\ tab \in [Devices -> {"Day", "Full"}]
    /\ day \in [Devices -> DayState]
    /\ loaded \in [Devices -> BOOLEAN]
    /\ dirty \in [Devices -> BOOLEAN]
    /\ hasty \in BOOLEAN
    /\ emptied \in BOOLEAN

Init ==
    /\ server = Absent
    /\ pending = [d \in Devices |-> <<>>]
    /\ screen = [d \in Devices |-> "SignIn"]
    /\ schedule = [d \in Devices |-> NoPeriods]
    /\ dubs = [d \in Devices |-> NoRow]
    /\ gets = [d \in Devices |-> {}]
    /\ tab = [d \in Devices |-> "Day"]
    /\ day = [d \in Devices |-> Disposed(NewDay(0))]
    /\ loaded = [d \in Devices |-> FALSE]
    /\ dirty = [d \in Devices |-> FALSE]
    /\ hasty = FALSE
    /\ emptied = FALSE

-----------------------------------------------------------------------------
HomeUp(d) == screen[d] # "SignIn"

\* The Day sheet has left its spinner: its rows are built.
RowsBuilt(d) == day[d].alive /\ ~day[d].isLoading

\* Schedule.addAllPeriod: fills the list only when it is empty.
Refilled(sch) == IF sch = NoPeriods THEN BlankSchedule ELSE sch

RowTexts(sch) ==
    [b \in Bands |-> IF sch[b].fullCourse THEN sch[b].className ELSE NoText]

\* What a get returns on device d.
LocalView(d) ==
    IF pending[d] = <<>> THEN server ELSE pending[d][Len(pending[d])].doc

\* docRef.set(doc): queued on the device; load names the load awaiting it.
Enqueue(d, doc, load) ==
    /\ Len(pending[d]) < MaxPending
    /\ pending' = [pending EXCEPT ![d] = Append(@, [doc |-> doc, load |-> load])]

HasClasses(doc) == doc \in Schedule /\ \E s \in Slots : ~IsBlank(doc[s])

\* Bookkeeping of the steps in which the user rewrites the schedule.
NoteEmptied(d) ==
    emptied' = (emptied \/ (HasClasses(schedule[d]) /\ ~HasClasses(schedule'[d])))

\* Person.sendScheduleData: nothing awaits the write.
Send(d, doc) ==
    /\ Enqueue(d, doc, NoLoad)
    /\ dirty' = [dirty EXCEPT ![d] = FALSE]
    /\ hasty' = (hasty \/ ~loaded[d])
    /\ UNCHANGED loaded

Orphaned(writes) == [i \in DOMAIN writes |-> [writes[i] EXCEPT !.load = NoLoad]]

-----------------------------------------------------------------------------
\* Wrapper shows Home for a new Person.  Home.initState and ADayState.initState
\* both call loadScheduleData, whose first line fills the empty schedule.
OpenHome(d) ==
    /\ screen' = [screen EXCEPT ![d] = "Home"]
    /\ schedule' = [schedule EXCEPT ![d] = BlankSchedule]
    /\ dubs' = [dubs EXCEPT ![d] = NoRow]
    /\ gets' = [gets EXCEPT ![d] = {HomeLoad, 1}]
    /\ tab' = [tab EXCEPT ![d] = "Day"]
    /\ day' = [day EXCEPT ![d] = NewDay(1)]
    /\ loaded' = [loaded EXCEPT ![d] = FALSE]
    /\ dirty' = [dirty EXCEPT ![d] = FALSE]
    /\ UNCHANGED <<server, hasty, emptied>>

SignIn(d) ==
    /\ screen[d] = "SignIn"
    /\ OpenHome(d)
    /\ UNCHANGED pending

\* The page is reloaded or the app restarted; the user stays signed in.  Writes
\* in flight survive only where Firestore keeps its queue on disk.
Restart(d) ==
    /\ HomeUp(d)
    /\ OpenHome(d)
    /\ pending' \in {[pending EXCEPT ![d] = <<>>], [pending EXCEPT ![d] = Orphaned(@)]}

\* The app is closed on the sign-in screen and loses its queue.
Close(d) ==
    /\ screen[d] = "SignIn"
    /\ pending[d] # <<>>
    /\ pending' = [pending EXCEPT ![d] = <<>>]
    /\ UNCHANGED <<server, screen, appVars, history>>

\* Mutated: _createRows does not refill an empty schedule.
HomeRebuiltUnfilled(d, sch) ==
    /\ schedule' = [schedule EXCEPT ![d] = sch]
    /\ day' = [day EXCEPT ![d].bound = RowsBuilt(d)]

\* setState of Home rebuilds the tabs: _createRows of a Day sheet whose rows are
\* built refills an empty schedule and takes its Period objects anew.
HomeRebuilt(d, sch) ==
    /\ schedule' = [schedule EXCEPT ![d] = IF RowsBuilt(d) THEN Refilled(sch) ELSE sch]
    /\ day' = [day EXCEPT ![d].bound = RowsBuilt(d)]

\* Mutated: the schedule is reset before it is sent.
LogoutAfterReset(d) ==
    /\ HomeUp(d)
    /\ Send(d, BlankSchedule)
    /\ HomeRebuilt(d, schedule[d])
    /\ screen' = [screen EXCEPT ![d] = "SigningOut"]
    /\ UNCHANGED <<server, dubs, gets, tab, emptied>>

\* The Logout button: save(), which sends and rebuilds; then signOut() is awaited.
Logout(d) ==
    /\ HomeUp(d)
    /\ Send(d, schedule[d])
    /\ HomeRebuilt(d, schedule[d])
    /\ screen' = [screen EXCEPT ![d] = "SigningOut"]
    /\ UNCHANGED <<server, dubs, gets, tab, emptied>>

\* The auth stream emits null: Home is disposed, its Person unreachable.
SignedOut(d) ==
    /\ screen[d] = "SigningOut"
    /\ screen' = [screen EXCEPT ![d] = "SignIn"]
    /\ pending' = [pending EXCEPT ![d] = Orphaned(@)]
    /\ schedule' = [schedule EXCEPT ![d] = NoPeriods]
    /\ dubs' = [dubs EXCEPT ![d] = NoRow]
    /\ gets' = [gets EXCEPT ![d] = {}]
    /\ tab' = [tab EXCEPT ![d] = "Day"]
    /\ day' = [day EXCEPT ![d] = Disposed(NewDay(0))]
    /\ loaded' = [loaded EXCEPT ![d] = FALSE]
    /\ dirty' = [dirty EXCEPT ![d] = FALSE]
    /\ UNCHANGED <<server, hasty, emptied>>

-----------------------------------------------------------------------------
\* The Day sheet's then: addAllPeriod and setState.  On a disposed State the
\* setState throws, and rows built by a later Day sheet are not rebuilt.
DayAfterLoad(dy, l, sch, replaced) ==
    IF dy.alive /\ dy.mount = l
    THEN [dy EXCEPT !.isLoading = FALSE, !.bound = TRUE, !.shown = RowTexts(sch)]
    ELSE [dy EXCEPT !.bound = dy.bound /\ ~replaced]

DayThen(d, l, sch, replaced) ==
    /\ schedule' = [schedule EXCEPT ![d] = Refilled(sch)]
    /\ day' = [day EXCEPT ![d] = DayAfterLoad(@, l, Refilled(sch), replaced)]

LoadThen(d, l, sch, replaced) ==
    IF l = HomeLoad THEN HomeRebuilt(d, sch) ELSE DayThen(d, l, sch, replaced)

\* Mutated: the data of the get becomes the schedule without the test for null.
GetFoundUntested(d, l) ==
    /\ l \in gets[d]
    /\ gets' = [gets EXCEPT ![d] = @ \ {l}]
    /\ LoadThen(d, l, LocalView(d), TRUE)
    /\ loaded' = [loaded EXCEPT ![d] = TRUE]
    /\ dirty' = [dirty EXCEPT ![d] = FALSE]
    /\ UNCHANGED <<server, pending, screen, dubs, tab, hasty, emptied>>

\* loadScheduleData after its get, when the document exists.
GetFound(d, l) ==
    /\ l \in gets[d]
    /\ LocalView(d) # Absent
    /\ gets' = [gets EXCEPT ![d] = @ \ {l}]
    /\ LoadThen(d, l, LocalView(d), TRUE)
    /\ loaded' = [loaded EXCEPT ![d] = TRUE]
    /\ dirty' = [dirty EXCEPT ![d] = FALSE]
    /\ UNCHANGED <<server, pending, screen, dubs, tab, hasty, emptied>>

\* Mutated: the template is written whether or not there is a document.
GetAbsentUnchecked(d, l) ==
    /\ l \in gets[d]
    /\ gets' = [gets EXCEPT ![d] = @ \ {l}]
    /\ schedule' = [schedule EXCEPT ![d] = NoPeriods]
    /\ day' = [day EXCEPT ![d].bound = FALSE]
    /\ Enqueue(d, NoPeriods, l)
    /\ loaded' = [loaded EXCEPT ![d] = TRUE]
    /\ dirty' = [dirty EXCEPT ![d] = FALSE]
    /\ UNCHANGED <<server, screen, dubs, tab, hasty, emptied>>

\* ... and when it does not: an empty schedule replaces the one in memory and
\* is written; the then callback waits for that write.
GetAbsent(d, l) ==
    /\ l \in gets[d]
    /\ LocalView(d) = Absent
    /\ gets' = [gets EXCEPT ![d] = @ \ {l}]
    /\ schedule' = [schedule EXCEPT ![d] = NoPeriods]
    /\ day' = [day EXCEPT ![d].bound = FALSE]
    /\ Enqueue(d, NoPeriods, l)
    /\ loaded' = [loaded EXCEPT ![d] = TRUE]
    /\ dirty' = [dirty EXCEPT ![d] = FALSE]
    /\ UNCHANGED <<server, screen, dubs, tab, hasty, emptied>>

\* The get throws; no then callback runs.
GetFails(d, l) ==
    /\ NetworkFails
    /\ l \in gets[d]
    /\ gets' = [gets EXCEPT ![d] = @ \ {l}]
    /\ UNCHANGED <<server, pending, screen, schedule, dubs, tab, day, history>>

\* Mutated: the load that wrote the template does not go on after the write.
AckWithoutThen(d) ==
    /\ HomeUp(d)
    /\ pending[d] # <<>>
    /\ server' = Head(pending[d]).doc
    /\ pending' = [pending EXCEPT ![d] = Tail(@)]
    /\ UNCHANGED <<screen, appVars, history>>

\* The server takes the oldest write of a signed-in device.
Ack(d) ==
    /\ HomeUp(d)
    /\ pending[d] # <<>>
    /\ server' = Head(pending[d]).doc
    /\ pending' = [pending EXCEPT ![d] = Tail(@)]
    /\ IF Head(pending[d]).load = NoLoad
       THEN UNCHANGED <<schedule, day>>
       ELSE LoadThen(d, Head(pending[d]).load, schedule[d], FALSE)
    /\ UNCHANGED <<screen, dubs, gets, tab, history>>

-----------------------------------------------------------------------------
\* A keystroke in row b.  The handler writes to the Period object the row was
\* built with, which a replaced schedule no longer contains; then it rebuilds.
DayText(d, b, text) ==
    /\ HomeUp(d) /\ tab[d] = "Day" /\ RowsBuilt(d)
    /\ IF day[d].bound
       THEN /\ schedule' = [schedule EXCEPT ![d][b] = DayEdited(@, "className", text)]
            /\ dirty' = [dirty EXCEPT ![d] = TRUE]
       ELSE UNCHANGED <<schedule, dirty>>
    /\ NoteEmptied(d)
    /\ day' = [day EXCEPT ![d].bound = TRUE, ![d].rowEdited[b] = TRUE, ![d].shown[b] = text]
    /\ UNCHANGED <<server, pending, screen, dubs, gets, tab, loaded, hasty>>

DayDouble(d, b) ==
    /\ HomeUp(d) /\ tab[d] = "Day" /\ RowsBuilt(d)
    /\ dubs' = [dubs EXCEPT ![d][b] = ~@]
    /\ day' = [day EXCEPT ![d].bound = TRUE, ![d].rowEdited[b] = TRUE]
    /\ UNCHANGED <<server, pending, screen, schedule, gets, tab, history>>

\* Mutated: the schedule is sent before the bands are expanded.
SaveDaySentFirst(d) ==
    /\ HomeUp(d) /\ tab[d] = "Day" /\ RowsBuilt(d)
    /\ schedule' = [schedule EXCEPT ![d] = DaySave(@, dubs[d], day[d].rowEdited)]
    /\ Send(d, schedule[d])
    /\ NoteEmptied(d)
    /\ day' = [day EXCEPT ![d].bound = TRUE, ![d].rowEdited = NoRow]
    /\ UNCHANGED <<server, screen, dubs, gets, tab>>

\* The Day sheet's Save: expand the bands, send, reset the row flags.
SaveDay(d) ==
    /\ HomeUp(d) /\ tab[d] = "Day" /\ RowsBuilt(d)
    /\ schedule' = [schedule EXCEPT ![d] = DaySave(@, dubs[d], day[d].rowEdited)]
    /\ Send(d, schedule'[d])
    /\ NoteEmptied(d)
    /\ day' = [day EXCEPT ![d].bound = TRUE, ![d].rowEdited = NoRow]
    /\ UNCHANGED <<server, screen, dubs, gets, tab>>

\* A keystroke in a cell of the Full sheet, which takes the focus.  With an
\* empty list of periods the cells cannot be built or written to.
FullText(d, s, text) ==
    /\ HomeUp(d) /\ tab[d] = "Full"
    /\ s \in FullSheetSlots
    /\ schedule[d] # NoPeriods
    /\ schedule' = [schedule EXCEPT ![d][s] = FullEdited(@, "className", text)]
    /\ dirty' = [dirty EXCEPT ![d] = TRUE]
    /\ NoteEmptied(d)
    /\ day' = [day EXCEPT ![d] = Disposed(@)]
    /\ UNCHANGED <<server, pending, screen, dubs, gets, tab, loaded, hasty>>

SaveFull(d) ==
    /\ HomeUp(d) /\ tab[d] = "Full"
    /\ Send(d, schedule[d])
    /\ UNCHANGED <<server, screen, appVars, emptied>>

\* Leaving the Day tab disposes its State unless a focused field keeps it alive.
OpenFull(d) ==
    /\ HomeUp(d) /\ tab[d] = "Day"
    /\ tab' = [tab EXCEPT ![d] = "Full"]
    /\ \/ RowsBuilt(d) /\ UNCHANGED day
       \/ day' = [day EXCEPT ![d] = Disposed(@)]
    /\ UNCHANGED <<server, pending, screen, schedule, dubs, gets, history>>

\* Back to the Day tab, where the Day sheet is still alive ...
ReopenDay(d) ==
    /\ HomeUp(d) /\ tab[d] = "Full" /\ day[d].alive
    /\ tab' = [tab EXCEPT ![d] = "Day"]
    /\ UNCHANGED <<server, pending, screen, schedule, dubs, gets, day, history>>

\* ... or a new one starts another load.
RemountDay(d) ==
    /\ HomeUp(d) /\ tab[d] = "Full" /\ ~day[d].alive
    /\ day[d].mount < MaxMounts
    /\ tab' = [tab EXCEPT ![d] = "Day"]
    /\ day' = [day EXCEPT ![d] = NewDay(@.mount + 1)]
    /\ gets' = [gets EXCEPT ![d] = @ \cup {day[d].mount + 1}]
    /\ schedule' = [schedule EXCEPT ![d] = Refilled(@)]
    /\ UNCHANGED <<server, pending, screen, dubs, history>>

Next ==
    \E d \in Devices :
        \/ SignIn(d) \/ Restart(d) \/ Close(d) \/ Logout(d) \/ SignedOut(d)
        \/ \E l \in Loads : GetFound(d, l) \/ GetAbsent(d, l) \/ GetFails(d, l)
        \/ Ack(d)
        \/ \E b \in Bands, t \in TypedTexts : DayText(d, b, t)
        \/ \E b \in Bands : DayDouble(d, b)
        \/ SaveDay(d)
        \/ \E s \in Slots, t \in TypedTexts : FullText(d, s, t)
        \/ SaveFull(d) \/ OpenFull(d) \/ ReopenDay(d) \/ RemountDay(d)

Spec == Init /\ [][Next]_vars

\* The network answers, and takes writes, while the user is signed in.  Nothing
\* is assumed of the user, of the failures or of the auth stream.
FairSpec ==
    /\ Spec
    /\ \A d \in Devices :
        /\ WF_vars(Ack(d))
        /\ \A l \in Loads : WF_vars(GetFound(d, l)) /\ WF_vars(GetAbsent(d, l))

-----------------------------------------------------------------------------
\* Every copy of the schedule is sound: on the server, in a queue of writes, or
\* in the memory of a device, however loads, saves and restarts interleave.
SoundDocuments ==
    /\ server \in Schedule => SoundSchedule(server)
    /\ \A d \in Devices :
        /\ schedule[d] \in Schedule => SoundSchedule(schedule[d])
        /\ \A i \in DOMAIN pending[d] :
               pending[d][i].doc \in Schedule => SoundSchedule(pending[d][i].doc)

\* "Ensure valid data structure exists" (aday.dart:124): rows that are on screen
\* always have a Period to edit and to save, although a load may replace the
\* schedule by an empty list at any moment.
RowsHavePeriods ==
    \A d \in Devices : HomeUp(d) /\ tab[d] = "Day" /\ RowsBuilt(d) => schedule[d] # NoPeriods

\* With one device, a schedule that was loaded and not edited since its last load
\* or save is the one a load would bring back: no late answer or acknowledgement
\* moves it away from the document.
CleanMeansStored ==
    \A d \in Devices : HomeUp(d) /\ loaded[d] /\ ~dirty[d] =>
        schedule[d] = LocalView(d) \/ (LocalView(d) = NoPeriods /\ schedule[d] = BlankSchedule)

\* With one device the stored classes are only ever lost through a schedule that
\* was sent before it was loaded, or because an edit or a Save on a device took
\* the last of them away: no load, template, queue, restart or tab change does.
LossNeedsHastySave ==
    [][HasClasses(server) /\ ~hasty' /\ ~emptied' => HasClasses(server')]_vars

\* With one device the blank template only takes the place of no document or of
\* another template.
TemplateOverNothing ==
    [][server' = NoPeriods => server \in {Absent, NoPeriods}]_vars

\* "Load saved schedule data asynchronously, then initialize periods and update
\* UI" (aday.dart:41): a Day sheet that shows its spinner gets its rows or is
\* left, unless the user restarts the app for ever.
DayOpens ==
    <>[][\A d \in Devices : ~Restart(d)]_vars =>
        \A d \in Devices :
            day[d].alive /\ day[d].isLoading ~> ~(day[d].alive /\ day[d].isLoading)

-----------------------------------------------------------------------------
(* What the comments of the program say, and the code does not do.         *)

\* "Load schedule data if it exists; otherwise initialize and save a new
\* template" (person.dart:319): stored classes are not replaced by a schedule
\* without any, when the user erases nothing.
ClassesNeverBlanked == [][HasClasses(server) => HasClasses(server')]_vars

\* "No existing schedule, set up a fresh template" (person.dart:324): the template
\* is not written over a schedule with classes.
TemplateOnlyWhenAbsent == [][server' = NoPeriods => ~HasClasses(server)]_vars

\* "Builds each row of the table using the person's schedule" (aday.dart:120): the
\* text shown in a row is the class the schedule holds for it.
ShownIsInSchedule ==
    \A d \in Devices : HomeUp(d) /\ tab[d] = "Day" /\ RowsBuilt(d) /\ schedule[d] # NoPeriods =>
        \A b \in Bands : day[d].shown[b] = RowTexts(schedule[d])[b]
=============================================================================
