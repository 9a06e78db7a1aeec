----------------------------- MODULE YearExport -----------------------------
(***************************************************************************)
(* The Export tab (lib/screens/tabs/export_page.dart) and                  *)
(* Person.fillYearPeriods with addExtraEvents and exportPeriodsToCSV       *)
(* (lib/models/person.dart).                                               *)
(*                                                                         *)
(* Every press of "Download File(s)" starts a run of fillYearPeriods.  The *)
(* run clears the list yearPeriods of the Person, and goes on between its  *)
(* awaits while the boxes change, the sheets edit the schedule, a load     *)
(* replaces it, and other presses start runs over the same list.  A run    *)
(* reads no shared state between two of the awaits that read columns of    *)
(* one file, so that these waits are one step here.                        *)
(***************************************************************************)
EXTENDS YearEvents

CONSTANTS
    Presses,     \* the presses whose runs can be under way together
    AssetsFail,  \* whether reading a file of the app may fail
    TypedTexts,  \* what the user types
    Documents,   \* the schedules that a load may bring
    NumSlots,    \* the length of Schedule.periods
    MaxChanges   \* bound on changes of boxes and of the schedule

VARIABLES
    schedule,    \* Person.schedule
    prefs,       \* Person.wantsClasses and the other boxes of the tab
    yearPeriods, \* Person.yearPeriods
    step,        \* where the run of each press waits
    table,       \* the file a run reads, or 0
    changes,     \* number of changes so far
    settled,     \* history: the press that met no other and no change of a box
    alone,       \* history: the press that met no other
    taken,       \* history: the schedule from which a run filled its list
    download     \* what the last step handed to the browser

vars == <<schedule, prefs, yearPeriods, step, table, changes, settled, alone,
          taken, download>>

Phase == [k \in Presses |->
            CASE step[k] = "idle" -> "idle"
              [] step[k] = "reading" -> "asked"
              [] OTHER -> "taken"]

D == INSTANCE Downloads WITH phase <- Phase

\* The slots are the indices of the list of periods.
ASSUME ListAssumption ==
    /\ NumSlots \in Nat
    /\ Slots = 0..(NumSlots - 1)
    /\ Documents \subseteq Schedule
    /\ TypedTexts \subseteq Texts
    /\ AssetsFail \in BOOLEAN
    /\ MaxChanges \in Nat

-----------------------------------------------------------------------------
\* An entry of yearPeriods: a Period whose four lists of dates and times are
\* the rows of the CSV files that were added to it.
Entry(name, room, color, dates) ==
    [name |-> name, room |-> room, color |-> color, dates |-> dates]

Dates == [kind : {"class", "table"}, of : Nat, row : Nat]

Entries == [name : [heading : BOOLEAN, text : Texts \cup {Subject}], room : Texts,
            color : Bands \cup {NoColor}, dates : Seq(Dates)]

\* The fresh entries for the timetable, one per slot, with no rows yet.
FreshEntries ==
    [i \in 1..NumSlots |->
        LET p == schedule[i - 1]
        IN  Entry(Name(FALSE, p.className), p.roomName, p.colorId, <<>>)]

TableEntries(n) ==
    [r \in 1..TableRows[n] |->
        Entry(Name(FALSE, Subject), NoText, NoColor, <<TableDate(n, r)>>)]

\* An entry is filled when its name is not empty or free periods are wanted.
Shown(name) == name # Name(FALSE, NoText) \/ prefs.free

\* Mutated: the box of the free periods is not looked at.
FilledWhenNamed(e, s) ==
    IF e.name # Name(FALSE, NoText)
    THEN [e EXCEPT !.name = Name(prefs.headings, schedule[s].className),
                   !.dates = @ \o [r \in 1..SlotRows[s] |-> ClassDate(s, r)]]
    ELSE e

\* Entry e, at the index of slot s, after the loop over the rows of
\* classes.csv: every row looks at the name its predecessor has left, so that
\* an entry which loses its name gets the first row only.
Filled(e, s) ==
    LET name == Name(prefs.headings, schedule[s].className)
        rows == IF Shown(name) THEN SlotRows[s] ELSE 1
    IN  IF Shown(e.name) /\ SlotRows[s] > 0
        THEN [e EXCEPT !.name = name,
                       !.dates = @ \o [r \in 1..rows |-> ClassDate(s, r)]]
        ELSE e

\* The loop over the rows: a slot is looked up by its number in the whole list.
WithClasses(list) ==
    [i \in DOMAIN list |-> IF i <= NumSlots THEN Filled(list[i], i - 1) ELSE list[i]]

WithoutColors(list) == [i \in DOMAIN list |-> [list[i] EXCEPT !.color = NoColor]]

\* fillYearPeriods from its last await on classes.csv to its first extra file.
YearList ==
    LET list == IF prefs.classes THEN WithClasses(yearPeriods \o FreshEntries)
                                 ELSE yearPeriods
    IN  IF prefs.colors THEN list ELSE WithoutColors(list)

-----------------------------------------------------------------------------
\* The lines of a list, by the index of the entry and of the row in it.
Positions(list) ==
    UNION {{i} \X DOMAIN list[i].dates : i \in DOMAIN list}

LineAt(pf, list, i, j) ==
    Line(IF pf.colors THEN list[i].color ELSE AllInOne,
           list[i].name, list[i].room, list[i].dates[j])

\* exportPeriodsToCSV: one file, or one per colour and one for the rest.
Exported(pf, list) ==
    LET lines == [x \in Positions(list) |-> LineAt(pf, list, x[1], x[2])]
    IN  [files |-> IF pf.colors THEN {l.file : l \in Range(lines)}
                                   ELSE {AllInOne},
         lines |-> lines]

\* The boxes are read one after the other, each when its turn has come.
WantedAfter(n) == {m \in prefs.tables : m > n}

FirstOf(S) == CHOOSE m \in S : \A n \in S : m <= n

\* Run k, with the list as it is now, turns to the next file that is wanted
\* after file n, or exports.
GoOn(k, n, list, ps) ==
    \/ /\ WantedAfter(n) # {}
       /\ step' = [step EXCEPT ![k] = "adding"]
       /\ table' = [table EXCEPT ![k] = FirstOf(WantedAfter(n))]
       /\ taken' = [taken EXCEPT ![k] = ps]
       /\ download' = NoDownload
    \/ /\ WantedAfter(n) = {}
       /\ step' = [step EXCEPT ![k] = "idle"]
       /\ table' = [table EXCEPT ![k] = 0]
       /\ taken' = [taken EXCEPT ![k] = NoPeriods]
       /\ download' = Exported(prefs, list)

-----------------------------------------------------------------------------
Init ==
    /\ schedule = NoPeriods
    /\ prefs = DefaultPrefs
    /\ yearPeriods = <<>>
    /\ step = [k \in Presses |-> "idle"]
    /\ table = [k \in Presses |-> 0]
    /\ changes = 0
    /\ settled = {}
    /\ alone = {}
    /\ taken = [k \in Presses |-> NoPeriods]
    /\ download = NoDownload

Running == {k \in Presses : step[k] # "idle"}

\* Mutated: the list of the last run is not cleared.
PressUncleared(k) ==
    /\ step[k] = "idle"
    /\ step' = [step EXCEPT ![k] = "reading"]
    /\ settled' = IF Running = {} THEN {k} ELSE {}
    /\ alone' = IF Running = {} THEN {k} ELSE {}
    /\ download' = NoDownload
    /\ UNCHANGED <<schedule, prefs, yearPeriods, table, changes, taken>>

\* A press of the button, up to the first await.
Press(k) ==
    /\ step[k] = "idle"
    /\ yearPeriods' = <<>>
    /\ step' = [step EXCEPT ![k] = "reading"]
    /\ settled' = IF Running = {} THEN {k} ELSE {}
    /\ alone' = IF Running = {} THEN {k} ELSE {}
    /\ download' = NoDownload
    /\ UNCHANGED <<schedule, prefs, table, changes, taken>>

\* The columns of classes.csv are there.
Fill(k) ==
    /\ step[k] = "reading"
    /\ prefs.classes => schedule # NoPeriods
    /\ yearPeriods' = YearList
    /\ GoOn(k, 0, YearList, schedule)
    /\ UNCHANGED <<schedule, prefs, changes, settled, alone>>

\* Mutated: the run waits for the schedule to be filled.
FillWaits(k) ==
    /\ step[k] = "reading"
    /\ prefs.classes /\ schedule = NoPeriods
    /\ download' = NoDownload
    /\ UNCHANGED <<schedule, prefs, yearPeriods, step, table, changes, settled,
                   alone, taken>>

\* The first index into an empty schedule throws, and nobody hears of it.
FillThrows(k) ==
    /\ step[k] = "reading"
    /\ prefs.classes /\ schedule = NoPeriods
    /\ step' = [step EXCEPT ![k] = "idle"]
    /\ download' = NoDownload
    /\ UNCHANGED <<schedule, prefs, yearPeriods, table, changes, settled, alone, taken>>

\* addExtraEvents, after its last await.
AddExtraEvents(k) ==
    /\ step[k] = "adding"
    /\ yearPeriods' = yearPeriods \o TableEntries(table[k])
    /\ step' = [step EXCEPT ![k] = "added"]
    /\ download' = NoDownload
    /\ UNCHANGED <<schedule, prefs, table, changes, settled, alone, taken>>

\* The await of fillYearPeriods on addExtraEvents resumes.
Resume(k) ==
    /\ step[k] = "added"
    /\ GoOn(k, table[k], yearPeriods, taken[k])
    /\ UNCHANGED <<schedule, prefs, yearPeriods, changes, settled, alone>>

\* rootBundle.loadString throws; nothing catches it.
ReadFails(k) ==
    /\ AssetsFail
    /\ step[k] \in {"reading", "adding"}
    /\ step' = [step EXCEPT ![k] = "idle"]
    /\ table' = [table EXCEPT ![k] = 0]
    /\ taken' = [taken EXCEPT ![k] = NoPeriods]
    /\ download' = NoDownload
    /\ UNCHANGED <<schedule, prefs, yearPeriods, changes, settled, alone>>

-----------------------------------------------------------------------------
(* The user at the boxes and the rest of the app at the schedule.          *)

Change ==
    /\ changes < MaxChanges
    /\ changes' = changes + 1
    /\ download' = NoDownload

SetBoxes(pf) ==
    /\ Change
    /\ prefs' = pf
    /\ settled' = {}
    /\ UNCHANGED <<schedule, yearPeriods, step, table, alone, taken>>

ToggleClasses == SetBoxes([prefs EXCEPT !.classes = ~@])

ToggleTable(n) ==
    SetBoxes([prefs EXCEPT !.tables = IF n \in @ THEN @ \ {n} ELSE @ \cup {n}])

\* Mutated: the box of the free periods keeps its tick.
ToggleColorsOnly ==
    /\ prefs.classes
    /\ SetBoxes([prefs EXCEPT !.colors = ~@])

\* Three boxes are shown only while "Include Classes" is ticked; of the first
\* two, ticking one unticks the other.
ToggleColors ==
    /\ prefs.classes
    /\ SetBoxes([prefs EXCEPT !.colors = ~@, !.free = @ /\ prefs.colors])

ToggleFree ==
    /\ prefs.classes
    /\ SetBoxes([prefs EXCEPT !.free = ~@, !.colors = @ /\ prefs.free])

ToggleHeadings ==
    /\ prefs.classes
    /\ SetBoxes([prefs EXCEPT !.headings = ~@])

SetSchedule(ps) ==
    /\ Change
    /\ schedule' = ps
    /\ UNCHANGED <<prefs, yearPeriods, step, table, settled, alone, taken>>

FullText(s, text) ==
    /\ schedule # NoPeriods
    /\ SetSchedule([schedule EXCEPT ![s] = FullEdited(@, "className", text)])

DayText(b, text) ==
    /\ schedule # NoPeriods
    /\ SetSchedule([schedule EXCEPT ![b] = DayEdited(@, "className", text)])

\* The end of a load: the document, or the empty list of a new user, which
\* the Day sheet fills later.
Loaded(ps) == SetSchedule(ps)

Refill ==
    /\ schedule = NoPeriods
    /\ SetSchedule(BlankSchedule)

Next ==
    \/ \E k \in Presses :
        \/ Press(k)
        \/ Fill(k)
        \/ FillThrows(k)
        \/ AddExtraEvents(k)
        \/ Resume(k)
        \/ ReadFails(k)
    \/ ToggleClasses
    \/ ToggleColors
    \/ ToggleFree
    \/ ToggleHeadings
    \/ \E n \in Tables : ToggleTable(n)
    \/ \E s \in FullSheetSlots, text \in TypedTexts : FullText(s, text)
    \/ \E b \in Bands, text \in TypedTexts : DayText(b, text)
    \/ \E ps \in Documents \cup {NoPeriods} : Loaded(ps)
    \/ Refill

\* The event loop of the app gets to every run that can go on.
RunSteps(k) == Fill(k) \/ FillThrows(k) \/ AddExtraEvents(k) \/ Resume(k)

Spec == Init /\ [][Next]_vars /\ \A k \in Presses : WF_vars(RunSteps(k))

-----------------------------------------------------------------------------
\* The variables of fillYearPeriods keep their types; a run waits for a file
\* just when it is adding one.
TypeOK ==
    /\ schedule \in Schedule \cup {NoPeriods}
    /\ prefs \in Prefs
    /\ ~(prefs.colors /\ prefs.free)
    /\ step \in [Presses -> {"idle", "reading", "adding", "added"}]
    /\ table \in [Presses -> {0} \cup Tables]
    /\ \A k \in Presses : table[k] # 0 <=> step[k] \in {"adding", "added"}
    /\ yearPeriods \in Seq(Entries)
    /\ taken \in [Presses -> Schedule \cup {NoPeriods}]
    /\ settled \subseteq Presses /\ alone \subseteq Presses
    /\ changes \in 0..MaxChanges

\* A press that meets no other press and no change of a box is an export in
\* one go: fillYearPeriods, addExtraEvents and exportPeriodsToCSV deliver the
\* events of the ticked boxes, with the classes of one moment, in the files of
\* their colours, whatever is edited or loaded meanwhile.
ImplementsDownloads == D!Spec

\* The dates of a kind and an origin that a download lists.
DatesIn(d) == {l.date : l \in Range(d.lines)}

\* Whatever boxes change on the way, a press that meets no other press lists
\* no event twice, and a file of extra events wholly or not at all: the list
\* yearPeriods belongs to that run from its clear() to its export.
LoneDownloadsWhole ==
    [][\A k \in alone' : step[k] # "idle" /\ step'[k] = "idle" =>
        /\ \A x, y \in DOMAIN download'.lines :
            download'.lines[x].date = download'.lines[y].date => x = y
        /\ \A n \in Tables : \A r, q \in 1..TableRows[n] :
            TableDate(n, r) \in DatesIn(download') => TableDate(n, q) \in DatesIn(download')]_vars

\* Every press comes to an end: the walk over the boxes passes every box once,
\* even when boxes are ticked and unticked during it.
EveryPressEnds ==
    \A k \in Presses : step[k] = "reading" ~> step[k] = "idle"

\* No download lists an event twice (person.dart:152, "Fills the yearPeriods
\* list with data from the CSV files", and :164, "Initialize yearPeriods with
\* empty Period objects"): claimed of every press, also of overlapping ones.
EachEventOnce ==
    \A x, y \in DOMAIN download.lines :
        download.lines[x].date = download.lines[y].date => x = y
=============================================================================
