-------------------------- MODULE YearExportProofs --------------------------
(***************************************************************************)
(* Proofs about YearExport, for all schedules, files, presses and bounds:  *)
(* its types, and that it implements Downloads.                            *)
(***************************************************************************)
EXTENDS YearExport, BandPlanTheorems, SequenceTheorems, WellFoundedInduction

-----------------------------------------------------------------------------
(* The lists of a run are typed.                                           *)

\* A function on 1..n is a sequence of length n.
LEMMA ListTyped ==
    ASSUME NEW n \in Nat, NEW S, NEW f \in [1..n -> S]
    PROVE  f \in Seq(S) /\ Len(f) = n /\ DOMAIN f = 1..n
  BY SeqDef

\* The names that entries carry.
LEMMA NameTyped ==
    ASSUME NEW h \in BOOLEAN, NEW t \in Texts \cup {Subject}
    PROVE  Name(h, t) \in [heading : BOOLEAN, text : Texts \cup {Subject}]
  BY DEF Name

\* The rows of classes.csv that the loop adds to one slot are dates.
LEMMA ClassDatesTyped ==
    ASSUME NEW s \in Slots, NEW n \in Nat
    PROVE  [r \in 1..n |-> ClassDate(s, r)] \in Seq(Dates)
<1>1. s \in Nat
  BY TablesAssumption
<1>2. [r \in 1..n |-> ClassDate(s, r)] \in [1..n -> Dates]
  BY <1>1 DEF ClassDate, Dates
<1> QED
  BY <1>2, ListTyped

\* The 56 periods that fillYearPeriods adds are entries.
LEMMA FreshTyped ==
    ASSUME schedule \in Schedule
    PROVE  FreshEntries \in [1..NumSlots -> Entries]
<1> SUFFICES ASSUME NEW i \in 1..NumSlots
             PROVE  LET p == schedule[i - 1]
                    IN  Entry(Name(FALSE, p.className), p.roomName, p.colorId, <<>>) \in Entries
  BY DEF FreshEntries
<1>1. i - 1 \in Slots
  BY ListAssumption
<1>2. schedule[i - 1] \in Period
  BY <1>1 DEF Schedule
<1>3. <<>> \in Seq(Dates)
  OBVIOUS
<1> QED
  BY <1>2, <1>3, NameTyped DEF Entry, Entries, Period

\* The periods that addExtraEvents adds are entries.
LEMMA TableTyped ==
    ASSUME NEW n \in Tables
    PROVE  /\ TableEntries(n) \in [1..TableRows[n] -> Entries]
           /\ TableRows[n] \in Nat
<1>1. n \in Nat /\ TableRows[n] \in Nat
  BY RowsAssumption DEF Tables
<1> SUFFICES ASSUME NEW r \in 1..TableRows[n]
             PROVE  Entry(Name(FALSE, Subject), NoText, NoColor, <<TableDate(n, r)>>) \in Entries
  BY <1>1 DEF TableEntries
<1>2. TableDate(n, r) \in Dates
  BY <1>1 DEF TableDate, Dates
<1>3. <<TableDate(n, r)>> \in Seq(Dates)
  BY <1>2
<1> QED
  BY <1>3, NameTyped, TextsAssumption DEF Entry, Entries

\* The loop over classes.csv turns an entry into an entry.
LEMMA FilledTyped ==
    ASSUME schedule \in Schedule, prefs \in Prefs, NEW e \in Entries, NEW s \in Slots
    PROVE  Filled(e, s) \in Entries
<1> DEFINE name == Name(prefs.headings, schedule[s].className)
           rows == IF Shown(name) THEN SlotRows[s] ELSE 1
           dates == e.dates \o [r \in 1..rows |-> ClassDate(s, r)]
<1>1. rows \in Nat
  BY RowsAssumption
<1>2. dates \in Seq(Dates)
  <2>1. e.dates \in Seq(Dates)
    BY DEF Entries
  <2>2. [r \in 1..rows |-> ClassDate(s, r)] \in Seq(Dates)
    BY <1>1, ClassDatesTyped
  <2> HIDE DEF rows
  <2> QED
    BY <2>1, <2>2, ConcatProperties
<1>3. name \in [heading : BOOLEAN, text : Texts \cup {Subject}]
  BY NameTyped DEF Schedule, Period, Prefs
<1>4. Filled(e, s) = IF Shown(e.name) /\ SlotRows[s] > 0
                     THEN [e EXCEPT !.name = name, !.dates = dates] ELSE e
  BY DEF Filled
<1> HIDE DEF name, dates
<1> QED
  BY <1>2, <1>3, <1>4 DEF Entries

\* The same for the whole list.
LEMMA WithClassesTyped ==
    ASSUME schedule \in Schedule, prefs \in Prefs, NEW list \in Seq(Entries)
    PROVE  WithClasses(list) \in Seq(Entries)
<1>1. list \in [1..Len(list) -> Entries] /\ Len(list) \in Nat
  BY LenProperties
<1>2. ASSUME NEW i \in 1..Len(list), i <= NumSlots
      PROVE  Filled(list[i], i - 1) \in Entries
  BY <1>1, <1>2, FilledTyped, ListAssumption
<1>3. WithClasses(list) \in [1..Len(list) -> Entries]
  BY <1>1, <1>2 DEF WithClasses
<1> QED
  BY <1>1, <1>3, ListTyped

\* Without its colours an entry is an entry.
LEMMA WithoutColorsTyped ==
    ASSUME NEW list \in Seq(Entries)
    PROVE  WithoutColors(list) \in Seq(Entries)
<1>1. list \in [1..Len(list) -> Entries] /\ Len(list) \in Nat
  BY LenProperties
<1>2. WithoutColors(list) \in [1..Len(list) -> Entries]
  BY <1>1 DEF WithoutColors, Entries
<1> QED
  BY <1>1, <1>2, ListTyped

\* Between its awaits on classes.csv and the extra files a run leaves a list of entries.
LEMMA YearListTyped ==
    ASSUME TypeOK, prefs.classes => schedule # NoPeriods
    PROVE  YearList \in Seq(Entries)
<1> DEFINE list == IF prefs.classes THEN WithClasses(yearPeriods \o FreshEntries)
                                    ELSE yearPeriods
<1>1. list \in Seq(Entries)
  <2>1. CASE prefs.classes
    <3>1. schedule \in Schedule
      BY <2>1 DEF TypeOK
    <3>2. FreshEntries \in Seq(Entries)
      BY <3>1, FreshTyped, ListTyped, ListAssumption
    <3>3. yearPeriods \o FreshEntries \in Seq(Entries)
      BY <3>2, ConcatProperties DEF TypeOK
    <3> QED
      BY <2>1, <3>1, <3>3, WithClassesTyped DEF TypeOK
  <2>2. CASE ~prefs.classes
    BY <2>2 DEF TypeOK
  <2> QED
    BY <2>1, <2>2
<1>2. YearList = IF prefs.colors THEN list ELSE WithoutColors(list)
  BY DEF YearList
<1> HIDE DEF list
<1> QED
  BY <1>1, <1>2, WithoutColorsTyped

-----------------------------------------------------------------------------
(* The next file that is wanted.                                           *)

\* The order of the naturals as a relation.
Below == {p \in Nat \X Nat : p[1] < p[2]}

\* The order of the naturals has minimal elements.
LEMMA BelowWellFounded == IsWellFoundedOn(Below, Nat)
  BY NatLessThanWellFounded DEF OpToRel, Below

\* A nonempty set of naturals has a first member.
LEMMA FirstOfIsFirst ==
    ASSUME NEW S, S \subseteq Nat, S # {}
    PROVE  FirstOf(S) \in S /\ \A n \in S : FirstOf(S) <= n
<1>1. PICK m \in S : \A n \in S : <<n, m>> \notin Below
  BY BelowWellFounded, WFMin
<1>2. ASSUME NEW n \in S PROVE m <= n
  <2>1. ~(n < m)
    BY <1>1 DEF Below
  <2> QED
    BY <2>1
<1> QED
  BY <1>2 DEF FirstOf

\* A run turns to a file whose box is ticked, after the one it has added, and
\* passes no ticked box.
LEMMA NextFile ==
    ASSUME prefs \in Prefs, NEW n \in {0} \cup Tables, WantedAfter(n) # {}
    PROVE  LET m == FirstOf(WantedAfter(n))
           IN  /\ m \in prefs.tables /\ m \in Tables /\ m # 0
               /\ {q \in prefs.tables : q < m} = {q \in prefs.tables : q <= n}
<1> DEFINE m == FirstOf(WantedAfter(n))
<1>1. prefs.tables \subseteq Tables /\ Tables \subseteq Nat /\ 0 \notin Tables /\ n \in Nat
  BY RowsAssumption DEF Prefs, Tables
<1>2. m \in WantedAfter(n) /\ \A q \in WantedAfter(n) : m <= q
  <2>1. WantedAfter(n) \subseteq Nat
    BY <1>1 DEF WantedAfter
  <2> QED
    BY <2>1, FirstOfIsFirst
<1> HIDE DEF m
<1>3. m \in prefs.tables /\ m > n
  BY <1>2 DEF WantedAfter
<1>4. ASSUME NEW q \in prefs.tables PROVE q < m <=> q <= n
  <2>1. q \in Nat /\ m \in Nat
    BY <1>1, <1>3
  <2>2. q > n => m <= q
    BY <1>2 DEF WantedAfter
  <2> QED
    BY <1>1, <1>3, <2>1, <2>2
<1>5. {q \in prefs.tables : q < m} = {q \in prefs.tables : q <= n}
  BY <1>4
<1> QED
  BY <1>1, <1>3, <1>5 DEF m

-----------------------------------------------------------------------------
(* The moves of the user, in two kinds.                                    *)

BoxesSet ==
    /\ prefs' \in Prefs
    /\ ~(prefs'.colors /\ prefs'.free)
    /\ SetBoxes(prefs')

ScheduleSet ==
    /\ schedule' \in Schedule \cup {NoPeriods}
    /\ SetSchedule(schedule')

RunStep(k) ==
    Press(k) \/ Fill(k) \/ FillThrows(k) \/ AddExtraEvents(k) \/ Resume(k) \/ ReadFails(k)

\* Ticking a box leaves a record of boxes, with the colours or the free
\* periods at most.
LEMMA BoxMoves ==
    ASSUME TypeOK,
           ToggleClasses \/ ToggleColors \/ ToggleFree \/ ToggleHeadings
             \/ \E n \in Tables : ToggleTable(n)
    PROVE  BoxesSet
<1>1. prefs \in Prefs /\ ~(prefs.colors /\ prefs.free)
  BY DEF TypeOK
<1>2. CASE ToggleClasses
  BY <1>1, <1>2 DEF ToggleClasses, BoxesSet, SetBoxes, Prefs
<1>3. CASE ToggleColors
  BY <1>1, <1>3 DEF ToggleColors, BoxesSet, SetBoxes, Prefs
<1>4. CASE ToggleFree
  BY <1>1, <1>4 DEF ToggleFree, BoxesSet, SetBoxes, Prefs
<1>5. CASE ToggleHeadings
  BY <1>1, <1>5 DEF ToggleHeadings, BoxesSet, SetBoxes, Prefs
<1>6. CASE \E n \in Tables : ToggleTable(n)
  BY <1>1, <1>6 DEF ToggleTable, BoxesSet, SetBoxes, Prefs
<1> QED
  BY <1>2, <1>3, <1>4, <1>5, <1>6

\* An edit or a load leaves a schedule, or the empty list.
LEMMA ScheduleMoves ==
    ASSUME TypeOK,
           \/ \E s \in FullSheetSlots, text \in TypedTexts : FullText(s, text)
           \/ \E b \in Bands, text \in TypedTexts : DayText(b, text)
           \/ \E ps \in Documents \cup {NoPeriods} : Loaded(ps)
           \/ Refill
    PROVE  ScheduleSet
<1>1. CASE \E s \in FullSheetSlots, text \in TypedTexts : FullText(s, text)
  <2>1. PICK s \in FullSheetSlots, text \in TypedTexts : FullText(s, text)
    BY <1>1
  <2>2. schedule \in Schedule /\ s \in Slots /\ text \in Texts
    BY <2>1, TablesAssumption, ListAssumption DEF FullText, TypeOK
  <2>3. FullEdited(schedule[s], "className", text) \in Period
    BY <2>2, FullEditedFields DEF Schedule
  <2>4. schedule' = [schedule EXCEPT ![s] = FullEdited(@, "className", text)]
    BY <2>1 DEF FullText, SetSchedule
  <2>5. schedule' \in Schedule
    BY <2>2, <2>3, <2>4 DEF Schedule
  <2> QED
    BY <2>1, <2>5 DEF FullText, ScheduleSet, SetSchedule
<1>2. CASE \E b \in Bands, text \in TypedTexts : DayText(b, text)
  <2>1. PICK b \in Bands, text \in TypedTexts : DayText(b, text)
    BY <1>2
  <2>2. schedule \in Schedule /\ b \in Slots /\ text \in Texts
    BY <2>1, TablesAssumption, ListAssumption DEF DayText, TypeOK
  <2>3. DayEdited(schedule[b], "className", text) \in Period
    BY <2>2, DayEditedFields DEF Schedule
  <2>4. schedule' = [schedule EXCEPT ![b] = DayEdited(@, "className", text)]
    BY <2>1 DEF DayText, SetSchedule
  <2>5. schedule' \in Schedule
    BY <2>2, <2>3, <2>4 DEF Schedule
  <2> QED
    BY <2>1, <2>5 DEF DayText, ScheduleSet, SetSchedule
<1>3. CASE \E ps \in Documents \cup {NoPeriods} : Loaded(ps)
  BY <1>3, ListAssumption DEF Loaded, ScheduleSet, SetSchedule
<1>4. CASE Refill
  BY <1>4, BlankScheduleSound DEF Refill, ScheduleSet, SetSchedule, SoundSchedules
<1> QED
  BY <1>1, <1>2, <1>3, <1>4

\* Every step is one of a run, of the boxes, or of the schedule.
LEMMA ThreeKinds ==
    ASSUME TypeOK, Next
    PROVE  (\E k \in Presses : RunStep(k)) \/ BoxesSet \/ ScheduleSet
  BY BoxMoves, ScheduleMoves DEF Next, RunStep

-----------------------------------------------------------------------------
(* The type invariant.                                                     *)

\* Going on leaves the places of the runs typed.
LEMMA GoOnTyped ==
    ASSUME TypeOK, NEW k \in Presses, NEW n \in {0} \cup Tables, NEW list,
           NEW ps \in Schedule \cup {NoPeriods}, GoOn(k, n, list, ps)
    PROVE  /\ step' \in [Presses -> {"idle", "reading", "adding", "added"}]
           /\ table' \in [Presses -> {0} \cup Tables]
           /\ taken' \in [Presses -> Schedule \cup {NoPeriods}]
           /\ \A j \in Presses : table'[j] # 0 <=> step'[j] \in {"adding", "added"}
<1>1. CASE WantedAfter(n) # {}
  <2> DEFINE m == FirstOf(WantedAfter(n))
  <2>1. m \in Tables /\ m # 0
    BY <1>1, NextFile DEF TypeOK
  <2>2. /\ step' = [step EXCEPT ![k] = "adding"]
        /\ table' = [table EXCEPT ![k] = m]
        /\ taken' = [taken EXCEPT ![k] = ps]
    BY <1>1 DEF GoOn
  <2> HIDE DEF m
  <2> QED
    BY <2>1, <2>2 DEF TypeOK
<1>2. CASE WantedAfter(n) = {}
  BY <1>2 DEF GoOn, TypeOK
<1> QED
  BY <1>1, <1>2

\* A press keeps the types.
LEMMA TypesOfPress ==
    ASSUME TypeOK, NEW k \in Presses, Press(k)
    PROVE  TypeOK'
<1>1. yearPeriods' \in Seq(Entries)
  BY DEF Press
<1>2. settled' \subseteq Presses /\ alone' \subseteq Presses
  BY DEF Press
<1> QED
  BY <1>1, <1>2 DEF Press, TypeOK

\* Filling the list keeps the types.
LEMMA TypesOfFill ==
    ASSUME TypeOK, NEW k \in Presses, Fill(k)
    PROVE  TypeOK'
<1>1. YearList \in Seq(Entries)
  BY YearListTyped DEF Fill
<1>2. GoOn(k, 0, YearList, schedule)
  BY DEF Fill
<1>3. /\ step' \in [Presses -> {"idle", "reading", "adding", "added"}]
      /\ table' \in [Presses -> {0} \cup Tables]
      /\ taken' \in [Presses -> Schedule \cup {NoPeriods}]
      /\ \A j \in Presses : table'[j] # 0 <=> step'[j] \in {"adding", "added"}
  <2>1. schedule \in Schedule \cup {NoPeriods}
    BY DEF TypeOK
  <2> QED
    BY <1>2, <2>1, GoOnTyped
<1> QED
  BY <1>1, <1>3 DEF Fill, TypeOK

\* So does addExtraEvents,
LEMMA TypesOfAdd ==
    ASSUME TypeOK, NEW k \in Presses, AddExtraEvents(k)
    PROVE  TypeOK'
<1>1. table[k] \in Tables
  BY DEF AddExtraEvents, TypeOK
<1>2. TableEntries(table[k]) \in Seq(Entries)
  BY <1>1, TableTyped, ListTyped
<1>3. yearPeriods' \in Seq(Entries)
  BY <1>2, ConcatProperties DEF AddExtraEvents, TypeOK
<1> QED
  BY <1>3 DEF AddExtraEvents, TypeOK

\* and the walk to the next box.
LEMMA TypesOfResume ==
    ASSUME TypeOK, NEW k \in Presses, Resume(k)
    PROVE  TypeOK'
<1>1. GoOn(k, table[k], yearPeriods, taken[k])
  BY DEF Resume
<1>2. /\ step' \in [Presses -> {"idle", "reading", "adding", "added"}]
      /\ table' \in [Presses -> {0} \cup Tables]
      /\ taken' \in [Presses -> Schedule \cup {NoPeriods}]
      /\ \A j \in Presses : table'[j] # 0 <=> step'[j] \in {"adding", "added"}
  <2>1. taken[k] \in Schedule \cup {NoPeriods} /\ table[k] \in {0} \cup Tables
    BY DEF TypeOK
  <2> QED
    BY <1>1, <2>1, GoOnTyped
<1> QED
  BY <1>2 DEF Resume, TypeOK

\* The types of fillYearPeriods are kept by every step.
LEMMA TypesKept ==
    ASSUME TypeOK, [Next]_vars
    PROVE  TypeOK'
<1>1. ASSUME NEW k \in Presses, RunStep(k) PROVE TypeOK'
  <2>1. CASE Press(k) \/ Fill(k) \/ AddExtraEvents(k) \/ Resume(k)
    BY <2>1, TypesOfPress, TypesOfFill, TypesOfAdd, TypesOfResume
  <2>2. CASE FillThrows(k)
    BY <2>2 DEF FillThrows, TypeOK
  <2>3. CASE ReadFails(k)
    <3>1. NoPeriods \in Schedule \cup {NoPeriods}
      OBVIOUS
    <3> QED
      BY <2>3, <3>1 DEF ReadFails, TypeOK
  <2> QED
    BY <1>1, <2>1, <2>2, <2>3 DEF RunStep
<1>2. ASSUME Change PROVE changes' \in 0..MaxChanges
  BY <1>2, ListAssumption DEF Change, TypeOK
<1>3. CASE BoxesSet
  BY <1>2, <1>3 DEF BoxesSet, SetBoxes, TypeOK
<1>4. CASE ScheduleSet
  BY <1>2, <1>4 DEF ScheduleSet, SetSchedule, TypeOK
<1>5. CASE UNCHANGED vars
  BY <1>5 DEF vars, TypeOK
<1> QED
  BY <1>1, <1>3, <1>4, <1>5, ThreeKinds

\* The variables of fillYearPeriods keep their types, and a run waits for a
\* file of extra events just when it is adding one.
THEOREM TypeCorrect == Spec => []TypeOK
<1>1. Init => TypeOK
  BY ListAssumption DEF Init, TypeOK, Prefs, DefaultPrefs
<1>2. TypeOK /\ [Next]_vars => TypeOK'
  BY TypesKept
<1> QED
  BY <1>1, <1>2, PTL DEF Spec

-----------------------------------------------------------------------------
(* What a list has gathered.                                               *)


\* Downloads and YearExport speak in the same words.
LEMMA SameWords ==
    /\ D!Tables = Tables /\ D!Prefs = Prefs /\ D!DefaultPrefs = DefaultPrefs
    /\ D!AllInOne = AllInOne /\ D!OtherEvents = OtherEvents
    /\ D!NoDownload = NoDownload
    /\ \A heading, text : D!Name(heading, text) = Name(heading, text)
    /\ \A n, r : D!ClassDate(n, r) = ClassDate(n, r) /\ D!TableDate(n, r) = TableDate(n, r)
    /\ \A file, name, room, date :
        D!Line(file, name, room, date) = Line(file, name, room, date)
    /\ \A g : D!Range(g) = Range(g) /\ (D!IsInjective(g) <=> IsInjective(g))
<1>1. D!Tables = Tables
  BY DEF D!Tables, Tables
<1>2. D!Prefs = Prefs
  BY <1>1 DEF D!Prefs, Prefs
<1>3. D!DefaultPrefs = DefaultPrefs
  BY DEF D!DefaultPrefs, DefaultPrefs
<1>4. D!AllInOne = AllInOne /\ D!OtherEvents = OtherEvents
  BY DEF D!AllInOne, AllInOne, D!OtherEvents, OtherEvents, D!NoColor, NoColor
<1>5. D!NoDownload = NoDownload
  BY DEF D!NoDownload, NoDownload
<1>6. \A heading, text : D!Name(heading, text) = Name(heading, text)
  BY DEF D!Name, Name
<1>7. \A n, r : D!ClassDate(n, r) = ClassDate(n, r) /\ D!TableDate(n, r) = TableDate(n, r)
  BY DEF D!ClassDate, ClassDate, D!TableDate, TableDate
<1>8. \A file, name, room, date :
        D!Line(file, name, room, date) = Line(file, name, room, date)
  BY DEF D!Line, Line
<1>9. \A g : D!Range(g) = Range(g) /\ (D!IsInjective(g) <=> IsInjective(g))
  BY DEF D!Range, Range, D!IsInjective, IsInjective
<1> QED
  BY <1>1, <1>2, <1>3, <1>4, <1>5, <1>6, <1>7, <1>8, <1>9

\* Their schedules are the same, too.
LEMMA SameSchedules == D!Schedule = Schedule
  BY DEF D!Schedule, D!Period, D!NoColor, Schedule, Period, NoColor

\* The lines that are wanted if the boxes M were the ticked ones.
LinesOf(ps, pf, M) == (UNION {D!ClassLines(ps, pf, s) : s \in D!Listed(ps, pf)})
                      \cup (UNION {D!TableLines(pf, n) : n \in M})

\* The list would be a right export of them.
Gathered(pf, list, ps, M) == D!Holds(Exported(pf, list), pf, LinesOf(ps, pf, M))

\* What Downloads wants is the lines of the classes and of all ticked files.
LEMMA AllTheLines ==
    ASSUME NEW ps, NEW pf
    PROVE  D!Wanted(ps, pf) = LinesOf(ps, pf, pf.tables)
  BY DEF D!Wanted, LinesOf

\* A line is of a slot or of a file,
LEMMA InLines ==
    ASSUME NEW ps, NEW pf, NEW M, NEW l
    PROVE  l \in LinesOf(ps, pf, M) <=>
             \/ \E s \in D!Listed(ps, pf) : l \in D!ClassLines(ps, pf, s)
             \/ \E n \in M : l \in D!TableLines(pf, n)
  BY DEF LinesOf

\* The lines of one more file come on top.
LEMMA OneMoreFile ==
    ASSUME NEW ps, NEW pf, NEW M, NEW n, NEW N, \A m : m \in N <=> m \in M \/ m = n
    PROVE  \A l : l \in LinesOf(ps, pf, N) <=>
                    l \in LinesOf(ps, pf, M) \/ l \in D!TableLines(pf, n)
  BY InLines

\* of a slot when it is one of its rows,
LEMMA RowsOfClasses ==
    ASSUME NEW ps, NEW pf, NEW l, NEW s
    PROVE  l \in D!ClassLines(ps, pf, s) <=>
             \E r \in 1..SlotRows[s] : l = D!ClassLine(ps, pf, s, r)
  BY DEF D!ClassLines

\* of a file likewise.
LEMMA RowsOfTables ==
    ASSUME NEW ps, NEW pf, NEW l, NEW n
    PROVE  l \in D!TableLines(pf, n) <=>
             \E r \in 1..TableRows[n] : l = D!TableLine(pf, n, r)
  BY DEF D!TableLines

\* The fields of a line that are read below.
LEMMA LineFields ==
    ASSUME NEW file, NEW name, NEW room, NEW date
    PROVE  /\ Line(file, name, room, date).file = file
           /\ Line(file, name, room, date).date = date
  BY DEF Line

\* The date of a line tells its slot or file, and its row.
LEMMA DatesOfLines ==
    ASSUME NEW ps, NEW pf, NEW n, NEW r
    PROVE  /\ D!ClassLine(ps, pf, n, r).date = ClassDate(n, r)
           /\ D!TableLine(pf, n, r).date = TableDate(n, r)
<1>1. \E file, name, room : D!ClassLine(ps, pf, n, r) = Line(file, name, room, ClassDate(n, r))
  BY Zenon, SameWords DEF D!ClassLine
<1>2. \E file, name, room : D!TableLine(pf, n, r) = Line(file, name, room, TableDate(n, r))
  BY Zenon, SameWords DEF D!TableLine
<1> QED
  BY <1>1, <1>2, LineFields

\* A date tells its row.
LEMMA DatesDiffer ==
    ASSUME NEW m, NEW q, NEW n, NEW r
    PROVE  /\ ClassDate(m, q) # TableDate(n, r)
           /\ ClassDate(m, q) = ClassDate(n, r) => m = n /\ q = r
           /\ TableDate(m, q) = TableDate(n, r) => m = n /\ q = r
<1>1. /\ ClassDate(m, q).kind = "class" /\ TableDate(n, r).kind = "table"
      /\ ClassDate(m, q).of = m /\ ClassDate(m, q).row = q
      /\ ClassDate(n, r).of = n /\ ClassDate(n, r).row = r
      /\ TableDate(m, q).of = m /\ TableDate(m, q).row = q
      /\ TableDate(n, r).of = n /\ TableDate(n, r).row = r
  BY DEF ClassDate, TableDate
<1> QED
  BY <1>1

\* No line of another file has one of their dates.
LEMMA OtherDates ==
    ASSUME NEW ps, NEW pf, NEW M \in SUBSET Tables, NEW n \in Tables \ M,
           NEW l \in LinesOf(ps, pf, M), NEW r
    PROVE  l.date # TableDate(n, r)
<1>1. CASE \E s \in D!Listed(ps, pf) : l \in D!ClassLines(ps, pf, s)
  <2>1. PICK s \in D!Listed(ps, pf) : l \in D!ClassLines(ps, pf, s)
    BY <1>1
  <2>2. PICK q \in 1..SlotRows[s] : l = D!ClassLine(ps, pf, s, q)
    BY <2>1, RowsOfClasses
  <2> QED
    BY <2>2, DatesOfLines, DatesDiffer
<1>2. CASE \E m \in M : l \in D!TableLines(pf, m)
  <2>1. PICK m \in M : l \in D!TableLines(pf, m)
    BY <1>2
  <2>2. PICK q \in 1..TableRows[m] : l = D!TableLine(pf, m, q)
    BY <2>1, RowsOfTables
  <2> QED
    BY <2>2, DatesOfLines, DatesDiffer
<1> QED
  BY <1>1, <1>2, InLines

\* The lines of a list by the numbers of entry and row.
ListLines(pf, list) == [x \in Positions(list) |-> LineAt(pf, list, x[1], x[2])]

\* A position is an entry and a row in it.
LEMMA PositionsAre ==
    ASSUME NEW list, NEW x
    PROVE  x \in Positions(list) <=>
             \E i \in DOMAIN list : \E j \in DOMAIN list[i].dates : x = <<i, j>>
  BY DEF Positions

\* The files follow from the lines.
LEMMA GatheredLines ==
    ASSUME NEW list, NEW ps, NEW M
    PROVE  Gathered(prefs, list, ps, M) <=>
             /\ Range(ListLines(prefs, list)) = LinesOf(ps, prefs, M)
             /\ IsInjective(ListLines(prefs, list))
<1>1. /\ Exported(prefs, list).lines = ListLines(prefs, list)
      /\ Exported(prefs, list).files = IF prefs.colors THEN {l.file : l \in Range(ListLines(prefs, list))}
                                                ELSE {AllInOne}
  BY DEF Exported, ListLines
<1> QED
  BY <1>1, SameWords DEF Gathered, D!Holds

\* A list gathers what is wanted when its rows give these lines, each once.
LEMMA GatheredByRows ==
    ASSUME NEW list, NEW ps, NEW M
    PROVE  Gathered(prefs, list, ps, M) <=>
             /\ \A l : l \in LinesOf(ps, prefs, M) <=>
                  \E i \in DOMAIN list : \E j \in DOMAIN list[i].dates : l = LineAt(prefs, list, i, j)
             /\ \A i, p \in DOMAIN list :
                 \A j \in DOMAIN list[i].dates, q \in DOMAIN list[p].dates :
                    LineAt(prefs, list, i, j) = LineAt(prefs, list, p, q) => i = p /\ j = q
<1> DEFINE f == ListLines(prefs, list)
<1>1. DOMAIN f = Positions(list)
  BY DEF ListLines
<1>2. \A i \in DOMAIN list : \A j \in DOMAIN list[i].dates :
        <<i, j>> \in Positions(list) /\ f[<<i, j>>] = LineAt(prefs, list, i, j)
  BY PositionsAre DEF ListLines
<1> HIDE DEF f
<1>3. \A l : l \in Range(f) <=>
        \E i \in DOMAIN list : \E j \in DOMAIN list[i].dates : l = LineAt(prefs, list, i, j)
  <2>1. \A l : l \in Range(f) <=> \E x \in Positions(list) : l = f[x]
    BY <1>1 DEF Range
  <2>2. ASSUME NEW x \in Positions(list)
        PROVE  \E i \in DOMAIN list : \E j \in DOMAIN list[i].dates : f[x] = LineAt(prefs, list, i, j)
    <3>1. PICK i \in DOMAIN list : \E j \in DOMAIN list[i].dates : x = <<i, j>>
      BY PositionsAre
    <3>2. PICK j \in DOMAIN list[i].dates : x = <<i, j>>
      BY <3>1
    <3> QED
      BY <1>2, <3>2
  <2>3. ASSUME NEW i \in DOMAIN list, NEW j \in DOMAIN list[i].dates
        PROVE  \E x \in Positions(list) : LineAt(prefs, list, i, j) = f[x]
    BY <1>2
  <2> QED
    BY <2>1, <2>2, <2>3
<1>4. IsInjective(f) <=>
        \A i, p \in DOMAIN list :
            \A j \in DOMAIN list[i].dates, q \in DOMAIN list[p].dates :
                LineAt(prefs, list, i, j) = LineAt(prefs, list, p, q) => i = p /\ j = q
  <2>1. IsInjective(f) <=> \A x, y \in Positions(list) : f[x] = f[y] => x = y
    BY <1>1 DEF IsInjective
  <2>2. ASSUME IsInjective(f),
               NEW i \in DOMAIN list, NEW p \in DOMAIN list,
               NEW j \in DOMAIN list[i].dates, NEW q \in DOMAIN list[p].dates,
               LineAt(prefs, list, i, j) = LineAt(prefs, list, p, q)
        PROVE  i = p /\ j = q
    <3> DEFINE x == <<i, j>>
               y == <<p, q>>
    <3>1. /\ x \in Positions(list) /\ f[x] = LineAt(prefs, list, i, j)
          /\ y \in Positions(list) /\ f[y] = LineAt(prefs, list, p, q)
      BY <1>2
    <3>2. x = y
      <4> HIDE DEF x, y
      <4> QED
        BY <2>1, <2>2, <3>1
    <3> QED
      BY <3>2
  <2>3. ASSUME \A i, p \in DOMAIN list :
                 \A j \in DOMAIN list[i].dates, q \in DOMAIN list[p].dates :
                    LineAt(prefs, list, i, j) = LineAt(prefs, list, p, q) => i = p /\ j = q,
               NEW x \in Positions(list), NEW y \in Positions(list), f[x] = f[y]
        PROVE  x = y
    <3>1. PICK i \in DOMAIN list : \E j \in DOMAIN list[i].dates : x = <<i, j>>
      BY PositionsAre
    <3>2. PICK j \in DOMAIN list[i].dates : x = <<i, j>>
      BY <3>1
    <3>3. PICK p \in DOMAIN list : \E q \in DOMAIN list[p].dates : y = <<p, q>>
      BY PositionsAre
    <3>4. PICK q \in DOMAIN list[p].dates : y = <<p, q>>
      BY <3>3
    <3>5. LineAt(prefs, list, i, j) = LineAt(prefs, list, p, q)
      BY <1>2, <2>3, <3>2, <3>4
    <3> QED
      BY <2>3, <3>2, <3>4, <3>5
  <2> QED
    BY <2>1, <2>2, <2>3
<1>5. Range(f) = LinesOf(ps, prefs, M) <=> \A l : l \in LinesOf(ps, prefs, M) <=> l \in Range(f)
  OBVIOUS
<1>6. Gathered(prefs, list, ps, M) <=> Range(f) = LinesOf(ps, prefs, M) /\ IsInjective(f)
  BY GatheredLines DEF f
<1> QED
  BY <1>3, <1>4, <1>5, <1>6

-----------------------------------------------------------------------------
(* The classes.                                                            *)

\* Equal names have equal texts.
LEMMA NamesDiffer ==
    ASSUME NEW h, NEW t, NEW g, NEW u, Name(h, t) = Name(g, u)
    PROVE  t = u
<1>1. Name(h, t).text = t /\ Name(g, u).text = u
  BY DEF Name
<1> QED
  BY <1>1

\* An entry for a slot has all rows of the slot, or none.
LEMMA FreshFilled ==
    ASSUME schedule \in Schedule, prefs \in Prefs, prefs.classes, NEW i \in 1..NumSlots
    PROVE  LET s == i - 1
               e == Filled(FreshEntries[i], s)
           IN  /\ s \in D!Listed(schedule, prefs) => DOMAIN e.dates = 1..SlotRows[s]
               /\ s \notin D!Listed(schedule, prefs) => DOMAIN e.dates = {}
               /\ \A j \in DOMAIN e.dates :
                    /\ e.dates[j] = ClassDate(s, j)
                    /\ e.name = Name(prefs.headings, schedule[s].className)
               /\ e.room = schedule[s].roomName /\ e.color = schedule[s].colorId
<1> DEFINE s == i - 1
           c == schedule[s].className
           fresh == FreshEntries[i]
           e == Filled(fresh, s)
           rows == [r \in 1..SlotRows[s] |-> ClassDate(s, r)]
<1>1. s \in Slots /\ SlotRows[s] \in Nat
  BY ListAssumption, RowsAssumption
<1>2. /\ fresh.name = Name(FALSE, c) /\ fresh.dates = <<>>
      /\ fresh.room = schedule[s].roomName /\ fresh.color = schedule[s].colorId
  BY DEF FreshEntries, Entry
<1>3. fresh \in Entries
  BY FreshTyped
<1>4. s \in D!Listed(schedule, prefs) <=> c # NoText \/ prefs.free
  BY <1>1 DEF D!Listed
<1>5. <<>> \o rows = rows /\ DOMAIN rows = 1..SlotRows[s]
  <2>1. rows \in Seq(Dates)
    BY <1>1, ClassDatesTyped
  <2> QED
    BY <2>1, ConcatEmptySeq
<1> HIDE DEF fresh, c
<1>6. CASE c # NoText \/ prefs.free
  <2> DEFINE name == Name(prefs.headings, c)
  <2>1. Shown(fresh.name) /\ Shown(name)
    BY <1>2, <1>6, NamesDiffer DEF Shown
  <2>2. CASE SlotRows[s] > 0
    <3>1. e = [fresh EXCEPT !.name = name, !.dates = @ \o rows]
      BY <2>1, <2>2 DEF Filled, c
    <3>2. /\ e.name = name /\ e.dates = rows
          /\ e.room = fresh.room /\ e.color = fresh.color
      <4> HIDE DEF name, rows, e
      <4> QED
        BY <1>2, <1>3, <1>5, <3>1 DEF Entries
    <3>3. \A j \in DOMAIN rows : rows[j] = ClassDate(s, j)
      OBVIOUS
    <3> HIDE DEF rows, e, name
    <3>4. /\ s \in D!Listed(schedule, prefs) /\ DOMAIN e.dates = 1..SlotRows[s]
          /\ \A j \in DOMAIN e.dates : e.dates[j] = ClassDate(s, j)
      BY <1>4, <1>5, <1>6, <3>2, <3>3
    <3> QED
      BY <1>2, <3>2, <3>4 DEF e, fresh, name, c
  <2>3. CASE ~(SlotRows[s] > 0)
    <3>1. e = fresh
      BY <2>3 DEF Filled
    <3>2. DOMAIN e.dates = {} /\ 1..SlotRows[s] = {}
      BY <1>1, <1>2, <2>3, <3>1
    <3> HIDE DEF e
    <3> QED
      BY <1>2, <1>4, <1>6, <3>1, <3>2 DEF e, fresh
  <2> QED
    BY <2>2, <2>3
<1>7. CASE ~(c # NoText \/ prefs.free)
  <2>1. ~Shown(fresh.name)
    BY <1>2, <1>7 DEF Shown
  <2>2. e = fresh
    BY <2>1 DEF Filled
  <2>3. DOMAIN e.dates = {}
    BY <1>2, <2>2
  <2> HIDE DEF e
  <2> QED
    BY <1>2, <1>4, <1>7, <2>2, <2>3 DEF e, fresh
<1> QED
  BY <1>6, <1>7

\* The list after classes.csv, of a run that has found the list cleared.
LEMMA YearListEntries ==
    ASSUME TypeOK, prefs.classes, schedule # NoPeriods, yearPeriods = <<>>
    PROVE  /\ DOMAIN YearList = 1..NumSlots
           /\ \A i \in 1..NumSlots :
                LET e == Filled(FreshEntries[i], i - 1)
                IN  /\ YearList[i].dates = e.dates /\ YearList[i].name = e.name
                    /\ YearList[i].room = e.room
                    /\ prefs.colors => YearList[i].color = e.color
<1> DEFINE list == WithClasses(FreshEntries)
<1>1. schedule \in Schedule /\ prefs \in Prefs /\ NumSlots \in Nat
  BY ListAssumption DEF TypeOK
<1>2. FreshEntries \in Seq(Entries) /\ DOMAIN FreshEntries = 1..NumSlots
  BY <1>1, FreshTyped, ListTyped
<1>3. yearPeriods \o FreshEntries = FreshEntries
  BY <1>2, ConcatEmptySeq
<1>4. /\ DOMAIN list = 1..NumSlots
      /\ \A i \in 1..NumSlots : list[i] = Filled(FreshEntries[i], i - 1)
  BY <1>1, <1>2 DEF WithClasses
<1>5. \A i \in 1..NumSlots : list[i] \in Entries
  <2>1. \A i \in 1..NumSlots : FreshEntries[i] \in Entries /\ i - 1 \in Slots
    BY <1>1, FreshTyped, ListAssumption
  <2> QED
    BY <1>1, <1>4, <2>1, FilledTyped
<1>6. YearList = IF prefs.colors THEN list ELSE WithoutColors(list)
  BY <1>3 DEF YearList
<1> HIDE DEF list
<1>7. CASE prefs.colors
  BY <1>4, <1>6, <1>7
<1>8. CASE ~prefs.colors
  <2>1. YearList = [i \in 1..NumSlots |-> [list[i] EXCEPT !.color = NoColor]]
    BY <1>4, <1>6, <1>8 DEF WithoutColors
  <2>2. \A i \in 1..NumSlots :
           /\ YearList[i].dates = list[i].dates /\ YearList[i].name = list[i].name
           /\ YearList[i].room = list[i].room
    BY <1>5, <2>1 DEF Entries
  <2> QED
    BY <1>4, <1>8, <2>1, <2>2
<1> QED
  BY <1>7, <1>8

\* The rows of the slots are the wanted lines of the classes.
LEMMA YearListLines ==
    ASSUME TypeOK, prefs.classes, schedule # NoPeriods, yearPeriods = <<>>,
           NEW i \in 1..NumSlots
    PROVE  /\ i - 1 \in D!Listed(schedule, prefs) =>
                DOMAIN YearList[i].dates = 1..SlotRows[i - 1]
           /\ i - 1 \notin D!Listed(schedule, prefs) => DOMAIN YearList[i].dates = {}
           /\ \A j \in DOMAIN YearList[i].dates :
                LineAt(prefs, YearList, i, j) = D!ClassLine(schedule, prefs, i - 1, j)
<1> DEFINE s == i - 1
           e == Filled(FreshEntries[i], s)
           x == YearList[i]
<1>1. schedule \in Schedule /\ prefs \in Prefs
  BY DEF TypeOK
<1>2. /\ s \in D!Listed(schedule, prefs) => DOMAIN e.dates = 1..SlotRows[s]
      /\ s \notin D!Listed(schedule, prefs) => DOMAIN e.dates = {}
      /\ \A j \in DOMAIN e.dates :
           e.dates[j] = ClassDate(s, j) /\ e.name = Name(prefs.headings, schedule[s].className)
      /\ e.room = schedule[s].roomName /\ e.color = schedule[s].colorId
  BY <1>1, FreshFilled
<1>3. /\ x.dates = e.dates /\ x.name = e.name /\ x.room = e.room
      /\ prefs.colors => x.color = e.color
  BY YearListEntries
<1>4. ASSUME NEW j \in DOMAIN x.dates
      PROVE  LineAt(prefs, YearList, i, j) = D!ClassLine(schedule, prefs, s, j)
  <2> DEFINE file == IF prefs.colors THEN x.color ELSE AllInOne
  <2>1. LineAt(prefs, YearList, i, j) = Line(file, x.name, x.room, x.dates[j])
    BY DEF LineAt
  <2>2. D!ClassLine(schedule, prefs, s, j) =
          Line(IF prefs.colors THEN schedule[s].colorId ELSE AllInOne,
               Name(prefs.headings, schedule[s].className), schedule[s].roomName,
               ClassDate(s, j))
    BY Zenon, SameWords DEF D!ClassLine
  <2>3. file = IF prefs.colors THEN schedule[s].colorId ELSE AllInOne
    BY <1>2, <1>3
  <2>4. /\ x.name = Name(prefs.headings, schedule[s].className)
        /\ x.room = schedule[s].roomName /\ x.dates[j] = ClassDate(s, j)
    BY <1>2, <1>3, <1>4
  <2> HIDE DEF file, x
  <2> QED
    BY <2>1, <2>2, <2>3, <2>4
<1> QED
  BY <1>2, <1>3, <1>4

\* After classes.csv the list has gathered the classes of that moment.
LEMMA GatheredFill ==
    ASSUME TypeOK, prefs.classes => schedule # NoPeriods, yearPeriods = <<>>
    PROVE  Gathered(prefs, YearList, schedule, {})
<1> DEFINE L == LinesOf(schedule, prefs, {})
<1>1. CASE prefs.classes
  <2>1. DOMAIN YearList = 1..NumSlots
    BY <1>1, YearListEntries
  <2>2. ASSUME NEW l
        PROVE  l \in L <=> \E i \in DOMAIN YearList : \E j \in DOMAIN YearList[i].dates :
                               l = LineAt(prefs, YearList, i, j)
    <3>1. l \in L <=> \E s \in D!Listed(schedule, prefs) :
                        \E j \in 1..SlotRows[s] : l = D!ClassLine(schedule, prefs, s, j)
      BY InLines, RowsOfClasses
    <3>2. D!Listed(schedule, prefs) \subseteq Slots
      BY DEF D!Listed
    <3>3. ASSUME NEW s \in D!Listed(schedule, prefs), NEW j \in 1..SlotRows[s],
                 l = D!ClassLine(schedule, prefs, s, j)
          PROVE  \E i \in DOMAIN YearList : \E q \in DOMAIN YearList[i].dates :
                    l = LineAt(prefs, YearList, i, q)
      <4> DEFINE i == s + 1
      <4>1. i \in 1..NumSlots /\ i - 1 = s
        BY <3>2, ListAssumption
      <4> HIDE DEF i
      <4>2. j \in DOMAIN YearList[i].dates /\ LineAt(prefs, YearList, i, j) = l
        BY <1>1, <3>3, <4>1, YearListLines
      <4> QED
        BY <2>1, <4>1, <4>2
    <3>4. ASSUME NEW i \in DOMAIN YearList, NEW j \in DOMAIN YearList[i].dates,
                 l = LineAt(prefs, YearList, i, j)
          PROVE  \E s \in D!Listed(schedule, prefs) :
                    \E q \in 1..SlotRows[s] : l = D!ClassLine(schedule, prefs, s, q)
      BY <1>1, <2>1, <3>4, YearListLines
    <3> QED
      BY <3>1, <3>3, <3>4
  <2>3. ASSUME NEW i \in DOMAIN YearList, NEW p \in DOMAIN YearList,
               NEW j \in DOMAIN YearList[i].dates, NEW q \in DOMAIN YearList[p].dates,
               LineAt(prefs, YearList, i, j) = LineAt(prefs, YearList, p, q)
        PROVE  i = p /\ j = q
    <3>1. D!ClassLine(schedule, prefs, i - 1, j) = D!ClassLine(schedule, prefs, p - 1, q)
      BY <1>1, <2>1, <2>3, YearListLines
    <3>2. ClassDate(i - 1, j) = ClassDate(p - 1, q)
      BY <3>1, DatesOfLines
    <3>3. i - 1 = p - 1 /\ j = q
      BY <3>2, DatesDiffer
    <3> QED
      BY <2>1, <3>3, ListAssumption
  <2> QED
    BY <2>2, <2>3, GatheredByRows
<1>2. CASE ~prefs.classes
  <2>1. DOMAIN YearList = {}
    BY <1>2 DEF YearList, WithoutColors
  <2>2. \A l : l \notin L
    <3>1. D!Listed(schedule, prefs) = {}
      BY <1>2 DEF D!Listed
    <3> QED
      BY <3>1, InLines
  <2> QED
    BY <2>1, <2>2, GatheredByRows
<1> QED
  BY <1>1, <1>2

-----------------------------------------------------------------------------
(* The extra events.                                                       *)

\* What a longer list looks like.
LEMMA AppendedEntries ==
    ASSUME TypeOK, NEW n \in Tables
    PROVE  LET list == yearPeriods \o TableEntries(n)
               m == Len(yearPeriods)
           IN  /\ m \in Nat /\ DOMAIN yearPeriods = 1..m
               /\ DOMAIN list = 1..(m + TableRows[n])
               /\ \A i \in 1..m : list[i] = yearPeriods[i]
               /\ \A r \in 1..TableRows[n] : list[m + r] = TableEntries(n)[r]
<1>1. yearPeriods \in Seq(Entries)
  BY DEF TypeOK
<1>2. /\ TableRows[n] \in Nat /\ TableEntries(n) \in Seq(Entries)
      /\ Len(TableEntries(n)) = TableRows[n]
  BY TableTyped, ListTyped
<1> DEFINE add == TableEntries(n)
<1> HIDE DEF add
<1>3. /\ yearPeriods \o add \in Seq(Entries)
      /\ Len(yearPeriods \o add) = Len(yearPeriods) + Len(add)
      /\ \A i \in 1..(Len(yearPeriods) + Len(add)) : (yearPeriods \o add)[i] =
            IF i <= Len(yearPeriods) THEN yearPeriods[i] ELSE add[i - Len(yearPeriods)]
  BY <1>1, <1>2, ConcatProperties DEF add
<1>4. Len(yearPeriods) \in Nat /\ Len(add) = TableRows[n]
  BY <1>1, <1>2, LenProperties DEF add
<1>5. DOMAIN yearPeriods = 1..Len(yearPeriods)
  BY <1>1, LenProperties
<1>6. DOMAIN (yearPeriods \o add) = 1..(Len(yearPeriods) + TableRows[n])
  BY <1>3, <1>4, LenProperties
<1>7. ASSUME NEW i \in 1..Len(yearPeriods)
      PROVE  (yearPeriods \o add)[i] = yearPeriods[i]
  BY <1>2, <1>3, <1>4
<1>8. ASSUME NEW r \in 1..TableRows[n]
      PROVE  (yearPeriods \o add)[Len(yearPeriods) + r] = add[r]
  <2> DEFINE i == Len(yearPeriods) + r
  <2>1. i \in 1..(Len(yearPeriods) + Len(add)) /\ ~(i <= Len(yearPeriods)) /\ i - Len(yearPeriods) = r
    BY <1>2, <1>4
  <2> QED
    BY <1>3, <2>1
<1> QED
  BY <1>4, <1>5, <1>6, <1>7, <1>8 DEF add

\* The one row of an entry for an event is the line of that event.
LEMMA TableEntryLine ==
    ASSUME NEW n \in Tables, NEW r \in 1..TableRows[n], NEW list, NEW i,
           list[i] = TableEntries(n)[r]
    PROVE  /\ DOMAIN list[i].dates = {1}
           /\ LineAt(prefs, list, i, 1) = D!TableLine(prefs, n, r)
<1> DEFINE e == list[i]
<1>0. \A name, room, color, dates :
        /\ Entry(name, room, color, dates).name = name
        /\ Entry(name, room, color, dates).room = room
        /\ Entry(name, room, color, dates).color = color
        /\ Entry(name, room, color, dates).dates = dates
  BY DEF Entry
<1>1. /\ e.name = Name(FALSE, Subject) /\ e.room = NoText /\ e.color = NoColor
      /\ e.dates = <<TableDate(n, r)>>
  <2>1. e = Entry(Name(FALSE, Subject), NoText, NoColor, <<TableDate(n, r)>>)
    BY DEF TableEntries
  <2> HIDE DEF e
  <2>2. \A name : Entry(name, NoText, NoColor, <<TableDate(n, r)>>).name = name
    BY <1>0
  <2>3. e.name = Name(FALSE, Subject)
    BY Zenon, <2>1, <2>2
  <2>4. \E name : e = Entry(name, NoText, NoColor, <<TableDate(n, r)>>)
    BY Zenon, <2>1
  <2> QED
    BY <1>0, <2>3, <2>4
<1>2. DOMAIN e.dates = {1} /\ e.dates[1] = TableDate(n, r)
  BY <1>1
<1>3. LineAt(prefs, list, i, 1) = Line(IF prefs.colors THEN e.color ELSE AllInOne,
                               e.name, e.room, e.dates[1])
  BY DEF LineAt
<1> HIDE DEF e
<1>4. D!TableLine(prefs, n, r) = Line(IF prefs.colors THEN NoColor ELSE AllInOne,
                                     Name(FALSE, Subject), NoText, TableDate(n, r))
  BY Zenon, SameWords DEF D!TableLine, OtherEvents
<1> QED
  BY <1>1, <1>2, <1>3, <1>4 DEF e

\* Adding a file once more on top of other files keeps each event single.
LEMMA GatheredAdd ==
    ASSUME TypeOK, NEW ps, NEW M \in SUBSET Tables, NEW n \in Tables \ M,
           Gathered(prefs, yearPeriods, ps, M)
    PROVE  Gathered(prefs, yearPeriods \o TableEntries(n), ps, M \cup {n})
<1> DEFINE old == yearPeriods
           list == yearPeriods \o TableEntries(n)
           m == Len(yearPeriods)
           L == LinesOf(ps, prefs, M)
<1>1. /\ m \in Nat /\ DOMAIN old = 1..m /\ DOMAIN list = 1..(m + TableRows[n])
      /\ \A i \in 1..m : list[i] = old[i]
      /\ \A r \in 1..TableRows[n] : list[m + r] = TableEntries(n)[r]
      /\ TableRows[n] \in Nat
  BY AppendedEntries, TableTyped
<1>2. /\ \A l : l \in L <=> \E i \in DOMAIN old : \E j \in DOMAIN old[i].dates : l = LineAt(prefs, old, i, j)
      /\ \A i, p \in DOMAIN old : \A j \in DOMAIN old[i].dates, q \in DOMAIN old[p].dates :
            LineAt(prefs, old, i, j) = LineAt(prefs, old, p, q) => i = p /\ j = q
  BY GatheredByRows
<1> HIDE DEF list, m, L
<1>3. ASSUME NEW i \in 1..m
      PROVE  /\ i \in DOMAIN list /\ i \in DOMAIN old /\ DOMAIN list[i].dates = DOMAIN old[i].dates
             /\ \A j : LineAt(prefs, list, i, j) = LineAt(prefs, old, i, j)
  BY <1>1 DEF LineAt
<1>4. ASSUME NEW r \in 1..TableRows[n]
      PROVE  /\ m + r \in DOMAIN list
             /\ DOMAIN list[m + r].dates = {1}
             /\ LineAt(prefs, list, m + r, 1) = D!TableLine(prefs, n, r)
  <2>1. m + r \in 1..(m + TableRows[n])
    BY <1>1
  <2>2. list[m + r] = TableEntries(n)[r]
    BY <1>1
  <2> QED
    BY <1>1, <2>1, <2>2, TableEntryLine
<1>5. ASSUME NEW i \in DOMAIN list
      PROVE  i \in 1..m \/ \E r \in 1..TableRows[n] : i = m + r
  <2>1. CASE i <= m
    BY <1>1, <2>1
  <2>2. CASE ~(i <= m)
    <3>1. i - m \in 1..TableRows[n] /\ i = m + (i - m)
      BY <1>1, <2>2
    <3> QED
      BY <3>1
  <2> QED
    BY <2>1, <2>2
<1>6. \A l : l \in LinesOf(ps, prefs, M \cup {n}) <=>
               l \in L \/ \E r \in 1..TableRows[n] : l = D!TableLine(prefs, n, r)
  <2> DEFINE N == M \cup {n}
  <2>1. \A x : x \in N <=> x \in M \/ x = n
    OBVIOUS
  <2> HIDE DEF N
  <2>2. \A l : l \in LinesOf(ps, prefs, N) <=> l \in L \/ l \in D!TableLines(prefs, n)
    BY <2>1, OneMoreFile DEF L
  <2>3. \A l : l \in D!TableLines(prefs, n) <=>
                 \E r \in 1..TableRows[n] : l = D!TableLine(prefs, n, r)
    BY RowsOfTables
  <2> QED
    BY <2>2, <2>3 DEF N
<1>7. ASSUME NEW l
      PROVE  l \in LinesOf(ps, prefs, M \cup {n}) <=>
               \E i \in DOMAIN list : \E j \in DOMAIN list[i].dates : l = LineAt(prefs, list, i, j)
  <2>1. ASSUME l \in L
        PROVE  \E i \in DOMAIN list : \E j \in DOMAIN list[i].dates : l = LineAt(prefs, list, i, j)
    <3>1. PICK i \in DOMAIN old : \E j \in DOMAIN old[i].dates : l = LineAt(prefs, old, i, j)
      BY <1>2, <2>1
    <3> QED
      BY <1>1, <1>3, <3>1
  <2>2. ASSUME NEW r \in 1..TableRows[n], l = D!TableLine(prefs, n, r)
        PROVE  \E i \in DOMAIN list : \E j \in DOMAIN list[i].dates : l = LineAt(prefs, list, i, j)
    BY <1>4, <2>2
  <2>3. ASSUME NEW i \in DOMAIN list, NEW j \in DOMAIN list[i].dates, l = LineAt(prefs, list, i, j)
        PROVE  l \in L \/ \E r \in 1..TableRows[n] : l = D!TableLine(prefs, n, r)
    <3>1. CASE i \in 1..m
      BY <1>2, <1>3, <2>3, <3>1
    <3>2. CASE \E r \in 1..TableRows[n] : i = m + r
      BY <1>4, <2>3, <3>2
    <3> QED
      BY <1>5, <3>1, <3>2
  <2> QED
    BY <1>6, <2>1, <2>2, <2>3
<1>8. ASSUME NEW i \in DOMAIN list, NEW p \in DOMAIN list,
             NEW j \in DOMAIN list[i].dates, NEW q \in DOMAIN list[p].dates,
             LineAt(prefs, list, i, j) = LineAt(prefs, list, p, q)
      PROVE  i = p /\ j = q
  <2>1. ASSUME NEW x \in 1..m, NEW y \in DOMAIN list[x].dates, NEW r \in 1..TableRows[n]
        PROVE  LineAt(prefs, list, x, y) # LineAt(prefs, list, m + r, 1)
    <3>1. LineAt(prefs, list, x, y) \in L
      BY <1>2, <1>3
    <3>2. LineAt(prefs, list, x, y).date # TableDate(n, r)
      BY <3>1, OtherDates DEF L
    <3>3. LineAt(prefs, list, m + r, 1).date = TableDate(n, r)
      BY <1>4, DatesOfLines
    <3> QED
      BY <3>2, <3>3
  <2>2. CASE i \in 1..m /\ p \in 1..m
    BY <1>2, <1>3, <1>8, <2>2
  <2>3. CASE i \in 1..m /\ \E r \in 1..TableRows[n] : p = m + r
    BY <1>4, <1>8, <2>1, <2>3
  <2>4. CASE p \in 1..m /\ \E r \in 1..TableRows[n] : i = m + r
    BY <1>4, <1>8, <2>1, <2>4
  <2>5. CASE (\E r \in 1..TableRows[n] : i = m + r) /\ (\E r \in 1..TableRows[n] : p = m + r)
    <3>1. PICK r \in 1..TableRows[n] : i = m + r
      BY <2>5
    <3>2. PICK t \in 1..TableRows[n] : p = m + t
      BY <2>5
    <3>3. j = 1 /\ q = 1
      BY <1>4, <3>1, <3>2
    <3>4. D!TableLine(prefs, n, r) = D!TableLine(prefs, n, t)
      BY <1>4, <1>8, <3>1, <3>2, <3>3
    <3>5. TableDate(n, r) = TableDate(n, t)
      BY <3>4, DatesOfLines
    <3>6. r = t
      BY <3>5, DatesDiffer
    <3> QED
      BY <3>1, <3>2, <3>3, <3>6
  <2> QED
    BY <1>5, <2>2, <2>3, <2>4, <2>5
<1> QED
  BY <1>7, <1>8, GatheredByRows DEF list

-----------------------------------------------------------------------------
(* The invariant of the refinement.  A settled press is the only one under *)
(* way, and what it has added so far is what the boxes below its file ask  *)
(* for.                                                                    *)

SoFar(k) ==
    /\ step[k] = "reading" => yearPeriods = <<>>
    /\ step[k] \in {"adding", "added"} =>
        (prefs.classes => taken[k] # NoPeriods)
    /\ step[k] = "adding" =>
        /\ table[k] \in prefs.tables
        /\ Gathered(prefs, yearPeriods, taken[k], {m \in prefs.tables : m < table[k]})
    /\ step[k] = "added" =>
        Gathered(prefs, yearPeriods, taken[k], {m \in prefs.tables : m <= table[k]})

SettledAlone == \A k \in settled : step[k] # "idle" => Running = {k}

TakenInTime == \A k \in Presses : step[k] \in {"idle", "reading"} => taken[k] = NoPeriods

ExportInv ==
    /\ TypeOK
    /\ TakenInTime
    /\ SettledAlone
    /\ \A k \in settled : SoFar(k)

\* No run ends the quiet of a settled press by going on or stopping.
LEMMA AloneKept ==
    ASSUME TypeOK, SettledAlone, NEW k \in Presses, step[k] # "idle",
           settled' = settled, NEW v, step' = [step EXCEPT ![k] = v]
    PROVE  /\ SettledAlone'
           /\ \A j \in settled' : j # k => step'[j] = "idle"
<1>1. step \in [Presses -> {"idle", "reading", "adding", "added"}] /\ settled \subseteq Presses
  BY DEF TypeOK
<1>2. k \in Running
  BY DEF Running
<1>3. ASSUME NEW j \in settled, j # k PROVE step[j] = "idle" /\ step'[j] = "idle"
  BY <1>1, <1>2, <1>3 DEF SettledAlone
<1>4. ASSUME NEW j \in settled, step'[j] # "idle" PROVE Running' = {j}
  <2>1. j = k
    BY <1>3, <1>4
  <2>2. Running = {k}
    BY <2>1 DEF SettledAlone
  <2>3. \A i \in Presses : i # k => step'[i] = step[i] /\ step[i] = "idle"
    BY <1>1, <2>2 DEF Running
  <2> QED
    BY <1>4, <2>1, <2>3 DEF Running
<1> QED
  BY <1>3, <1>4 DEF SettledAlone

\* When a run goes on, its list is what it will need next; when it ends, what
\* it exports is what was wanted.
LEMMA GoOnSoFar ==
    ASSUME TypeOK, NEW k \in Presses, NEW n \in {0} \cup Tables, NEW list, NEW ps,
           GoOn(k, n, list, ps), prefs' = prefs, yearPeriods' = list,
           prefs.classes => ps # NoPeriods,
           Gathered(prefs, list, ps, {m \in prefs.tables : m <= n})
    PROVE  /\ SoFar(k)'
           /\ WantedAfter(n) = {} => D!Holds(download', prefs, D!Wanted(ps, prefs))
<1>0. prefs \in Prefs /\ step \in [Presses -> {"idle", "reading", "adding", "added"}]
      /\ table \in [Presses -> {0} \cup Tables] /\ taken \in [Presses -> Schedule \cup {NoPeriods}]
  BY DEF TypeOK
<1>1. CASE WantedAfter(n) # {}
  <2> DEFINE m == FirstOf(WantedAfter(n))
  <2>1. /\ m \in prefs.tables
        /\ {q \in prefs.tables : q < m} = {q \in prefs.tables : q <= n}
    BY <1>0, <1>1, NextFile
  <2>2. /\ step' = [step EXCEPT ![k] = "adding"]
        /\ table' = [table EXCEPT ![k] = m]
        /\ taken' = [taken EXCEPT ![k] = ps]
    BY <1>1 DEF GoOn
  <2> HIDE DEF m
  <2>3. step'[k] = "adding" /\ table'[k] = m /\ taken'[k] = ps
    BY <1>0, <2>2
  <2>4. Gathered(prefs, list, ps, {q \in prefs.tables : q < m})
    BY <2>1
  <2>5. Gathered(prefs', yearPeriods', taken'[k], {q \in prefs'.tables : q < table'[k]})
    BY <2>3, <2>4
  <2> QED
    BY <1>1, <2>1, <2>3, <2>5 DEF SoFar
<1>2. CASE WantedAfter(n) = {}
  <2>1. step'[k] = "idle" /\ download' = Exported(prefs, list)
    BY <1>0, <1>2 DEF GoOn
  <2>2. {m \in prefs.tables : m <= n} = prefs.tables
    <3>1. prefs.tables \subseteq Nat /\ n \in Nat
      BY <1>0, RowsAssumption DEF Prefs, Tables
    <3>2. \A m \in prefs.tables : m <= n
      BY <1>2, <3>1 DEF WantedAfter
    <3> QED
      BY <3>2
  <2>3. D!Holds(download', prefs, D!Wanted(ps, prefs))
    BY <2>1, <2>2, AllTheLines DEF Gathered
  <2> QED
    BY <2>1, <2>3 DEF SoFar
<1> QED
  BY <1>1, <1>2

\* The list of a settled run, before it goes on after classes.csv.
LEMMA FillReady ==
    ASSUME ExportInv, NEW k \in settled, Fill(k)
    PROVE  Gathered(prefs, YearList, schedule, {m \in prefs.tables : m <= 0})
<1>1. TypeOK /\ yearPeriods = <<>> /\ (prefs.classes => schedule # NoPeriods)
  BY DEF Fill, ExportInv, SoFar
<1>2. {m \in prefs.tables : m <= 0} = {}
  BY <1>1, RowsAssumption DEF TypeOK, Prefs, Tables
<1> QED
  BY <1>1, <1>2, GatheredFill

\* A run that fills its list has gathered the classes, and when no file is ticked
\* it hands out just them.
LEMMA InvOfFill ==
    ASSUME ExportInv, NEW k \in Presses, Fill(k)
    PROVE  /\ TakenInTime' /\ SettledAlone' /\ \A j \in settled' : SoFar(j)'
           /\ k \in settled /\ WantedAfter(0) = {} =>
                D!Holds(download', prefs, D!Wanted(schedule, prefs))
<1>1. /\ TypeOK /\ step \in [Presses -> {"idle", "reading", "adding", "added"}]
      /\ taken \in [Presses -> Schedule \cup {NoPeriods}] /\ step[k] = "reading"
      /\ TakenInTime /\ SettledAlone
  BY DEF ExportInv, TypeOK, Fill
<1>2. GoOn(k, 0, YearList, schedule)
  BY DEF Fill
<1>3. PICK v, q : /\ step' = [step EXCEPT ![k] = v]
                  /\ taken' = [taken EXCEPT ![k] = q]
                  /\ v \in {"idle", "adding"} /\ (v = "idle" => q = NoPeriods)
  BY <1>2 DEF GoOn
<1>4. TakenInTime'
  BY <1>1, <1>3 DEF TakenInTime
<1>5. SettledAlone' /\ \A j \in settled' : j # k => step'[j] = "idle"
  BY <1>1, <1>3, AloneKept DEF Fill
<1>6. \A j \in settled' : j # k => SoFar(j)'
  BY <1>5 DEF SoFar
<1>7. ASSUME k \in settled
      PROVE  /\ SoFar(k)'
             /\ WantedAfter(0) = {} => D!Holds(download', prefs, D!Wanted(schedule, prefs))
  BY <1>1, <1>2, <1>7, FillReady, GoOnSoFar DEF Fill
<1> QED
  BY <1>4, <1>5, <1>6, <1>7 DEF Fill

\* The files before n and n itself are those up to n.
LEMMA UpToFile ==
    ASSUME NEW T \in SUBSET Nat, NEW n \in T
    PROVE  LET M == {m \in T : m < n}
           IN  /\ M \subseteq T /\ n \notin M
               /\ M \cup {n} = {m \in T : m <= n}
<1> DEFINE M == {m \in T : m < n}
<1>1. \A m \in T : m <= n <=> m < n \/ m = n
  OBVIOUS
<1>2. M \cup {n} = {m \in T : m <= n}
  BY <1>1
<1>3. M \subseteq T /\ n \notin M
  OBVIOUS
<1> QED
  BY <1>2, <1>3

\* addExtraEvents adds the file it has read to what was gathered.
LEMMA InvOfAdd ==
    ASSUME ExportInv, NEW k \in Presses, AddExtraEvents(k)
    PROVE  TakenInTime' /\ SettledAlone' /\ \A j \in settled' : SoFar(j)'
<1>1. /\ TypeOK /\ step \in [Presses -> {"idle", "reading", "adding", "added"}]
      /\ step[k] = "adding" /\ TakenInTime /\ SettledAlone /\ prefs \in Prefs
      /\ step' = [step EXCEPT ![k] = "added"] /\ settled' = settled
  BY DEF ExportInv, TypeOK, AddExtraEvents
<1>2. TakenInTime'
  BY <1>1 DEF TakenInTime, AddExtraEvents
<1>3. SettledAlone' /\ \A j \in settled' : j # k => step'[j] = "idle"
  BY <1>1, AloneKept
<1>4. \A j \in settled' : j # k => SoFar(j)'
  BY <1>3 DEF SoFar
<1>5. ASSUME k \in settled PROVE SoFar(k)'
  <2> DEFINE n == table[k]
             M == {m \in prefs.tables : m < n}
  <2>1. /\ n \in prefs.tables /\ Gathered(prefs, yearPeriods, taken[k], M)
        /\ prefs.classes => taken[k] # NoPeriods
    BY <1>1, <1>5 DEF ExportInv, SoFar
  <2>2. prefs.tables \subseteq Tables /\ Tables \subseteq Nat
    BY <1>1, RowsAssumption DEF Prefs, Tables
  <2>3. prefs.tables \in SUBSET Nat
    BY <2>2
  <2>4. M \in SUBSET Tables /\ n \in Tables \ M /\ M \cup {n} = {m \in prefs.tables : m <= n}
    BY <2>1, <2>2, <2>3, UpToFile
  <2>5. Gathered(prefs, yearPeriods \o TableEntries(n), taken[k], M \cup {n})
    <3> HIDE DEF M, n
    <3> QED
      BY <1>1, <2>1, <2>4, GatheredAdd
  <2>6. Gathered(prefs, yearPeriods \o TableEntries(n), taken[k], {m \in prefs.tables : m <= n})
    BY <2>4, <2>5
  <2>7. /\ yearPeriods' = yearPeriods \o TableEntries(n) /\ step'[k] = "added"
        /\ prefs' = prefs /\ taken' = taken /\ table' = table
    BY <1>1 DEF AddExtraEvents
  <2>8. Gathered(prefs', yearPeriods', taken'[k], {m \in prefs'.tables : m <= table'[k]})
    BY <2>6, <2>7
  <2> QED
    BY <2>1, <2>7, <2>8 DEF SoFar
<1> QED
  BY <1>1, <1>2, <1>3, <1>4, <1>5

\* A run that goes on keeps what it has gathered, and after the last box hands it
\* out.
LEMMA InvOfResume ==
    ASSUME ExportInv, NEW k \in Presses, Resume(k)
    PROVE  /\ TakenInTime' /\ SettledAlone' /\ \A j \in settled' : SoFar(j)'
           /\ k \in settled /\ WantedAfter(table[k]) = {} =>
                D!Holds(download', prefs, D!Wanted(taken[k], prefs))
<1>1. /\ TypeOK /\ step \in [Presses -> {"idle", "reading", "adding", "added"}]
      /\ taken \in [Presses -> Schedule \cup {NoPeriods}] /\ step[k] = "added"
      /\ TakenInTime /\ SettledAlone /\ table[k] \in {0} \cup Tables
  BY DEF ExportInv, TypeOK, Resume
<1>2. GoOn(k, table[k], yearPeriods, taken[k])
  BY DEF Resume
<1>3. PICK v, q : /\ step' = [step EXCEPT ![k] = v]
                  /\ taken' = [taken EXCEPT ![k] = q]
                  /\ v \in {"idle", "adding"} /\ (v = "idle" => q = NoPeriods)
  BY <1>2 DEF GoOn
<1>4. TakenInTime'
  BY <1>1, <1>3 DEF TakenInTime
<1>5. SettledAlone' /\ \A j \in settled' : j # k => step'[j] = "idle"
  BY <1>1, <1>3, AloneKept DEF Resume
<1>6. \A j \in settled' : j # k => SoFar(j)'
  BY <1>5 DEF SoFar
<1>7. ASSUME k \in settled
      PROVE  /\ SoFar(k)'
             /\ WantedAfter(table[k]) = {} =>
                    D!Holds(download', prefs, D!Wanted(taken[k], prefs))
  <2>1. /\ Gathered(prefs, yearPeriods, taken[k], {m \in prefs.tables : m <= table[k]})
        /\ prefs.classes => taken[k] # NoPeriods
    BY <1>1, <1>7 DEF ExportInv, SoFar
  <2> QED
    BY <1>1, <1>2, <2>1, GoOnSoFar DEF Resume
<1> QED
  BY <1>4, <1>5, <1>6, <1>7 DEF Resume

\* A run that throws leaves no trace in the runs that count.
LEMMA InvOfStop ==
    ASSUME ExportInv, NEW k \in Presses, FillThrows(k) \/ ReadFails(k)
    PROVE  TakenInTime' /\ SettledAlone' /\ \A j \in settled' : SoFar(j)'
<1>1. /\ TypeOK /\ step \in [Presses -> {"idle", "reading", "adding", "added"}]
      /\ taken \in [Presses -> Schedule \cup {NoPeriods}]
      /\ step[k] # "idle" /\ TakenInTime /\ SettledAlone
      /\ step' = [step EXCEPT ![k] = "idle"] /\ settled' = settled
  BY DEF ExportInv, TypeOK, FillThrows, ReadFails
<1>2. TakenInTime'
  BY <1>1 DEF TakenInTime, FillThrows, ReadFails
<1>3. SettledAlone' /\ \A j \in settled' : j # k => step'[j] = "idle"
  BY <1>1, AloneKept
<1>4. \A j \in settled' : step'[j] = "idle"
  BY <1>1, <1>3
<1> QED
  BY <1>2, <1>3, <1>4 DEF SoFar

\* A press that meets no other starts from nothing; any other press counts for none.
LEMMA InvOfPress ==
    ASSUME ExportInv, NEW k \in Presses, Press(k)
    PROVE  TakenInTime' /\ SettledAlone' /\ \A j \in settled' : SoFar(j)'
<1>1. /\ step \in [Presses -> {"idle", "reading", "adding", "added"}]
      /\ step[k] = "idle" /\ TakenInTime
      /\ step' = [step EXCEPT ![k] = "reading"]
      /\ step'[k] = "reading" /\ yearPeriods' = <<>> /\ taken' = taken
  BY DEF ExportInv, TypeOK, Press
<1>2. TakenInTime'
  BY <1>1 DEF TakenInTime
<1>3. CASE Running = {}
  <2>1. settled' = {k}
    BY <1>3 DEF Press
  <2>2. Running' = {k}
    BY <1>1, <1>3 DEF Running
  <2> QED
    BY <1>1, <1>2, <2>1, <2>2 DEF SettledAlone, SoFar
<1>4. CASE Running # {}
  <2>1. settled' = {}
    BY <1>4 DEF Press
  <2> QED
    BY <1>2, <2>1 DEF SettledAlone
<1> QED
  BY <1>3, <1>4

\* The invariant is kept by every step.
LEMMA ExportInvKept ==
    ASSUME ExportInv, [Next]_vars
    PROVE  ExportInv'
<1>1. TypeOK /\ TypeOK'
  BY TypesKept DEF ExportInv
<1>2. ASSUME NEW k \in Presses, RunStep(k)
      PROVE  TakenInTime' /\ SettledAlone' /\ \A j \in settled' : SoFar(j)'
  BY <1>2, InvOfPress, InvOfFill, InvOfAdd, InvOfResume, InvOfStop DEF RunStep
<1>3. CASE BoxesSet
  <2>1. settled' = {} /\ taken' = taken /\ step' = step
    BY <1>3 DEF BoxesSet, SetBoxes
  <2> QED
    BY <1>1, <2>1 DEF ExportInv, TakenInTime, SettledAlone
<1>4. CASE ScheduleSet \/ UNCHANGED vars
  <2>1. UNCHANGED <<prefs, yearPeriods, step, table, settled, taken>>
    BY <1>4 DEF ScheduleSet, SetSchedule, vars
  <2>2. Running' = Running
    BY <2>1 DEF Running
  <2> QED
    BY <1>1, <2>1, <2>2 DEF ExportInv, TakenInTime, SettledAlone, SoFar
<1> QED
  BY <1>1, <1>2, <1>3, <1>4, ThreeKinds DEF ExportInv

-----------------------------------------------------------------------------
(* The refinement.                                                         *)

\* The phases are those of the steps.
LEMMA PhaseOf ==
    ASSUME TypeOK
    PROVE  /\ Phase \in [Presses -> {"idle", "asked", "taken"}]
           /\ \A k \in Presses :
                /\ Phase[k] = "idle" <=> step[k] = "idle"
                /\ Phase[k] = "asked" <=> step[k] = "reading"
                /\ Phase[k] = "taken" <=> step[k] \in {"adding", "added"}
<1>1. step \in [Presses -> {"idle", "reading", "adding", "added"}]
  BY DEF TypeOK
<1> QED
  BY <1>1 DEF Phase

\* A step of one press is a step of its phase.
LEMMA PhaseStep ==
    ASSUME TypeOK, TypeOK', NEW k \in Presses, NEW v, step' = [step EXCEPT ![k] = v]
    PROVE  /\ v = "idle" => Phase' = [Phase EXCEPT ![k] = "idle"]
           /\ v = "reading" => Phase' = [Phase EXCEPT ![k] = "asked"]
           /\ v \in {"adding", "added"} => Phase' = [Phase EXCEPT ![k] = "taken"]
<1>1. step \in [Presses -> {"idle", "reading", "adding", "added"}]
  BY DEF TypeOK
<1>2. step'[k] = v /\ \A j \in Presses : j # k => step'[j] = step[j]
  BY <1>1
<1>3. /\ Phase \in [Presses -> {"idle", "asked", "taken"}]
      /\ Phase' \in [Presses -> {"idle", "asked", "taken"}]
  <2>1. step' \in [Presses -> {"idle", "reading", "adding", "added"}]
    BY DEF TypeOK
  <2> QED
    BY <2>1, PhaseOf DEF Phase
<1>4. ASSUME NEW j \in Presses, j # k PROVE Phase'[j] = Phase[j]
  BY <1>2, <1>4 DEF Phase
<1>5. /\ v = "idle" => Phase'[k] = "idle"
      /\ v = "reading" => Phase'[k] = "asked"
      /\ v \in {"adding", "added"} => Phase'[k] = "taken"
  BY <1>2 DEF Phase
<1>6. \A w : Phase'[k] = w => Phase' = [Phase EXCEPT ![k] = w]
  BY <1>3, <1>4
<1> QED
  BY <1>5, <1>6

\* Downloads and YearExport mean the same runs by under way.
LEMMA BusyIsRunning ==
    ASSUME TypeOK
    PROVE  D!Busy = Running
  BY PhaseOf DEF D!Busy, Running, TypeOK

\* The end of a run is the answer to its press.
LEMMA EndIsAnswer ==
    ASSUME TypeOK, TypeOK', NEW k \in Presses, step[k] # "idle", NEW n, NEW list, NEW ps,
           GoOn(k, n, list, ps), WantedAfter(n) = {},
           UNCHANGED <<schedule, prefs, settled>>,
           ps = D!ScheduleOf(k),
           k \in settled => /\ prefs.classes => ps # NoPeriods
                            /\ D!Holds(download', prefs, D!Wanted(ps, prefs))
    PROVE  D!Answer(k)
<1>1. /\ step' = [step EXCEPT ![k] = "idle"]
      /\ taken' = [taken EXCEPT ![k] = NoPeriods]
  BY DEF GoOn
<1>2. Phase' = [Phase EXCEPT ![k] = "idle"]
  BY <1>1, PhaseStep
<1>3. k \in D!Busy
  BY BusyIsRunning DEF Running
<1> QED
  BY <1>1, <1>2, <1>3 DEF D!Answer, D!Over

\* Filling the list is taking the classes, or the answer when no file is ticked.
LEMMA FillImplements ==
    ASSUME ExportInv, ExportInv', NEW k \in Presses, Fill(k)
    PROVE  D!Take(k) \/ D!Answer(k)
<1>1. TypeOK /\ TypeOK' /\ step[k] = "reading" /\ GoOn(k, 0, YearList, schedule)
  BY DEF ExportInv, Fill
<1>2. Phase[k] = "asked"
  BY <1>1, PhaseOf
<1>3. CASE WantedAfter(0) # {}
  <2>1. /\ step' = [step EXCEPT ![k] = "adding"]
        /\ taken' = [taken EXCEPT ![k] = schedule] /\ download' = NoDownload
    BY <1>1, <1>3 DEF GoOn
  <2>2. Phase' = [Phase EXCEPT ![k] = "taken"]
    BY <1>1, <2>1, PhaseStep
  <2> QED
    BY <1>2, <2>1, <2>2, SameWords DEF D!Take, Fill
<1>4. CASE WantedAfter(0) = {}
  <2>1. k \in settled => D!Holds(download', prefs, D!Wanted(schedule, prefs))
    BY <1>4, InvOfFill
  <2>2. D!ScheduleOf(k) = schedule
    BY <1>2 DEF D!ScheduleOf
  <2>3. UNCHANGED <<schedule, prefs, settled>> /\ (prefs.classes => schedule # NoPeriods)
    BY DEF Fill
  <2>4. D!Answer(k)
    BY <1>1, <1>4, <2>1, <2>2, <2>3, EndIsAnswer
  <2> QED
    BY <2>4
<1> QED
  BY <1>3, <1>4

\* Going on is nothing, or the answer after the last box.
LEMMA ResumeImplements ==
    ASSUME ExportInv, ExportInv', NEW k \in Presses, Resume(k)
    PROVE  D!ChangeSchedule \/ D!Answer(k)
<1>1. /\ TypeOK /\ TypeOK' /\ step[k] = "added" /\ GoOn(k, table[k], yearPeriods, taken[k])
      /\ UNCHANGED <<schedule, prefs, settled>>
  BY DEF ExportInv, Resume
<1>2. Phase[k] = "taken"
  BY <1>1, PhaseOf
<1>3. CASE WantedAfter(table[k]) # {}
  <2>1. /\ step' = [step EXCEPT ![k] = "adding"]
        /\ taken' = [taken EXCEPT ![k] = taken[k]] /\ download' = NoDownload
    BY <1>1, <1>3 DEF GoOn
  <2>2. Phase' = [Phase EXCEPT ![k] = "taken"]
    BY <1>1, <2>1, PhaseStep
  <2>3. Phase' = Phase
    BY <1>1, <1>2, <2>2, PhaseOf
  <2>4. taken' = taken
    BY <1>1, <2>1 DEF TypeOK
  <2>5. schedule' \in D!Schedule \cup {NoPeriods}
    BY <1>1, SameSchedules DEF TypeOK
  <2> QED
    BY <1>1, <2>1, <2>3, <2>4, <2>5, SameWords DEF D!ChangeSchedule
<1>4. CASE WantedAfter(table[k]) = {}
  <2>1. k \in settled => D!Holds(download', prefs, D!Wanted(taken[k], prefs))
    BY <1>4, InvOfResume
  <2>2. D!ScheduleOf(k) = taken[k]
    BY <1>2 DEF D!ScheduleOf
  <2>3. k \in settled => (prefs.classes => taken[k] # NoPeriods)
    BY <1>1 DEF ExportInv, SoFar
  <2>4. D!Answer(k)
    BY <1>1, <1>4, <2>1, <2>2, <2>3, EndIsAnswer
  <2> QED
    BY <2>4
<1> QED
  BY <1>3, <1>4

\* A run that throws has failed for a reason that Downloads knows.
LEMMA StopImplements ==
    ASSUME ExportInv, ExportInv', NEW k \in Presses, FillThrows(k) \/ ReadFails(k)
    PROVE  D!Fail(k)
<1>1. /\ TypeOK /\ TypeOK' /\ step[k] # "idle" /\ step' = [step EXCEPT ![k] = "idle"]
      /\ download' = NoDownload /\ UNCHANGED <<schedule, prefs, settled>>
  BY DEF ExportInv, FillThrows, ReadFails
<1>2. taken' = [taken EXCEPT ![k] = NoPeriods]
  <2>1. CASE FillThrows(k)
    <3>1. taken[k] = NoPeriods /\ taken' = taken
      BY <2>1 DEF FillThrows, ExportInv, TakenInTime
    <3> QED
      BY <1>1, <3>1 DEF TypeOK
  <2>2. CASE ReadFails(k)
    BY <2>2 DEF ReadFails
  <2> QED
    BY <2>1, <2>2
<1>3. Phase' = [Phase EXCEPT ![k] = "idle"] /\ k \in D!Busy
  BY <1>1, PhaseStep, BusyIsRunning DEF Running
<1>4. AssetsFail \/ (Phase[k] = "asked" /\ prefs.classes /\ schedule = NoPeriods)
  BY <1>1, PhaseOf DEF FillThrows, ReadFails
<1> QED
  BY <1>1, <1>2, <1>3, <1>4, SameWords DEF D!Fail, D!Over

\* A press is a press.
LEMMA PressImplements ==
    ASSUME ExportInv, ExportInv', NEW k \in Presses, Press(k)
    PROVE  D!Press(k)
<1>1. TypeOK /\ TypeOK' /\ step[k] = "idle" /\ step' = [step EXCEPT ![k] = "reading"]
  BY DEF ExportInv, Press
<1>2. Phase[k] = "idle" /\ Phase' = [Phase EXCEPT ![k] = "asked"] /\ D!Busy = Running
  BY <1>1, PhaseOf, PhaseStep, BusyIsRunning
<1> QED
  BY <1>2, SameWords DEF Press, D!Press

\* Adding the events of a file is no step of Downloads.
LEMMA AddImplements ==
    ASSUME ExportInv, ExportInv', NEW k \in Presses, AddExtraEvents(k)
    PROVE  D!ChangeSchedule
<1>1. TypeOK /\ TypeOK' /\ step[k] = "adding" /\ step' = [step EXCEPT ![k] = "added"]
  BY DEF ExportInv, AddExtraEvents
<1>2. Phase' = [Phase EXCEPT ![k] = "taken"] /\ Phase[k] = "taken"
  BY <1>1, PhaseOf, PhaseStep
<1>3. Phase' = Phase
  BY <1>1, <1>2, PhaseOf
<1>4. schedule' \in D!Schedule \cup {NoPeriods}
  BY <1>1, SameSchedules DEF AddExtraEvents, TypeOK
<1> QED
  BY <1>3, <1>4, SameWords DEF AddExtraEvents, D!ChangeSchedule

\* Every step of the runs, the boxes and the schedule is one of Downloads.
LEMMA StepImplements ==
    ASSUME ExportInv, ExportInv', [Next]_vars
    PROVE  [D!Next]_(D!vars)
<1>1. ASSUME NEW k \in Presses, RunStep(k) PROVE D!Next
  <2>1. \/ D!Press(k) \/ D!Take(k) \/ D!Answer(k) \/ D!Fail(k)
        \/ D!ChangeSchedule
    BY <1>1, PressImplements, FillImplements, StopImplements, AddImplements,
       ResumeImplements DEF RunStep
  <2> QED
    BY <2>1 DEF D!Next
<1>2. step' = step => Phase' = Phase
  BY DEF Phase
<1>3. CASE BoxesSet
  <2>1. D!ChangeBox
    BY <1>2, <1>3, SameWords DEF BoxesSet, SetBoxes, Change, D!ChangeBox
  <2> QED
    BY <2>1 DEF D!Next
<1>4. CASE ScheduleSet
  <2>1. D!ChangeSchedule
    BY <1>2, <1>4, SameWords, SameSchedules
       DEF ScheduleSet, SetSchedule, Change, D!ChangeSchedule
  <2> QED
    BY <2>1 DEF D!Next
<1>5. CASE UNCHANGED vars
  BY <1>2, <1>5 DEF vars, D!vars
<1> QED
  BY <1>1, <1>3, <1>4, <1>5, ThreeKinds DEF ExportInv

\* A press that meets no other press and no change of a box is an export in
\* one go: fillYearPeriods, addExtraEvents and exportPeriodsToCSV deliver the
\* events of the ticked boxes, each once, with the classes of one moment.
THEOREM ExportsInOneGo == Spec => ImplementsDownloads
<1>1. Init => ExportInv
  <2>1. Init => TypeOK
    BY ListAssumption DEF Init, TypeOK, Prefs, DefaultPrefs
  <2> QED
    BY <2>1 DEF Init, ExportInv, TakenInTime, SettledAlone
<1>2. ExportInv /\ [Next]_vars => ExportInv'
  BY ExportInvKept
<1>3. Init => D!Init
  <2>1. Init => Phase = [k \in Presses |-> "idle"]
    BY DEF Init, Phase
  <2> QED
    BY <2>1, SameWords DEF Init, D!Init
<1>4. ExportInv /\ ExportInv' /\ [Next]_vars => [D!Next]_(D!vars)
  BY StepImplements
<1> QED
  BY <1>1, <1>2, <1>3, <1>4, PTL DEF Spec, ImplementsDownloads, D!Spec

-----------------------------------------------------------------------------
(* The safety half of EveryPressEnds: the walk over the boxes is finite.   *)

\* How many steps run k has left at most.
StepsLeft(k) ==
    CASE step[k] = "idle"    -> 0
      [] step[k] = "reading" -> 2 * NumTables + 1
      [] step[k] = "adding"  -> 2 * (NumTables - table[k]) + 2
      [] step[k] = "added"   -> 2 * (NumTables - table[k]) + 1

\* The steps left at each of the four places.
LEMMA StepsLeftAt ==
  ASSUME TypeOK, NEW k \in Presses
  PROVE  /\ StepsLeft(k) \in Nat
         /\ step[k] = "idle" => StepsLeft(k) = 0
         /\ step[k] = "reading" => StepsLeft(k) = 2 * NumTables + 1
         /\ step[k] = "adding" => StepsLeft(k) = 2 * (NumTables - table[k]) + 2
         /\ step[k] = "added" => StepsLeft(k) = 2 * (NumTables - table[k]) + 1
         /\ step[k] # "idle" => StepsLeft(k) > 0
         /\ step[k] \in {"adding", "added"} => table[k] \in 1..NumTables
<1>1. /\ step[k] \in {"idle", "reading", "adding", "added"} /\ NumTables \in Nat
      /\ step[k] \in {"adding", "added"} => table[k] \in 1..NumTables
  BY RowsAssumption DEF TypeOK, Tables
<1>2. CASE step[k] = "idle"
  BY <1>2 DEF StepsLeft
<1>3. CASE step[k] = "reading"
  BY <1>1, <1>3 DEF StepsLeft
<1>4. CASE step[k] = "adding"
  BY <1>1, <1>4 DEF StepsLeft
<1>5. CASE step[k] = "added"
  BY <1>1, <1>5 DEF StepsLeft
<1> QED
  BY <1>1, <1>2, <1>3, <1>4, <1>5

\* Going on from file n leaves fewer steps than the files after n could take.
LEMMA GoOnIsForward ==
  ASSUME TypeOK, TypeOK', NEW k \in Presses, NEW n \in {0} \cup Tables, NEW list, NEW ps,
         GoOn(k, n, list, ps)
  PROVE  StepsLeft(k)' < 2 * (NumTables - n) + 1
<1>1. /\ prefs \in Prefs /\ NumTables \in Nat /\ n \in 0..NumTables
      /\ step \in [Presses -> {"idle", "reading", "adding", "added"}]
      /\ table \in [Presses -> {0} \cup Tables]
      /\ prefs.tables \subseteq 1..NumTables
  BY RowsAssumption DEF TypeOK, Tables, Prefs
<1>2. CASE WantedAfter(n) # {}
  <2> DEFINE m == FirstOf(WantedAfter(n))
  <2>1. m \in 1..NumTables /\ m > n
    <3>1. WantedAfter(n) \subseteq Nat
      BY <1>1 DEF WantedAfter
    <3>2. m \in WantedAfter(n)
      BY <1>2, <3>1, FirstOfIsFirst
    <3> QED
      BY <1>1, <3>2 DEF WantedAfter
  <2>2. step' = [step EXCEPT ![k] = "adding"] /\ table' = [table EXCEPT ![k] = m]
    BY <1>2 DEF GoOn
  <2> HIDE DEF m
  <2>3. step'[k] = "adding" /\ table'[k] = m
    BY <1>1, <2>2
  <2>4. StepsLeft(k)' = 2 * (NumTables - m) + 2
    BY <2>3, StepsLeftAt DEF StepsLeft
  <2> QED
    BY <1>1, <2>1, <2>4
<1>3. CASE WantedAfter(n) = {}
  <2>1. step'[k] = "idle"
    BY <1>1, <1>3 DEF GoOn
  <2>2. StepsLeft(k)' = 0
    BY <2>1 DEF StepsLeft
  <2> QED
    BY <1>1, <2>2
<1> QED
  BY <1>2, <1>3

\* Every step of a run under way leaves it fewer steps.
LEMMA RunIsForward ==
  ASSUME TypeOK, TypeOK', NEW k \in Presses, RunSteps(k) \/ ReadFails(k)
  PROVE  StepsLeft(k)' < StepsLeft(k)
<1>1. /\ step \in [Presses -> {"idle", "reading", "adding", "added"}]
      /\ table \in [Presses -> {0} \cup Tables] /\ NumTables \in Nat
  BY RowsAssumption DEF TypeOK
<1>2. CASE Fill(k)
  <2>1. StepsLeft(k)' < 2 * (NumTables - 0) + 1
    BY <1>2, GoOnIsForward DEF Fill
  <2>2. StepsLeft(k) = 2 * NumTables + 1
    BY <1>2, StepsLeftAt DEF Fill
  <2> QED
    BY <1>1, <2>1, <2>2
<1>3. CASE AddExtraEvents(k)
  <2>1. step[k] = "adding" /\ step'[k] = "added" /\ table'[k] = table[k]
    BY <1>1, <1>3 DEF AddExtraEvents
  <2>2. StepsLeft(k)' = 2 * (NumTables - table[k]) + 1
    BY <2>1 DEF StepsLeft
  <2>3. StepsLeft(k) = 2 * (NumTables - table[k]) + 2 /\ table[k] \in 1..NumTables
    BY <2>1, StepsLeftAt
  <2> QED
    BY <1>1, <2>2, <2>3
<1>4. CASE Resume(k)
  <2>1. StepsLeft(k)' < 2 * (NumTables - table[k]) + 1
    BY <1>1, <1>4, GoOnIsForward DEF Resume
  <2>2. StepsLeft(k) = 2 * (NumTables - table[k]) + 1
    BY <1>4, StepsLeftAt DEF Resume
  <2> QED
    BY <2>1, <2>2
<1>5. CASE FillThrows(k) \/ ReadFails(k)
  <2>1. step[k] # "idle" /\ step'[k] = "idle"
    BY <1>1, <1>5 DEF FillThrows, ReadFails
  <2>2. StepsLeft(k)' = 0
    BY <2>1 DEF StepsLeft
  <2> QED
    BY <2>1, <2>2, StepsLeftAt
<1> QED
  BY <1>2, <1>3, <1>4, <1>5 DEF RunSteps

\* The steps of others, and of the user, leave the run where it is.
LEMMA OthersLeaveRun ==
  ASSUME TypeOK, [Next]_vars, NEW k \in Presses, step[k] # "idle",
         ~(RunSteps(k) \/ ReadFails(k))
  PROVE  StepsLeft(k)' = StepsLeft(k)
<1>1. /\ step \in [Presses -> {"idle", "reading", "adding", "added"}]
      /\ table \in [Presses -> {0} \cup Tables]
  BY DEF TypeOK
<1>2. ASSUME step'[k] = step[k], table'[k] = table[k] PROVE StepsLeft(k)' = StepsLeft(k)
  BY <1>2 DEF StepsLeft
<1>3. ASSUME NEW j \in Presses, RunStep(j) PROVE step'[k] = step[k] /\ table'[k] = table[k]
  <2>1. j # k
    BY <1>3 DEF RunStep, RunSteps, Press
  <2> QED
    BY <1>1, <1>3, <2>1
       DEF RunStep, Press, Fill, FillThrows, AddExtraEvents, Resume, ReadFails, GoOn
<1>4. ASSUME BoxesSet \/ ScheduleSet \/ UNCHANGED vars PROVE step' = step /\ table' = table
  BY <1>4 DEF BoxesSet, SetBoxes, ScheduleSet, SetSchedule, vars
<1> QED
  BY <1>2, <1>3, <1>4, ThreeKinds

\* A run takes at most 2 * NumTables + 1 steps, whatever boxes are ticked and
\* unticked during its walk and whatever the other runs do: each step of its own
\* lowers a number that nobody else changes.
THEOREM WalksAreFinite ==
  Spec => [][\A k \in Presses : step[k] # "idle" =>
                /\ StepsLeft(k)' \in Nat
                /\ StepsLeft(k)' <= StepsLeft(k)
                /\ RunSteps(k) => StepsLeft(k)' < StepsLeft(k)]_vars
<1>1. Init => TypeOK
  BY ListAssumption DEF Init, TypeOK, Prefs, DefaultPrefs
<1>2. TypeOK /\ [Next]_vars => TypeOK'
  BY TypesKept
<1>3. TypeOK' => (\A k \in Presses : StepsLeft(k) \in Nat)'
  <2>1. TypeOK => \A k \in Presses : StepsLeft(k) \in Nat
    BY StepsLeftAt
  <2> QED
    BY <2>1, PTL
<1>4. TypeOK /\ TypeOK' /\ [Next]_vars =>
        \A k \in Presses : step[k] # "idle" =>
            /\ StepsLeft(k)' \in Nat
            /\ StepsLeft(k)' <= StepsLeft(k)
            /\ RunSteps(k) => StepsLeft(k)' < StepsLeft(k)
  <2> SUFFICES ASSUME TypeOK, TypeOK', [Next]_vars, NEW k \in Presses, step[k] # "idle"
               PROVE  /\ StepsLeft(k)' \in Nat
                      /\ StepsLeft(k)' <= StepsLeft(k)
                      /\ RunSteps(k) => StepsLeft(k)' < StepsLeft(k)
    OBVIOUS
  <2>1. StepsLeft(k) \in Nat
    BY StepsLeftAt
  <2>2. CASE RunSteps(k) \/ ReadFails(k)
    <3>1. StepsLeft(k)' < StepsLeft(k)
      BY <2>2, RunIsForward
    <3>2. StepsLeft(k)' \in Nat
      BY <1>3
    <3> QED
      BY <2>1, <3>1, <3>2
  <2>3. CASE ~(RunSteps(k) \/ ReadFails(k))
    BY <2>1, <2>3, OthersLeaveRun
  <2> QED
    BY <2>2, <2>3
<1> QED
  BY <1>1, <1>2, <1>4, PTL DEF Spec
=============================================================================
