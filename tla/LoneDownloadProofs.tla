------------------------- MODULE LoneDownloadProofs -------------------------
(***************************************************************************)
(* A press of "Download File(s)" that meets no other press lists no event  *)
(* twice, and a file of extra events wholly or not at all, whatever boxes  *)
(* are ticked and unticked on the way: for all schedules, files, presses   *)
(* and bounds.                                                             *)
(***************************************************************************)
EXTENDS YearExportProofs

-----------------------------------------------------------------------------
(* The list of such a run.                                                 *)

ListedOnce(list) ==
    \A i, p \in DOMAIN list :
        \A j \in DOMAIN list[i].dates, q \in DOMAIN list[p].dates :
            list[i].dates[j] = list[p].dates[q] => i = p /\ j = q

Has(list, date) ==
    \E i \in DOMAIN list : \E j \in DOMAIN list[i].dates : list[i].dates[j] = date

FilesWhole(list) ==
    \A m \in Tables : \A r, q \in 1..TableRows[m] :
        Has(list, TableDate(m, r)) => Has(list, TableDate(m, q))

\* The list holds no event of the file.
Lacks(list, m) == \A r \in 1..TableRows[m] : ~Has(list, TableDate(m, r))

\* The walk over the boxes has come to file n: the files after it are still
\* missing, ticked or not, and those before it are there wholly or not at all.
UpTo(list, n) ==
    /\ ListedOnce(list)
    /\ FilesWhole(list)
    /\ \A m \in Tables : m > n => Lacks(list, m)

\* The list yearPeriods belongs to run k.
OwnList(k) ==
    /\ \A j \in Presses : step[j] # "idle" => j = k
    /\ step[k] = "reading" => yearPeriods = <<>>
    /\ step[k] = "adding" => UpTo(yearPeriods, table[k] - 1)
    /\ step[k] = "added" => UpTo(yearPeriods, table[k])

AloneInv == TypeOK /\ \A k \in alone : step[k] # "idle" => OwnList(k)

\* What LoneDownloadsWhole says of a download.
WholeDownload(d) ==
    /\ \A x, y \in DOMAIN d.lines : d.lines[x].date = d.lines[y].date => x = y
    /\ \A n \in Tables : \A r, q \in 1..TableRows[n] :
           TableDate(n, r) \in DatesIn(d) => TableDate(n, q) \in DatesIn(d)

-----------------------------------------------------------------------------
\* The list that is exported is a whole download when it is a whole list.
LEMMA ExportedWhole ==
  ASSUME NEW pf, NEW list, ListedOnce(list), FilesWhole(list)
  PROVE  WholeDownload(Exported(pf, list))
<1> DEFINE f == ListLines(pf, list)
           d == Exported(pf, list)
<1>1. d.lines = f
  BY DEF Exported, ListLines
<1>2. DOMAIN f = Positions(list)
  BY DEF ListLines
<1>3. \A i \in DOMAIN list : \A j \in DOMAIN list[i].dates :
          <<i, j>> \in Positions(list) /\ f[<<i, j>>].date = list[i].dates[j]
  BY PositionsAre, LineFields DEF ListLines, LineAt
<1> HIDE DEF f, d
<1>4. ASSUME NEW x \in DOMAIN d.lines, NEW y \in DOMAIN d.lines,
             d.lines[x].date = d.lines[y].date
      PROVE  x = y
  <2>1. PICK i \in DOMAIN list : \E j \in DOMAIN list[i].dates : x = <<i, j>>
    BY <1>1, <1>2, PositionsAre
  <2>2. PICK j \in DOMAIN list[i].dates : x = <<i, j>>
    BY <2>1
  <2>3. PICK p \in DOMAIN list : \E q \in DOMAIN list[p].dates : y = <<p, q>>
    BY <1>1, <1>2, PositionsAre
  <2>4. PICK q \in DOMAIN list[p].dates : y = <<p, q>>
    BY <2>3
  <2>5. list[i].dates[j] = list[p].dates[q]
    BY <1>1, <1>3, <1>4, <2>2, <2>4
  <2> QED
    BY <2>2, <2>4, <2>5 DEF ListedOnce
<1>5. \A date : date \in DatesIn(d) <=> Has(list, date)
  <2>1. \A date : date \in DatesIn(d) <=> \E x \in Positions(list) : date = f[x].date
    BY <1>1, <1>2 DEF DatesIn, Range
  <2>2. ASSUME NEW x \in Positions(list) PROVE Has(list, f[x].date)
    <3>1. PICK i \in DOMAIN list : \E j \in DOMAIN list[i].dates : x = <<i, j>>
      BY PositionsAre
    <3> QED
      BY <1>3, <3>1 DEF Has
  <2>3. ASSUME NEW date, Has(list, date) PROVE \E x \in Positions(list) : date = f[x].date
    BY <1>3, <2>3 DEF Has
  <2> QED
    BY <2>1, <2>2, <2>3
<1> QED
  BY <1>4, <1>5 DEF WholeDownload, FilesWhole, d

\* A run that throws hands nothing out.
LEMMA NothingIsWhole == WholeDownload(NoDownload)
<1>1. NoDownload.lines = <<>> /\ DOMAIN <<>> = {}
  BY DEF NoDownload
<1>2. DatesIn(NoDownload) = {}
  BY <1>1 DEF DatesIn, Range
<1> QED
  BY <1>1, <1>2 DEF WholeDownload

\* After classes.csv the list holds rows of classes only, each once.
LEMMA ClassesUpTo ==
  ASSUME TypeOK, prefs.classes => schedule # NoPeriods, yearPeriods = <<>>
  PROVE  UpTo(YearList, 0)
<1>1. ASSUME NEW i \in DOMAIN YearList
      PROVE  /\ i \in Int
             /\ \A j \in DOMAIN YearList[i].dates : YearList[i].dates[j] = ClassDate(i - 1, j)
  <2>1. CASE ~prefs.classes
    <3>1. DOMAIN YearList = {}
      BY <2>1 DEF YearList, WithoutColors
    <3> QED
      BY <3>1
  <2>2. CASE prefs.classes
    <3>1. /\ i \in 1..NumSlots /\ YearList[i].dates = Filled(FreshEntries[i], i - 1).dates
      BY <2>2, YearListEntries
    <3>2. schedule \in Schedule /\ prefs \in Prefs
      BY <2>2 DEF TypeOK
    <3>3. \A j \in DOMAIN Filled(FreshEntries[i], i - 1).dates :
              Filled(FreshEntries[i], i - 1).dates[j] = ClassDate(i - 1, j)
      BY <2>2, <3>1, <3>2, FreshFilled
    <3> QED
      BY <3>1, <3>3, ListAssumption
  <2> QED
    BY <2>1, <2>2
<1>2. ListedOnce(YearList)
  <2> SUFFICES ASSUME NEW i \in DOMAIN YearList, NEW p \in DOMAIN YearList,
                      NEW j \in DOMAIN YearList[i].dates, NEW q \in DOMAIN YearList[p].dates,
                      YearList[i].dates[j] = YearList[p].dates[q]
               PROVE  i = p /\ j = q
    BY DEF ListedOnce
  <2>1. ClassDate(i - 1, j) = ClassDate(p - 1, q)
    BY <1>1
  <2>2. i - 1 = p - 1 /\ j = q
    BY <2>1, DatesDiffer
  <2> QED
    BY <1>1, <2>2
<1>3. \A m, r : ~Has(YearList, TableDate(m, r))
  BY <1>1, DatesDiffer DEF Has
<1> QED
  BY <1>2, <1>3 DEF UpTo, FilesWhole, Lacks

\* addExtraEvents brings the whole file, which was missing.
LEMMA FileUpTo ==
  ASSUME TypeOK, NEW n \in Tables, UpTo(yearPeriods, n - 1)
  PROVE  UpTo(yearPeriods \o TableEntries(n), n)
<1> DEFINE list == yearPeriods \o TableEntries(n)
           m == Len(yearPeriods)
<1>0. n \in Nat /\ TableRows[n] \in Nat /\ Tables \subseteq Nat
  BY RowsAssumption DEF Tables
<1>1. /\ m \in Nat /\ DOMAIN yearPeriods = 1..m
      /\ DOMAIN list = 1..(m + TableRows[n])
      /\ \A i \in 1..m : list[i] = yearPeriods[i]
      /\ \A r \in 1..TableRows[n] : list[m + r] = TableEntries(n)[r]
  BY AppendedEntries
<1>2. \A r \in 1..TableRows[n] : TableEntries(n)[r].dates = <<TableDate(n, r)>>
  BY DEF TableEntries, Entry
<1> HIDE DEF list, m
<1>3. \A i \in DOMAIN list : i \in 1..m \/ \E r \in 1..TableRows[n] : i = m + r
  <2>1. ASSUME NEW i \in 1..(m + TableRows[n]), i \notin 1..m
        PROVE  i - m \in 1..TableRows[n] /\ i = m + (i - m)
    BY <1>0, <1>1, <2>1
  <2> QED
    BY <1>1, <2>1
<1>4. ASSUME NEW r \in 1..TableRows[n]
      PROVE  /\ m + r \in DOMAIN list
             /\ DOMAIN list[m + r].dates = {1}
             /\ list[m + r].dates[1] = TableDate(n, r)
  <2>1. list[m + r].dates = <<TableDate(n, r)>>
    BY <1>1, <1>2
  <2> QED
    BY <1>0, <1>1, <2>1
<1>5. \A i \in 1..m : i \in DOMAIN list /\ i \in DOMAIN yearPeriods /\ list[i].dates = yearPeriods[i].dates
  BY <1>0, <1>1
<1>6. Lacks(yearPeriods, n) /\ ListedOnce(yearPeriods) /\ FilesWhole(yearPeriods)
  BY <1>0 DEF UpTo
<1>7. ASSUME NEW i \in 1..m, NEW j \in DOMAIN list[i].dates, NEW r \in 1..TableRows[n]
      PROVE  list[i].dates[j] # TableDate(n, r)
  BY <1>5, <1>6 DEF Lacks, Has
<1>8. ListedOnce(list)
  <2> SUFFICES ASSUME NEW i \in DOMAIN list, NEW p \in DOMAIN list,
                      NEW j \in DOMAIN list[i].dates, NEW q \in DOMAIN list[p].dates,
                      list[i].dates[j] = list[p].dates[q]
               PROVE  i = p /\ j = q
    BY DEF ListedOnce
  <2>1. CASE i \in 1..m /\ p \in 1..m
    BY <1>5, <1>6, <2>1 DEF ListedOnce
  <2>2. CASE i \in 1..m /\ p \notin 1..m
    BY <1>3, <1>4, <1>7, <2>2
  <2>3. CASE i \notin 1..m /\ p \in 1..m
    BY <1>3, <1>4, <1>7, <2>3
  <2>4. CASE i \notin 1..m /\ p \notin 1..m
    <3>1. PICK r \in 1..TableRows[n] : i = m + r
      BY <1>3, <2>4
    <3>2. PICK s \in 1..TableRows[n] : p = m + s
      BY <1>3, <2>4
    <3>3. j = 1 /\ q = 1 /\ TableDate(n, r) = TableDate(n, s)
      BY <1>4, <3>1, <3>2
    <3> QED
      BY <3>1, <3>2, <3>3, DatesDiffer
  <2> QED
    BY <2>1, <2>2, <2>3, <2>4
<1>9. \A r \in 1..TableRows[n] : Has(list, TableDate(n, r))
  BY <1>4 DEF Has
<1>10. ASSUME NEW k \in Tables, k # n, NEW r
       PROVE  Has(list, TableDate(k, r)) <=> Has(yearPeriods, TableDate(k, r))
  <2>1. ASSUME NEW i \in DOMAIN list, NEW j \in DOMAIN list[i].dates,
               list[i].dates[j] = TableDate(k, r)
        PROVE  i \in 1..m
    BY <1>3, <1>4, <1>10, <2>1, DatesDiffer
  <2>2. Has(list, TableDate(k, r)) => Has(yearPeriods, TableDate(k, r))
    BY <1>5, <2>1 DEF Has
  <2>3. Has(yearPeriods, TableDate(k, r)) => Has(list, TableDate(k, r))
    BY <1>1, <1>5 DEF Has
  <2> QED
    BY <2>2, <2>3
<1>11. FilesWhole(list)
  BY <1>6, <1>9, <1>10 DEF FilesWhole
<1>12. \A k \in Tables : k > n => Lacks(list, k)
  <2>1. \A k \in Tables : k > n => k # n /\ k > n - 1
    BY <1>0
  <2> QED
    BY <1>10, <2>1 DEF UpTo, Lacks
<1> QED
  BY <1>8, <1>11, <1>12 DEF UpTo, list

-----------------------------------------------------------------------------
(* The steps.                                                              *)

\* A run that goes on passes by the boxes that are not ticked at that moment;
\* one that ends hands its list out.
LEMMA GoOnWhole ==
  ASSUME TypeOK, NEW k \in Presses, NEW n \in {0} \cup Tables, NEW list, NEW ps,
         GoOn(k, n, list, ps), yearPeriods' = list, UpTo(list, n),
         \A j \in Presses : step[j] # "idle" => j = k
  PROVE  /\ OwnList(k)'
         /\ step'[k] = "idle" => WholeDownload(download')
<1>0. prefs \in Prefs /\ step \in [Presses -> {"idle", "reading", "adding", "added"}]
      /\ table \in [Presses -> {0} \cup Tables]
      /\ Tables \subseteq Nat /\ n \in Nat /\ prefs.tables \subseteq Tables
  BY RowsAssumption DEF TypeOK, Tables, Prefs
<1>1. \A j \in Presses : step'[j] # "idle" => j = k
  BY <1>0 DEF GoOn
<1>2. CASE WantedAfter(n) # {}
  <2> DEFINE m == FirstOf(WantedAfter(n))
  <2>1. m \in Tables /\ m > n
    <3>1. WantedAfter(n) \subseteq Nat
      BY <1>0 DEF WantedAfter
    <3>2. m \in WantedAfter(n)
      BY <1>2, <3>1, FirstOfIsFirst
    <3> QED
      BY <1>0, <3>2 DEF WantedAfter
  <2>2. step' = [step EXCEPT ![k] = "adding"] /\ table' = [table EXCEPT ![k] = m]
    BY <1>2 DEF GoOn
  <2> HIDE DEF m
  <2>3. step'[k] = "adding" /\ table'[k] = m
    BY <1>0, <2>2
  <2>4. \A q \in Tables : q > m - 1 => q > n
    BY <1>0, <2>1
  <2>5. UpTo(list, m - 1)
    BY <2>4 DEF UpTo
  <2>6. UpTo(yearPeriods', table'[k] - 1)
    BY <2>3, <2>5
  <2> QED
    BY <1>1, <2>3, <2>6 DEF OwnList
<1>3. CASE WantedAfter(n) = {}
  <2>1. step'[k] = "idle" /\ download' = Exported(prefs, list)
    BY <1>0, <1>3 DEF GoOn
  <2>2. WholeDownload(Exported(prefs, list))
    BY ExportedWhole DEF UpTo
  <2> QED
    BY <1>1, <2>1, <2>2 DEF OwnList
<1> QED
  BY <1>2, <1>3

\* Of a run that is alone, the others are idle and stay so.
LEMMA OthersIdle ==
  ASSUME AloneInv, NEW k \in Presses, step[k] # "idle",
         alone' = alone, NEW v, step' = [step EXCEPT ![k] = v]
  PROVE  \A j \in alone' : j # k => step'[j] = "idle" /\ step[j] = "idle"
<1>1. step \in [Presses -> {"idle", "reading", "adding", "added"}] /\ alone \subseteq Presses
  BY DEF AloneInv, TypeOK
<1>2. ASSUME NEW j \in alone, j # k PROVE step[j] = "idle"
  BY <1>2 DEF AloneInv, OwnList
<1> QED
  BY <1>1, <1>2

\* What a step must do for the invariant and for the property.
StepIsWhole ==
    /\ \A j \in alone' : step'[j] # "idle" => OwnList(j)'
    /\ \A j \in alone' : step[j] # "idle" /\ step'[j] = "idle" => WholeDownload(download')

\* For a step of run k of an idle or running press it is enough to look at k.
LEMMA OnlyThisRun ==
  ASSUME AloneInv, NEW k \in Presses, step[k] # "idle",
         alone' = alone, NEW v, step' = [step EXCEPT ![k] = v],
         k \in alone => /\ step'[k] # "idle" => OwnList(k)'
                        /\ step'[k] = "idle" => WholeDownload(download')
  PROVE  StepIsWhole
  BY OthersIdle DEF StepIsWhole

\* A press that meets no other finds every run idle and clears the list.
LEMMA PressWhole ==
  ASSUME AloneInv, NEW k \in Presses, Press(k)
  PROVE  StepIsWhole
<1>1. /\ step \in [Presses -> {"idle", "reading", "adding", "added"}]
      /\ step[k] = "idle" /\ step' = [step EXCEPT ![k] = "reading"] /\ yearPeriods' = <<>>
  BY DEF AloneInv, TypeOK, Press
<1>2. step'[k] = "reading" /\ \A j \in Presses : j # k => step'[j] = step[j]
  BY <1>1
<1>3. CASE Running = {}
  <2>1. alone' = {k}
    BY <1>3 DEF Press
  <2>2. \A j \in Presses : step[j] = "idle"
    BY <1>3 DEF Running
  <2>3. OwnList(k)'
    BY <1>1, <1>2, <2>2 DEF OwnList
  <2> QED
    BY <1>2, <2>1, <2>3 DEF StepIsWhole
<1>4. CASE Running # {}
  <2>1. alone' = {}
    BY <1>4 DEF Press
  <2> QED
    BY <2>1 DEF StepIsWhole
<1> QED
  BY <1>3, <1>4

\* A run that goes on steps to another place.
LEMMA GoOnSteps ==
  ASSUME NEW k, NEW n, NEW list, NEW ps, GoOn(k, n, list, ps)
  PROVE  \E v : step' = [step EXCEPT ![k] = v]
  BY DEF GoOn

\* The classes,
LEMMA FillWhole ==
  ASSUME AloneInv, NEW k \in Presses, Fill(k)
  PROVE  StepIsWhole
<1>1. /\ TypeOK /\ step[k] = "reading" /\ alone' = alone /\ yearPeriods' = YearList
      /\ prefs.classes => schedule # NoPeriods
      /\ GoOn(k, 0, YearList, schedule)
  BY DEF AloneInv, Fill
<1>2. PICK v : step' = [step EXCEPT ![k] = v]
  BY <1>1, GoOnSteps
<1>3. ASSUME k \in alone
      PROVE  OwnList(k)' /\ (step'[k] = "idle" => WholeDownload(download'))
  <2>1. yearPeriods = <<>> /\ \A j \in Presses : step[j] # "idle" => j = k
    BY <1>1, <1>3 DEF AloneInv, OwnList
  <2>2. UpTo(YearList, 0)
    BY <1>1, <2>1, ClassesUpTo
  <2> QED
    BY <1>1, <2>1, <2>2, GoOnWhole
<1> QED
  BY <1>1, <1>2, <1>3, OnlyThisRun

\* a file of extra events,
LEMMA AddWhole ==
  ASSUME AloneInv, NEW k \in Presses, AddExtraEvents(k)
  PROVE  StepIsWhole
<1>1. /\ TypeOK /\ step[k] = "adding" /\ alone' = alone /\ table' = table
      /\ step \in [Presses -> {"idle", "reading", "adding", "added"}]
      /\ step' = [step EXCEPT ![k] = "added"] /\ table[k] \in Tables
      /\ yearPeriods' = yearPeriods \o TableEntries(table[k])
  BY DEF AloneInv, TypeOK, AddExtraEvents
<1>2. step'[k] = "added" /\ \A j \in Presses : j # k => step'[j] = step[j]
  BY <1>1
<1>3. ASSUME k \in alone PROVE OwnList(k)'
  <2>1. UpTo(yearPeriods, table[k] - 1) /\ \A j \in Presses : step[j] # "idle" => j = k
    BY <1>1, <1>3 DEF AloneInv, OwnList
  <2>2. UpTo(yearPeriods', table'[k])
    BY <1>1, <2>1, FileUpTo
  <2> QED
    BY <1>2, <2>1, <2>2 DEF OwnList
<1> QED
  BY <1>1, <1>2, <1>3, OnlyThisRun

\* and the walk to the next box, or to the end.
LEMMA ResumeWhole ==
  ASSUME AloneInv, NEW k \in Presses, Resume(k)
  PROVE  StepIsWhole
<1>1. /\ TypeOK /\ step[k] = "added" /\ alone' = alone /\ yearPeriods' = yearPeriods
      /\ table[k] \in {0} \cup Tables
      /\ GoOn(k, table[k], yearPeriods, taken[k])
  BY DEF AloneInv, TypeOK, Resume
<1>2. PICK v : step' = [step EXCEPT ![k] = v]
  BY <1>1, GoOnSteps
<1>3. ASSUME k \in alone
      PROVE  OwnList(k)' /\ (step'[k] = "idle" => WholeDownload(download'))
  <2>1. UpTo(yearPeriods, table[k]) /\ \A j \in Presses : step[j] # "idle" => j = k
    BY <1>1, <1>3 DEF AloneInv, OwnList
  <2> QED
    BY <1>1, <2>1, GoOnWhole
<1> QED
  BY <1>1, <1>2, <1>3, OnlyThisRun

\* A run that throws ends without a download.
LEMMA StopWhole ==
  ASSUME AloneInv, NEW k \in Presses, FillThrows(k) \/ ReadFails(k)
  PROVE  StepIsWhole
<1>1. /\ step[k] # "idle" /\ alone' = alone /\ download' = NoDownload
      /\ step' = [step EXCEPT ![k] = "idle"]
      /\ step \in [Presses -> {"idle", "reading", "adding", "added"}]
  BY DEF AloneInv, TypeOK, FillThrows, ReadFails
<1>2. step'[k] = "idle"
  BY <1>1
<1> QED
  BY <1>1, <1>2, NothingIsWhole, OnlyThisRun

\* The boxes and the schedule leave the list and the runs alone.
LEMMA EveryStepWhole ==
  ASSUME AloneInv, [Next]_vars
  PROVE  AloneInv' /\ StepIsWhole
<1>1. TypeOK /\ TypeOK'
  BY TypesKept DEF AloneInv
<1>2. ASSUME NEW k \in Presses, RunStep(k) PROVE StepIsWhole
  BY <1>2, PressWhole, FillWhole, AddWhole, ResumeWhole, StopWhole DEF RunStep
<1>3. ASSUME UNCHANGED <<yearPeriods, step, table, alone>> PROVE StepIsWhole
  BY <1>3 DEF AloneInv, OwnList, StepIsWhole
<1>4. ASSUME BoxesSet PROVE StepIsWhole
  BY <1>3, <1>4 DEF BoxesSet, SetBoxes
<1>5. ASSUME ScheduleSet PROVE StepIsWhole
  BY <1>3, <1>5 DEF ScheduleSet, SetSchedule
<1>6. ASSUME UNCHANGED vars PROVE StepIsWhole
  BY <1>3, <1>6 DEF vars
<1>7. StepIsWhole
  BY <1>1, <1>2, <1>4, <1>5, <1>6, ThreeKinds
<1> QED
  BY <1>1, <1>7 DEF AloneInv, StepIsWhole

\* Whatever boxes change on the way, a press that meets no other press lists no
\* event twice, and a file of extra events wholly or not at all.
THEOREM LoneDownloadsAreWhole == Spec => LoneDownloadsWhole
<1>1. Init => AloneInv
  <2>1. Init => TypeOK
    BY ListAssumption DEF Init, TypeOK, Prefs, DefaultPrefs
  <2> QED
    BY <2>1 DEF Init, AloneInv
<1>2. AloneInv /\ [Next]_vars => AloneInv' /\ StepIsWhole
  BY EveryStepWhole
<1>3. StepIsWhole =>
        \A k \in alone' : step[k] # "idle" /\ step'[k] = "idle" =>
          /\ \A x, y \in DOMAIN download'.lines :
              download'.lines[x].date = download'.lines[y].date => x = y
          /\ \A n \in Tables : \A r, q \in 1..TableRows[n] :
              TableDate(n, r) \in DatesIn(download') => TableDate(n, q) \in DatesIn(download')
  BY DEF StepIsWhole, WholeDownload
<1> QED
  BY <1>1, <1>2, <1>3, PTL DEF Spec, LoneDownloadsWhole
=============================================================================
