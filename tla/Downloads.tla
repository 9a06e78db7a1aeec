------------------------------ MODULE Downloads ------------------------------
(***************************************************************************)
(* What the button "Download File(s)" of the Export tab promises: a press  *)
(* that meets no other press, and whose boxes are left alone until it is   *)
(* answered, delivers what the boxes ask for, each event once, with the    *)
(* classes of one moment between the press and its answer.  Nothing is     *)
(* said of the other presses.  YearExport is shown to implement this.      *)
(***************************************************************************)
EXTENDS YearEvents

CONSTANTS
    Presses,     \* the presses that can be waiting for their answer together
    AssetsFail   \* whether reading a file of the app may fail

VARIABLES
    schedule,    \* Person.schedule
    prefs,       \* the boxes of the Export tab
    phase,       \* how far each press has come
    settled,     \* the press that has met no other press and no change of a box
    taken,       \* the schedule from which a waiting press took its classes
    download     \* the files that the last step has handed to the browser

vars == <<schedule, prefs, phase, settled, taken, download>>

-----------------------------------------------------------------------------
\* The slots whose rows are wanted: a class stands there, or the free periods
\* are asked for too.
Listed(ps, pf) ==
    IF pf.classes THEN {s \in Slots : ps[s].className # NoText \/ pf.free} ELSE {}

\* The line of a row of classes.csv, or of another file.
ClassLine(ps, pf, s, r) ==
    Line(IF pf.colors THEN ps[s].colorId ELSE AllInOne,
         Name(pf.headings, ps[s].className), ps[s].roomName, ClassDate(s, r))

TableLine(pf, n, r) ==
    Line(IF pf.colors THEN OtherEvents ELSE AllInOne,
         Name(FALSE, Subject), NoText, TableDate(n, r))

ClassLines(ps, pf, s) == {ClassLine(ps, pf, s, r) : r \in 1..SlotRows[s]}

TableLines(pf, n) == {TableLine(pf, n, r) : r \in 1..TableRows[n]}

Wanted(ps, pf) == (UNION {ClassLines(ps, pf, s) : s \in Listed(ps, pf)})
                  \cup (UNION {TableLines(pf, n) : n \in pf.tables})

\* The download d holds the lines L, each once, and only files with a line in
\* them; Schedule.csv is there even when it is empty.
Holds(d, pf, L) ==
    /\ Range(d.lines) = L
    /\ IsInjective(d.lines)
    /\ d.files = IF pf.colors THEN {l.file : l \in L} ELSE {AllInOne}

-----------------------------------------------------------------------------
Init ==
    /\ schedule = NoPeriods
    /\ prefs = DefaultPrefs
    /\ phase = [k \in Presses |-> "idle"]
    /\ settled = {}
    /\ taken = [k \in Presses |-> NoPeriods]
    /\ download = NoDownload

Busy == {k \in Presses : phase[k] \in {"asked", "taken"}}

Press(k) ==
    /\ phase[k] = "idle"
    /\ phase' = [phase EXCEPT ![k] = "asked"]
    /\ settled' = IF Busy = {} THEN {k} ELSE {}
    /\ download' = NoDownload
    /\ UNCHANGED <<schedule, prefs, taken>>

\* The classes are those of this moment, whatever is edited afterwards.
Take(k) ==
    /\ phase[k] = "asked"
    /\ phase' = [phase EXCEPT ![k] = "taken"]
    /\ taken' = [taken EXCEPT ![k] = schedule]
    /\ download' = NoDownload
    /\ UNCHANGED <<schedule, prefs, settled>>

\* The schedule of press k: the one taken, or that of this moment.
ScheduleOf(k) == IF phase[k] = "taken" THEN taken[k] ELSE schedule

Over(k) ==
    /\ k \in Busy
    /\ phase' = [phase EXCEPT ![k] = "idle"]
    /\ taken' = [taken EXCEPT ![k] = NoPeriods]
    /\ UNCHANGED <<schedule, prefs, settled>>

Answer(k) ==
    /\ Over(k)
    /\ k \in settled =>
        /\ prefs.classes => ScheduleOf(k) # NoPeriods
        /\ Holds(download', prefs, Wanted(ScheduleOf(k), prefs))

\* A press comes to nothing for two reasons only.
Fail(k) ==
    /\ Over(k)
    /\ AssetsFail \/ (phase[k] = "asked" /\ prefs.classes /\ schedule = NoPeriods)
    /\ download' = NoDownload

\* The user and the other sheets go on meanwhile.
ChangeBox ==
    /\ prefs' \in Prefs
    /\ settled' = {}
    /\ download' = NoDownload
    /\ UNCHANGED <<schedule, phase, taken>>

ChangeSchedule ==
    /\ schedule' \in Schedule \cup {NoPeriods}
    /\ download' = NoDownload
    /\ UNCHANGED <<prefs, phase, settled, taken>>

Next ==
    \/ \E k \in Presses : Press(k) \/ Take(k) \/ Answer(k) \/ Fail(k)
    \/ ChangeBox
    \/ ChangeSchedule

Spec == Init /\ [][Next]_vars
=============================================================================
