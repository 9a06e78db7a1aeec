------------------------------- MODULE Sheets -------------------------------
(***************************************************************************)
(* One user's two editing sheets (lib/screens/tabs/aday.dart and           *)
(* full_schedule.dart) over the one Schedule of their Person.  Loading and *)
(* saving are atomic here, so that the subject is what a long sequence of  *)
(* edits, saves and tab changes does to the schedule; CalendarSession      *)
(* models the same screens with the network in between.                    *)
(***************************************************************************)
EXTENDS BandPlan

CONSTANTS
    Fields,         \* the text fields the user types in
    MaxEdits        \* bound on the number of edits

ASSUME SheetsAssumption ==
    /\ Fields \subseteq {"className", "roomName"}
    /\ MaxEdits \in Nat

VARIABLES
    periods,        \* person.schedule.periods
    stored,         \* the document a load would bring back
    dubs,           \* person.dubs, the Double? checkboxes; never stored
    tab,            \* the tab in front
    dayAlive,       \* the Day sheet's State object exists
    rowEdited,      \* ADayState.rowEdited
    edits           \* number of edits so far, for the bound

vars == <<periods, stored, dubs, tab, dayAlive, rowEdited, edits>>

NoRow == [b \in Bands |-> FALSE]

TypeOK ==
    /\ periods \in Schedule
    /\ stored \in Schedule
    /\ dubs \in [Bands -> BOOLEAN]
    /\ tab \in {"Day", "Full"}
    /\ dayAlive \in BOOLEAN
    /\ rowEdited \in [Bands -> BOOLEAN]
    /\ edits \in 0..MaxEdits

Init ==
    /\ periods = BlankSchedule
    /\ stored = BlankSchedule
    /\ dubs = NoRow
    /\ tab = "Day"
    /\ dayAlive = TRUE
    /\ rowEdited = NoRow
    /\ edits = 0

CountEdit == edits < MaxEdits /\ edits' = edits + 1

-----------------------------------------------------------------------------
\* A keystroke in the Class Name or Room Name cell of row b.
DayText(b, field, text) ==
    /\ tab = "Day"
    /\ CountEdit
    /\ periods' = [periods EXCEPT ![b] = DayEdited(@, field, text)]
    /\ rowEdited' = [rowEdited EXCEPT ![b] = TRUE]
    /\ UNCHANGED <<stored, dubs, tab, dayAlive>>

\* A tap on the Double? checkbox of row b.
DayDouble(b) ==
    /\ tab = "Day"
    /\ CountEdit
    /\ dubs' = [dubs EXCEPT ![b] = ~@]
    /\ rowEdited' = [rowEdited EXCEPT ![b] = TRUE]
    /\ UNCHANGED <<periods, stored, tab, dayAlive>>

\* The Day sheet's Save button.
SaveDay ==
    /\ tab = "Day"
    /\ periods' = DaySave(periods, dubs, rowEdited)
    /\ stored' = periods'
    /\ rowEdited' = NoRow
    /\ UNCHANGED <<dubs, tab, dayAlive, edits>>

\* A keystroke in cell s of the Full sheet.  The field has the focus, so no
\* focused field keeps the hidden Day sheet alive any more.
FullText(s, field, text) ==
    /\ tab = "Full"
    /\ s \in FullSheetSlots
    /\ CountEdit
    /\ periods' = [periods EXCEPT ![s] = FullEdited(@, field, text)]
    /\ dayAlive' = FALSE
    /\ rowEdited' = NoRow
    /\ UNCHANGED <<stored, dubs, tab>>

\* The Full sheet's Save button, or Enter in one of its fields.
SaveFull ==
    /\ tab = "Full"
    /\ stored' = periods
    /\ UNCHANGED <<periods, dubs, tab, dayAlive, rowEdited, edits>>

-----------------------------------------------------------------------------
\* Leaving the Day tab disposes its State, unless a focused text field of it
\* keeps the page alive.
OpenFull ==
    /\ tab = "Day"
    /\ tab' = "Full"
    /\ \/ UNCHANGED <<dayAlive, rowEdited>>
       \/ dayAlive' = FALSE /\ rowEdited' = NoRow
    /\ UNCHANGED <<periods, stored, dubs, edits>>

\* Coming back builds a new State, whose initState loads the stored schedule
\* over the one in memory.
OpenDay ==
    /\ tab = "Full"
    /\ tab' = "Day"
    /\ dayAlive' = TRUE
    /\ periods' = IF dayAlive THEN periods ELSE stored
    /\ UNCHANGED <<stored, dubs, rowEdited, edits>>

\* A new Person, with no double ticked, loads what is stored.
NewPerson ==
    /\ periods' = stored'
    /\ dubs' = NoRow
    /\ tab' = "Day"
    /\ dayAlive' = TRUE
    /\ rowEdited' = NoRow
    /\ UNCHANGED edits

\* Logout saves the schedule as it is in memory; then the user signs in again.
Relogin == stored' = periods /\ NewPerson

\* The page is reloaded, or the app restarted, without a save.
Restart == stored' = stored /\ NewPerson

Next ==
    \/ \E b \in Bands, f \in Fields, t \in Texts : DayText(b, f, t)
    \/ \E b \in Bands : DayDouble(b)
    \/ SaveDay
    \/ \E s \in Slots, f \in Fields, t \in Texts : FullText(s, f, t)
    \/ SaveFull
    \/ OpenFull
    \/ OpenDay
    \/ Relogin
    \/ Restart

Spec == Init /\ [][Next]_vars

-----------------------------------------------------------------------------
\* Both copies of the schedule stay sound through any mix of edits on the two
\* sheets, saves, reloads and new sessions.
SchedulesSound == SoundSchedule(periods) /\ SoundSchedule(stored)

\* Saving twice in a row saves the same document twice: the expansion of the
\* bands by updatePeriodsADay is a fixed point of itself, doubles included.
SaveSettles ==
    LET once == DaySave(periods, dubs, rowEdited)
    IN  DaySave(once, dubs, NoRow) = once

\* What the user typed on the Full sheet in the slots of a band whose row holds
\* no course, and was not touched on the Day sheet, survives the Day sheet's Save.
FreeBandsKept ==
    [][SaveDay =>
        \A b \in Bands : ~HasCourse(periods, b) /\ ~rowEdited[b] =>
            \A s \in SlotsOf(b) \ {DoubleSlot[b]} : SameText(periods'[s], periods[s])]_vars

\* A course whose row was emptied on the Day sheet is gone after the Save from
\* every slot of its band, its double included.
DroppedCourseGone ==
    [][SaveDay =>
        \A b \in Bands : rowEdited[b] /\ IsBlank(periods[b]) =>
            \A s \in SlotsOf(b) \cup ({DoubleSlot[b]} \ {NoSlot}) : IsBlank(periods'[s])]_vars

\* After the Day sheet's Save every course stands, in its colour, in all the
\* slots of its band, and in its double slot just when the double is ticked.
CoursesExpanded ==
    [][SaveDay =>
        \A b \in Bands : HasCourse(periods', b) =>
            /\ \A s \in SlotsOf(b) \ {DoubleSlot[b]} :
                   SameText(periods'[s], periods'[b]) /\ periods'[s].colorId = b
            /\ DoubleSlot[b] # NoSlot =>
                   LET d == periods'[DoubleSlot[b]]
                   IN  IF dubs[b] THEN SameText(d, periods'[b]) /\ d.colorId = b
                                  ELSE IsBlank(d) /\ d.colorId = NoColor]_vars

-----------------------------------------------------------------------------
(* What the texts of the program promise, and the code does not do.        *)

\* "(Add any cycle meetings, and non-full cycle classes such as HWC and Ind
\* Studies here)": an entry of the Full sheet stays when the Day sheet is saved,
\* unless the course of a band that meets then takes its slot.
FullSheetEntriesKept ==
    [][SaveDay =>
        \A s \in FullSheetSlots :
            \/ IsBlank(periods[s]) \/ periods[s].fullCourse
            \/ \E b \in Bands : HasCourse(periods, b) /\ (s \in SlotsOf(b) \/ s = DoubleSlot[b])
            \/ SameText(periods'[s], periods[s])]_vars
=============================================================================
