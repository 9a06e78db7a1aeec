------------------------------ MODULE BandPlan ------------------------------
(***************************************************************************)
(* The timetable kept by class Person (lib/models/person.dart): a list of  *)
(* Period slots, the A-Day bands that expand one row into the slots where  *)
(* that course meets, and the effect of pressing Save on the Day sheet.    *)
(*                                                                         *)
(* Person.updateBand, updatePeriodsADay, clearEmptyPeriods,                *)
(* _ensureDoubleColors and _copyPeriodFields rewrite the list in nested    *)
(* loops.  The bands are disjoint, so their joint effect can be written    *)
(* slot by slot: that is DaySave below.  Module SheetLoops keeps the loops *)
(* and is shown to implement this form.                                    *)
(***************************************************************************)
EXTENDS Integers, Sequences, Functions

CONSTANTS
    Texts,          \* what a class or room field can hold
    NoText,         \* the empty string
    Slots,          \* indices of Schedule.periods
    Bands,          \* indices of the Day sheet rows; row b edits periods[b]
    BandSlots,      \* Person.bands: the slots in which band b meets
    DoubleSlot,     \* Person.doubles: the slot of band b's double period
    Template,       \* the blank slot that _ensureDoubleColors copies
    FullSheetSlots  \* the cells of the Full sheet that are enabled

NoSlot == -1        \* Person.doubles holds -1 for a band without a double
NoColor == -1       \* Period.colorId is null

SlotsOf(b) == Range(BandSlots[b])

ASSUME TextsAssumption == NoText \in Texts

\* The shape of the two tables of Person.
ASSUME TablesAssumption ==
    /\ Slots \subseteq Nat
    /\ Bands \subseteq Slots
    /\ BandSlots \in [Bands -> Seq(Slots)]
    /\ DoubleSlot \in [Bands -> Slots \cup {NoSlot}]
    /\ Template \in Slots
    /\ FullSheetSlots \subseteq Slots

\* No slot is claimed twice: a band's double may only reuse a slot of that
\* same band (slot 25 of band 6), and nothing reaches the template slot.
ASSUME DisjointAssumption ==
    /\ \A b \in Bands : b \in SlotsOf(b)
    /\ \A b, c \in Bands : b # c => SlotsOf(b) \cap SlotsOf(c) = {}
    /\ \A b, c \in Bands : b # c => DoubleSlot[b] \notin SlotsOf(c)
    /\ \A b, c \in Bands : DoubleSlot[b] \in Slots /\ DoubleSlot[b] = DoubleSlot[c] => b = c
    /\ \A b \in Bands : DoubleSlot[b] \notin Bands
    /\ \A b \in Bands : Template # DoubleSlot[b] /\ Template \notin SlotsOf(b)
    /\ Template \notin FullSheetSlots

-----------------------------------------------------------------------------
\* A Period of the schedule.  Its date and time lists are empty in every
\* schedule (only the export fills them) and its description is never edited.
Period == [id: Slots, className: Texts, roomName: Texts,
           fullCourse: BOOLEAN, colorId: Bands \cup {NoColor}]

Schedule == [Slots -> Period]

BlankPeriod(s) == [id |-> s, className |-> NoText, roomName |-> NoText,
                   fullCourse |-> FALSE, colorId |-> NoColor]

\* What addAllPeriod puts in an empty list; the fresh uuids are slot numbers.
BlankSchedule == [s \in Slots |-> BlankPeriod(s)]

IsBlank(p) == p.className = NoText /\ p.roomName = NoText

SameText(p, q) == p.className = q.className /\ p.roomName = q.roomName

Paint(p, color) == [p EXCEPT !.colorId = color]

\* clearEmptyPeriods, on one period.
Cleared(p) ==
    IF IsBlank(p) THEN [p EXCEPT !.fullCourse = FALSE, !.colorId = NoColor] ELSE p

\* Mutated _copyPeriodFields: the slots share one Period object.
CopySharing(to, from) == from

\* _copyPeriodFields: the destination keeps its id.
CopyFields(to, from) == [from EXCEPT !.id = to.id]

WithText(p, field, text) ==
    IF field = "className" THEN [p EXCEPT !.className = text]
                           ELSE [p EXCEPT !.roomName = text]

\* A keystroke in row b of the Day sheet.
DayEdited(p, field, text) == [WithText(p, field, text) EXCEPT !.fullCourse = TRUE]

\* A keystroke in a cell of the Full sheet takes the colour away.
FullEdited(p, field, text) ==
    [WithText(p, field, text) EXCEPT !.fullCourse = FALSE, !.colorId = NoColor]

-----------------------------------------------------------------------------
\* Band b holds a course when its row survives clearEmptyPeriods as full.
HasCourse(ps, b) == ps[b].fullCourse /\ ~IsBlank(ps[b])

MeetsIn(s) == {b \in Bands : s \in SlotsOf(b)}

DoublesIn(s) == {b \in Bands : DoubleSlot[b] = s}

\* Mutated: the colour is looked up by slot, not by band.
BandPeriodBySlotColor(ps, edited, s, b) ==
    IF HasCourse(ps, b) THEN Paint(CopyFields(ps[s], ps[b]), s)
                        ELSE Paint(Cleared(ps[s]), NoColor)

\* Mutated: save() calls updateBand for every row, edited or not.
BandPeriodAlwaysCopied(ps, edited, s, b) ==
    IF HasCourse(ps, b) THEN Paint(CopyFields(ps[s], ps[b]), b)
                        ELSE Paint(Cleared(CopyFields(ps[s], ps[b])), NoColor)

\* Mutated: save() calls updateBand for no row.
BandPeriodNeverCopied(ps, edited, s, b) ==
    IF HasCourse(ps, b) THEN Paint(CopyFields(ps[s], ps[b]), b)
                        ELSE Paint(Cleared(ps[s]), NoColor)

\* Mutated: a band whose row was emptied keeps the colour of its old course.
BandPeriodKeepingColor(ps, edited, s, b) ==
    IF HasCourse(ps, b) THEN Paint(CopyFields(ps[s], ps[b]), b)
    ELSE IF edited[b]   THEN Paint(Cleared(CopyFields(ps[s], ps[b])), ps[s].colorId)
                        ELSE Paint(Cleared(ps[s]), ps[s].colorId)

\* Slot s of band b after updateBand (edited rows) and updatePeriodsADay.
BandPeriod(ps, edited, s, b) ==
    IF HasCourse(ps, b) THEN Paint(CopyFields(ps[s], ps[b]), b)
    ELSE IF edited[b]   THEN Paint(Cleared(CopyFields(ps[s], ps[b])), NoColor)
                        ELSE Paint(Cleared(ps[s]), NoColor)

\* Mutated: the double copies another slot of the band, not yet expanded.
DoublePeriodOfStaleSlot(ps, dubs, s, b) ==
    IF dubs[b] /\ HasCourse(ps, b)
    THEN Paint(CopyFields(ps[s], ps[BandSlots[b][2]]), b)
    ELSE Paint(CopyFields(ps[s], Cleared(ps[Template])), NoColor)

\* Mutated: an unticked double is left as it is.
DoublePeriodNeverReset(ps, dubs, s, b) ==
    IF dubs[b] /\ HasCourse(ps, b)
    THEN Paint(CopyFields(ps[s], ps[b]), b)
    ELSE Cleared(ps[s])

\* Double slot s of band b after _ensureDoubleColors.
DoublePeriod(ps, dubs, s, b) ==
    IF dubs[b] /\ HasCourse(ps, b)
    THEN Paint(CopyFields(ps[s], ps[b]), b)
    ELSE Paint(CopyFields(ps[s], Cleared(ps[Template])), NoColor)

\* The schedule after the Day sheet's Save: ADayState.save up to the send.
DaySave(ps, dubs, edited) ==
    [s \in Slots |->
        IF DoublesIn(s) # {} THEN DoublePeriod(ps, dubs, s, CHOOSE b \in DoublesIn(s) : TRUE)
        ELSE IF MeetsIn(s) # {} THEN BandPeriod(ps, edited, s, CHOOSE b \in MeetsIn(s) : TRUE)
        ELSE Cleared(ps[s])]

-----------------------------------------------------------------------------
(* What every schedule must satisfy, wherever it is held.                  *)

\* Ids stay pairwise distinct: "Preserve the destination slot's id so each
\* slot remains unique" (person.dart:136), the condition ADayState.save warns
\* about after every save (aday.dart:61-70).
DistinctIds(ps) == \A s, t \in Slots : s # t => ps[s].id # ps[t].id

\* The slot copied over a double that is switched off holds no class.
TemplateIsBlank(ps) == IsBlank(ps[Template]) /\ ~ps[Template].fullCourse

\* A coloured slot belongs to a full course and lies in the band of its colour,
\* so the per-colour export files contain the band they are named after.
ColorFollowsBand(ps) ==
    \A s \in Slots : ps[s].colorId # NoColor =>
        /\ ps[s].fullCourse
        /\ \/ s \in SlotsOf(ps[s].colorId)
           \/ s = DoubleSlot[ps[s].colorId]

SoundSchedule(ps) == DistinctIds(ps) /\ TemplateIsBlank(ps) /\ ColorFollowsBand(ps)
=============================================================================
