----------------------------- MODULE SheetLoops -----------------------------
(***************************************************************************)
(* ADayState.save as the code runs it: the loops of Person (person.dart)   *)
(* that rewrite the list of periods in place, slot after slot, each        *)
(* iteration reading what the earlier ones have written.  The other        *)
(* actions are those of Sheets.  LoopSpec implements Sheets!Spec, whose    *)
(* Save is the slot-by-slot DaySave of BandPlan.                           *)
(***************************************************************************)
EXTENDS Sheets

CONSTANT NumBands   \* bands.length, doubles.length and periodColors.length

\* Every row has a colour, and so has every position in a band: updateBand takes
\* periodColors[i] for the i-th slot.  updatePeriodsADay takes the length of the
\* first band for that of each.
ASSUME LoopsAssumption ==
    /\ NumBands \in Nat
    /\ Bands = 0..(NumBands - 1)
    /\ \A b \in Bands : Len(BandSlots[b]) <= NumBands /\ Len(BandSlots[b]) = Len(BandSlots[0])

\* A for loop over the list of periods: iteration i of n makes iteration[i][qs] of
\* the list qs that the one before it left.
Loop(n, iteration, ps) ==
    LET after[i \in 0..n] == IF i = 0 THEN ps ELSE iteration[i][after[i - 1]]
    IN  after[n]

ForEachBand(iteration, ps) ==
    Loop(NumBands, [i \in 1..NumBands |-> iteration[i - 1]], ps)

CopyPeriodFields(ps, from, to) == [ps EXCEPT ![to] = CopyFields(ps[to], ps[from])]

SetColor(ps, s, color) == [ps EXCEPT ![s] = Paint(@, color)]

CopyInColor(ps, from, to, color) == SetColor(CopyPeriodFields(ps, from, to), to, color)

ClearEmptyPeriods(ps) == [s \in Slots |-> Cleared(ps[s])]

\* Person.updateBand.  It paints the row's own slot without looking whether the
\* row is a full course, and slot number i of the band in periodColors[i], the
\* colour of band i.
UpdateBand(ps, b) ==
    Loop(Len(BandSlots[b]),
         [i \in DOMAIN BandSlots[b] |->
             [qs \in Schedule |-> CopyInColor(qs, b, BandSlots[b][i], i - 1)]],
         SetColor(ps, b, b))

\* One iteration of the outer loop of updatePeriodsADay.
ExpandBand(ps, b) ==
    LET isFull == ps[b].fullCourse
    IN  Loop(Len(BandSlots[0]),
             [j \in DOMAIN BandSlots[0] |->
                 [qs \in Schedule |-> IF isFull THEN CopyInColor(qs, b, BandSlots[b][j], b)
                                                ELSE SetColor(qs, BandSlots[b][j], NoColor)]],
             SetColor(ps, b, IF isFull THEN b ELSE NoColor))

\* One iteration of _ensureDoubleColors.
EnsureDouble(ps, ticked, b) ==
    LET d == DoubleSlot[b]
    IN  IF d = NoSlot THEN ps
        ELSE IF ticked[b] /\ ps[b].fullCourse THEN CopyInColor(ps, b, d, b)
                                              ELSE CopyInColor(ps, Template, d, NoColor)

ExpandBands(ps) == ForEachBand([b \in Bands |-> [qs \in Schedule |-> ExpandBand(qs, b)]], ps)

EnsureDoubleColors(ps, ticked) ==
    ForEachBand([b \in Bands |-> [qs \in Schedule |-> EnsureDouble(qs, ticked, b)]], ps)

\* Mutated: empty rows are not cleared first.
UpdatePeriodsUncleared(ps, ticked) == EnsureDoubleColors(ExpandBands(ps), ticked)

UpdatePeriodsADay(ps, ticked) ==
    EnsureDoubleColors(ExpandBands(ClearEmptyPeriods(ps)), ticked)

\* The loop of ADayState.save over the edited rows.
UpdateEditedBands(ps, edited) ==
    ForEachBand(
        [b \in Bands |-> [qs \in Schedule |-> IF edited[b] THEN UpdateBand(qs, b) ELSE qs]], ps)

LoopSaveDay ==
    /\ tab = "Day"
    /\ periods' = UpdatePeriodsADay(UpdateEditedBands(periods, rowEdited), dubs)
    /\ stored' = periods'
    /\ rowEdited' = NoRow
    /\ UNCHANGED <<dubs, tab, dayAlive, edits>>

LoopNext ==
    \/ \E b \in Bands, f \in Fields, t \in Texts : DayText(b, f, t)
    \/ \E b \in Bands : DayDouble(b)
    \/ LoopSaveDay
    \/ \E s \in Slots, f \in Fields, t \in Texts : FullText(s, f, t)
    \/ SaveFull
    \/ OpenFull
    \/ OpenDay
    \/ Relogin
    \/ Restart

LoopSpec == Init /\ [][LoopNext]_vars

-----------------------------------------------------------------------------
\* The loops compute the slot-by-slot form, whatever edits came before: no
\* iteration disturbs what another one has written or is still going to read.
LoopsImplementPlan == Spec
=============================================================================
