---------------------------- MODULE SheetsProofs ----------------------------
(***************************************************************************)
(* Proofs about Sheets, for all tables of bands and any number of edits:   *)
(* the type invariant, the soundness of the schedule and of its stored     *)
(* copy, and what the Day sheet's Save does to free bands and to courses.  *)
(***************************************************************************)
EXTENDS Sheets, BandPlanTheorems

\* Both schedules are sound from the start: an edit, a Save and a load each take
\* sound schedules to sound schedules (BandPlanTheorems).
Inv == TypeOK /\ periods \in SoundSchedules /\ stored \in SoundSchedules

\* No row edited is a value of rowEdited.
LEMMA RowFlags == NoRow \in [Bands -> BOOLEAN]
  BY DEF NoRow

\* A sound schedule is a schedule.
LEMMA SoundIsTyped == SoundSchedules \subseteq Schedule
  BY DEF SoundSchedules

\* The invariant holds at the start,
LEMMA InitInv == Init => Inv
  BY BlankScheduleSound, SoundIsTyped, RowFlags, SheetsAssumption DEF Init, Inv, TypeOK

\* every handler keeps it,
LEMMA NextInv == Inv /\ [Next]_vars => Inv'
  <1> SUFFICES ASSUME Inv, [Next]_vars
               PROVE  Inv'
    OBVIOUS
  <1> USE SoundIsTyped, RowFlags, SheetsAssumption DEF Inv, TypeOK
  <1>1. ASSUME NEW b \in Bands, NEW f \in Fields, NEW t \in Texts, DayText(b, f, t)
        PROVE  Inv'
    <2>1. periods' \in SoundSchedules
      BY <1>1, DayEditedSound DEF DayText
    <2>2. rowEdited' \in [Bands -> BOOLEAN]
      BY <1>1 DEF DayText
    <2>3. edits' \in 0..MaxEdits
      BY <1>1 DEF DayText, CountEdit
    <2>4. UNCHANGED <<stored, dubs, tab, dayAlive>>
      BY <1>1 DEF DayText
    <2> QED  BY <2>1, <2>2, <2>3, <2>4
  <1>2. ASSUME NEW b \in Bands, DayDouble(b)
        PROVE  Inv'
    BY <1>2 DEF DayDouble, CountEdit
  <1>3. CASE SaveDay
    <2>1. periods' \in SoundSchedules
      BY <1>3, DaySaveSound DEF SaveDay
    <2> QED  BY <1>3, <2>1 DEF SaveDay
  <1>4. ASSUME NEW s \in Slots, NEW f \in Fields, NEW t \in Texts, FullText(s, f, t)
        PROVE  Inv'
    <2>1. periods' \in SoundSchedules
      BY <1>4, FullEditedSound DEF FullText
    <2>2. edits' \in 0..MaxEdits
      BY <1>4 DEF FullText, CountEdit
    <2>3. rowEdited' = NoRow /\ dayAlive' = FALSE /\ UNCHANGED <<stored, dubs, tab>>
      BY <1>4 DEF FullText
    <2> QED  BY <2>1, <2>2, <2>3
  <1>5. CASE SaveFull
    BY <1>5 DEF SaveFull
  <1>6. CASE OpenFull
    BY <1>6 DEF OpenFull
  <1>7. CASE OpenDay
    BY <1>7 DEF OpenDay
  <1>8. CASE Relogin
    BY <1>8 DEF Relogin, NewPerson
  <1>9. CASE Restart
    BY <1>9 DEF Restart, NewPerson
  <1>10. CASE UNCHANGED vars
    BY <1>10 DEF vars
  <1> QED
    BY <1>1, <1>2, <1>3, <1>4, <1>5, <1>6, <1>7, <1>8, <1>9, <1>10 DEF Next

\* and so it always holds.
LEMMA InvHolds == Spec => []Inv
  BY InitInv, NextInv, PTL DEF Spec

\* Every variable keeps its type; in particular every schedule stays a complete
\* list of periods.
THEOREM TypeCorrect == Spec => []TypeOK
  <1>1. Inv => TypeOK
    BY DEF Inv
  <1> QED  BY <1>1, InvHolds, PTL

\* No sequence of edits on the two sheets, saves, reloads and new sessions makes
\* two ids equal, fills the template slot, or leaves a colour on a slot that is
\* not a full course of that band.
THEOREM AlwaysSound == Spec => []SchedulesSound
  <1>1. Inv => SchedulesSound
    BY DEF Inv, SchedulesSound, SoundSchedules
  <1> QED  BY <1>1, InvHolds, PTL

-----------------------------------------------------------------------------
(* The effect of the Day sheet's Save, as properties of every step.        *)

\* Free bands whose row was not touched keep what the Full sheet put in them.
THEOREM FreeBandsAreKept == Spec => FreeBandsKept
  <1> DEFINE Kept == \A b \in Bands : ~HasCourse(periods, b) /\ ~rowEdited[b] =>
                        \A s \in SlotsOf(b) \ {DoubleSlot[b]} : SameText(periods'[s], periods[s])
  <1>1. Inv /\ [Next]_vars => [SaveDay => Kept]_vars
    <2> SUFFICES ASSUME Inv, SaveDay, NEW b \in Bands, ~HasCourse(periods, b), ~rowEdited[b],
                        NEW s \in SlotsOf(b), s # DoubleSlot[b]
                 PROVE  SameText(periods'[s], periods[s])
      OBVIOUS
    <2>1. periods \in Schedule /\ periods' = DaySave(periods, dubs, rowEdited)
      BY SoundIsTyped DEF Inv, TypeOK, SaveDay
    <2> QED  BY <2>1, FreeBandSlot
  <1> QED  BY <1>1, InvHolds, PTL DEF Spec, FreeBandsKept

\* A course stands in its whole band, and in its double just when that is ticked.
THEOREM CoursesAreExpanded == Spec => CoursesExpanded
  <1> DEFINE Expanded ==
        \A b \in Bands : HasCourse(periods', b) =>
            /\ \A s \in SlotsOf(b) \ {DoubleSlot[b]} :
                   SameText(periods'[s], periods'[b]) /\ periods'[s].colorId = b
            /\ DoubleSlot[b] # NoSlot =>
                   LET d == periods'[DoubleSlot[b]]
                   IN  IF dubs[b] THEN SameText(d, periods'[b]) /\ d.colorId = b
                                  ELSE IsBlank(d) /\ d.colorId = NoColor
  <1>1. Inv /\ [Next]_vars => [SaveDay => Expanded]_vars
    <2> SUFFICES ASSUME Inv, SaveDay  PROVE Expanded
      OBVIOUS
    <2> DEFINE qs == DaySave(periods, dubs, rowEdited)
    <2>1. periods \in Schedule /\ periods \in SoundSchedules /\ periods' = qs
      BY SoundIsTyped DEF Inv, SaveDay
    <2>2. ASSUME NEW b \in Bands, HasCourse(qs, b)
          PROVE  HasCourse(periods, b) /\ SameText(qs[b], periods[b])
      BY <2>1, <2>2, NoCourseFromNothing, RowIsRuled, CourseFillsBand
    <2>3. ASSUME NEW b \in Bands, HasCourse(qs, b), NEW s \in SlotsOf(b), s # DoubleSlot[b]
          PROVE  SameText(qs[s], qs[b]) /\ qs[s].colorId = b
      <3>1. SameText(qs[s], periods[b]) /\ qs[s].colorId = b
        BY <2>1, <2>2, <2>3, CourseFillsBand
      <3> HIDE DEF qs
      <3> QED  BY <2>2, <2>3, <3>1 DEF SameText
    <2>4. ASSUME NEW b \in Bands, HasCourse(qs, b), DoubleSlot[b] # NoSlot
          PROVE  LET d == qs[DoubleSlot[b]]
                 IN  IF dubs[b] THEN SameText(d, qs[b]) /\ d.colorId = b
                                ELSE IsBlank(d) /\ d.colorId = NoColor
      <3>1. IF dubs[b] THEN SameText(qs[DoubleSlot[b]], periods[b]) /\ qs[DoubleSlot[b]].colorId = b
                       ELSE IsBlank(qs[DoubleSlot[b]]) /\ qs[DoubleSlot[b]].colorId = NoColor
        BY <2>1, <2>2, <2>4, DoubleFollowsTick
      <3> HIDE DEF qs
      <3> QED  BY <2>2, <2>4, <3>1 DEF SameText
    <2> HIDE DEF qs
    <2> QED  BY <2>1, <2>3, <2>4
  <1> QED  BY <1>1, InvHolds, PTL DEF Spec, CoursesExpanded

\* A course whose row was emptied leaves its band and its double.
THEOREM DroppedCoursesGo == Spec => DroppedCourseGone
  <1> DEFINE Gone ==
        \A b \in Bands : rowEdited[b] /\ IsBlank(periods[b]) =>
            \A s \in SlotsOf(b) \cup ({DoubleSlot[b]} \ {NoSlot}) : IsBlank(periods'[s])
  <1>1. Inv /\ [Next]_vars => [SaveDay => Gone]_vars
    <2> SUFFICES ASSUME Inv, SaveDay, NEW b \in Bands, rowEdited[b], IsBlank(periods[b]),
                        NEW s \in SlotsOf(b) \cup ({DoubleSlot[b]} \ {NoSlot})
                 PROVE  IsBlank(periods'[s])
      OBVIOUS
    <2>1. /\ periods \in Schedule /\ periods \in SoundSchedules
          /\ periods' = DaySave(periods, dubs, rowEdited)
      BY SoundIsTyped DEF Inv, SaveDay
    <2>2. ~HasCourse(periods, b)
      BY DEF HasCourse
    <2>3. CASE s = DoubleSlot[b] /\ s # NoSlot
      BY <2>1, <2>2, <2>3, DoubleFollowsTick
    <2>4. CASE s \in SlotsOf(b) /\ s # DoubleSlot[b]
      <3>1. SameText(periods'[s], periods[b])
        BY <2>1, <2>2, <2>4, FreeBandSlot
      <3> QED  BY <3>1 DEF SameText, IsBlank
    <2>5. s \in SlotsOf(b) => s # NoSlot
      BY TablesAssumption DEF SlotsOf, Range, NoSlot
    <2> QED  BY <2>3, <2>4, <2>5
  <1> QED  BY <1>1, InvHolds, PTL DEF Spec, DroppedCourseGone

\* A second Save in a row changes nothing.
THEOREM SavesSettle == Spec => []SaveSettles
  <1>1. Inv => SaveSettles
    <2>1. \A b \in Bands : ~NoRow[b]
      BY DEF NoRow
    <2> QED  BY <2>1, SaveIsSettled DEF Inv, SaveSettles
  <1> QED  BY <1>1, InvHolds, PTL
=============================================================================
