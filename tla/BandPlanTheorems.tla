-------------------------- MODULE BandPlanTheorems --------------------------
(***************************************************************************)
(* What the operations of BandPlan preserve, for every table of bands that *)
(* satisfies its assumptions: each of them takes a sound Schedule to a     *)
(* sound Schedule.  Sheets and CalendarSession build their schedules from  *)
(* these operations alone.                                                 *)
(***************************************************************************)
EXTENDS BandPlan, TLAPS

SoundSchedules == {ps \in Schedule : SoundSchedule(ps)}

\* The rows of the Day sheet never reach the template slot.
LEMMA TemplateIsNoRow == Template \in Slots /\ Template \notin Bands /\ Bands \subseteq Slots
  BY TablesAssumption, DisjointAssumption

\* The fields of a period.
LEMMA PeriodFields ==
  ASSUME NEW ps \in Schedule, NEW s \in Slots
  PROVE  /\ ps[s] \in Period
         /\ ps[s].id \in Slots
         /\ ps[s].className \in Texts
         /\ ps[s].roomName \in Texts
         /\ ps[s].fullCourse \in BOOLEAN
         /\ ps[s].colorId \in Bands \cup {NoColor}
  BY DEF Schedule, Period

\* A keystroke, the clearing of an empty period, and painting, on one period.
LEMMA WithTextFields ==
  ASSUME NEW p \in Period, NEW field, NEW text \in Texts
  PROVE  /\ WithText(p, field, text) \in Period
         /\ WithText(p, field, text).id = p.id
         /\ WithText(p, field, text).colorId = p.colorId
  <1>1. CASE field = "className"
    BY <1>1 DEF WithText, Period
  <1>2. CASE field # "className"
    BY <1>2 DEF WithText, Period
  <1> QED  BY <1>1, <1>2

\* What a keystroke on the Day sheet does to a Period.
LEMMA DayEditedFields ==
  ASSUME NEW p \in Period, NEW field, NEW text \in Texts
  PROVE  /\ DayEdited(p, field, text) \in Period
         /\ DayEdited(p, field, text).id = p.id
         /\ DayEdited(p, field, text).colorId = p.colorId
         /\ DayEdited(p, field, text).fullCourse
  <1> DEFINE q == WithText(p, field, text)
  <1>1. q \in Period /\ q.id = p.id /\ q.colorId = p.colorId
    BY WithTextFields
  <1> HIDE DEF q
  <1>2. /\ [q EXCEPT !.fullCourse = TRUE] \in Period
        /\ [q EXCEPT !.fullCourse = TRUE].id = q.id
        /\ [q EXCEPT !.fullCourse = TRUE].colorId = q.colorId
        /\ [q EXCEPT !.fullCourse = TRUE].fullCourse
    BY <1>1 DEF Period
  <1> QED  BY <1>1, <1>2 DEF DayEdited, q

\* What a keystroke on the Full sheet does to a Period.
LEMMA FullEditedFields ==
  ASSUME NEW p \in Period, NEW field, NEW text \in Texts
  PROVE  /\ FullEdited(p, field, text) \in Period
         /\ FullEdited(p, field, text).id = p.id
         /\ FullEdited(p, field, text).colorId = NoColor
  <1> DEFINE q == WithText(p, field, text)
             r == [q EXCEPT !.fullCourse = FALSE, !.colorId = NoColor]
  <1>1. q \in Period /\ q.id = p.id
    BY WithTextFields
  <1> HIDE DEF q
  <1>2. r \in Period /\ r.id = q.id /\ r.colorId = NoColor
    BY <1>1 DEF Period
  <1> QED  BY <1>1, <1>2 DEF FullEdited, q

\* The list that addAllPeriod builds is sound.
THEOREM BlankScheduleSound == BlankSchedule \in SoundSchedules
  <1>1. BlankSchedule \in Schedule
    BY TextsAssumption DEF BlankSchedule, BlankPeriod, Schedule, Period
  <1>2. SoundSchedule(BlankSchedule)
    BY TablesAssumption
    DEF SoundSchedule, DistinctIds, TemplateIsBlank, ColorFollowsBand, IsBlank,
        BlankSchedule, BlankPeriod
  <1> QED  BY <1>1, <1>2 DEF SoundSchedules

\* A keystroke in a row keeps the id and the colour, and makes the slot full.
THEOREM DayEditedSound ==
  ASSUME NEW ps \in SoundSchedules, NEW b \in Bands,
         NEW field, NEW text \in Texts
  PROVE  [ps EXCEPT ![b] = DayEdited(@, field, text)] \in SoundSchedules
  <1> DEFINE qs == [ps EXCEPT ![b] = DayEdited(@, field, text)]
  <1>1. ps \in Schedule /\ SoundSchedule(ps) /\ b \in Slots
    BY TemplateIsNoRow DEF SoundSchedules
  <1>2. /\ DayEdited(ps[b], field, text) \in Period
        /\ DayEdited(ps[b], field, text).id = ps[b].id
        /\ DayEdited(ps[b], field, text).colorId = ps[b].colorId
        /\ DayEdited(ps[b], field, text).fullCourse
    BY <1>1, PeriodFields, DayEditedFields
  <1>3. qs \in Schedule /\ \A s \in Slots : qs[s] = IF s = b THEN DayEdited(ps[b], field, text) ELSE ps[s]
    BY <1>1, <1>2 DEF Schedule
  <1> HIDE DEF qs
  <1>4. DistinctIds(qs)
    BY <1>1, <1>2, <1>3 DEF SoundSchedule, DistinctIds
  <1>5. TemplateIsBlank(qs)
    BY <1>1, <1>3, TemplateIsNoRow DEF SoundSchedule, TemplateIsBlank
  <1>6. ColorFollowsBand(qs)
    BY <1>1, <1>2, <1>3 DEF SoundSchedule, ColorFollowsBand
  <1> QED  BY <1>3, <1>4, <1>5, <1>6 DEF SoundSchedules, SoundSchedule, qs

\* A keystroke in an enabled cell of the Full sheet keeps the id, takes the
\* colour away, and never reaches the template slot.
THEOREM FullEditedSound ==
  ASSUME NEW ps \in SoundSchedules, NEW cell \in FullSheetSlots,
         NEW field, NEW text \in Texts
  PROVE  [ps EXCEPT ![cell] = FullEdited(@, field, text)] \in SoundSchedules
  <1> DEFINE qs == [ps EXCEPT ![cell] = FullEdited(@, field, text)]
  <1>1. ps \in Schedule /\ SoundSchedule(ps) /\ cell \in Slots /\ cell # Template
    BY TablesAssumption, DisjointAssumption DEF SoundSchedules
  <1>2. /\ FullEdited(ps[cell], field, text) \in Period
        /\ FullEdited(ps[cell], field, text).id = ps[cell].id
        /\ FullEdited(ps[cell], field, text).colorId = NoColor
    BY <1>1, PeriodFields, FullEditedFields
  <1>3. qs \in Schedule /\ \A s \in Slots : qs[s] = IF s = cell THEN FullEdited(ps[cell], field, text) ELSE ps[s]
    BY <1>1, <1>2 DEF Schedule
  <1> HIDE DEF qs
  <1>4. DistinctIds(qs)
    BY <1>1, <1>2, <1>3 DEF SoundSchedule, DistinctIds
  <1>5. TemplateIsBlank(qs)
    BY <1>1, <1>3, TemplateIsNoRow DEF SoundSchedule, TemplateIsBlank
  <1>6. ColorFollowsBand(qs)
    BY <1>1, <1>2, <1>3 DEF SoundSchedule, ColorFollowsBand
  <1> QED  BY <1>3, <1>4, <1>5, <1>6 DEF SoundSchedules, SoundSchedule, qs

-----------------------------------------------------------------------------
(* The Day sheet's Save.                                                   *)

\* Painting changes the colour alone.
LEMMA PaintFields ==
  ASSUME NEW p \in Period, NEW c \in Bands \cup {NoColor}
  PROVE  /\ Paint(p, c) \in Period
         /\ Paint(p, c).id = p.id
         /\ Paint(p, c).colorId = c
         /\ Paint(p, c).fullCourse <=> p.fullCourse
         /\ SameText(Paint(p, c), p)
  BY DEF Paint, Period, SameText

\* _copyPeriodFields keeps the id of the destination.
LEMMA CopyFieldsFields ==
  ASSUME NEW p \in Period, NEW q \in Period
  PROVE  /\ CopyFields(p, q) \in Period
         /\ CopyFields(p, q).id = p.id
         /\ CopyFields(p, q).fullCourse <=> q.fullCourse
         /\ SameText(CopyFields(p, q), q)
  BY DEF CopyFields, Period, SameText

\* clearEmptyPeriods changes blank periods only.
LEMMA ClearedFields ==
  ASSUME NEW p \in Period
  PROVE  /\ Cleared(p) \in Period
         /\ Cleared(p).id = p.id
         /\ SameText(Cleared(p), p)
         /\ IsBlank(p) => ~Cleared(p).fullCourse /\ Cleared(p).colorId = NoColor
         /\ ~IsBlank(p) => Cleared(p) = p
  <1>1. CASE IsBlank(p)
    BY <1>1 DEF Cleared, Period, SameText
  <1>2. CASE ~IsBlank(p)
    BY <1>2 DEF Cleared, Period, SameText
  <1> QED  BY <1>1, <1>2

\* A band is a colour, and not the missing one.
LEMMA ColorsAreBands == \A b \in Bands : b \in Bands \cup {NoColor} /\ b # NoColor
  BY TablesAssumption DEF NoColor

\* Every slot of a band keeps its id and has the band's colour, or none; a
\* coloured one is a full course with the text of the row.
LEMMA BandPeriodFields ==
  ASSUME NEW ps \in Schedule, NEW edited, NEW s \in Slots, NEW b \in Bands
  PROVE  LET q == BandPeriod(ps, edited, s, b)
         IN  /\ q \in Period
             /\ q.id = ps[s].id
             /\ q.colorId \in {b, NoColor}
             /\ q.colorId # NoColor => q.fullCourse
  <1> DEFINE q == BandPeriod(ps, edited, s, b)
             copy == CopyFields(ps[s], ps[b])
  <1>1. ps[s] \in Period /\ ps[b] \in Period
    BY PeriodFields, TemplateIsNoRow
  <1>2. copy \in Period /\ copy.id = ps[s].id /\ (copy.fullCourse <=> ps[b].fullCourse)
    BY <1>1, CopyFieldsFields
  <1>3. Cleared(copy) \in Period /\ Cleared(copy).id = ps[s].id
    BY <1>2, ClearedFields
  <1>4. Cleared(ps[s]) \in Period /\ Cleared(ps[s]).id = ps[s].id
    BY <1>1, ClearedFields
  <1> HIDE DEF copy
  <1>5. CASE HasCourse(ps, b)
    <2>1. q = Paint(copy, b)
      BY <1>5 DEF BandPeriod, copy
    <2> QED  BY <2>1, <1>2, <1>5, PaintFields, ColorsAreBands DEF HasCourse
  <1>6. CASE ~HasCourse(ps, b) /\ edited[b]
    <2>1. q = Paint(Cleared(copy), NoColor)
      BY <1>6 DEF BandPeriod, copy
    <2> QED  BY <2>1, <1>3, PaintFields
  <1>7. CASE ~HasCourse(ps, b) /\ ~edited[b]
    <2>1. q = Paint(Cleared(ps[s]), NoColor)
      BY <1>7 DEF BandPeriod
    <2> QED  BY <2>1, <1>4, PaintFields
  <1> QED  BY <1>5, <1>6, <1>7

\* The same of a double slot.
LEMMA DoublePeriodFields ==
  ASSUME NEW ps \in Schedule, NEW dubs, NEW s \in Slots, NEW b \in Bands
  PROVE  LET q == DoublePeriod(ps, dubs, s, b)
         IN  /\ q \in Period
             /\ q.id = ps[s].id
             /\ q.colorId \in {b, NoColor}
             /\ q.colorId # NoColor => q.fullCourse
  <1> DEFINE q == DoublePeriod(ps, dubs, s, b)
             copy == CopyFields(ps[s], ps[b])
             blank == CopyFields(ps[s], Cleared(ps[Template]))
  <1>1. ps[s] \in Period /\ ps[b] \in Period /\ Cleared(ps[Template]) \in Period
    BY PeriodFields, ClearedFields, TemplateIsNoRow
  <1>2. copy \in Period /\ copy.id = ps[s].id /\ (copy.fullCourse <=> ps[b].fullCourse)
    BY <1>1, CopyFieldsFields
  <1>3. blank \in Period /\ blank.id = ps[s].id
    BY <1>1, CopyFieldsFields
  <1> HIDE DEF copy, blank
  <1>4. CASE dubs[b] /\ HasCourse(ps, b)
    <2>1. q = Paint(copy, b)
      BY <1>4 DEF DoublePeriod, copy
    <2> QED  BY <2>1, <1>2, <1>4, PaintFields, ColorsAreBands DEF HasCourse
  <1>5. CASE ~(dubs[b] /\ HasCourse(ps, b))
    <2>1. q = Paint(blank, NoColor)
      BY <1>5 DEF DoublePeriod, blank
    <2> QED  BY <2>1, <1>3, PaintFields
  <1> QED  BY <1>4, <1>5

\* The three kinds of slots of a saved Day sheet.
LEMMA DaySaveSlots ==
  ASSUME NEW ps, NEW dubs, NEW edited, NEW s \in Slots
  PROVE  \/ \E b \in Bands : /\ s = DoubleSlot[b]
                             /\ DaySave(ps, dubs, edited)[s] = DoublePeriod(ps, dubs, s, b)
         \/ \E b \in Bands : /\ s \in SlotsOf(b)
                             /\ DaySave(ps, dubs, edited)[s] = BandPeriod(ps, edited, s, b)
         \/ /\ DoublesIn(s) = {} /\ MeetsIn(s) = {}
            /\ DaySave(ps, dubs, edited)[s] = Cleared(ps[s])
  <1>1. CASE DoublesIn(s) # {}
    <2> DEFINE b == CHOOSE c \in DoublesIn(s) : TRUE
    <2>1. b \in DoublesIn(s)
      BY <1>1
    <2>2. DaySave(ps, dubs, edited)[s] = DoublePeriod(ps, dubs, s, b)
      BY <1>1 DEF DaySave
    <2> QED  BY <2>1, <2>2 DEF DoublesIn
  <1>2. CASE DoublesIn(s) = {} /\ MeetsIn(s) # {}
    <2> DEFINE b == CHOOSE c \in MeetsIn(s) : TRUE
    <2>1. b \in MeetsIn(s)
      BY <1>2
    <2>2. DaySave(ps, dubs, edited)[s] = BandPeriod(ps, edited, s, b)
      BY <1>2 DEF DaySave
    <2> QED  BY <2>1, <2>2 DEF MeetsIn
  <1>3. CASE DoublesIn(s) = {} /\ MeetsIn(s) = {}
    BY <1>3 DEF DaySave
  <1> QED  BY <1>1, <1>2, <1>3

\* Saving the Day sheet, whatever is ticked and whichever rows were edited,
\* keeps the ids, leaves the template blank and colours only full courses, in
\* the slots of their own band.
THEOREM DaySaveSound ==
  ASSUME NEW ps \in SoundSchedules, NEW dubs, NEW edited
  PROVE  DaySave(ps, dubs, edited) \in SoundSchedules
  <1> DEFINE qs == DaySave(ps, dubs, edited)
  <1>1. ps \in Schedule /\ SoundSchedule(ps)
    BY DEF SoundSchedules
  <1>2. ASSUME NEW s \in Slots
        PROVE  /\ qs[s] \in Period
               /\ qs[s].id = ps[s].id
               /\ qs[s].colorId # NoColor =>
                      /\ qs[s].fullCourse
                      /\ s \in SlotsOf(qs[s].colorId) \/ s = DoubleSlot[qs[s].colorId]
    <2>1. ASSUME NEW b \in Bands, s = DoubleSlot[b],
                 qs[s] = DoublePeriod(ps, dubs, s, b)
          PROVE  <1>2!2
      BY <1>1, <2>1, DoublePeriodFields
    <2>2. ASSUME NEW b \in Bands, s \in SlotsOf(b),
                 qs[s] = BandPeriod(ps, edited, s, b)
          PROVE  <1>2!2
      BY <1>1, <2>2, BandPeriodFields
    <2>3. ASSUME qs[s] = Cleared(ps[s])
          PROVE  <1>2!2
      <3>1. ps[s] \in Period
        BY <1>1, PeriodFields
      <3>2. CASE IsBlank(ps[s])
        BY <2>3, <3>1, <3>2, ClearedFields
      <3>3. CASE ~IsBlank(ps[s])
        BY <1>1, <2>3, <3>1, <3>3, ClearedFields DEF SoundSchedule, ColorFollowsBand
      <3> QED  BY <3>2, <3>3
    <2> QED  BY <2>1, <2>2, <2>3, DaySaveSlots
  <1>3. qs = [s \in Slots |-> qs[s]]
    BY DEF DaySave
  <1>4. qs[Template] = Cleared(ps[Template])
    BY DaySaveSlots, TablesAssumption, DisjointAssumption
  <1> HIDE DEF qs
  <1>5. qs \in Schedule
    BY <1>2, <1>3 DEF Schedule
  <1>6. DistinctIds(qs)
    BY <1>1, <1>2 DEF SoundSchedule, DistinctIds
  <1>7. TemplateIsBlank(qs)
    <2>1. ps[Template] \in Period /\ IsBlank(ps[Template])
      BY <1>1, PeriodFields, TemplateIsNoRow DEF SoundSchedule, TemplateIsBlank
    <2> QED  BY <1>4, <2>1, ClearedFields DEF TemplateIsBlank, IsBlank, SameText
  <1>8. ColorFollowsBand(qs)
    BY <1>2 DEF ColorFollowsBand
  <1> QED  BY <1>5, <1>6, <1>7, <1>8 DEF SoundSchedules, SoundSchedule, qs

-----------------------------------------------------------------------------
(* Which band rules a slot: the tables are disjoint, so DaySave's choice of *)
(* a band is no choice.                                                    *)

\* A slot of band b is ruled by band b alone.
LEMMA BandSlotIsRuled ==
  ASSUME NEW ps, NEW dubs, NEW edited,
         NEW b \in Bands, NEW s \in SlotsOf(b), s # DoubleSlot[b]
  PROVE  /\ s \in Slots
         /\ DaySave(ps, dubs, edited)[s] = BandPeriod(ps, edited, s, b)
  <1>1. s \in Slots
    BY TablesAssumption DEF SlotsOf, Range
  <1>2. \A c \in Bands : s # DoubleSlot[c]
    BY DisjointAssumption
  <1>3. \A c \in Bands : s \in SlotsOf(c) => c = b
    BY DisjointAssumption
  <1> QED  BY <1>1, <1>2, <1>3, DaySaveSlots DEF MeetsIn

\* The double slot of band b is ruled by the double of b alone.
LEMMA DoubleSlotIsRuled ==
  ASSUME NEW ps, NEW dubs, NEW edited, NEW b \in Bands, DoubleSlot[b] # NoSlot
  PROVE  /\ DoubleSlot[b] \in Slots
         /\ DaySave(ps, dubs, edited)[DoubleSlot[b]] = DoublePeriod(ps, dubs, DoubleSlot[b], b)
  <1> DEFINE s == DoubleSlot[b]
  <1>1. s \in Slots
    BY TablesAssumption
  <1>2. DoublesIn(s) = {b}
    BY <1>1, DisjointAssumption DEF DoublesIn
  <1>3. (CHOOSE c \in DoublesIn(s) : TRUE) = b
    BY <1>2
  <1> QED  BY <1>1, <1>2, <1>3 DEF DaySave

\* The first slot of a band is not its double.
LEMMA RowIsRuled ==
  ASSUME NEW ps, NEW dubs, NEW edited, NEW b \in Bands
  PROVE  b \in SlotsOf(b) /\ b # DoubleSlot[b]
  BY DisjointAssumption

\* A row that held no course holds none after the Save.
LEMMA NoCourseFromNothing ==
  ASSUME NEW ps \in Schedule, NEW dubs, NEW edited, NEW b \in Bands,
         HasCourse(DaySave(ps, dubs, edited), b)
  PROVE  HasCourse(ps, b)
  <1> SUFFICES ASSUME ~HasCourse(ps, b)  PROVE FALSE
    OBVIOUS
  <1> DEFINE copy == CopyFields(ps[b], ps[b])
             q == DaySave(ps, dubs, edited)[b]
  <1>1. q = BandPeriod(ps, edited, b, b)
    BY RowIsRuled, BandSlotIsRuled
  <1>2. ps[b] \in Period
    BY PeriodFields, TemplateIsNoRow
  <1>3. copy \in Period /\ (copy.fullCourse <=> ps[b].fullCourse) /\ (IsBlank(copy) <=> IsBlank(ps[b]))
    BY <1>2, CopyFieldsFields DEF SameText, IsBlank
  <1>4. ASSUME NEW p \in Period, ~p.fullCourse \/ IsBlank(p), q = Paint(Cleared(p), NoColor)
        PROVE  FALSE
    <2>1. Cleared(p) \in Period /\ ~Cleared(p).fullCourse
      BY <1>4, ClearedFields
    <2>2. ~q.fullCourse
      BY <1>4, <2>1, PaintFields
    <2> QED  BY <2>2 DEF HasCourse
  <1> HIDE DEF copy, q
  <1>5. q = Paint(Cleared(copy), NoColor) \/ q = Paint(Cleared(ps[b]), NoColor)
    BY <1>1 DEF BandPeriod, copy
  <1> QED  BY <1>2, <1>3, <1>4, <1>5 DEF HasCourse

\* What the Save leaves in a slot of a band with a course.
THEOREM CourseFillsBand ==
  ASSUME NEW ps \in Schedule, NEW dubs, NEW edited, NEW b \in Bands, HasCourse(ps, b),
         NEW s \in SlotsOf(b), s # DoubleSlot[b]
  PROVE  LET q == DaySave(ps, dubs, edited)[s]
         IN  q \in Period /\ SameText(q, ps[b]) /\ q.colorId = b /\ q.fullCourse
  <1> DEFINE copy == CopyFields(ps[s], ps[b])
  <1>1. s \in Slots /\ DaySave(ps, dubs, edited)[s] = Paint(copy, b)
    BY BandSlotIsRuled DEF BandPeriod
  <1>2. ps[s] \in Period /\ ps[b] \in Period
    BY <1>1, PeriodFields, TemplateIsNoRow
  <1>3. copy \in Period /\ SameText(copy, ps[b]) /\ copy.fullCourse
    BY <1>2, CopyFieldsFields DEF HasCourse
  <1> HIDE DEF copy
  <1>4. /\ Paint(copy, b) \in Period /\ Paint(copy, b).colorId = b
        /\ Paint(copy, b).fullCourse /\ SameText(Paint(copy, b), copy)
    BY <1>3, PaintFields, ColorsAreBands
  <1> QED  BY <1>1, <1>3, <1>4 DEF SameText

\* What it leaves in the double slot of a band: the course when the double is
\* ticked, the blank template otherwise.
THEOREM DoubleFollowsTick ==
  ASSUME NEW ps \in SoundSchedules, NEW dubs, NEW edited, NEW b \in Bands,
         DoubleSlot[b] # NoSlot
  PROVE  LET q == DaySave(ps, dubs, edited)[DoubleSlot[b]]
         IN  IF dubs[b] /\ HasCourse(ps, b)
             THEN SameText(q, ps[b]) /\ q.colorId = b
             ELSE IsBlank(q) /\ q.colorId = NoColor
  <1> DEFINE s == DoubleSlot[b]
             copy == CopyFields(ps[s], ps[b])
             blank == CopyFields(ps[s], Cleared(ps[Template]))
             q == DaySave(ps, dubs, edited)[s]
  <1>1. s \in Slots /\ q = DoublePeriod(ps, dubs, s, b)
    BY DoubleSlotIsRuled
  <1>2. /\ ps[s] \in Period /\ ps[b] \in Period /\ ps[Template] \in Period
        /\ IsBlank(ps[Template])
    BY <1>1, PeriodFields, TemplateIsNoRow
    DEF SoundSchedules, SoundSchedule, TemplateIsBlank
  <1>3. CASE dubs[b] /\ HasCourse(ps, b)
    <2>1. q = Paint(copy, b)
      BY <1>1, <1>3 DEF DoublePeriod
    <2>2. copy \in Period /\ SameText(copy, ps[b])
      BY <1>2, CopyFieldsFields
    <2> HIDE DEF copy, q
    <2>3. SameText(q, copy) /\ q.colorId = b
      BY <2>1, <2>2, PaintFields, ColorsAreBands
    <2> QED  BY <1>3, <2>2, <2>3 DEF SameText, q
  <1>4. CASE ~(dubs[b] /\ HasCourse(ps, b))
    <2>1. q = Paint(blank, NoColor)
      BY <1>1, <1>4 DEF DoublePeriod
    <2>2. Cleared(ps[Template]) \in Period /\ IsBlank(Cleared(ps[Template]))
      BY <1>2, ClearedFields DEF SameText, IsBlank
    <2>3. blank \in Period /\ IsBlank(blank)
      BY <1>2, <2>2, CopyFieldsFields DEF SameText, IsBlank
    <2> HIDE DEF blank, q
    <2>4. SameText(q, blank) /\ q.colorId = NoColor
      BY <2>1, <2>3, PaintFields
    <2> QED  BY <1>4, <2>3, <2>4 DEF SameText, IsBlank, q
  <1> QED  BY <1>3, <1>4

\* What it leaves in a slot of a free band: its own text, unless the row was
\* edited, and then the text of the row.
THEOREM FreeBandSlot ==
  ASSUME NEW ps \in Schedule, NEW dubs, NEW edited, NEW b \in Bands, ~HasCourse(ps, b),
         NEW s \in SlotsOf(b), s # DoubleSlot[b]
  PROVE  SameText(DaySave(ps, dubs, edited)[s], IF edited[b] THEN ps[b] ELSE ps[s])
  <1> DEFINE copy == CopyFields(ps[s], ps[b])
             q == DaySave(ps, dubs, edited)[s]
  <1>1. s \in Slots /\ q = BandPeriod(ps, edited, s, b)
    BY BandSlotIsRuled
  <1>2. ps[s] \in Period /\ ps[b] \in Period
    BY <1>1, PeriodFields, TemplateIsNoRow
  <1>3. copy \in Period /\ SameText(copy, ps[b])
    BY <1>2, CopyFieldsFields
  <1>4. ASSUME NEW p \in Period, q = Paint(Cleared(p), NoColor)
        PROVE  SameText(q, p)
    <2>1. Cleared(p) \in Period /\ SameText(Cleared(p), p)
      BY ClearedFields
    <2>2. SameText(Paint(Cleared(p), NoColor), Cleared(p))
      BY <2>1, PaintFields
    <2> QED  BY <1>4, <2>1, <2>2 DEF SameText
  <1>5. q = Paint(Cleared(IF edited[b] THEN copy ELSE ps[s]), NoColor)
    BY <1>1 DEF BandPeriod
  <1> HIDE DEF copy, q
  <1>6. SameText(q, IF edited[b] THEN copy ELSE ps[s])
    BY <1>2, <1>3, <1>4, <1>5
  <1> QED  BY <1>3, <1>6 DEF SameText, q

-----------------------------------------------------------------------------
(* Saving twice.                                                           *)

\* Periods with the same fields are the same.
LEMMA SamePeriod ==
  ASSUME NEW p \in Period, NEW q \in Period, p.id = q.id, SameText(p, q),
         p.fullCourse <=> q.fullCourse, p.colorId = q.colorId
  PROVE  p = q
  <1>1. p.fullCourse = q.fullCourse
    BY DEF Period
  <1> QED  BY <1>1 DEF Period, SameText

\* Copying twice does what copying once does.
LEMMA PeriodCopiedTwice ==
  ASSUME NEW to \in Period, NEW from \in Period, NEW again \in Period, NEW b \in Bands,
         SameText(again, from), again.fullCourse, from.fullCourse
  PROVE  LET q == Paint(CopyFields(to, from), b)
         IN  Paint(CopyFields(q, again), b) = q
  <1> DEFINE c == CopyFields(to, from)
             q == Paint(c, b)
             d == CopyFields(q, again)
             r == Paint(d, b)
  <1>1. c \in Period /\ SameText(c, from) /\ c.fullCourse
    BY CopyFieldsFields
  <1> HIDE DEF c
  <1>2. q \in Period /\ SameText(q, c) /\ q.fullCourse /\ q.colorId = b
    BY <1>1, PaintFields
  <1> HIDE DEF q
  <1>3. d \in Period /\ d.id = q.id /\ SameText(d, again) /\ d.fullCourse
    BY <1>2, CopyFieldsFields
  <1> HIDE DEF d
  <1>4. r \in Period /\ r.id = d.id /\ SameText(r, d) /\ r.fullCourse /\ r.colorId = b
    BY <1>3, PaintFields
  <1> HIDE DEF r
  <1>5. SameText(r, q)
    BY <1>1, <1>2, <1>3, <1>4 DEF SameText
  <1>6. r = q
    BY <1>2, <1>3, <1>4, <1>5, SamePeriod
  <1> QED  BY <1>6 DEF c, q, d, r

\* Clearing twice does what clearing once does.
LEMMA ClearedOnce ==
  ASSUME NEW p \in Period
  PROVE  /\ Cleared(Cleared(p)) = Cleared(p)
         /\ LET q == Paint(Cleared(p), NoColor)
            IN  Paint(Cleared(q), NoColor) = q
  <1> DEFINE c == Cleared(p)
             q == Paint(c, NoColor)
             r == Paint(Cleared(q), NoColor)
  <1>1. /\ c \in Period /\ SameText(c, p)
        /\ IsBlank(p) => ~c.fullCourse /\ c.colorId = NoColor
    BY ClearedFields
  <1>2. IsBlank(c) <=> IsBlank(p)
    BY <1>1 DEF SameText, IsBlank
  <1> HIDE DEF c
  <1>3. /\ Cleared(c) \in Period /\ Cleared(c).id = c.id /\ SameText(Cleared(c), c)
        /\ IsBlank(c) => ~Cleared(c).fullCourse /\ Cleared(c).colorId = NoColor
        /\ ~IsBlank(c) => Cleared(c) = c
    BY <1>1, ClearedFields
  <1>4. Cleared(c) = c
    BY <1>1, <1>2, <1>3, SamePeriod
  <1>5. /\ q \in Period /\ q.colorId = NoColor /\ SameText(q, c)
        /\ q.fullCourse <=> c.fullCourse
    BY <1>1, PaintFields
  <1>6. IsBlank(q) => ~q.fullCourse
    BY <1>1, <1>2, <1>5 DEF SameText, IsBlank
  <1> HIDE DEF q
  <1>7. /\ Cleared(q) \in Period /\ Cleared(q).id = q.id /\ SameText(Cleared(q), q)
        /\ IsBlank(q) => ~Cleared(q).fullCourse
        /\ ~IsBlank(q) => Cleared(q) = q
    BY <1>5, ClearedFields
  <1>8. /\ r \in Period /\ r.id = q.id /\ r.colorId = NoColor
        /\ r.fullCourse <=> Cleared(q).fullCourse
        /\ SameText(r, Cleared(q))
    BY <1>7, PaintFields
  <1> HIDE DEF r
  <1>9. r = q
    <2>1. r.fullCourse <=> q.fullCourse
      BY <1>6, <1>7, <1>8
    <2>2. SameText(r, q)
      BY <1>7, <1>8 DEF SameText
    <2> QED  BY <1>5, <1>8, <2>1, <2>2, SamePeriod
  <1> QED  BY <1>4, <1>9 DEF c, q, r

\* The expansion of the bands is a fixed point: a second Save, with no row
\* edited in between, changes nothing.
THEOREM SaveIsSettled ==
  ASSUME NEW ps \in SoundSchedules, NEW dubs, NEW edited, NEW untouched,
         \A b \in Bands : ~untouched[b]
  PROVE  LET once == DaySave(ps, dubs, edited)
         IN  DaySave(once, dubs, untouched) = once
  <1> DEFINE once == DaySave(ps, dubs, edited)
             twice == DaySave(once, dubs, untouched)
  <1>1. ps \in Schedule /\ once \in SoundSchedules
    BY DaySaveSound DEF SoundSchedules
  <1>2. once \in Schedule
    BY <1>1 DEF SoundSchedules
  <1>3. ASSUME NEW b \in Bands
        PROVE  /\ HasCourse(once, b) => HasCourse(ps, b)
               /\ HasCourse(ps, b) => /\ once[b] \in Period /\ SameText(once[b], ps[b])
                                      /\ once[b].fullCourse /\ HasCourse(once, b)
    <2>1. HasCourse(once, b) => HasCourse(ps, b)
      BY <1>1, NoCourseFromNothing
    <2>2. HasCourse(ps, b) =>
            once[b] \in Period /\ SameText(once[b], ps[b]) /\ once[b].fullCourse
      BY <1>1, RowIsRuled, CourseFillsBand
    <2> HIDE DEF once
    <2> QED  BY <2>1, <2>2 DEF HasCourse, SameText, IsBlank
  <1>4. ASSUME NEW s \in Slots  PROVE twice[s] = once[s]
    <2>1. ASSUME NEW b \in Bands, s = DoubleSlot[b]  PROVE twice[s] = once[s]
      <3>1. s # NoSlot
        BY TablesAssumption DEF NoSlot
      <3>2. /\ once[s] = DoublePeriod(ps, dubs, s, b)
            /\ twice[s] = DoublePeriod(once, dubs, s, b)
        BY <2>1, <3>1, DoubleSlotIsRuled
      <3>3. ps[s] \in Period /\ once[s] \in Period /\ ps[b] \in Period
        BY <1>1, <1>2, PeriodFields, TemplateIsNoRow
      <3>4. CASE dubs[b] /\ HasCourse(ps, b)
        <4>1. once[s] = Paint(CopyFields(ps[s], ps[b]), b)
          BY <3>2, <3>4 DEF DoublePeriod
        <4>2. twice[s] = Paint(CopyFields(once[s], once[b]), b)
          BY <3>2, <3>4, <1>3 DEF DoublePeriod
        <4>3. /\ once[b] \in Period /\ SameText(once[b], ps[b])
              /\ once[b].fullCourse /\ ps[b].fullCourse
          BY <1>3, <3>4 DEF HasCourse
        <4> HIDE DEF once, twice
        <4> QED  BY <3>3, <4>1, <4>2, <4>3, PeriodCopiedTwice
      <3>5. CASE ~(dubs[b] /\ HasCourse(ps, b))
        <4>1. once[s] = Paint(CopyFields(ps[s], Cleared(ps[Template])), NoColor)
          BY <3>2, <3>5 DEF DoublePeriod
        <4>2. twice[s] = Paint(CopyFields(once[s], Cleared(once[Template])), NoColor)
          BY <3>2, <3>5, <1>3 DEF DoublePeriod
        <4>3. once[Template] = Cleared(ps[Template])
          BY DaySaveSlots, TablesAssumption, DisjointAssumption
        <4>4. ps[Template] \in Period
          BY <1>1, PeriodFields, TemplateIsNoRow
        <4>5. Cleared(once[Template]) = Cleared(ps[Template])
          BY <4>3, <4>4, ClearedOnce
        <4>6. Cleared(ps[Template]) \in Period
          BY <4>4, ClearedFields
        <4> HIDE DEF once, twice
        <4>7. once[s].id = ps[s].id
          BY <3>3, <4>1, <4>6, CopyFieldsFields, PaintFields
        <4> QED  BY <4>1, <4>2, <4>5, <4>7 DEF CopyFields
      <3> QED  BY <3>4, <3>5
    <2>2. ASSUME NEW b \in Bands, s \in SlotsOf(b), s # DoubleSlot[b]
          PROVE  twice[s] = once[s]
      <3>1. /\ once[s] = BandPeriod(ps, edited, s, b)
            /\ twice[s] = BandPeriod(once, untouched, s, b)
        BY <2>2, BandSlotIsRuled
      <3>2. ps[s] \in Period /\ once[s] \in Period /\ ps[b] \in Period
        BY <1>1, <1>2, PeriodFields, TemplateIsNoRow
      <3>3. CASE HasCourse(ps, b)
        <4>1. once[s] = Paint(CopyFields(ps[s], ps[b]), b)
          BY <3>1, <3>3 DEF BandPeriod
        <4>2. twice[s] = Paint(CopyFields(once[s], once[b]), b)
          BY <3>1, <3>3, <1>3 DEF BandPeriod
        <4>3. /\ once[b] \in Period /\ SameText(once[b], ps[b])
              /\ once[b].fullCourse /\ ps[b].fullCourse
          BY <1>3, <3>3 DEF HasCourse
        <4> HIDE DEF once, twice
        <4> QED  BY <3>2, <4>1, <4>2, <4>3, PeriodCopiedTwice
      <3>4. CASE ~HasCourse(ps, b)
        <4>1. PICK p \in Period : once[s] = Paint(Cleared(p), NoColor)
          BY <3>1, <3>2, <3>4, CopyFieldsFields DEF BandPeriod
        <4>2. twice[s] = Paint(Cleared(once[s]), NoColor)
          BY <3>1, <3>4, <1>3 DEF BandPeriod
        <4> QED  BY <4>1, <4>2, ClearedOnce
      <3> QED  BY <3>3, <3>4
    <2>3. ASSUME DoublesIn(s) = {}, MeetsIn(s) = {}  PROVE twice[s] = once[s]
      <3>1. once[s] = Cleared(ps[s]) /\ twice[s] = Cleared(once[s])
        BY <2>3 DEF DaySave
      <3>2. ps[s] \in Period
        BY <1>1, PeriodFields
      <3> QED  BY <3>1, <3>2, ClearedOnce
    <2> QED  BY <2>1, <2>2, <2>3 DEF DoublesIn, MeetsIn
  <1>5. once = [s \in Slots |-> once[s]] /\ twice = [s \in Slots |-> twice[s]]
    BY DEF DaySave
  <1> HIDE DEF once, twice
  <1>6. twice = once
    BY <1>4, <1>5
  <1> QED  BY <1>6 DEF once, twice
=============================================================================
