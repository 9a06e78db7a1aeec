-------------------------- MODULE MCCalendarSession --------------------------
(* The smallest plan with a row, a free cell of the Full sheet and a       *)
(* template: loads and saves move whole schedules, so that more slots would *)
(* only add equal copies.                                                  *)
EXTENDS CalendarSession, TLC

SmallSlots == 0..2
SmallBands == {0}
OwnSlotOnly == 0 :> <<0>>
NoDouble == 0 :> NoSlot
SmallFullSheetSlots == {0, 1}
FreeCellOnly == {1}
=============================================================================
