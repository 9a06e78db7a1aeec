---------------------------- MODULE MCYearExport ----------------------------
(* The small plan of MCCalendarSession; slot 0 has two rows in classes.csv, *)
(* slot 1 has one and the template slot none, and two files of extra events *)
(* are on offer.                                                            *)
EXTENDS YearExport, TLC

SmallSlots == 0..2
SmallBands == {0}
OwnSlotOnly == 0 :> <<0>>
NoDouble == 0 :> NoSlot
SmallFullSheetSlots == {1}
SmallSlotRows == (0 :> 2) @@ (1 :> 1) @@ (2 :> 0)
SmallTableRows == <<1, 2>>

\* What an account may hold: nothing yet, or a course that has been saved.
NewAndSaved ==
    {BlankSchedule,
     DaySave([BlankSchedule EXCEPT ![0] = DayEdited(@, "className", "x")],
             [b \in Bands |-> FALSE], [b \in Bands |-> TRUE])}
=============================================================================
