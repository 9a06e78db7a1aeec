---------------------------- MODULE MCSheetLoops ----------------------------
(* SheetLoops on the tables of the program (person.dart:53-64).            *)
EXTENDS SheetLoops, TLC

\* Person.bands and Person.doubles.
PersonSlots == 0..55
PersonBands == 0..7
PersonBandSlots ==
    (0 :> <<0, 9, 16, 30, 46, 49>>) @@ (1 :> <<1, 8, 18, 38, 47, 52>>) @@
    (2 :> <<2, 22, 28, 33, 40, 50>>) @@ (3 :> <<3, 11, 20, 36, 42, 53>>) @@
    (4 :> <<4, 12, 21, 29, 34, 44>>) @@ (5 :> <<5, 13, 19, 27, 45, 51>>) @@
    (6 :> <<6, 10, 24, 37, 41, 25>>) @@ (7 :> <<7, 14, 17, 26, 32, 48>>)
PersonDoubleSlot ==
    (0 :> 31) @@ (1 :> 39) @@ (2 :> 23) @@ (3 :> 43) @@
    (4 :> 35) @@ (5 :> NoSlot) @@ (6 :> 25) @@ (7 :> 15)
\* All cells but G7 and G8.
PersonFullSheetSlots == 0..53
=============================================================================
