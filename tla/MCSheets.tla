------------------------------ MODULE MCSheets ------------------------------
(* A miniature of the tables with every case of the real ones: band 0 has a *)
(* double of its own, band 1 has none (the Orange band), and the double of  *)
(* band 2 is also listed among its slots (the Pink band).                   *)
EXTENDS Sheets, TLC

MiniSlots == 0..7
MiniBands == 0..2
MiniBandSlots == (0 :> <<0, 3>>) @@ (1 :> <<1, 4>>) @@ (2 :> <<2, 5>>)
MiniDoubleSlot == (0 :> 6) @@ (1 :> NoSlot) @@ (2 :> 5)
MiniFullSheetSlots == 0..6
=============================================================================
