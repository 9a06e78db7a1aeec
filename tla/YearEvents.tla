----------------------------- MODULE YearEvents -----------------------------
(***************************************************************************)
(* The words in which Downloads and YearExport speak of an export: the     *)
(* boxes of the Export tab, the rows of the CSV files in assets/, and the  *)
(* lines of the files that are handed to the browser.                      *)
(***************************************************************************)
EXTENDS BandPlan

CONSTANTS
    NoPeriods,   \* the schedule of a new user while its load is answered
    SlotRows,    \* how many rows of classes.csv name each slot
    NumTables,   \* the boxes that each add the events of one more file
    TableRows,   \* the number of events in each of these files
    Subject      \* what stands in the subject column of these files

Tables == 1..NumTables

ASSUME RowsAssumption ==
    /\ NoPeriods \notin Schedule
    /\ SlotRows \in [Slots -> Nat]
    /\ NumTables \in Nat
    /\ TableRows \in [Tables -> Nat]
    /\ Subject \notin Texts

-----------------------------------------------------------------------------
Prefs == [classes: BOOLEAN, headings: BOOLEAN, colors: BOOLEAN, free: BOOLEAN,
          tables: SUBSET Tables]

\* The defaults of class Person: only the classes are wanted.
DefaultPrefs == [classes |-> TRUE, headings |-> FALSE, colors |-> FALSE,
                 free |-> FALSE, tables |-> {}]

AllInOne == -2          \* Schedule.csv
OtherEvents == NoColor  \* OtherEvents.csv; the files of the bands are colours

ClassDate(s, r) == [kind |-> "class", of |-> s, row |-> r]
TableDate(n, r) == [kind |-> "table", of |-> n, row |-> r]

\* A name in the subject column: with or without a heading such as "A1 - ".
Name(heading, text) == [heading |-> heading, text |-> text]

Line(file, name, room, date) ==
    [file |-> file, name |-> name, room |-> room, date |-> date]

NoDownload == [files |-> {}, lines |-> <<>>]
=============================================================================
