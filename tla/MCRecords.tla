----------------------------- MODULE MCRecords -----------------------------
(***************************************************************************)
(* A small instance of Records for TLC.  With up to three records a table  *)
(* can be empty, hold the one row that text files never get, and hold      *)
(* several; the cell range of a workbook can be too short for a table and  *)
(* too long.  A minute is one tick and a period one or two minutes.        *)
(***************************************************************************)
EXTENDS Records

MCSaveMinutes == {1, 2}

=============================================================================
