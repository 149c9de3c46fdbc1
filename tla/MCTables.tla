------------------------------ MODULE MCTables ------------------------------
(***************************************************************************)
(* A small instance of Tables for TLC.  9.5 is less than 100.2 as a number *)
(* and greater as a text, the upper limit lies between them, and only the  *)
(* first fits the buffers of 2.1; 8.7 and 9.5 have as many digits.  As     *)
(* whole numbers all are over the limit.                                   *)
(***************************************************************************)
EXTENDS Tables

MCWords == {87, 95, 1002}

=============================================================================
