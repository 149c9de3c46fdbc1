---------------------------- MODULE MCModbusReply ----------------------------
(***************************************************************************)
(* Small instances of ModbusReply for TLC: one or two elements a table,    *)
(* requests for none to three values at, across and beyond the ends of the *)
(* mapping, and writes that bring fewer values, or more, than they are for.*)
(***************************************************************************)
EXTENDS ModbusReply

MCSize == [t \in Tables |-> IF t = "registers" THEN 2 ELSE 1]

MCStartMixed == [t \in Tables |-> IF t = "registers" THEN 0 ELSE 2]

MCStartShifted == [t \in Tables |-> 2]

MCLimit == [f \in Limited |-> 2]

MCSample(t) == CHOOSE v \in ValueOf(t) : v # Zero

MCContents ==
  [t \in WritableTables |->
     {<<>>, <<MCSample(t), Zero>>} \cup (IF t = "bits" THEN {<<MCSample(t)>>} ELSE {})]

MCAll == Functions
=============================================================================
