--------------------------- MODULE MCModbusReceive ---------------------------
(***************************************************************************)
(* Small instances of ModbusReceive for TLC: frames with and without a     *)
(* meta part and with a count byte, and readings of no frame that fall     *)
(* short, run on and exceed the buffer.                                    *)
(***************************************************************************)
EXTENDS ModbusReceive

MCRequest(fn) == [fn |-> fn, nb |-> 1, nbWrite |-> 1]

MCIndications ==
  {MCRequest(READ_HOLDING_REGISTERS), MCRequest(WRITE_MULTIPLE_REGISTERS),
   MCRequest(REPORT_SLAVE_ID), MCRequest(WRITE_AND_READ_REGISTERS)}

MCGarbled ==
  {[fn |-> 0, count |-> 0],
   [fn |-> REPORT_SLAVE_ID, count |-> 0],
   [fn |-> WRITE_AND_READ_REGISTERS, count |-> 3],
   [fn |-> WRITE_AND_READ_REGISTERS, count |-> 254]}
=============================================================================
