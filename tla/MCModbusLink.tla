---------------------------- MODULE MCModbusLink ----------------------------
(***************************************************************************)
(* Small instances of ModbusLink for TLC: two functions, a few calls more  *)
(* than there are transaction identifiers, one or two faults.              *)
(***************************************************************************)
EXTENDS ModbusLink

MCTcp == Tcp

\* Two reads that are answered with as many bytes, and a write.
MCOps ==
  {[fn |-> READ_HOLDING_REGISTERS, nb |-> 1, nbWrite |-> 0],
   [fn |-> READ_COILS, nb |-> 9, nbWrite |-> 0]}
=============================================================================
