--------------------------- MODULE ModbusMessages ---------------------------
(***************************************************************************)
(* The messages of the libmodbus copy under src/CVI Demo/libmodbus Demo:   *)
(* how long the requests the client builds and the responses the server    *)
(* builds are, and the three computations the receiving sides make from    *)
(* the bytes they have so far: how much to read after the function code,   *)
(* how much after that, and how long the answer to a request must be.      *)
(*                                                                         *)
(* A message is its function, the quantities it carries and, where it has  *)
(* one, its count byte; the values themselves play no part in its length.  *)
(***************************************************************************)
EXTENDS Integers

CONSTANT Backend      \* the frame around a message: Rtu or Tcp

READ_COILS == 1
READ_DISCRETE_INPUTS == 2
READ_HOLDING_REGISTERS == 3
READ_INPUT_REGISTERS == 4
WRITE_SINGLE_COIL == 5
WRITE_SINGLE_REGISTER == 6
READ_EXCEPTION_STATUS == 7
WRITE_MULTIPLE_COILS == 15
WRITE_MULTIPLE_REGISTERS == 16
REPORT_SLAVE_ID == 17
MASK_WRITE_REGISTER == 22
WRITE_AND_READ_REGISTERS == 23
EXCEPTION_BIT == 128

ReadBitFunctions == {READ_COILS, READ_DISCRETE_INPUTS}
ReadRegisterFunctions == {READ_HOLDING_REGISTERS, READ_INPUT_REGISTERS}
WriteSingleFunctions == {WRITE_SINGLE_COIL, WRITE_SINGLE_REGISTER}
WriteMultipleFunctions == {WRITE_MULTIPLE_COILS, WRITE_MULTIPLE_REGISTERS}

\* What a client function can ask for; nothing sends READ_EXCEPTION_STATUS.
ClientFunctions ==
  ReadBitFunctions \cup ReadRegisterFunctions \cup WriteSingleFunctions
    \cup WriteMultipleFunctions
    \cup {REPORT_SLAVE_ID, MASK_WRITE_REGISTER, WRITE_AND_READ_REGISTERS}

\* Bytes before the function code, bytes after the data, the longest frame.
Rtu == [header |-> 1, checksum |-> 2, maxAdu |-> 256]
Tcp == [header |-> 7, checksum |-> 0, maxAdu |-> 260]

ASSUME BackendAssumption == Backend \in {Rtu, Tcp}

MAX_READ_BITS == 2000
MAX_WRITE_BITS == 1968
MAX_READ_REGISTERS == 125
MAX_WRITE_REGISTERS == 123
MAX_WR_WRITE_REGISTERS == 121
MAX_WR_READ_REGISTERS == 125

ReportSlaveIdBytes == 10    \* slave id, run indicator and "LMB3.1.4"

BitBytes(nb) == nb \div 8 + (IF nb % 8 = 0 THEN 0 ELSE 1)

-----------------------------------------------------------------------------
(* Requests, as the client functions build them                            *)

\* A request: nb is its quantity, nbWrite the second one of
\* WRITE_AND_READ_REGISTERS.
Request == [fn : ClientFunctions, nb : Nat, nbWrite : Nat]

\* The limits the client functions enforce before they build anything: on too
\* much only, a request for nothing is sent.
Legal(req) ==
  /\ req.fn \in ReadBitFunctions => req.nb <= MAX_READ_BITS
  /\ req.fn \in ReadRegisterFunctions => req.nb <= MAX_READ_REGISTERS
  /\ req.fn = WRITE_MULTIPLE_COILS => req.nb <= MAX_WRITE_BITS
  /\ req.fn = WRITE_MULTIPLE_REGISTERS => req.nb <= MAX_WRITE_REGISTERS
  /\ req.fn = WRITE_AND_READ_REGISTERS =>
       req.nbWrite <= MAX_WR_WRITE_REGISTERS /\ req.nb <= MAX_WR_READ_REGISTERS

\* The count byte of a request, 0 where it has none.
RequestCount(req) ==
  IF req.fn = WRITE_MULTIPLE_COILS THEN BitBytes(req.nb)
  ELSE IF req.fn = WRITE_MULTIPLE_REGISTERS THEN 2 * req.nb
  ELSE IF req.fn = WRITE_AND_READ_REGISTERS THEN 2 * req.nbWrite
  ELSE 0

\* The basis: everything up to the address and the quantity.
build_request_basis == Backend.header + 5

\* A mask request replaces the quantity by two masks, a report request drops
\* address and quantity, a write-and-read request adds a second pair.
RequestLength(req) ==
  build_request_basis
    + IF req.fn \in WriteMultipleFunctions THEN 1 + RequestCount(req)
      ELSE IF req.fn = MASK_WRITE_REGISTER THEN 4 - 2
      ELSE IF req.fn = WRITE_AND_READ_REGISTERS THEN 5 + RequestCount(req)
      ELSE IF req.fn = REPORT_SLAVE_ID THEN -4
      ELSE 0

-----------------------------------------------------------------------------
(* Responses, as modbus_reply builds them                                  *)

build_response_basis == Backend.header + 1

\* The count byte of the response, 0 where it has none.
ResponseCount(req) ==
  IF req.fn \in ReadBitFunctions THEN BitBytes(req.nb)
  ELSE IF req.fn \in ReadRegisterFunctions \cup {WRITE_AND_READ_REGISTERS} THEN 2 * req.nb
  ELSE IF req.fn = REPORT_SLAVE_ID THEN ReportSlaveIdBytes
  ELSE 0

\* Single writes and masks are echoed, multiple writes up to the quantity.
ResponseLength(req) ==
  IF req.fn \in WriteSingleFunctions \cup {MASK_WRITE_REGISTER} THEN RequestLength(req)
  ELSE IF req.fn \in WriteMultipleFunctions THEN build_response_basis + 4
  ELSE build_response_basis + 1 + ResponseCount(req)

\* An exception carries the function with its top bit set and a code.
ExceptionLength == build_response_basis + 1

-----------------------------------------------------------------------------
(* What the receiving sides compute                                        *)

\* Bytes of addresses and counts that follow the function code.
compute_meta_length_after_function(fn, type) ==
  IF type = "indication"
    THEN IF fn <= WRITE_SINGLE_REGISTER THEN 4
         ELSE IF fn \in WriteMultipleFunctions THEN 5
         ELSE IF fn = MASK_WRITE_REGISTER THEN 6
         ELSE IF fn = WRITE_AND_READ_REGISTERS THEN 9
         ELSE 0
    ELSE IF fn \in WriteSingleFunctions \cup WriteMultipleFunctions THEN 4
         ELSE IF fn = MASK_WRITE_REGISTER THEN 6
         ELSE 1

\* A plausible mistake: the second count of WRITE_AND_READ_REGISTERS forgotten.
data_length_of_writes_only(fn, countByte, type) ==
  Backend.checksum
    + (IF \/ type = "indication" /\ fn \in WriteMultipleFunctions
          \/ type = "confirmation" /\ fn <= READ_INPUT_REGISTERS
         THEN countByte ELSE 0)

\* Bytes that follow those, with the checksum.
compute_data_length_after_meta(fn, countByte, type) ==
  Backend.checksum
    + IF \/ /\ type = "indication"
            /\ fn \in WriteMultipleFunctions \cup {WRITE_AND_READ_REGISTERS}
         \/ /\ type = "confirmation"
            /\ \/ fn <= READ_INPUT_REGISTERS
               \/ fn \in {REPORT_SLAVE_ID, WRITE_AND_READ_REGISTERS}
        THEN countByte
        ELSE 0

\* The frame the receiving side will take, to its last byte.
FramedLength(fn, countByte, type) ==
  Backend.header + 1 + compute_meta_length_after_function(fn, type)
    + compute_data_length_after_meta(fn, countByte, type)

\* The length check_confirmation insists on; the answer to REPORT_SLAVE_ID may
\* have any.
compute_response_length_from_request(req) ==
  Backend.header + Backend.checksum
    + IF req.fn \in ReadBitFunctions THEN 2 + BitBytes(req.nb)
      ELSE IF req.fn \in ReadRegisterFunctions \cup {WRITE_AND_READ_REGISTERS} THEN 2 + 2 * req.nb
      ELSE IF req.fn = READ_EXCEPTION_STATUS THEN 3
      ELSE IF req.fn = MASK_WRITE_REGISTER THEN 7
      ELSE 5
=============================================================================
