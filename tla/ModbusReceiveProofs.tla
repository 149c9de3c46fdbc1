------------------------- MODULE ModbusReceiveProofs -------------------------
(***************************************************************************)
(* Proofs about ModbusReceive, for every set of legal requests, every way  *)
(* the bytes arrive and any number of frames: the loop never overruns the  *)
(* message buffer, and on an undamaged line that settles, with the link    *)
(* recovery on, every receive starts at the start of a frame and returns   *)
(* nothing but whole frames.                                               *)
(***************************************************************************)
EXTENDS ModbusReceive, TLAPS

-----------------------------------------------------------------------------
(* What is computed from a message                                         *)

\* The number of bytes that hold nb bits is a natural number.
LEMMA BitBytesNat ==
  ASSUME NEW nb \in Nat
  PROVE  BitBytes(nb) \in Nat
  <1>1. nb \div 8 \in Nat
    OBVIOUS
  <1> QED BY <1>1 DEF BitBytes

\* Whatever the function, between 0 and 9 bytes follow it before the data.
LEMMA MetaBounded ==
  ASSUME NEW fn \in Nat
  PROVE  compute_meta_length_after_function(fn, Type) \in 0 .. 9
  BY DEF compute_meta_length_after_function

\* The two backends in numbers.
LEMMA BackendNumbers ==
  /\ Backend.header \in {1, 7}
  /\ Backend.checksum \in {0, 2}
  /\ Backend.maxAdu \in {256, 260}
  BY BackendAssumption DEF Rtu, Tcp

\* The reader of a frame takes exactly the bytes its writer built: requests.
LEMMA RequestFramed ==
  ASSUME NEW req \in Request
  PROVE  /\ RequestShape(req) \in [fn : Nat, count : Nat, length : Nat]
         /\ FramedLength(req.fn, RequestCount(req), "indication") = RequestShape(req).length
  <1> DEFINE c == RequestCount(req)
  <1>1. BitBytes(req.nb) \in Nat
    BY BitBytesNat DEF Request
  <1>2. c \in Nat
    BY <1>1 DEF RequestCount, Request
  <1>3. req.fn \in {1, 2, 3, 4, 5, 6, 15, 16, 17, 22, 23}
    BY DEF Request, ClientFunctions, ReadBitFunctions, ReadRegisterFunctions,
           WriteSingleFunctions, WriteMultipleFunctions, READ_COILS, READ_DISCRETE_INPUTS,
           READ_HOLDING_REGISTERS, READ_INPUT_REGISTERS, WRITE_SINGLE_COIL,
           WRITE_SINGLE_REGISTER, WRITE_MULTIPLE_COILS, WRITE_MULTIPLE_REGISTERS,
           REPORT_SLAVE_ID, MASK_WRITE_REGISTER, WRITE_AND_READ_REGISTERS
  <1> HIDE DEF c
  <1>4. FramedLength(req.fn, c, "indication") = RequestLength(req) + Backend.checksum
    BY <1>2, <1>3, BackendNumbers
       DEF FramedLength, compute_meta_length_after_function, compute_data_length_after_meta,
           RequestLength, c, build_request_basis, WriteMultipleFunctions,
           WRITE_SINGLE_REGISTER, WRITE_MULTIPLE_COILS, WRITE_MULTIPLE_REGISTERS,
           REPORT_SLAVE_ID, MASK_WRITE_REGISTER, WRITE_AND_READ_REGISTERS
  <1>5. RequestLength(req) + Backend.checksum \in Nat
    BY <1>2, <1>3, BackendNumbers DEF RequestLength, c, build_request_basis
  <1> QED BY <1>2, <1>3, <1>4, <1>5 DEF RequestShape, c

\* The reader of a frame takes exactly the bytes its writer built: responses.
LEMMA ResponseFramed ==
  ASSUME NEW req \in Request
  PROVE  /\ ResponseShape(req) \in [fn : Nat, count : Nat, length : Nat]
         /\ FramedLength(req.fn, ResponseCount(req), "confirmation") = ResponseShape(req).length
  <1> DEFINE c == ResponseCount(req)
  <1>1. BitBytes(req.nb) \in Nat
    BY BitBytesNat DEF Request
  <1>2. c \in Nat
    BY <1>1 DEF ResponseCount, Request, ReportSlaveIdBytes
  <1>3. req.fn \in {1, 2, 3, 4, 5, 6, 15, 16, 17, 22, 23}
    BY DEF Request, ClientFunctions, ReadBitFunctions, ReadRegisterFunctions,
           WriteSingleFunctions, WriteMultipleFunctions, READ_COILS, READ_DISCRETE_INPUTS,
           READ_HOLDING_REGISTERS, READ_INPUT_REGISTERS, WRITE_SINGLE_COIL,
           WRITE_SINGLE_REGISTER, WRITE_MULTIPLE_COILS, WRITE_MULTIPLE_REGISTERS,
           REPORT_SLAVE_ID, MASK_WRITE_REGISTER, WRITE_AND_READ_REGISTERS
  <1> HIDE DEF c
  <1>4. /\ FramedLength(req.fn, c, "confirmation") = ResponseLength(req) + Backend.checksum
        /\ ResponseLength(req) \in Nat
    BY <1>2, <1>3, BackendNumbers
       DEF FramedLength, compute_meta_length_after_function, compute_data_length_after_meta,
           ResponseLength, RequestLength, c, build_request_basis, build_response_basis,
           WriteMultipleFunctions, WriteSingleFunctions, WRITE_SINGLE_COIL, READ_INPUT_REGISTERS,
           WRITE_SINGLE_REGISTER, WRITE_MULTIPLE_COILS, WRITE_MULTIPLE_REGISTERS,
           REPORT_SLAVE_ID, MASK_WRITE_REGISTER, WRITE_AND_READ_REGISTERS
  <1> QED BY <1>2, <1>3, <1>4, BackendNumbers DEF ResponseShape, c

\* ... and exceptions.
LEMMA ExceptionFramed ==
  ASSUME NEW req \in Request
  PROVE  /\ ExceptionShape(req) \in [fn : Nat, count : Nat, length : Nat]
         /\ FramedLength(req.fn + EXCEPTION_BIT, 0, "confirmation") = ExceptionShape(req).length
  <1>1. req.fn \in Nat
    BY DEF Request, ClientFunctions, ReadBitFunctions, ReadRegisterFunctions,
           WriteSingleFunctions, WriteMultipleFunctions, READ_COILS, READ_DISCRETE_INPUTS,
           READ_HOLDING_REGISTERS, READ_INPUT_REGISTERS, WRITE_SINGLE_COIL,
           WRITE_SINGLE_REGISTER, WRITE_MULTIPLE_COILS, WRITE_MULTIPLE_REGISTERS,
           REPORT_SLAVE_ID, MASK_WRITE_REGISTER, WRITE_AND_READ_REGISTERS
  <1> QED
    BY <1>1, BackendNumbers
       DEF ExceptionShape, ExceptionLength, EXCEPTION_BIT, FramedLength,
           compute_meta_length_after_function, compute_data_length_after_meta,
           build_response_basis, WriteMultipleFunctions, WriteSingleFunctions,
           WRITE_SINGLE_COIL, READ_INPUT_REGISTERS, WRITE_SINGLE_REGISTER,
           WRITE_MULTIPLE_COILS, WRITE_MULTIPLE_REGISTERS, REPORT_SLAVE_ID,
           MASK_WRITE_REGISTER, WRITE_AND_READ_REGISTERS

\* What check_confirmation expects in answer to a request is what modbus_reply
\* builds, for every function but the one whose answer may have any length.
THEOREM AnswerLengthExpected ==
  ASSUME NEW req \in Request, req.fn # REPORT_SLAVE_ID
  PROVE  compute_response_length_from_request(req) = ResponseShape(req).length
  <1>1. BitBytes(req.nb) \in Nat
    BY BitBytesNat DEF Request
  <1> QED
    BY <1>1, BackendNumbers
       DEF Request, ClientFunctions, ReadBitFunctions, ReadRegisterFunctions,
           WriteSingleFunctions, WriteMultipleFunctions, READ_COILS, READ_DISCRETE_INPUTS,
           READ_HOLDING_REGISTERS, READ_INPUT_REGISTERS, WRITE_SINGLE_COIL,
           WRITE_SINGLE_REGISTER, WRITE_MULTIPLE_COILS, WRITE_MULTIPLE_REGISTERS,
           REPORT_SLAVE_ID, MASK_WRITE_REGISTER, WRITE_AND_READ_REGISTERS,
           READ_EXCEPTION_STATUS, compute_response_length_from_request, ResponseShape,
           ResponseLength, RequestLength, ResponseCount, build_request_basis,
           build_response_basis

\* Legal requests, the answers to them and exceptions fit the buffer.
LEMMA LegalFits ==
  ASSUME NEW req \in Request, Legal(req)
  PROVE  /\ RequestShape(req).length <= Backend.maxAdu
         /\ ResponseShape(req).length <= Backend.maxAdu
         /\ ExceptionShape(req).length <= Backend.maxAdu
  <1>1. /\ Backend = Rtu \/ Backend = Tcp
        /\ Rtu.header = 1 /\ Rtu.checksum = 2 /\ Rtu.maxAdu = 256
        /\ Tcp.header = 7 /\ Tcp.checksum = 0 /\ Tcp.maxAdu = 260
    BY BackendAssumption DEF Rtu, Tcp
  <1>2. /\ BitBytes(req.nb) \in Nat
        /\ req.nb <= MAX_READ_BITS => BitBytes(req.nb) <= 250
        /\ req.nb <= MAX_WRITE_BITS => BitBytes(req.nb) <= 246
    <2>1. req.nb \in Nat
      BY DEF Request
    <2>2. /\ req.nb <= 2000 => req.nb \div 8 <= 249 \/ (req.nb \div 8 = 250 /\ req.nb % 8 = 0)
          /\ req.nb <= 1968 => req.nb \div 8 <= 245 \/ (req.nb \div 8 = 246 /\ req.nb % 8 = 0)
          /\ req.nb \div 8 \in Nat
      BY <2>1
    <2> QED BY <2>2 DEF BitBytes, MAX_READ_BITS, MAX_WRITE_BITS
  <1>3. req.nb \in Nat /\ req.nbWrite \in Nat
    BY DEF Request
  <1>4. /\ RequestLength(req) <= Backend.header + 252
        /\ ResponseLength(req) <= Backend.header + 252
    BY <1>1, <1>2, <1>3
       DEF Legal, Request, ClientFunctions, ReadBitFunctions, ReadRegisterFunctions,
           WriteSingleFunctions, WriteMultipleFunctions, READ_COILS, READ_DISCRETE_INPUTS,
           READ_HOLDING_REGISTERS, READ_INPUT_REGISTERS, WRITE_SINGLE_COIL,
           WRITE_SINGLE_REGISTER, WRITE_MULTIPLE_COILS, WRITE_MULTIPLE_REGISTERS,
           REPORT_SLAVE_ID, MASK_WRITE_REGISTER, WRITE_AND_READ_REGISTERS, MAX_READ_REGISTERS,
           MAX_WRITE_REGISTERS, MAX_WR_WRITE_REGISTERS, MAX_WR_READ_REGISTERS,
           ResponseLength, RequestLength, RequestCount, ResponseCount, ReportSlaveIdBytes,
           build_request_basis, build_response_basis
  <1>5. /\ RequestLength(req) \in Int /\ ResponseLength(req) \in Int
    BY <1>1, <1>2, <1>3
       DEF ResponseLength, RequestLength, RequestCount, ResponseCount, ReportSlaveIdBytes,
           build_request_basis, build_response_basis
  <1> QED
    BY <1>1, <1>4, <1>5
       DEF RequestShape, ResponseShape, ExceptionShape, ExceptionLength, build_response_basis

\* No frame is empty.
LEMMA NeverEmpty ==
  ASSUME NEW fn \in Nat, NEW count \in Nat, NEW type \in {"indication", "confirmation"}
  PROVE  FramedLength(fn, count, type) # 0
  BY BackendNumbers
     DEF FramedLength, compute_meta_length_after_function, compute_data_length_after_meta

\* So every frame the peer can write is framed right and fits.
LEMMA ShapesFramed ==
  ASSUME NEW s \in Shapes
  PROVE  /\ s \in [fn : Nat, count : Nat, length : Nat \ {0}]
         /\ s.length <= Backend.maxAdu
         /\ Seen(s) \in [fn : Nat, count : Nat]
         /\ FramedLength(Seen(s).fn, Seen(s).count, Type) = s.length
  <1>1. \A req \in Requests : req \in Request /\ Legal(req)
    BY ReceiveAssumption
  <1>2. CASE Type = "indication"
    <2>1. PICK req \in Requests : s = RequestShape(req)
      BY <1>2 DEF Shapes
    <2>2. s.fn = req.fn /\ s.count = RequestCount(req)
      BY <2>1 DEF RequestShape
    <2> QED BY <1>1, <1>2, <2>1, <2>2, RequestFramed, LegalFits, NeverEmpty DEF Seen
  <1>3. CASE Type = "confirmation"
    <2>1. PICK req \in Requests : s = ResponseShape(req) \/ s = ExceptionShape(req)
      BY <1>3 DEF Shapes
    <2>2. CASE s = ResponseShape(req)
      <3>1. s.fn = req.fn /\ s.count = ResponseCount(req)
        BY <2>2 DEF ResponseShape
      <3> QED BY <1>1, <1>3, <2>2, <3>1, ResponseFramed, LegalFits, NeverEmpty DEF Seen
    <2>3. CASE s = ExceptionShape(req)
      <3>1. s.fn = req.fn + EXCEPTION_BIT /\ s.count = 0
        BY <2>3 DEF ExceptionShape
      <3> QED BY <1>1, <1>3, <2>3, <3>1, ExceptionFramed, LegalFits, NeverEmpty DEF Seen
    <2> QED BY <2>1, <2>2, <2>3
  <1> QED BY <1>2, <1>3, ReceiveAssumption

-----------------------------------------------------------------------------
(* Type correctness                                                        *)

\* The numbers a step computes from the shape it has read.
LEMMA LengthsNatural ==
  ASSUME NEW fn \in Nat, NEW count \in Nat
  PROVE  /\ compute_meta_length_after_function(fn, Type) \in Nat
         /\ compute_data_length_after_meta(fn, count, Type) \in Nat
  BY MetaBounded, BackendNumbers DEF compute_data_length_after_meta

\* What can be read at any position has a function and a count.
LEMMA ShapeRead ==
  ASSUME TypeOK, NEW p, NEW s \in ShapesAt(p)
  PROVE  /\ s \in {Seen(t) : t \in Shapes} \cup GarbledShapes
         /\ s.fn \in Nat /\ s.count \in Nat
  <1>1. s \in {Seen(t) : t \in Shapes} \cup GarbledShapes
    <2>1. CASE FramesAt(p) = {}
      BY <2>1 DEF ShapesAt
    <2>2. CASE FramesAt(p) # {}
      <3>1. PICK f \in FramesAt(p) : s = Seen(f.shape)
        BY <2>2 DEF ShapesAt
      <3>2. f.shape \in Shapes
        BY DEF FramesAt, TypeOK
      <3> QED BY <3>1, <3>2
    <2> QED BY <2>1, <2>2
  <1>2. \A t \in Shapes : Seen(t) \in [fn : Nat, count : Nat]
    BY ShapesFramed
  <1> QED BY <1>1, <1>2, ReceiveAssumption

\* The part of TypeOK about positions and results, for the end of a receive.
LEMMA CheckIntegrityType ==
  ASSUME TypeOK, NEW end \in Nat, end <= arrived, CheckIntegrity(from, end)
  PROVE  /\ pos' \in Nat /\ arrived' = arrived /\ pos' <= arrived
         /\ step' = "idle" /\ toRead' = 0
         /\ result' \in {"message", "ignored", "crc"}
  BY DEF CheckIntegrity, ReturnFrom, TypeOK

\* ... and for ReadData, which may also go on to the data.
LEMMA ReadDataType ==
  ASSUME TypeOK, NEW s, s.fn \in Nat, s.count \in Nat,
         NEW len \in Nat, from + len <= arrived, ReadData(s, len)
  PROVE  /\ pos' \in Nat /\ arrived' = arrived /\ pos' <= arrived
         /\ step' = "idle" \/ (step' = "data" /\ pos' = from + len)
         /\ toRead' \in Nat
         /\ result' \in {"message", "ignored", "crc", "overlong", result}
  <1> DEFINE n == compute_data_length_after_meta(s.fn, s.count, Type)
  <1>1. n \in Nat
    BY LengthsNatural
  <1>5. from + len \in Nat /\ arrived \in Nat
    BY DEF TypeOK
  <1> HIDE DEF n
  <1>2. CASE TooLong(len, n) /\ ReturnFrom("overlong") /\ pos' = from + len /\ UNCHANGED arrived
    BY <1>5, <1>2 DEF ReturnFrom
  <1>3. CASE /\ step' = "data" /\ toRead' = n /\ pos' = from + len
             /\ UNCHANGED <<arrived, result>>
    BY <1>1, <1>5, <1>3
  <1>4. CASE CheckIntegrity(from, from + len)
    BY <1>5, <1>4, CheckIntegrityType
  <1> QED BY <1>2, <1>3, <1>4 DEF ReadData, n

LEMMA TypeInit == Init => TypeOK
  BY DEF Init, TypeOK

LEMMA TypeStep == TypeOK /\ [Next]_vars => TypeOK'
  <1> SUFFICES ASSUME TypeOK, [Next]_vars PROVE TypeOK'
    OBVIOUS
  <1> USE DEF TypeOK
  <1>0. /\ {pos, arrived, written, from, toRead} \subseteq Nat
        /\ pos <= arrived /\ arrived <= written
    OBVIOUS
  <1>1. CASE PeerWrites
    <2>1. PICK s \in Shapes, mine \in BOOLEAN, intact \in BOOLEAN :
            LET f == [start |-> written, shape |-> s, mine |-> mine, intact |-> intact]
            IN  frames' = frames \cup {f} /\ written' = FrameEnd(f)
      BY <1>1 DEF PeerWrites
    <2>2. s.length \in Nat /\ written' = written + s.length
      BY <2>1, ShapesFramed DEF FrameEnd
    <2>3. /\ open' = open /\ arrived' = arrived /\ pos' = pos /\ step' = step /\ from' = from
          /\ toRead' = toRead /\ shape' = shape /\ result' = result
      BY <1>1 DEF PeerWrites, receiveVars
    <2>4. \A f \in frames' :
            /\ f \in [start : Nat, shape : Shapes, mine : BOOLEAN, intact : BOOLEAN]
            /\ FrameEnd(f) <= written'
      <3> TAKE f \in frames'
      <3>1. CASE f \in frames
        <4>1. f.start + f.shape.length <= written /\ f.start \in Nat /\ f.shape.length \in Nat
          BY <3>1, ShapesFramed DEF FrameEnd
        <4> QED BY <1>0, <2>2, <3>1, <4>1 DEF FrameEnd
      <3>2. CASE f = [start |-> written, shape |-> s, mine |-> mine, intact |-> intact]
        BY <1>0, <2>2, <3>2 DEF FrameEnd
      <3> QED BY <2>1, <3>1, <3>2
    <2> QED BY <1>0, <2>2, <2>3, <2>4
  <1>2. CASE PeerCloses
    BY <1>2 DEF PeerCloses, receiveVars, FrameEnd
  <1>3. CASE BytesArrive
    BY <1>3 DEF BytesArrive, receiveVars, wireVars, FrameEnd
  <1>4. CASE Receive
    BY <1>4, BackendNumbers DEF Receive, wireVars, FrameEnd
  <1>5. CASE ReadSome
    <2>1. Chunk \in Nat /\ Chunk <= toRead /\ pos + Chunk <= arrived
      BY <1>5 DEF ReadSome, Chunk
    <2> QED BY <1>5, <2>1 DEF ReadSome, wireVars, FrameEnd
  <1>6. CASE ReadFunction
    <2>1. /\ frames' = frames /\ written' = written /\ open' = open /\ from' = from
          /\ arrived - pos >= toRead
      BY <1>6 DEF ReadFunction, wireVars
    <2>2. PICK s \in ShapesAt(from) :
            /\ shape' = s
            /\ \/ /\ step' = "meta"
                  /\ toRead' = compute_meta_length_after_function(s.fn, Type)
                  /\ pos' = pos + toRead
                  /\ UNCHANGED <<arrived, result>>
               \/ ReadData(s, pos + toRead - from)
      BY <1>6 DEF ReadFunction
    <2>3. s.fn \in Nat /\ s.count \in Nat /\ s \in {Seen(t) : t \in Shapes} \cup GarbledShapes
      BY ShapeRead
    <2>4. CASE /\ step' = "meta"
               /\ toRead' = compute_meta_length_after_function(s.fn, Type)
               /\ pos' = pos + toRead
               /\ UNCHANGED <<arrived, result>>
      <3>1. compute_meta_length_after_function(s.fn, Type) \in Nat
        BY <2>3, LengthsNatural
      <3> QED BY <1>0, <1>6, <2>1, <2>2, <2>3, <2>4, <3>1 DEF FrameEnd, ReadFunction
    <2>5. CASE ReadData(s, pos + toRead - from)
      <3>1. /\ pos + toRead - from \in Nat /\ from + (pos + toRead - from) <= arrived
            /\ from + (pos + toRead - from) = pos + toRead
        BY <1>0, <1>6, <2>1 DEF ReadFunction
      <3>2. /\ pos' \in Nat /\ arrived' = arrived /\ pos' <= arrived
            /\ step' = "idle" \/ (step' = "data" /\ pos' = pos + toRead)
            /\ toRead' \in Nat
            /\ result' \in {"message", "ignored", "crc", "overlong", result}
        BY <2>3, <2>5, <3>1, ReadDataType
      <3>3. step' = "data" => from <= pos'
        BY <1>0, <1>6, <3>2 DEF ReadFunction
      <3> QED BY <1>0, <2>1, <2>2, <2>3, <3>2, <3>3 DEF FrameEnd
    <2> QED BY <2>2, <2>4, <2>5
  <1>7. CASE ReadMeta
    <2>1. /\ frames' = frames /\ written' = written /\ open' = open /\ from' = from
          /\ shape' = shape /\ step = "meta"
          /\ arrived - pos >= toRead /\ ReadData(shape, pos + toRead - from)
      BY <1>7 DEF ReadMeta, wireVars
    <2>2. shape.fn \in Nat /\ shape.count \in Nat
      BY ShapesFramed, ReceiveAssumption DEF NoShape
    <2>3. /\ pos + toRead - from \in Nat /\ from + (pos + toRead - from) <= arrived
          /\ from + (pos + toRead - from) = pos + toRead
      BY <1>0, <2>1
    <2>4. /\ pos' \in Nat /\ arrived' = arrived /\ pos' <= arrived
          /\ step' = "idle" \/ (step' = "data" /\ pos' = pos + toRead)
          /\ toRead' \in Nat
          /\ result' \in {"message", "ignored", "crc", "overlong", result}
      BY <2>1, <2>2, <2>3, ReadDataType
    <2>5. step' = "data" => from <= pos'
      BY <1>0, <2>1, <2>4
    <2> QED BY <1>0, <2>1, <2>4, <2>5 DEF FrameEnd
  <1>8. CASE ReadRest
    <2>1. /\ frames' = frames /\ written' = written /\ open' = open /\ from' = from
          /\ shape' = shape
          /\ arrived - pos >= toRead /\ CheckIntegrity(from, pos + toRead)
      BY <1>8 DEF ReadRest, wireVars
    <2>2. pos + toRead \in Nat /\ pos + toRead <= arrived
      BY <1>0, <2>1
    <2>3. /\ pos' \in Nat /\ arrived' = arrived /\ pos' <= arrived
          /\ step' = "idle" /\ toRead' = 0
          /\ result' \in {"message", "ignored", "crc"}
      BY <2>1, <2>2, CheckIntegrityType
    <2> QED BY <1>0, <2>1, <2>3 DEF FrameEnd
  <1>9. CASE Timeout
    BY <1>9 DEF Timeout, ReturnFrom, modbus_flush, Flushed, wireVars, FrameEnd
  <1>10. CASE Reset
    BY <1>10 DEF Reset, ReturnFrom, Reconnect, wireVars, FrameEnd
  <1>11. CASE UNCHANGED vars
    BY <1>11 DEF vars, wireVars, receiveVars, FrameEnd
  <1> QED
    BY <1>1, <1>2, <1>3, <1>4, <1>5, <1>6, <1>7, <1>8, <1>9, <1>10, <1>11 DEF Next, Loop

\* TypeOK of ModbusReceive: the bytes taken never outrun those that have come,
\* nor these what was written.
THEOREM TypeCorrect == Spec => []TypeOK
  BY TypeInit, TypeStep, PTL DEF Spec

-----------------------------------------------------------------------------
(* The buffer                                                              *)

\* Where the current part of the message ends, counted from its start.
PartFits ==
  /\ step = "function" => (pos - from) + toRead = Backend.header + 1
  /\ step = "meta" => (pos - from) + toRead <= Backend.header + 10
  /\ step = "data" => (pos - from) + toRead <= Backend.maxAdu

\* The data part is entered only when it fits.
LEMMA ReadDataFits ==
  ASSUME TypeOK, NEW s, s.fn \in Nat, s.count \in Nat,
         NEW len \in Nat, ReadData(s, len)
  PROVE  \/ step' = "idle"
         \/ step' = "data" /\ pos' - from + toRead' <= Backend.maxAdu
  <1> DEFINE n == compute_data_length_after_meta(s.fn, s.count, Type)
  <1>1. n \in Nat
    BY LengthsNatural
  <1>2. from \in Nat /\ Backend.maxAdu \in Nat
    BY BackendNumbers DEF TypeOK
  <1> HIDE DEF n
  <1> QED BY <1>1, <1>2 DEF ReadData, n, ReturnFrom, CheckIntegrity, TooLong

LEMMA FitsStep == TypeOK /\ PartFits /\ [Next]_vars => PartFits'
  <1> SUFFICES ASSUME TypeOK, PartFits, [Next]_vars PROVE PartFits'
    OBVIOUS
  <1> USE DEF PartFits
  <1>0. /\ pos \in Nat /\ arrived \in Nat /\ from \in Nat /\ toRead \in Nat
        /\ step # "idle" => from <= pos
        /\ Backend.header \in Nat
    BY BackendNumbers DEF TypeOK
  <1>1. CASE PeerWrites \/ PeerCloses \/ BytesArrive
    BY <1>1 DEF PeerWrites, PeerCloses, BytesArrive, receiveVars
  <1>2. CASE Receive
    BY <1>0, <1>2 DEF Receive
  <1>3. CASE ReadSome
    <2>1. Chunk \in Int
      BY <1>0 DEF Chunk
    <2> QED BY <1>0, <1>3, <2>1 DEF ReadSome
  <1>4. CASE ReadFunction
    <2>1. PICK s \in ShapesAt(from) :
            \/ /\ step' = "meta"
               /\ toRead' = compute_meta_length_after_function(s.fn, Type)
               /\ pos' = pos + toRead
            \/ ReadData(s, pos + toRead - from)
      BY <1>4 DEF ReadFunction
    <2>2. s.fn \in Nat /\ s.count \in Nat
      BY ShapeRead
    <2>3. step = "function" /\ from' = from
      BY <1>4 DEF ReadFunction
    <2>4. CASE /\ step' = "meta"
               /\ toRead' = compute_meta_length_after_function(s.fn, Type)
               /\ pos' = pos + toRead
      <3>1. compute_meta_length_after_function(s.fn, Type) \in 0 .. 9
        BY <2>2, MetaBounded
      <3> QED BY <1>0, <2>3, <2>4, <3>1
    <2>5. CASE ReadData(s, pos + toRead - from)
      <3>1. pos + toRead - from \in Nat
        BY <1>0, <2>3
      <3>2. step' = "idle" \/ (step' = "data" /\ pos' - from + toRead' <= Backend.maxAdu)
        BY <2>2, <2>5, <3>1, ReadDataFits
      <3> QED BY <2>3, <3>2
    <2> QED BY <2>1, <2>4, <2>5
  <1>5. CASE ReadMeta
    <2>1. shape.fn \in Nat /\ shape.count \in Nat
      BY ShapesFramed, ReceiveAssumption DEF NoShape, TypeOK
    <2>2. pos + toRead - from \in Nat /\ ReadData(shape, pos + toRead - from) /\ from' = from
      BY <1>0, <1>5 DEF ReadMeta
    <2>3. step' = "idle" \/ (step' = "data" /\ pos' - from + toRead' <= Backend.maxAdu)
      BY <2>1, <2>2, ReadDataFits
    <2> QED BY <2>2, <2>3
  <1>6. CASE ReadRest \/ Timeout \/ Reset
    BY <1>6 DEF ReadRest, CheckIntegrity, Timeout, Reset, ReturnFrom
  <1>7. CASE UNCHANGED vars
    BY <1>7 DEF vars, receiveVars
  <1> QED BY <1>1, <1>2, <1>3, <1>4, <1>5, <1>6, <1>7 DEF Next, Loop

\* FitsBuffer of ModbusReceive: on every backend, with any damage and any
\* recovery, the loop asks recv only for what the message buffer can hold.
THEOREM FitsBufferCorrect == Spec => []FitsBuffer
  <1>1. Init => PartFits
    BY DEF Init, PartFits
  <1>2. TypeOK /\ PartFits => FitsBuffer
    <2> SUFFICES ASSUME TypeOK, PartFits PROVE FitsBuffer
      OBVIOUS
    <2>1. Backend.header + 10 <= Backend.maxAdu
      BY BackendNumbers
    <2> QED BY <2>1, BackendNumbers DEF FitsBuffer, PartFits, TypeOK
  <1> QED BY <1>1, <1>2, FitsStep, TypeCorrect, PTL DEF Spec

-----------------------------------------------------------------------------
(* Frames on an undamaged line                                             *)

\* What the two theorems below assume of the connection.
Quiet == LinkRecovery /\ Settles /\ ~Noise

\* Frames are laid end to end, none of them damaged.
Chained ==
  /\ \A f \in frames : f.intact /\ FrameEnd(f) \in Boundaries
  /\ \A f, g \in frames : f.start = g.start => f = g

\* The receive is inside frame f, and its current part ends at position e.
ReadingTo(f, e) == f.start = from /\ pos - from + toRead = e

\* While a receive runs it has read the beginning of one frame, and of that
\* frame it asks for just the part it is at.
InFrame ==
  /\ step = "idle" => pos \in Boundaries
  /\ step # "idle" => from \in Boundaries /\ result # "message"
  /\ step = "function" => pos - from + toRead = Backend.header + 1
  /\ step = "meta" =>
       \E f \in frames :
         /\ shape = Seen(f.shape)
         /\ ReadingTo(f, Backend.header + 1
                           + compute_meta_length_after_function(shape.fn, Type))
  /\ step = "data" => \E f \in frames : ReadingTo(f, f.shape.length)
  /\ Genuine

\* Where bytes have come a frame was written.
LEMMA FrameThere ==
  ASSUME TypeOK, Chained, from \in Boundaries, from < arrived
  PROVE  \E f \in frames : f.start = from
  BY DEF TypeOK, Chained, Boundaries

\* A receive that has read to the end of a frame returns that frame.
LEMMA CheckIntegrityGenuine ==
  ASSUME TypeOK, Chained, NEW f \in frames, f.start = from,
         CheckIntegrity(from, FrameEnd(f)), frames' = frames, written' = written, from' = from
  PROVE  step' = "idle" /\ pos' \in Boundaries' /\ Genuine'
  <1> DEFINE whole == {g \in FramesAt(from) : FrameEnd(g) = FrameEnd(f)}
  <1>1. f \in whole /\ f \in FramesAt(from)
    BY DEF Chained, FramesAt
  <1>2. FrameEnd(f) \in Boundaries /\ Boundaries' = Boundaries
    BY DEF Chained, Boundaries
  <1>3. step' = "idle" /\ pos' = FrameEnd(f)
    BY <1>1 DEF CheckIntegrity, ReturnFrom
  <1>4. FramesAt(from)' = FramesAt(from) /\ f.start + f.shape.length = FrameEnd(f)
    BY DEF FramesAt, FrameEnd
  <1>5. \E g \in FramesAt(from)' : g.start + g.shape.length = pos'
    BY <1>1, <1>3, <1>4
  <1> QED BY <1>2, <1>3, <1>5 DEF Genuine, FrameEnd

\* Past the meta part, the data part ends where the frame does.
LEMMA ReadDataGenuine ==
  ASSUME TypeOK, Chained, NEW f \in frames, f.start = from, NEW len \in Nat,
         len = Backend.header + 1
                 + compute_meta_length_after_function(Seen(f.shape).fn, Type),
         ReadData(Seen(f.shape), len), result # "message",
         frames' = frames, written' = written, from' = from
  PROVE  /\ Genuine'
         /\ \/ step' = "idle" /\ pos' \in Boundaries'
            \/ /\ step' = "data" /\ result' # "message"
               /\ ReadingTo(f, f.shape.length)'
  <1> DEFINE sh == Seen(f.shape)
             n == compute_data_length_after_meta(sh.fn, sh.count, Type)
  <1>1. f.shape \in Shapes
    BY DEF TypeOK
  <1>2. /\ sh.fn \in Nat /\ sh.count \in Nat
        /\ f.shape.length \in Nat /\ f.shape.length <= Backend.maxAdu
        /\ FramedLength(sh.fn, sh.count, Type) = f.shape.length
    BY <1>1, ShapesFramed
  <1>3. n \in Nat
    BY <1>2, LengthsNatural
  <1>4. len + n = f.shape.length
    BY <1>2, <1>3 DEF FramedLength
  <1>5. from \in Nat
    BY DEF TypeOK
  <1>6. ~TooLong(len, n)
    BY <1>2, <1>4, BackendNumbers DEF TooLong
  <1> HIDE DEF n
  <1>7. CASE n > 0
    <2>1. step' = "data" /\ toRead' = n /\ pos' = from + len /\ result' = result
      BY <1>3, <1>6, <1>7 DEF ReadData, n
    <2>2. pos' - from + toRead' = f.shape.length
      BY <1>3, <1>4, <1>5, <2>1
    <2> QED BY <2>1, <2>2 DEF ReadingTo, Genuine
  <1>8. CASE n = 0
    <2>1. CheckIntegrity(from, from + len)
      BY <1>6, <1>8 DEF ReadData, n
    <2>2. from + len = FrameEnd(f)
      BY <1>4, <1>8 DEF FrameEnd
    <2> QED BY <2>1, <2>2, CheckIntegrityGenuine
  <1> QED BY <1>3, <1>7, <1>8

LEMMA ChainedStep ==
  ASSUME Quiet, TypeOK, Chained, [Next]_vars
  PROVE  Chained'
  <1>1. CASE PeerWrites
    <2>1. PICK s \in Shapes, mine \in BOOLEAN, intact \in BOOLEAN :
            /\ intact \/ Noise
            /\ LET f == [start |-> written, shape |-> s, mine |-> mine, intact |-> intact]
               IN  frames' = frames \cup {f} /\ written' = FrameEnd(f)
      BY <1>1 DEF PeerWrites
    <2> DEFINE f == [start |-> written, shape |-> s, mine |-> mine, intact |-> intact]
    <2>2. /\ f.intact /\ frames' = frames \cup {f} /\ written' = FrameEnd(f)
          /\ f.start = written
      BY <2>1 DEF Quiet
    <2>3. \A g \in frames : g.start < written
      <3> TAKE g \in frames
      <3>1. g.shape.length \in Nat \ {0} /\ g.start \in Nat
            /\ g.start + g.shape.length <= written
        BY ShapesFramed DEF TypeOK, FrameEnd
      <3>2. written \in Nat
        BY DEF TypeOK
      <3>3. \A a, b, c \in Nat : b # 0 /\ a + b <= c => a < c
        OBVIOUS
      <3> QED BY <3>1, <3>2, <3>3
    <2>4. Boundaries \subseteq Boundaries' /\ written' \in Boundaries'
      BY <2>2 DEF Boundaries
    <2>5. \A g \in frames' : g.intact /\ FrameEnd(g) \in Boundaries'
      <3> HIDE DEF f
      <3> QED BY <2>2, <2>4 DEF Chained
    <2>6. \A g, h \in frames' : g.start = h.start => g = h
      <3> HIDE DEF f
      <3>1. written \in Nat /\ \A g \in frames : g.start \in Nat
        BY DEF TypeOK
      <3> QED BY <2>2, <2>3, <3>1 DEF Chained
    <2> QED BY <2>5, <2>6 DEF Chained, FrameEnd
  <1>2. CASE frames' = frames /\ written' = written
    BY <1>2 DEF Chained, Boundaries, FrameEnd
  <1>3. CASE Reconnect
    BY <1>3 DEF Reconnect, Chained
  <1> QED
    BY <1>1, <1>2, <1>3
       DEF Next, Loop, PeerCloses, BytesArrive, Receive, ReadSome, ReadFunction, ReadMeta,
           ReadRest, Timeout, Reset, wireVars, vars

LEMMA InFrameStep ==
  ASSUME Quiet, TypeOK, Chained, InFrame, [Next]_vars
  PROVE  InFrame'
  <1>0. /\ pos \in Nat /\ arrived \in Nat /\ from \in Nat /\ toRead \in Nat
        /\ step # "idle" => from <= pos
        /\ Backend.header \in Nat
    BY BackendNumbers DEF TypeOK
  <1>1. CASE PeerWrites
    <2>1. /\ UNCHANGED <<open, arrived, pos, receiveVars, result>>
          /\ frames \subseteq frames'
      BY <1>1 DEF PeerWrites
    <2>2. Boundaries \subseteq Boundaries'
      BY <1>1 DEF PeerWrites, Boundaries
    <2> QED BY <2>1, <2>2 DEF InFrame, Genuine, FramesAt, FrameEnd, ReadingTo, receiveVars, Seen
  <1>2. CASE PeerCloses \/ BytesArrive \/ UNCHANGED vars
    BY <1>2 DEF PeerCloses, BytesArrive, vars, receiveVars, wireVars, InFrame, Genuine, FramesAt,
                FrameEnd, ReadingTo, Boundaries, Seen
  <1>3. CASE Receive
    BY <1>0, <1>3 DEF Receive, InFrame, Genuine, Boundaries, wireVars
  <1>4. CASE ReadSome
    <2>1. Chunk \in Int
      BY <1>0 DEF Chunk
    <2>2. /\ UNCHANGED <<frames, written, step, from, shape, result>>
          /\ step # "idle"
          /\ pos' - from' + toRead' = pos - from + toRead
      BY <1>0, <1>4, <2>1 DEF ReadSome, wireVars
    <2> QED BY <2>2 DEF InFrame, Genuine, FramesAt, FrameEnd, ReadingTo, Boundaries, Seen
  <1>5. CASE ReadFunction
    <2>1. /\ frames' = frames /\ written' = written /\ from' = from /\ step = "function"
          /\ arrived - pos >= toRead
      BY <1>5 DEF ReadFunction, wireVars
    <2>2. /\ pos - from + toRead = Backend.header + 1
          /\ from \in Boundaries /\ result # "message"
      BY <2>1 DEF InFrame
    <2>3. from < arrived /\ pos + toRead - from = Backend.header + 1
      BY <1>0, <2>1, <2>2
    <2>4. PICK f \in frames : f.start = from
      BY <2>2, <2>3, FrameThere
    <2>5. FramesAt(from) = {f}
      BY <2>4 DEF FramesAt, Chained
    <2>6. ShapesAt(from) = {Seen(f.shape)}
      BY <2>5 DEF ShapesAt
    <2>7. Seen(f.shape).fn \in Nat
      BY ShapesFramed DEF TypeOK
    <2> DEFINE n == compute_meta_length_after_function(Seen(f.shape).fn, Type)
    <2>8. n \in Nat
      BY <2>7, MetaBounded
    <2>9. /\ shape' = Seen(f.shape)
          /\ IF n > 0
               THEN step' = "meta" /\ toRead' = n /\ pos' = pos + toRead /\ result' = result
               ELSE ReadData(Seen(f.shape), Backend.header + 1)
      BY <1>5, <2>3, <2>6 DEF ReadFunction
    <2> HIDE DEF n
    <2>10. CASE n > 0
      <3>1. pos' - from' + toRead' = Backend.header + 1 + n
        BY <1>0, <2>1, <2>2, <2>8, <2>9, <2>10
      <3>2. ReadingTo(f, Backend.header + 1 + compute_meta_length_after_function(shape.fn, Type))'
        BY <2>1, <2>4, <2>9, <3>1 DEF ReadingTo, n
      <3> QED BY <2>1, <2>2, <2>9, <2>10, <3>2 DEF InFrame, Boundaries, Genuine
    <2>11. CASE n = 0
      <3>1. Backend.header + 1 \in Nat /\ Backend.header + 1 = Backend.header + 1 + n
        BY <1>0, <2>11
      <3>2. /\ Genuine'
            /\ \/ step' = "idle" /\ pos' \in Boundaries'
               \/ /\ step' = "data" /\ result' # "message"
                  /\ ReadingTo(f, f.shape.length)'
        BY <2>1, <2>2, <2>4, <2>9, <2>11, <3>1, ReadDataGenuine DEF n
      <3> QED BY <2>1, <2>2, <3>2 DEF InFrame, Boundaries
    <2> QED BY <2>8, <2>10, <2>11
  <1>6. CASE ReadMeta
    <2>1. /\ frames' = frames /\ written' = written /\ from' = from /\ step = "meta"
          /\ ReadData(shape, pos + toRead - from)
      BY <1>6 DEF ReadMeta, wireVars
    <2>2. PICK f \in frames :
            /\ shape = Seen(f.shape)
            /\ ReadingTo(f, Backend.header + 1
                              + compute_meta_length_after_function(shape.fn, Type))
      BY <2>1 DEF InFrame
    <2>3. /\ pos + toRead - from \in Nat
          /\ pos + toRead - from
               = Backend.header + 1 + compute_meta_length_after_function(shape.fn, Type)
      BY <1>0, <2>1, <2>2 DEF ReadingTo
    <2>4. from \in Boundaries /\ result # "message"
      BY <2>1 DEF InFrame
    <2>5. /\ Genuine'
          /\ \/ step' = "idle" /\ pos' \in Boundaries'
             \/ /\ step' = "data" /\ result' # "message"
                /\ ReadingTo(f, f.shape.length)'
      BY <2>1, <2>2, <2>3, <2>4, ReadDataGenuine DEF ReadingTo
    <2> QED BY <2>1, <2>4, <2>5 DEF InFrame, Boundaries
  <1>7. CASE ReadRest
    <2>1. /\ frames' = frames /\ written' = written /\ from' = from /\ step = "data"
          /\ CheckIntegrity(from, pos + toRead)
      BY <1>7 DEF ReadRest, wireVars
    <2>2. PICK f \in frames : ReadingTo(f, f.shape.length)
      BY <2>1 DEF InFrame
    <2>3. pos + toRead = FrameEnd(f) /\ f.start = from
      <3>1. f.shape.length \in Nat
        BY ShapesFramed DEF TypeOK
      <3> QED BY <1>0, <2>2, <3>1 DEF ReadingTo, FrameEnd
    <2>4. step' = "idle" /\ pos' \in Boundaries' /\ Genuine'
      BY <2>1, <2>3, CheckIntegrityGenuine
    <2> QED BY <2>4 DEF InFrame
  <1>8. CASE Timeout
    <2>1. pos' = written /\ written' = written /\ step' = "idle" /\ result' = "timeout"
      BY <1>8 DEF Timeout, ReturnFrom, modbus_flush, Flushed, Quiet, wireVars
    <2> QED BY <2>1 DEF InFrame, Boundaries, Genuine
  <1>9. CASE Reset
    <2>1. pos' = 0 /\ written' = 0 /\ step' = "idle" /\ result' = "reset"
      BY <1>9 DEF Reset, ReturnFrom, Reconnect, Quiet
    <2> QED BY <2>1 DEF InFrame, Boundaries, Genuine
  <1> QED
    BY <1>1, <1>2, <1>3, <1>4, <1>5, <1>6, <1>7, <1>8, <1>9 DEF Next, Loop

\* StartsAtFrame of ModbusReceive: with link recovery, on an undamaged line that
\* settles, every receive starts at the first byte of a frame.
THEOREM StartsAtFrameCorrect ==
  ASSUME Quiet
  PROVE  Spec => []StartsAtFrame
  <1>1. Init => Chained /\ InFrame
    BY DEF Init, Chained, InFrame, Genuine, Boundaries
  <1>2. TypeOK /\ Chained /\ InFrame /\ [Next]_vars => Chained' /\ InFrame'
    BY ChainedStep, InFrameStep
  <1>3. InFrame => StartsAtFrame
    BY DEF InFrame, StartsAtFrame
  <1> QED BY <1>1, <1>2, <1>3, TypeCorrect, PTL DEF Spec

\* Genuine of ModbusReceive: and every message returned is one whole frame.
THEOREM GenuineCorrect ==
  ASSUME Quiet
  PROVE  Spec => []Genuine
  <1>1. Init => Chained /\ InFrame
    BY DEF Init, Chained, InFrame, Genuine, Boundaries
  <1>2. TypeOK /\ Chained /\ InFrame /\ [Next]_vars => Chained' /\ InFrame'
    BY ChainedStep, InFrameStep
  <1>3. InFrame => Genuine
    BY DEF InFrame
  <1> QED BY <1>1, <1>2, <1>3, TypeCorrect, PTL DEF Spec
=============================================================================
