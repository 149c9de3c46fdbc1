---------------------------- MODULE MCModbusCodec ----------------------------
(***************************************************************************)
(* A small instance of ModbusCodec for TLC: the coils fill two bytes and a *)
(* bit, the calls lie in, across and behind the tables, ask for nothing    *)
(* and for too much, and every register value has bytes of its own.        *)
(***************************************************************************)
EXTENDS ModbusCodec

MCRead(fn, addr, nb) == [fn |-> fn, addr |-> addr, nb |-> nb]
MCSingle(fn, addr, value) == [fn |-> fn, addr |-> addr, value |-> value]
MCMany(fn, addr, values) == [fn |-> fn, addr |-> addr, values |-> values]

MCNine == <<1, 0, 1, 1, 0, 0, 1, 0, 1>>
MCEight == <<0, 1, 1, 0, 1, 0, 0, 1>>
MCWords == <<4660, 43981, 65280>>      \* 0x1234, 0xABCD, 0xFF00

MCCalls ==
  {MCRead(READ_COILS, a, nb) : a \in {0, 3}, nb \in {0, 8, 17}}
  \cup {MCRead(READ_COILS, 7, 10), MCRead(READ_COILS, 0, 2001)}
  \cup {MCRead(READ_HOLDING_REGISTERS, 0, 3), MCRead(READ_HOLDING_REGISTERS, 2, 2)}
  \cup {MCSingle(WRITE_SINGLE_COIL, a, v) : a \in {16, 17}, v \in {0, 1}}
  \cup {MCSingle(WRITE_SINGLE_REGISTER, a, 4660) : a \in {1, 3}}
  \cup {MCMany(WRITE_MULTIPLE_COILS, a, v) : a \in {0, 5, 9}, v \in {MCNine, MCEight}}
  \cup {MCMany(WRITE_MULTIPLE_REGISTERS, 0, MCWords),
        MCMany(WRITE_MULTIPLE_REGISTERS, 1, MCWords),
        MCMany(WRITE_MULTIPLE_REGISTERS, 1, <<>>)}
  \cup {[fn |-> MASK_WRITE_REGISTER, addr |-> a, and_mask |-> 3855, or_mask |-> 21930] :
          a \in {0, 3}}
  \cup {[fn |-> WRITE_AND_READ_REGISTERS, addr |-> a, nb |-> 2,
         write_addr |-> 1, values |-> v] :
          a \in {0, 2}, v \in {<<4660, 43981>>, <<>>}}
  \cup {[fn |-> REPORT_SLAVE_ID, max_dest |-> m] : m \in {1, 12}}

\* Each bit, and whatever makes another function of a function code.
MCMasks == 1 .. 31 \cup {32, 64, 128, 255}
=============================================================================
