---------------------------- MODULE ModbusTables ----------------------------
(***************************************************************************)
(* The tables of a Modbus slave, the requests clients make of them and the *)
(* answers there can be: what ModbusMemory, the promise, and ModbusReply,  *)
(* the server of libmodbus, have in common.                                *)
(***************************************************************************)
EXTENDS Integers, Sequences

CONSTANTS
  Bit,        \* the bits of a register; a register is the set of those that are 1
  Start,      \* Start[t]: the first address of table t
  Size,       \* Size[t]: how many addresses it has
  Limit,      \* Limit[f]: the most values function f may carry
  Asked,      \* the addresses the clients ask for
  Quantities, \* the quantities they ask for
  Contents,   \* Contents[t]: the sequences of values they send for table t
  Served      \* the functions they use

Tables == {"bits", "input_bits", "registers", "input_registers"}
BitTables == {"bits", "input_bits"}
Register == SUBSET Bit
Coil == SUBSET {"on"}       \* a coil is a register of one bit
ValueOf(t) == IF t \in BitTables THEN Coil ELSE Register
Zero == {}

Limited == {"read_bits", "read_registers", "write_bits", "write_registers",
            "wr_read", "wr_write"}

WritableTables == {"bits", "registers"}

Functions ==
  {"read", "write_single", "write_multiple", "mask_write", "write_and_read",
   "report_slave_id", "read_exception_status", "unknown"}

ASSUME MemoryAssumption ==
  /\ Start \in [Tables -> Nat]
  /\ Size \in [Tables -> Nat]
  /\ Limit \in [Limited -> Nat]
  /\ Asked \subseteq Nat
  /\ Quantities \subseteq Nat
  /\ \A t \in WritableTables : Contents[t] \subseteq Seq(ValueOf(t))
  /\ Served \subseteq Functions

\* The requests; a broadcast goes to every slave.
ReadRequest ==
  [fn : {"read"}, broadcast : BOOLEAN, table : Tables, addr : Asked, nb : Quantities]

\* A coil is written with a word of which only two values are meaningful.
WriteCoilRequest ==
  [fn : {"write_single"}, broadcast : BOOLEAN, table : {"bits"}, addr : Asked,
   value : Coil, meaningful : BOOLEAN]

WriteRegisterRequest ==
  [fn : {"write_single"}, broadcast : BOOLEAN, table : {"registers"}, addr : Asked,
   value : Register, meaningful : {TRUE}]

\* A write of many values says how many they are, and apart from that how many
\* bytes of them follow, which is what arrives.  Nothing makes the two agree:
\* nb is the quantity, values are those whose bytes follow.
WriteMultipleRequest(t) ==
  [fn : {"write_multiple"}, broadcast : BOOLEAN, table : {t}, addr : Asked,
   nb : Quantities, values : Contents[t]]

MaskWriteRequest ==
  [fn : {"mask_write"}, broadcast : BOOLEAN, addr : Asked, and : Register, or : Register]

\* Here half a value may follow the others.
WriteAndReadRequest ==
  [fn : {"write_and_read"}, broadcast : BOOLEAN, write_addr : Asked,
   nb_write : Quantities, values : Contents["registers"], odd_byte : BOOLEAN,
   addr : Asked, nb : Quantities]

OtherRequest ==
  [fn : {"report_slave_id", "read_exception_status", "unknown"}, broadcast : BOOLEAN]

Request ==
  ReadRequest \cup WriteCoilRequest \cup WriteRegisterRequest
    \cup WriteMultipleRequest("bits") \cup WriteMultipleRequest("registers")
    \cup MaskWriteRequest \cup WriteAndReadRequest \cup OtherRequest

Requests == {req \in Request : req.fn \in Served}

NoRequest == [fn |-> "none"]

ILLEGAL_FUNCTION == 1
ILLEGAL_DATA_ADDRESS == 2
ILLEGAL_DATA_VALUE == 3

Values(s) == [kind |-> "values", values |-> s]
Written == [kind |-> "written"]
Identity == [kind |-> "identity"]
Exception(code) == [kind |-> "exception", code |-> code]
NotImplemented == [kind |-> "failed"]
Silent == [kind |-> "silent"]
=============================================================================
