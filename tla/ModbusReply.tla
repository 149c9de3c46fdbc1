----------------------------- MODULE ModbusReply -----------------------------
(***************************************************************************)
(* modbus_reply: how a libmodbus server executes one request on a mapping, *)
(* four arrays that begin at the first address they stand for, and what it *)
(* answers.  The arrays are indexed from 0; an address is turned into an   *)
(* index by subtracting the start of its table.                            *)
(*                                                                         *)
(* Requests wait in the receive buffer of the server; which one comes next *)
(* is decided when it is served.  An illegal quantity makes the server     *)
(* throw away what waits behind the request.                               *)
(***************************************************************************)
EXTENDS ModbusTables

CONSTANT MaxWaiting     \* bound: requests in the receive buffer

ASSUME ReplyAssumption == MaxWaiting \in Nat

VARIABLES
  tab,        \* tab[t][i]: element i of the array of table t
  request,    \* the last request served
  answer,     \* what it was answered
  waiting     \* requests received and not yet served

vars == <<tab, request, answer, waiting>>

Index(t) == 0 .. Size[t] - 1

\* A plausible mistake: the arrays have room for the addresses before the first.
mapping_from_zero ==
  tab = [t \in Tables |-> [i \in 0 .. Start[t] + Size[t] - 1 |-> Zero]]

modbus_mapping_new_start_address ==
  tab = [t \in Tables |-> [i \in Index(t) |-> Zero]]

Init ==
  /\ modbus_mapping_new_start_address
  /\ request = NoRequest
  /\ answer = Silent
  /\ waiting = 0

RequestArrives ==
  /\ waiting < MaxWaiting
  /\ waiting' = waiting + 1
  /\ UNCHANGED <<tab, request, answer>>

-----------------------------------------------------------------------------
(* Pieces of the handlers                                                  *)

\* An answer to a broadcast, slave 0, is built but not sent.
Send(req, r) == answer' = IF req.broadcast THEN Silent ELSE r

\* response_exception with to_flush: sleep for a response timeout, then flush.
FlushAndRefuse(req, code) ==
  /\ Send(req, Exception(code))
  /\ waiting' = 0
  /\ UNCHANGED tab

\* response_exception without it.
Refuse(req, code) ==
  /\ Send(req, Exception(code))
  /\ waiting' = waiting - 1
  /\ UNCHANGED tab

Done(req, r) ==
  /\ Send(req, r)
  /\ waiting' = waiting - 1

\* nb elements from index i on lie in the array.
Holds(t, i, nb) == i >= 0 /\ i + nb <= Size[t]

\* The arrays with the values of s in array t from index i on.  What falls
\* outside the array is not in the table.
Stored(t, i, s) ==
  [tab EXCEPT ![t] =
     [j \in Index(t) |-> IF j - i + 1 \in 1 .. Len(s) THEN s[j - i + 1] ELSE tab[t][j]]]

Loaded(array, i, nb) == [j \in 1 .. nb |-> array[i + j - 1]]

\* The nb values found where values should have arrived: behind those that did
\* comes what is in the buffer.
Unpacked(values, nb, buffer) ==
  [j \in 1 .. nb |-> IF j <= Len(values) THEN values[j] ELSE buffer[j]]

-----------------------------------------------------------------------------
(* The cases of modbus_reply                                               *)

ReadArray(req, max) ==
  LET i == req.addr - Start[req.table]
      legal == ~(req.nb < 1 \/ max < req.nb)
  IN  \/ ~legal /\ FlushAndRefuse(req, ILLEGAL_DATA_VALUE)
      \/ legal /\ ~Holds(req.table, i, req.nb) /\ Refuse(req, ILLEGAL_DATA_ADDRESS)
      \/ /\ legal
         /\ Holds(req.table, i, req.nb)
         /\ Done(req, Values(Loaded(tab[req.table], i, req.nb)))
         /\ UNCHANGED tab

read_bits(req) ==
  /\ req.fn = "read" /\ req.table \in BitTables
  /\ ReadArray(req, Limit["read_bits"])

read_registers(req) ==
  /\ req.fn = "read" /\ req.table \notin BitTables
  /\ ReadArray(req, Limit["read_registers"])

write_bit(req) ==
  /\ req.fn = "write_single" /\ req.table = "bits"
  /\ LET i == req.addr - Start["bits"]
     IN  \/ ~Holds("bits", i, 1) /\ Refuse(req, ILLEGAL_DATA_ADDRESS)
         \/ /\ Holds("bits", i, 1)
            /\ IF req.meaningful
                 THEN tab' = Stored("bits", i, <<req.value>>) /\ Done(req, Written)
                 ELSE Refuse(req, ILLEGAL_DATA_VALUE)

write_register(req) ==
  /\ req.fn = "write_single" /\ req.table = "registers"
  /\ LET i == req.addr - Start["registers"]
     IN  \/ ~Holds("registers", i, 1) /\ Refuse(req, ILLEGAL_DATA_ADDRESS)
         \/ /\ Holds("registers", i, 1)
            /\ tab' = Stored("registers", i, <<req.value>>)
            /\ Done(req, Written)

\* The byte that says how many bytes follow is not looked at.
WriteArray(req, max) ==
  LET i == req.addr - Start[req.table]
      legal == ~(req.nb < 1 \/ max < req.nb)
  IN  \/ ~legal /\ FlushAndRefuse(req, ILLEGAL_DATA_VALUE)
      \/ legal /\ ~Holds(req.table, i, req.nb) /\ Refuse(req, ILLEGAL_DATA_ADDRESS)
      \/ /\ legal
         /\ Holds(req.table, i, req.nb)
         /\ \E buffer \in [1 .. req.nb -> ValueOf(req.table)] :
              tab' = Stored(req.table, i, Unpacked(req.values, req.nb, buffer))
         /\ Done(req, Written)

write_bits(req) ==
  /\ req.fn = "write_multiple" /\ req.table = "bits"
  /\ WriteArray(req, Limit["write_bits"])

write_registers(req) ==
  /\ req.fn = "write_multiple" /\ req.table = "registers"
  /\ WriteArray(req, Limit["write_registers"])

mask_write_register(req) ==
  /\ req.fn = "mask_write"
  /\ LET i == req.addr - Start["registers"]
         data == tab["registers"][i]
     IN  \/ ~Holds("registers", i, 1) /\ Refuse(req, ILLEGAL_DATA_ADDRESS)
         \/ /\ Holds("registers", i, 1)
            /\ tab' = Stored("registers", i,
                             <<(data \cap req.and) \cup (req.or \cap (Bit \ req.and))>>)
            /\ Done(req, Written)

nb_write_bytes(req) == 2 * Len(req.values) + (IF req.odd_byte THEN 1 ELSE 0)

WriteAndReadLegal(req) ==
  /\ req.nb_write \in 1 .. Limit["wr_write"]
  /\ req.nb \in 1 .. Limit["wr_read"]
  /\ nb_write_bytes(req) = req.nb_write * 2

\* A plausible mistake: the answer is read before the write is made.
read_and_write_registers(req) ==
  /\ req.fn = "write_and_read"
  /\ LET i == req.addr - Start["registers"]
         w == req.write_addr - Start["registers"]
         held == Holds("registers", i, req.nb) /\ w + req.nb_write <= Size["registers"]
     IN  \/ ~WriteAndReadLegal(req) /\ FlushAndRefuse(req, ILLEGAL_DATA_VALUE)
         \/ WriteAndReadLegal(req) /\ ~held /\ Refuse(req, ILLEGAL_DATA_ADDRESS)
         \/ /\ WriteAndReadLegal(req)
            /\ held
            /\ tab' = Stored("registers", w, req.values)
            /\ Done(req, Values(Loaded(tab["registers"], i, req.nb)))

\* The lower bound is tested for the address read, twice, and never for the
\* address written.
write_and_read_registers(req) ==
  /\ req.fn = "write_and_read"
  /\ LET i == req.addr - Start["registers"]
         w == req.write_addr - Start["registers"]
         held == Holds("registers", i, req.nb) /\ w + req.nb_write <= Size["registers"]
     IN  \/ ~WriteAndReadLegal(req) /\ FlushAndRefuse(req, ILLEGAL_DATA_VALUE)
         \/ WriteAndReadLegal(req) /\ ~held /\ Refuse(req, ILLEGAL_DATA_ADDRESS)
         \/ /\ WriteAndReadLegal(req)
            /\ held
            /\ tab' = Stored("registers", w, req.values)
            /\ Done(req, Values(Loaded(tab'["registers"], i, req.nb)))

report_slave_id(req) ==
  /\ req.fn = "report_slave_id"
  /\ Done(req, Identity)
  /\ UNCHANGED tab

\* modbus_reply returns -1 and nothing is sent.
read_exception_status(req) ==
  /\ req.fn = "read_exception_status"
  /\ answer' = NotImplemented
  /\ waiting' = waiting - 1
  /\ UNCHANGED tab

unknown_function(req) ==
  /\ req.fn = "unknown"
  /\ FlushAndRefuse(req, ILLEGAL_FUNCTION)

modbus_reply(req) ==
  /\ waiting > 0
  /\ request' = req
  /\ \/ read_bits(req)
     \/ read_registers(req)
     \/ write_bit(req)
     \/ write_register(req)
     \/ write_bits(req)
     \/ write_registers(req)
     \/ mask_write_register(req)
     \/ write_and_read_registers(req)
     \/ report_slave_id(req)
     \/ read_exception_status(req)
     \/ unknown_function(req)

Next == RequestArrives \/ \E req \in Requests : modbus_reply(req)

Spec == Init /\ [][Next]_vars

-----------------------------------------------------------------------------
(* Properties                                                              *)

TypeOK ==
  /\ tab = [t \in Tables |-> tab[t]]
  /\ \A t \in Tables : tab[t] \in [Index(t) -> ValueOf(t)]
  /\ waiting \in 0 .. MaxWaiting

\* What arrays stand for: the values at the addresses they begin at.
Mapped(arrays) ==
  [t \in Tables |-> [a \in Start[t] .. Start[t] + Size[t] - 1 |-> arrays[t][a - Start[t]]]]

Memory == INSTANCE ModbusMemory WITH mem <- Mapped(tab)

\* The server keeps the promise of a Modbus slave: it executes what it answers,
\* whole, at the addresses asked for, and nothing of what it refuses.
KeepsPromise == Memory!Spec
=============================================================================
