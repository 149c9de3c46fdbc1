---------------------------- MODULE ModbusMemory ----------------------------
(***************************************************************************)
(* What a Modbus slave promises: four tables of values at the addresses it *)
(* offers, read and written by requests.  A request for too many values,   *)
(* for none, or for an address that is not offered is refused with an      *)
(* exception and changes nothing; any other is executed as a whole and     *)
(* answered; one sent to every slave at once is executed and not answered. *)
(* A write that brings fewer values than it is for stores those it brings, *)
(* anything at the rest of its addresses, and nothing anywhere else; one   *)
(* that also reads is refused unless it brings what it is for.  Module     *)
(* ModbusReply is shown to implement this one.                             *)
(***************************************************************************)
EXTENDS ModbusTables

VARIABLES
  mem,        \* mem[t][a]: the value at address a of table t
  request,    \* the last request
  answer      \* what it was answered

vars == <<mem, request, answer>>

Address(t) == Start[t] .. Start[t] + Size[t] - 1

Offered(t, a, nb) == a .. a + nb - 1 \subseteq Address(t)

ReadAt(table, a, nb) == [i \in 1 .. nb |-> table[a + i - 1]]

\* The tables with the values of s at the addresses of table t from a on.
WrittenAt(t, a, s) ==
  [mem EXCEPT ![t] =
     [b \in Address(t) |-> IF b - a + 1 \in 1 .. Len(s) THEN s[b - a + 1] ELSE mem[t][b]]]

Init ==
  /\ mem = [t \in Tables |-> [a \in Address(t) |-> Zero]]
  /\ request = NoRequest
  /\ answer = Silent

\* A broadcast is not answered, whatever comes of it.
Answer(req, r) == answer' = IF req.broadcast THEN Silent ELSE r

Refuse(req, code) == Answer(req, Exception(code)) /\ UNCHANGED mem

\* What may be written to nb addresses of table t by a request that brings values.
Brought(t, nb, values) ==
  {s \in [1 .. nb -> ValueOf(t)] : \A i \in DOMAIN s \cap DOMAIN values : s[i] = values[i]}

Write(req, t, s) == mem' = WrittenAt(t, req.addr, s) /\ Answer(req, Written)

ReadLimit(t) == Limit[IF t \in BitTables THEN "read_bits" ELSE "read_registers"]
WriteLimit(t) == Limit[IF t \in BitTables THEN "write_bits" ELSE "write_registers"]

Read(req) ==
  LET legal == req.nb \in 1 .. ReadLimit(req.table)
      offered == Offered(req.table, req.addr, req.nb)
  IN  \/ ~legal /\ Refuse(req, ILLEGAL_DATA_VALUE)
      \/ legal /\ ~offered /\ Refuse(req, ILLEGAL_DATA_ADDRESS)
      \/ /\ legal /\ offered
         /\ Answer(req, Values(ReadAt(mem[req.table], req.addr, req.nb)))
         /\ UNCHANGED mem

WriteSingle(req) ==
  LET offered == Offered(req.table, req.addr, 1)
  IN  \/ ~offered /\ Refuse(req, ILLEGAL_DATA_ADDRESS)
      \/ offered /\ ~req.meaningful /\ Refuse(req, ILLEGAL_DATA_VALUE)
      \/ offered /\ req.meaningful /\ Write(req, req.table, <<req.value>>)

WriteMultiple(req) ==
  LET legal == req.nb \in 1 .. WriteLimit(req.table)
      offered == Offered(req.table, req.addr, req.nb)
  IN  \/ ~legal /\ Refuse(req, ILLEGAL_DATA_VALUE)
      \/ legal /\ ~offered /\ Refuse(req, ILLEGAL_DATA_ADDRESS)
      \/ /\ legal /\ offered
         /\ \E s \in Brought(req.table, req.nb, req.values) : Write(req, req.table, s)

\* Where the first mask has a 1 the register keeps its bit, elsewhere it takes
\* that of the second mask.
MaskWrite(req) ==
  LET offered == Offered("registers", req.addr, 1)
      old == mem["registers"][req.addr]
  IN  \/ ~offered /\ Refuse(req, ILLEGAL_DATA_ADDRESS)
      \/ /\ offered
         /\ Write(req, "registers",
                  <<{b \in Bit : IF b \in req.and THEN b \in old ELSE b \in req.or}>>)

\* The write comes before the read, and neither happens unless both can.
WriteAndRead(req) ==
  LET legal ==
        /\ req.nb_write \in 1 .. Limit["wr_write"]
        /\ req.nb \in 1 .. Limit["wr_read"]
        /\ Len(req.values) = req.nb_write /\ ~req.odd_byte
      offered ==
        /\ Offered("registers", req.addr, req.nb)
        /\ Offered("registers", req.write_addr, req.nb_write)
  IN  \/ ~legal /\ Refuse(req, ILLEGAL_DATA_VALUE)
      \/ legal /\ ~offered /\ Refuse(req, ILLEGAL_DATA_ADDRESS)
      \/ /\ legal /\ offered
         /\ mem' = WrittenAt("registers", req.write_addr, req.values)
         /\ Answer(req, Values(ReadAt(mem'["registers"], req.addr, req.nb)))

Execute(req) ==
  \/ req.fn = "read" /\ Read(req)
  \/ req.fn = "write_single" /\ WriteSingle(req)
  \/ req.fn = "write_multiple" /\ WriteMultiple(req)
  \/ req.fn = "mask_write" /\ MaskWrite(req)
  \/ req.fn = "write_and_read" /\ WriteAndRead(req)
  \/ req.fn = "report_slave_id" /\ Answer(req, Identity) /\ UNCHANGED mem
  \/ req.fn = "read_exception_status" /\ answer' = NotImplemented /\ UNCHANGED mem
  \/ req.fn = "unknown" /\ Refuse(req, ILLEGAL_FUNCTION)

Next == request' \in Requests /\ Execute(request')

Spec == Init /\ [][Next]_vars
=============================================================================
