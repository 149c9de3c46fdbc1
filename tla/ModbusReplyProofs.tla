-------------------------- MODULE ModbusReplyProofs --------------------------
(***************************************************************************)
(* ModbusReply implements ModbusMemory, for every layout of the tables,    *)
(* every limit and every set of requests, as long as no client writes and  *)
(* reads registers of a mapping that begins above address 0.               *)
(***************************************************************************)
EXTENDS ModbusReply, TLAPS

\* The one function that is not implemented as promised is harmless on a
\* mapping that starts at 0, the only one modbus_mapping_new makes.
Unshifted == Start["registers"] = 0 \/ "write_and_read" \notin Served

-----------------------------------------------------------------------------
(* Arrays and addresses                                                    *)

\* The tables are where the assumptions put them.
LEMMA Layout ==
  ASSUME NEW t \in Tables
  PROVE  Start[t] \in Nat /\ Size[t] \in Nat
  BY MemoryAssumption

\* Elements lie in the array exactly when their addresses are offered.
LEMMA OfferedHeld ==
  ASSUME NEW t \in Tables, NEW a \in Nat, NEW nb \in Nat, nb >= 1
  PROVE  Memory!Offered(t, a, nb) <=> Holds(t, a - Start[t], nb)
  <1>1. Start[t] \in Nat /\ Size[t] \in Nat
    BY Layout
  <1>2. Memory!Offered(t, a, nb) <=> a >= Start[t] /\ a + nb - 1 <= Start[t] + Size[t] - 1
    <2>1. ASSUME Memory!Offered(t, a, nb)
          PROVE  a >= Start[t] /\ a + nb - 1 <= Start[t] + Size[t] - 1
      <3>1. a \in a .. a + nb - 1 /\ a + nb - 1 \in a .. a + nb - 1
        OBVIOUS
      <3> QED BY <1>1, <2>1, <3>1 DEF Memory!Offered, Memory!Address
    <2>2. ASSUME a >= Start[t], a + nb - 1 <= Start[t] + Size[t] - 1
          PROVE  Memory!Offered(t, a, nb)
      BY <1>1, <2>2 DEF Memory!Offered, Memory!Address
    <2> QED BY <2>1, <2>2
  <1> QED BY <1>1, <1>2 DEF Holds

\* What is loaded from the array is what is read at the addresses.
LEMMA LoadedRead ==
  ASSUME NEW t \in Tables, NEW a \in Nat, NEW nb \in Nat, Holds(t, a - Start[t], nb),
         NEW arrays
  PROVE  Loaded(arrays[t], a - Start[t], nb) = Memory!ReadAt(Mapped(arrays)[t], a, nb)
  <1>1. Start[t] \in Nat /\ Size[t] \in Nat
    BY Layout
  <1>2. \A j \in 1 .. nb :
          arrays[t][a - Start[t] + j - 1] = Mapped(arrays)[t][a + j - 1]
    <2> TAKE j \in 1 .. nb
    <2>1. a + j - 1 \in Start[t] .. Start[t] + Size[t] - 1
      BY <1>1 DEF Holds
    <2> DEFINE b == a + j - 1
    <2>2. Mapped(arrays)[t][b] = arrays[t][b - Start[t]]
      <3>1. b \in Start[t] .. Start[t] + Size[t] - 1
        BY <2>1
      <3> HIDE DEF b
      <3> QED BY <3>1 DEF Mapped
    <2>3. (a + j - 1) - Start[t] = a - Start[t] + j - 1
      BY <1>1
    <2> QED BY <2>2, <2>3
  <1> QED BY <1>2 DEF Loaded, Memory!ReadAt

\* What is stored in the array is what is written at the addresses.
LEMMA StoredWritten ==
  ASSUME TypeOK, NEW t \in Tables, NEW a \in Nat, NEW s, Len(s) \in Nat
  PROVE  Mapped(Stored(t, a - Start[t], s)) = Memory!WrittenAt(t, a, s)
  <1> DEFINE new == Stored(t, a - Start[t], s)
             old == Mapped(tab)
             row == [b \in Memory!Address(t) |->
                       IF b - a + 1 \in 1 .. Len(s) THEN s[b - a + 1] ELSE old[t][b]]
  <1>1. Start[t] \in Nat /\ Size[t] \in Nat
    BY Layout
  <1>2. \A b \in Memory!Address(t) : new[t][b - Start[t]] = row[b]
    <2> TAKE b \in Memory!Address(t)
    <2>1. b \in Int /\ b - Start[t] \in Index(t)
      BY <1>1 DEF Memory!Address, Index
    <2>2. new[t][b - Start[t]]
            = IF b - Start[t] - (a - Start[t]) + 1 \in 1 .. Len(s)
                THEN s[b - Start[t] - (a - Start[t]) + 1] ELSE tab[t][b - Start[t]]
      BY <2>1 DEF Stored, TypeOK
    <2>3. b - Start[t] - (a - Start[t]) + 1 = b - a + 1
      BY <1>1, <2>1
    <2>4. old[t][b] = tab[t][b - Start[t]]
      BY DEF Mapped, Memory!Address
    <2> QED BY <2>2, <2>3, <2>4
  <1>3. \A u \in Tables : u # t => new[u] = tab[u]
    BY DEF Stored, TypeOK
  <1> HIDE DEF new
  <1>4. Mapped(new) = [u \in Tables |-> [b \in Memory!Address(u) |-> new[u][b - Start[u]]]]
    BY DEF Mapped, Memory!Address
  <1>5. Mapped(new)[t] = row
    BY <1>2, <1>4
  <1>6. \A u \in Tables : u # t => Mapped(new)[u] = old[u]
    BY <1>3 DEF Mapped
  <1>7. Memory!WrittenAt(t, a, s) = [old EXCEPT ![t] = row]
    BY DEF Memory!WrittenAt
  <1>8. old = [u \in Tables |-> old[u]] /\ Mapped(new) = [u \in Tables |-> Mapped(new)[u]]
    BY DEF Mapped
  <1> HIDE DEF old, row
  <1> QED BY <1>5, <1>6, <1>7, <1>8 DEF new

-----------------------------------------------------------------------------
(* Type correctness                                                        *)

\* Storing a value keeps the arrays arrays.
LEMMA StoredType ==
  ASSUME TypeOK, NEW t \in Tables, NEW i \in Int, NEW s \in Seq(ValueOf(t))
  PROVE  /\ Stored(t, i, s) = [u \in Tables |-> Stored(t, i, s)[u]]
         /\ \A u \in Tables : Stored(t, i, s)[u] \in [Index(u) -> ValueOf(u)]
  <1> DEFINE row == [j \in Index(t) |->
                       IF j - i + 1 \in 1 .. Len(s) THEN s[j - i + 1] ELSE tab[t][j]]
  <1>1. row \in [Index(t) -> ValueOf(t)]
    <2> SUFFICES ASSUME NEW j \in Index(t) PROVE row[j] \in ValueOf(t)
      OBVIOUS
    <2>1. tab[t][j] \in ValueOf(t)
      BY DEF TypeOK
    <2> QED BY <2>1
  <1>2. Stored(t, i, s) = [tab EXCEPT ![t] = row]
    BY DEF Stored
  <1> HIDE DEF row
  <1> QED BY <1>1, <1>2 DEF TypeOK

\* What is unpacked are nb values, those that arrived where they did.
LEMMA UnpackedFacts ==
  ASSUME NEW V, NEW values \in Seq(V), NEW nb \in Nat, NEW buffer \in [1 .. nb -> V]
  PROVE  LET s == Unpacked(values, nb, buffer)
         IN  /\ s \in [1 .. nb -> V] /\ s \in Seq(V) /\ Len(s) = nb
             /\ \A j \in DOMAIN s \cap DOMAIN values : s[j] = values[j]
  <1> DEFINE s == Unpacked(values, nb, buffer)
  <1>1. Len(values) \in Nat /\ DOMAIN values = 1 .. Len(values)
    OBVIOUS
  <1>2. \A j \in 1 .. Len(values) : values[j] \in V
    OBVIOUS
  <1>3. s = [j \in 1 .. nb |-> IF j <= Len(values) THEN values[j] ELSE buffer[j]]
    BY DEF Unpacked
  <1> HIDE DEF s
  <1>4. s \in [1 .. nb -> V]
    BY <1>1, <1>2, <1>3
  <1>5. \A j \in DOMAIN s \cap DOMAIN values : s[j] = values[j]
    BY <1>1, <1>3
  <1>6. s \in Seq(V) /\ Len(s) = nb
    BY <1>4
  <1> QED BY <1>4, <1>5, <1>6 DEF s

\* Each request carries what its handler looks at.
LEMMA RequestFields ==
  ASSUME NEW req \in Requests
  PROVE  /\ req.fn \in Served
         /\ req.broadcast \in BOOLEAN
         /\ req.fn = "read" =>
              req.table \in Tables /\ req.addr \in Nat /\ req.nb \in Nat
         /\ req.fn = "write_single" =>
              /\ req.table \in WritableTables /\ req.addr \in Nat
              /\ req.value \in ValueOf(req.table) /\ req.meaningful \in BOOLEAN
              /\ req.table = "registers" => req.meaningful
         /\ req.fn = "write_multiple" =>
              /\ req.table \in WritableTables /\ req.addr \in Nat /\ req.nb \in Nat
              /\ req.values \in Seq(ValueOf(req.table))
         /\ req.fn = "mask_write" =>
              req.addr \in Nat /\ req.and \in Register /\ req.or \in Register
         /\ req.fn = "write_and_read" =>
              /\ req.write_addr \in Nat /\ req.nb_write \in Nat
              /\ req.values \in Seq(Register) /\ req.odd_byte \in BOOLEAN
              /\ req.addr \in Nat /\ req.nb \in Nat
  <1>1. req \in Request /\ req.fn \in Served
    BY DEF Requests
  <1>2. Asked \subseteq Nat /\ Quantities \subseteq Nat
        /\ \A t \in WritableTables : Contents[t] \subseteq Seq(ValueOf(t))
    BY MemoryAssumption
  <1>3. ValueOf("bits") = Coil /\ ValueOf("registers") = Register
    BY DEF ValueOf, BitTables
  <1>4. CASE req \in ReadRequest
    BY <1>1, <1>2, <1>4 DEF ReadRequest
  <1>5. CASE req \in WriteCoilRequest
    BY <1>1, <1>2, <1>3, <1>5 DEF WriteCoilRequest, WritableTables
  <1>6. CASE req \in WriteRegisterRequest
    BY <1>1, <1>2, <1>3, <1>6 DEF WriteRegisterRequest, WritableTables
  <1>7. ASSUME NEW t \in WritableTables, req \in WriteMultipleRequest(t)
        PROVE  /\ req.fn = "write_multiple" /\ req.broadcast \in BOOLEAN
               /\ req.table \in WritableTables /\ req.addr \in Nat /\ req.nb \in Nat
               /\ req.values \in Seq(ValueOf(req.table))
    BY <1>2, <1>7 DEF WriteMultipleRequest
  <1>8. CASE req \in WriteMultipleRequest("bits") \/ req \in WriteMultipleRequest("registers")
    BY <1>1, <1>7, <1>8 DEF WritableTables
  <1>9. CASE req \in MaskWriteRequest
    BY <1>1, <1>2, <1>9 DEF MaskWriteRequest
  <1>10. CASE req \in WriteAndReadRequest
    <2>1. Contents["registers"] \subseteq Seq(Register)
      BY <1>2, <1>3 DEF WritableTables
    <2> QED BY <1>1, <1>2, <1>10, <2>1 DEF WriteAndReadRequest
  <1>11. CASE req \in OtherRequest
    BY <1>1, <1>11 DEF OtherRequest
  <1> QED BY <1>1, <1>4, <1>5, <1>6, <1>8, <1>9, <1>10, <1>11 DEF Request

LEMMA TypeStep == TypeOK /\ [Next]_vars => TypeOK'
  <1> SUFFICES ASSUME TypeOK, [Next]_vars PROVE TypeOK'
    OBVIOUS
  <1>1. waiting \in 0 .. MaxWaiting /\ MaxWaiting \in Nat
    BY ReplyAssumption DEF TypeOK
  <1>2. CASE UNCHANGED tab /\ waiting' \in 0 .. MaxWaiting
    BY <1>2 DEF TypeOK
  <1>3. CASE RequestArrives
    BY <1>1, <1>2, <1>3 DEF RequestArrives
  <1>4. ASSUME NEW req \in Requests, modbus_reply(req) PROVE TypeOK'
    <2>1. waiting > 0 /\ 0 \in 0 .. MaxWaiting /\ waiting - 1 \in 0 .. MaxWaiting
      BY <1>1, <1>4 DEF modbus_reply
    <2>2. \A code : FlushAndRefuse(req, code) \/ Refuse(req, code) => TypeOK'
      BY <1>2, <2>1 DEF FlushAndRefuse, Refuse
    <2>3. \A r : Done(req, r) /\ UNCHANGED tab => TypeOK'
      BY <1>2, <2>1 DEF Done
    <2>4. ASSUME NEW t \in Tables, NEW i \in Int, NEW s \in Seq(ValueOf(t)), NEW r,
                 tab' = Stored(t, i, s), Done(req, r)
          PROVE  TypeOK'
      BY <2>1, <2>4, StoredType DEF TypeOK, Done
    <2>5. \A t \in Tables : \A a \in Nat : a - Start[t] \in Int
      BY Layout
    <2>6. "bits" \in Tables /\ "registers" \in Tables /\ WritableTables \subseteq Tables
          /\ ValueOf("registers") = Register
      BY DEF Tables, WritableTables, ValueOf, BitTables
    <2>7. \A t : \A v \in ValueOf(t) : <<v>> \in Seq(ValueOf(t))
      OBVIOUS
    <2>8. CASE read_bits(req) \/ read_registers(req)
      BY <2>2, <2>3, <2>8 DEF read_bits, read_registers, ReadArray
    <2>9. CASE write_bit(req)
      BY <2>2, <2>4, <2>5, <2>6, <2>7, <2>9, RequestFields DEF write_bit
    <2>10. CASE write_register(req)
      BY <2>2, <2>4, <2>5, <2>6, <2>7, <2>10, RequestFields DEF write_register
    <2>11. CASE write_bits(req) \/ write_registers(req)
      <3> DEFINE t == req.table
                 i == req.addr - Start[t]
      <3>1. t \in Tables /\ i \in Int /\ req.nb \in Nat /\ req.values \in Seq(ValueOf(t))
        BY <2>5, <2>6, <2>11, RequestFields DEF write_bits, write_registers
      <3>2. \/ \E code : FlushAndRefuse(req, code) \/ Refuse(req, code)
            \/ \E buffer \in [1 .. req.nb -> ValueOf(t)] :
                 /\ tab' = Stored(t, i, Unpacked(req.values, req.nb, buffer))
                 /\ Done(req, Written)
        BY <2>11 DEF write_bits, write_registers, WriteArray
      <3> HIDE DEF i
      <3> QED BY <2>2, <2>4, <3>1, <3>2, UnpackedFacts
    <2>12. CASE mask_write_register(req)
      <3> DEFINE i == req.addr - Start["registers"]
                 v == (tab["registers"][i] \cap req.and) \cup (req.or \cap (Bit \ req.and))
      <3>1. req.addr \in Nat /\ req.and \in Register /\ req.or \in Register /\ i \in Int
        BY <2>5, <2>6, <2>12, RequestFields DEF mask_write_register
      <3>2. v \in Register
        BY <3>1 DEF Register
      <3>3. <<v>> \in Seq(ValueOf("registers"))
        BY <2>6, <2>7, <3>2
      <3> HIDE DEF v
      <3>4. \/ Refuse(req, ILLEGAL_DATA_ADDRESS)
            \/ tab' = Stored("registers", i, <<v>>) /\ Done(req, Written)
        BY <2>12 DEF mask_write_register, v
      <3> QED BY <2>2, <2>4, <2>6, <3>1, <3>3, <3>4
    <2>13. CASE write_and_read_registers(req)
      BY <2>2, <2>4, <2>5, <2>6, <2>13, RequestFields DEF write_and_read_registers
    <2>14. CASE report_slave_id(req) \/ read_exception_status(req) \/ unknown_function(req)
      BY <1>2, <2>1, <2>2, <2>3, <2>14
         DEF report_slave_id, read_exception_status, unknown_function
    <2> QED
      BY <1>4, <2>8, <2>9, <2>10, <2>11, <2>12, <2>13, <2>14 DEF modbus_reply
  <1> QED BY <1>1, <1>2, <1>3, <1>4 DEF Next, vars

\* TypeOK of ModbusReply.
THEOREM TypeCorrect == Spec => []TypeOK
  <1>1. Init => TypeOK
    BY ReplyAssumption
       DEF Init, modbus_mapping_new_start_address, TypeOK, Zero, ValueOf, Coil, Register
  <1> QED BY <1>1, TypeStep, PTL DEF Spec

-----------------------------------------------------------------------------
(* The promise is kept                                                     *)

LEMMA Limits ==
  /\ \A f \in Limited : Limit[f] \in Nat
  /\ "bits" \in Tables /\ "registers" \in Tables /\ WritableTables \subseteq Tables
  BY MemoryAssumption DEF Tables, WritableTables

\* Both modules mean the same by what ModbusTables defines.
LEMMA Shared ==
  /\ Memory!BitTables = BitTables /\ Memory!Requests = Requests
  /\ \A t : Memory!ValueOf(t) = ValueOf(t)
  /\ Memory!Tables = Tables /\ Memory!Zero = Zero
  /\ Memory!NoRequest = NoRequest /\ Memory!Silent = Silent
  /\ Memory!Written = Written /\ Memory!Identity = Identity
  /\ Memory!NotImplemented = NotImplemented
  /\ Memory!ILLEGAL_FUNCTION = ILLEGAL_FUNCTION
  /\ Memory!ILLEGAL_DATA_ADDRESS = ILLEGAL_DATA_ADDRESS
  /\ Memory!ILLEGAL_DATA_VALUE = ILLEGAL_DATA_VALUE
  /\ \A x : Memory!Values(x) = Values(x) /\ Memory!Exception(x) = Exception(x)
  <1>1. Memory!Requests = Requests
    BY DEF Memory!Requests, Memory!Request, Memory!ReadRequest, Memory!WriteCoilRequest,
           Memory!WriteRegisterRequest, Memory!WriteMultipleRequest,
           Memory!MaskWriteRequest, Memory!WriteAndReadRequest, Memory!OtherRequest,
           Memory!Tables, Memory!Coil, Memory!Register,
           Requests, Request, ReadRequest, WriteCoilRequest, WriteRegisterRequest,
           WriteMultipleRequest, MaskWriteRequest, WriteAndReadRequest, OtherRequest,
           Tables, Coil, Register
  <1>2. \A t : Memory!ValueOf(t) = ValueOf(t)
    BY DEF Memory!ValueOf, ValueOf, Memory!BitTables, BitTables, Memory!Coil, Coil,
           Memory!Register, Register
  <1> QED
    BY <1>1, <1>2 DEF Memory!BitTables, BitTables, Memory!Tables, Tables, Memory!Zero, Zero,
      Memory!NoRequest, NoRequest, Memory!Silent, Silent, Memory!Written, Written,
      Memory!Identity, Identity, Memory!NotImplemented, NotImplemented,
      Memory!ILLEGAL_FUNCTION, ILLEGAL_FUNCTION, Memory!ILLEGAL_DATA_ADDRESS,
      ILLEGAL_DATA_ADDRESS, Memory!ILLEGAL_DATA_VALUE, ILLEGAL_DATA_VALUE,
      Memory!Values, Values, Memory!Exception, Exception

\* What is sent and what is unchanged, in the terms of the promise.
LEMMA Sent ==
  ASSUME NEW req
  PROVE  /\ \A r : Done(req, r) => Memory!Answer(req, r)
         /\ \A code : FlushAndRefuse(req, code) \/ Refuse(req, code)
                       => Memory!Refuse(req, code)
         /\ UNCHANGED tab => Mapped(tab)' = Mapped(tab)
         /\ \A new : tab' = new => Mapped(tab)' = Mapped(new)
  BY Shared DEF Done, Send, FlushAndRefuse, Refuse, Memory!Answer, Memory!Refuse, Mapped

LEMMA ReadKept ==
  ASSUME NEW req \in Requests, read_bits(req) \/ read_registers(req)
  PROVE  Memory!Execute(req)
  <1> DEFINE i == req.addr - Start[req.table]
             max == Memory!ReadLimit(req.table)
             legal == req.nb \in 1 .. max
             offered == Memory!Offered(req.table, req.addr, req.nb)
  <1>1. req.fn = "read" /\ req.table \in Tables /\ req.addr \in Nat /\ req.nb \in Nat
    BY RequestFields DEF read_bits, read_registers
  <1>2. max \in Nat /\ ReadArray(req, max)
    BY Limits, Shared DEF read_bits, read_registers, Memory!ReadLimit, Limited
  <1>3. legal <=> ~(req.nb < 1 \/ max < req.nb)
    BY <1>1, <1>2
  <1>4. legal => (offered <=> Holds(req.table, i, req.nb))
    BY <1>1, OfferedHeld
  <1> HIDE DEF max, offered
  <1>5. CASE ~legal
    BY <1>2, <1>3, <1>5, <1>1, Sent, Shared DEF ReadArray, Memory!Execute, Memory!Read, max
  <1>6. CASE legal /\ ~offered
    BY <1>2, <1>3, <1>4, <1>6, <1>1, Sent, Shared
       DEF ReadArray, Memory!Execute, Memory!Read, max, offered
  <1>7. CASE legal /\ offered
    <2>1. Holds(req.table, i, req.nb)
      BY <1>4, <1>7
    <2>2. Done(req, Values(Loaded(tab[req.table], i, req.nb))) /\ UNCHANGED tab
      BY <1>2, <1>3, <1>7, <2>1 DEF ReadArray
    <2>3. Loaded(tab[req.table], i, req.nb)
            = Memory!ReadAt(Mapped(tab)[req.table], req.addr, req.nb)
      BY <1>1, <2>1, LoadedRead
    <2>4. Memory!Answer(req, Values(Memory!ReadAt(Mapped(tab)[req.table], req.addr, req.nb)))
          /\ Mapped(tab)' = Mapped(tab)
      BY <2>2, <2>3, Sent
    <2> QED BY <1>1, <1>7, <2>4, Shared DEF Memory!Execute, Memory!Read, max, offered
  <1> QED BY <1>5, <1>6, <1>7

\* A write of s to table t, in the terms of the promise.
LEMMA WriteKept ==
  ASSUME TypeOK, NEW req, NEW t \in Tables, NEW a \in Nat, NEW s, Len(s) \in Nat, NEW r,
         tab' = Stored(t, a - Start[t], s), Done(req, r)
  PROVE  Mapped(tab)' = Memory!WrittenAt(t, a, s) /\ Memory!Answer(req, r)
  <1>1. Mapped(tab)' = Mapped(Stored(t, a - Start[t], s))
    BY Sent
  <1>2. Mapped(Stored(t, a - Start[t], s)) = Memory!WrittenAt(t, a, s)
    BY StoredWritten
  <1> QED BY <1>1, <1>2, Sent

LEMMA WriteSingleKept ==
  ASSUME TypeOK, NEW req \in Requests, write_bit(req) \/ write_register(req)
  PROVE  Memory!Execute(req)
  <1> DEFINE i == req.addr - Start[req.table]
             offered == Memory!Offered(req.table, req.addr, 1)
  <1>1. /\ req.fn = "write_single" /\ req.table \in Tables /\ req.addr \in Nat
        /\ req.table = "registers" => req.meaningful
    BY RequestFields, Limits DEF write_bit, write_register
  <1>2. \/ ~Holds(req.table, i, 1) /\ Refuse(req, ILLEGAL_DATA_ADDRESS)
        \/ /\ Holds(req.table, i, 1) /\ req.meaningful
           /\ tab' = Stored(req.table, i, <<req.value>>) /\ Done(req, Written)
        \/ Holds(req.table, i, 1) /\ ~req.meaningful /\ Refuse(req, ILLEGAL_DATA_VALUE)
    BY <1>1 DEF write_bit, write_register
  <1>3. offered <=> Holds(req.table, i, 1)
    BY <1>1, OfferedHeld
  <1>4. ASSUME tab' = Stored(req.table, i, <<req.value>>), Done(req, Written)
        PROVE  Memory!Write(req, req.table, <<req.value>>)
    <2>1. Len(<<req.value>>) \in Nat
      OBVIOUS
    <2>2. /\ Mapped(tab)' = Memory!WrittenAt(req.table, req.addr, <<req.value>>)
          /\ Memory!Answer(req, Written)
      BY <1>1, <1>4, <2>1, WriteKept
    <2> QED BY <2>2, Shared DEF Memory!Write
  <1>5. Memory!WriteSingle(req)
    BY <1>2, <1>3, <1>4, Sent, Shared DEF Memory!WriteSingle
  <1> QED BY <1>1, <1>5 DEF Memory!Execute

LEMMA WriteMultipleKept ==
  ASSUME TypeOK, NEW req \in Requests, write_bits(req) \/ write_registers(req)
  PROVE  Memory!Execute(req)
  <1> DEFINE i == req.addr - Start[req.table]
             nb == req.nb
             max == Memory!WriteLimit(req.table)
             legal == nb \in 1 .. max
             offered == Memory!Offered(req.table, req.addr, nb)
             brought == Memory!Brought(req.table, nb, req.values)
             found(buffer) == Unpacked(req.values, nb, buffer)
  <1>1. /\ req.fn = "write_multiple" /\ req.table \in Tables /\ req.addr \in Nat
        /\ nb \in Nat /\ req.values \in Seq(ValueOf(req.table))
    BY RequestFields, Limits DEF write_bits, write_registers
  <1>2. max \in Nat /\ WriteArray(req, max)
    BY Limits, Shared
       DEF write_bits, write_registers, Memory!WriteLimit, Limited, BitTables
  <1>3. legal <=> ~(nb < 1 \/ max < nb)
    BY <1>1, <1>2
  <1>4. legal => (offered <=> Holds(req.table, i, nb))
    BY <1>1, OfferedHeld
  <1>5. ASSUME NEW buffer \in [1 .. nb -> ValueOf(req.table)],
               tab' = Stored(req.table, i, found(buffer)), Done(req, Written)
        PROVE  \E s \in brought : Memory!Write(req, req.table, s)
    <2> DEFINE s == found(buffer)
    <2>1. /\ s \in [1 .. nb -> ValueOf(req.table)] /\ Len(s) = nb
          /\ \A j \in DOMAIN s \cap DOMAIN req.values : s[j] = req.values[j]
      BY <1>1, UnpackedFacts
    <2> HIDE DEF s
    <2>2. s \in brought
      BY <2>1, Shared DEF Memory!Brought
    <2>3. tab' = Stored(req.table, req.addr - Start[req.table], s)
      BY <1>5 DEF s
    <2>4. /\ Mapped(tab)' = Memory!WrittenAt(req.table, req.addr, s)
          /\ Memory!Answer(req, Written)
      BY <1>1, <1>5, <2>1, <2>3, WriteKept
    <2> QED BY <2>2, <2>4, Shared DEF Memory!Write
  <1>6. \/ ~legal /\ FlushAndRefuse(req, ILLEGAL_DATA_VALUE)
        \/ legal /\ ~offered /\ Refuse(req, ILLEGAL_DATA_ADDRESS)
        \/ /\ legal /\ offered
           /\ \E buffer \in [1 .. nb -> ValueOf(req.table)] :
                tab' = Stored(req.table, i, found(buffer)) /\ Done(req, Written)
    <2> HIDE DEF max, offered
    <2> QED BY <1>2, <1>3, <1>4 DEF WriteArray
  <1> HIDE DEF max, offered, brought, found
  <1>7. \/ ~legal /\ Memory!Refuse(req, Memory!ILLEGAL_DATA_VALUE)
        \/ legal /\ ~offered /\ Memory!Refuse(req, Memory!ILLEGAL_DATA_ADDRESS)
        \/ legal /\ offered /\ \E s \in brought : Memory!Write(req, req.table, s)
    BY <1>5, <1>6, Sent, Shared
  <1>8. Memory!WriteMultiple(req)
    BY <1>7 DEF Memory!WriteMultiple, max, offered, brought
  <1> QED BY <1>1, <1>8 DEF Memory!Execute

LEMMA MaskWriteKept ==
  ASSUME TypeOK, NEW req \in Requests, mask_write_register(req)
  PROVE  Memory!Execute(req)
  <1> DEFINE i == req.addr - Start["registers"]
             offered == Memory!Offered("registers", req.addr, 1)
             code == (tab["registers"][i] \cap req.and) \cup (req.or \cap (Bit \ req.and))
             old == Mapped(tab)["registers"][req.addr]
             promise == {b \in Bit : IF b \in req.and THEN b \in old ELSE b \in req.or}
  <1>1. /\ req.fn = "mask_write" /\ req.addr \in Nat
        /\ req.and \in SUBSET Bit /\ req.or \in SUBSET Bit
    BY RequestFields DEF mask_write_register, Register
  <1>2. offered <=> Holds("registers", i, 1)
    BY <1>1, OfferedHeld, Limits
  <1>3. \/ ~offered /\ Refuse(req, ILLEGAL_DATA_ADDRESS)
        \/ offered /\ tab' = Stored("registers", i, <<code>>) /\ Done(req, Written)
    BY <1>2 DEF mask_write_register
  <1>4. ASSUME offered PROVE code = promise
    <2>1. /\ Start["registers"] \in Nat /\ Size["registers"] \in Nat
          /\ i >= 0 /\ i + 1 <= Size["registers"]
      BY <1>1, <1>2, <1>4, Layout, Limits DEF Holds
    <2>2. req.addr \in Start["registers"] .. Start["registers"] + Size["registers"] - 1
      BY <1>1, <2>1
    <2>3. old = tab["registers"][i]
      BY <2>2, Limits DEF Mapped
    <2> HIDE DEF old, i
    <2>4. tab["registers"][i] = old
      BY <2>3
    <2> QED BY <1>1, <2>4
  <1>5. ASSUME offered, tab' = Stored("registers", i, <<code>>), Done(req, Written)
        PROVE  Memory!Write(req, "registers", <<promise>>)
    <2> HIDE DEF code, promise, i
    <2>1. Len(<<promise>>) \in Nat /\ tab' = Stored("registers", i, <<promise>>)
      BY <1>4, <1>5
    <2>2. /\ Mapped(tab)' = Memory!WrittenAt("registers", req.addr, <<promise>>)
          /\ Memory!Answer(req, Written)
      BY <1>1, <1>5, <2>1, WriteKept, Limits DEF i
    <2> QED BY <2>2, Shared DEF Memory!Write
  <1> HIDE DEF code, promise, i, offered
  <1>6. \/ ~offered /\ Memory!Refuse(req, Memory!ILLEGAL_DATA_ADDRESS)
        \/ offered /\ Memory!Write(req, "registers", <<promise>>)
    BY <1>3, <1>5, Sent, Shared
  <1>7. Memory!MaskWrite(req)
    BY <1>6 DEF Memory!MaskWrite, offered, promise
  <1> QED BY <1>1, <1>7 DEF Memory!Execute

LEMMA WriteAndReadKept ==
  ASSUME Unshifted, TypeOK, NEW req \in Requests, write_and_read_registers(req)
  PROVE  Memory!Execute(req)
  <1> DEFINE i == req.addr - Start["registers"]
             w == req.write_addr - Start["registers"]
             nb == req.nb_write
             held == Holds("registers", i, req.nb) /\ w + nb <= Size["registers"]
             legal == /\ nb \in 1 .. Limit["wr_write"] /\ req.nb \in 1 .. Limit["wr_read"]
                      /\ Len(req.values) = nb /\ ~req.odd_byte
             offered == /\ Memory!Offered("registers", req.addr, req.nb)
                        /\ Memory!Offered("registers", req.write_addr, nb)
  <1>1. /\ req.fn = "write_and_read" /\ req.fn \in Served
        /\ req.write_addr \in Nat /\ req.addr \in Nat /\ req.nb \in Nat /\ nb \in Nat
        /\ Len(req.values) \in Nat /\ req.odd_byte \in BOOLEAN
    BY RequestFields DEF write_and_read_registers
  <1>2. Start["registers"] = 0
    BY <1>1 DEF Unshifted
  <1>3. w = req.write_addr /\ w >= 0
    BY <1>1, <1>2
  <1>4. Limit["wr_write"] \in Nat /\ Limit["wr_read"] \in Nat
    BY Limits DEF Limited
  <1>5. legal => (offered <=> held)
    <2>1. ASSUME legal PROVE req.nb >= 1 /\ nb >= 1
      BY <1>1, <1>4, <2>1
    <2>2. ASSUME legal
          PROVE  /\ Memory!Offered("registers", req.addr, req.nb) <=> Holds("registers", i, req.nb)
                 /\ Memory!Offered("registers", req.write_addr, nb) <=> Holds("registers", w, nb)
      BY <1>1, <2>1, <2>2, OfferedHeld, Limits
    <2>3. Holds("registers", w, nb) <=> w + nb <= Size["registers"]
      BY <1>3 DEF Holds
    <2> QED BY <2>2, <2>3
  <1>6. ASSUME legal, offered,
               tab' = Stored("registers", w, req.values),
               Done(req, Values(Loaded(tab'["registers"], i, req.nb)))
        PROVE  /\ Mapped(tab)' = Memory!WrittenAt("registers", req.write_addr, req.values)
               /\ Memory!Answer(req,
                    Values(Memory!ReadAt(Mapped(tab)'["registers"], req.addr, req.nb)))
    <2>1. Mapped(tab)' = Memory!WrittenAt("registers", req.write_addr, req.values)
      BY <1>1, <1>6, WriteKept, Limits
    <2>2. Holds("registers", i, req.nb)
      BY <1>5, <1>6
    <2>3. \A arrays : Loaded(arrays["registers"], i, req.nb)
                       = Memory!ReadAt(Mapped(arrays)["registers"], req.addr, req.nb)
      BY <1>1, <2>2, LoadedRead, Limits
    <2>4. Mapped(tab)' = Mapped(tab')
      BY DEF Mapped
    <2>5. Loaded(tab'["registers"], i, req.nb)
            = Memory!ReadAt(Mapped(tab)'["registers"], req.addr, req.nb)
      BY <2>3, <2>4
    <2> QED BY <1>6, <2>1, <2>5, Sent
  <1>7. \/ ~legal /\ FlushAndRefuse(req, ILLEGAL_DATA_VALUE)
        \/ legal /\ ~held /\ Refuse(req, ILLEGAL_DATA_ADDRESS)
        \/ /\ legal /\ held /\ tab' = Stored("registers", w, req.values)
           /\ Done(req, Values(Loaded(tab'["registers"], i, req.nb)))
    <2>1. nb_write_bytes(req) = nb * 2 <=> Len(req.values) = nb /\ ~req.odd_byte
      <3>1. CASE req.odd_byte
        <4>1. nb_write_bytes(req) = 2 * Len(req.values) + 1
          BY <3>1 DEF nb_write_bytes
        <4>2. \A k, n \in Nat : 2 * k + 1 # n * 2
          OBVIOUS
        <4> QED BY <1>1, <3>1, <4>1, <4>2
      <3>2. CASE ~req.odd_byte
        <4>1. nb_write_bytes(req) = 2 * Len(req.values)
          <5>1. nb_write_bytes(req) = 2 * Len(req.values) + 0
            BY <3>2 DEF nb_write_bytes
          <5> QED BY <1>1, <5>1
        <4>2. \A k, n \in Nat : 2 * k = n * 2 <=> k = n
          OBVIOUS
        <4> QED BY <1>1, <3>2, <4>1, <4>2
      <3> QED BY <3>1, <3>2
    <2>2. legal <=> WriteAndReadLegal(req)
      BY <2>1 DEF WriteAndReadLegal
    <2> QED BY <2>2 DEF write_and_read_registers
  <1> HIDE DEF offered, held, i, w
  <1>8. \/ ~legal /\ Memory!Refuse(req, Memory!ILLEGAL_DATA_VALUE)
        \/ legal /\ ~offered /\ Memory!Refuse(req, Memory!ILLEGAL_DATA_ADDRESS)
        \/ /\ legal /\ offered
           /\ Mapped(tab)' = Memory!WrittenAt("registers", req.write_addr, req.values)
           /\ Memory!Answer(req, Memory!Values(
                Memory!ReadAt(Mapped(tab)'["registers"], req.addr, req.nb)))
    BY <1>5, <1>6, <1>7, Sent, Shared
  <1>9. Memory!WriteAndRead(req)
    BY <1>8 DEF Memory!WriteAndRead, offered
  <1> QED BY <1>1, <1>9 DEF Memory!Execute

LEMMA OtherKept ==
  ASSUME NEW req,
         report_slave_id(req) \/ read_exception_status(req) \/ unknown_function(req)
  PROVE  Memory!Execute(req)
  <1>1. CASE report_slave_id(req)
    BY <1>1, Sent, Shared DEF report_slave_id, Memory!Execute
  <1>2. CASE read_exception_status(req)
    BY <1>2, Sent, Shared DEF read_exception_status, Memory!Execute
  <1>3. CASE unknown_function(req)
    BY <1>3, Sent, Shared DEF unknown_function, Memory!Execute
  <1> QED BY <1>1, <1>2, <1>3

LEMMA PromiseStep ==
  ASSUME Unshifted, TypeOK, [Next]_vars
  PROVE  [Memory!Next]_(Memory!vars)
  <1>1. CASE UNCHANGED vars \/ RequestArrives
    BY <1>1 DEF RequestArrives, vars, Memory!vars, Mapped
  <1>2. ASSUME NEW req \in Requests, modbus_reply(req)
        PROVE  Memory!Next
    <2>1. Memory!Execute(req)
      BY <1>2, ReadKept, WriteSingleKept, WriteMultipleKept, MaskWriteKept,
         WriteAndReadKept, OtherKept DEF modbus_reply
    <2>2. request' = req
      BY <1>2 DEF modbus_reply
    <2>3. request' \in Memory!Requests /\ Memory!Execute(request')
      BY <2>1, <2>2, Shared
    <2> QED BY <2>3 DEF Memory!Next
  <1> QED BY <1>1, <1>2 DEF Next

\* KeepsPromise of ModbusReply, for every mapping on which the write-and-read
\* function is harmless: modbus_reply executes what it answers, whole, at the
\* addresses asked for, and nothing of what it refuses.
THEOREM KeepsPromiseCorrect ==
  ASSUME Unshifted PROVE Spec => KeepsPromise
  <1>1. Init => Memory!Init
    <2> SUFFICES ASSUME Init PROVE Memory!Init
      OBVIOUS
    <2>1. \A t \in Tables : \A a \in Start[t] .. Start[t] + Size[t] - 1 :
            tab[t][a - Start[t]] = Zero
      <3> TAKE t \in Tables
      <3> TAKE a \in Start[t] .. Start[t] + Size[t] - 1
      <3>1. a - Start[t] \in Index(t)
        BY Layout DEF Index
      <3> QED BY <3>1 DEF Init, modbus_mapping_new_start_address
    <2>2. Mapped(tab) = [t \in Tables |-> [a \in Memory!Address(t) |-> Zero]]
      BY <2>1 DEF Mapped, Memory!Address
    <2> QED BY <2>2, Shared DEF Init, Memory!Init
  <1>2. TypeOK /\ [Next]_vars => [Memory!Next]_(Memory!vars)
    BY PromiseStep
  <1> QED BY <1>1, <1>2, TypeCorrect, PTL DEF Spec, KeepsPromise, Memory!Spec
=============================================================================
