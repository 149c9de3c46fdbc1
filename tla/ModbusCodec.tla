---------------------------- MODULE ModbusCodec ----------------------------
(***************************************************************************)
(* A call of the libmodbus client on a serial line, byte by byte: the      *)
(* request it builds and closes with a checksum, what the server takes for *)
(* a message and executes, the answer it packs, and what the client makes  *)
(* of that.  One byte of either message may be damaged on the way.         *)
(*                                                                         *)
(* The checksum of the monitoring host of src/Server Demo, which computes  *)
(* it bit by bit where the library has a table, and the byte orders of a   *)
(* float in two registers are defined beside it.  The input tables are     *)
(* read as the others are and left out.                                    *)
(***************************************************************************)
EXTENDS ModbusMessages, Sequences

CONSTANTS
  Slave,        \* the slave of the server and of the calls
  NbBits,       \* coils of its mapping, which begins at address 0
  NbRegisters,  \* registers of its mapping
  Calls,        \* the calls clients make: fn, addr and what the function takes
  Masks,        \* the bits a damaged byte is damaged in
  MaxCalls      \* bound on the number of calls

WORD_MAX == 65535    \* 0xFFFF
Byte == 0 .. 255
Word16 == 0 .. WORD_MAX

\* What the functions of the library take: addresses, values and masks are words,
\* a coil is 0 or 1.
Argued(c) ==
  \/ c.fn \in {READ_COILS, READ_HOLDING_REGISTERS} /\ c.addr \in Word16 /\ c.nb \in Nat
  \/ c.fn \in WriteSingleFunctions /\ c.addr \in Word16 /\ c.value \in Word16
  \/ c.fn = WRITE_MULTIPLE_COILS /\ c.addr \in Word16 /\ c.values \in Seq(0 .. 1)
  \/ c.fn = WRITE_MULTIPLE_REGISTERS /\ c.addr \in Word16 /\ c.values \in Seq(Word16)
  \/ /\ c.fn = MASK_WRITE_REGISTER
     /\ c.addr \in Word16 /\ c.and_mask \in Word16 /\ c.or_mask \in Word16
  \/ /\ c.fn = WRITE_AND_READ_REGISTERS
     /\ c.addr \in Word16 /\ c.nb \in Nat
     /\ c.write_addr \in Word16 /\ c.values \in Seq(Word16)
  \/ c.fn = REPORT_SLAVE_ID /\ c.max_dest \in Nat

ASSUME CodecAssumption ==
  /\ Backend = Rtu
  /\ Slave \in 1 .. 247
  /\ NbBits \in Nat /\ NbRegisters \in Nat
  /\ \A c \in Calls : Argued(c)
  /\ Masks \subseteq 1 .. 255
  /\ MaxCalls \in Nat

VARIABLES
  tab_bits,       \* the coils of the server
  tab_registers,  \* its registers
  calls,          \* calls made so far
  call,           \* the last of them
  request,        \* the bytes the client has sent for it
  line,           \* the bytes under way
  turn,           \* whose they are: "server", "client" or "nobody"
  damaged,        \* one of the bytes of this call was damaged
  result          \* what the last call returned

vars == <<tab_bits, tab_registers, calls, call, request, line, turn, damaged, result>>

\* A word in two bytes, the high one first, and back.
Bytes(w) == <<w \div 256, w % 256>>
WordAt(msg, i) == 256 * msg[i] + msg[i + 1]

\* The bits of a word, the lowest first, and the operators of C on them.
Weight == <<1, 2, 4, 8, 16, 32, 64, 128, 256, 512, 1024, 2048, 4096, 8192, 16384, 32768>>

Bit(w, b) == (w \div Weight[b + 1]) % 2

OfBits(bits) ==
  bits[0] + 2 * (bits[1] + 2 * (bits[2] + 2 * (bits[3] + 2 * (bits[4] + 2 * (bits[5]
    + 2 * (bits[6] + 2 * (bits[7] + 2 * (bits[8] + 2 * (bits[9] + 2 * (bits[10]
    + 2 * (bits[11] + 2 * (bits[12] + 2 * (bits[13] + 2 * (bits[14] + 2 * bits[15]))))))))))))))

And(v, w) == OfBits([b \in 0 .. 15 |-> IF Bit(v, b) = 1 THEN Bit(w, b) ELSE 0])
Or(v, w) == OfBits([b \in 0 .. 15 |-> IF Bit(v, b) = 1 THEN 1 ELSE Bit(w, b)])
Xor(v, w) == OfBits([b \in 0 .. 15 |-> IF Bit(v, b) = Bit(w, b) THEN 0 ELSE 1])
Not(w) == WORD_MAX - w

-----------------------------------------------------------------------------
(* Checksums                                                               *)

\* The tables of the library, indexed by a byte.
table_crc_hi == <<
  0, 193, 129, 64, 1, 192, 128, 65, 1, 192, 128, 65, 0, 193, 129, 64, 1, 192, 128, 65,
  0, 193, 129, 64, 0, 193, 129, 64, 1, 192, 128, 65, 1, 192, 128, 65, 0, 193, 129, 64,
  0, 193, 129, 64, 1, 192, 128, 65, 0, 193, 129, 64, 1, 192, 128, 65, 1, 192, 128, 65,
  0, 193, 129, 64, 1, 192, 128, 65, 0, 193, 129, 64, 0, 193, 129, 64, 1, 192, 128, 65,
  0, 193, 129, 64, 1, 192, 128, 65, 1, 192, 128, 65, 0, 193, 129, 64, 0, 193, 129, 64,
  1, 192, 128, 65, 1, 192, 128, 65, 0, 193, 129, 64, 1, 192, 128, 65, 0, 193, 129, 64,
  0, 193, 129, 64, 1, 192, 128, 65, 1, 192, 128, 65, 0, 193, 129, 64, 0, 193, 129, 64,
  1, 192, 128, 65, 0, 193, 129, 64, 1, 192, 128, 65, 1, 192, 128, 65, 0, 193, 129, 64,
  0, 193, 129, 64, 1, 192, 128, 65, 1, 192, 128, 65, 0, 193, 129, 64, 1, 192, 128, 65,
  0, 193, 129, 64, 0, 193, 129, 64, 1, 192, 128, 65, 0, 193, 129, 64, 1, 192, 128, 65,
  1, 192, 128, 65, 0, 193, 129, 64, 1, 192, 128, 65, 0, 193, 129, 64, 0, 193, 129, 64,
  1, 192, 128, 65, 1, 192, 128, 65, 0, 193, 129, 64, 0, 193, 129, 64, 1, 192, 128, 65,
  0, 193, 129, 64, 1, 192, 128, 65, 1, 192, 128, 65, 0, 193, 129, 64 >>

table_crc_lo == <<
  0, 192, 193, 1, 195, 3, 2, 194, 198, 6, 7, 199, 5, 197, 196, 4, 204, 12, 13, 205,
  15, 207, 206, 14, 10, 202, 203, 11, 201, 9, 8, 200, 216, 24, 25, 217, 27, 219, 218, 26,
  30, 222, 223, 31, 221, 29, 28, 220, 20, 212, 213, 21, 215, 23, 22, 214, 210, 18, 19, 211,
  17, 209, 208, 16, 240, 48, 49, 241, 51, 243, 242, 50, 54, 246, 247, 55, 245, 53, 52, 244,
  60, 252, 253, 61, 255, 63, 62, 254, 250, 58, 59, 251, 57, 249, 248, 56, 40, 232, 233, 41,
  235, 43, 42, 234, 238, 46, 47, 239, 45, 237, 236, 44, 228, 36, 37, 229, 39, 231, 230, 38,
  34, 226, 227, 35, 225, 33, 32, 224, 160, 96, 97, 161, 99, 163, 162, 98, 102, 166, 167, 103,
  165, 101, 100, 164, 108, 172, 173, 109, 175, 111, 110, 174, 170, 106, 107, 171, 105, 169, 168, 104,
  120, 184, 185, 121, 187, 123, 122, 186, 190, 126, 127, 191, 125, 189, 188, 124, 180, 116, 117, 181,
  119, 183, 182, 118, 114, 178, 179, 115, 177, 113, 112, 176, 80, 144, 145, 81, 147, 83, 82, 146,
  150, 86, 87, 151, 85, 149, 148, 84, 156, 92, 93, 157, 95, 159, 158, 94, 90, 154, 155, 91,
  153, 89, 88, 152, 136, 72, 73, 137, 75, 139, 138, 74, 78, 142, 143, 79, 141, 77, 76, 140,
  68, 132, 133, 69, 135, 71, 70, 134, 130, 66, 67, 131, 65, 129, 128, 64 >>

\* A plausible mistake: the tables exchanged.
crc16_step_swapped(crc, b) ==
  LET i == Xor(crc.hi, b)
  IN  [hi |-> Xor(crc.lo, table_crc_lo[i + 1]), lo |-> table_crc_hi[i + 1]]

crc16_step(crc, b) ==
  LET i == Xor(crc.hi, b)
  IN  [hi |-> Xor(crc.lo, table_crc_hi[i + 1]), lo |-> table_crc_lo[i + 1]]

\* What the bytes of msg make of 0xFFFF: after[k] is what the first k make of it.
crc16_of(msg) ==
  LET after[k \in 0 .. Len(msg)] ==
        IF k = 0 THEN [hi |-> 255, lo |-> 255] ELSE crc16_step(after[k - 1], msg[k])
  IN  after[Len(msg)]

\* A plausible mistake: the length is counted down before it is tested, and the
\* last byte never reached.
crc16_last_missed(msg) ==
  LET crc == crc16_of(SubSeq(msg, 1, Len(msg) - 1)) IN <<crc.hi, crc.lo>>

\* The checksum of the library, in the order it is sent.
crc16(msg) == LET crc == crc16_of(msg) IN <<crc.hi, crc.lo>>

POLY == 40961    \* 0xA001

\* What one bit, and the eight of a byte, make of the checksum of the host.
crc_bit(check) == IF check % 2 = 1 THEN Xor(check \div 2, POLY) ELSE check \div 2

crc_byte[check \in Word16] ==
  LET after[j \in 0 .. 8] == IF j = 0 THEN check ELSE crc_bit(after[j - 1])
  IN  after[8]

host_crc16_of(msg) ==
  LET after[i \in 0 .. Len(msg)] ==
        IF i = 0 THEN WORD_MAX ELSE crc_byte[Xor(after[i - 1], msg[i])]
  IN  after[Len(msg)]

\* The checksum of the host, crc[0] and crc[1], in the order it is sent.
host_crc16(msg) == LET check == host_crc16_of(msg) IN <<check % 256, check \div 256>>

send_msg_pre(msg) == msg \o crc16(msg)

-----------------------------------------------------------------------------
(* Bits in bytes, the first in the lowest bit                              *)

BitOf(bytes, k) == Bit(bytes[k \div 8 + 1], k % 8)

\* Bits beyond the last are 0.
Packed(src) ==
  [i \in 1 .. BitBytes(Len(src)) |->
     OfBits([b \in 0 .. 15 |->
       IF b < 8 /\ 8 * (i - 1) + b < Len(src) THEN src[8 * (i - 1) + b + 1] ELSE 0])]

\* The bits of a read one after the other: a byte is stored when it is full.
\* stored[k] is what there is after k of them.
bits_in_bytes(address, nb) ==
  LET stored[k \in 0 .. nb] ==
        IF k = 0 THEN [rsp |-> <<>>, one_byte |-> 0, shift |-> 0]
        ELSE LET s == stored[k - 1]
                 one_byte == s.one_byte + tab_bits[address + k - 1] * Weight[s.shift + 1]
             IN  IF s.shift = 7
                   THEN [rsp |-> Append(s.rsp, one_byte), one_byte |-> 0, shift |-> 0]
                   ELSE [rsp |-> s.rsp, one_byte |-> one_byte, shift |-> s.shift + 1]
  IN  stored[nb]

\* A plausible mistake: the last byte is stored only when it is full.
full_bytes_only(address, nb) == bits_in_bytes(address, nb).rsp

\* What is left is stored at the end.
response_io_status(address, nb) ==
  LET end == bits_in_bytes(address, nb)
  IN  IF end.shift # 0 THEN Append(end.rsp, end.one_byte) ELSE end.rsp

\* What read_io_status stores for the caller.
Unpacked(bytes, nb) == [k \in 1 .. nb |-> BitOf(bytes, k - 1)]

\* A plausible mistake: the bits are stored as they are masked.
bits_as_masked(idx, nb_bits, bytes) ==
  [a \in DOMAIN tab_bits |->
     IF a - idx \in 0 .. nb_bits - 1 THEN BitOf(bytes, a - idx) * Weight[((a - idx) % 8) + 1]
     ELSE tab_bits[a]]

\* A plausible mistake: the last byte is stored whole.
bytes_stored_whole(idx, nb_bits, bytes) ==
  [a \in DOMAIN tab_bits |->
     IF a - idx \in 0 .. 8 * Len(bytes) - 1 THEN BitOf(bytes, a - idx) ELSE tab_bits[a]]

modbus_set_bits_from_bytes(idx, nb_bits, bytes) ==
  [a \in DOMAIN tab_bits |->
     IF a - idx \in 0 .. nb_bits - 1 THEN BitOf(bytes, a - idx) ELSE tab_bits[a]]

-----------------------------------------------------------------------------
(* Registers in bytes                                                      *)

BytesOf(words) ==
  [i \in 1 .. 2 * Len(words) |->
     IF i % 2 = 1 THEN words[i \div 2 + 1] \div 256 ELSE words[i \div 2] % 256]

\* nb words of msg from byte i on.
WordsAt(msg, i, nb) == [k \in 1 .. nb |-> WordAt(msg, i + 2 * (k - 1))]

RegistersAt(registers, address, nb) == [k \in 1 .. nb |-> registers[address + k - 1]]

RegistersWith(address, words) ==
  [a \in DOMAIN tab_registers |->
     IF a - address + 1 \in DOMAIN words THEN words[a - address + 1] ELSE tab_registers[a]]

-----------------------------------------------------------------------------
(* Floats in two registers.  A uint32_t is its high and its low word; the  *)
(* bytes of a float are those of one in memory, on a little-endian host.   *)

bswap_16(w) == 256 * (w % 256) + w \div 256
bswap_32(i) == <<bswap_16(i[2]), bswap_16(i[1])>>
htonl(i) == bswap_32(i)
ntohl(i) == bswap_32(i)

InMemory(i) == <<i[2] % 256, i[2] \div 256, i[1] % 256, i[1] \div 256>>
FromMemory(f) == <<256 * f[4] + f[3], 256 * f[2] + f[1]>>

modbus_get_float_abcd(src) == InMemory(ntohl(src))
modbus_get_float_dcba(src) == InMemory(ntohl(bswap_32(src)))
modbus_get_float_badc(src) == InMemory(ntohl(<<bswap_16(src[1]), bswap_16(src[2])>>))
modbus_get_float_cdab(src) == InMemory(ntohl(<<src[2], src[1]>>))
modbus_get_float(src) == InMemory(<<src[2], src[1]>>)

\* A plausible mistake: words and bytes swapped where only words are.
set_float_cdab_as_dcba(f) == bswap_32(htonl(FromMemory(f)))

modbus_set_float_abcd(f) == htonl(FromMemory(f))
modbus_set_float_dcba(f) == bswap_32(htonl(FromMemory(f)))
modbus_set_float_badc(f) == LET i == htonl(FromMemory(f)) IN <<bswap_16(i[1]), bswap_16(i[2])>>
modbus_set_float_cdab(f) == LET i == htonl(FromMemory(f)) IN <<i[2], i[1]>>
modbus_set_float(f) == LET i == FromMemory(f) IN <<i[2], i[1]>>

-----------------------------------------------------------------------------
(* The request of a call                                                   *)

build_request_basis_bytes(fn, addr, nb) == <<Slave, fn>> \o Bytes(addr) \o Bytes(nb)

read_request(c) == build_request_basis_bytes(c.fn, c.addr, c.nb)

write_single(c) ==
  build_request_basis_bytes(c.fn, c.addr,
    IF c.fn = WRITE_SINGLE_COIL THEN (IF c.value # 0 THEN 65280 ELSE 0) ELSE c.value)

modbus_write_bits(c) ==
  build_request_basis_bytes(c.fn, c.addr, Len(c.values))
    \o <<BitBytes(Len(c.values))>> \o Packed(c.values)

modbus_write_registers(c) ==
  build_request_basis_bytes(c.fn, c.addr, Len(c.values))
    \o <<2 * Len(c.values)>> \o BytesOf(c.values)

\* The quantity is taken back and the masks stand in its place.
modbus_mask_write_register(c) ==
  SubSeq(build_request_basis_bytes(c.fn, c.addr, 0), 1, 4)
    \o Bytes(c.and_mask) \o Bytes(c.or_mask)

modbus_write_and_read_registers(c) ==
  build_request_basis_bytes(c.fn, c.addr, c.nb)
    \o Bytes(c.write_addr) \o Bytes(Len(c.values))
    \o <<2 * Len(c.values)>> \o BytesOf(c.values)

\* Address and quantity are taken back.
modbus_report_slave_id(c) == SubSeq(build_request_basis_bytes(c.fn, 0, 0), 1, 2)

RequestBytes(c) ==
  send_msg_pre(
    CASE c.fn \in ReadBitFunctions \cup ReadRegisterFunctions -> read_request(c)
      [] c.fn \in WriteSingleFunctions -> write_single(c)
      [] c.fn = WRITE_MULTIPLE_COILS -> modbus_write_bits(c)
      [] c.fn = WRITE_MULTIPLE_REGISTERS -> modbus_write_registers(c)
      [] c.fn = MASK_WRITE_REGISTER -> modbus_mask_write_register(c)
      [] c.fn = REPORT_SLAVE_ID -> modbus_report_slave_id(c)
      [] c.fn = WRITE_AND_READ_REGISTERS -> modbus_write_and_read_registers(c))

-----------------------------------------------------------------------------
(* What both sides take from the line                                      *)

\* The message that begins with the first byte, or nothing: bytes are missing,
\* it would not fit the buffer, it is for another slave or its checksum is
\* wrong.  In recovery mode what is left over is flushed.
Received(type) ==
  LET fn == line[2]
      meta == compute_meta_length_after_function(fn, type)
      length == FramedLength(fn, line[2 + meta], type)
      msg == SubSeq(line, 1, length)
  IN  IF /\ Len(line) >= 2 + meta
         /\ length <= Backend.maxAdu
         /\ Len(line) >= length
         /\ msg[1] \in {Slave, 0}
         /\ crc16(SubSeq(msg, 1, length - 2)) = <<msg[length - 1], msg[length]>>
        THEN msg ELSE <<>>

-----------------------------------------------------------------------------
(* The server                                                              *)

Reply(rsp) == line' = send_msg_pre(rsp)

ILLEGAL_DATA_ADDRESS == 2
ILLEGAL_DATA_VALUE == 3

\* A request for nb values from address on, of a table of size values, of
\* which max may be asked: the exception it gets, or 0.
Refusal(nb, max, address, size) ==
  IF nb < 1 \/ max < nb THEN ILLEGAL_DATA_VALUE
  ELSE IF address + nb > size THEN ILLEGAL_DATA_ADDRESS
  ELSE 0

response_exception(msg, code) ==
  /\ code # 0
  /\ Reply(<<msg[1], msg[2] + EXCEPTION_BIT, code>>)
  /\ UNCHANGED <<tab_bits, tab_registers>>

reply_read_bits(msg, address) ==
  LET nb == WordAt(msg, 5)
      code == Refusal(nb, MAX_READ_BITS, address, NbBits)
  IN  /\ msg[2] = READ_COILS
      /\ \/ response_exception(msg, code)
         \/ /\ code = 0
            /\ Reply(<<msg[1], msg[2], BitBytes(nb)>> \o response_io_status(address, nb))
            /\ UNCHANGED <<tab_bits, tab_registers>>

reply_read_registers(msg, address) ==
  LET nb == WordAt(msg, 5)
      code == Refusal(nb, MAX_READ_REGISTERS, address, NbRegisters)
  IN  /\ msg[2] = READ_HOLDING_REGISTERS
      /\ \/ response_exception(msg, code)
         \/ /\ code = 0
            /\ Reply(<<msg[1], msg[2], 2 * nb>> \o BytesOf(RegistersAt(tab_registers, address, nb)))
            /\ UNCHANGED <<tab_bits, tab_registers>>

reply_write_bit(msg, address) ==
  LET data == WordAt(msg, 5)
      held == Refusal(1, 1, address, NbBits)
      code == IF held = 0 /\ data \notin {0, 65280} THEN ILLEGAL_DATA_VALUE ELSE held
  IN  /\ msg[2] = WRITE_SINGLE_COIL
      /\ \/ response_exception(msg, code)
         \/ /\ code = 0
            /\ tab_bits' = [tab_bits EXCEPT ![address] = IF data # 0 THEN 1 ELSE 0]
            /\ Reply(SubSeq(msg, 1, Len(msg) - 2))
            /\ UNCHANGED tab_registers

reply_write_register(msg, address) ==
  LET code == Refusal(1, 1, address, NbRegisters)
  IN  /\ msg[2] = WRITE_SINGLE_REGISTER
      /\ \/ response_exception(msg, code)
         \/ /\ code = 0
            /\ tab_registers' = [tab_registers EXCEPT ![address] = WordAt(msg, 5)]
            /\ Reply(SubSeq(msg, 1, Len(msg) - 2))
            /\ UNCHANGED tab_bits

reply_write_bits(msg, address) ==
  LET nb == WordAt(msg, 5)
      code == Refusal(nb, MAX_WRITE_BITS, address, NbBits)
  IN  /\ msg[2] = WRITE_MULTIPLE_COILS
      /\ \/ response_exception(msg, code)
         \/ /\ code = 0
            /\ tab_bits' = modbus_set_bits_from_bytes(address, nb, SubSeq(msg, 8, Len(msg) - 2))
            /\ Reply(SubSeq(msg, 1, 6))
            /\ UNCHANGED tab_registers

reply_write_registers(msg, address) ==
  LET nb == WordAt(msg, 5)
      code == Refusal(nb, MAX_WRITE_REGISTERS, address, NbRegisters)
  IN  /\ msg[2] = WRITE_MULTIPLE_REGISTERS
      /\ \/ response_exception(msg, code)
         \/ /\ code = 0
            /\ tab_registers' = RegistersWith(address, WordsAt(msg, 8, nb))
            /\ Reply(SubSeq(msg, 1, 6))
            /\ UNCHANGED tab_bits

reply_mask_write_register(msg, address) ==
  LET code == Refusal(1, 1, address, NbRegisters)
      and == WordAt(msg, 5)
      or == WordAt(msg, 7)
  IN  /\ msg[2] = MASK_WRITE_REGISTER
      /\ \/ response_exception(msg, code)
         \/ /\ code = 0
            /\ tab_registers' =
                 [tab_registers EXCEPT ![address] = Or(And(@, and), And(or, Not(and)))]
            /\ Reply(SubSeq(msg, 1, Len(msg) - 2))
            /\ UNCHANGED tab_bits

\* The registers are written and then read.
reply_write_and_read_registers(msg, address) ==
  LET nb == WordAt(msg, 5)
      address_write == WordAt(msg, 7)
      nb_write == WordAt(msg, 9)
      read == Refusal(nb, MAX_WR_READ_REGISTERS, address, NbRegisters)
      written == Refusal(nb_write, MAX_WR_WRITE_REGISTERS, address_write, NbRegisters)
      code == IF ILLEGAL_DATA_VALUE \in {read, written} \/ msg[11] # 2 * nb_write
                THEN ILLEGAL_DATA_VALUE
              ELSE IF ILLEGAL_DATA_ADDRESS \in {read, written} THEN ILLEGAL_DATA_ADDRESS
              ELSE 0
  IN  /\ msg[2] = WRITE_AND_READ_REGISTERS
      /\ \/ response_exception(msg, code)
         \/ /\ code = 0
            /\ tab_registers' = RegistersWith(address_write, WordsAt(msg, 12, nb_write))
            /\ Reply(<<msg[1], msg[2], 2 * nb>> \o BytesOf(RegistersAt(tab_registers', address, nb)))
            /\ UNCHANGED tab_bits

\* The number of the library, "on", and LMB3.1.4.
slave_id == <<180, 255, 76, 77, 66, 51, 46, 49, 46, 52>>

reply_report_slave_id(msg) ==
  /\ msg[2] = REPORT_SLAVE_ID
  /\ Reply(<<msg[1], msg[2], Len(slave_id)>> \o slave_id)
  /\ UNCHANGED <<tab_bits, tab_registers>>

modbus_reply(msg) ==
  LET address == WordAt(msg, 3)
  IN  \/ reply_read_bits(msg, address)
      \/ reply_read_registers(msg, address)
      \/ reply_write_bit(msg, address)
      \/ reply_write_register(msg, address)
      \/ reply_write_bits(msg, address)
      \/ reply_write_registers(msg, address)
      \/ reply_mask_write_register(msg, address)
      \/ reply_write_and_read_registers(msg, address)
      \/ reply_report_slave_id(msg)

Serve ==
  /\ turn = "server"
  /\ turn' = "client"
  /\ IF Received("indication") = <<>>
       THEN line' = <<>> /\ UNCHANGED <<tab_bits, tab_registers>>
       ELSE modbus_reply(Received("indication"))
  /\ UNCHANGED <<calls, call, request, damaged, result>>

-----------------------------------------------------------------------------
(* The client                                                              *)

NoCall == [fn |-> 0]
Failed == [kind |-> "failed"]
Exception(code) == [kind |-> "exception", code |-> code]
Values(s) == [kind |-> "values", values |-> s]
Written == [kind |-> "written"]

Reads == {READ_COILS, READ_HOLDING_REGISTERS, WRITE_AND_READ_REGISTERS}
WritesMany == WriteMultipleFunctions \cup {WRITE_AND_READ_REGISTERS}

\* The quantities of a call.
Quantities(c) ==
  [fn |-> c.fn,
   nb |-> IF c.fn \in Reads THEN c.nb
          ELSE IF c.fn \in WritesMany THEN Len(c.values) ELSE 1,
   nbWrite |-> IF c.fn = WRITE_AND_READ_REGISTERS THEN Len(c.values) ELSE 0]

\* A call for too much fails before anything is sent.
MakeCall(c) ==
  /\ turn = "nobody"
  /\ calls < MaxCalls
  /\ calls' = calls + 1
  /\ call' = c
  /\ damaged' = FALSE
  /\ result' = Failed
  /\ IF Legal(Quantities(c))
       THEN /\ request' = RequestBytes(c)
            /\ line' = request'
            /\ turn' = "server"
       ELSE UNCHANGED <<request, line, turn>>
  /\ UNCHANGED <<tab_bits, tab_registers>>

\* The quantity a request, and the one its answer, speaks of.
RequestValues(fn) ==
  IF fn \in ReadBitFunctions THEN BitBytes(WordAt(request, 5))
  ELSE IF fn \in ReadRegisterFunctions \cup WritesMany THEN WordAt(request, 5)
  ELSE 1

ResponseValues(fn, rsp) ==
  IF fn \in ReadBitFunctions THEN rsp[3]
  ELSE IF fn \in ReadRegisterFunctions \cup {WRITE_AND_READ_REGISTERS} THEN rsp[3] \div 2
  ELSE IF fn \in WriteMultipleFunctions THEN WordAt(rsp, 5)
  ELSE 1

check_confirmation(rsp) ==
  LET fn == rsp[2]
  IN  /\ fn = request[2]
      /\ \/ fn = REPORT_SLAVE_ID
         \/ Len(rsp) = compute_response_length_from_request(
                         [fn |-> request[2], nb |-> WordAt(request, 5)])
      /\ RequestValues(fn) = ResponseValues(fn, rsp)

Shorter(a, b) == IF a < b THEN a ELSE b

\* What the client function returns for an answer.
Result(rsp) ==
  CASE rsp[2] >= EXCEPTION_BIT ->
         IF Len(rsp) = ExceptionLength + 2 /\ request[2] = rsp[2] - EXCEPTION_BIT
           THEN Exception(rsp[3]) ELSE Failed
    [] rsp[2] < EXCEPTION_BIT /\ ~check_confirmation(rsp) -> Failed
    [] OTHER ->
         IF rsp[2] = READ_COILS THEN Values(Unpacked(SubSeq(rsp, 4, Len(rsp) - 2), call.nb))
         ELSE IF rsp[2] = REPORT_SLAVE_ID
           THEN Values(SubSeq(rsp, 4, 3 + Shorter(rsp[3], call.max_dest)))
         ELSE IF rsp[2] \in Reads THEN Values(WordsAt(rsp, 4, rsp[3] \div 2))
         ELSE Written

Confirm ==
  /\ turn = "client"
  /\ turn' = "nobody"
  /\ line' = <<>>
  /\ result' = IF line = <<>> THEN Failed
               ELSE IF Received("confirmation") = <<>> THEN Failed
               ELSE Result(Received("confirmation"))
  /\ UNCHANGED <<tab_bits, tab_registers, calls, call, request, damaged>>

\* One byte of the message under way is damaged.
Damage ==
  /\ turn # "nobody"
  /\ ~damaged
  /\ damaged' = TRUE
  /\ \E i \in DOMAIN line, m \in Masks : line' = [line EXCEPT ![i] = Xor(@, m)]
  /\ UNCHANGED <<tab_bits, tab_registers, calls, call, request, turn, result>>

-----------------------------------------------------------------------------

Init ==
  /\ tab_bits = [a \in 0 .. NbBits - 1 |-> 0]
  /\ tab_registers = [a \in 0 .. NbRegisters - 1 |-> 0]
  /\ calls = 0
  /\ call = NoCall
  /\ request = <<>>
  /\ line = <<>>
  /\ turn = "nobody"
  /\ damaged = FALSE
  /\ result = Failed

Next == (\E c \in Calls : MakeCall(c)) \/ Serve \/ Confirm \/ Damage

Spec == Init /\ [][Next]_vars

-----------------------------------------------------------------------------
(* What a call means                                                       *)

Stores == WriteSingleFunctions \cup WriteMultipleFunctions \cup {WRITE_AND_READ_REGISTERS}
OnBits == {READ_COILS, WRITE_SINGLE_COIL, WRITE_MULTIPLE_COILS}

\* The values a call stores and the address of the first.
StoredAt(c) ==
  IF c.fn = WRITE_AND_READ_REGISTERS THEN c.write_addr
  ELSE IF c.fn \in Stores THEN c.addr
  ELSE 0
StoredValues(c) ==
  IF c.fn \notin Stores THEN <<>>
  ELSE IF c.fn = WRITE_SINGLE_COIL THEN <<IF c.value = 0 THEN 0 ELSE 1>>
  ELSE IF c.fn = WRITE_SINGLE_REGISTER THEN <<c.value>>
  ELSE c.values

\* The spans of addresses a call touches.
Spans(c) ==
  (IF c.fn \in Stores
     THEN {StoredAt(c) .. StoredAt(c) + Len(StoredValues(c)) - 1} ELSE {})
  \cup (IF c.fn \in Reads THEN {c.addr .. c.addr + c.nb - 1} ELSE {})
  \cup (IF c.fn = MASK_WRITE_REGISTER THEN {{c.addr}} ELSE {})

\* The exception a call deserves, 0 if none.
Deserved(c) ==
  LET size == IF c.fn \in OnBits THEN NbBits ELSE NbRegisters
  IN  IF {} \in Spans(c) THEN ILLEGAL_DATA_VALUE
      ELSE IF \E s \in Spans(c) : ~(s \subseteq 0 .. size - 1) THEN ILLEGAL_DATA_ADDRESS
      ELSE 0

\* What executing a call makes of a table: its values stand at their addresses,
\* a masked register keeps its bits where the first mask has a 1 and takes those
\* of the second elsewhere, and all else is as it was.
Executed(c, onBits, old, new) ==
  \A a \in DOMAIN old :
    IF (c.fn \in OnBits) # onBits THEN new[a] = old[a]
    ELSE IF c.fn = MASK_WRITE_REGISTER /\ a = c.addr
      THEN \A b \in 0 .. 15 :
             Bit(new[a], b) = IF Bit(c.and_mask, b) = 1 THEN Bit(old[a], b) ELSE Bit(c.or_mask, b)
    ELSE new[a] = IF a - StoredAt(c) + 1 \in DOMAIN StoredValues(c)
                    THEN StoredValues(c)[a - StoredAt(c) + 1] ELSE old[a]

ReadValues(c) ==
  [k \in 1 .. c.nb |->
     IF c.fn = READ_COILS THEN tab_bits[c.addr + k - 1] ELSE tab_registers[c.addr + k - 1]]

-----------------------------------------------------------------------------
(* Properties                                                              *)

\* Coils are 0 or 1, registers words and the line carries bytes.
TypeOK ==
  /\ tab_bits \in [0 .. NbBits - 1 -> 0 .. 1]
  /\ tab_registers \in [0 .. NbRegisters - 1 -> Word16]
  /\ line \in Seq(Byte) /\ request \in Seq(Byte)
  /\ calls \in 0 .. MaxCalls
  /\ call \in Calls \cup {NoCall}
  /\ turn \in {"server", "client", "nobody"}
  /\ damaged \in BOOLEAN
  /\ result.kind \in {"failed", "exception", "values", "written"}

\* The server executes a call as the client meant it, at those addresses and no
\* others, whatever the packing; of a call it refuses or a damaged one, nothing.
\* Covers the packing of modbus_write_bits and its siblings, the framing of
\* _modbus_receive_msg, the checksum and modbus_reply.
ServedAsCalled ==
  [][(turn = "server" /\ turn' = "client") =>
       IF damaged \/ Deserved(call) # 0
         THEN UNCHANGED <<tab_bits, tab_registers>>
         ELSE /\ Executed(call, TRUE, tab_bits, tab_bits')
              /\ Executed(call, FALSE, tab_registers, tab_registers')]_vars

\* A call returns what the tables of the server hold when it read them, that it
\* was written, who it is, or the exception it deserves; and it fails, never returning
\* anything else, if a byte of its messages was damaged or it asked too much.
\* Covers response_io_status, check_confirmation, read_io_status, read_registers.
Returned ==
  turn = "nobody" /\ calls > 0 =>
    result =
      IF damaged \/ ~Legal(Quantities(call)) THEN Failed
      ELSE IF Deserved(call) # 0 THEN Exception(Deserved(call))
      ELSE IF call.fn \in Reads THEN Values(ReadValues(call))
      ELSE IF call.fn = REPORT_SLAVE_ID
        THEN Values(SubSeq(slave_id, 1, Shorter(Len(slave_id), call.max_dest)))
      ELSE Written

\* A message one byte of which was damaged is never taken for a message, whatever
\* that byte is: not if it is the function or a count, from which the receiving
\* side computes where the checksum is.  Covers check_integrity and what
\* _modbus_receive_msg computes before it.
DamageDetected ==
  damaged /\ line # <<>> =>
    Received(IF turn = "server" THEN "indication" ELSE "confirmation") = <<>>

\* The library, with its tables, and the host, bit by bit, compute the same two
\* bytes for every message: neither would refuse what the other sends.
ChecksumsAgree ==
  line # <<>> /\ ~damaged =>
    host_crc16(SubSeq(line, 1, Len(line) - 2)) = SubSeq(line, Len(line) - 1, Len(line))

\* Where the bytes of a float in memory go on the line, by the names of the
\* functions; the deprecated one is BADC.
Letters(order) ==
  CASE order = "abcd" -> <<1, 2, 3, 4>>
    [] order = "dcba" -> <<4, 3, 2, 1>>
    [] order = "badc" -> <<2, 1, 4, 3>>
    [] order = "cdab" -> <<3, 4, 1, 2>>

Kept(src, order, f, dest) ==
  /\ BytesOf(src) = [k \in 1 .. 4 |-> f[Letters(order)[k]]]
  /\ dest = src

\* Two registers read as a float of any byte order have its bytes on the line in
\* the order the function is named for, and storing it restores them.
FloatsKept ==
  \A a \in 0 .. NbRegisters - 2 :
    LET src == RegistersAt(tab_registers, a, 2)
        abcd == modbus_get_float_abcd(src)
        dcba == modbus_get_float_dcba(src)
        badc == modbus_get_float_badc(src)
        cdab == modbus_get_float_cdab(src)
        old == modbus_get_float(src)
    IN  /\ Kept(src, "abcd", abcd, modbus_set_float_abcd(abcd))
        /\ Kept(src, "dcba", dcba, modbus_set_float_dcba(dcba))
        /\ Kept(src, "badc", badc, modbus_set_float_badc(badc))
        /\ Kept(src, "cdab", cdab, modbus_set_float_cdab(cdab))
        /\ Kept(src, "badc", old, modbus_set_float(old))
=============================================================================
