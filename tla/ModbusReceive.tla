---------------------------- MODULE ModbusReceive ----------------------------
(***************************************************************************)
(* _modbus_receive_msg: the loop with which a libmodbus client takes a     *)
(* confirmation, and a libmodbus server an indication, from a stream of    *)
(* bytes that arrive in pieces, stop in the middle, or are damaged.        *)
(*                                                                         *)
(* The stream is a set of frames laid end to end.  A position is a number  *)
(* of bytes since the connection was made: `written' is where the peer     *)
(* will write next, `arrived' how far the bytes have come, `pos' how far   *)
(* they were taken.  A receive that starts where a frame starts reads the  *)
(* function and the count of that frame; one that starts anywhere else, or *)
(* on a damaged frame, reads some function and some count.                 *)
(***************************************************************************)
EXTENDS ModbusMessages, FiniteSets

CONSTANTS
  Type,           \* "indication" at a server, "confirmation" at a client
  Requests,       \* the requests made on the connection, or answered on it
  GarbledShapes,  \* what may be read where no frame starts
  MaxFrames,      \* bound: frames written on one connection
  LinkRecovery,   \* MODBUS_ERROR_RECOVERY_LINK is set
  ProtocolRecovery, \* MODBUS_ERROR_RECOVERY_PROTOCOL is set
  ByteTimeout,    \* the byte timeout is not zero
  Settles,        \* what is written arrives within a response timeout
  Noise           \* frames may be damaged on the line

NoShape == [fn |-> 0, count |-> 0]

\* A frame as its writer builds it, and as a reader sees it.
RequestShape(req) ==
  [fn |-> req.fn, count |-> RequestCount(req),
   length |-> RequestLength(req) + Backend.checksum]

ResponseShape(req) ==
  [fn |-> req.fn, count |-> ResponseCount(req),
   length |-> ResponseLength(req) + Backend.checksum]

ExceptionShape(req) ==
  [fn |-> req.fn + EXCEPTION_BIT, count |-> 0,
   length |-> ExceptionLength + Backend.checksum]

Shapes ==
  IF Type = "indication"
    THEN {RequestShape(req) : req \in Requests}
    ELSE {ResponseShape(req) : req \in Requests}
           \cup {ExceptionShape(req) : req \in Requests}

Seen(s) == [fn |-> s.fn, count |-> s.count]

ASSUME ReceiveAssumption ==
  /\ Type \in {"indication", "confirmation"}
  /\ Requests \subseteq {req \in Request : Legal(req)}
  /\ GarbledShapes \subseteq [fn : Nat, count : Nat]
  /\ GarbledShapes # {}
  /\ MaxFrames \in Nat
  /\ {LinkRecovery, ProtocolRecovery, ByteTimeout, Settles, Noise} \subseteq BOOLEAN

VARIABLES
  frames,       \* the frames written on this connection
  written,      \* the position behind the last of them
  arrived,      \* the position up to which bytes can be read
  open,         \* the peer has not closed the connection
  pos,          \* the position up to which bytes were read or flushed
  step,         \* "idle" outside a receive, else the part being read
  from,         \* the position where the current or last receive started
  toRead,       \* length_to_read
  shape,        \* the function and count byte read so far
  result        \* what the last receive returned

wireVars == <<frames, written, open>>
receiveVars == <<step, from, toRead, shape>>
vars == <<wireVars, arrived, pos, receiveVars, result>>

FrameEnd(f) == f.start + f.shape.length

\* Where a frame starts, or will start.
Boundaries == {f.start : f \in frames} \cup {written}

Init ==
  /\ frames = {}
  /\ written = 0
  /\ arrived = 0
  /\ open = TRUE
  /\ pos = 0
  /\ step = "idle"
  /\ from = 0
  /\ toRead = 0
  /\ shape = NoShape
  /\ result = "none"

-----------------------------------------------------------------------------
(* The other side and the line                                             *)

\* The peer writes a whole frame at once; `mine' says whether it carries the
\* slave address of the receiver, which only an RTU receiver looks at.
PeerWrites ==
  /\ open
  /\ Cardinality(frames) < MaxFrames
  /\ \E s \in Shapes, mine \in BOOLEAN, intact \in BOOLEAN :
       /\ mine \/ Backend = Rtu
       /\ intact \/ Noise
       /\ LET f == [start |-> written, shape |-> s, mine |-> mine, intact |-> intact]
          IN  /\ frames' = frames \cup {f}
              /\ written' = FrameEnd(f)
  /\ UNCHANGED <<open, arrived, pos, receiveVars, result>>

\* Only a TCP connection can be closed by the peer.
PeerCloses ==
  /\ Backend = Tcp
  /\ open
  /\ open' = FALSE
  /\ UNCHANGED <<frames, written, arrived, pos, receiveVars, result>>

BytesArrive ==
  /\ arrived < written
  /\ arrived' \in arrived + 1 .. written
  /\ UNCHANGED <<wireVars, pos, receiveVars, result>>

-----------------------------------------------------------------------------
(* The receive loop                                                        *)

\* What flush finds: everything there is, and under Settles that is everything
\* written, for every flush of a timeout comes after a sleep.
Flushed == IF Settles THEN {written} ELSE arrived .. written

modbus_flush ==
  \E p \in Flushed :
    /\ pos' = p
    /\ arrived' = p

\* modbus_close and modbus_connect: a new stream, whatever the old one held, or
\* none if the connection is refused, which nobody looks at.
Reconnect ==
  /\ frames' = {}
  /\ written' = 0
  /\ arrived' = 0
  /\ pos' = 0
  /\ open' \in BOOLEAN

ReturnFrom(r) ==
  /\ step' = "idle"
  /\ toRead' = 0
  /\ result' = r

\* _modbus_receive_msg is called: first the header and the function code.
Receive ==
  /\ step = "idle"
  /\ step' = "function"
  /\ from' = pos
  /\ toRead' = Backend.header + 1
  /\ shape' = NoShape
  /\ result' = "none"
  /\ UNCHANGED <<wireVars, arrived, pos>>

\* The frame a receive started on, if it started on an undamaged one.
FramesAt(p) == {f \in frames : f.start = p /\ f.intact}

ShapesAt(p) ==
  IF FramesAt(p) = {} THEN GarbledShapes ELSE {Seen(f.shape) : f \in FramesAt(p)}

\* The buffer holds max_adu_length bytes; len are in it, n are still to come.
TooLong(len, n) == len + n > Backend.maxAdu

\* _modbus_rtu_check_integrity and its TCP counterpart, which accepts all.  The
\* address is compared before the CRC; a CRC is taken to betray all damage.
CheckIntegrity(start, end) ==
  LET whole == {f \in FramesAt(start) : FrameEnd(f) = end}
  IN  \/ /\ Backend = Tcp \/ \E f \in whole : f.mine
         /\ ReturnFrom("message")
         /\ pos' = end
         /\ UNCHANGED arrived
      \/ /\ Backend # Tcp
         /\ \A f \in whole : ~f.mine
         /\ ReturnFrom("ignored")
         /\ pos' = end
         /\ UNCHANGED arrived
      \/ /\ Backend # Tcp
         /\ whole = {}
         /\ ReturnFrom("crc")
         /\ pos' = IF ProtocolRecovery THEN arrived ELSE end
         /\ UNCHANGED arrived

\* recv returns what there is, up to length_to_read.
Chunk == IF arrived - pos < toRead THEN arrived - pos ELSE toRead

\* A plausible mistake: msg_length grows by what was asked for, not by what came.
ReadSomeAsAsked ==
  /\ step # "idle"
  /\ arrived > pos
  /\ Chunk < toRead
  /\ pos' = pos + toRead
  /\ toRead' = toRead - Chunk
  /\ UNCHANGED <<wireVars, arrived, step, from, shape, result>>

\* A part is not complete yet.
ReadSome ==
  /\ step # "idle"
  /\ arrived > pos
  /\ Chunk < toRead
  /\ pos' = pos + Chunk
  /\ toRead' = toRead - Chunk
  /\ UNCHANGED <<wireVars, arrived, step, from, shape, result>>

\* The header and the function are there: the meta part is next, or the data
\* when there is none.
ReadData(s, len) ==
  LET n == compute_data_length_after_meta(s.fn, s.count, Type)
  IN  \/ /\ TooLong(len, n)
         /\ ReturnFrom("overlong")
         /\ pos' = from + len
         /\ UNCHANGED arrived
      \/ /\ ~TooLong(len, n)
         /\ n > 0
         /\ step' = "data"
         /\ toRead' = n
         /\ pos' = from + len
         /\ UNCHANGED <<arrived, result>>
      \/ /\ ~TooLong(len, n)
         /\ n = 0
         /\ CheckIntegrity(from, from + len)

ReadFunction ==
  /\ step = "function"
  /\ arrived - pos >= toRead
  /\ \E s \in ShapesAt(from) :
       LET n == compute_meta_length_after_function(s.fn, Type)
       IN  /\ shape' = s
           /\ IF n > 0
                THEN /\ step' = "meta"
                     /\ toRead' = n
                     /\ pos' = pos + toRead
                     /\ UNCHANGED <<arrived, result>>
                ELSE ReadData(s, pos + toRead - from)
  /\ UNCHANGED <<wireVars, from>>

ReadMeta ==
  /\ step = "meta"
  /\ arrived - pos >= toRead
  /\ ReadData(shape, pos + toRead - from)
  /\ UNCHANGED <<wireVars, from, shape>>

ReadRest ==
  /\ step = "data"
  /\ arrived - pos >= toRead
  /\ CheckIntegrity(from, pos + toRead)
  /\ UNCHANGED <<wireVars, from, shape>>

\* A plausible mistake: the byte timeout is not set after the first bytes.
ArmedByResponseTimeoutOnly == Type = "confirmation"

\* select has a timeout from the start of a confirmation on, and of any message
\* after its first bytes, unless the byte timeout is switched off.
Armed == Type = "confirmation" \/ (ByteTimeout /\ pos > from)

\* A plausible mistake: a timeout leaves the rest of the message unread.
TimeoutWithoutFlush ==
  /\ step # "idle"
  /\ arrived = pos
  /\ open
  /\ Armed
  /\ ReturnFrom("timeout")
  /\ UNCHANGED <<wireVars, arrived, pos, from, shape>>

\* select times out.  Only in recovery mode is the late rest thrown away.
Timeout ==
  /\ step # "idle"
  /\ arrived = pos
  /\ open
  /\ Armed
  /\ ReturnFrom("timeout")
  /\ IF LinkRecovery THEN modbus_flush ELSE UNCHANGED <<arrived, pos>>
  /\ UNCHANGED <<wireVars, from, shape>>

\* recv returns 0, or fails because the connection is reset.
Reset ==
  /\ step # "idle"
  /\ arrived = pos
  /\ ~open
  /\ ReturnFrom("reset")
  /\ IF LinkRecovery THEN Reconnect ELSE UNCHANGED <<wireVars, arrived, pos>>
  /\ UNCHANGED <<from, shape>>

Loop == ReadSome \/ ReadFunction \/ ReadMeta \/ ReadRest \/ Timeout \/ Reset

Next == PeerWrites \/ PeerCloses \/ BytesArrive \/ Receive \/ Loop

Spec == Init /\ [][Next]_vars

\* The loop runs while it has something to do.  Nothing makes the bytes of a
\* message arrive.
Fairness == WF_vars(Loop)

FairSpec == Spec /\ Fairness

-----------------------------------------------------------------------------
(* Properties                                                              *)

TypeOK ==
  /\ \A f \in frames :
       /\ f \in [start : Nat, shape : Shapes, mine : BOOLEAN, intact : BOOLEAN]
       /\ FrameEnd(f) <= written
  /\ pos <= arrived /\ arrived <= written
  /\ step # "idle" => from <= pos
  /\ {pos, arrived, written, from, toRead} \subseteq Nat
  /\ open \in BOOLEAN
  /\ step \in {"idle", "function", "meta", "data"}
  /\ shape \in {Seen(s) : s \in Shapes} \cup GarbledShapes \cup {NoShape}
  /\ result \in {"none", "message", "ignored", "crc", "overlong", "timeout", "reset"}

\* However the bytes come and whatever they hold, the loop never asks recv for
\* more than the rest of the message buffer can take.
FitsBuffer == step # "idle" => (pos - from) + toRead <= Backend.maxAdu

\* A message that is returned is one frame of the peer, from its first byte to
\* its last: neither the tail of one that was given up nor two run together.
\* On TCP, where no checksum stands in the way, that takes the flush of the link
\* recovery and a line that settles before it.
Genuine ==
  result = "message" => \E f \in FramesAt(from) : FrameEnd(f) = pos

\* Between two receives of an undamaged line the next byte is the first of a
\* frame, after timeouts, resets and messages for others alike.
StartsAtFrame == step = "idle" => pos \in Boundaries

\* A receive that has begun to read returns, even if the message breaks off.
Returns == (step # "idle" /\ pos > from) ~> (step = "idle")
=============================================================================
