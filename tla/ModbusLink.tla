----------------------------- MODULE ModbusLink -----------------------------
(***************************************************************************)
(* A libmodbus client that calls one function after another over TCP:      *)
(* send_msg with its recovery loop, the wait for a confirmation with its   *)
(* timeout, check_confirmation, and the flushes and reconnections of the   *)
(* two recovery modes; and the server that takes the requests in turn.     *)
(*                                                                         *)
(* What travels are whole frames: how a frame is put together from bytes   *)
(* is the subject of ModbusReceive, what the server does to its memory     *)
(* that of ModbusReply.  A call is known by its number.                    *)
(*                                                                         *)
(* A send takes the whole request or none of it: one that takes a part     *)
(* (the end of send_msg) needs a send buffer full of requests nobody       *)
(* reads, and a client has one request under way.                          *)
(***************************************************************************)
EXTENDS ModbusMessages, Sequences

CONSTANTS
  Ops,              \* what the client asks for
  MaxTid,           \* the last transaction identifier before it is 0 again
  MaxCalls,         \* bound: calls made
  MaxFaults,        \* bound: answers that come too late, crashes, broken connections
  LinkRecovery,     \* MODBUS_ERROR_RECOVERY_LINK is set
  ProtocolRecovery  \* MODBUS_ERROR_RECOVERY_PROTOCOL is set

ASSUME LinkAssumption ==
  /\ Backend = Tcp
  /\ Ops \subseteq {req \in Request : Legal(req)}
  /\ MaxTid \in Nat
  /\ MaxCalls \in Nat
  /\ MaxFaults \in Nat
  /\ {LinkRecovery, ProtocolRecovery} \subseteq BOOLEAN

VARIABLES
  setsErrno,  \* socket calls that fail set errno, as they do not on Windows
  made,       \* the number of the last call
  op,         \* what it asks for
  step,       \* where it is: "idle", "sending", "waiting", "flushing", or
              \* "discarding", a flush that may change errno
  tid,        \* t_id of the client
  errno,      \* errno of the client
  outcome,    \* the last call that returned, and what it returned
  sock,       \* the socket: "open", "ended" by the peer, "broken", or "closed"
  serverUp,   \* the server runs
  toServer,   \* the requests the server has not taken yet
  toClient,   \* the answers the client has not read yet
  orphans,    \* requests left on connections that the client has closed
  fate,       \* fate[n]: what the server did about call n
  faults      \* faults so far

callVars == <<setsErrno, made, op, tid>>
clientVars == <<callVars, step, errno, outcome, sock>>
lineVars == <<toServer, toClient, orphans>>
serverVars == <<serverUp, fate>>
vars == <<clientVars, lineVars, serverVars, faults>>

NoOp == [fn |-> 0, nb |-> 0, nbWrite |-> 0]

RangeOf(s) == {s[i] : i \in 1 .. Len(s)}

InFlight == RangeOf(toServer) \cup RangeOf(toClient)

Init ==
  /\ setsErrno \in BOOLEAN
  /\ made = 0
  /\ op = NoOp
  /\ step = "idle"
  /\ tid = 0
  /\ errno = "none"
  /\ outcome = [n |-> 0, result |-> "none", by |-> 0]
  /\ sock = "open"
  /\ serverUp = TRUE
  /\ toServer = <<>>
  /\ toClient = <<>>
  /\ orphans = {}
  /\ fate = [n \in 1 .. MaxCalls |-> "unknown"]
  /\ faults = 0

-----------------------------------------------------------------------------
(* Pieces of the client                                                    *)

\* A call returns -1 with errno.
Fail(err) ==
  /\ step' = "idle"
  /\ outcome' = [n |-> made, result |-> err, by |-> 0]

\* modbus_close and modbus_connect, which restore errno or do not matter to it.
CloseAndConnect ==
  /\ sock' = IF serverUp THEN "open" ELSE "closed"
  /\ orphans' = orphans \cup RangeOf(toServer)
  /\ toServer' = <<>>
  /\ toClient' = <<>>

\* A plausible mistake: only a socket that is closed already is opened again.
ClosedOnly == {"EBADF"}

\* The errors that make the client connect again.
LinkErrors == {"EBADF", "ECONNRESET", "EPIPE"}

\* errno after a socket call failed: what the socket library says, or what was
\* there before.
SocketError(errors) == IF setsErrno THEN errors ELSE {errno}

\* While the server is still busy with a request, or its answer under way, a
\* timer of the client only runs out if the server is late.
Overtaken ==
  \/ toServer = <<>> /\ UNCHANGED faults
  \/ /\ toServer # <<>>
     /\ faults < MaxFaults
     /\ faults' = faults + 1

-----------------------------------------------------------------------------
(* send_msg                                                                *)

\* A plausible mistake: the identifier is counted on once more at its limit.
TidPastLimit == IF tid <= MaxTid THEN tid + 1 ELSE 0

\* The transaction identifier of the next request.
NextTid == IF tid < MaxTid THEN tid + 1 ELSE 0

\* One of modbus_read_bits and its kind is called: the request is built.  No
\* frame outlives so many calls that the identifiers repeat.
Call ==
  /\ step = "idle"
  /\ made < MaxCalls
  /\ \A f \in InFlight : made - f.n < MaxTid
  /\ \E o \in Ops : op' = o
  /\ made' = made + 1
  /\ tid' = NextTid
  /\ step' = "sending"
  /\ UNCHANGED <<setsErrno, errno, outcome, sock, lineVars, serverVars, faults>>

RequestFrame == [n |-> made, op |-> op, tid |-> tid]

\* A connection that the peer has ended takes one more write, and breaks.
SendSucceeds ==
  /\ step = "sending"
  /\ \/ sock = "open" /\ toServer' = Append(toServer, RequestFrame) /\ UNCHANGED sock
     \/ sock = "ended" /\ sock' = "broken" /\ UNCHANGED toServer
  /\ step' = "waiting"
  /\ UNCHANGED <<callVars, errno, outcome, toClient, orphans, serverVars, faults>>

\* send returns -1.  In recovery mode it is called again, after a reconnection
\* or, if errno names no error of the link, after a flush.
SendFails ==
  /\ step = "sending"
  /\ sock \in {"broken", "closed"}
  /\ errno' \in SocketError(IF sock = "closed" THEN {"EBADF"} ELSE {"EPIPE", "ECONNRESET"})
  /\ \/ /\ ~LinkRecovery
        /\ Fail(errno')
        /\ UNCHANGED <<sock, lineVars>>
     \/ /\ LinkRecovery
        /\ errno' \in LinkErrors
        /\ CloseAndConnect
        /\ UNCHANGED <<step, outcome>>
     \/ /\ LinkRecovery
        /\ errno' \notin LinkErrors
        /\ toClient' = <<>>
        /\ UNCHANGED <<step, outcome, sock, toServer, orphans>>
  /\ UNCHANGED <<callVars, serverVars, faults>>

-----------------------------------------------------------------------------
(* The confirmation                                                        *)

\* The number of values check_confirmation finds in a request, and in a reply.
RequestValues(req) ==
  IF req.fn \in ReadBitFunctions THEN BitBytes(req.nb)
  ELSE IF req.fn \in ReadRegisterFunctions \cup WriteMultipleFunctions
                       \cup {WRITE_AND_READ_REGISTERS} THEN req.nb
  ELSE 1

\* _modbus_tcp_pre_check_confirmation.
pre_check_confirmation(reply) == reply.tid = tid

LengthFits(reply) ==
  \/ op.fn = REPORT_SLAVE_ID
  \/ ResponseLength(reply.op) + Backend.checksum = compute_response_length_from_request(op)

\* A plausible mistake: any reply of the right length will do.
check_confirmation_by_length(reply) ==
  IF reply.exception
    THEN IF reply.op.fn = op.fn THEN "EMBX" ELSE "EMBBADEXC"
    ELSE IF LengthFits(reply) THEN "answered" ELSE "EMBBADDATA"

\* What check_confirmation makes of a reply.
check_confirmation(reply) ==
  IF ~pre_check_confirmation(reply) THEN "EMBBADDATA"
  ELSE IF reply.exception
    THEN IF reply.op.fn = op.fn THEN "EMBX" ELSE "EMBBADEXC"
  ELSE IF /\ LengthFits(reply)
          /\ reply.op.fn = op.fn
          /\ RequestValues(reply.op) = RequestValues(op)
    THEN "answered"
  ELSE "EMBBADDATA"

\* A plausible mistake: a reply that does not fit is dropped and that is all.
NeverFlushed(result) == FALSE

\* Only a reply that is neither an answer nor an exception calls for a flush.
FlushedAfter(result) == ProtocolRecovery /\ result = "EMBBADDATA"

Confirm ==
  /\ step = "waiting"
  /\ toClient # <<>>
  /\ LET reply == Head(toClient)
         result == check_confirmation(reply)
     IN  /\ errno' = IF result = "answered" THEN errno ELSE result
         /\ \/ /\ result = "answered"
               /\ step' = "idle"
               /\ outcome' = [n |-> made, result |-> result, by |-> reply.n]
            \/ /\ FlushedAfter(result)
               /\ step' = IF pre_check_confirmation(reply) THEN "flushing" ELSE "discarding"
               /\ UNCHANGED outcome
            \/ /\ result # "answered"
               /\ ~FlushedAfter(result)
               /\ Fail(result)
  /\ toClient' = Tail(toClient)
  /\ UNCHANGED <<callVars, sock, toServer, orphans, serverVars, faults>>

\* select times out.
Timeout ==
  /\ step = "waiting"
  /\ sock = "open"
  /\ toClient = <<>>
  /\ Overtaken
  /\ errno' = "ETIMEDOUT"
  /\ IF LinkRecovery
       THEN step' = "flushing" /\ UNCHANGED outcome
       ELSE Fail("ETIMEDOUT")
  /\ UNCHANGED <<callVars, sock, lineVars, serverVars>>

\* errno after the last recv of _modbus_tcp_flush, which a read, or the end of
\* the connection, leaves as it was.
AfterLastRecv ==
  {err \in {errno, "EAGAIN", "ECONNRESET"} :
     /\ err = errno => toClient # <<>> \/ sock # "open"
     /\ err = "EAGAIN" => sock = "open"
     /\ err = "ECONNRESET" => sock = "broken"}

\* The sleep of a response timeout is over: modbus_flush, and the call returns.
\* Only after a wrong identifier is errno not set again.
Flush ==
  /\ step \in {"flushing", "discarding"}
  /\ Overtaken
  /\ errno' \in IF step = "discarding" /\ setsErrno THEN AfterLastRecv ELSE {errno}
  /\ toClient' = <<>>
  /\ Fail(errno')
  /\ UNCHANGED <<callVars, sock, toServer, orphans, serverVars>>

\* recv returns 0, which sets errno, or fails.
Reset ==
  /\ step = "waiting"
  /\ sock \in {"ended", "broken"}
  /\ toClient = <<>>
  /\ errno' \in {"ECONNRESET"} \cup (IF sock = "broken" THEN SocketError({"ECONNRESET"}) ELSE {})
  /\ Fail(errno')
  /\ IF LinkRecovery /\ errno' \in LinkErrors
       THEN CloseAndConnect
       ELSE UNCHANGED <<sock, lineVars>>
  /\ UNCHANGED <<callVars, serverVars, faults>>

Client == SendSucceeds \/ SendFails \/ Confirm \/ Timeout \/ Flush \/ Reset

-----------------------------------------------------------------------------
(* The server and the line                                                 *)

\* What the server has done about call n, once it has decided as it does now.
Decided(n, verdict) ==
  [fate EXCEPT ![n] = IF @ = "unknown" THEN verdict ELSE "decided twice"]

\* modbus_receive and modbus_reply: the request is executed, or refused; a
\* refusal of some kinds throws away the requests behind it.
Serve ==
  /\ serverUp
  /\ toServer # <<>>
  /\ \E verdict \in {"done", "refused"} :
       LET req == Head(toServer)
           reply == [n |-> req.n, op |-> req.op, tid |-> req.tid,
                     exception |-> verdict = "refused"]
       IN  /\ fate' = Decided(req.n, verdict)
           /\ toServer' \in
                {Tail(toServer)} \cup (IF verdict = "refused" THEN {<<>>} ELSE {})
           /\ toClient' = IF sock = "open" THEN Append(toClient, reply) ELSE toClient
  /\ UNCHANGED <<clientVars, orphans, serverUp, faults>>

\* The server reads what was left on a connection it has not seen closed yet.
ServeOrphan ==
  /\ serverUp
  /\ \E req \in orphans, verdict \in {"done", "refused"} :
       /\ orphans' = orphans \ {req}
       /\ fate' = Decided(req.n, verdict)
  /\ UNCHANGED <<clientVars, toServer, toClient, serverUp, faults>>

Fault ==
  /\ faults < MaxFaults
  /\ faults' = faults + 1

\* The server stops, and the connection with it; answers that were under way
\* may still be read or be gone.
Crash ==
  /\ Fault
  /\ serverUp
  /\ serverUp' = FALSE
  /\ toServer' = <<>>
  /\ orphans' = {}
  /\ toClient' \in {toClient, <<>>}
  /\ IF sock = "open" THEN sock' \in {"ended", "broken"} ELSE UNCHANGED sock
  /\ UNCHANGED <<callVars, step, errno, outcome, fate>>

Restart ==
  /\ ~serverUp
  /\ serverUp' = TRUE
  /\ UNCHANGED <<clientVars, lineVars, fate, faults>>

\* The connection breaks between two running ends: what was under way in either
\* direction has arrived, or never will.
BreakConnection ==
  /\ Fault
  /\ sock = "open"
  /\ sock' = "broken"
  /\ toServer' \in {toServer, <<>>}
  /\ toClient' \in {toClient, <<>>}
  /\ UNCHANGED <<callVars, step, errno, outcome, orphans, serverVars>>

Next == Call \/ Client \/ Serve \/ ServeOrphan \/ Crash \/ Restart \/ BreakConnection

Spec == Init /\ [][Next]_vars

\* The client program goes on calling and the library goes on working; a server
\* serves, and one that has stopped is started again.  That a request is
\* executed rather than dropped in a flush is never taken for granted.
Fairness ==
  /\ WF_vars(Call)
  /\ WF_vars(Client)
  /\ WF_vars(Serve)
  /\ WF_vars(Restart)

FairSpec == Spec /\ Fairness

-----------------------------------------------------------------------------
(* Properties                                                              *)

Contract == INSTANCE ModbusCall WITH pending <- step # "idle"

RequestFrames == [n : 1 .. made, op : Ops, tid : 0 .. MaxTid]
ReplyFrames == [n : 1 .. made, op : Ops, tid : 0 .. MaxTid, exception : BOOLEAN]

TypeOK ==
  /\ setsErrno \in BOOLEAN
  /\ made \in 0 .. MaxCalls
  /\ op \in Ops \cup {NoOp}
  /\ step \in {"idle", "sending", "waiting", "flushing", "discarding"}
  /\ tid \in 0 .. MaxTid
  /\ errno \in Contract!Uncertain \cup {"none", "EMBX"}
  /\ sock \in {"open", "ended", "broken", "closed"}
  /\ serverUp \in BOOLEAN
  /\ toServer \in Seq(RequestFrames)
  /\ toClient \in Seq(ReplyFrames)
  /\ orphans \subseteq RequestFrames
  /\ fate \in [1 .. MaxCalls -> {"unknown", "done", "refused"}]
  /\ faults \in 0 .. MaxFaults

\* What a caller relies on: values that are returned are those of this very
\* call, an exception means it was not executed, and nothing is executed twice,
\* whatever is resent, late, flushed or left on an old connection.  On Windows
\* an exception may also be the errno of an earlier call.
KeepsContract == Contract!Spec

\* In recovery mode every call comes back, once the server is there again: the
\* loop that issues a write until it succeeds does not run for ever.  On Windows
\* that takes an error of the link left in errno from earlier: with any other one
\* the loop flushes a connection that is gone, and never connects again.
CallReturns ==
  (step # "idle" /\ (setsErrno \/ errno \in LinkErrors)) ~> (step = "idle")

\* The recovery modes bring client and server back into step: when the faults
\* are over one more call may fail, and then each is decided by the server
\* instead of reading the reply to the call before, where errno tells the loop
\* of send_msg when to connect again.
Resynchronises ==
  (setsErrno /\ faults = MaxFaults /\ made < MaxCalls - 1)
    ~> (outcome.n = MaxCalls /\ outcome.result \in {"answered", "EMBX"})
=============================================================================
