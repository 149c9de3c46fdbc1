-------------------------- MODULE ModbusLinkProofs --------------------------
(***************************************************************************)
(* ModbusLink implements ModbusCall over TCP, whether failed socket calls  *)
(* set errno or not, for any number of calls, faults and transaction       *)
(* identifiers and in every recovery mode.                                 *)
(*                                                                         *)
(* What makes it so: a request is in one place at most and undecided while *)
(* it is there; a reply tells what was decided; and the identifier of a    *)
(* frame is that of the client, less the calls made since.                 *)
(***************************************************************************)
EXTENDS ModbusLink, TLAPS

\* No two requests of a sequence belong to the same call.
Apart(s) == \A i, j \in 1 .. Len(s) : s[i].n = s[j].n => i = j

Started == step # "idle" => made >= 1 /\ op \in Ops

FlushReported == step \in {"flushing", "discarding"} => errno \in Contract!Uncertain

Undecided ==
  /\ \A f \in RangeOf(toServer) \cup orphans : fate[f.n] = "unknown"
  /\ \A n \in 1 .. MaxCalls : n > made => fate[n] = "unknown"

InOnePlace ==
  /\ Apart(toServer)
  /\ \A f \in RangeOf(toServer), g \in orphans : f.n # g.n
  /\ \A f, g \in orphans : f.n = g.n => f = g

Truthful ==
  \A f \in RangeOf(toClient) :
    fate[f.n] = IF f.exception THEN "refused" ELSE "done"

NotSentYet ==
  step = "sending" =>
    /\ fate[made] = "unknown"
    /\ \A f \in InFlight \cup orphans : f.n # made

\* The identifier call n was made with, if it is not too long ago.
TidOf(n) ==
  IF tid >= made - n THEN tid - (made - n) ELSE tid - (made - n) + MaxTid + 1

Identified == \A f \in InFlight : made - f.n <= MaxTid /\ f.tid = TidOf(f.n)

Inv ==
  /\ TypeOK /\ Started /\ FlushReported
  /\ Undecided /\ InOnePlace /\ Truthful /\ NotSentYet

-----------------------------------------------------------------------------
(* Sequences                                                               *)

LEMMA EmptyFacts == RangeOf(<<>>) = {} /\ Apart(<<>>)
  BY DEF RangeOf, Apart

LEMMA AppendFacts ==
  ASSUME NEW S, NEW s \in Seq(S), NEW e \in S
  PROVE  /\ Append(s, e) \in Seq(S)
         /\ RangeOf(Append(s, e)) = RangeOf(s) \cup {e}
         /\ Apart(s) /\ (\A f \in RangeOf(s) : f.n # e.n) => Apart(Append(s, e))
  <1>1. /\ Len(Append(s, e)) = Len(s) + 1 /\ Len(s) \in Nat
        /\ \A i \in 1 .. Len(s) : Append(s, e)[i] = s[i]
        /\ Append(s, e)[Len(s) + 1] = e
        /\ Append(s, e) \in Seq(S)
    OBVIOUS
  <1>2. \A i \in 1 .. Len(s) + 1 : i \in 1 .. Len(s) \/ i = Len(s) + 1
    BY <1>1
  <1>3. RangeOf(Append(s, e)) = RangeOf(s) \cup {e}
    <2>1. ASSUME NEW x \in RangeOf(Append(s, e)) PROVE x \in RangeOf(s) \cup {e}
      BY <1>1, <1>2, <2>1 DEF RangeOf
    <2>2. ASSUME NEW x \in RangeOf(s) PROVE x \in RangeOf(Append(s, e))
      <3>1. PICK i \in 1 .. Len(s) : x = s[i]
        BY <2>2 DEF RangeOf
      <3>2. i \in 1 .. Len(Append(s, e)) /\ x = Append(s, e)[i]
        BY <1>1, <3>1
      <3> QED BY <3>2 DEF RangeOf
    <2>3. e \in RangeOf(Append(s, e))
      <3>1. Len(s) + 1 \in 1 .. Len(Append(s, e))
        BY <1>1
      <3> QED BY <1>1, <3>1 DEF RangeOf
    <2> QED BY <2>1, <2>2, <2>3
  <1>4. ASSUME Apart(s), \A f \in RangeOf(s) : f.n # e.n
        PROVE  Apart(Append(s, e))
    <2>1. \A i \in 1 .. Len(s) : s[i] \in RangeOf(s)
      BY DEF RangeOf
    <2> QED BY <1>1, <1>2, <1>4, <2>1 DEF Apart
  <1> QED BY <1>1, <1>3, <1>4

LEMMA TailFacts ==
  ASSUME NEW S, NEW s \in Seq(S), s # <<>>
  PROVE  /\ Tail(s) \in Seq(S) /\ Head(s) \in S /\ Head(s) \in RangeOf(s)
         /\ RangeOf(Tail(s)) \subseteq RangeOf(s)
         /\ Apart(s) => Apart(Tail(s)) /\ \A f \in RangeOf(Tail(s)) : f.n # Head(s).n
  <1>1. /\ Len(s) \in Nat /\ Len(s) >= 1 /\ Len(Tail(s)) = Len(s) - 1
        /\ Head(s) = s[1] /\ Tail(s) \in Seq(S) /\ Head(s) \in S
        /\ \A i \in 1 .. Len(s) - 1 : Tail(s)[i] = s[i + 1]
    OBVIOUS
  <1>2. \A i \in 1 .. Len(s) - 1 : i + 1 \in 1 .. Len(s) /\ i + 1 # 1
    BY <1>1
  <1>3. 1 \in 1 .. Len(s)
    BY <1>1
  <1>4. RangeOf(Tail(s)) \subseteq RangeOf(s)
    BY <1>1, <1>2 DEF RangeOf
  <1>5. ASSUME Apart(s)
        PROVE  Apart(Tail(s)) /\ \A f \in RangeOf(Tail(s)) : f.n # Head(s).n
    <2>1. \A i, j \in 1 .. Len(s) - 1 : i + 1 = j + 1 => i = j
      BY <1>1
    <2>2. Apart(Tail(s))
      BY <1>1, <1>2, <1>5, <2>1 DEF Apart
    <2>3. \A f \in RangeOf(Tail(s)) : f.n # Head(s).n
      BY <1>1, <1>2, <1>3, <1>5 DEF Apart, RangeOf
    <2> QED BY <2>2, <2>3
  <1> QED BY <1>1, <1>3, <1>4, <1>5 DEF RangeOf

-----------------------------------------------------------------------------
(* What a step does to the frames                                          *)

\* A request is sent.
Sent ==
  /\ step = "sending"
  /\ toServer' = Append(toServer, RequestFrame)
  /\ step' = "waiting"
  /\ UNCHANGED <<made, op, tid, fate, toClient, orphans>>

\* Frames are taken, dropped or orphaned, and nothing is decided.
Shrunk ==
  /\ UNCHANGED <<made, op, tid, fate>>
  /\ step' = "sending" => step = "sending"
  /\ step' # "idle" => step # "idle"
  /\ toServer' \in {toServer, <<>>} \/ (toServer # <<>> /\ toServer' = Tail(toServer))
  /\ toClient' \in {toClient, <<>>} \/ (toClient # <<>> /\ toClient' = Tail(toClient))
  /\ \/ orphans' \in {orphans, {}}
     \/ orphans' = orphans \cup RangeOf(toServer) /\ toServer' = <<>>

LEMMA Steps ==
  ASSUME [Next]_vars
  PROVE  Call \/ Sent \/ Serve \/ ServeOrphan \/ Shrunk
  <1> USE DEF Shrunk, callVars, lineVars, serverVars, clientVars
  <1>1. CASE UNCHANGED vars
    BY <1>1 DEF vars
  <1>2. CASE Call \/ Serve \/ ServeOrphan
    BY <1>2
  <1>3. CASE SendSucceeds
    BY <1>3 DEF SendSucceeds, Sent
  <1>4. CASE SendFails
    BY <1>4 DEF SendFails, Fail, CloseAndConnect
  <1>5. CASE Confirm
    BY <1>5 DEF Confirm, Fail
  <1>6. CASE Timeout \/ Flush
    BY <1>6 DEF Timeout, Flush, Fail
  <1>7. CASE Reset
    BY <1>7 DEF Reset, Fail, CloseAndConnect
  <1>8. CASE Crash \/ Restart \/ BreakConnection
    BY <1>8 DEF Crash, Restart, BreakConnection, Fault
  <1> QED BY <1>1, <1>2, <1>3, <1>4, <1>5, <1>6, <1>7, <1>8 DEF Next, Client

\* What is left after a step was there before.
LEMMA ShrunkFacts ==
  ASSUME TypeOK, Shrunk
  PROVE  /\ toServer' \in Seq(RequestFrames) /\ toClient' \in Seq(ReplyFrames)
         /\ orphans' \subseteq RequestFrames
         /\ RangeOf(toServer') \subseteq RangeOf(toServer)
         /\ RangeOf(toClient') \subseteq RangeOf(toClient)
         /\ orphans' \subseteq orphans \cup RangeOf(toServer)
         /\ Apart(toServer) => Apart(toServer')
         /\ toServer' = <<>> \/ orphans' \subseteq orphans
  <1>1. toServer \in Seq(RequestFrames) /\ toClient \in Seq(ReplyFrames)
        /\ orphans \subseteq RequestFrames
    BY DEF TypeOK
  <1>2. \A S : \A t \in Seq(S) : RangeOf(t) \subseteq S
    BY DEF RangeOf
  <1>3. <<>> \in Seq(RequestFrames) /\ <<>> \in Seq(ReplyFrames)
    OBVIOUS
  <1>4. toServer # <<>> =>
          /\ Tail(toServer) \in Seq(RequestFrames)
          /\ RangeOf(Tail(toServer)) \subseteq RangeOf(toServer)
          /\ Apart(toServer) => Apart(Tail(toServer))
    BY <1>1, TailFacts
  <1>5. toClient # <<>> =>
          /\ Tail(toClient) \in Seq(ReplyFrames)
          /\ RangeOf(Tail(toClient)) \subseteq RangeOf(toClient)
    BY <1>1, TailFacts
  <1> QED BY <1>1, <1>2, <1>3, <1>4, <1>5, EmptyFacts DEF Shrunk

\* Serving takes the first request, and sometimes the rest, and may answer.
LEMMA ServeFacts ==
  ASSUME TypeOK, Serve
  PROVE  \E verdict \in {"done", "refused"} :
           LET req == Head(toServer)
               reply == [n |-> req.n, op |-> req.op, tid |-> req.tid,
                         exception |-> verdict = "refused"]
           IN  /\ req \in RequestFrames /\ req \in RangeOf(toServer)
               /\ reply \in ReplyFrames
               /\ fate' = Decided(req.n, verdict)
               /\ toServer' \in Seq(RequestFrames)
               /\ RangeOf(toServer') \subseteq RangeOf(toServer)
               /\ Apart(toServer) =>
                    Apart(toServer') /\ \A f \in RangeOf(toServer') : f.n # req.n
               /\ toClient' \in Seq(ReplyFrames)
               /\ RangeOf(toClient') \subseteq RangeOf(toClient) \cup {reply}
               /\ UNCHANGED <<made, op, tid, step, orphans>>
  <1> PICK verdict \in {"done", "refused"} :
           LET req == Head(toServer)
               reply == [n |-> req.n, op |-> req.op, tid |-> req.tid,
                         exception |-> verdict = "refused"]
           IN  /\ fate' = Decided(req.n, verdict)
               /\ toServer' \in
                    {Tail(toServer)} \cup (IF verdict = "refused" THEN {<<>>} ELSE {})
               /\ toClient' = IF sock = "open" THEN Append(toClient, reply) ELSE toClient
    BY DEF Serve
  <1> DEFINE req == Head(toServer)
             reply == [n |-> req.n, op |-> req.op, tid |-> req.tid,
                       exception |-> verdict = "refused"]
  <1>1. toServer \in Seq(RequestFrames) /\ toClient \in Seq(ReplyFrames) /\ toServer # <<>>
    BY DEF TypeOK, Serve
  <1>2. /\ Tail(toServer) \in Seq(RequestFrames) /\ req \in RequestFrames
        /\ req \in RangeOf(toServer)
        /\ RangeOf(Tail(toServer)) \subseteq RangeOf(toServer)
        /\ Apart(toServer) => Apart(Tail(toServer)) /\ \A f \in RangeOf(Tail(toServer)) : f.n # req.n
    BY <1>1, TailFacts
  <1>3. reply \in ReplyFrames
    BY <1>2 DEF RequestFrames, ReplyFrames
  <1>4. /\ Append(toClient, reply) \in Seq(ReplyFrames)
        /\ RangeOf(Append(toClient, reply)) = RangeOf(toClient) \cup {reply}
    BY <1>1, <1>3, AppendFacts
  <1>5. <<>> \in Seq(RequestFrames)
    OBVIOUS
  <1>6. UNCHANGED <<made, op, tid, step, orphans>>
    BY DEF Serve, clientVars, callVars
  <1> HIDE DEF reply, req
  <1>7. /\ toServer' = Tail(toServer) \/ toServer' = <<>>
        /\ toClient' = Append(toClient, reply) \/ toClient' = toClient
        /\ fate' = Decided(req.n, verdict)
    BY DEF reply, req
  <1>8. /\ toServer' \in Seq(RequestFrames)
        /\ RangeOf(toServer') \subseteq RangeOf(toServer)
        /\ Apart(toServer) => Apart(toServer') /\ \A f \in RangeOf(toServer') : f.n # req.n
    BY <1>2, <1>5, <1>7, EmptyFacts
  <1>9. toClient' \in Seq(ReplyFrames) /\ RangeOf(toClient') \subseteq RangeOf(toClient) \cup {reply}
    BY <1>1, <1>4, <1>7
  <1> QED BY <1>2, <1>3, <1>6, <1>7, <1>8, <1>9 DEF reply, req

-----------------------------------------------------------------------------
(* Types                                                                   *)

LEMMA LargerSeq == \A A, B : A \subseteq B => Seq(A) \subseteq Seq(B)
  OBVIOUS

LEMMA FrameSets ==
  ASSUME made \in Nat, made' \in Nat, made' >= made
  PROVE  /\ RequestFrames \subseteq RequestFrames' /\ ReplyFrames \subseteq ReplyFrames'
         /\ Seq(RequestFrames) \subseteq Seq(RequestFrames')
         /\ Seq(ReplyFrames) \subseteq Seq(ReplyFrames')
  <1>1. 1 .. made \subseteq 1 .. made'
    OBVIOUS
  <1>2. RequestFrames \subseteq RequestFrames' /\ ReplyFrames \subseteq ReplyFrames'
    BY <1>1 DEF RequestFrames, ReplyFrames
  <1> QED BY <1>2, LargerSeq

LEMMA FrameTypes ==
  ASSUME Inv, [Next]_vars
  PROVE  /\ toServer' \in Seq(RequestFrames') /\ toClient' \in Seq(ReplyFrames')
         /\ orphans' \subseteq RequestFrames'
  <1>1. /\ made \in Nat /\ toServer \in Seq(RequestFrames)
        /\ toClient \in Seq(ReplyFrames) /\ orphans \subseteq RequestFrames
    BY LinkAssumption DEF Inv, TypeOK
  <1>2. made' = made => RequestFrames' = RequestFrames /\ ReplyFrames' = ReplyFrames
    BY DEF RequestFrames, ReplyFrames
  <1>3. CASE Call
    <2>1. made' = made + 1 /\ UNCHANGED <<toServer, toClient, orphans>>
      BY <1>3 DEF Call, lineVars
    <2> QED BY <1>1, <2>1, FrameSets
  <1>4. CASE Sent
    <2>1. RequestFrame \in RequestFrames
      BY <1>4 DEF Sent, RequestFrame, RequestFrames, Inv, Started, TypeOK
    <2>2. Append(toServer, RequestFrame) \in Seq(RequestFrames)
      BY <1>1, <2>1, AppendFacts
    <2> QED BY <1>1, <1>2, <1>4, <2>2 DEF Sent
  <1>5. CASE Serve
    <2>1. TypeOK
      BY DEF Inv
    <2> QED BY <1>1, <1>2, <1>5, <2>1, ServeFacts
  <1>6. CASE ServeOrphan
    BY <1>1, <1>2, <1>6 DEF ServeOrphan, clientVars, callVars
  <1>7. CASE Shrunk
    <2>1. TypeOK
      BY DEF Inv
    <2>2. made' = made
      BY <1>7 DEF Shrunk
    <2> QED BY <1>2, <1>7, <2>1, <2>2, ShrunkFacts
  <1> QED BY <1>3, <1>4, <1>5, <1>6, <1>7, Steps

\* A call is decided once: what is taken to be served was undecided.
LEMMA DecidedOnce ==
  ASSUME Inv, NEW f \in RangeOf(toServer) \cup orphans, NEW verdict \in {"done", "refused"}
  PROVE  /\ f.n \in 1 .. MaxCalls /\ f.n \in 1 .. made /\ fate[f.n] = "unknown"
         /\ Decided(f.n, verdict) = [fate EXCEPT ![f.n] = verdict]
         /\ Decided(f.n, verdict)[f.n] = verdict
         /\ \A n \in 1 .. MaxCalls : n # f.n => Decided(f.n, verdict)[n] = fate[n]
         /\ Decided(f.n, verdict) \in [1 .. MaxCalls -> {"unknown", "done", "refused"}]
  <1>1. RangeOf(toServer) \subseteq RequestFrames
    BY DEF Inv, TypeOK, RangeOf
  <1>2. f.n \in 1 .. made /\ made \in 0 .. MaxCalls
    BY <1>1 DEF Inv, TypeOK, RequestFrames
  <1>3. fate[f.n] = "unknown"
    BY DEF Inv, Undecided
  <1>4. fate \in [1 .. MaxCalls -> {"unknown", "done", "refused"}]
    BY DEF Inv, TypeOK
  <1>5. Decided(f.n, verdict) = [fate EXCEPT ![f.n] = verdict]
    BY <1>3, <1>4 DEF Decided
  <1>6. MaxCalls \in Nat
    BY LinkAssumption
  <1> QED BY <1>2, <1>3, <1>4, <1>5, <1>6

LEMMA FateType ==
  ASSUME Inv, [Next]_vars
  PROVE  fate' \in [1 .. MaxCalls -> {"unknown", "done", "refused"}]
  <1>1. TypeOK
    BY DEF Inv
  <1>2. CASE Serve
    <2>1. PICK verdict \in {"done", "refused"} :
            Head(toServer) \in RangeOf(toServer) /\ fate' = Decided(Head(toServer).n, verdict)
      BY <1>1, <1>2, ServeFacts
    <2>2. Head(toServer) \in RangeOf(toServer) \cup orphans
      BY <2>1
    <2> QED BY <2>1, <2>2, DecidedOnce
  <1>3. CASE ServeOrphan
    <2>1. PICK req \in orphans, verdict \in {"done", "refused"} : fate' = Decided(req.n, verdict)
      BY <1>3 DEF ServeOrphan
    <2>2. req \in RangeOf(toServer) \cup orphans
      OBVIOUS
    <2> QED BY <2>1, <2>2, DecidedOnce
  <1>4. CASE Call \/ Sent \/ Shrunk
    BY <1>1, <1>4 DEF TypeOK, Call, Sent, Shrunk, serverVars
  <1> QED BY <1>2, <1>3, <1>4, Steps

LEMMA ClientTypes ==
  ASSUME Inv, [Next]_vars
  PROVE  /\ setsErrno' \in BOOLEAN /\ made' \in 0 .. MaxCalls /\ op' \in Ops \cup {NoOp}
         /\ step' \in {"idle", "sending", "waiting", "flushing", "discarding"}
         /\ tid' \in 0 .. MaxTid
         /\ errno' \in Contract!Uncertain \cup {"none", "EMBX"}
         /\ sock' \in {"open", "ended", "broken", "closed"}
         /\ serverUp' \in BOOLEAN /\ faults' \in 0 .. MaxFaults
         /\ Started' /\ FlushReported'
  <1> USE LinkAssumption
      DEF Inv, TypeOK, Started, FlushReported, Contract!Uncertain, callVars, clientVars,
          lineVars, serverVars
  <1>1. CASE UNCHANGED vars
    BY <1>1 DEF vars
  <1>2. CASE Call
    BY <1>2 DEF Call, NextTid
  <1>3. CASE SendSucceeds
    BY <1>3 DEF SendSucceeds
  <1>4. CASE SendFails
    BY <1>4 DEF SendFails, Fail, CloseAndConnect, SocketError, LinkErrors
  <1>5. CASE Confirm
    <2>1. check_confirmation(Head(toClient)) \in {"answered", "EMBX", "EMBBADEXC", "EMBBADDATA"}
      BY DEF check_confirmation
    <2>2. FlushedAfter(check_confirmation(Head(toClient)))
            => check_confirmation(Head(toClient)) = "EMBBADDATA"
      BY DEF FlushedAfter
    <2> QED BY <1>5, <2>1, <2>2 DEF Confirm, Fail
  <1>6. CASE Timeout
    BY <1>6 DEF Timeout, Fail, Overtaken
  <1>7. CASE Flush
    BY <1>7 DEF Flush, Fail, Overtaken, AfterLastRecv
  <1>8. CASE Reset
    BY <1>8 DEF Reset, Fail, CloseAndConnect, SocketError
  <1>9. CASE Serve
    BY <1>9 DEF Serve
  <1>10. CASE ServeOrphan
    BY <1>10 DEF ServeOrphan
  <1>11. CASE Crash
    <2>1. sock' \in {"open", "ended", "broken", "closed"} /\ serverUp' \in BOOLEAN
      BY <1>11 DEF Crash
    <2>2. faults' \in 0 .. MaxFaults
      BY <1>11 DEF Crash, Fault
    <2>3. UNCHANGED <<setsErrno, made, op, tid, step, errno>>
      BY <1>11 DEF Crash
    <2> QED BY <2>1, <2>2, <2>3
  <1>12. CASE Restart
    BY <1>12 DEF Restart
  <1>13. CASE BreakConnection
    BY <1>13 DEF BreakConnection, Fault
  <1> QED BY <1>1, <1>2, <1>3, <1>4, <1>5, <1>6, <1>7, <1>8, <1>9, <1>10, <1>11, <1>12,
             <1>13 DEF Next, Client

-----------------------------------------------------------------------------
(* The invariant                                                           *)

\* Where the frames are, by kind of step.
LEMMA Frames ==
  ASSUME Inv
  PROVE  /\ \A f \in RangeOf(toServer) \cup orphans : f.n \in 1 .. made
         /\ \A f \in RangeOf(toClient) : f.n \in 1 .. made /\ f.exception \in BOOLEAN
         /\ made \in 0 .. MaxCalls /\ MaxCalls \in Nat
  <1>1. /\ RangeOf(toServer) \subseteq RequestFrames
        /\ RangeOf(toClient) \subseteq ReplyFrames
        /\ orphans \subseteq RequestFrames
    BY DEF Inv, TypeOK, RangeOf
  <1> QED BY <1>1, LinkAssumption DEF RequestFrames, ReplyFrames, Inv, TypeOK

LEMMA SentFacts ==
  ASSUME Inv, Sent
  PROVE  /\ RangeOf(toServer') = RangeOf(toServer) \cup {RequestFrame}
         /\ RequestFrame.n = made /\ fate[made] = "unknown"
         /\ \A f \in InFlight \cup orphans : f.n # made
         /\ Apart(toServer')
  <1>1. RequestFrame \in RequestFrames /\ RequestFrame.n = made /\ toServer \in Seq(RequestFrames)
    BY LinkAssumption DEF Sent, RequestFrame, RequestFrames, Inv, Started, TypeOK
  <1>2. NotSentYet /\ Apart(toServer) /\ step = "sending"
    BY DEF Inv, InOnePlace, Sent
  <1>3. \A f \in RangeOf(toServer) : f.n # RequestFrame.n
    BY <1>1, <1>2 DEF NotSentYet, InFlight
  <1> QED BY <1>1, <1>2, <1>3, AppendFacts DEF Sent, NotSentYet

LEMMA UndecidedStep ==
  ASSUME Inv, [Next]_vars
  PROVE  Undecided'
  <1>1. TypeOK /\ Undecided /\ InOnePlace /\ NotSentYet
    BY DEF Inv
  <1>2. CASE Call
    BY <1>1, <1>2, Frames DEF Call, Undecided, lineVars, serverVars
  <1>3. CASE Sent
    <2>1. UNCHANGED <<made, fate, orphans>>
      BY <1>3 DEF Sent
    <2> QED BY <1>1, <1>3, <2>1, SentFacts DEF Undecided
  <1>4. CASE Serve
    <2>1. PICK verdict \in {"done", "refused"} :
            /\ Head(toServer) \in RangeOf(toServer) /\ fate' = Decided(Head(toServer).n, verdict)
            /\ RangeOf(toServer') \subseteq RangeOf(toServer)
            /\ \A f \in RangeOf(toServer') : f.n # Head(toServer).n
            /\ UNCHANGED <<made, orphans>>
      BY <1>1, <1>4, ServeFacts DEF InOnePlace
    <2> DEFINE req == Head(toServer)
    <2>2. /\ req.n \in 1 .. made
          /\ \A n \in 1 .. MaxCalls : n # req.n => fate'[n] = fate[n]
      <3>1. req \in RangeOf(toServer) \cup orphans
        BY <2>1
      <3> HIDE DEF req
      <3>2. /\ req.n \in 1 .. made
            /\ \A n \in 1 .. MaxCalls : n # req.n => Decided(req.n, verdict)[n] = fate[n]
        BY <3>1, DecidedOnce
      <3> QED BY <2>1, <3>2 DEF req
    <2>3. \A f \in RangeOf(toServer') \cup orphans' : f.n # req.n
      BY <1>1, <2>1 DEF InOnePlace
    <2>4. \A f \in RangeOf(toServer') \cup orphans' :
            f.n \in 1 .. MaxCalls /\ fate[f.n] = "unknown"
      BY <1>1, <2>1, Frames DEF Undecided
    <2>5. \A n \in 1 .. MaxCalls : n > made => n # req.n
      BY <2>2, Frames
    <2> HIDE DEF req
    <2> QED BY <1>1, <2>1, <2>2, <2>3, <2>4, <2>5 DEF Undecided
  <1>5. CASE ServeOrphan
    <2>1. PICK req \in orphans, verdict \in {"done", "refused"} :
            /\ orphans' = orphans \ {req} /\ fate' = Decided(req.n, verdict)
            /\ UNCHANGED <<made, toServer>>
      BY <1>5 DEF ServeOrphan, clientVars, callVars
    <2>2. /\ req.n \in 1 .. made
          /\ \A n \in 1 .. MaxCalls : n # req.n => fate'[n] = fate[n]
      <3>1. req \in RangeOf(toServer) \cup orphans
        BY <2>1
      <3>2. /\ req.n \in 1 .. made
            /\ \A n \in 1 .. MaxCalls : n # req.n => Decided(req.n, verdict)[n] = fate[n]
        BY <3>1, DecidedOnce
      <3> QED BY <2>1, <3>2
    <2>3. \A f \in RangeOf(toServer') \cup orphans' : f.n # req.n
      BY <1>1, <2>1 DEF InOnePlace
    <2>4. \A f \in RangeOf(toServer') \cup orphans' :
            f.n \in 1 .. MaxCalls /\ fate[f.n] = "unknown"
      BY <1>1, <2>1, Frames DEF Undecided
    <2>5. \A n \in 1 .. MaxCalls : n > made => n # req.n
      BY <2>2, Frames
    <2> QED BY <1>1, <2>1, <2>2, <2>3, <2>4, <2>5 DEF Undecided
  <1>6. CASE Shrunk
    <2>1. UNCHANGED <<made, fate>>
      BY <1>6 DEF Shrunk
    <2>2. RangeOf(toServer') \cup orphans' \subseteq RangeOf(toServer) \cup orphans
      BY <1>1, <1>6, ShrunkFacts
    <2> QED BY <1>1, <2>1, <2>2 DEF Undecided
  <1> QED BY <1>2, <1>3, <1>4, <1>5, <1>6, Steps

LEMMA InOnePlaceStep ==
  ASSUME Inv, [Next]_vars
  PROVE  InOnePlace'
  <1>1. TypeOK /\ InOnePlace
    BY DEF Inv
  <1>2. CASE Call
    BY <1>1, <1>2 DEF Call, InOnePlace, lineVars, Apart, RangeOf
  <1>3. CASE Sent
    <2>1. orphans' = orphans
      BY <1>3 DEF Sent
    <2>2. \A f \in RangeOf(toServer'), g \in orphans' : f.n # g.n
      BY <1>1, <1>3, <2>1, SentFacts DEF InOnePlace
    <2>3. Apart(toServer)'
      BY <1>3, SentFacts DEF Apart
    <2> QED BY <1>1, <2>1, <2>2, <2>3 DEF InOnePlace, RangeOf
  <1>4. CASE Serve
    <2>1. /\ RangeOf(toServer') \subseteq RangeOf(toServer) /\ orphans' = orphans
          /\ Apart(toServer')
      BY <1>1, <1>4, ServeFacts DEF InOnePlace
    <2>2. Apart(toServer)'
      BY <2>1 DEF Apart
    <2> QED BY <1>1, <2>1, <2>2 DEF InOnePlace, RangeOf
  <1>5. CASE ServeOrphan
    <2>1. orphans' \subseteq orphans /\ toServer' = toServer
      BY <1>5 DEF ServeOrphan
    <2> QED BY <1>1, <2>1 DEF InOnePlace, RangeOf, Apart
  <1>6. CASE Shrunk
    <2>1. /\ RangeOf(toServer') \subseteq RangeOf(toServer)
          /\ orphans' \subseteq orphans \cup RangeOf(toServer)
          /\ Apart(toServer')
          /\ toServer' = <<>> \/ orphans' \subseteq orphans
      BY <1>1, <1>6, ShrunkFacts DEF InOnePlace
    <2>2. Apart(toServer)'
      BY <2>1 DEF Apart
    <2>3. \A f \in RangeOf(toServer'), g \in orphans' : f.n # g.n
      <3>1. CASE toServer' = <<>>
        <4>1. RangeOf(toServer') = {}
          BY <3>1, EmptyFacts
        <4> QED BY <4>1
      <3>2. CASE orphans' \subseteq orphans
        BY <1>1, <2>1, <3>2 DEF InOnePlace
      <3> QED BY <2>1, <3>1, <3>2
    <2>4. \A f, g \in RangeOf(toServer) : f.n = g.n => f = g
      BY <1>1 DEF InOnePlace, Apart, RangeOf
    <2>5. \A f, g \in orphans' : f.n = g.n => f = g
      BY <1>1, <2>1, <2>4 DEF InOnePlace
    <2> QED BY <2>2, <2>3, <2>5 DEF InOnePlace, RangeOf
  <1> QED BY <1>2, <1>3, <1>4, <1>5, <1>6, Steps

\* What a step that decides about call n does to the fates.
LEMMA Deciding ==
  ASSUME Inv, Serve \/ ServeOrphan
  PROVE  \E n \in 1 .. made, verdict \in {"done", "refused"} :
           /\ n \in 1 .. MaxCalls /\ fate[n] = "unknown" /\ fate'[n] = verdict
           /\ fate' = [fate EXCEPT ![n] = verdict]
           /\ \A k \in 1 .. MaxCalls : k # n => fate'[k] = fate[k]
           /\ \E f \in RangeOf(toServer) \cup orphans : f.n = n
           /\ Serve => \A f \in RangeOf(toClient') :
                         \/ f \in RangeOf(toClient)
                         \/ f.n = n /\ f.exception = (verdict = "refused")
           /\ UNCHANGED <<made, op, tid, step>>
           /\ RangeOf(toServer') \cup orphans' \subseteq RangeOf(toServer) \cup orphans
           /\ ServeOrphan => UNCHANGED <<toServer, toClient>>
  <1>1. TypeOK
    BY DEF Inv
  <1>2. PICK req \in RangeOf(toServer) \cup orphans, verdict \in {"done", "refused"} :
          /\ fate' = Decided(req.n, verdict)
          /\ Serve => \A f \in RangeOf(toClient') :
                        \/ f \in RangeOf(toClient)
                        \/ f.n = req.n /\ f.exception = (verdict = "refused")
          /\ UNCHANGED <<made, op, tid, step>>
          /\ RangeOf(toServer') \cup orphans' \subseteq RangeOf(toServer) \cup orphans
          /\ ServeOrphan => UNCHANGED <<toServer, toClient>>
    <2>1. CASE Serve
      <3>1. ServeOrphan => UNCHANGED <<toServer, toClient>>
        BY DEF ServeOrphan
      <3> QED BY <1>1, <2>1, <3>1, ServeFacts
    <2>2. CASE ServeOrphan
      BY <2>2 DEF ServeOrphan, clientVars, callVars
    <2> QED BY <2>1, <2>2
  <1>3. /\ req.n \in 1 .. made /\ req.n \in 1 .. MaxCalls /\ fate[req.n] = "unknown"
        /\ Decided(req.n, verdict) = [fate EXCEPT ![req.n] = verdict]
        /\ Decided(req.n, verdict)[req.n] = verdict
        /\ \A k \in 1 .. MaxCalls : k # req.n => Decided(req.n, verdict)[k] = fate[k]
    BY DecidedOnce
  <1>4. /\ fate'[req.n] = verdict /\ fate' = [fate EXCEPT ![req.n] = verdict]
        /\ \A k \in 1 .. MaxCalls : k # req.n => fate'[k] = fate[k]
    BY <1>2, <1>3
  <1> QED BY <1>2, <1>3, <1>4

LEMMA TruthfulStep ==
  ASSUME Inv, [Next]_vars
  PROVE  Truthful'
  <1>1. TypeOK /\ Truthful
    BY DEF Inv
  <1>2. CASE Serve \/ ServeOrphan
    <2>1. PICK n \in 1 .. made, verdict \in {"done", "refused"} :
            /\ fate[n] = "unknown" /\ fate'[n] = verdict
            /\ \A k \in 1 .. MaxCalls : k # n => fate'[k] = fate[k]
            /\ Serve => \A f \in RangeOf(toClient') :
                         \/ f \in RangeOf(toClient)
                         \/ f.n = n /\ f.exception = (verdict = "refused")
            /\ ServeOrphan => toClient' = toClient
      BY <1>2, Deciding
    <2>2. ASSUME NEW f \in RangeOf(toClient)
          PROVE  fate'[f.n] = IF f.exception THEN "refused" ELSE "done"
      <3>1. f.n # n
        BY <1>1, <2>1 DEF Truthful
      <3>2. f.n \in 1 .. MaxCalls
        BY Frames
      <3> QED BY <1>1, <2>1, <3>1, <3>2 DEF Truthful
    <2>3. \A f : f.n = n /\ f.exception = (verdict = "refused")
                   => fate'[f.n] = IF f.exception THEN "refused" ELSE "done"
      BY <2>1
    <2> QED BY <1>2, <2>1, <2>2, <2>3 DEF Truthful
  <1>3. CASE Call \/ Sent
    BY <1>1, <1>3 DEF Call, Sent, Truthful, lineVars, serverVars
  <1>4. CASE Shrunk
    <2>1. fate' = fate /\ RangeOf(toClient') \subseteq RangeOf(toClient)
      BY <1>1, <1>4, ShrunkFacts DEF Shrunk
    <2> QED BY <1>1, <2>1 DEF Truthful
  <1> QED BY <1>2, <1>3, <1>4, Steps

LEMMA NotSentYetStep ==
  ASSUME Inv, [Next]_vars
  PROVE  NotSentYet'
  <1> SUFFICES ASSUME step' = "sending"
               PROVE  /\ fate'[made'] = "unknown"
                      /\ \A f \in RangeOf(toServer') \cup RangeOf(toClient') \cup orphans' :
                           f.n # made'
    BY DEF NotSentYet, InFlight, RangeOf
  <1>1. TypeOK /\ NotSentYet /\ Undecided
    BY DEF Inv
  <1>2. CASE Call
    <2>1. /\ made' = made + 1 /\ made' \in 1 .. MaxCalls
          /\ UNCHANGED <<toServer, toClient, orphans, fate>>
      BY <1>2, Frames DEF Call, lineVars, serverVars
    <2>2. fate[made + 1] = "unknown"
      BY <1>1, <2>1, Frames DEF Undecided
    <2> QED BY <2>1, <2>2, Frames
  <1>3. CASE Sent
    BY <1>3 DEF Sent
  <1>4. CASE Serve \/ ServeOrphan
    <2>1. PICK n \in 1 .. made, verdict \in {"done", "refused"} :
            /\ \A k \in 1 .. MaxCalls : k # n => fate'[k] = fate[k]
            /\ \E f \in RangeOf(toServer) \cup orphans : f.n = n
            /\ Serve => \A f \in RangeOf(toClient') : f \in RangeOf(toClient) \/ f.n = n
            /\ UNCHANGED <<made, step>>
            /\ RangeOf(toServer') \cup orphans' \subseteq RangeOf(toServer) \cup orphans
            /\ ServeOrphan => toClient' = toClient
      BY <1>4, Deciding
    <2>2. step = "sending"
      BY <2>1
    <2>3. n # made /\ made \in 1 .. MaxCalls
      BY <1>1, <2>1, <2>2, Frames DEF NotSentYet, InFlight, Inv, Started
    <2>4. fate'[made] = "unknown"
      BY <1>1, <2>1, <2>2, <2>3 DEF NotSentYet
    <2>5. \A f \in RangeOf(toClient') : f.n # made
      BY <1>1, <1>4, <2>1, <2>2, <2>3 DEF NotSentYet, InFlight
    <2> QED BY <1>1, <2>1, <2>2, <2>4, <2>5 DEF NotSentYet, InFlight
  <1>5. CASE Shrunk
    <2>1. step = "sending" /\ UNCHANGED <<made, fate>>
      BY <1>5 DEF Shrunk
    <2>2. /\ RangeOf(toServer') \subseteq RangeOf(toServer)
          /\ RangeOf(toClient') \subseteq RangeOf(toClient)
          /\ orphans' \subseteq orphans \cup RangeOf(toServer)
      BY <1>1, <1>5, ShrunkFacts
    <2> QED BY <1>1, <2>1, <2>2 DEF NotSentYet, InFlight
  <1> QED BY <1>2, <1>3, <1>4, <1>5, Steps

LEMMA InvStep == Inv /\ [Next]_vars => Inv'
  <1> SUFFICES ASSUME Inv, [Next]_vars PROVE Inv'
    OBVIOUS
  <1>1. TypeOK'
    BY FrameTypes, FateType, ClientTypes DEF TypeOK, RequestFrames, ReplyFrames
  <1>2. Started' /\ FlushReported'
    BY ClientTypes
  <1> QED BY <1>1, <1>2, UndecidedStep, InOnePlaceStep, TruthfulStep, NotSentYetStep DEF Inv

LEMMA InvInit == Init => Inv
  <1> SUFFICES ASSUME Init PROVE Inv
    OBVIOUS
  <1>1. <<>> \in Seq(RequestFrames) /\ <<>> \in Seq(ReplyFrames)
    OBVIOUS
  <1>2. TypeOK
    BY <1>1, LinkAssumption DEF Init, TypeOK
  <1>3. RangeOf(toServer) = {} /\ RangeOf(toClient) = {} /\ Apart(toServer)
    BY EmptyFacts DEF Init
  <1>4. Undecided /\ InOnePlace /\ Truthful
    BY <1>3 DEF Init, Undecided, InOnePlace, Truthful
  <1> QED BY <1>2, <1>4 DEF Init, Inv, Started, FlushReported, NotSentYet

\* TypeOK of ModbusLink, in every recovery mode and on either kind of platform.
\* It holds because no request is decided about twice.
THEOREM TypeCorrect == Spec => []TypeOK
  <1>1. Inv => TypeOK
    BY DEF Inv
  <1> QED BY <1>1, InvInit, InvStep, PTL DEF Spec

-----------------------------------------------------------------------------
(* Identifiers                                                             *)

LEMMA IdentifiedStep ==
  ASSUME Inv, Identified, [Next]_vars
  PROVE  Identified'
  <1> DEFINE Fits(f) == made - f.n <= MaxTid /\ f.tid = TidOf(f.n)
  <1> SUFFICES ASSUME NEW f \in RangeOf(toServer') \cup RangeOf(toClient')
               PROVE  Fits(f)'
    BY DEF Identified, InFlight, RangeOf
  <1>1. \A g \in RangeOf(toServer) \cup RangeOf(toClient) : Fits(g)
    BY DEF Identified, InFlight
  <1>2. TypeOK /\ tid \in 0 .. MaxTid /\ MaxTid \in Nat
    BY LinkAssumption DEF Inv, TypeOK
  <1>3. UNCHANGED <<made, tid>> => \A g : Fits(g) => Fits(g)'
    BY DEF TidOf
  <1>4. CASE Call
    <2>1. /\ made' = made + 1 /\ tid' = IF tid < MaxTid THEN tid + 1 ELSE 0
          /\ f \in InFlight /\ made - f.n < MaxTid
      BY <1>4 DEF Call, NextTid, lineVars, InFlight, Rtu, Tcp
    <2>2. f.n \in 1 .. made /\ made \in Nat /\ Fits(f)
      BY <1>1, <2>1, Frames DEF InFlight
    <2>3. made' - f.n <= MaxTid
      <3>1. \A a, b, c \in Nat : a - b < c => (a + 1) - b <= c
        OBVIOUS
      <3>2. f.n \in Nat /\ MaxTid \in Nat
        BY <1>2, <2>2
      <3>3. (made + 1) - f.n <= MaxTid
        BY <2>1, <2>2, <3>1, <3>2
      <3> QED BY <2>1, <3>3
    <2>4. f.tid = IF tid' >= made' - f.n THEN tid' - (made' - f.n)
                  ELSE tid' - (made' - f.n) + MaxTid + 1
      BY <1>2, <2>1, <2>2 DEF TidOf
    <2> QED BY <2>3, <2>4 DEF TidOf
  <1>5. CASE Sent
    <2>1. /\ UNCHANGED <<made, tid, toClient>>
          /\ RangeOf(toServer') = RangeOf(toServer) \cup {RequestFrame}
      BY <1>5, SentFacts DEF Sent
    <2>2. RequestFrame.n = made /\ RequestFrame.tid = tid /\ made \in Nat
      BY Frames DEF RequestFrame
    <2>3. Fits(RequestFrame)
      BY <1>2, <2>2 DEF TidOf
    <2> QED BY <1>1, <1>3, <2>1, <2>3
  <1>6. CASE Serve
    <2>1. PICK verdict \in {"done", "refused"} :
            LET req == Head(toServer)
                reply == [n |-> req.n, op |-> req.op, tid |-> req.tid,
                          exception |-> verdict = "refused"]
            IN  /\ req \in RangeOf(toServer)
                /\ RangeOf(toServer') \subseteq RangeOf(toServer)
                /\ RangeOf(toClient') \subseteq RangeOf(toClient) \cup {reply}
                /\ UNCHANGED <<made, tid>>
      BY <1>2, <1>6, ServeFacts
    <2>2. \/ f \in RangeOf(toServer) \cup RangeOf(toClient)
          \/ \E req \in RangeOf(toServer) : f.n = req.n /\ f.tid = req.tid
      BY <2>1
    <2>3. Fits(f)
      BY <1>1, <2>2
    <2> QED BY <1>3, <2>1, <2>3
  <1>7. CASE ServeOrphan
    <2>1. UNCHANGED <<made, tid, toServer, toClient>>
      BY <1>7 DEF ServeOrphan, clientVars, callVars
    <2> QED BY <1>1, <1>3, <2>1
  <1>8. CASE Shrunk
    <2>1. UNCHANGED <<made, tid>>
      BY <1>8 DEF Shrunk
    <2>2. f \in RangeOf(toServer) \cup RangeOf(toClient)
      BY <1>2, <1>8, ShrunkFacts
    <2> QED BY <1>1, <1>3, <2>1, <2>2
  <1> QED BY <1>4, <1>5, <1>6, <1>7, <1>8, Steps

\* A reply with the identifier of the call is the reply to the call.
LEMMA OwnReply ==
  ASSUME Inv, Identified, NEW f \in RangeOf(toClient), f.tid = tid
  PROVE  f.n = made
  <1>1. made - f.n <= MaxTid /\ f.tid = TidOf(f.n)
    BY DEF Identified, InFlight
  <1>2. f.n \in 1 .. made /\ made \in Nat /\ tid \in 0 .. MaxTid /\ MaxTid \in Nat
    BY Frames, LinkAssumption DEF Inv, TypeOK
  <1> QED BY <1>1, <1>2 DEF TidOf

-----------------------------------------------------------------------------
(* The contract                                                            *)

\* What a failed socket call leaves in errno, on either kind of platform.
LEMMA SocketErrors ==
  ASSUME TypeOK, NEW errors \in SUBSET Contract!Uncertain
  PROVE  SocketError(errors) \subseteq Contract!Uncertain \cup Contract!Stale
  <1>1. CASE setsErrno
    BY <1>1 DEF SocketError
  <1>2. CASE ~setsErrno
    BY <1>2 DEF SocketError, TypeOK, Contract!Stale
  <1> QED BY <1>1, <1>2

LEMMA ContractStep ==
  ASSUME Inv, Identified, [Next]_vars
  PROVE  [Contract!Next]_(Contract!vars)
  <1> USE DEF callVars, clientVars, lineVars, serverVars
  <1> DEFINE pending == step # "idle"
             Failing(e) == /\ pending /\ ~pending' /\ e \in Contract!Uncertain \cup Contract!Stale
                           /\ outcome' = [n |-> made, result |-> e, by |-> 0]
                           /\ UNCHANGED <<setsErrno, made, fate>>
  <1>1. ASSUME pending' = pending, UNCHANGED <<setsErrno, made, fate, outcome>>
        PROVE  UNCHANGED Contract!vars
    BY <1>1 DEF Contract!vars
  <1>2. ASSUME NEW e, Failing(e) PROVE Contract!Next
    BY <1>2 DEF Contract!Next, Contract!Return, Contract!Failed
  <1>3. CASE UNCHANGED vars \/ SendSucceeds \/ Crash \/ Restart \/ BreakConnection
    <2>1. pending' = pending /\ UNCHANGED <<setsErrno, made, fate, outcome>>
      BY <1>3 DEF vars, SendSucceeds, Crash, Restart, BreakConnection
    <2> QED BY <1>1, <2>1
  <1>4. CASE Call
    <2>1. Contract!Call
      BY <1>4 DEF Call, Contract!Call
    <2> QED BY <2>1 DEF Contract!Next
  <1>5. CASE SendFails
    <2>1. pending /\ UNCHANGED <<setsErrno, made, fate>>
      BY <1>5 DEF SendFails
    <2>2. Fail(errno') \/ UNCHANGED <<step, outcome>>
      BY <1>5 DEF SendFails
    <2>3. \E errors \in SUBSET Contract!Uncertain : errno' \in SocketError(errors)
      <3>1. /\ {"EBADF"} \in SUBSET Contract!Uncertain
            /\ {"EPIPE", "ECONNRESET"} \in SUBSET Contract!Uncertain
        BY DEF Contract!Uncertain
      <3> QED BY <1>5, <3>1 DEF SendFails
    <2>4. errno' \in Contract!Uncertain \cup Contract!Stale
      BY <2>3, SocketErrors DEF Inv
    <2> QED BY <1>1, <1>2, <2>1, <2>2, <2>4 DEF Fail
  <1>6. CASE Confirm
    <2> DEFINE reply == Head(toClient)
               result == check_confirmation(reply)
    <2>1. pending /\ UNCHANGED <<setsErrno, made, fate>> /\ toClient # <<>>
      BY <1>6 DEF Confirm
    <2>2. reply \in RangeOf(toClient)
      BY <2>1, TailFacts DEF Inv, TypeOK
    <2>3. CASE result \in Contract!Uncertain
      <3>1. result # "answered"
        BY <2>3 DEF Contract!Uncertain
      <3>2. (step' \in {"flushing", "discarding"} /\ UNCHANGED outcome) \/ Fail(result)
        BY <1>6, <3>1 DEF Confirm
      <3> HIDE DEF result
      <3> QED BY <1>1, <1>2, <2>1, <2>3, <3>2 DEF Fail
    <2>4. CASE result \in {"answered", "EMBX"}
      <3>1. reply.tid = tid /\ (result = "EMBX" <=> reply.exception)
        BY <2>4 DEF check_confirmation, pre_check_confirmation, Tcp, Rtu
      <3>2. reply.n = made
        BY <2>2, <3>1, OwnReply
      <3>3. fate[made] = IF reply.exception THEN "refused" ELSE "done"
        BY <2>2, <3>2 DEF Inv, Truthful
      <3>4. result = "answered" =>
              step' = "idle" /\ outcome' = [n |-> made, result |-> "answered", by |-> reply.n]
        BY <1>6, <2>4 DEF Confirm, Fail, FlushedAfter
      <3>5. result = "EMBX" => Fail("EMBX")
        BY <1>6, <2>4 DEF Confirm, FlushedAfter
      <3> HIDE DEF result, reply
      <3>6. ~pending' /\ \/ fate[made] = "done" /\ outcome' = Contract!Answered(made)
                         \/ fate[made] = "refused" /\ outcome' = Contract!Failed(made, "EMBX")
        BY <2>4, <3>1, <3>2, <3>3, <3>4, <3>5 DEF Fail, Contract!Answered, Contract!Failed
      <3> QED BY <2>1, <3>6 DEF Contract!Next, Contract!Return
    <2>5. result \in Contract!Uncertain \cup {"answered", "EMBX"}
      BY DEF check_confirmation, Contract!Uncertain
    <2> QED BY <2>3, <2>4, <2>5
  <1>7. CASE Timeout
    <2>1. "ETIMEDOUT" \in Contract!Uncertain
      BY DEF Contract!Uncertain
    <2>2. /\ pending /\ UNCHANGED <<setsErrno, made, fate>>
          /\ (step' = "flushing" /\ UNCHANGED outcome) \/ Fail("ETIMEDOUT")
      BY <1>7 DEF Timeout
    <2> QED BY <1>1, <1>2, <2>1, <2>2 DEF Fail
  <1>8. CASE Flush
    <2>1. pending /\ Fail(errno') /\ UNCHANGED <<setsErrno, made, fate>>
      BY <1>8 DEF Flush
    <2>2. errno \in Contract!Uncertain
      BY <1>8 DEF Flush, Inv, FlushReported
    <2>3. errno' \in {errno, "EAGAIN", "ECONNRESET"}
      BY <1>8 DEF Flush, AfterLastRecv
    <2>4. errno' \in Contract!Uncertain
      BY <2>2, <2>3 DEF Contract!Uncertain
    <2> QED BY <1>2, <2>1, <2>4 DEF Fail
  <1>9. CASE Reset
    <2>1. pending /\ Fail(errno') /\ UNCHANGED <<setsErrno, made, fate>>
      BY <1>9 DEF Reset
    <2>2. errno' = "ECONNRESET" \/ errno' \in SocketError({"ECONNRESET"})
      BY <1>9 DEF Reset
    <2>3. errno' \in Contract!Uncertain \cup Contract!Stale
      <3>1. {"ECONNRESET"} \in SUBSET Contract!Uncertain
        BY DEF Contract!Uncertain
      <3> QED BY <2>2, <3>1, SocketErrors DEF Inv
    <2> QED BY <1>2, <2>1, <2>3 DEF Fail
  <1>10. CASE Serve \/ ServeOrphan
    <2>1. PICK n \in 1 .. made, verdict \in {"done", "refused"} :
            /\ fate[n] = "unknown" /\ fate' = [fate EXCEPT ![n] = verdict]
            /\ UNCHANGED <<made, step>>
      BY <1>10, Deciding
    <2>2. UNCHANGED <<setsErrno, outcome>>
      BY <1>10 DEF Serve, ServeOrphan
    <2>3. Contract!Decide
      BY <2>1, <2>2 DEF Contract!Decide
    <2> QED BY <2>3 DEF Contract!Next
  <1> QED BY <1>3, <1>4, <1>5, <1>6, <1>7, <1>8, <1>9, <1>10 DEF Next, Client

\* KeepsContract of ModbusLink over TCP: whatever is late, flushed, resent or
\* left on an old connection, a call returns its own values or none, and is
\* executed once at most.
THEOREM KeepsContractCorrect == Spec => KeepsContract
  <1>1. Init => Contract!Init
    BY DEF Init, Contract!Init, Contract!Failed
  <1>2. Init => Identified
    BY EmptyFacts DEF Init, Identified, InFlight
  <1>3. Inv /\ Identified /\ [Next]_vars => Identified'
    BY IdentifiedStep
  <1>4. Inv /\ Identified /\ [Next]_vars => [Contract!Next]_(Contract!vars)
    BY ContractStep
  <1> QED BY <1>1, <1>2, <1>3, <1>4, InvInit, InvStep, PTL
          DEF Spec, KeepsContract, Contract!Spec
=============================================================================
