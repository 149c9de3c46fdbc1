----------------------------- MODULE ModbusCall -----------------------------
(***************************************************************************)
(* What a Modbus client may rely on when it calls a function of libmodbus  *)
(* on a server it reaches over a line that can fail: a call that returns   *)
(* values was executed, once, and the values are its own; a call that      *)
(* returns an exception of the server was not executed and never will be;  *)
(* a call that returns any other error may have been executed, or may be   *)
(* later, but never twice.  Where failed socket calls do not set errno     *)
(* nothing can be read from an error, an exception included.               *)
(* Module ModbusLink is shown to implement this.                           *)
(***************************************************************************)
EXTENDS Integers

CONSTANT MaxCalls     \* bound: calls made

VARIABLES
  setsErrno,  \* socket calls that fail set errno
  made,       \* the number of the last call
  pending,    \* it has not returned yet
  fate,       \* fate[n]: what the server did about call n
  outcome     \* the last call that returned, and what it returned

vars == <<setsErrno, made, pending, fate, outcome>>

\* The errors after which nothing is known about the call.
Uncertain == {"ETIMEDOUT", "ECONNRESET", "EPIPE", "EBADF", "EAGAIN", "EMBBADDATA",
              "EMBBADEXC"}

\* The errors left from an earlier call, or from none, where nothing sets them.
Stale == IF setsErrno THEN {} ELSE {"none", "EMBX"}

Answered(n) == [n |-> n, result |-> "answered", by |-> n]
Failed(n, errno) == [n |-> n, result |-> errno, by |-> 0]

Init ==
  /\ setsErrno \in BOOLEAN
  /\ made = 0
  /\ pending = FALSE
  /\ fate = [n \in 1 .. MaxCalls |-> "unknown"]
  /\ outcome = Failed(0, "none")

Call ==
  /\ ~pending
  /\ made < MaxCalls
  /\ made' = made + 1
  /\ pending' = TRUE
  /\ UNCHANGED <<setsErrno, fate, outcome>>

\* The server may decide about a call long after it returned.
Decide ==
  /\ \E n \in 1 .. made, verdict \in {"done", "refused"} :
       /\ fate[n] = "unknown"
       /\ fate' = [fate EXCEPT ![n] = verdict]
  /\ UNCHANGED <<setsErrno, made, pending, outcome>>

Return ==
  /\ pending
  /\ pending' = FALSE
  /\ \/ fate[made] = "done" /\ outcome' = Answered(made)
     \/ fate[made] = "refused" /\ outcome' = Failed(made, "EMBX")
     \/ \E errno \in Uncertain \cup Stale : outcome' = Failed(made, errno)
  /\ UNCHANGED <<setsErrno, made, fate>>

Next == Call \/ Decide \/ Return

Spec == Init /\ [][Next]_vars
=============================================================================
