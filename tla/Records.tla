------------------------------ MODULE Records ------------------------------
(***************************************************************************)
(* The record tables of src/Server Demo/final2.0 and everything that       *)
(* empties them: the three "export TXT" buttons, the "export EXCEL"        *)
(* button, and the periodic save driven by a one-second timer and the      *)
(* save settings.  DateTimeBuffer, the string every new row is dated with, *)
(* is shared by the clock on the panel and by the Excel report.            *)
(*                                                                         *)
(* Callbacks run on one thread and are one step each; the exception is the *)
(* "error" MessagePopup of saveToEXCEL, whose modal event loop lets TCP    *)
(* events, and further timer ticks, run before the report goes on.         *)
(*                                                                         *)
(* Where the readings come from and when monitoring stops by itself are in *)
(* module Monitor; here a reading may arrive and monitoring may stop at    *)
(* any time.                                                               *)
(***************************************************************************)
EXTENDS Integers, Sequences, FiniteSets, SequencesExt

CONSTANTS
  MaxRecords,     \* bound: records displayed in a behaviour
  MaxPopups,      \* popups whose modal loops may be nested (1: timers do not run in one)
  MaxOverrun,     \* bound: how far below zero a countdown is followed
  SaveMinutes,    \* the periods the operator can choose, in minutes
  DefaultMinutes, \* the period the program starts with, 60 in the code
  Minute          \* timer ticks in a minute, 60 in the code

VOLTAGE == 1
TEMPERATURE == 2
PONDING == 3

Sensor == VOLTAGE .. PONDING

TXT == 1
EXCEL == 2

ASSUME RecordsAssumption ==
  /\ MaxRecords \in Nat
  /\ MaxPopups \in Nat \ {0}
  /\ MaxOverrun \in Nat \ {0}
  /\ SaveMinutes \subseteq Nat \ {0}
  /\ DefaultMinutes \in Nat \ {0}
  /\ Minute \in Nat \ {0}

VARIABLES
  start,          \* monitoring is switched on
  table,          \* table[k]: rows of the table of sensor k, the top row first
  text,           \* text[k]: rows in the text file of sensor k
  book,           \* book[k]: rows of sensor k in the workbooks saved so far
  dateTimeBuffer, \* format of the date in DateTimeBuffer
  interval,       \* ticks left until the next periodic save
  saveTime,       \* period of that save, in ticks
  saveType,       \* its file format
  modal,          \* who called each saveToEXCEL that waits in its popup, innermost last
  nextId          \* identity of the next record (a history variable)

settings == <<saveTime, saveType>>
files == <<text, book>>
vars == <<start, table, files, dateTimeBuffer, interval, settings, modal, nextId>>

\* The format of a date: none before the clock first ticks, the one SortByDate
\* reads, and the one file names need.
DateFormat == {"null", "row", "file"}

Row == [id : Nat \ {0}, date : DateFormat]

ButtonsLive == modal = <<>>
TimersRun == Len(modal) < MaxPopups

NoRows == [k \in Sensor |-> <<>>]

-----------------------------------------------------------------------------
\* Filling, dating and reordering the tables

\* display_voltage, display_temperature or display_ponding inserts a top row.
DisplayReading(k) ==
  /\ nextId <= MaxRecords
  /\ table' = [table EXCEPT ![k] = <<[id |-> nextId, date |-> dateTimeBuffer]>> \o @]
  /\ nextId' = nextId + 1
  /\ UNCHANGED <<start, files, dateTimeBuffer, interval, settings, modal>>

TimerDisplay ==
  /\ TimersRun
  /\ dateTimeBuffer' = "row"
  /\ UNCHANGED <<start, table, files, interval, settings, modal, nextId>>

\* A click on a column label sorts that table.  Which order results is not
\* followed here: SortByDate compares uninitialised fields of a date it cannot
\* read, and rows that compare equal may come in any order.
SortTable(k) ==
  /\ ButtonsLive
  /\ \E order \in {p \in [DOMAIN table[k] -> DOMAIN table[k]] : IsInjective(p)} :
       table' = [table EXCEPT ![k] = [i \in DOMAIN @ |-> @[order[i]]]]
  /\ UNCHANGED <<start, files, dateTimeBuffer, interval, settings, modal, nextId>>

-----------------------------------------------------------------------------
\* Saving as text

\* SaveVoltage, SaveTemperature and SavePonding count down before they read the
\* first row, so the bottom row is never written; the rest goes bottom up.
TextRows(k) == IF table[k] = <<>> THEN <<>> ELSE Reverse(Front(table[k]))

\* A plausible mistake: the rows that were written are not deleted.
SaveTextKeepingRows(K) ==
  /\ text' = [k \in Sensor |-> IF k \in K THEN text[k] \o TextRows(k) ELSE text[k]]
  /\ UNCHANGED <<table, book>>

\* Each appends to its file and then deletes every row of its table.
SaveText(K) ==
  /\ text' = [k \in Sensor |-> IF k \in K THEN text[k] \o TextRows(k) ELSE text[k]]
  /\ table' = [k \in Sensor |-> IF k \in K THEN <<>> ELSE table[k]]
  /\ UNCHANGED book

\* CallSaveVoltage, CallSaveTemperature and CallSavePonding do nothing unless
\* monitoring is on; they switch it off while they save and on again.
CallSave(k) ==
  /\ ButtonsLive
  /\ start
  /\ SaveText({k})
  /\ UNCHANGED <<start, dateTimeBuffer, interval, settings, modal, nextId>>

-----------------------------------------------------------------------------
\* Saving as a workbook

\* Rows in the cell range from line 3 to line n, which Excel reads in either
\* direction; there is no line 0 (external).
RangeRows(n) == IF n = 0 THEN 0 ELSE IF n >= 3 THEN n - 2 ELSE 4 - n

\* The ranges of all three tables end at the number of temperature rows.
BookRows(k) ==
  LET range == RangeRows(Len(table[TEMPERATURE]))
  IN  IF Len(table[k]) <= range THEN table[k] ELSE SubSeq(table[k], 1, range)

\* saveToEXCEL with its template open: the rows are written, DateTimeBuffer is
\* overwritten to name the file, the workbook is saved, or cannot be, and the
\* tables are emptied in either case.
WriteBook ==
  /\ \/ book' = [k \in Sensor |-> book[k] \o BookRows(k)]
     \/ UNCHANGED book
  /\ table' = NoRows
  /\ dateTimeBuffer' = "file"
  /\ UNCHANGED <<text, modal>>

\* A plausible mistake: only the buttons set the countdown again.
RearmedByButton(caller) == IF caller = "timer" THEN interval - 1 ELSE saveTime

\* The countdown after a save: the loop of TimerSave tests it once more.
Rearmed(caller) == IF caller = "timer" THEN saveTime - 1 ELSE saveTime

\* The template is missing: saveToEXCEL waits in its popup...
TemplateMissing(caller) ==
  /\ TimersRun
  /\ modal' = Append(modal, caller)
  /\ UNCHANGED <<table, files, dateTimeBuffer>>

\* ... and then goes on without a workbook: nothing can be written or saved,
\* and the tables are emptied all the same.
DismissError ==
  /\ modal # <<>>
  /\ modal' = Front(modal)
  /\ table' = NoRows
  /\ dateTimeBuffer' = "file"
  /\ interval' = Rearmed(Last(modal))
  /\ UNCHANGED <<start, files, settings, nextId>>

\* The button; unlike the text buttons it works with monitoring off.
ExportExcel ==
  /\ ButtonsLive
  /\ \/ WriteBook /\ interval' = Rearmed("button")
     \/ TemplateMissing("button") /\ UNCHANGED interval
  /\ UNCHANGED <<start, settings, nextId>>

-----------------------------------------------------------------------------
\* The periodic save and its settings

CountDown ==
  /\ interval # 0
  /\ interval > -MaxOverrun
  /\ interval' = interval - 1
  /\ UNCHANGED <<table, files, dateTimeBuffer, modal>>

\* A plausible mistake: the periodic save forgets a table.
PeriodicTextOfTwo ==
  /\ interval = 0
  /\ saveType = TXT
  /\ SaveText(Sensor \ {PONDING})
  /\ interval' = Rearmed("timer")
  /\ UNCHANGED <<dateTimeBuffer, modal>>

PeriodicText ==
  /\ interval = 0
  /\ saveType = TXT
  /\ SaveText(Sensor)
  /\ interval' = Rearmed("timer")
  /\ UNCHANGED <<dateTimeBuffer, modal>>

PeriodicExcel ==
  /\ interval = 0
  /\ saveType = EXCEL
  /\ \/ WriteBook /\ interval' = Rearmed("timer")
     \/ TemplateMissing("timer") /\ interval' = interval - 1

TimerSave ==
  /\ TimersRun
  /\ start
  /\ CountDown \/ PeriodicText \/ PeriodicExcel
  /\ UNCHANGED <<start, settings, nextId>>

\* A plausible mistake: the period is an index that counts from 0.
SaveSettingByIndex(minutes, type, ipValid) ==
  /\ ButtonsLive
  /\ saveTime' = (minutes - 1) * Minute
  /\ interval' = saveTime'
  /\ saveType' = IF ipValid THEN type ELSE saveType
  /\ UNCHANGED <<start, table, files, dateTimeBuffer, modal, nextId>>

\* An invalid IP address makes SaveSetting return after it has set the period
\* and the countdown, before it sets the format.  (The address and the port are
\* no part of this module.)
SaveSetting(minutes, type, ipValid) ==
  /\ ButtonsLive
  /\ saveTime' = minutes * Minute
  /\ interval' = saveTime'
  /\ saveType' = IF ipValid THEN type ELSE saveType
  /\ UNCHANGED <<start, table, files, dateTimeBuffer, modal, nextId>>

-----------------------------------------------------------------------------
\* Monitoring, as module Monitor has it

StartMonitor ==
  /\ ButtonsLive
  /\ start' = TRUE
  /\ UNCHANGED <<table, files, dateTimeBuffer, interval, settings, modal, nextId>>

\* The stop button, or the end of a poll that failed.
MonitoringStops ==
  /\ start' = FALSE
  /\ UNCHANGED <<table, files, dateTimeBuffer, interval, settings, modal, nextId>>

-----------------------------------------------------------------------------
Init ==
  /\ start = FALSE
  /\ table = NoRows
  /\ text = NoRows
  /\ book = NoRows
  /\ dateTimeBuffer = "null"
  /\ interval = DefaultMinutes * Minute
  /\ saveTime = DefaultMinutes * Minute
  /\ saveType = TXT
  /\ modal = <<>>
  /\ nextId = 1

SomeSaveSetting ==
  \E minutes \in SaveMinutes, type \in {TXT, EXCEL}, ipValid \in BOOLEAN :
    SaveSetting(minutes, type, ipValid)

Next ==
  \/ \E k \in Sensor : DisplayReading(k) \/ SortTable(k) \/ CallSave(k)
  \/ TimerDisplay
  \/ ExportExcel
  \/ DismissError
  \/ TimerSave
  \/ SomeSaveSetting
  \/ StartMonitor
  \/ MonitoringStops

Spec == Init /\ [][Next]_vars

\* The event loop dispatches the timers for as long as the program runs.
Fairness == WF_vars(TimerSave) /\ WF_vars(TimerDisplay)

FairSpec == Spec /\ Fairness

-----------------------------------------------------------------------------
\* Properties

TypeOK ==
  /\ start \in BOOLEAN
  /\ table \in [Sensor -> Seq(Row)]
  /\ text \in [Sensor -> Seq(Row)]
  /\ book \in [Sensor -> Seq(Row)]
  /\ dateTimeBuffer \in DateFormat
  /\ interval \in Int
  /\ saveTime \in Nat \ {0}
  /\ saveType \in {TXT, EXCEL}
  /\ modal \in Seq({"button", "timer"})
  /\ nextId \in Nat \ {0}

\* No record is saved twice, nor still in its table once it is in a file,
\* however the buttons, the periodic save and its popups interleave: what is
\* saved is what is deleted (Save*, saveToTXT, saveToEXCEL).
SavedOnce ==
  \A k \in Sensor :
    LET rows == table[k] \o text[k] \o book[k]
    IN  \A i, j \in DOMAIN rows : rows[i].id = rows[j].id => i = j

\* Whatever saved last, and whatever the settings were changed to meanwhile,
\* the countdown is between 0 and the period whenever no popup is open.  Below
\* 0 the next periodic save would be 2^32 ticks away (TimerSave, saveToTXT,
\* saveToEXCEL, SaveSetting).
CountdownArmed == modal = <<>> => interval \in 0 .. saveTime

\* While monitoring stays on and the settings are left alone, every record
\* leaves its table, for a file or for good: the periodic save comes.
TablesEmptied ==
  <>[](start /\ modal = <<>>) /\ <>[][~SomeSaveSetting]_vars =>
    \A k \in Sensor : table[k] # <<>> ~> table[k] = <<>>

\* The user guide: exporting as TXT saves the records at once and clears the
\* window.  Every row in the table when its button works is in the file after
\* (CallSave*, Save*).
TextExportComplete ==
  [][\A k \in Sensor : CallSave(k) =>
       \A i \in DOMAIN table[k] : table[k][i] \in Range(text'[k])]_vars

=============================================================================
