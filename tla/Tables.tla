------------------------------- MODULE Tables -------------------------------
(***************************************************************************)
(* The three tables of readings on the main panel of the host program, in  *)
(* every release that has them, src/Server Demo/2.0 to final2.0: what a    *)
(* new row says, what a click on a column label does, and what leaves a    *)
(* table when it is written to a file.                                     *)
(*                                                                         *)
(* The releases differ in a few facts, stated below as one definition per  *)
(* release and per part of the program; the actions read the facts of the  *)
(* release the behaviour is about.  Module Records follows the saving of   *)
(* the last release in detail, with its popups and its countdown; here     *)
(* saving matters for what it leaves in a table, and sorting for the order *)
(* it leaves.  The sort state is shared by the three tables.               *)
(***************************************************************************)
EXTENDS Integers, Sequences, SequencesExt

CONSTANTS
  Words,      \* readings of the voltage and temperature sensors, as received
  MaxLimit,   \* the upper limits on the panel, in whole units
  MinLimit,   \* the lower limits
  MaxRows,    \* bound: rows followed in one table
  MaxTotal,   \* bound: rows followed in all tables
  MaxTime     \* bound: ticks of the clock

VOLTAGE == "voltage"
TEMPERATURE == "temperature"
PONDING == "ponding"

Sensor == {VOLTAGE, TEMPERATURE, PONDING}

Release == {"2.0", "2.1", "2.2", "2.2.1", "2.3", "final", "final2.0"}

ASSUME TablesAssumption ==
  /\ Words \subseteq Nat
  /\ {MaxLimit, MinLimit} \subseteq Nat
  /\ {MaxRows, MaxTotal, MaxTime} \subseteq Nat

VARIABLES
  release,                 \* the release this behaviour is about
  start,                   \* monitoring is switched on
  table,                   \* table[k]: rows of the table of k, the top row first
  dateTimeBuffer,          \* the date the next row gets
  g_currentlySortedColumn, \* column of the last click on a label, 0 before the first
  descending               \* direction of the last sort

sorting == <<g_currentlySortedColumn, descending>>
vars == <<release, start, table, dateTimeBuffer, sorting>>

\* The formats of a date: none before the clock first ticks, the one SortByDate
\* reads, the one file names need.  Times are those of one hour.
Date == [time : 0 .. MaxTime, format : {"null", "row", "file"}]

\* Where a row has been written to.
File == {"none", "text", "workbook"}

Row == [date : Date, value : Words \cup {0, 1}, warning : BOOLEAN, file : File]

-----------------------------------------------------------------------------
\* What the releases insert for a reading: a number of tenths, or of whole units,
\* or the state of a switch, which has no column of its own.

Styles(voltage) ==
  [k \in Sensor |->
    CASE k = VOLTAGE -> voltage [] k = TEMPERATURE -> "tenths" [] k = PONDING -> "state"]

Displays_2_0 == Styles("tenths")
Displays_2_1 == Styles("tenths")
Displays_2_2 == Styles("tenths")
Displays_2_2_1 == Styles("tenths")
Displays_2_3 == Styles("whole, one decimal")
Displays_final == Styles("whole, one decimal")
Displays_final2_0 == Styles("whole")

Displays ==
  [r \in Release |->
    CASE r = "2.0" -> Displays_2_0
      [] r = "2.1" -> Displays_2_1
      [] r = "2.2" -> Displays_2_2
      [] r = "2.2.1" -> Displays_2_2_1
      [] r = "2.3" -> Displays_2_3
      [] r = "final" -> Displays_final
      [] r = "final2.0" -> Displays_final2_0]

Style(k) == Displays[release][k]

\* One unit of the limits, in the units of a reading.
Unit(k) == IF Style(k) = "tenths" THEN 10 ELSE 1

Warns(k, word) ==
  IF k = PONDING THEN word # 0
  ELSE word > MaxLimit * Unit(k) \/ word < MinLimit * Unit(k)

\* The text in a table, as strcmp sees it: the decimal point precedes all digits.
Point == -1

Digits[n \in Nat] == IF n < 10 THEN <<n>> ELSE Append(Digits[n \div 10], n % 10)

Text(k, word) ==
  IF Style(k) = "tenths" THEN Digits[word \div 10] \o <<Point, word % 10>>
  ELSE IF Style(k) = "whole" THEN Digits[word] ELSE Digits[word] \o <<Point, 0>>

-----------------------------------------------------------------------------
\* Whose label bar a click on a table is looked up in.  In 2.1 the bar of the
\* temperature table stands in for the others; the tables do not overlap, so no
\* label of those is ever hit.  2.0 does not sort.

Sorts_2_1 == [k \in Sensor |-> TEMPERATURE]
Sorts_2_2 == [k \in Sensor |-> k]
Sorts_2_2_1 == [k \in Sensor |-> k]
Sorts_2_3 == [k \in Sensor |-> k]
Sorts_final == [k \in Sensor |-> k]
Sorts_final2_0 == [k \in Sensor |-> k]

LabelBar ==
  [r \in Release |->
    CASE r = "2.0" -> [k \in Sensor |-> "none"]
      [] r = "2.1" -> Sorts_2_1
      [] r = "2.2" -> Sorts_2_2
      [] r = "2.2.1" -> Sorts_2_2_1
      [] r = "2.3" -> Sorts_2_3
      [] r = "final" -> Sorts_final
      [] r = "final2.0" -> Sorts_final2_0]

\* Bytes SortByWarning has for each of the texts it compares.
Compares_2_1 == 5
Compares_2_2 == 10
Compares_2_2_1 == 10
Compares_2_3 == 10
Compares_final == 10
Compares_final2_0 == 10

TextRoom ==
  [r \in Release \ {"2.0"} |->
    CASE r = "2.1" -> Compares_2_1
      [] r = "2.2" -> Compares_2_2
      [] r = "2.2.1" -> Compares_2_2_1
      [] r = "2.3" -> Compares_2_3
      [] r = "final" -> Compares_final
      [] r = "final2.0" -> Compares_final2_0]

-----------------------------------------------------------------------------
\* The tables whose rows are deleted when they are saved as text, by the timer
\* and by the buttons: 2.1 and 2.2 delete the rows of two tables only.

\* A plausible mistake: the voltage is forgotten in 2.2.1 too.
DeletesTwoTables == {TEMPERATURE, PONDING}

Saves_2_0 == Sensor
Saves_2_1 == {TEMPERATURE, PONDING}
Saves_2_2 == {TEMPERATURE, PONDING}
Saves_2_2_1 == Sensor
Saves_2_3 == Sensor
Saves_final == Sensor
Saves_final2_0 == Sensor

DeletedAsText ==
  [r \in Release |->
    CASE r = "2.0" -> Saves_2_0
      [] r = "2.1" -> Saves_2_1
      [] r = "2.2" -> Saves_2_2
      [] r = "2.2.1" -> Saves_2_2_1
      [] r = "2.3" -> Saves_2_3
      [] r = "final" -> Saves_final
      [] r = "final2.0" -> Saves_final2_0]

HasButtons == release \notin {"2.0", "2.1", "2.2"}

\* The same for workbooks, which only final2.0 deletes after.
Exports_2_3 == {}
Exports_final == {}
Exports_final2_0 == Sensor

HasWorkbook == release \in {"2.3", "final", "final2.0"}

DeletedAsWorkbook ==
  IF release = "2.3" THEN Exports_2_3
  ELSE IF release = "final" THEN Exports_final ELSE Exports_final2_0

-----------------------------------------------------------------------------
\* Filling and dating

Rows == Len(table[VOLTAGE]) + Len(table[TEMPERATURE]) + Len(table[PONDING])

\* A plausible mistake: the reading is divided as an integer.
NewRowInUnits(k, word) ==
  [date |-> dateTimeBuffer, value |-> word \div Unit(k), warning |-> Warns(k, word), file |-> "none"]

NewRow(k, word) ==
  [date |-> dateTimeBuffer, value |-> word, warning |-> Warns(k, word), file |-> "none"]

DisplayReading(k, word) ==
  /\ Rows < MaxTotal
  /\ Len(table[k]) < MaxRows
  /\ table' = [table EXCEPT ![k] = <<NewRow(k, word)>> \o @]
  /\ UNCHANGED <<release, start, dateTimeBuffer, sorting>>

TimerDisplay ==
  /\ dateTimeBuffer.time < MaxTime
  /\ dateTimeBuffer' = [time |-> dateTimeBuffer.time + 1, format |-> "row"]
  /\ UNCHANGED <<release, start, table, sorting>>

-----------------------------------------------------------------------------
\* Sorting

Columns(k) == IF k = PONDING THEN 1 .. 2 ELSE 1 .. 3

\* A plausible mistake: the break is missing on a first click too.
ComparisonsWithoutBreak(k, column) ==
  IF column = 1 THEN <<"date">>
  ELSE IF column = 3 \/ k = PONDING THEN <<"warning">> ELSE <<"data", "text">>

\* The comparisons a click on a label sorts by, in turn.  On the label that was
\* clicked last, the case of the values has no break: it goes on to sort the same
\* column with SortByWarning, which compares texts.
Comparisons(k, column) ==
  IF column = 1 THEN <<"date">>
  ELSE IF column = 3 \/ k = PONDING THEN <<"warning">>
  ELSE IF column = g_currentlySortedColumn THEN <<"data", "text">> ELSE <<"data">>

TextGreater(a, b) ==
  \E i \in DOMAIN a :
    /\ i - 1 <= Len(b) /\ SubSeq(a, 1, i - 1) = SubSeq(b, 1, i - 1)
    /\ i > Len(b) \/ a[i] > b[i]

\* SortByDate, SortByData and SortByWarning put the greater row first; of the
\* two words of a warning the one for "yes" is the greater.
Greater(k, comparison, a, b) ==
  \/ comparison = "date" /\ a.date.time > b.date.time
  \/ comparison = "data" /\ a.value > b.value
  \/ comparison = "warning" /\ a.warning /\ ~b.warning
  \/ comparison = "text" /\ TextGreater(Text(k, a.value), Text(k, b.value))

\* SortByDate reads no minutes and seconds in a date of another format, and
\* compares whatever its variables hold.
Readable(rows) == \A i \in DOMAIN rows : rows[i].date.format = "row"

\* SortByWarning overruns its buffers with a text that has no room, terminator
\* included, and may find any order.
Fits(k, rows) == \A i \in DOMAIN rows : Len(Text(k, rows[i].value)) < TextRoom[release]

InOrder(k, comparison, downwards, rows) ==
  \A i, j \in DOMAIN rows : i < j =>
    IF downwards THEN ~Greater(k, comparison, rows[j], rows[i])
    ELSE ~Greater(k, comparison, rows[i], rows[j])

\* The orders that some rows can be brought into.
Orders(rows) ==
  {[i \in DOMAIN rows |-> rows[order[i]]] :
    order \in {f \in [DOMAIN rows -> DOMAIN rows] : IsInjective(f)}}

\* What SortTableCells may leave: rows that compare equal come in any order.
Sorted(k, comparison, downwards, rows) ==
  {s \in Orders(rows) :
    \/ comparison = "date" /\ ~Readable(rows)
    \/ comparison = "text" /\ ~Fits(k, rows)
    \/ InOrder(k, comparison, downwards, s)}

\* ResultVoltage, ResultTemperature and ResultPonding.
ClickLabel(k, column) ==
  /\ LabelBar[release][k] = k
  /\ column \in Columns(k)
  /\ g_currentlySortedColumn' = column
  /\ descending' = (descending # (column = g_currentlySortedColumn))
  /\ \E s \in Sorted(k, Last(Comparisons(k, column)), descending', table[k]) :
       table' = [table EXCEPT ![k] = s]
  /\ UNCHANGED <<release, start, dateTimeBuffer>>

-----------------------------------------------------------------------------
\* Saving

\* Every row but the bottom one is written; then the rows are deleted, or stay.
SavedAsText(k) ==
  IF k \in DeletedAsText[release] THEN <<>>
  ELSE [i \in DOMAIN table[k] |->
         IF i < Len(table[k]) THEN [table[k][i] EXCEPT !.file = "text"] ELSE table[k][i]]

SaveText(K) ==
  /\ table' = [k \in Sensor |-> IF k \in K THEN SavedAsText(k) ELSE table[k]]
  /\ UNCHANGED dateTimeBuffer

\* saveToEXCEL writes as many rows as its cell ranges have (module Records), and
\* names the file with DateTimeBuffer.
SaveWorkbook ==
  /\ HasWorkbook
  /\ \E lines \in 0 .. MaxRows :
       table' = [k \in Sensor |->
         IF k \in DeletedAsWorkbook THEN <<>>
         ELSE [i \in DOMAIN table[k] |->
                IF i <= lines THEN [table[k][i] EXCEPT !.file = "workbook"] ELSE table[k][i]]]
  /\ dateTimeBuffer' = [dateTimeBuffer EXCEPT !.format = "file"]

TimerSave ==
  /\ start
  /\ SaveText(Sensor) \/ SaveWorkbook
  /\ UNCHANGED <<release, start, sorting>>

CallSave(k) ==
  /\ HasButtons
  /\ start
  /\ SaveText({k})
  /\ UNCHANGED <<release, start, sorting>>

ExportExcel ==
  /\ SaveWorkbook
  /\ UNCHANGED <<release, start, sorting>>

\* StartMonitor, StopMonitor.
SwitchMonitor ==
  /\ start' = ~start
  /\ UNCHANGED <<release, table, dateTimeBuffer, sorting>>

-----------------------------------------------------------------------------
Init ==
  /\ release \in Release
  /\ start = FALSE
  /\ table = [k \in Sensor |-> <<>>]
  /\ dateTimeBuffer = [time |-> 0, format |-> "null"]
  /\ g_currentlySortedColumn = 0
  /\ descending = TRUE

Next ==
  \/ \E k \in Sensor \ {PONDING}, word \in Words : DisplayReading(k, word)
  \/ \E state \in {0, 1} : DisplayReading(PONDING, state)
  \/ TimerDisplay
  \/ \E k \in Sensor, column \in 1 .. 3 : ClickLabel(k, column)
  \/ \E k \in Sensor : CallSave(k)
  \/ TimerSave
  \/ ExportExcel
  \/ SwitchMonitor

Spec == Init /\ [][Next]_vars

-----------------------------------------------------------------------------
\* Properties

TypeOK ==
  /\ release \in Release
  /\ start \in BOOLEAN
  /\ \A k \in Sensor :
       /\ Len(table[k]) <= MaxRows
       /\ \A i \in DOMAIN table[k] : table[k][i] \in Row
  /\ dateTimeBuffer \in Date
  /\ g_currentlySortedColumn \in 0 .. 3
  /\ descending \in BOOLEAN

\* A row that is in a file is not in its table any more, so no save writes it
\* again, whatever was sorted and saved before.  2.1 and 2.2 break this for the
\* rows of the voltage, 2.3 and final for workbooks; each was repaired in the
\* release after (TimerSave, SaveVoltage, saveToEXCEL).
FiledOnce ==
  \A k \in Sensor : \A i \in DOMAIN table[k] :
    /\ table[k][i].file = "text" => k = VOLTAGE /\ release \in {"2.1", "2.2"}
    /\ table[k][i].file = "workbook" => release \in {"2.3", "final"}

\* The texts that a second click on the label of the values compares can be
\* trusted: they have room, and are of one length.
TextsComparable(k) ==
  /\ Fits(k, table[k])
  /\ \A i, j \in DOMAIN table[k] :
       Len(Text(k, table[k][i].value)) = Len(Text(k, table[k][j].value))

\* A click on the label of the values leaves the greatest reading on top, or the
\* least, whichever table was clicked before, and whatever was inserted or saved
\* since.  A second click compares texts, in every release to the last; it does
\* no harm as long as all readings have the same number of digits, and this is
\* how far it goes (ResultVoltage, ResultTemperature, SortByData, SortByWarning).
ValuesInOrder ==
  [][\A k \in Sensor \ {PONDING} :
       /\ ClickLabel(k, 2)
       /\ g_currentlySortedColumn = 2 => TextsComparable(k)
       => \A i, j \in DOMAIN table'[k] : i < j =>
            IF descending' THEN table'[k][i].value >= table'[k][j].value
                           ELSE table'[k][i].value <= table'[k][j].value]_vars

=============================================================================
