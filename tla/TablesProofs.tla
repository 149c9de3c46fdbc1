---------------------------- MODULE TablesProofs ----------------------------
(***************************************************************************)
(* Proofs about Tables, for all readings and limits, any number of rows    *)
(* and any number of ticks of the clock.                                   *)
(***************************************************************************)
EXTENDS Tables, SequenceTheorems, TLAPS

-----------------------------------------------------------------------------
\* Rows

\* A new row is a row that has not been written to a file.
LEMMA NewRowFacts ==
  ASSUME dateTimeBuffer \in Date, NEW k \in Sensor,
         NEW word \in IF k = PONDING THEN {0, 1} ELSE Words
  PROVE  NewRow(k, word) \in Row /\ NewRow(k, word).file = "none"
<1>1. Warns(k, word) \in BOOLEAN
  BY DEF Warns
<1>2. word \in Words \cup {0, 1}
  OBVIOUS
<1>3. NewRow(k, word) = [date |-> dateTimeBuffer, value |-> word, warning |-> Warns(k, word), file |-> "none"]
  BY DEF NewRow
<1>. HIDE DEF Warns
<1>. QED
  BY <1>1, <1>2, <1>3 DEF Row, File

\* SortTableCells leaves the rows there are (Sorted).
LEMMA SortedFacts ==
  ASSUME NEW rows \in Seq(Row), NEW k, NEW comparison, NEW downwards,
         NEW s \in Sorted(k, comparison, downwards, rows)
  PROVE  /\ s \in Seq(Row)
         /\ Len(s) = Len(rows)
         /\ \A i \in DOMAIN s : \E j \in DOMAIN rows : s[i] = rows[j]
<1>. DEFINE n == Len(rows)
<1>0. n \in Nat /\ DOMAIN rows = 1 .. n
  BY LenProperties
<1>1. PICK order \in [DOMAIN rows -> DOMAIN rows] : s = [i \in DOMAIN rows |-> rows[order[i]]]
  BY DEF Sorted, Orders
<1>2. s = [i \in 1 .. n |-> rows[order[i]]] /\ \A i \in 1 .. n : order[i] \in 1 .. n /\ rows[order[i]] \in Row
  BY <1>0, <1>1, ElementOfSeq
<1>. HIDE DEF n
<1>3. s \in Seq(Row) /\ Len(s) = n
  BY <1>0, <1>2, SeqDef
<1>. QED
  BY <1>0, <1>2, <1>3 DEF n

-----------------------------------------------------------------------------
\* The invariant

\* TypeOK, with tables that are sequences, one for each sensor.
RowsOK ==
  /\ TypeOK
  /\ table \in [Sensor -> Seq(Row)]

TablesInv == RowsOK /\ FiledOnce

\* A table of the type keeps its length bound and its rows.
LEMMA RowsFacts ==
  ASSUME NEW rows \in Seq(Row)
  PROVE  \A i \in DOMAIN rows : rows[i] \in Row
  BY ElementOfSeq, LenProperties

\* Steps that leave the tables alone.
LEMMA TablesUnchanged ==
  ASSUME TablesInv, UNCHANGED <<release, table>>, start' \in BOOLEAN, dateTimeBuffer' \in Date,
         g_currentlySortedColumn' \in 0 .. 3, descending' \in BOOLEAN
  PROVE  TablesInv'
  BY DEF TablesInv, RowsOK, TypeOK, FiledOnce

\* Steps that replace the rows of some tables by as many rows, or fewer, that are
\* filed no more often than FiledOnce allows.
LEMMA TablesReplaced ==
  ASSUME TablesInv, UNCHANGED release, start' \in BOOLEAN, dateTimeBuffer' \in Date,
         g_currentlySortedColumn' \in 0 .. 3, descending' \in BOOLEAN,
         NEW t \in [Sensor -> Seq(Row)], table' = t,
         \A k \in Sensor : Len(t[k]) <= MaxRows,
         \A k \in Sensor : \A i \in DOMAIN t[k] :
           /\ t[k][i].file = "text" => k = VOLTAGE /\ release \in {"2.1", "2.2"}
           /\ t[k][i].file = "workbook" => release \in {"2.3", "final"}
  PROVE  TablesInv'
<1>1. \A k \in Sensor : \A i \in DOMAIN t[k] : t[k][i] \in Row
  BY RowsFacts
<1>. QED
  BY <1>1 DEF TablesInv, RowsOK, TypeOK, FiledOnce

\* What a row may say about the file it is in.
FiledAs(k, row) ==
  /\ row.file = "text" => k = VOLTAGE /\ release \in {"2.1", "2.2"}
  /\ row.file = "workbook" => release \in {"2.3", "final"}

\* A new row is in no file, and the rows below it are those there were.
LEMMA DisplayStep ==
  ASSUME TablesInv, NEW k \in Sensor, NEW word \in IF k = PONDING THEN {0, 1} ELSE Words,
         DisplayReading(k, word)
  PROVE  TablesInv'
<1>. DEFINE new == NewRow(k, word)
            rows == <<new>> \o table[k]
            t == [table EXCEPT ![k] = rows]
<1>1. new \in Row /\ new.file = "none"
  BY NewRowFacts DEF TablesInv, RowsOK, TypeOK
<1>. HIDE DEF new
<1>2. <<new>> \in Seq(Row) /\ Len(<<new>>) = 1 /\ <<new>>[1] = new
  BY <1>1
<1>3. table[k] \in Seq(Row) /\ Len(table[k]) < MaxRows
  BY DEF TablesInv, RowsOK, DisplayReading
<1>4. /\ rows \in Seq(Row) /\ Len(rows) = 1 + Len(table[k])
      /\ \A i \in 1 .. Len(rows) : rows[i] = IF i <= 1 THEN <<new>>[i] ELSE table[k][i - 1]
  BY <1>2, <1>3, ConcatProperties
<1>5. Len(table[k]) \in Nat /\ DOMAIN table[k] = 1 .. Len(table[k])
  BY <1>3, LenProperties
<1>6. \A i \in DOMAIN rows : rows[i].file = "none" \/ \E j \in DOMAIN table[k] : rows[i] = table[k][j]
  <2>1. DOMAIN rows = 1 .. Len(rows)
    BY <1>4, LenProperties
  <2>. SUFFICES ASSUME NEW i \in 1 .. Len(rows)
                PROVE  rows[i].file = "none" \/ \E j \in DOMAIN table[k] : rows[i] = table[k][j]
    BY <2>1
  <2>2. CASE i = 1
    BY <1>1, <1>2, <1>4, <2>2
  <2>3. CASE i # 1
    <3>1. i - 1 \in DOMAIN table[k] /\ rows[i] = table[k][i - 1]
      BY <1>4, <1>5, <2>3
    <3>. QED
      BY <3>1
  <2>. QED
    BY <2>2, <2>3
<1>. HIDE DEF rows
<1>7. \A i \in DOMAIN rows : FiledAs(k, rows[i])
  BY <1>6 DEF TablesInv, FiledOnce, FiledAs
<1>8. Len(rows) <= MaxRows
  BY <1>3, <1>4, <1>5, TablesAssumption
<1>9. t \in [Sensor -> Seq(Row)] /\ t[k] = rows /\ \A j \in Sensor : j # k => t[j] = table[j]
  BY <1>4 DEF TablesInv, RowsOK
<1>10. table' = t
  BY DEF DisplayReading, rows, new
<1>. HIDE DEF t
<1>11. /\ \A j \in Sensor : Len(t[j]) <= MaxRows
       /\ \A j \in Sensor : \A i \in DOMAIN t[j] : FiledAs(j, t[j][i])
  BY <1>7, <1>8, <1>9 DEF TablesInv, RowsOK, TypeOK, FiledOnce, FiledAs
<1>12. UNCHANGED <<release, start, dateTimeBuffer, sorting>>
  BY DEF DisplayReading
<1>. QED
  BY <1>9, <1>10, <1>11, <1>12, TablesReplaced DEF TablesInv, RowsOK, TypeOK, FiledAs, sorting

\* A click leaves the rows of one table in another order.
LEMMA ClickStep ==
  ASSUME TablesInv, NEW k \in Sensor, NEW column \in 1 .. 3, ClickLabel(k, column)
  PROVE  TablesInv'
<1>1. PICK s \in Sorted(k, Last(Comparisons(k, column)), descending', table[k]) :
        table' = [table EXCEPT ![k] = s]
  BY DEF ClickLabel
<1>. DEFINE t == [table EXCEPT ![k] = s]
<1>2. table[k] \in Seq(Row)
  BY DEF TablesInv, RowsOK
<1>3. /\ s \in Seq(Row) /\ Len(s) = Len(table[k])
      /\ \A i \in DOMAIN s : \E j \in DOMAIN table[k] : s[i] = table[k][j]
  BY <1>2, SortedFacts
<1>4. t \in [Sensor -> Seq(Row)] /\ t[k] = s /\ \A j \in Sensor : j # k => t[j] = table[j]
  BY <1>3 DEF TablesInv, RowsOK
<1>5. table' = t
  BY <1>1
<1>. HIDE DEF t
<1>6. \A j \in Sensor : Len(t[j]) <= MaxRows
  BY <1>3, <1>4 DEF TablesInv, RowsOK, TypeOK
<1>7. \A j \in Sensor : \A i \in DOMAIN t[j] : FiledAs(j, t[j][i])
  <2>1. \A j \in Sensor : \A i \in DOMAIN table[j] : FiledAs(j, table[j][i])
    BY DEF TablesInv, FiledOnce, FiledAs
  <2>2. \A i \in DOMAIN s : FiledAs(k, s[i])
    BY <1>3, <2>1, Zenon
  <2>. QED
    BY <1>4, <2>1, <2>2, Zenon
<1>8. /\ UNCHANGED <<release, start, dateTimeBuffer>>
      /\ g_currentlySortedColumn' = column /\ descending' \in BOOLEAN
  BY DEF ClickLabel
<1>. QED
  BY <1>4, <1>5, <1>6, <1>7, <1>8, TablesReplaced DEF TablesInv, RowsOK, TypeOK, FiledAs

\* Saving as text deletes the rows, or leaves the voltage of 2.1 and 2.2 marked.
LEMMA SavedAsTextFacts ==
  ASSUME TablesInv, NEW k \in Sensor
  PROVE  /\ SavedAsText(k) \in Seq(Row)
         /\ Len(SavedAsText(k)) <= MaxRows
         /\ \A i \in DOMAIN SavedAsText(k) : FiledAs(k, SavedAsText(k)[i])
<1>1. table[k] \in Seq(Row) /\ Len(table[k]) <= MaxRows /\ release \in Release
  BY DEF TablesInv, RowsOK, TypeOK
<1>2. CASE k \in DeletedAsText[release]
  <2>1. SavedAsText(k) = <<>>
    BY <1>2 DEF SavedAsText
  <2>. QED
    BY <2>1, TablesAssumption
<1>3. CASE k \notin DeletedAsText[release]
  <2>1. k = VOLTAGE /\ release \in {"2.1", "2.2"}
    BY <1>1, <1>3 DEF Release, DeletedAsText, Saves_2_0, Saves_2_1, Saves_2_2, Saves_2_2_1, Saves_2_3,
      Saves_final, Saves_final2_0, Sensor
  <2>. DEFINE n == Len(table[k])
              row(i) == IF i < n THEN [table[k][i] EXCEPT !.file = "text"] ELSE table[k][i]
  <2>2. n \in Nat /\ DOMAIN table[k] = 1 .. n
    BY <1>1, LenProperties
  <2>3. \A i \in 1 .. n : table[k][i] \in Row /\ FiledAs(k, table[k][i])
    BY <1>1, <2>2, ElementOfSeq DEF TablesInv, FiledOnce, FiledAs
  <2>4. \A i \in 1 .. n : row(i) \in Row /\ FiledAs(k, row(i))
    <3>1. \A r \in Row : /\ [r EXCEPT !.file = "text"] \in Row
                          /\ [r EXCEPT !.file = "text"].file = "text"
      BY DEF Row, File
    <3>2. \A r \in Row : FiledAs(k, [r EXCEPT !.file = "text"])
      BY <2>1, <3>1 DEF FiledAs
    <3>. QED
      BY <2>3, <3>1, <3>2
  <2>5. SavedAsText(k) = [i \in 1 .. n |-> row(i)]
    BY <1>3, <2>2 DEF SavedAsText
  <2>. HIDE DEF n, row
  <2>6. SavedAsText(k) \in Seq(Row) /\ Len(SavedAsText(k)) = n
    BY <2>2, <2>4, <2>5, SeqDef
  <2>. QED
    BY <1>1, <2>2, <2>4, <2>5, <2>6 DEF n
<1>. QED
  BY <1>2, <1>3

\* A report in 2.3 and final marks the rows it has lines for, and one in final2.0
\* deletes all of them.
LEMMA ExportedFacts ==
  ASSUME TablesInv, HasWorkbook, NEW k \in Sensor, NEW lines, k \notin DeletedAsWorkbook,
         NEW rows, rows = [i \in DOMAIN table[k] |->
           IF i <= lines THEN [table[k][i] EXCEPT !.file = "workbook"] ELSE table[k][i]]
  PROVE  rows \in Seq(Row) /\ Len(rows) <= MaxRows /\ \A i \in DOMAIN rows : FiledAs(k, rows[i])
<1>1. table[k] \in Seq(Row) /\ Len(table[k]) <= MaxRows
  BY DEF TablesInv, RowsOK, TypeOK
<1>2. release \in {"2.3", "final"}
  BY DEF HasWorkbook, DeletedAsWorkbook, Exports_final2_0
<1>. DEFINE n == Len(table[k])
            row(i) == IF i <= lines THEN [table[k][i] EXCEPT !.file = "workbook"] ELSE table[k][i]
<1>3. n \in Nat /\ DOMAIN table[k] = 1 .. n
  BY <1>1, LenProperties
<1>4. \A i \in 1 .. n : table[k][i] \in Row /\ FiledAs(k, table[k][i])
  BY <1>1, <1>3, ElementOfSeq DEF TablesInv, FiledOnce, FiledAs
<1>5. \A i \in 1 .. n : row(i) \in Row /\ FiledAs(k, row(i))
  <2>1. \A r \in Row : /\ [r EXCEPT !.file = "workbook"] \in Row
                        /\ [r EXCEPT !.file = "workbook"].file = "workbook"
    BY DEF Row, File
  <2>2. \A r \in Row : FiledAs(k, [r EXCEPT !.file = "workbook"])
    BY <1>2, <2>1 DEF FiledAs
  <2>. QED
    BY <1>4, <2>1, <2>2
<1>6. rows = [i \in 1 .. n |-> row(i)]
  BY <1>3
<1>. HIDE DEF n, row
<1>7. rows \in Seq(Row) /\ Len(rows) = n
  BY <1>3, <1>5, <1>6, SeqDef
<1>. QED
  BY <1>1, <1>3, <1>5, <1>6, <1>7 DEF n

\* The buttons and the timer save some tables, the buttons while monitoring is on.
LEMMA SaveTextStep ==
  ASSUME TablesInv, NEW K, SaveText(K), UNCHANGED <<release, start, sorting>>
  PROVE  TablesInv'
<1>. DEFINE t == [k \in Sensor |-> IF k \in K THEN SavedAsText(k) ELSE table[k]]
<1>1. table' = t /\ UNCHANGED dateTimeBuffer
  BY DEF SaveText
<1>2. ASSUME NEW k \in Sensor
      PROVE  /\ t[k] \in Seq(Row) /\ Len(t[k]) <= MaxRows
             /\ \A i \in DOMAIN t[k] : FiledAs(k, t[k][i])
  <2>1. CASE k \in K
    <3>1. t[k] = SavedAsText(k)
      BY <2>1
    <3>. HIDE DEF t
    <3>. QED
      BY <3>1, SavedAsTextFacts
  <2>2. CASE k \notin K
    <3>1. t[k] = table[k]
      BY <2>2
    <3>. HIDE DEF t
    <3>. QED
      BY <3>1 DEF TablesInv, RowsOK, TypeOK, FiledOnce, FiledAs
  <2>. QED
    BY <2>1, <2>2
<1>3. t \in [Sensor -> Seq(Row)]
  BY <1>2
<1>. HIDE DEF t
<1>. QED
  BY <1>1, <1>2, <1>3, TablesReplaced DEF TablesInv, RowsOK, TypeOK, FiledAs, sorting

\* Every workbook has a line for each of its first rows, and names the file with
\* the date buffer.
LEMMA SaveWorkbookStep ==
  ASSUME TablesInv, SaveWorkbook, UNCHANGED <<release, start, sorting>>
  PROVE  TablesInv'
<1>1. PICK lines \in 0 .. MaxRows :
        table' = [k \in Sensor |->
          IF k \in DeletedAsWorkbook THEN <<>>
          ELSE [i \in DOMAIN table[k] |->
                 IF i <= lines THEN [table[k][i] EXCEPT !.file = "workbook"] ELSE table[k][i]]]
  BY DEF SaveWorkbook
<1>. DEFINE marked(k) == [i \in DOMAIN table[k] |->
              IF i <= lines THEN [table[k][i] EXCEPT !.file = "workbook"] ELSE table[k][i]]
            t == [k \in Sensor |-> IF k \in DeletedAsWorkbook THEN <<>> ELSE marked(k)]
<1>2. table' = t
  BY <1>1
<1>3. ASSUME NEW k \in Sensor
      PROVE  /\ t[k] \in Seq(Row) /\ Len(t[k]) <= MaxRows
             /\ \A i \in DOMAIN t[k] : FiledAs(k, t[k][i])
  <2>1. CASE k \in DeletedAsWorkbook
    <3>1. t[k] = <<>>
      BY <2>1
    <3>. HIDE DEF t
    <3>. QED
      BY <3>1, TablesAssumption
  <2>2. CASE k \notin DeletedAsWorkbook
    <3>1. t[k] = marked(k)
      BY <2>2
    <3>2. marked(k) \in Seq(Row) /\ Len(marked(k)) <= MaxRows
            /\ \A i \in DOMAIN marked(k) : FiledAs(k, marked(k)[i])
      BY <2>2, ExportedFacts DEF SaveWorkbook
    <3>. HIDE DEF t, marked
    <3>. QED
      BY <3>1, <3>2
  <2>. QED
    BY <2>1, <2>2
<1>4. t \in [Sensor -> Seq(Row)]
  BY <1>3
<1>5. dateTimeBuffer' \in Date
  <2>1. dateTimeBuffer' = [dateTimeBuffer EXCEPT !.format = "file"] /\ dateTimeBuffer \in Date
    BY DEF SaveWorkbook, TablesInv, RowsOK, TypeOK
  <2>. QED
    BY <2>1 DEF Date
<1>. HIDE DEF t
<1>. QED
  BY <1>2, <1>3, <1>4, <1>5, TablesReplaced DEF TablesInv, RowsOK, TypeOK, FiledAs, sorting

-----------------------------------------------------------------------------
\* The theorems

LEMMA TablesInit ==
  Init => TablesInv
<1>. SUFFICES ASSUME Init
              PROVE  TablesInv
  OBVIOUS
<1>1. table \in [Sensor -> Seq(Row)] /\ \A k \in Sensor : table[k] = <<>>
  BY DEF Init
<1>2. dateTimeBuffer \in Date
  BY TablesAssumption DEF Init, Date
<1>3. \A k \in Sensor : Len(table[k]) = 0 /\ DOMAIN table[k] = {}
  BY <1>1
<1>4. TypeOK
  <2>1. \A k \in Sensor : Len(table[k]) <= MaxRows
    BY <1>3, TablesAssumption
  <2>2. \A k \in Sensor : \A i \in DOMAIN table[k] : table[k][i] \in Row
    BY <1>3, Zenon
  <2>3. release \in Release /\ start \in BOOLEAN /\ descending \in BOOLEAN
    BY Zenon DEF Init
  <2>4. g_currentlySortedColumn \in 0 .. 3
    BY DEF Init
  <2>. QED
    BY <1>2, <2>1, <2>2, <2>3, <2>4, Zenon DEF TypeOK
<1>5. FiledOnce
  BY <1>3 DEF FiledOnce
<1>. QED
  BY <1>1, <1>4, <1>5 DEF TablesInv, RowsOK

LEMMA TablesStep ==
  TablesInv /\ [Next]_vars => TablesInv'
<1>. SUFFICES ASSUME TablesInv, [Next]_vars
              PROVE  TablesInv'
  OBVIOUS
<1>0. /\ start \in BOOLEAN /\ dateTimeBuffer \in Date
      /\ g_currentlySortedColumn \in 0 .. 3 /\ descending \in BOOLEAN
  BY DEF TablesInv, RowsOK, TypeOK
<1>1. CASE UNCHANGED vars
  BY <1>0, <1>1, TablesUnchanged DEF vars, sorting
<1>2. ASSUME NEW k \in Sensor \ {PONDING}, NEW word \in Words, DisplayReading(k, word)
      PROVE  TablesInv'
  BY <1>2, DisplayStep
<1>3. ASSUME NEW state \in {0, 1}, DisplayReading(PONDING, state)
      PROVE  TablesInv'
  BY <1>3, DisplayStep DEF Sensor
<1>4. CASE TimerDisplay
  <2>1. dateTimeBuffer' \in Date
    BY <1>0, <1>4, TablesAssumption DEF TimerDisplay, Date
  <2>. QED
    BY <1>0, <1>4, <2>1, TablesUnchanged DEF TimerDisplay, sorting
<1>5. ASSUME NEW k \in Sensor, NEW column \in 1 .. 3, ClickLabel(k, column)
      PROVE  TablesInv'
  BY <1>5, ClickStep
<1>6. ASSUME NEW k \in Sensor, CallSave(k)
      PROVE  TablesInv'
  BY <1>6, SaveTextStep DEF CallSave
<1>7. CASE TimerSave
  BY <1>7, SaveTextStep, SaveWorkbookStep DEF TimerSave
<1>8. CASE ExportExcel
  BY <1>8, SaveWorkbookStep DEF ExportExcel
<1>9. CASE SwitchMonitor
  BY <1>0, <1>9, TablesUnchanged DEF SwitchMonitor, sorting
<1>. QED
  BY <1>1, <1>2, <1>3, <1>4, <1>5, <1>6, <1>7, <1>8, <1>9 DEF Next

LEMMA Invariant ==
  Spec => []TablesInv
<1>. QED
  BY TablesInit, TablesStep, PTL DEF Spec

\* In every release the tables hold rows, within the bounds followed, and the date
\* buffer and the sort state keep their values, for all readings and limits.
THEOREM TypeCorrect ==
  Spec => []TypeOK
<1>1. TablesInv => TypeOK
  BY DEF TablesInv, RowsOK
<1>. QED
  BY <1>1, Invariant, PTL

\* A row that is in a file is not in its table any more, but for the rows of the
\* voltage in 2.1 and 2.2 and the workbooks of 2.3 and final: for any rows, sorted
\* and saved in any order (TimerSave, SaveVoltage, saveToEXCEL).
THEOREM FiledOnceCorrect ==
  Spec => []FiledOnce
<1>1. TablesInv => FiledOnce
  BY DEF TablesInv
<1>. QED
  BY <1>1, Invariant, PTL

=============================================================================
