--------------------------- MODULE RecordsProofs ---------------------------
(***************************************************************************)
(* Proofs about Records, for any number of records and nested popups, any  *)
(* period and any set of periods to choose from.                           *)
(***************************************************************************)
EXTENDS Records, SequenceTheorems, TLAPS

-----------------------------------------------------------------------------
\* Sequences

\* Reading a sequence backwards gives a sequence over the same set (Reverse,
\* used by TextRows).
LEMMA ReverseType ==
  ASSUME NEW S, NEW s \in Seq(S)
  PROVE  Reverse(s) \in Seq(S)
  BY DEF Reverse

\* A prefix of a sequence is one over the same set (SubSeq, used by Front in
\* TextRows, and by BookRows).
LEMMA PrefixType ==
  ASSUME NEW S, NEW s \in Seq(S), NEW n \in Int, n <= Len(s)
  PROVE  SubSeq(s, 1, n) \in Seq(S)
<1>1. \A i \in 1 .. n : s[i] \in S
  BY ElementOfSeq
<1>. QED
  BY <1>1, SubSeqProperties

\* Rearranging the rows of a sequence gives a sequence over the same set (used
\* by SortTable).
LEMMA RearrangedType ==
  ASSUME NEW S, NEW s \in Seq(S), NEW order \in [DOMAIN s -> DOMAIN s]
  PROVE  [i \in DOMAIN s |-> s[order[i]]] \in Seq(S)
<1>. DEFINE n == Len(s)
            t == [i \in 1 .. n |-> s[order[i]]]
<1>1. n \in Nat /\ DOMAIN s = 1 .. n
  BY LenProperties
<1>2. \A i \in 1 .. n : s[order[i]] \in S
  BY <1>1, ElementOfSeq
<1>3. t \in [1 .. n -> S]
  BY <1>2
<1>4. t \in Seq(S)
  <2>. HIDE DEF n, t
  <2>. QED
    BY <1>1, <1>3, SeqDef
<1>. QED
  BY <1>1, <1>4

-----------------------------------------------------------------------------
\* The periodic save

\* The part of the type invariant that the countdown needs.
CountdownType ==
  /\ interval \in Int
  /\ saveTime \in Nat \ {0}
  /\ modal \in Seq({"button", "timer"})

\* The countdown is set again by whatever saves, and the period is never 0: it
\* goes below 0 only behind a popup, whose end sets it again.
LEMMA CountdownStep ==
  CountdownType /\ CountdownArmed /\ [Next]_vars => CountdownType' /\ CountdownArmed'
<1>. SUFFICES ASSUME CountdownType, CountdownArmed, [Next]_vars
              PROVE  CountdownType' /\ CountdownArmed'
  OBVIOUS
<1>0. \A caller : Rearmed(caller) \in 0 .. saveTime
  BY DEF Rearmed, CountdownType
<1>1. ASSUME UNCHANGED <<interval, saveTime, modal>>
      PROVE  CountdownType' /\ CountdownArmed'
  BY <1>1 DEF CountdownType, CountdownArmed
<1>2. ASSUME UNCHANGED <<saveTime, modal>>, interval' \in 0 .. saveTime
      PROVE  CountdownType' /\ CountdownArmed'
  BY <1>2 DEF CountdownType, CountdownArmed
<1>3. ASSUME NEW caller \in {"button", "timer"}, TemplateMissing(caller),
             interval' \in Int, UNCHANGED saveTime
      PROVE  CountdownType' /\ CountdownArmed'
  <2>1. modal' \in Seq({"button", "timer"}) /\ modal' # <<>>
    BY <1>3, AppendProperties DEF TemplateMissing, CountdownType
  <2>. QED
    BY <1>3, <2>1 DEF CountdownType, CountdownArmed
<1>4. CASE ExportExcel
  <2>1. ASSUME WriteBook, interval' = Rearmed("button")
        PROVE  CountdownType' /\ CountdownArmed'
    BY <1>0, <1>2, <1>4, <2>1 DEF WriteBook, ExportExcel, settings
  <2>2. ASSUME TemplateMissing("button"), UNCHANGED interval
        PROVE  CountdownType' /\ CountdownArmed'
    BY <1>3, <1>4, <2>2 DEF ExportExcel, settings, CountdownType
  <2>. QED
    BY <1>4, <2>1, <2>2 DEF ExportExcel
<1>5. CASE DismissError
  <2>1. modal' \in Seq({"button", "timer"})
    <3>1. Len(modal) - 1 \in Int /\ Len(modal) - 1 <= Len(modal)
      BY LenProperties DEF CountdownType
    <3>2. SubSeq(modal, 1, Len(modal) - 1) \in Seq({"button", "timer"})
      BY <3>1, PrefixType, Zenon DEF CountdownType
    <3>. QED
      BY <1>5, <3>2, Zenon DEF DismissError, Front
  <2>2. interval' \in 0 .. saveTime /\ saveTime' = saveTime
    BY <1>0, <1>5 DEF DismissError, settings
  <2>. QED
    BY <2>1, <2>2 DEF CountdownType, CountdownArmed
<1>6. CASE TimerSave
  <2>. USE <1>6 DEF TimerSave, settings
  <2>1. CASE CountDown
    <3>1. interval' = interval - 1 /\ interval # 0 /\ UNCHANGED <<saveTime, modal>>
      BY <2>1 DEF CountDown
    <3>. QED
      BY <3>1 DEF CountdownType, CountdownArmed
  <2>2. CASE PeriodicText
    BY <1>0, <1>2, <2>2 DEF PeriodicText
  <2>3. ASSUME WriteBook, interval' = Rearmed("timer")
        PROVE  CountdownType' /\ CountdownArmed'
    BY <1>0, <1>2, <2>3 DEF WriteBook
  <2>4. ASSUME TemplateMissing("timer"), interval' = interval - 1
        PROVE  CountdownType' /\ CountdownArmed'
    BY <1>3, <2>4 DEF CountdownType
  <2>. QED
    BY <2>1, <2>2, <2>3, <2>4 DEF PeriodicExcel
<1>7. ASSUME NEW minutes \in SaveMinutes, NEW type, NEW ipValid,
             SaveSetting(minutes, type, ipValid)
      PROVE  CountdownType' /\ CountdownArmed'
  <2>1. minutes * Minute \in Nat \ {0}
    BY RecordsAssumption
  <2>. QED
    BY <1>7, <2>1 DEF SaveSetting, CountdownType, CountdownArmed
<1>8. CASE \E k \in Sensor : DisplayReading(k) \/ SortTable(k) \/ CallSave(k)
  BY <1>1, <1>8 DEF DisplayReading, SortTable, CallSave, settings
<1>9. CASE TimerDisplay \/ StartMonitor \/ MonitoringStops
  BY <1>1, <1>9 DEF TimerDisplay, StartMonitor, MonitoringStops, settings
<1>10. CASE UNCHANGED vars
  BY <1>1, <1>10 DEF vars, settings
<1>. QED
  BY <1>4, <1>5, <1>6, <1>7, <1>8, <1>9, <1>10 DEF Next, SomeSaveSetting

\* The countdown invariant and the part of the types it rests on.
LEMMA CountdownInvariant == Spec => [](CountdownType /\ CountdownArmed)
<1>1. Init => CountdownType /\ CountdownArmed
  <2>. SUFFICES ASSUME Init PROVE CountdownType /\ CountdownArmed
    OBVIOUS
  <2>1. DefaultMinutes * Minute \in Nat \ {0}
    BY RecordsAssumption
  <2>. QED
    BY <2>1, EmptySeq DEF Init, CountdownType, CountdownArmed
<1>. QED
  BY <1>1, CountdownStep, PTL DEF Spec

\* Whenever no popup is open the countdown is between 0 and the period: the
\* periodic save comes, whatever saved before and however the settings change.
THEOREM CountdownCorrect == Spec => []CountdownArmed
  BY CountdownInvariant, PTL

-----------------------------------------------------------------------------
\* Type correctness

Rows == [Sensor -> Seq(Row)]

\* An empty table is a table.
LEMMA NoRowsType == NoRows \in Rows
  BY EmptySeq DEF NoRows, Rows

\* What is written to a text file are rows (TextRows).
LEMMA TextRowsType ==
  ASSUME table \in Rows, NEW k \in Sensor
  PROVE  TextRows(k) \in Seq(Row)
<1>. DEFINE s == table[k]
<1>1. s \in Seq(Row)
  BY DEF Rows
<1>2. CASE s = <<>>
  BY <1>2, EmptySeq DEF TextRows
<1>3. CASE s # <<>>
  <2>1. Len(s) - 1 \in Int /\ Len(s) - 1 <= Len(s)
    BY <1>1, LenProperties
  <2>2. Front(s) \in Seq(Row)
    BY <1>1, <2>1, PrefixType, Zenon DEF Front
  <2>3. TextRows(k) = Reverse(Front(s))
    BY <1>3, Zenon DEF TextRows
  <2>. QED
    BY <2>2, <2>3, ReverseType, Zenon
<1>. QED
  BY <1>2, <1>3

\* What is written to a workbook are rows (BookRows).
LEMMA BookRowsType ==
  ASSUME table \in Rows, NEW k \in Sensor
  PROVE  BookRows(k) \in Seq(Row)
<1>. DEFINE s == table[k]
            range == RangeRows(Len(table[TEMPERATURE]))
<1>1. s \in Seq(Row) /\ Len(s) \in Nat
  BY LenProperties DEF Rows
<1>2. range \in Int
  <2>1. Len(table[TEMPERATURE]) \in Nat
    BY LenProperties DEF Rows, Sensor, VOLTAGE, TEMPERATURE, PONDING
  <2>. QED
    BY <2>1 DEF RangeRows
<1>3. BookRows(k) = IF Len(s) <= range THEN s ELSE SubSeq(s, 1, range)
  BY DEF BookRows
<1>4. CASE Len(s) <= range
  BY <1>1, <1>3, <1>4, Zenon
<1>5. CASE ~(Len(s) <= range)
  <2>1. range <= Len(s)
    <3>. HIDE DEF range, s
    <3>. QED
      BY <1>1, <1>2, <1>5
  <2>2. SubSeq(s, 1, range) \in Seq(Row)
    BY <1>1, <1>2, <2>1, PrefixType, Zenon
  <2>. QED
    BY <1>3, <1>5, <2>2, Zenon
<1>. QED
  BY <1>4, <1>5

\* Saving as text leaves rows in the files and in the tables (SaveText).
LEMMA SaveTextType ==
  ASSUME table \in Rows, text \in Rows, NEW K, SaveText(K)
  PROVE  table' \in Rows /\ text' \in Rows
<1>1. \A k \in Sensor : text[k] \o TextRows(k) \in Seq(Row)
  BY TextRowsType, ConcatProperties DEF Rows
<1>. QED
  BY <1>1, EmptySeq DEF SaveText, Rows

\* So does saving as a workbook (WriteBook).
LEMMA WriteBookType ==
  ASSUME table \in Rows, book \in Rows, WriteBook
  PROVE  table' \in Rows /\ book' \in Rows
<1>1. \A k \in Sensor : book[k] \o BookRows(k) \in Seq(Row)
  BY BookRowsType, ConcatProperties DEF Rows
<1>. QED
  BY <1>1, NoRowsType DEF WriteBook, Rows

\* The types of what CountdownType leaves out.
RowsType ==
  /\ start \in BOOLEAN
  /\ table \in Rows
  /\ text \in Rows
  /\ book \in Rows
  /\ dateTimeBuffer \in DateFormat
  /\ saveType \in {TXT, EXCEL}
  /\ nextId \in Nat \ {0}

\* One step of any callback keeps the rows, the files and the settings in
\* their types.
LEMMA RowsStep ==
  RowsType /\ [Next]_vars => RowsType'
<1>. SUFFICES ASSUME RowsType, [Next]_vars PROVE RowsType'
  OBVIOUS
<1>1. ASSUME NEW k \in Sensor, DisplayReading(k)
      PROVE  RowsType'
  <2>. DEFINE row == [id |-> nextId, date |-> dateTimeBuffer]
  <2>1. row \in Row
    BY DEF Row, RowsType
  <2>2. <<row>> \in Seq(Row) /\ table[k] \in Seq(Row)
    BY <2>1 DEF RowsType, Rows
  <2>3. <<row>> \o table[k] \in Seq(Row)
    BY <2>2, ConcatProperties
  <2>4. table' = [table EXCEPT ![k] = <<row>> \o table[k]]
    BY <1>1 DEF DisplayReading
  <2>5. table' \in Rows
    <3>. HIDE DEF row
    <3>. QED
      BY <2>3, <2>4 DEF RowsType, Rows
  <2>. QED
    BY <1>1, <2>5 DEF DisplayReading, RowsType, files, settings
<1>2. ASSUME NEW k \in Sensor, SortTable(k)
      PROVE  RowsType'
  <2>1. PICK order \in [DOMAIN table[k] -> DOMAIN table[k]] :
          table' = [table EXCEPT ![k] = [i \in DOMAIN table[k] |-> table[k][order[i]]]]
    BY <1>2 DEF SortTable
  <2>2. [i \in DOMAIN table[k] |-> table[k][order[i]]] \in Seq(Row)
    BY RearrangedType, Zenon DEF RowsType, Rows
  <2>3. table' \in Rows
    BY <2>1, <2>2 DEF RowsType, Rows
  <2>. QED
    BY <1>2, <2>3 DEF SortTable, RowsType, files, settings
<1>3. ASSUME NEW k \in Sensor, CallSave(k)
      PROVE  RowsType'
  <2>1. table' \in Rows /\ text' \in Rows
    BY <1>3, SaveTextType DEF CallSave, RowsType
  <2>. QED
    BY <1>3, <2>1 DEF CallSave, SaveText, RowsType, settings
<1>4. ASSUME WriteBook, UNCHANGED <<start, settings, nextId>>
      PROVE  RowsType'
  <2>1. table' \in Rows /\ book' \in Rows
    BY <1>4, WriteBookType DEF RowsType
  <2>. QED
    BY <1>4, <2>1 DEF WriteBook, RowsType, settings, DateFormat
<1>5. ASSUME NEW caller, TemplateMissing(caller), UNCHANGED <<start, settings, nextId>>
      PROVE  RowsType'
  BY <1>5 DEF TemplateMissing, RowsType, settings, files
<1>6. CASE ExportExcel
  BY <1>4, <1>5, <1>6 DEF ExportExcel
<1>7. CASE DismissError
  BY <1>7, NoRowsType DEF DismissError, RowsType, settings, files, DateFormat
<1>8. CASE TimerSave
  <2>1. CASE CountDown
    BY <1>8, <2>1 DEF TimerSave, CountDown, RowsType, settings, files
  <2>2. CASE PeriodicText
    <3>1. table' \in Rows /\ text' \in Rows
      BY <2>2, SaveTextType DEF PeriodicText, RowsType
    <3>. QED
      BY <1>8, <2>2, <3>1 DEF TimerSave, PeriodicText, SaveText, RowsType, settings
  <2>3. CASE PeriodicExcel
    BY <1>4, <1>5, <1>8, <2>3 DEF TimerSave, PeriodicExcel
  <2>. QED
    BY <1>8, <2>1, <2>2, <2>3 DEF TimerSave
<1>9. ASSUME NEW minutes \in SaveMinutes, NEW type \in {TXT, EXCEL}, NEW ipValid,
             SaveSetting(minutes, type, ipValid)
      PROVE  RowsType'
  BY <1>9 DEF SaveSetting, RowsType, files
<1>10. CASE TimerDisplay \/ StartMonitor \/ MonitoringStops
  BY <1>10 DEF TimerDisplay, StartMonitor, MonitoringStops, RowsType, files, settings,
               DateFormat
<1>11. CASE UNCHANGED vars
  BY <1>11 DEF vars, RowsType, files, settings
<1>. QED
  BY <1>1, <1>2, <1>3, <1>6, <1>7, <1>8, <1>9, <1>10, <1>11 DEF Next, SomeSaveSetting

\* The rows, the files and the settings keep their types.
LEMMA RowsCorrect == Spec => []RowsType
<1>1. Init => RowsType
  <2>. SUFFICES ASSUME Init PROVE RowsType
    OBVIOUS
  <2>1. start \in BOOLEAN /\ dateTimeBuffer \in DateFormat /\ saveType \in {TXT, EXCEL}
    BY Zenon DEF Init, DateFormat
  <2>2. nextId \in Nat \ {0}
    BY DEF Init
  <2>3. table \in Rows /\ text \in Rows /\ book \in Rows
    BY NoRowsType, Zenon DEF Init
  <2>. QED
    BY <2>1, <2>2, <2>3 DEF RowsType
<1>. QED
  BY <1>1, RowsStep, PTL DEF Spec

\* Every variable keeps its type, whatever the readings, the buttons, the
\* timers and the popups do.
THEOREM TypeCorrect == Spec => []TypeOK
<1>1. RowsType /\ CountdownType => TypeOK
  BY DEF RowsType, CountdownType, Rows, TypeOK
<1>. QED
  BY <1>1, RowsCorrect, CountdownInvariant, PTL

-----------------------------------------------------------------------------
\* Saved at most once

\* No two rows of s are of the same record.
Distinct(s) == \A i, j \in DOMAIN s : s[i].id = s[j].id => i = j

\* No row of s is of the same record as a row of t.
Apart(s, t) == \A i \in DOMAIN s, j \in DOMAIN t : s[i].id # t[j].id

\* t consists of rows of s, each taken once, in any order: what is written of a
\* table, and what sorting makes of one.
Drawn(t, s) ==
  \E p \in [DOMAIN t -> DOMAIN s] :
    /\ \A i, j \in DOMAIN t : p[i] = p[j] => i = j
    /\ \A i \in DOMAIN t : t[i] = s[p[i]]

Below(s, n) == \A i \in DOMAIN s : s[i].id < n

\* Rows drawn from distinct rows are distinct, apart from whatever those are
\* apart from, and no newer.
LEMMA DrawnFacts ==
  ASSUME NEW s, NEW t, Drawn(t, s)
  PROVE  /\ Distinct(s) => Distinct(t)
         /\ \A u : Apart(s, u) => Apart(t, u)
         /\ \A n : Below(s, n) => Below(t, n)
<1>1. PICK p \in [DOMAIN t -> DOMAIN s] :
        /\ \A i, j \in DOMAIN t : p[i] = p[j] => i = j
        /\ \A i \in DOMAIN t : t[i] = s[p[i]]
  BY Zenon DEF Drawn
<1>2. \A i \in DOMAIN t : p[i] \in DOMAIN s /\ t[i].id = s[p[i]].id
  BY <1>1
<1>3. Distinct(s) => Distinct(t)
  <2>. SUFFICES ASSUME Distinct(s), NEW i \in DOMAIN t, NEW j \in DOMAIN t,
                       t[i].id = t[j].id
                PROVE  i = j
    BY Zenon DEF Distinct
  <2>1. s[p[i]].id = s[p[j]].id
    BY <1>2
  <2>2. p[i] = p[j]
    BY <1>2, <2>1, Zenon DEF Distinct
  <2>. QED
    BY <1>1, <2>2
<1>4. \A u : Apart(s, u) => Apart(t, u)
  BY <1>2, Zenon DEF Apart
<1>5. \A n : Below(s, n) => Below(t, n)
  BY <1>2 DEF Below
<1>. QED
  BY <1>3, <1>4, <1>5

\* Concatenation takes distinctness and apartness from its parts, and gives
\* them back.
LEMMA ConcatFacts ==
  ASSUME NEW s \in Seq(Row), NEW t \in Seq(Row)
  PROVE  /\ Distinct(s \o t) <=> Distinct(s) /\ Distinct(t) /\ Apart(s, t)
         /\ \A u : Apart(u, s \o t) <=> Apart(u, s) /\ Apart(u, t)
         /\ \A u : Apart(s \o t, u) <=> Apart(s, u) /\ Apart(t, u)
         /\ \A n : Below(s \o t, n) <=> Below(s, n) /\ Below(t, n)
<1>. DEFINE m == Len(s)
            n == Len(t)
            st == s \o t
<1>1. m \in Nat /\ n \in Nat /\ DOMAIN s = 1 .. m /\ DOMAIN t = 1 .. n
  BY LenProperties
<1>2. /\ DOMAIN st = 1 .. m + n
      /\ \A i \in 1 .. m + n : st[i] = IF i <= m THEN s[i] ELSE t[i - m]
  BY ConcatProperties, LenProperties
<1>3. /\ \A i \in 1 .. m : i \in 1 .. m + n /\ st[i] = s[i]
      /\ \A i \in 1 .. n : m + i \in 1 .. m + n /\ st[m + i] = t[i]
      /\ \A i \in 1 .. m + n : i \in 1 .. m \/ (i - m \in 1 .. n /\ i = m + (i - m))
  <2>. HIDE DEF m, n, st
  <2>. QED
    BY <1>1, <1>2
<1>. HIDE DEF m, n, st
<1>4. Distinct(st) => Distinct(s) /\ Distinct(t) /\ Apart(s, t)
  <2>. SUFFICES ASSUME Distinct(st) PROVE Distinct(s) /\ Distinct(t) /\ Apart(s, t)
    OBVIOUS
  <2>1. Distinct(s)
    BY <1>1, <1>2, <1>3 DEF Distinct
  <2>2. ASSUME NEW i \in 1 .. n, NEW j \in 1 .. n, t[i].id = t[j].id PROVE i = j
    <3>1. m + i = m + j
      BY <1>2, <1>3, <2>2 DEF Distinct
    <3>. QED
      BY <1>1, <3>1
  <2>3. ASSUME NEW i \in 1 .. m, NEW j \in 1 .. n PROVE s[i].id # t[j].id
    <3>1. i # m + j
      BY <1>1
    <3>. QED
      BY <1>2, <1>3, <3>1 DEF Distinct
  <2>. QED
    BY <1>1, <2>1, <2>2, <2>3 DEF Distinct, Apart
<1>5. ASSUME Distinct(s), Distinct(t), Apart(s, t)
      PROVE  Distinct(st)
  <2>. SUFFICES ASSUME NEW i \in 1 .. m + n, NEW j \in 1 .. m + n, st[i].id = st[j].id
                PROVE  i = j
    BY <1>2 DEF Distinct
  <2>1. CASE i \in 1 .. m /\ j \in 1 .. m
    BY <1>1, <1>3, <1>5, <2>1 DEF Distinct
  <2>2. CASE i \in 1 .. m /\ j - m \in 1 .. n
    <3>1. st[i] = s[i] /\ st[j] = t[j - m]
      BY <1>1, <1>3, <2>2
    <3>. QED
      BY <1>1, <1>5, <2>2, <3>1 DEF Apart
  <2>3. CASE j \in 1 .. m /\ i - m \in 1 .. n
    <3>1. st[j] = s[j] /\ st[i] = t[i - m]
      BY <1>1, <1>3, <2>3
    <3>. QED
      BY <1>1, <1>5, <2>3, <3>1 DEF Apart
  <2>4. CASE i - m \in 1 .. n /\ j - m \in 1 .. n
    <3>1. st[i] = t[i - m] /\ st[j] = t[j - m]
      BY <1>1, <1>3, <2>4
    <3>2. i - m = j - m
      BY <1>1, <1>5, <2>4, <3>1 DEF Distinct
    <3>. QED
      BY <1>1, <3>2
  <2>. QED
    BY <1>1, <1>3, <2>1, <2>2, <2>3, <2>4
<1>6. ASSUME NEW u PROVE Apart(u, st) <=> Apart(u, s) /\ Apart(u, t)
  BY <1>1, <1>2, <1>3 DEF Apart
<1>7. ASSUME NEW u PROVE Apart(st, u) <=> Apart(s, u) /\ Apart(t, u)
  BY <1>1, <1>2, <1>3 DEF Apart
<1>8. ASSUME NEW b PROVE Below(st, b) <=> Below(s, b) /\ Below(t, b)
  BY <1>1, <1>2, <1>3 DEF Below
<1>. QED
  BY <1>4, <1>5, <1>6, <1>7, <1>8 DEF st

\* An empty table has nothing to say, and a new row is apart from all older ones.
LEMMA EmptyFacts ==
  /\ Distinct(<<>>) /\ \A n : Below(<<>>, n)
  /\ \A u : Apart(<<>>, u) /\ Apart(u, <<>>)
  BY DEF Distinct, Below, Apart

LEMMA NewRowFacts ==
  ASSUME NEW row, NEW n \in Nat, row.id = n
  PROVE  /\ Distinct(<<row>>) /\ Below(<<row>>, n + 1)
         /\ \A u : Below(u, n) => Apart(<<row>>, u)
<1>1. DOMAIN <<row>> = {1} /\ <<row>>[1].id = n
  OBVIOUS
<1>2. Distinct(<<row>>) /\ Below(<<row>>, n + 1)
  BY <1>1 DEF Distinct, Below
<1>3. ASSUME NEW u, Below(u, n) PROVE Apart(<<row>>, u)
  <2>. SUFFICES ASSUME NEW j \in DOMAIN u PROVE n # u[j].id
    BY <1>1 DEF Apart
  <2>1. u[j].id < n
    BY <1>3 DEF Below
  <2>. QED
    BY <2>1
<1>. QED
  BY <1>2, <1>3

\* Apartness goes both ways.
LEMMA ApartSym == \A s, t : Apart(s, t) => Apart(t, s)
  BY Zenon DEF Apart

\* Sorting rearranges rows (SortTable).
LEMMA SortedDrawn ==
  ASSUME NEW s \in Seq(Row), NEW order \in [DOMAIN s -> DOMAIN s], IsInjective(order)
  PROVE  Drawn([i \in DOMAIN s |-> s[order[i]]], s)
<1>. DEFINE t == [i \in DOMAIN s |-> s[order[i]]]
<1>1. DOMAIN t = DOMAIN s /\ \A i \in DOMAIN t : t[i] = s[order[i]]
  OBVIOUS
<1>2. \A i, j \in DOMAIN t : order[i] = order[j] => i = j
  BY <1>1 DEF IsInjective
<1>. HIDE DEF t
<1>3. Drawn(t, s)
  BY <1>1, <1>2, Zenon DEF Drawn
<1>. QED
  BY <1>3 DEF t

\* A prefix, read in either direction, takes each of its rows once.
LEMMA PrefixDrawn ==
  ASSUME NEW s \in Seq(Row), NEW n \in 0 .. Len(s)
  PROVE  Drawn(SubSeq(s, 1, n), s) /\ Drawn(Reverse(SubSeq(s, 1, n)), s)
<1>. DEFINE t == SubSeq(s, 1, n)
            r == Reverse(t)
<1>1. Len(s) \in Nat /\ DOMAIN s = 1 .. Len(s)
  BY LenProperties
<1>2. t \in Seq(Row) /\ Len(t) = n /\ DOMAIN t = 1 .. n
  <2>1. \A i \in 1 .. n : s[i] \in Row
    BY <1>1, ElementOfSeq
  <2>2. t \in Seq(Row) /\ Len(t) = IF 1 <= n THEN n - 1 + 1 ELSE 0
    BY <2>1, SubSeqProperties
  <2>. QED
    BY <2>2, LenProperties
<1>3. \A i \in 1 .. n : t[i] = s[i]
  <2>1. \A i \in 1 .. n : s[i] \in Row
    BY <1>1, ElementOfSeq
  <2>. QED
    BY <2>1, SubSeqProperties
<1>4. DOMAIN r = 1 .. n /\ \A i \in 1 .. n : r[i] = t[n - i + 1]
  BY <1>2 DEF Reverse
<1>. DEFINE p == [i \in 1 .. n |-> i]
            q == [i \in 1 .. n |-> n - i + 1]
<1>5. p \in [DOMAIN t -> DOMAIN s] /\ q \in [DOMAIN r -> DOMAIN s]
  BY <1>1, <1>2, <1>4
<1>6. /\ \A i, j \in DOMAIN t : p[i] = p[j] => i = j
      /\ \A i \in DOMAIN t : t[i] = s[p[i]]
  BY <1>2, <1>3
<1>7. /\ \A i, j \in DOMAIN r : q[i] = q[j] => i = j
      /\ \A i \in DOMAIN r : r[i] = s[q[i]]
  BY <1>3, <1>4
<1>. HIDE DEF t, r, p, q
<1>8. Drawn(t, s)
  BY <1>5, <1>6, Zenon DEF Drawn
<1>9. Drawn(r, s)
  BY <1>5, <1>7, Zenon DEF Drawn
<1>. QED
  BY <1>8, <1>9 DEF t, r

\* What goes to a file is drawn from the table (TextRows, BookRows).
LEMMA TextRowsDrawn ==
  ASSUME table \in Rows, NEW k \in Sensor
  PROVE  Drawn(TextRows(k), table[k])
<1>. DEFINE s == table[k]
<1>1. s \in Seq(Row) /\ Len(s) \in Nat
  BY LenProperties DEF Rows
<1>2. CASE s = <<>>
  <2>1. TextRows(k) = SubSeq(s, 1, 0)
    BY <1>2, SubSeqEmpty DEF TextRows
  <2>. QED
    BY <1>1, <2>1, PrefixDrawn
<1>3. CASE s # <<>>
  <2>1. TextRows(k) = Reverse(SubSeq(s, 1, Len(s) - 1))
    BY <1>3, Zenon DEF TextRows, Front
  <2>2. Len(s) - 1 \in 0 .. Len(s)
    BY <1>1, <1>3, EmptySeq
  <2>. QED
    BY <1>1, <2>1, <2>2, PrefixDrawn
<1>. QED
  BY <1>2, <1>3

LEMMA BookRowsDrawn ==
  ASSUME table \in Rows, NEW k \in Sensor
  PROVE  Drawn(BookRows(k), table[k])
<1>. DEFINE s == table[k]
            range == RangeRows(Len(table[TEMPERATURE]))
<1>1. s \in Seq(Row) /\ Len(s) \in Nat
  BY LenProperties DEF Rows
<1>2. range \in Nat
  <2>1. Len(table[TEMPERATURE]) \in Nat
    BY LenProperties DEF Rows, Sensor, VOLTAGE, TEMPERATURE, PONDING
  <2>. QED
    BY <2>1 DEF RangeRows
<1>3. BookRows(k) = SubSeq(s, 1, IF Len(s) <= range THEN Len(s) ELSE range)
  <2>1. BookRows(k) = IF Len(s) <= range THEN s ELSE SubSeq(s, 1, range)
    BY DEF BookRows
  <2>2. s = SubSeq(s, 1, Len(s))
    BY <1>1, SubSeqFull
  <2>. HIDE DEF s, range
  <2>. QED
    BY <2>1, <2>2
<1>4. (IF Len(s) <= range THEN Len(s) ELSE range) \in 0 .. Len(s)
  <2>. HIDE DEF s, range
  <2>. QED
    BY <1>1, <1>2
<1>. QED
  BY <1>1, <1>3, <1>4, PrefixDrawn

\* The rows s in a table, t in its text file and b in the workbooks are of
\* different records, all displayed before record n.
Once(s, t, b, n) ==
  /\ Distinct(s) /\ Distinct(t) /\ Distinct(b)
  /\ Apart(s, t) /\ Apart(s, b) /\ Apart(t, b)
  /\ Below(s, n) /\ Below(t, n) /\ Below(b, n)

\* A new record is in none of them (DisplayReading).
LEMMA OnceDisplayed ==
  ASSUME NEW s \in Seq(Row), NEW t \in Seq(Row), NEW b \in Seq(Row), NEW n \in Nat,
         Once(s, t, b, n), NEW row \in Row, row.id = n
  PROVE  Once(<<row>> \o s, t, b, n + 1)
<1>1. <<row>> \in Seq(Row)
  OBVIOUS
<1>2. Apart(<<row>>, s) /\ Apart(<<row>>, t) /\ Apart(<<row>>, b)
  BY NewRowFacts DEF Once
<1>3. Distinct(<<row>>) /\ Below(<<row>>, n + 1)
  BY NewRowFacts
<1>4. ASSUME NEW u \in Seq(Row), Below(u, n) PROVE Below(u, n + 1)
  <2>. SUFFICES ASSUME NEW i \in DOMAIN u PROVE u[i].id < n + 1
    BY DEF Below
  <2>1. u[i] \in Row
    BY ElementOfSeq, LenProperties
  <2>2. u[i].id \in Nat /\ u[i].id < n
    BY <1>4, <2>1 DEF Below, Row
  <2>. QED
    BY <2>2
<1>. QED
  BY <1>1, <1>2, <1>3, <1>4, ConcatFacts DEF Once

\* What is drawn from the table may stay there, go to either file, or nowhere.
LEMMA OnceDrawn ==
  ASSUME NEW s \in Seq(Row), NEW t \in Seq(Row), NEW b \in Seq(Row), NEW n,
         Once(s, t, b, n), NEW r \in Seq(Row), Drawn(r, s)
  PROVE  /\ Once(r, t, b, n)
         /\ Once(<<>>, t \o r, b, n)
         /\ Once(<<>>, t, b \o r, n)
         /\ Once(<<>>, t, b, n)
<1>1. Distinct(r) /\ Below(r, n) /\ Apart(r, t) /\ Apart(r, b)
  BY DrawnFacts, Zenon DEF Once
<1>2. Apart(t, r) /\ Apart(b, r)
  BY <1>1, ApartSym, Zenon
<1>3. Apart(b, t)
  BY ApartSym, Zenon DEF Once
<1>4. Distinct(t \o r) /\ Below(t \o r, n) /\ Apart(t \o r, b)
  BY <1>1, <1>2, ConcatFacts, Zenon DEF Once
<1>5. Distinct(b \o r) /\ Below(b \o r, n) /\ Apart(t, b \o r)
  BY <1>1, <1>2, <1>3, ConcatFacts, Zenon DEF Once
<1>6. Once(r, t, b, n)
  BY <1>1, Zenon DEF Once
<1>7. Once(<<>>, t \o r, b, n)
  BY <1>4, EmptyFacts, Zenon DEF Once
<1>8. Once(<<>>, t, b \o r, n)
  BY <1>5, EmptyFacts, Zenon DEF Once
<1>9. Once(<<>>, t, b, n)
  BY EmptyFacts, Zenon DEF Once
<1>. QED
  BY <1>6, <1>7, <1>8, <1>9

\* The inductive invariant behind SavedOnce: it adds that all identities are
\* below the next, which is why a new record is none of the saved ones.
AllOnce == \A k \in Sensor : Once(table[k], text[k], book[k], nextId)

\* Every way of filling, sorting and emptying a table keeps it.
LEMMA AllOnceStep ==
  RowsType /\ AllOnce /\ [Next]_vars => AllOnce'
<1>. SUFFICES ASSUME RowsType, AllOnce, [Next]_vars PROVE AllOnce'
  OBVIOUS
<1>0. /\ table \in Rows /\ text \in Rows /\ book \in Rows /\ nextId \in Nat
      /\ \A k \in Sensor : /\ table[k] \in Seq(Row) /\ text[k] \in Seq(Row)
                            /\ book[k] \in Seq(Row)
                            /\ Once(table[k], text[k], book[k], nextId)
  BY DEF RowsType, AllOnce, Rows
<1>1. ASSUME UNCHANGED <<table, text, book, nextId>> PROVE AllOnce'
  BY <1>1, Zenon DEF AllOnce
<1>2. ASSUME NEW k \in Sensor, DisplayReading(k) PROVE AllOnce'
  <2>. DEFINE row == [id |-> nextId, date |-> dateTimeBuffer]
  <2>1. row \in Row /\ row.id = nextId
    BY DEF Row, RowsType
  <2>2. Once(<<row>> \o table[k], text[k], book[k], nextId + 1)
    <3>. HIDE DEF row
    <3>. QED
      BY <1>0, <2>1, OnceDisplayed, Zenon
  <2>3. /\ table' = [table EXCEPT ![k] = <<row>> \o table[k]]
        /\ UNCHANGED <<text, book>> /\ nextId' = nextId + 1
    BY <1>2 DEF DisplayReading, files
  <2>. HIDE DEF row
  <2>4. ASSUME NEW j \in Sensor, j # k
        PROVE  Once(table[j], text[j], book[j], nextId + 1)
    <3>1. ASSUME NEW u \in Seq(Row), Below(u, nextId) PROVE Below(u, nextId + 1)
      <4>. SUFFICES ASSUME NEW i \in DOMAIN u PROVE u[i].id < nextId + 1
        BY DEF Below
      <4>1. u[i] \in Row
        BY ElementOfSeq, LenProperties
      <4>2. u[i].id \in Nat /\ u[i].id < nextId
        BY <3>1, <4>1 DEF Below, Row
      <4>. QED
        BY <1>0, <4>2
    <3>. QED
      BY <1>0, <3>1, Zenon DEF Once
  <2>5. /\ table'[k] = <<row>> \o table[k]
        /\ \A j \in Sensor : j # k => table'[j] = table[j]
    BY <1>0, <2>3 DEF Rows
  <2>. QED
    BY <2>2, <2>3, <2>4, <2>5, Zenon DEF AllOnce
<1>3. ASSUME NEW k \in Sensor, SortTable(k) PROVE AllOnce'
  <2>1. PICK order \in [DOMAIN table[k] -> DOMAIN table[k]] :
          /\ IsInjective(order)
          /\ table' = [table EXCEPT ![k] = [i \in DOMAIN table[k] |-> table[k][order[i]]]]
    BY <1>3 DEF SortTable
  <2>. DEFINE r == [i \in DOMAIN table[k] |-> table[k][order[i]]]
  <2>2. r \in Seq(Row) /\ Drawn(r, table[k])
    BY <1>0, <2>1, RearrangedType, SortedDrawn, Zenon
  <2>3. table' = [table EXCEPT ![k] = r] /\ UNCHANGED <<text, book, nextId>>
    BY <1>3, <2>1 DEF SortTable, files
  <2>. HIDE DEF r
  <2>4. Once(r, text[k], book[k], nextId)
    BY <1>0, <2>2, OnceDrawn, Zenon
  <2>5. table'[k] = r /\ \A j \in Sensor : j # k => table'[j] = table[j]
    BY <1>0, <2>3 DEF Rows
  <2>. QED
    BY <1>0, <2>3, <2>4, <2>5, Zenon DEF AllOnce
<1>4. ASSUME NEW K, SaveText(K), UNCHANGED nextId PROVE AllOnce'
  <2>1. ASSUME NEW k \in Sensor PROVE Once(<<>>, text[k] \o TextRows(k), book[k], nextId)
    BY <1>0, TextRowsType, TextRowsDrawn, OnceDrawn, Zenon
  <2>2. \A k \in Sensor :
          /\ text'[k] = IF k \in K THEN text[k] \o TextRows(k) ELSE text[k]
          /\ table'[k] = IF k \in K THEN <<>> ELSE table[k]
          /\ book'[k] = book[k]
    BY <1>4, Zenon DEF SaveText
  <2>. QED
    BY <1>0, <1>4, <2>1, <2>2, Zenon DEF AllOnce
<1>5. ASSUME table' = NoRows, UNCHANGED <<text, nextId>>,
             \/ book' = [k \in Sensor |-> book[k] \o BookRows(k)]
             \/ UNCHANGED book
      PROVE  AllOnce'
  <2>1. ASSUME NEW k \in Sensor
        PROVE  /\ Once(<<>>, text[k], book[k] \o BookRows(k), nextId)
               /\ Once(<<>>, text[k], book[k], nextId)
    BY <1>0, BookRowsType, BookRowsDrawn, OnceDrawn, Zenon
  <2>2. \A k \in Sensor : /\ table'[k] = <<>> /\ text'[k] = text[k]
                          /\ book'[k] = book[k] \o BookRows(k) \/ book'[k] = book[k]
    BY <1>5, Zenon DEF NoRows
  <2>. QED
    BY <1>5, <2>1, <2>2, Zenon DEF AllOnce
<1>6. ASSUME NEW k \in Sensor, CallSave(k) PROVE AllOnce'
  BY <1>4, <1>6, Zenon DEF CallSave
<1>7. CASE ExportExcel
  BY <1>1, <1>5, <1>7 DEF ExportExcel, WriteBook, TemplateMissing, files
<1>8. CASE DismissError
  BY <1>5, <1>8 DEF DismissError, files
<1>9. CASE TimerSave
  <2>1. UNCHANGED nextId /\ (CountDown \/ PeriodicText \/ PeriodicExcel)
    BY <1>9, Zenon DEF TimerSave
  <2>2. CASE CountDown
    BY <1>1, <2>1, <2>2 DEF CountDown, files
  <2>3. CASE PeriodicText
    BY <1>4, <2>1, <2>3, Zenon DEF PeriodicText
  <2>4. CASE PeriodicExcel
    BY <1>1, <1>5, <2>1, <2>4 DEF PeriodicExcel, WriteBook, TemplateMissing, files
  <2>. QED
    BY <2>1, <2>2, <2>3, <2>4
<1>10. CASE TimerDisplay \/ SomeSaveSetting \/ StartMonitor \/ MonitoringStops
  BY <1>1, <1>10 DEF TimerDisplay, SomeSaveSetting, SaveSetting, StartMonitor,
                     MonitoringStops, files
<1>11. CASE UNCHANGED vars
  BY <1>1, <1>11 DEF vars, files
<1>. QED
  BY <1>2, <1>3, <1>6, <1>7, <1>8, <1>9, <1>10, <1>11 DEF Next

\* No record is in a file twice, nor in a file and still in its table: for any
\* number of records, any nesting of reports and any order of the saves.
THEOREM SavedOnceCorrect == Spec => []SavedOnce
<1>1. Init => AllOnce
  <2>. SUFFICES ASSUME Init, NEW k \in Sensor
                PROVE  Once(table[k], text[k], book[k], nextId)
    BY DEF AllOnce
  <2>1. table[k] = <<>> /\ text[k] = <<>> /\ book[k] = <<>>
    BY Zenon DEF Init, NoRows
  <2>. QED
    BY <2>1, EmptyFacts, Zenon DEF Once
<1>2. RowsType /\ AllOnce => SavedOnce
  <2>. SUFFICES ASSUME RowsType, AllOnce, NEW k \in Sensor
                PROVE  Distinct(table[k] \o text[k] \o book[k])
    BY Zenon DEF SavedOnce, Distinct
  <2>. DEFINE s == table[k]
              t == text[k]
              b == book[k]
  <2>1. s \in Seq(Row) /\ t \in Seq(Row) /\ b \in Seq(Row)
    BY DEF RowsType, Rows
  <2>2. Once(s, t, b, nextId)
    BY Zenon DEF AllOnce
  <2>. HIDE DEF s, t, b
  <2>3. s \o t \in Seq(Row) /\ Distinct(s \o t) /\ Apart(s \o t, b)
    BY <2>1, <2>2, ConcatFacts, ConcatProperties, Zenon DEF Once
  <2>4. Distinct((s \o t) \o b)
    BY <2>1, <2>2, <2>3, ConcatFacts, Zenon DEF Once
  <2>. QED
    BY <2>4 DEF s, t, b
<1>. QED
  BY <1>1, <1>2, AllOnceStep, RowsCorrect, PTL DEF Spec

=============================================================================
