# A verification development of the lift-environment monitoring host

The repository holds a host program for monitoring the environment of a lift
(LabWindows/CVI, C) in every version it went through, the client programs that
stand in for the field devices, and the exercises that led up to it, among them
libmodbus, the library whose protocol the host speaks. The host is a TCP server.
A field unit connects to it as a TCP client; behind that connection sit three
Modbus-like slaves, voltage, temperature and water ponding. The host polls the
three in turn, checks and filters what they answer, shows it, raises an alarm
when it is out of limits, keeps it in three tables, and saves the tables as text
files or Excel workbooks, on a button or periodically.

Three bodies of code are modelled:

* **the last release**, `src/Server Demo/final2.0`, in detail (Monitor, Records,
  Settings);
* **all twelve releases** of the host, `src/Server Demo/2_申请查询` to `final2.0`,
  in what distinguishes them (Queries, Releases, Tables);
* **libmodbus**, `src/CVI Demo/libmodbus Demo/libmodbus`: receiving, serving,
  calling, and the bytes of the messages (the Modbus* modules).

## 1. Inventory

### 1.1 How the programs run

The host has one thread. `main` registers the TCP server, shows the panel and
enters `RunUserInterface`; buttons, timers and TCP events are callbacks
dispatched by that event loop, one at a time. Two things interrupt the order a
reader expects:

* **Modal popups.** `MessagePopup` runs an event loop of its own. The three poll
  functions show one when a query cannot be written (communication.c:15, 38,
  64), in the middle of the timer callback, and the report shows one when its
  template is missing (dataSave.c:108). Until the operator dismisses it TCP
  events are dispatched, and possibly timers; the panel underneath takes no
  clicks. The callback then continues with whatever state it finds.
* **Environment.** Queries and replies are lost, late or damaged, clients come
  back before the end of their old connection is reported, Excel may have no
  template or refuse to save.

Nothing is persisted that the program reads back at start: a restart is `Init`.

libmodbus is called, and blocks: a client in `send_msg` and `_modbus_receive_msg`
until an answer, a timeout or an error; a server in `modbus_receive`, then it
calls `modbus_reply`. What interleaves with a call are the bytes of the peer as
they arrive, the other end of the connection, and its crashes.

### 1.2 Components

| component | code | state it keeps | operations | module |
|---|---|---|---|---|
| polling core | final2.0/server.c `TimerTransmit`, `ServerTCP`; communication.c | `start`, `count`, `inf_index`, `hconversation`, lamps | tick, poll, failed poll and its popup, connect, data, disconnect, start, stop | Monitor |
| decoding and display | dataProcess.c `unPack`; dataDisplay.c | `previousData`, displays and alarm lamps, limits | decode, filter, display | Monitor |
| record tables and saving | dataSave.c; `TimerSave`, `TimerDisplay`, `CallSave*`, `ExcelReport`; row insertion in dataDisplay.c | three tables, `DateTimeBuffer`, `interval`, files | insert, export, periodic save, clock | Records |
| tables of every release | display, sort and save functions of 2.0 ... final2.0 | rows, `g_currentlySortedColumn`, `descending` | insert, click on a label, save | Tables |
| settings, registration | control.c; `SaveSetting`, `Register` | address, port, what the panels show, servers registered | save settings, register, client found | Settings (period and format in Records) |
| manual query servers | `2_申请查询`, `3_实时查询` | `manual_operate`, `inf_index` | query buttons, timer that asks again, reply | Queries, Releases |
| earlier releases | `1.0` ... `final` | `start`, `count`, `manual_operate`, `inf_index` | poll, ask again, decode, file | Queries, Releases |
| client simulators | `src/Client Demo/*` | readings set by sliders | answer a query, send unasked | Queries (their answers; partly) |
| libmodbus: messages, receiving | modbus.c `compute_*`, `_modbus_receive_msg`; backends' `flush`, `check_integrity` | position in the stream, part being read | receive, timeout, flush, reconnect | ModbusMessages, ModbusReceive |
| libmodbus: server | modbus.c `modbus_reply`, `modbus_mapping_*` | four tables | eleven functions | ModbusTables, ModbusMemory, ModbusReply |
| libmodbus: client | modbus.c `send_msg`, `check_confirmation`, calls; modbus-tcp.c | `t_id`, `errno`, socket | call, send, confirm, time out, flush, reconnect | ModbusCall, ModbusLink |
| libmodbus: conversions | modbus-data.c, packing in modbus.c, `crc16` of modbus-rtu.c and of the host | none | pack, unpack, checksum, floats | ModbusCodec (partly) |
| communication log | `record_data` | none that is read | append text | not modelled |
| windows | `main`, `ButtonSetting`, `Panel_log`, ... | which panels show | show, hide | not modelled |
| unused helpers | control.c `QuickExe`, `data_read` | | | not modelled |
| first learning server | `src/Server Demo/1` | none | | not modelled |
| serial, display and other demos | `src/CVI Demo/*`, `src/detection.c` | | | not modelled |

Interactions. In the host the timer writes to the conversation the TCP callback
stored; the callback of a reply decides by the address inside the reply (in the
first releases: by the query made last) which display gets it; a displayed
reading is a row of the tables; a failed poll switches off `start`, which the
periodic save needs too; the report overwrites the date string the next row is
dated with; the three tables share one sort state; a client is found only once
a server is registered. In libmodbus the client's recovery decides what is still
on the line when the next call is made; the receive loop trusts the lengths that
the message builder follows; the server throws away what waits behind a request
of illegal quantity.

### 1.3 Hard behaviours, and what would be correct

* **Replies against queries.** One query is outstanding at a time in the mind of
  the code (`inf_index`), but nothing waits for the answer. *Correct*: what is
  shown for a sensor came from that sensor (`Authentic`, over all releases
  `MeasuredThere`), and the filter's memory is the temperature on the panel
  (`JumpFiltered`); a query made by hand is asked until it is answered
  (`QueryAnswered`).
* **Nested failed polls.** Several timer callbacks can be suspended inside their
  popups, sharing `count`. *Correct*: `count` stays where polling continues
  (`PollerAlive`), every slave is polled for ever (`PollsEverySensor`,
  `EverySensorShown`, over all releases `PolledIsShown`).
* **Connections that overlap.** *Correct*: the lamp claims no conversation whose
  end was reported (`LampNeverOverclaims`), and a dead one is noticed
  (`DeadLinkNoticed`).
* **Limits changed behind a reading.** *Correct*: the alarm ends up right
  (`AlarmFollowsLimits`).
* **Four ways to empty a table**, two from timers, one of them suspended in a
  popup. *Correct*: a row is saved at most once (`SavedOnce`; over the releases
  `FiledOnce`), a row whose table is exported is in the file
  (`TextExportComplete`), and the tables are emptied again and again
  (`TablesEmptied`).
* **`while( !interval-- )`** tests and decrements in one expression: at 0 it goes
  below 0 and only the save sets it again. *Correct*: `CountdownArmed`.
* **One sort state for three tables**, a case without a break, and comparisons
  that read texts. *Correct*: a click on the values puts the readings in order,
  a second one as far as the comparison of texts allows (`ValuesInOrder`).
* **Settings that are refused half-way.** *Correct*: what is registered is what
  the panel shows (`RegisteredAsShown`).
* **Messages that break off**, whose rest comes during the next receive.
  *Correct*: what a receive returns is one frame (`Genuine`, `StartsAtFrame`),
  within the buffer (`FitsBuffer`), and it does return (`Returns`).
* **Calls that are late, resent or orphaned.** *Correct*: the client keeps the
  contract of a call (`KeepsContract`), every call comes back (`CallReturns`),
  client and server get back into step (`Resynchronises`).
* **Requests whose quantity, byte count and bytes disagree.** *Correct*: nothing
  but the addresses asked for changes, and what the message brings is what is
  stored (`KeepsPromise`).
* **Tables that start anywhere.** *Correct*: the server is a memory with
  addresses (`KeepsPromise`).
* **Damaged bytes, packed bits, two checksums, four byte orders.** *Correct*:
  `ServedAsCalled`, `Returned`, `ChecksumsAgree`, `FloatsKept`.

PROJECT.json lists each hazard at its line.

## 2. Modules

### Monitor.tla

State is that of the program, under the names the code uses where it has them.
`shown[k]` is the newest record of a sensor (value and alarm), which is what the
panel displays. `conv[h]` is the life of conversation *h*: `none`, `open`,
`closing` (the other end is gone and Windows has not reported it: writes may
still succeed and received replies are still delivered), `gone`.

| action | code |
|---|---|
| `StartMonitor`, `StopMonitor` | the two buttons, server.c |
| `SetLimits` | the operator edits a limit; the code reads the controls in `display_*` |
| `TimerTransmit` = `PollSent`, `PollFails`, `PollNothing` | `TimerTransmit` with `Read_Voltage`, `Read_Temperature`, `Read_StatePonding` |
| `DismissPopup` | what follows `MessagePopup` in those functions, and the rest of `TimerTransmit` |
| `TcpConnect`, `TcpDataReady`, `TcpDisconnect` | the three cases of `ServerTCP`; `TcpDataReady` includes `unPack` and `display_*` |
| `SlaveReplies`, `ReplyGarbled`, `QueryLost`, `PeerCloses` | external: slaves and network |

The poll counter shows why the popup splits the callback in two. `PollFails`
leaves `count` alone: the C function has not returned. `DismissPopup` returns to
the *innermost* suspended callback, which sets `inf_index`, switches monitoring
off and advances `count`, whatever other callbacks did meanwhile. `MaxPopups` is
the one assumption about LabWindows/CVI that the repository does not settle:
with `MaxPopups = 1` no timer runs while a popup is open, with 2 or more it
does. Safety is checked and proved with nesting; where a property needs
`MaxPopups = 1` this is said.

Abstracted: a reply is its address, its 16-bit value and whether its CRC matches
(`crc16` computes which; that a damaged reply fails it is assumed). A query is
the address it goes to. The value -99, which `unPack` answers for a refused
reply, cannot be the value of a good one, two bytes being at least 0. A
temperature is accepted at 0 .. 1000 tenths; the previous one is 0 at the start,
which disarms the filter, and so does a genuine 0.

### Records.tla

`table[k]` is a table, top row first; a row has an identity (`nextId`, a history
variable) and the format of its date. `text[k]` and `book[k]` are what has been
written. `modal` is the stack of reports suspended in their popup.

| action | code |
|---|---|
| `DisplayReading` | row insertion of `display_voltage`, `display_temperature`, `display_ponding` |
| `TimerDisplay` | `TimerDisplay`, `display_date` |
| `SortTable` | `ResultVoltage`, ...: some permutation (which one: Tables) |
| `CallSave` | `CallSaveVoltage`, ... with `SaveVoltage`, ... |
| `ExportExcel`, `DismissError` | `ExcelReport` and `saveToEXCEL`, the second being what follows its popup |
| `TimerSave` = `CountDown`, `PeriodicText`, `PeriodicExcel` | `TimerSave` with `saveToTXT` or `saveToEXCEL` |
| `SaveSetting` | `SaveSetting`, with its early return for a refused address |
| `StartMonitor`, `MonitoringStops` | the buttons, and a failed poll of Monitor |

`TextRows` and `BookRows` keep the arithmetic of the loops and cell ranges:
which rows are written is exactly what goes wrong there. What Excel makes of a
range that ends before it begins is external (`RangeRows`).

### Tables.tla

The three tables of readings in the seven releases that have them (2.0, 2.1, 2.2,
2.2.1, 2.3, final, final2.0). The releases repeat one another's code with small
differences; these are stated as one definition per release and per part of the
program (`Displays_*`: what a row says; `Sorts_*`: whose label bar a click is
looked up in; `Compares_*`: room for the texts compared; `Saves_*`, `Exports_*`:
what is deleted after saving), each mapped to its functions, and the actions read
the facts of the release the behaviour is about.

| action | code |
|---|---|
| `DisplayReading`, `TimerDisplay` | row insertion of `display_*` or `ServerTCP`, the clock |
| `ClickLabel` | `ResultVoltage`, `ResultTemperature`, `ResultPonding` with `SortByDate`, `SortByData`, `SortByWarning` |
| `CallSave`, `TimerSave`, `ExportExcel` | what they leave in the tables and in `DateTimeBuffer` |
| `SwitchMonitor` | the two buttons |

`Comparisons` holds the missing `break`: a second click on the label of the
values sorts by number and then again by text. `Sorted` is every order the
comparison function allows; where it reads a date of the wrong format or a text
its buffer has no room for, any order (undefined behaviour).

### Queries.tla, Settings.tla, Releases.tla

`Queries` is the conversation with the slaves in twelve releases, stated the same
way: `Buttons_*` and `Timer_*` (what is asked by hand and asked again),
`Read_*` and `Polls_*` (what the timer asks, in which turns), `Unpacks_*` (which
replies are refused, and what selects the value), `Answers_*` (where a reply is
shown), `InfIndex_*` (the addresses the code knows), the slaves that answer. A
reply is whom it is from and whether it is sound; what is shown is where the
value came from. Popups are dismissed at once and there is one client at a time:
nesting and overlaps are Monitor's.

| action | code |
|---|---|
| `PressButton`, `Timer` | `ReadVoltage`, `ReadTemperature`, `ReadStatePonding`; the timer that asks again |
| `TimerTransmit` | with `Read_*` |
| `TcpDataReady`, `TimerAccept` | `ServerTCP` with `unPack`; the second reader of release 1.2 |
| `StartMonitor`, `StopMonitor`, `TcpConnect`, `TcpDisconnect` | the buttons and the other cases of `ServerTCP` |
| `SlaveReplies`, `SendTest`, `ReplyDamaged`, `QueryLost` | the simulators in Client Demo; the network |

`Settings` is the address and the port of final2.0: `readServerIP` writes the
address before it checks it, `SaveSetting` returns early when it is refused,
`Register` uses what is there. `Releases` composes the two: a client finds the
program (`TcpConnect /\ ClientFound`) only once a server is registered, by
the operator in final2.0, by `main` in the others.

### ModbusMessages.tla, ModbusReceive.tla

`ModbusMessages` has the two backends (`Tcp`, `Rtu`), the limits of every
function and the lengths of requests and answers, both as their writers build
them and as `_modbus_receive_msg` computes them (`compute_meta_length_after_function`,
`compute_data_length_after_meta`) and as `check_confirmation` expects them.

`ModbusReceive` is the loop of `_modbus_receive_msg`. The stream is a set of frames
laid end to end and positions in it; the content of a frame is its function, its
count byte and its length. A receive that starts in the middle of a frame, or on
a damaged one, reads some function and some count.

| action | code |
|---|---|
| `Receive` | the call |
| `ReadSome`, `ReadFunction`, `ReadMeta`, `ReadRest` | one round of the loop, by the part (`step`) that is read; the last with `check_integrity` |
| `Timeout` | `select` times out, and the flush of the link recovery |
| `Reset` | `recv` returns 0 or fails, and the reconnection |
| `PeerWrites`, `BytesArrive`, `PeerCloses` | external |

### ModbusTables.tla, ModbusMemory.tla, ModbusReply.tla

`ModbusTables` has what the next two share: requests, answers, limits.
`ModbusReply` is `modbus_reply`, one operator per `case` of its `switch`, on four
arrays indexed from 0. `ModbusMemory` is the abstract specification: a memory
whose addresses begin where each table begins, in which a request that lies
within the table is executed whole and any other changes nothing and is answered
with the right exception. The quantity of a write (`nb`, `nb_write`), what the
message brings (`values`, and for write-and-read half a register more,
`odd_byte`) and the limits are independent of one another. `write_bits` and
`write_registers` never look at the byte count and store as many values as the
quantity says, those the message does not bring from whatever is in the buffer
(`Unpacked`); the memory promises of such a request that what it brings is
stored, anything at the rest of its addresses, and nothing elsewhere.
`write_and_read_registers` compares the byte count (`nb_write_bytes`). `ModbusReply`
implements the memory under
`mem <- Mapped(tab)`, which shifts every index by the start of its table
(`KeepsPromise`).

### ModbusCall.tla, ModbusLink.tla

`ModbusLink` is a client over TCP and its server, in whole frames: `Call`,
`SendSucceeds` and `SendFails` (one round of `send_msg`'s loop, with the
reconnection or the flush after an error), `Confirm` (`check_confirmation` with
its tests of identifier, exception, length, function and number of values), `Timeout`, `Flush`,
`Reset`; `Serve`, `Crash`, `Restart`, `BreakConnection`, and `ServeOrphan`, which
executes a request left on a connection the client has closed.

`ModbusCall` is what a caller may rely on: values returned are those of this call
and it was executed; an exception of the server means it was not; after any other
error it may have been, or may be later, but nothing is executed twice.
`ModbusLink` implements it with `pending <- step # "idle"` (`KeepsContract`):
`fate`, `outcome` and `made` are history the two share.

`setsErrno` says which kind of platform the program runs on; it is chosen in `Init`
and never changes, so every property and theorem speaks of both. `FALSE` is
Windows, for which the repository configures libmodbus (`HAVE_WINSOCK2_H`,
config.h:132): a failed socket call leaves `errno` as it was, and the loop of
`send_msg` decides by whatever failed before. The comment at
`modbus_receive_confirmation` (modbus.c:488) says "Otherwise, its shall return -1
and errno is set". The contract for Windows is accordingly weaker: values are
as trustworthy and nothing is executed twice, but an error, an exception of the
server included, may be that of an earlier call (`Stale`).

A flush is a step of its own because it comes after a sleep. Two values of `step`
tell two kinds apart: after a timeout or a reply of the wrong kind errno is set or
restored behind the flush ("flushing"); after a wrong identifier it is not
(modbus.c:511-518), and the last `recv` of the flush may leave `EAGAIN` or
`ECONNRESET` in it ("discarding", `AfterLastRecv`).

Left out: a send that takes a part of the request (modbus.c:202). It needs a send
buffer full of requests that nobody reads, and a client has one request of at
most 260 bytes under way; what a request cut short does to a server is the
subject of ModbusReceive.

### ModbusCodec.tla

The same call on a serial line, byte by byte: what each `modbus_read_*`,
`modbus_write_*` builds, the checksum by the library's two tables, the framing
of the server, `response_io_status` and its siblings packing bits, the client
unpacking them, one byte of either message damaged on the way. Beside it the
host's bitwise `crc16` and the float conversions in four byte orders and the
deprecated one. The operators of C on words (`And`, `Or`, `Xor`, `Not`) are
defined here, bit by bit, and the loops whose result is not plain, those of the
two checksums and of `response_io_status`, are recursive functions of what has
been read so far, so that they can be reasoned about. Left out: input tables
(read by the same functions as the others); single bytes of bits
(`modbus_set_bits_from_byte` and its kin have no caller in the library). The
client is taken to flush what a message leaves behind.

### MC modules, proof modules

MCMonitor, MCRecords, MCTables, MCReleases, MCModbusReceive, MCModbusReply,
MCModbusLink and MCModbusCodec hold the constants of the instances, with the
reason for each value. MonitorProofs, RecordsProofs, TablesProofs,
ReleasesProofs, ModbusReceiveProofs, ModbusReplyProofs, ModbusLinkProofs and
ModbusCodecProofs hold the theorems, section 5.

### Mutants

An operator under a comment that begins "A plausible mistake" is a changed form
of the definition that follows it. None is part of a specification. Each shows
that a property can fail: put in the place of the original, it makes TLC report
that property (PROJECT.json, "mutants", says which).

## 3. Runs

| run | specification | what is asked | what it shows |
|---|---|---|---|
| monitor_safety | Monitor `Spec`; 2 conversations, 2 nested popups | `TypeOK`, `Authentic`, `LampNeverOverclaims`, `JumpFiltered` | late, damaged and lost replies, overlapping clients and nested popups never put a foreign, damaged or filtered value on the panel |
| monitor_live | Monitor `FairSpec`; 2 conversations, no nesting, two voltage limits | `PollerAlive`, `EverySensorShown`, `PollsEverySensor`, `DeadLinkNoticed`, `AlarmFollowsLimits` | monitoring reaches every sensor, notices a dead link, and corrects a stale alarm |
| v_popups | as monitor_live, with nesting | `PollsEverySensor` is violated | finding 1 |
| records | Records `FairSpec`; 3 records, 2 nested popups | `TypeOK`, `SavedOnce`, `CountdownArmed`, `TablesEmptied` | no save, in whatever order, duplicates a row or stops the countdown |
| v_txt | Records `Spec` | `TextExportComplete` is violated | finding 2 |
| tables | Tables `Spec`; seven releases | `TypeOK`, `FiledOnce`, `ValuesInOrder` | what a table holds after any clicks, insertions and saves, and when its readings are in order |
| releases | Releases `FairSpec`; twelve releases | `TypeOK`, `MeasuredThere`, `QueryAnswered`, `PolledIsShown`, `RegisteredAsShown` | which release shows what nobody measured, forgets a query, starves a sensor, and that the others do not |
| receive_tcp | ModbusReceive `FairSpec`; two requests cut anywhere | `TypeOK`, `Genuine`, `StartsAtFrame`, `Returns` | with link recovery a server returns whole requests only, and comes back from one that breaks off |
| reply | ModbusReply `Spec`; tables that start at 2, registers at 0 | `TypeOK`, `KeepsPromise` | every function of the server implements the memory, for requests that bring more or less than they are for too |
| v_write_and_read | ModbusReply `Spec`; every table starts at 2 | `KeepsPromise` is violated | finding 3 |
| link_tcp | ModbusLink `FairSpec`; both recovery modes, three faults, both kinds of platform | `TypeOK`, `KeepsContract`, `CallReturns`, `Resynchronises` | the client implements the contract of a call, through late answers, crashes and orphans |
| codec | ModbusCodec `Spec`; 17 coils, 3 registers | `TypeOK`, `Returned`, `DamageDetected`, `ChecksumsAgree`, `FloatsKept`, `ServedAsCalled` | byte by byte, a call does what it says or fails, and a damaged message is never taken for one |

The properties over many releases hold but for exceptions that are written out
inside them (`MeasuredThere`, `PolledIsShown` by `Watched`, `FiledOnce`):
each names the releases with a defect, all of which were repaired in a later
release. A property says of each
release exactly which promise it keeps; that an exception is needed was seen by
running the property without it. So a defect that is named is excused, not caught:
the property is about the releases and the steps that do not have it.

Three defects of the tables are in the model and no property asks for anything
there. A second click on the label of the values falls through to the comparison of
texts (final2.0/server.c:287, and so in every release): 9.5 then stands above
100.2. `ValuesInOrder` says how far this does no harm, namely as long as the texts
have one length. A row dated in the format of a file name (dataSave.c:128) cannot
be read by `SortByDate`, which may leave any order. In 2.1 a click on the voltage or
the ponding looks its label up in the bar of another table and does nothing, and the
texts compared overrun their buffers.

**Bounds.** *Monitor*: `MaxConn = 2` is what an overlap of an old and a new
client takes; a third adds nothing, for only the newest is written to and the
others are alike. `MaxInFlight = 1` on each of two conversations lets a reply of
the old one be delivered after the next query. `MaxPopups = 2` is the least
nesting. `MaxCount = 4` is the first value at which the counter is lost; beyond it
nothing depends on it. The temperatures 0, 3, 8 hold a pair inside the filter's
limit, a pair at it, a pair outside it, and the 0 that disarms it.

*Records*: 3 records make a table that is empty, that holds the one row a text
export drops, and that holds more rows or fewer than the cell range of the
workbook. A minute is one tick and a period one or two minutes: the code compares
the countdown with 0 only and sets it to the period only, so a longer countdown
repeats the same step; `CountdownCorrect` is proved for every period.
`MaxOverrun` lets a countdown go below 0 and be seen there.

*Tables*: two rows, of one table or of two, are what an order and a shared sort
state take; 9.5 and 100.2 change places as texts, lie on either side of the
limit, and only the first fits the buffers of 2.1, while 8.7 and 9.5 have one length;
two ticks make two dates.
*Releases*: two messages on the network let a reply come after the next query;
one server and two ports, one address refused. *ModbusReceive*: the second of two
frames is where the rest of the first would be misread; every cut of both
happens; the four functions have frames with and without a count byte. *ModbusReply*:
two registers and one element of each other table, requests of 0 to 3 values at,
across and beyond the ends, quantities at and over the limit. *ModbusLink*: more
calls (5) than identifiers (3), so that they wrap around; three faults let a
late answer, a crash and a broken connection fall into one behaviour. No frame
outlives `MaxTid` calls: the guard of `Call` says so, the code has 65536
identifiers. *ModbusCodec*: 17 coils are two whole bytes and a bit; calls lie
within, across and behind the tables and ask for nothing or too much; two calls,
so that the second finds what the first wrote; a damaged byte has any one bit, or
what makes another function of a function code, changed. More than one damaged
byte is not tried: what CRC-16 then lets through is a question of probability.

The writes of *reply* bring no value or two, a coil also one, for quantities of 0 to
3 (the limit is 2): fewer, as many and more than they are for.

Deadlock is checked in every run but receive_tcp, link_tcp and codec, whose
behaviours end when the bounded number of frames or calls is used up.

**Fairness.** The event loop of the host runs as long as the program does, so in
Monitor and Records the timers (`TimerTransmit`, `TimerSave`, `TimerDisplay`) and
the TCP events (`TcpDataReady`, `TcpDisconnect`) are weakly fair, and
`SlaveReplies` is strongly fair: queries are lost, but a slave asked again and
again answers again and again; without it the link may lose everything for ever
and nothing could be shown. In Releases the two timers are strongly fair, because
there the bound on the network may keep a tick from happening, which the real
network does not. Nothing is assumed of the operator, of clients or of Excel, so
the liveness properties say under which conduct of the operator they hold
(`Steady` in Monitor; `start` and `connected` for ever in `PolledIsShown`;
`Disturbed` in `QueryAnswered`). In ModbusReceive only the loop itself is fair:
nothing makes the bytes of a message arrive. In ModbusLink the client program
goes on calling (`Call`), the library goes on (`Client`), a running server serves
(`Serve`) and a stopped one is started again (`Restart`); faults are bounded and
never fair, and an orphan need not ever be served. `CallReturns` and
`Resynchronises` ask for a platform whose failed calls set `errno`. On Windows
`CallReturns` holds for the calls that find an error of the link left in `errno`
(the other way to satisfy its premise); with any other value the loop of `send_msg`
flushes a broken connection for ever and never connects again, and TLC shows it at
once if the premise is dropped.

## 4. Findings

1. **Nested popups** (final2.0/communication.c:15). Provided timers run inside a
   popup, two failed polls nest, each advances `count`, and from 3 it can reach 4,
   past every case of `TimerTransmit`. After the slave is back and monitoring
   started again, nothing is ever polled. With `MaxPopups = 1` the same property
   holds (monitor_live), so the finding stands or falls with that premise.
2. **The bottom row** (final2.0/dataSave.c:16). `while( --row )` counts down before
   the first use: one row is deleted without having been written, while the guide
   (使用说明.docx:5) says the records are saved and the window cleared.
3. **The lower bound of write-and-read** (libmodbus/modbus.c:954). The case tests
   `mapping_address < 0` twice and `mapping_address_write < 0` never. On registers
   that start above address 0 a write below them is executed outside the table
   and acknowledged, while the unit test (unit-test-client.c:316) says of a
   mapping that addresses outside it are not valid. With registers that start at
   0 the promise holds for all functions (reply, and for every size proved).

## 5. Proofs

Checked by tlapm, for every value of the constants that satisfies the modules'
assumptions (`MonitorAssumption`, `RecordsAssumption`, `TablesAssumption`,
`QueriesAssumption`, `SettingsAssumption`, `BackendAssumption`,
`ReceiveAssumption`, `MemoryAssumption` of ModbusTables, `ReplyAssumption`,
`LinkAssumption`, `CodecAssumption`: bounds are naturals, readings are words,
requests are legal ones, flags are BOOLEAN, there is an address and a port to
choose, a client function gets the arguments its prototype takes).

| theorem | property | argument |
|---|---|---|
| MonitorProofs `TypeCorrect` | `TypeOK` | inductive; the sequence lemmas type `Front`, `Last` and `Tail`, and an accepted temperature is a word |
| `LampCorrect` | `LampNeverOverclaims` | inductive given `TypeOK`: connecting opens the conversation it lights the lamp for, and only `TcpDisconnect`, which puts it out, leads to `gone` |
| `AuthenticCorrect` | `Authentic` | not inductive alone: `WireGenuine` adds that an undamaged reply on the wire carries a reading of the sensor it names |
| `JumpCorrect` | `JumpFiltered` | needs `FilterFollowsPanel`: `previousData` is the temperature shown, once one is |
| `PollerCorrect` | `PollerAlive` | assumes `MaxPopups = 1`; needs `PopupOfCurrentPoll`: at most one poll is suspended and the suspended poll is of the slave `count` names, so dismissing it advances `count` as its own poll would have |
| RecordsProofs `TypeCorrect` | `TypeOK` | inductive; `Reverse`, prefixes and permutations of rows are rows |
| `CountdownCorrect` | `CountdownArmed` | inductive given the type of the countdown and the period: what happens below 0 while a report waits does not matter, because dismissing its popup sets the countdown again |
| `SavedOnceCorrect` | `SavedOnce` | not inductive alone. `AllOnce` adds that the identities of the rows in a table, in its text file and in its workbooks are distinct within each, apart from one another and below `nextId`, which is why a new record is none of the saved ones; it rests on `RowsCorrect` and on reversing, prefixes and permutations drawing each row once |
| TablesProofs `TypeCorrect` | `TypeOK` | inductive; an order of the rows is a sequence of the same rows |
| `FiledOnceCorrect` | `FiledOnce` | inductive once the tables are sequences: sorting draws each row once, saving empties what it files |
| ReleasesProofs `TypeCorrect` | `TypeOK` | inductive over Queries and Settings together |
| `MeasuredThereCorrect` | `MeasuredThere` | not inductive alone. `QueriesInv` adds that a sound reply on the network comes from a slave that answers, and rests on the lemma `FilesAtHome`: where a release files a reply under an address written in the code and a slave has that address, it is the slave of the sensor it files it for |
| `RegisteredAsShownCorrect` | `RegisteredAsShown` | `SettingsInv`: the port in use is the port shown, the address in use is the one shown or the one shown was refused, and what is refused is no local address |
| ModbusReceiveProofs `TypeCorrect` | `TypeOK` | inductive; every frame has at least a header and a function, lengths are naturals |
| `FitsBufferCorrect` | `FitsBuffer` | `PartFits`: header, function and meta part fit whatever is read, and before the data the code compares; for every input, damaged ones included |
| `StartsAtFrameCorrect`, `GenuineCorrect` | `StartsAtFrame`, `Genuine` | assume `Quiet`: link recovery, a line that settles before a flush, no damage. `Chained`: each frame ends where another starts or where the next will be written; `InFrame`: what is read and what is still to be read make up a prefix of the frame the receive began on, which needs that reader and writer agree on every length (`RequestFramed`, `ResponseFramed`, `ExceptionFramed`) |
| `AnswerLengthExpected` | | for every legal request the length of the answer is the one `check_confirmation` expects |
| ModbusReplyProofs `TypeCorrect` | `TypeOK` | inductive: no function changes the size of a table or the kind of its values |
| `KeepsPromiseCorrect` | `KeepsPromise` | assumes `Unshifted`: the registers start at 0, or write-and-read is not served. Initial states and steps map; per function, reading and storing at a shifted index are reading and storing at the address (`LoadedRead`, `StoredWritten`), and what is unpacked is what the message brings, as far as it goes (`UnpackedFacts`); quantity, byte count and values of a request are independent |
| ModbusLinkProofs `TypeCorrect` | `TypeOK` | `fate` is never "decided twice": `InOnePlace`, a call is in one frame at most, over both directions and the orphans, and `Undecided`, what waits for the server has no fate yet |
| `KeepsContractCorrect` | `KeepsContract` | on either kind of platform: what a failed call leaves in `errno` is an error the contract allows there (`SocketErrors`), and so is what a flush leaves. The invariant `Inv` adds `Truthful` (an answer under way says what the fate is), `NotSentYet` (a call being sent is nowhere, so it is sent again only if the first sending failed) and `Identified` (frames under way with the identifier of the current call are of the current call) |
| ModbusCodecProofs `DamageDetectedCorrect` | `DamageDetected` | assumes `[]FramingDetected`: of a damaged function or count. What is on the line is what was sent but for one byte (`Off`). A step of the checksum tells any two bytes and any two checksums apart (`StepTells`, from the table's 256 entries), so messages of one length that differ in one byte have different checksums (`ChecksTell`, by induction over the bytes after it), and a damaged checksum is not the one computed (`DamagedDropped`) |
| `ReturnedCorrect` | `Returned` | assumes `[]FramingDetected`, as the next four do. `Inv` says where a call is: `Asked`, its request is on the line unless damaged; `Replied`, the answer due from the tables as they are; `Finished`, it returned that. Under it: every legal request is framed and checked as sent, for each function (`Received`), every answer too, and `Result` of it is what is due; what is packed is unpacked |
| `ServedAsCalledCorrect` | `ServedAsCalled` | the same `Inv`; a server that receives the request of a call executes it, coil by coil, register by register and, for the masks, bit by bit |
| `TypeCorrect` | `TypeOK` | the same `Inv`; every message is a sequence of bytes, which for the checksum and the packed bits takes induction over the message |
| `FloatsKeptCorrect` | `FloatsKept` | from the registers being words: for each byte order, the eight swaps of two words |
| `ChecksumsAgreeCorrect` | `ChecksumsAgree` | every bit of what eight rounds of the host's loop make of a word, as a sum of bits of the word (`CrcBit`, `CrcByte`); the same sums for each of the 256 table entries (`TableBits`); one step of either on any checksum and byte (`SameStep`); induction over the message (`HostIsSame`) |
| `UndamagedCorrect` | all six | on a line that damages nothing, without the hypothesis |

The extra assumptions are where the code needs them: without `Unshifted` there is
finding 3; without `Quiet` a late rest is read as a message, which libmodbus leaves
to its users (recovery is off by default). `FramingDetected` says of two bytes of a
message what `DamageDetected` says of all: damaged there, it is not taken for a message. It is a hypothesis
because for every call and every damage it is not true by arithmetic alone: the
receiving side computes from the function and the count where the message ends and
its checksum stands, and whether the bytes found there agree is a matter of the
bytes. TLC checks all of `DamageDetected`, these two bytes included, for the
messages of the run codec.

**Induction over data.** The induction theorems of the library take an operator as
a parameter, which the provers do not instantiate. The module ModbusCodecProofs
derives from its theorems on well-founded relations that a set of numbers that is
not empty has a least one (`LeastNat`). With it a recursive function is reasoned
about by its least counterexample: the function exists, built up to the last
index (`ChecksExist`, `HostChecksExist`, `LoopIs`), each value follows from the
one before, and so the checksum is two bytes (`CrcIsBytes`), the host's is the same
(`HostIsSame`), one damaged byte changes it (`ChecksTell`) and the loop of
`response_io_status` stores what `Packed` says (`LoopPacks`), for any length.

Only model-checked: the liveness properties (`EverySensorShown`,
`PollsEverySensor`, `DeadLinkNoticed`, `AlarmFollowsLimits`, `TablesEmptied`,
`PolledIsShown`, `QueryAnswered`, `Returns`, `CallReturns`, `Resynchronises`),
which rest on fairness and are out of the proof system's reach; `FramingDetected`,
for the reason above; and `ValuesInOrder`, which compares numbers with the texts they
are written as, digit by digit.
`FitsBuffer` is proved only: the garbled shapes that test the comparison are not
met on the quiet line of receive_tcp.

## 6. Not modelled

* The communication log, windows, colours and strip charts: nothing reads them
  back.
* `QuickExe` and `data_read` have no caller; the first learning server
  (`src/Server Demo/1`) shows what arrives and sends what is typed.
* The demos under `src/CVI Demo` apart from libmodbus: exercises and vendor
  samples. libmodbus's own tests, and its creation and serial-port
  settings of contexts, which set up what the models start from.
* The client simulators' panels; their answers are the slaves of Queries.
* A Modbus client on a serial line with late answers (nothing in an answer tells
  it from a late one; the library leaves that to the flush after a timeout).
* Popups and lamps of the releases before the last.

A clean exit of a program is not a step of the models: they describe it while it
runs.

## 7. Plan

Done: Monitor, Records, Tables, Queries, Settings, Releases, and libmodbus with
two refinements; their proofs as in section 5. What is left, in this order:

1. **Station**: an abstract specification of the host (a sensor's last genuine
   reading, saved at most once) that Monitor and Records implement together, with
   the shared `start` and the popups of both on one stack.
2. **A serial client**: ModbusLink over RTU, where only the flush tells a late
   answer from the next.
