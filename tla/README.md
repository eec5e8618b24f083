# Formal verification of the ESP8266 production monitor

The firmware counts what a sewing machine produces, keeps the counts in an
emulated EEPROM while there is no network, and sends them to a server over
MQTT (`src/README.md`: real-time production counting, local data buffering,
auto-reconnect, 24/7 operation).  This directory holds TLA+ models of the parts
that carry that promise, the TLC runs that check them on small instances, and
proofs, checked by TLAPS, that it holds whatever the sizes are.

`PROJECT.json` lists the components, the runs, a defect for every property
that shows the property can fail, the source lines of every definition, the
findings, the hazards and the theorems.

## 1. The system

### Where code runs

1. **loop()** (`main.cpp:75-92`): WiFi and MQTT housekeeping, NFC reader,
   machine times, teaching sequence, LED, display, keys, one after another.
2. **Callbacks** of the Arduino core: three tickers (10 ms sensors, 1 s commit
   and delay counter, 10 s from which the 60 s and 300 s work is derived), the WiFi
   events, and the AsyncMqttClient events.  They run when loop() yields, that is
   between two passes and *inside every `delay(1)` that `Fun_e2p::write`,
   `write_16`, `write_32` make*.  A callback itself runs to completion:
   `delay` does not yield there.
3. **The interrupt** `detFalling` (a stitch), which may come at any instruction.

No locks exist.  What protects the data is only that a callback is atomic for
loop(), and that is why a handler of loop() is one step only where it does not yield, or where
what comes in at its yields cannot tell (`Publisher`, `MqttClient`, `MqttSession`, `Stamps`, `UiPages`,
`InOutQueue`).  Elsewhere it is taken apart at the points where something else may come in: the handlers of ring and
counters at the yields between the RAM counter, the record, the counter and the indices (`ProductQueue`,
`NewDay`) and at those between the bytes of record and index (`E2pYield`), the teaching at each byte of a step that
is saved (`TeachSequence`), the machine times at each read of a variable the interrupt writes (`MachineTimes`), the
parser of the incoming bytes at each byte (`MqttParser`).

### Components

| Component | State | Operations | Interacts with | What makes it correct | Model |
|---|---|---|---|---|---|
| Product-data ring and counters (`Fun_operation`, `Fun_e2p`) | ring of 300 records with front and rear index, an output and a defect counter per process (all in the data sector), the copy of the current process in RAM | count, take back, reset, correction by the server, change of process, plan, take for publishing, commit, restart | teaching (counts), publisher (takes), MQTT callbacks (corrections, plan), tickers (commit, reset) | a bounded FIFO that drops the oldest only; display = EEPROM; ring and counters tell one story, in RAM and after a power failure; each as far as callbacks between the writes allow | `LossyFifo`, `ProductQueue` + proofs |
| Record publishing (`Fun_mqtt`) | three lists with the outstanding record, two retry counters, the step | publish, wait, resend, give up, acknowledgement, connect, disconnect | ring, AsyncMqttClient, every other message (packet ids) | one outstanding; nothing vanishes silently; the server never sees a newer count and then an older; the ring drains | `Publisher` + proofs |
| MQTT client and TCP libraries (`lib/async-mqtt-client-master`, `lib/ESPAsyncTCP-master`; vendored, but what every message rests on) | packet ids, acknowledgements waiting for room, the parser's state, one pcb | connect, publish, QoS 2 handshake, poll, incoming bytes, close | publisher, session | a message is passed on once, in order; the handshake never sticks; a packet is found wherever TCP cut it | `PublishLink`, `MqttClient` and `MqttParser` + proofs, and connecting in `MqttSession` |
| WiFi, session, watchdog (`Fun_wifi`, `Fun_mqtt`, `Fun_etc`) | connection and error flags, subscription flag, reassembly buffer, watchdog counter | WiFi and MQTT events, name lookup, attempts to connect, pings, ON, message pieces, 3-minute watchdog, restart | server, publisher, display | date and plan arrive in the end; the device ends up connected; no stale error; counts follow an ON; after a reconnection the server is heard | `MqttSession` + proofs |
| EEPROM access (`Fun_e2p`) | RAM image, commit flags, flash | byte writes with yields, commit, load | everything | a callback or commit inside a write does harm at named moments only | `E2pYield` + proofs |
| Date-time and new day (`Fun_mqtt`, `Fun_e2p`, `Fun_etc`) | clock set or not, day of the last reset, front index at boot | date-time message, 300 s and 60 s timers, stamping, reset, renumbering, commits, restart | ring, server | records get a plausible date; the day starts at the records of the day; sectors stay in step | `NewDay` + proofs |
| Teaching sequence (`Fun_teaSeq`) | running area, stored sequence per process, sensor counters, two state machines | signals, one pass of running or teaching, keys, server's sequences, plan, commit, restart | interrupt and tickers (signals), pages, ring (a piece is done) | a piece is a whole round of one sequence; what was taught is stored; counting goes on | `TeachSequence` + proofs |
| Pages and keys (`Ui_lcd`, `Ui_button`) | the page, its row, its time-out, the press | short press, holds of 1, 3 and 5 s, time-outs | all | the row shown exists; the page shown and the mode the device is in belong together | `UiPages` + proofs (what the keys do to counts, process and sequence: the models above) |
| NFC cards, in/out mode (`Fun_nfc`) | write mode, queue of ten cards | card read and written, in/out messages | pages, publisher | a card is overwritten only while the display says so; cards are reported in order, none twice, and lost in two known ways only | `UiPages`, `InOutQueue` + proofs |
| Machine, motor and power times (`Fun_operation`, `Fun_teaSeq`) | first and last stitch, running and handling time | loop(), stitch interrupt | new day, server | no time is counted twice; a running motor is not taken for a stopped one | `MachineTimes` + proofs |
| System time (`Fun_time`) | the clock | set, read | new day | stamps are exact | `Stamps` + proofs; a day in `NewDay` |
| Start-up (`main.cpp`, `Fun_e2p`) | - | load or initialise the sectors | all | a restart resumes from flash | `Boot` actions |
| Andon | mode, its reason in the EEPROM | on, off, restart, factory reset | pages, teaching | RAM, EEPROM and display agree; counting is resumed | `UiPages` + proofs; `Pause`/`Resume` in `TeachSequence` |
| Web configuration page (`Fun_wifi`) | - | form submitted | pages | takes no page from a mode | `PageConfig` in `UiPages` |
| LED, OTA, ping, debug, stubs, display, card reader and scheduler libraries | | | | | not modelled, see section 7 |

### What is hard in it

Callbacks inside writes; an acknowledgement that belongs to a message of an
earlier connection; a timeout racing the answer; a clock that is unset until
the server answers, while records are made; power failing between the commits
of two sectors, or inside one; a sequence replaced in the middle of a
round; an interrupt between two reads of what it writes; connection attempts
that pile up; a card or a web form that takes the display from a mode.  `PROJECT.json` lists each at its line under `hazards`, with the
properties that watch it or the reason why none does yet.

## 2. The modules

Every handler of the code is an action with the handler's name; `PROJECT.json`
`map` gives the lines.  Names of variables are the source's
(`ucCntCheckPubAck`, `usQFontStart`, ...).  *History* variables record what a
property needs and no action's guard reads; they are marked in each module.

* **`LossyFifo`** - the abstract specification of the buffer: a bounded queue
  that forgets its oldest record when full, and a saved copy a restart
  resumes from; a power failure during a save loses both.  `accepted` counts the
  puts, so that a record put into a full buffer cannot pass for a clearing of it.  Its writers do not exclude each other:
  a clash (`Spoil`) ends its promises (`exact`, and `savedExact` for the copy) until it is cleared or a good copy restored.
* **`ProductQueue`** - the ring with its indices, the counters, the RAM copy,
  the two commit flags and the flash image.  A handler of loop() is a chain of steps, and `pc` says which write comes next:
  the RAM counter is set and the front index read (`SetProduct`), the slot filled (`WriteRecord`), the counter written byte by byte
  (`WriteCounterHigh`, `WriteCounterLow`), the front index (`WriteFrontHigh`, `WriteFront`), the rear index (`WriteRearHigh`, `WriteRear`);
  a change of process moves the index (`ChangeProcess`) and loads the counters after a yield (`Reload`).  Callbacks (`UpdateCount`, `UpdateCountOther`,
  `GetPlan`, `ResetProduction`), commits and power failures come between any two of them, and a callback runs to its end.  A commit may
  fail; power may fail at any step (`PowerLoss`) or while a sector is erased (`PowerLossInCommit`).
  Three history variables name what a callback spoils there: `overtaken` (a counter reloaded or set while loop() had yet to
  write it), `corrected` (a counter without its newest record) and `raced` (the ring itself).
* **`ProductQueueProofs`** - its theorems.
* **`PublishLink`** - what the MQTT client promises: within a connection each message is
  passed on once and acknowledged after that, in order unless one of the client's own
  acknowledgements ever had to wait (`starved`); packet ids start at 1 with each connection; a connection that
  falls takes everything with it.
* **`Publisher`** - mqttCommunicateSvr's step machine and the outstanding list, built on
  `PublishLink` (its actions are steps of that module).
* **`PublisherProofs`** - its theorems.
* **`MqttClient`** - the QoS 2 half of AsyncMqttClient: publish, `_sendAcks` with its loop
  that skips every second entry (`Selected`, a recursive function), `_onPoll`, PUBREC and PUBCOMP, `_clear`; the broker is external:
  it answers a PUBLISH and passes on at a PUBREL.
* **`MqttParser`** - `_onData` byte by byte, the packets CONNACK, SUBACK, PINGRESP and PUBLISH, the chunks in which a
  payload is passed on, and mqttMessage, which collects them.  `sent` are the bytes of a connection, `arrived` how many of them TCP has
  delivered and `position` how many the parser has looked at; segments are cut anywhere, connections fall between any two.
* **`MqttClientProofs`** - the theorems of these two, among them that `MqttClient` implements `PublishLink`.
* **`MqttSession`** - WiFi and MQTT events, name lookups and attempts to connect that pile up
  on one AsyncClient, refused and half-open connections, pings, subscriptions, ON, the pieces of
  incoming messages, the watchdog up to the restart; the broker has clean
  sessions (nobody calls `setCleanSession`) and the will.
* **`MqttSessionProofs`** - its theorems.
* **`E2pYield`** - addQueue_product_data, dev_IncQfontIdx and dev_IncQrearIdx
  with one step per write that another context could see; index
  writes are two bytes; updateCount, reset_production and commits in between.  updateCount queues its records one
  entry a step, and nothing else runs until the last: a callback runs to completion.
* **`NewDay`** - records with a stamp, the true day, the day of the last reset;
  getDateTime, updateTimeEEPROM, resetDataWhenNewDay, updateOutputValueEEPROM.  Adding and taking a record are chains of steps as in
  `ProductQueue`, with counter and index written whole: the stamp is read with the front index, written before the counter, and the record is in
  the ring only after both, so that the date may come in between (`overtaken`).  A callback or a commit during an index write may find it
  half written (`MayRace`, `Torn`).
* **`MachineTimes`** - FunOperation::loop in the steps between which `detFalling` may come,
  with a clock that wraps.
* **`LoopProofs`** - the theorems of the two modules that take loop() apart, `E2pYield` and `MachineTimes`.
* **`Stamps`** - updateTimeEEPROM's arithmetic on hours, minutes and seconds, with bytes that wrap,
  against the true distance in seconds; hours, minutes and bytes have a size each.
* **`NewDayProofs`** - the theorems of `NewDay` and of `Stamps`.
* **`UiPages`** - the page, row and time-out, the steps of a press, write mode, andon, teaching,
  web configuration, the settings that a page changes; cards of three kinds.
* **`InOutQueue`** - the ring of ten cards and its sender, which moves on whether the client took the card or refused it (`refused`).
* **`UiPagesProofs`** - the theorems of these two.
* **`TeachSequence`** - seqOutRun and seqOutTeach, one pass of loop() a step,
  the sensor counters that interrupts and tickers raise in between, any number of them.  A pass that saves a step of a teaching
  (`SaveSenCnt`) goes on after each byte it wrote (`SaveHigh`, `SaveLow`, `SaveReset`), reading the live counter each time.
* **`TeachSequenceProofs`** - its theorems.

How they compose: `LossyFifo` is what `ProductQueue` implements (refinement
mapping at its end), and `Publisher` uses that promise in its most abstract form (records come out in the order they
went in); `PublishLink` is what `MqttClient` implements and what `Publisher` is built on;
the pieces of `MqttSession` are the chunks of `MqttParser`; `E2pYield` has the
bytes of the indices and of the record for what `ProductQueue` and `NewDay` say of a ring that was `raced` with; `TeachSequence`'s `Counting` is `ProductQueue`'s
`IncreaseOutput`; `NewDay` refines the ring's records by their
day, `Stamps` one record by its second; `TeachSequence`'s `Pause`, `Resume` and the end of a teaching are the keys of `UiPages`.

## 3. The runs

Every run uses the MC module of its component; the bounds are the cfg's.  Where one MC
module holds two modules that share no variable (`yield`, `newday`, `client`, `pages`), a variable `part`, chosen at
the start, lets one of them move: the behaviours are those of the one and those of the
other, and no product of the two is explored.

| Run | Checks | Bounds, and why they are enough |
|---|---|---|
| `ring` | `TypeOK`; `ImplementsFifo`: ring + flash implement `LossyFifo` | 3 slots, 5 records, 4 messages or resets (`MAX_CALLS`), commits and power failures without bound: the indices wrap and the ring overflows, also across restarts and with a callback between the writes. Counts are nought and records differ by their type, for the FIFO asks for no more. The VIEW leaves out what free slots hold, which no handler reads before it writes them. Proved for every size. |
| `plans` | `DisplayMatchesMemory`, `RingMatchesCounters` | 2 processes, 3 slots, 2 records, counts up to 1, 3 messages or resets (`MAX_CALLS`) at any yield: records of two processes, or of one process and both types, wait together, and a counter is reloaded, corrected or reset while loop() writes it. The VIEW leaves out where in the ring they lie, what free slots hold, and a ring that is `raced`, of which nothing is asked. Proved for every size. |
| `publish` | `TypeOK`, `OutstandingIsNewest`, `Accounted`, `ServerOrder`, `Drains` | 3 records, one of them with a bad year, 1 resend, timeout after 2 ticks, 2 lost connections, 1 other message, 4 under way: an acknowledgement can be late, lost, overtake another, or hit a reused id. All but `Drains` are proved for every size. |
| `client` | `ImplementsLink`, `Completes`, `TypeOK`; `Synchronised`, `HandledAsSent` | 5 messages: three acknowledgements can wait at once, so that the loop of `_sendAcks` skips one and sends the next; 2 lost connections. Parser: a length of two bytes (base 4), a topic too long, an empty message, packets back to back; every way to cut them; 2 falls. All but `Completes` are proved for every size. |
| `session` | `TypeOK`, `ErrorMeansOffline`, `Announced`, `Provisioned`, `Reconnects` | 3 faults of any kind, so that attempts can pile up on a half-open connection; a plan in two pieces, 1 unasked plan; the watchdog's own limits (2 and 11). All but the liveness properties are proved for every size. |
| `deaf` | finds `HearsTheServer` violated | one fault is enough |
| `yield` | `TypeOK`, `BufferedUnlessRaced`; `TimesWithinUptime`, `StopsWhenStill` | 3 slots, bytes of two values, so that the index carries from low to high byte inside the ring; 5 records, 2 callbacks, 1 power failure. Times: a clock of 16 ticks that starts at 0 or 3 before its wrap, 10 ticks: two whole runs of the motor, or one over the wrap. All four are proved for every size. |
| `newday` | `TypeOK`, `StampIsPlausible`, `DayThenData`, `RingMatchesCounters`, `KeptAreToday`; `KeepsItsDistance` | 3 slots, 2 processes, 2 records, 2 days: a boot can leave usQFontStart in the middle of the ring, the ring can wrap after it, and date, midnight, plan and commit can fall between any two writes of a record. A ring that was `raced` with is followed to its next reset only (`UntilReset`), and the VIEW leaves out slots nothing can read any more. Stamps: days of 3 x 3 x 3 seconds, bytes of 16, 32 seconds: every carry and borrow, and a midnight. All six are proved for every size. |
| `teach_taught` | `TypeOK`, `TaughtIsWorked` | areas of two steps, work of up to three: a third step meets a full area; any number of signals between two passes; counters of two bytes of two values each (`BYTE`), so that a value can tear. The VIEW leaves out what seqOutRun sets before it reads it. Both are proved for every size. |
| `teach_rounds` | `WholeRounds`, `InSync` | 2 processes, server sequences of one and two steps, power failures. Both are proved for every size. |
| `teach_counts` | `KeepsCounting` | one process, sequences of none, one and two steps, pauses |
| `pages` | `RowInList`, `ModesShown`, `AndonStored`, `TeachByHold`, `ComesBack`; `CardsReported` | every page and row; two reasons for andon; times of one to three seconds in the code's order. The queue has the code's ten places, 13 cards. All but `ComesBack` are proved for every size. |

### What the properties say

* `ImplementsFifo` - whatever pieces, resets, corrections, plans, commits and
  power failures come, the records between rear and front are a FIFO that gives
  up its oldest record only, and a restart resumes from the last commit.
  A callback at a moment that spoils the ring ends the promise until the next reset or restart.
* `DisplayMatchesMemory` - the counts on the display are those of the process
  shown.  Excepted are a counter loop() is just writing, and one that a plan, a correction or a reset overtook before it was
  written (`overtaken`): these differ until the piece is followed by another, or the counters are loaded anew.
* `RingMatchesCounters` - the newest waiting record of a process and type tells
  the value of its counter, in RAM and in flash: when power fails, neither is
  ahead of the other, but for the counter whose record was on its way to the ring at the commit.  A counter the server overwrote without
  queueing a record (`UpdateCountOther`), or that a plan in the middle of a record gave to another process than the record, is
  left out until its next record.
* `OutstandingIsNewest`, `ServerOrder`, `Accounted` - one record at a time,
  and therefore never an older count after a newer one at the server, with
  resends, give-ups, and acknowledgements of other connections; a record that
  is neither there nor outstanding nor reported was outstanding when a connection fell.
* `Drains` - nothing blocks the ring for ever.
  The order at the server holds as long as no PUBREL of the client had to wait (`starved`): `_sendAcks` then reorders.
* `ImplementsLink`, `Completes` - the QoS 2 handshake is that link, and it never waits for ever: what
  found no room, or was skipped, goes out with a later poll.
* `Synchronised`, `HandledAsSent` - wherever TCP cuts the bytes and a connection falls, the parser is between two packets exactly
  when the bytes are, and each message whose topic fits is handled once with its own payload, until a connection falls in
  the middle of a message (its beginning stays in sMsg).
* `Announced`, `ErrorMeansOffline` - counts follow an ON of their own connection; an online device shows no error.
* `Provisioned`, `Reconnects` - the promises of the watchdog and of the repeated attempts to connect; the second has one exception, `Limbo`.
* `BufferedUnlessRaced` - the exact condition under which yields are harmless.
  The history variable `raced` names the moments at which they are not (section 5).
* `TimesWithinUptime`, `StopsWhenStill` - no stretch of time is counted twice, and a sewing machine counts as stopped
  only when no stitch came for STOP, or one came after the loop had read the clock.
* `KeepsItsDistance` - at any moment after the clock is set, the clock minus the stamp is the time since the record was made, except after
  the two cases `Garbles` names.
* `ModesShown`, `AndonStored`, `TeachByHold`, `ComesBack`, `RowInList` - a mode that is on is on the display unless a card or the web form took it; andon in
  RAM, in the EEPROM and on the display agree; teaching needs a hold that began on the main page; left alone, the device returns to a page without time limit, and waits for
  no card any more unless the page was taken; a row exists in the list that is shown.
* `CardsReported` - cards are reported in order, none twice; a card is lost either alone, by a publish the client refused, or in a whole round of ten.
* `StampIsPlausible`, `KeptAreToday`, `DayThenData` - what the new-day handlers
  guarantee, with the exceptions that the code needs: `slipped` (the ring passed
  its end, or was emptied, before the clock was set), `scrambled`, `raced`, and `overtaken` (a record on its way to the ring when the date
  came or midnight passed) - and that ring and counters agree meanwhile (`NewDay`'s `RingMatchesCounters`).
* `WholeRounds`, `InSync`, `TaughtIsWorked`, `KeepsCounting` - a piece is
  counted after a whole round of the sequence in force, which is the one stored,
  which is the work that was shown to the device, unless a signal came too soon (`Rush` names the cases); and a working machine is counted for ever.

### Findings

* `deaf`: the subscriptions are not renewed after a reconnection
  (`Fun_mqtt.cpp:90`; the flag is never cleared, sessions are clean).

## 4. Fairness

* `Publisher`: weak fairness of mqttCommunicateSvr (loop() calls it every 2 s),
  of connecting (tried every 30 s) and of the plan (the server answers ON, and the watchdog
  repeats ON).  `MAX_DROPS` bounds the connections lost, so the connection lasts in the
  end.  *No* fairness of acknowledgements or deliveries: `Drains` must hold even
  if none ever comes.
* `MqttClient`: weak fairness of `_onPoll` with room (lwIP polls each connection every 500 ms, and TCP makes room again), of
  `_onData` and of the broker.
* `MqttSession`: weak fairness of each handler that loop(), a ticker or an event
  runs, strong of `T60s` (its guard comes and goes with messages under way), and of access point, broker and server once the `MAX_FAULTS` faults are over.
  `T60s` has the guard `Settled`: within three minutes, what is on the wire
  has arrived and a connection was tried; without it the model's timer
  could be infinitely fast.
* `UiPages`: weak fairness of the second of UiLcd::loop.
* `TeachSequence`: loop() passes, the 500 ms and 1 s timers go on (weak), and a
  machine in use sends its signals again and again (strong, because a signal is
  ignored for 500 ms after a trim).  `KeepsCounting` is about a device left
  alone with a sequence that has steps and does not ask for the relay input: that
  input is not polled (`Fun_teaSeq.cpp:199`), yet setTeaching accepts it from the server.

## 5. What the models taught about the code

Not violations of a text of the repository, but facts a maintainer wants to
know; each is an exception spelled out in a property or an action.

* **Yields.**  A callback harms the ring when it adds records while loop() fills
  a slot (both write to the same one), when it moves the index dev_IncQrearIdx is about to store, and
  when it runs, or the commit does, between the two bytes of an index, or after
  the front of a full ring moved and before its rear did: then a full ring reads
  as empty.  Anything else is harmless to the ring (`yield`).
* **A plan while a piece is counted.**  A getPlan in the yields between `output = output + scale` (`Fun_operation.cpp:205`) and the write of the counter
  (262) loads the old count into oper.output, and the new one is then written to the EEPROM: the display is one piece behind, and
  the next piece is counted from the old value, so that one is lost.  The same holds for a correction, which is overwritten.
* **A commit while a record is added.**  Between the counter (262) and the front index (292) the commit of the 1 s ticker saves a
  counter without its newest record; after a power failure the server does not learn that count until the next one.  A commit between the
  bytes of the counter saves a mixture of old and new.  A plan there that moves the process index gives the record to one process and the count to another.
* **A date while a record is added.**  A getDateTime between the read of the time (`Fun_operation.cpp:242`) and the front index (292) stamps the
  records up to the old front only: the one on its way stays at 1970, year 226 in its byte, though the clock is set.
* **Process corrections.**  A correction of the *defects* of another process overwrites
  its *output* counter (`Fun_mqtt.cpp:792`), and its event overtakes older records.
* **Reset before the clock.**  `usQFontStart` is not updated when the ring
  is emptied or wraps; the loops of updateTimeEEPROM and
  updateOutputValueEEPROM then see nothing, or slots of records long sent.
* **New day.**  Only the upper half of the other processes' 32-bit counters is cleared
  (`Fun_e2p.cpp:628`): below 65536 they survive.  A power failure between the commit of the info sector
  and that of the data sector loses the day's reset.
* **Acknowledgements.**  After a reconnection the acknowledgement of any message whose id equals
  the outstanding record's removes it (hence `crossed` in `Accounted`).  The
  tick counter is not cleared by an acknowledgement: a record inherits its predecessor's wait.  `_sendAcks` erases entry i and goes on
  with i + 1 (`AsyncMqttClient.cpp:622-643`): with several PUBRELs waiting, the broker gets them in another order, and passes the messages on in that order.
* **Limbo.**  A broker that is gone between CONNECT and CONNACK leaves a pcb, so that nothing connects again, and `_onPoll` returns at once
  while `_connected` is false, so that no ping finds out.
* **Parser.**  `_clear` does not reset `_remainingLengthBufferPosition`: what a fallen connection left there is absorbed by the remaining length of the next
  CONNACK, which nobody reads.  A PUBLISH with a topic longer than `maxTopicLength` is skipped, but its packet is never freed.
* **Year.**  Without a date the year is 1970, and 1970 - 2000 is 226 in a byte, a good year to the check in `Fun_mqtt.cpp:957`: such records are published, as of 2226.
* **Stamps.**  A borrow from hour 0 gives 255, which modulo 24 is 15 instead of 23 (`Fun_e2p.cpp:511`).  When the clock passes midnight
  before it is set, or is set again after a midnight, the time since the record is taken between two days.  A record of
  yesterday evening gets today's date, so that its stamp lies in the future.
* **Times.**  Motor and handling time can together exceed the uptime.  A stitch after ulMil was read makes the difference wrap, and the running motor
  counts as stopped (`Fun_operation.cpp:110`).  A general machine may start in the very millisecond of the clock's wrap.
* **Pages.**  A card, or the web form (served whatever the LCD shows), takes the page of a teaching, an andon or a wait to write: the mode
  goes on without a page that ends it.  A card misread on the web page leads to MAIN with the web configuration still on.  A factory
  reset during an andon that lost its page stores Off, but bAndonMode stays.  A failed write on an Ultralight card leaves the waiting page on in READ mode.
  NFC and INFO pages never leave by themselves.  disp_changeProc without a plan divides by zero.
* **In/out queue.**  The tenth card in a row makes the ring look empty: ten cards are lost at once.  `mqtt_publish` drops the result of the client's publish (`Fun_mqtt.cpp:1036`), and the
  rear index moves on (1242): a card sent without a connection, or without room in the TCP buffer, is lost alone.
* **Teaching.**  A change of the sequence during a teaching spoils what is taught (`disturbed`); a commit
  in the middle of one leaves a running area and a stored sequence that differ after a restart (`torn`);
  a card takes the page that ends the teaching, which then goes on.
  A signal of the sensor whose step is being saved is lost, or tears the value when it carries into the high byte between the two reads
  (`Fun_teaSeq.cpp:705-712`).  Two sensors that give signals between the same two passes are found in the order of the code's search, not of
  their coming.  A teaching ended while a sensor waits loses that step.

## 6. The proofs

tlapm proves 35 results; every safety property of section 3 is among them.  Constants have
only the assumptions named in the modules: sizes are naturals, a ring has two slots at least,
the restart comes after one tick at least, an index fits into two bytes and a day into a word.
In each module the properties are not inductive by themselves; what has to be
known besides is stated in named parts, one lemma shows for each part that every action keeps
it, and the theorems follow from the whole.

### `ProductQueueProofs` - for every ring length, number of processes and bound

* `TypeCorrect` - `TypeOK` is inductive with one addition (`TypeInv`: a record on its way has its place among `MAX_RECORD`): the indices move
  modulo the length only (`IncIdxInRing`), `Boot` loads an image of type `ImageType`.
* `InvHolds` - what the next two rest on: `StepInv`, as long as the ring was not `raced` with, what loop() holds in its local
  variables (the slot it writes, the index it stores, the record) fits the ring as it is at that write (`InStep`), whatever callbacks came before.
* `RefinesFifo` - `Spec => ImplementsFifo`.  The refinement mapping is `Queue(front, rear, slot)`,
  the records between the indices; the lemmas `QueueTail`, `QueueAppend` and `QueueEmpty` say
  what moving an index does to it, by arithmetic on `Used` and `Pos` in the three cases: no wrap, wrap,
  overflow.  `StepRefines` has one case per action: a record is put when its front index is written, the oldest is gone at that same moment (`RearSeen`),
  and a step that races with loop() is `Spoil`.
* `DisplayCorrect` - `DisplayInv` says at every write of a handler what the display shows (`Shown`): the counter, the value of the
  record being written, or, where a callback overtook it, anything.
* `RingCorrect` - the invariant is not inductive by itself on the queue seen through
  the indices; `RingInv` states it of the abstract queue, for RAM and flash together
  (a commit copies one to the other, a restart back).  Between the write of a counter and that of the front index the counter already has the
  value of the record on its way, unless it was overwritten (`OnItsWay`), so that the record closes the gap when it comes; until then the pair is among the
  `corrected`, in a committed image as well (`FlashAgrees`).  The lemmas `AgreeTail`, `AgreeAppend`, `AgreeAfter` and `AgreeExcused` carry it
  through the queue's kinds of change.

### `PublisherProofs` - for every number of records, retries and connections

* `PublisherTypeCorrect`, `OneOutstanding` - inductive, the second with the first.
* `InOrder` - needs `WireInOrder`: what is on the wire is sorted, not newer
  than the last record taken and not older than the last one delivered.
* `AllAccounted` - needs to know that an acknowledgement can only be mistaken
  for the outstanding record's after a connection fell: `IdsBelowNext` (every id under way is below nextPacketId)
  and `IdIsTheRecords` (in the connection in which it was sent, the id in the list is that record's).

### `MqttClientProofs`: the handshake - for every number of messages, subscriptions and lost connections

`ClientImplementsLink`: what `Publisher` takes for granted of its link is what the client library does, so that
the theorems above rest on no unproved link.  The link's wire is the broker's inbox followed by the messages under way to it.

* `Rises` - messages are under way, and lie in the inbox, in the order of their ids.
* `AllKept`, `AskedOnce` - the broker still has the message of every PUBREL that was asked for (PUBREC under way), waits
  (`_toSendAcks`) or is under way, and each is in one of these places, once.  Therefore a PUBREL always finds its message.
* `InStep` - as long as no PUBREL had to wait, they come in the order of the messages: the inbox is what the PUBRELs under way and
  then the PUBRECs under way name.  That is why a message is delivered out of order only after `starved`.
* Steps: OnConnAck, OnDisconnect and Publish are the link's Connect, Disconnect and Publish; a poll or a PUBREC is Starve when something has to
  wait, or nothing to the link; OnPubComp acknowledges; BrokerPublish is nothing, BrokerPubRel delivers.

`Selected` (the entries of a sequence that are of one type) is a recursive function, so what appending and taking
the head do to it needs induction.  The provers have no induction rule to apply; the lemmas `Smallest`, `Induction` and `Recursion` get it from
`WFMin`: a set of numbers that is not all of them leaves out a smallest one.

### `MqttClientProofs`: the parser - for every stream of packets, every way to cut it and every base of a length

`ParserSynchronised` and `ParserHandledAsSent` follow from one invariant, `ParserInv`: the bytes are those of the stream (`WireInv`), and for
some k the first k packets are behind the parser.

* Where it is: between two packets (`Between`), or as far in the remaining length, the header or the payload of packet k + 1 as its
  position says (`InLength`, `InHeader`, `InPayload`, each with what has been read so far: `bytePosition`, `bytesRead`, the beginning of the message in `sMsg`).
* What it has told: `handled` is what is due after k packets (`Told`).
* `DecodeIs` - decoding a length that was encoded gives it back.  Bytes that an earlier connection left before it only make the result
  larger.  They lie before a CONNACK's length only (k = 0), which is 2, so that it never decodes to 0 and is not mistaken for a PINGRESP.
* `SentGrows`, `BytesAre` - which byte of which packet lies at a position; `ChunkJoins` - the chunks of a payload join to its beginning.
* `ParserLengthFits` - `_remainingLengthBuffer` has 4 bytes (`AsyncMqttClient.hpp:116`) and no check of its end.  Although `_clear` leaves in it what it
  held, and its position, it never holds as many bytes as the longest length has: a fall can only leave bytes behind that were fewer, and
  the length of the next CONNACK is a single byte that empties it.  (A base above 2, so that a CONNACK's length has one digit.)

`Quotients`, `Sent`, `Due` and `DecodeRemainingLength` are recursive functions of the model; what they compute is by the same induction.

### `MqttSessionProofs` - for every number of faults, of ticks and of pieces of a message

* `SessionTypes` - also bounds what piles up.  `DialledByFaults`: attempts, lookups and pushed-out connections are
  paid for by faults, so a network without faults never has two connections.  `TicksCounted`: the watchdog's counter stops at the restart.
  `PiecesOK`: what is collected is shorter than a message.
* `ErrorAlwaysMeansOffline` - inductive.
* `AlwaysAnnounced` - needs `SaysOnAgain` (a lost connection makes the device say ON again), `ChannelsOK` (nothing is under way without a connection) and
  `OneConnect` (with no older connection about, CONNECT is the first of its connection and CONNACK its answer): without it, a CONNECT
  left over could make the broker forget an ON.

### `LoopProofs` - for rings, bytes and batches, and clocks and intervals of every size

* `YieldTypes`, `AlwaysBuffered` - `Whereabouts` says for each write of loop() what the ring holds at that moment and which part of the
  record, or which byte of the index, is written (`AtIdle`, `AtRecord`, `AtFront`, `AtRear`); it holds until `raced`, and `Committed` says the same of
  the flash image.  A high byte that has been written and a low one that has not is the mixture `High(old, new)`.
* `TimesAlwaysWithinUptime`, `AlwaysStopsWhenStill` - instead of clock values, which wrap, the invariants are about how long ago a reading was taken (`Ago`):
  `RunsApart` (a run begins with its first stitch and is added once), `HandlingApart` (what was added as handling lies before the
  handling being measured), `StillAtStop` (without a stitch since loop() read the clock, the last one is older).

### `NewDayProofs` - for rings, plans, days and boot positions of every size

* `StepInv` - as in `ProductQueue`: until it is `raced` with, loop() writes where the ring expects it, and at most one record is on its way.
* `SinceBoot` and `Dated` - what updateTimeEEPROM and updateOutputValueEEPROM run through was written since the boot, and a
  record made since the boot lies there, or is the one being written (`Found`), or has a plausible date, or its slot is among those `overtaken`; `DraftDated` says the
  same of a record whose time was read and not yet written; from them `StampsArePlausible` and `AlwaysKeepsToday`.
* `RingKept` - ring and counters agree, in RAM and in flash (`RingAlwaysMatches`).  In contrast to `RingCorrect`, it is about slots that
  updateOutputValueEEPROM renumbers in place: `Matches` compares the distances from the rear, and the rear is the one
  that dev_IncQfontIdx is about to store once the front has moved (`RearSeen`).
* `DaysKept` - a sector with nothing to commit is as committed, and the day in flash is the device's unless the data are due
  as well (`DayAlwaysThenData`).
* `AlwaysKeepsItsDistance`, of `Stamps` - updateTimeEEPROM takes a difference of seconds apart into hours, minutes and
  seconds and subtracts them from the clock's, with borrows.  `TimeParts` (a time is the sum of its parts), `PassedIs` (the difference, through
  words and bytes that wrap, is exact) and `BeforeIs` (the borrows give the earlier time, or, across midnight, that of the day before)
  are proved for hours, minutes and seconds of any number, as far as they fit the byte.

### `TeachSequenceProofs` - for areas, plans, counters and sequences of every size

* `TeachTypes` - no step is read or written past the last cell, which only ever holds the end flag; `AddrInArea` says where usE2pAddr, which
  running and teaching share, stands in each step.
* `CountsWholeRounds` - needs `RoundKept`: what was completed is what stands before the address, and no end flag does.
* `AlwaysInSync` - needs `CleanFlash` (a sector not committed in the middle of a change is in step), and that a teaching leaves the area alone until
  a signal is detected.
* `TeachesTheWork` - `Followed`: as long as no signal came too soon and nothing changed the area, loop() is abreast of the worker.  For
  some n (`Abreast(n)`), n whole steps of the work are written or being written (`Writing`), as many as fit; the next is in its counter (`AtStep`); at most one
  more sensor waits for a pass (`Ahead`), and no other counter is up (`Quiet`, `Apart`).  While a step is saved byte by byte (`Saving`), `BytesTyped` says that
  the high byte with the low byte of the same counter gives the counter back; a signal between the two would be one that came too soon.

### `UiPagesProofs` - for every number of reasons for andon, all times, and a card queue of any size

* `RowAlwaysInList`, `ModesAlwaysShown`, `AndonAlwaysStored` lean on each other (`PagesCore`): which page comes next depends on the row and on the modes.
* `TeachesByHoldOnly` - an action property; needs `MenuOpenedByHold`: the menu under a hold of more than a second was opened by it.
* `CardsAlwaysReported` - `HeldAreLast` (the places held are the last cards read), `SentRises`, and `LostInRounds`: what is neither held nor
  sent nor refused is a multiple of the ring's length.

### Only model-checked

* Liveness: `Drains`, `Completes`, `Provisioned`, `Reconnects`, `KeepsCounting`, `ComesBack` (out of the prover's reach), and
  `HearsTheServer`, which does not hold.

No module uses a RECURSIVE operator.

## 7. What is left out, and why

* Bytes of records other than the type, count and process (and the stamp: its day in `NewDay`, its second in `Stamps`);
  the calendar (mktime of the C library); JSON, topics, wording, drawing.
* The 16-bit wrap of the sensor counters: they stop at `MAX_CNT`.  A page torn in the middle of a flash write: a sector
  is old, new or erased.
* Yields at which nothing that is modelled can tell: those between the bytes of a setting, between the cells of a sequence that a
  key copies or stores (`InSync` excepts a commit there), and those of the display, the card reader and the sender of a message.
* In `ProductQueue` a day reset empties the ring; what it keeps of it, and the rear index that then is usQFontStart (`Fun_e2p.cpp:560`), is in `NewDay`.
* Packet ids of `MqttClient` do not wrap at 65535.
* Sending and saving the machine times by the minute; `NewDay` only chooses whether they are too long for the day.
* The bytes on a card; the identifiers of cards outside the in/out mode.
* TLS, QoS 1, unsubscribing, the last will and the server side of the two network libraries: the firmware does not use them, or the broker alone sees them.
* The LED, the fields of the web form, OTA, ping and debug messages: no state another part
  reads, or input parsing.
* The display, card reader and scheduler libraries: fonts, pixels and bus registers.  They, and the drawing code of `Ui_lcd.cpp`, are most of the
  lines under `src/`; that is why `map`, which names the lines of the program's own logic and of the two network libraries it rests on, covers
  a small share of the whole.

## 8. Plan

Done, in this order: `LossyFifo`/`ProductQueue` with proofs, `Publisher` with
proofs, `MqttSession`, `E2pYield`, `NewDay`, `TeachSequence`; then `PublishLink`, `MqttClient` and `MqttParser`,
`UiPages` and `InOutQueue`, `MachineTimes`, `Stamps`; then the proofs of `UiPages` and `InOutQueue`, `MqttSession`,
`TeachSequence`, `E2pYield` and `MachineTimes`, `NewDay` and `Stamps`, `MqttClient`, `MqttParser`.  Last the handlers of ring, counters and stamps, and the saving of a
taught step, were taken apart at their yields, in the models and in the proofs.

What is left is to take apart the keys that copy a sequence (disp_changeProc, save_all) in `TeachSequence`, which would make
the exception of `InSync` for a torn commit exact, and to give `Publisher` the power failure of a record that lives in RAM only.
