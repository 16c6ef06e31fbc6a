# A verification of the smart-home system

The repository holds a small smart-home system. A device (RT-Thread on an
STM32L475) measures temperature, humidity, gas and dust, and switches two
relays and an alarm. A WeChat applet shows the measurements and sends commands.
The two meet at an MQTT broker: the applet publishes on topic `Applets`, the
device on topic `Device`.

This directory holds TLA+ modules that model the parts of both sides where
threads, interrupts, messages and time meet, TLC configurations that check them
on small instances, and proofs, checked by TLAPS, of what holds for every size.

## The system and its parts

| part | source | module |
|------|--------|--------|
| UART receive FIFO | `rt-thread/components/drivers/serial/serial.c` | `RxFifo`, `ByteFifo` |
| ZPH02 dust sensor: interrupt, parser thread, checksum | `modules/src/dev_sensor.c` 230-358, 463-475 | `Zph02` |
| SHT3x reading, checksum, conversion | `packages/sht3x-v1.0.0/sht3x.c` | `Sht3x` |
| sensor thread, switches, gas alarm, snapshot of the switches | `modules/src/dev_sensor.c`, `modules/src/wifi_mqtt.c` 84-109 | `DevSensor` |
| text of a snapshot, and how the page reads it | `dev_sensor.c` 368-393, `emqx.js` 83-168 | `Snapshot` |
| MQTT worker, its pipe and callbacks | `packages/pahomqtt-v1.1.0/.../paho_mqtt_pipe.c`, `modules/src/wifi_mqtt.c`, `components/drivers/src/pipe.c` | `PahoMqtt` |
| keep-alive timing of the worker | `paho_mqtt_pipe.c` 1054-1121, `select.c`, `poll.c`, `clock.c` | `KeepAlive` |
| AT client and ESP8266 driver | `components/net/at/src/at_client.c`, `packages/at_device-.../at_socket_esp8266.c`, `at_device_esp8266.c` | `AtClient` |
| applet page and its MQTT client | `Applets/pages/emqx/emqx.js`, `Applets/utils/mqtt.js` | `Applet` |
| device and page together | `dev_sensor.c`, `wifi_mqtt.c`, `emqx.js` | `SmartHome` |

How they interact: `main` (priority 10) runs `dev_sensor_init`, which sets up
the switches and sensors and starts three threads. The MQTT worker (priority
10) runs `mqtt_sub_callback` on each command and `mqtt_online_callback` after
each connection; both publish through a pipe that the worker itself empties.
Its socket is one of the ESP8266 modem, reached through the AT client, whose
parser thread (9) runs before all of these. The sensor thread (12) measures,
drives the alarm and formats the text buffers that the callback publishes. The
ZPH02 parser (25) assembles frames from the bytes that the UART interrupt
queues. On RT-Thread a thread is preempted only by a thread of a higher
priority: the worker may interrupt the sensor thread anywhere, and the sensor
thread the ZPH02 parser, but not the other way round. The modules allow these
interleavings and no others. The applet is a page with one MQTT client; its
callbacks run to their end, so each handler is one step.

## The modules

**`ByteFifo`** is what the receive FIFO promises: a queue of at most `Capacity`
bytes that forgets the oldest when one more arrives.

**`RxFifo`** is `struct rt_serial_rx_fifo`: the circular buffer, its two
positions and `is_full`. Its two actions are one turn of the receive loop of
`rt_hw_serial_isr` and a successful `_serial_int_rx`; both change the positions
with interrupts disabled. `ImplementsByteFifo` is the refinement of `ByteFifo`
under the mapping `Waiting` (the characters between the positions).

**`Zph02`** follows a byte from the wire to `zph02_data`. The actions are the
steps of `dev_sensor_zph02_init`, the receive interrupt (which queues the byte
as `ByteFifo` says and calls `dev_sensor_zph02_callback` once it is installed),
the parser thread (`Read`, `Take`, `Parse`, and `value_check` in two halves,
because the sensor thread may run between its two stores) and the sensor
thread's `SensorRead`. The sensor and the line are external: frames come from a
set, and up to `MaxFaults` bytes are lost, damaged or overwritten. Bytes are
numbers, as the signed comparison `ch == 0xff` and the 8-bit sum matter.

**`DevSensor`** is the shared record `dev_sensor_data_result`. `main` runs the
initialization calls in their order; the sensor thread has one action per
access to shared state; `Command` is `mqtt_sub_callback` on the six switch
commands. `rt_sprintf` is modelled by what a reader can see of it: arguments are
evaluated one by one in any order, then the fields are written from left to
right. Of the measurements only "gas above 50" is kept. The status fields of
the SHT3x and MQ2 go through BUSY and back within a reading; only the sensor
thread looks at them, so that is one step.

**`PahoMqtt`** is `paho_mqtt_thread` from `_mqtt_start` to `_mqtt_restart`, with
`MQTTPublish`, the pipe and the callbacks. Packets are abstract values in two
queues, records in the pipe keep their length, as the pipe's size matters. A
record that does not fit leaves the worker in `pipe_fops_write` for ever: it is
the pipe's only reader. The broker is external; it may refuse, answer late, or
forward a message before it acknowledges the subscription, and the link may die.

**`KeepAlive`** is the timing of the same loop: the `select` timeout, the ping
and the five seconds for its answer. Time is in whole seconds since
`tick_ping`, as the code counts it. `select` turns a negative timeout into
`RT_WAITING_FOREVER` by way of `poll` and `rt_tick_from_millisecond`.

**`AtClient`** is `at_obj_exec_cmd` and `at_client_obj_wait_connect`, a step per
access to the client that another thread could come between, and
`client_parser`, which handles a line in one step because nothing preempts it.
On top are the operations of the driver that use them: connect with its close
and second attempt, send with its prompt and events, the query of the network
interface, and the probe and reset of the modem. The modem is external: it
answers a command with lines, may be slow, forget an answer or send an empty
line, and is busy until it is done. Commands are numbered, and history
variables say which command an answer belongs to, so that a stale answer can be
told from the right one. Another one, `quiet`, says whether anything was under way
when the last command was written: a modem at work, a line, a release of the
semaphore or an event. How old a stale answer is has no bound in the number of
expired waits: once a stale event is about, the two lines of a send may come from
two commands, and the client falls further behind. How lines are cut out of bytes
is left out.

**`Applet`** is the page and the client of `mqtt.js` as the page uses it: every
publish has QoS 1 and goes to `outgoingStore`; after a CONNACK the store is
replayed, one packet per PUBACK, publishes made meanwhile are stored only and
cause another round, and the "connect" event at its end sends the queued
SUBSCRIBE. `_packetIdsDuringStoreProcessing`, the reuse of identifiers, the
reconnect timer, the CONNACK timeout and the ping are there; what a publish says
is not. A ping is put off by every packet sent, so it can find a dead link only
while the page is not polling or a replay stores what it publishes.

**`Sht3x`** has the driver's `crc8`, its reading and its conversion as operators. A
byte is the set of its bits that are 1: the checksum is about bits, and `^` and `<<`
are operations on sets. **`Snapshot`** is the text: `Fixed` is `%d.%d` of the integer
part and the tenths with C's division, `SensorAll` has the conversion for which there
is no argument (it prints some member of `Junk`), `Visible` ends a text at its NUL, and
`split`, `StatusIn`, `ValuesIn` and `Exceeds50` are what the page does with the text.
The concentration is written out digit by digit, as the page computes with it;
temperature, humidity and dust are a symbol each.

**`SmartHome`** composes the two sides. The sensor thread formats two buffers;
the worker may publish a buffer while it is being replaced, and then sends the
beginning of the new text with the rest of the old one. The history variable
`shows` has the records that these two were made from. The page polls, sends
commands, receives echoes, snapshots, the will and `DEVICE_ONLINE`. Messages and
the connection of the device may be lost.

Operators named `..._<something>` and marked "Mutant" are plausible mistakes in
the definition that follows them. They are used to make sure that each property
fails when the code is wrong, and belong to no specification.

## What the runs check

| run | config | states | what it shows |
|-----|--------|--------|---------------|
| `rx_fifo` | `MC_RxFifo.cfg` | 414 | the positions implement a drop-oldest queue |
| `zph02` | `MC_Zph02.cfg` | 979 thousand | no lost wake-up; alignment, genuine and steady values on a faultless line; torn reads blend adjacent frames only; a rejected frame ends the measurement; a start byte never realigns |
| `paho` | `MC_PahoMqtt.cfg` | 143 thousand | execution in order, PUBACK after execution, records sent once and in order across reconnections; online again once faults stop; the pipe is served |
| `keepalive` | `MC_KeepAlive.cfg` | 36 thousand | a dead link is given up within 55 s unless `select` waits for ever; when it does, an answer is on its way; a live link is never silent for an interval |
| `sensor` | `MC_DevSensor.cfg` | 207 thousand | commands are never undone; the snapshot is right after a round; the alarm is justified, starts and stops; a failed sensor stays failed |
| `at` | `MC_AtClient.cfg` | 3.9 million | `client->resp` belongs to the caller inside its command; a deleted object is not written to if the probe got its own answer; stale releases do not pile up, and a command that is written in silence returns with its own answer, whatever went wrong before it; such a send writes its data after its own prompt and returns with its own result; a response that did not fit is not reported |
| `applet` | `MC_Applet.cfg` | 327 thousand | no publish is lost, overtaken or sent twice on a connection; the last thing the broker gets is the last thing published; the client drains its store and subscribes again |
| `home` | `MC_SmartHome.cfg` | 365 thousand | a torn snapshot is new up to a field and old from there; the warning agrees with the value beside it; the page converges to the switches and reports a leak; damaged SHT3x readings are contained; the text stands for the number |

`DamageIsContained` and `TextStandsForNumber` are about operators, and stated of
the initial states: TLC evaluates them there, over all patterns of up to three wrong
bits in either half of two readings after one another, all temperatures the sensor can
deliver and concentrations up to 200.0. `DecodesSnapshot` supposes that the two
concentrations are equally long. Where they are not, the separators of the two texts
are in different places, and what the page shows may be in neither; the next snapshots
put it right (`Converges`), and `WarningMatchesDisplay` holds even there.

Some of these properties say what the code does rather than what one would
wish. Temperatures between 0 and -1 lose their sign before the point and every
temperature below zero with tenths has a sign too many (`TextStandsForNumber`);
an answer may be stale after a timeout, until a command is written in silence
(`OwnAnswer`); a dead link stays unnoticed
by the applet while its page polls (`PollsHideDeath` in `Recovers`); an
identifier that comes round while its packet is stored overwrites it (`reused`).

Four runs show a disagreement between the code and what the repository says of
it; TLC finds a counterexample in each.

| run | property | what happens |
|-----|----------|--------------|
| `paho_lost` | `AcceptedIsSent` | `read()` takes all records of the pipe, the first one is sent, the others are dropped |
| `paho_blocks` | `PublishNeverBlocks` | nine status requests that arrive together fill 512 bytes, and the worker waits for itself |
| `keepalive_dead` | `DeadLinkIsNoticed` | the timeout is negative from 51 to 55 s after `tick_ping`; a link that dies during that `select` is never noticed |
| `sensor_off` | `OffSilences` | `BEEP_OFF` during an alarm leaves the pin high while gas stays high |

### Bounds

- `RxFifo`: four cells and two characters, so that positions wrap, meet and
  overflow in every combination. The proofs cover every size.
- `Zph02`: two frames that differ in both bytes of the measurement, a FIFO of
  two bytes (so that it overflows), two semaphore tokens, one fault. One fault is
  enough to misalign the parser for good; a damaged byte becomes 0xff, the value
  of the start byte. `SemMax` delays the line while two tokens are pending, which
  removes no order of the interrupt and the thread's two steps.
- `PahoMqtt`: two commands out of three kinds (echoed, answered with a snapshot,
  not answered), two faults, and a pipe of 92 bytes, which two snapshots or a
  snapshot with `DEVICE_ONLINE` overfill. `paho_blocks` uses the real 512 bytes.
- `KeepAlive`: the real interval of 60 s, an answer within 5 s, handlers that
  take no time (`Slow = 0`); clocks stop at 70 s, above every bound that a
  property mentions. The proofs cover every interval and every `Slow`.
- `DevSensor`: three commands, enough to change a switch between two steps of a
  round and to change it back; gas may change at any time.
- `AtClient`: two callers, the worker and the work queue; operations begin until
  two commands are written, and those under way may write more; one forgotten
  answer or empty line; the parser at most two lines behind. A late answer thus
  meets a command of the other caller and one of the same caller.
- `Applet`: identifiers up to 4 (65535 in the code) with five publishes, so that
  an identifier does come round, and two broken or dead connections, so that one
  breaks in the replay after another.
- `SmartHome`: only the beep is clicked; concentrations 9.5, 60.1 and 75.2, one below
  and two above the limit, so that texts of different and of equal length meet in a
  buffer; every second poll asks for everything (every fifth in the code); two
  requests under way, one change, two faults. The buffers hold 39 symbols, which is
  the longest text for any concentration and anything the conversion without an
  argument may print; it has at most 57 of the 100 characters of the code's buffers.
  The proofs cover all of these values.

### Fairness

- `Zph02`: weak fairness of each thread and of the line. RT-Thread runs the
  highest ready thread, and the threads above the parser sleep for most of each
  second; the sensor sends a frame every second.
- `PahoMqtt`: weak fairness of the worker and of the broker. Nothing of higher
  priority than the worker runs for long; a broker that is reachable answers.
  Faults are bounded and have no fairness.
- `KeepAlive`: weak fairness of the worker's own steps and of time. Nothing is
  assumed of the network.
- `DevSensor`: weak fairness of `main` and of the sensor thread. Commands and
  gas have none.
- `AtClient`: none; its properties are safety properties.
- `Applet`: weak fairness of the client's handlers and timers, which the runtime
  calls, and of a reachable broker. The page and its user have none, and neither
  has the operating system, which may or may not give up on a dead connection.
- `SmartHome`: weak fairness of the sensor thread, of the worker taking the next
  request, of the reconnection and of the interval timer.

`CHECK_DEADLOCK FALSE` appears where the system may stop: a worker that waits
for its own pipe, an AT client with its bound of commands used up, an applet
that is closed.

### Assumptions about what is outside

- The WeChat runtime reports a closed socket before the reconnect timer of one
  second expires, a live link answers a ping within its period, and SUBACK grants
  what was asked.
- The "end" of a replay that was cut off by a "close" changes nothing the model
  keeps.
- Sessions are clean, so the broker keeps nothing for a device that is offline.
- In `SmartHome` a message for the page is delivered at once. The page's handler
  reads nothing but the message, so one on its way commutes with other steps.
  How far `rt_sprintf` has come is settled anew each time the worker looks.
- Truncation of a float to tenths is taken to be exact.

## What is proved

All constants are arbitrary, subject to the named assumptions in the modules
(`bufsz > 1`, `keepAliveInterval > 10`, frames are nine bytes, an `int` has 32 bits,
...). Every safety property that a run checks is proved. There is a `TypeCorrect`,
the type invariant for all constants, for each of the eight state machines
(`FifoCorrect` for `RxFifo` and `ClocksCorrect` for `KeepAlive`, which share their
modules of proofs with `Zph02` and `PahoMqtt`).

**`Zph02_proofs`** begins with the receive FIFO, `RxFifo`: `EmptyCorrect`,
`IndicateCorrect` and `Refinement`, for every buffer size. Types are not enough: the
reader's test uses `is_full`, so the inductive invariant adds `FullFlag` (a full
buffer has its read position just after its write position). The refinement rests on
three lemmas about the sequence between two positions: taking its head, appending to
it, and doing both when the write position catches up.

The path of the ZPH02 is built on the queue that the FIFO implements. All its safety
properties are proved, for every set of frames, FIFO size and number of faults.

- `ChecksumExact` says which frames `value_check` accepts.
- `NoLostWakeupCorrect`: `NoLostWakeup` is not inductive, as a byte may be queued
  between the empty read and `rt_sem_take`. `WakeInv` adds that in this state a
  queued byte has left a token, and that the parser runs only once the callback
  is installed.
- `RejectionIsFinalCorrect`; `HeaderNeverResyncsCorrect`, from the range of `ch`.
- `GenuineMeasurementCorrect`: `StreamInv` says that on a faultless line the bytes
  in the buffer, in `ch`, in the FIFO and on the wire are consecutive. `Tracks` is
  its core: every queued byte has a frame it belongs to, which changes only where
  a frame ends.
- `StallsOnlyOnZeroSumCorrect` needs a fact about the sensor: its frames carry
  their checksum (`Checksummed`, which `MC_Zph02` asserts of the frames of the run).
- `ReadBlendsAdjacentCorrect` follows what is in each of the two bytes of
  `zph02_data` between the two stores.

**`DevSensor_proofs`**: `CommandsAreKept`, `SnapshotIsCurrent`,
`AlarmIsJustified` and `FailuresAreFinal`, for any number of commands. The
invariant has a conjunct for each: `MainInv` (what initialization has done when
a thread starts), `SwitchInv` (status, pin and last command agree), `AlarmInv`
(what the sensor thread knows at each step of the alarm), and `RoundInv` with
`FormatInv` (which arguments and which fields are already as the switches are).

**`PahoMqtt_proofs`**: `FlagIsRight`, `AckedAfterExecution`, `SendsInOrder` and
`CommandsRunInOrder`, for every pipe size and number of faults. `SentInOrder`
needs `PipeInv`: the records in the pipe are in order too, and later than all that
were sent. `AckInv` counts the acknowledgements at each point of the loop.
`ExecutedInOrder` needs `OrderInv`: a connection begins with nothing in flight. It
is stated with the places of the forwarded commands in the stream of packets
(`CommandsOf`) rather than with a filter, and its proof has a lemma for what a step
may do to that stream: add a command, add another packet, or take one out. A
command that is run stays where it is in `executed \o rx`.

The timing of the loop, `KeepAlive`, is proved in the same module:
`DetectedInTimeCorrect` and `SendsInTimeCorrect`, for every interval and latency. For
the first, `Waits` says that the timeouts are no longer than the code asks for, and
the clock of a dead link is still 0 when the worker computes a timeout. For the
second, `OnTime` says that without a PINGREQ under way the time waited and the time to
wait make up the interval less ten seconds, so that the timeout is not negative.

**`AtClient_proofs`**: seven results for any number of callers, commands, glitches
and lines.

- `ResponseIsOwned`: `Excluded` says that only the holder of the lock is inside a
  command.
- `StaleNoticesAreBounded`: `NoticeInv` counts one release that is left over and one
  that is due to the caller that waits.
- `FullIsNeverReported`: `Punctual` says what holds until the first wait expires;
  the semaphore is released once for the caller that waits, and `client->resp` is
  cleared with it.
- `DeletedIsSafe`: `Numbered` relates the number of the last command to the answers
  in the semaphore, so that a probe's own answer is the one that cleared
  `client->resp`.
- `AnswerIsOwn`, `PromptComesFirst` and `ResultIsOwn`: `LockStep` describes the client,
  the line and the modem together at each point after a command that was written in
  silence: what the modem has still to say is what the caller has still to read.
  `Armed` gives its start: `client->resp` is still the command's own if the semaphore
  is at 0. `StaysSilent` says that until something goes wrong everything is empty
  between commands, the event set included.

**`Applet_proofs`** and **`AppletOrder_proofs`**: all safety properties of the
applet's client, for any number of identifiers, publishes and broken connections.
`KeptUntilReceived`, `InOrderOnce` and `SettledOnLast` hold until an identifier is
reused while its packet is stored.

- `NothingIsLost`: `PhaseInv` says what may be under way in each phase of a
  connection. `SafeInv` says that whatever is under way belongs to a packet in the
  store, that no packet has two, and that an acknowledgement stands for something
  the broker got; so a packet leaves the store only when it was received.
- `OrderIsKept` and `LastWordCounts`: `OrderInv` says that the store and what is left
  of the replay are in the order of the page, that during a replay the awaited
  packet is the first of the store and every other is newer than what was written
  (`Pending`), and that after it every packet of the store is under way. The last
  packet of the store is the last publish, and acknowledgements come back in order,
  so what the broker got last is what the page published last.

**`Snapshot_proofs`**: what the operators of `Sht3x` and `Snapshot` compute, for all
readings, concentrations and records. The state machine is not needed here.

- `Containment`: up to three wrong bits in one half of a reading are noticed, and the
  other half is read as it was sent. A turn of `crc8` is linear in `Xor`, so whether
  wrong bits are noticed does not depend on the reading: they go unnoticed only if
  the remainders of the 24 single bits cancel. The remainders are the first 24 powers
  of the polynomial's shift. They are pairwise different and all of odd weight, so
  that one, two or three of them never cancel.
- `DigitsEquation`, `DigitsFacts`, `ValueOfDigits`: the recursive functions are what
  their definitions say, a number is written in digits without needless zeros, and
  reading them gives the number back. The provers cannot instantiate an induction
  theorem with a predicate; `Inductive` states induction for a *set* of numbers, and
  each induction defines the set of the numbers for which its claim holds.
- `SplitFacts`: where `split` cuts a message, from the places of its separators.
  `LeadFields` and `RestFields` apply it to the texts of the two snapshots.
- `ExceedsFixed`, `SpelledRight`: when `%d.%d` prints a number right, and when the page
  finds it above 50.
- `TornDecoded`: two texts with concentrations of equal length have their separators in
  the same places, so the beginning of one before the rest of the other has the
  fields of one up to some place and of the other from there. `HeadedHarmless`: what
  is torn in another way still begins with its heading, so that the page shows the
  field on which it bases the warning.

**`SmartHome_proofs`**: all safety properties of device and page together, for any
number of requests, clicks and faults. The inductive invariant has four parts.
`Formats` says that a text that is complete or being written has the shape of its
record, and that `shows` has the records of the texts in the buffers. `Shown` has
`WarningMatchesDisplay`. `Queue` and `Counters` are about the requests and the poll
count. `WarningMatchesDisplay` alone is not inductive: that the page shows what it
bases its warning on follows from the heading of whatever is in the buffers, which
only `Formats` knows. `TypeCorrect` needs the lengths of the texts (`DigitsLength`) to
show that they fit the buffers. `SnapshotIsDecoded` follows from `Formats` and
`TornDecoded`; `DamageIsNoticed` and `TextIsFaithful` from the lemmas above.

Only model-checked: liveness, which is outside the prover's reach.

## What is not modelled, and why

The repository carries its whole platform: of about 1.3 million lines almost all
are the vendor's headers and HAL, the RT-Thread kernel and its components, and
bundled packages for other boards and modems. The modules cover what this
application runs of the code it is responsible for and of the libraries whose
concurrency it depends on, which is a small share of those lines.

- The concentration of gas: a power function in floating point. Its conversion
  to `int` can overflow for voltages near the ends of the range.
- `MQTT_CMD`, `paho_mqtt_stop`, `mqtt_stop`, `dev_sensor_ctl`: nothing calls them.
- QoS 2, unsubscribe, TLS: not configured.
- The packet identifier of messages the device publishes, which the code never
  assigns: the worker ignores the identifier of a PUBACK.
- `esp8266_domain_resolve`, which can return success without an address, and the
  network interface operations; how the AT client cuts lines and received data
  out of the byte stream.
- A second `onLoad` of the page: `onUnload` leaves its client running, and the
  two would share an identifier; what the broker then does is not in the
  repository.
- The packet encoders on both sides, the stream library bundled with the
  applet's client, the template pages, the kernel, board drivers and vendor
  libraries.
