------------------------------ MODULE SmartHome -----------------------------
(***************************************************************************)
(* The device and the page together: the sensor thread formats snapshots   *)
(* into buffers that the MQTT worker publishes from when the page asks,    *)
(* commands of the page and their echoes, and what the page shows.  The    *)
(* worker preempts the sensor thread in the middle of rt_sprintf.          *)
(*                                                                         *)
(* The MQTT clients and the broker are a queue of requests and, in the     *)
(* other direction, immediate delivery: the page handles a message without *)
(* reading anything but the message, so that one on its way commutes with  *)
(* every other step.  Messages may be lost in both directions.             *)
(***************************************************************************)
EXTENDS Snapshot

CONSTANTS
    Operated,     \* the switches that somebody clicks
    PollsPerAll,  \* every how many polls asks for all values (5)
    Size,         \* of the buffers, in symbols
    MaxRequests,  \* bound: requests on their way
    MaxChange,    \* bound: changes of what is measured, and clicks
    MaxFault      \* bound: messages lost and connections of the device lost

ASSUME OperatedAssumption == Operated \subseteq {"relay1", "relay2", "beep"}
\* The buffers have 100 characters.  A symbol is one character, but for the heading,
\* which has five.
ASSUME SizeAssumption == Size \in Nat /\ Size >= 81
ASSUME BoundAssumption ==
    /\ PollsPerAll \in Nat \ {0}
    /\ MaxRequests \in Nat \ {0} /\ MaxChange \in Nat /\ MaxFault \in Nat

VARIABLES
    pc,          \* the sensor thread: "read", "all" or "data"
    result,      \* dev_sensor_data_result
    args,        \* for each switch, the values that rt_sprintf may be given for it
    text,        \* what rt_sprintf is writing
    buffer,      \* dev_sensor_all and dev_sensor_data
    shows,       \* history: the record that the text in a buffer was made from, followed
                 \*   by the one of the text that is replacing it
    online,      \* is the device connected?
    requests,    \* on their way to the device
    page, timer_count,
    values, status, text_buffer,   \* what the page shows
    changes, faults

formatting == <<pc, text, buffer, shows>>
device == <<formatting, result, args, online>>
display == <<values, status, text_buffer>>
vars == <<device, requests, page, timer_count, display, changes, faults>>

Init ==
    /\ pc = "read" /\ text = <<>>
    /\ result = [temp |-> 0, humi |-> 0, mq2 |-> 0, zph02 |-> 0,
                 relay1 |-> CLOSE, relay2 |-> CLOSE, beep |-> CLOSE]
    /\ args = [x \in Switches |-> {}]
    /\ buffer = [n \in Names |-> <<>>]
    /\ shows = [n \in Names |-> <<>>]
    /\ online = TRUE /\ requests = <<>>
    /\ page = "hidden" /\ timer_count = 0
    /\ values = [i \in 1..4 |-> <<"---">>] /\ status = [x \in Switches |-> "---"] /\ text_buffer = Blank
    /\ changes = 0 /\ faults = 0

-----------------------------------------------------------------------------
(* The sensor thread.                                                      *)

\* The arguments of a conversion are evaluated one by one, in any order, and a command
\* may come before, between and after them: each switch is taken with a value that it
\* has had since.  (The measurements change only in this thread.)
Begin == args' = [x \in Switches |-> {result[x]}]
Done == args' = [x \in Switches |-> {}]

\* dev_sensor_data_read, as far as it measures: dev_sensor_data_upload takes the four
\* values over at once.  The first measurement does not count as a change.
dev_sensor_data_read ==
    /\ pc = "read" /\ pc' = "all" /\ Begin
    /\ \E m \in Reading :
          result' = [result EXCEPT !.temp = m.temp, !.humi = m.humi, !.mq2 = m.mq2,
                                   !.zph02 = m.zph02]
    /\ changes' = IF result' = result \/ buffer["all"] = <<>> THEN changes ELSE changes + 1
    /\ changes' <= MaxChange
    /\ UNCHANGED <<text, buffer, shows, online, requests, page, timer_count, display,
                   faults>>

\* rt_sprintf: the arguments are evaluated, ...
Evaluate ==
    /\ pc \in Names /\ text = <<>> /\ Done
    /\ \E relay1 \in args["relay1"], relay2 \in args["relay2"], beep \in args["beep"],
          junk \in Junk :
          LET r == [result EXCEPT !.relay1 = relay1, !.relay2 = relay2, !.beep = beep]
          IN  /\ text' = Append(TextOf(pc, r, junk), NUL)
              /\ shows' = [shows EXCEPT ![pc] = Append(@, r)]
    /\ UNCHANGED <<pc, result, buffer, online, requests, page, timer_count, display,
                   changes, faults>>

\* The record that the complete text in a buffer was made from, and that of the last one.
Old(n) == shows[n][1]
New(n) == shows[n][Len(shows[n])]

\* ... and the text is written from left to right, the NUL last.  Only the worker looks
\* at the buffer; how far rt_sprintf has come is settled when it does.  (That it has come
\* further when the worker looks again is not in the model.)
UpTo(k) == SubSeq(text, 1, k) \o SubSeq(buffer[pc], k + 1, Len(buffer[pc]))

Written ==
    /\ pc \in Names /\ text # <<>> /\ text' = <<>>
    /\ buffer' = [buffer EXCEPT ![pc] = UpTo(Len(text))]
    /\ IF pc = "all" THEN pc' = "data" /\ Begin ELSE pc' = "read" /\ Done
    /\ shows' = [shows EXCEPT ![pc] = <<New(pc)>>]
    /\ UNCHANGED <<result, online, requests, page, timer_count, display, changes, faults>>

-----------------------------------------------------------------------------
(* The page receives a message.                                            *)

\* The broker keeps nothing for a device that is not connected.
Request(m) ==
    /\ Len(requests) < MaxRequests
    /\ requests' = IF online THEN Append(requests, m) ELSE requests
Ask(n) == Request([kind |-> "poll", name |-> n])

\* Mutant: the values of the shorter snapshot are not shown.
onSnapshot_all(message) ==
    \E messageBuffer \in {split(message)} :
       /\ IF messageBuffer[0] = <<"D$S-A">>
          THEN /\ values' = ValuesIn(messageBuffer)
               /\ status' = [x \in Switches |-> StatusIn(messageBuffer, x)]
          ELSE UNCHANGED <<values, status>>
       /\ text_buffer' = Warning(messageBuffer)

\* The default branch of the switch over the message.  Field zero tells the two kinds
\* of snapshots; the warning follows from whatever was received.
onSnapshot(message) ==
    \E messageBuffer \in {split(message)} :
       /\ values' = IF messageBuffer[0] \in {<<"D$S-A">>, <<"D$S-D">>}
                    THEN ValuesIn(messageBuffer) ELSE values
       /\ status' = IF messageBuffer[0] = <<"D$S-A">>
                    THEN [x \in Switches |-> StatusIn(messageBuffer, x)] ELSE status
       /\ text_buffer' = Warning(messageBuffer)

onEcho(x, v) ==
    /\ status' = [status EXCEPT ![x] = IF v = OPEN THEN "ON" ELSE "OFF"]
    /\ UNCHANGED <<values, text_buffer>>

\* A message that is lost is not received.
Received(Handler) == Handler /\ UNCHANGED faults
Lost == faults < MaxFault /\ faults' = faults + 1 /\ UNCHANGED display
-----------------------------------------------------------------------------
(* The worker of the device.                                               *)

\* What the worker finds in a buffer: the text, or the beginning of a new text before
\* the rest of the old one.
Found(n) == IF pc = n /\ text # <<>>
            THEN {Visible(UpTo(k)) : k \in 0..Len(text)} ELSE {Visible(buffer[n])}

\* mqtt_publish(dev_sensor_all) and mqtt_publish(dev_sensor_data).
Answer(n) ==
    /\ \/ \E message \in Found(n) : Received(onSnapshot(message))
       \/ Lost
    /\ UNCHANGED <<result, args>>

\* A command is executed and echoed.
Execute(x, v) ==
    /\ result' = [result EXCEPT ![x] = v]
    /\ args' = IF pc \in Names /\ text = <<>> THEN [args EXCEPT ![x] = @ \cup {v}] ELSE args
    /\ Received(onEcho(x, v)) \/ Lost

mqtt_sub_callback ==
    /\ requests # <<>> /\ requests' = Tail(requests)
    /\ LET m == Head(requests)
       IN  IF m.kind = "poll" THEN Answer(m.name) ELSE Execute(m.switch, m.value)
    /\ UNCHANGED <<formatting, online, page, timer_count, changes>>

\* The connection of the device breaks: the broker publishes its will, for which the
\* page has no case.
Disconnect ==
    /\ online /\ online' = FALSE
    /\ faults < MaxFault /\ faults' = faults + 1
    /\ requests' = <<>>
    /\ onSnapshot(<<"DEVICE", Sep, "ONLINE!">>)
    /\ UNCHANGED <<formatting, result, args, page, timer_count, changes>>

\* Connected again, the device says so and the page asks for all values.
mqtt_online_callback ==
    /\ ~online /\ online' = TRUE
    /\ \/ requests' = <<[kind |-> "poll", name |-> "all"]>> /\ UNCHANGED <<display, faults>>
       \/ Lost /\ UNCHANGED requests
    /\ UNCHANGED <<formatting, result, args, page, timer_count, changes>>

LoseRequest ==
    /\ faults < MaxFault /\ faults' = faults + 1
    /\ requests # <<>> /\ requests' = Tail(requests)
    /\ UNCHANGED <<device, page, timer_count, display, changes>>

-----------------------------------------------------------------------------
(* The page on its own.                                                    *)

\* onShow asks for all values and sets the interval timer, onHide clears it.
onShow ==
    /\ page = "hidden" /\ page' = "shown" /\ Ask("all")
    /\ UNCHANGED <<device, timer_count, display, changes, faults>>

onHide ==
    /\ page = "shown" /\ page' = "hidden" /\ timer_count' = 0
    /\ UNCHANGED <<device, requests, display, changes, faults>>

\* Mutant: the count is not set back, so that it equals its limit only once.
Interval_once ==
    /\ page = "shown" /\ timer_count' = timer_count + 1 /\ timer_count <= PollsPerAll
    /\ IF timer_count' = PollsPerAll THEN Ask("all") ELSE Ask("data")
    /\ UNCHANGED <<device, page, display, changes, faults>>

\* Mutant: the polls ask for the measurements only.
Interval_data ==
    /\ page = "shown" /\ Ask("data")
    /\ UNCHANGED <<device, page, timer_count, display, changes, faults>>

\* Mutant: the polls stop with the fifth.
Interval_stops ==
    /\ page = "shown" /\ timer_count + 1 < PollsPerAll
    /\ timer_count' = timer_count + 1 /\ Ask("data")
    /\ UNCHANGED <<device, page, display, changes, faults>>

\* The callback of the interval timer.
Interval ==
    /\ page = "shown"
    /\ IF timer_count + 1 = PollsPerAll
       THEN timer_count' = 0 /\ Ask("all")
       ELSE timer_count' = timer_count + 1 /\ Ask("data")
    /\ UNCHANGED <<device, page, display, changes, faults>>

onClick(x, v) ==
    /\ page = "shown" /\ changes < MaxChange /\ changes' = changes + 1
    /\ Request([kind |-> "command", switch |-> x, value |-> v])
    /\ UNCHANGED <<device, page, timer_count, display, faults>>

-----------------------------------------------------------------------------
Sensor == dev_sensor_data_read \/ Evaluate \/ Written

Next ==
    \/ Sensor
    \/ mqtt_sub_callback \/ mqtt_online_callback
    \/ onShow \/ onHide \/ Interval
    \/ \E x \in Operated, v \in {OPEN, CLOSE} : onClick(x, v)
    \/ Disconnect \/ LoseRequest

\* The sensor thread goes on, from wherever it stands.
Read == pc = "read" /\ pc' = "all"
Evaluated == pc \in Names /\ text = <<>> /\ Done
Replaced == text # <<>> /\ text' = <<>>

\* The worker takes the next request.  (So do LoseRequest and Disconnect, which happen
\* at most MaxFault times.)
Taken == requests # <<>> /\ requests' = Tail(requests)

\* Threads are scheduled, the interval timer fires and the device connects again.
\* Nobody has to click, to look at the page or to lose a message.
Fairness ==
    /\ WF_pc(Read) /\ WF_args(Evaluated) /\ WF_text(Replaced)
    /\ WF_requests(Taken) /\ WF_vars(mqtt_online_callback)
    /\ WF_vars(Interval)

Spec == Init /\ [][Next]_vars /\ Fairness

-----------------------------------------------------------------------------
(* Properties.                                                             *)

\* Every variable holds values of its type; no text outgrows its buffer, and the count
\* of the polls never passes the limit it is compared with.
TypeOK ==
    /\ pc \in {"read"} \cup Names /\ page \in {"hidden", "shown"} /\ online \in BOOLEAN
    /\ \A i \in 1..4 : result[Measurand[i]] \in Integer
    /\ \A x \in Switches : result[x] \in {OPEN, CLOSE} /\ args[x] \subseteq {OPEN, CLOSE}
    /\ Len(text) <= Size /\ \A n \in Names : Len(buffer[n]) <= Size
    /\ Len(requests) <= MaxRequests /\ timer_count \in 0..(PollsPerAll - 1)
    /\ \A x \in Switches : status[x] \in {"---", "ON", "OFF"}
    /\ text_buffer \in {Blank, "leak"}

\* The worker answers a request for a snapshot and the page receives it.
Answered(n) ==
    /\ requests # <<>> /\ requests' = Tail(requests) /\ faults' = faults
    /\ Head(requests) = [kind |-> "poll", name |-> n]

\* The measurements of the two texts that may meet in a buffer are equally long.
Aligned(n) ==
    \A i \in 1..4 : Len(Fixed(Old(n)[Measurand[i]])) = Len(Fixed(New(n)[Measurand[i]]))

\* Once a first text is complete, a snapshot that the page takes apart is the new record up to
\* some field and the old one from there, even when the worker sends it while rt_sprintf is
\* replacing the text, as long as the measurements are equally long: the separators are
\* where the page looks for them, and the conversion without an argument keeps the newline
\* away from the last switch.  A measurement has several symbols, so that it may be torn
\* itself: then its beginning is new and its rest is old.
DecodesSnapshot ==
    [][ \A n \in Names : Answered(n) /\ buffer[n] # <<>> /\ Aligned(n) =>
          \E i \in 1..8 :
             /\ \A j \in 1..4 :
                   LET old == Fixed(Old(n)[Measurand[j]])
                       new == Fixed(New(n)[Measurand[j]])
                   IN  \E k \in Prefixes(i, j, Len(new)) : Trimmed(values'[j]) = Blend(old, new, k)
             /\ n = "all" =>
                   \A x \in Switches :
                      status'[x] = On((IF Index[x] < i THEN New(n) ELSE Old(n))[x]) ]_vars

\* The page warns of a leak only beside a concentration above the limit: no message,
\* complete or torn, leaves the warning with a value that denies it.
WarningMatchesDisplay == text_buffer = "leak" => Exceeds50(values[3])

\* If the page stays in view, it ends up showing the switches as they are, whatever was
\* lost or torn, and however late a snapshot was that undid an echo.
Converges ==
    <>[](page = "shown") => <>[](\A x \in Switches : status[x] = On(result[x]))

\* If gas leaks from some time on, a page that stays in view ends up warning of it, even
\* though the will of the device takes the warning away.
LeakIsReported ==
    <>[](page = "shown" /\ result.mq2 > 500) => <>[](text_buffer = "leak")

\* From the start on, up to three wrong bits in one half of an SHT3x reading are always
\* noticed, and spoil that half only.  (The caller, dev_sensor_data_read, ignores the
\* result and publishes the old and the new half together.)
DamageIsContained ==
    Init => \A before \in Measured, m \in Measured :
               \A i \in 0..23 : \A j \in i..23 : \A k \in j..23 :
                  Contained(sht3x_read_singleshot(NoReading, TRUE, Sent(before)), m, {i, j, k})

\* The text of a measurement stands for its number, whatever is measured after the start.
\* Every temperature that the sensor can deliver is printed right from zero upwards, and
\* below zero exactly when it has no tenths: otherwise the remainder brings a sign of its
\* own, and between zero and minus one it is the only one.  And the page, which takes the
\* text of a snapshot apart and compares a piece of it with 50, decides like the device,
\* which compares the number, as far as tenths tell concentrations apart.
TextStandsForNumber ==
    Init =>
        /\ \A t \in Temperature(0)..Temperature(65535) :
              Fixed(t) = Spelled(t) <=> t >= 0 \/ t % 10 = 0
        /\ \A t \in 0..2000, n \in Names, junk \in Junk :
              Warning(split(TextOf(n, [result EXCEPT !.mq2 = t], junk))) = "leak" <=> t > 500
=============================================================================
