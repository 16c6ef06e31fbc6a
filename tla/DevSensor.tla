------------------------------ MODULE DevSensor -----------------------------
(***************************************************************************)
(* dev_sensor.c around its shared record dev_sensor_data_result: the       *)
(* initialization by main, the sensor thread (measure, sound the alarm,    *)
(* format the snapshot) and the commands of mqtt_sub_callback, which run   *)
(* in the MQTT worker.  The worker has the higher priority: it preempts    *)
(* the sensor thread between any two steps and its own steps are atomic.   *)
(***************************************************************************)
EXTENDS Naturals, Sequences

CONSTANT MaxCommands   \* bound: commands received

ASSUME CommandsAssumption == MaxCommands \in Nat

VARIABLES
    main,           \* dev_sensor_init: the calls still to be made
    started,        \* the MQTT worker runs
    pc,             \* where the sensor thread stands
    switch_status,  \* relay1_status, relay2_status and beep_status
    relay_pin, beep_pin,
    sensor_status, inited,
    status,         \* the field "status"
    gas,            \* what the MQ2 would measure now: above 50 or not
    sample,         \* the last measurement: above 50 or not
    args,           \* arguments of rt_sprintf, Unset until evaluated
    written,        \* how many of the fields rt_sprintf has written
    dev_sensor_all, \* the switches as they stand in the buffer
    shifted,        \* what is written has other lengths than what it replaces: the
                    \* switches that follow are not where the page looks for them
    last,           \* history: the last value commanded for each switch
    clean,          \* history: has the buffer been formatted since then?
    armed,          \* history: was the beep switched on since gas was low?
    commands

Sensor == {"sht3x", "mq2", "zph02"}
Relay == {"relay1", "relay2"}

\* What the snapshot shows, in this order.
Fields == <<"temp", "humi", "mq2", "zph02", "relay1", "relay2", "beep">>
Switch == {"relay1", "relay2", "beep"}

DEV_SENSOR_DEINIT == 1
DEV_SENSOR_OPEN == 2
DEV_SENSOR_CLOSE == 3
DEV_SENSOR_BUSY == 4
DEV_SENSOR_IDLE == 5

\* No value yet.
Unset == 0
NoValues == [x \in Switch |-> Unset]

switches == <<switch_status, relay_pin, last, clean, armed, commands>>
sensors == <<sensor_status, inited>>
alarm == <<beep_pin, gas, sample>>
buffer == <<args, written, dev_sensor_all, shifted>>
vars == <<main, started, pc, switches, sensors, status, alarm, buffer>>

Init ==
    /\ main = <<"switches", "sht3x", "mq2", "zph02", "mqtt_start", "read_start">>
    /\ started = FALSE /\ pc = "off"
    /\ switch_status = [x \in Switch |-> DEV_SENSOR_DEINIT]
    /\ relay_pin = [r \in Relay |-> "LOW"] /\ beep_pin = "LOW"
    /\ sensor_status = [s \in Sensor |-> DEV_SENSOR_DEINIT]
    /\ inited = [s \in Sensor |-> FALSE]
    /\ status = 0
    /\ gas \in BOOLEAN /\ sample = FALSE
    /\ args = NoValues /\ written = 0 /\ dev_sensor_all = NoValues /\ shifted = FALSE
    /\ last = [x \in Switch |-> DEV_SENSOR_CLOSE]
    /\ clean = [x \in Switch |-> "no"] /\ armed = FALSE /\ commands = 0

-----------------------------------------------------------------------------
(* dev_sensor_init, in the main thread.                                    *)

\* The three _ctl(DEV_SENSOR_INIT) calls.
InitSwitches ==
    /\ main # <<>> /\ Head(main) = "switches" /\ main' = Tail(main)
    /\ switch_status' = [x \in Switch |-> DEV_SENSOR_CLOSE]
    /\ relay_pin' = [r \in Relay |-> "HIGH"] /\ beep_pin' = "LOW"
    /\ UNCHANGED <<started, pc, last, clean, armed, commands, sensors, status,
                   gas, sample, buffer>>

\* Mutant: a failure gives the status back.
dev_sensor_x_init_idle(s) ==
    /\ sensor_status' = [sensor_status EXCEPT ![s] = DEV_SENSOR_IDLE]
    /\ \/ inited' = [inited EXCEPT ![s] = TRUE]
       \/ s # "mq2" /\ UNCHANGED inited

\* dev_sensor_sht3x_init, _mq2_init and _zph02_init of a sensor that is not
\* initialized.  The first and the last can fail, and then leave BUSY behind.
dev_sensor_x_init(s) ==
    /\ \/ /\ sensor_status' = [sensor_status EXCEPT ![s] = DEV_SENSOR_IDLE]
          /\ inited' = [inited EXCEPT ![s] = TRUE]
       \/ /\ s # "mq2"
          /\ sensor_status' = [sensor_status EXCEPT ![s] = DEV_SENSOR_BUSY]
          /\ UNCHANGED inited

InitSensor ==
    /\ main # <<>> /\ Head(main) \in Sensor /\ main' = Tail(main)
    /\ dev_sensor_x_init(Head(main))
    /\ UNCHANGED <<started, pc, switches, status, alarm, buffer>>

StartThread ==
    /\ main # <<>> /\ Head(main) \in {"mqtt_start", "read_start"}
    /\ main' = Tail(main)
    /\ IF Head(main) = "mqtt_start" THEN started' = TRUE /\ UNCHANGED pc
                                    ELSE pc' = "begin" /\ UNCHANGED started
    /\ UNCHANGED <<switches, sensors, status, alarm, buffer>>

-----------------------------------------------------------------------------
(* The sensor thread: dev_sensor_data_read.                                *)

\* The measurements are copied out, measured and copied back by this thread
\* alone, so their values are left out; dev_sensor_data_upload does not touch
\* the switches.
ReadBegin ==
    /\ pc = "begin" /\ pc' = "sht3x" /\ status' = DEV_SENSOR_BUSY
    /\ UNCHANGED <<main, started, switches, sensors, alarm, buffer>>

\* A sensor that is not initialized is tried again, if its status is IDLE.
Retry(s) ==
    IF ~inited[s] /\ sensor_status[s] = DEV_SENSOR_IDLE
      THEN dev_sensor_x_init(s)
      ELSE UNCHANGED sensors

ReadSht3x ==
    /\ pc = "sht3x" /\ pc' = "mq2" /\ Retry("sht3x")
    /\ UNCHANGED <<main, started, switches, status, alarm, buffer>>

\* get_adc_value, and the comparison with 50.
SampleMq2 ==
    /\ pc = "mq2" /\ inited["mq2"] /\ pc' = "check" /\ sample' = gas
    /\ armed' = IF gas THEN armed ELSE switch_status["beep"] = DEV_SENSOR_OPEN
    /\ UNCHANGED <<main, started, switch_status, relay_pin, last, clean, commands,
                   sensors, status, beep_pin, gas, buffer>>

\* Mutant: the alarm sounds whether or not the beep is on.
CheckBeep_always ==
    /\ pc = "check"
    /\ pc' = IF sample THEN "sound" ELSE "quiet"
    /\ UNCHANGED <<main, started, switches, sensors, status, alarm, buffer>>

CheckBeep ==
    /\ pc = "check"
    /\ pc' = IF ~sample THEN "quiet"
             ELSE IF switch_status["beep"] = DEV_SENSOR_OPEN THEN "sound" ELSE "zph02"
    /\ UNCHANGED <<main, started, switches, sensors, status, alarm, buffer>>

\* Mutant: low gas leaves the pin alone.
dev_sensor_beep_ctl_stays ==
    /\ pc \in {"sound", "quiet"} /\ pc' = "zph02"
    /\ beep_pin' = IF pc = "sound" THEN "HIGH" ELSE beep_pin
    /\ UNCHANGED <<main, started, switches, sensors, status, gas, sample, buffer>>

\* DEV_SENSOR_OPEN and DEV_SENSOR_CLOSE: the pin only.
dev_sensor_beep_ctl ==
    /\ pc \in {"sound", "quiet"} /\ pc' = "zph02"
    /\ beep_pin' = IF pc = "sound" THEN "HIGH" ELSE "LOW"
    /\ UNCHANGED <<main, started, switches, sensors, status, gas, sample, buffer>>

\* Mutant: the copy back includes the switches, as they were a cycle ago.
ReadEnd_copies_all ==
    /\ pc = "zph02" /\ pc' = "format" /\ Retry("zph02")
    /\ status' = DEV_SENSOR_IDLE
    /\ switch_status' = [x \in Switch |-> IF dev_sensor_all[x] = Unset
                                          THEN switch_status[x] ELSE dev_sensor_all[x]]
    /\ UNCHANGED <<main, started, relay_pin, last, clean, armed, commands, alarm, buffer>>

ReadEnd ==
    /\ pc = "zph02" /\ pc' = "format" /\ Retry("zph02")
    /\ status' = DEV_SENSOR_IDLE
    /\ UNCHANGED <<main, started, switches, alarm, buffer>>

-----------------------------------------------------------------------------
(* The sensor thread: dev_sensor_mqtt_buffer.                              *)

\* rt_sprintf's arguments are evaluated one by one, in any order.
Argument ==
    /\ pc = "format" /\ status # 0
    /\ \E x \in Switch :
          args[x] = Unset /\ args' = [args EXCEPT ![x] = switch_status[x]]
    /\ clean' = IF args = NoValues
                THEN [x \in Switch |-> IF clean[x] = "no" THEN "begun" ELSE clean[x]]
                ELSE clean
    /\ UNCHANGED <<main, started, pc, switch_status, relay_pin, last, armed, commands,
                   sensors, status, alarm, written, dev_sensor_all, shifted>>

\* Mutant: a field keeps the first value that was written.
Write_once ==
    /\ pc = "format" /\ \A x \in Switch : args[x] # Unset
    /\ written < Len(Fields) /\ written' = written + 1
    /\ LET f == Fields[written + 1]
       IN  IF f \in Switch
             THEN /\ dev_sensor_all' = [dev_sensor_all EXCEPT ![f] =
                                           IF @ = Unset THEN args[f] ELSE @]
                  /\ shifted' = (shifted /\ written' < Len(Fields))
             ELSE shifted' \in BOOLEAN /\ UNCHANGED dev_sensor_all
    /\ UNCHANGED <<main, started, pc, switches, sensors, status, alarm, args>>

\* rt_sprintf writes the buffer from left to right, each field with the separator that
\* follows it.  A measurement may have another length than in the old text, which then
\* does not go on where a field begins; a switch has one digit.
Write ==
    /\ pc = "format" /\ \A x \in Switch : args[x] # Unset
    /\ written < Len(Fields) /\ written' = written + 1
    /\ LET f == Fields[written + 1]
       IN  IF f \in Switch
             THEN /\ dev_sensor_all' = [dev_sensor_all EXCEPT ![f] = args[f]]
                  /\ shifted' = (shifted /\ written' < Len(Fields))
             ELSE shifted' \in BOOLEAN /\ UNCHANGED dev_sensor_all
    /\ UNCHANGED <<main, started, pc, switches, sensors, status, alarm, args>>

\* rt_thread_mdelay(1000), then the next round.
Delay ==
    /\ pc = "format"
    /\ status # 0 => written = Len(Fields)
    /\ pc' = "begin" /\ args' = NoValues /\ written' = 0
    /\ clean' = [x \in Switch |-> IF clean[x] = "begun" THEN "done" ELSE clean[x]]
    /\ UNCHANGED <<main, started, switch_status, relay_pin, last, armed, commands,
                   sensors, status, alarm, dev_sensor_all, shifted>>

-----------------------------------------------------------------------------
(* The MQTT worker: mqtt_sub_callback on the six switch commands.          *)

\* dev_sensor_relay1_ctl and dev_sensor_relay2_ctl drive an active-low pin.
RelayLevel(v) == IF v = DEV_SENSOR_OPEN THEN "LOW" ELSE "HIGH"

\* For the beep only the status is set.
Command ==
    /\ started /\ commands < MaxCommands /\ commands' = commands + 1
    /\ \E x \in Switch, v \in {DEV_SENSOR_OPEN, DEV_SENSOR_CLOSE} :
          /\ switch_status' = [switch_status EXCEPT ![x] = v]
          /\ relay_pin' = IF x = "beep" THEN relay_pin
                          ELSE [relay_pin EXCEPT ![x] = RelayLevel(v)]
          /\ last' = [last EXCEPT ![x] = v] /\ clean' = [clean EXCEPT ![x] = "no"]
          /\ armed' = (armed \/ (x = "beep" /\ v = DEV_SENSOR_OPEN))
    /\ UNCHANGED <<main, started, pc, sensors, status, alarm, buffer>>

\* The gas concentration crosses 50 (external).
GasChanges ==
    /\ gas' = ~gas
    /\ UNCHANGED <<main, started, pc, switches, sensors, status, beep_pin, sample, buffer>>

-----------------------------------------------------------------------------
Main == InitSwitches \/ InitSensor \/ StartThread
SensorThread == \/ ReadBegin \/ ReadSht3x \/ SampleMq2 \/ CheckBeep
                \/ dev_sensor_beep_ctl \/ ReadEnd \/ Argument \/ Write \/ Delay
Next == Main \/ SensorThread \/ Command \/ GasChanges

Spec == Init /\ [][Next]_vars

\* The threads above the sensor thread sleep most of the time.
FairSpec == Spec /\ WF_vars(Main) /\ WF_vars(SensorThread)

-----------------------------------------------------------------------------
(* Properties.                                                             *)

TypeOK ==
    /\ main \in Seq({"switches", "mqtt_start", "read_start"} \cup Sensor)
    /\ started \in BOOLEAN
    /\ pc \in {"off", "begin", "sht3x", "mq2", "check", "sound", "quiet", "zph02", "format"}
    /\ switch_status \in [Switch -> DEV_SENSOR_DEINIT..DEV_SENSOR_CLOSE]
    /\ relay_pin \in [Relay -> {"LOW", "HIGH"}] /\ beep_pin \in {"LOW", "HIGH"}
    /\ sensor_status \in [Sensor -> {DEV_SENSOR_DEINIT, DEV_SENSOR_BUSY, DEV_SENSOR_IDLE}]
    /\ inited \in [Sensor -> BOOLEAN]
    /\ status \in {0, DEV_SENSOR_BUSY, DEV_SENSOR_IDLE}
    /\ gas \in BOOLEAN /\ sample \in BOOLEAN /\ armed \in BOOLEAN
    /\ args \in [Switch -> 0..DEV_SENSOR_CLOSE] /\ written \in 0..Len(Fields)
    /\ dev_sensor_all \in [Switch -> 0..DEV_SENSOR_CLOSE] /\ shifted \in BOOLEAN
    /\ last \in [Switch -> {DEV_SENSOR_OPEN, DEV_SENSOR_CLOSE}]
    /\ clean \in [Switch -> {"no", "begun", "done"}]
    /\ commands \in 0..MaxCommands

\* Once the worker runs, a switch is as the last command left it, and the pin
\* of a relay agrees: the sensor thread's read-modify-write of the shared
\* record never undoes a command that preempted it.
CommandsKept ==
    started => /\ switch_status = last
               /\ \A r \in Relay :
                     relay_pin[r] = IF last[r] = DEV_SENSOR_OPEN THEN "LOW" ELSE "HIGH"

\* The page finds switch x in the buffer as it is now: the text is of one piece, or
\* it has been written as far as x.
Legible(x) == shifted => \E i \in 1..written : Fields[i] = x

\* A snapshot is out of date for at most one round: after a complete round of
\* formatting that began after the last command for a switch, the buffer shows
\* that switch as it is, while the next text is being written too, except where
\* the half-written text hides it; and a text that is not being written hides none.
SnapshotCurrent ==
    /\ \A x \in Switch : clean[x] = "done" /\ Legible(x)
                             => dev_sensor_all[x] = switch_status[x]
    /\ shifted => written \in 1..(Len(Fields) - 1)

\* The beep sounds only if gas was high when last measured and the beep was
\* switched on at some time since gas was last measured low, except while the
\* measurement that will end it is being evaluated.
AlarmJustified ==
    beep_pin = "HIGH" /\ pc \notin {"check", "quiet"} => sample /\ armed

\* If gas stays high and the beep stays on, it sounds in the end and goes on; if
\* gas stays low, it falls silent, whatever commands come.
AlarmFollowsGas ==
    /\ <>[](gas /\ switch_status["beep"] = DEV_SENSOR_OPEN) => <>[](beep_pin = "HIGH")
    /\ <>[]~gas => <>[](beep_pin = "LOW")

\* A sensor that could not be initialized stays so: the failure leaves BUSY
\* behind, and "Retry..." goes on only if it finds IDLE.
FailedInitIsFinal ==
    [][\A s \in Sensor : pc # "off" /\ ~inited[s] => ~inited'[s]]_vars

-----------------------------------------------------------------------------
(* What a comment of the repository says, and the code does not do.        *)

\* "switch3 off": with the beep off and no more commands, it falls silent.
OffSilences ==
    <>[](started /\ switch_status["beep"] = DEV_SENSOR_CLOSE) => <>[](beep_pin = "LOW")
=============================================================================
