-------------------------- MODULE DevSensor_proofs --------------------------
(***************************************************************************)
(* The safety properties of DevSensor, for any number of commands.         *)
(***************************************************************************)
EXTENDS DevSensor, TLAPS

-----------------------------------------------------------------------------
(* The inductive invariant, one conjunct per concern.                      *)

\* Where main stands in dev_sensor_init, and which threads it has started.
MainInv ==
    /\ main \in { <<"switches", "sht3x", "mq2", "zph02", "mqtt_start", "read_start">>,
                  <<"sht3x", "mq2", "zph02", "mqtt_start", "read_start">>,
                  <<"mq2", "zph02", "mqtt_start", "read_start">>,
                  <<"zph02", "mqtt_start", "read_start">>,
                  <<"mqtt_start", "read_start">>, <<"read_start">>, <<>> }
    /\ started <=> main \in {<<"read_start">>, <<>>}
    /\ pc # "off" <=> main = <<>>

\* Before the worker starts the switches are closed, and nothing was commanded.
SwitchInv ==
    /\ ~started => last = [x \in Switch |-> DEV_SENSOR_CLOSE]
    /\ ~started /\ main # <<"switches", "sht3x", "mq2", "zph02", "mqtt_start", "read_start">>
       => /\ switch_status = [x \in Switch |-> DEV_SENSOR_CLOSE]
          /\ relay_pin = [r \in Relay |-> "HIGH"]
    /\ CommandsKept

\* The history of the beep at every place of the sensor thread where it matters.
AlarmInv ==
    /\ switch_status["beep"] = DEV_SENSOR_OPEN => armed
    /\ pc = "check" /\ sample /\ beep_pin = "HIGH" => armed
    /\ pc = "sound" => sample /\ armed
    /\ AlarmJustified

\* How far a round of formatting has come.
RoundInv ==
    /\ pc = "off" => \A x \in Switch : clean[x] = "no"
    /\ pc \notin {"off", "begin"} => status # 0
    /\ pc # "format" => args = NoValues
    /\ written > 0 => pc = "format" /\ \A x \in Switch : args[x] # Unset
    /\ \A x \in Switch : clean[x] = "begun" => args # NoValues
    /\ shifted => 0 < written /\ written < Len(Fields)

\* What a round that began after the last command for a switch has to do with it.
FormatInv ==
    \A x \in Switch : clean[x] # "no" =>
        /\ args[x] # Unset => args[x] = switch_status[x]
        /\ clean[x] = "done" => dev_sensor_all[x] = switch_status[x]
        /\ \A i \in 1..written : Fields[i] = x => dev_sensor_all[x] = switch_status[x]

IInv == TypeOK /\ MainInv /\ SwitchInv /\ AlarmInv /\ RoundInv /\ FormatInv
-----------------------------------------------------------------------------
(* Lemmas.                                                                 *)

\* There are three switches, the last three of the seven fields.
LEMMA Switches ==
    /\ Switch = {"relay1", "relay2", "beep"}
    /\ Len(Fields) = 7
    /\ \A i \in 1..4 : Fields[i] \notin Switch
    /\ Fields[5] = "relay1" /\ Fields[6] = "relay2" /\ Fields[7] = "beep"
<1>1. /\ Len(Fields) = 7
      /\ Fields[1] = "temp" /\ Fields[2] = "humi" /\ Fields[3] = "mq2" /\ Fields[4] = "zph02"
      /\ Fields[5] = "relay1" /\ Fields[6] = "relay2" /\ Fields[7] = "beep"
  BY DEF Fields
<1>2. 1..4 = {1, 2, 3, 4}
  OBVIOUS
<1>3. QED
  BY <1>1, <1>2 DEF Switch

\* A step of main takes the first call off the list, and the list says which.
LEMMA MainStep ==
    ASSUME MainInv, main # <<>>, main' = Tail(main)
    PROVE  \/ /\ main = <<"switches", "sht3x", "mq2", "zph02", "mqtt_start", "read_start">>
              /\ Head(main) = "switches"
              /\ main' = <<"sht3x", "mq2", "zph02", "mqtt_start", "read_start">>
           \/ /\ main = <<"sht3x", "mq2", "zph02", "mqtt_start", "read_start">>
              /\ Head(main) = "sht3x"
              /\ main' = <<"mq2", "zph02", "mqtt_start", "read_start">>
           \/ /\ main = <<"mq2", "zph02", "mqtt_start", "read_start">>
              /\ Head(main) = "mq2" /\ main' = <<"zph02", "mqtt_start", "read_start">>
           \/ /\ main = <<"zph02", "mqtt_start", "read_start">>
              /\ Head(main) = "zph02" /\ main' = <<"mqtt_start", "read_start">>
           \/ /\ main = <<"mqtt_start", "read_start">>
              /\ Head(main) = "mqtt_start" /\ main' = <<"read_start">>
           \/ main = <<"read_start">> /\ Head(main) = "read_start" /\ main' = <<>>
<1>1. CASE main = <<"switches", "sht3x", "mq2", "zph02", "mqtt_start", "read_start">>
  BY <1>1
<1>2. CASE main = <<"sht3x", "mq2", "zph02", "mqtt_start", "read_start">>
  BY <1>2
<1>3. CASE main = <<"mq2", "zph02", "mqtt_start", "read_start">>
  BY <1>3
<1>4. CASE main = <<"zph02", "mqtt_start", "read_start">>
  BY <1>4
<1>5. CASE main = <<"mqtt_start", "read_start">>
  BY <1>5
<1>6. CASE main = <<"read_start">>
  BY <1>6
<1>7. QED
  BY <1>1, <1>2, <1>3, <1>4, <1>5, <1>6 DEF MainInv

\* What is left of the list is a list.
LEMMA TailType ==
    ASSUME TypeOK, main # <<>>
    PROVE  Tail(main) \in Seq({"switches", "mqtt_start", "read_start"} \cup Sensor)
  BY DEF TypeOK

\* An attempt to initialize a sensor keeps the types of what it assigns.
LEMMA InitTypes ==
    ASSUME TypeOK, NEW s \in Sensor, dev_sensor_x_init(s)
    PROVE  /\ sensor_status' \in [Sensor -> {DEV_SENSOR_DEINIT, DEV_SENSOR_BUSY,
                                             DEV_SENSOR_IDLE}]
           /\ inited' \in [Sensor -> BOOLEAN]
<1>1. CASE /\ sensor_status' = [sensor_status EXCEPT ![s] = DEV_SENSOR_IDLE]
           /\ inited' = [inited EXCEPT ![s] = TRUE]
  BY <1>1 DEF TypeOK
<1>2. CASE /\ sensor_status' = [sensor_status EXCEPT ![s] = DEV_SENSOR_BUSY]
           /\ UNCHANGED inited
  BY <1>2 DEF TypeOK
<1>3. QED
  BY <1>1, <1>2 DEF dev_sensor_x_init

\* So does a further attempt, made or not.
LEMMA RetryTypes ==
    ASSUME TypeOK, NEW s \in Sensor, Retry(s)
    PROVE  /\ sensor_status' \in [Sensor -> {DEV_SENSOR_DEINIT, DEV_SENSOR_BUSY,
                                             DEV_SENSOR_IDLE}]
           /\ inited' \in [Sensor -> BOOLEAN]
<1>1. CASE dev_sensor_x_init(s)
  BY <1>1, InitTypes
<1>2. CASE UNCHANGED sensors
  BY <1>2 DEF TypeOK, sensors
<1>3. QED
  BY <1>1, <1>2 DEF Retry

-----------------------------------------------------------------------------
(* Every step keeps every part of the invariant.                           *)

\* The types.
LEMMA TypeStep ==
    ASSUME IInv, [Next]_vars
    PROVE  TypeOK'
<1> USE Switches DEF IInv, TypeOK, DEV_SENSOR_DEINIT, DEV_SENSOR_OPEN, DEV_SENSOR_CLOSE,
        DEV_SENSOR_BUSY, DEV_SENSOR_IDLE, Unset, NoValues, switches, sensors, alarm, buffer
<1>1. CASE InitSwitches
  BY <1>1 DEF InitSwitches
<1>2. CASE InitSensor
  <2>1. /\ sensor_status' \in [Sensor -> {DEV_SENSOR_DEINIT, DEV_SENSOR_BUSY,
                                          DEV_SENSOR_IDLE}]
        /\ inited' \in [Sensor -> BOOLEAN]
    BY <1>2, InitTypes DEF InitSensor
  <2>2. QED
    BY <1>2, <2>1, TailType DEF InitSensor
<1>3. CASE StartThread
  <2>1. main' \in Seq({"switches", "mqtt_start", "read_start"} \cup Sensor)
    BY <1>3, TailType DEF StartThread
  <2>2. started' \in BOOLEAN
    BY ZenonT(30), <1>3 DEF StartThread
  <2>3. pc' \in {"off", "begin", "sht3x", "mq2", "check", "sound", "quiet", "zph02", "format"}
    BY <1>3 DEF StartThread
  <2>4. UNCHANGED <<switches, sensors, status, alarm, buffer>>
    BY <1>3 DEF StartThread
  <2>5. QED
    BY <2>1, <2>2, <2>3, <2>4
<1>4. CASE ReadBegin
  BY <1>4 DEF ReadBegin
<1>5. CASE ReadSht3x
  <2>1. /\ sensor_status' \in [Sensor -> {DEV_SENSOR_DEINIT, DEV_SENSOR_BUSY,
                                          DEV_SENSOR_IDLE}]
        /\ inited' \in [Sensor -> BOOLEAN]
    <3>1. "sht3x" \in Sensor
      BY DEF Sensor
    <3>2. QED
      BY <1>5, <3>1, RetryTypes DEF ReadSht3x
  <2>2. QED
    BY <1>5, <2>1 DEF ReadSht3x
<1>6. CASE SampleMq2
  BY <1>6 DEF SampleMq2
<1>7. CASE CheckBeep
  BY <1>7 DEF CheckBeep
<1>8. CASE dev_sensor_beep_ctl
  BY <1>8 DEF dev_sensor_beep_ctl
<1>9. CASE ReadEnd
  <2>1. /\ sensor_status' \in [Sensor -> {DEV_SENSOR_DEINIT, DEV_SENSOR_BUSY,
                                          DEV_SENSOR_IDLE}]
        /\ inited' \in [Sensor -> BOOLEAN]
    <3>1. "zph02" \in Sensor
      BY DEF Sensor
    <3>2. QED
      BY <1>9, <3>1, RetryTypes DEF ReadEnd
  <2>2. QED
    BY <1>9, <2>1 DEF ReadEnd
<1>10. CASE Argument
  BY <1>10 DEF Argument
<1>11. CASE Write
  <2>1. shifted' \in BOOLEAN
    BY ZenonT(20), <1>11 DEF Write
  <2>2. written' \in 0..Len(Fields)
    BY <1>11 DEF Write
  <2>3. dev_sensor_all' \in [Switch -> 0..DEV_SENSOR_CLOSE]
    BY <1>11 DEF Write
  <2>4. UNCHANGED <<main, started, pc, switches, sensors, status, alarm, args>>
    BY <1>11 DEF Write
  <2>5. QED
    BY <2>1, <2>2, <2>3, <2>4
<1>12. CASE Delay
  BY <1>12 DEF Delay
<1>13. CASE Command
  BY <1>13, CommandsAssumption DEF Command, RelayLevel, Relay
<1>14. CASE GasChanges
  BY <1>14 DEF GasChanges
<1>15. CASE UNCHANGED vars
  BY <1>15 DEF vars
<1>16. QED
  BY <1>1, <1>2, <1>3, <1>4, <1>5, <1>6, <1>7, <1>8, <1>9, <1>10, <1>11, <1>12, <1>13,
     <1>14, <1>15 DEF Next, Main, SensorThread
\* Main goes through its list, and the sensor thread never ends.
LEMMA MainKept ==
    ASSUME IInv, [Next]_vars
    PROVE  MainInv'
<1> USE DEF IInv, MainInv, switches, sensors, alarm, buffer
<1>1. CASE InitSwitches
  <2>1. main' = <<"sht3x", "mq2", "zph02", "mqtt_start", "read_start">>
    BY <1>1, MainStep DEF InitSwitches
  <2>2. ~started /\ pc = "off"
    BY <1>1, MainStep DEF InitSwitches
  <2>3. main' # <<"read_start">> /\ main' # <<>>
    BY <2>1
  <2>4. started' = started /\ pc' = pc
    BY <1>1 DEF InitSwitches
  <2>5. QED
    BY <2>1, <2>2, <2>3, <2>4
<1>2. CASE InitSensor
  <2>1. \/ main' = <<"mq2", "zph02", "mqtt_start", "read_start">>
        \/ main' = <<"zph02", "mqtt_start", "read_start">>
        \/ main' = <<"mqtt_start", "read_start">>
    BY <1>2, MainStep DEF InitSensor, Sensor
  <2>2. ~started /\ pc = "off"
    BY <1>2, MainStep DEF InitSensor, Sensor
  <2>3. main' # <<"read_start">> /\ main' # <<>>
    BY <2>1
  <2>4. started' = started /\ pc' = pc
    BY <1>2 DEF InitSensor
  <2>5. QED
    BY <2>1, <2>2, <2>3, <2>4
<1>3. CASE StartThread
  BY <1>3, MainStep DEF StartThread
<1>4. CASE ReadBegin
  BY <1>4 DEF ReadBegin
<1>5. CASE ReadSht3x
  BY <1>5 DEF ReadSht3x
<1>6. CASE SampleMq2
  BY <1>6 DEF SampleMq2
<1>7. CASE CheckBeep
  BY <1>7 DEF CheckBeep
<1>8. CASE dev_sensor_beep_ctl
  BY <1>8 DEF dev_sensor_beep_ctl
<1>9. CASE ReadEnd
  BY <1>9 DEF ReadEnd
<1>10. CASE Argument
  BY <1>10 DEF Argument
<1>11. CASE Write
  BY <1>11 DEF Write
<1>12. CASE Delay
  BY <1>12 DEF Delay
<1>13. CASE Command
  BY <1>13 DEF Command
<1>14. CASE GasChanges
  BY <1>14 DEF GasChanges
<1>15. CASE UNCHANGED vars
  BY <1>15 DEF vars
<1>16. QED
  BY <1>1, <1>2, <1>3, <1>4, <1>5, <1>6, <1>7, <1>8, <1>9,
     <1>10, <1>11, <1>12, <1>13, <1>14, <1>15 DEF Next, Main, SensorThread

\* No step but a command changes a switch once the worker runs.
LEMMA SwitchKept ==
    ASSUME IInv, [Next]_vars
    PROVE  SwitchInv'
<1> USE Switches DEF IInv, SwitchInv, CommandsKept, MainInv, switches, sensors, alarm, buffer
<1>1. CASE InitSwitches
  BY <1>1, MainStep DEF InitSwitches
<1>2. CASE InitSensor
  BY <1>2, MainStep DEF InitSensor, Sensor
<1>3. CASE StartThread
  <2>1. UNCHANGED <<switch_status, relay_pin, last>>
    BY <1>3 DEF StartThread
  <2>2. CASE Head(main) = "mqtt_start"
    <3>1. ~started /\ main = <<"mqtt_start", "read_start">> /\ started'
      BY <1>3, <2>2, MainStep DEF StartThread
    <3>2. /\ switch_status = [x \in Switch |-> DEV_SENSOR_CLOSE]
          /\ relay_pin = [r \in Relay |-> "HIGH"]
          /\ last = [x \in Switch |-> DEV_SENSOR_CLOSE]
      BY <3>1
    <3>3. \A r \in Relay : last[r] = DEV_SENSOR_CLOSE /\ relay_pin[r] = "HIGH"
      BY <3>2 DEF Relay
    <3>4. QED
      BY <2>1, <3>1, <3>2, <3>3 DEF DEV_SENSOR_OPEN, DEV_SENSOR_CLOSE
  <2>3. CASE Head(main) = "read_start"
    <3>1. started /\ UNCHANGED started
      BY <1>3, <2>3, MainStep DEF StartThread
    <3>2. QED
      BY <2>1, <3>1
  <2>4. QED
    BY <1>3, <2>2, <2>3 DEF StartThread
<1>4. CASE ReadBegin
  BY <1>4 DEF ReadBegin
<1>5. CASE ReadSht3x
  BY <1>5 DEF ReadSht3x
<1>6. CASE SampleMq2
  BY <1>6 DEF SampleMq2
<1>7. CASE CheckBeep
  BY <1>7 DEF CheckBeep
<1>8. CASE dev_sensor_beep_ctl
  BY <1>8 DEF dev_sensor_beep_ctl
<1>9. CASE ReadEnd
  BY <1>9 DEF ReadEnd
<1>10. CASE Argument
  BY <1>10 DEF Argument
<1>11. CASE Write
  BY <1>11 DEF Write
<1>12. CASE Delay
  BY <1>12 DEF Delay
<1>13. CASE Command
  BY <1>13 DEF Command, RelayLevel, Relay, TypeOK
<1>14. CASE GasChanges
  BY <1>14 DEF GasChanges
<1>15. CASE UNCHANGED vars
  BY <1>15 DEF vars
<1>16. QED
  BY <1>1, <1>2, <1>3, <1>4, <1>5, <1>6, <1>7, <1>8, <1>9,
     <1>10, <1>11, <1>12, <1>13, <1>14, <1>15 DEF Next, Main, SensorThread

\* The beep sounds for a reason.
LEMMA AlarmKept ==
    ASSUME IInv, [Next]_vars
    PROVE  AlarmInv'
<1> USE Switches DEF IInv, AlarmInv, AlarmJustified, switches, sensors, alarm, buffer
<1>1. CASE InitSwitches
  BY <1>1 DEF InitSwitches, DEV_SENSOR_OPEN, DEV_SENSOR_CLOSE
<1>2. CASE InitSensor
  BY <1>2 DEF InitSensor
<1>3. CASE StartThread
  BY <1>3 DEF StartThread, MainInv
<1>4. CASE ReadBegin
  BY <1>4 DEF ReadBegin
<1>5. CASE ReadSht3x
  BY <1>5 DEF ReadSht3x
<1>6. CASE SampleMq2
  BY <1>6 DEF SampleMq2
<1>7. CASE CheckBeep
  BY <1>7 DEF CheckBeep
<1>8. CASE dev_sensor_beep_ctl
  BY <1>8 DEF dev_sensor_beep_ctl
<1>9. CASE ReadEnd
  BY <1>9 DEF ReadEnd
<1>10. CASE Argument
  BY <1>10 DEF Argument
<1>11. CASE Write
  BY <1>11 DEF Write
<1>12. CASE Delay
  BY <1>12 DEF Delay
<1>13. CASE Command
  BY <1>13 DEF Command, TypeOK, DEV_SENSOR_OPEN, DEV_SENSOR_CLOSE
<1>14. CASE GasChanges
  BY <1>14 DEF GasChanges
<1>15. CASE UNCHANGED vars
  BY <1>15 DEF vars
<1>16. QED
  BY <1>1, <1>2, <1>3, <1>4, <1>5, <1>6, <1>7, <1>8, <1>9,
     <1>10, <1>11, <1>12, <1>13, <1>14, <1>15 DEF Next, Main, SensorThread

\* A round evaluates the arguments, writes the fields, and begins again.
LEMMA RoundKept ==
    ASSUME IInv, [Next]_vars
    PROVE  RoundInv'
<1> USE Switches DEF IInv, RoundInv, switches, sensors, alarm, buffer
<1>1. CASE InitSwitches
  BY <1>1 DEF InitSwitches
<1>2. CASE InitSensor
  BY <1>2 DEF InitSensor
<1>3. CASE StartThread
  BY <1>3 DEF StartThread, MainInv
<1>4. CASE ReadBegin
  BY <1>4 DEF ReadBegin, DEV_SENSOR_BUSY
<1>5. CASE ReadSht3x
  BY <1>5 DEF ReadSht3x
<1>6. CASE SampleMq2
  BY <1>6 DEF SampleMq2
<1>7. CASE CheckBeep
  BY <1>7 DEF CheckBeep
<1>8. CASE dev_sensor_beep_ctl
  BY <1>8 DEF dev_sensor_beep_ctl
<1>9. CASE ReadEnd
  BY <1>9 DEF ReadEnd, DEV_SENSOR_IDLE
<1>10. CASE Argument
  <2>1. PICK x \in Switch : args[x] = Unset /\ args' = [args EXCEPT ![x] = switch_status[x]]
    BY <1>10 DEF Argument
  <2>2. args'[x] # Unset
    BY <2>1 DEF TypeOK, Unset, DEV_SENSOR_DEINIT, DEV_SENSOR_CLOSE
  <2>3. args' # NoValues
    BY <2>2 DEF NoValues
  <2>4. ~(written > 0)
    BY <2>1
  <2>5. QED
    BY <1>10, <2>3, <2>4 DEF Argument
<1>11. CASE Write
  <2>1. written \in Nat /\ written < 7 /\ written' = written + 1
    BY <1>11 DEF Write, TypeOK
  <2>2. shifted' => 0 < written' /\ written' < Len(Fields)
    <3>1. CASE Fields[written + 1] \in Switch
      <4>1. shifted' => written' < Len(Fields)
        BY ZenonT(20), <1>11, <3>1 DEF Write
      <4>2. 0 < written'
        BY ONLY <2>1
      <4>3. QED
        BY ONLY <4>1, <4>2
    <3>2. CASE Fields[written + 1] \notin Switch
      <4>1. written + 1 \notin {5, 6, 7}
        BY <3>2
      <4>2. 0 < written' /\ written' < 7
        BY ONLY <2>1, <4>1
      <4>3. QED
        BY ONLY <4>2, Switches
    <3>3. QED
      BY ONLY <3>1, <3>2
  <2>3. UNCHANGED <<pc, clean, status, args>> /\ pc = "format" /\ \A x \in Switch : args[x] # Unset
    BY <1>11 DEF Write
  <2>4. QED
    BY <2>2, <2>3
<1>12. CASE Delay
  <2>1. \A x \in Switch : clean'[x] # "begun"
    BY <1>12 DEF Delay, TypeOK
  <2>2. QED
    BY <1>12, <2>1 DEF Delay
<1>13. CASE Command
  <2>1. \A x \in Switch : /\ clean'[x] = "begun" => clean[x] = "begun"
                          /\ clean[x] = "no" => clean'[x] = "no"
    BY <1>13 DEF Command, TypeOK
  <2>2. QED
    BY <1>13, <2>1 DEF Command
<1>14. CASE GasChanges
  BY <1>14 DEF GasChanges
<1>15. CASE UNCHANGED vars
  BY <1>15 DEF vars
<1>16. QED
  BY <1>1, <1>2, <1>3, <1>4, <1>5, <1>6, <1>7, <1>8, <1>9,
     <1>10, <1>11, <1>12, <1>13, <1>14, <1>15 DEF Next, Main, SensorThread

\* The arguments, and then the buffer, are as the switches are, or a command has come.
LEMMA FormatKept ==
    ASSUME IInv, [Next]_vars
    PROVE  FormatInv'
<1> USE Switches DEF IInv, FormatInv, switches, sensors, alarm, buffer
<1>1. CASE InitSwitches
  <2>1. \A x \in Switch : clean[x] = "no"
    BY <1>1 DEF InitSwitches, MainInv, RoundInv
  <2>2. QED
    BY <1>1, <2>1 DEF InitSwitches
<1>2. CASE InitSensor
  BY <1>2 DEF InitSensor
<1>3. CASE StartThread
  BY <1>3 DEF StartThread
<1>4. CASE ReadBegin
  BY <1>4 DEF ReadBegin
<1>5. CASE ReadSht3x
  BY <1>5 DEF ReadSht3x
<1>6. CASE SampleMq2
  BY <1>6 DEF SampleMq2
<1>7. CASE CheckBeep
  BY <1>7 DEF CheckBeep
<1>8. CASE dev_sensor_beep_ctl
  BY <1>8 DEF dev_sensor_beep_ctl
<1>9. CASE ReadEnd
  BY <1>9 DEF ReadEnd
<1>10. CASE Argument
  <2>1. PICK y \in Switch : args[y] = Unset /\ args' = [args EXCEPT ![y] = switch_status[y]]
    BY <1>10 DEF Argument
  <2>2. UNCHANGED <<switch_status, written, dev_sensor_all>> /\ 1..written = {}
    <3>1. UNCHANGED <<switch_status, written, dev_sensor_all>>
      BY <1>10 DEF Argument, switches
    <3>2. ~(written > 0) /\ written \in Nat
      BY <1>10, <2>1 DEF Argument, RoundInv, TypeOK
    <3>3. QED
      BY <3>1, <3>2
  <2>3. SUFFICES ASSUME NEW x \in Switch, clean'[x] # "no"
                 PROVE  /\ args'[x] # Unset => args'[x] = switch_status[x]
                        /\ clean'[x] = "done" => dev_sensor_all[x] = switch_status[x]
    BY <2>2
  <2>4. args[x] # Unset => args[x] = switch_status[x]
    <3>1. CASE args = NoValues
      BY <3>1 DEF NoValues
    <3>2. CASE args # NoValues
      BY <1>10, <2>3, <3>2 DEF Argument
    <3>3. QED
      BY <3>1, <3>2
  <2>5. clean'[x] = "done" => clean[x] = "done"
    BY <1>10 DEF Argument
  <2>6. QED
    BY <2>1, <2>4, <2>5 DEF TypeOK
<1>11. CASE Write
  <2> DEFINE f == Fields[written + 1]
  <2>1. written \in Nat /\ written' = written + 1 /\ (f \in Switch => args[f] # Unset)
    BY <1>11 DEF Write, TypeOK
  <2>2. dev_sensor_all' = IF f \in Switch THEN [dev_sensor_all EXCEPT ![f] = args[f]]
                                          ELSE dev_sensor_all
    BY <1>11 DEF Write
  <2>3. UNCHANGED <<clean, args, switch_status>>
    BY <1>11 DEF Write
  <2>4. \A x \in Switch : clean[x] # "no" =>
           dev_sensor_all'[x] = IF x = f THEN switch_status[x] ELSE dev_sensor_all[x]
    BY <2>1, <2>2 DEF TypeOK
  <2>5. \A i \in 1..(written + 1) : i \in 1..written \/ Fields[i] = f
    BY <2>1
  <2> HIDE DEF f
  <2>6. QED
    BY <2>1, <2>3, <2>4, <2>5
<1>12. CASE Delay
  <2>1. written = 7 /\ UNCHANGED <<switch_status, dev_sensor_all>>
    BY <1>12 DEF Delay, RoundInv
  <2>2. 5 \in 1..written /\ 6 \in 1..written /\ 7 \in 1..written
    BY <2>1
  <2>3. \A x \in Switch : clean[x] # "no" => dev_sensor_all[x] = switch_status[x]
    BY <2>2
  <2>4. \A x \in Switch : args'[x] = Unset /\ (clean'[x] # "no" => clean[x] # "no")
    BY <1>12 DEF Delay, NoValues, TypeOK
  <2>5. 1..(written') = {}
    BY <1>12 DEF Delay
  <2>6. QED
    BY <2>1, <2>3, <2>4, <2>5
<1>13. CASE Command
  <2>1. PICK y \in Switch, v \in {DEV_SENSOR_OPEN, DEV_SENSOR_CLOSE} :
           /\ switch_status' = [switch_status EXCEPT ![y] = v]
           /\ clean' = [clean EXCEPT ![y] = "no"]
    BY <1>13 DEF Command
  <2>2. \A x \in Switch : clean'[x] # "no" =>
           clean[x] # "no" /\ clean'[x] = clean[x] /\ switch_status'[x] = switch_status[x]
    BY <2>1 DEF TypeOK
  <2>3. UNCHANGED <<args, written, dev_sensor_all>>
    BY <1>13 DEF Command
  <2>4. QED
    BY <2>2, <2>3
<1>14. CASE GasChanges
  BY <1>14 DEF GasChanges
<1>15. CASE UNCHANGED vars
  BY <1>15 DEF vars
<1>16. QED
  BY <1>1, <1>2, <1>3, <1>4, <1>5, <1>6, <1>7, <1>8, <1>9,
     <1>10, <1>11, <1>12, <1>13, <1>14, <1>15 DEF Next, Main, SensorThread

-----------------------------------------------------------------------------
(* The theorems.                                                           *)

\* The invariant holds when main calls dev_sensor_init.
LEMMA InitIInv == Init => IInv
<1> SUFFICES ASSUME Init PROVE IInv
  OBVIOUS
<1> USE Switches DEF Init
<1>1. TypeOK
  <2>1. main \in Seq({"switches", "mqtt_start", "read_start"} \cup Sensor)
    BY DEF Sensor
  <2>2. /\ switch_status \in [Switch -> DEV_SENSOR_DEINIT..DEV_SENSOR_CLOSE]
        /\ args \in [Switch -> 0..DEV_SENSOR_CLOSE]
        /\ dev_sensor_all \in [Switch -> 0..DEV_SENSOR_CLOSE]
        /\ written \in 0..Len(Fields) /\ commands \in 0..MaxCommands
    BY CommandsAssumption DEF DEV_SENSOR_DEINIT, DEV_SENSOR_CLOSE, NoValues, Unset
  <2>3. QED
    BY <2>1, <2>2 DEF TypeOK
<1>2. MainInv
  BY DEF MainInv
<1>3. SwitchInv
  BY DEF SwitchInv, CommandsKept
<1>4. AlarmInv
  BY DEF AlarmInv, AlarmJustified, DEV_SENSOR_DEINIT, DEV_SENSOR_OPEN
<1>5. RoundInv
  BY DEF RoundInv
<1>6. FormatInv
  BY DEF FormatInv
<1>7. QED
  BY <1>1, <1>2, <1>3, <1>4, <1>5, <1>6 DEF IInv

\* Every state of the device satisfies the invariant.
LEMMA Invariance == Spec => []IInv
<1>1. IInv /\ [Next]_vars => IInv'
  BY TypeStep, MainKept, SwitchKept, AlarmKept, RoundKept, FormatKept DEF IInv
<1>2. QED
  BY <1>1, InitIInv, PTL DEF Spec

\* The variables keep their types: no field of the shared record takes a value
\* outside its enumeration, for any number of commands.
THEOREM TypeCorrect == Spec => []TypeOK
<1>1. IInv => TypeOK
  BY DEF IInv
<1>2. QED
  BY <1>1, Invariance, PTL

\* No command that preempts the sensor thread in its read-modify-write of the
\* shared record is undone, and the relays' pins agree with the record.
THEOREM CommandsAreKept == Spec => []CommandsKept
<1>1. IInv => CommandsKept
  BY DEF IInv, SwitchInv
<1>2. QED
  BY <1>1, Invariance, PTL

\* A round of formatting that began after the last command for a switch leaves
\* the switch in the buffer as it is, wherever commands for others preempt it,
\* until it is written again; only a half-written text may hide it meanwhile.
THEOREM SnapshotIsCurrent == Spec => []SnapshotCurrent
<1>1. IInv => SnapshotCurrent
  BY DEF IInv, TypeOK, RoundInv, FormatInv, SnapshotCurrent
<1>2. QED
  BY <1>1, Invariance, PTL

\* The beep never sounds unless gas was measured and the beep was switched on.
THEOREM AlarmIsJustified == Spec => []AlarmJustified
<1>1. IInv => AlarmJustified
  BY DEF IInv, AlarmInv
<1>2. QED
  BY <1>1, Invariance, PTL
\* A sensor that is not initialized is not IDLE, so that a retry finds nothing to do.
SensorInv == \A s \in Sensor : ~inited[s] => sensor_status[s] # DEV_SENSOR_IDLE

\* An attempt to initialize a sensor leaves it initialized or BUSY.
LEMMA InitSensorInv ==
    ASSUME TypeOK, SensorInv, NEW s \in Sensor, dev_sensor_x_init(s)
    PROVE  SensorInv'
<1>1. CASE inited' = [inited EXCEPT ![s] = TRUE]
           /\ sensor_status' = [sensor_status EXCEPT ![s] = DEV_SENSOR_IDLE]
  BY <1>1 DEF SensorInv, TypeOK
<1>2. CASE UNCHANGED inited
           /\ sensor_status' = [sensor_status EXCEPT ![s] = DEV_SENSOR_BUSY]
  BY <1>2 DEF SensorInv, TypeOK, DEV_SENSOR_BUSY, DEV_SENSOR_IDLE
<1>3. QED
  BY <1>1, <1>2 DEF dev_sensor_x_init

\* No step initializes a sensor by retrying, and only main initializes one at all.
LEMMA SensorKept ==
    ASSUME IInv, SensorInv, [Next]_vars
    PROVE  /\ SensorInv'
           /\ pc # "off" => UNCHANGED inited
<1> USE DEF IInv
<1>1. CASE InitSensor
  <2>1. SensorInv'
    BY <1>1, InitSensorInv DEF InitSensor
  <2>2. pc = "off"
    BY <1>1 DEF InitSensor, MainInv
  <2>3. QED
    BY <2>1, <2>2
<1>2. CASE ReadSht3x \/ ReadEnd
  <2>1. "sht3x" \in Sensor /\ "zph02" \in Sensor
    BY DEF Sensor
  <2>2. UNCHANGED sensors
    BY <1>2, <2>1 DEF ReadSht3x, ReadEnd, Retry, SensorInv
  <2>3. QED
    BY <2>2 DEF SensorInv, sensors
<1>3. CASE UNCHANGED sensors
  BY <1>3 DEF SensorInv, sensors
<1>4. QED
  BY <1>1, <1>2, <1>3 DEF Next, Main, SensorThread, InitSwitches, StartThread, ReadBegin,
     SampleMq2, CheckBeep, dev_sensor_beep_ctl, Argument, Write, Delay, Command, GasChanges,
     vars, sensors

\* A sensor whose initialization failed is never initialized again, although the
\* sensor thread logs "Retry..." in every round.
THEOREM FailuresAreFinal == Spec => FailedInitIsFinal
<1>1. Init => SensorInv
  BY DEF Init, SensorInv, DEV_SENSOR_DEINIT, DEV_SENSOR_IDLE
<1>2. SensorInv /\ IInv /\ [Next]_vars => SensorInv'
  BY SensorKept
<1>3. SensorInv /\ IInv /\ [Next]_vars
      => [\A s \in Sensor : pc # "off" /\ ~inited[s] => ~inited'[s]]_vars
  BY SensorKept
<1>4. QED
  BY <1>1, <1>2, <1>3, Invariance, PTL DEF Spec, FailedInitIsFinal
=============================================================================
