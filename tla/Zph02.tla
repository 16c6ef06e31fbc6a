------------------------------- MODULE Zph02 --------------------------------
(***************************************************************************)
(* The ZPH02 dust sensor path of dev_sensor.c: the sensor sends 9-byte     *)
(* frames over UART3, the receive interrupt queues the bytes and releases  *)
(* a semaphore, the "zph02" thread (priority 25) assembles frames and      *)
(* checks them, and the "sensor" thread (priority 12) combines the two     *)
(* bytes of the measurement.                                               *)
(***************************************************************************)
EXTENDS Integers, Sequences, FiniteSets

CONSTANTS Frames,    \* the 9-byte frames the sensor may send (external)
          RT_SERIAL_RB_BUFSZ,  \* size of the UART receive buffer
          Noise,     \* values a damaged byte may take
          SemMax,    \* bound: semaphore tokens that may pile up
          MaxFaults  \* bound: bytes lost, damaged, or overwritten in the FIFO

Byte == 0..255

ASSUME FramesAssumption == Frames \subseteq [1..9 -> Byte]
ASSUME Zph02BufszAssumption == RT_SERIAL_RB_BUFSZ \in Nat /\ RT_SERIAL_RB_BUFSZ > 1
ASSUME NoiseAssumption == Noise \subseteq Byte
ASSUME BoundsAssumption == SemMax \in Nat /\ MaxFaults \in Nat

VARIABLES
    frame, sent,      \* the frame on the wire, and how many bytes are out
    faults,           \* bytes lost, damaged or overwritten so far
    queue,            \* the receive FIFO of UART3, as ByteFifo describes it
    dev_zph02_rx_sem, \* value of the semaphore
    init,             \* where dev_sensor_zph02_init stands
    dev_zph02_inited,
    zph02_status,
    pc,               \* where dev_sensor_zph02_thread stands
    ch,               \* the byte just read, rt_int8_t
    count, value_buffer,
    data_high, data_low,
    zph02_data,       \* what dev_sensor_data_read last computed
    accepted          \* history: measurements of the last two accepted frames

line == <<frame, sent, faults>>
uart == <<queue, dev_zph02_rx_sem>>
setup == <<init, dev_zph02_inited>>
parser == <<zph02_status, pc, ch, count, value_buffer, data_high, data_low, accepted>>
vars == <<line, uart, setup, parser, zph02_data>>

Fifo == INSTANCE ByteFifo WITH Capacity <- RT_SERIAL_RB_BUFSZ - 1, data <- ch

\* Mutant: ch declared as an unsigned byte.
Int8_unsigned(b) == b

\* Conversions to rt_int8_t and to rt_uint8_t.
Int8(b) == IF b > 127 THEN b - 256 ELSE b
UInt8(c) == c % 256

UartOpen == init \in {"indicate", "thread", "done", "no_thread"}
Announced == init \in {"thread", "done", "no_thread"}

Init ==
    /\ frame \in Frames /\ sent = 0 /\ faults = 0
    /\ queue = <<>> /\ dev_zph02_rx_sem = 0
    /\ init = "find" /\ dev_zph02_inited = FALSE
    /\ zph02_status = "DEINIT"
    /\ pc = "none" /\ ch = 0 /\ count = 0
    /\ value_buffer = [i \in 0..8 |-> 0]
    /\ data_high = 0 /\ data_low = 0 /\ zph02_data = 0
    /\ accepted = <<<<0, 0>>, <<0, 0>>>>

-----------------------------------------------------------------------------
(* dev_sensor_zph02_init, run by the main thread (priority 10).            *)

\* Step 1: the status goes BUSY before the device is looked up, and stays so
\* when there is none.
InitFind ==
    /\ init = "find"
    /\ zph02_status' = "BUSY"
    /\ init' \in {"open", "no_device"}
    /\ UNCHANGED <<line, uart, dev_zph02_inited, pc, ch, count, value_buffer,
                   data_high, data_low, accepted, zph02_data>>

\* Steps 2-4: configure, initialise the semaphore, open the UART.
InitOpen ==
    /\ init = "open"
    /\ dev_zph02_rx_sem' = 0
    /\ queue' = <<>>
    /\ init' = "indicate"
    /\ UNCHANGED <<line, dev_zph02_inited, parser, zph02_data>>

\* The callback is installed only now: bytes that came before it are queued
\* without a token.
InitIndicate ==
    /\ init = "indicate"
    /\ init' = "thread"
    /\ UNCHANGED <<line, uart, dev_zph02_inited, parser, zph02_data>>

\* The new thread has a lower priority, so it first runs after the assignments
\* that follow rt_thread_startup.
InitThread ==
    /\ init = "thread"
    /\ \/ /\ init' = "done"
          /\ pc' = "read"
          /\ zph02_status' = "IDLE"
          /\ dev_zph02_inited' = TRUE
       \/ /\ init' = "no_thread"
          /\ UNCHANGED <<pc, zph02_status, dev_zph02_inited>>
    /\ UNCHANGED <<line, uart, ch, count, value_buffer, data_high, data_low,
                   accepted, zph02_data>>

-----------------------------------------------------------------------------
(* The sensor (external), the wire and the receive interrupt.              *)

\* The sensor puts its next byte on the wire.
Transmit ==
    IF sent = 8
      THEN sent' = 0 /\ frame' \in Frames
      ELSE sent' = sent + 1 /\ UNCHANGED frame

\* Mutant: a token is kept only for a thread that already waits.
callback_drops_token ==
    /\ pc' = IF pc = "suspended" THEN "read" ELSE pc
    /\ UNCHANGED dev_zph02_rx_sem

\* rt_sem_release: a waiting thread is resumed, else the token is kept.
dev_sensor_zph02_callback ==
    IF pc = "suspended"
      THEN pc' = "read" /\ UNCHANGED dev_zph02_rx_sem
      ELSE dev_zph02_rx_sem' = dev_zph02_rx_sem + 1 /\ UNCHANGED pc

\* The receive interrupt queues byte b; rx_indicate runs once it is installed.
Interrupt(b) ==
    /\ UartOpen
    /\ dev_zph02_rx_sem < SemMax
    /\ queue' = Fifo!Received(queue, b)
    /\ IF Announced THEN dev_sensor_zph02_callback
                    ELSE UNCHANGED <<pc, dev_zph02_rx_sem>>
    /\ UNCHANGED <<setup, zph02_status, ch, count, value_buffer, data_high,
                   data_low, accepted, zph02_data>>

\* A byte arrives as it was sent and the FIFO has room.
Receive ==
    /\ Len(queue) < RT_SERIAL_RB_BUFSZ - 1
    /\ Interrupt(frame[sent + 1])
    /\ Transmit
    /\ UNCHANGED faults

\* A byte arrives damaged, or arrives while the FIFO is full.
ReceiveFaulty ==
    /\ faults < MaxFaults
    /\ \/ \E b \in Noise : Interrupt(b)
       \/ Len(queue) = RT_SERIAL_RB_BUFSZ - 1 /\ Interrupt(frame[sent + 1])
    /\ Transmit
    /\ faults' = faults + 1

\* A byte does not arrive: the UART is not open yet, or the line dropped it.
Lose ==
    /\ faults < MaxFaults
    /\ Transmit
    /\ faults' = faults + 1
    /\ UNCHANGED <<uart, setup, parser, zph02_data>>

-----------------------------------------------------------------------------
(* dev_sensor_zph02_thread.                                                *)

\* rt_device_read of one byte.
Read ==
    /\ pc = "read"
    /\ IF queue = <<>>
         THEN pc' = "take" /\ UNCHANGED <<queue, ch>>
         ELSE pc' = "parse" /\ ch' = Int8(Head(queue)) /\ queue' = Tail(queue)
    /\ UNCHANGED <<line, dev_zph02_rx_sem, setup, zph02_status, count,
                   value_buffer, data_high, data_low, accepted, zph02_data>>

\* rt_sem_take(RT_WAITING_FOREVER).
Take ==
    /\ pc = "take"
    /\ IF dev_zph02_rx_sem > 0
         THEN pc' = "read" /\ dev_zph02_rx_sem' = dev_zph02_rx_sem - 1
         ELSE pc' = "suspended" /\ UNCHANGED dev_zph02_rx_sem
    /\ UNCHANGED <<line, queue, setup, zph02_status, ch, count, value_buffer,
                   data_high, data_low, accepted, zph02_data>>

\* Mutant: bytes are stored whatever the status.
Parse_ignores_status ==
    /\ pc = "parse"
    /\ value_buffer' = [value_buffer EXCEPT ![count] = UInt8(ch)]
    /\ IF count + 1 = 9
         THEN zph02_status' = "BUSY" /\ count' = 0 /\ pc' = "check"
         ELSE count' = count + 1 /\ pc' = "read" /\ UNCHANGED zph02_status
    /\ UNCHANGED <<line, uart, setup, ch, data_high, data_low, accepted, zph02_data>>

\* The byte goes into the frame, unless a rejected frame left the status BUSY.
\* "ch == 0xff" compares the signed byte with 255.
Parse ==
    /\ pc = "parse"
    /\ IF zph02_status # "IDLE"
         THEN pc' = "read" /\ UNCHANGED <<zph02_status, count, value_buffer>>
         ELSE LET c == IF ch = 255 THEN 0 ELSE count IN
              /\ value_buffer' = [value_buffer EXCEPT ![c] = UInt8(ch)]
              /\ IF c + 1 = 9
                   THEN zph02_status' = "BUSY" /\ count' = 0 /\ pc' = "check"
                   ELSE count' = c + 1 /\ pc' = "read" /\ UNCHANGED zph02_status
    /\ UNCHANGED <<line, uart, setup, ch, data_high, data_low, accepted, zph02_data>>

\* The checksum of dev_zph02_value_check: an 8-bit sum of bytes 1..7, and its
\* two's complement computed in int, so that a sum of 0 gives 256.
check_sum(buf) ==
    (buf[1] + buf[2] + buf[3] + buf[4] + buf[5] + buf[6] + buf[7]) % 256
ChecksumPasses(sum, last) == (255 - sum) + 1 = last

\* Mutant: the measurement is taken one byte too far into the frame.
value_check_high_shifted ==
    /\ pc = "check"
    /\ IF ChecksumPasses(check_sum(value_buffer), value_buffer[8])
         THEN /\ data_high' = value_buffer[4]
              /\ accepted' = <<accepted[2], <<value_buffer[4], value_buffer[5]>>>>
              /\ pc' = "low"
         ELSE pc' = "read" /\ UNCHANGED <<data_high, accepted>>
    /\ UNCHANGED <<line, uart, setup, zph02_status, ch, count, value_buffer,
                   data_low, zph02_data>>

\* Mutant: the low byte is stored first.
value_check_low_first ==
    /\ pc = "check"
    /\ IF ChecksumPasses(check_sum(value_buffer), value_buffer[8])
         THEN /\ data_low' = value_buffer[4]
              /\ accepted' = <<accepted[2], <<value_buffer[3], value_buffer[4]>>>>
              /\ pc' = "low"
         ELSE pc' = "read" /\ UNCHANGED <<data_low, accepted>>
    /\ UNCHANGED <<line, uart, setup, zph02_status, ch, count, value_buffer,
                   data_high, zph02_data>>

\* dev_zph02_value_check, first half: a rejected frame leaves the status BUSY.
value_check_high ==
    /\ pc = "check"
    /\ IF ChecksumPasses(check_sum(value_buffer), value_buffer[8])
         THEN /\ data_high' = value_buffer[3]
              /\ accepted' = <<accepted[2], <<value_buffer[3], value_buffer[4]>>>>
              /\ pc' = "low"
         ELSE pc' = "read" /\ UNCHANGED <<data_high, accepted>>
    /\ UNCHANGED <<line, uart, setup, zph02_status, ch, count, value_buffer,
                   data_low, zph02_data>>

\* Mutant: the status is not given back.
value_check_low_keeps_busy ==
    /\ pc = "low"
    /\ data_low' = value_buffer[4]
    /\ pc' = "read"
    /\ UNCHANGED <<line, uart, setup, zph02_status, ch, count, value_buffer,
                   data_high, accepted, zph02_data>>

\* Second half.  The sensor thread may run between the two.
value_check_low ==
    /\ pc = "low"
    /\ data_low' = value_buffer[4]
    /\ zph02_status' = "IDLE"
    /\ pc' = "read"
    /\ UNCHANGED <<line, uart, setup, ch, count, value_buffer, data_high,
                   accepted, zph02_data>>

-----------------------------------------------------------------------------
\* The ZPH02 part of dev_sensor_data_read, in the sensor thread, which the
\* parser cannot preempt.  The retry asks for a status that a failed
\* initialisation never leaves behind.
SensorRead ==
    /\ init \in {"done", "no_device", "no_thread"}
    /\ IF dev_zph02_inited
         THEN zph02_data' = data_high * 100 + data_low /\ UNCHANGED init
         ELSE /\ init' = IF zph02_status = "IDLE" THEN "find" ELSE init
              /\ UNCHANGED zph02_data
    /\ UNCHANGED <<line, uart, dev_zph02_inited, parser>>

Setup == InitFind \/ InitOpen \/ InitIndicate \/ InitThread
Thread == Read \/ Take \/ Parse \/ value_check_high \/ value_check_low
Next == Setup \/ Receive \/ ReceiveFaulty \/ Lose \/ Thread \/ SensorRead

Spec == Init /\ [][Next]_vars

\* Threads that can run do run, and the sensor keeps sending.
FairSpec ==
    /\ Spec
    /\ WF_vars(Setup) /\ WF_vars(Thread) /\ WF_vars(SensorRead)
    /\ WF_vars(Receive)

-----------------------------------------------------------------------------
(* Properties.                                                             *)

TypeOK ==
    /\ frame \in Frames /\ sent \in 0..8 /\ faults \in 0..MaxFaults
    /\ queue \in Seq(Byte) /\ Len(queue) < RT_SERIAL_RB_BUFSZ
    /\ dev_zph02_rx_sem \in 0..SemMax
    /\ init \in {"find", "open", "indicate", "thread", "done", "no_device", "no_thread"}
    /\ dev_zph02_inited \in BOOLEAN
    /\ zph02_status \in {"DEINIT", "BUSY", "IDLE"}
    /\ pc \in {"none", "read", "take", "suspended", "parse", "check", "low"}
    /\ ch \in -128..127
    /\ count \in 0..8
    /\ value_buffer \in [0..8 -> Byte]
    /\ data_high \in Byte /\ data_low \in Byte
    /\ zph02_data \in Nat
    /\ accepted \in (Byte \X Byte) \X (Byte \X Byte)

\* The parser thread never sleeps on its semaphore while a byte waits in the
\* UART FIFO, whatever the order of its empty read, the interrupt and its
\* rt_sem_take, and although early bytes come without a token.
NoLostWakeup == pc = "suspended" => queue = <<>>

\* A rejected frame has left the status BUSY: Parse now ignores every byte.
Stalled ==
    init = "done" /\ zph02_status = "BUSY" /\ pc \notin {"check", "low"}

\* The parser's count and the bytes still queued add up to the sensor's
\* position in its frame.
Aligned ==
    sent = (count + Len(queue) + (IF pc = "parse" THEN 1 ELSE 0)) % 9

\* While no byte was lost, damaged or overwritten, every accepted measurement
\* is one the sensor sent: a parser that has not stalled is aligned with the
\* sensor, and frame assembly never mixes two frames.
GenuineMeasurement ==
    faults = 0 => /\ Stalled \/ Aligned
                  /\ accepted[2] \in {<<0, 0>>} \cup {<<f[4], f[5]>> : f \in Frames}

\* The sensor's checksum (external): the last byte makes bytes 1..8 of a frame
\* add up to 0 modulo 256.
Checksummed == \A f \in Frames : (check_sum([i \in 0..8 |-> f[i + 1]]) + f[9]) % 256 = 0

\* On a faultless line the parser never stalls, unless the sensor sends a frame
\* whose bytes 1..7 add up to 0 modulo 256, which value_check always rejects.
StallsOnlyOnZeroSum ==
    faults = 0 /\ Stalled
        => \E f \in Frames : check_sum([i \in 0..8 |-> f[i + 1]]) = 0

\* dev_sensor_data_read may run between the two stores of value_check.  It
\* then pairs the new high byte with the low byte of the frame accepted just
\* before, and never mixes frames further apart.
ReadBlendsAdjacent ==
    [][zph02_data' # zph02_data =>
         zph02_data' \in {accepted[2][1] * 100 + accepted[i][2] : i \in 1..2}]_vars

\* One rejected frame ends the measurement: the status stays BUSY, so the
\* parser discards all later bytes, good frames included.
RejectionIsFinal == [][Stalled => Stalled']_vars

\* The comparison of the signed ch with 0xff never holds, so a start byte does
\* not restart a frame: every byte that is stored moves count on by one, modulo
\* nine, and a parser that lost a byte stays shifted.
HeaderNeverResyncs == [][count' \in {count, (count + 1) % 9}]_vars

\* On a faultless line a measurement that the sensor keeps sending ends up in
\* zph02_data and stays there.
SteadyValueIsReported ==
    \A f \in Frames :
        [](faults = 0) /\ <>[](frame = f /\ init = "done")
            => <>[](zph02_data = f[4] * 100 + f[5])
=============================================================================
