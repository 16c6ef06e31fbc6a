------------------------------- MODULE RxFifo -------------------------------
(***************************************************************************)
(* struct rt_serial_rx_fifo of the RT-Thread serial driver: the circular   *)
(* buffer that the receive interrupt fills (rt_hw_serial_isr) and a thread *)
(* empties (_serial_int_rx).  Both run their index updates with interrupts *)
(* disabled, so each is one action.                                        *)
(***************************************************************************)
EXTENDS Naturals, Sequences

CONSTANTS Char, bufsz   \* serial->config.bufsz

ASSUME BufszAssumption == bufsz \in Nat /\ bufsz > 1
ASSUME CharAssumption == Char # {}

VARIABLES buffer, put_index, get_index, is_full,
          data   \* the character the last successful read returned

rx_fifo == <<buffer, put_index, get_index, is_full, data>>

\* index += 1; if (index >= bufsz) index = 0;
Advance(index) == IF index + 1 >= bufsz THEN 0 ELSE index + 1

\* There's no data.
Empty == get_index = put_index /\ ~is_full

FifoOK ==
    /\ buffer \in [0..bufsz-1 -> Char]
    /\ put_index \in 0..bufsz-1
    /\ get_index \in 0..bufsz-1
    /\ is_full \in BOOLEAN
    /\ data \in Char

\* rt_serial_open clears the FIFO.
FifoInit ==
    /\ \E zero \in Char : buffer = [i \in 0..bufsz-1 |-> zero]
    /\ put_index = 0
    /\ get_index = 0
    /\ is_full = FALSE
    /\ data \in Char

\* Mutant: the overflow branch forgets to move the read position.
isr_keeps_get_index(ch) ==
    /\ buffer' = [buffer EXCEPT ![put_index] = ch]
    /\ put_index' = Advance(put_index)
    /\ is_full' = (is_full \/ put_index' = get_index)
    /\ UNCHANGED <<get_index, data>>

\* One turn of the receive loop: when the write position reaches the read
\* position, the oldest character is discarded.
rt_hw_serial_isr(ch) ==
    /\ buffer' = [buffer EXCEPT ![put_index] = ch]
    /\ put_index' = Advance(put_index)
    /\ IF put_index' = get_index
         THEN get_index' = Advance(get_index) /\ is_full' = TRUE
         ELSE UNCHANGED <<get_index, is_full>>
    /\ UNCHANGED data

\* A read of one character that finds data.
_serial_int_rx ==
    /\ ~Empty
    /\ data' = buffer[get_index]
    /\ get_index' = Advance(get_index)
    /\ is_full' = FALSE
    /\ UNCHANGED <<buffer, put_index>>

FifoNext == _serial_int_rx \/ \E ch \in Char : rt_hw_serial_isr(ch)

FifoSpec == FifoInit /\ [][FifoNext]_rx_fifo

-----------------------------------------------------------------------------
\* How many characters wait in the buffer: the driver's rx_length.
rx_length == IF put_index >= get_index
               THEN put_index - get_index
               ELSE bufsz - (get_index - put_index)

\* The position of the i-th waiting character.
Position(i) == IF get_index + i - 1 >= bufsz
                 THEN get_index + i - 1 - bufsz
                 ELSE get_index + i - 1

\* The waiting characters, oldest first.
Waiting == [i \in 1..rx_length |-> buffer[Position(i)]]

Queue == INSTANCE ByteFifo WITH Byte <- Char, Capacity <- bufsz - 1, queue <- Waiting

\* The index arithmetic implements a queue of bufsz - 1 characters that drops
\* the oldest one on overflow: nothing is reordered, duplicated or skipped
\* when the positions wrap around or the write position catches up.
ImplementsByteFifo == Queue!Spec

\* is_full never hides or invents data: the reader sees an empty FIFO exactly
\* when no character waits, although equal positions could mean empty or full.
EmptyMeansNoData == Empty <=> rx_length = 0

\* The interrupt calls rx_indicate only "if (rx_length)"; after it stored a
\* character there always is one, so no character arrives unannounced.
IndicateAlways == [][put_index' # put_index => rx_length' # 0]_rx_fifo
=============================================================================
