------------------------------ MODULE ByteFifo ------------------------------
(***************************************************************************)
(* What the serial driver's receive FIFO promises to a reader: a queue of  *)
(* at most Capacity bytes that forgets its oldest byte when one more       *)
(* arrives.  RxFifo shows that the index arithmetic of the driver          *)
(* implements it; Zph02 uses it as the UART between sensor and parser.     *)
(***************************************************************************)
EXTENDS Naturals, Sequences

CONSTANTS Byte,      \* the values a received character can have
          Capacity   \* how many characters the FIFO keeps

VARIABLES queue,     \* received characters nobody has read, oldest first
          data       \* the character the last successful read returned

\* The FIFO after one more character: the oldest one gives way.
Received(q, ch) ==
    LET r == Append(q, ch) IN IF Len(r) > Capacity THEN Tail(r) ELSE r

Init == queue = <<>> /\ data \in Byte

\* The receive interrupt stores a character.
Put(ch) == queue' = Received(queue, ch) /\ UNCHANGED data

\* A reader takes the oldest character.
Get ==
    /\ queue # <<>>
    /\ data' = Head(queue)
    /\ queue' = Tail(queue)

Next == Get \/ \E ch \in Byte : Put(ch)

Spec == Init /\ [][Next]_<<queue, data>>
=============================================================================
