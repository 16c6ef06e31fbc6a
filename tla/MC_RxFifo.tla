----------------------------- MODULE MC_RxFifo ------------------------------
(* A FIFO of four cells and two distinguishable characters.                *)
EXTENDS RxFifo

CONSTANTS a, b

MC_Char == {a, b}
=============================================================================
