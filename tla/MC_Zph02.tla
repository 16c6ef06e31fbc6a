------------------------------ MODULE MC_Zph02 ------------------------------
(* Frames as the sensor sends them: start byte 0xff, type 0x18, unit, the   *)
(* measurement in bytes 3 and 4, and the two's complement of the sum.       *)
EXTENDS Zph02

Frame(high, low, pad) ==
    LET sum == (24 + high + low + pad) % 256
    IN  <<255, 24, 0, high, low, pad, 0, 0, (256 - sum) % 256>>

\* Two measurements that differ in both bytes.
MC_Frames == {Frame(1, 44, 3), Frame(2, 7, 3)}

ASSUME FramesAreChecksummed == Checksummed
=============================================================================
