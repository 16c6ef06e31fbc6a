---------------------------- MODULE MC_SmartHome ----------------------------
(***************************************************************************)
(* One reading below the limit and two above it.  The text of the first    *)
(* has other lengths, so that a snapshot may be replaced by one whose      *)
(* separators are elsewhere; those of the others are equally long.         *)
(***************************************************************************)
EXTENDS SmartHome

MCReading == {[temp |-> -8, humi |-> 90, mq2 |-> 95, zph02 |-> 12],
              [temp |-> 215, humi |-> 90, mq2 |-> 601, zph02 |-> 12],
              [temp |-> 216, humi |-> 90, mq2 |-> 752, zph02 |-> 13]}
MCJunk == {-7}
MCMeasured == {<<{1, 2, 3, 4, 5, 7}, {0, 1, 2, 3, 5, 6, 7}, {1, 2, 5, 6}, {1, 2, 5, 6}>>,
               <<{0, 5, 6}, {}, {7}, 0..7>>}
=============================================================================
