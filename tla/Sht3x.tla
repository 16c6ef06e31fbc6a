-------------------------------- MODULE Sht3x -------------------------------
(***************************************************************************)
(* The SHT3x driver: the checksum, the single-shot reading and the         *)
(* conversion of its words.  A byte is the set of its bits that are 1.  A  *)
(* measurement is in tenths, rounded towards zero as the conversions to    *)
(* int do it later.                                                        *)
(***************************************************************************)
EXTENDS Integers, Sequences, FiniteSetsExt

CONSTANT Measured   \* what the sensor may measure: two bytes each of temperature and humidity

Byte == SUBSET (0..7)

ASSUME MeasuredAssumption == Measured \subseteq [1..4 -> Byte]

Xor(a, b) == (a \ b) \cup (b \ a)
Unsigned(b) == MapThenSumSet(LAMBDA i : 2^i, b)

-----------------------------------------------------------------------------
(* The checksum.                                                           *)

CRC_POLY == {0, 4, 5}   \* 0x31

\* One turn of the inner loop of crc8.
Shift(crc) ==
    LET shifted == {i + 1 : i \in crc \ {7}}
    IN  IF 7 \in crc THEN Xor(shifted, CRC_POLY) ELSE shifted

\* The inner loop, which has eight turns.
Shifted(crc) == Shift(Shift(Shift(Shift(Shift(Shift(Shift(Shift(crc))))))))

\* crc8 of two bytes.
crc8(first, second) == Shifted(Xor(Shifted(Xor(0..7, first)), second))

-----------------------------------------------------------------------------
(* The reading.                                                            *)

\* Division and remainder of C round towards zero.
Quot(a, b) == IF a < 0 THEN -((-a) \div b) ELSE a \div b

\* Mutant: the remainder is never negative.
Rem_floor(a, b) == a % b

Rem(a, b) == a - b * Quot(a, b)

\* -45 + word * 175 / 65534, and word * 0.0015259022, which is 100 / 65535
Temperature(word) == Quot(1750 * word - 450 * 65534, 65534)
Humidity(word) == (1000 * word) \div 65535

Word(high, low) == 256 * Unsigned(high) + Unsigned(low)

\* The device as sht3x_init leaves it.
NoReading == [temperature |-> 0, humidity |-> 0]

\* Mutant: the result is that of the second half.
sht3x_read_singleshot_last(dev, answers, temp) ==
    LET ok1 == answers /\ crc8(temp[1], temp[2]) = temp[3]
        ok2 == answers /\ crc8(temp[4], temp[5]) = temp[6]
    IN  [temperature |-> IF ok1 THEN Temperature(Word(temp[1], temp[2])) ELSE dev.temperature,
         humidity |-> IF ok2 THEN Humidity(Word(temp[4], temp[5])) ELSE dev.humidity,
         result |-> IF ok2 THEN "RT_EOK" ELSE "RT_ERROR"]

\* A reading: the device afterwards and the result.  Either transfer may fail; a half
\* whose checksum is wrong keeps its old value.
sht3x_read_singleshot(dev, answers, temp) ==
    LET ok1 == answers /\ crc8(temp[1], temp[2]) = temp[3]
        ok2 == answers /\ crc8(temp[4], temp[5]) = temp[6]
    IN  [temperature |-> IF ok1 THEN Temperature(Word(temp[1], temp[2])) ELSE dev.temperature,
         humidity |-> IF ok2 THEN Humidity(Word(temp[4], temp[5])) ELSE dev.humidity,
         result |-> IF ok1 /\ ok2 THEN "RT_EOK" ELSE "RT_ERROR"]

-----------------------------------------------------------------------------
(* What a reading makes of wrong bits.                                     *)

\* Six bytes as the sensor sends them.
Sent(m) == <<m[1], m[2], crc8(m[1], m[2]), m[3], m[4], crc8(m[3], m[4])>>

\* Wrong bits of a half, which has 24; the last byte has the lowest.
Damaged(m, first, bits) ==
    [p \in 1..6 |-> Xor(Sent(m)[p], {i \in 0..7 : 8 * (first + 2 - p) + i \in bits})]

\* A half with wrong bits keeps its old value, the other half is new, and the result
\* is an error.
Contained(old, m, bits) ==
    LET new == sht3x_read_singleshot(old, TRUE, Sent(m))
    IN  /\ new.result = "RT_EOK"
        /\ sht3x_read_singleshot(old, TRUE, Damaged(m, 1, bits)) =
              [temperature |-> old.temperature, humidity |-> new.humidity, result |-> "RT_ERROR"]
        /\ sht3x_read_singleshot(old, TRUE, Damaged(m, 4, bits)) =
              [temperature |-> new.temperature, humidity |-> old.humidity, result |-> "RT_ERROR"]
=============================================================================
