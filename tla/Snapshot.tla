------------------------------ MODULE Snapshot ------------------------------
(***************************************************************************)
(* The text of a snapshot: how dev_sensor_mqtt_buffer formats the shared   *)
(* record and how the page of the applet takes the text apart again.  A    *)
(* text is a sequence of symbols; values are in tenths.                    *)
(***************************************************************************)
EXTENDS Sht3x

CONSTANTS Reading,  \* what the sensors may measure: records of four values in tenths
          Junk      \* what the conversion without an argument may print

Digit == <<"0", "1", "2", "3", "4", "5", "6", "7", "8", "9">>
DigitValue == [d \in {Digit[i] : i \in 1..10} |-> CHOOSE n \in 0..9 : Digit[n + 1] = d]

\* What stands between the values and after the text, and the values of the C enumeration.
Sep == "_"
NUL == "NUL"
OPEN == 2
CLOSE == 3

\* The largest int.
INT_MAX == 2147483647

Integer == (-INT_MAX - 1)..INT_MAX

\* Ten times a measurement is converted to int, and so is what %d prints.
ASSUME ReadingAssumption ==
    Reading \subseteq [temp : Integer, humi : Integer, mq2 : 0..INT_MAX, zph02 : Integer]
ASSUME JunkAssumption == Junk \subseteq Integer /\ Junk # {}

Names == {"all", "data"}
Measurand == <<"temp", "humi", "mq2", "zph02">>
Switches == {"relay1", "relay2", "beep"}
Blank == " "

-----------------------------------------------------------------------------
(* Formatting.                                                             *)

Digits[n \in Nat] ==
    IF n < 10 THEN <<Digit[n + 1]>> ELSE Append(Digits[n \div 10], Digit[(n % 10) + 1])

\* "%d"
Decimal(n) == IF n < 0 THEN <<"-">> \o Digits[-n] ELSE Digits[n]

\* "%d.%d" of a value in tenths
Fixed(t) == Decimal(Quot(t, 10)) \o <<".">> \o Decimal(Rem(t, 10))

Measurements(v) ==
    <<Sep>> \o Fixed(v.temp) \o <<Sep>> \o Fixed(v.humi)
    \o <<Sep>> \o Fixed(v.mq2) \o <<Sep>> \o Fixed(v.zph02)

\* Mutant: as many conversions as arguments.
SensorAll_eleven(v, junk) ==
    <<"D$S-A">> \o Measurements(v) \o <<Sep>> \o Decimal(v.relay1)
    \o <<Sep>> \o Decimal(v.relay2) \o <<Sep>> \o Decimal(v.beep) \o <<"\n">>

\* The text of dev_sensor_all.  The format has one conversion more than there are
\* arguments; what it prints is undefined.
SensorAll(v, junk) ==
    <<"D$S-A">> \o Measurements(v) \o <<Sep>> \o Decimal(v.relay1)
    \o <<Sep>> \o Decimal(v.relay2) \o <<Sep>> \o Decimal(v.beep)
    \o <<Sep>> \o Decimal(junk) \o <<"\n">>

\* The text of dev_sensor_data.
SensorData(v) == <<"D$S-D">> \o Measurements(v) \o <<"\n">>

TextOf(n, r, junk) == IF n = "all" THEN SensorAll(r, junk) ELSE SensorData(r)

\* The text in a buffer ends at the first NUL.  Of a buffer the model has what was ever
\* written.
Visible(b) == SubSeq(b, 1, Min({i \in 1..Len(b) : b[i] = NUL} \cup {Len(b) + 1}) - 1)

\* The beginning of b, and the rest of a.
Blend(a, b, k) == SubSeq(b, 1, k) \o SubSeq(a, k + 1, Len(a))

-----------------------------------------------------------------------------
(* The page.                                                               *)

\* The first separator from position p on, or the end of the message.
Separator(message, p) == Min({q \in p..Len(message) : message[q] = Sep} \cup {Len(message) + 1})

\* message.split("_"): the fields 0 to 7, some of which may be missing.  The field i begins
\* at starts[8][i + 1].
split(message) ==
    LET starts[i \in 0..8] ==
            IF i = 0 THEN <<1>>
            ELSE LET s == starts[i - 1] IN Append(s, Separator(message, s[i]) + 1)
        start == starts[8]
    IN  [i \in 0..7 |-> IF start[i + 1] <= Len(message) + 1
                        THEN SubSeq(message, start[i + 1], start[i + 2] - 2)
                        ELSE <<"undefined">>]

\* White space at the end of a text does not keep it from being a number.
Trimmed(string) ==
    IF string # <<>> /\ string[Len(string)] = "\n"
    THEN SubSeq(string, 1, Len(string) - 1) ELSE string

\* The number that the first n symbols spell.
Value(f, n) ==
    LET value[p \in 0..n] == IF p = 0 THEN 0 ELSE 10 * value[p - 1] + DigitValue[f[p]]
    IN  value[n]

Spells50More(f) ==
    LET dots == {p \in 1..Len(f) : f[p] = "."}
        point == Min(dots \cup {Len(f) + 1})
    IN  /\ \A p \in 1..Len(f) : p = point \/ f[p] \in DOMAIN DigitValue
        /\ \/ Value(f, point - 1) > 50
           \/ Value(f, point - 1) = 50 /\ \E p \in (point + 1)..Len(f) : f[p] # "0"

\* string > 50: a string is compared as the number it spells, and never if it spells none.
Exceeds50(string) == Spells50More(Trimmed(string))

\* Where a snapshot of all values has the status of a switch.
Index == [relay1 |-> 5, relay2 |-> 6, beep |-> 7]

StatusIn(messageBuffer, x) ==
    IF messageBuffer[Index[x]] = Decimal(OPEN) THEN "ON" ELSE "OFF"

Warning(messageBuffer) == IF Exceeds50(messageBuffer[3]) THEN "leak" ELSE Blank

\* What setData is given for the four measurements.
ValuesIn(messageBuffer) == [i \in 1..4 |-> messageBuffer[i]]

-----------------------------------------------------------------------------
(* The reference: how a number of tenths is written, and a switch shown.   *)

Tenths(n) == Digits[n \div 10] \o <<".", Digit[(n % 10) + 1]>>
Spelled(t) == IF t < 0 THEN <<"-">> \o Tenths(-t) ELSE Tenths(t)

\* What the page shows of a switch.
On(v) == IF v = OPEN THEN "ON" ELSE "OFF"

\* How many symbols of the j-th field may be new when the text is torn in the i-th.
Prefixes(i, j, length) == IF j < i THEN {length} ELSE IF j = i THEN 0..length ELSE {0}
=============================================================================
