-------------------------- MODULE Snapshot_proofs ---------------------------
(***************************************************************************)
(* What the operators of Sht3x and Snapshot compute: the checksum notices  *)
(* up to three wrong bits, the texts have their fields where the page      *)
(* looks for them, and the page decides on a text as the device does on    *)
(* the number.                                                             *)
(***************************************************************************)
EXTENDS Snapshot, WellFoundedInduction, TLAPS

-----------------------------------------------------------------------------
(* The checksum of the SHT3x notices up to three wrong bits.               *)

\* sht3x_read_singleshot notices up to three wrong bits in a half, keeps the old value
\* of that half and takes the new one of the other, whatever was measured.
LEMMA Containment ==
    \A m, old, i, j, k :
       m \in [1..4 -> Byte] /\ i \in 0..23 /\ j \in 0..23 /\ k \in 0..23 => Contained(old, m, {i, j, k})
\* A bit of the exclusive or is set where the two bytes differ.
<1>XorFacts.
      ASSUME NEW a \in Byte, NEW b \in Byte
      PROVE  /\ Xor(a, b) \in Byte
             /\ \A i : i \in Xor(a, b) <=> ~(i \in a <=> i \in b)
  BY DEF Xor, Byte
\* The laws of the exclusive or.
<1>XorLaws.
      ASSUME NEW a \in Byte, NEW b \in Byte, NEW c \in Byte
      PROVE  /\ Xor(a, Xor(b, c)) = Xor(Xor(a, b), c)
             /\ Xor(a, b) = Xor(b, a)
             /\ Xor(a, b) = a <=> b = {}
             /\ Xor(a, b) = Xor(a, c) <=> b = c
             /\ Xor(a, b) = {} <=> a = b
  BY ZenonT(20) DEF Xor, Byte
\* One turn of the inner loop of crc8, bit by bit.
<1>ShiftMember.
      ASSUME NEW c \in Byte
      PROVE  /\ Shift(c) \in Byte
             /\ 0 \in Shift(c) <=> 7 \in c
             /\ 1 \in Shift(c) <=> 0 \in c
             /\ 2 \in Shift(c) <=> 1 \in c
             /\ 3 \in Shift(c) <=> 2 \in c
             /\ 4 \in Shift(c) <=> ~(3 \in c <=> 7 \in c)
             /\ 5 \in Shift(c) <=> ~(4 \in c <=> 7 \in c)
             /\ 6 \in Shift(c) <=> 5 \in c
             /\ 7 \in Shift(c) <=> 6 \in c
  <2> DEFINE s == {i + 1 : i \in c \ {7}}
  <2>1. s \in Byte /\ CRC_POLY \in Byte
    BY DEF Byte, CRC_POLY
  <2>2. 0 \notin s /\ \A j \in 1..7 : j \in s <=> j - 1 \in c
    BY DEF Byte
  <2>3. Shift(c) = IF 7 \in c THEN Xor(s, CRC_POLY) ELSE s
    BY DEF Shift
  <2> HIDE DEF s
  <2>4. /\ 1 \in s <=> 0 \in c
        /\ 2 \in s <=> 1 \in c
        /\ 3 \in s <=> 2 \in c
        /\ 4 \in s <=> 3 \in c
        /\ 5 \in s <=> 4 \in c
        /\ 6 \in s <=> 5 \in c
        /\ 7 \in s <=> 6 \in c
    BY <2>2
  <2>5. CASE 7 \in c
    <3>1. Shift(c) \in Byte /\ \A i : i \in Shift(c) <=> ~(i \in s <=> i \in CRC_POLY)
      BY <2>1, <2>3, <2>5, <1>XorFacts
    <3>2. QED
      BY <3>1, <2>2, <2>4, <2>5 DEF CRC_POLY
  <2>6. CASE 7 \notin c
    BY <2>1, <2>2, <2>3, <2>4, <2>6
  <2>7. QED
    BY <2>5, <2>6
\* Bytes with the same bits are equal.
<1>SameBits.
      ASSUME NEW a \in Byte, NEW b \in Byte,
             0 \in a <=> 0 \in b, 1 \in a <=> 1 \in b, 2 \in a <=> 2 \in b, 3 \in a <=> 3 \in b,
             4 \in a <=> 4 \in b, 5 \in a <=> 5 \in b, 6 \in a <=> 6 \in b, 7 \in a <=> 7 \in b
      PROVE  a = b
  <2>1. \A i \in 0..7 : i \in a <=> i \in b
    BY <1>SameBits
  <2>2. QED
    BY ZenonT(20), <2>1 DEF Byte
\* A turn of the loop of the exclusive or is the exclusive or of the turns.
<1>ShiftLinear.
      ASSUME NEW a \in Byte, NEW b \in Byte
      PROVE  Shift(Xor(a, b)) = Xor(Shift(a), Shift(b))
  <2>1. Xor(a, b) \in Byte /\ Shift(a) \in Byte /\ Shift(b) \in Byte
    BY <1>XorFacts, <1>ShiftMember
  <2>2. Shift(Xor(a, b)) \in Byte /\ Xor(Shift(a), Shift(b)) \in Byte
    BY <2>1, <1>XorFacts, <1>ShiftMember
  <2> HIDE DEF Shift, Xor
  <2> DEFINE l == Shift(Xor(a, b))
             r == Xor(Shift(a), Shift(b))
  <2>3. 0 \in l <=> 0 \in r
    BY <2>1, <1>XorFacts, <1>ShiftMember
  <2>4. 1 \in l <=> 1 \in r
    BY <2>1, <1>XorFacts, <1>ShiftMember
  <2>5. 2 \in l <=> 2 \in r
    BY <2>1, <1>XorFacts, <1>ShiftMember
  <2>6. 3 \in l <=> 3 \in r
    BY <2>1, <1>XorFacts, <1>ShiftMember
  <2>7. 4 \in l <=> 4 \in r
    BY <2>1, <1>XorFacts, <1>ShiftMember
  <2>8. 5 \in l <=> 5 \in r
    BY <2>1, <1>XorFacts, <1>ShiftMember
  <2>9. 6 \in l <=> 6 \in r
    BY <2>1, <1>XorFacts, <1>ShiftMember
  <2>10. 7 \in l <=> 7 \in r
    BY <2>1, <1>XorFacts, <1>ShiftMember
  <2>11. QED
    BY <2>2, <2>3, <2>4, <2>5, <2>6, <2>7, <2>8, <2>9, <2>10, <1>SameBits
\* So are all eight turns.
<1>ShiftedLinear.
      ASSUME NEW a \in Byte, NEW b \in Byte
      PROVE  /\ Shifted(a) \in Byte
             /\ Shifted(Xor(a, b)) = Xor(Shifted(a), Shifted(b))
  <2> DEFINE Two(c) == Shift(Shift(c))
             Four(c) == Two(Two(c))
  <2>1. ASSUME NEW c \in Byte, NEW d \in Byte
        PROVE  Two(c) \in Byte /\ Two(Xor(c, d)) = Xor(Two(c), Two(d))
    <3>1. Shift(c) \in Byte /\ Shift(d) \in Byte
      BY <1>ShiftMember
    <3>2. Two(c) \in Byte
      BY <3>1, <1>ShiftMember
    <3>3. Shift(Xor(c, d)) = Xor(Shift(c), Shift(d))
      BY <1>ShiftLinear
    <3>4. Shift(Xor(Shift(c), Shift(d))) = Xor(Two(c), Two(d))
      BY <3>1, <1>ShiftLinear
    <3>5. QED
      BY <3>2, <3>3, <3>4
  <2>2. Shifted(a) = Four(Four(a)) /\ Shifted(b) = Four(Four(b))
    BY DEF Shifted
  <2>3. Shifted(Xor(a, b)) = Four(Four(Xor(a, b)))
    BY DEF Shifted
  <2> HIDE DEF Two
  <2>4. ASSUME NEW c \in Byte, NEW d \in Byte
        PROVE  Four(c) \in Byte /\ Four(Xor(c, d)) = Xor(Four(c), Four(d))
    <3>1. Two(c) \in Byte /\ Two(d) \in Byte
      BY <2>1
    <3>2. Four(c) \in Byte
      BY <3>1, <2>1
    <3>3. Two(Xor(c, d)) = Xor(Two(c), Two(d))
      BY <2>1
    <3>4. Two(Xor(Two(c), Two(d))) = Xor(Four(c), Four(d))
      BY <3>1, <2>1
    <3>5. QED
      BY <3>2, <3>3, <3>4
  <2> HIDE DEF Four
  <2>5. Four(a) \in Byte /\ Four(b) \in Byte
    BY <2>4
  <2>6. Four(Xor(a, b)) = Xor(Four(a), Four(b))
    BY <2>4
  <2>7. Four(Four(a)) \in Byte /\ Four(Xor(Four(a), Four(b))) = Xor(Four(Four(a)), Four(Four(b)))
    BY <2>4, <2>5
  <2>8. QED
    BY <2>2, <2>3, <2>6, <2>7
\* What the generator leaves of a single bit of a half, from the lowest to the highest.
<1> DEFINE Power == [i \in 0..23 |->
      <<{0}, {1}, {2}, {3}, {4}, {5}, {6}, {7},
        {0, 4, 5}, {1, 5, 6}, {2, 6, 7}, {0, 3, 4, 5, 7}, {0, 1, 6},
        {1, 2, 7}, {0, 2, 3, 4, 5}, {1, 3, 4, 5, 6}, {2, 4, 5, 6, 7},
        {0, 3, 4, 6, 7}, {0, 1, 7}, {0, 1, 2, 4, 5}, {1, 2, 3, 5, 6},
        {2, 3, 4, 6, 7}, {0, 3, 7}, {0, 1, 5}>>[i + 1]]
<1> HIDE DEF Power
\* A turn of the loop leads from each of them to the next.
<1>Shifts.
      /\ Shift({0}) = {1}
      /\ Shift({1}) = {2}
      /\ Shift({2}) = {3}
      /\ Shift({3}) = {4}
      /\ Shift({4}) = {5}
      /\ Shift({5}) = {6}
      /\ Shift({6}) = {7}
      /\ Shift({7}) = {0, 4, 5}
      /\ Shift({0, 4, 5}) = {1, 5, 6}
      /\ Shift({1, 5, 6}) = {2, 6, 7}
      /\ Shift({2, 6, 7}) = {0, 3, 4, 5, 7}
      /\ Shift({0, 3, 4, 5, 7}) = {0, 1, 6}
      /\ Shift({0, 1, 6}) = {1, 2, 7}
      /\ Shift({1, 2, 7}) = {0, 2, 3, 4, 5}
      /\ Shift({0, 2, 3, 4, 5}) = {1, 3, 4, 5, 6}
      /\ Shift({1, 3, 4, 5, 6}) = {2, 4, 5, 6, 7}
      /\ Shift({2, 4, 5, 6, 7}) = {0, 3, 4, 6, 7}
      /\ Shift({0, 3, 4, 6, 7}) = {0, 1, 7}
      /\ Shift({0, 1, 7}) = {0, 1, 2, 4, 5}
      /\ Shift({0, 1, 2, 4, 5}) = {1, 2, 3, 5, 6}
      /\ Shift({1, 2, 3, 5, 6}) = {2, 3, 4, 6, 7}
      /\ Shift({2, 3, 4, 6, 7}) = {0, 3, 7}
      /\ Shift({0, 3, 7}) = {0, 1, 5}
  <2>1. Shift({0}) = {1}
    <3>1. {0} \in Byte /\ {1} \in Byte
      BY DEF Byte
    <3>2. QED
      BY <3>1, <1>ShiftMember, <1>SameBits
  <2>2. Shift({1}) = {2}
    <3>1. {1} \in Byte /\ {2} \in Byte
      BY DEF Byte
    <3>2. QED
      BY <3>1, <1>ShiftMember, <1>SameBits
  <2>3. Shift({2}) = {3}
    <3>1. {2} \in Byte /\ {3} \in Byte
      BY DEF Byte
    <3>2. QED
      BY <3>1, <1>ShiftMember, <1>SameBits
  <2>4. Shift({3}) = {4}
    <3>1. {3} \in Byte /\ {4} \in Byte
      BY DEF Byte
    <3>2. QED
      BY <3>1, <1>ShiftMember, <1>SameBits
  <2>5. Shift({4}) = {5}
    <3>1. {4} \in Byte /\ {5} \in Byte
      BY DEF Byte
    <3>2. QED
      BY <3>1, <1>ShiftMember, <1>SameBits
  <2>6. Shift({5}) = {6}
    <3>1. {5} \in Byte /\ {6} \in Byte
      BY DEF Byte
    <3>2. QED
      BY <3>1, <1>ShiftMember, <1>SameBits
  <2>7. Shift({6}) = {7}
    <3>1. {6} \in Byte /\ {7} \in Byte
      BY DEF Byte
    <3>2. QED
      BY <3>1, <1>ShiftMember, <1>SameBits
  <2>8. Shift({7}) = {0, 4, 5}
    <3>1. {7} \in Byte /\ {0, 4, 5} \in Byte
      BY DEF Byte
    <3>2. QED
      BY <3>1, <1>ShiftMember, <1>SameBits
  <2>9. Shift({0, 4, 5}) = {1, 5, 6}
    <3>1. {0, 4, 5} \in Byte /\ {1, 5, 6} \in Byte
      BY DEF Byte
    <3>2. QED
      BY <3>1, <1>ShiftMember, <1>SameBits
  <2>10. Shift({1, 5, 6}) = {2, 6, 7}
    <3>1. {1, 5, 6} \in Byte /\ {2, 6, 7} \in Byte
      BY DEF Byte
    <3>2. QED
      BY <3>1, <1>ShiftMember, <1>SameBits
  <2>11. Shift({2, 6, 7}) = {0, 3, 4, 5, 7}
    <3>1. {2, 6, 7} \in Byte /\ {0, 3, 4, 5, 7} \in Byte
      BY DEF Byte
    <3>2. QED
      BY <3>1, <1>ShiftMember, <1>SameBits
  <2>12. Shift({0, 3, 4, 5, 7}) = {0, 1, 6}
    <3>1. {0, 3, 4, 5, 7} \in Byte /\ {0, 1, 6} \in Byte
      BY DEF Byte
    <3>2. QED
      BY <3>1, <1>ShiftMember, <1>SameBits
  <2>13. Shift({0, 1, 6}) = {1, 2, 7}
    <3>1. {0, 1, 6} \in Byte /\ {1, 2, 7} \in Byte
      BY DEF Byte
    <3>2. QED
      BY <3>1, <1>ShiftMember, <1>SameBits
  <2>14. Shift({1, 2, 7}) = {0, 2, 3, 4, 5}
    <3>1. {1, 2, 7} \in Byte /\ {0, 2, 3, 4, 5} \in Byte
      BY DEF Byte
    <3>2. QED
      BY <3>1, <1>ShiftMember, <1>SameBits
  <2>15. Shift({0, 2, 3, 4, 5}) = {1, 3, 4, 5, 6}
    <3>1. {0, 2, 3, 4, 5} \in Byte /\ {1, 3, 4, 5, 6} \in Byte
      BY DEF Byte
    <3>2. QED
      BY <3>1, <1>ShiftMember, <1>SameBits
  <2>16. Shift({1, 3, 4, 5, 6}) = {2, 4, 5, 6, 7}
    <3>1. {1, 3, 4, 5, 6} \in Byte /\ {2, 4, 5, 6, 7} \in Byte
      BY DEF Byte
    <3>2. QED
      BY <3>1, <1>ShiftMember, <1>SameBits
  <2>17. Shift({2, 4, 5, 6, 7}) = {0, 3, 4, 6, 7}
    <3>1. {2, 4, 5, 6, 7} \in Byte /\ {0, 3, 4, 6, 7} \in Byte
      BY DEF Byte
    <3>2. QED
      BY <3>1, <1>ShiftMember, <1>SameBits
  <2>18. Shift({0, 3, 4, 6, 7}) = {0, 1, 7}
    <3>1. {0, 3, 4, 6, 7} \in Byte /\ {0, 1, 7} \in Byte
      BY DEF Byte
    <3>2. QED
      BY <3>1, <1>ShiftMember, <1>SameBits
  <2>19. Shift({0, 1, 7}) = {0, 1, 2, 4, 5}
    <3>1. {0, 1, 7} \in Byte /\ {0, 1, 2, 4, 5} \in Byte
      BY DEF Byte
    <3>2. QED
      BY <3>1, <1>ShiftMember, <1>SameBits
  <2>20. Shift({0, 1, 2, 4, 5}) = {1, 2, 3, 5, 6}
    <3>1. {0, 1, 2, 4, 5} \in Byte /\ {1, 2, 3, 5, 6} \in Byte
      BY DEF Byte
    <3>2. QED
      BY <3>1, <1>ShiftMember, <1>SameBits
  <2>21. Shift({1, 2, 3, 5, 6}) = {2, 3, 4, 6, 7}
    <3>1. {1, 2, 3, 5, 6} \in Byte /\ {2, 3, 4, 6, 7} \in Byte
      BY DEF Byte
    <3>2. QED
      BY <3>1, <1>ShiftMember, <1>SameBits
  <2>22. Shift({2, 3, 4, 6, 7}) = {0, 3, 7}
    <3>1. {2, 3, 4, 6, 7} \in Byte /\ {0, 3, 7} \in Byte
      BY DEF Byte
    <3>2. QED
      BY <3>1, <1>ShiftMember, <1>SameBits
  <2>23. Shift({0, 3, 7}) = {0, 1, 5}
    <3>1. {0, 3, 7} \in Byte /\ {0, 1, 5} \in Byte
      BY DEF Byte
    <3>2. QED
      BY <3>1, <1>ShiftMember, <1>SameBits
  <2>24. QED
    BY <2>1, <2>2, <2>3, <2>4, <2>5, <2>6, <2>7, <2>8, <2>9, <2>10, <2>11, <2>12, <2>13, <2>14,
       <2>15, <2>16, <2>17, <2>18, <2>19, <2>20, <2>21, <2>22, <2>23
\* The values of Power, one by one.
<1>PowerValues.
      /\ Power[0] = {0}
      /\ Power[1] = {1}
      /\ Power[2] = {2}
      /\ Power[3] = {3}
      /\ Power[4] = {4}
      /\ Power[5] = {5}
      /\ Power[6] = {6}
      /\ Power[7] = {7}
      /\ Power[8] = {0, 4, 5}
      /\ Power[9] = {1, 5, 6}
      /\ Power[10] = {2, 6, 7}
      /\ Power[11] = {0, 3, 4, 5, 7}
      /\ Power[12] = {0, 1, 6}
      /\ Power[13] = {1, 2, 7}
      /\ Power[14] = {0, 2, 3, 4, 5}
      /\ Power[15] = {1, 3, 4, 5, 6}
      /\ Power[16] = {2, 4, 5, 6, 7}
      /\ Power[17] = {0, 3, 4, 6, 7}
      /\ Power[18] = {0, 1, 7}
      /\ Power[19] = {0, 1, 2, 4, 5}
      /\ Power[20] = {1, 2, 3, 5, 6}
      /\ Power[21] = {2, 3, 4, 6, 7}
      /\ Power[22] = {0, 3, 7}
      /\ Power[23] = {0, 1, 5}
  <2>1. Power[0] = {0}
    BY DEF Power
  <2>2. Power[1] = {1}
    BY DEF Power
  <2>3. Power[2] = {2}
    BY DEF Power
  <2>4. Power[3] = {3}
    BY DEF Power
  <2>5. Power[4] = {4}
    BY DEF Power
  <2>6. Power[5] = {5}
    BY DEF Power
  <2>7. Power[6] = {6}
    BY DEF Power
  <2>8. Power[7] = {7}
    BY DEF Power
  <2>9. Power[8] = {0, 4, 5}
    BY DEF Power
  <2>10. Power[9] = {1, 5, 6}
    BY DEF Power
  <2>11. Power[10] = {2, 6, 7}
    BY DEF Power
  <2>12. Power[11] = {0, 3, 4, 5, 7}
    BY DEF Power
  <2>13. Power[12] = {0, 1, 6}
    BY DEF Power
  <2>14. Power[13] = {1, 2, 7}
    BY DEF Power
  <2>15. Power[14] = {0, 2, 3, 4, 5}
    BY DEF Power
  <2>16. Power[15] = {1, 3, 4, 5, 6}
    BY DEF Power
  <2>17. Power[16] = {2, 4, 5, 6, 7}
    BY DEF Power
  <2>18. Power[17] = {0, 3, 4, 6, 7}
    BY DEF Power
  <2>19. Power[18] = {0, 1, 7}
    BY DEF Power
  <2>20. Power[19] = {0, 1, 2, 4, 5}
    BY DEF Power
  <2>21. Power[20] = {1, 2, 3, 5, 6}
    BY DEF Power
  <2>22. Power[21] = {2, 3, 4, 6, 7}
    BY DEF Power
  <2>23. Power[22] = {0, 3, 7}
    BY DEF Power
  <2>24. Power[23] = {0, 1, 5}
    BY DEF Power
  <2>25. QED
    BY <2>1, <2>2, <2>3, <2>4, <2>5, <2>6, <2>7, <2>8, <2>9, <2>10, <2>11, <2>12, <2>13, <2>14,
       <2>15, <2>16, <2>17, <2>18, <2>19, <2>20, <2>21, <2>22, <2>23, <2>24
\* Power has bytes, of which each follows from the one before by a turn of the loop.
<1>PowerFacts.
      /\ \A i \in 0..23 : Power[i] \in Byte /\ Power[i] # {}
      /\ \A i \in 0..7 : Power[i] = {i}
      /\ \A i \in 0..22 : Power[i + 1] = Shift(Power[i])
  <2>1. \A i \in 0..23 : Power[i] \in Byte /\ Power[i] # {}
    BY DEF Power, Byte
  <2>2. \A i \in 0..7 : Power[i] = {i}
    BY DEF Power
  <2>3. ASSUME NEW i \in 0..22 PROVE Power[i + 1] = Shift(Power[i])
    <3>0. Power[1] = Shift(Power[0])
      BY <1>PowerValues, <1>Shifts
    <3>1. Power[2] = Shift(Power[1])
      BY <1>PowerValues, <1>Shifts
    <3>2. Power[3] = Shift(Power[2])
      BY <1>PowerValues, <1>Shifts
    <3>3. Power[4] = Shift(Power[3])
      BY <1>PowerValues, <1>Shifts
    <3>4. Power[5] = Shift(Power[4])
      BY <1>PowerValues, <1>Shifts
    <3>5. Power[6] = Shift(Power[5])
      BY <1>PowerValues, <1>Shifts
    <3>6. Power[7] = Shift(Power[6])
      BY <1>PowerValues, <1>Shifts
    <3>7. Power[8] = Shift(Power[7])
      BY <1>PowerValues, <1>Shifts
    <3>8. Power[9] = Shift(Power[8])
      BY <1>PowerValues, <1>Shifts
    <3>9. Power[10] = Shift(Power[9])
      BY <1>PowerValues, <1>Shifts
    <3>10. Power[11] = Shift(Power[10])
      BY <1>PowerValues, <1>Shifts
    <3>11. Power[12] = Shift(Power[11])
      BY <1>PowerValues, <1>Shifts
    <3>12. Power[13] = Shift(Power[12])
      BY <1>PowerValues, <1>Shifts
    <3>13. Power[14] = Shift(Power[13])
      BY <1>PowerValues, <1>Shifts
    <3>14. Power[15] = Shift(Power[14])
      BY <1>PowerValues, <1>Shifts
    <3>15. Power[16] = Shift(Power[15])
      BY <1>PowerValues, <1>Shifts
    <3>16. Power[17] = Shift(Power[16])
      BY <1>PowerValues, <1>Shifts
    <3>17. Power[18] = Shift(Power[17])
      BY <1>PowerValues, <1>Shifts
    <3>18. Power[19] = Shift(Power[18])
      BY <1>PowerValues, <1>Shifts
    <3>19. Power[20] = Shift(Power[19])
      BY <1>PowerValues, <1>Shifts
    <3>20. Power[21] = Shift(Power[20])
      BY <1>PowerValues, <1>Shifts
    <3>21. Power[22] = Shift(Power[21])
      BY <1>PowerValues, <1>Shifts
    <3>22. Power[23] = Shift(Power[22])
      BY <1>PowerValues, <1>Shifts
    <3>23. QED
      BY <3>0, <3>1, <3>2, <3>3, <3>4, <3>5, <3>6, <3>7, <3>8, <3>9, <3>10, <3>11, <3>12, <3>13,
         <3>14, <3>15, <3>16, <3>17, <3>18, <3>19, <3>20, <3>21, <3>22
  <2>4. QED
    BY <2>1, <2>2, <2>3
\* No two single bits leave the same: two wrong bits are noticed.
<1>PowersDiffer.
      ASSUME NEW i \in 0..23, NEW j \in 0..23, i # j
      PROVE  Power[i] # Power[j]
  BY <1>PowersDiffer DEF Power
\* The number of bits set is even.
<1> DEFINE Even(c) == ((((((((0 \in c) <=> (1 \in c)) <=> (2 \in c)) <=> (3 \in c)) <=> (4 \in c))
                 <=> (5 \in c)) <=> (6 \in c)) <=> (7 \in c))
<1> HIDE DEF Even
\* Parity of an exclusive or.
<1>EvenXor.
      ASSUME NEW a \in Byte, NEW b \in Byte
      PROVE  Even(Xor(a, b)) <=> (Even(a) <=> Even(b))
  BY <1>XorFacts DEF Even
\* The wrong bits of one byte of a half; the last byte has the number 0.
\* What the wrong bits do to the comparison of the checksum.
<1> DEFINE Part(e, k) == {i \in 0..7 : 8 * k + i \in e}
  Syndrome(e) == Xor(Shifted(Xor(Shifted(Part(e, 2)), Part(e, 1))), Part(e, 0))
<1> HIDE DEF Part
\* The wrong bits of a byte are a byte, and Part is linear.
<1>PartFacts.
      ASSUME NEW e, NEW f, NEW k \in 0..2
      PROVE  Part(e, k) \in Byte /\ Part(Xor(e, f), k) = Xor(Part(e, k), Part(f, k))
  BY DEF Part, Byte, Xor
\* Four bytes in another order.
<1>Regroup.
      ASSUME NEW a \in Byte, NEW b \in Byte, NEW c \in Byte, NEW d \in Byte
      PROVE  Xor(Xor(a, b), Xor(c, d)) = Xor(Xor(a, c), Xor(b, d))
  BY DEF Xor, Byte
\* The syndrome of the exclusive or is the exclusive or of the syndromes.
<1>SyndromeLinear.
      ASSUME NEW e, NEW f
      PROVE  Syndrome(e) \in Byte /\ Syndrome(Xor(e, f)) = Xor(Syndrome(e), Syndrome(f))
  <2> DEFINE e0 == Part(e, 0)  e1 == Part(e, 1)  e2 == Part(e, 2)
             f0 == Part(f, 0)  f1 == Part(f, 1)  f2 == Part(f, 2)
  <2>1. /\ e0 \in Byte /\ e1 \in Byte /\ e2 \in Byte
        /\ f0 \in Byte /\ f1 \in Byte /\ f2 \in Byte
    BY <1>PartFacts
  <2>2. /\ Part(Xor(e, f), 0) = Xor(e0, f0)
        /\ Part(Xor(e, f), 1) = Xor(e1, f1)
        /\ Part(Xor(e, f), 2) = Xor(e2, f2)
    BY <1>PartFacts
  <2> HIDE DEF e0, e1, e2, f0, f1, f2
  <2>3. /\ Shifted(e2) \in Byte /\ Shifted(f2) \in Byte
        /\ Shifted(Xor(e2, f2)) = Xor(Shifted(e2), Shifted(f2))
    BY <2>1, <1>ShiftedLinear
  <2> DEFINE g == Xor(Shifted(e2), e1)  h == Xor(Shifted(f2), f1)
  <2>4. g \in Byte /\ h \in Byte /\ Xor(Xor(Shifted(e2), Shifted(f2)), Xor(e1, f1)) = Xor(g, h)
    BY <2>1, <2>3, <1>XorFacts, <1>Regroup
  <2> HIDE DEF g, h
  <2>5. /\ Shifted(g) \in Byte /\ Shifted(h) \in Byte
        /\ Shifted(Xor(g, h)) = Xor(Shifted(g), Shifted(h))
    BY <2>4, <1>ShiftedLinear
  <2>6. Xor(Xor(Shifted(g), Shifted(h)), Xor(e0, f0)) = Xor(Xor(Shifted(g), e0), Xor(Shifted(h), f0))
    BY <2>1, <2>5, <1>Regroup
  <2>7. Syndrome(e) = Xor(Shifted(g), e0) /\ Syndrome(f) = Xor(Shifted(h), f0)
    BY DEF Syndrome, g, h, e0, e1, e2, f0, f1, f2
  <2>8. Syndrome(Xor(e, f)) = Xor(Shifted(Xor(Xor(Shifted(e2), Shifted(f2)), Xor(e1, f1))), Xor(e0, f0))
    BY <2>2, <2>3 DEF Syndrome
  <2>9. Syndrome(e) \in Byte
    BY <2>1, <2>5, <2>7, <1>XorFacts
  <2>10. QED
    BY <2>4, <2>5, <2>6, <2>7, <2>8, <2>9
\* Eight turns of the loop lead eight powers further.
<1>ShiftedPower.
      ASSUME NEW i \in 0..15
      PROVE  Shifted(Power[i]) = Power[i + 8]
  <2>1. /\ i \in 0..22 /\ i + 1 \in 0..22 /\ i + 2 \in 0..22 /\ i + 3 \in 0..22
        /\ i + 4 \in 0..22 /\ i + 5 \in 0..22 /\ i + 6 \in 0..22 /\ i + 7 \in 0..22
        /\ (i + 1) + 1 = i + 2 /\ (i + 2) + 1 = i + 3 /\ (i + 3) + 1 = i + 4
        /\ (i + 4) + 1 = i + 5 /\ (i + 5) + 1 = i + 6 /\ (i + 6) + 1 = i + 7
        /\ (i + 7) + 1 = i + 8
    OBVIOUS
  <2>2. /\ Power[i + 1] = Shift(Power[i]) /\ Power[i + 2] = Shift(Power[i + 1])
        /\ Power[i + 3] = Shift(Power[i + 2]) /\ Power[i + 4] = Shift(Power[i + 3])
        /\ Power[i + 5] = Shift(Power[i + 4]) /\ Power[i + 6] = Shift(Power[i + 5])
        /\ Power[i + 7] = Shift(Power[i + 6]) /\ Power[i + 8] = Shift(Power[i + 7])
    BY <2>1, <1>PowerFacts
  <2>3. QED
    BY <2>2 DEF Shifted
\* No bits stay no bits.
<1>ShiftedEmpty. Shifted({}) = {}
  <2>1. {} \in Byte
    BY DEF Byte
  <2>2. Shift({}) = {}
    BY <2>1, <1>ShiftMember, <1>SameBits
  <2>3. QED
    BY <2>2 DEF Shifted
\* The syndrome of one wrong bit is its power.
<1>SyndromeOfOne.
      ASSUME NEW i \in 0..23
      PROVE  Syndrome({i}) = Power[i]
  <2>0. /\ \A b \in Byte : Xor({}, b) = b /\ Xor(b, {}) = b
        /\ {} \in Byte
    BY DEF Xor, Byte
  <2>1. CASE i \in 0..7
    <3>1. Part({i}, 2) = {} /\ Part({i}, 1) = {} /\ Part({i}, 0) = {i}
      BY <2>1 DEF Part
    <3>2. {i} = Power[i] /\ Power[i] \in Byte
      BY <2>1, <1>PowerFacts
    <3>3. Syndrome({i}) = Xor(Shifted(Xor(Shifted({}), {})), {i})
      BY <3>1 DEF Syndrome
    <3>4. QED
      BY <2>0, <3>2, <3>3, <1>ShiftedEmpty
  <2>2. CASE i \in 8..15
    <3>1. Part({i}, 2) = {} /\ Part({i}, 1) = {i - 8} /\ Part({i}, 0) = {}
      BY <2>2 DEF Part
    <3>2. {i - 8} = Power[i - 8] /\ Power[i - 8] \in Byte /\ Shifted(Power[i - 8]) = Power[(i - 8) + 8]
      BY <2>2, <1>PowerFacts, <1>ShiftedPower
    <3>3. Power[i] \in Byte /\ (i - 8) + 8 = i
      BY <1>PowerFacts
    <3>4. Syndrome({i}) = Xor(Shifted(Xor(Shifted({}), {i - 8})), {})
      BY <3>1 DEF Syndrome
    <3>5. QED
      BY <2>0, <3>2, <3>3, <3>4, <1>ShiftedEmpty
  <2>3. CASE i \in 16..23
    <3>1. Part({i}, 2) = {i - 16} /\ Part({i}, 1) = {} /\ Part({i}, 0) = {}
      BY <2>3 DEF Part
    <3>2. /\ {i - 16} = Power[i - 16] /\ Power[i - 16] \in Byte
          /\ Shifted(Power[i - 16]) = Power[i - 8] /\ Shifted(Power[i - 8]) = Power[i]
          /\ Power[i - 8] \in Byte /\ Power[i] \in Byte
      <4>1. i - 16 \in 0..7 /\ i - 16 \in 0..15 /\ i - 8 \in 0..15 /\ (i - 16) + 8 = i - 8 /\ (i - 8) + 8 = i
        BY <2>3
      <4>2. QED
        BY <4>1, <1>PowerFacts, <1>ShiftedPower
    <3>3. Syndrome({i}) = Xor(Shifted(Xor(Shifted({i - 16}), {})), {})
      BY ZenonT(20), <3>1 DEF Syndrome
    <3>4. QED
      BY <2>0, <3>2, <3>3
  <2>4. QED
    BY <2>1, <2>2, <2>3
\* The powers are odd: three wrong bits are noticed.
<1>OddPower.
      ASSUME NEW i \in 0..23
      PROVE  ~Even(Power[i])
  BY DEF Even, Power
\* One, two or three wrong bits have a syndrome.
<1>Detects.
      ASSUME NEW i \in 0..23, NEW j \in 0..23, NEW k \in 0..23, NEW bits, bits = {i, j, k}
      PROVE  Syndrome(bits) # {}
  <2>1. ASSUME NEW u \in 0..23, NEW v \in 0..23, u # v, bits = {u, v}
        PROVE  Syndrome(bits) # {}
    <3>1. bits = Xor({u}, {v})
      BY <2>1 DEF Xor
    <3>2. Syndrome(bits) = Xor(Power[u], Power[v])
      <4>1. Syndrome(Xor({u}, {v})) = Xor(Syndrome({u}), Syndrome({v}))
        BY <1>SyndromeLinear
      <4>2. QED
        BY ZenonT(20), <3>1, <4>1, <1>SyndromeOfOne
    <3>3. Power[u] # Power[v] /\ Power[u] \in Byte /\ Power[v] \in Byte
      BY <2>1, <1>PowersDiffer, <1>PowerFacts
    <3>4. Xor(Power[u], Power[v]) # {}
      BY ZenonT(20), <3>3 DEF Xor
    <3>5. QED
      BY <3>2, <3>4, Zenon
  <2>2. CASE i # j /\ j # k /\ i # k
    <3>1. bits = Xor(Xor({i}, {j}), {k})
      BY <1>Detects, <2>2 DEF Xor
    <3>2. /\ Power[i] \in Byte /\ Power[j] \in Byte /\ Power[k] \in Byte
          /\ ~Even(Power[i]) /\ ~Even(Power[j]) /\ ~Even(Power[k])
      BY <1>PowerFacts, <1>OddPower
    <3>3. Syndrome(bits) = Xor(Xor(Power[i], Power[j]), Power[k])
      <4>1. /\ Syndrome(Xor({i}, {j})) = Xor(Syndrome({i}), Syndrome({j}))
            /\ Syndrome(Xor(Xor({i}, {j}), {k})) = Xor(Syndrome(Xor({i}, {j})), Syndrome({k}))
        BY <1>SyndromeLinear
      <4>2. QED
        BY ZenonT(20), <3>1, <4>1, <1>SyndromeOfOne
    <3>4. Xor(Power[i], Power[j]) \in Byte /\ Even(Xor(Power[i], Power[j]))
      BY ZenonT(20), <3>2, <1>EvenXor, <1>XorFacts
    <3>5. ~Even(Syndrome(bits))
      BY <3>2, <3>3, <3>4, <1>EvenXor
    <3>6. Even({})
      BY DEF Even
    <3>7. QED
      BY <3>5, <3>6
  <2>3. CASE i = j /\ j = k
    <3>1. bits = {i}
      BY <1>Detects, <2>3
    <3>2. Syndrome({i}) # {}
      BY ZenonT(20), <1>SyndromeOfOne, <1>PowerFacts
    <3>3. QED
      BY <3>1, <3>2, Zenon
  <2>4. CASE i = j /\ j # k
    <3>1. bits = {j, k}
      BY <1>Detects, <2>4
    <3>2. QED
      BY ZenonT(20), <2>1, <2>4, <3>1
  <2>5. CASE j = k /\ i # j
    <3>1. bits = {i, j}
      BY <1>Detects, <2>5
    <3>2. QED
      BY ZenonT(20), <2>1, <2>5, <3>1
  <2>6. CASE i = k /\ i # j
    <3>1. bits = {i, j}
      BY <1>Detects, <2>6
    <3>2. QED
      BY ZenonT(20), <2>1, <2>6, <3>1
  <2>7. QED
    BY <2>2, <2>3, <2>4, <2>5, <2>6
\* The comparison of crc8 with the third byte accepts a half exactly if the wrong bits
\* have no syndrome.
<1>Accepts.
      ASSUME NEW b1 \in Byte, NEW b2 \in Byte, NEW bits
      PROVE  /\ crc8(b1, b2) \in Byte
             /\ crc8(Xor(b1, Part(bits, 2)), Xor(b2, Part(bits, 1))) =
                   Xor(crc8(b1, b2), Part(bits, 0)) <=> Syndrome(bits) = {}
  <2> DEFINE e1 == Part(bits, 2)  e2 == Part(bits, 1)  e3 == Part(bits, 0)
  <2>1. e1 \in Byte /\ e2 \in Byte /\ e3 \in Byte
    BY <1>PartFacts
  <2>2. Syndrome(bits) = Xor(Shifted(Xor(Shifted(e1), e2)), e3)
    BY DEF Syndrome
  <2> HIDE DEF e1, e2, e3
  <2>3. 0..7 \in Byte
    BY DEF Byte
  <2> DEFINE c1 == Shifted(Xor(0..7, b1))  c2 == Xor(c1, b2)
             d1 == Shifted(e1)  d2 == Xor(d1, e2)
  <2>4. Xor(0..7, b1) \in Byte /\ Xor(0..7, Xor(b1, e1)) = Xor(Xor(0..7, b1), e1)
    BY <2>1, <2>3, <1>XorFacts, <1>XorLaws
  <2>5. /\ c1 \in Byte /\ d1 \in Byte
        /\ Shifted(Xor(0..7, Xor(b1, e1))) = Xor(c1, d1)
    BY <2>1, <2>4, <1>ShiftedLinear
  <2>6. crc8(b1, b2) = Shifted(c2)
    BY DEF crc8
  <2>7. crc8(Xor(b1, e1), Xor(b2, e2)) = Shifted(Xor(Xor(c1, d1), Xor(b2, e2)))
    BY <2>5 DEF crc8
  <2> HIDE DEF c1, d1
  <2>8. /\ c2 \in Byte /\ d2 \in Byte
        /\ Xor(Xor(c1, d1), Xor(b2, e2)) = Xor(c2, d2)
    BY <2>1, <2>5, <1>XorFacts, <1>Regroup
  <2> HIDE DEF c2, d2
  <2>9. /\ Shifted(c2) \in Byte /\ Shifted(d2) \in Byte
        /\ Shifted(Xor(c2, d2)) = Xor(Shifted(c2), Shifted(d2))
    BY <2>8, <1>ShiftedLinear
  <2>10. Xor(Shifted(c2), Shifted(d2)) = Xor(Shifted(c2), e3) <=> Xor(Shifted(d2), e3) = {}
    BY <2>1, <2>9, <1>XorLaws
  <2>11. Syndrome(bits) = Xor(Shifted(d2), e3)
    BY <2>2 DEF d1, d2
  <2>12. /\ crc8(b1, b2) \in Byte
         /\ crc8(Xor(b1, e1), Xor(b2, e2)) = Xor(crc8(b1, b2), e3) <=> Syndrome(bits) = {}
    BY <2>6, <2>7, <2>8, <2>9, <2>10, <2>11
  <2>13. QED
    BY <2>12 DEF e1, e2, e3
\* The six bytes of a reading.
<1>SentFacts.
      ASSUME NEW m \in [1..4 -> Byte]
      PROVE  /\ m[1] \in Byte /\ m[2] \in Byte /\ m[3] \in Byte /\ m[4] \in Byte
             /\ Sent(m)[1] = m[1] /\ Sent(m)[2] = m[2] /\ Sent(m)[3] = crc8(m[1], m[2])
             /\ Sent(m)[4] = m[3] /\ Sent(m)[5] = m[4] /\ Sent(m)[6] = crc8(m[3], m[4])
             /\ \A p \in 1..6 : Sent(m)[p] \in Byte
  <2>1. m[1] \in Byte /\ m[2] \in Byte /\ m[3] \in Byte /\ m[4] \in Byte
    OBVIOUS
  <2>2. crc8(m[1], m[2]) \in Byte /\ crc8(m[3], m[4]) \in Byte
    BY <2>1, <1>Accepts
  <2>3. QED
    BY <2>1, <2>2 DEF Sent
\* Which of them wrong bits of a half spoil.
<1>DamagedFacts.
      ASSUME NEW m \in [1..4 -> Byte], NEW first \in {1, 4}, NEW bits \in SUBSET (0..23)
      PROVE  LET d == Damaged(m, first, bits)
                 s == Sent(m)
             IN  /\ d[first] = Xor(s[first], Part(bits, 2))
                 /\ d[first + 1] = Xor(s[first + 1], Part(bits, 1))
                 /\ d[first + 2] = Xor(s[first + 2], Part(bits, 0))
                 /\ \A p \in 1..6 : p \notin first..(first + 2) => d[p] = s[p]
  <2> DEFINE s == Sent(m)
  <2>1. \A p \in 1..6 : Damaged(m, first, bits)[p] = Xor(s[p], Part(bits, first + 2 - p))
    BY DEF Damaged, Part
  <2>2. \A p \in 1..6 : s[p] \in Byte
    BY <1>SentFacts
  <2>3. \A p \in 1..6 : p \notin first..(first + 2) => Part(bits, first + 2 - p) = {}
    <3> TAKE p \in 1..6
    <3> HAVE p \notin first..(first + 2)
    <3>1. first + 2 - p < 0 \/ first + 2 - p > 2
      OBVIOUS
    <3>2. QED
      BY <3>1 DEF Part
  <2>4. \A b \in Byte : Xor(b, {}) = b
    BY DEF Byte, Xor
  <2> HIDE DEF s
  <2>5. \A p \in 1..6 : p \notin first..(first + 2) => Damaged(m, first, bits)[p] = s[p]
    BY ZenonT(20), <2>1, <2>2, <2>3, <2>4
  <2>6. /\ first \in 1..6 /\ first + 1 \in 1..6 /\ first + 2 \in 1..6
        /\ first + 2 - first = 2 /\ first + 2 - (first + 1) = 1 /\ first + 2 - (first + 2) = 0
    OBVIOUS
  <2>7. /\ Damaged(m, first, bits)[first] = Xor(s[first], Part(bits, 2))
        /\ Damaged(m, first, bits)[first + 1] = Xor(s[first + 1], Part(bits, 1))
        /\ Damaged(m, first, bits)[first + 2] = Xor(s[first + 2], Part(bits, 0))
    BY <2>1, <2>6
  <2>8. QED
    BY <2>5, <2>7 DEF s
<1>1. ASSUME NEW m \in [1..4 -> Byte], NEW old, NEW i \in 0..23, NEW j \in 0..23, NEW k \in 0..23
      PROVE  Contained(old, m, {i, j, k})
  <2> DEFINE bits == {i, j, k}
             s == Sent(m)
             d1 == Damaged(m, 1, bits)
             d4 == Damaged(m, 4, bits)
  <2>1. bits \in SUBSET (0..23) /\ Syndrome(bits) # {}
    BY ZenonT(20), <1>Detects
  <2>2. /\ s[1] \in Byte /\ s[2] \in Byte /\ s[4] \in Byte /\ s[5] \in Byte
        /\ crc8(s[1], s[2]) = s[3] /\ crc8(s[4], s[5]) = s[6]
    BY <1>SentFacts
  <2> HIDE DEF bits
  <2>3. /\ d1[1] = Xor(s[1], Part(bits, 2)) /\ d1[2] = Xor(s[2], Part(bits, 1))
        /\ d1[3] = Xor(s[3], Part(bits, 0)) /\ d1[4] = s[4] /\ d1[5] = s[5] /\ d1[6] = s[6]
    BY <2>1, <1>DamagedFacts
  <2>4. /\ d4[4] = Xor(s[4], Part(bits, 2)) /\ d4[5] = Xor(s[5], Part(bits, 1))
        /\ d4[6] = Xor(s[6], Part(bits, 0)) /\ d4[1] = s[1] /\ d4[2] = s[2] /\ d4[3] = s[3]
    BY <2>1, <1>DamagedFacts
  <2> HIDE DEF s, d1, d4
  <2>5. /\ crc8(d1[1], d1[2]) # d1[3] /\ crc8(d1[4], d1[5]) = d1[6]
        /\ crc8(d4[4], d4[5]) # d4[6] /\ crc8(d4[1], d4[2]) = d4[3]
    BY <2>1, <2>2, <2>3, <2>4, <1>Accepts
  <2> DEFINE new == sht3x_read_singleshot(old, TRUE, s)
  <2>6. /\ new.result = "RT_EOK"
        /\ new.temperature = Temperature(Word(s[1], s[2]))
        /\ new.humidity = Humidity(Word(s[4], s[5]))
    BY <2>2 DEF sht3x_read_singleshot
  <2>7. sht3x_read_singleshot(old, TRUE, d1) =
          [temperature |-> old.temperature, humidity |-> Humidity(Word(s[4], s[5])),
           result |-> "RT_ERROR"]
    BY <2>3, <2>5 DEF sht3x_read_singleshot
  <2>8. sht3x_read_singleshot(old, TRUE, d4) =
          [temperature |-> Temperature(Word(s[1], s[2])), humidity |-> old.humidity,
           result |-> "RT_ERROR"]
    BY <2>4, <2>5 DEF sht3x_read_singleshot
  <2>9. QED
    BY <2>6, <2>7, <2>8, Zenon DEF Contained, s, d1, d4, bits
<1>2. QED
  BY ZenonT(20), <1>1

-----------------------------------------------------------------------------
(* Induction over numbers, and the digits of a number.                     *)

\* A set of numbers has a least one.
LEMMA Least ==
    ASSUME NEW T, T \subseteq Nat, T # {}
    PROVE  \E m \in T : \A n \in T : m <= n
<1>1. PICK m \in T : \A n \in T : ~ (<<n, m>> \in OpToRel(<, Nat))
  BY WFMin, NatLessThanWellFounded, Zenon
<1>2. \A n \in T : ~ (n < m)
  BY ZenonT(20), <1>1 DEF OpToRel
<1>3. QED
  BY <1>2

\* Min finds it.
LEMMA MinFacts ==
    ASSUME NEW T, T \subseteq Nat, T # {}
    PROVE  Min(T) \in T /\ \A n \in T : Min(T) <= n
BY ZenonT(20), Least DEF Min

\* Induction: a set that has every number whose predecessors it has, has all numbers.
LEMMA Inductive ==
    ASSUME NEW S, \A n \in Nat : (\A m \in 0..(n - 1) : m \in S) => n \in S
    PROVE  Nat \subseteq S
<1>1. SUFFICES ASSUME Nat \ S # {} PROVE FALSE
  OBVIOUS
<1>2. PICK m \in Nat \ S : \A n \in Nat \ S : m <= n
  BY ZenonT(20), <1>1, Least
<1>3. \A n \in 0..(m - 1) : n \in S
  BY <1>2
<1>4. QED
  BY <1>2, <1>3

\* The body of Digits.
DigitsStep(d, n) ==
    IF n < 10 THEN <<Digit[n + 1]>> ELSE Append(d[n \div 10], Digit[(n % 10) + 1])

\* A number is ten times its quotient and its remainder.
LEMMA Tenth ==
    ASSUME NEW n \in Nat
    PROVE  /\ n \div 10 \in Nat /\ n % 10 \in 0..9 /\ n = 10 * (n \div 10) + (n % 10)
           /\ n >= 10 => n \div 10 < n /\ n \div 10 # 0
           /\ n < 10 => n \div 10 = 0 /\ n % 10 = n
OBVIOUS

\* The digits.
Numeral == {"0", "1", "2", "3", "4", "5", "6", "7", "8", "9"}
\* The symbols of all texts that the device writes.
Symbol == Numeral \cup {"-", ".", Sep, "\n", NUL, "D$S-A", "D$S-D", "DEVICE", "ONLINE!"}

\* A digit is no other symbol.
LEMMA NumeralFacts ==
    ASSUME NEW x \in Numeral
    PROVE  x \in Symbol /\ x # Sep /\ x # NUL /\ x # "-" /\ x # "." /\ x # "\n"
<1>1. x # Sep /\ x # NUL
  BY Zenon DEF Numeral, Sep, NUL
<1>2. x # "-" /\ x # "." /\ x # "\n" /\ x \in Symbol
  BY DEF Numeral, Symbol
<1>3. QED
  BY <1>1, <1>2

\* The separator is no other symbol.
LEMMA SepFacts ==
    /\ Sep # NUL /\ Sep # "-" /\ Sep # "." /\ Sep # "\n"
    /\ Sep # "D$S-A" /\ Sep # "D$S-D" /\ Sep # "ONLINE!" /\ Sep # "DEVICE"
BY Zenon DEF Sep, NUL

\* Nor is NUL.
LEMMA NulFacts ==
    NUL \notin {"-", ".", "\n", "D$S-A", "D$S-D", "ONLINE!", "DEVICE"}
BY DEF NUL

\* Digit has the ten digits, of which the first is "0".
LEMMA DigitFacts ==
    /\ \A i \in 0..9 : Digit[i + 1] \in Numeral
    /\ \A i \in 1..9 : Digit[i + 1] # "0"
    /\ Digit[1] = "0" /\ Digit[3] = "2" /\ Digit[4] = "3"
<1>1. \A i \in 0..9 : Digit[i + 1] \in Numeral
  BY DEF Digit, Numeral
<1>2. \A i \in 1..9 : Digit[i + 1] # "0"
  BY DEF Digit
<1>3. Digit[1] = "0" /\ Digit[3] = "2" /\ Digit[4] = "3"
  BY DEF Digit
<1>4. QED
  BY <1>1, <1>2, <1>3

\* DigitValue is the inverse of Digit.
LEMMA DigitValueFacts ==
    ASSUME NEW i \in 0..9
    PROVE  Digit[i + 1] \in DOMAIN DigitValue /\ DigitValue[Digit[i + 1]] = i
<1>1. \A n \in 0..9 : Digit[n + 1] = Digit[i + 1] => n = i
  BY DEF Digit
<1>2. Digit[i + 1] \in {Digit[j] : j \in 1..10}
  OBVIOUS
<1>3. (CHOOSE n \in 0..9 : Digit[n + 1] = Digit[i + 1]) = i
  BY <1>1
<1>4. QED
  BY <1>2, <1>3 DEF DigitValue

\* There is a function that satisfies the equation of Digits, since the quotient is less
\* than the number.
LEMMA DigitsExists ==
    \E d \in [Nat -> Seq(Numeral)] : d = [n \in Nat |-> DigitsStep(d, n)]
<1> DEFINE Ok(d, n) == d \in [0..n -> Seq(Numeral)] /\ \A i \in 0..n : d[i] = DigitsStep(d, i)
           S == {n \in Nat : \E d : Ok(d, n)}
<1>1. ASSUME NEW d, NEW n \in Nat, NEW D, 0..(n - 1) \subseteq D, d \in [D -> Seq(Numeral)]
      PROVE  DigitsStep(d, n) \in Seq(Numeral)
  <2>1. CASE n < 10
    <3>1. Digit[n + 1] \in Numeral
      BY <2>1, DigitFacts
    <3>2. DigitsStep(d, n) = <<Digit[n + 1]>>
      BY <2>1 DEF DigitsStep
    <3>3. QED
      BY <3>1, <3>2
  <2>2. CASE n >= 10
    <3>1. n \div 10 \in D
      BY <1>1, <2>2, Tenth
    <3>2. d[n \div 10] \in Seq(Numeral) /\ Digit[(n % 10) + 1] \in Numeral
      <4>1. n % 10 \in 0..9
        BY Tenth
      <4>2. QED
        BY <1>1, <3>1, <4>1, DigitFacts
    <3>3. DigitsStep(d, n) = Append(d[n \div 10], Digit[(n % 10) + 1])
      BY <2>2 DEF DigitsStep
    <3>4. QED
      BY <3>2, <3>3
  <2>3. QED
    BY <2>1, <2>2
<1>2. ASSUME NEW d, NEW e, NEW n \in Nat, n >= 10 => d[n \div 10] = e[n \div 10]
      PROVE  DigitsStep(d, n) = DigitsStep(e, n)
  BY <1>2 DEF DigitsStep
<1>3. ASSUME NEW n \in Nat, \A m \in 0..(n - 1) : m \in S
      PROVE  n \in S
  <2>1. \E d : d \in [0..(n - 1) -> Seq(Numeral)] /\ \A i \in 0..(n - 1) : d[i] = DigitsStep(d, i)
    <3>1. CASE n = 0
      <4>1. [i \in 0..(n - 1) |-> <<>>] \in [0..(n - 1) -> Seq(Numeral)] /\ 0..(n - 1) = {}
        BY <3>1
      <4>2. QED
        BY ZenonT(20), <4>1
    <3>2. CASE n > 0
      <4>1. n - 1 \in S
        <5>1. n - 1 \in 0..(n - 1)
          BY <3>2
        <5> HIDE DEF S
        <5>2. QED
          BY <1>3, <5>1
      <4>2. QED
        BY <4>1
    <3>3. QED
      BY <3>1, <3>2
  <2>2. PICK d : d \in [0..(n - 1) -> Seq(Numeral)] /\ \A i \in 0..(n - 1) : d[i] = DigitsStep(d, i)
    BY <2>1
  <2> DEFINE e == [i \in 0..n |-> IF i = n THEN DigitsStep(d, n) ELSE d[i]]
  <2>3. DigitsStep(d, n) \in Seq(Numeral)
    BY <1>1, <2>2
  <2>4. e \in [0..n -> Seq(Numeral)]
    BY <2>2, <2>3
  <2>5. \A i \in 0..(n - 1) : e[i] = d[i]
    OBVIOUS
  <2>6. e[n] = DigitsStep(d, n)
    OBVIOUS
  <2> HIDE DEF e
  <2>7. ASSUME NEW i \in 0..n PROVE e[i] = DigitsStep(e, i)
    <3>1. i >= 10 => i \div 10 \in 0..(n - 1)
      BY Tenth
    <3>2. DigitsStep(e, i) = DigitsStep(d, i)
      BY <1>2, <2>5, <3>1
    <3>3. QED
      BY <2>2, <2>5, <2>6, <3>2
  <2>8. QED
    BY <2>4, <2>7
<1>4. Nat \subseteq S
  <2> HIDE DEF S
  <2> QED BY <1>3, Inductive
<1>5. ASSUME NEW m \in Nat, NEW n \in Nat, NEW d, NEW e, Ok(d, m), Ok(e, n), m <= n
      PROVE  \A i \in 0..m : d[i] = e[i]
  <2> DEFINE U == {i \in Nat : i <= m => d[i] = e[i]}
  <2>1. ASSUME NEW i \in Nat, \A j \in 0..(i - 1) : j \in U
        PROVE  i \in U
    <3> SUFFICES ASSUME i <= m PROVE d[i] = e[i]
      OBVIOUS
    <3>1. i >= 10 => i \div 10 \in 0..(i - 1) /\ i \div 10 <= m
      BY Tenth
    <3>2. i >= 10 => d[i \div 10] = e[i \div 10]
      BY <2>1, <3>1
    <3>3. DigitsStep(d, i) = DigitsStep(e, i)
      BY <1>2, <3>2
    <3>4. d[i] = DigitsStep(d, i) /\ e[i] = DigitsStep(e, i)
      BY <1>5
    <3>5. QED
      BY <3>3, <3>4
  <2>2. Nat \subseteq U
    <3> HIDE DEF U
    <3> QED BY <2>1, Inductive
  <2>3. QED
    BY <2>2
<1> DEFINE F(n) == CHOOSE d : Ok(d, n)
           f == [n \in Nat |-> F(n)[n]]
<1>6. ASSUME NEW n \in Nat PROVE Ok(F(n), n)
  <2>1. \E d : Ok(d, n)
    BY ZenonT(20), <1>4
  <2> HIDE DEF Ok
  <2>2. QED
    BY <2>1
<1> HIDE DEF F
<1>7. f \in [Nat -> Seq(Numeral)]
  BY <1>6
<1>8. ASSUME NEW n \in Nat PROVE f[n] = DigitsStep(f, n)
  <2>1. F(n)[n] = DigitsStep(F(n), n)
    BY <1>6
  <2>2. n >= 10 => F(n)[n \div 10] = F(n \div 10)[n \div 10]
    <3> SUFFICES ASSUME n >= 10 PROVE F(n)[n \div 10] = F(n \div 10)[n \div 10]
      OBVIOUS
    <3>1. n \div 10 \in Nat /\ n \div 10 <= n /\ n \div 10 \in 0..(n \div 10)
      BY Tenth
    <3>2. Ok(F(n \div 10), n \div 10) /\ Ok(F(n), n)
      BY ZenonT(20), <1>6, <3>1
    <3>3. QED
      <4> HIDE DEF Ok
      <4> QED BY <1>5, <3>1, <3>2
  <2>3. n >= 10 => f[n \div 10] = F(n)[n \div 10]
    BY <2>2, Tenth
  <2>4. DigitsStep(f, n) = DigitsStep(F(n), n)
    BY <1>2, <2>3
  <2>5. QED
    BY <2>1, <2>4
<1>9. f = [n \in Nat |-> DigitsStep(f, n)]
  <2> HIDE DEF f
  <2> QED BY <1>7, <1>8
<1>10. QED
  <2> HIDE DEF f
  <2> QED BY <1>7, <1>9

\* Digits satisfies its equation.
LEMMA DigitsEquation ==
    /\ Digits = [n \in Nat |-> DigitsStep(Digits, n)]
    /\ \A n \in Nat : Digits[n] = DigitsStep(Digits, n)
<1>1. \E d : d = [n \in Nat |-> DigitsStep(d, n)]
  BY DigitsExists
<1>2. Digits = CHOOSE d : d = [n \in Nat |-> DigitsStep(d, n)]
  BY DEF Digits, DigitsStep
<1>3. Digits = [n \in Nat |-> DigitsStep(Digits, n)]
  BY <1>1, <1>2
<1>4. QED
  <2> HIDE DEF Digits
  <2> QED BY <1>3

\* Digits, case by case.
LEMMA DigitsFacts ==
    /\ Digits \in [Nat -> Seq(Numeral)]
    /\ \A n \in 0..9 : Digits[n] = <<Digit[n + 1]>>
    /\ \A n \in Nat : n >= 10 => Digits[n] = Append(Digits[n \div 10], Digit[(n % 10) + 1])
<1>1. Digits \in [Nat -> Seq(Numeral)]
  <2> DEFINE S == {n \in Nat : Digits[n] \in Seq(Numeral)}
  <2>1. ASSUME NEW n \in Nat, \A m \in 0..(n - 1) : m \in S
        PROVE  n \in S
    <3>1. Digits[n] = DigitsStep(Digits, n)
      BY DigitsEquation
    <3>2. CASE n < 10
      <4>1. Digits[n] = <<Digit[n + 1]>> /\ Digit[n + 1] \in Numeral
        BY <3>1, <3>2, DigitFacts DEF DigitsStep
      <4>2. <<Digit[n + 1]>> \in Seq(Numeral)
        BY <4>1
      <4>3. QED
        BY ZenonT(20), <4>1, <4>2
    <3>3. CASE n >= 10
      <4>1. Digits[n] = Append(Digits[n \div 10], Digit[(n % 10) + 1])
        BY <3>1, <3>3 DEF DigitsStep
      <4>2. n \div 10 \in S /\ n % 10 \in 0..9
        BY <2>1, <3>3, Tenth
      <4>3. Digits[n \div 10] \in Seq(Numeral) /\ Digit[(n % 10) + 1] \in Numeral
        BY <4>2, DigitFacts
      <4>4. Append(Digits[n \div 10], Digit[(n % 10) + 1]) \in Seq(Numeral)
        BY <4>3
      <4>5. QED
        BY ZenonT(20), <4>1, <4>4
    <3>4. QED
      BY <3>2, <3>3
  <2>2. Nat \subseteq S
    <3> HIDE DEF S
    <3> QED BY <2>1, Inductive
  <2>3. \A n \in Nat : Digits[n] \in Seq(Numeral)
    BY <2>2
  <2>4. QED
    BY <2>3, DigitsEquation
<1>2. ASSUME NEW n \in 0..9 PROVE Digits[n] = <<Digit[n + 1]>>
  BY DigitsEquation DEF DigitsStep
<1>3. ASSUME NEW n \in Nat, n >= 10
      PROVE  Digits[n] = Append(Digits[n \div 10], Digit[(n % 10) + 1])
  <2>1. Digits[n] = DigitsStep(Digits, n)
    BY DigitsEquation
  <2>2. QED
    BY <1>3, <2>1 DEF DigitsStep
<1>4. QED
  BY ZenonT(20), <1>1, <1>2, <1>3

\* An int has ten digits at most, nine without the last.
LEMMA DigitsLength ==
    /\ \A n \in Nat : Len(Digits[n]) >= 1
    /\ \A n \in Nat : n < 10 => Len(Digits[n]) = 1
    /\ \A n \in Nat : n <= INT_MAX + 1 => Len(Digits[n]) <= 10
    /\ \A n \in Nat : n <= INT_MAX => Len(Digits[n \div 10]) <= 9
<1> DEFINE Bounded(p, k) == \A n \in Nat : n < p => Len(Digits[n]) <= k
<1>1. ASSUME NEW n \in Nat PROVE Len(Digits[n]) \in Nat /\ Len(Digits[n]) >= 1
  <2>1. CASE n < 10
    <3>1. n \in 0..9
      BY <2>1
    <3>2. Digits[n] = <<Digit[n + 1]>>
      BY <3>1, DigitsFacts, Zenon
    <3>3. QED
      BY <3>2
  <2>2. CASE n >= 10
    <3>1. n \div 10 \in Nat /\ Digits[n \div 10] \in Seq(Numeral)
      BY ZenonT(20), Tenth, DigitsFacts
    <3>2. Digits[n] = Append(Digits[n \div 10], Digit[(n % 10) + 1])
      BY ZenonT(20), <2>2, DigitsFacts
    <3>3. QED
      BY <3>1, <3>2
  <2>3. QED
    BY <2>1, <2>2
<1>2. ASSUME NEW n \in Nat, n < 10 PROVE Len(Digits[n]) = 1
  <2>1. n \in 0..9
    BY <1>2
  <2>2. Digits[n] = <<Digit[n + 1]>>
    BY <2>1, DigitsFacts, Zenon
  <2>3. QED
    BY <2>2
<1>3. ASSUME NEW p \in Nat, NEW k \in Nat, Bounded(p, k), k >= 1
      PROVE  Bounded(10 * p, k + 1)
  <2> SUFFICES ASSUME NEW n \in Nat, n < 10 * p
               PROVE  Len(Digits[n]) <= k + 1
    OBVIOUS
  <2>1. CASE n < 10
    BY <1>2, <1>3, <2>1
  <2>2. CASE n >= 10
    <3>0. n \div 10 \in Nat /\ n = 10 * (n \div 10) + (n % 10) /\ n % 10 \in 0..9
      BY Tenth
    <3>1. n \div 10 \in Nat /\ n \div 10 < p /\ Digits[n \div 10] \in Seq(Numeral)
      <4>1. n \div 10 < p
        BY <3>0
      <4>2. QED
        BY <3>0, <4>1, DigitsFacts
    <3>2. Len(Digits[n \div 10]) <= k
      BY <1>3, <3>1
    <3>3. Digits[n] = Append(Digits[n \div 10], Digit[(n % 10) + 1])
      BY ZenonT(20), <2>2, DigitsFacts
    <3>4. QED
      BY <3>1, <3>2, <3>3
  <2>3. QED
    BY <2>1, <2>2
<1>4. Bounded(10, 1)
  <2> SUFFICES ASSUME NEW n \in Nat, n < 10 PROVE Len(Digits[n]) <= 1
    OBVIOUS
  <2>1. Len(Digits[n]) = 1
    BY <1>2
  <2>2. QED
    BY <2>1
<1> HIDE DEF Bounded
<1>5. Bounded(10 * 10, 1 + 1)
  BY <1>3, <1>4
<1>6. Bounded(100, 2)
  BY <1>5
<1>7. Bounded(10 * 100, 2 + 1)
  BY <1>3, <1>6
<1>8. Bounded(1000, 3)
  BY <1>7
<1>9. Bounded(10 * 1000, 3 + 1)
  BY <1>3, <1>8
<1>10. Bounded(10000, 4)
  BY <1>9
<1>11. Bounded(10 * 10000, 4 + 1)
  BY <1>3, <1>10
<1>12. Bounded(100000, 5)
  BY <1>11
<1>13. Bounded(10 * 100000, 5 + 1)
  BY <1>3, <1>12
<1>14. Bounded(1000000, 6)
  BY <1>13
<1>15. Bounded(10 * 1000000, 6 + 1)
  BY <1>3, <1>14
<1>16. Bounded(10000000, 7)
  BY <1>15
<1>17. Bounded(10 * 10000000, 7 + 1)
  BY <1>3, <1>16
<1>18. Bounded(100000000, 8)
  BY <1>17
<1>19. Bounded(10 * 100000000, 8 + 1)
  BY <1>3, <1>18
<1>20. Bounded(1000000000, 9)
  BY <1>19
<1>21. Bounded(10 * 1000000000, 9 + 1)
  BY <1>3, <1>20
<1>22. Bounded(10000000000, 10)
  BY <1>21
<1>23. ASSUME NEW n \in Nat, n <= INT_MAX + 1 PROVE Len(Digits[n]) <= 10
  BY <1>22, <1>23, SMT DEF Bounded, INT_MAX
<1>24. ASSUME NEW n \in Nat, n <= INT_MAX PROVE Len(Digits[n \div 10]) <= 9
  <2>1. n \div 10 \in Nat /\ n \div 10 < 1000000000
    BY <1>24, SMT DEF INT_MAX
  <2>2. QED
    BY <1>20, <2>1, SMT DEF Bounded
<1>25. QED
  BY <1>1, <1>2, <1>23, <1>24

-----------------------------------------------------------------------------
(* What "%d" and "%d.%d" print.                                            *)

\* Division and remainder of numbers that are not negative.
LEMMA QuotRem ==
    ASSUME NEW t \in Nat
    PROVE  Quot(t, 10) = t \div 10 /\ Rem(t, 10) = t % 10
<1>1. Quot(t, 10) = t \div 10
  BY SMT DEF Quot
<1>2. t \div 10 \in Nat /\ t % 10 \in 0..9 /\ t = 10 * (t \div 10) + (t % 10)
  BY Tenth
<1>3. QED
  BY <1>1, <1>2 DEF Rem

\* Digits are symbols.
LEMMA DigitsSymbols ==
    ASSUME NEW n \in Nat
    PROVE  /\ Digits[n] \in Seq(Symbol) /\ Len(Digits[n]) \in Nat
           /\ \A i \in 1..Len(Digits[n]) : Digits[n][i] \in Numeral
<1>1. Digits[n] \in Seq(Numeral)
  BY DigitsFacts, Zenon
<1>2. Numeral \subseteq Symbol
  BY DEF Symbol
<1>3. QED
  BY <1>1, <1>2

\* What %d prints: digits, perhaps after a sign, eleven symbols of an int at most.
LEMMA DecimalFacts ==
    ASSUME NEW n \in Int
    PROVE  /\ Decimal(n) \in Seq(Symbol) /\ Len(Decimal(n)) \in Nat \ {0}
           /\ \A i \in 1..Len(Decimal(n)) : Decimal(n)[i] \in Numeral \cup {"-"}
           /\ n + INT_MAX + 1 >= 0 /\ n <= INT_MAX => Len(Decimal(n)) <= 11
           /\ n \in 0..9 => Decimal(n) = <<Digit[n + 1]>>
           /\ n + 9 >= 0 /\ n <= 9 => Len(Decimal(n)) <= 2
<1>1. CASE n >= 0
  <2>1. Decimal(n) = Digits[n] /\ n \in Nat
    BY <1>1, SMT DEF Decimal
  <2>2. /\ Len(Digits[n]) >= 1 /\ (n <= INT_MAX + 1 => Len(Digits[n]) <= 10)
        /\ n < 10 => Len(Digits[n]) = 1
    BY <2>1, DigitsLength, SMT
  <2>3. n \in 0..9 => Digits[n] = <<Digit[n + 1]>>
    BY DigitsFacts, Zenon
  <2>4. /\ Digits[n] \in Seq(Symbol) /\ Len(Digits[n]) \in Nat
        /\ \A i \in 1..Len(Digits[n]) : Digits[n][i] \in Numeral
    BY <2>1, DigitsSymbols, SMT
  <2>5. QED
    BY <2>1, <2>2, <2>3, <2>4, SMT DEF INT_MAX
<1>2. CASE n < 0
  <2> DEFINE m == -n
             d == Digits[m]
  <2>0. m \in Nat /\ n = -m
    BY <1>2, SMT
  <2>1. Decimal(n) = <<"-">> \o d
    BY <1>2, SMT DEF Decimal
  <2> HIDE DEF m
  <2>2. Len(d) >= 1 /\ (m <= INT_MAX + 1 => Len(d) <= 10) /\ (m < 10 => Len(d) = 1)
    BY <2>0, DigitsLength, SMT
  <2>3. /\ d \in Seq(Symbol) /\ Len(d) \in Nat
        /\ \A i \in 1..Len(d) : d[i] \in Numeral
    BY <2>0, DigitsSymbols, SMT
  <2>4. <<"-">> \in Seq(Symbol)
    BY SMT DEF Symbol
  <2> HIDE DEF d
  <2> DEFINE e == <<"-">> \o d
  <2>5. /\ e \in Seq(Symbol) /\ Len(e) = 1 + Len(d)
        /\ e[1] = "-"
        /\ \A i \in 2..(1 + Len(d)) : e[i] = d[i - 1]
    BY <2>3, <2>4
  <2> HIDE DEF e
  <2>6. \A i \in 1..Len(e) : e[i] \in Numeral \cup {"-"}
    <3> SUFFICES ASSUME NEW i \in 1..Len(e) PROVE e[i] \in Numeral \cup {"-"}
      OBVIOUS
    <3>1. CASE i = 1
      BY <3>1, <2>5
    <3>2. CASE i # 1
      <4>1. i \in 2..(1 + Len(d)) /\ i - 1 \in 1..Len(d)
        BY <2>3, <2>5, <3>2
      <4>2. QED
        BY <2>3, <2>5, <4>1
    <3>3. QED
      BY <3>1, <3>2
  <2>7. n + INT_MAX + 1 >= 0 => Len(e) <= 11
    BY <2>0, <2>2, <2>3, <2>5, SMT DEF INT_MAX
  <2>8. n \notin 0..9 /\ (n + 9 >= 0 => Len(e) <= 2)
    BY <1>2, <2>0, <2>2, <2>3, <2>5, SMT
  <2>9. Decimal(n) = e
    BY <2>1 DEF e
  <2>10. QED
    BY <2>3, <2>5, <2>6, <2>7, <2>8, <2>9
<1>3. QED
  BY <1>1, <1>2, SMT

\* The symbols of a concatenation.
LEMMA Concatenated ==
    ASSUME NEW s \in Seq(Symbol), NEW t \in Seq(Symbol)
    PROVE  /\ s \o t \in Seq(Symbol) /\ Len(s \o t) = Len(s) + Len(t)
           /\ \A i \in 1..Len(s) : (s \o t)[i] = s[i]
           /\ \A i \in (Len(s) + 1)..Len(s \o t) : (s \o t)[i] = t[i - Len(s)]
OBVIOUS

\* What %d.%d prints: digits, signs and a point, fourteen symbols of an int at most.
LEMMA FixedSymbols ==
    ASSUME NEW t \in Int
    PROVE  /\ Fixed(t) \in Seq(Symbol) /\ Len(Fixed(t)) \in Nat \ {0}
           /\ \A i \in 1..Len(Fixed(t)) : Fixed(t)[i] \in Numeral \cup {"-", "."}
           /\ t + INT_MAX + 1 >= 0 /\ t <= INT_MAX => Len(Fixed(t)) <= 14
<1> DEFINE a == Quot(t, 10)
           b == Rem(t, 10)
           x == Decimal(a)
           z == Decimal(b)
           y == <<".">>
           u == x \o y
           f == u \o z
<1>1. a \in Int /\ b \in Int /\ b + 9 >= 0 /\ b <= 9
  BY SMT DEF Quot, Rem
<1>2. t + INT_MAX + 1 >= 0 /\ t <= INT_MAX => a + INT_MAX + 1 >= 0 /\ a <= INT_MAX
  BY SMT DEF Quot, INT_MAX
<1>3. Fixed(t) = f
  BY DEF Fixed
<1> HIDE DEF a, b
<1>4. /\ x \in Seq(Symbol) /\ Len(x) \in Nat \ {0}
      /\ \A i \in 1..Len(x) : x[i] \in Numeral \cup {"-"}
      /\ a + INT_MAX + 1 >= 0 /\ a <= INT_MAX => Len(x) <= 11
  BY ZenonT(20), <1>1, DecimalFacts
<1>5. /\ z \in Seq(Symbol) /\ Len(z) \in Nat \ {0} /\ Len(z) <= 2
      /\ \A i \in 1..Len(z) : z[i] \in Numeral \cup {"-"}
  BY ZenonT(20), <1>1, DecimalFacts
<1>6. y \in Seq(Symbol) /\ Len(y) = 1 /\ y[1] = "."
  BY DEF Symbol
<1> HIDE DEF x, y, z
<1>7. /\ u \in Seq(Symbol) /\ Len(u) = Len(x) + 1 /\ u[Len(x) + 1] = "."
      /\ \A i \in 1..Len(x) : u[i] = x[i]
  <2>1. /\ u \in Seq(Symbol) /\ Len(u) = Len(x) + Len(y)
        /\ \A i \in 1..Len(x) : u[i] = x[i]
        /\ \A i \in (Len(x) + 1)..Len(u) : u[i] = y[i - Len(x)]
    BY ZenonT(20), <1>4, <1>6, Concatenated
  <2> HIDE DEF u
  <2>2. Len(x) + 1 \in (Len(x) + 1)..Len(u) /\ (Len(x) + 1) - Len(x) = 1 /\ Len(u) = Len(x) + 1
    BY <1>4, <1>6, <2>1
  <2>3. QED
    BY <1>6, <2>1, <2>2
<1> HIDE DEF u
<1>8. /\ f \in Seq(Symbol) /\ Len(f) = Len(u) + Len(z)
      /\ \A i \in 1..Len(u) : f[i] = u[i]
      /\ \A i \in (Len(u) + 1)..Len(f) : f[i] = z[i - Len(u)]
  BY ZenonT(20), <1>5, <1>7, Concatenated
<1> HIDE DEF f
<1>9. ASSUME NEW i \in 1..Len(f) PROVE f[i] \in Numeral \cup {"-", "."}
  <2>1. CASE i \in 1..Len(x)
    BY <1>4, <1>5, <1>7, <1>8, <2>1
  <2>2. CASE i = Len(x) + 1
    BY <1>4, <1>5, <1>7, <1>8, <2>2
  <2>3. CASE i \in (Len(x) + 2)..Len(f)
    <3>1. i - Len(u) \in 1..Len(z) /\ i \in (Len(u) + 1)..Len(f)
      BY <1>4, <1>5, <1>7, <1>8, <2>3
    <3>2. QED
      BY <1>5, <1>8, <3>1
  <2>4. QED
    BY <1>4, <2>1, <2>2, <2>3
<1>10. Len(f) \in Nat \ {0} /\ (Len(x) <= 11 => Len(f) <= 14)
  BY ONLY <1>4, <1>5, <1>7, <1>8
<1>11. QED
  BY <1>2, <1>3, <1>4, <1>8, <1>9, <1>10

\* What %d.%d prints of tenths: the digits, the point and one more digit.
LEMMA FixedFacts ==
    ASSUME NEW t \in Nat
    PROVE  LET d == Digits[t \div 10]
               f == Fixed(t)
           IN  /\ f \in Seq(Symbol) /\ Len(f) = Len(d) + 2 /\ Len(f) \in Nat
               /\ \A i \in 1..Len(d) : f[i] = d[i] /\ f[i] \in Numeral
               /\ f[Len(d) + 1] = "." /\ f[Len(d) + 2] = Digit[(t % 10) + 1]
               /\ \A i \in 1..Len(f) : f[i] \in Numeral \cup {"."}
               /\ t <= INT_MAX => Len(f) <= 11
<1> DEFINE d == Digits[t \div 10]
           x == Digit[(t % 10) + 1]
           f == Fixed(t)
<1>1. t \div 10 \in Nat /\ t % 10 \in 0..9
  BY Tenth
<1>2. INT_MAX \in Nat
  BY SMT DEF INT_MAX
<1>3. Decimal(t \div 10) = d /\ Decimal(t % 10) = <<x>>
  <2>1. Decimal(t \div 10) = d
    BY <1>1, SMT DEF Decimal
  <2>2. t % 10 \in Int
    BY <1>1
  <2>3. QED
    BY <1>1, <2>1, <2>2, DecimalFacts, Zenon
<1>4. f = d \o <<".">> \o <<x>>
  BY ZenonT(20), <1>3, QuotRem DEF Fixed
<1>5. /\ d \in Seq(Symbol) /\ Len(d) \in Nat /\ \A i \in 1..Len(d) : d[i] \in Numeral
  BY <1>1, DigitsSymbols
<1>6. x \in Numeral
  BY <1>1, DigitFacts
<1>7. t <= INT_MAX => Len(d) <= 9
  BY <1>1, <1>2, DigitsLength
<1> HIDE DEF d, x, f
<1>8. <<".">> \in Seq(Symbol) /\ <<x>> \in Seq(Symbol)
  <2>1. "." \in Symbol /\ x \in Symbol
    BY <1>6 DEF Symbol
  <2>2. QED
    BY <2>1
<1>9. f \in Seq(Symbol) /\ Len(f) = Len(d) + 2
  BY <1>4, <1>5, <1>8
<1>10. \A i \in 1..Len(d) : f[i] = d[i]
  BY <1>4, <1>5, <1>8
<1>11. f[Len(d) + 1] = "."
  BY <1>4, <1>5, <1>8
<1>12. f[Len(d) + 2] = x
  BY <1>4, <1>5, <1>8
<1>13. ASSUME NEW i \in 1..Len(f) PROVE f[i] \in Numeral \cup {"."}
  <2>1. i \in 1..Len(d) \/ i = Len(d) + 1 \/ i = Len(d) + 2
    BY <1>5, <1>9
  <2>2. QED
    BY <1>5, <1>6, <1>10, <1>11, <1>12, <2>1
<1>14. /\ f \in Seq(Symbol) /\ Len(f) = Len(d) + 2 /\ Len(f) \in Nat
       /\ \A i \in 1..Len(d) : f[i] = d[i] /\ f[i] \in Numeral
       /\ f[Len(d) + 1] = "." /\ f[Len(d) + 2] = x
       /\ \A i \in 1..Len(f) : f[i] \in Numeral \cup {"."}
       /\ t <= INT_MAX => Len(f) <= 11
  BY <1>5, <1>7, <1>9, <1>10, <1>11, <1>12, <1>13
<1>15. QED
  BY <1>14, Zenon DEF d, x, f

\* The body of the function in Value.
ValueStep(f, v, p) == IF p = 0 THEN 0 ELSE 10 * v[p - 1] + DigitValue[f[p]]

\* Value satisfies its equation.
LEMMA ValueFacts ==
    ASSUME NEW f
    PROVE  /\ Value(f, 0) = 0
           /\ \A n \in Nat : Value(f, n + 1) = 10 * Value(f, n) + DigitValue[f[n + 1]]
<1> DEFINE Ok(v, n) == v = [p \in 0..n |-> ValueStep(f, v, p)]
           S == {n \in Nat : \E v : Ok(v, n)}
<1>1. ASSUME NEW v, NEW w, NEW p \in Nat, p > 0 => v[p - 1] = w[p - 1]
      PROVE  ValueStep(f, v, p) = ValueStep(f, w, p)
  BY <1>1 DEF ValueStep
<1>2. ASSUME NEW n \in Nat, \A m \in 0..(n - 1) : m \in S
      PROVE  n \in S
  <2>1. \E v : v = [p \in 0..(n - 1) |-> ValueStep(f, v, p)]
    <3>1. CASE n = 0
      <4> DEFINE v == [p \in 0..(n - 1) |-> 0]
      <4>1. v = [p \in 0..(n - 1) |-> ValueStep(f, v, p)]
        BY <3>1
      <4> HIDE DEF v
      <4>2. QED
        BY <4>1
    <3>2. CASE n > 0
      <4>1. n - 1 \in 0..(n - 1)
        BY <3>2
      <4>2. n - 1 \in S
        <5> HIDE DEF S
        <5> QED BY <1>2, <4>1
      <4>3. QED
        BY <4>2
    <3>3. QED
      BY <3>1, <3>2
  <2>2. PICK v : v = [p \in 0..(n - 1) |-> ValueStep(f, v, p)]
    BY <2>1
  <2> DEFINE w == [p \in 0..n |-> IF p = n THEN ValueStep(f, v, n) ELSE v[p]]
  <2>3. /\ \A p \in 0..(n - 1) : w[p] = v[p]
        /\ w[n] = ValueStep(f, v, n)
        /\ w = [p \in 0..n |-> w[p]]
    OBVIOUS
  <2>4. \A p \in 0..(n - 1) : v[p] = ValueStep(f, v, p)
    BY <2>2
  <2> HIDE DEF w
  <2>5. ASSUME NEW p \in 0..n PROVE w[p] = ValueStep(f, w, p)
    <3>1. p > 0 => p - 1 \in 0..(n - 1)
      OBVIOUS
    <3>2. ValueStep(f, w, p) = ValueStep(f, v, p)
      BY SMTT(20), <1>1, <2>3, <3>1
    <3>3. CASE p = n
      BY <2>3, <3>2, <3>3
    <3>4. CASE p # n
      BY <2>3, <2>4, <3>2, <3>4
    <3>5. QED
      BY <3>3, <3>4
  <2>6. Ok(w, n)
    BY <2>3, <2>5
  <2>7. QED
    BY <2>6
<1>3. Nat \subseteq S
  <2> HIDE DEF S
  <2> QED BY <1>2, Inductive
<1>4. ASSUME NEW n \in Nat, NEW v, NEW w, Ok(v, n), Ok(w, n + 1)
      PROVE  v[n] = w[n]
  <2> DEFINE U == {p \in Nat : p <= n => v[p] = w[p]}
  <2>1. ASSUME NEW p \in Nat, \A q \in 0..(p - 1) : q \in U
        PROVE  p \in U
    <3> SUFFICES ASSUME p <= n PROVE v[p] = w[p]
      OBVIOUS
    <3>1. p > 0 => p - 1 \in 0..(p - 1)
      OBVIOUS
    <3>2. p > 0 => p - 1 \in U
      <4> HIDE DEF U
      <4> QED BY <2>1, <3>1
    <3>3. p > 0 => v[p - 1] = w[p - 1]
      BY <3>2
    <3>4. v[p] = ValueStep(f, v, p) /\ w[p] = ValueStep(f, w, p)
      BY SMTT(20), <1>4
    <3>5. QED
      BY <1>1, <3>3, <3>4
  <2>2. Nat \subseteq U
    <3> HIDE DEF U
    <3> QED BY <2>1, Inductive
  <2>3. QED
    BY <2>2
<1> DEFINE V(n) == CHOOSE v : Ok(v, n)
<1>5. ASSUME NEW n \in Nat PROVE Ok(V(n), n) /\ Value(f, n) = V(n)[n]
  <2>1. \E v : Ok(v, n)
    BY <1>3
  <2>2. Value(f, n) = V(n)[n]
    BY DEF Value, ValueStep
  <2> HIDE DEF Ok
  <2>3. Ok(V(n), n)
    BY <2>1
  <2>4. QED
    BY <2>2, <2>3
<1> HIDE DEF V
<1>6. Value(f, 0) = 0
  <2>1. Value(f, 0) = V(0)[0] /\ Ok(V(0), 0)
    <3> HIDE DEF Ok
    <3> QED BY <1>5
  <2>2. V(0)[0] = ValueStep(f, V(0), 0)
    BY <2>1
  <2>3. QED
    BY <2>1, <2>2 DEF ValueStep
<1>7. ASSUME NEW n \in Nat
      PROVE  Value(f, n + 1) = 10 * Value(f, n) + DigitValue[f[n + 1]]
  <2>1. /\ Value(f, n) = V(n)[n] /\ Value(f, n + 1) = V(n + 1)[n + 1]
        /\ Ok(V(n), n) /\ Ok(V(n + 1), n + 1)
    <3> HIDE DEF Ok
    <3> QED BY <1>5
  <2>2. V(n)[n] = V(n + 1)[n]
    <3> HIDE DEF Ok
    <3> QED BY <1>4, <2>1
  <2>3. V(n + 1)[n + 1] = ValueStep(f, V(n + 1), n + 1)
    BY <2>1
  <2>4. ValueStep(f, V(n + 1), n + 1) = 10 * V(n + 1)[n] + DigitValue[f[n + 1]]
    BY DEF ValueStep
  <2>5. QED
    <3> HIDE DEF Ok
    <3> QED BY <2>1, <2>2, <2>3, <2>4
<1>8. QED
  BY <1>6, <1>7

\* A text that begins with the digits of a number has its value.
LEMMA ValueOfDigits ==
    ASSUME NEW n \in Nat, NEW f \in Seq(Symbol), \A i \in 1..Len(Digits[n]) : f[i] = Digits[n][i]
    PROVE  Value(f, Len(Digits[n])) = n
<1> DEFINE Spells(g, m) == \A i \in 1..Len(Digits[m]) : g[i] = Digits[m][i]
           S == {m \in Nat : \A g \in Seq(Symbol) : Spells(g, m) => Value(g, Len(Digits[m])) = m}
<1>1. ASSUME NEW m \in Nat, \A k \in 0..(m - 1) : k \in S
      PROVE  m \in S
  <2> SUFFICES ASSUME NEW g \in Seq(Symbol), Spells(g, m)
               PROVE  Value(g, Len(Digits[m])) = m
    OBVIOUS
  <2>1. CASE m < 10
    <3>1. m \in 0..9
      BY <2>1
    <3>2. Digits[m] = <<Digit[m + 1]>>
      BY <3>1, DigitsFacts, Zenon
    <3>3. Len(Digits[m]) = 1 /\ Digits[m][1] = Digit[m + 1]
      BY <3>2
    <3>4. g[1] = Digit[m + 1]
      BY <3>3
    <3>5. DigitValue[g[1]] = m
      BY <3>1, <3>4, DigitValueFacts
    <3>6. Value(g, 0) = 0 /\ Value(g, 0 + 1) = 10 * Value(g, 0) + DigitValue[g[0 + 1]]
      BY ValueFacts
    <3>7. QED
      BY <3>3, <3>5, <3>6
  <2>2. CASE m >= 10
    <3> DEFINE k == m \div 10
               d == Digits[k]
    <3>1. k \in Nat /\ k \in 0..(m - 1) /\ m % 10 \in 0..9 /\ m = 10 * k + (m % 10)
      BY <2>2, Tenth
    <3>2. Digits[m] = Append(d, Digit[(m % 10) + 1])
      BY <2>2, DigitsFacts, Zenon
    <3> HIDE DEF k
    <3>3. d \in Seq(Symbol) /\ Len(d) \in Nat
      BY <3>1, DigitsSymbols
    <3>4. /\ Len(Digits[m]) = Len(d) + 1 /\ Digits[m][Len(d) + 1] = Digit[(m % 10) + 1]
          /\ \A i \in 1..Len(d) : Digits[m][i] = d[i]
      <4> HIDE DEF d
      <4> QED BY <3>2, <3>3
    <3>5. Spells(g, k)
      BY <3>3, <3>4
    <3>6. k \in S
      <4> HIDE DEF S
      <4> QED BY <1>1, <3>1
    <3>7. Value(g, Len(d)) = k
      BY <3>5, <3>6
    <3>8. g[Len(d) + 1] = Digit[(m % 10) + 1]
      <4>1. Len(d) + 1 \in 1..Len(Digits[m])
        BY <3>3, <3>4
      <4>2. g[Len(d) + 1] = Digits[m][Len(d) + 1]
        BY <4>1
      <4>3. QED
        BY <3>4, <4>2
    <3>9. DigitValue[g[Len(d) + 1]] = m % 10
      BY ZenonT(20), <3>1, <3>8, DigitValueFacts
    <3>10. Value(g, Len(d) + 1) = 10 * Value(g, Len(d)) + DigitValue[g[Len(d) + 1]]
      BY ZenonT(20), <3>3, ValueFacts
    <3>11. Value(g, Len(d) + 1) = m
      BY <3>1, <3>7, <3>9, <3>10
    <3>12. QED
      BY <3>4, <3>11
  <2>3. QED
    BY <2>1, <2>2
<1>2. Nat \subseteq S
  <2> HIDE DEF S
  <2> QED BY <1>1, Inductive
<1>3. QED
  BY <1>2

-----------------------------------------------------------------------------
(* The number that a text spells.                                          *)

\* A least element is Min.
LEMMA LeastIs ==
    ASSUME NEW T, T \subseteq Nat, NEW m \in T, \A n \in T : m <= n
    PROVE  Min(T) = m
<1>1. Min(T) \in T /\ \A n \in T : Min(T) <= n
  BY ZenonT(20), MinFacts
<1>2. m <= Min(T) /\ Min(T) <= m /\ m \in Nat /\ Min(T) \in Nat
  BY ZenonT(20), <1>1
<1>3. QED
  BY <1>2

\* DigitValue knows the digits and nothing else.
LEMMA NumeralsSpell == DOMAIN DigitValue = Numeral
<1>1. DOMAIN DigitValue = {Digit[i] : i \in 1..10}
  BY DEF DigitValue
<1>2. {Digit[i] : i \in 1..10} \subseteq Numeral
  BY DEF Digit, Numeral
<1>3. Numeral \subseteq {Digit[i] : i \in 1..10}
  BY DEF Digit, Numeral
<1>4. QED
  BY <1>1, <1>2, <1>3

\* The comparison of the page, on the text of a concentration, is that of the device, on
\* the number.
LEMMA ExceedsFixed ==
    ASSUME NEW t \in Nat
    PROVE  Exceeds50(Fixed(t)) <=> t > 500
<1> DEFINE n == t \div 10
           d == Digits[n]
           x == Digit[(t % 10) + 1]
           f == Fixed(t)
           k == Len(d)
<1>1. n \in Nat /\ t % 10 \in 0..9 /\ t = 10 * n + (t % 10)
  BY Tenth
<1>2. /\ f \in Seq(Symbol) /\ Len(f) = k + 2
      /\ \A i \in 1..k : f[i] = d[i] /\ f[i] \in Numeral
      /\ f[k + 1] = "." /\ f[k + 2] = x
  BY ZenonT(20), FixedFacts
<1>3. x \in Numeral /\ (x = "0" <=> t % 10 = 0)
  BY <1>1, DigitFacts
<1>4. k \in Nat
  BY <1>1, DigitsSymbols
<1>5. Value(f, k) = n
  BY ZenonT(20), <1>1, <1>2, ValueOfDigits
<1> HIDE DEF n, x, f, k
<1>6. \A i \in 1..k : f[i] # "."
  BY <1>2, NumeralFacts
<1>7. Trimmed(f) = f
  <2>1. f[Len(f)] = x /\ x # "\n"
    BY <1>2, <1>3, NumeralFacts
  <2>2. QED
    BY <2>1 DEF Trimmed
<1> DEFINE dots == {p \in 1..Len(f) : f[p] = "."}
           point == Min(dots \cup {Len(f) + 1})
<1>8. \A p \in 1..Len(f) : p \in 1..k \/ p = k + 1 \/ p = k + 2
  BY <1>2, <1>4
<1>9. dots = {k + 1}
  <2>1. x # "."
    BY <1>3, NumeralFacts
  <2>2. k + 1 \in 1..Len(f)
    BY <1>2, <1>4
  <2>3. QED
    BY <1>2, <1>4, <1>6, <1>8, <2>1, <2>2
<1>10. point = k + 1
  <2> DEFINE T == dots \cup {Len(f) + 1}
  <2>1. T \subseteq Nat /\ k + 1 \in T /\ \A q \in T : k + 1 <= q
    BY <1>2, <1>4, <1>9
  <2> HIDE DEF T
  <2>2. Min(T) = k + 1
    BY ZenonT(20), <2>1, LeastIs
  <2>3. QED
    BY <2>2 DEF T
<1>11. \A p \in 1..Len(f) : p = k + 1 \/ f[p] \in DOMAIN DigitValue
  BY <1>2, <1>3, <1>8, NumeralsSpell
<1>12. (\E p \in ((k + 1) + 1)..Len(f) : f[p] # "0") <=> x # "0"
  BY <1>2, <1>4
<1>13. Exceeds50(f) <=> /\ \A p \in 1..Len(f) : p = point \/ f[p] \in DOMAIN DigitValue
                       /\ \/ Value(f, point - 1) > 50
                          \/ Value(f, point - 1) = 50 /\ \E p \in (point + 1)..Len(f) : f[p] # "0"
  <2>1. Exceeds50(f) <=> Spells50More(f)
    BY <1>7 DEF Exceeds50
  <2>2. QED
    BY <2>1 DEF Spells50More
<1>14. (k + 1) - 1 = k
  BY <1>4
<1> HIDE DEF dots, point
<1>15. Exceeds50(f) <=> n > 50 \/ (n = 50 /\ x # "0")
  BY <1>5, <1>10, <1>11, <1>12, <1>13, <1>14
<1>16. Exceeds50(f) <=> t > 500
  BY <1>1, <1>3, <1>15
<1>17. QED
  BY <1>16 DEF f

\* A field that is missing does not exceed 50.
LEMMA UndefinedIsNoNumber == ~Exceeds50(<<"undefined">>)
<1> DEFINE f == <<"undefined">>
           dots == {p \in 1..Len(f) : f[p] = "."}
           point == Min(dots \cup {Len(f) + 1})
<1>1. Len(f) = 1 /\ f[1] = "undefined"
  OBVIOUS
<1>2. Trimmed(f) = f
  BY <1>1 DEF Trimmed
<1>3. point = 2
  <2> DEFINE T == dots \cup {Len(f) + 1}
  <2>1. T \subseteq Nat /\ 2 \in T /\ \A q \in T : 2 <= q
    BY <1>1
  <2> HIDE DEF T
  <2>2. Min(T) = 2
    BY ZenonT(20), <2>1, LeastIs
  <2>3. QED
    BY <2>2 DEF T
<1>4. "undefined" \notin DOMAIN DigitValue
  BY NumeralsSpell DEF Numeral
<1>5. Exceeds50(f) => \A p \in 1..Len(f) : p = point \/ f[p] \in DOMAIN DigitValue
  <2>1. Exceeds50(f) <=> Spells50More(f)
    BY <1>2 DEF Exceeds50
  <2>2. QED
    BY <2>1 DEF Spells50More
<1> HIDE DEF f, dots, point
<1>6. ~Exceeds50(f)
  BY <1>1, <1>3, <1>4, <1>5
<1>7. QED
  BY <1>6 DEF f

\* %d.%d spells tenths as they are written exactly if they are not negative or whole.
LEMMA SpelledRight ==
    ASSUME NEW t \in Int
    PROVE  Fixed(t) = Spelled(t) <=> t >= 0 \/ t % 10 = 0
<1>1. CASE t >= 0
  <2> DEFINE d == Digits[t \div 10]
             x == Digit[(t % 10) + 1]
  <2>1. t \in Nat
    BY <1>1
  <2>2. /\ Fixed(t) \in Seq(Symbol) /\ Len(Fixed(t)) = Len(d) + 2
        /\ \A i \in 1..Len(d) : Fixed(t)[i] = d[i]
        /\ Fixed(t)[Len(d) + 1] = "." /\ Fixed(t)[Len(d) + 2] = x
    BY ZenonT(20), <2>1, FixedFacts
  <2>3. Spelled(t) = d \o <<".", x>>
    <3>1. Spelled(t) = Tenths(t)
      BY <1>1, SMT DEF Spelled
    <3>2. QED
      BY <3>1 DEF Tenths
  <2>4. t \div 10 \in Nat /\ t % 10 \in 0..9
    BY <2>1, Tenth
  <2>5. d \in Seq(Symbol) /\ Len(d) \in Nat
    BY <2>4, DigitsSymbols
  <2>6. <<".", x>> \in Seq(Symbol)
    <3>1. "." \in Symbol /\ x \in Symbol
      BY <2>4, DigitFacts, NumeralFacts DEF Symbol
    <3> HIDE DEF x
    <3>2. QED
      BY <3>1
  <2> DEFINE s == d \o <<".", x>>
  <2> HIDE DEF d, x
  <2>7. /\ s \in Seq(Symbol) /\ Len(s) = Len(d) + 2
        /\ \A i \in 1..Len(d) : s[i] = d[i]
        /\ s[Len(d) + 1] = "." /\ s[Len(d) + 2] = x
    BY <2>5, <2>6
  <2> HIDE DEF s
  <2>8. \A i \in 1..Len(s) : Fixed(t)[i] = s[i]
    <3> SUFFICES ASSUME NEW i \in 1..Len(s) PROVE Fixed(t)[i] = s[i]
      OBVIOUS
    <3>1. i \in 1..Len(d) \/ i = Len(d) + 1 \/ i = Len(d) + 2
      BY <2>5, <2>7
    <3>2. QED
      BY <2>2, <2>7, <3>1
  <2>9. Fixed(t) = s
    BY <2>2, <2>7, <2>8
  <2>10. QED
    BY <1>1, <2>3, <2>9 DEF s
<1>2. CASE t < 0
  <2> DEFINE n == -t
             d == Digits[n \div 10]
             x == Digit[(n % 10) + 1]
  <2>1. n \in Nat \ {0} /\ t = -n
    BY <1>2, SMT
  <2>2. Quot(t, 10) = -(n \div 10)
    BY <1>2, SMT DEF Quot
  <2>3. Spelled(t) = <<"-">> \o (d \o <<".", x>>)
    <3>1. Spelled(t) = <<"-">> \o Tenths(n)
      BY <1>2, SMT DEF Spelled
    <3> HIDE DEF n
    <3>2. QED
      BY <3>1 DEF Tenths
  <2> HIDE DEF n
  <2>4. n \div 10 \in Nat /\ n % 10 \in 0..9 /\ n = 10 * (n \div 10) + (n % 10)
    BY <2>1, Tenth
  <2>5. Rem(t, 10) = -(n % 10)
    BY <2>1, <2>2, <2>4, SMT DEF Rem
  <2>6. t % 10 = 0 <=> n % 10 = 0
    BY <2>1, <2>4, SMT
  <2>7. d \in Seq(Symbol) /\ Len(d) \in Nat
    BY <2>4, DigitsSymbols
  <2>8. "." \in Symbol /\ x \in Symbol /\ "-" \in Symbol
    BY <2>4, DigitFacts, NumeralFacts DEF Symbol
  <2> DEFINE q == Decimal(Quot(t, 10))
             r == Decimal(Rem(t, 10))
  <2>9. Fixed(t) = q \o <<".">> \o r
    BY DEF Fixed
  <2>10. n \div 10 # 0 => q = <<"-">> \o d
    BY <2>2, <2>4, SMT DEF Decimal
  <2>11. n \div 10 = 0 => q = <<Digit[1]>>
    <3>1. n \div 10 = 0 => Quot(t, 10) = 0
      BY <2>2, SMT
    <3>2. 0 \in Int /\ 0 \in 0..9 /\ 0 + 1 = 1
      OBVIOUS
    <3>3. QED
      BY <3>1, <3>2, DecimalFacts
  <2>12. n % 10 = 0 => r = <<Digit[1]>> /\ x = Digit[1]
    <3>1. n % 10 = 0 => Rem(t, 10) = 0
      BY <2>5, SMT
    <3>2. 0 \in Int /\ 0 \in 0..9 /\ 0 + 1 = 1
      OBVIOUS
    <3>3. QED
      BY ZenonT(20), <3>1, <3>2, DecimalFacts
  <2>13. n % 10 # 0 => r = <<"-">> \o <<x>>
    <3> SUFFICES ASSUME n % 10 # 0 PROVE r = <<"-">> \o <<x>>
      OBVIOUS
    <3>1. r = <<"-">> \o Digits[n % 10]
      <4> DEFINE y == n % 10
      <4>1. y \in 1..9 /\ Rem(t, 10) = -y
        BY <2>4, <2>5
      <4> HIDE DEF y
      <4>2. Decimal(-y) = <<"-">> \o Digits[y]
        BY <4>1, SMT DEF Decimal
      <4>3. QED
        BY <4>1, <4>2, SMT DEF y
    <3>2. Digits[n % 10] = <<x>>
      BY <2>4, DigitsFacts, Zenon
    <3>3. QED
      BY <3>1, <3>2, Zenon
  <2> HIDE DEF d, x, q, r
  <2> DEFINE s == <<"-">> \o (d \o <<".", x>>)
  <2>14. s[1] = "-" /\ Len(s) = Len(d) + 3
    BY <2>7, <2>8
  <2>15. Digit[1] = "0" /\ "0" \in Symbol
    BY DigitFacts DEF Symbol, Numeral
  <2>16. CASE n % 10 = 0
    <3>1. n \div 10 # 0
      BY <2>1, <2>4, <2>16
    <3>2. Fixed(t) = (<<"-">> \o d) \o <<".">> \o <<x>>
      BY ZenonT(20), <2>9, <2>10, <2>12, <2>16, <3>1
    <3> DEFINE u == (<<"-">> \o d) \o <<".">> \o <<x>>
    <3>3. /\ u \in Seq(Symbol) /\ Len(u) = Len(d) + 3 /\ u[1] = "-"
          /\ u[Len(d) + 2] = "." /\ u[Len(d) + 3] = x
          /\ \A i \in 2..(Len(d) + 1) : u[i] = d[i - 1]
      BY <2>7, <2>8
    <3>4. /\ s \in Seq(Symbol) /\ Len(s) = Len(d) + 3 /\ s[1] = "-"
          /\ s[Len(d) + 2] = "." /\ s[Len(d) + 3] = x
          /\ \A i \in 2..(Len(d) + 1) : s[i] = d[i - 1]
      BY <2>7, <2>8
    <3> HIDE DEF s, u
    <3>5. \A i \in 1..Len(s) : u[i] = s[i]
      <4> SUFFICES ASSUME NEW i \in 1..Len(s) PROVE u[i] = s[i]
        OBVIOUS
      <4>1. i = 1 \/ i \in 2..(Len(d) + 1) \/ i = Len(d) + 2 \/ i = Len(d) + 3
        BY <2>7, <3>4
      <4>2. QED
        BY <3>3, <3>4, <4>1
    <3>6. u = s
      BY <3>3, <3>4, <3>5
    <3>7. QED
      BY <2>3, <2>6, <2>16, <3>2, <3>6 DEF s, u
  <2>17. CASE n % 10 # 0 /\ n \div 10 = 0
    <3>1. Fixed(t) = <<"0">> \o <<".">> \o (<<"-">> \o <<x>>)
      BY ZenonT(20), <2>9, <2>11, <2>13, <2>15, <2>17
    <3>2. (<<"0">> \o <<".">> \o (<<"-">> \o <<x>>))[1] = "0"
      BY <2>8, <2>15
    <3>3. Fixed(t)[1] # Spelled(t)[1]
      BY <2>3, <2>14, <3>1, <3>2
    <3>4. QED
      BY <1>2, <2>6, <2>17, <3>3
  <2>18. CASE n % 10 # 0 /\ n \div 10 # 0
    <3>1. Fixed(t) = (<<"-">> \o d) \o <<".">> \o (<<"-">> \o <<x>>)
      BY ZenonT(20), <2>9, <2>10, <2>13, <2>18
    <3>2. Len((<<"-">> \o d) \o <<".">> \o (<<"-">> \o <<x>>)) = Len(d) + 4
      BY <2>7, <2>8
    <3>3. Len(Fixed(t)) # Len(Spelled(t))
      BY <2>3, <2>7, <2>14, <3>1, <3>2
    <3>4. QED
      BY <1>2, <2>6, <2>18, <3>3
  <2>19. QED
    BY <2>16, <2>17, <2>18
<1>3. QED
  BY <1>1, <1>2

\* Separator finds the first separator, or the end of the message.
LEMMA SeparatorFacts ==
    ASSUME NEW message, Len(message) \in Nat, NEW p \in Nat \ {0}
    PROVE  /\ Separator(message, p) \in Nat \ {0}
           /\ (\A q \in p..Len(message) : message[q] # Sep) => Separator(message, p) = Len(message) + 1
           /\ \A q \in p..Len(message) :
                 message[q] = Sep /\ (\A r \in p..(q - 1) : message[r] # Sep)
                 => Separator(message, p) = q
<1> DEFINE k == Len(message)
           T == {q \in p..k : message[q] = Sep} \cup {k + 1}
<1>1. k \in Nat
  OBVIOUS
<1>2. \A q : q \in T <=> (q \in p..k /\ message[q] = Sep) \/ q = k + 1
  OBVIOUS
<1>3. Separator(message, p) = Min(T)
  BY DEF Separator
<1> HIDE DEF T, k
<1>0. T \subseteq Nat \ {0} /\ T # {} /\ \A q \in T : q <= k + 1
  BY <1>1, <1>2
<1>4. ASSUME \A q \in p..k : message[q] # Sep
      PROVE  Min(T) = k + 1
  <2>1. k + 1 \in T /\ \A r \in T : k + 1 <= r
    BY <1>1, <1>2, <1>4
  <2>2. QED
    BY ZenonT(20), <1>0, <2>1, LeastIs
<1>5. ASSUME NEW q \in p..k, message[q] = Sep, \A r \in p..(q - 1) : message[r] # Sep
      PROVE  Min(T) = q
  <2>1. q \in T /\ \A r \in T : q <= r
    <3>1. q \in T
      BY <1>2, <1>5
    <3>2. ASSUME NEW r \in T PROVE q <= r
      <4>1. CASE r = k + 1
        BY <1>1, <4>1
      <4>2. CASE r \in p..k /\ message[r] = Sep
        <5>1. r \notin p..(q - 1)
          BY <1>5, <4>2
        <5>2. QED
          BY <1>1, <4>2, <5>1
      <4>3. QED
        BY <1>2, <4>1, <4>2
    <3>3. QED
      BY <3>1, <3>2
  <2>2. QED
    BY ZenonT(20), <1>0, <2>1, LeastIs
<1>6. Min(T) \in Nat \ {0}
  BY ZenonT(20), <1>0, MinFacts
<1>7. QED
  BY <1>3, <1>4, <1>5, <1>6 DEF k

-----------------------------------------------------------------------------
(* Where split cuts a message.                                             *)

\* The positions in st are where the fields of the message begin.
Starts(message, st) ==
    /\ st \in [1..9 -> Nat \ {0}]
    /\ st[1] = 1
    /\ \A i \in 1..8 : st[i + 1] = Separator(message, st[i]) + 1

\* Every message has such positions.
LEMMA StartsExist ==
    ASSUME NEW message, Len(message) \in Nat
    PROVE  \E st : Starts(message, st)
<1> DEFINE N(p) == Separator(message, p) + 1
           s2 == N(1)  s3 == N(s2)  s4 == N(s3)  s5 == N(s4)
           s6 == N(s5)  s7 == N(s6)  s8 == N(s7)  s9 == N(s8)
           st == <<1, s2, s3, s4, s5, s6, s7, s8, s9>>
<1>1. \A p \in Nat \ {0} : N(p) \in Nat \ {0}
  BY SeparatorFacts
<1> HIDE DEF N
<1>2. /\ s2 \in Nat \ {0} /\ s3 \in Nat \ {0} /\ s4 \in Nat \ {0} /\ s5 \in Nat \ {0}
      /\ s6 \in Nat \ {0} /\ s7 \in Nat \ {0} /\ s8 \in Nat \ {0} /\ s9 \in Nat \ {0}
  BY <1>1
<1>3. /\ s2 = N(1) /\ s3 = N(s2) /\ s4 = N(s3) /\ s5 = N(s4)
      /\ s6 = N(s5) /\ s7 = N(s6) /\ s8 = N(s7) /\ s9 = N(s8)
  OBVIOUS
<1> HIDE DEF s2, s3, s4, s5, s6, s7, s8, s9
<1>4. st \in [1..9 -> Nat \ {0}]
  BY SMTT(20), <1>2
<1>5. /\ st[1] = 1 /\ st[2] = s2 /\ st[3] = s3 /\ st[4] = s4 /\ st[5] = s5 /\ st[6] = s6
      /\ st[7] = s7 /\ st[8] = s8 /\ st[9] = s9
  OBVIOUS
<1> HIDE DEF st
<1>6. ASSUME NEW i \in 1..8 PROVE st[i + 1] = N(st[i])
  BY <1>3, <1>5
<1>7. Starts(message, st)
  BY <1>4, <1>5, <1>6 DEF Starts, N
<1>8. QED
  BY <1>7

\* The beginning of a sequence of positions.
LEMMA SegmentFacts ==
    ASSUME NEW st \in [1..9 -> Nat \ {0}], NEW i \in 1..9
    PROVE  LET s == [j \in 1..i |-> st[j]]
           IN  s \in Seq(Nat) /\ Len(s) = i /\ \A j \in 1..i : s[j] = st[j]
<1>1. i \in Nat /\ \A j \in 1..i : st[j] \in Nat
  OBVIOUS
<1>2. [j \in 1..i |-> st[j]] \in [1..i -> Nat]
  BY <1>1
<1>3. QED
  BY <1>1, <1>2

\* split returns the fields that begin there.
LEMMA SplitFacts ==
    ASSUME NEW message, Len(message) \in Nat, NEW st, Starts(message, st)
    PROVE  \A i \in 0..7 :
              split(message)[i] = IF st[i + 1] <= Len(message) + 1
                                  THEN SubSeq(message, st[i + 1], st[i + 2] - 2)
                                  ELSE <<"undefined">>
<1> DEFINE Step(f, i) == IF i = 0 THEN <<1>>
                         ELSE LET s == f[i - 1] IN Append(s, Separator(message, s[i]) + 1)
           Ok(f) == f = [i \in 0..8 |-> Step(f, i)]
           g == [i \in 0..8 |-> [j \in 1..(i + 1) |-> st[j]]]
<1>1. /\ st[1] = 1 /\ st \in [1..9 -> Nat \ {0}]
      /\ \A i \in 1..8 : st[i + 1] = Separator(message, st[i]) + 1
  BY DEF Starts
<1>2. ASSUME NEW f, NEW i \in 1..8, f[i - 1] = [j \in 1..i |-> st[j]]
      PROVE  Step(f, i) = [j \in 1..(i + 1) |-> st[j]]
  <2> DEFINE s == [j \in 1..i |-> st[j]]
  <2>1. Step(f, i) = Append(s, Separator(message, s[i]) + 1)
    BY <1>2
  <2>2. s[i] = st[i]
    OBVIOUS
  <2>3. s \in Seq(Nat) /\ Len(s) = i
    <3>1. i \in 1..9
      OBVIOUS
    <3>2. QED
      BY ZenonT(20), <1>1, <3>1, SegmentFacts
  <2>4. Separator(message, s[i]) + 1 = st[i + 1]
    BY ZenonT(20), <1>1, <2>2
  <2>5. Append(s, st[i + 1]) = [j \in 1..(i + 1) |-> st[j]]
    <3> DEFINE u == [j \in 1..(i + 1) |-> st[j]]
    <3>1. /\ Append(s, st[i + 1]) \in Seq(Nat) /\ Len(Append(s, st[i + 1])) = i + 1
          /\ \A j \in 1..i : Append(s, st[i + 1])[j] = s[j]
          /\ Append(s, st[i + 1])[i + 1] = st[i + 1]
      <4> HIDE DEF s
      <4>1. st[i + 1] \in Nat
        <5>1. i + 1 \in 1..9
          OBVIOUS
        <5>2. QED
          BY ZenonT(20), <1>1, <5>1
      <4>2. QED
        BY <2>3, <4>1
    <3>2. u \in Seq(Nat) /\ Len(u) = i + 1
      <4>1. i + 1 \in 1..9
        OBVIOUS
      <4>2. QED
        BY ZenonT(20), <1>1, <4>1, SegmentFacts
    <3>3. \A j \in 1..(i + 1) : u[j] = st[j]
      OBVIOUS
    <3>4. \A j \in 1..i : s[j] = st[j]
      OBVIOUS
    <3> HIDE DEF s, u
    <3>5. \A j \in 1..(i + 1) : Append(s, st[i + 1])[j] = u[j]
      <4> SUFFICES ASSUME NEW j \in 1..(i + 1) PROVE Append(s, st[i + 1])[j] = u[j]
        BY ZenonT(20)
      <4>1. j \in 1..i \/ j = i + 1
        OBVIOUS
      <4>2. QED
        BY <3>1, <3>3, <3>4, <4>1
    <3>6. Append(s, st[i + 1]) = u
      BY <3>1, <3>2, <3>5
    <3>7. QED
      BY <3>6 DEF u
  <2>6. QED
    BY ZenonT(20), <2>1, <2>4, <2>5
<1>3. ASSUME NEW f PROVE Step(f, 0) = [j \in 1..(0 + 1) |-> st[j]]
  <2>1. Step(f, 0) = <<1>>
    OBVIOUS
  <2>2. <<1>> = [j \in 1..(0 + 1) |-> st[j]]
    BY <1>1
  <2>3. QED
    BY <2>1, <2>2
<1>4. Ok(g)
  <2>1. ASSUME NEW i \in 0..8 PROVE g[i] = Step(g, i)
    <3>1. g[i] = [j \in 1..(i + 1) |-> st[j]]
      OBVIOUS
    <3>2. CASE i = 0
      <4> HIDE DEF g, Step
      <4> QED BY <1>3, <3>1, <3>2
    <3>3. CASE i # 0
      <4>1. i \in 1..8 /\ i - 1 \in 0..8 /\ (i - 1) + 1 = i
        BY <3>3
      <4>2. g[i - 1] = [j \in 1..i |-> st[j]]
        BY <4>1
      <4> HIDE DEF g, Step
      <4>3. QED
        BY ZenonT(20), <1>2, <3>1, <4>1, <4>2
    <3>4. QED
      BY <3>2, <3>3
  <2>2. g = [i \in 0..8 |-> g[i]]
    OBVIOUS
  <2> HIDE DEF g, Step
  <2>3. QED
    BY <2>1, <2>2
<1>5. ASSUME NEW f, Ok(f) PROVE f[8] = [j \in 1..9 |-> st[j]]
  <2>1. ASSUME NEW i \in 0..8 PROVE f[i] = Step(f, i)
    <3> HIDE DEF Step
    <3> QED BY <1>5
  <2> HIDE DEF Step
  <2>2. f[0] = [j \in 1..1 |-> st[j]]
    BY <1>3, <2>1
  <2> DEFINE P(i) == f[i - 1] = [j \in 1..i |-> st[j]]
  <2>4. ASSUME NEW i \in 1..8, P(i) PROVE P(i + 1)
    <3>1. Step(f, i) = [j \in 1..(i + 1) |-> st[j]]
      BY ZenonT(20), <1>2, <2>4
    <3>2. f[i] = Step(f, i) /\ (i + 1) - 1 = i
      BY <2>1
    <3>3. QED
      BY <3>1, <3>2
  <2>5. P(1)
    BY <2>2
  <2> HIDE DEF P
  <2>6. P(2)
    BY <2>4, <2>5
  <2>7. P(3)
    BY <2>4, <2>6
  <2>8. P(4)
    BY <2>4, <2>7
  <2>9. P(5)
    BY <2>4, <2>8
  <2>10. P(6)
    BY <2>4, <2>9
  <2>11. P(7)
    BY <2>4, <2>10
  <2>12. P(8)
    BY <2>4, <2>11
  <2>13. P(9)
    BY <2>4, <2>12
  <2>14. QED
    BY <2>13 DEF P
<1> DEFINE c == CHOOSE f : Ok(f)
<1>6. split(message) = [i \in 0..7 |-> IF c[8][i + 1] <= Len(message) + 1
                                       THEN SubSeq(message, c[8][i + 1], c[8][i + 2] - 2)
                                       ELSE <<"undefined">>]
  BY DEF split
<1>7. c[8] = [j \in 1..9 |-> st[j]]
  <2> HIDE DEF Ok, g
  <2>1. Ok(c)
    BY <1>4
  <2> HIDE DEF c
  <2>2. QED
    BY <1>5, <2>1
<1> HIDE DEF c
<1>8. \A i \in 0..7 : c[8][i + 1] = st[i + 1] /\ c[8][i + 2] = st[i + 2]
  BY <1>7
<1>9. QED
  BY <1>6, <1>8

-----------------------------------------------------------------------------
(* The fields of a message whose separators are known.                     *)

\* A piece of a text.
LEMMA PieceFacts ==
    ASSUME NEW s \in Seq(Symbol), NEW a \in Nat \ {0}, NEW b \in Nat, b <= Len(s), a <= b + 1
    PROVE  /\ SubSeq(s, a, b) \in Seq(Symbol) /\ Len(SubSeq(s, a, b)) = b + 1 - a
           /\ \A i \in 1..(b + 1 - a) : SubSeq(s, a, b)[i] = s[a + i - 1]
OBVIOUS

\* A text after another one.
LEMMA ConcatFacts ==
    ASSUME NEW s \in Seq(Symbol), NEW t \in Seq(Symbol)
    PROVE  /\ s \o t \in Seq(Symbol) /\ Len(s \o t) = Len(s) + Len(t)
           /\ \A i \in 1..Len(s) : (s \o t)[i] = s[i]
           /\ \A i \in 1..Len(t) : (s \o t)[Len(s) + i] = t[i]
OBVIOUS

\* A piece of one symbol.
LEMMA OnePiece ==
    ASSUME NEW s \in Seq(Symbol), NEW a \in 1..Len(s)
    PROVE  SubSeq(s, a, a) = <<s[a]>>
<1>1. Len(s) \in Nat /\ a \in Nat \ {0} /\ a <= Len(s) /\ a <= a + 1 /\ a + 1 - a = 1 /\ a + 1 - 1 = a
  OBVIOUS
<1>2. /\ SubSeq(s, a, a) \in Seq(Symbol) /\ Len(SubSeq(s, a, a)) = 1
      /\ SubSeq(s, a, a)[1] = s[a]
  BY <1>1, PieceFacts
<1>4. ASSUME NEW p \in Seq(Symbol), Len(p) = 1 PROVE p = <<p[1]>>
  BY <1>4
<1>5. QED
  BY <1>2, <1>4, Zenon

\* A field, from the positions where it and the next one begin.
LEMMA FieldIs ==
    ASSUME NEW c \in Seq(Symbol), NEW st, Starts(c, st), NEW i \in 0..7, NEW j, j = i + 1,
           NEW k, k = i + 2, NEW a \in Nat, NEW b \in Nat, st[j] = a, st[k] = b + 2,
           a <= Len(c) + 1
    PROVE  split(c)[i] = SubSeq(c, a, b)
<1>1. Len(c) \in Nat
  OBVIOUS
<1>2. split(c)[i] = IF st[i + 1] <= Len(c) + 1 THEN SubSeq(c, st[i + 1], st[i + 2] - 2)
                    ELSE <<"undefined">>
  BY ZenonT(20), <1>1, SplitFacts
<1>3. split(c)[i] = SubSeq(c, st[i + 1], st[i + 2] - 2)
  BY ZenonT(20), <1>2
<1>4. st[i + 2] - 2 = b
  OBVIOUS
<1>5. QED
  BY ZenonT(20), <1>3, <1>4

\* The first field of a message whose first symbol stands alone.
LEMMA HeadingField ==
    ASSUME NEW c \in Seq(Symbol), Len(c) >= 1, c[1] # Sep, Len(c) >= 2 => c[2] = Sep
    PROVE  split(c)[0] = <<c[1]>>
<1>0. Len(c) \in Nat
  OBVIOUS
<1>1. PICK st : Starts(c, st)
  BY <1>0, StartsExist
<1>2. st[1] = 1 /\ st[1 + 1] = Separator(c, st[1]) + 1
  BY <1>1 DEF Starts
<1>3. Separator(c, 1) = 2
  <2>1. CASE Len(c) = 1
    <3>1. \A q \in 1..Len(c) : c[q] # Sep
      BY <2>1
    <3>2. Separator(c, 1) = Len(c) + 1
      BY <1>0, <3>1, SeparatorFacts
    <3>3. QED
      BY <2>1, <3>2
  <2>2. CASE Len(c) >= 2
    <3>1. 2 \in 1..Len(c) /\ c[2] = Sep /\ \A r \in 1..(2 - 1) : c[r] # Sep
      BY <2>2
    <3>2. QED
      BY <1>0, <3>1, SeparatorFacts
  <2>3. Len(c) = 1 \/ Len(c) >= 2
    BY <1>0
  <2>4. QED
    BY <2>1, <2>2, <2>3
<1>4. st[0 + 1] = 1 /\ st[0 + 2] = 1 + 2
  BY <1>2, <1>3
<1>5. split(c)[0] = SubSeq(c, 1, 1)
  <2>1. 0 \in 0..7 /\ 1 = 0 + 1 /\ 2 = 0 + 2 /\ 1 \in Nat /\ st[1] = 1 /\ st[2] = 1 + 2 /\ 1 <= Len(c) + 1
    BY <1>0, <1>4
  <2>2. QED
    BY SMTT(20), <1>1, <2>1, FieldIs
<1>6. QED
  BY <1>0, <1>5, OnePiece

\* c has the fields 0 to m - 1 at the positions p: each is without a separator, and one or the
\* end of the message follows.
Fielded(c, p, m) ==
    \A i \in 0..(m - 1) :
       /\ p[i] < p[i + 1] /\ p[i + 1] <= Len(c) + 2
       /\ \A j \in p[i]..(p[i + 1] - 2) : c[j] # Sep
       /\ p[i + 1] <= Len(c) + 1 => c[p[i + 1] - 1] = Sep

\* split finds these fields.
LEMMA FieldsFound ==
    ASSUME NEW c \in Seq(Symbol), NEW p \in [0..8 -> Nat], p[0] = 1, NEW m \in 1..8,
           Fielded(c, p, m), NEW i \in 0..(m - 1)
    PROVE  split(c)[i] = SubSeq(c, p[i], p[i + 1] - 2)
<1>0. Len(c) \in Nat
  OBVIOUS
<1>1. PICK st : Starts(c, st)
  BY <1>0, StartsExist
<1>2. ASSUME NEW j \in 0..(m - 1), st[j + 1] = p[j]
      PROVE  st[(j + 1) + 1] = p[j + 1]
  <2> DEFINE a == p[j]
             b == p[j + 1]
  <2>1. /\ a < b /\ b <= Len(c) + 2
        /\ \A k \in a..(b - 2) : c[k] # Sep
        /\ b <= Len(c) + 1 => c[b - 1] = Sep
    BY DEF Fielded
  <2>2. j \in 0..8 /\ j + 1 \in 0..8 /\ j + 1 \in 1..8 /\ j + 1 \in 1..9
    OBVIOUS
  <2>3. a \in Nat /\ b \in Nat
    BY <2>2, Zenon
  <2>4. a \in Nat \ {0} /\ st[(j + 1) + 1] = Separator(c, a) + 1
    BY <1>1, <1>2, <2>2, Zenon DEF Starts
  <2> HIDE DEF a, b
  <2>5. CASE b <= Len(c) + 1
    <3> DEFINE q == b - 1
    <3>1. q \in a..Len(c) /\ c[q] = Sep /\ b = q + 1
      BY <1>0, <2>1, <2>3, <2>5
    <3>2. \A k \in a..(q - 1) : c[k] # Sep
      BY <2>1, <2>3
    <3> HIDE DEF q
    <3>3. Separator(c, a) = q
      BY ZenonT(20), <1>0, <2>4, <3>1, <3>2, SeparatorFacts
    <3>4. QED
      BY <2>4, <3>1, <3>3 DEF b
  <2>6. CASE b = Len(c) + 2
    <3>1. \A k \in a..Len(c) : c[k] # Sep
      BY <1>0, <2>1, <2>3, <2>6
    <3>2. Separator(c, a) = Len(c) + 1
      BY ZenonT(20), <1>0, <2>4, <3>1, SeparatorFacts
    <3>3. QED
      BY <1>0, <2>4, <2>6, <3>2 DEF b
  <2>7. QED
    BY <1>0, <2>1, <2>3, <2>5, <2>6
<1>3. \A j \in 0..m : st[j + 1] = p[j]
  <2> DEFINE S == {j \in Nat : j <= m => st[j + 1] = p[j]}
  <2>1. ASSUME NEW j \in Nat, \A k \in 0..(j - 1) : k \in S PROVE j \in S
    <3>1. CASE j = 0
      BY <1>1, <3>1 DEF Starts
    <3>2. CASE j > 0 /\ j <= m
      <4>1. j - 1 \in 0..(m - 1) /\ j - 1 \in S /\ (j - 1) + 1 = j
        <5>1. j - 1 \in 0..(j - 1) /\ j - 1 \in 0..(m - 1) /\ (j - 1) + 1 = j
          BY <3>2
        <5>2. QED
          BY <2>1, <5>1, Zenon
      <4>2. st[(j - 1) + 1] = p[j - 1]
        <5>1. j - 1 <= m
          BY <3>2
        <5>2. QED
          BY <4>1, <5>1, Zenon
      <4>3. st[((j - 1) + 1) + 1] = p[(j - 1) + 1]
        BY ZenonT(20), <1>2, <4>1, <4>2
      <4>4. QED
        BY <4>1, <4>3
    <3>3. QED
      BY <3>1, <3>2
  <2> HIDE DEF S
  <2>2. Nat \subseteq S
    BY ZenonT(20), <2>1, Inductive
  <2>3. \A j \in 0..m : j \in Nat /\ j <= m
    OBVIOUS
  <2>4. QED
    BY <2>2, <2>3, Zenon DEF S
<1>4. /\ i \in 0..m /\ i + 1 \in 0..m /\ i \in 0..7 /\ (i + 1) + 1 = i + 2
      /\ p[i] \in Nat /\ p[i + 1] \in Nat
  OBVIOUS
<1>5. st[i + 1] = p[i] /\ st[i + 2] = p[i + 1]
  <2>1. st[(i + 1) + 1] = p[i + 1]
    BY ZenonT(20), <1>3, <1>4
  <2>2. QED
    BY ZenonT(20), <1>3, <1>4, <2>1
<1>6. p[i] <= Len(c) + 1
  <2>1. p[i] < p[i + 1] /\ p[i + 1] <= Len(c) + 2
    BY DEF Fielded
  <2>2. \A x \in Nat, y \in Nat, l \in Nat : x < y /\ y <= l + 2 => x <= l + 1
    BY ONLY SMT
  <2>3. QED
    BY <1>0, <1>4, <2>1, <2>2, Zenon
<1>7. split(c)[i] = IF st[i + 1] <= Len(c) + 1 THEN SubSeq(c, st[i + 1], st[i + 2] - 2)
                    ELSE <<"undefined">>
  BY ZenonT(20), <1>0, <1>1, <1>4, SplitFacts
<1>8. QED
  BY <1>5, <1>6, <1>7, Zenon

-----------------------------------------------------------------------------
(* The texts of the snapshots.                                             *)

\* s begins with t.
Begins(s, t) == /\ s \in Seq(Symbol) /\ t \in Seq(Symbol) /\ Len(t) <= Len(s)
                /\ \A i \in 1..Len(t) : s[i] = t[i]

\* What begins with a text begins with what that one begins with.
LEMMA BeginsTransitive ==
    ASSUME NEW s, NEW t, NEW u, Begins(s, t), Begins(t, u)
    PROVE  Begins(s, u)
<1>1. Len(s) \in Nat /\ Len(t) \in Nat /\ Len(u) \in Nat
  BY DEF Begins
<1>2. \A i \in 1..Len(u) : i \in 1..Len(t)
  BY <1>1 DEF Begins
<1>3. QED
  BY <1>1, <1>2 DEF Begins

\* u is s followed by t.
Joined(u, s, t) == /\ u \in Seq(Symbol) /\ Len(u) = Len(s) + Len(t)
                   /\ \A i \in 1..Len(s) : u[i] = s[i]
                   /\ \A i \in 1..Len(t) : u[Len(s) + i] = t[i]

\* Concatenation joins.
LEMMA ConcatJoins ==
    ASSUME NEW s \in Seq(Symbol), NEW t \in Seq(Symbol)
    PROVE  Joined(s \o t, s, t)
BY ConcatFacts, Zenon DEF Joined

\* A joined text begins with the first of the two.
LEMMA JoinedBegins ==
    ASSUME NEW u, NEW s \in Seq(Symbol), NEW t \in Seq(Symbol), Joined(u, s, t)
    PROVE  Begins(u, s)
<1>1. Len(s) \in Nat /\ Len(t) \in Nat
  OBVIOUS
<1>2. QED
  BY <1>1 DEF Begins, Joined

\* A text with one more symbol.
LEMMA Attached ==
    ASSUME NEW s \in Seq(Symbol), NEW x \in Symbol
    PROVE  /\ Begins(s \o <<x>>, s) /\ Len(s \o <<x>>) = Len(s) + 1
           /\ (s \o <<x>>)[Len(s) + 1] = x
<1> DEFINE t == <<x>>
           u == s \o t
<1>1. t \in Seq(Symbol) /\ Len(t) = 1 /\ t[1] = x
  OBVIOUS
<1> HIDE DEF t
<1>2. Joined(u, s, t)
  BY <1>1, ConcatJoins
<1> HIDE DEF u
<1>3. Begins(u, s)
  BY <1>1, <1>2, JoinedBegins
<1>4. Len(u) = Len(s) + 1 /\ u[Len(s) + 1] = x
  BY <1>1, <1>2 DEF Joined
<1>5. QED
  BY <1>3, <1>4, Zenon DEF u, t

\* Texts with the same symbols are equal.
LEMMA SequencesEqual ==
    ASSUME NEW s \in Seq(Symbol), NEW t \in Seq(Symbol), Len(s) = Len(t),
           \A i \in 1..Len(s) : s[i] = t[i]
    PROVE  s = t
OBVIOUS

\* Texts may be concatenated from either end.
LEMMA Associative ==
    ASSUME NEW s \in Seq(Symbol), NEW t \in Seq(Symbol), NEW u \in Seq(Symbol)
    PROVE  s \o (t \o u) = (s \o t) \o u
<1> DEFINE a == t \o u
           b == s \o t
           x == s \o a
           y == b \o u
<1>1. /\ a \in Seq(Symbol) /\ Len(a) = Len(t) + Len(u)
      /\ \A i \in 1..Len(t) : a[i] = t[i]
      /\ \A i \in (Len(t) + 1)..Len(a) : a[i] = u[i - Len(t)]
  OBVIOUS
<1>2. /\ b \in Seq(Symbol) /\ Len(b) = Len(s) + Len(t)
      /\ \A i \in 1..Len(s) : b[i] = s[i]
      /\ \A i \in (Len(s) + 1)..Len(b) : b[i] = t[i - Len(s)]
  OBVIOUS
<1>3. Len(s) \in Nat /\ Len(t) \in Nat /\ Len(u) \in Nat
  OBVIOUS
<1> HIDE DEF a, b
<1>4. /\ x \in Seq(Symbol) /\ Len(x) = Len(s) + Len(a)
      /\ \A i \in 1..Len(s) : x[i] = s[i]
      /\ \A i \in (Len(s) + 1)..Len(x) : x[i] = a[i - Len(s)]
  BY ZenonT(20), <1>1, Concatenated
<1>5. /\ y \in Seq(Symbol) /\ Len(y) = Len(b) + Len(u)
      /\ \A i \in 1..Len(b) : y[i] = b[i]
      /\ \A i \in (Len(b) + 1)..Len(y) : y[i] = u[i - Len(b)]
  BY ZenonT(20), <1>2, Concatenated
<1> HIDE DEF x, y
<1>6. Len(x) = Len(y)
  BY <1>1, <1>2, <1>3, <1>4, <1>5
<1>7. ASSUME NEW i \in 1..Len(x) PROVE x[i] = y[i]
  <2>1. CASE i <= Len(s)
    <3>1. i \in 1..Len(s) /\ i \in 1..Len(b)
      BY <1>2, <1>3, <2>1
    <3>2. QED
      BY <1>2, <1>4, <1>5, <3>1
  <2>2. CASE Len(s) < i /\ i <= Len(b)
    <3>1. /\ i \in (Len(s) + 1)..Len(x) /\ i \in (Len(s) + 1)..Len(b) /\ i \in 1..Len(b)
          /\ i - Len(s) \in 1..Len(t)
      BY <1>2, <1>3, <2>2
    <3>2. QED
      BY <1>1, <1>2, <1>4, <1>5, <3>1
  <2>3. CASE Len(b) < i
    <3>1. /\ i \in (Len(s) + 1)..Len(x) /\ i \in (Len(b) + 1)..Len(y)
          /\ i - Len(s) \in (Len(t) + 1)..Len(a) /\ (i - Len(s)) - Len(t) = i - Len(b)
      BY <1>1, <1>2, <1>3, <1>4, <1>6, <2>3
    <3>2. QED
      BY <1>1, <1>4, <1>5, <3>1
  <2>4. QED
    BY <1>2, <1>3, <2>1, <2>2, <2>3
<1>8. x = y
  BY <1>4, <1>5, <1>6, <1>7, SequencesEqual
<1>9. QED
  BY <1>8 DEF x, y, a, b

\* Appending is concatenating.
LEMMA Appended ==
    ASSUME NEW s \in Seq(Symbol), NEW x \in Symbol
    PROVE  Append(s, x) = s \o <<x>>
<1> DEFINE t == Append(s, x)
           u == s \o <<x>>
<1>1. t \in Seq(Symbol) /\ Len(t) = Len(s) + 1 /\ t[Len(s) + 1] = x /\ \A i \in 1..Len(s) : t[i] = s[i]
  OBVIOUS
<1>2. u \in Seq(Symbol) /\ Len(u) = Len(s) + 1 /\ u[Len(s) + 1] = x /\ \A i \in 1..Len(s) : u[i] = s[i]
  OBVIOUS
<1>3. Len(s) \in Nat /\ \A i \in 1..(Len(s) + 1) : i \in 1..Len(s) \/ i = Len(s) + 1
  OBVIOUS
<1> HIDE DEF t, u
<1>4. \A i \in 1..Len(t) : t[i] = u[i]
  BY <1>1, <1>2, <1>3
<1>5. t = u
  BY <1>1, <1>2, <1>4, SequencesEqual
<1>6. QED
  BY <1>5 DEF t, u

\* The symbols of the snapshots.
LEMMA SymbolFacts ==
    /\ Sep \in Symbol /\ NUL \in Symbol /\ "\n" \in Symbol /\ "D$S-A" \in Symbol
    /\ "D$S-D" \in Symbol /\ "DEVICE" \in Symbol /\ "ONLINE!" \in Symbol
BY DEF Symbol

-----------------------------------------------------------------------------
(* The fields of the snapshots.                                            *)

\* The values of dev_sensor_data_result.
Record == [temp : Integer, humi : Integer, mq2 : 0..INT_MAX, zph02 : Integer,
           relay1 : {OPEN, CLOSE}, relay2 : {OPEN, CLOSE}, beep : {OPEN, CLOSE}]
\* What a text may be made of.
Values(r) == /\ r.temp \in Int /\ r.humi \in Int /\ r.mq2 \in Nat /\ r.zph02 \in Int
             /\ r.relay1 \in {OPEN, CLOSE} /\ r.relay2 \in {OPEN, CLOSE}
             /\ r.beep \in {OPEN, CLOSE}

\* The first field of a snapshot.
Heading(n) == IF n = "all" THEN "D$S-A" ELSE "D$S-D"
\* The fields that the page looks at, and what they have.
Count(n) == IF n = "all" THEN 8 ELSE 5
Part(n, r, i) ==
    IF i = 0 THEN <<Heading(n)>>
    ELSE IF i = 1 THEN Fixed(r.temp)
    ELSE IF i = 2 THEN Fixed(r.humi)
    ELSE IF i = 3 THEN Fixed(r.mq2)
    ELSE IF i = 4 THEN IF n = "all" THEN Fixed(r.zph02) ELSE Fixed(r.zph02) \o <<"\n">>
    ELSE IF i = 5 THEN Decimal(r.relay1)
    ELSE IF i = 6 THEN Decimal(r.relay2)
    ELSE Decimal(r.beep)
\* What follows a field.
Ending(n, i) == IF n = "data" /\ i = 4 THEN NUL ELSE Sep

\* p has the positions of these fields.
Placed(p, n, r) ==
    /\ p \in [0..8 -> Nat] /\ p[0] = 1
    /\ \A i \in 0..(Count(n) - 1) : p[i + 1] = p[i] + Len(Part(n, r, i)) + 1

\* s begins with the fields 0 to m - 1.
Laid(s, p, n, r, m) ==
    /\ s \in Seq(Symbol) /\ p[m] <= Len(s) + 1
    /\ \A i \in 0..(m - 1) :
          /\ \A j \in 1..Len(Part(n, r, i)) : s[p[i] + j - 1] = Part(n, r, i)[j]
          /\ s[p[i + 1] - 1] = Ending(n, i)

\* s begins like the text n of the record r.
Shape(s, n, r) == \E p : Placed(p, n, r) /\ Laid(s, p, n, r, Count(n))

\* The values of a record are those of a text, and ints.
LEMMA RecordFacts ==
    ASSUME NEW r \in Record
    PROVE  /\ Values(r)
           /\ \A t \in {r.temp, r.humi, r.mq2, r.zph02} : t + INT_MAX + 1 >= 0 /\ t <= INT_MAX
<1>1. INT_MAX \in Nat
  BY SMT DEF INT_MAX
<1>2. /\ r.temp \in Integer /\ r.humi \in Integer /\ r.mq2 \in 0..INT_MAX /\ r.zph02 \in Integer
      /\ r.relay1 \in {OPEN, CLOSE} /\ r.relay2 \in {OPEN, CLOSE} /\ r.beep \in {OPEN, CLOSE}
  BY DEF Record
<1>3. \A t \in Integer : t \in Int /\ t + INT_MAX + 1 >= 0 /\ t <= INT_MAX
  BY <1>1 DEF Integer
<1>4. \A t \in 0..INT_MAX : t \in Nat /\ t + INT_MAX + 1 >= 0 /\ t <= INT_MAX
  BY <1>1
<1>5. QED
  BY <1>2, <1>3, <1>4, Zenon DEF Values

\* The measurements have no separator, no NUL and no newline.
LEMMA MeasureFacts ==
    ASSUME NEW t \in Int
    PROVE  /\ Fixed(t) \in Seq(Symbol) /\ Len(Fixed(t)) \in Nat \ {0}
           /\ \A i \in 1..Len(Fixed(t)) : Fixed(t)[i] \notin {Sep, NUL, "\n"}
<1>1. /\ Fixed(t) \in Seq(Symbol) /\ Len(Fixed(t)) \in Nat \ {0}
      /\ \A i \in 1..Len(Fixed(t)) : Fixed(t)[i] \in Numeral \cup {"-", "."}
  BY FixedSymbols, Zenon
<1>2. \A x \in Numeral \cup {"-", "."} : x \notin {Sep, NUL, "\n"}
  <2>1. "-" # "\n" /\ "." # "\n" /\ NUL # "-" /\ NUL # "." /\ Sep # "-" /\ Sep # "."
    BY SepFacts, NulFacts
  <2>2. QED
    BY <2>1, NumeralFacts, Zenon
<1>3. QED
  BY <1>1, <1>2, Zenon

\* The status of a switch is one digit, which tells OPEN from CLOSE.
LEMMA SwitchSymbol ==
    ASSUME NEW x \in {OPEN, CLOSE}
    PROVE  /\ Decimal(x) = <<Digit[x + 1]>> /\ Digit[x + 1] \in Numeral
           /\ Decimal(x) = Decimal(OPEN) <=> x = OPEN
<1>1. x \in Int /\ x \in 0..9 /\ OPEN \in Int /\ OPEN \in 0..9 /\ (x = OPEN \/ x = CLOSE) /\ x + 1 \in 3..4
  BY DEF OPEN, CLOSE
<1>2. Decimal(x) = <<Digit[x + 1]>> /\ Decimal(OPEN) = <<Digit[OPEN + 1]>>
  BY ZenonT(20), <1>1, DecimalFacts
<1>3. Digit[x + 1] \in Numeral
  BY <1>1, DigitFacts
<1>4. Decimal(x)[1] = Digit[x + 1] /\ Decimal(OPEN)[1] = Digit[OPEN + 1]
  BY <1>2
<1>5. Digit[CLOSE + 1] # Digit[OPEN + 1]
  BY DigitFacts DEF OPEN, CLOSE
<1>6. QED
  BY <1>1, <1>2, <1>3, <1>4, <1>5

\* A text of one symbol.
LEMMA Single ==
    ASSUME NEW x \in Symbol
    PROVE  <<x>> \in Seq(Symbol) /\ Len(<<x>>) = 1 /\ <<x>>[1] = x
OBVIOUS

\* So is that of a switch.
LEMMA SwitchFacts ==
    ASSUME NEW x \in {OPEN, CLOSE}
    PROVE  /\ Decimal(x) \in Seq(Symbol) /\ Len(Decimal(x)) = 1
           /\ \A i \in 1..Len(Decimal(x)) : Decimal(x)[i] \notin {Sep, NUL}
<1> DEFINE d == Digit[x + 1]
<1>1. Decimal(x) = <<d>> /\ d \in Numeral
  BY SwitchSymbol
<1> HIDE DEF d
<1>2. d \in Symbol /\ d # Sep /\ d # NUL
  BY <1>1, NumeralFacts
<1>3. QED
  BY <1>1, <1>2

\* The fields, one by one.
LEMMA PartIs ==
    ASSUME NEW n \in Names, NEW r
    PROVE  /\ Part(n, r, 0) = <<Heading(n)>> /\ Part(n, r, 1) = Fixed(r.temp)
           /\ Part(n, r, 2) = Fixed(r.humi) /\ Part(n, r, 3) = Fixed(r.mq2)
           /\ Part("all", r, 4) = Fixed(r.zph02)
           /\ Part("data", r, 4) = Fixed(r.zph02) \o <<"\n">>
           /\ Part(n, r, 5) = Decimal(r.relay1) /\ Part(n, r, 6) = Decimal(r.relay2)
           /\ Part(n, r, 7) = Decimal(r.beep)
BY DEF Part

\* How many there are.
LEMMA CountFacts ==
    /\ Count("all") = 8 /\ Count("data") = 5 /\ \A n : Count(n) \in 1..8
    /\ \A n \in Names : n = "all" \/ n = "data"
BY DEF Count, Names

\* A field has a symbol at least, and no separator and no NUL.
LEMMA PartFacts ==
    ASSUME NEW n \in Names, NEW r, Values(r), NEW i \in 0..(Count(n) - 1)
    PROVE  /\ Part(n, r, i) \in Seq(Symbol) /\ Len(Part(n, r, i)) \in Nat \ {0}
           /\ \A j \in 1..Len(Part(n, r, i)) : Part(n, r, i)[j] \notin {Sep, NUL}
<1> DEFINE Good(f) == /\ f \in Seq(Symbol) /\ Len(f) \in Nat \ {0}
                      /\ \A j \in 1..Len(f) : f[j] \notin {Sep, NUL}
<1>1. i \in 0..7 /\ (i = 0 \/ i = 1 \/ i = 2 \/ i = 3 \/ i = 4 \/ i = 5 \/ i = 6 \/ i = 7)
  BY CountFacts
<1>2. Good(<<Heading(n)>>)
  <2> DEFINE h == Heading(n)
  <2>1. h \in Symbol /\ h # Sep /\ h # NUL
    BY SymbolFacts, SepFacts, NulFacts DEF Heading
  <2> HIDE DEF h
  <2>2. Good(<<h>>)
    BY <2>1
  <2>3. QED
    BY <2>2 DEF h
<1>3. \A t \in Int : Good(Fixed(t))
  BY MeasureFacts, Zenon
<1>4. ASSUME NEW t \in Int PROVE Good(Fixed(t) \o <<"\n">>)
  <2> DEFINE f == Fixed(t)
             y == <<"\n">>
             u == f \o y
  <2>1. Good(f)
    BY <1>3
  <2>2. "\n" \in Symbol /\ "\n" # Sep /\ "\n" # NUL
    BY SymbolFacts, SepFacts, NulFacts
  <2> HIDE DEF f
  <2>3. u \in Seq(Symbol) /\ Len(u) = Len(f) + 1 /\ u[Len(f) + 1] = "\n" /\ \A j \in 1..Len(f) : u[j] = f[j]
    BY <2>1, <2>2
  <2>4. \A j \in 1..(Len(f) + 1) : j \in 1..Len(f) \/ j = Len(f) + 1
    BY <2>1
  <2> HIDE DEF u
  <2>5. Good(u)
    BY <2>1, <2>2, <2>3, <2>4
  <2>6. QED
    BY <2>5 DEF u, f
<1>5. ASSUME NEW x \in {OPEN, CLOSE} PROVE Good(Decimal(x))
  <2>1. 1 \in Nat \ {0}
    OBVIOUS
  <2>2. QED
    BY <2>1, SwitchFacts, Zenon
<1> HIDE DEF Good
<1>6. r.mq2 \in Int
  BY DEF Values
<1>7. Good(Part(n, r, i))
  <2>1. CASE i = 4
    BY <1>3, <1>4, <2>1, PartIs, CountFacts, Zenon DEF Values
  <2>2. CASE i # 4
    BY <1>1, <1>2, <1>3, <1>5, <1>6, <2>2, PartIs, Zenon DEF Values
  <2>3. QED
    BY <2>1, <2>2
<1>8. QED
  BY <1>7 DEF Good

\* There are such positions.
LEMMA PlacesExist ==
    ASSUME NEW n \in Names, NEW r, Values(r)
    PROVE  \E p : Placed(p, n, r)
<1> DEFINE L(i) == Len(Part(n, r, i))
           S == {m \in Nat : m <= Count(n) =>
                    \E p \in [0..8 -> Nat] :
                       p[0] = 1 /\ \A i \in 0..(m - 1) : p[i + 1] = p[i] + L(i) + 1}
<1>0. Count(n) \in 1..8 /\ \A i \in 0..(Count(n) - 1) : L(i) \in Nat
  BY CountFacts, PartFacts
<1> HIDE DEF L
<1>1. ASSUME NEW m \in Nat, \A k \in 0..(m - 1) : k \in S PROVE m \in S
  <2>1. CASE m = 0
    <3> DEFINE p == [i \in 0..8 |-> 1]
    <3>1. p \in [0..8 -> Nat] /\ p[0] = 1 /\ \A i \in 0..(m - 1) : p[i + 1] = p[i] + L(i) + 1
      BY <2>1
    <3> HIDE DEF p
    <3>2. QED
      BY <3>1
  <2>2. CASE m > 0 /\ m <= Count(n)
    <3>0. m - 1 \in S /\ m - 1 \in Nat /\ m - 1 <= Count(n) /\ m - 1 \in 0..(Count(n) - 1) /\ m \in 1..8
      BY <1>0, <1>1, <2>2
    <3>1. PICK p \in [0..8 -> Nat] :
             p[0] = 1 /\ \A i \in 0..((m - 1) - 1) : p[i + 1] = p[i] + L(i) + 1
      BY <3>0
    <3> DEFINE x == p[m - 1] + L(m - 1) + 1
               o == [p EXCEPT ![m] = x]
    <3>2. x \in Nat
      BY <1>0, <3>0, <3>1
    <3>3. o \in [0..8 -> Nat] /\ o[0] = 1 /\ o[m] = x /\ \A i \in 0..(m - 1) : o[i] = p[i]
      BY <3>0, <3>1, <3>2
    <3> HIDE DEF o
    <3>4. ASSUME NEW i \in 0..(m - 1) PROVE o[i + 1] = o[i] + L(i) + 1
      <4>1. CASE i = m - 1
        BY <3>0, <3>3, <4>1
      <4>2. CASE i # m - 1
        <5>1. i \in 0..((m - 1) - 1) /\ i + 1 \in 0..(m - 1)
          BY <4>2
        <5>2. QED
          BY <3>1, <3>3, <5>1
      <4>3. QED
        BY <4>1, <4>2
    <3>5. QED
      BY <3>3, <3>4
  <2>3. QED
    BY <1>0, <2>1, <2>2
<1> HIDE DEF S
<1>2. Nat \subseteq S
  BY ZenonT(20), <1>1, Inductive
<1>3. Count(n) \in S /\ Count(n) <= Count(n)
  BY <1>0, <1>2
<1>4. PICK p \in [0..8 -> Nat] :
         p[0] = 1 /\ \A i \in 0..(Count(n) - 1) : p[i + 1] = p[i] + L(i) + 1
  BY <1>3 DEF S
<1>5. Placed(p, n, r)
  BY <1>4 DEF Placed, L
<1>6. QED
  BY <1>5

\* The next field begins behind the field and what follows it.
LEMMA PlacedFacts ==
    ASSUME NEW n \in Names, NEW r, Values(r), NEW p, Placed(p, n, r)
    PROVE  /\ p \in [0..8 -> Nat] /\ p[0] = 1 /\ Count(n) \in 1..8
           /\ \A i \in 0..Count(n) : p[i] \in Nat \ {0}
           /\ \A i \in 0..(Count(n) - 1) :
                 /\ Len(Part(n, r, i)) \in Nat \ {0} /\ p[i + 1] = p[i] + Len(Part(n, r, i)) + 1
                 /\ \A m \in (i + 1)..Count(n) : p[i + 1] <= p[m]
<1>0. p \in [0..8 -> Nat] /\ p[0] = 1 /\ Count(n) \in 1..8
  BY CountFacts DEF Placed
<1>1. \A i \in 0..(Count(n) - 1) :
         Len(Part(n, r, i)) \in Nat \ {0} /\ p[i + 1] = p[i] + Len(Part(n, r, i)) + 1
  BY PartFacts DEF Placed
<1>2. \A i \in 0..(Count(n) - 1) : p[i] \in Nat /\ p[i + 1] \in Nat /\ p[i] < p[i + 1]
  <2> TAKE i \in 0..(Count(n) - 1)
  <2>1. i \in 0..8 /\ i + 1 \in 0..8
    BY <1>0
  <2>2. p[i] \in Nat /\ p[i + 1] \in Nat
    BY ONLY <1>0, <2>1
  <2>3. QED
    BY <1>1, <2>2
<1>3. ASSUME NEW i \in 0..Count(n) PROVE \A m \in i..Count(n) : p[i] <= p[m]
  <2> DEFINE S == {m \in Nat : i <= m /\ m <= Count(n) => p[i] <= p[m]}
  <2>1. ASSUME NEW m \in Nat, \A k \in 0..(m - 1) : k \in S PROVE m \in S
    <3>0. i \in 0..8 /\ p[i] \in Nat
      BY <1>0
    <3>1. CASE m = i
      BY <3>0, <3>1
    <3>2. CASE i < m /\ m <= Count(n)
      <4>1. m - 1 \in S /\ m - 1 \in 0..(Count(n) - 1) /\ i <= m - 1 /\ m - 1 <= Count(n) /\ (m - 1) + 1 = m
        BY <1>0, <2>1, <3>2
      <4>2. p[i] <= p[m - 1]
        BY <4>1
      <4>3. p[m - 1] < p[(m - 1) + 1] /\ p[m - 1] \in Nat /\ p[(m - 1) + 1] \in Nat
        BY <1>2, <4>1
      <4>4. QED
        BY <3>0, <4>1, <4>2, <4>3
    <3>3. QED
      BY <1>0, <3>1, <3>2
  <2> HIDE DEF S
  <2>2. Nat \subseteq S
    BY ZenonT(20), <2>1, Inductive
  <2>3. ASSUME NEW m \in i..Count(n) PROVE p[i] <= p[m]
    <3>1. m \in S /\ i <= m /\ m <= Count(n)
      BY <1>0, <2>2
    <3>2. QED
      BY <3>1 DEF S
  <2>4. QED
    BY <2>3
<1>4. ASSUME NEW i \in 0..Count(n) PROVE p[i] \in Nat \ {0}
  <2>1. 0 \in 0..Count(n) /\ i \in 0..Count(n) /\ i \in 0..8
    BY <1>0
  <2>2. p[0] <= p[i] /\ p[i] \in Nat
    BY <1>0, <1>3, <2>1
  <2>3. QED
    BY <1>0, <2>2
<1>5. ASSUME NEW i \in 0..(Count(n) - 1) PROVE \A m \in (i + 1)..Count(n) : p[i + 1] <= p[m]
  <2>1. i + 1 \in 0..Count(n)
    BY <1>0
  <2>2. QED
    BY <1>3, <2>1
<1>6. QED
  BY <1>0, <1>1, <1>4, <1>5

-----------------------------------------------------------------------------
(* The texts of the snapshots have these fields.                           *)

\* What begins with a text begins with its fields.
LEMMA LaidBegins ==
    ASSUME NEW n \in Names, NEW r, Values(r), NEW p, Placed(p, n, r), NEW m \in 0..Count(n),
           NEW t, Laid(t, p, n, r, m), NEW s, Begins(s, t)
    PROVE  Laid(s, p, n, r, m)
<1>0. /\ p \in [0..8 -> Nat] /\ Count(n) \in 1..8
      /\ \A i \in 0..Count(n) : p[i] \in Nat \ {0}
      /\ \A i \in 0..(Count(n) - 1) :
            /\ Len(Part(n, r, i)) \in Nat \ {0} /\ p[i + 1] = p[i] + Len(Part(n, r, i)) + 1
            /\ \A k \in (i + 1)..Count(n) : p[i + 1] <= p[k]
  BY PlacedFacts
<1>1. /\ s \in Seq(Symbol) /\ t \in Seq(Symbol) /\ Len(s) \in Nat /\ Len(t) \in Nat
      /\ Len(t) <= Len(s) /\ \A i \in 1..Len(t) : s[i] = t[i]
  BY DEF Begins
<1>2. p[m] \in Nat /\ p[m] <= Len(t) + 1
  BY <1>0 DEF Laid
<1>3. ASSUME NEW i \in 0..(m - 1)
      PROVE  /\ \A j \in 1..Len(Part(n, r, i)) : s[p[i] + j - 1] = Part(n, r, i)[j]
             /\ s[p[i + 1] - 1] = Ending(n, i)
  <2> DEFINE l == Len(Part(n, r, i))
             a == p[i]
             b == p[i + 1]
  <2>1. i \in 0..(Count(n) - 1) /\ i \in 0..Count(n) /\ m \in (i + 1)..Count(n)
    <3>1. \A c \in 1..8 : \A x \in 0..c : \A y \in 0..(x - 1) :
             y \in 0..(c - 1) /\ y \in 0..c /\ x \in (y + 1)..c
      BY ONLY SMT
    <3>2. QED
      BY <1>0, <3>1, Zenon
  <2>2. a \in Nat \ {0} /\ l \in Nat \ {0} /\ b = a + l + 1 /\ b <= p[m]
    BY <1>0, <2>1, Zenon
  <2>3. /\ \A j \in 1..l : t[a + j - 1] = Part(n, r, i)[j]
        /\ t[b - 1] = Ending(n, i)
    BY DEF Laid
  <2> HIDE DEF l, a, b
  <2>4. b - 1 \in 1..Len(t) /\ \A j \in 1..l : a + j - 1 \in 1..Len(t)
    BY <1>1, <1>2, <2>2
  <2>5. s[b - 1] = t[b - 1] /\ \A j \in 1..l : s[a + j - 1] = t[a + j - 1]
    BY <1>1, <2>4, Zenon
  <2>6. s[b - 1] = Ending(n, i) /\ \A j \in 1..l : s[a + j - 1] = Part(n, r, i)[j]
    BY <2>3, <2>5, Zenon
  <2>7. QED
    BY <2>6 DEF l, a, b
<1>4. p[m] <= Len(s) + 1
  BY <1>1, <1>2
<1>5. QED
  BY <1>1, <1>3, <1>4 DEF Laid

\* u has the fields 0 to m - 1 and nothing else.
Grown(u, p, n, r, m) == Laid(u, p, n, r, m) /\ p[m] = Len(u) + 1

\* One field is added.
LEMMA LaidNext ==
    ASSUME NEW n \in Names, NEW r, Values(r), NEW p, Placed(p, n, r), NEW m \in 0..(Count(n) - 1),
           NEW k, k = m + 1, NEW u, Grown(u, p, n, r, m)
    PROVE  Grown((u \o Part(n, r, m)) \o <<Ending(n, m)>>, p, n, r, k)
<1> DEFINE f == Part(n, r, m)
           w == u \o f
           e == Ending(n, m)
           v == w \o <<e>>
<1>a. m \in 0..Count(n)
  <2>1. \A c \in 1..8 : \A x \in 0..(c - 1) : x \in 0..c
    BY ONLY SMT
  <2>2. QED
    BY <2>1, CountFacts, Zenon
<1>0. /\ p \in [0..8 -> Nat] /\ Count(n) \in 1..8 /\ p[m] \in Nat \ {0}
      /\ Len(f) \in Nat \ {0} /\ p[m + 1] = p[m] + Len(f) + 1 /\ f \in Seq(Symbol)
  <2>1. /\ p \in [0..8 -> Nat] /\ Count(n) \in 1..8
        /\ \A i \in 0..Count(n) : p[i] \in Nat \ {0}
    BY PlacedFacts
  <2>2. Len(f) \in Nat \ {0} /\ f \in Seq(Symbol)
    BY PartFacts, Zenon
  <2>3. p[m + 1] = p[m] + Len(f) + 1
    BY Zenon DEF Placed
  <2>4. QED
    BY <1>a, <2>1, <2>2, <2>3, Zenon
<1>1. u \in Seq(Symbol) /\ e \in Symbol /\ Len(u) \in Nat /\ p[m] = Len(u) + 1 /\ Laid(u, p, n, r, m)
  BY SymbolFacts DEF Grown, Laid, Ending
<1>2. Joined(w, u, f)
  BY <1>0, <1>1, ConcatJoins
<1>3. v = w \o <<e>>
  BY DEF v
<1> HIDE DEF f, w, e, v
<1>4. w \in Seq(Symbol) /\ Len(w) = Len(u) + Len(f) /\ \A j \in 1..Len(f) : w[Len(u) + j] = f[j]
  BY <1>2, Zenon DEF Joined
<1>5. Begins(v, w) /\ Len(v) = Len(w) + 1 /\ v[Len(w) + 1] = e
  BY <1>1, <1>3, <1>4, Attached
<1>6. Begins(w, u)
  BY <1>0, <1>1, <1>2, JoinedBegins
<1>7. Begins(v, u)
  BY <1>5, <1>6, BeginsTransitive
<1>8. Laid(v, p, n, r, m)
  BY <1>a, <1>1, <1>7, LaidBegins, Zenon
<1>9. p[m + 1] = Len(v) + 1 /\ p[m + 1] - 1 = Len(w) + 1
  BY <1>0, <1>1, <1>4, <1>5
<1>10. ASSUME NEW j \in 1..Len(f) PROVE v[p[m] + j - 1] = f[j]
  <2>1. p[m] + j - 1 = Len(u) + j /\ Len(u) + j \in 1..Len(w)
    BY <1>0, <1>1, <1>4
  <2>2. v[Len(u) + j] = w[Len(u) + j]
    BY <1>5, <2>1 DEF Begins
  <2>3. QED
    BY <1>4, <2>1, <2>2
<1>11. v[p[m + 1] - 1] = Ending(n, m)
  BY <1>5, <1>9 DEF e
<1>12. ASSUME NEW i \in 0..(k - 1)
       PROVE  /\ \A j \in 1..Len(Part(n, r, i)) : v[p[i] + j - 1] = Part(n, r, i)[j]
              /\ v[p[i + 1] - 1] = Ending(n, i)
  <2>1. CASE i = m
    BY <1>10, <1>11, <2>1, Zenon DEF f
  <2>2. CASE i # m
    <3>1. i \in 0..(m - 1)
      BY <2>2
    <3>2. QED
      BY <1>8, <3>1, Zenon DEF Laid
  <2>3. QED
    BY <2>1, <2>2
<1>13. v \in Seq(Symbol) /\ p[k] = Len(v) + 1 /\ p[k] <= Len(v) + 1
  <2>1. v \in Seq(Symbol) /\ Len(v) \in Nat
    BY <1>5 DEF Begins
  <2>2. QED
    BY <1>9, <2>1
<1>14. QED
  BY <1>12, <1>13, Zenon DEF Grown, Laid, v, w, e, f

\* The heading and the measurements, up to the separator before the dust.
LEMMA MeasurementsLaid ==
    ASSUME NEW n \in Names, NEW r, Values(r), NEW p, Placed(p, n, r)
    PROVE  \E u : /\ Grown(u, p, n, r, 4)
                  /\ <<Heading(n)>> \o Measurements(r) = u \o Fixed(r.zph02)
<1> DEFINE h == <<Heading(n)>>
           s == <<Sep>>
           T == Fixed(r.temp)
           H == Fixed(r.humi)
           G == Fixed(r.mq2)
           Z == Fixed(r.zph02)
           a0 == <<>>
           a1 == (a0 \o h) \o s
           a2 == (a1 \o T) \o s
           a3 == (a2 \o H) \o s
           a4 == (a3 \o G) \o s
           m1 == s \o T
           m2 == m1 \o s
           m3 == m2 \o H
           m4 == m3 \o s
           m5 == m4 \o G
           m6 == m5 \o s
<1>1. /\ h = Part(n, r, 0) /\ T = Part(n, r, 1) /\ H = Part(n, r, 2) /\ G = Part(n, r, 3)
  BY PartIs, Zenon
<1>2. /\ Ending(n, 0) = Sep /\ Ending(n, 1) = Sep /\ Ending(n, 2) = Sep /\ Ending(n, 3) = Sep
  BY DEF Ending
<1>3. Measurements(r) = m6 \o Z
  BY Zenon DEF Measurements
<1>4. /\ h \in Seq(Symbol) /\ s \in Seq(Symbol) /\ T \in Seq(Symbol) /\ H \in Seq(Symbol)
      /\ G \in Seq(Symbol) /\ Z \in Seq(Symbol)
  <2>1. r.temp \in Int /\ r.humi \in Int /\ r.mq2 \in Int /\ r.zph02 \in Int
    BY DEF Values
  <2>2. Heading(n) \in Symbol /\ Sep \in Symbol
    BY SymbolFacts DEF Heading
  <2>3. h \in Seq(Symbol) /\ s \in Seq(Symbol)
    BY <2>2, Single
  <2>4. QED
    BY <2>1, <2>3, MeasureFacts, Zenon
<1>5. 0 \in 0..(Count(n) - 1) /\ 1 \in 0..(Count(n) - 1) /\ 2 \in 0..(Count(n) - 1)
      /\ 3 \in 0..(Count(n) - 1) /\ 1 = 0 + 1 /\ 2 = 1 + 1 /\ 3 = 2 + 1 /\ 4 = 3 + 1
  BY DEF Count
<1>6. a0 \in Seq(Symbol) /\ Len(a0) = 0
  OBVIOUS
<1>7. Grown(a0, p, n, r, 0)
  BY <1>6 DEF Grown, Laid, Placed
<1> HIDE DEF h, s, T, H, G, Z, a0
<1>8. Grown(a1, p, n, r, 1)
  <2> DEFINE v == (a0 \o Part(n, r, 0)) \o <<Ending(n, 0)>>
  <2>1. Grown(v, p, n, r, 1)
    BY ZenonT(20), <1>5, <1>7, LaidNext
  <2>2. v = a1
    BY ZenonT(20), <1>1, <1>2 DEF s
  <2>3. QED
    BY <2>1, <2>2, Zenon
<1> HIDE DEF a1
<1>9. Grown(a2, p, n, r, 2)
  <2> DEFINE v == (a1 \o Part(n, r, 1)) \o <<Ending(n, 1)>>
  <2>1. Grown(v, p, n, r, 2)
    BY ZenonT(20), <1>5, <1>8, LaidNext
  <2>2. v = a2
    BY ZenonT(20), <1>1, <1>2 DEF s
  <2>3. QED
    BY <2>1, <2>2, Zenon
<1> HIDE DEF a2
<1>10. Grown(a3, p, n, r, 3)
  <2> DEFINE v == (a2 \o Part(n, r, 2)) \o <<Ending(n, 2)>>
  <2>1. Grown(v, p, n, r, 3)
    BY ZenonT(20), <1>5, <1>9, LaidNext
  <2>2. v = a3
    BY ZenonT(20), <1>1, <1>2 DEF s
  <2>3. QED
    BY <2>1, <2>2, Zenon
<1> HIDE DEF a3
<1>11. Grown(a4, p, n, r, 4)
  <2> DEFINE v == (a3 \o Part(n, r, 3)) \o <<Ending(n, 3)>>
  <2>1. Grown(v, p, n, r, 4)
    BY ZenonT(20), <1>5, <1>10, LaidNext
  <2>2. v = a4
    BY ZenonT(20), <1>1, <1>2 DEF s
  <2>3. QED
    BY <2>1, <2>2, Zenon
<1> HIDE DEF a4, m1, m2, m3, m4, m5, m6
<1>12. ASSUME NEW x \in Seq(Symbol), NEW y \in Seq(Symbol) PROVE x \o y \in Seq(Symbol)
  BY Concatenated, Zenon
<1>13. /\ m1 \in Seq(Symbol) /\ m2 \in Seq(Symbol) /\ m3 \in Seq(Symbol) /\ m4 \in Seq(Symbol)
       /\ m5 \in Seq(Symbol) /\ m6 \in Seq(Symbol)
  <2>1. m1 \in Seq(Symbol)
    BY <1>4, <1>12, Zenon DEF m1
  <2>2. m2 \in Seq(Symbol)
    BY <1>4, <1>12, <2>1, Zenon DEF m2
  <2>3. m3 \in Seq(Symbol)
    BY <1>4, <1>12, <2>2, Zenon DEF m3
  <2>4. m4 \in Seq(Symbol)
    BY <1>4, <1>12, <2>3, Zenon DEF m4
  <2>5. m5 \in Seq(Symbol)
    BY <1>4, <1>12, <2>4, Zenon DEF m5
  <2>6. m6 \in Seq(Symbol)
    BY <1>4, <1>12, <2>5, Zenon DEF m6
  <2>7. QED
    BY <2>1, <2>2, <2>3, <2>4, <2>5, <2>6
<1>13a. \A x \in Seq(Symbol), y \in Seq(Symbol) : h \o (x \o y) = (h \o x) \o y
  BY <1>4, Associative
<1>14. h \o s = a1
  <2>1. a0 \o h = h
    BY <1>4 DEF a0
  <2>2. QED
    BY <2>1, Zenon DEF a1
<1>15. h \o m2 = a2
  <2>1. h \o m1 = (h \o s) \o T
    BY <1>4, <1>13a, Zenon DEF m1
  <2>2. h \o m2 = (h \o m1) \o s
    BY <1>4, <1>13, <1>13a, Zenon DEF m2
  <2>3. QED
    BY <1>14, <2>1, <2>2, Zenon DEF a2
<1>16. h \o m4 = a3
  <2>1. h \o m3 = (h \o m2) \o H
    BY <1>4, <1>13, <1>13a, Zenon DEF m3
  <2>2. h \o m4 = (h \o m3) \o s
    BY <1>4, <1>13, <1>13a, Zenon DEF m4
  <2>3. QED
    BY <1>15, <2>1, <2>2, Zenon DEF a3
<1>17. h \o m6 = a4
  <2>1. h \o m5 = (h \o m4) \o G
    BY <1>4, <1>13, <1>13a, Zenon DEF m5
  <2>2. h \o m6 = (h \o m5) \o s
    BY <1>4, <1>13, <1>13a, Zenon DEF m6
  <2>3. QED
    BY <1>16, <2>1, <2>2, Zenon DEF a4
<1>18. h \o (m6 \o Z) = a4 \o Z
  <2>1. h \o (m6 \o Z) = (h \o m6) \o Z
    BY <1>4, <1>13, <1>13a, Zenon
  <2>2. QED
    BY <1>17, <2>1, Zenon
<1>19. h \o Measurements(r) = a4 \o Z
  BY <1>3, <1>18
<1>20. QED
  BY <1>11, <1>19, Zenon DEF h, Z

\* The text of dev_sensor_all.
LEMMA SensorAllFacts ==
    ASSUME NEW r, Values(r), NEW junk \in Int, NEW p, Placed(p, "all", r)
    PROVE  LET s == SensorAll(r, junk)
           IN  /\ s \in Seq(Symbol) /\ Len(s) = p[8] + Len(Decimal(junk))
               /\ Laid(s, p, "all", r, 8)
<1> DEFINE n == "all"
           s == <<Sep>>
           Z == Fixed(r.zph02)
           D1 == Decimal(r.relay1)
           D2 == Decimal(r.relay2)
           D3 == Decimal(r.beep)
           j == Decimal(junk)
<1>0. n \in Names
  BY DEF Names
<1>1. PICK u : /\ Grown(u, p, n, r, 4)
               /\ <<Heading(n)>> \o Measurements(r) = u \o Fixed(r.zph02)
  BY <1>0, MeasurementsLaid
<1> DEFINE a5 == (u \o Z) \o s
           a6 == (a5 \o D1) \o s
           a7 == (a6 \o D2) \o s
           a8 == (a7 \o D3) \o s
           a9 == a8 \o j
           a10 == a9 \o <<"\n">>
<1>2. SensorAll(r, junk) = a10
  <2>1. Heading(n) = "D$S-A"
    BY DEF Heading
  <2>2. QED
    BY <1>1, <2>1, Zenon DEF SensorAll
<1>3. /\ Z = Part(n, r, 4) /\ D1 = Part(n, r, 5) /\ D2 = Part(n, r, 6) /\ D3 = Part(n, r, 7)
  BY <1>0, PartIs, Zenon
<1>4. /\ Ending(n, 4) = Sep /\ Ending(n, 5) = Sep /\ Ending(n, 6) = Sep /\ Ending(n, 7) = Sep
  BY DEF Ending
<1>5. 4 \in 0..(Count(n) - 1) /\ 5 \in 0..(Count(n) - 1) /\ 6 \in 0..(Count(n) - 1)
      /\ 7 \in 0..(Count(n) - 1) /\ 5 = 4 + 1 /\ 6 = 5 + 1 /\ 7 = 6 + 1 /\ 8 = 7 + 1
      /\ 8 \in 0..Count(n)
  BY DEF Count
<1>6. j \in Seq(Symbol) /\ Len(j) \in Nat
  BY ZenonT(20), DecimalFacts
<1>7. Placed(p, n, r)
  OBVIOUS
<1> HIDE DEF n, Z, D1, D2, D3, j
<1>8. Grown(a5, p, n, r, 5)
  <2> DEFINE v == (u \o Part(n, r, 4)) \o <<Ending(n, 4)>>
  <2>1. Grown(v, p, n, r, 5)
    BY ZenonT(20), <1>0, <1>1, <1>5, <1>7, LaidNext
  <2>2. v = a5
    BY ZenonT(20), <1>3, <1>4
  <2>3. QED
    BY <2>1, <2>2, Zenon
<1> HIDE DEF a5
<1>9. Grown(a6, p, n, r, 6)
  <2> DEFINE v == (a5 \o Part(n, r, 5)) \o <<Ending(n, 5)>>
  <2>1. Grown(v, p, n, r, 6)
    BY ZenonT(20), <1>0, <1>8, <1>5, <1>7, LaidNext
  <2>2. v = a6
    BY ZenonT(20), <1>3, <1>4
  <2>3. QED
    BY <2>1, <2>2, Zenon
<1> HIDE DEF a6
<1>10. Grown(a7, p, n, r, 7)
  <2> DEFINE v == (a6 \o Part(n, r, 6)) \o <<Ending(n, 6)>>
  <2>1. Grown(v, p, n, r, 7)
    BY ZenonT(20), <1>0, <1>9, <1>5, <1>7, LaidNext
  <2>2. v = a7
    BY ZenonT(20), <1>3, <1>4
  <2>3. QED
    BY <2>1, <2>2, Zenon
<1> HIDE DEF a7
<1>11. Grown(a8, p, n, r, 8)
  <2> DEFINE v == (a7 \o Part(n, r, 7)) \o <<Ending(n, 7)>>
  <2>1. Grown(v, p, n, r, 8)
    BY ZenonT(20), <1>0, <1>10, <1>5, <1>7, LaidNext
  <2>2. v = a8
    BY ZenonT(20), <1>3, <1>4
  <2>3. QED
    BY <2>1, <2>2, Zenon
<1>12. a8 \in Seq(Symbol) /\ Laid(a8, p, n, r, 8) /\ p[8] = Len(a8) + 1
  BY <1>11 DEF Grown, Laid
<1> HIDE DEF a8
<1>13. Joined(a9, a8, j)
  BY <1>6, <1>12, ConcatJoins
<1>14. Begins(a9, a8) /\ a9 \in Seq(Symbol) /\ Len(a9) = Len(a8) + Len(j)
  BY <1>6, <1>12, <1>13, JoinedBegins DEF Joined
<1> HIDE DEF a9
<1>15. Begins(a10, a9) /\ Len(a10) = Len(a9) + 1
  BY <1>14, Attached, SymbolFacts, Zenon
<1> HIDE DEF a10
<1>16. Begins(a10, a8)
  BY <1>14, <1>15, BeginsTransitive
<1>17. Laid(a10, p, n, r, 8)
  BY ZenonT(20), <1>0, <1>5, <1>7, <1>12, <1>16, LaidBegins
<1>18. Len(a10) = p[8] + Len(j) /\ a10 \in Seq(Symbol)
  <2>1. Len(a8) \in Nat /\ a10 \in Seq(Symbol)
    BY <1>12, <1>15 DEF Begins
  <2>2. QED
    BY <1>6, <1>12, <1>14, <1>15, <2>1
<1>19. QED
  BY <1>2, <1>17, <1>18, Zenon DEF n, j

\* The text of dev_sensor_data, with the NUL.
LEMMA SensorDataFacts ==
    ASSUME NEW r, Values(r), NEW p, Placed(p, "data", r)
    PROVE  LET s == SensorData(r)
           IN  /\ s \in Seq(Symbol) /\ Len(Append(s, NUL)) = Len(s) + 1
               /\ p[5] = Len(s) + 2 /\ Laid(Append(s, NUL), p, "data", r, 5)
<1> DEFINE n == "data"
           Z == Fixed(r.zph02)
           y == <<"\n">>
           z == Z \o y
<1>0. n \in Names
  BY DEF Names
<1>1. PICK u : /\ Grown(u, p, n, r, 4)
               /\ <<Heading(n)>> \o Measurements(r) = u \o Fixed(r.zph02)
  BY <1>0, MeasurementsLaid
<1> DEFINE s == (u \o Z) \o y
           v == (u \o z) \o <<NUL>>
<1>2. SensorData(r) = s
  <2>1. Heading(n) = "D$S-D"
    BY DEF Heading
  <2>2. QED
    BY <1>1, <2>1, Zenon DEF SensorData
<1>3. z = Part(n, r, 4) /\ Ending(n, 4) = NUL
  BY <1>0, PartIs, Zenon DEF Ending
<1>4. 4 \in 0..(Count(n) - 1) /\ 5 = 4 + 1
  BY DEF Count
<1>5. u \in Seq(Symbol) /\ Z \in Seq(Symbol) /\ y \in Seq(Symbol)
  <2>1. r.zph02 \in Int
    BY DEF Values
  <2>2. QED
    BY <1>1, <2>1, MeasureFacts, SymbolFacts, Single DEF Grown, Laid
<1>6. Placed(p, n, r)
  OBVIOUS
<1> HIDE DEF n, Z, y, z
<1>7. u \o z = s
  BY <1>5, Associative, Zenon DEF z
<1>8. Grown(v, p, n, r, 5)
  <2> DEFINE w == (u \o Part(n, r, 4)) \o <<Ending(n, 4)>>
  <2>1. Grown(w, p, n, r, 5)
    BY ZenonT(20), <1>0, <1>1, <1>4, <1>6, LaidNext
  <2>2. w = v
    BY ZenonT(20), <1>3
  <2>3. QED
    BY <2>1, <2>2, Zenon
<1>8a. Laid(v, p, n, r, 5) /\ p[5] = Len(v) + 1
  BY <1>8 DEF Grown
<1>9. s \in Seq(Symbol)
  <2>1. u \o Z \in Seq(Symbol)
    BY <1>5, Concatenated, Zenon
  <2>2. QED
    BY <1>5, <2>1, Concatenated, Zenon
<1> HIDE DEF s
<1>10. v = Append(s, NUL)
  BY <1>7, <1>9, Appended, SymbolFacts, Zenon DEF v
<1> HIDE DEF v
<1>11. Len(v) = Len(s) + 1 /\ Len(s) \in Nat
  BY <1>9, <1>10
<1>12. p[5] = Len(s) + 2
  BY <1>8a, <1>11
<1>13. QED
  BY <1>2, <1>8a, <1>9, <1>10, <1>11, <1>12, Zenon DEF n

\* Where the last field of a record ends at most.
LEMMA PlacedBound ==
    ASSUME NEW n \in Names, NEW r \in Record, NEW p, Placed(p, n, r)
    PROVE  (n = "all" => p[8] <= 69) /\ (n = "data" => p[5] <= 65)
<1> DEFINE T == {r.temp, r.humi, r.mq2, r.zph02}
<1>0. /\ Values(r) /\ \A t \in T : t \in Int /\ t + INT_MAX + 1 >= 0 /\ t <= INT_MAX
  <2>1. \A t \in T : t \in Int
    BY RecordFacts DEF Values
  <2>2. QED
    BY <2>1, RecordFacts, Zenon
<1> HIDE DEF T
<1>1. \A t \in T : Fixed(t) \in Seq(Symbol) /\ Len(Fixed(t)) \in Nat /\ Len(Fixed(t)) <= 14
  BY <1>0, FixedSymbols, Zenon
<1>2. \A i \in 0..(Count(n) - 1) : p[i + 1] = p[i] + Len(Part(n, r, i)) + 1
  BY DEF Placed
<1>3. p[0] = 1 /\ Len(Part(n, r, 0)) = 1
  <2>1. Len(<<Heading(n)>>) = 1
    OBVIOUS
  <2>2. QED
    BY <2>1, PartIs DEF Placed
<1>4. /\ Len(Part(n, r, 1)) \in Nat /\ Len(Part(n, r, 1)) <= 14
      /\ Len(Part(n, r, 2)) \in Nat /\ Len(Part(n, r, 2)) <= 14
      /\ Len(Part(n, r, 3)) \in Nat /\ Len(Part(n, r, 3)) <= 14
  BY <1>1, PartIs, Zenon DEF T
<1>5. 0 \in 0..(Count(n) - 1) /\ 1 \in 0..(Count(n) - 1) /\ 2 \in 0..(Count(n) - 1)
      /\ 3 \in 0..(Count(n) - 1) /\ 4 \in 0..(Count(n) - 1)
  BY DEF Count
<1>5a. 1 = 0 + 1 /\ 2 = 1 + 1 /\ 3 = 2 + 1 /\ 4 = 3 + 1 /\ 5 = 4 + 1
  OBVIOUS
<1>6. /\ p[1] = p[0] + Len(Part(n, r, 0)) + 1
      /\ p[2] = p[1] + Len(Part(n, r, 1)) + 1
      /\ p[3] = p[2] + Len(Part(n, r, 2)) + 1
      /\ p[4] = p[3] + Len(Part(n, r, 3)) + 1
      /\ p[5] = p[4] + Len(Part(n, r, 4)) + 1
  BY <1>2, <1>5, <1>5a, Zenon
<1>7. p[4] \in Nat /\ p[4] <= 48 /\ p[5] = p[4] + Len(Part(n, r, 4)) + 1
  <2>2. /\ 3 + 15 = 18 /\ 18 + 15 = 33 /\ 33 + 15 = 48 /\ 1 + 1 + 1 = 3
        /\ 3 \in Nat /\ 18 \in Nat /\ 33 \in Nat /\ 3 <= 3
    BY ONLY SMT
  <2>3. p[1] = 3
    BY <1>3, <1>6, <2>2, Zenon
  <2>4. p[2] \in Nat /\ p[2] <= 18
    <3>1. p[1] \in Nat /\ p[1] <= 3 /\ p[2] = p[1] + Len(Part(n, r, 1)) + 1
      BY <1>6, <2>2, <2>3, Zenon
    <3>2. QED
      BY ONLY <1>4, <3>1, SMT
  <2>5. p[3] \in Nat /\ p[3] <= 33
    <3>1. p[2] \in Nat /\ p[2] <= 18 /\ p[3] = p[2] + Len(Part(n, r, 2)) + 1
      BY <1>6, <2>2, <2>4, Zenon
    <3>2. QED
      BY ONLY <1>4, <3>1, SMT
  <2>6. p[4] \in Nat /\ p[4] <= 48
    <3>1. p[3] \in Nat /\ p[3] <= 33 /\ p[4] = p[3] + Len(Part(n, r, 3)) + 1
      BY <1>6, <2>2, <2>5, Zenon
    <3>2. QED
      BY ONLY <1>4, <3>1, SMT
  <2>7. QED
    BY <1>6, <2>2, <2>6, Zenon
<1>8. ASSUME n = "all" PROVE p[8] <= 69
  <2>1. Len(Part(n, r, 4)) \in Nat /\ Len(Part(n, r, 4)) <= 14
    BY <1>1, <1>8, PartIs, Zenon DEF T
  <2>2. Len(Part(n, r, 5)) = 1 /\ Len(Part(n, r, 6)) = 1 /\ Len(Part(n, r, 7)) = 1
    BY <1>0, SwitchFacts, PartIs, Zenon DEF Values
  <2>3. 5 \in 0..(Count(n) - 1) /\ 6 \in 0..(Count(n) - 1) /\ 7 \in 0..(Count(n) - 1)
    BY <1>8 DEF Count
  <2>4. /\ p[5 + 1] = p[5] + Len(Part(n, r, 5)) + 1
        /\ p[6 + 1] = p[6] + Len(Part(n, r, 6)) + 1
        /\ p[7 + 1] = p[7] + Len(Part(n, r, 7)) + 1
    BY <1>2, <2>3, Zenon
  <2>5. QED
    <3>1. 5 + 1 = 6 /\ 6 + 1 = 7 /\ 7 + 1 = 8
      BY ONLY SMT
    <3>2. p[6] = p[5] + 1 + 1 /\ p[7] = p[6] + 1 + 1 /\ p[8] = p[7] + 1 + 1
      BY <2>2, <2>4, <3>1, Zenon
    <3>3. \A x \in Nat, y \in Nat : x <= 48 /\ y <= 14 => x + y + 1 + 1 + 1 + 1 + 1 + 1 + 1 <= 69
      BY ONLY SMT
    <3>4. QED
      BY <1>7, <2>1, <3>2, <3>3, Zenon
<1>9. ASSUME n = "data" PROVE p[5] <= 65
  <2> DEFINE f == Fixed(r.zph02)
  <2>1. f \in Seq(Symbol) /\ Len(f) \in Nat /\ Len(f) <= 14 /\ Part(n, r, 4) = f \o <<"\n">>
    BY <1>1, <1>9, PartIs, Zenon DEF T
  <2> HIDE DEF f
  <2>2. Len(Part(n, r, 4)) = Len(f) + 1
    BY <2>1, Attached, SymbolFacts
  <2>3. QED
    BY ONLY <1>7, <2>1, <2>2
<1>10. QED
  BY <1>8, <1>9

\* The texts that rt_sprintf writes have the shape of their record, and fit in 81 symbols
\* with the NUL.
LEMMA TextFacts ==
    ASSUME NEW r, Values(r), NEW junk \in Junk, NEW n \in Names
    PROVE  /\ TextOf(n, r, junk) \in Seq(Symbol)
           /\ Shape(Append(TextOf(n, r, junk), NUL), n, r)
           /\ r \in Record => Len(TextOf(n, r, junk)) <= 80
<1>0. junk \in Int /\ junk + INT_MAX + 1 >= 0 /\ junk <= INT_MAX
  <2>1. INT_MAX \in Nat
    BY SMT DEF INT_MAX
  <2>2. junk \in Integer
    BY JunkAssumption
  <2>3. QED
    BY <2>1, <2>2 DEF Integer
<1>1. Len(Decimal(junk)) \in Nat /\ Len(Decimal(junk)) <= 11
  BY ZenonT(20), <1>0, DecimalFacts
<1>2. PICK p : Placed(p, n, r)
  BY PlacesExist
<1>3. CASE n = "all"
  <2> DEFINE s == SensorAll(r, junk)
             j == Decimal(junk)
             t == Append(s, NUL)
  <2>1. s \in Seq(Symbol) /\ Len(s) = p[8] + Len(j) /\ Laid(s, p, n, r, 8)
    BY <1>0, <1>2, <1>3, SensorAllFacts
  <2>2. TextOf(n, r, junk) = s /\ Count(n) = 8 /\ 8 \in 0..Count(n)
    BY <1>3 DEF TextOf, Count
  <2> HIDE DEF s, j
  <2>3. Begins(t, s)
    BY <2>1, SymbolFacts, Attached, Appended, Zenon
  <2> HIDE DEF t
  <2>4. Laid(t, p, n, r, 8)
    BY ZenonT(20), <1>2, <2>1, <2>2, <2>3, LaidBegins
  <2>5. Shape(t, n, r)
    BY ZenonT(20), <1>2, <2>2, <2>4 DEF Shape
  <2>6. ASSUME r \in Record PROVE Len(s) <= 80
    <3>1. p[8] <= 69
      BY <1>2, <1>3, <2>6, PlacedBound, Zenon
    <3>2. p[8] \in Nat
      BY <1>2 DEF Placed
    <3>3. QED
      BY ONLY <1>1, <2>1, <3>1, <3>2 DEF j
  <2>7. QED
    BY <2>1, <2>2, <2>5, <2>6 DEF t
<1>4. CASE n = "data"
  <2> DEFINE s == SensorData(r)
             t == Append(s, NUL)
  <2>1. s \in Seq(Symbol) /\ p[5] = Len(s) + 2 /\ Laid(t, p, n, r, 5)
    BY <1>2, <1>4, SensorDataFacts
  <2>2. TextOf(n, r, junk) = s /\ Count(n) = 5
    BY <1>4 DEF TextOf, Count
  <2> HIDE DEF s, t
  <2>3. Shape(t, n, r)
    BY ZenonT(20), <1>2, <2>1, <2>2 DEF Shape
  <2>4. ASSUME r \in Record PROVE Len(s) <= 80
    <3>1. p[5] <= 65
      BY <1>2, <1>4, <2>4, PlacedBound, Zenon
    <3>2. Len(s) \in Nat
      BY <2>1
    <3>3. QED
      BY ONLY <2>1, <3>1, <3>2
  <2>5. QED
    BY <2>1, <2>2, <2>3, <2>4 DEF t
<1>5. QED
  BY <1>3, <1>4, CountFacts

-----------------------------------------------------------------------------
(* Texts in a buffer.                                                      *)

\* The symbols of a torn text.
LEMMA BlendFacts ==
    ASSUME NEW a \in Seq(Symbol), NEW b \in Seq(Symbol), NEW k \in 0..Len(b)
    PROVE  /\ Blend(a, b, k) \in Seq(Symbol)
           /\ Len(Blend(a, b, k)) = IF k <= Len(a) THEN Len(a) ELSE k
           /\ \A i \in 1..k : Blend(a, b, k)[i] = b[i]
           /\ \A i \in (k + 1)..Len(a) : Blend(a, b, k)[i] = a[i]
<1> DEFINE x == SubSeq(b, 1, k)
           y == SubSeq(a, k + 1, Len(a))
           u == x \o y
<1>0. k \in Nat /\ Len(a) \in Nat /\ Len(b) \in Nat /\ k <= Len(b)
  OBVIOUS
<1>1. x \in Seq(Symbol) /\ Len(x) = k /\ \A i \in 1..k : x[i] = b[i]
  BY <1>0
<1>2. /\ y \in Seq(Symbol) /\ Len(y) = IF k <= Len(a) THEN Len(a) - k ELSE 0
      /\ \A i \in 1..Len(y) : y[i] = a[k + i]
  <2>1. CASE k <= Len(a)
    BY <1>0, <2>1
  <2>2. CASE k > Len(a)
    BY <1>0, <2>2
  <2>3. QED
    BY <1>0, <2>1, <2>2
<1> HIDE DEF x, y
<1>3. Joined(u, x, y)
  BY <1>1, <1>2, ConcatJoins, Zenon
<1>4. u = Blend(a, b, k)
  BY Zenon DEF Blend, x, y
<1> HIDE DEF u
<1>5. u \in Seq(Symbol) /\ Len(u) = IF k <= Len(a) THEN Len(a) ELSE k
  BY <1>0, <1>1, <1>2, <1>3 DEF Joined
<1>6. \A i \in 1..k : u[i] = b[i]
  BY <1>0, <1>1, <1>3 DEF Joined
<1>7. ASSUME NEW i \in (k + 1)..Len(a) PROVE u[i] = a[i]
  <2>1. i - k \in 1..Len(y) /\ k + (i - k) = i
    BY <1>0, <1>2
  <2>2. u[k + (i - k)] = y[i - k] /\ y[i - k] = a[k + (i - k)]
    BY <1>1, <1>2, <1>3, <2>1 DEF Joined
  <2>3. QED
    BY <2>1, <2>2
<1>8. QED
  BY <1>4, <1>5, <1>6, <1>7, Zenon

\* What is visible of a buffer is its beginning, up to the first NUL at least.
LEMMA VisibleFacts ==
    ASSUME NEW b \in Seq(Symbol), NEW m \in 0..Len(b), \A i \in 1..m : b[i] # NUL
    PROVE  /\ Visible(b) \in Seq(Symbol) /\ Len(Visible(b)) \in m..Len(b)
           /\ \A i \in 1..Len(Visible(b)) : Visible(b)[i] = b[i]
           /\ m < Len(b) /\ b[m + 1] = NUL => Len(Visible(b)) = m
<1> DEFINE T == {i \in 1..Len(b) : b[i] = NUL} \cup {Len(b) + 1}
           e == Min(T)
           v == SubSeq(b, 1, e - 1)
<1>0. Len(b) \in Nat /\ m \in Nat
  OBVIOUS
<1>1. T \subseteq Nat /\ T # {} /\ \A i \in T : i \in (m + 1)..(Len(b) + 1)
  BY <1>0
<1>1a. m < Len(b) /\ b[m + 1] = NUL => m + 1 \in T
  BY <1>0
<1>2. v = Visible(b)
  BY Zenon DEF Visible
<1> HIDE DEF T
<1>3. e \in T /\ \A i \in T : e <= i
  BY ZenonT(20), <1>1, MinFacts
<1> HIDE DEF e
<1>4. e - 1 \in m..Len(b)
  BY <1>0, <1>1, <1>3
<1>5. v \in Seq(Symbol) /\ Len(v) = e - 1 /\ \A i \in 1..(e - 1) : v[i] = b[i]
  BY <1>0, <1>4
<1>5a. m < Len(b) /\ b[m + 1] = NUL => e - 1 = m
  <2>1. ASSUME m + 1 \in T PROVE e - 1 = m
    <3>1. e \in Nat /\ e <= m + 1
      BY <1>1, <1>3, <2>1, Zenon
    <3>2. QED
      BY <1>0, <1>4, <3>1
  <2>2. QED
    BY <1>1a, <2>1
<1> HIDE DEF v
<1>6. QED
  BY <1>2, <1>4, <1>5, <1>5a


\* What begins with the text of a record has its shape.
LEMMA ShapeBegins ==
    ASSUME NEW s \in Seq(Symbol), NEW t, NEW n \in Names, NEW r, Values(r), Shape(t, n, r),
           Len(t) <= Len(s), \A i \in 1..Len(t) : s[i] = t[i]
    PROVE  Shape(s, n, r)
<1>1. PICK p : Placed(p, n, r) /\ Laid(t, p, n, r, Count(n))
  BY DEF Shape
<1>2. Begins(s, t)
  BY <1>1 DEF Laid, Begins
<1>3. Count(n) \in 0..Count(n)
  <2>1. Count(n) \in 1..8
    BY CountFacts
  <2>2. QED
    BY <2>1
<1>4. Laid(s, p, n, r, Count(n))
  BY <1>1, <1>2, <1>3, LaidBegins, Zenon
<1>5. QED
  BY <1>1, <1>4, Zenon DEF Shape

\* Fields of the same length are at the same positions.
LEMMA SamePlaces ==
    ASSUME NEW n \in Names, NEW q, NEW r, Values(q), Values(r),
           \A i \in 0..(Count(n) - 1) : Len(Part(n, q, i)) = Len(Part(n, r, i)),
           NEW p, Placed(p, n, q), NEW t, Shape(t, n, r)
    PROVE  Placed(p, n, r) /\ Laid(t, p, n, r, Count(n))
<1>1. PICK o : Placed(o, n, r) /\ Laid(t, o, n, r, Count(n))
  BY DEF Shape
<1>2. Placed(p, n, r)
  BY Zenon DEF Placed
<1>3. Count(n) \in 1..8
  BY CountFacts
<1>4. \A i \in 0..Count(n) : p[i] = o[i]
  <2> DEFINE S == {i \in Nat : i <= Count(n) => p[i] = o[i]}
  <2>1. ASSUME NEW i \in Nat, \A k \in 0..(i - 1) : k \in S PROVE i \in S
    <3>1. CASE i = 0
      BY <1>1, <1>2, <3>1 DEF Placed
    <3>2. CASE i > 0 /\ i <= Count(n)
      <4> DEFINE k == i - 1
      <4>1. k \in 0..(i - 1) /\ k \in 0..(Count(n) - 1) /\ k <= Count(n) /\ k + 1 = i
        BY <1>3, <3>2
      <4> HIDE DEF k
      <4>2. p[k] = o[k]
        BY <2>1, <4>1, Zenon
      <4>3. p[k + 1] = o[k + 1]
        BY <1>1, <1>2, <4>1, <4>2, Zenon DEF Placed
      <4>4. QED
        BY <4>1, <4>3
    <3>3. QED
      BY <1>3, <3>1, <3>2
  <2> HIDE DEF S
  <2>2. Nat \subseteq S
    BY ZenonT(20), <2>1, Inductive
  <2>3. \A i \in 0..Count(n) : i \in Nat /\ i <= Count(n)
    BY <1>3
  <2>4. QED
    BY <2>2, <2>3, Zenon DEF S
<1>5. Laid(t, p, n, r, Count(n))
  <2>1. /\ Count(n) \in 0..Count(n)
        /\ \A i \in 0..(Count(n) - 1) : i \in 0..Count(n) /\ i + 1 \in 0..Count(n)
    BY <1>3
  <2>2. /\ p[Count(n)] = o[Count(n)]
        /\ \A i \in 0..(Count(n) - 1) : p[i] = o[i] /\ p[i + 1] = o[i + 1]
    BY <1>4, <2>1, Zenon
  <2>3. QED
    BY <1>1, <2>2, Zenon DEF Laid
<1>6. QED
  BY <1>2, <1>5

-----------------------------------------------------------------------------
(* What the page makes of a torn text.                                     *)

\* The symbols that decide what the page shows.
Checked(p, n) == IF n = "all" THEN p[8] - 1 ELSE p[5] - 2

\* As far as they go, the symbols of c are those of t up to k and those of s from there.
Torn(c, s, t, k, p, n) ==
    /\ c \in Seq(Symbol) /\ Len(c) >= Checked(p, n) /\ (n = "data" => Len(c) = Checked(p, n))
    /\ \A i \in 1..Checked(p, n) : c[i] = IF i <= k THEN t[i] ELSE s[i]

\* The texts s of q and t of r have their fields at the same positions.
Fitting(s, t, p, n, q, r) ==
    /\ Values(q) /\ Placed(p, n, q) /\ Laid(s, p, n, q, Count(n))
    /\ Values(r) /\ Placed(p, n, r) /\ Laid(t, p, n, r, Count(n))

\* The positions of the field i.
Located(p, n, r, i) ==
    /\ p[i] \in Nat \ {0} /\ Len(Part(n, r, i)) \in Nat \ {0}
    /\ p[i + 1] = p[i] + Len(Part(n, r, i)) + 1
    /\ Checked(p, n) \in Nat
    /\ \A j \in 1..Len(Part(n, r, i)) : p[i] + j - 1 \in 1..Checked(p, n)
    /\ n = "all" => p[i + 1] - 1 \in 1..Checked(p, n)
    /\ n = "data" => p[i + 1] <= Checked(p, n) + 2
    /\ n = "data" /\ i = 4 => p[i + 1] = Checked(p, n) + 2

\* The fields of a text are located so.
LEMMA FieldPlace ==
    ASSUME NEW n \in Names, NEW r, Values(r), NEW p, Placed(p, n, r), NEW i \in 0..(Count(n) - 1)
    PROVE  Located(p, n, r, i)
<1> DEFINE l == Len(Part(n, r, i))
           a == p[i]
           b == p[i + 1]
           m == Checked(p, n)
<1>1. /\ Count(n) \in 1..8 /\ \A j \in 0..Count(n) : p[j] \in Nat \ {0}
      /\ \A j \in 0..(Count(n) - 1) :
            /\ Len(Part(n, r, j)) \in Nat \ {0} /\ p[j + 1] = p[j] + Len(Part(n, r, j)) + 1
            /\ \A k \in (j + 1)..Count(n) : p[j + 1] <= p[k]
  BY PlacedFacts
<1>2. \A c \in 1..8 : \A x \in 0..(c - 1) : x \in 0..c /\ c \in (x + 1)..c /\ c \in 0..c
  BY ONLY SMT
<1>3. i \in 0..Count(n) /\ Count(n) \in (i + 1)..Count(n) /\ Count(n) \in 0..Count(n)
  BY <1>1, <1>2, Zenon
<1>4. a \in Nat \ {0} /\ l \in Nat \ {0} /\ b = a + l + 1 /\ b <= p[Count(n)] /\ p[Count(n)] \in Nat
  BY <1>1, <1>3, Zenon
<1>5. /\ n = "all" => m = p[Count(n)] - 1
      /\ n = "data" => m = p[Count(n)] - 2
      /\ n = "data" /\ i = 4 => b = p[Count(n)]
  BY DEF Checked, Count
<1> HIDE DEF l, a, b, m
<1>6. CASE n = "all"
  <2>1. m \in Nat /\ b - 1 \in 1..m /\ \A j \in 1..l : a + j - 1 \in 1..m
    BY <1>4, <1>5, <1>6
  <2>2. QED
    BY <1>4, <1>6, <2>1 DEF l, a, b, m, Located
<1>7. CASE n = "data"
  <2>1. m \in Nat /\ b <= m + 2 /\ (i = 4 => b = m + 2) /\ \A j \in 1..l : a + j - 1 \in 1..m
    BY <1>4, <1>5, <1>7
  <2>2. QED
    BY <1>4, <1>7, <2>1 DEF l, a, b, m, Located
<1>8. QED
  BY <1>6, <1>7, CountFacts

\* The symbols of the field i of a torn text.
Mixed(c, k, p, n, q, r, i) ==
    /\ Len(Part(n, q, i)) \in Nat \ {0} /\ Len(Part(n, r, i)) = Len(Part(n, q, i))
    /\ p[i] \in Nat \ {0} /\ p[i + 1] = p[i] + Len(Part(n, q, i)) + 1
    /\ p[i + 1] <= Len(c) + 2
    /\ \A j \in 1..Len(Part(n, q, i)) :
          c[p[i] + j - 1] = IF p[i] + j - 1 <= k THEN Part(n, r, i)[j] ELSE Part(n, q, i)[j]
    /\ p[i + 1] <= Len(c) + 1 => c[p[i + 1] - 1] = Sep

\* The fields of a torn text are mixed so.
LEMMA TornSymbols ==
    ASSUME NEW n \in Names, NEW p, NEW q, NEW r, NEW s, NEW t, Fitting(s, t, p, n, q, r),
           NEW k \in Nat, NEW c, Torn(c, s, t, k, p, n), NEW i \in 0..(Count(n) - 1)
    PROVE  Mixed(c, k, p, n, q, r, i)
<1> DEFINE l == Len(Part(n, q, i))
           o == Len(Part(n, r, i))
           a == p[i]
           b == p[i + 1]
           m == Checked(p, n)
<1>1. /\ Values(q) /\ Placed(p, n, q) /\ Laid(s, p, n, q, Count(n))
      /\ Values(r) /\ Placed(p, n, r) /\ Laid(t, p, n, r, Count(n))
  BY DEF Fitting
<1>1a. Located(p, n, q, i) /\ Located(p, n, r, i)
  BY <1>1, FieldPlace, Zenon
<1>2. /\ a \in Nat \ {0} /\ l \in Nat \ {0} /\ b = a + l + 1 /\ m \in Nat
      /\ \A j \in 1..l : a + j - 1 \in 1..m
      /\ n = "all" => b - 1 \in 1..m
      /\ n = "data" => b <= m + 2
      /\ n = "data" /\ i = 4 => b = m + 2
  BY <1>1a, Zenon DEF Located
<1>3. o \in Nat \ {0} /\ b = a + o + 1
  BY <1>1a, Zenon DEF Located
<1>4. /\ \A j \in 1..l : s[a + j - 1] = Part(n, q, i)[j]
      /\ \A j \in 1..o : t[a + j - 1] = Part(n, r, i)[j]
      /\ s[b - 1] = Ending(n, i) /\ t[b - 1] = Ending(n, i)
  BY <1>1, Zenon DEF Laid
<1>5. /\ c \in Seq(Symbol) /\ Len(c) \in Nat /\ Len(c) >= m /\ (n = "data" => Len(c) = m)
      /\ \A j \in 1..m : c[j] = IF j <= k THEN t[j] ELSE s[j]
  BY DEF Torn
<1>6. ~(n = "data" /\ i = 4) => Ending(n, i) = Sep
  BY DEF Ending
<1> HIDE DEF l, o, a, b, m
<1>7. o = l
  BY <1>2, <1>3
<1>8. ASSUME NEW j \in 1..l
      PROVE  c[a + j - 1] = IF a + j - 1 <= k THEN Part(n, r, i)[j] ELSE Part(n, q, i)[j]
  BY <1>2, <1>4, <1>5, <1>7, Zenon
<1>9. CASE n = "all"
  <2>1. b <= Len(c) + 2
    BY <1>2, <1>5, <1>9
  <2>2. c[b - 1] = Sep
    <3>1. n # "data"
      BY <1>9
    <3>2. QED
      BY <1>2, <1>4, <1>5, <1>6, <1>9, <3>1, Zenon
  <2>3. QED
    BY <1>2, <1>7, <1>8, <2>1, <2>2, Zenon DEF l, o, a, b, Mixed
<1>10. CASE n = "data"
  <2>1. b <= Len(c) + 2
    BY <1>5, <1>2, <1>10
  <2>2. ASSUME b <= Len(c) + 1 PROVE c[b - 1] = Sep
    <3>1. b - 1 \in 1..m /\ i # 4
      BY <1>2, <1>5, <1>10, <2>2
    <3>2. QED
      BY <1>4, <1>5, <1>6, <3>1, Zenon
  <2>3. QED
    BY <1>2, <1>7, <1>8, <2>1, <2>2, Zenon DEF l, o, a, b, Mixed
<1>11. QED
  BY <1>9, <1>10, CountFacts

\* How much of a field of l symbols at the position a is before the symbol k + 1.
Cut(k, a, l) == IF k < a THEN 0 ELSE IF k >= a + l - 1 THEN l ELSE k + 1 - a

\* Each field of a torn text is torn there.
LEMMA TornField ==
    ASSUME NEW n \in Names, NEW p, NEW q, NEW r, NEW s, NEW t, Fitting(s, t, p, n, q, r),
           NEW k \in Nat, NEW c, Torn(c, s, t, k, p, n), NEW i \in 0..(Count(n) - 1)
    PROVE  split(c)[i] = Blend(Part(n, q, i), Part(n, r, i), Cut(k, p[i], Len(Part(n, q, i))))
<1>1. Fielded(c, p, Count(n))
  <2> SUFFICES ASSUME NEW j \in 0..(Count(n) - 1)
               PROVE  /\ p[j] < p[j + 1] /\ p[j + 1] <= Len(c) + 2
                      /\ \A x \in p[j]..(p[j + 1] - 2) : c[x] # Sep
                      /\ p[j + 1] <= Len(c) + 1 => c[p[j + 1] - 1] = Sep
    BY Zenon DEF Fielded
  <2> DEFINE l == Len(Part(n, q, j))
             f == Part(n, q, j)
             g == Part(n, r, j)
             a == p[j]
             b == p[j + 1]
  <2>1. /\ l \in Nat \ {0} /\ Len(g) = l /\ a \in Nat \ {0}
        /\ b = a + l + 1 /\ b <= Len(c) + 2
        /\ \A x \in 1..l : c[a + x - 1] = IF a + x - 1 <= k THEN g[x] ELSE f[x]
        /\ b <= Len(c) + 1 => c[b - 1] = Sep
    <3>1. Mixed(c, k, p, n, q, r, j)
      BY TornSymbols, Zenon
    <3>2. QED
      BY <3>1, Zenon DEF Mixed
  <2>2. \A x \in 1..l : f[x] # Sep
    BY PartFacts, Zenon DEF Fitting
  <2>3. \A x \in 1..Len(g) : g[x] # Sep
    BY PartFacts, Zenon DEF Fitting
  <2> HIDE DEF l, f, g, a, b
  <2>4. ASSUME NEW x \in a..(b - 2) PROVE c[x] # Sep
    <3>1. x - a + 1 \in 1..l /\ a + (x - a + 1) - 1 = x
      BY <2>1
    <3>2. c[a + (x - a + 1) - 1] # Sep
      BY <2>1, <2>2, <2>3, <3>1, Zenon
    <3>3. QED
      BY <3>1, <3>2
  <2>5. a < b
    BY <2>1
  <2>6. QED
    BY <2>1, <2>4, <2>5, Zenon DEF a, b
<1> DEFINE f == Part(n, q, i)
           g == Part(n, r, i)
           l == Len(f)
           a == p[i]
           b == p[i + 1]
           h == SubSeq(c, a, b - 2)
           x == Cut(k, a, l)
           u == Blend(f, g, x)
<1>2. p \in [0..8 -> Nat] /\ p[0] = 1 /\ c \in Seq(Symbol) /\ Count(n) \in 1..8
  BY CountFacts DEF Fitting, Placed, Torn
<1>3. split(c)[i] = h
  BY <1>1, <1>2, FieldsFound, Zenon
<1>4. /\ l \in Nat \ {0} /\ Len(g) = l /\ a \in Nat \ {0} /\ b = a + l + 1 /\ b <= Len(c) + 2
      /\ \A j \in 1..l : c[a + j - 1] = IF a + j - 1 <= k THEN g[j] ELSE f[j]
  <2>1. Mixed(c, k, p, n, q, r, i)
    BY TornSymbols, Zenon
  <2>2. QED
    BY <2>1, Zenon DEF Mixed
<1>5. f \in Seq(Symbol) /\ g \in Seq(Symbol)
  BY PartFacts, Zenon DEF Fitting
<1> HIDE DEF f, g, a, b, l
<1>6. x \in 0..l /\ \A j \in 1..l : a + j - 1 <= k <=> j <= x
  BY <1>4 DEF Cut
<1> HIDE DEF x
<1>7. h \in Seq(Symbol) /\ Len(h) = l /\ \A j \in 1..l : h[j] = c[a + j - 1]
  <2>1. /\ a \in Nat \ {0} /\ b - 2 \in Nat /\ b - 2 <= Len(c) /\ a <= (b - 2) + 1
        /\ (b - 2) + 1 - a = l
    <3>1. Len(c) \in Nat
      BY <1>2
    <3>2. a \in Nat \ {0} /\ l \in Nat \ {0} /\ b = a + l + 1 /\ b <= Len(c) + 2
      BY <1>4, Zenon
    <3>3. QED
      BY <3>1, <3>2
  <2>2. QED
    BY <1>2, <2>1, PieceFacts, Zenon
<1>8. /\ u \in Seq(Symbol) /\ Len(u) = l
      /\ \A j \in 1..x : u[j] = g[j]
      /\ \A j \in (x + 1)..l : u[j] = f[j]
  <2>1. x \in 0..Len(g) /\ x <= Len(f)
    BY <1>4, <1>6 DEF l
  <2>2. QED
    BY <1>5, <2>1, BlendFacts DEF l
<1> HIDE DEF h, u
<1>9. \A j \in 1..l : h[j] = u[j]
  <2> TAKE j \in 1..l
  <2>0. h[j] = IF j <= x THEN g[j] ELSE f[j]
    BY <1>4, <1>6, <1>7, Zenon
  <2>1. CASE j <= x
    <3>1. j \in 1..x
      BY <1>6, <2>1
    <3>2. QED
      BY <1>8, <2>0, <2>1, <3>1, Zenon
  <2>2. CASE ~(j <= x)
    <3>1. j \in (x + 1)..l
      BY <1>4, <1>6, <2>2
    <3>2. QED
      BY <1>8, <2>0, <2>2, <3>1, Zenon
  <2>3. QED
    BY <2>1, <2>2
<1>10. h = u
  BY <1>7, <1>8, <1>9, SequencesEqual
<1>11. QED
  BY <1>3, <1>10 DEF u, x, f, g, l, a

\* A text of which nothing is replaced, and one of which everything is.
LEMMA BlendEnds ==
    ASSUME NEW f \in Seq(Symbol), NEW g \in Seq(Symbol), Len(f) = Len(g)
    PROVE  Blend(f, g, 0) = f /\ Blend(f, g, Len(g)) = g
<1>0. Len(g) \in Nat /\ 0 \in 0..Len(g) /\ Len(g) \in 0..Len(g)
  OBVIOUS
<1>1. Blend(f, g, 0) = f
  <2> DEFINE u == Blend(f, g, 0)
  <2>1. /\ u \in Seq(Symbol) /\ Len(u) = IF 0 <= Len(f) THEN Len(f) ELSE 0
        /\ \A i \in (0 + 1)..Len(f) : u[i] = f[i]
    BY <1>0, BlendFacts
  <2> HIDE DEF u
  <2>2. Len(u) = Len(f) /\ \A i \in 1..Len(u) : u[i] = f[i]
    BY <1>0, <2>1
  <2>3. QED
    BY <2>1, <2>2, SequencesEqual DEF u
<1>2. Blend(f, g, Len(g)) = g
  <2> DEFINE u == Blend(f, g, Len(g))
  <2>1. /\ u \in Seq(Symbol) /\ Len(u) = IF Len(g) <= Len(f) THEN Len(f) ELSE Len(g)
        /\ \A i \in 1..Len(g) : u[i] = g[i]
    BY <1>0, BlendFacts
  <2> HIDE DEF u
  <2>2. Len(u) = Len(g)
    BY <1>0, <2>1
  <2>3. QED
    BY <2>1, <2>2, SequencesEqual DEF u
<1>3. QED
  BY <1>1, <1>2

\* A torn field without an end of line is taken as it is.
LEMMA TrimPlain ==
    ASSUME NEW f \in Seq(Symbol), NEW g \in Seq(Symbol), NEW l \in Nat \ {0}, Len(f) = l, Len(g) = l,
           \A i \in 1..l : f[i] # "\n" /\ g[i] # "\n", NEW k \in 0..l
    PROVE  Trimmed(Blend(f, g, k)) = Blend(f, g, k)
<1> DEFINE u == Blend(f, g, k)
<1>1. /\ u \in Seq(Symbol) /\ Len(u) = l
      /\ \A i \in 1..k : u[i] = g[i]
      /\ \A i \in (k + 1)..l : u[i] = f[i]
  <2>1. k \in 0..Len(g) /\ k <= Len(f)
    OBVIOUS
  <2>2. QED
    BY <2>1, BlendFacts
<1> HIDE DEF u
<1>2. l \in 1..l /\ (l \in 1..k \/ l \in (k + 1)..l)
  OBVIOUS
<1>3. u[l] # "\n"
  BY <1>1, <1>2, Zenon
<1>4. u[Len(u)] # "\n"
  BY <1>1, <1>3, Zenon
<1>5. Trimmed(u) = u
  BY <1>4, Zenon DEF Trimmed
<1>6. QED
  BY <1>5 DEF u

\* Of one that ends a line, the end of the line is left out.
LEMMA TrimEnd ==
    ASSUME NEW f \in Seq(Symbol), NEW g \in Seq(Symbol), NEW l \in Nat \ {0}, Len(f) = l, Len(g) = l,
           NEW k \in 0..(l + 1)
    PROVE  Trimmed(Blend(f \o <<"\n">>, g \o <<"\n">>, k)) = Blend(f, g, IF k = l + 1 THEN l ELSE k)
<1> DEFINE x == f \o <<"\n">>
           y == g \o <<"\n">>
           u == Blend(x, y, k)
           j == IF k = l + 1 THEN l ELSE k
           v == Blend(f, g, j)
           w == SubSeq(u, 1, Len(u) - 1)
<1>0. "\n" \in Symbol
  BY SymbolFacts
<1>1. /\ x \in Seq(Symbol) /\ Len(x) = l + 1 /\ (\A i \in 1..l : x[i] = f[i]) /\ x[l + 1] = "\n"
      /\ y \in Seq(Symbol) /\ Len(y) = l + 1 /\ (\A i \in 1..l : y[i] = g[i]) /\ y[l + 1] = "\n"
  BY <1>0
<1> HIDE DEF x, y
<1>2. /\ u \in Seq(Symbol) /\ Len(u) = l + 1
      /\ \A i \in 1..k : u[i] = y[i]
      /\ \A i \in (k + 1)..(l + 1) : u[i] = x[i]
  <2>1. k \in 0..Len(y) /\ k <= Len(x)
    BY <1>1
  <2>2. QED
    BY <1>1, <2>1, BlendFacts
<1> HIDE DEF u
<1>3. u[l + 1] = "\n"
  <2>1. l + 1 \in 1..k \/ l + 1 \in (k + 1)..(l + 1)
    OBVIOUS
  <2>2. QED
    BY <1>1, <1>2, <2>1, Zenon
<1>4. u # <<>> /\ u[Len(u)] = "\n"
  <2>1. Len(u) # 0
    BY <1>2
  <2>2. QED
    BY <1>2, <1>3, <2>1
<1>5. Trimmed(u) = w
  BY <1>4, Zenon DEF Trimmed
<1>6. w \in Seq(Symbol) /\ Len(w) = l /\ \A i \in 1..l : w[i] = u[i]
  BY <1>2
<1>7. j \in 0..l /\ \A i \in 1..l : i <= k <=> i <= j
  OBVIOUS
<1> HIDE DEF j, w
<1>8. /\ v \in Seq(Symbol) /\ Len(v) = l
      /\ \A i \in 1..j : v[i] = g[i]
      /\ \A i \in (j + 1)..l : v[i] = f[i]
  <2>1. j \in 0..Len(g) /\ j <= Len(f)
    BY <1>7
  <2>2. QED
    BY <2>1, BlendFacts
<1> HIDE DEF v
<1>9. \A i \in 1..l : w[i] = v[i]
  <2> TAKE i \in 1..l
  <2>1. CASE i <= k
    <3>1. i \in 1..k /\ i \in 1..j
      BY <1>7, <2>1
    <3>2. QED
      BY <1>1, <1>2, <1>6, <1>8, <3>1, Zenon
  <2>2. CASE ~(i <= k)
    <3>1. i \in (k + 1)..(l + 1) /\ i \in (j + 1)..l
      BY <1>7, <2>2
    <3>2. QED
      BY <1>1, <1>2, <1>6, <1>8, <3>1, Zenon
  <2>3. QED
    BY <2>1, <2>2
<1>10. w = v
  BY <1>6, <1>8, <1>9, SequencesEqual
<1>11. QED
  BY <1>5, <1>10 DEF u, v, x, y, j

\* A text is torn in at most one field.
LEMMA TornOnce ==
    ASSUME NEW n \in Names, NEW p, NEW r, Values(r), Placed(p, n, r), NEW k \in Nat
    PROVE  \E i \in 1..8 : \A j \in 1..(Count(n) - 1) :
              /\ Cut(k, p[j], Len(Part(n, r, j))) \in Prefixes(i, j, Len(Part(n, r, j)))
              /\ j = i => Cut(k, p[j], Len(Part(n, r, j))) < Len(Part(n, r, j))
<1> DEFINE l(j) == Len(Part(n, r, j))
           S == {j \in 1..(Count(n) - 1) : k < p[j] + l(j) - 1} \cup {8}
           i == Min(S)
<1>1. /\ Count(n) \in 1..8 /\ \A j \in 0..Count(n) : p[j] \in Nat \ {0}
      /\ \A j \in 0..(Count(n) - 1) :
            /\ l(j) \in Nat \ {0} /\ p[j + 1] = p[j] + l(j) + 1
            /\ \A m \in (j + 1)..Count(n) : p[j + 1] <= p[m]
  BY PlacedFacts
<1> HIDE DEF l
<1>2. S \subseteq Nat /\ S # {} /\ \A j \in S : j \in 1..8
  BY <1>1
<1> HIDE DEF S
<1>3. i \in S /\ \A j \in S : i <= j
  BY ZenonT(20), <1>2, MinFacts
<1> HIDE DEF i
<1>4. i \in 1..8
  BY <1>2, <1>3, Zenon
<1>5. \A j \in 1..(Count(n) - 1) : j \in 0..Count(n) /\ j \in 0..(Count(n) - 1) /\ j \in 1..7
  BY <1>1
<1>6. ASSUME NEW j \in 1..(Count(n) - 1)
      PROVE  Cut(k, p[j], l(j)) \in Prefixes(i, j, l(j)) /\ (j = i => Cut(k, p[j], l(j)) < l(j))
  <2> DEFINE a == p[j]
             b == l(j)
  <2>1. a \in Nat \ {0} /\ b \in Nat \ {0} /\ j \in 1..7
    BY <1>1, <1>5, Zenon
  <2>2. k < a + b - 1 => i <= j
    BY <1>3, Zenon DEF S
  <2>3. CASE j < i
    <3>1. ~(i <= j)
      BY <1>4, <2>1, <2>3
    <3>2. ~(k < a + b - 1)
      BY <2>2, <3>1, Zenon
    <3> HIDE DEF a, b
    <3>3. Cut(k, a, b) = b
      BY <2>1, <3>2 DEF Cut
    <3>4. j # i
      BY <1>4, <2>1, <2>3
    <3>5. QED
      BY <2>3, <3>3, <3>4, Zenon DEF Prefixes, a, b
  <2>4. CASE j = i
    <3>1. i # 8
      BY <2>1, <2>4
    <3>2. k < a + b - 1
      BY <1>3, <2>4, <3>1, Zenon DEF S
    <3> HIDE DEF a, b
    <3>3. Cut(k, a, b) \in 0..b /\ Cut(k, a, b) < b
      BY <2>1, <3>2 DEF Cut
    <3>4. ~(j < i)
      BY <2>1, <2>4
    <3>5. QED
      BY <2>4, <3>3, <3>4, Zenon DEF Prefixes, a, b
  <2>5. CASE i < j
    <3>1. i # 8 /\ ~(j < i) /\ j # i
      BY <1>4, <2>1, <2>5
    <3>2. i \in 1..(Count(n) - 1) /\ k < p[i] + l(i) - 1
      BY <1>3, <3>1, Zenon DEF S
    <3>3. i \in 0..Count(n) /\ i \in 0..(Count(n) - 1)
      BY <1>5, <3>2, Zenon
    <3>4. j \in (i + 1)..Count(n)
      BY <1>1, <1>4, <2>1, <2>5
    <3>5. p[i] \in Nat /\ l(i) \in Nat /\ p[i + 1] = p[i] + l(i) + 1 /\ p[i + 1] <= p[j]
      BY <1>1, <3>3, <3>4, Zenon
    <3>6. k < a
      <4> DEFINE x == p[i]
                 y == l(i)
                 z == p[i + 1]
      <4>1. x \in Nat /\ y \in Nat /\ z = x + y + 1 /\ z <= a /\ k < x + y - 1
        BY <3>2, <3>5, Zenon
      <4> HIDE DEF x, y, z, a
      <4>2. QED
        BY <2>1, <4>1
    <3> HIDE DEF a, b
    <3>7. Cut(k, a, b) = 0
      BY <3>6, Zenon DEF Cut
    <3>8. QED
      BY <3>1, <3>7, Zenon DEF Prefixes, a, b
  <2>6. j < i \/ j = i \/ i < j
    BY <1>4, <2>1
  <2>7. QED
    BY <2>3, <2>4, <2>5, <2>6
<1>7. QED
  BY <1>4, <1>6, Zenon DEF l

\* What the page shows of a switch.
LEMMA SwitchOn ==
    ASSUME NEW c, NEW x, NEW v \in {OPEN, CLOSE}, split(c)[Index[x]] = Decimal(v)
    PROVE  StatusIn(split(c), x) = On(v)
<1>1. split(c)[Index[x]] = Decimal(OPEN) <=> v = OPEN
  BY SwitchSymbol, SwitchFacts, Zenon
<1>2. QED
  BY <1>1, Zenon DEF StatusIn, On

\* The fields of the switches.
LEMMA IndexFacts == Index["relay1"] = 5 /\ Index["relay2"] = 6 /\ Index["beep"] = 7
BY DEF Index

\* The fields of the measurements.
LEMMA MeasurandFacts ==
    ASSUME NEW n \in Names, NEW r, Values(r), NEW j \in 1..4
    PROVE  /\ r[Measurand[j]] \in Int
           /\ n = "data" /\ j = 4 => Part(n, r, j) = Fixed(r[Measurand[j]]) \o <<"\n">>
           /\ ~(n = "data" /\ j = 4) => Part(n, r, j) = Fixed(r[Measurand[j]])
<1>1. /\ Measurand[1] = "temp" /\ Measurand[2] = "humi" /\ Measurand[3] = "mq2"
      /\ Measurand[4] = "zph02"
  BY DEF Measurand
<1>2. n = "all" \/ n = "data"
  BY DEF Names
<1>3. r.temp \in Int /\ r.humi \in Int /\ r.mq2 \in Int /\ r.zph02 \in Int
  BY DEF Values
<1>4. j = 1 \/ j = 2 \/ j = 3 \/ j = 4
  OBVIOUS
<1>5. 1 # 4 /\ 2 # 4 /\ 3 # 4 /\ "all" # "data"
  OBVIOUS
<1>6. CASE j = 1
  BY <1>1, <1>3, <1>5, <1>6, PartIs, Zenon
<1>7. CASE j = 2
  BY <1>1, <1>3, <1>5, <1>7, PartIs, Zenon
<1>8. CASE j = 3
  BY <1>1, <1>3, <1>5, <1>8, PartIs, Zenon
<1>9. CASE j = 4
  BY <1>1, <1>2, <1>3, <1>5, <1>9, PartIs, Zenon
<1>10. QED
  BY <1>4, <1>6, <1>7, <1>8, <1>9

\* What the page shows in the place of a measurement is some of the new number and the rest of
\* the old one.
Merged(f, a, b, i, j) ==
    \E k \in Prefixes(i, j, Len(Fixed(b))) : Trimmed(f) = Blend(Fixed(a), Fixed(b), k)

\* So it is for a field that is torn there.
LEMMA MeasureMerged ==
    ASSUME NEW a \in Int, NEW b \in Int, Len(Fixed(a)) = Len(Fixed(b)), NEW i \in Nat, NEW j \in Nat
    PROVE  /\ \A x \in Prefixes(i, j, Len(Fixed(a))) : Merged(Blend(Fixed(a), Fixed(b), x), a, b, i, j)
           /\ \A x \in Prefixes(i, j, Len(Fixed(a)) + 1) :
                 Merged(Blend(Fixed(a) \o <<"\n">>, Fixed(b) \o <<"\n">>, x), a, b, i, j)
<1> DEFINE f == Fixed(a)
           g == Fixed(b)
           l == Len(f)
<1>1. /\ f \in Seq(Symbol) /\ l \in Nat \ {0} /\ \A y \in 1..l : f[y] # "\n"
  BY MeasureFacts, Zenon
<1>2. /\ g \in Seq(Symbol) /\ Len(g) = l /\ \A y \in 1..l : g[y] # "\n"
  BY MeasureFacts, Zenon
<1>3. Len(f) = l
  OBVIOUS
<1> HIDE DEF f, g, l
<1>4. ASSUME NEW x \in Prefixes(i, j, l) PROVE \E k \in Prefixes(i, j, l) : Trimmed(Blend(f, g, x)) = Blend(f, g, k)
  <2>1. x \in 0..l
    BY <1>1 DEF Prefixes
  <2>2. Trimmed(Blend(f, g, x)) = Blend(f, g, x)
    BY <1>1, <1>2, <1>3, <2>1, TrimPlain, Zenon
  <2>3. QED
    BY <2>2, Zenon
<1>5. ASSUME NEW x \in Prefixes(i, j, l + 1)
      PROVE  \E k \in Prefixes(i, j, l) :
                Trimmed(Blend(f \o <<"\n">>, g \o <<"\n">>, x)) = Blend(f, g, k)
  <2> DEFINE k == IF x = l + 1 THEN l ELSE x
  <2>1. x \in 0..(l + 1) /\ k \in Prefixes(i, j, l)
    BY <1>1 DEF Prefixes
  <2>2. Trimmed(Blend(f \o <<"\n">>, g \o <<"\n">>, x)) = Blend(f, g, k)
    BY <1>1, <1>2, <1>3, <2>1, TrimEnd, Zenon
  <2> HIDE DEF k
  <2>3. QED
    BY <2>1, <2>2, Zenon
<1>6. Len(Fixed(b)) = l
  BY <1>2 DEF g
<1>7. QED
  BY <1>4, <1>5, <1>6, Zenon DEF Merged, f, g, l

\* What DecodesSnapshot says of a message c, with the field i where it is torn.
Decoded(c, n, q, r, i) ==
    /\ \A j \in 1..4 : Merged(split(c)[j], q[Measurand[j]], r[Measurand[j]], i, j)
    /\ n = "all" =>
          \A x \in Switches :
             StatusIn(split(c), x) = On((IF Index[x] < i THEN r ELSE q)[x])

\* The page takes a torn text apart as DecodesSnapshot says.
LEMMA TornDecoded ==
    ASSUME NEW n \in Names, NEW p, NEW q, NEW r, NEW s, NEW t, Fitting(s, t, p, n, q, r),
           NEW k \in Nat, NEW c, Torn(c, s, t, k, p, n)
    PROVE  split(c)[0] = <<Heading(n)>> /\ \E i \in 1..8 : Decoded(c, n, q, r, i)
<1> DEFINE l(j) == Len(Part(n, q, j))
           x(j) == Cut(k, p[j], l(j))
<1>0. /\ Values(q) /\ Values(r) /\ Placed(p, n, q) /\ Count(n) \in 5..8 /\ (n = "all" => Count(n) = 8)
  BY CountFacts DEF Fitting, Names
<1>1. \A j \in 0..(Count(n) - 1) : split(c)[j] = Blend(Part(n, q, j), Part(n, r, j), x(j))
  <2> TAKE j \in 0..(Count(n) - 1)
  <2>1. QED
    BY TornField
<1>2. \A j \in 0..(Count(n) - 1) : l(j) \in Nat \ {0} /\ Len(Part(n, r, j)) = l(j)
  <2> TAKE j \in 0..(Count(n) - 1)
  <2>1. Mixed(c, k, p, n, q, r, j)
    BY TornSymbols, Zenon
  <2>2. QED
    BY <2>1, Zenon DEF Mixed
<1>3. PICK i \in 1..8 : \A j \in 1..(Count(n) - 1) : x(j) \in Prefixes(i, j, l(j)) /\ (j = i => x(j) < l(j))
  BY <1>0, TornOnce, Zenon
<1>4. \A j \in 0..(Count(n) - 1) : Part(n, q, j) \in Seq(Symbol) /\ Part(n, r, j) \in Seq(Symbol)
  BY <1>0, PartFacts, Zenon
<1>5. split(c)[0] = <<Heading(n)>>
  <2>1. 0 \in 0..(Count(n) - 1)
    BY <1>0
  <2>2. Part(n, q, 0) = <<Heading(n)>> /\ Part(n, r, 0) = <<Heading(n)>>
    BY PartIs
  <2> DEFINE h == <<Heading(n)>>
  <2>3. Len(h) = 1
    OBVIOUS
  <2> HIDE DEF h
  <2>4. h \in Seq(Symbol) /\ split(c)[0] = Blend(h, h, Cut(k, p[0], 1))
    BY <1>1, <1>4, <2>1, <2>2, <2>3, Zenon DEF h
  <2>5. p[0] = 1
    BY <1>0 DEF Placed
  <2>6. Cut(k, 1, 1) = 0 \/ Cut(k, 1, 1) = 1
    BY DEF Cut
  <2>7. Blend(h, h, 0) = h /\ Blend(h, h, 1) = h
    BY <2>3, <2>4, BlendEnds, Zenon
  <2>8. split(c)[0] = h
    BY <2>4, <2>5, <2>6, <2>7, Zenon
  <2>9. QED
    BY <2>8 DEF h
<1>6. ASSUME NEW j \in 1..4 PROVE Merged(split(c)[j], q[Measurand[j]], r[Measurand[j]], i, j)
  <2> DEFINE a == q[Measurand[j]]
             b == r[Measurand[j]]
  <2>1. j \in 0..(Count(n) - 1) /\ j \in 1..(Count(n) - 1) /\ i \in Nat /\ j \in Nat
    BY <1>0
  <2>2. /\ a \in Int /\ b \in Int
        /\ n = "data" /\ j = 4 => Part(n, q, j) = Fixed(a) \o <<"\n">> /\ Part(n, r, j) = Fixed(b) \o <<"\n">>
        /\ ~(n = "data" /\ j = 4) => Part(n, q, j) = Fixed(a) /\ Part(n, r, j) = Fixed(b)
    BY <1>0, MeasurandFacts, Zenon
  <2> HIDE DEF a, b
  <2>3. /\ split(c)[j] = Blend(Part(n, q, j), Part(n, r, j), x(j))
        /\ Len(Part(n, r, j)) = l(j) /\ x(j) \in Prefixes(i, j, l(j))
    BY <1>1, <1>2, <1>3, <2>1, Zenon
  <2> HIDE DEF x
  <2>4. CASE n = "data" /\ j = 4
    <3>1. Fixed(a) \in Seq(Symbol) /\ Fixed(b) \in Seq(Symbol)
      BY <2>2, MeasureFacts, Zenon
    <3>2. Len(Fixed(a) \o <<"\n">>) = Len(Fixed(a)) + 1 /\ Len(Fixed(b) \o <<"\n">>) = Len(Fixed(b)) + 1
      BY <3>1, SymbolFacts
    <3>3. l(j) = Len(Fixed(a)) + 1 /\ l(j) = Len(Fixed(b)) + 1
      BY <2>2, <2>3, <2>4, <3>2, Zenon
    <3>4. Len(Fixed(a)) = Len(Fixed(b))
      BY <3>1, <3>3
    <3>5. /\ split(c)[j] = Blend(Fixed(a) \o <<"\n">>, Fixed(b) \o <<"\n">>, x(j))
          /\ x(j) \in Prefixes(i, j, Len(Fixed(a)) + 1)
      BY <2>2, <2>3, <2>4, <3>3, Zenon
    <3>6. Merged(Blend(Fixed(a) \o <<"\n">>, Fixed(b) \o <<"\n">>, x(j)), a, b, i, j)
      BY <2>1, <2>2, <3>4, <3>5, MeasureMerged, Zenon
    <3>7. QED
      BY <3>5, <3>6, Zenon DEF a, b
  <2>5. CASE ~(n = "data" /\ j = 4)
    <3>1. Len(Fixed(a)) = Len(Fixed(b)) /\ l(j) = Len(Fixed(a))
      BY <2>2, <2>3, <2>5, Zenon
    <3>2. /\ split(c)[j] = Blend(Fixed(a), Fixed(b), x(j))
          /\ x(j) \in Prefixes(i, j, Len(Fixed(a)))
      BY <2>2, <2>3, <2>5, <3>1, Zenon
    <3>3. Merged(Blend(Fixed(a), Fixed(b), x(j)), a, b, i, j)
      BY <2>1, <2>2, <3>1, <3>2, MeasureMerged, Zenon
    <3>4. QED
      BY <3>2, <3>3, Zenon DEF a, b
  <2>6. QED
    BY <2>4, <2>5
<1>7. ASSUME n = "all", NEW j \in 5..7, NEW v \in {OPEN, CLOSE}, NEW w \in {OPEN, CLOSE},
             Part(n, q, j) = Decimal(v), Part(n, r, j) = Decimal(w)
      PROVE  split(c)[j] = Decimal(IF j < i THEN w ELSE v)
  <2>1. j \in 0..(Count(n) - 1) /\ j \in 1..(Count(n) - 1) /\ i \in Nat
    BY <1>0, <1>7
  <2>2. /\ Decimal(v) \in Seq(Symbol) /\ Len(Decimal(v)) = 1
        /\ Decimal(w) \in Seq(Symbol) /\ Len(Decimal(w)) = 1
    BY SwitchFacts, Zenon
  <2>3. /\ split(c)[j] = Blend(Decimal(v), Decimal(w), x(j))
        /\ x(j) \in Prefixes(i, j, 1) /\ (j = i => x(j) < 1)
    BY <1>1, <1>3, <1>7, <2>1, <2>2, Zenon
  <2> HIDE DEF x
  <2>4. x(j) = IF j < i THEN 1 ELSE 0
    BY <2>1, <2>3 DEF Prefixes
  <2>5. Blend(Decimal(v), Decimal(w), 0) = Decimal(v) /\ Blend(Decimal(v), Decimal(w), 1) = Decimal(w)
    BY <2>2, BlendEnds, Zenon
  <2>6. QED
    BY <2>3, <2>4, <2>5, Zenon
<1>8. ASSUME n = "all", NEW y \in Switches
      PROVE  StatusIn(split(c), y) = On((IF Index[y] < i THEN r ELSE q)[y])
  <2> DEFINE u == IF Index[y] < i THEN r[y] ELSE q[y]
  <2>1. /\ Index[y] \in 5..7 /\ q[y] \in {OPEN, CLOSE} /\ r[y] \in {OPEN, CLOSE}
        /\ Part(n, q, Index[y]) = Decimal(q[y]) /\ Part(n, r, Index[y]) = Decimal(r[y])
    <3>1. 5 \in 5..7 /\ 6 \in 5..7 /\ 7 \in 5..7
      OBVIOUS
    <3>2. y = "relay1" \/ y = "relay2" \/ y = "beep"
      BY DEF Switches
    <3>3. CASE y = "relay1"
      BY <1>0, <3>1, <3>3, IndexFacts, PartIs, Zenon DEF Values
    <3>4. CASE y = "relay2"
      BY <1>0, <3>1, <3>4, IndexFacts, PartIs, Zenon DEF Values
    <3>5. CASE y = "beep"
      BY <1>0, <3>1, <3>5, IndexFacts, PartIs, Zenon DEF Values
    <3>6. QED
      BY <3>2, <3>3, <3>4, <3>5
  <2>2. split(c)[Index[y]] = Decimal(u)
    BY <1>7, <1>8, <2>1, Zenon
  <2>3. u \in {OPEN, CLOSE}
    BY <2>1, Zenon
  <2>4. u = (IF Index[y] < i THEN r ELSE q)[y]
    BY Zenon
  <2> HIDE DEF u
  <2>5. StatusIn(split(c), y) = On(u)
    BY <2>2, <2>3, SwitchOn, Zenon
  <2>6. QED
    BY <2>4, <2>5, Zenon
<1>9. Decoded(c, n, q, r, i)
  BY <1>6, <1>8, Zenon DEF Decoded
<1>10. QED
  BY <1>5, <1>9, Zenon

-----------------------------------------------------------------------------
(* What the worker finds in a buffer.                                      *)

\* A message that begins with the heading h, as far as it goes.
Headed(c, h) ==
    /\ c \in Seq(Symbol) /\ (Len(c) >= 1 => c[1] = h) /\ (Len(c) >= 2 => c[2] = Sep)

\* A text has its heading.
LEMMA ShapeHeaded ==
    ASSUME NEW s, NEW n \in Names, NEW r, Values(r), Shape(s, n, r)
    PROVE  Headed(s, Heading(n))
<1>1. PICK p : Placed(p, n, r) /\ Laid(s, p, n, r, Count(n))
  BY DEF Shape
<1>2. 0 \in 0..(Count(n) - 1) /\ Count(n) \in 1..8
  <2>1. Count(n) \in 1..8
    BY CountFacts
  <2>2. QED
    BY <2>1
<1>3. Part(n, r, 0) = <<Heading(n)>>
  BY PartIs
<1>4. Len(Part(n, r, 0)) = 1 /\ Part(n, r, 0)[1] = Heading(n)
  BY <1>3
<1>5. p[0] = 1 /\ p[0 + 1] = p[0] + Len(Part(n, r, 0)) + 1
  BY <1>1, <1>2, Zenon DEF Placed
<1>6. p[0 + 1] = 3
  <2>1. p[0 + 1] = 1 + 1 + 1
    BY <1>4, <1>5, Zenon
  <2>2. QED
    BY <2>1
<1>7. /\ \A j \in 1..Len(Part(n, r, 0)) : s[p[0] + j - 1] = Part(n, r, 0)[j]
      /\ s[p[0 + 1] - 1] = Ending(n, 0)
  BY <1>1, <1>2, Zenon DEF Laid
<1>8. s[1] = Heading(n)
  BY <1>4, <1>5, <1>7
<1>9. s[2] = Sep
  <2>1. Ending(n, 0) = Sep
    BY DEF Ending
  <2>2. QED
    BY <1>6, <1>7, <2>1
<1>10. QED
  BY <1>1, <1>8, <1>9, Zenon DEF Headed, Laid

\* A buffer that was never written has nothing else.
LEMMA EmptyHeaded == ASSUME NEW h PROVE Headed(<<>>, h)
BY DEF Headed

\* A torn text has the heading that the two texts have.
LEMMA BlendHeaded ==
    ASSUME NEW a, NEW b, NEW h, Headed(a, h), Headed(b, h), NEW k \in 0..Len(b)
    PROVE  Headed(Blend(a, b, k), h)
<1> DEFINE u == Blend(a, b, k)
<1>0. a \in Seq(Symbol) /\ b \in Seq(Symbol) /\ Len(a) \in Nat /\ Len(b) \in Nat
  BY DEF Headed
<1>1. /\ u \in Seq(Symbol)
      /\ Len(u) = IF k <= Len(a) THEN Len(a) ELSE k
      /\ \A i \in 1..k : u[i] = b[i]
      /\ \A i \in (k + 1)..Len(a) : u[i] = a[i]
  BY <1>0, BlendFacts
<1> HIDE DEF u
<1>2. ASSUME Len(u) >= 1 PROVE u[1] = h
  <2>1. CASE k >= 1
    <3>1. 1 \in 1..k /\ Len(b) >= 1
      BY <1>0, <2>1
    <3>2. QED
      BY <1>1, <3>1 DEF Headed
  <2>2. CASE k = 0
    <3>1. 1 \in (k + 1)..Len(a) /\ Len(a) >= 1
      BY <1>0, <1>1, <1>2, <2>2
    <3>2. QED
      BY <1>1, <3>1 DEF Headed
  <2>3. QED
    BY <1>0, <2>1, <2>2
<1>3. ASSUME Len(u) >= 2 PROVE u[2] = Sep
  <2>1. CASE k >= 2
    <3>1. 2 \in 1..k /\ Len(b) >= 2
      BY <1>0, <2>1
    <3>2. QED
      BY <1>1, <3>1 DEF Headed
  <2>2. CASE k < 2
    <3>1. 2 \in (k + 1)..Len(a) /\ Len(a) >= 2
      BY <1>0, <1>1, <1>3, <2>2
    <3>2. QED
      BY <1>1, <3>1 DEF Headed
  <2>3. QED
    BY <1>0, <2>1, <2>2
<1>4. QED
  BY <1>1, <1>2, <1>3 DEF Headed, u

\* So has what is visible of it.
LEMMA VisibleHeaded ==
    ASSUME NEW b, NEW h, Headed(b, h)
    PROVE  Headed(Visible(b), h)
<1> DEFINE v == Visible(b)
<1>0. b \in Seq(Symbol) /\ Len(b) \in Nat /\ 0 \in 0..Len(b) /\ \A i \in 1..0 : b[i] # NUL
  BY DEF Headed
<1>1. v \in Seq(Symbol) /\ Len(v) \in 0..Len(b) /\ \A i \in 1..Len(v) : v[i] = b[i]
  BY <1>0, VisibleFacts
<1> HIDE DEF v
<1>2. (Len(v) >= 1 => v[1] = b[1] /\ Len(b) >= 1) /\ (Len(v) >= 2 => v[2] = b[2] /\ Len(b) >= 2)
  BY <1>0, <1>1
<1>3. QED
  BY <1>1, <1>2 DEF Headed, v

\* An empty message has no concentration.
LEMMA EmptyMessage == split(<<>>)[3] = <<"undefined">>
<1> DEFINE m == <<>>
<1>0. Len(m) = 0
  OBVIOUS
<1> HIDE DEF m
<1>1. PICK st : Starts(m, st)
  BY <1>0, StartsExist
<1>2. \A p \in Nat \ {0} : Separator(m, p) = 1
  <2> TAKE p \in Nat \ {0}
  <2>1. \A q \in p..Len(m) : m[q] # Sep
    BY <1>0
  <2>2. QED
    BY <1>0, <2>1, SeparatorFacts
<1>3. st[3] \in Nat \ {0} /\ st[3 + 1] = Separator(m, st[3]) + 1
  BY <1>1 DEF Starts
<1>4. st[3 + 1] = 2
  BY <1>2, <1>3
<1>5. 3 \in 0..7 /\ ~(st[3 + 1] <= Len(m) + 1)
  BY <1>0, <1>4
<1>6. split(m)[3] = <<"undefined">>
  BY <1>0, <1>1, <1>5, SplitFacts
<1>7. QED
  BY <1>6 DEF m

\* Neither has the will of the device.
LEMMA WillMessage == split(<<"DEVICE", Sep, "ONLINE!">>)[3] = <<"undefined">>
<1> DEFINE m == <<"DEVICE", Sep, "ONLINE!">>
<1>0. Len(m) = 3 /\ m[1] # Sep /\ m[2] = Sep /\ m[3] # Sep
  BY SepFacts
<1> HIDE DEF m
<1>0a. Len(m) \in Nat /\ 1 \in Nat \ {0} /\ Len(m) + 1 = 4
  BY <1>0
<1>1. PICK st : Starts(m, st)
  BY <1>0a, StartsExist
<1>2. Separator(m, 1) = 2
  <2>1. 2 \in 1..Len(m) /\ \A r \in 1..(2 - 1) : m[r] # Sep
    BY <1>0
  <2>2. QED
    BY <1>0, <1>0a, <2>1, SeparatorFacts, Zenon
<1>3. \A p \in Nat \ {0} : p >= 3 => Separator(m, p) = 4
  <2> SUFFICES ASSUME NEW p \in Nat \ {0}, p >= 3 PROVE Separator(m, p) = 4
    OBVIOUS
  <2>1. \A q \in p..Len(m) : m[q] # Sep
    BY <1>0
  <2>2. Separator(m, p) = Len(m) + 1
    BY <1>0a, <2>1, SeparatorFacts, Zenon
  <2>3. QED
    BY <1>0a, <2>2
<1>4. st[1] = 1 /\ st[1 + 1] = Separator(m, st[1]) + 1 /\ st[2 + 1] = Separator(m, st[2]) + 1
      /\ st[3 + 1] = Separator(m, st[3]) + 1
  BY <1>1 DEF Starts
<1>5. st[2] = 3
  BY <1>2, <1>4
<1>6. st[3] = 5
  BY <1>3, <1>4, <1>5
<1>7. st[3 + 1] = 5
  BY <1>3, <1>4, <1>6
<1>8. 3 \in 0..7 /\ ~(st[3 + 1] <= Len(m) + 1)
  BY <1>0, <1>7
<1>9. split(m)[3] = <<"undefined">>
  BY <1>0a, <1>1, <1>8, SplitFacts, Zenon
<1>10. QED
  BY <1>9 DEF m

\* A message that the page shows, or whose concentration is missing.
Harmless(m) == split(m)[3] = <<"undefined">> \/ split(m)[0] \in {<<"D$S-A">>, <<"D$S-D">>}

\* A message with the heading of a snapshot is shown, or empty.
LEMMA HeadedHarmless ==
    ASSUME NEW c, NEW n \in Names, Headed(c, Heading(n))
    PROVE  Harmless(c)
<1>0. c \in Seq(Symbol) /\ Len(c) \in Nat
  BY DEF Headed
<1>1. CASE Len(c) = 0
  <2>1. c = <<>>
    BY <1>0, <1>1
  <2>2. QED
    BY <2>1, EmptyMessage DEF Harmless
<1>2. CASE Len(c) >= 1
  <2>1. c[1] = Heading(n) /\ (Len(c) >= 2 => c[2] = Sep)
    BY <1>2 DEF Headed
  <2>2. Heading(n) # Sep
    BY SepFacts DEF Heading
  <2>3. split(c)[0] = <<Heading(n)>>
    BY <1>0, <1>2, <2>1, <2>2, HeadingField
  <2>4. QED
    BY <2>3, Zenon DEF Harmless, Heading
<1>3. QED
  BY <1>0, <1>1, <1>2


\* There is no NUL among the symbols that decide, and in the text of the measurements one after
\* them.
LEMMA ShapeVisible ==
    ASSUME NEW s, NEW n \in Names, NEW r, Values(r), NEW p, Placed(p, n, r), Laid(s, p, n, r, Count(n))
    PROVE  /\ Checked(p, n) \in Nat /\ s \in Seq(Symbol) /\ Len(s) >= Checked(p, n)
           /\ \A i \in 1..Checked(p, n) : s[i] # NUL
           /\ n = "data" => Len(s) >= Checked(p, n) + 1 /\ s[Checked(p, n) + 1] = NUL
<1> DEFINE m == Checked(p, n)
           l(i) == Len(Part(n, r, i))
<1>0. Count(n) \in 1..8 /\ (n = "all" => Count(n) = 8) /\ (n = "data" => Count(n) = 5)
  BY CountFacts
<1>1. \A i \in 0..(Count(n) - 1) : Located(p, n, r, i)
  <2> TAKE i \in 0..(Count(n) - 1)
  <2>1. QED
    BY FieldPlace, Zenon
<1>2. \A i \in 0..Count(n) : p[i] \in Nat \ {0}
  BY PlacedFacts
<1>3. s \in Seq(Symbol) /\ Len(s) \in Nat /\ p[Count(n)] <= Len(s) + 1
  <2>1. s \in Seq(Symbol) /\ p[Count(n)] <= Len(s) + 1
    BY Zenon DEF Laid
  <2>2. QED
    BY <2>1
<1>4. p[Count(n)] \in Nat \ {0} /\ m = p[Count(n)] - (IF n = "all" THEN 1 ELSE 2)
  <2>1. Count(n) \in 0..Count(n)
    BY <1>0
  <2>2. p[Count(n)] \in Nat \ {0}
    BY <1>2, <2>1, Zenon
  <2>3. QED
    BY <1>0, <2>2 DEF Checked, Names
<1>5. m \in Nat
  <2>1. 0 \in 0..(Count(n) - 1)
    BY <1>0
  <2>2. QED
    BY <1>1, <2>1, Zenon DEF Located
<1> HIDE DEF m
<1>6. Len(s) >= m /\ (n = "data" => Len(s) >= m + 1)
  BY <1>3, <1>4, <1>5
<1>7. ASSUME n = "data" PROVE s[m + 1] = NUL
  <2>1. 4 \in 0..(Count(n) - 1) /\ p[4 + 1] - 1 = m + 1
    BY <1>0, <1>4, <1>7
  <2>2. s[p[4 + 1] - 1] = Ending(n, 4)
    BY <2>1, Zenon DEF Laid
  <2>3. Ending(n, 4) = NUL
    BY <1>7 DEF Ending
  <2>4. QED
    BY <2>1, <2>2, <2>3
<1>8. ASSUME NEW i \in 0..(Count(n) - 1), NEW x \in p[i]..(p[i + 1] - 1), x <= m
      PROVE  s[x] # NUL
  <2> DEFINE a == p[i]
             b == p[i + 1]
             f == Part(n, r, i)
             e == Len(f)
  <2>1. /\ a \in Nat \ {0} /\ e \in Nat \ {0} /\ b = a + e + 1
        /\ n = "data" /\ i = 4 => b = m + 2
    BY <1>1, Zenon DEF Located, m
  <2>2. (\A j \in 1..e : s[a + j - 1] = f[j]) /\ s[b - 1] = Ending(n, i)
    BY Zenon DEF Laid
  <2>3. \A j \in 1..e : f[j] # NUL
    BY PartFacts, Zenon
  <2>4. x \in a..(b - 1)
    BY <1>8
  <2> HIDE DEF a, b, e, f
  <2>5. CASE x = b - 1
    <3>1. ~(n = "data" /\ i = 4)
      BY <1>5, <1>8, <2>1, <2>5
    <3>2. Ending(n, i) = Sep
      BY <3>1 DEF Ending
    <3>3. QED
      BY <2>2, <2>5, <3>2, SepFacts, NulFacts, Zenon
  <2>6. CASE x # b - 1
    <3>1. x - a + 1 \in 1..e /\ a + (x - a + 1) - 1 = x
      BY <2>1, <2>4, <2>6
    <3>2. s[a + (x - a + 1) - 1] # NUL
      BY <2>2, <2>3, <3>1, Zenon
    <3>3. QED
      BY <3>1, <3>2
  <2>7. QED
    BY <2>5, <2>6
<1>9. ASSUME NEW x \in 1..m PROVE s[x] # NUL
  <2> DEFINE S == {i \in Nat : i <= Count(n) /\ x < p[i]}
             i == Min(S)
  <2>1. S \subseteq Nat /\ Count(n) \in S
    BY <1>0, <1>4, <1>5
  <2>2. 0 \notin S
    <3>1. p[0] = 1
      BY DEF Placed
    <3>2. QED
      BY <3>1
  <2> HIDE DEF S
  <2>3. i \in S /\ \A j \in S : i <= j
    BY ZenonT(20), <2>1, MinFacts
  <2> HIDE DEF i
  <2>4. i \in Nat /\ i <= Count(n) /\ x < p[i] /\ i # 0
    BY <2>2, <2>3, Zenon DEF S
  <2> DEFINE j == i - 1
  <2>5. j \in 0..(Count(n) - 1) /\ j \in 0..Count(n) /\ j \in Nat /\ j <= Count(n) /\ j + 1 = i /\ ~(i <= j)
        /\ i \in 0..Count(n)
    BY <1>0, <2>4
  <2> HIDE DEF j
  <2>6. j \notin S
    BY <2>3, <2>5, Zenon
  <2>7. ~(x < p[j])
    BY <2>5, <2>6, Zenon DEF S
  <2>8. p[j] \in Nat /\ p[j + 1] \in Nat /\ x < p[j + 1]
    BY <1>2, <2>4, <2>5, Zenon
  <2>9. x \in p[j]..(p[j + 1] - 1) /\ x <= m
    BY <1>5, <2>7, <2>8
  <2>10. QED
    BY <1>8, <2>5, <2>9, Zenon
<1>10. QED
  BY <1>3, <1>5, <1>6, <1>7, <1>9, Zenon DEF m

\* What the worker finds while rt_sprintf is writing is torn between the two texts.
LEMMA BlendTorn ==
    ASSUME NEW n \in Names, NEW p, NEW q, NEW r, NEW s, NEW t, Fitting(s, t, p, n, q, r),
           NEW k \in 0..Len(t)
    PROVE  Torn(Visible(Blend(s, t, k)), s, t, k, p, n)
<1> DEFINE m == Checked(p, n)
           b == Blend(s, t, k)
           c == Visible(b)
<1>1. /\ m \in Nat /\ s \in Seq(Symbol) /\ Len(s) >= m /\ \A i \in 1..m : s[i] # NUL
      /\ n = "data" => Len(s) >= m + 1 /\ s[m + 1] = NUL
  BY ShapeVisible, Zenon DEF Fitting
<1>2. /\ t \in Seq(Symbol) /\ Len(t) >= m /\ \A i \in 1..m : t[i] # NUL
      /\ n = "data" => Len(t) >= m + 1 /\ t[m + 1] = NUL
  BY ShapeVisible, Zenon DEF Fitting
<1> HIDE DEF m
<1>3. Len(s) \in Nat /\ Len(t) \in Nat
  BY <1>1, <1>2
<1>4. /\ b \in Seq(Symbol)
      /\ Len(b) = IF k <= Len(s) THEN Len(s) ELSE k
      /\ \A i \in 1..k : b[i] = t[i]
      /\ \A i \in (k + 1)..Len(s) : b[i] = s[i]
  BY ZenonT(40), <1>1, <1>2, BlendFacts
<1> HIDE DEF b
<1>5. Len(b) \in Nat /\ m \in 0..Len(b)
  BY <1>1, <1>3, <1>4
<1>6. \A i \in 1..Len(s) : b[i] = IF i <= k THEN t[i] ELSE s[i]
  <2> TAKE i \in 1..Len(s)
  <2>1. CASE i <= k
    <3>1. i \in 1..k
      BY <2>1
    <3>2. QED
      BY <1>4, <2>1, <3>1
  <2>2. CASE ~(i <= k)
    <3>1. i \in (k + 1)..Len(s)
      BY <1>3, <2>2
    <3>2. QED
      BY <1>4, <2>2, <3>1
  <2>3. QED
    BY <2>1, <2>2
<1>7. \A i \in 1..m : i \in 1..Len(s)
  BY <1>1, <1>3
<1>8. \A i \in 1..m : b[i] # NUL
  BY <1>1, <1>2, <1>6, <1>7, Zenon
<1>9. ASSUME n = "data" PROVE m < Len(b) /\ b[m + 1] = NUL
  <2>1. m + 1 \in 1..Len(s) /\ m < Len(b)
    BY <1>1, <1>3, <1>4, <1>9
  <2>2. QED
    BY <1>1, <1>2, <1>6, <1>9, <2>1, Zenon
<1>10. /\ c \in Seq(Symbol) /\ Len(c) \in m..Len(b) /\ \A i \in 1..Len(c) : c[i] = b[i]
       /\ m < Len(b) /\ b[m + 1] = NUL => Len(c) = m
  BY <1>4, <1>5, <1>8, VisibleFacts, Zenon
<1> HIDE DEF c
<1>11. Len(c) >= m /\ \A i \in 1..m : i \in 1..Len(c)
  BY <1>1, <1>5, <1>10
<1>12. \A i \in 1..m : c[i] = IF i <= k THEN t[i] ELSE s[i]
  BY <1>6, <1>7, <1>10, <1>11, Zenon
<1>13. Torn(c, s, t, k, p, n)
  BY <1>9, <1>10, <1>11, <1>12, Zenon DEF Torn, m
<1>14. QED
  BY <1>13 DEF c, b

\* What it finds otherwise is torn between a text and itself.
LEMMA WholeTorn ==
    ASSUME NEW n \in Names, NEW p, NEW r, NEW s, Fitting(s, s, p, n, r, r)
    PROVE  Torn(Visible(s), s, s, 0, p, n)
<1>1. s \in Seq(Symbol)
  BY DEF Fitting, Laid
<1>2. 0 \in 0..Len(s)
  BY <1>1
<1>3. Blend(s, s, 0) = s
  BY <1>1, BlendEnds, Zenon
<1>4. Torn(Visible(Blend(s, s, 0)), s, s, 0, p, n)
  BY <1>2, BlendTorn, Zenon
<1>5. QED
  BY <1>3, <1>4

\* Texts whose measurements are equally long have their fields at the same positions.
LEMMA AlignedFitting ==
    ASSUME NEW n \in Names, NEW q, NEW r, Values(q), Values(r), NEW s, NEW t,
           Shape(s, n, q), Shape(t, n, r),
           \A j \in 1..4 : Len(Fixed(q[Measurand[j]])) = Len(Fixed(r[Measurand[j]]))
    PROVE  \E p : Fitting(s, t, p, n, q, r)
<1>1. PICK p : Placed(p, n, q) /\ Laid(s, p, n, q, Count(n))
  BY DEF Shape
<1>2. ASSUME NEW i \in 0..(Count(n) - 1) PROVE Len(Part(n, q, i)) = Len(Part(n, r, i))
  <2>1. CASE i \in 1..4
    <3> DEFINE f == Fixed(q[Measurand[i]])
               g == Fixed(r[Measurand[i]])
    <3>1. /\ f \in Seq(Symbol) /\ g \in Seq(Symbol) /\ Len(f) = Len(g)
      BY <2>1, MeasurandFacts, MeasureFacts, Zenon
    <3>2. /\ n = "data" /\ i = 4 => Part(n, q, i) = f \o <<"\n">> /\ Part(n, r, i) = g \o <<"\n">>
          /\ ~(n = "data" /\ i = 4) => Part(n, q, i) = f /\ Part(n, r, i) = g
      BY <2>1, MeasurandFacts, Zenon
    <3> HIDE DEF f, g
    <3>3. Len(f \o <<"\n">>) = Len(g \o <<"\n">>)
      BY <3>1, SymbolFacts
    <3>4. QED
      BY <3>1, <3>2, <3>3, Zenon
  <2>2. CASE i = 0
    BY <2>2, PartIs, Zenon
  <2>3. CASE i \in 5..7
    <3>1. i = 5 \/ i = 6 \/ i = 7
      BY <2>3
    <3>2. /\ Len(Part(n, q, 5)) = 1 /\ Len(Part(n, q, 6)) = 1 /\ Len(Part(n, q, 7)) = 1
          /\ Len(Part(n, r, 5)) = 1 /\ Len(Part(n, r, 6)) = 1 /\ Len(Part(n, r, 7)) = 1
      <4>1. /\ Len(Decimal(q.relay1)) = 1 /\ Len(Decimal(q.relay2)) = 1 /\ Len(Decimal(q.beep)) = 1
            /\ Len(Decimal(r.relay1)) = 1 /\ Len(Decimal(r.relay2)) = 1 /\ Len(Decimal(r.beep)) = 1
        BY SwitchFacts, Zenon DEF Values
      <4>2. QED
        BY <4>1, PartIs, Zenon
    <3>3. QED
      BY <3>1, <3>2
  <2>4. i \in 1..4 \/ i = 0 \/ i \in 5..7
    <3>1. Count(n) \in 1..8
      BY CountFacts
    <3>2. QED
      BY <3>1
  <2>5. QED
    BY <2>1, <2>2, <2>3, <2>4
<1>3. Placed(p, n, r) /\ Laid(t, p, n, r, Count(n))
  BY <1>1, <1>2, SamePlaces, Zenon
<1>4. QED
  BY <1>1, <1>3, Zenon DEF Fitting

\* The page shows a message, as DecodesSnapshot says.
Readable(c, n, q, r) ==
    split(c)[0] = <<Heading(n)>> /\ \E i \in 1..8 : Decoded(c, n, q, r, i)

\* The page takes apart what the worker finds while rt_sprintf is writing.
LEMMA BlendDecoded ==
    ASSUME NEW n \in Names, NEW q, NEW r, Values(q), Values(r), NEW s, NEW t,
           Shape(s, n, q), Shape(t, n, r), NEW k \in 0..Len(t),
           \A j \in 1..4 : Len(Fixed(q[Measurand[j]])) = Len(Fixed(r[Measurand[j]]))
    PROVE  Readable(Visible(Blend(s, t, k)), n, q, r)
<1> DEFINE c == Visible(Blend(s, t, k))
<1>1. PICK p : Fitting(s, t, p, n, q, r)
  BY AlignedFitting, Zenon
<1>2. Torn(c, s, t, k, p, n)
  BY <1>1, BlendTorn, Zenon
<1> HIDE DEF c
<1>3. k \in Nat
  OBVIOUS
<1>4. split(c)[0] = <<Heading(n)>> /\ \E i \in 1..8 : Decoded(c, n, q, r, i)
  BY <1>1, <1>2, <1>3, TornDecoded, Zenon
<1>5. QED
  BY <1>4, Zenon DEF c, Readable

\* It takes apart a whole text.
LEMMA WholeDecoded ==
    ASSUME NEW n \in Names, NEW r, Values(r), NEW s, Shape(s, n, r)
    PROVE  Readable(Visible(s), n, r, r)
<1>1. PICK p : Fitting(s, s, p, n, r, r)
  BY AlignedFitting, Zenon
<1>2. Torn(Visible(s), s, s, 0, p, n)
  BY <1>1, WholeTorn, Zenon
<1>3. 0 \in Nat
  OBVIOUS
<1>4. QED
  BY <1>1, <1>2, <1>3, TornDecoded, Zenon DEF Readable

\* Temperatures are integers.
LEMMA TemperatureRange == Temperature(0) \in Int /\ Temperature(65535) \in Int
BY DEF Temperature, Quot

\* The page warns on the snapshot of a concentration exactly above 50.0, on either snapshot.
LEMMA SnapshotWarns ==
    ASSUME NEW r, Values(r), NEW junk \in Junk, NEW n \in Names
    PROVE  Warning(split(TextOf(n, r, junk))) = "leak" <=> r.mq2 > 500
<1> DEFINE c == TextOf(n, r, junk)
           s == Append(c, NUL)
<1>1. c \in Seq(Symbol) /\ Shape(s, n, r)
  BY TextFacts, Zenon
<1>2. r.mq2 \in Nat
  BY DEF Values
<1>3. Exceeds50(Fixed(r.mq2)) <=> r.mq2 > 500
  BY <1>2, ExceedsFixed
<1> HIDE DEF c
<1>4. /\ s \in Seq(Symbol) /\ Len(s) = Len(c) + 1 /\ Len(c) \in Nat
      /\ \A x \in 1..Len(c) : s[x] = c[x]
  BY <1>1, SymbolFacts
<1> HIDE DEF s
<1>5. PICK p : Placed(p, n, r) /\ Laid(s, p, n, r, Count(n))
  BY <1>1 DEF Shape
<1>6. /\ Count(n) \in 1..8 /\ \A i \in 0..Count(n) : p[i] \in Nat \ {0}
      /\ \A i \in 0..(Count(n) - 1) :
            /\ Len(Part(n, r, i)) \in Nat \ {0} /\ p[i + 1] = p[i] + Len(Part(n, r, i)) + 1
            /\ \A m \in (i + 1)..Count(n) : p[i + 1] <= p[m]
  BY <1>5, PlacedFacts
<1>7. p \in [0..8 -> Nat] /\ p[0] = 1
  BY <1>5 DEF Placed
<1>8. Count(n) >= 5
  BY CountFacts DEF Names
<1>9. p[4] \in Nat /\ p[4] <= Len(c)
  <2>1. 4 \in 0..(Count(n) - 1) /\ 4 \in 0..Count(n) /\ Count(n) \in (4 + 1)..Count(n)
        /\ Count(n) \in 0..Count(n)
    BY <1>6, <1>8
  <2>2. /\ p[4] \in Nat /\ Len(Part(n, r, 4)) \in Nat \ {0} /\ p[4 + 1] = p[4] + Len(Part(n, r, 4)) + 1
        /\ p[4 + 1] <= p[Count(n)] /\ p[Count(n)] \in Nat
    BY <1>6, <2>1, Zenon
  <2>3. p[Count(n)] <= Len(s) + 1
    BY <1>5, Zenon DEF Laid
  <2>4. p[Count(n)] <= Len(c) + 2
    BY <1>4, <2>2, <2>3
  <2> DEFINE x == p[Count(n)]
             y == p[4]
             z == Len(Part(n, r, 4))
             w == p[4 + 1]
  <2>5. y \in Nat /\ z \in Nat \ {0} /\ w = y + z + 1 /\ w <= x /\ x \in Nat /\ x <= Len(c) + 2
    BY <2>2, <2>4, Zenon
  <2> HIDE DEF x, y, z, w
  <2>6. y \in Nat /\ y <= Len(c)
    BY <1>4, <2>5
  <2>7. QED
    BY <2>6 DEF y
<1>10. Fielded(c, p, 4)
  <2> SUFFICES ASSUME NEW i \in 0..3
               PROVE  /\ p[i] < p[i + 1] /\ p[i + 1] <= Len(c) + 2
                      /\ \A x \in p[i]..(p[i + 1] - 2) : c[x] # Sep
                      /\ p[i + 1] <= Len(c) + 1 => c[p[i + 1] - 1] = Sep
    <3>1. 4 - 1 = 3
      OBVIOUS
    <3>2. QED
      BY <3>1, Zenon DEF Fielded
  <2> DEFINE a == p[i]
             b == p[i + 1]
             f == Part(n, r, i)
             l == Len(f)
  <2>1. i \in 0..(Count(n) - 1) /\ i \in 0..Count(n) /\ 4 \in (i + 1)..Count(n) /\ i # 4
    BY <1>6, <1>8
  <2>2. a \in Nat \ {0} /\ l \in Nat \ {0} /\ b = a + l + 1 /\ b <= p[4]
    BY <1>6, <2>1, Zenon
  <2>3. (\A j \in 1..l : s[a + j - 1] = f[j]) /\ s[b - 1] = Ending(n, i)
    BY <1>5, <2>1, Zenon DEF Laid
  <2>4. \A j \in 1..l : f[j] # Sep
    BY <2>1, PartFacts, Zenon
  <2>5. Ending(n, i) = Sep
    BY <2>1 DEF Ending
  <2> HIDE DEF a, b, l, f
  <2>6. b \in Nat /\ b <= Len(c)
    BY <1>4, <1>9, <2>2
  <2>7. a < b /\ b <= Len(c) + 2 /\ b - 1 \in 1..Len(c)
    BY <1>4, <2>2, <2>6
  <2>8. c[b - 1] = Sep
    BY <1>4, <2>3, <2>5, <2>7, Zenon
  <2>9. ASSUME NEW x \in a..(b - 2) PROVE c[x] # Sep
    <3>1. x - a + 1 \in 1..l /\ a + (x - a + 1) - 1 = x /\ x \in 1..Len(c)
      BY <1>4, <2>2, <2>6
    <3>2. s[a + (x - a + 1) - 1] # Sep
      BY <2>3, <2>4, <3>1, Zenon
    <3>3. s[x] # Sep
      BY <3>1, <3>2
    <3>4. QED
      BY <1>4, <3>1, <3>3, Zenon
  <2>10. QED
    BY <2>7, <2>8, <2>9, Zenon DEF a, b
<1>11. split(c)[3] = SubSeq(c, p[3], p[3 + 1] - 2)
  <2>1. 4 \in 1..8 /\ 3 \in 0..(4 - 1)
    OBVIOUS
  <2>2. QED
    BY <1>1, <1>7, <1>10, <2>1, FieldsFound, Zenon
<1>12. SubSeq(c, p[3], p[3 + 1] - 2) = Fixed(r.mq2)
  <2> DEFINE f == Fixed(r.mq2)
             l == Len(f)
             a == p[3]
             b == p[3 + 1]
             h == SubSeq(c, a, b - 2)
  <2>1. 3 \in 0..(Count(n) - 1) /\ 3 \in 0..Count(n)
    BY <1>6, <1>8
  <2>2. Part(n, r, 3) = f
    BY PartIs
  <2>3. f \in Seq(Symbol)
    <3>1. r.mq2 \in Int
      BY <1>2
    <3>2. QED
      BY <3>1, MeasureFacts, Zenon
  <2>4. a \in Nat \ {0} /\ l \in Nat \ {0} /\ b = a + l + 1
    BY <1>6, <2>1, <2>2, Zenon
  <2>5. \A j \in 1..l : s[a + j - 1] = f[j]
    BY <1>5, <2>1, <2>2, Zenon DEF Laid
  <2>6. b <= Len(c)
    <3>1. 3 + 1 = 4
      OBVIOUS
    <3>2. QED
      BY <1>9, <3>1
  <2> HIDE DEF a, b, f, l
  <2>7. /\ b - 2 \in Nat /\ b - 2 <= Len(c) /\ a <= (b - 2) + 1 /\ (b - 2) + 1 - a = l
        /\ \A j \in 1..l : a + j - 1 \in 1..Len(c)
    BY <1>4, <2>4, <2>6
  <2>8. h \in Seq(Symbol) /\ Len(h) = l /\ \A j \in 1..l : h[j] = c[a + j - 1]
    <3> DEFINE e == b - 2
    <3>1. e \in Nat /\ e <= Len(c) /\ a <= e + 1 /\ e + 1 - a = l /\ a \in Nat \ {0}
      BY <2>4, <2>7, Zenon
    <3> HIDE DEF e
    <3>2. /\ SubSeq(c, a, e) \in Seq(Symbol) /\ Len(SubSeq(c, a, e)) = e + 1 - a
          /\ \A j \in 1..(e + 1 - a) : SubSeq(c, a, e)[j] = c[a + j - 1]
      BY <1>1, <3>1, PieceFacts, Zenon
    <3>3. QED
      BY <3>1, <3>2, Zenon DEF e
  <2> HIDE DEF h
  <2>9. \A j \in 1..l : h[j] = f[j]
    BY <1>4, <2>5, <2>7, <2>8, Zenon
  <2>10. h = f
    BY <2>3, <2>8, <2>9, SequencesEqual DEF l
  <2>11. QED
    BY <2>10 DEF h, a, b, f
<1>13. Blank # "leak"
  BY Zenon DEF Blank
<1>14. QED
  BY <1>3, <1>11, <1>12, <1>13, Zenon DEF Warning, c
=============================================================================
