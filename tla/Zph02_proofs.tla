---------------------------- MODULE Zph02_proofs ----------------------------
(***************************************************************************)
(* The receive FIFO of the UART for every buffer size and every set of     *)
(* characters: its type, the meaning of its flag, and the refinement of    *)
(* ByteFifo, which the ZPH02 path is built on; and that path for every set *)
(* of frames, buffer size, noise and number of faults.                     *)
(***************************************************************************)
EXTENDS Zph02, RxFifo, SequenceTheorems, TLAPS

-----------------------------------------------------------------------------
(* The receive FIFO.                                                       *)

\* The flag is set only while the read position is just ahead of the write
\* position, that is, while the buffer is as full as it can be.
FullFlag == is_full = TRUE => get_index = Advance(put_index)

FifoInv == FifoOK /\ FullFlag

\* Moving an index by one keeps it inside the buffer and does move it.
LEMMA AdvanceMoves ==
    ASSUME NEW i \in 0..bufsz-1
    PROVE  Advance(i) \in 0..bufsz-1 /\ Advance(i) # i
  BY BufszAssumption DEF Advance

\* A character that rt_hw_serial_isr stores leaves the positions apart, the
\* read position one ahead of the write position if a character was dropped.
LEMMA IsrStep ==
    ASSUME FifoInv, NEW c \in Char, rt_hw_serial_isr(c)
    PROVE  FifoInv' /\ put_index' # get_index'
<1> USE DEF FifoInv, FifoOK, rt_hw_serial_isr
<1>1. put_index' \in 0..bufsz-1 /\ get_index' \in 0..bufsz-1
  BY AdvanceMoves
<1>2. buffer' \in [0..bufsz-1 -> Char] /\ data' \in Char
  OBVIOUS
<1>3. is_full' \in BOOLEAN
  BY ZenonT(20)
<1>4. put_index' # get_index'
  BY AdvanceMoves
<1>5. FullFlag'
  <2>1. CASE put_index' = get_index
    BY <2>1 DEF FullFlag
  <2>2. CASE put_index' # get_index
    BY <2>2 DEF FullFlag
  <2>3. QED
    BY <2>1, <2>2
<1>6. QED
  BY <1>1, <1>2, <1>3, <1>4, <1>5

\* A read by _serial_int_rx clears the flag.
LEMMA ReadStep ==
    ASSUME FifoInv, _serial_int_rx
    PROVE  FifoInv'
<1> USE DEF FifoInv, FifoOK, _serial_int_rx
<1>1. put_index' \in 0..bufsz-1 /\ get_index' \in 0..bufsz-1
  BY AdvanceMoves
<1>2. buffer' \in [0..bufsz-1 -> Char] /\ data' \in Char
  OBVIOUS
<1>3. is_full' \in BOOLEAN /\ FullFlag'
  BY ZenonT(20) DEF FullFlag
<1>4. QED
  BY <1>1, <1>2, <1>3

\* The indices of rt_serial_rx_fifo stay inside the buffer, and is_full is set
\* only by the overflow branch of rt_hw_serial_isr and cleared by a read.
LEMMA FifoInvariant == FifoSpec => []FifoInv
<1>1. FifoInit => FifoInv
  <2> SUFFICES ASSUME FifoInit PROVE FifoInv
    OBVIOUS
  <2>1. 0 \in 0..bufsz-1
    BY BufszAssumption
  <2>2. buffer \in [0..bufsz-1 -> Char]
    BY DEF FifoInit
  <2>3. is_full \in BOOLEAN /\ FullFlag
    BY ZenonT(20) DEF FifoInit, FullFlag
  <2>4. QED
    BY <2>1, <2>2, <2>3 DEF FifoInit, FifoInv, FifoOK
<1>2. FifoInv /\ [FifoNext]_rx_fifo => FifoInv'
  <2> SUFFICES ASSUME FifoInv, [FifoNext]_rx_fifo PROVE FifoInv'
    OBVIOUS
  <2>1. CASE UNCHANGED rx_fifo
    BY <2>1 DEF rx_fifo, FifoInv, FifoOK, FullFlag
  <2>2. QED
    BY <2>1, IsrStep, ReadStep DEF FifoNext
<1>3. QED
  BY <1>1, <1>2, PTL DEF FifoSpec

\* Type correctness of the FIFO: no index of rt_serial_rx_fifo ever points
\* outside rx_fifo->buffer.
THEOREM FifoCorrect == FifoSpec => []FifoOK
  BY FifoInvariant, PTL DEF FifoInv

\* _serial_int_rx sees "no data" exactly when rx_length is 0.
THEOREM EmptyCorrect == FifoSpec => []EmptyMeansNoData
<1>1. FifoInv => EmptyMeansNoData
  BY BufszAssumption
     DEF FifoInv, FifoOK, FullFlag, EmptyMeansNoData, Empty, rx_length, Advance
<1>2. QED
  BY <1>1, FifoInvariant, PTL

\* Positions that differ leave at least one character between them.
LEMMA ApartIsNotEmpty ==
    ASSUME NEW p \in 0..bufsz-1, NEW g \in 0..bufsz-1, p # g
    PROVE  (IF p >= g THEN p - g ELSE bufsz - (g - p)) # 0
  BY BufszAssumption

\* Every character that rt_hw_serial_isr stores is followed by rx_indicate.
THEOREM IndicateCorrect == FifoSpec => IndicateAlways
<1>1. FifoInv /\ [FifoNext]_rx_fifo => [put_index' # put_index => rx_length' # 0]_rx_fifo
  <2> SUFFICES ASSUME FifoInv, [FifoNext]_rx_fifo, put_index' # put_index
               PROVE  rx_length' # 0
    OBVIOUS
  <2>1. PICK c \in Char : rt_hw_serial_isr(c)
    BY DEF FifoNext, _serial_int_rx, rx_fifo
  <2>2. put_index' # get_index' /\ FifoInv'
    BY <2>1, IsrStep
  <2>3. put_index' \in 0..bufsz-1 /\ get_index' \in 0..bufsz-1
    BY <2>2 DEF FifoInv, FifoOK
  <2>4. QED
    BY ZenonT(20), <2>2, <2>3, ApartIsNotEmpty DEF rx_length
<1>2. QED
  BY <1>1, FifoInvariant, PTL DEF FifoSpec, IndicateAlways

-----------------------------------------------------------------------------
(* The receive FIFO implements ByteFifo.                                   *)

\* rx_length, Position and Waiting as functions of the FIFO's fields.
Length(p, g) == IF p >= g THEN p - g ELSE bufsz - (g - p)
Place(g, i) == IF g + i - 1 >= bufsz THEN g + i - 1 - bufsz ELSE g + i - 1
Content(b, p, g) == [i \in 1..Length(p, g) |-> b[Place(g, i)]]

\* The content is a sequence of fewer than bufsz characters.
LEMMA ContentIsSeq ==
    ASSUME NEW b \in [0..bufsz-1 -> Char], NEW p \in 0..bufsz-1, NEW g \in 0..bufsz-1
    PROVE  /\ Length(p, g) \in 0..bufsz-1
           /\ Content(b, p, g) \in Seq(Char)
           /\ Len(Content(b, p, g)) = Length(p, g)
           /\ \A i \in 1..Length(p, g) : Content(b, p, g)[i] = b[Place(g, i)]
<1> USE BufszAssumption
<1>1. Length(p, g) \in 0..bufsz-1
  BY DEF Length
<1>2. ASSUME NEW i \in 1..Length(p, g) PROVE b[Place(g, i)] \in Char
  BY <1>1 DEF Place
<1>3. Content(b, p, g) \in [1..Length(p, g) -> Char]
  BY <1>2 DEF Content
<1>4. QED
  BY <1>1, <1>3 DEF Content

\* Reading moves the read position over the first waiting character and leaves
\* the others in order, across the end of the buffer too.
LEMMA ContentTail ==
    ASSUME NEW b \in [0..bufsz-1 -> Char], NEW p \in 0..bufsz-1, NEW g \in 0..bufsz-1,
           p # g
    PROVE  /\ Content(b, p, g) # <<>>
           /\ Head(Content(b, p, g)) = b[g]
           /\ Content(b, p, Advance(g)) = Tail(Content(b, p, g))
<1> DEFINE C == Content(b, p, g)
           D == Content(b, p, Advance(g))
<1>1. Length(p, g) \in 1..bufsz-1
  BY BufszAssumption DEF Length
<1>2. C \in Seq(Char) /\ Len(C) = Length(p, g)
      /\ \A i \in 1..Length(p, g) : C[i] = b[Place(g, i)]
  BY ZenonT(20), ContentIsSeq
<1>3. C # <<>>
  BY <1>1, <1>2
<1>4. Place(g, 1) = g
  BY BufszAssumption DEF Place
<1>5. Head(C) = b[g]
  BY <1>1, <1>2, <1>3, <1>4
<1>6. Advance(g) \in 0..bufsz-1
  BY AdvanceMoves
<1>7. D \in Seq(Char) /\ Len(D) = Length(p, Advance(g))
      /\ \A i \in 1..Length(p, Advance(g)) : D[i] = b[Place(Advance(g), i)]
  BY ZenonT(20), <1>6, ContentIsSeq
<1>8. Length(p, Advance(g)) = Length(p, g) - 1
  BY BufszAssumption DEF Length, Advance
<1>9. ASSUME NEW i \in 1..Length(p, g) - 1
      PROVE  Place(Advance(g), i) = Place(g, i + 1)
  BY <1>1, BufszAssumption DEF Place, Advance
<1>10. Tail(C) \in Seq(Char) /\ Len(Tail(C)) = Length(p, g) - 1
       /\ \A i \in 1..Length(p, g) - 1 : Tail(C)[i] = C[i + 1]
  BY <1>2, <1>3, HeadTailProperties
<1>11. ASSUME NEW i \in 1..Length(p, g) - 1 PROVE D[i] = Tail(C)[i]
  <2>1. i + 1 \in 1..Length(p, g)
    BY <1>1
  <2>2. QED
    BY ZenonT(20), <2>1, <1>2, <1>7, <1>8, <1>9, <1>10
<1>12. D = Tail(C)
  BY <1>7, <1>8, <1>10, <1>11, SeqEqual
<1>13. QED
  BY <1>3, <1>5, <1>12

\* Storing a character while the write position does not reach the read
\* position appends it.
LEMMA ContentAppend ==
    ASSUME NEW b \in [0..bufsz-1 -> Char], NEW p \in 0..bufsz-1, NEW g \in 0..bufsz-1,
           NEW c \in Char, NEW b2, b2 = [b EXCEPT ![p] = c], Advance(p) # g
    PROVE  /\ Content(b2, Advance(p), g) = Append(Content(b, p, g), c)
           /\ Length(p, g) + 1 <= bufsz - 1
<1> DEFINE C == Content(b, p, g)
           D == Content(b2, Advance(p), g)
<1> USE BufszAssumption
<1>1. Length(p, g) \in 0..bufsz-1 /\ Length(Advance(p), g) = Length(p, g) + 1
  BY DEF Length, Advance
<1>2. C \in Seq(Char) /\ Len(C) = Length(p, g)
      /\ \A i \in 1..Length(p, g) : C[i] = b[Place(g, i)]
  BY ZenonT(20), ContentIsSeq
<1>3. b2 \in [0..bufsz-1 -> Char] /\ Advance(p) \in 0..bufsz-1
  BY AdvanceMoves
<1>4. D \in Seq(Char) /\ Len(D) = Length(p, g) + 1
      /\ \A i \in 1..Length(p, g) + 1 : D[i] = b2[Place(g, i)]
  <2>1. D \in Seq(Char) /\ Len(D) = Length(Advance(p), g)
        /\ \A i \in 1..Length(Advance(p), g) : D[i] = b2[Place(g, i)]
    BY ONLY ZenonT(20), <1>3, ContentIsSeq, g \in 0..bufsz-1
  <2>2. QED
    BY ZenonT(20), <1>1, <2>1
<1>5. Append(C, c) \in Seq(Char) /\ Len(Append(C, c)) = Length(p, g) + 1
      /\ (\A i \in 1..Length(p, g) : Append(C, c)[i] = C[i])
      /\ Append(C, c)[Length(p, g) + 1] = c
  BY <1>2, AppendProperties
<1>6. ASSUME NEW i \in 1..Length(p, g)
      PROVE  Place(g, i) \in 0..bufsz-1 /\ Place(g, i) # p
  BY <1>1 DEF Place, Length
<1>7. Place(g, Length(p, g) + 1) = p
  BY DEF Place, Length
<1>8. ASSUME NEW i \in 1..Length(p, g) + 1 PROVE D[i] = Append(C, c)[i]
  <2>1. CASE i = Length(p, g) + 1
    BY ZenonT(20), <2>1, <1>4, <1>5, <1>7
  <2>2. CASE i # Length(p, g) + 1
    <3>1. i \in 1..Length(p, g)
      BY <2>2, <1>1
    <3>2. QED
      BY ZenonT(20), <3>1, <1>2, <1>4, <1>5, <1>6
  <2>3. QED
    BY ZenonT(20), <2>1, <2>2
<1>9. D = Append(C, c)
  BY ZenonT(20), <1>4, <1>5, <1>8, SeqEqual
<1>10. Length(Advance(p), g) \in 0..bufsz-1
  BY <1>3, ContentIsSeq
<1>11. Length(p, g) + 1 <= bufsz - 1
  BY <1>1, <1>10
<1>12. QED
  BY ZenonT(20), <1>9, <1>11

\* When the write position reaches the read position, moving the latter as
\* well drops the first waiting character and keeps the new one.
LEMMA ContentShift ==
    ASSUME NEW b \in [0..bufsz-1 -> Char], NEW p \in 0..bufsz-1,
           NEW c \in Char, NEW b2, b2 = [b EXCEPT ![p] = c]
    PROVE  /\ Content(b2, Advance(p), Advance(Advance(p)))
                = Tail(Append(Content(b, p, Advance(p)), c))
           /\ Length(p, Advance(p)) = bufsz - 1
<1> DEFINE g == Advance(p)
           C == Content(b, p, g)
           D == Content(b2, g, Advance(g))
<1> USE BufszAssumption
<1>0. g \in 0..bufsz-1
  BY AdvanceMoves
<1>1. Length(p, g) = bufsz - 1 /\ Length(g, Advance(g)) = bufsz - 1
  BY DEF Length, Advance
<1>2. C \in Seq(Char) /\ Len(C) = bufsz - 1
      /\ \A i \in 1..bufsz-1 : C[i] = b[Place(g, i)]
  <2>1. C \in Seq(Char) /\ Len(C) = Length(p, g)
        /\ \A i \in 1..Length(p, g) : C[i] = b[Place(g, i)]
    BY ZenonT(20), <1>0, ContentIsSeq
  <2>2. QED
    BY <1>1, <2>1
<1>3. b2 \in [0..bufsz-1 -> Char] /\ Advance(g) \in 0..bufsz-1
  BY <1>0, AdvanceMoves
<1>4. D \in Seq(Char) /\ Len(D) = bufsz - 1
      /\ \A i \in 1..bufsz-1 : D[i] = b2[Place(Advance(g), i)]
  <2>1. D \in Seq(Char) /\ Len(D) = Length(g, Advance(g))
        /\ \A i \in 1..Length(g, Advance(g)) : D[i] = b2[Place(Advance(g), i)]
    BY ONLY ZenonT(20), <1>0, <1>3, ContentIsSeq
  <2>2. QED
    BY <1>1, <2>1, SMTT(30)
<1>5. Append(C, c) \in Seq(Char) /\ Len(Append(C, c)) = bufsz /\ Append(C, c) # <<>>
      /\ (\A i \in 1..bufsz-1 : Append(C, c)[i] = C[i])
      /\ Append(C, c)[bufsz] = c
  <2>1. (bufsz - 1) + 1 = bufsz
    OBVIOUS
  <2>2. QED
    BY <2>1, <1>2, AppendProperties
<1>6. Tail(Append(C, c)) \in Seq(Char) /\ Len(Tail(Append(C, c))) = bufsz - 1
      /\ \A i \in 1..bufsz-1 : Tail(Append(C, c))[i] = Append(C, c)[i + 1]
  BY <1>5, HeadTailProperties
<1>7. ASSUME NEW i \in 1..bufsz-1
      PROVE  /\ Place(Advance(g), i) = Place(g, i + 1)
             /\ i < bufsz - 1 => Place(g, i + 1) \in 0..bufsz-1 /\ Place(g, i + 1) # p
             /\ i = bufsz - 1 => Place(g, i + 1) = p
  BY DEF Place, Advance
<1>8. ASSUME NEW i \in 1..bufsz-1 PROVE D[i] = Tail(Append(C, c))[i]
  <2>1. CASE i = bufsz - 1
    <3>1. D[i] = c
      BY <2>1, <1>4, <1>7, ZenonT(80)
    <3>2. i + 1 = bufsz
      BY <2>1
    <3>3. QED
      BY <3>1, <3>2, <1>5, <1>6
  <2>2. CASE i # bufsz - 1
    <3>1. i < bufsz - 1 /\ i + 1 \in 1..bufsz-1
      BY <2>2
    <3>2. D[i] = b[Place(g, i + 1)]
      BY ZenonT(20), <3>1, <1>4, <1>7
    <3>3. QED
      BY <3>1, <3>2, <1>2, <1>5, <1>6
  <2>3. QED
    BY <2>1, <2>2, ZenonT(20)
<1>9. D = Tail(Append(C, c))
  BY ZenonT(20), <1>4, <1>6, <1>8, SeqEqual
<1>10. QED
  BY ZenonT(20), <1>1, <1>9

\* Every step of the driver's FIFO is a step of ByteFifo, or changes nothing
\* that ByteFifo describes.
THEOREM Refinement == FifoSpec => ImplementsByteFifo
<1>1. FifoInit => Queue!Init
  <2> SUFFICES ASSUME FifoInit PROVE Queue!Init
    OBVIOUS
  <2>1. rx_length = 0
    BY DEF FifoInit, rx_length
  <2>2. Waiting = <<>>
    BY <2>1 DEF Waiting
  <2>3. QED
    BY <2>2 DEF FifoInit, Queue!Init
<1>2. FifoInv /\ [FifoNext]_rx_fifo => [Queue!Next]_<<Waiting, data>>
  <2> SUFFICES ASSUME FifoInv, [FifoNext]_rx_fifo PROVE [Queue!Next]_<<Waiting, data>>
    OBVIOUS
  <2>1. /\ buffer \in [0..bufsz-1 -> Char]
        /\ put_index \in 0..bufsz-1 /\ get_index \in 0..bufsz-1
    BY DEF FifoInv, FifoOK
  <2>2. Waiting = Content(buffer, put_index, get_index)
    BY DEF Waiting, Content, Length, Place, rx_length, Position
  <2>3. Waiting' = Content(buffer', put_index', get_index')
    BY DEF Waiting, Content, Length, Place, rx_length, Position
  <2>4. Len(Waiting) = Length(put_index, get_index) /\ Waiting \in Seq(Char)
    BY <2>1, <2>2, ContentIsSeq
  <2>5. ASSUME NEW c \in Char, rt_hw_serial_isr(c) PROVE Queue!Put(c)
    <3>1. Len(Append(Waiting, c)) = Length(put_index, get_index) + 1
      BY <2>4, AppendProperties
    <3>2. CASE put_index' = get_index
      <4>1. /\ Waiting' = Tail(Append(Waiting, c))
            /\ Length(put_index, get_index) = bufsz - 1
        <5>1. buffer' = [buffer EXCEPT ![put_index] = c]
          BY <2>5 DEF rt_hw_serial_isr
        <5>2. Advance(put_index) = get_index
          BY <3>2, <2>5 DEF rt_hw_serial_isr
        <5>3. put_index' = get_index /\ get_index' = Advance(get_index)
          BY <3>2, <2>5 DEF rt_hw_serial_isr
        <5>4. /\ Content(buffer', Advance(put_index), Advance(Advance(put_index)))
                   = Tail(Append(Content(buffer, put_index, Advance(put_index)), c))
              /\ Length(put_index, Advance(put_index)) = bufsz - 1
          BY ONLY ZenonT(40), <5>1, <2>1, ContentShift, c \in Char
        <5>5. QED
          BY <5>2, <5>3, <5>4, <2>2, <2>3
      <4>2. Len(Append(Waiting, c)) > bufsz - 1
        BY <3>1, <4>1, BufszAssumption
      <4>3. QED
        BY <4>1, <4>2, <2>5 DEF Queue!Put, Queue!Received, rt_hw_serial_isr
    <3>3. CASE put_index' # get_index
      <4>1. /\ Waiting' = Append(Waiting, c)
            /\ Length(put_index, get_index) + 1 <= bufsz - 1
        <5>0. buffer' = [buffer EXCEPT ![put_index] = c] /\ Advance(put_index) # get_index
          BY <3>3, <2>5 DEF rt_hw_serial_isr
        <5>1. put_index' = Advance(put_index) /\ get_index' = get_index
          BY <3>3, <2>5 DEF rt_hw_serial_isr
        <5>2. /\ Content(buffer', Advance(put_index), get_index)
                   = Append(Content(buffer, put_index, get_index), c)
              /\ Length(put_index, get_index) + 1 <= bufsz - 1
          BY ONLY <5>0, <2>1, ContentAppend, c \in Char, ZenonT(120)
        <5>3. QED
          BY <5>1, <5>2, <2>2, <2>3
      <4>2. ~(Len(Append(Waiting, c)) > bufsz - 1)
        <5>1. Length(put_index, get_index) \in 0..bufsz-1
          BY <2>1, ContentIsSeq
        <5>2. QED
          BY <3>1, <4>1, <5>1, BufszAssumption
      <4>3. QED
        BY <4>1, <4>2, <2>5 DEF Queue!Put, Queue!Received, rt_hw_serial_isr
    <3>4. QED
      BY <3>2, <3>3
  <2>6. CASE _serial_int_rx
    <3>1. put_index # get_index
      <4>1. CASE is_full = TRUE
        BY <4>1, <2>1, AdvanceMoves DEF FifoInv, FullFlag
      <4>2. CASE is_full = FALSE
        BY <4>2, <2>6 DEF _serial_int_rx, Empty
      <4>3. is_full \in BOOLEAN
        BY DEF FifoInv, FifoOK
      <4>4. QED
        BY ZenonT(20), <4>1, <4>2, <4>3
    <3>2. /\ Waiting # <<>> /\ Head(Waiting) = buffer[get_index]
          /\ Content(buffer, put_index, Advance(get_index)) = Tail(Waiting)
      BY ZenonT(20), <3>1, <2>1, <2>2, ContentTail
    <3>3. Waiting' = Tail(Waiting)
      BY <3>2, <2>6, <2>3 DEF _serial_int_rx
    <3>4. data' = Head(Waiting)
      BY <3>2, <2>6 DEF _serial_int_rx
    <3>5. QED
      BY <3>2, <3>3, <3>4 DEF Queue!Next, Queue!Get
  <2>7. CASE UNCHANGED rx_fifo
    <3>1. data' = data
      BY <2>7 DEF rx_fifo
    <3>2. Waiting' = Waiting
      BY <2>7, <2>2, <2>3 DEF rx_fifo
    <3>3. QED
      BY <3>1, <3>2
  <2>8. QED
    BY <2>5, <2>6, <2>7 DEF FifoNext, Queue!Next
<1>3. QED
  BY <1>1, <1>2, FifoInvariant, PTL DEF FifoSpec, Queue!Spec, ImplementsByteFifo

-----------------------------------------------------------------------------
(* The checksum.                                                           *)

\* The checksum test of dev_zph02_value_check, for every frame: it accepts
\* exactly the frames whose bytes 1..8 add up to 0 modulo 256, except that it
\* rejects all frames whose bytes 1..7 already do.
THEOREM ChecksumExact ==
    ASSUME NEW sum \in Byte, NEW last \in Byte
    PROVE  ChecksumPasses(sum, last) <=> (sum + last) % 256 = 0 /\ sum # 0
<1> USE DEF Byte
<1>1. CASE sum + last < 256
  <2>1. (sum + last) % 256 = sum + last
    BY <1>1
  <2>2. QED
    BY <1>1, <2>1 DEF ChecksumPasses
<1>2. CASE sum + last >= 256
  <2>1. (sum + last) % 256 = sum + last - 256
    BY <1>2
  <2>2. QED
    BY <1>2, <2>1 DEF ChecksumPasses
<1>3. QED
  BY <1>1, <1>2

\* A byte read into the rt_int8_t variable is never equal to 0xff.
LEMMA Int8Range ==
    ASSUME NEW b \in Byte
    PROVE  Int8(b) \in -128..127 /\ Int8(b) # 255
  BY DEF Byte, Int8

-----------------------------------------------------------------------------
(* The wakeup protocol.                                                    *)

\* The thread exists exactly once the initialization is done; between its
\* empty read and rt_sem_take every byte that comes leaves a token.
WakeInv ==
    /\ dev_zph02_rx_sem \in Nat
    /\ init = "done" <=> pc # "none"
    /\ init = "done" => dev_zph02_inited
    /\ pc = "take" /\ queue # <<>> => dev_zph02_rx_sem > 0
    /\ pc = "suspended" => queue = <<>>

\* rt_sem_release in the receive interrupt keeps the invariant.
LEMMA InterruptWakes ==
    ASSUME WakeInv, NEW b, Interrupt(b)
    PROVE  WakeInv'
<1>1. CASE Announced
  <2>1. CASE pc = "suspended"
    BY <1>1, <2>1 DEF Interrupt, dev_sensor_zph02_callback, WakeInv, setup
  <2>2. CASE pc # "suspended"
    BY <1>1, <2>2 DEF Interrupt, dev_sensor_zph02_callback, WakeInv, setup
  <2>3. QED
    BY <2>1, <2>2
<1>2. CASE ~Announced
  BY <1>2 DEF Interrupt, WakeInv, setup, Announced
<1>3. QED
  BY <1>1, <1>2

\* Every step of the interrupt, the parser, main and the sensor thread keeps it.
LEMMA WakeInductive == Spec => []WakeInv
<1>1. Init => WakeInv
  BY DEF Init, WakeInv
<1>2. WakeInv /\ [Next]_vars => WakeInv'
  <2> SUFFICES ASSUME WakeInv, [Next]_vars PROVE WakeInv'
    OBVIOUS
  <2>1. CASE Setup
    BY <2>1 DEF Setup, InitFind, InitOpen, InitIndicate, InitThread, WakeInv, uart, parser
  <2>2. CASE Receive
    BY <2>2, InterruptWakes DEF Receive
  <2>3. CASE ReceiveFaulty
    BY <2>3, InterruptWakes DEF ReceiveFaulty
  <2>4. CASE Lose
    BY <2>4 DEF Lose, WakeInv, uart, setup, parser
  <2>5. CASE Read
    BY <2>5 DEF Read, WakeInv, setup
  <2>6. CASE Take
    BY <2>6 DEF Take, WakeInv, setup
  <2>7. CASE Parse
    BY <2>7 DEF Parse, WakeInv, uart, setup
  <2>8. CASE value_check_high
    BY <2>8 DEF value_check_high, WakeInv, uart, setup
  <2>9. CASE value_check_low
    BY <2>9 DEF value_check_low, WakeInv, uart, setup
  <2>10. CASE SensorRead
    BY <2>10 DEF SensorRead, WakeInv, uart, parser
  <2>11. CASE UNCHANGED vars
    BY <2>11 DEF vars, WakeInv, uart, setup, parser
  <2>12. QED
    BY <2>1, <2>2, <2>3, <2>4, <2>5, <2>6, <2>7, <2>8, <2>9, <2>10, <2>11
       DEF Next, Thread
<1>3. QED
  BY <1>1, <1>2, PTL DEF Spec

\* dev_sensor_zph02_thread never sleeps in rt_sem_take while UART3 holds a byte.
THEOREM NoLostWakeupCorrect == Spec => []NoLostWakeup
<1>1. WakeInv => NoLostWakeup
  BY DEF WakeInv, NoLostWakeup
<1>2. QED
  BY <1>1, WakeInductive, PTL

-----------------------------------------------------------------------------
(* What a rejected frame does.                                             *)

\* A parser that ignores bytes goes on ignoring them, whatever happens.
LEMMA StalledStays ==
    ASSUME WakeInv, Stalled, [Next]_vars
    PROVE  Stalled'
<1> USE DEF Stalled
<1>1. CASE Setup
  BY <1>1 DEF Setup, InitFind, InitOpen, InitIndicate, InitThread
<1>2. ASSUME NEW b, Interrupt(b) PROVE Stalled'
  BY <1>2 DEF Interrupt, dev_sensor_zph02_callback, setup
<1>3. CASE Receive \/ ReceiveFaulty
  BY <1>2, <1>3 DEF Receive, ReceiveFaulty
<1>4. CASE Lose
  BY <1>4 DEF Lose, setup, parser
<1>5. CASE Read
  BY <1>5 DEF Read, setup
<1>6. CASE Take
  BY <1>6 DEF Take, setup
<1>7. CASE Parse
  BY <1>7 DEF Parse, setup
<1>8. CASE value_check_high \/ value_check_low
  BY <1>8 DEF value_check_high, value_check_low
<1>9. CASE SensorRead
  BY <1>9 DEF SensorRead, parser, WakeInv
<1>10. CASE UNCHANGED vars
  BY <1>10 DEF vars, setup, parser
<1>11. QED
  BY <1>1, <1>3, <1>4, <1>5, <1>6, <1>7, <1>8, <1>9, <1>10 DEF Next, Thread

\* After a frame that dev_zph02_value_check rejected, the status stays BUSY and
\* dev_sensor_zph02_thread ignores every later byte.
THEOREM RejectionIsFinalCorrect == Spec => RejectionIsFinal
<1>1. WakeInv /\ [Next]_vars => [Stalled => Stalled']_vars
  BY StalledStays
<1>2. QED
  BY <1>1, WakeInductive, PTL DEF Spec, RejectionIsFinal

-----------------------------------------------------------------------------
(* Types and frame assembly.                                               *)

\* TypeOK by the groups of variables that actions leave alone together.
LineOK == frame \in Frames /\ sent \in 0..8 /\ faults \in 0..MaxFaults
UartOK == queue \in Seq(Byte) /\ Len(queue) < RT_SERIAL_RB_BUFSZ /\ dev_zph02_rx_sem \in 0..SemMax
SetupOK ==
    /\ init \in {"find", "open", "indicate", "thread", "done", "no_device", "no_thread"}
    /\ dev_zph02_inited \in BOOLEAN
StateOK ==
    /\ zph02_status \in {"DEINIT", "BUSY", "IDLE"}
    /\ pc \in {"none", "read", "take", "suspended", "parse", "check", "low"}
BytesOK ==
    /\ ch \in -128..127 /\ count \in 0..8 /\ value_buffer \in [0..8 -> Byte]
    /\ data_high \in Byte /\ data_low \in Byte
HistoryOK == accepted \in (Byte \X Byte) \X (Byte \X Byte) /\ zph02_data \in Nat

\* The groups make up TypeOK.
LEMMA TypeGroups ==
    TypeOK <=> LineOK /\ UartOK /\ SetupOK /\ StateOK /\ BytesOK /\ HistoryOK
  BY DEF TypeOK, LineOK, UartOK, SetupOK, StateOK, BytesOK, HistoryOK

\* The FIFO that rt_serial_open creates.
LEMMA EmptyQueue == <<>> \in Seq(Byte) /\ Len(<<>>) < RT_SERIAL_RB_BUFSZ
  BY Zph02BufszAssumption

\* The FIFO after one more byte holds bytes, and fewer than RT_SERIAL_RB_BUFSZ of them.
LEMMA ReceivedType ==
    ASSUME NEW q \in Seq(Byte), Len(q) < RT_SERIAL_RB_BUFSZ, NEW b \in Byte
    PROVE  Fifo!Received(q, b) \in Seq(Byte) /\ Len(Fifo!Received(q, b)) < RT_SERIAL_RB_BUFSZ
<1>1. Append(q, b) \in Seq(Byte) /\ Len(Append(q, b)) = Len(q) + 1 /\ Len(q) \in Nat
  OBVIOUS
<1>2. CASE Len(Append(q, b)) > RT_SERIAL_RB_BUFSZ - 1
  <2>1. Tail(Append(q, b)) \in Seq(Byte) /\ Len(Tail(Append(q, b))) = Len(q)
    BY <1>1
  <2>2. QED
    BY <1>2, <2>1 DEF Fifo!Received
<1>3. CASE ~(Len(Append(q, b)) > RT_SERIAL_RB_BUFSZ - 1)
  BY <1>1, <1>3, Zph02BufszAssumption DEF Fifo!Received
<1>4. QED
  BY <1>2, <1>3

\* The sensor's next byte, and the wire after it.
LEMMA WireType ==
    ASSUME LineOK
    PROVE  frame[sent + 1] \in Byte /\ (Transmit => frame' \in Frames /\ sent' \in 0..8)
  BY FramesAssumption DEF LineOK, Transmit

\* The receive interrupt keeps the types.
LEMMA InterruptType ==
    ASSUME TypeOK, NEW b \in Byte, Interrupt(b)
    PROVE  UartOK' /\ SetupOK' /\ StateOK' /\ BytesOK' /\ HistoryOK'
<1> USE TypeGroups
<1>1. queue' \in Seq(Byte) /\ Len(queue') < RT_SERIAL_RB_BUFSZ
  BY ReceivedType DEF UartOK, Interrupt
<1>2. dev_zph02_rx_sem' \in 0..SemMax
  BY BoundsAssumption DEF UartOK, Interrupt, dev_sensor_zph02_callback
<1>3. StateOK'
  BY DEF StateOK, Interrupt, dev_sensor_zph02_callback
<1>4. SetupOK' /\ BytesOK' /\ HistoryOK'
  BY DEF SetupOK, BytesOK, HistoryOK, Interrupt, setup
<1>5. QED
  BY <1>1, <1>2, <1>3, <1>4 DEF UartOK

\* A byte read from the queue, and stored in the frame.
LEMMA ParserType ==
    ASSUME TypeOK, Read \/ Parse
    PROVE  UartOK' /\ StateOK' /\ BytesOK'
<1> USE TypeGroups
<1>1. CASE Read
  <2>1. CASE queue = <<>>
    BY <1>1, <2>1 DEF Read, UartOK, StateOK, BytesOK
  <2>2. CASE queue # <<>>
    <3>1. Head(queue) \in Byte /\ Tail(queue) \in Seq(Byte)
          /\ Len(Tail(queue)) = Len(queue) - 1 /\ Len(queue) \in Nat
      BY <2>2 DEF UartOK
    <3>2. ch' \in -128..127
      BY ZenonT(20), <1>1, <2>2, <3>1, Int8Range DEF Read
    <3>3. UartOK' /\ StateOK'
      BY <1>1, <2>2, <3>1, Zph02BufszAssumption DEF Read, UartOK, StateOK
    <3>4. QED
      BY <1>1, <3>2, <3>3 DEF Read, BytesOK
  <2>3. QED
    BY <2>1, <2>2
<1>2. CASE Parse
  <2>1. UartOK'
    BY <1>2 DEF Parse, UartOK, uart
  <2>2. StateOK'
    BY <1>2 DEF Parse, StateOK
  <2>3. UInt8(ch) \in Byte
    BY SMTT(20) DEF BytesOK, UInt8, Byte
  <2>4. CASE zph02_status # "IDLE"
    BY <1>2, <2>1, <2>2, <2>4 DEF Parse, BytesOK
  <2>5. CASE zph02_status = "IDLE"
    <3> DEFINE c == IF ch = 255 THEN 0 ELSE count
    <3>1. c \in 0..8
      BY DEF BytesOK
    <3>2. value_buffer' \in [0..8 -> Byte]
      BY <1>2, <2>3, <2>5, <3>1 DEF Parse, BytesOK
    <3>3. count' \in 0..8
      BY <1>2, <2>5, <3>1 DEF Parse
    <3>4. QED
      BY <1>2, <2>1, <2>2, <3>2, <3>3 DEF Parse, BytesOK
  <2>6. QED
    BY <2>4, <2>5
<1>3. QED
  BY <1>1, <1>2

\* dev_zph02_value_check and dev_sensor_data_read keep the types.
LEMMA CheckType ==
    ASSUME TypeOK, value_check_high \/ value_check_low \/ SensorRead
    PROVE  SetupOK' /\ StateOK' /\ BytesOK' /\ HistoryOK'
<1> USE TypeGroups
<1>a. value_buffer[3] \in Byte /\ value_buffer[4] \in Byte
  BY DEF BytesOK
<1>b. \A high, low \in Byte : high * 100 + low \in Nat
  BY DEF Byte
<1>c. data_high * 100 + data_low \in Nat
  BY <1>b DEF BytesOK
<1>0. /\ value_buffer[3] \in Byte /\ value_buffer[4] \in Byte
      /\ data_high * 100 + data_low \in Nat
  BY <1>a, <1>c
<1>1. CASE value_check_high
  <2>1. SetupOK' /\ StateOK'
    BY <1>1 DEF value_check_high, SetupOK, StateOK, setup
  <2>2. BytesOK'
    BY <1>0, <1>1 DEF value_check_high, BytesOK
  <2>3. accepted' \in (Byte \X Byte) \X (Byte \X Byte)
    BY <1>0, <1>1 DEF value_check_high, HistoryOK
  <2>4. QED
    BY <1>1, <2>1, <2>2, <2>3 DEF value_check_high, HistoryOK
<1>2. CASE value_check_low
  BY <1>0, <1>2 DEF value_check_low, SetupOK, StateOK, BytesOK, HistoryOK, setup
<1>3. CASE SensorRead
  <2>1. SetupOK'
    BY <1>3 DEF SensorRead, SetupOK
  <2>2. StateOK' /\ BytesOK'
    BY <1>3 DEF SensorRead, StateOK, BytesOK, parser
  <2>3. zph02_data' \in Nat /\ accepted' = accepted
    BY <1>0, <1>3 DEF SensorRead, HistoryOK, parser
  <2>4. QED
    BY <2>1, <2>2, <2>3 DEF HistoryOK
<1>4. QED
  BY <1>1, <1>2, <1>3

\* Type correctness of the ZPH02 path: no index leaves dev_zph02_value_buffer,
\* the FIFO holds fewer than RT_SERIAL_RB_BUFSZ bytes, and ch keeps the range of rt_int8_t.
THEOREM TypeCorrect == Spec => []TypeOK
<1>1. Init => TypeOK
  <2> SUFFICES ASSUME Init PROVE TypeOK
    OBVIOUS
  <2>0. 0 \in Byte
    BY DEF Byte
  <2>a. LineOK
    BY BoundsAssumption DEF Init, LineOK
  <2>1. LineOK /\ SetupOK /\ StateOK
    BY ZenonT(20), <2>a DEF Init, SetupOK, StateOK
  <2>2. UartOK
    BY EmptyQueue, BoundsAssumption DEF Init, UartOK
  <2>3. BytesOK /\ HistoryOK
    BY <2>0 DEF Init, BytesOK, HistoryOK
  <2>4. QED
    BY <2>1, <2>2, <2>3, TypeGroups
<1>2. TypeOK /\ [Next]_vars => TypeOK'
  <2> SUFFICES ASSUME TypeOK, [Next]_vars PROVE TypeOK'
    OBVIOUS
  <2>0. LineOK /\ UartOK /\ SetupOK /\ StateOK /\ BytesOK /\ HistoryOK
    BY TypeGroups
  <2> SUFFICES LineOK' /\ UartOK' /\ SetupOK' /\ StateOK' /\ BytesOK' /\ HistoryOK'
    BY DEF TypeOK, LineOK, UartOK, SetupOK, StateOK, BytesOK, HistoryOK
  <2>1. CASE Setup
    <3>1. LineOK' /\ SetupOK'
      BY ZenonT(20), <2>0, <2>1 DEF Setup, InitFind, InitOpen, InitIndicate, InitThread, line,
                        LineOK, SetupOK
    <3>2. UartOK'
      <4>1. CASE InitOpen
        BY <4>1, EmptyQueue, BoundsAssumption DEF InitOpen, UartOK
      <4>2. CASE InitFind \/ InitIndicate \/ InitThread
        BY <2>0, <4>2 DEF InitFind, InitIndicate, InitThread, uart, UartOK
      <4>3. QED
        BY <2>1, <4>1, <4>2 DEF Setup
    <3>3. StateOK'
      BY <2>0, <2>1 DEF Setup, InitFind, InitOpen, InitIndicate, InitThread, parser, StateOK
    <3>4. UNCHANGED <<ch, count, value_buffer, data_high, data_low, accepted, zph02_data>>
      BY <2>1 DEF Setup, InitFind, InitOpen, InitIndicate, InitThread, parser
    <3>5. BytesOK' /\ HistoryOK'
      BY <2>0, <3>4 DEF BytesOK, HistoryOK
    <3>6. QED
      BY <3>1, <3>2, <3>3, <3>5
  <2>2. CASE Receive
    <3>1. UartOK' /\ SetupOK' /\ StateOK' /\ BytesOK' /\ HistoryOK'
      BY <2>0, <2>2, WireType, InterruptType DEF Receive
    <3>2. LineOK'
      BY <2>0, <2>2, WireType DEF Receive, LineOK
    <3>3. QED
      BY <3>1, <3>2
  <2>3. CASE ReceiveFaulty
    <3>1. UartOK' /\ SetupOK' /\ StateOK' /\ BytesOK' /\ HistoryOK'
      BY <2>0, <2>3, WireType, InterruptType, NoiseAssumption DEF ReceiveFaulty
    <3>2. LineOK'
      BY <2>0, <2>3, WireType, BoundsAssumption DEF ReceiveFaulty, LineOK
    <3>3. QED
      BY <3>1, <3>2
  <2>4. CASE Lose
    <3>1. LineOK'
      BY <2>0, <2>4, WireType, BoundsAssumption DEF Lose, LineOK
    <3>2. UartOK' /\ SetupOK' /\ StateOK' /\ BytesOK' /\ HistoryOK'
      BY <2>0, <2>4 DEF Lose, uart, setup, parser, UartOK, SetupOK, StateOK, BytesOK,
                        HistoryOK
    <3>3. QED
      BY <3>1, <3>2
  <2>5. CASE Read \/ Parse
    <3>1. UartOK' /\ StateOK' /\ BytesOK'
      BY <2>5, ParserType
    <3>2. LineOK' /\ SetupOK' /\ HistoryOK'
      BY <2>0, <2>5 DEF Read, Parse, line, setup, LineOK, SetupOK, HistoryOK
    <3>3. QED
      BY <3>1, <3>2
  <2>6. CASE Take
    <3>1. UartOK'
      BY <2>0, <2>6, BoundsAssumption DEF Take, UartOK
    <3>2. LineOK' /\ SetupOK' /\ StateOK' /\ BytesOK' /\ HistoryOK'
      BY <2>0, <2>6 DEF Take, line, setup, LineOK, SetupOK, StateOK, BytesOK, HistoryOK
    <3>3. QED
      BY <3>1, <3>2
  <2>7. CASE value_check_high \/ value_check_low \/ SensorRead
    <3>1. SetupOK' /\ StateOK' /\ BytesOK' /\ HistoryOK'
      BY <2>7, CheckType
    <3>2. LineOK' /\ UartOK'
      BY <2>0, <2>7 DEF value_check_high, value_check_low, SensorRead, line, uart,
                        LineOK, UartOK
    <3>3. QED
      BY <3>1, <3>2
  <2>8. CASE UNCHANGED vars
    BY <2>0, <2>8 DEF vars, line, uart, setup, parser, LineOK, UartOK, SetupOK, StateOK,
                      BytesOK, HistoryOK
  <2>9. QED
    BY <2>1, <2>2, <2>3, <2>4, <2>5, <2>6, <2>7, <2>8 DEF Next, Thread
<1>3. QED
  BY <1>1, <1>2, PTL DEF Spec

\* "ch == 0xff" never holds, so a start byte in the middle of a frame never
\* restarts it: every stored byte moves count on by one, modulo nine.
THEOREM HeaderNeverResyncsCorrect == Spec => HeaderNeverResyncs
<1>1. TypeOK /\ [Next]_vars => [count' \in {count, (count + 1) % 9}]_vars
  <2> SUFFICES ASSUME TypeOK, Next PROVE count' \in {count, (count + 1) % 9}
    OBVIOUS
  <2>1. ch # 255 /\ count \in 0..8
    BY DEF TypeOK
  <2>2. CASE Parse
    <3>1. CASE zph02_status # "IDLE"
      BY <2>2, <3>1 DEF Parse
    <3>2. CASE zph02_status = "IDLE" /\ count + 1 = 9
      BY <2>1, <2>2, <3>2 DEF Parse
    <3>3. CASE zph02_status = "IDLE" /\ count + 1 # 9
      <4>1. count' = count + 1
        BY <2>1, <2>2, <3>3 DEF Parse
      <4>2. (count + 1) % 9 = count + 1
        BY <2>1, <3>3
      <4>3. QED
        BY <4>1, <4>2
    <3>4. QED
      BY <3>1, <3>2, <3>3
  <2>3. CASE ~Parse
    BY ZenonT(20), <2>3 DEF Next, Setup, InitFind, InitOpen, InitIndicate, InitThread, Receive,
                ReceiveFaulty, Interrupt, Lose, Thread, Read, Take, value_check_high,
                value_check_low, SensorRead, parser
  <2>4. QED
    BY <2>2, <2>3
<1>2. QED
  BY <1>1, TypeCorrect, PTL DEF Spec, HeaderNeverResyncs

-----------------------------------------------------------------------------
(* The bytes between the sensor and the parser.                            *)

\* The queue q holds what the sensor has sent since byte c of a frame: byte j of
\* q belongs to the frame fs[j], which changes only where a frame ends; the
\* first one is g unless a frame starts there; and the sensor has put s bytes
\* of the frame f on the wire.
Tracks(q, c, g, f, s) ==
    /\ s = (c + Len(q)) % 9
    /\ \E fs \in [Nat -> Frames] :
          /\ fs[Len(q) + 1] = f
          /\ c % 9 # 0 => fs[1] = g
          /\ \A j \in 1..Len(q) :
                /\ q[j] = fs[j][((c + j - 1) % 9) + 1]
                /\ (c + j) % 9 # 0 => fs[j + 1] = fs[j]

\* The parser holds the first count bytes of a frame, the byte in ch goes on with
\* it, and the FIFO holds the bytes after that.
Assembling ==
    \E g \in Frames :
       /\ \A i \in 0..(count - 1) : value_buffer[i] = g[i + 1]
       /\ pc = "parse" => ch = Int8(g[count + 1])
       /\ Tracks(queue, count + (IF pc = "parse" THEN 1 ELSE 0), g, frame, sent)

WholeFrame == \E g \in Frames : \A i \in 0..8 : value_buffer[i] = g[i + 1]

\* The status and the parser follow the initialization: no byte is queued before
\* the UART is open, and none is stored before the thread is there.
StatusInv ==
    /\ ~UartOpen => queue = <<>>
    /\ init = "done" => zph02_status # "DEINIT"
    /\ init # "done" => zph02_status # "IDLE" /\ count = 0
    /\ pc \in {"check", "low"} => zph02_status = "BUSY" /\ count = 0

Measured == {<<0, 0>>} \cup {<<f[4], f[5]>> : f \in Frames}

StreamInv ==
    faults = 0 => /\ Stalled \/ Assembling
                  /\ pc = "check" => WholeFrame
                  /\ accepted[2] \in Measured

\* The position after one more byte.
LEMMA InFrame ==
    ASSUME NEW n \in Nat
    PROVE  /\ n % 9 \in 0..8
           /\ (n + 1) % 9 = IF n % 9 = 8 THEN 0 ELSE (n % 9) + 1
           /\ (9 + n) % 9 = n % 9
  OBVIOUS

\* The sensor's next byte arrives in a FIFO that has room.
LEMMA TracksReceive ==
    ASSUME NEW q \in Seq(Byte), NEW c \in Nat, NEW g, NEW f, NEW s, Tracks(q, c, g, f, s),
           NEW f2 \in Frames, NEW s2,
           IF s = 8 THEN s2 = 0 ELSE s2 = s + 1 /\ f2 = f
    PROVE  Tracks(Append(q, f[s + 1]), c, g, f2, s2)
<1>1. PICK fs \in [Nat -> Frames] :
         /\ fs[Len(q) + 1] = f
         /\ c % 9 # 0 => fs[1] = g
         /\ \A j \in 1..Len(q) :
               /\ q[j] = fs[j][((c + j - 1) % 9) + 1]
               /\ (c + j) % 9 # 0 => fs[j + 1] = fs[j]
  BY ZenonT(20) DEF Tracks
<1> DEFINE n == Len(q)
           q2 == Append(q, f[s + 1])
           fs2 == [fs EXCEPT ![n + 2] = f2]
<1>2. n \in Nat /\ Len(q2) = n + 1 /\ c + n \in Nat
  OBVIOUS
<1>3. s = (c + n) % 9
  BY DEF Tracks
<1>4. s2 = (c + Len(q2)) % 9
  <2>1. (c + n + 1) % 9 = IF (c + n) % 9 = 8 THEN 0 ELSE ((c + n) % 9) + 1
    BY <1>2, InFrame
  <2>2. c + Len(q2) = c + n + 1
    BY <1>2
  <2>3. QED
    BY <1>3, <2>1, <2>2
<1>5. fs2 \in [Nat -> Frames]
  BY <1>1, <1>2
<1>6. /\ fs2[n + 2] = f2
      /\ \A j \in 1..(n + 1) : fs2[j] = fs[j]
  BY <1>1, <1>2
<1>7. fs2[Len(q2) + 1] = f2
  BY <1>2, <1>6
<1>8. c % 9 # 0 => fs2[1] = g
  BY <1>1, <1>2, <1>6
<1>9. ASSUME NEW j \in 1..Len(q2)
      PROVE  /\ q2[j] = fs2[j][((c + j - 1) % 9) + 1]
             /\ (c + j) % 9 # 0 => fs2[j + 1] = fs2[j]
  <2>1. CASE j \in 1..n
    <3>1. q2[j] = q[j] /\ fs2[j] = fs[j] /\ fs2[j + 1] = fs[j + 1]
      BY <1>2, <1>6, <2>1
    <3>2. QED
      BY ZenonT(20), <1>1, <2>1, <3>1
  <2>2. CASE j = n + 1
    <3>1. q2[j] = f[s + 1] /\ fs2[j] = f /\ fs2[j + 1] = f2
      BY <1>1, <1>2, <1>6, <2>2
    <3>2. c + j - 1 = c + n /\ c + j = c + Len(q2)
      BY <1>2, <2>2
    <3>3. (c + j) % 9 # 0 => s # 8
      BY <1>4, <3>2
    <3>4. QED
      BY ZenonT(20), <1>3, <3>1, <3>2, <3>3
  <2>3. QED
    BY SMTT(20), <1>2, <2>1, <2>2
<1>10. QED
  <2> HIDE DEF q2, fs2
  <2>1. Tracks(q2, c, g, f2, s2)
    BY ZenonT(20), <1>4, <1>5, <1>7, <1>8, <1>9 DEF Tracks
  <2>2. QED
    BY <2>1 DEF q2

\* The parser reads a byte: it is byte c of a frame, the one in work if c # 0.
LEMMA TracksRead ==
    ASSUME NEW q \in Seq(Byte), q # <<>>, NEW c \in Nat, NEW g, NEW f, NEW s,
           Tracks(q, c, g, f, s)
    PROVE  \E g2 \in Frames :
              /\ Tracks(Tail(q), c + 1, g2, f, s)
              /\ Head(q) = g2[(c % 9) + 1]
              /\ c % 9 # 0 => g2 = g
<1>1. PICK fs \in [Nat -> Frames] :
         /\ fs[Len(q) + 1] = f
         /\ c % 9 # 0 => fs[1] = g
         /\ \A j \in 1..Len(q) :
               /\ q[j] = fs[j][((c + j - 1) % 9) + 1]
               /\ (c + j) % 9 # 0 => fs[j + 1] = fs[j]
  BY DEF Tracks
<1> DEFINE n == Len(q)
           t == Tail(q)
           ft == [i \in Nat |-> fs[i + 1]]
<1>2. /\ n \in Nat /\ n >= 1 /\ Len(t) = n - 1 /\ Head(q) = q[1]
      /\ \A j \in 1..(n - 1) : t[j] = q[j + 1]
  OBVIOUS
<1>3. s = (c + 1 + Len(t)) % 9
  <2>1. c + 1 + Len(t) = c + n
    BY <1>2
  <2>2. QED
    BY <2>1 DEF Tracks
<1>4. ft \in [Nat -> Frames] /\ \A i \in Nat : ft[i] = fs[i + 1]
  BY <1>1
<1>5. ft[Len(t) + 1] = f
  <2>1. Len(t) + 1 \in Nat /\ Len(t) + 1 + 1 = n + 1
    BY <1>2
  <2>2. QED
    BY <1>1, <1>4, <2>1
<1>6. fs[1] \in Frames /\ ((c + 1) % 9 # 0 => ft[1] = fs[1])
  <2>1. 1 \in 1..Len(q) /\ 1 \in Nat
    BY <1>2
  <2>2. QED
    BY <1>1, <1>4, <2>1
<1>7. Head(q) = fs[1][(c % 9) + 1] /\ (c % 9 # 0 => fs[1] = g)
  <2>1. 1 \in 1..Len(q) /\ c + 1 - 1 = c
    BY <1>2
  <2>2. QED
    BY <1>1, <1>2, <2>1
<1>8. ASSUME NEW j \in 1..Len(t)
      PROVE  /\ t[j] = ft[j][((c + 1 + j - 1) % 9) + 1]
             /\ (c + 1 + j) % 9 # 0 => ft[j + 1] = ft[j]
  <2>1. j + 1 \in 1..Len(q) /\ j \in Nat /\ j + 1 \in Nat /\ t[j] = q[j + 1]
    BY <1>2
  <2>2. c + (j + 1) - 1 = c + 1 + j - 1 /\ c + (j + 1) = c + 1 + j
    BY <2>1
  <2>3. QED
    BY <1>1, <1>4, <2>1, <2>2
<1>9. Tracks(t, c + 1, fs[1], f, s)
  <2> HIDE DEF t, ft
  <2>1. QED
    BY ZenonT(20), <1>3, <1>4, <1>5, <1>6, <1>8 DEF Tracks
<1>10. QED
  BY <1>6, <1>7, <1>9

\* The parser has stored a whole frame and starts the next one.
LEMMA TracksWrap ==
    ASSUME NEW q \in Seq(Byte), NEW g, NEW g2, NEW f, NEW s, Tracks(q, 9, g, f, s)
    PROVE  Tracks(q, 0, g2, f, s)
<1>1. Len(q) \in Nat /\ 0 % 9 = 0
  OBVIOUS
<1>2. (9 + Len(q)) % 9 = (0 + Len(q)) % 9
  BY <1>1, InFrame
<1>3. ASSUME NEW j \in 1..Len(q)
      PROVE  (9 + j) % 9 = (0 + j) % 9 /\ (9 + j - 1) % 9 = (0 + j - 1) % 9
  <2>1. j \in Nat /\ j - 1 \in Nat /\ 9 + j - 1 = 9 + (j - 1) /\ 0 + j - 1 = j - 1 /\ 0 + j = j
    BY <1>1
  <2>2. QED
    BY <2>1, InFrame
<1>4. QED
  BY <1>1, <1>2, <1>3 DEF Tracks

\* Everyone keeps the relation between the status, the thread and the UART.
LEMMA StatusStep ==
    ASSUME TypeOK, WakeInv, StatusInv, [Next]_vars
    PROVE  StatusInv'
<1> USE DEF StatusInv, UartOpen
<1>1. CASE Setup
  BY <1>1 DEF Setup, InitFind, InitOpen, InitIndicate, InitThread, WakeInv, uart, parser
<1>2. ASSUME NEW b, Interrupt(b) PROVE StatusInv'
  BY <1>2 DEF Interrupt, dev_sensor_zph02_callback, setup
<1>3. CASE Receive \/ ReceiveFaulty
  BY <1>2, <1>3 DEF Receive, ReceiveFaulty
<1>4. CASE Lose
  BY <1>4 DEF Lose, uart, setup, parser
<1>5. CASE Read
  BY <1>5, Zenon DEF Read, setup
<1>6. CASE Take
  BY <1>6 DEF Take, setup
<1>7. CASE Parse
  <2>1. init = "done" /\ init' = init /\ queue' = queue
    BY <1>7 DEF Parse, WakeInv, uart, setup
  <2>2. QED
    BY <1>7, <2>1 DEF Parse
<1>8. CASE value_check_high \/ value_check_low
  <2>1. init = "done" /\ init' = init /\ queue' = queue
    BY <1>8 DEF value_check_high, value_check_low, WakeInv, uart, setup
  <2>2. QED
    BY <1>8, <2>1 DEF value_check_high, value_check_low
<1>9. CASE SensorRead
  BY <1>9 DEF SensorRead, WakeInv, uart, parser
<1>10. CASE UNCHANGED vars
  BY <1>10 DEF vars, uart, setup, parser
<1>11. QED
  BY <1>1, <1>3, <1>4, <1>5, <1>6, <1>7, <1>8, <1>9, <1>10 DEF Next, Thread

\* A byte that the sensor sends reaches the FIFO in its place.
LEMMA ReceiveAssembles ==
    ASSUME TypeOK, Assembling, Receive
    PROVE  Assembling'
<1>1. PICK g \in Frames :
         /\ \A i \in 0..(count - 1) : value_buffer[i] = g[i + 1]
         /\ pc = "parse" => ch = Int8(g[count + 1])
         /\ Tracks(queue, count + (IF pc = "parse" THEN 1 ELSE 0), g, frame, sent)
  BY DEF Assembling
<1> DEFINE c == count + (IF pc = "parse" THEN 1 ELSE 0)
<1>2. queue' = Append(queue, frame[sent + 1])
  BY Zph02BufszAssumption DEF TypeOK, Receive, Interrupt, Fifo!Received
<1>3. /\ count' = count /\ value_buffer' = value_buffer /\ ch' = ch
      /\ pc' = "parse" <=> pc = "parse"
  BY DEF Receive, Interrupt, dev_sensor_zph02_callback
<1>4. c \in Nat /\ queue \in Seq(Byte)
  BY DEF TypeOK
<1>5. frame' \in Frames /\ IF sent = 8 THEN sent' = 0 ELSE sent' = sent + 1 /\ frame' = frame
  BY DEF TypeOK, Receive, Transmit
<1>6. Tracks(queue', c, g, frame', sent')
  BY ZenonT(20), <1>1, <1>2, <1>4, <1>5, TracksReceive
<1>7. c = count' + (IF pc' = "parse" THEN 1 ELSE 0)
  BY <1>3
<1>8. /\ \A i \in 0..(count' - 1) : value_buffer'[i] = g[i + 1]
      /\ pc' = "parse" => ch' = Int8(g[count' + 1])
  BY <1>1, <1>3
<1>9. QED
  BY <1>6, <1>7, <1>8 DEF Assembling

\* The parser takes the next byte from the FIFO.
LEMMA ReadAssembles ==
    ASSUME TypeOK, Assembling, Read
    PROVE  Assembling'
<1>1. PICK g \in Frames :
         /\ \A i \in 0..(count - 1) : value_buffer[i] = g[i + 1]
         /\ Tracks(queue, count, g, frame, sent)
  <2>1. pc # "parse" /\ count + 0 = count
    BY DEF Read, TypeOK
  <2>2. QED
    BY <2>1 DEF Assembling
<1>2. UNCHANGED <<frame, sent, count, value_buffer>>
  BY DEF Read, line
<1>3. CASE queue = <<>>
  <2>1. pc' = "take" /\ queue' = queue /\ count + 0 = count
    BY <1>3 DEF Read, TypeOK
  <2>2. QED
    BY <1>1, <1>2, <2>1 DEF Assembling
<1>4. CASE queue # <<>>
  <2>1. pc' = "parse" /\ ch' = Int8(Head(queue)) /\ queue' = Tail(queue)
    BY <1>4 DEF Read
  <2>2. count \in 0..8 /\ queue \in Seq(Byte) /\ count % 9 = count
    BY DEF TypeOK
  <2>3. PICK h \in Frames :
           /\ Tracks(Tail(queue), count + 1, h, frame, sent)
           /\ Head(queue) = h[(count % 9) + 1]
           /\ count % 9 # 0 => h = g
    BY <1>1, <1>4, <2>2, TracksRead
  <2>4. \A i \in 0..(count - 1) : value_buffer[i] = h[i + 1]
    BY <1>1, <2>2, <2>3
  <2>5. ch' = Int8(h[count + 1])
    BY <2>1, <2>2, <2>3
  <2>6. QED
    BY <1>2, <2>1, <2>3, <2>4, <2>5 DEF Assembling
<1>5. QED
  BY <1>3, <1>4

\* Conversion to rt_int8_t and back to rt_uint8_t gives the byte again.
LEMMA Int8Inverse ==
    ASSUME NEW b \in Byte
    PROVE  UInt8(Int8(b)) = b
  BY DEF Byte, UInt8, Int8

\* The parser stores a byte of the frame it is assembling.
LEMMA ParseAssembles ==
    ASSUME TypeOK, Assembling, Parse, zph02_status = "IDLE"
    PROVE  Assembling' /\ (pc' = "check" => WholeFrame')
<1>1. PICK g \in Frames :
         /\ \A i \in 0..(count - 1) : value_buffer[i] = g[i + 1]
         /\ ch = Int8(g[count + 1])
         /\ Tracks(queue, count + 1, g, frame, sent)
  BY DEF Assembling, Parse
<1>2. count \in 0..8 /\ ch # 255 /\ value_buffer \in [0..8 -> Byte] /\ queue \in Seq(Byte)
  BY DEF TypeOK
<1>3. /\ UNCHANGED <<frame, sent, queue, ch>>
      /\ value_buffer' = [value_buffer EXCEPT ![count] = UInt8(ch)]
      /\ IF count + 1 = 9 THEN count' = 0 /\ pc' = "check"
                          ELSE count' = count + 1 /\ pc' = "read"
  BY <1>2 DEF Parse, line, uart
<1>4. g[count + 1] \in Byte
  BY <1>2, FramesAssumption
<1>5. UInt8(ch) = g[count + 1]
  BY <1>1, <1>4, Int8Inverse
<1>6. \A i \in 0..count : value_buffer'[i] = g[i + 1]
  BY <1>1, <1>2, <1>3, <1>5
<1>7. CASE count + 1 = 9
  <2>1. count = 8 /\ pc' = "check" /\ count' = 0
    BY <1>2, <1>3, <1>7
  <2>2. Tracks(queue, 0, g, frame, sent)
    BY <1>1, <1>2, <1>7, TracksWrap
  <2>3. Assembling'
    BY <1>3, <2>1, <2>2 DEF Assembling
  <2>4. WholeFrame'
    BY <1>6, <2>1 DEF WholeFrame
  <2>5. QED
    BY <2>3, <2>4
<1>8. CASE count + 1 # 9
  <2>1. count' = count + 1 /\ pc' = "read" /\ count' - 1 = count /\ count' + 0 = count + 1
    BY <1>2, <1>3, <1>8
  <2>2. QED
    BY <1>1, <1>3, <1>6, <2>1 DEF Assembling
<1>9. QED
  BY <1>7, <1>8

\* A line that is faultless after a step was so before it.
LEMMA FaultsGrow ==
    ASSUME TypeOK, [Next]_vars, faults' = 0
    PROVE  faults = 0 /\ ~ReceiveFaulty /\ ~Lose
<1>1. ~ReceiveFaulty /\ ~Lose
  BY DEF ReceiveFaulty, Lose, TypeOK
<1>2. CASE Setup
  BY <1>1, <1>2 DEF Setup, InitFind, InitOpen, InitIndicate, InitThread, line
<1>3. CASE Receive
  BY <1>1, <1>3 DEF Receive
<1>4. CASE Thread
  BY <1>1, <1>4 DEF Thread, Read, Take, Parse, value_check_high, value_check_low, line
<1>5. CASE SensorRead \/ UNCHANGED vars
  BY <1>1, <1>5 DEF SensorRead, vars, line
<1>6. QED
  BY <1>1, <1>2, <1>3, <1>4, <1>5 DEF Next

\* Every step keeps what faultless lines promise.
LEMMA StreamStep ==
    ASSUME TypeOK, WakeInv, StatusInv, StreamInv, [Next]_vars
    PROVE  StreamInv'
<1> SUFFICES ASSUME faults' = 0
             PROVE  /\ Stalled' \/ Assembling'
                    /\ pc' = "check" => WholeFrame'
                    /\ accepted'[2] \in Measured
  BY DEF StreamInv
<1> DEFINE Kept == /\ Stalled \/ Assembling
                   /\ pc = "check" => WholeFrame
                   /\ accepted[2] \in Measured
<1>0. faults = 0 /\ ~ReceiveFaulty /\ ~Lose
  BY FaultsGrow
<1>1. Kept
  BY <1>0 DEF StreamInv
<1>2. Stalled => Stalled'
  BY StalledStays
<1>3. CASE Setup
  <2>1. ~Stalled /\ pc = "none" /\ pc' \in {"none", "read"}
    BY <1>3 DEF Setup, InitFind, InitOpen, InitIndicate, InitThread, WakeInv, Stalled, parser
  <2>2. UNCHANGED <<frame, sent, queue, count, value_buffer, accepted>>
    BY <1>3 DEF Setup, InitFind, InitOpen, InitIndicate, InitThread, StatusInv, UartOpen,
                line, uart, parser
  <2>3. QED
    BY <1>1, <2>1, <2>2 DEF Assembling
<1>4. CASE Receive
  <2>1. UNCHANGED <<value_buffer, accepted>> /\ (pc' = "check" => pc = "check")
    BY <1>4 DEF Receive, Interrupt, dev_sensor_zph02_callback
  <2>2. QED
    BY <1>1, <1>2, <1>4, <2>1, ReceiveAssembles DEF WholeFrame
<1>5. CASE Read
  <2>1. accepted' = accepted /\ pc' # "check"
    BY <1>5 DEF Read
  <2>2. QED
    BY <1>1, <1>2, <1>5, <2>1, ReadAssembles
<1>6. CASE Take
  <2>1. /\ UNCHANGED <<frame, sent, queue, count, value_buffer, accepted>>
        /\ pc # "parse" /\ pc' # "parse" /\ pc' # "check"
    BY <1>6 DEF Take, line
  <2>2. QED
    BY ZenonT(20), <1>1, <1>2, <2>1 DEF Assembling
<1>7. CASE Parse
  <2>1. accepted' = accepted /\ pc = "parse" /\ init = "done"
    BY <1>7 DEF Parse, WakeInv
  <2>2. CASE zph02_status = "IDLE"
    <3>1. ~Stalled
      BY <2>2 DEF Stalled
    <3>2. QED
      BY <1>1, <1>7, <2>1, <2>2, <3>1, ParseAssembles
  <2>3. CASE zph02_status # "IDLE"
    <3>1. Stalled
      BY <2>1, <2>3 DEF Stalled, StatusInv, TypeOK
    <3>2. pc' = "read"
      BY <1>7, <2>3 DEF Parse
    <3>3. QED
      BY <1>1, <1>2, <2>1, <3>1, <3>2
  <2>4. QED
    BY <2>2, <2>3
<1>8. CASE value_check_high
  <2>1. /\ UNCHANGED <<frame, sent, queue, count, value_buffer>>
        /\ pc = "check" /\ pc' \in {"low", "read"}
    BY <1>8 DEF value_check_high, line, uart
  <2>2. ~Stalled
    BY <2>1 DEF Stalled
  <2>3. Assembling'
    BY <1>1, <2>1, <2>2 DEF Assembling
  <2>4. accepted'[2] \in {accepted[2], <<value_buffer[3], value_buffer[4]>>}
    BY <1>8 DEF value_check_high
  <2>5. <<value_buffer[3], value_buffer[4]>> \in Measured
    <3>1. PICK g \in Frames : \A i \in 0..8 : value_buffer[i] = g[i + 1]
      BY <1>1, <2>1 DEF WholeFrame
    <3>2. value_buffer[3] = g[4] /\ value_buffer[4] = g[5]
      BY <3>1
    <3>3. QED
      BY <3>2 DEF Measured
  <2>6. QED
    BY <1>1, <2>1, <2>3, <2>4, <2>5
<1>9. CASE value_check_low
  <2>1. /\ UNCHANGED <<frame, sent, queue, count, value_buffer, accepted>>
        /\ pc = "low" /\ pc' = "read"
    BY <1>9 DEF value_check_low, line, uart
  <2>2. QED
    BY <1>1, <2>1 DEF Assembling, Stalled
<1>10. CASE SensorRead
  <2>1. UNCHANGED <<frame, sent, queue, count, value_buffer, accepted, pc, ch>>
    BY <1>10 DEF SensorRead, line, uart, parser
  <2>2. QED
    BY <1>1, <1>2, <2>1 DEF Assembling, WholeFrame
<1>11. CASE UNCHANGED vars
  <2>1. UNCHANGED <<frame, sent, queue, count, value_buffer, accepted, pc, ch>>
    BY <1>11 DEF vars, line, uart, parser
  <2>2. QED
    BY <1>1, <1>2, <2>1 DEF Assembling, WholeFrame
<1>12. QED
  BY <1>0, <1>3, <1>4, <1>5, <1>6, <1>7, <1>8, <1>9, <1>10, <1>11 DEF Next, Thread

\* A line without faults, at any time.
LEMMA StreamInductive == Spec => [](StatusInv /\ StreamInv)
<1>1. Init => StatusInv /\ StreamInv
  <2> SUFFICES ASSUME Init PROVE StatusInv /\ StreamInv
    OBVIOUS
  <2>1. StatusInv
    BY DEF Init, StatusInv
  <2>2. Tracks(<<>>, 0, frame, frame, 0)
    <3> DEFINE fs == [i \in Nat |-> frame]
    <3>1. fs \in [Nat -> Frames] /\ fs[1] = frame
      BY DEF Init
    <3>2. /\ Len(<<>>) = 0 /\ Len(<<>>) + 1 = 1 /\ (0 + Len(<<>>)) % 9 = 0 /\ 0 % 9 = 0
          /\ 1..Len(<<>>) = {}
      OBVIOUS
    <3> HIDE DEF fs
    <3>3. QED
      BY <3>1, <3>2 DEF Tracks
  <2>3. Assembling
    <3>1. count + (IF pc = "parse" THEN 1 ELSE 0) = 0 /\ 0..(count - 1) = {}
      BY DEF Init
    <3>2. QED
      BY <2>2, <3>1 DEF Init, Assembling
  <2>4. accepted[2] \in Measured
    BY DEF Init, Measured
  <2>5. QED
    BY <2>1, <2>3, <2>4 DEF Init, StreamInv
<1>2. TypeOK /\ WakeInv /\ StatusInv /\ StreamInv /\ [Next]_vars => (StatusInv /\ StreamInv)'
  BY StatusStep, StreamStep
<1>3. QED
  BY <1>1, <1>2, TypeCorrect, WakeInductive, PTL DEF Spec

\* For every set of frames and every FIFO size, however long the parser is kept
\* from running: while no byte is lost, damaged or overwritten, a parser that has
\* not stalled is aligned with the sensor, and dev_zph02_value_check accepts only
\* measurements the sensor sent, never a mixture of two frames.
THEOREM GenuineMeasurementCorrect == Spec => []GenuineMeasurement
<1>1. TypeOK /\ StreamInv => GenuineMeasurement
  <2> SUFFICES ASSUME TypeOK, StreamInv, faults = 0
               PROVE  (Stalled \/ Aligned) /\ accepted[2] \in Measured
    BY DEF GenuineMeasurement, Measured
  <2>1. Assembling => Aligned
    <3>1. count + (IF pc = "parse" THEN 1 ELSE 0) + Len(queue)
            = count + Len(queue) + (IF pc = "parse" THEN 1 ELSE 0)
      BY SMTT(20) DEF TypeOK
    <3>2. QED
      BY <3>1 DEF Assembling, Tracks, Aligned
  <2>2. QED
    BY <2>1 DEF StreamInv
<1>2. QED
  BY <1>1, StreamInductive, TypeCorrect, PTL

-----------------------------------------------------------------------------
(* When the parser stalls.                                                 *)

\* The sum over bytes 1..7 is kept in an rt_uint8_t.
LEMMA SumIsByte ==
    ASSUME NEW buf \in [0..8 -> Byte]
    PROVE  check_sum(buf) \in Byte
<1> DEFINE n == buf[1] + buf[2] + buf[3] + buf[4] + buf[5] + buf[6] + buf[7]
<1>1. /\ buf[1] \in Nat /\ buf[2] \in Nat /\ buf[3] \in Nat /\ buf[4] \in Nat
      /\ buf[5] \in Nat /\ buf[6] \in Nat /\ buf[7] \in Nat
  <2>1. \A x \in Byte : x \in Nat
    BY SMTT(20) DEF Byte
  <2>2. \A i \in 0..8 : buf[i] \in Nat
    BY <2>1
  <2>3. QED
    BY <2>2
<1>2. n \in Nat
  BY <1>1
<1> HIDE DEF n
<1>3. n % 256 \in Byte
  BY SMTT(20), <1>2 DEF Byte
<1>4. QED
  BY <1>3 DEF n, check_sum

\* The only step that stalls a parser on a faultless line rejects a whole frame,
\* and a frame with its checksum is rejected only for a sum of 0.
LEMMA StallStep ==
    ASSUME TypeOK, WakeInv, StatusInv, StreamInv, Checksummed, StallsOnlyOnZeroSum, [Next]_vars
    PROVE  StallsOnlyOnZeroSum'
<1> SUFFICES ASSUME faults' = 0, Stalled'
             PROVE  \E f \in Frames : check_sum([i \in 0..8 |-> f[i + 1]]) = 0
  BY DEF StallsOnlyOnZeroSum
<1>1. faults = 0
  BY FaultsGrow
<1>2. CASE Stalled
  BY <1>1, <1>2 DEF StallsOnlyOnZeroSum
<1>3. CASE ~Stalled
  <2>1. value_check_high /\ pc' = "read"
    <3> USE DEF Stalled
    <3>1. CASE Setup
      BY <1>3, <3>1 DEF Setup, InitFind, InitOpen, InitIndicate, InitThread, WakeInv
    <3>2. CASE Receive \/ ReceiveFaulty
      BY <1>3, <3>2 DEF Receive, ReceiveFaulty, Interrupt, dev_sensor_zph02_callback, setup
    <3>3. CASE Read \/ Take \/ Lose
      BY <1>3, <3>3 DEF Read, Take, Lose, setup, parser
    <3>4. CASE Parse \/ value_check_low
      BY <1>3, <3>4 DEF Parse, value_check_low, setup
    <3>5. CASE SensorRead
      BY <1>3, <3>5 DEF SensorRead, parser
    <3>6. CASE UNCHANGED vars
      BY <1>3, <3>6 DEF vars, setup, parser
    <3>7. CASE value_check_high
      BY <3>7 DEF value_check_high
    <3>8. QED
      BY <3>1, <3>2, <3>3, <3>4, <3>5, <3>6, <3>7 DEF Next, Thread
  <2>2. pc = "check" /\ ~ChecksumPasses(check_sum(value_buffer), value_buffer[8])
    BY <2>1 DEF value_check_high
  <2>3. PICK f \in Frames : \A i \in 0..8 : value_buffer[i] = f[i + 1]
    BY <1>1, <2>2 DEF StreamInv, WholeFrame
  <2>4. value_buffer = [i \in 0..8 |-> f[i + 1]] /\ value_buffer[8] = f[9]
    BY SMTT(20), <2>3 DEF TypeOK
  <2>5. check_sum(value_buffer) \in Byte /\ value_buffer[8] \in Byte
    BY SumIsByte DEF TypeOK
  <2>6. (check_sum(value_buffer) + value_buffer[8]) % 256 = 0
    BY <2>4 DEF Checksummed
  <2>7. check_sum(value_buffer) = 0
    BY <2>2, <2>5, <2>6, ChecksumExact
  <2>8. QED
    BY <2>4, <2>7
<1>4. QED
  BY <1>2, <1>3

\* If the sensor's frames carry their checksum, then on a faultless line the
\* parser stalls only when one of them has a sum of 0 over bytes 1..7, the sum
\* for which dev_zph02_value_check expects a last byte of 256.
THEOREM StallsOnlyOnZeroSumCorrect == Spec => [](Checksummed => StallsOnlyOnZeroSum)
<1> DEFINE P == Checksummed => StallsOnlyOnZeroSum
<1>1. Init => P
  BY DEF Init, StallsOnlyOnZeroSum, Stalled
<1>2. TypeOK /\ WakeInv /\ StatusInv /\ StreamInv /\ P /\ [Next]_vars => P'
  BY StallStep DEF Checksummed
<1>3. QED
  BY <1>1, <1>2, TypeCorrect, WakeInductive, StreamInductive, PTL DEF Spec

-----------------------------------------------------------------------------
(* The two bytes of a measurement.                                         *)

\* The high byte is the last accepted one; so is the low byte, except between
\* the two stores of dev_zph02_value_check.
PairInv ==
    /\ data_high = accepted[2][1]
    /\ data_low = accepted[IF pc = "low" THEN 1 ELSE 2][2]
    /\ pc = "low" => value_buffer[4] = accepted[2][2]

\* For every interleaving of the sensor thread with the two stores, a reading of
\* dev_sensor_data_read has the last accepted high byte and the low byte of that
\* frame or of the one accepted just before it.
THEOREM ReadBlendsAdjacentCorrect == Spec => ReadBlendsAdjacent
<1>1. Init => PairInv
  BY DEF Init, PairInv
<1>2. TypeOK /\ WakeInv /\ PairInv /\ [Next]_vars => PairInv'
  <2> SUFFICES ASSUME TypeOK, WakeInv, PairInv, [Next]_vars PROVE PairInv'
    OBVIOUS
  <2> USE DEF PairInv
  <2>1. CASE value_check_high
    <3>1. CASE pc' = "low"
      <4>1. /\ accepted' = <<accepted[2], <<value_buffer[3], value_buffer[4]>>>>
            /\ data_high' = value_buffer[3] /\ data_low' = data_low
            /\ value_buffer' = value_buffer /\ pc = "check"
        BY <2>1, <3>1 DEF value_check_high
      <4>2. /\ accepted'[1] = accepted[2]
            /\ accepted'[2][1] = value_buffer[3] /\ accepted'[2][2] = value_buffer[4]
        BY <4>1
      <4>3. QED
        BY <3>1, <4>1, <4>2
    <3>2. CASE pc' # "low"
      BY <2>1, <3>2 DEF value_check_high
    <3>3. QED
      BY <3>1, <3>2
  <2>2. CASE value_check_low
    BY <2>2 DEF value_check_low
  <2>3. CASE Parse
    BY <2>3 DEF Parse
  <2>4. CASE Receive \/ ReceiveFaulty
    BY ZenonT(20), <2>4 DEF Receive, ReceiveFaulty, Interrupt, dev_sensor_zph02_callback
  <2>5. CASE Read \/ Take
    BY ZenonT(20), <2>5 DEF Read, Take
  <2>6. CASE Setup
    <3>1. UNCHANGED <<data_high, data_low, accepted, value_buffer>>
      BY <2>6 DEF Setup, InitFind, InitOpen, InitIndicate, InitThread, parser
    <3>2. pc' = "low" <=> pc = "low"
      BY <2>6 DEF Setup, InitFind, InitOpen, InitIndicate, InitThread, parser, WakeInv
    <3>3. QED
      BY <3>1, <3>2
  <2>7. CASE Lose \/ SensorRead \/ UNCHANGED vars
    BY <2>7 DEF Lose, SensorRead, vars, parser
  <2>8. QED
    BY ZenonT(20), <2>1, <2>2, <2>3, <2>4, <2>5, <2>6, <2>7 DEF Next, Thread
<1>3. PairInv /\ [Next]_vars =>
        [zph02_data' # zph02_data =>
           zph02_data' \in {accepted[2][1] * 100 + accepted[i][2] : i \in 1..2}]_vars
  <2> SUFFICES ASSUME PairInv, Next, zph02_data' # zph02_data
               PROVE  zph02_data' \in {accepted[2][1] * 100 + accepted[i][2] : i \in 1..2}
    OBVIOUS
  <2>1. SensorRead
    BY ZenonT(20) DEF Next, Setup, InitFind, InitOpen, InitIndicate, InitThread, Receive, ReceiveFaulty,
           Interrupt, Lose, Thread, Read, Take, Parse, value_check_high, value_check_low
  <2>2. zph02_data' = accepted[2][1] * 100 + accepted[IF pc = "low" THEN 1 ELSE 2][2]
    BY <2>1 DEF SensorRead, PairInv
  <2>3. QED
    BY <2>2
<1>4. QED
  BY <1>1, <1>2, <1>3, TypeCorrect, WakeInductive, PTL DEF Spec, ReadBlendsAdjacent
=============================================================================
