-------------------------- MODULE SmartHome_proofs --------------------------
(***************************************************************************)
(* The safety properties of SmartHome, for all measurements and all that   *)
(* the conversion without an argument may print, for any size that holds   *)
(* the texts and any number of requests, clicks and faults.                *)
(***************************************************************************)
EXTENDS SmartHome, Snapshot_proofs, TLAPS

-----------------------------------------------------------------------------
(* The inductive invariant.                                                *)

\* How many records shows has for a buffer: one for the text in it, one for the text
\* that is replacing it.
Records(n) == (IF buffer[n] = <<>> THEN 0 ELSE 1) + (IF pc = n /\ text # <<>> THEN 1 ELSE 0)

\* The sensor thread: a text that is not empty has the shape of its record, and shows has
\* the records of the texts.
Formats ==
    /\ pc \in {"read"} \cup Names /\ result \in Record
    /\ args \in [Switches -> SUBSET {OPEN, CLOSE}]
    /\ text \in Seq(Symbol) /\ Len(text) <= Size
    /\ buffer \in [Names -> Seq(Symbol)] /\ shows \in [Names -> Seq(Record)]
    /\ text # <<>> => pc \in Names /\ Shape(text, pc, New(pc))
    /\ \A n \in Names :
          /\ Len(buffer[n]) <= Size /\ Len(shows[n]) = Records(n)
          /\ buffer[n] # <<>> => Shape(buffer[n], n, Old(n))

\* The page: the warning is beside a concentration above the limit.
Shown ==
    /\ status \in [Switches -> {"---", "ON", "OFF"}]
    /\ text_buffer \in {Blank, "leak"}
    /\ WarningMatchesDisplay

\* What the page may ask for.
Asked == [kind : {"poll"}, name : Names]
             \cup [kind : {"command"}, switch : Switches, value : {OPEN, CLOSE}]

\* The requests: none is on its way to a device that is not connected.
Queue ==
    /\ online \in BOOLEAN /\ requests \in Seq(Asked) /\ Len(requests) <= MaxRequests
    /\ ~online => requests = <<>>

\* The rest of the page, and the faults.
Counters == page \in {"hidden", "shown"} /\ timer_count \in 0..(PollsPerAll - 1) /\ faults \in Nat

\* The inductive invariant.
IInv == Formats /\ Shown /\ Queue /\ Counters

\* What rt_sprintf has written when it has come to k is torn.
LEMMA TornText ==
    ASSUME NEW k
    PROVE  UpTo(k) = Blend(buffer[pc], text, k)
BY Zenon DEF UpTo, Blend

\* The records of a buffer; there is one only while the text is not being replaced.
LEMMA ShowsTyped ==
    ASSUME Formats, NEW n \in Names
    PROVE  /\ buffer[n] # <<>> => Old(n) \in Record /\ New(n) \in Record
           /\ pc = n /\ text # <<>> => New(n) \in Record
           /\ buffer[n] # <<>> /\ ~(pc = n /\ text # <<>>) => Old(n) = New(n)
<1> DEFINE s == shows[n]
<1>1. s \in Seq(Record) /\ Len(s) = Records(n)
  BY DEF Formats
<1>2. Old(n) = s[1] /\ New(n) = s[Len(s)]
  BY DEF Old, New
<1>3. CASE buffer[n] # <<>>
  <2>1. Len(s) \in {1, 2} /\ (~(pc = n /\ text # <<>>) => Len(s) = 1)
    BY <1>1, <1>3 DEF Records
  <2> HIDE DEF s
  <2>2. 1 \in 1..Len(s) /\ Len(s) \in 1..Len(s)
    BY <2>1
  <2>3. s[1] \in Record /\ s[Len(s)] \in Record
    BY <1>1, <2>2
  <2>4. QED
    BY <1>2, <1>3, <2>1, <2>3
<1>4. CASE buffer[n] = <<>> /\ pc = n /\ text # <<>>
  <2>1. Len(s) = 1
    BY <1>1, <1>4 DEF Records
  <2> HIDE DEF s
  <2>2. s[Len(s)] \in Record
    BY <1>1, <2>1
  <2>3. QED
    BY <1>2, <1>4, <2>2
<1>5. QED
  BY <1>3, <1>4

\* Every buffer has its heading.
LEMMA BufferHeaded ==
    ASSUME Formats, NEW n \in Names
    PROVE  Headed(buffer[n], Heading(n))
<1>1. CASE buffer[n] = <<>>
  BY <1>1, EmptyHeaded
<1>2. CASE buffer[n] # <<>>
  <2>1. Shape(buffer[n], n, Old(n)) /\ Values(Old(n))
    BY <1>2, ShowsTyped, RecordFacts DEF Formats
  <2>2. QED
    BY <2>1, ShapeHeaded, Zenon
<1>3. QED
  BY <1>1, <1>2

\* Whatever the worker finds in a buffer, the page shows it or misses the concentration.
LEMMA FoundHarmless ==
    ASSUME Formats, NEW n \in Names, NEW message \in Found(n)
    PROVE  Harmless(message)
<1>1. CASE pc = n /\ text # <<>>
  <2>1. PICK k \in 0..Len(text) : message = Visible(UpTo(k))
    BY <1>1, Zenon DEF Found
  <2>2. message = Visible(Blend(buffer[n], text, k))
    BY <1>1, <2>1, TornText
  <2>3. Shape(text, n, New(n)) /\ Values(New(n))
    BY <1>1, ShowsTyped, RecordFacts, Zenon DEF Formats
  <2>4. Headed(text, Heading(n)) /\ Headed(buffer[n], Heading(n))
    BY <2>3, ShapeHeaded, BufferHeaded, Zenon
  <2>5. Headed(message, Heading(n))
    BY <2>2, <2>4, BlendHeaded, VisibleHeaded
  <2>6. QED
    BY <2>5, HeadedHarmless
<1>2. CASE ~(pc = n /\ text # <<>>)
  <2>1. message = Visible(buffer[n])
    BY <1>2, Zenon DEF Found
  <2>2. Headed(message, Heading(n))
    BY <2>1, BufferHeaded, VisibleHeaded
  <2>3. QED
    BY <2>2, HeadedHarmless
<1>3. QED
  BY <1>1, <1>2

\* Whatever the worker finds in a buffer that has a complete text is taken apart as
\* DecodesSnapshot says.
LEMMA FoundDecoded ==
    ASSUME Formats, NEW n \in Names, NEW message \in Found(n), buffer[n] # <<>>, Aligned(n)
    PROVE  Readable(message, n, Old(n), New(n))
<1>1. Shape(buffer[n], n, Old(n)) /\ Values(Old(n)) /\ Values(New(n))
  BY ShowsTyped, RecordFacts, Zenon DEF Formats
<1>2. CASE pc = n /\ text # <<>>
  <2>1. PICK k \in 0..Len(text) : message = Visible(UpTo(k))
    BY <1>2, Zenon DEF Found
  <2>2. message = Visible(Blend(buffer[n], text, k))
    BY <1>2, <2>1, TornText
  <2>3. Shape(text, n, New(n))
    BY <1>2, Zenon DEF Formats
  <2> DEFINE q == Old(n)
             r == New(n)
             s == buffer[n]
             t == text
             c == Visible(Blend(s, t, k))
  <2>4. /\ Shape(s, n, q) /\ Shape(t, n, r) /\ Values(q) /\ Values(r) /\ k \in 0..Len(t)
        /\ \A j \in 1..4 : Len(Fixed(q[Measurand[j]])) = Len(Fixed(r[Measurand[j]]))
    BY <1>1, <2>3, Zenon DEF Aligned
  <2>5. message = c
    BY <2>2
  <2> HIDE DEF q, r, s, t
  <2>6. Readable(c, n, q, r)
    BY <2>4, BlendDecoded, Zenon
  <2> HIDE DEF c
  <2>7. QED
    BY <2>5, <2>6, Zenon DEF q, r
<1>3. CASE ~(pc = n /\ text # <<>>)
  <2>1. message = Visible(buffer[n]) /\ Old(n) = New(n)
    BY <1>3, ShowsTyped, Zenon DEF Found
  <2>2. Readable(Visible(buffer[n]), n, Old(n), Old(n))
    BY <1>1, WholeDecoded, Zenon
  <2>3. QED
    BY <2>1, <2>2
<1>4. QED
  BY <1>2, <1>3

-----------------------------------------------------------------------------
\* onSnapshot keeps the page right on every message that is shown or has no concentration.
LEMMA SnapshotShown ==
    ASSUME Shown, NEW message, Harmless(message), onSnapshot(message)
    PROVE  Shown'
<1> DEFINE b == split(message)
<1>1. /\ values' = IF b[0] \in {<<"D$S-A">>, <<"D$S-D">>} THEN ValuesIn(b) ELSE values
      /\ status' = IF b[0] = <<"D$S-A">> THEN [x \in Switches |-> StatusIn(b, x)] ELSE status
      /\ text_buffer' = Warning(b)
  BY Zenon DEF onSnapshot
<1>2. b[3] = <<"undefined">> \/ b[0] \in {<<"D$S-A">>, <<"D$S-D">>}
  BY DEF Harmless
<1> HIDE DEF b
<1>3. status' \in [Switches -> {"---", "ON", "OFF"}]
  BY <1>1 DEF Shown, StatusIn
<1>4. text_buffer' \in {Blank, "leak"} /\ (text_buffer' = "leak" => Exceeds50(b[3]))
  <2>1. Blank # "leak"
    BY Zenon DEF Blank
  <2>2. QED
    BY <1>1, <2>1, Zenon DEF Warning
<1>5. text_buffer' = "leak" => Exceeds50(values'[3])
  <2> SUFFICES ASSUME text_buffer' = "leak" PROVE Exceeds50(values'[3])
    OBVIOUS
  <2>1. Exceeds50(b[3])
    BY <1>4
  <2>2. b[3] # <<"undefined">>
    BY <2>1, UndefinedIsNoNumber, Zenon
  <2>3. values' = ValuesIn(b)
    BY <1>1, <1>2, <2>2, Zenon
  <2>4. ValuesIn(b)[3] = b[3]
    BY DEF ValuesIn
  <2>5. QED
    BY <2>1, <2>3, <2>4, Zenon
<1>6. QED
  BY <1>3, <1>4, <1>5, Zenon DEF Shown, WarningMatchesDisplay

\* So does onEcho.
LEMMA EchoShown ==
    ASSUME Shown, NEW x \in Switches, NEW v, onEcho(x, v)
    PROVE  Shown'
BY DEF Shown, onEcho, WarningMatchesDisplay

\* So does a step that the page takes no part in.
LEMMA DisplayShown ==
    ASSUME Shown, UNCHANGED display
    PROVE  Shown'
BY DEF Shown, display, WarningMatchesDisplay

-----------------------------------------------------------------------------
\* Only the sensor thread writes texts.
LEMMA FormatsKept ==
    ASSUME Formats, UNCHANGED formatting, result' \in Record,
           args' \in [Switches -> SUBSET {OPEN, CLOSE}]
    PROVE  Formats'
BY DEF Formats, formatting, Records, Old, New

\* The values of a switch are those of its type.
LEMMA SwitchValue ==
    ASSUME NEW r \in Record, NEW x \in Switches
    PROVE  r[x] \in {OPEN, CLOSE}
BY RecordFacts, Zenon DEF Values, Switches

\* What the arguments may be at the beginning of a conversion, and after it.
LEMMA ArgsTyped ==
    ASSUME result \in Record, Begin \/ Done
    PROVE  args' \in [Switches -> SUBSET {OPEN, CLOSE}]
<1>1. \A x \in Switches : {result[x]} \in SUBSET {OPEN, CLOSE}
  BY SwitchValue, Zenon
<1>2. CASE Begin
  BY <1>1, <1>2 DEF Begin
<1>3. CASE Done
  BY <1>3 DEF Done
<1>4. QED
  BY <1>2, <1>3

\* dev_sensor_data_read keeps the texts.
LEMMA ReadFormats ==
    ASSUME Formats, dev_sensor_data_read
    PROVE  Formats'
<1>0. result \in Record
  BY DEF Formats
<1>1. PICK m \in Reading :
         result' = [result EXCEPT !.temp = m.temp, !.humi = m.humi, !.mq2 = m.mq2,
                                  !.zph02 = m.zph02]
  BY DEF dev_sensor_data_read
<1>2. result' \in Record
  <2>1. /\ m.temp \in Integer /\ m.humi \in Integer /\ m.mq2 \in 0..INT_MAX
        /\ m.zph02 \in Integer
    BY ReadingAssumption
  <2>2. QED
    BY <1>0, <1>1, <2>1 DEF Record
<1>3. /\ pc = "read" /\ pc' = "all" /\ text' = text /\ buffer' = buffer /\ shows' = shows /\ Begin
  BY DEF dev_sensor_data_read
<1>4. text = <<>>
  BY <1>3 DEF Formats, Names
<1>5. \A n \in Names : Records(n)' = Records(n) /\ Old(n)' = Old(n)
  BY <1>3, <1>4 DEF Records, Old
<1>6. args' \in [Switches -> SUBSET {OPEN, CLOSE}]
  BY <1>0, <1>3, ArgsTyped
<1>7. QED
  BY <1>2, <1>3, <1>4, <1>5, <1>6 DEF Formats, Names

\* Evaluate makes a text of the right shape that fits.
LEMMA EvaluateFormats ==
    ASSUME Formats, Evaluate
    PROVE  Formats'
<1>1. PICK relay1 \in args["relay1"], relay2 \in args["relay2"], beep \in args["beep"],
           junk \in Junk :
         LET q == [result EXCEPT !.relay1 = relay1, !.relay2 = relay2, !.beep = beep]
         IN  /\ text' = Append(TextOf(pc, q, junk), NUL)
             /\ shows' = [shows EXCEPT ![pc] = Append(@, q)]
  BY DEF Evaluate
<1> DEFINE r == [result EXCEPT !.relay1 = relay1, !.relay2 = relay2, !.beep = beep]
           t == TextOf(pc, r, junk)
<1>2. /\ pc \in Names /\ text = <<>> /\ pc' = pc /\ result' = result /\ buffer' = buffer /\ Done
      /\ shows' = [shows EXCEPT ![pc] = Append(shows[pc], r)] /\ text' = Append(t, NUL)
  BY <1>1, Zenon DEF Evaluate
<1>3. r \in Record /\ result \in Record
  <2>1. result \in Record /\ args \in [Switches -> SUBSET {OPEN, CLOSE}]
    BY DEF Formats
  <2>2. "relay1" \in Switches /\ "relay2" \in Switches /\ "beep" \in Switches
    BY DEF Switches
  <2>3. relay1 \in {OPEN, CLOSE} /\ relay2 \in {OPEN, CLOSE} /\ beep \in {OPEN, CLOSE}
    BY <2>1, <2>2
  <2>4. QED
    BY <2>1, <2>3 DEF Record
<1> HIDE DEF r
<1>4. t \in Seq(Symbol) /\ Shape(Append(t, NUL), pc, r) /\ Len(t) <= 80
  <2>1. Values(r)
    BY <1>3, RecordFacts
  <2>2. QED
    BY <1>2, <1>3, <2>1, TextFacts, Zenon
<1> HIDE DEF t
<1>5. args' \in [Switches -> SUBSET {OPEN, CLOSE}]
  BY <1>2, <1>3, ArgsTyped
<1>6. text' \in Seq(Symbol) /\ Len(text') = Len(t) + 1 /\ text' # <<>>
  <2>1. NUL \in Symbol
    BY SymbolFacts
  <2> DEFINE nul == NUL
  <2> HIDE DEF nul
  <2>2. nul \in Symbol /\ text' = Append(t, nul)
    BY <1>2, <2>1 DEF nul
  <2>3. QED
    BY <1>4, <2>2
<1>7. Shape(text', pc, r)
  BY <1>2, <1>4, Zenon
<1>8. Len(text') <= Size
  BY <1>4, <1>6, SizeAssumption
<1>9. shows' \in [Names -> Seq(Record)]
  BY <1>2, <1>3 DEF Formats
<1>10. New(pc)' = r
  <2>1. shows'[pc] = Append(shows[pc], r) /\ shows[pc] \in Seq(Record)
    BY <1>2 DEF Formats
  <2>2. shows'[pc][Len(shows'[pc])] = r
    BY <1>3, <2>1
  <2>3. QED
    BY <1>2, <2>2 DEF New
<1>11. ASSUME NEW n \in Names
       PROVE  /\ Len(buffer'[n]) <= Size /\ Len(shows'[n]) = Records(n)'
              /\ buffer'[n] # <<>> => Shape(buffer'[n], n, Old(n)')
  <2>0. /\ Len(buffer[n]) <= Size /\ Len(shows[n]) = Records(n) /\ shows[n] \in Seq(Record)
        /\ buffer[n] # <<>> => Shape(buffer[n], n, Old(n))
    BY DEF Formats
  <2>1. CASE n # pc
    <3>1. shows'[n] = shows[n] /\ Records(n)' = Records(n) /\ Old(n)' = Old(n)
      BY <1>2, <2>1 DEF Formats, Records, Old
    <3>2. QED
      BY ZenonT(20), <1>2, <2>0, <3>1
  <2>2. CASE n = pc
    <3>1. shows'[n] = Append(shows[n], r) /\ Records(n) = IF buffer[n] = <<>> THEN 0 ELSE 1
      BY <1>2, <2>2 DEF Formats, Records
    <3>2. Records(n)' = Records(n) + 1
      BY <1>2, <1>6, <2>2, <3>1 DEF Records
    <3>3. Len(shows'[n]) = Len(shows[n]) + 1
      BY <1>3, <2>0, <3>1
    <3>4. ASSUME buffer[n] # <<>> PROVE Old(n)' = Old(n)
      <4>1. Len(shows[n]) = 1
        BY <2>0, <3>1, <3>4
      <4>2. QED
        BY <1>3, <2>0, <3>1, <4>1 DEF Old
    <3>5. QED
      BY <1>2, <2>0, <3>2, <3>3, <3>4
  <2>3. QED
    BY <2>1, <2>2
<1>12. QED
  BY <1>2, <1>3, <1>5, <1>6, <1>7, <1>8, <1>9, <1>10, <1>11 DEF Formats

\* Written puts it over the old one.
LEMMA WrittenFormats ==
    ASSUME Formats, Written
    PROVE  Formats'
<1>0. /\ pc \in Names /\ text # <<>> /\ text' = <<>> /\ result' = result
      /\ buffer' = [buffer EXCEPT ![pc] = UpTo(Len(text))]
      /\ shows' = [shows EXCEPT ![pc] = <<New(pc)>>]
      /\ pc' \in {"read"} \cup Names /\ (Begin \/ Done)
  BY DEF Written, Names
<1>1. /\ text \in Seq(Symbol) /\ Len(text) <= Size /\ Shape(text, pc, New(pc))
      /\ buffer[pc] \in Seq(Symbol) /\ Len(buffer[pc]) <= Size
      /\ buffer \in [Names -> Seq(Symbol)] /\ shows \in [Names -> Seq(Record)]
  BY <1>0 DEF Formats
<1>2. New(pc) \in Record
  BY <1>0, ShowsTyped
<1> DEFINE u == Blend(buffer[pc], text, Len(text))
           r == New(pc)
<1>3. buffer' = [buffer EXCEPT ![pc] = u]
  BY ZenonT(20), <1>0, TornText
<1>4. /\ u \in Seq(Symbol)
      /\ Len(u) = IF Len(text) <= Len(buffer[pc]) THEN Len(buffer[pc]) ELSE Len(text)
      /\ \A i \in 1..Len(text) : u[i] = text[i]
  <2>1. Len(text) \in 0..Len(text)
    BY <1>1
  <2>2. QED
    BY <1>1, <2>1, BlendFacts
<1> HIDE DEF u, r
<1>5. Len(u) <= Size /\ Len(text) <= Len(u) /\ u # <<>>
  <2>1. Len(text) \in Nat /\ Len(text) >= 1 /\ Len(buffer[pc]) \in Nat
    BY <1>0, <1>1
  <2>2. Len(u) <= Size /\ Len(text) <= Len(u) /\ Len(u) >= 1
    BY <1>1, <1>4, <2>1
  <2>3. QED
    BY <2>2
<1>6. Shape(u, pc, r)
  <2>1. Values(r) /\ Shape(text, pc, r)
    BY <1>1, <1>2, RecordFacts DEF r
  <2>2. QED
    BY <1>0, <1>4, <1>5, <2>1, ShapeBegins, Zenon
<1>7. buffer' \in [Names -> Seq(Symbol)] /\ shows' \in [Names -> Seq(Record)]
  BY <1>0, <1>1, <1>2, <1>3, <1>4
<1>8. ASSUME NEW n \in Names
      PROVE  /\ Len(buffer'[n]) <= Size /\ Len(shows'[n]) = Records(n)'
             /\ buffer'[n] # <<>> => Shape(buffer'[n], n, Old(n)')
  <2>1. CASE n # pc
    <3>1. buffer'[n] = buffer[n] /\ shows'[n] = shows[n] /\ Old(n)' = Old(n)
      BY <1>0, <1>1, <1>3, <2>1 DEF Old
    <3>2. Records(n)' = Records(n)
      BY <1>0, <2>1, <3>1 DEF Records
    <3>3. QED
      BY <3>1, <3>2 DEF Formats
  <2>2. CASE n = pc
    <3>1. buffer'[n] = u /\ shows'[n] = <<r>>
      BY <1>0, <1>1, <1>3, <2>2 DEF r
    <3>2. Len(shows'[n]) = 1 /\ shows'[n][1] = r
      BY <3>1
    <3>3. Records(n)' = 1
      BY <1>0, <1>5, <3>1 DEF Records
    <3>4. Old(n)' = r
      BY <3>2 DEF Old
    <3>5. QED
      BY <1>5, <1>6, <2>2, <3>1, <3>2, <3>3, <3>4
  <2>3. QED
    BY <2>1, <2>2
<1>9. result \in Record
  BY DEF Formats
<1>10. args' \in [Switches -> SUBSET {OPEN, CLOSE}]
  BY <1>0, <1>9, ArgsTyped
<1>11. QED
  BY <1>0, <1>7, <1>8, <1>9, <1>10, SizeAssumption DEF Formats

-----------------------------------------------------------------------------
(* Every step keeps the invariant.                                         *)

\* The requests after the first.
LEMMA TailFacts ==
    ASSUME NEW s \in Seq(Asked), s # <<>>
    PROVE  Tail(s) \in Seq(Asked) /\ Len(Tail(s)) = Len(s) - 1 /\ Head(s) \in Asked
OBVIOUS

\* Request keeps the queue.
LEMMA RequestQueue ==
    ASSUME Queue, NEW m \in Asked, Request(m), online' = online
    PROVE  Queue'
<1>0. MaxRequests \in Nat
  BY BoundAssumption
<1>1. CASE online = TRUE
  <2>1. requests' = Append(requests, m) /\ Len(requests) < MaxRequests /\ requests \in Seq(Asked)
    BY <1>1 DEF Request, Queue
  <2>2. requests' \in Seq(Asked) /\ Len(requests') <= MaxRequests
    BY <1>0, <2>1
  <2>3. QED
    BY <1>1, <2>2 DEF Queue
<1>2. CASE online = FALSE
  BY <1>2 DEF Request, Queue
<1>3. QED
  BY ZenonT(20), <1>1, <1>2 DEF Queue

\* A poll is a request.
LEMMA PollAsked ==
    ASSUME NEW n \in Names
    PROVE  [kind |-> "poll", name |-> n] \in Asked
BY DEF Asked

\* So is a command.
LEMMA CommandAsked ==
    ASSUME NEW x \in Switches, NEW v \in {OPEN, CLOSE}
    PROVE  [kind |-> "command", switch |-> x, value |-> v] \in Asked
BY DEF Asked

\* What is in a request.
LEMMA AskedFacts ==
    ASSUME NEW m \in Asked
    PROVE  /\ m.kind = "poll" => m.name \in Names
           /\ m.kind # "poll" => m.switch \in Switches /\ m.value \in {OPEN, CLOSE}
BY DEF Asked

\* The invariant holds at the start.
LEMMA Initially ==
    ASSUME Init
    PROVE  IInv
<1>0. PollsPerAll \in Nat \ {0} /\ MaxRequests \in Nat /\ Size \in Nat
  BY BoundAssumption, SizeAssumption
<1>1. Formats
  <2>1. 0 \in Integer /\ 0 \in 0..INT_MAX
    <3>1. INT_MAX \in Nat
      BY SMT DEF INT_MAX
    <3>2. QED
      BY <3>1 DEF Integer
  <2>2. result \in Record
    BY <2>1 DEF Init, Record
  <2>3. args \in [Switches -> SUBSET {OPEN, CLOSE}]
    BY DEF Init
  <2>4. QED
    BY <1>0, <2>2, <2>3 DEF Init, Formats, Records
<1>2. Shown
  <2>1. Blank # "leak"
    BY Zenon DEF Blank
  <2>2. QED
    BY <2>1 DEF Init, Shown, WarningMatchesDisplay
<1>3. Queue
  BY <1>0 DEF Init, Queue
<1>4. Counters
  BY <1>0 DEF Init, Counters
<1>5. QED
  BY <1>1, <1>2, <1>3, <1>4 DEF IInv

\* The sensor thread keeps it.
LEMMA SensorStep ==
    ASSUME IInv, Sensor
    PROVE  IInv'
<1>1. Formats'
  BY ReadFormats, EvaluateFormats, WrittenFormats DEF IInv, Sensor
<1>2. UNCHANGED <<online, requests, page, timer_count, display, faults>>
  BY DEF Sensor, dev_sensor_data_read, Evaluate, Written
<1>3. Shown'
  BY <1>2, DisplayShown DEF IInv
<1>4. Queue' /\ Counters'
  BY <1>2 DEF IInv, Queue, Counters
<1>5. QED
  BY <1>1, <1>3, <1>4 DEF IInv

\* A command leaves a record.
LEMMA ResultSwitch ==
    ASSUME NEW x \in Switches, NEW v \in {OPEN, CLOSE}, result \in Record,
           result' = [result EXCEPT ![x] = v]
    PROVE  result' \in Record
<1>1. CASE x = "relay1"
  BY <1>1 DEF Record
<1>2. CASE x = "relay2"
  BY <1>2 DEF Record
<1>3. CASE x = "beep"
  BY <1>3 DEF Record
<1>4. QED
  BY <1>1, <1>2, <1>3 DEF Switches

\* mqtt_sub_callback keeps it, whether it answers or executes.
LEMMA WorkerStep ==
    ASSUME IInv, mqtt_sub_callback
    PROVE  IInv'
<1> DEFINE m == Head(requests)
<1>0. Formats /\ Shown /\ Queue /\ Counters
  BY DEF IInv
<1>1. /\ requests # <<>> /\ requests' = Tail(requests)
      /\ IF m.kind = "poll" THEN Answer(m.name) ELSE Execute(m.switch, m.value)
      /\ UNCHANGED <<formatting, online, page, timer_count, changes>>
  BY Zenon DEF mqtt_sub_callback
<1>2. m \in Asked /\ requests' \in Seq(Asked) /\ Len(requests') <= MaxRequests
  <2>1. requests \in Seq(Asked) /\ Len(requests) <= MaxRequests /\ MaxRequests \in Nat
    BY <1>0, BoundAssumption DEF Queue
  <2>2. QED
    BY <1>1, <2>1, TailFacts
<1>3. /\ m.kind = "poll" => m.name \in Names
      /\ m.kind # "poll" => m.switch \in Switches /\ m.value \in {OPEN, CLOSE}
  BY <1>2, AskedFacts
<1> HIDE DEF m
<1>4. Queue'
  <2>1. online
    BY <1>0, <1>1 DEF Queue
  <2>2. QED
    BY <1>0, <1>1, <1>2, <2>1 DEF Queue
<1>5. CASE m.kind = "poll"
  <2>1. Answer(m.name) /\ m.name \in Names
    BY <1>1, <1>3, <1>5
  <2>2. /\ result' = result /\ result \in Record
        /\ args' = args /\ args \in [Switches -> SUBSET {OPEN, CLOSE}]
    BY <1>0, <2>1 DEF Answer, Formats
  <2>3. Formats'
    BY <1>0, <1>1, <2>2, FormatsKept
  <2>4. Shown' /\ faults' \in Nat
    <3>1. CASE \E message \in Found(m.name) : Received(onSnapshot(message))
      <4>1. PICK message \in Found(m.name) : Received(onSnapshot(message))
        BY <3>1
      <4>2. onSnapshot(message) /\ faults' = faults
        BY <4>1 DEF Received
      <4>3. Harmless(message)
        BY <1>0, <2>1, FoundHarmless
      <4>4. QED
        BY <1>0, <4>2, <4>3, SnapshotShown DEF Counters
    <3>2. CASE Lost
      BY <1>0, <3>2, DisplayShown DEF Lost, Counters
    <3>3. QED
      BY <2>1, <3>1, <3>2 DEF Answer
  <2>5. QED
    BY <1>0, <1>1, <1>4, <2>3, <2>4 DEF IInv, Queue, Counters
<1>6. CASE m.kind # "poll"
  <2>1. Execute(m.switch, m.value) /\ m.switch \in Switches /\ m.value \in {OPEN, CLOSE}
    BY <1>1, <1>3, <1>6
  <2>2. result' \in Record
    <3>1. result' = [result EXCEPT ![m.switch] = m.value] /\ result \in Record
      BY <1>0, <2>1 DEF Execute, Formats
    <3>2. QED
      BY ZenonT(20), <2>1, <3>1, ResultSwitch
  <2>2a. args' \in [Switches -> SUBSET {OPEN, CLOSE}]
    <3>1. args \in [Switches -> SUBSET {OPEN, CLOSE}]
      BY <1>0 DEF Formats
    <3>2. args' = args \/ args' = [args EXCEPT ![m.switch] = args[m.switch] \cup {m.value}]
      BY <2>1, Zenon DEF Execute
    <3>3. QED
      BY <2>1, <3>1, <3>2
  <2>3. Formats'
    BY <1>0, <1>1, <2>2, <2>2a, FormatsKept
  <2>4. Shown' /\ faults' \in Nat
    <3>1. CASE Received(onEcho(m.switch, m.value))
      <4>1. onEcho(m.switch, m.value) /\ faults' = faults
        BY <3>1 DEF Received
      <4>2. QED
        BY <1>0, <2>1, <4>1, EchoShown DEF Counters
    <3>2. CASE Lost
      BY <1>0, <3>2, DisplayShown DEF Lost, Counters
    <3>3. QED
      BY <2>1, <3>1, <3>2 DEF Execute
  <2>5. QED
    BY <1>0, <1>1, <1>4, <2>3, <2>4 DEF IInv, Queue, Counters
<1>7. QED
  BY <1>5, <1>6

\* Steps that leave the threads of the device alone.
LEMMA DeviceKept ==
    ASSUME Formats, UNCHANGED <<formatting, result, args>>
    PROVE  Formats'
BY FormatsKept DEF Formats

\* The will keeps it.
LEMMA DisconnectStep ==
    ASSUME IInv, Disconnect
    PROVE  IInv'
<1>0. Formats /\ Shown /\ Queue /\ Counters
  BY DEF IInv
<1>1. /\ online' = FALSE /\ requests' = <<>> /\ faults' = faults + 1
      /\ onSnapshot(<<"DEVICE", Sep, "ONLINE!">>)
      /\ UNCHANGED <<formatting, result, args, page, timer_count>>
  BY DEF Disconnect
<1>2. Formats'
  BY <1>0, <1>1, DeviceKept
<1>3. Shown'
  <2>1. Harmless(<<"DEVICE", Sep, "ONLINE!">>)
    BY WillMessage DEF Harmless
  <2>2. QED
    BY <1>0, <1>1, <2>1, SnapshotShown
<1>4. Queue'
  <2>1. requests' \in Seq(Asked) /\ Len(requests') <= MaxRequests
    BY <1>1, BoundAssumption
  <2>2. QED
    BY ZenonT(20), <1>1, <2>1 DEF Queue
<1>4a. Counters'
  BY <1>0, <1>1 DEF Counters
<1>5. QED
  BY <1>2, <1>3, <1>4, <1>4a DEF IInv

\* mqtt_online_callback keeps it.
LEMMA ConnectStep ==
    ASSUME IInv, mqtt_online_callback
    PROVE  IInv'
<1>0. Formats /\ Shown /\ Queue /\ Counters
  BY DEF IInv
<1>1. /\ online' = TRUE
      /\ UNCHANGED <<formatting, result, args, page, timer_count>>
      /\ UNCHANGED display /\ (faults' = faults \/ faults' = faults + 1)
      /\ requests' = <<[kind |-> "poll", name |-> "all"]>> \/ requests' = requests
  BY DEF mqtt_online_callback, Lost
<1>2. Formats' /\ Shown'
  BY <1>0, <1>1, DeviceKept, DisplayShown
<1>3. Queue'
  <2>1. "all" \in Names
    BY DEF Names
  <2> DEFINE m == [kind |-> "poll", name |-> "all"]
  <2>2. m \in Asked
    BY <2>1, PollAsked
  <2> HIDE DEF m
  <2>3. <<m>> \in Seq(Asked) /\ Len(<<m>>) = 1
    BY <2>2
  <2>4. requests' = <<m>> \/ requests' = requests
    BY <1>1 DEF m
  <2>5. MaxRequests \in Nat /\ MaxRequests >= 1
    BY BoundAssumption
  <2>6. requests' \in Seq(Asked) /\ Len(requests') <= MaxRequests
    BY ZenonT(20), <1>0, <2>3, <2>4, <2>5 DEF Queue
  <2>7. QED
    BY <1>1, <2>6 DEF Queue
<1>4. Counters'
  BY <1>0, <1>1 DEF Counters
<1>5. QED
  BY <1>2, <1>3, <1>4 DEF IInv

\* A lost request keeps it.
LEMMA LoseStep ==
    ASSUME IInv, LoseRequest
    PROVE  IInv'
<1>0. Formats /\ Shown /\ Queue /\ Counters
  BY DEF IInv
<1>1. /\ UNCHANGED <<formatting, result, args, page, timer_count, online, display>>
      /\ requests # <<>> /\ requests' = Tail(requests) /\ faults' = faults + 1
  BY DEF LoseRequest, device
<1>2. Formats' /\ Shown'
  BY <1>0, <1>1, DeviceKept, DisplayShown
<1>3. Queue'
  <2>1. requests \in Seq(Asked) /\ Len(requests) <= MaxRequests /\ MaxRequests \in Nat /\ online
    BY <1>0, <1>1, BoundAssumption DEF Queue
  <2>2. requests' \in Seq(Asked) /\ Len(requests') <= MaxRequests
    BY <1>1, <2>1, TailFacts
  <2>3. QED
    BY <1>0, <1>1, <2>1, <2>2 DEF Queue
<1>4. Counters'
  BY <1>0, <1>1 DEF Counters
<1>5. QED
  BY <1>2, <1>3, <1>4 DEF IInv

\* The handlers of the page keep it.
LEMMA PageStep ==
    ASSUME IInv,
           \/ onShow \/ onHide \/ Interval
           \/ \E x \in Operated, v \in {OPEN, CLOSE} : onClick(x, v)
    PROVE  IInv'
<1>0. Formats /\ Shown /\ Queue /\ Counters
  BY DEF IInv
<1>1. UNCHANGED <<device, display, faults>>
  BY ZenonT(20) DEF onShow, onHide, Interval, onClick
<1>2. Formats' /\ Shown' /\ online' = online
  BY <1>0, <1>1, DeviceKept, DisplayShown DEF device
<1>3. "all" \in Names /\ "data" \in Names
  BY DEF Names
<1>4. Queue'
  <2>1. CASE onShow
    BY <1>0, <1>2, <1>3, <2>1, PollAsked, RequestQueue DEF onShow, Ask
  <2>2. CASE onHide
    BY <1>0, <1>2, <2>2 DEF onHide, Queue
  <2>3. CASE Interval
    BY <1>0, <1>2, <1>3, <2>3, PollAsked, RequestQueue DEF Interval, Ask
  <2>4. CASE \E x \in Operated, v \in {OPEN, CLOSE} : onClick(x, v)
    <3>1. PICK x \in Operated, v \in {OPEN, CLOSE} : onClick(x, v)
      BY <2>4
    <3>2. x \in Switches
      BY OperatedAssumption DEF Switches
    <3>3. QED
      BY ZenonT(20), <1>0, <1>2, <3>1, <3>2, CommandAsked, RequestQueue DEF onClick
  <2>5. QED
    BY <2>1, <2>2, <2>3, <2>4
<1>5. Counters'
  <2>0. PollsPerAll \in Nat \ {0}
    BY BoundAssumption
  <2>1. CASE onShow
    BY <1>0, <1>1, <2>1 DEF onShow, Counters
  <2>2. CASE onHide
    BY <1>0, <1>1, <2>0, <2>2 DEF onHide, Counters
  <2>3. CASE Interval
    BY <1>0, <1>1, <2>0, <2>3 DEF Interval, Counters
  <2>4. CASE \E x \in Operated, v \in {OPEN, CLOSE} : onClick(x, v)
    BY <1>0, <1>1, <2>4 DEF onClick, Counters
  <2>5. QED
    BY <2>1, <2>2, <2>3, <2>4
<1>6. QED
  BY <1>2, <1>4, <1>5 DEF IInv

\* IInv holds in every state: the sensor thread, the worker and the page keep the texts, their
\* records, the queue and the page together.
THEOREM Invariance == Spec => []IInv
<1>1. Init => IInv
  BY Initially
<1>2. ASSUME IInv, [Next]_vars PROVE IInv'
  <2>1. CASE Next
    BY <1>2, <2>1, SensorStep, WorkerStep, ConnectStep, DisconnectStep, LoseStep, PageStep DEF Next
  <2>2. CASE UNCHANGED vars
    <3>0. Formats /\ Shown /\ Queue /\ Counters
      BY <1>2 DEF IInv
    <3>1. UNCHANGED <<formatting, result, args, online, requests, page, timer_count, display, faults>>
      BY <2>2 DEF vars, device
    <3>2. Formats' /\ Shown'
      BY <3>0, <3>1, DeviceKept, DisplayShown
    <3>3. Queue' /\ Counters'
      BY <3>0, <3>1 DEF Queue, Counters
    <3>4. QED
      BY <3>2, <3>3 DEF IInv
  <2>3. QED
    BY <1>2, <2>1, <2>2
<1>3. QED
  BY <1>1, <1>2, PTL DEF Spec

\* Every variable has its type, no text outgrows the 100 characters of its buffer, and the
\* count of setInterval stays below the limit that it is compared with.
THEOREM TypeCorrect == Spec => []TypeOK
<1>1. ASSUME IInv PROVE TypeOK
  <2>0. Formats /\ Shown /\ Queue /\ Counters
    BY <1>1 DEF IInv
  <2>1. result \in Record /\ args \in [Switches -> SUBSET {OPEN, CLOSE}]
    BY <2>0 DEF Formats
  <2>2. \A x \in Switches : result[x] \in {OPEN, CLOSE} /\ args[x] \subseteq {OPEN, CLOSE}
    BY <2>1, SwitchValue
  <2>3. \A i \in 1..4 : result[Measurand[i]] \in Integer
    <3>1. 0..INT_MAX \subseteq Integer
      <4>1. INT_MAX \in Nat
        BY SMT DEF INT_MAX
      <4>2. QED
        BY <4>1 DEF Integer
    <3>2. /\ result.temp \in Integer /\ result.humi \in Integer /\ result.mq2 \in Integer
          /\ result.zph02 \in Integer
      BY <2>1, <3>1 DEF Record
    <3>3. /\ Measurand[1] = "temp" /\ Measurand[2] = "humi" /\ Measurand[3] = "mq2"
          /\ Measurand[4] = "zph02"
      BY DEF Measurand
    <3>4. \A i \in 1..4 : i = 1 \/ i = 2 \/ i = 3 \/ i = 4
      OBVIOUS
    <3>5. QED
      BY <3>2, <3>3, <3>4, Zenon
  <2>4. QED
    BY <2>0, <2>2, <2>3 DEF Formats, Shown, Queue, Counters, TypeOK
<1>2. QED
  BY <1>1, Invariance, PTL

\* However a snapshot is torn, and whatever is lost, the page warns of a leak only beside a
\* concentration above the limit.
THEOREM WarningIsJustified == Spec => []WarningMatchesDisplay
<1>1. IInv => WarningMatchesDisplay
  BY DEF IInv, Shown
<1>2. QED
  BY <1>1, Invariance, PTL

\* A request that is answered and received was handled by onSnapshot, with what the worker
\* found in the buffer.
LEMMA AnsweredStep ==
    ASSUME IInv, Next, NEW n \in Names, Answered(n)
    PROVE  \E message \in Found(n) : onSnapshot(message)
<1>0. Formats /\ Shown /\ Queue /\ Counters
  BY DEF IInv
<1>1. /\ requests # <<>> /\ requests' = Tail(requests) /\ faults' = faults
      /\ Head(requests) = [kind |-> "poll", name |-> n]
  BY DEF Answered
<1>2. requests \in Seq(Asked) /\ faults \in Nat /\ faults' # faults + 1 /\ online
  BY <1>0, <1>1 DEF Queue, Counters
<1>3. requests' # requests /\ \A m : requests' # Append(requests, m)
  <2>1. Len(requests) \in Nat /\ Len(requests') = Len(requests) - 1
    BY <1>1, <1>2
  <2>2. \A m : Len(Append(requests, m)) = Len(requests) + 1
    BY <1>2
  <2>3. QED
    BY <2>1, <2>2
<1>4. ~Sensor /\ ~mqtt_online_callback /\ ~Disconnect /\ ~LoseRequest
  BY ZenonT(20), <1>2, <1>3 DEF Sensor, dev_sensor_data_read, Evaluate, Written, mqtt_online_callback,
                    Disconnect, LoseRequest
<1>5. ~onShow /\ ~onHide /\ ~Interval
  BY <1>3 DEF onShow, onHide, Interval, Ask, Request
<1>6. ~\E x \in Operated, v \in {OPEN, CLOSE} : onClick(x, v)
  BY ZenonT(20), <1>3 DEF onClick, Request
<1>7. mqtt_sub_callback
  BY <1>4, <1>5, <1>6 DEF Next
<1>8. Answer(n)
  BY <1>1, <1>7 DEF mqtt_sub_callback
<1>9. QED
  BY <1>2, <1>8 DEF Answer, Lost, Received

\* For any two records whose measurements are equally long, a snapshot that is sent while
\* rt_sprintf is replacing it is taken apart into new fields up to some field and old ones from
\* there, and a measurement that is torn into the beginning of the new number and the rest of
\* the old one.
THEOREM SnapshotIsDecoded == Spec => DecodesSnapshot
<1>1. ASSUME IInv, [Next]_vars
      PROVE  [ \A n \in Names : Answered(n) /\ buffer[n] # <<>> /\ Aligned(n) =>
          \E i \in 1..8 :
             /\ \A j \in 1..4 :
                   LET old == Fixed(Old(n)[Measurand[j]])
                       new == Fixed(New(n)[Measurand[j]])
                   IN  \E k \in Prefixes(i, j, Len(new)) : Trimmed(values'[j]) = Blend(old, new, k)
             /\ n = "all" =>
                   \A x \in Switches :
                      status'[x] = On((IF Index[x] < i THEN New(n) ELSE Old(n))[x]) ]_vars
  <2> SUFFICES ASSUME Next, NEW n \in Names, Answered(n), buffer[n] # <<>>, Aligned(n)
               PROVE  \E i \in 1..8 :
             /\ \A j \in 1..4 :
                   LET old == Fixed(Old(n)[Measurand[j]])
                       new == Fixed(New(n)[Measurand[j]])
                   IN  \E k \in Prefixes(i, j, Len(new)) : Trimmed(values'[j]) = Blend(old, new, k)
             /\ n = "all" =>
                   \A x \in Switches :
                      status'[x] = On((IF Index[x] < i THEN New(n) ELSE Old(n))[x])
    BY ZenonT(20), <1>1
  <2>1. PICK message \in Found(n) : onSnapshot(message)
    BY <1>1, AnsweredStep
  <2>1a. Readable(message, n, Old(n), New(n))
    BY ZenonT(20), <1>1, FoundDecoded DEF IInv
  <2>2. split(message)[0] = <<Heading(n)>>
    BY <2>1a, Zenon DEF Readable
  <2>3. PICK i \in 1..8 : Decoded(message, n, Old(n), New(n), i)
    BY <2>1a, Zenon DEF Readable
  <2> DEFINE b == split(message)
  <2>4. /\ values' = IF b[0] \in {<<"D$S-A">>, <<"D$S-D">>} THEN ValuesIn(b) ELSE values
        /\ status' = IF b[0] = <<"D$S-A">> THEN [x \in Switches |-> StatusIn(b, x)] ELSE status
    BY <2>1, Zenon DEF onSnapshot
  <2>5. values' = ValuesIn(b) /\ (n = "all" => status' = [x \in Switches |-> StatusIn(b, x)])
    BY <2>2, <2>4, Zenon DEF Heading
  <2>6. \A j \in 1..4 : values'[j] = b[j]
    BY <2>5, Zenon DEF ValuesIn
  <2>7. n = "all" => \A x \in Switches : status'[x] = StatusIn(b, x)
    BY <2>5, Zenon
  <2>8. /\ \A j \in 1..4 : Merged(b[j], Old(n)[Measurand[j]], New(n)[Measurand[j]], i, j)
        /\ n = "all" =>
              \A x \in Switches :
                 StatusIn(b, x) = On((IF Index[x] < i THEN New(n) ELSE Old(n))[x])
    BY <2>3, Zenon DEF Decoded
  <2> HIDE DEF b
  <2>9. QED
    BY <2>6, <2>7, <2>8, Zenon DEF Merged
<1>2. QED
  BY <1>1, Invariance, PTL DEF Spec, DecodesSnapshot

\* Up to three wrong bits in one half of a reading are noticed by its checksum and spoil that
\* half only, for all readings.
THEOREM DamageIsNoticed == Spec => []DamageIsContained
<1>1. DamageIsContained
  <2>1. ASSUME NEW before \in Measured, NEW m \in Measured,
               NEW i \in 0..23, NEW j \in i..23, NEW k \in j..23
        PROVE  Contained(sht3x_read_singleshot(NoReading, TRUE, Sent(before)), m, {i, j, k})
    <3>1. m \in [1..4 -> Byte] /\ j \in 0..23 /\ k \in 0..23
      BY MeasuredAssumption
    <3>2. QED
      BY <3>1, Containment, Zenon
  <2>2. QED
    BY <2>1, Zenon DEF DamageIsContained
<1>2. QED
  BY <1>1, PTL

\* %d.%d prints every temperature right that is not negative or has no tenths, and no other; the
\* page decides on the text of a concentration like the device on the number.
THEOREM TextIsFaithful == Spec => []TextStandsForNumber
<1>1. TextStandsForNumber
  <2> DEFINE T == Temperature(0)..Temperature(65535)
             A == \A t \in T : Fixed(t) = Spelled(t) <=> t >= 0 \/ t % 10 = 0
             R(t) == [result EXCEPT !.mq2 = t]
             U == 0..2000
             B == \A t \in U, n \in Names, junk \in Junk :
                     Warning(split(TextOf(n, R(t), junk))) = "leak" <=> t > 500
  <2>1. A
    <3>1. T \subseteq Int
      BY TemperatureRange
    <3> HIDE DEF T
    <3>2. QED
      BY <3>1, SpelledRight
  <2>2. ASSUME Init PROVE B
    <3>1. ASSUME NEW t \in U PROVE Values(R(t)) /\ R(t).mq2 = t
      <4>1. result = [temp |-> 0, humi |-> 0, mq2 |-> 0, zph02 |-> 0,
                      relay1 |-> CLOSE, relay2 |-> CLOSE, beep |-> CLOSE]
        BY SMTT(20), <2>2 DEF Init
      <4>2. R(t) = [temp |-> 0, humi |-> 0, mq2 |-> t, zph02 |-> 0,
                    relay1 |-> CLOSE, relay2 |-> CLOSE, beep |-> CLOSE]
        BY SMTT(20), <4>1
      <4>3. t \in Nat
        BY SMTT(20)
      <4> HIDE DEF R
      <4>4. QED
        BY SMTT(20), <4>2, <4>3 DEF Values
    <3> HIDE DEF R, U
    <3>2. ASSUME NEW t \in U, NEW n \in Names, NEW junk \in Junk
          PROVE  Warning(split(TextOf(n, R(t), junk))) = "leak" <=> t > 500
      <4> DEFINE r == R(t)
      <4>1. Values(r) /\ r.mq2 = t
        BY <3>1, Zenon
      <4> HIDE DEF r
      <4>2. Warning(split(TextOf(n, r, junk))) = "leak" <=> r.mq2 > 500
        BY ZenonT(20), <4>1, SnapshotWarns
      <4>3. QED
        BY <4>1, <4>2, ZenonT(30) DEF r
    <3>3. QED
      BY <3>2, Zenon
  <2>3. TextStandsForNumber = (Init => A /\ B)
    BY DEF TextStandsForNumber
  <2> HIDE DEF A, B
  <2>4. QED
    BY <2>1, <2>2, <2>3, Zenon
<1>2. QED
  BY <1>1, PTL
=============================================================================
