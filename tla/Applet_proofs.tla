---------------------------- MODULE Applet_proofs ---------------------------
(***************************************************************************)
(* Proofs about the applet's MQTT client, for any number of identifiers,   *)
(* publishes and faults.                                                   *)
(***************************************************************************)
EXTENDS Applet, TLAPS

Stores == [id : 1..MaxId, n : 1..MaxPublish]

\* What goes with a connection: nothing is on its way without a socket, a client that is
\* not connected waits for one CONNACK, and one that is connected for none.
PhaseInv ==
    /\ link = "none" => up = <<>> /\ down = <<>> /\ ~connected
    /\ reconnectTimer => link = "none"
    /\ storeProcessing => connected
    /\ ~storeProcessing => awaited = 0 /\ outStore = <<>>
    /\ ~connected => /\ Len(up) + Len(down) <= 1
                     /\ \A i \in 1..Len(up) : up[i].cmd = "connect"
                     /\ \A i \in 1..Len(down) : down[i].cmd = "connack"
    /\ connected => /\ \A i \in 1..Len(up) : up[i].cmd # "connect"
                    /\ \A i \in 1..Len(down) : down[i].cmd # "connack"

\* No identifier is twice in the store.
Distinct(s) == \A i, j \in 1..Len(s) : s[i].id = s[j].id => i = j

In(store, id, n) == \E j \in 1..Len(store) : store[j].id = id /\ store[j].n = n
Got(log, n) == \E j \in 1..Len(log) : log[j] = n

\* Nothing is lost.
AllKept(count, log, store) ==
    \A n \in 1..count : Got(log, n) \/ \E j \in 1..Len(store) : store[j].n = n

\* A publish on its way to the broker, or its acknowledgement on its way back, belongs to
\* a packet in the store; what is acknowledged was received.
Backed(u, d, store, log) ==
    /\ \A i \in 1..Len(u) : u[i].cmd = "publish" => In(store, u[i].id, u[i].n)
    /\ \A i \in 1..Len(d) :
          d[i].cmd = "puback" => Got(log, d[i].n) /\ In(store, d[i].id, d[i].n)

\* No two of them belong to the same.
Unique(u, d) ==
    /\ \A i, j \in 1..Len(u) :
          u[i].cmd = "publish" /\ u[j].cmd = "publish" /\ u[i].id = u[j].id => i = j
    /\ \A i, j \in 1..Len(d) :
          d[i].cmd = "puback" /\ d[j].cmd = "puback" /\ d[i].id = d[j].id => i = j
    /\ \A i \in 1..Len(u), j \in 1..Len(d) :
          u[i].cmd = "publish" /\ d[j].cmd = "puback" => u[i].id # d[j].id

\* Only this identifier is on its way.
Only(u, d, id) ==
    /\ \A i \in 1..Len(u) : u[i].cmd = "publish" => u[i].id = id
    /\ \A i \in 1..Len(d) : d[i].cmd = "puback" => d[i].id = id

\* It is not on its way.
Absent(u, d, id) ==
    /\ \A i \in 1..Len(u) : u[i].cmd = "publish" => u[i].id # id
    /\ \A i \in 1..Len(d) : d[i].cmd = "puback" => d[i].id # id

\* Nothing is.
Quiet(u, d) ==
    /\ \A i \in 1..Len(u) : u[i].cmd # "publish"
    /\ \A i \in 1..Len(d) : d[i].cmd # "puback"

\* What the replay has still to read are packets of the store, other than the awaited one.
Rest(rest, id, store) ==
    /\ \A i \in 1..Len(rest) : In(store, rest[i].id, rest[i].n) /\ rest[i].id # id
    /\ Distinct(rest)

SafeInv ==
    /\ Distinct(outgoingStore)
    /\ AllKept(published, received, outgoingStore)
    /\ Backed(up, down, outgoingStore, received) /\ Unique(up, down)
    /\ storeProcessing => Only(up, down, awaited)
    /\ Rest(outStore, awaited, outgoingStore)

IInv == TypeOK /\ PhaseInv /\ (~reused => SafeInv)

-----------------------------------------------------------------------------
(* Lemmas on sequences.                                                    *)

\* The rest of a sequence.
LEMMA TailFacts ==
    ASSUME NEW S, NEW s \in Seq(S), s # <<>>
    PROVE  /\ Tail(s) \in Seq(S) /\ Len(s) \in Nat /\ Len(s) > 0
           /\ Len(Tail(s)) = Len(s) - 1 /\ Head(s) = s[1] /\ s[1] \in S
           /\ \A i \in 1..Len(Tail(s)) : Tail(s)[i] = s[i + 1] /\ i + 1 \in 2..Len(s)
  OBVIOUS

\* A sequence without elements.
LEMMA EmptySeq ==
    ASSUME NEW S, NEW s \in Seq(S), Len(s) = 0
    PROVE  s = <<>>
  OBVIOUS

\* A sequence with one more element.
LEMMA AppendFacts ==
    ASSUME NEW S, NEW s \in Seq(S), NEW e \in S
    PROVE  /\ Append(s, e) \in Seq(S) /\ Len(s) \in Nat
           /\ Len(Append(s, e)) = Len(s) + 1 /\ Append(s, e)[Len(s) + 1] = e
           /\ \A i \in 1..Len(s) : Append(s, e)[i] = s[i]
  OBVIOUS

\* Writing one packet is appending it.
LEMMA OneMore ==
    ASSUME NEW S, NEW s \in Seq(S), NEW e \in S
    PROVE  s \o <<e>> = Append(s, e)
  OBVIOUS

Without(s, k) == SubSeq(s, 1, k - 1) \o SubSeq(s, k + 1, Len(s))

\* What removing one element leaves.
LEMMA RemoveFacts ==
    ASSUME NEW S, NEW s \in Seq(S), NEW k \in 1..Len(s)
    PROVE  /\ Without(s, k) \in Seq(S) /\ Len(Without(s, k)) = Len(s) - 1
           /\ \A i \in 1..(Len(s) - 1) :
                 Without(s, k)[i] = IF i < k THEN s[i] ELSE s[i + 1]
<1>1. /\ SubSeq(s, 1, k - 1) \in Seq(S) /\ Len(SubSeq(s, 1, k - 1)) = k - 1
      /\ \A i \in 1..(k - 1) : SubSeq(s, 1, k - 1)[i] = s[i]
  OBVIOUS
<1>2. /\ SubSeq(s, k + 1, Len(s)) \in Seq(S) /\ Len(SubSeq(s, k + 1, Len(s))) = Len(s) - k
      /\ \A i \in 1..(Len(s) - k) : SubSeq(s, k + 1, Len(s))[i] = s[i + k]
  OBVIOUS
<1> DEFINE a == SubSeq(s, 1, k - 1)
           b == SubSeq(s, k + 1, Len(s))
<1>3. Without(s, k) = a \o b
  BY DEF Without
<1>4. a \in Seq(S) /\ b \in Seq(S) /\ Len(a) = k - 1 /\ Len(b) = Len(s) - k
  BY <1>1, <1>2
<1>5. /\ \A i \in 1..(k - 1) : a[i] = s[i]
      /\ \A i \in 1..(Len(s) - k) : b[i] = s[i + k]
  BY <1>1, <1>2
<1> HIDE DEF a, b
<1>6. /\ a \o b \in Seq(S) /\ Len(a \o b) = Len(s) - 1
      /\ \A i \in 1..(Len(s) - 1) :
            (a \o b)[i] = IF i <= Len(a) THEN a[i] ELSE b[i - Len(a)]
  BY <1>4
<1>7. ASSUME NEW i \in 1..(Len(s) - 1)
      PROVE  (a \o b)[i] = IF i < k THEN s[i] ELSE s[i + 1]
  <2>1. CASE i < k
    BY <1>4, <1>5, <1>6, <2>1
  <2>2. CASE ~(i < k)
    <3>1. i - (k - 1) \in 1..(Len(s) - k) /\ (i - (k - 1)) + k = i + 1
      BY <2>2
    <3>2. b[i - (k - 1)] = s[i + 1]
      BY <1>5, <3>1
    <3>3. QED
      BY <1>4, <1>6, <2>2, <3>2
  <2>3. QED
    BY <2>1, <2>2
<1>8. QED
  BY <1>3, <1>6, <1>7

\* A packet leaves the store: the others remain, in their order.
LEMMA DelFacts ==
    ASSUME NEW s \in Seq(Stores), NEW id
    PROVE  /\ del(s, id) \in Seq(Stores)
           /\ Distinct(s) =>
                 /\ \A i \in 1..Len(del(s, id)) : del(s, id)[i].id # id
                 /\ \A j \in 1..Len(s) : s[j].id # id =>
                       \E i \in 1..Len(del(s, id)) : del(s, id)[i] = s[j]
                 /\ Distinct(del(s, id))
<1>1. CASE ~\E i \in 1..Len(s) : s[i].id = id
  BY <1>1 DEF del
<1>2. CASE \E i \in 1..Len(s) : s[i].id = id
  <2> DEFINE k == CHOOSE i \in 1..Len(s) : s[i].id = id
             d == Without(s, k)
  <2>1. k \in 1..Len(s) /\ s[k].id = id /\ del(s, id) = d
    BY <1>2 DEF del, Without
  <2> HIDE DEF k
  <2>2. /\ d \in Seq(Stores) /\ Len(d) = Len(s) - 1 /\ Len(s) \in Nat
        /\ \A i \in 1..(Len(s) - 1) : d[i] = IF i < k THEN s[i] ELSE s[i + 1]
    <3>1. Len(s) \in Nat
      OBVIOUS
    <3>2. QED
      BY <2>1, <3>1, RemoveFacts, Zenon
  <2> HIDE DEF d
  <2> DEFINE from(i) == IF i < k THEN i ELSE i + 1
  <2>3. \A i \in 1..Len(d) : from(i) \in 1..Len(s) /\ from(i) # k /\ d[i] = s[from(i)]
    BY <2>1, <2>2
  <2>4. \A i, j \in 1..Len(d) : from(i) = from(j) => i = j
    BY <2>1, <2>2
  <2>5. \A j \in 1..Len(s) : j # k => \E i \in 1..Len(d) : from(i) = j
    <3>1. TAKE j \in 1..Len(s)
    <3>2. HAVE j # k
    <3>3. CASE j < k
      <4>1. j \in 1..Len(d) /\ from(j) = j
        BY <2>1, <2>2, <3>3
      <4>2. QED
        BY <4>1
    <3>4. CASE j > k
      <4>1. j - 1 \in 1..Len(d) /\ from(j - 1) = j
        BY <2>1, <2>2, <3>4
      <4>2. QED
        BY <4>1
    <3>5. QED
      BY <2>1, <3>2, <3>3, <3>4
  <2> HIDE DEF from
  <2>6. SUFFICES ASSUME Distinct(s)
                 PROVE  /\ \A i \in 1..Len(d) : d[i].id # id
                        /\ \A j \in 1..Len(s) : s[j].id # id => \E i \in 1..Len(d) : d[i] = s[j]
                        /\ Distinct(d)
    BY <2>1, <2>2
  <2>7. \A i \in 1..Len(d) : d[i].id # id
    BY <2>1, <2>3, <2>6 DEF Distinct
  <2>8. ASSUME NEW j \in 1..Len(s), s[j].id # id PROVE \E i \in 1..Len(d) : d[i] = s[j]
    <3>1. PICK i \in 1..Len(d) : from(i) = j
      BY <2>1, <2>5, <2>8
    <3>2. QED
      BY <2>3, <3>1
  <2>9. Distinct(d)
    BY <2>3, <2>4, <2>6 DEF Distinct
  <2>10. QED
    BY <2>7, <2>8, <2>9
<1>3. QED
  BY <1>1, <1>2

\* A packet is put into the store.
LEMMA PutTypes ==
    ASSUME NEW s \in Seq(Stores), NEW p \in Stores
    PROVE  put(s, p) \in Seq(Stores)
<1>1. CASE \E i \in 1..Len(s) : s[i].id = p.id
  <2>1. [i \in 1..Len(s) |-> IF s[i].id = p.id THEN p ELSE s[i]] \in [1..Len(s) -> Stores]
    OBVIOUS
  <2>2. Len(s) \in Nat
    OBVIOUS
  <2>3. QED
    BY <1>1, <2>1, <2>2 DEF put
<1>2. CASE ~\E i \in 1..Len(s) : s[i].id = p.id
  BY <1>2, AppendFacts DEF put
<1>3. QED
  BY <1>1, <1>2

-----------------------------------------------------------------------------
(* Types.                                                                  *)

Sending == Packets({"connect", "subscribe", "publish"})
Answers == Packets({"connack", "puback"})

\* The types of the packets on their way.
LEMMA Lengths ==
    ASSUME TypeOK
    PROVE  up \in Seq(Sending) /\ Len(up) \in Nat /\ down \in Seq(Answers) /\ Len(down) \in Nat
<1>1. up \in Seq(Sending) /\ down \in Seq(Answers)
  BY DEF TypeOK, Sending, Answers
<1>2. QED
  BY <1>1

\* The packet that the next publish makes.
New == [id |-> nextId, n |-> published + 1]

\* A stored packet becomes a publish.
LEMMA PublishPacket ==
    ASSUME NEW p \in Stores
    PROVE  Publish(p) \in Sending /\ Publish(p).cmd = "publish"
           /\ Publish(p).id = p.id /\ Publish(p).n = p.n
  BY BoundAssumption DEF Publish, Sending, Packets, Stores

\* Writing a publish adds it to what is on its way, or nothing.
LEMMA WrittenOne ==
    ASSUME TypeOK, NEW p \in Stores
    PROVE  Written(<<Publish(p)>>) \in {up, Append(up, Publish(p))}
<1>1. up \in Seq(Sending)
  BY DEF TypeOK, Sending
<1>2. up \o <<Publish(p)>> = Append(up, Publish(p))
  BY <1>1, PublishPacket, OneMore
<1>3. QED
  BY <1>2 DEF Written

\* The types of what publish assigns.
LEMMA PublishTypes ==
    ASSUME TypeOK, publish
    PROVE  /\ New \in Stores /\ published' = published + 1 /\ published' \in 0..MaxPublish
           /\ nextId' \in 1..MaxId /\ outgoingStore' \in Seq(Stores)
           /\ reused' \in BOOLEAN /\ fresh' \subseteq 1..MaxId
           /\ up' \in Seq(Sending) /\ up' \in {up, Append(up, Publish(New))}
           /\ (storeProcessing \/ ~connected => up' = up)
           /\ sent' \in Seq(1..MaxPublish)
<1>1. New \in Stores /\ published' = published + 1 /\ published' \in 0..MaxPublish
  BY BoundAssumption DEF TypeOK, publish, New, Stores
<1>2. nextId' \in 1..MaxId
  <2>1. nextId \in 1..MaxId /\ nextId' = NextId
    BY DEF TypeOK, publish
  <2>2. QED
    BY <2>1, BoundAssumption DEF NextId
<1>3. outgoingStore' \in Seq(Stores)
  <2>1. outgoingStore' = put(outgoingStore, New)
    BY DEF publish, Kept, New
  <2>2. QED
    BY <1>1, <2>1, PutTypes DEF TypeOK, Stores
<1>4. reused' \in BOOLEAN
  BY DEF publish, TypeOK
<1>5. fresh' \subseteq 1..MaxId
  BY DEF publish, TypeOK
<1>6. up' = IF SendsNow THEN Written(<<Publish(New)>>) ELSE up
  BY DEF publish, New
<1>7. up' \in {up, Append(up, Publish(New))}
  BY <1>1, <1>6, WrittenOne
<1>8. up' \in Seq(Sending)
  <2>1. up \in Seq(Sending)
    BY DEF TypeOK, Sending
  <2>2. QED
    BY <1>1, <1>7, <2>1, PublishPacket, AppendFacts
<1>9. sent' \in Seq(1..MaxPublish)
  <2>1. sent' \in {sent, Append(sent, published + 1)}
    BY DEF publish
  <2>2. published + 1 \in 1..MaxPublish /\ sent \in Seq(1..MaxPublish)
    BY <1>1 DEF TypeOK
  <2>3. Append(sent, published + 1) \in Seq(1..MaxPublish)
    BY <2>2, AppendFacts, Zenon
  <2>4. QED
    BY <2>1, <2>2, <2>3, Zenon
<1>10. storeProcessing \/ ~connected => up' = up
  BY <1>6 DEF SendsNow
<1>11. QED
  BY <1>1, <1>2, <1>3, <1>4, <1>5, <1>7, <1>8, <1>9, <1>10

\* The types of what storeDeliver assigns.
LEMMA DeliverTypes ==
    ASSUME TypeOK, NEW packets \in Seq(Stores), NEW new \in SUBSET (1..MaxId),
           storeDeliver(packets, new)
    PROVE  /\ awaited' \in 0..MaxId /\ outStore' \in Seq(Stores) /\ fresh' \subseteq 1..MaxId
           /\ up' \in Seq(Sending) /\ sent' \in Seq(1..MaxPublish)
<1>0. up \in Seq(Sending) /\ sent \in Seq(1..MaxPublish) /\ MaxId \in Nat
  BY BoundAssumption DEF TypeOK, Sending
<1>1. CASE packets = <<>>
  <2>1. awaited' = 0 /\ outStore' = <<>> /\ fresh' = new /\ up' = up /\ sent' = sent
    BY <1>1 DEF storeDeliver
  <2>2. <<>> \in Seq(Stores)
    OBVIOUS
  <2>3. QED
    BY <1>0, <2>1, <2>2
<1>2. CASE packets # <<>>
  <2> DEFINE p == Head(packets)
  <2>1. p \in Stores /\ Tail(packets) \in Seq(Stores)
    BY <1>2, TailFacts
  <2>2. /\ awaited' = p.id /\ outStore' = Tail(packets) /\ fresh' = new \ {p.id}
        /\ up' = Written(<<Publish(p)>>) /\ sent' = Append(sent, p.n)
    BY <1>2 DEF storeDeliver
  <2> HIDE DEF p
  <2>3. up' \in Seq(Sending)
    <3>1. up' \in {up, Append(up, Publish(p))}
      BY <2>1, <2>2, WrittenOne
    <3>2. Publish(p) \in Sending
      BY <2>1, PublishPacket
    <3>3. Append(up, Publish(p)) \in Seq(Sending)
      BY <1>0, <3>2, AppendFacts, Zenon
    <3>4. QED
      BY <1>0, <3>1, <3>3, Zenon
  <2>4. p.id \in 1..MaxId /\ p.n \in 1..MaxPublish
    BY <2>1 DEF Stores
  <2>5. sent' \in Seq(1..MaxPublish)
    BY <1>0, <2>2, <2>4, AppendFacts
  <2>6. awaited' \in 0..MaxId
    BY <1>0, <2>2, <2>4
  <2>7. QED
    BY <2>1, <2>2, <2>3, <2>5, <2>6
<1>3. QED
  BY <1>1, <1>2

-----------------------------------------------------------------------------
(* What the actions have in common.                                        *)

\* The page publishes something.
Publishing ==
    /\ publish /\ page' \in {"hidden", "shown", "closed"}
    /\ UNCHANGED <<connected, firstConnection, reconnectTimer, queue, storeProcessing,
                   outStore, awaited, link, down, subscribed, received, faults>>

\* The connection ends, for whatever reason.
Closing == Close /\ faults' \in 0..MaxFault

\* Every step is one of these.
LEMMA Cases ==
    ASSUME TypeOK, [Next]_vars
    PROVE  \/ Publishing \/ Closing \/ onHide \/ onConnect \/ handleAck \/ EndOfStore
           \/ reconnect \/ Broker \/ Die \/ UNCHANGED vars
<1>1. CASE Page
  <2>1. page \in {"hidden", "shown", "closed"}
    BY DEF TypeOK
  <2>2. CASE onShow
    BY <2>2 DEF onShow, Publishing
  <2>3. CASE Poll
    BY <2>1, <2>3 DEF Poll, Publishing
  <2>4. CASE onClick
    BY <2>1, <2>4 DEF onClick, Poll, Publishing
  <2>5. CASE onUnload
    BY <2>5 DEF onUnload, Publishing
  <2>6. CASE onDeviceOnline
    BY <2>1, <2>6 DEF onDeviceOnline, Publishing
  <2>7. QED
    BY <1>1, <2>2, <2>3, <2>4, <2>5, <2>6 DEF Page
<1>2. CASE onClose
  <2>1. Close /\ faults' = faults + 1 /\ faults < MaxFault
    BY <1>2 DEF onClose
  <2>2. faults' \in 0..MaxFault
    BY <2>1, BoundAssumption DEF TypeOK
  <2>3. QED
    BY <2>1, <2>2 DEF Closing
<1>3. CASE connackTimeout \/ checkPing \/ OsClose
  <2>1. Close /\ faults' = faults
    BY <1>3 DEF connackTimeout, checkPing, OsClose
  <2>2. QED
    BY <2>1 DEF Closing, TypeOK
<1>4. QED
  BY <1>1, <1>2, <1>3 DEF Next, Client

\* The head of what comes from the broker.
LEMMA DownFacts ==
    ASSUME TypeOK, down # <<>>
    PROVE  /\ Tail(down) \in Seq(Answers)
           /\ Head(down) = down[1] /\ Len(down) \in Nat /\ Len(down) > 0
           /\ Len(Tail(down)) = Len(down) - 1
           /\ \A i \in 1..Len(Tail(down)) : Tail(down)[i] = down[i + 1] /\ i + 1 \in 2..Len(down)
  BY Lengths, TailFacts

\* The types.
LEMMA TypeStep ==
    ASSUME TypeOK, [Next]_vars
    PROVE  TypeOK'
<1>0. /\ outgoingStore \in Seq(Stores) /\ outStore \in Seq(Stores)
      /\ fresh \in SUBSET (1..MaxId) /\ {} \in SUBSET (1..MaxId) /\ <<>> \in Seq(Stores)
  BY DEF TypeOK, Stores
<1>1. CASE Publishing
  <2>1. publish
    BY <1>1 DEF Publishing
  <2>2. /\ published' \in 0..MaxPublish /\ nextId' \in 1..MaxId
        /\ outgoingStore' \in Seq(Stores) /\ reused' \in BOOLEAN /\ fresh' \subseteq 1..MaxId
        /\ up' \in Seq(Sending) /\ sent' \in Seq(1..MaxPublish)
    BY <2>1, PublishTypes
  <2>3. QED
    BY <1>1, <2>2 DEF Publishing, TypeOK, Stores, Sending
<1>2. CASE Closing
  <2>1. /\ link' = "none" /\ up' = <<>> /\ down' = <<>> /\ subscribed' = FALSE
        /\ connected' = FALSE /\ reconnectTimer' = TRUE
        /\ storeProcessing' = FALSE /\ outStore' = <<>> /\ awaited' = 0 /\ fresh' = {}
        /\ sent' = <<>> /\ faults' \in 0..MaxFault
        /\ UNCHANGED <<page, firstConnection, nextId, outgoingStore, queue, received,
                       published, reused>>
    BY <1>2 DEF Closing, Close
  <2>2. \A S : <<>> \in Seq(S)
    OBVIOUS
  <2>3. 0 \in 0..MaxId
    BY BoundAssumption
  <2>4. QED
    BY <2>1, <2>2, <2>3 DEF TypeOK
<1>3. CASE onHide
  BY <1>3 DEF onHide, TypeOK, client, net
<1>4. CASE onConnect
  <2>1. storeDeliver(outgoingStore, {})
    BY <1>4 DEF onConnect
  <2>2. /\ awaited' \in 0..MaxId /\ outStore' \in Seq(Stores) /\ fresh' \subseteq 1..MaxId
        /\ up' \in Seq(Sending) /\ sent' \in Seq(1..MaxPublish)
    BY <1>0, <2>1, DeliverTypes
  <2>3. down' \in Seq(Answers)
    BY <1>4, DownFacts DEF onConnect
  <2>4. queue' \in Seq(Packets({"subscribe"})) /\ nextId' \in 1..MaxId
    <3>1. queue \in Seq(Packets({"subscribe"})) /\ nextId \in 1..MaxId
      BY DEF TypeOK
    <3>2. Packet("subscribe") \in Packets({"subscribe"})
      BY DEF Packet, Packets
    <3>3. NextId \in 1..MaxId
      BY <3>1, BoundAssumption DEF NextId
    <3>4. queue' \in {queue, Append(queue, Packet("subscribe"))} /\ nextId' \in {nextId, NextId}
      BY <1>4 DEF onConnect, resubscribe
    <3>5. Append(queue, Packet("subscribe")) \in Seq(Packets({"subscribe"}))
      BY <3>1, <3>2, AppendFacts, Zenon
    <3>6. QED
      BY <3>1, <3>3, <3>4, <3>5, Zenon
  <2>5. /\ firstConnection' = FALSE /\ connected' = TRUE /\ storeProcessing' = TRUE
        /\ UNCHANGED <<page, reconnectTimer, outgoingStore, link, subscribed, received,
                       published, reused, faults>>
    BY <1>4 DEF onConnect
  <2>6. QED
    BY <2>2, <2>3, <2>4, <2>5 DEF TypeOK, Stores, Sending, Answers
<1>5. CASE handleAck
  <2>1. outgoingStore' \in Seq(Stores)
    BY <1>0, <1>5, DelFacts DEF handleAck
  <2>2. /\ awaited' \in 0..MaxId /\ outStore' \in Seq(Stores) /\ fresh' \subseteq 1..MaxId
        /\ up' \in Seq(Sending) /\ sent' \in Seq(1..MaxPublish)
    <3>1. CASE storeDeliver(outStore, fresh)
      BY <1>0, <3>1, DeliverTypes
    <3>2. CASE UNCHANGED <<outStore, awaited, fresh, up, sent>>
      BY <3>2 DEF TypeOK, Stores, Sending
    <3>3. QED
      BY <1>5, <3>1, <3>2 DEF handleAck
  <2>3. down' \in Seq(Answers)
    BY <1>5, DownFacts DEF handleAck
  <2>4. UNCHANGED <<page, connected, firstConnection, reconnectTimer, nextId, queue,
                    storeProcessing, link, subscribed, received, published, reused, faults>>
    BY <1>5 DEF handleAck
  <2>5. QED
    BY <2>1, <2>2, <2>3, <2>4 DEF TypeOK, Stores, Sending, Answers
<1>6. CASE EndOfStore
  <2>1. UNCHANGED <<page, connected, firstConnection, reconnectTimer, nextId,
                    outgoingStore, link, down, subscribed, received, published, reused,
                    faults>>
    BY <1>6 DEF EndOfStore
  <2>2. CASE fresh = {}
    <3>1. /\ storeProcessing' = FALSE /\ queue' = <<>> /\ up' = Written(queue)
          /\ UNCHANGED <<outStore, awaited, fresh, sent>>
      BY <1>6, <2>2 DEF EndOfStore
    <3>2. up' \in Seq(Sending)
      <4>1. up \in Seq(Sending) /\ queue \in Seq(Sending)
        <5>1. Packets({"subscribe"}) \subseteq Sending
          BY DEF Packets, Sending
        <5>2. QED
          BY <5>1 DEF TypeOK, Sending
      <4>2. QED
        BY <3>1, <4>1 DEF Written
    <3>3. queue' \in Seq(Packets({"subscribe"}))
      BY <3>1
    <3>4. QED
      BY <2>1, <3>1, <3>2, <3>3 DEF TypeOK, Sending
  <2>3. CASE fresh # {}
    <3>1. storeDeliver(outgoingStore, fresh) /\ UNCHANGED <<storeProcessing, queue>>
      BY <1>6, <2>3 DEF EndOfStore
    <3>2. /\ awaited' \in 0..MaxId /\ outStore' \in Seq(Stores) /\ fresh' \subseteq 1..MaxId
          /\ up' \in Seq(Sending) /\ sent' \in Seq(1..MaxPublish)
      BY <1>0, <3>1, DeliverTypes
    <3>3. QED
      BY <2>1, <3>1, <3>2 DEF TypeOK, Stores, Sending
  <2>4. QED
    BY <2>2, <2>3
<1>7. CASE reconnect
  <2>1. Packet("connect") \in Sending
    BY DEF Packet, Packets, Sending
  <2>2. up' \in Seq(Sending)
    BY <1>7, <2>1 DEF reconnect
  <2>3. QED
    BY <1>7, <2>2 DEF reconnect, TypeOK, Sending
<1>8. CASE Broker
  <2>1. up \in Seq(Sending) /\ up # <<>> /\ up' = Tail(up)
    BY <1>8 DEF Broker, TypeOK, Sending
  <2>2. Head(up) \in Sending /\ up' \in Seq(Sending)
    BY <2>1, TailFacts
  <2> DEFINE p == Head(up)
  <2>3. /\ received' = IF p.cmd = "publish" THEN Append(received, p.n) ELSE received
        /\ subscribed' = (subscribed \/ p.cmd = "subscribe")
        /\ down' \in {down, Append(down, Packet("connack")), Append(down, [p EXCEPT !.cmd = "puback"])}
        /\ UNCHANGED <<page, client, link, sent, published, reused, faults>>
    BY <1>8 DEF Broker
  <2> HIDE DEF p
  <2>4. /\ p \in Sending /\ p.n \in Nat /\ Packet("connack") \in Answers
        /\ [p EXCEPT !.cmd = "puback"] \in Answers
    <3>1. p \in Packets({"connect", "subscribe", "publish"})
      BY <2>2 DEF p, Sending
    <3>2. QED
      BY <3>1 DEF Sending, Answers, Packets, Packet
  <2>5. down' \in Seq(Answers)
    <3> DEFINE a == Packet("connack")
               b == [p EXCEPT !.cmd = "puback"]
    <3>1. a \in Answers /\ b \in Answers /\ down' \in {down, Append(down, a), Append(down, b)}
      BY <2>3, <2>4
    <3> HIDE DEF a, b
    <3>2. Append(down, a) \in Seq(Answers) /\ Append(down, b) \in Seq(Answers)
      BY <3>1, Lengths, AppendFacts
    <3>3. QED
      BY <3>1, <3>2, Lengths
  <2>6. received' \in Seq(Nat)
    <3>1. received \in Seq(Nat)
      BY DEF TypeOK
    <3>2. Append(received, p.n) \in Seq(Nat)
      BY <2>4, <3>1, AppendFacts
    <3>3. QED
      BY <2>3, <3>1, <3>2
  <2>7. subscribed' \in BOOLEAN
    BY <2>3
  <2>8. QED
    BY <2>2, <2>3, <2>5, <2>6, <2>7 DEF TypeOK, Sending, Answers, client
<1>9. CASE Die
  <2>1. faults' \in 0..MaxFault
    BY <1>9, BoundAssumption DEF Die, TypeOK
  <2>2. \A S : <<>> \in Seq(S)
    OBVIOUS
  <2>3. QED
    BY <1>9, <2>1, <2>2 DEF Die, TypeOK, client
<1>10. CASE UNCHANGED vars
  BY <1>10 DEF vars, client, net, TypeOK
<1>11. QED
  BY <1>1, <1>2, <1>3, <1>4, <1>5, <1>6, <1>7, <1>8, <1>9, <1>10, Cases

-----------------------------------------------------------------------------
(* The phases of a connection.                                             *)

\* What storeDeliver adds to the packets on their way.
LEMMA DeliverUp ==
    ASSUME TypeOK, NEW packets \in Seq(Stores), NEW new, storeDeliver(packets, new)
    PROVE  /\ packets = <<>> => up' = up /\ awaited' = 0 /\ outStore' = <<>>
           /\ packets # <<>> =>
                 /\ Head(packets) \in Stores /\ awaited' = Head(packets).id
                 /\ outStore' = Tail(packets)
                 /\ up' \in {up, Append(up, Publish(Head(packets)))}
<1>1. CASE packets = <<>>
  BY <1>1 DEF storeDeliver
<1>2. CASE packets # <<>>
  <2>1. Head(packets) \in Stores
    BY <1>2, TailFacts
  <2>2. /\ awaited' = Head(packets).id /\ outStore' = Tail(packets)
        /\ up' = Written(<<Publish(Head(packets))>>)
    BY <1>2 DEF storeDeliver
  <2>3. QED
    BY <1>2, <2>1, <2>2, WrittenOne
<1>3. QED
  BY <1>1, <1>2

\* A connected client adds no CONNECT.
NoConnect(s) == \A i \in 1..Len(s) : s[i].cmd # "connect"

\* A publish or a subscription is not a CONNECT.
LEMMA NoConnectAppend ==
    ASSUME NEW s \in Seq(Sending), NEW e \in Sending, NoConnect(s), e.cmd # "connect"
    PROVE  NoConnect(Append(s, e))
<1>1. /\ Len(s) \in Nat /\ Len(Append(s, e)) = Len(s) + 1 /\ Append(s, e)[Len(s) + 1] = e
      /\ \A i \in 1..Len(s) : Append(s, e)[i] = s[i]
  BY AppendFacts
<1>2. ASSUME NEW i \in 1..(Len(s) + 1) PROVE Append(s, e)[i].cmd # "connect"
  <2>1. i \in 1..Len(s) \/ i = Len(s) + 1
    BY <1>1
  <2>2. QED
    BY <1>1, <2>1 DEF NoConnect
<1>3. QED
  BY <1>1, <1>2 DEF NoConnect

\* The packets that storeDeliver writes are no CONNECT.
LEMMA DeliverNoConnect ==
    ASSUME TypeOK, NEW packets \in Seq(Stores), NEW new, storeDeliver(packets, new),
           NoConnect(up)
    PROVE  NoConnect(up')
<1>1. up \in Seq(Sending)
  BY DEF TypeOK, Sending
<1>2. CASE packets = <<>>
  BY <1>2, DeliverUp
<1>3. CASE packets # <<>>
  <2>1. Head(packets) \in Stores /\ up' \in {up, Append(up, Publish(Head(packets)))}
    BY <1>3, DeliverUp
  <2>2. Publish(Head(packets)) \in Sending /\ Publish(Head(packets)).cmd # "connect"
    BY <2>1, PublishPacket
  <2>3. QED
    BY <1>1, <2>1, <2>2, NoConnectAppend
<1>4. QED
  BY <1>2, <1>3

\* An acknowledgement reaches a connected client, a CONNACK one that is not.
LEMMA DownPhase ==
    ASSUME TypeOK, PhaseInv, down # <<>>
    PROVE  /\ Head(down).cmd = "puback" => connected
           /\ Head(down).cmd = "connack" => ~connected /\ up = <<>> /\ Tail(down) = <<>>
<1>1. Head(down) = down[1] /\ Len(down) \in Nat /\ Len(down) > 0 /\ 1 \in 1..Len(down)
  BY DownFacts
<1>2. Head(down).cmd = "puback" => connected
  BY <1>1 DEF PhaseInv, TypeOK
<1>3. ASSUME Head(down).cmd = "connack" PROVE ~connected /\ up = <<>> /\ Tail(down) = <<>>
  <2>1. ~connected
    BY <1>1, <1>3 DEF PhaseInv
  <2>2. Len(up) \in Nat /\ Len(up) + Len(down) <= 1
    BY <2>1 DEF PhaseInv, TypeOK
  <2>3. Len(up) = 0 /\ Len(Tail(down)) = 0 /\ up \in Seq(Sending)
    BY <1>1, <2>2, DownFacts, Lengths
  <2>4. Tail(down) \in Seq(Answers)
    BY DownFacts
  <2>5. up = <<>> /\ Tail(down) = <<>>
    BY <2>3, <2>4, EmptySeq
  <2>6. QED
    BY <2>1, <2>5
<1>4. QED
  BY <1>2, <1>3

\* The phases.
LEMMA PhaseStep ==
    ASSUME TypeOK, PhaseInv, [Next]_vars
    PROVE  PhaseInv'
<1>0. TypeOK' /\ up \in Seq(Sending) /\ Len(up) \in Nat /\ Len(down) \in Nat
  BY TypeStep, Lengths
<1>1. CASE Publishing
  <2>1. /\ New \in Stores /\ up' \in {up, Append(up, Publish(New))}
        /\ (storeProcessing \/ ~connected => up' = up)
        /\ UNCHANGED <<connected, reconnectTimer, storeProcessing, outStore, awaited, link, down>>
    BY <1>1, PublishTypes DEF Publishing
  <2>2. Publish(New) \in Sending /\ Publish(New).cmd # "connect"
    BY <2>1, PublishPacket
  <2>3. connected => NoConnect(up')
    BY <1>0, <2>1, <2>2, NoConnectAppend DEF PhaseInv, NoConnect
  <2>4. CASE connected
    BY <2>1, <2>3, <2>4 DEF PhaseInv, NoConnect
  <2>5. CASE ~connected
    BY <2>1, <2>5 DEF PhaseInv
  <2>6. QED
    BY <2>4, <2>5
<1>2. CASE Closing
  BY <1>2 DEF Closing, Close, PhaseInv
<1>3. CASE onHide
  BY <1>3 DEF onHide, PhaseInv, client, net
<1>4. CASE onConnect
  <2>1. /\ link = "open" /\ down # <<>> /\ Head(down).cmd = "connack" /\ down' = Tail(down)
        /\ connected' = TRUE /\ storeProcessing' = TRUE /\ storeDeliver(outgoingStore, {})
        /\ link' = link /\ reconnectTimer' = reconnectTimer
    BY <1>4 DEF onConnect
  <2>2. up = <<>> /\ down' = <<>>
    BY <2>1, DownPhase
  <2>3. NoConnect(up)
    BY <2>2 DEF NoConnect
  <2>4. NoConnect(up')
    BY <2>1, <2>3, DeliverNoConnect DEF TypeOK, Stores
  <2>5. \A i \in 1..Len(down') : down'[i].cmd # "connack"
    BY <2>2
  <2>6. reconnectTimer => link = "none"
    BY DEF PhaseInv
  <2>7. QED
    BY <2>1, <2>4, <2>5, <2>6 DEF PhaseInv, NoConnect
<1>5. CASE handleAck
  <2>1. /\ link = "open" /\ down # <<>> /\ Head(down).cmd = "puback" /\ down' = Tail(down)
        /\ UNCHANGED <<connected, storeProcessing, link, reconnectTimer>>
    BY <1>5 DEF handleAck
  <2>2. connected
    BY <2>1, DownPhase
  <2>3. NoConnect(up)
    BY <2>2 DEF PhaseInv, NoConnect
  <2>4. NoConnect(up')
    <3>1. CASE storeDeliver(outStore, fresh)
      BY <2>3, <3>1, DeliverNoConnect DEF TypeOK, Stores
    <3>2. CASE up' = up
      BY <2>3, <3>2
    <3>3. QED
      BY <1>5, <3>1, <3>2 DEF handleAck
  <2>5. \A i \in 1..Len(down') : down'[i].cmd # "connack"
    <3>1. \A i \in 1..Len(down) : down[i].cmd # "connack"
      BY <2>2 DEF PhaseInv
    <3>2. \A i \in 1..Len(Tail(down)) : Tail(down)[i] = down[i + 1] /\ i + 1 \in 1..Len(down)
      BY <2>1, DownFacts
    <3>3. QED
      BY <2>1, <3>1, <3>2
  <2>6. ~storeProcessing => awaited' = 0 /\ outStore' = <<>>
    <3>1. SUFFICES ASSUME ~storeProcessing PROVE awaited' = 0 /\ outStore' = <<>>
      OBVIOUS
    <3>2. awaited = 0 /\ outStore = <<>>
      BY <3>1 DEF PhaseInv
    <3>3. QED
      BY <1>5, <3>2 DEF handleAck, storeDeliver
  <2>7. QED
    BY <2>1, <2>2, <2>4, <2>5, <2>6 DEF PhaseInv, NoConnect
<1>6. CASE EndOfStore
  <2>1. /\ storeProcessing /\ awaited = 0 /\ outStore = <<>>
        /\ UNCHANGED <<connected, link, down, reconnectTimer>>
    BY <1>6 DEF EndOfStore
  <2>2. connected /\ NoConnect(up)
    BY <2>1 DEF PhaseInv, NoConnect
  <2>3. NoConnect(up')
    <3>1. CASE fresh = {}
      <4>1. up' = Written(queue) /\ queue \in Seq(Packets({"subscribe"}))
        BY <1>6, <3>1 DEF EndOfStore, TypeOK
      <4>2. Len(queue) \in Nat /\ \A i \in 1..Len(queue) : queue[i].cmd = "subscribe"
        <5> DEFINE S == Packets({"subscribe"})
        <5>1. queue \in Seq(S) /\ \A q \in S : q.cmd = "subscribe"
          BY <4>1 DEF Packets
        <5> HIDE DEF S
        <5>2. QED
          BY <5>1
      <4>3. /\ Len(up \o queue) = Len(up) + Len(queue)
            /\ \A i \in 1..(Len(up) + Len(queue)) :
                  (up \o queue)[i] = IF i <= Len(up) THEN up[i] ELSE queue[i - Len(up)]
        BY <1>0, <4>1
      <4>4. ASSUME NEW i \in 1..(Len(up) + Len(queue)) PROVE (up \o queue)[i].cmd # "connect"
        <5>1. CASE i <= Len(up)
          BY <1>0, <2>2, <4>3, <5>1 DEF NoConnect
        <5>2. CASE ~(i <= Len(up))
          <6>1. i - Len(up) \in 1..Len(queue)
            BY <1>0, <4>2, <5>2
          <6>2. QED
            BY <4>2, <4>3, <5>2, <6>1
        <5>3. QED
          BY <5>1, <5>2
      <4>5. QED
        BY <2>2, <4>1, <4>3, <4>4 DEF NoConnect, Written
    <3>2. CASE fresh # {}
      BY <1>6, <2>2, <3>2, DeliverNoConnect DEF EndOfStore, TypeOK, Stores
    <3>3. QED
      BY <3>1, <3>2
  <2>4. ~storeProcessing' => awaited' = 0 /\ outStore' = <<>>
    BY <1>6, <2>1 DEF EndOfStore
  <2>5. QED
    BY <2>1, <2>2, <2>3, <2>4 DEF PhaseInv, NoConnect
<1>7. CASE reconnect
  <2>1. /\ link = "none" /\ link' = "open" /\ reconnectTimer' = FALSE /\ down' = down
        /\ UNCHANGED <<connected, storeProcessing, outStore, awaited>>
        /\ up' = <<Packet("connect")>>
    BY <1>7 DEF reconnect, PhaseInv
  <2>2. down = <<>> /\ ~connected
    BY <2>1 DEF PhaseInv
  <2>3. Len(up') = 1 /\ \A i \in 1..Len(up') : up'[i].cmd = "connect"
    BY <2>1 DEF Packet
  <2>4. Len(down') = 0
    BY <2>1, <2>2
  <2>5. QED
    BY <2>1, <2>2, <2>3, <2>4 DEF PhaseInv
<1>8. CASE Broker
  <2>1. /\ link = "open" /\ up # <<>> /\ up' = Tail(up)
        /\ UNCHANGED <<connected, storeProcessing, outStore, awaited, link, reconnectTimer>>
    BY <1>8 DEF Broker, client
  <2>2. /\ Len(up) > 0 /\ Len(up') = Len(up) - 1 /\ Head(up) = up[1] /\ up[1] \in Sending
        /\ \A i \in 1..Len(up') : up'[i] = up[i + 1] /\ i + 1 \in 2..Len(up)
    BY <1>0, <2>1, TailFacts
  <2>3. CASE connected
    <3>1. NoConnect(up) /\ Head(up).cmd # "connect"
      BY <1>0, <2>2, <2>3 DEF PhaseInv, NoConnect
    <3>2. NoConnect(up')
      BY <1>0, <2>2, <3>1 DEF NoConnect
    <3>3. down' \in {down, Append(down, [Head(up) EXCEPT !.cmd = "puback"])}
      BY <1>8, <3>1 DEF Broker
    <3> DEFINE e == [Head(up) EXCEPT !.cmd = "puback"]
    <3>4. e.cmd = "puback" /\ e \in Answers
      BY <2>2 DEF Sending, Answers, Packets
    <3> HIDE DEF e
    <3>5. \A i \in 1..Len(down') : down'[i].cmd # "connack"
      <4>1. \A i \in 1..Len(down) : down[i].cmd # "connack"
        BY <2>3 DEF PhaseInv
      <4>2. /\ Len(Append(down, e)) = Len(down) + 1 /\ Append(down, e)[Len(down) + 1] = e
            /\ \A i \in 1..Len(down) : Append(down, e)[i] = down[i]
        BY <3>4, Lengths, AppendFacts
      <4>3. \A i \in 1..(Len(down) + 1) : i \in 1..Len(down) \/ i = Len(down) + 1
        BY <1>0
      <4>4. \A i \in 1..(Len(down) + 1) : Append(down, e)[i].cmd # "connack"
        BY <3>4, <4>1, <4>2, <4>3
      <4>5. down' \in {down, Append(down, e)}
        BY <3>3 DEF e
      <4>6. QED
        BY <4>1, <4>2, <4>4, <4>5
    <3>6. QED
      BY <2>1, <2>3, <3>2, <3>5 DEF PhaseInv, NoConnect
  <2>4. CASE ~connected
    <3>1. /\ Len(up) + Len(down) <= 1 /\ Head(up).cmd = "connect"
          /\ \A i \in 1..Len(down) : down[i].cmd = "connack"
      BY <1>0, <2>2, <2>4 DEF PhaseInv
    <3>2. Len(up') = 0 /\ Len(down) = 0
      BY <1>0, <2>2, <3>1
    <3>3. down' = Append(down, Packet("connack"))
      BY <1>8, <3>1 DEF Broker
    <3>4. Packet("connack") \in Answers /\ Packet("connack").cmd = "connack"
      BY DEF Packet, Answers, Packets
    <3>5. Len(down') = 1 /\ down'[1] = Packet("connack")
      BY <3>2, <3>3, <3>4, Lengths, AppendFacts
    <3>6. \A i \in 1..1 : i = 1
      OBVIOUS
    <3>7. \A i \in 1..Len(down') : down'[i].cmd = "connack"
      BY <3>4, <3>5, <3>6
    <3>8. QED
      BY <2>1, <2>4, <3>2, <3>5, <3>7 DEF PhaseInv
  <2>5. QED
    BY <2>3, <2>4
<1>9. CASE Die
  BY <1>9 DEF Die, PhaseInv, client
<1>10. CASE UNCHANGED vars
  BY <1>10 DEF vars, client, net, PhaseInv
<1>11. QED
  BY <1>1, <1>2, <1>3, <1>4, <1>5, <1>6, <1>7, <1>8, <1>9, <1>10, Cases

-----------------------------------------------------------------------------
(* Packets on their way.                                                   *)

\* With no publish and no acknowledgement on its way nothing can be wrong with them.
LEMMA QuietFacts ==
    ASSUME NEW u, NEW d, NEW store, NEW log, NEW id, Quiet(u, d)
    PROVE  Backed(u, d, store, log) /\ Unique(u, d) /\ Only(u, d, id)
  BY DEF Quiet, Backed, Unique, Only

\* Another publish is written.
LEMMA MorePublish ==
    ASSUME NEW u \in Seq(Sending), NEW d, NEW store, NEW log, NEW e \in Sending,
           Backed(u, d, store, log), Unique(u, d), e.cmd = "publish",
           In(store, e.id, e.n), Absent(u, d, e.id)
    PROVE  Backed(Append(u, e), d, store, log) /\ Unique(Append(u, e), d)
<1> DEFINE v == Append(u, e)
<1>1. /\ Len(u) \in Nat /\ Len(v) = Len(u) + 1 /\ v[Len(u) + 1] = e
      /\ \A i \in 1..Len(u) : v[i] = u[i]
  BY AppendFacts
<1> HIDE DEF v
<1>2. \A i \in 1..Len(v) : i \in 1..Len(u) \/ i = Len(u) + 1
  BY <1>1
<1>3. Backed(v, d, store, log)
  BY <1>1, <1>2 DEF Backed
<1>4. ASSUME NEW i \in 1..Len(v), NEW j \in 1..Len(v),
             v[i].cmd = "publish", v[j].cmd = "publish", v[i].id = v[j].id
      PROVE  i = j
  <2>1. CASE i \in 1..Len(u) /\ j \in 1..Len(u)
    BY <1>1, <1>4, <2>1 DEF Unique
  <2>2. CASE i \in 1..Len(u) /\ j = Len(u) + 1
    BY <1>1, <1>4, <2>2 DEF Absent
  <2>3. CASE i = Len(u) + 1 /\ j \in 1..Len(u)
    BY <1>1, <1>4, <2>3 DEF Absent
  <2>4. QED
    BY <1>2, <2>1, <2>2, <2>3
<1>5. ASSUME NEW i \in 1..Len(v), NEW j \in 1..Len(d),
             v[i].cmd = "publish", d[j].cmd = "puback"
      PROVE  v[i].id # d[j].id
  <2>1. CASE i \in 1..Len(u)
    BY <1>1, <1>5, <2>1 DEF Unique
  <2>2. CASE i = Len(u) + 1
    BY <1>1, <1>5, <2>2 DEF Absent
  <2>3. QED
    BY <1>2, <2>1, <2>2
<1>6. Unique(v, d)
  BY <1>4, <1>5 DEF Unique
<1>7. QED
  BY <1>3, <1>6 DEF v

\* The first publish is written.
LEMMA OnePublish ==
    ASSUME NEW u \in Seq(Sending), NEW d, NEW store, NEW log, NEW e \in Sending,
           Quiet(u, d), e.cmd = "publish", In(store, e.id, e.n)
    PROVE  /\ Backed(Append(u, e), d, store, log) /\ Unique(Append(u, e), d)
           /\ Only(Append(u, e), d, e.id)
<1>1. Backed(u, d, store, log) /\ Unique(u, d) /\ Absent(u, d, e.id)
  BY DEF Quiet, Backed, Unique, Absent
<1> DEFINE v == Append(u, e)
<1>2. /\ Len(u) \in Nat /\ Len(v) = Len(u) + 1 /\ v[Len(u) + 1] = e
      /\ \A i \in 1..Len(u) : v[i] = u[i]
  BY AppendFacts
<1> HIDE DEF v
<1>3. \A i \in 1..Len(v) : i \in 1..Len(u) \/ i = Len(u) + 1
  BY <1>2
<1>4. Only(v, d, e.id)
  BY <1>2, <1>3 DEF Quiet, Only
<1>5. QED
  BY <1>1, <1>4, MorePublish DEF v

\* The broker takes the first packet.
LEMMA TailUp ==
    ASSUME NEW u \in Seq(Sending), NEW d, NEW store, NEW log, u # <<>>,
           Backed(u, d, store, log), Unique(u, d)
    PROVE  /\ Backed(Tail(u), d, store, log) /\ Unique(Tail(u), d)
           /\ \A id : Only(u, d, id) => Only(Tail(u), d, id)
           /\ u[1].cmd = "publish" => Absent(Tail(u), d, u[1].id)
<1> DEFINE v == Tail(u)
<1>1. /\ Len(u) \in Nat /\ Len(u) > 0 /\ Len(v) = Len(u) - 1
      /\ \A i \in 1..Len(v) : v[i] = u[i + 1] /\ i + 1 \in 2..Len(u)
  BY TailFacts
<1> HIDE DEF v
<1>2. /\ 1 \in 1..Len(u)
      /\ \A i \in 1..Len(v) : i + 1 \in 1..Len(u) /\ i + 1 # 1
      /\ \A i, j \in 1..Len(v) : i + 1 = j + 1 => i = j
  BY <1>1
<1>3. Backed(v, d, store, log)
  BY <1>1, <1>2 DEF Backed
<1>4. Unique(v, d)
  <2>1. ASSUME NEW i \in 1..Len(v), NEW j \in 1..Len(v),
               v[i].cmd = "publish", v[j].cmd = "publish", v[i].id = v[j].id
        PROVE  i = j
    <3>1. u[i + 1].cmd = "publish" /\ u[j + 1].cmd = "publish" /\ u[i + 1].id = u[j + 1].id
      BY <1>1, <2>1
    <3>2. i + 1 = j + 1
      BY <1>2, <3>1 DEF Unique
    <3>3. QED
      BY <1>2, <3>2
  <2>2. ASSUME NEW i \in 1..Len(v), NEW j \in 1..Len(d),
               v[i].cmd = "publish", d[j].cmd = "puback"
        PROVE  v[i].id # d[j].id
    <3>1. i + 1 \in 1..Len(u) /\ u[i + 1].cmd = "publish"
      BY <1>1, <1>2, <2>2
    <3>2. QED
      BY <1>1, <2>2, <3>1 DEF Unique
  <2>3. QED
    BY <2>1, <2>2 DEF Unique
<1>5. ASSUME NEW id, Only(u, d, id) PROVE Only(v, d, id)
  <2>1. ASSUME NEW i \in 1..Len(v), v[i].cmd = "publish" PROVE v[i].id = id
    BY <1>1, <1>2, <1>5, <2>1 DEF Only
  <2>2. QED
    BY <1>5, <2>1 DEF Only
<1>6. ASSUME u[1].cmd = "publish" PROVE Absent(v, d, u[1].id)
  <2>1. ASSUME NEW i \in 1..Len(v), v[i].cmd = "publish" PROVE v[i].id # u[1].id
    BY <1>1, <1>2, <1>6, <2>1 DEF Unique
  <2>2. \A i \in 1..Len(d) : d[i].cmd = "puback" => d[i].id # u[1].id
    BY <1>2, <1>6 DEF Unique
  <2>3. QED
    BY <2>1, <2>2 DEF Absent
<1>7. QED
  BY <1>3, <1>4, <1>5, <1>6 DEF v

\* The broker answers.
LEMMA Answered ==
    ASSUME NEW u, NEW d \in Seq(Answers), NEW store, NEW log, NEW e \in Answers,
           Backed(u, d, store, log), Unique(u, d),
           e.cmd = "puback" => Got(log, e.n) /\ In(store, e.id, e.n) /\ Absent(u, d, e.id)
    PROVE  /\ Backed(u, Append(d, e), store, log) /\ Unique(u, Append(d, e))
           /\ \A id : Only(u, d, id) /\ (e.cmd = "puback" => e.id = id) => Only(u, Append(d, e), id)
<1> DEFINE v == Append(d, e)
<1>1. /\ Len(d) \in Nat /\ Len(v) = Len(d) + 1 /\ v[Len(d) + 1] = e
      /\ \A i \in 1..Len(d) : v[i] = d[i]
  BY AppendFacts
<1> HIDE DEF v
<1>2. \A i \in 1..Len(v) : i \in 1..Len(d) \/ i = Len(d) + 1
  BY <1>1
<1>3. Backed(u, v, store, log)
  BY <1>1, <1>2 DEF Backed
<1>4. Unique(u, v)
  <2>0. /\ e.cmd = "puback" => \A i \in 1..Len(d) : d[i].cmd = "puback" => d[i].id # e.id
        /\ e.cmd = "puback" => \A i \in 1..Len(u) : u[i].cmd = "publish" => u[i].id # e.id
    BY DEF Absent
  <2>1. ASSUME NEW i \in 1..Len(v), NEW j \in 1..Len(v),
               v[i].cmd = "puback", v[j].cmd = "puback", v[i].id = v[j].id
        PROVE  i = j
    <3>1. CASE i \in 1..Len(d) /\ j \in 1..Len(d)
      BY <1>1, <2>1, <3>1 DEF Unique
    <3>2. CASE i \in 1..Len(d) /\ j = Len(d) + 1
      BY <1>1, <2>0, <2>1, <3>2
    <3>3. CASE i = Len(d) + 1 /\ j \in 1..Len(d)
      BY <1>1, <2>0, <2>1, <3>3
    <3>4. QED
      BY <1>2, <3>1, <3>2, <3>3
  <2>2. ASSUME NEW i \in 1..Len(u), NEW j \in 1..Len(v),
               u[i].cmd = "publish", v[j].cmd = "puback"
        PROVE  u[i].id # v[j].id
    <3>1. CASE j \in 1..Len(d)
      BY <1>1, <2>2, <3>1 DEF Unique
    <3>2. CASE j = Len(d) + 1
      BY <1>1, <2>0, <2>2, <3>2
    <3>3. QED
      BY <1>2, <3>1, <3>2
  <2>3. QED
    BY <2>1, <2>2 DEF Unique
<1>5. \A id : Only(u, d, id) /\ (e.cmd = "puback" => e.id = id) => Only(u, v, id)
  BY <1>1, <1>2 DEF Only
<1>6. QED
  BY <1>3, <1>4, <1>5 DEF v

\* The broker records another publish.
LEMMA Logged ==
    ASSUME NEW u, NEW d, NEW store, NEW log \in Seq(Nat), NEW n \in Nat, NEW count
    PROVE  /\ Got(Append(log, n), n)
           /\ Backed(u, d, store, log) => Backed(u, d, store, Append(log, n))
           /\ AllKept(count, log, store) => AllKept(count, Append(log, n), store)
<1> DEFINE v == Append(log, n)
<1>1. /\ Len(log) \in Nat /\ Len(v) = Len(log) + 1 /\ v[Len(log) + 1] = n
      /\ \A i \in 1..Len(log) : v[i] = log[i]
  BY AppendFacts
<1> HIDE DEF v
<1>2. Len(log) + 1 \in 1..Len(v) /\ \A i \in 1..Len(log) : i \in 1..Len(v)
  BY <1>1
<1>3. Got(v, n) /\ \A m : Got(log, m) => Got(v, m)
  BY <1>1, <1>2 DEF Got
<1>4. QED
  BY <1>3 DEF Backed, AllKept, v

\* The client takes an acknowledgement and deletes its packet.
LEMMA Acknowledged ==
    ASSUME NEW u, NEW d \in Seq(Answers), NEW store \in Seq(Stores), NEW log, NEW count,
           d # <<>>, d[1].cmd = "puback", Distinct(store), AllKept(count, log, store),
           Backed(u, d, store, log), Unique(u, d)
    PROVE  /\ Backed(u, Tail(d), del(store, d[1].id), log) /\ Unique(u, Tail(d))
           /\ Distinct(del(store, d[1].id)) /\ AllKept(count, log, del(store, d[1].id))
           /\ \A id, n : id # d[1].id /\ In(store, id, n) => In(del(store, d[1].id), id, n)
           /\ Only(u, d, d[1].id) => Quiet(u, Tail(d))
<1> DEFINE v == Tail(d)
           s == del(store, d[1].id)
<1>1. /\ Len(d) \in Nat /\ Len(d) > 0 /\ Len(v) = Len(d) - 1
      /\ \A i \in 1..Len(v) : v[i] = d[i + 1] /\ i + 1 \in 2..Len(d)
  BY TailFacts
<1>2. /\ \A j \in 1..Len(store) : store[j].id # d[1].id => \E i \in 1..Len(s) : s[i] = store[j]
      /\ Distinct(s)
  <2>1. ASSUME NEW e
        PROVE  /\ \A j \in 1..Len(store) : store[j].id # e =>
                     \E i \in 1..Len(del(store, e)) : del(store, e)[i] = store[j]
               /\ Distinct(del(store, e))
    <3> HIDE DEF v, s
    <3>1. QED
      BY SMTT(30), DelFacts
  <2>2. QED
    BY <2>1
<1> HIDE DEF v, s
<1>3. /\ 1 \in 1..Len(d)
      /\ \A i \in 1..Len(v) : i + 1 \in 1..Len(d) /\ i + 1 # 1
      /\ \A i, j \in 1..Len(v) : i + 1 = j + 1 => i = j
  BY <1>1
<1>4. \A id, n : id # d[1].id /\ In(store, id, n) => In(s, id, n)
  <2>1. TAKE id, n
  <2>2. HAVE id # d[1].id /\ In(store, id, n)
  <2>3. PICK j \in 1..Len(store) : store[j].id = id /\ store[j].n = n
    BY <2>2 DEF In
  <2>4. PICK i \in 1..Len(s) : s[i] = store[j]
    BY <1>2, <2>2, <2>3
  <2>5. QED
    BY <2>3, <2>4 DEF In
<1>5. \A i \in 1..Len(u) : u[i].cmd = "publish" => u[i].id # d[1].id
  BY <1>3 DEF Unique
<1>6. \A i \in 1..Len(v) : v[i].cmd = "puback" => v[i].id # d[1].id
  BY <1>1, <1>3 DEF Unique
<1>7. Backed(u, v, s, log)
  <2>1. \A i \in 1..Len(u) : u[i].cmd = "publish" => In(s, u[i].id, u[i].n)
    BY <1>4, <1>5 DEF Backed
  <2>2. \A i \in 1..Len(v) :
           v[i].cmd = "puback" => Got(log, v[i].n) /\ In(s, v[i].id, v[i].n)
    <3>1. TAKE i \in 1..Len(v)
    <3>2. HAVE v[i].cmd = "puback"
    <3>3. Got(log, v[i].n) /\ In(store, v[i].id, v[i].n)
      BY <1>1, <1>3, <3>2 DEF Backed
    <3>4. QED
      BY <1>4, <1>6, <3>2, <3>3
  <2>3. QED
    BY <2>1, <2>2 DEF Backed
<1>8. Unique(u, v)
  <2>1. ASSUME NEW i \in 1..Len(v), NEW j \in 1..Len(v),
               v[i].cmd = "puback", v[j].cmd = "puback", v[i].id = v[j].id
        PROVE  i = j
    <3>1. d[i + 1].cmd = "puback" /\ d[j + 1].cmd = "puback" /\ d[i + 1].id = d[j + 1].id
      BY <1>1, <2>1
    <3>2. i + 1 = j + 1
      BY <1>3, <3>1 DEF Unique
    <3>3. QED
      BY <1>3, <3>2
  <2>2. ASSUME NEW i \in 1..Len(u), NEW j \in 1..Len(v),
               u[i].cmd = "publish", v[j].cmd = "puback"
        PROVE  u[i].id # v[j].id
    <3>1. j + 1 \in 1..Len(d) /\ d[j + 1].cmd = "puback"
      BY <1>1, <1>3, <2>2
    <3>2. QED
      BY <1>1, <2>2, <3>1 DEF Unique
  <2>3. QED
    BY <2>1, <2>2 DEF Unique
<1>9. AllKept(count, log, s)
  <2>1. SUFFICES ASSUME NEW n \in 1..count, NEW j \in 1..Len(store), store[j].n = n
                 PROVE  Got(log, n) \/ \E i \in 1..Len(s) : s[i].n = n
    BY DEF AllKept
  <2>2. CASE store[j].id # d[1].id
    BY <1>2, <2>1, <2>2
  <2>3. CASE store[j].id = d[1].id
    <3>1. Got(log, d[1].n) /\ In(store, d[1].id, d[1].n)
      BY <1>3 DEF Backed
    <3>2. store[j].n = d[1].n
      BY <2>3, <3>1 DEF In, Distinct
    <3>3. QED
      BY <2>1, <3>1, <3>2
  <2>4. QED
    BY <2>2, <2>3
<1>10. ASSUME Only(u, d, d[1].id) PROVE Quiet(u, v)
  <2>1. \A i \in 1..Len(u) : u[i].cmd # "publish"
    BY <1>5, <1>10 DEF Only
  <2>2. \A i \in 1..Len(v) : v[i].cmd = "puback" => v[i].id = d[1].id
    BY <1>1, <1>3, <1>10 DEF Only
  <2>3. QED
    BY <1>6, <2>1, <2>2 DEF Quiet
<1>11. QED
  BY <1>2, <1>4, <1>7, <1>8, <1>9, <1>10 DEF v, s

\* The page's next publish enters the store under an identifier that is not in it.
LEMMA Stored1 ==
    ASSUME NEW u, NEW d, NEW store \in Seq(Stores), NEW log, NEW count \in Nat,
           NEW p \in Stores, p.n = count + 1, Distinct(store), AllKept(count, log, store),
           \A i \in 1..Len(store) : store[i].id # p.id
    PROVE  /\ put(store, p) = Append(store, p)
           /\ Distinct(put(store, p)) /\ AllKept(count + 1, log, put(store, p))
           /\ \A id, n : In(store, id, n) => In(put(store, p), id, n) /\ id # p.id
           /\ In(put(store, p), p.id, p.n)
<1> DEFINE v == Append(store, p)
<1>1. put(store, p) = v
  BY DEF put
<1>2. /\ Len(store) \in Nat /\ Len(v) = Len(store) + 1 /\ v[Len(store) + 1] = p
      /\ \A i \in 1..Len(store) : v[i] = store[i]
  BY AppendFacts
<1> HIDE DEF v
<1>3. /\ \A i \in 1..Len(v) : i \in 1..Len(store) \/ i = Len(store) + 1
      /\ Len(store) + 1 \in 1..Len(v) /\ \A i \in 1..Len(store) : i \in 1..Len(v)
  BY <1>2
<1>4. Distinct(v)
  BY <1>2, <1>3 DEF Distinct
<1>5. AllKept(count + 1, log, v)
  <2>1. \A n \in 1..(count + 1) : n \in 1..count \/ n = count + 1
    OBVIOUS
  <2>2. QED
    BY <1>2, <1>3, <2>1 DEF AllKept
<1>6. \A id, n : In(store, id, n) => In(v, id, n) /\ id # p.id
  BY <1>2, <1>3 DEF In
<1>7. In(v, p.id, p.n)
  BY <1>2, <1>3 DEF In
<1>8. put(store, p) = Append(store, p)
  BY <1>1 DEF v
<1>9. QED
  BY <1>1, <1>4, <1>5, <1>6, <1>7, <1>8, Zenon

-----------------------------------------------------------------------------
(* The inductive invariant.                                                *)

\* Steps that leave no publish and no acknowledgement on its way.
LEMMA QuietStep ==
    ASSUME SafeInv, Quiet(up', down'), UNCHANGED <<outgoingStore, received, published>>,
           outStore' = <<>> \/ UNCHANGED <<outStore, awaited>>
    PROVE  SafeInv'
<1>1. /\ Backed(up', down', outgoingStore', received') /\ Unique(up', down')
      /\ Only(up', down', awaited')
  BY QuietFacts
<1>2. Rest(outStore', awaited', outgoingStore')
  <2>1. CASE outStore' = <<>>
    BY <2>1 DEF Rest, Distinct
  <2>2. CASE UNCHANGED <<outStore, awaited>>
    BY <2>2 DEF SafeInv
  <2>3. QED
    BY <2>1, <2>2
<1>3. QED
  BY <1>1, <1>2 DEF SafeInv

\* The replay writes its next packet when nothing else is on its way.
LEMMA DeliverStep ==
    ASSUME TypeOK, NEW packets \in Seq(Stores), NEW new, storeDeliver(packets, new),
           Quiet(up, down'), Distinct(packets),
           \A i \in 1..Len(packets) : In(outgoingStore', packets[i].id, packets[i].n)
    PROVE  /\ Backed(up', down', outgoingStore', received') /\ Unique(up', down')
           /\ Only(up', down', awaited') /\ Rest(outStore', awaited', outgoingStore')
<1>1. CASE packets = <<>>
  <2>1. up' = up /\ outStore' = <<>>
    BY <1>1 DEF storeDeliver
  <2>2. Rest(outStore', awaited', outgoingStore')
    BY <2>1 DEF Rest, Distinct
  <2>3. QED
    BY <2>1, <2>2, QuietFacts, Zenon
<1>2. CASE packets # <<>>
  <2> DEFINE p == Head(packets)
             e == Publish(p)
  <2>1. /\ p \in Stores /\ awaited' = p.id /\ outStore' = Tail(packets)
        /\ up' \in {up, Append(up, e)}
    BY <1>2, DeliverUp
  <2>2. e \in Sending /\ e.cmd = "publish" /\ e.id = p.id /\ e.n = p.n
    BY <2>1, PublishPacket
  <2>3. /\ Len(packets) \in Nat /\ Len(packets) > 0 /\ p = packets[1]
        /\ Len(outStore') = Len(packets) - 1
        /\ \A i \in 1..Len(outStore') : outStore'[i] = packets[i + 1] /\ i + 1 \in 2..Len(packets)
    BY <1>2, <2>1, TailFacts
  <2> HIDE DEF p, e
  <2>4. /\ 1 \in 1..Len(packets)
        /\ \A i \in 1..Len(outStore') : i + 1 \in 1..Len(packets) /\ i + 1 # 1
        /\ \A i, j \in 1..Len(outStore') : i + 1 = j + 1 => i = j
    BY <2>3
  <2>5. In(outgoingStore', e.id, e.n)
    BY <2>2, <2>3, <2>4
  <2>6. /\ Backed(up', down', outgoingStore', received') /\ Unique(up', down')
        /\ Only(up', down', awaited')
    <3>1. CASE up' = up
      BY <3>1, QuietFacts
    <3>2. CASE up' = Append(up, e)
      <4>1. up \in Seq(Sending)
        BY Lengths
      <4>2. /\ Backed(Append(up, e), down', outgoingStore', received')
            /\ Unique(Append(up, e), down') /\ Only(Append(up, e), down', e.id)
        BY <2>2, <2>5, <4>1, OnePublish
      <4>3. awaited' = e.id
        BY <2>1, <2>2
      <4>4. QED
        BY <3>2, <4>2, <4>3
    <3>3. QED
      BY <2>1, <3>1, <3>2
  <2>7. \A i \in 1..Len(outStore') :
           In(outgoingStore', outStore'[i].id, outStore'[i].n) /\ outStore'[i].id # awaited'
    <3>1. TAKE i \in 1..Len(outStore')
    <3>2. In(outgoingStore', outStore'[i].id, outStore'[i].n)
      BY <2>3, <2>4
    <3>3. packets[i + 1].id # packets[1].id
      BY <2>4 DEF Distinct
    <3>4. QED
      BY <2>1, <2>3, <3>2, <3>3
  <2>8. ASSUME NEW i \in 1..Len(outStore'), NEW j \in 1..Len(outStore'),
               outStore'[i].id = outStore'[j].id
        PROVE  i = j
    <3>1. packets[i + 1].id = packets[j + 1].id
      BY <2>3, <2>8
    <3>2. i + 1 = j + 1
      BY <2>4, <3>1 DEF Distinct
    <3>3. QED
      BY <2>4, <3>2
  <2>9. QED
    BY <2>6, <2>7, <2>8 DEF Rest, Distinct
<1>3. QED
  BY <1>1, <1>2

\* A packet is in the store that it is in.
LEMMA Self ==
    ASSUME NEW store
    PROVE  \A i \in 1..Len(store) : In(store, store[i].id, store[i].n)
  BY DEF In

\* While nothing is awaited the replay has nothing on its way.
LEMMA NothingAwaited ==
    ASSUME TypeOK, Backed(up, down, outgoingStore, received), Only(up, down, 0)
    PROVE  Quiet(up, down)
<1>1. \A i \in 1..Len(outgoingStore) : outgoingStore[i].id # 0
  <2>1. outgoingStore \in Seq(Stores) /\ \A p \in Stores : p.id # 0
    BY DEF TypeOK, Stores
  <2>2. QED
    BY <2>1
<1>2. \A n : ~In(outgoingStore, 0, n)
  BY <1>1 DEF In
<1>3. QED
  BY <1>2 DEF Backed, Only, Quiet

\* The page publishes.
LEMMA PublishStep ==
    ASSUME TypeOK, PhaseInv, SafeInv, Publishing, ~reused'
    PROVE  SafeInv'
<1>1. /\ New \in Stores /\ up' \in {up, Append(up, Publish(New))} /\ published' = published + 1
      /\ (storeProcessing \/ ~connected => up' = up)
      /\ UNCHANGED <<storeProcessing, outStore, awaited, down, received>>
  BY PublishTypes DEF Publishing
<1>2. outgoingStore' = put(outgoingStore, New)
  BY DEF Publishing, publish, Kept, New
<1>3. New.id = nextId /\ New.n = published + 1 /\ published \in Nat
  BY DEF New, TypeOK
<1>4. \A i \in 1..Len(outgoingStore) : outgoingStore[i].id # New.id
  <2>1. reused' = (reused \/ \E i \in 1..Len(outgoingStore) : outgoingStore[i].id = New.id)
    BY DEF Publishing, publish, New
  <2>2. QED
    BY <2>1, Zenon
<1>5. outgoingStore \in Seq(Stores) /\ up \in Seq(Sending)
  BY DEF TypeOK, Stores, Sending
<1> DEFINE p == New
           e == Publish(New)
<1>6. e \in Sending /\ e.cmd = "publish" /\ e.id = p.id /\ e.n = p.n
  BY <1>1, PublishPacket
<1> HIDE DEF p, e
<1>7. /\ Distinct(outgoingStore') /\ AllKept(published', received', outgoingStore')
      /\ \A id, n : In(outgoingStore, id, n) => In(outgoingStore', id, n) /\ id # p.id
      /\ In(outgoingStore', p.id, p.n)
  <2>1. Distinct(outgoingStore) /\ AllKept(published, received, outgoingStore)
    BY DEF SafeInv
  <2>2. /\ p \in Stores /\ p.n = published + 1
        /\ \A i \in 1..Len(outgoingStore) : outgoingStore[i].id # p.id
        /\ outgoingStore' = put(outgoingStore, p)
    BY <1>1, <1>2, <1>3, <1>4 DEF p
  <2>3. QED
    BY <1>1, <1>3, <1>5, <2>1, <2>2, Stored1
<1>8. /\ Backed(up, down, outgoingStore', received) /\ Unique(up, down)
      /\ Absent(up, down, p.id)
  BY <1>7 DEF SafeInv, Backed, Absent
<1>9. Rest(outStore', awaited', outgoingStore')
  BY <1>1, <1>7 DEF SafeInv, Rest
<1>10. CASE up' = up
  BY <1>1, <1>7, <1>8, <1>9, <1>10 DEF SafeInv
<1>11. CASE ~storeProcessing /\ up' = Append(up, e)
  <2>1. Backed(up', down, outgoingStore', received) /\ Unique(up', down)
    BY <1>5, <1>6, <1>7, <1>8, <1>11, MorePublish
  <2>2. QED
    BY <1>1, <1>7, <1>9, <1>11, <2>1 DEF SafeInv
<1>12. QED
  BY <1>1, <1>10, <1>11 DEF e

\* The acknowledgement is handled.
LEMMA AckStep ==
    ASSUME TypeOK, PhaseInv, SafeInv, handleAck
    PROVE  SafeInv'
<1>1. /\ down # <<>> /\ Head(down).cmd = "puback" /\ down' = Tail(down)
      /\ outgoingStore' = del(outgoingStore, Head(down).id)
      /\ UNCHANGED <<storeProcessing, received, published>>
  BY DEF handleAck
<1>2. Head(down) = down[1] /\ 1 \in 1..Len(down) /\ down \in Seq(Answers)
  BY <1>1, DownFacts, Lengths
<1>3. outgoingStore \in Seq(Stores) /\ outStore \in Seq(Stores)
  BY DEF TypeOK, Stores
<1> DEFINE id == down[1].id
<1>4. /\ Backed(up, down', outgoingStore', received') /\ Unique(up, down')
      /\ Distinct(outgoingStore') /\ AllKept(published', received', outgoingStore')
      /\ \A k, n : k # id /\ In(outgoingStore, k, n) => In(outgoingStore', k, n)
      /\ Only(up, down, id) => Quiet(up, down')
  <2>1. /\ Distinct(outgoingStore) /\ AllKept(published, received, outgoingStore)
        /\ Backed(up, down, outgoingStore, received) /\ Unique(up, down)
    BY DEF SafeInv
  <2>2. outgoingStore' = del(outgoingStore, down[1].id) /\ down[1].cmd = "puback"
    BY <1>1, <1>2
  <2>3. QED
    BY <1>1, <1>2, <1>3, <2>1, <2>2, Acknowledged
<1>5. CASE storeProcessing
  <2>1. awaited = id /\ Only(up, down, id)
    BY <1>1, <1>2, <1>5 DEF SafeInv, Only
  <2>2. storeDeliver(outStore, fresh) /\ Quiet(up, down')
    BY <1>2, <1>4, <2>1 DEF handleAck
  <2>3. Distinct(outStore) /\
        \A i \in 1..Len(outStore) : In(outgoingStore', outStore[i].id, outStore[i].n)
    BY <1>4, <2>1 DEF SafeInv, Rest
  <2>4. /\ Backed(up', down', outgoingStore', received') /\ Unique(up', down')
        /\ Only(up', down', awaited') /\ Rest(outStore', awaited', outgoingStore')
    BY <1>3, <2>2, <2>3, DeliverStep
  <2>5. QED
    BY <1>4, <2>4 DEF SafeInv
<1>6. CASE ~storeProcessing
  <2>1. awaited = 0 /\ outStore = <<>>
    BY <1>6 DEF PhaseInv
  <2>2. id # 0
    <3>1. In(outgoingStore, id, down[1].n)
      BY <1>1, <1>2 DEF SafeInv, Backed
    <3>2. \A p \in Stores : p.id # 0
      BY DEF Stores
    <3>3. QED
      BY <1>3, <3>1, <3>2 DEF In
  <2>3. up' = up /\ outStore' = <<>>
    BY <1>2, <2>1, <2>2 DEF handleAck
  <2>4. Rest(outStore', awaited', outgoingStore')
    BY <2>3 DEF Rest, Distinct
  <2>5. QED
    BY <1>1, <1>4, <1>6, <2>3, <2>4 DEF SafeInv
<1>7. QED
  BY <1>5, <1>6

\* The broker takes a packet and answers it.
LEMMA BrokerStep ==
    ASSUME TypeOK, SafeInv, Broker
    PROVE  SafeInv'
<1> DEFINE p == Head(up)
           a == Packet("connack")
           b == [p EXCEPT !.cmd = "puback"]
<1>1. /\ up # <<>> /\ up' = Tail(up)
      /\ UNCHANGED <<outgoingStore, storeProcessing, outStore, awaited, published>>
      /\ p.cmd = "publish" => received' = Append(received, p.n) /\ down' = Append(down, b)
      /\ p.cmd # "publish" => received' = received /\ down' \in {down, Append(down, a)}
  BY DEF Broker, client
<1>2. up \in Seq(Sending) /\ down \in Seq(Answers) /\ received \in Seq(Nat)
  BY Lengths DEF TypeOK
<1>3. p = up[1] /\ p \in Sending /\ 1 \in 1..Len(up)
  BY <1>1, <1>2, TailFacts
<1>4. /\ p.n \in Nat /\ b \in Answers /\ b.cmd = "puback" /\ b.id = p.id /\ b.n = p.n
      /\ a \in Answers /\ a.cmd = "connack"
  BY <1>3 DEF Sending, Answers, Packets, Packet
<1> HIDE DEF p, a, b
<1>5. /\ Backed(up', down, outgoingStore, received) /\ Unique(up', down)
      /\ \A id : Only(up, down, id) => Only(up', down, id)
      /\ p.cmd = "publish" => Absent(up', down, p.id)
  <2>1. Backed(up, down, outgoingStore, received) /\ Unique(up, down)
    BY DEF SafeInv
  <2>2. QED
    BY <1>1, <1>2, <1>3, <2>1, TailUp
<1>6. CASE p.cmd = "publish"
  <2>1. In(outgoingStore, p.id, p.n) /\ (storeProcessing => p.id = awaited)
    BY <1>3, <1>6 DEF SafeInv, Backed, Only
  <2>2. /\ Got(received', p.n) /\ Backed(up', down, outgoingStore, received')
        /\ AllKept(published, received', outgoingStore)
    <3>1. received' = Append(received, p.n) /\ AllKept(published, received, outgoingStore)
      BY <1>1, <1>6 DEF SafeInv
    <3>2. Got(Append(received, p.n), p.n)
      BY <1>2, <1>4, Logged, Zenon
    <3>3. Backed(up', down, outgoingStore, Append(received, p.n))
      BY <1>2, <1>4, <1>5, Logged, Zenon
    <3>4. AllKept(published, Append(received, p.n), outgoingStore)
      BY <1>2, <1>4, <3>1, Logged, Zenon
    <3>5. QED
      BY <3>1, <3>2, <3>3, <3>4
  <2>3. /\ Backed(up', down', outgoingStore, received') /\ Unique(up', down')
        /\ \A id : Only(up', down, id) /\ b.id = id => Only(up', down', id)
    <3>1. Absent(up', down, b.id) /\ Got(received', b.n) /\ In(outgoingStore, b.id, b.n)
      BY <1>4, <1>5, <1>6, <2>1, <2>2
    <3>2. down' = Append(down, b)
      BY <1>1, <1>6
    <3>3. /\ Backed(up', Append(down, b), outgoingStore, received')
          /\ Unique(up', Append(down, b))
          /\ \A id : Only(up', down, id) /\ (b.cmd = "puback" => b.id = id)
                        => Only(up', Append(down, b), id)
      BY <1>2, <1>4, <1>5, <2>2, <3>1, Answered, Zenon
    <3>4. QED
      BY <3>2, <3>3
  <2>4. storeProcessing => Only(up', down', awaited)
    BY <1>4, <1>5, <2>1, <2>3 DEF SafeInv
  <2>5. QED
    BY <1>1, <2>2, <2>3, <2>4 DEF SafeInv
<1>7. CASE p.cmd # "publish"
  <2>1. received' = received /\ down' \in {down, Append(down, a)}
    BY <1>1, <1>7
  <2>2. /\ Backed(up', down', outgoingStore, received) /\ Unique(up', down')
        /\ \A id : Only(up', down, id) => Only(up', down', id)
    <3>1. CASE down' = down
      BY <1>5, <3>1
    <3>2. CASE down' = Append(down, a)
      BY <1>2, <1>4, <1>5, <3>2, Answered
    <3>3. QED
      BY <2>1, <3>1, <3>2
  <2>3. QED
    BY <1>1, <1>5, <2>1, <2>2 DEF SafeInv
<1>8. QED
  BY <1>6, <1>7

\* Sending the queue adds no publish.
LEMMA QueueQuiet ==
    ASSUME TypeOK, Quiet(up, down)
    PROVE  Quiet(Written(queue), down)
<1>1. up \in Seq(Sending) /\ Len(up) \in Nat
  BY Lengths
<1>2. /\ queue \in Seq(Sending) /\ Len(queue) \in Nat
      /\ \A i \in 1..Len(queue) : queue[i].cmd = "subscribe"
  <2> DEFINE S == Packets({"subscribe"})
  <2>1. queue \in Seq(S) /\ S \subseteq Sending /\ \A q \in S : q.cmd = "subscribe"
    BY DEF TypeOK, Packets, Sending
  <2> HIDE DEF S
  <2>2. QED
    BY <2>1
<1>3. /\ Len(up \o queue) = Len(up) + Len(queue)
      /\ \A i \in 1..(Len(up) + Len(queue)) :
            (up \o queue)[i] = IF i <= Len(up) THEN up[i] ELSE queue[i - Len(up)]
  BY <1>1, <1>2
<1>4. ASSUME NEW i \in 1..(Len(up) + Len(queue)) PROVE (up \o queue)[i].cmd # "publish"
  <2>1. CASE i <= Len(up)
    BY <1>1, <1>3, <2>1 DEF Quiet
  <2>2. CASE ~(i <= Len(up))
    <3>1. i - Len(up) \in 1..Len(queue)
      BY <1>1, <1>2, <2>2
    <3>2. QED
      BY <1>2, <1>3, <2>2, <3>1
  <2>3. QED
    BY <2>1, <2>2
<1>5. Quiet(up \o queue, down)
  BY <1>3, <1>4 DEF Quiet
<1>6. QED
  BY <1>5 DEF Written

\* Every step preserves the safety part.
LEMMA SafeStep ==
    ASSUME TypeOK, PhaseInv, SafeInv, [Next]_vars, ~reused'
    PROVE  SafeInv'
<1>0. outgoingStore \in Seq(Stores)
  BY DEF TypeOK, Stores
<1>1. CASE Publishing
  BY <1>1, PublishStep
<1>2. CASE Closing
  <2>1. /\ up' = <<>> /\ down' = <<>> /\ outStore' = <<>>
        /\ UNCHANGED <<outgoingStore, received, published>>
    BY <1>2 DEF Closing, Close
  <2>2. Quiet(up', down')
    BY <2>1 DEF Quiet
  <2>3. QED
    BY <2>1, <2>2, QuietStep
<1>3. CASE onHide
  BY <1>3 DEF onHide, SafeInv, client, net
<1>4. CASE onConnect
  <2>1. /\ down # <<>> /\ Head(down).cmd = "connack" /\ down' = Tail(down)
        /\ storeDeliver(outgoingStore, {}) /\ UNCHANGED <<outgoingStore, received, published>>
    BY <1>4 DEF onConnect
  <2>2. up = <<>> /\ down' = <<>>
    BY <2>1, DownPhase
  <2>3. Quiet(up, down')
    BY <2>2 DEF Quiet
  <2>4. /\ Distinct(outgoingStore)
        /\ \A i \in 1..Len(outgoingStore) :
              In(outgoingStore', outgoingStore[i].id, outgoingStore[i].n)
    BY <2>1, Self DEF SafeInv
  <2>5. /\ Backed(up', down', outgoingStore', received') /\ Unique(up', down')
        /\ Only(up', down', awaited') /\ Rest(outStore', awaited', outgoingStore')
    BY <1>0, <2>1, <2>3, <2>4, DeliverStep
  <2>6. QED
    BY <2>1, <2>5 DEF SafeInv
<1>5. CASE handleAck
  BY <1>5, AckStep
<1>6. CASE EndOfStore
  <2>1. /\ storeProcessing /\ awaited = 0 /\ outStore = <<>> /\ down' = down
        /\ UNCHANGED <<outgoingStore, received, published>>
    BY <1>6 DEF EndOfStore
  <2>2. Quiet(up, down')
    <3>1. Backed(up, down, outgoingStore, received) /\ Only(up, down, 0)
      BY <2>1 DEF SafeInv
    <3>2. QED
      BY <2>1, <3>1, NothingAwaited
  <2>3. CASE fresh = {}
    <3>1. up' = Written(queue) /\ UNCHANGED <<outStore, awaited>>
      BY <1>6, <2>3 DEF EndOfStore
    <3>2. Quiet(up', down')
      BY <2>1, <2>2, <3>1, QueueQuiet
    <3>3. QED
      BY <2>1, <3>1, <3>2, QuietStep
  <2>4. CASE fresh # {}
    <3>1. storeDeliver(outgoingStore, fresh)
      BY <1>6, <2>4, Zenon DEF EndOfStore
    <3>2. /\ Distinct(outgoingStore)
          /\ \A i \in 1..Len(outgoingStore) :
                In(outgoingStore', outgoingStore[i].id, outgoingStore[i].n)
      BY <2>1, Self DEF SafeInv
    <3>3. /\ Backed(up', down', outgoingStore', received') /\ Unique(up', down')
          /\ Only(up', down', awaited') /\ Rest(outStore', awaited', outgoingStore')
      BY <1>0, <2>2, <3>1, <3>2, DeliverStep
    <3>4. QED
      BY <2>1, <3>3 DEF SafeInv
  <2>5. QED
    BY <2>3, <2>4
<1>7. CASE reconnect
  <2>1. /\ link = "none" /\ up' = <<Packet("connect")>> /\ down' = down
        /\ UNCHANGED <<outgoingStore, received, published, outStore, awaited>>
    BY <1>7 DEF reconnect, PhaseInv
  <2>2. down' = <<>>
    BY <2>1 DEF PhaseInv
  <2>3. Quiet(up', down')
    BY <2>1, <2>2 DEF Quiet, Packet
  <2>4. QED
    BY <2>1, <2>3, QuietStep
<1>8. CASE Broker
  BY <1>8, BrokerStep
<1>9. CASE Die
  <2>1. /\ up' = <<>> /\ down' = <<>>
        /\ UNCHANGED <<outgoingStore, received, published, outStore, awaited>>
    BY <1>9 DEF Die, client
  <2>2. Quiet(up', down')
    BY <2>1 DEF Quiet
  <2>3. QED
    BY <2>1, <2>2, QuietStep
<1>10. CASE UNCHANGED vars
  BY <1>10 DEF vars, client, net, SafeInv
<1>11. QED
  BY <1>1, <1>2, <1>3, <1>4, <1>5, <1>6, <1>7, <1>8, <1>9, <1>10, Cases

\* Once an identifier was reused it stays so.
LEMMA ReusedStays ==
    ASSUME TypeOK, [Next]_vars, reused
    PROVE  reused'
<1>1. CASE Publishing
  <2>1. reused' = (reused \/ \E i \in 1..Len(outgoingStore) : outgoingStore[i].id = New.id)
    BY <1>1 DEF Publishing, publish, New
  <2>2. QED
    BY <2>1, Zenon
<1>2. CASE Closing
  BY <1>2 DEF Closing, Close
<1>3. CASE onHide
  BY <1>3 DEF onHide
<1>4. CASE onConnect
  BY <1>4 DEF onConnect
<1>5. CASE handleAck
  BY <1>5 DEF handleAck
<1>6. CASE EndOfStore
  BY <1>6 DEF EndOfStore
<1>7. CASE reconnect
  BY <1>7 DEF reconnect
<1>8. CASE Broker
  BY <1>8 DEF Broker
<1>9. CASE Die
  BY <1>9 DEF Die
<1>10. CASE UNCHANGED vars
  BY <1>10 DEF vars
<1>11. QED
  BY <1>1, <1>2, <1>3, <1>4, <1>5, <1>6, <1>7, <1>8, <1>9, <1>10, Cases

\* The invariant holds at first.
LEMMA Start ==
    ASSUME Init
    PROVE  IInv
<1>1. TypeOK
  <2>1. /\ outgoingStore \in Seq([id : 1..MaxId, n : 1..MaxPublish])
        /\ outStore \in Seq([id : 1..MaxId, n : 1..MaxPublish])
        /\ down \in Seq(Packets({"connack", "puback"}))
        /\ received \in Seq(Nat) /\ sent \in Seq(1..MaxPublish)
    <3>1. \A S : <<>> \in Seq(S)
      OBVIOUS
    <3>2. QED
      BY <3>1 DEF Init
  <2>2. queue \in Seq(Packets({"subscribe"}))
    <3>1. Packet("subscribe") \in Packets({"subscribe"})
      BY DEF Packet, Packets
    <3>2. QED
      BY <3>1 DEF Init
  <2>3. up \in Seq(Packets({"connect", "subscribe", "publish"}))
    <3>1. Packet("connect") \in Packets({"connect", "subscribe", "publish"})
      BY DEF Packet, Packets
    <3>2. QED
      BY <3>1 DEF Init
  <2>4. awaited \in 0..MaxId /\ published \in 0..MaxPublish /\ faults \in 0..MaxFault
    BY BoundAssumption DEF Init
  <2>5. /\ page \in {"hidden", "shown", "closed"} /\ link \in {"none", "open", "dead"}
        /\ connected \in BOOLEAN /\ firstConnection \in BOOLEAN /\ reconnectTimer \in BOOLEAN
        /\ storeProcessing \in BOOLEAN /\ subscribed \in BOOLEAN /\ reused \in BOOLEAN
        /\ nextId \in 1..MaxId /\ fresh \subseteq 1..MaxId
    <3>1. /\ page = "hidden" /\ link = "open" /\ nextId \in 1..MaxId /\ fresh = {}
          /\ connected = FALSE /\ firstConnection = TRUE /\ reconnectTimer = FALSE
          /\ storeProcessing = FALSE /\ subscribed = FALSE /\ reused = FALSE
      BY DEF Init
    <3>2. QED
      BY <3>1
  <2>6. QED
    BY <2>1, <2>2, <2>3, <2>4, <2>5 DEF TypeOK
<1>2. PhaseInv
  <2>1. Len(up) = 1 /\ up[1].cmd = "connect" /\ Len(down) = 0
    BY DEF Init, Packet
  <2>2. QED
    BY <2>1 DEF Init, PhaseInv
<1>3. Quiet(up, down)
  BY DEF Init, Quiet, Packet
<1>4. Backed(up, down, outgoingStore, received) /\ Unique(up, down) /\ Only(up, down, awaited)
  BY <1>3, QuietFacts
<1>5. /\ Distinct(outgoingStore) /\ AllKept(published, received, outgoingStore)
      /\ Rest(outStore, awaited, outgoingStore)
  BY DEF Init, Distinct, AllKept, Rest
<1>6. QED
  BY <1>1, <1>2, <1>4, <1>5 DEF IInv, SafeInv

\* The invariant is inductive.
THEOREM Invariant == Spec => []IInv
<1>1. Init => IInv
  BY Start
<1>2. IInv /\ [Next]_vars => IInv'
  <2>1. SUFFICES ASSUME IInv, [Next]_vars PROVE IInv'
    OBVIOUS
  <2>2. TypeOK /\ PhaseInv /\ (~reused => SafeInv)
    BY <2>1 DEF IInv
  <2>3. TypeOK'
    BY <2>1, <2>2, TypeStep
  <2>4. PhaseInv'
    BY <2>1, <2>2, PhaseStep
  <2>5. ~reused' => SafeInv'
    BY <2>1, <2>2, SafeStep, ReusedStays
  <2>6. QED
    BY <2>3, <2>4, <2>5 DEF IInv
<1>3. QED
  BY <1>1, <1>2, PTL DEF Spec

\* Every variable keeps its type.
THEOREM TypeCorrect == Spec => []TypeOK
<1>1. IInv => TypeOK
  BY DEF IInv
<1>2. QED
  BY <1>1, Invariant, PTL

\* A publish is in the store until the broker has it, for any number of identifiers,
\* publishes and broken connections, as long as no identifier is reused too early.
THEOREM NothingIsLost == Spec => []KeptUntilReceived
<1>1. IInv => KeptUntilReceived
  BY DEF IInv, SafeInv, AllKept, Got, KeptUntilReceived, Received, Stored
<1>2. QED
  BY <1>1, Invariant, PTL
=============================================================================
