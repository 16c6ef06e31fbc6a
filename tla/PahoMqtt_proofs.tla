--------------------------- MODULE PahoMqtt_proofs --------------------------
(***************************************************************************)
(* Safety of the device's MQTT client for every set of commands, every     *)
(* size of the pipe and every length of the payloads; and the timing of    *)
(* its loop: for every keep-alive interval above ten seconds and every     *)
(* time that sending takes, a dead link is given up in time wherever       *)
(* select has a timeout, and a live link is not left silent, unless a      *)
(* packet kept the worker busy when the time for a PINGREQ came.           *)
(***************************************************************************)
EXTENDS PahoMqtt, KeepAlive, TLAPS

-----------------------------------------------------------------------------
(* The inductive invariant.                                                *)

\* The acknowledgements of a connection, from its beginning.
AckInv ==
    /\ AckAfterExecute
    /\ pc \in {"connect", "subscribe"} => acked = Len(executed)

\* The records are numbered by MQTTPublish; those in the pipe come after those sent.
PipeInv ==
    /\ \A i \in 1..Len(sent) : sent[i] <= published
    /\ \A i \in 1..Len(pipe) : pipe[i].id <= published
    /\ \A i, j \in 1..Len(pipe) : i < j => pipe[i].id < pipe[j].id
    /\ \A i \in 1..Len(sent), j \in 1..Len(pipe) : sent[i] < pipe[j].id
    /\ SentInOrder

IInv == TypeOK /\ ConnectedFlag /\ AckInv /\ PipeInv

-----------------------------------------------------------------------------
(* Lemmas.                                                                 *)

\* What is published is a payload, and it has a length.
LEMMA PublishedPayload ==
    /\ Online \in Payload
    /\ \A c \in Command : Reply[c] # NoReply => Reply[c] \in Payload
    /\ \A p \in Payload : msg_len(p) \in Nat
  BY NoReplyAssumption, ReplyAssumption, LenAssumption DEF Payload, msg_len

\* MQTTPublish of a record that fits keeps the types of the pipe and of the counter.
LEMMA PublishTypes ==
    ASSUME TypeOK, NEW p, p # NoReply => p \in Payload, Fits(p), MQTTPublish(p)
    PROVE  /\ pipe' \in Seq([id : Nat, payload : Payload])
           /\ pipe_len' \in 0..PIPE_BUFSZ /\ published' \in Nat
<1>1. CASE Publishes(p)
  <2>1. p \in Payload /\ msg_len(p) \in Nat
    BY <1>1, PublishedPayload DEF Publishes
  <2>2. /\ pipe' = Append(pipe, [id |-> published + 1, payload |-> p])
        /\ pipe_len' = pipe_len + msg_len(p) /\ published' = published + 1
    BY <1>1 DEF MQTTPublish
  <2>3. pipe' \in Seq([id : Nat, payload : Payload])
    BY <2>1, <2>2 DEF TypeOK
  <2>4. pipe_len' \in 0..PIPE_BUFSZ /\ published' \in Nat
    BY SMTT(30), <1>1, <2>1, <2>2, PipeAssumption DEF TypeOK, Fits
  <2>5. QED
    BY <2>3, <2>4
<1>2. CASE ~Publishes(p)
  BY <1>2 DEF MQTTPublish, TypeOK, queues
<1>3. QED
  BY <1>1, <1>2

\* A sent packet is a packet.
LEMMA SendType ==
    ASSUME TypeOK, NEW q \in Packet, Send(q)
    PROVE  tx' \in Seq(Packet)
  BY DEF Send, TypeOK

\* The empty sequence has any type.
LEMMA EmptySeq == \A S : <<>> \in Seq(S)
  OBVIOUS

\* The head and the tail of a sequence.
LEMMA TailSeq ==
    ASSUME NEW S, NEW s \in Seq(S), s # <<>>
    PROVE  Head(s) \in S /\ Tail(s) \in Seq(S)
  OBVIOUS

\* Two sequences one after the other.
LEMMA ConcatSeq ==
    ASSUME NEW S, NEW s \in Seq(S), NEW t \in Seq(S)
    PROVE  s \o t \in Seq(S)
  OBVIOUS

\* Sequences of one and of two elements.
LEMMA ShortSeq ==
    ASSUME NEW S, NEW x \in S, NEW y \in S
    PROVE  <<x>> \in Seq(S) /\ <<x, y>> \in Seq(S)
  OBVIOUS

\* One more element at the end.
LEMMA AppendSeq ==
    ASSUME NEW S, NEW s \in Seq(S), NEW x
    PROVE  /\ Len(s) \in Nat /\ Len(Append(s, x)) = Len(s) + 1
           /\ Append(s, x)[Len(s) + 1] = x
           /\ \A i \in 1..Len(s) : Append(s, x)[i] = s[i] /\ s[i] \in S
  OBVIOUS

\* The records in the pipe are numbered.
LEMMA PipeIds ==
    ASSUME TypeOK
    PROVE  \A i \in 1..Len(pipe) : pipe[i].id \in Nat
<1>1. pipe \in Seq([id : Nat, payload : Payload])
  BY DEF TypeOK
<1>2. \A i \in 1..Len(pipe) : pipe[i] \in [id : Nat, payload : Payload]
  BY ZenonT(20), <1>1, AppendSeq
<1>3. QED
  BY <1>2

\* The broker takes a packet and answers with others.
LEMMA AnswerTypes ==
    ASSUME TypeOK, tx # <<>>, NEW s \in Seq(Control \cup Command), Answer(s)
    PROVE  rx' \in Seq(Control \cup Command) /\ tx' \in Seq(Packet)
<1>1. rx \in Seq(Control \cup Command) /\ tx \in Seq(Packet)
  BY DEF TypeOK
<1>2. QED
  BY <1>1, TailSeq, ConcatSeq DEF Answer

\* Every answer of the broker is a sequence of packets.
LEMMA AnswerSeqs ==
    /\ \A q \in Control : <<q>> \in Seq(Control \cup Command)
    /\ \A c \in Command : <<c, "SUBACK">> \in Seq(Control \cup Command)
<1>1. "SUBACK" \in Control \cup Command
  BY DEF Control
<1>2. QED
  BY <1>1, ShortSeq

\* A bound that is not used up is not exceeded by the next use.
LEMMA CountUp ==
    /\ Fault /\ TypeOK => faults' \in 0..MaxFaults
    /\ \A n \in 0..MaxCommands : n < MaxCommands => n + 1 \in 0..MaxCommands
    /\ \A n \in 0..MaxFaults : n < MaxFaults => n + 1 \in 0..MaxFaults
  BY SMTT(30), LimitAssumption DEF Fault, TypeOK

-----------------------------------------------------------------------------
(* Every step keeps every part of the invariant.                           *)

\* The types.
LEMMA TypeStep ==
    ASSUME IInv, [Next]_vars
    PROVE  TypeOK'
<1> USE DEF IInv, TypeOK, queues, session, bounds
<1>1. CASE ConnectCallback
  BY <1>1 DEF ConnectCallback
<1>2. CASE NetConnect
  <2>0. <<"CONNECT">> \in Seq(Packet)
    BY ShortSeq DEF Packet
  <2>1. tx' \in Seq(Packet) /\ forwarded' \in Seq(Command) /\ executed' \in Seq(Command)
    BY ZenonT(20), <1>2, <2>0, EmptySeq DEF NetConnect
  <2>2. faults' \in 0..MaxFaults /\ acked' \in Nat
    BY SMTT(30), <1>2, LimitAssumption DEF NetConnect
  <2>3. QED
    BY ZenonT(20), <1>2, <2>1, <2>2 DEF NetConnect
<1>3. CASE Connack
  <2>1. CASE Disconnect
    BY ZenonT(20), <1>3, <2>1, EmptySeq DEF Connack, Disconnect
  <2>2. CASE /\ isconnected' = TRUE /\ rx' = Tail(rx) /\ Send("SUBSCRIBE")
             /\ pc' = "subscribe" /\ UNCHANGED link
    <3>1. tx' \in Seq(Packet)
      BY <2>2, SendType DEF Packet
    <3>2. QED
      BY <1>3, <2>2, <3>1 DEF Connack
  <2>3. QED
    BY ZenonT(20), <1>3, <2>1, <2>2 DEF Connack, SendFails
<1>4. CASE Suback
  <2>1. CASE Disconnect /\ UNCHANGED queues
    BY ZenonT(20), <1>4, <2>1, EmptySeq DEF Suback, Disconnect
  <2>2. CASE Fits(Online) /\ MQTTPublish(Online) /\ rx' = Tail(rx) /\ pc' = "loop"
             /\ UNCHANGED <<isconnected, link, tx>>
    <3>1. /\ pipe' \in Seq([id : Nat, payload : Payload])
          /\ pipe_len' \in 0..PIPE_BUFSZ /\ published' \in Nat
      BY ZenonT(20), <2>2, PublishTypes, PublishedPayload
    <3>2. QED
      BY <1>4, <2>2, <3>1 DEF Suback
  <2>3. CASE WriteBlocks /\ rx' = Tail(rx) /\ UNCHANGED <<isconnected, link, tx>>
    BY <1>4, <2>3, PipeAssumption DEF Suback, WriteBlocks
  <2>4. QED
    BY <1>4, <2>1, <2>2, <2>3 DEF Suback
<1>5. CASE CycleControl
  BY <1>5 DEF CycleControl
<1>6. CASE CycleCommand
  <2> DEFINE c == Head(rx)
  <2>1. c \in Command /\ executed' = Append(executed, c) /\ executed' \in Seq(Command)
    BY <1>6 DEF CycleCommand
  <2>2. Reply[c] # NoReply => Reply[c] \in Payload
    BY <2>1, PublishedPayload
  <2>3. UNCHANGED <<sent, forwarded, bounds>>
    BY <1>6 DEF CycleCommand
  <2>4. CASE Fits(Reply[c]) /\ MQTTPublish(Reply[c])
    <3>1. /\ pipe' \in Seq([id : Nat, payload : Payload])
          /\ pipe_len' \in 0..PIPE_BUFSZ /\ published' \in Nat
      BY ZenonT(20), <2>2, <2>4, PublishTypes
    <3>2. CASE Disconnect /\ UNCHANGED acked
      BY ZenonT(20), <2>1, <2>3, <3>1, <3>2, EmptySeq DEF Disconnect
    <3>3. CASE /\ Send("PUBACK") /\ acked' = acked + 1 /\ pc' = "loop"
               /\ rx' = Tail(rx) /\ UNCHANGED <<isconnected, link>>
      <4>1. tx' \in Seq(Packet)
        BY <3>3, SendType DEF Packet
      <4>2. rx' \in Seq(Control \cup Command)
        BY <1>6, <3>3 DEF CycleCommand
      <4>3. QED
        BY <2>1, <2>3, <3>1, <3>3, <4>1, <4>2
    <3>4. QED
      BY ZenonT(20), <1>6, <2>4, <3>2, <3>3 DEF CycleCommand, SendFails
  <2>5. CASE ~Fits(Reply[c])
    <3>1. WriteBlocks /\ rx' = Tail(rx) /\ UNCHANGED <<isconnected, link, tx, acked>>
      BY <1>6, <2>5 DEF CycleCommand
    <3>2. QED
      BY <1>6, <2>1, <2>3, <3>1, PipeAssumption DEF WriteBlocks, CycleCommand
  <2>6. QED
    BY <1>6, <2>4, <2>5 DEF CycleCommand
<1>7. CASE PipeRead
  <2>1. Head(pipe) \in [id : Nat, payload : Payload]
    BY ZenonT(20), <1>7, TailSeq DEF PipeRead
  <2>2. pipe' \in Seq([id : Nat, payload : Payload]) /\ pipe_len' \in 0..PIPE_BUFSZ
    BY <1>7, EmptySeq, PipeAssumption DEF PipeRead
  <2>3. CASE Disconnect /\ UNCHANGED sent
    BY ZenonT(20), <1>7, <2>2, <2>3, EmptySeq DEF PipeRead, Disconnect
  <2>4. CASE /\ Send(Head(pipe).payload) /\ sent' = Append(sent, Head(pipe).id)
             /\ UNCHANGED <<pc, isconnected, link, rx>>
    <3>1. tx' \in Seq(Packet)
      BY ZenonT(20), <2>1, <2>4, SendType DEF Packet
    <3>2. sent' \in Seq(Nat)
      BY <2>1, <2>4
    <3>3. QED
      BY <1>7, <2>2, <2>4, <3>1, <3>2 DEF PipeRead
  <2>5. QED
    BY ZenonT(20), <1>7, <2>3, <2>4 DEF PipeRead, SendFails
<1>8. CASE Ping
  <2>1. CASE Disconnect
    BY ZenonT(20), <1>8, <2>1, EmptySeq DEF Ping, Disconnect
  <2>2. CASE Send("PINGREQ") /\ pc' = "pong" /\ UNCHANGED <<isconnected, link, rx>>
    <3>1. tx' \in Seq(Packet)
      BY <2>2, SendType DEF Packet
    <3>2. QED
      BY <1>8, <2>2, <3>1 DEF Ping
  <2>3. QED
    BY <1>8, <2>1, <2>2 DEF Ping, SendFails
<1>9. CASE Fail
  <2>1. faults' \in 0..MaxFaults
    BY <1>9, CountUp DEF Fail
  <2>2. QED
    BY ZenonT(20), <1>9, <2>1, EmptySeq DEF Fail, Disconnect
<1>10. CASE Delay
  BY <1>10 DEF Delay
<1>11. CASE BrokerConnect
  <2>1. rx' \in Seq(Control \cup Command) /\ tx' \in Seq(Packet)
    <3>1. <<"CONNACK">> \in Seq(Control \cup Command) /\ <<"REFUSED">> \in Seq(Control \cup Command)
      BY AnswerSeqs DEF Control
    <3>2. QED
      BY ZenonT(20), <1>11, <3>1, AnswerTypes DEF BrokerConnect
  <2>2. faults' \in 0..MaxFaults
    BY <1>11, CountUp DEF BrokerConnect
  <2>3. QED
    BY <1>11, <2>1, <2>2 DEF BrokerConnect
<1>12. CASE BrokerSubscribe
  <2>1. CASE Answer(<<"SUBACK">>) /\ UNCHANGED <<forwarded, bounds>>
    <3>1. <<"SUBACK">> \in Seq(Control \cup Command)
      BY AnswerSeqs DEF Control
    <3>2. rx' \in Seq(Control \cup Command) /\ tx' \in Seq(Packet)
      BY ZenonT(20), <1>12, <2>1, <3>1, AnswerTypes DEF BrokerSubscribe
    <3>3. QED
      BY <1>12, <2>1, <3>2 DEF BrokerSubscribe
  <2>2. CASE Answer(<<"SUBFAIL">>) /\ Fault /\ UNCHANGED <<forwarded, commands>>
    <3>1. <<"SUBFAIL">> \in Seq(Control \cup Command)
      BY AnswerSeqs DEF Control
    <3>2. rx' \in Seq(Control \cup Command) /\ tx' \in Seq(Packet)
      BY ZenonT(20), <1>12, <2>2, <3>1, AnswerTypes DEF BrokerSubscribe
    <3>3. faults' \in 0..MaxFaults
      BY <2>2, CountUp
    <3>4. QED
      BY <1>12, <2>2, <3>2, <3>3 DEF BrokerSubscribe
  <2>3. ASSUME NEW c \in Command, commands < MaxCommands, commands' = commands + 1,
               Answer(<<c, "SUBACK">>), forwarded' = Append(forwarded, c), UNCHANGED faults
        PROVE  TypeOK'
    <3>1. <<c, "SUBACK">> \in Seq(Control \cup Command)
      BY AnswerSeqs
    <3>2. rx' \in Seq(Control \cup Command) /\ tx' \in Seq(Packet)
      BY ZenonT(20), <1>12, <2>3, <3>1, AnswerTypes DEF BrokerSubscribe
    <3>3. forwarded' \in Seq(Command) /\ commands' \in 0..MaxCommands
      BY <2>3, CountUp
    <3>4. QED
      BY <1>12, <2>3, <3>2, <3>3 DEF BrokerSubscribe
  <2>4. QED
    BY ZenonT(20), <1>12, <2>1, <2>2, <2>3 DEF BrokerSubscribe
<1>13. CASE BrokerReceive
  <2>1. PICK s \in {<<>>, <<"PINGRESP">>, <<"PUBACK">>} : Answer(s)
    BY <1>13 DEF BrokerReceive
  <2>2. s \in Seq(Control \cup Command)
    <3>1. "PINGRESP" \in Control /\ "PUBACK" \in Control
      BY DEF Control
    <3>2. QED
      BY ZenonT(20), <2>1, <3>1, EmptySeq, AnswerSeqs
  <2>3. rx' \in Seq(Control \cup Command) /\ tx' \in Seq(Packet)
    BY <1>13, <2>1, <2>2, AnswerTypes DEF BrokerReceive
  <2>4. QED
    BY <1>13, <2>3 DEF BrokerReceive
<1>14. CASE Forward
  BY <1>14, LimitAssumption DEF Forward
<1>15. CASE LinkDies
  BY <1>15, EmptySeq, LimitAssumption DEF LinkDies, Fault
<1>16. CASE UNCHANGED vars
  BY <1>16 DEF vars
<1>17. QED
  BY ZenonT(20), <1>1, <1>2, <1>3, <1>4, <1>5, <1>6, <1>7, <1>8, <1>9,
     <1>10, <1>11, <1>12, <1>13, <1>14, <1>15, <1>16 DEF Next, Worker, Broker

\* The flag follows the connection.
LEMMA ConnectedStep ==
    ASSUME IInv, [Next]_vars
    PROVE  ConnectedFlag'
<1> USE DEF IInv, ConnectedFlag, queues, session, bounds
<1>1. CASE ConnectCallback
  BY <1>1 DEF ConnectCallback
<1>2. CASE NetConnect
  BY <1>2 DEF NetConnect
<1>3. CASE Connack
  BY <1>3 DEF Connack, Disconnect, SendFails
<1>4. CASE Suback
  BY ZenonT(20), <1>4 DEF Suback, Disconnect, WriteBlocks
<1>5. CASE CycleControl
  BY <1>5 DEF CycleControl
<1>6. CASE CycleCommand
  BY <1>6 DEF CycleCommand, Disconnect, SendFails, WriteBlocks
<1>7. CASE PipeRead
  <2>1. CASE Disconnect
    BY <2>1 DEF Disconnect
  <2>2. CASE UNCHANGED <<pc, isconnected>>
    BY <2>2
  <2>3. QED
    BY ZenonT(20), <1>7, <2>1, <2>2 DEF PipeRead, SendFails
<1>8. CASE Ping
  BY ZenonT(20), <1>8 DEF Ping, Disconnect, SendFails
<1>9. CASE Fail
  BY <1>9 DEF Fail, Disconnect
<1>10. CASE Delay
  BY <1>10 DEF Delay
<1>11. CASE BrokerConnect
  BY <1>11 DEF BrokerConnect
<1>12. CASE BrokerSubscribe
  BY <1>12 DEF BrokerSubscribe
<1>13. CASE BrokerReceive
  BY <1>13 DEF BrokerReceive
<1>14. CASE Forward
  BY <1>14 DEF Forward
<1>15. CASE LinkDies
  BY <1>15 DEF LinkDies
<1>16. CASE UNCHANGED vars
  BY <1>16 DEF vars
<1>17. QED
  BY <1>1, <1>2, <1>3, <1>4, <1>5, <1>6, <1>7, <1>8, <1>9,
     <1>10, <1>11, <1>12, <1>13, <1>14, <1>15, <1>16 DEF Next, Worker, Broker

\* A command is acknowledged when it has run, or the worker leaves its loop.
LEMMA AckStep ==
    ASSUME IInv, [Next]_vars
    PROVE  AckInv'
<1> USE DEF IInv, AckInv, AckAfterExecute, queues, session, bounds
<1>1. CASE ConnectCallback
  BY <1>1 DEF ConnectCallback
<1>2. CASE NetConnect
  BY <1>2 DEF NetConnect, TypeOK
<1>3. CASE Connack
  BY <1>3 DEF Connack, Disconnect, SendFails
<1>4. CASE Suback
  BY <1>4 DEF Suback, Disconnect, WriteBlocks
<1>5. CASE CycleControl
  BY <1>5 DEF CycleControl
<1>6. CASE CycleCommand
  <2>1. /\ executed' = Append(executed, Head(rx)) /\ Len(executed') = Len(executed) + 1
        /\ Len(executed) \in Nat /\ acked \in Nat /\ acked = Len(executed)
    BY <1>6 DEF CycleCommand, TypeOK
  <2>2. \/ acked' = acked + 1 /\ pc' = "loop"
        \/ acked' = acked /\ pc' \in {"delay", "full"}
    BY <1>6 DEF CycleCommand, Disconnect, SendFails, WriteBlocks
  <2>3. QED
    BY <2>1, <2>2
<1>7. CASE PipeRead
  BY <1>7 DEF PipeRead, Disconnect, SendFails
<1>8. CASE Ping
  BY <1>8 DEF Ping, Disconnect, SendFails
<1>9. CASE Fail
  BY <1>9 DEF Fail, Disconnect
<1>10. CASE Delay
  BY <1>10 DEF Delay
<1>11. CASE BrokerConnect
  BY <1>11 DEF BrokerConnect
<1>12. CASE BrokerSubscribe
  BY <1>12 DEF BrokerSubscribe
<1>13. CASE BrokerReceive
  BY <1>13 DEF BrokerReceive
<1>14. CASE Forward
  BY <1>14 DEF Forward
<1>15. CASE LinkDies
  BY <1>15 DEF LinkDies
<1>16. CASE UNCHANGED vars
  BY <1>16 DEF vars
<1>17. QED
  BY <1>1, <1>2, <1>3, <1>4, <1>5, <1>6, <1>7, <1>8, <1>9,
     <1>10, <1>11, <1>12, <1>13, <1>14, <1>15, <1>16 DEF Next, Worker, Broker

\* MQTTPublish adds the record with the highest number so far at the end.
LEMMA PublishOrder ==
    ASSUME TypeOK, PipeInv, NEW p, MQTTPublish(p), UNCHANGED sent
    PROVE  PipeInv'
<1>1. CASE Publishes(p)
  <2> DEFINE r == [id |-> published + 1, payload |-> p]
  <2>1. pipe' = Append(pipe, r) /\ published' = published + 1 /\ published \in Nat
    BY <1>1 DEF MQTTPublish, TypeOK
  <2>2. /\ Len(pipe') = Len(pipe) + 1 /\ Len(pipe) \in Nat
        /\ pipe'[Len(pipe) + 1] = r
        /\ \A i \in 1..Len(pipe) : pipe'[i] = pipe[i] /\ pipe[i].id \in Nat
    <3>1. pipe \in Seq([id : Nat, payload : Payload])
      BY DEF TypeOK
    <3> HIDE DEF r
    <3>2. QED
      BY <2>1, <3>1, AppendSeq, PipeIds
  <2>3. r.id = published + 1
    OBVIOUS
  <2>4. \A i \in 1..Len(sent) : sent[i] \in Nat
    BY DEF TypeOK
  <2>5. \A i \in 1..(Len(pipe) + 1) : i \in 1..Len(pipe) \/ i = Len(pipe) + 1
    BY SMTT(20), <2>2
  <2> HIDE DEF r
  <2>6. \A i \in 1..Len(pipe') : pipe'[i].id <= published'
    BY SMTT(30), <2>1, <2>2, <2>3, <2>5 DEF PipeInv
  <2>7. \A i, j \in 1..Len(pipe') : i < j => pipe'[i].id < pipe'[j].id
    BY <2>1, <2>2, <2>3, <2>5 DEF PipeInv
  <2>8. \A i \in 1..Len(sent), j \in 1..Len(pipe') : sent[i] < pipe'[j].id
    BY <2>1, <2>2, <2>3, <2>4, <2>5 DEF PipeInv
  <2>9. \A i \in 1..Len(sent) : sent[i] <= published'
    BY <2>1, <2>4 DEF PipeInv
  <2>10. QED
    BY <2>6, <2>7, <2>8, <2>9 DEF PipeInv, SentInOrder
<1>2. CASE ~Publishes(p)
  BY <1>2 DEF MQTTPublish, queues, PipeInv, SentInOrder
<1>3. QED
  BY <1>1, <1>2

\* The numbers in the pipe and on the wire grow.
LEMMA PipeStep ==
    ASSUME IInv, [Next]_vars
    PROVE  PipeInv'
<1> USE DEF IInv
<1>1. CASE ConnectCallback
  BY <1>1 DEF ConnectCallback, PipeInv, SentInOrder, queues
<1>2. CASE NetConnect
  BY <1>2 DEF NetConnect, PipeInv, SentInOrder, queues
<1>3. CASE Connack
  BY <1>3 DEF Connack, PipeInv, SentInOrder, queues
<1>4. CASE Suback
  <2>1. CASE MQTTPublish(Online) /\ UNCHANGED sent
    BY <2>1, PublishOrder
  <2>2. CASE UNCHANGED <<pipe, published, sent>>
    BY <2>2 DEF PipeInv, SentInOrder
  <2>3. QED
    BY <1>4, <2>1, <2>2 DEF Suback, WriteBlocks, queues
<1>5. CASE CycleControl
  BY <1>5 DEF CycleControl, PipeInv, SentInOrder, queues
<1>6. CASE CycleCommand
  <2>1. CASE MQTTPublish(Reply[Head(rx)]) /\ UNCHANGED sent
    BY <2>1, PublishOrder
  <2>2. CASE UNCHANGED <<pipe, published, sent>>
    BY <2>2 DEF PipeInv, SentInOrder
  <2>3. QED
    BY <1>6, <2>1, <2>2 DEF CycleCommand, WriteBlocks
<1>7. CASE PipeRead
  <2>1. pipe' = <<>> /\ Len(pipe') = 0 /\ UNCHANGED published /\ 1 \in 1..Len(pipe)
    BY <1>7 DEF PipeRead, TypeOK
  <2>2. CASE UNCHANGED sent
    BY <2>1, <2>2 DEF PipeInv, SentInOrder
  <2>3. CASE sent' = Append(sent, Head(pipe).id)
    <3>1. Head(pipe) = pipe[1] /\ pipe[1].id \in Nat
      BY SMTT(20), <2>1, PipeIds DEF TypeOK
    <3>2. /\ Len(sent') = Len(sent) + 1 /\ Len(sent) \in Nat
          /\ sent'[Len(sent) + 1] = pipe[1].id
          /\ \A i \in 1..Len(sent) : sent'[i] = sent[i] /\ sent[i] \in Nat
      <4>1. sent \in Seq(Nat)
        BY DEF TypeOK
      <4>2. QED
        BY <2>3, <3>1, <4>1, AppendSeq
    <3>3. \A i \in 1..(Len(sent) + 1) : i \in 1..Len(sent) \/ i = Len(sent) + 1
      BY <3>2
    <3>4. \A i \in 1..Len(sent') : sent'[i] <= published'
      BY <2>1, <3>2, <3>3 DEF PipeInv
    <3>5. SentInOrder'
      BY <2>1, <3>2, <3>3 DEF PipeInv, SentInOrder
    <3>6. QED
      BY <2>1, <3>4, <3>5 DEF PipeInv
  <2>4. QED
    BY <1>7, <2>2, <2>3 DEF PipeRead
<1>8. CASE Ping
  BY <1>8 DEF Ping, PipeInv, SentInOrder, queues
<1>9. CASE Fail
  BY <1>9 DEF Fail, PipeInv, SentInOrder, queues
<1>10. CASE Delay
  BY <1>10 DEF Delay, PipeInv, SentInOrder, queues
<1>11. CASE BrokerConnect
  BY <1>11 DEF BrokerConnect, PipeInv, SentInOrder, queues
<1>12. CASE BrokerSubscribe
  BY <1>12 DEF BrokerSubscribe, PipeInv, SentInOrder, queues
<1>13. CASE BrokerReceive
  BY <1>13 DEF BrokerReceive, PipeInv, SentInOrder, queues
<1>14. CASE Forward
  BY <1>14 DEF Forward, PipeInv, SentInOrder, queues
<1>15. CASE LinkDies
  BY <1>15 DEF LinkDies, PipeInv, SentInOrder, queues
<1>16. CASE UNCHANGED vars
  BY <1>16 DEF vars, queues, PipeInv, SentInOrder
<1>17. QED
  BY <1>1, <1>2, <1>3, <1>4, <1>5, <1>6, <1>7, <1>8, <1>9,
     <1>10, <1>11, <1>12, <1>13, <1>14, <1>15, <1>16 DEF Next, Worker, Broker

-----------------------------------------------------------------------------
(* The theorems.                                                           *)

\* Every state of the client satisfies the invariant.
LEMMA Invariance == Spec => []IInv
<1>1. Init => IInv
  <2>1. Init => TypeOK
    <3> SUFFICES ASSUME Init PROVE TypeOK
      OBVIOUS
    <3>1. /\ rx \in Seq(Control \cup Command) /\ tx \in Seq(Packet)
          /\ pipe \in Seq([id : Nat, payload : Payload]) /\ sent \in Seq(Nat)
          /\ forwarded \in Seq(Command) /\ executed \in Seq(Command)
      BY EmptySeq DEF Init
    <3>2. pipe_len \in 0..PIPE_BUFSZ /\ commands \in 0..MaxCommands /\ faults \in 0..MaxFaults
      BY PipeAssumption, LimitAssumption DEF Init
    <3>3. QED
      BY ZenonT(20), <3>1, <3>2 DEF Init, TypeOK
  <2>2. Init => ConnectedFlag /\ AckInv /\ PipeInv
    BY DEF Init, ConnectedFlag, AckInv, AckAfterExecute, PipeInv, SentInOrder
  <2>3. QED
    BY <2>1, <2>2 DEF IInv
<1>2. IInv /\ [Next]_vars => IInv'
  BY TypeStep, ConnectedStep, AckStep, PipeStep DEF IInv
<1>3. QED
  BY <1>1, <1>2, PTL DEF Spec

\* The variables keep their types: in particular the pipe never holds more bytes
\* than its size, whatever the lengths of the payloads.
THEOREM TypeCorrect == Spec => []TypeOK
<1>1. IInv => TypeOK
  BY DEF IInv
<1>2. QED
  BY <1>1, Invariance, PTL

\* isconnected is set exactly while a connection is up, so that no attempt to
\* connect again fails for a flag left behind.
THEOREM FlagIsRight == Spec => []ConnectedFlag
<1>1. IInv => ConnectedFlag
  BY DEF IInv
<1>2. QED
  BY <1>1, Invariance, PTL

\* No command is acknowledged before mqtt_sub_callback has run for it, and none
\* is left without an acknowledgement by a worker that goes on.
THEOREM AckedAfterExecution == Spec => []AckAfterExecute
<1>1. IInv => AckAfterExecute
  BY DEF IInv, AckInv
<1>2. QED
  BY <1>1, Invariance, PTL

\* Records leave the device in the order in which MQTTPublish took them and none
\* leaves twice, over any number of connections.
THEOREM SendsInOrder == Spec => []SentInOrder
<1>1. IInv => SentInOrder
  BY DEF IInv, PipeInv
<1>2. QED
  BY <1>1, Invariance, PTL

-----------------------------------------------------------------------------
(* The order of the commands.                                              *)

\* Appending to the second of two sequences.
LEMMA AppendToSecond ==
    ASSUME NEW S, NEW e \in Seq(S), NEW r \in Seq(S), NEW x \in S
    PROVE  e \o Append(r, x) = Append(e \o r, x)
  OBVIOUS

\* Moving the head of the second sequence to the end of the first.
LEMMA MoveHead ==
    ASSUME NEW S, NEW e \in Seq(S), NEW r \in Seq(S), r # <<>>
    PROVE  Append(e, Head(r)) \o Tail(r) = e \o r
  BY SMTT(20)

\* The places of the elements of s in q, with the set of the commands' positions spelt out.
Places(q, s, at) ==
    /\ at \in [1..Len(s) -> 1..Len(q)]
    /\ \A i, j \in 1..Len(s) : i < j => at[i] < at[j]
    /\ \A i \in 1..Len(s) : q[at[i]] \in Command /\ s[i] = q[at[i]]
    /\ \A k \in 1..Len(q) : q[k] \in Command => \E i \in 1..Len(s) : at[i] = k

\* A sequence has the commands of another when its elements have their places there.
LEMMA ByPlaces ==
    ASSUME NEW q, NEW s
    PROVE  CommandsOf(q, s) <=> \E at : Places(q, s, at)
<1> DEFINE n == Len(s)
           m == Len(q)
<1>1. ASSUME NEW at \in [1..n -> 1..m]
      PROVE  {at[i] : i \in 1..n} = {k \in 1..m : q[k] \in Command}
                <=> /\ \A i \in 1..n : q[at[i]] \in Command
                    /\ \A k \in 1..m : q[k] \in Command => \E i \in 1..n : at[i] = k
  <2> HIDE DEF n, m
  <2>1. \A i \in 1..n : at[i] \in 1..m
    OBVIOUS
  <2>2. ASSUME {at[i] : i \in 1..n} = {k \in 1..m : q[k] \in Command}
        PROVE  /\ \A i \in 1..n : q[at[i]] \in Command
               /\ \A k \in 1..m : q[k] \in Command => \E i \in 1..n : at[i] = k
    BY <2>2
  <2>3. ASSUME /\ \A i \in 1..n : q[at[i]] \in Command
               /\ \A k \in 1..m : q[k] \in Command => \E i \in 1..n : at[i] = k
        PROVE  {at[i] : i \in 1..n} = {k \in 1..m : q[k] \in Command}
    BY <2>1, <2>3
  <2>4. QED
    BY <2>2, <2>3
<1>2. QED
  BY <1>1 DEF CommandsOf, Places

\* A packet that is no command changes nothing.
LEMMA OtherPacket ==
    ASSUME NEW S, NEW q \in Seq(S), NEW s \in Seq(Command), NEW x \in S, x \notin Command,
           CommandsOf(q, s)
    PROVE  CommandsOf(Append(q, x), s)
<1> DEFINE n == Len(s)
           m == Len(q)
           r == Append(q, x)
<1>1. PICK at \in [1..n -> 1..m] :
          /\ \A i, j \in 1..n : i < j => at[i] < at[j]
          /\ {at[i] : i \in 1..n} = {k \in 1..m : q[k] \in Command}
          /\ \A i \in 1..n : s[i] = q[at[i]]
  BY ZenonT(20) DEF CommandsOf
<1>2. /\ n \in Nat /\ m \in Nat /\ Len(r) = m + 1 /\ r[m + 1] = x
      /\ \A k \in 1..m : r[k] = q[k]
  OBVIOUS
<1>3. at \in [1..n -> 1..Len(r)]
  BY SMTT(20), <1>1, <1>2
<1>4. {k \in 1..Len(r) : r[k] \in Command} = {k \in 1..m : q[k] \in Command}
  BY <1>2
<1>5. \A i \in 1..n : s[i] = r[at[i]]
  BY <1>1, <1>2
<1> HIDE DEF n, m, r
<1>6. \E f \in [1..n -> 1..Len(r)] :
          /\ \A i, j \in 1..n : i < j => f[i] < f[j]
          /\ {f[i] : i \in 1..n} = {k \in 1..Len(r) : r[k] \in Command}
          /\ \A i \in 1..n : s[i] = r[f[i]]
  BY ZenonT(20), <1>1, <1>3, <1>4, <1>5
<1>7. QED
  BY ZenonT(20), <1>6 DEF CommandsOf, n, r

\* A command that comes in is one more.
LEMMA NextCommand ==
    ASSUME NEW S, NEW q \in Seq(S), NEW s \in Seq(Command), NEW x \in S, x \in Command,
           CommandsOf(q, s)
    PROVE  CommandsOf(Append(q, x), Append(s, x))
<1> DEFINE n == Len(s)
           m == Len(q)
           r == Append(q, x)
           t == Append(s, x)
<1>0. PICK at : Places(q, s, at)
  BY ByPlaces
<1>1. /\ \A i, j \in 1..n : i < j => at[i] < at[j]
      /\ \A i \in 1..n : at[i] \in 1..m /\ q[at[i]] \in Command /\ s[i] = q[at[i]]
      /\ \A k \in 1..m : q[k] \in Command => \E i \in 1..n : at[i] = k
  BY ZenonT(20), <1>0 DEF Places
<1>2. /\ n \in Nat /\ m \in Nat /\ Len(r) = m + 1 /\ r[m + 1] = x
      /\ \A k \in 1..m : r[k] = q[k]
  OBVIOUS
<1>3. /\ Len(t) = n + 1 /\ t[n + 1] = x
      /\ \A i \in 1..n : t[i] = s[i]
  OBVIOUS
<1> DEFINE f == [i \in 1..(n + 1) |-> IF i = n + 1 THEN m + 1 ELSE at[i]]
<1> HIDE DEF n, m, r, t
<1>4. f[n + 1] = m + 1 /\ \A i \in 1..n : f[i] = at[i] /\ at[i] \in 1..m
  BY <1>1, <1>2
<1>5. f \in [1..Len(t) -> 1..Len(r)]
  BY SMTT(20), <1>1, <1>2, <1>3
<1> HIDE DEF f
<1>6. \A i \in 1..(n + 1) : i \in 1..n \/ i = n + 1
  BY <1>2
<1>7. \A i, j \in 1..Len(t) : i < j => f[i] < f[j]
  <2> SUFFICES ASSUME NEW i \in 1..(n + 1), NEW j \in 1..(n + 1), i < j PROVE f[i] < f[j]
    BY <1>3
  <2>1. i \in 1..n /\ f[i] = at[i] /\ at[i] \in 1..m
    BY <1>2, <1>4
  <2>2. CASE j = n + 1
    BY <1>2, <1>4, <2>1, <2>2
  <2>3. CASE j \in 1..n
    BY <1>1, <1>4, <2>1, <2>3
  <2>4. QED
    BY <1>6, <2>2, <2>3
<1>8. \A k \in 1..Len(r) : r[k] \in Command => \E i \in 1..Len(t) : f[i] = k
  <2> SUFFICES ASSUME NEW k \in 1..Len(r), r[k] \in Command
               PROVE  \E i \in 1..Len(t) : f[i] = k
    OBVIOUS
  <2>1. CASE k = m + 1
    BY SMTT(20), <1>2, <1>3, <1>4, <2>1
  <2>2. CASE k # m + 1
    <3>1. k \in 1..m /\ q[k] \in Command
      BY <1>2, <2>2
    <3>2. PICK i \in 1..n : at[i] = k
      BY ZenonT(20), <1>1, <3>1
    <3>3. i \in 1..Len(t) /\ f[i] = k
      BY SMTT(30), <1>2, <1>3, <1>4, <3>2
    <3>4. QED
      BY <3>3
  <2>3. QED
    BY <2>1, <2>2
<1>9. \A i \in 1..Len(t) : r[f[i]] \in Command /\ t[i] = r[f[i]]
  <2> SUFFICES ASSUME NEW i \in 1..(n + 1) PROVE r[f[i]] \in Command /\ t[i] = r[f[i]]
    BY <1>3
  <2>1. CASE i = n + 1
    BY <1>2, <1>3, <1>4, <2>1
  <2>2. CASE i \in 1..n
    <3>1. f[i] = at[i] /\ t[i] = s[i] /\ at[i] \in 1..m
      BY <1>3, <1>4, <2>2
    <3>2. r[f[i]] = q[at[i]]
      BY <1>2, <3>1
    <3>3. QED
      BY <1>1, <2>2, <3>1, <3>2
  <2>3. QED
    BY ZenonT(20), <1>6, <2>1, <2>2
<1>10. Places(r, t, f)
  BY <1>5, <1>7, <1>8, <1>9 DEF Places
<1>11. QED
  BY <1>10, ByPlaces DEF r, t

\* Positions before and behind one that is taken out keep their order.
LEMMA GapCloses ==
    ASSUME NEW l \in Nat, NEW a \in Nat, NEW b \in Nat, a < b, a # l + 1, b # l + 1
    PROVE  (IF a <= l THEN a ELSE a - 1) < (IF b <= l THEN b ELSE b - 1)
<1>1. CASE b <= l
  BY <1>1
<1>2. CASE ~(b <= l)
  BY <1>2
<1>3. QED
  BY <1>1, <1>2

\* A packet that is no command may be taken out.
LEMMA OtherTaken ==
    ASSUME NEW S, NEW e \in Seq(S), NEW r \in Seq(S), NEW s \in Seq(Command), r # <<>>,
           Head(r) \notin Command, CommandsOf(e \o r, s)
    PROVE  CommandsOf(e \o Tail(r), s)
<1> DEFINE n == Len(s)
           l == Len(e)
           m == Len(r)
           q == e \o r
           t == e \o Tail(r)
<1>0. PICK at : Places(q, s, at)
  BY ByPlaces
<1>1. /\ \A i, j \in 1..n : i < j => at[i] < at[j]
      /\ \A i \in 1..n : at[i] \in 1..Len(q) /\ q[at[i]] \in Command /\ s[i] = q[at[i]]
      /\ \A k \in 1..Len(q) : q[k] \in Command => \E i \in 1..n : at[i] = k
  BY ZenonT(20), <1>0 DEF Places
<1>2. /\ n \in Nat /\ l \in Nat /\ m \in Nat /\ m >= 1
      /\ Len(q) = l + m /\ Len(t) = l + m - 1
  OBVIOUS
<1>3. q[l + 1] = Head(r)
  OBVIOUS
<1>4. \A k \in 1..l : q[k] = t[k]
  OBVIOUS
<1>5. \A k \in (l + 1)..(l + m - 1) : t[k] = q[k + 1]
  OBVIOUS
<1> DEFINE f == [i \in 1..n |-> IF at[i] <= l THEN at[i] ELSE at[i] - 1]
<1> HIDE DEF n, m, l, q, t
<1>6. \A i \in 1..n : at[i] \in 1..(l + m) /\ at[i] # l + 1
  BY <1>1, <1>2, <1>3
<1>7. \A i \in 1..n : f[i] = IF at[i] <= l THEN at[i] ELSE at[i] - 1
  OBVIOUS
<1>8. f \in [1..n -> 1..Len(t)]
  BY SMTT(30), <1>2, <1>6
<1> HIDE DEF f
<1>9. \A i, j \in 1..n : i < j => f[i] < f[j]
  <2> SUFFICES ASSUME NEW i \in 1..n, NEW j \in 1..n, i < j PROVE f[i] < f[j]
    OBVIOUS
  <2>1. at[i] < at[j]
    BY ZenonT(20), <1>1
  <2>2. at[i] \in Nat /\ at[j] \in Nat /\ at[i] # l + 1 /\ at[j] # l + 1
    BY <1>2, <1>6
  <2>3. /\ f[i] = IF at[i] <= l THEN at[i] ELSE at[i] - 1
        /\ f[j] = IF at[j] <= l THEN at[j] ELSE at[j] - 1
    BY <1>7
  <2>4. QED
    BY ZenonT(20), <1>2, <2>1, <2>2, <2>3, GapCloses
<1>10. \A i \in 1..n : t[f[i]] \in Command /\ s[i] = t[f[i]]
  <2> TAKE i \in 1..n
  <2>1. CASE at[i] <= l
    BY SMTT(30), <1>1, <1>2, <1>4, <1>6, <1>7, <2>1
  <2>2. CASE ~(at[i] <= l)
    <3>1. at[i] - 1 \in (l + 1)..(l + m - 1) /\ (at[i] - 1) + 1 = at[i]
      BY SMTT(20), <1>2, <1>6, <2>2
    <3>2. f[i] = at[i] - 1
      BY <1>7, <2>2
    <3>3. t[f[i]] = q[at[i]]
      BY <1>5, <3>1, <3>2
    <3>4. QED
      BY ZenonT(20), <1>1, <3>3
  <2>3. QED
    BY <2>1, <2>2
<1>11. \A k \in 1..Len(t) : t[k] \in Command => \E i \in 1..n : f[i] = k
  <2> SUFFICES ASSUME NEW k \in 1..Len(t), t[k] \in Command
               PROVE  \E i \in 1..n : f[i] = k
    OBVIOUS
  <2>1. CASE k <= l
    <3>1. k \in 1..Len(q) /\ q[k] \in Command
      BY <1>2, <1>4, <2>1
    <3>2. PICK i \in 1..n : at[i] = k
      BY <1>1, <3>1
    <3>3. f[i] = k
      BY <1>7, <2>1, <3>2
    <3>4. QED
      BY <3>3
  <2>2. CASE ~(k <= l)
    <3>1. k + 1 \in 1..Len(q) /\ q[k + 1] \in Command
      BY <1>2, <1>5, <2>2
    <3>2. PICK i \in 1..n : at[i] = k + 1
      BY <1>1, <3>1
    <3>3. k \in Nat /\ ~(k + 1 <= l) /\ (k + 1) - 1 = k
      BY <1>2, <2>2
    <3>4. f[i] = k
      BY <1>7, <3>2, <3>3
    <3>5. QED
      BY <3>4
  <2>3. QED
    BY <2>1, <2>2
<1>12. Places(t, s, f)
  BY <1>8, <1>9, <1>10, <1>11 DEF Places, n
<1>13. QED
  BY <1>12, ByPlaces DEF t

\* What is in flight belongs to an open connection, and is the rest of what was forwarded.
OrderInv ==
    /\ pc \in {"start", "net", "delay"} => link = "closed"
    /\ link = "closed" => rx = <<>> /\ tx = <<>>
    /\ ExecutedInOrder

\* The broker's answer without a command.
LEMMA AnswerKeepsOrder ==
    ASSUME TypeOK, CommandsOf(executed \o rx, forwarded), NEW x \in Control,
           rx' = rx \o <<x>>, UNCHANGED <<executed, forwarded>>
    PROVE  CommandsOf(executed \o rx, forwarded)'
<1> DEFINE S == Control \cup Command
<1>1. /\ executed \in Seq(S) /\ rx \in Seq(S) /\ forwarded \in Seq(Command)
      /\ x \in S /\ x \notin Command
  BY CommandAssumption DEF TypeOK
<1> HIDE DEF S
<1>2. executed \o rx' = Append(executed \o rx, x)
  <2>1. rx' = Append(rx, x)
    BY <1>1
  <2>2. QED
    BY <1>1, <2>1, AppendToSecond
<1>3. executed \o rx \in Seq(S)
  BY <1>1, ConcatSeq
<1>4. QED
  BY ZenonT(20), <1>1, <1>2, <1>3, OtherPacket

\* A command on its way to the worker.
LEMMA ForwardKeepsOrder ==
    ASSUME TypeOK, CommandsOf(executed \o rx, forwarded), NEW c \in Command,
           UNCHANGED executed, forwarded' = Append(forwarded, c)
    PROVE  CommandsOf(executed \o Append(rx, c), forwarded')
<1> DEFINE S == Control \cup Command
<1>1. executed \in Seq(S) /\ rx \in Seq(S) /\ forwarded \in Seq(Command) /\ c \in S
  BY DEF TypeOK
<1> HIDE DEF S
<1>2. executed \o Append(rx, c) = Append(executed \o rx, c)
  BY <1>1, AppendToSecond
<1>3. executed \o rx \in Seq(S)
  BY <1>1, ConcatSeq
<1>4. QED
  BY ZenonT(20), <1>1, <1>2, <1>3, NextCommand

\* A packet that is read and is no command.
LEMMA ControlKeepsOrder ==
    ASSUME TypeOK, CommandsOf(executed \o rx, forwarded), rx # <<>>, Head(rx) \in Control,
           rx' = Tail(rx), UNCHANGED <<executed, forwarded>>
    PROVE  CommandsOf(executed \o rx, forwarded)'
<1> DEFINE S == Control \cup Command
<1>1. /\ executed \in Seq(S) /\ rx \in Seq(S) /\ forwarded \in Seq(Command)
      /\ Head(rx) \notin Command
  BY CommandAssumption DEF TypeOK
<1> HIDE DEF S
<1>2. QED
  BY <1>1, OtherTaken

\* A command that is read and run.
LEMMA CommandKeepsOrder ==
    ASSUME TypeOK, CommandsOf(executed \o rx, forwarded), rx # <<>>,
           rx' = Tail(rx), executed' = Append(executed, Head(rx)), UNCHANGED forwarded
    PROVE  CommandsOf(executed \o rx, forwarded)'
<1> DEFINE S == Control \cup Command
<1>1. executed \in Seq(S) /\ rx \in Seq(S)
  BY DEF TypeOK
<1> HIDE DEF S
<1>2. executed' \o rx' = executed \o rx
  BY <1>1, MoveHead
<1>3. QED
  BY ZenonT(20), <1>2

\* The worker takes each packet once and in order, and runs the commands among them.
LEMMA OrderStep ==
    ASSUME IInv, OrderInv, [Next]_vars
    PROVE  OrderInv'
<1>0. TypeOK /\ ConnectedFlag
  BY DEF IInv
<1>a. CASE UNCHANGED <<pc, link, rx, tx, executed, forwarded>>
  BY <1>a DEF OrderInv, ExecutedInOrder
<1>b. ASSUME Disconnect PROVE OrderInv'
  BY <1>b DEF Disconnect, OrderInv, ExecutedInOrder
<1>c. ASSUME UNCHANGED <<link, rx, executed, forwarded>>, pc' \notin {"start", "net", "delay"},
             tx' = tx \/ Alive
      PROVE  OrderInv'
  BY <1>c DEF OrderInv, ExecutedInOrder, Alive
<1>d. ASSUME link # "closed", link' # "closed", pc' \in {"start", "net", "delay"} => pc' = pc,
             CommandsOf(executed \o rx, forwarded)'
      PROVE  OrderInv'
  BY <1>d DEF OrderInv, ExecutedInOrder
<1>e. link # "closed" => CommandsOf(executed \o rx, forwarded)
  BY DEF OrderInv, ExecutedInOrder
<1>1. CASE ConnectCallback
  BY <1>1 DEF ConnectCallback, OrderInv, ExecutedInOrder, session
<1>2. CASE NetConnect
  <2>1. link = "closed" /\ rx = <<>> /\ tx = <<>> /\ ~isconnected
    BY <1>0, <1>2 DEF NetConnect, OrderInv, ConnectedFlag
  <2>2. CASE pc' = "delay"
    BY <1>2, <2>1, <2>2 DEF NetConnect, OrderInv, ExecutedInOrder
  <2>3. CASE pc' # "delay"
    <3>1. /\ pc' = "connect" /\ link' = "open"
          /\ executed' = <<>> /\ rx' = <<>> /\ forwarded' = <<>>
      BY <1>2, <2>1, <2>3 DEF NetConnect
    <3>2. executed' \o rx' = <<>>
      BY <3>1
    <3>3. CommandsOf(<<>>, <<>>)
      <4>1. Places(<<>>, <<>>, <<>>)
        BY DEF Places
      <4>2. QED
        BY <4>1, ByPlaces
    <3>4. QED
      BY <3>1, <3>2, <3>3 DEF OrderInv, ExecutedInOrder
  <2>4. QED
    BY <2>2, <2>3
<1>3. CASE Connack
  <2>1. link # "closed" /\ rx # <<>>
    BY <1>3 DEF Connack, OrderInv
  <2>2. CASE Disconnect
    BY <1>b, <2>2
  <2>3. CASE /\ Head(rx) = "CONNACK" /\ rx' = Tail(rx) /\ pc' = "subscribe"
             /\ UNCHANGED <<link, executed, forwarded>>
    <3>1. Head(rx) \in Control
      BY <2>3 DEF Control
    <3>2. CommandsOf(executed \o rx, forwarded)'
      BY <1>0, <1>e, <2>1, <2>3, <3>1, ControlKeepsOrder
    <3>3. QED
      BY <1>d, <2>1, <2>3, <3>2
  <2>4. QED
    BY <1>3, <2>2, <2>3 DEF Connack, SendFails, session
<1>4. CASE Suback
  <2>1. link # "closed" /\ rx # <<>>
    BY <1>4 DEF Suback, OrderInv
  <2>2. CASE Disconnect
    BY <1>b, <2>2
  <2>3. CASE /\ Head(rx) = "SUBACK" /\ rx' = Tail(rx) /\ pc' \in {"loop", "full"}
             /\ UNCHANGED <<link, executed, forwarded>>
    <3>1. Head(rx) \in Control
      BY <2>3 DEF Control
    <3>2. CommandsOf(executed \o rx, forwarded)'
      BY <1>0, <1>e, <2>1, <2>3, <3>1, ControlKeepsOrder
    <3>3. QED
      BY <1>d, <2>1, <2>3, <3>2
  <2>4. QED
    BY <1>4, <2>2, <2>3 DEF Suback, WriteBlocks, session
<1>5. CASE CycleControl
  <2>1. /\ link # "closed" /\ rx # <<>> /\ rx' = Tail(rx) /\ Head(rx) \in Control
        /\ UNCHANGED <<link, executed, forwarded>> /\ pc' = "loop"
    BY <1>5 DEF CycleControl, OrderInv, session
  <2>2. CommandsOf(executed \o rx, forwarded)'
    BY <1>0, <1>e, <2>1, ControlKeepsOrder
  <2>3. QED
    BY <1>d, <2>1, <2>2
<1>6. CASE CycleCommand
  <2>1. /\ link # "closed" /\ rx # <<>> /\ executed' = Append(executed, Head(rx))
        /\ UNCHANGED forwarded
    BY <1>6 DEF CycleCommand, OrderInv
  <2>2. CASE Disconnect
    BY <1>b, <2>2
  <2>3. CASE rx' = Tail(rx) /\ pc' \in {"loop", "full"} /\ UNCHANGED link
    <3>1. CommandsOf(executed \o rx, forwarded)'
      BY <1>0, <1>e, <2>1, <2>3, CommandKeepsOrder
    <3>2. QED
      BY <1>d, <2>1, <2>3, <3>1
  <2>4. QED
    BY <1>6, <2>2, <2>3 DEF CycleCommand, WriteBlocks, SendFails
<1>7. CASE PipeRead
  <2>1. CASE Disconnect
    BY <1>b, <2>1
  <2>2. CASE UNCHANGED <<pc, link, rx>> /\ (tx' = tx \/ Alive)
    BY <1>7, <1>c, <2>2 DEF PipeRead, session
  <2>3. QED
    BY <1>7, <2>1, <2>2 DEF PipeRead, Send, SendFails
<1>8. CASE Ping
  <2>1. CASE Disconnect
    BY <1>b, <2>1
  <2>2. CASE pc' = "pong" /\ UNCHANGED <<link, rx>> /\ (tx' = tx \/ Alive)
    BY <1>8, <1>c, <2>2 DEF Ping, session
  <2>3. QED
    BY <1>8, <2>1, <2>2 DEF Ping, Send, SendFails
<1>9. CASE Fail
  BY <1>9, <1>b DEF Fail
<1>10. CASE Delay
  BY <1>10 DEF Delay, OrderInv, ExecutedInOrder, session
<1>11. CASE BrokerConnect
  <2>1. /\ link # "closed" /\ UNCHANGED <<pc, link, executed, forwarded>>
        /\ \E x \in Control : rx' = rx \o <<x>>
    BY <1>11 DEF BrokerConnect, OrderInv, session, Answer, Control
  <2>2. CommandsOf(executed \o rx, forwarded)'
    BY <1>0, <1>e, <2>1, AnswerKeepsOrder
  <2>3. QED
    BY <1>d, <2>1, <2>2
<1>12. CASE BrokerSubscribe
  <2>1. link # "closed" /\ link' = "subscribed" /\ UNCHANGED <<pc, executed>>
    BY <1>12 DEF BrokerSubscribe, OrderInv
  <2>2. CASE UNCHANGED forwarded /\ \E x \in Control : rx' = rx \o <<x>>
    <3>1. CommandsOf(executed \o rx, forwarded)'
      BY <1>0, <1>e, <2>1, <2>2, AnswerKeepsOrder
    <3>2. QED
      BY <1>d, <2>1, <3>1
  <2>3. ASSUME NEW c \in Command, rx' = rx \o <<c, "SUBACK">>, forwarded' = Append(forwarded, c)
        PROVE  OrderInv'
    <3> DEFINE S == Control \cup Command
               x == "SUBACK"
    <3>1. CommandsOf(executed \o Append(rx, c), forwarded')
      BY <1>0, <1>e, <2>1, <2>3, ForwardKeepsOrder
    <3>2. /\ executed \in Seq(S) /\ rx \in Seq(S) /\ c \in S /\ x \in S /\ x \notin Command
          /\ forwarded' \in Seq(Command)
      BY <1>0, <2>3, CommandAssumption DEF TypeOK, Control
    <3> HIDE DEF S, x
    <3>3. rx \o <<c, x>> = Append(Append(rx, c), x) /\ Append(rx, c) \in Seq(S)
      BY <3>2
    <3>4. executed \o Append(Append(rx, c), x) = Append(executed \o Append(rx, c), x)
      BY SMTT(20), <3>2, <3>3, AppendToSecond
    <3>5. executed \o Append(rx, c) \in Seq(S)
      BY <3>2, <3>3, ConcatSeq
    <3>6. CommandsOf(executed \o (rx \o <<c, x>>), forwarded')
      BY ZenonT(20), <3>1, <3>2, <3>3, <3>4, <3>5, OtherPacket
    <3>7. CommandsOf(executed \o rx, forwarded)'
      BY <2>1, <2>3, <3>6 DEF x
    <3>8. QED
      BY <1>d, <2>1, <3>7
  <2>4. QED
    BY ZenonT(20), <1>12, <2>2, <2>3 DEF BrokerSubscribe, Answer, Control
<1>13. CASE BrokerReceive
  <2>1. link # "closed" /\ UNCHANGED <<pc, link, executed, forwarded>>
    BY <1>13 DEF BrokerReceive, OrderInv, session
  <2>2. CASE \E x \in Control : rx' = rx \o <<x>>
    <3>1. CommandsOf(executed \o rx, forwarded)'
      BY <1>0, <1>e, <2>1, <2>2, AnswerKeepsOrder
    <3>2. QED
      BY <1>d, <2>1, <3>1
  <2>3. CASE rx' = rx \o <<>>
    <3>1. rx' = rx
      BY <1>0, <2>3 DEF TypeOK
    <3>2. QED
      BY <1>d, <1>e, <2>1, <3>1
  <2>4. QED
    BY ZenonT(20), <1>13, <2>2, <2>3 DEF BrokerReceive, Answer, Control
<1>14. CASE Forward
  <2>1. /\ link # "closed" /\ UNCHANGED <<pc, link, executed>>
        /\ \E c \in Command : rx' = Append(rx, c) /\ forwarded' = Append(forwarded, c)
    BY <1>14 DEF Forward
  <2>2. CommandsOf(executed \o rx, forwarded)'
    BY <1>0, <1>e, <2>1, ForwardKeepsOrder
  <2>3. QED
    BY <1>d, <2>1, <2>2
<1>15. CASE LinkDies
  <2>1. link # "closed" /\ link' = "dead" /\ UNCHANGED <<pc, rx, executed, forwarded>>
    BY <1>15 DEF LinkDies, Alive, session
  <2>2. QED
    BY <1>d, <1>e, <2>1
<1>16. CASE UNCHANGED vars
  BY <1>16, <1>a DEF vars, session
<1>17. QED
  BY <1>1, <1>2, <1>3, <1>4, <1>5, <1>6, <1>7, <1>8, <1>9,
     <1>10, <1>11, <1>12, <1>13, <1>14, <1>15, <1>16 DEF Next, Worker, Broker

\* Every command the broker forwards on a connection is run by mqtt_sub_callback
\* once and in the order of their arrival, or is still unread, whatever happens
\* between the subscription and the loss of the link.
THEOREM CommandsRunInOrder == Spec => []ExecutedInOrder
<1>1. Init => OrderInv
  BY DEF Init, OrderInv, ExecutedInOrder
<1>2. IInv /\ OrderInv /\ [Next]_vars => OrderInv'
  BY OrderStep
<1>3. OrderInv => ExecutedInOrder
  BY DEF OrderInv
<1>4. QED
  BY <1>1, <1>2, <1>3, Invariance, PTL DEF Spec

-----------------------------------------------------------------------------
(* The timing of the loop: a dead link.                                    *)

\* What DetectedInTime needs to know of the states before: the clock of a link
\* starts when it dies, which is after tick_ping was set and, before the next
\* select, while one packet was handled; and the two timeouts are never longer
\* than the code asks for.
Waits ==
    /\ peer = "alive" => dead = 0
    /\ peer = "dead" => ping = NoPing /\ dead <= elapsed
    /\ stage = "loop" => dead <= Slow
    /\ stage = "select" /\ wait # Forever => wait <= keepAliveInterval - 10
    /\ stage = "pong" => wait \in 0..5

TimingInv == ClocksOK /\ Waits /\ DetectedInTime

\* The select timeout is Forever, or it leaves ten seconds of the interval.
LEMMA TimeoutRange ==
    ASSUME NEW e \in Nat
    PROVE  /\ Timeout(e) \in Nat \cup {Forever}
           /\ Timeout(e) # Forever => /\ Timeout(e) <= keepAliveInterval - 10
                                      /\ Timeout(e) = 1 \/ Timeout(e) + e = keepAliveInterval - 10
  BY IntervalAssumption DEF Timeout, Forever

\* A clock that moves on stays within its bound, and moves by at most d.
LEMMA AfterRange ==
    ASSUME NEW clock \in 0..MaxTime, NEW d \in Nat
    PROVE  /\ After(clock, d) \in 0..MaxTime
           /\ clock <= After(clock, d) /\ After(clock, d) <= clock + d
  BY TimeAssumption DEF After, UpTo

\* A clock that is behind another stays behind it.
LEMMA AfterMonotone ==
    ASSUME NEW clock \in 0..MaxTime, NEW other \in 0..MaxTime, NEW d \in Nat, clock <= other
    PROVE  After(clock, d) <= After(other, d)
  BY TimeAssumption DEF After, UpTo

\* What d seconds in which the worker is busy do to the clocks: a link that dies in
\* this time is dead for no longer.
LEMMA BusyStep ==
    ASSUME ClocksOK, Waits, NEW d \in 0..Slow, Busy(d)
    PROVE  /\ d \in Nat /\ elapsed' \in 0..MaxTime /\ dead' \in 0..MaxTime
           /\ peer' \in {"alive", "dead"} /\ elapsed <= elapsed'
           /\ peer' = "alive" => peer = "alive" /\ dead' = 0
           /\ peer' = "dead" => dead' <= elapsed'
           /\ peer = "alive" => dead' <= Slow
           /\ dead' <= dead + Slow
<1> USE DEF ClocksOK, Waits
<1>0. /\ d \in Nat /\ d <= Slow /\ Slow \in Nat /\ Slow < MaxTime /\ MaxTime \in Nat
      /\ keepAliveInterval \in Nat
  BY TimeAssumption, DelayAssumption, IntervalAssumption
<1>1. elapsed' = After(elapsed, d) /\ elapsed' \in 0..MaxTime /\ elapsed <= elapsed'
  BY <1>0, AfterRange DEF Busy
<1>2. CASE peer' = peer /\ dead' = IF peer = "dead" THEN After(dead, d) ELSE dead
  <2>1. CASE peer = "dead"
    <3>1. dead' = After(dead, d) /\ peer' = "dead"
      BY <1>2, <2>1
    <3>2. dead' \in 0..MaxTime /\ dead' <= dead + d
      BY <1>0, <3>1, AfterRange
    <3>3. dead' <= elapsed'
      BY <1>0, <1>1, <2>1, <3>1, AfterMonotone
    <3>4. dead' <= dead + Slow
      BY <1>0, <3>2
    <3>5. QED
      BY <1>0, <1>1, <2>1, <3>1, <3>2, <3>3, <3>4
  <2>2. CASE peer = "alive"
    BY <1>0, <1>1, <1>2, <2>2
  <2>3. QED
    BY <2>1, <2>2
<1>3. CASE peer = "alive" /\ peer' = "dead" /\ dead' \in 0..d
  <2>1. d <= elapsed'
    BY <1>0, <1>1 DEF After, UpTo
  <2>2. QED
    BY <1>0, <1>1, <1>3, <2>1
<1>4. QED
  BY <1>2, <1>3 DEF Busy

\* The worker and the network keep the types.
LEMMA ClocksStep ==
    ASSUME TimingInv, [TimingNext]_timing
    PROVE  ClocksOK'
<1> USE DEF TimingInv, ClocksOK
<1>0. MaxTime \in Nat /\ 0 \in 0..MaxTime /\ Latency \in Nat /\ Slow \in Nat
  BY TimeAssumption, DelayAssumption
<1>1. CASE Select
  BY <1>1, TimeoutRange DEF Select
<1>2. CASE PingReq
  <2>1. PICK d \in 0..Slow :
           /\ Busy(d)
           /\ ping' \in IF peer' = "dead" THEN {NoPing}
                        ELSE IF ping = NoPing THEN 0..UpTo(d, Latency)
                        ELSE {UpTo(ping + d, Latency)}
    BY <1>2 DEF PingReq
  <2>2. /\ d \in Nat /\ elapsed' \in 0..MaxTime /\ dead' \in 0..MaxTime
        /\ peer' \in {"alive", "dead"}
    BY <2>1, BusyStep
  <2>3. ping' \in 0..Latency \cup {NoPing}
    BY <1>0, <2>1, <2>2 DEF UpTo, NoPing
  <2>4. QED
    BY <1>0, <1>2, <2>2, <2>3 DEF PingReq
<1>3. CASE PingTimeout
  BY <1>3 DEF PingTimeout
<1>4. CASE PingResp
  BY <1>0, <1>4 DEF PingResp
<1>5. CASE Cycle
  <2>1. PICK d \in 0..Slow :
           /\ Busy(d)
           /\ ping' = IF ping = NoPing \/ peer' = "dead" THEN NoPing
                      ELSE UpTo(ping + d, Latency)
    BY <1>5 DEF Cycle
  <2>2. /\ d \in Nat /\ elapsed' \in 0..MaxTime /\ dead' \in 0..MaxTime
        /\ peer' \in {"alive", "dead"}
    BY <2>1, BusyStep
  <2>3. ping' \in 0..Latency \cup {NoPing}
    BY <1>0, <2>1, <2>2 DEF UpTo, NoPing
  <2>4. QED
    BY <1>0, <1>5, <2>2, <2>3 DEF Cycle
<1>6. CASE Reconnect
  BY <1>0, <1>6 DEF Reconnect
<1>7. CASE Tick
  <2>1. elapsed' \in 0..MaxTime /\ silent' \in 0..MaxTime /\ dead' \in 0..MaxTime
    BY <1>7, AfterRange DEF Tick
  <2>2. wait' \in Nat \cup {Forever}
    BY <1>7 DEF Tick, Forever
  <2>3. ping' \in 0..Latency \cup {NoPing}
    BY <1>0, <1>7 DEF Tick, NoPing, Waits
  <2>4. QED
    BY <1>7, <2>1, <2>2, <2>3 DEF Tick
<1>8. CASE PeerDies
  BY <1>8 DEF PeerDies
<1>9. CASE UNCHANGED timing
  BY <1>9 DEF timing
<1>10. QED
  BY <1>1, <1>2, <1>3, <1>4, <1>5, <1>6, <1>7, <1>8, <1>9 DEF TimingNext, Loop

\* They keep the bounds on the waits.
LEMMA WaitsStep ==
    ASSUME TimingInv, [TimingNext]_timing
    PROVE  Waits'
<1> USE DEF TimingInv, ClocksOK, Waits
<1>0. Slow \in Nat /\ MaxTime \in Nat
  BY DelayAssumption, TimeAssumption
<1>1. CASE Select
  <2>1. wait' # Forever => wait' <= keepAliveInterval - 10
    BY <1>1, TimeoutRange DEF Select
  <2>2. QED
    BY <1>1, <2>1 DEF Select
<1>2. CASE PingReq
  <2>1. PICK d \in 0..Slow : Busy(d) /\ (peer' = "dead" => ping' = NoPing)
    BY <1>2 DEF PingReq
  <2>2. (peer' = "alive" => dead' = 0) /\ (peer' = "dead" => dead' <= elapsed')
    BY <2>1, BusyStep
  <2>3. stage' # "loop" /\ stage' # "select" /\ wait' = 5
    BY <1>2 DEF PingReq
  <2>4. QED
    BY <2>1, <2>2, <2>3
<1>3. CASE Cycle
  <2>1. PICK d \in 0..Slow : Busy(d) /\ (peer' = "dead" => ping' = NoPing)
    BY <1>3 DEF Cycle
  <2>2. peer = "alive" /\ stage' # "select" /\ stage' # "pong"
    BY <1>3 DEF Cycle
  <2>3. /\ (peer' = "alive" => dead' = 0) /\ (peer' = "dead" => dead' <= elapsed')
        /\ dead' <= Slow
    BY <2>1, <2>2, BusyStep
  <2>4. QED
    BY <2>1, <2>2, <2>3
<1>4. CASE PingTimeout \/ PingResp \/ Reconnect
  BY <1>0, <1>4 DEF PingTimeout, PingResp, Reconnect
<1>5. CASE Tick
  <2>1. stage = "select" /\ wait' # Forever => wait' <= keepAliveInterval - 10
    BY <1>5, IntervalAssumption DEF Tick, Forever
  <2>2. stage = "pong" => wait' \in 0..5
    BY <1>5 DEF Tick, Forever
  <2>3. peer = "dead" => ping' = NoPing /\ dead' <= elapsed'
    BY <1>5, AfterMonotone DEF Tick
  <2>4. peer = "alive" => dead' = 0
    BY <1>5 DEF Tick
  <2>5. QED
    BY <1>5, <2>1, <2>2, <2>3, <2>4 DEF Tick
<1>6. CASE PeerDies
  BY <1>0, <1>6 DEF PeerDies
<1>7. CASE UNCHANGED timing
  BY <1>7 DEF timing
<1>8. QED
  BY <1>1, <1>2, <1>3, <1>4, <1>5, <1>6, <1>7 DEF TimingNext, Loop

\* They keep the sum of the time since the link died and the time to wait.
LEMMA DetectedStep ==
    ASSUME TimingInv, [TimingNext]_timing
    PROVE  DetectedInTime'
<1> USE IntervalAssumption DEF TimingInv, ClocksOK, Waits, DetectedInTime
<1>0. Slow \in Nat /\ Slow < keepAliveInterval - 10 /\ MaxTime \in Nat
  BY DelayAssumption, TimeAssumption
<1>1. CASE Select
  <2>1. wait' = Timeout(elapsed) /\ dead' = dead /\ peer' = peer /\ stage' = "select"
    BY <1>1 DEF Select
  <2>2. dead <= Slow /\ (peer = "dead" => dead <= elapsed)
    BY <1>1 DEF Select
  <2>3. elapsed \in Nat /\ dead \in Nat
    BY <1>0
  <2>4. wait' # Forever => /\ wait' \in Nat
                           /\ wait' = 1 \/ wait' + elapsed = keepAliveInterval - 10
    BY <2>1, <2>3, TimeoutRange
  <2>5. QED
    BY <1>0, <2>1, <2>2, <2>3, <2>4
<1>2. CASE PingReq
  <2>1. PICK d \in 0..Slow : Busy(d)
    BY <1>2 DEF PingReq
  <2>2. /\ dead' \in 0..MaxTime /\ dead' <= dead + Slow
        /\ peer = "alive" => dead' <= Slow
    BY <2>1, BusyStep
  <2>3. peer = "dead" => dead <= keepAliveInterval - 10
    BY <1>0, <1>2 DEF PingReq, Forever
  <2>4. dead' <= keepAliveInterval - 10 + Slow
    BY <1>0, <2>2, <2>3
  <2>5. stage' # "select" /\ wait' = 5
    BY <1>2 DEF PingReq
  <2>6. dead' + 5 + 0 <= keepAliveInterval - 5 + Slow
    <3>1. dead' \in Int /\ keepAliveInterval \in Int /\ Slow \in Int
      BY <1>0, <2>2
    <3>2. \A x, k, t \in Int : x <= k - 10 + t => x + 5 + 0 <= k - 5 + t
      OBVIOUS
    <3>3. QED
      BY ONLY <2>4, <3>1, <3>2
  <2>7. QED
    BY <2>5, <2>6
<1>3. CASE PingTimeout \/ PingResp \/ Cycle \/ Reconnect
  BY <1>3 DEF PingTimeout, PingResp, Cycle, Reconnect
<1>4. CASE Tick
  <2> SUFFICES ASSUME peer = "dead", wait # Forever
               PROVE  DetectedInTime'
    BY <1>4 DEF Tick
  <2> DEFINE rest == IF stage = "select" THEN Slow + 5 ELSE 0
  <2>1. wait' = wait - 1 /\ dead' <= dead + 1 /\ dead' \in 0..MaxTime
    BY <1>4, AfterRange DEF Tick
  <2>2. wait \in Nat /\ rest \in Int
    BY <1>0
  <2>3. stage' = stage /\ stage \in {"select", "pong"}
    BY <1>4 DEF Tick
  <2>4. dead + wait + rest <= keepAliveInterval - 5 + Slow
    BY <2>3
  <2>5. dead' + wait' + rest <= keepAliveInterval - 5 + Slow
    <3>1. \A d, e, w, x, k \in Int : d + w + x <= k /\ e <= d + 1 => e + (w - 1) + x <= k
      OBVIOUS
    <3>2. /\ dead \in Int /\ dead' \in Int /\ wait \in Int
          /\ keepAliveInterval - 5 + Slow \in Int
      BY <1>0, <2>1, <2>2
    <3>3. QED
      BY ONLY <2>1, <2>2, <2>4, <3>1, <3>2
  <2>6. QED
    BY <2>3, <2>5
<1>5. CASE PeerDies
  BY <1>0, <1>5 DEF PeerDies, Forever
<1>6. CASE UNCHANGED timing
  BY <1>6 DEF timing
<1>7. QED
  BY <1>1, <1>2, <1>3, <1>4, <1>5, <1>6 DEF TimingNext, Loop

\* The invariant holds in every reachable state.
LEMMA TimingInvariant == TimingSpec => []TimingInv
<1>1. TimingInit => TimingInv
  <2>1. TimingInit => ClocksOK
    <3>1. 0 \in Nat /\ 0 \in 0..MaxTime /\ FALSE \in BOOLEAN
      BY TimeAssumption
    <3>2. QED
      BY <3>1 DEF TimingInit, ClocksOK
  <2>2. TimingInit => Waits /\ DetectedInTime
    BY DelayAssumption DEF TimingInit, Waits, DetectedInTime
  <2>3. QED
    BY <2>1, <2>2 DEF TimingInv
<1>2. TimingInv /\ [TimingNext]_timing => TimingInv'
  BY ClocksStep, WaitsStep, DetectedStep DEF TimingInv
<1>3. QED
  BY <1>1, <1>2, PTL DEF TimingSpec

\* The clocks and waits of the worker's loop keep their ranges.
THEOREM ClocksCorrect == TimingSpec => []ClocksOK
<1>1. TimingInv => ClocksOK
  BY DEF TimingInv
<1>2. QED
  BY <1>1, TimingInvariant, PTL

\* For every keepAliveInterval above ten and every time that sending a packet may
\* take, if it leaves ten seconds of the interval: whatever arrives before the link
\* dies, and although it may die while the worker is busy, a select that has a
\* timeout leads to _mqtt_disconnect at most keepAliveInterval - 5 seconds after the
\* link died, and the time that sending the PINGREQ took.
THEOREM DetectedInTimeCorrect == TimingSpec => []DetectedInTime
<1>1. TimingInv => DetectedInTime
  BY DEF TimingInv
<1>2. QED
  BY <1>1, TimingInvariant, PTL

-----------------------------------------------------------------------------
(* The timing of the loop: a live link.                                    *)

\* The state of a live link.  With a PINGREQ on its way, it was the last packet sent
\* or a later one was.  Without one, and unless the worker was busy when its time
\* came, the time passed and the time to wait make up the interval less ten seconds,
\* so the timeout is never Forever, and the last packet went out at most the broker's
\* Latency before tick_ping was set.
OnTime ==
    peer = "alive" /\ stage # "lost" =>
        IF ping # NoPing THEN silent <= ping
        ELSE ~overrun =>
             /\ stage # "pong"
             /\ elapsed <= keepAliveInterval - 10
             /\ stage = "select" => wait \in Nat /\ wait + elapsed = keepAliveInterval - 10
             /\ silent <= elapsed + Latency

\* A clock that does not reach its bound moves on by a second.
LEMMA AfterExact ==
    ASSUME NEW clock \in 0..MaxTime, clock < MaxTime
    PROVE  After(clock, 1) = clock + 1
  BY TimeAssumption DEF After, UpTo

\* The worker and the network keep a live link on time.
LEMMA OnTimeStep ==
    ASSUME TimingInv, OnTime, [TimingNext]_timing
    PROVE  OnTime'
<1> DEFINE Waiting == /\ stage # "pong"
                      /\ elapsed <= keepAliveInterval - 10
                      /\ stage = "select" => /\ wait \in Nat
                                             /\ wait + elapsed = keepAliveInterval - 10
                      /\ silent <= elapsed + Latency
<1> SUFFICES ASSUME peer' = "alive", stage' # "lost"
             PROVE  IF ping' # NoPing THEN silent' <= ping' ELSE ~overrun' => Waiting'
  BY DEF OnTime
<1> USE IntervalAssumption, DelayAssumption DEF TimingInv, ClocksOK
<1>0. MaxTime \in Nat
  BY TimeAssumption
<1>1. CASE Select
  <2>1. elapsed \in Nat /\ (elapsed <= keepAliveInterval - 10 =>
            /\ Timeout(elapsed) \in Nat
            /\ Timeout(elapsed) + elapsed = keepAliveInterval - 10)
    BY TimeAssumption DEF Timeout
  <2>2. QED
    BY <1>1, <2>1 DEF Select, OnTime
<1>2. CASE PingReq
  <2>1. PICK d \in 0..Slow :
           ping' \in IF peer' = "dead" THEN {NoPing}
                     ELSE IF ping = NoPing THEN 0..UpTo(d, Latency)
                     ELSE {UpTo(ping + d, Latency)}
    BY <1>2 DEF PingReq
  <2>2. d \in Nat /\ silent' = 0
    BY <1>2 DEF PingReq
  <2>3. ping' # NoPing /\ 0 <= ping'
    BY <2>1, <2>2 DEF UpTo, NoPing
  <2>4. QED
    BY <2>2, <2>3
<1>3. CASE PingTimeout
  BY <1>3 DEF PingTimeout
<1>4. CASE PingResp
  BY <1>4 DEF PingResp, OnTime
<1>5. CASE Cycle
  <2>1. PICK d \in 0..Slow :
           /\ Busy(d)
           /\ ping' = IF ping = NoPing \/ peer' = "dead" THEN NoPing
                      ELSE UpTo(ping + d, Latency)
    BY <1>5 DEF Cycle
  <2>2. d \in Nat /\ elapsed <= elapsed' /\ elapsed' \in Nat /\ elapsed \in Nat
    BY <1>0, <2>1, BusyStep
  <2>3. peer = "alive" /\ stage # "lost" /\ stage' = "loop"
    BY <1>5 DEF Cycle
  <2>4. silent' \in Nat /\ silent \in Nat /\ silent' <= silent
    BY <1>0, <1>5 DEF Cycle
  <2>5. CASE ping = NoPing
    <3>1. ping' = NoPing
      BY <2>1, <2>5
    <3>2. ASSUME ~overrun' PROVE ~overrun /\ ~(elapsed' > keepAliveInterval - 10)
      BY ZenonT(20), <1>5, <2>5, <3>2 DEF Cycle
    <3>3. ASSUME ~overrun' PROVE Waiting'
      <4>1. silent <= elapsed + Latency
        BY <2>3, <2>5, <3>2, <3>3 DEF OnTime
      <4>2. silent' <= elapsed' + Latency
        <5>1. \A a, b, x, y, l \in Nat : x <= y /\ b <= a /\ a <= x + l => b <= y + l
          OBVIOUS
        <5>2. Latency \in Nat
          BY DelayAssumption
        <5>3. QED
          BY ONLY <2>2, <2>4, <4>1, <5>1, <5>2
      <4>3. ~(elapsed' > keepAliveInterval - 10)
        BY ZenonT(20), <3>2, <3>3
      <4>4. elapsed' <= keepAliveInterval - 10
        BY ONLY <2>2, <4>3, IntervalAssumption
      <4>5. QED
        BY <2>3, <4>2, <4>4
    <3>4. QED
      BY <3>1, <3>3
  <2>6. CASE ping # NoPing
    <3>1. silent <= ping /\ ping \in 0..Latency
      BY <2>3, <2>6 DEF OnTime
    <3>2. ping' = UpTo(ping + d, Latency)
      BY <2>1, <2>6
    <3>3. ping <= ping' /\ ping' \in Nat
      BY <2>2, <3>1, <3>2 DEF UpTo
    <3>4. QED
      BY <2>4, <3>1, <3>3 DEF NoPing
  <2>7. QED
    BY <2>5, <2>6
<1>6. CASE Reconnect
  BY <1>6 DEF Reconnect
<1>7. CASE Tick
  <2>1. silent' <= silent + 1 /\ silent' \in Nat
    BY <1>7, AfterRange, TimeAssumption DEF Tick
  <2>2. CASE ping # NoPing
    BY SMTT(20), <1>7, <2>1, <2>2 DEF Tick, OnTime, NoPing
  <2>3. CASE ping = NoPing /\ ~overrun
    <3>1. /\ stage = "select" /\ wait \in Nat /\ wait # 0 /\ wait # Forever
          /\ wait + elapsed = keepAliveInterval - 10 /\ silent <= elapsed + Latency
      BY SMTT(20), <1>7, <2>3 DEF Tick, OnTime, Forever
    <3>2. elapsed' = elapsed + 1
      BY <1>7, <3>1, TimeAssumption, AfterExact DEF Tick
    <3>3. wait' = wait - 1 /\ ping' = NoPing /\ stage' = stage
      BY <1>7, <2>3, <3>1 DEF Tick
    <3>4. QED
      BY <2>1, <3>1, <3>2, <3>3
  <2>4. CASE ping = NoPing /\ overrun
    BY <1>7, <2>4 DEF Tick
  <2>5. QED
    BY <2>2, <2>3, <2>4
<1>8. CASE PeerDies
  BY <1>8 DEF PeerDies
<1>9. CASE UNCHANGED timing
  BY <1>9 DEF timing, OnTime
<1>10. QED
  BY <1>1, <1>2, <1>3, <1>4, <1>5, <1>6, <1>7, <1>8, <1>9 DEF TimingNext, Loop

\* For every keepAliveInterval above ten and every time that a packet may keep the
\* worker busy: unless that was the case when the time for a PINGREQ came, the loop's
\* select has no end on a live link only while a PINGRESP is under way, and with a
\* broker that answers within five seconds the worker waits no more than
\* keepAliveInterval - 5 seconds between two packets that it sends.
THEOREM SendsInTimeCorrect == TimingSpec => []SendsInTime
<1>1. TimingInit => OnTime
  BY IntervalAssumption, DelayAssumption DEF TimingInit, OnTime, NoPing
<1>2. TimingInv /\ OnTime /\ [TimingNext]_timing => OnTime'
  BY OnTimeStep
<1>3. TimingInv /\ OnTime => SendsInTime
  BY IntervalAssumption, DelayAssumption
     DEF TimingInv, ClocksOK, OnTime, SendsInTime, Forever, NoPing
<1>4. QED
  BY <1>1, <1>2, <1>3, TimingInvariant, PTL DEF TimingSpec
=============================================================================
