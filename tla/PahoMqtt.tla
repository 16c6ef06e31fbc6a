------------------------------ MODULE PahoMqtt ------------------------------
(***************************************************************************)
(* The device's MQTT client: the worker thread of paho_mqtt_pipe.c with    *)
(* the callbacks of wifi_mqtt.c, the pipe between MQTTPublish and the      *)
(* worker, and a broker at the other end of a TCP connection (external).   *)
(* Both callers of mqtt_publish, the subscription callback and the online  *)
(* callback, run in the worker itself: it is the only writer and the only  *)
(* reader of the pipe.                                                     *)
(***************************************************************************)
EXTENDS Naturals, Sequences

CONSTANTS Command,      \* messages the broker may forward on topic "Applets"
          Reply,        \* what mqtt_sub_callback publishes for a command
          NoReply,      \* the "reply" to a command that has none
          Online,       \* the payload "DEVICE_ONLINE"
          PayloadLen,   \* length of each payload
          PIPE_BUFSZ,   \* size of the pipe
          MaxCommands,  \* bound: commands forwarded
          MaxFaults     \* bound: dead links, refusals and timeouts

Payload == ({Online} \cup {Reply[c] : c \in Command}) \ {NoReply}
Control == {"CONNACK", "REFUSED", "SUBACK", "SUBFAIL", "PUBACK", "PINGRESP"}

ASSUME ReplyAssumption == Reply \in [Command -> (Payload \cup {NoReply})]
ASSUME NoReplyAssumption == NoReply # Online
ASSUME LenAssumption == PayloadLen \in [Payload -> Nat]
ASSUME PipeAssumption == PIPE_BUFSZ \in Nat \ {0}
ASSUME LimitAssumption == MaxCommands \in Nat /\ MaxFaults \in Nat
ASSUME CommandAssumption == Command \cap Control = {}

VARIABLES
    pc,           \* where paho_mqtt_thread stands
    isconnected,
    link,         \* TCP connection and broker session: "closed", "open",
                  \* "subscribed", or "dead" when the peer is gone
    rx, tx,       \* packets in flight towards the worker, towards the broker
    pipe,         \* records in the publish pipe, oldest first
    pipe_len,     \* bytes in the pipe
    published,    \* history: how many records MQTTPublish accepted
    sent,         \* history: numbers of the records put on the wire
    forwarded,    \* history: commands forwarded on this connection
    executed,     \* history: commands the callback ran on this connection
    acked,        \* history: how many PUBACKs went out on this connection
    commands, faults  \* how much of the bounds is used up

queues == <<pipe, pipe_len, published>>
session == <<forwarded, executed, acked>>
bounds == <<commands, faults>>
vars == <<pc, isconnected, link, rx, tx, queues, sent, session, bounds>>

Alive == link \in {"open", "subscribed"}

Init ==
    /\ pc = "start" /\ isconnected = FALSE /\ link = "closed"
    /\ rx = <<>> /\ tx = <<>> /\ pipe = <<>> /\ pipe_len = 0
    /\ published = 0 /\ sent = <<>> /\ forwarded = <<>> /\ executed = <<>>
    /\ acked = 0 /\ commands = 0 /\ faults = 0

Fault == faults < MaxFaults /\ faults' = faults + 1

-----------------------------------------------------------------------------
(* Steps that several handlers share.                                      *)

\* MQTTPublish writes [MQTTMessage] + [payload] + [topic "Device"] + '\0'.
msg_len(p) == 16 + PayloadLen[p] + 7
Publishes(p) == p # NoReply /\ isconnected

Fits(p) == Publishes(p) => pipe_len + msg_len(p) <= PIPE_BUFSZ

\* mqtt_publish of a record that fits; nothing happens without a connection.
MQTTPublish(p) ==
    IF Publishes(p)
      THEN /\ pipe' = Append(pipe, [id |-> published + 1, payload |-> p])
           /\ pipe_len' = pipe_len + msg_len(p)
           /\ published' = published + 1
      ELSE UNCHANGED queues

\* Mutant: a write that does not fit gives up, and so does the handler.
WriteBlocks_returns == pc' = "loop" /\ UNCHANGED queues

\* A record that does not fit is written in part, then pipe_fops_write waits
\* for somebody to read the pipe.
WriteBlocks ==
    /\ pc' = "full"
    /\ pipe_len' = PIPE_BUFSZ
    /\ UNCHANGED <<pipe, published>>

\* Mutant: the connected flag survives the disconnection.
Disconnect_keeps_flag ==
    /\ pc' = "delay" /\ link' = "closed" /\ rx' = <<>> /\ tx' = <<>>
    /\ UNCHANGED isconnected

\* _mqtt_disconnect and _mqtt_restart: MQTTDisconnect, the offline callback and
\* net_disconnect.  Records still in the pipe stay there.
Disconnect ==
    /\ pc' = "delay" /\ isconnected' = FALSE /\ link' = "closed"
    /\ rx' = <<>> /\ tx' = <<>>

\* sendPacket on a dead link loses the packet, or reports an error.
Send(packet) == tx' = IF Alive THEN Append(tx, packet) ELSE tx
SendFails == link = "dead" /\ Disconnect

-----------------------------------------------------------------------------
(* paho_mqtt_thread: connecting.                                           *)

\* _mqtt_start begins with the connect callback.
ConnectCallback ==
    /\ pc = "start" /\ pc' = "net"
    /\ UNCHANGED <<isconnected, link, rx, tx, queues, sent, session, bounds>>

\* net_connect, then MQTTConnect, which refuses to run when already connected.
NetConnect ==
    /\ pc = "net"
    /\ \/ /\ ~isconnected
          /\ pc' = "connect" /\ link' = "open"
          /\ tx' = <<"CONNECT">>
          /\ forwarded' = <<>> /\ executed' = <<>> /\ acked' = 0
          /\ UNCHANGED <<isconnected, rx, faults>>
       \/ /\ ~isconnected => faults < MaxFaults
          /\ faults' = IF isconnected THEN faults ELSE faults + 1
          /\ pc' = "delay"
          /\ UNCHANGED <<isconnected, link, rx, tx, session>>
    /\ UNCHANGED <<queues, sent, commands>>

\* MQTTConnect reads its answer; MQTTSubscribe sends its request.
Connack ==
    /\ pc = "connect" /\ rx # <<>>
    /\ IF Head(rx) = "CONNACK"
         THEN \/ /\ isconnected' = TRUE
                 /\ rx' = Tail(rx) /\ Send("SUBSCRIBE")
                 /\ pc' = "subscribe" /\ UNCHANGED link
              \/ SendFails
         ELSE Disconnect
    /\ UNCHANGED <<queues, sent, session, bounds>>

\* Mutant: packets before the SUBACK are skipped.
Suback_skips ==
    /\ pc = "subscribe" /\ rx # <<>>
    /\ rx' = Tail(rx)
    /\ IF Head(rx) = "SUBACK"
         THEN IF Fits(Online) THEN MQTTPublish(Online) /\ pc' = "loop" ELSE WriteBlocks
         ELSE UNCHANGED <<pc, queues>>
    /\ UNCHANGED <<isconnected, link, tx, sent, session, bounds>>

\* MQTTSubscribe takes the next packet for its answer: any packet but a good
\* SUBACK ends the connection.  Then the online callback publishes.
Suback ==
    /\ pc = "subscribe" /\ rx # <<>>
    /\ IF Head(rx) = "SUBACK"
         THEN /\ rx' = Tail(rx)
              /\ IF Fits(Online) THEN MQTTPublish(Online) /\ pc' = "loop"
                                 ELSE WriteBlocks
              /\ UNCHANGED <<isconnected, link, tx>>
         ELSE Disconnect /\ UNCHANGED queues
    /\ UNCHANGED <<sent, session, bounds>>

-----------------------------------------------------------------------------
(* paho_mqtt_thread: the loop.  A readable socket is served before the pipe. *)

\* MQTT_cycle on an acknowledgement or a PINGRESP.
CycleControl ==
    /\ pc \in {"loop", "pong"} /\ rx # <<>> /\ Head(rx) \in Control
    /\ pc' = "loop" /\ rx' = Tail(rx)
    /\ UNCHANGED <<isconnected, link, tx, queues, sent, session, bounds>>

\* MQTT_cycle on a PUBLISH: deliverMessage runs mqtt_sub_callback, which acts
\* and publishes its reply into the pipe; then the PUBACK is sent.
CycleCommand ==
    /\ pc \in {"loop", "pong"} /\ rx # <<>> /\ Head(rx) \in Command
    /\ executed' = Append(executed, Head(rx))
    /\ LET p == Reply[Head(rx)] IN
       IF Fits(p)
         THEN /\ MQTTPublish(p)
              /\ \/ /\ Send("PUBACK") /\ acked' = acked + 1 /\ pc' = "loop"
                    /\ rx' = Tail(rx) /\ UNCHANGED <<isconnected, link>>
                 \/ SendFails /\ UNCHANGED acked
         ELSE /\ WriteBlocks
              /\ rx' = Tail(rx) /\ UNCHANGED <<isconnected, link, tx, acked>>
    /\ UNCHANGED <<sent, forwarded, bounds>>

\* Mutant: the pipe is not emptied by the read.
PipeRead_keeps ==
    /\ pc = "loop" /\ rx = <<>> /\ pipe # <<>>
    /\ Send(Head(pipe).payload)
    /\ sent' = IF Len(sent) > MaxCommands THEN sent ELSE Append(sent, Head(pipe).id)
    /\ UNCHANGED <<pc, isconnected, link, rx, queues, session, bounds>>

\* read() returns the whole content of the pipe; the first record is sent and
\* the rest of the buffer is never looked at.
PipeRead ==
    /\ pc = "loop" /\ rx = <<>> /\ pipe # <<>>
    /\ pipe' = <<>> /\ pipe_len' = 0
    /\ \/ /\ Send(Head(pipe).payload) /\ sent' = Append(sent, Head(pipe).id)
          /\ UNCHANGED <<pc, isconnected, link, rx>>
       \/ SendFails /\ UNCHANGED sent
    /\ UNCHANGED <<published, session, bounds>>

\* select timed out with nothing to do: send a PINGREQ and wait for an answer.
Ping ==
    /\ pc = "loop" /\ rx = <<>> /\ pipe = <<>>
    /\ \/ Send("PINGREQ") /\ pc' = "pong" /\ UNCHANGED <<isconnected, link, rx>>
       \/ SendFails
    /\ UNCHANGED <<queues, sent, session, bounds>>

\* No answer within 5 s, or the socket reports that the peer is gone.
Fail ==
    /\ pc \in {"connect", "subscribe", "loop", "pong"} /\ rx = <<>>
    /\ \/ link = "dead" /\ UNCHANGED faults
       \/ pc # "loop" /\ Alive /\ Fault
    /\ Disconnect
    /\ UNCHANGED <<queues, sent, session, commands>>

\* rt_thread_delay, then "restart!".
Delay ==
    /\ pc = "delay" /\ pc' = "start"
    /\ UNCHANGED <<isconnected, link, rx, tx, queues, sent, session, bounds>>

-----------------------------------------------------------------------------
(* The broker and the network (external).                                  *)

Answer(packets) == rx' = rx \o packets /\ tx' = Tail(tx)

BrokerConnect ==
    /\ tx # <<>> /\ Head(tx) = "CONNECT"
    /\ \/ Answer(<<"CONNACK">>) /\ UNCHANGED faults
       \/ Answer(<<"REFUSED">>) /\ Fault
    /\ UNCHANGED <<pc, isconnected, link, queues, sent, session, commands>>

\* The broker may forward a message before it acknowledges the subscription.
BrokerSubscribe ==
    /\ tx # <<>> /\ Head(tx) = "SUBSCRIBE"
    /\ link' = "subscribed"
    /\ \/ Answer(<<"SUBACK">>) /\ UNCHANGED <<forwarded, bounds>>
       \/ Answer(<<"SUBFAIL">>) /\ Fault /\ UNCHANGED <<forwarded, commands>>
       \/ \E c \in Command :
             /\ commands < MaxCommands /\ commands' = commands + 1
             /\ Answer(<<c, "SUBACK">>)
             /\ forwarded' = Append(forwarded, c)
             /\ UNCHANGED faults
    /\ UNCHANGED <<pc, isconnected, queues, sent, executed, acked>>

BrokerReceive ==
    /\ tx # <<>> /\ Head(tx) \notin {"CONNECT", "SUBSCRIBE"}
    /\ Answer(IF Head(tx) = "PUBACK" THEN <<>>
              ELSE IF Head(tx) = "PINGREQ" THEN <<"PINGRESP">> ELSE <<"PUBACK">>)
    /\ UNCHANGED <<pc, isconnected, link, queues, sent, session, bounds>>

\* Somebody publishes a command on topic "Applets".
Forward ==
    /\ link = "subscribed"
    /\ commands < MaxCommands /\ commands' = commands + 1
    /\ \E c \in Command : rx' = Append(rx, c) /\ forwarded' = Append(forwarded, c)
    /\ UNCHANGED <<pc, isconnected, link, tx, queues, sent, executed, acked, faults>>

\* The peer disappears.  What has arrived can still be read.  How the worker
\* finds out is abstract here (Fail, SendFails); KeepAlive has the timing.
LinkDies ==
    /\ Alive /\ Fault
    /\ link' = "dead" /\ tx' = <<>>
    /\ UNCHANGED <<pc, isconnected, rx, queues, sent, session, commands>>

-----------------------------------------------------------------------------
Worker == \/ ConnectCallback \/ NetConnect \/ Connack \/ Suback
          \/ CycleControl \/ CycleCommand \/ PipeRead \/ Ping \/ Fail \/ Delay
Broker == BrokerConnect \/ BrokerSubscribe \/ BrokerReceive
Next == Worker \/ Broker \/ Forward \/ LinkDies

Spec == Init /\ [][Next]_vars

\* What the worker does without waiting, or after a wait that always ends: the 5 s
\* for an answer.  The timeout of the loop's own select is not among them: it may be
\* negative, which select takes for "for ever" (KeepAlive).
Prompt == \/ ConnectCallback \/ NetConnect \/ Connack \/ Suback
          \/ CycleControl \/ CycleCommand \/ PipeRead \/ (pc # "loop" /\ Fail) \/ Delay

\* The worker runs when it can (its priority is above all but equal to main's),
\* and a broker that is reachable answers.
FairSpec == Spec /\ WF_vars(Prompt) /\ WF_vars(Broker)

-----------------------------------------------------------------------------
(* Properties.                                                             *)

Packet == {"CONNECT", "SUBSCRIBE", "PINGREQ", "PUBACK"} \cup Payload

TypeOK ==
    /\ pc \in {"start", "net", "connect", "subscribe", "loop", "pong", "full", "delay"}
    /\ isconnected \in BOOLEAN
    /\ link \in {"closed", "open", "subscribed", "dead"}
    /\ rx \in Seq(Control \cup Command) /\ tx \in Seq(Packet)
    /\ pipe \in Seq([id : Nat, payload : Payload])
    /\ pipe_len \in 0..PIPE_BUFSZ
    /\ published \in Nat /\ sent \in Seq(Nat)
    /\ forwarded \in Seq(Command) /\ executed \in Seq(Command) /\ acked \in Nat
    /\ commands \in 0..MaxCommands /\ faults \in 0..MaxFaults

\* isconnected holds exactly from the CONNACK to the disconnection.  A flag
\* left behind would make MQTTConnect fail on every later attempt; a flag
\* missing would make MQTTPublish drop the reply to a command.
ConnectedFlag == isconnected <=> pc \in {"subscribe", "loop", "pong", "full"}

\* s is q without the packets that are no commands: its elements stand in q at
\* the positions of the commands, in the same order.
CommandsOf(q, s) ==
    \E at \in [1..Len(s) -> 1..Len(q)] :
        /\ \A i, j \in 1..Len(s) : i < j => at[i] < at[j]
        /\ {at[i] : i \in 1..Len(s)} = {k \in 1..Len(q) : q[k] \in Command}
        /\ \A i \in 1..Len(s) : s[i] = q[at[i]]

\* While a connection lasts, the commands run so far and those still unread
\* are the commands forwarded on it: each runs once, in order, none is skipped.
ExecutedInOrder == link # "closed" => CommandsOf(executed \o rx, forwarded)

\* Only commands that were run are acknowledged, and a worker back in its loop
\* has acknowledged all of them.
AckAfterExecute ==
    /\ acked <= Len(executed)
    /\ pc \in {"loop", "pong"} => acked = Len(executed)

\* Records leave in the order MQTTPublish took them and none leaves twice,
\* across reconnections too, where records of the old connection remain.
SentInOrder ==
    \A i, j \in 1..Len(sent) : i < j => sent[i] < sent[j]

\* The worker waits in select on a dead link, with nothing to send.
Unaware == pc = "loop" /\ link = "dead" /\ rx = <<>> /\ pipe = <<>>

\* Once links stop dying and answers stop being late, the client is connected and
\* subscribed over a link that is alive, and stays so.  The reconnection loop has
\* two dead ends and no other: a worker that waits for room in its own pipe, and
\* one that select never tells of a link that died in its loop.
EventuallyOnline ==
    \/ <>[](pc \in {"loop", "pong"} /\ link = "subscribed")
    \/ <>[](pc = "full")
    \/ <>[]Unaware

\* Records do not stay in the pipe when the socket, which goes first, falls silent:
\* the worker comes back to the pipe from any state it is in, whether the link is
\* alive or dead, unless it waits for room.
PipeDrains == pipe # <<>> ~> pipe = <<>> \/ pc = "full"

-----------------------------------------------------------------------------
(* What the package's documentation says, and the code does not do.        *)

\* "This function publish message to specified mqtt topic": without a fault,
\* every record MQTTPublish accepted goes out, so none is missing among those
\* already sent.
AcceptedIsSent == faults = 0 => \A i \in 1..Len(sent) : sent[i] = i

\* "Pipe model, non-blocking API": MQTTPublish does not block its caller.
PublishNeverBlocks == pc # "full"
=============================================================================
