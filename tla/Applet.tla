------------------------------- MODULE Applet -------------------------------
(***************************************************************************)
(* The page of the WeChat applet and the MQTT client under it: what the    *)
(* page publishes (QoS 1), the client's store of publishes that have no    *)
(* acknowledgement, its replay after a reconnection, the subscription, the *)
(* reconnect and ping timers, over one socket of the WeChat runtime.       *)
(* Callbacks run to their end, so a handler is one step.  A publish is     *)
(* identified by its number; what it says does not matter here.            *)
(***************************************************************************)
EXTENDS Naturals, Sequences

CONSTANTS
    MaxId,       \* the largest message identifier (65535)
    MaxPublish,  \* bound: publishes of the page
    MaxFault     \* bound: times the connection breaks

ASSUME BoundAssumption == MaxId \in Nat \ {0} /\ MaxPublish \in Nat /\ MaxFault \in Nat

VARIABLES
    page,             \* "hidden" after onLoad and onHide, "shown", "closed"
    connected, firstConnection, reconnectTimer, nextId,
    outgoingStore,    \* publishes without PUBACK, in the order of the Map
    queue,            \* SUBSCRIBE packets that wait for the connection
    storeProcessing,
    outStore,         \* what the replay has still to read
    awaited,          \* the identifier whose PUBACK continues the replay; 0: none
    fresh,            \* _packetIdsDuringStoreProcessing: the ids that are false
    link,             \* "none", "open", "dead" (open, but nothing gets through)
    up, down,         \* packets on their way
    subscribed,       \* the broker's subscription for this connection (external)
    received,         \* history: publishes the broker has received, in order
    sent,             \* history: publishes written on this connection, in order
    published,        \* history: number of publishes so far
    reused,           \* history: an id was reused while its packet was stored
    faults

client == <<connected, firstConnection, reconnectTimer, nextId, outgoingStore, queue,
            storeProcessing, outStore, awaited, fresh>>
net == <<link, up, down>>
vars == <<page, client, net, subscribed, received, sent, published, reused, faults>>

Publish(p) == [cmd |-> "publish", id |-> p.id, n |-> p.n]
Packet(c) == [cmd |-> c, id |-> 0, n |-> 0]

\* Writing on a dead link succeeds and reaches nobody.
Written(ps) == IF link = "open" THEN up \o ps ELSE up

-----------------------------------------------------------------------------
(* The store and the replay.                                               *)

\* Map.set: an identifier that is in use keeps its place.
put(store, p) ==
    IF \E i \in 1..Len(store) : store[i].id = p.id
      THEN [i \in 1..Len(store) |-> IF store[i].id = p.id THEN p ELSE store[i]]
      ELSE Append(store, p)

\* Map.delete: an identifier occurs once at most.
del(store, id) ==
    IF \E i \in 1..Len(store) : store[i].id = id
      THEN LET k == CHOOSE i \in 1..Len(store) : store[i].id = id
           IN  SubSeq(store, 1, k - 1) \o SubSeq(store, k + 1, Len(store))
      ELSE store

\* Mutant: the identifier is not wrapped to 16 bits.
NextId_unbounded == nextId + 1

NextId == IF nextId = MaxId THEN 1 ELSE nextId + 1

\* Mutant: a publish overtakes the replay.
SendsNow_early == connected

\* A publish is written at once only while connected and not in the replay.
SendsNow == connected /\ ~storeProcessing

\* Mutant: a publish that is written at once is not stored.
Kept_unsent(p) == IF SendsNow THEN outgoingStore ELSE put(outgoingStore, p)

\* storeAndSend and storePacket alike put it into the store first.
Kept(p) == put(outgoingStore, p)

\* MqttClient.publish.
publish ==
    LET p == [id |-> nextId, n |-> published + 1]
    IN  /\ published < MaxPublish /\ published' = published + 1
        /\ nextId' = NextId /\ outgoingStore' = Kept(p)
        /\ reused' = (reused \/ \E i \in 1..Len(outgoingStore) : outgoingStore[i].id = p.id)
        /\ fresh' = IF storeProcessing THEN fresh \cup {p.id} ELSE fresh
        /\ up' = IF SendsNow THEN Written(<<Publish(p)>>) ELSE up
        /\ sent' = IF SendsNow THEN Append(sent, p.n) ELSE sent

\* storeDeliver: the next packet of the replay is written and its PUBACK awaited;
\* at the end of the stream nothing happens until its "end" event.
storeDeliver(packets, new) ==
    IF packets = <<>>
      THEN awaited' = 0 /\ outStore' = <<>> /\ fresh' = new /\ UNCHANGED <<up, sent>>
      ELSE /\ awaited' = Head(packets).id /\ outStore' = Tail(packets)
           /\ fresh' = new \ {Head(packets).id}
           /\ up' = Written(<<Publish(Head(packets))>>)
           /\ sent' = Append(sent, Head(packets).n)

-----------------------------------------------------------------------------
(* The page.                                                               *)

\* onShow publishes and starts the timer; the timer and the buttons publish
\* while the page is shown, the buttons only when the client is connected.
onShow ==
    /\ page = "hidden" /\ page' = "shown" /\ publish
    /\ UNCHANGED <<connected, firstConnection, reconnectTimer, queue, storeProcessing,
                   outStore, awaited, link, down, subscribed, received, faults>>

Poll ==
    /\ page = "shown" /\ publish
    /\ UNCHANGED <<page, connected, firstConnection, reconnectTimer, queue,
                   storeProcessing, outStore, awaited, link, down, subscribed,
                   received, faults>>

onClick == connected /\ Poll

onHide ==
    /\ page = "shown" /\ page' = "hidden"
    /\ UNCHANGED <<client, net, subscribed, received, sent, published, reused, faults>>

\* onUnload publishes APPLETS_OFFLINE and leaves the client running.
onUnload ==
    /\ page # "closed" /\ page' = "closed" /\ publish
    /\ UNCHANGED <<connected, firstConnection, reconnectTimer, queue, storeProcessing,
                   outStore, awaited, link, down, subscribed, received, faults>>

\* "DEVICE_ONLINE" is answered with a request for all values.
onDeviceOnline ==
    /\ subscribed /\ link = "open" /\ connected /\ publish
    /\ UNCHANGED <<page, connected, firstConnection, reconnectTimer, queue,
                   storeProcessing, outStore, awaited, link, down, subscribed,
                   received, faults>>

-----------------------------------------------------------------------------
(* The client.                                                             *)

\* After the first connection every CONNACK queues another SUBSCRIBE.
resubscribe ==
    IF firstConnection
      THEN queue' = queue /\ nextId' = nextId
      ELSE queue' = Append(queue, Packet("subscribe")) /\ nextId' = NextId

\* _handleConnack and onConnect: the replay starts on a copy of the store.
onConnect ==
    /\ link = "open" /\ down # <<>> /\ Head(down).cmd = "connack" /\ down' = Tail(down)
    /\ resubscribe /\ firstConnection' = FALSE
    /\ connected' = TRUE /\ storeProcessing' = TRUE
    /\ storeDeliver(outgoingStore, {})
    /\ UNCHANGED <<page, reconnectTimer, outgoingStore, link, subscribed, received,
                   published, reused, faults>>

\* PUBACK: the packet leaves the store; in the replay the next one is sent.
handleAck ==
    /\ link = "open" /\ down # <<>> /\ Head(down).cmd = "puback" /\ down' = Tail(down)
    /\ outgoingStore' = del(outgoingStore, Head(down).id)
    /\ IF awaited = Head(down).id
         THEN storeDeliver(outStore, fresh)
         ELSE UNCHANGED <<outStore, awaited, fresh, up, sent>>
    /\ UNCHANGED <<page, connected, firstConnection, reconnectTimer, nextId, queue,
                   storeProcessing, link, subscribed, received, published, reused,
                   faults>>

\* The "end" of the replay.  With nothing published meanwhile the "connect" event
\* sends the queue; otherwise the store is replayed again.
EndOfStore ==
    /\ storeProcessing /\ awaited = 0 /\ outStore = <<>>
    /\ IF fresh = {}
         THEN /\ storeProcessing' = FALSE /\ queue' = <<>> /\ up' = Written(queue)
              /\ UNCHANGED <<outStore, awaited, fresh, sent>>
         ELSE storeDeliver(outgoingStore, fresh) /\ UNCHANGED <<storeProcessing, queue>>
    /\ UNCHANGED <<page, connected, firstConnection, reconnectTimer, nextId,
                   outgoingStore, link, down, subscribed, received, published, reused,
                   faults>>

\* The socket is closed: the "close" handlers of the client and of the replay.
\* The broker forgets a client with a clean session.
Close ==
    /\ link' = "none" /\ up' = <<>> /\ down' = <<>> /\ subscribed' = FALSE
    /\ connected' = FALSE /\ reconnectTimer' = TRUE
    /\ storeProcessing' = FALSE /\ outStore' = <<>> /\ awaited' = 0 /\ fresh' = {}
    /\ sent' = <<>>
    /\ UNCHANGED <<page, firstConnection, nextId, outgoingStore, queue, received,
                   published, reused>>

\* The socket reports that the connection broke.
onClose == link = "open" /\ faults < MaxFault /\ faults' = faults + 1 /\ Close

\* No CONNACK came in time: _cleanUp destroys the stream.
connackTimeout == link = "dead" /\ ~connected /\ Close /\ UNCHANGED faults

\* Mutant: the ping timer is not set up.
checkPing_never == FALSE /\ UNCHANGED vars

\* The ping timer expires twice without an answer.  Every packet that _sendPacket
\* writes puts the timer off, and the page publishes every two seconds while it is
\* shown; only in the replay are its publishes stored instead of sent.
checkPing ==
    /\ link = "dead" /\ connected /\ (page # "shown" \/ storeProcessing)
    /\ Close /\ UNCHANGED faults

reconnect ==
    /\ reconnectTimer /\ reconnectTimer' = FALSE
    /\ link' = "open" /\ up' = <<Packet("connect")>>
    /\ UNCHANGED <<page, connected, firstConnection, nextId, outgoingStore, queue,
                   storeProcessing, outStore, awaited, fresh, down, subscribed, received,
                   sent, published, reused, faults>>

-----------------------------------------------------------------------------
(* The broker and the network (external).                                  *)

\* The broker answers packets in the order they come.
Broker ==
    /\ link = "open" /\ up # <<>> /\ up' = Tail(up)
    /\ LET p == Head(up)
       IN  /\ received' = IF p.cmd = "publish" THEN Append(received, p.n) ELSE received
           /\ subscribed' = (subscribed \/ p.cmd = "subscribe")
           /\ down' = CASE p.cmd = "connect" -> Append(down, Packet("connack"))
                        [] p.cmd = "publish" -> Append(down, [p EXCEPT !.cmd = "puback"])
                        [] OTHER -> down
    /\ UNCHANGED <<page, client, link, sent, published, reused, faults>>

\* Packets stop getting through, and neither side is told.
Die ==
    /\ link = "open" /\ faults < MaxFault /\ faults' = faults + 1
    /\ link' = "dead" /\ up' = <<>> /\ down' = <<>> /\ subscribed' = FALSE
    /\ UNCHANGED <<page, client, received, sent, published, reused>>

\* The operating system gives up on the connection.
OsClose == link = "dead" /\ Close /\ UNCHANGED faults

-----------------------------------------------------------------------------
\* onLoad: the stream is set up and the subscription queued.
Init ==
    /\ page = "hidden" /\ connected = FALSE /\ firstConnection = TRUE
    /\ reconnectTimer = FALSE /\ nextId \in 1..MaxId
    /\ outgoingStore = <<>> /\ queue = <<Packet("subscribe")>>
    /\ storeProcessing = FALSE /\ outStore = <<>> /\ awaited = 0 /\ fresh = {}
    /\ link = "open" /\ up = <<Packet("connect")>> /\ down = <<>> /\ subscribed = FALSE
    /\ received = <<>> /\ sent = <<>> /\ published = 0 /\ reused = FALSE /\ faults = 0

Page == onShow \/ Poll \/ onClick \/ onHide \/ onUnload \/ onDeviceOnline

Client ==
    \/ onConnect \/ handleAck \/ EndOfStore \/ reconnect
    \/ connackTimeout \/ checkPing

Next == Page \/ Client \/ onClose \/ Broker \/ Die \/ OsClose

\* The runtime delivers events and timers, and the broker answers (external).
Fairness ==
    /\ WF_vars(onConnect \/ handleAck) /\ WF_vars(EndOfStore)
    /\ WF_vars(reconnect) /\ WF_vars(connackTimeout) /\ WF_vars(checkPing)
    /\ WF_vars(Broker)

Spec == Init /\ [][Next]_vars /\ Fairness

-----------------------------------------------------------------------------
(* Properties.                                                             *)

Packets(cs) == [cmd : cs, id : Nat, n : Nat]

\* Every variable has its type.
TypeOK ==
    /\ page \in {"hidden", "shown", "closed"} /\ link \in {"none", "open", "dead"}
    /\ connected \in BOOLEAN /\ firstConnection \in BOOLEAN /\ reconnectTimer \in BOOLEAN
    /\ storeProcessing \in BOOLEAN /\ subscribed \in BOOLEAN /\ reused \in BOOLEAN
    /\ nextId \in 1..MaxId /\ awaited \in 0..MaxId /\ fresh \subseteq 1..MaxId
    /\ outgoingStore \in Seq([id : 1..MaxId, n : 1..MaxPublish])
    /\ outStore \in Seq([id : 1..MaxId, n : 1..MaxPublish])
    /\ queue \in Seq(Packets({"subscribe"}))
    /\ up \in Seq(Packets({"connect", "subscribe", "publish"}))
    /\ down \in Seq(Packets({"connack", "puback"}))
    /\ received \in Seq(Nat) /\ sent \in Seq(1..MaxPublish)
    /\ published \in 0..MaxPublish /\ faults \in 0..MaxFault

Received(n) == \E i \in 1..Len(received) : received[i] = n
Stored(n) == \E i \in 1..Len(outgoingStore) : outgoingStore[i].n = n

\* Nothing the page has published is lost, however often the connection breaks and
\* whatever is acknowledged meanwhile: the broker has it or the store still has it.
\* The exception is an identifier that comes round while its packet is stored.
KeptUntilReceived == ~reused => \A n \in 1..published : Received(n) \/ Stored(n)

\* On one connection every publish is written once, and in the order in which the
\* page made them: no publish overtakes the replay or is sent by both.
InOrderOnce ==
    ~reused => \A i, j \in 1..Len(sent) : i < j => sent[i] < sent[j]

\* A replay repeats older commands after newer ones, but once the store is empty
\* the last thing the device was told is the last thing the page published.
SettledOnLast ==
    ~reused /\ outgoingStore = <<>> /\ published > 0 =>
        received # <<>> /\ received[Len(received)] = published

\* Nothing but the operating system can find out that the link is dead.
PollsHideDeath == link = "dead" /\ connected /\ ~storeProcessing /\ page = "shown"

\* When the connection stops breaking the client recovers: every publish is
\* acknowledged and the client is subscribed.  It notices a dead link by itself, from
\* the ping timer or for want of a CONNACK, unless the requests of a page that stays
\* shown keep putting the ping off.  The SUBSCRIBE waits for a complete replay, which
\* the page can make longer and a lost connection cuts off, but it is queued again.  A
\* reused identifier can stay "not processed" for ever, and then the replay never ends.
Recovers ==
    <>[](\/ outgoingStore = <<>> /\ connected /\ subscribed
         \/ reused \/ PollsHideDeath)
=============================================================================
