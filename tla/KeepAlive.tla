------------------------------ MODULE KeepAlive -----------------------------
(***************************************************************************)
(* The timing of paho_mqtt_thread's loop: how long select waits, when a    *)
(* PINGREQ goes out, and when a dead link is noticed.  Time is counted in  *)
(* whole seconds since tick_ping, as the code counts it.  The AT module    *)
(* may need seconds to send a packet (esp8266_socket_send), on a dead link *)
(* in particular; meanwhile the worker can do nothing else.                *)
(***************************************************************************)
EXTENDS Integers

CONSTANTS keepAliveInterval,
          Slow,       \* the worker is busy with one packet up to so many seconds
          Latency,    \* bound: the broker answers a PINGREQ within this time
          MaxTime     \* bound: clocks stop counting here

ASSUME IntervalAssumption == keepAliveInterval \in Nat /\ keepAliveInterval > 10
ASSUME DelayAssumption == Slow \in Nat /\ Slow < keepAliveInterval - 10 /\ Latency \in Nat
ASSUME TimeAssumption == MaxTime \in Nat /\ MaxTime > keepAliveInterval + Slow

VARIABLES
    stage,    \* "loop" before select, "select", "pong" waiting for an answer,
              \* "lost" once _mqtt_disconnect is reached
    wait,     \* seconds left of the select timeout; Forever has no end
    elapsed,  \* seconds since tick_ping
    ping,     \* age of the oldest unanswered PINGREQ, NoPing if there is none
    peer,     \* "alive" or "dead"
    dead,     \* seconds since the link died
    silent,   \* seconds waited in select since the worker last sent a packet
    overrun   \* history: since tick_ping was set, and with no PINGREQ under way,
              \* the worker was busy when its time for sending one came

timing == <<stage, wait, elapsed, ping, peer, dead, silent, overrun>>

Forever == -1
NoPing == -1

\* Mutant: the timeout leaves no time for the PINGRESP.
Timeout_too_long(e) ==
    IF e > keepAliveInterval - 5 THEN 1 ELSE keepAliveInterval - 5 - e

\* The select timeout.  select turns it into milliseconds, and
\* rt_tick_from_millisecond turns a negative time into RT_WAITING_FOREVER.
Timeout(e) ==
    IF e > keepAliveInterval - 5 THEN 1
    ELSE IF e > keepAliveInterval - 10 THEN Forever
    ELSE keepAliveInterval - 10 - e

\* A clock d seconds later; the bound stops it.
UpTo(time, bound) == IF time < bound THEN time ELSE bound
After(clock, d) == UpTo(clock + d, MaxTime)

\* online_callback has returned: tick_ping is the current tick.
TimingInit ==
    /\ stage = "loop" /\ wait = 0 /\ elapsed = 0 /\ ping = NoPing
    /\ peer = "alive" /\ dead = 0 /\ silent = 0 /\ overrun = FALSE

-----------------------------------------------------------------------------
(* The worker.                                                             *)

\* The worker is busy for d seconds; the link may die in the meantime.
Busy(d) ==
    /\ elapsed' = After(elapsed, d)
    /\ \/ peer' = peer /\ dead' = IF peer = "dead" THEN After(dead, d) ELSE dead
       \/ peer = "alive" /\ peer' = "dead" /\ dead' \in 0..d

Select ==
    /\ stage = "loop" /\ stage' = "select" /\ wait' = Timeout(elapsed)
    /\ UNCHANGED <<elapsed, ping, peer, dead, silent, overrun>>

\* Mutant: a timeout of the second select is not a failure.
PingTimeout_retries ==
    /\ stage = "pong" /\ wait = 0 /\ stage' = "loop"
    /\ UNCHANGED <<wait, elapsed, ping, peer, dead, silent, overrun>>

\* select timed out: send a PINGREQ and, unless that fails, wait five seconds for
\* an answer.
PingReq ==
    /\ stage = "select" /\ wait = 0
    /\ stage' \in {"pong", "lost"} /\ wait' = 5 /\ silent' = 0
    /\ \E d \in 0..Slow :
          /\ Busy(d)
          /\ ping' \in IF peer' = "dead" THEN {NoPing}
                       ELSE IF ping = NoPing THEN 0..UpTo(d, Latency)
                       ELSE {UpTo(ping + d, Latency)}
    /\ UNCHANGED overrun

\* No answer to the PINGREQ.
PingTimeout ==
    /\ stage = "pong" /\ wait = 0 /\ stage' = "lost"
    /\ UNCHANGED <<wait, elapsed, ping, peer, dead, silent, overrun>>

\* Mutant: the answer to a ping does not restart the clock.
PingResp_keeps_tick ==
    /\ stage \in {"select", "pong"} /\ peer = "alive" /\ ping # NoPing
    /\ stage' = "loop" /\ wait' = 0 /\ ping' = NoPing /\ overrun' = FALSE
    /\ UNCHANGED <<elapsed, peer, dead, silent>>

\* MQTT_cycle reads a PINGRESP.
PingResp ==
    /\ stage \in {"select", "pong"} /\ peer = "alive" /\ ping # NoPing
    /\ stage' = "loop" /\ wait' = 0 /\ elapsed' = 0 /\ ping' = NoPing /\ overrun' = FALSE
    /\ UNCHANGED <<peer, dead, silent>>

\* MQTT_cycle reads a PUBLISH, which is acknowledged and may be answered, or an
\* acknowledgement, on which nothing is sent; sending may fail.  tick_ping stays.
\* The answer goes out from the pipe in the next turn; its time is counted here.
Cycle ==
    /\ stage \in {"select", "pong"} /\ peer = "alive"
    /\ stage' \in {"loop", "lost"} /\ wait' = 0 /\ silent' \in {0, silent}
    /\ \E d \in 0..Slow :
          /\ Busy(d)
          /\ ping' = IF ping = NoPing \/ peer' = "dead" THEN NoPing
                     ELSE UpTo(ping + d, Latency)
    /\ overrun' = (overrun \/ (ping = NoPing /\ elapsed' > keepAliveInterval - 10))

\* MQTTDisconnect, and after the delay a new connection.
Reconnect ==
    /\ stage = "lost" /\ stage' = "loop" /\ wait' = 0 /\ elapsed' = 0 /\ ping' = NoPing
    /\ peer' = "alive" /\ dead' = 0 /\ silent' = 0 /\ overrun' = FALSE

-----------------------------------------------------------------------------
(* Time and the network (external).                                        *)

\* A second passes.  An expired timeout and an answer that is due go first.
Tick ==
    /\ stage \in {"select", "pong"} /\ wait # 0
    /\ peer = "alive" => ping < Latency
    /\ wait' = IF wait = Forever THEN wait ELSE wait - 1
    /\ elapsed' = After(elapsed, 1) /\ silent' = After(silent, 1)
    /\ ping' = IF ping = NoPing THEN ping ELSE ping + 1
    /\ dead' = IF peer = "dead" THEN After(dead, 1) ELSE dead
    /\ UNCHANGED <<stage, peer, overrun>>

\* The peer disappears without closing the connection: nothing arrives any more.
PeerDies ==
    /\ peer = "alive" /\ stage # "lost"
    /\ peer' = "dead" /\ ping' = NoPing
    /\ UNCHANGED <<stage, wait, elapsed, dead, silent, overrun>>

Loop == Select \/ PingReq \/ PingTimeout \/ Reconnect
TimingNext == Loop \/ PingResp \/ Cycle \/ Tick \/ PeerDies

TimingSpec == TimingInit /\ [][TimingNext]_timing

\* The worker's timeouts end and time passes.
FairTimingSpec == TimingSpec /\ WF_timing(Loop) /\ WF_timing(Tick)

-----------------------------------------------------------------------------
(* Properties.                                                             *)

ClocksOK ==
    /\ stage \in {"loop", "select", "pong", "lost"}
    /\ wait \in Nat \cup {Forever}
    /\ elapsed \in 0..MaxTime /\ dead \in 0..MaxTime /\ silent \in 0..MaxTime
    /\ ping \in 0..Latency \cup {NoPing}
    /\ peer \in {"alive", "dead"} /\ overrun \in BOOLEAN

\* A dead link is given up at most keepAliveInterval - 5 seconds after it died and
\* the time that sending the PINGREQ takes, whatever arrived before and even if the
\* link died while the worker was busy, unless select was told to wait for ever:
\* the time that has passed and the time still to wait never add up to more.
DetectedInTime ==
    peer = "dead" /\ stage \in {"select", "pong"} /\ wait # Forever
        => dead + wait + (IF stage = "select" THEN Slow + 5 ELSE 0)
             <= keepAliveInterval - 5 + Slow

\* Unless a packet kept the worker busy when the time for a PINGREQ came, select
\* waits for ever on a link that is alive only while the answer to a PINGREQ is
\* under way, which will end the wait; and if the broker answers in time, the
\* worker waits no more than keepAliveInterval - 5 seconds between two packets that it
\* sends: the broker has no reason to drop the client.
SendsInTime ==
    peer = "alive" /\ stage # "lost" /\ ~overrun =>
        /\ stage = "select" /\ wait = Forever => ping # NoPing
        /\ Latency <= 5 => silent <= keepAliveInterval - 5

\* A wait on a dead link that has a timeout ends with the link given up.
TimedWaitLeads ==
    peer = "dead" /\ stage \in {"select", "pong"} /\ wait # Forever ~> stage = "lost"

-----------------------------------------------------------------------------
(* What the package's documentation says, and the code does not do.        *)

\* "When the network fails the client connects again": a dead link is noticed.
DeadLinkIsNoticed == peer = "dead" ~> stage = "lost"
=============================================================================
