------------------------------ MODULE AtClient ------------------------------
(***************************************************************************)
(* The AT client that drives the ESP8266 modem: at_obj_exec_cmd and        *)
(* at_client_obj_wait_connect as their callers run them, client_parser in  *)
(* its own thread, and the socket operations of the modem driver on top.   *)
(* The parser has the highest priority of these threads, so it handles a   *)
(* line in one step; a caller can be preempted between any two steps, and  *)
(* the tick interrupt that ends a wait comes at any time.                  *)
(***************************************************************************)
EXTENDS Naturals, Sequences

CONSTANTS
    Caller,        \* threads that use the client
    Worker,        \* the one among them that uses the socket
    NoCaller,
    MaxCmd,        \* bound: no operation begins after this many commands, and
                   \* no probe is repeated after one more
    MaxGlitch,     \* bound: answers the modem forgets, empty lines it sends
    MaxLines       \* bound: lines the parser may lag behind the modem

ASSUME CallerAssumption == Worker \in Caller /\ NoCaller \notin Caller
ASSUME BoundAssumption == MaxCmd \in Nat /\ MaxGlitch \in Nat /\ MaxLines \in Nat

VARIABLES
    op,           \* what each caller is doing
    pc,           \* where in it the caller stands
    lock,         \* holder of client->lock
    resp,         \* the caller whose response object client->resp is
    resp_status, line_counts,
    resp_notice,  \* the semaphore: one element per count, the command whose
                  \* answer released it (history)
    socket_event, \* the event set of the device
    modem,        \* what the modem does, and for which command (external)
    uart,         \* lines on their way from the modem
    cmds,         \* commands written so far; they are numbered from 1
    my, by,       \* history: a caller's command, and the one that answered it
    sent_of,      \* history: the send that the last SEND result is about
    quiet,        \* history: nothing was under way when the last command was
                  \* written, and the modem has not failed since
    abandoned,    \* commands whose answer nobody waits for any more
    glitches,
    corrupted     \* history: a line was written into a deleted response object

\* Mutant: the answer to AT+CIPSEND is complete with its "OK".
line_num_one(o) == IF o = "send" THEN 1 ELSE 0

\* line_num of the response object: AT+CIPSEND waits for two lines, the others
\* for the line that ends the answer.
line_num(o) == IF o = "send" THEN 2 ELSE 0

Line(k, i) == [kind |-> k, of |-> i]
Modem(s, i, o) == [state |-> s, of |-> i, op |-> o]

client == <<lock, resp, resp_status, line_counts, resp_notice>>
history == <<my, by, sent_of, quiet>>
vars == <<op, pc, client, socket_event, modem, uart, cmds, history, abandoned, glitches, corrupted>>

Init ==
    /\ op = [c \in Caller |-> "none"] /\ pc = [c \in Caller |-> "idle"]
    /\ lock = NoCaller /\ resp = NoCaller
    /\ resp_status = "OK" /\ line_counts = 0 /\ resp_notice = <<>>
    /\ socket_event = {}
    /\ modem = Modem("ready", 0, "none") /\ uart = <<>> /\ cmds = 0
    /\ my = [c \in Caller |-> 0] /\ by = [c \in Caller |-> 0] /\ sent_of = 0 /\ quiet = TRUE
    /\ abandoned = 0 /\ glitches = 0 /\ corrupted = FALSE

Goto(c, l) == pc' = [pc EXCEPT ![c] = l]

-----------------------------------------------------------------------------
(* The callers.                                                            *)

\* The worker connects and sends; the others ask for information
\* (esp8266_get_netdev_info and the like) and reset the modem.
Begin(c) ==
    /\ pc[c] = "idle" /\ cmds < MaxCmd /\ Goto(c, "lock")
    /\ \E o \in IF c = Worker THEN {"connect", "send"}
                              ELSE {"info", "reset"} :
          op' = [op EXCEPT ![c] = o]
    /\ UNCHANGED <<client, socket_event, modem, uart, cmds, history, abandoned, glitches, corrupted>>

\* Mutant: the lock does not exclude anybody.
Lock_free(c) ==
    /\ pc[c] = "lock" /\ lock' = c /\ Goto(c, "set")
    /\ UNCHANGED <<op, resp, resp_status, line_counts, resp_notice, socket_event,
                   modem, uart, cmds, history, abandoned, glitches, corrupted>>

\* rt_mutex_take.  esp8266_socket_send takes the lock first; the nested take
\* and release of at_obj_exec_cmd then only count.
Lock(c) ==
    /\ pc[c] = "lock" /\ lock = NoCaller /\ lock' = c /\ Goto(c, "set")
    /\ UNCHANGED <<op, resp, resp_status, line_counts, resp_notice, socket_event,
                   modem, uart, cmds, history, abandoned, glitches, corrupted>>

\* client->resp is set before the command is written; without a response
\* object it is cleared.  at_client_obj_wait_connect leaves the status alone.
Set(c) ==
    /\ pc[c] = "set" /\ Goto(c, "write")
    /\ resp' = IF op[c] = "reset" THEN NoCaller ELSE c
    /\ resp_status' = IF op[c] = "probe" THEN resp_status ELSE "OK"
    /\ line_counts' = IF op[c] = "reset" THEN line_counts ELSE 0
    /\ UNCHANGED <<op, lock, resp_notice, socket_event, modem, uart, cmds,
                   history, abandoned, glitches, corrupted>>

\* What the modem makes of a command: it takes it for data after a prompt, and
\* ignores it, with a "busy" that urc_busy_p_func and urc_busy_s_func ignore in
\* turn, while it is at work on an earlier one (external).
Receive(i, o) ==
    modem' = CASE modem.state = "data" -> [modem EXCEPT !.state = "sending"]
               [] modem.state = "ready" -> Modem("busy", i, o)
               [] OTHER -> modem

\* The modem has nothing to do, no line is on its way or counted, the semaphore is
\* at 0 and no event is set.
Silence ==
    /\ modem.state = "ready" /\ uart = <<>> /\ line_counts = 0
    /\ resp_notice = <<>> /\ socket_event = {}

\* at_vprintfln, or "AT" in at_client_obj_wait_connect, which empties the
\* response first.  A command without a response object is not waited for.
Write(c) ==
    /\ pc[c] = "write"
    /\ cmds' = cmds + 1 /\ Receive(cmds + 1, op[c])
    /\ my' = [my EXCEPT ![c] = cmds + 1] /\ quiet' = Silence
    /\ IF op[c] = "reset"
         THEN /\ Goto(c, "finish") /\ by' = [by EXCEPT ![c] = cmds + 1]
              /\ abandoned' = abandoned + 1
         ELSE Goto(c, "take") /\ UNCHANGED <<by, abandoned>>
    /\ line_counts' = IF op[c] = "probe" THEN 0 ELSE line_counts
    /\ UNCHANGED <<op, lock, resp, resp_status, resp_notice, socket_event, uart,
                   sent_of, glitches, corrupted>>

\* rt_sem_take finds the semaphore released, or is woken by the release.
Take(c) ==
    /\ pc[c] = "take" /\ resp_notice # <<>> /\ Goto(c, "finish")
    /\ resp_notice' = Tail(resp_notice) /\ by' = [by EXCEPT ![c] = Head(resp_notice)]
    /\ UNCHANGED <<op, lock, resp, resp_status, line_counts, socket_event, modem,
                   uart, cmds, my, sent_of, quiet, abandoned, glitches, corrupted>>

\* The tick interrupt ends the wait; the caller runs later, because the parser
\* goes first.
Expire(c) ==
    /\ pc[c] = "take" /\ resp_notice = <<>>
    /\ Goto(c, "expired") /\ abandoned' = abandoned + 1
    /\ UNCHANGED <<op, client, socket_event, modem, uart, cmds, history, glitches, corrupted>>

\* at_client_obj_wait_connect tries again until its time is over.
Again(c) ==
    /\ pc[c] = "expired" /\ op[c] = "probe" /\ cmds <= MaxCmd /\ Goto(c, "write")
    /\ UNCHANGED <<op, client, socket_event, modem, uart, cmds, history, abandoned, glitches, corrupted>>

\* What the caller does next: esp8266_socket_connect closes a failed connection
\* and tries once more; esp8266_reset waits for the modem to come back.
After(o, ok) ==
    IF o = "connect" /\ ~ok THEN "reclose"
    ELSE IF o = "reclose" /\ ok THEN "reconnect"
    ELSE IF o = "reset" THEN "probe"
    ELSE "none"

\* The end of an operation: the lock is free, and the caller idle unless the
\* operation goes on with another command.
Leave(c, ok) ==
    /\ lock' = NoCaller /\ op' = [op EXCEPT ![c] = After(op[c], ok)]
    /\ Goto(c, IF After(op[c], ok) = "none" THEN "idle" ELSE "lock")
    /\ my' = [my EXCEPT ![c] = 0] /\ by' = [by EXCEPT ![c] = 0]

\* Mutant: client->resp is not cleared after a timeout.
TimedOut_dangling(c) ==
    /\ pc[c] = "expired" /\ op[c] # "probe" /\ Leave(c, FALSE)
    /\ resp_status' = "TIMEOUT"
    /\ UNCHANGED <<resp, line_counts, resp_notice, socket_event, modem, uart, cmds,
                   sent_of, quiet, abandoned, glitches, corrupted>>

\* The timeout path of at_obj_exec_cmd; the caller deletes the response object
\* after it returns.
TimedOut(c) ==
    /\ pc[c] = "expired" /\ op[c] # "probe" /\ Leave(c, FALSE)
    /\ resp_status' = "TIMEOUT" /\ resp' = NoCaller
    /\ UNCHANGED <<line_counts, resp_notice, socket_event, modem, uart, cmds,
                   sent_of, quiet, abandoned, glitches, corrupted>>

\* at_client_obj_wait_connect deletes its response object, after an answer or
\* when its time is over, before it clears client->resp.
Delete(c) ==
    /\ op[c] = "probe" /\ pc[c] \in {"finish", "expired"} /\ Goto(c, "deleted")
    /\ UNCHANGED <<op, client, socket_event, modem, uart, cmds, history, abandoned, glitches, corrupted>>

Clear(c) ==
    /\ pc[c] = "deleted" /\ Leave(c, TRUE) /\ resp' = NoCaller
    /\ UNCHANGED <<resp_status, line_counts, resp_notice, socket_event, modem, uart,
                   cmds, sent_of, quiet, abandoned, glitches, corrupted>>

\* The status is read, client->resp cleared, the lock released.  A send goes
\* on with its data and keeps the lock.
Finish(c) ==
    /\ pc[c] = "finish" /\ op[c] # "probe" /\ resp' = NoCaller
    /\ IF op[c] = "send" /\ resp_status = "OK"
         THEN Goto(c, "data") /\ UNCHANGED <<op, lock, my, by>>
         ELSE Leave(c, resp_status = "OK")
    /\ UNCHANGED <<resp_status, line_counts, resp_notice, socket_event, modem,
                   uart, cmds, sent_of, quiet, abandoned, glitches, corrupted>>

\* at_client_obj_send.  Data that comes before the prompt is lost.
Data(c) ==
    /\ pc[c] = "data" /\ Goto(c, "socket_event")
    /\ modem' = IF modem.state = "data" THEN [modem EXCEPT !.state = "sending"]
                                        ELSE modem
    /\ UNCHANGED <<op, client, socket_event, uart, cmds, history, abandoned, glitches, corrupted>>

\* The two rt_event_recv calls of esp8266_socket_send: the bit of the socket,
\* then the result.  Each clears the bits it waits for.
Results == {"SEND_OK", "SEND_FAIL"}

\* Mutant: without RT_EVENT_FLAG_CLEAR.
esp8266_socket_event_recv_keeps(bits) == socket_event' = socket_event

esp8266_socket_event_recv(bits) == socket_event' = socket_event \ bits

SocketEvent(c) ==
    /\ pc[c] = "socket_event" /\ "socket" \in socket_event
    /\ esp8266_socket_event_recv({"socket"}) /\ Goto(c, "send_event")
    /\ UNCHANGED <<op, client, modem, uart, cmds, history, abandoned, glitches, corrupted>>

SendEvent(c) ==
    /\ pc[c] = "send_event" /\ socket_event \cap Results # {}
    /\ esp8266_socket_event_recv(Results)
    /\ Leave(c, "SEND_FAIL" \notin socket_event)
    /\ UNCHANGED <<resp, resp_status, line_counts, resp_notice, modem, uart, cmds,
                   sent_of, quiet, abandoned, glitches, corrupted>>

EventTimeout(c) ==
    /\ \/ pc[c] = "socket_event" /\ "socket" \notin socket_event
       \/ pc[c] = "send_event" /\ socket_event \cap Results = {}
    /\ abandoned' = abandoned + 1 /\ Leave(c, FALSE)
    /\ UNCHANGED <<resp, resp_status, line_counts, resp_notice, socket_event, modem,
                   uart, cmds, sent_of, quiet, glitches, corrupted>>
-----------------------------------------------------------------------------
(* The parser.                                                             *)

\* urc_send_func raises the bit of the socket and the result together.
Urc(l) ==
    /\ socket_event' = socket_event \cup {"socket", l.kind} /\ sent_of' = l.of
    /\ UNCHANGED client

\* The line that ends the answer to an operation, when it is the n-th line.
Ends(o, l, n) ==
    \/ l.kind = "OK" /\ line_num(o) = 0
    \/ l.kind = "ERROR"
    \/ line_num(o) # 0 /\ n = line_num(o)

\* Mutant: a status that says the response did not fit survives the end.
Status_kept(l, ends, fits) ==
    IF ends /\ l.kind = "ERROR" THEN "ERROR" ELSE IF fits THEN resp_status ELSE "BUFF_FULL"

\* resp_status after a line.
Status(l, ends, fits) ==
    IF ends THEN IF l.kind = "ERROR" THEN "ERROR" ELSE "OK"
    ELSE IF fits THEN resp_status ELSE "BUFF_FULL"

\* Mutant: the parser leaves client->resp set.
Expecting_still(ends) == resp

\* client->resp after a line.
Expecting(ends) == IF ends THEN NoCaller ELSE resp

\* A line while client->resp is set.  It counts only if there is room for it.
\* Once the object is deleted, what the parser finds in its place is undefined.
Response(l, fits) ==
    LET n == IF fits THEN line_counts + 1 ELSE line_counts
    IN  \E ends \in IF pc[resp] = "deleted" THEN BOOLEAN ELSE {Ends(op[resp], l, n)} :
          /\ line_counts' = n
          /\ resp_status' = Status(l, ends, fits)
          /\ resp' = Expecting(ends)
          /\ resp_notice' = IF ends THEN Append(resp_notice, l.of) ELSE resp_notice
          /\ UNCHANGED <<lock, socket_event, sent_of>>

DeletedIsWritten ==
    resp # NoCaller /\ pc[resp] = "deleted" /\ Head(uart).kind \notin Results

\* One turn of the loop: a URC, a line of the response, or a line that is dropped.
\* Only an information line can be too long for the response.
client_parser ==
    /\ uart # <<>> /\ uart' = Tail(uart)
    /\ LET l == Head(uart)
       IN  IF l.kind \in Results THEN Urc(l)
           ELSE IF resp # NoCaller
             THEN \E fits \in IF l.kind = "info" THEN BOOLEAN ELSE {TRUE} : Response(l, fits)
           ELSE UNCHANGED <<client, socket_event, sent_of>>
    /\ corrupted' = (corrupted \/ DeletedIsWritten)
    /\ UNCHANGED <<op, pc, modem, cmds, my, by, quiet, abandoned, glitches>>

-----------------------------------------------------------------------------
(* The modem (external): what the driver expects of AT+ commands.          *)

ModemSays(k, s) ==
    /\ Len(uart) < MaxLines /\ uart' = Append(uart, Line(k, modem.of)) /\ modem' = [modem EXCEPT !.state = s]
    /\ UNCHANGED <<op, pc, client, socket_event, cmds, history, abandoned, glitches, corrupted>>

ModemInfo == modem.state = "busy" /\ modem.op # "send" /\ ModemSays("info", "answering")

ModemEnds ==
    /\ modem.state \in {"busy", "answering"}
    /\ \/ ModemSays("OK", IF modem.op = "send" THEN "prompting" ELSE "ready")
       \/ ModemSays("ERROR", "ready")

ModemPrompts == modem.state = "prompting" /\ ModemSays(">", "data")

ModemSent == modem.state = "sending" /\ \E k \in Results : ModemSays(k, "ready")

\* The modem forgets what it was doing: a reset, a glitch on the line.
ModemForgets ==
    /\ modem.state # "ready" /\ modem' = [modem EXCEPT !.state = "ready"]
    /\ glitches < MaxGlitch /\ glitches' = glitches + 1 /\ quiet' = FALSE
    /\ UNCHANGED <<op, pc, client, socket_event, uart, cmds, my, by, sent_of, abandoned, corrupted>>

\* "maybe receive an URC CRLF" (at_socket_esp8266.c): an empty line.
ModemStray ==
    /\ glitches < MaxGlitch /\ glitches' = glitches + 1 /\ quiet' = FALSE
    /\ Len(uart) < MaxLines /\ uart' = Append(uart, Line("CRLF", cmds))
    /\ UNCHANGED <<op, pc, client, socket_event, modem, cmds, my, by, sent_of, abandoned, corrupted>>

-----------------------------------------------------------------------------
Step(c) ==
    \/ Set(c) \/ Write(c) \/ Take(c) \/ Expire(c) \/ Again(c)
    \/ TimedOut(c) \/ Delete(c) \/ Clear(c) \/ Finish(c)
    \/ Data(c) \/ SocketEvent(c) \/ SendEvent(c) \/ EventTimeout(c)

ModemNext ==
    ModemInfo \/ ModemEnds \/ ModemPrompts \/ ModemSent \/ ModemForgets \/ ModemStray

Next == (\E c \in Caller : Begin(c) \/ Lock(c) \/ Step(c)) \/ client_parser \/ ModemNext

Spec == Init /\ [][Next]_vars

-----------------------------------------------------------------------------
(* Properties.                                                             *)

Ops == {"none", "connect", "reclose", "reconnect", "send", "info", "probe", "reset"}
Holding == {"set", "write", "take", "expired", "deleted", "finish", "data",
            "socket_event", "send_event"}
Labels == {"idle", "lock"} \cup Holding
Lines == [kind : {"info", "OK", "ERROR", ">", "CRLF"} \cup Results, of : Nat]

\* Every variable has its type.
TypeOK ==
    /\ op \in [Caller -> Ops] /\ pc \in [Caller -> Labels]
    /\ lock \in Caller \cup {NoCaller} /\ resp \in Caller \cup {NoCaller}
    /\ resp_status \in {"OK", "ERROR", "TIMEOUT", "BUFF_FULL"} /\ line_counts \in Nat
    /\ resp_notice \in Seq(Nat) /\ socket_event \subseteq {"socket"} \cup Results
    /\ modem \in [state : {"ready", "busy", "answering", "prompting", "data", "sending"},
                  of : Nat, op : Ops]
    /\ uart \in Seq(Lines) /\ cmds \in Nat /\ sent_of \in Nat
    /\ my \in [Caller -> Nat] /\ by \in [Caller -> Nat]
    /\ abandoned \in Nat /\ glitches \in Nat /\ corrupted \in BOOLEAN
    /\ quiet \in BOOLEAN

\* client->resp is only ever the object of the caller that holds the lock and is
\* still inside its command, so that no line is written into a response object
\* after its owner has returned.  The one exception is the end of
\* at_client_obj_wait_connect, which deletes the object before it clears
\* client->resp.
NoDanglingResponse ==
    resp # NoCaller =>
        lock = resp /\ pc[resp] \in {"write", "take", "expired", "finish", "deleted"}

\* at_client_obj_wait_connect deletes its response object while client->resp may
\* still point to it.  The parser does not write into it if the probe ended with
\* the answer to its own last "AT", whatever lines come then; it may if the probe
\* gave up or took a stale release of the semaphore for its answer.
DeletedIsLeftAlone ==
    [][\A c \in Caller : pc[c] = "deleted" /\ by[c] = my[c] => corrupted' = corrupted]_vars

\* An answer that comes after its wait has expired leaves the semaphore
\* released, and the next command takes it at once.  But stale releases do not
\* pile up, however many answers come late: at most one is left over when a
\* command returns.
OneStaleNotice == Len(resp_notice) <= IF lock = NoCaller THEN 1 ELSE 2

\* Nothing was under way when the last command was written, or no wait has expired,
\* no reset was sent and the modem has not failed so far.
Undisturbed == quiet \/ (abandoned = 0 /\ glitches = 0)

\* A late answer may be taken for that of a later command, but not for ever: a
\* command written in silence returns with its own answer, whatever went wrong
\* before, and so does every command as long as nothing has gone wrong.
OwnAnswer == \A c \in Caller : pc[c] = "finish" /\ Undisturbed => by[c] = my[c]

\* Such a send writes its data when the modem has asked for the data of this send.
DataAfterPrompt ==
    \A c \in Caller :
        pc[c] = "data" /\ Undisturbed => modem.state = "data" /\ modem.of = my[c]

\* And the result it returns with is its own, although the event set is never
\* emptied before a send.
OwnSendResult ==
    [][\A c \in Caller : SendEvent(c) /\ Undisturbed => sent_of = my[c]]_vars

\* As long as no answer is stale, no command fails because its response did not
\* fit, and the caller parses a response with lines missing: the line that ends
\* the answer overwrites AT_RESP_BUFF_FULL.
FullIsNotReported ==
    \A c \in Caller : pc[c] = "finish" /\ abandoned = 0 => resp_status # "BUFF_FULL"
=============================================================================
