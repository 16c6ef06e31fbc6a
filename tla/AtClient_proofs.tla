--------------------------- MODULE AtClient_proofs --------------------------
(***************************************************************************)
(* For any number of callers, commands and lines: client->resp belongs to  *)
(* the holder of the lock, and late answers do not pile up.                *)
(***************************************************************************)
EXTENDS AtClient, TLAPS

-----------------------------------------------------------------------------
(* The inductive invariant.                                                *)

\* A caller inside its command holds the lock.
Excluded == \A c \in Caller : pc[c] \in Holding <=> lock = c

\* Releases of the semaphore, and the one that may still come while client->resp
\* is set.
Due == Len(resp_notice) + IF resp = NoCaller THEN 0 ELSE 1

\* A caller is about to wait, or waits.
Waits == \E c \in Caller : pc[c] \in {"write", "take"} /\ op[c] # "reset"

\* A caller that waits may find its own answer and a stale one; everywhere else
\* there is one at most, given or to come.
NoticeInv == Due <= IF Waits THEN 2 ELSE 1

IInv == TypeOK /\ Excluded /\ NoDanglingResponse /\ NoticeInv
-----------------------------------------------------------------------------
(* Lemmas.                                                                 *)

\* The end of an operation frees the lock.
LEMMA LeaveTypes ==
    ASSUME TypeOK, NEW c \in Caller, NEW ok \in BOOLEAN, Leave(c, ok)
    PROVE  /\ op' \in [Caller -> Ops] /\ pc' \in [Caller -> Labels] /\ lock' = NoCaller
           /\ my' \in [Caller -> Nat] /\ by' \in [Caller -> Nat]
           /\ pc'[c] \in {"idle", "lock"}
           /\ \A d \in Caller \ {c} : pc'[d] = pc[d] /\ op'[d] = op[d]
<1>1. After(op[c], ok) \in Ops
  BY DEF After, Ops
<1>2. QED
  BY <1>1 DEF Leave, Goto, TypeOK, Labels

\* A caller moves to a label.
LEMMA GotoTypes ==
    ASSUME TypeOK, NEW c \in Caller, NEW l \in Labels, Goto(c, l)
    PROVE  /\ pc' \in [Caller -> Labels] /\ pc'[c] = l
           /\ \A d \in Caller \ {c} : pc'[d] = pc[d]
  BY DEF Goto, TypeOK

\* What the modem says keeps the types.
LEMMA SaysTypes ==
    ASSUME TypeOK, NEW k \in {"info", "OK", "ERROR", ">", "CRLF"} \cup Results,
           NEW s \in {"ready", "busy", "answering", "prompting", "data", "sending"},
           ModemSays(k, s)
    PROVE  TypeOK'
<1>1. modem' \in [state : {"ready", "busy", "answering", "prompting", "data", "sending"},
                  of : Nat, op : Ops]
  BY ZenonT(20) DEF ModemSays, TypeOK
<1>2. Line(k, modem.of) \in Lines
  BY DEF Line, Lines, TypeOK
<1>3. uart' \in Seq(Lines)
  BY <1>2 DEF ModemSays, TypeOK
<1>4. QED
  BY <1>1, <1>3 DEF ModemSays, TypeOK, client, history

\* The head and the tail of the lines.
LEMMA FirstLine ==
    ASSUME TypeOK, uart # <<>>
    PROVE  Head(uart) \in Lines /\ Tail(uart) \in Seq(Lines)
  BY DEF TypeOK

-----------------------------------------------------------------------------
(* Every step keeps every part of the invariant.                           *)

\* The types.
LEMMA TypeStep ==
    ASSUME IInv, [Next]_vars
    PROVE  TypeOK'
<1> USE DEF IInv
<1>1. ASSUME NEW c \in Caller, Begin(c) PROVE TypeOK'
  <2>1. pc' \in [Caller -> Labels]
    BY <1>1, GotoTypes DEF Begin, Labels, Holding
  <2>2. PICK o \in Ops : op' = [op EXCEPT ![c] = o]
    BY ZenonT(20), <1>1 DEF Begin, Ops
  <2>3. op' \in [Caller -> Ops]
    BY <2>2 DEF TypeOK
  <2>4. UNCHANGED <<client, socket_event, modem, uart, cmds, history, abandoned, glitches,
                    corrupted>>
    BY <1>1 DEF Begin
  <2>5. QED
    BY <2>1, <2>3, <2>4 DEF TypeOK, client, history
<1>2. ASSUME NEW c \in Caller, Lock(c) PROVE TypeOK'
  <2>1. pc' \in [Caller -> Labels]
    BY <1>2, GotoTypes DEF Lock, Labels, Holding
  <2>2. QED
    BY <1>2, <2>1 DEF Lock, TypeOK, client, history
<1>3. ASSUME NEW c \in Caller, Set(c) PROVE TypeOK'
  <2>1. pc' \in [Caller -> Labels]
    BY <1>3, GotoTypes DEF Set, Labels, Holding
  <2>2. QED
    BY <1>3, <2>1 DEF Set, TypeOK, client, history
<1>4. ASSUME NEW c \in Caller, Write(c) PROVE TypeOK'
  <2>1. pc' \in [Caller -> Labels]
    BY <1>4, GotoTypes DEF Write, Labels, Holding
  <2>2. modem' \in [state : {"ready", "busy", "answering", "prompting", "data", "sending"},
                    of : Nat, op : Ops]
    <3>1. op[c] \in Ops /\ cmds + 1 \in Nat /\ Receive(cmds + 1, op[c])
      BY <1>4 DEF Write, TypeOK
    <3>2. QED
      BY ZenonT(20), <3>1 DEF Receive, Modem, TypeOK
  <2>3. my' \in [Caller -> Nat] /\ by' \in [Caller -> Nat] /\ abandoned' \in Nat
    <3>1. cmds + 1 \in Nat /\ abandoned + 1 \in Nat
      BY DEF TypeOK
    <3>2. my' = [my EXCEPT ![c] = cmds + 1]
      BY <1>4 DEF Write
    <3>3. by' \in {by, [by EXCEPT ![c] = cmds + 1]} /\ abandoned' \in {abandoned, abandoned + 1}
      BY <1>4 DEF Write
    <3>4. QED
      BY <3>1, <3>2, <3>3 DEF TypeOK
  <2>4. quiet' \in BOOLEAN
    BY <1>4 DEF Write, Silence
  <2>5. QED
    BY <1>4, <2>1, <2>2, <2>3, <2>4 DEF Write, TypeOK
<1>5. ASSUME NEW c \in Caller, Take(c) PROVE TypeOK'
  <2>1. pc' \in [Caller -> Labels]
    BY <1>5, GotoTypes DEF Take, Labels, Holding
  <2>2. resp_notice' \in Seq(Nat) /\ Head(resp_notice) \in Nat
    BY <1>5 DEF Take, TypeOK
  <2>3. QED
    BY ZenonT(20), <1>5, <2>1, <2>2 DEF Take, TypeOK
<1>6. ASSUME NEW c \in Caller, Expire(c) PROVE TypeOK'
  <2>1. pc' \in [Caller -> Labels]
    BY <1>6, GotoTypes DEF Expire, Labels, Holding
  <2>2. QED
    BY <1>6, <2>1 DEF Expire, TypeOK, client, history
<1>7. ASSUME NEW c \in Caller, Again(c) PROVE TypeOK'
  <2>1. pc' \in [Caller -> Labels]
    BY <1>7, GotoTypes DEF Again, Labels, Holding
  <2>2. QED
    BY <1>7, <2>1 DEF Again, TypeOK, client, history
<1>8. ASSUME NEW c \in Caller, TimedOut(c) PROVE TypeOK'
  <2>1. PICK ok \in BOOLEAN : Leave(c, ok)
    BY ZenonT(20), <1>8 DEF TimedOut
  <2>2. /\ op' \in [Caller -> Ops] /\ pc' \in [Caller -> Labels] /\ lock' = NoCaller
        /\ my' \in [Caller -> Nat] /\ by' \in [Caller -> Nat]
    BY <2>1, <1>8, LeaveTypes
  <2>3. QED
    BY <1>8, <2>2 DEF TimedOut, TypeOK, client, history
<1>9. ASSUME NEW c \in Caller, Delete(c) PROVE TypeOK'
  <2>1. pc' \in [Caller -> Labels]
    BY <1>9, GotoTypes DEF Delete, Labels, Holding
  <2>2. QED
    BY <1>9, <2>1 DEF Delete, TypeOK, client, history
<1>10. ASSUME NEW c \in Caller, Clear(c) PROVE TypeOK'
  <2>1. PICK ok \in BOOLEAN : Leave(c, ok)
    BY ZenonT(20), <1>10 DEF Clear
  <2>2. /\ op' \in [Caller -> Ops] /\ pc' \in [Caller -> Labels] /\ lock' = NoCaller
        /\ my' \in [Caller -> Nat] /\ by' \in [Caller -> Nat]
    BY <2>1, <1>10, LeaveTypes
  <2>3. QED
    BY ZenonT(20), <1>10, <2>2 DEF Clear, TypeOK, client, history
<1>11. ASSUME NEW c \in Caller, Finish(c) PROVE TypeOK'
  <2>1. CASE Goto(c, "data") /\ UNCHANGED <<op, lock, my, by>>
    <3>1. pc' \in [Caller -> Labels]
      BY <1>11, <2>1, GotoTypes DEF Labels, Holding
    <3>2. QED
      BY <1>11, <2>1, <3>1 DEF Finish, TypeOK
  <2>2. CASE Leave(c, resp_status = "OK")
    <3>1. /\ op' \in [Caller -> Ops] /\ pc' \in [Caller -> Labels] /\ lock' = NoCaller
          /\ my' \in [Caller -> Nat] /\ by' \in [Caller -> Nat]
      BY ZenonT(20), <1>11, <2>2, LeaveTypes
    <3>2. QED
      BY ZenonT(20), <1>11, <3>1 DEF Finish, TypeOK
  <2>3. QED
    BY <1>11, <2>1, <2>2 DEF Finish
<1>12. ASSUME NEW c \in Caller, Data(c) PROVE TypeOK'
  <2>1. pc' \in [Caller -> Labels]
    BY <1>12, GotoTypes DEF Data, Labels, Holding
  <2>2. modem' \in [state : {"ready", "busy", "answering", "prompting", "data", "sending"},
                    of : Nat, op : Ops]
    BY ZenonT(20), <1>12 DEF Data, TypeOK
  <2>3. QED
    BY <1>12, <2>1, <2>2 DEF Data, TypeOK, client, history
<1>13. ASSUME NEW c \in Caller, SocketEvent(c) PROVE TypeOK'
  <2>1. pc' \in [Caller -> Labels]
    BY <1>13, GotoTypes DEF SocketEvent, Labels, Holding
  <2>2. QED
    BY <1>13, <2>1 DEF SocketEvent, TypeOK, client, history, esp8266_socket_event_recv
<1>14. ASSUME NEW c \in Caller, SendEvent(c) PROVE TypeOK'
  <2>1. PICK ok \in BOOLEAN : Leave(c, ok)
    <3>1. ("SEND_FAIL" \notin socket_event) \in BOOLEAN
      OBVIOUS
    <3>2. QED
      BY ZenonT(20), <1>14, <3>1 DEF SendEvent
  <2>2. /\ op' \in [Caller -> Ops] /\ pc' \in [Caller -> Labels] /\ lock' = NoCaller
        /\ my' \in [Caller -> Nat] /\ by' \in [Caller -> Nat]
    BY <2>1, <1>14, LeaveTypes
  <2>3. QED
    BY ZenonT(20), <1>14, <2>2 DEF SendEvent, TypeOK, client, history, esp8266_socket_event_recv
<1>15. ASSUME NEW c \in Caller, EventTimeout(c) PROVE TypeOK'
  <2>1. PICK ok \in BOOLEAN : Leave(c, ok)
    BY ZenonT(20), <1>15 DEF EventTimeout
  <2>2. /\ op' \in [Caller -> Ops] /\ pc' \in [Caller -> Labels] /\ lock' = NoCaller
        /\ my' \in [Caller -> Nat] /\ by' \in [Caller -> Nat]
    BY <2>1, <1>15, LeaveTypes
  <2>3. abandoned' \in Nat
    BY <1>15 DEF EventTimeout, TypeOK
  <2>4. UNCHANGED <<resp, resp_status, line_counts, resp_notice, socket_event, modem,
                    uart, cmds, sent_of, quiet, glitches, corrupted>>
    BY <1>15 DEF EventTimeout
  <2>5. QED
    BY ZenonT(20), <2>2, <2>3, <2>4 DEF TypeOK
<1>16. CASE client_parser
  <2> DEFINE l == Head(uart)
  <2>1. l \in Lines /\ uart' \in Seq(Lines)
    BY <1>16, FirstLine DEF client_parser
  <2>2. l.of \in Nat
    BY <2>1 DEF Lines
  <2>3. corrupted' \in BOOLEAN
    BY <1>16 DEF client_parser
  <2>4. UNCHANGED <<op, pc, modem, cmds, my, by, quiet, abandoned, glitches>>
    BY <1>16 DEF client_parser
  <2> HIDE DEF l
  <2>5. CASE l.kind \in Results /\ Urc(l)
    BY ZenonT(20), <2>1, <2>2, <2>3, <2>4, <2>5 DEF Urc, TypeOK, client
  <2>6. ASSUME NEW fits \in BOOLEAN, Response(l, fits) PROVE TypeOK'
    <3>1. PICK n \in {line_counts, line_counts + 1}, ends \in BOOLEAN :
             /\ line_counts' = n
             /\ resp_status' = Status(l, ends, fits)
             /\ resp' = Expecting(ends)
             /\ resp_notice' = IF ends THEN Append(resp_notice, l.of) ELSE resp_notice
             /\ UNCHANGED <<lock, socket_event, sent_of>>
      BY ZenonT(20), <2>6 DEF Response, Ends
    <3>2. line_counts' \in Nat /\ resp_notice' \in Seq(Nat)
      BY <2>2, <3>1 DEF TypeOK
    <3>3. resp_status' \in {"OK", "ERROR", "TIMEOUT", "BUFF_FULL"}
      BY <3>1 DEF Status, TypeOK
    <3>4. resp' \in Caller \cup {NoCaller}
      BY <3>1 DEF Expecting, TypeOK
    <3>5. QED
      BY <2>1, <2>3, <2>4, <3>1, <3>2, <3>3, <3>4 DEF TypeOK
  <2>7. CASE UNCHANGED <<client, socket_event, sent_of>>
    BY <2>1, <2>3, <2>4, <2>7 DEF TypeOK, client
  <2>8. QED
    BY ZenonT(20), <1>16, <2>5, <2>6, <2>7 DEF client_parser, l
<1>17. CASE ModemInfo
  BY <1>17, SaysTypes DEF ModemInfo
<1>18. CASE ModemEnds
  BY <1>18, SaysTypes DEF ModemEnds
<1>19. CASE ModemPrompts
  BY <1>19, SaysTypes DEF ModemPrompts
<1>20. CASE ModemSent
  BY <1>20, SaysTypes DEF ModemSent, Results
<1>21. CASE ModemForgets
  <2>1. modem' \in [state : {"ready", "busy", "answering", "prompting", "data", "sending"},
                    of : Nat, op : Ops]
    BY ZenonT(20), <1>21 DEF ModemForgets, TypeOK
  <2>2. glitches' \in Nat
    BY <1>21 DEF ModemForgets, TypeOK
  <2>3. QED
    BY ZenonT(20), <1>21, <2>1, <2>2 DEF ModemForgets, TypeOK, client, history
<1>22. CASE ModemStray
  <2>1. Line("CRLF", cmds) \in Lines
    BY DEF Line, Lines, TypeOK
  <2>2. uart' \in Seq(Lines) /\ glitches' \in Nat
    BY <1>22, <2>1 DEF ModemStray, TypeOK
  <2>3. QED
    BY ZenonT(20), <1>22, <2>2 DEF ModemStray, TypeOK, client, history
<1>23. CASE UNCHANGED vars
  BY <1>23 DEF vars, TypeOK, client, history
<1>24. QED
  BY <1>1, <1>2, <1>3, <1>4, <1>5, <1>6, <1>7, <1>8, <1>9, <1>10,
     <1>11, <1>12, <1>13, <1>14, <1>15, <1>16, <1>17, <1>18,
     <1>19, <1>20, <1>21, <1>22, <1>23 DEF Next, Step, ModemNext
\* Which caller holds the lock.
LEMMA HolderAlone ==
    ASSUME TypeOK, Excluded, NEW c \in Caller, pc[c] \in Holding
    PROVE  lock = c /\ \A d \in Caller \ {c} : pc[d] \notin Holding
  BY DEF Excluded

\* The lock excludes.
LEMMA ExcludedStep ==
    ASSUME IInv, [Next]_vars
    PROVE  Excluded'
<1> USE DEF IInv
<1>1. ASSUME NEW c \in Caller, Begin(c) PROVE Excluded'
  <2>1. Goto(c, "lock") /\ pc[c] \notin Holding /\ lock' = lock
    BY <1>1 DEF Begin, Holding, client
  <2>2. QED
    BY <2>1, GotoTypes DEF Excluded, Labels, Holding
<1>2. ASSUME NEW c \in Caller, Lock(c) PROVE Excluded'
  <2>1. Goto(c, "set") /\ lock = NoCaller /\ lock' = c
    BY <1>2 DEF Lock
  <2>2. QED
    BY <2>1, GotoTypes, CallerAssumption DEF Excluded, Labels, Holding
<1>3. ASSUME NEW c \in Caller, Set(c) PROVE Excluded'
  <2>1. Goto(c, "write") /\ pc[c] \in Holding /\ lock' = lock
    BY <1>3 DEF Set, Holding, client
  <2>2. QED
    BY <2>1, GotoTypes DEF Excluded, Labels, Holding
<1>4. ASSUME NEW c \in Caller, Write(c) PROVE Excluded'
  <2>1. (Goto(c, "finish") \/ Goto(c, "take")) /\ pc[c] \in Holding /\ lock' = lock
    BY <1>4 DEF Write, Holding
  <2>2. QED
    BY <2>1, GotoTypes DEF Excluded, Labels, Holding
<1>5. ASSUME NEW c \in Caller, Take(c) PROVE Excluded'
  <2>1. Goto(c, "finish") /\ pc[c] \in Holding /\ lock' = lock
    BY <1>5 DEF Take, Holding, client
  <2>2. QED
    BY <2>1, GotoTypes DEF Excluded, Labels, Holding
<1>6. ASSUME NEW c \in Caller, Expire(c) PROVE Excluded'
  <2>1. Goto(c, "expired") /\ pc[c] \in Holding /\ lock' = lock
    BY <1>6 DEF Expire, Holding, client
  <2>2. QED
    BY <2>1, GotoTypes DEF Excluded, Labels, Holding
<1>7. ASSUME NEW c \in Caller, Again(c) PROVE Excluded'
  <2>1. Goto(c, "write") /\ pc[c] \in Holding /\ lock' = lock
    BY <1>7 DEF Again, Holding, client
  <2>2. QED
    BY <2>1, GotoTypes DEF Excluded, Labels, Holding
<1>8. ASSUME NEW c \in Caller, TimedOut(c) PROVE Excluded'
  <2>1. Leave(c, FALSE) /\ pc[c] \in Holding
    BY ZenonT(20), <1>8 DEF TimedOut, Holding
  <2>2. lock' = NoCaller /\ pc'[c] \in {"idle", "lock"} /\ \A d \in Caller \ {c} : pc'[d] = pc[d]
    BY ZenonT(20), <2>1, LeaveTypes
  <2>3. QED
    BY <2>1, <2>2, HolderAlone, CallerAssumption DEF Excluded, Holding
<1>9. ASSUME NEW c \in Caller, Delete(c) PROVE Excluded'
  <2>1. Goto(c, "deleted") /\ pc[c] \in Holding /\ lock' = lock
    BY <1>9 DEF Delete, Holding, client
  <2>2. QED
    BY <2>1, GotoTypes DEF Excluded, Labels, Holding
<1>10. ASSUME NEW c \in Caller, Clear(c) PROVE Excluded'
  <2>1. Leave(c, TRUE) /\ pc[c] \in Holding
    BY ZenonT(20), <1>10 DEF Clear, Holding
  <2>2. lock' = NoCaller /\ pc'[c] \in {"idle", "lock"} /\ \A d \in Caller \ {c} : pc'[d] = pc[d]
    BY ZenonT(20), <2>1, LeaveTypes
  <2>3. QED
    BY <2>1, <2>2, HolderAlone, CallerAssumption DEF Excluded, Holding
<1>11. ASSUME NEW c \in Caller, Finish(c) PROVE Excluded'
  <2>1. CASE Goto(c, "data") /\ UNCHANGED <<op, lock, my, by>>
    <3>1. pc[c] \in Holding
      BY <1>11 DEF Finish, Holding
    <3>2. QED
      BY <2>1, <3>1, GotoTypes DEF Excluded, Labels, Holding
  <2>2. CASE Leave(c, resp_status = "OK")
    <3>1. pc[c] \in Holding
      BY <1>11 DEF Finish, Holding
    <3>2. lock' = NoCaller /\ pc'[c] \in {"idle", "lock"} /\ \A d \in Caller \ {c} : pc'[d] = pc[d]
      BY ZenonT(20), <2>2, LeaveTypes
    <3>3. QED
      BY <3>1, <3>2, HolderAlone, CallerAssumption DEF Excluded, Holding
  <2>3. QED
    BY <1>11, <2>1, <2>2 DEF Finish
<1>12. ASSUME NEW c \in Caller, Data(c) PROVE Excluded'
  <2>1. Goto(c, "socket_event") /\ pc[c] \in Holding /\ lock' = lock
    BY <1>12 DEF Data, Holding, client
  <2>2. QED
    BY <2>1, GotoTypes DEF Excluded, Labels, Holding
<1>13. ASSUME NEW c \in Caller, SocketEvent(c) PROVE Excluded'
  <2>1. Goto(c, "send_event") /\ pc[c] \in Holding /\ lock' = lock
    BY <1>13 DEF SocketEvent, Holding, client
  <2>2. QED
    BY <2>1, GotoTypes DEF Excluded, Labels, Holding
<1>14. ASSUME NEW c \in Caller, SendEvent(c) PROVE Excluded'
  <2>1. PICK ok \in BOOLEAN : Leave(c, ok) /\ pc[c] \in Holding
    <3>1. ("SEND_FAIL" \notin socket_event) \in BOOLEAN
      OBVIOUS
    <3>2. QED
      BY ZenonT(20), <1>14, <3>1 DEF SendEvent, Holding
  <2>2. lock' = NoCaller /\ pc'[c] \in {"idle", "lock"} /\ \A d \in Caller \ {c} : pc'[d] = pc[d]
    BY <2>1, LeaveTypes
  <2>3. QED
    BY <2>1, <2>2, HolderAlone, CallerAssumption DEF Excluded, Holding
<1>15. ASSUME NEW c \in Caller, EventTimeout(c) PROVE Excluded'
  <2>1. Leave(c, FALSE) /\ pc[c] \in Holding
    BY ZenonT(20), <1>15 DEF EventTimeout, Holding
  <2>2. lock' = NoCaller /\ pc'[c] \in {"idle", "lock"} /\ \A d \in Caller \ {c} : pc'[d] = pc[d]
    BY ZenonT(20), <2>1, LeaveTypes
  <2>3. QED
    BY <2>1, <2>2, HolderAlone, CallerAssumption DEF Excluded, Holding
<1>16. CASE client_parser
  <2>1. UNCHANGED <<pc, lock>>
    BY ZenonT(20), <1>16 DEF client_parser, Urc, Response, client
  <2>2. QED
    BY <2>1 DEF Excluded
<1>17. CASE ModemInfo
  BY <1>17 DEF ModemInfo, ModemSays, client, Excluded
<1>18. CASE ModemEnds
  BY <1>18 DEF ModemEnds, ModemSays, client, Excluded
<1>19. CASE ModemPrompts
  BY <1>19 DEF ModemPrompts, ModemSays, client, Excluded
<1>20. CASE ModemSent
  BY <1>20 DEF ModemSent, ModemSays, client, Excluded
<1>21. CASE ModemForgets
  BY <1>21 DEF ModemForgets, ModemSays, client, Excluded
<1>22. CASE ModemStray
  BY <1>22 DEF ModemStray, ModemSays, client, Excluded
<1>23. CASE UNCHANGED vars
  BY <1>23 DEF vars, Excluded, client
<1>24. QED
  BY <1>1, <1>2, <1>3, <1>4, <1>5, <1>6, <1>7, <1>8, <1>9, <1>10,
     <1>11, <1>12, <1>13, <1>14, <1>15, <1>16, <1>17, <1>18,
     <1>19, <1>20, <1>21, <1>22, <1>23 DEF Next, Step, ModemNext

\* The response object belongs to the holder of the lock.
LEMMA NoDanglingStep ==
    ASSUME IInv, [Next]_vars
    PROVE  NoDanglingResponse'
<1> USE DEF IInv
<1>1. ASSUME NEW c \in Caller, Begin(c) PROVE NoDanglingResponse'
  <2>1. Goto(c, "lock") /\ pc[c] \notin Holding /\ UNCHANGED <<lock, resp>>
    BY <1>1 DEF Begin, Holding, client
  <2>2. QED
    BY <2>1, GotoTypes DEF NoDanglingResponse, Labels, Holding, TypeOK
<1>2. ASSUME NEW c \in Caller, Lock(c) PROVE NoDanglingResponse'
  <2>1. resp = NoCaller /\ resp' = resp
    BY <1>2 DEF Lock, NoDanglingResponse, TypeOK
  <2>2. QED
    BY <2>1 DEF NoDanglingResponse
<1>3. ASSUME NEW c \in Caller, Set(c) PROVE NoDanglingResponse'
  <2>1. Goto(c, "write") /\ lock' = lock /\ resp' \in {NoCaller, c} /\ lock = c
    BY <1>3 DEF Set, Excluded, Holding
  <2>2. QED
    BY <2>1, GotoTypes DEF NoDanglingResponse, Labels, Holding
<1>4. ASSUME NEW c \in Caller, Write(c) PROVE NoDanglingResponse'
  <2>1. (Goto(c, "finish") \/ Goto(c, "take")) /\ UNCHANGED <<lock, resp>> /\ lock = c
    BY <1>4 DEF Write, Excluded, Holding
  <2>2. QED
    BY <2>1, GotoTypes DEF NoDanglingResponse, Labels, Holding, TypeOK
<1>5. ASSUME NEW c \in Caller, Take(c) PROVE NoDanglingResponse'
  <2>1. Goto(c, "finish") /\ UNCHANGED <<lock, resp>> /\ lock = c
    BY <1>5 DEF Take, client, Excluded, Holding
  <2>2. QED
    BY <2>1, GotoTypes DEF NoDanglingResponse, Labels, Holding, TypeOK
<1>6. ASSUME NEW c \in Caller, Expire(c) PROVE NoDanglingResponse'
  <2>1. Goto(c, "expired") /\ UNCHANGED <<lock, resp>> /\ lock = c
    BY <1>6 DEF Expire, client, Excluded, Holding
  <2>2. QED
    BY <2>1, GotoTypes DEF NoDanglingResponse, Labels, Holding, TypeOK
<1>7. ASSUME NEW c \in Caller, Again(c) PROVE NoDanglingResponse'
  <2>1. Goto(c, "write") /\ UNCHANGED <<lock, resp>> /\ lock = c
    BY <1>7 DEF Again, client, Excluded, Holding
  <2>2. QED
    BY <2>1, GotoTypes DEF NoDanglingResponse, Labels, Holding, TypeOK
<1>8. ASSUME NEW c \in Caller, TimedOut(c) PROVE NoDanglingResponse'
  BY <1>8 DEF TimedOut, NoDanglingResponse
<1>9. ASSUME NEW c \in Caller, Delete(c) PROVE NoDanglingResponse'
  <2>1. Goto(c, "deleted") /\ UNCHANGED <<lock, resp>> /\ lock = c
    BY <1>9 DEF Delete, client, Excluded, Holding
  <2>2. QED
    BY <2>1, GotoTypes DEF NoDanglingResponse, Labels, Holding, TypeOK
<1>10. ASSUME NEW c \in Caller, Clear(c) PROVE NoDanglingResponse'
  BY <1>10 DEF Clear, NoDanglingResponse
<1>11. ASSUME NEW c \in Caller, Finish(c) PROVE NoDanglingResponse'
  BY <1>11 DEF Finish, NoDanglingResponse
<1>12. ASSUME NEW c \in Caller, Data(c) PROVE NoDanglingResponse'
  <2>1. resp = NoCaller
    BY <1>12, HolderAlone DEF Data, Holding, NoDanglingResponse, TypeOK
  <2>2. QED
    BY <1>12, <2>1 DEF Data, client, NoDanglingResponse
<1>13. ASSUME NEW c \in Caller, SocketEvent(c) PROVE NoDanglingResponse'
  <2>1. resp = NoCaller
    BY <1>13, HolderAlone DEF SocketEvent, Holding, NoDanglingResponse, TypeOK
  <2>2. QED
    BY <1>13, <2>1 DEF SocketEvent, client, NoDanglingResponse
<1>14. ASSUME NEW c \in Caller, SendEvent(c) PROVE NoDanglingResponse'
  <2>1. resp = NoCaller
    BY <1>14, HolderAlone DEF SendEvent, Holding, NoDanglingResponse, TypeOK
  <2>2. QED
    BY <1>14, <2>1 DEF SendEvent, NoDanglingResponse
<1>15. ASSUME NEW c \in Caller, EventTimeout(c) PROVE NoDanglingResponse'
  <2>1. resp = NoCaller
    BY <1>15, HolderAlone DEF EventTimeout, Holding, NoDanglingResponse, TypeOK
  <2>2. QED
    BY <1>15, <2>1 DEF EventTimeout, NoDanglingResponse
<1>16. CASE client_parser
  <2>1. UNCHANGED <<pc, lock>>
    BY ZenonT(20), <1>16 DEF client_parser, Urc, Response, client
  <2>2. resp' \in {resp, NoCaller}
    BY ZenonT(20), <1>16 DEF client_parser, Urc, Response, Expecting, client
  <2>3. QED
    BY <2>1, <2>2 DEF NoDanglingResponse
<1>17. CASE ModemInfo
  BY <1>17 DEF ModemInfo, ModemSays, client, NoDanglingResponse
<1>18. CASE ModemEnds
  BY <1>18 DEF ModemEnds, ModemSays, client, NoDanglingResponse
<1>19. CASE ModemPrompts
  BY <1>19 DEF ModemPrompts, ModemSays, client, NoDanglingResponse
<1>20. CASE ModemSent
  BY <1>20 DEF ModemSent, ModemSays, client, NoDanglingResponse
<1>21. CASE ModemForgets
  BY <1>21 DEF ModemForgets, ModemSays, client, NoDanglingResponse
<1>22. CASE ModemStray
  BY <1>22 DEF ModemStray, ModemSays, client, NoDanglingResponse
<1>23. CASE UNCHANGED vars
  BY <1>23 DEF vars, NoDanglingResponse, client
<1>24. QED
  BY <1>1, <1>2, <1>3, <1>4, <1>5, <1>6, <1>7, <1>8, <1>9, <1>10,
     <1>11, <1>12, <1>13, <1>14, <1>15, <1>16, <1>17, <1>18,
     <1>19, <1>20, <1>21, <1>22, <1>23 DEF Next, Step, ModemNext
\* The length of the semaphore's history is its count.
LEMMA Count ==
    ASSUME TypeOK
    PROVE  /\ Len(resp_notice) \in Nat /\ Due \in Nat /\ Due <= Len(resp_notice) + 1
           /\ resp_notice # <<>> => Len(Tail(resp_notice)) = Len(resp_notice) - 1
           /\ resp_notice = <<>> => Len(resp_notice) = 0
           /\ \A n \in Nat : Len(Append(resp_notice, n)) = Len(resp_notice) + 1
<1>1. Len(resp_notice) \in Nat
  BY DEF TypeOK
<1>2. QED
  BY <1>1 DEF TypeOK, Due

\* Outside "write" and "take" the holder of the lock leaves one release at most.
LEMMA NobodyWaits ==
    ASSUME IInv, NEW c \in Caller, pc[c] \in Holding,
           pc[c] \notin {"write", "take"} \/ op[c] = "reset"
    PROVE  ~Waits /\ Due <= 1
<1>1. ~Waits
  BY HolderAlone DEF IInv, Waits, Holding
<1>2. QED
  BY <1>1 DEF IInv, NoticeInv

\* A step that adds no release keeps the bound of one.
LEMMA NotMore ==
    ASSUME TypeOK, TypeOK', Due <= 1, Due' <= Due
    PROVE  NoticeInv'
<1>1. Due \in Nat /\ (Due \in Nat)'
  BY Count, PTL
<1>2. QED
  BY <1>1 DEF NoticeInv

\* Releases do not pile up.
LEMMA NoticeStep ==
    ASSUME IInv, [Next]_vars
    PROVE  NoticeInv'
<1> USE TypeStep DEF IInv
<1>1. ASSUME NEW c \in Caller, Begin(c) PROVE NoticeInv'
  <2>1. Goto(c, "lock") /\ pc[c] = "idle" /\ Due' = Due
    BY <1>1 DEF Begin, client, Due
  <2>2. \A d \in Caller \ {c} : pc'[d] = pc[d] /\ op'[d] = op[d]
    BY <1>1, <2>1, GotoTypes DEF Begin, Labels, TypeOK
  <2>3. Waits => Waits'
    BY <2>1, <2>2 DEF Waits
  <2>4. QED
    BY <2>1, <2>3, Count DEF NoticeInv
<1>2. ASSUME NEW c \in Caller, Lock(c) PROVE NoticeInv'
  <2>1. ~Waits
    BY <1>2, CallerAssumption DEF Lock, Waits, Excluded, Holding
  <2>2. Due <= 1 /\ Due' <= Due
    BY <1>2, <2>1, Count DEF Lock, Due, NoticeInv
  <2>3. QED
    BY <2>2, NotMore
<1>3. ASSUME NEW c \in Caller, Set(c) PROVE NoticeInv'
  <2>1. Due <= 1 /\ resp = NoCaller
    BY <1>3, NobodyWaits, HolderAlone DEF Set, Holding, NoDanglingResponse, TypeOK
  <2>2. CASE op[c] = "reset"
    <3>1. resp' = resp /\ resp_notice' = resp_notice
      BY <1>3, <2>1, <2>2 DEF Set
    <3>2. Due' = Due
      BY <3>1 DEF Due
    <3>3. QED
      BY <2>1, <3>2, Count, NotMore
  <2>3. CASE op[c] # "reset"
    <3>1. Waits'
      BY ZenonT(20), <1>3, <2>3, GotoTypes DEF Set, Waits, Labels, Holding
    <3>2. Due' <= 2
      BY <1>3, <2>1, Count DEF Set, Due
    <3>3. QED
      BY <3>1, <3>2 DEF NoticeInv
  <2>4. QED
    BY <2>2, <2>3
<1>4. ASSUME NEW c \in Caller, Write(c) PROVE NoticeInv'
  <2>1. Due' = Due
    BY <1>4 DEF Write, Due
  <2>2. CASE op[c] = "reset"
    BY <1>4, <2>1, <2>2, Count, NobodyWaits, NotMore DEF Write, Holding
  <2>3. CASE op[c] # "reset"
    <3>1. Waits'
      BY <1>4, <2>3, GotoTypes DEF Write, Waits, Labels, Holding
    <3>2. QED
      BY <2>1, <3>1, Count DEF NoticeInv
  <2>4. QED
    BY <2>2, <2>3
<1>5. ASSUME NEW c \in Caller, Take(c) PROVE NoticeInv'
  <2>1. Due <= 2
    BY Count DEF NoticeInv
  <2>2. Due' = Due - 1
    BY <1>5, Count DEF Take, Due
  <2>3. QED
    BY <2>1, <2>2, Count DEF NoticeInv
<1>6. ASSUME NEW c \in Caller, Expire(c) PROVE NoticeInv'
  <2>1. Due' <= 1
    BY <1>6, Count DEF Expire, Due, client
  <2>2. Due' \in Nat
    BY <1>6, Count DEF Expire, Due, client
  <2>3. QED
    BY <2>1, <2>2 DEF NoticeInv
<1>7. ASSUME NEW c \in Caller, Again(c) PROVE NoticeInv'
  <2>1. Due <= 1
    BY <1>7, NobodyWaits DEF Again, Holding
  <2>2. Due' <= Due
    BY <1>7, Count DEF Again, Due, client, TypeOK
  <2>3. QED
    BY <2>1, <2>2, NotMore
<1>8. ASSUME NEW c \in Caller, TimedOut(c) PROVE NoticeInv'
  <2>1. Due <= 1
    BY <1>8, NobodyWaits DEF TimedOut, Holding
  <2>2. Due' <= Due
    BY <1>8, Count DEF TimedOut, Due, client, TypeOK
  <2>3. QED
    BY <2>1, <2>2, NotMore
<1>9. ASSUME NEW c \in Caller, Delete(c) PROVE NoticeInv'
  <2>1. Due <= 1
    BY <1>9, NobodyWaits DEF Delete, Holding
  <2>2. Due' <= Due
    BY <1>9, Count DEF Delete, Due, client, TypeOK
  <2>3. QED
    BY <2>1, <2>2, NotMore
<1>10. ASSUME NEW c \in Caller, Clear(c) PROVE NoticeInv'
  <2>1. Due <= 1
    BY <1>10, NobodyWaits DEF Clear, Holding
  <2>2. Due' <= Due
    BY <1>10, Count DEF Clear, Due, client, TypeOK
  <2>3. QED
    BY <2>1, <2>2, NotMore
<1>11. ASSUME NEW c \in Caller, Finish(c) PROVE NoticeInv'
  <2>1. Due <= 1
    BY <1>11, NobodyWaits DEF Finish, Holding
  <2>2. Due' <= Due
    BY <1>11, Count DEF Finish, Due, client, TypeOK
  <2>3. QED
    BY <2>1, <2>2, NotMore
<1>12. ASSUME NEW c \in Caller, Data(c) PROVE NoticeInv'
  <2>1. Due <= 1
    BY <1>12, NobodyWaits DEF Data, Holding
  <2>2. Due' <= Due
    BY <1>12, Count DEF Data, Due, client, TypeOK
  <2>3. QED
    BY <2>1, <2>2, NotMore
<1>13. ASSUME NEW c \in Caller, SocketEvent(c) PROVE NoticeInv'
  <2>1. Due <= 1
    BY <1>13, NobodyWaits DEF SocketEvent, Holding
  <2>2. Due' <= Due
    BY <1>13, Count DEF SocketEvent, Due, client, TypeOK
  <2>3. QED
    BY <2>1, <2>2, NotMore
<1>14. ASSUME NEW c \in Caller, SendEvent(c) PROVE NoticeInv'
  <2>1. Due <= 1
    BY <1>14, NobodyWaits DEF SendEvent, Holding
  <2>2. Due' <= Due
    <3>1. resp' = resp /\ resp_notice' = resp_notice
      BY <1>14 DEF SendEvent
    <3>2. QED
      BY <3>1, Count DEF Due
  <2>3. QED
    BY <2>1, <2>2, NotMore
<1>15. ASSUME NEW c \in Caller, EventTimeout(c) PROVE NoticeInv'
  <2>1. Due <= 1
    BY <1>15, NobodyWaits DEF EventTimeout, Holding
  <2>2. Due' <= Due
    BY <1>15, Count DEF EventTimeout, Due, client, TypeOK
  <2>3. QED
    BY <2>1, <2>2, NotMore
<1>16. CASE client_parser
  <2>1. Waits' = Waits
    BY <1>16 DEF client_parser, Waits
  <2>2. Head(uart).of \in Nat
    BY <1>16, FirstLine DEF client_parser, Lines
  <2>3. Due' = Due
    <3>1. CASE UNCHANGED client
      BY <3>1 DEF client, Due
    <3>2. ASSUME resp # NoCaller, NEW fits \in BOOLEAN, Response(Head(uart), fits)
          PROVE  Due' = Due
      <4>1. PICK ends \in BOOLEAN :
               /\ resp' = Expecting(ends)
               /\ resp_notice' = IF ends THEN Append(resp_notice, Head(uart).of) ELSE resp_notice
        BY ZenonT(20), <3>2 DEF Response, Ends
      <4>2. Len(Append(resp_notice, Head(uart).of)) = Len(resp_notice) + 1
        BY <2>2, Count
      <4>3. CASE ends
        <5>1. resp' = NoCaller /\ Len(resp_notice') = Len(resp_notice) + 1
          BY <4>1, <4>2, <4>3 DEF Expecting
        <5>2. QED
          BY <3>2, <5>1, Count DEF Due
      <4>4. CASE ~ends
        <5>1. resp' = resp /\ resp_notice' = resp_notice
          BY <4>1, <4>4 DEF Expecting
        <5>2. QED
          BY <5>1 DEF Due
      <4>5. QED
        BY <4>3, <4>4
    <3>3. QED
      BY ZenonT(20), <1>16, <3>1, <3>2 DEF client_parser, Urc
  <2>4. QED
    BY <2>1, <2>3 DEF NoticeInv
<1>17. CASE ModemInfo
  BY <1>17 DEF ModemInfo, ModemSays, client, NoticeInv, Due, Waits
<1>18. CASE ModemEnds
  BY <1>18 DEF ModemEnds, ModemSays, client, NoticeInv, Due, Waits
<1>19. CASE ModemPrompts
  BY <1>19 DEF ModemPrompts, ModemSays, client, NoticeInv, Due, Waits
<1>20. CASE ModemSent
  BY <1>20 DEF ModemSent, ModemSays, client, NoticeInv, Due, Waits
<1>21. CASE ModemForgets
  BY <1>21 DEF ModemForgets, ModemSays, client, NoticeInv, Due, Waits
<1>22. CASE ModemStray
  BY <1>22 DEF ModemStray, ModemSays, client, NoticeInv, Due, Waits
<1>23. CASE UNCHANGED vars
  BY <1>23 DEF vars, NoticeInv, Due, Waits, client
<1>24. QED
  BY <1>1, <1>2, <1>3, <1>4, <1>5, <1>6, <1>7, <1>8, <1>9, <1>10,
     <1>11, <1>12, <1>13, <1>14, <1>15, <1>16, <1>17, <1>18,
     <1>19, <1>20, <1>21, <1>22, <1>23 DEF Next, Step, ModemNext

-----------------------------------------------------------------------------
(* The theorems.                                                           *)

\* The invariant holds.
LEMMA Invariance == Spec => []IInv
<1>1. Init => IInv
  <2> SUFFICES ASSUME Init PROVE IInv
    OBVIOUS
  <2>1. TypeOK
    <3>1. modem \in [state : {"ready", "busy", "answering", "prompting", "data", "sending"},
                    of : Nat, op : Ops]
      BY DEF Init, Modem, Ops
    <3>2. op \in [Caller -> Ops] /\ pc \in [Caller -> Labels]
      BY DEF Init, Ops, Labels
    <3>3. resp_notice \in Seq(Nat) /\ uart \in Seq(Lines)
      BY DEF Init
    <3>4. QED
      BY ZenonT(20), <3>1, <3>2, <3>3 DEF Init, TypeOK
  <2>2. Excluded /\ NoDanglingResponse
    BY CallerAssumption DEF Init, Excluded, NoDanglingResponse, Holding
  <2>3. NoticeInv
    BY Count, <2>1 DEF Init, NoticeInv, Due
  <2>4. QED
    BY <2>1, <2>2, <2>3 DEF IInv
<1>2. IInv /\ [Next]_vars => IInv'
  BY TypeStep, ExcludedStep, NoDanglingStep, NoticeStep DEF IInv
<1>3. QED
  BY <1>1, <1>2, PTL DEF Spec

\* Every variable keeps its type.
THEOREM TypeCorrect == Spec => []TypeOK
<1>1. IInv => TypeOK
  BY DEF IInv
<1>2. QED
  BY <1>1, Invariance, PTL

\* With any number of threads on the client, client->resp is never the object of
\* a caller that has given the lock back.
THEOREM ResponseIsOwned == Spec => []NoDanglingResponse
<1>1. IInv => NoDanglingResponse
  BY DEF IInv
<1>2. QED
  BY <1>1, Invariance, PTL

\* However many waits expire and however late their answers are, the semaphore
\* keeps one stale release at most when nobody holds the lock.
THEOREM StaleNoticesAreBounded == Spec => []OneStaleNotice
<1>1. IInv => OneStaleNotice
  <2> SUFFICES ASSUME IInv PROVE OneStaleNotice
    OBVIOUS
  <2>1. Len(resp_notice) \in Nat /\ Len(resp_notice) <= Due /\ Due \in Nat
    BY Count DEF IInv, Due
  <2>2. lock = NoCaller => ~Waits
    BY CallerAssumption DEF IInv, Waits, Excluded, Holding
  <2>3. QED
    BY <2>1, <2>2 DEF IInv, NoticeInv, OneStaleNotice
<1>2. QED
  BY <1>1, Invariance, PTL

-----------------------------------------------------------------------------
(* No stale answer: nothing was abandoned yet.                             *)

\* No wait has expired and no reset was sent, so nobody probes; the semaphore is
\* released for the caller that waits, once, and client->resp is cleared with it;
\* a status that says the response did not fit is there only before the end.
NothingLate ==
    /\ \A c \in Caller :
          /\ op[c] # "probe" /\ pc[c] \notin {"expired", "deleted"}
          /\ op[c] = "reset" =>
                pc[c] \notin {"take", "finish", "data", "socket_event", "send_event"}
          /\ pc[c] = "finish" => resp = NoCaller
    /\ resp_notice # <<>> =>
          /\ lock # NoCaller /\ pc[lock] \in {"write", "take"} /\ resp = NoCaller
          /\ Len(resp_notice) = 1
    /\ resp_status = "BUFF_FULL" => resp # NoCaller

Punctual == abandoned = 0 => NothingLate

\* Nothing is abandoned before it is counted.
LEMMA Patience ==
    ASSUME TypeOK, [Next]_vars, abandoned' = 0
    PROVE  /\ abandoned = 0
           /\ \A c \in Caller : /\ ~Expire(c) /\ ~EventTimeout(c)
                                /\ Write(c) => op[c] # "reset"
<1>1. abandoned \in Nat /\ abandoned + 1 # 0
  BY DEF TypeOK
<1>2. \A c \in Caller : ~Expire(c) /\ ~EventTimeout(c)
  BY ZenonT(20), <1>1 DEF Expire, EventTimeout
<1>3. \A c \in Caller : Write(c) => op[c] # "reset" /\ abandoned' = abandoned
  BY <1>1 DEF Write
<1>4. ASSUME NEW c \in Caller, Begin(c) \/ Lock(c) \/ Step(c) PROVE abandoned' = abandoned
  <2>1. CASE Begin(c) \/ Lock(c) \/ Set(c) \/ Take(c) \/ Again(c) \/ TimedOut(c)
    BY ZenonT(20), <2>1 DEF Begin, Lock, Set, Take, Again, TimedOut
  <2>2. CASE Delete(c) \/ Clear(c) \/ Finish(c) \/ Data(c) \/ SocketEvent(c) \/ SendEvent(c)
    BY ZenonT(20), <2>2 DEF Delete, Clear, Finish, Data, SocketEvent, SendEvent
  <2>3. QED
    BY <1>2, <1>3, <1>4, <2>1, <2>2 DEF Step
<1>5. CASE client_parser
  BY <1>5, <1>2, <1>3 DEF client_parser
<1>6. CASE ModemNext
  BY <1>6, <1>2, <1>3 DEF ModemNext, ModemInfo, ModemEnds, ModemPrompts, ModemSent, ModemForgets, ModemStray, ModemSays
<1>7. CASE UNCHANGED vars
  BY <1>7, <1>2, <1>3 DEF vars
<1>8. QED
  BY <1>2, <1>3, <1>4, <1>5, <1>6, <1>7 DEF Next

\* The modem's steps leave the client and its callers alone.
LEMMA ModemSteps ==
    ASSUME ModemNext
    PROVE  UNCHANGED <<op, pc, client, socket_event, cmds, my, by, sent_of, abandoned, corrupted>>
  BY DEF ModemNext, ModemInfo, ModemEnds, ModemPrompts, ModemSent, ModemForgets, ModemStray,
         ModemSays, history

\* What the parser does with a line.
LEMMA ParserSteps ==
    ASSUME client_parser
    PROVE  /\ uart # <<>> /\ uart' = Tail(uart)
           /\ UNCHANGED <<op, pc, lock, modem, cmds, my, by, quiet, abandoned, glitches>>
           /\ \/ Head(uart).kind \in Results /\ Urc(Head(uart))
              \/ /\ Head(uart).kind \notin Results /\ resp # NoCaller
                 /\ \E fits \in BOOLEAN : /\ Head(uart).kind # "info" => fits
                                         /\ Response(Head(uart), fits)
                 /\ UNCHANGED <<socket_event, sent_of>>
              \/ /\ Head(uart).kind \notin Results /\ resp = NoCaller
                 /\ UNCHANGED <<client, socket_event, sent_of>>
<1>1. CASE Head(uart).kind \in Results
  BY <1>1 DEF client_parser, Urc, client
<1>2. CASE Head(uart).kind \notin Results /\ resp # NoCaller
  <2>1. PICK fits \in BOOLEAN : (Head(uart).kind # "info" => fits) /\ Response(Head(uart), fits)
    BY ZenonT(20), <1>2 DEF client_parser
  <2>2. QED
    BY <1>2, <2>1 DEF client_parser, Response
<1>3. CASE Head(uart).kind \notin Results /\ resp = NoCaller
  BY <1>3 DEF client_parser, client
<1>4. QED
  BY <1>1, <1>2, <1>3

\* What a line does to the response of a caller whose object is there.
LEMMA ResponseSteps ==
    ASSUME NEW l, NEW fits \in BOOLEAN, Response(l, fits)
    PROVE  \E ends \in BOOLEAN :
              /\ pc[resp] # "deleted" =>
                    ends = Ends(op[resp], l, IF fits THEN line_counts + 1 ELSE line_counts)
              /\ line_counts' = IF fits THEN line_counts + 1 ELSE line_counts
              /\ resp_status' = Status(l, ends, fits)
              /\ resp' = IF ends THEN NoCaller ELSE resp
              /\ resp_notice' = IF ends THEN Append(resp_notice, l.of) ELSE resp_notice
<1>1. \A o, n : Ends(o, l, n) \in BOOLEAN
  BY DEF Ends
<1>2. QED
  BY <1>1 DEF Response, Expecting

\* A sequence without elements.
LEMMA EmptySeq ==
    ASSUME NEW S, NEW q \in Seq(S), Len(q) = 0
    PROVE  q = <<>>
  OBVIOUS

\* The tail of a sequence of one element.
LEMMA OneLeft ==
    ASSUME NEW S, NEW q \in Seq(S), Len(q) = 1
    PROVE  Tail(q) = <<>>
<1>1. Tail(q) \in Seq(S) /\ Len(Tail(q)) = 0
  OBVIOUS
<1>2. QED
  BY ZenonT(20), <1>1, EmptySeq

\* Every step keeps the answers in time as long as nothing was abandoned.
LEMMA PunctualStep ==
    ASSUME IInv, Punctual, [Next]_vars
    PROVE  Punctual'
<1> SUFFICES ASSUME abandoned' = 0 PROVE NothingLate'
  BY DEF Punctual
<1>0. /\ TypeOK /\ Excluded /\ NothingLate
      /\ \A c \in Caller : ~Expire(c) /\ ~EventTimeout(c) /\ (Write(c) => op[c] # "reset")
  BY Patience DEF IInv, Punctual
<1>1. ASSUME NEW c \in Caller, Begin(c) PROVE NothingLate'
  <2>1. UNCHANGED <<lock, resp, resp_status, resp_notice>> /\ lock # c /\ lock \in Caller \cup {NoCaller}
    BY ZenonT(20), <1>0, <1>1 DEF Begin, client, Excluded, Holding, TypeOK
  <2>2. /\ pc'[c] = "lock" /\ op'[c] # "probe"
        /\ \A d \in Caller \ {c} : pc'[d] = pc[d] /\ op'[d] = op[d]
    BY <1>0, <1>1 DEF Begin, Goto, TypeOK
  <2>3. QED
    BY <1>0, <2>1, <2>2 DEF NothingLate
<1>2. ASSUME NEW c \in Caller, Lock(c) PROVE NothingLate'
  <2>1. UNCHANGED <<op, resp, resp_status, resp_notice>> /\ resp_notice = <<>>
    BY <1>0, <1>2 DEF Lock, NothingLate
  <2>2. pc'[c] = "set" /\ \A d \in Caller \ {c} : pc'[d] = pc[d]
    BY <1>0, <1>2 DEF Lock, Goto, TypeOK
  <2>3. QED
    BY <1>0, <2>1, <2>2 DEF NothingLate
<1>3. ASSUME NEW c \in Caller, Set(c) PROVE NothingLate'
  <2>1. /\ UNCHANGED <<op, lock, resp_notice>> /\ resp_notice = <<>>
        /\ resp_status' = "OK"
    BY <1>0, <1>3 DEF Set, NothingLate, Excluded, Holding
  <2>2. pc'[c] = "write" /\ \A d \in Caller \ {c} : pc'[d] = pc[d] /\ pc[d] # "finish"
    BY <1>0, <1>3, HolderAlone DEF Set, Goto, TypeOK, Holding
  <2>3. QED
    BY <1>0, <2>1, <2>2 DEF NothingLate
<1>4. ASSUME NEW c \in Caller, Write(c) PROVE NothingLate'
  <2>1. UNCHANGED <<op, lock, resp, resp_status, resp_notice>> /\ lock = c /\ op[c] # "reset"
    BY ZenonT(20), <1>0, <1>4 DEF Write, Excluded, Holding
  <2>2. pc'[c] = "take" /\ \A d \in Caller \ {c} : pc'[d] = pc[d]
    BY <1>0, <1>4 DEF Write, Goto, TypeOK
  <2>3. QED
    BY ZenonT(20), <1>0, <2>1, <2>2 DEF NothingLate
<1>5. ASSUME NEW c \in Caller, Take(c) PROVE NothingLate'
  <2>1. UNCHANGED <<op, lock, resp, resp_status>> /\ resp = NoCaller /\ op[c] # "reset"
    BY ZenonT(20), <1>0, <1>5 DEF Take, NothingLate
  <2>2. pc'[c] = "finish" /\ \A d \in Caller \ {c} : pc'[d] = pc[d]
    BY <1>0, <1>5 DEF Take, Goto, TypeOK
  <2>3. resp_notice' = <<>>
    <3>1. resp_notice \in Seq(Nat) /\ resp_notice # <<>> /\ Len(resp_notice) = 1
      BY <1>0, <1>5 DEF Take, NothingLate, TypeOK
    <3>2. Tail(resp_notice) = <<>>
      BY <3>1, OneLeft
    <3>3. QED
      BY <1>5, <3>2 DEF Take
  <2>4. QED
    BY ZenonT(20), <1>0, <2>1, <2>2, <2>3 DEF NothingLate
<1>6. ASSUME NEW c \in Caller, Finish(c) PROVE NothingLate'
  <2>1. /\ UNCHANGED <<resp_status, resp_notice>> /\ resp' = resp /\ resp = NoCaller
        /\ resp_notice = <<>> /\ op[c] # "reset"
    BY ZenonT(20), <1>0, <1>6 DEF Finish, NothingLate, Excluded, Holding
  <2>2. /\ pc'[c] \in {"data", "idle", "lock"} /\ op'[c] # "probe"
        /\ op'[c] = "reset" => pc'[c] # "data"
        /\ \A d \in Caller \ {c} : pc'[d] = pc[d] /\ op'[d] = op[d]
    BY <1>0, <1>6, <2>1 DEF Finish, Leave, After, Goto, TypeOK
  <2>3. QED
    BY <1>0, <2>1, <2>2 DEF NothingLate
<1>7. ASSUME NEW c \in Caller, Data(c) \/ SocketEvent(c) PROVE NothingLate'
  <2>1. /\ UNCHANGED <<op, lock, resp, resp_status, resp_notice>> /\ resp_notice = <<>>
        /\ op[c] # "reset"
    BY <1>0, <1>7 DEF Data, SocketEvent, client, NothingLate, Excluded, Holding
  <2>2. /\ pc'[c] \in {"socket_event", "send_event"}
        /\ \A d \in Caller \ {c} : pc'[d] = pc[d]
    BY <1>0, <1>7 DEF Data, SocketEvent, Goto, TypeOK
  <2>3. QED
    BY <1>0, <2>1, <2>2 DEF NothingLate
<1>8. ASSUME NEW c \in Caller, SendEvent(c) PROVE NothingLate'
  <2>1. /\ UNCHANGED <<resp, resp_status, resp_notice>> /\ resp_notice = <<>>
        /\ op[c] # "reset"
    BY <1>0, <1>8 DEF SendEvent, NothingLate, Excluded, Holding
  <2>2. /\ pc'[c] \in {"idle", "lock"} /\ op'[c] # "probe"
        /\ \A d \in Caller \ {c} : pc'[d] = pc[d] /\ op'[d] = op[d]
    BY <1>0, <1>8, <2>1 DEF SendEvent, Leave, After, Goto, TypeOK
  <2>3. QED
    BY <1>0, <2>1, <2>2 DEF NothingLate
<1>9. CASE client_parser
  <2>1. UNCHANGED <<op, pc, lock>>
    BY <1>9, ParserSteps
  <2>2. CASE UNCHANGED client
    BY <1>0, <2>1, <2>2 DEF client, NothingLate
  <2>3. ASSUME resp # NoCaller, NEW fits \in BOOLEAN, Response(Head(uart), fits)
        PROVE  NothingLate'
    <3>1. resp_notice = <<>> /\ lock = resp /\ pc[lock] \in {"write", "take"}
      BY <1>0, <2>3 DEF IInv, NothingLate, NoDanglingResponse, TypeOK
    <3>2. PICK ends \in BOOLEAN :
             /\ resp_status' = Status(Head(uart), ends, fits)
             /\ resp' = IF ends THEN NoCaller ELSE resp
             /\ resp_notice' = IF ends THEN Append(resp_notice, Head(uart).of) ELSE resp_notice
      BY <2>3, ResponseSteps
    <3>3. CASE ends
      <4>1. resp' = NoCaller /\ resp_notice' = <<Head(uart).of>> /\ Len(resp_notice') = 1
        BY <3>1, <3>2, <3>3
      <4>2. resp_status' # "BUFF_FULL"
        BY <3>2, <3>3 DEF Status
      <4>3. QED
        BY <1>0, <2>1, <2>3, <3>1, <4>1, <4>2 DEF NothingLate
    <3>4. CASE ~ends
      BY <1>0, <2>1, <2>3, <3>1, <3>2, <3>4 DEF NothingLate
    <3>5. QED
      BY <3>3, <3>4
  <2>4. QED
    BY ZenonT(20), <1>9, <2>2, <2>3, ParserSteps DEF Urc
<1>10. CASE ModemNext \/ UNCHANGED vars
  <2>1. UNCHANGED <<op, pc, client>>
    BY <1>10, ModemSteps DEF vars
  <2>2. QED
    BY <1>0, <2>1 DEF client, NothingLate
<1>11. ASSUME NEW c \in Caller, Again(c) \/ TimedOut(c) \/ Delete(c) \/ Clear(c)
       PROVE  FALSE
  BY ZenonT(20), <1>0, <1>11 DEF Again, TimedOut, Delete, Clear, NothingLate
<1>12. QED
  BY <1>0, <1>1, <1>2, <1>3, <1>4, <1>5, <1>6, <1>7, <1>8, <1>9, <1>10, <1>11 DEF Next, Step

\* With any number of threads and commands: as long as no wait has expired and
\* no reset was sent, at_obj_exec_cmd never returns AT_RESP_BUFF_FULL, because
\* the line that ends the answer overwrites the status.
THEOREM FullIsNeverReported == Spec => []FullIsNotReported
<1>1. Init => Punctual
  BY DEF Init, Punctual, NothingLate
<1>2. IInv /\ Punctual /\ [Next]_vars => Punctual'
  BY PunctualStep
<1>3. Punctual => FullIsNotReported
  BY DEF Punctual, NothingLate, FullIsNotReported
<1>4. QED
  BY <1>1, <1>2, <1>3, Invariance, PTL DEF Spec

-----------------------------------------------------------------------------
(* Whose answer it is.                                                     *)

\* Nothing that is under way belongs to a command that is not written yet.
Bounded ==
    /\ modem.of <= cmds
    /\ \A i \in 1..Len(uart) : uart[i].of <= cmds
    /\ \A i \in 1..Len(resp_notice) : resp_notice[i] <= cmds

\* The holder of the lock wrote the last command.  While it waits and client->resp
\* is set, its own answer has not released the semaphore; and a probe that ended
\* with its own answer has left client->resp cleared.
OwnNumber(c) ==
    /\ pc[c] \in Holding \ {"set", "write"} => my[c] = cmds /\ cmds > 0
    /\ pc[c] \in {"idle", "lock", "set", "write", "take", "expired"} => by[c] = 0
    /\ pc[c] = "deleted" => op[c] = "probe"
    /\ pc[c] = "take" /\ resp # NoCaller =>
          \A i \in 1..Len(resp_notice) : resp_notice[i] # my[c]
    /\ pc[c] \in {"finish", "deleted"} /\ op[c] = "probe" /\ by[c] = my[c] => resp = NoCaller

Numbered == Bounded /\ \A c \in Caller : OwnNumber(c)

\* The first element of a sequence and the others.
LEMMA TailFacts ==
    ASSUME NEW S, NEW q \in Seq(S), q # <<>>
    PROVE  /\ Len(q) \in Nat /\ 1 \in 1..Len(q) /\ Head(q) = q[1]
           /\ \A i \in 1..Len(Tail(q)) : Tail(q)[i] = q[i + 1] /\ i + 1 \in 1..Len(q)
  OBVIOUS

\* A sequence with one more element.
LEMMA AppendFacts ==
    ASSUME NEW S, NEW q \in Seq(S), NEW e \in S
    PROVE  /\ Len(q) \in Nat /\ Len(Append(q, e)) = Len(q) + 1
           /\ \A i \in 1..Len(Append(q, e)) :
                 IF i = Len(q) + 1 THEN Append(q, e)[i] = e
                 ELSE i \in 1..Len(q) /\ Append(q, e)[i] = q[i]
  OBVIOUS

\* What the modem says belongs to a command that was written.
LEMMA SaysBounded ==
    ASSUME TypeOK, Bounded, NEW k \in {"info", "OK", "ERROR", ">", "CRLF"} \cup Results,
           NEW n \in Nat, n <= cmds, uart' = Append(uart, Line(k, n)),
           modem'.of = modem.of, cmds' = cmds, resp_notice' = resp_notice
    PROVE  Bounded'
<1>1. Line(k, n) \in Lines /\ Line(k, n).of = n /\ uart \in Seq(Lines)
  BY DEF Line, Lines, TypeOK
<1>2. \A i \in 1..Len(uart') : uart'[i].of <= cmds
  BY <1>1, AppendFacts DEF Bounded
<1>3. QED
  BY <1>2 DEF Bounded

\* Every step keeps the numbers bounded.
LEMMA BoundedStep ==
    ASSUME TypeOK, Bounded, [Next]_vars
    PROVE  Bounded'
<1>0. /\ cmds \in Nat /\ modem.of \in Nat /\ uart \in Seq(Lines) /\ resp_notice \in Seq(Nat)
      /\ \A i \in 1..Len(uart) : uart[i].of \in Nat
      /\ \A i \in 1..Len(resp_notice) : resp_notice[i] \in Nat
  <2>1. /\ cmds \in Nat /\ modem.of \in Nat /\ uart \in Seq(Lines) /\ resp_notice \in Seq(Nat)
    BY DEF TypeOK
  <2>2. \A i \in 1..Len(uart) : uart[i] \in Lines
    BY <2>1
  <2>3. \A i \in 1..Len(resp_notice) : resp_notice[i] \in Nat
    BY <2>1
  <2>4. QED
    BY <2>1, <2>2, <2>3 DEF Lines
<1>1. CASE UNCHANGED <<modem, uart, resp_notice, cmds>>
  BY <1>1 DEF Bounded
<1>2. ASSUME NEW c \in Caller, Write(c) PROVE Bounded'
  <2>1. UNCHANGED <<uart, resp_notice>> /\ cmds' = cmds + 1
    BY <1>2 DEF Write
  <2>2. modem'.of \in {modem.of, cmds + 1}
    BY <1>2 DEF Write, Receive, Modem, TypeOK
  <2>3. QED
    BY <1>0, <2>1, <2>2 DEF Bounded
<1>3. ASSUME NEW c \in Caller, Take(c) PROVE Bounded'
  <2>1. UNCHANGED <<modem, uart, cmds>> /\ resp_notice # <<>> /\ resp_notice' = Tail(resp_notice)
    BY <1>3 DEF Take
  <2>2. QED
    BY <1>0, <2>1, TailFacts DEF Bounded
<1>4. ASSUME NEW c \in Caller, Data(c) PROVE Bounded'
  <2>1. UNCHANGED <<uart, resp_notice, cmds>> /\ modem'.of = modem.of
    BY <1>4 DEF Data, client, TypeOK
  <2>2. QED
    BY <2>1 DEF Bounded
<1>5. CASE client_parser
  <2>1. uart # <<>> /\ uart' = Tail(uart) /\ UNCHANGED <<modem, cmds>>
    BY <1>5, ParserSteps
  <2>2. \A i \in 1..Len(uart') : uart'[i].of <= cmds
    BY <1>0, <2>1, TailFacts DEF Bounded
  <2>3. Head(uart).of \in Nat /\ Head(uart).of <= cmds
    BY <1>0, <2>1, TailFacts DEF Bounded
  <2>4. resp_notice' \in {resp_notice, Append(resp_notice, Head(uart).of)}
    BY <1>5, ParserSteps, ResponseSteps DEF Urc, client
  <2>5. \A i \in 1..Len(resp_notice') : resp_notice'[i] <= cmds
    <3>1. CASE resp_notice' = resp_notice
      BY <3>1 DEF Bounded
    <3>2. CASE resp_notice' = Append(resp_notice, Head(uart).of)
      <4>1. \A i \in 1..Len(resp_notice') :
               \/ resp_notice'[i] = Head(uart).of
               \/ i \in 1..Len(resp_notice) /\ resp_notice'[i] = resp_notice[i]
        BY <1>0, <2>3, <3>2, AppendFacts
      <4>2. QED
        BY <2>3, <4>1 DEF Bounded
    <3>3. QED
      BY <2>4, <3>1, <3>2
  <2>6. QED
    BY <2>1, <2>2, <2>5 DEF Bounded
<1>6. ASSUME NEW k \in {"info", "OK", "ERROR", ">", "CRLF"} \cup Results, NEW st, ModemSays(k, st)
      PROVE  Bounded'
  <2>1. /\ uart' = Append(uart, Line(k, modem.of)) /\ modem'.of = modem.of
        /\ cmds' = cmds /\ resp_notice' = resp_notice
    BY <1>6 DEF ModemSays, client, TypeOK
  <2>2. QED
    BY <1>0, <2>1, SaysBounded DEF Bounded
<1>7. CASE ModemInfo \/ ModemEnds \/ ModemPrompts \/ ModemSent
  BY <1>6, <1>7 DEF ModemInfo, ModemEnds, ModemPrompts, ModemSent, Results
<1>8. CASE ModemForgets
  <2>1. UNCHANGED <<uart, resp_notice, cmds>> /\ modem'.of = modem.of
    BY <1>8 DEF ModemForgets, client, TypeOK
  <2>2. QED
    BY <2>1 DEF Bounded
<1>9. CASE ModemStray
  <2>1. /\ uart' = Append(uart, Line("CRLF", cmds)) /\ modem' = modem
        /\ cmds' = cmds /\ resp_notice' = resp_notice
    BY <1>9 DEF ModemStray, client
  <2>2. QED
    BY <1>0, <2>1, SaysBounded
<1>10. ASSUME NEW c \in Caller,
              \/ Begin(c) \/ Lock(c) \/ Set(c) \/ Expire(c) \/ Again(c) \/ TimedOut(c)
              \/ Delete(c) \/ Clear(c) \/ Finish(c) \/ SocketEvent(c) \/ SendEvent(c)
              \/ EventTimeout(c)
       PROVE  UNCHANGED <<modem, uart, resp_notice, cmds>>
  <2>1. CASE Begin(c) \/ Lock(c) \/ Set(c) \/ Expire(c) \/ Again(c) \/ TimedOut(c)
    BY ZenonT(20), <2>1 DEF Begin, Lock, Set, Expire, Again, TimedOut, client
  <2>2. CASE Delete(c) \/ Clear(c) \/ Finish(c)
    BY ZenonT(20), <2>2 DEF Delete, Clear, Finish, client
  <2>3. CASE SocketEvent(c) \/ SendEvent(c) \/ EventTimeout(c)
    BY ZenonT(20), <2>3 DEF SocketEvent, SendEvent, EventTimeout, client
  <2>4. QED
    BY <1>10, <2>1, <2>2, <2>3
<1>11. CASE UNCHANGED vars
  BY <1>1, <1>11 DEF vars, client
<1>12. QED
  BY <1>1, <1>2, <1>3, <1>4, <1>5, <1>7, <1>8, <1>9, <1>10, <1>11 DEF Next, Step, ModemNext

\* A caller outside its command is not concerned by what the others do.
LEMMA BystanderNumber ==
    ASSUME NEW d \in Caller, OwnNumber(d), pc[d] \notin Holding, pc'[d] = pc[d], by'[d] = by[d]
    PROVE  OwnNumber(d)'
  BY DEF OwnNumber, Holding

\* Every step keeps the numbers of the callers.
LEMMA NumberedStep ==
    ASSUME IInv, Numbered, [Next]_vars
    PROVE  Numbered'
<1>0. TypeOK /\ Excluded /\ Bounded /\ \A c \in Caller : OwnNumber(c)
  BY DEF IInv, Numbered
<1>a. Bounded'
  BY <1>0, BoundedStep
<1> SUFFICES \A d \in Caller : OwnNumber(d)'
  BY <1>a DEF Numbered
<1>b. ASSUME NEW c \in Caller, pc[c] \in Holding \/ lock = NoCaller,
             \A d \in Caller \ {c} : pc'[d] = pc[d] /\ by'[d] = by[d],
             OwnNumber(c)'
      PROVE  \A d \in Caller : OwnNumber(d)'
  <2>1. \A d \in Caller \ {c} : pc[d] \notin Holding
    BY <1>0, <1>b, HolderAlone, CallerAssumption DEF Excluded
  <2>2. ASSUME NEW d \in Caller PROVE OwnNumber(d)'
    BY <1>0, <1>b, <2>1, BystanderNumber
  <2>3. QED
    BY <2>2
<1>1. ASSUME NEW c \in Caller, Begin(c) PROVE \A d \in Caller : OwnNumber(d)'
  <2>1. UNCHANGED <<resp, resp_notice, cmds, my, by>> /\ pc[c] = "idle"
    BY <1>1 DEF Begin, client, history
  <2>2. pc'[c] = "lock" /\ \A d \in Caller \ {c} : pc'[d] = pc[d] /\ op'[d] = op[d]
    BY <1>0, <1>1 DEF Begin, Goto, TypeOK
  <2>3. QED
    BY <1>0, <2>1, <2>2 DEF OwnNumber, Holding
<1>2. ASSUME NEW c \in Caller, Lock(c) PROVE \A d \in Caller : OwnNumber(d)'
  <2>1. pc[c] = "lock" /\ lock = NoCaller /\ by' = by
    BY <1>2 DEF Lock, history
  <2>2. pc'[c] = "set" /\ \A d \in Caller \ {c} : pc'[d] = pc[d]
    BY <1>0, <1>2 DEF Lock, Goto, TypeOK
  <2>3. OwnNumber(c)'
    BY <1>0, <2>1, <2>2 DEF OwnNumber
  <2>4. QED
    BY <1>b, <2>1, <2>2, <2>3
<1>3. ASSUME NEW c \in Caller, Set(c) PROVE \A d \in Caller : OwnNumber(d)'
  <2>1. pc[c] = "set" /\ pc[c] \in Holding /\ by' = by
    BY <1>3 DEF Set, history, Holding
  <2>2. pc'[c] = "write" /\ \A d \in Caller \ {c} : pc'[d] = pc[d]
    BY <1>0, <1>3 DEF Set, Goto, TypeOK
  <2>3. OwnNumber(c)'
    BY ZenonT(20), <1>0, <2>1, <2>2 DEF OwnNumber
  <2>4. QED
    BY <1>b, <2>1, <2>2, <2>3
<1>4. ASSUME NEW c \in Caller, Write(c) PROVE \A d \in Caller : OwnNumber(d)'
  <2>1. /\ pc[c] = "write" /\ pc[c] \in Holding /\ op' = op /\ cmds' = cmds + 1
        /\ UNCHANGED <<resp, resp_notice>> /\ cmds \in Nat
    BY <1>0, <1>4 DEF Write, Holding, TypeOK
  <2>2. /\ pc'[c] = IF op[c] = "reset" THEN "finish" ELSE "take"
        /\ \A d \in Caller \ {c} : pc'[d] = pc[d] /\ by'[d] = by[d]
        /\ my'[c] = cmds + 1
        /\ op[c] # "reset" => by'[c] = by[c]
    BY <1>0, <1>4 DEF Write, Goto, TypeOK
  <2>3. \A i \in 1..Len(resp_notice) : resp_notice[i] # cmds + 1
    <3>1. resp_notice \in Seq(Nat) /\ \A i \in 1..Len(resp_notice) : resp_notice[i] <= cmds
      BY <1>0 DEF TypeOK, Bounded
    <3>2. \A i \in 1..Len(resp_notice) : resp_notice[i] \in Nat
      BY <3>1
    <3>3. QED
      BY <2>1, <3>1, <3>2
  <2>4. CASE op[c] = "reset"
    <3>1. pc'[c] = "finish" /\ my'[c] = cmds' /\ cmds' > 0 /\ op'[c] = "reset"
      BY <2>1, <2>2, <2>4
    <3>a. OwnNumber(c)'
      BY <3>1 DEF OwnNumber
    <3>2. QED
      BY <1>b, <2>1, <2>2, <3>a
  <2>5. CASE op[c] # "reset"
    <3>a. /\ pc'[c] = "take" /\ my'[c] = cmds' /\ cmds' > 0
          /\ \A i \in 1..Len(resp_notice') : resp_notice'[i] # my'[c]
      BY <2>1, <2>2, <2>3, <2>5
    <3>b. by'[c] = 0
      BY <1>0, <2>1, <2>2, <2>5 DEF OwnNumber
    <3>1. OwnNumber(c)'
      BY <3>a, <3>b DEF OwnNumber
    <3>2. QED
      BY <1>b, <2>1, <2>2, <3>1
  <2>6. QED
    BY <2>4, <2>5
<1>5. ASSUME NEW c \in Caller, Take(c) PROVE \A d \in Caller : OwnNumber(d)'
  <2>1. /\ pc[c] = "take" /\ pc[c] \in Holding /\ resp_notice # <<>>
        /\ UNCHANGED <<op, resp, cmds, my>>
    BY <1>5 DEF Take, Holding
  <2>2. /\ pc'[c] = "finish" /\ by'[c] = Head(resp_notice)
        /\ \A d \in Caller \ {c} : pc'[d] = pc[d] /\ by'[d] = by[d]
    BY <1>0, <1>5 DEF Take, Goto, TypeOK
  <2>3. 1 \in 1..Len(resp_notice) /\ Head(resp_notice) = resp_notice[1]
    BY <1>0, <2>1, TailFacts DEF TypeOK
  <2>4. resp # NoCaller => by'[c] # my[c]
    BY <1>0, <2>1, <2>2, <2>3 DEF OwnNumber
  <2>5. my[c] = cmds /\ cmds > 0
    BY <1>0, <2>1 DEF OwnNumber, Holding
  <2>6. OwnNumber(c)'
    BY <2>1, <2>2, <2>4, <2>5 DEF OwnNumber
  <2>7. QED
    BY ZenonT(20), <1>b, <2>1, <2>2, <2>6
<1>6. ASSUME NEW c \in Caller, Expire(c) \/ Again(c) PROVE \A d \in Caller : OwnNumber(d)'
  <2>1. /\ pc[c] \in {"take", "expired"} /\ pc[c] \in Holding /\ UNCHANGED <<cmds, my, by>>
    BY <1>6 DEF Expire, Again, history, Holding
  <2>2. pc'[c] \in {"expired", "write"} /\ \A d \in Caller \ {c} : pc'[d] = pc[d]
    BY <1>0, <1>6 DEF Expire, Again, Goto, TypeOK
  <2>3. OwnNumber(c)'
    BY <1>0, <2>1, <2>2 DEF OwnNumber, Holding
  <2>4. QED
    BY <1>b, <2>1, <2>2, <2>3
<1>7. ASSUME NEW c \in Caller, NEW ok, pc[c] \in Holding, Leave(c, ok)
      PROVE \A d \in Caller : OwnNumber(d)'
  <2>1. /\ pc'[c] \in {"idle", "lock"} /\ by'[c] = 0
        /\ \A d \in Caller \ {c} : pc'[d] = pc[d] /\ by'[d] = by[d]
    BY <1>0, <1>7 DEF Leave, Goto, TypeOK
  <2>2. OwnNumber(c)'
    BY <2>1 DEF OwnNumber, Holding
  <2>3. QED
    BY ZenonT(20), <1>b, <1>7, <2>1, <2>2
<1>8. ASSUME NEW c \in Caller, TimedOut(c) \/ Clear(c) \/ SendEvent(c) \/ EventTimeout(c)
      PROVE  \A d \in Caller : OwnNumber(d)'
  <2>1. pc[c] \in Holding /\ \E ok : Leave(c, ok)
    BY ZenonT(20), <1>8 DEF TimedOut, Clear, SendEvent, EventTimeout, Holding
  <2>2. QED
    BY <1>7, <2>1
<1>9. ASSUME NEW c \in Caller, Delete(c) PROVE \A d \in Caller : OwnNumber(d)'
  <2>1. /\ pc[c] \in {"finish", "expired"} /\ op[c] = "probe" /\ pc[c] \in Holding
        /\ UNCHANGED <<op, resp, cmds, my, by>>
    BY <1>9 DEF Delete, client, history, Holding
  <2>2. pc'[c] = "deleted" /\ \A d \in Caller \ {c} : pc'[d] = pc[d]
    BY <1>0, <1>9 DEF Delete, Goto, TypeOK
  <2>3. my[c] = cmds /\ cmds > 0 /\ (pc[c] = "expired" => by[c] = 0)
    BY <1>0, <2>1 DEF OwnNumber, Holding
  <2>4. by[c] = my[c] => resp = NoCaller
    <3>1. pc[c] = "finish" /\ by[c] = my[c] => resp = NoCaller
      BY <1>0, <2>1 DEF OwnNumber
    <3>2. pc[c] = "expired" => by[c] # my[c]
      BY <2>3
    <3>3. QED
      BY <2>1, <3>1, <3>2
  <2>5. OwnNumber(c)'
    BY <2>1, <2>2, <2>3, <2>4 DEF OwnNumber
  <2>6. QED
    BY <1>b, <2>1, <2>2, <2>5
<1>10. ASSUME NEW c \in Caller, Finish(c) PROVE \A d \in Caller : OwnNumber(d)'
  <2>1. pc[c] = "finish" /\ pc[c] \in Holding /\ op[c] # "probe"
    BY <1>10 DEF Finish, Holding
  <2>2. CASE Goto(c, "data") /\ UNCHANGED <<op, lock, my, by>>
    <3>1. pc'[c] = "data" /\ cmds' = cmds /\ \A d \in Caller \ {c} : pc'[d] = pc[d]
      BY <1>0, <1>10, <2>2 DEF Finish, Goto, TypeOK
    <3>2. OwnNumber(c)'
      BY <1>0, <2>1, <2>2, <3>1 DEF OwnNumber, Holding
    <3>3. QED
      BY <1>b, <2>1, <2>2, <3>1, <3>2
  <2>3. QED
    BY <1>7, <1>10, <2>1, <2>2 DEF Finish
<1>11. ASSUME NEW c \in Caller, Data(c) \/ SocketEvent(c) PROVE \A d \in Caller : OwnNumber(d)'
  <2>1. pc[c] \in {"data", "socket_event"} /\ pc[c] \in Holding /\ UNCHANGED <<cmds, my, by>>
    BY <1>11 DEF Data, SocketEvent, history, Holding
  <2>2. pc'[c] \in {"socket_event", "send_event"} /\ \A d \in Caller \ {c} : pc'[d] = pc[d]
    BY <1>0, <1>11 DEF Data, SocketEvent, Goto, TypeOK
  <2>3. OwnNumber(c)'
    BY <1>0, <2>1, <2>2 DEF OwnNumber, Holding
  <2>4. QED
    BY <1>b, <2>1, <2>2, <2>3
<1>12. CASE client_parser
  <2>1. UNCHANGED <<op, pc, cmds, my, by>>
    BY ZenonT(20), <1>12, ParserSteps
  <2>2. CASE UNCHANGED client
    BY <1>0, <2>1, <2>2 DEF client, OwnNumber
  <2>3. ASSUME NEW fits \in BOOLEAN, Response(Head(uart), fits)
        PROVE  \A d \in Caller : OwnNumber(d)'
    <3>1. resp' = NoCaller \/ (resp' = resp /\ resp_notice' = resp_notice)
      BY <2>3, ResponseSteps
    <3>2. QED
      BY <1>0, <2>1, <3>1 DEF OwnNumber
  <2>4. QED
    BY <1>12, <2>2, <2>3, ParserSteps DEF Urc
<1>13. CASE ModemNext \/ UNCHANGED vars
  <2>1. UNCHANGED <<op, pc, client, cmds, my, by>>
    BY <1>13, ModemSteps DEF vars, history
  <2>2. QED
    BY <1>0, <2>1 DEF client, OwnNumber
<1>14. QED
  BY <1>1, <1>2, <1>3, <1>4, <1>5, <1>6, <1>8, <1>9, <1>10, <1>11, <1>12, <1>13 DEF Next, Step

\* The numbers, in every reachable state.
LEMMA NumberedInductive == Spec => []Numbered
<1>1. Init => Numbered
  BY SMTT(30) DEF Init, Numbered, Bounded, OwnNumber, Modem, Holding
<1>2. IInv /\ Numbered /\ [Next]_vars => Numbered'
  BY NumberedStep
<1>3. QED
  BY <1>1, <1>2, Invariance, PTL DEF Spec

\* For any number of callers and any lines: at_client_obj_wait_connect deletes its
\* response object before it clears client->resp, but no line is written into the
\* deleted object if the probe ended with the answer to its own last "AT".
THEOREM DeletedIsSafe == Spec => DeletedIsLeftAlone
<1>1. IInv /\ Numbered /\ [Next]_vars =>
        [\A c \in Caller : pc[c] = "deleted" /\ by[c] = my[c] => corrupted' = corrupted]_vars
  <2> SUFFICES ASSUME IInv, Numbered, Next, NEW c \in Caller, pc[c] = "deleted", by[c] = my[c]
               PROVE  corrupted' = corrupted
    OBVIOUS
  <2>1. resp = NoCaller
    BY ZenonT(20) DEF Numbered, OwnNumber
  <2>2. CASE client_parser
    BY <2>1, <2>2 DEF client_parser, DeletedIsWritten, IInv, TypeOK
  <2>3. CASE ModemNext
    BY <2>3, ModemSteps
  <2>4. ASSUME NEW d \in Caller, Begin(d) \/ Lock(d) \/ Step(d) PROVE corrupted' = corrupted
    <3>1. CASE Begin(d) \/ Lock(d) \/ Set(d) \/ Write(d) \/ Take(d) \/ Expire(d) \/ Again(d)
      BY <3>1 DEF Begin, Lock, Set, Write, Take, Expire, Again
    <3>2. CASE TimedOut(d) \/ Delete(d) \/ Clear(d) \/ Finish(d)
      BY ZenonT(20), <3>2 DEF TimedOut, Delete, Clear, Finish
    <3>3. CASE Data(d) \/ SocketEvent(d) \/ SendEvent(d) \/ EventTimeout(d)
      BY ZenonT(20), <3>3 DEF Data, SocketEvent, SendEvent, EventTimeout
    <3>4. QED
      BY ZenonT(20), <2>4, <3>1, <3>2, <3>3 DEF Step
  <2>5. QED
    BY <2>2, <2>3, <2>4 DEF Next
<1>2. QED
  BY <1>1, Invariance, NumberedInductive, PTL DEF Spec, DeletedIsLeftAlone

-----------------------------------------------------------------------------
(* The client in step with the modem.                                      *)

\* No wait has expired, no reset was sent, the modem forgot nothing and sent no
\* empty line.
Calm == abandoned = 0 /\ glitches = 0

\* Nothing is under way.
Rest == modem.state = "ready" /\ uart = <<>> /\ resp_notice = <<>> /\ socket_event = {}

\* client->resp stays with a command until its answer releases the semaphore.
ArmedFor(c) ==
    pc[c] \in {"write", "take", "expired"} /\ op[c] # "reset" /\ resp_notice = <<>> => resp = c

Armed == \A c \in Caller : ArmedFor(c)

Said(k) == Line(k, cmds)

\* The answer to a command other than AT+CIPSEND on its way.
AskedInfo ==
    \/ modem.state = "busy" /\ uart = <<>>
    \/ modem.state = "answering" /\ uart \in {<<>>, <<Said("info")>>}
    \/ /\ modem.state = "ready"
       /\ \E k \in {"OK", "ERROR"} : uart \in {<<Said(k)>>, <<Said("info"), Said(k)>>}

\* The answer to AT+CIPSEND on its way, before and after its first line.
AskedSend ==
    \/ /\ line_counts = 0
       /\ \/ modem.state = "busy" /\ uart = <<>>
          \/ modem.state = "ready" /\ uart = <<Said("ERROR")>>
          \/ modem.state = "prompting" /\ uart = <<Said("OK")>>
          \/ modem.state = "data" /\ uart = <<Said("OK"), Said(">")>>
    \/ /\ line_counts = 1
       /\ \/ modem.state = "prompting" /\ uart = <<>>
          \/ modem.state = "data" /\ uart = <<Said(">")>>

\* The answer was read; a send may now go on with its data.
Answered(o) ==
    /\ uart = <<>>
    /\ modem.state = IF o = "send" /\ resp_status = "OK" THEN "data" ELSE "ready"

\* The caller at each point after its command, and the modem with it.  A reset
\* has no answer.
InStep(c) ==
    /\ pc[c] = "finish" => by[c] = cmds
    /\ pc[c] \in {"take", "finish"} /\ op[c] # "reset" =>
          socket_event = {} /\ modem.of = cmds /\ modem.op = op[c]
    /\ pc[c] = "take" =>
          /\ op[c] # "reset"
          /\ \/ /\ resp = c /\ resp_notice = <<>>
                /\ IF op[c] = "send" THEN AskedSend ELSE AskedInfo
             \/ resp = NoCaller /\ resp_notice = <<cmds>> /\ Answered(op[c])
    /\ pc[c] = "finish" /\ op[c] # "reset" => resp_notice = <<>> /\ Answered(op[c])
    /\ pc[c] \in {"data", "socket_event", "send_event"} => modem.of = cmds /\ resp_notice = <<>>
    /\ pc[c] = "data" => modem.state = "data" /\ uart = <<>> /\ socket_event = {}
    /\ pc[c] = "socket_event" =>
          \/ modem.state = "sending" /\ uart = <<>> /\ socket_event = {}
          \/ /\ modem.state = "ready" /\ socket_event = {}
             /\ \E k \in Results : uart = <<Said(k)>>
          \/ /\ modem.state = "ready" /\ uart = <<>> /\ sent_of = cmds
             /\ \E k \in Results : socket_event = {"socket", k}
    /\ pc[c] = "send_event" => /\ modem.state = "ready" /\ uart = <<>> /\ sent_of = cmds
                              /\ \E k \in Results : socket_event = {k}

\* A command written in silence stays in step with the modem, whatever went
\* wrong before it.
LockStep == quiet => \A c \in Caller : InStep(c)

\* As long as nothing goes wrong there is silence before every command.
Silent ==
    /\ quiet /\ (lock = NoCaller => Rest)
    /\ \A c \in Caller : /\ pc[c] \in {"set", "write"} => Rest
                         /\ pc[c] = "write" /\ op[c] # "reset" => line_counts = 0

StaysSilent == Calm => Silent

\* A sequence of one element with another one after it.
LEMMA OneMore ==
    ASSUME NEW S, NEW q \in Seq(S), NEW e \in S, Len(q) = 1
    PROVE  /\ Append(q, e) \in Seq(S) /\ Len(Append(q, e)) = 2
           /\ Append(q, e)[1] = q[1] /\ Append(q, e)[2] = e
<1>1. Append(q, e) \in Seq(S)
  OBVIOUS
<1>2. /\ Len(Append(q, e)) = Len(q) + 1
      /\ \A i \in 1..Len(Append(q, e)) :
            IF i = Len(q) + 1 THEN Append(q, e)[i] = e
            ELSE i \in 1..Len(q) /\ Append(q, e)[i] = q[i]
  BY AppendFacts
<1>3. Len(Append(q, e)) = 2
  BY <1>2
<1>4. QED
  BY <1>1, <1>2, <1>3

\* A sequence of two elements.
LEMMA TwoElements ==
    ASSUME NEW S, NEW a \in S, NEW b \in S, NEW r \in Seq(S), Len(r) = 2, r[1] = a, r[2] = b
    PROVE  r = <<a, b>>
  OBVIOUS

\* Short sequences of lines.
LEMMA ShortSeqs ==
    ASSUME NEW a, NEW b
    PROVE  /\ Append(<<>>, a) = <<a>> /\ Append(<<a>>, b) = <<a, b>>
           /\ Head(<<a>>) = a /\ Tail(<<a>>) = <<>>
           /\ Head(<<a, b>>) = a /\ Tail(<<a, b>>) = <<b>>
           /\ <<a>> # <<>> /\ <<a, b>> # <<>>
<1>0. <<a>> # <<>> /\ <<a, b>> # <<>>
  <2>1. Len(<<a>>) = 1 /\ Len(<<a, b>>) = 2 /\ Len(<<>>) = 0
    OBVIOUS
  <2>2. QED
    BY <2>1
<1>1. Append(<<>>, a) = <<a>>
  OBVIOUS
<1>2. Append(<<a>>, b) = <<a, b>>
  <2> DEFINE q == <<a>>
             S == {a, b}
  <2>1. q \in Seq(S) /\ Len(q) = 1 /\ q[1] = a /\ a \in S /\ b \in S
    OBVIOUS
  <2> HIDE DEF q, S
  <2>2. /\ Append(q, b) \in Seq(S) /\ Len(Append(q, b)) = 2
        /\ Append(q, b)[1] = a /\ Append(q, b)[2] = b
    BY <2>1, OneMore
  <2>3. Append(q, b) = <<a, b>>
    BY ZenonT(20), <2>1, <2>2, TwoElements
  <2>4. QED
    BY <2>3 DEF q
<1>3. Head(<<a>>) = a /\ Head(<<a, b>>) = a
  OBVIOUS
<1>4. Tail(<<a>>) = <<>>
  OBVIOUS
<1>5. Tail(<<a, b>>) = <<b>>
  OBVIOUS
<1>6. QED
  BY <1>0, <1>1, <1>2, <1>3, <1>4, <1>5

\* A caller outside its command is in step with anything.
LEMMA BystanderInStep ==
    ASSUME NEW d \in Caller, pc'[d] \notin Holding
    PROVE  InStep(d)'
  BY DEF InStep, Holding

\* The end of an answer, for each kind of command.
LEMMA EndsFacts ==
    ASSUME NEW o, NEW l, NEW n \in Nat
    PROVE  /\ o # "send" => (Ends(o, l, n) <=> l.kind \in {"OK", "ERROR"})
           /\ o = "send" => (Ends(o, l, n) <=> l.kind = "ERROR" \/ n = 2)
  BY DEF Ends, line_num

\* Without a glitch the modem neither forgets nor sends an empty line.
LEMMA Faultless ==
    ASSUME TypeOK, [Next]_vars, glitches' = 0
    PROVE  glitches = 0 /\ ~ModemForgets /\ ~ModemStray
<1>1. glitches \in Nat /\ glitches + 1 # 0
  BY DEF TypeOK
<1>2. ~ModemForgets /\ ~ModemStray
  BY <1>1 DEF ModemForgets, ModemStray
<1>3. ASSUME NEW c \in Caller, Begin(c) \/ Lock(c) \/ Step(c) PROVE glitches' = glitches
  <2>1. CASE Begin(c) \/ Lock(c) \/ Set(c) \/ Write(c) \/ Take(c) \/ Expire(c) \/ Again(c)
    BY <2>1 DEF Begin, Lock, Set, Write, Take, Expire, Again
  <2>2. CASE TimedOut(c) \/ Delete(c) \/ Clear(c) \/ Finish(c)
    BY ZenonT(20), <2>2 DEF TimedOut, Delete, Clear, Finish
  <2>3. CASE Data(c) \/ SocketEvent(c) \/ SendEvent(c) \/ EventTimeout(c)
    BY ZenonT(20), <2>3 DEF Data, SocketEvent, SendEvent, EventTimeout
  <2>4. QED
    BY <1>3, <2>1, <2>2, <2>3 DEF Step
<1>4. CASE client_parser
  BY <1>2, <1>4 DEF client_parser
<1>5. CASE ModemNext
  BY <1>2, <1>5 DEF ModemNext, ModemInfo, ModemEnds, ModemPrompts, ModemSent, ModemSays
<1>6. CASE UNCHANGED vars
  BY <1>2, <1>6 DEF vars
<1>7. QED
  BY <1>2, <1>3, <1>4, <1>5, <1>6 DEF Next

\* What the parser makes of the next line of an answer that is waited for.
LEMMA AnswerRead ==
    ASSUME TypeOK, NEW c \in Caller, pc[c] = "take", resp = c, resp_notice = <<>>,
           IF op[c] = "send" THEN AskedSend ELSE AskedInfo, client_parser
    PROVE  /\ socket_event' = socket_event
           /\ \/ /\ resp' = c /\ resp_notice' = <<>>
                 /\ IF op[c] = "send" THEN AskedSend' ELSE AskedInfo'
              \/ resp' = NoCaller /\ resp_notice' = <<cmds>> /\ Answered(op[c])'
<1> DEFINE l == Head(uart)
<1>0. \A k : Said(k).kind = k /\ Said(k).of = cmds
  BY DEF Said, Line
<1>1. /\ uart # <<>> /\ uart' = Tail(uart) /\ UNCHANGED <<op, pc, modem, cmds>>
      /\ c # NoCaller /\ line_counts \in Nat
  BY ParserSteps, CallerAssumption DEF TypeOK
<1>2. PICK w \in {"info", "OK", "ERROR", ">"} : l = Said(w)
  <2>1. ASSUME NEW k, NEW j, uart = <<Said(k)>> \/ uart = <<Said(k), Said(j)>> PROVE l = Said(k)
    BY <2>1, ShortSeqs
  <2> HIDE DEF l
  <2>2. CASE AskedSend
    <3>1. \/ uart = <<Said("ERROR")>> \/ uart = <<Said("OK")>> \/ uart = <<Said(">")>>
          \/ uart = <<Said("OK"), Said(">")>>
      BY ZenonT(20), <1>1, <2>2 DEF AskedSend
    <3>2. QED
      BY <2>1, <3>1
  <2>3. CASE AskedInfo
    <3>1. \E k \in {"info", "OK", "ERROR"} :
             uart = <<Said(k)>> \/ \E j \in {"OK", "ERROR"} : uart = <<Said(k), Said(j)>>
      BY <1>1, <2>3 DEF AskedInfo
    <3>2. QED
      BY <2>1, <3>1
  <2>4. QED
    BY <2>2, <2>3
<1>3. l.kind = w /\ l.of = cmds /\ l.kind \notin Results
  <2>1. l.kind = w /\ l.of = cmds
    BY <1>0, <1>2
  <2>2. w \notin Results
    BY DEF Results
  <2>3. QED
    BY <2>1, <2>2
<1>4. /\ socket_event' = socket_event
      /\ \E fits \in BOOLEAN : (l.kind # "info" => fits) /\ Response(l, fits)
  BY <1>1, <1>3, ParserSteps
<1>h. l = Head(uart)
  OBVIOUS
<1> HIDE DEF l
<1>5. PICK fits \in BOOLEAN, ends \in BOOLEAN, n \in Nat :
         /\ l.kind # "info" => fits
         /\ n = IF fits THEN line_counts + 1 ELSE line_counts
         /\ ends = Ends(op[c], l, n) /\ line_counts' = n
         /\ resp_status' = Status(l, ends, fits)
         /\ resp' = IF ends THEN NoCaller ELSE c
         /\ resp_notice' = IF ends THEN Append(<<>>, l.of) ELSE <<>>
  <2>1. PICK fits \in BOOLEAN : (l.kind # "info" => fits) /\ Response(l, fits)
    BY <1>4
  <2>2. (IF fits THEN line_counts + 1 ELSE line_counts) \in Nat
    BY <1>1
  <2>3. pc[resp] # "deleted" /\ op[resp] = op[c]
    OBVIOUS
  <2>4. QED
    BY <2>1, <2>2, <2>3, ResponseSteps
<1>6. /\ op[c] # "send" => (ends <=> l.kind \in {"OK", "ERROR"})
      /\ op[c] = "send" => (ends <=> l.kind = "ERROR" \/ n = 2)
  BY <1>5, EndsFacts
<1>7. Append(<<>>, l.of) = <<cmds>>
  BY <1>3, ShortSeqs
<1>8. CASE op[c] # "send"
  <2>1. ends <=> l.kind \in {"OK", "ERROR"}
    BY <1>6, <1>8
  <2>2. CASE l.kind = "info"
    <3>1. ~ends
      BY <2>1, <2>2
    <3>2. AskedInfo'
      <4>1. CASE modem.state = "answering" /\ uart = <<Said("info")>>
        <5>1. uart' = <<>>
          BY <1>1, <4>1, ShortSeqs
        <5>2. QED
          BY <1>1, <4>1, <5>1 DEF AskedInfo
      <4>2. ASSUME NEW k \in {"OK", "ERROR"}, modem.state = "ready",
                   uart = <<Said("info"), Said(k)>>
            PROVE  AskedInfo'
        <5>1. uart' = <<Said(k)>>
          BY <1>1, <4>2, ShortSeqs
        <5>2. QED
          BY <1>1, <4>2, <5>1 DEF AskedInfo, Said
      <4>3. \A k \in {"OK", "ERROR"} : uart # <<Said(k)>>
        BY <2>2, <1>0, <1>h, ShortSeqs
      <4>4. QED
        BY <1>1, <1>8, <4>1, <4>2, <4>3 DEF AskedInfo
    <3>3. QED
      BY <1>1, <1>4, <1>5, <1>8, <3>1, <3>2
  <2>3. CASE l.kind # "info"
    <3>1. AskedInfo /\ uart # <<>> /\ UNCHANGED modem
      BY <1>1, <1>8
    <3>2. PICK k \in {"OK", "ERROR"} : modem.state = "ready" /\ uart = <<Said(k)>>
      <4>1. uart # <<Said("info")>> /\ \A k \in {"OK", "ERROR"} : uart # <<Said("info"), Said(k)>>
        BY <1>0, <1>h, <2>3, ShortSeqs
      <4>2. QED
        BY <3>1, <4>1 DEF AskedInfo
    <3>3. uart' = <<>> /\ l.kind \in {"OK", "ERROR"}
      BY <1>0, <1>1, <1>h, <3>2, ShortSeqs
    <3>4. Answered(op[c])'
      BY <1>1, <1>8, <3>2, <3>3 DEF Answered
    <3>5. QED
      BY <1>4, <1>5, <1>7, <2>1, <3>3, <3>4
  <2>4. QED
    BY <2>2, <2>3
<1>9. CASE op[c] = "send"
  <2>0. AskedSend
    BY <1>9
  <2>1. CASE modem.state = "ready" /\ uart = <<Said("ERROR")>>
    <3>1. uart' = <<>> /\ l.kind = "ERROR"
      BY <1>0, <1>1, <1>h, <2>1, ShortSeqs
    <3>2. ends /\ resp_status' = "ERROR"
      BY <1>5, <1>6, <1>9, <3>1 DEF Status
    <3>3. Answered(op[c])'
      BY <1>1, <2>1, <3>1, <3>2 DEF Answered
    <3>4. QED
      BY <1>4, <1>5, <1>7, <3>2, <3>3
  <2>2. CASE line_counts = 0 /\ modem.state = "prompting" /\ uart = <<Said("OK")>>
    <3>1. l.kind = "OK" /\ uart' = <<>>
      BY <1>0, <1>1, <1>h, <2>2, ShortSeqs
    <3>2. n = 1 /\ line_counts' = 1
      BY <1>5, <2>2, <3>1
    <3>3. ~ends
      BY <1>6, <1>9, <3>1, <3>2
    <3>4. AskedSend'
      BY <1>1, <2>2, <3>1, <3>2 DEF AskedSend
    <3>5. QED
      BY <1>4, <1>5, <1>9, <3>3, <3>4
  <2>3. CASE line_counts = 0 /\ modem.state = "data" /\ uart = <<Said("OK"), Said(">")>>
    <3>1. l.kind = "OK" /\ uart' = <<Said(">")>>
      BY <1>0, <1>1, <1>h, <2>3, ShortSeqs
    <3>2. n = 1 /\ line_counts' = 1
      BY <1>5, <2>3, <3>1
    <3>3. ~ends
      BY <1>6, <1>9, <3>1, <3>2
    <3>4. AskedSend'
      BY ZenonT(20), <1>1, <2>3, <3>1, <3>2 DEF AskedSend, Said
    <3>5. QED
      BY <1>4, <1>5, <1>9, <3>3, <3>4
  <2>4. CASE line_counts = 1 /\ modem.state = "data" /\ uart = <<Said(">")>>
    <3>1. l.kind = ">" /\ uart' = <<>>
      BY <1>0, <1>1, <1>h, <2>4, ShortSeqs
    <3>2. n = 2
      BY <1>5, <2>4, <3>1
    <3>3. ends
      BY <1>6, <1>9, <3>2
    <3>4. resp_status' = "OK"
      BY <1>5, <3>1, <3>3 DEF Status
    <3>5. Answered(op[c])'
      BY <1>1, <1>9, <2>4, <3>1, <3>4 DEF Answered
    <3>6. QED
      BY <1>4, <1>5, <1>7, <3>3, <3>5
  <2>5. QED
    BY ZenonT(20), <1>1, <2>0, <2>1, <2>2, <2>3, <2>4 DEF AskedSend
<1>10. QED
  BY ZenonT(20), <1>8, <1>9

\* What the modem says next, while its answer is waited for.
LEMMA AnswerSaid ==
    ASSUME TypeOK, NEW c \in Caller, pc[c] = "take", resp = c, resp_notice = <<>>,
           modem.of = cmds, modem.op = op[c],
           IF op[c] = "send" THEN AskedSend ELSE AskedInfo,
           ModemInfo \/ ModemEnds \/ ModemPrompts \/ ModemSent
    PROVE  /\ modem'.of = cmds /\ modem'.op = op[c]
           /\ IF op[c] = "send" THEN AskedSend' ELSE AskedInfo'
<1>1. PICK k \in {"info", "OK", "ERROR", ">"} \cup Results,
           s \in {"answering", "prompting", "ready", "data"} :
         /\ ModemSays(k, s)
         /\ \/ modem.state = "busy" /\ modem.op # "send" /\ k = "info" /\ s = "answering"
            \/ /\ modem.state \in {"busy", "answering"} /\ k = "OK"
               /\ s = IF modem.op = "send" THEN "prompting" ELSE "ready"
            \/ modem.state \in {"busy", "answering"} /\ k = "ERROR" /\ s = "ready"
            \/ modem.state = "prompting" /\ k = ">" /\ s = "data"
            \/ modem.state = "sending" /\ k \in Results /\ s = "ready"
  BY ZenonT(20) DEF ModemInfo, ModemEnds, ModemPrompts, ModemSent
<1>2. /\ modem'.of = cmds /\ modem'.op = op[c] /\ modem'.state = s
      /\ uart' = Append(uart, Said(k)) /\ UNCHANGED <<op, pc, line_counts, cmds>>
  BY <1>1 DEF ModemSays, TypeOK, Said, client
<1>3. CASE op[c] # "send"
  <2>1. CASE uart = <<>>
    <3>1. uart' = <<Said(k)>>
      BY <1>2, <2>1, ShortSeqs
    <3>2. QED
      BY ZenonT(20), <1>1, <1>2, <1>3, <2>1, <3>1, ShortSeqs DEF AskedInfo, Said
  <2>2. CASE uart # <<>>
    <3>1. modem.state = "answering" /\ uart = <<Said("info")>> /\ k \in {"OK", "ERROR"} /\ s = "ready"
      BY <1>1, <1>3, <2>2 DEF AskedInfo
    <3>2. uart' = <<Said("info"), Said(k)>>
      BY ZenonT(20), <1>2, <3>1, ShortSeqs
    <3>3. AskedInfo'
      BY ZenonT(20), <1>2, <3>1, <3>2 DEF AskedInfo, Said
    <3>4. QED
      BY <1>2, <1>3, <3>3
  <2>3. QED
    BY <2>1, <2>2
<1>4. CASE op[c] = "send"
  <2>1. CASE uart = <<>>
    <3>1. uart' = <<Said(k)>>
      BY <1>2, <2>1, ShortSeqs
    <3>2. \/ line_counts = 0 /\ k = "OK" /\ s = "prompting"
          \/ line_counts = 0 /\ k = "ERROR" /\ s = "ready"
          \/ line_counts = 1 /\ k = ">" /\ s = "data"
      BY <1>1, <1>4, <2>1, ShortSeqs DEF AskedSend
    <3>3. AskedSend'
      BY <1>2, <3>1, <3>2 DEF AskedSend, Said
    <3>4. QED
      BY ZenonT(20), <1>2, <1>4, <3>3
  <2>2. CASE uart # <<>>
    <3>1. line_counts = 0 /\ uart = <<Said("OK")>> /\ k = ">" /\ s = "data"
      BY <1>1, <1>4, <2>2 DEF AskedSend
    <3>2. uart' = <<Said("OK"), Said(">")>>
      BY ZenonT(20), <1>2, <3>1, ShortSeqs
    <3>3. AskedSend'
      BY ZenonT(20), <1>2, <3>1, <3>2 DEF AskedSend, Said
    <3>4. QED
      BY <1>2, <1>4, <3>3
  <2>3. QED
    BY <2>1, <2>2
<1>5. QED
  BY <1>3, <1>4

\* A sequence with an element after it.
LEMMA NotEmpty ==
    ASSUME NEW S, NEW q \in Seq(S), NEW e \in S
    PROVE  Append(q, e) # <<>>
<1> DEFINE r == Append(q, e)
<1>1. Len(r) = Len(q) + 1 /\ Len(q) \in Nat
  BY AppendFacts
<1> HIDE DEF r
<1>2. r # <<>>
  <2>1. Len(<<>>) = 0
    OBVIOUS
  <2>2. QED
    BY <1>1, <2>1
<1>3. QED
  BY <1>2 DEF r

\* Only a command, or a failure of the modem, changes what is known of silence.
LEMMA QuietKept ==
    ASSUME [Next]_vars
    PROVE  \/ quiet' = quiet
           \/ \E c \in Caller : Write(c)
           \/ ModemForgets /\ ~quiet'
           \/ ModemStray /\ ~quiet'
<1>1. ASSUME NEW c \in Caller, Begin(c) \/ Lock(c) \/ Step(c), ~Write(c) PROVE quiet' = quiet
  <2>1. CASE Begin(c) \/ Lock(c) \/ Set(c) \/ Take(c) \/ Expire(c) \/ Again(c)
    BY <2>1 DEF Begin, Lock, Set, Take, Expire, Again, history
  <2>2. CASE TimedOut(c) \/ Delete(c) \/ Clear(c) \/ Finish(c)
    BY ZenonT(20), <2>2 DEF TimedOut, Delete, Clear, Finish, history
  <2>3. CASE Data(c) \/ SocketEvent(c) \/ SendEvent(c) \/ EventTimeout(c)
    BY ZenonT(20), <2>3 DEF Data, SocketEvent, SendEvent, EventTimeout, history
  <2>4. QED
    BY <1>1, <2>1, <2>2, <2>3 DEF Step
<1>2. CASE client_parser
  BY <1>2 DEF client_parser
<1>3. CASE ModemInfo \/ ModemEnds \/ ModemPrompts \/ ModemSent
  BY <1>3 DEF ModemInfo, ModemEnds, ModemPrompts, ModemSent, ModemSays, history
<1>4. ModemForgets \/ ModemStray => ~quiet'
  BY DEF ModemForgets, ModemStray
<1>5. CASE UNCHANGED vars
  BY <1>5 DEF vars, history
<1>6. QED
  BY <1>1, <1>2, <1>3, <1>4, <1>5 DEF Next, ModemNext

\* Every step keeps client->resp with the command that waits.
LEMMA ArmedStep ==
    ASSUME TypeOK, Excluded, Armed, [Next]_vars
    PROVE  Armed'
<1>0. \A d \in Caller : ArmedFor(d)
  BY DEF Armed
<1>a. ASSUME NEW c \in Caller, pc[c] \in Holding \/ lock = NoCaller,
             \A d \in Caller \ {c} : pc'[d] = pc[d], ArmedFor(c)'
      PROVE  Armed'
  <2>1. \A d \in Caller \ {c} : pc[d] \notin Holding
    BY <1>a, HolderAlone, CallerAssumption DEF Excluded
  <2>2. \A d \in Caller \ {c} : ArmedFor(d)'
    BY <1>a, <2>1 DEF ArmedFor, Holding
  <2>3. QED
    BY <1>a, <2>2 DEF Armed
<1>b. ASSUME NEW c \in Caller, NEW ok, pc[c] \in Holding, Leave(c, ok) PROVE Armed'
  <2>1. pc'[c] \in {"idle", "lock"} /\ \A d \in Caller \ {c} : pc'[d] = pc[d]
    BY <1>b DEF Leave, Goto, TypeOK
  <2>2. ArmedFor(c)'
    BY <2>1 DEF ArmedFor
  <2>3. QED
    BY <1>a, <1>b, <2>1, <2>2
<1>1. ASSUME NEW c \in Caller, Begin(c) PROVE Armed'
  <2>1. /\ UNCHANGED <<resp, resp_notice>>
        /\ pc'[c] = "lock" /\ \A d \in Caller \ {c} : pc'[d] = pc[d] /\ op'[d] = op[d]
    BY <1>1 DEF Begin, client, Goto, TypeOK
  <2>2. QED
    BY <1>0, <2>1 DEF Armed, ArmedFor
<1>2. ASSUME NEW c \in Caller, Lock(c) PROVE Armed'
  <2>1. lock = NoCaller /\ pc'[c] = "set" /\ \A d \in Caller \ {c} : pc'[d] = pc[d]
    BY <1>2 DEF Lock, Goto, TypeOK
  <2>2. ArmedFor(c)'
    BY <2>1 DEF ArmedFor
  <2>3. QED
    BY <1>a, <2>1, <2>2
<1>3. ASSUME NEW c \in Caller, Set(c) PROVE Armed'
  <2>1. /\ pc[c] \in Holding /\ \A d \in Caller \ {c} : pc'[d] = pc[d]
        /\ op' = op /\ (op[c] # "reset" => resp' = c)
    BY <1>3 DEF Set, Goto, TypeOK, Holding
  <2>2. ArmedFor(c)'
    BY <2>1 DEF ArmedFor
  <2>3. QED
    BY <1>a, <2>1, <2>2
<1>4. ASSUME NEW c \in Caller, Write(c) \/ Expire(c) \/ Again(c) PROVE Armed'
  <2>1. /\ pc[c] \in {"write", "take", "expired"} /\ pc[c] \in Holding
        /\ \A d \in Caller \ {c} : pc'[d] = pc[d]
        /\ UNCHANGED <<op, resp, resp_notice>>
    BY <1>4 DEF Write, Expire, Again, Goto, TypeOK, Holding, client
  <2>2. ArmedFor(c)'
    BY <1>0, <2>1 DEF ArmedFor
  <2>3. QED
    BY ZenonT(20), <1>a, <2>1, <2>2
<1>5. ASSUME NEW c \in Caller,
             Take(c) \/ Delete(c) \/ Data(c) \/ SocketEvent(c) \/ (Finish(c) /\ pc'[c] = "data")
      PROVE  Armed'
  <2>1. /\ pc[c] \in Holding /\ pc'[c] \notin {"write", "take", "expired"}
        /\ \A d \in Caller \ {c} : pc'[d] = pc[d]
    BY <1>5 DEF Take, Delete, Data, SocketEvent, Finish, Leave, Goto, TypeOK, Holding
  <2>2. ArmedFor(c)'
    BY <2>1 DEF ArmedFor
  <2>3. QED
    BY <1>a, <2>1, <2>2
<1>6. ASSUME NEW c \in Caller,
             TimedOut(c) \/ Clear(c) \/ SendEvent(c) \/ EventTimeout(c) \/ (Finish(c) /\ pc'[c] # "data")
      PROVE  Armed'
  <2>1. pc[c] \in Holding
    BY ZenonT(20), <1>6 DEF TimedOut, Clear, SendEvent, EventTimeout, Finish, Holding
  <2>2. \E ok : Leave(c, ok)
    BY ZenonT(20), <1>6 DEF TimedOut, Clear, SendEvent, EventTimeout, Finish, Goto, TypeOK
  <2>3. QED
    BY <1>b, <2>1, <2>2
<1>7. CASE client_parser
  <2>1. UNCHANGED <<op, pc>>
    BY ZenonT(20), <1>7, ParserSteps
  <2>2. UNCHANGED <<resp, resp_notice>> \/ resp_notice' # <<>> \/ (resp' = resp /\ resp_notice' = resp_notice)
    <3>1. CASE Urc(Head(uart)) \/ UNCHANGED <<client, socket_event, sent_of>>
      BY <3>1 DEF Urc, client
    <3>2. ASSUME NEW fits \in BOOLEAN, Response(Head(uart), fits)
          PROVE  resp_notice' # <<>> \/ (resp' = resp /\ resp_notice' = resp_notice)
      <4>1. Head(uart).of \in Nat
        BY <1>7, ParserSteps, FirstLine DEF Lines
      <4>2. PICK ends \in BOOLEAN :
               /\ resp' = IF ends THEN NoCaller ELSE resp
               /\ resp_notice' = IF ends THEN Append(resp_notice, Head(uart).of) ELSE resp_notice
        BY <3>2, ResponseSteps
      <4>3. Append(resp_notice, Head(uart).of) # <<>>
        BY ZenonT(20), <4>1, NotEmpty DEF TypeOK
      <4>4. QED
        BY <4>2, <4>3
    <3>3. QED
      BY <1>7, <3>1, <3>2, ParserSteps
  <2>3. QED
    BY <1>0, <2>1, <2>2 DEF Armed, ArmedFor
<1>8. CASE ModemNext
  BY <1>0, <1>8, ModemSteps DEF client, Armed, ArmedFor
<1>9. CASE UNCHANGED vars
  BY <1>0, <1>9 DEF vars, client, Armed, ArmedFor
<1>10. QED
  BY <1>1, <1>2, <1>3, <1>4, <1>5, <1>6, <1>7, <1>8, <1>9 DEF Next, Step

\* Every step keeps a command that was written in silence in step with the modem.
LEMMA LockStepStep ==
    ASSUME IInv, Armed, LockStep, [Next]_vars
    PROVE  LockStep'
<1> SUFFICES ASSUME quiet' PROVE \A d \in Caller : InStep(d)'
  BY DEF LockStep
<1>0. TypeOK /\ Excluded /\ (quiet => \A d \in Caller : InStep(d))
  BY DEF IInv, LockStep
<1>a. ASSUME NEW c \in Caller, pc[c] \in Holding \/ lock = NoCaller,
             \A d \in Caller \ {c} : pc'[d] = pc[d], InStep(c)'
      PROVE  \A d \in Caller : InStep(d)'
  <2>1. \A d \in Caller \ {c} : pc[d] \notin Holding
    BY ZenonT(20), <1>0, <1>a, HolderAlone, CallerAssumption DEF Excluded
  <2>2. QED
    BY <1>a, <2>1, BystanderInStep
<1>b. ASSUME NEW c \in Caller, pc[c] \in Holding \/ lock = NoCaller,
             \A d \in Caller \ {c} : pc'[d] = pc[d],
             pc'[c] \in {"idle", "lock", "set", "write", "expired", "deleted"}
      PROVE  \A d \in Caller : InStep(d)'
  <2>1. InStep(c)'
    BY <1>b DEF InStep
  <2>2. QED
    BY <1>a, <1>b, <2>1
<1>1. ASSUME NEW c \in Caller, Write(c) PROVE \A d \in Caller : InStep(d)'
  <2>1. pc[c] = "write" /\ pc[c] \in Holding /\ Silence
    BY ZenonT(20), <1>1 DEF Write, Holding
  <2>2. modem' = Modem("busy", cmds + 1, op[c]) /\ cmds' = cmds + 1
    BY <1>1, <2>1 DEF Write, Receive, Silence
  <2>3. /\ \A d \in Caller \ {c} : pc'[d] = pc[d]
        /\ UNCHANGED <<op, lock, resp, resp_notice, socket_event, uart>> /\ line_counts' = 0
    BY <1>0, <1>1, <2>1 DEF Write, Goto, TypeOK, Silence
  <2>4. modem'.state = "busy" /\ modem'.of = cmds' /\ modem'.op = op[c]
    BY <2>2 DEF Modem
  <2>5. uart' = <<>> /\ resp_notice' = <<>> /\ socket_event' = {}
    BY ZenonT(20), <2>1, <2>3 DEF Silence
  <2>6. CASE op[c] = "reset"
    <3>1. pc'[c] = "finish" /\ by'[c] = cmds'
      BY <1>0, <1>1, <2>2, <2>6 DEF Write, Goto, TypeOK
    <3>2. InStep(c)'
      BY <2>3, <2>6, <3>1 DEF InStep
    <3>3. QED
      BY <1>a, <2>1, <2>3, <3>2
  <2>7. CASE op[c] # "reset"
    <3>1. pc'[c] = "take"
      BY <1>0, <1>1, <2>7 DEF Write, Goto, TypeOK
    <3>2. resp' = c
      BY <2>1, <2>3, <2>7 DEF Armed, ArmedFor, Silence
    <3>3. AskedSend' /\ AskedInfo'
      BY <2>3, <2>4, <2>5 DEF AskedSend, AskedInfo
    <3>4. InStep(c)'
      BY <2>3, <2>4, <2>5, <2>7, <3>1, <3>2, <3>3 DEF InStep
    <3>5. QED
      BY <1>a, <2>1, <2>3, <3>4
  <2>8. QED
    BY <2>6, <2>7
<1> SUFFICES ASSUME \A c \in Caller : ~Write(c) PROVE \A d \in Caller : InStep(d)'
  BY <1>1
<1>c. /\ ~ModemForgets /\ ~ModemStray /\ \A d \in Caller : InStep(d)
  <2>1. ~ModemForgets /\ ~ModemStray
    BY DEF ModemForgets, ModemStray
  <2>2. quiet
    BY ZenonT(20), <2>1, QuietKept
  <2>3. QED
    BY <1>0, <2>1, <2>2
<1>2. ASSUME NEW c \in Caller, Begin(c) PROVE \A d \in Caller : InStep(d)'
  <2>1. /\ UNCHANGED <<lock, resp, resp_status, line_counts, resp_notice, socket_event,
                       modem, uart, cmds, by, sent_of>>
        /\ pc'[c] = "lock" /\ \A d \in Caller \ {c} : pc'[d] = pc[d] /\ op'[d] = op[d]
    BY <1>0, <1>2 DEF Begin, client, history, Goto, TypeOK
  <2>2. InStep(c)'
    BY ZenonT(20), <2>1 DEF InStep
  <2>3. ASSUME NEW d \in Caller \ {c} PROVE InStep(d)'
    <3>1. InStep(d) /\ pc'[d] = pc[d] /\ op'[d] = op[d]
      BY ZenonT(20), <1>c, <2>1
    <3>2. QED
      BY ZenonT(20), <2>1, <3>1 DEF InStep, AskedInfo, AskedSend, Answered, Said
  <2>4. QED
    BY <2>2, <2>3
<1>3. ASSUME NEW c \in Caller, Lock(c) \/ Set(c) \/ Expire(c) \/ Again(c) \/ Delete(c)
      PROVE  \A d \in Caller : InStep(d)'
  <2>1. /\ pc[c] \in Holding \/ lock = NoCaller
        /\ pc'[c] \in {"set", "write", "expired", "deleted"}
        /\ \A d \in Caller \ {c} : pc'[d] = pc[d]
    BY <1>0, <1>3 DEF Lock, Set, Expire, Again, Delete, Goto, TypeOK, Holding
  <2>2. QED
    BY <1>b, <2>1
<1>4. ASSUME NEW c \in Caller, NEW ok, pc[c] \in Holding, Leave(c, ok)
      PROVE  \A d \in Caller : InStep(d)'
  <2>1. pc'[c] \in {"idle", "lock"} /\ \A d \in Caller \ {c} : pc'[d] = pc[d]
    BY <1>0, <1>4 DEF Leave, Goto, TypeOK
  <2>2. QED
    BY ZenonT(20), <1>b, <1>4, <2>1
<1>5. ASSUME NEW c \in Caller, TimedOut(c) \/ Clear(c) \/ SendEvent(c) \/ EventTimeout(c)
      PROVE  \A d \in Caller : InStep(d)'
  <2>1. pc[c] \in Holding /\ \E ok : Leave(c, ok)
    BY ZenonT(20), <1>5 DEF TimedOut, Clear, SendEvent, EventTimeout, Holding
  <2>2. QED
    BY <1>4, <2>1
<1>6. ASSUME NEW c \in Caller, Take(c) PROVE \A d \in Caller : InStep(d)'
  <2>1. /\ pc[c] = "take" /\ pc[c] \in Holding /\ resp_notice # <<>>
        /\ UNCHANGED <<op, lock, resp, resp_status, socket_event, modem, uart, cmds>>
        /\ resp_notice' = Tail(resp_notice) /\ by' = [by EXCEPT ![c] = Head(resp_notice)]
    BY <1>6 DEF Take, Holding
  <2>2. pc'[c] = "finish" /\ \A d \in Caller \ {c} : pc'[d] = pc[d]
    BY <1>0, <1>6 DEF Take, Goto, TypeOK
  <2>3. /\ socket_event = {} /\ modem.of = cmds /\ modem.op = op[c] /\ op[c] # "reset"
        /\ resp_notice = <<cmds>> /\ Answered(op[c])
    BY <1>c, <2>1 DEF InStep
  <2>4. resp_notice' = <<>> /\ by'[c] = cmds
    BY <1>0, <2>1, <2>3, ShortSeqs DEF TypeOK
  <2>5. Answered(op[c])'
    BY ZenonT(20), <2>1, <2>3 DEF Answered
  <2>6. InStep(c)'
    BY ZenonT(20), <2>1, <2>2, <2>3, <2>4, <2>5 DEF InStep
  <2>7. QED
    BY ZenonT(20), <1>a, <2>1, <2>2, <2>6
<1>7. ASSUME NEW c \in Caller, Finish(c) PROVE \A d \in Caller : InStep(d)'
  <2>1. /\ pc[c] = "finish" /\ pc[c] \in Holding
        /\ UNCHANGED <<resp_status, resp_notice, socket_event, modem, uart, cmds>>
    BY ZenonT(20), <1>7 DEF Finish, Holding
  <2>2. CASE op[c] = "send" /\ resp_status = "OK"
    <3>1. /\ socket_event = {} /\ modem.of = cmds /\ resp_notice = <<>> /\ uart = <<>>
          /\ modem.state = "data"
      BY <1>c, <2>1, <2>2 DEF InStep, Answered
    <3>2. pc'[c] = "data" /\ \A d \in Caller \ {c} : pc'[d] = pc[d]
      BY <1>0, <1>7, <2>2 DEF Finish, Goto, TypeOK
    <3>3. InStep(c)'
      BY <2>1, <3>1, <3>2 DEF InStep
    <3>4. QED
      BY <1>a, <2>1, <3>2, <3>3
  <2>3. CASE ~(op[c] = "send" /\ resp_status = "OK")
    <3>1. \E ok : Leave(c, ok)
      BY <1>7, <2>3 DEF Finish
    <3>2. QED
      BY <1>4, <2>1, <3>1
  <2>4. QED
    BY <2>2, <2>3
<1>8. ASSUME NEW c \in Caller, Data(c) PROVE \A d \in Caller : InStep(d)'
  <2>1. /\ pc[c] = "data" /\ pc[c] \in Holding
        /\ UNCHANGED <<lock, resp_notice, socket_event, uart, cmds>>
    BY <1>8 DEF Data, Holding, client
  <2>2. /\ modem.state = "data" /\ modem.of = cmds /\ uart = <<>> /\ socket_event = {}
        /\ resp_notice = <<>>
    BY <1>c, <2>1 DEF InStep
  <2>3. modem'.state = "sending" /\ modem'.of = cmds
    BY <1>0, <1>8, <2>2 DEF Data, TypeOK
  <2>4. pc'[c] = "socket_event" /\ \A d \in Caller \ {c} : pc'[d] = pc[d]
    BY <1>0, <1>8 DEF Data, Goto, TypeOK
  <2>5. InStep(c)'
    BY <2>1, <2>2, <2>3, <2>4 DEF InStep
  <2>6. QED
    BY <1>a, <2>1, <2>4, <2>5
<1>9. ASSUME NEW c \in Caller, SocketEvent(c) PROVE \A d \in Caller : InStep(d)'
  <2>1. /\ pc[c] = "socket_event" /\ pc[c] \in Holding /\ "socket" \in socket_event
        /\ UNCHANGED <<lock, resp_notice, modem, uart, cmds, sent_of>>
        /\ socket_event' = socket_event \ {"socket"}
    BY <1>9 DEF SocketEvent, Holding, client, history, esp8266_socket_event_recv
  <2>2. /\ modem.state = "ready" /\ uart = <<>> /\ sent_of = cmds /\ modem.of = cmds
        /\ resp_notice = <<>> /\ \E k \in Results : socket_event = {"socket", k}
    BY ZenonT(20), <1>c, <2>1 DEF InStep
  <2>3. \E k \in Results : socket_event' = {k}
    BY <2>1, <2>2 DEF Results
  <2>4. pc'[c] = "send_event" /\ \A d \in Caller \ {c} : pc'[d] = pc[d]
    BY <1>0, <1>9 DEF SocketEvent, Goto, TypeOK
  <2>5. InStep(c)'
    BY ZenonT(20), <2>1, <2>2, <2>3, <2>4 DEF InStep
  <2>6. QED
    BY ZenonT(20), <1>a, <2>1, <2>4, <2>5
<1>10. ASSUME client_parser, NEW c \in Caller PROVE InStep(c)'
  <2>0. uart # <<>> /\ uart' = Tail(uart) /\ UNCHANGED <<op, pc, lock, modem, cmds, by>> /\ InStep(c)
    BY ZenonT(20), <1>c, <1>10, ParserSteps
  <2>1. CASE pc[c] = "take"
    <3>1. /\ socket_event = {} /\ modem.of = cmds /\ modem.op = op[c] /\ op[c] # "reset"
          /\ resp = c /\ resp_notice = <<>> /\ IF op[c] = "send" THEN AskedSend ELSE AskedInfo
      BY ZenonT(20), <2>0, <2>1 DEF InStep, Answered
    <3>2. /\ socket_event' = socket_event
          /\ \/ /\ resp' = c /\ resp_notice' = <<>>
                /\ IF op[c] = "send" THEN AskedSend' ELSE AskedInfo'
             \/ resp' = NoCaller /\ resp_notice' = <<cmds>> /\ Answered(op[c])'
      BY ZenonT(20), <1>0, <1>10, <2>1, <3>1, AnswerRead
    <3>3. QED
      BY ZenonT(20), <2>0, <2>1, <3>1, <3>2 DEF InStep
  <2>2. CASE pc[c] = "socket_event"
    <3>1. PICK k \in Results : uart = <<Said(k)>>
      BY ZenonT(20), <2>0, <2>2 DEF InStep
    <3>2. /\ modem.state = "ready" /\ socket_event = {} /\ modem.of = cmds /\ resp_notice = <<>>
      BY <2>0, <2>2, <3>1 DEF InStep
    <3>3. Head(uart) = Said(k) /\ uart' = <<>> /\ Head(uart).kind = k /\ Head(uart).of = cmds
      BY SMTT(30), <2>0, <3>1, ShortSeqs DEF Said, Line
    <3>4. Urc(Head(uart))
      BY ZenonT(20), <1>10, <3>3, ParserSteps
    <3>5. socket_event' = {"socket", k} /\ sent_of' = cmds /\ resp_notice' = <<>>
      BY <3>2, <3>3, <3>4 DEF Urc, client
    <3>6. QED
      BY ZenonT(20), <2>0, <2>2, <3>2, <3>3, <3>5 DEF InStep
  <2>3. CASE pc[c] = "finish"
    <3>1. op[c] = "reset" /\ by[c] = cmds
      BY ZenonT(20), <2>0, <2>3 DEF InStep, Answered
    <3>2. QED
      BY ZenonT(20), <2>0, <2>3, <3>1 DEF InStep
  <2>4. CASE pc[c] \notin {"take", "socket_event", "finish"}
    <3>1. pc[c] \notin {"data", "send_event"}
      BY ZenonT(20), <2>0 DEF InStep
    <3>2. QED
      BY ZenonT(20), <2>0, <2>4, <3>1 DEF InStep
  <2>5. QED
    BY <2>1, <2>2, <2>3, <2>4
<1>11. ASSUME ModemInfo \/ ModemEnds \/ ModemPrompts \/ ModemSent, NEW c \in Caller
       PROVE  InStep(c)'
  <2>0. UNCHANGED <<op, pc, lock, resp, resp_status, line_counts, resp_notice, socket_event, cmds, by, sent_of>>
    BY <1>11, ModemSteps DEF ModemNext, client
  <2>1. modem.state \notin {"ready", "data"} /\ InStep(c)
    BY <1>c, <1>11 DEF ModemInfo, ModemEnds, ModemPrompts, ModemSent
  <2>2. CASE pc[c] = "take"
    <3>1. /\ socket_event = {} /\ modem.of = cmds /\ modem.op = op[c] /\ op[c] # "reset"
          /\ resp = c /\ resp_notice = <<>> /\ IF op[c] = "send" THEN AskedSend ELSE AskedInfo
      BY <2>1, <2>2 DEF InStep, Answered
    <3>2. /\ modem'.of = cmds /\ modem'.op = op[c]
          /\ IF op[c] = "send" THEN AskedSend' ELSE AskedInfo'
      BY ZenonT(20), <1>0, <1>11, <2>2, <3>1, AnswerSaid
    <3>3. QED
      BY ZenonT(20), <2>0, <2>2, <3>1, <3>2 DEF InStep
  <2>3. CASE pc[c] = "socket_event"
    <3>1. modem.state = "sending" /\ uart = <<>> /\ socket_event = {} /\ modem.of = cmds /\ resp_notice = <<>>
      BY ZenonT(20), <2>1, <2>3 DEF InStep
    <3>2. PICK k \in Results : ModemSays(k, "ready")
      BY <1>11, <3>1 DEF ModemInfo, ModemEnds, ModemPrompts, ModemSent
    <3>3. modem'.state = "ready" /\ modem'.of = cmds /\ uart' = <<Said(k)>>
      BY <1>0, <3>1, <3>2, ShortSeqs DEF ModemSays, Said, TypeOK
    <3>4. QED
      BY ZenonT(20), <2>0, <2>3, <3>1, <3>3 DEF InStep, Said
  <2>4. CASE pc[c] = "finish"
    <3>1. op[c] = "reset" /\ by[c] = cmds
      BY ZenonT(20), <2>1, <2>4 DEF InStep, Answered
    <3>2. QED
      BY <2>0, <2>4, <3>1 DEF InStep
  <2>5. CASE pc[c] \notin {"take", "socket_event", "finish"}
    <3>1. pc[c] \notin {"data", "send_event"}
      BY ZenonT(20), <2>1 DEF InStep
    <3>2. QED
      BY <2>0, <2>5, <3>1 DEF InStep
  <2>6. QED
    BY <2>2, <2>3, <2>4, <2>5
<1>12. CASE UNCHANGED vars
  <2> SUFFICES ASSUME NEW c \in Caller PROVE InStep(c)'
    OBVIOUS
  <2>1. UNCHANGED <<op, pc, resp, resp_status, line_counts, resp_notice, socket_event, modem,
                    uart, cmds, by, sent_of>>
    BY <1>12 DEF vars, client, history
  <2>2. (AskedInfo' <=> AskedInfo) /\ (AskedSend' <=> AskedSend)
    BY <2>1 DEF AskedInfo, AskedSend, Said
  <2>3. Answered(op[c])' <=> Answered(op[c])
    BY <2>1 DEF Answered
  <2>4. \A k : Said(k)' = Said(k)
    BY <2>1 DEF Said
  <2>5. InStep(c)
    BY <1>c
  <2>6. QED
    BY ZenonT(20), <2>1, <2>2, <2>3, <2>4, <2>5 DEF InStep
<1>13. QED
  BY <1>c, <1>2, <1>3, <1>5, <1>6, <1>7, <1>8, <1>9, <1>10, <1>11, <1>12 DEF Next, Step, ModemNext

\* Every step in which nothing goes wrong keeps the silence between commands.
LEMMA SilentStep ==
    ASSUME IInv, Punctual, LockStep, StaysSilent, [Next]_vars
    PROVE  StaysSilent'
<1> SUFFICES ASSUME Calm' PROVE Silent'
  BY DEF StaysSilent
<1>0. /\ TypeOK /\ Excluded /\ NothingLate /\ Silent /\ quiet
      /\ \A d \in Caller : InStep(d)
      /\ \A c \in Caller : ~Expire(c) /\ ~EventTimeout(c) /\ (Write(c) => op[c] # "reset")
      /\ ~ModemForgets /\ ~ModemStray
  BY Patience, Faultless DEF IInv, Punctual, LockStep, StaysSilent, Silent, Calm
<1>1. quiet'
  <2>1. ASSUME NEW c \in Caller, Write(c) PROVE quiet'
    <3>1. pc[c] = "write" /\ op[c] # "reset" /\ quiet' = Silence
      BY ZenonT(20), <1>0, <2>1 DEF Write
    <3>2. QED
      BY <1>0, <3>1 DEF Silent, Rest, Silence
  <2>2. QED
    BY ZenonT(20), <1>0, <2>1, QuietKept
<1>a. ASSUME NEW c \in Caller, pc[c] \in Holding \/ lock = NoCaller,
             \A d \in Caller \ {c} : pc'[d] = pc[d],
             lock' # NoCaller \/ Rest',
             pc'[c] \in {"set", "write"} => Rest',
             pc'[c] = "write" => line_counts' = 0 \/ op'[c] = "reset"
      PROVE  Silent'
  <2>1. \A d \in Caller \ {c} : pc'[d] \notin Holding
    BY ZenonT(20), <1>0, <1>a, HolderAlone, CallerAssumption DEF Excluded
  <2>2. \A d \in Caller \ {c} : pc'[d] \notin {"set", "write"}
    BY <2>1 DEF Holding
  <2>3. QED
    BY <1>1, <1>a, <2>2 DEF Silent
<1>b. ASSUME NEW c \in Caller, pc[c] \in Holding PROVE lock # NoCaller
  BY <1>0, <1>b, CallerAssumption DEF Excluded
<1>2. ASSUME NEW c \in Caller, Begin(c) PROVE Silent'
  <2>1. /\ UNCHANGED <<lock, line_counts, resp_notice, socket_event, modem, uart>>
        /\ pc'[c] = "lock" /\ \A d \in Caller \ {c} : pc'[d] = pc[d] /\ op'[d] = op[d]
    BY <1>0, <1>2 DEF Begin, client, Goto, TypeOK
  <2>2. Rest' <=> Rest
    BY <2>1 DEF Rest
  <2>3. QED
    BY ZenonT(20), <1>0, <1>1, <2>1, <2>2 DEF Silent
<1>3. ASSUME NEW c \in Caller, Lock(c) PROVE Silent'
  <2>1. /\ lock = NoCaller /\ Rest /\ Rest' /\ pc'[c] = "set"
        /\ \A d \in Caller \ {c} : pc'[d] = pc[d]
    BY <1>0, <1>3 DEF Lock, Goto, TypeOK, Rest, Silent
  <2>2. QED
    BY <1>a, <2>1
<1>4. ASSUME NEW c \in Caller, Set(c) PROVE Silent'
  <2>1. /\ pc[c] = "set" /\ pc[c] \in Holding /\ op' = op
        /\ UNCHANGED <<resp_notice, socket_event, modem, uart>>
    BY ZenonT(20), <1>4 DEF Set, Holding
  <2>2. Rest'
    BY ZenonT(20), <1>0, <2>1 DEF Silent, Rest
  <2>3. /\ pc'[c] = "write" /\ \A d \in Caller \ {c} : pc'[d] = pc[d]
        /\ line_counts' = 0 \/ op[c] = "reset"
    BY <1>0, <1>4 DEF Set, Goto, TypeOK
  <2>4. QED
    BY ZenonT(20), <1>a, <2>1, <2>2, <2>3
<1>5. ASSUME NEW c \in Caller, Write(c) \/ Take(c) \/ Data(c) \/ SocketEvent(c) PROVE Silent'
  <2>1. /\ pc[c] \in Holding /\ lock' = lock
        /\ \A d \in Caller \ {c} : pc'[d] = pc[d]
        /\ pc'[c] \notin {"set", "write"}
    BY ZenonT(20), <1>0, <1>5 DEF Write, Take, Data, SocketEvent, Goto, TypeOK, client, Holding
  <2>2. QED
    BY ZenonT(20), <1>a, <1>b, <2>1
<1>6. ASSUME NEW c \in Caller, NEW ok, pc[c] \in Holding, Leave(c, ok), Rest' PROVE Silent'
  <2>1. pc'[c] \in {"idle", "lock"} /\ \A d \in Caller \ {c} : pc'[d] = pc[d]
    BY <1>0, <1>6 DEF Leave, Goto, TypeOK
  <2>2. QED
    BY <1>a, <1>6, <2>1
<1>7. ASSUME NEW c \in Caller, Finish(c) PROVE Silent'
  <2>1. /\ pc[c] = "finish" /\ pc[c] \in Holding
        /\ UNCHANGED <<resp_notice, socket_event, modem, uart>>
    BY <1>7 DEF Finish, Holding
  <2>2. socket_event = {} /\ resp_notice = <<>> /\ Answered(op[c])
    BY ZenonT(20), <1>0, <2>1 DEF InStep, NothingLate
  <2>3. CASE op[c] = "send" /\ resp_status = "OK"
    <3>1. lock' = lock /\ pc'[c] = "data" /\ \A d \in Caller \ {c} : pc'[d] = pc[d]
      BY <1>0, <1>7, <2>3 DEF Finish, Goto, TypeOK
    <3>2. QED
      BY ZenonT(20), <1>a, <1>b, <2>1, <3>1
  <2>4. CASE ~(op[c] = "send" /\ resp_status = "OK")
    <3>1. Rest'
      BY <2>1, <2>2, <2>4 DEF Rest, Answered
    <3>2. \E ok : Leave(c, ok)
      BY <1>7, <2>4 DEF Finish
    <3>3. QED
      BY <1>6, <2>1, <3>1, <3>2
  <2>5. QED
    BY <2>3, <2>4
<1>8. ASSUME NEW c \in Caller, SendEvent(c) PROVE Silent'
  <2>1. /\ pc[c] = "send_event" /\ pc[c] \in Holding /\ UNCHANGED <<resp_notice, modem, uart>>
        /\ socket_event' = socket_event \ Results /\ \E ok : Leave(c, ok)
    BY <1>8 DEF SendEvent, Holding, esp8266_socket_event_recv
  <2>2. /\ modem.state = "ready" /\ uart = <<>> /\ resp_notice = <<>>
        /\ \E k \in Results : socket_event = {k}
    BY ZenonT(20), <1>0, <2>1 DEF InStep
  <2>3. Rest'
    BY <2>1, <2>2 DEF Rest
  <2>4. QED
    BY <1>6, <2>1, <2>3
<1>9. ASSUME ~Rest, UNCHANGED <<pc, lock>> PROVE Silent'
  <2>1. lock # NoCaller /\ \A d \in Caller : pc[d] \notin {"set", "write"}
    BY <1>0, <1>9 DEF Silent
  <2>2. QED
    BY <1>1, <1>9, <2>1 DEF Silent
<1>10. CASE client_parser
  <2>1. uart # <<>> /\ UNCHANGED <<pc, lock>>
    BY <1>10, ParserSteps
  <2>2. QED
    BY <1>9, <2>1 DEF Rest
<1>11. CASE ModemInfo \/ ModemEnds \/ ModemPrompts \/ ModemSent
  <2>1. modem.state # "ready"
    BY <1>11 DEF ModemInfo, ModemEnds, ModemPrompts, ModemSent
  <2>2. UNCHANGED <<pc, lock>>
    BY <1>11, ModemSteps DEF ModemNext, client
  <2>3. QED
    BY <1>9, <2>1, <2>2 DEF Rest
<1>12. CASE UNCHANGED vars
  BY <1>0, <1>12 DEF vars, client, history, Silent, Rest
<1>13. ASSUME NEW c \in Caller, Again(c) \/ TimedOut(c) \/ Delete(c) \/ Clear(c) PROVE FALSE
  BY ZenonT(20), <1>0, <1>13 DEF Again, TimedOut, Delete, Clear, NothingLate
<1>14. QED
  BY <1>0, <1>2, <1>3, <1>4, <1>5, <1>7, <1>8, <1>10, <1>11, <1>12, <1>13 DEF Next, Step, ModemNext

\* The client in step with the modem, in every reachable state.
LEMMA LockStepInductive == Spec => [](LockStep /\ StaysSilent)
<1>1. Init => Punctual /\ Armed /\ LockStep /\ StaysSilent
  <2> SUFFICES ASSUME Init PROVE Punctual /\ Armed /\ LockStep /\ StaysSilent
    OBVIOUS
  <2>1. Punctual
    BY DEF Init, Punctual, NothingLate
  <2>2. Rest /\ quiet
    BY DEF Init, Rest, Modem
  <2>3. \A c \in Caller : pc[c] = "idle"
    BY ZenonT(20) DEF Init
  <2>4. \A c \in Caller : InStep(c) /\ ArmedFor(c)
    BY ZenonT(20), <2>3 DEF InStep, ArmedFor
  <2>5. Silent
    BY ZenonT(20), <2>2, <2>3 DEF Silent
  <2>6. QED
    BY <2>1, <2>4, <2>5 DEF LockStep, Armed, StaysSilent
<1>2. IInv /\ Punctual /\ Armed /\ LockStep /\ StaysSilent /\ [Next]_vars
        => Punctual' /\ Armed' /\ LockStep' /\ StaysSilent'
  BY PunctualStep, ArmedStep, LockStepStep, SilentStep DEF IInv
<1>3. QED
  BY <1>1, <1>2, Invariance, PTL DEF Spec

\* What every undisturbed command has.
LEMMA Undisturbing ==
    ASSUME Numbered, LockStep, StaysSilent, Undisturbed, NEW c \in Caller
    PROVE  InStep(c) /\ (pc[c] \in Holding \ {"set", "write"} => my[c] = cmds)
<1>1. quiet
  BY DEF Undisturbed, StaysSilent, Silent, Calm
<1>2. QED
  BY <1>1 DEF LockStep, Numbered, OwnNumber

\* For any number of callers, commands and lines: a command that is written in
\* silence returns with its own answer, whatever went wrong before it, and so
\* does every command while no wait has expired, no reset was sent and no line
\* was lost or added.
THEOREM AnswerIsOwn == Spec => []OwnAnswer
<1>1. Numbered /\ LockStep /\ StaysSilent => OwnAnswer
  <2> SUFFICES ASSUME Numbered, LockStep, StaysSilent, NEW c \in Caller, pc[c] = "finish", Undisturbed
               PROVE  by[c] = my[c]
    BY DEF OwnAnswer
  <2>1. QED
    BY ZenonT(20), Undisturbing DEF InStep, Holding
<1>2. QED
  BY <1>1, NumberedInductive, LockStepInductive, PTL

\* For any number of callers, commands and lines: the data of such a send is
\* written when the modem has asked for the data of this very send.
THEOREM PromptComesFirst == Spec => []DataAfterPrompt
<1>1. Numbered /\ LockStep /\ StaysSilent => DataAfterPrompt
  <2> SUFFICES ASSUME Numbered, LockStep, StaysSilent, NEW c \in Caller, pc[c] = "data", Undisturbed
               PROVE  modem.state = "data" /\ modem.of = my[c]
    BY DEF DataAfterPrompt
  <2>1. QED
    BY Undisturbing DEF InStep, Holding
<1>2. QED
  BY <1>1, NumberedInductive, LockStepInductive, PTL

\* For any number of callers, commands and lines: the result such a send returns
\* with is its own, although esp8266_socket_send never empties the event set
\* before it begins.
THEOREM ResultIsOwn == Spec => OwnSendResult
<1>1. Numbered /\ LockStep /\ StaysSilent /\ [Next]_vars =>
        [\A c \in Caller : SendEvent(c) /\ Undisturbed => sent_of = my[c]]_vars
  <2> SUFFICES ASSUME Numbered, LockStep, StaysSilent, NEW c \in Caller, SendEvent(c), Undisturbed
               PROVE  sent_of = my[c]
    OBVIOUS
  <2>1. pc[c] = "send_event"
    BY DEF SendEvent
  <2>2. QED
    BY ZenonT(20), <2>1, Undisturbing DEF InStep, Holding
<1>2. QED
  BY <1>1, NumberedInductive, LockStepInductive, PTL DEF Spec, OwnSendResult
=============================================================================
