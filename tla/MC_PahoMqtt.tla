----------------------------- MODULE MC_PahoMqtt ----------------------------
(* A command that is echoed, one that is answered with a snapshot, and one  *)
(* that has no reply.                                                       *)
EXTENDS PahoMqtt

MC_Command == {"RELAY_1_ON", "DEVICE_SENSOR_ALL", "APPLETS_OFFLINE"}
MC_Reply == [c \in MC_Command |->
                IF c = "RELAY_1_ON" THEN "ECHO"
                ELSE IF c = "DEVICE_SENSOR_ALL" THEN "SNAPSHOT" ELSE "NONE"]
MC_PayloadLen == [p \in {"DEVICE_ONLINE", "ECHO", "SNAPSHOT"} |->
                     IF p = "ECHO" THEN 10 ELSE IF p = "SNAPSHOT" THEN 34 ELSE 13]

\* Status requests only: the applet's queue of polls after it was offline.
MC_Poll == {"DEVICE_SENSOR_ALL"}
MC_PollReply == [c \in MC_Poll |-> "SNAPSHOT"]
MC_PollLen == [p \in {"DEVICE_ONLINE", "SNAPSHOT"} |-> IF p = "SNAPSHOT" THEN 34 ELSE 13]
=============================================================================
