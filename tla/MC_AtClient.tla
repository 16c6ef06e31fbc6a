---------------------------- MODULE MC_AtClient ----------------------------
(* The worker of the MQTT client and the system work queue, two threads that *)
(* share the AT client.                                                      *)
EXTENDS AtClient
=============================================================================
