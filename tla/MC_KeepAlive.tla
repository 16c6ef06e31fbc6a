---------------------------- MODULE MC_KeepAlive ----------------------------
(* The device's interval of 60 s (wifi_mqtt.c).                             *)
EXTENDS KeepAlive
=============================================================================
