---------------------------- MODULE MC_DevSensor ----------------------------
EXTENDS DevSensor
=============================================================================
