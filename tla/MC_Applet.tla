----------------------------- MODULE MC_Applet -----------------------------
(* Five publishes and four packet identifiers, so that the identifiers wrap  *)
(* around, over a connection that fails twice.                               *)
EXTENDS Applet
=============================================================================
