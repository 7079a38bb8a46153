--------------------------- MODULE MCSerialHandler ---------------------------
(* A small instance of SerialHandler for TLC; see MCSerialHandler.cfg. *)
EXTENDS SerialHandler
===============================================================================
