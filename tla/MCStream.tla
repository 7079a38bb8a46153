------------------------------ MODULE MCStream -------------------------------
(* Small instances of Stream for TLC; the constants are in the MCStream_*.cfg. *)
EXTENDS Stream
===============================================================================
