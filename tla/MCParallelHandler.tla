-------------------------- MODULE MCParallelHandler --------------------------
(* A small instance of ParallelHandler for TLC; see MCParallelHandler.cfg. *)
EXTENDS ParallelHandler
===============================================================================
