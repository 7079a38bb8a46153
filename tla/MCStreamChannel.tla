--------------------------- MODULE MCStreamChannel ---------------------------
(* Small instances of StreamChannel for TLC; see the MCStreamChannel_*.cfg. *)
EXTENDS StreamChannel, TLC

\* Connections and listeners are interchangeable (used in safety runs only).
Symmetry == Permutations(Conns) \cup Permutations(Listeners)
===============================================================================
