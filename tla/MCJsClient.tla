------------------------------ MODULE MCJsClient ------------------------------
(* Small instances of JsClient for TLC; see MCJsClient.cfg. *)
EXTENDS JsClient, TLC

\* Calls of one kind are interchangeable, and so are the two addresses.
Symmetry == Permutations(Calls \ Voids) \cup Permutations(Addresses)
===============================================================================
