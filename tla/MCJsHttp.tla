------------------------------- MODULE MCJsHttp -------------------------------
(* A small instance of JsHttp for TLC; see MCJsHttp.cfg. *)
EXTENDS JsHttp
===============================================================================
