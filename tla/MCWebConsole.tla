---------------------------- MODULE MCWebConsole ----------------------------
(* A small instance of WebConsole. *)
EXTENDS WebConsole
=============================================================================
