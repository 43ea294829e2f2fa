----------------------------- MODULE MCTimeBase -----------------------------
(***************************************************************************)
(* A small instance of TimeBase: the configuration gives the constants     *)
(* their values.                                                           *)
(***************************************************************************)
EXTENDS TimeBase

=============================================================================
