------------------------------- MODULE Option -------------------------------
(***************************************************************************)
(* Option::None, and what is not there yet.                                *)
(***************************************************************************)
CONSTANT None
=============================================================================
