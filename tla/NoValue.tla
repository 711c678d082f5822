------------------------------ MODULE NoValue ------------------------------
(***************************************************************************)
(* The value of what is not there: Python's None, a field an object lacks. *)
(***************************************************************************)

CONSTANT None
=============================================================================
