------------------------------- MODULE Absent -------------------------------
(* The value of a field that holds nothing: null or undefined in the code. *)
CONSTANT None
=============================================================================
