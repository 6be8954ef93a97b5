------------------------------- MODULE Absent -------------------------------
(***************************************************************************)
(* What is not there: no file, no object, no key, no token.                 *)
(***************************************************************************)
CONSTANT None
=============================================================================
