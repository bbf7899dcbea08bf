---------------------------- MODULE MCPathReader ----------------------------
(***************************************************************************)
(* Three files, so that an open can fail at the first, in the middle and   *)
(* at the end; two goroutines closing and two reading.                     *)
(***************************************************************************)
EXTENDS PathReader

CONSTANTS c1, c2, u1, u2

=============================================================================
