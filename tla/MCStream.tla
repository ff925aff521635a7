------------------------------ MODULE MCStream ------------------------------
(***************************************************************************)
(* An instance of Stream: a body of up to five units through a buffer of   *)
(* three, so that it is filled, overflows and is filled in part.            *)
(***************************************************************************)
EXTENDS Stream
=============================================================================
