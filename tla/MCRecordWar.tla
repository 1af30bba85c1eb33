---------------------------- MODULE MCRecordWar ----------------------------
(***************************************************************************)
(* A small instance of Responses: a responder who knows the key of one of  *)
(* the two devices of the author.                                          *)
(***************************************************************************)
EXTENDS Responses

CONSTANTS d1, d2, r1, me
=============================================================================
