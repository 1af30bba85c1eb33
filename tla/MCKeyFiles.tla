----------------------------- MODULE MCKeyFiles -----------------------------
(***************************************************************************)
(* A small instance of KeyFiles: one message, two credentials.             *)
(***************************************************************************)
EXTENDS KeyFiles

CONSTANTS m1, pin, phrase
=============================================================================
