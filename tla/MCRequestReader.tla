---------------------------- MODULE MCRequestReader ----------------------------
(* Small instances of RequestReader for TLC. *)
EXTENDS RequestReader
================================================================================
