------------------------------ MODULE MCTransport ------------------------------
(* A small instance of Transport for TLC. *)
EXTENDS Transport

Lens == {0, 1, 2, 3}
================================================================================
