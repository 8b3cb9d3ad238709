----------------------------- MODULE MCDescriptors -----------------------------
(* A small instance of Descriptors for TLC. *)
EXTENDS Descriptors
================================================================================
