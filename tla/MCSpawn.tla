-------------------------------- MODULE MCSpawn --------------------------------
(* Small instances of Spawn for TLC: no payload, one that fits the pipe, one *)
(* that does not.                                                            *)
EXTENDS Spawn

SmallPayloads == {NoInput, 1, 2, 4}
================================================================================
