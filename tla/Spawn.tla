--------------------------------- MODULE Spawn ---------------------------------
(***************************************************************************)
(* pkgx_spawn_wait_env (spawn.c): run dpkg, feed its standard input from a *)
(* pipe when there is a payload, and wait for it.  Two processes share the *)
(* pipe: what either sees depends on which ends the other still holds.     *)
(* The child is external: it reads, closes its input or exits as it likes. *)
(*                                                                         *)
(* Payload bytes are counted.  An EINTR, of a write or of waitpid, is a    *)
(* trip round its loop.                                                    *)
(***************************************************************************)
EXTENDS Integers, FiniteSetsExt

CONSTANTS
  Payloads,    \* lengths of input; NoInput when there is none
  Capacity     \* what the pipe holds

NoInput == -1

ASSUME PayloadAssumption  == Payloads \subseteq Nat \cup {NoInput}
ASSUME CapacityAssumption == Capacity \in Nat \ {0}

Dispositions == {"default", "ignored"}

VARIABLES
  \* the helper
  pc, input, started, ret,
  off,          \* bytes of the payload written
  deliverOk, sigpipe, atStart,
  \* the pipe: what it holds, and who holds which of its ends
  buffered, mine, its,
  \* the child, how much it read, and whether the kernel reaps it by itself
  child, eaten, autoReap

helperVars == <<input, started, ret, off, deliverOk, sigpipe, atStart>>
pipeVars   == <<buffered, mine, its>>
childVars  == <<child, eaten, autoReap>>
vars == <<pc, helperVars, pipeVars, childVars>>

Init ==
  /\ pc = "start" /\ input \in Payloads /\ started = FALSE /\ ret = "none"
  /\ off = 0 /\ deliverOk = TRUE
  /\ atStart \in Dispositions /\ sigpipe = atStart
  /\ buffered = 0 /\ mine = {} /\ its = {}
  /\ child = "none" /\ eaten = 0 /\ autoReap \in BOOLEAN

HasInput == input # NoInput
Ended    == child \in {"ok", "failed"}
NoReader == "read" \notin mine \cup its
NoWriter == "write" \notin mine \cup its

-----------------------------------------------------------------------------
(* The environment array, the pipe, the file actions: any may fail, and     *)
(* closes what there is.                                                    *)
Prepare ==
  /\ pc = "start"
  /\ \/ pc' = "done" /\ ret' = "error" /\ UNCHANGED mine
     \/ pc' = "spawn" /\ UNCHANGED ret
        /\ mine' = IF HasInput THEN {"read", "write"} ELSE {}
  /\ UNCHANGED <<input, started, off, deliverOk, sigpipe, atStart, buffered, its,
                 childVars>>

(* Bug: the file actions leave the write end open in the child. *)
SpawnChild_KeepsWriteEnd ==
  /\ pc = "spawn"
  /\ child' = "running" /\ started' = TRUE
  /\ its' = mine /\ mine' = mine \ {"read"}
  /\ pc' = IF HasInput THEN "mask" ELSE "reap"
  /\ UNCHANGED <<input, ret, off, deliverOk, sigpipe, atStart, buffered, eaten,
                 autoReap>>
(* The child has the read end as its input and nothing else of the pipe.    *)
SpawnChild ==
  /\ pc = "spawn"
  /\ child' = "running" /\ started' = TRUE
  /\ its' = mine \ {"write"} /\ mine' = mine \ {"read"}
  /\ pc' = IF HasInput THEN "mask" ELSE "reap"
  /\ UNCHANGED <<input, ret, off, deliverOk, sigpipe, atStart, buffered, eaten,
                 autoReap>>

(* Bug: started is told before it is known. *)
SpawnFails_Started ==
  /\ pc = "spawn"
  /\ mine' = {} /\ pc' = "done" /\ ret' = "error" /\ started' = TRUE
  /\ UNCHANGED <<input, off, deliverOk, sigpipe, atStart, buffered, its, childVars>>
SpawnFails ==
  /\ pc = "spawn"
  /\ mine' = {} /\ pc' = "done" /\ ret' = "error"
  /\ UNCHANGED <<input, started, off, deliverOk, sigpipe, atStart, buffered, its,
                 childVars>>

(* Bug: the signal is not ignored. *)
Mask_Skipped ==
  /\ pc = "mask" /\ pc' = "write"
  /\ UNCHANGED <<helperVars, pipeVars, childVars>>
(* sigaction: without it nothing is written.                                *)
Mask ==
  /\ pc = "mask"
  /\ \/ sigpipe' = "ignored" /\ pc' = "write" /\ UNCHANGED <<deliverOk, mine>>
     \/ deliverOk' = FALSE /\ mine' = {} /\ pc' = "reap" /\ UNCHANGED sigpipe
  /\ UNCHANGED <<input, started, ret, off, atStart, buffered, its, childVars>>

(* Bug: every write is asked for the whole payload again. *)
Write_WholeLength ==
  /\ pc = "write" /\ off < input /\ ~NoReader
  /\ \E k \in 1..Min({input, Capacity - buffered}) :
       off' = off + k /\ buffered' = buffered + k
  /\ UNCHANGED <<pc, input, started, ret, deliverOk, sigpipe, atStart, mine, its,
                 childVars>>
Write ==
  /\ pc = "write" /\ off < input /\ ~NoReader
  /\ \E k \in 1..Min({input - off, Capacity - buffered}) :
       off' = off + k /\ buffered' = buffered + k
  /\ UNCHANGED <<pc, input, started, ret, deliverOk, sigpipe, atStart, mine, its,
                 childVars>>

(* Nobody can read any more: EPIPE, or the signal. *)
WriteBroken ==
  /\ pc = "write" /\ off < input /\ NoReader
  /\ pc' = IF sigpipe = "ignored" THEN "written" ELSE "killed"
  /\ UNCHANGED <<helperVars, pipeVars, childVars>>

WriteFails ==
  /\ pc = "write" /\ off < input
  /\ pc' = "written" /\ UNCHANGED <<helperVars, pipeVars, childVars>>

WriteDone ==
  /\ pc = "write" /\ off = input
  /\ pc' = "written" /\ UNCHANGED <<helperVars, pipeVars, childVars>>

(* Bug: only a write error counts as a failure of delivery. *)
Unmask_TrustsShort ==
  /\ pc = "written" /\ pc' = "reap"
  /\ mine' = {} /\ sigpipe' = atStart
  /\ UNCHANGED <<input, started, ret, off, deliverOk, atStart, buffered, its, childVars>>
(* The payload is accounted for, the write end closed, the disposition      *)
(* restored; a restoration that fails counts as a failure.                  *)
Unmask ==
  /\ pc = "written" /\ pc' = "reap"
  /\ mine' = {}
  /\ \/ sigpipe' = atStart /\ deliverOk' = (deliverOk /\ off = input)
     \/ deliverOk' = FALSE /\ UNCHANGED sigpipe
  /\ UNCHANGED <<input, started, ret, off, atStart, buffered, its, childVars>>

(* Bug: an interrupted wait is taken for the end of the child. *)
Reap_Interrupted ==
  /\ pc = "reap"
  /\ ret' = IF child = "ok" /\ deliverOk /\ ~autoReap THEN "zero" ELSE "error"
  /\ pc' = "done"
  /\ UNCHANGED <<input, started, off, deliverOk, sigpipe, atStart, pipeVars, childVars>>
(* waitpid: with SIGCHLD ignored from the start it too returns only when    *)
(* the child has gone, with an error.                                       *)
Reap ==
  /\ pc = "reap" /\ Ended
  /\ ret' = IF child = "ok" /\ deliverOk /\ ~autoReap THEN "zero" ELSE "error"
  /\ pc' = "done"
  /\ UNCHANGED <<input, started, off, deliverOk, sigpipe, atStart, pipeVars, childVars>>

-----------------------------------------------------------------------------
(* The child. *)

ChildReads ==
  /\ child = "running" /\ "read" \in its /\ buffered > 0
  /\ buffered' = buffered - 1 /\ eaten' = eaten + 1
  /\ UNCHANGED <<pc, helperVars, mine, its, child, autoReap>>

ChildCloses ==
  /\ child = "running" /\ "read" \in its
  /\ its' = its \ {"read"}
  /\ UNCHANGED <<pc, helperVars, buffered, mine, childVars>>

Exit == /\ child' \in {"ok", "failed"} /\ its' = {}
        /\ UNCHANGED <<pc, helperVars, buffered, mine, eaten, autoReap>>

(* It has seen the end of its input, or has none; or it does not care. *)
ChildFinishes ==
  child = "running" /\ ("read" \in its => buffered = 0 /\ NoWriter) /\ Exit
ChildQuits == child = "running" /\ Exit

HelperStep ==
  \/ Prepare \/ SpawnChild \/ SpawnFails \/ Mask \/ Write \/ WriteBroken \/ WriteDone
  \/ Unmask \/ Reap
ChildWorks == ChildReads \/ ChildFinishes
Done == pc \in {"done", "killed"} /\ UNCHANGED vars
Next == HelperStep \/ WriteFails \/ ChildWorks \/ ChildCloses \/ ChildQuits \/ Done

Spec == Init /\ [][Next]_vars

(* The helper is a single thread.  The child reads what there is and ends    *)
(* when its input has ended: that dpkg does is an assumption.                *)
LiveSpec == Spec /\ WF_vars(HelperStep) /\ WF_vars(ChildWorks)

-----------------------------------------------------------------------------
(* Properties. *)

TypeOK ==
  /\ pc \in {"start", "spawn", "mask", "write", "written", "reap", "done", "killed"}
  /\ input \in Payloads /\ started \in BOOLEAN /\ ret \in {"none", "zero", "error"}
  /\ off \in Nat /\ (HasInput => off <= input) /\ deliverOk \in BOOLEAN
  /\ sigpipe \in Dispositions /\ atStart \in Dispositions
  /\ buffered \in 0..Capacity
  /\ mine \in SUBSET {"read", "write"} /\ its \in SUBSET {"read", "write"}
  /\ child \in {"none", "running", "ok", "failed"} /\ eaten \in Nat
  /\ autoReap \in BOOLEAN

(* A zero is given only for a child that exited 0 after the whole payload    *)
(* was written, whatever the child did with its input meanwhile.             *)
ZeroIsEarned == ret = "zero" => child = "ok" /\ (HasInput => off = input)

(* effect_issued rests on started: it is set iff there was a child, on every *)
(* failing path as well.                                                     *)
StartedIsTrue == started <=> child # "none"

(* A helper that returns has outlived its child: nobody takes the dpkg lock  *)
(* back, reads ground truth or exits while its own dpkg is still at work.    *)
ChildIsOver == pc = "done" => child # "running"

(* The helper is never killed by writing to a child that stopped reading.    *)
Survives == pc # "killed"

(* Helper and child do not wait for each other for ever: a full pipe is read *)
(* or breaks, and the child's input ends.                                    *)
Returns == <>(pc = "done")
================================================================================
