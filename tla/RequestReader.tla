----------------------------- MODULE RequestReader -----------------------------
(***************************************************************************)
(* How a helper takes its request (pkgx_read_stdin_deadline in request.c)  *)
(* and drops it again (main in entrypoint.c): bytes from the caller's pipe *)
(* into a buffer that grows up to a cap, until end of file, under one      *)
(* deadline.  The bytes hold the effect receipt, so the memory they pass   *)
(* through, as far as the parser, is part of the state.  The caller is     *)
(* external: it writes as it likes, and may never close.  So are realloc,  *)
(* which may return another block, and jansson, which copies what it reads.*)
(***************************************************************************)
EXTENDS Integers, FiniteSetsExt

CONSTANTS
  FirstCap,      \* the buffer it starts with, 4096
  MaxStdin,      \* PKGX_MAX_STDIN
  MaxSent        \* bound: bytes the caller writes

ASSUME SizesAssumption == /\ FirstCap \in 1..MaxStdin
                          /\ MaxStdin \in Nat /\ MaxSent \in Nat

Codes == {"none", "io", "deadline", "too_large"}

(* What may be freed with bytes of a request in it: the buffer, a block the *)
(* buffer has outgrown, the parser's copies.                                *)
Copies == {"block", "outgrown", "parser"}

VARIABLES
  pc, code,
  cap, n,       \* the program's idea of its buffer: room, bytes read
  held,         \* bytes of the request that are in the buffer
  left,         \* the copies that were freed unwiped
  late,         \* the deadline has passed
  overtime,     \* history: reads begun after it
  sent, closed  \* the caller's end of the pipe

memVars  == <<cap, n, held, left>>
timeVars == <<late, overtime>>
pipeVars == <<sent, closed>>
vars == <<pc, code, memVars, timeVars, pipeVars>>

Init ==
  /\ pc = "start" /\ code = "none"
  /\ cap = 0 /\ n = 0 /\ held = 0 /\ left = {}
  /\ late = FALSE /\ overtime = 0
  /\ sent = 0 /\ closed = FALSE

Goto(l) == pc' = l /\ UNCHANGED <<code, memVars, timeVars, pipeVars>>

(* Wipe the first w bytes of the buffer, and free it, with these copies.    *)
Release(w, copies) ==
  /\ left' = left \cup copies \cup (IF w < held THEN {"block"} ELSE {})
  /\ held' = 0

Fail(c) ==
  /\ pc' = "done" /\ code' = c
  /\ Release(n, {})
  /\ UNCHANGED <<cap, n, timeVars, pipeVars>>

-----------------------------------------------------------------------------
Start ==
  /\ pc = "start"
  /\ \/ Fail("io")
     \/ /\ cap' = FirstCap /\ pc' = "head"
        /\ UNCHANGED <<code, n, held, left, timeVars, pipeVars>>

(* The clock, which may fail. *)
Head ==
  /\ pc = "head"
  /\ \/ Fail("io")
     \/ late /\ Fail("deadline")
     \/ ~late /\ Goto("poll")

(* Bug: poll without a timeout. *)
PollExpires_Never == pc = "poll" /\ late /\ Goto("poll")

PollReady   == pc = "poll" /\ (sent > n \/ closed) /\ Goto("room")
PollExpires == pc = "poll" /\ late /\ Fail("deadline")
PollFails   == pc = "poll" /\ Fail("io")

(* Bug: the buffer doubles without a limit. *)
Room_Doubles ==
  /\ pc = "room"
  /\ \/ n < cap /\ Goto("read")
     \/ /\ n = cap /\ cap' = 2 * cap /\ pc' = "read"
        /\ UNCHANGED <<code, n, held, left, timeVars, pipeVars>>
(* Bug: the buffer never grows to hold the one byte that tells too large. *)
Room_CapsAtMax ==
  /\ pc = "room"
  /\ \/ n < cap /\ Goto("read")
     \/ n = cap /\ Fail("io")
     \/ /\ n = cap /\ cap' = Min({2 * cap, MaxStdin})
        /\ \E moved \in {{}, {"outgrown"}} : left' = left \cup moved
        /\ pc' = "read"
        /\ UNCHANGED <<code, n, held, timeVars, pipeVars>>
(* A full buffer is doubled, up to one byte more than a request may have.   *)
(* What realloc leaves in a block it moved away from, it leaves unwiped.    *)
Room ==
  /\ pc = "room"
  /\ \/ n < cap /\ Goto("read")
     \/ n = cap /\ Fail("io")
     \/ /\ n = cap /\ cap' = Min({2 * cap, MaxStdin + 1})
        /\ \E moved \in {{}, {"outgrown"}} : left' = left \cup moved
        /\ pc' = "read"
        /\ UNCHANGED <<code, n, held, timeVars, pipeVars>>

(* Bug: the size is judged, and the buffer dropped, before the bytes count. *)
ReadSome_CountsLate ==
  /\ pc = "read"
  /\ \E k \in 1..Min({cap - n, sent - n}) :
       IF n + k > MaxStdin
       THEN /\ pc' = "done" /\ code' = "too_large"
            /\ left' = left \cup {"block"} /\ held' = 0 /\ n' = n
       ELSE /\ n' = n + k /\ held' = held + k
            /\ pc' = "head" /\ UNCHANGED <<code, left>>
  /\ overtime' = overtime + (IF late THEN 1 ELSE 0)
  /\ UNCHANGED <<cap, late, pipeVars>>
(* Bug: the cap is inclusive. *)
ReadSome_Inclusive ==
  /\ pc = "read"
  /\ \E k \in 1..Min({cap - n, sent - n}) :
       /\ n' = n + k /\ overtime' = overtime + (IF late THEN 1 ELSE 0)
       /\ IF n' >= MaxStdin
          THEN pc' = "done" /\ code' = "too_large" /\ held' = 0
          ELSE pc' = "head" /\ UNCHANGED code /\ held' = held + k
  /\ UNCHANGED <<cap, left, late, pipeVars>>
(* Bug: what is there is read before the deadline is looked at again. *)
ReadSome_Drains ==
  /\ pc = "read"
  /\ \E k \in 1..Min({cap - n, sent - n}) :
       /\ n' = n + k /\ held' = held + k
       /\ overtime' = overtime + (IF late THEN 1 ELSE 0)
       /\ IF n' > MaxStdin
          THEN pc' = "done" /\ code' = "too_large"
          ELSE pc' = "poll" /\ UNCHANGED code
  /\ UNCHANGED <<cap, left, late, pipeVars>>
ReadSome ==
  /\ pc = "read"
  /\ \E k \in 1..Min({cap - n, sent - n}) :
       /\ n' = n + k
       /\ overtime' = overtime + (IF late THEN 1 ELSE 0)
       /\ IF n' > MaxStdin
          THEN /\ pc' = "done" /\ code' = "too_large"
               /\ left' = left \cup (IF n' < held + k THEN {"block"} ELSE {})
               /\ held' = 0
          ELSE /\ pc' = "head" /\ held' = held + k
               /\ UNCHANGED <<code, left>>
  /\ UNCHANGED <<cap, late, pipeVars>>

(* A read of nothing is the end of file, also when it asked for nothing. *)
ReadEof   == pc = "read" /\ (n = cap \/ (sent = n /\ closed)) /\ Goto("parse")
ReadFails == pc = "read" /\ Fail("io")

(* main: whatever the parser says, the body is wiped and freed.  The JSON   *)
(* values it was read into, the receipt among them, are freed as they are.  *)
Parse ==
  /\ pc = "parse" /\ pc' = "done"
  /\ \E copies \in SUBSET (IF n > 0 THEN {"parser"} ELSE {}) : Release(n, copies)
  /\ UNCHANGED <<code, cap, n, timeVars, pipeVars>>

-----------------------------------------------------------------------------
Deadline ==
  /\ ~late /\ pc \notin {"start", "done"}
  /\ late' = TRUE
  /\ UNCHANGED <<pc, code, memVars, overtime, pipeVars>>

CallerWrites ==
  /\ ~closed /\ sent < MaxSent
  /\ sent' = sent + 1
  /\ UNCHANGED <<pc, code, memVars, timeVars, closed>>

CallerCloses ==
  /\ ~closed /\ closed' = TRUE
  /\ UNCHANGED <<pc, code, memVars, timeVars, sent>>

CallStep ==
  Start \/ Head \/ PollReady \/ PollExpires \/ Room \/ ReadSome \/ ReadEof \/ ReadFails \/ Parse
Done == pc = "done" /\ UNCHANGED vars
Next == CallStep \/ PollFails \/ Deadline \/ CallerWrites \/ CallerCloses \/ Done

Spec == Init /\ [][Next]_vars

(* The reader is a single thread, and time passes; the caller owes nothing. *)
LiveSpec == Spec /\ WF_vars(CallStep) /\ WF_vars(Deadline)

-----------------------------------------------------------------------------
(* Properties. *)

TypeOK ==
  /\ pc \in {"start", "head", "poll", "room", "read", "parse", "done"}
  /\ code \in Codes
  /\ cap \in 0..(MaxStdin + 1) /\ n \in 0..cap /\ held \in 0..cap
  /\ left \in SUBSET Copies /\ late \in BOOLEAN /\ overtime \in Nat
  /\ sent \in 0..MaxSent /\ closed \in BOOLEAN

Accepted == pc = "parse" \/ (pc = "done" /\ code = "none")

(* What reaches the parser is everything the caller wrote before it closed,  *)
(* and within the cap: never a prefix that happens to parse.                 *)
AcceptedIsWhole == Accepted => closed /\ n = sent /\ n <= MaxStdin

(* A request is refused for its size only when it is larger than the cap:    *)
(* one of exactly the cap is read to its end.                                *)
TooLargeIsTrue == code = "too_large" => sent > MaxStdin

(* The deadline is absolute: a caller that writes a byte at a time gets at   *)
(* most the one read already decided upon after it.                          *)
AtMostOneLateRead == overtime <= 1

(* The buffer that holds the request when it ends is wiped to its last byte, *)
(* whichever way it ends.  What can stay in freed memory besides is a block  *)
(* that a request which filled the first buffer has outgrown, and, once a    *)
(* whole request has reached it, the copies of the parser: a request that    *)
(* does not fill the first buffer and is not read to its end leaves nothing. *)
OnlyCopiesStay ==
  /\ "block" \notin left
  /\ "outgrown" \in left => sent >= FirstCap
  /\ "parser" \in left => pc = "done" /\ code = "none" /\ closed

(* request.c, before the loop: a failed read "must never leak it to freed    *)
(* heap".                                                                    *)
FailureLeaksNothing == pc = "done" /\ code # "none" => left = {}

(* The reader ends, though the caller neither writes nor closes. *)
Returns == <>(pc = "done")
================================================================================
