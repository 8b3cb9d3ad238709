-------------------------- MODULE RequestReader_proofs --------------------------
(***************************************************************************)
(* The inductive invariant of RequestReader and the theorems that rest on  *)
(* it.                                                                     *)
(***************************************************************************)
EXTENDS RequestReader, NumberLemmas

(* The buffer while the loop runs: it holds all that was read, and a read   *)
(* always has room for a byte, so that a read of nothing is the end of file.*)
Buffer ==
  /\ n <= sent
  /\ pc # "done" => held = n /\ n <= MaxStdin
  /\ pc = "start" => cap = 0
  /\ pc \notin {"start", "done"} => cap >= FirstCap
  /\ pc = "read" => n < cap

(* What each way of ending means. *)
Ending ==
  /\ pc # "done" => code = "none"
  /\ Accepted => closed /\ n = sent /\ n <= MaxStdin
  /\ code = "too_large" => n > MaxStdin

(* After a late read nothing but the clock is asked. *)
InTime ==
  /\ overtime > 0 => late /\ pc \in {"head", "done"}
  /\ overtime <= 1

(* What may stay behind. *)
Clean == OnlyCopiesStay

IInv == TypeOK /\ Buffer /\ Ending /\ InTime /\ Clean

(***************************************************************************)
LEMMA InitInv == Init => IInv
<1> SUFFICES ASSUME Init PROVE IInv  OBVIOUS
<1> USE SizesAssumption DEF Init
<1>1. TypeOK
  <2>1. left \in SUBSET Copies  OBVIOUS
  <2>4. late \in BOOLEAN /\ closed \in BOOLEAN  BY Zenon
  <2>2. /\ pc \in {"start", "head", "poll", "room", "read", "parse", "done"}
        /\ code \in Codes
    BY DEF Codes
  <2>3. /\ cap \in 0..(MaxStdin + 1) /\ n \in 0..cap /\ held \in 0..cap
        /\ overtime \in Nat /\ sent \in 0..MaxSent
    OBVIOUS
  <2> QED  BY <2>1, <2>2, <2>3, <2>4 DEF TypeOK
<1>2. Buffer  BY DEF Buffer
<1>3. Ending  BY DEF Ending, Accepted
<1>4. InTime /\ Clean  BY DEF InTime, Clean, OnlyCopiesStay
<1> QED  BY <1>1, <1>2, <1>3, <1>4 DEF IInv

(* All that is in the buffer is wiped with it. *)
LEMMA Wiped ==
  ASSUME IInv, pc # "done", NEW copies, Release(n, copies)
  PROVE  left' = left \cup copies /\ held' = 0
<1>1. ~(n < held)  BY DEF IInv, TypeOK, Buffer
<1> QED  BY <1>1 DEF Release

(* An error leaves nothing that was not left before. *)
LEMMA FailInv ==
  ASSUME IInv, pc # "done", NEW c \in {"io", "deadline"}, Fail(c)
  PROVE  IInv'
<1>1. /\ pc' = "done" /\ code' = c /\ held' = 0 /\ left' = left
      /\ UNCHANGED <<cap, n, late, overtime, sent, closed>>
  <2>1. left' = left \cup {} /\ held' = 0  BY Wiped DEF Fail
  <2> QED  BY <2>1 DEF Fail, timeVars, pipeVars
<1>2. code = "none"  BY DEF IInv, Ending
<1>3. TypeOK'  BY <1>1, SizesAssumption DEF IInv, TypeOK, Codes
<1>4. Buffer' /\ Ending' /\ InTime'
  BY <1>1, SizesAssumption DEF IInv, TypeOK, Buffer, Ending, Accepted, InTime
<1>5. Clean'  BY <1>1 DEF IInv, Clean, OnlyCopiesStay
<1> QED  BY <1>3, <1>4, <1>5 DEF IInv

(* A step that leaves no copy and takes no byte back. *)
LEMMA StaysClean ==
  ASSUME IInv, pc # "done", UNCHANGED left, sent' \in Nat, sent' >= sent
  PROVE  Clean'
<1>1. "parser" \notin left /\ "block" \notin left
  BY DEF IInv, Clean, OnlyCopiesStay
<1>2. "outgrown" \in left => sent >= FirstCap  BY DEF IInv, Clean, OnlyCopiesStay
<1> QED
  BY <1>1, <1>2, SizesAssumption DEF Clean, OnlyCopiesStay, IInv, TypeOK

LEMMA NextInv == IInv /\ [Next]_vars => IInv'
<1> USE SizesAssumption
<1> USE DEF TypeOK, Codes, Buffer, Ending, Accepted, InTime, memVars, timeVars,
    pipeVars, Goto
<1> SUFFICES ASSUME IInv, [Next]_vars PROVE IInv'  OBVIOUS
<1>0. TypeOK /\ Buffer /\ Ending /\ InTime  BY DEF IInv
<1>a. ASSUME TypeOK', Buffer', Ending', InTime', pc # "done", UNCHANGED left, sent' >= sent
      PROVE  IInv'
  <2>1. Clean'  BY <1>a, StaysClean
  <2> QED  BY <1>a, <2>1 DEF IInv
<1>1. CASE Start
  <2>1. CASE Fail("io")  BY <1>1, <2>1, FailInv DEF Start
  <2>2. CASE cap' = FirstCap /\ pc' = "head"  BY <1>0, <1>1, <1>a, <2>2 DEF Start, Fail
  <2> QED  BY <1>1, <2>1, <2>2 DEF Start
<1>2. CASE Head
  <2>1. CASE Fail("io")  BY <1>2, <2>1, FailInv DEF Head
  <2>2. CASE late /\ Fail("deadline")  BY <1>2, <2>2, FailInv DEF Head
  <2>3. CASE ~late /\ Goto("poll")  BY <1>0, <1>2, <1>a, <2>3 DEF Head
  <2> QED  BY <1>2, <2>1, <2>2, <2>3 DEF Head
<1>3. CASE PollReady  BY <1>0, <1>3, <1>a DEF PollReady
<1>4. CASE PollExpires \/ PollFails \/ ReadFails
  BY <1>4, FailInv DEF PollExpires, PollFails, ReadFails
<1>5. CASE Room
  <2>1. CASE n < cap  BY <1>0, <1>5, <1>a, <2>1 DEF Room
  <2>2. CASE n = cap /\ Fail("io")  BY <1>5, <2>2, FailInv DEF Room
  <2>3. CASE n = cap /\ cap' = Min({2 * cap, MaxStdin + 1}) /\ pc' = "read"
    <3>1. cap \in Int /\ MaxStdin \in Int /\ 1 <= cap /\ cap <= MaxStdin
      BY <1>0, <1>5, <2>3 DEF Room
    <3>2. cap' \in {2 * cap, MaxStdin + 1} /\ cap' <= 2 * cap /\ cap' <= MaxStdin + 1
      BY <2>3, <3>1, MinOfTwo
    <3>3. cap < cap' /\ cap' \in 0..(MaxStdin + 1)  BY <3>1, <3>2
    <3>4. PICK moved \in {{}, {"outgrown"}} : left' = left \cup moved
      BY <1>5, <2>3 DEF Room, Fail
    <3>5. /\ pc = "room" /\ pc' = "read"
          /\ UNCHANGED <<code, n, held, late, overtime, sent, closed>>
      BY <1>5, <2>3 DEF Room, Fail
    <3>6. left' \in SUBSET Copies
      <4> USE DEF Copies
      <4> QED  BY <1>0, <3>4
    <3>7. sent >= FirstCap  BY <1>0, <2>3, <3>5
    <3>8. Clean'
      <4>1. "block" \notin left /\ "parser" \notin left
        BY <3>5 DEF IInv, Clean, OnlyCopiesStay
      <4>2. "block" \notin left' /\ "parser" \notin left'  BY <3>4, <4>1
      <4> QED  BY <3>5, <3>7, <4>2 DEF Clean, OnlyCopiesStay
    <3>9. TypeOK'  BY <1>0, <3>3, <3>5, <3>6
    <3>10. Buffer' /\ Ending' /\ InTime'  BY <1>0, <2>3, <3>1, <3>3, <3>5
    <3> QED  BY <3>8, <3>9, <3>10 DEF IInv
  <2> QED  BY <1>5, <2>1, <2>2, <2>3 DEF Room
<1>6. CASE ReadSome
  <2> DEFINE room == Min({cap - n, sent - n})
  <2>1. room <= cap - n /\ room <= sent - n /\ room \in {cap - n, sent - n}
    <3>1. cap - n \in Int /\ sent - n \in Int  BY <1>0
    <3> QED  BY <3>1, MinOfTwo, Zenon
  <2>2. PICK k \in 1..room :
          /\ n' = n + k
          /\ IF n' > MaxStdin
             THEN /\ pc' = "done" /\ code' = "too_large"
                  /\ left' = left \cup (IF n' < held + k THEN {"block"} ELSE {})
                  /\ held' = 0
             ELSE /\ pc' = "head" /\ held' = held + k
                  /\ UNCHANGED <<code, left>>
    BY <1>6 DEF ReadSome
  <2>3. /\ pc = "read" /\ overtime' = overtime + (IF late THEN 1 ELSE 0)
        /\ UNCHANGED <<cap, late, sent, closed>>
    BY <1>6 DEF ReadSome
  <2>4. k \in Nat /\ k >= 1 /\ k <= cap - n /\ k <= sent - n
    <3> HIDE DEF room
    <3> QED  BY <1>0, <2>1, <2>2
  <2>5. overtime = 0  BY <1>0, <2>3
  <2>6. overtime' \in Nat /\ overtime' <= 1 /\ (overtime' > 0 => late')  BY <2>3, <2>5
  <2>7. ~(n' < held + k)  BY <1>0, <2>2, <2>3, <2>4
  <2>8. left' = left  BY <2>2, <2>7
  <2>9. TypeOK'  BY <1>0, <2>2, <2>3, <2>4, <2>6, <2>8
  <2>10. Buffer' /\ Ending' /\ InTime'  BY <1>0, <2>2, <2>3, <2>4, <2>6
  <2> QED  BY <1>0, <1>a, <2>3, <2>8, <2>9, <2>10
<1>7. CASE ReadEof  BY <1>0, <1>7, <1>a DEF ReadEof
<1>8. CASE Parse
  <2>1. PICK copies \in SUBSET {"parser"} : Release(n, copies)  BY <1>8 DEF Parse
  <2>2. /\ pc = "parse" /\ pc' = "done"
        /\ UNCHANGED <<code, cap, n, late, overtime, sent, closed>>
    BY <1>8 DEF Parse
  <2>3. left' = left \cup copies /\ held' = 0  BY <2>1, <2>2, Wiped
  <2>4. code' = "none" /\ closed'  BY <1>0, <2>2
  <2>5. Clean'
    <3>1. "block" \notin left /\ ("outgrown" \in left => sent >= FirstCap)
      BY DEF IInv, Clean, OnlyCopiesStay
    <3>2. "block" \notin left' /\ ("outgrown" \in left' => sent >= FirstCap)
      BY <2>3, <3>1
    <3> QED  BY <2>2, <2>4, <3>2 DEF Clean, OnlyCopiesStay
  <2>6. left' \in SUBSET Copies
    <3> USE DEF Copies
    <3> QED  BY <1>0, <2>1, <2>3
  <2>7. TypeOK'  BY <1>0, <2>2, <2>3, <2>6
  <2>8. Buffer' /\ Ending' /\ InTime'  BY <1>0, <2>2, <2>3
  <2> QED  BY <2>5, <2>7, <2>8 DEF IInv
<1>9. CASE Deadline  BY <1>0, <1>9, <1>a DEF Deadline
<1>10. CASE CallerWrites
  <2>1. /\ ~closed /\ sent < MaxSent /\ sent' = sent + 1
        /\ UNCHANGED <<pc, code, cap, n, held, left, late, overtime, closed>>
    BY <1>10 DEF CallerWrites
  <2>2. TypeOK' /\ Buffer' /\ Ending' /\ InTime'  BY <1>0, <2>1
  <2>3. Clean'  BY <1>0, <2>1 DEF IInv, Clean, OnlyCopiesStay
  <2> QED  BY <2>2, <2>3 DEF IInv
<1>11. CASE CallerCloses
  <2>1. closed' = TRUE /\ UNCHANGED <<pc, code, cap, n, held, left, late, overtime, sent>>
    BY <1>11 DEF CallerCloses
  <2>2. TypeOK' /\ Buffer' /\ Ending' /\ InTime'  BY <1>0, <2>1
  <2>3. Clean'  BY <2>1 DEF IInv, Clean, OnlyCopiesStay
  <2> QED  BY <2>2, <2>3 DEF IInv
<1>12. CASE Done \/ UNCHANGED vars
  <2>1. UNCHANGED <<pc, code, cap, n, held, left, late, overtime, sent, closed>>
    BY <1>12 DEF Done, vars
  <2>2. TypeOK' /\ Buffer' /\ Ending' /\ InTime'  BY <1>0, <2>1
  <2>3. Clean'  BY <2>1 DEF IInv, Clean, OnlyCopiesStay
  <2> QED  BY <2>2, <2>3 DEF IInv
<1> QED
  BY <1>1, <1>2, <1>3, <1>4, <1>5, <1>6, <1>7, <1>8, <1>9, <1>10, <1>11, <1>12
     DEF Next, CallStep

(* Every reachable state of the reader satisfies the inductive invariant.    *)
THEOREM Inductive == Spec => []IInv
<1>1. Spec => Init /\ [][Next]_vars  BY DEF Spec
<1> QED  BY <1>1, InitInv, NextInv, PTL

(* The buffer is never written past its room, whatever the sizes.            *)
THEOREM TypeCorrect == Spec => []TypeOK
<1>1. IInv => TypeOK  BY DEF IInv
<1> QED  BY <1>1, Inductive, PTL

(* What the parser gets is everything the caller wrote, and within the cap.  *)
THEOREM AcceptedRequestsAreWhole == Spec => []AcceptedIsWhole
<1>1. IInv => AcceptedIsWhole  BY DEF IInv, Ending, AcceptedIsWhole
<1> QED  BY <1>1, Inductive, PTL

(* A request is too large only when it is larger than the cap.               *)
THEOREM TooLargeIsNoGuess == Spec => []TooLargeIsTrue
<1>1. IInv => TooLargeIsTrue
  BY SizesAssumption DEF IInv, TypeOK, Buffer, Ending, TooLargeIsTrue
<1> QED  BY <1>1, Inductive, PTL

(* Past the deadline at most the one read already decided upon is made.      *)
THEOREM DeadlineIsAbsolute == Spec => []AtMostOneLateRead
<1>1. IInv => AtMostOneLateRead  BY DEF IInv, InTime, AtMostOneLateRead
<1> QED  BY <1>1, Inductive, PTL

(* Whatever realloc moves and the parser copies, the buffer itself is wiped  *)
(* on every path, and nothing is left of a short request that never reached  *)
(* the parser.                                                               *)
THEOREM BufferIsWiped == Spec => []OnlyCopiesStay
<1>1. IInv => OnlyCopiesStay  BY DEF IInv, Clean
<1> QED  BY <1>1, Inductive, PTL
=================================================================================
