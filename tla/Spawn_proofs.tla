------------------------------ MODULE Spawn_proofs ------------------------------
(***************************************************************************)
(* The inductive invariant of Spawn and the theorems that rest on it: for  *)
(* payloads and pipes of any size.                                         *)
(***************************************************************************)
EXTENDS Spawn, NumberLemmas

(* Before the fork there is no child, after it there is one for good. *)
Forked ==
  /\ pc \in {"start", "spawn"} => child = "none"
  /\ pc \in {"mask", "write", "written", "reap"} => child # "none"
  /\ StartedIsTrue

(* The payload is written where there is one, with the signal ignored. *)
Feeding ==
  /\ pc \in {"mask", "write", "written"} => HasInput
  /\ pc \in {"write", "written"} => sigpipe = "ignored"
  /\ Survives

(* From the end of the feeding on, deliverOk tells a whole payload. *)
Delivered == pc = "reap" /\ HasInput /\ deliverOk => off = input

Returned ==
  /\ pc = "done" <=> ret # "none"
  /\ ZeroIsEarned
  /\ ChildIsOver

IInv == TypeOK /\ Forked /\ Feeding /\ Delivered /\ Returned

-----------------------------------------------------------------------------
LEMMA InitInv == Init => IInv
<1> SUFFICES ASSUME Init PROVE IInv  OBVIOUS
<1> USE PayloadAssumption, CapacityAssumption DEF Init, NoInput, HasInput
<1>1. TypeOK
  <2>1. started \in BOOLEAN /\ deliverOk \in BOOLEAN /\ autoReap \in BOOLEAN  BY Zenon
  <2>2. off \in Nat /\ (HasInput => off <= input) /\ buffered \in 0..Capacity /\ eaten \in Nat
    OBVIOUS
  <2> QED  BY <2>1, <2>2 DEF TypeOK, Dispositions
<1>2. Forked /\ Feeding /\ Delivered /\ Returned
  BY DEF Forked, StartedIsTrue, Feeding, Survives, Delivered, Returned, ZeroIsEarned,
         ChildIsOver
<1> QED  BY <1>1, <1>2 DEF IInv

(* A write is within the payload and within the pipe.                       *)
LEMMA WriteFits ==
  ASSUME TypeOK, HasInput, Write
  PROVE  /\ off' \in Nat /\ off' <= input /\ buffered' \in 0..Capacity
         /\ pc = "write" /\ off < input
<1> USE PayloadAssumption, CapacityAssumption DEF TypeOK, NoInput, HasInput
<1>1. input \in Int /\ input - off \in Int /\ Capacity - buffered \in Int  OBVIOUS
<1> DEFINE room == Min({input - off, Capacity - buffered})
<1>2. /\ room \in {input - off, Capacity - buffered}
      /\ room <= input - off /\ room <= Capacity - buffered
  <2> HIDE DEF TypeOK
  <2> QED  BY <1>1, MinOfTwo, Zenon
<1>3. PICK k \in 1..room : off' = off + k /\ buffered' = buffered + k
  <2> HIDE DEF TypeOK
  <2> QED  BY DEF Write
<1> HIDE DEF room
<1>4. k \in Nat /\ k <= input - off /\ k <= Capacity - buffered  BY <1>1, <1>2, <1>3
<1> QED  BY <1>3, <1>4 DEF Write

LEMMA NextInv == IInv /\ [Next]_vars => IInv'
<1> USE PayloadAssumption, CapacityAssumption
<1> USE DEF IInv, TypeOK, Dispositions, Forked, StartedIsTrue, Feeding, Survives,
    Delivered, Returned, ZeroIsEarned, ChildIsOver, HasInput, NoInput,
    helperVars, pipeVars, childVars, Ended
<1> SUFFICES ASSUME IInv, [Next]_vars PROVE IInv'  OBVIOUS
<1>1. CASE Prepare  BY <1>1 DEF Prepare
<1>2. CASE SpawnChild  BY <1>2 DEF SpawnChild
<1>3. CASE SpawnFails  BY <1>3 DEF SpawnFails
<1>4. CASE Mask  BY <1>4 DEF Mask
<1>5. CASE Write
  <2>1. /\ off' \in Nat /\ off' <= input /\ buffered' \in 0..Capacity
        /\ pc = "write" /\ off < input
    <3>1. TypeOK /\ HasInput  BY <1>5 DEF Write
    <3> HIDE DEF IInv, TypeOK, HasInput
    <3> QED  BY <3>1, <1>5, WriteFits
  <2>2. UNCHANGED <<pc, input, started, ret, deliverOk, sigpipe, atStart, mine, its,
                    childVars>>
    BY <1>5 DEF Write
  <2> QED  BY <2>1, <2>2
<1>6. CASE WriteBroken  BY <1>6 DEF WriteBroken
<1>7. CASE WriteFails  BY <1>7 DEF WriteFails
<1>8. CASE WriteDone  BY <1>8 DEF WriteDone
<1>9. CASE Unmask  BY <1>9 DEF Unmask
<1>10. CASE Reap  BY <1>10 DEF Reap
<1>11. CASE ChildReads  BY <1>11 DEF ChildReads
<1>12. CASE ChildCloses  BY <1>12 DEF ChildCloses
<1>13. CASE ChildFinishes \/ ChildQuits
  <2>1. /\ child = "running" /\ child' \in {"ok", "failed"} /\ its' = {}
        /\ UNCHANGED <<pc, helperVars, buffered, mine, eaten, autoReap>>
    BY <1>13 DEF ChildFinishes, ChildQuits, Exit
  <2>2. pc # "done" /\ ret = "none"  BY <2>1
  <2> QED  BY <2>1, <2>2
<1>14. CASE Done \/ UNCHANGED vars
  <2>1. UNCHANGED vars  BY <1>14 DEF Done
  <2> QED  BY <2>1 DEF vars
<1> QED
  BY <1>1, <1>2, <1>3, <1>4, <1>5, <1>6, <1>7, <1>8, <1>9, <1>10, <1>11, <1>12, <1>13,
     <1>14 DEF Next, HelperStep, ChildWorks

(* Every reachable state of the spawner satisfies the inductive invariant.   *)
THEOREM Inductive == Spec => []IInv
<1>1. Spec => Init /\ [][Next]_vars  BY DEF Spec
<1> QED  BY <1>1, InitInv, NextInv, PTL

(* No write passes the end of the payload or overfills the pipe.             *)
THEOREM TypeCorrect == Spec => []TypeOK
<1>1. IInv => TypeOK  BY DEF IInv
<1> QED  BY <1>1, Inductive, PTL

(* A zero is given only for a child that exited 0 with its payload written.  *)
THEOREM ZerosAreEarned == Spec => []ZeroIsEarned
<1>1. IInv => ZeroIsEarned  BY DEF IInv, Returned
<1> QED  BY <1>1, Inductive, PTL

(* started tells whether there was a child, on every path.                   *)
THEOREM StartedTellsTheFork == Spec => []StartedIsTrue
<1>1. IInv => StartedIsTrue  BY DEF IInv, Forked
<1> QED  BY <1>1, Inductive, PTL

(* The call outlives its child: a helper that returns left none at work.     *)
THEOREM OutlivesItsChild == Spec => []ChildIsOver
<1>1. IInv => ChildIsOver  BY DEF IInv, Returned
<1> QED  BY <1>1, Inductive, PTL

(* A child that stops reading never kills the helper: SIGPIPE is ignored for *)
(* as long as there is a pipe to write to.                                   *)
THEOREM WritingNeverKills == Spec => []Survives
<1>1. IInv => Survives  BY DEF IInv, Feeding
<1> QED  BY <1>1, Inductive, PTL
=================================================================================
