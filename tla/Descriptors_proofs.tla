--------------------------- MODULE Descriptors_proofs ---------------------------
(***************************************************************************)
(* The inductive invariant of Descriptors and the theorems that rest on it:*)
(* for a table of any size and any inherited descriptors.                  *)
(***************************************************************************)
EXTENDS Descriptors, NumberLemmas, FiniteSetTheorems

Inside == {"read", "scrub", "stdin", "cloexec", "run", "running", "emit", "write",
           "unmask"}

(* The standard three: they stay open, so no new descriptor ever takes their *)
(* place.                                                                    *)
Standard ==
  /\ tab[2] = "stderr"
  /\ pc = "start" => tab[1] = "result"
  /\ pc \in Inside => tab[1] = "stderr"
  /\ pc \in {"cloexec", "run", "running"} => tab[0] = "null"

Kept == pc \in Inside => rfd \in 3..Last /\ tab[rfd] = "result" /\ rfd \in cloexec

(* Above the standard three, what an exec would keep was inherited.          *)
Inherited == \A fd \in 3..Last : tab[fd] \in {Nothing, "stray"} \/ fd \in cloexec

(* What the clean-up has reached: nothing but the standard three crosses an  *)
(* exec once the effect runs, unless the listing was cut short.              *)
Cleaned ==
  /\ pc \in {"stdin", "cloexec", "run", "running"} => env = "clean"
  /\ pc \in {"run", "running"} /\ ~cut =>
       \A fd \in 3..Last : tab[fd] # Nothing => fd \in cloexec

(* No child is started before the clean-up is over. *)
Isolated ==
  /\ ChildIsIsolated
  /\ pc = "running" => childEnv # "none"
  /\ pc \in {"start", "read", "scrub", "stdin", "cloexec", "run"} => childEnv = "none"

(* The loop's count is what the caller's pipe took, and a return code of 0   *)
(* after the loop is all of it.                                              *)
Reported ==
  /\ pc # "done" => exit = -1
  /\ pc \in Inside \cup {"start"} => got = off
  /\ pc = "write" => sigpipe = "ignored"
  /\ pc = "unmask" /\ rc = 0 => off = FrameSize
  /\ ZeroIsDelivered

Tidy == Standard /\ Kept /\ Inherited /\ Cleaned

IInv == TypeOK /\ Tidy /\ Isolated /\ OnlyTheFrame /\ Reported

-----------------------------------------------------------------------------
(* The kernel gives out a descriptor that is not one of the open ones.       *)
LEMMA LowestIsFree ==
  ASSUME NEW t \in [Fds -> Files \cup {Nothing}], Free(t) # {}
  PROVE  Lowest(t) \in Fds /\ t[Lowest(t)] = Nothing
<1>1. Free(t) \in SUBSET Nat  BY LastAssumption DEF Free, Fds
<1>2. Lowest(t) \in Free(t)  BY <1>1, MinIsLeast DEF Lowest
<1> QED  BY <1>2 DEF Free

(* While the standard three are open, such a descriptor is above them, and   *)
(* an exec would keep it.                                                    *)
LEMMA NewIsAbove ==
  ASSUME TypeOK, NEW t \in [Fds -> Files \cup {Nothing}], Free(t) # {},
         \A fd \in Fds : tab[fd] # Nothing => t[fd] # Nothing
  PROVE  /\ Lowest(t) \in 3..Last /\ t[Lowest(t)] = Nothing
         /\ Lowest(t) \notin cloexec
<1>1. Lowest(t) \in Fds /\ t[Lowest(t)] = Nothing  BY LowestIsFree
<1>2. Lowest(t) \notin cloexec \cup {0, 1, 2}  BY <1>1 DEF TypeOK
<1> QED  BY <1>1, <1>2, LastAssumption DEF Fds

LEMMA InitInv == Init => IInv
<1> SUFFICES ASSUME Init PROVE IInv  OBVIOUS
<1>1. PICK strays \in SUBSET (3..Last) :
        /\ tab = [fd \in Fds |-> CASE fd = 0 -> "request"
                                   [] fd = 1 -> "result"
                                   [] fd = 2 -> "stderr"
                                   [] fd \in strays -> "stray"
                                   [] OTHER -> Nothing]
        /\ cloexec \in SUBSET strays
  BY DEF Init
<1>2. 0 \in Fds /\ 1 \in Fds /\ 2 \in Fds  BY LastAssumption DEF Fds
<1>3. tab[0] = "request" /\ tab[1] = "result" /\ tab[2] = "stderr"  BY <1>1, <1>2
<1>4. \A fd \in Fds : fd \in strays => tab[fd] = "stray"
  BY <1>1, LastAssumption DEF Fds
<1>5. tab \in [Fds -> Files \cup {Nothing}]  BY <1>1 DEF Files, Nothing
<1>6. TypeOK
  <2>1. NoTable \in [Fds -> Files \cup {Nothing}]  BY DEF NoTable
  <2>2. \A fd \in Fds : fd \in cloexec \cup {0, 1, 2} => tab[fd] # Nothing
    BY <1>1, <1>3, <1>4 DEF Nothing
  <2>3. OutType  BY FrameAssumption DEF Init, OutType
  <2> QED  BY <1>1, <1>5, <2>1, <2>2, <2>3 DEF Init, TypeOK
<1>7. Tidy
  <2>1. Inherited  BY <1>1, LastAssumption DEF Inherited, Fds
  <2> QED  BY <1>3, <2>1 DEF Init, Tidy, Standard, Kept, Cleaned, Inside
<1>8. Isolated /\ OnlyTheFrame /\ Reported
  BY FrameAssumption DEF Init, Isolated, ChildIsIsolated, OnlyTheFrame, Reported,
     ZeroIsDelivered, Inside
<1> QED  BY <1>6, <1>7, <1>8 DEF IInv

(* What a child starts with, given a payload or not.                         *)
LEMMA ChildTable ==
  ASSUME IInv, RunChild
  PROVE  /\ child' \in [Fds -> Files \cup {Nothing}]
         /\ child'[0] \in {"null", "payload"}
         /\ child'[1] = "stderr" /\ child'[2] = "stderr"
         /\ \A fd \in 3..Last : child'[fd] = Nothing \/ (cut /\ child'[fd] = "stray")
<1>1. /\ tab \in [Fds -> Files \cup {Nothing}] /\ cloexec \in SUBSET (3..Last)
      /\ tab[0] = "null" /\ tab[1] = "stderr" /\ tab[2] = "stderr"
      /\ \A fd \in 3..Last : fd \notin cloexec =>
           tab[fd] = Nothing \/ (cut /\ tab[fd] = "stray")
      /\ pc = "run"
  BY DEF RunChild, IInv, Tidy, TypeOK, Standard, Cleaned, Inherited, Inside
<1>2. /\ 0 \in Fds /\ 1 \in Fds /\ 2 \in Fds /\ 3..Last \subseteq Fds
      /\ 0 \notin cloexec /\ 1 \notin cloexec /\ 2 \notin cloexec
  BY <1>1, LastAssumption DEF Fds
<1>3. CASE child' = AfterExec(tab)  BY <1>1, <1>2, <1>3 DEF AfterExec
<1>4. CASE child' # AfterExec(tab)
  <2> DEFINE in0 == Lowest(tab)
             one == [tab EXCEPT ![in0] = "payload"]
             in1 == Lowest(one)
             piped == [tab EXCEPT ![in0] = "payload", ![in1] = "feed"]
             given == [piped EXCEPT ![0] = piped[in0], ![in0] = Nothing, ![in1] = Nothing]
  <2>1. Cardinality(Free(tab)) >= 2 /\ child' = AfterExec(given)  BY <1>4 DEF RunChild
  <2>2. Free(tab) # {}  BY <2>1, FS_EmptySet
  <2>3. in0 \in 3..Last /\ tab[in0] = Nothing  BY <1>1, <2>2, NewIsAbove DEF IInv
  <2>4. Free(one) # {}
    <3>1. Free(tab) # {in0}
      <4>1. Cardinality({in0}) = 1  BY FS_Singleton
      <4> HIDE DEF in0
      <4> QED  BY <2>1, <4>1
    <3>2. PICK fd \in Free(tab) : fd # in0  BY <2>2, <3>1
    <3> QED  BY <1>1, <1>2, <2>3, <3>2 DEF Free
  <2>5. one \in [Fds -> Files \cup {Nothing}]
        /\ \A fd \in Fds : tab[fd] # Nothing => one[fd] # Nothing
    BY <1>1, <1>2, <2>3 DEF Files, Nothing
  <2>6. in1 \in 3..Last /\ one[in1] = Nothing
    <3> HIDE DEF one
    <3> QED  BY <1>1, <2>4, <2>5, NewIsAbove DEF IInv
  <2>7. in0 # in1  BY <1>1, <1>2, <2>3, <2>6 DEF Nothing
  <2> HIDE DEF in0, in1
  <2>8. /\ given \in [Fds -> Files \cup {Nothing}]
        /\ given[0] = "payload" /\ given[1] = "stderr" /\ given[2] = "stderr"
        /\ given[in0] = Nothing /\ given[in1] = Nothing
        /\ \A fd \in 3..Last : fd \notin {in0, in1} => given[fd] = tab[fd]
    BY <1>1, <1>2, <2>3, <2>6, <2>7 DEF Files
  <2> HIDE DEF given
  <2> QED  BY <1>1, <1>2, <2>1, <2>8 DEF AfterExec
<1> QED  BY <1>3, <1>4

(* Every step of the helper, of the kernel and of the caller keeps it.       *)
LEMMA NextInv == IInv /\ [Next]_vars => IInv'
<1> SUFFICES ASSUME IInv, [Next]_vars PROVE IInv'  OBVIOUS
<1> USE DEF IInv
<1>0. 0 \in Fds /\ 1 \in Fds /\ 2 \in Fds /\ 3..Last \subseteq Fds
  BY LastAssumption DEF Fds
(* A step that leaves the frame alone. *)
<1>a. ASSUME UNCHANGED <<st, outVars, said, exit>>, pc \in Inside \cup {"start"},
             pc' \in Inside \ {"write", "unmask"}
      PROVE  OutType' /\ OnlyTheFrame' /\ Reported'
  BY <1>a DEF TypeOK, OutType, outVars, OnlyTheFrame, Reported, ZeroIsDelivered, Inside
<1>1. CASE OpenChannel
  <2>1. CASE pc' = "done" /\ exit' = 1 /\ UNCHANGED <<tab, cloexec, rfd>>
    BY <1>1, <2>1 DEF OpenChannel, TypeOK, OutType, outVars, Tidy, Standard, Kept,
       Inherited, Cleaned, Isolated, ChildIsIsolated, OnlyTheFrame, Reported,
       ZeroIsDelivered, Inside
  <2>2. CASE /\ Free(tab) # {}
             /\ rfd' = Lowest(tab)
             /\ tab' = [tab EXCEPT ![rfd'] = tab[1], ![1] = tab[2]]
             /\ cloexec' = (cloexec \cup {rfd'}) \ {1}
             /\ pc' = "read" /\ UNCHANGED exit
    <3>1. pc = "start" /\ UNCHANGED <<env, st, outVars, cut, said, child, childEnv>>
      BY <1>1 DEF OpenChannel
    <3>2. rfd' \in 3..Last /\ tab[rfd'] = Nothing
      BY <2>2, NewIsAbove DEF TypeOK
    <3>3. tab \in [Fds -> Files \cup {Nothing}] /\ tab[1] = "result" /\ tab[2] = "stderr"
      BY <3>1 DEF TypeOK, Tidy, Standard
    <3>4. /\ tab' \in [Fds -> Files \cup {Nothing}]
          /\ tab'[rfd'] = "result" /\ tab'[1] = "stderr" /\ tab'[2] = "stderr"
          /\ \A fd \in Fds : fd \notin {1, rfd'} => tab'[fd] = tab[fd]
      BY <1>0, <2>2, <3>2, <3>3 DEF Files
    <3>5. cloexec' \in SUBSET (3..Last) /\ rfd' \in cloexec' /\ cloexec \subseteq cloexec'
      <4>1. rfd' \in cloexec' /\ cloexec' \subseteq cloexec \cup {rfd'}  BY <2>2, <3>2
      <4>2. cloexec \subseteq 3..Last  BY DEF TypeOK
      <4> QED  BY <2>2, <3>2, <4>1, <4>2
    <3>6. OutType' /\ OnlyTheFrame' /\ Reported'
      BY <1>a, <2>2, <3>1 DEF Inside
    <3>7. TypeOK'
      BY <2>2, <3>1, <3>2, <3>3, <3>4, <3>5, <3>6, <1>0 DEF TypeOK, Nothing
    <3>8. Inherited'
      <4> SUFFICES ASSUME NEW fd \in 3..Last
                   PROVE  tab'[fd] \in {Nothing, "stray"} \/ fd \in cloexec'
        BY DEF Inherited
      <4>1. CASE fd = rfd'  BY <3>5, <4>1
      <4>2. CASE fd # rfd'
        BY <1>0, <3>4, <3>5, <4>2 DEF Tidy, Inherited
      <4> QED  BY <4>1, <4>2
    <3>9. Tidy'
      BY <2>2, <3>1, <3>2, <3>4, <3>5, <3>8 DEF Tidy, Standard, Kept, Cleaned, Inside
    <3>10. Isolated'
      BY <2>2, <3>1 DEF Isolated, ChildIsIsolated
    <3> QED  BY <3>6, <3>7, <3>9, <3>10
  <2> QED  BY <1>1, <2>1, <2>2 DEF OpenChannel
<1>2. CASE ReadRequest \/ Scrub
  <2>1. OutType' /\ OnlyTheFrame' /\ Reported'
    BY <1>2, <1>a DEF ReadRequest, Scrub, GiveUp, Inside
  <2> QED
    BY <1>2, <2>1 DEF ReadRequest, Scrub, GiveUp, TypeOK, Tidy, Standard, Kept, Inherited,
       Cleaned, Isolated, ChildIsIsolated, Inside
<1>3. CASE NullStdin
  <2>1. /\ pc = "stdin" /\ tab' \in {tab, [tab EXCEPT ![0] = "null"]}
        /\ cloexec' \in {cloexec, cloexec \ {0}} /\ UNCHANGED <<env, outVars, cut>>
        /\ UNCHANGED <<rfd, st, said, exit, child, childEnv>>
        /\ \/ pc' = "emit"
           \/ pc' = "cloexec" /\ tab' = [tab EXCEPT ![0] = "null"]
    BY <1>3 DEF NullStdin, GiveUp
  <2>2. /\ tab' \in [Fds -> Files \cup {Nothing}] /\ cloexec' = cloexec
        /\ \A fd \in Fds : fd # 0 => tab'[fd] = tab[fd]
        /\ tab'[0] # Nothing
        /\ pc' = "cloexec" => tab'[0] = "null"
    BY <1>0, <2>1 DEF TypeOK, Files, Nothing
  <2>3. OutType' /\ OnlyTheFrame' /\ Reported'  BY <1>a, <2>1 DEF Inside
  <2>4. TypeOK'  BY <2>1, <2>2, <2>3 DEF TypeOK
  <2>5. Tidy'
    BY <1>0, <2>1, <2>2 DEF Tidy, Standard, Kept, Inherited, Cleaned, Inside
  <2>6. Isolated'
    BY <2>1 DEF Isolated, ChildIsIsolated
  <2> QED  BY <2>3, <2>4, <2>5, <2>6
<1>4. CASE CloexecFrom
  <2> DEFINE open == {fd \in 3..Last : tab[fd] # Nothing}
  <2>1. /\ pc = "cloexec"
        /\ UNCHANGED <<tab, env, rfd, st, outVars, said, exit, child, childEnv>>
        /\ \E marked \in SUBSET open : cloexec' = cloexec \cup marked
        /\ \/ pc' = "emit" /\ UNCHANGED cut
           \/ pc' = "run" /\ cut' = ~(open \subseteq cloexec')
    BY <1>4 DEF CloexecFrom, GiveUp
  <2>2. cloexec' \in SUBSET (3..Last) /\ cloexec \subseteq cloexec'
        /\ \A fd \in cloexec' : tab[fd] # Nothing
    <3>1. PICK marked \in SUBSET open : cloexec' = cloexec \cup marked  BY <2>1
    <3> QED  BY <1>0, <3>1 DEF TypeOK
  <2>3. OutType' /\ OnlyTheFrame' /\ Reported'  BY <1>a, <2>1 DEF Inside
  <2>4. TypeOK'
    <3>1. \A fd \in Fds : fd \in cloexec' \cup {0, 1, 2} => tab'[fd] # Nothing
      BY <2>1, <2>2 DEF TypeOK
    <3>2. cut' \in BOOLEAN  BY <2>1 DEF TypeOK
    <3> QED  BY <2>1, <2>2, <2>3, <3>1, <3>2 DEF TypeOK
  <2>5. Cleaned'
    <3>1. CASE pc' = "emit"  BY <2>1, <3>1 DEF Cleaned
    <3>2. CASE pc' = "run"
      <4>1. cut' = ~(open \subseteq cloexec')  BY <2>1, <3>2
      <4> QED  BY <2>1, <3>2, <4>1 DEF Tidy, Cleaned
    <3> QED  BY <2>1, <3>1, <3>2
  <2>6. Tidy'
    BY <2>1, <2>2, <2>5 DEF Tidy, Standard, Kept, Inherited, Inside
  <2>7. Isolated'
    BY <2>1 DEF Isolated, ChildIsIsolated
  <2> QED  BY <2>3, <2>4, <2>6, <2>7
<1>5. CASE RunChild
  <2>1. /\ child' \in [Fds -> Files \cup {Nothing}]
        /\ child'[0] \in {"null", "payload"}
        /\ child'[1] = "stderr" /\ child'[2] = "stderr"
        /\ \A fd \in 3..Last : child'[fd] = Nothing \/ (cut /\ child'[fd] = "stray")
    BY <1>5, ChildTable
  <2>2. /\ pc = "run" /\ pc' = "running" /\ childEnv' = env
        /\ UNCHANGED <<tab, cloexec, env, rfd, st, outVars, cut, said, exit>>
    BY <1>5 DEF RunChild
  <2>3. OutType' /\ OnlyTheFrame' /\ Reported'  BY <1>a, <2>2 DEF Inside
  <2>4. TypeOK' /\ Tidy'
    BY <2>1, <2>2, <2>3 DEF TypeOK, Tidy, Standard, Kept, Inherited, Cleaned, Inside
  <2>5. childEnv' = "clean"  BY <2>2 DEF Tidy, Cleaned
  <2>6. Isolated'  BY <2>1, <2>2, <2>5 DEF Isolated, ChildIsIsolated
  <2> QED  BY <2>3, <2>4, <2>6
<1>6. CASE Chatter
  <2>1. /\ pc \in {"run", "running"}
        /\ UNCHANGED <<pc, tab, cloexec, env, rfd, st, outVars, cut, exit, child, childEnv>>
    BY <1>6 DEF Chatter
  <2>2. PICK t \in {tab} \cup (IF pc = "running" THEN {child} ELSE {}), fd \in {1, 2} :
          said' = said \cup ({t[fd]} \ {Nothing})
    BY <1>6 DEF Chatter
  <2>3. t[fd] = "stderr"
    BY <2>1, <2>2 DEF Tidy, Standard, Isolated, ChildIsIsolated, Inside
  <2>4. said' = said \cup {"stderr"}  BY <2>2, <2>3 DEF Nothing
  <2>5. Tidy' /\ Isolated' /\ Reported'
    BY <2>1 DEF Tidy, Standard, Kept, Inherited, Cleaned, Isolated, ChildIsIsolated,
       Reported, ZeroIsDelivered, Inside, outVars
  <2>6. TypeOK' /\ OnlyTheFrame'
    BY <2>1, <2>4 DEF TypeOK, OutType, outVars, Files, OnlyTheFrame
  <2> QED  BY <2>5, <2>6
(* From here on the table, the clean-up and the child are left alone. *)
<1>b. ASSUME UNCHANGED <<tab, cloexec, env, rfd, cut, said, child, childEnv>>,
             pc \in Inside, pc' \in {"emit", "write", "unmask", "done", "killed"}
      PROVE  Tidy' /\ Isolated' /\ OnlyTheFrame'
  BY <1>b DEF Tidy, Standard, Kept, Inherited, Cleaned, Isolated, ChildIsIsolated,
     OnlyTheFrame, Inside
<1>7. CASE EffectEnds
  <2>1. Tidy' /\ Isolated' /\ OnlyTheFrame'  BY <1>7, <1>b DEF EffectEnds, Inside
  <2> QED
    BY <1>7, <2>1 DEF EffectEnds, TypeOK, OutType, outVars, Reported, ZeroIsDelivered, Inside
<1>8. CASE Mask
  <2>1. Tidy' /\ Isolated' /\ OnlyTheFrame'  BY <1>8, <1>b DEF Mask, Inside
  <2> QED
    BY <1>8, <2>1 DEF Mask, TypeOK, OutType, Reported, ZeroIsDelivered, Inside
<1>9. CASE Write
  <2>1. PICK k \in 1..(FrameSize - off) : off' = off + k /\ Reaches(k)
    BY <1>9 DEF Write
  <2>2. /\ pc = "write" /\ off < FrameSize
        /\ UNCHANGED <<pc, tab, cloexec, env, rfd, st, rc, reader, sigpipe, old, cut>>
        /\ UNCHANGED <<said, exit, child, childEnv>>
    BY <1>9 DEF Write
  <2>3. Tidy' /\ Isolated' /\ OnlyTheFrame'  BY <2>2, <1>b DEF Inside
  <2>4. off \in 0..FrameSize /\ got = off /\ tab[rfd] = "result"
    BY <2>2 DEF TypeOK, OutType, Reported, Tidy, Kept, Inside
  <2>5. off' \in 0..FrameSize /\ got' = off'
    BY <2>1, <2>4, FrameAssumption DEF Reaches
  <2>6. TypeOK'  BY <2>2, <2>5 DEF TypeOK, OutType
  <2>7. Reported'  BY <2>2, <2>5 DEF Reported, ZeroIsDelivered
  <2> QED  BY <2>3, <2>6, <2>7
<1>10. CASE WriteBroken \/ WriteFails \/ WriteEnds
  <2>1. Tidy' /\ Isolated' /\ OnlyTheFrame'
    BY <1>10, <1>b DEF WriteBroken, WriteFails, WriteEnds, Inside
  <2>2. /\ pc = "write" /\ sigpipe = "ignored" /\ pc' = "unmask"
        /\ \/ rc' = -1
           \/ rc' = rc /\ off = FrameSize
        /\ UNCHANGED <<tab, cloexec, env, rfd, st, off, got, reader, sigpipe, old, cut>>
        /\ UNCHANGED <<said, exit, child, childEnv>>
    BY <1>10 DEF WriteBroken, WriteFails, WriteEnds, outVars, Reported
  <2>3. TypeOK'  BY <2>2 DEF TypeOK, OutType
  <2>4. Reported'
    BY <2>2 DEF Reported, ZeroIsDelivered, Inside, TypeOK, OutType
  <2> QED  BY <2>1, <2>3, <2>4
<1>11. CASE Unmask
  <2>1. Tidy' /\ Isolated' /\ OnlyTheFrame'  BY <1>11, <1>b DEF Unmask, Inside
  <2> QED
    BY <1>11, <2>1 DEF Unmask, TypeOK, OutType, Reported, ZeroIsDelivered, Inside
<1>12. CASE ReaderCloses
  BY <1>12 DEF ReaderCloses, TypeOK, OutType, Tidy, Standard, Kept, Inherited, Cleaned,
     Isolated, ChildIsIsolated, OnlyTheFrame, Reported, ZeroIsDelivered, Inside
<1>13. CASE Done \/ UNCHANGED vars
  <2>1. UNCHANGED vars  BY <1>13 DEF Done
  <2> QED
    BY <2>1 DEF vars, outVars, TypeOK, OutType, Tidy, Standard, Kept, Inherited, Cleaned,
       Isolated, ChildIsIsolated, OnlyTheFrame, Reported, ZeroIsDelivered, Inside
<1> QED
  BY <1>1, <1>2, <1>3, <1>4, <1>5, <1>6, <1>7, <1>8, <1>9, <1>10, <1>11, <1>12, <1>13
     DEF Next

(* Every reachable state of a helper satisfies the inductive invariant.      *)
THEOREM Inductive == Spec => []IInv
<1>1. Spec => Init /\ [][Next]_vars  BY DEF Spec
<1> QED  BY <1>1, InitInv, NextInv, PTL

(* The standard three are open throughout: no open of the program's own ever *)
(* lands on one of them.                                                     *)
THEOREM TypeCorrect == Spec => []TypeOK
<1>1. IInv => TypeOK  BY DEF IInv
<1> QED  BY <1>1, Inductive, PTL

(* However many descriptors were inherited, dpkg gets the standard three and *)
(* nothing of the helper's; something inherited only if the listing of       *)
(* /proc/self/fd was cut short (harden.c, and the file actions of spawn.c).  *)
THEOREM ChildrenAreIsolated == Spec => []ChildIsIsolated
<1>1. IInv => ChildIsIsolated  BY DEF IInv, Isolated
<1> QED  BY <1>1, Inductive, PTL

(* The caller's standard output carries nothing that libapt or dpkg print.   *)
THEOREM FrameIsAlone == Spec => []OnlyTheFrame
<1>1. IInv => OnlyTheFrame  BY DEF IInv
<1> QED  BY <1>1, Inductive, PTL

(* Exit code 0 is a success whose frame the caller's pipe took whole, in     *)
(* however many pieces, and no write kills the helper (result.c).            *)
THEOREM ZeroMeansDelivered == Spec => []ZeroIsDelivered
<1>1. IInv => ZeroIsDelivered  BY DEF IInv, Reported
<1> QED  BY <1>1, Inductive, PTL
=================================================================================
