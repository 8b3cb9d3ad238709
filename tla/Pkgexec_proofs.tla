--------------------------- MODULE Pkgexec_proofs ---------------------------
(***************************************************************************)
(* Type correctness of Pkgexec, its inductive invariant and the theorems   *)
(* that rest on it.                                                        *)
(***************************************************************************)
EXTENDS Pkgexec, TLAPS

-----------------------------------------------------------------------------
(***************************************************************************)
(* Type correctness: every variable stays in its range, and a helper that  *)
(* is past a label has what that label needs.                              *)
(***************************************************************************)
(* A launched helper has a request, and a plan from the redeem on.          *)
Launched ==
  \A h \in Helpers :
    /\ IF pc[h] = "idle" THEN chan[h].kind = "none" /\ child[h] = "none"
                         ELSE req[h] \in Requests
    /\ pc[h] \in {"redeem", "await", "gate", "refresh"} => plan[h] \in Effects

TypeInv == TypeOK /\ Launched

(* Whatever happened, settling gives a status of the closed set             *)
(* (apt_status.c).                                                          *)
LEMMA SettledStatusType ==
  ASSUME NEW h \in Helpers, NEW read
  PROVE  SettledStatus(h, read) \in Statuses
BY DEF SettledStatus, UpdateClassify, HoldClassify, TxnClassify, Statuses

(* Every verdict of the plan step has a status (the switches after          *)
(* plan_step in the effectors).                                             *)
LEMMA PlanStatusType ==
  ASSUME NEW verdict PROVE PlanStatus(verdict) \in Statuses
BY DEF PlanStatus, Statuses

USE DEF Labels, At, Goto, Finish, NoMsg, Cids

(* A machine on which no helper has run yet is well typed.                  *)
LEMMA TypeInit == Init => TypeInv
BY DEF Init, TypeInv, TypeOK, Launched, NoReq, NoEffect, NoFrame, NoVer,
     Statuses,
  ProgType, CommitType, EndType, BrokerType, LockType, ChildType, WorldType

(* Every step of a helper, of its child, of the broker and of the others    *)
(* keeps the types, and leaves a launched helper its request.               *)
LEMMA TypeNext == TypeInv /\ [Next]_vars => TypeInv'
<1> SUFFICES ASSUME TypeInv, [Next]_vars PROVE TypeInv'
  OBVIOUS
<1> USE DEF TypeInv, TypeOK
<1> USE DEF progVars, commitVars, endVars, brokerVars, lockVars, childVars,
     worldVars, indexVars
<1>1. ASSUME NEW r \in Receipts, Authorise(r) PROVE TypeInv'
  <2>1. BrokerType'
    BY <1>1, VerbsAssumption DEF Authorise, BrokerType, VersionFor, Effects,
         WorldType, Launched
  <2> QED
    BY <1>1, <2>1 DEF Authorise, ProgType, Launched, CommitType, EndType,
         LockType, ChildType, WorldType
<1>2. ASSUME NEW h \in Helpers, Launch(h) PROVE TypeInv'
  <2>1. ProgType'
    BY <1>2, VerbsAssumption DEF Launch, ProgType, Requests, BrokerType,
         Launched
  <2>2. Launched'
    BY <1>2, VerbsAssumption DEF Launch, Launched, Requests, BrokerType,
         ProgType, ChildType
  <2> QED
    BY <1>2, <2>1, <2>2 DEF Launch, CommitType, EndType, BrokerType, LockType,
         ChildType, WorldType
<1>3. ASSUME NEW h \in Helpers, NoChannel(h) PROVE TypeInv'
  <2>1. ProgType'
    BY <1>3 DEF NoChannel, ProgType
  <2>2. Launched'
    BY <1>3 DEF NoChannel, Launched, ProgType, BrokerType, ChildType
  <2> QED
    BY <1>3, <2>1, <2>2 DEF NoChannel, CommitType, EndType, BrokerType,
         LockType, ChildType, WorldType
<1>4. ASSUME NEW h \in Helpers, RejectRequest(h) PROVE TypeInv'
  <2>1. ProgType'
    BY <1>4 DEF RejectRequest, ProgType, Statuses
  <2>2. Launched'
    BY <1>4 DEF RejectRequest, Launched, Statuses, ProgType, BrokerType,
         ChildType
  <2> QED
    BY <1>4, <2>1, <2>2 DEF RejectRequest, CommitType, EndType, BrokerType,
         LockType, ChildType, WorldType
<1>5. ASSUME NEW h \in Helpers, Startup(h) PROVE TypeInv'
  <2>1. ProgType'
    BY <1>5 DEF Startup, ProgType, Requests, Statuses, Possible, Launched
  <2>2. Launched'
    BY <1>5 DEF Startup, Launched, Requests, Statuses, Possible, ProgType,
         BrokerType, ChildType
  <2> QED
    BY <1>5, <2>1, <2>2 DEF Startup, CommitType, EndType, BrokerType,
         LockType, ChildType, WorldType
<1>6. ASSUME NEW h \in Helpers, TakeLock(h) PROVE TypeInv'
  <2>1. ProgType'
    BY <1>6 DEF TakeLock, ProgType
  <2>2. Launched'
    BY <1>6 DEF TakeLock, Launched, ProgType, BrokerType, ChildType
  <2>3. LockType'
    BY <1>6 DEF TakeLock, LockType
  <2> QED
    BY <1>6, <2>1, <2>2, <2>3 DEF TakeLock, CommitType, EndType, BrokerType,
         ChildType, WorldType
<1>7. ASSUME NEW h \in Helpers, ProbeLists(h) PROVE TypeInv'
  <2>1. ProgType'
    BY <1>7 DEF ProbeLists, ProgType
  <2>2. Launched'
    BY <1>7 DEF ProbeLists, Launched, ProgType, BrokerType, ChildType
  <2> QED
    BY <1>7, <2>1, <2>2 DEF ProbeLists, CommitType, EndType, BrokerType,
         LockType, ChildType, WorldType
<1>8. ASSUME NEW h \in Helpers, LockBusy(h) PROVE TypeInv'
  <2>1. ProgType'
    BY <1>8 DEF LockBusy, ProgType, Statuses
  <2>2. Launched'
    BY <1>8 DEF LockBusy, Launched, Statuses, ProgType, BrokerType, ChildType
  <2> QED
    BY <1>8, <2>1, <2>2 DEF LockBusy, CommitType, EndType, BrokerType,
         LockType, ChildType, WorldType
<1>9. ASSUME NEW h \in Helpers, ResolveFails(h) PROVE TypeInv'
  <2>1. ProgType'
    BY <1>9 DEF ResolveFails, ProgType, Statuses, ResolveFailures
  <2>2. Launched'
    BY <1>9 DEF ResolveFails, Launched, Statuses, ResolveFailures, ProgType,
         BrokerType, ChildType
  <2> QED
    BY <1>9, <2>1, <2>2 DEF ResolveFails, CommitType, EndType, BrokerType,
         LockType, ChildType, WorldType
<1>10. ASSUME NEW h \in Helpers, RefusePlan(h) PROVE TypeInv'
  <2>1. ProgType'
    BY <1>10, PlanStatusType DEF RefusePlan, ProgType
  <2>2. Launched'
    BY <1>10, PlanStatusType DEF RefusePlan, Launched, ProgType, BrokerType,
         ChildType
  <2> QED
    BY <1>10, <2>1, <2>2 DEF RefusePlan, CommitType, EndType, BrokerType,
         LockType, ChildType, WorldType
<1>11. ASSUME NEW h \in Helpers, AcceptPlan(h) PROVE TypeInv'
  <2>1. ProgType'
    BY <1>11 DEF AcceptPlan, ProgType, Fam, Requests, Effects, VersionFor,
         WorldType, FirstCommitStep, Launched
  <2>2. Launched'
    BY <1>11 DEF AcceptPlan, Launched, Fam, Requests, Effects, VersionFor,
         WorldType, FirstCommitStep, ProgType, BrokerType, ChildType
  <2> QED
    BY <1>11, <2>1, <2>2 DEF AcceptPlan, CommitType, EndType, BrokerType,
         LockType, ChildType, WorldType
<1>12. ASSUME NEW h \in Helpers, SendRedeem(h) PROVE TypeInv'
  <2>1. ProgType'
    BY <1>12 DEF SendRedeem, ProgType
  <2>2. Launched'
    BY <1>12 DEF SendRedeem, Launched, ProgType, BrokerType, ChildType
  <2>3. BrokerType'
    BY <1>12 DEF SendRedeem, BrokerType
  <2> QED
    BY <1>12, <2>1, <2>2, <2>3 DEF SendRedeem, CommitType, EndType, LockType,
         ChildType, WorldType
<1>13. ASSUME NEW h \in Helpers, SendFails(h) PROVE TypeInv'
  <2>1. ProgType'
    BY <1>13 DEF SendFails, ProgType, AfterRedeem, CidAfterRedeem, Requests,
         Statuses, Launched
  <2>2. Launched'
    BY <1>13 DEF SendFails, Launched, AfterRedeem, CidAfterRedeem, Requests,
         Statuses, ProgType, BrokerType, ChildType
  <2> QED
    BY <1>13, <2>1, <2>2 DEF SendFails, CommitType, EndType, BrokerType,
         LockType, ChildType, WorldType
<1>14. ASSUME NEW h \in Helpers, ReceiveReply(h) PROVE TypeInv'
  <2>1. ProgType'
    BY <1>14 DEF ReceiveReply, ProgType, AfterRedeem, CidAfterRedeem,
         Requests, Statuses, Launched
  <2>2. Launched'
    BY <1>14 DEF ReceiveReply, Launched, AfterRedeem, CidAfterRedeem,
         Requests, Statuses, ProgType, BrokerType, ChildType
  <2>3. BrokerType'
    BY <1>14 DEF ReceiveReply, BrokerType, AfterRedeem, CidAfterRedeem,
         Requests, Statuses, Launched
  <2> QED
    BY <1>14, <2>1, <2>2, <2>3 DEF ReceiveReply, CommitType, EndType,
         LockType, ChildType, WorldType
<1>15. ASSUME NEW h \in Helpers, ReplyLost(h) PROVE TypeInv'
  <2>1. ProgType'
    BY <1>15 DEF ReplyLost, ProgType, AfterRedeem, CidAfterRedeem, Requests,
         Statuses, Launched
  <2>2. Launched'
    BY <1>15 DEF ReplyLost, Launched, AfterRedeem, CidAfterRedeem, Requests,
         Statuses, ProgType, BrokerType, ChildType
  <2> QED
    BY <1>15, <2>1, <2>2 DEF ReplyLost, CommitType, EndType, BrokerType,
         LockType, ChildType, WorldType
<1>16. ASSUME NEW h \in Helpers, BrokerAccepts(h) PROVE TypeInv'
  <2>1. BrokerType'
    BY <1>16 DEF BrokerAccepts, BrokerType, ProgType, Reply, Requests, Launched
  <2>2. Launched'
    BY <1>16 DEF BrokerAccepts, Launched, ProgType, Reply, Requests,
         BrokerType, ChildType
  <2> QED
    BY <1>16, <2>1, <2>2 DEF BrokerAccepts, ProgType, CommitType, EndType,
         LockType, ChildType, WorldType
<1>17. ASSUME NEW h \in Helpers, BrokerRefuses(h) PROVE TypeInv'
  <2>1. BrokerType'
    BY <1>17 DEF BrokerRefuses, BrokerType, ProgType, Reply
  <2>2. Launched'
    BY <1>17 DEF BrokerRefuses, Launched, ProgType, Reply, BrokerType,
         ChildType
  <2> QED
    BY <1>17, <2>1, <2>2 DEF BrokerRefuses, ProgType, CommitType, EndType,
         LockType, ChildType, WorldType
<1>18. ASSUME NEW h \in Helpers, BrokerFails(h) PROVE TypeInv'
  <2>1. BrokerType'
    BY <1>18 DEF BrokerFails, BrokerType, ProgType, Reply, Requests, Launched
  <2>2. Launched'
    BY <1>18 DEF BrokerFails, Launched, ProgType, Reply, Requests, BrokerType,
         ChildType
  <2> QED
    BY <1>18, <2>1, <2>2 DEF BrokerFails, ProgType, CommitType, EndType,
         LockType, ChildType, WorldType
<1>19. ASSUME NEW h \in Helpers, Gate(h) PROVE TypeInv'
  <2>1. ProgType'
    BY <1>19 DEF Gate, ProgType, FirstCommitStep
  <2>2. Launched'
    BY <1>19 DEF Gate, Launched, FirstCommitStep, ProgType, BrokerType,
         ChildType
  <2>3. CommitType'
    BY <1>19 DEF Gate, CommitType, FirstCommitStep
  <2> QED
    BY <1>19, <2>1, <2>2, <2>3 DEF Gate, EndType, BrokerType, LockType,
         ChildType, WorldType
<1>20. ASSUME NEW h \in Helpers, Fetch(h) PROVE TypeInv'
  <2>1. ProgType'
    BY <1>20 DEF Fetch, ProgType
  <2>2. Launched'
    BY <1>20 DEF Fetch, Launched, ProgType, BrokerType, ChildType
  <2> QED
    BY <1>20, <2>1, <2>2 DEF Fetch, CommitType, EndType, BrokerType, LockType,
         ChildType, WorldType
<1>21. ASSUME NEW h \in Helpers, HandOver(h) PROVE TypeInv'
  <2>1. ProgType'
    BY <1>21 DEF HandOver, ProgType
  <2>2. Launched'
    BY <1>21 DEF HandOver, Launched, ProgType, BrokerType, ChildType
  <2>3. CommitType'
    BY <1>21 DEF HandOver, CommitType
  <2>4. LockType'
    BY <1>21 DEF HandOver, LockType
  <2> QED
    BY <1>21, <2>1, <2>2, <2>3, <2>4 DEF HandOver, EndType, BrokerType,
         ChildType, WorldType
<1>22. ASSUME NEW h \in Helpers, HandOverFails(h) PROVE TypeInv'
  <2>1. ProgType'
    BY <1>22 DEF HandOverFails, ProgType
  <2>2. Launched'
    BY <1>22 DEF HandOverFails, Launched, ProgType, BrokerType, ChildType
  <2> QED
    BY <1>22, <2>1, <2>2 DEF HandOverFails, CommitType, EndType, BrokerType,
         LockType, ChildType, WorldType
<1>23. ASSUME NEW h \in Helpers, Spawn(h) PROVE TypeInv'
  <2>1. ProgType'
    BY <1>23 DEF Spawn, ProgType
  <2>2. Launched'
    BY <1>23 DEF Spawn, Launched, ProgType, BrokerType, ChildType
  <2>3. CommitType'
    BY <1>23 DEF Spawn, CommitType
  <2>4. ChildType'
    BY <1>23 DEF Spawn, ChildType
  <2> QED
    BY <1>23, <2>1, <2>2, <2>3, <2>4 DEF Spawn, EndType, BrokerType, LockType,
         WorldType
<1>24. ASSUME NEW h \in Helpers, SpawnFails(h) PROVE TypeInv'
  <2>1. ProgType'
    BY <1>24 DEF SpawnFails, ProgType
  <2>2. Launched'
    BY <1>24 DEF SpawnFails, Launched, ProgType, BrokerType, ChildType
  <2> QED
    BY <1>24, <2>1, <2>2 DEF SpawnFails, CommitType, EndType, BrokerType,
         LockType, ChildType, WorldType
<1>25. ASSUME NEW h \in Helpers, Wait(h) PROVE TypeInv'
  <2>1. ProgType'
    BY <1>25 DEF Wait, ProgType, Possible
  <2>2. Launched'
    BY <1>25 DEF Wait, Launched, Possible, ProgType, BrokerType, ChildType
  <2>3. CommitType'
    BY <1>25 DEF Wait, CommitType, Possible
  <2> QED
    BY <1>25, <2>1, <2>2, <2>3 DEF Wait, EndType, BrokerType, LockType,
         ChildType, WorldType
<1>26. ASSUME NEW h \in Helpers, Relock(h) PROVE TypeInv'
  <2>1. ProgType'
    BY <1>26 DEF Relock, ProgType, LockHandoff
  <2>2. Launched'
    BY <1>26 DEF Relock, Launched, LockHandoff, ProgType, BrokerType, ChildType
  <2>3. CommitType'
    BY <1>26 DEF Relock, CommitType, LockHandoff
  <2>4. LockType'
    BY <1>26 DEF Relock, LockType, LockHandoff
  <2> QED
    BY <1>26, <2>1, <2>2, <2>3, <2>4 DEF Relock, EndType, BrokerType,
         ChildType, WorldType
<1>27. ASSUME NEW h \in Helpers, Refresh(h) PROVE TypeInv'
  <2>1. ProgType'
    BY <1>27 DEF Refresh, ProgType, Effects, NoVer, Launched
  <2>2. Launched'
    BY <1>27 DEF Refresh, Launched, Effects, NoVer, ProgType, BrokerType,
         ChildType
  <2>3. LockType'
    BY <1>27 DEF Refresh, LockType, Effects, NoVer, Launched, ProgType
  <2>4. ChildType'
    BY <1>27 DEF Refresh, ChildType, Effects, NoVer, Launched, ProgType
  <2> QED
    BY <1>27, <2>1, <2>2, <2>3, <2>4 DEF Refresh, CommitType, EndType,
         BrokerType, WorldType
<1>28. ASSUME NEW h \in Helpers, RefreshBusy(h) PROVE TypeInv'
  <2>1. ProgType'
    BY <1>28 DEF RefreshBusy, ProgType
  <2>2. Launched'
    BY <1>28 DEF RefreshBusy, Launched, ProgType, BrokerType, ChildType
  <2> QED
    BY <1>28, <2>1, <2>2 DEF RefreshBusy, CommitType, EndType, BrokerType,
         LockType, ChildType, WorldType
<1>29. ASSUME NEW h \in Helpers, RefreshEnds(h) PROVE TypeInv'
  <2>1. ProgType'
    BY <1>29 DEF RefreshEnds, ProgType
  <2>2. Launched'
    BY <1>29 DEF RefreshEnds, Launched, ProgType, BrokerType, ChildType
  <2>3. CommitType'
    BY <1>29 DEF RefreshEnds, CommitType
  <2>4. LockType'
    BY <1>29 DEF RefreshEnds, LockType
  <2>5. ChildType'
    BY <1>29 DEF RefreshEnds, ChildType
  <2>6. WorldType'
    BY <1>29 DEF RefreshEnds, WorldType
  <2> QED
    BY <1>29, <2>1, <2>2, <2>3, <2>4, <2>5, <2>6 DEF RefreshEnds, EndType,
         BrokerType
<1>30. ASSUME NEW h \in Helpers, Settle(h) PROVE TypeInv'
  <2>1. ProgType'
    BY <1>30, SettledStatusType DEF Settle, ProgType, IssuedAfter, CommitType,
         Possible
  <2>2. Launched'
    BY <1>30, SettledStatusType DEF Settle, Launched, IssuedAfter, CommitType,
         Possible, ProgType, BrokerType, ChildType
  <2> QED
    BY <1>30, <2>1, <2>2 DEF Settle, CommitType, EndType, BrokerType,
         LockType, ChildType, WorldType
<1>31. ASSUME NEW h \in Helpers, Emit(h) PROVE TypeInv'
  <2>1. ProgType'
    BY <1>31 DEF Emit, ProgType, Frames, Possible
  <2>2. Launched'
    BY <1>31 DEF Emit, Launched, Frames, Possible, ProgType, BrokerType,
         ChildType
  <2>3. EndType'
    BY <1>31 DEF Emit, EndType, Frames, Possible, ProgType
  <2> QED
    BY <1>31, <2>1, <2>2, <2>3 DEF Emit, CommitType, BrokerType, LockType,
         ChildType, WorldType
<1>32. ASSUME NEW h \in Helpers, Exit(h) PROVE TypeInv'
  <2>1. ProgType'
    BY <1>32 DEF Exit, ProgType, ReleaseAll
  <2>2. Launched'
    BY <1>32 DEF Exit, Launched, ReleaseAll, ProgType, BrokerType, ChildType
  <2>3. EndType'
    BY <1>32 DEF Exit, EndType, ReleaseAll
  <2>4. LockType'
    BY <1>32 DEF Exit, LockType, ReleaseAll
  <2> QED
    BY <1>32, <2>1, <2>2, <2>3, <2>4 DEF Exit, CommitType, BrokerType,
         ChildType, WorldType
<1>33. ASSUME NEW h \in Helpers, Kill(h) PROVE TypeInv'
  <2>1. ProgType'
    BY <1>33 DEF Kill, ProgType, ReleaseAll
  <2>2. Launched'
    BY <1>33 DEF Kill, Launched, ReleaseAll, ProgType, BrokerType, ChildType
  <2>3. LockType'
    BY <1>33 DEF Kill, LockType, ReleaseAll
  <2> QED
    BY <1>33, <2>1, <2>2, <2>3 DEF Kill, CommitType, EndType, BrokerType,
         ChildType, WorldType
<1>34. ASSUME NEW h \in Helpers, ChildLocks(h) PROVE TypeInv'
  <2>1. LockType'
    BY <1>34 DEF ChildLocks, LockType, WorldType
  <2>2. ChildType'
    BY <1>34 DEF ChildLocks, ChildType, WorldType
  <2>3. Launched'
    BY <1>34 DEF ChildLocks, Launched, WorldType, ProgType, BrokerType,
         ChildType
  <2> QED
    BY <1>34, <2>1, <2>2, <2>3 DEF ChildLocks, ProgType, CommitType, EndType,
         BrokerType, WorldType
<1>35. ASSUME NEW h \in Helpers, ChildGivesUp(h) PROVE TypeInv'
  <2>1. ChildType'
    BY <1>35 DEF ChildGivesUp, ChildType
  <2>2. Launched'
    BY <1>35 DEF ChildGivesUp, Launched, ProgType, BrokerType, ChildType
  <2> QED
    BY <1>35, <2>1, <2>2 DEF ChildGivesUp, ProgType, CommitType, EndType,
         BrokerType, LockType, WorldType
<1>36. ASSUME NEW h \in Helpers, ChildWrites(h) PROVE TypeInv'
  <2>1. ChildType'
    BY <1>36 DEF ChildWrites, ChildType
  <2>2. WorldType'
    BY <1>36 DEF ChildWrites, WorldType
  <2> QED
    BY <1>36, <2>1, <2>2 DEF ChildWrites, ProgType, Launched, CommitType,
         EndType, BrokerType, LockType
<1>37. ASSUME NEW h \in Helpers, ChildExits(h) PROVE TypeInv'
  <2>1. LockType'
    BY <1>37 DEF ChildExits, LockType
  <2>2. ChildType'
    BY <1>37 DEF ChildExits, ChildType
  <2>3. Launched'
    BY <1>37 DEF ChildExits, Launched, ProgType, BrokerType, ChildType
  <2> QED
    BY <1>37, <2>1, <2>2, <2>3 DEF ChildExits, ProgType, CommitType, EndType,
         BrokerType, WorldType
<1>38. ASSUME OtherLocks PROVE TypeInv'
  <2>1. LockType'
    BY <1>38 DEF OtherLocks, LockType
  <2> QED
    BY <1>38, <2>1 DEF OtherLocks, ProgType, Launched, CommitType, EndType,
         BrokerType, ChildType, WorldType
<1>39. ASSUME OtherWrites PROVE TypeInv'
  <2>1. WorldType'
    BY <1>39 DEF OtherWrites, WorldType
  <2> QED
    BY <1>39, <2>1 DEF OtherWrites, ProgType, Launched, CommitType, EndType,
         BrokerType, LockType, ChildType
<1>40. ASSUME OtherUnlocks PROVE TypeInv'
  <2>1. LockType'
    BY <1>40 DEF OtherUnlocks, LockType
  <2> QED
    BY <1>40, <2>1 DEF OtherUnlocks, ProgType, Launched, CommitType, EndType,
         BrokerType, ChildType, WorldType
<1>41. ASSUME OtherLists PROVE TypeInv'
  <2>1. LockType'
    BY <1>41 DEF OtherLists, LockType
  <2> QED
    BY <1>41, <2>1 DEF OtherLists, ProgType, Launched, CommitType, EndType,
         BrokerType, ChildType, WorldType
<1>44. ASSUME OtherRefreshes PROVE TypeInv'
  <2>1. LockType'
    BY <1>44 DEF OtherRefreshes, LockType
  <2>2. WorldType'
    BY <1>44 DEF OtherRefreshes, WorldType
  <2> QED
    BY <1>44, <2>1, <2>2 DEF OtherRefreshes, ProgType, Launched, CommitType,
         EndType, BrokerType, ChildType
<1>42. ASSUME EditSources PROVE TypeInv'
  <2>1. WorldType'
    BY <1>42 DEF EditSources, WorldType
  <2> QED
    BY <1>42, <2>1 DEF EditSources, ProgType, Launched, CommitType, EndType,
         BrokerType, LockType, ChildType
<1>43. CASE UNCHANGED vars
  BY <1>43 DEF vars, ProgType, Launched, CommitType, EndType, BrokerType,
       LockType, ChildType, WorldType
<1> QED
  BY <1>1, <1>2, <1>3, <1>4, <1>5, <1>6, <1>7, <1>8, <1>9, <1>10, <1>11,
       <1>12, <1>13, <1>14, <1>15, <1>16, <1>17, <1>18, <1>19, <1>20, <1>21,
       <1>22, <1>23, <1>24, <1>25, <1>26, <1>27, <1>28, <1>29, <1>30, <1>31,
       <1>32, <1>33, <1>34, <1>35, <1>36, <1>37, <1>38, <1>39, <1>40, <1>41,
       <1>42, <1>43, <1>44 DEF Next, HelperStep, BrokerStep, ChildStep, OtherStep

(* Every variable of every helper, of the broker and of the locks stays in  *)
(* its range: a result frame is always one of the closed set that result.c  *)
(* writes, with a correlation id of the request or none.                    *)
THEOREM TypeCorrect == Spec => []TypeOK
<1>1. Spec => []TypeInv
  BY TypeInit, TypeNext, PTL DEF Spec
<1>2. TypeInv => TypeOK
  BY DEF TypeInv
<1> QED
  BY <1>1, <1>2, PTL

-----------------------------------------------------------------------------
(***************************************************************************)
(* The inductive invariant.  Each part says what being at a label means.   *)
(***************************************************************************)
PreRedeem == {"idle", "start", "lock", "resolve", "redeem"}
InCommit  == {"gate", "fetch", "unlock", "spawn", "wait", "relock", "refresh",
              "refreshing", "settle"}
OffStage  == {"emit", "exiting", "exited"}

(* The receipt of h was spent by h, for the plan h resolved. *)
Paid(h) == SpentBy(h) /\ bound[req[h].receipt] = plan[h]

(* Before the request is sent nothing of h is anywhere else. *)
Fresh ==
  \A h \in Helpers :
    /\ pc[h] # "idle" => bound[req[h].receipt] # NoEffect
    /\ pc[h] \in PreRedeem =>
         chan[h].kind = "none" /\ frame[h] = NoFrame /\ \A r \in Receipts : redeemer[r] # h
    /\ pc[h] \in PreRedeem \cup {"await", "gate", "fetch", "unlock", "spawn", "refresh"}
         => ~Started(h)

(* What a message on the connection of h says about the broker. *)
Answered ==
  \A h \in Helpers :
    /\ chan[h].kind \in {"request", "refused"} => ~SpentBy(h)
    /\ chan[h].kind = "ok" => Paid(h) /\ chan[h].cid = req[h].receipt

(* Past the gate the receipt is paid for and the correlation id is its own. *)
Admitted ==
  \A h \in Helpers : pc[h] \in InCommit =>
    /\ Paid(h) /\ req[h].cid = req[h].receipt /\ outCid[h] = req[h].cid
    /\ pc[h] # "gate" => entered[h]

(* A status of a refusal, about to be reported with the request's id. *)
Refused ==
  \A h \in Helpers :
    pc[h] = "emit" /\ outCid[h] = req[h].cid /\ status[h] \in UnspentStatuses =>
      ~SpentBy(h) /\ chan[h].kind # "request"

(* Which family is where, and what an effect under way has recorded. *)
Issuing ==
  \A h \in Helpers :
    /\ pc[h] \in {"refresh", "refreshing"} => Fam(h) = "update"
    /\ pc[h] \in {"fetch", "unlock", "spawn", "wait", "relock"} => Fam(h) # "update"
    /\ child[h] # "none" => began[h] /\ Fam(h) # "update"
    /\ ranOn[h] # NoVer /\ child[h] = "none" => Fam(h) = "update"
    /\ pc[h] \in OffStage /\ Started(h) => issued[h]
    /\ Framed(h) => pc[h] \in {"exiting", "exited", "dead"}

(* A helper at work on the database holds the frontend lock, and its child *)
(* is alive only while it waits for it.                                    *)
Locked ==
  /\ inner = Other => frontend = Other
  /\ \A h \in Helpers :
       /\ pc[h] \in {"resolve", "redeem", "await"} \cup InCommit /\ Fam(h) # "update"
            => frontend = h
       /\ frontend = h => pc[h] \notin {"idle", "start", "lock", "exited", "dead"}
       /\ child[h] \in {"spawned", "running"} => pc[h] \in {"wait", "dead"}

(* A killed helper has left a child behind. *)
Orphan == \E g \in Helpers : pc[g] = "dead" /\ child[g] # "none"

(* A plan for the database has been resolved and dpkg has not started on it. *)
Pending(h) == /\ Fam(h) # "update"
              /\ \/ pc[h] \in {"redeem", "await", "gate", "fetch", "unlock", "spawn"}
                 \/ child[h] = "spawned"

(* What was resolved is still what the database is. *)
Current == \A h \in Helpers : Pending(h) => plan[h].ver = dbVer \/ Orphan

Safe == /\ Fresh /\ Answered /\ Admitted /\ Refused /\ Issuing /\ Locked
        /\ Current /\ AuthorisedEffect /\ TrustedRefusalIsUnspent
        /\ NotIssuedIsHonest /\ PlanIsCurrent

IInv == TypeInv /\ Safe

(* Once the gate has admitted the commit, no status of the classifiers     *)
(* (apt_status.c) says that the receipt is unspent.                         *)
LEMMA EnteredMeansSpent ==
  ASSUME NEW h \in Helpers, NEW read, entered[h]
  PROVE  SettledStatus(h, read) \notin UnspentStatuses
BY DEF SettledStatus, UpdateClassify, HoldClassify, TxnClassify,
     UnspentStatuses

(* On a machine where no helper has run nothing is spent, sent or started.  *)
LEMMA SafeInit == Init => Safe
BY OwnersAssumption DEF Init, Safe, Fresh, Answered, Admitted, Refused,
     Issuing,
  Locked, Current, Pending, AuthorisedEffect, TrustedRefusalIsUnspent,
  NotIssuedIsHonest, PlanIsCurrent, Started, Framed, Trusted, NoFrame, InCommit,
  OffStage, PreRedeem

(* Every step keeps the invariant: the redeem, the gate and the hand-over   *)
(* of the inner lock are where its parts meet.                              *)
LEMMA SafeNext == IInv /\ [Next]_vars => Safe'
<1> SUFFICES ASSUME IInv, [Next]_vars PROVE Safe'
  OBVIOUS
<1> USE OwnersAssumption, CidAssumption
<1> USE DEF IInv, Safe, TypeInv, TypeOK, progVars, commitVars, endVars,
     brokerVars, lockVars, childVars, worldVars, indexVars, Fresh, Started, EndType,
     PreRedeem, Answered, Paid, SpentBy, Requests, Admitted, InCommit,
     CommitType, Refused, UnspentStatuses, Issuing, Framed, OffStage, Fam,
     Locked, LockType, Dpkg, Current, Pending, Orphan, WorldType,
     AuthorisedEffect, TrustedRefusalIsUnspent, Trusted, Frames,
     NotIssuedIsHonest, NoFrame, PlanIsCurrent, ProgType, BrokerType,
     ChildType, Launched
<1>1. ASSUME NEW r \in Receipts, Authorise(r) PROVE Safe'
  <2>1. \A h \in Helpers : pc[h] # "idle" =>
          bound'[req[h].receipt] = bound[req[h].receipt] /\ bound'[req[h].receipt] # NoEffect
    BY <1>1 DEF Authorise, Effects, NoEffect
  <2>2. /\ UNCHANGED <<pc, req, plan, outCid, status, issued, entered, began, applied>>
        /\ UNCHANGED <<frame, exit, redeemer, chan, frontend, inner, lists>>
        /\ UNCHANGED <<child, wrote, ranOn, dbVer, dbBroken, srcVer>>
    BY <1>1 DEF Authorise
  <2>3. Fresh'
    BY <2>1, <2>2
  <2>4. Answered'
    BY <2>1, <2>2
  <2>5. Admitted'
    BY <2>1, <2>2
  <2>6. Refused'
    BY <2>1, <2>2
  <2>7. Issuing'
    BY <2>1, <2>2
  <2>8. Locked'
    BY <2>1, <2>2
  <2>9. Current'
    BY <2>1, <2>2
  <2>10. AuthorisedEffect'
    BY <2>1, <2>2
  <2>11. TrustedRefusalIsUnspent'
    BY <2>1, <2>2
  <2>12. NotIssuedIsHonest'
    BY <2>1, <2>2
  <2>13. PlanIsCurrent'
    BY <2>1, <2>2
  <2> QED
    BY <2>3, <2>4, <2>5, <2>6, <2>7, <2>8, <2>9, <2>10, <2>11, <2>12, <2>13
<1>2. ASSUME NEW h \in Helpers, Launch(h) PROVE Safe'
  BY <1>2 DEF Launch
<1>3. ASSUME NEW h \in Helpers, NoChannel(h) PROVE Safe'
  BY <1>3 DEF NoChannel
<1>4. ASSUME NEW h \in Helpers, RejectRequest(h) PROVE Safe'
  BY <1>4 DEF RejectRequest
<1>5. ASSUME NEW h \in Helpers, Startup(h) PROVE Safe'
  BY <1>5 DEF Startup, Possible
<1>6. ASSUME NEW h \in Helpers, TakeLock(h) PROVE Safe'
  BY <1>6 DEF TakeLock
<1>7. ASSUME NEW h \in Helpers, ProbeLists(h) PROVE Safe'
  BY <1>7 DEF ProbeLists
<1>8. ASSUME NEW h \in Helpers, LockBusy(h) PROVE Safe'
  BY <1>8 DEF LockBusy
<1>9. ASSUME NEW h \in Helpers, ResolveFails(h) PROVE Safe'
  BY <1>9 DEF ResolveFails
<1>10. ASSUME NEW h \in Helpers, RefusePlan(h) PROVE Safe'
  BY <1>10 DEF RefusePlan
<1>11. ASSUME NEW h \in Helpers, AcceptPlan(h) PROVE Safe'
  BY <1>11 DEF AcceptPlan, VersionFor
<1>12. ASSUME NEW h \in Helpers, SendRedeem(h) PROVE Safe'
  BY <1>12 DEF SendRedeem
<1>13. ASSUME NEW h \in Helpers, SendFails(h) PROVE Safe'
  BY <1>13 DEF SendFails, AfterRedeem, CidAfterRedeem
<1>14. ASSUME NEW h \in Helpers, ReceiveReply(h) PROVE Safe'
  <2>1. Fresh'
    BY <1>14 DEF ReceiveReply, AfterRedeem, CidAfterRedeem, Redeem
  <2>2. Answered'
    BY <1>14 DEF ReceiveReply, AfterRedeem, CidAfterRedeem, Redeem
  <2>3. Admitted'
    BY <1>14 DEF ReceiveReply, AfterRedeem, CidAfterRedeem, Redeem
  <2>4. Refused'
    BY <1>14 DEF ReceiveReply, AfterRedeem, CidAfterRedeem, Redeem
  <2>5. Issuing'
    BY <1>14 DEF ReceiveReply, AfterRedeem, CidAfterRedeem, Redeem
  <2>6. Locked'
    BY <1>14 DEF ReceiveReply, AfterRedeem, CidAfterRedeem, Redeem
  <2>7. Current'
    <3>1. /\ pc[h] = "await"
          /\ \E next \in {"gate", "emit"} : pc' = [pc EXCEPT ![h] = next]
          /\ UNCHANGED <<req, plan, childVars, worldVars>>
      BY <1>14 DEF ReceiveReply, AfterRedeem
    <3>2. pc \in [Helpers -> Labels] /\ Current
      OBVIOUS
    <3> HIDE DEF IInv, TypeInv, Safe, Orphan
    <3>3. Orphan => Orphan'
      BY <3>1, <3>2 DEF Orphan
    <3> QED
      BY <3>1, <3>2, <3>3
  <2>8. AuthorisedEffect'
    BY <1>14 DEF ReceiveReply, AfterRedeem, CidAfterRedeem, Redeem
  <2>9. TrustedRefusalIsUnspent'
    BY <1>14 DEF ReceiveReply, AfterRedeem, CidAfterRedeem, Redeem
  <2>10. NotIssuedIsHonest'
    BY <1>14 DEF ReceiveReply, AfterRedeem, CidAfterRedeem, Redeem
  <2>11. PlanIsCurrent'
    BY <1>14 DEF ReceiveReply, AfterRedeem, CidAfterRedeem, Redeem
  <2> QED
    BY <2>1, <2>2, <2>3, <2>4, <2>5, <2>6, <2>7, <2>8, <2>9, <2>10, <2>11
<1>15. ASSUME NEW h \in Helpers, ReplyLost(h) PROVE Safe'
  BY <1>15 DEF ReplyLost, AfterRedeem, CidAfterRedeem
<1>16. ASSUME NEW h \in Helpers, BrokerAccepts(h) PROVE Safe'
  BY <1>16 DEF BrokerAccepts, Reply, Redeemable
<1>17. ASSUME NEW h \in Helpers, BrokerRefuses(h) PROVE Safe'
  BY <1>17 DEF BrokerRefuses, Reply, Redeemable
<1>18. ASSUME NEW h \in Helpers, BrokerFails(h) PROVE Safe'
  BY <1>18 DEF BrokerFails, Reply, Redeemable
<1>19. ASSUME NEW h \in Helpers, Gate(h) PROVE Safe'
  <2>a. pc[h] = "gate"
    BY <1>19 DEF Gate
  <2>b. req[h] \in Requests /\ outCid[h] = req[h].cid
    BY <2>a
  <2>c. req[h].cid \in Receipts
    BY <2>b
  <2>d. outCid[h] # NoCid
    BY <2>b, <2>c
  <2>e. FirstCommitStep(Fam(h)) \in {"fetch", "unlock", "refresh"}
    BY DEF FirstCommitStep
  <2>f. pc' = [pc EXCEPT ![h] = FirstCommitStep(Fam(h))]
    BY <1>19, <2>d DEF Gate
  <2>g. entered' = [entered EXCEPT ![h] = TRUE]
    BY <1>19, <2>d DEF Gate
  <2>1. Fresh'
    BY <1>19, <2>a, <2>b, <2>d, <2>e, <2>f, <2>g DEF Gate, FirstCommitStep
  <2>2. Answered'
    BY <1>19, <2>a, <2>b, <2>d, <2>e, <2>f, <2>g DEF Gate, FirstCommitStep
  <2>3. Admitted'
    BY <1>19, <2>a, <2>b, <2>d, <2>e, <2>f, <2>g DEF Gate, FirstCommitStep
  <2>4. Refused'
    BY <1>19, <2>a, <2>b, <2>d, <2>e, <2>f, <2>g DEF Gate, FirstCommitStep
  <2>5. Issuing'
    BY <1>19, <2>a, <2>b, <2>d, <2>e, <2>f, <2>g DEF Gate, FirstCommitStep
  <2>6. Locked'
    BY <1>19, <2>a, <2>b, <2>d, <2>e, <2>f, <2>g DEF Gate, FirstCommitStep
  <2>7. Current'
    BY <1>19, <2>a, <2>b, <2>d, <2>e, <2>f, <2>g DEF Gate, FirstCommitStep
  <2>8. AuthorisedEffect'
    BY <1>19, <2>a, <2>b, <2>d, <2>e, <2>f, <2>g DEF Gate, FirstCommitStep
  <2>9. TrustedRefusalIsUnspent'
    BY <1>19, <2>a, <2>b, <2>d, <2>e, <2>f, <2>g DEF Gate, FirstCommitStep
  <2>10. NotIssuedIsHonest'
    BY <1>19, <2>a, <2>b, <2>d, <2>e, <2>f, <2>g DEF Gate, FirstCommitStep
  <2>11. PlanIsCurrent'
    BY <1>19, <2>a, <2>b, <2>d, <2>e, <2>f, <2>g DEF Gate, FirstCommitStep
  <2> QED
    BY <2>1, <2>2, <2>3, <2>4, <2>5, <2>6, <2>7, <2>8, <2>9, <2>10, <2>11
<1>20. ASSUME NEW h \in Helpers, Fetch(h) PROVE Safe'
  BY <1>20 DEF Fetch
<1>21. ASSUME NEW h \in Helpers, HandOver(h) PROVE Safe'
  BY <1>21 DEF HandOver
<1>22. ASSUME NEW h \in Helpers, HandOverFails(h) PROVE Safe'
  BY <1>22 DEF HandOverFails
<1>23. ASSUME NEW h \in Helpers, Spawn(h) PROVE Safe'
  BY <1>23 DEF Spawn
<1>24. ASSUME NEW h \in Helpers, SpawnFails(h) PROVE Safe'
  BY <1>24 DEF SpawnFails
<1>25. ASSUME NEW h \in Helpers, Wait(h) PROVE Safe'
  BY <1>25 DEF Wait
<1>26. ASSUME NEW h \in Helpers, Relock(h) PROVE Safe'
  BY <1>26 DEF Relock
<1>27. ASSUME NEW h \in Helpers, Refresh(h) PROVE Safe'
  BY <1>27 DEF Refresh
<1>28. ASSUME NEW h \in Helpers, RefreshBusy(h) PROVE Safe'
  BY <1>28 DEF RefreshBusy
<1>29. ASSUME NEW h \in Helpers, RefreshEnds(h) PROVE Safe'
  BY <1>29 DEF RefreshEnds
<1>30. ASSUME NEW h \in Helpers, Settle(h) PROVE Safe'
  <2>0. status'[h] \notin UnspentStatuses
    BY <1>30, EnteredMeansSpent DEF Settle
  <2>1. Fresh'
    BY <1>30 DEF Settle, IssuedAfter, Possible
  <2>2. Answered'
    BY <1>30 DEF Settle, IssuedAfter, Possible
  <2>3. Admitted'
    BY <1>30 DEF Settle, IssuedAfter, Possible
  <2>4. Refused'
    BY <1>30, <2>0 DEF Settle, IssuedAfter, Possible
  <2>5. Issuing'
    BY <1>30 DEF Settle, IssuedAfter, Possible
  <2>6. Locked'
    BY <1>30 DEF Settle, IssuedAfter, Possible
  <2>7. Current'
    BY <1>30 DEF Settle, IssuedAfter, Possible
  <2>8. AuthorisedEffect'
    BY <1>30 DEF Settle, IssuedAfter, Possible
  <2>9. TrustedRefusalIsUnspent'
    BY <1>30 DEF Settle, IssuedAfter, Possible
  <2>10. NotIssuedIsHonest'
    BY <1>30 DEF Settle, IssuedAfter, Possible
  <2>11. PlanIsCurrent'
    BY <1>30 DEF Settle, IssuedAfter, Possible
  <2> QED
    BY <2>1, <2>2, <2>3, <2>4, <2>5, <2>6, <2>7, <2>8, <2>9, <2>10, <2>11
<1>31. ASSUME NEW h \in Helpers, Emit(h) PROVE Safe'
  <2>1. Fresh'
    BY <1>31 DEF Emit, Possible
  <2>2. Answered'
    BY <1>31 DEF Emit, Possible
  <2>3. Admitted'
    BY <1>31 DEF Emit, Possible
  <2>4. Refused'
    BY <1>31 DEF Emit, Possible
  <2>5. Issuing'
    BY <1>31 DEF Emit, Possible
  <2>6. Locked'
    BY <1>31 DEF Emit, Possible
  <2>7. Current'
    BY <1>31 DEF Emit, Possible
  <2>8. AuthorisedEffect'
    BY <1>31 DEF Emit, Possible
  <2>9. TrustedRefusalIsUnspent'
    BY <1>31 DEF Emit, Possible
  <2>10. NotIssuedIsHonest'
    <3>1. /\ pc[h] = "emit"
          /\ UNCHANGED <<child, ranOn, issued>>
          /\ \/ UNCHANGED frame
             \/ frame' = [frame EXCEPT ![h] =
                   [status |-> status[h], issued |-> issued[h], cid |-> outCid[h]]]
      BY <1>31 DEF Emit, Possible
    <3>2. /\ NotIssuedIsHonest
          /\ frame \in [Helpers -> Frames \cup {NoFrame}]
          /\ Started(h) => issued[h]
      BY <3>1
    <3> HIDE DEF IInv, TypeInv, Safe, Frames
    <3> QED
      BY <3>1, <3>2
  <2>11. PlanIsCurrent'
    BY <1>31 DEF Emit, Possible
  <2> QED
    BY <2>1, <2>2, <2>3, <2>4, <2>5, <2>6, <2>7, <2>8, <2>9, <2>10, <2>11
<1>32. ASSUME NEW h \in Helpers, Exit(h) PROVE Safe'
  BY <1>32 DEF Exit, ReleaseAll
<1>33. ASSUME NEW h \in Helpers, Kill(h) PROVE Safe'
  BY <1>33 DEF Kill, ReleaseAll
<1>34. ASSUME NEW h \in Helpers, ChildLocks(h) PROVE Safe'
  BY <1>34 DEF ChildLocks
<1>35. ASSUME NEW h \in Helpers, ChildGivesUp(h) PROVE Safe'
  BY <1>35 DEF ChildGivesUp
<1>36. ASSUME NEW h \in Helpers, ChildWrites(h) PROVE Safe'
  BY <1>36 DEF ChildWrites
<1>37. ASSUME NEW h \in Helpers, ChildExits(h) PROVE Safe'
  BY <1>37 DEF ChildExits
<1>38. ASSUME OtherLocks PROVE Safe'
  BY <1>38 DEF OtherLocks
<1>39. ASSUME OtherWrites PROVE Safe'
  BY <1>39 DEF OtherWrites
<1>40. ASSUME OtherUnlocks PROVE Safe'
  BY <1>40 DEF OtherUnlocks
<1>41. ASSUME OtherLists PROVE Safe'
  BY <1>41 DEF OtherLists
<1>44. ASSUME OtherRefreshes PROVE Safe'
  BY <1>44 DEF OtherRefreshes
<1>42. ASSUME EditSources PROVE Safe'
  BY <1>42 DEF EditSources
<1>43. CASE UNCHANGED vars
  BY <1>43 DEF vars
<1> HIDE DEF Safe
<1> QED
  BY <1>1, <1>2, <1>3, <1>4, <1>5, <1>6, <1>7, <1>8, <1>9, <1>10, <1>11,
       <1>12, <1>13, <1>14, <1>15, <1>16, <1>17, <1>18, <1>19, <1>20, <1>21,
       <1>22, <1>23, <1>24, <1>25, <1>26, <1>27, <1>28, <1>29, <1>30, <1>31,
       <1>32, <1>33, <1>34, <1>35, <1>36, <1>37, <1>38, <1>39, <1>40, <1>41,
       <1>42, <1>43, <1>44 DEF Next, HelperStep, BrokerStep, ChildStep, OtherStep

-----------------------------------------------------------------------------
(***************************************************************************)
(* What a success stands on: "ok" is given only for an effect applied      *)
(* whole, and the frame and the exit code repeat what was settled.         *)
(***************************************************************************)
Reported == {"emit", "exiting", "exited", "dead"}

Applied ==
  \A h \in Helpers :
    /\ child[h] = "ok" => wrote[h] = "all"
    /\ pc[h] \in PreRedeem => ~applied[h]
    /\ applied[h] => wrote[h] = "all"
    /\ applied[h] /\ Fam(h) = "update" => child[h] = "none"
    /\ applied[h] /\ Fam(h) # "update" => child[h] = "ok"

Settled ==
  \A h \in Helpers :
    /\ status[h] \in Successes => pc[h] \in Reported
    /\ status[h] = "ok" => /\ applied[h] /\ issued[h] /\ SpentBy(h)
                           /\ outCid[h] = req[h].cid
    /\ status[h] = "no_op" => ~Started(h)

Faithful ==
  \A h \in Helpers :
    /\ Framed(h) => frame[h] = [status |-> status[h], issued |-> issued[h],
                                cid |-> outCid[h]]
    /\ pc[h] \in PreRedeem => exit[h] # 0
    /\ exit[h] = 0 => Framed(h) /\ frame[h].status \in Successes

Real == Applied /\ Settled /\ Faithful

(* No helper has succeeded before one has run.                              *)
LEMMA RealInit == Init => Real
BY DEF Init, Real, Applied, Settled, Faithful, Framed, Successes, Reported

(* A helper is classified after its child was waited for and the lock taken *)
(* again, and nothing changes what it then reports.                         *)
LEMMA RealNext == IInv /\ Real /\ [Next]_vars => Real'
<1> SUFFICES ASSUME IInv, Real, [Next]_vars PROVE Real'
  OBVIOUS
<1> USE OwnersAssumption
<1> USE DEF IInv, Safe, TypeInv, TypeOK, progVars, commitVars, endVars,
     brokerVars, lockVars, childVars, worldVars, indexVars, Real, Applied, Settled,
     Faithful, Reported, Successes, Fresh, Admitted, Issuing, Locked, Started,
     Framed, NoFrame, SpentBy, PreRedeem, InCommit, OffStage, Fam, ProgType,
     CommitType, EndType, BrokerType, ChildType, Launched, Requests, Frames
<1>1. ASSUME NEW r \in Receipts, Authorise(r) PROVE Real'
  BY <1>1 DEF Authorise
<1>2. ASSUME NEW h \in Helpers, Launch(h) PROVE Real'
  BY <1>2 DEF Launch
<1>3. ASSUME NEW h \in Helpers, NoChannel(h) PROVE Real'
  BY <1>3 DEF NoChannel
<1>4. ASSUME NEW h \in Helpers, RejectRequest(h) PROVE Real'
  BY <1>4 DEF RejectRequest
<1>5. ASSUME NEW h \in Helpers, Startup(h) PROVE Real'
  BY <1>5 DEF Startup, Possible
<1>6. ASSUME NEW h \in Helpers, TakeLock(h) PROVE Real'
  BY <1>6 DEF TakeLock
<1>7. ASSUME NEW h \in Helpers, ProbeLists(h) PROVE Real'
  BY <1>7 DEF ProbeLists
<1>8. ASSUME NEW h \in Helpers, LockBusy(h) PROVE Real'
  BY <1>8 DEF LockBusy
<1>9. ASSUME NEW h \in Helpers, ResolveFails(h) PROVE Real'
  BY <1>9 DEF ResolveFails, ResolveFailures
<1>10. ASSUME NEW h \in Helpers, RefusePlan(h) PROVE Real'
  BY <1>10 DEF RefusePlan, PlanStatus
<1>11. ASSUME NEW h \in Helpers, AcceptPlan(h) PROVE Real'
  BY <1>11 DEF AcceptPlan
<1>12. ASSUME NEW h \in Helpers, SendRedeem(h) PROVE Real'
  BY <1>12 DEF SendRedeem
<1>13. ASSUME NEW h \in Helpers, SendFails(h) PROVE Real'
  BY <1>13 DEF SendFails, AfterRedeem, CidAfterRedeem
<1>14. ASSUME NEW h \in Helpers, ReceiveReply(h) PROVE Real'
  <2>1. Applied'
    BY <1>14 DEF ReceiveReply, AfterRedeem
  <2>2. Settled'
    BY <1>14 DEF ReceiveReply, AfterRedeem
  <2>3. Faithful'
    <3>1. ~Framed(h) /\ exit[h] # 0
      BY <1>14 DEF ReceiveReply
    <3>2. /\ UNCHANGED <<frame, exit, issued>>
          /\ pc' = [pc EXCEPT ![h] = pc'[h]] /\ pc'[h] \in {"gate", "emit"}
          /\ outCid' = [outCid EXCEPT ![h] = outCid'[h]]
          /\ status' = [status EXCEPT ![h] = status'[h]]
      BY <1>14 DEF ReceiveReply, AfterRedeem
    <3> QED
      BY <3>1, <3>2
  <2> QED
    BY <2>1, <2>2, <2>3
<1>15. ASSUME NEW h \in Helpers, ReplyLost(h) PROVE Real'
  BY <1>15 DEF ReplyLost, AfterRedeem
<1>16. ASSUME NEW h \in Helpers, BrokerAccepts(h) PROVE Real'
  BY <1>16 DEF BrokerAccepts, Reply, Redeemable
<1>17. ASSUME NEW h \in Helpers, BrokerRefuses(h) PROVE Real'
  BY <1>17 DEF BrokerRefuses, Reply
<1>18. ASSUME NEW h \in Helpers, BrokerFails(h) PROVE Real'
  BY <1>18 DEF BrokerFails, Reply, Redeemable
<1>19. ASSUME NEW h \in Helpers, Gate(h) PROVE Real'
  BY <1>19 DEF Gate, FirstCommitStep
<1>20. ASSUME NEW h \in Helpers, Fetch(h) PROVE Real'
  BY <1>20 DEF Fetch
<1>21. ASSUME NEW h \in Helpers, HandOver(h) PROVE Real'
  BY <1>21 DEF HandOver
<1>22. ASSUME NEW h \in Helpers, HandOverFails(h) PROVE Real'
  BY <1>22 DEF HandOverFails
<1>23. ASSUME NEW h \in Helpers, Spawn(h) PROVE Real'
  BY <1>23 DEF Spawn
<1>24. ASSUME NEW h \in Helpers, SpawnFails(h) PROVE Real'
  BY <1>24 DEF SpawnFails
<1>25. ASSUME NEW h \in Helpers, Wait(h) PROVE Real'
  BY <1>25 DEF Wait, Possible
<1>26. ASSUME NEW h \in Helpers, Relock(h) PROVE Real'
  BY <1>26 DEF Relock, LockHandoff
<1>27. ASSUME NEW h \in Helpers, Refresh(h) PROVE Real'
  BY <1>27 DEF Refresh
<1>28. ASSUME NEW h \in Helpers, RefreshBusy(h) PROVE Real'
  BY <1>28 DEF RefreshBusy
<1>29. ASSUME NEW h \in Helpers, RefreshEnds(h) PROVE Real'
  BY <1>29 DEF RefreshEnds
<1>30. ASSUME NEW h \in Helpers, Settle(h) PROVE Real'
  <2>1. status' = [status EXCEPT ![h] = status'[h]] /\ pc' = [pc EXCEPT ![h] = "emit"]
    BY <1>30 DEF Settle
  <2>2. status'[h] # "no_op"
    BY <1>30 DEF Settle, SettledStatus, TxnClassify, HoldClassify, UpdateClassify
  <2>3. status'[h] = "ok" => applied[h] /\ entered[h]
    BY <1>30 DEF Settle, SettledStatus, TxnClassify, HoldClassify, UpdateClassify
  <2>4. applied[h] /\ entered[h] => issued'[h]
    BY <1>30 DEF Settle, IssuedAfter
  <2>5. Applied'
    BY <1>30, <2>1 DEF Settle
  <2>6. Settled'
    <3>1. issued' = [issued EXCEPT ![h] = issued'[h]]
      BY <1>30 DEF Settle
    <3>2. Paid(h) /\ outCid[h] = req[h].cid
      BY <1>30 DEF Settle
    <3>3. UNCHANGED <<req, outCid, applied, redeemer, child, ranOn>>
      BY <1>30 DEF Settle
    <3> QED
      BY <2>1, <2>2, <2>3, <2>4, <3>1, <3>2, <3>3 DEF Paid
  <2>7. Faithful'
    BY <1>30, <2>1 DEF Settle
  <2> QED
    BY <2>5, <2>6, <2>7
<1>31. ASSUME NEW h \in Helpers, Emit(h) PROVE Real'
  BY <1>31 DEF Emit, Possible
<1>32. ASSUME NEW h \in Helpers, Exit(h) PROVE Real'
  BY <1>32 DEF Exit, ReleaseAll, Successes
<1>33. ASSUME NEW h \in Helpers, Kill(h) PROVE Real'
  BY <1>33 DEF Kill, ReleaseAll
<1>34. ASSUME NEW h \in Helpers, ChildLocks(h) PROVE Real'
  BY <1>34 DEF ChildLocks
<1>35. ASSUME NEW h \in Helpers, ChildGivesUp(h) PROVE Real'
  BY <1>35 DEF ChildGivesUp
<1>36. ASSUME NEW h \in Helpers, ChildWrites(h) PROVE Real'
  BY <1>36 DEF ChildWrites
<1>37. ASSUME NEW h \in Helpers, ChildExits(h) PROVE Real'
  BY <1>37 DEF ChildExits
<1>38. ASSUME OtherLocks PROVE Real'
  BY <1>38 DEF OtherLocks
<1>39. ASSUME OtherWrites PROVE Real'
  BY <1>39 DEF OtherWrites
<1>40. ASSUME OtherUnlocks PROVE Real'
  BY <1>40 DEF OtherUnlocks
<1>41. ASSUME OtherLists PROVE Real'
  BY <1>41 DEF OtherLists
<1>44. ASSUME OtherRefreshes PROVE Real'
  BY <1>44 DEF OtherRefreshes
<1>42. ASSUME EditSources PROVE Real'
  BY <1>42 DEF EditSources
<1>43. CASE UNCHANGED vars
  BY <1>43 DEF vars
<1> HIDE DEF Real
<1> QED
  BY <1>1, <1>2, <1>3, <1>4, <1>5, <1>6, <1>7, <1>8, <1>9, <1>10, <1>11,
       <1>12, <1>13, <1>14, <1>15, <1>16, <1>17, <1>18, <1>19, <1>20, <1>21,
       <1>22, <1>23, <1>24, <1>25, <1>26, <1>27, <1>28, <1>29, <1>30, <1>31,
       <1>32, <1>33, <1>34, <1>35, <1>36, <1>37, <1>38, <1>39, <1>40, <1>41,
       <1>42, <1>43, <1>44 DEF Next, HelperStep, BrokerStep, ChildStep, OtherStep

-----------------------------------------------------------------------------
(***************************************************************************)
(* The system a success was decided upon is as it was then.                *)
(***************************************************************************)
Healthy ==
  \A h \in Helpers : status[h] = "ok" =>
    /\ Fam(h) \in {"txn", "configure"} /\ frontend = h /\ dbBroken => Orphan
    /\ Fam(h) = "update" /\ indexBy = h => indexOk

(* A child left behind by a killed helper stays left behind.                *)
LEMMA OrphanStays ==
  ASSUME TypeInv, Orphan,
         \A g \in Helpers : pc[g] = "dead" => pc'[g] = "dead",
         \A g \in Helpers : child[g] # "none" => child'[g] # "none"
  PROVE  Orphan'
BY DEF Orphan

(* No step brings a killed helper or a child that has been spawned back to  *)
(* where it was.                                                            *)
LEMMA DeadStays ==
  ASSUME IInv, [Next]_vars
  PROVE  Orphan => Orphan'
<1> USE DEF IInv, Safe, TypeInv, TypeOK, progVars, commitVars, endVars,
     brokerVars, lockVars, childVars, worldVars, indexVars, ProgType, ChildType
<1>1. ASSUME NEW h \in Helpers, HelperStep(h)
      PROVE  /\ \A g \in Helpers : pc[g] = "dead" => pc'[g] = "dead"
             /\ \A g \in Helpers : child[g] # "none" => child'[g] # "none"
  <2>1. CASE NoChannel(h)
    BY <2>1 DEF NoChannel
  <2>2. CASE RejectRequest(h)
    BY <2>2 DEF RejectRequest
  <2>3. CASE Startup(h)
    BY <2>3 DEF Startup
  <2>4. CASE TakeLock(h)
    BY <2>4 DEF TakeLock
  <2>5. CASE ProbeLists(h)
    BY <2>5 DEF ProbeLists
  <2>6. CASE LockBusy(h)
    BY <2>6 DEF LockBusy
  <2>7. CASE ResolveFails(h)
    BY <2>7 DEF ResolveFails
  <2>8. CASE RefusePlan(h)
    BY <2>8 DEF RefusePlan
  <2>9. CASE AcceptPlan(h)
    BY <2>9 DEF AcceptPlan
  <2>10. CASE SendRedeem(h)
    BY <2>10 DEF SendRedeem
  <2>11. CASE SendFails(h)
    BY <2>11 DEF SendFails, AfterRedeem
  <2>12. CASE ReceiveReply(h)
    BY <2>12 DEF ReceiveReply, AfterRedeem
  <2>13. CASE ReplyLost(h)
    BY <2>13 DEF ReplyLost, AfterRedeem
  <2>14. CASE Gate(h)
    BY <2>14 DEF Gate, FirstCommitStep
  <2>15. CASE Fetch(h)
    BY <2>15 DEF Fetch
  <2>16. CASE HandOver(h)
    BY <2>16 DEF HandOver
  <2>17. CASE HandOverFails(h)
    BY <2>17 DEF HandOverFails
  <2>18. CASE Spawn(h)
    BY <2>18 DEF Spawn
  <2>19. CASE SpawnFails(h)
    BY <2>19 DEF SpawnFails
  <2>20. CASE Wait(h)
    BY <2>20 DEF Wait
  <2>21. CASE Relock(h)
    BY <2>21 DEF Relock
  <2>22. CASE Refresh(h)
    BY <2>22 DEF Refresh
  <2>23. CASE RefreshBusy(h)
    BY <2>23 DEF RefreshBusy
  <2>24. CASE RefreshEnds(h)
    BY <2>24 DEF RefreshEnds
  <2>25. CASE Settle(h)
    BY <2>25 DEF Settle
  <2>26. CASE Emit(h)
    BY <2>26 DEF Emit
  <2>27. CASE Exit(h)
    BY <2>27 DEF Exit
  <2> QED
    BY <1>1, <2>1, <2>2, <2>3, <2>4, <2>5, <2>6, <2>7, <2>8, <2>9, <2>10, <2>11, <2>12, <2>13, <2>14, <2>15, <2>16, <2>17, <2>18, <2>19, <2>20, <2>21, <2>22, <2>23, <2>24, <2>25, <2>26, <2>27 DEF HelperStep
<1>2. ASSUME NEW h \in Helpers, Launch(h) \/ Kill(h) \/ BrokerStep(h) \/ ChildStep(h)
      PROVE  /\ \A g \in Helpers : pc[g] = "dead" => pc'[g] = "dead"
             /\ \A g \in Helpers : child[g] # "none" => child'[g] # "none"
  BY <1>2 DEF Launch, Kill, BrokerStep, BrokerAccepts, BrokerRefuses, BrokerFails,
       ChildStep, ChildLocks, ChildGivesUp, ChildWrites, ChildExits
<1>3. ASSUME OtherStep \/ UNCHANGED vars \/ \E r \in Receipts : Authorise(r)
      PROVE  UNCHANGED <<pc, child>>
  BY <1>3 DEF OtherStep, OtherLocks, OtherWrites, OtherUnlocks, OtherLists,
       OtherRefreshes, EditSources, Authorise, vars
<1> QED
  BY <1>1, <1>2, <1>3, OrphanStays DEF Next

(* What a step may change of what a success stands on: only Settle gives    *)
(* "ok", a helper that has it keeps its request and takes no lock, the      *)
(* database breaks or heals by whoever writes it, the indexes by whoever    *)
(* refreshes them.                                                          *)
Touched(h) ==
  /\ status'[h] = "ok" => status[h] = "ok" \/ Settle(h)
  /\ status[h] = "ok" => req'[h] = req[h] /\ (frontend' = h => frontend = h)
  /\ dbBroken' # dbBroken => OtherWrites \/ \E g \in Helpers : ChildWrites(g)
  /\ indexVars' # indexVars => OtherRefreshes \/ \E g \in Helpers : RefreshEnds(g)

LEMMA StepTouches ==
  ASSUME IInv, Real, [Next]_vars, NEW h \in Helpers
  PROVE  Touched(h)
<1> USE OwnersAssumption
<1> USE DEF IInv, TypeInv, TypeOK, progVars, commitVars, endVars, brokerVars,
     lockVars, childVars, worldVars, indexVars, ProgType, ChildType, WorldType,
     Real, Settled, Reported, Successes, Touched
<1>1. ASSUME NEW g \in Helpers, HelperStep(g) PROVE Touched(h)
  <2>1. CASE NoChannel(g)
    BY <2>1 DEF NoChannel
  <2>2. CASE RejectRequest(g)
    BY <2>2 DEF RejectRequest
  <2>3. CASE Startup(g)
    BY <2>3 DEF Startup
  <2>4. CASE TakeLock(g)
    BY <2>4 DEF TakeLock
  <2>5. CASE ProbeLists(g)
    BY <2>5 DEF ProbeLists
  <2>6. CASE LockBusy(g)
    BY <2>6 DEF LockBusy
  <2>7. CASE ResolveFails(g)
    BY <2>7 DEF ResolveFails, ResolveFailures
  <2>8. CASE RefusePlan(g)
    BY <2>8 DEF RefusePlan, PlanStatus
  <2>9. CASE AcceptPlan(g)
    BY <2>9 DEF AcceptPlan
  <2>10. CASE SendRedeem(g)
    BY <2>10 DEF SendRedeem
  <2>11. CASE SendFails(g)
    BY <2>11 DEF SendFails, AfterRedeem
  <2>12. CASE ReceiveReply(g)
    BY <2>12 DEF ReceiveReply, AfterRedeem
  <2>13. CASE ReplyLost(g)
    BY <2>13 DEF ReplyLost, AfterRedeem
  <2>14. CASE Gate(g)
    BY <2>14 DEF Gate
  <2>15. CASE Fetch(g)
    BY <2>15 DEF Fetch
  <2>16. CASE HandOver(g)
    BY <2>16 DEF HandOver
  <2>17. CASE HandOverFails(g)
    BY <2>17 DEF HandOverFails
  <2>18. CASE Spawn(g)
    BY <2>18 DEF Spawn
  <2>19. CASE SpawnFails(g)
    BY <2>19 DEF SpawnFails
  <2>20. CASE Wait(g)
    BY <2>20 DEF Wait
  <2>21. CASE Relock(g)
    BY <2>21 DEF Relock
  <2>22. CASE Refresh(g)
    BY <2>22 DEF Refresh
  <2>23. CASE RefreshBusy(g)
    BY <2>23 DEF RefreshBusy
  <2>24. CASE RefreshEnds(g)
    BY <2>24 DEF RefreshEnds
  <2>25. CASE Settle(g)
    BY <2>25 DEF Settle
  <2>26. CASE Emit(g)
    BY <2>26 DEF Emit
  <2>27. CASE Exit(g)
    BY <2>27 DEF Exit, ReleaseAll
  <2> QED
    BY <1>1, <2>1, <2>2, <2>3, <2>4, <2>5, <2>6, <2>7, <2>8, <2>9, <2>10, <2>11, <2>12, <2>13, <2>14, <2>15, <2>16, <2>17, <2>18, <2>19, <2>20, <2>21, <2>22, <2>23, <2>24, <2>25, <2>26, <2>27 DEF HelperStep
<1>2. ASSUME NEW g \in Helpers, Launch(g) \/ Kill(g) PROVE Touched(h)
  BY <1>2 DEF Launch, Kill, ReleaseAll
<1>3. ASSUME NEW g \in Helpers, BrokerStep(g) \/ ChildStep(g) PROVE Touched(h)
  BY <1>3 DEF BrokerStep, BrokerAccepts, BrokerRefuses, BrokerFails, ChildStep,
       ChildLocks, ChildGivesUp, ChildWrites, ChildExits
<1>4. ASSUME OtherStep \/ UNCHANGED vars \/ \E r \in Receipts : Authorise(r)
      PROVE  Touched(h)
  BY <1>4 DEF OtherStep, OtherLocks, OtherWrites, OtherUnlocks, OtherLists,
       OtherRefreshes, EditSources, Authorise, vars
<1> QED
  BY <1>1, <1>2, <1>3, <1>4 DEF Next

(* No success has been decided upon before a helper has run.                *)
LEMMA HealthyInit == Init => Healthy
BY DEF Init, Healthy

(* A success is decided upon when the ground truth is good, and until the   *)
(* helper gives its lock back nobody but a child left behind can spoil it.  *)
LEMMA HealthyNext == IInv /\ Real /\ Healthy /\ [Next]_vars => Healthy'
<1> SUFFICES ASSUME IInv, Real, Healthy, [Next]_vars, NEW h \in Helpers,
                    status'[h] = "ok"
             PROVE  /\ Fam(h)' \in {"txn", "configure"} /\ frontend' = h /\ dbBroken'
                          => Orphan'
                    /\ Fam(h)' = "update" /\ indexBy' = h => indexOk'
  BY DEF Healthy
<1>1. Touched(h) /\ (Orphan => Orphan')
  BY StepTouches, DeadStays
<1>2. CASE Settle(h)
  <2>1. PICK read : status'[h] = SettledStatus(h, read)
    BY <1>2 DEF Settle, Finish, IInv, TypeInv, TypeOK, ProgType
  <2>2. UNCHANGED <<req, frontend, dbBroken, indexOk, indexBy>>
    BY <1>2 DEF Settle, lockVars, worldVars, indexVars
  <2>3. Fam(h) \in {"txn", "configure"} => ~dbBroken
    BY <2>1 DEF SettledStatus, TxnClassify
  <2>4. Fam(h) = "update" => indexOk
    BY <2>1 DEF SettledStatus, UpdateClassify
  <2> QED
    BY <2>2, <2>3, <2>4 DEF Fam
<1>3. CASE ~Settle(h)
  <2>1. status[h] = "ok" /\ req'[h] = req[h] /\ (frontend' = h => frontend = h)
    BY <1>1, <1>3 DEF Touched
  <2>2. pc[h] \in Reported
    BY <2>1 DEF Real, Settled, Successes
  <2>3. Fam(h)' \in {"txn", "configure"} /\ frontend' = h /\ dbBroken' => Orphan'
    <3>1. CASE dbBroken' = dbBroken
      BY <1>1, <2>1, <3>1 DEF Healthy, Fam
    <3>2. CASE OtherWrites
      BY <2>1, <3>2, OwnersAssumption DEF OtherWrites
    <3>3. ASSUME NEW g \in Helpers, ChildWrites(g), frontend' = h PROVE Orphan'
      <4>1. child[g] = "running" /\ pc[g] \in {"wait", "dead"}
        BY <3>3 DEF ChildWrites, IInv, Safe, Locked
      <4>2. pc[g] # "wait"
        BY <2>1, <2>2, <3>3 DEF IInv, Safe, Locked, Issuing, InCommit, Reported
      <4> QED
        BY <1>1, <4>1, <4>2 DEF Orphan
    <3> QED
      BY <1>1, <3>1, <3>2, <3>3 DEF Touched
  <2>4. Fam(h)' = "update" /\ indexBy' = h => indexOk'
    <3>1. CASE UNCHANGED indexVars
      BY <2>1, <3>1 DEF Healthy, Fam, indexVars
    <3>2. CASE OtherRefreshes
      BY <3>2, OwnersAssumption DEF OtherRefreshes
    <3>3. ASSUME NEW g \in Helpers, RefreshEnds(g) PROVE indexBy' # h
      BY <2>2, <3>3 DEF RefreshEnds, Reported, At
    <3> QED
      BY <1>1, <3>1, <3>2, <3>3 DEF Touched
  <2> QED
    BY <2>3, <2>4
<1> QED
  BY <1>2, <1>3

-----------------------------------------------------------------------------
(***************************************************************************)
(* The theorems.                                                           *)
(***************************************************************************)

(* The invariant holds in every state of every run.                         *)
LEMMA Invariant == Spec => [](IInv /\ Real /\ Healthy)
<1>1. Init => IInv /\ Real /\ Healthy
  BY TypeInit, SafeInit, RealInit, HealthyInit DEF IInv
<1>2. IInv /\ Real /\ Healthy /\ [Next]_vars => IInv' /\ Real' /\ Healthy'
  BY TypeNext, SafeNext, RealNext, HealthyNext DEF IInv
<1> QED
  BY <1>1, <1>2, PTL DEF Spec

(* No dpkg child and no refresh starts but by the helper whose own request  *)
(* spent the receipt, for the plan that receipt was bound to, under the     *)
(* correlation id of that receipt (redeem.c, plan.c, effect.c).             *)
THEOREM EffectsAreAuthorised == Spec => []AuthorisedEffect
<1>1. IInv => AuthorisedEffect
  BY DEF IInv, Safe
<1> QED
  BY <1>1, Invariant, PTL

(* What dpkg starts on is what was resolved and digested, although the      *)
(* inner lock is let go in between, unless a killed helper left its child   *)
(* behind (the commits of apt_txn.cc, apt_hold.cc, apt_configure.cc).       *)
THEOREM PlansAreCurrent == Spec => []PlanIsCurrent
<1>1. IInv => PlanIsCurrent
  BY DEF IInv, Safe
<1> QED
  BY <1>1, Invariant, PTL

(* A frame with effect_issued=false is never wrong (entrypoint.c and the    *)
(* effectors' effect_issued).                                               *)
THEOREM NotIssuedIsTrue == Spec => []NotIssuedIsHonest
<1>1. IInv => NotIssuedIsHonest
  BY DEF IInv, Safe
<1> QED
  BY <1>1, Invariant, PTL

(* A refusal reported under the request's own correlation id leaves the     *)
(* receipt unspent by this helper (redeem_tail in plan.c).                  *)
THEOREM RefusalsLeaveTheReceipt == Spec => []TrustedRefusalIsUnspent
<1>1. IInv => TrustedRefusalIsUnspent
  BY DEF IInv, Safe
<1> QED
  BY <1>1, Invariant, PTL

(* "ok" and exit code 0 are given only for an effect that was paid for and  *)
(* applied whole (apt_status.c, entrypoint.c).                              *)
THEOREM SuccessesAreReal == Spec => []SuccessIsReal
<1>1. IInv /\ Real => SuccessIsReal
  <2> SUFFICES ASSUME IInv, Real, NEW h \in Helpers
               PROVE  /\ Framed(h) /\ frame[h].status = "ok" =>
                           /\ Trusted(h) /\ frame[h].issued /\ SpentBy(h)
                           /\ wrote[h] = "all"
                           /\ child[h] = IF Fam(h) = "update" THEN "none" ELSE "ok"
                      /\ exit[h] = 0 =>
                           Framed(h) /\ (frame[h].status = "ok" \/ ~Started(h))
    BY DEF SuccessIsReal
  <2>1. Framed(h) => /\ frame[h].status = status[h] /\ frame[h].issued = issued[h]
                     /\ frame[h].cid = outCid[h]
    <3>1. Framed(h) => frame[h] = [status |-> status[h], issued |-> issued[h],
                                   cid |-> outCid[h]]
      BY DEF Real, Faithful
    <3> QED
      BY <3>1
  <2>2. status[h] = "ok" => /\ applied[h] /\ issued[h] /\ SpentBy(h)
                            /\ outCid[h] = req[h].cid
    BY DEF Real, Settled
  <2>3. exit[h] = 0 => Framed(h) /\ frame[h].status \in Successes
    BY DEF Real, Faithful
  <2>4. status[h] = "no_op" => ~Started(h)
    BY DEF Real, Settled
  <2>5. applied[h] => /\ wrote[h] = "all"
                      /\ child[h] = IF Fam(h) = "update" THEN "none" ELSE "ok"
    BY DEF Real, Applied
  <2> QED
    BY <2>1, <2>2, <2>3, <2>4, <2>5 DEF Trusted, Successes
<1> QED
  BY <1>1, Invariant, PTL

(* When a success is reported, the packages are not broken as long as the   *)
(* helper has its lock, killed helpers' children excepted, and the indexes  *)
(* read until somebody else refreshes them (apt_status.c, the ground truth  *)
(* of the effectors, the frame written under the locks in entrypoint.c).    *)
THEOREM SuccessesAreHealthy == Spec => []SuccessIsHealthy
<1>1. IInv /\ Real /\ Healthy => SuccessIsHealthy
  <2> SUFFICES ASSUME Real, Healthy, NEW h \in Helpers, Framed(h), frame[h].status = "ok"
               PROVE  /\ Fam(h) \in {"txn", "configure"} /\ frontend = h /\ dbBroken
                            => Orphan
                      /\ Fam(h) = "update" /\ indexBy = h => indexOk
    BY DEF SuccessIsHealthy, Orphan
  <2>1. frame[h] = [status |-> status[h], issued |-> issued[h], cid |-> outCid[h]]
    BY DEF Real, Faithful
  <2>2. status[h] = "ok"
    BY <2>1
  <2> QED
    BY <2>2 DEF Healthy
<1> QED
  BY <1>1, Invariant, PTL

(* While a helper keeps the frontend lock nobody but its own child changes  *)
(* the database, killed helpers' children excepted.                         *)
THEOREM FrontendProtects == Spec => FrontendProtectsDb
<1> DEFINE Protected ==
      \A h \in Helpers : frontend = h /\ frontend' = h /\ dbVer' # dbVer =>
        \E g \in Helpers : child[g] = "running" /\ (g = h \/ pc[g] = "dead")
<1>1. ASSUME IInv, [Next]_vars PROVE Protected
  <2> SUFFICES ASSUME dbVer' # dbVer PROVE Protected
    OBVIOUS
  <2>1. CASE OtherWrites
    BY <2>1, OwnersAssumption DEF OtherWrites
  <2>2. ASSUME NEW g \in Helpers, ChildWrites(g) PROVE Protected
    <3>1. child[g] = "running" /\ pc[g] \in {"wait", "dead"}
      BY <1>1, <2>2 DEF ChildWrites, IInv, Safe, Locked
    <3>2. pc[g] = "wait" => frontend = g
      BY <1>1 DEF IInv, Safe, Locked, Issuing, InCommit
    <3> QED
      BY <3>1, <3>2
  <2>3. OtherWrites \/ \E g \in Helpers : ChildWrites(g)
    <3>1. ASSUME NEW g \in Helpers, HelperStep(g) \/ Launch(g) \/ Kill(g) PROVE FALSE
      BY <3>1 DEF HelperStep, worldVars, Launch, NoChannel, RejectRequest,
           Startup, TakeLock, ProbeLists, LockBusy, ResolveFails, RefusePlan,
           AcceptPlan, SendRedeem, SendFails, ReceiveReply, ReplyLost, Gate,
           Fetch, HandOver, HandOverFails, Spawn, SpawnFails, Wait, Relock,
           Refresh, RefreshBusy, RefreshEnds, Settle, Emit, Exit, Kill
    <3>2. ASSUME NEW g \in Helpers, BrokerStep(g) PROVE FALSE
      BY <3>2 DEF BrokerStep, worldVars, BrokerAccepts, BrokerRefuses,
           BrokerFails
    <3>3. ASSUME NEW g \in Helpers, ChildStep(g) PROVE ChildWrites(g)
      BY <3>3 DEF ChildStep, worldVars, ChildLocks, ChildGivesUp, ChildExits
    <3>4. ASSUME OtherStep PROVE OtherWrites
      BY <3>4 DEF OtherStep, worldVars, OtherLocks, OtherUnlocks, OtherLists, OtherRefreshes,
           EditSources
    <3>5. ASSUME NEW r \in Receipts, Authorise(r) PROVE FALSE
      BY <3>5 DEF Authorise, worldVars
    <3>6. ~ UNCHANGED vars
      BY DEF vars, worldVars, indexVars
    <3> QED
      BY <1>1, <3>1, <3>2, <3>3, <3>4, <3>5, <3>6 DEF Next
  <2> QED
    BY <2>1, <2>2, <2>3
<1>2. IInv /\ [Next]_vars => [Protected]_vars
  BY <1>1
<1> QED
  BY <1>2, Invariant, PTL DEF Spec, FrontendProtectsDb


-----------------------------------------------------------------------------
(***************************************************************************)
(* The refinement of EffectIntent.  A receipt is bound by Authorise, spent *)
(* by the broker and acted upon by Spawn or Refresh; every other step      *)
(* leaves the abstract state alone.                                        *)
(***************************************************************************)

(* The abstract set of effects follows from who has started and with what.  *)
LEMMA ActsKept ==
  ASSUME \A g \in Helpers : Started(g)' <=> Started(g),
         \A g \in Helpers : Started(g) => req'[g] = req[g] /\ plan'[g] = plan[g]
  PROVE  Acts' = Acts
BY Zenon DEF Acts

(* An effect that starts acts on the receipt its helper spent, and nobody   *)
(* has acted on that receipt before (spawn.c, ListUpdate in apt_update.cc). *)
LEMMA StartActs ==
  ASSUME IInv, NEW h \in Helpers, pc[h] \in InCommit, ~Started(h), Started(h)',
         \A g \in Helpers \ {h} : Started(g)' <=> Started(g),
         UNCHANGED <<req, plan, bound, redeemer>>
  PROVE  Intent!Act(req[h].receipt)
<1> DEFINE r == req[h].receipt
<1>1. redeemer[r] = h /\ bound[r] = plan[h]
  BY DEF IInv, Safe, Admitted, Paid, SpentBy
<1>2. h # Nobody
  BY OwnersAssumption
<1>3. ASSUME NEW x \in Acts PROVE x.receipt # r
  <2>1. PICK g \in Helpers : /\ Started(g)
                            /\ x = [by |-> g, receipt |-> req[g].receipt, effect |-> plan[g]]
    BY DEF Acts
  <2>2. redeemer[req[g].receipt] = g
    BY <2>1 DEF IInv, Safe, AuthorisedEffect, SpentBy
  <2> QED
    BY <1>1, <2>1, <2>2
<1>4. Acts' = Acts \cup {[by |-> redeemer[r], receipt |-> r, effect |-> bound[r]]}
  <2>1. \A g \in Helpers : Started(g)' <=> Started(g) \/ g = h
    OBVIOUS
  <2>2. Acts' = {[by |-> g, receipt |-> req[g].receipt, effect |-> plan[g]] :
                   g \in {k \in Helpers : Started(k)'}}
    BY DEF Acts
  <2>3. {k \in Helpers : Started(k)'} = {k \in Helpers : Started(k)} \cup {h}
    BY <2>1
  <2> QED
    BY <1>1, <2>2, <2>3 DEF Acts
<1> QED
  BY <1>1, <1>2, <1>3, <1>4 DEF Intent!Act

(* On a machine where no helper has run no receipt is bound, spent or acted *)
(* upon.                                                                    *)
LEMMA RefinementInit == Init => Intent!Init
<1> SUFFICES ASSUME Init PROVE Intent!Init
  OBVIOUS
<1>1. \A h \in Helpers : ~Started(h)
  BY DEF Init, Started
<1>2. Acts = {}
  BY <1>1 DEF Acts
<1> QED
  BY <1>2 DEF Init, Intent!Init

(* Every step is a step of EffectIntent or leaves its variables alone.      *)
LEMMA RefinementNext == IInv /\ [Next]_vars => [Intent!Next]_(Intent!vars)
<1> SUFFICES ASSUME IInv, [Next]_vars PROVE Intent!Next \/ UNCHANGED Intent!vars
  OBVIOUS
<1> USE DEF progVars, commitVars, endVars, brokerVars, lockVars, childVars, worldVars,
     indexVars
<1>1. ASSUME NEW r \in Receipts, Authorise(r) PROVE Intent!Next
  <2>1. Acts' = Acts
    BY <1>1, ActsKept DEF Authorise, Started
  <2>2. bound'[r] \in Effects /\ bound' = [bound EXCEPT ![r] = bound'[r]]
    BY <1>1, VerbsAssumption DEF Authorise, IInv, TypeInv, TypeOK, BrokerType,
      WorldType, Effects, VersionFor
  <2> QED
    BY <1>1, <2>1, <2>2 DEF Authorise, Intent!Bind, Intent!Next
<1>2. ASSUME NEW h \in Helpers, Spawn(h) PROVE Intent!Next
  <2>1. ~Started(h) /\ Started(h)' /\ pc[h] \in InCommit
    BY <1>2 DEF Spawn, Started, InCommit, IInv, Safe, Fresh, TypeInv, TypeOK, ChildType
  <2>2. \A g \in Helpers \ {h} : Started(g)' <=> Started(g)
    BY <1>2 DEF Spawn, Started
  <2>3. Intent!Act(req[h].receipt)
    BY <1>2, <2>1, <2>2, StartActs DEF Spawn
  <2>4. req[h].receipt \in Receipts
    BY <1>2 DEF Spawn, IInv, TypeInv, Launched, Requests
  <2> QED
    BY <2>3, <2>4 DEF Intent!Next
<1>3. ASSUME NEW h \in Helpers, Refresh(h) PROVE Intent!Next
  <2>1. ~Started(h) /\ Started(h)' /\ pc[h] \in InCommit
    BY <1>3 DEF Refresh, Started, InCommit, IInv, Safe, Fresh, TypeInv, TypeOK,
      ChildType, Launched, Effects, NoVer
  <2>2. \A g \in Helpers \ {h} : Started(g)' <=> Started(g)
    BY <1>3 DEF Refresh, Started
  <2>3. Intent!Act(req[h].receipt)
    BY <1>3, <2>1, <2>2, StartActs DEF Refresh
  <2>4. req[h].receipt \in Receipts
    BY <1>3 DEF Refresh, IInv, TypeInv, Launched, Requests
  <2> QED
    BY <2>3, <2>4 DEF Intent!Next
<1>4. ASSUME NEW h \in Helpers, BrokerStep(h) PROVE Intent!Next \/ UNCHANGED Intent!vars
  <2>1. Acts' = Acts
    BY <1>4, ActsKept DEF BrokerStep, BrokerAccepts, BrokerRefuses, BrokerFails, Started
  <2>2. UNCHANGED bound
    BY <1>4 DEF BrokerStep, BrokerAccepts, BrokerRefuses, BrokerFails
  <2>3. CASE UNCHANGED redeemer
    BY <2>1, <2>2, <2>3 DEF Intent!vars
  <2>4. CASE redeemer' # redeemer
    <3>1. /\ chan[h].kind = "request" /\ redeemer[req[h].receipt] = Nobody
          /\ redeemer' = [redeemer EXCEPT ![req[h].receipt] = h]
      BY <1>4, <2>4 DEF BrokerStep, BrokerAccepts, BrokerRefuses, BrokerFails, Redeemable
    <3>2. req[h].receipt \in Receipts /\ bound[req[h].receipt] # NoEffect
      BY <3>1 DEF IInv, Safe, Fresh, TypeInv, Launched, Requests
    <3>3. Intent!Spend(req[h].receipt, h)
      BY <2>1, <2>2, <3>1, <3>2 DEF Intent!Spend
    <3> QED
      BY <3>2, <3>3 DEF Intent!Next
  <2> QED
    BY <2>3, <2>4
<1>5. ASSUME NEW h \in Helpers, Launch(h) \/ AcceptPlan(h) PROVE UNCHANGED Intent!vars
  <2>1. ~Started(h)
    BY <1>5 DEF Launch, AcceptPlan, IInv, Safe, Fresh, PreRedeem
  <2>2. Acts' = Acts
    BY <1>5, <2>1, ActsKept DEF Launch, AcceptPlan, Started, IInv, TypeInv, TypeOK, ProgType
  <2> QED
    BY <1>5, <2>2 DEF Launch, AcceptPlan, Intent!vars
<1>6. ASSUME NEW h \in Helpers, Kill(h) PROVE UNCHANGED Intent!vars
  <2>1. Acts' = Acts
    BY <1>6, ActsKept DEF Kill, Started
  <2> QED
    BY <1>6, <2>1 DEF Kill, Intent!vars
<1>7. ASSUME NEW h \in Helpers, HelperStep(h), ~Spawn(h), ~Refresh(h), ~AcceptPlan(h)
      PROVE UNCHANGED Intent!vars
  <2>1. UNCHANGED <<req, plan, bound, redeemer, child>>
    BY <1>7 DEF HelperStep, NoChannel, RejectRequest, Startup, TakeLock, ProbeLists,
      LockBusy, ResolveFails, RefusePlan, SendRedeem, SendFails, ReceiveReply,
      ReplyLost, Gate, Fetch, HandOver, HandOverFails, SpawnFails, Wait, Relock,
      RefreshBusy, RefreshEnds, Settle, Emit, Exit
  <2>2. UNCHANGED ranOn
    BY <1>7 DEF HelperStep, NoChannel, RejectRequest, Startup, TakeLock, ProbeLists,
      LockBusy, ResolveFails, RefusePlan, SendRedeem, SendFails, ReceiveReply,
      ReplyLost, Gate, Fetch, HandOver, HandOverFails, SpawnFails, Wait, Relock,
      RefreshBusy, RefreshEnds, Settle, Emit, Exit
  <2>3. Acts' = Acts
    BY <2>1, <2>2, ActsKept DEF Started
  <2> QED
    BY <2>1, <2>3 DEF Intent!vars
<1>8. ASSUME NEW h \in Helpers, ChildStep(h) PROVE UNCHANGED Intent!vars
  <2>1. UNCHANGED <<req, plan, bound, redeemer>>
    BY <1>8 DEF ChildStep, ChildLocks, ChildGivesUp, ChildWrites, ChildExits
  <2>2. \A g \in Helpers : Started(g)' <=> Started(g)
    BY <1>8 DEF ChildStep, ChildLocks, ChildGivesUp, ChildWrites, ChildExits, Started,
      IInv, TypeInv, TypeOK, ChildType
  <2>3. Acts' = Acts
    BY <2>1, <2>2, ActsKept
  <2> QED
    BY <2>1, <2>3 DEF Intent!vars
<1>9. ASSUME OtherStep \/ UNCHANGED vars PROVE UNCHANGED Intent!vars
  <2>1. UNCHANGED <<req, plan, bound, redeemer, child, ranOn>>
    BY <1>9 DEF OtherStep, OtherLocks, OtherWrites, OtherUnlocks, OtherLists, OtherRefreshes,
      EditSources, vars
  <2>2. Acts' = Acts
    BY <2>1, ActsKept DEF Started
  <2> QED
    BY <2>1, <2>2 DEF Intent!vars
<1> QED
  BY <1>1, <1>2, <1>3, <1>4, <1>5, <1>6, <1>7, <1>8, <1>9 DEF Next

(* A receipt is spent at most once and acted upon at most once, by the      *)
(* helper that spent it and with the effect it was bound to, whatever the   *)
(* interleaving of helpers, broker, children and other frontends.           *)
THEOREM IntentIsImplemented == Spec => ImplementsIntent
<1>1. Init => Intent!Init
  BY RefinementInit
<1>2. IInv /\ [Next]_vars => [Intent!Next]_(Intent!vars)
  BY RefinementNext
<1> QED
  BY <1>1, <1>2, Invariant, PTL DEF Spec, ImplementsIntent, Intent!Spec
=============================================================================
