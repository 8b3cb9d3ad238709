------------------------------- MODULE Pkgexec -------------------------------
(***************************************************************************)
(* The privileged helpers end to end.  A helper is one pkexec'd run of a   *)
(* per-verb program (entrypoint.c): it reads a request, takes the apt      *)
(* lock, resolves and digests a plan, spends the receipt at the audit      *)
(* broker, runs the effect through the gate, classifies it and writes one  *)
(* result frame.  Several helpers run at once and share the dpkg locks,    *)
(* the dpkg database, the lists and the broker with each other, with the   *)
(* dpkg children they leave behind when killed, and with other frontends.  *)
(*                                                                         *)
(* External, modelled from how the code uses them: the caller, the audit  *)
(* broker, dpkg, and everybody else who changes packages or sources.       *)
(*                                                                         *)
(* Data is reduced to what the checks tell apart.  The digest of a plan is *)
(* the version of what it was resolved from: of the dpkg database, or of   *)
(* the source list for a refresh.  A correlation id is the receipt of the  *)
(* intent it names.                                                        *)
(***************************************************************************)
EXTENDS PlanStep, Integers

CONSTANTS
  Helpers,      \* runs of the per-verb programs
  Receipts,     \* effect receipts, one per open intent
  Users,        \* principal uids, PKEXEC_UID
  Verbs,        \* the families of programs in play
  Resolutions,  \* what resolving a request may give: sets of policy records
  Faults,       \* which faults happen: "kill", "io", "broker"
  Nobody,       \* the owner of a free lock, the redeemer of an unspent receipt
  Other,        \* every other apt or dpkg frontend
  NoCid,        \* the empty correlation id
  MaxDbVer,     \* bound: others change the database no further than this version
  MaxSrcVer     \* bound: and the source list no further than this one

Dpkg(h) == <<"dpkg", h>>    \* the dpkg child of helper h, as a lock owner

ASSUME VerbsAssumption == Verbs \subseteq Families
ASSUME ResolutionsAssumption == Resolutions \subseteq SUBSET Records
ASSUME BoundsAssumption == MaxDbVer \in Nat /\ MaxSrcVer \in Nat
ASSUME CidAssumption == NoCid \notin Receipts
ASSUME OwnersAssumption ==
  /\ Nobody \notin Helpers /\ Other \notin Helpers /\ Nobody # Other
  /\ \A h \in Helpers : Dpkg(h) \notin Helpers \cup {Nobody, Other}

Effects == [fam: Families, uid: Users, ver: Nat]
NoEffect == [fam |-> "none"]
NoReq    == [fam |-> "none"]
NoFrame  == [status |-> "none"]
NoVer    == -1
Requests == [fam: Families, receipt: Receipts, cid: Receipts, uid: Users]
Cids     == Receipts \cup {NoCid}
Frames   == [status: Statuses, issued: BOOLEAN, cid: Cids]

VARIABLES
  \* the program, per helper
  pc, req,
  plan,       \* the effect the receipt is spent for, once the plan is digested
  outCid, status, issued,
  entered, began, applied,   \* the commit contexts of the effectors
  frame, exit,
  \* the broker and the connection of each helper to it
  bound,      \* receipt -> the effect previewed and authorised
  redeemer,   \* receipt -> the helper whose request spent it
  chan,
  \* locks: dpkg frontend and inner lock, lists lock
  frontend, inner, lists,
  \* the dpkg child of each helper: state, what it wrote, the version it met
  child, wrote, ranOn,
  \* the world: dpkg database and its health, source list, package indexes
  \* and whose refresh they are from
  dbVer, dbBroken, srcVer, indexOk, indexBy

progVars   == <<req, plan, outCid, status, issued>>
commitVars == <<entered, began, applied>>
endVars    == <<frame, exit>>
brokerVars == <<bound, redeemer>>
indexVars  == <<indexOk, indexBy>>
lockVars   == <<frontend, inner, lists>>
childVars  == <<child, wrote, ranOn>>
worldVars  == <<dbVer, dbBroken, srcVer, indexVars>>
vars == <<pc, progVars, commitVars, endVars, brokerVars, chan, lockVars,
          childVars, worldVars>>

NoMsg == [kind |-> "none", cid |-> NoCid]

Init ==
  /\ pc       = [h \in Helpers |-> "idle"]
  /\ req      = [h \in Helpers |-> NoReq]
  /\ plan     = [h \in Helpers |-> NoEffect]
  /\ outCid   = [h \in Helpers |-> NoCid]
  /\ status   = [h \in Helpers |-> "internal"]
  /\ issued   = [h \in Helpers |-> FALSE]
  /\ entered  = [h \in Helpers |-> FALSE]
  /\ began    = [h \in Helpers |-> FALSE]
  /\ applied  = [h \in Helpers |-> FALSE]
  /\ frame    = [h \in Helpers |-> NoFrame]
  /\ exit     = [h \in Helpers |-> -1]
  /\ bound    = [r \in Receipts |-> NoEffect]
  /\ redeemer = [r \in Receipts |-> Nobody]
  /\ chan     = [h \in Helpers |-> NoMsg]
  /\ frontend = Nobody /\ inner = Nobody /\ lists = Nobody
  /\ child    = [h \in Helpers |-> "none"]
  /\ wrote    = [h \in Helpers |-> "nothing"]
  /\ ranOn    = [h \in Helpers |-> NoVer]
  /\ dbVer = 0 /\ dbBroken \in BOOLEAN /\ srcVer = 0
  /\ indexOk \in BOOLEAN /\ indexBy = Nobody

At(h, label) == pc[h] = label
Goto(h, label) == pc' = [pc EXCEPT ![h] = label]
Fam(h) == req[h].fam
Possible(fault) == IF fault \in Faults THEN BOOLEAN ELSE {TRUE}

(* Leave the program with a status; the frame is written next. *)
Finish(h, st) ==
  /\ status' = [status EXCEPT ![h] = st]
  /\ Goto(h, "emit")

(* The version of what a plan of this family is resolved from. *)
VersionFor(fam) == IF fam = "update" THEN srcVer ELSE dbVer

-----------------------------------------------------------------------------
(* The caller: a lockless preview is authorised as an intent, then a helper *)
(* is launched with some receipt, the correlation id of some open intent,   *)
(* and whatever verb the caller picked.                                     *)

Authorise(r) ==
  /\ bound[r] = NoEffect
  /\ \E f \in Verbs, u \in Users :
       bound' = [bound EXCEPT ![r] = [fam |-> f, uid |-> u, ver |-> VersionFor(f)]]
  /\ UNCHANGED <<pc, progVars, commitVars, endVars, redeemer, chan, lockVars,
                 childVars, worldVars>>

Launch(h) ==
  /\ At(h, "idle")
  /\ \E f \in Verbs, r \in Receipts, c \in Receipts, u \in Users :
       /\ bound[r] # NoEffect /\ bound[c] # NoEffect
       /\ req' = [req EXCEPT ![h] = [fam |-> f, receipt |-> r, cid |-> c, uid |-> u]]
  /\ Goto(h, "start")
  /\ UNCHANGED <<plan, outCid, status, issued, commitVars, endVars, brokerVars,
                 chan, lockVars, childVars, worldVars>>

-----------------------------------------------------------------------------
(* Start-up: result channel, PKEXEC_UID, request, hygiene, apt.             *)

(* No result channel: no frame at all. *)
NoChannel(h) ==
  /\ At(h, "start") /\ "io" \in Faults
  /\ Goto(h, "exiting")
  /\ UNCHANGED <<progVars, commitVars, endVars, brokerVars, chan, lockVars,
                 childVars, worldVars>>

(* Before the request has parsed there is no correlation id to report. *)
RejectRequest(h) ==
  /\ At(h, "start") /\ "io" \in Faults
  /\ Finish(h, "internal")
  /\ UNCHANGED <<req, plan, outCid, issued, commitVars, endVars, brokerVars, chan,
                 lockVars, childVars, worldVars>>

(* The result carries the request's own correlation id until the redeem. *)
Startup(h) ==
  /\ At(h, "start")
  /\ outCid' = [outCid EXCEPT ![h] = req[h].cid]
  /\ \E clean \in Possible("io") :   \* hygiene, apt configuration and system
       IF clean THEN Goto(h, "lock") /\ UNCHANGED status ELSE Finish(h, "internal")
  /\ UNCHANGED <<req, plan, issued, commitVars, endVars, brokerVars, chan, lockVars,
                 childVars, worldVars>>

-----------------------------------------------------------------------------
(* The apt lock: the frontend lock and, inside it, the database lock.  A    *)
(* refresh only probes the lists lock and lets it go again.                 *)

TakeLock(h) ==
  /\ At(h, "lock") /\ Fam(h) # "update"
  /\ frontend = Nobody /\ inner = Nobody
  /\ frontend' = h /\ inner' = h
  /\ Goto(h, "resolve")
  /\ UNCHANGED <<progVars, commitVars, endVars, brokerVars, chan, lists, childVars,
                 worldVars>>

ProbeLists(h) ==
  /\ At(h, "lock") /\ Fam(h) = "update"
  /\ lists = Nobody
  /\ Goto(h, "resolve")
  /\ UNCHANGED <<progVars, commitVars, endVars, brokerVars, chan, lockVars,
                 childVars, worldVars>>

LockBusy_Waits(h) == At(h, "lock") /\ FALSE /\ UNCHANGED vars
LockBusy(h) ==
  /\ At(h, "lock")
  /\ \/ "io" \in Faults
     \/ Fam(h) = "update" /\ lists # Nobody
     \/ Fam(h) # "update" /\ ~(frontend = Nobody /\ inner = Nobody)
  /\ Finish(h, "apt_locked")
  /\ UNCHANGED <<req, plan, outCid, issued, commitVars, endVars, brokerVars, chan,
                 lockVars, childVars, worldVars>>

-----------------------------------------------------------------------------
(* Resolve, policy, digest.  Every way out of here leaves the receipt       *)
(* unspent.                                                                 *)

ResolveFailures(h) ==
  (IF Fam(h) \in {"txn", "hold"} THEN {"resolve_failed"} ELSE {})
    \cup (IF Fam(h) = "configure" /\ dbBroken THEN {"dpkg_broken"} ELSE {})
    \cup (IF "io" \in Faults THEN {"internal"} ELSE {})

ResolveFails(h) ==
  /\ At(h, "resolve")
  /\ \E st \in ResolveFailures(h) : Finish(h, st)
  /\ UNCHANGED <<req, plan, outCid, issued, commitVars, endVars, brokerVars, chan,
                 lockVars, childVars, worldVars>>

RefusePlan(h) ==
  /\ At(h, "resolve")
  /\ \E recs \in Resolutions :
       LET verdict == PlanCheck(Fam(h), recs)
       IN  verdict # "ok" /\ Finish(h, PlanStatus(verdict))
  /\ UNCHANGED <<req, plan, outCid, issued, commitVars, endVars, brokerVars, chan,
                 lockVars, childVars, worldVars>>

AcceptPlan(h) ==
  /\ At(h, "resolve")
  /\ \E recs \in Resolutions : PlanCheck(Fam(h), recs) = "ok"
  /\ plan' = [plan EXCEPT ![h] = [fam |-> Fam(h), uid |-> req[h].uid,
                                  ver |-> VersionFor(Fam(h))]]
  /\ Goto(h, "redeem")
  /\ UNCHANGED <<req, outCid, status, issued, commitVars, endVars, brokerVars, chan,
                 lockVars, childVars, worldVars>>

-----------------------------------------------------------------------------
(* Redeem: one request on one connection, under a deadline.                 *)

(* Whatever is not a plain acceptance or refusal leaves the broker's side  *)
(* unknown.                                                                *)
AfterRedeem_GateRefused(h, verdict) ==
  /\ outCid' = [outCid EXCEPT ![h] = CidAfterRedeem(verdict, req[h].cid, NoCid)]
  /\ IF verdict \in {"OK", "REFUSED"} THEN Goto(h, "gate") /\ UNCHANGED status
                                      ELSE Finish(h, "no_intent")
AfterRedeem(h, verdict) ==
  /\ outCid' = [outCid EXCEPT ![h] = CidAfterRedeem(verdict, req[h].cid, NoCid)]
  /\ IF verdict = "OK" THEN Goto(h, "gate") /\ UNCHANGED status
                       ELSE Finish(h, "no_intent")

SendRedeem(h) ==
  /\ At(h, "redeem")
  /\ chan' = [chan EXCEPT ![h] = [kind |-> "request", cid |-> NoCid]]
  /\ Goto(h, "await")
  /\ UNCHANGED <<progVars, commitVars, endVars, brokerVars, lockVars, childVars,
                 worldVars>>

(* No connection, a peer that is not root, a request cut short. *)
SendFails(h) ==
  /\ At(h, "redeem") /\ "io" \in Faults
  /\ AfterRedeem(h, "PROTOCOL")
  /\ UNCHANGED <<req, plan, issued, commitVars, endVars, brokerVars, chan, lockVars,
                 childVars, worldVars>>

ReceiveReply(h) ==
  /\ At(h, "await")
  /\ chan[h].kind \in {"ok", "refused", "malformed"}
  /\ AfterRedeem(h, Redeem(chan[h], req[h].cid))
  /\ chan' = [chan EXCEPT ![h] = NoMsg]
  /\ UNCHANGED <<req, plan, issued, commitVars, endVars, brokerVars, lockVars,
                 childVars, worldVars>>

(* The deadline passes, or the connection ends, before a whole reply.  The *)
(* request itself may still reach the broker.                              *)
ReplyLost_NoDeadline(h) == At(h, "await") /\ FALSE /\ UNCHANGED vars
ReplyLost(h) ==
  /\ At(h, "await")
  /\ AfterRedeem(h, "PROTOCOL")
  /\ UNCHANGED <<req, plan, issued, commitVars, endVars, brokerVars, chan, lockVars,
                 childVars, worldVars>>

(* The broker: spends a receipt once, for the effect it was bound to.      *)
Redeemable(h) == /\ bound[req[h].receipt] = plan[h]
                 /\ redeemer[req[h].receipt] = Nobody

Reply(h, kind, c) == chan' = [chan EXCEPT ![h] = [kind |-> kind, cid |-> c]]

BrokerAccepts(h) ==
  /\ chan[h].kind = "request" /\ Redeemable(h)
  /\ redeemer' = [redeemer EXCEPT ![req[h].receipt] = h]
  /\ Reply(h, "ok", req[h].receipt)
  /\ UNCHANGED <<pc, progVars, commitVars, endVars, bound, lockVars, childVars,
                 worldVars>>

(* Not redeemable, or turned down for its own reasons: a rate limit, an    *)
(* expired receipt, a record it could not persist.                         *)
BrokerRefuses(h) ==
  /\ chan[h].kind = "request"
  /\ Redeemable(h) => "broker" \in Faults
  /\ Reply(h, "refused", NoCid)
  /\ UNCHANGED <<pc, progVars, commitVars, endVars, brokerVars, lockVars, childVars,
                 worldVars>>

(* It dies or garbles its answer, before or after the receipt is spent.    *)
BrokerFails(h) ==
  /\ chan[h].kind = "request" /\ "broker" \in Faults
  /\ \E spend \in BOOLEAN :
       IF spend /\ Redeemable(h)
       THEN redeemer' = [redeemer EXCEPT ![req[h].receipt] = h]
       ELSE UNCHANGED redeemer
  /\ \E kind \in {"none", "malformed"} : Reply(h, kind, NoCid)
  /\ UNCHANGED <<pc, progVars, commitVars, endVars, bound, lockVars, childVars,
                 worldVars>>

-----------------------------------------------------------------------------
(* The gate and the commits.  Only an accepted plan with a correlation id   *)
(* enters a committer.                                                      *)

FirstCommitStep(fam) == CASE fam = "txn"    -> "fetch"
                          [] fam = "update" -> "refresh"
                          [] OTHER          -> "unlock"

Gate(h) ==
  /\ At(h, "gate")
  /\ entered' = [entered EXCEPT ![h] = outCid[h] # NoCid]
  /\ Goto(h, IF outCid[h] # NoCid THEN FirstCommitStep(Fam(h)) ELSE "settle")
  /\ UNCHANGED <<progVars, began, applied, endVars, brokerVars, chan, lockVars,
                 childVars, worldVars>>

(* The archives are fetched before anything is applied. *)
Fetch(h) ==
  /\ At(h, "fetch")
  /\ \E fetched \in BOOLEAN : Goto(h, IF fetched THEN "unlock" ELSE "settle")
  /\ UNCHANGED <<progVars, commitVars, endVars, brokerVars, chan, lockVars,
                 childVars, worldVars>>

(* UnLockInner: a transaction counts as begun from here; hold and          *)
(* configure only once their dpkg child exists.                            *)
HandOver_DropsFrontend(h) ==
  /\ At(h, "unlock")
  /\ inner = h /\ inner' = Nobody /\ frontend' = Nobody
  /\ began' = [began EXCEPT ![h] = Fam(h) = "txn"]
  /\ Goto(h, "spawn")
  /\ UNCHANGED <<progVars, entered, applied, endVars, brokerVars, chan, lists,
                 childVars, worldVars>>
HandOver(h) ==
  /\ At(h, "unlock")
  /\ inner = h /\ inner' = Nobody
  /\ began' = [began EXCEPT ![h] = Fam(h) = "txn"]
  /\ Goto(h, "spawn")
  /\ UNCHANGED <<progVars, entered, applied, endVars, brokerVars, chan, frontend,
                 lists, childVars, worldVars>>

HandOverFails(h) ==
  /\ At(h, "unlock") /\ "io" \in Faults
  /\ Goto(h, "settle")
  /\ UNCHANGED <<progVars, commitVars, endVars, brokerVars, chan, lockVars,
                 childVars, worldVars>>

Spawn(h) ==
  /\ At(h, "spawn")
  /\ child' = [child EXCEPT ![h] = "spawned"]
  /\ began' = [began EXCEPT ![h] = TRUE]
  /\ Goto(h, "wait")
  /\ UNCHANGED <<progVars, entered, applied, endVars, brokerVars, chan, lockVars,
                 wrote, ranOn, worldVars>>

SpawnFails(h) ==
  /\ At(h, "spawn") /\ "io" \in Faults
  /\ Goto(h, "relock")
  /\ UNCHANGED <<progVars, commitVars, endVars, brokerVars, chan, lockVars,
                 childVars, worldVars>>

(* The child has exited; hold also needs its whole payload delivered. *)
Wait_Unreaped(h) ==
  /\ At(h, "wait")
  /\ Goto(h, "relock")
  /\ UNCHANGED <<progVars, commitVars, endVars, brokerVars, chan, lockVars,
                 childVars, worldVars>>
Wait(h) ==
  /\ At(h, "wait") /\ child[h] \in {"ok", "failed"}
  /\ \E delivered \in (IF Fam(h) = "hold" THEN Possible("io") ELSE {TRUE}) :
       applied' = [applied EXCEPT ![h] = child[h] = "ok" /\ delivered]
  /\ Goto(h, "relock")
  /\ UNCHANGED <<progVars, entered, began, endVars, brokerVars, chan, lockVars,
                 childVars, worldVars>>

(* LockInner: refused when somebody holds the lock, and it may fail anyhow. *)
Relock(h) ==
  /\ At(h, "relock")
  /\ \E got \in {inner = Nobody} \cup (IF "io" \in Faults THEN {FALSE} ELSE {}) :
       /\ inner' = IF got THEN h ELSE inner
       /\ applied' = [applied EXCEPT ![h] = LockHandoff(TRUE, @, got).committed]
  /\ Goto(h, "settle")
  /\ UNCHANGED <<progVars, entered, began, endVars, brokerVars, chan, frontend,
                 lists, childVars, worldVars>>

(* ListUpdate takes the lists lock itself and fetches the list that was     *)
(* digested, not the one on disk now.                                       *)
Refresh_Rereads(h) ==
  /\ At(h, "refresh") /\ lists = Nobody
  /\ lists' = h
  /\ ranOn' = [ranOn EXCEPT ![h] = srcVer]
  /\ Goto(h, "refreshing")
  /\ UNCHANGED <<progVars, commitVars, endVars, brokerVars, chan, frontend, inner,
                 child, wrote, worldVars>>
Refresh(h) ==
  /\ At(h, "refresh") /\ lists = Nobody
  /\ lists' = h
  /\ ranOn' = [ranOn EXCEPT ![h] = plan[h].ver]
  /\ Goto(h, "refreshing")
  /\ UNCHANGED <<progVars, commitVars, endVars, brokerVars, chan, frontend, inner,
                 child, wrote, worldVars>>

(* Somebody took the lists lock after the probe let it go. *)
RefreshBusy(h) ==
  /\ At(h, "refresh") /\ lists # Nobody
  /\ Goto(h, "settle")
  /\ UNCHANGED <<progVars, commitVars, endVars, brokerVars, chan, lockVars,
                 childVars, worldVars>>

RefreshEnds(h) ==
  /\ At(h, "refreshing")
  /\ \E every, readable \in BOOLEAN :   \* every source fetched; the result reads
       /\ applied' = [applied EXCEPT ![h] = every]
       /\ wrote'   = [wrote EXCEPT ![h] = IF every THEN "all" ELSE "part"]
       /\ indexOk' = readable /\ indexBy' = h
  /\ lists' = Nobody
  /\ Goto(h, "settle")
  /\ UNCHANGED <<progVars, entered, began, endVars, brokerVars, chan, frontend,
                 inner, child, ranOn, dbVer, dbBroken, srcVer>>

-----------------------------------------------------------------------------
(* Ground truth is read back once the effect may have run, whatever the     *)
(* committer returned; a read that fails counts against success.            *)

SettledStatus(h, read) ==
  CASE Fam(h) = "update" -> UpdateClassify(entered[h], applied[h], indexOk /\ read)
    [] Fam(h) = "hold"   -> HoldClassify(entered[h], applied[h], wrote[h] = "all" /\ read)
    [] Fam(h) = "txn"    -> TxnClassify(entered[h], began[h], applied[h], dbBroken \/ ~read)
    [] OTHER             -> TxnClassify(entered[h], entered[h], applied[h], dbBroken \/ ~read)

(* effect_issued: a refresh is issued once entered, the rest once begun. *)
IssuedAfter_Applied(h) == applied[h]
IssuedAfter(h) == IF Fam(h) = "update" THEN entered[h] ELSE began[h]

Settle(h) ==
  /\ At(h, "settle")
  /\ \E read \in Possible("io") : Finish(h, SettledStatus(h, read))
  /\ issued' = [issued EXCEPT ![h] = IssuedAfter(h)]
  /\ UNCHANGED <<req, plan, outCid, commitVars, endVars, brokerVars, chan, lockVars,
                 childVars, worldVars>>

(* The frame is written while the locks are still held; the step is the end *)
(* of the write, which the caller can put off for as long as it leaves its  *)
(* pipe full.  Module Descriptors has the loop around write.                *)
Emit(h) ==
  /\ At(h, "emit")
  /\ \E written \in Possible("io") :
       IF written
       THEN frame' = [frame EXCEPT ![h] =
              [status |-> status[h], issued |-> issued[h], cid |-> outCid[h]]]
       ELSE UNCHANGED frame
  /\ Goto(h, "exiting")
  /\ UNCHANGED <<progVars, commitVars, exit, brokerVars, chan, lockVars, childVars,
                 worldVars>>

ReleaseAll(h) ==
  /\ frontend' = IF frontend = h THEN Nobody ELSE frontend
  /\ inner'    = IF inner = h THEN Nobody ELSE inner
  /\ lists'    = IF lists = h THEN Nobody ELSE lists

(* No unlock anywhere in the code: the kernel drops the locks at exit.  A   *)
(* frame that was written counts as not emitted when SIGPIPE cannot be put  *)
(* back.                                                                    *)
Exit(h) ==
  /\ At(h, "exiting")
  /\ \E emitted \in Possible("io") :
       exit' = [exit EXCEPT ![h] =
                  IF emitted /\ frame[h].status \in Successes THEN 0 ELSE 1]
  /\ ReleaseAll(h)
  /\ Goto(h, "exited")
  /\ UNCHANGED <<progVars, commitVars, frame, brokerVars, chan, childVars, worldVars>>

(* A helper may be killed at any point; its dpkg child and the request it  *)
(* has sent live on.                                                       *)
Kill(h) ==
  /\ "kill" \in Faults
  /\ pc[h] \notin {"idle", "exited", "dead"}
  /\ ReleaseAll(h)
  /\ Goto(h, "dead")
  /\ UNCHANGED <<progVars, commitVars, endVars, brokerVars, chan, childVars, worldVars>>

-----------------------------------------------------------------------------
(* The dpkg child runs with DPKG_FRONTEND_LOCKED: it skips the frontend     *)
(* lock and takes the inner one, without waiting for it.                    *)

ChildLocks(h) ==
  /\ child[h] = "spawned" /\ inner = Nobody
  /\ inner' = Dpkg(h)
  /\ child' = [child EXCEPT ![h] = "running"]
  /\ ranOn' = [ranOn EXCEPT ![h] = dbVer]
  /\ UNCHANGED <<pc, progVars, commitVars, endVars, brokerVars, chan, frontend,
                 lists, wrote, worldVars>>

ChildGivesUp(h) ==
  /\ child[h] = "spawned"
  /\ child' = [child EXCEPT ![h] = "failed"]
  /\ UNCHANGED <<pc, progVars, commitVars, endVars, brokerVars, chan, lockVars,
                 wrote, ranOn, worldVars>>

(* A selection write runs no maintainer script and cannot break packages.  *)
ChildWrites(h) ==
  /\ child[h] = "running" /\ wrote[h] = "nothing"
  /\ \E w \in {"part", "all"} : wrote' = [wrote EXCEPT ![h] = w]
  /\ \E b \in (IF Fam(h) = "hold" THEN {dbBroken} ELSE BOOLEAN) : dbBroken' = b
  /\ dbVer' = dbVer + 1
  /\ UNCHANGED <<pc, progVars, commitVars, endVars, brokerVars, chan, lockVars,
                 child, ranOn, srcVer, indexVars>>

ChildExits(h) ==
  /\ child[h] = "running"
  /\ \E ok \in BOOLEAN :
       /\ ok => wrote[h] = "all"
       /\ child' = [child EXCEPT ![h] = IF ok THEN "ok" ELSE "failed"]
  /\ inner' = Nobody
  /\ UNCHANGED <<pc, progVars, commitVars, endVars, brokerVars, chan, frontend,
                 lists, wrote, ranOn, worldVars>>

(* Everybody else keeps to the same locks: an apt frontend or a plain dpkg  *)
(* for the database, another refresh for the lists.  Nobody locks the       *)
(* source list.                                                             *)
OtherLocks ==
  /\ frontend = Nobody /\ inner = Nobody
  /\ frontend' = Other /\ inner' = Other
  /\ UNCHANGED <<pc, progVars, commitVars, endVars, brokerVars, chan, lists,
                 childVars, worldVars>>

OtherWrites ==
  /\ frontend = Other /\ inner = Other /\ dbVer < MaxDbVer
  /\ dbVer' = dbVer + 1 /\ dbBroken' \in BOOLEAN
  /\ UNCHANGED <<pc, progVars, commitVars, endVars, brokerVars, chan, lockVars,
                 childVars, srcVer, indexVars>>

OtherUnlocks ==
  /\ frontend = Other
  /\ frontend' = Nobody /\ inner' = Nobody
  /\ UNCHANGED <<pc, progVars, commitVars, endVars, brokerVars, chan, lists,
                 childVars, worldVars>>

OtherLists ==
  /\ lists = Nobody
  /\ lists' = Other
  /\ UNCHANGED <<pc, progVars, commitVars, endVars, brokerVars, chan, frontend,
                 inner, childVars, worldVars>>

OtherRefreshes ==
  /\ lists = Other
  /\ lists' = Nobody
  /\ indexOk' \in BOOLEAN /\ indexBy' = Other
  /\ UNCHANGED <<pc, progVars, commitVars, endVars, brokerVars, chan, frontend,
                 inner, childVars, dbVer, dbBroken, srcVer>>

EditSources ==
  /\ srcVer < MaxSrcVer
  /\ srcVer' = srcVer + 1
  /\ UNCHANGED <<pc, progVars, commitVars, endVars, brokerVars, chan, lockVars,
                 childVars, dbVer, dbBroken, indexVars>>

-----------------------------------------------------------------------------
HelperStep(h) ==
  \/ NoChannel(h) \/ RejectRequest(h) \/ Startup(h)
  \/ TakeLock(h) \/ ProbeLists(h) \/ LockBusy(h)
  \/ ResolveFails(h) \/ RefusePlan(h) \/ AcceptPlan(h)
  \/ SendRedeem(h) \/ SendFails(h) \/ ReceiveReply(h) \/ ReplyLost(h)
  \/ Gate(h) \/ Fetch(h) \/ HandOver(h) \/ HandOverFails(h)
  \/ Spawn(h) \/ SpawnFails(h) \/ Wait(h) \/ Relock(h)
  \/ Refresh(h) \/ RefreshBusy(h) \/ RefreshEnds(h)
  \/ Settle(h) \/ Emit(h) \/ Exit(h)

BrokerStep(h) == BrokerAccepts(h) \/ BrokerRefuses(h) \/ BrokerFails(h)

ChildStep(h) == ChildLocks(h) \/ ChildGivesUp(h) \/ ChildWrites(h) \/ ChildExits(h)

OtherStep == \/ OtherLocks \/ OtherWrites \/ OtherUnlocks
             \/ OtherLists \/ OtherRefreshes \/ EditSources

Next ==
  \/ \E r \in Receipts : Authorise(r)
  \/ \E h \in Helpers :
       Launch(h) \/ HelperStep(h) \/ Kill(h) \/ BrokerStep(h) \/ ChildStep(h)
  \/ OtherStep

Spec == Init /\ [][Next]_vars

(***************************************************************************)
(* The helper is straight-line code that the kernel schedules; its lock    *)
(* wait and its broker exchange are bounded by timeouts.  Three of its     *)
(* steps end when somebody else lets them: the fetch of the archives and   *)
(* the refresh when the mirrors answer, the write of the frame when the    *)
(* caller makes room.  A fourth, Wait, is enabled once dpkg has ended.     *)
(* Nothing is assumed of the mirrors, the caller, dpkg, the broker or the  *)
(* other frontends, and nobody has to be killed.                           *)
(***************************************************************************)
OwnStep(h) == HelperStep(h) /\ pc[h] \notin {"fetch", "refreshing", "emit"}

Fairness == \A h \in Helpers : WF_vars(OwnStep(h))

LiveSpec == Spec /\ Fairness

-----------------------------------------------------------------------------
(* Properties.                                                             *)

Labels == {"idle", "start", "lock", "resolve", "redeem", "await", "gate",
           "fetch", "unlock", "spawn", "wait", "relock", "refresh",
           "refreshing", "settle", "emit", "exiting", "exited", "dead"}

ProgType ==
  /\ pc \in [Helpers -> Labels]
  /\ req \in [Helpers -> Requests \cup {NoReq}]
  /\ plan \in [Helpers -> Effects \cup {NoEffect}]
  /\ outCid \in [Helpers -> Cids]
  /\ status \in [Helpers -> Statuses]
  /\ issued \in [Helpers -> BOOLEAN]

CommitType ==
  /\ entered \in [Helpers -> BOOLEAN]
  /\ began \in [Helpers -> BOOLEAN]
  /\ applied \in [Helpers -> BOOLEAN]

EndType ==
  /\ frame \in [Helpers -> Frames \cup {NoFrame}]
  /\ exit \in [Helpers -> {-1, 0, 1}]

BrokerType ==
  /\ bound \in [Receipts -> Effects \cup {NoEffect}]
  /\ redeemer \in [Receipts -> Helpers \cup {Nobody}]
  /\ chan \in [Helpers -> [kind: {"none", "request", "ok", "refused", "malformed"},
                           cid: Cids]]

LockType ==
  /\ frontend \in Helpers \cup {Nobody, Other}
  /\ inner \in Helpers \cup {Nobody, Other} \cup {Dpkg(h) : h \in Helpers}
  /\ lists \in Helpers \cup {Nobody, Other}

ChildType ==
  /\ child \in [Helpers -> {"none", "spawned", "running", "ok", "failed"}]
  /\ wrote \in [Helpers -> {"nothing", "part", "all"}]
  /\ ranOn \in [Helpers -> Nat \cup {NoVer}]

WorldType ==
  /\ dbVer \in Nat /\ srcVer \in Nat
  /\ dbBroken \in BOOLEAN /\ indexOk \in BOOLEAN
  /\ indexBy \in Helpers \cup {Nobody, Other}

(* Every variable stays in its range. *)
TypeOK ==
  ProgType /\ CommitType /\ EndType /\ BrokerType /\ LockType /\ ChildType /\ WorldType

(* An effect of h exists: a dpkg child was spawned, or the refresh began. *)
Started(h) == child[h] # "none" \/ ranOn[h] # NoVer

(* The receipt of h was spent by the request of h. *)
SpentBy(h) == redeemer[req[h].receipt] = h

Framed(h)  == frame[h] # NoFrame
Trusted(h) == Framed(h) /\ frame[h].cid = req[h].cid

(***************************************************************************)
(* No effect starts unless this very helper's request spent the receipt,   *)
(* the receipt was bound to exactly the plan this helper resolved under    *)
(* the lock, for the same principal, and the correlation id it reports     *)
(* under is that receipt's.  (redeem.c, plan.c, effect.c.)                 *)
(***************************************************************************)
AuthorisedEffect ==
  \A h \in Helpers : Started(h) =>
    SpentBy(h) /\ bound[req[h].receipt] = plan[h] /\ req[h].cid = req[h].receipt

(***************************************************************************)
(* What dpkg starts on is what was resolved and digested: the database has *)
(* not moved between the resolve under the frontend lock and the child's   *)
(* start, although the inner lock was let go in between; and a refresh     *)
(* fetches the list that was digested.  Only the dpkg child of a helper    *)
(* that was killed can come between.  (apt_txn.cc, apt_hold.cc,            *)
(* apt_configure.cc around UnLockInner.)                                   *)
(***************************************************************************)
PlanIsCurrent ==
  \A h \in Helpers : ranOn[h] # NoVer /\ ranOn[h] # plan[h].ver =>
    \E g \in Helpers : pc[g] = "dead" /\ child[g] # "none"

(***************************************************************************)
(* A frame that says effect_issued=false is never wrong: no child of this  *)
(* helper exists and none will.  (effect_issued in the four effectors.)    *)
(***************************************************************************)
NotIssuedIsHonest ==
  \A h \in Helpers : Framed(h) /\ ~frame[h].issued => ~Started(h)

(* The statuses a caller may answer with a retry on the same receipt. *)
UnspentStatuses == {"no_op", "apt_locked", "package_not_owned", "held",
                    "protected_package", "no_intent", "resolve_failed", "internal"}

(***************************************************************************)
(* A frame the caller trusts, with a status that stands for "refused       *)
(* before the receipt was spent", means this helper's request did not      *)
(* spend the receipt, and is not still on its way to the broker.  A reply  *)
(* that is lost or not understood therefore never yields such a frame.     *)
(* (redeem_tail's correlation id discipline in plan.c.)                    *)
(***************************************************************************)
TrustedRefusalIsUnspent ==
  \A h \in Helpers : Trusted(h) /\ frame[h].status \in UnspentStatuses =>
    ~SpentBy(h) /\ chan[h].kind # "request"

(***************************************************************************)
(* A success is real: "ok" means the receipt was spent by this helper, the *)
(* effect was applied whole, and the frame carries the intent's id; "no_op"*)
(* means nothing ran.  Exit code 0 says no more than such a frame.         *)
(***************************************************************************)
SuccessIsReal ==
  \A h \in Helpers :
    /\ Framed(h) /\ frame[h].status = "ok" =>
         /\ Trusted(h) /\ frame[h].issued /\ SpentBy(h)
         /\ wrote[h] = "all" /\ child[h] = IF Fam(h) = "update" THEN "none" ELSE "ok"
    /\ exit[h] = 0 => Framed(h) /\ (frame[h].status = "ok" \/ ~Started(h))

(***************************************************************************)
(* The system a success speaks of is in order when the caller reads of it: *)
(* as long as the helper still has its lock, a transaction or a configure  *)
(* reported as ok leaves no broken package (unless the child of a killed   *)
(* helper broke one since), and a refresh reported as ok leaves indexes    *)
(* that read, until somebody else refreshes them.  (The order of the       *)
(* questions in apt_status.c, the ground truth of apt_txn.cc,              *)
(* apt_configure.cc and apt_update.cc, the frame written under the locks.) *)
(***************************************************************************)
SuccessIsHealthy ==
  \A h \in Helpers : Framed(h) /\ frame[h].status = "ok" =>
    /\ Fam(h) \in {"txn", "configure"} /\ frontend = h /\ dbBroken =>
         \E g \in Helpers : pc[g] = "dead" /\ child[g] # "none"
    /\ Fam(h) = "update" /\ indexBy = h => indexOk

(***************************************************************************)
(* While a helper keeps the frontend lock the database changes only by its *)
(* own child, or by a child a killed helper left behind.                   *)
(***************************************************************************)
FrontendProtectsDb ==
  [][\A h \in Helpers : frontend = h /\ frontend' = h /\ dbVer' # dbVer =>
       \E g \in Helpers : child[g] = "running" /\ (g = h \/ pc[g] = "dead")]_vars

Acts == {[by |-> h, receipt |-> req[h].receipt, effect |-> plan[h]] :
           h \in {g \in Helpers : Started(g)}}

Intent == INSTANCE EffectIntent WITH Actors <- Helpers, spentBy <- redeemer,
                                     acted <- Acts

(* Spending and acting implement the abstract promise of EffectIntent. *)
ImplementsIntent == Intent!Spec

(* Whom helper h is waiting for with no deadline of its own: the mirrors,  *)
(* its dpkg child, the reader of its result pipe.                          *)
Waiting(h) == \/ pc[h] \in {"fetch", "refreshing", "emit"}
              \/ At(h, "wait") /\ child[h] \in {"spawned", "running"}

(***************************************************************************)
(* Every launched helper ends, whatever the broker and the other frontends *)
(* do, unless it waits for ever for one of these: it never hangs on a lock *)
(* it cannot get, on a broker that does not answer or on a child that has  *)
(* ended.  (The lock timeout, the deadline of transport.c, the waitpid of  *)
(* spawn.c.)                                                               *)
(***************************************************************************)
EveryHelperEnds ==
  \A h \in Helpers :
    pc[h] # "idle" ~> (pc[h] \in {"exited", "dead"} \/ []Waiting(h))

(***************************************************************************)
(* A lock a helper has taken is free again sooner or later, with the same  *)
(* exception.  (No unlock in the code: the locks end with the process.)    *)
(***************************************************************************)
LocksComeFree ==
  \A h \in Helpers : /\ frontend = h ~> (frontend # h \/ []Waiting(h))
                     /\ inner = h ~> (inner # h \/ []Waiting(h))
                     /\ lists = h ~> (lists # h \/ []Waiting(h))
-----------------------------------------------------------------------------
(* What a comment of the code says, which the model does not bear out.      *)

(***************************************************************************)
(* "COMMIT_FAILED (operation failed, prior selections intact)"             *)
(* (apt_status.h, of hold).  Of the failed holds only those are looked at  *)
(* whose dpkg succeeded, so that the failure is in what hold_commit does   *)
(* afterwards: taking the inner lock again.                                *)
(***************************************************************************)
FailedHoldKeepsSelections ==
  \A h \in Helpers :
    Framed(h) /\ frame[h].status = "operation_failed" /\ Fam(h) = "hold"
      /\ child[h] = "ok" => wrote[h] = "nothing"
=============================================================================
