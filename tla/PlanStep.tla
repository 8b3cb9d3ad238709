------------------------------ MODULE PlanStep ------------------------------
(***************************************************************************)
(* What is decided between a resolved plan and the gate: the policy over   *)
(* the records (policy.c), the per-mechanism checks that come before the   *)
(* receipt is spent (plan.c), the reading of the broker's reply            *)
(* (redeem.c) and the correlation id the result may carry afterwards.      *)
(***************************************************************************)
EXTENDS AptStatus

Families == {"txn", "update", "hold", "configure"}

(* A resolved change, reduced to what the policy looks at. *)
Records == [owned: BOOLEAN, held: BOOLEAN, critical: BOOLEAN, removal: BOOLEAN]

PolicyCheck(recs) ==
  IF \E r \in recs : r.owned THEN "not_owned"
  ELSE IF \E r \in recs : r.held THEN "held"
  ELSE IF \E r \in recs : r.removal /\ r.critical THEN "protected"
  ELSE "ok"

(***************************************************************************)
(* The checks made before the receipt is spent: an empty plan is a no-op;  *)
(* a transaction meets the whole policy, hold and configure the ownership  *)
(* rule alone, a refresh none.                                             *)
(***************************************************************************)
PlanCheck(fam, recs) ==
  IF recs = {} THEN "no_op"
  ELSE IF fam = "txn" THEN PolicyCheck(recs)
  ELSE IF fam \in {"hold", "configure"} /\ \E r \in recs : r.owned THEN "not_owned"
  ELSE "ok"

(* The status each effector reports for a plan step that is not "ok". *)
PlanStatus_RawVerdict(verdict) == verdict
PlanStatus(verdict) ==
  CASE verdict = "no_op"     -> "no_op"
    [] verdict = "not_owned" -> "package_not_owned"
    [] verdict = "held"      -> "held"
    [] verdict = "protected" -> "protected_package"
    [] OTHER                 -> "internal"

-----------------------------------------------------------------------------
(***************************************************************************)
(* The broker's reply as the client reads it.  A reply is a record         *)
(* [kind, cid]; "malformed" stands for everything the strict reader turns  *)
(* down: not JSON, not an object, an extra key, a missing or false         *)
(* "persisted", an error code outside the closed set.                      *)
(***************************************************************************)
Redeem_AnyCid(reply, expectedCid) ==
  CASE reply.kind = "ok"      -> "OK"
    [] reply.kind = "refused" -> "REFUSED"
    [] OTHER                  -> "PROTOCOL"
Redeem(reply, expectedCid) ==
  CASE reply.kind = "ok" /\ reply.cid = expectedCid -> "OK"
    [] reply.kind = "ok" /\ reply.cid # expectedCid -> "CID_MISMATCH"
    [] reply.kind = "refused"                       -> "REFUSED"
    [] OTHER                                        -> "PROTOCOL"

(***************************************************************************)
(* The correlation id after the redeem: the request's own when the broker  *)
(* accepted (the ids are then equal) or definitively refused, and none     *)
(* when what the broker did is unknown.                                    *)
(***************************************************************************)
CidAfterRedeem_StaleEcho(verdict, expectedCid, noCid) == expectedCid
CidAfterRedeem(verdict, expectedCid, noCid) ==
  IF verdict \in {"OK", "REFUSED"} THEN expectedCid ELSE noCid
=============================================================================
