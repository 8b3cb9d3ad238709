----------------------------- MODULE AptStatus -----------------------------
(***************************************************************************)
(* The closed set of outcomes a helper reports (apt_status.h, named on the *)
(* wire by result.c) and the pure classifiers that turn what happened      *)
(* after the gate into one of them (apt_status.c).  Nothing here has       *)
(* state; the booleans are read by the effectors of module Pkgexec.        *)
(***************************************************************************)

Statuses == {"ok", "no_op", "apt_locked", "package_not_owned", "held",
             "protected_package", "no_intent", "resolve_failed",
             "not_applied", "operation_failed", "dpkg_broken", "internal"}

(* A package transaction, and configure with began == entered. *)
TxnClassify_CommittedFirst(entered, began, committed, broken) ==
  IF ~entered       THEN "internal"
  ELSE IF ~began    THEN "not_applied"
  ELSE IF committed THEN "ok"
  ELSE IF broken    THEN "dpkg_broken"
  ELSE "operation_failed"
TxnClassify(entered, began, committed, broken) ==
  IF ~entered       THEN "internal"
  ELSE IF ~began    THEN "not_applied"
  ELSE IF broken    THEN "dpkg_broken"
  ELSE IF committed THEN "ok"
  ELSE "operation_failed"

(* A list refresh. *)
UpdateClassify_FetchedOnly(entered, refreshOk, readable) ==
  IF ~entered THEN "internal" ELSE IF refreshOk THEN "ok" ELSE "operation_failed"
UpdateClassify(entered, refreshOk, readable) ==
  IF ~entered THEN "internal"
  ELSE IF refreshOk /\ readable THEN "ok" ELSE "operation_failed"

(* A selection change. *)
HoldClassify(entered, applied, matches) ==
  IF ~entered THEN "internal"
  ELSE IF applied /\ matches THEN "ok" ELSE "operation_failed"

(***************************************************************************)
(* The hand-off of the inner dpkg lock: no hand-off means dpkg never ran,  *)
(* and a commit is clean only if dpkg completed and the lock was re-taken. *)
(***************************************************************************)
LockHandoff_IgnoresDpkg(unlocked, completed, relocked) ==
  [began |-> unlocked, committed |-> unlocked /\ relocked]
LockHandoff(unlocked, completed, relocked) ==
  [began |-> unlocked, committed |-> unlocked /\ completed /\ relocked]

(* The statuses for which the helper exits 0. *)
Successes == {"ok", "no_op"}
=============================================================================
