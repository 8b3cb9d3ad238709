------------------------------ MODULE Planning ------------------------------
(***************************************************************************)
(* How a plan is agreed on.  Two oracles, the unprivileged preview         *)
(* (preview.cc) and the locked plan tool (plan.cc), resolve a request and  *)
(* show a plan and its hash.  A receipt is bound to what was shown.  Later *)
(* a helper resolves its own request, in the world as it then is, and      *)
(* redeems the receipt if verb, resource and hash agree (plan.c).          *)
(*                                                                         *)
(* Resolving a transaction is libapt's: any marks may come out of it, and  *)
(* other ones at the helper than at the oracle.                            *)
(***************************************************************************)
EXTENDS PlanStep, CacheMap

CONSTANTS
  Worlds,       \* [cache, sources]: the states the machine may be in
  Requests,     \* [verb, targets]: what is asked, of an oracle or of a helper
  MaxPackages   \* PKGX_MAX_PACKAGES

(* External: libapt holds a package once per architecture.                  *)
ASSUME WorldsAssumption ==
  \A w \in Worlds :
    /\ w \in [cache: SUBSET Packages, sources: Seq(Sources)]
    /\ IsFiniteSet(w.cache)
    /\ \A p, q \in w.cache : p.name = q.name /\ p.arch = q.arch => p = q
    /\ \A i \in DOMAIN w.sources : IsFiniteSet(w.sources[i].targets)
ASSUME MaxPackagesAssumption == MaxPackages \in Nat

VARIABLES
  world,
  shown,   \* what an oracle has shown
  run      \* what the helper has resolved and redeemed

vars == <<world, shown, run>>

-----------------------------------------------------------------------------
(* Requests.                                                                *)

TargetVerbs == {"apt.install", "apt.remove", "apt.purge"} \cup HoldVerbs
WholeVerbs  == {"apt.update", "apt.configure", "apt.upgrade", "apt.dist_upgrade"}
Verbs == TargetVerbs \cup WholeVerbs

ASSUME RequestsAssumption == Requests \subseteq [verb: Verbs, targets: Seq(Strings)]

ArityOk(verb, targets) ==
  \/ verb \in TargetVerbs /\ targets # <<>>
  \/ verb \in WholeVerbs /\ targets = <<>>

(* What both parsers ask of the verb and the packages. *)
Parses(q) ==
  /\ ArityOk(q.verb, q.targets)
  /\ Len(q.targets) <= MaxPackages
  /\ Distinct(q.targets)
  /\ \A i \in DOMAIN q.targets : NameOk(q.targets[i])

Family(verb) == CASE verb \in TxnVerbs      -> "txn"
                  [] verb \in HoldVerbs     -> "hold"
                  [] verb = "apt.update"    -> "update"
                  [] verb = "apt.configure" -> "configure"

-----------------------------------------------------------------------------
(* Resolving: [status, recs], the status "ok" or why there are no records.  *)

Failed(status) == [status |-> status, recs |-> <<>>]
Mapped(recs)   == [status |-> "ok", recs |-> recs]

(* The marks libapt may set: a package that is not installed may be         *)
(* installed, an installed one moved to another version.  Unless the mode   *)
(* of the upgrade forbids removals, an installed one may be removed, purged *)
(* or not, and what a removed one has left behind be purged.                *)
Removals(p) == IF p.cur # <<>> THEN {"remove", "purge"}
               ELSE IF p.state = "config-files" THEN {"purge"} ELSE {}
MarksFor(verb, p) ==
  {"none"} \cup (IF p.cur = <<>> THEN {"install"} ELSE {"upgrade", "downgrade"})
           \cup (IF verb = "apt.upgrade" THEN {} ELSE Removals(p))

TxnOutcomes(q, cache) ==
  {Failed("resolve_failed")} \cup
  (IF \E i \in DOMAIN q.targets : ~Known(cache, q.targets[i]) THEN {}
   ELSE UNION {{Mapped(MapTxn(changed, marks)) : changed \in SetToSeqs(Changed(cache, marks))} :
                 marks \in {m \in [cache -> Marks] :
                              \A p \in cache : m[p] \in MarksFor(q.verb, p)}})

HoldOutcome(q, cache) ==
  IF \A i \in DOMAIN q.targets : HoldSubject(cache, q.targets[i])
  THEN Mapped(MapHold(cache, q.verb, q.targets))
  ELSE Failed("resolve_failed")

ConfigureOutcomes(cache) ==
  IF HalfInstalled(cache) THEN {Failed("dpkg_broken")}
  ELSE {Mapped(MapConfigure(pending)) : pending \in SetToSeqs(PendingIn(cache))}

(* A cache built anew iterates in an order of its own: the records of a     *)
(* transaction or a configure come in any.                                  *)
Resolve(q) ==
  CASE Family(q.verb) = "txn"       -> TxnOutcomes(q, world.cache)
    [] Family(q.verb) = "hold"      -> {HoldOutcome(q, world.cache)}
    [] Family(q.verb) = "configure" -> ConfigureOutcomes(world.cache)
    [] Family(q.verb) = "update"    -> {Mapped(MapSources(world.sources))}

(* The resource of a plan: the targets, or the fixed token of the verb. *)
ResourceOf(q) == CASE q.verb = "apt.update"    -> <<>>
                   [] q.verb = "apt.configure" -> Word("pending")
                   [] OTHER                    -> Resource(q.targets)

(* What the policy looks at in a record. *)
Facts(verb, r) ==
  LET flags == IF verb \in TxnVerbs THEN r.flags ELSE {}
  IN  [owned    |-> verb # "apt.update" /\ IsRaptOwned(r.package),
       held     |-> Word("hold") \in flags,
       critical |-> flags \cap Words({"essential", "protected"}) # {},
       removal  |-> verb \in TxnVerbs /\ r.action \in Words({"remove", "purge"})]

Verdict(q, recs) == PlanCheck(Family(q.verb), {Facts(q.verb, recs[i]) : i \in DOMAIN recs})

-----------------------------------------------------------------------------
(* What a preview shows: the canonical string split again.                  *)

Show(verb, f) ==
  LET text(i) == Json(Field(f, i))
  IN  CASE Family(verb) = "txn" ->
             [package |-> text(1), architecture |-> text(2), action |-> text(3),
              from_version |-> text(4), to_version |-> text(5),
              flags |-> CsvArray(Field(f, 6))]
        [] Family(verb) = "configure" ->
             [package |-> text(1), architecture |-> text(2),
              current_version |-> text(3), state |-> text(4)]
        [] Family(verb) = "hold" ->
             [package |-> text(1), from_state |-> text(2), to_state |-> text(3)]
        [] Family(verb) = "update" ->
             [uri |-> text(1), suite |-> text(2), components |-> CsvArray(Field(f, 3)),
              options |-> OptionsObject(Field(f, 4))]

Decode(verb, canon) ==
  LET rows == SplitOn(canon, RS)
  IN  [i \in 1..Len(rows) - 2 |-> Show(verb, SplitOn(rows[i + 2], US))]

NoShow == [by |-> "none"]
NoRun  == [status |-> "none"]

(* An answer without a plan, and one with the hash of its plan.             *)
Bare(by, q, status, resource, out) ==
  [by |-> by, verb |-> q.verb, targets |-> q.targets, status |-> status,
   resource |-> resource, hash |-> Refused, records |-> <<>>, plan |-> out]

Hashed(by, q, status, out) ==
  LET canon == Digest(q.verb, out.recs)
  IN  [Bare(by, q, status, ResourceOf(q), out) EXCEPT
         !.hash = canon,
         !.records = IF by = "preview" THEN Decode(q.verb, canon) ELSE <<>>]

NoRequest == [verb |-> "none", targets |-> <<>>]

(* The digest is computed before a refusal of the policy is reported, and   *)
(* the hash is shown with the refusal.                                      *)
PreviewStatus(q, out) ==
  IF ResourceOf(q) = Refused THEN "internal"
  ELSE IF out.status # "ok" THEN out.status
  ELSE IF out.recs = <<>> THEN "no_op"
  ELSE IF Digest(q.verb, out.recs) = Refused THEN "internal"
  ELSE IF Verdict(q, out.recs) = "ok" THEN "ok" ELSE PlanStatus(Verdict(q, out.recs))

Refusals == {"package_not_owned", "held", "protected_package"}

Preview(q) ==
  /\ shown = NoShow
  /\ IF ~Parses(q)
     THEN shown' = Bare("preview", NoRequest, "schema_invalid", Refused, Failed("internal"))
     ELSE \E out \in Resolve(q) :
            LET status == PreviewStatus(q, out)
            IN  shown' = IF status \in Refusals \cup {"ok"}
                         THEN Hashed("preview", q, status, out)
                         ELSE Bare("preview", q, status, ResourceOf(q), out)
  /\ UNCHANGED <<world, run>>

(* The request cannot be read; libapt, the cache or the list not be opened. *)
PreviewFails(q) ==
  /\ shown = NoShow
  /\ \/ \E status \in {"internal", "schema_invalid"} :
          shown' = Bare("preview", NoRequest, status, Refused, Failed("internal"))
     \/ /\ Parses(q)
        /\ \E resource \in {Refused, ResourceOf(q)} :
             shown' = Bare("preview", q, "internal", resource, Failed("internal"))
  /\ UNCHANGED <<world, run>>

(* The plan tool takes its targets as they come, asks the policy first and  *)
(* shows a hash only with exit code 0.                                      *)
PlanToolStatus(q, out) ==
  LET verdict == Verdict(q, out.recs)
  IN  IF out.status = "dpkg_broken" THEN "refused"
      ELSE IF out.status # "ok" THEN "internal"
      ELSE IF verdict = "no_op" THEN "noop"
      ELSE IF verdict # "ok" THEN "refused"
      ELSE IF Refused \in {ResourceOf(q), Digest(q.verb, out.recs)} THEN "internal"
      ELSE "ok"

PlanTool(q) ==
  /\ shown = NoShow
  /\ IF ~ArityOk(q.verb, q.targets)
     THEN shown' = Bare("plan", q, "usage", Refused, Failed("usage"))
     ELSE \E out \in Resolve(q) :
            LET status == PlanToolStatus(q, out)
            IN  shown' = IF status = "ok" THEN Hashed("plan", q, status, out)
                         ELSE Bare("plan", q, status, Refused, out)
  /\ UNCHANGED <<world, run>>

PlanToolFails(q) ==
  /\ shown = NoShow
  /\ ArityOk(q.verb, q.targets)
  /\ shown' = Bare("plan", q, "internal", Refused, Failed("internal"))
  /\ UNCHANGED <<world, run>>

-----------------------------------------------------------------------------
(* The helper's plan step, up to the redeem.  A request that main cannot    *)
(* parse never comes to it: fail_result reports the status "internal", and  *)
(* the parser's "schema_invalid" or "bad_json" as the detail that goes with *)
(* it.                                                                      *)

HelperStatus(q, out) ==
  LET verdict == Verdict(q, out.recs)
  IN  IF out.status # "ok" THEN out.status
      ELSE IF verdict # "ok" THEN PlanStatus(verdict)
      ELSE IF Refused \in {ResourceOf(q), Digest(q.verb, out.recs)} THEN "internal"
      ELSE "redeem"

(* External: the broker compares verb, resource and hash with what the      *)
(* receipt was bound to.                                                    *)
Accepts(q, out) ==
  /\ shown.hash # Refused
  /\ shown.verb = q.verb
  /\ shown.resource = ResourceOf(q)
  /\ shown.hash = Digest(q.verb, out.recs)

Ran(q, out) ==
  LET status == HelperStatus(q, out)
  IN  [verb |-> q.verb, targets |-> q.targets, plan |-> out,
       status |-> IF status # "redeem" THEN status
                  ELSE IF Accepts(q, out) THEN "redeemed" ELSE "no_intent"]

Helper(q) ==
  /\ shown # NoShow /\ run = NoRun
  /\ \E out \in IF Parses(q) THEN Resolve(q) ELSE {Failed("internal")} :
       run' = Ran(q, out)
  /\ UNCHANGED <<world, shown>>

(* Between the two anything may change. *)
WorldChanges ==
  /\ shown # NoShow /\ run = NoRun
  /\ world' \in Worlds
  /\ UNCHANGED <<shown, run>>

Init == world \in Worlds /\ shown = NoShow /\ run = NoRun

Next == \/ \E q \in Requests : Preview(q) \/ PreviewFails(q) \/ PlanTool(q)
                               \/ PlanToolFails(q) \/ Helper(q)
        \/ WorldChanges

Spec == Init /\ [][Next]_vars

-----------------------------------------------------------------------------
(* Properties.                                                              *)

PreviewStatuses == Refusals \cup {"ok", "no_op", "schema_invalid", "resolve_failed",
                                  "dpkg_broken", "internal"}
ToolStatuses    == {"ok", "internal", "usage", "noop", "refused"}
RunStatuses     == Refusals \cup {"no_op", "resolve_failed", "dpkg_broken", "internal",
                                  "redeemed", "no_intent"}

(* Every answer is one of the closed set of its program, about a plan of    *)
(* records of the kind its verb has.                                        *)
TypeOK ==
  /\ world \in Worlds
  /\ shown # NoShow =>
       /\ shown.by \in {"preview", "plan"}
       /\ shown.status \in IF shown.by = "preview" THEN PreviewStatuses ELSE ToolStatuses
       /\ shown.verb \in Verbs \cup {"none"} /\ shown.targets \in Seq(Strings)
       /\ shown.plan.recs \in Seq(RecordsOf(shown.verb))
  /\ run # NoRun =>
       /\ run.status \in RunStatuses
       /\ run.verb \in Verbs /\ run.targets \in Seq(Strings)
       /\ run.plan.recs \in Seq(RecordsOf(run.verb))

(***************************************************************************)
(* What the helper redeems is what was shown.  When the broker accepts, the*)
(* records the helper is about to act on are those the oracle resolved,    *)
(* and, one for one and field for field, those a preview displayed: no two *)
(* plans share a canonical string, and no field is cut, dropped or run     *)
(* into its neighbour on the way to the reader.  This holds whatever       *)
(* happened to the packages and the sources in between, and although the   *)
(* helper may have been launched with another request.  (digest.c and      *)
(* decode_records in preview.cc.)                                          *)
(***************************************************************************)
ShownIsBound ==
  run.status = "redeemed" =>
    /\ run.plan.recs \in Arrangements(shown.plan.recs)
    /\ run.targets \in Arrangements(shown.targets)
    /\ shown.by = "preview" => shown.records \in Arrangements(run.plan.recs)

(***************************************************************************)
(* An oracle is right about a world that has not moved: a helper asked the *)
(* same thing, its targets in any order, that resolves the same records in *)
(* any order, redeems a hash shown with "ok" and repeats every other       *)
(* verdict.  Only where the digest itself is refused may the two differ in *)
(* which refusal comes first.  (The order of policy and digest in          *)
(* preview.cc, plan.cc of the tools and plan.c.)                           *)
(***************************************************************************)
Predicted ==
  IF shown.by = "preview"
  THEN CASE shown.status = "ok"       -> {"redeemed"}
         [] shown.status = "internal" ->
              IF shown.resource = Refused THEN RunStatuses \ {"redeemed", "no_intent"}
              ELSE Refusals \cup {"internal"}
         [] OTHER                     -> {shown.status}
  ELSE CASE shown.status = "ok"       -> {"redeemed"}
         [] shown.status = "noop"     -> {"no_op"}
         [] shown.status = "refused"  -> Refusals \cup {"dpkg_broken"}
         [] OTHER                     -> {"internal", "resolve_failed"}

SamePlan ==
  /\ run.verb = shown.verb
  /\ run.targets \in Arrangements(shown.targets)
  /\ run.plan.status = shown.plan.status
  /\ run.plan.recs \in Arrangements(shown.plan.recs)

OraclesPredict == run # NoRun /\ SamePlan => run.status \in Predicted

(***************************************************************************)
(* A redeemed transaction changes no package that is rapt's or held and    *)
(* removes none that is essential, important or required as it is          *)
(* installed; a redeemed configure touches none of rapt's, nor does a hold *)
(* or an unhold by a plain name (of a qualified one see OwnedIsNeverHeld). *)
(* Stated of the packages, not of the records: the mapping and the policy  *)
(* have to fit.  (apt_common.cc, policy.c, plan.c.)                        *)
(***************************************************************************)
PolicyIsKept ==
  run.status = "redeemed" /\ run.verb # "apt.update" =>
    \A p \in world.cache : \A r \in ToSet(run.plan.recs) :
      r.package = p.name /\ (run.verb \in HoldVerbs \/ r.architecture = p.arch) =>
        /\ ~RaptPattern(p.name)
        /\ run.verb \in TxnVerbs =>
             /\ p.selection # "hold"
             /\ r.action \in Words({"remove", "purge"}) =>
                  /\ ~p.essential /\ ~p.important
                  /\ p.cur # <<>> => "cur" \notin p.required

-----------------------------------------------------------------------------
(* What a comment of the code says, which the model does not bear out.      *)

(***************************************************************************)
(* "pkgexec must never hold/unhold a rapt-owned package" (plan.c, of hold).*)
(***************************************************************************)
OwnedIsNeverHeld ==
  run.status = "redeemed" /\ run.verb \in HoldVerbs =>
    \A r \in ToSet(run.plan.recs) : ~RaptPattern(FindPkg(world.cache, r.package).name)
=============================================================================
