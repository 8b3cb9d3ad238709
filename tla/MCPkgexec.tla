----------------------------- MODULE MCPkgexec -----------------------------
(* Small instances of Pkgexec for TLC. *)
EXTENDS Pkgexec, TLC

CONSTANTS h1, h2, r1, r2

plain  == [owned |-> FALSE, held |-> FALSE, critical |-> FALSE, removal |-> FALSE]
owned  == [plain EXCEPT !.owned = TRUE]
held   == [plain EXCEPT !.held = TRUE]
losing == [plain EXCEPT !.critical = TRUE, !.removal = TRUE]

AllResolutions  == {{}, {plain}, {plain, owned}, {held}, {losing}}
FewResolutions  == {{}, {plain}}

(* Bound: others touch the source list and the indexes only once a refresh   *)
(* is authorised or launched.  No other family reads either of them.         *)
RefreshInPlay ==
  \/ srcVer = 0 /\ lists # Other /\ indexBy # Other
  \/ \E r \in Receipts : bound[r].fam = "update"
  \/ \E h \in Helpers : req[h].fam = "update"

Symm == Permutations(Helpers) \cup Permutations(Receipts)
=============================================================================
