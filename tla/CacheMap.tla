------------------------------ MODULE CacheMap ------------------------------
(***************************************************************************)
(* From what libapt has open to the records of a plan (apt_common.cc): the *)
(* one enumeration shared by the effectors, the preview and the plan tool. *)
(*                                                                         *)
(* libapt is external.  A cache is a set of packages, which libapt iterates *)
(* over in an order of its own; a resolve leaves a mark on each.  A source *)
(* list is a sequence of sources.                                          *)
(***************************************************************************)
EXTENDS PlanDigest

CONSTANT Native    \* the native architecture

Marks      == {"none", "install", "upgrade", "downgrade", "remove", "purge"}
Selections == {"unknown", "install", "hold", "deinstall", "purge"}
PkgStates  == {"not-installed", "installed", "config-files", "half-installed",
               "unpacked", "half-configured", "triggers-awaited",
               "triggers-pending"}

(* cur and cand: the version now, and the one a plan would install; "" for *)
(* none.                                                                   *)
(* required: which of the two versions has priority "required".            *)
Packages == [name: Strings, arch: Strings, cur: Strings, cand: Strings,
             selection: Selections, state: PkgStates, auto: BOOLEAN,
             essential: BOOLEAN, important: BOOLEAN,
             required: SUBSET {"cur", "cand"}]

(* IndexTarget options: the components and architectures of a source.      *)
Sources == [uri: Strings, suite: Strings,
            targets: SUBSET [component: Strings, architecture: Strings],
            signedBy: Strings, trusted: {"yes", "no", "unset"}]

(* FindPkg: a bare name is a package of the native architecture. *)
Named(p, target) ==
  target = Qualified(p.name, p.arch) \/ (target = p.name /\ p.arch = Native)

Known(cache, target) == \E p \in cache : Named(p, target)
FindPkg(cache, target) == CHOOSE p \in cache : Named(p, target)

-----------------------------------------------------------------------------
(* Transactions: every package with a mark, targets and dependencies alike. *)

(* Priority is read off the current version if there is one, and else off   *)
(* the one the mark would install, if it installs one.                      *)
IsProtected_ByCandidate(p, mark) == p.important \/ "cand" \in p.required
IsProtected(p, mark) ==
  \/ p.important
  \/ p.cur # <<>> /\ "cur" \in p.required
  \/ p.cur = <<>> /\ mark \notin {"remove", "purge"} /\ "cand" \in p.required

FlagsOf(p, mark) == { Word(f) : f \in
  (IF p.selection = "hold" THEN {"hold"} ELSE {}) \cup
  (IF p.auto THEN {"auto"} ELSE {}) \cup
  (IF p.essential THEN {"essential"} ELSE {}) \cup
  (IF IsProtected(p, mark) THEN {"protected"} ELSE {}) }

TxnRecord(p, mark) ==
  [package |-> p.name, architecture |-> p.arch, action |-> Word(mark),
   from_version |-> p.cur,
   to_version |-> IF mark \in {"remove", "purge"} THEN <<>> ELSE p.cand,
   flags |-> FlagsOf(p, mark)]

Changed(cache, marks) == {p \in cache : marks[p] # "none"}

MapTxn(changed, marks) ==
  [k \in DOMAIN changed |-> TxnRecord(changed[k], marks[changed[k]])]

-----------------------------------------------------------------------------
(* Hold and unhold: the targets whose selection changes, under the names    *)
(* the request gave them.                                                   *)

HoldWord(verb) == IF verb = "apt.hold" THEN "hold" ELSE "install"

HoldSubject(cache, target) ==
  Known(cache, target) /\ FindPkg(cache, target).selection \in {"install", "hold"}

MapHold(cache, verb, targets) ==
  LET upto[n \in 0..Len(targets)] ==
        IF n = 0 THEN <<>>
        ELSE LET from == FindPkg(cache, targets[n]).selection
             IN  IF from = HoldWord(verb) THEN upto[n - 1]
                 ELSE Append(upto[n - 1], [package |-> targets[n], from_state |-> Word(from),
                                           to_state |-> Word(HoldWord(verb))])
  IN  upto[Len(targets)]

-----------------------------------------------------------------------------
(* Configure: the packages dpkg has pending; a half-installed one stops it. *)

HalfInstalled(cache) == \E p \in cache : p.state = "half-installed"

PendingIn(cache) ==
  {p \in cache : p.state \in {"unpacked", "half-configured", "triggers-awaited",
                              "triggers-pending"}}

MapConfigure(pending) ==
  [k \in DOMAIN pending |->
     [package |-> pending[k].name, architecture |-> pending[k].arch,
      current_version |-> pending[k].cur, state |-> Word(pending[k].state)]]

-----------------------------------------------------------------------------
(* Update: one record per source, with the options that identify it.        *)

SrcRecord(s) ==
  LET comps  == {t.component : t \in s.targets} \ {<<>>}
      arches == {t.architecture : t \in s.targets} \ {<<>>}
      signedBy == IF s.signedBy = <<>> THEN {}
                  ELSE {<<Word("signed-by"), SignedByToken(s.signedBy)>>}
      archList == IF arches = {} THEN {}
                  ELSE {<<Word("architectures"), Joined(Space, Sorted(SetToSeq(arches)))>>}
      trust    == IF s.trusted = "unset" THEN {}
                  ELSE {<<Word("trusted"), Word(s.trusted)>>}
  IN  [uri |-> s.uri, suite |-> s.suite, components |-> comps,
       options |-> signedBy \cup archList \cup trust]

MapSources(list) == [k \in DOMAIN list |-> SrcRecord(list[k])]

=============================================================================
