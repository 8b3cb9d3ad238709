----------------------------- MODULE MCPlanning -----------------------------
(***************************************************************************)
(* A small instance of Planning for TLC: two packages, one of them rapt's, *)
(* and one or two sources, each in the states the mapping and the policy   *)
(* tell apart, with strings that would collide if a separator got through. *)
(***************************************************************************)
EXTENDS Planning

x    == <<120>>                                  \* "x", the native architecture
y    == <<121>>                                  \* "y", a foreign one
ab   == <<97, 98>>                               \* "ab"
cd   == <<99, 100>>                              \* "cd"
mine == <<114, 45, 99, 45, 100>>                 \* "r-c-d", rapt's
v1   == <<49>>
v2   == <<50>>

Pkg(n) == [name |-> n, arch |-> x, cur |-> v1, cand |-> v2, selection |-> "install",
           state |-> "installed", auto |-> FALSE, essential |-> FALSE,
           important |-> FALSE, required |-> {}]
Absent(n) == [Pkg(n) EXCEPT !.cur = <<>>, !.state = "not-installed", !.selection = "unknown"]
Purgeable(n) == [Absent(n) EXCEPT !.state = "config-files", !.selection = "deinstall"]

Caches ==
  { {Pkg(ab), Absent(cd)},
    {[Pkg(ab) EXCEPT !.required = {"cand"}], [Purgeable(cd) EXCEPT !.required = {"cand"}]},
    {[Pkg(ab) EXCEPT !.essential = TRUE], [Pkg(ab) EXCEPT !.arch = y]},
    {[Pkg(ab) EXCEPT !.selection = "hold"], [Pkg(cd) EXCEPT !.required = {"cur"}]},
    {[Pkg(ab) EXCEPT !.required = {"cand"}], [Pkg(mine) EXCEPT !.state = "unpacked"]},
    {[Pkg(ab) EXCEPT !.state = "unpacked", !.auto = TRUE],
      [Pkg(cd) EXCEPT !.state = "triggers-pending"]},
    {[Pkg(ab) EXCEPT !.cand = <<50, Comma, 51>>, !.state = "half-installed",
                       !.selection = "hold"]} }

Src == [uri |-> <<117>>, suite |-> <<115>>, targets |-> {}, signedBy |-> <<>>,
        trusted |-> "unset"]
Of(comps) == {[component |-> c, architecture |-> x] : c \in comps}
Armored(key, end) == Word("BEGIN") \o key \o <<10, Equals, 10>> \o end

SourceLists ==
  { <<[Src EXCEPT !.targets = Of({<<109>>, <<110>>})]>>,
    <<[Src EXCEPT !.targets = Of({<<109, Comma, 110>>})]>>,
    <<[Src EXCEPT !.signedBy = Armored(<<107>>, Word("END") \o <<10>>)],
      [Src EXCEPT !.signedBy = Armored(<<108>>, Word("END"))]>>,
    <<[Src EXCEPT !.targets = Of({<<109>>})], [Src EXCEPT !.trusted = "yes"]>>,
    <<[Src EXCEPT !.signedBy = Armored(<<107>>, <<>>)]>>,
    <<[Src EXCEPT !.suite = <<195>>, !.trusted = "yes"]>>,
    <<[Src EXCEPT !.suite = <<195, 169>>, !.trusted = "no"]>> }

plainCache  == {Pkg(ab), Absent(cd)}
plainSources == <<[Src EXCEPT !.targets = Of({<<109>>, <<110>>})]>>
MachineStates ==
  {[cache |-> c, sources |-> plainSources] : c \in Caches}
    \cup {[cache |-> plainCache, sources |-> s] : s \in SourceLists \cup {<<>>}}

Ask(verb, targets) == [verb |-> verb, targets |-> targets]
Asked ==
  { Ask("apt.install", <<ab>>), Ask("apt.purge", <<cd>>), Ask("apt.upgrade", <<>>),
    Ask("apt.dist_upgrade", <<>>), Ask("apt.remove", <<Qualified(ab, y)>>),
    Ask("apt.hold", <<ab, cd>>), Ask("apt.hold", <<cd, ab>>), Ask("apt.hold", <<mine>>),
    Ask("apt.hold", <<ab, ab>>), Ask("apt.unhold", <<ab>>),
    Ask("apt.hold", <<Qualified(mine, x)>>),
    Ask("apt.update", <<>>), Ask("apt.update", <<ab>>), Ask("apt.configure", <<>>) }
=============================================================================
