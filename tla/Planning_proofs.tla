-------------------------- MODULE Planning_proofs --------------------------
(***************************************************************************)
(* That what is redeemed is what was shown, proved for every set of worlds *)
(* and of requests.                                                        *)
(*                                                                         *)
(* A preview shows of a canonical string the records the string was made   *)
(* of.  The mapping of the cache and of the sources gives records of a     *)
(* plan.  An answer and a run are told by the request and the outcome they *)
(* came of, and the inductive invariant IInv says that there are such ones *)
(* behind what is shown, in some world, and behind what has run, in this.  *)
(***************************************************************************)
EXTENDS Planning, PlanDigest_proofs

-----------------------------------------------------------------------------
(* What a preview shows of a canonical string.                              *)

(* The verbs of a request are those a plan can have, each of one family.    *)
LEMMA VerbsAre ==
  /\ Verbs = PlanVerbs
  /\ \A verb \in Verbs :
       \/ verb \in TxnVerbs /\ Family(verb) = "txn"
       \/ verb \in HoldVerbs /\ Family(verb) = "hold"
       \/ verb = "apt.update" /\ Family(verb) = "update"
       \/ verb = "apt.configure" /\ Family(verb) = "configure"
<1>1. Verbs = PlanVerbs
  BY DEF Verbs, TargetVerbs, WholeVerbs, PlanVerbs, TxnVerbs, HoldVerbs
<1>2. ASSUME NEW verb \in PlanVerbs
      PROVE  \/ verb \in TxnVerbs /\ Family(verb) = "txn"
             \/ verb \in HoldVerbs /\ Family(verb) = "hold"
             \/ verb = "apt.update" /\ Family(verb) = "update"
             \/ verb = "apt.configure" /\ Family(verb) = "configure"
  BY VerbsAreApart DEF Family
<1> QED  BY <1>1, <1>2

(* What is shown of the row of a record is the record.                      *)
LEMMA ShownOfRow ==
  ASSUME NEW verb \in PlanVerbs, NEW r \in PlanRecords(verb), RowOf(verb, r) # Refused
  PROVE  Show(verb, FieldsOf(verb, r)) = r
<1>1. r \in RecordsOf(verb)  BY DEF PlanRecords
<1>2. CASE verb \in TxnVerbs
  <2>1. Family(verb) = "txn"
    BY <1>2, VerbsAreApart DEF Family
  <2>2. RowOf(verb, r) = TxnRow(r) /\ RecordsOf(verb) = TxnRecords
    BY <1>2, VerbsAreApart DEF RowOf, RecordsOf
  <2>3. PICK flags : flags = JoinSorted(SetToSeq(r.flags), Words(Flags))  OBVIOUS
  <2>4. PICK f : f = FieldsOf(verb, r)  OBVIOUS
  <2>5. f = <<r.package, r.architecture, r.action, r.from_version, r.to_version, flags>>
    BY <1>2, <2>3, <2>4, VerbsAreApart, Zenon DEF FieldsOf
  <2>6. /\ Field(f, 1) = r.package /\ Field(f, 2) = r.architecture /\ Field(f, 3) = r.action
        /\ Field(f, 4) = r.from_version /\ Field(f, 5) = r.to_version /\ Field(f, 6) = flags
    BY <2>5 DEF Field
  <2>7. IsFiniteSet(r.flags)  BY <1>2 DEF PlanRecords
  <2>8. /\ Json(r.package) = r.package /\ Json(r.architecture) = r.architecture
        /\ Json(r.action) = r.action /\ Json(r.from_version) = r.from_version
        /\ Json(r.to_version) = r.to_version
        /\ CsvArray(flags) = r.flags
    BY <1>1, <2>2, <2>3, <2>7, TxnRowIs, Zenon
  <2>9. Show(verb, f) = [package |-> Json(Field(f, 1)), architecture |-> Json(Field(f, 2)),
                         action |-> Json(Field(f, 3)), from_version |-> Json(Field(f, 4)),
                         to_version |-> Json(Field(f, 5)), flags |-> CsvArray(Field(f, 6))]
    BY <2>1, Zenon DEF Show
  <2>10. Show(verb, f) = [package |-> r.package, architecture |-> r.architecture,
                          action |-> r.action, from_version |-> r.from_version,
                          to_version |-> r.to_version, flags |-> r.flags]
    BY <2>6, <2>8, <2>9, Zenon
  <2>11. r \in TxnRecords  BY <1>1, <2>2
  <2>12. r = [package |-> r.package, architecture |-> r.architecture,
              action |-> r.action, from_version |-> r.from_version,
              to_version |-> r.to_version, flags |-> r.flags]
    BY <2>11 DEF TxnRecords
  <2> QED  BY <2>4, <2>10, <2>12, Zenon
<1>3. CASE verb \in HoldVerbs
  <2>1. Family(verb) = "hold"
    BY <1>3, VerbsAreApart DEF Family
  <2>2. RowOf(verb, r) = HoldRow(r) /\ RecordsOf(verb) = HoldRecords
    BY <1>3, VerbsAreApart DEF RowOf, RecordsOf
  <2>4. PICK f : f = FieldsOf(verb, r)  OBVIOUS
  <2>5. f = <<r.package, r.from_state, r.to_state>>
    BY <1>3, <2>4, VerbsAreApart, Zenon DEF FieldsOf
  <2>6. Field(f, 1) = r.package /\ Field(f, 2) = r.from_state /\ Field(f, 3) = r.to_state
    BY <2>5 DEF Field
  <2>8. /\ Json(r.package) = r.package /\ Json(r.from_state) = r.from_state
        /\ Json(r.to_state) = r.to_state
    BY <1>1, <2>2, HoldRowIs, Zenon
  <2>9. Show(verb, f) = [package |-> Json(Field(f, 1)), from_state |-> Json(Field(f, 2)),
                         to_state |-> Json(Field(f, 3))]
    BY <2>1, Zenon DEF Show
  <2>10. Show(verb, f) = [package |-> r.package, from_state |-> r.from_state,
                          to_state |-> r.to_state]
    BY <2>6, <2>8, <2>9, Zenon
  <2>11. r \in HoldRecords  BY <1>1, <2>2
  <2>12. r = [package |-> r.package, from_state |-> r.from_state, to_state |-> r.to_state]
    BY <2>11 DEF HoldRecords
  <2> QED  BY <2>4, <2>10, <2>12, Zenon
<1>4. CASE verb = "apt.update"
  <2>1. Family(verb) = "update"
    BY <1>4, VerbsAreApart DEF Family
  <2>2. RowOf(verb, r) = SrcRow(r) /\ RecordsOf(verb) = SrcRecords
    BY <1>4, VerbsAreApart DEF RowOf, RecordsOf
  <2>3. PICK comps, opts : /\ comps = JoinSorted(SetToSeq(r.components), Strings)
                           /\ opts = JoinSortedKv(r.options)
    OBVIOUS
  <2>4. PICK f : f = FieldsOf(verb, r)  OBVIOUS
  <2>50. verb \notin TxnVerbs /\ verb \notin HoldVerbs  BY <1>4, VerbsAreApart
  <2>5. f = <<r.uri, r.suite, comps, opts>>
    BY <1>4, <2>3, <2>4, <2>50, Zenon DEF FieldsOf
  <2>6. Field(f, 1) = r.uri /\ Field(f, 2) = r.suite /\ Field(f, 3) = comps /\ Field(f, 4) = opts
    BY <2>5 DEF Field
  <2>7. IsFiniteSet(r.components) /\ <<>> \notin r.components /\ IsFiniteSet(r.options)
    BY <1>4 DEF PlanRecords
  <2>8. /\ Json(r.uri) = r.uri /\ Json(r.suite) = r.suite
        /\ CsvArray(comps) = r.components /\ OptionsObject(opts) = r.options
    BY <1>1, <2>2, <2>3, <2>7, SrcRowIs, Zenon
  <2>9. Show(verb, f) = [uri |-> Json(Field(f, 1)), suite |-> Json(Field(f, 2)),
                         components |-> CsvArray(Field(f, 3)),
                         options |-> OptionsObject(Field(f, 4))]
    BY <2>1, Zenon DEF Show
  <2>10. Show(verb, f) = [uri |-> r.uri, suite |-> r.suite, components |-> r.components,
                          options |-> r.options]
    BY <2>6, <2>8, <2>9, Zenon
  <2>11. r \in SrcRecords  BY <1>1, <2>2
  <2>12. r = [uri |-> r.uri, suite |-> r.suite, components |-> r.components,
              options |-> r.options]
    BY <2>11 DEF SrcRecords
  <2> QED  BY <2>4, <2>10, <2>12, Zenon
<1>5. CASE verb = "apt.configure"
  <2>1. Family(verb) = "configure"
    BY <1>5, VerbsAreApart DEF Family
  <2>2. RowOf(verb, r) = CfgRow(r) /\ RecordsOf(verb) = CfgRecords
    BY <1>5, VerbsAreApart DEF RowOf, RecordsOf
  <2>4. PICK f : f = FieldsOf(verb, r)  OBVIOUS
  <2>50. verb \notin TxnVerbs /\ verb \notin HoldVerbs /\ verb # "apt.update"
    BY <1>5, VerbsAreApart
  <2>5. f = <<r.package, r.architecture, r.current_version, r.state>>
    BY <1>5, <2>4, <2>50, Zenon DEF FieldsOf
  <2>6. /\ Field(f, 1) = r.package /\ Field(f, 2) = r.architecture
        /\ Field(f, 3) = r.current_version /\ Field(f, 4) = r.state
    BY <2>5 DEF Field
  <2>8. /\ Json(r.package) = r.package /\ Json(r.architecture) = r.architecture
        /\ Json(r.current_version) = r.current_version /\ Json(r.state) = r.state
    BY <1>1, <2>2, CfgRowIs, Zenon
  <2>9. Show(verb, f) = [package |-> Json(Field(f, 1)), architecture |-> Json(Field(f, 2)),
                         current_version |-> Json(Field(f, 3)), state |-> Json(Field(f, 4))]
    BY <2>1, Zenon DEF Show
  <2>10. Show(verb, f) = [package |-> r.package, architecture |-> r.architecture,
                          current_version |-> r.current_version, state |-> r.state]
    BY <2>6, <2>8, <2>9, Zenon
  <2>11. r \in CfgRecords  BY <1>1, <2>2
  <2>12. r = [package |-> r.package, architecture |-> r.architecture,
              current_version |-> r.current_version, state |-> r.state]
    BY <2>11 DEF CfgRecords
  <2> QED  BY <2>4, <2>10, <2>12, Zenon
<1> QED  BY <1>2, <1>3, <1>4, <1>5 DEF PlanVerbs

(***************************************************************************)
(* What a preview shows of a plan's canonical string are the plan's        *)
(* records, one for one and field for field, in some order (decode_records *)
(* in preview.cc of what digest.c made).                                   *)
(***************************************************************************)
THEOREM PreviewShowsThePlan ==
  ASSUME NEW verb \in Verbs, NEW recs \in Seq(PlanRecords(verb)), recs # <<>>,
         Digest(verb, recs) # Refused
  PROVE  Decode(verb, Digest(verb, recs)) \in Arrangements(recs)
<1>1. verb \in PlanVerbs  BY VerbsAre
<1>2. PICK f \in Orders(recs), pieces \in Seq(Strings) :
        /\ SplitOn(Digest(verb, recs), RS) = pieces
        /\ Len(pieces) = Len(recs) + 2
        /\ \A i \in DOMAIN recs : SplitOn(pieces[i + 2], US) = FieldsOf(verb, recs[f[i]])
  BY <1>1, DigestSplits
<1>3. f \in [DOMAIN recs -> DOMAIN recs]  BY OrderIs
<1>4. Decode(verb, Digest(verb, recs))
        = [i \in 1..Len(pieces) - 2 |-> Show(verb, SplitOn(pieces[i + 2], US))]
  BY <1>2, Zenon DEF Decode
<1>5. 1..Len(pieces) - 2 = DOMAIN recs  BY <1>2
<1>6. \A i \in DOMAIN recs : RowOf(verb, recs[i]) # Refused
  BY <1>1, DigestIs, RefusedIsNoString, Zenon DEF IsRow
<1>7. ASSUME NEW i \in DOMAIN recs
      PROVE  Show(verb, SplitOn(pieces[i + 2], US)) = recs[f[i]]
  <2>1. f[i] \in DOMAIN recs  BY <1>3
  <2>2. recs[f[i]] \in PlanRecords(verb)  BY <2>1
  <2>3. Show(verb, FieldsOf(verb, recs[f[i]])) = recs[f[i]]
    BY <1>1, <1>6, <2>1, <2>2, ShownOfRow, Zenon
  <2> QED  BY <1>2, <2>3, Zenon
<1>8. Decode(verb, Digest(verb, recs)) = Taking(recs, f)
  <2>1. PICK D : D = DOMAIN recs  OBVIOUS
  <2>2. 1..Len(pieces) - 2 = D /\ DOMAIN recs = D  BY <1>5, <2>1
  <2>3. \A i \in D : Show(verb, SplitOn(pieces[i + 2], US)) = recs[f[i]]  BY <1>7, <2>1
  <2>4. [i \in D |-> Show(verb, SplitOn(pieces[i + 2], US))] = [i \in D |-> recs[f[i]]]
    BY <2>3, Zenon
  <2>5. Taking(recs, f) = [i \in D |-> recs[f[i]]]  BY <2>2, Zenon DEF Taking
  <2> QED  BY <1>4, <2>2, <2>4, <2>5, Zenon
<1> QED  BY <1>8, ArrangementIs, Zenon

-----------------------------------------------------------------------------
(* What the mapping makes of the cache are records of a plan.               *)

(* A package with a mark gives a record a transaction may have.             *)
LEMMA MarkedIs ==
  ASSUME NEW p \in Packages, NEW mark \in Actions, NEW verb \in TxnVerbs
  PROVE  TxnRecord(p, mark) \in PlanRecords(verb)
<1>1. mark \in AllWords /\ Word(mark) \in Strings  BY WordsAre, WordIs
<1>2. \A w \in Flags : Word(w) \in Strings  BY WordsAre, WordIs
<1> DEFINE all == {Word("hold"), Word("auto"), Word("essential"), Word("protected")}
<1>3. all \in SUBSET Strings  BY <1>2 DEF Flags
<1>4. FlagsOf(p, mark) \subseteq all
  <2>1. PICK A, B, C, D : /\ A \subseteq {"hold"} /\ B \subseteq {"auto"}
                          /\ C \subseteq {"essential"} /\ D \subseteq {"protected"}
                          /\ FlagsOf(p, mark) = {Word(f) : f \in A \cup B \cup C \cup D}
    <3> DEFINE A == IF p.selection = "hold" THEN {"hold"} ELSE {}
               B == IF p.auto THEN {"auto"} ELSE {}
               C == IF p.essential THEN {"essential"} ELSE {}
               D == IF IsProtected(p, mark) THEN {"protected"} ELSE {}
    <3>1. FlagsOf(p, mark) = {Word(f) : f \in A \cup B \cup C \cup D}  BY Zenon DEF FlagsOf
    <3>2. A \subseteq {"hold"} /\ B \subseteq {"auto"}  OBVIOUS
    <3>3. C \subseteq {"essential"} /\ D \subseteq {"protected"}  OBVIOUS
    <3> HIDE DEF A, B, C, D
    <3> QED  BY <3>1, <3>2, <3>3, Zenon
  <2>2. A \cup B \cup C \cup D \subseteq {"hold", "auto", "essential", "protected"}  BY <2>1
  <2>3. PICK S : S = A \cup B \cup C \cup D  OBVIOUS
  <2>4. FlagsOf(p, mark) = {Word(f) : f \in S} /\ S \subseteq {"hold", "auto", "essential", "protected"}
    BY <2>1, <2>2, <2>3, Zenon
  <2> QED  BY <2>4
<1>5. IsFiniteSet(all)
  <2>1. IsFiniteSet({Word("hold")})  BY FS_Singleton
  <2>2. IsFiniteSet({Word("hold")} \cup {Word("auto")})  BY <2>1, FS_Singleton, FS_Union
  <2>3. IsFiniteSet({Word("hold")} \cup {Word("auto")} \cup {Word("essential")})
    BY <2>2, FS_Singleton, FS_Union
  <2>4. IsFiniteSet({Word("hold")} \cup {Word("auto")} \cup {Word("essential")}
                    \cup {Word("protected")})
    BY <2>3, FS_Singleton, FS_Union
  <2>5. {Word("hold")} \cup {Word("auto")} \cup {Word("essential")} \cup {Word("protected")}
          = all
    OBVIOUS
  <2> QED  BY <2>4, <2>5, Zenon
<1> HIDE DEF all
<1>6. FlagsOf(p, mark) \in SUBSET Strings /\ IsFiniteSet(FlagsOf(p, mark))
  <2>1. IsFiniteSet(FlagsOf(p, mark))  BY <1>4, <1>5, FS_Subset
  <2> QED  BY <1>3, <1>4, <2>1
<1>7. <<>> \in Strings  BY SeparatorsAre
<1>8. /\ p.name \in Strings /\ p.arch \in Strings /\ p.cur \in Strings /\ p.cand \in Strings
  BY DEF Packages
<1>9. TxnRecord(p, mark) \in TxnRecords /\ TxnRecord(p, mark).flags = FlagsOf(p, mark)
  BY <1>1, <1>6, <1>7, <1>8 DEF TxnRecord, TxnRecords
<1>10. verb \in PlanVerbs /\ verb # "apt.update" /\ RecordsOf(verb) = TxnRecords
  <2>1. verb \in PlanVerbs  BY DEF PlanVerbs
  <2>2. verb \notin HoldVerbs /\ verb # "apt.update"  BY <2>1, VerbsAreApart
  <2> QED  BY <2>1, <2>2 DEF RecordsOf
<1> QED  BY <1>6, <1>9, <1>10 DEF PlanRecords

(* The packages a transaction changes, in some order.                       *)
LEMMA MapTxnType ==
  ASSUME NEW cache \in SUBSET Packages, IsFiniteSet(cache), NEW verb \in TxnVerbs,
         NEW marks \in [cache -> Marks], \A p \in cache : marks[p] \in MarksFor(verb, p),
         NEW changed \in SetToSeqs(Changed(cache, marks))
  PROVE  /\ MapTxn(changed, marks) \in Seq(PlanRecords(verb))
         /\ \A k \in DOMAIN MapTxn(changed, marks) :
              \E p \in cache : \E mark \in Actions \cap MarksFor(verb, p) :
                MapTxn(changed, marks)[k] = TxnRecord(p, mark)
<1>1. IsFiniteSet(Changed(cache, marks))
  <2>1. Changed(cache, marks) \subseteq cache  BY DEF Changed
  <2> QED  BY <2>1, FS_Subset
<1>2. changed \in Seq(Changed(cache, marks))  BY <1>1, EnumeratedOnce
<1>3. \A k \in DOMAIN changed :
        changed[k] \in cache /\ marks[changed[k]] \in Actions \cap MarksFor(verb, changed[k])
  <2>1. \A k \in DOMAIN changed : changed[k] \in Changed(cache, marks)  BY <1>2
  <2>2. \A p \in cache : marks[p] \in Marks /\ marks[p] \in MarksFor(verb, p)  OBVIOUS
  <2>3. \A p \in Changed(cache, marks) : p \in cache /\ marks[p] # "none"  BY DEF Changed
  <2>4. Marks \ {"none"} \subseteq Actions  BY DEF Marks, Actions
  <2> QED  BY <2>1, <2>2, <2>3, <2>4
<1>4. DOMAIN changed = 1..Len(changed) /\ Len(changed) \in Nat  BY <1>2
<1>5. \A k \in DOMAIN changed : TxnRecord(changed[k], marks[changed[k]]) \in PlanRecords(verb)
  BY <1>3, MarkedIs
<1>6. MapTxn(changed, marks)
        = [k \in DOMAIN changed |-> TxnRecord(changed[k], marks[changed[k]])]
  BY Zenon DEF MapTxn
<1>7. MapTxn(changed, marks) \in Seq(PlanRecords(verb))  BY <1>4, <1>5, <1>6
<1>8. /\ DOMAIN MapTxn(changed, marks) = DOMAIN changed
      /\ \A k \in DOMAIN changed :
           MapTxn(changed, marks)[k] = TxnRecord(changed[k], marks[changed[k]])
  BY <1>6
<1> QED  BY <1>3, <1>7, <1>8, Zenon

(* A known target finds a package of the cache by the name it gives.        *)
LEMMA FoundIs ==
  ASSUME NEW cache \in SUBSET Packages, NEW target, Known(cache, target)
  PROVE  FindPkg(cache, target) \in cache /\ Named(FindPkg(cache, target), target)
BY DEF Known, FindPkg

(* The targets of a hold whose selection changes.                           *)
LEMMA MapHoldType ==
  ASSUME NEW cache \in SUBSET Packages, NEW verb \in HoldVerbs, NEW targets \in Seq(Strings),
         \A i \in DOMAIN targets : HoldSubject(cache, targets[i])
  PROVE  MapHold(cache, verb, targets) \in Seq(PlanRecords(verb))
<1> DEFINE N == Len(targets)
           from(n) == FindPkg(cache, targets[n]).selection
           rec(n) == [package |-> targets[n], from_state |-> Word(from(n)),
                      to_state |-> Word(HoldWord(verb))]
           Pass(l, n) == IF from(n) = HoldWord(verb) THEN l ELSE Append(l, rec(n))
           Lists1 == Seq(HoldRecords)
           step == [n \in 1..N |-> [l \in Lists1 |-> Pass(l, n)]]
<1>1. N \in Nat /\ \A n \in 1..N : targets[n] \in Strings /\ HoldSubject(cache, targets[n])
  OBVIOUS
<1>2. \A n \in 1..N : rec(n) \in HoldRecords
  <2> TAKE n \in 1..N
  <2>1. from(n) \in {"install", "hold"}  BY <1>1 DEF HoldSubject
  <2>2. HoldWord(verb) \in {"install", "hold"}  BY DEF HoldWord
  <2>3. \A w \in {"install", "hold"} : Word(w) \in Strings
    BY WordsAre, WordIs DEF HoldStates
  <2>4. Word(from(n)) \in Strings /\ Word(HoldWord(verb)) \in Strings  BY <2>1, <2>2, <2>3
  <2> HIDE DEF from
  <2> QED  BY <1>1, <2>4 DEF HoldRecords
<1> HIDE DEF rec
<1>3. \A n \in 1..N : \A l \in Lists1 : Pass(l, n) \in Lists1
  <2> HIDE DEF from
  <2> QED  BY <1>2
<1>4. <<>> \in Lists1  OBVIOUS
<1> HIDE DEF Lists1
<1>5. step \in [1..N -> [Lists1 -> Lists1]]
  <2> HIDE DEF Pass
  <2> QED  BY <1>3
<1>6. PICK g \in [0..N -> Lists1] : IsLoop(g, N, <<>>, step)
  <2> HIDE DEF step, N
  <2> QED  BY <1>1, <1>4, <1>5, LoopExists
<1>7. g[0] = <<>> /\ \A n \in 1..N : g[n] = Pass(g[n - 1], n)
  <2>1. g[0] = <<>> /\ \A n \in 1..N : g[n] = step[n][g[n - 1]]  BY <1>6 DEF IsLoop
  <2>2. \A n \in 1..N : g[n - 1] \in Lists1
    <3>1. \A n \in 1..N : n - 1 \in 0..N  BY <1>1
    <3> QED  BY <3>1
  <2>3. \A n \in 1..N : \A l \in Lists1 : step[n][l] = Pass(l, n)
    <3> HIDE DEF Pass
    <3> QED  OBVIOUS
  <2> HIDE DEF step, Pass
  <2> QED  BY <2>1, <2>2, <2>3
<1> DEFINE Eq(u) == u = [n \in 0..N |-> IF n = 0 THEN <<>> ELSE Pass(u[n - 1], n)]
<1>8. Eq(g)
  <2>1. \A n \in 0..N : g[n] = IF n = 0 THEN <<>> ELSE Pass(g[n - 1], n)
    <3> HIDE DEF Pass
    <3>1. \A n \in 0..N : n = 0 \/ n \in 1..N  BY <1>1
    <3> QED  BY <1>7, <3>1
  <2> HIDE DEF Pass
  <2> QED  BY <2>1, Zenon
<1> DEFINE upto == CHOOSE u : Eq(u)
<1>9. MapHold(cache, verb, targets) = upto[N]
  BY Zenon DEF MapHold, rec
<1>10. Eq(upto)
  <2> HIDE DEF Eq
  <2> QED  BY <1>8, Zenon
<1>11. PICK u : u = upto  OBVIOUS
<1> DEFINE S == {n \in 0..N : u[n] \in Lists1}
<1>12. Eq(u)
  <2> HIDE DEF Eq
  <2> QED  BY <1>10, <1>11, Zenon
<1>13. \A n \in 0..N : u[n] = IF n = 0 THEN <<>> ELSE Pass(u[n - 1], n)
  <2> HIDE DEF Pass
  <2>1. PICK h : h = [n \in 0..N |-> IF n = 0 THEN <<>> ELSE Pass(u[n - 1], n)]  OBVIOUS
  <2>2. \A n \in 0..N : h[n] = IF n = 0 THEN <<>> ELSE Pass(u[n - 1], n)
    BY <2>1, Zenon
  <2>3. u = h  BY <1>12, <2>1, Zenon
  <2> QED  BY <2>2, <2>3, Zenon
<1>14. 0 \in S
  <2>1. 0 \in 0..N  BY <1>1
  <2>2. u[0] = <<>>  BY <1>13, <2>1, Zenon
  <2> QED  BY <1>4, <2>1, <2>2
<1>15. ASSUME NEW n \in 1..N, n - 1 \in S PROVE n \in S
  <2>1. n \in 0..N /\ n # 0  OBVIOUS
  <2>2. u[n] = Pass(u[n - 1], n)  BY <1>13, <2>1, Zenon
  <2>3. u[n - 1] \in Lists1  BY <1>15
  <2>4. u[n] \in Lists1  BY <1>3, <2>2, <2>3, Zenon
  <2> QED  BY <2>1, <2>4
<1> HIDE DEF S
<1>16. N \in S
  <2>1. \A n \in 0..N : n \in S  BY <1>1, <1>14, <1>15, UpTo
  <2> QED  BY <1>1, <2>1
<1>17. MapHold(cache, verb, targets) \in Seq(HoldRecords)
  <2>1. u[N] \in Lists1  BY <1>16 DEF S
  <2> QED  BY <1>9, <1>11, <2>1, Zenon DEF Lists1
<1>18. PlanRecords(verb) = HoldRecords
  <2>1. verb \in PlanVerbs  BY DEF PlanVerbs
  <2>2. verb \notin TxnVerbs /\ verb # "apt.update" /\ RecordsOf(verb) = HoldRecords
    BY <2>1, VerbsAreApart DEF RecordsOf
  <2> QED  BY <2>2 DEF PlanRecords
<1> QED  BY <1>17, <1>18, Zenon

(* The packages a configure finishes.                                       *)
LEMMA MapConfigureType ==
  ASSUME NEW cache \in SUBSET Packages, IsFiniteSet(cache),
         NEW pending \in SetToSeqs(PendingIn(cache))
  PROVE  MapConfigure(pending) \in Seq(PlanRecords("apt.configure"))
<1>1. PendingIn(cache) \subseteq cache /\ \A p \in PendingIn(cache) : p.state \in CfgStates
  BY DEF PendingIn, CfgStates
<1>2. IsFiniteSet(PendingIn(cache))  BY <1>1, FS_Subset
<1>3. pending \in Seq(PendingIn(cache))  BY <1>2, EnumeratedOnce
<1>4. \A w \in CfgStates : Word(w) \in Strings  BY WordsAre, WordIs
<1>5. \A k \in DOMAIN pending : pending[k] \in Packages /\ pending[k].state \in CfgStates
  <2>1. \A k \in DOMAIN pending : pending[k] \in PendingIn(cache)  BY <1>3
  <2> QED  BY <1>1, <2>1
<1>6. \A k \in DOMAIN pending :
        [package |-> pending[k].name, architecture |-> pending[k].arch,
         current_version |-> pending[k].cur, state |-> Word(pending[k].state)] \in CfgRecords
  <2> TAKE k \in DOMAIN pending
  <2>1. PICK p \in Packages : p = pending[k]  BY <1>5
  <2>2. p.name \in Strings /\ p.arch \in Strings /\ p.cur \in Strings  BY DEF Packages
  <2>3. Word(p.state) \in Strings  BY <1>4, <1>5, <2>1
  <2>4. [package |-> p.name, architecture |-> p.arch,
         current_version |-> p.cur, state |-> Word(p.state)] \in CfgRecords
    BY <2>2, <2>3 DEF CfgRecords
  <2> QED  BY <2>1, <2>4, Zenon
<1>7. DOMAIN pending = 1..Len(pending) /\ Len(pending) \in Nat  BY <1>3
<1>8. MapConfigure(pending) \in Seq(CfgRecords)  BY <1>6, <1>7 DEF MapConfigure
<1>9. PlanRecords("apt.configure") = CfgRecords
  <2>1. RecordsOf("apt.configure") = CfgRecords /\ "apt.configure" \notin TxnVerbs
    BY DEF RecordsOf, TxnVerbs, HoldVerbs
  <2> QED  BY <2>1 DEF PlanRecords
<1> QED  BY <1>8, <1>9, Zenon

-----------------------------------------------------------------------------
(* A source: its key, its components and its architectures.                 *)

(* A string in hexadecimal is a string.                                     *)
LEMMA HexType ==
  ASSUME NEW s \in Strings
  PROVE  Hex(s) \in Strings
<1> DEFINE digit(i) == 97 + LET b == s[(i + 1) \div 2]
                            IN  IF i % 2 = 1 THEN b \div 16 ELSE b % 16
<1>1. Len(s) \in Nat /\ \A k \in 1..Len(s) : s[k] \in 1..255
  <2>1. Len(s) \in Nat /\ \A k \in 1..Len(s) : s[k] \in Bytes  BY DEF Strings
  <2> QED  BY <2>1 DEF Bytes
<1>2. \A b \in 1..255 : b \div 16 \in 0..15 /\ b % 16 \in 0..15  OBVIOUS
<1>3. ASSUME NEW i \in 1..2 * Len(s) PROVE digit(i) \in Bytes
  <2>1. (i + 1) \div 2 \in 1..Len(s)  BY <1>1
  <2>2. PICK b \in 1..255 : b = s[(i + 1) \div 2]  BY <1>1, <2>1
  <2>3. digit(i) = 97 + IF i % 2 = 1 THEN b \div 16 ELSE b % 16  BY <2>2, Zenon
  <2>4. PICK d \in 0..15 : d = IF i % 2 = 1 THEN b \div 16 ELSE b % 16
    <3>1. CASE i % 2 = 1  BY <1>2, <3>1
    <3>2. CASE i % 2 # 1  BY <1>2, <3>2
    <3> QED  BY <3>1, <3>2
  <2>5. digit(i) = 97 + d  BY <2>3, <2>4, Zenon
  <2>6. 97 + d \in Bytes  BY DEF Bytes
  <2> QED  BY <2>5, <2>6, Zenon
<1>4. Hex(s) = [i \in 1..2 * Len(s) |-> digit(i)]  BY Zenon DEF Hex
<1> HIDE DEF digit
<1>5. [i \in 1..2 * Len(s) |-> digit(i)] \in Seq(Bytes)
  <2>1. 2 * Len(s) \in Nat  BY <1>1
  <2> QED  BY <1>3, <2>1
<1> QED  BY <1>4, <1>5, Zenon DEF Strings

(* So is the token of a signing key (rec_source_add, apt_common.cc).        *)
LEMMA SignedByType ==
  ASSUME NEW s \in Strings
  PROVE  SignedByToken(s) \in Strings
<1>1. Word("inline-sha256:") \in Strings  BY WordsAre, WordIs
<1>2. Word("inline-sha256:") \o Hex(s) \in Strings  BY <1>1, HexType, StringsJoin
<1>3. SignedByToken(s) \in {s, Word("inline-sha256:") \o Hex(s)}  BY Zenon DEF SignedByToken
<1> QED  BY <1>2, <1>3

(* So is a source's list of architectures, sorted and joined.               *)
LEMMA ArchListType ==
  ASSUME NEW arches \in SUBSET Strings, IsFiniteSet(arches)
  PROVE  Joined(Space, Sorted(SetToSeq(arches))) \in Strings
<1>1. SetToSeq(arches) \in Seq(Strings)
  <2>1. SetToSeq(arches) \in Seq(arches)  BY EnumeratedIs
  <2> QED  BY <2>1
<1>2. PICK parts : parts = Sorted(SetToSeq(arches))  OBVIOUS
<1>3. parts \in Arrangements(SetToSeq(arches))  BY <1>1, <1>2, SortedIs
<1>4. parts \in Seq(Strings)  BY <1>1, <1>3, ArrangementKeeps
<1>5. Joined(Space, parts) \in Strings  BY <1>4, SeparatorsAre, JoinedType DEF Joined
<1> QED  BY <1>2, <1>5, Zenon

(* A set within one element is finite.                                      *)
LEMMA AtMostOne ==
  ASSUME NEW S, NEW e, S \subseteq {e}
  PROVE  IsFiniteSet(S)
BY FS_Singleton, FS_Subset

(* The components and the architectures of a source's targets are finite.   *)
LEMMA ImagesOf ==
  ASSUME NEW targets \in SUBSET [component: Strings, architecture: Strings],
         IsFiniteSet(targets)
  PROVE  /\ IsFiniteSet({t.component : t \in targets})
         /\ IsFiniteSet({t.architecture : t \in targets})
<1>1. ASSUME NEW f, NEW U, f \in [targets -> U], \A u \in U : \E t \in targets : f[t] = u
      PROVE  IsFiniteSet(U)
  <2>1. f \in Surjection(targets, U)  BY <1>1, Fun_IsSurj
  <2> QED  BY <2>1, FS_Surjection
<1>2. PICK f : f = [t \in targets |-> t.component]  OBVIOUS
<1>3. f \in [targets -> {t.component : t \in targets}]
      /\ \A u \in {t.component : t \in targets} : \E t \in targets : f[t] = u
  BY <1>2, Zenon
<1>4. PICK g : g = [t \in targets |-> t.architecture]  OBVIOUS
<1>5. g \in [targets -> {t.architecture : t \in targets}]
      /\ \A u \in {t.architecture : t \in targets} : \E t \in targets : g[t] = u
  BY <1>4, Zenon
<1>6. IsFiniteSet({t.component : t \in targets})
  <2>1. PICK U : U = {t.component : t \in targets}  OBVIOUS
  <2>2. f \in [targets -> U] /\ \A u \in U : \E t \in targets : f[t] = u
    BY <1>3, <2>1, Zenon
  <2>3. IsFiniteSet(U)  BY <1>1, <2>2
  <2> QED  BY <2>1, <2>3, Zenon
<1>7. IsFiniteSet({t.architecture : t \in targets})
  <2>1. PICK U : U = {t.architecture : t \in targets}  OBVIOUS
  <2>2. g \in [targets -> U] /\ \A u \in U : \E t \in targets : g[t] = u
    BY <1>5, <2>1, Zenon
  <2>3. IsFiniteSet(U)  BY <1>1, <2>2
  <2> QED  BY <2>1, <2>3, Zenon
<1> QED  BY <1>6, <1>7

(* A source gives a record a refresh may have.                              *)
LEMMA SourceType ==
  ASSUME NEW s \in Sources, IsFiniteSet(s.targets)
  PROVE  SrcRecord(s) \in PlanRecords("apt.update")
<1> DEFINE comps == {t.component : t \in s.targets} \ {<<>>}
           arches == {t.architecture : t \in s.targets} \ {<<>>}
           signed == <<Word("signed-by"), SignedByToken(s.signedBy)>>
           archs == <<Word("architectures"), Joined(Space, Sorted(SetToSeq(arches)))>>
           trust == <<Word("trusted"), Word(s.trusted)>>
           A == IF s.signedBy = <<>> THEN {} ELSE {signed}
           B == IF arches = {} THEN {} ELSE {archs}
           C == IF s.trusted = "unset" THEN {} ELSE {trust}
<1>1. /\ s.uri \in Strings /\ s.suite \in Strings /\ s.signedBy \in Strings
      /\ s.trusted \in {"yes", "no", "unset"}
      /\ s.targets \in SUBSET [component: Strings, architecture: Strings]
  BY DEF Sources
<1>2. /\ Word("signed-by") \in Strings /\ Word("architectures") \in Strings
      /\ Word("trusted") \in Strings /\ Word("yes") \in Strings /\ Word("no") \in Strings
  <2>1. /\ "signed-by" \in AllWords /\ "architectures" \in AllWords /\ "trusted" \in AllWords
        /\ "yes" \in AllWords /\ "no" \in AllWords
    BY WordsAre DEF OptKeys
  <2> QED  BY <2>1, WordIs
<1>3. IsFiniteSet({t.component : t \in s.targets}) /\ IsFiniteSet({t.architecture : t \in s.targets})
  BY <1>1, ImagesOf
<1>4. comps \in SUBSET Strings /\ IsFiniteSet(comps) /\ <<>> \notin comps
  <2>1. IsFiniteSet(comps)  BY <1>3, FS_Subset
  <2>2. \A t \in s.targets : t.component \in Strings  BY <1>1
  <2> QED  BY <2>1, <2>2
<1>5. arches \in SUBSET Strings /\ IsFiniteSet(arches)
  <2>1. IsFiniteSet(arches)  BY <1>3, FS_Subset
  <2>2. \A t \in s.targets : t.architecture \in Strings  BY <1>1
  <2> QED  BY <2>1, <2>2
<1>6. SrcRecord(s) = [uri |-> s.uri, suite |-> s.suite, components |-> comps,
                      options |-> A \cup B \cup C]
  BY Zenon DEF SrcRecord
<1> HIDE DEF comps, arches
<1>7. signed \in Pairs  BY <1>1, <1>2, SignedByType DEF Pairs
<1>8. archs \in Pairs  BY <1>2, <1>5, ArchListType DEF Pairs
<1>9. s.trusted # "unset" => trust \in Pairs  BY <1>1, <1>2 DEF Pairs
<1> HIDE DEF signed, archs, trust
<1>10. A \in SUBSET Pairs /\ A \subseteq {signed}  BY <1>7
<1>11. B \in SUBSET Pairs /\ B \subseteq {archs}  BY <1>8
<1>12. C \in SUBSET Pairs /\ C \subseteq {trust}  BY <1>9
<1> HIDE DEF A, B, C
<1>13. A \cup B \cup C \in SUBSET Pairs  BY <1>10, <1>11, <1>12
<1>14. IsFiniteSet(A \cup B \cup C)
  <2>1. IsFiniteSet(A) /\ IsFiniteSet(B) /\ IsFiniteSet(C)
    BY <1>10, <1>11, <1>12, AtMostOne
  <2>2. IsFiniteSet(A \cup B)  BY <2>1, FS_Union
  <2> QED  BY <2>1, <2>2, FS_Union
<1>15. PICK O : O = A \cup B \cup C  OBVIOUS
<1>16. O \in SUBSET Pairs /\ IsFiniteSet(O)  BY <1>13, <1>14, <1>15, Zenon
<1>17. SrcRecord(s) = [uri |-> s.uri, suite |-> s.suite, components |-> comps, options |-> O]
  BY <1>6, <1>15, Zenon
<1>18. SrcRecord(s) \in SrcRecords /\ SrcRecord(s).components = comps
       /\ SrcRecord(s).options = O
  BY <1>1, <1>4, <1>16, <1>17 DEF SrcRecords, Pairs
<1>19. RecordsOf("apt.update") = SrcRecords /\ "apt.update" \notin TxnVerbs
  BY DEF RecordsOf, TxnVerbs, HoldVerbs
<1> QED  BY <1>4, <1>16, <1>18, <1>19 DEF PlanRecords

(* The sources, one record each.                                            *)
LEMMA MapSourcesType ==
  ASSUME NEW list \in Seq(Sources), \A i \in DOMAIN list : IsFiniteSet(list[i].targets)
  PROVE  MapSources(list) \in Seq(PlanRecords("apt.update"))
<1>1. \A k \in DOMAIN list : SrcRecord(list[k]) \in PlanRecords("apt.update")
  BY SourceType
<1>2. DOMAIN list = 1..Len(list) /\ Len(list) \in Nat  OBVIOUS
<1> QED  BY <1>1, <1>2 DEF MapSources
-----------------------------------------------------------------------------
(* What resolving a request may come to.                                    *)

ResolveStatuses == {"ok", "resolve_failed", "dpkg_broken", "internal", "usage"}

Outcomes(verb) ==
  {out \in [status: ResolveStatuses, recs: Seq(PlanRecords(verb))] :
     out.status # "ok" => out.recs = <<>>}

Resolved(verb) == {out \in Outcomes(verb) : out.status \notin {"internal", "usage"}}

(* An outcome without records, and when it comes from resolving.            *)
LEMMA FailedIs ==
  ASSUME NEW verb, NEW status \in ResolveStatuses, status # "ok"
  PROVE  /\ Failed(status) \in Outcomes(verb)
         /\ status \notin {"internal", "usage"} => Failed(status) \in Resolved(verb)
<1>1. Failed(status).status = status /\ Failed(status).recs = <<>>
      /\ Failed(status) \in [status: ResolveStatuses, recs: Seq(PlanRecords(verb))]
  BY DEF Failed
<1> QED  BY <1>1 DEF Outcomes, Resolved

(* An outcome with records.                                                 *)
LEMMA MappedIs ==
  ASSUME NEW verb, NEW recs \in Seq(PlanRecords(verb))
  PROVE  Mapped(recs) \in Resolved(verb) /\ Mapped(recs).recs = recs
<1>1. Mapped(recs).status = "ok" /\ Mapped(recs).recs = recs
      /\ Mapped(recs) \in [status: ResolveStatuses, recs: Seq(PlanRecords(verb))]
  BY DEF Mapped, ResolveStatuses
<1> QED  BY <1>1 DEF Outcomes, Resolved

(* A request as the assumption on them has it, a world as its own.          *)
LEMMA RequestIs ==
  ASSUME NEW q \in Requests
  PROVE  q.verb \in Verbs /\ q.targets \in Seq(Strings)
         /\ q = [verb |-> q.verb, targets |-> q.targets]
BY RequestsAssumption

(* A cache is finite and holds a package once per architecture.             *)
LEMMA WorldIs ==
  ASSUME NEW w \in Worlds
  PROVE  /\ w.cache \in SUBSET Packages /\ IsFiniteSet(w.cache)
         /\ w.sources \in Seq(Sources)
         /\ \A i \in DOMAIN w.sources : IsFiniteSet(w.sources[i].targets)
         /\ \A p, p2 \in w.cache : p.name = p2.name /\ p.arch = p2.arch => p = p2
BY WorldsAssumption

(* Resolving comes to records of a plan or fails; those of a transaction    *)
(* are packages of this world with a mark libapt may set.                   *)
LEMMA ResolveIs ==
  ASSUME world \in Worlds, NEW q \in Requests, NEW out \in Resolve(q)
  PROVE  /\ out \in Resolved(q.verb)
         /\ q.verb \in TxnVerbs =>
              \A k \in DOMAIN out.recs :
                \E p \in world.cache : \E mark \in Actions \cap MarksFor(q.verb, p) :
                  out.recs[k] = TxnRecord(p, mark)
<1>1. PICK cache : cache = world.cache  OBVIOUS
<1>2. cache \in SUBSET Packages /\ IsFiniteSet(cache)  BY <1>1, WorldIs
<1>3. q.verb \in Verbs /\ q.targets \in Seq(Strings)  BY RequestIs
<1>4. CASE Family(q.verb) = "txn"
  <2>1. q.verb \in TxnVerbs
    BY <1>3, <1>4, VerbsAre
  <2>2. out \in TxnOutcomes(q, cache)  BY <1>1, <1>4, Zenon DEF Resolve
  <2>3. CASE out = Failed("resolve_failed")
    <3>1. out \in Resolved(q.verb)  BY <2>3, FailedIs DEF ResolveStatuses
    <3>2. out.recs = <<>>  BY <2>3 DEF Failed
    <3> QED  BY <3>1, <3>2
  <2>4. CASE out # Failed("resolve_failed")
    <3>1. PICK marks \in [cache -> Marks] :
            /\ \A p \in cache : marks[p] \in MarksFor(q.verb, p)
            /\ \E changed \in SetToSeqs(Changed(cache, marks)) : out = Mapped(MapTxn(changed, marks))
      BY <2>2, <2>4, Zenon DEF TxnOutcomes
    <3>2. PICK changed \in SetToSeqs(Changed(cache, marks)) : out = Mapped(MapTxn(changed, marks))
      BY <3>1
    <3>3. PICK recs : recs = MapTxn(changed, marks)  OBVIOUS
    <3>4. /\ recs \in Seq(PlanRecords(q.verb))
          /\ \A k \in DOMAIN recs :
               \E p \in cache : \E mark \in Actions \cap MarksFor(q.verb, p) :
                 recs[k] = TxnRecord(p, mark)
      BY <1>2, <2>1, <3>1, <3>3, MapTxnType, Zenon
    <3>5. out \in Resolved(q.verb) /\ out.recs = recs  BY <3>2, <3>3, <3>4, MappedIs
    <3> QED  BY <1>1, <3>4, <3>5, Zenon
  <2> QED  BY <2>3, <2>4
<1>5. CASE Family(q.verb) = "hold"
  <2>1. q.verb \in HoldVerbs /\ q.verb \notin TxnVerbs
    BY <1>3, <1>5, VerbsAre DEF TxnVerbs, HoldVerbs
  <2>2. out = HoldOutcome(q, cache)  BY <1>1, <1>5, Zenon DEF Resolve
  <2>3. CASE \A i \in DOMAIN q.targets : HoldSubject(cache, q.targets[i])
    <3>1. out = Mapped(MapHold(cache, q.verb, q.targets))  BY <2>2, <2>3, Zenon DEF HoldOutcome
    <3>2. MapHold(cache, q.verb, q.targets) \in Seq(PlanRecords(q.verb))
      BY <1>2, <1>3, <2>1, <2>3, MapHoldType
    <3> QED  BY <2>1, <3>1, <3>2, MappedIs
  <2>4. CASE ~\A i \in DOMAIN q.targets : HoldSubject(cache, q.targets[i])
    <3>1. out = Failed("resolve_failed")  BY <2>2, <2>4, Zenon DEF HoldOutcome
    <3> QED  BY <2>1, <3>1, FailedIs DEF ResolveStatuses
  <2> QED  BY <2>3, <2>4
<1>6. CASE Family(q.verb) = "configure"
  <2>1. q.verb = "apt.configure" /\ q.verb \notin TxnVerbs
    BY <1>3, <1>6, VerbsAre DEF TxnVerbs
  <2>2. out \in ConfigureOutcomes(cache)  BY <1>1, <1>6, Zenon DEF Resolve
  <2>3. CASE HalfInstalled(cache)
    <3>1. out = Failed("dpkg_broken")  BY <2>2, <2>3, Zenon DEF ConfigureOutcomes
    <3> QED  BY <2>1, <3>1, FailedIs DEF ResolveStatuses
  <2>4. CASE ~HalfInstalled(cache)
    <3>1. PICK pending \in SetToSeqs(PendingIn(cache)) : out = Mapped(MapConfigure(pending))
      BY <2>2, <2>4, Zenon DEF ConfigureOutcomes
    <3>2. MapConfigure(pending) \in Seq(PlanRecords(q.verb))
      BY <1>2, <2>1, MapConfigureType
    <3> QED  BY <2>1, <3>1, <3>2, MappedIs
  <2> QED  BY <2>3, <2>4
<1>7. CASE Family(q.verb) = "update"
  <2>1. q.verb = "apt.update" /\ q.verb \notin TxnVerbs
    BY <1>3, <1>7, VerbsAre DEF TxnVerbs
  <2>2. out = Mapped(MapSources(world.sources))  BY <1>7, Zenon DEF Resolve
  <2>3. MapSources(world.sources) \in Seq(PlanRecords(q.verb))
    BY <2>1, WorldIs, MapSourcesType
  <2> QED  BY <2>1, <2>2, <2>3, MappedIs
<1> QED  BY <1>3, <1>4, <1>5, <1>6, <1>7, VerbsAre

-----------------------------------------------------------------------------
(* Answers, verdicts and statuses.                                          *)

By == {"preview", "plan"}

(* The fields of an answer without a plan, and of one with its hash.        *)
IsBare(b, by, q, status, resource, out) ==
  /\ b # NoShow /\ b.by = by /\ b.verb = q.verb /\ b.targets = q.targets
  /\ b.status = status /\ b.resource = resource /\ b.hash = Refused /\ b.plan = out

IsHashed(h, by, q, status, out) ==
  /\ h # NoShow /\ h.by = by /\ h.verb = q.verb /\ h.targets = q.targets
  /\ h.status = status /\ h.resource = ResourceOf(q)
  /\ h.hash = Digest(q.verb, out.recs) /\ h.plan = out
  /\ by = "preview" => h.records = Decode(q.verb, Digest(q.verb, out.recs))

(* What an answer without a plan holds.                                     *)
LEMMA BareIs ==
  ASSUME NEW by \in By, NEW q, NEW status, NEW resource, NEW out
  PROVE  IsBare(Bare(by, q, status, resource, out), by, q, status, resource, out)
<1>1. PICK b : b = Bare(by, q, status, resource, out)  OBVIOUS
<1>2. /\ b # NoShow /\ b.by = by /\ b.verb = q.verb /\ b.targets = q.targets
      /\ b.status = status /\ b.resource = resource /\ b.hash = Refused
      /\ b.plan = out
  BY <1>1 DEF Bare, NoShow, By
<1> QED  BY <1>1, <1>2, Zenon DEF IsBare

(* What an answer with a hash holds.                                        *)
LEMMA HashedIs ==
  ASSUME NEW by \in By, NEW q, NEW status, NEW out
  PROVE  IsHashed(Hashed(by, q, status, out), by, q, status, out)
<1>0. PICK h : h = Hashed(by, q, status, out)  OBVIOUS
<1>1. PICK canon : canon = Digest(q.verb, out.recs)  OBVIOUS
<1>2. PICK res : res = ResourceOf(q)  OBVIOUS
<1>3. PICK dec : dec = IF by = "preview" THEN Decode(q.verb, canon) ELSE <<>>  OBVIOUS
<1>4. PICK b : b = Bare(by, q, status, res, out)  OBVIOUS
<1>5. h = [b EXCEPT !.hash = canon, !.records = dec]
  BY <1>0, <1>1, <1>2, <1>3, <1>4, Zenon DEF Hashed
<1>6. b = [by |-> by, verb |-> q.verb, targets |-> q.targets, status |-> status,
           resource |-> res, hash |-> Refused, records |-> <<>>, plan |-> out]
  BY <1>4, Zenon DEF Bare
<1>7. /\ h.by = by /\ h.verb = q.verb /\ h.targets = q.targets /\ h.status = status
      /\ h.resource = res /\ h.hash = canon /\ h.plan = out /\ h.records = dec
  BY <1>5, <1>6
<1>8. h # NoShow
  <2>1. NoShow.by = "none"  BY DEF NoShow
  <2>2. h.by # "none"  BY <1>7 DEF By
  <2> QED  BY <2>1, <2>2
<1>9. by = "preview" => dec = Decode(q.verb, canon)  BY <1>3, Zenon
<1> QED  BY <1>0, <1>1, <1>2, <1>7, <1>8, <1>9, Zenon DEF IsHashed

Verdicts == {"no_op", "ok", "not_owned", "held", "protected"}

(* The policy has five verdicts, and "no_op" is that of no record at all.   *)
LEMMA VerdictIs ==
  ASSUME NEW q, NEW recs
  PROVE  /\ Verdict(q, recs) \in Verdicts
         /\ Verdict(q, recs) = "no_op" <=> DOMAIN recs = {}
<1>1. PICK facts : facts = {Facts(q.verb, recs[i]) : i \in DOMAIN recs}  OBVIOUS
<1>2. facts = {} <=> DOMAIN recs = {}  BY <1>1, Zenon
<1>3. PICK fam : fam = Family(q.verb)  OBVIOUS
<1>4. Verdict(q, recs) = PlanCheck(fam, facts)  BY <1>1, <1>3, Zenon DEF Verdict
<1>5. PlanCheck(fam, facts) \in Verdicts /\ (PlanCheck(fam, facts) = "no_op" <=> facts = {})
  BY DEF PlanCheck, PolicyCheck, Verdicts
<1> QED  BY <1>2, <1>4, <1>5, Zenon

(* The policy does not depend on the order of the records.                  *)
LEMMA VerdictAlike ==
  ASSUME NEW T, NEW recs \in Seq(T), NEW s \in Arrangements(recs), NEW q, NEW q2,
         q2.verb = q.verb
  PROVE  Verdict(q2, s) = Verdict(q, recs)
<1>1. /\ \A i \in DOMAIN s : \E j \in DOMAIN recs : s[i] = recs[j]
      /\ \A j \in DOMAIN recs : \E i \in DOMAIN s : s[i] = recs[j]
  BY ArrangementKeeps
<1>2. {Facts(q.verb, s[i]) : i \in DOMAIN s} = {Facts(q.verb, recs[i]) : i \in DOMAIN recs}
  BY <1>1, Zenon
<1> QED  BY <1>2, Zenon DEF Verdict

(* A refusal of the policy is reported as one of three statuses.            *)
LEMMA PlanStatusIs ==
  ASSUME NEW v \in Verdicts
  PROVE  /\ PlanStatus(v) = "no_op" <=> v = "no_op"
         /\ v \notin {"no_op", "ok"} => PlanStatus(v) \in Refusals
         /\ PlanStatus(v) \in Refusals \cup {"no_op", "internal"}
BY DEF PlanStatus, Verdicts, Refusals

(* What is not empty has a first element.                                   *)
LEMMA NotEmpty ==
  ASSUME NEW T, NEW s \in Seq(T), s # <<>>
  PROVE  DOMAIN s # {}
OBVIOUS

(* What a preview reports, out of resource, outcome, digest and verdict.    *)
LEMMA PreviewStatusIs ==
  ASSUME NEW q, NEW out \in Resolved(q.verb), NEW st, st = PreviewStatus(q, out)
  PROVE  /\ st \in PreviewStatuses \ {"schema_invalid"}
         /\ ResourceOf(q) = Refused => st = "internal"
         /\ ResourceOf(q) # Refused =>
              /\ out.status # "ok" => st = out.status
              /\ out.status = "ok" =>
                   /\ out.recs = <<>> => st = "no_op"
                   /\ out.recs # <<>> =>
                        /\ Digest(q.verb, out.recs) = Refused => st = "internal"
                        /\ Digest(q.verb, out.recs) # Refused =>
                             /\ Verdict(q, out.recs) = "ok" => st = "ok"
                             /\ Verdict(q, out.recs) # "ok" =>
                                  st = PlanStatus(Verdict(q, out.recs)) /\ st \in Refusals
<1>1. /\ out.status \in {"ok", "resolve_failed", "dpkg_broken"}
      /\ out.recs # <<>> => DOMAIN out.recs # {}
  <2>1. out.recs \in Seq(PlanRecords(q.verb))  BY DEF Resolved, Outcomes
  <2>2. out.status \in {"ok", "resolve_failed", "dpkg_broken"}
    BY DEF Resolved, Outcomes, ResolveStatuses
  <2> QED  BY <2>1, <2>2, NotEmpty
<1>2. PICK v \in Verdicts : v = Verdict(q, out.recs)  BY VerdictIs
<1>3. out.recs # <<>> => v # "no_op"  BY <1>1, <1>2, VerdictIs
<1>4. /\ PlanStatus(v) = "no_op" <=> v = "no_op"
      /\ v \notin {"no_op", "ok"} => PlanStatus(v) \in Refusals
  BY PlanStatusIs
<1>5. PICK res, canon : res = ResourceOf(q) /\ canon = Digest(q.verb, out.recs)  OBVIOUS
<1>6. st = IF res = Refused THEN "internal"
           ELSE IF out.status # "ok" THEN out.status
           ELSE IF out.recs = <<>> THEN "no_op"
           ELSE IF canon = Refused THEN "internal"
           ELSE IF v = "ok" THEN "ok" ELSE PlanStatus(v)
  BY <1>2, <1>5, Zenon DEF PreviewStatus
<1>7. /\ st \in PreviewStatuses \ {"schema_invalid"}
      /\ res = Refused => st = "internal"
      /\ res # Refused =>
           /\ out.status # "ok" => st = out.status
           /\ out.status = "ok" =>
                /\ out.recs = <<>> => st = "no_op"
                /\ out.recs # <<>> =>
                     /\ canon = Refused => st = "internal"
                     /\ canon # Refused =>
                          /\ v = "ok" => st = "ok"
                          /\ v # "ok" => st = PlanStatus(v) /\ st \in Refusals
  BY <1>1, <1>3, <1>4, <1>6 DEF PreviewStatuses, Refusals
<1> QED  BY <1>2, <1>5, <1>7, Zenon

(* What each status of the plan tool tells of the plan.                     *)
LEMMA PlanToolStatusIs ==
  ASSUME NEW q, NEW out \in Resolved(q.verb), NEW st, st = PlanToolStatus(q, out)
  PROVE  /\ st \in ToolStatuses \ {"usage"}
         /\ st = "ok" => /\ out.status = "ok" /\ out.recs # <<>> /\ Verdict(q, out.recs) = "ok"
                         /\ ResourceOf(q) # Refused /\ Digest(q.verb, out.recs) # Refused
         /\ st = "noop" => out.status = "ok" /\ Verdict(q, out.recs) = "no_op"
         /\ st = "refused" =>
              \/ out.status = "dpkg_broken"
              \/ out.status = "ok" /\ Verdict(q, out.recs) \notin {"ok", "no_op"}
         /\ st = "internal" =>
              \/ out.status = "resolve_failed"
              \/ /\ out.status = "ok" /\ Verdict(q, out.recs) = "ok"
                 /\ Refused \in {ResourceOf(q), Digest(q.verb, out.recs)}
<1>1. out.status \in {"ok", "resolve_failed", "dpkg_broken"} /\ (out.recs = <<>> => DOMAIN out.recs = {})
  BY DEF Resolved, Outcomes, ResolveStatuses
<1>2. PICK v \in Verdicts : v = Verdict(q, out.recs)  BY VerdictIs
<1>3. out.recs = <<>> => v = "no_op"  BY <1>1, <1>2, VerdictIs
<1>5. PICK res, canon : res = ResourceOf(q) /\ canon = Digest(q.verb, out.recs)  OBVIOUS
<1>6. st = IF out.status = "dpkg_broken" THEN "refused"
           ELSE IF out.status # "ok" THEN "internal"
           ELSE IF v = "no_op" THEN "noop"
           ELSE IF v # "ok" THEN "refused"
           ELSE IF Refused \in {res, canon} THEN "internal" ELSE "ok"
  BY <1>2, <1>5, Zenon DEF PlanToolStatus
<1>7. /\ st \in ToolStatuses \ {"usage"}
      /\ st = "ok" => /\ out.status = "ok" /\ out.recs # <<>> /\ v = "ok"
                      /\ res # Refused /\ canon # Refused
      /\ st = "noop" => out.status = "ok" /\ v = "no_op"
      /\ st = "refused" => \/ out.status = "dpkg_broken"
                           \/ out.status = "ok" /\ v \notin {"ok", "no_op"}
      /\ st = "internal" => \/ out.status = "resolve_failed"
                            \/ out.status = "ok" /\ v = "ok" /\ Refused \in {res, canon}
  BY <1>1, <1>3, <1>6 DEF ToolStatuses
<1> QED  BY <1>2, <1>5, <1>7, Zenon

(* What a helper's run tells of its plan.                                   *)
IsRun(r, q, out) ==
  /\ r # NoRun /\ r.verb = q.verb /\ r.targets = q.targets /\ r.plan = out
  /\ r.status \in RunStatuses
  /\ out.status # "ok" => r.status = out.status
  /\ out.status = "ok" =>
       /\ Verdict(q, out.recs) # "ok" => r.status = PlanStatus(Verdict(q, out.recs))
       /\ Verdict(q, out.recs) = "ok" =>
            /\ Refused \in {ResourceOf(q), Digest(q.verb, out.recs)}
                 => r.status = "internal"
            /\ Refused \notin {ResourceOf(q), Digest(q.verb, out.recs)}
                 => r.status = IF Accepts(q, out) THEN "redeemed" ELSE "no_intent"
  /\ r.status = "redeemed" =>
       /\ out.status = "ok" /\ Verdict(q, out.recs) = "ok"
       /\ ResourceOf(q) # Refused /\ Digest(q.verb, out.recs) # Refused
       /\ Accepts(q, out)

(* The run of a helper is what its outcome, verdict and receipt make it.    *)
LEMMA RanIs ==
  ASSUME NEW q, NEW out \in Outcomes(q.verb), out.status # "usage"
  PROVE  IsRun(Ran(q, out), q, out)
<1>0. PICK r : r = Ran(q, out)  OBVIOUS
<1>1. out.status \in ResolveStatuses \ {"usage"}  BY DEF Outcomes
<1>2. PICK v \in Verdicts : v = Verdict(q, out.recs)  BY VerdictIs
<1>3. /\ PlanStatus(v) \in Refusals \cup {"no_op", "internal"}  BY PlanStatusIs
<1>4. PICK res, canon : res = ResourceOf(q) /\ canon = Digest(q.verb, out.recs)  OBVIOUS
<1>5. PICK hs : hs = HelperStatus(q, out)  OBVIOUS
<1>6. hs = IF out.status # "ok" THEN out.status
           ELSE IF v # "ok" THEN PlanStatus(v)
           ELSE IF Refused \in {res, canon} THEN "internal" ELSE "redeem"
  BY <1>2, <1>4, <1>5, Zenon DEF HelperStatus
<1>7. PICK st : st = IF hs # "redeem" THEN hs
                     ELSE IF Accepts(q, out) THEN "redeemed" ELSE "no_intent"
  OBVIOUS
<1>8. r = [verb |-> q.verb, targets |-> q.targets, plan |-> out, status |-> st]
  BY <1>0, <1>5, <1>7, Zenon DEF Ran
<1>9. /\ st \in RunStatuses
      /\ out.status # "ok" => st = out.status
      /\ out.status = "ok" =>
           /\ v # "ok" => st = PlanStatus(v)
           /\ v = "ok" =>
                /\ Refused \in {res, canon} => st = "internal"
                /\ Refused \notin {res, canon}
                     => st = IF Accepts(q, out) THEN "redeemed" ELSE "no_intent"
      /\ st = "redeemed" =>
           /\ out.status = "ok" /\ v = "ok" /\ res # Refused /\ canon # Refused
           /\ Accepts(q, out)
  BY <1>1, <1>3, <1>6, <1>7 DEF RunStatuses, Refusals, ResolveStatuses
<1>10. r.verb = q.verb /\ r.targets = q.targets /\ r.plan = out /\ r.status = st
  BY <1>8
<1>11. r # NoRun
  <2>1. NoRun.status = "none"  BY DEF NoRun
  <2>2. "none" \notin RunStatuses  BY DEF RunStatuses, Refusals
  <2> QED  BY <1>9, <1>10, <2>1, <2>2
<1>12. IsRun(r, q, out)  BY <1>2, <1>4, <1>9, <1>10, <1>11, Zenon DEF IsRun
<1> QED  BY <1>0, <1>12, Zenon

-----------------------------------------------------------------------------
(* The inductive invariant.                                                 *)

PreviewAnswer(q, out) ==
  LET status == PreviewStatus(q, out)
  IN  IF status \in Refusals \cup {"ok"} THEN Hashed("preview", q, status, out)
      ELSE Bare("preview", q, status, ResourceOf(q), out)

ToolAnswer(q, out) ==
  LET status == PlanToolStatus(q, out)
  IN  IF status = "ok" THEN Hashed("plan", q, status, out)
      ELSE Bare("plan", q, status, Refused, out)

Unread(s) ==
  \E status \in {"internal", "schema_invalid"} :
    s = Bare("preview", NoRequest, status, Refused, Failed("internal"))
Unopened(s) ==
  \E q \in Requests : \E resource \in {Refused, ResourceOf(q)} :
    Parses(q) /\ s = Bare("preview", q, "internal", resource, Failed("internal"))
Previewed(s) ==
  \E q \in Requests : \E out \in Resolved(q.verb) : Parses(q) /\ s = PreviewAnswer(q, out)
Unplanned(s) ==
  \E q \in Requests : \E status \in {"usage", "internal"} :
    s = Bare("plan", q, status, Refused, Failed(status))
Planned(s) ==
  \E q \in Requests : \E out \in Resolved(q.verb) :
    ArityOk(q.verb, q.targets) /\ s = ToolAnswer(q, out)

(* What has been shown is an answer to some request that came to some       *)
(* outcome, in a world that may be gone.                                    *)
ShownInv == \/ shown = NoShow
            \/ Unread(shown) \/ Unopened(shown) \/ Previewed(shown)
            \/ Unplanned(shown) \/ Planned(shown)

(* What has run is a helper's request as this world resolves it, against    *)
(* what is shown now.                                                       *)
Outcome(q) == IF Parses(q) THEN Resolve(q) ELSE {Failed("internal")}
RunInv == run # NoRun => /\ shown # NoShow
                         /\ \E q \in Requests : \E out \in Outcome(q) : run = Ran(q, out)

IInv == world \in Worlds /\ ShownInv /\ RunInv

(* IInv holds at the start: nothing has been shown and nothing has run.     *)
LEMMA InitIInv == Init => IInv
BY DEF Init, IInv, ShownInv, RunInv

(* Every step keeps IInv; a change of the world comes before the run.       *)
LEMMA NextIInv == IInv /\ [Next]_vars => IInv'
<1> SUFFICES ASSUME IInv, [Next]_vars PROVE IInv'
  OBVIOUS
<1>0. world \in Worlds /\ ShownInv /\ RunInv  BY DEF IInv
<1>1. ASSUME NEW q \in Requests, Preview(q) PROVE IInv'
  <2>1. shown = NoShow /\ world' = world /\ run' = run  BY <1>1 DEF Preview
  <2>2. run = NoRun  BY <1>0, <2>1 DEF RunInv
  <2>3. Unread(shown') \/ Previewed(shown')
    <3>1. CASE ~Parses(q)
      <4>1. shown' = Bare("preview", NoRequest, "schema_invalid", Refused, Failed("internal"))
        BY <1>1, <3>1, Zenon DEF Preview
      <4> QED  BY <4>1, Zenon DEF Unread
    <3>2. CASE Parses(q)
      <4>1. PICK out \in Resolve(q) : shown' = PreviewAnswer(q, out)
        BY <1>1, <3>2, Zenon DEF Preview, PreviewAnswer
      <4>2. out \in Resolved(q.verb)  BY <1>0, ResolveIs
      <4> QED  BY <3>2, <4>1, <4>2, Zenon DEF Previewed
    <3> QED  BY <3>1, <3>2
  <2>4. ShownInv'  BY <2>3 DEF ShownInv
  <2>5. RunInv'  BY <2>1, <2>2 DEF RunInv
  <2> QED  BY <1>0, <2>1, <2>4, <2>5 DEF IInv
<1>2. ASSUME NEW q \in Requests, PreviewFails(q) PROVE IInv'
  <2>1. shown = NoShow /\ world' = world /\ run' = run  BY <1>2 DEF PreviewFails
  <2>2. run = NoRun  BY <1>0, <2>1 DEF RunInv
  <2>3. Unread(shown') \/ Unopened(shown')
    <3>1. CASE \E status \in {"internal", "schema_invalid"} :
                 shown' = Bare("preview", NoRequest, status, Refused, Failed("internal"))
      BY <3>1, Zenon DEF Unread
    <3>2. CASE Parses(q) /\ \E resource \in {Refused, ResourceOf(q)} :
                 shown' = Bare("preview", q, "internal", resource, Failed("internal"))
      BY <3>2, Zenon DEF Unopened
    <3> QED  BY <1>2, <3>1, <3>2, Zenon DEF PreviewFails
  <2>4. ShownInv'  BY <2>3 DEF ShownInv
  <2>5. RunInv'  BY <2>1, <2>2 DEF RunInv
  <2> QED  BY <1>0, <2>1, <2>4, <2>5 DEF IInv
<1>3. ASSUME NEW q \in Requests, PlanTool(q) PROVE IInv'
  <2>1. shown = NoShow /\ world' = world /\ run' = run  BY <1>3 DEF PlanTool
  <2>2. run = NoRun  BY <1>0, <2>1 DEF RunInv
  <2>3. Unplanned(shown') \/ Planned(shown')
    <3>1. CASE ~ArityOk(q.verb, q.targets)
      <4>1. shown' = Bare("plan", q, "usage", Refused, Failed("usage"))
        BY <1>3, <3>1, Zenon DEF PlanTool
      <4> QED  BY <4>1, Zenon DEF Unplanned
    <3>2. CASE ArityOk(q.verb, q.targets)
      <4>1. PICK out \in Resolve(q) : shown' = ToolAnswer(q, out)
        BY <1>3, <3>2, Zenon DEF PlanTool, ToolAnswer
      <4>2. out \in Resolved(q.verb)  BY <1>0, ResolveIs
      <4> QED  BY <3>2, <4>1, <4>2, Zenon DEF Planned
    <3> QED  BY <3>1, <3>2
  <2>4. ShownInv'  BY <2>3 DEF ShownInv
  <2>5. RunInv'  BY <2>1, <2>2 DEF RunInv
  <2> QED  BY <1>0, <2>1, <2>4, <2>5 DEF IInv
<1>4. ASSUME NEW q \in Requests, PlanToolFails(q) PROVE IInv'
  <2>1. shown = NoShow /\ world' = world /\ run' = run  BY <1>4 DEF PlanToolFails
  <2>2. run = NoRun  BY <1>0, <2>1 DEF RunInv
  <2>3. Unplanned(shown')  BY <1>4, Zenon DEF PlanToolFails, Unplanned
  <2>4. ShownInv'  BY <2>3 DEF ShownInv
  <2>5. RunInv'  BY <2>1, <2>2 DEF RunInv
  <2> QED  BY <1>0, <2>1, <2>4, <2>5 DEF IInv
<1>5. ASSUME NEW q \in Requests, Helper(q) PROVE IInv'
  <2>1. shown # NoShow /\ world' = world /\ shown' = shown  BY <1>5 DEF Helper
  <2>2. PICK out \in Outcome(q) : run' = Ran(q, out)
    BY <1>5, Zenon DEF Helper, Outcome
  <2>3. Outcome(q)' = Outcome(q)
    BY <2>1 DEF Outcome, Resolve
  <2>4. Ran(q, out)' = Ran(q, out)
    BY <2>1 DEF Ran, Accepts
  <2>5. RunInv'  BY <2>1, <2>2, <2>3, <2>4, Zenon DEF RunInv
  <2>6. ShownInv'  BY <1>0, <2>1 DEF ShownInv
  <2> QED  BY <1>0, <2>1, <2>5, <2>6 DEF IInv
<1>6. CASE WorldChanges
  <2>1. world' \in Worlds /\ shown' = shown /\ run' = run /\ run = NoRun  BY <1>6 DEF WorldChanges
  <2>2. RunInv'  BY <2>1 DEF RunInv
  <2>3. ShownInv'  BY <1>0, <2>1 DEF ShownInv
  <2> QED  BY <2>1, <2>2, <2>3 DEF IInv
<1>7. CASE UNCHANGED vars
  <2>1. world' = world /\ shown' = shown /\ run' = run  BY <1>7 DEF vars
  <2>2. RunInv'
    <3>1. SUFFICES ASSUME run # NoRun
                   PROVE  shown # NoShow /\ (\E q \in Requests : \E out \in Outcome(q) : run = Ran(q, out))'
      BY <2>1 DEF RunInv
    <3>2. PICK q \in Requests : \E out \in Outcome(q) : run = Ran(q, out)
      BY <1>0, <3>1, Zenon DEF RunInv
    <3>6. PICK out \in Outcome(q) : run = Ran(q, out)  BY <3>2
    <3>3. Outcome(q)' = Outcome(q)  BY <2>1 DEF Outcome, Resolve
    <3>4. Ran(q, out)' = Ran(q, out)  BY <2>1 DEF Ran, Accepts
    <3>5. shown # NoShow  BY <1>0, <3>1 DEF RunInv
    <3> QED  BY <2>1, <3>6, <3>3, <3>4, <3>5, Zenon
  <2>3. ShownInv'  BY <1>0, <2>1 DEF ShownInv
  <2> QED  BY <1>0, <2>1, <2>2, <2>3 DEF IInv
<1> QED  BY <1>1, <1>2, <1>3, <1>4, <1>5, <1>6, <1>7 DEF Next

(* IInv is an invariant.                                                    *)
LEMMA Invariance == Spec => []IInv
BY InitIInv, NextIInv, PTL DEF Spec

-----------------------------------------------------------------------------
(* What each kind of answer says.                                           *)

(* A preview that could not read its request.                               *)
LEMMA UnreadIs ==
  ASSUME NEW s, Unread(s)
  PROVE  /\ s # NoShow /\ s.by = "preview" /\ s.verb = "none" /\ s.targets = <<>>
         /\ s.status \in {"internal", "schema_invalid"} /\ s.hash = Refused
         /\ s.plan = Failed("internal")
<1>1. PICK status \in {"internal", "schema_invalid"} :
        s = Bare("preview", NoRequest, status, Refused, Failed("internal"))
  BY DEF Unread
<1>2. NoRequest.verb = "none" /\ NoRequest.targets = <<>>  BY DEF NoRequest
<1>3. /\ s # NoShow /\ s.by = "preview" /\ s.verb = NoRequest.verb /\ s.targets = NoRequest.targets
      /\ s.status = status /\ s.hash = Refused /\ s.plan = Failed("internal")
  <2>1. "preview" \in By  BY DEF By
  <2>2. IsBare(Bare("preview", NoRequest, status, Refused, Failed("internal")),
               "preview", NoRequest, status, Refused, Failed("internal"))
    BY <2>1, BareIs, Zenon
  <2>3. IsBare(s, "preview", NoRequest, status, Refused, Failed("internal"))
    BY <1>1, <2>2, Zenon
  <2> QED  BY <2>3, Zenon DEF IsBare
<1> QED  BY <1>2, <1>3, Zenon

(* A preview that could not open the cache or the sources.                  *)
LEMMA UnopenedIs ==
  ASSUME NEW s, Unopened(s)
  PROVE  \E q \in Requests :
           /\ Parses(q) /\ s # NoShow /\ s.by = "preview" /\ s.verb = q.verb
           /\ s.targets = q.targets /\ s.status = "internal" /\ s.hash = Refused
           /\ s.plan = Failed("internal")
<1>1. PICK q \in Requests : \E resource \in {Refused, ResourceOf(q)} :
        Parses(q) /\ s = Bare("preview", q, "internal", resource, Failed("internal"))
  BY Zenon DEF Unopened
<1>2. PICK resource : Parses(q) /\ s = Bare("preview", q, "internal", resource, Failed("internal"))
  BY <1>1, Zenon
<1>3. "preview" \in By  BY DEF By
<1>4. /\ s # NoShow /\ s.by = "preview" /\ s.verb = q.verb /\ s.targets = q.targets
      /\ s.status = "internal" /\ s.hash = Refused /\ s.plan = Failed("internal")
  <2>1. IsBare(Bare("preview", q, "internal", resource, Failed("internal")),
               "preview", q, "internal", resource, Failed("internal"))
    BY <1>3, BareIs, Zenon
  <2>2. IsBare(s, "preview", q, "internal", resource, Failed("internal"))
    BY <1>2, <2>1, Zenon
  <2> QED  BY <2>2, Zenon DEF IsBare
<1> QED  BY <1>2, <1>4, Zenon

(* A preview of a resolved request: the hash is there with "ok" and with a  *)
(* refusal, and the records are what is split out of it.                    *)
LEMMA PreviewedIs ==
  ASSUME NEW s, Previewed(s)
  PROVE  \E q \in Requests : \E out \in Resolved(q.verb) :
           /\ Parses(q) /\ s # NoShow /\ s.by = "preview" /\ s.verb = q.verb
           /\ s.targets = q.targets /\ s.status = PreviewStatus(q, out)
           /\ s.resource = ResourceOf(q) /\ s.plan = out
           /\ s.status \in Refusals \cup {"ok"} =>
                /\ s.hash = Digest(q.verb, out.recs)
                /\ s.records = Decode(q.verb, Digest(q.verb, out.recs))
           /\ s.status \notin Refusals \cup {"ok"} => s.hash = Refused
<1>1. PICK q \in Requests : \E out \in Resolved(q.verb) : Parses(q) /\ s = PreviewAnswer(q, out)
  BY Zenon DEF Previewed
<1>2. PICK out \in Resolved(q.verb) : Parses(q) /\ s = PreviewAnswer(q, out)  BY <1>1
<1>3. PICK status : status = PreviewStatus(q, out)  OBVIOUS
<1>4. "preview" \in By  BY DEF By
<1>5. CASE status \in Refusals \cup {"ok"}
  <2>1. s = Hashed("preview", q, status, out)
    BY <1>2, <1>3, <1>5, Zenon DEF PreviewAnswer
  <2>2. /\ s # NoShow /\ s.by = "preview" /\ s.verb = q.verb /\ s.targets = q.targets
        /\ s.status = status /\ s.resource = ResourceOf(q) /\ s.plan = out
        /\ s.hash = Digest(q.verb, out.recs)
        /\ s.records = Decode(q.verb, Digest(q.verb, out.recs))
    <3>1. IsHashed(Hashed("preview", q, status, out), "preview", q, status, out)
      BY <1>4, HashedIs, Zenon
    <3>2. IsHashed(s, "preview", q, status, out)  BY <2>1, <3>1, Zenon
    <3> QED  BY <3>2, Zenon DEF IsHashed
  <2> QED  BY <1>2, <1>3, <1>5, <2>2, Zenon
<1>6. CASE status \notin Refusals \cup {"ok"}
  <2>1. s = Bare("preview", q, status, ResourceOf(q), out)
    BY <1>2, <1>3, <1>6, Zenon DEF PreviewAnswer
  <2>2. /\ s # NoShow /\ s.by = "preview" /\ s.verb = q.verb /\ s.targets = q.targets
        /\ s.status = status /\ s.resource = ResourceOf(q) /\ s.plan = out /\ s.hash = Refused
    <3>1. IsBare(Bare("preview", q, status, ResourceOf(q), out),
                 "preview", q, status, ResourceOf(q), out)
      BY <1>4, BareIs, Zenon
    <3>2. IsBare(s, "preview", q, status, ResourceOf(q), out)  BY <2>1, <3>1, Zenon
    <3> QED  BY <3>2, Zenon DEF IsBare
  <2> QED  BY <1>2, <1>3, <1>6, <2>2, Zenon
<1> QED  BY <1>5, <1>6

(* A plan tool that was called wrongly or failed.                           *)
LEMMA UnplannedIs ==
  ASSUME NEW s, Unplanned(s)
  PROVE  \E q \in Requests : \E status \in {"usage", "internal"} :
           /\ s # NoShow /\ s.by = "plan" /\ s.verb = q.verb /\ s.targets = q.targets
           /\ s.status = status /\ s.hash = Refused /\ s.plan = Failed(status)
<1>1. PICK q \in Requests : \E status \in {"usage", "internal"} :
        s = Bare("plan", q, status, Refused, Failed(status))
  BY DEF Unplanned
<1>2. PICK status \in {"usage", "internal"} : s = Bare("plan", q, status, Refused, Failed(status))
  BY <1>1
<1>3. "plan" \in By  BY DEF By
<1>4. /\ s # NoShow /\ s.by = "plan" /\ s.verb = q.verb /\ s.targets = q.targets
      /\ s.status = status /\ s.hash = Refused /\ s.plan = Failed(status)
  <2>1. IsBare(Bare("plan", q, status, Refused, Failed(status)),
               "plan", q, status, Refused, Failed(status))
    BY <1>3, BareIs, Zenon
  <2>2. IsBare(s, "plan", q, status, Refused, Failed(status))  BY <1>2, <2>1, Zenon
  <2> QED  BY <2>2, Zenon DEF IsBare
<1> QED  BY <1>4, Zenon

(* A plan tool with a resolved request: a hash with "ok" alone.             *)
LEMMA PlannedIs ==
  ASSUME NEW s, Planned(s)
  PROVE  \E q \in Requests : \E out \in Resolved(q.verb) :
           /\ ArityOk(q.verb, q.targets) /\ s # NoShow /\ s.by = "plan" /\ s.verb = q.verb
           /\ s.targets = q.targets /\ s.status = PlanToolStatus(q, out) /\ s.plan = out
           /\ s.status = "ok" => /\ s.hash = Digest(q.verb, out.recs)
                                 /\ s.resource = ResourceOf(q)
           /\ s.status # "ok" => s.hash = Refused
<1>1. PICK q \in Requests : \E out \in Resolved(q.verb) :
        ArityOk(q.verb, q.targets) /\ s = ToolAnswer(q, out)
  BY Zenon DEF Planned
<1>2. PICK out \in Resolved(q.verb) : ArityOk(q.verb, q.targets) /\ s = ToolAnswer(q, out)
  BY <1>1
<1>3. PICK status : status = PlanToolStatus(q, out)  OBVIOUS
<1>4. "plan" \in By  BY DEF By
<1>5. CASE status = "ok"
  <2>1. s = Hashed("plan", q, status, out)
    BY <1>2, <1>3, <1>5, Zenon DEF ToolAnswer
  <2>2. /\ s # NoShow /\ s.by = "plan" /\ s.verb = q.verb /\ s.targets = q.targets
        /\ s.status = status /\ s.resource = ResourceOf(q) /\ s.plan = out
        /\ s.hash = Digest(q.verb, out.recs)
    <3>1. IsHashed(Hashed("plan", q, status, out), "plan", q, status, out)
      BY <1>4, HashedIs, Zenon
    <3>2. IsHashed(s, "plan", q, status, out)  BY <2>1, <3>1, Zenon
    <3> QED  BY <3>2, Zenon DEF IsHashed
  <2> QED  BY <1>2, <1>3, <1>5, <2>2, Zenon
<1>6. CASE status # "ok"
  <2>1. s = Bare("plan", q, status, Refused, out)
    BY <1>2, <1>3, <1>6, Zenon DEF ToolAnswer
  <2>2. /\ s # NoShow /\ s.by = "plan" /\ s.verb = q.verb /\ s.targets = q.targets
        /\ s.status = status /\ s.plan = out /\ s.hash = Refused
    <3>1. IsBare(Bare("plan", q, status, Refused, out), "plan", q, status, Refused, out)
      BY <1>4, BareIs, Zenon
    <3>2. IsBare(s, "plan", q, status, Refused, out)  BY <2>1, <3>1, Zenon
    <3> QED  BY <3>2, Zenon DEF IsBare
  <2> QED  BY <1>2, <1>3, <1>6, <2>2, Zenon
<1> QED  BY <1>5, <1>6

(* A helper's outcome is one, and the run is what it tells.                 *)
LEMMA OutcomeIs ==
  ASSUME world \in Worlds, NEW q \in Requests, NEW out \in Outcome(q)
  PROVE  /\ out \in Outcomes(q.verb) /\ out.status # "usage"
         /\ out.status = "ok" => Parses(q) /\ out \in Resolve(q)
<1>1. CASE Parses(q)
  <2>1. out \in Resolve(q)  BY <1>1, Zenon DEF Outcome
  <2>2. out \in Resolved(q.verb)  BY <2>1, ResolveIs
  <2> QED  BY <1>1, <2>1, <2>2 DEF Resolved
<1>2. CASE ~Parses(q)
  <2>1. out = Failed("internal")  BY <1>2, Zenon DEF Outcome
  <2>2. "internal" \in ResolveStatuses  BY DEF ResolveStatuses
  <2>3. out \in Outcomes(q.verb)  BY <2>1, <2>2, FailedIs
  <2>4. out.status = "internal"  BY <2>1 DEF Failed
  <2> QED  BY <2>3, <2>4
<1> QED  BY <1>1, <1>2

(* A run has a request and an outcome; a plan is one of this world.         *)
LEMMA HasRun ==
  ASSUME IInv, run # NoRun
  PROVE  \E q \in Requests : \E out \in Outcomes(q.verb) :
           /\ out.status # "usage" /\ run = Ran(q, out)
           /\ out.status = "ok" => Parses(q) /\ out \in Resolve(q)
<1>1. PICK q \in Requests : \E out \in Outcome(q) : run = Ran(q, out)
  BY Zenon DEF IInv, RunInv
<1>2. PICK out \in Outcome(q) : run = Ran(q, out)  BY <1>1
<1>3. /\ out \in Outcomes(q.verb) /\ out.status # "usage"
      /\ out.status = "ok" => Parses(q) /\ out \in Resolve(q)
  BY OutcomeIs DEF IInv
<1> QED  BY <1>2, <1>3, Zenon

(* The records of an outcome are of the kind its verb has.                  *)
LEMMA RecordsAre ==
  ASSUME NEW verb, NEW out \in Outcomes(verb)
  PROVE  out.recs \in Seq(RecordsOf(verb))
<1>1. out.recs \in Seq(PlanRecords(verb))  BY DEF Outcomes
<1>2. PlanRecords(verb) \subseteq RecordsOf(verb)  BY DEF PlanRecords
<1>3. ASSUME NEW S, NEW T, S \subseteq T, NEW s \in Seq(S) PROVE s \in Seq(T)
  BY <1>3
<1> QED  BY <1>1, <1>2, <1>3, Zenon

(* No records are records of any kind.                                      *)
LEMMA EmptyIs ==
  ASSUME NEW S
  PROVE  <<>> \in Seq(S)
OBVIOUS

(* The invariant has what the type invariant says.                          *)
LEMMA IInvTypeOK == IInv => TypeOK
<1> SUFFICES ASSUME IInv PROVE TypeOK
  OBVIOUS
<1>1. world \in Worlds /\ ShownInv  BY DEF IInv
<1>2. ASSUME shown # NoShow
      PROVE  /\ shown.by \in {"preview", "plan"}
             /\ shown.status \in IF shown.by = "preview" THEN PreviewStatuses ELSE ToolStatuses
             /\ shown.verb \in Verbs \cup {"none"} /\ shown.targets \in Seq(Strings)
             /\ shown.plan.recs \in Seq(RecordsOf(shown.verb))
  <2>1. CASE Unread(shown)
    <3>1. /\ shown.by = "preview" /\ shown.verb = "none" /\ shown.targets = <<>>
          /\ shown.status \in {"internal", "schema_invalid"} /\ shown.plan = Failed("internal")
      BY <2>1, UnreadIs, Zenon
    <3>2. shown.plan.recs = <<>>  BY <3>1 DEF Failed
    <3>3. shown.status \in PreviewStatuses  BY <3>1 DEF PreviewStatuses
    <3>4. shown.plan.recs \in Seq(RecordsOf(shown.verb)) /\ shown.targets \in Seq(Strings)
      BY <3>1, <3>2, EmptyIs, Zenon
    <3> QED  BY <3>1, <3>3, <3>4
  <2>2. CASE Unopened(shown)
    <3>1. PICK q \in Requests :
            /\ shown.by = "preview" /\ shown.verb = q.verb /\ shown.targets = q.targets
            /\ shown.status = "internal" /\ shown.plan = Failed("internal")
      BY <2>2, UnopenedIs, Zenon
    <3>2. shown.plan.recs = <<>>  BY <3>1 DEF Failed
    <3>3. shown.status \in PreviewStatuses  BY <3>1 DEF PreviewStatuses
    <3>4. shown.plan.recs \in Seq(RecordsOf(shown.verb))  BY <3>2, EmptyIs, Zenon
    <3> QED  BY <3>1, <3>3, <3>4, RequestIs
  <2>3. CASE Previewed(shown)
    <3>1. PICK q \in Requests : \E out \in Resolved(q.verb) :
            /\ shown.by = "preview" /\ shown.verb = q.verb /\ shown.targets = q.targets
            /\ shown.status = PreviewStatus(q, out) /\ shown.plan = out
      BY <2>3, PreviewedIs, Zenon
    <3>2. PICK out \in Resolved(q.verb) :
            /\ shown.by = "preview" /\ shown.verb = q.verb /\ shown.targets = q.targets
            /\ shown.status = PreviewStatus(q, out) /\ shown.plan = out
      BY <3>1
    <3>3. shown.status \in PreviewStatuses  BY <3>2, PreviewStatusIs
    <3>4. out.recs \in Seq(RecordsOf(q.verb))  BY RecordsAre DEF Resolved
    <3>5. q.verb \in Verbs /\ q.targets \in Seq(Strings)  BY RequestIs
    <3> QED  BY <3>2, <3>3, <3>4, <3>5
  <2>4. CASE Unplanned(shown)
    <3>1. PICK q \in Requests, status \in {"usage", "internal"} :
            /\ shown.by = "plan" /\ shown.verb = q.verb /\ shown.targets = q.targets
            /\ shown.status = status /\ shown.plan = Failed(status)
      BY <2>4, UnplannedIs, Zenon
    <3>2. shown.plan.recs = <<>>  BY <3>1 DEF Failed
    <3>3. shown.status \in ToolStatuses  BY <3>1 DEF ToolStatuses
    <3>4. shown.plan.recs \in Seq(RecordsOf(shown.verb))  BY <3>2, EmptyIs, Zenon
    <3> QED  BY <3>1, <3>3, <3>4, RequestIs
  <2>5. CASE Planned(shown)
    <3>1. PICK q \in Requests : \E out \in Resolved(q.verb) :
            /\ shown.by = "plan" /\ shown.verb = q.verb /\ shown.targets = q.targets
            /\ shown.status = PlanToolStatus(q, out) /\ shown.plan = out
      BY <2>5, PlannedIs, Zenon
    <3>2. PICK out \in Resolved(q.verb) :
            /\ shown.by = "plan" /\ shown.verb = q.verb /\ shown.targets = q.targets
            /\ shown.status = PlanToolStatus(q, out) /\ shown.plan = out
      BY <3>1
    <3>3. shown.status \in ToolStatuses  BY <3>2, PlanToolStatusIs
    <3>4. out.recs \in Seq(RecordsOf(q.verb))  BY RecordsAre DEF Resolved
    <3>5. q.verb \in Verbs /\ q.targets \in Seq(Strings)  BY RequestIs
    <3> QED  BY <3>2, <3>3, <3>4, <3>5
  <2> QED  BY <1>1, <1>2, <2>1, <2>2, <2>3, <2>4, <2>5 DEF ShownInv
<1>3. ASSUME run # NoRun
      PROVE  /\ run.status \in RunStatuses
             /\ run.verb \in Verbs /\ run.targets \in Seq(Strings)
             /\ run.plan.recs \in Seq(RecordsOf(run.verb))
  <2>1. PICK q \in Requests : \E out \in Outcomes(q.verb) : out.status # "usage" /\ run = Ran(q, out)
    BY <1>3, HasRun, Zenon
  <2>2. PICK out \in Outcomes(q.verb) : out.status # "usage" /\ run = Ran(q, out)  BY <2>1
  <2>3. run.status \in RunStatuses /\ run.verb = q.verb /\ run.targets = q.targets /\ run.plan = out
    <3>1. IsRun(Ran(q, out), q, out)  BY <2>2, RanIs, Zenon
    <3> QED  BY <2>2, <3>1, Zenon DEF IsRun
  <2>4. out.recs \in Seq(RecordsOf(q.verb))  BY RecordsAre
  <2> QED  BY <2>3, <2>4, RequestIs
<1> QED  BY <1>1, <1>2, <1>3 DEF TypeOK

(* Every answer of the preview, the plan tool and a helper is one of its    *)
(* program's closed set, about records of the kind its verb has (the tables *)
(* of preview.cc, plan.cc of the tools and plan.c).                         *)
THEOREM TypeCorrect == Spec => []TypeOK
BY Invariance, IInvTypeOK, PTL

-----------------------------------------------------------------------------
(* What the policy sees of a package through its record.                    *)

(* The flags of a record: held, essential and protected packages have theirs. *)
LEMMA FlagIs ==
  ASSUME NEW p, NEW mark
  PROVE  /\ p.selection = "hold" => Word("hold") \in FlagsOf(p, mark)
         /\ p.essential => Word("essential") \in FlagsOf(p, mark)
         /\ IsProtected(p, mark) => Word("protected") \in FlagsOf(p, mark)
<1> DEFINE A == IF p.selection = "hold" THEN {"hold"} ELSE {}
           B == IF p.auto THEN {"auto"} ELSE {}
           C == IF p.essential THEN {"essential"} ELSE {}
           D == IF IsProtected(p, mark) THEN {"protected"} ELSE {}
<1>1. FlagsOf(p, mark) = {Word(f) : f \in A \cup B \cup C \cup D}  BY Zenon DEF FlagsOf
<1>2. p.selection = "hold" => "hold" \in A  OBVIOUS
<1>3. p.essential => "essential" \in C  OBVIOUS
<1>4. IsProtected(p, mark) => "protected" \in D  OBVIOUS
<1> HIDE DEF A, B, C, D
<1>5. \A f \in A \cup B \cup C \cup D : Word(f) \in FlagsOf(p, mark)  BY <1>1, Zenon
<1> QED  BY <1>2, <1>3, <1>4, <1>5, Zenon

(* A plan that passes the policy has no record of a package that is rapt's, *)
(* and a transaction's none of a held one and no removal of a critical one. *)
LEMMA VerdictOk ==
  ASSUME NEW q, q.verb \in Verbs, q.verb # "apt.update", NEW recs, Verdict(q, recs) = "ok",
         NEW i \in DOMAIN recs
  PROVE  /\ ~IsRaptOwned(recs[i].package)
         /\ q.verb \in TxnVerbs =>
              /\ Word("hold") \notin recs[i].flags
              /\ recs[i].action \in Words({"remove", "purge"}) =>
                   Word("essential") \notin recs[i].flags /\ Word("protected") \notin recs[i].flags
<1>1. PICK facts : facts = {Facts(q.verb, recs[k]) : k \in DOMAIN recs}  OBVIOUS
<1>2. PICK fam : fam = Family(q.verb)  OBVIOUS
<1>3. PlanCheck(fam, facts) = "ok"  BY <1>1, <1>2, Zenon DEF Verdict
<1>4. /\ fam \in {"txn", "hold", "configure"}
      /\ q.verb \in TxnVerbs <=> fam = "txn"
  BY <1>2, VerbsAre, VerbsAreApart
<1>5. /\ \A r \in facts : ~r.owned
      /\ fam = "txn" => \A r \in facts : ~r.held /\ ~(r.removal /\ r.critical)
  <2>1. CASE fam = "txn"
    <3>1. PolicyCheck(facts) = "ok"  BY <1>3, <2>1 DEF PlanCheck
    <3> QED  BY <2>1, <3>1 DEF PolicyCheck
  <2>2. CASE fam # "txn"
    BY <1>3, <1>4, <2>2 DEF PlanCheck
  <2> QED  BY <2>1, <2>2
<1>6. PICK r : r = recs[i]  OBVIOUS
<1>7. Facts(q.verb, r) \in facts  BY <1>1, <1>6, Zenon
<1>8. PICK f : f = Facts(q.verb, r)  OBVIOUS
<1>9. f.owned <=> IsRaptOwned(r.package)
  <2>1. f.owned = (q.verb # "apt.update" /\ IsRaptOwned(r.package))  BY <1>8 DEF Facts
  <2> QED  BY <2>1, Zenon
<1>10. ~IsRaptOwned(r.package)  BY <1>5, <1>7, <1>8, <1>9, Zenon
<1>11. ASSUME q.verb \in TxnVerbs
       PROVE  /\ f.held = (Word("hold") \in r.flags)
              /\ f.removal = (r.action \in Words({"remove", "purge"}))
              /\ f.critical = (r.flags \cap Words({"essential", "protected"}) # {})
  BY <1>8, <1>11 DEF Facts
<1>12. /\ Word("essential") \in Words({"essential", "protected"})
       /\ Word("protected") \in Words({"essential", "protected"})
  BY DEF Words
<1>13. ASSUME q.verb \in TxnVerbs
       PROVE  /\ Word("hold") \notin r.flags
              /\ r.action \in Words({"remove", "purge"}) =>
                   Word("essential") \notin r.flags /\ Word("protected") \notin r.flags
  <2>1. ~f.held /\ ~(f.removal /\ f.critical)  BY <1>4, <1>5, <1>7, <1>8, <1>13, Zenon
  <2>2. Word("hold") \notin r.flags  BY <1>11, <1>13, <2>1, Zenon
  <2>3. ASSUME r.action \in Words({"remove", "purge"})
        PROVE  r.flags \cap Words({"essential", "protected"}) = {}
    BY <1>11, <1>13, <2>1, <2>3, Zenon
  <2> QED  BY <1>12, <2>2, <2>3
<1> QED  BY <1>6, <1>10, <1>13, Zenon

(* The flags of a package say whether it is important, or required as it is *)
(* installed, whatever happens to it.                                       *)
LEMMA CriticalIs ==
  ASSUME NEW p, NEW mark, p.important \/ (p.cur # <<>> /\ "cur" \in p.required)
  PROVE  Word("protected") \in FlagsOf(p, mark)
<1>1. IsProtected(p, mark)  BY DEF IsProtected
<1> QED  BY <1>1, FlagIs

(* What the policy let through keeps it, of the packages of this world.     *)
LEMMA IInvPolicyIsKept == IInv => PolicyIsKept
<1> SUFFICES ASSUME IInv, run.status = "redeemed", run.verb # "apt.update",
                    NEW p \in world.cache, NEW r \in ToSet(run.plan.recs),
                    r.package = p.name, run.verb \in HoldVerbs \/ r.architecture = p.arch
             PROVE  /\ ~RaptPattern(p.name)
                    /\ run.verb \in TxnVerbs =>
                         /\ p.selection # "hold"
                         /\ r.action \in Words({"remove", "purge"}) =>
                              /\ ~p.essential /\ ~p.important
                              /\ p.cur # <<>> => "cur" \notin p.required
  BY Zenon DEF PolicyIsKept
<1>1. run # NoRun
  <2>1. NoRun.status = "none"  BY DEF NoRun
  <2> QED  BY <2>1
<1>2. PICK q \in Requests : \E out \in Outcomes(q.verb) :
        /\ out.status # "usage" /\ run = Ran(q, out)
        /\ out.status = "ok" => Parses(q) /\ out \in Resolve(q)
  BY <1>1, HasRun, Zenon
<1>3. PICK out \in Outcomes(q.verb) :
        /\ out.status # "usage" /\ run = Ran(q, out)
        /\ out.status = "ok" => Parses(q) /\ out \in Resolve(q)
  BY <1>2
<1>4. IsRun(run, q, out)
  <2>1. IsRun(Ran(q, out), q, out)  BY <1>3, RanIs, Zenon
  <2> QED  BY <1>3, <2>1, Zenon
<1>5. /\ run.verb = q.verb /\ run.plan = out /\ out.status = "ok"
      /\ Verdict(q, out.recs) = "ok"
  BY <1>4, Zenon DEF IsRun
<1>6. out \in Resolve(q)  BY <1>3, <1>5, Zenon
<1>7. world \in Worlds  BY DEF IInv
<1>8. p \in Packages /\ p.name \in Strings
  BY <1>7, WorldIs DEF Packages
<1>9. PICK i \in DOMAIN out.recs : out.recs[i] = r
  <2>1. r \in ToSet(out.recs)  BY <1>5, Zenon
  <2> QED  BY <2>1 DEF ToSet
<1>10. q.verb \in Verbs /\ q.verb # "apt.update"  BY <1>5, RequestIs
<1>11. /\ ~IsRaptOwned(r.package)
       /\ q.verb \in TxnVerbs =>
            /\ Word("hold") \notin r.flags
            /\ r.action \in Words({"remove", "purge"}) =>
                 Word("essential") \notin r.flags /\ Word("protected") \notin r.flags
  BY <1>5, <1>9, <1>10, VerdictOk, Zenon
<1>12. ~RaptPattern(p.name)  BY <1>8, <1>11, OwnedIsThePattern, Zenon
<1>13. ASSUME q.verb \in TxnVerbs
       PROVE  /\ p.selection # "hold"
              /\ r.action \in Words({"remove", "purge"}) =>
                   /\ ~p.essential /\ ~p.important
                   /\ p.cur # <<>> => "cur" \notin p.required
  <2>1. PICK p2 \in world.cache : \E mark \in Actions \cap MarksFor(q.verb, p2) :
          r = TxnRecord(p2, mark)
    BY <1>6, <1>7, <1>9, <1>13, ResolveIs, Zenon
  <2>2. PICK mark \in Actions \cap MarksFor(q.verb, p2) : r = TxnRecord(p2, mark)  BY <2>1
  <2>3. r.package = p2.name /\ r.architecture = p2.arch /\ r.action = Word(mark)
        /\ r.flags = FlagsOf(p2, mark)
    BY <2>2 DEF TxnRecord
  <2>4. q.verb \notin HoldVerbs  BY <1>10, <1>13, VerbsAre, VerbsAreApart
  <2>5. p2.name = p.name /\ p2.arch = p.arch  BY <1>5, <2>3, <2>4
  <2>6. p2 = p  BY <1>7, <2>5, WorldIs
  <2>7. p.selection # "hold"  BY <1>11, <1>13, <2>3, <2>6, FlagIs, Zenon
  <2>8. ASSUME r.action \in Words({"remove", "purge"})
        PROVE  /\ ~p.essential /\ ~p.important
               /\ p.cur # <<>> => "cur" \notin p.required
    <3>1. Word("essential") \notin FlagsOf(p, mark) /\ Word("protected") \notin FlagsOf(p, mark)
      BY <1>11, <1>13, <2>3, <2>6, <2>8, Zenon
    <3>2. ~p.essential  BY <3>1, FlagIs, Zenon
    <3>5. ~(p.important \/ (p.cur # <<>> /\ "cur" \in p.required))
      BY <3>1, CriticalIs, Zenon
    <3> QED  BY <3>2, <3>5
  <2> QED  BY <2>7, <2>8
<1> QED  BY <1>5, <1>12, <1>13, Zenon

(* A redeemed plan changes no package of rapt's, and a redeemed transaction *)
(* no held package and removes none that is essential, important or         *)
(* required (apt_common.cc maps what policy.c judges and plan.c asks).      *)
THEOREM PolicyKept == Spec => []PolicyIsKept
BY Invariance, IInvPolicyIsKept, PTL

-----------------------------------------------------------------------------
(* What is redeemed and what was shown.                                     *)

(* What a hash that was shown stands for: a plan with records, of a request *)
(* both parsers would let through, in full before the reader if a preview   *)
(* showed it.                                                               *)
LEMMA HashIs ==
  ASSUME ShownInv, shown # NoShow, shown.hash # Refused
  PROVE  \E q \in Requests : \E out \in Resolved(q.verb) :
           /\ ArityOk(q.verb, q.targets) /\ shown.verb = q.verb /\ shown.targets = q.targets
           /\ shown.resource = ResourceOf(q) /\ shown.plan = out
           /\ shown.hash = Digest(q.verb, out.recs)
           /\ out.recs # <<>>
           /\ shown.by = "preview" => shown.records = Decode(q.verb, Digest(q.verb, out.recs))
<1>1. Previewed(shown) \/ Planned(shown)
  <2>1. ~Unread(shown) /\ ~Unopened(shown) /\ ~Unplanned(shown)
    BY UnreadIs, UnopenedIs, UnplannedIs, Zenon
  <2> QED  BY <2>1 DEF ShownInv
<1>2. CASE Previewed(shown)
  <2>1. PICK q \in Requests : \E out \in Resolved(q.verb) :
           /\ Parses(q) /\ shown.by = "preview" /\ shown.verb = q.verb
           /\ shown.targets = q.targets /\ shown.status = PreviewStatus(q, out)
           /\ shown.resource = ResourceOf(q) /\ shown.plan = out
           /\ shown.status \in Refusals \cup {"ok"} =>
                /\ shown.hash = Digest(q.verb, out.recs)
                /\ shown.records = Decode(q.verb, Digest(q.verb, out.recs))
           /\ shown.status \notin Refusals \cup {"ok"} => shown.hash = Refused
    BY <1>2, PreviewedIs, Zenon
  <2>2. PICK out \in Resolved(q.verb) :
           /\ Parses(q) /\ shown.by = "preview" /\ shown.verb = q.verb
           /\ shown.targets = q.targets /\ shown.status = PreviewStatus(q, out)
           /\ shown.resource = ResourceOf(q) /\ shown.plan = out
           /\ shown.status \in Refusals \cup {"ok"} =>
                /\ shown.hash = Digest(q.verb, out.recs)
                /\ shown.records = Decode(q.verb, Digest(q.verb, out.recs))
           /\ shown.status \notin Refusals \cup {"ok"} => shown.hash = Refused
    BY <2>1
  <2>3. shown.status \in Refusals \cup {"ok"}  BY <2>2
  <2>4. out.recs # <<>>
    <3>0. PICK st : st = PreviewStatus(q, out)  OBVIOUS
    <3>2. /\ ResourceOf(q) = Refused => st = "internal"
          /\ ResourceOf(q) # Refused /\ out.status # "ok" => st = out.status
          /\ ResourceOf(q) # Refused /\ out.status = "ok" /\ out.recs = <<>> => st = "no_op"
      BY <3>0, PreviewStatusIs
    <3>1. ASSUME out.recs = <<>>
          PROVE  shown.status \in {"internal", "no_op", "resolve_failed", "dpkg_broken"}
      <4>1. CASE ResourceOf(q) = Refused
        <5>1. shown.status = "internal"  BY <2>2, <3>0, <3>2, <4>1, Zenon
        <5> QED  BY <5>1
      <4>2. CASE ResourceOf(q) # Refused /\ out.status # "ok"
        <5>1. shown.status = out.status  BY <2>2, <3>0, <3>2, <4>2, Zenon
        <5> QED  BY <4>2, <5>1 DEF Resolved, Outcomes, ResolveStatuses
      <4>3. CASE ResourceOf(q) # Refused /\ out.status = "ok"
        <5>1. shown.status = "no_op"  BY <2>2, <3>0, <3>1, <3>2, <4>3, Zenon
        <5> QED  BY <5>1
      <4> QED  BY <4>1, <4>2, <4>3
    <3> QED  BY <2>3, <3>1 DEF Refusals
  <2>5. ArityOk(q.verb, q.targets)  BY <2>2 DEF Parses
  <2> QED  BY <2>2, <2>3, <2>4, <2>5, Zenon
<1>3. CASE Planned(shown)
  <2>1. PICK q \in Requests : \E out \in Resolved(q.verb) :
           /\ ArityOk(q.verb, q.targets) /\ shown.by = "plan" /\ shown.verb = q.verb
           /\ shown.targets = q.targets /\ shown.status = PlanToolStatus(q, out)
           /\ shown.plan = out
           /\ shown.status = "ok" => /\ shown.hash = Digest(q.verb, out.recs)
                                     /\ shown.resource = ResourceOf(q)
           /\ shown.status # "ok" => shown.hash = Refused
    BY <1>3, PlannedIs, Zenon
  <2>2. PICK out \in Resolved(q.verb) :
           /\ ArityOk(q.verb, q.targets) /\ shown.by = "plan" /\ shown.verb = q.verb
           /\ shown.targets = q.targets /\ shown.status = PlanToolStatus(q, out)
           /\ shown.plan = out
           /\ shown.status = "ok" => /\ shown.hash = Digest(q.verb, out.recs)
                                     /\ shown.resource = ResourceOf(q)
           /\ shown.status # "ok" => shown.hash = Refused
    BY <2>1
  <2>3. shown.status = "ok"  BY <2>2, Zenon
  <2>4. out.recs # <<>>  BY <2>2, <2>3, PlanToolStatusIs, Zenon
  <2>5. shown.by # "preview"  BY <2>2
  <2> QED  BY <2>2, <2>3, <2>4, <2>5, Zenon
<1> QED  BY <1>1, <1>2, <1>3

(* Two requests for the same verb and with the same resource are for the    *)
(* same targets.                                                            *)
LEMMA TargetsBound ==
  ASSUME NEW q \in Requests, NEW q2 \in Requests, q2.verb = q.verb,
         ArityOk(q.verb, q.targets), ArityOk(q2.verb, q2.targets),
         ResourceOf(q) # Refused, ResourceOf(q2) = ResourceOf(q)
  PROVE  q2.targets \in Arrangements(q.targets)
<1>1. q.targets \in Seq(Strings) /\ q2.targets \in Seq(Strings)  BY RequestIs
<1>2. CASE q.verb \in TargetVerbs
  <2>1. q.verb \notin WholeVerbs /\ q.verb # "apt.update" /\ q.verb # "apt.configure"
    BY <1>2 DEF TargetVerbs, WholeVerbs, HoldVerbs
  <2>2. q.targets # <<>> /\ q2.targets # <<>>
    BY <2>1 DEF ArityOk
  <2>3. ResourceOf(q) = Resource(q.targets) /\ ResourceOf(q2) = Resource(q2.targets)
    BY <2>1, Zenon DEF ResourceOf
  <2> QED  BY <1>1, <2>2, <2>3, ResourceBinds, Zenon
<1>3. CASE q.verb \notin TargetVerbs
  <2>1. q.targets = <<>> /\ q2.targets = <<>>  BY <1>3, Zenon DEF ArityOk
  <2>2. q.targets \in Arrangements(q.targets)  BY <1>1, ArrangedAsIs
  <2> QED  BY <2>1, <2>2, Zenon
<1> QED  BY <1>2, <1>3

(* Two plans of a verb with the same canonical string have the same records, *)
(* and a preview of it shows them (digest.c, decode_records of preview.cc).  *)
THEOREM DigestBinds ==
  ASSUME NEW verb \in Verbs, NEW a \in Seq(PlanRecords(verb)), NEW b \in Seq(PlanRecords(verb)),
         a # <<>>, b # <<>>, Digest(verb, a) # Refused, Digest(verb, b) = Digest(verb, a)
  PROVE  /\ b \in Arrangements(a)
         /\ Decode(verb, Digest(verb, a)) \in Arrangements(b)
<1>1. PICK D : D = Decode(verb, Digest(verb, a))  OBVIOUS
<1>2. D \in Arrangements(a)  BY <1>1, PreviewShowsThePlan, Zenon
<1>3. Digest(verb, b) # Refused  BY Zenon
<1>4. Decode(verb, Digest(verb, b)) \in Arrangements(b)  BY <1>3, PreviewShowsThePlan, Zenon
<1>5. D \in Arrangements(b)  BY <1>1, <1>4, Zenon
<1>6. b \in Arrangements(D)  BY <1>5, ArrangedBack
<1>7. b \in Arrangements(a)  BY <1>2, <1>6, ArrangedOn
<1> QED  BY <1>1, <1>5, <1>7, Zenon

(* A run that redeemed: the request, its outcome, and what it met.          *)
LEMMA RedeemedIs ==
  ASSUME IInv, run.status = "redeemed"
  PROVE  \E q \in Requests : \E out \in Outcomes(q.verb) :
           /\ Parses(q) /\ out \in Resolve(q) /\ out.status = "ok"
           /\ run.verb = q.verb /\ run.targets = q.targets /\ run.plan = out
           /\ Verdict(q, out.recs) = "ok" /\ Accepts(q, out)
           /\ ResourceOf(q) # Refused /\ Digest(q.verb, out.recs) # Refused
<1>1. run # NoRun
  <2>1. NoRun.status = "none"  BY DEF NoRun
  <2> QED  BY <2>1
<1>2. PICK q \in Requests : \E out \in Outcomes(q.verb) :
        /\ out.status # "usage" /\ run = Ran(q, out)
        /\ out.status = "ok" => Parses(q) /\ out \in Resolve(q)
  BY <1>1, HasRun, Zenon
<1>3. PICK out \in Outcomes(q.verb) :
        /\ out.status # "usage" /\ run = Ran(q, out)
        /\ out.status = "ok" => Parses(q) /\ out \in Resolve(q)
  BY <1>2
<1>4. IsRun(run, q, out)
  <2>1. IsRun(Ran(q, out), q, out)  BY <1>3, RanIs, Zenon
  <2> QED  BY <1>3, <2>1, Zenon
<1>5. /\ run.verb = q.verb /\ run.targets = q.targets /\ run.plan = out /\ out.status = "ok"
      /\ Verdict(q, out.recs) = "ok" /\ Accepts(q, out)
      /\ ResourceOf(q) # Refused /\ Digest(q.verb, out.recs) # Refused
  BY <1>4, Zenon DEF IsRun
<1> QED  BY <1>3, <1>5, Zenon

(* An accepted hash and resource are those of the plan that was shown.      *)
LEMMA IInvShownIsBound == IInv => ShownIsBound
<1> SUFFICES ASSUME IInv, run.status = "redeemed"
             PROVE  /\ run.plan.recs \in Arrangements(shown.plan.recs)
                    /\ run.targets \in Arrangements(shown.targets)
                    /\ shown.by = "preview" => shown.records \in Arrangements(run.plan.recs)
  BY Zenon DEF ShownIsBound
<1>1. PICK q \in Requests : \E out \in Outcomes(q.verb) :
           /\ Parses(q) /\ out \in Resolve(q) /\ out.status = "ok"
           /\ run.verb = q.verb /\ run.targets = q.targets /\ run.plan = out
           /\ Verdict(q, out.recs) = "ok" /\ Accepts(q, out)
           /\ ResourceOf(q) # Refused /\ Digest(q.verb, out.recs) # Refused
  BY RedeemedIs, Zenon
<1>2. PICK out \in Outcomes(q.verb) :
           /\ Parses(q) /\ out \in Resolve(q) /\ out.status = "ok"
           /\ run.verb = q.verb /\ run.targets = q.targets /\ run.plan = out
           /\ Verdict(q, out.recs) = "ok" /\ Accepts(q, out)
           /\ ResourceOf(q) # Refused /\ Digest(q.verb, out.recs) # Refused
  BY <1>1
<1>3. /\ shown.hash # Refused /\ shown.verb = q.verb /\ shown.resource = ResourceOf(q)
      /\ shown.hash = Digest(q.verb, out.recs)
  BY <1>2, Zenon DEF Accepts
<1>4. ShownInv /\ shown # NoShow
  <2>1. run # NoRun
    <3>1. NoRun.status = "none"  BY DEF NoRun
    <3> QED  BY <3>1
  <2> QED  BY <2>1 DEF IInv, RunInv
<1>5. PICK q0 \in Requests : \E o \in Resolved(q0.verb) :
           /\ ArityOk(q0.verb, q0.targets) /\ shown.verb = q0.verb /\ shown.targets = q0.targets
           /\ shown.resource = ResourceOf(q0) /\ shown.plan = o
           /\ shown.hash = Digest(q0.verb, o.recs)
           /\ o.recs # <<>>
           /\ shown.by = "preview" => shown.records = Decode(q0.verb, Digest(q0.verb, o.recs))
  BY <1>3, <1>4, HashIs, Zenon
<1>6. PICK o \in Resolved(q0.verb) :
           /\ ArityOk(q0.verb, q0.targets) /\ shown.verb = q0.verb /\ shown.targets = q0.targets
           /\ shown.resource = ResourceOf(q0) /\ shown.plan = o
           /\ shown.hash = Digest(q0.verb, o.recs)
           /\ o.recs # <<>>
           /\ shown.by = "preview" => shown.records = Decode(q0.verb, Digest(q0.verb, o.recs))
  BY <1>5
<1>7. q0.verb = q.verb  BY <1>3, <1>6, Zenon
<1>8. run.targets \in Arrangements(shown.targets)
  <2>1. ArityOk(q.verb, q.targets)  BY <1>2 DEF Parses
  <2>2. ResourceOf(q0) # Refused /\ ResourceOf(q) = ResourceOf(q0)  BY <1>2, <1>3, <1>6, Zenon
  <2>3. q.targets \in Arrangements(q0.targets)  BY <1>6, <1>7, <2>1, <2>2, TargetsBound, Zenon
  <2> QED  BY <1>2, <1>6, <2>3, Zenon
<1>9. PICK a, b : a = o.recs /\ b = out.recs  OBVIOUS
<1>10. a \in Seq(PlanRecords(q.verb)) /\ b \in Seq(PlanRecords(q.verb))
  <2>1. out.recs \in Seq(PlanRecords(q.verb))  BY DEF Outcomes
  <2>2. o.recs \in Seq(PlanRecords(q0.verb))  BY DEF Resolved, Outcomes
  <2> QED  BY <1>7, <1>9, <2>1, <2>2, Zenon
<1>11. a # <<>> /\ b # <<>>
  <2>1. "ok" # "no_op"  OBVIOUS
  <2>2. DOMAIN out.recs # {}  BY <1>2, <2>1, VerdictIs, Zenon
  <2>3. b # <<>>  BY <1>9, <2>2
  <2> QED  BY <1>6, <1>9, <2>3, Zenon
<1>12. Digest(q.verb, a) # Refused /\ Digest(q.verb, b) = Digest(q.verb, a)
  BY <1>2, <1>3, <1>6, <1>7, <1>9, Zenon
<1>13. q.verb \in Verbs  BY RequestIs
<1>14. /\ b \in Arrangements(a)
       /\ Decode(q.verb, Digest(q.verb, a)) \in Arrangements(b)
  BY <1>10, <1>11, <1>12, <1>13, DigestBinds, Zenon
<1>15. run.plan.recs = b /\ shown.plan.recs = a  BY <1>2, <1>6, <1>9, Zenon
<1>16. shown.by = "preview" => shown.records = Decode(q.verb, Digest(q.verb, a))
  BY <1>6, <1>7, <1>9, Zenon
<1> QED  BY <1>8, <1>14, <1>15, <1>16, Zenon

(***************************************************************************)
(* What the helper redeems is what was shown (plan.c against preview.cc    *)
(* and plan.cc of the tools, through the string of digest.c).              *)
(***************************************************************************)
THEOREM ShownBound == Spec => []ShownIsBound
BY Invariance, IInvShownIsBound, PTL

-----------------------------------------------------------------------------
(* What an oracle says and what a helper does.                              *)

(* A request with the targets in another order has the same resource.       *)
LEMMA ResourceAlike ==
  ASSUME NEW q \in Requests, NEW q2 \in Requests, q2.verb = q.verb,
         q2.targets \in Arrangements(q.targets)
  PROVE  ResourceOf(q2) = ResourceOf(q)
<1>1. q.targets \in Seq(Strings)  BY RequestIs
<1>2. Resource(q2.targets) = Resource(q.targets)  BY <1>1, ResourceOfAnyOrder
<1> QED  BY <1>2, Zenon DEF ResourceOf

(* What a helper makes of a plan an oracle has seen, out of what the oracle *)
(* made of it: the same outcome, resource, canonical string and verdict.    *)
LEMMA AlikeIs ==
  ASSUME NEW q0 \in Requests, NEW o \in Outcomes(q0.verb),
         NEW q \in Requests, NEW out \in Outcomes(q.verb), q.verb = q0.verb,
         q.targets \in Arrangements(q0.targets), out.recs \in Arrangements(o.recs)
  PROVE  /\ ResourceOf(q) = ResourceOf(q0)
         /\ Digest(q.verb, out.recs) = Digest(q0.verb, o.recs)
         /\ Verdict(q, out.recs) = Verdict(q0, o.recs)
<1>1. ResourceOf(q) = ResourceOf(q0)  BY ResourceAlike, Zenon
<1>2. q0.verb \in PlanVerbs  BY RequestIs, VerbsAre
<1>3. o.recs \in Seq(PlanRecords(q0.verb))  BY DEF Outcomes
<1>4. Digest(q0.verb, out.recs) = Digest(q0.verb, o.recs)
  BY <1>2, <1>3, DigestOfAnyOrder, Zenon
<1>5. PICK T, a, b : T = PlanRecords(q0.verb) /\ a = o.recs /\ b = out.recs  OBVIOUS
<1>6. a \in Seq(T) /\ b \in Arrangements(a)  BY <1>3, <1>5, Zenon
<1>7. Verdict(q, b) = Verdict(q0, a)  BY <1>6, VerdictAlike
<1> QED  BY <1>1, <1>4, <1>5, <1>7, Zenon

(* A helper with the plan a preview has seen does as the preview said.      *)
LEMMA PredictedByPreview ==
  ASSUME NEW q \in Requests, NEW out \in Outcomes(q.verb), out.status # "usage", run = Ran(q, out),
         NEW q0 \in Requests, NEW o \in Resolved(q0.verb), q.verb = q0.verb,
         q.targets \in Arrangements(q0.targets), out.recs \in Arrangements(o.recs),
         out.status = o.status,
         shown.by = "preview", shown.verb = q0.verb, shown.status = PreviewStatus(q0, o),
         shown.resource = ResourceOf(q0),
         shown.status \in Refusals \cup {"ok"} => shown.hash = Digest(q0.verb, o.recs)
  PROVE  run.status \in Predicted
<1>1. PICK res, canon, v : /\ res = ResourceOf(q0) /\ canon = Digest(q0.verb, o.recs)
                           /\ v = Verdict(q0, o.recs)
  OBVIOUS
<1>2. /\ res = ResourceOf(q) /\ canon = Digest(q.verb, out.recs)
      /\ v = Verdict(q, out.recs)
  <2>1. o \in Outcomes(q0.verb)  BY DEF Resolved
  <2> QED  BY <1>1, <2>1, AlikeIs, Zenon
<1>3. v \in Verdicts  BY <1>1, VerdictIs
<1>4. o.recs = <<>> => v = "no_op"
  <2>1. o.recs = <<>> => DOMAIN o.recs = {}  OBVIOUS
  <2> QED  BY <1>1, <2>1, VerdictIs, Zenon
<1>5. /\ PlanStatus(v) = "no_op" <=> v = "no_op"
      /\ v \notin {"no_op", "ok"} => PlanStatus(v) \in Refusals
      /\ PlanStatus(v) \in Refusals \cup {"no_op", "internal"}
  BY <1>3, PlanStatusIs
<1>6. out.status \in {"ok", "resolve_failed", "dpkg_broken"}
  BY DEF Resolved, Outcomes, ResolveStatuses
<1>7. PICK st : st = PreviewStatus(q0, o)  OBVIOUS
<1>8. /\ res = Refused => st = "internal"
      /\ res # Refused =>
           /\ o.status # "ok" => st = o.status
           /\ o.status = "ok" =>
                /\ o.recs = <<>> => st = "no_op"
                /\ o.recs # <<>> =>
                     /\ canon = Refused => st = "internal"
                     /\ canon # Refused =>
                          /\ v = "ok" => st = "ok"
                          /\ v # "ok" => st = PlanStatus(v) /\ st \in Refusals
  <2>1. /\ ResourceOf(q0) = Refused => st = "internal"
        /\ ResourceOf(q0) # Refused =>
             /\ o.status # "ok" => st = o.status
             /\ o.status = "ok" =>
                  /\ o.recs = <<>> => st = "no_op"
                  /\ o.recs # <<>> =>
                       /\ Digest(q0.verb, o.recs) = Refused => st = "internal"
                       /\ Digest(q0.verb, o.recs) # Refused =>
                            /\ Verdict(q0, o.recs) = "ok" => st = "ok"
                            /\ Verdict(q0, o.recs) # "ok" =>
                                 st = PlanStatus(Verdict(q0, o.recs)) /\ st \in Refusals
    BY <1>7, PreviewStatusIs
  <2> QED  BY <1>1, <2>1, Zenon
<1>9. /\ run.status \in RunStatuses
      /\ out.status # "ok" => run.status = out.status
      /\ out.status = "ok" =>
           /\ v # "ok" => run.status = PlanStatus(v)
           /\ v = "ok" =>
                /\ Refused \in {res, canon} => run.status = "internal"
                /\ Refused \notin {res, canon}
                     => run.status = IF Accepts(q, out) THEN "redeemed" ELSE "no_intent"
  <2>1. IsRun(Ran(q, out), q, out)  BY RanIs, Zenon
  <2>2. IsRun(run, q, out)  BY <2>1, Zenon
  <2> QED  BY <1>2, <2>2, Zenon DEF IsRun
<1>10. st = "ok" /\ canon # Refused => Accepts(q, out)
  <2>1. ASSUME st = "ok", canon # Refused PROVE Accepts(q, out)
    <3>1. shown.hash = canon  BY <1>1, <1>7, <2>1
    <3> QED  BY <1>1, <1>2, <2>1, <3>1, Zenon DEF Accepts
  <2> QED  BY <2>1
<1>11. PICK rs : rs = run.status  OBVIOUS
<1>12. Predicted = CASE st = "ok"       -> {"redeemed"}
                     [] st = "internal" ->
                          IF res = Refused THEN RunStatuses \ {"redeemed", "no_intent"}
                          ELSE Refusals \cup {"internal"}
                     [] OTHER           -> {st}
  <2>1. shown.by = "preview" /\ shown.status = st /\ shown.resource = res  BY <1>1, <1>7
  <2> QED  BY <2>1, Zenon DEF Predicted
<1>13. CASE res = Refused
  <2>1. st = "internal"  BY <1>8, <1>13
  <2>2. Predicted = RunStatuses \ {"redeemed", "no_intent"}  BY <1>12, <1>13, <2>1
  <2>3. rs \notin {"redeemed", "no_intent"}
    <3>1. CASE out.status # "ok"  BY <1>6, <1>9, <1>11, <3>1
    <3>2. CASE out.status = "ok" /\ v # "ok"  BY <1>5, <1>9, <1>11, <3>2 DEF Refusals
    <3>3. CASE out.status = "ok" /\ v = "ok"  BY <1>9, <1>11, <1>13, <3>3
    <3> QED  BY <3>1, <3>2, <3>3
  <2> QED  BY <1>9, <1>11, <2>2, <2>3
<1>14. CASE res # Refused
  <2>1. CASE out.status # "ok"
    <3>1. st = out.status /\ rs = out.status  BY <1>8, <1>9, <1>11, <1>14, <2>1
    <3>2. Predicted = {st}  BY <1>6, <1>12, <2>1, <3>1
    <3> QED  BY <1>11, <3>1, <3>2
  <2>2. CASE out.status = "ok" /\ o.recs = <<>>
    <3>1. st = "no_op" /\ rs = "no_op"  BY <1>4, <1>5, <1>8, <1>9, <1>11, <1>14, <2>2
    <3>2. Predicted = {st}  BY <1>12, <3>1
    <3> QED  BY <1>11, <3>1, <3>2
  <2>3. CASE out.status = "ok" /\ o.recs # <<>>
    <3>1. CASE canon = Refused
      <4>1. st = "internal"  BY <1>8, <1>14, <2>3, <3>1
      <4>2. Predicted = Refusals \cup {"internal"}  BY <1>12, <1>14, <4>1
      <4>3. rs \in Refusals \cup {"internal"}
        <5>1. CASE v = "ok"  BY <1>9, <1>11, <2>3, <3>1, <5>1
        <5>2. CASE v # "ok"
          <6>1. v # "no_op"
            <7>1. DOMAIN o.recs # {}
              <8>1. o.recs \in Seq(PlanRecords(q0.verb))  BY DEF Resolved, Outcomes
              <8> QED  BY <2>3, <8>1, NotEmpty
            <7> QED  BY <1>1, <7>1, VerdictIs, Zenon
          <6> QED  BY <1>5, <1>9, <1>11, <2>3, <5>2, <6>1
        <5> QED  BY <5>1, <5>2
      <4> QED  BY <1>11, <4>2, <4>3
    <3>2. CASE canon # Refused /\ v = "ok"
      <4>1. st = "ok"  BY <1>8, <1>14, <2>3, <3>2
      <4>2. Accepts(q, out)  BY <1>10, <3>2, <4>1
      <4>3. rs = "redeemed"  BY <1>9, <1>11, <1>14, <2>3, <3>2, <4>2
      <4>4. Predicted = {"redeemed"}  BY <1>12, <4>1
      <4> QED  BY <1>11, <4>3, <4>4
    <3>3. CASE canon # Refused /\ v # "ok"
      <4>1. st = PlanStatus(v) /\ st \in Refusals  BY <1>8, <1>14, <2>3, <3>3
      <4>2. rs = st  BY <1>9, <1>11, <2>3, <3>3, <4>1
      <4>3. Predicted = {st}  BY <1>12, <4>1 DEF Refusals
      <4> QED  BY <1>11, <4>2, <4>3
    <3> QED  BY <3>1, <3>2, <3>3
  <2> QED  BY <1>6, <2>1, <2>2, <2>3
<1> QED  BY <1>13, <1>14

(* And with the plan the plan tool has seen, as the tool said.              *)
LEMMA PredictedByTool ==
  ASSUME NEW q \in Requests, NEW out \in Outcomes(q.verb), out.status # "usage", run = Ran(q, out),
         NEW q0 \in Requests, NEW o \in Resolved(q0.verb), q.verb = q0.verb,
         q.targets \in Arrangements(q0.targets), out.recs \in Arrangements(o.recs),
         out.status = o.status,
         shown.by = "plan", shown.verb = q0.verb, shown.status = PlanToolStatus(q0, o),
         shown.status = "ok" => /\ shown.hash = Digest(q0.verb, o.recs)
                                /\ shown.resource = ResourceOf(q0)
  PROVE  run.status \in Predicted
<1>1. PICK res, canon, v : /\ res = ResourceOf(q0) /\ canon = Digest(q0.verb, o.recs)
                           /\ v = Verdict(q0, o.recs)
  OBVIOUS
<1>2. /\ res = ResourceOf(q) /\ canon = Digest(q.verb, out.recs)
      /\ v = Verdict(q, out.recs)
  <2>1. o \in Outcomes(q0.verb)  BY DEF Resolved
  <2> QED  BY <1>1, <2>1, AlikeIs, Zenon
<1>3. v \in Verdicts  BY <1>1, VerdictIs
<1>5. /\ PlanStatus(v) = "no_op" <=> v = "no_op"
      /\ v \notin {"no_op", "ok"} => PlanStatus(v) \in Refusals
  BY <1>3, PlanStatusIs
<1>7. PICK st : st = PlanToolStatus(q0, o)  OBVIOUS
<1>8. /\ st \in ToolStatuses \ {"usage"}
      /\ st = "ok" => out.status = "ok" /\ v = "ok" /\ res # Refused /\ canon # Refused
      /\ st = "noop" => out.status = "ok" /\ v = "no_op"
      /\ st = "refused" => \/ out.status = "dpkg_broken"
                           \/ out.status = "ok" /\ v \notin {"ok", "no_op"}
      /\ st = "internal" => \/ out.status = "resolve_failed"
                            \/ out.status = "ok" /\ v = "ok" /\ Refused \in {res, canon}
  <2>1. /\ st \in ToolStatuses \ {"usage"}
        /\ st = "ok" => /\ o.status = "ok" /\ o.recs # <<>> /\ Verdict(q0, o.recs) = "ok"
                        /\ ResourceOf(q0) # Refused /\ Digest(q0.verb, o.recs) # Refused
        /\ st = "noop" => o.status = "ok" /\ Verdict(q0, o.recs) = "no_op"
        /\ st = "refused" =>
             \/ o.status = "dpkg_broken"
             \/ o.status = "ok" /\ Verdict(q0, o.recs) \notin {"ok", "no_op"}
        /\ st = "internal" =>
             \/ o.status = "resolve_failed"
             \/ /\ o.status = "ok" /\ Verdict(q0, o.recs) = "ok"
                /\ Refused \in {ResourceOf(q0), Digest(q0.verb, o.recs)}
    BY <1>7, PlanToolStatusIs
  <2> QED  BY <1>1, <2>1, Zenon
<1>9. /\ out.status # "ok" => run.status = out.status
      /\ out.status = "ok" =>
           /\ v # "ok" => run.status = PlanStatus(v)
           /\ v = "ok" =>
                /\ Refused \in {res, canon} => run.status = "internal"
                /\ Refused \notin {res, canon}
                     => run.status = IF Accepts(q, out) THEN "redeemed" ELSE "no_intent"
  <2>1. IsRun(Ran(q, out), q, out)  BY RanIs, Zenon
  <2>2. IsRun(run, q, out)  BY <2>1, Zenon
  <2> QED  BY <1>2, <2>2, Zenon DEF IsRun
<1>10. st = "ok" /\ canon # Refused => Accepts(q, out)
  <2>1. ASSUME st = "ok", canon # Refused PROVE Accepts(q, out)
    <3>1. shown.hash = canon /\ shown.resource = res  BY <1>1, <1>7, <2>1
    <3> QED  BY <1>1, <1>2, <2>1, <3>1, Zenon DEF Accepts
  <2> QED  BY <2>1
<1>11. PICK rs : rs = run.status  OBVIOUS
<1>12. Predicted = CASE st = "ok"      -> {"redeemed"}
                     [] st = "noop"    -> {"no_op"}
                     [] st = "refused" -> Refusals \cup {"dpkg_broken"}
                     [] OTHER          -> {"internal", "resolve_failed"}
  <2>1. ~(shown.by = "preview") /\ shown.status = st  BY <1>7
  <2> QED  BY <2>1, Zenon DEF Predicted
<1>13. CASE st = "ok"
  <2>1. Accepts(q, out)  BY <1>8, <1>10, <1>13
  <2>2. rs = "redeemed"  BY <1>8, <1>9, <1>11, <1>13, <2>1
  <2>3. Predicted = {"redeemed"}  BY <1>12, <1>13
  <2> QED  BY <1>11, <2>2, <2>3
<1>14. CASE st = "noop"
  <2>1. rs = "no_op"  BY <1>5, <1>8, <1>9, <1>11, <1>14
  <2>2. Predicted = {"no_op"}  BY <1>12, <1>14
  <2> QED  BY <1>11, <2>1, <2>2
<1>15. CASE st = "refused"
  <2>1. rs \in Refusals \cup {"dpkg_broken"}  BY <1>5, <1>8, <1>9, <1>11, <1>15
  <2>2. Predicted = Refusals \cup {"dpkg_broken"}  BY <1>12, <1>15
  <2> QED  BY <1>11, <2>1, <2>2
<1>16. CASE st = "internal"
  <2>1. rs \in {"internal", "resolve_failed"}  BY <1>8, <1>9, <1>11, <1>16
  <2>2. Predicted = {"internal", "resolve_failed"}  BY <1>12, <1>16
  <2> QED  BY <1>11, <2>1, <2>2
<1> QED  BY <1>8, <1>13, <1>14, <1>15, <1>16 DEF ToolStatuses

(* A resolve that failed at the helper as it failed at the oracle.          *)
LEMMA FailedAlike ==
  ASSUME NEW q \in Requests, NEW out \in Outcomes(q.verb), out.status = "internal",
         run = Ran(q, out)
  PROVE  run.status = "internal"
<1>1. out.status # "usage"  OBVIOUS
<1>2. IsRun(Ran(q, out), q, out)  BY <1>1, RanIs, Zenon
<1>3. IsRun(run, q, out)  BY <1>2, Zenon
<1>4. out.status # "ok"  OBVIOUS
<1> QED  BY <1>3, <1>4, Zenon DEF IsRun

(* Whatever an oracle answered, a helper with the same plan bears it out.   *)
LEMMA IInvOraclesPredict == IInv => OraclesPredict
<1> SUFFICES ASSUME IInv, run # NoRun, SamePlan PROVE run.status \in Predicted
  BY DEF OraclesPredict
<1>1. PICK q \in Requests : \E out \in Outcomes(q.verb) :
        out.status # "usage" /\ run = Ran(q, out)
  BY HasRun, Zenon
<1>2. PICK out \in Outcomes(q.verb) : out.status # "usage" /\ run = Ran(q, out)
  BY <1>1
<1>3. run.verb = q.verb /\ run.targets = q.targets /\ run.plan = out
  <2>1. IsRun(Ran(q, out), q, out)  BY <1>2, RanIs, Zenon
  <2>2. IsRun(run, q, out)  BY <1>2, <2>1, Zenon
  <2> QED  BY <2>2, Zenon DEF IsRun
<1>4. /\ q.verb = shown.verb /\ q.targets \in Arrangements(shown.targets)
      /\ out.status = shown.plan.status /\ out.recs \in Arrangements(shown.plan.recs)
  BY <1>3, Zenon DEF SamePlan
<1>5. shown # NoShow /\ ShownInv  BY DEF IInv, RunInv
<1>6. CASE Unread(shown)
  <2>1. shown.verb = "none"  BY <1>6, UnreadIs, Zenon
  <2>2. "none" \notin Verbs  BY DEF Verbs, TargetVerbs, WholeVerbs, HoldVerbs
  <2>3. q.verb \in Verbs  BY RequestIs
  <2> QED  BY <1>4, <2>1, <2>2, <2>3, Zenon
<1>7. CASE Unopened(shown)
  <2>1. shown.by = "preview" /\ shown.status = "internal" /\ shown.plan = Failed("internal")
    BY <1>7, UnopenedIs, Zenon
  <2>2. out.status = "internal"  BY <1>4, <2>1 DEF Failed
  <2>3. run.status = "internal"  BY <1>2, <2>2, FailedAlike, Zenon
  <2>4. Predicted = IF shown.resource = Refused THEN RunStatuses \ {"redeemed", "no_intent"}
                    ELSE Refusals \cup {"internal"}
    BY <2>1 DEF Predicted
  <2> QED  BY <2>3, <2>4 DEF RunStatuses
<1>8. CASE Previewed(shown)
  <2>1. PICK q0 \in Requests : \E o \in Resolved(q0.verb) :
           /\ shown.by = "preview" /\ shown.verb = q0.verb
           /\ shown.targets = q0.targets /\ shown.status = PreviewStatus(q0, o)
           /\ shown.resource = ResourceOf(q0) /\ shown.plan = o
           /\ shown.status \in Refusals \cup {"ok"} => shown.hash = Digest(q0.verb, o.recs)
    BY <1>8, PreviewedIs, Zenon
  <2>2. PICK o \in Resolved(q0.verb) :
           /\ shown.by = "preview" /\ shown.verb = q0.verb
           /\ shown.targets = q0.targets /\ shown.status = PreviewStatus(q0, o)
           /\ shown.resource = ResourceOf(q0) /\ shown.plan = o
           /\ shown.status \in Refusals \cup {"ok"} => shown.hash = Digest(q0.verb, o.recs)
    BY <2>1
  <2>3. /\ q.verb = q0.verb /\ q.targets \in Arrangements(q0.targets)
        /\ out.status = o.status /\ out.recs \in Arrangements(o.recs)
    BY <1>4, <2>2, Zenon
  <2> QED  BY <1>2, <2>2, <2>3, PredictedByPreview, Zenon
<1>9. CASE Unplanned(shown)
  <2>1. PICK status \in {"usage", "internal"} :
          shown.by = "plan" /\ shown.status = status /\ shown.plan = Failed(status)
    BY <1>9, UnplannedIs, Zenon
  <2>2. out.status = status  BY <1>4, <2>1 DEF Failed
  <2>3. status = "internal" /\ out.status = "internal"  BY <1>2, <2>1, <2>2
  <2>4. run.status = "internal"  BY <1>2, <2>3, FailedAlike, Zenon
  <2>5. Predicted = {"internal", "resolve_failed"}  BY <2>1, <2>3 DEF Predicted
  <2> QED  BY <2>4, <2>5
<1>10. CASE Planned(shown)
  <2>1. PICK q0 \in Requests : \E o \in Resolved(q0.verb) :
           /\ shown.by = "plan" /\ shown.verb = q0.verb
           /\ shown.targets = q0.targets /\ shown.status = PlanToolStatus(q0, o)
           /\ shown.plan = o
           /\ shown.status = "ok" => /\ shown.hash = Digest(q0.verb, o.recs)
                                     /\ shown.resource = ResourceOf(q0)
    BY <1>10, PlannedIs, Zenon
  <2>2. PICK o \in Resolved(q0.verb) :
           /\ shown.by = "plan" /\ shown.verb = q0.verb
           /\ shown.targets = q0.targets /\ shown.status = PlanToolStatus(q0, o)
           /\ shown.plan = o
           /\ shown.status = "ok" => /\ shown.hash = Digest(q0.verb, o.recs)
                                     /\ shown.resource = ResourceOf(q0)
    BY <2>1
  <2>3. /\ q.verb = q0.verb /\ q.targets \in Arrangements(q0.targets)
        /\ out.status = o.status /\ out.recs \in Arrangements(o.recs)
    BY <1>4, <2>2, Zenon
  <2> QED  BY <1>2, <2>2, <2>3, PredictedByTool, Zenon
<1> QED  BY <1>5, <1>6, <1>7, <1>8, <1>9, <1>10 DEF ShownInv

(***************************************************************************)
(* An oracle is right about a world that has not moved (preview.cc and     *)
(* plan.cc of the tools against plan.c).                                   *)
(***************************************************************************)
THEOREM OraclesRight == Spec => []OraclesPredict
BY Invariance, IInvOraclesPredict, PTL
=============================================================================
