----------------------------- MODULE PlanDigest -----------------------------
(***************************************************************************)
(* The canonical byte string of a plan (digest.c): the records of a plan,  *)
(* each a row of fields, sorted and joined; what the hash of a plan is the *)
(* hash of.  Out-of-domain input gives no string at all.                   *)
(*                                                                         *)
(* A fixed word of the schema (a verb, an action, a flag, a state) is one  *)
(* byte of its own; every other string is spelled out.  SHA-256 is taken   *)
(* as free of collisions: the hash of a plan is its canonical string.      *)
(***************************************************************************)
EXTENDS Names, SequencesExt

CONSTANT MaxCanon    \* PKGEXEC_DIGEST_MAX_CANON, the longest canonical string

ASSUME MaxCanonAssumption == MaxCanon \in Nat

US      == 31
RS      == 30
Comma   == 44
Equals  == 61
Space   == 32
Version == 49    \* "1"

TxnVerbs  == {"apt.install", "apt.remove", "apt.purge", "apt.upgrade",
              "apt.dist_upgrade"}
HoldVerbs == {"apt.hold", "apt.unhold"}
Actions   == {"install", "upgrade", "downgrade", "remove", "purge"}
Flags     == {"hold", "auto", "essential", "protected"}
CfgStates == {"half-installed", "unpacked", "half-configured",
              "triggers-awaited", "triggers-pending"}
HoldStates == {"hold", "install"}
OptKeys    == {"signed-by", "architectures", "trusted"}

WordList ==
  <<"apt.install", "apt.remove", "apt.purge", "apt.upgrade",
    "apt.dist_upgrade", "apt.hold", "apt.unhold", "apt.configure", "apt.update",
    "install", "upgrade", "downgrade", "remove", "purge", "hold", "auto",
    "essential", "protected", "half-installed", "unpacked", "half-configured",
    "triggers-awaited", "triggers-pending", "signed-by", "architectures",
    "trusted", "yes", "no", "pending", "BEGIN", "END", "inline-sha256:">>
Word(w) == <<64 + CHOOSE i \in DOMAIN WordList : WordList[i] = w>>
Words(S) == {Word(w) : w \in S}

(* The error result, -1 or NULL: no C string holds a NUL. *)
Refused == <<0>>

-----------------------------------------------------------------------------
(* Fields.                                                                  *)

CodePoint(c) ==
  FoldLeft(LAMBDA n, b : 64 * n + (b % 64), c[1] % (2^(7 - Len(c))), Tail(c))

(* One strictly encoded character: not overlong, not a surrogate, in range. *)
Utf8Char(c) ==
  \/ Len(c) = 1 /\ c[1] < 128
  \/ /\ Len(c) \in 2..4
     /\ c[1] \in CASE Len(c) = 2 -> 192..223 [] Len(c) = 3 -> 224..239
                   [] Len(c) = 4 -> 240..247
     /\ \A i \in 2..Len(c) : c[i] \in 128..191
     /\ CodePoint(c) >= CASE Len(c) = 2 -> 128 [] Len(c) = 3 -> 2048
                          [] Len(c) = 4 -> 65536
     /\ CodePoint(c) <= 1114111 /\ CodePoint(c) \notin 55296..57343

Utf8Valid(s) ==
  LET from[i \in 1..Len(s) + 1] ==
        \/ i = Len(s) + 1
        \/ \E n \in 1..4 : /\ i + n <= Len(s) + 1
                           /\ Utf8Char(SubSeq(s, i, i + n - 1))
                           /\ from[i + n]
  IN  from[1]

FieldOk_AnyComma(s) ==
  Utf8Valid(s) /\ \A i \in DOMAIN s : s[i] \notin {US, RS, Equals}
FieldOk(s) ==
  Utf8Valid(s) /\ \A i \in DOMAIN s : s[i] \notin {US, RS, Comma, Equals}

(* A buffer never grows beyond the bound; most hold a final NUL as well. *)
Bounded(s, nul) == IF Len(s) + nul <= MaxCanon THEN s ELSE Refused

(* The parts, a separator between them, at the end of what is in a buffer. *)
JoinedOnto(start, sep, parts) ==
  LET upto[n \in 0..Len(parts)] ==
        IF n = 0 THEN start
        ELSE upto[n - 1] \o (IF n > 1 THEN <<sep>> ELSE <<>>) \o parts[n]
  IN  upto[Len(parts)]

Joined(sep, parts) == JoinedOnto(<<>>, sep, parts)

(* The items of a sequence, one for one, in any order. *)
Arrangements(items) ==
  { [i \in DOMAIN items |-> items[from[i]]] : from \in Bijection(DOMAIN items, DOMAIN items) }

InOrder(s) == \A i, j \in DOMAIN s : i < j => ~Before(s[j], s[i])

(* qsort: the items in the order of their bytes. *)
Sorted(items) == CHOOSE s \in Arrangements(items) : InOrder(s)

Distinct(items) == \A i, j \in DOMAIN items : i # j => items[i] # items[j]

(* join_sorted: flags, components and targets refuse duplicates. *)
JoinSorted(items, allowed) ==
  IF Distinct(items) /\ \A i \in DOMAIN items : FieldOk(items[i]) /\ items[i] \in allowed
  THEN Bounded(Joined(Comma, Sorted(items)), 1)
  ELSE Refused

(* join_sorted_kv: options, pairs <<key, value>>, as k=v. *)
JoinSortedKv(opts) ==
  IF \A o \in opts : /\ FieldOk(o[1]) /\ FieldOk(o[2]) /\ o[1] \in Words(OptKeys)
                     /\ \A p \in opts : p[1] = o[1] => p = o
  THEN Bounded(Joined(Comma, Sorted(SetToSeq({o[1] \o <<Equals>> \o o[2] : o \in opts}))), 1)
  ELSE Refused

-----------------------------------------------------------------------------
(* The records a plan of each verb is made of (digest.h).                   *)

TxnRecords  == [package: Strings, architecture: Strings, action: Strings,
                from_version: Strings, to_version: Strings, flags: SUBSET Strings]
HoldRecords == [package: Strings, from_state: Strings, to_state: Strings]
CfgRecords  == [package: Strings, architecture: Strings, current_version: Strings,
                state: Strings]
SrcRecords  == [uri: Strings, suite: Strings, components: SUBSET Strings,
                options: SUBSET (Strings \X Strings)]

RecordsOf(verb) ==
  CASE verb \in TxnVerbs     -> TxnRecords
    [] verb \in HoldVerbs    -> HoldRecords
    [] verb = "apt.update"   -> SrcRecords
    [] OTHER                 -> CfgRecords
-----------------------------------------------------------------------------
(* Rows: one per record, fields joined by US.  "lists" are joined already.  *)

Row(inDomain, fields, lists) ==
  IF /\ inDomain
     /\ \A i \in DOMAIN fields : FieldOk(fields[i])
     /\ \A i \in DOMAIN lists : lists[i] # Refused
  THEN Bounded(Joined(US, fields \o lists), 1)
  ELSE Refused

TxnRow(r) ==
  LET flags == JoinSorted(SetToSeq(r.flags), Words(Flags))
  IN  Row(r.action \in Words(Actions),
          <<r.package, r.architecture, r.action, r.from_version, r.to_version>>,
          <<flags>>)

CfgRow(r) ==
  Row(r.state \in Words(CfgStates),
      <<r.package, r.architecture, r.current_version, r.state>>, <<>>)

HoldRow(r) ==
  Row(r.from_state \in Words(HoldStates) /\ r.to_state \in Words(HoldStates),
      <<r.package, r.from_state, r.to_state>>, <<>>)

SrcRow(r) ==
  Row(TRUE, <<r.uri, r.suite>>,
      <<JoinSorted(SetToSeq(r.components), Strings), JoinSortedKv(r.options)>>)

RowOf(verb, r) ==
  CASE verb \in TxnVerbs  -> TxnRow(r)
    [] verb \in HoldVerbs -> HoldRow(r)
    [] verb = "apt.update"    -> SrcRow(r)
    [] verb = "apt.configure" -> CfgRow(r)

(* finalize: "1" RS verb RS, then the sorted rows joined by RS. *)
Finalize_Unsorted(verb, rows) ==
  Bounded(JoinedOnto(<<Version, RS>> \o Word(verb) \o <<RS>>, RS, rows), 0)
Finalize(verb, rows) ==
  Bounded(JoinedOnto(<<Version, RS>> \o Word(verb) \o <<RS>>, RS, Sorted(rows)), 0)

Digest(verb, recs) ==
  LET rows == [i \in DOMAIN recs |-> RowOf(verb, recs[i])]
  IN  IF \E i \in DOMAIN rows : rows[i] = Refused THEN Refused ELSE Finalize(verb, rows)

(* The resource token of a list of targets. *)
Resource(targets) == JoinSorted(targets, Strings)

-----------------------------------------------------------------------------
(* An inline armored key, which no field can hold, becomes a token of its   *)
(* hash; anything else is kept and meets FieldOk as it is.                  *)

Hex(s) ==
  [i \in 1..2 * Len(s) |-> 97 + LET b == s[(i + 1) \div 2]
                               IN  IF i % 2 = 1 THEN b \div 16 ELSE b % 16]

SignedByToken(value) ==
  IF /\ value # <<>> /\ <<value[1]>> = Word("BEGIN")
     /\ \E e \in 2..Len(value) :
          /\ <<value[e]>> = Word("END")
          /\ \A i \in e + 1..Len(value) : value[i] \in {9, 10, 13, Space}
  THEN Word("inline-sha256:") \o Hex(value)
  ELSE value

-----------------------------------------------------------------------------
(* What a preview shows of a canonical string (preview.cc): it is split     *)
(* again and its fields become JSON strings.                                *)

Pieces(s, sep) ==
  LET upto[n \in 0..Len(s)] ==
        IF n = 0 THEN << <<>> >>
        ELSE LET seen == upto[n - 1]
             IN  IF s[n] = sep THEN Append(seen, <<>>)
                 ELSE [seen EXCEPT ![Len(seen)] = Append(@, s[n])]
  IN  upto[Len(s)]

SplitOn(s, sep) == IF s = <<>> THEN <<>> ELSE Pieces(s, sep)

(* json_string gives nothing for a string that is not UTF-8. *)
Json(s) == IF Utf8Valid(s) THEN s ELSE Refused

Field(f, i) == IF i <= Len(f) THEN f[i] ELSE <<>>

(* The elements of a sub-list, and the members of a list of options. *)
CsvArray(s) == {Json(part) : part \in ToSet(SplitOn(s, Comma))}

OptionsObject(s) ==
  { LET eq == RunEnd(kv, 1, Bytes \ {Equals})
    IN  <<Json(SubSeq(kv, 1, eq - 1)), Json(SubSeq(kv, eq + 1, Len(kv)))>> :
      kv \in ToSet(SplitOn(s, Comma)) }
=============================================================================
