--------------------------- MODULE PlanDigest_proofs ---------------------------
(***************************************************************************)
(* Of byte strings and of canonical plans, for strings of any length and   *)
(* plans of any records: the order the digest sorts by, what a scan of a   *)
(* name accepts, and that a canonical string can be split back into the    *)
(* records it was made of and no others, in whatever order they came.      *)
(*                                                                         *)
(* What a loop of the code does is shown by induction over a set in the    *)
(* place of a predicate (UpTo, of NumberLemmas).                           *)
(***************************************************************************)
EXTENDS PlanDigest, NumberLemmas, SequenceTheorems, FiniteSetTheorems, FunctionTheorems

(* The length of a string and its bytes are numbers.                        *)
LEMMA StringBytes ==
  ASSUME NEW s \in Strings
  PROVE  Len(s) \in Nat /\ \A i \in 1..Len(s) : s[i] \in Nat
<1>1. \A i \in 1..Len(s) : s[i] \in Bytes  BY DEF Strings
<1>2. Bytes \subseteq Nat  BY DEF Bytes
<1>3. Len(s) \in Nat  BY DEF Strings
<1> QED  BY <1>1, <1>2, <1>3

-----------------------------------------------------------------------------
(* A run of bytes has one end.                                              *)

IsRunEnd(s, from, S, k) ==
  /\ \A i \in from..k - 1 : s[i] \in S
  /\ k <= Len(s) => s[k] \notin S

(* A run of bytes ends, at the latest behind the string.                    *)
LEMMA RunHasEnd ==
  ASSUME NEW s \in Strings, NEW from \in 1..Len(s) + 1, NEW S
  PROVE  \E k \in from..Len(s) + 1 : IsRunEnd(s, from, S, k)
<1> DEFINE stops == {k \in from..Len(s) + 1 : k <= Len(s) => s[k] \notin S}
<1>1. Len(s) \in Nat  BY DEF Strings
<1>2. stops \in SUBSET Nat /\ Len(s) + 1 \in stops  BY <1>1
<1>3. PICK k \in stops : \A j \in stops : k <= j
  <2> HIDE DEF stops
  <2> QED  BY <1>2, Least
<1>4. k \in from..Len(s) + 1 /\ (k <= Len(s) => s[k] \notin S)  BY <1>3
<1>5. ASSUME NEW i \in from..k - 1 PROVE s[i] \in S
  BY <1>1, <1>3, <1>4, <1>5
<1> QED  BY <1>4, <1>5 DEF IsRunEnd

(* RunEnd is that end: it is one, and there is no other.                    *)
LEMMA RunEndIs ==
  ASSUME NEW s \in Strings, NEW from \in 1..Len(s) + 1, NEW S
  PROVE  /\ RunEnd(s, from, S) \in from..Len(s) + 1
         /\ IsRunEnd(s, from, S, RunEnd(s, from, S))
         /\ \A k \in from..Len(s) + 1 : IsRunEnd(s, from, S, k) => k = RunEnd(s, from, S)
<1>1. Len(s) \in Nat  BY DEF Strings
<1>2. /\ RunEnd(s, from, S) \in from..Len(s) + 1
      /\ IsRunEnd(s, from, S, RunEnd(s, from, S))
  BY RunHasEnd DEF RunEnd, IsRunEnd
<1>3. ASSUME NEW j \in from..Len(s) + 1, NEW k \in from..Len(s) + 1,
             IsRunEnd(s, from, S, j), IsRunEnd(s, from, S, k), j < k
      PROVE  FALSE
  BY <1>1, <1>3 DEF IsRunEnd
<1>4. ASSUME NEW k \in from..Len(s) + 1, IsRunEnd(s, from, S, k)
      PROVE  k = RunEnd(s, from, S)
  <2> DEFINE e == RunEnd(s, from, S)
  <2>1. k \in Int /\ e \in Int  BY <1>1, <1>2
  <2>2. ~(k < e) /\ ~(e < k)  BY <1>2, <1>3, <1>4
  <2> QED  BY <2>1, <2>2
<1> QED  BY <1>2, <1>4

-----------------------------------------------------------------------------
(* pkgx_is_rapt_owned (policy.c) accepts the names of ^r-[a-z]+-[a-z0-9.]+$ *)
(* and no others: the first run cannot stop at any dash but the right one.  *)
THEOREM OwnedIsThePattern ==
  ASSUME NEW name \in Strings
  PROVE  IsRaptOwned(name) <=> RaptPattern(name)
<1> USE DEF LowerCase, Digits, AlNum, Plus, Dash, Dot, Colon, LetterR
<1>1. Len(name) \in Nat /\ \A i \in 1..Len(name) : name[i] \in Nat
  BY StringBytes
<1>2. ASSUME IsRaptOwned(name) PROVE RaptPattern(name)
  <2> DEFINE dash == RunEnd(name, 3, LowerCase)
             end  == RunEnd(name, dash + 1, AlNum \cup {Dot})
  <2>1. /\ Len(name) >= 2 /\ name[1] = LetterR /\ name[2] = Dash
        /\ dash > 3 /\ dash <= Len(name) /\ name[dash] = Dash
        /\ end > dash + 1 /\ end = Len(name) + 1
    BY <1>2 DEF IsRaptOwned
  <2>2. dash \in 3..Len(name) + 1 /\ \A i \in 3..dash - 1 : name[i] \in LowerCase
    <3> HIDE DEF LowerCase
    <3> QED  BY <1>1, <2>1, RunEndIs DEF IsRunEnd
  <2>3. \A i \in dash + 1..end - 1 : name[i] \in AlNum \cup {Dot}
    <3>1. dash + 1 \in 1..Len(name) + 1  BY <1>1, <2>1, <2>2
    <3> HIDE DEF dash, AlNum, Dot
    <3> QED  BY <3>1, RunEndIs DEF IsRunEnd
  <2>4. dash \in 4..Len(name) - 1  BY <1>1, <2>1, <2>2
  <2> HIDE DEF dash, end
  <2> QED  BY <1>1, <2>1, <2>2, <2>3, <2>4 DEF RaptPattern
<1>3. ASSUME RaptPattern(name) PROVE IsRaptOwned(name)
  <2>1. PICK d \in 4..Len(name) - 1 :
          /\ name[1] = LetterR /\ name[2] = Dash /\ name[d] = Dash
          /\ \A i \in 3..d - 1 : name[i] \in LowerCase
          /\ \A i \in d + 1..Len(name) : name[i] \in AlNum \cup {Dot}
    BY <1>3 DEF RaptPattern
  <2>2. d \in 3..Len(name) + 1 /\ 3 \in 1..Len(name) + 1
        /\ d + 1 \in 1..Len(name) + 1 /\ Len(name) + 1 \in d + 1..Len(name) + 1
    BY <1>1
  <2>3. IsRunEnd(name, 3, LowerCase, d)  BY <2>1 DEF IsRunEnd
  <2>4. d = RunEnd(name, 3, LowerCase)
    <3> HIDE DEF LowerCase
    <3> QED  BY <2>2, <2>3, RunEndIs
  <2>5. IsRunEnd(name, d + 1, AlNum \cup {Dot}, Len(name) + 1)
    BY <1>1, <2>1 DEF IsRunEnd
  <2>6. Len(name) + 1 = RunEnd(name, d + 1, AlNum \cup {Dot})
    <3> HIDE DEF AlNum, Dot
    <3> QED  BY <2>2, <2>5, RunEndIs
  <2>7. /\ d > 3 /\ d <= Len(name)
        /\ Len(name) + 1 > d + 1
        /\ Len(name) >= 2
    BY <1>1
  <2> HIDE DEF LowerCase, AlNum, Dot, Dash, LetterR
  <2> QED  BY <2>1, <2>4, <2>6, <2>7 DEF IsRaptOwned
<1> QED  BY <1>2, <1>3

(* A name qualified by an architecture is never found to be rapt's own,     *)
(* whatever package it names: what the rule of pkgx_check_owned_targets is  *)
(* blind to when a hold is asked for under such a name (plan.c).            *)
THEOREM QualifiedIsNeverOwned ==
  ASSUME NEW name \in Strings, NEW arch \in Strings
  PROVE  ~IsRaptOwned(Qualified(name, arch))
<1> DEFINE q == Qualified(name, arch)
           at == Len(name) + 1
<1>1. q \in Strings  BY DEF Qualified, Strings, Bytes, Colon
<1>2. at \in 1..Len(q) /\ q[at] = Colon  BY DEF Qualified, Strings, Bytes, Colon
<1> HIDE DEF q, at
<1>3. SUFFICES ASSUME RaptPattern(q) PROVE FALSE
  BY <1>1, OwnedIsThePattern DEF q
<1>4. PICK d \in 4..Len(q) - 1 :
        /\ q[1] = LetterR /\ q[2] = Dash /\ q[d] = Dash
        /\ \A i \in 3..d - 1 : q[i] \in LowerCase
        /\ \A i \in d + 1..Len(q) : q[i] \in AlNum \cup {Dot}
  BY <1>3 DEF RaptPattern
<1>5. Len(q) \in Nat  BY <1>1 DEF Strings
<1>6. at \in {1, 2, d} \/ at \in 3..d - 1 \/ at \in d + 1..Len(q)  BY <1>2, <1>4, <1>5
<1>7. q[at] \in {LetterR, Dash} \cup LowerCase \cup AlNum \cup {Dot}
  BY <1>4, <1>6
<1> QED  BY <1>2, <1>7 DEF LowerCase, Digits, AlNum, Dash, Dot, Colon, LetterR

-----------------------------------------------------------------------------
(* The order of strcmp, by which records and lists are sorted (digest.c), is *)
(* a strict total order: two different strings compare, one way only, so     *)
(* equal multisets of them have one sorted sequence.                         *)

(* No string comes before itself.                                           *)
LEMMA BeforeIsIrreflexive ==
  ASSUME NEW x \in Strings
  PROVE  ~Before(x, x)
BY StringBytes DEF Before

(* What comes before an earlier string comes before a later one.            *)
LEMMA BeforeIsTransitive ==
  ASSUME NEW x \in Strings, NEW y \in Strings, NEW z \in Strings,
         Before(x, y), Before(y, z)
  PROVE  Before(x, z)
<1>1. /\ Len(x) \in Nat /\ Len(y) \in Nat /\ Len(z) \in Nat
      /\ \A i \in 1..Len(x) : x[i] \in Nat
      /\ \A i \in 1..Len(y) : y[i] \in Nat
      /\ \A i \in 1..Len(z) : z[i] \in Nat
  BY StringBytes
<1>2. PICK k \in 1..Len(x) + 1 : /\ k <= Len(y)
                                 /\ \A i \in 1..k - 1 : x[i] = y[i]
                                 /\ k <= Len(x) => x[k] < y[k]
  BY DEF Before
<1>3. PICK l \in 1..Len(y) + 1 : /\ l <= Len(z)
                                 /\ \A i \in 1..l - 1 : y[i] = z[i]
                                 /\ l <= Len(y) => y[l] < z[l]
  BY DEF Before
<1>4. CASE k < l
  <2>1. k <= Len(z)  BY <1>1, <1>2, <1>3, <1>4
  <2>2. \A i \in 1..k - 1 : x[i] = z[i]  BY <1>1, <1>2, <1>3, <1>4
  <2>3. k <= Len(x) => x[k] < z[k]  BY <1>1, <1>2, <1>3, <1>4
  <2> QED  BY <2>1, <2>2, <2>3 DEF Before
<1>5. CASE k = l
  <2>1. k <= Len(z)  BY <1>3, <1>5
  <2>2. \A i \in 1..k - 1 : x[i] = z[i]  BY <1>2, <1>3, <1>5
  <2>3. k <= Len(x) => x[k] < z[k]  BY <1>1, <1>2, <1>3, <1>5
  <2> QED  BY <2>1, <2>2, <2>3 DEF Before
<1>6. CASE l < k
  <2>1. l \in 1..Len(x) + 1 /\ l <= Len(z)  BY <1>1, <1>2, <1>3, <1>6
  <2>2. \A i \in 1..l - 1 : x[i] = z[i]  BY <1>1, <1>2, <1>3, <1>6
  <2>3. x[l] < z[l]  BY <1>1, <1>2, <1>3, <1>6
  <2> QED  BY <2>1, <2>2, <2>3 DEF Before
<1> QED  BY <1>1, <1>2, <1>3, <1>4, <1>5, <1>6

(* Of two strings one comes first.                                          *)
LEMMA BeforeIsTotal ==
  ASSUME NEW x \in Strings, NEW y \in Strings, x # y
  PROVE  Before(x, y) \/ Before(y, x)
<1>1. /\ Len(x) \in Nat /\ Len(y) \in Nat
      /\ \A i \in 1..Len(x) : x[i] \in Nat
      /\ \A i \in 1..Len(y) : y[i] \in Nat
  BY StringBytes
<1> DEFINE ends == {k \in 1..Len(x) + 1 : k > Len(x) \/ k > Len(y) \/ x[k] # y[k]}
<1>2. ends \in SUBSET Nat /\ Len(x) + 1 \in ends  BY <1>1
<1>3. PICK k \in ends : \A j \in ends : k <= j
  <2> HIDE DEF ends
  <2> QED  BY <1>2, Least
<1>4. k \in 1..Len(x) + 1 /\ (k > Len(x) \/ k > Len(y) \/ x[k] # y[k])  BY <1>3
<1>5. \A i \in 1..k - 1 : i <= Len(x) /\ i <= Len(y) /\ x[i] = y[i]
  BY <1>1, <1>3, <1>4
<1>6. k <= Len(y) + 1
  <2>1. CASE k = 1  BY <1>1, <2>1
  <2>2. CASE k # 1
    <3>1. k - 1 \in 1..k - 1  BY <1>4, <2>2
    <3> QED  BY <1>1, <1>4, <1>5, <3>1
  <2> QED  BY <2>1, <2>2
<1> HIDE DEF ends
<1>7. CASE k > Len(x) /\ k > Len(y)
  <2>1. Len(x) = Len(y) /\ \A i \in 1..Len(x) : x[i] = y[i]
    BY <1>1, <1>4, <1>5, <1>6, <1>7
  <2> QED  BY <2>1 DEF Strings
<1>8. CASE k <= Len(x) /\ k > Len(y)
  BY <1>1, <1>4, <1>5, <1>6, <1>8 DEF Before
<1>9. CASE k > Len(x) /\ k <= Len(y)
  BY <1>1, <1>4, <1>5, <1>9 DEF Before
<1>10. CASE k <= Len(x) /\ k <= Len(y)
  <2>1. x[k] < y[k] \/ y[k] < x[k]  BY <1>1, <1>4, <1>10
  <2> QED  BY <1>1, <1>4, <1>5, <1>6, <1>10, <2>1 DEF Before
<1> QED  BY <1>1, <1>4, <1>7, <1>8, <1>9, <1>10

(* The order of strcmp is a strict total order, so that what is sorted by it *)
(* (records and lists of digest.c) has no order left from where it came.     *)
THEOREM BeforeIsStrictTotalOrder ==
  /\ \A x \in Strings : ~Before(x, x)
  /\ \A x, y, z \in Strings : Before(x, y) /\ Before(y, z) => Before(x, z)
  /\ \A x, y \in Strings : x # y => Before(x, y) \/ Before(y, x)
BY BeforeIsIrreflexive, BeforeIsTransitive, BeforeIsTotal
-----------------------------------------------------------------------------
(* Sequences: nothing at either end, an element at the end, and the         *)
(* beginnings, of which each has one element more than the one before.      *)
LEMMA NothingAdded ==
  ASSUME NEW T, NEW s \in Seq(T)
  PROVE  s \o <<>> = s /\ <<>> \o s = s
OBVIOUS

(* Concatenation appends the last element last.                             *)
LEMMA AppendLast ==
  ASSUME NEW T, NEW s \in Seq(T), NEW t \in Seq(T), NEW b \in T
  PROVE  s \o Append(t, b) = Append(s \o t, b)
OBVIOUS

(* Another last element in place of the last one.                           *)
LEMMA OtherLast ==
  ASSUME NEW T, NEW s \in Seq(T), NEW a \in T, NEW b \in T
  PROVE  /\ Len(Append(s, a)) = Len(s) + 1 /\ Append(s, a)[Len(s) + 1] = a
         /\ [Append(s, a) EXCEPT ![Len(s) + 1] = b] = Append(s, b)
<1>1. ASSUME NEW c \in T
      PROVE  \E u \in Seq(T) : /\ u = Append(s, c) /\ Len(u) = Len(s) + 1 /\ u[Len(s) + 1] = c
                               /\ \A i \in 1..Len(s) : u[i] = s[i]
  <2>1. /\ Append(s, c) \in Seq(T) /\ Len(Append(s, c)) = Len(s) + 1
        /\ Append(s, c)[Len(s) + 1] = c /\ \A i \in 1..Len(s) : Append(s, c)[i] = s[i]
    BY AppendProperties
  <2> QED BY <2>1, Zenon
<1>2. PICK u \in Seq(T) : u = Append(s,a) /\ Len(u) = Len(s) + 1 /\ u[Len(s) + 1] = a
         /\ \A i \in 1..Len(s) : u[i] = s[i]
   BY <1>1, Zenon
<1>3. PICK v \in Seq(T) : v = Append(s,b) /\ Len(v) = Len(s) + 1 /\ v[Len(s) + 1] = b
         /\ \A i \in 1..Len(s) : v[i] = s[i]
   BY <1>1, Zenon
<1>4. PICK m \in Nat : m = Len(s) + 1 OBVIOUS
<1> DEFINE w == [u EXCEPT ![m] = b]
<1>5. w \in Seq(T) /\ Len(w) = m /\ \A j \in 1..m : w[j] = IF j = m THEN b ELSE u[j]
  <2>1. m \in 1..Len(u) BY <1>2, <1>4
  <2>2. w \in Seq(T) /\ Len(w) = Len(u)  BY <2>1, ExceptSeq
  <2>3. \A j \in 1..Len(u) : w[j] = IF j = m THEN b ELSE u[j]  BY <2>1
  <2> QED BY <2>2, <2>3, <1>2, <1>4
<1>6. ASSUME NEW i \in 1..m PROVE w[i] = v[i]
  <2>1. i = m \/ i \in 1..Len(s)  BY <1>4
  <2> HIDE DEF w
  <2>2. CASE i = m  BY <1>3, <1>4, <1>5, <2>2
  <2>3. CASE i \in 1..Len(s)
    <3>1. i # m  BY <1>4, <2>3
    <3> QED  BY <1>2, <1>3, <1>5, <2>3, <3>1
  <2> QED BY <2>1, <2>2, <2>3
<1>7. w = v
  <2> HIDE DEF w
  <2> QED BY <1>3, <1>4, <1>5, <1>6, SeqEqual
<1> QED BY <1>2, <1>3, <1>4, <1>7, Zenon

Beginning(s, n) == [i \in 1..n |-> s[i]]

(* A beginning is a sequence, one element more than the one before it.      *)
LEMMA BeginningIs ==
  ASSUME NEW T, NEW s \in Seq(T)
  PROVE  /\ Beginning(s, 0) = <<>> /\ Beginning(s, Len(s)) = s
         /\ \A n \in 0..Len(s) : Beginning(s, n) \in Seq(T) /\ Len(Beginning(s, n)) = n
         /\ \A n \in 1..Len(s) : /\ s[n] \in T
                                  /\ Beginning(s, n) = Append(Beginning(s, n - 1), s[n])
<1>1. Beginning(s, 0) = <<>>  BY DEF Beginning
<1>2. Beginning(s, Len(s)) = s  BY DEF Beginning
<1>3. \A n \in 0..Len(s) : Beginning(s, n) \in Seq(T) /\ Len(Beginning(s, n)) = n
  BY DEF Beginning
<1>4. ASSUME NEW n \in 1..Len(s)
      PROVE  s[n] \in T /\ Beginning(s, n) = Append(Beginning(s, n - 1), s[n])
  <2>1. s[n] \in T /\ n - 1 \in 0..Len(s)  OBVIOUS
  <2>2. PICK f \in Seq(T) : f = Beginning(s, n - 1) /\ Len(f) = n - 1  BY <1>3, <2>1
  <2>3. \A i \in 1..n - 1 : f[i] = s[i]  BY <2>2 DEF Beginning
  <2>4. Append(f, s[n]) = [i \in 1..n |-> IF i = n THEN s[n] ELSE f[i]]  BY <2>2
  <2> QED  BY <2>1, <2>2, <2>3, <2>4 DEF Beginning
<1> QED  BY <1>1, <1>2, <1>3, <1>4

-----------------------------------------------------------------------------
(* Joining.                                                                 *)

(* Strings put together are strings.                                        *)
LEMMA StringsJoin ==
  ASSUME NEW s \in Strings, NEW t \in Strings
  PROVE  s \o t \in Strings
BY DEF Strings

(* Strings grow by bytes.                                                   *)
LEMMA StringAppend ==
  ASSUME NEW s \in Strings, NEW t \in Strings, NEW b \in Bytes
  PROVE  s \o Append(t, b) = Append(s \o t, b) /\ Append(t, b) \in Strings
BY AppendLast DEF Strings

(* A byte is a string.                                                      *)
LEMMA ByteIsString ==
  ASSUME NEW b \in Bytes
  PROVE  <<b>> \in Strings
BY DEF Strings

(* What the n-th pass puts before its part.                                 *)
Glue(sep, n) == IF n > 1 THEN <<sep>> ELSE <<>>

IsBuffer(g, start, sep, parts) ==
  /\ g \in [0..Len(parts) -> Strings]
  /\ g[0] = start
  /\ \A n \in 1..Len(parts) : g[n] = g[n - 1] \o Glue(sep, n) \o parts[n]

(* A separator, or nothing.                                                 *)
LEMMA GlueType ==
  ASSUME NEW sep \in Bytes, NEW n \in Nat
  PROVE  Glue(sep, n) \in Strings
<1>1. <<sep>> \in Strings /\ <<>> \in Strings  BY ByteIsString DEF Strings
<1> QED  BY <1>1 DEF Glue

(* The states of the buffer, pass by pass, exist.                           *)
LEMMA BufferExists ==
  ASSUME NEW start \in Strings, NEW sep \in Bytes, NEW parts \in Seq(Strings)
  PROVE  \E g : IsBuffer(g, start, sep, parts)
<1> DEFINE N == Len(parts)
           step == [n \in 1..N |-> [v \in Strings |-> v \o Glue(sep, n) \o parts[n]]]
<1>1. N \in Nat  OBVIOUS
<1>2. ASSUME NEW n \in 1..N, NEW v \in Strings
      PROVE  v \o Glue(sep, n) \o parts[n] \in Strings
  <2>1. parts[n] \in Strings /\ Glue(sep, n) \in Strings  BY GlueType
  <2> QED  BY <2>1, StringsJoin
<1>3. step \in [1..N -> [Strings -> Strings]]  BY <1>2
<1>4. PICK g \in [0..N -> Strings] : IsLoop(g, N, start, step)
  <2> HIDE DEF step, N
  <2> QED  BY <1>1, <1>3, LoopExists
<1>5. ASSUME NEW n \in 1..N PROVE g[n] = g[n - 1] \o Glue(sep, n) \o parts[n]
  <2>1. g[n - 1] \in Strings  BY <1>4
  <2>2. g[n] = step[n][g[n - 1]]
    <3> HIDE DEF step
    <3> QED  BY <1>4 DEF IsLoop
  <2> QED  BY <2>1, <2>2
<1>6. g[0] = start
  <2> HIDE DEF step
  <2> QED  BY <1>4 DEF IsLoop
<1> QED  BY <1>4, <1>5, <1>6 DEF IsBuffer

(* What is joined is the buffer after the last pass.                        *)
LEMMA JoinedOntoIs ==
  ASSUME NEW start \in Strings, NEW sep \in Bytes, NEW parts \in Seq(Strings), NEW g,
         IsBuffer(g, start, sep, parts)
  PROVE  JoinedOnto(start, sep, parts) = g[Len(parts)]
<1> DEFINE N == Len(parts)
           Pass(u, n) == u[n - 1] \o (IF n > 1 THEN <<sep>> ELSE <<>>) \o parts[n]
           Eq(u) == u = [n \in 0..N |-> IF n = 0 THEN start ELSE Pass(u, n)]
<1>1. \A n \in 1..N : g[n] = Pass(g, n)  BY DEF IsBuffer, Glue
<1>2. g \in [0..N -> Strings] /\ g[0] = start /\ N \in Nat  BY DEF IsBuffer
<1>3. Eq(g)
  <2>1. \A n \in 0..N : g[n] = IF n = 0 THEN start ELSE Pass(g, n)  BY <1>1, <1>2
  <2> HIDE DEF Pass
  <2> QED  BY <1>2, <2>1
<1>4. PICK c : Eq(c) /\ JoinedOnto(start, sep, parts) = c[N]
  <2>1. JoinedOnto(start, sep, parts) = (CHOOSE u : Eq(u))[N]  BY DEF JoinedOnto
  <2>2. Eq(CHOOSE u : Eq(u))  BY <1>3
  <2> QED  BY <2>1, <2>2
<1> DEFINE S == {n \in 0..N : g[n] = c[n]}
<1>5. 0 \in S  BY <1>2, <1>4
<1>6. ASSUME NEW n \in 1..N, n - 1 \in S PROVE n \in S
  <2>1. n \in 0..N /\ n # 0 /\ g[n - 1] = c[n - 1]  BY <1>6
  <2>2. g[n] = Pass(g, n) /\ c[n] = Pass(c, n)
    <3> HIDE DEF Pass
    <3> QED  BY <1>1, <1>4, <2>1
  <2> QED  BY <2>1, <2>2
<1>7. \A n \in 0..N : n \in S
  <2> HIDE DEF S, N, Eq
  <2> QED  BY <1>2, <1>5, <1>6, UpTo
<1>8. g[N] = c[N]  BY <1>2, <1>7
<1> QED  BY <1>4, <1>8

(* Nothing joined is what was there; a further part comes after a           *)
(* separator, except the first.                                             *)
LEMMA JoinedNone ==
  ASSUME NEW start \in Strings, NEW sep \in Bytes
  PROVE  JoinedOnto(start, sep, <<>>) = start
<1>1. <<>> \in Seq(Strings) /\ Len(<<>>) = 0  OBVIOUS
<1>2. PICK g : IsBuffer(g, start, sep, <<>>)  BY <1>1, BufferExists
<1> QED  BY <1>1, <1>2, JoinedOntoIs DEF IsBuffer

(* One part more, behind a separator unless it is the first.                *)
LEMMA JoinedMore ==
  ASSUME NEW start \in Strings, NEW sep \in Bytes, NEW parts \in Seq(Strings),
         NEW x \in Strings
  PROVE  JoinedOnto(start, sep, Append(parts, x))
           = JoinedOnto(start, sep, parts) \o Glue(sep, Len(parts) + 1) \o x
<1> DEFINE more == Append(parts, x)
           N == Len(parts)
<1>1. more \in Seq(Strings) /\ Len(more) = N + 1 /\ N \in Nat
      /\ more[N + 1] = x /\ \A n \in 1..N : more[n] = parts[n]
  OBVIOUS
<1> HIDE DEF more
<1>2. PICK g : IsBuffer(g, start, sep, more)  BY <1>1, BufferExists
<1> DEFINE h == [n \in 0..N |-> g[n]]
<1>3. IsBuffer(h, start, sep, parts)
  <2>1. g \in [0..N + 1 -> Strings] /\ g[0] = start
    BY <1>1, <1>2 DEF IsBuffer
  <2>2. h \in [0..N -> Strings] /\ h[0] = start  BY <1>1, <2>1
  <2>3. ASSUME NEW n \in 1..N PROVE h[n] = h[n - 1] \o Glue(sep, n) \o parts[n]
    <3>1. n \in 1..N + 1 /\ n \in 0..N /\ n - 1 \in 0..N  BY <1>1
    <3>2. g[n] = g[n - 1] \o Glue(sep, n) \o more[n]  BY <1>1, <1>2, <3>1 DEF IsBuffer
    <3> QED  BY <1>1, <3>1, <3>2
  <2> HIDE DEF h
  <2> QED  BY <2>2, <2>3 DEF IsBuffer
<1>4. g[N + 1] = g[N] \o Glue(sep, N + 1) \o x
  <2>1. PICK m \in 1..N + 1 : m = N + 1  BY <1>1
  <2>2. m - 1 = N /\ more[m] = x  BY <1>1, <2>1
  <2>3. g[m] = g[m - 1] \o Glue(sep, m) \o more[m]  BY <1>1, <1>2 DEF IsBuffer
  <2> HIDE DEF N
  <2> QED  BY <2>1, <2>2, <2>3
<1>5. h[N] = g[N]  BY <1>1
<1> HIDE DEF h
<1>6. JoinedOnto(start, sep, parts) = h[N]  BY <1>3, JoinedOntoIs
<1>7. JoinedOnto(start, sep, more) = g[N + 1]  BY <1>1, <1>2, JoinedOntoIs
<1> QED  BY <1>4, <1>5, <1>6, <1>7 DEF more

(* What is joined is a string.                                              *)
LEMMA JoinedType ==
  ASSUME NEW start \in Strings, NEW sep \in Bytes, NEW parts \in Seq(Strings)
  PROVE  JoinedOnto(start, sep, parts) \in Strings
<1>1. PICK g : IsBuffer(g, start, sep, parts)  BY BufferExists
<1>2. Len(parts) \in 0..Len(parts)  OBVIOUS
<1> QED  BY <1>1, <1>2, JoinedOntoIs DEF IsBuffer

-----------------------------------------------------------------------------
(* Splitting.                                                               *)

Free(s, b) == \A i \in DOMAIN s : s[i] # b

(* What one more byte does to the pieces.                                   *)
Further(seen, b, sep) ==
  IF b = sep THEN Append(seen, <<>>)
  ELSE [seen EXCEPT ![Len(seen)] = Append(@, b)]

(* Two strings without a byte make one without it.                          *)
LEMMA FreeJoin ==
  ASSUME NEW s \in Strings, NEW t \in Strings, NEW c, Free(s, c), Free(t, c)
  PROVE  Free(s \o t, c)
BY DEF Free, Strings

Lists == {l \in Seq(Strings) : l # <<>>}

(* Reading one more byte gives pieces again.                                *)
LEMMA FurtherType ==
  ASSUME NEW seen \in Lists, NEW b \in Bytes, NEW sep
  PROVE  Further(seen, b, sep) \in Lists
<1>1. seen \in Seq(Strings) /\ Len(seen) \in 1..Len(seen) /\ <<>> \in Strings
  BY DEF Lists, Strings
<1>2. CASE b = sep  BY <1>1, <1>2 DEF Further, Lists
<1>3. CASE b # sep
  <2>1. Append(seen[Len(seen)], b) \in Strings  BY <1>1 DEF Strings
  <2> QED  BY <1>1, <1>3, <2>1 DEF Further, Lists
<1> QED  BY <1>2, <1>3

IsCut(g, s, sep) ==
  /\ g \in [0..Len(s) -> Lists]
  /\ g[0] = << <<>> >>
  /\ \A n \in 1..Len(s) : g[n] = Further(g[n - 1], s[n], sep)

(* The pieces seen, byte by byte, exist.                                    *)
LEMMA CutExists ==
  ASSUME NEW s \in Strings, NEW sep
  PROVE  \E g : IsCut(g, s, sep)
<1> DEFINE N == Len(s)
           step == [n \in 1..N |-> [v \in Lists |-> Further(v, s[n], sep)]]
<1>1. N \in Nat /\ << <<>> >> \in Lists  BY DEF Strings, Lists
<1>2. \A n \in 1..N : s[n] \in Bytes  BY DEF Strings
<1>3. step \in [1..N -> [Lists -> Lists]]  BY <1>2, FurtherType
<1>4. PICK g \in [0..N -> Lists] : IsLoop(g, N, << <<>> >>, step)
  <2> HIDE DEF step, N
  <2> QED  BY <1>1, <1>3, LoopExists
<1>5. ASSUME NEW n \in 1..N PROVE g[n] = Further(g[n - 1], s[n], sep)
  <2>1. g[n - 1] \in Lists  BY <1>1, <1>4
  <2>2. g[n] = step[n][g[n - 1]]
    <3> HIDE DEF step
    <3> QED  BY <1>4 DEF IsLoop
  <2> QED  BY <2>1, <2>2
<1>6. g[0] = << <<>> >>
  <2> HIDE DEF step
  <2> QED  BY <1>4 DEF IsLoop
<1> QED  BY <1>4, <1>5, <1>6 DEF IsCut

(* The pieces of a string are those seen after its last byte.               *)
LEMMA PiecesIs ==
  ASSUME NEW s \in Strings, NEW sep, NEW g, IsCut(g, s, sep)
  PROVE  Pieces(s, sep) = g[Len(s)]
<1> DEFINE N == Len(s)
           Eq(u) == u = [n \in 0..N |-> IF n = 0 THEN << <<>> >>
                                        ELSE Further(u[n - 1], s[n], sep)]
<1>1. \A n \in 1..N : g[n] = Further(g[n - 1], s[n], sep)  BY DEF IsCut
<1>2. g \in [0..N -> Lists] /\ g[0] = << <<>> >> /\ N \in Nat  BY DEF IsCut, Strings
<1>3. Eq(g)
  <2>1. ASSUME NEW n \in 0..N
        PROVE  g[n] = IF n = 0 THEN << <<>> >> ELSE Further(g[n - 1], s[n], sep)
    <3>1. CASE n = 0  BY <1>2, <3>1
    <3>2. CASE n # 0
      <4>1. n \in 1..N  BY <1>2, <3>2
      <4> QED  BY <1>1, <3>2, <4>1
    <3> QED  BY <3>1, <3>2
  <2> QED  BY <1>2, <2>1
<1>4. PICK c : Eq(c) /\ Pieces(s, sep) = c[N]
  <2>1. Pieces(s, sep) = (CHOOSE u : Eq(u))[N]  BY DEF Pieces, Further
  <2>2. Eq(CHOOSE u : Eq(u))  BY <1>3
  <2> QED  BY <2>1, <2>2
<1> DEFINE S == {n \in 0..N : g[n] = c[n]}
<1>5. 0 \in S  BY <1>2, <1>4
<1>6. ASSUME NEW n \in 1..N, n - 1 \in S PROVE n \in S
  <2>1. n \in 0..N /\ n # 0 /\ g[n - 1] = c[n - 1]  BY <1>6
  <2>2. g[n] = Further(g[n - 1], s[n], sep) /\ c[n] = Further(c[n - 1], s[n], sep)
    BY <1>1, <1>4, <2>1
  <2> QED  BY <2>1, <2>2
<1>7. \A n \in 0..N : n \in S
  <2> HIDE DEF S, N, Eq
  <2> QED  BY <1>2, <1>5, <1>6, UpTo
<1>8. g[N] = c[N]  BY <1>2, <1>7
<1> QED  BY <1>4, <1>8

(* The empty string is one empty piece.                                     *)
LEMMA PiecesNone ==
  ASSUME NEW sep
  PROVE  Pieces(<<>>, sep) = << <<>> >>
<1>1. <<>> \in Strings /\ Len(<<>>) = 0  BY DEF Strings
<1>2. PICK g : IsCut(g, <<>>, sep)  BY <1>1, CutExists
<1> QED  BY <1>1, <1>2, PiecesIs DEF IsCut

(* A string is cut into strings, one at least.                              *)
LEMMA PiecesType ==
  ASSUME NEW s \in Strings, NEW sep
  PROVE  Pieces(s, sep) \in Lists
<1>1. PICK g : IsCut(g, s, sep)  BY CutExists
<1>2. Len(s) \in 0..Len(s)  BY DEF Strings
<1> QED  BY <1>1, <1>2, PiecesIs DEF IsCut

(* One byte more, a separator or a byte of the last piece.                  *)
LEMMA PiecesFurther ==
  ASSUME NEW s \in Strings, NEW b \in Bytes, NEW sep
  PROVE  Pieces(Append(s, b), sep) = Further(Pieces(s, sep), b, sep)
<1> DEFINE more == Append(s, b)
           N == Len(s)
<1>1. more \in Strings /\ Len(more) = N + 1 /\ N \in Nat
      /\ more[N + 1] = b /\ \A n \in 1..N : more[n] = s[n]
  BY DEF Strings
<1> HIDE DEF more
<1>2. PICK g : IsCut(g, more, sep)  BY <1>1, CutExists
<1> DEFINE h == [n \in 0..N |-> g[n]]
<1>3. ASSUME NEW n \in 1..N + 1 PROVE g[n] = Further(g[n - 1], more[n], sep)
  BY <1>1, <1>2 DEF IsCut
<1>4. IsCut(h, s, sep)
  <2>1. g \in [0..N + 1 -> Lists] /\ g[0] = << <<>> >>  BY <1>1, <1>2 DEF IsCut
  <2>2. h \in [0..N -> Lists] /\ h[0] = << <<>> >>  BY <1>1, <2>1
  <2>3. ASSUME NEW n \in 1..N PROVE h[n] = Further(h[n - 1], s[n], sep)
    <3>1. n \in 1..N + 1 /\ n \in 0..N /\ n - 1 \in 0..N  BY <1>1
    <3>2. g[n] = Further(g[n - 1], more[n], sep)  BY <1>3, <3>1
    <3> QED  BY <1>1, <3>1, <3>2
  <2> HIDE DEF h
  <2> QED  BY <2>2, <2>3 DEF IsCut
<1>5. g[N + 1] = Further(g[N], b, sep)
  <2>1. N + 1 \in 1..N + 1 /\ N + 1 - 1 = N  BY <1>1
  <2> HIDE DEF N
  <2> QED  BY <1>1, <1>3, <2>1
<1>6. h[N] = g[N]  BY <1>1
<1> HIDE DEF h
<1>7. Pieces(s, sep) = h[N]  BY <1>4, PiecesIs
<1>8. Pieces(more, sep) = g[N + 1]  BY <1>1, <1>2, PiecesIs
<1> QED  BY <1>5, <1>6, <1>7, <1>8 DEF more

(* A run of bytes without the separator lengthens the last piece.           *)
LastPiece(s, sep, base, y) == Pieces(s, sep) = Append(base, y)

(* A text without separators only grows the last piece.                     *)
LEMMA PiecesExtend ==
  ASSUME NEW s \in Strings, NEW sep \in Bytes, NEW base \in Seq(Strings), NEW y \in Strings,
         LastPiece(s, sep, base, y), NEW x \in Strings, Free(x, sep)
  PROVE  LastPiece(s \o x, sep, base, y \o x)
<1> DEFINE N == Len(x)
           Upto(n) == Beginning(x, n)
           S == {n \in 0..N : LastPiece(s \o Upto(n), sep, base, y \o Upto(n))}
<1>1. N \in Nat /\ Upto(0) = <<>> /\ Upto(N) = x
      /\ \A n \in 1..N : x[n] \in Bytes /\ x[n] # sep
                         /\ Upto(n - 1) \in Strings /\ Upto(n) = Append(Upto(n - 1), x[n])
  <2>1. N \in Nat /\ \A n \in 1..N : x[n] # sep /\ n - 1 \in 0..N  BY DEF Strings, Free
  <2>2. x \in Seq(Bytes)  BY DEF Strings
  <2> QED  BY <2>1, <2>2, BeginningIs DEF Strings
<1> HIDE DEF Upto
<1>2. 0 \in S
  <2>1. s \o <<>> = s /\ y \o <<>> = y  BY NothingAdded DEF Strings
  <2>2. 0 \in 0..N  BY <1>1
  <2> QED  BY <1>1, <2>1, <2>2, Zenon
<1>3. ASSUME NEW n \in 1..N, n - 1 \in S PROVE n \in S
  <2>1. PICK t \in Strings : t = Upto(n - 1)  BY <1>1
  <2>2. PICK b \in Bytes : b = x[n] /\ b # sep  BY <1>1
  <2>3. Upto(n) = Append(t, b) /\ Pieces(s \o t, sep) = Append(base, y \o t)
    <3>1. LastPiece(s \o t, sep, base, y \o t)  BY <1>3, <2>1, Zenon
    <3> QED  BY <1>1, <2>1, <2>2, <3>1, Zenon DEF LastPiece
  <2>4. s \o Append(t, b) = Append(s \o t, b) /\ y \o Append(t, b) = Append(y \o t, b)
    BY StringAppend
  <2>5. PICK z \in Strings : z = y \o t  BY StringsJoin
  <2>6. Pieces(Append(s \o t, b), sep) = Further(Append(base, z), b, sep)
    <3>1. s \o t \in Strings  BY StringsJoin
    <3>2. Pieces(Append(s \o t, b), sep) = Further(Pieces(s \o t, sep), b, sep)
      BY <3>1, PiecesFurther, Zenon
    <3> QED  BY <2>3, <2>5, <3>2, Zenon
  <2>7. Further(Append(base, z), b, sep) = Append(base, Append(z, b))
    <3>1. PICK w \in Strings : w = Append(z, b)  BY StringAppend
    <3>2. /\ Len(Append(base, z)) = Len(base) + 1 /\ Append(base, z)[Len(base) + 1] = z
          /\ [Append(base, z) EXCEPT ![Len(base) + 1] = w] = Append(base, w)
      <4>1. base \in Seq(Strings) /\ z \in Strings /\ w \in Strings  OBVIOUS
      <4> QED  BY <4>1, OtherLast
    <3> QED  BY <2>2, <3>1, <3>2, Zenon DEF Further
  <2>8. LastPiece(s \o Upto(n), sep, base, y \o Upto(n))
    BY <2>3, <2>4, <2>5, <2>6, <2>7, Zenon DEF LastPiece
  <2>9. n \in 0..N  OBVIOUS
  <2> QED  BY <2>8, <2>9, Zenon
<1>4. \A n \in 0..N : n \in S
  <2> HIDE DEF S, N
  <2> QED  BY <1>1, <1>2, <1>3, UpTo
<1>5. N \in S
  <2> HIDE DEF S
  <2> QED  BY <1>1, <1>4
<1> QED  BY <1>1, <1>5, Zenon

(* After a separator a new piece begins.                                    *)
LEMMA PiecesNext ==
  ASSUME NEW s \in Strings, NEW sep \in Bytes, NEW x \in Strings, Free(x, sep)
  PROVE  Pieces(s \o <<sep>> \o x, sep) = Append(Pieces(s, sep), x)
<1>1. PICK base \in Seq(Strings) : base = Pieces(s, sep)  BY PiecesType DEF Lists
<1>2. Append(s, sep) \in Strings /\ s \o <<sep>> = Append(s, sep) /\ <<>> \in Strings
      /\ <<>> \o x = x
  BY DEF Strings
<1>3. LastPiece(Append(s, sep), sep, base, <<>>)
  BY <1>1, PiecesFurther DEF Further, LastPiece
<1>4. LastPiece(Append(s, sep) \o x, sep, base, <<>> \o x)
  BY <1>2, <1>3, PiecesExtend, Zenon
<1> QED  BY <1>1, <1>2, <1>4, Zenon DEF LastPiece

(* What is joined is split into its parts again.                            *)
LEMMA PiecesOfJoined ==
  ASSUME NEW start \in Strings, NEW sep \in Bytes, NEW base \in Seq(Strings),
         LastPiece(start, sep, base, <<>>),
         NEW parts \in Seq(Strings), parts # <<>>,
         \A i \in DOMAIN parts : Free(parts[i], sep)
  PROVE  Pieces(JoinedOnto(start, sep, parts), sep) = base \o parts
<1> DEFINE N == Len(parts)
           First(n) == Beginning(parts, n)
           S == {n \in 0..N : n >= 1 => Pieces(JoinedOnto(start, sep, First(n)), sep)
                                          = base \o First(n)}
<1>1. N \in Nat /\ N >= 1 /\ First(0) = <<>> /\ First(N) = parts
      /\ \A n \in 1..N : /\ parts[n] \in Strings /\ Free(parts[n], sep)
                         /\ First(n - 1) \in Seq(Strings) /\ Len(First(n - 1)) = n - 1
                         /\ First(n) = Append(First(n - 1), parts[n])
  <2>1. N \in Nat /\ N >= 1 /\ \A n \in 1..N : Free(parts[n], sep) /\ n - 1 \in 0..N
    OBVIOUS
  <2> QED  BY <2>1, BeginningIs
<1> HIDE DEF First
<1>2. 0 \in S  OBVIOUS
<1>3. ASSUME NEW n \in 1..N, n - 1 \in S PROVE n \in S
  <2>1. PICK done \in Seq(Strings) : done = First(n - 1)  BY <1>1
  <2>2. PICK x \in Strings : x = parts[n] /\ Free(x, sep)  BY <1>1
  <2>3. First(n) = Append(done, x) /\ Len(done) = n - 1  BY <1>1, <2>1, <2>2
  <2>4. n > 1 => Pieces(JoinedOnto(start, sep, done), sep) = base \o done
    <3>1. n > 1 => n - 1 >= 1  BY <1>1
    <3> QED  BY <1>3, <2>1, <3>1, Zenon
  <2>5. PICK s \in Strings : s = JoinedOnto(start, sep, done)  BY <2>1, JoinedType
  <2>6. JoinedOnto(start, sep, Append(done, x)) = s \o Glue(sep, n) \o x
    <3>1. Len(done) + 1 = n  BY <2>3
    <3>2. JoinedOnto(start, sep, Append(done, x))
            = JoinedOnto(start, sep, done) \o Glue(sep, Len(done) + 1) \o x
      BY JoinedMore, Zenon
    <3> QED  BY <2>5, <3>1, <3>2, Zenon
  <2>7. Pieces(s \o Glue(sep, n) \o x, sep) = base \o Append(done, x)
    <3>1. CASE n = 1
      <4>1. done = <<>> /\ Glue(sep, n) = <<>> /\ <<>> \in Strings
        BY <2>1, <2>3, <3>1 DEF Glue, Strings
      <4>2. s = start  BY <2>5, <4>1, JoinedNone, Zenon
      <4>3. s \o <<>> = s /\ <<>> \o x = x  BY NothingAdded DEF Strings
      <4>4. Pieces(start \o x, sep) = Append(base, x)
        <5>1. LastPiece(start \o x, sep, base, <<>> \o x)
          BY <2>2, <4>1, PiecesExtend, Zenon
        <5> QED  BY <4>3, <5>1, Zenon DEF LastPiece
      <4>5. base \o Append(<<>>, x) = Append(base, x)  OBVIOUS
      <4> QED  BY <4>1, <4>2, <4>3, <4>4, <4>5, Zenon
    <3>2. CASE n # 1
      <4>1. Glue(sep, n) = <<sep>> /\ n > 1  BY <3>2 DEF Glue
      <4>2. Pieces(s \o <<sep>> \o x, sep) = Append(base \o done, x)
        <5>1. Pieces(s \o <<sep>> \o x, sep) = Append(Pieces(s, sep), x)
          BY <2>2, PiecesNext, Zenon
        <5>2. Pieces(s, sep) = base \o done  BY <2>4, <2>5, <4>1, Zenon
        <5> QED  BY <5>1, <5>2, Zenon
      <4>3. base \o Append(done, x) = Append(base \o done, x)
        BY <2>1, <2>2, AppendLast
      <4> QED  BY <4>1, <4>2, <4>3, Zenon
    <3> QED  BY <3>1, <3>2
  <2>8. n \in 0..N  OBVIOUS
  <2> QED  BY <2>3, <2>6, <2>7, <2>8, Zenon
<1>4. \A n \in 0..N : n \in S
  <2> HIDE DEF S, N
  <2> QED  BY <1>1, <1>2, <1>3, UpTo
<1>5. N \in S
  <2> HIDE DEF S
  <2> QED  BY <1>1, <1>4
<1> QED  BY <1>1, <1>5, Zenon

(* Splitting takes joined parts apart again, unless all that was joined is  *)
(* one empty part.                                                          *)
LEMMA SplitOfJoined ==
  ASSUME NEW sep \in Bytes, NEW parts \in Seq(Strings),
         \A i \in DOMAIN parts : Free(parts[i], sep),
         parts = <<>> \/ Joined(sep, parts) # <<>>
  PROVE  SplitOn(Joined(sep, parts), sep) = parts
<1>1. <<>> \in Strings /\ << <<>> >> = Append(<<>>, <<>>) /\ <<>> \in Seq(Strings)
  BY DEF Strings
<1>2. CASE parts = <<>>  BY <1>1, <1>2, JoinedNone, Zenon DEF Joined, SplitOn
<1>3. CASE parts # <<>>
  <2>1. Pieces(Joined(sep, parts), sep) = <<>> \o parts
    <3>1. LastPiece(<<>>, sep, <<>>, <<>>)  BY <1>1, PiecesNone, Zenon DEF LastPiece
    <3> QED  BY <1>1, <1>3, <3>1, PiecesOfJoined, Zenon DEF Joined
  <2>2. <<>> \o parts = parts  OBVIOUS
  <2> QED  BY <1>3, <2>1, <2>2 DEF SplitOn
<1> QED  BY <1>2, <1>3

(* A byte that is in no part, and not the separator, is not in what is joined. *)
LEMMA JoinedFree ==
  ASSUME NEW start \in Strings, NEW sep \in Bytes, NEW parts \in Seq(Strings), NEW c,
         c # sep, Free(start, c), \A i \in DOMAIN parts : Free(parts[i], c)
  PROVE  Free(JoinedOnto(start, sep, parts), c)
<1> DEFINE N == Len(parts)
<1>1. PICK g : IsBuffer(g, start, sep, parts)  BY BufferExists
<1> DEFINE T == {n \in 0..N : Free(g[n], c)}
<1>2. N \in Nat /\ g \in [0..N -> Strings] /\ g[0] = start
      /\ \A n \in 1..N : g[n] = g[n - 1] \o Glue(sep, n) \o parts[n]
  BY <1>1 DEF IsBuffer
<1>3. 0 \in T  BY <1>2
<1>4. ASSUME NEW n \in 1..N, n - 1 \in T PROVE n \in T
  <2>1. PICK s \in Strings : s = g[n - 1] /\ Free(s, c)  BY <1>2, <1>4
  <2>2. PICK x \in Strings : x = parts[n] /\ Free(x, c)  BY <1>2
  <2>3. PICK m \in Strings : m = Glue(sep, n) /\ Free(m, c)
    <3>1. Glue(sep, n) \in Strings  BY GlueType
    <3>2. Free(Glue(sep, n), c)  BY DEF Glue, Free
    <3> QED  BY <3>1, <3>2
  <2>4. Free(s \o m \o x, c)  BY <2>1, <2>2, <2>3, FreeJoin, StringsJoin, Zenon
  <2>5. g[n] = s \o m \o x  BY <1>2, <2>1, <2>2, <2>3, Zenon
  <2>6. n \in 0..N  BY <1>2
  <2> QED  BY <2>4, <2>5, <2>6, Zenon
<1>5. \A n \in 0..N : n \in T
  <2> HIDE DEF T, N
  <2> QED  BY <1>2, <1>3, <1>4, UpTo
<1>6. Free(g[N], c)  BY <1>2, <1>5
<1> QED  BY <1>1, <1>6, JoinedOntoIs
-----------------------------------------------------------------------------
(* Arrangements.                                                            *)

Taking(items, from) == [i \in DOMAIN items |-> items[from[i]]]

Orders(items) == Bijection(DOMAIN items, DOMAIN items)

(* An order is a bijection of the places.                                   *)
LEMMA OrderIs ==
  ASSUME NEW items, NEW f
  PROVE  f \in Orders(items) <=>
           /\ f \in [DOMAIN items -> DOMAIN items]
           /\ \A i, j \in DOMAIN items : f[i] = f[j] => i = j
           /\ \A j \in DOMAIN items : \E i \in DOMAIN items : f[i] = j
BY DEF Orders, Bijection, Injection, Surjection, IsInjective

(* An arrangement takes the items in some order.                            *)
LEMMA ArrangementIs ==
  ASSUME NEW items, NEW s
  PROVE  s \in Arrangements(items) <=> \E f \in Orders(items) : s = Taking(items, f)
BY Zenon DEF Arrangements, Orders, Taking

(* The same items, as many.                                                 *)
LEMMA ArrangementKeeps ==
  ASSUME NEW T, NEW items \in Seq(T), NEW s \in Arrangements(items)
  PROVE  /\ s \in Seq(T) /\ Len(s) = Len(items) /\ DOMAIN s = DOMAIN items
         /\ ToSet(s) = ToSet(items)
         /\ \A i \in DOMAIN s : \E j \in DOMAIN items : s[i] = items[j]
         /\ \A j \in DOMAIN items : \E i \in DOMAIN s : s[i] = items[j]
<1>1. PICK f \in Orders(items) : s = Taking(items, f)  BY ArrangementIs
<1>2. /\ f \in [DOMAIN items -> DOMAIN items]
      /\ \A j \in DOMAIN items : \E i \in DOMAIN items : f[i] = j
  BY OrderIs
<1>3. s = [i \in DOMAIN items |-> items[f[i]]]  BY <1>1 DEF Taking
<1>4. DOMAIN s = DOMAIN items  BY <1>3
<1>5. s \in Seq(T) /\ Len(s) = Len(items)
  <2>1. PICK n \in Nat : n = Len(items) /\ DOMAIN items = 1..n  OBVIOUS
  <2>2. \A i \in 1..n : items[f[i]] \in T  BY <1>2, <2>1
  <2>3. s \in [1..n -> T]  BY <1>3, <2>1, <2>2
  <2> QED  BY <2>1, <2>3
<1>6. \A i \in DOMAIN s : \E j \in DOMAIN items : s[i] = items[j]  BY <1>2, <1>3
<1>7. ASSUME NEW j \in DOMAIN items PROVE \E i \in DOMAIN s : s[i] = items[j]
  BY <1>2, <1>3
<1>8. ToSet(s) = ToSet(items)  BY <1>6, <1>7 DEF ToSet
<1> QED  BY <1>4, <1>5, <1>6, <1>7, <1>8

(* The relation is an equivalence.                                          *)
LEMMA ArrangedAsIs ==
  ASSUME NEW T, NEW items \in Seq(T)
  PROVE  items \in Arrangements(items)
<1> DEFINE f == [i \in DOMAIN items |-> i]
<1>1. f \in Orders(items)
  <2>1. f \in [DOMAIN items -> DOMAIN items] /\ \A i \in DOMAIN items : f[i] = i  OBVIOUS
  <2> HIDE DEF f
  <2> QED  BY <2>1, OrderIs
<1>2. items = Taking(items, f)  BY DEF Taking
<1> QED  BY <1>1, <1>2, ArrangementIs

(* What is an arrangement of the items has the items as one.                *)
LEMMA ArrangedBack ==
  ASSUME NEW T, NEW items \in Seq(T), NEW s \in Arrangements(items)
  PROVE  items \in Arrangements(s)
<1>1. PICK f \in Orders(items) : s = Taking(items, f)  BY ArrangementIs
<1>2. DOMAIN s = DOMAIN items  BY <1>1 DEF Taking
<1>3. /\ f \in [DOMAIN items -> DOMAIN items]
      /\ \A i, j \in DOMAIN items : f[i] = f[j] => i = j
      /\ \A j \in DOMAIN items : \E i \in DOMAIN items : f[i] = j
  BY OrderIs
<1> DEFINE g == [j \in DOMAIN items |-> CHOOSE i \in DOMAIN items : f[i] = j]
<1>4. \A j \in DOMAIN items : g[j] \in DOMAIN items /\ f[g[j]] = j  BY <1>3, Zenon
<1>5. g \in [DOMAIN items -> DOMAIN items]  BY <1>4, Zenon
<1> HIDE DEF g
<1>6. ASSUME NEW i \in DOMAIN items PROVE g[f[i]] = i
  <2>1. f[i] \in DOMAIN items  BY <1>3
  <2>2. g[f[i]] \in DOMAIN items /\ f[g[f[i]]] = f[i]  BY <1>4, <2>1
  <2> QED  BY <1>3, <2>2
<1>7. g \in Orders(s)
  <2>1. \A i, j \in DOMAIN items : g[i] = g[j] => i = j
    <3>1. ASSUME NEW i \in DOMAIN items, NEW j \in DOMAIN items, g[i] = g[j] PROVE i = j
      <4>1. f[g[i]] = i /\ f[g[j]] = j  BY <1>4
      <4> QED  BY <3>1, <4>1
    <3> QED  BY <3>1
  <2>2. ASSUME NEW j \in DOMAIN items PROVE \E i \in DOMAIN items : g[i] = j
    <3>1. f[j] \in DOMAIN items /\ g[f[j]] = j  BY <1>3, <1>6
    <3> QED  BY <3>1
  <2> QED  BY <1>2, <1>5, <2>1, <2>2, OrderIs, Zenon
<1>8. \A j \in DOMAIN items : s[g[j]] = items[j]
  BY <1>1, <1>3, <1>4 DEF Taking
<1>9. items = Taking(s, g)
  <2>1. Taking(s, g) = [j \in DOMAIN items |-> items[j]]
    BY <1>2, <1>8, Zenon DEF Taking
  <2> QED  BY <2>1
<1> QED  BY <1>7, <1>9, ArrangementIs

(* An arrangement of an arrangement is one of the items.                    *)
LEMMA ArrangedOn ==
  ASSUME NEW items, NEW s \in Arrangements(items), NEW t \in Arrangements(s)
  PROVE  t \in Arrangements(items)
<1>1. PICK f \in Orders(items) : s = Taking(items, f)  BY ArrangementIs
<1>2. PICK g \in Orders(s) : t = Taking(s, g)  BY ArrangementIs
<1>3. DOMAIN s = DOMAIN items  BY <1>1 DEF Taking
<1>4. /\ f \in [DOMAIN items -> DOMAIN items]
      /\ \A i, j \in DOMAIN items : f[i] = f[j] => i = j
      /\ \A j \in DOMAIN items : \E i \in DOMAIN items : f[i] = j
  BY OrderIs
<1>5. /\ g \in [DOMAIN items -> DOMAIN items]
      /\ \A i, j \in DOMAIN items : g[i] = g[j] => i = j
      /\ \A j \in DOMAIN items : \E i \in DOMAIN items : g[i] = j
  BY <1>3, OrderIs
<1> DEFINE h == [i \in DOMAIN items |-> f[g[i]]]
<1>6. h \in [DOMAIN items -> DOMAIN items] /\ \A i \in DOMAIN items : h[i] = f[g[i]]
  BY <1>4, <1>5
<1> HIDE DEF h
<1>7. h \in Orders(items)
  <2>1. \A i, j \in DOMAIN items : h[i] = h[j] => i = j  BY <1>4, <1>5, <1>6
  <2>2. ASSUME NEW k \in DOMAIN items PROVE \E i \in DOMAIN items : h[i] = k
    BY <1>4, <1>5, <1>6
  <2> QED  BY <1>6, <2>1, <2>2, OrderIs
<1>8. t = Taking(items, h)
  <2>1. \A i \in DOMAIN items : s[g[i]] = items[h[i]]  BY <1>1, <1>5, <1>6 DEF Taking
  <2> QED  BY <1>2, <1>3, <2>1, Zenon DEF Taking
<1> QED  BY <1>7, <1>8, ArrangementIs

(* And has the arrangements the items have.                                 *)
LEMMA ArrangedAlike ==
  ASSUME NEW T, NEW items \in Seq(T), NEW s \in Arrangements(items)
  PROVE  Arrangements(s) = Arrangements(items)
<1>1. \A t \in Arrangements(s) : t \in Arrangements(items)  BY ArrangedOn
<1>2. items \in Arrangements(s)  BY ArrangedBack
<1>3. \A t \in Arrangements(items) : t \in Arrangements(s)  BY <1>2, ArrangedOn
<1> QED  BY <1>1, <1>3, Zenon

Through(F, items) == [i \in DOMAIN items |-> F[items[i]]]

(* What is computed of each item is arranged as the items are.              *)
LEMMA ArrangedThrough ==
  ASSUME NEW T, NEW items \in Seq(T), NEW s \in Arrangements(items),
         NEW U, NEW F \in [T -> U]
  PROVE  Through(F, s) \in Arrangements(Through(F, items))
<1> DEFINE a == [i \in DOMAIN items |-> F[items[i]]]
           b == [i \in DOMAIN s |-> F[s[i]]]
<1>1. PICK f \in Orders(items) : s = Taking(items, f)  BY ArrangementIs
<1>2. DOMAIN s = DOMAIN items /\ DOMAIN a = DOMAIN items  BY <1>1 DEF Taking
<1>3. f \in Orders(a)  BY <1>2, Zenon DEF Orders
<1>4. f \in [DOMAIN items -> DOMAIN items]  BY OrderIs
<1>5. \A i \in DOMAIN items : F[s[i]] = a[f[i]]  BY <1>1, <1>4 DEF Taking
<1>6. b = Taking(a, f)
  <2> HIDE DEF a
  <2> QED  BY <1>2, <1>5, Zenon DEF Taking
<1> HIDE DEF a, b
<1>7. b \in Arrangements(a)  BY <1>3, <1>6, ArrangementIs
<1> QED  BY <1>7 DEF a, b, Through
-----------------------------------------------------------------------------
(* Sorting: some arrangement is in order, found by selection.               *)

Swapped(items, a, b) ==
  [i \in DOMAIN items |-> items[IF i = a THEN b ELSE IF i = b THEN a ELSE i]]

(* Two items swapped.                                                       *)
LEMMA SwappedIsArranged ==
  ASSUME NEW items, NEW a \in DOMAIN items, NEW b \in DOMAIN items
  PROVE  Swapped(items, a, b) \in Arrangements(items)
<1> DEFINE f == [i \in DOMAIN items |-> IF i = a THEN b ELSE IF i = b THEN a ELSE i]
<1>1. f \in [DOMAIN items -> DOMAIN items]
      /\ \A i \in DOMAIN items : f[i] = IF i = a THEN b ELSE IF i = b THEN a ELSE i
  OBVIOUS
<1>2. Swapped(items, a, b) = Taking(items, f)  BY Zenon DEF Swapped, Taking
<1> HIDE DEF f
<1>3. f \in Orders(items)
  <2>1. \A i \in DOMAIN items : f[f[i]] = i  BY <1>1
  <2>2. \A i, j \in DOMAIN items : f[i] = f[j] => i = j  BY <2>1, Zenon
  <2>3. \A j \in DOMAIN items : \E i \in DOMAIN items : f[i] = j  BY <1>1, <2>1, Zenon
  <2> QED  BY <1>1, <2>2, <2>3, OrderIs, Zenon
<1> QED  BY <1>2, <1>3, ArrangementIs, Zenon

(* One of the items from k on comes before none of the others.              *)
LEMMA FirstFrom ==
  ASSUME NEW s \in Seq(Strings), NEW k \in 1..Len(s)
  PROVE  \E m \in k..Len(s) : \A j \in k..Len(s) : ~Before(s[j], s[m])
<1> DEFINE N == Len(s) - k
           S == {n \in 0..N : \E m \in k..k + n : \A j \in k..k + n : ~Before(s[j], s[m])}
<1>1. N \in Nat /\ k + N = Len(s) /\ \A i \in k..Len(s) : s[i] \in Strings  OBVIOUS
<1>2. 0 \in S
  <2>1. k..k + 0 = {k} /\ k \in k..Len(s) /\ 0 \in 0..N  BY <1>1
  <2>2. ~Before(s[k], s[k])  BY <1>1, <2>1, BeforeIsIrreflexive
  <2> QED  BY <2>1, <2>2
<1>3. ASSUME NEW n \in 1..N, n - 1 \in S PROVE n \in S
  <2>1. PICK m \in k..k + (n - 1) : \A j \in k..k + (n - 1) : ~Before(s[j], s[m])  BY <1>3
  <2>2. /\ m \in k..k + n /\ k + n \in k..k + n /\ n \in 0..N
        /\ \A j \in k..k + n : (j = k + n \/ j \in k..k + (n - 1)) /\ s[j] \in Strings
    BY <1>1
  <2>3. CASE Before(s[k + n], s[m])
    <3>1. ASSUME NEW j \in k..k + n PROVE ~Before(s[j], s[k + n])
      <4>1. CASE j = k + n  BY <2>2, <4>1, BeforeIsIrreflexive
      <4>2. CASE j \in k..k + (n - 1)
        BY <2>1, <2>2, <2>3, <4>2, BeforeIsTransitive
      <4> QED  BY <2>2, <4>1, <4>2
    <3> QED  BY <2>2, <3>1
  <2>4. CASE ~Before(s[k + n], s[m])
    <3>1. ASSUME NEW j \in k..k + n PROVE ~Before(s[j], s[m])  BY <2>1, <2>2, <2>4
    <3> QED  BY <2>2, <3>1
  <2> QED  BY <2>3, <2>4
<1>4. \A n \in 0..N : n \in S
  <2> HIDE DEF S, N
  <2> QED  BY <1>1, <1>2, <1>3, UpTo
<1>5. N \in S
  <2> HIDE DEF S
  <2> QED  BY <1>1, <1>4
<1> QED  BY <1>1, <1>5

Settled(s, k) ==
  \A i, j \in DOMAIN s : i <= k /\ i < j => ~Before(s[j], s[i])

(* Any list of strings can be put in order: place after place receives the  *)
(* first of what is left.                                                   *)
LEMMA SortedExists ==
  ASSUME NEW items \in Seq(Strings)
  PROVE  \E s \in Arrangements(items) : InOrder(s)
<1> DEFINE N == Len(items)
           S == {k \in 0..N : \E s \in Arrangements(items) : Settled(s, k)}
<1>1. N \in Nat /\ DOMAIN items = 1..N  OBVIOUS
<1>2. 0 \in S
  <2>1. Settled(items, 0)  BY <1>1 DEF Settled
  <2>2. 0 \in 0..N  BY <1>1
  <2> QED  BY <2>1, <2>2, ArrangedAsIs
<1>3. ASSUME NEW k \in 1..N, k - 1 \in S PROVE k \in S
  <2>1. PICK s \in Arrangements(items) : Settled(s, k - 1)  BY <1>3
  <2>2. s \in Seq(Strings) /\ Len(s) = N /\ DOMAIN s = 1..N
    BY <1>1, ArrangementKeeps
  <2>3. PICK m \in k..N : \A j \in k..N : ~Before(s[j], s[m])  BY <2>2, FirstFrom
  <2>4. PICK t \in Arrangements(items) : t = Swapped(s, k, m)
    <3>1. k \in DOMAIN s /\ m \in DOMAIN s  BY <1>1, <2>2
    <3>2. Swapped(s, k, m) \in Arrangements(s)  BY <3>1, SwappedIsArranged
    <3> QED  BY <3>2, ArrangedOn
  <2>5. Settled(t, k)
    <3>1. DOMAIN t = 1..N
          /\ \A i \in 1..N : t[i] = s[IF i = k THEN m ELSE IF i = m THEN k ELSE i]
      BY <2>2, <2>4 DEF Swapped
    <3>2. SUFFICES ASSUME NEW i \in 1..N, NEW j \in 1..N, i <= k, i < j
                   PROVE  ~Before(t[j], t[i])
      BY <3>1 DEF Settled
    <3>3. PICK l \in 1..N : t[j] = s[l] /\ (i # k => i < l) /\ (i = k => l \in k..N)
      <4>1. CASE j = k  BY <1>1, <3>1, <3>2, <4>1
      <4>2. CASE j = m /\ j # k  BY <1>1, <3>1, <3>2, <4>2
      <4>3. CASE j # k /\ j # m  BY <1>1, <3>1, <3>2, <4>3
      <4> QED  BY <4>1, <4>2, <4>3
    <3>4. CASE i = k
      <4>1. l \in k..N /\ t[i] = s[m]  BY <3>1, <3>3, <3>4
      <4> QED  BY <2>3, <3>3, <4>1
    <3>5. CASE i # k
      <4>1. t[i] = s[i] /\ i <= k - 1  BY <1>1, <3>1, <3>2, <3>5
      <4> QED  BY <2>1, <2>2, <3>3, <4>1 DEF Settled
    <3> QED  BY <3>4, <3>5
  <2>6. k \in 0..N  BY <1>1
  <2> QED  BY <2>5, <2>6
<1>4. \A k \in 0..N : k \in S
  <2> HIDE DEF S, N
  <2> QED  BY <1>1, <1>2, <1>3, UpTo
<1>5. N \in S
  <2> HIDE DEF S
  <2> QED  BY <1>1, <1>4
<1>6. PICK s \in Arrangements(items) : Settled(s, N)  BY <1>5
<1>7. DOMAIN s = 1..N  BY <1>1, ArrangementKeeps
<1>8. InOrder(s)  BY <1>1, <1>6, <1>7 DEF Settled, InOrder
<1> QED  BY <1>8

(* What is sorted is there, one for one, and in order; and it is the same    *)
(* for the same items in any order.                                          *)
LEMMA SortedIs ==
  ASSUME NEW items \in Seq(Strings)
  PROVE  Sorted(items) \in Arrangements(items) /\ InOrder(Sorted(items))
BY SortedExists, Zenon DEF Sorted

(* There is one order only, so that the arrangement does not matter.        *)
LEMMA SortedAlike ==
  ASSUME NEW items \in Seq(Strings), NEW s \in Arrangements(items)
  PROVE  Sorted(s) = Sorted(items)
<1> DEFINE First(A) == CHOOSE t \in A : InOrder(t)
<1>1. Sorted(s) = First(Arrangements(s)) /\ Sorted(items) = First(Arrangements(items))
  BY DEF Sorted
<1>2. Arrangements(s) = Arrangements(items)  BY ArrangedAlike
<1> HIDE DEF First
<1> QED  BY <1>1, <1>2

-----------------------------------------------------------------------------
(* The elements of a finite set, in some order.                             *)
LEMMA EnumeratedOnce ==
  ASSUME NEW S, IsFiniteSet(S), NEW f \in SetToSeqs(S)
  PROVE  f \in Seq(S) /\ Distinct(f) /\ ToSet(f) = S
<1> DEFINE N == Cardinality(S)
<1>1. N \in Nat /\ f \in [1..N -> S] /\ \A i, j \in 1..N : i # j => f[i] # f[j]
  BY FS_CardinalityType DEF SetToSeqs
<1>2. f \in Injection(1..N, S)  BY <1>1, Fun_IsInj
<1>3. f \in Surjection(1..N, S)
  <2>1. IsFiniteSet(1..N) /\ Cardinality(1..N) = N
    <3>1. 0 \in Int /\ 1 \in Int /\ N \in Int  BY <1>1
    <3> QED  BY <1>1, <3>1, FS_Interval
  <2>2. Cardinality(1..N) = Cardinality(S)  BY <2>1
  <2> HIDE DEF N
  <2> QED  BY <1>2, <2>2, FS_Injection
<1>4. \A x \in S : \E i \in 1..N : f[i] = x  BY <1>3, Zenon DEF Surjection
<1>5. DOMAIN f = 1..N  BY <1>1
<1>6. ToSet(f) = S  BY <1>1, <1>4, <1>5 DEF ToSet
<1> QED  BY <1>1, <1>5, <1>6 DEF Distinct

(* The list of a finite set has each of its elements once.                  *)
LEMMA EnumeratedIs ==
  ASSUME NEW S, IsFiniteSet(S)
  PROVE  SetToSeq(S) \in Seq(S) /\ Distinct(SetToSeq(S)) /\ ToSet(SetToSeq(S)) = S
<1> DEFINE N == Cardinality(S)
<1>1. PICK b : b \in Bijection(1..N, S)  BY FS_CardinalityType DEF ExistsBijection
<1>2. b \in [1..N -> S] /\ IsInjective(b)  BY <1>1 DEF Bijection, Injection
<1>3. SetToSeq(S) \in [1..N -> S] /\ IsInjective(SetToSeq(S))
  BY <1>2, Zenon DEF SetToSeq
<1>4. SetToSeq(S) \in SetToSeqs(S)  BY <1>3 DEF SetToSeqs, IsInjective
<1> QED  BY <1>4, EnumeratedOnce
-----------------------------------------------------------------------------
(* Words, and what is refused.                                              *)

AllWords == {WordList[i] : i \in DOMAIN WordList}

(* A word of the schema is a string without separators.                     *)
LEMMA WordIs ==
  ASSUME NEW w \in AllWords
  PROVE  /\ Word(w) \in Strings /\ Word(w) # <<>>
         /\ Free(Word(w), US) /\ Free(Word(w), RS) /\ Free(Word(w), Comma)
<1> DEFINE at == CHOOSE i \in DOMAIN WordList : WordList[i] = w
<1>1. at \in DOMAIN WordList  BY DEF AllWords
<1>2. DOMAIN WordList = 1..32  BY DEF WordList
<1> HIDE DEF at
<1>3. PICK c \in 65..96 : Word(w) = <<c>>
  <2>1. Word(w) = <<64 + at>>  BY DEF Word, at
  <2> QED  BY <1>1, <1>2, <2>1
<1> QED  BY <1>3 DEF Strings, Bytes, Free, US, RS, Comma

(* The words of every domain are words of the schema.                       *)
LEMMA WordsAre ==
  /\ TxnVerbs \cup HoldVerbs \cup {"apt.configure", "apt.update"} \subseteq AllWords
  /\ Actions \cup Flags \cup CfgStates \cup HoldStates \cup OptKeys \subseteq AllWords
  /\ {"yes", "no", "pending", "BEGIN", "END", "inline-sha256:"} \subseteq AllWords
<1>1. DOMAIN WordList = 1..32  BY DEF WordList
<1>2. \A i \in 1..32 : WordList[i] \in AllWords  BY <1>1 DEF AllWords
<1>3. /\ WordList[1] = "apt.install" /\ WordList[2] = "apt.remove" /\ WordList[3] = "apt.purge"
      /\ WordList[4] = "apt.upgrade" /\ WordList[5] = "apt.dist_upgrade"
      /\ WordList[6] = "apt.hold" /\ WordList[7] = "apt.unhold"
      /\ WordList[8] = "apt.configure" /\ WordList[9] = "apt.update"
      /\ WordList[10] = "install" /\ WordList[11] = "upgrade" /\ WordList[12] = "downgrade"
      /\ WordList[13] = "remove" /\ WordList[14] = "purge" /\ WordList[15] = "hold"
      /\ WordList[16] = "auto" /\ WordList[17] = "essential" /\ WordList[18] = "protected"
      /\ WordList[19] = "half-installed" /\ WordList[20] = "unpacked"
      /\ WordList[21] = "half-configured" /\ WordList[22] = "triggers-awaited"
      /\ WordList[23] = "triggers-pending" /\ WordList[24] = "signed-by"
      /\ WordList[25] = "architectures" /\ WordList[26] = "trusted"
      /\ WordList[27] = "yes" /\ WordList[28] = "no" /\ WordList[29] = "pending"
      /\ WordList[30] = "BEGIN" /\ WordList[31] = "END" /\ WordList[32] = "inline-sha256:"
  BY DEF WordList
<1>4. \A w \in {"apt.install", "apt.remove", "apt.purge", "apt.upgrade", "apt.dist_upgrade",
                "apt.hold", "apt.unhold", "apt.configure", "apt.update"} : w \in AllWords
  BY <1>2, <1>3
<1>5. \A w \in {"install", "upgrade", "downgrade", "remove", "purge", "hold", "auto",
                "essential", "protected"} : w \in AllWords
  BY <1>2, <1>3
<1>6. \A w \in {"half-installed", "unpacked", "half-configured", "triggers-awaited",
                "triggers-pending", "signed-by", "architectures", "trusted"} : w \in AllWords
  BY <1>2, <1>3
<1>7. \A w \in {"yes", "no", "pending", "BEGIN", "END", "inline-sha256:"} : w \in AllWords
  BY <1>2, <1>3
<1> QED  BY <1>4, <1>5, <1>6, <1>7
         DEF TxnVerbs, HoldVerbs, Actions, Flags, CfgStates, HoldStates, OptKeys

(* The separators are bytes, apart from each other.                         *)
LEMMA SeparatorsAre ==
  /\ US \in Bytes /\ RS \in Bytes /\ Comma \in Bytes /\ Equals \in Bytes /\ Space \in Bytes
  /\ US # RS /\ US # Comma /\ RS # Comma /\ <<>> \in Strings /\ Free(<<>>, US)
  /\ Free(<<>>, RS) /\ Free(<<>>, Comma) /\ Free(<<Equals>>, US) /\ Free(<<Equals>>, RS)
  /\ Free(<<Equals>>, Comma) /\ <<Equals>> \in Strings
BY DEF US, RS, Comma, Equals, Space, Bytes, Strings, Free

(* A refused result is no string.                                           *)
LEMMA RefusedIsNoString == Refused \notin Strings
BY DEF Refused, Strings, Bytes

(* A field as it may stand in a row.                                        *)
LEMMA FieldIsFree ==
  ASSUME NEW s \in Strings, FieldOk(s)
  PROVE  /\ Free(s, US) /\ Free(s, RS) /\ Free(s, Comma) /\ Free(s, Equals)
         /\ Json(s) = s
BY DEF FieldOk, Free, Json

(* A bounded string is there whole or refused.                              *)
LEMMA BoundedIs ==
  ASSUME NEW s, NEW nul
  PROVE  Bounded(s, nul) \in {s, Refused}
BY DEF Bounded

(* What is joined is empty only if it is one empty part.                    *)
LEMMA JoinedEmpty ==
  ASSUME NEW sep \in Bytes, NEW parts \in Seq(Strings), parts # <<>>,
         \A i \in DOMAIN parts : Free(parts[i], sep), Joined(sep, parts) = <<>>
  PROVE  parts = << <<>> >>
<1>1. <<>> \in Strings /\ << <<>> >> = Append(<<>>, <<>>) /\ <<>> \in Seq(Strings)
  BY DEF Strings
<1>2. LastPiece(<<>>, sep, <<>>, <<>>)  BY <1>1, PiecesNone, Zenon DEF LastPiece
<1>3. Pieces(Joined(sep, parts), sep) = <<>> \o parts
  BY <1>1, <1>2, PiecesOfJoined, Zenon DEF Joined
<1>4. <<>> \o parts = parts  BY NothingAdded
<1> QED  BY <1>3, <1>4, PiecesNone, Zenon
-----------------------------------------------------------------------------
(* The sub-lists of a row.                                                  *)

(* A list that was not refused has fields of its domain, each once.         *)
LEMMA ListIs ==
  ASSUME NEW items \in Seq(Strings), NEW allowed, JoinSorted(items, allowed) # Refused
  PROVE  /\ JoinSorted(items, allowed) = Joined(Comma, Sorted(items))
         /\ Distinct(items)
         /\ \A i \in DOMAIN items : FieldOk(items[i]) /\ items[i] \in allowed
<1>1. Distinct(items) /\ \A i \in DOMAIN items : FieldOk(items[i]) /\ items[i] \in allowed
  BY Zenon DEF JoinSorted
<1>2. JoinSorted(items, allowed) = Bounded(Joined(Comma, Sorted(items)), 1)
  BY <1>1, Zenon DEF JoinSorted
<1> QED  BY <1>1, <1>2, BoundedIs, Zenon

(* The parts of a list after sorting are fields too.                        *)
LEMMA SortedFields ==
  ASSUME NEW items \in Seq(Strings), NEW c, \A i \in DOMAIN items : Free(items[i], c)
  PROVE  /\ Sorted(items) \in Seq(Strings)
         /\ \A i \in DOMAIN Sorted(items) : Free(Sorted(items)[i], c)
<1>1. Sorted(items) \in Arrangements(items)  BY SortedIs
<1> QED  BY <1>1, ArrangementKeeps

(* A list is a string without the separators of rows and fields.            *)
LEMMA ListType ==
  ASSUME NEW items \in Seq(Strings), NEW allowed, JoinSorted(items, allowed) # Refused
  PROVE  /\ JoinSorted(items, allowed) \in Strings
         /\ Free(JoinSorted(items, allowed), US) /\ Free(JoinSorted(items, allowed), RS)
<1>1. \A i \in DOMAIN items : items[i] \in Strings /\ FieldOk(items[i])  BY ListIs
<1>2. \A i \in DOMAIN items : Free(items[i], US) /\ Free(items[i], RS)
  BY <1>1, FieldIsFree
<1>3. Sorted(items) \in Seq(Strings)
      /\ \A i \in DOMAIN Sorted(items) : Free(Sorted(items)[i], US)
  BY <1>2, SortedFields
<1>4. \A i \in DOMAIN Sorted(items) : Free(Sorted(items)[i], RS)  BY <1>2, SortedFields
<1>5. Joined(Comma, Sorted(items)) \in Strings
  BY <1>3, SeparatorsAre, JoinedType DEF Joined
<1>6. Free(Joined(Comma, Sorted(items)), US) /\ Free(Joined(Comma, Sorted(items)), RS)
  BY <1>3, <1>4, SeparatorsAre, JoinedFree DEF Joined
<1> QED  BY <1>5, <1>6, ListIs

(* A list is split into what it was made of.                                *)
LEMMA ListSplits ==
  ASSUME NEW items \in Seq(Strings), NEW allowed, JoinSorted(items, allowed) # Refused,
         items # << <<>> >>
  PROVE  SplitOn(JoinSorted(items, allowed), Comma) \in Arrangements(items)
<1>1. \A i \in DOMAIN items : items[i] \in Strings /\ FieldOk(items[i])  BY ListIs
<1>2. \A i \in DOMAIN items : Free(items[i], Comma)  BY <1>1, FieldIsFree
<1> DEFINE parts == Sorted(items)
<1>3. parts \in Seq(Strings) /\ \A i \in DOMAIN parts : Free(parts[i], Comma)
  BY <1>2, SortedFields
<1>4. parts \in Arrangements(items)  BY SortedIs
<1>5. parts # << <<>> >>
  <2>1. /\ Len(parts) = Len(items)
        /\ DOMAIN parts = DOMAIN items
        /\ \A i \in DOMAIN parts : \E j \in DOMAIN items : parts[i] = items[j]
        /\ \A j \in DOMAIN items : \E i \in DOMAIN parts : parts[i] = items[j]
    BY <1>4, ArrangementKeeps
  <2> HIDE DEF parts
  <2>2. SUFFICES ASSUME parts = << <<>> >> PROVE FALSE  OBVIOUS
  <2>3. Len(items) = 1 /\ items[1] = <<>>  BY <2>1, <2>2
  <2> QED  BY <2>3
<1> HIDE DEF parts
<1>6. SplitOn(Joined(Comma, parts), Comma) = parts
  <2>1. parts = <<>> \/ Joined(Comma, parts) # <<>>
    BY <1>3, <1>5, SeparatorsAre, JoinedEmpty, Zenon
  <2> QED  BY <1>3, <2>1, SeparatorsAre, SplitOfJoined, Zenon
<1> QED  BY <1>4, <1>6, ListIs, Zenon DEF parts

(* A set of flags or components is shown as it is.                          *)
LEMMA CsvOfSet ==
  ASSUME NEW S \in SUBSET Strings, IsFiniteSet(S), <<>> \notin S, NEW allowed,
         JoinSorted(SetToSeq(S), allowed) # Refused
  PROVE  CsvArray(JoinSorted(SetToSeq(S), allowed)) = S
<1> DEFINE items == SetToSeq(S)
<1>1. items \in Seq(S) /\ ToSet(items) = S  BY EnumeratedIs
<1>2. items \in Seq(Strings)  BY <1>1
<1> HIDE DEF items
<1>3. items # << <<>> >>
  <2>1. SUFFICES ASSUME items = << <<>> >> PROVE FALSE  OBVIOUS
  <2>2. items[1] = <<>> /\ 1 \in DOMAIN items  BY <2>1
  <2> QED  BY <1>1, <2>2 DEF ToSet
<1>4. JoinSorted(items, allowed) # Refused  BY DEF items
<1> DEFINE parts == SplitOn(JoinSorted(items, allowed), Comma)
<1>5. parts \in Arrangements(items)  BY <1>2, <1>3, <1>4, ListSplits
<1> HIDE DEF parts
<1>6. ToSet(parts) = S  BY <1>1, <1>2, <1>5, ArrangementKeeps
<1>7. \A s \in S : Json(s) = s
  <2>1. \A i \in DOMAIN items : FieldOk(items[i])  BY <1>2, <1>4, ListIs
  <2>2. \A s \in S : FieldOk(s)  BY <1>1, <2>1 DEF ToSet
  <2> QED  BY <2>2, FieldIsFree
<1>8. {Json(s) : s \in S} = S  BY <1>7
<1>9. CsvArray(JoinSorted(items, allowed)) = {Json(s) : s \in ToSet(parts)}
  BY Zenon DEF CsvArray, parts
<1> QED  BY <1>6, <1>8, <1>9, Zenon DEF items
-----------------------------------------------------------------------------
(* Options, joined as k=v.                                                  *)

KeyValue(o) == o[1] \o <<Equals>> \o o[2]
KeyValues(opts) == {KeyValue(o) : o \in opts}

Pairs == Strings \X Strings

(* An option k=v: its first "=" is the one between the two.                 *)
LEMMA KeyValueIs ==
  ASSUME NEW o \in Pairs, FieldOk(o[1]), FieldOk(o[2])
  PROVE  /\ KeyValue(o) \in Strings /\ KeyValue(o) # <<>>
         /\ Free(KeyValue(o), US) /\ Free(KeyValue(o), RS) /\ Free(KeyValue(o), Comma)
         /\ RunEnd(KeyValue(o), 1, Bytes \ {Equals}) = Len(o[1]) + 1
         /\ SubSeq(KeyValue(o), 1, Len(o[1])) = o[1]
         /\ SubSeq(KeyValue(o), Len(o[1]) + 2, Len(KeyValue(o))) = o[2]
<1>1. PICK k \in Strings : k = o[1]  BY DEF Pairs
<1>2. PICK v \in Strings : v = o[2]  BY DEF Pairs
<1>3. PICK s : s = k \o <<Equals>> \o v  OBVIOUS
<1>4. s = KeyValue(o)  BY <1>1, <1>2, <1>3, Zenon DEF KeyValue
<1>5. s \in Strings
  BY <1>3, SeparatorsAre, StringsJoin
<1>6. /\ Len(k) \in Nat /\ Len(v) \in Nat /\ Len(s) = Len(k) + 1 + Len(v)
      /\ \A i \in 1..Len(k) : s[i] = k[i]
      /\ s[Len(k) + 1] = Equals
      /\ \A i \in 1..Len(v) : s[Len(k) + 1 + i] = v[i]
  BY <1>3 DEF Strings
<1>7. s # <<>>  BY <1>6
<1>8. ASSUME NEW c, Free(k, c), Free(v, c), Free(<<Equals>>, c) PROVE Free(s, c)
  BY <1>3, <1>8, SeparatorsAre, FreeJoin, StringsJoin
<1>9. Free(s, US) /\ Free(s, RS) /\ Free(s, Comma)
  BY <1>1, <1>2, <1>8, SeparatorsAre, FieldIsFree
<1>10. RunEnd(s, 1, Bytes \ {Equals}) = Len(k) + 1
  <2>1. Free(k, Equals)  BY <1>1, FieldIsFree
  <2>2. IsRunEnd(s, 1, Bytes \ {Equals}, Len(k) + 1)
    <3>1. \A i \in 1..Len(k) : k[i] \in Bytes /\ k[i] # Equals  BY <2>1 DEF Strings, Free
    <3>2. Len(k) + 1 - 1 = Len(k)  BY <1>6
    <3> QED  BY <1>6, <3>1, <3>2 DEF IsRunEnd
  <2>3. Len(k) + 1 \in 1..Len(s) + 1 /\ 1 \in 1..Len(s) + 1  BY <1>6
  <2> QED  BY <1>5, <2>2, <2>3, RunEndIs, Zenon
<1>11. SubSeq(s, 1, Len(k)) = k  
  <2>1. Len(SubSeq(s, 1, Len(k))) = Len(k) /\ SubSeq(s, 1, Len(k)) \in Strings
        /\ \A i \in 1..Len(k) : SubSeq(s, 1, Len(k))[i] = k[i]
    BY <1>5, <1>6 DEF Strings
  <2> QED  BY <2>1, SeqEqual DEF Strings
<1>12. SubSeq(s, Len(k) + 2, Len(s)) = v
  <2>1. Len(SubSeq(s, Len(k) + 2, Len(s))) = Len(v) /\ SubSeq(s, Len(k) + 2, Len(s)) \in Strings
        /\ \A i \in 1..Len(v) : SubSeq(s, Len(k) + 2, Len(s))[i] = v[i]
    BY <1>5, <1>6 DEF Strings
  <2> QED  BY <2>1, SeqEqual DEF Strings
<1> QED  BY <1>1, <1>2, <1>4, <1>5, <1>7, <1>9, <1>10, <1>11, <1>12, Zenon

(* Finitely many options make finitely many k=v.                            *)
LEMMA KeyValuesFinite ==
  ASSUME NEW opts, IsFiniteSet(opts)
  PROVE  IsFiniteSet(KeyValues(opts))
<1> DEFINE f == [o \in opts |-> KeyValue(o)]
<1>1. f \in [opts -> KeyValues(opts)]  BY Zenon DEF KeyValues
<1>2. \A t \in KeyValues(opts) : \E o \in opts : f[o] = t  BY Zenon DEF KeyValues
<1>3. f \in Surjection(opts, KeyValues(opts))
  <2> HIDE DEF f
  <2> QED  BY <1>1, <1>2, Fun_IsSurj
<1> HIDE DEF f
<1> QED  BY <1>3, FS_Surjection

(* Options that were not refused have fields for keys and values.           *)
LEMMA OptionsAre ==
  ASSUME NEW opts \in SUBSET Pairs, JoinSortedKv(opts) # Refused
  PROVE  /\ \A o \in opts : FieldOk(o[1]) /\ FieldOk(o[2])
         /\ JoinSortedKv(opts) = Joined(Comma, Sorted(SetToSeq(KeyValues(opts))))
<1>1. \A o \in opts : FieldOk(o[1]) /\ FieldOk(o[2])  BY Zenon DEF JoinSortedKv
<1>2. JoinSortedKv(opts) = Bounded(Joined(Comma, Sorted(SetToSeq(KeyValues(opts)))), 1)
  BY Zenon DEF JoinSortedKv, KeyValues, KeyValue
<1> QED  BY <1>1, <1>2, BoundedIs, Zenon

(* The list of options splits into the options.                             *)
LEMMA OptionsSplit ==
  ASSUME NEW opts \in SUBSET Pairs, IsFiniteSet(opts), JoinSortedKv(opts) # Refused
  PROVE  /\ JoinSortedKv(opts) \in Strings
         /\ Free(JoinSortedKv(opts), US) /\ Free(JoinSortedKv(opts), RS)
         /\ ToSet(SplitOn(JoinSortedKv(opts), Comma)) = KeyValues(opts)
<1> DEFINE items == SetToSeq(KeyValues(opts))
           parts == Sorted(items)
<1>1. \A o \in opts : o \in Pairs /\ FieldOk(o[1]) /\ FieldOk(o[2])  BY OptionsAre
<1>2. \A s \in KeyValues(opts) : /\ s \in Strings /\ s # <<>>
                                 /\ Free(s, US) /\ Free(s, RS) /\ Free(s, Comma)
  BY <1>1, KeyValueIs DEF KeyValues
<1>3. items \in Seq(KeyValues(opts)) /\ ToSet(items) = KeyValues(opts)
  BY KeyValuesFinite, EnumeratedIs
<1> HIDE DEF items
<1>4. items \in Seq(Strings) /\ \A i \in DOMAIN items : items[i] \in KeyValues(opts)
  BY <1>2, <1>3
<1>5. parts \in Arrangements(items)  BY <1>4, SortedIs
<1> HIDE DEF parts
<1>6. /\ parts \in Seq(Strings) /\ ToSet(parts) = KeyValues(opts)
      /\ \A i \in DOMAIN parts : parts[i] \in KeyValues(opts)
  BY <1>3, <1>4, <1>5, ArrangementKeeps
<1>7. JoinSortedKv(opts) = Joined(Comma, parts)  BY OptionsAre DEF parts, items
<1>8. Joined(Comma, parts) \in Strings  BY <1>6, SeparatorsAre, JoinedType DEF Joined
<1>9. Free(Joined(Comma, parts), US) /\ Free(Joined(Comma, parts), RS)
  <2>1. \A i \in DOMAIN parts : Free(parts[i], US) /\ Free(parts[i], RS)  BY <1>2, <1>6
  <2> QED  BY <1>6, <2>1, SeparatorsAre, JoinedFree DEF Joined
<1>10. SplitOn(Joined(Comma, parts), Comma) = parts
  <2>1. \A i \in DOMAIN parts : Free(parts[i], Comma)  BY <1>2, <1>6
  <2>2. parts # << <<>> >>
    <3>1. SUFFICES ASSUME parts = << <<>> >> PROVE FALSE  OBVIOUS
    <3>2. parts[1] = <<>> /\ 1 \in DOMAIN parts  BY <3>1
    <3> QED  BY <1>2, <1>6, <3>2
  <2>3. parts = <<>> \/ Joined(Comma, parts) # <<>>
    BY <1>6, <2>1, <2>2, SeparatorsAre, JoinedEmpty, Zenon
  <2> QED  BY <1>6, <2>1, <2>3, SeparatorsAre, SplitOfJoined, Zenon
<1> QED  BY <1>6, <1>7, <1>8, <1>9, <1>10

(* The options of a source are shown as they are.                           *)
LEMMA OptionsShown ==
  ASSUME NEW opts \in SUBSET Pairs, IsFiniteSet(opts), JoinSortedKv(opts) # Refused
  PROVE  OptionsObject(JoinSortedKv(opts)) = opts
<1> DEFINE Member(kv) == LET eq == RunEnd(kv, 1, Bytes \ {Equals})
                         IN  <<Json(SubSeq(kv, 1, eq - 1)), Json(SubSeq(kv, eq + 1, Len(kv)))>>
<1>1. OptionsObject(JoinSortedKv(opts)) = {Member(kv) : kv \in KeyValues(opts)}
  BY OptionsSplit, Zenon DEF OptionsObject
<1>2. ASSUME NEW o \in opts PROVE Member(KeyValue(o)) = o
  <2>1. o \in Pairs /\ FieldOk(o[1]) /\ FieldOk(o[2])  BY OptionsAre
  <2>2. /\ RunEnd(KeyValue(o), 1, Bytes \ {Equals}) = Len(o[1]) + 1
        /\ SubSeq(KeyValue(o), 1, Len(o[1])) = o[1]
        /\ SubSeq(KeyValue(o), Len(o[1]) + 2, Len(KeyValue(o))) = o[2]
    BY <2>1, KeyValueIs
  <2>3. Json(o[1]) = o[1] /\ Json(o[2]) = o[2] /\ o = <<o[1], o[2]>>
    BY <2>1, FieldIsFree DEF Pairs
  <2>4. Len(o[1]) + 1 - 1 = Len(o[1]) /\ Len(o[1]) + 1 + 1 = Len(o[1]) + 2
    BY <2>1 DEF Pairs, Strings
  <2>5. PICK e : e = RunEnd(KeyValue(o), 1, Bytes \ {Equals})  OBVIOUS
  <2>6. e - 1 = Len(o[1]) /\ e + 1 = Len(o[1]) + 2  BY <2>2, <2>4, <2>5
  <2>7. /\ Json(SubSeq(KeyValue(o), 1, e - 1)) = o[1]
        /\ Json(SubSeq(KeyValue(o), e + 1, Len(KeyValue(o)))) = o[2]
    BY <2>2, <2>3, <2>6, Zenon
  <2> QED  BY <2>3, <2>5, <2>7, Zenon
<1> HIDE DEF Member
<1>3. {Member(kv) : kv \in KeyValues(opts)} = opts  BY <1>2, Zenon DEF KeyValues
<1> QED  BY <1>1, <1>3
-----------------------------------------------------------------------------
(* Rows.                                                                    *)

(* A row that was not refused has fields of its domain.                     *)
LEMMA RowIs ==
  ASSUME NEW ok, NEW fields, NEW lists, Row(ok, fields, lists) # Refused
  PROVE  /\ Row(ok, fields, lists) = Joined(US, fields \o lists)
         /\ ok /\ \A i \in DOMAIN fields : FieldOk(fields[i])
         /\ \A i \in DOMAIN lists : lists[i] # Refused
<1>1. /\ ok /\ \A i \in DOMAIN fields : FieldOk(fields[i])
      /\ \A i \in DOMAIN lists : lists[i] # Refused
  BY Zenon DEF Row
<1>2. Row(ok, fields, lists) = Bounded(Joined(US, fields \o lists), 1)
  BY <1>1, Zenon DEF Row
<1> QED  BY <1>1, <1>2, BoundedIs, Zenon

(* A row of two fields or more is split into them.                          *)
LEMMA RowSplits ==
  ASSUME NEW parts \in Seq(Strings), Len(parts) > 1,
         \A i \in DOMAIN parts : Free(parts[i], US) /\ Free(parts[i], RS)
  PROVE  /\ Joined(US, parts) \in Strings /\ Free(Joined(US, parts), RS)
         /\ SplitOn(Joined(US, parts), US) = parts
<1>1. parts # <<>> /\ parts # << <<>> >>
  <2>1. parts # <<>>  OBVIOUS
  <2>2. ASSUME parts = << <<>> >> PROVE FALSE
    <3>1. Len(parts) = 1  BY <2>2
    <3> QED  BY <3>1
  <2> QED  BY <2>1, <2>2
<1>2. Joined(US, parts) \in Strings  BY SeparatorsAre, JoinedType DEF Joined
<1>3. Free(Joined(US, parts), RS)  BY SeparatorsAre, JoinedFree DEF Joined
<1>4. Joined(US, parts) # <<>>  BY <1>1, SeparatorsAre, JoinedEmpty, Zenon
<1>5. SplitOn(Joined(US, parts), US) = parts  BY <1>4, SeparatorsAre, SplitOfJoined, Zenon
<1> QED  BY <1>2, <1>3, <1>5
-----------------------------------------------------------------------------
(* The records a plan is made of: their sets are finite, no component is    *)
(* empty.                                                                   *)

PlanRecords(verb) ==
  {r \in RecordsOf(verb) :
     /\ verb \in TxnVerbs => IsFiniteSet(r.flags)
     /\ verb = "apt.update" => /\ IsFiniteSet(r.components) /\ <<>> \notin r.components
                               /\ IsFiniteSet(r.options)}

PlanVerbs == TxnVerbs \cup HoldVerbs \cup {"apt.update", "apt.configure"}

(* The fields of a row.                                                     *)
FieldsOf(verb, r) ==
  CASE verb \in TxnVerbs ->
         <<r.package, r.architecture, r.action, r.from_version, r.to_version,
           JoinSorted(SetToSeq(r.flags), Words(Flags))>>
    [] verb \in HoldVerbs -> <<r.package, r.from_state, r.to_state>>
    [] verb = "apt.update" ->
         <<r.uri, r.suite, JoinSorted(SetToSeq(r.components), Strings), JoinSortedKv(r.options)>>
    [] verb = "apt.configure" -> <<r.package, r.architecture, r.current_version, r.state>>

IsRow(row, fields) ==
  /\ row \in Strings /\ Free(row, RS) /\ SplitOn(row, US) = fields

(* When a sequence is the concatenation of two.                             *)
LEMMA ConcatIs ==
  ASSUME NEW T, NEW s \in Seq(T), NEW t \in Seq(T), NEW u \in Seq(T), 
         Len(u) = Len(s) + Len(t),
         \A i \in 1..Len(s) : u[i] = s[i], \A i \in 1..Len(t) : u[Len(s) + i] = t[i]
  PROVE  s \o t = u
<1> DEFINE v == s \o t
<1>1. v \in Seq(T) /\ Len(v) = Len(s) + Len(t)  OBVIOUS
<1>2. \A i \in 1..Len(s) : v[i] = s[i]   OBVIOUS
<1>3. \A i \in 1..Len(t) : v[Len(s) + i] = t[i]   OBVIOUS
<1> HIDE DEF v
<1>4. ASSUME NEW i \in 1..Len(s) + Len(t) PROVE v[i] = u[i]
  <2>1. CASE i <= Len(s) BY <1>2, <2>1
  <2>2. CASE i > Len(s)
    <3>1. PICK k \in 1..Len(t) : i = Len(s) + k
      <4>1. i - Len(s) \in 1..Len(t) /\ i = Len(s) + (i - Len(s)) BY <2>2
      <4> QED BY <4>1
    <3> QED BY <1>3, <3>1
  <2> QED BY <2>1, <2>2
<1>5. v = u BY <1>1, <1>4
<1> QED BY <1>5 DEF v


(* Two fields and two lists, five fields and one: one tuple. *)
LEMMA TwoAndTwo ==
  ASSUME NEW a \in Strings, NEW b \in Strings, NEW c \in Strings, NEW d \in Strings
  PROVE <<a,b>> \o <<c,d>> = <<a,b,c,d>>
<1> DEFINE s == <<a,b>> t == <<c,d>> u == <<a,b,c,d>>
<1>1. s \in Seq(Strings) /\ Len(s) = 2 /\ s[1] = a /\ s[2] = b OBVIOUS
<1>2. t \in Seq(Strings) /\ Len(t) = 2 /\ t[1] = c /\ t[2] = d OBVIOUS
<1>3. u \in Seq(Strings) /\ Len(u) = 4 /\ u[1] = a /\ u[2] = b OBVIOUS
<1>31. u[3] = c /\ u[4] = d OBVIOUS
<1> HIDE DEF s, t, u
<1>4. Len(u) = Len(s) + Len(t) BY <1>1, <1>2, <1>3
<1>5. \A i \in 1..Len(s) : u[i] = s[i] BY <1>1, <1>3
<1>6. \A i \in 1..Len(t) : u[Len(s) + i] = t[i] BY <1>1, <1>2, <1>31
<1>7. s \o t = u BY <1>1, <1>2, <1>3, <1>4, <1>5, <1>6, ConcatIs, Zenon
<1> QED BY <1>7 DEF s, t, u

(* No verb is of two families.                                              *)
LEMMA VerbsAreApart ==
  ASSUME NEW verb \in PlanVerbs
  PROVE  \/ /\ verb \in TxnVerbs
            /\ verb \notin HoldVerbs /\ verb # "apt.update" /\ verb # "apt.configure"
         \/ /\ verb \in HoldVerbs
            /\ verb \notin TxnVerbs /\ verb # "apt.update" /\ verb # "apt.configure"
         \/ verb = "apt.update" /\ verb \notin TxnVerbs /\ verb \notin HoldVerbs
         \/ verb = "apt.configure" /\ verb \notin TxnVerbs /\ verb \notin HoldVerbs
BY DEF PlanVerbs, TxnVerbs, HoldVerbs

(* No word is empty.                                                        *)
LEMMA WordsNotEmpty ==
  ASSUME NEW S \in SUBSET AllWords
  PROVE  <<>> \notin Words(S) /\ Words(S) \subseteq Strings
BY WordIs DEF Words

(* The row of a change: fields that no separator cuts, and flags that are   *)
(* the flags again when split.                                              *)
LEMMA TxnRowIs ==
  ASSUME NEW r \in TxnRecords, IsFiniteSet(r.flags), TxnRow(r) # Refused
  PROVE  /\ IsRow(TxnRow(r), <<r.package, r.architecture, r.action, r.from_version,
                               r.to_version, JoinSorted(SetToSeq(r.flags), Words(Flags))>>)
         /\ Json(r.package) = r.package /\ Json(r.architecture) = r.architecture
         /\ Json(r.action) = r.action /\ Json(r.from_version) = r.from_version
         /\ Json(r.to_version) = r.to_version
         /\ CsvArray(JoinSorted(SetToSeq(r.flags), Words(Flags))) = r.flags
<1> DEFINE flags == JoinSorted(SetToSeq(r.flags), Words(Flags))
           fields == <<r.package, r.architecture, r.action, r.from_version, r.to_version>>
           parts == <<r.package, r.architecture, r.action, r.from_version, r.to_version, flags>>
<1>1. /\ r.package \in Strings /\ r.architecture \in Strings /\ r.action \in Strings
      /\ r.from_version \in Strings /\ r.to_version \in Strings
      /\ r.flags \in SUBSET Strings
  BY DEF TxnRecords
<1>2. TxnRow(r) = Row(r.action \in Words(Actions), fields, <<flags>>)  BY DEF TxnRow
<1> HIDE DEF flags
<1>3. /\ TxnRow(r) = Joined(US, fields \o <<flags>>)
      /\ \A i \in DOMAIN fields : FieldOk(fields[i])
      /\ \A i \in DOMAIN <<flags>> : <<flags>>[i] # Refused
  <2> HIDE DEF fields
  <2> QED  BY <1>2, RowIs, Zenon
<1>4. flags # Refused
  <2>1. 1 \in DOMAIN <<flags>> /\ <<flags>>[1] = flags  OBVIOUS
  <2> QED  BY <1>3, <2>1, Zenon
<1>5. /\ FieldOk(r.package) /\ FieldOk(r.architecture) /\ FieldOk(r.action)
      /\ FieldOk(r.from_version) /\ FieldOk(r.to_version)
  <2>1. DOMAIN fields = 1..5 /\ fields[1] = r.package /\ fields[2] = r.architecture
        /\ fields[3] = r.action /\ fields[4] = r.from_version /\ fields[5] = r.to_version
    OBVIOUS
  <2> HIDE DEF fields
  <2>2. \A i \in 1..5 : FieldOk(fields[i])  BY <1>3, <2>1
  <2> QED  BY <2>1, <2>2
<1>6. SetToSeq(r.flags) \in Seq(Strings)  BY <1>1, EnumeratedIs
<1>7. flags \in Strings /\ Free(flags, US) /\ Free(flags, RS)
  BY <1>4, <1>6, ListType DEF flags
<1>8. fields \o <<flags>> = parts
  <2> DEFINE last == <<flags>>
  <2>1. fields \in Seq(Strings) /\ Len(fields) = 5  BY <1>1
  <2>2. /\ fields[1] = r.package /\ fields[2] = r.architecture /\ fields[3] = r.action
        /\ fields[4] = r.from_version /\ fields[5] = r.to_version
    OBVIOUS
  <2>3. last \in Seq(Strings) /\ Len(last) = 1 /\ last[1] = flags  BY <1>7
  <2>4. parts \in Seq(Strings) /\ Len(parts) = 6  BY <1>1, <1>7
  <2>5. /\ parts[1] = r.package /\ parts[2] = r.architecture /\ parts[3] = r.action
        /\ parts[4] = r.from_version /\ parts[5] = r.to_version /\ parts[6] = flags
    OBVIOUS
  <2> HIDE DEF fields, last, parts
  <2>6. Len(parts) = Len(fields) + Len(last)  BY <2>1, <2>3, <2>4
  <2>7. \A i \in 1..Len(fields) : parts[i] = fields[i]  BY <2>1, <2>2, <2>5
  <2>8. \A i \in 1..Len(last) : parts[Len(fields) + i] = last[i]  BY <2>1, <2>3, <2>5
  <2>9. fields \o last = parts
    BY <2>1, <2>3, <2>4, <2>6, <2>7, <2>8, ConcatIs, Zenon
  <2> QED  BY <2>9, Zenon DEF last
<1>9. parts \in Seq(Strings) /\ Len(parts) > 1  BY <1>1, <1>7
<1>10. \A i \in DOMAIN parts : Free(parts[i], US) /\ Free(parts[i], RS)
  BY <1>1, <1>5, <1>7, FieldIsFree
<1>11. IsRow(TxnRow(r), parts)
  <2> HIDE DEF parts, fields
  <2> QED  BY <1>3, <1>8, <1>9, <1>10, RowSplits DEF IsRow
<1>12. CsvArray(flags) = r.flags
  <2>1. \A i \in DOMAIN SetToSeq(r.flags) : SetToSeq(r.flags)[i] \in Words(Flags)
    BY <1>4, <1>6, ListIs DEF flags
  <2>2. <<>> \notin Words(Flags)  BY WordsAre, WordsNotEmpty
  <2>3. ToSet(SetToSeq(r.flags)) = r.flags  BY EnumeratedIs
  <2>4. <<>> \notin r.flags  BY <2>1, <2>2, <2>3 DEF ToSet
  <2> QED  BY <1>1, <1>4, <2>4, CsvOfSet DEF flags
<1> QED  BY <1>1, <1>5, <1>11, <1>12, FieldIsFree DEF flags

(* The row of a hold.                                                       *)
LEMMA HoldRowIs ==
  ASSUME NEW r \in HoldRecords, HoldRow(r) # Refused
  PROVE  /\ IsRow(HoldRow(r), <<r.package, r.from_state, r.to_state>>)
         /\ Json(r.package) = r.package /\ Json(r.from_state) = r.from_state
         /\ Json(r.to_state) = r.to_state
<1> DEFINE fields == <<r.package, r.from_state, r.to_state>>
<1>1. r.package \in Strings /\ r.from_state \in Strings /\ r.to_state \in Strings
  BY DEF HoldRecords
<1>2. HoldRow(r) = Row(r.from_state \in Words(HoldStates) /\ r.to_state \in Words(HoldStates),
                       fields, <<>>)
  BY DEF HoldRow
<1>3. HoldRow(r) = Joined(US, fields \o <<>>) /\ \A i \in DOMAIN fields : FieldOk(fields[i])
  <2> HIDE DEF fields
  <2> QED  BY <1>2, RowIs, Zenon
<1>4. FieldOk(r.package) /\ FieldOk(r.from_state) /\ FieldOk(r.to_state)
  <2>1. DOMAIN fields = 1..3 /\ fields[1] = r.package /\ fields[2] = r.from_state
        /\ fields[3] = r.to_state
    OBVIOUS
  <2> HIDE DEF fields
  <2>2. \A i \in 1..3 : FieldOk(fields[i])  BY <1>3, <2>1
  <2> QED  BY <2>1, <2>2
<1>5. fields \o <<>> = fields  OBVIOUS
<1>6. fields \in Seq(Strings) /\ Len(fields) > 1  BY <1>1
<1>7. \A i \in DOMAIN fields : Free(fields[i], US) /\ Free(fields[i], RS)
  BY <1>1, <1>4, FieldIsFree
<1>8. IsRow(HoldRow(r), fields)
  <2> HIDE DEF fields
  <2> QED  BY <1>3, <1>5, <1>6, <1>7, RowSplits DEF IsRow
<1> QED  BY <1>1, <1>4, <1>8, FieldIsFree

(* The row of a pending package.                                            *)
LEMMA CfgRowIs ==
  ASSUME NEW r \in CfgRecords, CfgRow(r) # Refused
  PROVE  /\ IsRow(CfgRow(r), <<r.package, r.architecture, r.current_version, r.state>>)
         /\ Json(r.package) = r.package /\ Json(r.architecture) = r.architecture
         /\ Json(r.current_version) = r.current_version /\ Json(r.state) = r.state
<1> DEFINE fields == <<r.package, r.architecture, r.current_version, r.state>>
<1>1. /\ r.package \in Strings /\ r.architecture \in Strings
      /\ r.current_version \in Strings /\ r.state \in Strings
  BY DEF CfgRecords
<1>2. CfgRow(r) = Row(r.state \in Words(CfgStates), fields, <<>>)  BY DEF CfgRow
<1>3. CfgRow(r) = Joined(US, fields \o <<>>) /\ \A i \in DOMAIN fields : FieldOk(fields[i])
  <2> HIDE DEF fields
  <2> QED  BY <1>2, RowIs, Zenon
<1>4. /\ FieldOk(r.package) /\ FieldOk(r.architecture)
      /\ FieldOk(r.current_version) /\ FieldOk(r.state)
  <2>1. DOMAIN fields = 1..4 /\ fields[1] = r.package /\ fields[2] = r.architecture
        /\ fields[3] = r.current_version /\ fields[4] = r.state
    OBVIOUS
  <2> HIDE DEF fields
  <2>2. \A i \in 1..4 : FieldOk(fields[i])  BY <1>3, <2>1
  <2> QED  BY <2>1, <2>2
<1>5. fields \o <<>> = fields  OBVIOUS
<1>6. fields \in Seq(Strings) /\ Len(fields) > 1  BY <1>1
<1>7. \A i \in DOMAIN fields : Free(fields[i], US) /\ Free(fields[i], RS)
  BY <1>1, <1>4, FieldIsFree
<1>8. IsRow(CfgRow(r), fields)
  <2> HIDE DEF fields
  <2> QED  BY <1>3, <1>5, <1>6, <1>7, RowSplits DEF IsRow
<1> QED  BY <1>1, <1>4, <1>8, FieldIsFree

(* The row of a source, with its components and its options.                *)
LEMMA SrcRowIs ==
  ASSUME NEW r \in SrcRecords, IsFiniteSet(r.components), <<>> \notin r.components,
         IsFiniteSet(r.options), SrcRow(r) # Refused
  PROVE  /\ IsRow(SrcRow(r), <<r.uri, r.suite, JoinSorted(SetToSeq(r.components), Strings),
                               JoinSortedKv(r.options)>>)
         /\ Json(r.uri) = r.uri /\ Json(r.suite) = r.suite
         /\ CsvArray(JoinSorted(SetToSeq(r.components), Strings)) = r.components
         /\ OptionsObject(JoinSortedKv(r.options)) = r.options
<1> DEFINE comps == JoinSorted(SetToSeq(r.components), Strings)
           opts == JoinSortedKv(r.options)
           fields == <<r.uri, r.suite>>
           lists == <<comps, opts>>
           parts == <<r.uri, r.suite, comps, opts>>
<1>1. /\ r.uri \in Strings /\ r.suite \in Strings
      /\ r.components \in SUBSET Strings /\ r.options \in SUBSET Pairs
  BY DEF SrcRecords, Pairs
<1>2. SrcRow(r) = Row(TRUE, fields, lists)  BY DEF SrcRow
<1> HIDE DEF comps, opts
<1>3. /\ SrcRow(r) = Joined(US, fields \o lists)
      /\ \A i \in DOMAIN fields : FieldOk(fields[i])
      /\ \A i \in DOMAIN lists : lists[i] # Refused
  <2> HIDE DEF fields, lists
  <2> QED  BY <1>2, RowIs, Zenon
<1>4. comps # Refused /\ opts # Refused
  <2>1. DOMAIN lists = 1..2 /\ lists[1] = comps /\ lists[2] = opts  OBVIOUS
  <2> HIDE DEF lists
  <2>2. \A i \in 1..2 : lists[i] # Refused  BY <1>3, <2>1
  <2> QED  BY <2>1, <2>2
<1>5. FieldOk(r.uri) /\ FieldOk(r.suite)
  <2>1. DOMAIN fields = 1..2 /\ fields[1] = r.uri /\ fields[2] = r.suite  OBVIOUS
  <2> HIDE DEF fields
  <2>2. \A i \in 1..2 : FieldOk(fields[i])  BY <1>3, <2>1
  <2> QED  BY <2>1, <2>2
<1>6. SetToSeq(r.components) \in Seq(Strings)  BY <1>1, EnumeratedIs
<1>7. comps \in Strings /\ Free(comps, US) /\ Free(comps, RS)
  BY <1>4, <1>6, ListType DEF comps
<1>8. opts \in Strings /\ Free(opts, US) /\ Free(opts, RS)
  BY <1>1, <1>4, OptionsSplit DEF opts
<1>9. fields \o lists = parts
  <2>1. /\ r.uri \in Strings /\ r.suite \in Strings /\ comps \in Strings /\ opts \in Strings
    BY <1>1, <1>7, <1>8
  <2> QED  BY <2>1, TwoAndTwo, Zenon
<1>10. parts \in Seq(Strings) /\ Len(parts) > 1  BY <1>1, <1>7, <1>8
<1>11. \A i \in DOMAIN parts : Free(parts[i], US) /\ Free(parts[i], RS)
  BY <1>1, <1>5, <1>7, <1>8, FieldIsFree
<1>12. IsRow(SrcRow(r), parts)
  <2> HIDE DEF parts, fields, lists
  <2> QED  BY <1>3, <1>9, <1>10, <1>11, RowSplits DEF IsRow
<1>13. CsvArray(comps) = r.components  BY <1>1, <1>4, CsvOfSet DEF comps
<1>14. OptionsObject(opts) = r.options  BY <1>1, <1>4, OptionsShown DEF opts
<1> QED  BY <1>1, <1>5, <1>12, <1>13, <1>14, FieldIsFree DEF comps, opts
-----------------------------------------------------------------------------
(* The row of a record of any verb.                                         *)
LEMMA ConcatAre ==
  ASSUME NEW s \in Seq(Strings), NEW t \in Seq(Strings)
  PROVE  \E u : /\ u = s \o t /\ u \in Seq(Strings) /\ Len(u) = Len(s) + Len(t)
                /\ \A i \in 1..Len(t) : u[Len(s) + i] = t[i]
<1>1. /\ s \o t \in Seq(Strings) /\ Len(s \o t) = Len(s) + Len(t)
      /\ \A i \in 1..Len(t) : (s \o t)[Len(s) + i] = t[i]
  OBVIOUS
<1> QED  BY <1>1, Zenon

(* Two fields more.                                                         *)
LEMMA AppendTwo ==
  ASSUME NEW a \in Strings, NEW b \in Strings
  PROVE  Append(<<a>>, b) = <<a, b>>
<1>1. PICK s \in Seq(Strings) : s = <<a>>
  <2>1. <<a>> \in Seq(Strings)  OBVIOUS
  <2> QED  BY <2>1, Zenon
<1>2. Len(s) = 1 /\ s[1] = a  BY <1>1
<1>3. PICK u : u = Append(s, b)  OBVIOUS
<1>4. PICK v : v = <<a, b>>  OBVIOUS
<1>5. u \in Seq(Strings) /\ Len(u) = 2 /\ u[1] = a /\ u[2] = b
  <2>1. Append(s, b) \in Seq(Strings) /\ Len(Append(s, b)) = Len(s) + 1  BY AppendProperties
  <2>2. Append(s, b)[Len(s) + 1] = b  BY AppendProperties
  <2>3. \A i \in 1..Len(s) : Append(s, b)[i] = s[i]  BY AppendProperties
  <2>4. /\ u \in Seq(Strings) /\ Len(u) = Len(s) + 1 /\ u[Len(s) + 1] = b
        /\ \A i \in 1..Len(s) : u[i] = s[i]
    BY <1>3, <2>1, <2>2, <2>3, Zenon
  <2> QED  BY <1>2, <2>4
<1>6. v \in Seq(Strings) /\ Len(v) = 2 /\ v[1] = a /\ v[2] = b  BY <1>4
<1>7. \A i \in 1..2 : u[i] = v[i]  BY <1>5, <1>6
<1>8. u = v  BY <1>5, <1>6, <1>7, SeqEqual
<1> QED  BY <1>1, <1>3, <1>4, <1>8, Zenon

(* A record's row, of any family, splits into the record's fields.          *)
LEMMA RowOfIs ==
  ASSUME NEW verb \in PlanVerbs, NEW r \in PlanRecords(verb), RowOf(verb, r) # Refused
  PROVE  IsRow(RowOf(verb, r), FieldsOf(verb, r))
<1>1. r \in RecordsOf(verb)  BY DEF PlanRecords
<1>2. CASE verb \in TxnVerbs
  <2>0. verb \notin HoldVerbs /\ verb # "apt.update" /\ verb # "apt.configure"
    BY <1>2, VerbsAreApart
  <2>1. RowOf(verb, r) = TxnRow(r) /\ RecordsOf(verb) = TxnRecords
    BY <1>2, <2>0 DEF RowOf, RecordsOf
  <2>2. IsFiniteSet(r.flags)  BY <1>2 DEF PlanRecords
  <2>3. FieldsOf(verb, r) = <<r.package, r.architecture, r.action, r.from_version,
                              r.to_version, JoinSorted(SetToSeq(r.flags), Words(Flags))>>
    BY <1>2, <2>0, Zenon DEF FieldsOf
  <2> QED  BY <1>1, <2>1, <2>2, <2>3, TxnRowIs, Zenon
<1>3. CASE verb \in HoldVerbs
  <2>1. RowOf(verb, r) = HoldRow(r) /\ RecordsOf(verb) = HoldRecords
    BY <1>3, VerbsAreApart DEF RowOf, RecordsOf
  <2>2. FieldsOf(verb, r) = <<r.package, r.from_state, r.to_state>>
    BY <1>3, VerbsAreApart, Zenon DEF FieldsOf
  <2> QED  BY <1>1, <2>1, <2>2, HoldRowIs, Zenon
<1>4. CASE verb = "apt.update"
  <2>1. RowOf(verb, r) = SrcRow(r) /\ RecordsOf(verb) = SrcRecords
    BY <1>4, VerbsAreApart DEF RowOf, RecordsOf
  <2>2. IsFiniteSet(r.components) /\ <<>> \notin r.components /\ IsFiniteSet(r.options)
    BY <1>4 DEF PlanRecords
  <2>3. FieldsOf(verb, r) = <<r.uri, r.suite, JoinSorted(SetToSeq(r.components), Strings),
                              JoinSortedKv(r.options)>>
    <3>1. verb \notin TxnVerbs /\ verb \notin HoldVerbs  BY <1>4, VerbsAreApart
    <3> QED  BY <1>4, <3>1, Zenon DEF FieldsOf
  <2> QED  BY <1>1, <2>1, <2>2, <2>3, SrcRowIs, Zenon
<1>5. CASE verb = "apt.configure"
  <2>1. RowOf(verb, r) = CfgRow(r) /\ RecordsOf(verb) = CfgRecords
    BY <1>5, VerbsAreApart DEF RowOf, RecordsOf
  <2>2. FieldsOf(verb, r) = <<r.package, r.architecture, r.current_version, r.state>>
    <3>1. verb \notin TxnVerbs /\ verb \notin HoldVerbs /\ verb # "apt.update"
      BY <1>5, VerbsAreApart
    <3> QED  BY <1>5, <3>1, Zenon DEF FieldsOf
  <2> QED  BY <1>1, <2>1, <2>2, CfgRowIs, Zenon
<1> QED  BY <1>2, <1>3, <1>4, <1>5 DEF PlanVerbs

Rows(verb, recs) == [i \in DOMAIN recs |-> RowOf(verb, recs[i])]

(* A plan with a digest has rows that are strings, none of them refused.    *)
LEMMA DigestIs ==
  ASSUME NEW verb \in PlanVerbs, NEW recs \in Seq(PlanRecords(verb)),
         Digest(verb, recs) # Refused
  PROVE  /\ \A i \in DOMAIN recs : IsRow(RowOf(verb, recs[i]), FieldsOf(verb, recs[i]))
         /\ Rows(verb, recs) \in Seq(Strings) /\ Len(Rows(verb, recs)) = Len(recs)
         /\ Digest(verb, recs) = JoinedOnto(<<Version, RS>> \o Word(verb) \o <<RS>>, RS,
                                            Sorted(Rows(verb, recs)))
<1>1. \A i \in DOMAIN Rows(verb, recs) : Rows(verb, recs)[i] # Refused
  BY Zenon DEF Digest, Rows
<1>2. Digest(verb, recs) = Finalize(verb, Rows(verb, recs))
  BY <1>1, Zenon DEF Digest, Rows
<1>3. \A i \in DOMAIN recs : RowOf(verb, recs[i]) # Refused  BY <1>1, Zenon DEF Rows
<1>4. \A i \in DOMAIN recs : recs[i] \in PlanRecords(verb)  OBVIOUS
<1>5. \A i \in DOMAIN recs : IsRow(RowOf(verb, recs[i]), FieldsOf(verb, recs[i]))
  BY <1>3, <1>4, RowOfIs, Zenon
<1>6. Rows(verb, recs) \in Seq(Strings) /\ Len(Rows(verb, recs)) = Len(recs)
  <2>1. \A i \in DOMAIN recs : RowOf(verb, recs[i]) \in Strings  BY <1>5, Zenon DEF IsRow
  <2>2. DOMAIN recs = 1..Len(recs) /\ Len(recs) \in Nat  OBVIOUS
  <2> QED  BY <2>1, <2>2 DEF Rows
<1>7. Digest(verb, recs) = JoinedOnto(<<Version, RS>> \o Word(verb) \o <<RS>>, RS,
                                      Sorted(Rows(verb, recs)))
  BY <1>2, BoundedIs, Zenon DEF Finalize
<1> QED  BY <1>5, <1>6, <1>7

(* The beginning of a canonical string: "1" RS verb RS.                     *)
LEMMA BeginningSplits ==
  ASSUME NEW verb \in PlanVerbs
  PROVE  /\ <<Version, RS>> \o Word(verb) \o <<RS>> \in Strings
         /\ << <<Version>>, Word(verb) >> \in Seq(Strings)
         /\ LastPiece(<<Version, RS>> \o Word(verb) \o <<RS>>, RS,
                      << <<Version>>, Word(verb) >>, <<>>)
<1> DEFINE one == <<Version>>
           w == Word(verb)
<1>1. w \in Strings /\ Free(w, RS)
  <2>1. verb \in AllWords  BY WordsAre DEF PlanVerbs
  <2> QED  BY <2>1, WordIs
<1>2. one \in Strings /\ Free(one, RS)  BY DEF Version, RS, Bytes, Strings, Free
<1>3. <<Version, RS>> = one \o <<RS>>  OBVIOUS
<1> HIDE DEF one, w
<1>4. RS \in Bytes /\ <<>> \in Strings /\ Free(<<>>, RS) /\ <<RS>> \in Strings
  BY SeparatorsAre, ByteIsString
<1>5. Pieces(one, RS) = <<one>>
  <2>1. LastPiece(<<>>, RS, <<>>, <<>>)
    <3>1. << <<>> >> = Append(<<>>, <<>>)  OBVIOUS
    <3> QED  BY <3>1, PiecesNone, Zenon DEF LastPiece
  <2>2. <<>> \in Seq(Strings)  OBVIOUS
  <2>3. LastPiece(<<>> \o one, RS, <<>>, <<>> \o one)  BY <1>2, <1>4, <2>1, <2>2, PiecesExtend
  <2>4. <<>> \o one = one /\ Append(<<>>, one) = <<one>>  BY <1>2 DEF Strings
  <2> QED  BY <2>3, <2>4, Zenon DEF LastPiece
<1>6. Pieces(one \o <<RS>> \o w, RS) = Append(<<one>>, w)
  <2>1. Pieces(one \o <<RS>> \o w, RS) = Append(Pieces(one, RS), w)
    BY <1>1, <1>2, <1>4, PiecesNext, Zenon
  <2> QED  BY <1>5, <2>1, Zenon
<1>7. one \o <<RS>> \o w \in Strings  BY <1>1, <1>2, <1>4, StringsJoin
<1>8. Pieces(one \o <<RS>> \o w \o <<RS>> \o <<>>, RS) = Append(Append(<<one>>, w), <<>>)
  BY <1>4, <1>6, <1>7, PiecesNext, Zenon
<1>9. PICK u \in Strings : u = one \o <<RS>> \o w \o <<RS>>
  <2>1. one \o <<RS>> \o w \o <<RS>> \in Strings  BY <1>4, <1>7, StringsJoin
  <2> QED  BY <2>1, Zenon
<1>10. Pieces(u, RS) = Append(Append(<<one>>, w), <<>>)
  <2>1. u \o <<>> = u  BY NothingAdded DEF Strings
  <2> DEFINE all == Append(Append(<<one>>, w), <<>>)
             more == u \o <<>>
  <2>2. Pieces(more, RS) = all  BY <1>8, <1>9, Zenon
  <2>3. more = u  BY <2>1
  <2> HIDE DEF all, more
  <2>4. Pieces(u, RS) = all  BY <2>2, <2>3
  <2> QED  BY <2>4, Zenon DEF all
<1>11. Append(<<one>>, w) = <<one, w>>  BY <1>1, <1>2, AppendTwo, Zenon
<1>12. <<one, w>> \in Seq(Strings)  BY <1>1, <1>2
<1>13. LastPiece(u, RS, <<one, w>>, <<>>)  BY <1>10, <1>11, Zenon DEF LastPiece
<1> QED  BY <1>3, <1>9, <1>12, <1>13, Zenon DEF one, w

(***************************************************************************)
(* What a preview splits a canonical string into is, behind the version    *)
(* and the verb, the rows of the plan, each of them the fields of its      *)
(* record, in some order.                                                  *)
(***************************************************************************)
LEMMA DigestSplits ==
  ASSUME NEW verb \in PlanVerbs, NEW recs \in Seq(PlanRecords(verb)), recs # <<>>,
         Digest(verb, recs) # Refused
  PROVE  \E f \in Orders(recs), pieces \in Seq(Strings) :
           /\ SplitOn(Digest(verb, recs), RS) = pieces
           /\ Len(pieces) = Len(recs) + 2
           /\ \A i \in DOMAIN recs : SplitOn(pieces[i + 2], US) = FieldsOf(verb, recs[f[i]])
<1> DEFINE start == <<Version, RS>> \o Word(verb) \o <<RS>>
           base == << <<Version>>, Word(verb) >>
<1>1. PICK rows : rows = Rows(verb, recs)  OBVIOUS
<1>2. /\ rows \in Seq(Strings) /\ DOMAIN rows = DOMAIN recs /\ Len(rows) = Len(recs)
      /\ \A i \in DOMAIN recs : rows[i] = RowOf(verb, recs[i])
  <2>1. Rows(verb, recs) \in Seq(Strings) /\ Len(Rows(verb, recs)) = Len(recs)  BY DigestIs
  <2>2. DOMAIN Rows(verb, recs) = DOMAIN recs
        /\ \A i \in DOMAIN recs : Rows(verb, recs)[i] = RowOf(verb, recs[i])
    BY Zenon DEF Rows
  <2> QED  BY <1>1, <2>1, <2>2, Zenon
<1>3. \A i \in DOMAIN recs : /\ rows[i] \in Strings /\ Free(rows[i], RS)
                             /\ SplitOn(rows[i], US) = FieldsOf(verb, recs[i])
  BY <1>2, DigestIs, Zenon DEF IsRow
<1>4. PICK s : s = Sorted(rows)  OBVIOUS
<1>5. s \in Arrangements(rows)  BY <1>2, <1>4, SortedIs
<1>6. PICK f \in Orders(rows) : s = Taking(rows, f)  BY <1>5, ArrangementIs
<1>7. f \in Orders(recs) /\ \A i \in DOMAIN recs : f[i] \in DOMAIN recs /\ s[i] = rows[f[i]]
  <2>1. f \in Orders(recs)  BY <1>2, Zenon DEF Orders
  <2>2. f \in [DOMAIN recs -> DOMAIN recs]  BY <2>1, OrderIs
  <2>3. \A i \in DOMAIN rows : s[i] = rows[f[i]]  BY <1>6 DEF Taking
  <2> QED  BY <1>2, <2>1, <2>2, <2>3
<1>8. s \in Seq(Strings) /\ DOMAIN s = DOMAIN recs /\ Len(s) = Len(recs) /\ s # <<>>
  <2>1. s \in Seq(Strings) /\ DOMAIN s = DOMAIN rows /\ Len(s) = Len(rows)
    BY <1>2, <1>5, ArrangementKeeps
  <2>2. Len(recs) > 0  OBVIOUS
  <2> QED  BY <1>2, <2>1, <2>2
<1>9. \A i \in DOMAIN s : Free(s[i], RS)  BY <1>3, <1>7, <1>8
<1>10. Digest(verb, recs) = JoinedOnto(start, RS, s)  BY <1>1, <1>4, DigestIs
<1>11. start \in Strings /\ base \in Seq(Strings) /\ LastPiece(start, RS, base, <<>>)
  BY BeginningSplits
<1>12. Len(base) = 2  OBVIOUS
<1> HIDE DEF start, base
<1>13. Pieces(JoinedOnto(start, RS, s), RS) = base \o s
  BY <1>8, <1>9, <1>11, SeparatorsAre, PiecesOfJoined
<1>14. PICK pieces : /\ pieces = base \o s /\ pieces \in Seq(Strings)
                      /\ Len(pieces) = Len(base) + Len(s)
                      /\ \A i \in 1..Len(s) : pieces[Len(base) + i] = s[i]
  <2>1. s \in Seq(Strings) /\ base \in Seq(Strings)  BY <1>8, <1>11
  <2> QED  BY <2>1, ConcatAre, Zenon
<1>15. pieces \in Seq(Strings) /\ Len(pieces) = Len(recs) + 2
  BY <1>8, <1>12, <1>14
<1>16. \A i \in DOMAIN recs : pieces[i + 2] = s[i]
  <2>1. \A i \in 1..Len(s) : pieces[2 + i] = s[i]  BY <1>12, <1>14, Zenon
  <2>2. DOMAIN recs = 1..Len(s) /\ \A i \in 1..Len(s) : 2 + i = i + 2  BY <1>8
  <2> QED  BY <2>1, <2>2
<1>17. SplitOn(Digest(verb, recs), RS) = pieces
  <2>1. JoinedOnto(start, RS, s) # <<>>
    <3>1. SUFFICES ASSUME JoinedOnto(start, RS, s) = <<>> PROVE FALSE  OBVIOUS
    <3>2. pieces = << <<>> >>  BY <1>13, <1>14, <3>1, PiecesNone, Zenon
    <3>3. Len(pieces) = 1  BY <3>2
    <3>4. Len(s) \in Nat /\ Len(s) > 0  BY <1>8
    <3> QED  BY <1>12, <1>14, <3>3, <3>4
  <2> QED  BY <1>10, <1>13, <1>14, <2>1, Zenon DEF SplitOn
<1>18. \A i \in DOMAIN recs : SplitOn(pieces[i + 2], US) = FieldsOf(verb, recs[f[i]])
  <2> TAKE i \in DOMAIN recs
  <2>1. pieces[i + 2] = rows[f[i]] /\ f[i] \in DOMAIN recs  BY <1>7, <1>16
  <2>2. SplitOn(rows[f[i]], US) = FieldsOf(verb, recs[f[i]])  BY <1>3, <2>1, Zenon
  <2> QED  BY <2>1, <2>2, Zenon
<1>19. f \in Orders(recs) /\ pieces \in Seq(Strings)  BY <1>7, <1>15
<1>20. Len(pieces) = Len(recs) + 2  BY <1>15
<1>21. \E p \in Seq(Strings) :
         /\ SplitOn(Digest(verb, recs), RS) = p /\ Len(p) = Len(recs) + 2
         /\ \A i \in DOMAIN recs : SplitOn(p[i + 2], US) = FieldsOf(verb, recs[f[i]])
  BY <1>17, <1>18, <1>19, <1>20, Zenon
<1> QED  BY <1>19, <1>21, Zenon
-----------------------------------------------------------------------------
(* What does not depend on the order of the records or of the targets.      *)

(* Records in another order have rows in another order.                     *)
LEMMA RowsAlike ==
  ASSUME NEW verb \in PlanVerbs, NEW recs \in Seq(PlanRecords(verb)), NEW s \in Arrangements(recs)
  PROVE  /\ s \in Seq(PlanRecords(verb))
         /\ Rows(verb, s) \in Arrangements(Rows(verb, recs))
<1> DEFINE T == PlanRecords(verb)
           F == [r \in T |-> RowOf(verb, r)]
           U == {RowOf(verb, r) : r \in T}
<1>1. F \in [T -> U]  BY Zenon
<1>2. \A r \in T : F[r] = RowOf(verb, r)  BY Zenon
<1>3. s \in Seq(T)  BY ArrangementKeeps
<1> HIDE DEF T, U
<1>40. PICK G \in [T -> U] : G = F  BY <1>1, Zenon
<1> HIDE DEF F
<1>41. recs \in Seq(T)  BY DEF T
<1>42. Through(G, s) \in Arrangements(Through(G, recs))
  BY <1>41, ArrangedThrough, Zenon
<1>4. Through(F, s) \in Arrangements(Through(F, recs))
  BY <1>40, <1>42, Zenon
<1>5. \A i \in DOMAIN s : F[s[i]] = RowOf(verb, s[i])
  <2>1. \A i \in DOMAIN s : s[i] \in T  BY <1>3
  <2> QED  BY <1>2, <2>1
<1>6. \A i \in DOMAIN recs : F[recs[i]] = RowOf(verb, recs[i])
  <2>1. \A i \in DOMAIN recs : recs[i] \in T  BY DEF T
  <2> QED  BY <1>2, <2>1
<1>7. Through(F, s) = Rows(verb, s)  BY <1>5, Zenon DEF Rows, Through
<1>8. Through(F, recs) = Rows(verb, recs)  BY <1>6, Zenon DEF Rows, Through
<1> QED  BY <1>3, <1>4, <1>7, <1>8, Zenon DEF T

(* The digest is refused with any row, or made of all.                      *)
LEMMA DigestOfRows ==
  ASSUME NEW verb, NEW recs
  PROVE  Digest(verb, recs) =
           IF \E i \in DOMAIN Rows(verb, recs) : Rows(verb, recs)[i] = Refused
           THEN Refused ELSE Finalize(verb, Rows(verb, recs))
BY Zenon DEF Digest, Rows

(* A row is a string or refused.                                            *)
LEMMA RowsType ==
  ASSUME NEW verb \in PlanVerbs, NEW recs \in Seq(PlanRecords(verb))
  PROVE  Rows(verb, recs) \in Seq(Strings \cup {Refused})
<1>1. \A i \in DOMAIN recs : RowOf(verb, recs[i]) \in Strings \cup {Refused}
  <2>1. \A i \in DOMAIN recs : recs[i] \in PlanRecords(verb)  OBVIOUS
  <2>2. \A r \in PlanRecords(verb) : RowOf(verb, r) # Refused => RowOf(verb, r) \in Strings
    BY RowOfIs, Zenon DEF IsRow
  <2> QED  BY <2>1, <2>2, Zenon
<1>2. DOMAIN recs = 1..Len(recs) /\ Len(recs) \in Nat  OBVIOUS
<1> QED  BY <1>1, <1>2 DEF Rows

(* The canonical string of a plan is the same in whatever order its records *)
(* come: digest.c sorts the rows.                                           *)
THEOREM DigestOfAnyOrder ==
  ASSUME NEW verb \in PlanVerbs, NEW recs \in Seq(PlanRecords(verb)), NEW s \in Arrangements(recs)
  PROVE  Digest(verb, s) = Digest(verb, recs)
<1>1. PICK a : a = Rows(verb, recs)  OBVIOUS
<1>2. PICK b : b = Rows(verb, s)  OBVIOUS
<1>3. a \in Seq(Strings \cup {Refused}) /\ b \in Arrangements(a)
  BY <1>1, <1>2, RowsAlike, RowsType, Zenon
<1>4. /\ Digest(verb, recs) = IF \E i \in DOMAIN a : a[i] = Refused THEN Refused ELSE Finalize(verb, a)
      /\ Digest(verb, s) = IF \E i \in DOMAIN b : b[i] = Refused THEN Refused ELSE Finalize(verb, b)
  BY <1>1, <1>2, DigestOfRows, Zenon
<1>5. /\ \A i \in DOMAIN b : \E j \in DOMAIN a : b[i] = a[j]
      /\ \A j \in DOMAIN a : \E i \in DOMAIN b : b[i] = a[j]
  BY <1>3, ArrangementKeeps
<1>6. CASE \E i \in DOMAIN a : a[i] = Refused
  <2>1. \E i \in DOMAIN b : b[i] = Refused  BY <1>5, <1>6
  <2> QED  BY <1>4, <1>6, <2>1, Zenon
<1>7. CASE ~\E i \in DOMAIN a : a[i] = Refused
  <2>1. ~\E i \in DOMAIN b : b[i] = Refused  BY <1>5, <1>7
  <2>2. a \in Seq(Strings)  BY <1>3, <1>7
  <2>3. Sorted(b) = Sorted(a)  BY <1>3, <2>2, SortedAlike
  <2>4. Finalize(verb, b) = Finalize(verb, a)  BY <2>3, Zenon DEF Finalize
  <2> QED  BY <1>4, <1>7, <2>1, <2>4, Zenon
<1> QED  BY <1>6, <1>7

(* Items without duplicates have none in another order.                     *)
LEMMA DistinctStays ==
  ASSUME NEW T, NEW a \in Seq(T), NEW b \in Arrangements(a), Distinct(a)
  PROVE  Distinct(b)
<1>1. PICK f \in Orders(a) : b = Taking(a, f)  BY ArrangementIs
<1>2. /\ f \in [DOMAIN a -> DOMAIN a]
      /\ \A i, j \in DOMAIN a : f[i] = f[j] => i = j
  BY OrderIs
<1>3. DOMAIN b = DOMAIN a /\ \A i \in DOMAIN a : b[i] = a[f[i]]  BY <1>1 DEF Taking
<1>4. \A i \in DOMAIN a : f[i] \in DOMAIN a  BY <1>2
<1>5. ASSUME NEW i \in DOMAIN b, NEW j \in DOMAIN b, i # j PROVE b[i] # b[j]
  <2>1. f[i] # f[j] /\ f[i] \in DOMAIN a /\ f[j] \in DOMAIN a  BY <1>2, <1>3, <1>4, <1>5
  <2>2. a[f[i]] # a[f[j]]  BY <2>1 DEF Distinct
  <2> QED  BY <1>3, <2>2
<1> QED  BY <1>5 DEF Distinct

(* Nor does a resource token on the order of the targets.                   *)
THEOREM ResourceOfAnyOrder ==
  ASSUME NEW a \in Seq(Strings), NEW b \in Arrangements(a)
  PROVE  Resource(b) = Resource(a)
<1>1. b \in Seq(Strings) /\ a \in Arrangements(b)  BY ArrangementKeeps, ArrangedBack
<1>2. Distinct(a) <=> Distinct(b)  BY <1>1, DistinctStays
<1>3. /\ \A i \in DOMAIN b : \E j \in DOMAIN a : b[i] = a[j]
      /\ \A j \in DOMAIN a : \E i \in DOMAIN b : b[i] = a[j]
  BY ArrangementKeeps
<1>4. (\A i \in DOMAIN a : FieldOk(a[i]) /\ a[i] \in Strings)
        <=> \A i \in DOMAIN b : FieldOk(b[i]) /\ b[i] \in Strings
  BY <1>3, Zenon
<1>5. Sorted(b) = Sorted(a)  BY SortedAlike
<1> QED  BY <1>2, <1>4, <1>5, Zenon DEF Resource, JoinSorted

(* Two lists of targets, neither of them empty, with the same resource      *)
(* token are the same targets (join_sorted of digest.c).                    *)
THEOREM ResourceBinds ==
  ASSUME NEW a \in Seq(Strings), NEW b \in Seq(Strings), a # <<>>, b # <<>>,
         Resource(a) = Resource(b), Resource(a) # Refused
  PROVE  b \in Arrangements(a)
<1>1. ASSUME NEW t \in Seq(Strings), t # <<>>, Resource(t) # Refused
      PROVE  Pieces(Resource(t), Comma) \in Arrangements(t)
  <2>1. PICK parts : parts = Sorted(t)  OBVIOUS
  <2>2. Resource(t) = Joined(Comma, parts)  BY <1>1, <2>1, ListIs, Zenon DEF Resource
  <2>3. \A i \in DOMAIN t : t[i] \in Strings /\ FieldOk(t[i])
    BY <1>1, ListIs DEF Resource
  <2>4. \A i \in DOMAIN t : Free(t[i], Comma)  BY <2>3, FieldIsFree
  <2>5. parts \in Seq(Strings) /\ \A i \in DOMAIN parts : Free(parts[i], Comma)
    BY <2>1, <2>4, SortedFields
  <2>6. parts \in Arrangements(t)  BY <2>1, SortedIs
  <2>7. parts # <<>>
    <3>1. Len(parts) = Len(t)  BY <2>6, ArrangementKeeps
    <3>2. Len(t) # 0  BY <1>1
    <3>3. ASSUME parts = <<>> PROVE FALSE
      <4>1. Len(parts) = 0  BY <3>3
      <4> QED  BY <3>1, <3>2, <4>1
    <3> QED  BY <3>3
  <2>8. LastPiece(<<>>, Comma, <<>>, <<>>)
    <3>1. << <<>> >> = Append(<<>>, <<>>)  OBVIOUS
    <3> QED  BY <3>1, PiecesNone, Zenon DEF LastPiece
  <2>9. <<>> \in Seq(Strings)  OBVIOUS
  <2>10. Pieces(Joined(Comma, parts), Comma) = <<>> \o parts
    <3>1. Comma \in Bytes /\ <<>> \in Strings  BY SeparatorsAre
    <3>2. Pieces(JoinedOnto(<<>>, Comma, parts), Comma) = <<>> \o parts
      BY <2>5, <2>7, <2>8, <2>9, <3>1, PiecesOfJoined
    <3> QED  BY <3>2, Zenon DEF Joined
  <2>11. <<>> \o parts = parts  BY <2>5, NothingAdded
  <2> QED  BY <2>2, <2>6, <2>10, <2>11, Zenon
<1>2. PICK parts : parts = Pieces(Resource(a), Comma)  OBVIOUS
<1>3. parts \in Arrangements(a) /\ parts \in Arrangements(b)  BY <1>1, <1>2, Zenon
<1>4. b \in Arrangements(parts)  BY <1>3, ArrangedBack
<1> QED  BY <1>3, <1>4, ArrangedOn
================================================================================
