-------------------------------- MODULE Names --------------------------------
(***************************************************************************)
(* Byte strings: the bytewise order the digest sorts by (digest.c), what a *)
(* request accepts as a package name (request.c) and what makes a package  *)
(* rapt's own (policy.c).  A C string is a sequence of bytes other than 0. *)
(***************************************************************************)
EXTENDS Integers, Sequences

CONSTANT MaxName    \* PKGX_MAX_NAME, the longest package name of a request

ASSUME MaxNameAssumption == MaxName \in Nat

Bytes   == 1..255
Strings == Seq(Bytes)

LowerCase == 97..122
Digits    == 48..57
Plus    == 43
Dash    == 45
Dot     == 46
Colon   == 58
LetterR == 114
AlNum == LowerCase \cup Digits

(* The order of strcmp: the first byte that differs decides, and a string  *)
(* comes after its own beginnings.                                         *)
Before(x, y) ==
  \E k \in 1..Len(x) + 1 :
    /\ k <= Len(y)
    /\ \A i \in 1..k - 1 : x[i] = y[i]
    /\ k <= Len(x) => x[k] < y[k]

-----------------------------------------------------------------------------
(* Names of a request: a Debian name, or one qualified by an architecture.  *)

DebianName(s) ==
  /\ Len(s) >= 2
  /\ s[1] \in AlNum
  /\ \A i \in 2..Len(s) : s[i] \in AlNum \cup {Plus, Dot, Dash}

ArchName(s) ==
  /\ Len(s) >= 1
  /\ s[1] \in AlNum
  /\ \A i \in 2..Len(s) : s[i] \in AlNum \cup {Dash}

Qualified(name, arch) == name \o <<Colon>> \o arch

NameOk(s) ==
  /\ Len(s) <= MaxName
  /\ \/ DebianName(s)
     \/ \E k \in 1..Len(s) : /\ s[k] = Colon
                             /\ DebianName(SubSeq(s, 1, k - 1))
                             /\ ArchName(SubSeq(s, k + 1, Len(s)))

-----------------------------------------------------------------------------
(* rapt's own packages, ^r-[a-z]+-[a-z0-9.]+$, as the scan decides it.      *)

(* Where the run of bytes of S that begins at "from" stops. *)
RunEnd(s, from, S) ==
  CHOOSE k \in from..Len(s) + 1 :
    /\ \A i \in from..k - 1 : s[i] \in S
    /\ k <= Len(s) => s[k] \notin S

IsRaptOwned(name) ==
  /\ Len(name) >= 2 /\ name[1] = LetterR /\ name[2] = Dash
  /\ LET dash == RunEnd(name, 3, LowerCase)
     IN  /\ dash > 3 /\ dash <= Len(name) /\ name[dash] = Dash
         /\ LET end == RunEnd(name, dash + 1, AlNum \cup {Dot})
            IN  end > dash + 1 /\ end = Len(name) + 1

(* The pattern itself. *)
RaptPattern(name) ==
  \E dash \in 4..Len(name) - 1 :
    /\ name[1] = LetterR /\ name[2] = Dash /\ name[dash] = Dash
    /\ \A i \in 3..dash - 1 : name[i] \in LowerCase
    /\ \A i \in dash + 1..Len(name) : name[i] \in AlNum \cup {Dot}
=============================================================================
