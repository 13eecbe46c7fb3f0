-------------------------------- MODULE Semver ---------------------------------
(***************************************************************************)
(* Versions and version ranges (service/internal/semver/semver.go).        *)
(*                                                                         *)
(* A version as it is written is a record: whether a "v" comes first, the  *)
(* numbers between the dots and the pre-release.  Pre-releases are numbers *)
(* that stand for the strings in their byte order, 0 for the empty one;    *)
(* what follows a "+" is cut off and is left out, and so are numbers of    *)
(* more than 64 bits and segments that are no numbers.                     *)
(***************************************************************************)
EXTENDS Integers, Sequences

Version == [major : Nat, minor : Nat, patch : Nat, pre : Nat]

Written == [v : BOOLEAN, parts : Seq(Nat), pre : Nat]

Invalid == [error |-> "semver"]

\* Parse: exactly three numbers, and no "v".
Parse(s) ==
  IF ~s.v /\ Len(s.parts) = 3
  THEN [major |-> s.parts[1], minor |-> s.parts[2], patch |-> s.parts[3], pre |-> s.pre]
  ELSE Invalid

cmp(a, b) == IF a < b THEN -1 ELSE IF a > b THEN 1 ELSE 0

\* Version.Compare: a release comes after its pre-releases.
Compare(v, o) ==
  CASE v.major # o.major -> cmp(v.major, o.major)
    [] v.major = o.major /\ v.minor # o.minor -> cmp(v.minor, o.minor)
    [] v.major = o.major /\ v.minor = o.minor /\ v.patch # o.patch -> cmp(v.patch, o.patch)
    [] OTHER -> IF v.pre = o.pre THEN 0
                ELSE IF v.pre = 0 THEN 1
                ELSE IF o.pre = 0 THEN -1
                ELSE cmp(v.pre, o.pre)

-----------------------------------------------------------------------------
\* The operators ParseRange knows; "" is that of a bare version.
Op == {"", "=", "<", "<=", ">", ">=", "^", "~"}

Constraint == [op : Op, ver : Version]

\* A part of a range as it is written, and what ParseRange makes of it.  An
\* operator that stands alone has a version without numbers.
ParseRange(part) ==
  IF Parse(part.version) = Invalid THEN Invalid
  ELSE [op |-> part.op, ver |-> Parse(part.version)]

\* Constraint.Matches.
Holds(c, v) ==
  LET order == Compare(v, c.ver) IN
  CASE c.op \in {"", "="} -> order = 0
    [] c.op = "<" -> order < 0
    [] c.op = "<=" -> order <= 0
    [] c.op = ">" -> order > 0
    [] c.op = ">=" -> order >= 0
    [] c.op = "^" -> v.major = c.ver.major /\ order >= 0
    [] c.op = "~" -> v.major = c.ver.major /\ v.minor = c.ver.minor /\ order >= 0

\* ParseRangeExpr: the parts between blanks and commas, at least one of them
\* and each a constraint.  <<>> is the error.
ParseRangeExpr(expr) ==
  IF \E i \in DOMAIN expr : ParseRange(expr[i]) = Invalid
  THEN <<>>
  ELSE [i \in DOMAIN expr |-> ParseRange(expr[i])]

\* Range.Matches.
RangeMatches(r, v) == \A i \in DOMAIN r : Holds(r[i], v)

-----------------------------------------------------------------------------
(* The reference: versions as keys in lexicographic order.                 *)

Key(v) == <<v.major, v.minor, v.patch, IF v.pre = 0 THEN 1 ELSE 0, v.pre>>

Less(k, l) == \E i \in 1..5 : k[i] < l[i] /\ \A j \in 1..(i - 1) : k[j] = l[j]

\* What the comments on ParseRange say a range means: "^1.2.0" is
\* >=1.2.0 and before 2.0.0, with all its pre-releases.
Means(c, v) ==
  LET k == Key(v)
      b == Key(c.ver)
  IN  CASE c.op \in {"", "="} -> k = b
        [] c.op = "<" -> Less(k, b)
        [] c.op = "<=" -> ~Less(b, k)
        [] c.op = ">" -> Less(b, k)
        [] c.op = ">=" -> ~Less(k, b)
        [] c.op = "^" -> ~Less(k, b) /\ Less(k, <<b[1] + 1, 0, 0, 0, 0>>)
        [] c.op = "~" -> ~Less(k, b) /\ Less(k, <<b[1], b[2] + 1, 0, 0, 0>>)
==============================================================================
