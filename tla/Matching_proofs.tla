---------------------------- MODULE Matching_proofs ----------------------------
(***************************************************************************)
(* Soundness and completeness of Matches, for all records, projects, OSV   *)
(* feeds and commands: the inductive invariant and its proof.  It rests on *)
(* what the comparison of versions computes, which comes first, and on     *)
(* what the mapping makes of the events of an OSV record.                  *)
(***************************************************************************)
EXTENDS Matching, VulnDomain_proofs, NaturalsInduction, WellFoundedInduction

-----------------------------------------------------------------------------
(* Versions.  What the code in semver.go computes is what the comments on  *)
(* ParseRange say, for every version: Compare is the lexicographic order   *)
(* of the keys, and the intervals of "^" and "~" follow.                   *)

\* The position at which two keys first differ, written out.
LEMMA LessUnfolded ==
  ASSUME NEW k \in Int \X Int \X Int \X Int \X Int, NEW l \in Int \X Int \X Int \X Int \X Int
  PROVE  Less(k, l) <=>
           \/ k[1] < l[1]
           \/ k[1] = l[1] /\ k[2] < l[2]
           \/ k[1] = l[1] /\ k[2] = l[2] /\ k[3] < l[3]
           \/ k[1] = l[1] /\ k[2] = l[2] /\ k[3] = l[3] /\ k[4] < l[4]
           \/ k[1] = l[1] /\ k[2] = l[2] /\ k[3] = l[3] /\ k[4] = l[4] /\ k[5] < l[5]
<1> DEFINE Differ(i) == k[i] < l[i] /\ \A j \in 1..(i - 1) : k[j] = l[j]
<1>1. Less(k, l) <=> Differ(1) \/ Differ(2) \/ Differ(3) \/ Differ(4) \/ Differ(5)
  <2>1. \A i \in 1..5 : i = 1 \/ i = 2 \/ i = 3 \/ i = 4 \/ i = 5
    OBVIOUS
  <2>2. 1 \in 1..5 /\ 2 \in 1..5 /\ 3 \in 1..5 /\ 4 \in 1..5 /\ 5 \in 1..5
    OBVIOUS
  <2>3. Less(k, l) <=> \E i \in 1..5 : Differ(i)
    BY DEF Less
  <2> HIDE DEF Differ
  <2> QED  BY <2>1, <2>2, <2>3
<1>2. Differ(1) <=> k[1] < l[1]
  OBVIOUS
<1>3. Differ(2) <=> k[1] = l[1] /\ k[2] < l[2]
  <2>1. \A j \in 1..(2 - 1) : j = 1
    OBVIOUS
  <2> QED  BY <2>1
<1>4. Differ(3) <=> k[1] = l[1] /\ k[2] = l[2] /\ k[3] < l[3]
  <2>1. \A j \in 1..(3 - 1) : j = 1 \/ j = 2
    OBVIOUS
  <2> QED  BY <2>1
<1>5. Differ(4) <=> k[1] = l[1] /\ k[2] = l[2] /\ k[3] = l[3] /\ k[4] < l[4]
  <2>1. \A j \in 1..(4 - 1) : j = 1 \/ j = 2 \/ j = 3
    OBVIOUS
  <2> QED  BY <2>1
<1>6. Differ(5) <=> k[1] = l[1] /\ k[2] = l[2] /\ k[3] = l[3] /\ k[4] = l[4] /\ k[5] < l[5]
  <2>1. \A j \in 1..(5 - 1) : j = 1 \/ j = 2 \/ j = 3 \/ j = 4
    OBVIOUS
  <2> QED  BY <2>1
<1> HIDE DEF Differ
<1> QED
  BY <1>1, <1>2, <1>3, <1>4, <1>5, <1>6

\* The key of a version.
LEMMA KeyType ==
  ASSUME NEW v \in Version
  PROVE  /\ Key(v) \in Int \X Int \X Int \X Int \X Int
         /\ Key(v)[1] = v.major /\ Key(v)[2] = v.minor /\ Key(v)[3] = v.patch
         /\ Key(v)[4] = (IF v.pre = 0 THEN 1 ELSE 0) /\ Key(v)[5] = v.pre
BY DEF Key, Version

\* semver.go:56-58.  The three-way comparison is a total order of versions: it
\* is that of their keys, so a pre-release comes before its release and two
\* versions are equal only when all four parts are.
THEOREM CompareIsLexicographic ==
  ASSUME NEW v \in Version, NEW o \in Version
  PROVE  /\ Compare(v, o) \in {-1, 0, 1}
         /\ Compare(v, o) < 0 <=> Less(Key(v), Key(o))
         /\ Compare(v, o) > 0 <=> Less(Key(o), Key(v))
         /\ Compare(v, o) = 0 <=> Key(v) = Key(o)
<1> DEFINE a == Key(v)
           b == Key(o)
<1>1. /\ v.major \in Nat /\ v.minor \in Nat /\ v.patch \in Nat /\ v.pre \in Nat
      /\ o.major \in Nat /\ o.minor \in Nat /\ o.patch \in Nat /\ o.pre \in Nat
  BY DEF Version
<1>2. Less(Key(v), Key(o)) <=>
        \/ v.major < o.major
        \/ v.major = o.major /\ v.minor < o.minor
        \/ v.major = o.major /\ v.minor = o.minor /\ v.patch < o.patch
        \/ /\ v.major = o.major /\ v.minor = o.minor /\ v.patch = o.patch
           /\ (v.pre # 0 /\ o.pre = 0) \/ (v.pre # 0 /\ o.pre # 0 /\ v.pre < o.pre)
  BY <1>1, LessUnfolded, KeyType
<1>3. Less(Key(o), Key(v)) <=>
        \/ o.major < v.major
        \/ o.major = v.major /\ o.minor < v.minor
        \/ o.major = v.major /\ o.minor = v.minor /\ o.patch < v.patch
        \/ /\ o.major = v.major /\ o.minor = v.minor /\ o.patch = v.patch
           /\ (o.pre # 0 /\ v.pre = 0) \/ (o.pre # 0 /\ v.pre # 0 /\ o.pre < v.pre)
  BY <1>1, LessUnfolded, KeyType
<1>4. Key(v) = Key(o) <=>
        v.major = o.major /\ v.minor = o.minor /\ v.patch = o.patch /\ v.pre = o.pre
  BY <1>1 DEF Key
<1>5. CASE v.major # o.major
  BY <1>1, <1>2, <1>3, <1>4, <1>5 DEF Compare, cmp
<1>6. CASE v.major = o.major /\ v.minor # o.minor
  BY <1>1, <1>2, <1>3, <1>4, <1>6 DEF Compare, cmp
<1>7. CASE v.major = o.major /\ v.minor = o.minor /\ v.patch # o.patch
  BY <1>1, <1>2, <1>3, <1>4, <1>7 DEF Compare, cmp
<1>8. CASE v.major = o.major /\ v.minor = o.minor /\ v.patch = o.patch
  <2>1. Compare(v, o) = IF v.pre = o.pre THEN 0
                        ELSE IF v.pre = 0 THEN 1
                        ELSE IF o.pre = 0 THEN -1
                        ELSE cmp(v.pre, o.pre)
    BY <1>1, <1>8 DEF Compare
  <2> QED  BY <1>1, <1>2, <1>3, <1>4, <1>8, <2>1 DEF cmp
<1> QED
  BY <1>5, <1>6, <1>7, <1>8

\* semver.go:113-122.  A constraint holds of exactly the versions its comment
\* names: in particular "^1.2.0" is an interval that ends before 2.0.0 and the
\* pre-releases of it.
THEOREM ConstraintMeaning ==
  ASSUME NEW c \in Constraint, NEW v \in Version
  PROVE  Holds(c, v) <=> Means(c, v)
<1>1. c.ver \in Version /\ c.op \in Op
  BY DEF Constraint
<1> DEFINE o == c.ver
           order == Compare(v, o)
<1>2. /\ order \in {-1, 0, 1}
      /\ order < 0 <=> Less(Key(v), Key(o))
      /\ order > 0 <=> Less(Key(o), Key(v))
      /\ order = 0 <=> Key(v) = Key(o)
  BY <1>1, CompareIsLexicographic
<1>3. CASE c.op \in {"", "=", "<", "<=", ">", ">="}
  <2>1. CASE c.op \in {"", "="}
    BY <1>2, <2>1 DEF Holds, Means
  <2>2. CASE c.op = "<"
    BY <1>2, <2>2 DEF Holds, Means
  <2>3. CASE c.op = "<="
    <3>1. Holds(c, v) <=> order <= 0
      BY <2>3 DEF Holds
    <3>2. Means(c, v) <=> ~Less(Key(o), Key(v))
      BY <2>3 DEF Means
    <3> QED  BY <1>2, <3>1, <3>2
  <2>4. CASE c.op = ">"
    BY <1>2, <2>4 DEF Holds, Means
  <2>5. CASE c.op = ">="
    <3>1. Holds(c, v) <=> order >= 0
      BY <2>5 DEF Holds
    <3>2. Means(c, v) <=> ~Less(Key(v), Key(o))
      BY <2>5 DEF Means
    <3> QED  BY <1>2, <3>1, <3>2
  <2> QED  BY <1>3, <2>1, <2>2, <2>3, <2>4, <2>5
<1>4. CASE c.op = "^"
  <2>1. Holds(c, v) <=> v.major = o.major /\ order >= 0
    BY <1>4 DEF Holds
  <2>2. Means(c, v) <=>
          ~Less(Key(v), Key(o)) /\ Less(Key(v), <<Key(o)[1] + 1, 0, 0, 0, 0>>)
    BY <1>4 DEF Means
  <2>3. order >= 0 <=> ~Less(Key(v), Key(o))
    BY <1>2
  <2>4. /\ v.major \in Nat /\ v.minor \in Nat /\ v.patch \in Nat /\ v.pre \in Nat
        /\ o.major \in Nat
    BY <1>1 DEF Version
  <2> DEFINE u == <<Key(o)[1] + 1, 0, 0, 0, 0>>
  <2>5. u \in Int \X Int \X Int \X Int \X Int /\ u[1] = o.major + 1
        /\ u[2] = 0 /\ u[3] = 0 /\ u[4] = 0 /\ u[5] = 0
    BY <1>1, <2>4, KeyType
  <2>6. Less(Key(v), u) <=> v.major < o.major + 1
    <3> HIDE DEF u
    <3> QED  BY <2>4, <2>5, KeyType, LessUnfolded
  <2>7. ~Less(Key(v), Key(o)) => v.major >= o.major
    BY <1>1, <2>4, KeyType, LessUnfolded
  <2> QED  BY <2>1, <2>2, <2>3, <2>4, <2>6, <2>7
<1>5. CASE c.op = "~"
  <2>1. Holds(c, v) <=> v.major = o.major /\ v.minor = o.minor /\ order >= 0
    BY <1>5 DEF Holds
  <2>2. Means(c, v) <=>
          ~Less(Key(v), Key(o)) /\ Less(Key(v), <<Key(o)[1], Key(o)[2] + 1, 0, 0, 0>>)
    BY <1>5 DEF Means
  <2>3. order >= 0 <=> ~Less(Key(v), Key(o))
    BY <1>2
  <2>4. /\ v.major \in Nat /\ v.minor \in Nat /\ v.patch \in Nat /\ v.pre \in Nat
        /\ o.major \in Nat /\ o.minor \in Nat
    BY <1>1 DEF Version
  <2> DEFINE u == <<Key(o)[1], Key(o)[2] + 1, 0, 0, 0>>
  <2>5. u \in Int \X Int \X Int \X Int \X Int /\ u[1] = o.major /\ u[2] = o.minor + 1
        /\ u[3] = 0 /\ u[4] = 0 /\ u[5] = 0
    BY <1>1, <2>4, KeyType
  <2>6. Less(Key(v), u) <=>
          v.major < o.major \/ (v.major = o.major /\ v.minor < o.minor + 1)
    <3> HIDE DEF u
    <3> QED  BY <2>4, <2>5, KeyType, LessUnfolded
  <2>7. ~Less(Key(v), Key(o)) =>
          v.major > o.major \/ (v.major = o.major /\ v.minor >= o.minor)
    BY <1>1, <2>4, KeyType, LessUnfolded
  <2> QED  BY <2>1, <2>2, <2>3, <2>4, <2>6, <2>7
<1> QED
  BY <1>1, <1>3, <1>4, <1>5 DEF Op

\* semver.go:219-227.  A version is in a range exactly when every constraint of
\* the range means it.
THEOREM RangeMeaning ==
  ASSUME NEW r \in Seq(Constraint), NEW v \in Version
  PROVE  RangeMatches(r, v) <=> \A i \in DOMAIN r : Means(r[i], v)
<1>1. \A i \in DOMAIN r : r[i] \in Constraint
  OBVIOUS
<1> QED
  BY <1>1, ConstraintMeaning DEF RangeMatches

-----------------------------------------------------------------------------
(* The state of a query and of the store.                                  *)

\* A record as commands and imports leave it: no range of it is empty.
Ranges == {rec \in Record : Ranged(rec)}
Content == Ranges \cup {NoFile, Torn}
Path == Dir \cup {None}

\* What a query holds at each place of Matches.
Coordinate == UNION {DOMAIN p : p \in Inventory}
Matches == SUBSET (Coordinate \X Id)
AtComponent == [at : {"component"}, comps : Inventory, out : Matches, todo : SUBSET Coordinate]
AtRecords ==
  [at : {"records"}, comps : Inventory, out : Matches, todo : SUBSET Coordinate,
   component : Coordinate, ids : SUBSET Id]
Reading ==
  [at : {"reading"}, comps : Inventory, out : Matches, todo : SUBSET Coordinate,
   component : Coordinate, ids : SUBSET Id, id : Id, dir : Path]

Typed ==
  /\ project \in Inventory
  /\ files \in [Id -> [Dir -> Content]]
  /\ paths \in [Id -> Path]
  /\ comp \subseteq Component \X Id
  /\ writer \in {None} \cup Put /\ (writer # None => writer.record \in Ranges)
  /\ query \in {Idle} \cup AtComponent \cup AtRecords \cup Reading
  /\ held \in [Id -> SUBSET Ranges]
  /\ busy \subseteq Id

\* A Put is at the record.
Writing(id) == writer # None /\ writer.id = id

\* Store.Put.  Until the file is written the path is the old one and the new
\* file torn; then the path leads to the new file.
PutGoesOn ==
  writer # None =>
    /\ ~writer.written => paths[writer.id] = writer.old /\ files[writer.id][writer.dir] = Torn
    /\ writer.written =>
         paths[writer.id] = writer.dir /\ files[writer.id][writer.dir] = writer.record

\* There is one file of a record, at its path, but while a Put moves it, and
\* unless a Put is at it, it can be read.
Placed ==
  \A id \in Id :
    /\ \A d \in Dir : files[id][d] \in Ranges =>
         d = paths[id] \/ (Writing(id) /\ writer.written /\ d = writer.old)
    /\ paths[id] # None /\ ~Writing(id) => Stored(id) \in Ranges

\* The component index lacks no component of a live record, but while a Put
\* has written the record and not indexed it yet.
IndexKnows ==
  \A id \in Id :
    Stored(id) \in Ranges /\ ~Stored(id).deleted /\ ~(Writing(id) /\ writer.written) =>
      \A c \in DOMAIN Stored(id).affected : <<c, id>> \in comp

\* What a query could read of a record is held.
Held ==
  query # Idle =>
    /\ \A id \in Id : Stored(id) \in Ranges => Stored(id) \in held[id]
    /\ query.at = "reading" =>
         LET content == ContentAt(query.id, query.dir) IN
         content \in Ranges => content \in held[query.id]

\* The query looks at components with a version only; a Put under way is at a
\* busy record, and the path of any other is still the one the query took.
QueryGoesOn ==
  query # Idle =>
    /\ query.todo \subseteq Versioned
    /\ query.at # "component" => query.component \in Versioned
    /\ query.at = "reading" => query.id \in query.ids
    /\ writer # None => writer.id \in busy
    /\ query.at = "reading" /\ query.id \notin busy => query.dir = paths[query.id]

\* The record affects the component in the project's version.
Due(id, c) == paths[id] # None /\ Affects(Stored(id), c, query.comps[c])

\* The query has reported the record for the component or has yet to look.
Ahead(id, c) ==
  \/ c \in query.todo
  \/ query.at # "component" /\ query.component = c /\ id \in query.ids
  \/ <<c, id>> \in query.out

NoneForgotten ==
  query # Idle => \A id \in Id \ busy, c \in Versioned : Due(id, c) => Ahead(id, c)

\* The ranges of the record are those mapping.go makes of the OSV record.
Recorded(rec, adv) ==
  /\ ~rec.deleted
  /\ DOMAIN rec.affected = {d.component : d \in Declared(Map(adv).inputs)}
  /\ \A d \in Declared(Map(adv).inputs) : rec.affected[d.component].range = d.range

\* What the store holds of a record, or will when the Put at it is done.
Current(id) == IF Writing(id) THEN writer.record ELSE Stored(id)

ImportedIs ==
  /\ imported \in [Id -> Feed \cup {None}]
  /\ \A id \in Id : imported[id] # None =>
       Recorded(Current(id), imported[id]) /\ (paths[id] # None \/ Writing(id))

\* No record but one that a Put was at has changed since the query began.
HeldOnly == query # Idle => \A id \in Id \ busy : held[id] \subseteq {Stored(id)}

Safe ==
  /\ Typed /\ PutGoesOn /\ Placed /\ IndexKnows
  /\ Held /\ QueryGoesOn /\ MatchesJustified /\ NoneForgotten
  /\ ImportedIs /\ HeldOnly
-----------------------------------------------------------------------------
(* Files, queries and ranges.                                              *)

LEMMA KindsDiffer ==
  /\ NoRecord \notin Record /\ NoFile \notin Record /\ Torn \notin Record
  /\ NoFile # Torn
<1>1. \A r \in Record : DOMAIN r = {"meta", "source", "deleted", "affected"}
  BY DEF Record
<1>2. DOMAIN NoRecord = {"kind"} /\ DOMAIN NoFile = {"kind"} /\ DOMAIN Torn = {"kind"}
  BY DEF NoRecord, NoFile, Torn
<1>3. {"meta", "source", "deleted", "affected"} # {"kind"}
  OBVIOUS
<1>4. NoFile # Torn
  <2>1. NoFile.kind = "no file" /\ Torn.kind = "torn"
    BY DEF NoFile, Torn
  <2> QED  BY <2>1
<1> QED  BY <1>1, <1>2, <1>3, <1>4

LEMMA QueryIs ==
  ASSUME Typed
  PROVE  /\ query # Idle => query.at \in {"component", "records", "reading"}
         /\ query.at = "component" => query \in AtComponent
         /\ query.at = "records" => query \in AtRecords
         /\ query.at = "reading" => query \in Reading
BY DEF Typed, Idle, AtComponent, AtRecords, Reading

LEMMA QueryFields ==
  ASSUME Typed, query # Idle
  PROVE  /\ query.comps \in Inventory /\ query.out \subseteq Coordinate \X Id
         /\ query.todo \subseteq Coordinate
         /\ query.at # "component" => query.component \in Coordinate /\ query.ids \subseteq Id
         /\ query.at = "reading" => query.id \in Id /\ query.dir \in Path
BY QueryIs DEF AtComponent, AtRecords, Reading, Matches

LEMMA ContentType ==
  ASSUME Typed, NEW id \in Id
  PROVE  /\ paths[id] \in Path
         /\ Stored(id) \in Content
         /\ \A p \in Path : ContentAt(id, p) \in Content
BY DEF Typed, ContentAt, Stored, Path, Content

LEMMA SmallestId ==
  ASSUME NEW S \in SUBSET Id, S # {}
  PROVE  Min(S) \in S
<1>1. S \subseteq Nat
  BY IdAssumption
<1>2. PICK i \in S : \A j \in S : ~ (<<j, i>> \in OpToRel(<, Nat))
  BY <1>1, NatLessThanWellFounded, WFMin, Zenon
<1>3. \A j \in S : ~ (j < i)
  BY <1>1, <1>2 DEF OpToRel
<1>4. \A j \in S : i <= j
  BY <1>1, <1>3
<1> QED  BY <1>4 DEF Min

LEMMA ParseType ==
  ASSUME NEW s \in Written
  PROVE  Parse(s) \in Version \cup {Invalid}
BY DEF Parse, Written, Version

LEMMA InvalidIsNone == Invalid \notin Version /\ Invalid \notin Constraint
<1>1. DOMAIN Invalid = {"error"}
  BY DEF Invalid
<1>2. \A v \in Version : DOMAIN v = {"major", "minor", "patch", "pre"}
  BY DEF Version
<1>3. \A c \in Constraint : DOMAIN c = {"op", "ver"}
  BY DEF Constraint
<1>4. {"error"} # {"major", "minor", "patch", "pre"} /\ {"error"} # {"op", "ver"}
  OBVIOUS
<1> QED  BY <1>1, <1>2, <1>3, <1>4

\* projection.go:116-124.  The test of Matches is what the record says: the
\* component is affected, the range can be read, and each of its parts means
\* the version.
LEMMA AppliesIsAffects ==
  ASSUME NEW rec \in Ranges, NEW c, NEW version \in Written, Parse(version) # Invalid
  PROVE  Affects(rec, c, version) <=> ~rec.deleted /\ Applies(rec, c, version)
<1>1. CASE c \in DOMAIN rec.affected
  <2> DEFINE Part == [op : Op, version : Written]
             expr == rec.affected[c].range
             r == ParseRangeExpr(expr)
             v == Parse(version)
  <2>1. v \in Version
    BY ParseType
  <2>2. expr \in Seq(Part)
    <3>1. expr \in VersionRange
      BY <1>1, RecordFields DEF Ranges, Ranged, AffectedRange
    <3> QED  BY <3>1, RangeAssumption
  <2>3. Affects(rec, c, version)
          <=> ~rec.deleted /\ r # <<>> /\ \A part \in ToSet(expr) : Means(ParseRange(part), v)
    BY <1>1 DEF Affects
  <2>4. Applies(rec, c, version) <=> r # <<>> /\ RangeMatches(r, v)
    BY <1>1 DEF Applies
  <2>5. ASSUME r # <<>>
        PROVE  RangeMatches(r, v) <=> \A part \in ToSet(expr) : Means(ParseRange(part), v)
    <3> HIDE DEF expr, v
    <3>1. \A i \in DOMAIN expr : ParseRange(expr[i]) # Invalid
      BY <2>5 DEF ParseRangeExpr
    <3>2. r = [i \in DOMAIN expr |-> ParseRange(expr[i])]
      BY <3>1 DEF ParseRangeExpr
    <3>3. \A i \in DOMAIN expr : ParseRange(expr[i]) \in Constraint
      <4> SUFFICES ASSUME NEW i \in DOMAIN expr PROVE ParseRange(expr[i]) \in Constraint
        OBVIOUS
      <4>1. expr[i] \in Part
        <5> HIDE DEF Part
        <5> QED  BY <2>2, ElementOfSeq
      <4>2. ParseRange(expr[i]) = [op |-> expr[i].op, ver |-> Parse(expr[i].version)]
            /\ Parse(expr[i].version) # Invalid
        BY <3>1 DEF ParseRange
      <4>3. Parse(expr[i].version) \in Version
        BY <4>1, <4>2, ParseType
      <4> QED  BY <4>1, <4>2, <4>3 DEF Constraint
    <3>4. DOMAIN expr = 1..Len(expr) /\ Len(expr) \in Nat
      BY <2>2
    <3> HIDE DEF r
    <3>5. r \in Seq(Constraint) /\ DOMAIN r = DOMAIN expr
      BY <3>2, <3>3, <3>4
    <3>6. RangeMatches(r, v) <=> \A i \in DOMAIN r : Means(r[i], v)
      BY <2>1, <3>5, RangeMeaning
    <3>7. \A i \in DOMAIN r : r[i] = ParseRange(expr[i])
      BY <3>2, <3>5
    <3> QED  BY <3>5, <3>6, <3>7 DEF ToSet
  <2> QED  BY <2>3, <2>4, <2>5
<1>2. CASE c \notin DOMAIN rec.affected
  BY <1>2 DEF Affects, Applies
<1> QED  BY <1>1, <1>2
-----------------------------------------------------------------------------
(* From an OSV record to the ranges of a record.                           *)

\* The parts of an OSV record.
LEMMA OsvParts ==
  ASSUME NEW adv \in OsvRecord, NEW a \in ToSet(adv.affected)
  PROVE  /\ a \in OsvAffected
         /\ \A rg \in ToSet(a.ranges) : rg \in OsvRange
<1>1. adv.affected \in Seq(OsvAffected)
  BY DEF OsvRecord
<1>2. a \in OsvAffected
  BY <1>1, ElementOfSeq DEF ToSet
<1>3. a.ranges \in Seq(OsvRange)
  BY <1>2 DEF OsvAffected
<1>4. \A rg \in ToSet(a.ranges) : rg \in OsvRange
  BY <1>3, ElementOfSeq DEF ToSet
<1> QED  BY <1>2, <1>4

\* mapping.go:37-73.  What Map makes of an OSV record is an import without
\* empty ranges.
LEMMA MapType ==
  ASSUME NEW adv \in Feed
  PROVE  Map(adv) \in Command /\ \A d \in Map(adv).inputs : d.range # Empty
<1>1. adv \in OsvRecord /\ \A d \in Map(adv).inputs : d.range \in VersionRange
  BY FeedAssumption
<1>2. /\ Map(adv).inputs = UNION {RangesOf(a) :
                                     a \in {x \in ToSet(adv.affected) : ComponentOf(x) # Empty}}
      /\ Map(adv).op = "import" /\ Map(adv).meta = adv.summary
  BY DEF Map
<1>3. ASSUME NEW d \in Map(adv).inputs
      PROVE  d \in Input
  <2>1. PICK a \in ToSet(adv.affected) : d \in RangesOf(a)
    BY <1>2
  <2>2. /\ a.purl \in Component \cup {Empty} /\ a.name \in Component \cup {Empty}
        /\ a.ecosystem \in Ecosystem \cup {Empty}
    BY <1>1, <1>2, OsvParts DEF OsvAffected
  <2>3. PICK rg \in ToSet(a.ranges) :
          d = [component |-> ComponentOf(a), range |-> rangeFromEvents(rg.events),
               ecosystem |-> a.ecosystem]
    BY <2>1 DEF RangesOf
  <2>4. d.range \in VersionRange
    BY <1>1
  <2> QED  BY <2>2, <2>3, <2>4 DEF Input, ComponentOf
<1>4. adv.summary \in Meta \cup {Empty}
  BY <1>1 DEF OsvRecord
<1>5. Map(adv) \in Command
  <2>1. PICK inputs : inputs = Map(adv).inputs
    OBVIOUS
  <2>2. Map(adv) = [op |-> "import", meta |-> adv.summary, inputs |-> inputs]
    BY <1>2, <2>1 DEF Map
  <2>3. inputs \in SUBSET Input
    BY <1>3, <2>1
  <2> QED  BY <1>4, <2>2, <2>3 DEF Command
<1> QED  BY <1>1, <1>5, EmptyIsNoValue

\* The only element is the greatest.
LEMMA MaxOfOne ==
  ASSUME NEW i \in Nat
  PROVE  {i} # {} /\ Max({i}) = i
BY DEF Max

\* A bound as mapping.go writes it is a constraint on the version written.
LEMMA BoundMeans ==
  ASSUME NEW op \in Op, NEW s \in Written, Len(s.parts) = 3, NEW v \in Version
  PROVE  \E part \in [op : Op, version : Written] :
           /\ Bound(op, s) = <<part>> /\ ParseRange(part) # Invalid
           /\ op = ">=" => (Means(ParseRange(part), v) <=> ~Less(Key(v), VersionKey(s)))
           /\ op = "<" => (Means(ParseRange(part), v) <=> Less(Key(v), VersionKey(s)))
           /\ op = "<=" => (Means(ParseRange(part), v) <=> ~Less(VersionKey(s), Key(v)))
<1>1. PICK t : t = normalizeVersion(s)
  OBVIOUS
<1> DEFINE part == [op |-> op, version |-> t]
<1>2. Parse(t) \in Version /\ Parse(t) # Invalid /\ t \in Written
  <2>1. t \in Written /\ ~t.v /\ Len(t.parts) = 3
    BY <1>1 DEF normalizeVersion, Written
  <2>2. Parse(t) # Invalid
    <3>1. Parse(t) = [major |-> t.parts[1], minor |-> t.parts[2], patch |-> t.parts[3],
                      pre |-> t.pre]
      BY <2>1 DEF Parse
    <3>2. DOMAIN Parse(t) = {"major", "minor", "patch", "pre"} /\ DOMAIN Invalid = {"error"}
      BY <3>1 DEF Invalid
    <3>3. {"error"} # {"major", "minor", "patch", "pre"}
      OBVIOUS
    <3> QED  BY <3>2, <3>3
  <2> QED  BY <2>1, <2>2, ParseType
<1>3. VersionKey(s) = Key(Parse(t))
  BY <1>1 DEF VersionKey
<1>4. Bound(op, s) = <<part>>
  BY <1>1 DEF Bound
<1>5. ParseRange(part) = [op |-> op, ver |-> Parse(t)] /\ ParseRange(part) # Invalid
  <2>1. ParseRange(part) = [op |-> op, ver |-> Parse(t)]
    BY <1>2 DEF ParseRange
  <2>2. ParseRange(part) \in Constraint
    BY <1>2, <2>1 DEF Constraint
  <2> QED  BY <2>1, <2>2, InvalidIsNone
<1>6. PICK c : c = ParseRange(part)
  OBVIOUS
<1>7. c.op = op /\ c.ver = Parse(t)
  BY <1>5, <1>6
<1>8. /\ op = ">=" => (Means(c, v) <=> ~Less(Key(v), Key(c.ver)))
      /\ op = "<" => (Means(c, v) <=> Less(Key(v), Key(c.ver)))
      /\ op = "<=" => (Means(c, v) <=> ~Less(Key(c.ver), Key(v)))
  <2>1. CASE op = ">="
    BY <1>7, <2>1 DEF Means
  <2>2. CASE op = "<"
    BY <1>7, <2>2 DEF Means
  <2>3. CASE op = "<="
    BY <1>7, <2>3 DEF Means
  <2> QED  BY <2>1, <2>2, <2>3
<1>9. part \in [op : Op, version : Written]
  BY <1>2
<1> HIDE DEF part
<1> QED  BY <1>3, <1>4, <1>5, <1>6, <1>7, <1>8, <1>9

\* The events mapping.go is made for, with a bound among them.
Bounded(events) ==
  /\ Len(events) \in {1, 2} /\ events[1].kind = "introduced"
  /\ Len(events) = 2 => events[2].kind # "introduced"
  /\ \A e \in ToSet(events) :
       Len(e.version.parts) = 3 \/ (e.kind = "introduced" /\ e.version = Zero)
  /\ ~(Len(events) = 1 /\ events[1].version = Zero)

\* The range rng is not the error and means of v what the events say.
Says(rng, events, v) ==
  /\ rng # <<>> /\ ParseRangeExpr(rng) # <<>>
  /\ (\A part \in ToSet(rng) : Means(ParseRange(part), v)) <=> InEvents(events, Key(v))

\* A range of one part, or of two, that are no errors.
LEMMA OnePart ==
  ASSUME NEW p, ParseRange(p) # Invalid
  PROVE  <<p>> # <<>> /\ ParseRangeExpr(<<p>>) # <<>> /\ ToSet(<<p>>) = {p}
<1>1. DOMAIN <<p>> = {1} /\ <<p>>[1] = p
  OBVIOUS
<1>2. ParseRangeExpr(<<p>>) = [i \in {1} |-> ParseRange(<<p>>[i])]
  BY <1>1 DEF ParseRangeExpr
<1>3. DOMAIN ParseRangeExpr(<<p>>) = {1} /\ DOMAIN <<>> = {}
  BY <1>2
<1>4. ParseRangeExpr(<<p>>) # <<>>
  BY <1>3
<1> QED  BY <1>1, <1>4 DEF ToSet

LEMMA TwoParts ==
  ASSUME NEW p, NEW q, ParseRange(p) # Invalid, ParseRange(q) # Invalid
  PROVE  /\ <<p>> \o <<q>> # <<>> /\ ParseRangeExpr(<<p>> \o <<q>>) # <<>>
         /\ ToSet(<<p>> \o <<q>>) = {p, q}
<1>1. PICK r : r = <<p>> \o <<q>>
  OBVIOUS
<1>2. DOMAIN r = {1, 2} /\ r[1] = p /\ r[2] = q
  <2>1. <<p>> \in Seq({p, q}) /\ <<q>> \in Seq({p, q})
    OBVIOUS
  <2>2. Len(<<p>>) = 1 /\ Len(<<q>>) = 1 /\ <<p>>[1] = p /\ <<q>>[1] = q
    OBVIOUS
  <2>3. /\ r \in Seq({p, q}) /\ Len(r) = 2
        /\ \A i \in 1..2 : r[i] = IF i <= 1 THEN <<p>>[i] ELSE <<q>>[i - 1]
    BY <1>1, <2>1, <2>2, ConcatProperties
  <2> QED  BY <2>2, <2>3
<1>3. ParseRangeExpr(r) = [i \in {1, 2} |-> ParseRange(r[i])]
  BY <1>2 DEF ParseRangeExpr
<1>4. DOMAIN ParseRangeExpr(r) = {1, 2} /\ DOMAIN <<>> = {}
  BY <1>3
<1>5. ParseRangeExpr(r) # <<>> /\ r # <<>>
  BY <1>2, <1>4
<1>6. ToSet(r) = {p, q}
  BY <1>2 DEF ToSet
<1> QED  BY <1>1, <1>5, <1>6

\* mapping.go:79-102.  A range made of the common events means what they say.
LEMMA RangeSays ==
  ASSUME NEW events \in Seq(OsvEvent), Bounded(events), NEW v \in Version
  PROVE  Says(rangeFromEvents(events), events, v)
<1> DEFINE first == events[1]
           s == first.version
           k == Key(v)
<1>1. first \in OsvEvent /\ s \in Written /\ first.kind = "introduced"
  <2>1. 1 \in DOMAIN events
    BY DEF Bounded
  <2>2. first \in OsvEvent
    BY <2>1, ElementOfSeq
  <2> QED  BY <2>2 DEF Bounded, OsvEvent
<1>2. s = Zero \/ Len(s.parts) = 3
  BY DEF Bounded, ToSet
<1>3. s # Zero => \E p : /\ Lower(<<s>>) = <<p>> /\ ParseRange(p) # Invalid
                         /\ Means(ParseRange(p), v) <=> ~Less(k, VersionKey(s))
  <2>1. s # Zero => Lower(<<s>>) = Bound(">=", s)
    <3>1. <<s>> # <<>> /\ (s # Zero => <<s>> # <<Zero>>) /\ <<s>>[1] = s
      OBVIOUS
    <3> QED  BY <3>1 DEF Lower
  <2>2. ">=" \in Op
    BY DEF Op
  <2> QED  BY <1>1, <1>2, <2>1, <2>2, BoundMeans
<1>4. Lower(<<Zero>>) = <<>>
  BY DEF Lower
<1>5. CASE Len(events) = 1
  <2>1. DOMAIN events = {1} /\ ToSet(events) = {first}
    BY <1>5 DEF ToSet
  <2>2. LastOf(events, "introduced") = <<s>>
    <3>1. {i \in DOMAIN events : events[i].kind = "introduced"} = {1}
      BY <1>1, <2>1
    <3> QED  BY <3>1, MaxOfOne DEF LastOf
  <2>3. LastOf(events, "fixed") = <<>> /\ LastOf(events, "last_affected") = <<>>
    <3>1. {i \in DOMAIN events : events[i].kind = "fixed"} = {}
          /\ {i \in DOMAIN events : events[i].kind = "last_affected"} = {}
      BY <1>1, <2>1
    <3> QED  BY <3>1 DEF LastOf
  <2>4. s # Zero
    BY <1>5 DEF Bounded
  <2>5. PICK p : /\ Lower(<<s>>) = <<p>> /\ ParseRange(p) # Invalid
                 /\ Means(ParseRange(p), v) <=> ~Less(k, VersionKey(s))
    BY <1>3, <2>4
  <2>6. rangeFromEvents(events) = <<p>>
    BY <2>2, <2>3, <2>5 DEF rangeFromEvents, Upper
  <2>7. InEvents(events, k) <=> ~Less(k, VersionKey(s))
    BY <1>1, <2>1, <2>4 DEF InEvents
  <2> QED  BY <2>5, <2>6, <2>7, OnePart DEF Says
<1>6. CASE Len(events) = 2
  <2> DEFINE last == events[2]
             t == last.version
  <2>1. DOMAIN events = {1, 2} /\ ToSet(events) = {first, last}
    BY <1>6 DEF ToSet
  <2>2. last \in OsvEvent /\ t \in Written /\ last.kind \in {"fixed", "last_affected"}
    <3>1. last \in OsvEvent
      BY <2>1, ElementOfSeq
    <3> QED  BY <1>6, <3>1 DEF Bounded, OsvEvent
  <2>3. Len(t.parts) = 3
    BY <2>1, <2>2 DEF Bounded
  <2>4. LastOf(events, "introduced") = <<s>>
    <3>1. {i \in DOMAIN events : events[i].kind = "introduced"} = {1}
      BY <1>1, <2>1, <2>2
    <3> QED  BY <3>1, MaxOfOne DEF LastOf
  <2>5. \A kind \in {"fixed", "last_affected"} :
          LastOf(events, kind) = IF kind = last.kind THEN <<t>> ELSE <<>>
    <3> SUFFICES ASSUME NEW kind \in {"fixed", "last_affected"}
                 PROVE  LastOf(events, kind) = IF kind = last.kind THEN <<t>> ELSE <<>>
      OBVIOUS
    <3>1. {i \in DOMAIN events : events[i].kind = kind} = IF kind = last.kind THEN {2} ELSE {}
      BY <1>1, <2>1
    <3> QED  BY <3>1, MaxOfOne DEF LastOf
  <2> DEFINE upper == Upper(LastOf(events, "fixed"), LastOf(events, "last_affected"))
  <2>6. \E q : /\ upper = <<q>> /\ ParseRange(q) # Invalid
               /\ last.kind = "fixed" =>
                    (Means(ParseRange(q), v) <=> Less(k, VersionKey(t)))
               /\ last.kind = "last_affected" =>
                    (Means(ParseRange(q), v) <=> ~Less(VersionKey(t), k))
    <3>1. <<t>> # <<>> /\ <<t>>[1] = t
      OBVIOUS
    <3>2. upper = IF last.kind = "fixed" THEN Bound("<", t) ELSE Bound("<=", t)
      BY <2>2, <2>5, <3>1 DEF Upper
    <3>3. "<" \in Op /\ "<=" \in Op
      BY DEF Op
    <3> QED  BY <2>2, <2>3, <3>2, <3>3, BoundMeans
  <2>7. PICK q : /\ upper = <<q>> /\ ParseRange(q) # Invalid
                 /\ last.kind = "fixed" =>
                      (Means(ParseRange(q), v) <=> Less(k, VersionKey(t)))
                 /\ last.kind = "last_affected" =>
                      (Means(ParseRange(q), v) <=> ~Less(VersionKey(t), k))
    BY <2>6
  <2>8. rangeFromEvents(events) = Lower(<<s>>) \o <<q>>
    BY <2>4, <2>7 DEF rangeFromEvents
  <2>9. InEvents(events, k) <=>
          (s = Zero \/ ~Less(k, VersionKey(s))) /\ Means(ParseRange(q), v)
    BY <1>1, <2>1, <2>2, <2>7 DEF InEvents
  <2>10. CASE s = Zero
    <3>1. rangeFromEvents(events) = <<q>>
      BY <1>4, <2>8, <2>10
    <3> QED  BY <2>7, <2>9, <2>10, <3>1, OnePart DEF Says
  <2>11. CASE s # Zero
    <3>1. PICK p : /\ Lower(<<s>>) = <<p>> /\ ParseRange(p) # Invalid
                   /\ Means(ParseRange(p), v) <=> ~Less(k, VersionKey(s))
      BY <1>3, <2>11
    <3>2. rangeFromEvents(events) = <<p>> \o <<q>>
      BY <2>8, <3>1
    <3>3. /\ <<p>> \o <<q>> # <<>> /\ ParseRangeExpr(<<p>> \o <<q>>) # <<>>
          /\ ToSet(<<p>> \o <<q>>) = {p, q}
      BY <2>7, <3>1, TwoParts
    <3>4. (\A part \in {p, q} : Means(ParseRange(part), v)) <=> InEvents(events, Key(v))
      BY <2>9, <2>11, <3>1
    <3> QED  BY <3>2, <3>3, <3>4 DEF Says
  <2> QED  BY <2>10, <2>11
<1> QED  BY <1>5, <1>6 DEF Bounded

\* What a record that is an import of an OSV record says is what that says.
LEMMA AdvisoryMeans ==
  ASSUME NEW adv \in Feed, Common(adv), ~OpenEnded(adv), NEW rec, Recorded(rec, adv),
         NEW c, c # Empty, NEW version, Parse(version) \in Version
  PROVE  Affects(rec, c, version) <=> OsvAffects(adv, c, version)
<1> DEFINE v == Parse(version)
<1>1. adv \in OsvRecord
  BY FeedAssumption
<1>2. ASSUME NEW a \in ToSet(adv.affected), NEW rg \in ToSet(a.ranges), rg.type # "GIT"
      PROVE  Says(rangeFromEvents(rg.events), rg.events, v)
  <2>1. rg \in OsvRange
    BY <1>1, OsvParts
  <2>2. rg.events \in Seq(OsvEvent)
    BY <2>1 DEF OsvRange
  <2>3. Bounded(rg.events)
    BY <1>2 DEF Common, OpenEnded, Bounded
  <2> QED  BY <2>2, <2>3, RangeSays
<1>3. ASSUME Affects(rec, c, version)
      PROVE  OsvAffects(adv, c, version)
  <2>1. PICK d \in Map(adv).inputs : d.component = c
    BY <1>3 DEF Affects, Recorded, Declared
  <2>2. rec.affected[c].range = d.range
    BY <2>1 DEF Recorded, Declared
  <2>3. PICK a \in ToSet(adv.affected) : d \in RangesOf(a)
    BY <2>1 DEF Map
  <2>4. PICK rg \in ToSet(a.ranges) :
          /\ d = [component |-> ComponentOf(a), range |-> rangeFromEvents(rg.events),
                  ecosystem |-> a.ecosystem]
          /\ rg.type \in {"ECOSYSTEM", "SEMVER"}
    BY <2>3 DEF RangesOf
  <2>5. c = ComponentOf(a) /\ rec.affected[c].range = rangeFromEvents(rg.events)
    BY <2>1, <2>2, <2>4
  <2>6. InEvents(rg.events, Key(v))
    BY <1>2, <1>3, <2>4, <2>5 DEF Affects, Says
  <2> QED  BY <2>4, <2>5, <2>6 DEF OsvAffects, ComponentOf
<1>4. ASSUME OsvAffects(adv, c, version)
      PROVE  Affects(rec, c, version)
  <2>1. PICK a \in ToSet(adv.affected) : \E rg \in ToSet(a.ranges) :
          c = ComponentOf(a) /\ rg.type # "GIT" /\ InEvents(rg.events, Key(v))
    BY <1>4 DEF OsvAffects, ComponentOf
  <2>2. PICK rg \in ToSet(a.ranges) :
          c = ComponentOf(a) /\ rg.type # "GIT" /\ InEvents(rg.events, Key(v))
    BY <2>1
  <2>3. Says(rangeFromEvents(rg.events), rg.events, v)
    BY <1>2, <2>2
  <2>4. rg \in OsvRange
    BY <1>1, OsvParts
  <2>5. PICK d : d = [component |-> ComponentOf(a), range |-> rangeFromEvents(rg.events),
                      ecosystem |-> a.ecosystem]
    OBVIOUS
  <2>6. d \in RangesOf(a)
    BY <2>2, <2>3, <2>4, <2>5 DEF RangesOf, OsvRange, Says
  <2>7. d \in Map(adv).inputs
    BY <2>2, <2>6 DEF Map
  <2>8. d \in Declared(Map(adv).inputs) /\ d.component = c
    BY <2>2, <2>5, <2>7 DEF Declared
  <2>9. c \in DOMAIN rec.affected /\ rec.affected[c].range = rangeFromEvents(rg.events)
    BY <2>5, <2>8 DEF Recorded
  <2> QED  BY <2>2, <2>3, <2>9 DEF Affects, Says, Recorded
<1> QED  BY <1>3, <1>4

-----------------------------------------------------------------------------
(* What the actions do.                                                    *)

\* What the record of an id was last made from: with the new record of a Put,
\* the OSV record it is an import of, or nothing.
MadeFrom(id, rec) ==
  \E source \in Feed \cup {None} :
    /\ imported' = [imported EXCEPT ![id] = source]
    /\ source # None => Recorded(rec, source)

\* A Put begins: what PutStart does for an import or another command.
PutBegins(id, d, rec) ==
  /\ writer = None
  /\ writer' = [id |-> id, dir |-> d, old |-> paths[id], written |-> FALSE, record |-> rec]
  /\ files' = [files EXCEPT ![id][d] = Torn]
  /\ busy' = IF query = Idle THEN {} ELSE busy \cup {id}
  /\ UNCHANGED <<project, paths, comp, query, held>>
  /\ MadeFrom(id, rec)

LEMMA BeginPut ==
  ASSUME Typed, writer = None, NEW id \in Id, NEW cmd \in Command,
         NEW source \in Feed \cup {None}, Change(id, cmd, source),
         cmd.op \in {"import", "reconcile"} => \A d \in cmd.inputs : d.range # Empty,
         source # None => cmd = Map(source)
  PROVE  \E d \in Dir, rec \in Ranges : PutBegins(id, d, rec)
<1> DEFINE v == Found(Stored(id))
           rec == Result(v, cmd)
<1>1. v \in Record \cup {NoRecord} /\ (v \in Record => Ranged(v))
  BY ContentType, KindsDiffer DEF Found, Content, Ranges
<1>2. Accepts(v, cmd) /\ PutStart(id, rec, source)
  BY DEF Change
<1>3. rec \in Ranges
  BY <1>1, <1>2, ResultType, ResultRanges DEF Ranges
<1>4. PICK d \in Dir :
        /\ writer' = [id |-> id, dir |-> d, old |-> paths[id], written |-> FALSE, record |-> rec]
        /\ files' = [files EXCEPT ![id][d] = Torn]
  BY <1>2 DEF PutStart
<1>5. source # None => Recorded(rec, source)
  <2>1. source # None => Map(source).op = "import"
    BY DEF Map
  <2> QED  BY <1>1, <1>2, <2>1, ImportDeclares DEF Recorded
<1>6. imported' = [imported EXCEPT ![id] = source]
  BY <1>2 DEF PutStart
<1>7. MadeFrom(id, rec)
  BY <1>5, <1>6 DEF MadeFrom
<1> HIDE DEF rec
<1>8. PutBegins(id, d, rec)
  BY <1>2, <1>4, <1>7 DEF PutStart, PutBegins
<1> QED  BY <1>3, <1>8

LEMMA ImportBegins ==
  ASSUME Typed, writer = None, NEW id \in Id, NEW adv \in Feed, Import(id, adv)
  PROVE  \E d \in Dir, rec \in Ranges : PutBegins(id, d, rec)
<1> DEFINE cmd == Map(adv)
<1>1. cmd \in Command /\ \A d \in cmd.inputs : d.range # Empty
  BY MapType
<1>2. Change(id, cmd, adv)
  BY DEF Import
<1> HIDE DEF cmd
<1> QED  BY <1>1, <1>2, BeginPut DEF cmd

LEMMA ExecuteBegins ==
  ASSUME Typed, writer = None, NEW id \in Id, NEW cmd \in Manual, Execute(id, cmd)
  PROVE  \E d \in Dir, rec \in Ranges : PutBegins(id, d, rec)
<1>1. cmd \in Command /\ cmd.op \in {"add", "remove", "delete"}
  BY ManualAssumption
<1>2. Change(id, cmd, None)
  BY DEF Execute
<1> QED  BY <1>1, <1>2, BeginPut

\* The steps that are neither a Put's nor a query's leave both alone.
Aside == UNCHANGED <<store, query, held, busy, imported>>

LEMMA Steps ==
  ASSUME Typed, [Next]_vars
  PROVE  \/ Aside /\ project' \in Inventory
         \/ \E id \in Id, d \in Dir, rec \in Ranges : PutBegins(id, d, rec)
         \/ PutWrite \/ PutFinish \/ Start
         \/ \E c \in query.todo : query.at = "component" /\ LookUp(c)
         \/ GetPath \/ Read \/ NextComponent \/ Return
<1>1. CASE UNCHANGED vars
  BY <1>1 DEF vars, history, Aside, Typed
<1>2. CASE ChangeProject
  BY <1>2 DEF ChangeProject, history, Aside
<1>3. ASSUME Begin
      PROVE  \E i \in Id, d \in Dir, rec \in Ranges : PutBegins(i, d, rec)
  <2>1. ASSUME NEW id \in Id, NEW adv \in Feed, Import(id, adv)
        PROVE  \E i \in Id, d \in Dir, rec \in Ranges : PutBegins(i, d, rec)
    BY <1>3, <2>1, ImportBegins DEF Begin
  <2>2. ASSUME NEW id \in Id, NEW cmd \in Manual, Execute(id, cmd)
        PROVE  \E i \in Id, d \in Dir, rec \in Ranges : PutBegins(i, d, rec)
    BY <1>3, <2>2, ExecuteBegins DEF Begin
  <2> QED  BY <1>3, <2>1, <2>2 DEF Begin
<1> QED  BY <1>1, <1>2, <1>3 DEF Next

LEMMA PutIs ==
  ASSUME Typed, writer # None
  PROVE  /\ writer.id \in Id /\ writer.dir \in Dir /\ writer.old \in Path
         /\ writer.written \in BOOLEAN /\ writer.record \in Ranges
         /\ writer \in [id : Id, dir : Dir, old : Path, written : BOOLEAN, record : Ranges]
BY DEF Typed, Put, Path

\* Files, paths and the writer after each step of a Put.
LEMMA BegunIs ==
  ASSUME Typed, NEW id \in Id, NEW d \in Dir, NEW rec \in Ranges, PutBegins(id, d, rec)
  PROVE  /\ writer' # None /\ writer' \in Put /\ ~writer'.written
         /\ writer'.id = id /\ writer'.dir = d /\ writer'.old = paths[id]
         /\ writer'.record = rec
         /\ files' \in [Id -> [Dir -> Content]] /\ files'[id][d] = Torn
         /\ \A i \in Id, p \in Dir : i # id \/ p # d => files'[i][p] = files[i][p]
         /\ \A i \in Id : Stored(i)' = IF i = id /\ paths[i] = d THEN Torn ELSE Stored(i)
<1>1. writer' \in Put
  BY ContentType DEF PutBegins, Put, Ranges, Path
<1>2. writer' # None
  BY <1>1, IdAssumption
<1>3. /\ ~writer'.written /\ writer'.id = id /\ writer'.dir = d /\ writer'.old = paths[id]
      /\ writer'.record = rec
  BY DEF PutBegins
<1>4. files' = [files EXCEPT ![id][d] = Torn] /\ paths' = paths
  BY DEF PutBegins
<1>5. files' \in [Id -> [Dir -> Content]] /\ files'[id][d] = Torn
  BY <1>4 DEF Typed, Content
<1>6. \A i \in Id, p \in Dir : i # id \/ p # d => files'[i][p] = files[i][p]
  BY <1>4 DEF Typed
<1>7. \A i \in Id : Stored(i)' = IF i = id /\ paths[i] = d THEN Torn ELSE Stored(i)
  BY <1>4, <1>5, <1>6, ContentType, IdAssumption DEF Stored, ContentAt, Path
<1> QED  BY <1>1, <1>2, <1>3, <1>5, <1>6, <1>7

LEMMA WrittenIs ==
  ASSUME Typed, PutWrite
  PROVE  /\ writer' # None /\ writer' \in Put /\ writer'.written /\ writer'.id = writer.id
         /\ writer'.dir = writer.dir /\ writer'.old = writer.old
         /\ writer'.record = writer.record
         /\ files' \in [Id -> [Dir -> Content]]
         /\ files'[writer.id][writer.dir] = writer.record
         /\ paths' \in [Id -> Path] /\ paths'[writer.id] = writer.dir
         /\ \A i \in Id, p \in Dir :
              i # writer.id \/ p # writer.dir => files'[i][p] = files[i][p]
         /\ \A i \in Id : i # writer.id => paths'[i] = paths[i] /\ Stored(i)' = Stored(i)
         /\ Stored(writer.id)' = writer.record
<1> DEFINE Fine == [id : Id, dir : Dir, old : Path, written : BOOLEAN, record : Ranges]
<1>1. PICK w \in Fine : w = writer
  BY PutIs DEF PutWrite
<1>2. writer' = [w EXCEPT !.written = TRUE]
  BY <1>1 DEF PutWrite
<1>3. writer' \in Put
  BY <1>2 DEF Put, Ranges, Path
<1>4. writer' # None
  BY <1>3, IdAssumption
<1>5. /\ writer'.written /\ writer'.id = w.id /\ writer'.dir = w.dir /\ writer'.old = w.old
      /\ writer'.record = w.record
  BY <1>2
<1>6. /\ files' = [files EXCEPT ![w.id][w.dir] = w.record]
      /\ paths' = [paths EXCEPT ![w.id] = w.dir]
  BY <1>1 DEF PutWrite
<1>7. files' \in [Id -> [Dir -> Content]] /\ files'[w.id][w.dir] = w.record
  BY <1>6 DEF Typed, Content
<1>8. paths' \in [Id -> Path] /\ paths'[w.id] = w.dir
  BY <1>6 DEF Typed, Path
<1>9. \A i \in Id, p \in Dir : i # w.id \/ p # w.dir => files'[i][p] = files[i][p]
  BY <1>6 DEF Typed
<1>10. \A i \in Id : i # w.id => paths'[i] = paths[i] /\ Stored(i)' = Stored(i)
  BY <1>6, <1>9, ContentType DEF Stored, ContentAt, Path, Typed
<1>11. Stored(w.id)' = w.record
  BY <1>7, <1>8, IdAssumption DEF Stored, ContentAt
<1> QED  BY <1>1, <1>3, <1>4, <1>5, <1>7, <1>8, <1>9, <1>10, <1>11

LEMMA FinishedIs ==
  ASSUME Typed, PutGoesOn, PutFinish
  PROVE  /\ writer' = None
         /\ files' \in [Id -> [Dir -> Content]]
         /\ \A i \in Id, p \in Dir :
              i # writer.id \/ p # writer.old \/ p = writer.dir => files'[i][p] = files[i][p]
         /\ \A p \in Dir : p = writer.old /\ p # writer.dir => files'[writer.id][p] = NoFile
         /\ paths' = paths /\ paths[writer.id] = writer.dir
         /\ \A i \in Id : Stored(i)' = Stored(i)
         /\ Stored(writer.id) = writer.record
         /\ comp' = {entry \in comp : entry[2] # writer.id}
                      \cup (Indexed(writer.record) \X {writer.id})
<1> DEFINE Fine == [id : Id, dir : Dir, old : Path, written : BOOLEAN, record : Ranges]
<1>1. PICK w \in Fine : w = writer
  BY PutIs DEF PutFinish
<1>2. /\ files' = IF w.old \in {None, w.dir} THEN files
                  ELSE [files EXCEPT ![w.id][w.old] = NoFile]
      /\ writer' = None /\ paths' = paths
      /\ comp' = {entry \in comp : entry[2] # w.id} \cup (Indexed(w.record) \X {w.id})
  BY <1>1 DEF PutFinish
<1>3. paths[w.id] = w.dir /\ files[w.id][w.dir] = w.record
  BY <1>1 DEF PutFinish, PutGoesOn
<1>4. files' \in [Id -> [Dir -> Content]]
  BY <1>2 DEF Typed, Content
<1>5. \A i \in Id, p \in Dir :
        i # w.id \/ p # w.old \/ p = w.dir => files'[i][p] = files[i][p]
  BY <1>2 DEF Typed
<1>6. \A p \in Dir : p = w.old /\ p # w.dir => files'[w.id][p] = NoFile
  BY <1>2, IdAssumption DEF Typed
<1>7. \A i \in Id : Stored(i)' = Stored(i)
  BY <1>2, <1>3, <1>5, ContentType DEF Stored, ContentAt, Path
<1>8. Stored(w.id) = w.record
  BY <1>3, IdAssumption DEF Stored, ContentAt
<1> QED  BY <1>1, <1>2, <1>3, <1>4, <1>5, <1>6, <1>7, <1>8
-----------------------------------------------------------------------------
(* Types.                                                                  *)

LEMMA TypedInit == Init => Typed
BY DEF Init, Typed, Content, Path, Dir, Idle

LEMMA StartIs ==
  ASSUME Typed, Start
  PROVE  /\ query' \in AtComponent /\ query'.comps = project /\ query'.out = {}
         /\ query'.todo = Versioned'
         /\ \A id \in Id : Stored(id) \in Ranges => held'[id] = {Stored(id)}
         /\ held' \in [Id -> SUBSET Ranges]
         /\ busy' = IF writer = None THEN {} ELSE {writer.id}
<1> DEFINE todo == {c \in DOMAIN project : Parse(project[c]) # Invalid}
<1>1. query' = [at |-> "component", comps |-> project, out |-> {}, todo |-> todo]
  BY DEF Start
<1>2. project \in Inventory /\ todo \subseteq Coordinate
  BY DEF Typed, Coordinate
<1> HIDE DEF todo
<1>3. query' \in AtComponent
  BY <1>1, <1>2 DEF AtComponent, Matches
<1>4. query'.comps = project /\ query'.out = {} /\ query'.todo = todo
  BY <1>1
<1>5. todo = Versioned'
  BY <1>4 DEF todo, Versioned
<1>6. held' = [id \in Id |-> {Stored(id)} \ {NoFile, Torn}]
      /\ busy' = IF writer = None THEN {} ELSE {writer.id}
  BY DEF Start
<1>7. \A id \in Id : Stored(id) \in Content
  BY ContentType
<1>8. held' \in [Id -> SUBSET Ranges]
  BY <1>6, <1>7 DEF Content
<1>9. \A id \in Id : Stored(id) \in Ranges => held'[id] = {Stored(id)}
  BY <1>6, KindsDiffer DEF Ranges
<1> QED  BY <1>3, <1>4, <1>5, <1>6, <1>8, <1>9

LEMMA LookUpIs ==
  ASSUME Typed, NEW c \in query.todo, query.at = "component", LookUp(c)
  PROVE  /\ query' \in AtRecords /\ query'.comps = query.comps /\ query'.out = query.out
         /\ query'.todo = query.todo \ {c} /\ query'.component = c
         /\ query'.ids = {id \in Id : <<c, id>> \in comp}
         /\ query # Idle /\ writer = None
<1>1. PICK q \in AtComponent : q = query
  BY QueryIs
<1>2. query' = [at |-> "records", comps |-> q.comps, out |-> q.out, todo |-> q.todo \ {c},
                component |-> c, ids |-> {id \in Id : <<c, id>> \in comp}]
  BY <1>1 DEF LookUp
<1>3. query' \in AtRecords
  BY <1>1, <1>2 DEF AtComponent, AtRecords
<1>4. query # Idle /\ writer = None
  BY DEF Idle, LookUp
<1> QED  BY <1>1, <1>2, <1>3, <1>4

LEMMA GetPathIs ==
  ASSUME Typed, GetPath
  PROVE  /\ query' \in Reading /\ query'.comps = query.comps /\ query'.out = query.out
         /\ query'.todo = query.todo /\ query'.component = query.component
         /\ query'.ids = query.ids /\ query'.id \in query.ids
         /\ query'.dir = paths[query'.id]
         /\ query # Idle /\ query.at = "records" /\ writer = None
<1>1. PICK q \in AtRecords : q = query
  BY QueryIs DEF GetPath
<1>2. PICK i : i = Min(q.ids)
  OBVIOUS
<1>3. i \in q.ids /\ i \in Id
  BY <1>1, <1>2, SmallestId DEF GetPath, AtRecords
<1>4. query' = [at |-> "reading", comps |-> q.comps, out |-> q.out, todo |-> q.todo,
                component |-> q.component, ids |-> q.ids, id |-> i, dir |-> paths[i]]
  BY <1>1, <1>2 DEF GetPath
<1>5. paths[i] \in Path
  BY <1>3, ContentType
<1>6. query' \in Reading
  BY <1>1, <1>3, <1>4, <1>5 DEF AtRecords, Reading
<1>7. query # Idle /\ query.at = "records" /\ writer = None
  BY DEF Idle, GetPath
<1> QED  BY <1>1, <1>3, <1>4, <1>6, <1>7

LEMMA ReadIs ==
  ASSUME Typed, Read
  PROVE  \E rec \in Ranges \cup {NoRecord} :
         /\ rec = Found(ContentAt(query.id, query.dir))
         /\ query' \in AtRecords /\ query'.comps = query.comps /\ query'.todo = query.todo
         /\ query'.component = query.component /\ query'.ids = query.ids \ {query.id}
         /\ query'.out =
              IF rec # NoRecord /\ Applies(rec, query.component, query.comps[query.component])
              THEN query.out \cup {<<query.component, query.id>>} ELSE query.out
         /\ query # Idle /\ query.at = "reading"
<1>1. PICK q \in Reading : q = query
  BY QueryIs DEF Read
<1>2. PICK rec : rec = Found(ContentAt(q.id, q.dir))
  OBVIOUS
<1>3. rec \in Ranges \cup {NoRecord}
  BY <1>1, <1>2, ContentType DEF Found, Content, Reading
<1> DEFINE hit == rec # NoRecord /\ Applies(rec, q.component, q.comps[q.component])
           out == IF hit THEN q.out \cup {<<q.component, q.id>>} ELSE q.out
<1>4. query' = [at |-> "records", comps |-> q.comps, out |-> out, todo |-> q.todo,
                component |-> q.component, ids |-> q.ids \ {q.id}]
  BY <1>1, <1>2 DEF Read
<1>5. out \in Matches
  BY DEF Reading, Matches
<1> HIDE DEF out
<1>6. query' \in AtRecords
  BY <1>1, <1>4, <1>5 DEF AtRecords, Reading
<1>7. query # Idle /\ query.at = "reading"
  BY DEF Idle, Read
<1> USE DEF out
<1> QED  BY <1>1, <1>2, <1>3, <1>4, <1>6, <1>7

LEMMA NextComponentIs ==
  ASSUME Typed, NextComponent
  PROVE  /\ query' \in AtComponent /\ query'.comps = query.comps /\ query'.out = query.out
         /\ query'.todo = query.todo
         /\ query # Idle /\ query.at = "records" /\ query.ids = {}
<1>1. PICK q \in AtRecords : q = query
  BY QueryIs DEF NextComponent
<1>2. query' = [at |-> "component", comps |-> q.comps, out |-> q.out, todo |-> q.todo]
  BY <1>1 DEF NextComponent
<1>3. query' \in AtComponent
  BY <1>1, <1>2 DEF AtComponent, AtRecords
<1>4. query # Idle /\ query.at = "records" /\ query.ids = {}
  BY DEF Idle, NextComponent
<1> QED  BY <1>1, <1>2, <1>3, <1>4

LEMMA TypedNext == Typed /\ PutGoesOn /\ [Next]_vars => Typed'
<1> SUFFICES ASSUME Typed, PutGoesOn, [Next]_vars PROVE Typed'
  OBVIOUS
<1>1. CASE Aside /\ project' \in Inventory
  BY <1>1 DEF Aside, store, Typed
<1>2. ASSUME NEW id \in Id, NEW d \in Dir, NEW rec \in Ranges, PutBegins(id, d, rec)
      PROVE  Typed'
  <2>1. busy' \subseteq Id
    BY <1>2 DEF PutBegins, Typed
  <2> QED  BY <1>2, <2>1, BegunIs DEF PutBegins, Typed
<1>3. CASE PutWrite
  <2>1. held' \in [Id -> SUBSET Ranges]
    BY <1>3, PutIs DEF PutWrite, Typed
  <2>2. writer'.record \in Ranges
    BY <1>3, PutIs, WrittenIs DEF PutWrite
  <2> QED  BY <1>3, <2>1, <2>2, WrittenIs DEF PutWrite, Typed
<1>4. CASE PutFinish
  <2>1. Indexed(writer.record) \subseteq Component /\ writer.id \in Id
    BY <1>4, PutIs, RecordFields DEF PutFinish, Indexed, Ranges
  <2>2. comp' \subseteq Component \X Id
    BY <1>4, <2>1, FinishedIs DEF Typed
  <2> QED  BY <1>4, <2>2, FinishedIs DEF PutFinish, history, Typed
<1>5. CASE Start
  <2>1. busy' \subseteq Id
    BY <1>5, StartIs, PutIs
  <2> QED  BY <1>5, <2>1, StartIs DEF Start, store, Typed
<1>6. ASSUME NEW c \in query.todo, query.at = "component", LookUp(c)
      PROVE  Typed'
  BY <1>6, LookUpIs DEF LookUp, store, history, Typed
<1>7. CASE GetPath
  BY <1>7, GetPathIs DEF GetPath, store, history, Typed
<1>8. CASE Read
  BY <1>8, ReadIs DEF Read, store, history, Typed
<1>9. CASE NextComponent
  BY <1>9, NextComponentIs DEF NextComponent, store, history, Typed
<1>10. CASE Return
  BY <1>10 DEF Return, store, Typed
<1> QED
  BY <1>1, <1>2, <1>3, <1>4, <1>5, <1>6, <1>7, <1>8, <1>9, <1>10, Steps
-----------------------------------------------------------------------------
(* The store: paths lead to the files, and the component index knows them. *)

LEMMA StoreInit == Init => PutGoesOn /\ Placed /\ IndexKnows
<1> SUFFICES ASSUME Init PROVE PutGoesOn /\ Placed /\ IndexKnows
  OBVIOUS
<1>1. \A id \in Id : Stored(id) = NoFile /\ \A d \in Dir : files[id][d] = NoFile
  BY DEF Init, Stored, ContentAt
<1>2. NoFile \notin Ranges
  BY KindsDiffer DEF Ranges
<1> QED  BY <1>1, <1>2 DEF Init, PutGoesOn, Placed, IndexKnows

LEMMA StoreNext ==
  ASSUME Typed, PutGoesOn, Placed, IndexKnows, [Next]_vars
  PROVE  PutGoesOn' /\ Placed' /\ IndexKnows'
<1> USE KindsDiffer DEF Ranges
<1>1. CASE UNCHANGED <<files, paths, comp, writer>>
  <2>1. \A id \in Id : Stored(id)' = Stored(id)
    BY <1>1 DEF Stored, ContentAt
  <2>2. \A id \in Id : Writing(id)' <=> Writing(id)
    BY <1>1 DEF Writing
  <2>3. PutGoesOn'
    BY <1>1 DEF PutGoesOn
  <2>4. Placed'
    BY <1>1, <2>1, <2>2 DEF Placed
  <2>5. IndexKnows'
    BY <1>1, <2>1, <2>2 DEF IndexKnows
  <2> QED  BY <2>3, <2>4, <2>5
<1>2. ASSUME NEW id \in Id, NEW d \in Dir, NEW rec \in Ranges, PutBegins(id, d, rec)
      PROVE  PutGoesOn' /\ Placed' /\ IndexKnows'
  <2>1. \A i \in Id : (Writing(i)' <=> i = id) /\ ~Writing(i)
    BY <1>2, BegunIs DEF Writing, PutBegins
  <2>2. paths' = paths /\ comp' = comp
    BY <1>2 DEF PutBegins
  <2>3. PutGoesOn'
    BY <1>2, <2>2, BegunIs DEF PutGoesOn
  <2>4. Placed'
    <3> SUFFICES ASSUME NEW i \in Id
                 PROVE  /\ \A p \in Dir : files'[i][p] \in Ranges => p = paths'[i]
                        /\ paths'[i] # None /\ ~Writing(i)' => Stored(i)' \in Ranges
      BY DEF Placed
    <3>1. \A p \in Dir : files'[i][p] \in Ranges => files[i][p] \in Ranges
      BY <1>2, BegunIs
    <3>2. \A p \in Dir : files[i][p] \in Ranges => p = paths[i]
      BY <2>1 DEF Placed
    <3>3. i # id => Stored(i)' = Stored(i)
      BY <1>2, BegunIs
    <3> QED  BY <2>1, <2>2, <3>1, <3>2, <3>3 DEF Placed
  <2>5. IndexKnows'
    <3> SUFFICES ASSUME NEW i \in Id, Stored(i)' \in Ranges, ~Stored(i)'.deleted
                 PROVE  \A c \in DOMAIN Stored(i)'.affected : <<c, i>> \in comp'
      BY DEF IndexKnows
    <3>1. Stored(i)' = Stored(i)
      BY <1>2, BegunIs
    <3> QED  BY <2>1, <2>2, <3>1 DEF IndexKnows
  <2> QED  BY <2>3, <2>4, <2>5
<1>3. CASE PutWrite
  <2>1. writer # None /\ ~writer.written /\ comp' = comp
    BY <1>3 DEF PutWrite
  <2>2. \A i \in Id : (Writing(i)' <=> i = writer.id) /\ (Writing(i) <=> i = writer.id)
    BY <1>3, <2>1, WrittenIs DEF Writing
  <2>3. paths[writer.id] = writer.old
    BY <2>1 DEF PutGoesOn
  <2>4. PutGoesOn'
    BY <1>3, WrittenIs DEF PutGoesOn
  <2>5. Placed'
    <3> SUFFICES ASSUME NEW i \in Id
                 PROVE  /\ \A p \in Dir : files'[i][p] \in Ranges =>
                             p = paths'[i] \/ (Writing(i)' /\ p = writer'.old)
                        /\ paths'[i] # None /\ ~Writing(i)' => Stored(i)' \in Ranges
      BY <1>3, WrittenIs DEF Placed
    <3>1. CASE i = writer.id
      <4>1. \A p \in Dir : files[i][p] \in Ranges => p = writer.old
        BY <2>1, <2>3, <3>1 DEF Placed
      <4>2. Writing(i)' /\ writer'.old = writer.old /\ paths'[i] = writer.dir
        BY <1>3, <2>2, <3>1, WrittenIs
      <4>3. \A p \in Dir : p # writer.dir => files'[i][p] = files[i][p]
        BY <1>3, WrittenIs
      <4> QED  BY <4>1, <4>2, <4>3
    <3>2. CASE i # writer.id
      <4>1. \A p \in Dir : files'[i][p] = files[i][p]
        BY <1>3, <3>2, WrittenIs
      <4>2. paths'[i] = paths[i] /\ Stored(i)' = Stored(i) /\ ~Writing(i) /\ ~Writing(i)'
        BY <1>3, <2>2, <3>2, WrittenIs
      <4> QED  BY <4>1, <4>2 DEF Placed
    <3> QED  BY <3>1, <3>2
  <2>6. IndexKnows'
    <3> SUFFICES ASSUME NEW i \in Id, Stored(i)' \in Ranges, ~Stored(i)'.deleted,
                        i # writer.id
                 PROVE  \A c \in DOMAIN Stored(i)'.affected : <<c, i>> \in comp'
      BY <1>3, <2>2, WrittenIs DEF IndexKnows
    <3>1. Stored(i)' = Stored(i) /\ ~Writing(i)
      BY <1>3, <2>2, WrittenIs
    <3> QED  BY <2>1, <3>1 DEF IndexKnows
  <2> QED  BY <2>4, <2>5, <2>6
<1>4. CASE PutFinish
  <2>1. writer # None /\ writer.written /\ writer' = None /\ paths' = paths
    BY <1>4, FinishedIs DEF PutFinish
  <2>2. \A i \in Id : ~Writing(i)' /\ (Writing(i) <=> i = writer.id)
    BY <2>1 DEF Writing
  <2>3. PutGoesOn'
    BY <2>1 DEF PutGoesOn
  <2>4. Placed'
    <3> SUFFICES ASSUME NEW i \in Id
                 PROVE  /\ \A p \in Dir : files'[i][p] \in Ranges => p = paths[i]
                        /\ paths[i] # None => Stored(i)' \in Ranges
      BY <2>1 DEF Placed
    <3>1. CASE i = writer.id
      <4>1. \A p \in Dir : files'[i][p] \in Ranges => p = paths[i]
        <5> SUFFICES ASSUME NEW p \in Dir, files'[i][p] \in Ranges, p # writer.dir
                     PROVE  FALSE
          BY <1>4, <3>1, FinishedIs
        <5>1. p # writer.old
          BY <1>4, <3>1, FinishedIs
        <5>2. files[i][p] \in Ranges
          BY <1>4, <5>1, FinishedIs
        <5> QED  BY <1>4, <2>1, <3>1, <5>1, <5>2, FinishedIs DEF Placed
      <4>2. Stored(i)' \in Ranges
        BY <1>4, <2>1, <3>1, FinishedIs, PutIs
      <4> QED  BY <4>1, <4>2
    <3>2. CASE i # writer.id
      <4>1. \A p \in Dir : files'[i][p] = files[i][p]
        BY <1>4, <3>2, FinishedIs
      <4>2. Stored(i)' = Stored(i) /\ ~Writing(i)
        BY <1>4, <2>2, <3>2, FinishedIs
      <4> QED  BY <4>1, <4>2 DEF Placed
    <3> QED  BY <3>1, <3>2
  <2>5. IndexKnows'
    <3> SUFFICES ASSUME NEW i \in Id, Stored(i)' \in Ranges, ~Stored(i)'.deleted,
                        NEW c \in DOMAIN Stored(i)'.affected
                 PROVE  <<c, i>> \in comp'
      BY DEF IndexKnows
    <3>1. Stored(i)' = Stored(i)
      BY <1>4, FinishedIs
    <3>2. CASE i = writer.id
      <4>1. c \in Indexed(writer.record)
        BY <1>4, <3>1, <3>2, FinishedIs DEF Indexed
      <4> QED  BY <1>4, <3>2, <4>1, FinishedIs
    <3>3. CASE i # writer.id
      <4>1. <<c, i>> \in comp
        BY <2>2, <3>1, <3>3 DEF IndexKnows
      <4> QED  BY <1>4, <3>3, <4>1, FinishedIs
    <3> QED  BY <3>2, <3>3
  <2> QED  BY <2>3, <2>4, <2>5
<1>5. CASE Aside \/ Start \/ GetPath \/ Read \/ NextComponent \/ Return
             \/ \E c \in query.todo : query.at = "component" /\ LookUp(c)
  <2>1. UNCHANGED <<files, paths, comp, writer>>
    BY <1>5 DEF Aside, Start, GetPath, Read, NextComponent, Return, LookUp, store
  <2> QED  BY <1>1, <2>1
<1> QED  BY <1>2, <1>3, <1>4, <1>5, Steps
-----------------------------------------------------------------------------
(* The query: what it can read, what it has reported and has yet to.       *)

LEMMA QueryInit == Init => Held /\ QueryGoesOn /\ MatchesJustified /\ NoneForgotten
BY DEF Init, Held, QueryGoesOn, MatchesJustified, NoneForgotten

\* What a query could read before a step of a Put it can read after it, or a
\* torn file, a missing one or the new record; and it holds the new record.
LEMMA PutReads ==
  ASSUME Typed, PutGoesOn, query # Idle, query' = query, NEW i \in Id, NEW p \in Path,
         \/ \E id \in Id, d \in Dir, rec \in Ranges : PutBegins(id, d, rec)
         \/ PutWrite \/ PutFinish
  PROVE  /\ \/ Stored(i)' \in {Stored(i), Torn}
            \/ Stored(i)' \in held'[i]
         /\ \/ ContentAt(i, p)' \in {ContentAt(i, p), Torn, NoFile}
            \/ ContentAt(i, p)' \in held'[i]
         /\ held[i] \subseteq held'[i]
<1>1. ASSUME NEW id \in Id, NEW d \in Dir, NEW rec \in Ranges, PutBegins(id, d, rec)
      PROVE  /\ Stored(i)' \in {Stored(i), Torn}
             /\ ContentAt(i, p)' \in {ContentAt(i, p), Torn}
             /\ held'[i] = held[i]
  <2>1. Stored(i)' \in {Stored(i), Torn} /\ held' = held
    BY <1>1, BegunIs DEF PutBegins
  <2>2. ContentAt(i, p)' \in {ContentAt(i, p), Torn}
    BY <1>1, BegunIs DEF ContentAt, Path
  <2> QED  BY <2>1, <2>2
<1>2. ASSUME PutWrite
      PROVE  /\ Stored(i)' = Stored(i) \/ Stored(i)' \in held'[i]
             /\ ContentAt(i, p)' = ContentAt(i, p) \/ ContentAt(i, p)' \in held'[i]
             /\ held[i] \subseteq held'[i]
  <2>1. held' = [held EXCEPT ![writer.id] = held[writer.id] \cup {writer.record}]
    BY <1>2 DEF PutWrite
  <2>2. held[i] \subseteq held'[i] /\ (i = writer.id => writer.record \in held'[i])
    BY <2>1 DEF Typed
  <2>3. Stored(i)' = Stored(i) \/ Stored(i)' \in held'[i]
    BY <1>2, <2>2, WrittenIs
  <2>4. ContentAt(i, p)' = ContentAt(i, p) \/ ContentAt(i, p)' \in held'[i]
    BY <1>2, <2>2, WrittenIs DEF ContentAt, Path
  <2> QED  BY <2>2, <2>3, <2>4
<1>3. ASSUME PutFinish
      PROVE  /\ Stored(i)' = Stored(i)
             /\ ContentAt(i, p)' \in {ContentAt(i, p), NoFile}
             /\ held'[i] = held[i]
  <2>1. Stored(i)' = Stored(i) /\ held' = held
    BY <1>3, FinishedIs DEF PutFinish, history
  <2>2. ContentAt(i, p)' \in {ContentAt(i, p), NoFile}
    BY <1>3, FinishedIs DEF ContentAt, Path
  <2> QED  BY <2>1, <2>2
<1> QED  BY <1>1, <1>2, <1>3

LEMMA HeldNext ==
  ASSUME Typed, PutGoesOn, Held, [Next]_vars
  PROVE  Held'
<1> USE KindsDiffer DEF Ranges
<1>1. CASE Aside
  BY <1>1 DEF Aside, store, Held, Stored, ContentAt
<1>2. ASSUME \/ \E id \in Id, d \in Dir, rec \in Ranges : PutBegins(id, d, rec)
             \/ PutWrite \/ PutFinish
      PROVE  Held'
  <2>1. query' = query
    BY <1>2 DEF PutBegins, PutWrite, PutFinish
  <2> SUFFICES ASSUME query # Idle PROVE Held'
    BY <2>1 DEF Held
  <2>2. ASSUME NEW i \in Id, Stored(i)' \in Ranges
        PROVE  Stored(i)' \in held'[i]
    <3>1. None \in Path
      BY DEF Path
    <3>2. Stored(i)' = Stored(i) \/ Stored(i)' \in held'[i]
      BY <1>2, <2>1, <2>2, <3>1, PutReads
    <3>3. held[i] \subseteq held'[i]
      BY <1>2, <2>1, <3>1, PutReads
    <3> QED  BY <2>2, <3>2, <3>3 DEF Held
  <2>3. ASSUME query.at = "reading", NEW i \in Id, NEW p \in Path, i = query.id, p = query.dir,
               ContentAt(i, p)' \in Ranges
        PROVE  ContentAt(i, p)' \in held'[i]
    <3>1. ContentAt(i, p)' = ContentAt(i, p) \/ ContentAt(i, p)' \in held'[i]
      BY <1>2, <2>1, <2>3, PutReads
    <3>2. held[i] \subseteq held'[i]
      BY <1>2, <2>1, PutReads
    <3> QED  BY <2>3, <3>1, <3>2 DEF Held
  <2>4. query.at = "reading" => query.id \in Id /\ query.dir \in Path
    BY QueryFields
  <2>5. PICK q : q = query
    OBVIOUS
  <2>6. q.at = "reading" => (ContentAt(q.id, q.dir)' \in Ranges =>
                               ContentAt(q.id, q.dir)' \in held'[q.id])
    BY <2>3, <2>4, <2>5
  <2>7. ContentAt(query.id, query.dir)' = ContentAt(q.id, q.dir)' /\ query' = q
    BY <2>1, <2>5
  <2> QED  BY <2>2, <2>6, <2>7 DEF Held
<1>3. CASE Start
  <2>1. query'.at = "component"
    BY <1>3, StartIs DEF AtComponent
  <2>2. \A i \in Id : Stored(i)' = Stored(i)
    BY <1>3 DEF Start, store, Stored, ContentAt
  <2>3. \A i \in Id : Stored(i)' \in Ranges => Stored(i)' \in held'[i]
    BY <1>3, <2>2, StartIs
  <2> QED  BY <2>1, <2>3 DEF Held
<1>4. CASE GetPath
  <2>1. query # Idle /\ \A i \in Id : Stored(i)' = Stored(i) /\ held' = held
    BY <1>4, GetPathIs DEF GetPath, store, history, Stored, ContentAt
  <2>2. PICK q \in Reading : q = query'
    BY <1>4, GetPathIs
  <2>3. q.id \in Id /\ q.dir = paths[q.id]
    BY <1>4, <2>2, GetPathIs DEF Reading
  <2>4. ContentAt(q.id, q.dir)' = Stored(q.id)'
    BY <1>4, <2>3 DEF GetPath, store, Stored
  <2>5. ContentAt(query.id, query.dir)' = ContentAt(q.id, q.dir)'
    BY <2>2
  <2> QED  BY <2>1, <2>2, <2>3, <2>4, <2>5 DEF Held
<1>5. CASE Read \/ NextComponent \/ \E c \in query.todo : query.at = "component" /\ LookUp(c)
  <2>1. query # Idle /\ query'.at # "reading"
    BY <1>5, ReadIs, NextComponentIs, LookUpIs DEF AtRecords, AtComponent
  <2>2. held' = held /\ \A i \in Id : Stored(i)' = Stored(i)
    BY <1>5 DEF Read, NextComponent, LookUp, store, history, Stored, ContentAt
  <2> QED  BY <2>1, <2>2 DEF Held
<1>6. CASE Return
  BY <1>6 DEF Return, Held
<1> QED  BY <1>1, <1>2, <1>3, <1>4, <1>5, <1>6, Steps

LEMMA QueryGoesOnNext ==
  ASSUME Typed, QueryGoesOn, [Next]_vars
  PROVE  QueryGoesOn'
<1>1. CASE Aside
  BY <1>1 DEF Aside, store, QueryGoesOn, Versioned
<1>2. ASSUME NEW id \in Id, NEW d \in Dir, NEW rec \in Ranges, PutBegins(id, d, rec)
      PROVE  QueryGoesOn'
  <2>1. query' = query /\ paths' = paths /\ writer'.id = id
        /\ (query # Idle => busy' = busy \cup {id})
    BY <1>2 DEF PutBegins
  <2> QED  BY <2>1 DEF QueryGoesOn, Versioned
<1>3. CASE PutWrite
  <2>1. query' = query /\ busy' = busy /\ writer'.id = writer.id /\ writer # None
    BY <1>3, WrittenIs DEF PutWrite
  <2>2. \A i \in Id : i # writer.id => paths'[i] = paths[i]
    BY <1>3, WrittenIs
  <2>3. query # Idle /\ query.at = "reading" => query.id \in Id
    BY QueryFields
  <2> QED  BY <2>1, <2>2, <2>3 DEF QueryGoesOn, Versioned
<1>4. CASE PutFinish
  <2>1. query' = query /\ busy' = busy /\ writer' = None /\ paths' = paths
    BY <1>4 DEF PutFinish, history
  <2> QED  BY <2>1 DEF QueryGoesOn, Versioned
<1>5. CASE Start
  <2>1. query'.at = "component" /\ query'.todo = Versioned' /\ writer' = writer
    BY <1>5, StartIs DEF AtComponent, Start, store
  <2>2. writer # None => writer.id \in busy'
    BY <1>5, StartIs
  <2> QED  BY <2>1, <2>2 DEF QueryGoesOn
<1>6. ASSUME NEW c \in query.todo, query.at = "component", LookUp(c)
      PROVE  QueryGoesOn'
  <2>1. /\ query'.at = "records" /\ query'.component = c /\ query'.todo = query.todo \ {c}
        /\ Versioned' = Versioned /\ writer' = None /\ query # Idle
    BY <1>6, LookUpIs DEF AtRecords, LookUp, store, Versioned
  <2> QED  BY <2>1 DEF QueryGoesOn
<1>7. CASE GetPath
  <2>1. /\ query'.at = "reading" /\ query'.component = query.component
        /\ query'.todo = query.todo /\ query'.ids = query.ids /\ query'.id \in query.ids
        /\ query'.dir = paths'[query'.id]
        /\ Versioned' = Versioned /\ writer' = None /\ query # Idle /\ query.at = "records"
    BY <1>7, GetPathIs DEF Reading, GetPath, store, Versioned
  <2> QED  BY <2>1 DEF QueryGoesOn
<1>8. CASE Read
  <2>1. /\ query'.at = "records" /\ query'.component = query.component
        /\ query'.todo = query.todo /\ query'.comps = query.comps
        /\ query # Idle /\ query.at = "reading"
    BY <1>8, ReadIs DEF AtRecords
  <2>2. writer' = writer /\ busy' = busy
    BY <1>8 DEF Read, store, history
  <2> QED  BY <2>1, <2>2 DEF QueryGoesOn, Versioned
<1>9. CASE NextComponent
  <2>1. /\ query'.at = "component" /\ query'.todo = query.todo /\ Versioned' = Versioned
        /\ query # Idle /\ writer' = writer /\ busy' = busy
    BY <1>9, NextComponentIs DEF AtComponent, NextComponent, store, history, Versioned
  <2> QED  BY <2>1 DEF QueryGoesOn
<1>10. CASE Return
  BY <1>10 DEF Return, QueryGoesOn
<1> QED
  BY <1>1, <1>2, <1>3, <1>4, <1>5, <1>6, <1>7, <1>8, <1>9, <1>10, Steps
-----------------------------------------------------------------------------
(* What is reported was so.                                                *)

\* What was reported stays justified while the query goes on.
LEMMA JustifiedStays ==
  ASSUME Typed, MatchesJustified, query # Idle,
         query'.out = query.out, query'.comps = query.comps,
         \A i \in Id : held[i] \subseteq held'[i]
  PROVE  MatchesJustified'
<1> SUFFICES ASSUME NEW m \in query'.out
             PROVE  /\ m[1] \in DOMAIN query'.comps
                    /\ \E rec \in held'[m[2]] : Affects(rec, m[1], query'.comps[m[1]])
  BY DEF MatchesJustified
<1>1. m \in query.out /\ m[2] \in Id
  BY QueryFields
<1>2. m[1] \in DOMAIN query.comps
  BY <1>1 DEF MatchesJustified
<1>3. PICK rec \in held[m[2]] : Affects(rec, m[1], query.comps[m[1]])
  BY <1>1 DEF MatchesJustified
<1> QED  BY <1>1, <1>2, <1>3

LEMMA MatchesJustifiedNext ==
  ASSUME Typed, PutGoesOn, Held, QueryGoesOn, MatchesJustified, [Next]_vars
  PROVE  MatchesJustified'
<1>1. CASE Aside
  BY <1>1 DEF Aside, MatchesJustified
<1>2. ASSUME \/ \E id \in Id, d \in Dir, rec \in Ranges : PutBegins(id, d, rec)
             \/ PutWrite \/ PutFinish
      PROVE  MatchesJustified'
  <2>1. query' = query
    BY <1>2 DEF PutBegins, PutWrite, PutFinish
  <2>2. CASE query = Idle
    BY <2>1, <2>2 DEF MatchesJustified
  <2>3. CASE query # Idle
    <3>1. \A i \in Id : held[i] \subseteq held'[i]
      BY <1>2, <2>1, <2>3, PutReads DEF Path
    <3> QED  BY <2>1, <2>3, <3>1, JustifiedStays
  <2> QED  BY <2>2, <2>3
<1>3. CASE Start
  BY <1>3, StartIs DEF MatchesJustified
<1>4. CASE GetPath \/ NextComponent \/ \E c \in query.todo : query.at = "component" /\ LookUp(c)
  <2>1. query # Idle /\ query'.out = query.out /\ query'.comps = query.comps
    BY <1>4, GetPathIs, NextComponentIs, LookUpIs
  <2>2. held' = held
    BY <1>4 DEF GetPath, NextComponent, LookUp, history
  <2> QED  BY <2>1, <2>2, JustifiedStays
<1>5. CASE Read
  <2>1. PICK rec \in Ranges \cup {NoRecord} :
         /\ rec = Found(ContentAt(query.id, query.dir))
         /\ query'.comps = query.comps
         /\ query'.out =
              IF rec # NoRecord /\ Applies(rec, query.component, query.comps[query.component])
              THEN query.out \cup {<<query.component, query.id>>} ELSE query.out
         /\ query # Idle /\ query.at = "reading"
    BY <1>5, ReadIs
  <2>2. held' = held
    BY <1>5 DEF Read, history
  <2>3. CASE query'.out = query.out
    BY <2>1, <2>2, <2>3, JustifiedStays
  <2>4. CASE /\ rec # NoRecord /\ Applies(rec, query.component, query.comps[query.component])
             /\ query'.out = query.out \cup {<<query.component, query.id>>}
    <3>1. query.component \in DOMAIN query.comps
          /\ Parse(query.comps[query.component]) # Invalid
      BY <2>1 DEF QueryGoesOn, Versioned
    <3>2. query.comps[query.component] \in Written
      BY <2>1, <3>1, QueryFields, InventoryAssumption
    <3>3. rec \in Ranges /\ ~rec.deleted /\ rec = ContentAt(query.id, query.dir)
      BY <2>1, <2>4, KindsDiffer DEF Found, Ranges
    <3>4. rec \in held[query.id]
      BY <2>1, <3>3 DEF Held
    <3>5. Affects(rec, query.component, query.comps[query.component])
      BY <2>4, <3>1, <3>2, <3>3, AppliesIsAffects
    <3> SUFFICES ASSUME NEW m \in query'.out
                 PROVE  /\ m[1] \in DOMAIN query'.comps
                        /\ \E r \in held'[m[2]] : Affects(r, m[1], query'.comps[m[1]])
      BY DEF MatchesJustified
    <3>6. CASE m \in query.out
      BY <2>1, <2>2, <3>6 DEF MatchesJustified
    <3>7. CASE m = <<query.component, query.id>>
      BY <2>1, <2>2, <3>1, <3>4, <3>5, <3>7
    <3> QED  BY <2>4, <3>6, <3>7
  <2> QED  BY <2>1, <2>3, <2>4
<1>6. CASE Return
  BY <1>6 DEF Return, MatchesJustified
<1> QED  BY <1>1, <1>2, <1>3, <1>4, <1>5, <1>6, Steps
-----------------------------------------------------------------------------
(* Nothing is forgotten.                                                   *)

LEMMA DueStays ==
  ASSUME query'.comps = query.comps, NEW i, NEW c,
         paths'[i] = paths[i], Stored(i)' = Stored(i), Due(i, c)'
  PROVE  Due(i, c)
<1>1. PICK s : s = Stored(i)
  OBVIOUS
<1>2. PICK v : v = query.comps[c]
  OBVIOUS
<1>3. Affects(s, c, v)'
  BY <1>1, <1>2 DEF Due
<1>4. Affects(s, c, v)
  BY <1>3
<1> QED  BY <1>1, <1>2, <1>4 DEF Due

LEMMA NoneForgottenNext ==
  ASSUME Typed, PutGoesOn, Placed, IndexKnows, QueryGoesOn, NoneForgotten, [Next]_vars
  PROVE  NoneForgotten'
<1>1. CASE Aside
  BY <1>1 DEF Aside, store, NoneForgotten, Due, Ahead, Stored, ContentAt, Versioned
<1>2. ASSUME \/ \E id \in Id, d \in Dir, rec \in Ranges : PutBegins(id, d, rec)
             \/ PutWrite \/ PutFinish
      PROVE  NoneForgotten'
  <2>1. query' = query
    BY <1>2 DEF PutBegins, PutWrite, PutFinish
  <2> SUFFICES ASSUME query # Idle, NEW i \in Id \ busy', NEW c \in Versioned, Due(i, c)'
               PROVE  Ahead(i, c)
    BY <2>1 DEF NoneForgotten, Ahead, Versioned
  <2>2. i \notin busy /\ paths'[i] = paths[i] /\ Stored(i)' = Stored(i)
    <3>1. ASSUME NEW id \in Id, NEW d \in Dir, NEW rec \in Ranges, PutBegins(id, d, rec)
          PROVE  i \notin busy /\ paths'[i] = paths[i] /\ Stored(i)' = Stored(i)
      <4>1. busy' = busy \cup {id} /\ paths' = paths
        BY <3>1 DEF PutBegins
      <4>2. i # id /\ i \notin busy
        BY <4>1
      <4> QED  BY <3>1, <4>1, <4>2, BegunIs
    <3>2. CASE PutWrite
      <4>1. i # writer.id
        BY <3>2 DEF PutWrite, QueryGoesOn
      <4> QED  BY <3>2, <4>1, WrittenIs DEF PutWrite
    <3>3. CASE PutFinish
      BY <3>3, FinishedIs DEF PutFinish, history
    <3> QED  BY <1>2, <3>1, <3>2, <3>3
  <2>3. Due(i, c)
    BY <2>1, <2>2, DueStays
  <2> QED  BY <2>2, <2>3 DEF NoneForgotten
<1>3. CASE Start
  <2>1. Versioned' = query'.todo
    BY <1>3, StartIs
  <2>2. ASSUME NEW i, NEW c \in Versioned' PROVE Ahead(i, c)'
    BY <2>1 DEF Ahead
  <2> QED  BY <2>2 DEF NoneForgotten
<1>4. ASSUME UNCHANGED <<paths, files, busy>>, query # Idle, query'.comps = query.comps,
             \A i \in Id \ busy, c \in Versioned : Due(i, c) /\ Ahead(i, c) => Ahead(i, c)'
      PROVE  NoneForgotten'
  <2> SUFFICES ASSUME NEW i \in Id \ busy, NEW c \in Versioned, Due(i, c)'
               PROVE  Ahead(i, c)'
    BY <1>4 DEF NoneForgotten, Versioned
  <2>1. Stored(i)' = Stored(i)
    BY <1>4 DEF Stored, ContentAt
  <2>2. Due(i, c)
    BY <1>4, <2>1, DueStays
  <2>3. Ahead(i, c)
    BY <1>4, <2>2 DEF NoneForgotten
  <2> QED  BY <1>4, <2>2, <2>3
\* What a due record is to the query: readable, live, and affecting.
<1>5. ASSUME NEW i \in Id \ busy, NEW c \in Versioned, Due(i, c), query # Idle
      PROVE  /\ Stored(i) \in Ranges /\ ~Writing(i) /\ ~Stored(i).deleted
             /\ c \in DOMAIN Stored(i).affected /\ <<c, i>> \in comp
             /\ Applies(Stored(i), c, query.comps[c])
  <2>1. ~Writing(i)
    BY <1>5 DEF Writing, QueryGoesOn
  <2>2. Stored(i) \in Ranges
    BY <1>5, <2>1 DEF Placed, Due
  <2>3. query.comps[c] \in Written /\ Parse(query.comps[c]) # Invalid
    BY <1>5, QueryFields, InventoryAssumption DEF Versioned
  <2>4. ~Stored(i).deleted /\ Applies(Stored(i), c, query.comps[c])
    BY <1>5, <2>2, <2>3, AppliesIsAffects DEF Due
  <2>5. c \in DOMAIN Stored(i).affected
    BY <1>5 DEF Due, Affects
  <2> QED  BY <2>1, <2>2, <2>4, <2>5 DEF IndexKnows
<1>6. ASSUME NEW c0 \in query.todo, query.at = "component", LookUp(c0)
      PROVE  NoneForgotten'
  <2>1. /\ query'.at = "records" /\ query'.comps = query.comps /\ query'.out = query.out
        /\ query'.todo = query.todo \ {c0} /\ query'.component = c0
        /\ query'.ids = {id \in Id : <<c0, id>> \in comp} /\ query # Idle
    BY <1>6, LookUpIs DEF AtRecords
  <2>2. UNCHANGED <<paths, files, busy>>
    BY <1>6 DEF LookUp, store, history
  <2>3. ASSUME NEW i \in Id \ busy, NEW c \in Versioned, Due(i, c), Ahead(i, c)
        PROVE  Ahead(i, c)'
    <3>1. <<c, i>> \in comp
      BY <1>5, <2>1, <2>3
    <3> QED  BY <1>6, <2>1, <2>3, <3>1 DEF Ahead
  <2> QED  BY <1>4, <2>1, <2>2, <2>3
<1>7. CASE GetPath
  <2>1. /\ query'.at = "reading" /\ query'.comps = query.comps /\ query'.out = query.out
        /\ query'.todo = query.todo /\ query'.component = query.component
        /\ query'.ids = query.ids /\ query # Idle /\ query.at = "records"
    BY <1>7, GetPathIs DEF Reading
  <2>2. UNCHANGED <<paths, files, busy>>
    BY <1>7 DEF GetPath, store, history
  <2> QED  BY <1>4, <2>1, <2>2 DEF Ahead
<1>8. CASE Read
  <2>1. PICK rec \in Ranges \cup {NoRecord} :
         /\ rec = Found(ContentAt(query.id, query.dir))
         /\ query'.at = "records" /\ query'.comps = query.comps /\ query'.todo = query.todo
         /\ query'.component = query.component /\ query'.ids = query.ids \ {query.id}
         /\ query'.out =
              IF rec # NoRecord /\ Applies(rec, query.component, query.comps[query.component])
              THEN query.out \cup {<<query.component, query.id>>} ELSE query.out
         /\ query # Idle /\ query.at = "reading"
    BY <1>8, ReadIs DEF AtRecords
  <2>2. UNCHANGED <<paths, files, busy>>
    BY <1>8 DEF Read, store, history
  <2>3. ASSUME NEW i \in Id \ busy, NEW c \in Versioned, Due(i, c), Ahead(i, c)
        PROVE  Ahead(i, c)'
    <3>1. CASE query.component = c /\ query.id = i
      <4>1. query.dir = paths[i]
        BY <2>1, <2>3, <3>1 DEF QueryGoesOn
      <4>2. Stored(i) \in Ranges /\ ~Stored(i).deleted /\ Applies(Stored(i), c, query.comps[c])
        BY <1>5, <2>1, <2>3
      <4>3. rec = Stored(i) /\ rec # NoRecord
        BY <2>1, <3>1, <4>1, <4>2, KindsDiffer DEF Stored, Found, Ranges
      <4>4. <<c, i>> \in query'.out
        BY <2>1, <3>1, <4>2, <4>3
      <4> QED  BY <4>4 DEF Ahead
    <3>2. CASE ~(query.component = c /\ query.id = i)
      BY <2>1, <2>3, <3>2 DEF Ahead
    <3> QED  BY <3>1, <3>2
  <2> QED  BY <1>4, <2>1, <2>2, <2>3
<1>9. CASE NextComponent
  <2>1. /\ query'.at = "component" /\ query'.comps = query.comps /\ query'.out = query.out
        /\ query'.todo = query.todo /\ query # Idle /\ query.ids = {}
    BY <1>9, NextComponentIs DEF AtComponent
  <2>2. UNCHANGED <<paths, files, busy>>
    BY <1>9 DEF NextComponent, store, history
  <2> QED  BY <1>4, <2>1, <2>2 DEF Ahead
<1>10. CASE Return
  BY <1>10 DEF Return, NoneForgotten
<1> QED
  BY <1>1, <1>2, <1>3, <1>6, <1>7, <1>8, <1>9, <1>10, Steps
-----------------------------------------------------------------------------
(* Imports: what the store holds, and will hold, of an imported record.    *)

LEMMA ImportInit == Init => ImportedIs /\ HeldOnly
BY DEF Init, ImportedIs, HeldOnly

LEMMA ImportedIsNext ==
  ASSUME Typed, PutGoesOn, ImportedIs, [Next]_vars
  PROVE  ImportedIs'
<1>1. CASE UNCHANGED <<files, paths, writer, imported>>
  <2>1. \A id \in Id : Current(id)' = Current(id) /\ (Writing(id)' <=> Writing(id))
    BY <1>1 DEF Current, Writing, Stored, ContentAt
  <2> QED  BY <1>1, <2>1 DEF ImportedIs
<1>2. ASSUME NEW id \in Id, NEW d \in Dir, NEW rec \in Ranges, PutBegins(id, d, rec)
      PROVE  ImportedIs'
  <2>1. PICK source \in Feed \cup {None} :
          imported' = [imported EXCEPT ![id] = source] /\ (source # None => Recorded(rec, source))
    BY <1>2 DEF PutBegins, MadeFrom
  <2>2. imported' \in [Id -> Feed \cup {None}]
    BY <2>1 DEF ImportedIs
  <2>3. paths' = paths /\ \A i \in Id : (Writing(i)' <=> i = id) /\ ~Writing(i)
    BY <1>2, BegunIs DEF Writing, PutBegins
  <2>4. Current(id)' = rec /\ imported'[id] = source
    BY <1>2, <2>1, <2>3, BegunIs DEF Current, ImportedIs
  <2>5. \A i \in Id : i # id => Current(i)' = Current(i) /\ imported'[i] = imported[i]
    BY <1>2, <2>1, <2>3, BegunIs DEF Current, ImportedIs
  <2>6. ASSUME NEW i \in Id, imported'[i] # None
        PROVE  Recorded(Current(i)', imported'[i]) /\ (paths'[i] # None \/ Writing(i)')
    <3>1. CASE i = id
      BY <2>1, <2>3, <2>4, <2>6, <3>1
    <3>2. CASE i # id
      BY <2>3, <2>5, <2>6, <3>2 DEF ImportedIs
    <3> QED  BY <3>1, <3>2
  <2> QED  BY <2>2, <2>6 DEF ImportedIs
<1>3. CASE PutWrite
  <2>1. imported' = imported /\ writer # None
    BY <1>3 DEF PutWrite
  <2>2. \A i \in Id : (Writing(i)' <=> i = writer.id) /\ (Writing(i) <=> i = writer.id)
    BY <1>3, <2>1, WrittenIs DEF Writing
  <2>3. \A i \in Id : Current(i)' = Current(i)
    BY <1>3, <2>2, WrittenIs DEF Current
  <2>4. \A i \in Id : i # writer.id => paths'[i] = paths[i]
    BY <1>3, WrittenIs
  <2> QED  BY <2>1, <2>2, <2>3, <2>4 DEF ImportedIs
<1>4. CASE PutFinish
  <2>1. imported' = imported /\ writer # None /\ paths' = paths /\ writer' = None
    BY <1>4, FinishedIs DEF PutFinish, history
  <2>2. \A i \in Id : ~Writing(i)' /\ (Writing(i) <=> i = writer.id)
    BY <2>1 DEF Writing
  <2>3. \A i \in Id : Current(i)' = Current(i)
    BY <1>4, <2>2, FinishedIs DEF Current
  <2>4. paths[writer.id] # None
    BY <1>4, FinishedIs, PutIs, <2>1, IdAssumption
  <2> QED  BY <2>1, <2>2, <2>3, <2>4 DEF ImportedIs
<1>5. CASE Aside \/ Start \/ GetPath \/ Read \/ NextComponent \/ Return
             \/ \E c \in query.todo : query.at = "component" /\ LookUp(c)
  <2>1. UNCHANGED <<files, paths, writer, imported>>
    BY <1>5 DEF Aside, Start, GetPath, Read, NextComponent, Return, LookUp, store, history
  <2> QED  BY <1>1, <2>1
<1> QED  BY <1>2, <1>3, <1>4, <1>5, Steps

LEMMA HeldOnlyNext ==
  ASSUME Typed, PutGoesOn, QueryGoesOn, HeldOnly, [Next]_vars
  PROVE  HeldOnly'
<1>1. ASSUME UNCHANGED <<files, paths, held, busy>>, query # Idle
      PROVE  HeldOnly'
  <2>1. \A id \in Id : Stored(id)' = Stored(id)
    BY <1>1 DEF Stored, ContentAt
  <2> QED  BY <1>1, <2>1 DEF HeldOnly
<1>2. ASSUME NEW id \in Id, NEW d \in Dir, NEW rec \in Ranges, PutBegins(id, d, rec)
      PROVE  HeldOnly'
  <2> SUFFICES ASSUME query # Idle, NEW i \in Id, i \notin busy, i # id
               PROVE  held'[i] \subseteq {Stored(i)'}
    BY <1>2 DEF PutBegins, HeldOnly
  <2> QED  BY <1>2, BegunIs DEF PutBegins, HeldOnly
<1>3. CASE PutWrite
  <2>1. /\ query' = query /\ busy' = busy /\ writer # None
        /\ held' = IF query = Idle THEN held
                   ELSE [held EXCEPT ![writer.id] = held[writer.id] \cup {writer.record}]
    BY <1>3 DEF PutWrite
  <2> SUFFICES ASSUME query # Idle, NEW i \in Id \ busy
               PROVE  held'[i] \subseteq {Stored(i)'}
    BY <2>1 DEF HeldOnly
  <2>2. i # writer.id
    BY <2>1 DEF QueryGoesOn
  <2>3. held'[i] = held[i] /\ Stored(i)' = Stored(i)
    BY <1>3, <2>1, <2>2, WrittenIs DEF Typed
  <2> QED  BY <2>3 DEF HeldOnly
<1>4. CASE PutFinish
  <2>1. query' = query /\ held' = held /\ busy' = busy /\ \A i \in Id : Stored(i)' = Stored(i)
    BY <1>4, FinishedIs DEF PutFinish, history
  <2> QED  BY <2>1 DEF HeldOnly
<1>5. CASE Start
  <2>1. held' = [id \in Id |-> {Stored(id)} \ {NoFile, Torn}]
    BY <1>5 DEF Start
  <2>2. \A id \in Id : Stored(id)' = Stored(id)
    BY <1>5 DEF Start, store, Stored, ContentAt
  <2> QED  BY <2>1, <2>2 DEF HeldOnly
<1>6. CASE Return
  BY <1>6 DEF Return, HeldOnly
<1>7. CASE Aside
  BY <1>1, <1>7 DEF Aside, store, HeldOnly
<1>8. CASE GetPath \/ Read \/ NextComponent
             \/ \E c \in query.todo : query.at = "component" /\ LookUp(c)
  <2>1. UNCHANGED <<files, paths, held, busy>> /\ query # Idle
    BY <1>8 DEF GetPath, Read, NextComponent, LookUp, store, history, Idle
  <2> QED  BY <1>1, <2>1
<1> QED  BY <1>2, <1>3, <1>4, <1>5, <1>6, <1>7, <1>8, Steps
-----------------------------------------------------------------------------
(* The theorems.                                                           *)

LEMMA SafeAlways == Spec => []Safe
<1>1. Init => Safe
  BY TypedInit, StoreInit, QueryInit, ImportInit DEF Safe
<1>2. Safe /\ [Next]_vars => Safe'
  BY TypedNext, StoreNext, HeldNext, QueryGoesOnNext, MatchesJustifiedNext, NoneForgottenNext,
     ImportedIsNext, HeldOnlyNext
  DEF Safe
<1> QED  BY <1>1, <1>2, PTL DEF Spec

\* The files, the indexes and the writer keep their types, and a query knows
\* nothing but records (schwachstellen/store/store.go, projection.go).
THEOREM TypeCorrect == Spec => []TypeOK
<1>1. Safe => TypeOK
  <2> SUFFICES ASSUME Typed PROVE TypeOK
    BY DEF Safe
  <2>1. ASSUME NEW id \in Id
        PROVE  /\ \A d \in Dir : files[id][d] \in {NoFile, Torn} \cup Record
               /\ paths[id] \in Dir \cup {None} /\ held[id] \subseteq Record
    BY DEF Typed, Content, Ranges, Path
  <2>2. \A entry \in comp : entry[1] \in Component /\ entry[2] \in Id
    BY DEF Typed
  <2>3. query.at \in {"idle", "component", "records", "reading"}
    BY QueryIs DEF Idle
  <2> QED  BY <2>1, <2>2, <2>3 DEF TypeOK, Typed
<1> QED  BY <1>1, SafeAlways, PTL

\* projection.go:96-143.  Every match a query reports was so at some moment of
\* it: the component was the project's, and the record then said that it
\* affects the version, by the reference order of versions; whatever a writer
\* moves, rewrites, tears or deletes while the files are read without a lock.
THEOREM AlwaysJustified == Spec => []MatchesJustified
BY SafeAlways, PTL DEF Safe

\* projection.go:96-143, store.go:387-400.  When Matches is done it has reported
\* every record no Put was at meanwhile for each component the record affects:
\* the component index, the path map and the files lose none.
THEOREM NeverMisses == Spec => []NothingMissed
<1>1. Safe => NothingMissed
  <2> SUFFICES ASSUME Safe, Done, NEW id \in Id \ busy, NEW c \in Versioned,
                      paths[id] # None /\ Affects(Stored(id), c, query.comps[c])
               PROVE  <<c, id>> \in query.out
    BY DEF NothingMissed
  <2>1. query # Idle /\ query.at = "component" /\ query.todo = {}
    BY DEF Done, Idle
  <2>2. Due(id, c)
    BY DEF Due
  <2>3. Ahead(id, c)
    BY <2>1, <2>2 DEF Safe, NoneForgotten
  <2> QED  BY <2>1, <2>3 DEF Ahead
<1> QED  BY <1>1, SafeAlways, PTL

\* mapping.go:37-102, command.go:112-145, projection.go:96-143.  From osv.dev to a
\* project: for every feed, project and inventory, when Matches is done it has
\* reported exactly the components an imported record of the common patterns
\* affects, whatever the record said before its import and wherever its file
\* went, unless a Put was at the record meanwhile.
THEOREM AdvisoryReported == Spec => []AdvisoryHolds
<1>1. Safe => AdvisoryHolds
  <2> SUFFICES ASSUME Safe, Done, NEW id \in Id \ busy, imported[id] # None,
                      Common(imported[id]), ~OpenEnded(imported[id]), NEW c \in Versioned
               PROVE  OsvAffects(imported[id], c, query.comps[c]) <=> <<c, id>> \in query.out
    BY DEF AdvisoryHolds, ReportedAs
  <2>1. query # Idle /\ query.at = "component" /\ query.todo = {}
    BY DEF Done, Idle
  <2>2. ~Writing(id)
    BY <2>1 DEF Safe, QueryGoesOn, Writing
  <2>3. imported[id] \in Feed /\ Recorded(Stored(id), imported[id]) /\ paths[id] # None
    BY <2>2 DEF Safe, ImportedIs, Current
  <2>4. query.comps \in Inventory
    BY <2>1, QueryFields DEF Safe
  <2>5. /\ c \in DOMAIN query.comps /\ query.comps[c] \in Written /\ c # Empty
        /\ Parse(query.comps[c]) \in Version
    BY <2>4, InventoryAssumption, ParseType DEF Versioned
  <2>6. OsvAffects(imported[id], c, query.comps[c]) <=> Affects(Stored(id), c, query.comps[c])
    BY <2>3, <2>5, AdvisoryMeans
  <2>7. Affects(Stored(id), c, query.comps[c]) => <<c, id>> \in query.out
    BY <2>1, <2>3 DEF Safe, NoneForgotten, Due, Ahead
  <2>8. ASSUME <<c, id>> \in query.out
        PROVE  Affects(Stored(id), c, query.comps[c])
    <3>1. PICK m : m = <<c, id>>
      OBVIOUS
    <3>2. \E rec \in held[m[2]] : Affects(rec, m[1], query.comps[m[1]])
      BY <2>1, <2>8, <3>1 DEF Safe, MatchesJustified
    <3>3. PICK rec \in held[id] : Affects(rec, c, query.comps[c])
      BY <3>1, <3>2
    <3>4. rec = Stored(id)
      BY <2>1, <3>3 DEF Safe, HeldOnly
    <3> QED  BY <3>3, <3>4
  <2> QED  BY <2>6, <2>7, <2>8
<1> QED  BY <1>1, SafeAlways, PTL
=============================================================================
