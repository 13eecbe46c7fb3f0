------------------------------ MODULE MCMatching ------------------------------
EXTENDS Matching, TLC

V(a, b, c) == [v |-> FALSE, parts |-> <<a, b, c>>, pre |-> 0]
Pre(a, b, c) == [V(a, b, c) EXCEPT !.pre = 1]
WithV(s) == [s EXCEPT !.v = TRUE]
Alone == [v |-> FALSE, parts |-> <<>>, pre |-> 0]

Lib == [name |-> "pkg:npm/lib", at |-> Empty]
Tool == [name |-> "tool", at |-> Empty]
LibName == [name |-> "lib", at |-> Empty]
MCComponent == {Lib, LibName, Tool}

Introduced(s) == [kind |-> "introduced", version |-> s]
Fixed(s) == [kind |-> "fixed", version |-> s]
LastAffected(s) == [kind |-> "last_affected", version |-> s]

Rng(type, events) == [type |-> type, events |-> events]
Semver1(events) == <<Rng("SEMVER", events)>>
Npm == "npm"
Package(purl, name, ranges) ==
  [purl |-> purl, name |-> name, ecosystem |-> Npm, ranges |-> ranges]
LibRanges(ranges) == Package(Lib, LibName, ranges)
ToolRanges(ranges) == Package(Empty, Tool, ranges)

Advisory(affected) == [summary |-> "text", affected |-> affected]

MCFeed == {
  Advisory(<<LibRanges(Semver1(<<Introduced(V(1, 0, 0)), Fixed(V(2, 0, 0))>>))>>),
  Advisory(<<ToolRanges(<<Rng("GIT", <<>>),
                          Rng("ECOSYSTEM", <<Introduced(WithV(V(1, 2, 0))),
                                               LastAffected(WithV(V(1, 4, 0)))>>)>>)>>),
  Advisory(<<LibRanges(Semver1(<<Introduced(Zero), Fixed(V(1, 5, 0))>>)),
             ToolRanges(Semver1(<<Introduced(V(1, 4, 0))>>))>>),
  \* Two intervals in one range, and in two of them.
  Advisory(<<LibRanges(Semver1(<<Introduced(Zero), Fixed(V(1, 0, 0)),
                                 Introduced(V(1, 5, 0)), Fixed(V(2, 0, 0))>>))>>),
  Advisory(<<LibRanges(<<Rng("SEMVER", <<Introduced(Zero), Fixed(V(1, 0, 0))>>),
                         Rng("SEMVER", <<Introduced(V(1, 5, 0))>>)>>)>>),
  \* Every version.
  Advisory(<<LibRanges(Semver1(<<Introduced(Zero)>>)),
             Package(Empty, Empty, <<>>)>>)}

Part(op, s) == [op |-> op, version |-> s]

MCManual == {
  [op |-> "add", component |-> Tool, range |-> <<Part("^", V(1, 2, 0))>>],
  [op |-> "add", component |-> Tool, range |-> <<Part("~", V(1, 4, 0))>>],
  [op |-> "add", component |-> Tool, range |-> <<Part(">", Alone), Part("", V(1, 4, 0))>>],
  [op |-> "remove", component |-> Lib],
  [op |-> "delete"]}

MCVersionRange ==
  ({cmd.range : cmd \in {m \in MCManual : m.op = "add"}}
    \cup UNION {{d.range : d \in Map(adv).inputs} : adv \in MCFeed}) \ {<<>>}

SbomEntry(purl, name, version, ref) ==
  [purl |-> purl, packageURL |-> Empty, name |-> name, version |-> version, bomRef |-> ref]

\* A document whose two components have names of their own, and one without
\* package URL or name.
Documents == {
  <<SbomEntry(Lib, "lib", V(1, 5, 0), Empty), SbomEntry(Empty, Empty, V(1, 4, 0), Tool)>>,
  <<SbomEntry(Lib, "lib", Pre(2, 0, 0), Empty), SbomEntry(Empty, "tool", V(1, 4, 0), Tool),
    SbomEntry(Empty, Empty, Empty, Tool)>>}

Reconciled(doc) ==
  [c \in {ParseSbom(doc)[i].component : i \in DOMAIN ParseSbom(doc)} |->
     (CHOOSE i \in DOMAIN ParseSbom(doc) : ParseSbom(doc)[i].component = c)]

FromSbom(doc) == [c \in DOMAIN Reconciled(doc) |-> ParseSbom(doc)[Reconciled(doc)[c]].version]

MCInventory ==
  {FromSbom(doc) : doc \in Documents}
    \cup {(Lib :> WithV(V(1, 5, 0))) @@ (Tool :> Pre(2, 0, 0))}
==============================================================================
