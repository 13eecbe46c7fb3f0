-------------------------- MODULE MCVulnerabilities ---------------------------
EXTENDS Vulnerabilities, TLC

CONSTANTS a, b, m1, m2, c1, r1, e1

Affects(x, r) == [component |-> x, range |-> r, ecosystem |-> e1]

\* One command of each kind; an update that keeps the title out, an import
\* with an incomplete entry among the declared ranges.
SomeCommands ==
  { [op |-> "create", meta |-> m1],
    [op |-> "update", meta |-> m2],
    [op |-> "delete"],
    [op |-> "add", component |-> c1, range |-> r1],
    [op |-> "import", meta |-> m1, inputs |-> {Affects(Empty, r1), Affects(c1, r1)}] }

TwoIds == <<a, b>>

\* A record with an affected component, and one that was deleted.
SomeLegacy ==
  a :> << [kind |-> "created", meta |-> m1, source |-> "manual"],
          [kind |-> "rangeAdded", component |-> c1, range |-> r1] >>
  @@ b :> << [kind |-> "created", meta |-> m1, source |-> "osv"],
             [kind |-> "updated", meta |-> m2], [kind |-> "deleted"] >>

\* Of buckets 0, 100, 200, 1000 the last sorts before 200.
Lexical == <<0, 2, 1>>

Symmetry == Permutations(Worker)
==============================================================================
