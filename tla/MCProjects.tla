----------------------------- MODULE MCProjects ------------------------------
EXTENDS Projects, TLC

CONSTANTS c1, c2, v1, v2

Declare(c, v) == [component |-> c, version |-> v]

\* Two new components; one component twice, with one version and with two;
\* declarations without a component or a version among others; none.
SomeImports ==
  { <<Declare(c1, v1), Declare(c2, v1)>>,
    <<Declare(c1, v2), Declare(c1, v2)>>,
    <<Declare(c1, v1), Declare(c1, v2)>>,
    <<Declare(c1, Empty), Declare(c2, v2), Declare(Empty, v1)>>,
    <<>> }

Symmetry == Permutations(Worker) \cup Permutations(ProjectID)
==============================================================================
