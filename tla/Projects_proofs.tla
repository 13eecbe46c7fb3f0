--------------------------- MODULE Projects_proofs ---------------------------
(***************************************************************************)
(* Proofs about the projects: the aggregates rebuilt from the log, the     *)
(* commands decided on them, and the read model.                           *)
(***************************************************************************)
EXTENDS Projects, FiniteSetTheorems, SequenceTheorems, WellFoundedInduction, TLAPS

\* The lemmas about the versions in the log.
Versions == INSTANCE Envelopes_proofs WITH Stream <- ProjectID, Event <- DomainEvent

-----------------------------------------------------------------------------
(* Folds.                                                                  *)

\* What holds of 0 and goes from each number to the next holds up to n.
LEMMA UpTo ==
  ASSUME NEW n \in Nat, NEW S, 0 \in S, \A k \in 1..n : k - 1 \in S => k \in S
  PROVE  \A k \in 0..n : k \in S
<1> DEFINE T == {k \in 0..n : k \notin S}
<1>1. SUFFICES ASSUME T # {} PROVE FALSE
  OBVIOUS
<1>2. T \subseteq Nat
  OBVIOUS
<1>3. PICK t \in T : \A u \in T : ~ (<<u, t>> \in OpToRel(<, Nat))
  BY <1>1, <1>2, NatLessThanWellFounded, WFMin, Zenon
<1>4. \A u \in T : ~ (u < t)
  BY <1>2, <1>3 DEF OpToRel
<1>5. t \in 1..n /\ t - 1 \in 0..n /\ t - 1 < t
  OBVIOUS
<1>6. t - 1 \in S
  BY <1>4, <1>5
<1> QED
  BY <1>5, <1>6

\* The last number of a set of numbers up to k + 1 that holds k + 1.
LEMMA LastOne ==
  ASSUME NEW k \in Nat, NEW s \in SUBSET (1..k), k \in s
  PROVE  Max(s) = k
<1>1. \A y \in s : k >= y
  OBVIOUS
<1>2. \A x \in s : (\A y \in s : x >= y) => x = k
  <2> SUFFICES ASSUME NEW x \in s, \A y \in s : x >= y PROVE x = k
    OBVIOUS
  <2>1. x >= k /\ k >= x /\ x \in Nat
    BY <1>1
  <2> QED  BY <2>1
<1> QED
  BY <1>1, <1>2 DEF Max

\* The last number of a set of numbers is one of them.
LEMMA MaxIsIn ==
  ASSUME NEW n \in Nat, NEW s \in SUBSET (1..n), s # {}
  PROVE  Max(s) \in s
<1>1. \E k \in s : \A j \in s : j <= k
  BY Versions!LastExists
<1>2. \E k \in s : \A j \in s : k >= j
  BY <1>1
<1> QED
  BY <1>2 DEF Max

\* The function the fold operators iterate: it holds the value of each set of
\* positions.
Iterated(n, D, base, g, it) ==
  /\ it \in [SUBSET (1..n) -> D]
  /\ \A s \in SUBSET (1..n) :
       it[s] = IF s = {} THEN base ELSE g[Max(s)][it[s \ {Max(s)}]]

\* It exists for steps that are a function g of
\* the value so far and the position.
LEMMA Iteration ==
  ASSUME NEW n \in Nat, NEW D, NEW base \in D, NEW g \in [1..n -> [D -> D]]
  PROVE  \E it : Iterated(n, D, base, g, it)
<1> DEFINE Good(k, it) ==
             \A s \in SUBSET (1..k) :
               it[s] = IF s = {} THEN base ELSE g[Max(s)][it[s \ {Max(s)}]]
           Has(k) == \E it \in [SUBSET (1..k) -> D] : Good(k, it)
           S == {k \in 0..n : Has(k)}
<1>1. 0 \in S
  <2>1. PICK it : it = [s \in SUBSET (1..0) |-> base]
    OBVIOUS
  <2>2. it \in [SUBSET (1..0) -> D]
    BY <2>1
  <2>3. Good(0, it)
    BY <2>1
  <2>4. Has(0)
    BY <2>2, <2>3
  <2> HIDE DEF Has
  <2> QED  BY <2>4
<1>2. ASSUME NEW k \in 1..n, k - 1 \in S PROVE k \in S
  <2>1. PICK old \in [SUBSET (1..k-1) -> D] : Good(k - 1, old)
    BY <1>2
  <2> DEFINE it == [s \in SUBSET (1..k) |->
                      IF k \in s THEN g[k][old[s \ {k}]] ELSE old[s]]
  <2>2. \A s \in SUBSET (1..k) : s \ {k} \in SUBSET (1..k-1)
    OBVIOUS
  <2>3. \A s \in SUBSET (1..k) : k \notin s => s \in SUBSET (1..k-1)
    OBVIOUS
  <2>4. it \in [SUBSET (1..k) -> D]
    <3> SUFFICES ASSUME NEW s \in SUBSET (1..k) 
                 PROVE  (IF k \in s THEN g[k][old[s \ {k}]] ELSE old[s]) \in D
      OBVIOUS
    <3>1. CASE k \in s
      <4>1. old[s \ {k}] \in D
        BY <2>2
      <4> QED  BY <4>1, <3>1
    <3>2. CASE k \notin s
      BY <3>2, <2>3
    <3> QED  BY <3>1, <3>2
  <2>5. Good(k, it)
    <3> SUFFICES ASSUME NEW s \in SUBSET (1..k)
                 PROVE  it[s] = IF s = {} THEN base ELSE g[Max(s)][it[s \ {Max(s)}]]
      OBVIOUS
    <3>1. CASE k \in s
      <4>1. Max(s) = k
        BY <3>1, LastOne
      <4>2. it[s] = g[k][old[s \ {k}]] /\ s # {}
        BY <3>1
      <4>3. it[s \ {k}] = old[s \ {k}]
        BY <2>2
      <4> QED  BY <4>1, <4>2, <4>3
    <3>2. CASE k \notin s
      <4>1. s \in SUBSET (1..k-1) /\ it[s] = old[s]
        BY <3>2, <2>3
      <4>2. CASE s = {}
        BY <4>1, <4>2, <2>1
      <4>3. CASE s # {}
        <5>1. s \ {Max(s)} \in SUBSET (1..k-1) /\ k \notin s \ {Max(s)}
          BY <4>1, <3>2
        <5>2. it[s \ {Max(s)}] = old[s \ {Max(s)}]
          BY <5>1, <2>3
        <5>3. old[s] = g[Max(s)][old[s \ {Max(s)}]]
          BY <4>1, <4>3, <2>1
        <5> QED  BY <4>1, <4>3, <5>2, <5>3
      <4> QED  BY <4>2, <4>3
    <3> QED  BY <3>1, <3>2
  <2> HIDE DEF it
  <2>6. Has(k)
    BY <2>4, <2>5
  <2> HIDE DEF Has
  <2> QED  BY <2>6
<1>3. Has(n)
  <2> HIDE DEF Has
  <2>1. \A k \in 0..n : k \in S
    <3> HIDE DEF S
    <3> QED  BY <1>1, <1>2, UpTo
  <2> QED  BY <2>1
<1> QED
  BY <1>3 DEF Iterated

\* The largest of the first k numbers, and the numbers before it.
LEMMA FirstOnes ==
  ASSUME NEW k \in Nat \ {0}
  PROVE  1..k # {} /\ Max(1..k) = k /\ (1..k) \ {k} = 1..(k - 1)
<1>1. 1..k \in SUBSET (1..k) /\ k \in 1..k
  OBVIOUS
<1>2. Max(1..k) = k
  BY <1>1, LastOne
<1>3. (1..k) \ {k} = 1..(k - 1)
  OBVIOUS
<1> QED
  BY <1>1, <1>2, <1>3

\* The values h after each position, if g[k] is the step at position k.
Runs(n, D, base, g, h) ==
  /\ h \in [0..n -> D]
  /\ h[0] = base
  /\ \A k \in 1..n : h[k] = g[k][h[k - 1]]

\* f is iterated with the steps of g as long as its values are in D.
Iterates(n, D, base, g, f) ==
  /\ f[{}] = base
  /\ \A s \in SUBSET (1..n) :
       s # {} /\ f[s \ {Max(s)}] \in D => f[s] = g[Max(s)][f[s \ {Max(s)}]]

\* h is a run that ends with what f has for all positions.
Reached(n, D, base, g, f, h) == Runs(n, D, base, g, h) /\ h[n] = f[1..n]

\* Then the values of f at the first positions are those of a run.
LEMMA IteratedRuns ==
  ASSUME NEW n \in Nat, NEW D, NEW base \in D, NEW g \in [1..n -> [D -> D]],
         NEW f, Iterates(n, D, base, g, f)
  PROVE  \E h : Reached(n, D, base, g, f, h)
<1>1. ASSUME NEW k \in 1..n, f[1..(k - 1)] \in D
      PROVE  f[1..k] = g[k][f[1..(k - 1)]] /\ f[1..k] \in D
  <2>1. Max(1..k) = k /\ (1..k) \ {k} = 1..(k - 1) /\ 1..k # {}
    <3>1. k \in Nat \ {0}
      OBVIOUS
    <3> QED  BY <3>1, FirstOnes
  <2>2. 1..k \in SUBSET (1..n)
    OBVIOUS
  <2>3. f[1..k] = g[k][f[1..(k - 1)]]
    BY <1>1, <2>1, <2>2 DEF Iterates
  <2> QED  BY <1>1, <2>3
<1> DEFINE S == {k \in 0..n : f[1..k] \in D}
<1>2. 1..0 = {}
  OBVIOUS
<1>3. \A k \in 0..n : k \in S
  <2>1. 0 \in S
    BY <1>2 DEF Iterates
  <2>2. \A k \in 1..n : k - 1 \in S => k \in S
    BY <1>1
  <2> HIDE DEF S
  <2> QED  BY <2>1, <2>2, UpTo
<1>4. PICK h : h = [k \in 0..n |-> f[1..k]]
  OBVIOUS
<1>5. h \in [0..n -> D] /\ h[0] = base /\ h[n] = f[1..n]
  BY <1>2, <1>3, <1>4 DEF Iterates
<1>6. \A k \in 1..n : h[k] = g[k][h[k - 1]]
  <2> TAKE k \in 1..n
  <2>1. k - 1 \in 0..n /\ h[k - 1] = f[1..(k - 1)] /\ h[k] = f[1..k]
    BY <1>4
  <2>2. f[1..(k - 1)] \in D
    BY <1>3, <2>1
  <2> QED  BY <1>1, <2>1, <2>2
<1> QED
  BY <1>5, <1>6 DEF Reached, Runs

-----------------------------------------------------------------------------
(* The aggregate.                                                          *)

Name == Text \cup {Empty}

\* The components of a project, with their versions.
Held == UNION {[S -> Version] : S \in SUBSET Component}

Aggregates ==
  [exists : BOOLEAN, deleted : BOOLEAN, name : Name, description : Name, components : Held]

\* The forms of an event.
LEMMA EventForms ==
  ASSUME NEW e \in DomainEvent
  PROVE  \/ e.kind = "created" /\ e.name \in Text /\ e.description \in Name
         \/ e.kind = "renamed" /\ e.name \in Text
         \/ e.kind = "described" /\ e.description \in Name
         \/ e.kind = "deleted"
         \/ e.kind = "added" /\ e.component \in Component /\ e.version \in Version
         \/ e.kind = "removed" /\ e.component \in Component
         \/ e.kind = "updated" /\ e.component \in Component /\ e.version \in Version
BY DEF DomainEvent, Name

\* The fields of an aggregate.
LEMMA AggregateFields ==
  ASSUME NEW p \in Aggregates
  PROVE  /\ p.exists \in BOOLEAN /\ p.deleted \in BOOLEAN
         /\ p.name \in Name /\ p.description \in Name
         /\ p.components \in Held
         /\ DOMAIN p.components \in SUBSET Component
         /\ p.components \in [DOMAIN p.components -> Version]
<1>1. p.components \in Held
  BY DEF Aggregates
<1>2. PICK S \in SUBSET Component : p.components \in [S -> Version]
  BY <1>1 DEF Held
<1> QED
  BY <1>1, <1>2 DEF Aggregates

\* A function from components to versions is what a project may hold.
LEMMA HeldIs ==
  ASSUME NEW S \in SUBSET Component, NEW f \in [S -> Version]
  PROVE  f \in Held
BY DEF Held

\* A project may hold nothing.
LEMMA NothingHeld == NoComponents \in Held /\ DOMAIN NoComponents = {}
<1>1. NoComponents \in [{} -> Version] /\ DOMAIN NoComponents = {}
  BY DEF NoComponents
<1> QED
  BY <1>1, HeldIs

\* What adding or updating a component makes of the components.
LEMMA WithIs ==
  ASSUME NEW f \in Held, NEW c \in Component, NEW v \in Version
  PROVE  /\ WithComponent(f, c, v) \in Held
         /\ DOMAIN WithComponent(f, c, v) = DOMAIN f \cup {c}
         /\ WithComponent(f, c, v)[c] = v
         /\ \A d \in DOMAIN f : d # c => WithComponent(f, c, v)[d] = f[d]
<1>1. PICK S \in SUBSET Component : f \in [S -> Version]
  BY DEF Held
<1>2. WithComponent(f, c, v) \in [S \cup {c} -> Version]
  BY <1>1 DEF WithComponent
<1>3. WithComponent(f, c, v) \in Held
  BY <1>2, HeldIs
<1> QED
  BY <1>1, <1>2, <1>3 DEF WithComponent

\* What removing a component makes of the components.
LEMMA RestrictIs ==
  ASSUME NEW f \in Held, NEW c
  PROVE  /\ Restrict(f, DOMAIN f \ {c}) \in Held
         /\ DOMAIN Restrict(f, DOMAIN f \ {c}) = DOMAIN f \ {c}
         /\ \A d \in DOMAIN f \ {c} : Restrict(f, DOMAIN f \ {c})[d] = f[d]
<1>1. PICK S \in SUBSET Component : f \in [S -> Version]
  BY DEF Held
<1>2. Restrict(f, DOMAIN f \ {c}) \in [S \ {c} -> Version]
  BY <1>1 DEF Restrict
<1>3. Restrict(f, DOMAIN f \ {c}) \in Held
  BY <1>2, HeldIs
<1> QED
  BY <1>1, <1>2, <1>3 DEF Restrict

\* The zero value is an aggregate.
LEMMA FreshType == Fresh \in Aggregates
<1>1. NoComponents \in Held /\ Empty \in Name
  BY NothingHeld DEF Name
<1> QED
  BY <1>1 DEF Fresh, Aggregates

\* What Apply does to an aggregate: an event that is not about the components
\* leaves them alone, the creation empties them, and the other events change
\* the one they name.
Applied(p, e, q) ==
  /\ q.exists <=> p.exists \/ e.kind = "created"
  /\ q.deleted <=> p.deleted \/ e.kind = "deleted"
  /\ q.name = IF e.kind \in {"created", "renamed"} THEN e.name ELSE p.name
  /\ q.description =
       IF e.kind \in {"created", "described"} THEN e.description ELSE p.description
  /\ e.kind = "created" => q.components = NoComponents
  /\ e.kind \in {"renamed", "described", "deleted"} => q.components = p.components
  /\ e.kind = "added" =>
       q.components = WithComponent(p.components, e.component, e.version)
  /\ e.kind = "removed" =>
       q.components = Restrict(p.components, DOMAIN p.components \ {e.component})
  /\ e.kind = "updated" =>
       q.components = IF e.component \in DOMAIN p.components
                      THEN WithComponent(p.components, e.component, e.version)
                      ELSE p.components

\* Apply, case by case.
LEMMA ApplyIs ==
  ASSUME NEW p \in Aggregates, NEW e \in DomainEvent
  PROVE  Apply(p, e) \in Aggregates /\ Applied(p, e, Apply(p, e))
<1> DEFINE Made(ex, de, n, d, f) ==
      [exists |-> ex, deleted |-> de, name |-> n, description |-> d, components |-> f]
<1>1. p = Made(p.exists, p.deleted, p.name, p.description, p.components)
  BY DEF Aggregates
<1>2. /\ p.exists \in BOOLEAN /\ p.deleted \in BOOLEAN
      /\ p.name \in Name /\ p.description \in Name
      /\ p.components \in Held
  BY AggregateFields
<1>3. \A ex, de \in BOOLEAN, n, d \in Name, f \in Held :
        Made(ex, de, n, d, f) \in Aggregates
  BY DEF Aggregates
<1>4. Text \subseteq Name
  BY DEF Name
<1>5. ASSUME NEW ex, NEW de, NEW n, NEW d, NEW f
      PROVE  LET q == Made(ex, de, n, d, f) IN
             q.exists = ex /\ q.deleted = de /\ q.name = n /\ q.description = d
               /\ q.components = f
  OBVIOUS
<1>6. CASE e.kind = "created"
  <2>1. e.name \in Name /\ e.description \in Name
    BY <1>6, <1>4, EventForms
  <2>2. Apply(p, e) = Made(TRUE, p.deleted, e.name, e.description, NoComponents)
    BY <1>1, <1>6 DEF Apply
  <2> HIDE DEF Made
  <2>3. Apply(p, e) \in Aggregates
    BY <1>2, <1>3, <2>1, <2>2, NothingHeld
  <2>4. /\ Apply(p, e).exists = TRUE /\ Apply(p, e).deleted = p.deleted
        /\ Apply(p, e).name = e.name /\ Apply(p, e).description = e.description
        /\ Apply(p, e).components = NoComponents
    BY <2>2 DEF Made
  <2>5. Applied(p, e, Apply(p, e))
    BY <1>6, <2>4 DEF Applied
  <2> QED  BY <2>3, <2>5
<1>7. CASE e.kind = "renamed"
  <2>1. e.name \in Name
    BY <1>7, <1>4, EventForms
  <2>2. Apply(p, e) = Made(p.exists, p.deleted, e.name, p.description, p.components)
    BY <1>1, <1>7 DEF Apply
  <2> HIDE DEF Made
  <2>3. Apply(p, e) \in Aggregates
    BY <1>2, <1>3, <2>1, <2>2
  <2>4. Applied(p, e, Apply(p, e))
    BY <1>5, <1>7, <2>2 DEF Applied
  <2> QED  BY <2>3, <2>4
<1>8. CASE e.kind = "described"
  <2>1. e.description \in Name
    BY <1>8, EventForms
  <2>2. Apply(p, e) = Made(p.exists, p.deleted, p.name, e.description, p.components)
    BY <1>1, <1>8 DEF Apply
  <2> HIDE DEF Made
  <2>3. Apply(p, e) \in Aggregates
    BY <1>2, <1>3, <2>1, <2>2
  <2>4. Applied(p, e, Apply(p, e))
    BY <1>5, <1>8, <2>2 DEF Applied
  <2> QED  BY <2>3, <2>4
<1>9. CASE e.kind = "deleted"
  <2>2. Apply(p, e) = Made(p.exists, TRUE, p.name, p.description, p.components)
    BY <1>1, <1>9 DEF Apply
  <2> HIDE DEF Made
  <2>3. Apply(p, e) \in Aggregates
    BY <1>2, <1>3, <2>2
  <2>4. /\ Apply(p, e).deleted = TRUE /\ Apply(p, e).exists = p.exists
        /\ Apply(p, e).name = p.name /\ Apply(p, e).description = p.description
        /\ Apply(p, e).components = p.components
    BY <2>2 DEF Made
  <2>5. Applied(p, e, Apply(p, e))
    BY <1>9, <2>4 DEF Applied
  <2> QED  BY <2>3, <2>5
<1>10. ASSUME e.kind \in {"added", "updated"} PROVE e.version \in Version
  BY <1>10, EventForms
<1>11. ASSUME e.kind \in {"added", "removed", "updated"} PROVE e.component \in Component
  BY <1>11, EventForms
<1>12. CASE e.kind = "added"
  <2> DEFINE f == WithComponent(p.components, e.component, e.version)
  <2>1. f \in Held
    BY <1>2, <1>10, <1>11, <1>12, WithIs
  <2>2. Apply(p, e) = Made(p.exists, p.deleted, p.name, p.description, f)
    BY <1>1, <1>12 DEF Apply
  <2> HIDE DEF Made
  <2>3. Apply(p, e) \in Aggregates
    BY <1>2, <1>3, <2>1, <2>2
  <2>4. Applied(p, e, Apply(p, e))
    BY <1>5, <1>12, <2>2 DEF Applied
  <2> QED  BY <2>3, <2>4
<1>13. CASE e.kind = "removed"
  <2> DEFINE f == Restrict(p.components, DOMAIN p.components \ {e.component})
  <2>1. f \in Held
    BY <1>2, RestrictIs
  <2>2. Apply(p, e) = Made(p.exists, p.deleted, p.name, p.description, f)
    BY <1>1, <1>13 DEF Apply
  <2> HIDE DEF Made
  <2>3. Apply(p, e) \in Aggregates
    BY <1>2, <1>3, <2>1, <2>2
  <2>4. Applied(p, e, Apply(p, e))
    BY <1>5, <1>13, <2>2 DEF Applied
  <2> QED  BY <2>3, <2>4
<1>14. CASE e.kind = "updated"
  <2> DEFINE f == IF e.component \in DOMAIN p.components
                  THEN WithComponent(p.components, e.component, e.version)
                  ELSE p.components
  <2>1. f \in Held
    BY <1>2, <1>10, <1>11, <1>14, WithIs
  <2>2. Apply(p, e) = Made(p.exists, p.deleted, p.name, p.description, f)
    BY <1>1, <1>14 DEF Apply
  <2> HIDE DEF Made
  <2>3. Apply(p, e) \in Aggregates
    BY <1>2, <1>3, <2>1, <2>2
  <2>4. Applied(p, e, Apply(p, e))
    BY <1>5, <1>14, <2>2 DEF Applied
  <2> QED  BY <2>3, <2>4
<1> QED
  BY <1>6, <1>7, <1>8, <1>9, <1>12, <1>13, <1>14, EventForms

-----------------------------------------------------------------------------
(* Loading a project.                                                      *)

Envelope == [stream : ProjectID, version : Nat, event : DomainEvent]

\* The fields of an envelope of the log.
LEMMA EnvelopeAt ==
  ASSUME NEW m \in Seq(Envelope), NEW k \in 1..Len(m)
  PROVE  /\ m[k] \in Envelope
         /\ m[k].stream \in ProjectID /\ m[k].version \in Nat /\ m[k].event \in DomainEvent
<1>1. m[k] \in Envelope
  BY ElementOfSeq
<1> QED
  BY <1>1 DEF Envelope

\* The aggregates of project id after each of the envelopes of m, those in
\* skipped left out.
RunOf(h, m, id, skipped) ==
  /\ h \in [0..Len(m) -> Aggregates]
  /\ h[0] = Fresh
  /\ \A k \in 1..Len(m) :
       h[k] = IF m[k].stream = id /\ m[k] \notin skipped
              THEN Apply(h[k - 1], m[k].event) ELSE h[k - 1]

\* The fold of Rebuilt runs through the log from its first envelope.
LEMMA RebuiltIs ==
  ASSUME NEW m \in Seq(Envelope), NEW id, NEW skipped
  PROVE  \E h : RunOf(h, m, id, skipped) /\ Rebuilt(m, id, skipped) = h[Len(m)]
<1> DEFINE n == Len(m)
           step(p, env) ==
             IF env.stream = id /\ env \notin skipped THEN Apply(p, env.event) ELSE p
           F(it) == [s \in SUBSET (1..n) |->
                       IF s = {} THEN Fresh ELSE step(it[s \ {Max(s)}], m[Max(s)])]
           g == [k \in 1..n |-> [p \in Aggregates |-> step(p, m[k])]]
<1>1. n \in Nat /\ DOMAIN m = 1..n
  BY LenProperties
<1>2. ASSUME NEW p \in Aggregates, NEW k \in 1..n PROVE step(p, m[k]) \in Aggregates
  BY <1>2, EnvelopeAt, ApplyIs
<1>3. g \in [1..n -> [Aggregates -> Aggregates]]
  <2> HIDE DEF step
  <2> QED  BY <1>2
<1>4. ASSUME NEW s \in SUBSET (1..n), s # {} PROVE Max(s) \in 1..n
  BY <1>1, <1>4, MaxIsIn
<1>5. ASSUME NEW s \in SUBSET (1..n), s # {}, NEW p \in Aggregates
      PROVE  g[Max(s)][p] = step(p, m[Max(s)])
  <2> HIDE DEF step
  <2> QED  BY <1>4, <1>5
<1> HIDE DEF g
<1>6. PICK it : Iterated(n, Aggregates, Fresh, g, it)
  <2> HIDE DEF n
  <2> QED  BY <1>1, <1>3, FreshType, Iteration
<1>7. it = F(it)
  <2>1. ASSUME NEW s \in SUBSET (1..n)
        PROVE  it[s] = IF s = {} THEN Fresh ELSE step(it[s \ {Max(s)}], m[Max(s)])
    <3> HIDE DEF step
    <3> QED  BY <1>5, <1>6 DEF Iterated
  <2> HIDE DEF step
  <2> QED  BY <2>1, <1>6 DEF Iterated
<1> DEFINE f == CHOOSE f : f = F(f)
<1>8. Rebuilt(m, id, skipped) = f[1..n]
  BY <1>1 DEF Rebuilt, FoldLeft, MapThenFoldSet
<1>9. f = F(f)
  <2> HIDE DEF F
  <2> QED  BY <1>7
<1> HIDE DEF f
<1>10. f[{}] = Fresh
  <2>1. F(f)[{}] = Fresh
    OBVIOUS
  <2> QED  BY <1>9, <2>1
<1>11. Iterates(n, Aggregates, Fresh, g, f)
  <2> SUFFICES ASSUME NEW s \in SUBSET (1..n), s # {}, f[s \ {Max(s)}] \in Aggregates
               PROVE  f[s] = g[Max(s)][f[s \ {Max(s)}]]
    BY <1>10 DEF Iterates
  <2> HIDE DEF step
  <2>1. F(f)[s] = step(f[s \ {Max(s)}], m[Max(s)])
    OBVIOUS
  <2> HIDE DEF F
  <2> QED  BY <1>5, <1>9, <2>1
<1>12. PICK h : Reached(n, Aggregates, Fresh, g, f, h)
  <2> HIDE DEF n
  <2> QED  BY <1>1, <1>3, <1>11, FreshType, IteratedRuns
<1>13. ASSUME NEW k \in 1..n PROVE h[k] = step(h[k - 1], m[k])
  <2>1. h[k - 1] \in Aggregates /\ h[k] = g[k][h[k - 1]]
    BY <1>1, <1>12 DEF Reached, Runs
  <2> HIDE DEF step
  <2> QED  BY <2>1 DEF g
<1> QED
  BY <1>8, <1>12, <1>13 DEF Reached, RunOf, Runs

\* Of project id, the first n envelopes of both are the same, and left out are
\* the same.
SameUpTo(m1, m2, id, s1, s2, n) ==
  \A k \in 1..n :
    m1[k] = m2[k] /\ (m1[k].stream = id => (m1[k] \in s1 <=> m1[k] \in s2))

\* Two runs agree that far.
LEMMA RunsAgree ==
  ASSUME NEW m1 \in Seq(Envelope), NEW m2 \in Seq(Envelope), NEW id, NEW s1, NEW s2,
         NEW n \in Nat, n <= Len(m1), n <= Len(m2),
         SameUpTo(m1, m2, id, s1, s2, n),
         NEW h1, RunOf(h1, m1, id, s1), NEW h2, RunOf(h2, m2, id, s2)
  PROVE  \A k \in 0..n : h1[k] = h2[k]
<1> DEFINE S == {k \in 0..n : h1[k] = h2[k]}
<1>1. 0 \in S
  BY DEF RunOf
<1>2. ASSUME NEW k \in 1..n, k - 1 \in S PROVE k \in S
  <2>1. k \in 1..Len(m1) /\ k \in 1..Len(m2)
    BY LenProperties
  <2> QED  BY <1>2, <2>1 DEF RunOf, SameUpTo
<1>3. \A k \in 0..n : k \in S
  <2> HIDE DEF S
  <2> QED  BY <1>1, <1>2, UpTo
<1> QED
  BY <1>3

\* The first k envelopes of the log.
LEMMA PrefixIs ==
  ASSUME NEW m \in Seq(Envelope), NEW k \in 0..Len(m)
  PROVE  /\ SubSeq(m, 1, k) \in Seq(Envelope)
         /\ Len(SubSeq(m, 1, k)) = k
         /\ \A j \in 1..k : SubSeq(m, 1, k)[j] = m[j]
<1>1. Len(m) \in Nat /\ \A j \in 1..k : m[j] \in Envelope
  BY LenProperties, ElementOfSeq
<1>2. 1 \in Int /\ k \in Int
  BY <1>1
<1> QED
  BY <1>1, <1>2, SubSeqProperties

\* Each value of a run is the project rebuilt from the envelopes so far.
LEMMA RunIsRebuilt ==
  ASSUME NEW m \in Seq(Envelope), NEW id, NEW skipped, NEW h, RunOf(h, m, id, skipped)
  PROVE  /\ \A k \in 0..Len(m) : h[k] = Rebuilt(SubSeq(m, 1, k), id, skipped)
         /\ h[Len(m)] = Rebuilt(m, id, skipped)
<1>1. ASSUME NEW m1 \in Seq(Envelope), Len(m1) <= Len(m), \A j \in 1..Len(m1) : m1[j] = m[j]
      PROVE  h[Len(m1)] = Rebuilt(m1, id, skipped)
  <2>1. PICK h1 : RunOf(h1, m1, id, skipped) /\ Rebuilt(m1, id, skipped) = h1[Len(m1)]
    BY RebuiltIs
  <2>2. Len(m1) \in Nat
    BY LenProperties
  <2>3. SameUpTo(m, m1, id, skipped, skipped, Len(m1)) /\ Len(m1) <= Len(m1)
    BY <1>1, <2>2 DEF SameUpTo
  <2>4. \A j \in 0..Len(m1) : h[j] = h1[j]
    BY <1>1, <2>1, <2>2, <2>3, RunsAgree
  <2> QED  BY <2>1, <2>2, <2>4
<1>2. Len(m) \in Nat
  BY LenProperties
<1>3. ASSUME NEW k \in 0..Len(m) PROVE h[k] = Rebuilt(SubSeq(m, 1, k), id, skipped)
  <2> DEFINE m1 == SubSeq(m, 1, k)
  <2>1. m1 \in Seq(Envelope) /\ Len(m1) = k /\ \A j \in 1..k : m1[j] = m[j]
    BY PrefixIs
  <2> HIDE DEF m1
  <2>2. Len(m1) <= Len(m)
    BY <1>2, <2>1
  <2>3. h[Len(m1)] = Rebuilt(m1, id, skipped)
    BY <1>1, <2>1, <2>2
  <2> QED  BY <2>1, <2>3 DEF m1
<1>4. h[Len(m)] = Rebuilt(m, id, skipped)
  BY <1>1, <1>2
<1> QED
  BY <1>3, <1>4

\* The same, with nothing left out.
LoadRun(h, m, id) ==
  /\ h \in [0..Len(m) -> Aggregates]
  /\ h[0] = Fresh
  /\ \A k \in 1..Len(m) :
       h[k] = IF m[k].stream = id THEN Apply(h[k - 1], m[k].event) ELSE h[k - 1]

\* Such a run goes through the aggregates of all prefixes of the log.
LEMMA LoadRunIs ==
  ASSUME NEW m \in Seq(Envelope), NEW id, NEW h, LoadRun(h, m, id)
  PROVE  /\ \A k \in 0..Len(m) : h[k] = LoadProject(SubSeq(m, 1, k), id)
         /\ h[Len(m)] = LoadProject(m, id)
<1>1. PICK none : none = {}
  OBVIOUS
<1>2. RunOf(h, m, id, none)
  BY <1>1 DEF RunOf, LoadRun
<1>3. /\ \A k \in 0..Len(m) : h[k] = Rebuilt(SubSeq(m, 1, k), id, none)
      /\ h[Len(m)] = Rebuilt(m, id, none)
  BY <1>2, RunIsRebuilt
<1> QED
  BY <1>1, <1>3 DEF LoadProject

\* There is such a run.
LEMMA LoadRuns ==
  ASSUME NEW m \in Seq(Envelope), NEW id
  PROVE  \E h : LoadRun(h, m, id)
<1>1. PICK none : none = {}
  OBVIOUS
<1>2. PICK h : RunOf(h, m, id, none)
  BY RebuiltIs
<1> QED
  BY <1>1, <1>2 DEF RunOf, LoadRun

\* What Load rebuilds is an aggregate,
LEMMA LoadType ==
  ASSUME NEW m \in Seq(Envelope), NEW id
  PROVE  LoadProject(m, id) \in Aggregates
<1>1. PICK h : LoadRun(h, m, id)
  BY LoadRuns
<1> QED
  BY <1>1, LoadRunIs, LenProperties DEF LoadRun

\* and so it is with envelopes left out.
LEMMA RebuiltType ==
  ASSUME NEW m \in Seq(Envelope), NEW id, NEW skipped
  PROVE  Rebuilt(m, id, skipped) \in Aggregates
<1>1. PICK h : RunOf(h, m, id, skipped) /\ Rebuilt(m, id, skipped) = h[Len(m)]
  BY RebuiltIs
<1>2. Len(m) \in Nat
  BY LenProperties
<1> QED
  BY <1>1, <1>2 DEF RunOf

\* Nothing is left of a project without an envelope.
LEMMA RebuiltOfNone ==
  ASSUME NEW m \in Seq(Envelope), NEW id, NEW skipped, \A k \in 1..Len(m) : m[k].stream # id
  PROVE  Rebuilt(m, id, skipped) = Fresh
<1>1. PICK h : RunOf(h, m, id, skipped) /\ Rebuilt(m, id, skipped) = h[Len(m)]
  BY RebuiltIs
<1>2. Len(m) \in Nat
  BY LenProperties
<1> DEFINE S == {k \in 0..Len(m) : h[k] = Fresh}
<1>3. 0 \in S
  BY <1>1, <1>2 DEF RunOf
<1>4. \A k \in 1..Len(m) : k - 1 \in S => k \in S
  BY <1>1, <1>2 DEF RunOf
<1>5. \A k \in 0..Len(m) : k \in S
  <2> HIDE DEF S
  <2> QED  BY <1>2, <1>3, <1>4, UpTo
<1> QED
  BY <1>1, <1>2, <1>5

-----------------------------------------------------------------------------
(* Legal logs.                                                             *)

Legal(m) ==
  \A i \in 1..Len(m) :
    Sensible(LoadProject(SubSeq(m, 1, i - 1), m[i].stream), m[i].event)

\* The aggregates after each of the events, from p on.
StepsOf(h, p, events) ==
  /\ h \in [0..Len(events) -> Aggregates]
  /\ h[0] = p
  /\ \A k \in 1..Len(events) : h[k] = Apply(h[k - 1], events[k])

\* Each of the events makes sense where it stands after p.
Continues(p, events) ==
  \A h : StepsOf(h, p, events) =>
    \A k \in 1..Len(events) : Sensible(h[k - 1], events[k])

\* Part of a legal log is legal.
LEMMA LegalPrefix ==
  ASSUME NEW m \in Seq(Envelope), Legal(m), NEW k \in 0..Len(m)
  PROVE  Legal(SubSeq(m, 1, k))
<1> DEFINE c == SubSeq(m, 1, k)
<1>1. c \in Seq(Envelope) /\ Len(c) = k /\ \A j \in 1..k : c[j] = m[j]
  BY PrefixIs
<1>2. Len(m) \in Nat
  BY LenProperties
<1>3. ASSUME NEW i \in 1..k PROVE SubSeq(c, 1, i - 1) = SubSeq(m, 1, i - 1)
  <2>1. CASE i = 1
    BY <2>1, SubSeqEmpty
  <2>2. CASE i > 1
    <3>1. /\ 1 \in 1..Len(m) /\ k \in 1..Len(m)
          /\ 1 \in 1..k - 1 + 1 /\ i - 1 \in 1..k - 1 + 1
      BY <1>2, <2>2
    <3>2. SubSeq(SubSeq(m, 1, k), 1, i - 1) = SubSeq(m, 1 + 1 - 1, 1 + (i - 1) - 1)
      BY <3>1, SubSeqOfSubSeq
    <3>3. 1 + 1 - 1 = 1 /\ 1 + (i - 1) - 1 = i - 1
      OBVIOUS
    <3> QED  BY <3>2, <3>3
  <2> QED  BY <2>1, <2>2
<1> HIDE DEF c
<1>4. Legal(c)
  <2> SUFFICES ASSUME NEW i \in 1..k
               PROVE  Sensible(LoadProject(SubSeq(c, 1, i - 1), c[i].stream), c[i].event)
    BY <1>1 DEF Legal
  <2>1. i \in 1..Len(m) /\ c[i] = m[i]
    BY <1>1, <1>2
  <2> QED  BY <1>3, <2>1 DEF Legal
<1> QED
  BY <1>4 DEF c

\* The envelopes of m \o b, if b holds the events of project id.
LEMMA ConcatIs ==
  ASSUME NEW m \in Seq(Envelope), NEW b \in Seq(Envelope)
  PROVE  /\ m \o b \in Seq(Envelope) /\ Len(m \o b) = Len(m) + Len(b)
         /\ \A i \in 1..Len(m) : (m \o b)[i] = m[i]
         /\ \A j \in 1..Len(b) : (m \o b)[Len(m) + j] = b[j]
         /\ \A k \in 0..Len(m) : SubSeq(m \o b, 1, k) = SubSeq(m, 1, k)
         /\ SubSeq(m \o b, 1, Len(m)) = m
<1> DEFINE c == m \o b
<1>1. /\ c \in Seq(Envelope) /\ Len(c) = Len(m) + Len(b)
      /\ \A i \in 1..Len(m) + Len(b) : c[i] = IF i <= Len(m) THEN m[i] ELSE b[i - Len(m)]
  BY ConcatProperties
<1>2. Len(m) \in Nat /\ Len(b) \in Nat
  BY LenProperties
<1>3. ASSUME NEW j \in 1..Len(b) PROVE c[Len(m) + j] = b[j]
  <2>1. /\ Len(m) + j \in 1..Len(m) + Len(b) /\ ~ (Len(m) + j <= Len(m))
        /\ Len(m) + j - Len(m) = j
    BY <1>2
  <2> HIDE DEF c
  <2>2. PICK k : k = Len(m) + j
    OBVIOUS
  <2>3. c[k] = b[j]
    BY <1>1, <2>1, <2>2
  <2> QED  BY <2>2, <2>3
<1>4. ASSUME NEW k \in 0..Len(m) PROVE SubSeq(c, 1, k) = SubSeq(m, 1, k)
  <2>1. CASE k = 0
    BY <2>1, SubSeqEmpty
  <2>2. CASE k > 0
    <3>1. 1 \in 1..Len(m) /\ k \in 1..Len(m)
      BY <1>2, <2>2
    <3> QED  BY <3>1, SubSeqOfConcat1
  <2> QED  BY <2>1, <2>2
<1>5. SubSeq(c, 1, Len(m)) = m
  BY <1>2, <1>4, SubSeqFull
<1>6. \A i \in 1..Len(m) : c[i] = m[i]
  <2> HIDE DEF c
  <2> QED  BY <1>1, <1>2
<1> QED
  BY <1>1, <1>3, <1>4, <1>5, <1>6

\* The batch b of project id holds the events.
Records(b, id, events) ==
  Len(events) = Len(b) /\ \A j \in 1..Len(b) : b[j].stream = id /\ b[j].event = events[j]

\* A batch that is appended takes the project on by its events.
LEMMA StepsOverConcat ==
  ASSUME NEW m \in Seq(Envelope), NEW b \in Seq(Envelope), NEW id, NEW events,
         Records(b, id, events)
  PROVE  \E g : /\ StepsOf(g, LoadProject(m, id), events)
                /\ \A j \in 0..Len(b) : g[j] = LoadProject(SubSeq(m \o b, 1, Len(m) + j), id)
                /\ g[Len(b)] = LoadProject(m \o b, id)
<1> DEFINE c == m \o b
<1>1. /\ c \in Seq(Envelope) /\ Len(c) = Len(m) + Len(b)
      /\ \A j \in 1..Len(b) : c[Len(m) + j] = b[j]
      /\ SubSeq(c, 1, Len(m)) = m
  BY ConcatIs
<1>2. Len(m) \in Nat /\ Len(b) \in Nat
  BY LenProperties
<1> HIDE DEF c
<1>3. PICK h : LoadRun(h, c, id)
  <2>1. c \in Seq(Envelope)
    BY <1>1
  <2> QED  BY <2>1, LoadRuns
<1>4. /\ \A k \in 0..Len(c) : h[k] = LoadProject(SubSeq(c, 1, k), id)
      /\ h[Len(c)] = LoadProject(c, id)
  <2>1. c \in Seq(Envelope)
    BY <1>1
  <2> QED  BY <1>3, <2>1, LoadRunIs
<1>5. PICK g : g = [k \in 0..Len(b) |-> h[Len(m) + k]]
  OBVIOUS
<1>6. ASSUME NEW k \in 0..Len(b) PROVE Len(m) + k \in 0..Len(c) /\ g[k] = h[Len(m) + k]
  BY <1>1, <1>2, <1>5
<1>7. g \in [0..Len(events) -> Aggregates]
  BY <1>3, <1>5, <1>6 DEF LoadRun, Records
<1>8. g[0] = LoadProject(m, id)
  <2>1. g[0] = h[Len(m)] /\ Len(m) \in 0..Len(c)
    BY <1>2, <1>6
  <2> QED  BY <1>1, <1>4, <2>1
<1>9. ASSUME NEW k \in 1..Len(b) PROVE g[k] = Apply(g[k - 1], events[k])
  <2>1. /\ Len(m) + k \in 1..Len(c)
        /\ Len(m) + k - 1 = Len(m) + (k - 1) /\ k - 1 \in 0..Len(b) /\ k \in 0..Len(b)
    BY <1>1, <1>2
  <2>2. c[Len(m) + k].stream = id /\ c[Len(m) + k].event = events[k]
    BY <1>1 DEF Records
  <2>3. h[Len(m) + k] = Apply(h[Len(m) + k - 1], c[Len(m) + k].event)
    BY <1>3, <2>1, <2>2 DEF LoadRun
  <2> QED  BY <1>6, <2>1, <2>2, <2>3
<1>10. StepsOf(g, LoadProject(m, id), events)
  BY <1>7, <1>8, <1>9 DEF StepsOf, Records
<1>11. \A j \in 0..Len(b) : g[j] = LoadProject(SubSeq(c, 1, Len(m) + j), id)
  BY <1>4, <1>6
<1>12. g[Len(b)] = LoadProject(c, id)
  BY <1>1, <1>2, <1>4, <1>6
<1> QED
  BY <1>10, <1>11, <1>12 DEF c

\* A legal log stays legal with events that continue a project.
LEMMA LegalConcat ==
  ASSUME NEW m \in Seq(Envelope), Legal(m), NEW b \in Seq(Envelope), NEW id, NEW events,
         Records(b, id, events), Continues(LoadProject(m, id), events)
  PROVE  Legal(m \o b)
<1> DEFINE c == m \o b
<1>1. /\ c \in Seq(Envelope) /\ Len(c) = Len(m) + Len(b)
      /\ \A i \in 1..Len(m) : c[i] = m[i]
      /\ \A j \in 1..Len(b) : c[Len(m) + j] = b[j]
      /\ \A k \in 0..Len(m) : SubSeq(c, 1, k) = SubSeq(m, 1, k)
  BY ConcatIs
<1>2. Len(m) \in Nat /\ Len(b) \in Nat
  BY LenProperties
<1>3. PICK g : /\ StepsOf(g, LoadProject(m, id), events)
               /\ \A j \in 0..Len(b) : g[j] = LoadProject(SubSeq(c, 1, Len(m) + j), id)
  BY StepsOverConcat
<1> HIDE DEF c
<1>4. SUFFICES ASSUME NEW i \in 1..Len(c)
               PROVE  Sensible(LoadProject(SubSeq(c, 1, i - 1), c[i].stream), c[i].event)
  BY DEF Legal, c
<1>5. CASE i <= Len(m)
  <2>1. i \in 1..Len(m) /\ i - 1 \in 0..Len(m)
    BY <1>1, <1>2, <1>5
  <2> QED  BY <1>1, <2>1 DEF Legal
<1>6. CASE i > Len(m)
  <2>1. PICK j \in 1..Len(b) : i = Len(m) + j
    <3>1. i - Len(m) \in 1..Len(b) /\ i = Len(m) + (i - Len(m))
      BY <1>1, <1>2, <1>6
    <3> QED  BY <3>1
  <2>2. j - 1 \in 0..Len(b) /\ i - 1 = Len(m) + (j - 1)
    BY <1>2, <2>1
  <2>3. LoadProject(SubSeq(c, 1, i - 1), id) = g[j - 1]
    BY <1>3, <2>2
  <2>4. Sensible(g[j - 1], events[j])
    BY <1>3 DEF Continues, Records
  <2>5. c[i].stream = id /\ c[i].event = events[j]
    BY <1>1, <2>1 DEF Records
  <2> QED  BY <2>3, <2>4, <2>5
<1>7. i <= Len(m) \/ i > Len(m)
  BY <1>1, <1>2
<1> QED
  BY <1>5, <1>6, <1>7

-----------------------------------------------------------------------------
(* Imports.                                                                *)

Declaration == [component : Component \cup {Empty}, version : Version \cup {Empty}]

\* A declaration that is looked at names a component and a version.
LEMMA DeclarationAt ==
  ASSUME NEW inputs \in Seq(Declaration), NEW i \in Declared(inputs)
  PROVE  /\ i \in 1..Len(inputs)
         /\ inputs[i].component \in Component /\ inputs[i].version \in Version
<1>1. DOMAIN inputs = 1..Len(inputs)
  BY LenProperties
<1>2. i \in 1..Len(inputs) /\ Complete(inputs[i])
  BY <1>1 DEF Declared
<1>3. inputs[i] \in Declaration
  BY <1>2, ElementOfSeq
<1> QED
  BY <1>2, <1>3 DEF Complete, Declaration

\* The event of a declaration that changes p.
LEMMA ImportEventIs ==
  ASSUME NEW p, NEW inputs \in Seq(Declaration), NEW i \in Changing(p, inputs)
  PROVE  /\ i \in 1..Len(inputs) /\ i \in Declared(inputs)
         /\ ImportEvent(p, inputs[i]) \in DomainEvent
         /\ ImportEvent(p, inputs[i]).component = inputs[i].component
         /\ ImportEvent(p, inputs[i]).version = inputs[i].version
         /\ ImportEvent(p, inputs[i]).kind =
              IF inputs[i].component \in DOMAIN p.components THEN "updated" ELSE "added"
<1>1. i \in Declared(inputs)
  BY DEF Changing
<1>2. i \in 1..Len(inputs) /\ inputs[i].component \in Component /\ inputs[i].version \in Version
  BY <1>1, DeclarationAt
<1> QED
  BY <1>1, <1>2 DEF ImportEvent, DomainEvent

\* The events of an import after the first k declarations.
ImportRun(h, p, inputs) ==
  /\ h \in [0..Len(inputs) -> Seq(DomainEvent)]
  /\ h[0] = <<>>
  /\ \A k \in 1..Len(inputs) :
       h[k] = IF k \in Changing(p, inputs)
              THEN Append(h[k - 1], ImportEvent(p, inputs[k])) ELSE h[k - 1]

\* The fold of ImportEvents runs through the declarations.
LEMMA ImportRuns ==
  ASSUME NEW p, NEW inputs \in Seq(Declaration)
  PROVE  \E h : ImportRun(h, p, inputs) /\ ImportEvents(p, inputs) = h[Len(inputs)]
<1> DEFINE n == Len(inputs)
           D == Seq(DomainEvent)
           step(events, i) == IF i \in Changing(p, inputs)
                              THEN Append(events, ImportEvent(p, inputs[i])) ELSE events
           order == [i \in DOMAIN inputs |-> i]
           F(it) == [s \in SUBSET DOMAIN order |->
                       IF s = {} THEN <<>> ELSE step(it[s \ {Max(s)}], order[Max(s)])]
           g == [k \in 1..n |-> [y \in D |-> step(y, k)]]
<1>1. n \in Nat /\ DOMAIN inputs = 1..n /\ DOMAIN order = 1..n
  BY LenProperties
<1>2. ASSUME NEW y \in D, NEW k \in 1..n PROVE step(y, k) \in D
  <2>1. CASE k \in Changing(p, inputs)
    BY <1>2, <2>1, ImportEventIs, AppendProperties
  <2>2. CASE k \notin Changing(p, inputs)
    BY <1>2, <2>2
  <2> QED  BY <2>1, <2>2
<1>3. g \in [1..n -> [D -> D]]
  <2> HIDE DEF step
  <2> QED  BY <1>2
<1>4. ASSUME NEW s \in SUBSET (1..n), s # {} PROVE Max(s) \in 1..n /\ order[Max(s)] = Max(s)
  BY <1>1, <1>4, MaxIsIn
<1>5. ASSUME NEW s \in SUBSET (1..n), s # {}, NEW y \in D
      PROVE  g[Max(s)][y] = step(y, order[Max(s)])
  <2> HIDE DEF step, order
  <2> QED  BY <1>4, <1>5
<1>6. <<>> \in D
  BY EmptySeq
<1> HIDE DEF g, D
<1>7. PICK it : Iterated(n, D, <<>>, g, it)
  <2> HIDE DEF n
  <2> QED  BY <1>1, <1>3, <1>6, Iteration
<1>8. it = F(it)
  <2>1. ASSUME NEW s \in SUBSET (1..n)
        PROVE  it[s] = IF s = {} THEN <<>> ELSE step(it[s \ {Max(s)}], order[Max(s)])
    <3> HIDE DEF step, order
    <3> QED  BY <1>5, <1>7 DEF Iterated
  <2> HIDE DEF step, order
  <2> QED  BY <1>1, <2>1, <1>7 DEF Iterated
<1> DEFINE f == CHOOSE f : f = F(f)
<1>9. ImportEvents(p, inputs) = f[1..n]
  BY <1>1 DEF ImportEvents, FoldLeftDomain, FoldLeft, MapThenFoldSet
<1>10. f = F(f)
  <2> HIDE DEF F
  <2> QED  BY <1>8
<1> HIDE DEF f, order
<1>11. f[{}] = <<>>
  <2>1. F(f)[{}] = <<>>
    OBVIOUS
  <2> QED  BY <1>10, <2>1
<1>12. Iterates(n, D, <<>>, g, f)
  <2> SUFFICES ASSUME NEW s \in SUBSET (1..n), s # {}, f[s \ {Max(s)}] \in D
               PROVE  f[s] = g[Max(s)][f[s \ {Max(s)}]]
    BY <1>11 DEF Iterates
  <2> HIDE DEF step
  <2>1. F(f)[s] = step(f[s \ {Max(s)}], order[Max(s)])
    BY <1>1
  <2> HIDE DEF F
  <2> QED  BY <1>5, <1>10, <2>1
<1>13. PICK h : Reached(n, D, <<>>, g, f, h)
  <2> HIDE DEF n
  <2> QED  BY <1>1, <1>3, <1>6, <1>12, IteratedRuns
<1>14. ASSUME NEW k \in 1..n PROVE h[k] = step(h[k - 1], k)
  <2>1. h[k - 1] \in D /\ h[k] = g[k][h[k - 1]]
    BY <1>1, <1>13 DEF Reached, Runs
  <2> HIDE DEF step
  <2> QED  BY <2>1 DEF g
<1> QED
  BY <1>9, <1>13, <1>14 DEF Reached, ImportRun, Runs, D

\* The events of an import: one for each declaration that changes the project,
\* and no two of one component.
LEMMA ImportEventsAre ==
  ASSUME NEW p, NEW inputs \in Seq(Declaration)
  PROVE  LET events == ImportEvents(p, inputs) IN
         /\ events \in Seq(DomainEvent)
         /\ \A k \in 1..Len(events) : \E i \in Changing(p, inputs) :
              events[k] = ImportEvent(p, inputs[i])
         /\ \A i \in Changing(p, inputs) : \E k \in 1..Len(events) :
              events[k] = ImportEvent(p, inputs[i])
         /\ \A j, k \in 1..Len(events) : j # k => events[j].component # events[k].component
<1> DEFINE n == Len(inputs)
           C == Changing(p, inputs)
           From(e, k) ==
             \A j \in 1..Len(e) : \E i \in C : i <= k /\ e[j] = ImportEvent(p, inputs[i])
           All(e, k) ==
             \A i \in C : i <= k => \E j \in 1..Len(e) : e[j] = ImportEvent(p, inputs[i])
           Once(e) == \A j, k \in 1..Len(e) : j # k => e[j].component # e[k].component
<1>1. PICK h : ImportRun(h, p, inputs) /\ ImportEvents(p, inputs) = h[n]
  BY ImportRuns
<1>2. n \in Nat
  BY LenProperties
<1>3. \A i \in C : i \in 1..n
  BY ImportEventIs
<1> DEFINE S == {k \in 0..n : From(h[k], k) /\ All(h[k], k) /\ Once(h[k])}
<1>4. 0 \in S
  <2>1. h[0] = <<>> /\ Len(h[0]) = 0
    BY <1>1, EmptySeq DEF ImportRun
  <2>2. From(h[0], 0) /\ All(h[0], 0) /\ Once(h[0])
    BY <1>3, <2>1
  <2> QED  BY <1>2, <2>2
<1>5. ASSUME NEW k \in 1..n, k - 1 \in S PROVE k \in S
  <2>1. PICK e : e = h[k - 1]
    OBVIOUS
  <2>2. e \in Seq(DomainEvent) /\ Len(e) \in Nat
    BY <1>1, <1>2, <2>1, LenProperties DEF ImportRun
  <2>3. From(e, k - 1) /\ All(e, k - 1) /\ Once(e)
    BY <1>5, <2>1
  <2>4. CASE k \notin C
    <3>1. h[k] = e
      BY <1>1, <2>1, <2>4 DEF ImportRun
    <3>2. From(e, k)
      BY <2>3, <1>3
    <3>3. All(e, k)
      <4> SUFFICES ASSUME NEW i \in C, i <= k
                   PROVE  \E j \in 1..Len(e) : e[j] = ImportEvent(p, inputs[i])
        OBVIOUS
      <4>1. i <= k - 1
        BY <1>3, <2>4
      <4> QED  BY <2>3, <4>1
    <3>4. Once(e)
      BY <2>3
    <3> HIDE DEF From, All, Once
    <3> QED  BY <3>1, <3>2, <3>3, <3>4
  <2>5. CASE k \in C
    <3>1. PICK x : x = ImportEvent(p, inputs[k])
      OBVIOUS
    <3>2. PICK a : a = Append(e, x)
      OBVIOUS
    <3>3. h[k] = a
      BY <1>1, <2>1, <2>5, <3>1, <3>2 DEF ImportRun
    <3>4. x \in DomainEvent /\ x.component = inputs[k].component
      BY <2>5, <3>1, ImportEventIs
    <3>5. /\ Len(a) = Len(e) + 1 /\ a[Len(e) + 1] = x
          /\ \A j \in 1..Len(e) : a[j] = e[j]
      BY <2>2, <3>2, <3>4, AppendProperties
    <3>6. From(a, k)
      <4> SUFFICES ASSUME NEW j \in 1..Len(a)
                   PROVE  \E i \in C : i <= k /\ a[j] = ImportEvent(p, inputs[i])
        OBVIOUS
      <4>1. CASE j = Len(e) + 1
        BY <2>5, <3>1, <3>5, <4>1
      <4>2. CASE j # Len(e) + 1
        <5>1. j \in 1..Len(e)
          BY <2>2, <3>5, <4>2
        <5>2. PICK i \in C : i <= k - 1 /\ e[j] = ImportEvent(p, inputs[i])
          BY <2>3, <5>1
        <5>3. i <= k
          BY <1>3, <5>2
        <5> QED  BY <3>5, <5>1, <5>2, <5>3
      <4> QED  BY <4>1, <4>2
    <3>7. All(a, k)
      <4> SUFFICES ASSUME NEW i \in C, i <= k
                   PROVE  \E j \in 1..Len(a) : a[j] = ImportEvent(p, inputs[i])
        OBVIOUS
      <4>1. CASE i = k
        <5>1. Len(e) + 1 \in 1..Len(a)
          BY <2>2, <3>5
        <5> QED  BY <3>1, <3>5, <4>1, <5>1
      <4>2. CASE i # k
        <5>1. i <= k - 1
          BY <1>3, <4>2
        <5>2. PICK j \in 1..Len(e) : e[j] = ImportEvent(p, inputs[i])
          BY <2>3, <5>1
        <5>3. j \in 1..Len(a)
          BY <2>2, <3>5
        <5> QED  BY <3>5, <5>2, <5>3
      <4> QED  BY <4>1, <4>2
    <3>8. ASSUME NEW j \in 1..Len(e) PROVE e[j].component # x.component
      <4>1. PICK i \in C : i <= k - 1 /\ e[j] = ImportEvent(p, inputs[i])
        BY <2>3
      <4>2. e[j].component = inputs[i].component /\ i \in Declared(inputs) /\ ~ (k <= i)
        BY <1>3, <4>1, ImportEventIs
      <4>3. inputs[i].component # inputs[k].component
        BY <2>5, <4>2 DEF Changing
      <4> QED  BY <3>4, <4>2, <4>3
    <3>9. Once(a)
      <4> SUFFICES ASSUME NEW i \in 1..Len(a), NEW j \in 1..Len(a), i # j
                   PROVE  a[i].component # a[j].component
        OBVIOUS
      <4>1. i \in 1..Len(e) \/ i = Len(e) + 1
        BY <2>2, <3>5
      <4>2. j \in 1..Len(e) \/ j = Len(e) + 1
        BY <2>2, <3>5
      <4> QED  BY <2>3, <3>5, <3>8, <4>1, <4>2
    <3> HIDE DEF From, All, Once
    <3> QED  BY <3>3, <3>6, <3>7, <3>9
  <2> QED  BY <2>4, <2>5
<1>6. n \in S
  <2>1. \A k \in 0..n : k \in S
    <3> HIDE DEF S
    <3> QED  BY <1>2, <1>4, <1>5, UpTo
  <2> QED  BY <1>2, <2>1
<1>7. h[n] \in Seq(DomainEvent)
  BY <1>1, <1>2 DEF ImportRun
<1> QED
  BY <1>1, <1>3, <1>6, <1>7

\* What an import has made of project p after k of its events.
ImportedUpTo(p, events, k, q) ==
  /\ q \in Aggregates /\ Live(q)
  /\ DOMAIN q.components = DOMAIN p.components \cup {events[j].component : j \in 1..k}
  /\ \A j \in 1..k : q.components[events[j].component] = events[j].version
  /\ \A c \in DOMAIN p.components :
       (\A j \in 1..k : events[j].component # c) => q.components[c] = p.components[c]

\* The events of an import, applied one by one, do no more than they say.
LEMMA ImportSteps ==
  ASSUME NEW p \in Aggregates, Live(p), NEW inputs \in Seq(Declaration),
         NEW events, events = ImportEvents(p, inputs), NEW h, StepsOf(h, p, events)
  PROVE  \A k \in 0..Len(events) : ImportedUpTo(p, events, k, h[k])
<1>1. events \in Seq(DomainEvent) /\ Len(events) \in Nat
  BY ImportEventsAre, LenProperties
<1>2. ASSUME NEW k \in 1..Len(events)
      PROVE  /\ events[k] \in DomainEvent
             /\ events[k].component \in Component /\ events[k].version \in Version
             /\ events[k].kind =
                  IF events[k].component \in DOMAIN p.components THEN "updated" ELSE "added"
  <2>1. PICK i \in Changing(p, inputs) : events[k] = ImportEvent(p, inputs[i])
    BY ImportEventsAre
  <2>2. i \in Declared(inputs)
    BY ImportEventIs
  <2> QED  BY <2>1, <2>2, ImportEventIs, DeclarationAt
<1> DEFINE S == {k \in 0..Len(events) : ImportedUpTo(p, events, k, h[k])}
<1>3. 0 \in S
  <2>1. ImportedUpTo(p, events, 0, h[0])
    BY DEF StepsOf, ImportedUpTo
  <2> QED  BY <1>1, <2>1
<1>4. ASSUME NEW k \in 1..Len(events), k - 1 \in S PROVE k \in S
  <2>1. PICK q : q = h[k - 1]
    OBVIOUS
  <2>2. PICK e : e = events[k]
    OBVIOUS
  <2>3. ImportedUpTo(p, events, k - 1, q)
    BY <1>4, <2>1
  <2>4. h[k] = Apply(q, e)
    BY <2>1, <2>2 DEF StepsOf
  <2>5. /\ e \in DomainEvent /\ e.component \in Component /\ e.version \in Version
        /\ e.kind = IF e.component \in DOMAIN p.components THEN "updated" ELSE "added"
    BY <1>2, <2>2
  <2>6. q \in Aggregates /\ q.components \in Held
    BY <2>3, AggregateFields DEF ImportedUpTo
  <2>7. PICK r : r = h[k]
    OBVIOUS
  <2>8. r \in Aggregates /\ Applied(q, e, r)
    BY <2>4, <2>5, <2>6, <2>7, ApplyIs
  <2>9. r.components = WithComponent(q.components, e.component, e.version)
    <3>1. e.component \in DOMAIN p.components => e.component \in DOMAIN q.components
      BY <2>3 DEF ImportedUpTo
    <3> QED  BY <2>5, <2>8, <3>1 DEF Applied
  <2>10. Live(r)
    BY <2>3, <2>5, <2>8 DEF Applied, Live, ImportedUpTo
  <2>11. /\ DOMAIN r.components = DOMAIN q.components \cup {e.component}
         /\ r.components[e.component] = e.version
         /\ \A d \in DOMAIN q.components : d # e.component => r.components[d] = q.components[d]
    <3>1. PICK c \in Component, v \in Version : c = e.component /\ v = e.version
      BY <2>5
    <3>2. PICK g \in Held : g = q.components
      BY <2>6
    <3>3. PICK w : w = WithComponent(g, c, v)
      OBVIOUS
    <3>4. /\ DOMAIN w = DOMAIN g \cup {c} /\ w[c] = v
          /\ \A d \in DOMAIN g : d # c => w[d] = g[d]
      BY <3>3, WithIs
    <3> QED  BY <2>9, <3>1, <3>2, <3>3, <3>4
  <2>12. DOMAIN r.components = DOMAIN p.components \cup {events[j].component : j \in 1..k}
    <3>1. {events[j].component : j \in 1..k}
            = {events[j].component : j \in 1..(k - 1)} \cup {e.component}
      BY <2>2
    <3> QED  BY <2>3, <2>11, <3>1 DEF ImportedUpTo
  <2>13. ASSUME NEW j \in 1..k
         PROVE  r.components[events[j].component] = events[j].version
    <3>1. CASE j = k
      BY <2>2, <2>11, <3>1
    <3>2. CASE j # k
      <4>1. j \in 1..(k - 1) /\ j \in 1..Len(events)
        BY <1>1, <3>2
      <4>2. events[j].component # e.component
        BY <2>2, <3>2, <4>1, ImportEventsAre
      <4>3. events[j].component \in DOMAIN q.components
        BY <2>3, <4>1 DEF ImportedUpTo
      <4> QED  BY <2>3, <2>11, <4>1, <4>2, <4>3 DEF ImportedUpTo
    <3> QED  BY <3>1, <3>2
  <2>14. ASSUME NEW c \in DOMAIN p.components, \A j \in 1..k : events[j].component # c
         PROVE  r.components[c] = p.components[c]
    <3>1. \A j \in 1..(k - 1) : events[j].component # c
      BY <2>14
    <3>2. c \in DOMAIN q.components /\ c # e.component
      BY <2>2, <2>3, <2>14 DEF ImportedUpTo
    <3> QED  BY <2>3, <2>11, <3>1, <3>2 DEF ImportedUpTo
  <2>15. ImportedUpTo(p, events, k, r)
    BY <2>8, <2>10, <2>12, <2>13, <2>14 DEF ImportedUpTo
  <2> QED  BY <2>7, <2>15
<1>5. \A k \in 0..Len(events) : k \in S
  <2> HIDE DEF S
  <2> QED  BY <1>1, <1>3, <1>4, UpTo
<1> QED
  BY <1>5

\* The events of an import continue the project.
LEMMA ImportContinues ==
  ASSUME NEW p \in Aggregates, Live(p), NEW inputs \in Seq(Declaration)
  PROVE  Continues(p, ImportEvents(p, inputs))
<1>1. PICK events : events = ImportEvents(p, inputs)
  OBVIOUS
<1>2. SUFFICES ASSUME NEW h, StepsOf(h, p, events), NEW k \in 1..Len(events)
               PROVE  Sensible(h[k - 1], events[k])
  BY <1>1 DEF Continues
<1>3. events \in Seq(DomainEvent) /\ Len(events) \in Nat
  BY <1>1, ImportEventsAre, LenProperties
<1>4. ImportedUpTo(p, events, k - 1, h[k - 1])
  BY <1>1, <1>2, <1>3, ImportSteps
<1>5. PICK i \in Changing(p, inputs) : events[k] = ImportEvent(p, inputs[i])
  BY <1>1, ImportEventsAre
<1>6. events[k].kind = IF events[k].component \in DOMAIN p.components THEN "updated" ELSE "added"
  BY <1>5, ImportEventIs
<1>7. \A j \in 1..(k - 1) : events[j].component # events[k].component
  <2> TAKE j \in 1..(k - 1)
  <2>1. j \in 1..Len(events) /\ j # k
    BY <1>3
  <2> QED  BY <1>1, <2>1, ImportEventsAre
<1>8. events[k].component \in DOMAIN h[k - 1].components
        <=> events[k].component \in DOMAIN p.components
  BY <1>4, <1>7 DEF ImportedUpTo
<1>9. Live(h[k - 1])
  BY <1>4 DEF ImportedUpTo
<1> QED
  BY <1>6, <1>8, <1>9 DEF Sensible

-----------------------------------------------------------------------------
(* Commands.                                                               *)

\* The forms of a command.
LEMMA CommandForms ==
  ASSUME NEW cmd \in Commands
  PROVE  \/ cmd.op = "create" /\ cmd.name \in Name /\ cmd.description \in Name
         \/ cmd.op = "rename" /\ cmd.name \in Text
         \/ cmd.op = "describe" /\ cmd.description \in Name
         \/ cmd.op = "delete"
         \/ cmd.op = "add" /\ cmd.component \in Component \cup {Empty}
                           /\ cmd.version \in Version \cup {Empty}
         \/ cmd.op = "remove" /\ cmd.component \in Component
         \/ cmd.op = "update" /\ cmd.component \in Component
                              /\ cmd.version \in Version \cup {Empty}
         \/ cmd.op = "import" /\ cmd.inputs \in Imports
BY DEF Commands, Texts, Name

\* What is imported is a list of declarations.
LEMMA ImportsAre ==
  ASSUME NEW inputs \in Imports
  PROVE  inputs \in Seq(Declaration)
BY ImportsAssumption DEF Declaration

\* An accepted command emits events, which continue the project it was decided
\* on, if a creation finds none.
LEMMA EmitsContinue ==
  ASSUME NEW p \in Aggregates, NEW cmd \in Commands, Accepts(p, cmd)
  PROVE  /\ Emits(p, cmd) \in Seq(DomainEvent)
         /\ (cmd.op = "create" => ~p.exists) => Continues(p, Emits(p, cmd))
<1>1. CASE cmd.op = "import"
  <2>1. cmd.inputs \in Seq(Declaration) /\ Live(p)
    BY <1>1, CommandForms, ImportsAre DEF Accepts
  <2>2. Emits(p, cmd) = ImportEvents(p, cmd.inputs)
    BY <1>1 DEF Emits
  <2> QED  BY <1>1, <2>1, <2>2, ImportEventsAre, ImportContinues
<1>2. CASE cmd.op # "import"
  <2>1. PICK e \in DomainEvent :
          /\ Emits(p, cmd) = <<e>>
          /\ (cmd.op = "create" => ~p.exists) => Sensible(p, e)
    <3>1. CASE cmd.op = "create"
      <4> DEFINE e == [kind |-> "created", name |-> cmd.name, description |-> cmd.description]
      <4>1. cmd.name \in Text /\ cmd.description \in Text \cup {Empty}
        BY <3>1, CommandForms DEF Accepts, Name
      <4>2. e \in DomainEvent /\ e.kind = "created"
        BY <4>1 DEF DomainEvent
      <4>3. Emits(p, cmd) = <<e>>
        BY <3>1 DEF Emits
      <4> HIDE DEF e
      <4> QED  BY <3>1, <4>2, <4>3 DEF Sensible
    <3>2. CASE cmd.op = "rename"
      <4> DEFINE e == [kind |-> "renamed", name |-> cmd.name]
      <4>1. cmd.name \in Text /\ Live(p)
        BY <3>2, CommandForms DEF Accepts
      <4>2. e \in DomainEvent /\ e.kind = "renamed"
        BY <4>1 DEF DomainEvent
      <4>3. Emits(p, cmd) = <<e>>
        BY <3>2 DEF Emits
      <4> HIDE DEF e
      <4> QED  BY <4>1, <4>2, <4>3 DEF Sensible
    <3>3. CASE cmd.op = "describe"
      <4> DEFINE e == [kind |-> "described", description |-> cmd.description]
      <4>1. cmd.description \in Text \cup {Empty} /\ Live(p)
        BY <3>3, CommandForms DEF Accepts, Name
      <4>2. e \in DomainEvent /\ e.kind = "described"
        BY <4>1 DEF DomainEvent
      <4>3. Emits(p, cmd) = <<e>>
        BY <3>3 DEF Emits
      <4> HIDE DEF e
      <4> QED  BY <4>1, <4>2, <4>3 DEF Sensible
    <3>4. CASE cmd.op = "delete"
      <4> DEFINE e == [kind |-> "deleted"]
      <4>1. Live(p)
        BY <3>4 DEF Accepts
      <4>2. e \in DomainEvent /\ e.kind = "deleted"
        BY DEF DomainEvent
      <4>3. Emits(p, cmd) = <<e>>
        BY <3>4 DEF Emits
      <4> HIDE DEF e
      <4> QED  BY <4>1, <4>2, <4>3 DEF Sensible
    <3>5. CASE cmd.op = "add"
      <4> DEFINE e == [kind |-> "added", component |-> cmd.component, version |-> cmd.version]
      <4>1. /\ cmd.component \in Component /\ cmd.version \in Version
            /\ Live(p) /\ cmd.component \notin DOMAIN p.components
        BY <3>5, CommandForms DEF Accepts, Complete
      <4>2. e \in DomainEvent /\ e.kind = "added" /\ e.component = cmd.component
        BY <4>1 DEF DomainEvent
      <4>3. Emits(p, cmd) = <<e>>
        BY <3>5 DEF Emits
      <4> HIDE DEF e
      <4> QED  BY <4>1, <4>2, <4>3 DEF Sensible
    <3>6. CASE cmd.op = "remove"
      <4> DEFINE e == [kind |-> "removed", component |-> cmd.component]
      <4>1. /\ cmd.component \in Component /\ Live(p)
            /\ cmd.component \in DOMAIN p.components
        BY <3>6, CommandForms DEF Accepts
      <4>2. e \in DomainEvent /\ e.kind = "removed" /\ e.component = cmd.component
        BY <4>1 DEF DomainEvent
      <4>3. Emits(p, cmd) = <<e>>
        BY <3>6 DEF Emits
      <4> HIDE DEF e
      <4> QED  BY <4>1, <4>2, <4>3 DEF Sensible
    <3>7. CASE cmd.op = "update"
      <4> DEFINE e == [kind |-> "updated", component |-> cmd.component, version |-> cmd.version]
      <4>1. /\ cmd.component \in Component /\ cmd.version \in Version
            /\ Live(p) /\ cmd.component \in DOMAIN p.components
        BY <3>7, CommandForms DEF Accepts
      <4>2. e \in DomainEvent /\ e.kind = "updated" /\ e.component = cmd.component
        BY <4>1 DEF DomainEvent
      <4>3. Emits(p, cmd) = <<e>>
        BY <3>7 DEF Emits
      <4> HIDE DEF e
      <4> QED  BY <4>1, <4>2, <4>3 DEF Sensible
    <3> QED
      BY <1>2, <3>1, <3>2, <3>3, <3>4, <3>5, <3>6, <3>7, CommandForms
  <2>2. <<e>> \in Seq(DomainEvent) /\ Len(<<e>>) = 1 /\ <<e>>[1] = e
    OBVIOUS
  <2>3. ASSUME Sensible(p, e) PROVE Continues(p, <<e>>)
    <3> SUFFICES ASSUME NEW h, StepsOf(h, p, <<e>>), NEW k \in 1..Len(<<e>>)
                 PROVE  Sensible(h[k - 1], <<e>>[k])
      BY DEF Continues
    <3>1. k = 1 /\ k - 1 = 0 /\ h[0] = p
      BY <2>2 DEF StepsOf
    <3> QED  BY <2>2, <2>3, <3>1
  <2> QED  BY <2>1, <2>2, <2>3
<1> QED
  BY <1>1, <1>2

-----------------------------------------------------------------------------
(* The read model.                                                         *)

Entries == [component : Component, version : Version]

Views ==
  {Absent} \cup
  [shown : {TRUE}, name : Name, description : Name, components : Seq(Entries)]

\* No two entries of the list are of one component.
OnceEach(list) ==
  \A j, k \in 1..Len(list) : j # k => list[j].component # list[k].component

\* The list after the first k entries are looked at.
WithoutRun(h, list, c) ==
  /\ h \in [0..Len(list) -> Seq(Entries)]
  /\ h[0] = <<>>
  /\ \A k \in 1..Len(list) :
       h[k] = IF list[k].component # c THEN Append(h[k - 1], list[k]) ELSE h[k - 1]

\* The fold of Without runs through the list.
LEMMA WithoutRuns ==
  ASSUME NEW list \in Seq(Entries), NEW c
  PROVE  \E h : WithoutRun(h, list, c) /\ Without(list, c) = h[Len(list)]
<1> DEFINE n == Len(list)
           D == Seq(Entries)
           step(out, x) == IF x.component # c THEN Append(out, x) ELSE out
           F(it) == [s \in SUBSET (1..n) |->
                       IF s = {} THEN <<>> ELSE step(it[s \ {Max(s)}], list[Max(s)])]
           g == [k \in 1..n |-> [y \in D |-> step(y, list[k])]]
<1>1. n \in Nat /\ DOMAIN list = 1..n
  BY LenProperties
<1>2. ASSUME NEW y \in D, NEW k \in 1..n PROVE step(y, list[k]) \in D
  <2>1. list[k] \in Entries
    BY ElementOfSeq
  <2> QED  BY <1>2, <2>1, AppendProperties
<1>3. g \in [1..n -> [D -> D]]
  <2> HIDE DEF step
  <2> QED  BY <1>2
<1>4. ASSUME NEW s \in SUBSET (1..n), s # {} PROVE Max(s) \in 1..n
  BY <1>1, <1>4, MaxIsIn
<1>5. ASSUME NEW s \in SUBSET (1..n), s # {}, NEW y \in D
      PROVE  g[Max(s)][y] = step(y, list[Max(s)])
  <2> HIDE DEF step
  <2> QED  BY <1>4, <1>5
<1>6. <<>> \in D
  BY EmptySeq
<1> HIDE DEF g, D
<1>7. PICK it : Iterated(n, D, <<>>, g, it)
  <2> HIDE DEF n
  <2> QED  BY <1>1, <1>3, <1>6, Iteration
<1>8. it = F(it)
  <2>1. ASSUME NEW s \in SUBSET (1..n)
        PROVE  it[s] = IF s = {} THEN <<>> ELSE step(it[s \ {Max(s)}], list[Max(s)])
    <3> HIDE DEF step
    <3> QED  BY <1>5, <1>7 DEF Iterated
  <2> HIDE DEF step
  <2> QED  BY <2>1, <1>7 DEF Iterated
<1> DEFINE f == CHOOSE f : f = F(f)
<1>9. Without(list, c) = f[1..n]
  BY <1>1 DEF Without, FoldLeft, MapThenFoldSet
<1>10. f = F(f)
  <2> HIDE DEF F
  <2> QED  BY <1>8
<1> HIDE DEF f
<1>11. f[{}] = <<>>
  <2>1. F(f)[{}] = <<>>
    OBVIOUS
  <2> QED  BY <1>10, <2>1
<1>12. Iterates(n, D, <<>>, g, f)
  <2> SUFFICES ASSUME NEW s \in SUBSET (1..n), s # {}, f[s \ {Max(s)}] \in D
               PROVE  f[s] = g[Max(s)][f[s \ {Max(s)}]]
    BY <1>11 DEF Iterates
  <2> HIDE DEF step
  <2>1. F(f)[s] = step(f[s \ {Max(s)}], list[Max(s)])
    OBVIOUS
  <2> HIDE DEF F
  <2> QED  BY <1>5, <1>10, <2>1
<1>13. PICK h : Reached(n, D, <<>>, g, f, h)
  <2> HIDE DEF n
  <2> QED  BY <1>1, <1>3, <1>6, <1>12, IteratedRuns
<1>14. ASSUME NEW k \in 1..n PROVE h[k] = step(h[k - 1], list[k])
  <2>1. h[k - 1] \in D /\ h[k] = g[k][h[k - 1]]
    BY <1>1, <1>13 DEF Reached, Runs
  <2> HIDE DEF step
  <2> QED  BY <2>1 DEF g
<1> QED
  BY <1>9, <1>13, <1>14 DEF Reached, WithoutRun, Runs, D

\* What is left are the other entries, each as often as before.
LEMMA WithoutIs ==
  ASSUME NEW list \in Seq(Entries), NEW c, OnceEach(list),
         NEW rest, rest = Without(list, c)
  PROVE  /\ OnceEach(rest)
         /\ \A j \in 1..Len(rest) : \E i \in 1..Len(list) : 
              rest[j] = list[i] /\ list[i].component # c
         /\ \A i \in 1..Len(list) : list[i].component # c =>
              \E j \in 1..Len(rest) : rest[j] = list[i]
<1> DEFINE n == Len(list)
           From(e, k) ==
             \A j \in 1..Len(e) : \E i \in 1..n :
               i <= k /\ e[j] = list[i] /\ list[i].component # c
           All(e, k) ==
             \A i \in 1..n : i <= k /\ list[i].component # c =>
               \E j \in 1..Len(e) : e[j] = list[i]
<1>1. PICK h : WithoutRun(h, list, c) /\ Without(list, c) = h[n]
  BY WithoutRuns
<1>2. n \in Nat
  BY LenProperties
<1> DEFINE S == {k \in 0..n : From(h[k], k) /\ All(h[k], k) /\ OnceEach(h[k])}
<1>3. 0 \in S
  <2>1. h[0] = <<>> /\ Len(h[0]) = 0
    BY <1>1, EmptySeq DEF WithoutRun
  <2>2. From(h[0], 0) /\ All(h[0], 0) /\ OnceEach(h[0])
    BY <1>2, <2>1 DEF OnceEach
  <2> QED  BY <1>2, <2>2
<1>4. ASSUME NEW k \in 1..n, k - 1 \in S PROVE k \in S
  <2>1. PICK e : e = h[k - 1]
    OBVIOUS
  <2>2. e \in Seq(Entries) /\ Len(e) \in Nat
    BY <1>1, <1>2, <2>1, LenProperties DEF WithoutRun
  <2>3. From(e, k - 1) /\ All(e, k - 1) /\ OnceEach(e)
    BY <1>4, <2>1
  <2>4. CASE list[k].component = c
    <3>1. h[k] = e
      BY <1>1, <2>1, <2>4 DEF WithoutRun
    <3>2. From(e, k)
      BY <2>3
    <3>3. All(e, k)
      <4> SUFFICES ASSUME NEW i \in 1..n, i <= k, list[i].component # c
                   PROVE  \E j \in 1..Len(e) : e[j] = list[i]
        OBVIOUS
      <4>1. i <= k - 1
        BY <2>4
      <4> QED  BY <2>3, <4>1
    <3>4. OnceEach(e)
      BY <2>3
    <3> HIDE DEF From, All
    <3> QED  BY <3>1, <3>2, <3>3, <3>4
  <2>5. CASE list[k].component # c
    <3>1. PICK x : x = list[k]
      OBVIOUS
    <3>2. PICK a : a = Append(e, x)
      OBVIOUS
    <3>3. h[k] = a
      BY <1>1, <2>1, <2>5, <3>1, <3>2 DEF WithoutRun
    <3>4. x \in Entries
      BY <3>1, ElementOfSeq
    <3>5. /\ Len(a) = Len(e) + 1 /\ a[Len(e) + 1] = x
          /\ \A j \in 1..Len(e) : a[j] = e[j]
      BY <2>2, <3>2, <3>4, AppendProperties
    <3>6. From(a, k)
      <4> SUFFICES ASSUME NEW j \in 1..Len(a)
                   PROVE  \E i \in 1..n : i <= k /\ a[j] = list[i] /\ list[i].component # c
        OBVIOUS
      <4>1. CASE j = Len(e) + 1
        BY <2>5, <3>1, <3>5, <4>1
      <4>2. CASE j # Len(e) + 1
        <5>1. j \in 1..Len(e)
          BY <2>2, <3>5, <4>2
        <5>2. PICK i \in 1..n : i <= k - 1 /\ e[j] = list[i] /\ list[i].component # c
          BY <2>3, <5>1
        <5> QED  BY <3>5, <5>1, <5>2
      <4> QED  BY <4>1, <4>2
    <3>7. All(a, k)
      <4> SUFFICES ASSUME NEW i \in 1..n, i <= k, list[i].component # c
                   PROVE  \E j \in 1..Len(a) : a[j] = list[i]
        OBVIOUS
      <4>1. CASE i = k
        <5>1. Len(e) + 1 \in 1..Len(a)
          BY <2>2, <3>5
        <5> QED  BY <3>1, <3>5, <4>1, <5>1
      <4>2. CASE i # k
        <5>1. i <= k - 1
          BY <4>2
        <5>2. PICK j \in 1..Len(e) : e[j] = list[i]
          BY <2>3, <5>1
        <5>3. j \in 1..Len(a)
          BY <2>2, <3>5
        <5> QED  BY <3>5, <5>2, <5>3
      <4> QED  BY <4>1, <4>2
    <3>8. ASSUME NEW j \in 1..Len(e) PROVE e[j].component # x.component
      <4>1. PICK i \in 1..n : i <= k - 1 /\ e[j] = list[i]
        BY <2>3
      <4> QED  BY <3>1, <4>1 DEF OnceEach
    <3>9. OnceEach(a)
      <4> SUFFICES ASSUME NEW i \in 1..Len(a), NEW j \in 1..Len(a), i # j
                   PROVE  a[i].component # a[j].component
        BY DEF OnceEach
      <4>1. i \in 1..Len(e) \/ i = Len(e) + 1
        BY <2>2, <3>5
      <4>2. j \in 1..Len(e) \/ j = Len(e) + 1
        BY <2>2, <3>5
      <4>3. i \in 1..Len(e) /\ j \in 1..Len(e) => e[i].component # e[j].component
        BY <2>3 DEF OnceEach
      <4> QED  BY <3>5, <3>8, <4>1, <4>2, <4>3
    <3> HIDE DEF From, All
    <3> QED  BY <3>3, <3>6, <3>7, <3>9
  <2> QED  BY <2>4, <2>5
<1>5. n \in S
  <2>1. \A k \in 0..n : k \in S
    <3> HIDE DEF S
    <3> QED  BY <1>2, <1>3, <1>4, UpTo
  <2>2. n \in 0..n
    BY <1>2
  <2> HIDE DEF S, n
  <2> QED  BY <2>1, <2>2
<1> QED
  BY <1>1, <1>5

\* The list holds the components of f, each once, with their versions.
Lists(list, f) ==
  /\ OnceEach(list)
  /\ \A k \in 1..Len(list) :
       list[k].component \in DOMAIN f /\ list[k].version = f[list[k].component]
  /\ \A c \in DOMAIN f : \E k \in 1..Len(list) : list[k].component = c

\* A view that shows the aggregate p. Shows follows from it, but says nothing of
\* the positions in the list.
Mirrors(v, p) ==
  IF ~Live(p) THEN v = Absent
  ELSE /\ v \in Views /\ v.shown
       /\ v.name = p.name /\ v.description = p.description
       /\ Lists(v.components, p.components)

\* The fields of an entry of the read model.
LEMMA ViewFields ==
  ASSUME NEW v \in Views, v.shown
  PROVE  /\ v = [shown |-> TRUE, name |-> v.name, description |-> v.description,
                 components |-> v.components]
         /\ v.name \in Name /\ v.description \in Name /\ v.components \in Seq(Entries)
<1>1. v # Absent
  BY DEF Absent
<1>2. v \in [shown : {TRUE}, name : Name, description : Name, components : Seq(Entries)]
  BY <1>1 DEF Views
<1> QED
  BY <1>2

\* The entries of the read model.
LEMMA ViewsAre ==
  /\ Absent \in Views /\ ~ Absent.shown
  /\ \A n, d \in Name, list \in Seq(Entries) :
       [shown |-> TRUE, name |-> n, description |-> d, components |-> list] \in Views
BY DEF Views, Absent

\* The list with the version of component c set to v.
Updated(list, c, v) ==
  [i \in DOMAIN list |-> IF list[i].component = c THEN Entry(c, v) ELSE list[i]]

\* An update changes the entries of its component and no others.
LEMMA UpdatedIs ==
  ASSUME NEW list \in Seq(Entries), NEW c \in Component, NEW v \in Version
  PROVE  /\ Updated(list, c, v) \in Seq(Entries)
         /\ Len(Updated(list, c, v)) = Len(list)
         /\ \A i \in 1..Len(list) :
              Updated(list, c, v)[i] =
                IF list[i].component = c THEN Entry(c, v) ELSE list[i]
<1>1. Len(list) \in Nat /\ DOMAIN list = 1..Len(list)
  BY LenProperties
<1>2. Entry(c, v) \in Entries
  BY DEF Entry, Entries
<1>3. PICK u : u = Updated(list, c, v)
  OBVIOUS
<1>4. u \in [1..Len(list) -> Entries]
  BY <1>1, <1>2, <1>3, ElementOfSeq DEF Updated
<1>5. u \in Seq(Entries) /\ Len(u) = Len(list)
  BY <1>1, <1>4
<1> QED
  BY <1>1, <1>3, <1>5 DEF Updated

\* What the projection makes of a view.
LEMMA ProjectIs ==
  ASSUME NEW v \in Views, NEW e \in DomainEvent
  PROVE  /\ Project(v, e) \in Views
         /\ e.kind = "created" => Project(v, e) = View(e.name, e.description)
         /\ v.shown /\ e.kind = "renamed" =>
              Project(v, e) = [shown |-> TRUE, name |-> e.name,
                               description |-> v.description, components |-> v.components]
         /\ v.shown /\ e.kind = "described" =>
              Project(v, e) = [shown |-> TRUE, name |-> v.name,
                               description |-> e.description, components |-> v.components]
         /\ v.shown /\ e.kind = "deleted" => Project(v, e) = Absent
         /\ v.shown /\ e.kind = "added" =>
              Project(v, e) =
                [shown |-> TRUE, name |-> v.name, description |-> v.description,
                 components |-> Append(v.components, Entry(e.component, e.version))]
         /\ v.shown /\ e.kind = "removed" =>
              Project(v, e) =
                [shown |-> TRUE, name |-> v.name, description |-> v.description,
                 components |-> Without(v.components, e.component)]
         /\ v.shown /\ e.kind = "updated" =>
              Project(v, e) =
                [shown |-> TRUE, name |-> v.name, description |-> v.description,
                 components |-> Updated(v.components, e.component, e.version)]
<1>1. Text \subseteq Name
  BY DEF Name
<1>2. CASE e.kind = "created"
  <2>1. Project(v, e) = View(e.name, e.description)
    BY <1>2 DEF Project
  <2>2. e.name \in Name /\ e.description \in Name /\ <<>> \in Seq(Entries)
    BY <1>1, <1>2, EventForms, EmptySeq
  <2> QED  BY <1>2, <2>1, <2>2, ViewsAre DEF View
<1>3. CASE e.kind # "created" /\ ~v.shown
  BY <1>3 DEF Project
<1>4. CASE v.shown /\ e.kind = "renamed"
  <2>1. Project(v, e) = [shown |-> TRUE, name |-> e.name,
                         description |-> v.description, components |-> v.components]
    <3>1. Project(v, e) = [v EXCEPT !.name = e.name]
      BY <1>4 DEF Project
    <3> QED  BY <1>4, <3>1, ViewFields
  <2> QED  BY <1>1, <1>4, <2>1, ViewsAre, ViewFields, EventForms
<1>5. CASE v.shown /\ e.kind = "described"
  <2>1. Project(v, e) = [shown |-> TRUE, name |-> v.name,
                         description |-> e.description, components |-> v.components]
    <3>1. Project(v, e) = [v EXCEPT !.description = e.description]
      BY <1>5 DEF Project
    <3> QED  BY <1>5, <3>1, ViewFields
  <2> QED  BY <1>5, <2>1, ViewsAre, ViewFields, EventForms
<1>6. CASE v.shown /\ e.kind = "deleted"
  BY <1>6, ViewsAre DEF Project
<1>7. CASE v.shown /\ e.kind = "added"
  <2> DEFINE list == Append(v.components, Entry(e.component, e.version))
  <2>1. Project(v, e) = [shown |-> TRUE, name |-> v.name, description |-> v.description,
                         components |-> list]
    <3>1. Project(v, e) = [v EXCEPT !.components = list]
      BY <1>7 DEF Project
    <3> QED  BY <1>7, <3>1, ViewFields
  <2>2. Entry(e.component, e.version) \in Entries
    BY <1>7, EventForms DEF Entry, Entries
  <2>3. list \in Seq(Entries)
    BY <1>7, <2>2, ViewFields, AppendProperties
  <2> QED  BY <1>7, <2>1, <2>3, ViewsAre, ViewFields
<1>8. CASE v.shown /\ e.kind = "removed"
  <2> DEFINE list == Without(v.components, e.component)
  <2>1. Project(v, e) = [shown |-> TRUE, name |-> v.name, description |-> v.description,
                         components |-> list]
    <3>1. Project(v, e) = [v EXCEPT !.components = list]
      BY <1>8 DEF Project
    <3> QED  BY <1>8, <3>1, ViewFields
  <2>2. v.components \in Seq(Entries)
    BY <1>8, ViewFields
  <2>3. list \in Seq(Entries)
    <3>1. PICK h : WithoutRun(h, v.components, e.component) /\ list = h[Len(v.components)]
      BY <2>2, WithoutRuns
    <3>2. Len(v.components) \in Nat
      BY <2>2, LenProperties
    <3> QED  BY <3>1, <3>2 DEF WithoutRun
  <2> QED  BY <1>8, <2>1, <2>3, ViewsAre, ViewFields
<1>9. CASE v.shown /\ e.kind = "updated"
  <2> DEFINE list == Updated(v.components, e.component, e.version)
  <2>1. Project(v, e) = [shown |-> TRUE, name |-> v.name, description |-> v.description,
                         components |-> list]
    <3>1. Project(v, e) = [v EXCEPT !.components = list]
      BY <1>9 DEF Project, Updated
    <3> QED  BY <1>9, <3>1, ViewFields
  <2>2. list \in Seq(Entries)
    BY <1>9, EventForms, ViewFields, UpdatedIs
  <2> QED  BY <1>9, <2>1, <2>2, ViewsAre, ViewFields
<1> QED
  BY <1>2, <1>3, <1>4, <1>5, <1>6, <1>7, <1>8, <1>9, EventForms

\* An envelope changes the entry of its project and no other.
LEMMA ShownIs ==
  ASSUME NEW views \in [ProjectID -> Views], NEW env \in Envelope
  PROVE  /\ Shown(views, env) \in [ProjectID -> Views]
         /\ \A id \in ProjectID :
              Shown(views, env)[id] =
                IF id = env.stream THEN Project(views[id], env.event) ELSE views[id]
<1>1. env.stream \in ProjectID /\ env.event \in DomainEvent
  BY DEF Envelope
<1>2. views[env.stream] \in Views
  BY <1>1
<1>3. Project(views[env.stream], env.event) \in Views
  BY <1>1, <1>2, ProjectIs
<1> QED
  BY <1>1, <1>3 DEF Shown

\* A new read model shows nothing.
LEMMA NoViewsType == NoViews \in [ProjectID -> Views]
BY ViewsAre DEF NoViews

\* The read models after each of the envelopes of m.
ProjectionRun(h, m) ==
  /\ h \in [0..Len(m) -> [ProjectID -> Views]]
  /\ h[0] = NoViews
  /\ \A k \in 1..Len(m) : h[k] = Shown(h[k - 1], m[k])

\* The fold of Projection runs through the log.
LEMMA ProjectionRuns ==
  ASSUME NEW m \in Seq(Envelope)
  PROVE  \E h : ProjectionRun(h, m) /\ Projection(m) = h[Len(m)]
<1> DEFINE n == Len(m)
           D == [ProjectID -> Views]
           F(it) == [s \in SUBSET (1..n) |->
                       IF s = {} THEN NoViews ELSE Shown(it[s \ {Max(s)}], m[Max(s)])]
           g == [k \in 1..n |-> [y \in D |-> Shown(y, m[k])]]
<1>1. n \in Nat /\ DOMAIN m = 1..n
  BY LenProperties
<1>2. ASSUME NEW y \in D, NEW k \in 1..n PROVE Shown(y, m[k]) \in D
  BY <1>2, EnvelopeAt, ShownIs
<1>3. NoViews \in D
  BY NoViewsType
<1> HIDE DEF D
<1>4. g \in [1..n -> [D -> D]]
  BY <1>2
<1>5. ASSUME NEW s \in SUBSET (1..n), s # {} PROVE Max(s) \in 1..n
  BY <1>1, <1>5, MaxIsIn
<1>6. ASSUME NEW s \in SUBSET (1..n), s # {}, NEW y \in D
      PROVE  g[Max(s)][y] = Shown(y, m[Max(s)])
  BY <1>5, <1>6
<1> HIDE DEF g
<1>7. PICK it : Iterated(n, D, NoViews, g, it)
  <2> HIDE DEF n
  <2> QED  BY <1>1, <1>3, <1>4, Iteration
<1>8. it = F(it)
  <2>1. ASSUME NEW s \in SUBSET (1..n)
        PROVE  it[s] = IF s = {} THEN NoViews ELSE Shown(it[s \ {Max(s)}], m[Max(s)])
    BY <1>6, <1>7 DEF Iterated
  <2> QED  BY <2>1, <1>7 DEF Iterated
<1> DEFINE f == CHOOSE f : f = F(f)
<1>9. Projection(m) = f[1..n]
  BY <1>1 DEF Projection, FoldLeft, MapThenFoldSet
<1>10. f = F(f)
  <2> HIDE DEF F
  <2> QED  BY <1>8
<1> HIDE DEF f
<1>11. f[{}] = NoViews
  <2>1. F(f)[{}] = NoViews
    OBVIOUS
  <2> QED  BY <1>10, <2>1
<1>12. Iterates(n, D, NoViews, g, f)
  <2> SUFFICES ASSUME NEW s \in SUBSET (1..n), s # {}, f[s \ {Max(s)}] \in D
               PROVE  f[s] = g[Max(s)][f[s \ {Max(s)}]]
    BY <1>11 DEF Iterates
  <2>1. F(f)[s] = Shown(f[s \ {Max(s)}], m[Max(s)])
    OBVIOUS
  <2> HIDE DEF F
  <2> QED  BY <1>6, <1>10, <2>1
<1>13. PICK h : Reached(n, D, NoViews, g, f, h)
  <2> HIDE DEF n
  <2> QED  BY <1>1, <1>3, <1>4, <1>12, IteratedRuns
<1>14. ASSUME NEW k \in 1..n PROVE h[k] = Shown(h[k - 1], m[k])
  <2>1. h[k - 1] \in D /\ h[k] = g[k][h[k - 1]]
    BY <1>1, <1>13 DEF Reached, Runs
  <2> QED  BY <2>1 DEF g
<1> QED
  BY <1>9, <1>13, <1>14 DEF Reached, ProjectionRun, Runs, D

\* The list of a project's components stays right when one is added,
LEMMA ListsAdded ==
  ASSUME NEW list \in Seq(Entries), NEW f \in Held, Lists(list, f),
         NEW c \in Component, NEW v \in Version, c \notin DOMAIN f
  PROVE  Lists(Append(list, Entry(c, v)), WithComponent(f, c, v))
<1> PICK g : g = WithComponent(f, c, v)
  OBVIOUS
<1>1. /\ DOMAIN g = DOMAIN f \cup {c} /\ g[c] = v
      /\ \A d \in DOMAIN f : d # c => g[d] = f[d]
  <2>1. DOMAIN g = DOMAIN f \cup {c}
    BY WithIs
  <2>2. g[c] = v
    BY WithIs
  <2>3. \A d \in DOMAIN f : d # c => g[d] = f[d]
    BY DEF WithComponent
  <2> QED  BY <2>1, <2>2, <2>3
<1> PICK x : x = Entry(c, v)
  OBVIOUS
<1>0. x \in Entries /\ x.component = c /\ x.version = v
  BY DEF Entry, Entries
<1> PICK n \in Nat : n = Len(list)
  BY LenProperties
<1> PICK new : new = Append(list, x)
  OBVIOUS
<1>2. /\ Len(new) = n + 1
      /\ \A i \in 1..n : new[i] = list[i]
      /\ new[n + 1] = x
  BY <1>0, AppendProperties
<1>3. /\ \A i \in 1..n : list[i].component \in DOMAIN f
                         /\ list[i].version = f[list[i].component]
      /\ \A d \in DOMAIN f : \E i \in 1..n : list[i].component = d
      /\ \A i, j \in 1..n : i # j => list[i].component # list[j].component
  BY DEF Lists, OnceEach
<1>4. \A k \in 1..Len(new) : k \in 1..n \/ k = n + 1
  BY <1>2
<1>5. OnceEach(new)
  BY <1>0, <1>2, <1>3, <1>4 DEF OnceEach
<1>6. \A k \in 1..Len(new) : new[k].component \in DOMAIN g
                             /\ new[k].version = g[new[k].component]
  BY <1>0, <1>1, <1>2, <1>3, <1>4
<1>7. n + 1 \in 1..Len(new) /\ \A i \in 1..n : i \in 1..Len(new)
  BY <1>2
<1>8. \A d \in DOMAIN g : \E k \in 1..Len(new) : new[k].component = d
  <2> TAKE d \in DOMAIN g
  <2>1. CASE d = c
    BY <1>0, <1>2, <1>7, <2>1
  <2>2. CASE d \in DOMAIN f
    BY <1>2, <1>3, <1>7, <2>2
  <2> QED  BY <1>1, <2>1, <2>2
<1> QED
  BY <1>5, <1>6, <1>8 DEF Lists

\* removed,
LEMMA ListsRemoved ==
  ASSUME NEW list \in Seq(Entries), NEW f \in Held, Lists(list, f), NEW c
  PROVE  Lists(Without(list, c), Restrict(f, DOMAIN f \ {c}))
<1> PICK new : new = Without(list, c)
  OBVIOUS
<1> PICK g : g = Restrict(f, DOMAIN f \ {c})
  OBVIOUS
<1>1. DOMAIN g = DOMAIN f \ {c} /\ \A d \in DOMAIN f \ {c} : g[d] = f[d]
  BY RestrictIs
<1>2. OnceEach(list)
  BY DEF Lists
<1>3. /\ OnceEach(new)
      /\ \A j \in 1..Len(new) : \E i \in 1..Len(list) :
            new[j] = list[i] /\ list[i].component # c
      /\ \A i \in 1..Len(list) : list[i].component # c =>
            \E j \in 1..Len(new) : new[j] = list[i]
  BY <1>2, WithoutIs
<1>4. \A k \in 1..Len(new) : new[k].component \in DOMAIN g
                             /\ new[k].version = g[new[k].component]
  <2> TAKE k \in 1..Len(new)
  <2>1. PICK i \in 1..Len(list) : new[k] = list[i] /\ list[i].component # c
    BY <1>3
  <2> QED  BY <1>1, <2>1 DEF Lists
<1>5. \A d \in DOMAIN g : \E k \in 1..Len(new) : new[k].component = d
  <2> TAKE d \in DOMAIN g
  <2>1. d \in DOMAIN f /\ d # c
    BY <1>1
  <2>2. PICK i \in 1..Len(list) : list[i].component = d
    BY <2>1 DEF Lists
  <2> QED  BY <1>3, <2>1, <2>2
<1> QED
  BY <1>3, <1>4, <1>5 DEF Lists

\* or updated.
LEMMA ListsUpdated ==
  ASSUME NEW list \in Seq(Entries), NEW f \in Held, Lists(list, f),
         NEW c \in DOMAIN f, NEW v \in Version, c \in Component
  PROVE  Lists(Updated(list, c, v), WithComponent(f, c, v))
<1> PICK new : new = Updated(list, c, v)
  OBVIOUS
<1> PICK g : g = WithComponent(f, c, v)
  OBVIOUS
<1>1. /\ DOMAIN g = DOMAIN f \cup {c} /\ g[c] = v
      /\ \A d \in DOMAIN f : d # c => g[d] = f[d]
  BY WithIs
<1>2. /\ Len(new) = Len(list)
      /\ \A i \in 1..Len(list) : new[i] = IF list[i].component = c THEN Entry(c, v) ELSE list[i]
  BY UpdatedIs
<1>3. \A i \in 1..Len(list) :
        /\ new[i].component = list[i].component
        /\ new[i].version = IF new[i].component = c THEN v ELSE list[i].version
  BY <1>2 DEF Entry
<1>4. OnceEach(new)
  BY <1>2, <1>3 DEF Lists, OnceEach
<1>5. \A k \in 1..Len(new) : new[k].component \in DOMAIN g
                             /\ new[k].version = g[new[k].component]
  BY <1>1, <1>2, <1>3 DEF Lists
<1>6. \A d \in DOMAIN g : \E k \in 1..Len(new) : new[k].component = d
  <2> TAKE d \in DOMAIN g
  <2>1. PICK i \in 1..Len(list) : list[i].component = d
    BY <1>1 DEF Lists
  <2> QED  BY <1>2, <1>3, <2>1
<1> QED
  BY <1>4, <1>5, <1>6 DEF Lists

\* A view that shows the aggregate shows it after an event that makes sense.
LEMMA MirrorsNext ==
  ASSUME NEW p \in Aggregates, NEW v \in Views, Mirrors(v, p),
         NEW e \in DomainEvent, Sensible(p, e), p.deleted => p.exists
  PROVE  Mirrors(Project(v, e), Apply(p, e))
<1> DEFINE q == Apply(p, e)
<1>1. q \in Aggregates /\ Applied(p, e, q)
  BY ApplyIs
<1>2. Project(v, e) \in Views
  BY ProjectIs
<1> HIDE DEF q
<1>3. CASE e.kind = "created"
  <2>1. Live(q) /\ q.components = NoComponents
    BY <1>1, <1>3 DEF Applied, Sensible, Live
  <2>2. q.name = e.name /\ q.description = e.description
    BY <1>1, <1>3 DEF Applied
  <2>3. Project(v, e) = View(e.name, e.description)
    BY <1>3, ProjectIs
  <2>4. Lists(<<>>, NoComponents)
    BY NothingHeld DEF Lists, OnceEach
  <2> QED  BY <1>2, <2>1, <2>2, <2>3, <2>4 DEF View, Mirrors, q
<1>4. CASE e.kind = "deleted"
  <2>1. ~Live(q)
    BY <1>1, <1>4 DEF Applied, Live
  <2>2. v.shown
    BY <1>4 DEF Mirrors, Sensible
  <2> QED  BY <1>4, <2>1, <2>2, ProjectIs DEF Mirrors, q
<1>5. ASSUME e.kind \notin {"created", "deleted"}
      PROVE  /\ Live(p) /\ Live(q)
             /\ v.shown /\ v.name = p.name /\ v.description = p.description
             /\ Lists(v.components, p.components)
  <2>1. Live(p)
    BY <1>5, EventForms DEF Sensible
  <2> QED  BY <1>1, <1>5, <2>1 DEF Applied, Live, Mirrors
<1>6. CASE e.kind = "renamed"
  <2>1. q.name = e.name /\ q.description = p.description /\ q.components = p.components
    BY <1>1, <1>6 DEF Applied
  <2>2. Project(v, e) = [shown |-> TRUE, name |-> e.name, description |-> v.description,
                         components |-> v.components]
    BY <1>5, <1>6, ProjectIs
  <2> QED  BY <1>2, <1>5, <1>6, <2>1, <2>2 DEF Mirrors, q
<1>7. CASE e.kind = "described"
  <2>1. q.name = p.name /\ q.description = e.description /\ q.components = p.components
    BY <1>1, <1>7 DEF Applied
  <2>2. Project(v, e) = [shown |-> TRUE, name |-> v.name, description |-> e.description,
                         components |-> v.components]
    BY <1>5, <1>7, ProjectIs
  <2> QED  BY <1>2, <1>5, <1>7, <2>1, <2>2 DEF Mirrors, q
<1>8. ASSUME v.shown PROVE p.components \in Held /\ v.components \in Seq(Entries)
  BY <1>8, AggregateFields, ViewFields
<1>9. ASSUME e.kind \in {"added", "removed", "updated"}, NEW list,
             Project(v, e) = [shown |-> TRUE, name |-> v.name,
                              description |-> v.description, components |-> list],
             Lists(list, q.components)
      PROVE  Mirrors(Project(v, e), q)
  <2>1. q.name = p.name /\ q.description = p.description
    BY <1>1, <1>9 DEF Applied
  <2> QED  BY <1>2, <1>5, <1>9, <2>1 DEF Mirrors
<1>10. CASE e.kind \in {"added", "removed", "updated"}
  <2> PICK list \in Seq(Entries), f \in Held :
        list = v.components /\ f = p.components /\ Lists(list, f)
    BY <1>5, <1>8, <1>10
  <2> PICK c \in Component : c = e.component
    BY <1>10, EventForms
  <2>1. CASE e.kind = "added"
    <3> PICK w \in Version : w = e.version
      BY <2>1, EventForms
    <3>1. Project(v, e) = [shown |-> TRUE, name |-> v.name, description |-> v.description,
                           components |-> Append(list, Entry(c, w))]
      BY <1>5, <2>1, ProjectIs
    <3>2. q.components = WithComponent(f, c, w) /\ c \notin DOMAIN f
      BY <1>1, <2>1 DEF Applied, Sensible
    <3>3. Lists(Append(list, Entry(c, w)), q.components)
      BY <3>2, ListsAdded
    <3> QED  BY <1>9, <1>10, <3>1, <3>3 DEF q
  <2>2. CASE e.kind = "removed"
    <3>1. Project(v, e) = [shown |-> TRUE, name |-> v.name, description |-> v.description,
                           components |-> Without(list, c)]
      BY <1>5, <2>2, ProjectIs
    <3>2. q.components = Restrict(f, DOMAIN f \ {c})
      BY <1>1, <2>2 DEF Applied
    <3>3. Lists(Without(list, c), q.components)
      BY <3>2, ListsRemoved
    <3> QED  BY <1>9, <1>10, <3>1, <3>3 DEF q
  <2>3. CASE e.kind = "updated"
    <3> PICK w \in Version : w = e.version
      BY <2>3, EventForms
    <3>1. Project(v, e) = [shown |-> TRUE, name |-> v.name, description |-> v.description,
                           components |-> Updated(list, c, w)]
      BY <1>5, <2>3, ProjectIs
    <3>2. c \in DOMAIN f
      BY <2>3 DEF Sensible
    <3>3. q.components = WithComponent(f, c, w)
      BY <1>1, <2>3, <3>2 DEF Applied
    <3>4. Lists(Updated(list, c, w), q.components)
      BY <3>2, <3>3, ListsUpdated
    <3> QED  BY <1>9, <1>10, <3>1, <3>4 DEF q
  <2> QED  BY <1>10, <2>1, <2>2, <2>3
<1> QED
  BY <1>3, <1>4, <1>6, <1>7, <1>10, EventForms DEF q

\* A project that is not shown mirrors one that does not exist.
LEMMA MirrorsFresh == Mirrors(Absent, Fresh)
BY DEF Mirrors, Live, Fresh

\* A list that holds each component once is as long as there are components.
LEMMA MirrorsShow ==
  ASSUME NEW p \in Aggregates, NEW v, Mirrors(v, p)
  PROVE  Shows(v, p)
<1>1. CASE ~Live(p)
  BY <1>1 DEF Mirrors, Shows
<1>2. CASE Live(p)
  <2> PICK list, f : list = v.components /\ f = p.components
    OBVIOUS
  <2>1. v \in Views /\ v.shown /\ v.name = p.name /\ v.description = p.description
        /\ Lists(list, f)
    BY <1>2 DEF Mirrors
  <2>2. list \in Seq(Entries)
    BY <2>1, ViewFields
  <2>3. Len(list) \in Nat /\ DOMAIN list = 1..Len(list)
        /\ \A k \in 1..Len(list) : list[k] \in Entries
    BY <2>2, LenProperties, ElementOfSeq
  <2>4. \A k \in 1..Len(list) : list[k] = Entry(list[k].component, f[list[k].component])
    BY <2>1, <2>3 DEF Lists, Entry, Entries
  <2>5. ToSet(list) = {Entry(c, f[c]) : c \in DOMAIN f}
    <3>1. ASSUME NEW k \in 1..Len(list) PROVE list[k] \in {Entry(c, f[c]) : c \in DOMAIN f}
      BY <2>1, <2>4 DEF Lists
    <3>2. ASSUME NEW c \in DOMAIN f PROVE \E k \in 1..Len(list) : list[k] = Entry(c, f[c])
      BY <2>1, <2>4 DEF Lists
    <3> QED  BY <2>3, <3>1, <3>2 DEF ToSet
  <2>6. Cardinality(DOMAIN f) = Len(list)
    <3> DEFINE b == [k \in 1..Len(list) |-> list[k].component]
    <3>1. b \in Bijection(1..Len(list), DOMAIN f)
      <4>1. b \in [1..Len(list) -> DOMAIN f]
        BY <2>1 DEF Lists
      <4>2. IsInjective(b)
        BY <2>1 DEF Lists, OnceEach, IsInjective
      <4>3. \A c \in DOMAIN f : \E k \in 1..Len(list) : b[k] = c
        BY <2>1 DEF Lists
      <4> HIDE DEF b
      <4> QED  BY <4>1, <4>2, <4>3 DEF Bijection, Injection, Surjection
    <3>2. IsFiniteSet(1..Len(list)) /\ Cardinality(1..Len(list)) = Len(list)
      BY <2>3, FS_Interval
    <3> HIDE DEF b
    <3> QED  BY <3>1, <3>2, FS_Bijection DEF ExistsBijection
  <2> QED  BY <1>2, <2>1, <2>5, <2>6 DEF Shows
<1> QED
  BY <1>1, <1>2

-----------------------------------------------------------------------------
(* Rebuilding a project from part of the log.                              *)

\* What is left out, or of other projects, at the end of a log does not count.
LEMMA RebuiltTail ==
  ASSUME NEW m \in Seq(Envelope), NEW id, NEW skipped, NEW n \in 0..Len(m),
         \A k \in 1..Len(m) : n < k => m[k].stream # id \/ m[k] \in skipped
  PROVE  Rebuilt(m, id, skipped) = Rebuilt(SubSeq(m, 1, n), id, skipped)
<1>1. PICK h : RunOf(h, m, id, skipped)
  BY RebuiltIs
<1>2. PICK l \in Nat : l = Len(m)
  BY LenProperties
<1> DEFINE S == {k \in 0..l : n <= k => h[k] = h[n]}
<1>3. 0 \in S
  BY <1>2
<1>4. ASSUME NEW k \in 1..l, k - 1 \in S PROVE k \in S
  <2>1. CASE k <= n
    BY <1>2, <2>1
  <2>2. CASE n < k
    <3>1. h[k] = h[k - 1]
      BY <1>1, <1>2, <2>2 DEF RunOf
    <3>2. n <= k - 1
      BY <1>2, <2>2
    <3> QED  BY <1>4, <3>1, <3>2
  <2> QED  BY <1>2, <2>1, <2>2
<1>5. \A k \in 0..l : k \in S
  <2> HIDE DEF S
  <2> QED  BY <1>3, <1>4, UpTo
<1>6. h[l] = h[n]
  BY <1>2, <1>5
<1> QED
  BY <1>1, <1>2, <1>6, RunIsRebuilt

\* Only what is left out of the project counts.
LEMMA RebuiltSame ==
  ASSUME NEW m \in Seq(Envelope), NEW id, NEW s1, NEW s2,
         \A k \in 1..Len(m) : m[k].stream = id => (m[k] \in s1 <=> m[k] \in s2)
  PROVE  Rebuilt(m, id, s1) = Rebuilt(m, id, s2)
<1>1. PICK h1 : RunOf(h1, m, id, s1)
  BY RebuiltIs
<1>2. PICK h2 : RunOf(h2, m, id, s2)
  BY RebuiltIs
<1>3. PICK n \in Nat : n = Len(m)
  BY LenProperties
<1>4. SameUpTo(m, m, id, s1, s2, n)
  BY <1>3 DEF SameUpTo
<1>5. \A k \in 0..n : h1[k] = h2[k]
  BY <1>1, <1>2, <1>3, <1>4, RunsAgree
<1>6. Rebuilt(m, id, s1) = h1[n] /\ Rebuilt(m, id, s2) = h2[n]
  BY <1>1, <1>2, <1>3, RunIsRebuilt
<1> QED
  BY <1>3, <1>5, <1>6

\* A batch of another project, or one that is left out, does not count.
LEMMA RebuiltOfConcat ==
  ASSUME NEW m \in Seq(Envelope), NEW b \in Seq(Envelope), NEW id, NEW s1, NEW s2,
         \A k \in 1..Len(m) : m[k].stream = id => (m[k] \in s1 <=> m[k] \in s2),
         \A k \in 1..Len(b) : b[k].stream # id \/ b[k] \in s2
  PROVE  Rebuilt(m \o b, id, s2) = Rebuilt(m, id, s1)
<1>1. PICK c \in Seq(Envelope) : c = m \o b
  BY ConcatIs
<1>2. PICK n \in Nat, l \in Nat : n = Len(m) /\ l = Len(b)
  BY LenProperties
<1>3. /\ Len(c) = n + l
      /\ \A i \in 1..n : c[i] = m[i]
      /\ \A j \in 1..l : c[n + j] = b[j]
      /\ SubSeq(c, 1, n) = m
  BY <1>1, <1>2, ConcatIs
<1>4. \A k \in 1..Len(c) : n < k => c[k].stream # id \/ c[k] \in s2
  <2> TAKE k \in 1..Len(c)
  <2>1. HAVE n < k
  <2>2. k - n \in 1..l /\ k = n + (k - n)
    BY <1>3, <2>1
  <2>3. c[k] = b[k - n]
    BY <1>3, <2>2
  <2> QED  BY <1>2, <2>2, <2>3
<1>5. n \in 0..Len(c)
  BY <1>2, <1>3
<1>6. Rebuilt(c, id, s2) = Rebuilt(m, id, s2)
  <2>1. Rebuilt(c, id, s2) = Rebuilt(SubSeq(c, 1, n), id, s2)
    BY <1>4, <1>5, RebuiltTail
  <2> QED  BY <1>3, <2>1
<1>7. Rebuilt(m, id, s1) = Rebuilt(m, id, s2)
  BY RebuiltSame
<1> QED
  BY <1>1, <1>6, <1>7

\* Each envelope takes the project on by its event.
LEMMA LoadStep ==
  ASSUME NEW m \in Seq(Envelope), NEW id, NEW i \in 1..Len(m)
  PROVE  LoadProject(SubSeq(m, 1, i), id) =
           IF m[i].stream = id
           THEN Apply(LoadProject(SubSeq(m, 1, i - 1), id), m[i].event)
           ELSE LoadProject(SubSeq(m, 1, i - 1), id)
<1>1. PICK h : LoadRun(h, m, id)
  BY LoadRuns
<1>2. i \in 0..Len(m) /\ i - 1 \in 0..Len(m)
  BY LenProperties
<1>3. h[i] = LoadProject(SubSeq(m, 1, i), id)
      /\ h[i - 1] = LoadProject(SubSeq(m, 1, i - 1), id)
  BY <1>1, <1>2, LoadRunIs
<1> QED
  BY <1>1, <1>3 DEF LoadRun

\* Of the project, the envelopes after position i are left out, and no others.
OutAfter(m, id, skipped, i) ==
  \A k \in 1..Len(m) : m[k].stream = id => (m[k] \in skipped <=> i < k)

\* What is rebuilt then is the project as it was at i.
LEMMA RebuiltUpTo ==
  ASSUME NEW m \in Seq(Envelope), NEW id, NEW s, NEW i \in 0..Len(m), OutAfter(m, id, s, i)
  PROVE  Rebuilt(m, id, s) = LoadProject(SubSeq(m, 1, i), id)
<1> PICK none : none = {}
  OBVIOUS
<1>1. PICK n \in Nat : n = Len(m)
  BY LenProperties
<1>2. PICK q \in Seq(Envelope) : q = SubSeq(m, 1, i)
  BY PrefixIs
<1>3. Len(q) = i /\ \A k \in 1..i : q[k] = m[k]
  BY <1>2, PrefixIs
<1>4. Rebuilt(m, id, s) = Rebuilt(q, id, s)
  <2>1. \A k \in 1..Len(m) : i < k => m[k].stream # id \/ m[k] \in s
    BY DEF OutAfter
  <2> QED  BY <1>2, <2>1, RebuiltTail
<1>5. \A k \in 1..Len(q) : q[k].stream = id => (q[k] \in s <=> q[k] \in none)
  <2> TAKE k \in 1..Len(q)
  <2>1. k \in 1..n /\ ~ (i < k) /\ q[k] = m[k]
    BY <1>1, <1>3
  <2> QED  BY <1>1, <2>1 DEF OutAfter
<1>6. Rebuilt(q, id, s) = Rebuilt(q, id, none)
  BY <1>5, RebuiltSame
<1> QED
  BY <1>2, <1>4, <1>6 DEF LoadProject

\* In a legal log, only what existed is deleted.
LEMMA DeletedExisted ==
  ASSUME NEW m \in Seq(Envelope), Legal(m), NEW id, NEW k \in 0..Len(m)
  PROVE  LoadProject(SubSeq(m, 1, k), id).deleted => LoadProject(SubSeq(m, 1, k), id).exists
<1>1. PICK h : LoadRun(h, m, id)
  BY LoadRuns
<1>2. PICK n \in Nat : n = Len(m)
  BY LenProperties
<1>3. \A j \in 0..n : h[j] = LoadProject(SubSeq(m, 1, j), id)
  BY <1>1, <1>2, LoadRunIs
<1> DEFINE S == {j \in 0..n : h[j].deleted => h[j].exists}
<1>4. 0 \in S
  BY <1>1, <1>2 DEF LoadRun, Fresh
<1>5. ASSUME NEW j \in 1..n, j - 1 \in S PROVE j \in S
  <2>1. j - 1 \in 0..n /\ j \in 1..Len(m)
    BY <1>2
  <2>2. h[j - 1] \in Aggregates
    BY <1>1, <1>2, <2>1 DEF LoadRun
  <2>3. CASE m[j].stream # id
    BY <1>1, <1>2, <1>5, <2>3 DEF LoadRun
  <2>4. CASE m[j].stream = id
    <3>1. PICK p \in Aggregates, e \in DomainEvent : p = h[j - 1] /\ e = m[j].event
      BY <2>1, <2>2, EnvelopeAt
    <3>2. h[j] = Apply(p, e)
      BY <1>1, <2>1, <2>4, <3>1 DEF LoadRun
    <3>3. Sensible(p, e)
      BY <1>3, <2>1, <2>4, <3>1 DEF Legal
    <3>4. Applied(p, e, Apply(p, e))
      BY ApplyIs
    <3>5. e.kind = "deleted" => p.exists
      BY <3>3 DEF Sensible, Live
    <3> QED  BY <1>2, <1>5, <3>1, <3>2, <3>4, <3>5 DEF Applied
  <2> QED  BY <2>3, <2>4
<1>6. \A j \in 0..n : j \in S
  <2> HIDE DEF S
  <2> QED  BY <1>4, <1>5, UpTo
<1> QED
  BY <1>2, <1>3, <1>6

\* The read model rebuilt from a legal log shows every project.
LEMMA ProjectionMirrors ==
  ASSUME NEW m \in Seq(Envelope), Legal(m), NEW id \in ProjectID
  PROVE  Mirrors(Projection(m)[id], LoadProject(m, id))
<1>1. PICK g : ProjectionRun(g, m) /\ Projection(m) = g[Len(m)]
  BY ProjectionRuns
<1>2. PICK h : LoadRun(h, m, id)
  BY LoadRuns
<1>3. PICK n \in Nat : n = Len(m)
  BY LenProperties
<1>4. (\A j \in 0..n : h[j] = LoadProject(SubSeq(m, 1, j), id)) /\ h[n] = LoadProject(m, id)
  BY <1>2, <1>3, LoadRunIs
<1> DEFINE S == {j \in 0..n : Mirrors(g[j][id], h[j])}
<1>5. 0 \in S
  <2>1. g[0][id] = Absent /\ h[0] = Fresh
    BY <1>1, <1>2 DEF ProjectionRun, LoadRun, NoViews
  <2> QED  BY <1>3, <2>1, MirrorsFresh
<1>6. ASSUME NEW j \in 1..n, j - 1 \in S PROVE j \in S
  <2>1. j - 1 \in 0..n /\ j \in 1..Len(m)
    BY <1>3
  <2>2. PICK views \in [ProjectID -> Views], p \in Aggregates, env \in Envelope :
          views = g[j - 1] /\ p = h[j - 1] /\ env = m[j]
    BY <1>1, <1>2, <1>3, <2>1, EnvelopeAt DEF ProjectionRun, LoadRun
  <2>3. PICK v \in Views : v = views[id]
    BY <2>2
  <2>4. Mirrors(v, p)
    BY <1>6, <2>2, <2>3
  <2>5. g[j] = Shown(views, env)
    BY <1>1, <2>1, <2>2 DEF ProjectionRun
  <2>6. g[j][id] = IF id = env.stream THEN Project(v, env.event) ELSE v
    BY <2>3, <2>5, ShownIs
  <2>7. h[j] = IF id = env.stream THEN Apply(p, env.event) ELSE p
    BY <1>2, <2>1, <2>2 DEF LoadRun
  <2>8. CASE id # env.stream
    BY <2>4, <2>6, <2>7, <2>8
  <2>9. CASE id = env.stream
    <3>1. PICK e \in DomainEvent : e = env.event
      BY DEF Envelope
    <3>2. Sensible(p, e)
      BY <1>4, <2>1, <2>2, <2>9, <3>1 DEF Legal
    <3>3. p.deleted => p.exists
      BY <1>3, <1>4, <2>1, <2>2, DeletedExisted
    <3>4. Mirrors(Project(v, e), Apply(p, e))
      BY <2>4, <3>2, <3>3, MirrorsNext
    <3> QED  BY <2>6, <2>7, <2>9, <3>1, <3>4
  <2> QED  BY <2>8, <2>9
<1>7. \A j \in 0..n : j \in S
  <2> HIDE DEF S
  <2> QED  BY <1>5, <1>6, UpTo
<1> QED
  BY <1>1, <1>3, <1>4, <1>7

-----------------------------------------------------------------------------
(* Versions.                                                               *)

\* The versions of a log count up from 1 in every stream.
Sound(m) == Store!Monotone(m) /\ \A i \in 1..Len(m) : m[i].version >= 1

\* Envelopes_proofs is about the operators of the store.
LEMMA SameVersions ==
  /\ Versions!Envelope = Envelope
  /\ \A m, id : Versions!LastVersion(m, id) = Store!LastVersion(m, id)
  /\ \A m, id : Versions!PositionsOf(m, id) = Store!PositionsOf(m, id)
  /\ \A m : Versions!Monotone(m) <=> Store!Monotone(m)
BY DEF Versions!Envelope, Envelope, Versions!LastVersion, Store!LastVersion,
       Versions!PositionsOf, Store!PositionsOf, Versions!Monotone, Store!Monotone

\* The last version of a stream is a number,
LEMMA VersionType ==
  ASSUME NEW m \in Seq(Envelope), NEW id
  PROVE  Store!LastVersion(m, id) \in Nat
BY SameVersions, Versions!LastVersionType

\* and the highest of its envelopes.
LEMMA VersionHighest ==
  ASSUME NEW m \in Seq(Envelope), Sound(m), NEW i \in 1..Len(m)
  PROVE  m[i].version <= Store!LastVersion(m, m[i].stream)
BY SameVersions, Versions!LastVersionHighest DEF Sound

\* The batch a list of events is recorded as.
BatchOf(b, id, v, events) ==
  /\ b \in Seq(Envelope) /\ Len(b) = Len(events)
  /\ \A j \in 1..Len(b) : b[j].stream = id /\ b[j].version = v + j /\ b[j].event = events[j]

\* Versioned makes a batch of a list of events,
LEMMA BatchIs ==
  ASSUME NEW id \in ProjectID, NEW v \in Nat, NEW events \in Seq(DomainEvent)
  PROVE  BatchOf(Store!Versioned(id, v, events), id, v, events)
<1>1. PICK n \in Nat : n = Len(events)
  BY LenProperties
<1>2. PICK b : b = Store!Versioned(id, v, events)
  OBVIOUS
<1>3. b = [i \in 1..n |-> [stream |-> id, version |-> v + i, event |-> events[i]]]
  BY <1>1, <1>2 DEF Store!Versioned
<1>4. \A i \in 1..n : events[i] \in DomainEvent
  BY <1>1, ElementOfSeq
<1>5. b \in [1..n -> Envelope]
  BY <1>3, <1>4 DEF Envelope
<1>6. b \in Seq(Envelope) /\ Len(b) = n
  BY <1>1, <1>5
<1> QED
  BY <1>1, <1>2, <1>3, <1>6 DEF BatchOf

\* which records the events in their order.
LEMMA BatchRecords ==
  ASSUME NEW b, NEW id, NEW v, NEW events, BatchOf(b, id, v, events)
  PROVE  Records(b, id, events)
BY DEF BatchOf, Records

\* The last versions after a batch is appended.
LEMMA LastAfter ==
  ASSUME NEW m \in Seq(Envelope), NEW id \in ProjectID, NEW b, NEW v \in Nat, NEW events,
         BatchOf(b, id, v, events), b # <<>>
  PROVE  /\ Store!LastVersion(m \o b, id) = v + Len(b)
         /\ \A s : s # id => Store!LastVersion(m \o b, s) = Store!LastVersion(m, s)
<1>1. b \in Seq(Versions!Envelope) /\ m \in Seq(Versions!Envelope)
  BY SameVersions DEF BatchOf
<1>2. \A i \in 1..Len(b) : b[i].stream = id /\ b[i].version = v + i
  BY DEF BatchOf
<1>3. PICK c : c = m \o b
  OBVIOUS
<1>4. /\ Versions!LastVersion(c, id) = v + Len(b)
      /\ \A s : s # id => Versions!LastVersion(c, s) = Versions!LastVersion(m, s)
  BY <1>1, <1>2, <1>3, Versions!LastVersionOfConcat
<1> QED
  BY <1>3, <1>4, SameVersions

\* A batch that continues the versions of its stream keeps them in order,
LEMMA SoundConcat ==
  ASSUME NEW m \in Seq(Envelope), Sound(m), NEW id \in ProjectID, NEW b, NEW events,
         NEW v, v = Store!LastVersion(m, id), BatchOf(b, id, v, events)
  PROVE  Sound(m \o b)
<1>1. b \in Seq(Envelope) /\ v \in Nat
  BY VersionType DEF BatchOf
<1>2. PICK c \in Seq(Envelope) : c = m \o b
  BY <1>1, ConcatIs
<1>3. PICK n \in Nat, l \in Nat : n = Len(m) /\ l = Len(b)
  BY <1>1, LenProperties
<1>4. /\ Len(c) = n + l
      /\ \A i \in 1..n : c[i] = m[i]
      /\ \A j \in 1..l : c[n + j] = b[j]
  BY <1>1, <1>2, <1>3, ConcatIs
<1>5. ASSUME NEW k \in 1..Len(c), ~ (k <= n)
      PROVE  c[k].stream = id /\ c[k].version = v + (k - n) /\ k - n >= 1
  <2>1. k - n \in 1..l /\ k = n + (k - n)
    BY <1>3, <1>4, <1>5
  <2>2. c[k] = b[k - n]
    BY <1>4, <2>1
  <2> QED  BY <1>3, <2>1, <2>2 DEF BatchOf
<1>6. ASSUME NEW k \in 1..Len(c), k <= n
      PROVE  /\ k \in 1..n /\ c[k] = m[k] /\ c[k].version \in Nat /\ c[k].version >= 1
             /\ c[k].stream = id => c[k].version <= v
  <2>1. k \in 1..n /\ c[k] = m[k]
    BY <1>3, <1>4, <1>6
  <2>2. c[k].version \in Nat /\ c[k].version >= 1
    BY <1>3, <2>1, EnvelopeAt DEF Sound
  <2>3. c[k].stream = id => c[k].version <= v
    BY <1>3, <2>1, VersionHighest
  <2> QED  BY <2>1, <2>2, <2>3
<1>7. Store!Monotone(c)
  <2> SUFFICES ASSUME NEW i \in 1..Len(c), NEW j \in 1..Len(c), i < j,
                      c[i].stream = c[j].stream
               PROVE  c[i].version < c[j].version
    BY DEF Store!Monotone
  <2>1. CASE j <= n
    <3>1. i <= n
      BY <1>3, <1>4, <2>1
    <3>2. i \in 1..n /\ j \in 1..n /\ c[i] = m[i] /\ c[j] = m[j]
      BY <1>6, <2>1, <3>1
    <3> QED  BY <1>3, <3>2 DEF Sound, Store!Monotone
  <2>2. CASE i <= n /\ ~ (j <= n)
    <3>1. c[j].stream = id /\ c[j].version = v + (j - n) /\ j - n >= 1
      BY <1>5, <2>2
    <3>2. c[i].version <= v /\ c[i].version \in Nat
      BY <1>6, <2>2, <3>1
    <3> QED  BY <1>1, <1>3, <3>1, <3>2
  <2>3. CASE ~ (i <= n)
    <3>1. ~ (j <= n)
      BY <1>3, <1>4, <2>3
    <3>2. c[i].version = v + (i - n) /\ c[j].version = v + (j - n)
      BY <1>5, <2>3, <3>1
    <3> QED  BY <1>1, <1>3, <3>2
  <2> QED  BY <2>1, <2>2, <2>3
<1>8. \A k \in 1..Len(c) : c[k].version >= 1
  <2> TAKE k \in 1..Len(c)
  <2>1. CASE k <= n
    BY <1>6, <2>1
  <2>2. CASE ~ (k <= n)
    BY <1>1, <1>3, <1>5, <2>2
  <2> QED  BY <2>1, <2>2
<1> QED
  BY <1>2, <1>7, <1>8 DEF Sound

\* and cutting the end of the log off does, too.
LEMMA SoundPrefix ==
  ASSUME NEW m \in Seq(Envelope), Sound(m), NEW k \in 0..Len(m)
  PROVE  Sound(SubSeq(m, 1, k))
<1>1. PICK q \in Seq(Envelope) : q = SubSeq(m, 1, k)
  BY PrefixIs
<1>2. Len(q) = k /\ \A j \in 1..k : q[j] = m[j] /\ j \in 1..Len(m)
  BY <1>1, PrefixIs, LenProperties
<1> QED
  BY <1>1, <1>2 DEF Sound, Store!Monotone

\* No envelope of a new batch is in the log.
LEMMA BatchIsNew ==
  ASSUME NEW m \in Seq(Envelope), Sound(m), NEW id \in ProjectID, NEW b, NEW events,
         NEW v, v = Store!LastVersion(m, id), BatchOf(b, id, v, events)
  PROVE  \A i \in 1..Len(m), j \in 1..Len(b) : m[i] # b[j]
<1> SUFFICES ASSUME NEW i \in 1..Len(m), NEW j \in 1..Len(b), m[i] = b[j] PROVE FALSE
  OBVIOUS
<1>1. v \in Nat /\ m[i].version \in Nat
  BY VersionType, EnvelopeAt
<1>2. m[i].stream = id /\ m[i].version = v + j
  BY DEF BatchOf
<1>3. m[i].version <= v
  BY <1>2, VersionHighest
<1> QED
  BY <1>1, <1>2, <1>3

\* A project whose last version is 0 has no envelope.
LEMMA NoneYet ==
  ASSUME NEW m \in Seq(Envelope), Sound(m), NEW id, Store!LastVersion(m, id) = 0
  PROVE  LoadProject(m, id) = Fresh
<1> PICK none : none = {}
  OBVIOUS
<1>1. \A k \in 1..Len(m) : m[k].stream # id
  <2> SUFFICES ASSUME NEW k \in 1..Len(m), m[k].stream = id PROVE FALSE
    OBVIOUS
  <2>1. m[k].version <= 0 /\ m[k].version \in Nat /\ m[k].version >= 1
    BY VersionHighest, EnvelopeAt DEF Sound
  <2> QED  BY <2>1
<1>2. Rebuilt(m, id, none) = Fresh
  BY <1>1, RebuiltOfNone
<1> QED
  BY <1>2 DEF LoadProject

-----------------------------------------------------------------------------
(* Requests.                                                               *)

\* What may be left of a request after its first command.
Seconds == {Describe(d) : d \in Texts}
Rests == {<<>>} \cup {<<c>> : c \in Seconds}

Requests ==
  {Idle}
    \cup [at : {"decided"}, id : ProjectID, expected : Nat,
          events : Seq(DomainEvent), rest : Rests]
    \cup [at : {"publish"}, id : ProjectID, rest : Rests, queue : Seq(Envelope) \ {<<>>}]
    \cup [at : {"again"}, id : ProjectID, cmd : Seconds]

\* The forms of a request.
LEMMA RequestForms ==
  ASSUME NEW r \in Requests
  PROVE  \/ r = Idle /\ r.at = "idle"
         \/ /\ r.at = "decided" /\ r.id \in ProjectID /\ r.expected \in Nat
            /\ r.events \in Seq(DomainEvent) /\ r.rest \in Rests
         \/ /\ r.at = "publish" /\ r.id \in ProjectID /\ r.rest \in Rests
            /\ r.queue \in Seq(Envelope) /\ r.queue # <<>>
            /\ r = [at |-> "publish", id |-> r.id, rest |-> r.rest, queue |-> r.queue]
         \/ r.at = "again" /\ r.id \in ProjectID /\ r.cmd \in Seconds
BY DEF Requests, Idle

\* Every step of a request leads to one of these forms.
LEMMA RequestsAre ==
  /\ Idle \in Requests /\ Idle.at = "idle"
  /\ \A id \in ProjectID, rest \in Rests, v \in Nat, events \in Seq(DomainEvent) :
       [at |-> "decided", id |-> id, expected |-> v, events |-> events, rest |-> rest]
         \in Requests
  /\ \A id \in ProjectID, rest \in Rests, queue \in Seq(Envelope) : queue # <<>> =>
       [at |-> "publish", id |-> id, rest |-> rest, queue |-> queue] \in Requests
  /\ \A id \in ProjectID, cmd \in Seconds :
       [at |-> "again", id |-> id, cmd |-> cmd] \in Requests
BY DEF Requests, Idle

\* The second command of a PATCH is a command.
LEMMA SecondsAre ==
  /\ Seconds \subseteq Commands
  /\ <<>> \in Rests
  /\ \A cmd \in Commands : FollowUps(cmd) \subseteq Rests
  /\ \A rest \in Rests : rest # <<>> => Head(rest) \in Seconds
<1>1. Seconds \subseteq Commands
  BY DEF Seconds, Commands, Describe
<1>2. \A cmd \in Commands : FollowUps(cmd) \subseteq Rests
  BY DEF FollowUps, Rests, Seconds
<1> QED
  BY <1>1, <1>2 DEF Rests

-----------------------------------------------------------------------------
(* The history.                                                            *)

Typed ==
  /\ log \in Seq(Envelope)
  /\ safe \in 0..Len(log)
  /\ up \in BOOLEAN
  /\ view \in [ProjectID -> Views]
  /\ request \in [Worker -> Requests]
  /\ overtaken \in SUBSET ProjectID

\* The events of a request continue the project, unless it has changed since it
\* was loaded; then the version the request expects is behind.
Decision(r, m) ==
  r.at = "decided" =>
    /\ r.expected <= Store!LastVersion(m, r.id)
    /\ r.expected = Store!LastVersion(m, r.id) => Continues(LoadProject(m, r.id), r.events)

\* The invariant of the history.
HInv ==
  /\ Typed
  /\ Sound(log)
  /\ Legal(log)
  /\ \A w \in Worker : Decision(request[w], log)
  /\ up = FALSE => \A w \in Worker : request[w] = Idle

\* At the start there is no event and no request.
LEMMA Starts == Init => HInv
<1> SUFFICES ASSUME Init PROVE HInv
  OBVIOUS
<1>1. log = <<>> /\ safe = 0 /\ up = TRUE /\ view = NoViews /\ overtaken = {}
      /\ request = [w \in Worker |-> Idle]
  BY DEF Init, Store!Init
<1>2. log \in Seq(Envelope) /\ Len(log) = 0
  BY <1>1, EmptySeq
<1>3. request \in [Worker -> Requests]
  BY <1>1, RequestsAre
<1>4. Typed
  BY <1>1, <1>2, <1>3, NoViewsType DEF Typed
<1>5. Sound(log) /\ Legal(log)
  BY <1>2 DEF Sound, Store!Monotone, Legal
<1>6. \A w \in Worker : Decision(request[w], log)
  BY <1>1, RequestsAre DEF Decision
<1> QED
  BY <1>1, <1>4, <1>5, <1>6 DEF HInv

\* A step that changes one request and leaves the store alone.
LEMMA OneRequest ==
  ASSUME HInv, NEW w \in Worker, NEW r \in Requests, Decision(r, log), up \/ r = Idle,
         request' = [request EXCEPT ![w] = r], UNCHANGED store,
         view' \in [ProjectID -> Views], overtaken' \in SUBSET ProjectID
  PROVE  HInv'
<1>1. log' = log /\ safe' = safe /\ up' = up
  BY DEF store
<1>2. request \in [Worker -> Requests]
  BY DEF HInv, Typed
<1>3. request' \in [Worker -> Requests]
      /\ request'[w] = r /\ \A x \in Worker : x # w => request'[x] = request[x]
  BY <1>2
<1>4. Typed'
  BY <1>1, <1>3 DEF HInv, Typed
<1>5. Sound(log)' /\ Legal(log)'
  BY <1>1 DEF HInv, Sound, Store!Monotone, Legal
<1>6. ASSUME NEW x \in Worker PROVE Decision(request[x], log)'
  <2>1. Decision(request'[x], log)
    BY <1>3 DEF HInv
  <2> QED  BY <1>1, <2>1 DEF Decision, Store!LastVersion, Store!PositionsOf
<1>7. ASSUME up' = FALSE, NEW x \in Worker PROVE request'[x] = Idle
  BY <1>1, <1>3, <1>7 DEF HInv
<1> QED
  BY <1>4, <1>5, <1>6, <1>7 DEF HInv

\* A decision.
LEMMA DecideIs ==
  ASSUME HInv, NEW w \in Worker, NEW id \in ProjectID, NEW cmd \in Commands,
         NEW rest \in Rests, Decide(w, id, cmd, rest)
  PROVE  \E r \in Requests :
           /\ r.at = "decided" /\ Decision(r, log)
           /\ request' = [request EXCEPT ![w] = r]
           /\ UNCHANGED <<store, view, overtaken>>
<1>1. log \in Seq(Envelope) /\ Sound(log)
  BY DEF HInv, Typed
<1>2. PICK p \in Aggregates : p = LoadProject(log, id)
  BY <1>1, LoadType
<1>3. PICK v \in Nat : v = Store!LastVersion(log, id)
  BY <1>1, VersionType
<1>4. PICK events : events = Emits(p, cmd)
  OBVIOUS
<1>5. PICK x \in Nat : x = ExpectedVersion(id, cmd)
  BY <1>3 DEF ExpectedVersion
<1>6. Accepts(p, cmd)
  BY <1>2 DEF Decide
<1>7. /\ events \in Seq(DomainEvent)
      /\ (cmd.op = "create" => ~p.exists) => Continues(p, events)
  BY <1>4, <1>6, EmitsContinue
<1>8. x <= v /\ (x = v => Continues(p, events))
  <2>1. CASE cmd.op = "create"
    <3>1. x = 0
      BY <1>5, <2>1 DEF ExpectedVersion
    <3>2. v = 0 => ~p.exists
      <4> SUFFICES ASSUME v = 0 PROVE ~p.exists
        OBVIOUS
      <4>1. Store!LastVersion(log, id) = 0
        BY <1>3
      <4>2. LoadProject(log, id) = Fresh
        BY <1>1, <4>1, NoneYet
      <4>3. p = Fresh
        BY <1>2, <4>2
      <4> QED  BY <4>3 DEF Fresh
    <3> QED  BY <1>3, <1>7, <3>1, <3>2
  <2>2. CASE cmd.op # "create"
    BY <1>3, <1>5, <1>7, <2>2 DEF ExpectedVersion
  <2> QED  BY <2>1, <2>2
<1>9. PICK r : r = [at |-> "decided", id |-> id, expected |-> x, events |-> events,
                    rest |-> rest]
  OBVIOUS
<1>10. r \in Requests
  BY <1>7, <1>9, RequestsAre
<1>11. Decision(r, log)
  BY <1>2, <1>3, <1>8, <1>9 DEF Decision
<1>12. request' = [request EXCEPT ![w] = r] /\ UNCHANGED <<store, view, overtaken>>
  BY <1>2, <1>4, <1>5, <1>9 DEF Decide
<1> QED
  BY <1>9, <1>10, <1>11, <1>12

\* The end of a request, or of its first command.
LEMMA DoneIs ==
  ASSUME NEW w \in Worker, request \in [Worker -> Requests],
         request[w].at \in {"decided", "publish"}, Done(w)
  PROVE  \E r \in Requests :
           r.at \in {"idle", "again"} /\ request' = [request EXCEPT ![w] = r]
<1>1. PICK q \in Requests : q = request[w]
  OBVIOUS
<1>2. q.id \in ProjectID /\ q.rest \in Rests
  BY <1>1, RequestForms
<1>3. CASE q.rest = <<>>
  <2>1. request' = [request EXCEPT ![w] = Idle]
    BY <1>1, <1>3 DEF Done
  <2> QED  BY <2>1, RequestsAre
<1>4. CASE q.rest # <<>>
  <2>1. PICK r : r = [at |-> "again", id |-> q.id, cmd |-> Head(q.rest)]
    OBVIOUS
  <2>2. request' = [request EXCEPT ![w] = r]
    BY <1>1, <1>4, <2>1 DEF Done
  <2>3. r \in Requests
    BY <1>2, <1>4, <2>1, SecondsAre, RequestsAre
  <2> QED  BY <2>1, <2>2, <2>3
<1> QED
  BY <1>3, <1>4

\* The envelopes a request has not published.
Unsent(r) == IF r.at = "publish" THEN ToSet(r.queue) ELSE {}

\* The envelopes a request has stored and not published.
LEMMA UnsentIs ==
  ASSUME NEW r \in Requests
  PROVE  /\ Unsent(r) \in SUBSET Envelope
         /\ \A e : e \in Unsent(r) <=>
              r.at = "publish" /\ \E k \in 1..Len(r.queue) : e = r.queue[k]
<1>1. CASE r.at = "publish"
  <2>1. PICK q \in Seq(Envelope) : q = r.queue
    BY <1>1, RequestForms
  <2>2. DOMAIN q = 1..Len(q) /\ \A k \in 1..Len(q) : q[k] \in Envelope
    BY <2>1, LenProperties, ElementOfSeq
  <2>3. ToSet(q) = {q[k] : k \in 1..Len(q)}
    BY <2>2 DEF ToSet
  <2> QED  BY <1>1, <2>1, <2>2, <2>3 DEF Unsent
<1>2. CASE r.at # "publish"
  BY <1>2 DEF Unsent
<1> QED
  BY <1>1, <1>2

\* The envelopes all requests have stored and not published.
LEMMA UnpublishedIs ==
  ASSUME request \in [Worker -> Requests]
  PROVE  /\ Unpublished \in SUBSET Envelope
         /\ \A e : e \in Unpublished <=> \E w \in Worker : e \in Unsent(request[w])
<1>1. Unpublished = UNION {Unsent(request[w]) : w \in Worker}
  BY DEF Unpublished, Unsent
<1>2. \A w \in Worker : Unsent(request[w]) \in SUBSET Envelope
  BY UnsentIs
<1> QED
  BY <1>1, <1>2

\* A publication: the first envelope of a queue.
LEMMA PublishIs ==
  ASSUME Typed, NEW w \in Worker, Publish(w)
  PROVE  \E env \in Envelope, r \in Requests, q \in Requests :
           /\ q = request[w] /\ q.at = "publish" /\ q.queue # <<>>
           /\ env = Head(q.queue)
           /\ request' = [request EXCEPT ![w] = r]
           /\ r.at # "decided"
           /\ r.at = "publish" => r.queue = Tail(q.queue)
           /\ r.at # "publish" => Tail(q.queue) = <<>>
           /\ view' = Shown(view, env)
           /\ overtaken' = overtaken \cup
                {e.stream : e \in {f \in Unpublished :
                            f.stream = env.stream /\ f.version < env.version}}
           /\ UNCHANGED store
<1>1. request \in [Worker -> Requests]
  BY DEF Typed
<1>2. PICK q \in Requests : q = request[w]
  BY <1>1
<1>3. q.at = "publish"
  BY <1>2 DEF Publish
<1>4. /\ q.id \in ProjectID /\ q.rest \in Rests
      /\ q.queue \in Seq(Envelope) /\ q.queue # <<>>
      /\ q = [at |-> "publish", id |-> q.id, rest |-> q.rest, queue |-> q.queue]
  BY <1>3, RequestForms
<1>5. PICK s \in Seq(Envelope) : s = q.queue /\ s # <<>>
  BY <1>4
<1>6. PICK env \in Envelope, left \in Seq(Envelope) : env = Head(s) /\ left = Tail(s)
  BY <1>5, HeadTailProperties
<1>7. /\ view' = Shown(view, env)
      /\ overtaken' = overtaken \cup
           {e.stream : e \in {f \in Unpublished :
                       f.stream = env.stream /\ f.version < env.version}}
      /\ UNCHANGED store
  BY <1>2, <1>5, <1>6 DEF Publish
<1>8. \E r \in Requests : /\ request' = [request EXCEPT ![w] = r]
                          /\ r.at # "decided"
                          /\ r.at = "publish" => r.queue = left
                          /\ r.at # "publish" => left = <<>>
  <2>1. CASE left = <<>>
    <3>1. Done(w)
      BY <1>2, <1>5, <1>6, <2>1 DEF Publish
    <3>2. PICK r \in Requests :
            r.at \in {"idle", "again"} /\ request' = [request EXCEPT ![w] = r]
      BY <1>1, <1>2, <1>3, <3>1, DoneIs
    <3> QED  BY <2>1, <3>2
  <2>2. CASE left # <<>>
    <3>1. request' = [request EXCEPT ![w].queue = left]
      BY <1>2, <1>5, <1>6, <2>2 DEF Publish
    <3>2. PICK r : r = [at |-> "publish", id |-> q.id, rest |-> q.rest, queue |-> left]
      OBVIOUS
    <3>3. r \in Requests /\ r.at = "publish" /\ r.queue = left
      BY <1>4, <1>6, <2>2, <3>2, RequestsAre
    <3>4. [q EXCEPT !.queue = left] = r
      BY <1>4, <3>2
    <3>5. request' = [request EXCEPT ![w] = r]
      BY <1>2, <3>1, <3>4
    <3> QED  BY <3>3, <3>5
  <2> QED  BY <2>1, <2>2
<1> QED
  BY <1>2, <1>3, <1>4, <1>5, <1>6, <1>7, <1>8

\* A log that an append takes on.
LEMMA AppendSteps ==
  ASSUME NEW m \in Seq(Envelope), Sound(m), Legal(m), NEW id \in ProjectID,
         NEW events \in Seq(DomainEvent), Continues(LoadProject(m, id), events),
         NEW b, b = Store!Versioned(id, Store!LastVersion(m, id), events)
  PROVE  /\ BatchOf(b, id, Store!LastVersion(m, id), events)
         /\ m \o b \in Seq(Envelope) /\ Sound(m \o b) /\ Legal(m \o b)
<1>1. PICK v \in Nat : v = Store!LastVersion(m, id)
  BY VersionType
<1>2. BatchOf(b, id, v, events)
  BY <1>1, BatchIs
<1>3. b \in Seq(Envelope)
  BY <1>2 DEF BatchOf
<1>4. Records(b, id, events)
  BY <1>2, BatchRecords
<1>5. m \o b \in Seq(Envelope)
  BY <1>3, ConcatIs
<1>6. Sound(m \o b)
  BY <1>1, <1>2, SoundConcat
<1>7. Legal(m \o b)
  <2>1. PICK p : p = LoadProject(m, id)
    OBVIOUS
  <2> QED  BY <1>3, <1>4, <2>1, LegalConcat
<1> QED
  BY <1>1, <1>2, <1>5, <1>6, <1>7

\* Part of a batch behind a log is part of the log with the whole batch.
LEMMA PartOfBatch ==
  ASSUME NEW m \in Seq(Envelope), NEW b \in Seq(Envelope), NEW k \in 0..Len(b)
  PROVE  m \o SubSeq(b, 1, k) = SubSeq(m \o b, 1, Len(m) + k)
<1>1. PICK n \in Nat, l \in Nat : n = Len(m) /\ l = Len(b)
  BY LenProperties
<1>2. PICK c \in Seq(Envelope) : c = m \o b
  BY ConcatIs
<1>3. PICK part \in Seq(Envelope) : part = SubSeq(b, 1, k)
  BY PrefixIs
<1>4. Len(part) = k /\ \A j \in 1..k : part[j] = b[j]
  BY <1>3, PrefixIs
<1>5. /\ Len(c) = n + l
      /\ \A i \in 1..n : c[i] = m[i]
      /\ \A j \in 1..l : c[n + j] = b[j]
  BY <1>1, <1>2, ConcatIs
<1>6. PICK d \in Seq(Envelope) : d = m \o part
  BY ConcatIs
<1>7. /\ Len(d) = n + k
      /\ \A i \in 1..n : d[i] = m[i]
      /\ \A j \in 1..k : d[n + j] = part[j]
  <2>1. PICK u \in Nat : u = Len(part)
    BY LenProperties
  <2>2. /\ Len(d) = n + u
        /\ \A i \in 1..n : d[i] = m[i]
        /\ \A j \in 1..u : d[n + j] = part[j]
    BY <1>1, <1>6, <2>1, ConcatIs
  <2> QED  BY <1>4, <2>1, <2>2
<1>8. PICK x \in 0..Len(c) : x = n + k
  BY <1>1, <1>5
<1>9. PICK e \in Seq(Envelope) : e = SubSeq(c, 1, x)
  BY <1>8, PrefixIs
<1>10. Len(e) = x /\ \A j \in 1..x : e[j] = c[j]
  BY <1>8, <1>9, PrefixIs
<1>11. \A i \in 1..x : d[i] = e[i]
  <2> TAKE i \in 1..x
  <2>1. CASE i <= n
    <3>1. i \in 1..n
      BY <1>1, <1>8, <2>1
    <3> QED  BY <1>5, <1>7, <1>10, <3>1
  <2>2. CASE ~ (i <= n)
    <3>1. PICK j \in 1..k : i = n + j
      <4>1. i - n \in 1..k /\ i = n + (i - n)
        BY <1>1, <1>8, <2>2
      <4> QED  BY <4>1
    <3>2. j \in 1..l
      BY <1>1, <3>1
    <3> QED  BY <1>4, <1>5, <1>7, <1>10, <3>1, <3>2
  <2> QED  BY <2>1, <2>2
<1>12. d = e
  BY <1>7, <1>8, <1>10, <1>11, SeqEqual
<1> QED
  BY <1>1, <1>2, <1>3, <1>6, <1>8, <1>9, <1>12

\* The state after a crash, or after a restart.
LEMMA AllIdle ==
  ASSUME HInv, log' \in Seq(Envelope), safe' \in 0..Len(log'), up' \in BOOLEAN,
         Sound(log)', Legal(log)', view' \in [ProjectID -> Views],
         overtaken' \in SUBSET ProjectID, request' \in [Worker -> Requests],
         \A w \in Worker : request'[w] = Idle
  PROVE  HInv'
<1>1. Typed'
  BY DEF Typed
<1>2. \A w \in Worker : Decision(request[w], log)'
  BY RequestsAre DEF Decision
<1> QED
  BY <1>1, <1>2 DEF HInv

\* An append: the new log, and the decisions of the other requests.
LEMMA CommitIs ==
  ASSUME HInv, NEW w \in Worker, CommitAppend(w)
  PROVE  \E q \in Requests, r \in Requests, b \in Seq(Envelope) :
           /\ up /\ up' = up
           /\ q = request[w] /\ q.at = "decided"
           /\ b # <<>> /\ b = Store!Versioned(q.id, q.expected, q.events)
           /\ q.expected = Store!LastVersion(log, q.id)
           /\ BatchOf(b, q.id, q.expected, q.events)
           /\ Continues(LoadProject(log, q.id), q.events)
           /\ log' = log \o b /\ safe' = Len(log')
           /\ r.at = "publish" /\ r.queue = b
           /\ request' = [request EXCEPT ![w] = r]
           /\ UNCHANGED <<view, overtaken>>
<1>1. PICK q \in Requests : q = request[w]
  BY DEF HInv, Typed
<1>2. q.at = "decided" /\ q.events # <<>>
  BY <1>1 DEF CommitAppend
<1>3. /\ q.id \in ProjectID /\ q.expected \in Nat
      /\ q.events \in Seq(DomainEvent) /\ q.rest \in Rests
  BY <1>2, RequestForms
<1>4. PICK id \in ProjectID, v \in Nat, events \in Seq(DomainEvent), rest \in Rests :
        id = q.id /\ v = q.expected /\ events = q.events /\ rest = q.rest
  BY <1>3
<1>5. PICK b : b = Store!Versioned(id, v, events)
  OBVIOUS
<1>6. /\ up /\ up' = up
      /\ v = Store!LastVersion(log, id)
      /\ log' = log \o b /\ safe' = Len(log')
      /\ request' = [request EXCEPT ![w] = [at |-> "publish", id |-> id, rest |-> rest,
                                            queue |-> b]]
      /\ UNCHANGED <<view, overtaken>>
  BY <1>1, <1>4, <1>5 DEF CommitAppend, Store!AppendBatch
<1>7. BatchOf(b, id, v, events)
  BY <1>5, BatchIs
<1>8. b \in Seq(Envelope) /\ b # <<>>
  <2>1. events # <<>> /\ Len(events) # 0
    BY <1>2, <1>4, EmptySeq
  <2> QED  BY <1>7, <2>1, EmptySeq DEF BatchOf
<1>9. PICK r : r = [at |-> "publish", id |-> id, rest |-> rest, queue |-> b]
  OBVIOUS
<1>10. r \in Requests /\ r.at = "publish" /\ r.queue = b
  BY <1>8, <1>9, RequestsAre
<1>11. Continues(LoadProject(log, id), events)
  <2>1. Decision(q, log)
    BY <1>1 DEF HInv
  <2> QED  BY <1>2, <1>4, <1>6, <2>1 DEF Decision
<1>12. request' = [request EXCEPT ![w] = r]
  BY <1>6, <1>9
<1>13. b = Store!Versioned(q.id, q.expected, q.events)
       /\ q.expected = Store!LastVersion(log, q.id)
  BY <1>4, <1>5, <1>6
<1>14. BatchOf(b, q.id, q.expected, q.events) /\ Continues(LoadProject(log, q.id), q.events)
  BY <1>4, <1>7, <1>11
<1> QED
  BY <1>1, <1>2, <1>6, <1>8, <1>10, <1>12, <1>13, <1>14

\* An append keeps the history: the version check lets only a decision that is
\* still up to date through.
LEMMA CommitKeeps ==
  ASSUME HInv, NEW w \in Worker, CommitAppend(w)
  PROVE  HInv'
<1>1. PICK q \in Requests, r \in Requests, b \in Seq(Envelope) :
        /\ up /\ up' = up
        /\ q = request[w] /\ q.at = "decided"
        /\ b # <<>> /\ b = Store!Versioned(q.id, q.expected, q.events)
        /\ q.expected = Store!LastVersion(log, q.id)
        /\ BatchOf(b, q.id, q.expected, q.events)
        /\ Continues(LoadProject(log, q.id), q.events)
        /\ log' = log \o b /\ safe' = Len(log')
        /\ r.at = "publish" /\ r.queue = b
        /\ request' = [request EXCEPT ![w] = r]
        /\ UNCHANGED <<view, overtaken>>
  BY CommitIs
<1>2. PICK id \in ProjectID, v \in Nat, events \in Seq(DomainEvent) :
        id = q.id /\ v = q.expected /\ events = q.events
  BY <1>1, RequestForms
<1>3. PICK m \in Seq(Envelope) : m = log /\ Sound(m) /\ Legal(m)
  BY DEF HInv, Typed
<1>4. v = Store!LastVersion(m, id) /\ BatchOf(b, id, v, events)
      /\ Continues(LoadProject(m, id), events) /\ b = Store!Versioned(id, v, events)
  BY <1>1, <1>2, <1>3
<1>5. m \o b \in Seq(Envelope) /\ Sound(m \o b) /\ Legal(m \o b)
  BY <1>3, <1>4, AppendSteps
<1>6. PICK c \in Seq(Envelope) : c = m \o b /\ log' = c /\ Sound(c) /\ Legal(c)
  BY <1>1, <1>3, <1>5
<1>7. request' \in [Worker -> Requests]
      /\ request'[w] = r /\ \A x \in Worker : x # w => request'[x] = request[x]
  BY <1>1 DEF HInv, Typed
<1>8. Typed'
  <2>1. safe' = Len(c) /\ Len(c) \in 0..Len(c)
    BY <1>1, <1>6, LenProperties
  <2> QED  BY <1>1, <1>6, <1>7, <2>1 DEF HInv, Typed
<1>9. Sound(log)' /\ Legal(log)'
  BY <1>6 DEF Sound, Store!Monotone, Legal
<1>10. Store!LastVersion(c, id) = v + Len(b)
       /\ \A s : s # id => Store!LastVersion(c, s) = Store!LastVersion(m, s)
  BY <1>1, <1>4, <1>6, LastAfter
<1>11. Len(b) \in Nat \ {0}
  BY <1>1, EmptySeq
<1>12. ASSUME NEW x \in Worker PROVE Decision(request'[x], c)
  <2>1. CASE x = w
    BY <1>1, <1>7, <2>1 DEF Decision
  <2>2. CASE x # w
    <3>1. PICK y \in Requests : y = request[x] /\ request'[x] = y
      BY <1>7, <2>2 DEF HInv, Typed
    <3>2. Decision(y, m)
      BY <1>3, <3>1 DEF HInv
    <3>3. CASE y.at # "decided"
      BY <3>1, <3>3 DEF Decision
    <3>4. CASE y.at = "decided"
      <4>1. PICK s \in ProjectID, u \in Nat : s = y.id /\ u = y.expected
        BY <3>4, RequestForms
      <4>2. u <= Store!LastVersion(m, s)
            /\ (u = Store!LastVersion(m, s) => Continues(LoadProject(m, s), y.events))
        BY <3>2, <3>4, <4>1 DEF Decision
      <4>3. CASE s = id
        <5>1. u <= v /\ u < v + Len(b)
          BY <1>4, <1>11, <4>2, <4>3
        <5>2. u <= Store!LastVersion(c, s) /\ u # Store!LastVersion(c, s)
          BY <1>10, <1>11, <4>3, <5>1
        <5> QED  BY <3>1, <4>1, <5>2 DEF Decision
      <4>4. CASE s # id
        <5>1. PICK none : none = {}
          OBVIOUS
        <5>2. \A k \in 1..Len(b) : b[k].stream # s
          BY <1>4, <4>4 DEF BatchOf
        <5>3. Rebuilt(m \o b, s, none) = Rebuilt(m, s, none)
          BY <5>2, RebuiltOfConcat
        <5>4. LoadProject(c, s) = LoadProject(m, s)
          BY <1>6, <5>1, <5>3 DEF LoadProject
        <5>5. Store!LastVersion(c, s) = Store!LastVersion(m, s)
          BY <1>10, <4>4
        <5> QED  BY <3>1, <4>1, <4>2, <5>4, <5>5 DEF Decision
      <4> QED  BY <4>3, <4>4
    <3> QED  BY <3>3, <3>4
  <2> QED  BY <2>1, <2>2
<1>13. \A x \in Worker : Decision(request[x], log)'
  <2> TAKE x \in Worker
  <2>1. Decision(request'[x], c)
    BY <1>12
  <2>2. Decision(request'[x], log')
    BY <1>6, <2>1
  <2> QED  BY <2>2 DEF Decision, Store!LastVersion, Store!PositionsOf
<1> QED
  BY <1>1, <1>8, <1>9, <1>13 DEF HInv

\* The process ends: part of an unfinished batch, or the tail, is lost.
LEMMA CrashKeeps ==
  ASSUME HInv, Crash
  PROVE  HInv'
<1>1. PICK m \in Seq(Envelope) : m = log /\ Sound(m) /\ Legal(m)
  BY DEF HInv, Typed
<1>2. PICK n \in Nat : n = Len(m)
  BY LenProperties
<1>3. /\ view' = NoViews /\ overtaken' = {} /\ request' = [w \in Worker |-> Idle]
      /\ safe \in 0..n
  BY <1>1, <1>2 DEF Crash, HInv, Typed
<1>4. \E c \in Seq(Envelope) :
        log' = c /\ safe' \in 0..Len(c) /\ up' \in BOOLEAN /\ Sound(c) /\ Legal(c)
  <2>1. CASE Store!LoseTail
    <3>1. PICK k \in safe..n : log' = SubSeq(m, 1, k) /\ safe' \in safe..k /\ up' = FALSE
      BY <1>1, <1>2, <2>1 DEF Store!LoseTail
    <3>2. k \in 0..Len(m) /\ safe' \in 0..k
      BY <1>2, <1>3, <3>1
    <3>3. PICK c \in Seq(Envelope) : c = SubSeq(m, 1, k) /\ Len(c) = k
      BY <3>2, PrefixIs
    <3>4. Sound(c) /\ Legal(c)
      BY <1>1, <3>2, <3>3, SoundPrefix, LegalPrefix
    <3> QED  BY <3>1, <3>2, <3>3, <3>4
  <2>2. ASSUME NEW w \in Worker, request[w].at = "decided",
               request[w].expected = Store!LastVersion(log, request[w].id),
               Store!Partial(request[w].id, request[w].events)
        PROVE  \E c \in Seq(Envelope) :
                 log' = c /\ safe' \in 0..Len(c) /\ up' \in BOOLEAN /\ Sound(c) /\ Legal(c)
    <3>1. PICK q \in Requests : q = request[w]
      BY DEF HInv, Typed
    <3>2. PICK id \in ProjectID, events \in Seq(DomainEvent) : id = q.id /\ events = q.events
      BY <2>2, <3>1, RequestForms
    <3>3. PICK v \in Nat : v = Store!LastVersion(m, id)
      BY VersionType
    <3>4. PICK b : b = Store!Versioned(id, v, events)
      OBVIOUS
    <3>5. PICK k \in 1..Len(events) :
            log' = m \o SubSeq(b, 1, k) /\ safe' \in safe..Len(log') /\ up' = FALSE
      BY <1>1, <2>2, <3>1, <3>2, <3>3, <3>4 DEF Store!Partial
    <3>6. Decision(q, m)
      BY <1>1, <3>1 DEF HInv
    <3>7. Continues(LoadProject(m, id), events)
      BY <1>1, <2>2, <3>1, <3>2, <3>6 DEF Decision
    <3>8. b = Store!Versioned(id, Store!LastVersion(m, id), events)
      BY <3>3, <3>4
    <3>9. BatchOf(b, id, v, events) /\ m \o b \in Seq(Envelope)
          /\ Sound(m \o b) /\ Legal(m \o b)
      BY <1>1, <3>3, <3>7, <3>8, AppendSteps
    <3>10. b \in Seq(Envelope) /\ Len(b) = Len(events) /\ Len(b) \in Nat
      BY <3>9, LenProperties DEF BatchOf
    <3>11. PICK d \in Seq(Envelope) : d = m \o b /\ Len(d) = n + Len(b)
                                      /\ Sound(d) /\ Legal(d)
      BY <1>2, <3>9, <3>10, ConcatIs
    <3>12. k \in 0..Len(b) /\ n + k \in 0..Len(d)
      BY <1>2, <3>5, <3>10, <3>11
    <3>13. m \o SubSeq(b, 1, k) = SubSeq(m \o b, 1, Len(m) + k)
      BY <3>10, <3>12, PartOfBatch
    <3>14. log' = SubSeq(d, 1, n + k)
      BY <1>2, <3>5, <3>11, <3>13
    <3>15. PICK x \in 0..Len(d) : x = n + k
      BY <3>12
    <3>16. PICK c \in Seq(Envelope) : c = SubSeq(d, 1, x) /\ Len(c) = x
      BY <3>15, PrefixIs
    <3>17. Sound(c) /\ Legal(c)
      BY <3>11, <3>15, <3>16, SoundPrefix, LegalPrefix
    <3>18. log' = c /\ safe' \in 0..Len(c)
      <4>1. log' = c
        BY <3>14, <3>15, <3>16
      <4>2. safe' \in safe..Len(c)
        BY <3>5, <4>1
      <4>3. safe \in Nat /\ Len(c) \in Nat
        BY <1>3, <3>16, LenProperties
      <4> QED  BY <4>1, <4>2, <4>3
    <3> QED  BY <3>5, <3>17, <3>18
  <2> QED  BY <2>1, <2>2 DEF Crash
<1>5. PICK c \in Seq(Envelope) :
        log' = c /\ safe' \in 0..Len(c) /\ up' \in BOOLEAN /\ Sound(c) /\ Legal(c)
  BY <1>4
<1>6. Sound(log)' /\ Legal(log)'
  BY <1>5 DEF Sound, Store!Monotone, Legal
<1>7. request' \in [Worker -> Requests] /\ \A w \in Worker : request'[w] = Idle
  BY <1>3, RequestsAre
<1> QED
  BY <1>3, <1>5, <1>6, <1>7, NoViewsType, AllIdle

\* The replay shows entries.
LEMMA ProjectionType ==
  ASSUME NEW m \in Seq(Envelope)
  PROVE  Projection(m) \in [ProjectID -> Views]
<1>1. PICK h : ProjectionRun(h, m) /\ Projection(m) = h[Len(m)]
  BY ProjectionRuns
<1>2. Len(m) \in 0..Len(m)
  BY LenProperties
<1> QED
  BY <1>1, <1>2 DEF ProjectionRun

\* A restart changes neither the log nor a request.
LEMMA RestartKeeps ==
  ASSUME HInv, Restart
  PROVE  HInv'
<1>1. /\ up = FALSE /\ up' = TRUE /\ log' = log /\ safe' = safe
      /\ view' = Projection(log) /\ UNCHANGED <<request, overtaken>>
  BY DEF Restart, Store!Restart, HInv, Typed
<1>2. view' \in [ProjectID -> Views]
  BY <1>1, ProjectionType DEF HInv, Typed
<1>3. Sound(log)' /\ Legal(log)'
  BY <1>1 DEF HInv, Sound, Store!Monotone, Legal
<1> QED
  BY <1>1, <1>2, <1>3, AllIdle DEF HInv, Typed

\* The steps that change one request and leave the store alone.
Local(w) ==
  \/ \E id \in ProjectID, cmd \in Commands :
       \/ \E rest \in FollowUps(cmd) : Begin(w, id, cmd, rest)
       \/ Refuse(w, id, cmd)
  \/ Again(w)
  \/ AgainRefused(w)
  \/ CommitConflict(w)
  \/ CommitNothing(w)

\* What they do: nothing, or the request goes on or ends. None of them begins to
\* publish, and none is in the middle of it.
LEMMA LocalIs ==
  ASSUME HInv, NEW w \in Worker, Local(w)
  PROVE  \/ UNCHANGED vars
         \/ \E r \in Requests : /\ Decision(r, log) /\ (up \/ r = Idle)
                                /\ r.at # "publish" /\ request[w].at # "publish"
                                /\ request' = [request EXCEPT ![w] = r]
                                /\ UNCHANGED <<store, view, overtaken>>
<1>1. request \in [Worker -> Requests] /\ request[w] \in Requests
  BY DEF HInv, Typed
<1>2. Idle \in Requests /\ Decision(Idle, log) /\ Idle.at = "idle"
  BY RequestsAre DEF Decision
<1>3. request[w].at # "idle" => up
  BY <1>1, <1>2 DEF HInv, Typed
<1>4. ASSUME NEW id \in ProjectID, NEW cmd \in Commands, NEW rest \in FollowUps(cmd),
             Begin(w, id, cmd, rest)
      PROVE  \E r \in Requests : /\ Decision(r, log) /\ (up \/ r = Idle)
                                 /\ r.at # "publish" /\ request[w].at # "publish"
                                 /\ request' = [request EXCEPT ![w] = r]
                                 /\ UNCHANGED <<store, view, overtaken>>
  <2>1. up /\ Decide(w, id, cmd, rest) /\ request[w].at = "idle"
    BY <1>4 DEF Begin
  <2>2. rest \in Rests
    BY <1>4, SecondsAre
  <2>3. PICK r \in Requests : /\ r.at = "decided" /\ Decision(r, log)
                              /\ request' = [request EXCEPT ![w] = r]
                              /\ UNCHANGED <<store, view, overtaken>>
    BY <2>1, <2>2, DecideIs
  <2> QED  BY <2>1, <2>3
<1>5. ASSUME NEW id \in ProjectID, NEW cmd \in Commands, Refuse(w, id, cmd)
      PROVE  UNCHANGED vars
  BY <1>5 DEF Refuse
<1>6. ASSUME Again(w)
      PROVE  \E r \in Requests : /\ Decision(r, log) /\ (up \/ r = Idle)
                                 /\ r.at # "publish" /\ request[w].at # "publish"
                                 /\ request' = [request EXCEPT ![w] = r]
                                 /\ UNCHANGED <<store, view, overtaken>>
  <2>1. PICK q \in Requests : q = request[w]
    BY <1>1
  <2>2. q.at = "again"
    BY <1>6, <2>1 DEF Again
  <2>3. PICK id \in ProjectID, cmd \in Seconds : id = q.id /\ cmd = q.cmd
    BY <2>2, RequestForms
  <2>4. PICK rest \in Rests : rest = <<>>
    BY SecondsAre
  <2>5. cmd \in Commands /\ Decide(w, id, cmd, rest)
    BY <1>6, <2>1, <2>3, <2>4, SecondsAre DEF Again
  <2>6. PICK r \in Requests : /\ r.at = "decided" /\ Decision(r, log)
                              /\ request' = [request EXCEPT ![w] = r]
                              /\ UNCHANGED <<store, view, overtaken>>
    BY <2>5, DecideIs
  <2> QED  BY <1>3, <2>1, <2>2, <2>6
<1>7. ASSUME AgainRefused(w) \/ CommitConflict(w)
      PROVE  /\ request[w].at # "publish" /\ request' = [request EXCEPT ![w] = Idle]
             /\ UNCHANGED <<store, view, overtaken>>
  BY <1>7 DEF AgainRefused, CommitConflict
<1>8. ASSUME CommitNothing(w)
      PROVE  \E r \in Requests : /\ Decision(r, log) /\ (up \/ r = Idle)
                                 /\ r.at # "publish" /\ request[w].at # "publish"
                                 /\ request' = [request EXCEPT ![w] = r]
                                 /\ UNCHANGED <<store, view, overtaken>>
  <2>1. request[w].at = "decided" /\ Done(w) /\ UNCHANGED <<store, view, overtaken>>
    BY <1>8 DEF CommitNothing
  <2>2. PICK r \in Requests :
          r.at \in {"idle", "again"} /\ request' = [request EXCEPT ![w] = r]
    BY <1>1, <2>1, DoneIs
  <2>3. Decision(r, log)
    BY <2>2 DEF Decision
  <2> QED  BY <1>3, <2>1, <2>2, <2>3
<1> QED
  BY <1>2, <1>4, <1>5, <1>6, <1>7, <1>8 DEF Local

\* The steps of Next: of one request that leave the log alone, and the others.
LEMMA Steps ==
  ASSUME Next
  PROVE  \/ \E w \in Worker : Local(w) \/ CommitAppend(w) \/ Publish(w)
         \/ Crash
         \/ Restart
BY DEF Next, Local

\* Nothing changes.
LEMMA Stutters ==
  ASSUME HInv, UNCHANGED vars
  PROVE  HInv'
<1>1. log' = log /\ safe' = safe /\ up' = up /\ view' = view /\ request' = request
      /\ overtaken' = overtaken
  BY DEF vars, store
<1>2. Typed'
  BY <1>1 DEF HInv, Typed
<1>3. Sound(log)' /\ Legal(log)'
  BY <1>1 DEF HInv, Sound, Store!Monotone, Legal
<1>4. ASSUME NEW x \in Worker PROVE Decision(request[x], log)'
  <2>1. Decision(request'[x], log)
    BY <1>1 DEF HInv
  <2> QED  BY <1>1, <2>1 DEF Decision, Store!LastVersion, Store!PositionsOf
<1> QED
  BY <1>1, <1>2, <1>3, <1>4 DEF HInv

\* Every step keeps the history.
LEMMA Keeps == HInv /\ [Next]_vars => HInv'
<1> SUFFICES ASSUME HInv, [Next]_vars PROVE HInv'
  OBVIOUS
<1>1. ASSUME NEW w \in Worker, Local(w) PROVE HInv'
  <2>1. CASE UNCHANGED vars
    BY <2>1, Stutters
  <2>2. ASSUME NEW r \in Requests, Decision(r, log), up \/ r = Idle,
               request' = [request EXCEPT ![w] = r], UNCHANGED <<store, view, overtaken>>
        PROVE  HInv'
    <3>1. view' \in [ProjectID -> Views] /\ overtaken' \in SUBSET ProjectID /\ UNCHANGED store
      BY <2>2 DEF HInv, Typed
    <3> QED  BY <2>2, <3>1, OneRequest
  <2> QED  BY <1>1, <2>1, <2>2, LocalIs
<1>2. ASSUME NEW w \in Worker, Publish(w) PROVE HInv'
  <2>1. Typed
    BY DEF HInv
  <2>2. PICK env \in Envelope, r \in Requests, q \in Requests :
           /\ q = request[w] /\ q.at = "publish"
           /\ request' = [request EXCEPT ![w] = r]
           /\ r.at # "decided"
           /\ view' = Shown(view, env)
           /\ overtaken' = overtaken \cup
                {e.stream : e \in {f \in Unpublished :
                            f.stream = env.stream /\ f.version < env.version}}
           /\ UNCHANGED store
    BY <1>2, <2>1, PublishIs
  <2>3. view' \in [ProjectID -> Views]
    BY <2>1, <2>2, ShownIs DEF Typed
  <2>4. overtaken' \in SUBSET ProjectID
    <3>1. \A f \in Unpublished : f.stream \in ProjectID
      BY <2>1, UnpublishedIs DEF Typed, Envelope
    <3> QED  BY <2>1, <2>2, <3>1 DEF Typed
  <2>5. Decision(r, log)
    BY <2>2 DEF Decision
  <2>6. up
    BY <2>1, <2>2, RequestsAre DEF HInv, Typed
  <2> QED  BY <2>2, <2>3, <2>4, <2>5, <2>6, OneRequest
<1>3. ASSUME UNCHANGED vars PROVE HInv'
  BY <1>3, Stutters
<1> QED
  BY <1>1, <1>2, <1>3, CommitKeeps, CrashKeeps, RestartKeeps, Steps

\* The invariant of the history.
LEMMA HistoryKept == Spec => []HInv
<1> QED
  BY Starts, Keeps, PTL DEF Spec

\* The log holds envelopes of projects, and each request is about a project.
THEOREM TypeCorrect == Spec => []TypeOK
<1>1. HInv => TypeOK
  <2> SUFFICES ASSUME HInv PROVE TypeOK
    OBVIOUS
  <2>1. Typed
    BY DEF HInv
  <2>2. ASSUME NEW w \in Worker
        PROVE  /\ request[w].at \in {"idle", "decided", "publish", "again"}
               /\ request[w].at # "idle" => request[w].id \in ProjectID
    <3>1. PICK q \in Requests : q = request[w]
      BY <2>1 DEF Typed
    <3> QED  BY <3>1, RequestForms
  <2> QED  BY <2>1, <2>2 DEF Typed, TypeOK, Envelope
<1> QED
  BY <1>1, HistoryKept, PTL

\* Every event in the store makes sense where it stands, whatever requests ran
\* between the load and the commit of each command (commit in command.go, with the
\* version check of the store).
THEOREM AlwaysLegal == Spec => []LegalHistory
<1>1. HInv => LegalHistory
  <2> SUFFICES ASSUME HInv PROVE LegalHistory
    OBVIOUS
  <2>1. log \in Seq(Envelope) /\ Legal(log)
    BY DEF HInv, Typed
  <2>2. DOMAIN log = 1..Len(log)
    BY <2>1, LenProperties
  <2> QED  BY <2>1, <2>2 DEF Legal, LegalHistory
<1> QED
  BY <1>1, HistoryKept, PTL

-----------------------------------------------------------------------------
(* The read model.                                                         *)

Sending(req) == UNION {Unsent(req[w]) : w \in Worker}

InQueue(e, s) == \E k \in 1..Len(s) : e = s[k]

\* The versions of a queue increase.
Ordered(s) == \A j, k \in 1..Len(s) : j < k => s[j].version < s[k].version

\* The requests publish in the order of the versions, and no envelope twice.
Disciplined(req) ==
  /\ \A w \in Worker : req[w].at = "publish" => Ordered(req[w].queue)
  /\ \A w, x \in Worker : w # x => \A e \in Unsent(req[w]) : e \notin Unsent(req[x])

\* What is to be published is in the log; of a project not overtaken it is the
\* last part, the envelopes after the first of them.
Pending(m, waiting, late) ==
  /\ \A e \in waiting : \E i \in 1..Len(m) : m[i] = e
  /\ \A i, j \in 1..Len(m) :
       i < j /\ m[i].stream = m[j].stream /\ m[i].stream \notin late /\ m[i] \in waiting
         => m[j] \in waiting

\* The views show what is published of every project not overtaken.
Following(views, m, waiting, late) ==
  \A id \in ProjectID \ late : Mirrors(views[id], Rebuilt(m, id, waiting))

\* The invariant of the read model, on top of HInv.
RInv ==
  /\ Disciplined(request)
  /\ Pending(log, Sending(request), overtaken)
  /\ up => Following(view, log, Sending(request), overtaken)

\* Sending is Unpublished, as an operator of the requests.
LEMMA UnpublishedIsSending == Unpublished = Sending(request)
BY DEF Unpublished, Sending, Unsent

\* An envelope is waiting if it is in the queue of a request.
LEMMA SendingIs ==
  ASSUME NEW req
  PROVE  \A e : e \in Sending(req) <=> \E w \in Worker : e \in Unsent(req[w])
BY DEF Sending

\* One request changes.
LEMMA SendingAfter ==
  ASSUME NEW req \in [Worker -> Requests], NEW w \in Worker, NEW r \in Requests,
         NEW req2, req2 = [req EXCEPT ![w] = r]
  PROVE  /\ req2[w] = r /\ \A x \in Worker : x # w => req2[x] = req[x]
         /\ \A e : e \in Sending(req2) <=>
              e \in Unsent(r) \/ \E x \in Worker : x # w /\ e \in Unsent(req[x])
<1>1. req2[w] = r /\ \A x \in Worker : x # w => req2[x] = req[x]
  OBVIOUS
<1> QED
  BY <1>1, SendingIs

\* Only a request that publishes has envelopes waiting.
LEMMA NoneIdle ==
  ASSUME NEW r \in Requests, r.at # "publish"
  PROVE  Unsent(r) = {}
BY DEF Unsent

\* A request that does not publish and will not.
LEMMA SendingSame ==
  ASSUME NEW req \in [Worker -> Requests], NEW w \in Worker, NEW r \in Requests,
         NEW req2, req2 = [req EXCEPT ![w] = r],
         req[w].at # "publish", r.at # "publish", Disciplined(req)
  PROVE  Disciplined(req2) /\ Sending(req2) = Sending(req)
<1>1. Unsent(r) = {} /\ Unsent(req[w]) = {}
  BY NoneIdle
<1>2. req2[w] = r /\ \A x \in Worker : x # w => req2[x] = req[x]
  BY SendingAfter
<1>3. \A x \in Worker : Unsent(req2[x]) = Unsent(req[x])
  BY <1>1, <1>2
<1>4. Sending(req2) = Sending(req)
  BY <1>3 DEF Sending
<1>5. \A x \in Worker : req2[x].at = "publish" => req2[x] = req[x]
  BY <1>2
<1>6. \A x \in Worker : req2[x].at = "publish" => Ordered(req2[x].queue)
  BY <1>5 DEF Disciplined
<1>7. \A x, y \in Worker : x # y => \A e \in Unsent(req2[x]) : e \notin Unsent(req2[y])
  BY <1>3 DEF Disciplined
<1> QED
  BY <1>4, <1>6, <1>7 DEF Disciplined

\* The first of a queue, and the rest.
LEMMA QueueIs ==
  ASSUME NEW s \in Seq(Envelope), s # <<>>, Ordered(s), NEW first, first = Head(s),
         NEW left, left = Tail(s)
  PROVE  /\ Ordered(left) /\ InQueue(first, s)
         /\ \A e : InQueue(e, left) <=> InQueue(e, s) /\ e # first
<1>1. PICK n \in Nat : n = Len(s) /\ n >= 1
  BY EmptySeq
<1>2. first = s[1] /\ Len(left) = n - 1 /\ \A i \in 1..(n - 1) : left[i] = s[i + 1]
  BY <1>1, HeadTailProperties
<1>3. Ordered(left)
  <2> SUFFICES ASSUME NEW j \in 1..Len(left), NEW k \in 1..Len(left), j < k
               PROVE  left[j].version < left[k].version
    BY DEF Ordered
  <2>1. j + 1 \in 1..n /\ k + 1 \in 1..n /\ j + 1 < k + 1
    BY <1>1, <1>2
  <2> QED  BY <1>1, <1>2, <2>1 DEF Ordered
<1>4. ASSUME NEW k \in 1..Len(left) PROVE \E j \in 1..n : left[k] = s[j] /\ s[j] # first
  <2>1. PICK j \in 1..n : j = k + 1 /\ left[k] = s[j] /\ 1 < j
    BY <1>1, <1>2
  <2>2. s[1].version < s[j].version /\ s[1].version \in Nat /\ s[j].version \in Nat
    BY <1>1, <2>1, EnvelopeAt DEF Ordered
  <2> QED  BY <1>2, <2>1, <2>2
<1>5. ASSUME NEW k \in 1..n, s[k] # first PROVE \E j \in 1..Len(left) : s[k] = left[j]
  <2>1. k # 1
    BY <1>2, <1>5
  <2>2. PICK j \in 1..(n - 1) : k = j + 1
    <3>1. k - 1 \in 1..(n - 1) /\ k = (k - 1) + 1
      BY <1>1, <2>1
    <3> QED  BY <3>1
  <2> QED  BY <1>2, <2>2
<1> QED
  BY <1>1, <1>2, <1>3, <1>4, <1>5 DEF InQueue

\* q becomes r when it publishes env, the first of its queue.
Sends(q, r, env) ==
  /\ q.at = "publish" /\ env = Head(q.queue)
  /\ r.at = "publish" => r.queue = Tail(q.queue)
  /\ r.at # "publish" => Tail(q.queue) = <<>>

\* Of the requests, that of w becomes r.
Becomes(req, w, r, req2) == req2 = [req EXCEPT ![w] = r]

OneLess(waiting2, waiting, env) == \A e : e \in waiting2 <=> e \in waiting /\ e # env

\* After a publication one envelope less is to be published.
LEMMA SendingOne ==
  ASSUME NEW req \in [Worker -> Requests], Disciplined(req), NEW w \in Worker,
         NEW q \in Requests, q = req[w], NEW r \in Requests, NEW env, Sends(q, r, env),
         NEW req2, Becomes(req, w, r, req2)
  PROVE  /\ Disciplined(req2) /\ env \in Sending(req)
         /\ OneLess(Sending(req2), Sending(req), env)
<1> USE DEF Sends, Becomes
<1>1. PICK s \in Seq(Envelope) : s = q.queue /\ s # <<>>
  BY RequestForms
<1>2. Ordered(s)
  BY <1>1 DEF Disciplined
<1>3. PICK left : left = Tail(s)
  OBVIOUS
<1>4. env = Head(s)
  BY <1>1
<1>5. /\ Ordered(left) /\ InQueue(env, s)
      /\ \A e : InQueue(e, left) <=> InQueue(e, s) /\ e # env
  <2>1. PICK first : first = Head(s)
    OBVIOUS
  <2>2. /\ Ordered(left) /\ InQueue(first, s)
        /\ \A e : InQueue(e, left) <=> InQueue(e, s) /\ e # first
    BY <1>1, <1>2, <1>3, <2>1, QueueIs
  <2> QED  BY <1>4, <2>1, <2>2
<1>6. \A e : e \in Unsent(q) <=> InQueue(e, s)
  BY <1>1, UnsentIs DEF InQueue
<1>7. \A e : e \in Unsent(r) <=> InQueue(e, left)
  <2>1. CASE r.at = "publish"
    <3>1. left = r.queue
      BY <1>1, <1>3, <2>1
    <3>2. \A e : e \in Unsent(r) <=> \E k \in 1..Len(r.queue) : e = r.queue[k]
      BY <2>1, UnsentIs
    <3> QED  BY <3>1, <3>2 DEF InQueue
  <2>2. CASE r.at # "publish"
    <3>1. left = <<>> /\ Unsent(r) = {}
      BY <1>1, <1>3, <2>2, NoneIdle
    <3> QED  BY <3>1 DEF InQueue
  <2> QED  BY <2>1, <2>2
<1>8. \A e : e \in Unsent(r) <=> e \in Unsent(q) /\ e # env
  BY <1>5, <1>6, <1>7
<1>9. /\ req2[w] = r /\ \A x \in Worker : x # w => req2[x] = req[x]
      /\ \A e : e \in Sending(req2) <=>
           e \in Unsent(r) \/ \E x \in Worker : x # w /\ e \in Unsent(req[x])
  <2>1. req2[w] = r /\ \A x \in Worker : x # w => req2[x] = req[x]
    OBVIOUS
  <2> QED  BY <2>1, SendingIs
<1>10. env \in Unsent(q)
  BY <1>5, <1>6
<1>11. \A x \in Worker : x # w => env \notin Unsent(req[x])
  BY <1>10 DEF Disciplined
<1>12. \A e : e \in Sending(req2) <=> e \in Sending(req) /\ e # env
  <2> TAKE e
  <2>1. e \in Sending(req) <=> \E x \in Worker : e \in Unsent(req[x])
    BY SendingIs
  <2> QED  BY <1>8, <1>9, <1>11, <2>1
<1>13. \A x \in Worker : req2[x].at = "publish" => Ordered(req2[x].queue)
  <2> TAKE x \in Worker
  <2>1. CASE x = w
    BY <1>1, <1>3, <1>5, <1>9, <2>1
  <2>2. CASE x # w
    BY <1>9, <2>2 DEF Disciplined
  <2> QED  BY <2>1, <2>2
<1>14. \A x \in Worker : \A e : e \in Unsent(req2[x]) => e \in Unsent(req[x])
  <2> TAKE x \in Worker
  <2> TAKE e
  <2>1. CASE x = w
    BY <1>8, <1>9, <2>1
  <2>2. CASE x # w
    BY <1>9, <2>2
  <2> QED  BY <2>1, <2>2
<1>15. \A x, y \in Worker : x # y => \A e \in Unsent(req2[x]) : e \notin Unsent(req2[y])
  BY <1>14 DEF Disciplined
<1> QED
  BY <1>10, <1>12, <1>13, <1>15, SendingIs DEF Disciplined, OneLess

\* No envelope is in a log twice.
LEMMA Distinct ==
  ASSUME NEW m \in Seq(Envelope), Sound(m)
  PROVE  \A i, j \in 1..Len(m) : m[i] = m[j] => i = j
<1> SUFFICES ASSUME NEW i \in 1..Len(m), NEW j \in 1..Len(m), m[i] = m[j] PROVE i = j
  OBVIOUS
<1>1. m[i].version \in Nat /\ m[j].version \in Nat
  BY EnvelopeAt
<1>2. ~ (i < j) /\ ~ (j < i)
  BY <1>1 DEF Sound, Store!Monotone
<1>3. Len(m) \in Nat
  BY LenProperties
<1> QED
  BY <1>2, <1>3

\* The view of a project follows the first of the envelopes to be published.
LEMMA MirrorsPublished ==
  ASSUME NEW m \in Seq(Envelope), Legal(m), NEW id \in ProjectID, NEW s1, NEW s2,
         NEW i \in 1..Len(m), id = m[i].stream, 
         OutAfter(m, id, s1, i - 1), OutAfter(m, id, s2, i),
         NEW v \in Views, Mirrors(v, Rebuilt(m, id, s1)), NEW ev, ev = m[i].event
  PROVE  Mirrors(Project(v, ev), Rebuilt(m, id, s2))
<1>1. PICK k \in 0..Len(m) : k = i - 1
  BY LenProperties
<1>2. PICK p \in Aggregates : p = LoadProject(SubSeq(m, 1, k), id)
  <2>1. SubSeq(m, 1, k) \in Seq(Envelope)
    BY PrefixIs
  <2> QED  BY <2>1, LoadType
<1>3. Rebuilt(m, id, s1) = p
  <2>1. OutAfter(m, id, s1, k)
    BY <1>1
  <2> QED  BY <1>2, <2>1, RebuiltUpTo
<1>4. Rebuilt(m, id, s2) = Apply(p, ev)
  <2>1. PICK j \in 0..Len(m) : j = i
    BY LenProperties
  <2>2. OutAfter(m, id, s2, j)
    BY <2>1
  <2>3. Rebuilt(m, id, s2) = LoadProject(SubSeq(m, 1, j), id)
    BY <2>2, RebuiltUpTo
  <2>4. LoadProject(SubSeq(m, 1, i), id) = Apply(LoadProject(SubSeq(m, 1, i - 1), id), m[i].event)
    BY LoadStep
  <2> QED  BY <1>1, <1>2, <2>1, <2>3, <2>4
<1>5. ev \in DomainEvent
  BY EnvelopeAt
<1>6. Sensible(p, ev)
  BY <1>1, <1>2 DEF Legal
<1>7. p.deleted => p.exists
  BY <1>2, DeletedExisted
<1>8. Mirrors(v, p)
  BY <1>3
<1>9. Mirrors(Project(v, ev), Apply(p, ev))
  BY <1>5, <1>6, <1>7, <1>8, MirrorsNext
<1> QED
  BY <1>4, <1>9

\* The projects overtaken once env is published.
Overtaking(late, waiting, env) ==
  late \cup {e.stream : e \in {f \in waiting :
                f.stream = env.stream /\ f.version < env.version}}

\* The read model follows a publication, if nothing older of the project is left.
LEMMA PublishOne ==
  ASSUME NEW m \in Seq(Envelope), Sound(m), Legal(m),
         NEW waiting \in SUBSET Envelope, NEW late, Pending(m, waiting, late),
         NEW env \in waiting, NEW waiting2, OneLess(waiting2, waiting, env),
         NEW late2, late2 = Overtaking(late, waiting, env),
         NEW views \in [ProjectID -> Views], Following(views, m, waiting, late)
  PROVE  Pending(m, waiting2, late2) /\ Following(Shown(views, env), m, waiting2, late2)
<1> USE DEF OneLess, Overtaking
<1>1. PICK n \in Nat : n = Len(m)
  BY LenProperties
<1>2. PICK i \in 1..n : m[i] = env
  BY <1>1 DEF Pending
<1>3. PICK id \in ProjectID, ev \in DomainEvent : id = env.stream /\ ev = env.event
  BY DEF Envelope
<1>4. \A s : s \notin late2 => s \notin late
  OBVIOUS
<1>5. ASSUME id \notin late2, NEW k \in 1..n, m[k].stream = id
      PROVE  m[k] \in waiting <=> i <= k
  <2>1. CASE k < i
    <3>1. m[k].version < env.version
      BY <1>1, <1>2, <1>3, <1>5, <2>1 DEF Sound, Store!Monotone
    <3>2. m[k] \notin waiting
      BY <1>3, <1>5, <3>1
    <3> QED  BY <1>1, <2>1, <3>2
  <2>2. CASE k = i
    BY <1>1, <1>2, <2>2
  <2>3. CASE i < k
    BY <1>1, <1>2, <1>3, <1>4, <1>5, <2>3 DEF Pending
  <2> QED  BY <1>1, <2>1, <2>2, <2>3
<1>6. \A k \in 1..n : m[k] = env <=> k = i
  BY <1>1, <1>2, Distinct
<1>7. ASSUME id \notin late2, NEW k \in 1..n, m[k].stream = id
      PROVE  m[k] \in waiting2 <=> i < k
  BY <1>1, <1>5, <1>6, <1>7
<1>8. Pending(m, waiting2, late2)
  <2>1. \A e \in waiting2 : \E k \in 1..Len(m) : m[k] = e
    BY DEF Pending
  <2>2. ASSUME NEW k \in 1..Len(m), NEW j \in 1..Len(m), k < j, m[k].stream = m[j].stream,
               m[k].stream \notin late2, m[k] \in waiting2
        PROVE  m[j] \in waiting2
    <3>1. m[j] \in waiting
      BY <1>4, <2>2 DEF Pending
    <3>2. CASE m[j].stream = id
      <4>1. i < k
        BY <1>1, <1>7, <2>2, <3>2
      <4>2. i < j
        BY <1>1, <2>2, <4>1
      <4> QED  BY <1>1, <1>7, <2>2, <3>2, <4>2
    <3>3. CASE m[j].stream # id
      BY <1>3, <3>1, <3>3
    <3> QED  BY <3>2, <3>3
  <2> QED  BY <2>1, <2>2 DEF Pending
<1>9. ASSUME NEW s \in ProjectID \ late2
      PROVE  Mirrors(Shown(views, env)[s], Rebuilt(m, s, waiting2))
  <2>1. Mirrors(views[s], Rebuilt(m, s, waiting))
    BY <1>4 DEF Following
  <2>2. Shown(views, env)[s] = IF s = id THEN Project(views[s], ev) ELSE views[s]
    BY <1>3, ShownIs
  <2>3. CASE s # id
    <3>1. \A k \in 1..Len(m) : m[k].stream = s => (m[k] \in waiting <=> m[k] \in waiting2)
      BY <1>3, <2>3
    <3>2. Rebuilt(m, s, waiting) = Rebuilt(m, s, waiting2)
      BY <3>1, RebuiltSame
    <3> QED  BY <2>1, <2>2, <2>3, <3>2
  <2>4. CASE s = id
    <3>1. id \notin late2
      BY <2>4
    <3>2. OutAfter(m, id, waiting, i - 1)
      <4>1. \A k \in 1..Len(m) : i - 1 < k <=> i <= k
        BY <1>1
      <4> QED  BY <1>1, <1>5, <3>1, <4>1 DEF OutAfter
    <3>3. OutAfter(m, id, waiting2, i)
      BY <1>1, <1>7, <3>1 DEF OutAfter
    <3>4. i \in 1..Len(m) /\ id = m[i].stream /\ ev = m[i].event
      BY <1>1, <1>2, <1>3
    <3>5. PICK v \in Views : v = views[id]
      OBVIOUS
    <3>6. Mirrors(v, Rebuilt(m, id, waiting))
      BY <2>1, <2>4, <3>5
    <3>7. Mirrors(Project(v, ev), Rebuilt(m, id, waiting2))
      BY <3>2, <3>3, <3>4, <3>6, MirrorsPublished
    <3> QED  BY <2>2, <2>4, <3>5, <3>7
  <2> QED  BY <2>3, <2>4
<1> QED
  BY <1>8, <1>9 DEF Following

\* The batch b is not in the log m, and to be published besides what is waiting.
IsNew(b, m) == \A i \in 1..Len(m), j \in 1..Len(b) : m[i] # b[j]
Stored(waiting, m) == \A e \in waiting : \E i \in 1..Len(m) : m[i] = e
Joined(waiting2, waiting, b) == \A e : e \in waiting2 <=> e \in waiting \/ InQueue(e, b)

\* After an append the new batch is to be published.
LEMMA SendingBatch ==
  ASSUME NEW req \in [Worker -> Requests], Disciplined(req), NEW w \in Worker,
         req[w].at # "publish", NEW r \in Requests, r.at = "publish",
         NEW b \in Seq(Envelope), b = r.queue, Ordered(b),
         NEW m, Stored(Sending(req), m), IsNew(b, m),
         NEW req2, Becomes(req, w, r, req2)
  PROVE  Disciplined(req2) /\ Joined(Sending(req2), Sending(req), b)
<1> USE DEF Stored, IsNew, Becomes
<1>1. req2[w] = r /\ \A x \in Worker : x # w => req2[x] = req[x]
  OBVIOUS
<1>2. Unsent(req[w]) = {}
  BY NoneIdle
<1>3. \A e : e \in Unsent(r) <=> InQueue(e, b)
  BY UnsentIs DEF InQueue
<1>4. \A e : e \in Sending(req2) <=> e \in Sending(req) \/ InQueue(e, b)
  <2> TAKE e
  <2>1. e \in Sending(req2) <=> \E x \in Worker : e \in Unsent(req2[x])
    BY SendingIs
  <2>2. e \in Sending(req) <=> \E x \in Worker : e \in Unsent(req[x])
    BY SendingIs
  <2> QED  BY <1>1, <1>2, <1>3, <2>1, <2>2
<1>5. \A e \in Unsent(r) : e \notin Sending(req)
  BY <1>3 DEF InQueue
<1>6. \A x \in Worker : req2[x].at = "publish" => Ordered(req2[x].queue)
  <2> TAKE x \in Worker
  <2>1. CASE x = w
    BY <1>1, <2>1
  <2>2. CASE x # w
    BY <1>1, <2>2 DEF Disciplined
  <2> QED  BY <2>1, <2>2
<1>7. ASSUME NEW x \in Worker, NEW y \in Worker, x # y, NEW e \in Unsent(req2[x])
      PROVE  e \notin Unsent(req2[y])
  <2>1. CASE x = w
    <3>1. e \notin Sending(req) /\ req2[y] = req[y]
      BY <1>1, <1>5, <1>7, <2>1
    <3> QED  BY <3>1, SendingIs
  <2>2. CASE y = w
    <3>1. e \in Sending(req)
      BY <1>1, <1>7, <2>2, SendingIs
    <3> QED  BY <1>1, <1>5, <2>2, <3>1
  <2>3. CASE x # w /\ y # w
    BY <1>1, <1>7, <2>3 DEF Disciplined
  <2> QED  BY <2>1, <2>2, <2>3
<1> QED
  BY <1>4, <1>6, <1>7 DEF Disciplined, Joined

\* The read model shows the same when a batch is stored that is to be published.
LEMMA CommitOne ==
  ASSUME NEW m \in Seq(Envelope), NEW b \in Seq(Envelope),
         IsNew(b, m), NEW waiting, NEW late, Pending(m, waiting, late),
         NEW waiting2, Joined(waiting2, waiting, b), NEW c, c = m \o b
  PROVE  /\ Pending(c, waiting2, late)
         /\ \A views : Following(views, m, waiting, late) => Following(views, c, waiting2, late)
<1> USE DEF IsNew, Joined
<1>1. PICK n \in Nat, l \in Nat : n = Len(m) /\ l = Len(b)
  BY LenProperties
<1>2. /\ Len(c) = n + l
      /\ \A i \in 1..n : c[i] = m[i]
      /\ \A j \in 1..l : c[n + j] = b[j]
  BY <1>1, ConcatIs
<1>3. \A i \in 1..n : m[i] \in waiting <=> m[i] \in waiting2
  BY <1>1 DEF InQueue
<1>4. \A j \in 1..l : b[j] \in waiting2
  BY <1>1 DEF InQueue
<1>5. \A i \in 1..Len(c) : ~ (i <= n) => c[i] \in waiting2
  <2> TAKE i \in 1..Len(c)
  <2>1. HAVE ~ (i <= n)
  <2>2. i - n \in 1..l /\ i = n + (i - n)
    BY <1>1, <1>2, <2>1
  <2> QED  BY <1>2, <1>4, <2>2
<1>6. \A i \in 1..Len(c) : i <= n => i \in 1..n /\ c[i] = m[i]
  BY <1>1, <1>2
<1>7. ASSUME NEW e \in waiting2 PROVE \E i \in 1..Len(c) : c[i] = e
  <2>1. CASE e \in waiting
    <3>1. PICK i \in 1..n : m[i] = e
      BY <1>1, <2>1 DEF Pending
    <3>2. i \in 1..Len(c)
      BY <1>1, <1>2
    <3> QED  BY <1>2, <3>1, <3>2
  <2>2. CASE InQueue(e, b)
    <3>1. PICK j \in 1..l : b[j] = e
      BY <1>1, <2>2 DEF InQueue
    <3>2. n + j \in 1..Len(c)
      BY <1>1, <1>2
    <3> QED  BY <1>2, <3>1, <3>2
  <2> QED  BY <2>1, <2>2
<1>8. ASSUME NEW i \in 1..Len(c), NEW j \in 1..Len(c), i < j, c[i].stream = c[j].stream,
             c[i].stream \notin late, c[i] \in waiting2
      PROVE  c[j] \in waiting2
  <2>1. CASE ~ (j <= n)
    BY <1>5, <2>1
  <2>2. CASE j <= n
    <3>1. i <= n
      BY <1>1, <1>2, <1>8, <2>2
    <3>2. i \in 1..n /\ j \in 1..n /\ c[i] = m[i] /\ c[j] = m[j]
      BY <1>6, <2>2, <3>1
    <3>3. m[i] \in waiting
      BY <1>3, <1>8, <3>2
    <3>4. m[j] \in waiting
      BY <1>1, <1>8, <3>2, <3>3 DEF Pending
    <3> QED  BY <1>3, <3>2, <3>4
  <2> QED  BY <2>1, <2>2
<1>9. \A id : Rebuilt(c, id, waiting2) = Rebuilt(m, id, waiting)
  <2> TAKE id
  <2>1. \A k \in 1..Len(m) : m[k].stream = id => (m[k] \in waiting <=> m[k] \in waiting2)
    BY <1>1, <1>3
  <2>2. \A k \in 1..Len(b) : b[k].stream # id \/ b[k] \in waiting2
    BY <1>1, <1>4
  <2>3. Rebuilt(m \o b, id, waiting2) = Rebuilt(m, id, waiting)
    BY <2>1, <2>2, RebuiltOfConcat
  <2> QED  BY <2>3
<1> QED
  BY <1>7, <1>8, <1>9 DEF Pending, Following

\* Without requests in progress nothing is to be published.
LEMMA NothingSent ==
  ASSUME NEW req, \A w \in Worker : req[w] = Idle, NEW m, NEW late
  PROVE  Disciplined(req) /\ Sending(req) = {} /\ Pending(m, Sending(req), late)
<1>1. \A w \in Worker : req[w].at # "publish" /\ Unsent(req[w]) = {}
  BY RequestsAre, NoneIdle
<1>2. Sending(req) = {}
  BY <1>1 DEF Sending
<1>3. Disciplined(req)
  BY <1>1 DEF Disciplined
<1> QED
  BY <1>2, <1>3 DEF Pending

\* At the start nothing is shown and there is nothing to show.
LEMMA StartsFollowing == Init => RInv
<1> SUFFICES ASSUME Init PROVE RInv
  OBVIOUS
<1>1. log = <<>> /\ view = NoViews /\ request = [w \in Worker |-> Idle]
  BY DEF Init, Store!Init
<1>2. \A w \in Worker : request[w] = Idle
  BY <1>1
<1>3. Disciplined(request) /\ Sending(request) = {} /\ Pending(log, Sending(request), overtaken)
  BY <1>2, NothingSent
<1>4. ASSUME NEW id \in ProjectID
      PROVE  Mirrors(view[id], Rebuilt(log, id, Sending(request)))
  <2>1. PICK m, s : m = log /\ s = Sending(request)
    OBVIOUS
  <2>2. m \in Seq(Envelope) /\ \A k \in 1..Len(m) : m[k].stream # id
    BY <1>1, <2>1, EmptySeq
  <2>3. Rebuilt(m, id, s) = Fresh
    BY <2>2, RebuiltOfNone
  <2>4. view[id] = Absent
    BY <1>1 DEF NoViews
  <2> QED  BY <2>1, <2>3, <2>4, MirrorsFresh
<1> QED
  BY <1>3, <1>4 DEF RInv, Following

\* A publication shows one event and takes it from the ones that wait, or marks
\* the project as overtaken.
LEMMA FollowsPublish ==
  ASSUME HInv, RInv, NEW w \in Worker, Publish(w)
  PROVE  RInv'
<1>1. Typed
  BY DEF HInv
<1>2. PICK env \in Envelope, r \in Requests, q \in Requests :
        /\ q = request[w] /\ q.at = "publish" /\ q.queue # <<>>
        /\ env = Head(q.queue)
        /\ request' = [request EXCEPT ![w] = r]
        /\ r.at = "publish" => r.queue = Tail(q.queue)
        /\ r.at # "publish" => Tail(q.queue) = <<>>
        /\ view' = Shown(view, env)
        /\ overtaken' = overtaken \cup
             {e.stream : e \in {f \in Unpublished :
                         f.stream = env.stream /\ f.version < env.version}}
        /\ UNCHANGED store
  BY <1>1, PublishIs
<1>3. up /\ log' = log /\ up' = up
  BY <1>1, <1>2, RequestsAre DEF HInv, Typed, store
<1>4. PICK req \in [Worker -> Requests], m \in Seq(Envelope), views \in [ProjectID -> Views] :
        req = request /\ m = log /\ views = view
  BY <1>1 DEF Typed
<1>5. PICK req2, views2, late, late2 :
        req2 = request' /\ views2 = view' /\ late = overtaken /\ late2 = overtaken'
  OBVIOUS
<1>6. PICK waiting \in SUBSET Envelope : waiting = Sending(req)
  BY <1>4, UnpublishedIs, UnpublishedIsSending
<1>7. PICK waiting2 : waiting2 = Sending(req2)
  OBVIOUS
<1>8. Disciplined(req) /\ Pending(m, waiting, late) /\ Following(views, m, waiting, late)
      /\ Sound(m) /\ Legal(m)
  BY <1>3, <1>4, <1>5, <1>6 DEF RInv, HInv
<1>9. Becomes(req, w, r, req2) /\ q = req[w] /\ Sends(q, r, env)
  BY <1>2, <1>4, <1>5 DEF Becomes, Sends
<1>10. /\ Disciplined(req2) /\ env \in Sending(req)
       /\ OneLess(Sending(req2), Sending(req), env)
  BY <1>8, <1>9, SendingOne
<1>11. env \in waiting /\ OneLess(waiting2, waiting, env)
  BY <1>6, <1>7, <1>10
<1>12. late2 = Overtaking(late, waiting, env)
  BY <1>2, <1>4, <1>5, <1>6, UnpublishedIsSending DEF Overtaking
<1>13. Pending(m, waiting2, late2) /\ Following(Shown(views, env), m, waiting2, late2)
  BY <1>8, <1>11, <1>12, PublishOne
<1>14. views2 = Shown(views, env)
  BY <1>2, <1>4, <1>5
<1>15. Disciplined(request') /\ Pending(log', Sending(request'), overtaken')
       /\ Following(view', log', Sending(request'), overtaken')
  BY <1>3, <1>4, <1>5, <1>7, <1>10, <1>13, <1>14
<1> QED
  BY <1>15 DEF RInv, Sending, Unsent, Disciplined, Ordered, Pending, Following

\* An append adds events to the log and to the ones that wait.
LEMMA FollowsCommit ==
  ASSUME HInv, RInv, NEW w \in Worker, CommitAppend(w)
  PROVE  RInv'
<1>1. Typed
  BY DEF HInv
<1>2. PICK q \in Requests, r \in Requests, b \in Seq(Envelope) :
        /\ up /\ up' = up
        /\ q = request[w] /\ q.at = "decided"
        /\ b # <<>> /\ b = Store!Versioned(q.id, q.expected, q.events)
        /\ q.expected = Store!LastVersion(log, q.id)
        /\ BatchOf(b, q.id, q.expected, q.events)
        /\ Continues(LoadProject(log, q.id), q.events)
        /\ log' = log \o b /\ safe' = Len(log')
        /\ r.at = "publish" /\ r.queue = b
        /\ request' = [request EXCEPT ![w] = r]
        /\ UNCHANGED <<view, overtaken>>
  BY CommitIs
<1>3. PICK req \in [Worker -> Requests], m \in Seq(Envelope) :
        req = request /\ m = log
  BY <1>1 DEF Typed
<1>4. PICK req2, c, waiting, waiting2 :
        req2 = request' /\ c = log' /\ waiting = Sending(req) /\ waiting2 = Sending(req2)
  OBVIOUS
<1>5. Disciplined(req) /\ Pending(m, waiting, overtaken)
      /\ Following(view, m, waiting, overtaken) /\ Sound(m)
  BY <1>2, <1>3, <1>4 DEF RInv, HInv
<1>6. PICK id \in ProjectID, v \in Nat : id = q.id /\ v = q.expected
  BY <1>2, RequestForms
<1>7. v = Store!LastVersion(m, id) /\ BatchOf(b, id, v, q.events)
  BY <1>2, <1>3, <1>6
<1>8. IsNew(b, m)
  BY <1>5, <1>7, BatchIsNew DEF IsNew
<1>9. Ordered(b)
  <2>1. \A j \in 1..Len(b) : b[j].version = v + j
    BY <1>7 DEF BatchOf
  <2> QED  BY <2>1 DEF Ordered
<1>10. Becomes(req, w, r, req2) /\ req[w].at # "publish" /\ b = r.queue
  BY <1>2, <1>3, <1>4 DEF Becomes
<1>11. Stored(Sending(req), m)
  BY <1>4, <1>5 DEF Pending, Stored
<1>12. Disciplined(req2) /\ Joined(Sending(req2), Sending(req), b)
  BY <1>2, <1>5, <1>8, <1>9, <1>10, <1>11, SendingBatch
<1>13. PICK late, views : late = overtaken /\ views = view
  OBVIOUS
<1>14. c = m \o b /\ Joined(waiting2, waiting, b)
  BY <1>2, <1>3, <1>4, <1>12
<1>15. /\ Pending(c, waiting2, late)
       /\ \A x : Following(x, m, waiting, late) => Following(x, c, waiting2, late)
  BY <1>5, <1>8, <1>13, <1>14, CommitOne
<1>16. Following(views, c, waiting2, late)
  BY <1>5, <1>13, <1>15
<1>17. Disciplined(request') /\ Pending(log', Sending(request'), overtaken')
       /\ Following(view', log', Sending(request'), overtaken')
  BY <1>2, <1>4, <1>12, <1>13, <1>15, <1>16
<1> QED
  BY <1>17 DEF RInv, Sending, Unsent, Disciplined, Ordered, Pending, Following

\* The other steps of a request touch neither the log, the queues nor the read
\* model.
LEMMA FollowsLocal ==
  ASSUME HInv, RInv, NEW w \in Worker, Local(w)
  PROVE  RInv'
<1>1. ASSUME UNCHANGED vars PROVE RInv'
  <2>1. request' = request /\ log' = log /\ view' = view /\ overtaken' = overtaken /\ up' = up
    BY <1>1 DEF vars, store
  <2>2. Disciplined(request') /\ Pending(log', Sending(request'), overtaken')
        /\ (up' => Following(view', log', Sending(request'), overtaken'))
    BY <2>1 DEF RInv
  <2> QED  BY <2>2 DEF RInv, Sending, Unsent, Disciplined, Ordered, Pending, Following
<1>2. ASSUME NEW r \in Requests, r.at # "publish", request[w].at # "publish",
             request' = [request EXCEPT ![w] = r], UNCHANGED <<store, view, overtaken>>
      PROVE  RInv'
  <2>1. PICK req \in [Worker -> Requests] : req = request
    BY DEF HInv, Typed
  <2>6. PICK req2 : req2 = request'
    OBVIOUS
  <2>2. req2 = [req EXCEPT ![w] = r] /\ req[w].at # "publish" /\ Disciplined(req)
    BY <1>2, <2>1, <2>6 DEF RInv
  <2>3. Disciplined(req2) /\ Sending(req2) = Sending(req)
    BY <1>2, <2>2, SendingSame
  <2>4. log' = log /\ view' = view /\ overtaken' = overtaken /\ up' = up
    BY <1>2 DEF store
  <2>5. Disciplined(request') /\ Pending(log', Sending(request'), overtaken')
        /\ (up' => Following(view', log', Sending(request'), overtaken'))
    BY <2>1, <2>6, <2>3, <2>4 DEF RInv
  <2> QED  BY <2>5 DEF RInv, Sending, Unsent, Disciplined, Ordered, Pending, Following
<1> QED
  BY <1>1, <1>2, LocalIs

\* Nothing is shown by a service that is down.
LEMMA FollowsCrash ==
  ASSUME HInv, Crash
  PROVE  RInv'
<1>1. PICK req2, m, late : req2 = request' /\ m = log' /\ late = overtaken'
  OBVIOUS
<1>2. (\A w \in Worker : req2[w] = Idle) /\ up' = FALSE
  BY <1>1 DEF Crash, Store!LoseTail, Store!Partial
<1>3. Disciplined(req2) /\ Pending(m, Sending(req2), late)
  BY <1>2, NothingSent
<1>4. Disciplined(request') /\ Pending(log', Sending(request'), overtaken')
  BY <1>1, <1>3
<1> QED
  BY <1>2, <1>4 DEF RInv, Sending, Unsent, Disciplined, Ordered, Pending

\* After the replay nothing waits and everything is shown.
LEMMA FollowsRestart ==
  ASSUME HInv, Restart
  PROVE  RInv'
<1>1. /\ up = FALSE /\ log' = log /\ view' = Projection(log)
      /\ UNCHANGED <<request, overtaken>>
  BY DEF Restart, Store!Restart, HInv, Typed
<1>2. PICK req, m, late, views :
        req = request' /\ m = log' /\ late = overtaken' /\ views = view'
  OBVIOUS
<1>3. \A w \in Worker : req[w] = Idle
  BY <1>1, <1>2 DEF HInv
<1>4. Disciplined(req) /\ Sending(req) = {} /\ Pending(m, Sending(req), late)
  BY <1>3, NothingSent
<1>5. m \in Seq(Envelope) /\ Legal(m) /\ views = Projection(m)
  BY <1>1, <1>2 DEF HInv, Typed
<1>6. Following(views, m, Sending(req), late)
  <2> SUFFICES ASSUME NEW id \in ProjectID \ late
               PROVE  Mirrors(views[id], Rebuilt(m, id, Sending(req)))
    BY DEF Following
  <2>1. Mirrors(views[id], LoadProject(m, id))
    BY <1>5, ProjectionMirrors
  <2> QED  BY <1>4, <2>1 DEF LoadProject
<1>7. Disciplined(request') /\ Pending(log', Sending(request'), overtaken')
      /\ Following(view', log', Sending(request'), overtaken')
  BY <1>2, <1>4, <1>6
<1> QED
  BY <1>7 DEF RInv, Sending, Unsent, Disciplined, Ordered, Pending, Following

\* Every step keeps the read model in line.
LEMMA KeepsFollowing == HInv /\ RInv /\ [Next]_vars => RInv'
<1> SUFFICES ASSUME HInv, RInv, [Next]_vars PROVE RInv'
  OBVIOUS
<1>1. ASSUME UNCHANGED vars PROVE RInv'
  <2>1. request' = request /\ log' = log /\ view' = view /\ overtaken' = overtaken /\ up' = up
    BY <1>1 DEF vars, store
  <2>2. Disciplined(request') /\ Pending(log', Sending(request'), overtaken')
        /\ (up' => Following(view', log', Sending(request'), overtaken'))
    BY <2>1 DEF RInv
  <2> QED  BY <2>2 DEF RInv, Sending, Unsent, Disciplined, Ordered, Pending, Following
<1> QED
  BY <1>1, FollowsPublish, FollowsCommit, FollowsLocal, FollowsCrash, FollowsRestart, Steps

\* The read model shows what the events stored and published so far make of each
\* project, after any interleaving of commits and publications, after crashes in
\* the middle of a batch and after the replay at start-up, unless an event of the
\* project overtook an older one (ProjectProjection.Apply, Publish in bus.go).
THEOREM ReadModelAlwaysFollows == Spec => []ReadModelFollows
<1>1. HInv /\ RInv => ReadModelFollows
  <2> SUFFICES ASSUME HInv, RInv, up, NEW id \in ProjectID \ overtaken
               PROVE  Shows(view[id], Rebuilt(log, id, Unpublished))
    BY DEF ReadModelFollows
  <2>1. PICK p \in Aggregates : p = Rebuilt(log, id, Unpublished)
    BY RebuiltType DEF HInv, Typed
  <2>4. PICK v : v = view[id]
    OBVIOUS
  <2>2. Mirrors(v, p)
    BY <2>1, <2>4, UnpublishedIsSending DEF RInv, Following
  <2>3. Shows(v, p)
    BY <2>2, MirrorsShow
  <2> QED  BY <2>1, <2>4, <2>3
<1>2. Spec => []RInv
  BY HistoryKept, StartsFollowing, KeepsFollowing, PTL DEF Spec
<1> QED
  BY <1>1, <1>2, HistoryKept, PTL

-----------------------------------------------------------------------------
(* What an import reaches.                                                 *)

\* The first of the declarations of a component.
FirstOf(inputs, i, first) ==
  /\ first \in Declared(inputs) /\ inputs[first].component = inputs[i].component
  /\ \A j \in Declared(inputs) : inputs[j].component = inputs[i].component => first <= j

\* Every component that is declared is declared a first time.
LEMMA FirstDeclared ==
  ASSUME NEW inputs \in Seq(Declaration), NEW i \in Declared(inputs)
  PROVE  \E first : FirstOf(inputs, i, first)
<1> DEFINE S == {j \in Declared(inputs) : inputs[j].component = inputs[i].component}
<1>1. S \subseteq Nat /\ S # {}
  BY DeclarationAt
<1>2. PICK first \in S : \A j \in S : ~ (<<j, first>> \in OpToRel(<, Nat))
  BY <1>1, NatLessThanWellFounded, WFMin, Zenon
<1>3. /\ first \in Declared(inputs) /\ inputs[first].component = inputs[i].component
      /\ \A j \in Declared(inputs) : inputs[j].component = inputs[i].component => j \in S
  BY <1>2
<1> HIDE DEF S
<1>4. \A j \in S : ~ (j < first)
  BY <1>1, <1>2 DEF OpToRel
<1>5. ASSUME NEW j \in S PROVE first <= j
  <2>1. j \in Nat /\ first \in Nat
    BY <1>1, <1>2
  <2>2. ~ (j < first)
    BY <1>4
  <2> QED  BY <2>1, <2>2
<1> QED
  BY <1>3, <1>5 DEF FirstOf

\* A declaration that changes p is the first of its component.
LEMMA SomeIsFirst ==
  ASSUME NEW inputs \in Seq(Declaration), NEW p, NEW i \in Changing(p, inputs)
  PROVE  \A first : inputs[first].component = inputs[i].component
                    /\ FirstOf(inputs, first, first) => first = i
<1> SUFFICES ASSUME NEW first, inputs[first].component = inputs[i].component,
                    FirstOf(inputs, first, first)
             PROVE  first = i
  OBVIOUS
<1>1. first \in Declared(inputs) /\ i \in Declared(inputs)
  BY DEF FirstOf, Changing
<1>2. first \in Nat /\ i \in Nat
  BY <1>1, DeclarationAt
<1>3. first <= i
  BY <1>1 DEF FirstOf
<1>4. i <= first
  BY <1>1 DEF Changing
<1> QED
  BY <1>2, <1>3, <1>4

\* What an import of inputs makes of p: q, with nothing left to do.
Reconciled(p, q, inputs, declared) ==
  /\ DOMAIN q.components = DOMAIN p.components \cup declared
  /\ \A i \in Declared(inputs) : q.components[inputs[i].component] = inputs[i].version
  /\ \A c \in DOMAIN p.components \ declared : q.components[c] = p.components[c]
  /\ ImportEvents(q, inputs) = <<>>

\* The components that inputs declare.
DeclaredBy(inputs, declared) ==
  declared = {inputs[i].component : i \in Declared(inputs)}

\* Once all its events are applied, an import of inputs is done.
LEMMA ImportDone ==
  ASSUME NEW p \in Aggregates, NEW inputs \in Seq(Declaration), ConflictFree(inputs),
         NEW events, events = ImportEvents(p, inputs),
         NEW n, n = Len(events), NEW q, ImportedUpTo(p, events, n, q),
         NEW declared, DeclaredBy(inputs, declared)
  PROVE  Reconciled(p, q, inputs, declared)
<1> USE DEF DeclaredBy
<1>1. /\ events \in Seq(DomainEvent)
      /\ \A k \in 1..n : \E i \in Changing(p, inputs) : events[k] = ImportEvent(p, inputs[i])
      /\ \A i \in Changing(p, inputs) : \E k \in 1..n : events[k] = ImportEvent(p, inputs[i])
  BY ImportEventsAre
<1>2. ASSUME NEW k \in 1..n
      PROVE  \E i \in Changing(p, inputs) :
               events[k].component = inputs[i].component /\ events[k].version = inputs[i].version
  <2>1. PICK i \in Changing(p, inputs) : events[k] = ImportEvent(p, inputs[i])
    BY <1>1
  <2> QED  BY <2>1, ImportEventIs
<1>3. ASSUME NEW i \in Changing(p, inputs)
      PROVE  \E k \in 1..n :
               events[k].component = inputs[i].component /\ events[k].version = inputs[i].version
  <2>1. PICK k \in 1..n : events[k] = ImportEvent(p, inputs[i])
    BY <1>1
  <2> QED  BY <2>1, ImportEventIs
<1>4. \A k \in 1..n : events[k].component \in declared
  <2> TAKE k \in 1..n
  <2>1. PICK i \in Changing(p, inputs) : events[k].component = inputs[i].component
    BY <1>2
  <2> QED  BY <2>1 DEF Changing
<1>5. ASSUME NEW i \in Declared(inputs)
      PROVE  /\ inputs[i].component \in DOMAIN q.components
             /\ q.components[inputs[i].component] = inputs[i].version
  <2>1. PICK f : FirstOf(inputs, i, f)
    BY FirstDeclared
  <2>2. /\ f \in Declared(inputs) /\ inputs[f].component = inputs[i].component
        /\ FirstOf(inputs, f, f)
    BY <2>1 DEF FirstOf
  <2>3. inputs[f].version = inputs[i].version
    BY <2>2 DEF ConflictFree
  <2>4. CASE f \in Changing(p, inputs)
    <3>1. PICK k \in 1..n :
            events[k].component = inputs[f].component /\ events[k].version = inputs[f].version
      BY <1>3, <2>4
    <3> QED  BY <2>2, <2>3, <3>1 DEF ImportedUpTo
  <2>5. CASE f \notin Changing(p, inputs)
    <3>1. inputs[f].component \in DOMAIN p.components
          /\ p.components[inputs[f].component] = inputs[f].version
      BY <2>2, <2>5 DEF Changing, FirstOf
    <3>2. \A k \in 1..n : events[k].component # inputs[f].component
      <4> SUFFICES ASSUME NEW k \in 1..n, events[k].component = inputs[f].component PROVE FALSE
        OBVIOUS
      <4>1. PICK j \in Changing(p, inputs) : events[k].component = inputs[j].component
        BY <1>2
      <4>2. f = j
        BY <2>2, <4>1, SomeIsFirst
      <4> QED  BY <2>5, <4>1, <4>2
    <3> QED  BY <2>2, <2>3, <3>1, <3>2 DEF ImportedUpTo
  <2> QED  BY <2>4, <2>5
<1>6. DOMAIN q.components = DOMAIN p.components \cup declared
  <2>1. DOMAIN q.components = DOMAIN p.components \cup {events[j].component : j \in 1..n}
    BY DEF ImportedUpTo
  <2>2. \A c \in declared : c \in DOMAIN q.components
    BY <1>5
  <2> QED  BY <1>4, <2>1, <2>2
<1>7. \A c \in DOMAIN p.components \ declared : q.components[c] = p.components[c]
  BY <1>4 DEF ImportedUpTo
<1>8. ImportEvents(q, inputs) = <<>>
  <2>1. Changing(q, inputs) = {}
    BY <1>5 DEF Changing
  <2>2. PICK again : again = ImportEvents(q, inputs)
    OBVIOUS
  <2>3. again \in Seq(DomainEvent)
        /\ \A k \in 1..Len(again) : \E i \in Changing(q, inputs) :
             again[k] = ImportEvent(q, inputs[i])
    BY <2>2, ImportEventsAre
  <2>4. ~ (1 \in 1..Len(again)) /\ Len(again) \in Nat
    BY <2>1, <2>3, LenProperties
  <2> QED  BY <2>2, <2>3, <2>4, EmptySeq
<1> QED
  BY <1>5, <1>6, <1>7, <1>8 DEF Reconciled

\* After an import every declared component has the declared version, the others
\* are as they were, and the same import again changes nothing: of every project in
\* every state, the ones a crash in the middle of an import left behind included
\* (ImportComponents in domain/aggregate.go).
THEOREM ImportsReconcile == Spec => []ImportReconciles
<1>1. HInv => ImportReconciles
  <2> SUFFICES ASSUME HInv, NEW id \in ProjectID, NEW inputs \in Imports
               PROVE  LET p == LoadProject(log, id)
                          import == [op |-> "import", inputs |-> inputs]
                          events == Emits(p, import)
                          q == LoadProject(log \o Store!Versioned(id,
                                   Store!LastVersion(log, id), events), id)
                          declared == {inputs[i].component : i \in Declared(inputs)}
                      IN  Accepts(p, import) =>
                            /\ DOMAIN q.components = DOMAIN p.components \cup declared
                            /\ \A i \in Declared(inputs) :
                                 q.components[inputs[i].component] = inputs[i].version
                            /\ \A c \in DOMAIN p.components \ declared :
                                 q.components[c] = p.components[c]
                            /\ Emits(q, import) = <<>>
    BY DEF ImportReconciles
  <2>1. inputs \in Seq(Declaration)
    BY ImportsAre
  <2>2. PICK m \in Seq(Envelope) : m = log
    BY DEF HInv, Typed
  <2>3. PICK p \in Aggregates : p = LoadProject(m, id)
    BY LoadType
  <2>4. PICK import : import = [op |-> "import", inputs |-> inputs]
    OBVIOUS
  <2>5. \A x : Emits(x, import) = ImportEvents(x, inputs)
    BY <2>4 DEF Emits
  <2>6. PICK events : events = ImportEvents(p, inputs)
    OBVIOUS
  <2>7. PICK v \in Nat : v = Store!LastVersion(m, id)
    BY VersionType
  <2>8. PICK b : b = Store!Versioned(id, v, events)
    OBVIOUS
  <2>9. PICK q : q = LoadProject(m \o b, id)
    OBVIOUS
  <2>10. PICK declared : declared = {inputs[i].component : i \in Declared(inputs)}
    OBVIOUS
  <2>11. ASSUME Accepts(p, import)
         PROVE  Reconciled(p, q, inputs, declared)
    <3>1. Live(p) /\ ConflictFree(inputs)
      BY <2>4, <2>11 DEF Accepts
    <3>2. events \in Seq(DomainEvent)
      BY <2>1, <2>6, ImportEventsAre
    <3>3. BatchOf(b, id, v, events)
      BY <2>8, <3>2, BatchIs
    <3>4. b \in Seq(Envelope) /\ Len(b) = Len(events) /\ Records(b, id, events)
      BY <3>3, BatchRecords DEF BatchOf
    <3>5. PICK h : StepsOf(h, LoadProject(m, id), events) /\ h[Len(b)] = LoadProject(m \o b, id)
      BY <3>4, StepsOverConcat
    <3>6. PICK n : n = Len(events) /\ n \in 0..Len(events)
      BY <3>2, LenProperties
    <3>9. n = Len(events)
      BY <3>6
    <3>10. DeclaredBy(inputs, declared)
      BY <2>10 DEF DeclaredBy
    <3>7. StepsOf(h, p, events) /\ h[n] = q
      BY <2>3, <2>9, <3>4, <3>5, <3>6
    <3>8. ImportedUpTo(p, events, n, q)
      BY <2>1, <2>6, <3>1, <3>6, <3>7, ImportSteps
    <3>11. ConflictFree(inputs)
      BY <3>1
    <3> QED  BY <2>1, <2>6, <3>11, <3>9, <3>10, <3>8, ImportDone
  <2> QED
    BY <2>2, <2>3, <2>4, <2>5, <2>6, <2>7, <2>8, <2>9, <2>10, <2>11 DEF Reconciled
<1> QED
  BY <1>1, HistoryKept, PTL
=============================================================================
