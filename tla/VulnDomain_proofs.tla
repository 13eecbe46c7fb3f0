--------------------------- MODULE VulnDomain_proofs ---------------------------
(***************************************************************************)
(* What the commands of the schwachstellen module make of a record, for    *)
(* all records and inputs.                                                 *)
(***************************************************************************)
EXTENDS VulnDomain, SequenceTheorems, TLAPS

\* What the affected ranges of a record are.
LEMMA AffectedIs ==
  ASSUME NEW f
  PROVE  f \in UNION {[C -> AffectedRange] : C \in SUBSET Component}
           <=> DOMAIN f \subseteq Component /\ f \in [DOMAIN f -> AffectedRange]
OBVIOUS

LEMMA RecordFields ==
  ASSUME NEW v \in Record
  PROVE  /\ v.meta \in Meta \cup {Empty} /\ v.source \in Source /\ v.deleted \in BOOLEAN
         /\ DOMAIN v.affected \subseteq Component
         /\ v.affected \in [DOMAIN v.affected -> AffectedRange]
<1>1. v.affected \in UNION {[C -> AffectedRange] : C \in SUBSET Component}
  BY DEF Record
<1> QED  BY <1>1, AffectedIs DEF Record

\* A record with other ranges is a record.
LEMMA WithAffected ==
  ASSUME NEW v \in Record, NEW f, DOMAIN f \subseteq Component,
         f \in [DOMAIN f -> AffectedRange]
  PROVE  [v EXCEPT !.affected = f] \in Record
<1>1. f \in UNION {[C -> AffectedRange] : C \in SUBSET Component}
  BY AffectedIs
<1> QED  BY <1>1 DEF Record

LEMMA NewType ==
  ASSUME NEW meta \in Meta \cup {Empty}, NEW source \in Source
  PROVE  New(meta, source) \in Record
<1>1. DOMAIN NoRanges = {} /\ NoRanges \in [{} -> AffectedRange]
  BY DEF NoRanges
<1>2. NoRanges \in UNION {[C -> AffectedRange] : C \in SUBSET Component}
  BY <1>1, AffectedIs
<1> QED  BY <1>2 DEF New, Record

LEMMA ReconcileType ==
  ASSUME NEW v \in Record, NEW meta \in Meta \cup {Empty}, NEW inputs \in SUBSET Input
  PROVE  Reconcile(v, meta, inputs) \in Record
<1> DEFINE declared == {d.component : d \in Declared(inputs)}
           rangeOf(c) == (CHOOSE d \in Declared(inputs) : d.component = c).range
           known(c) == IF c \in DOMAIN v.affected THEN v.affected[c].ecosystem ELSE Empty
           f == [c \in declared |-> [range |-> rangeOf(c), ecosystem |-> known(c)]]
<1>1. \A d \in Declared(inputs) : d \in Input /\ d.component # Empty
  BY DEF Declared
<1>2. declared \subseteq Component
  BY <1>1 DEF Input
<1>3. \A c \in declared : rangeOf(c) \in VersionRange \cup {Empty}
  BY <1>1 DEF Input
<1>4. \A c \in declared : known(c) \in Ecosystem \cup {Empty}
  BY RecordFields DEF AffectedRange
<1>5. DOMAIN f = declared /\ f \in [declared -> AffectedRange]
  BY <1>3, <1>4 DEF AffectedRange
<1>6. Reconcile(v, meta, inputs) = [v EXCEPT !.meta = meta, !.affected = f]
  BY DEF Reconcile
<1> HIDE DEF f, declared, rangeOf, known
<1>7. [v EXCEPT !.meta = meta] \in Record
  BY DEF Record
<1>8. [[v EXCEPT !.meta = meta] EXCEPT !.affected = f] \in Record
  BY <1>2, <1>5, <1>7, WithAffected
<1>9. Reconcile(v, meta, inputs) = [[v EXCEPT !.meta = meta] EXCEPT !.affected = f]
  BY <1>6 DEF Record
<1> QED  BY <1>8, <1>9

\* No range of the record is the empty expression.
Ranged(rec) == \A c \in DOMAIN rec.affected : rec.affected[c].range # Empty

\* The ranges of a reconciled record are declared ones.
LEMMA ReconcileRanges ==
  ASSUME NEW v \in Record, NEW meta \in Meta \cup {Empty}, NEW inputs \in SUBSET Input,
         \A d \in inputs : d.range # Empty
  PROVE  Ranged(Reconcile(v, meta, inputs))
<1> DEFINE declared == {d.component : d \in Declared(inputs)}
           rangeOf(c) == (CHOOSE d \in Declared(inputs) : d.component = c).range
           known(c) == IF c \in DOMAIN v.affected THEN v.affected[c].ecosystem ELSE Empty
           f == [c \in declared |-> [range |-> rangeOf(c), ecosystem |-> known(c)]]
<1>1. \A d \in Declared(inputs) : d.range # Empty
  BY DEF Declared
<1>2. \A c \in declared : rangeOf(c) # Empty
  BY <1>1
<1>3. DOMAIN f = declared /\ \A c \in declared : f[c].range = rangeOf(c)
  OBVIOUS
<1>4. Reconcile(v, meta, inputs) = [v EXCEPT !.meta = meta, !.affected = f]
  BY DEF Reconcile
<1>5. \A c \in DOMAIN f : f[c].range # Empty
  BY <1>2, <1>3
<1> HIDE DEF f
<1>6. Reconcile(v, meta, inputs).affected = f
  BY <1>4 DEF Record
<1> QED  BY <1>5, <1>6 DEF Ranged

\* aggregate.go:166-186.  Reconcile replaces the ranges: those of the result
\* are the declared ones, each of them and no other.
LEMMA ReconcileDeclares ==
  ASSUME NEW v \in Record, NEW meta, NEW inputs \in SUBSET Input, Consistent(inputs)
  PROVE  /\ Reconcile(v, meta, inputs).deleted = v.deleted
         /\ DOMAIN Reconcile(v, meta, inputs).affected
              = {d.component : d \in Declared(inputs)}
         /\ \A d \in Declared(inputs) :
              Reconcile(v, meta, inputs).affected[d.component].range = d.range
<1> DEFINE declared == {d.component : d \in Declared(inputs)}
           rangeOf(c) == (CHOOSE d \in Declared(inputs) : d.component = c).range
           known(c) == IF c \in DOMAIN v.affected THEN v.affected[c].ecosystem ELSE Empty
           f == [c \in declared |-> [range |-> rangeOf(c), ecosystem |-> known(c)]]
<1>1. ASSUME NEW d \in Declared(inputs)
      PROVE  rangeOf(d.component) = d.range
  <2>1. PICK e : e = CHOOSE x \in Declared(inputs) : x.component = d.component
    OBVIOUS
  <2>2. e \in Declared(inputs) /\ e.component = d.component
    BY <2>1
  <2>3. e.range = d.range
    BY <2>2 DEF Consistent
  <2> QED  BY <2>1, <2>3
<1>2. DOMAIN f = declared /\ \A d \in Declared(inputs) : f[d.component].range = d.range
  BY <1>1
<1>3. Reconcile(v, meta, inputs) = [v EXCEPT !.meta = meta, !.affected = f]
  BY DEF Reconcile
<1> HIDE DEF f
<1>4. Reconcile(v, meta, inputs).affected = f /\ Reconcile(v, meta, inputs).deleted = v.deleted
  BY <1>3 DEF Record
<1> QED  BY <1>2, <1>4

\* command.go:112-145.  An accepted import leaves a record that is not deleted
\* and has the declared ranges, whatever it was before.
LEMMA ImportDeclares ==
  ASSUME NEW v \in Record \cup {NoRecord}, NEW cmd \in Command, cmd.op = "import",
         Accepts(v, cmd)
  PROVE  /\ ~Result(v, cmd).deleted
         /\ DOMAIN Result(v, cmd).affected = {d.component : d \in Declared(cmd.inputs)}
         /\ \A d \in Declared(cmd.inputs) :
              Result(v, cmd).affected[d.component].range = d.range
<1> DEFINE u == IF v = NoRecord THEN New(cmd.meta, "osv") ELSE v
<1>1. cmd.meta \in Meta \cup {Empty} /\ cmd.inputs \in SUBSET Input
  BY DEF Command
<1>2. u \in Record /\ ~u.deleted /\ Consistent(cmd.inputs)
  BY <1>1, NewType DEF Source, Accepts, New
<1>3. Result(v, cmd) = Reconcile(u, cmd.meta, cmd.inputs)
  BY DEF Result
<1> HIDE DEF u
<1> QED  BY <1>1, <1>2, <1>3, ReconcileDeclares

\* What an accepted command stores is a record.
LEMMA ResultType ==
  ASSUME NEW v \in Record \cup {NoRecord}, NEW cmd \in Command, Accepts(v, cmd)
  PROVE  Result(v, cmd) \in Record
<1>1. CASE cmd.op = "create"
  <2>1. cmd.meta \in Meta \cup {Empty}
    BY <1>1 DEF Command
  <2>2. Result(v, cmd) = New(cmd.meta, "manual")
    BY <1>1 DEF Result
  <2> QED  BY <2>1, <2>2, NewType DEF Source
<1>2. CASE cmd.op = "update"
  <2>1. v \in Record /\ cmd.meta \in Meta \cup {Empty}
    BY <1>2 DEF Accepts, Loaded, Command
  <2>2. Result(v, cmd) = [v EXCEPT !.meta = cmd.meta]
    BY <1>2 DEF Result
  <2> QED  BY <2>1, <2>2 DEF Record
<1>3. CASE cmd.op = "delete"
  <2>1. v \in Record
    BY <1>3 DEF Accepts, Loaded
  <2>2. Result(v, cmd) = [v EXCEPT !.deleted = TRUE]
    BY <1>3 DEF Result
  <2> QED  BY <2>1, <2>2 DEF Record
<1>4. CASE cmd.op = "add"
  <2>1. v \in Record /\ cmd.component \in Component /\ cmd.range \in VersionRange \cup {Empty}
    BY <1>4 DEF Accepts, Loaded, Command
  <2> DEFINE f == [c \in DOMAIN v.affected \cup {cmd.component} |->
                     IF c = cmd.component THEN [range |-> cmd.range, ecosystem |-> Empty]
                     ELSE v.affected[c]]
  <2>2. Result(v, cmd) = [v EXCEPT !.affected = f]
    BY <1>4 DEF Result
  <2>3. DOMAIN f \subseteq Component /\ f \in [DOMAIN f -> AffectedRange]
    BY <2>1, RecordFields DEF AffectedRange
  <2> HIDE DEF f
  <2> QED  BY <2>1, <2>2, <2>3, WithAffected
<1>5. CASE cmd.op = "remove"
  <2>1. v \in Record
    BY <1>5 DEF Accepts, Loaded
  <2> DEFINE f == [c \in DOMAIN v.affected \ {cmd.component} |-> v.affected[c]]
  <2>2. Result(v, cmd) = [v EXCEPT !.affected = f]
    BY <1>5 DEF Result, Restrict
  <2>3. DOMAIN f \subseteq Component /\ f \in [DOMAIN f -> AffectedRange]
    BY <2>1, RecordFields
  <2> HIDE DEF f
  <2> QED  BY <2>1, <2>2, <2>3, WithAffected
<1>6. CASE cmd.op = "import"
  <2>1. cmd.meta \in Meta \cup {Empty} /\ cmd.inputs \in SUBSET Input
    BY <1>6 DEF Command
  <2> DEFINE u == IF v = NoRecord THEN New(cmd.meta, "osv") ELSE v
  <2>2. u \in Record
    BY <2>1, NewType DEF Source
  <2>3. Result(v, cmd) = Reconcile(u, cmd.meta, cmd.inputs)
    BY <1>6 DEF Result
  <2> HIDE DEF u
  <2> QED  BY <2>1, <2>2, <2>3, ReconcileType
<1>7. CASE cmd.op = "reconcile"
  <2>1. v \in Record /\ cmd.meta \in Meta \cup {Empty} /\ cmd.inputs \in SUBSET Input
    BY <1>7 DEF Accepts, Loaded, Command
  <2>2. Result(v, cmd) = Reconcile(v, cmd.meta, cmd.inputs)
    BY <1>7 DEF Result
  <2> QED  BY <2>1, <2>2, ReconcileType
<1>8. cmd.op \in {"create", "update", "delete", "add", "remove", "import", "reconcile"}
  BY DEF Command
<1> QED  BY <1>1, <1>2, <1>3, <1>4, <1>5, <1>6, <1>7, <1>8

\* aggregate.go:115-117, sync.go:224.  No command brings in an empty range,
\* unless it is an import or a reconciliation whose caller declares one.
LEMMA ResultRanges ==
  ASSUME NEW v \in Record \cup {NoRecord}, NEW cmd \in Command, Accepts(v, cmd),
         v \in Record => Ranged(v),
         cmd.op \in {"import", "reconcile"} =>
           \A d \in cmd.inputs : d.range # Empty
  PROVE  Ranged(Result(v, cmd))
<1>1. CASE cmd.op = "create"
  <2>1. Result(v, cmd).affected = NoRanges
    BY <1>1 DEF Result, New
  <2> QED  BY <2>1 DEF Ranged, NoRanges
<1>2. CASE cmd.op = "update"
  <2>1. v \in Record /\ Result(v, cmd) = [v EXCEPT !.meta = cmd.meta]
    BY <1>2 DEF Accepts, Loaded, Result
  <2> QED  BY <2>1 DEF Record, Ranged
<1>3. CASE cmd.op = "delete"
  <2>1. v \in Record /\ Result(v, cmd) = [v EXCEPT !.deleted = TRUE]
    BY <1>3 DEF Accepts, Loaded, Result
  <2> QED  BY <2>1 DEF Record, Ranged
<1>4. CASE cmd.op = "add"
  <2> DEFINE f == [c \in DOMAIN v.affected \cup {cmd.component} |->
                     IF c = cmd.component THEN [range |-> cmd.range, ecosystem |-> Empty]
                     ELSE v.affected[c]]
  <2>1. v \in Record /\ cmd.range # Empty /\ Result(v, cmd) = [v EXCEPT !.affected = f]
    BY <1>4 DEF Accepts, Loaded, Result
  <2>2. \A c \in DOMAIN f : f[c].range # Empty
    BY <2>1 DEF Ranged
  <2> HIDE DEF f
  <2>3. Result(v, cmd).affected = f
    BY <2>1 DEF Record
  <2> QED  BY <2>2, <2>3 DEF Ranged
<1>5. CASE cmd.op = "remove"
  <2> DEFINE f == [c \in DOMAIN v.affected \ {cmd.component} |-> v.affected[c]]
  <2>1. v \in Record /\ Result(v, cmd) = [v EXCEPT !.affected = f]
    BY <1>5 DEF Accepts, Loaded, Result, Restrict
  <2>2. \A c \in DOMAIN f : f[c].range # Empty
    BY <2>1 DEF Ranged
  <2> HIDE DEF f
  <2>3. Result(v, cmd).affected = f
    BY <2>1 DEF Record
  <2> QED  BY <2>2, <2>3 DEF Ranged
<1>6. CASE cmd.op \in {"import", "reconcile"}
  <2>1. cmd.meta \in Meta \cup {Empty} /\ cmd.inputs \in SUBSET Input
    BY <1>6 DEF Command
  <2> DEFINE u == IF cmd.op = "import" /\ v = NoRecord THEN New(cmd.meta, "osv") ELSE v
  <2>2. u \in Record
    BY <1>6, <2>1, NewType DEF Source, Accepts, Loaded
  <2>3. Result(v, cmd) = Reconcile(u, cmd.meta, cmd.inputs)
    BY <1>6 DEF Result
  <2> HIDE DEF u
  <2> QED  BY <1>6, <2>1, <2>2, <2>3, ReconcileRanges
<1>7. cmd.op \in {"create", "update", "delete", "add", "remove", "import", "reconcile"}
  BY DEF Command
<1> QED  BY <1>1, <1>2, <1>3, <1>4, <1>5, <1>6, <1>7
==============================================================================
