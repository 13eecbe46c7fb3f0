------------------------------ MODULE VulnDomain ------------------------------
(***************************************************************************)
(* The domain of the schwachstellen module: the record of a vulnerability, *)
(* the commands that turn a record into the next one, and the state the    *)
(* events of the legacy log add up to                                      *)
(* (service/internal/schwachstellen/domain, application/command.go,        *)
(* migration/migration.go).                                                *)
(*                                                                         *)
(* The title, the description and the score of a record change together    *)
(* and only an empty title makes a difference: they are one value, Empty   *)
(* where the title is the empty string.  The identifier is never changed   *)
(* and is left out.                                                        *)
(*                                                                         *)
(* An operator named after another with a suffix that says what is wrong   *)
(* and used nowhere is a variant with a bug the properties must see.       *)
(***************************************************************************)
EXTENDS Naturals, Sequences, SequencesExt, Functions

CONSTANTS
  Component,     \* component coordinates
  VersionRange,  \* range expressions
  Ecosystem,     \* OSV ecosystems
  Meta,          \* titles, each with a description and a score
  Empty          \* the empty string

ASSUME EmptyIsNoValue ==
  /\ Empty \notin Component /\ Empty \notin VersionRange
  /\ Empty \notin Ecosystem /\ Empty \notin Meta

Source == {"manual", "osv"}

\* Reconcile takes an empty range as it is; AddAffectedRange does not.
AffectedRange == [range : VersionRange \cup {Empty}, ecosystem : Ecosystem \cup {Empty}]

NoRanges == [c \in {} |-> Empty]

\* Vulnerability and Record: what toRecord and fromRecord translate into each
\* other.  affected maps a component to its range.
Record ==
  [meta : Meta \cup {Empty}, source : Source, deleted : BOOLEAN,
   affected : UNION {[C -> AffectedRange] : C \in SUBSET Component}]

NoRecord == [kind |-> "none"]

\* Ecosystems, as toRecord derives them for the search index.
EcosystemsOf(rec) == {rec.affected[c].ecosystem : c \in DOMAIN rec.affected} \ {Empty}

-----------------------------------------------------------------------------
(* Commands.  v is the record the handler has loaded, NoRecord if there is *)
(* none or it is deleted: the store hides deleted records from it.         *)

Input ==
  [component : Component \cup {Empty}, range : VersionRange \cup {Empty},
   ecosystem : Ecosystem \cup {Empty}]

Command ==
  [op : {"create", "update"}, meta : Meta \cup {Empty}]
    \cup [op : {"delete"}]
    \cup [op : {"add"}, component : Component \cup {Empty}, range : VersionRange \cup {Empty}]
    \cup [op : {"remove"}, component : Component \cup {Empty}]
    \cup [op : {"import", "reconcile"}, meta : Meta \cup {Empty}, inputs : SUBSET Input]

New(meta, source) ==
  [meta |-> meta, source |-> source, deleted |-> FALSE, affected |-> NoRanges]

\* The ranges declared for components; an entry without a component is skipped.
\* Neither the order nor the number of equal entries makes a difference.
Declared(inputs) == {d \in inputs : d.component # Empty}

\* No component is declared with two different ranges.
Consistent(inputs) ==
  \A a, b \in Declared(inputs) : a.component = b.component => a.range = b.range

\* Reconcile: metadata and ranges replaced.  The ecosystem of a range is that
\* of the range it replaces; the one in the input is not looked at.
Reconcile(v, meta, inputs) ==
  LET rangeOf(c) == (CHOOSE d \in Declared(inputs) : d.component = c).range
      declared == {d.component : d \in Declared(inputs)}
      known(c) == IF c \in DOMAIN v.affected THEN v.affected[c].ecosystem ELSE Empty
  IN  [v EXCEPT !.meta = meta,
                !.affected = [c \in declared |->
                                [range |-> rangeOf(c), ecosystem |-> known(c)]]]

\* The record is found and not deleted.
Loaded(v) == v # NoRecord /\ ~v.deleted

\* The validation of each command.
Accepts(v, cmd) ==
  CASE cmd.op = "create" -> cmd.meta # Empty /\ v = NoRecord
    [] cmd.op \in {"update", "delete"} -> Loaded(v)
    [] cmd.op = "add" ->
         Loaded(v) /\ cmd.component # Empty /\ cmd.range # Empty
           /\ cmd.component \notin DOMAIN v.affected
    [] cmd.op = "remove" -> Loaded(v) /\ cmd.component \in DOMAIN v.affected
    [] cmd.op = "import" ->
         /\ v = NoRecord => cmd.meta # Empty
         /\ v # NoRecord => ~v.deleted
         /\ Consistent(cmd.inputs)
    [] cmd.op = "reconcile" -> Loaded(v) /\ Consistent(cmd.inputs)

\* The record an accepted command stores.
Result(v, cmd) ==
  CASE cmd.op = "create" -> New(cmd.meta, "manual")
    [] cmd.op = "update" -> [v EXCEPT !.meta = cmd.meta]
    [] cmd.op = "delete" -> [v EXCEPT !.deleted = TRUE]
    [] cmd.op = "add" ->
         [v EXCEPT !.affected =
            [c \in DOMAIN @ \cup {cmd.component} |->
               IF c = cmd.component THEN [range |-> cmd.range, ecosystem |-> Empty] ELSE @[c]]]
    [] cmd.op = "remove" ->
         [v EXCEPT !.affected = Restrict(@, DOMAIN @ \ {cmd.component})]
    [] cmd.op = "import" ->
         Reconcile(IF v = NoRecord THEN New(cmd.meta, "osv") ELSE v, cmd.meta, cmd.inputs)
    [] cmd.op = "reconcile" -> Reconcile(v, cmd.meta, cmd.inputs)

-----------------------------------------------------------------------------
(* The legacy log: applyEvent of the migration and the state it ends in.   *)

ApplyLegacy(v, e) ==
  CASE e.kind = "created" -> New(e.meta, e.source)
    [] v = NoRecord -> NoRecord
    [] e.kind = "updated" -> IF e.meta # Empty THEN [v EXCEPT !.meta = e.meta] ELSE v
    [] e.kind = "deleted" -> [v EXCEPT !.deleted = TRUE]
    [] e.kind = "rangeAdded" ->
         [v EXCEPT !.affected =
            [c \in DOMAIN @ \cup {e.component} |->
               IF c = e.component THEN [range |-> e.range, ecosystem |-> Empty] ELSE @[c]]]
    [] e.kind = "rangeRemoved" ->
         [v EXCEPT !.affected = Restrict(@, DOMAIN @ \ {e.component})]

LegacyState(events) == FoldLeft(ApplyLegacy, NoRecord, events)
==============================================================================
