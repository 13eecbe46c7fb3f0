---------------------------- MODULE ProjectDomain ----------------------------
(***************************************************************************)
(* The domain of the projekte module: the events of a project, the         *)
(* aggregate rebuilt from them, the commands that validate against the     *)
(* aggregate and emit events, and the view of a project the read model     *)
(* keeps (service/internal/projekte/domain, application/projection.go).    *)
(*                                                                         *)
(* An operator named after another with a suffix that says what is wrong   *)
(* and used nowhere is a variant with a bug the properties must see.       *)
(*                                                                         *)
(* Empty stands for the empty string of an input or a field.  The project  *)
(* id is the stream of the event and is not repeated in it.                *)
(***************************************************************************)
EXTENDS Naturals, Sequences, SequencesExt, Functions

CONSTANTS
  Component,   \* component coordinates
  Version,     \* component versions
  Text,        \* project names and descriptions
  Empty        \* the empty string

ASSUME EmptyAssumption == Empty \notin Component \cup Version \cup Text

DomainEvent ==
  [kind : {"created"}, name : Text, description : Text \cup {Empty}]
    \cup [kind : {"renamed"}, name : Text]
    \cup [kind : {"described"}, description : Text \cup {Empty}]
    \cup [kind : {"deleted"}]
    \cup [kind : {"added"}, component : Component, version : Version]
    \cup [kind : {"removed"}, component : Component]
    \cup [kind : {"updated"}, component : Component, version : Version]

-----------------------------------------------------------------------------
(* The aggregate.                                                          *)

NoComponents == [c \in {} |-> Empty]

\* The zero value of Project: no id, nothing in it.
Fresh == [exists |-> FALSE, deleted |-> FALSE,
          name |-> Empty, description |-> Empty, components |-> NoComponents]

\* components with version v for c, whether c was there or not.
WithComponent(components, c, v) ==
  [d \in DOMAIN components \cup {c} |-> IF d = c THEN v ELSE components[d]]

\* Project.Apply.
Apply(p, e) ==
  CASE e.kind = "created" ->
         [p EXCEPT !.exists = TRUE, !.name = e.name,
                   !.description = e.description, !.components = NoComponents]
    [] e.kind = "renamed" -> [p EXCEPT !.name = e.name]
    [] e.kind = "described" -> [p EXCEPT !.description = e.description]
    [] e.kind = "deleted" -> [p EXCEPT !.deleted = TRUE]
    [] e.kind = "added" ->
         [p EXCEPT !.components = WithComponent(@, e.component, e.version)]
    [] e.kind = "removed" ->
         [p EXCEPT !.components = Restrict(@, DOMAIN @ \ {e.component})]
    [] e.kind = "updated" ->
         IF e.component \in DOMAIN p.components
         THEN [p EXCEPT !.components = WithComponent(@, e.component, e.version)]
         ELSE p

-----------------------------------------------------------------------------
(* Commands.  Accepts(p, cmd) is the validation, Emits(p, cmd) the events  *)
(* of an accepted command.                                                 *)

Live(p) == p.exists /\ ~p.deleted

CompleteAnyVersion(d) == d.component # Empty

\* A declaration that names a component and a version.
Complete(d) == d.component # Empty /\ d.version # Empty

\* The declarations of an import that are looked at.
Declared(inputs) == {i \in DOMAIN inputs : Complete(inputs[i])}

ConflictFree(inputs) ==
  \A i, j \in Declared(inputs) :
    inputs[i].component = inputs[j].component => inputs[i].version = inputs[j].version

\* The declarations that change p: the first of each component, if p lacks
\* the component or has it in another version.
Changing(p, inputs) ==
  {i \in Declared(inputs) :
     /\ \A j \in Declared(inputs) : inputs[j].component = inputs[i].component => i <= j
     /\ inputs[i].component \in DOMAIN p.components =>
          p.components[inputs[i].component] # inputs[i].version}

ImportEventInverted(p, input) ==
  [kind |-> IF input.component \in DOMAIN p.components THEN "added" ELSE "updated",
   component |-> input.component, version |-> input.version]

ImportEvent(p, input) ==
  [kind |-> IF input.component \in DOMAIN p.components THEN "updated" ELSE "added",
   component |-> input.component, version |-> input.version]

\* The events of an import, in the order of the declarations.
ImportEvents(p, inputs) ==
  FoldLeftDomain(LAMBDA events, i :
                   IF i \in Changing(p, inputs)
                   THEN Append(events, ImportEvent(p, inputs[i])) ELSE events,
                 <<>>, inputs)

Accepts(p, cmd) ==
  CASE cmd.op = "create" -> cmd.name # Empty
    [] cmd.op = "rename" -> Live(p) /\ cmd.name # Empty
    [] cmd.op \in {"describe", "delete"} -> Live(p)
    [] cmd.op = "add" ->
         Live(p) /\ Complete(cmd) /\ cmd.component \notin DOMAIN p.components
    [] cmd.op = "remove" -> Live(p) /\ cmd.component \in DOMAIN p.components
    [] cmd.op = "update" ->
         Live(p) /\ cmd.version # Empty /\ cmd.component \in DOMAIN p.components
    [] cmd.op = "import" -> Live(p) /\ ConflictFree(cmd.inputs)

Emits(p, cmd) ==
  CASE cmd.op = "create" ->
         <<[kind |-> "created", name |-> cmd.name, description |-> cmd.description]>>
    [] cmd.op = "rename" -> <<[kind |-> "renamed", name |-> cmd.name]>>
    [] cmd.op = "describe" -> <<[kind |-> "described", description |-> cmd.description]>>
    [] cmd.op = "delete" -> <<[kind |-> "deleted"]>>
    [] cmd.op = "add" ->
         <<[kind |-> "added", component |-> cmd.component, version |-> cmd.version]>>
    [] cmd.op = "remove" -> <<[kind |-> "removed", component |-> cmd.component]>>
    [] cmd.op = "update" ->
         <<[kind |-> "updated", component |-> cmd.component, version |-> cmd.version]>>
    [] cmd.op = "import" -> ImportEvents(p, cmd.inputs)

-----------------------------------------------------------------------------
(* The read model's entry for one project: Absent, or a view whose         *)
(* components are a list, in the order they were added.                    *)

Absent == [shown |-> FALSE]

View(name, description) ==
  [shown |-> TRUE, name |-> name, description |-> description, components |-> <<>>]

Entry(c, v) == [component |-> c, version |-> v]

\* The entries of the list that are not component c's.
Without(list, c) ==
  FoldLeft(LAMBDA out, x : IF x.component # c THEN Append(out, x) ELSE out, <<>>, list)

\* ProjectProjection.Apply, on the entry of the event's project.  An event
\* of a project that is not there is ignored, except the one that creates it.
Project(view, e) ==
  CASE e.kind = "created" -> View(e.name, e.description)
    [] e.kind # "created" /\ ~view.shown -> view
    [] e.kind = "renamed" /\ view.shown -> [view EXCEPT !.name = e.name]
    [] e.kind = "described" /\ view.shown -> [view EXCEPT !.description = e.description]
    [] e.kind = "deleted" /\ view.shown -> Absent
    [] e.kind = "added" /\ view.shown ->
         [view EXCEPT !.components = Append(@, Entry(e.component, e.version))]
    [] e.kind = "removed" /\ view.shown ->
         [view EXCEPT !.components = Without(@, e.component)]
    [] e.kind = "updated" /\ view.shown ->
         [view EXCEPT !.components =
            [i \in DOMAIN @ |-> IF @[i].component = e.component
                                THEN Entry(e.component, e.version) ELSE @[i]]]

\* What the read model ought to show of an aggregate: nothing of a project
\* that does not exist or is deleted, and otherwise every component once.
Shows(view, p) ==
  IF ~Live(p) THEN view = Absent
  ELSE /\ view.shown
       /\ view.name = p.name
       /\ view.description = p.description
       /\ Len(view.components) = Cardinality(DOMAIN p.components)
       /\ ToSet(view.components) = {Entry(c, p.components[c]) : c \in DOMAIN p.components}

-----------------------------------------------------------------------------
\* A reference for the commands: the events that make sense after p.  A
\* project is created once and nothing happens to it after its deletion; a
\* component is added when it is absent, removed or updated when it is there.
Sensible(p, e) ==
  CASE e.kind = "created" -> ~p.exists
    [] e.kind \in {"renamed", "described", "deleted"} -> Live(p)
    [] e.kind = "added" -> Live(p) /\ e.component \notin DOMAIN p.components
    [] e.kind \in {"removed", "updated"} -> Live(p) /\ e.component \in DOMAIN p.components
==============================================================================
