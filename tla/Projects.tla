------------------------------ MODULE Projects -------------------------------
(***************************************************************************)
(* The projekte module at work: requests that load a project, decide, hand *)
(* the events to the event store and publish them on the bus, the read     *)
(* model that subscribes to the bus, and crash and restart of the service  *)
(* (projekte/application/command.go and projection.go, eventstore/bus.go,  *)
(* the project routes of server/server.go, cmd/jansvca/main.go).           *)
(*                                                                         *)
(* The event store is the one module EventLog promises: an Append is one   *)
(* step, and a crash may leave part of an unfinished one.  The mutex is    *)
(* given back before the first Publish, and Publish runs the read model's  *)
(* handler outside the lock of the bus, so every Publish is a step of its  *)
(* own and other requests run between them.                                *)
(***************************************************************************)
EXTENDS ProjectDomain

CONSTANTS
  ProjectID,    \* project ids, the streams of the store
  Worker,       \* requests in progress at the same time
  Imports,      \* the lists of declarations that are imported
  MaxBatch,     \* bound: events of one import
  MaxLog,       \* bound: events in the store
  MaxCrashes    \* bound: crashes

\* The declarations of an import; the name or the version of one may be missing.
ASSUME ImportsAssumption ==
  Imports \subseteq Seq([component : Component \cup {Empty}, version : Version \cup {Empty}])

VARIABLES
  log, safe, up,   \* the event store, see EventLog
  view,            \* ProjectProjection.projects
  request,         \* what each worker is doing
  overtaken,       \* history: the projects of which an event was published
                   \* before an older one, since the last start
  crashes          \* number of crashes so far

store == <<log, safe, up>>
vars == <<store, view, request, overtaken, crashes>>

Store == INSTANCE EventLog WITH Stream <- ProjectID, Event <- DomainEvent

Idle == [at |-> "idle"]

\* What Apply makes of the envelopes of project id in m, from the first to the
\* last, those in skipped left out; and the aggregate Repository.Load rebuilds.
Rebuilt(m, id, skipped) ==
  FoldLeft(LAMBDA p, env :
             IF env.stream = id /\ env \notin skipped THEN Apply(p, env.event) ELSE p,
           Fresh, m)

LoadProject(m, id) == Rebuilt(m, id, {})

\* Every project as the read model shows it, and what one envelope changes.
NoViews == [id \in ProjectID |-> Absent]

Shown(views, env) == [views EXCEPT ![env.stream] = Project(@, env.event)]

\* The read model rebuilt from a sequence of envelopes.
Projection(m) == FoldLeft(Shown, NoViews, m)

-----------------------------------------------------------------------------
(* The commands the routes of the server call, with the inputs the server  *)
(* passes on.  A PATCH with both fields is a rename and, once that is      *)
(* done, a second command.                                                 *)

Texts == Text \cup {Empty}

Commands ==
  [op : {"create"}, name : Texts, description : Texts]
    \cup [op : {"rename"}, name : Text]
    \cup [op : {"describe"}, description : Texts]
    \cup [op : {"delete"}]
    \cup [op : {"add"}, component : Component \cup {Empty}, version : Version \cup {Empty}]
    \cup [op : {"remove"}, component : Component]
    \cup [op : {"update"}, component : Component, version : Version \cup {Empty}]
    \cup [op : {"import"}, inputs : Imports]

Describe(d) == [op |-> "describe", description |-> d]

\* What follows a command in the same request: nothing, or the second half
\* of a PATCH, whose description may be empty when the URL asks for it.
FollowUps(cmd) ==
  IF cmd.op = "rename" THEN {<<>>} \cup {<<Describe(d)>> : d \in Texts} ELSE {<<>>}

Init ==
  /\ Store!Init
  /\ view = NoViews
  /\ request = [w \in Worker |-> Idle]
  /\ overtaken = {}
  /\ crashes = 0

\* The version the command is committed at: creation expects a new stream,
\* every other command the version of the aggregate it was decided on.
ExpectedVersion(id, cmd) ==
  IF cmd.op = "create" THEN 0 ELSE Store!LastVersion(log, id)

\* Load and validate: the command is accepted and its events are at hand.
Decide(w, id, cmd, rest) ==
  LET p == LoadProject(log, id) IN
  /\ Accepts(p, cmd)
  /\ request' = [request EXCEPT ![w] =
       [at |-> "decided", id |-> id, expected |-> ExpectedVersion(id, cmd),
        events |-> Emits(p, cmd), rest |-> rest]]
  /\ UNCHANGED <<store, view, overtaken, crashes>>

\* The number of events the requests in progress may still store.
Outstanding(r) ==
  CASE r.at = "idle" -> 0
    [] r.at = "decided" -> Len(r.events) + Len(r.rest)
    [] r.at = "publish" -> Len(r.rest)
    [] r.at = "again" -> 1

\* A request begins, if the bound on the log leaves room for its events.
Begin(w, id, cmd, rest) ==
  /\ up
  /\ request[w].at = "idle"
  /\ Len(log) + Len(Emits(LoadProject(log, id), cmd)) + Len(rest)
       + MapThenSumSet(LAMBDA v : Outstanding(request[v]), Worker) <= MaxLog
  /\ Decide(w, id, cmd, rest)

\* A refused request ends with an error and changes nothing.
Refuse(w, id, cmd) ==
  /\ up
  /\ request[w].at = "idle"
  /\ ~Accepts(LoadProject(log, id), cmd)
  /\ UNCHANGED vars

\* The request is answered, or goes on with its second command.
Done(w) ==
  request' = [request EXCEPT ![w] =
    IF @.rest = <<>> THEN Idle
    ELSE [at |-> "again", id |-> @.id, cmd |-> Head(@.rest)]]

\* The second command of a PATCH loads the project anew.
Again(w) ==
  /\ request[w].at = "again"
  /\ Decide(w, request[w].id, request[w].cmd, <<>>)

\* It may be refused: the answer is an error, the first command stands.
AgainRefused(w) ==
  /\ request[w].at = "again"
  /\ ~Accepts(LoadProject(log, request[w].id), request[w].cmd)
  /\ request' = [request EXCEPT ![w] = Idle]
  /\ UNCHANGED <<store, view, overtaken, crashes>>

-----------------------------------------------------------------------------
(* commit: Append, then Publish one by one.                                *)

CommitUnchecked(w) ==
  LET r == request[w] IN
  /\ r.at = "decided" /\ r.events # <<>>
  /\ Store!AppendBatch(r.id, Store!LastVersion(log, r.id), r.events)
  /\ request' = [request EXCEPT ![w] =
       [at |-> "publish", id |-> r.id, rest |-> r.rest,
        queue |-> Store!Versioned(r.id, Store!LastVersion(log, r.id), r.events)]]
  /\ UNCHANGED <<view, overtaken, crashes>>

CommitAppend(w) ==
  LET r == request[w] IN
  /\ r.at = "decided" /\ r.events # <<>>
  /\ Store!AppendBatch(r.id, r.expected, r.events)
  /\ request' = [request EXCEPT ![w] =
       [at |-> "publish", id |-> r.id, rest |-> r.rest,
        queue |-> Store!Versioned(r.id, r.expected, r.events)]]
  /\ UNCHANGED <<view, overtaken, crashes>>

\* ErrConcurrency: the project has changed since it was loaded.
CommitConflict(w) ==
  LET r == request[w] IN
  /\ r.at = "decided" /\ r.events # <<>>
  /\ r.expected # Store!LastVersion(log, r.id)
  /\ request' = [request EXCEPT ![w] = Idle]
  /\ UNCHANGED <<store, view, overtaken, crashes>>

\* An import that finds nothing to change commits an empty batch.
CommitNothing(w) ==
  /\ request[w].at = "decided" /\ request[w].events = <<>>
  /\ Done(w)
  /\ UNCHANGED <<store, view, overtaken, crashes>>

\* The envelopes the workers have stored and not yet published.
Unpublished ==
  UNION {IF request[w].at = "publish" THEN ToSet(request[w].queue) ELSE {} : w \in Worker}

\* Publish hands the next envelope to the read model.
Publish(w) ==
  LET r == request[w]
      env == Head(r.queue)
      left == Tail(r.queue)
  IN
  /\ r.at = "publish"
  /\ view' = Shown(view, env)
  /\ overtaken' = overtaken \cup
       {e.stream : e \in {f \in Unpublished :
                            f.stream = env.stream /\ f.version < env.version}}
  /\ IF left = <<>> THEN Done(w)
     ELSE request' = [request EXCEPT ![w].queue = left]
  /\ UNCHANGED <<store, crashes>>

-----------------------------------------------------------------------------
\* The process ends; the store is in one of the states EventLog allows, with
\* part of a batch only if a request was about to append it.
Crash ==
  /\ crashes < MaxCrashes
  /\ crashes' = crashes + 1
  /\ \/ Store!LoseTail
     \/ \E w \in Worker :
          /\ request[w].at = "decided"
          /\ request[w].expected = Store!LastVersion(log, request[w].id)
          /\ Store!Partial(request[w].id, request[w].events)
  /\ request' = [w \in Worker |-> Idle]
  /\ view' = NoViews
  /\ overtaken' = {}

RestartWithoutReplay ==
  /\ Store!Restart
  /\ UNCHANGED <<view, request, overtaken, crashes>>

\* main replays the log into a new read model before it subscribes it to the
\* bus and before it serves requests.
Restart ==
  /\ Store!Restart
  /\ view' = Projection(log)
  /\ UNCHANGED <<request, overtaken, crashes>>

Next ==
  \/ \E w \in Worker, id \in ProjectID, cmd \in Commands :
       \/ \E rest \in FollowUps(cmd) : Begin(w, id, cmd, rest)
       \/ Refuse(w, id, cmd)
  \/ \E w \in Worker :
       \/ Again(w)
       \/ AgainRefused(w)
       \/ CommitAppend(w)
       \/ CommitConflict(w)
       \/ CommitNothing(w)
       \/ Publish(w)
  \/ Crash
  \/ Restart

Spec == Init /\ [][Next]_vars

-----------------------------------------------------------------------------
(* Properties.                                                             *)

TypeOK ==
  /\ log \in Seq([stream : ProjectID, version : Nat, event : DomainEvent])
  /\ safe \in 0..Len(log)
  /\ up \in BOOLEAN
  /\ overtaken \subseteq ProjectID
  /\ \A w \in Worker :
       /\ request[w].at \in {"idle", "decided", "publish", "again"}
       /\ request[w].at # "idle" => request[w].id \in ProjectID

\* architecture.md:162-163, the version check "schützt vor verlorenen Updates":
\* every event in the store makes sense where it stands, although its command
\* was decided on an earlier state and other requests ran in between.  Nothing
\* follows a deletion, no component is added twice or removed twice.
LegalHistory ==
  \A i \in DOMAIN log :
    Sensible(LoadProject(SubSeq(log, 1, i - 1), log[i].stream), log[i].event)

\* The read model shows, of every project, exactly what the events stored and
\* published so far make of it, also after a restart: unless an event of the
\* project was published before an older one.
ReadModelFollows ==
  up => \A id \in ProjectID \ overtaken :
          Shows(view[id], Rebuilt(log, id, Unpublished))

\* architecture.md:26, "gelöschte Entitäten werden nicht angezeigt": when no
\* request is in progress, a deleted project is not in the read model.
DeletedHidden ==
  (up /\ \A w \in Worker : request[w] = Idle) =>
    \A id \in ProjectID : LoadProject(log, id).deleted => ~view[id].shown

\* ImportComponents "reconciles" (domain/aggregate.go:219-222): after an import
\* every declared component has the declared version, every other component
\* the one it had, and importing the same list again changes nothing.  It holds
\* of every state a project gets into, the ones a crash in the middle of an
\* import leaves behind included.
ImportReconciles ==
  \A id \in ProjectID, inputs \in Imports :
    LET p == LoadProject(log, id)
        import == [op |-> "import", inputs |-> inputs]
        events == Emits(p, import)
        q == LoadProject(log \o Store!Versioned(id, Store!LastVersion(log, id), events), id)
        declared == {inputs[i].component : i \in Declared(inputs)}
    IN  Accepts(p, import) =>
          /\ DOMAIN q.components = DOMAIN p.components \cup declared
          /\ \A i \in Declared(inputs) : q.components[inputs[i].component] = inputs[i].version
          /\ \A c \in DOMAIN p.components \ declared : q.components[c] = p.components[c]
          /\ Emits(q, import) = <<>>
==============================================================================
