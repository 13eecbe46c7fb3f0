------------------------------- MODULE Matching --------------------------------
(***************************************************************************)
(* Which vulnerabilities apply to a project: QueryService.Matches while    *)
(* the OSV sync and the commands write records                             *)
(* (schwachstellen/application/projection.go, store/store.go,              *)
(* application/command.go).                                                *)
(*                                                                         *)
(* Of the store (all of it is in Vulnerabilities) this module keeps what a *)
(* query can tell apart: the file of each record in one of two directories *)
(* that Put chooses from, the path map, the component index and the write  *)
(* lock.  There is one writer, and nothing fails.  A query takes the lock  *)
(* for the components index and for each path, and reads the files without *)
(* it.                                                                     *)
(***************************************************************************)
EXTENDS OsvMapping, FiniteSets, FiniteSetsExt

CONSTANTS
  Id,          \* vulnerability ids, numbers in the order of the strings
  Inventory,   \* what the components of the project may be
  Feed,        \* OSV records
  Manual,      \* the other commands: add, remove, delete
  MaxWrites,   \* bound: commands that get to write
  None         \* no path, no record, no writer

Dir == {0, 1}

\* A Put in progress: where the file goes and was, and what is to be in it.
Put ==
  [id : Id, dir : Dir, old : Dir \cup {None}, written : BOOLEAN, record : Record]

ASSUME IdAssumption == Id \subseteq Nat /\ None \notin Dir \cup Put

\* Ranges are written as parts, versions as Semver writes them.
ASSUME RangeAssumption == VersionRange \subseteq Seq([op : Op, version : Written])

\* A component of a project has a name.
ASSUME InventoryAssumption ==
  \A p \in Inventory : Empty \notin DOMAIN p /\ \A c \in DOMAIN p : p[c] \in Written

\* An OSV record; an affected entry may lack a name, and any text may be a range.
OsvEvent == [kind : {"introduced", "fixed", "last_affected"}, version : Written]
OsvRange == [type : {"GIT", "ECOSYSTEM", "SEMVER"}, events : Seq(OsvEvent)]
OsvAffected ==
  [purl : Component \cup {Empty}, name : Component \cup {Empty},
   ecosystem : Ecosystem \cup {Empty}, ranges : Seq(OsvRange)]
OsvRecord == [summary : Meta \cup {Empty}, affected : Seq(OsvAffected)]

ASSUME FeedAssumption ==
  \A adv \in Feed : adv \in OsvRecord /\ \A d \in Map(adv).inputs : d.range \in VersionRange

ASSUME ManualAssumption ==
  Manual \subseteq {cmd \in Command : cmd.op \in {"add", "remove", "delete"}}

VARIABLES
  project,   \* the component read model of the project
  files,     \* what is in the file of each record in each directory
  paths,     \* Store.paths
  comp,      \* Store.compIdx
  writer,    \* the Put in progress, None if there is none
  query,     \* the Matches in progress
  imported,  \* history: the OSV record an id was last made from, None if changed since
  held,      \* history: what each record was since the query began
  busy,      \* history: the ids a Put was at since the query began
  writes     \* writes so far

store == <<files, paths, comp, writer>>
history == <<imported, held, busy>>
vars == <<project, store, query, history, writes>>

NoFile == [kind |-> "no file"]
Torn == [kind |-> "torn"]
Idle == [at |-> "idle"]

ContentAt(id, dir) == IF dir = None THEN NoFile ELSE files[id][dir]
Stored(id) == ContentAt(id, paths[id])

\* What Get makes of the content of a file.
Found(content) ==
  IF content \in {NoFile, Torn} THEN NoRecord
  ELSE IF content.deleted THEN NoRecord ELSE content

Init ==
  /\ project \in Inventory
  /\ files = [id \in Id |-> [d \in Dir |-> NoFile]]
  /\ paths = [id \in Id |-> None]
  /\ comp = {}
  /\ writer = None
  /\ query = Idle
  /\ imported = [id \in Id |-> None]
  /\ held = [id \in Id |-> {}]
  /\ busy = {}
  /\ writes = 0

\* A command of the projekte module or an SBOM has changed the project.
ChangeProject ==
  /\ project' \in Inventory \ {project}
  /\ UNCHANGED <<store, query, history, writes>>

-----------------------------------------------------------------------------
(* Put, for the result of a command.                                       *)

\* The file, of the record's old directory or another, is truncated.
PutStart(id, record, source) ==
  /\ writes < MaxWrites
  /\ \E d \in Dir :
       /\ writer' = [id |-> id, dir |-> d, old |-> paths[id], written |-> FALSE,
                     record |-> record]
       /\ files' = [files EXCEPT ![id][d] = Torn]
  /\ imported' = [imported EXCEPT ![id] = source]
  /\ busy' = IF query = Idle THEN {} ELSE busy \cup {id}
  /\ writes' = writes + 1
  /\ UNCHANGED <<project, paths, comp, query, held>>

Change(id, cmd, source) ==
  /\ Accepts(Found(Stored(id)), cmd)
  /\ PutStart(id, Result(Found(Stored(id)), cmd), source)

Import(id, adv) == Change(id, Map(adv), adv)

Execute(id, cmd) == Change(id, cmd, None)

\* The lock is free: the OSV sync or a user changes a record.
Begin ==
  /\ writer = None
  /\ \E id \in Id :
       (\E adv \in Feed : Import(id, adv)) \/ (\E cmd \in Manual : Execute(id, cmd))

PutWrite ==
  /\ writer # None /\ ~writer.written
  /\ files' = [files EXCEPT ![writer.id][writer.dir] = writer.record]
  /\ paths' = [paths EXCEPT ![writer.id] = writer.dir]
  /\ writer' = [writer EXCEPT !.written = TRUE]
  /\ held' = IF query = Idle THEN held
             ELSE [held EXCEPT ![writer.id] = @ \cup {writer.record}]
  /\ UNCHANGED <<project, comp, query, imported, busy, writes>>

IndexedByEcosystem(rec) ==
  IF rec.deleted THEN {} ELSE {rec.affected[c].ecosystem : c \in DOMAIN rec.affected}

Indexed(rec) == IF rec.deleted THEN {} ELSE DOMAIN rec.affected

PutFinishIndexingOnce ==
  /\ writer # None /\ writer.written
  /\ files' = IF writer.old \in {None, writer.dir} THEN files
              ELSE [files EXCEPT ![writer.id][writer.old] = NoFile]
  /\ comp' = IF writer.old # None THEN comp
             ELSE comp \cup (Indexed(writer.record) \X {writer.id})
  /\ writer' = None
  /\ UNCHANGED <<project, paths, query, history, writes>>

\* The old file is removed, the component index updated, the lock given back.
PutFinish ==
  /\ writer # None /\ writer.written
  /\ files' = IF writer.old \in {None, writer.dir} THEN files
              ELSE [files EXCEPT ![writer.id][writer.old] = NoFile]
  /\ comp' = {entry \in comp : entry[2] # writer.id}
               \cup (Indexed(writer.record) \X {writer.id})
  /\ writer' = None
  /\ UNCHANGED <<project, paths, query, history, writes>>

-----------------------------------------------------------------------------
(* Matches.                                                                *)

\* The components are copied; those whose version is none are skipped.
Start ==
  /\ query = Idle
  /\ query' = [at |-> "component", comps |-> project, out |-> {},
               todo |-> {c \in DOMAIN project : Parse(project[c]) # Invalid}]
  /\ held' = [id \in Id |-> {Stored(id)} \ {NoFile, Torn}]
  /\ busy' = IF writer = None THEN {} ELSE {writer.id}
  /\ UNCHANGED <<project, store, imported, writes>>

\* ComponentsFor, under the read lock.
LookUp(c) ==
  /\ query.at = "component" /\ c \in query.todo
  /\ writer = None
  /\ query' = [at |-> "records", comps |-> query.comps, out |-> query.out,
               todo |-> query.todo \ {c},
               component |-> c, ids |-> {id \in Id : <<c, id>> \in comp}]
  /\ UNCHANGED <<project, store, history, writes>>

\* The first half of Get: the path, under the read lock.
GetPath ==
  /\ query.at = "records" /\ query.ids # {}
  /\ writer = None
  /\ query' = [at |-> "reading", comps |-> query.comps, out |-> query.out,
               todo |-> query.todo, component |-> query.component,
               ids |-> query.ids, id |-> Min(query.ids), dir |-> paths[Min(query.ids)]]
  /\ UNCHANGED <<project, store, history, writes>>

\* The record's ranges of the component against its version.
AppliesAnywhere(rec, c, version) ==
  \E d \in DOMAIN rec.affected :
    LET r == ParseRangeExpr(rec.affected[d].range) IN
    r # <<>> /\ RangeMatches(r, Parse(version))

Applies(rec, c, version) ==
  /\ c \in DOMAIN rec.affected
  /\ LET r == ParseRangeExpr(rec.affected[c].range) IN
     r # <<>> /\ RangeMatches(r, Parse(version))

\* The second half: the file, with or without a writer at it.
Read ==
  /\ query.at = "reading"
  /\ LET rec == Found(ContentAt(query.id, query.dir))
         hit == rec # NoRecord /\ Applies(rec, query.component, query.comps[query.component])
     IN  query' = [at |-> "records", comps |-> query.comps,
                   out |-> IF hit THEN query.out \cup {<<query.component, query.id>>}
                           ELSE query.out,
                   todo |-> query.todo,
                   component |-> query.component, ids |-> query.ids \ {query.id}]
  /\ UNCHANGED <<project, store, history, writes>>

NextComponent ==
  /\ query.at = "records" /\ query.ids = {}
  /\ query' = [at |-> "component", comps |-> query.comps, out |-> query.out,
               todo |-> query.todo]
  /\ UNCHANGED <<project, store, history, writes>>

Done == query.at = "component" /\ query.todo = {}

Return ==
  /\ Done
  /\ query' = Idle
  /\ held' = [id \in Id |-> {}]
  /\ busy' = {}
  /\ UNCHANGED <<project, store, imported, writes>>

Next ==
  \/ ChangeProject
  \/ Begin \/ PutWrite \/ PutFinish
  \/ Start \/ GetPath \/ Read \/ NextComponent \/ Return
  \/ query.at = "component" /\ \E c \in query.todo : LookUp(c)

Spec == Init /\ [][Next]_vars

-----------------------------------------------------------------------------
(* Properties.                                                             *)

TypeOK ==
  /\ project \in Inventory
  /\ \A id \in Id : /\ \A d \in Dir : files[id][d] \in {NoFile, Torn} \cup Record
                    /\ paths[id] \in Dir \cup {None}
                    /\ held[id] \subseteq Record
  /\ \A entry \in comp : entry[1] \in Component /\ entry[2] \in Id
  /\ writer \in {None} \cup Put
  /\ query.at \in {"idle", "component", "records", "reading"}

\* What a record says of a component in some version.
Affects(rec, c, version) ==
  /\ ~rec.deleted /\ c \in DOMAIN rec.affected
  /\ ParseRangeExpr(rec.affected[c].range) # <<>>
  /\ \A part \in ToSet(rec.affected[c].range) : Means(ParseRange(part), Parse(version))

\* What Matches reports was so: the component was one of the project's when the
\* query began, and at some moment since then the record said so, however
\* writers relocate, rewrite and reindex records in between.
MatchesJustified ==
  query # Idle => \A m \in query.out :
    /\ m[1] \in DOMAIN query.comps
    /\ \E rec \in held[m[2]] : Affects(rec, m[1], query.comps[m[1]])

\* The components Matches looks at.
Versioned == {c \in DOMAIN query.comps : Parse(query.comps[c]) # Invalid}

\* Matches forgets nothing: when it is done, each record that no Put was at
\* since it began is reported for every component it affects.
NothingMissed ==
  Done => \A id \in Id \ busy, c \in Versioned :
    (paths[id] # None /\ Affects(Stored(id), c, query.comps[c])) => <<c, id>> \in query.out

\* What an OSV record says: the version is not before an introduced event, and
\* no later event ends it.
VersionKey(s) == Key(Parse(normalizeVersion(s)))

InEvents(events, k) ==
  /\ \E e \in ToSet(events) :
       e.kind = "introduced" /\ (e.version = Zero \/ ~Less(k, VersionKey(e.version)))
  /\ \A e \in ToSet(events) :
       /\ e.kind = "fixed" => Less(k, VersionKey(e.version))
       /\ e.kind = "last_affected" => ~Less(VersionKey(e.version), k)

OsvAffects(adv, c, version) ==
  \E a \in ToSet(adv.affected) : \E rg \in ToSet(a.ranges) :
    /\ c = (IF a.purl = Empty THEN a.name ELSE a.purl)
    /\ rg.type # "GIT"
    /\ InEvents(rg.events, Key(Parse(version)))

\* The records mapping.go is made for: full versions, and in each range one
\* introduced event with at most one that ends it.
OpenEnded(adv) ==
  \E a \in ToSet(adv.affected) : \E rg \in ToSet(a.ranges) :
    Len(rg.events) = 1 /\ rg.events[1].version = Zero

Common(adv) ==
  \A a \in ToSet(adv.affected) : \A rg \in ToSet(a.ranges) :
    rg.type = "GIT" \/
      /\ Len(rg.events) \in {1, 2} /\ rg.events[1].kind = "introduced"
      /\ Len(rg.events) = 2 => rg.events[2].kind # "introduced"
      /\ \A e \in ToSet(rg.events) :
           Len(e.version.parts) = 3 \/ (e.kind = "introduced" /\ e.version = Zero)

ReportedAs(id, adv) ==
  \A c \in Versioned : OsvAffects(adv, c, query.comps[c]) <=> <<c, id>> \in query.out

\* From osv.dev to a project: what an imported record of the common patterns
\* says of a component and its version is what Matches reports, through the
\* mapping, the import into an existing record, the file and the indexes.
AdvisoryHolds ==
  Done => \A id \in {i \in Id \ busy : imported[i] # None} :
    (Common(imported[id]) /\ ~OpenEnded(imported[id])) => ReportedAs(id, imported[id])

\* mapping.go:76-78, "It supports the common introduced/fixed and
\* introduced/last_affected patterns and a bare introduced (open-ended) range".
OpenEndedHolds ==
  Done => \A id \in {i \in Id \ busy : imported[i] # None} :
    Common(imported[id]) => ReportedAs(id, imported[id])
==============================================================================
