--------------------------- MODULE Vulnerabilities ----------------------------
(***************************************************************************)
(* The schwachstellen module at work: the file store with its path map and *)
(* its two indexes, the commands that read a record, change it and write   *)
(* it back, and the import of the legacy log at start-up                   *)
(* (schwachstellen/store/store.go, application/command.go and              *)
(* projection.go, migration/migration.go, cmd/jansvca/main.go).            *)
(*                                                                         *)
(* A record has one file per range bucket at most: commands and migration  *)
(* never set an ecosystem and all ids are of one year, so the bucket is    *)
(* all there is to a path.  os.WriteFile truncates first and writes then;  *)
(* a reader that does not hold the lock, an error and the end of the       *)
(* process may see what is in between.  The search index is on disk, the   *)
(* path map and the component index are rebuilt from the files.  A crash   *)
(* is the death of the process: what was written stays written.            *)
(***************************************************************************)
EXTENDS VulnDomain, FiniteSets

CONSTANTS
  Id,             \* vulnerability ids
  Worker,         \* requests in progress at the same time
  Main,           \* the goroutine of main, which runs the migration
  None,           \* no path, no writer
  Commands,       \* the commands that are sent
  LegacyOrder,    \* the ids of the legacy log, sorted
  Legacy,         \* the events of each of them
  FilesPerRange,  \* filesPerRange
  WalkOrder,      \* the buckets, in the order WalkDir visits them
  MaxCommands,    \* bound: commands that get to write
  MaxFails,       \* bound: I/O errors
  MaxCrashes      \* bound: crashes

Bucket == ToSet(WalkOrder)
Client == Worker \cup {Main}

ASSUME BucketAssumption ==
  /\ FilesPerRange \in Nat \ {0}
  /\ WalkOrder \in Seq(Bucket) /\ None \notin Bucket
  /\ \A n \in 0..Cardinality(Id) : (n \div FilesPerRange) * FilesPerRange \in Bucket

ASSUME ClientAssumption ==
  IsFiniteSet(Id) /\ Main \notin Worker /\ None \notin Client

\* Every stream of the legacy log adds up to a record, or to none.
ASSUME LegacyAssumption ==
  /\ LegacyOrder \in Seq(Id)
  /\ \A id \in ToSet(LegacyOrder) : LegacyState(Legacy[id]) \in Record \cup {NoRecord}

ASSUME CommandsAssumption == Commands \subseteq Command

VARIABLES
  files,      \* what is in the file of each record in each bucket
  paths,      \* Store.paths
  search,     \* the document of each record in the Bleve index
  comp,       \* Store.compIdx
  writer,     \* who holds Store.mu for writing
  request,    \* what each client is doing
  phase,      \* "down", "migrating" or "up"
  legacy,     \* whether the legacy log is still there
  queue,      \* the legacy streams FromWAL has still to put
  acked,      \* history: the record last written with success, for each id
  tried,      \* history: the records of Puts that failed or were cut off since
  damaged,    \* history: ids whose only file was truncated and not written
  doubled,    \* history: ids that a second file was left behind of
  unindexed,  \* history: ids whose last Put failed at an index
  touched,    \* history: ids a command has written
  troubles,   \* history: failures of the migration or the rename
  seen,       \* history: what each Get under way may answer
  overtaken,  \* history: workers whose Get a Put on the record has run into
  budget      \* commands, I/O errors and crashes so far

disk == <<files, search, legacy>>
memory == <<paths, comp>>
history == <<acked, tried, damaged, doubled, unindexed, touched, troubles>>
reads == <<seen, overtaken>>
vars == <<disk, memory, writer, request, phase, queue, history, reads, budget>>

NoFile == [kind |-> "no file"]
Torn == [kind |-> "torn"]
NoDoc == [kind |-> "no document"]
Idle == [at |-> "idle"]

Readable(content) == content \notin {NoFile, Torn}

\* The buckets that hold a whole file of the record.
Copies(id) == {b \in Bucket : Readable(files[id][b])}

\* toDoc: what the search index knows of a record.
DocOf(rec) ==
  [components |-> DOMAIN rec.affected, source |-> rec.source,
   ecosystems |-> EcosystemsOf(rec)]

\* What is in the file the path map names.
ContentAt(id, path) == IF path = None THEN NoFile ELSE files[id][path]
Stored(id) == ContentAt(id, paths[id])

\* What Get makes of it: a file that is not there and a deleted record are
\* both no record.  A torn file is an error.
Found(content) ==
  IF Readable(content) THEN (IF content.deleted THEN NoRecord ELSE content) ELSE NoRecord

-----------------------------------------------------------------------------
(* Reads under the lock.                                                   *)

ComponentsFor(c) == {id \in Id : <<c, id>> \in comp}

\* buildQuery: an empty filter is no filter.
Satisfies(doc, q) ==
  /\ q.component \in doc.components \cup {Empty}
  /\ q.source \in {doc.source, Empty}
  /\ q.ecosystem \in doc.ecosystems \cup {Empty}

Hits(q) == {id \in Id : search[id] # NoDoc /\ Satisfies(search[id], q)}

\* Query on one page: it fails when a single hit cannot be decoded, and drops
\* hits whose record is gone.
QueryFails(q) == \E id \in Hits(q) : Stored(id) = Torn
QueryItems(q) == {id \in Hits(q) : Found(Stored(id)) # NoRecord}

Filter ==
  [component : Component \cup {Empty}, source : Source \cup {Empty},
   ecosystem : Ecosystem \cup {Empty}]

-----------------------------------------------------------------------------
(* New: rebuildIndexFromFiles.  The last readable file in walking order    *)
(* gives the path; every live one is indexed, and nothing is taken out of  *)
(* the search index.                                                       *)

LiveCopies(id) == {b \in Copies(id) : ~files[id][b].deleted}

LastOf(S) == WalkOrder[Max({i \in DOMAIN WalkOrder : WalkOrder[i] \in S})]

PathsRebuilt == [id \in Id |-> IF Copies(id) = {} THEN None ELSE LastOf(Copies(id))]

ComponentsRebuilt ==
  {e \in Component \X Id : \E b \in LiveCopies(e[2]) : e[1] \in DOMAIN files[e[2]][b].affected}

RebuiltWithoutIndexing ==
  /\ paths' = PathsRebuilt
  /\ search' = search
  /\ comp' = ComponentsRebuilt

Rebuilt ==
  /\ paths' = PathsRebuilt
  /\ search' = [id \in Id |->
       IF LiveCopies(id) = {} THEN search[id] ELSE DocOf(files[id][LastOf(LiveCopies(id))])]
  /\ comp' = ComponentsRebuilt

Init ==
  /\ files = [id \in Id |-> [b \in Bucket |-> NoFile]]
  /\ paths = [id \in Id |-> None]
  /\ search = [id \in Id |-> NoDoc]
  /\ comp = {}
  /\ writer = None
  /\ request = [c \in Client |-> Idle]
  /\ phase = "down"
  /\ legacy = (LegacyOrder # <<>>)
  /\ queue = <<>>
  /\ acked = [id \in Id |-> NoRecord]
  /\ tried = [id \in Id |-> {}]
  /\ damaged = {} /\ doubled = {} /\ unindexed = {} /\ touched = {} /\ troubles = {}
  /\ seen = [w \in Worker |-> {}] /\ overtaken = {}
  /\ budget = [commands |-> 0, fails |-> 0, crashes |-> 0]

\* main opens the store and begins the migration if there is a legacy log.
Restart ==
  /\ phase = "down"
  /\ Rebuilt
  /\ phase' = IF legacy THEN "migrating" ELSE "up"
  /\ queue' = IF legacy THEN LegacyOrder ELSE <<>>
  /\ unindexed' = {}
  /\ UNCHANGED <<files, legacy, writer, request, acked, tried, damaged, doubled, touched,
                 troubles, reads, budget>>

Fail == budget.fails < MaxFails /\ budget' = [budget EXCEPT !.fails = @ + 1]

-----------------------------------------------------------------------------
(* The commands: load, decide, put.                                        *)

\* The answer of a Get is on time if the record has been so since the Get began:
\* what was acknowledged or tried before, and what Puts are at meanwhile.
Begins(w, id) ==
  /\ seen' = [seen EXCEPT ![w] = {acked[id]} \cup tried[id]]
  /\ overtaken' = overtaken \ {w}

Ends(w) ==
  /\ seen' = [seen EXCEPT ![w] = {}]
  /\ overtaken' = overtaken \ {w}

Gets(id) == {w \in Worker : request[w].at = "looked" /\ request[w].id = id}

RunInto(id, rec) ==
  /\ seen' = [w \in Worker |-> IF w \in Gets(id) THEN seen[w] \cup {rec} ELSE seen[w]]
  /\ overtaken' = overtaken \cup Gets(id)

\* Create validates its input before it looks; every command takes the path
\* under the read lock and gives the lock back.
Lookup(w, id, cmd) ==
  /\ phase = "up" /\ writer = None
  /\ request[w].at = "idle"
  /\ cmd.op = "create" => cmd.meta # Empty
  /\ budget.commands < MaxCommands
  /\ budget' = [budget EXCEPT !.commands = @ + 1]
  /\ request' = [request EXCEPT ![w] = [at |-> "looked", id |-> id, cmd |-> cmd,
                                        path |-> paths[id]]]
  /\ Begins(w, id)
  /\ UNCHANGED <<disk, memory, writer, phase, queue, history>>

\* It then opens the file, wherever the record may be by now, and decides.
ReadAndDecide(w) ==
  LET r == request[w]
      v == Found(ContentAt(r.id, r.path))
  IN
  /\ r.at = "looked"
  /\ ContentAt(r.id, r.path) # Torn
  /\ Accepts(v, r.cmd)
  /\ request' = [request EXCEPT ![w] = [at |-> "decided", id |-> r.id, rec |-> Result(v, r.cmd)]]
  /\ Ends(w)
  /\ UNCHANGED <<disk, memory, writer, phase, queue, history, budget>>

\* Not found, refused by the domain, or not to be decoded: an error.  The
\* bound counts the commands that are not refused.
ReadAndRefuse(w) ==
  LET r == request[w] IN
  /\ r.at = "looked"
  /\ \/ ContentAt(r.id, r.path) = Torn
     \/ ~Accepts(Found(ContentAt(r.id, r.path)), r.cmd)
  /\ budget' = [budget EXCEPT !.commands = @ - 1]
  /\ request' = [request EXCEPT ![w] = Idle]
  /\ Ends(w)
  /\ UNCHANGED <<disk, memory, writer, phase, queue, history>>

\* A search changes nothing.
Search == phase = "up" /\ writer = None /\ UNCHANGED vars

-----------------------------------------------------------------------------
(* Put, under the write lock.                                              *)

\* countIn counts the record itself once it has a path.
RangeBucket ==
  (Cardinality({id \in Id : paths[id] # None}) \div FilesPerRange) * FilesPerRange

PutStartRemovingOld(w) ==
  LET r == request[w] IN
  /\ r.at = "decided" /\ writer = None
  /\ writer' = w
  /\ files' = [files EXCEPT ![r.id] =
       [x \in Bucket |-> IF x = RangeBucket THEN Torn ELSE IF x = paths[r.id] THEN NoFile ELSE @[x]]]
  /\ damaged' = IF RangeBucket = paths[r.id] THEN damaged \cup {r.id} ELSE damaged
  /\ request' = [request EXCEPT ![w] =
       [at |-> "writing", id |-> r.id, rec |-> r.rec, to |-> RangeBucket, old |-> paths[r.id]]]
  /\ RunInto(r.id, r.rec)
  /\ UNCHANGED <<search, legacy, memory, phase, queue, acked, tried, doubled, unindexed, touched,
                 troubles, budget>>

\* os.WriteFile opens and truncates.
PutStart(w) ==
  LET r == request[w] IN
  /\ r.at = "decided" /\ writer = None
  /\ writer' = w
  /\ files' = [files EXCEPT ![r.id][RangeBucket] = Torn]
  /\ damaged' = IF RangeBucket = paths[r.id] THEN damaged \cup {r.id} ELSE damaged
  /\ request' = [request EXCEPT ![w] =
       [at |-> "writing", id |-> r.id, rec |-> r.rec, to |-> RangeBucket, old |-> paths[r.id]]]
  /\ RunInto(r.id, r.rec)
  /\ UNCHANGED <<search, legacy, memory, phase, queue, acked, tried, doubled, unindexed, touched,
                 troubles, budget>>

FailedHoldingLock(w) ==
  /\ UNCHANGED writer
  /\ request' = [request EXCEPT ![w] = Idle]
  /\ tried' = [tried EXCEPT ![request[w].id] = @ \cup {request[w].rec}]
  /\ queue' = IF w = Main THEN <<>> ELSE queue
  /\ troubles' = IF w = Main THEN troubles \cup {"put"} ELSE troubles

\* The Put ends with an error; FromWAL gives up.
Failed(w) ==
  /\ writer' = None
  /\ request' = [request EXCEPT ![w] = Idle]
  /\ tried' = [tried EXCEPT ![request[w].id] = @ \cup {request[w].rec}]
  /\ queue' = IF w = Main THEN <<>> ELSE queue
  /\ troubles' = IF w = Main THEN troubles \cup {"put"} ELSE troubles

\* The directory or the file cannot be made: nothing has changed.
PutRefused(w) ==
  /\ request[w].at = "decided" /\ writer = None
  /\ Fail
  /\ Failed(w)
  /\ UNCHANGED <<disk, memory, phase, acked, damaged, doubled, unindexed, touched, reads>>

\* The write fails and leaves what it had written.
WriteFails(w) ==
  /\ request[w].at = "writing"
  /\ Fail
  /\ Failed(w)
  /\ UNCHANGED <<disk, memory, phase, acked, damaged, doubled, unindexed, touched, reads>>

WriteWithoutPath(w) ==
  LET r == request[w] IN
  /\ r.at = "writing"
  /\ files' = [files EXCEPT ![r.id][r.to] = r.rec]
  /\ paths' = [paths EXCEPT ![r.id] = IF @ = None THEN r.to ELSE @]
  /\ damaged' = damaged \ {r.id}
  /\ touched' = IF w = Main THEN touched ELSE touched \cup {r.id}
  /\ request' = [request EXCEPT ![w] = [r EXCEPT !.at = "written"]]
  /\ UNCHANGED <<search, legacy, comp, writer, phase, queue, acked, tried, doubled, unindexed,
                 troubles, reads, budget>>

Write(w) ==
  LET r == request[w] IN
  /\ r.at = "writing"
  /\ files' = [files EXCEPT ![r.id][r.to] = r.rec]
  /\ paths' = [paths EXCEPT ![r.id] = r.to]
  /\ damaged' = damaged \ {r.id}
  /\ touched' = IF w = Main THEN touched ELSE touched \cup {r.id}
  /\ request' = [request EXCEPT ![w] = [r EXCEPT !.at = "written"]]
  /\ UNCHANGED <<search, legacy, comp, writer, phase, queue, acked, tried, doubled, unindexed,
                 troubles, reads, budget>>

\* The file the record had before, if it was elsewhere.
RemoveOld(w) ==
  LET r == request[w] IN
  /\ r.at = "written"
  /\ files' = IF r.old \in {None, r.to} THEN files
              ELSE [files EXCEPT ![r.id][r.old] = NoFile]
  /\ request' = [request EXCEPT ![w] = [r EXCEPT !.at = "stored"]]
  /\ UNCHANGED <<search, legacy, memory, writer, phase, queue, history, reads, budget>>

\* An error of Remove is ignored: the old file stays.
RemoveFails(w) ==
  LET r == request[w] IN
  /\ r.at = "written" /\ r.old \notin {None, r.to}
  /\ Fail
  /\ request' = [request EXCEPT ![w] = [r EXCEPT !.at = "stored"]]
  /\ doubled' = doubled \cup {r.id}
  /\ UNCHANGED <<disk, memory, writer, phase, queue, acked, tried, damaged, unindexed, touched,
                 troubles, reads>>

\* The indexes: the record replaced, or taken out if it is deleted.
Indexed(id, rec) ==
  /\ search' = [search EXCEPT ![id] = IF rec.deleted THEN NoDoc ELSE DocOf(rec)]
  /\ comp' = {e \in comp : e[2] # id} \cup
               (IF rec.deleted THEN {} ELSE (DOMAIN rec.affected) \X {id})

\* Put returns, the mutex is given back.
Index(w) ==
  LET r == request[w] IN
  /\ r.at = "stored"
  /\ Indexed(r.id, r.rec)
  /\ writer' = None
  /\ request' = [request EXCEPT ![w] = Idle]
  /\ acked' = [acked EXCEPT ![r.id] = r.rec]
  /\ tried' = [tried EXCEPT ![r.id] = {}]
  /\ unindexed' = unindexed \ {r.id}
  /\ doubled' = IF Cardinality(Copies(r.id)) = 1 THEN doubled \ {r.id} ELSE doubled
  /\ UNCHANGED <<files, legacy, paths, phase, queue, damaged, touched, troubles, reads,
                 budget>>

\* Bleve fails: the caller gets an error, the file stays, and the component
\* index is not reached.
IndexFails(w) ==
  /\ request[w].at = "stored"
  /\ Fail
  /\ Failed(w)
  /\ unindexed' = unindexed \cup {request[w].id}
  /\ UNCHANGED <<disk, memory, phase, acked, damaged, doubled, touched, reads>>

-----------------------------------------------------------------------------
(* The migration in main, before requests are served.                      *)

\* FromWAL turns to the next stream of the legacy log and puts its state, if
\* there is one.
MigrateNext ==
  LET state == LegacyState(Legacy[Head(queue)]) IN
  /\ phase = "migrating" /\ queue # <<>>
  /\ request[Main].at = "idle"
  /\ request' = [request EXCEPT ![Main] =
       IF state = NoRecord THEN Idle ELSE [at |-> "decided", id |-> Head(queue), rec |-> state]]
  /\ queue' = Tail(queue)
  /\ UNCHANGED <<disk, memory, writer, phase, history, reads, budget>>

MigratedAtOnce == phase = "migrating" /\ request[Main].at = "idle"

Migrated == phase = "migrating" /\ queue = <<>> /\ request[Main].at = "idle"

RenameForgotten ==
  /\ Migrated
  /\ phase' = "up"
  /\ UNCHANGED <<disk, memory, writer, request, queue, history, reads, budget>>

\* The legacy log is renamed, whether the import succeeded or not.
Rename ==
  /\ Migrated
  /\ legacy' = FALSE
  /\ phase' = "up"
  /\ UNCHANGED <<files, search, memory, writer, request, queue, history, reads, budget>>

\* An error of Rename is ignored.
RenameFails ==
  /\ Migrated
  /\ Fail
  /\ phase' = "up"
  /\ troubles' = troubles \cup {"rename"}
  /\ UNCHANGED <<disk, memory, writer, request, queue, acked, tried, damaged, doubled, unindexed, touched,
                 reads>>

\* The process ends.
Crash ==
  /\ phase # "down"
  /\ budget.crashes < MaxCrashes
  /\ budget' = [budget EXCEPT !.crashes = @ + 1]
  /\ phase' = "down"
  /\ writer' = None
  /\ request' = [c \in Client |-> Idle]
  /\ queue' = <<>>
  /\ paths' = [id \in Id |-> None]
  /\ comp' = {}
  /\ tried' = [id \in Id |-> tried[id] \cup
       {request[c].rec : c \in {d \in Client : request[d].at \in {"writing", "written", "stored"}
                                                 /\ request[d].id = id}}]
  /\ doubled' = doubled \cup {id \in Id : Cardinality(Copies(id)) > 1}
  /\ seen' = [w \in Worker |-> {}] /\ overtaken' = {}
  /\ UNCHANGED <<disk, acked, damaged, unindexed, touched, troubles>>

Next ==
  \/ \E w \in Worker, id \in Id, cmd \in Commands : Lookup(w, id, cmd)
  \/ \E w \in Worker : ReadAndDecide(w) \/ ReadAndRefuse(w)
  \/ \E w \in Client :
       \/ PutStart(w) \/ PutRefused(w)
       \/ Write(w) \/ WriteFails(w)
       \/ RemoveOld(w) \/ RemoveFails(w)
       \/ Index(w) \/ IndexFails(w)
  \/ Search
  \/ MigrateNext \/ Rename \/ RenameFails
  \/ Restart
  \/ Crash

Spec == Init /\ [][Next]_vars

-----------------------------------------------------------------------------
(* Properties.                                                             *)

\* The record a Put on id is about to write or has written.
InFlight(id) ==
  IF writer # None /\ request[writer].id = id THEN {request[writer].rec} ELSE {}

TypeOK ==
  /\ \A id \in Id, b \in Bucket :
       Readable(files[id][b]) => files[id][b] \in Record
  /\ \A id \in Id : paths[id] \in Bucket \cup {None}
  /\ comp \subseteq Component \X Id
  /\ writer \in Client \cup {None}
  /\ \A c \in Client :
       /\ request[c].at \in {"idle", "looked", "decided", "writing", "written", "stored"}
       /\ request[c].at \in {"decided", "writing", "written", "stored"} => request[c].rec \in Record
       /\ (writer = c) <=> (request[c].at \in {"writing", "written", "stored"})
  /\ phase \in {"down", "migrating", "up"}
  /\ \A id \in Id : acked[id] \in Record \cup {NoRecord}

\* store.go:8, "the single source of truth": at every moment, also while a Put
\* moves the record and after a crash, some file of a record holds what was
\* last acknowledged or what a Put since then has tried to store; except when
\* its only file has been truncated and not yet written, or a second file of it
\* was left behind, by a crash or a removal that failed: a start may take up
\* the older one.
AckedOnDisk ==
  \A id \in Id : acked[id] # NoRecord /\ id \notin damaged \cup doubled =>
    \E b \in Bucket : files[id][b] \in {acked[id]} \cup tried[id] \cup InFlight(id)

\* store.go:282-304: what a Get reads at the path it took is a record the id has
\* had at some moment of the Get, and unless a Put on it has run into the Get it is
\* there: acknowledged, or tried by a Put that failed.  A Get that a Put has run
\* into may also find nothing, or a torn file.  The exceptions are those above.
AckedIsRead ==
  \A w \in Worker : request[w].at = "looked" /\ request[w].id \notin doubled =>
    LET id == request[w].id
        content == ContentAt(id, request[w].path)
    IN
    /\ Readable(content) => content \in seen[w]
    /\ acked[id] # NoRecord /\ id \notin damaged /\ w \notin overtaken =>
         Readable(content)

\* store.go:280-281, "It returns nil, nil when the record does not exist or is
\* deleted": no record is answered only of one that had none or a deleted one at
\* some moment of the Get.
NoneOnlyOfNone ==
  \A w \in Worker :
    (request[w].at = "looked" /\ request[w].id \notin damaged \cup doubled) =>
      LET content == ContentAt(request[w].id, request[w].path) IN
      (content # Torn /\ Found(content) = NoRecord) =>
        \E v \in seen[w] : v = NoRecord \/ v.deleted

\* Query and ComponentsFor see what the files say: a search lists exactly the
\* live records its filter is true of, and no live record is missing from the
\* ids of its components; except records whose Put ended with an index error,
\* until the next start.  No search fails unless a file is damaged.
IndexesFollow ==
  (phase # "down" /\ writer = None) =>
    LET live == {id \in Id : Found(Stored(id)) # NoRecord} IN
    /\ \A q \in Filter :
         /\ QueryFails(q) => damaged # {}
         /\ QueryItems(q) \ unindexed =
              {id \in live : Satisfies(DocOf(Stored(id)), q)} \ unindexed
    /\ \A id \in live \ unindexed : \A c \in DOMAIN Stored(id).affected : id \in ComponentsFor(c)

\* main.go:50-52, "migrate it once into the store": when requests are served,
\* every record of the legacy log has been stored, unless a Put or the rename
\* failed, ...
MigratedAll ==
  (phase = "up" /\ troubles = {}) =>
    \A id \in ToSet(LegacyOrder) : LegacyState(Legacy[id]) # NoRecord => acked[id] # NoRecord

\* ... and no later start stores it again over what a command has written since.
MigrationNeverUndoes ==
  (request[Main] # Idle /\ "rename" \notin troubles) => request[Main].id \notin touched
==============================================================================
