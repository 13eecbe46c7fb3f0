# Formal model of jansvca

jansvca tracks projects, the components they use and the vulnerabilities known
for those components. This directory holds TLA+ models of its core logic, TLC
configurations that check them on small instances, and proofs, checked by
TLAPS, that hold for every value of the constants. Paths below are relative to
the repository's root; `eventstore/` and the like stand for
`service/internal/eventstore/`.

## The system

Three Go programs and a browser front end:

- **service** (`service/`) holds the data. Projects are event-sourced: a
  request loads a project's events from the *event store*, rebuilds the
  aggregate, validates the command, appends the new events under a version
  check and publishes them on the *bus*, where the *read model* hears of them.
  Vulnerabilities are JSON records in files with a search index and a component
  index beside them; requests and the *OSV sync* goroutine write them.
- **idp** (`idp/`) issues authorization codes, access tokens and refresh tokens.
- **app** (`app/`) is the backend of the browser: it keeps sessions, refreshes
  their tokens at the idp and forwards requests to the service.
- **frontend** (`app/frontend/`) calls the service through the app.

| Component | State | Operations | What makes it correct | Hard parts | Module |
|---|---|---|---|---|---|
| event store (`eventstore/store.go`) | WAL file, index `streams`, mutex, encoder | New/replay, Load, CurrentVersion, All, Append | acknowledged events are durable, readable, numbered once; a batch is atomic to readers | crash or I/O error between write, fsync and index | `EventStore`, `EventLog` |
| event bus (`eventstore/bus.go`) | list of handlers | Subscribe, Publish | handlers hear events in order | handlers run outside the lock | `Projects` |
| projekte domain (`projekte/domain`) | project aggregate | eight commands, Apply | the history of a project makes sense | import of a list with duplicates | `ProjectDomain` |
| projekte application (`projekte/application`) | read model | command handler, projection | stale decisions are rejected; the read model follows the log | load and append are two critical sections; publishing is a third | `Projects` |
| start-up (`cmd/jansvca/main.go`) | - | replay, migration, start of the sync | the read model is complete and the legacy log taken over before requests are served | crash before publish, before rename | `Projects`, `Vulnerabilities`, `OsvSync` |
| vulnerability store (`schwachstellen/store`) | record files, path map, two indexes | New, Get, Put, Query, ComponentsFor | files, path map and indexes agree | no atomic write; file read outside the lock; relocation | `Vulnerabilities` |
| vulnerability domain and commands (`schwachstellen/domain`, `application/command.go`) | - | Create, Update, Delete, ranges, Import, Reconcile | an acknowledged change is kept | read-modify-write without version | `VulnDomain`, `Vulnerabilities` |
| matching (`schwachstellen/application/projection.go`) | - | Get, Search, Matches | a match is a project's component in an affected range | reads under several locks and one under none | `Matching` |
| migration (`schwachstellen/migration`) | legacy WAL | FromWAL, rename | every record is taken over once | rename after failure; crash before rename | `Vulnerabilities` |
| OSV sync (`osv/`, `osv/sync`) | cursor per ecosystem, its file | Once, Run | every change upstream is eventually imported | skipped records, failing ecosystem, torn file, crash | `OsvSync` |
| OSV mapping, semver (`osv/mapping.go`, `semver/`) | - | pure | ranges match the versions the source declares affected | boundaries, pre-releases | `OsvMapping`, `Semver` |
| SBOM parser (`sbom/`) | - | pure | components keep their coordinates | choice of the identifier | `OsvMapping` |
| identity provider (`idp/internal/token`, `server`) | codes, access tokens, refresh tokens | issue, consume, rotate, introspect, revoke, clean up | codes and refresh tokens are single-use | expiry, rotation, lost answers, restart | `IdpTokens` |
| session backend (`app/internal/session`, `oauth`, `web`), token check (`service/internal/auth`) | sessions | login, callback, ensureFreshToken, proxy, logout | a session lives until logout or its end and never sends an expired token | copies of a session held over calls; refresh against logout | `Sessions` |
| front end (`app/frontend/src`) | view state | load, edit, navigate | the view shows the answer to the last question | answers out of order | not modelled |
| configuration and commands (`idp/cmd`, `idp/internal/config`, `app/cmd`) | - | read files and the environment | - | - | not modelled |

`PROJECT.json` lists the same parts with their source files, and the hazards at
the lines where they bite.

## Modules

```
Envelopes ── EventLog  (abstract) <── implemented by ── EventStore ── MCEventStore
    │            └────────── used by ── Projects ── MCProjects      │
    └── Envelopes_proofs                   │  │              EventStore_proofs
                                ProjectDomain └── Projects_proofs

VulnDomain ── Vulnerabilities ── MCVulnerabilities      OsvSync ── MCOsvSync
    │  └─ VulnDomain_proofs ──┐  └── Vulnerabilities_proofs └── OsvSync_proofs
    │                         │
    └─┐                       ├── Matching_proofs
Semver┴── OsvMapping ── Matching ── MCMatching          IdpTokens ── Sessions ── MCSessions
                                                                         └── Sessions_proofs
```

**Envelopes** defines the record the store keeps, numbering of a batch
(`Versioned`) and the last version of a stream. The event id is a function of
stream and version and the timestamp is read by nobody; both are left out. The
store's map from streams to slices is one sequence of envelopes; the slice of a
stream is what remains of it for that stream.

**EventStore** is `store.go`. `file` holds the complete lines of the WAL,
`torn` whether half a line follows, `synced` how many lines are on disk, `mem`
is the index, `encErr` the error `json.Encoder` remembers once its writer has
failed. `Load` is one step because it runs under the mutex. `Append` is
`AppendNothing` (empty batch), `AppendConflict` (ErrConcurrency) or
`AppendStart`, and then a step per line (`Encode`, `EncodeFails`), the fsync
(`Fsync`, `FsyncFails`) and the index update with the return (`Index`).
`Crash` may come between any two of them: it keeps the synced lines, any prefix
of the others and perhaps part of the next one, which covers both the death of
the process and of the machine. `Restart` is `New` with its replay;
`RestartFails` is `New` on a torn last line, where `main` gives up.
An fsync that failed is taken to have kept nothing and lost nothing: the lines
are in the file and still not known to be on disk.

**EventLog** is what a caller may rely on: batches appended whole under a
version check, an acknowledged prefix no crash can lose, and after a crash
perhaps a prefix of a batch whose Append had not succeeded. `Harden` is the
moment such leftovers reach the disk with a later fsync.

**ProjectDomain** holds the events, `Apply`, the validation (`Accepts`) and the
events (`Emits`) of the eight commands, and the read model's reaction to an
event (`Project`). An empty string is the constant `Empty`; the project id is
the stream and is never empty.

**Projects** composes them with the store `EventLog` promises. A request goes
from `idle` to `decided` (loaded and validated; `Begin`), from there through
`CommitAppend`, `CommitConflict` or `CommitNothing` to `publish`, one `Publish`
per event, and back; a PATCH with name and description goes on `Again` with its
second command. `Crash` empties the read model and ends the requests; `Restart`
is `main`'s replay. `overtaken` is a history variable: the projects of which an
event was published before an older one.

**VulnDomain** holds the record of a vulnerability, the seven commands
(`Accepts`, `Result`) and the state the events of the legacy log add up to
(`LegacyState`). Title, description and score change together and are one value;
the identifier never changes. Nobody sends an import without a list of ranges
(`upsert` makes one, if an empty one), so the branch of `Reconcile` for a nil list
is left out.

**Vulnerabilities** is `store.go` with the commands and the migration on top.
`files` is what is in the file of each record in each range bucket, `paths`,
`search` and `comp` are the path map, the Bleve index and the component index.
A command is `Lookup` (the path, under the read lock), `ReadAndDecide` or
`ReadAndRefuse` (the file is read without the lock, wherever the record is by
then, and the new record computed) and a Put: `PutStart` (lock, truncation),
`Write`, `RemoveOld`, `Index`, each with its failure. `Restart` is `New` with
`rebuildIndexFromFiles`; a legacy log brings `MigrateNext` with the same Put
steps and then `Rename` or `RenameFails`. `Crash` may come between any two
steps. What a failed or interrupted Put has left is kept in history variables
(`tried`, `damaged`, `doubled`, `unindexed`, `troubles`), so that the properties
can say exactly how much is lost. Two more follow each Get between its two steps:
`seen` is what the record has been since the path was taken, or is about to become,
and `overtaken` the workers whose Get a Put on the record has run into.

**OsvSync** is the goroutine of the OSV import: `StartPass`, per ecosystem
`FetchBulk`, `FetchIndex` or `FetchFails`, `ImportEntry` or `SkipEntry` for each
record, `SetCursor`, and the file of the cursors in two steps (`Truncate`,
`SaveCursor`) or `SaveFails`. osv.dev is external: `Publish` changes a record and
lists it, `Export` writes the archive. `late` and `skipped` are history: the
changes an import by cursor cannot see, because they were listed with a time
that lies behind it, or because the record could not be fetched or stored when
its turn came.

**Semver** is `semver.go`: `Parse`, `Compare`, `ParseRangeExpr` and the
constraints, and beside them the reference definition (`Key`, `Less`, `Means`): a
version is a tuple in lexicographic order, a constraint an interval of it. An
expression of separators only is left out: `ParseRangeExpr` takes "," for a range
without constraints, which every version satisfies.

**OsvMapping** is `mapping.go` with `upsert`'s filter (`rangeFromEvents`, `Map`) and
the choice of identifiers in `cyclonedx.go` (`Identifier`, `ParseSbom`).

**Matching** puts the read side together: a query copies the components of the
project (`Start`), asks the component index (`LookUp`), takes the path of each
record (`GetPath`) and reads its file without a lock (`Read`), while one writer
imports OSV records or carries out commands. Of the store it keeps what a query
can tell apart; which of two directories a Put chooses is left open, because
the count it depends on is in `Vulnerabilities`.

**IdpTokens** is the identity provider's `token/store.go` with the endpoints that
use it; an access token and its refresh token are a pair with one number.

**Sessions** composes it with the session backend. A handler is a few steps on a
copy of its session: `Callback` → `Exchanged` → `Introspected`; `Api` (with
`ensureFreshToken`) → `Refreshed` → `Forward` → `Finished`; `Logout` →
`ClearCookie` → `Finished`. A call to the provider begins in the state "calling",
the provider deals with it (`Provider`), and the answer waits in "answered";
`Lost` is the loss of either half or the time-out of the client. `Tick` is the
clock, which does not pass the deadline of a call, since the clients give up
(`oauth/provider.go:53`, `auth/introspection.go:30`).

The operators named after another one with a suffix (`ReturnDirty`,
`CommitUnchecked`, ...) are variants with a plausible bug. Nothing uses them;
putting one in the place of the original must violate the property
`PROJECT.json` names with it.

## Checks

| Run | Question | Result |
|---|---|---|
| `EventStore_safety` | Is what `Append` acknowledged durable, readable, and numbered once, with every kind of failure, does every Append give the mutex back, and does the store implement `EventLog`? | holds; the refinement until an fsync fails |
| `EventStore_versions` | Are the versions that can be read always increasing? | no: see below |
| `Projects_safety` | Do concurrent requests leave a legal history, and does the read model follow it? | holds, except for projects in `overtaken` |
| `Projects_deleted` | Is a deleted project hidden once all requests are done? | no: see below |
| `Vulnerabilities_safety` | Is an acknowledged record on disk, found by a search and read by a Get that no Put runs into, whatever fails, crashes or runs at the same time, and is the legacy log taken over once? | holds, with the losses named in the properties |
| `Vulnerabilities_get` | Does Get answer that there is no record only if there was none at some moment of it? | no: see below |
| `OsvSync_safety` | Is any cursor ever ahead of what was imported? | holds |
| `OsvSync_live` | Is every change imported in the end, with two ecosystems whose fetches may fail, but not for ever? | holds under fairness |
| `Sessions_safety` | Are codes and refresh tokens single-use, do sessions and provider agree on the tokens, are forwarded tokens valid and logouts final? | holds; of logouts, if no other call runs into them, and as far as their own calls get |
| `Sessions_logout` | Is a session gone once its logout is done? | no: see below |
| `Matching_safety` | Does `Matches` report what is so and miss nothing, and does an OSV record mean for a project what it says? | holds for the patterns `mapping.go` supports, but open-ended ones |
| `Matching_open` | Also a record that affects every version? | no: see below |

**Properties of the event store.** `AckedDurable`: every acknowledged event is
among the synced lines. `AckedReadable`: it can be loaded whenever the service
runs. `AckedVersionsIncrease`: per stream, the versions given to callers
strictly increase, across crashes and fsync errors too.
`VersionsIncreaseUnlessSyncFailed`: so do the versions that can be read, as long
as no fsync failed. `MutexReleased`: every Append ends. `Implements`: until
an fsync fails, every step of the store is one of `EventLog`.

**Properties of the projects.** `LegalHistory`: every stored event makes sense
after the events before it. `ReadModelFollows`: the read model shows what the
published events make of the project. `ImportReconciles`: in every state a
project can get into, an import leaves the declared components in their
declared versions, the others alone, and nothing to do for a second import.

**Properties of the vulnerabilities.** `AckedOnDisk`: at every moment, in the
middle of a Put and after a crash, some file of a record holds what was last
acknowledged or what a Put since then has tried to store. The exceptions are what
the code really loses: `os.WriteFile` truncates in place, so a crash or an error
between truncation and write destroys the only file of a record (`damaged`), and
a file left behind in another bucket may be taken for the record at the next
start (`doubled`). `AckedIsRead` is about the two steps of a Get, the path under the
lock and the file without it: what it reads, if it is a record, is one the id has
had since the path was taken, and if no Put on the record has begun since then, the
file is there and whole. A Get that a Put runs into may find no file or a torn one:
the former is the third disagreement below, the latter an error. `IndexesFollow`:
between Puts, a search lists exactly the live records its filter is true of, and
the component index lacks none. `MigratedAll`: when requests are served, the
legacy records have been stored, unless a Put or the rename failed.
`MigrationNeverUndoes`: no later start stores them again over what a command has
written. Two commands on one record at the same time are not serialised by the
code (read, change, write, without version); the last writer wins, which the
runs include and no document denies.

**Properties of the import.** `CursorCovers`: the store has every change up to
the cursor in memory and up to the one in the file, except `late` and `skipped`
ones. What lies behind a cursor is never looked at again, so this is what keeps
changes from being lost. `EventuallyImported`: each change that is neither late
nor skipped is imported in the end, in a later version perhaps.

**Properties of the sessions.** `SingleUse`: of the pairs that go back to one
sign-in, at most one can be renewed. `NeverForwardsExpired`: a token that is sent
to the service has not expired when the service asks about it; the margin
(`Skew`) covers two calls. `SessionRenewable`: as long as the access token of a
session lasts and no call renews it, the provider knows the token and will renew it
with the refresh token the session holds. That includes sessions a call has brought
back after their logout; it excludes tokens from before a restart of the provider
(`forgotten`) and says nothing of a session whose access token has expired, which
the code gives up. `LogoutIsFinal`: a logout no other call of the session runs into
is final as far as its own calls get. The session never comes back; from the
provider's revocation on, the revoked token is not accepted and no pair of that
sign-in can be renewed. When the revocation is lost, the provider knows nothing of
the logout, the code does not try again, and the pair stays renewable; an access
token that was renewed before the logout is accepted until it expires.

**Properties of the matching.** `MatchesJustified`: each match reported was so at
some moment of the query. `NothingMissed`: a record no Put was at during the
query is reported for each component it affects. `AdvisoryHolds`: for an imported
record of the common patterns and not changed since, the matches are those its
events declare, by the reference order of versions.

**Disagreements between code and documentation.**

1. `eventstore/store.go:26` and `:144` say that versions are monotonic per
   stream. After an error of `file.Sync` (`:187`) the lines stay in the file but
   not in the index; the next Append reuses their versions, and after a restart
   both are read. The failed event takes effect then, although its caller got
   an error. What was acknowledged keeps its order
   (`AckedVersionsIncrease` holds with fsync errors).
2. `docs/architecture.md:26` says that deleted entities are not shown, and
   `bus.go:10-14` that events are dispatched in publish order under the bus
   lock. `commit` (`projekte/application/command.go:72`) publishes after the
   store's mutex is released and `Publish` calls the handlers outside its lock.
   A creation published after the deletion of the same project brings it back
   into the read model until the next restart.
3. `schwachstellen/store/store.go:280-281` says that Get returns `nil, nil` when the
   record does not exist or is deleted. It gives the read lock back before it opens
   the file (`:285`), and a Put that writes the record to another bucket removes the
   old file in between: Get answers `nil, nil` for a record that was there all the
   time. `Create` then overwrites it, `Import` makes it anew from its own input, and
   the other commands report that it is not there.
4. `app/internal/session/session.go:111` says that deleting a session logs the
   user out, and `web.go:191` that the session is gone when its token is revoked.
   `ensureFreshToken` (`web.go:291`) saves its copy after the call to the
   provider without looking whether the session still exists: a refresh under way
   during a logout brings the session back, with a pair the logout did not revoke.
5. `osv/mapping.go:76-78` says that a bare introduced event is supported as an
   open-ended range. An introduced event of "0" adds no bound (`:93`), so a range
   with nothing else is empty and `Map` leaves it out (`:63`): a record that
   affects every version matches none.

Two more were met while modelling and have no run, since one step shows them and
nothing else depends on it. `Reconcile` (`schwachstellen/domain/aggregate.go:184`)
takes the ecosystem of a range from the range it replaces and never from its
input, so no record gets one, is filed under "_" and is not found by ecosystem,
against `store.go:50-52`. And `relPathFor` (`store.go:199`) counts the record
itself when it is rewritten, so the record of a full bucket moves to the next one
and a directory can get more files than `store.go:29-32` says; nothing that is
read depends on it.

**Bounds.** `EventStore`: two workers, two streams, two payloads, batches of up
to two events, a file of up to three lines (`MaxFile`), two crashes
(`MaxCrashes`), one fsync error (`MaxSyncFails`), write errors unbounded. Three
lines and two crashes are the least for a batch to be cut by one crash, numbered
on after the restart and hit by a second crash; the shortest counterexample of
`EventStore_versions` needs two lines, one fsync error and one crash.
`Projects`: one project (projects share nothing but the log, whose streams
`EventStore` checks with two), two components, two versions, one text, two
requests at a time, a log of up to four events (`MaxLog`), two crashes, and the
lists of `SomeImports`: two new components, a duplicate, a conflict, incomplete
declarations, none. Four events allow create, import of two and a concurrent
fourth.

`Vulnerabilities`: two ids, one component with one range, two commands at a time,
three commands that are not refused (`MaxCommands`), one I/O error and one crash.
Buckets hold one file, so that nearly every rewrite moves a record, and are
walked in the order 0, 2, 1, since strings of digits do not sort like numbers.
The legacy log has a live and a deleted record. One error and one crash are
enough to leave a torn or a second file behind and start from it; three commands
are the least for a change to a record that two others are working on.
`Vulnerabilities_get` is without errors and crashes, so that nothing but the two
steps of Get is to blame.
`OsvSync`: for safety one ecosystem, two records, four modification times and one
crash or failed save, enough for a bulk import, an increment and a third pass
from a stale cursor; for liveness two ecosystems and one record. `BatchSize` is 0
as in `main`; nobody sets another, and `CursorCovers` fails with one, because the
index is newest first and the cursor passes the entries that were cut off.
`Sessions`: one session, two requests at a time, one code, four pairs, two lost
messages or restarts; lifetimes of a code 2, of a token 5, margin 3, time-out 1,
age of a session 6, in units of which the margin is three time-outs as in the
code, and a clock up to 7, so that the token can be renewed, expire and be
cleaned up, and the session get too old. `Matching`: two ids, two writes, six
OSV records (the common patterns, two intervals in one range and in two, every
version, a component without a name), five other commands and three inventories,
two of them read from an SBOM. Symmetry is used for workers, streams, payloads,
projects and OSV records, in runs that check no liveness.

**Fairness.** `MutexReleased` needs weak fairness of `InAppend`: a goroutine
inside `Append` keeps running. It waits for nothing another goroutine holds, and
file operations return. `EventuallyImported` needs weak fairness of the sync's
own steps together with `Restart` (the ticker of `Run` fires again after every
pass, a request ends one way or the other, the service is started again), strong
fairness of the successful fetch of each ecosystem's list (otherwise an ecosystem
that always fails stops those after it, as `Once` returns at the first error),
and weak fairness of `Export`. No fairness is assumed for upstream's changes, for
requests, or for errors not to happen.

**Deadlock** is checked in every run. A service that is down on a torn line
takes the step `RestartFails`, which changes nothing: it really stays down. In
`Vulnerabilities` a search is always possible while requests are served.

## Proofs

Every theorem holds for all values of the constants that satisfy the named
assumptions of its module. Each safety theorem is proved from an inductive
invariant (`Safe`, or `Inv` in `Sessions_proofs`) that TLC checked first on the
instance of the run; the proof has a lemma per action, or per conjunct and
action, and a last step by temporal logic.

| Module | Theorem | States |
|---|---|---|
| `EventStore_proofs` | `TypeCorrect` | `Spec => []TypeOK` |
| | `Durable` | `Spec => []AckedDurable` |
| | `VersionsOnce` | `Spec => []AckedVersionsIncrease` |
| | `Readable` | `Spec => []AckedReadable` |
| | `ReadVersionsIncrease` | `Spec => []VersionsIncreaseUnlessSyncFailed` |
| | `KeepsPromise` | `Spec => Implements` |
| `Projects_proofs` | `TypeCorrect` | `Spec => []TypeOK` |
| | `AlwaysLegal` | `Spec => []LegalHistory` |
| | `ReadModelAlwaysFollows` | `Spec => []ReadModelFollows` |
| | `ImportsReconcile` | `Spec => []ImportReconciles` |
| `Vulnerabilities_proofs` | `TypeCorrect` | `Spec => []TypeOK` |
| | `AckedIsAlwaysRead` | `Spec => []AckedIsRead` |
| | `AckedIsAlwaysOnDisk` | `Spec => []AckedOnDisk` |
| | `IndexesAlwaysFollow` | `Spec => []IndexesFollow` |
| | `AlwaysMigratedAll` | `Spec => []MigratedAll` |
| | `MigrationUndoesNothing` | `Spec => []MigrationNeverUndoes` |
| `Matching_proofs` | `TypeCorrect` | `Spec => []TypeOK` |
| | `AlwaysJustified` | `Spec => []MatchesJustified` |
| | `NeverMisses` | `Spec => []NothingMissed` |
| | `AdvisoryReported` | `Spec => []AdvisoryHolds` |
| | `CompareIsLexicographic`, `ConstraintMeaning`, `RangeMeaning` | what `semver.go` computes, for every version |
| `OsvSync_proofs` | `TypeCorrect` | `Spec => []TypeOK` |
| | `CursorsNeverAhead` | `Spec => []CursorCovers`, if `BatchSize = 0` |
| `Sessions_proofs` | `TypeCorrect` | `Spec => []TypeOK` |
| | `CodesAndRefreshTokensAreSingleUse` | `Spec => []SingleUse` |
| | `ForwardsOnlyFresh` | `Spec => []NeverForwardsExpired` |
| | `SessionsStayRenewable` | `Spec => []SessionRenewable` |
| | `LogoutsAreFinal` | `Spec => []LogoutIsFinal` |

**Event store.** From the assumptions that `None` is neither a worker nor a stream
and that the bounds are natural numbers. The inductive invariant `Safe` has three
layers, each inductive on top of the ones before.

- `Typed`: the types and `Locking`. A worker is inside `Append` exactly if it
  holds the mutex, so at most one is.
- `Placed`: the written part of the batch is the end of the file
  (`WrittenIsTail`), and the batch continues the numbers of its stream in the
  index (`Numbered`). Both would break if another worker could write or index
  in between.
- `Kept`: every acknowledged event is on a synced line, and *every later line
  of its stream has a higher version* (`AckedKept`); no acknowledged version is
  above the last version in the index (`AckedBelowLast`). `AckedDurable` alone
  is not inductive for the versions: after a restart the next number comes from
  the last line of the stream in the file, which may be one a failed Append
  left. The clause about later lines says that this number is high enough, and
  it survives fsync errors, whose leftovers carry versions above everything
  acknowledged before them and are followed by lines that do so too.

`AckedReadable` is inductive relative to `Safe`. For
`VersionsIncreaseUnlessSyncFailed` the addition is `IndexIsPrefix`: the index is
a prefix of the file, and the file has nothing but the batch in hand beyond it
unless a write failed, after which the encoder writes no more. `Envelopes_proofs`
holds the lemmas about the last version of a stream: it is that of the last
envelope of the stream, the highest in an increasing sequence, and what an
appended batch makes of it.

`KeepsPromise` is the refinement: the log of `EventLog` is the index while the
service runs and the file while it is down, and what cannot be lost is the synced
part of it. `Index` maps to `AppendBatch`, a successful fsync after an earlier
crash also to `Harden`, `Crash` to `LoseTail` or, in the middle of a batch, to
`Partial`, `Restart` to `Restart`; the other steps change nothing `EventLog` shows.
`Implements` asks this of the steps before the first fsync error only: `EventLog`
promises increasing versions, and after one the store does not keep them
(`EventStore_versions`).

**Projects.** From the assumptions that the empty string is no component, version or
name and that an import is a list of declarations. The aggregate, the read model and
the events of an import are folds. `Iteration` shows that the function such a fold
chooses exists and does one step per element, by the least number at which it would
not; `IteratedRuns` makes a *run* of it, a function from positions to what has been
computed so far, and everything else is said about runs: `RebuiltIs`, `ProjectionRuns`,
`ImportRuns`, `WithoutRuns`.

`LegalHistory` is not inductive: what a request appends was decided on an earlier log.
`HInv` adds what it was decided on. The versions of each stream increase from 1
(`Sound`), and of a request that has decided (`Decision`): as long as its stream has
still the version it expects, its events continue the project, one after the other
(`Continues`). Other requests may append in between, but then the version is another
and stays so; that is what the version check is for. A creation expects an empty
stream whatever it has loaded. `EmitsContinue` is the domain's part: the events of
an accepted command, each of an import included, make sense where they will stand. A
crash leaves a prefix of the batch, which continues the project as well.

`ReadModelFollows` needs to know who waits. `RInv` says that the queues of the requests
hold different events of the log in the order of their versions (`Disciplined`), that
in every stream they are the latest ones unless the project is in `overtaken`
(`Pending`), and that the entry of every other project mirrors what the log without
these events makes of it (`Following`). `Mirrors` is stronger than `Shows`: the list
of the components names each once, which is what makes the removal and the update of
an entry right (`ListsAdded`, `ListsRemoved`, `ListsUpdated`). Publishing the oldest
waiting event of a project moves its entry on by one event (`RebuiltTail`); publishing
any other one puts it into `overtaken`. The replay of `Restart` is right because the
log it reads is legal (`ProjectionMirrors`).

`ImportReconciles` follows from `HInv`: `ImportSteps` follows the components through
the events of an import, and `ImportDone` compares the outcome with the declarations.

**Vulnerability store.** From these assumptions: the buckets of `WalkOrder` hold
what `relPathFor` computes, `None` and `Main` are not clients' or buckets' names,
the commands are of the forms the domain knows, and every stream of the legacy log
adds up to a record or to none. The last one is assumed, for it is about
`LegacyState`, a fold over the stream; TLC evaluates it for the log of the run.
The invariant `Safe` says how a Put goes on (`PutGoesOn`: torn file and old path,
then new file and new path, under the mutex), and of each record (`Kept`)

- `KeptOf`: the path leads to what was acknowledged or tried since, and while the
  service is down there is *no other* readable file of the record, so the next
  start cannot take a stale one for it;
- `TornIsDamaged`: a path leads to a torn file only if it was the only file;
- `IndexKnows`: both indexes know what the path of a live record leads to.

`AckedOnDisk` alone says nothing of the second copy, and a `AckedOnDisk` alone says nothing an older copy later would break it; that such copies exist only of
`doubled` records is what makes it inductive. `Migrating` follows each stream from
the queue through the Put to `acked`, and `NoneTouched` says that no command has
written while the legacy log is there. `Reading` is for `AckedIsRead`. Its part
`FilesOf` says where else a record may be: unless it is `doubled`, only where its
path leads or where the Put under way has still to remove it. `GetOf` says of each
Get that it knows the record of every Put that has run into it, that its path is
still the path of the record if none has, and that whatever it would read is among
what it has `seen`. The Put that truncates, writes and removes under it changes what
is at the path three times, and each step is covered (`PutChanges`): torn, missing, or
the record the Get knows of. `VulnDomain_proofs` holds the lemmas about
the domain: what a command makes of a record is a record, and no command brings in
an empty range (`ResultType`, `ResultRanges`).

**Matching.** From the assumptions that ranges and versions are written as `Semver`
writes them, that the feed consists of OSV records (`OsvRecord`) whose ranges are
range expressions, and that a component of a project has a name. The invariant says that each record has one file but while a
Put moves it, and that the path leads there (`Placed`), that the component index
lacks no component of a live record (`IndexKnows`), and

- `Held`: whatever the query could read at the path it has taken is something the
  record has been since the query began. It takes the removal of the old file
  and the writing of the new into account, which the query may read before, between
  and after; `MatchesJustified` follows.
- `NoneForgotten`: each record that affects a component and that no Put is at is
  still to be looked up, or among the ids at hand, or reported. `NothingMissed` is
  this invariant when the query is done.
- `ImportedIs`: a record last made from an OSV record is not deleted and has the
  ranges `Map` makes of it, or will have when the Put at it is done, whatever it
  said before the import (`ImportDeclares`, `ReconcileDeclares`);
- `HeldOnly`: a record no Put was at has been one thing only since the query began,
  so a reported match is one of the imported record and of no earlier state of it.

`RangeSays` shows that the range `rangeFromEvents` writes means of every version what
the events say, for one introduced event with at most one that ends it, unless the
range is open-ended; with `AdvisoryMeans`, which takes this from one range to the
record, and the four parts above, `AdvisoryHolds` follows. `AppliesIsAffects` links the test the code makes to the reference order of
versions, by `RangeMeaning`.

**Import.** From `SyncAssumption`. `CursorCovers` is strengthened by where each
change is that the store lacks: it lies behind none of the cursors, or it is in
what is left of the list in hand (`OnTheWay`), the list is in the order of the
times, and the cursor the pass is going to set is not ahead of what was taken off
it. `BatchSize = 0`, as in `main`, is a hypothesis of the theorem: with batches the
property is false, as described under Bounds.

**Sessions.** `CodesAndRefreshTokensAreSingleUse` needs only the provider's part:
`IdpInv` adds to `SingleUse` that a code still in the store has no pair yet; with
it, `Exchange` issues the first pair of a code and `Rotate` puts one pair in the
place of another, and the other endpoints, the janitor and the restart only take
things out (`TakingOut`). Nothing about the app is needed: whatever is called, lost
or repeated, the provider keeps the property. The other three theorems are about
both sides. Their invariant `Inv` says of the provider which pairs it can renew (the
newest of each code, `Known`), and of each session and request what the handler's
copy is worth: a session holds the newest pair of its code or a call that renews it
is under way (`HeldNewest`), a pair is carried by one call at a time
(`CarriedOnce`), a token about to be forwarded lasts for the calls still to come
(`ForwardLasts`), and what was revoked or logged out stays so (`RevokedEnded`,
`RevokesEnded`, `GoneForGood`). `NeverBack` adds that a pair
whose revocation is under way or done is in no session, and in no call that could
save it: a session that came back after its logout holds another pair, so that
`SessionRenewable` holds for it too. They assume `3 * Latency <= Skew`: the session a
callback hands over may be two calls old when its token is forwarded, and the third
call is the service's question. The code has 10 s, 30 s and three calls
(`oauth/provider.go:53`, `auth/introspection.go:30`, `session/session.go`).

**Versions.** The first part of `Matching_proofs` shows that `semver.go` computes what its comments
say: `CompareIsLexicographic` (`Compare` is the order of the keys),
`ConstraintMeaning` (each operator is its interval, `^` and `~` with the
pre-releases of the upper bound left in) and `RangeMeaning`. The lemma
`LessUnfolded` writes the lexicographic order out; the rest is a case split over
the first component in which two versions differ.

**Only checked by TLC.** `MutexReleased` and `EventuallyImported`: liveness under
fairness is out of reach of the prover. Every other property of a passing run is a
theorem.

## Not modelled

- **Front end.** Its pages keep nothing. `ProjectDetail` and `VulnList` apply
  answers in the order they arrive, and a page is loaded twice when it opens
  (`ProjectDetail.ts:156-165`), so a slow answer can overwrite a newer one or a
  form that is being edited; no test or document says what should happen.
- **Configuration and commands** (`idp/cmd`, `idp/internal/config`, the `main` of
  the app, environment variables) and the mode without authentication.
- **HTTP and formats**: JSON, zip and CSV decoding, status codes, cookies, CSRF
  tokens, PKCE values, passwords, static files, the matching of gateway prefixes,
  paging, full-text search, sorting by score and the score itself (`mapCVSS`).
- **Event store**: errors of marshalling (the events marshal without fail),
  `Store.Close` and `Bus.Close`, repair of a torn log by hand, a directory that
  cannot be written at all.
- **Migration**: a legacy log that cannot be opened; `main` leaves it alone and
  tries again at the next start.
- **OSV**: explicit lists of versions and withdrawn records, which the code
  ignores; the functions for all ecosystems at once, which nothing calls; an
  index that is not sorted, which the code relies on.
- **Sessions**: a call the provider deals with after the client gave up; a
  session without a refresh token (`web.go:273-278`), since the provider always
  issues one; `Create` and `Save` in `handleLogin` are one step, because nobody
  knows the session id before the answer. Looking a session up in `handleUser` is
  the action `Expire` when the session is over and changes nothing otherwise.

## What is left

1. Proofs of what a step does not show: nothing is proved of what `Semver` and
   `OsvMapping` leave to formats, and liveness stays with TLC.
2. The front end's loads, once it says what a page is to show.
