------------------------------- MODULE OsvSync --------------------------------
(***************************************************************************)
(* The import of the OSV database: passes over the ecosystems, each with a *)
(* cursor that says up to which modification time its changes have been    *)
(* taken over, and the file the cursors are saved in                       *)
(* (service/internal/osv/sync/sync.go and state.go, osv/client.go,         *)
(* osv/osv.go, cmd/jansvca/main.go).                                       *)
(*                                                                         *)
(* Upstream is not in the repository: a record is the time of its latest   *)
(* modification, an index lists the records of an ecosystem, an archive is *)
(* written from it now and then.  A change is late if it is listed with a  *)
(* time that is not later than every one before.  Records are imported one *)
(* by one; one that cannot be fetched or that Import refuses is skipped.   *)
(***************************************************************************)
EXTENDS Naturals, Sequences, SequencesExt, FiniteSetsExt

CONSTANTS
  Ecosystems,   \* the configured ecosystems, in order
  Record,       \* record ids within an ecosystem
  BatchSize,    \* the longest list of changes, 0 for no limit: main sets none
  MaxTime,      \* bound: upstream's clock
  MaxCrashes    \* bound: crashes and failed saves of the cursors

Ecosystem == ToSet(Ecosystems)

ASSUME SyncAssumption ==
  /\ Ecosystems \in Seq(Ecosystem) /\ Len(Ecosystems) = Cardinality(Ecosystem)
  /\ IsFiniteSet(Record)
  /\ BatchSize \in Nat /\ MaxTime \in Nat \ {0} /\ MaxCrashes \in Nat

VARIABLES
  clock,     \* the time upstream
  feed,      \* when each record was last modified, 0 if it does not exist
  archive,   \* the same in all.zip
  cursor,    \* Sync.lastSyncs, 0 for the zero time
  saved,     \* osv-sync.json
  pass,      \* what the goroutine is doing
  imported,  \* the modification of each record that is in the store
  late,      \* history: records whose latest change was listed with a time that
             \* may lie behind a cursor
  skipped,   \* history: records whose latest change was skipped
  trouble    \* crashes and failed saves so far

upstream == <<clock, feed, archive>>
vars == <<upstream, cursor, saved, pass, imported, late, skipped, trouble>>

Nothing == [e \in Ecosystem |-> 0]
NoRecords == [e \in Ecosystem |-> [r \in Record |-> 0]]

Whole(cursors) == [whole |-> TRUE, cursors |-> cursors]
Torn == [whole |-> FALSE, cursors |-> Nothing]
LoadHighest(file) == [e \in Ecosystem |-> Max({file.cursors[f] : f \in Ecosystem})]

\* A file that is cut off loads as if there were none.
Load(file) == file.cursors

Down == [at |-> "down"]
Waiting == [at |-> "waiting"]

Init ==
  /\ clock = 1
  /\ feed = NoRecords /\ archive = NoRecords
  /\ cursor = Nothing /\ saved = Whole(Nothing)
  /\ pass = Down
  /\ imported = NoRecords
  /\ late = {} /\ skipped = {}
  /\ trouble = 0

-----------------------------------------------------------------------------
(* Upstream.                                                               *)

\* A record appears or changes and is listed: in time, or with the time of a
\* change that may have been seen already.
Publish(e, r) ==
  /\ \E t \in {clock, clock + 1} :
       /\ t <= MaxTime /\ t > feed[e][r]
       /\ clock' = t
       /\ feed' = [feed EXCEPT ![e][r] = t]
       /\ late' = IF t = clock THEN late \cup {<<e, r>>} ELSE late \ {<<e, r>>}
  /\ skipped' = skipped \ {<<e, r>>}
  /\ UNCHANGED <<archive, cursor, saved, pass, imported, trouble>>

\* all.zip is written anew.
Export(e) ==
  /\ archive[e] # feed[e]
  /\ archive' = [archive EXCEPT ![e] = feed[e]]
  /\ UNCHANGED <<clock, feed, cursor, saved, pass, imported, late, skipped, trouble>>

-----------------------------------------------------------------------------
(* Once.                                                                   *)

\* Once copies the cursors and goes through the ecosystems, if there are any.
StartPass ==
  /\ pass = Waiting /\ Ecosystems # <<>>
  /\ pass' = [at |-> "fetch", index |-> 1, since |-> cursor]
  /\ UNCHANGED <<upstream, cursor, saved, imported, late, skipped, trouble>>

Current == Ecosystems[pass.index]

OnwardShort ==
  IF pass.index + 1 >= Len(Ecosystems) THEN Waiting
  ELSE [at |-> "fetch", index |-> pass.index + 1, since |-> pass.since]

\* The next ecosystem of the pass, or the end of it.
Onward ==
  IF pass.index = Len(Ecosystems) THEN Waiting
  ELSE [at |-> "fetch", index |-> pass.index + 1, since |-> pass.since]

Entries(times, since) ==
  {[record |-> r, modified |-> times[r]] : r \in {q \in Record : times[q] > since}}

\* FetchEcosystemZip: every record of the archive, in any order.
Archived(e) == SetToSeqs(Entries(archive[e], 0))

\* ReadModifiedSince: the index is sorted, newest first, and read as long as
\* its entries are newer than the cursor.
Listed(e, since) ==
  {s \in SetToSeqs(Entries(feed[e], since)) :
     \A i, j \in DOMAIN s : i < j => s[i].modified >= s[j].modified}

CutToNewest(entries) == IF entries = <<>> THEN entries ELSE <<Head(entries)>>

Cut(entries) ==
  IF BatchSize > 0 /\ Len(entries) > BatchSize THEN SubSeq(entries, 1, BatchSize) ELSE entries

\* An ecosystem without a cursor gets the archive ...
FetchBulk ==
  /\ pass.at = "fetch" /\ pass.since[Current] = 0
  /\ \E entries \in Archived(Current) :
       pass' = [at |-> "apply", index |-> pass.index, since |-> pass.since, bulk |-> TRUE,
                entries |-> entries, latest |-> 0]
  /\ UNCHANGED <<upstream, cursor, saved, imported, late, skipped, trouble>>

\* ... and one with a cursor what the index has after it.
FetchIndex ==
  /\ pass.at = "fetch" /\ pass.since[Current] # 0
  /\ \E entries \in Listed(Current, pass.since[Current]) :
       pass' = [at |-> "apply", index |-> pass.index, since |-> pass.since, bulk |-> FALSE,
                entries |-> Cut(entries), latest |-> pass.since[Current]]
  /\ UNCHANGED <<upstream, cursor, saved, imported, late, skipped, trouble>>

\* An error ends the pass, also for the ecosystems that would follow.
FetchFails ==
  /\ pass.at = "fetch"
  /\ pass' = Waiting
  /\ UNCHANGED <<upstream, cursor, saved, imported, late, skipped, trouble>>

\* latest moves whether the record is imported or not.
Consumed ==
  pass' = [pass EXCEPT !.entries = Tail(@), !.latest = Max({@, Head(pass.entries).modified})]

\* The record of the archive is imported as it is there, one of the index as
\* it is upstream when it is fetched.
ImportEntry ==
  LET r == Head(pass.entries).record
      version == IF pass.bulk THEN Head(pass.entries).modified ELSE feed[Current][r]
  IN
  /\ pass.at = "apply" /\ pass.entries # <<>>
  /\ imported' = [imported EXCEPT ![Current][r] = version]
  /\ Consumed
  /\ UNCHANGED <<upstream, cursor, saved, late, skipped, trouble>>

\* Fetching it or storing it fails: the pass goes on without it.
SkipEntry ==
  LET x == Head(pass.entries) IN
  /\ pass.at = "apply" /\ pass.entries # <<>>
  /\ Consumed
  /\ skipped' = skipped \cup
       {p \in {<<Current, x.record>>} : feed[Current][x.record] = x.modified}
  /\ UNCHANGED <<upstream, cursor, saved, imported, late, trouble>>

-----------------------------------------------------------------------------
(* setEcosystemSync, persistEcosystem, SaveEcosystem.                      *)

SetCursorPast ==
  LET reached == IF pass.latest = 0 THEN clock ELSE pass.latest + 1 IN
  /\ pass.at = "apply" /\ pass.entries = <<>>
  /\ cursor' = [cursor EXCEPT ![Current] = reached]
  /\ late' = late \cup {p \in {Current} \X Record : pass.latest = 0 /\ feed[p[1]][p[2]] # 0}
  /\ pass' = [at |-> "save", index |-> pass.index, since |-> pass.since, file |-> Load(saved)]
  /\ UNCHANGED <<upstream, saved, imported, skipped, trouble>>

\* When the archive was empty the cursor becomes the current time, and what
\* has been listed already falls behind it.
SetCursor ==
  LET reached == IF pass.latest = 0 THEN clock ELSE pass.latest IN
  /\ pass.at = "apply" /\ pass.entries = <<>>
  /\ cursor' = [cursor EXCEPT ![Current] = reached]
  /\ late' = late \cup {p \in {Current} \X Record : pass.latest = 0 /\ feed[p[1]][p[2]] # 0}
  /\ pass' = [at |-> "save", index |-> pass.index, since |-> pass.since, file |-> Load(saved)]
  /\ UNCHANGED <<upstream, saved, imported, skipped, trouble>>

\* The file is loaded, merged with the new cursor and written in place.
Truncate ==
  /\ pass.at = "save"
  /\ saved' = Torn
  /\ pass' = [pass EXCEPT !.at = "write"]
  /\ UNCHANGED <<upstream, cursor, imported, late, skipped, trouble>>

SaveCursor ==
  /\ pass.at = "write"
  /\ saved' = Whole([pass.file EXCEPT ![Current] = cursor[Current]])
  /\ pass' = Onward
  /\ UNCHANGED <<upstream, cursor, imported, late, skipped, trouble>>

\* The error is logged; the file is as it was, or cut off.
SaveFails ==
  /\ pass.at \in {"save", "write"}
  /\ trouble < MaxCrashes
  /\ trouble' = trouble + 1
  /\ pass' = Onward
  /\ UNCHANGED <<upstream, cursor, saved, imported, late, skipped>>

-----------------------------------------------------------------------------
\* The service ends, and starts with the cursors it finds.
Crash ==
  /\ pass # Down
  /\ trouble < MaxCrashes
  /\ trouble' = trouble + 1
  /\ pass' = Down
  /\ cursor' = Nothing
  /\ UNCHANGED <<upstream, saved, imported, late, skipped>>

Restart ==
  /\ pass = Down
  /\ cursor' = Load(saved)
  /\ pass' = Waiting
  /\ UNCHANGED <<upstream, saved, imported, late, skipped, trouble>>

Next ==
  \/ \E e \in Ecosystem, r \in Record : Publish(e, r)
  \/ \E e \in Ecosystem : Export(e)
  \/ StartPass
  \/ FetchBulk \/ FetchIndex \/ FetchFails
  \/ ImportEntry \/ SkipEntry
  \/ SetCursor \/ Truncate \/ SaveCursor \/ SaveFails
  \/ Crash \/ Restart

Fetch(e) == (FetchBulk \/ FetchIndex) /\ Current = e

\* The goroutine goes on: the ticker of Run fires again and again, a started
\* request ends one way or the other, and the service is started again after
\* a crash.  Of the fetches of each ecosystem's list infinitely many succeed,
\* if infinitely many are tried, and archives are written.
Fairness ==
  /\ WF_vars(StartPass \/ FetchBulk \/ FetchIndex \/ FetchFails \/ ImportEntry \/ SkipEntry
               \/ SetCursor \/ Truncate \/ SaveCursor \/ SaveFails \/ Restart)
  /\ \A e \in Ecosystem : SF_vars(Fetch(e)) /\ WF_vars(Export(e))

Spec == Init /\ [][Next]_vars

FairSpec == Spec /\ Fairness

-----------------------------------------------------------------------------
(* Properties.                                                             *)

Cursors == [Ecosystem -> 0..MaxTime]

TypeOK ==
  /\ clock \in 1..MaxTime
  /\ feed \in [Ecosystem -> [Record -> 0..clock]]
  /\ imported \in [Ecosystem -> [Record -> 0..clock]]
  /\ cursor \in Cursors
  /\ saved \in [whole : BOOLEAN, cursors : Cursors]
  /\ pass.at \in {"down", "waiting", "fetch", "apply", "save", "write"}
  /\ pass.at \notin {"down", "waiting"} => pass.since \in Cursors
  /\ pass.at = "apply" => pass.entries \in Seq([record : Record, modified : 1..clock])

\* The store has every change of an ecosystem up to time t, except changes
\* that were listed late or skipped.
Covers(e, t) ==
  \A r \in Record :
    (feed[e][r] <= t /\ <<e, r>> \notin late \cup skipped) => imported[e][r] = feed[e][r]

\* architecture.md:104-107, after a restart the import goes on incrementally:
\* no cursor, in memory or in the file, is ahead of the store, whatever was cut
\* off, saved or not saved, published or exported in between.  What is behind a
\* cursor is never looked at again, so this is what keeps a change from being
\* lost.
CursorCovers ==
  \A e \in Ecosystem : Covers(e, cursor[e]) /\ Covers(e, Load(saved)[e])

\* Every change is imported in the end, in a later version perhaps, also when
\* single passes fail at an ecosystem before, unless it is late or skipped.
EventuallyImported ==
  \A e \in Ecosystem, r \in Record :
    [](feed[e][r] # 0 => <>(imported[e][r] = feed[e][r] \/ <<e, r>> \in late \cup skipped))
==============================================================================
