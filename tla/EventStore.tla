----------------------------- MODULE EventStore ------------------------------
(***************************************************************************)
(* The write-ahead-log event store of the service                          *)
(* (service/internal/eventstore/store.go) with the goroutines that call    *)
(* it, the file it writes, crashes of the process or the machine, and the  *)
(* restart that replays the file.                                          *)
(*                                                                         *)
(* Every method of Store holds the mutex from start to end.  Load is one   *)
(* step; Append is cut at each line written, at the fsync and at the       *)
(* update of the index, because a crash or an I/O error may fall between   *)
(* them.  The mutex keeps the other callers out, so these steps interleave *)
(* with failures only, never with another Append.                          *)
(***************************************************************************)
EXTENDS Envelopes

CONSTANTS
  Worker,        \* goroutines serving requests
  None,          \* no holder of the mutex, no stream of a call
  MaxBatch,      \* bound: events in one Append
  MaxFile,       \* bound: an Append starts only if the file stays this short
  MaxCrashes,    \* bound: crashes of the process or the machine
  MaxSyncFails   \* bound: fsync calls that report an error

ASSUME NoneAssumption == None \notin Worker /\ None \notin Stream
ASSUME BoundsAssumption ==
  /\ MaxBatch \in Nat
  /\ MaxFile \in Nat
  /\ MaxCrashes \in Nat
  /\ MaxSyncFails \in Nat

VARIABLES
  file,       \* the complete lines of the WAL as the process sees them
  torn,       \* the WAL ends in the beginning of one more line
  synced,     \* number of lines of file known to be on disk
  up,         \* the process runs
  mem,        \* Store.streams, the index replayed from the file
  encErr,     \* the json.Encoder has failed once: it fails from then on
  mutex,      \* holder of Store.mu, or None
  recorded,   \* the envelopes of the Append that holds the mutex
  written,    \* how many of them have been encoded to the file
  pc,         \* where each worker is
  call,       \* each worker's stream and the version it read
  acked,      \* history: envelopes of successful Appends, as they returned
  crashes,    \* number of crashes so far
  syncFails   \* number of fsync errors so far

disk == <<file, torn, synced>>
index == <<up, mem, encErr>>
locked == <<mutex, recorded, written>>
callers == <<pc, call>>
history == <<acked, crashes, syncFails>>
vars == <<disk, index, locked, callers, history>>

Batches == UNION {[1..n -> Event] : n \in 1..MaxBatch}

NoCall == [stream |-> None, expected |-> 0]

Init ==
  /\ file = <<>> /\ torn = FALSE /\ synced = 0
  /\ up = TRUE /\ mem = <<>> /\ encErr = FALSE
  /\ mutex = None /\ recorded = <<>> /\ written = 0
  /\ pc = [w \in Worker |-> "idle"]
  /\ call = [w \in Worker |-> NoCall]
  /\ acked = <<>> /\ crashes = 0 /\ syncFails = 0

-----------------------------------------------------------------------------
(* A worker decides on a version.                                          *)

\* Load (or CurrentVersion): the caller rebuilds its aggregate and keeps the
\* version of the last envelope; an unknown stream is version 0.
Load(w, s) ==
  /\ up
  /\ pc[w] = "idle"
  /\ mutex = None
  /\ pc' = [pc EXCEPT ![w] = "loaded"]
  /\ call' = [call EXCEPT ![w] = [stream |-> s, expected |-> LastVersion(mem, s)]]
  /\ UNCHANGED <<disk, index, locked, history>>

\* A caller that creates a stream passes 0 without looking.
ExpectNew(w, s) ==
  /\ up
  /\ pc[w] = "idle"
  /\ pc' = [pc EXCEPT ![w] = "loaded"]
  /\ call' = [call EXCEPT ![w] = [stream |-> s, expected |-> 0]]
  /\ UNCHANGED <<disk, index, locked, history>>

-----------------------------------------------------------------------------
(* Append.  An operator that stands just before an action or a guard and   *)
(* is used nowhere is a variant of it with a bug the properties must see.  *)

\* An empty batch returns at once, whatever version is expected.
AppendNothing(w) ==
  /\ pc[w] = "loaded"
  /\ pc' = [pc EXCEPT ![w] = "idle"]
  /\ call' = [call EXCEPT ![w] = NoCall]
  /\ UNCHANGED <<disk, index, locked, history>>

VersionMatches(w) == call[w].expected = LastVersion(mem, call[w].stream)

\* ErrConcurrency: the stream moved on since the caller read its version.
AppendConflict(w) ==
  /\ pc[w] = "loaded"
  /\ mutex = None
  /\ ~VersionMatches(w)
  /\ pc' = [pc EXCEPT ![w] = "idle"]
  /\ call' = [call EXCEPT ![w] = NoCall]
  /\ UNCHANGED <<disk, index, locked, history>>

\* The version check passes: take the mutex and number the envelopes.
AppendStart(w, events) ==
  /\ pc[w] = "loaded"
  /\ mutex = None
  /\ VersionMatches(w)
  /\ Len(file) + Len(events) <= MaxFile
  /\ mutex' = w
  /\ recorded' = Versioned(call[w].stream, LastVersion(mem, call[w].stream), events)
  /\ written' = 0
  /\ pc' = [pc EXCEPT ![w] = "write"]
  /\ UNCHANGED <<disk, index, call, history>>

ReturnDirty(w) ==
  /\ pc' = [pc EXCEPT ![w] = "idle"]
  /\ mutex' = None
  /\ recorded' = <<>>
  /\ UNCHANGED written
  /\ call' = [call EXCEPT ![w] = NoCall]

\* Append returns and its deferred Unlock runs.
Return(w) ==
  /\ pc' = [pc EXCEPT ![w] = "idle"]
  /\ mutex' = None
  /\ recorded' = <<>>
  /\ written' = 0
  /\ call' = [call EXCEPT ![w] = NoCall]

\* Encode writes the next line.
Encode(w) ==
  /\ pc[w] = "write"
  /\ ~encErr
  /\ file' = Append(file, recorded[written + 1])
  /\ written' = written + 1
  /\ pc' = [pc EXCEPT ![w] = IF written + 1 = Len(recorded) THEN "sync" ELSE "write"]
  /\ UNCHANGED <<torn, synced, index, mutex, recorded, call, history>>

EncodeFailsOnce(w) ==
  /\ pc[w] = "write"
  /\ torn' \in BOOLEAN
  /\ Return(w)
  /\ UNCHANGED <<file, synced, index, history>>

EncodeFailsLocked(w) ==
  /\ pc[w] = "write"
  /\ encErr' = TRUE
  /\ pc' = [pc EXCEPT ![w] = "idle"]
  /\ UNCHANGED <<disk, up, mem, locked, call, history>>

EncodeFailsIndexed(w) ==
  /\ pc[w] = "write"
  /\ encErr' = TRUE
  /\ mem' = mem \o SubSeq(recorded, 1, written)
  /\ Return(w)
  /\ UNCHANGED <<disk, up, history>>

\* Encode fails: the write error may leave half a line, and the encoder
\* reports it again on every later call without writing anything.
EncodeFails(w) ==
  /\ pc[w] = "write"
  /\ encErr' = TRUE
  /\ IF encErr THEN UNCHANGED torn ELSE torn' \in BOOLEAN
  /\ Return(w)
  /\ UNCHANGED <<file, synced, up, mem, history>>

FsyncSkipped(w) ==
  /\ pc[w] = "sync"
  /\ pc' = [pc EXCEPT ![w] = "index"]
  /\ UNCHANGED <<disk, index, locked, call, history>>

\* fsync succeeds: every line of the file is on disk.
Fsync(w) ==
  /\ pc[w] = "sync"
  /\ synced' = Len(file)
  /\ pc' = [pc EXCEPT ![w] = "index"]
  /\ UNCHANGED <<file, torn, index, locked, call, history>>

\* fsync reports an error: Append gives up, the lines stay in the file.
FsyncFails(w) ==
  /\ pc[w] = "sync"
  /\ syncFails < MaxSyncFails
  /\ syncFails' = syncFails + 1
  /\ Return(w)
  /\ UNCHANGED <<disk, index, acked, crashes>>

IndexReplaced(w) ==
  /\ pc[w] = "index"
  /\ mem' = SelectSeq(mem, LAMBDA e : e.stream # call[w].stream) \o recorded
  /\ acked' = acked \o recorded
  /\ Return(w)
  /\ UNCHANGED <<disk, up, encErr, crashes, syncFails>>

\* The index takes the batch in and Append returns it to the caller.
Index(w) ==
  /\ pc[w] = "index"
  /\ mem' = mem \o recorded
  /\ acked' = acked \o recorded
  /\ Return(w)
  /\ UNCHANGED <<disk, up, encErr, crashes, syncFails>>

-----------------------------------------------------------------------------
(* Crash and restart.                                                      *)

\* The process dies, alone or with the machine: some of the lines that were
\* not synced survive, the next one perhaps in part.
Crash ==
  /\ up
  /\ crashes < MaxCrashes
  /\ crashes' = crashes + 1
  /\ \E k \in synced..Len(file) :
       /\ file' = SubSeq(file, 1, k)
       /\ torn' \in IF torn \/ k < Len(file) THEN BOOLEAN ELSE {FALSE}
  /\ up' = FALSE
  /\ mem' = <<>>
  /\ encErr' = FALSE
  /\ mutex' = None /\ recorded' = <<>> /\ written' = 0
  /\ pc' = [w \in Worker |-> "idle"]
  /\ call' = [w \in Worker |-> NoCall]
  /\ UNCHANGED <<synced, acked, syncFails>>

RestartShort ==
  /\ ~up
  /\ ~torn
  /\ up' = TRUE
  /\ mem' = SubSeq(file, 1, Len(file) - 1)
  /\ UNCHANGED <<disk, encErr, locked, callers, history>>

\* New replays the file.  On a torn line the decoder fails, New returns the
\* error and main gives up.
Restart ==
  /\ ~up
  /\ ~torn
  /\ up' = TRUE
  /\ mem' = file
  /\ UNCHANGED <<disk, encErr, locked, callers, history>>

RestartFails ==
  /\ ~up
  /\ torn
  /\ UNCHANGED vars

-----------------------------------------------------------------------------
InAppend(w) ==
  \/ Encode(w)
  \/ EncodeFails(w)
  \/ Fsync(w)
  \/ FsyncFails(w)
  \/ Index(w)

AppendCall(w) ==
  \/ AppendNothing(w)
  \/ AppendConflict(w)
  \/ \E events \in Batches : AppendStart(w, events)

Next ==
  \/ \E w \in Worker, s \in Stream : Load(w, s) \/ ExpectNew(w, s)
  \/ \E w \in Worker : AppendCall(w) \/ InAppend(w)
  \/ Crash
  \/ Restart
  \/ RestartFails

Spec == Init /\ [][Next]_vars

\* A goroutine inside Append runs on: nothing it waits for is held by another.
Fairness == \A w \in Worker : WF_vars(InAppend(w))

FairSpec == Spec /\ Fairness

-----------------------------------------------------------------------------
(* Properties.                                                             *)

TypeOK ==
  /\ file \in Seq(Envelope) /\ torn \in BOOLEAN /\ synced \in Nat
  /\ up \in BOOLEAN /\ mem \in Seq(Envelope) /\ encErr \in BOOLEAN
  /\ mutex \in Worker \cup {None}
  /\ recorded \in Seq(Envelope) /\ written \in 0..Len(recorded)
  /\ pc \in [Worker -> {"idle", "loaded", "write", "sync", "index"}]
  /\ call \in [Worker -> [stream : Stream \cup {None}, expected : Nat]]
  /\ acked \in Seq(Envelope) /\ crashes \in Nat /\ syncFails \in Nat

\* store.go:65, "entries are durable on fsync before Append returns": an
\* event a caller was told is stored is among the synced lines of the file,
\* through any sequence of crashes, write errors and fsync errors.
AckedDurable ==
  /\ synced <= Len(file)
  /\ \A i \in 1..Len(acked) : \E j \in 1..synced : file[j] = acked[i]

\* An event a caller was told is stored can be loaded whenever the service
\* runs, right after the Append and after every later restart.
AckedReadable ==
  up => \A i \in 1..Len(acked) : \E j \in 1..Len(mem) : mem[j] = acked[i]

\* In the order the Appends succeed, the versions of one stream strictly
\* increase: a version one caller was given is never given to another event,
\* not after a crash either, and not after an fsync error whose lines a later
\* restart brings back with versions that were given out in the meantime.
AckedVersionsIncrease == Monotone(acked)

\* store.go:26, "Version is the monotonic, per-stream sequence number of an
\* event": what Load and All return, before and after restarts.
VersionsIncrease == Monotone(mem)

\* The same as long as no fsync reported an error.  It survives write errors
\* that leave part of a batch in the file, because the encoder refuses to
\* write anything after one, and crashes in the middle of a batch.
VersionsIncreaseUnlessSyncFailed == syncFails = 0 => VersionsIncrease

\* Every Append ends and gives the mutex back, on all its error paths.
MutexReleased == mutex # None ~> mutex = None

\* The promise of module EventLog: whole batches, at the expected version,
\* and nothing acknowledged is lost, as long as no fsync has reported an
\* error.  What can be read is the index while the service runs, and the file
\* while it is down.
Promise == INSTANCE EventLog WITH
  log  <- IF up THEN mem ELSE file,
  safe <- IF up /\ Len(mem) < synced THEN Len(mem) ELSE synced

Implements == Promise!Init /\ [][syncFails = 0 => Promise!Next]_(Promise!vars)
==============================================================================
