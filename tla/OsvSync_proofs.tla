--------------------------- MODULE OsvSync_proofs ----------------------------
(***************************************************************************)
(* The cursors of the OSV import never run ahead of the store: the         *)
(* inductive invariant and its proof, for all ecosystems, records, times   *)
(* and crashes.                                                            *)
(***************************************************************************)
EXTENDS OsvSync, FiniteSetTheorems, SequenceTheorems, TLAPS

Entry == [record : Record, modified : 1..MaxTime]
Positions == 1..Len(Ecosystems)

\* What the goroutine holds at each place of a pass.
Fetching == [at : {"fetch"}, index : Positions, since : Cursors]
Applying == [at : {"apply"}, index : Positions, since : Cursors, bulk : BOOLEAN,
             entries : Seq(Entry), latest : 0..MaxTime]
Saving == [at : {"save", "write"}, index : Positions, since : Cursors, file : Cursors]

Passes == {Down, Waiting} \cup Fetching \cup Applying \cup Saving

Typed ==
  /\ clock \in 1..MaxTime
  /\ feed \in [Ecosystem -> [Record -> 0..MaxTime]]
  /\ archive \in [Ecosystem -> [Record -> 0..MaxTime]]
  /\ imported \in [Ecosystem -> [Record -> 0..MaxTime]]
  /\ cursor \in Cursors
  /\ saved \in [whole : BOOLEAN, cursors : Cursors]
  /\ pass \in Passes
  /\ late \subseteq Ecosystem \X Record /\ skipped \subseteq Ecosystem \X Record
  /\ trouble \in Nat

\* No cursor is ahead of the clock, in memory, in the file or in a copy.
CursorsPast ==
  /\ \A e \in Ecosystem : cursor[e] <= clock /\ saved.cursors[e] <= clock
  /\ pass.at \notin {"down", "waiting"} => \A e \in Ecosystem : pass.since[e] <= clock
  /\ pass.at \in {"save", "write"} => \A e \in Ecosystem : pass.file[e] <= clock
  /\ pass.at = "apply" => pass.latest <= clock

\* Nothing is newer than upstream: the archive, the list and the store are
\* behind the feed, and the feed is behind the clock.
NotAhead ==
  /\ \A e \in Ecosystem, r \in Record :
       /\ feed[e][r] <= clock
       /\ archive[e][r] <= feed[e][r]
       /\ imported[e][r] <= feed[e][r]
  /\ pass.at = "apply" =>
       \A i \in 1..Len(pass.entries) :
         pass.entries[i].modified <= feed[Current][pass.entries[i].record]

\* What is not in the archive in its latest version is newer than all of it.
ArchiveIsPast ==
  \A e \in Ecosystem, r \in Record :
    <<e, r>> \notin late =>
      \/ archive[e][r] = feed[e][r]
      \/ \A q \in Record : archive[e][q] < feed[e][r]

\* The file never has a later cursor than the memory, nor has the copy that is
\* being written; the cursors a pass started with are those of the ecosystems
\* it has not reached.
CursorsAgree ==
  /\ pass.at # "down" => \A e \in Ecosystem : saved.cursors[e] <= cursor[e]
  /\ pass.at \in {"save", "write"} => \A e \in Ecosystem : pass.file[e] <= cursor[e]
  /\ pass.at \notin {"down", "waiting"} =>
       \A j \in Positions :
         j > pass.index \/ (j = pass.index /\ pass.at \in {"fetch", "apply"}) =>
           pass.since[Ecosystems[j]] = cursor[Ecosystems[j]]

\* While a list is taken over, a change is on it, or is imported and its record
\* is not on the list (any more), or is newer than everything the cursor will
\* be set to.
OnList(e, r) ==
  \E i \in 1..Len(pass.entries) :
    pass.entries[i].record = r /\ pass.entries[i].modified = feed[e][r]

Done(e, r) ==
  /\ imported[e][r] = feed[e][r]
  /\ \A i \in 1..Len(pass.entries) : pass.entries[i].record # r

Newer(e, r) ==
  /\ pass.latest < feed[e][r]
  /\ \A i \in 1..Len(pass.entries) : pass.entries[i].modified < feed[e][r]

OnTheWay ==
  pass.at = "apply" =>
    /\ \A i, j \in 1..Len(pass.entries) :
         pass.entries[i].record = pass.entries[j].record => i = j
    /\ \A r \in Record :
         <<Current, r>> \notin late \cup skipped /\ feed[Current][r] # 0 =>
           OnList(Current, r) \/ Done(Current, r) \/ Newer(Current, r)
    /\ ~pass.bulk => pass.latest >= pass.since[Current]
    /\ pass.bulk => pass.since[Current] = 0
    /\ pass.latest = 0 => pass.bulk

Safe == Typed /\ CursorsPast /\ NotAhead /\ ArchiveIsPast /\ CursorsAgree /\ OnTheWay /\ CursorCovers
-----------------------------------------------------------------------------
(* What the operators of the model return.                                 *)

LEMMA MaxOfTwo ==
  ASSUME NEW a \in Nat, NEW b \in Nat
  PROVE  Max({a, b}) = IF a >= b THEN a ELSE b
<1>1. CASE a >= b
  BY <1>1, SMT DEF Max
<1>2. CASE ~(a >= b)
  BY <1>2, SMT DEF Max
<1> QED  BY <1>1, <1>2

\* A sequence of elements of a set is a sequence over that set.
LEMMA ElementsMakeSeq ==
  ASSUME NEW S, NEW T, NEW s \in Seq(S), \A i \in 1..Len(s) : s[i] \in T
  PROVE  s \in Seq(T)
<1>1. Len(s) \in Nat /\ s \in [1..Len(s) -> T]
  OBVIOUS
<1> QED  BY <1>1

\* A list of a finite set holds every element of it exactly once.
LEMMA OnceEach ==
  ASSUME NEW S, IsFiniteSet(S), NEW s \in SetToSeqs(S)
  PROVE  /\ s \in Seq(S)
         /\ \A i, j \in 1..Len(s) : s[i] = s[j] => i = j
         /\ \A x \in S : \E i \in 1..Len(s) : s[i] = x
<1> DEFINE n == Cardinality(S)
<1>1. n \in Nat
  BY FS_CardinalityType
<1>2. s \in [1..n -> S] /\ \A i, j \in 1..n : i # j => s[i] # s[j]
  BY DEF SetToSeqs
<1> HIDE DEF n
<1>3. s \in Seq(S) /\ Len(s) = n
  BY <1>1, <1>2
<1>4. s \in Injection(1..n, S)
  BY <1>2 DEF Injection, IsInjective
<1>5. IsFiniteSet(1..n) /\ Cardinality(1..n) = n
  BY <1>1, FS_Interval
<1>6. s \in Surjection(1..n, S)
  BY <1>4, <1>5, FS_Injection DEF n
<1> QED  BY <1>2, <1>3, <1>6 DEF Surjection

\* No ecosystem is configured twice.
LEMMA DistinctEcosystems ==
  /\ \A i \in Positions : Ecosystems[i] \in Ecosystem
  /\ \A i, j \in Positions : Ecosystems[i] = Ecosystems[j] => i = j
<1>1. Ecosystems \in [Positions -> Ecosystem] /\ Len(Ecosystems) \in Nat
  BY SyncAssumption DEF Positions
<1>2. Ecosystems \in Surjection(Positions, Ecosystem)
  BY <1>1 DEF Surjection, Ecosystem, ToSet
<1>3. IsFiniteSet(Positions) /\ Cardinality(Positions) = Len(Ecosystems)
  <2>1. /\ IsFiniteSet(1..Len(Ecosystems))
        /\ Cardinality(1..Len(Ecosystems)) =
             IF 1 > Len(Ecosystems) THEN 0 ELSE Len(Ecosystems) - 1 + 1
    BY <1>1, FS_Interval
  <2> QED  BY <1>1, <2>1 DEF Positions
<1>4. Ecosystems \in Injection(Positions, Ecosystem)
  BY <1>2, <1>3, FS_Surjection, SyncAssumption
<1> QED  BY <1>1, <1>4 DEF Injection, IsInjective

\* The changes after a time, one for each record.
LEMMA EntriesAre ==
  ASSUME NEW times \in [Record -> 0..MaxTime], NEW since \in Nat
  PROVE  /\ IsFiniteSet(Entries(times, since))
         /\ Entries(times, since) \subseteq Entry
         /\ \A x \in Entries(times, since) : x.modified = times[x.record] /\ x.modified > since
         /\ \A r \in Record : times[r] > since =>
              [record |-> r, modified |-> times[r]] \in Entries(times, since)
<1> DEFINE changed == {q \in Record : times[q] > since}
           entry == [r \in changed |-> [record |-> r, modified |-> times[r]]]
<1>1. IsFiniteSet(changed)
  BY FS_Subset, SyncAssumption
<1>2. entry \in Surjection(changed, Entries(times, since))
  BY DEF Surjection, Entries
<1>3. IsFiniteSet(Entries(times, since))
  BY <1>1, <1>2, FS_Surjection
<1> QED  BY <1>3, SyncAssumption DEF Entries, Entry

-----------------------------------------------------------------------------
(* The goroutine.                                                          *)

LEMMA PassAt ==
  ASSUME Typed
  PROVE  /\ pass.at = "down" => pass = Down
         /\ pass.at = "waiting" => pass = Waiting
         /\ pass.at = "fetch" => pass \in Fetching
         /\ pass.at = "apply" => pass \in Applying
         /\ pass.at \in {"save", "write"} => pass \in Saving
         /\ pass.at \in {"down", "waiting", "fetch", "apply", "save", "write"}
         /\ pass.at \notin {"down", "waiting"} =>
              pass.index \in Positions /\ Current \in Ecosystem /\ pass.since \in Cursors
<1>1. PICK p \in Passes : p = pass
  BY DEF Typed
<1>2. CASE p = Down
  BY <1>1, <1>2 DEF Down
<1>3. CASE p = Waiting
  BY <1>1, <1>3 DEF Waiting
<1>4. CASE p \in Fetching
  BY <1>1, <1>4, DistinctEcosystems DEF Fetching, Current
<1>5. CASE p \in Applying
  BY <1>1, <1>5, DistinctEcosystems DEF Applying, Current
<1>6. CASE p \in Saving
  BY <1>1, <1>6, DistinctEcosystems DEF Saving, Current
<1> QED  BY <1>1, <1>2, <1>3, <1>4, <1>5, <1>6 DEF Passes

LEMMA OnwardIs ==
  ASSUME Typed, pass \in Saving
  PROVE  \/ Onward = Waiting
         \/ /\ Onward \in Fetching
            /\ Onward.index = pass.index + 1 /\ Onward.since = pass.since
<1>1. pass.index \in Positions /\ pass.since \in Cursors
  BY DEF Saving
<1>2. CASE pass.index = Len(Ecosystems)
  BY <1>2 DEF Onward
<1>3. CASE pass.index # Len(Ecosystems)
  <2>1. pass.index + 1 \in Positions
    BY <1>1, <1>3, SyncAssumption DEF Positions
  <2> QED  BY <1>1, <1>3, <2>1 DEF Onward, Fetching
<1> QED  BY <1>2, <1>3

\* Taking the first entry off the list.
LEMMA ConsumedIs ==
  ASSUME Typed, pass.at = "apply", pass.entries # <<>>, Consumed
  PROVE  /\ pass' \in Applying
         /\ pass'.index = pass.index /\ pass'.since = pass.since /\ pass'.bulk = pass.bulk
         /\ Len(pass.entries) > 0 /\ Head(pass.entries) = pass.entries[1]
         /\ pass.entries[1] \in Entry
         /\ pass'.latest = IF pass.latest >= pass.entries[1].modified
                           THEN pass.latest ELSE pass.entries[1].modified
         /\ Len(pass'.entries) = Len(pass.entries) - 1
         /\ \A i \in 1..Len(pass'.entries) : pass'.entries[i] = pass.entries[i + 1]
<1>1. pass \in Applying
  BY PassAt
<1>2. pass.entries \in Seq(Entry) /\ pass.latest \in 0..MaxTime
  BY <1>1 DEF Applying
<1>3. /\ Len(pass.entries) > 0 /\ Head(pass.entries) = pass.entries[1]
      /\ Tail(pass.entries) \in Seq(Entry)
      /\ Len(Tail(pass.entries)) = Len(pass.entries) - 1
      /\ \A i \in 1..Len(Tail(pass.entries)) : Tail(pass.entries)[i] = pass.entries[i + 1]
  BY <1>2, EmptySeq, HeadTailProperties
<1>4. pass.entries[1] \in Entry
  BY <1>2, <1>3, ElementOfSeq
<1> DEFINE m == Max({pass.latest, Head(pass.entries).modified})
<1>5. /\ m = IF pass.latest >= pass.entries[1].modified
             THEN pass.latest ELSE pass.entries[1].modified
      /\ m \in 0..MaxTime
  <2>1. pass.latest \in Nat /\ pass.entries[1].modified \in 1..MaxTime /\ MaxTime \in Nat
    BY <1>2, <1>4, SyncAssumption DEF Entry
  <2> QED  BY <1>2, <1>3, <2>1, MaxOfTwo
<1>6. pass' = [pass EXCEPT !.entries = Tail(pass.entries), !.latest = m]
  BY DEF Consumed
<1> HIDE DEF m
<1> QED  BY <1>1, <1>3, <1>4, <1>5, <1>6 DEF Applying

\* What a started list is: every change that is to be taken over, once.
LEMMA ListIs ==
  ASSUME Typed, NEW e \in Ecosystem, NEW times \in [Record -> 0..MaxTime], NEW since \in Nat,
         NEW entries \in SetToSeqs(Entries(times, since))
  PROVE  /\ entries \in Seq(Entry)
         /\ \A i \in 1..Len(entries) :
              entries[i].modified = times[entries[i].record] /\ entries[i].modified > since
         /\ \A i, j \in 1..Len(entries) : entries[i].record = entries[j].record => i = j
         /\ \A r \in Record : times[r] > since =>
              \E i \in 1..Len(entries) : entries[i].record = r /\ entries[i].modified = times[r]
<1> DEFINE S == Entries(times, since)
<1>1. /\ IsFiniteSet(S) /\ S \subseteq Entry
      /\ \A x \in S : x.modified = times[x.record] /\ x.modified > since
      /\ \A r \in Record : times[r] > since => [record |-> r, modified |-> times[r]] \in S
  BY EntriesAre
<1> HIDE DEF S
<1>2. /\ entries \in Seq(S)
      /\ \A i, j \in 1..Len(entries) : entries[i] = entries[j] => i = j
      /\ \A x \in S : \E i \in 1..Len(entries) : entries[i] = x
  BY <1>1, OnceEach DEF S
<1>3. \A i \in 1..Len(entries) : entries[i] \in S
  BY <1>2, ElementOfSeq
<1>4. entries \in Seq(Entry)
  <2>1. \A i \in 1..Len(entries) : entries[i] \in Entry
    BY <1>1, <1>3
  <2> QED  BY <1>2, <2>1, ElementsMakeSeq
<1>5. ASSUME NEW i \in 1..Len(entries), NEW j \in 1..Len(entries),
             entries[i].record = entries[j].record
      PROVE  i = j
  <2>1. entries[i] \in S /\ entries[j] \in S
    BY <1>3
  <2>2. /\ entries[i] \in Entry /\ entries[j] \in Entry
        /\ entries[i].modified = times[entries[i].record]
        /\ entries[j].modified = times[entries[j].record]
    BY <1>1, <2>1
  <2>3. entries[i].modified = entries[j].modified
    BY <1>5, <2>2
  <2>4. \A x \in Entry : x = [record |-> x.record, modified |-> x.modified]
    BY DEF Entry
  <2>5. /\ entries[i] = [record |-> entries[i].record, modified |-> entries[i].modified]
        /\ entries[j] = [record |-> entries[j].record, modified |-> entries[j].modified]
    BY <2>2, <2>4
  <2>6. entries[i] = entries[j]
    BY <1>5, <2>3, <2>5
  <2>7. \A a, b \in 1..Len(entries) : entries[a] = entries[b] => a = b
    BY <1>2
  <2> QED  BY <2>6, <2>7
<1>6. ASSUME NEW r \in Record, times[r] > since
      PROVE  \E i \in 1..Len(entries) : entries[i].record = r /\ entries[i].modified = times[r]
  <2>1. PICK i \in 1..Len(entries) : entries[i] = [record |-> r, modified |-> times[r]]
    BY <1>1, <1>2, <1>6
  <2> QED  BY <2>1
<1> QED  BY <1>1, <1>3, <1>4, <1>5, <1>6

\* What may be cut off a list is its end.
LEMMA CutIs ==
  ASSUME NEW entries \in Seq(Entry)
  PROVE  /\ Cut(entries) \in Seq(Entry)
         /\ Len(Cut(entries)) <= Len(entries)
         /\ \A i \in 1..Len(Cut(entries)) : i \in 1..Len(entries) /\ Cut(entries)[i] = entries[i]
         /\ BatchSize = 0 => Cut(entries) = entries
<1>1. Len(entries) \in Nat /\ BatchSize \in Nat
  BY SyncAssumption
<1>2. CASE BatchSize > 0 /\ Len(entries) > BatchSize
  <2>1. /\ SubSeq(entries, 1, BatchSize) \in Seq(Entry)
        /\ Len(SubSeq(entries, 1, BatchSize)) = BatchSize
        /\ \A i \in 1..BatchSize : SubSeq(entries, 1, BatchSize)[i] = entries[i]
    <3>1. \A i \in 1..BatchSize : entries[i] \in Entry
      BY <1>1, <1>2, ElementOfSeq
    <3> QED  BY <1>1, <1>2, <3>1, SubSeqProperties
  <2> QED  BY <1>1, <1>2, <2>1 DEF Cut
<1>3. CASE ~(BatchSize > 0 /\ Len(entries) > BatchSize)
  BY <1>1, <1>3 DEF Cut
<1> QED  BY <1>2, <1>3

\* What FetchBulk and FetchIndex put on the list, and with which latest they
\* start.
LEMMA FetchIs ==
  ASSUME Typed, FetchBulk \/ FetchIndex
  PROVE  LET since == pass.since[Current]
             times == IF since = 0 THEN archive[Current] ELSE feed[Current]
         IN /\ pass.at = "fetch" /\ pass' \in Applying
            /\ pass'.index = pass.index /\ pass'.since = pass.since
            /\ pass'.bulk = (since = 0) /\ pass'.latest = since
            /\ \A i \in 1..Len(pass'.entries) :
                 /\ pass'.entries[i] \in Entry
                 /\ pass'.entries[i].modified = times[pass'.entries[i].record]
                 /\ pass'.entries[i].modified > since
            /\ \A i, j \in 1..Len(pass'.entries) :
                 pass'.entries[i].record = pass'.entries[j].record => i = j
            /\ BatchSize = 0 =>
                 \A r \in Record : times[r] > since =>
                   \E i \in 1..Len(pass'.entries) :
                     pass'.entries[i].record = r /\ pass'.entries[i].modified = times[r]
<1>1. pass.at = "fetch" /\ pass \in Fetching /\ Current \in Ecosystem
  BY PassAt DEF FetchBulk, FetchIndex
<1> DEFINE since == pass.since[Current]
           times == IF since = 0 THEN archive[Current] ELSE feed[Current]
<1>2. /\ since \in 0..MaxTime /\ since \in Nat
      /\ pass.index \in Positions /\ pass.since \in Cursors
  BY <1>1, SyncAssumption DEF Fetching, Cursors
<1>3. times \in [Record -> 0..MaxTime]
  BY <1>1 DEF Typed
<1> HIDE DEF times
<1>4. PICK list \in SetToSeqs(Entries(times, since)) :
        pass' = [at |-> "apply", index |-> pass.index, since |-> pass.since,
                 bulk |-> (since = 0), entries |-> IF since = 0 THEN list ELSE Cut(list),
                 latest |-> since]
  <2>1. CASE FetchBulk
    BY <2>1 DEF FetchBulk, Archived, times
  <2>2. CASE FetchIndex
    BY <2>2 DEF FetchIndex, Listed, times
  <2> QED  BY <2>1, <2>2
<1> HIDE DEF since
<1>5. /\ list \in Seq(Entry)
      /\ \A i \in 1..Len(list) :
           list[i].modified = times[list[i].record] /\ list[i].modified > since
      /\ \A i, j \in 1..Len(list) : list[i].record = list[j].record => i = j
      /\ \A r \in Record : times[r] > since =>
           \E i \in 1..Len(list) : list[i].record = r /\ list[i].modified = times[r]
  BY <1>1, <1>2, <1>3, ListIs
<1> DEFINE entries == IF since = 0 THEN list ELSE Cut(list)
<1>6. /\ entries \in Seq(Entry)
      /\ \A i \in 1..Len(entries) : i \in 1..Len(list) /\ entries[i] = list[i]
      /\ BatchSize = 0 => entries = list
  BY <1>5, CutIs
<1>7. \A i \in 1..Len(entries) : entries[i] \in Entry
  BY <1>6, ElementOfSeq
<1> HIDE DEF entries
<1>8. pass' \in Applying
  BY <1>2, <1>4, <1>6 DEF Applying, entries
<1>9. pass'.entries = entries
  BY <1>4 DEF entries
<1>10. \A i \in 1..Len(entries) :
         /\ entries[i] \in Entry
         /\ entries[i].modified = times[entries[i].record]
         /\ entries[i].modified > since
  BY <1>5, <1>6, <1>7
<1>11. \A i, j \in 1..Len(entries) : entries[i].record = entries[j].record => i = j
  BY <1>5, <1>6
<1>12. BatchSize = 0 =>
         \A r \in Record : times[r] > since =>
           \E i \in 1..Len(entries) : entries[i].record = r /\ entries[i].modified = times[r]
  BY <1>5, <1>6
<1>13. /\ pass'.index = pass.index /\ pass'.since = pass.since
       /\ pass'.bulk = (since = 0) /\ pass'.latest = since
  BY <1>4
<1> QED  BY <1>1, <1>8, <1>9, <1>10, <1>11, <1>12, <1>13 DEF since, times

-----------------------------------------------------------------------------
(* The type invariant.                                                     *)

USE DEF upstream

LEMMA TypedInit == Init => Typed
<1> SUFFICES ASSUME Init PROVE Typed
  OBVIOUS
<1>1. 0 \in 0..MaxTime /\ 1 \in 1..MaxTime /\ 0 \in Nat
  BY SyncAssumption
<1>2. Nothing \in Cursors
  BY <1>1 DEF Nothing, Cursors
<1>3. NoRecords \in [Ecosystem -> [Record -> 0..MaxTime]]
  BY <1>1 DEF NoRecords
<1> QED  BY <1>1, <1>2, <1>3 DEF Init, Typed, Whole, Passes

LEMMA TypedNext == Typed /\ [Next]_vars => Typed'
<1> SUFFICES ASSUME Typed, [Next]_vars PROVE Typed'
  OBVIOUS
<1>0. /\ 0 \in 0..MaxTime /\ MaxTime \in Nat /\ clock \in 0..MaxTime
      /\ trouble + 1 \in Nat
  BY SyncAssumption DEF Typed
<1>1. ASSUME NEW e \in Ecosystem, NEW r \in Record, Publish(e, r)
      PROVE  Typed'
  <2>1. PICK t \in {clock, clock + 1} :
          /\ t <= MaxTime /\ clock' = t
          /\ feed' = [feed EXCEPT ![e][r] = t]
          /\ late' = IF t = clock THEN late \cup {<<e, r>>} ELSE late \ {<<e, r>>}
    BY <1>1 DEF Publish
  <2>2. t \in 1..MaxTime /\ t \in 0..MaxTime
    BY <1>0, <2>1 DEF Typed
  <2>3. feed' \in [Ecosystem -> [Record -> 0..MaxTime]]
    BY <2>1, <2>2 DEF Typed
  <2>4. late' \subseteq Ecosystem \X Record /\ skipped' \subseteq Ecosystem \X Record
    BY <1>1, <2>1 DEF Publish, Typed
  <2> QED  BY <1>1, <2>1, <2>2, <2>3, <2>4 DEF Publish, Typed
<1>2. ASSUME NEW e \in Ecosystem, Export(e)
      PROVE  Typed'
  BY <1>2 DEF Export, Typed
<1>3. CASE StartPass
  <2>1. 1 \in Positions
    BY <1>3, SyncAssumption, EmptySeq DEF StartPass, Positions
  <2>2. pass' \in Fetching
    BY <1>3, <2>1 DEF StartPass, Fetching, Typed
  <2> QED  BY <1>3, <2>2 DEF StartPass, Typed, Passes
<1>4. CASE FetchBulk \/ FetchIndex
  <2>1. pass' \in Applying
    BY <1>4, FetchIs
  <2> QED  BY <1>4, <2>1 DEF FetchBulk, FetchIndex, Typed, Passes
<1>5. CASE FetchFails
  BY <1>5 DEF FetchFails, Typed, Passes
<1>6. CASE ImportEntry
  <2>1. /\ pass' \in Applying /\ pass \in Applying /\ Current \in Ecosystem
        /\ Head(pass.entries) \in Entry
    BY <1>6, ConsumedIs, PassAt DEF ImportEntry
  <2>2. /\ Head(pass.entries).record \in Record
        /\ Head(pass.entries).modified \in 0..MaxTime
    BY <1>0, <2>1 DEF Entry
  <2>3. imported' \in [Ecosystem -> [Record -> 0..MaxTime]]
    BY <1>6, <2>1, <2>2 DEF ImportEntry, Typed
  <2> QED  BY <1>6, <2>1, <2>3 DEF ImportEntry, Typed, Passes
<1>7. CASE SkipEntry
  <2>1. /\ pass' \in Applying /\ Current \in Ecosystem /\ Head(pass.entries) \in Entry
    BY <1>7, ConsumedIs, PassAt DEF SkipEntry
  <2>2. skipped' \subseteq Ecosystem \X Record
    BY <1>7, <2>1 DEF SkipEntry, Typed, Entry
  <2> QED  BY <1>7, <2>1, <2>2 DEF SkipEntry, Typed, Passes
<1>8. CASE SetCursor
  <2>1. pass \in Applying /\ Current \in Ecosystem
    BY <1>8, PassAt DEF SetCursor
  <2>2. cursor' \in Cursors
    BY <1>0, <1>8, <2>1 DEF SetCursor, Applying, Typed, Cursors
  <2>3. late' \subseteq Ecosystem \X Record
    BY <1>8, <2>1 DEF SetCursor, Typed
  <2>4. pass' \in Saving
    BY <1>8, <2>1 DEF SetCursor, Applying, Saving, Load, Typed
  <2> QED  BY <1>8, <2>2, <2>3, <2>4 DEF SetCursor, Typed, Passes
<1>9. CASE Truncate
  <2>1. pass' \in Saving
    BY <1>9, PassAt DEF Truncate, Saving
  <2>2. Nothing \in Cursors
    BY <1>0 DEF Nothing, Cursors
  <2> QED  BY <1>9, <2>1, <2>2 DEF Truncate, Torn, Typed, Passes
<1>10. CASE SaveCursor
  <2>1. pass \in Saving /\ Current \in Ecosystem
    BY <1>10, PassAt DEF SaveCursor
  <2>2. pass' \in Passes
    BY <1>10, <2>1, OnwardIs DEF SaveCursor, Passes
  <2>3. [pass.file EXCEPT ![Current] = cursor[Current]] \in Cursors
    BY <2>1 DEF Saving, Typed, Cursors
  <2>4. saved' \in [whole : BOOLEAN, cursors : Cursors]
    BY <1>10, <2>3 DEF SaveCursor, Whole
  <2> QED  BY <1>10, <2>2, <2>4 DEF SaveCursor, Typed
<1>11. CASE SaveFails
  <2>1. pass \in Saving
    BY <1>11, PassAt DEF SaveFails
  <2>2. pass' \in Passes
    BY <1>11, <2>1, OnwardIs DEF SaveFails, Passes
  <2> QED  BY <1>0, <1>11, <2>2 DEF SaveFails, Typed
<1>12. CASE Crash
  <2>1. Nothing \in Cursors
    BY <1>0 DEF Nothing, Cursors
  <2> QED  BY <1>0, <1>12, <2>1 DEF Crash, Typed, Passes
<1>13. CASE Restart
  BY <1>13 DEF Restart, Load, Typed, Passes
<1>14. CASE UNCHANGED vars
  BY <1>14 DEF vars, Typed
<1> QED
  BY <1>1, <1>2, <1>3, <1>4, <1>5, <1>6, <1>7, <1>8, <1>9, <1>10, <1>11, <1>12, <1>13, <1>14
  DEF Next

LEMMA NotAheadInit == Init => NotAhead /\ CursorsPast
BY DEF Init, NotAhead, CursorsPast, NoRecords, Nothing, Down, Whole

\* Everything that is compared is a number.
LEMMA Numbers ==
  ASSUME Typed
  PROVE  /\ clock \in Nat /\ MaxTime \in Nat
         /\ \A e \in Ecosystem, r \in Record :
              feed[e][r] \in Nat /\ archive[e][r] \in Nat /\ imported[e][r] \in Nat
         /\ \A e \in Ecosystem : cursor[e] \in Nat /\ saved.cursors[e] \in Nat
         /\ pass.at \notin {"down", "waiting"} => \A e \in Ecosystem : pass.since[e] \in Nat
         /\ pass.at \in {"save", "write"} => \A e \in Ecosystem : pass.file[e] \in Nat
         /\ pass.at = "apply" => pass.latest \in Nat /\ Len(pass.entries) \in Nat
         /\ pass.at = "apply" =>
              \A i \in 1..Len(pass.entries) :
                pass.entries[i].record \in Record /\ pass.entries[i].modified \in Nat
<1>1. 0..MaxTime \subseteq Nat /\ 1..MaxTime \subseteq Nat /\ MaxTime \in Nat
  BY SyncAssumption
<1>2. \A c \in Cursors : \A e \in Ecosystem : c[e] \in Nat
  BY <1>1 DEF Cursors
<1>3. /\ clock \in Nat
      /\ \A e \in Ecosystem, r \in Record :
           feed[e][r] \in Nat /\ archive[e][r] \in Nat /\ imported[e][r] \in Nat
  BY <1>1 DEF Typed
<1>4. \A e \in Ecosystem : cursor[e] \in Nat /\ saved.cursors[e] \in Nat
  BY <1>2 DEF Typed
<1>5. pass.at \notin {"down", "waiting"} => \A e \in Ecosystem : pass.since[e] \in Nat
  BY <1>2, PassAt
<1>6. pass.at \in {"save", "write"} => \A e \in Ecosystem : pass.file[e] \in Nat
  BY <1>2, PassAt DEF Saving
<1>7. ASSUME pass.at = "apply"
      PROVE  /\ pass.latest \in Nat /\ Len(pass.entries) \in Nat
             /\ \A i \in 1..Len(pass.entries) :
                  pass.entries[i].record \in Record /\ pass.entries[i].modified \in Nat
  <2>1. pass.latest \in 0..MaxTime /\ pass.entries \in Seq(Entry)
    BY <1>7, PassAt DEF Applying
  <2>2. \A i \in 1..Len(pass.entries) : pass.entries[i] \in Entry
    BY <2>1, ElementOfSeq
  <2> QED  BY <1>1, <2>1, <2>2 DEF Entry
<1> QED  BY <1>1, <1>3, <1>4, <1>5, <1>6, <1>7

\* What a step may do with the list: take it up, or take off its first entry.
LEMMA TakingOff ==
  ASSUME Typed, ImportEntry \/ SkipEntry
  PROVE  /\ pass.at = "apply" /\ pass'.at = "apply"
         /\ pass'.index = pass.index /\ pass'.since = pass.since /\ pass'.bulk = pass.bulk
         /\ Current' = Current /\ Current \in Ecosystem
         /\ Len(pass.entries) \in Nat /\ 1 \in 1..Len(pass.entries)
         /\ Head(pass.entries) = pass.entries[1] /\ pass.entries[1].record \in Record
         /\ pass'.latest = IF pass.latest >= pass.entries[1].modified
                           THEN pass.latest ELSE pass.entries[1].modified
         /\ Len(pass'.entries) = Len(pass.entries) - 1
         /\ \A i \in 1..Len(pass'.entries) :
              i + 1 \in 1..Len(pass.entries) /\ pass'.entries[i] = pass.entries[i + 1]
<1>1. pass.at = "apply" /\ pass.entries # <<>> /\ Consumed
  BY DEF ImportEntry, SkipEntry
<1>2. Len(pass.entries) \in Nat
  BY <1>1, Numbers
<1> QED  BY <1>1, <1>2, ConsumedIs, PassAt DEF Applying, Entry, Current

\* What saving the cursor leads to.
LEMMA SavedIs ==
  ASSUME Typed, SaveCursor \/ SaveFails
  PROVE  /\ pass \in Saving /\ pass.at \in {"save", "write"}
         /\ \/ pass'.at = "waiting"
            \/ pass'.at = "fetch" /\ pass'.since = pass.since /\ pass'.index = pass.index + 1
<1>1. pass \in Saving /\ pass.at \in {"save", "write"} /\ pass' = Onward
  BY PassAt DEF SaveCursor, SaveFails
<1> QED  BY <1>1, OnwardIs DEF Fetching, Waiting

LEMMA CursorsPastNext == Typed /\ CursorsPast /\ NotAhead /\ [Next]_vars => CursorsPast'
<1> SUFFICES ASSUME Typed, CursorsPast, NotAhead, [Next]_vars PROVE CursorsPast'
  OBVIOUS
<1>1. ASSUME NEW e \in Ecosystem, NEW r \in Record, Publish(e, r)
      PROVE  CursorsPast'
  <2>1. clock' >= clock /\ clock' \in Nat /\ UNCHANGED <<cursor, saved, pass>>
    BY <1>1, Numbers DEF Publish
  <2> QED  BY <2>1, Numbers DEF CursorsPast
<1>2. ASSUME NEW e \in Ecosystem, Export(e)
      PROVE  CursorsPast'
  BY <1>2 DEF Export, CursorsPast
<1>3. CASE StartPass
  BY <1>3 DEF StartPass, CursorsPast
<1>4. CASE FetchBulk \/ FetchIndex
  <2>1. /\ pass.at = "fetch" /\ pass'.at = "apply" /\ Current \in Ecosystem
        /\ pass'.since = pass.since /\ pass'.latest = pass.since[Current]
    BY <1>4, FetchIs, PassAt DEF Applying
  <2> QED  BY <1>4, <2>1 DEF FetchBulk, FetchIndex, CursorsPast
<1>5. CASE FetchFails
  BY <1>5 DEF FetchFails, Waiting, CursorsPast
<1>6. CASE ImportEntry \/ SkipEntry
  <2>1. pass.entries[1].modified <= feed[Current][pass.entries[1].record]
    BY <1>6, TakingOff DEF NotAhead
  <2>2. pass.entries[1].modified <= clock
    BY <1>6, <2>1, TakingOff, Numbers DEF NotAhead
  <2> QED  BY <1>6, <2>2, TakingOff DEF ImportEntry, SkipEntry, CursorsPast
<1>7. CASE SetCursor
  <2>1. /\ pass.at = "apply" /\ pass'.at = "save" /\ pass'.since = pass.since
        /\ pass'.file = saved.cursors /\ UNCHANGED <<clock, saved>>
    BY <1>7 DEF SetCursor, Load
  <2>2. \A e \in Ecosystem : cursor'[e] <= clock
    BY <1>7, <2>1, Numbers DEF SetCursor, CursorsPast, Typed, Cursors
  <2> QED  BY <2>1, <2>2 DEF CursorsPast
<1>8. CASE Truncate
  <2>1. pass' = [pass EXCEPT !.at = "write"] /\ pass \in Saving /\ pass.at = "save"
    BY <1>8, PassAt DEF Truncate
  <2>2. pass'.at = "write" /\ pass'.since = pass.since /\ pass'.file = pass.file
    BY <2>1 DEF Saving
  <2>3. \A e \in Ecosystem : saved'.cursors[e] = 0
    BY <1>8 DEF Truncate, Torn, Nothing
  <2> QED  BY <1>8, <2>1, <2>2, <2>3, Numbers DEF Truncate, CursorsPast
<1>9. CASE SaveCursor \/ SaveFails
  <2>1. UNCHANGED <<clock, cursor>>
    BY <1>9 DEF SaveCursor, SaveFails
  <2>2. \A e \in Ecosystem : saved'.cursors[e] <= clock
    <3>1. CASE SaveCursor
      <4>1. pass \in Saving /\ saved'.cursors = [pass.file EXCEPT ![Current] = cursor[Current]]
        BY <3>1, SavedIs DEF SaveCursor, Whole
      <4> QED  BY <1>9, <4>1, SavedIs DEF CursorsPast, Saving, Cursors
    <3>2. CASE SaveFails
      BY <3>2 DEF SaveFails, CursorsPast
    <3> QED  BY <1>9, <3>1, <3>2
  <2> QED  BY <1>9, <2>1, <2>2, SavedIs DEF CursorsPast
<1>10. CASE Crash
  <2>1. \A e \in Ecosystem : cursor'[e] = 0
    BY <1>10 DEF Crash, Nothing
  <2> QED  BY <1>10, <2>1, Numbers DEF Crash, Down, CursorsPast
<1>11. CASE Restart
  BY <1>11 DEF Restart, Waiting, Load, CursorsPast
<1>12. CASE UNCHANGED vars
  BY <1>12 DEF vars, CursorsPast
<1> QED
  BY <1>1, <1>2, <1>3, <1>4, <1>5, <1>6, <1>7, <1>8, <1>9, <1>10, <1>11, <1>12
  DEF Next

LEMMA NotAheadNext == Typed /\ NotAhead /\ [Next]_vars => NotAhead'
<1> SUFFICES ASSUME Typed, NotAhead, [Next]_vars PROVE NotAhead'
  OBVIOUS
\* The steps that change none of it but what the goroutine is at.
<1>a. ASSUME UNCHANGED <<clock, feed, archive, imported>>, pass'.at # "apply"
      PROVE  NotAhead'
  BY <1>a DEF NotAhead
<1>1. ASSUME NEW e \in Ecosystem, NEW r \in Record, Publish(e, r)
      PROVE  NotAhead'
  <2>1. PICK t \in {clock, clock + 1} :
          /\ t > feed[e][r] /\ clock' = t /\ feed' = [feed EXCEPT ![e][r] = t]
          /\ UNCHANGED <<archive, pass, imported>>
    BY <1>1 DEF Publish
  <2>2. t \in Nat /\ t >= clock
    BY <2>1, Numbers
  <2>3. \A f \in Ecosystem, q \in Record :
          feed'[f][q] = IF f = e /\ q = r THEN t ELSE feed[f][q]
    BY <2>1 DEF Typed
  <2>4. \A f \in Ecosystem, q \in Record :
          /\ feed'[f][q] <= clock' /\ feed[f][q] <= feed'[f][q] /\ feed'[f][q] \in Nat
          /\ archive'[f][q] <= feed'[f][q]
          /\ imported'[f][q] <= feed'[f][q]
    BY <2>1, <2>2, <2>3, Numbers DEF NotAhead
  <2>5. ASSUME pass.at = "apply", NEW i \in 1..Len(pass.entries)
        PROVE  pass.entries[i].modified <= feed'[Current][pass.entries[i].record]
    <3>1. pass.entries[i].modified <= feed[Current][pass.entries[i].record]
      BY <2>5 DEF NotAhead
    <3> QED  BY <2>4, <2>5, <3>1, Numbers, PassAt
  <2>6. Current' = Current
    BY <2>1 DEF Current
  <2> QED  BY <2>1, <2>4, <2>5, <2>6 DEF NotAhead
<1>2. ASSUME NEW e \in Ecosystem, Export(e)
      PROVE  NotAhead'
  <2>1. archive' = [archive EXCEPT ![e] = feed[e]] /\ UNCHANGED <<clock, feed, imported, pass>>
    BY <1>2 DEF Export
  <2>2. \A f \in Ecosystem, r \in Record :
          archive'[f][r] = IF f = e THEN feed[e][r] ELSE archive[f][r]
    BY <2>1 DEF Typed
  <2>3. \A f \in Ecosystem, r \in Record : archive'[f][r] <= feed[f][r]
    BY <2>2, Numbers DEF NotAhead
  <2> QED  BY <2>1, <2>3 DEF NotAhead, Current
<1>3. CASE StartPass
  BY <1>3, <1>a DEF StartPass
<1>4. CASE FetchBulk \/ FetchIndex
  <2> DEFINE since == pass.since[Current]
             times == IF since = 0 THEN archive[Current] ELSE feed[Current]
  <2>1. /\ pass.at = "fetch" /\ pass'.index = pass.index
        /\ \A i \in 1..Len(pass'.entries) :
             /\ pass'.entries[i] \in Entry
             /\ pass'.entries[i].modified = times[pass'.entries[i].record]
    BY <1>4, FetchIs
  <2>2. \A r \in Record : times[r] <= feed[Current][r]
    BY <2>1, PassAt, Numbers DEF NotAhead
  <2>3. UNCHANGED <<clock, feed, archive, imported>> /\ Current' = Current
    BY <1>4, <2>1 DEF FetchBulk, FetchIndex, Current
  <2> HIDE DEF times
  <2>4. \A i \in 1..Len(pass'.entries) :
          pass'.entries[i].modified <= feed[Current][pass'.entries[i].record]
    BY <2>1, <2>2 DEF Entry
  <2> QED  BY <2>3, <2>4 DEF NotAhead
<1>5. CASE FetchFails
  BY <1>5, <1>a DEF FetchFails, Waiting
<1>6. CASE ImportEntry \/ SkipEntry
  <2>1. UNCHANGED <<clock, feed, archive>>
    BY <1>6 DEF ImportEntry, SkipEntry
  <2>2. \A i \in 1..Len(pass.entries) :
          pass.entries[i].modified <= feed[Current][pass.entries[i].record]
    BY <1>6, TakingOff DEF NotAhead
  <2>3. \A i \in 1..Len(pass'.entries) :
          pass'.entries[i].modified <= feed[Current][pass'.entries[i].record]
    BY <1>6, <2>2, TakingOff
  <2>4. \A e \in Ecosystem, r \in Record : imported'[e][r] <= feed[e][r]
    <3>1. CASE ImportEntry
      <4>1. PICK version \in {pass.entries[1].modified, feed[Current][pass.entries[1].record]} :
              imported' = [imported EXCEPT ![Current][pass.entries[1].record] = version]
        BY <1>6, <3>1, TakingOff DEF ImportEntry
      <4>2. version <= feed[Current][pass.entries[1].record]
        BY <1>6, <2>2, TakingOff, Numbers
      <4> QED  BY <1>6, <4>1, <4>2, TakingOff DEF NotAhead, Typed
    <3>2. CASE SkipEntry
      BY <3>2 DEF SkipEntry, NotAhead
    <3> QED  BY <1>6, <3>1, <3>2
  <2> QED  BY <1>6, <2>1, <2>3, <2>4, TakingOff DEF NotAhead
<1>7. CASE SetCursor
  BY <1>7, <1>a DEF SetCursor
<1>8. CASE Truncate
  <2>1. pass'.at = "write"
    BY <1>8, PassAt DEF Truncate, Saving
  <2> QED  BY <1>8, <1>a, <2>1 DEF Truncate
<1>9. CASE SaveCursor \/ SaveFails
  BY <1>9, <1>a, SavedIs DEF SaveCursor, SaveFails
<1>10. CASE Crash
  BY <1>10, <1>a DEF Crash, Down
<1>11. CASE Restart
  BY <1>11, <1>a DEF Restart, Waiting
<1>12. CASE UNCHANGED vars
  BY <1>12 DEF vars, NotAhead, Current
<1> QED
  BY <1>1, <1>2, <1>3, <1>4, <1>5, <1>6, <1>7, <1>8, <1>9, <1>10, <1>11, <1>12
  DEF Next

-----------------------------------------------------------------------------
(* The archive and the cursors.                                            *)

\* A change that is listed in time is newer than all that is in the archive.
LEMMA ArchiveNext == Typed /\ NotAhead /\ ArchiveIsPast /\ [Next]_vars => ArchiveIsPast'
<1> SUFFICES ASSUME Typed, NotAhead, ArchiveIsPast, [Next]_vars PROVE ArchiveIsPast'
  OBVIOUS
<1>1. ASSUME NEW e \in Ecosystem, NEW r \in Record, Publish(e, r)
      PROVE  ArchiveIsPast'
  <2>1. PICK t \in {clock, clock + 1} :
          /\ clock' = t /\ feed' = [feed EXCEPT ![e][r] = t] /\ archive' = archive
          /\ late' = IF t = clock THEN late \cup {<<e, r>>} ELSE late \ {<<e, r>>}
    BY <1>1 DEF Publish
  <2>2. \A f \in Ecosystem, q \in Record :
          feed'[f][q] = IF f = e /\ q = r THEN t ELSE feed[f][q]
    BY <2>1 DEF Typed
  <2>3. ASSUME NEW f \in Ecosystem, NEW q \in Record, <<f, q>> \notin late'
        PROVE  archive'[f][q] = feed'[f][q] \/ \A p \in Record : archive'[f][p] < feed'[f][q]
    <3>1. CASE f = e /\ q = r
      <4>1. t = clock + 1
        BY <2>1, <2>3, <3>1
      <4>2. \A p \in Record : archive[e][p] <= clock /\ archive[e][p] \in Nat
        BY Numbers DEF NotAhead
      <4> QED  BY <2>1, <2>2, <3>1, <4>1, <4>2, Numbers
    <3>2. CASE ~(f = e /\ q = r)
      <4>1. <<f, q>> \notin late
        BY <2>1, <2>3, <3>2
      <4> QED  BY <2>1, <2>2, <3>2, <4>1 DEF ArchiveIsPast
    <3> QED  BY <3>1, <3>2
  <2> QED  BY <2>3 DEF ArchiveIsPast
<1>2. ASSUME NEW e \in Ecosystem, Export(e)
      PROVE  ArchiveIsPast'
  <2>1. archive' = [archive EXCEPT ![e] = feed[e]] /\ UNCHANGED <<feed, late>>
    BY <1>2 DEF Export
  <2>2. \A f \in Ecosystem : archive'[f] = IF f = e THEN feed[e] ELSE archive[f]
    BY <2>1 DEF Typed
  <2> QED  BY <2>1, <2>2 DEF ArchiveIsPast
<1>3. CASE SetCursor
  <2>1. late \subseteq late' /\ UNCHANGED <<feed, archive>>
    BY <1>3 DEF SetCursor
  <2> QED  BY <2>1 DEF ArchiveIsPast
<1>4. ASSUME UNCHANGED <<feed, archive, late>>
      PROVE  ArchiveIsPast'
  BY <1>4 DEF ArchiveIsPast
<1> QED
  BY <1>1, <1>2, <1>3, <1>4
  DEF Next, StartPass, FetchBulk, FetchIndex, FetchFails, ImportEntry, SkipEntry, Truncate,
      SaveCursor, SaveFails, Crash, Restart, vars

LEMMA CursorsAgreeNext ==
  Typed /\ CursorsPast /\ CursorsAgree /\ OnTheWay /\ [Next]_vars => CursorsAgree'
<1> SUFFICES ASSUME Typed, CursorsPast, CursorsAgree, OnTheWay, [Next]_vars PROVE CursorsAgree'
  OBVIOUS
<1>1. ASSUME UNCHANGED <<cursor, saved, pass>>
      PROVE  CursorsAgree'
  BY <1>1 DEF CursorsAgree
<1>2. CASE StartPass
  BY <1>2 DEF StartPass, Waiting, CursorsAgree
<1>3. CASE FetchBulk \/ FetchIndex
  <2>1. /\ pass.at = "fetch" /\ pass'.at = "apply" /\ UNCHANGED <<cursor, saved>>
        /\ pass'.since = pass.since /\ pass'.index = pass.index
    BY <1>3, FetchIs DEF Applying, FetchBulk, FetchIndex
  <2> QED  BY <2>1 DEF CursorsAgree
<1>4. CASE FetchFails
  BY <1>4 DEF FetchFails, Waiting, CursorsAgree
<1>5. CASE ImportEntry \/ SkipEntry
  <2>1. UNCHANGED <<cursor, saved>>
    BY <1>5 DEF ImportEntry, SkipEntry
  <2> QED  BY <1>5, <2>1, TakingOff DEF CursorsAgree
<1>6. CASE SetCursor
  <2>1. /\ pass.at = "apply" /\ pass'.at = "save" /\ pass'.since = pass.since
        /\ pass'.index = pass.index
        /\ pass'.file = saved.cursors /\ UNCHANGED saved
    BY <1>6 DEF SetCursor, Load
  <2> DEFINE reached == IF pass.latest = 0 THEN clock ELSE pass.latest
  <2>2. \A e \in Ecosystem : cursor'[e] = IF e = Current THEN reached ELSE cursor[e]
    BY <1>6 DEF SetCursor, Typed, Cursors
  <2>3. pass.index \in Positions /\ Current \in Ecosystem
    BY <2>1, PassAt
  <2>4. cursor[Current] <= reached
    <3>1. pass.since[Current] = cursor[Current]
      BY <2>1, <2>3 DEF CursorsAgree, Current
    <3>2. CASE pass.latest = 0
      BY <2>3, <3>2 DEF CursorsPast
    <3>3. CASE pass.latest # 0 /\ pass.bulk
      BY <2>1, <2>3, <3>1, <3>3, Numbers DEF OnTheWay
    <3>4. CASE pass.latest # 0 /\ ~pass.bulk
      BY <2>1, <3>1, <3>4 DEF OnTheWay
    <3> QED  BY <3>2, <3>3, <3>4
  <2>5. reached \in Nat
    BY <2>1, Numbers
  <2> HIDE DEF reached
  <2>6. \A e \in Ecosystem : saved.cursors[e] <= cursor'[e]
    BY <2>1, <2>2, <2>3, <2>4, <2>5, Numbers DEF CursorsAgree
  <2>7. ASSUME NEW j \in Positions, j > pass.index
        PROVE  pass.since[Ecosystems[j]] = cursor'[Ecosystems[j]]
    <3>1. Ecosystems[j] \in Ecosystem /\ Ecosystems[j] # Current
      BY <2>3, <2>7, DistinctEcosystems DEF Current, Positions
    <3> QED  BY <2>1, <2>2, <2>7, <3>1 DEF CursorsAgree
  <2>8. ASSUME NEW j \in Positions,
               j > pass'.index \/ (j = pass'.index /\ pass'.at \in {"fetch", "apply"})
        PROVE  pass'.since[Ecosystems[j]] = cursor'[Ecosystems[j]]
    BY <2>1, <2>7, <2>8
  <2> QED  BY <2>1, <2>6, <2>8 DEF CursorsAgree
<1>7. CASE Truncate
  <2>1. pass' = [pass EXCEPT !.at = "write"] /\ pass \in Saving /\ pass.at = "save"
    BY <1>7, PassAt DEF Truncate
  <2>2. /\ pass'.at = "write" /\ pass'.since = pass.since /\ pass'.file = pass.file
        /\ pass'.index = pass.index
    BY <2>1 DEF Saving
  <2>3. \A e \in Ecosystem : saved'.cursors[e] = 0
    BY <1>7 DEF Truncate, Torn, Nothing
  <2> QED  BY <1>7, <2>1, <2>2, <2>3, Numbers DEF Truncate, CursorsAgree
<1>8. CASE SaveCursor \/ SaveFails
  <2>1. cursor' = cursor /\ pass.at \in {"save", "write"}
    BY <1>8, SavedIs DEF SaveCursor, SaveFails
  <2>2. \A e \in Ecosystem : saved'.cursors[e] <= cursor[e]
    <3>1. CASE SaveCursor
      <4>1. pass \in Saving /\ saved'.cursors = [pass.file EXCEPT ![Current] = cursor[Current]]
        BY <3>1, SavedIs DEF SaveCursor, Whole
      <4>2. \A e \in Ecosystem :
              saved'.cursors[e] = IF e = Current THEN cursor[e] ELSE pass.file[e]
        BY <4>1 DEF Saving, Cursors
      <4> QED  BY <2>1, <4>2, Numbers DEF CursorsAgree
    <3>2. CASE SaveFails
      BY <2>1, <3>2 DEF SaveFails, CursorsAgree
    <3> QED  BY <1>8, <3>1, <3>2
  <2>3. CASE pass'.at = "waiting"
    BY <2>1, <2>2, <2>3 DEF CursorsAgree
  <2>4. CASE pass'.at = "fetch" /\ pass'.since = pass.since /\ pass'.index = pass.index + 1
    <3>1. pass.index \in Nat
      BY <2>1, PassAt, SyncAssumption DEF Positions
    <3>2. ASSUME NEW j \in Positions, j > pass'.index \/ j = pass'.index
          PROVE  pass'.since[Ecosystems[j]] = cursor'[Ecosystems[j]]
      <4>1. j > pass.index
        BY <2>4, <3>1, <3>2 DEF Positions
      <4> QED  BY <2>1, <2>4, <4>1 DEF CursorsAgree
    <3> QED  BY <2>1, <2>2, <2>4, <3>2 DEF CursorsAgree
  <2> QED  BY <1>8, <2>3, <2>4, SavedIs
<1>9. CASE Crash
  BY <1>9 DEF Crash, Down, CursorsAgree
<1>10. CASE Restart
  BY <1>10, Numbers DEF Restart, Waiting, Load, CursorsAgree
<1> QED
  BY <1>1, <1>2, <1>3, <1>4, <1>5, <1>6, <1>7, <1>8, <1>9, <1>10
  DEF Next, Publish, Export, vars

-----------------------------------------------------------------------------
(* The list.                                                               *)

\* How upstream publishes while a list is taken over: in time, after all of
\* it, or late.
LEMMA PublishOnTheWay ==
  ASSUME Typed, CursorsPast, NotAhead, OnTheWay, NEW e \in Ecosystem, NEW r \in Record,
         Publish(e, r)
  PROVE  OnTheWay'
<1>1. PICK t \in {clock, clock + 1} :
        /\ clock' = t /\ feed' = [feed EXCEPT ![e][r] = t]
        /\ late' = IF t = clock THEN late \cup {<<e, r>>} ELSE late \ {<<e, r>>}
        /\ skipped' = skipped \ {<<e, r>>} /\ UNCHANGED <<pass, imported>>
  BY DEF Publish
<1>2. \A f \in Ecosystem, q \in Record :
        feed'[f][q] = IF f = e /\ q = r THEN t ELSE feed[f][q]
  BY <1>1 DEF Typed
<1>3. Current' = Current
  BY <1>1 DEF Current
<1>4. ASSUME pass.at = "apply", NEW q \in Record,
             <<Current, q>> \notin late' \cup skipped', feed'[Current][q] # 0
      PROVE  (OnList(Current, q) \/ Done(Current, q) \/ Newer(Current, q))'
  <2>1. Current \in Ecosystem
    BY <1>4, PassAt
  <2>2. CASE Current = e /\ q = r
    <3>1. t = clock + 1
      BY <1>1, <1>4, <2>2
    <3>2. pass.latest < t
      BY <1>4, <3>1, Numbers DEF CursorsPast
    <3>3. ASSUME NEW i \in 1..Len(pass.entries)
          PROVE  pass.entries[i].modified < t
      <4>1. /\ pass.entries[i].modified \in Nat /\ pass.entries[i].record \in Record
            /\ pass.entries[i].modified <= feed[Current][pass.entries[i].record]
        BY <1>4, <3>3, Numbers DEF NotAhead
      <4>2. /\ feed[Current][pass.entries[i].record] <= clock /\ clock \in Nat
            /\ feed[Current][pass.entries[i].record] \in Nat
        BY <2>1, <4>1, Numbers DEF NotAhead
      <4> QED  BY <3>1, <4>1, <4>2
    <3>4. feed'[Current][q] = t
      BY <1>2, <2>1, <2>2
    <3> QED  BY <1>1, <1>3, <3>2, <3>3, <3>4 DEF Newer
  <2>3. CASE ~(Current = e /\ q = r)
    <3>1. feed'[Current][q] = feed[Current][q] /\ <<Current, q>> \notin late \cup skipped
      BY <1>1, <1>2, <1>4, <2>1, <2>3
    <3>2. OnList(Current, q) \/ Done(Current, q) \/ Newer(Current, q)
      BY <1>4, <3>1 DEF OnTheWay
    <3> QED  BY <1>1, <1>3, <3>1, <3>2 DEF OnList, Done, Newer
  <2> QED  BY <2>2, <2>3
<1> QED  BY <1>1, <1>3, <1>4 DEF OnTheWay

\* A new list has what the cursor does not cover; in an archive that is past
\* the rest is newer than all of it.
LEMMA FetchOnTheWay ==
  ASSUME Typed, NotAhead, ArchiveIsPast, CursorsAgree, CursorCovers, BatchSize = 0,
         FetchBulk \/ FetchIndex
  PROVE  OnTheWay'
<1> DEFINE since == pass.since[Current]
           times == IF since = 0 THEN archive[Current] ELSE feed[Current]
<1>1. /\ pass.at = "fetch" /\ pass'.at = "apply"
      /\ pass'.index = pass.index /\ pass'.since = pass.since
      /\ pass'.bulk = (since = 0) /\ pass'.latest = since
  BY FetchIs DEF Applying
<1>2. /\ \A i \in 1..Len(pass'.entries) :
           /\ pass'.entries[i] \in Entry
           /\ pass'.entries[i].modified = times[pass'.entries[i].record]
           /\ pass'.entries[i].modified > since
      /\ \A i, j \in 1..Len(pass'.entries) :
           pass'.entries[i].record = pass'.entries[j].record => i = j
  BY FetchIs
<1>3. \A r \in Record : times[r] > since =>
        \E i \in 1..Len(pass'.entries) :
          pass'.entries[i].record = r /\ pass'.entries[i].modified = times[r]
  BY FetchIs
<1>4. /\ UNCHANGED <<feed, archive, imported, late, skipped>> /\ Current' = Current
      /\ Current \in Ecosystem /\ pass.index \in Positions /\ since \in Nat
  BY <1>1, PassAt, Numbers DEF FetchBulk, FetchIndex, Current
<1>5. since = cursor[Current]
  BY <1>1, <1>4 DEF CursorsAgree, Current
<1>6. ASSUME NEW r \in Record, <<Current, r>> \notin late \cup skipped, feed[Current][r] # 0
      PROVE  (OnList(Current, r) \/ Done(Current, r) \/ Newer(Current, r))'
  <2>1. feed[Current][r] \in Nat
    BY <1>4, Numbers
  <2>2. CASE times[r] = feed[Current][r] /\ feed[Current][r] > since
    BY <1>3, <1>4, <2>2 DEF OnList
  <2>3. CASE since # 0 /\ feed[Current][r] <= since
    <3>1. imported[Current][r] = feed[Current][r]
      BY <1>4, <1>5, <1>6, <2>3 DEF CursorCovers, Covers
    <3>2. ASSUME NEW i \in 1..Len(pass'.entries)
          PROVE  pass'.entries[i].record # r
      <4>1. pass'.entries[i].modified > since /\ pass'.entries[i].modified = times[pass'.entries[i].record]
        BY <1>2
      <4>2. times[r] <= since /\ times[r] \in Nat
        BY <2>1, <2>3
      <4> QED  BY <1>4, <4>1, <4>2
    <3> QED  BY <1>4, <3>1, <3>2 DEF Done
  <2>4. CASE since = 0 /\ times[r] # feed[Current][r]
    <3>1. \A q \in Record : times[q] < feed[Current][r]
      BY <1>4, <1>6, <2>4 DEF ArchiveIsPast
    <3>2. \A i \in 1..Len(pass'.entries) : pass'.entries[i].modified < feed[Current][r]
      BY <1>2, <3>1 DEF Entry
    <3>3. pass'.latest < feed[Current][r]
      BY <1>1, <1>6, <2>1, <2>4
    <3> QED  BY <1>4, <3>2, <3>3 DEF Newer
  <2>5. since = 0 => feed[Current][r] > since
    BY <1>6, <2>1
  <2>6. since # 0 => times[r] = feed[Current][r]
    OBVIOUS
  <2> QED  BY <1>4, <2>1, <2>2, <2>3, <2>4, <2>5, <2>6
<1>7. /\ ~pass'.bulk => pass'.latest >= pass'.since[Current']
      /\ pass'.bulk => pass'.since[Current'] = 0
      /\ pass'.latest = 0 => pass'.bulk
  <2>1. pass'.since[Current'] = since /\ pass'.latest = since
    BY <1>1, <1>4
  <2> HIDE DEF since
  <2>2. (pass'.bulk <=> since = 0)
    BY <1>1
  <2> QED  BY <1>4, <2>1, <2>2
<1> HIDE DEF since, times
<1> QED  BY <1>1, <1>2, <1>4, <1>6, <1>7 DEF OnTheWay

\* Taking an entry off keeps every change where it is, or imports or skips it.
LEMMA TakeOnTheWay ==
  ASSUME Typed, NotAhead, OnTheWay, ImportEntry \/ SkipEntry
  PROVE  OnTheWay'
<1> DEFINE x == pass.entries[1]
<1>1. /\ pass.at = "apply" /\ pass'.index = pass.index /\ pass'.since = pass.since
      /\ pass'.bulk = pass.bulk
      /\ Current' = Current /\ Current \in Ecosystem
      /\ Len(pass.entries) \in Nat /\ 1 \in 1..Len(pass.entries)
      /\ Head(pass.entries) = x /\ x.record \in Record
      /\ pass'.latest = IF pass.latest >= x.modified THEN pass.latest ELSE x.modified
      /\ Len(pass'.entries) = Len(pass.entries) - 1
      /\ \A i \in 1..Len(pass'.entries) :
           i + 1 \in 1..Len(pass.entries) /\ pass'.entries[i] = pass.entries[i + 1]
  BY TakingOff
<1>2. /\ UNCHANGED <<feed, late>> /\ skipped \subseteq skipped'
      /\ \A r \in Record : r # x.record => imported'[Current][r] = imported[Current][r]
  <2>1. CASE ImportEntry
    BY <1>1, <2>1 DEF ImportEntry, Typed
  <2>2. CASE SkipEntry
    BY <2>2 DEF SkipEntry
  <2> QED  BY <2>1, <2>2
<1>3. \A i, j \in 1..Len(pass.entries) :
        pass.entries[i].record = pass.entries[j].record => i = j
  BY <1>1 DEF OnTheWay
<1>4. \A i \in 1..Len(pass'.entries) : pass'.entries[i].record # x.record
  BY <1>1, <1>3
<1>5. \A i, j \in 1..Len(pass'.entries) :
        pass'.entries[i].record = pass'.entries[j].record => i = j
  BY <1>1, <1>3
<1>6. ASSUME NEW r \in Record, <<Current, r>> \notin late' \cup skipped', feed[Current][r] # 0
      PROVE  (OnList(Current, r) \/ Done(Current, r) \/ Newer(Current, r))'
  <2>1. OnList(Current, r) \/ Done(Current, r) \/ Newer(Current, r)
    BY <1>1, <1>2, <1>6 DEF OnTheWay
  <2>2. /\ feed[Current][r] \in Nat /\ pass.latest \in Nat /\ x.modified \in Nat
    BY <1>1, Numbers
  <2>3. CASE OnList(Current, r)
    <3>1. PICK i \in 1..Len(pass.entries) :
            pass.entries[i].record = r /\ pass.entries[i].modified = feed[Current][r]
      BY <2>3 DEF OnList
    <3>2. CASE i = 1
      <4>1. CASE SkipEntry
        <5>1. <<Current, r>> \in skipped'
          BY <1>1, <3>1, <3>2, <4>1 DEF SkipEntry
        <5> QED  BY <1>6, <5>1
      <4>2. CASE ImportEntry
        <5>1. imported'[Current][r] = feed[Current][r]
          BY <1>1, <3>1, <3>2, <4>2 DEF ImportEntry, Typed
        <5> QED  BY <1>1, <1>2, <1>4, <3>1, <3>2, <5>1 DEF Done
      <4> QED  BY <4>1, <4>2
    <3>3. CASE i # 1
      <4>1. i - 1 \in 1..Len(pass'.entries) /\ pass'.entries[i - 1] = pass.entries[i]
        BY <1>1, <3>1, <3>3
      <4> QED  BY <1>1, <1>2, <3>1, <4>1 DEF OnList
    <3> QED  BY <3>2, <3>3
  <2>4. CASE Done(Current, r)
    <3>1. r # x.record /\ imported[Current][r] = feed[Current][r]
      BY <1>1, <2>4 DEF Done
    <3>2. \A i \in 1..Len(pass'.entries) : pass'.entries[i].record # r
      BY <1>1, <2>4 DEF Done
    <3> QED  BY <1>1, <1>2, <3>1, <3>2 DEF Done
  <2>5. CASE Newer(Current, r)
    <3>1. x.modified < feed[Current][r] /\ pass.latest < feed[Current][r]
      BY <1>1, <2>5 DEF Newer
    <3>2. \A i \in 1..Len(pass'.entries) : pass'.entries[i].modified < feed[Current][r]
      BY <1>1, <2>5 DEF Newer
    <3> QED  BY <1>1, <1>2, <3>1, <3>2 DEF Newer
  <2> QED  BY <2>1, <2>3, <2>4, <2>5
<1>7. /\ ~pass'.bulk => pass'.latest >= pass'.since[Current']
      /\ pass'.bulk => pass'.since[Current'] = 0
      /\ pass'.latest = 0 => pass'.bulk
  <2>1. /\ pass.latest \in Nat /\ x.modified \in Nat /\ pass.since[Current] \in Nat
    BY <1>1, Numbers
  <2> QED  BY <1>1, <2>1 DEF OnTheWay
<1> HIDE DEF x
<1> QED  BY <1>1, <1>2, <1>5, <1>6, <1>7 DEF OnTheWay

LEMMA OnTheWayNext ==
  ASSUME BatchSize = 0
  PROVE  Safe /\ [Next]_vars => OnTheWay'
<1> SUFFICES ASSUME Safe, [Next]_vars PROVE OnTheWay'
  OBVIOUS
<1>1. ASSUME NEW e \in Ecosystem, NEW r \in Record, Publish(e, r)
      PROVE  OnTheWay'
  BY <1>1, PublishOnTheWay DEF Safe
<1>2. CASE FetchBulk \/ FetchIndex
  BY <1>2, FetchOnTheWay DEF Safe
<1>3. CASE ImportEntry \/ SkipEntry
  BY <1>3, TakeOnTheWay DEF Safe
<1>4. ASSUME UNCHANGED <<feed, imported, late, skipped, pass>>
      PROVE  OnTheWay'
  BY <1>4 DEF Safe, OnTheWay, OnList, Done, Newer, Current
<1>5. ASSUME pass'.at # "apply"
      PROVE  OnTheWay'
  BY <1>5 DEF OnTheWay
<1>6. ASSUME StartPass \/ FetchFails \/ SetCursor \/ Truncate \/ SaveCursor \/ SaveFails
               \/ Crash \/ Restart
      PROVE  pass'.at # "apply"
  <2>1. ASSUME Truncate PROVE pass'.at = "write"
    BY <2>1, PassAt DEF Truncate, Saving, Safe
  <2>2. ASSUME SaveCursor \/ SaveFails PROVE pass'.at # "apply"
    BY <2>2, SavedIs DEF Safe
  <2> QED
    BY <1>6, <2>1, <2>2 DEF StartPass, FetchFails, SetCursor, Crash, Restart, Waiting, Down
<1> QED
  BY <1>1, <1>2, <1>3, <1>4, <1>5, <1>6 DEF Next, Export, vars

\* Only the end of a list moves the cursor, and then all of it is imported,
\* skipped or newer.
LEMMA CursorCoversNext == Safe /\ [Next]_vars => CursorCovers'
<1> SUFFICES ASSUME Safe, [Next]_vars PROVE CursorCovers'
  OBVIOUS
<1>0. Typed /\ NotAhead /\ CursorsPast /\ CursorsAgree /\ CursorCovers /\ OnTheWay
  BY DEF Safe
\* What is covered up to a time is covered up to every earlier one.
<1>a. ASSUME NEW e \in Ecosystem, NEW t \in Nat, NEW u \in Nat, t <= u, Covers(e, u)
      PROVE  Covers(e, t)
  BY <1>0, <1>a, Numbers DEF Covers
<1>1. ASSUME NEW e \in Ecosystem, NEW r \in Record, Publish(e, r)
      PROVE  CursorCovers'
  <2>1. PICK t \in {clock, clock + 1} :
          /\ feed' = [feed EXCEPT ![e][r] = t]
          /\ late' = IF t = clock THEN late \cup {<<e, r>>} ELSE late \ {<<e, r>>}
          /\ skipped' = skipped \ {<<e, r>>} /\ UNCHANGED <<cursor, saved, imported>>
    BY <1>1 DEF Publish
  <2>2. \A f \in Ecosystem, q \in Record :
          feed'[f][q] = IF f = e /\ q = r THEN t ELSE feed[f][q]
    BY <1>0, <2>1 DEF Typed
  <2>3. ASSUME NEW f \in Ecosystem, NEW u \in Nat, u <= clock, Covers(f, u),
               NEW q \in Record, feed'[f][q] <= u, <<f, q>> \notin late' \cup skipped'
        PROVE  imported'[f][q] = feed'[f][q]
    <3>1. CASE f = e /\ q = r
      <4>1. t = clock + 1
        BY <2>1, <2>3, <3>1
      <4> QED  BY <1>0, <2>2, <2>3, <3>1, <4>1, Numbers
    <3>2. CASE ~(f = e /\ q = r)
      <4>1. feed'[f][q] = feed[f][q] /\ <<f, q>> \notin late \cup skipped
        BY <2>1, <2>2, <2>3, <3>2
      <4> QED  BY <2>1, <2>3, <4>1 DEF Covers
    <3> QED  BY <3>1, <3>2
  <2>4. \A f \in Ecosystem :
          /\ cursor[f] \in Nat /\ cursor[f] <= clock /\ Covers(f, cursor[f])
          /\ saved.cursors[f] \in Nat /\ saved.cursors[f] <= clock /\ Covers(f, saved.cursors[f])
    BY <1>0, Numbers DEF CursorsPast, CursorCovers, Load
  <2> QED  BY <2>1, <2>3, <2>4 DEF CursorCovers, Covers, Load
<1>2. ASSUME UNCHANGED <<feed, imported, cursor, saved>>,
             late \subseteq late', skipped \subseteq skipped'
      PROVE  CursorCovers'
  BY <1>0, <1>2 DEF CursorCovers, Covers, Load
<1>3. CASE ImportEntry
  <2>1. /\ pass.at = "apply" /\ Current \in Ecosystem /\ pass.entries[1].record \in Record
        /\ Head(pass.entries) = pass.entries[1] /\ 1 \in 1..Len(pass.entries)
    BY <1>0, <1>3, TakingOff
  <2>2. UNCHANGED <<feed, cursor, saved, late, skipped>>
    BY <1>3 DEF ImportEntry
  <2>3. imported' = [imported EXCEPT ![Current][pass.entries[1].record] =
                       IF pass.bulk THEN pass.entries[1].modified
                       ELSE feed[Current][pass.entries[1].record]]
    BY <1>3, <2>1 DEF ImportEntry
  <2>4. CASE ~pass.bulk
    <3>1. \A e \in Ecosystem, r \in Record :
            imported'[e][r] = imported[e][r] \/ imported'[e][r] = feed[e][r]
      BY <1>0, <2>1, <2>3, <2>4 DEF Typed
    <3> QED  BY <1>0, <2>2, <3>1 DEF CursorCovers, Covers, Load
  <2>5. CASE pass.bulk
    <3>1. pass.since[Current] = 0
      BY <1>0, <2>1, <2>5 DEF OnTheWay
    <3>2. cursor[Current] = 0
      BY <1>0, <2>1, <3>1, PassAt DEF CursorsAgree, Current
    <3>3. saved.cursors[Current] = 0
      BY <1>0, <2>1, <3>2, Numbers DEF CursorsAgree
    <3>4. NotAhead' /\ Typed'
      BY <1>0, NotAheadNext, TypedNext
    <3>5. \A r \in Record : feed[Current][r] <= 0 => imported'[Current][r] = feed[Current][r]
      <4> TAKE r \in Record
      <4>1. feed[Current][r] \in Nat /\ imported'[Current][r] \in Nat
        BY <1>0, <2>1, <3>4, SyncAssumption DEF Typed
      <4>2. imported'[Current][r] <= feed[Current][r]
        BY <2>1, <2>2, <3>4 DEF NotAhead
      <4> QED  BY <4>1, <4>2
    <3>6. \A e \in Ecosystem : e # Current => imported'[e] = imported[e]
      BY <1>0, <2>3 DEF Typed
    <3>7. ASSUME NEW e \in Ecosystem
          PROVE  Covers(e, cursor[e])' /\ Covers(e, Load(saved)[e])'
      <4>1. CASE e = Current
        BY <2>2, <3>2, <3>3, <3>5, <4>1 DEF Covers, Load
      <4>2. CASE e # Current
        BY <1>0, <2>2, <3>6, <4>2 DEF CursorCovers, Covers, Load
      <4> QED  BY <4>1, <4>2
    <3> QED  BY <3>7 DEF CursorCovers
  <2> QED  BY <2>4, <2>5
<1>4. CASE SetCursor
  <2> DEFINE reached == IF pass.latest = 0 THEN clock ELSE pass.latest
  <2>1. /\ pass.at = "apply" /\ pass.entries = <<>> /\ UNCHANGED <<feed, imported, saved, skipped>>
        /\ late' = late \cup {p \in {Current} \X Record :
                                pass.latest = 0 /\ feed[p[1]][p[2]] # 0}
    BY <1>4 DEF SetCursor
  <2>2. \A e \in Ecosystem : cursor'[e] = IF e = Current THEN reached ELSE cursor[e]
    BY <1>0, <1>4 DEF SetCursor, Typed, Cursors
  <2>3. Current \in Ecosystem
    BY <1>0, <2>1, PassAt
  <2>4. ASSUME NEW r \in Record, feed[Current][r] <= reached, <<Current, r>> \notin late' \cup skipped'
        PROVE  imported[Current][r] = feed[Current][r]
    <3>1. <<Current, r>> \notin late \cup skipped
      BY <2>1, <2>4
    <3>2. CASE feed[Current][r] = 0
      BY <1>0, <2>3, <3>2, Numbers DEF NotAhead
    <3>3. CASE feed[Current][r] # 0
      <4>1. pass.latest # 0
        BY <2>1, <2>4, <3>3
      <4>2. OnList(Current, r) \/ Done(Current, r) \/ Newer(Current, r)
        BY <1>0, <2>1, <3>1, <3>3 DEF OnTheWay
      <4>3. ~OnList(Current, r)
        BY <2>1, EmptySeq DEF OnList
      <4>4. ~Newer(Current, r)
        BY <1>0, <2>1, <2>3, <2>4, <4>1, Numbers DEF Newer
      <4> QED  BY <4>2, <4>3, <4>4 DEF Done
    <3> QED  BY <3>2, <3>3
  <2> HIDE DEF reached
  <2>5. \A e \in Ecosystem : Covers(e, cursor[e]) /\ Covers(e, Load(saved)[e])
    BY <1>0 DEF CursorCovers
  <2>6. ASSUME NEW e \in Ecosystem
        PROVE  Covers(e, cursor[e])' /\ Covers(e, Load(saved)[e])'
    <3>1. Covers(e, Load(saved)[e])'
      BY <2>1, <2>5 DEF Covers, Load
    <3>2. CASE e = Current
      BY <2>1, <2>2, <2>3, <2>4, <3>1, <3>2 DEF Covers
    <3>3. CASE e # Current
      BY <2>1, <2>2, <2>5, <3>1, <3>3 DEF Covers
    <3> QED  BY <3>2, <3>3
  <2> QED  BY <2>6 DEF CursorCovers
\* The cursors that are written are no later than those in memory.
<1>5. ASSUME UNCHANGED <<feed, imported, late, skipped>>,
             \A e \in Ecosystem : cursor'[e] \in {0, cursor[e], saved.cursors[e]},
             \A e \in Ecosystem : /\ saved'.cursors[e] \in Nat
                                  /\ \/ saved'.cursors[e] = saved.cursors[e]
                                     \/ saved'.cursors[e] <= cursor[e]
      PROVE  CursorCovers'
  <2>1. ASSUME NEW e \in Ecosystem
        PROVE  Covers(e, cursor'[e]) /\ Covers(e, saved'.cursors[e])
    <3>1. /\ Covers(e, cursor[e]) /\ Covers(e, saved.cursors[e])
          /\ cursor[e] \in Nat /\ saved.cursors[e] \in Nat
      BY <1>0, Numbers DEF CursorCovers, Load
    <3>2. Covers(e, 0)
      BY <1>a, <3>1
    <3> QED  BY <1>5, <1>a, <3>1, <3>2
  <2> QED  BY <1>5, <2>1 DEF CursorCovers, Covers, Load
<1>6. CASE Truncate
  <2>1. \A e \in Ecosystem : saved'.cursors[e] = 0
    BY <1>6 DEF Truncate, Torn, Nothing
  <2> QED  BY <1>0, <1>5, <1>6, <2>1, Numbers DEF Truncate
<1>7. CASE SaveCursor
  <2>1. pass \in Saving /\ saved'.cursors = [pass.file EXCEPT ![Current] = cursor[Current]]
    BY <1>0, <1>7, SavedIs DEF SaveCursor, Whole
  <2>2. \A e \in Ecosystem : saved'.cursors[e] = IF e = Current THEN cursor[e] ELSE pass.file[e]
    BY <2>1 DEF Saving, Cursors
  <2>3. pass.at \in {"save", "write"}
    BY <1>7 DEF SaveCursor
  <2>4. \A e \in Ecosystem : saved'.cursors[e] \in Nat /\ saved'.cursors[e] <= cursor[e]
    BY <1>0, <2>2, <2>3, Numbers DEF CursorsAgree
  <2> QED  BY <1>5, <1>7, <2>4 DEF SaveCursor
<1>8. CASE Crash
  <2>1. \A e \in Ecosystem : cursor'[e] = 0
    BY <1>8 DEF Crash, Nothing
  <2> QED  BY <1>0, <1>5, <1>8, <2>1, Numbers DEF Crash
<1>9. CASE Restart
  BY <1>0, <1>5, <1>9, Numbers DEF Restart, Load
<1>10. ASSUME StartPass \/ FetchBulk \/ FetchIndex \/ FetchFails \/ SkipEntry \/ SaveFails
                \/ UNCHANGED vars \/ \E e \in Ecosystem : Export(e)
       PROVE  CursorCovers'
  BY <1>2, <1>10
  DEF StartPass, FetchBulk, FetchIndex, FetchFails, SkipEntry, SaveFails, Export, vars
<1> QED
  BY <1>1, <1>3, <1>4, <1>6, <1>7, <1>8, <1>9, <1>10 DEF Next

LEMMA SafeInit == Init => Safe
<1> SUFFICES ASSUME Init PROVE Safe
  OBVIOUS
<1>1. ArchiveIsPast /\ CursorsAgree /\ OnTheWay /\ CursorCovers
  BY DEF Init, ArchiveIsPast, CursorsAgree, OnTheWay, CursorCovers, Covers, Load, Down, Whole,
         Nothing, NoRecords
<1> QED  BY <1>1, TypedInit, NotAheadInit DEF Safe

-----------------------------------------------------------------------------
(* The theorems.                                                           *)

\* The variables have their types, and nothing that the store, a cursor or the
\* feed holds is newer than the clock, with and without a batch limit.
THEOREM TypeCorrect == Spec => []TypeOK
<1> DEFINE Past == Typed /\ CursorsPast /\ NotAhead
<1>1. Init => Past
  BY TypedInit, NotAheadInit
<1>2. Past /\ [Next]_vars => Past'
  BY TypedNext, CursorsPastNext, NotAheadNext
<1>3. Past => TypeOK
  <2> SUFFICES ASSUME Past PROVE TypeOK
    OBVIOUS
  <2>1. \A e \in Ecosystem, r \in Record :
          feed[e][r] \in 0..clock /\ imported[e][r] \in 0..clock
    BY Numbers DEF NotAhead
  <2>2. feed \in [Ecosystem -> [Record -> 0..clock]]
    BY <2>1 DEF Typed
  <2>3. imported \in [Ecosystem -> [Record -> 0..clock]]
    BY <2>1 DEF Typed
  <2>4. ASSUME pass.at = "apply"
        PROVE  pass.entries \in Seq([record : Record, modified : 1..clock])
    <3>1. pass.entries \in Seq(Entry) /\ Current \in Ecosystem
      BY <2>4, PassAt DEF Applying
    <3>2. ASSUME NEW i \in 1..Len(pass.entries)
          PROVE  pass.entries[i] \in [record : Record, modified : 1..clock]
      <4>1. pass.entries[i] \in Entry
        BY <3>1, ElementOfSeq
      <4>2. /\ pass.entries[i].modified <= feed[Current][pass.entries[i].record]
            /\ feed[Current][pass.entries[i].record] <= clock
        BY <2>4, <3>1, <4>1 DEF NotAhead, Entry
      <4>3. pass.entries[i].modified \in 1..clock
        BY <3>1, <4>1, <4>2, Numbers DEF Entry
      <4> QED  BY <4>1, <4>3 DEF Entry
    <3> QED  BY <3>1, <3>2, ElementsMakeSeq
  <2> QED  BY <2>2, <2>3, <2>4, PassAt DEF TypeOK, Typed
<1> QED  BY <1>1, <1>2, <1>3, PTL DEF Spec

\* No cursor, in memory or in the file, is ahead of the store, whatever
\* upstream publishes and exports in between and wherever the import is cut
\* off, as long as the list of changes is not: main sets no BatchSize.
THEOREM CursorsNeverAhead ==
  ASSUME BatchSize = 0
  PROVE  Spec => []CursorCovers
<1>1. Safe /\ [Next]_vars => Safe'
  BY TypedNext, CursorsPastNext, NotAheadNext, ArchiveNext, CursorsAgreeNext, OnTheWayNext,
     CursorCoversNext
  DEF Safe
<1>2. Safe => CursorCovers
  BY DEF Safe
<1> QED  BY <1>1, <1>2, SafeInit, PTL DEF Spec
=============================================================================
