------------------------- MODULE EventStore_proofs --------------------------
(***************************************************************************)
(* Safety of the event store, for every number of workers, streams and     *)
(* events and every bound: the inductive invariant and its proof.          *)
(***************************************************************************)
EXTENDS EventStore, Envelopes_proofs

\* The mutex, the recorded batch and the place of the worker that appends fit
\* together; while the service is down nobody is in a call.
Locking ==
  /\ \A w \in Worker : pc[w] \in {"write", "sync", "index"} <=> mutex = w
  /\ \A w \in Worker : pc[w] # "idle" => call[w].stream \in Stream
  /\ mutex = None => recorded = <<>>
  /\ \A w \in Worker : pc[w] = "write" => written < Len(recorded)
  /\ \A w \in Worker : pc[w] \in {"sync", "index"} =>
                         recorded # <<>> /\ written = Len(recorded)
  /\ encErr => written = 0
  /\ ~up => ~encErr /\ \A w \in Worker : pc[w] = "idle"

\* The part of the batch that is written is the end of the file, and after
\* the fsync all of it is on disk.
WrittenIsTail ==
  /\ synced <= Len(file)
  /\ written <= Len(file)
  /\ \A i \in 1..written : file[Len(file) - written + i] = recorded[i]
  /\ \A w \in Worker : pc[w] = "index" => synced = Len(file)

\* The batch is numbered from the last version of its stream.
Numbered ==
  mutex # None =>
    \A i \in 1..Len(recorded) :
      /\ recorded[i].stream = call[mutex].stream
      /\ recorded[i].version = LastVersion(mem, call[mutex].stream) + i

\* An acknowledged envelope is synced, and every later line of its stream,
\* acknowledged or left by a failed Append, has a higher version.
AckedKept ==
  \A i \in 1..Len(acked) :
    \E j \in 1..synced :
      /\ file[j] = acked[i]
      /\ \A k \in 1..Len(file) :
           j < k /\ file[k].stream = file[j].stream => file[j].version < file[k].version

\* No acknowledged version is above the last version of its stream, from
\* which the next batch is numbered.
AckedBelowLast ==
  up => \A i \in 1..Len(acked) :
          acked[i].version <= LastVersion(mem, acked[i].stream)

\* Without fsync errors the index is a prefix of the file, and the rest of the
\* file is the written part of the batch; after a write error it may be more.
IndexIsPrefix ==
  syncFails = 0 =>
    /\ Monotone(file)
    /\ Len(mem) <= Len(file)
    /\ \A i \in 1..Len(mem) : mem[i] = file[i]
    /\ up /\ ~encErr => Len(file) = Len(mem) + written
-----------------------------------------------------------------------------
(* The steps of the invariant are proved from a case for every action.     *)

USE DEF disk, index, locked, callers, history

\* What a step of the specification is.
LEMMA NextCases ==
  ASSUME [Next]_vars
  PROVE  \/ \E w \in Worker, s \in Stream : Load(w, s) \/ ExpectNew(w, s)
         \/ \E w \in Worker : AppendNothing(w) \/ AppendConflict(w)
         \/ \E w \in Worker, events \in Batches : AppendStart(w, events)
         \/ \E w \in Worker : Encode(w) \/ EncodeFails(w) \/ Fsync(w)
                             \/ FsyncFails(w) \/ Index(w)
         \/ Crash \/ Restart
         \/ UNCHANGED vars
BY DEF Next, AppendCall, InAppend, RestartFails

\* A recorded batch is a non-empty sequence of envelopes of one stream,
\* numbered from the given version on.
LEMMA VersionedType ==
  ASSUME NEW s \in Stream, NEW v \in Nat, NEW events \in Batches
  PROVE  /\ Versioned(s, v, events) \in Seq(Envelope)
         /\ Len(Versioned(s, v, events)) = Len(events)
         /\ Len(events) \in Nat \ {0}
         /\ \A i \in 1..Len(events) :
              /\ Versioned(s, v, events)[i].stream = s
              /\ Versioned(s, v, events)[i].version = v + i
<1>1. PICK n \in 1..MaxBatch : events \in [1..n -> Event]
  BY DEF Batches
<1>2. n \in Nat \ {0} /\ events \in Seq(Event) /\ Len(events) = n
  BY <1>1, BoundsAssumption
<1>3. \A i \in 1..n : [stream |-> s, version |-> v + i, event |-> events[i]] \in Envelope
  BY <1>1, <1>2 DEF Envelope
<1>4. Versioned(s, v, events) \in [1..n -> Envelope]
  BY <1>2, <1>3 DEF Versioned
<1> QED
  BY <1>2, <1>4 DEF Versioned

-----------------------------------------------------------------------------
(* Types and locking.                                                      *)

Typed == TypeOK /\ Locking

\* An empty store has its type and nobody holds the mutex.
LEMMA TypedInit == Init => Typed
<1> SUFFICES ASSUME Init
             PROVE  Typed
  OBVIOUS
<1>1. NoCall \in [stream : Stream \cup {None}, expected : Nat]
  BY DEF NoCall
<1>2. <<>> \in Seq(Envelope) /\ Len(<<>>) = 0
  BY EmptySeq
<1>3. TypeOK
  <2>1. call \in [Worker -> [stream : Stream \cup {None}, expected : Nat]]
    BY <1>1 DEF Init
  <2>2. written \in 0..Len(recorded)
    BY <1>2 DEF Init
  <2>3. pc \in [Worker -> {"idle", "loaded", "write", "sync", "index"}]
    BY DEF Init
  <2> QED
    BY <1>2, <2>1, <2>2, <2>3, Zenon, BoundsAssumption DEF Init, TypeOK
<1>4. Locking
  BY NoneAssumption DEF Init, Locking
<1> QED
  BY <1>3, <1>4 DEF Typed

\* Every step keeps the type of the state and the fit of mutex, batch and
\* place in Append.
LEMMA TypedNext == Typed /\ [Next]_vars => Typed'
<1> SUFFICES ASSUME Typed, [Next]_vars
             PROVE  Typed'
  OBVIOUS
<1> USE NoneAssumption DEF Typed, TypeOK, Locking, NoCall
<1>1. ASSUME NEW w \in Worker, NEW s \in Stream, Load(w, s)
      PROVE  Typed'
  BY <1>1, LastVersionType DEF Load
<1>2. ASSUME NEW w \in Worker, NEW s \in Stream, ExpectNew(w, s)
      PROVE  Typed'
  BY <1>2 DEF ExpectNew
<1>3. ASSUME NEW w \in Worker, AppendNothing(w)
      PROVE  Typed'
  BY <1>3 DEF AppendNothing
<1>4. ASSUME NEW w \in Worker, AppendConflict(w)
      PROVE  Typed'
  BY <1>4 DEF AppendConflict
<1>5. ASSUME NEW w \in Worker, NEW events \in Batches, AppendStart(w, events)
      PROVE  Typed'
  <2> DEFINE s == call[w].stream
             v == LastVersion(mem, s)
  <2>1. s \in Stream /\ v \in Nat
    BY <1>5, LastVersionType DEF AppendStart
  <2>2. recorded' \in Seq(Envelope) /\ Len(recorded') \in Nat \ {0}
    BY <1>5, <2>1, VersionedType DEF AppendStart
  <2>3. recorded' # <<>> /\ written' \in 0..Len(recorded') /\ written' < Len(recorded')
    BY <1>5, <2>2, EmptySeq DEF AppendStart
  <2> HIDE DEF s, v
  <2> QED
    BY <1>5, <2>2, <2>3 DEF AppendStart
<1>6. ASSUME NEW w \in Worker, Encode(w)
      PROVE  Typed'
  BY <1>6, EnvelopeAt, AppendProperties DEF Encode
<1>7. ASSUME NEW w \in Worker, EncodeFails(w)
      PROVE  Typed'
  BY <1>7 DEF EncodeFails, Return
<1>8. ASSUME NEW w \in Worker, Fsync(w)
      PROVE  Typed'
  BY <1>8 DEF Fsync
<1>9. ASSUME NEW w \in Worker, FsyncFails(w)
      PROVE  Typed'
  BY <1>9 DEF FsyncFails, Return
<1>10. ASSUME NEW w \in Worker, Index(w)
      PROVE  Typed'
  BY <1>10, ConcatProperties DEF Index, Return
<1>11. CASE Crash
  <2>1. PICK k \in synced..Len(file) : file' = SubSeq(file, 1, k)
    BY <1>11 DEF Crash
  <2>2. file' \in Seq(Envelope)
    BY <2>1, ElementOfSeq, SubSeqProperties
  <2>3. torn' \in BOOLEAN
    BY <1>11 DEF Crash
  <2>4. <<>> \in Seq(Envelope) /\ Len(<<>>) = 0
    BY EmptySeq
  <2>5. call' \in [Worker -> [stream : Stream \cup {None}, expected : Nat]]
    BY <1>11 DEF Crash
  <2>6. written' \in 0..Len(recorded')
    BY <1>11, <2>4 DEF Crash
  <2>7. pc' \in [Worker -> {"idle", "loaded", "write", "sync", "index"}]
    BY <1>11 DEF Crash
  <2>8. crashes' \in Nat
    BY <1>11 DEF Crash
  <2>9. TypeOK'
    BY <1>11, <2>2, <2>3, <2>4, <2>5, <2>6, <2>7, <2>8 DEF Crash
  <2> QED
    BY <1>11, <2>9 DEF Crash
<1>12. CASE Restart
  BY <1>12 DEF Restart
<1>13. CASE UNCHANGED vars
  BY <1>13 DEF vars
<1> QED
  BY <1>1, <1>2, <1>3, <1>4, <1>5, <1>6, <1>7, <1>8, <1>9, <1>10, <1>11, <1>12, <1>13, NextCases

\* The state of the store always has its type; the mutex is held exactly by
\* the worker inside Append.
THEOREM TypeCorrect == Spec => []TypeOK
<1>1. Spec => []Typed
  BY TypedInit, TypedNext, PTL DEF Spec
<1> QED
  BY <1>1, PTL DEF Typed

-----------------------------------------------------------------------------
(* The written lines and their numbers.                                    *)

Placed == WrittenIsTail /\ Numbered

\* An empty store has no batch.
LEMMA PlacedInit == Init => Placed
BY DEF Init, Placed, WrittenIsTail, Numbered

\* Every step keeps the written lines at the end of the file: nothing else
\* writes to it while Append holds the mutex.
LEMMA WrittenIsTailNext ==
  Typed /\ WrittenIsTail /\ [Next]_vars => WrittenIsTail'
<1> SUFFICES ASSUME Typed, WrittenIsTail, [Next]_vars
             PROVE  WrittenIsTail'
  OBVIOUS
<1> USE DEF Typed, TypeOK, Locking, WrittenIsTail
<1>1. ASSUME NEW w \in Worker, NEW s \in Stream, Load(w, s) \/ ExpectNew(w, s)
      PROVE  WrittenIsTail'
  BY <1>1 DEF Load, ExpectNew
<1>2. ASSUME NEW w \in Worker, AppendNothing(w) \/ AppendConflict(w)
      PROVE  WrittenIsTail'
  BY <1>2 DEF AppendNothing, AppendConflict
<1>3. ASSUME NEW w \in Worker, NEW events \in Batches, AppendStart(w, events)
      PROVE  WrittenIsTail'
  BY <1>3 DEF AppendStart
<1>4. ASSUME NEW w \in Worker, Encode(w)
      PROVE  WrittenIsTail'
  <2>1. recorded[written + 1] \in Envelope /\ written + 1 \in 1..Len(recorded)
    BY <1>4, EnvelopeAt DEF Encode
  <2>2. /\ Len(file') = Len(file) + 1
        /\ \A i \in 1..Len(file) : file'[i] = file[i]
        /\ file'[Len(file) + 1] = recorded[written + 1]
    BY <1>4, <2>1, AppendProperties DEF Encode
  <2>3. written' = written + 1 /\ recorded' = recorded /\ synced' = synced
    BY <1>4 DEF Encode
  <2>4. ASSUME NEW i \in 1..written'
        PROVE  file'[Len(file') - written' + i] = recorded'[i]
    <3>1. CASE i = written + 1
      BY <2>2, <2>3, <3>1
    <3>2. CASE i \in 1..written
      <4>1. Len(file') - written' + i = Len(file) - written + i
        BY <2>2, <2>3
      <4>2. Len(file) - written + i \in 1..Len(file)
        BY <3>2
      <4> QED  BY <2>2, <2>3, <3>2, <4>1, <4>2
    <3> QED  BY <2>3, <3>1, <3>2
  <2>5. \A v \in Worker : pc'[v] # "index"
    <3>1. mutex = w /\ \A v \in Worker : v # w => pc[v] # "index"
      BY <1>4 DEF Encode
    <3>2. pc'[w] # "index" /\ \A v \in Worker : v # w => pc'[v] = pc[v]
      BY <1>4 DEF Encode
    <3> QED  BY <3>1, <3>2
  <2>6. synced' <= Len(file') /\ written' <= Len(file')
    BY <2>2, <2>3
  <2> QED
    BY <2>4, <2>5, <2>6, Zenon
<1>5. ASSUME NEW w \in Worker, EncodeFails(w)
      PROVE  WrittenIsTail'
  BY <1>5 DEF EncodeFails, Return
<1>6. ASSUME NEW w \in Worker, Fsync(w)
      PROVE  WrittenIsTail'
  BY <1>6 DEF Fsync
<1>7. ASSUME NEW w \in Worker, FsyncFails(w)
      PROVE  WrittenIsTail'
  BY <1>7 DEF FsyncFails, Return
<1>8. ASSUME NEW w \in Worker, Index(w)
      PROVE  WrittenIsTail'
  BY <1>8 DEF Index, Return
<1>9. CASE Crash
  <2>1. PICK k \in synced..Len(file) : file' = SubSeq(file, 1, k)
    BY <1>9 DEF Crash
  <2>2. Len(file') = k
    BY <2>1, ElementOfSeq, SubSeqProperties
  <2> QED
    BY <1>9, <2>1, <2>2 DEF Crash
<1>10. CASE Restart
  BY <1>10 DEF Restart
<1>11. CASE UNCHANGED vars
  BY <1>11 DEF vars
<1> QED
  BY <1>1, <1>2, <1>3, <1>4, <1>5, <1>6, <1>7, <1>8, <1>9, <1>10, <1>11, NextCases

\* The batch AppendStart records is numbered from the last version on.
LEMMA StartNumbers ==
  ASSUME Typed, NEW w \in Worker, NEW events \in Batches, AppendStart(w, events)
  PROVE  \A i \in 1..Len(recorded') :
           /\ recorded'[i].stream = call[w].stream
           /\ recorded'[i].version = LastVersion(mem, call[w].stream) + i
<1> DEFINE s == call[w].stream
           v == LastVersion(mem, s)
<1>1. s \in Stream /\ v \in Nat
  BY LastVersionType DEF AppendStart, Typed, TypeOK, Locking
<1>2. recorded' = Versioned(s, v, events)
  BY DEF AppendStart
<1> HIDE DEF s, v
<1>3. /\ Len(Versioned(s, v, events)) = Len(events)
      /\ \A i \in 1..Len(events) :
           /\ Versioned(s, v, events)[i].stream = s
           /\ Versioned(s, v, events)[i].version = v + i
  <2>1. \A x \in Stream, n \in Nat, e \in Batches :
          /\ Len(Versioned(x, n, e)) = Len(e)
          /\ \A i \in 1..Len(e) :
               /\ Versioned(x, n, e)[i].stream = x
               /\ Versioned(x, n, e)[i].version = n + i
    BY VersionedType
  <2>2. events \in Batches
    OBVIOUS
  <2> QED  BY <1>1, <2>1, <2>2
<1> QED
  BY <1>2, <1>3 DEF s, v

\* Every step keeps the batch numbered from the last version of its stream:
\* the index does not change while Append holds the mutex.
LEMMA NumberedNext ==
  Typed /\ Numbered /\ [Next]_vars => Numbered'
<1> SUFFICES ASSUME Typed, Numbered, [Next]_vars
             PROVE  Numbered'
  OBVIOUS
<1> USE NoneAssumption DEF Typed, TypeOK, Locking, Numbered
<1>1. ASSUME NEW w \in Worker, NEW s \in Stream, Load(w, s) \/ ExpectNew(w, s)
      PROVE  Numbered'
  BY <1>1 DEF Load, ExpectNew
<1>2. ASSUME NEW w \in Worker, AppendNothing(w) \/ AppendConflict(w)
      PROVE  Numbered'
  BY <1>2 DEF AppendNothing, AppendConflict
<1>3. ASSUME NEW w \in Worker, NEW events \in Batches, AppendStart(w, events)
      PROVE  Numbered'
  <2>1. mutex' = w /\ call' = call /\ mem' = mem
    BY <1>3 DEF AppendStart
  <2>2. \A i \in 1..Len(recorded') :
          /\ recorded'[i].stream = call[w].stream
          /\ recorded'[i].version = LastVersion(mem, call[w].stream) + i
    BY <1>3, StartNumbers
  <2> QED
    BY <2>1, <2>2
<1>4. ASSUME NEW w \in Worker, Encode(w) \/ Fsync(w)
      PROVE  Numbered'
  BY <1>4 DEF Encode, Fsync
<1>5. ASSUME NEW w \in Worker, EncodeFails(w) \/ FsyncFails(w) \/ Index(w)
      PROVE  Numbered'
  BY <1>5 DEF EncodeFails, FsyncFails, Index, Return
<1>6. CASE Crash
  BY <1>6 DEF Crash
<1>7. CASE Restart
  BY <1>7 DEF Restart
<1>8. CASE UNCHANGED vars
  BY <1>8 DEF vars
<1> QED
  BY <1>1, <1>2, <1>3, <1>4, <1>5, <1>6, <1>7, <1>8, NextCases

-----------------------------------------------------------------------------
(* Acknowledged events.                                                    *)

Kept == AckedKept /\ AckedBelowLast /\ AckedVersionsIncrease

\* Nothing is acknowledged at the start.
LEMMA KeptInit == Init => Kept
BY DEF Init, Kept, AckedKept, AckedBelowLast, AckedVersionsIncrease, Monotone

\* The line Encode adds to the file comes after the acknowledged lines of its
\* stream and has a higher version than each of them.
LEMMA EncodeKeeps ==
  ASSUME Typed, Placed, Kept, NEW w \in Worker, Encode(w)
  PROVE  Kept'
<1> USE NoneAssumption DEF Typed, TypeOK, Locking
<1> DEFINE r == recorded[written + 1]
<1>1. r \in Envelope /\ written + 1 \in 1..Len(recorded)
  BY EnvelopeAt DEF Encode
<1>2. /\ Len(file') = Len(file) + 1
      /\ \A i \in 1..Len(file) : file'[i] = file[i]
      /\ file'[Len(file) + 1] = r
  BY <1>1, AppendProperties DEF Encode
<1>3. mutex = w /\ up /\ mutex # None
  BY DEF Encode
<1>4. /\ r.stream = call[w].stream
      /\ r.version = LastVersion(mem, r.stream) + (written + 1)
  BY <1>1, <1>3 DEF Placed, Numbered
<1>5. LastVersion(mem, r.stream) \in Nat
  BY LastVersionType
<1>6. UNCHANGED <<synced, mem, up, acked>>
  BY DEF Encode
<1> HIDE DEF r
<1>7. ASSUME NEW i \in 1..Len(acked)
      PROVE  \E j \in 1..synced :
               /\ file'[j] = acked[i]
               /\ \A k \in 1..Len(file') :
                    j < k /\ file'[k].stream = file'[j].stream
                      => file'[j].version < file'[k].version
  <2>1. PICK j \in 1..synced :
          /\ file[j] = acked[i]
          /\ \A k \in 1..Len(file) :
               j < k /\ file[k].stream = file[j].stream => file[j].version < file[k].version
    BY DEF Kept, AckedKept
  <2>2. j \in 1..Len(file) /\ file'[j] = file[j]
    BY <1>2 DEF Placed, WrittenIsTail
  <2>3. acked[i].version \in Nat
    BY EnvelopeAt
  <2>4. r.stream = acked[i].stream => acked[i].version < r.version
    BY <1>3, <1>4, <1>5, <2>3 DEF Kept, AckedBelowLast
  <2>5. ASSUME NEW k \in 1..Len(file'), j < k, file'[k].stream = file'[j].stream
        PROVE  file'[j].version < file'[k].version
    <3>1. CASE k = Len(file) + 1
      BY <1>2, <2>1, <2>2, <2>4, <2>5, <3>1
    <3>2. CASE k \in 1..Len(file)
      BY <1>2, <2>1, <2>2, <2>5, <3>2
    <3> QED  BY <1>2, <3>1, <3>2
  <2> QED
    BY <2>1, <2>2, <2>5
<1>8. AckedKept'
  BY <1>6, <1>7 DEF AckedKept
<1>9. AckedBelowLast' /\ AckedVersionsIncrease'
  BY <1>6 DEF Kept, AckedBelowLast, AckedVersionsIncrease
<1> QED
  BY <1>8, <1>9 DEF Kept

\* The batch Index acknowledges is the end of the synced file, and its
\* versions continue those acknowledged before.
LEMMA IndexKeeps ==
  ASSUME Typed, Placed, Kept, NEW w \in Worker, Index(w)
  PROVE  Kept'
<1> USE DEF Typed, TypeOK, Locking
<1> DEFINE s == call[w].stream
           v == LastVersion(mem, s)
<1>1. /\ mutex = w /\ mutex # None /\ up /\ recorded # <<>>
      /\ written = Len(recorded) /\ synced = Len(file) /\ written <= Len(file)
  BY NoneAssumption DEF Index, Placed, WrittenIsTail
<1>2. v \in Nat
  BY LastVersionType
<1>3. \A i \in 1..Len(recorded) : recorded[i].stream = s /\ recorded[i].version = v + i
  BY <1>1 DEF Placed, Numbered
<1>4. /\ acked' = acked \o recorded /\ mem' = mem \o recorded
      /\ file' = file /\ synced' = synced /\ up' = up
  BY DEF Index
<1>5. /\ Len(acked') = Len(acked) + Len(recorded)
      /\ \A i \in 1..Len(acked') :
           acked'[i] = IF i <= Len(acked) THEN acked[i] ELSE recorded[i - Len(acked)]
  BY <1>4, ConcatProperties
<1>6. /\ LastVersion(mem', s) = v + Len(recorded)
      /\ \A t : t # s => LastVersion(mem', t) = LastVersion(mem, t)
  <2>1. mem \in Seq(Envelope) /\ recorded \in Seq(Envelope)
    OBVIOUS
  <2> HIDE DEF s, v
  <2>2. /\ LastVersion(mem \o recorded, s) = v + Len(recorded)
        /\ \A t : t # s => LastVersion(mem \o recorded, t) = LastVersion(mem, t)
    <3> DEFINE From(b, x, n) ==
                 b # <<>> /\ \A i \in 1..Len(b) : b[i].stream = x /\ b[i].version = n + i
               Extended(m, b, x, n) ==
                 /\ LastVersion(m \o b, x) = n + Len(b)
                 /\ \A t : t # x => LastVersion(m \o b, t) = LastVersion(m, t)
    <3>1. s \in Stream
      BY <1>1 DEF s
    <3>2. \A m, b \in Seq(Envelope), x \in Stream, n \in Nat :
            From(b, x, n) => Extended(m, b, x, n)
      BY LastVersionOfConcat, Zenon
    <3>3. From(recorded, s, v)
      BY <1>1, <1>3
    <3>4. Extended(mem, recorded, s, v)
      <4> HIDE DEF From, Extended
      <4> QED  BY <1>2, <2>1, <3>1, <3>2, <3>3
    <3> QED  BY <3>4
  <2>3. mem' = mem \o recorded
    BY <1>4
  <2> QED  BY <2>2, <2>3
<1>7. \A i \in 1..Len(acked) : acked[i].version \in Nat
  BY EnvelopeAt
<1>8. \A i \in 1..Len(acked) : acked[i].version <= LastVersion(mem, acked[i].stream)
  BY <1>1 DEF Kept, AckedBelowLast
<1>9. Len(acked) \in Nat /\ Len(recorded) \in Nat /\ Len(file) \in Nat
  OBVIOUS
<1>10. \A t : LastVersion(mem, t) \in Nat
  BY LastVersionType
<1> HIDE DEF s, v
<1>11. AckedKept'
  <2> SUFFICES ASSUME NEW i \in 1..Len(acked')
               PROVE  \E j \in 1..synced :
                        /\ file[j] = acked'[i]
                        /\ \A k \in 1..Len(file) :
                             j < k /\ file[k].stream = file[j].stream
                               => file[j].version < file[k].version
    BY <1>4 DEF AckedKept
  <2>1. CASE i <= Len(acked)
    <3>1. i \in 1..Len(acked) /\ acked'[i] = acked[i]
      BY <1>5, <1>9, <2>1
    <3> QED  BY <3>1 DEF Kept, AckedKept
  <2>2. CASE ~(i <= Len(acked))
    <3> DEFINE q == i - Len(acked)
               j == Len(file) - written + q
    <3>1. q \in 1..Len(recorded) /\ acked'[i] = recorded[q]
      BY <1>5, <1>9, <2>2
    <3>2. j \in 1..synced /\ file[j] = recorded[q]
      <4>1. j \in 1..synced /\ q \in 1..written
        BY <1>1, <1>9, <3>1
      <4> HIDE DEF q
      <4> QED  BY <4>1 DEF Placed, WrittenIsTail
    <3>3. ASSUME NEW k \in 1..Len(file), j < k
          PROVE  file[j].version < file[k].version
      <4> DEFINE p == k - (Len(file) - written)
      <4>1. p \in 1..Len(recorded) /\ q < p /\ k = Len(file) - written + p
        BY <1>1, <1>9, <3>1, <3>3
      <4>2. file[k] = recorded[p]
        BY <1>1, <4>1 DEF Placed, WrittenIsTail
      <4> HIDE DEF p, j, q
      <4> QED
        BY <1>2, <1>3, <3>1, <3>2, <4>1, <4>2
    <3> HIDE DEF j, q
    <3> QED  BY <3>1, <3>2, <3>3
  <2> QED  BY <2>1, <2>2
<1>12. AckedBelowLast'
  <2> SUFFICES ASSUME NEW i \in 1..Len(acked')
               PROVE  acked'[i].version <= LastVersion(mem', acked'[i].stream)
    BY DEF AckedBelowLast
  <2>1. CASE i <= Len(acked)
    <3>1. i \in 1..Len(acked) /\ acked'[i] = acked[i]
      BY <1>5, <1>9, <2>1
    <3>2. CASE acked[i].stream = s
      BY <1>2, <1>6, <1>7, <1>8, <1>9, <3>1, <3>2 DEF v
    <3>3. CASE acked[i].stream # s
      BY <1>6, <1>8, <3>1, <3>3
    <3> QED  BY <3>2, <3>3
  <2>2. CASE ~(i <= Len(acked))
    <3>1. i - Len(acked) \in 1..Len(recorded) /\ acked'[i] = recorded[i - Len(acked)]
      BY <1>5, <1>9, <2>2
    <3>2. acked'[i].stream = s /\ acked'[i].version = v + (i - Len(acked))
      BY <1>3, <3>1
    <3> QED  BY <1>2, <1>6, <1>9, <3>1, <3>2
  <2> QED  BY <2>1, <2>2
<1>13. AckedVersionsIncrease'
  <2> SUFFICES ASSUME NEW i \in 1..Len(acked'), NEW j \in 1..Len(acked'),
                      i < j, acked'[i].stream = acked'[j].stream
               PROVE  acked'[i].version < acked'[j].version
    BY DEF AckedVersionsIncrease, Monotone
  <2>1. CASE j <= Len(acked)
    <3>1. /\ i \in 1..Len(acked) /\ j \in 1..Len(acked)
          /\ acked'[i] = acked[i] /\ acked'[j] = acked[j]
      BY <1>5, <1>9, <2>1
    <3> QED  BY <3>1 DEF Kept, AckedVersionsIncrease, Monotone
  <2>2. CASE ~(j <= Len(acked))
    <3>1. j - Len(acked) \in 1..Len(recorded) /\ acked'[j] = recorded[j - Len(acked)]
      BY <1>5, <1>9, <2>2
    <3>2. acked'[j].stream = s /\ acked'[j].version = v + (j - Len(acked))
      BY <1>3, <3>1
    <3>3. CASE i <= Len(acked)
      <4>1. i \in 1..Len(acked) /\ acked'[i] = acked[i]
        BY <1>5, <1>9, <3>3
      <4>2. acked[i].version \in Nat /\ acked[i].version <= v
        BY <1>7, <1>8, <3>2, <4>1 DEF v
      <4> QED  BY <1>2, <1>9, <3>1, <3>2, <4>1, <4>2
    <3>4. CASE ~(i <= Len(acked))
      <4>1. i - Len(acked) \in 1..Len(recorded) /\ acked'[i] = recorded[i - Len(acked)]
        BY <1>5, <1>9, <3>4
      <4>2. acked'[i].version = v + (i - Len(acked))
        BY <1>3, <4>1
      <4> QED  BY <1>2, <1>9, <3>1, <3>2, <4>1, <4>2
    <3> QED  BY <3>3, <3>4
  <2> QED  BY <2>1, <2>2
<1> QED
  BY <1>11, <1>12, <1>13 DEF Kept

\* A crash keeps the synced lines, and with them the acknowledged envelopes.
LEMMA CrashKeeps ==
  ASSUME Typed, Placed, Kept, Crash
  PROVE  Kept'
<1>1. PICK k \in synced..Len(file) : file' = SubSeq(file, 1, k)
  BY DEF Crash
<1>2. synced \in Nat /\ Len(file) \in Nat /\ synced <= Len(file) /\ k <= Len(file)
  BY <1>1 DEF Typed, TypeOK, Placed, WrittenIsTail
<1>3. Len(file') = k /\ \A i \in 1..k : file'[i] = file[i]
  BY <1>1, <1>2, ElementOfSeq, SubSeqProperties DEF Typed, TypeOK
<1>4. UNCHANGED <<synced, acked>> /\ ~up'
  BY DEF Crash
<1>5. AckedKept'
  <2> SUFFICES ASSUME NEW i \in 1..Len(acked)
               PROVE  \E j \in 1..synced :
                        /\ file'[j] = acked[i]
                        /\ \A l \in 1..Len(file') :
                             j < l /\ file'[l].stream = file'[j].stream
                               => file'[j].version < file'[l].version
    BY <1>4 DEF AckedKept
  <2>1. PICK j \in 1..synced :
          /\ file[j] = acked[i]
          /\ \A l \in 1..Len(file) :
               j < l /\ file[l].stream = file[j].stream => file[j].version < file[l].version
    BY DEF Kept, AckedKept
  <2>2. j \in 1..k /\ \A l \in 1..k : l \in 1..Len(file)
    BY <1>1, <1>2
  <2> QED
    BY <1>3, <2>1, <2>2
<1>6. AckedBelowLast' /\ AckedVersionsIncrease'
  BY <1>4 DEF Kept, AckedBelowLast, AckedVersionsIncrease
<1> QED
  BY <1>5, <1>6 DEF Kept

\* Replaying the file gives every stream a last version that is not below an
\* acknowledged one: an acknowledged envelope that is not the last of its
\* stream in the file is followed by one with a higher version.
LEMMA RestartKeeps ==
  ASSUME Typed, Placed, Kept, Restart
  PROVE  Kept'
<1>1. mem' = file /\ UNCHANGED <<file, synced, acked>>
  BY DEF Restart
<1>2. /\ file \in Seq(Envelope) /\ Len(file) \in Nat
      /\ synced \in Nat /\ synced <= Len(file)
  BY DEF Typed, TypeOK, Placed, WrittenIsTail
<1>3. ASSUME NEW i \in 1..Len(acked)
      PROVE  acked[i].version <= LastVersion(file, acked[i].stream)
  <2>1. PICK j \in 1..synced :
          /\ file[j] = acked[i]
          /\ \A k \in 1..Len(file) :
               j < k /\ file[k].stream = file[j].stream => file[j].version < file[k].version
    BY DEF Kept, AckedKept
  <2> DEFINE s == acked[i].stream
  <2>2. j \in PositionsOf(file, s)
    BY <1>2, <2>1 DEF PositionsOf
  <2>3. PICK l \in PositionsOf(file, s) :
          /\ \A k \in PositionsOf(file, s) : k <= l
          /\ LastVersion(file, s) = file[l].version
    BY <1>2, <2>2, LastPosition
  <2>4. j \in 1..Len(file) /\ l \in 1..Len(file) /\ j <= l /\ file[l].stream = file[j].stream
    BY <2>1, <2>2, <2>3 DEF PositionsOf
  <2>5. file[j].version \in Nat /\ file[l].version \in Nat
    BY <1>2, <2>4, EnvelopeAt
  <2>6. file[j].version <= file[l].version
    BY <1>2, <2>1, <2>4, <2>5
  <2> QED
    BY <2>1, <2>3, <2>6
<1> QED
  BY <1>1, <1>3 DEF Kept, AckedKept, AckedBelowLast, AckedVersionsIncrease

\* An fsync only adds to the synced lines.
LEMMA FsyncKeeps ==
  ASSUME Typed, Placed, Kept, NEW w \in Worker, Fsync(w)
  PROVE  Kept'
<1>1. synced' = Len(file) /\ UNCHANGED <<file, up, mem, acked>>
  BY DEF Fsync
<1>2. \A j \in 1..synced : j \in 1..Len(file)
  BY DEF Typed, TypeOK, Placed, WrittenIsTail
<1>3. AckedKept'
  BY <1>1, <1>2 DEF Kept, AckedKept
<1> QED
  BY <1>1, <1>3 DEF Kept, AckedBelowLast, AckedVersionsIncrease

\* Every step keeps what was acknowledged.
LEMMA KeptNext == Typed /\ Placed /\ Kept /\ [Next]_vars => Kept'
<1> SUFFICES ASSUME Typed, Placed, Kept, [Next]_vars
             PROVE  Kept'
  OBVIOUS
<1>1. ASSUME UNCHANGED <<file, synced, up, mem, acked>>
      PROVE  Kept'
  BY <1>1 DEF Kept, AckedKept, AckedBelowLast, AckedVersionsIncrease
<1>2. ASSUME NEW w \in Worker, NEW s \in Stream, Load(w, s) \/ ExpectNew(w, s)
      PROVE  Kept'
  BY <1>1, <1>2 DEF Load, ExpectNew
<1>3. ASSUME NEW w \in Worker, AppendNothing(w) \/ AppendConflict(w)
      PROVE  Kept'
  BY <1>1, <1>3 DEF AppendNothing, AppendConflict
<1>4. ASSUME NEW w \in Worker, NEW events \in Batches, AppendStart(w, events)
      PROVE  Kept'
  BY <1>1, <1>4 DEF AppendStart
<1>5. ASSUME NEW w \in Worker, EncodeFails(w) \/ FsyncFails(w)
      PROVE  Kept'
  BY <1>1, <1>5 DEF EncodeFails, FsyncFails
<1>6. CASE UNCHANGED vars
  BY <1>1, <1>6 DEF vars
<1> QED
  BY <1>2, <1>3, <1>4, <1>5, <1>6, EncodeKeeps, FsyncKeeps, IndexKeeps,
     CrashKeeps, RestartKeeps, NextCases

Safe == Typed /\ Placed /\ Kept

\* The inductive invariant.
LEMMA SafeInvariant == Spec => []Safe
<1>1. Init => Safe
  BY TypedInit, PlacedInit, KeptInit DEF Safe
<1>2. Safe /\ [Next]_vars => Safe'
  BY TypedNext, WrittenIsTailNext, NumberedNext, KeptNext DEF Safe, Placed
<1> QED
  BY <1>1, <1>2, PTL DEF Spec

\* What a caller was told is stored is on disk: store.go's promise that
\* entries are durable before Append returns, for any number of workers,
\* crashes, write errors and fsync errors.
THEOREM Durable == Spec => []AckedDurable
<1>1. Safe => AckedDurable
  BY DEF Safe, Placed, WrittenIsTail, Kept, AckedKept, AckedDurable
<1> QED
  BY <1>1, SafeInvariant, PTL

\* No version of a stream is given out twice, and they are given out in
\* increasing order, whatever crashes and errors happen in between.
THEOREM VersionsOnce == Spec => []AckedVersionsIncrease
<1>1. Safe => AckedVersionsIncrease
  BY DEF Safe, Kept
<1> QED
  BY <1>1, SafeInvariant, PTL

-----------------------------------------------------------------------------
(* Reading what was acknowledged.                                          *)

\* The index takes in exactly what Append acknowledges, and after a restart
\* it is the file, which holds everything acknowledged.
LEMMA ReadableNext == Safe /\ AckedReadable /\ [Next]_vars => AckedReadable'
<1> SUFFICES ASSUME Safe, AckedReadable, [Next]_vars
             PROVE  AckedReadable'
  OBVIOUS
<1>1. ASSUME UNCHANGED <<up, mem, acked>>
      PROVE  AckedReadable'
  BY <1>1 DEF AckedReadable
<1>2. ASSUME NEW w \in Worker, NEW s \in Stream, Load(w, s) \/ ExpectNew(w, s)
      PROVE  AckedReadable'
  BY <1>1, <1>2 DEF Load, ExpectNew
<1>3. ASSUME NEW w \in Worker, AppendNothing(w) \/ AppendConflict(w)
      PROVE  AckedReadable'
  BY <1>1, <1>3 DEF AppendNothing, AppendConflict
<1>4. ASSUME NEW w \in Worker, NEW events \in Batches, AppendStart(w, events)
      PROVE  AckedReadable'
  BY <1>1, <1>4 DEF AppendStart
<1>5. ASSUME NEW w \in Worker, Encode(w) \/ EncodeFails(w) \/ Fsync(w) \/ FsyncFails(w)
      PROVE  AckedReadable'
  BY <1>1, <1>5 DEF Encode, EncodeFails, Fsync, FsyncFails
<1>6. ASSUME NEW w \in Worker, Index(w)
      PROVE  AckedReadable'
  <2>1. acked \in Seq(Envelope) /\ mem \in Seq(Envelope) /\ recorded \in Seq(Envelope)
    BY DEF Safe, Typed, TypeOK
  <2>2. acked' = acked \o recorded /\ mem' = mem \o recorded /\ up
    <3>1. pc[w] = "index"
      BY <1>6 DEF Index
    <3>2. up
      BY <3>1 DEF Safe, Typed, Locking
    <3> QED  BY <1>6, <3>2 DEF Index
  <2>3. /\ Len(mem') = Len(mem) + Len(recorded)
        /\ \A i \in 1..Len(mem) : mem'[i] = mem[i]
        /\ \A i \in 1..Len(recorded) : mem'[Len(mem) + i] = recorded[i]
    BY <2>1, <2>2, ConcatProperties
  <2>4. /\ Len(acked') = Len(acked) + Len(recorded)
        /\ \A i \in 1..Len(acked') :
             acked'[i] = IF i <= Len(acked) THEN acked[i] ELSE recorded[i - Len(acked)]
    BY <2>1, <2>2, ConcatProperties
  <2>5. Len(acked) \in Nat /\ Len(mem) \in Nat /\ Len(recorded) \in Nat
    BY <2>1
  <2>6. ASSUME NEW i \in 1..Len(acked')
        PROVE  \E j \in 1..Len(mem') : mem'[j] = acked'[i]
    <3>1. CASE i <= Len(acked)
      <4>1. PICK j \in 1..Len(mem) : mem[j] = acked[i]
        BY <2>2, <2>5, <3>1 DEF AckedReadable
      <4> QED  BY <2>3, <2>4, <2>5, <3>1, <4>1
    <3>2. CASE ~(i <= Len(acked))
      <4> DEFINE q == i - Len(acked)
      <4>1. q \in 1..Len(recorded) /\ acked'[i] = recorded[q]
        BY <2>4, <2>5, <3>2
      <4>2. Len(mem) + q \in 1..Len(mem') /\ mem'[Len(mem) + q] = recorded[q]
        BY <2>3, <2>5, <4>1
      <4> QED  BY <4>1, <4>2
    <3> QED  BY <3>1, <3>2
  <2> QED  BY <2>6 DEF AckedReadable
<1>7. CASE Crash
  BY <1>7 DEF Crash, AckedReadable
<1>8. CASE Restart
  <2>1. mem' = file /\ acked' = acked
    BY <1>8 DEF Restart
  <2>2. \A j \in 1..synced : j \in 1..Len(file)
    BY DEF Safe, Typed, TypeOK, Placed, WrittenIsTail
  <2>3. \A i \in 1..Len(acked) : \E j \in 1..Len(file) : file[j] = acked[i]
    BY <2>2 DEF Safe, Kept, AckedKept
  <2> QED  BY <2>1, <2>3 DEF AckedReadable
<1>9. CASE UNCHANGED vars
  BY <1>1, <1>9 DEF vars
<1> QED
  BY <1>2, <1>3, <1>4, <1>5, <1>6, <1>7, <1>8, <1>9, NextCases

\* Whenever the service runs, an event a caller was told is stored can be
\* loaded: right after its Append and after every later restart.
THEOREM Readable == Spec => []AckedReadable
<1>1. Init => AckedReadable
  BY DEF Init, AckedReadable
<1> QED
  BY <1>1, ReadableNext, SafeInvariant, PTL DEF Spec

-----------------------------------------------------------------------------
(* The versions that can be read, as long as no fsync has failed.                              *)

\* File and index of a new store are both empty.
LEMMA PrefixInit == Init => IndexIsPrefix
BY DEF Init, IndexIsPrefix, Monotone

\* The line Encode adds has a higher version than the lines of its stream
\* before it: those the index holds and those of the same batch.
LEMMA EncodeIncreases ==
  ASSUME Safe, IndexIsPrefix, NEW w \in Worker, Encode(w), syncFails = 0
  PROVE  Monotone(file')
<1> DEFINE r == recorded[written + 1]
<1>1. r \in Envelope /\ written + 1 \in 1..Len(recorded)
  BY EnvelopeAt DEF Encode, Safe, Typed, TypeOK, Locking
<1>2. file \in Seq(Envelope) /\ mem \in Seq(Envelope) /\ recorded \in Seq(Envelope)
  BY DEF Safe, Typed, TypeOK
<1>3. /\ Len(file) \in Nat /\ Len(mem) \in Nat /\ Len(recorded) \in Nat
      /\ written \in Nat /\ written <= Len(recorded)
  BY <1>2 DEF Safe, Typed, TypeOK
<1>4. /\ Len(file') = Len(file) + 1
      /\ \A i \in 1..Len(file) : file'[i] = file[i]
      /\ file'[Len(file) + 1] = r
  BY <1>1, <1>2, AppendProperties DEF Encode
<1>5. mutex = w /\ mutex # None /\ up /\ ~encErr
  BY NoneAssumption DEF Encode, Safe, Typed, TypeOK, Locking
<1>6. /\ Monotone(file) /\ Len(file) = Len(mem) + written
      /\ \A i \in 1..Len(mem) : mem[i] = file[i]
  BY <1>5 DEF IndexIsPrefix
<1>7. \A i \in 1..Len(recorded) :
        /\ recorded[i].stream = r.stream
        /\ recorded[i].version = LastVersion(mem, r.stream) + i
  BY <1>1, <1>5 DEF Safe, Placed, Numbered
<1>8. r.version = LastVersion(mem, r.stream) + (written + 1)
  BY <1>1, <1>7
<1>9. \A s : LastVersion(mem, s) \in Nat
  BY <1>2, LastVersionType
<1>10. Monotone(mem)
  BY <1>3, <1>6 DEF Monotone
<1> HIDE DEF r
<1>11. ASSUME NEW i \in 1..Len(file), file[i].stream = r.stream
       PROVE  file[i].version < r.version
  <2>1. CASE i <= Len(mem)
    <3>1. i \in 1..Len(mem) /\ mem[i] = file[i]
      BY <1>3, <1>6, <2>1
    <3>2. mem[i].version <= LastVersion(mem, mem[i].stream) /\ mem[i].version \in Nat
      BY <1>2, <1>10, <3>1, LastVersionHighest, EnvelopeAt
    <3> QED  BY <1>3, <1>8, <1>9, <1>11, <3>1, <3>2
  <2>2. CASE ~(i <= Len(mem))
    <3> DEFINE q == i - Len(mem)
    <3>1. q \in 1..written /\ q \in 1..Len(recorded) /\ i = Len(file) - written + q
      <4>1. Len(file) = Len(mem) + written
        BY <1>6
      <4>2. i \in Nat /\ i <= Len(file)
        BY <1>3
      <4>3. q \in Nat \ {0} /\ q <= written
        BY <1>3, <2>2, <4>1, <4>2
      <4> HIDE DEF q
      <4>4. q \in 1..written /\ q \in 1..Len(recorded)
        BY <1>3, <4>3
      <4> QED  BY <1>3, <4>1, <4>2, <4>4 DEF q
    <3> HIDE DEF q
    <3>2. file[i] = recorded[q]
      BY <3>1 DEF Safe, Placed, WrittenIsTail
    <3>3. file[i].version = LastVersion(mem, r.stream) + q
      BY <1>7, <3>1, <3>2
    <3> QED  BY <1>3, <1>8, <1>9, <3>1, <3>3
  <2> QED  BY <2>1, <2>2
<1> QED
  BY <1>3, <1>4, <1>6, <1>11 DEF Monotone

\* Every step keeps the index a prefix of the file.  A write error leaves
\* lines in the file that are not in the index, but nothing is written after
\* it until a restart takes them in.
LEMMA PrefixNext == Safe /\ IndexIsPrefix /\ [Next]_vars => IndexIsPrefix'
<1> SUFFICES ASSUME Safe, IndexIsPrefix, [Next]_vars, syncFails' = 0
             PROVE  IndexIsPrefix'
  BY DEF IndexIsPrefix
<1>0. syncFails \in Nat /\ written \in Nat /\ Len(file) \in Nat /\ Len(mem) \in Nat
  BY DEF Safe, Typed, TypeOK
<1>1. ASSUME UNCHANGED <<file, written, up, mem, encErr, syncFails>>
      PROVE  IndexIsPrefix'
  BY <1>1 DEF IndexIsPrefix
<1>2. ASSUME NEW w \in Worker, NEW s \in Stream, Load(w, s) \/ ExpectNew(w, s)
      PROVE  IndexIsPrefix'
  BY <1>1, <1>2 DEF Load, ExpectNew
<1>3. ASSUME NEW w \in Worker, AppendNothing(w) \/ AppendConflict(w)
      PROVE  IndexIsPrefix'
  BY <1>1, <1>3 DEF AppendNothing, AppendConflict
<1>4. ASSUME NEW w \in Worker, NEW events \in Batches, AppendStart(w, events)
      PROVE  IndexIsPrefix'
  <2>1. written = 0
    BY <1>4, EmptySeq DEF AppendStart, Safe, Typed, TypeOK, Locking
  <2> QED  BY <1>1, <1>4, <2>1 DEF AppendStart
<1>5. ASSUME NEW w \in Worker, Encode(w)
      PROVE  IndexIsPrefix'
  <2>1. syncFails = 0 /\ UNCHANGED <<up, mem, encErr, syncFails>> /\ written' = written + 1
    BY <1>5 DEF Encode
  <2>2. /\ Len(file') = Len(file) + 1
        /\ \A i \in 1..Len(file) : file'[i] = file[i]
    <3>1. recorded[written + 1] \in Envelope
      BY <1>5, EnvelopeAt DEF Encode, Safe, Typed, TypeOK, Locking
    <3> QED  BY <1>5, <3>1, AppendProperties DEF Encode, Safe, Typed, TypeOK
  <2>3. Monotone(file')
    BY <1>5, <2>1, EncodeIncreases
  <2> QED  BY <1>0, <2>1, <2>2, <2>3 DEF IndexIsPrefix
<1>6. ASSUME NEW w \in Worker, EncodeFails(w)
      PROVE  IndexIsPrefix'
  BY <1>6 DEF EncodeFails, IndexIsPrefix
<1>7. ASSUME NEW w \in Worker, Fsync(w)
      PROVE  IndexIsPrefix'
  BY <1>1, <1>7 DEF Fsync
<1>8. ASSUME NEW w \in Worker, FsyncFails(w)
      PROVE  IndexIsPrefix'
  BY <1>0, <1>8 DEF FsyncFails
<1>9. ASSUME NEW w \in Worker, Index(w)
      PROVE  IndexIsPrefix'
  <2>1. /\ syncFails = 0 /\ UNCHANGED <<file, up, encErr, syncFails>>
        /\ mem' = mem \o recorded /\ written' = 0
    BY <1>9 DEF Index, Return
  <2>2. up /\ ~encErr /\ written = Len(recorded) /\ recorded \in Seq(Envelope) /\ mem \in Seq(Envelope)
    <3>1. recorded # <<>> /\ written = Len(recorded) /\ recorded \in Seq(Envelope) /\ mem \in Seq(Envelope)
      BY <1>9 DEF Index, Safe, Typed, TypeOK, Locking
    <3>2. written # 0
      BY <3>1, EmptySeq
    <3> QED  BY <1>9, <3>1, <3>2 DEF Index, Safe, Typed, Locking
  <2>3. Len(file) = Len(mem) + written
    BY <2>1, <2>2 DEF IndexIsPrefix
  <2>4. /\ Len(mem') = Len(mem) + Len(recorded)
        /\ \A i \in 1..Len(mem') :
             mem'[i] = IF i <= Len(mem) THEN mem[i] ELSE recorded[i - Len(mem)]
    BY <2>1, <2>2, ConcatProperties
  <2>5. ASSUME NEW i \in 1..Len(mem')
        PROVE  mem'[i] = file[i]
    <3>1. CASE i <= Len(mem)
      BY <1>0, <2>1, <2>4, <3>1 DEF IndexIsPrefix
    <3>2. CASE ~(i <= Len(mem))
      <4> DEFINE q == i - Len(mem)
      <4>1. q \in 1..written /\ i = Len(file) - written + q /\ mem'[i] = recorded[q]
        BY <1>0, <2>2, <2>3, <2>4, <3>2
      <4> HIDE DEF q
      <4> QED  BY <4>1 DEF Safe, Placed, WrittenIsTail
    <3> QED  BY <3>1, <3>2
  <2>6. Len(mem') = Len(file')
    BY <2>1, <2>2, <2>3, <2>4
  <2> QED  BY <1>0, <2>1, <2>5, <2>6 DEF IndexIsPrefix
<1>10. CASE Crash
  <2>1. PICK k \in synced..Len(file) : file' = SubSeq(file, 1, k)
    BY <1>10 DEF Crash
  <2>2. k \in Nat /\ k <= Len(file)
    BY <2>1 DEF Safe, Typed, TypeOK
  <2>3. Len(file') = k /\ \A i \in 1..k : file'[i] = file[i]
    BY <2>1, <2>2, ElementOfSeq, SubSeqProperties DEF Safe, Typed, TypeOK
  <2>4. syncFails = 0 /\ mem' = <<>> /\ ~up'
    BY <1>10 DEF Crash
  <2>5. Monotone(file')
    BY <2>2, <2>3, <2>4 DEF IndexIsPrefix, Monotone
  <2> QED  BY <2>2, <2>3, <2>4, <2>5 DEF IndexIsPrefix
<1>11. CASE Restart
  <2>1. syncFails = 0 /\ mem' = file /\ UNCHANGED <<file, written, encErr, syncFails>>
    BY <1>11 DEF Restart
  <2>2. written = 0
    <3>1. mutex = None
      BY <1>11 DEF Restart, Safe, Typed, TypeOK, Locking
    <3> QED  BY <3>1, EmptySeq DEF Safe, Typed, TypeOK, Locking
  <2> QED  BY <1>0, <2>1, <2>2 DEF IndexIsPrefix
<1>12. CASE UNCHANGED vars
  BY <1>1, <1>12 DEF vars
<1> QED
  BY <1>2, <1>3, <1>4, <1>5, <1>6, <1>7, <1>8, <1>9, <1>10, <1>11, <1>12, NextCases

\* The versions Load and All return strictly increase in every stream as long
\* as no fsync failed, through write errors in the middle of a batch, crashes
\* and restarts: the encoder's sticky error is what the proof needs of them.
THEOREM ReadVersionsIncrease == Spec => []VersionsIncreaseUnlessSyncFailed
<1>1. Spec => []IndexIsPrefix
  BY PrefixInit, PrefixNext, SafeInvariant, PTL DEF Spec
<1>2. Safe /\ IndexIsPrefix => VersionsIncreaseUnlessSyncFailed
  <2> SUFFICES ASSUME Safe, IndexIsPrefix, syncFails = 0,
                      NEW i \in 1..Len(mem), NEW j \in 1..Len(mem),
                      i < j, mem[i].stream = mem[j].stream
               PROVE  mem[i].version < mem[j].version
    BY DEF VersionsIncreaseUnlessSyncFailed, VersionsIncrease, Monotone
  <2>1. /\ Monotone(file) /\ Len(mem) <= Len(file)
        /\ mem[i] = file[i] /\ mem[j] = file[j]
    BY DEF IndexIsPrefix
  <2>2. Len(mem) \in Nat /\ Len(file) \in Nat
    BY DEF Safe, Typed, TypeOK
  <2>3. i \in 1..Len(file) /\ j \in 1..Len(file)
    BY <2>1, <2>2
  <2> QED
    BY <2>1, <2>3 DEF Monotone
<1> QED
  BY <1>1, <1>2, SafeInvariant, PTL

-----------------------------------------------------------------------------
(* The promise of EventLog, as long as no fsync has failed.                *)

\* The lines the file has beyond the index are the first ones of some batch,
\* numbered from the last version the index knows.
TailIsPart ==
  Len(mem) < Len(file) =>
    \E s \in Stream, events \in Batches :
      /\ Len(file) <= Len(mem) + Len(events)
      /\ \A i \in 1..(Len(file) - Len(mem)) :
           file[Len(mem) + i] = Versioned(s, LastVersion(mem, s), events)[i]

\* A batch has the bound of the model; the lines a write error leaves stay
\* what they are until the next start takes them in.
BatchesInFile ==
  /\ Len(recorded) <= MaxBatch
  /\ syncFails = 0 /\ up /\ encErr => TailIsPart

\* A recorded batch is the numbering of its events.
LEMMA RecordedIsBatch ==
  ASSUME Safe, BatchesInFile, mutex # None, recorded # <<>>
  PROVE  \E s \in Stream, events \in Batches :
           /\ Len(events) = Len(recorded)
           /\ recorded = Versioned(s, LastVersion(mem, s), events)
<1> DEFINE n == Len(recorded)
           s == call[mutex].stream
           events == [i \in 1..n |-> recorded[i].event]
<1>1. recorded \in Seq(Envelope) /\ n \in Nat \ {0} /\ n <= MaxBatch
  BY EmptySeq DEF Safe, Typed, TypeOK, BatchesInFile
<1>2. s \in Stream
  <2>1. mutex \in Worker
    BY DEF Safe, Typed, TypeOK
  <2>2. pc[mutex] # "idle"
    BY <2>1 DEF Safe, Typed, Locking
  <2> QED  BY <2>1, <2>2 DEF Safe, Typed, Locking
<1>3. \A i \in 1..n : recorded[i] \in Envelope
  BY <1>1, EnvelopeAt
<1>4. \A i \in 1..n : recorded[i].stream = s /\ recorded[i].version = LastVersion(mem, s) + i
  BY DEF Safe, Placed, Numbered
<1> HIDE DEF s
<1>5. events \in [1..n -> Event]
  BY <1>3 DEF Envelope
<1>6. events \in Batches
  <2>1. n \in 1..MaxBatch
    BY <1>1, BoundsAssumption
  <2> HIDE DEF n, events
  <2> QED  BY <1>5, <2>1 DEF Batches
<1>7. events \in Seq(Event) /\ Len(events) = n
  BY <1>1, <1>5
<1>8. \A i \in 1..n : recorded[i] = [stream |-> s, version |-> LastVersion(mem, s) + i,
                                     event |-> events[i]]
  BY <1>3, <1>4 DEF Envelope
<1>9. recorded = [i \in 1..n |-> [stream |-> s, version |-> LastVersion(mem, s) + i,
                                  event |-> events[i]]]
  <2>1. recorded = [i \in 1..n |-> recorded[i]]
    BY <1>1
  <2> HIDE DEF events
  <2> QED  BY <1>8, <2>1
<1>10. recorded = Versioned(s, LastVersion(mem, s), events)
  <2> HIDE DEF events
  <2> QED  BY <1>7, <1>9 DEF Versioned
<1> HIDE DEF events
<1> QED  BY <1>2, <1>6, <1>7, <1>10

\* Until a write fails, the lines beyond the index are the written ones.
LEMMA WrittenIsPart ==
  ASSUME Safe, IndexIsPrefix, BatchesInFile, syncFails = 0, up, ~encErr
  PROVE  TailIsPart
<1> SUFFICES ASSUME Len(mem) < Len(file)
             PROVE  \E s \in Stream, events \in Batches :
                      /\ Len(file) <= Len(mem) + Len(events)
                      /\ \A i \in 1..(Len(file) - Len(mem)) :
                           file[Len(mem) + i] = Versioned(s, LastVersion(mem, s), events)[i]
  BY DEF TailIsPart
<1>1. /\ file \in Seq(Envelope) /\ mem \in Seq(Envelope) /\ recorded \in Seq(Envelope)
      /\ Len(file) \in Nat /\ Len(mem) \in Nat /\ Len(recorded) \in Nat
      /\ written \in Nat /\ written <= Len(recorded)
  BY DEF Safe, Typed, TypeOK
<1>2. Len(file) = Len(mem) + written /\ written > 0
  BY <1>1 DEF IndexIsPrefix, BatchesInFile
<1>3. recorded # <<>> /\ mutex # None
  BY <1>1, <1>2, EmptySeq DEF Safe, Typed, Locking
<1>4. PICK s \in Stream, events \in Batches :
        Len(events) = Len(recorded) /\ recorded = Versioned(s, LastVersion(mem, s), events)
  BY <1>3, RecordedIsBatch
<1>5. \A i \in 1..written : file[Len(file) - written + i] = recorded[i]
  BY DEF Safe, Placed, WrittenIsTail
<1>6. Len(file) - Len(mem) = written /\ Len(file) - written = Len(mem)
  BY <1>1, <1>2
<1>7. \A i \in 1..(Len(file) - Len(mem)) :
        file[Len(mem) + i] = Versioned(s, LastVersion(mem, s), events)[i]
  BY <1>4, <1>5, <1>6
<1>8. Len(file) <= Len(mem) + Len(events)
  BY <1>1, <1>2, <1>4
<1> QED  BY <1>7, <1>8

LEMMA BatchesInit == Init => BatchesInFile
BY EmptySeq, BoundsAssumption DEF Init, BatchesInFile

LEMMA BatchesNext ==
  Safe /\ IndexIsPrefix /\ BatchesInFile /\ [Next]_vars => BatchesInFile'
<1> SUFFICES ASSUME Safe, IndexIsPrefix, BatchesInFile, [Next]_vars
             PROVE  BatchesInFile'
  OBVIOUS
<1>0. Len(<<>>) = 0 /\ MaxBatch \in Nat
  BY EmptySeq, BoundsAssumption
<1>1. ASSUME UNCHANGED <<file, up, mem, encErr, syncFails>>, Len(recorded') <= MaxBatch
      PROVE  BatchesInFile'
  BY <1>1 DEF BatchesInFile, TailIsPart
<1>2. ASSUME NEW w \in Worker, NEW s \in Stream, Load(w, s) \/ ExpectNew(w, s)
      PROVE  BatchesInFile'
  BY <1>1, <1>2 DEF Load, ExpectNew, BatchesInFile
<1>3. ASSUME NEW w \in Worker, AppendNothing(w) \/ AppendConflict(w)
      PROVE  BatchesInFile'
  BY <1>1, <1>3 DEF AppendNothing, AppendConflict, BatchesInFile
<1>4. ASSUME NEW w \in Worker, NEW events \in Batches, AppendStart(w, events)
      PROVE  BatchesInFile'
  <2>1. Len(events) <= MaxBatch
    BY <1>0 DEF Batches
  <2>2. Len(recorded') = Len(events)
    <3> DEFINE s == call[w].stream
               v == LastVersion(mem, s)
    <3>1. s \in Stream /\ v \in Nat /\ recorded' = Versioned(s, v, events)
      BY <1>4, LastVersionType DEF AppendStart, Safe, Typed, TypeOK, Locking
    <3> HIDE DEF s, v
    <3>2. \A x \in Stream, n \in Nat, e \in Batches : Len(Versioned(x, n, e)) = Len(e)
      BY VersionedType
    <3> QED  BY <3>1, <3>2
  <2> QED  BY <1>1, <1>4, <2>1, <2>2 DEF AppendStart
<1>5. ASSUME NEW w \in Worker, Encode(w)
      PROVE  BatchesInFile'
  BY <1>5 DEF Encode, BatchesInFile
<1>6. ASSUME NEW w \in Worker, EncodeFails(w)
      PROVE  BatchesInFile'
  <2>1. up
    BY <1>6 DEF EncodeFails, Safe, Typed, Locking
  <2>2. syncFails = 0 => TailIsPart
    BY <2>1, WrittenIsPart DEF BatchesInFile, Safe, Typed, TypeOK
  <2>3. syncFails' = syncFails /\ (syncFails = 0 => TailIsPart')
    BY <1>6, <2>2 DEF EncodeFails, TailIsPart
  <2> QED  BY <1>0, <1>6, <2>3 DEF EncodeFails, Return, BatchesInFile
<1>7. ASSUME NEW w \in Worker, Fsync(w)
      PROVE  BatchesInFile'
  BY <1>1, <1>7 DEF Fsync, BatchesInFile
<1>8. ASSUME NEW w \in Worker, FsyncFails(w)
      PROVE  BatchesInFile'
  <2>1. syncFails' # 0
    BY <1>8 DEF FsyncFails, Safe, Typed, TypeOK
  <2> QED  BY <1>0, <1>8, <2>1 DEF FsyncFails, Return, BatchesInFile
<1>9. ASSUME NEW w \in Worker, Index(w)
      PROVE  BatchesInFile'
  <2>1. ~encErr
    <3>1. written # 0
      BY <1>9, EmptySeq DEF Index, Safe, Typed, TypeOK, Locking
    <3> QED  BY <3>1 DEF Safe, Typed, Locking
  <2> QED  BY <1>0, <1>9, <2>1 DEF Index, Return, BatchesInFile
<1>10. CASE Crash
  BY <1>0, <1>10 DEF Crash, BatchesInFile
<1>11. CASE Restart
  BY <1>11 DEF Restart, BatchesInFile, Safe, Typed, Locking
<1>12. CASE UNCHANGED vars
  BY <1>1, <1>12 DEF vars, BatchesInFile
<1> QED
  BY <1>2, <1>3, <1>4, <1>5, <1>6, <1>7, <1>8, <1>9, <1>10, <1>11, <1>12, NextCases

\* The log of the promise and its durable prefix.
Log == IF up THEN mem ELSE file
Durably == IF up /\ Len(mem) < synced THEN Len(mem) ELSE synced

\* The helpers mean the same to the promise.
LEMMA SameHelpers ==
  /\ \A m, s : Promise!LastVersion(m, s) = LastVersion(m, s)
  /\ \A s, v, events : Promise!Versioned(s, v, events) = Versioned(s, v, events)
  /\ Promise!Batches = Batches
BY DEF Promise!LastVersion, LastVersion, Promise!PositionsOf, PositionsOf,
       Promise!Versioned, Versioned, Promise!Batches, Batches

LEMMA StartsEmpty == Init => Promise!Init
BY EmptySeq DEF Init, Promise!Init

\* What a step of the promise is, of the mapped variables.
LEMMA PromiseSteps ==
  /\ \A s \in Stream, events \in Batches :
       up /\ up' = up /\ Log' = Log \o Versioned(s, LastVersion(Log, s), events)
          /\ Durably' = Len(Log') => Promise!Next
  /\ up /\ up' = up /\ Log' = Log /\ Durably' \in (Durably + 1)..Len(Log) => Promise!Next
  /\ \A k \in Durably..Len(Log) :
       up /\ up' = FALSE /\ Log' = SubSeq(Log, 1, k) /\ Durably' \in Durably..k => Promise!Next
  /\ \A s \in Stream, events \in Batches : \A k \in 1..Len(events) :
       up /\ up' = FALSE
          /\ Log' = Log \o SubSeq(Versioned(s, LastVersion(Log, s), events), 1, k)
          /\ Durably' \in Durably..Len(Log') => Promise!Next
  /\ ~up /\ up' = TRUE /\ Log' = Log /\ Durably' = Durably => Promise!Next
  /\ up' = up /\ Log' = Log /\ Durably' = Durably => UNCHANGED Promise!vars
<1> USE SameHelpers DEF Log, Durably
<1>1. ASSUME NEW s \in Stream, NEW events \in Batches, up, up' = up,
             Log' = Log \o Versioned(s, LastVersion(Log, s), events), Durably' = Len(Log')
      PROVE  Promise!Next
  BY <1>1 DEF Promise!Next, Promise!AppendBatch
<1>2. ASSUME up, up' = up, Log' = Log, Durably' \in (Durably + 1)..Len(Log)
      PROVE  Promise!Next
  BY <1>2 DEF Promise!Next, Promise!Harden
<1>3. ASSUME NEW k \in Durably..Len(Log), up, up' = FALSE, Log' = SubSeq(Log, 1, k),
             Durably' \in Durably..k
      PROVE  Promise!Next
  BY <1>3 DEF Promise!Next, Promise!LoseTail
<1>4. ASSUME NEW s \in Stream, NEW events \in Batches, NEW k \in 1..Len(events), up, up' = FALSE,
             Log' = Log \o SubSeq(Versioned(s, LastVersion(Log, s), events), 1, k),
             Durably' \in Durably..Len(Log')
      PROVE  Promise!Next
  BY <1>4 DEF Promise!Next, Promise!Partial
<1>5. ASSUME ~up, up' = TRUE, Log' = Log, Durably' = Durably
      PROVE  Promise!Next
  BY <1>5 DEF Promise!Next, Promise!Restart
<1>6. ASSUME up' = up, Log' = Log, Durably' = Durably
      PROVE  UNCHANGED Promise!vars
  BY <1>6 DEF Promise!vars
<1> QED  BY <1>1, <1>2, <1>3, <1>4, <1>5, <1>6

\* The flush makes the lines of earlier crashes durable that were not yet.
LEMMA FsyncHardens ==
  ASSUME Safe, IndexIsPrefix, BatchesInFile, syncFails = 0, NEW w \in Worker, Fsync(w)
  PROVE  Promise!Next \/ UNCHANGED Promise!vars
<1>1. /\ up' = up /\ mem' = mem /\ synced' = Len(file) /\ up
  BY DEF Fsync, Safe, Typed, Locking
<1>2. Len(mem) \in Nat /\ Len(file) \in Nat /\ synced \in Nat /\ synced <= Len(file)
  BY DEF Safe, Typed, TypeOK, Placed, WrittenIsTail
<1>3. Len(mem) <= Len(file)
  BY DEF IndexIsPrefix, BatchesInFile
<1>4. Log = mem /\ Log' = mem /\ Durably' = Len(mem)
  BY <1>1, <1>2, <1>3 DEF Log, Durably
<1>5. Durably \in Nat /\ Durably <= Len(mem)
  BY <1>1, <1>2 DEF Durably
<1>6. CASE Durably = Len(mem)
  BY <1>1, <1>4, <1>6, PromiseSteps
<1>7. CASE Durably # Len(mem)
  <2>1. Durably' \in (Durably + 1)..Len(Log)
    BY <1>2, <1>4, <1>5, <1>7
  <2> QED  BY <1>1, <1>4, <2>1, PromiseSteps
<1> QED  BY <1>6, <1>7

\* A successful Append is that of the promise.
LEMMA IndexAppends ==
  ASSUME Safe, IndexIsPrefix, BatchesInFile, syncFails = 0, NEW w \in Worker, Index(w)
  PROVE  Promise!Next
<1>1. /\ up' = up /\ mem' = mem \o recorded /\ synced' = synced /\ mutex = w
      /\ recorded # <<>> /\ written = Len(recorded) /\ synced = Len(file)
  BY DEF Index, Safe, Typed, Locking, Placed, WrittenIsTail
<1>2. /\ recorded \in Seq(Envelope) /\ mem \in Seq(Envelope)
      /\ Len(mem) \in Nat /\ Len(file) \in Nat /\ Len(recorded) \in Nat
  BY DEF Safe, Typed, TypeOK
<1>3. up /\ ~encErr
  <2>1. written # 0
    BY <1>1, <1>2, EmptySeq
  <2> QED  BY <2>1 DEF Index, Safe, Typed, Locking
<1>4. Len(file) = Len(mem) + Len(recorded)
  BY <1>1, <1>3 DEF IndexIsPrefix, BatchesInFile
<1>5. Len(mem') = Len(mem) + Len(recorded)
  BY <1>1, <1>2, ConcatProperties
<1>6. mutex # None
  BY <1>1, NoneAssumption
<1>7. PICK s \in Stream, events \in Batches : recorded = Versioned(s, LastVersion(mem, s), events)
  BY <1>1, <1>6, RecordedIsBatch
<1>8. Log = mem /\ Log' = mem' /\ Durably' = Len(Log')
  BY <1>1, <1>2, <1>3, <1>4, <1>5 DEF Log, Durably
<1> QED  BY <1>1, <1>3, <1>7, <1>8, PromiseSteps

\* A crash that hits the file within the index loses what was not durable;
\* one beyond it leaves the first lines of a batch.
LEMMA CrashIsAllowed ==
  ASSUME Safe, IndexIsPrefix, BatchesInFile, syncFails = 0, Crash
  PROVE  Promise!Next
<1>1. PICK k \in synced..Len(file) : file' = SubSeq(file, 1, k)
  BY DEF Crash
<1>2. /\ up /\ up' = FALSE /\ synced' = synced
  BY DEF Crash
<1>3. /\ file \in Seq(Envelope) /\ mem \in Seq(Envelope)
      /\ Len(file) \in Nat /\ Len(mem) \in Nat /\ synced \in Nat /\ synced <= Len(file)
      /\ k \in Nat /\ synced <= k /\ k <= Len(file)
  BY <1>1 DEF Safe, Typed, TypeOK, Placed, WrittenIsTail
<1>4. Len(mem) <= Len(file) /\ \A i \in 1..Len(mem) : mem[i] = file[i]
  BY DEF IndexIsPrefix, BatchesInFile
<1>5. Log = mem /\ Log' = file' /\ Durably' = synced
  BY <1>2 DEF Log, Durably
<1>6. /\ file' \in Seq(Envelope) /\ Len(file') = k
      /\ \A i \in 1..k : file'[i] = file[i]
  BY <1>1, <1>3, ElementOfSeq, SubSeqProperties
<1>7. Durably \in Nat /\ Durably <= synced
  BY <1>3 DEF Durably
<1>8. CASE k <= Len(mem)
  <2>1. /\ SubSeq(mem, 1, k) \in Seq(Envelope) /\ Len(SubSeq(mem, 1, k)) = k
        /\ \A i \in 1..k : SubSeq(mem, 1, k)[i] = mem[i]
    BY <1>3, <1>8, ElementOfSeq, SubSeqProperties
  <2>2. \A i \in 1..k : i \in 1..Len(mem)
    BY <1>3, <1>8
  <2>3. file' = SubSeq(mem, 1, k)
    BY <1>4, <1>6, <2>1, <2>2, SeqEqual
  <2>4. k \in Durably..Len(Log) /\ Durably' \in Durably..k
    BY <1>3, <1>5, <1>7, <1>8
  <2> QED  BY <1>2, <1>5, <2>3, <2>4, PromiseSteps
<1>9. CASE ~(k <= Len(mem))
  <2>1. TailIsPart
    BY <1>2, WrittenIsPart DEF BatchesInFile, Safe, Typed, TypeOK
  <2>2. PICK s \in Stream, events \in Batches :
          /\ Len(file) <= Len(mem) + Len(events)
          /\ \A i \in 1..(Len(file) - Len(mem)) :
               file[Len(mem) + i] = Versioned(s, LastVersion(mem, s), events)[i]
    BY <1>3, <1>9, <2>1 DEF TailIsPart
  <2> DEFINE batch == Versioned(s, LastVersion(mem, s), events)
             j == k - Len(mem)
  <2>3. LastVersion(mem, s) \in Nat
    BY <1>3, LastVersionType
  <2>4. batch \in Seq(Envelope) /\ Len(batch) = Len(events) /\ Len(events) \in Nat
    BY <2>3, VersionedType
  <2>5. j \in 1..Len(events) /\ j <= Len(file) - Len(mem) /\ k = Len(mem) + j
    BY <1>3, <1>9, <2>2, <2>4
  <2> HIDE DEF batch, j
  <2>6. /\ SubSeq(batch, 1, j) \in Seq(Envelope) /\ Len(SubSeq(batch, 1, j)) = j
        /\ \A i \in 1..j : SubSeq(batch, 1, j)[i] = batch[i]
    BY <2>4, <2>5, ElementOfSeq, SubSeqProperties
  <2> DEFINE new == mem \o SubSeq(batch, 1, j)
  <2>7. /\ new \in Seq(Envelope) /\ Len(new) = k
        /\ \A i \in 1..k : new[i] = IF i <= Len(mem) THEN mem[i] ELSE SubSeq(batch, 1, j)[i - Len(mem)]
    BY <1>3, <2>5, <2>6, ConcatProperties
  <2> HIDE DEF new
  <2>8. ASSUME NEW i \in 1..k
        PROVE  file'[i] = new[i]
    <3>1. CASE i <= Len(mem)
      BY <1>3, <1>4, <1>6, <2>7, <3>1
    <3>2. CASE ~(i <= Len(mem))
      <4> DEFINE q == i - Len(mem)
      <4>1. q \in 1..j /\ q \in 1..(Len(file) - Len(mem)) /\ i = Len(mem) + q
        BY <1>3, <2>5, <3>2
      <4> HIDE DEF q
      <4>2. file[i] = batch[q]
        BY <2>2, <4>1 DEF batch
      <4>3. new[i] = batch[q]
        BY <2>6, <2>7, <3>2, <4>1 DEF q
      <4> QED  BY <1>6, <4>2, <4>3
    <3> QED  BY <3>1, <3>2
  <2>9. file' = new
    BY <1>3, <1>6, <2>7, <2>8, SeqEqual
  <2>10. Durably' \in Durably..Len(Log')
    BY <1>3, <1>5, <1>6, <1>7
  <2> QED  BY <1>2, <1>5, <2>2, <2>5, <2>9, <2>10, PromiseSteps DEF batch, new
<1> QED  BY <1>8, <1>9

\* As long as no fsync has failed, every step of the store is one of the
\* promise, or nothing that its callers could see.
LEMMA StepsAreAllowed ==
  Safe /\ IndexIsPrefix /\ BatchesInFile /\ syncFails = 0 /\ [Next]_vars =>
    Promise!Next \/ UNCHANGED Promise!vars
<1> SUFFICES ASSUME Safe, IndexIsPrefix, BatchesInFile, syncFails = 0, [Next]_vars
             PROVE  Promise!Next \/ UNCHANGED Promise!vars
  OBVIOUS
<1>1. ASSUME up' = up, mem' = mem, synced' = synced, ~up => file' = file
      PROVE  UNCHANGED Promise!vars
  BY <1>1, PromiseSteps DEF Log, Durably
<1>2. ASSUME NEW w \in Worker, NEW s \in Stream, Load(w, s) \/ ExpectNew(w, s)
      PROVE  UNCHANGED Promise!vars
  BY <1>1, <1>2 DEF Load, ExpectNew
<1>3. ASSUME NEW w \in Worker, AppendNothing(w) \/ AppendConflict(w)
      PROVE  UNCHANGED Promise!vars
  BY <1>1, <1>3 DEF AppendNothing, AppendConflict
<1>4. ASSUME NEW w \in Worker, NEW events \in Batches, AppendStart(w, events)
      PROVE  UNCHANGED Promise!vars
  BY <1>1, <1>4 DEF AppendStart
<1>5. ASSUME NEW w \in Worker, Encode(w)
      PROVE  UNCHANGED Promise!vars
  BY <1>1, <1>5 DEF Encode, Safe, Typed, Locking
<1>6. ASSUME NEW w \in Worker, EncodeFails(w)
      PROVE  UNCHANGED Promise!vars
  BY <1>1, <1>6 DEF EncodeFails
<1>7. ASSUME NEW w \in Worker, FsyncFails(w)
      PROVE  UNCHANGED Promise!vars
  BY <1>1, <1>7 DEF FsyncFails
<1>8. CASE Restart
  <2>1. synced \in Nat /\ Len(file) \in Nat /\ synced <= Len(file)
    BY DEF Safe, Typed, TypeOK, Placed, WrittenIsTail
  <2>2. ~up /\ up' = TRUE /\ Log' = Log /\ Durably' = Durably
    BY <1>8, <2>1 DEF Restart, Log, Durably
  <2> QED  BY <2>2, PromiseSteps
<1>9. CASE UNCHANGED vars
  BY <1>1, <1>9 DEF vars
<1> QED
  BY <1>2, <1>3, <1>4, <1>5, <1>6, <1>7, <1>8, <1>9, FsyncHardens, IndexAppends,
     CrashIsAllowed, NextCases

\* The store keeps the promise of EventLog as long as no fsync has reported an
\* error: whole batches under the version check, and a crash loses nothing of
\* what a caller was told is stored.
THEOREM KeepsPromise == Spec => Implements
<1>1. Init => Safe /\ IndexIsPrefix /\ BatchesInFile
  BY TypedInit, PlacedInit, KeptInit, PrefixInit, BatchesInit DEF Safe
<1>2. Safe /\ IndexIsPrefix /\ BatchesInFile /\ [Next]_vars =>
        (Safe /\ IndexIsPrefix /\ BatchesInFile)'
  BY TypedNext, WrittenIsTailNext, NumberedNext, KeptNext, PrefixNext, BatchesNext
  DEF Safe, Placed
<1>3. Spec => [](Safe /\ IndexIsPrefix /\ BatchesInFile)
  BY <1>1, <1>2, PTL DEF Spec
<1>4. Safe /\ IndexIsPrefix /\ BatchesInFile /\ [Next]_vars =>
        [syncFails = 0 => Promise!Next]_(Promise!vars)
  BY StepsAreAllowed
<1>5. Spec => Promise!Init /\ [][syncFails = 0 => Promise!Next]_(Promise!vars)
  BY <1>3, <1>4, StartsEmpty, PTL DEF Spec
<1> QED  BY <1>5 DEF Implements
=============================================================================
