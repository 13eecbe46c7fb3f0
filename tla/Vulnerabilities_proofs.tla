------------------------ MODULE Vulnerabilities_proofs -------------------------
(***************************************************************************)
(* Safety of the vulnerability store, for all ids, requests, commands,     *)
(* buckets, errors and crashes: the inductive invariant and its proof.     *)
(***************************************************************************)
EXTENDS Vulnerabilities, VulnDomain_proofs, FiniteSetTheorems, SequenceTheorems, TLAPS

Path == Bucket \cup {None}
Content == Record \cup {NoFile, Torn}
Doc == [components : SUBSET Component, source : Source, ecosystems : SUBSET Ecosystem]
Steps == {"writing", "written", "stored"}

\* What a client holds at each place of a command.
Looked == [at : {"looked"}, id : Id, cmd : Command, path : Path]
Decided == [at : {"decided"}, id : Id, rec : Record]
Putting == [at : Steps, id : Id, rec : Record, to : Bucket, old : Path]

Typed ==
  /\ files \in [Id -> [Bucket -> Content]]
  /\ paths \in [Id -> Path]
  /\ search \in [Id -> Doc \cup {NoDoc}]
  /\ comp \subseteq Component \X Id
  /\ writer \in Client \cup {None}
  /\ request \in [Client -> {Idle} \cup Looked \cup Decided \cup Putting]
  /\ phase \in {"down", "migrating", "up"}
  /\ queue \in Seq(ToSet(LegacyOrder))
  /\ acked \in [Id -> Record \cup {NoRecord}]
  /\ tried \in [Id -> SUBSET Record]
  /\ damaged \subseteq Id /\ doubled \subseteq Id /\ unindexed \subseteq Id /\ touched \subseteq Id

\* One client at most is in Put, the one that holds the mutex; requests are
\* served when main is done with the migration.
Locking ==
  /\ \A c \in Client : writer = c <=> request[c].at \in Steps
  /\ phase # "up" => \A w \in Worker : request[w] = Idle
  /\ phase # "migrating" => request[Main] = Idle

\* The client in Put has truncated its file and goes by the path of before;
\* then it has written it, and the path is the new one.
PutGoesOn ==
  writer # None =>
    LET r == request[writer] IN
    /\ r.at = "writing" =>
         /\ files[r.id][r.to] = Torn /\ paths[r.id] = r.old
         /\ r.to = r.old => r.id \in damaged
    /\ r.at \in {"written", "stored"} => files[r.id][r.to] = r.rec /\ paths[r.id] = r.to

\* A Put on id has written its file.
Replaced(id) ==
  writer # None /\ request[writer].id = id /\ request[writer].at \in {"written", "stored"}

\* The path leads to what was acknowledged or tried since; while the service
\* is down there is no other file of the record it could lead to.
KeptOf(id) ==
  acked[id] # NoRecord /\ id \notin damaged \cup doubled =>
    /\ phase # "down" /\ ~Replaced(id) => Stored(id) \in {acked[id]} \cup tried[id]
    /\ phase = "down" =>
         \E b \in Bucket : Copies(id) = {b} /\ files[id][b] \in {acked[id]} \cup tried[id]

\* The path of a record leads to a torn file only if its only file is torn.
TornIsDamaged(id) == phase # "down" /\ Stored(id) = Torn => id \in damaged

\* The indexes know what the path of a live record leads to.
IndexKnows(id) ==
  phase # "down" /\ id \notin unindexed /\ ~Replaced(id) /\ Found(Stored(id)) # NoRecord =>
    /\ search[id] = DocOf(Stored(id))
    /\ \A c \in DOMAIN Stored(id).affected : <<c, id>> \in comp

Kept == \A id \in Id : KeptOf(id) /\ TornIsDamaged(id) /\ IndexKnows(id)

\* A stream of the legacy log is taken over.
Taken(id) == LegacyState(Legacy[id]) # NoRecord => acked[id] # NoRecord

\* Every stream is taken over, or it is still in the queue or being put, or a
\* Put has failed; the log goes when all are.
Migrating ==
  /\ troubles = {} /\ ~legacy => \A id \in ToSet(LegacyOrder) : Taken(id)
  /\ troubles = {} /\ phase = "migrating" =>
       \A id \in ToSet(LegacyOrder) :
         Taken(id) \/ id \in ToSet(queue) \/ (request[Main] # Idle /\ request[Main].id = id)
  /\ phase = "migrating" => legacy
  /\ phase = "up" /\ "rename" \notin troubles => ~legacy

\* As long as the legacy log is there no command has written.
NoneTouched == legacy /\ "rename" \notin troubles => touched = {}

\* Where a Put has not yet removed the record from.
Leftover(id) ==
  IF writer # None /\ request[writer].id = id /\ request[writer].at = "written"
  THEN {request[writer].old} ELSE {}

\* Unless a second file was left behind, the record is where its path leads or
\* where the Put under way has still to remove it; while the service is down it
\* is in one place.  And it is one that was acknowledged or tried.
FilesOf(id) ==
  id \notin doubled =>
    \A b \in Copies(id) :
      /\ files[id][b] \in {acked[id]} \cup tried[id] \cup InFlight(id)
      /\ phase # "down" => b \in {paths[id]} \cup Leftover(id)
      /\ phase = "down" => Copies(id) = {b}

\* A Get knows of the Put that runs into it; as long as none has, the path it
\* took is the path of the record.
GetOf(w) ==
  request[w].at = "looked" =>
    LET id == request[w].id
        content == ContentAt(id, request[w].path)
    IN
    /\ InFlight(id) \subseteq seen[w]
    /\ w \notin overtaken => InFlight(id) = {} /\ request[w].path = paths[id]
    /\ id \notin doubled /\ Readable(content) => content \in seen[w]

Reading ==
  /\ seen \in [Worker -> SUBSET (Record \cup {NoRecord})]
  /\ \A id \in Id : FilesOf(id)
  /\ \A w \in Worker : GetOf(w)

Safe ==
  /\ Typed /\ Locking /\ PutGoesOn /\ Kept /\ Migrating /\ NoneTouched /\ Reading
-----------------------------------------------------------------------------
(* What can be in a file and in the index.                                 *)

\* A record is neither a missing file, nor a torn one, nor no record at all.
LEMMA KindsDiffer ==
  /\ NoRecord \notin Record /\ NoFile \notin Record /\ Torn \notin Record
  /\ NoFile # Torn
<1>1. \A r \in Record : DOMAIN r = {"meta", "source", "deleted", "affected"}
  BY DEF Record
<1>2. DOMAIN NoRecord = {"kind"} /\ DOMAIN NoFile = {"kind"} /\ DOMAIN Torn = {"kind"}
  BY DEF NoRecord, NoFile, Torn
<1>3. {"meta", "source", "deleted", "affected"} # {"kind"}
  OBVIOUS
<1>4. NoFile # Torn
  <2>1. NoFile.kind = "no file" /\ Torn.kind = "torn"
    BY DEF NoFile, Torn
  <2> QED  BY <2>1
<1> QED  BY <1>1, <1>2, <1>3, <1>4

LEMMA DocType ==
  ASSUME NEW v \in Record
  PROVE  DocOf(v) \in Doc /\ DocOf(v) # NoDoc
<1>1. EcosystemsOf(v) \subseteq Ecosystem
  BY RecordFields DEF EcosystemsOf, AffectedRange
<1>2. DocOf(v) \in Doc
  BY <1>1, RecordFields DEF DocOf, Doc
<1>3. DOMAIN DocOf(v) = {"components", "source", "ecosystems"} /\ DOMAIN NoDoc = {"kind"}
  BY DEF DocOf, NoDoc
<1>4. {"components", "source", "ecosystems"} # {"kind"}
  OBVIOUS
<1> QED  BY <1>2, <1>3, <1>4
-----------------------------------------------------------------------------
(* What a client does, and where files are.                                *)

\* A client in Put holds the mutex and knows both places of the record.
LEMMA InPut ==
  ASSUME Typed, Locking, NEW w \in Client, request[w].at \in Steps
  PROVE  /\ writer = w /\ request[w] \in Putting
         /\ request[w].id \in Id /\ request[w].rec \in Record
         /\ request[w].to \in Bucket /\ request[w].old \in Path
<1>1. request[w] \in Putting
  BY DEF Typed, Idle, Looked, Decided, Steps
<1>2. writer = w
  BY DEF Locking
<1> QED  BY <1>1, <1>2 DEF Putting

LEMMA AtDecided ==
  ASSUME Typed, NEW w \in Client, request[w].at = "decided"
  PROVE  /\ request[w] \in Decided
         /\ request[w].id \in Id /\ request[w].rec \in Record
<1>1. request[w] \in Decided
  BY DEF Typed, Idle, Looked, Putting, Steps
<1> QED  BY <1>1 DEF Decided

LEMMA AtLooked ==
  ASSUME Typed, NEW w \in Client, request[w].at = "looked"
  PROVE  /\ request[w].id \in Id /\ request[w].cmd \in Command
         /\ request[w].path \in Path
<1>1. request[w] \in Looked
  <2>1. request[w] \in {Idle} \cup Looked \cup Decided \cup Putting
    BY DEF Typed
  <2>2. request[w] \notin Decided
    BY DEF Decided
  <2>3. request[w] \notin Putting
    BY DEF Putting, Steps
  <2> QED  BY <2>1, <2>2, <2>3 DEF Idle
<1> QED  BY <1>1 DEF Looked

LEMMA AtIdle ==
  ASSUME Typed, NEW w \in Client, request[w].at = "idle"
  PROVE  request[w] = Idle
BY DEF Typed, Looked, Decided, Putting, Steps

LEMMA ContentType ==
  ASSUME Typed, NEW id \in Id, NEW path \in Path
  PROVE  /\ ContentAt(id, path) \in Content
         /\ Readable(ContentAt(id, path)) => ContentAt(id, path) \in Record
         /\ Found(ContentAt(id, path)) \in Record \cup {NoRecord}
<1>1. ContentAt(id, path) \in Content
  <2>1. \A b \in Bucket : files[id][b] \in Content
    BY DEF Typed
  <2> QED  BY <2>1 DEF ContentAt, Content, Path
<1>2. Readable(ContentAt(id, path)) => ContentAt(id, path) \in Record
  BY <1>1 DEF Readable, Content
<1> QED  BY <1>1, <1>2 DEF Found

\* The bucket of a Put is one of the directories.
LEMMA RangeBucketType ==
  ASSUME Typed
  PROVE  RangeBucket \in Bucket
<1> DEFINE S == {id \in Id : paths[id] # None}
<1>1. IsFiniteSet(Id) /\ S \in SUBSET Id
  BY ClientAssumption
<1>2. Cardinality(S) \in Nat /\ Cardinality(Id) \in Nat /\ Cardinality(S) <= Cardinality(Id)
  BY <1>1, FS_Subset, FS_CardinalityType
<1>3. Cardinality(S) \in 0..Cardinality(Id)
  BY <1>2
<1>4. RangeBucket = (Cardinality(S) \div FilesPerRange) * FilesPerRange
  BY DEF RangeBucket
<1> HIDE DEF S
<1> QED  BY <1>3, <1>4, BucketAssumption

\* The buckets are finitely many.
LEMMA BucketsFinite ==
  IsFiniteSet(Bucket) /\ Bucket = {WalkOrder[i] : i \in DOMAIN WalkOrder} /\ None \notin Bucket
<1>1. Len(WalkOrder) \in Nat /\ DOMAIN WalkOrder = 1..Len(WalkOrder)
  BY BucketAssumption, LenProperties
<1>2. Bucket = {WalkOrder[i] : i \in DOMAIN WalkOrder}
  BY DEF Bucket, ToSet
<1>3. IsFiniteSet(DOMAIN WalkOrder)
  BY <1>1, FS_Interval
<1>4. WalkOrder \in Surjection(DOMAIN WalkOrder, Bucket)
  BY <1>2, BucketAssumption DEF Surjection
<1> QED  BY <1>2, <1>3, <1>4, FS_Surjection, BucketAssumption

LEMMA CopiesFinite ==
  ASSUME NEW id
  PROVE  /\ IsFiniteSet(Copies(id)) /\ Cardinality(Copies(id)) \in Nat
         /\ \A b \in Copies(id) : Cardinality(Copies(id)) > 1 \/ Copies(id) = {b}
<1>1. IsFiniteSet(Copies(id))
  BY BucketsFinite, FS_Subset DEF Copies
<1>2. Cardinality(Copies(id)) \in Nat
  BY <1>1, FS_CardinalityType
<1>3. ASSUME NEW b \in Copies(id), ~(Cardinality(Copies(id)) > 1)
      PROVE  Copies(id) = {b}
  <2>1. Cardinality(Copies(id)) # 0
    BY <1>1, FS_EmptySet
  <2>2. Cardinality(Copies(id)) = 1
    BY <1>2, <1>3, <2>1
  <2>3. PICK x : Copies(id) = {x}
    BY <1>1, <2>2, FS_Singleton
  <2> QED  BY <2>3
<1> QED  BY <1>1, <1>2, <1>3

\* There is a last place among those of some buckets in the walk.
LEMMA LastPlace ==
  ASSUME NEW n \in Nat, NEW S \in SUBSET (1..n), S # {}
  PROVE  Max(S) \in S /\ \A j \in S : j <= Max(S)
<1> DEFINE T == {n - i : i \in S}
<1>1. T \subseteq Nat /\ T # {}
  <2>1. \A i \in S : n - i \in Nat
    OBVIOUS
  <2>2. PICK i \in S : TRUE
    OBVIOUS
  <2> QED  BY <2>1, <2>2
<1>2. PICK t \in T : \A u \in T : ~ (<<u, t>> \in OpToRel(<, Nat))
  BY <1>1, NatLessThanWellFounded, WFMin, Zenon
<1>3. \A u \in T : ~ (u < t)
  BY <1>1, <1>2 DEF OpToRel
<1>4. PICK i \in S : t = n - i
  BY <1>2
<1>5. \A j \in S : i >= j
  BY <1>3, <1>4
<1>6. Max(S) \in S /\ \A j \in S : Max(S) >= j
  BY <1>5 DEF Max
<1> QED  BY <1>6

LEMMA LastOfIs ==
  ASSUME NEW S \in SUBSET Bucket, S # {}
  PROVE  /\ LastOf(S) \in S
         /\ \A T \in SUBSET S : LastOf(S) \in T => LastOf(T) = LastOf(S)
<1> DEFINE P(R) == {i \in DOMAIN WalkOrder : WalkOrder[i] \in R}
           n == Len(WalkOrder)
<1>1. n \in Nat /\ DOMAIN WalkOrder = 1..n
  BY BucketAssumption, LenProperties
<1>2. ASSUME NEW R \in SUBSET Bucket, R # {}
      PROVE  /\ Max(P(R)) \in P(R) /\ \A j \in P(R) : j <= Max(P(R))
             /\ P(R) \in SUBSET (1..n)
             /\ LastOf(R) = WalkOrder[Max(P(R))] /\ LastOf(R) \in R
  <2>1. PICK b \in R : TRUE
    BY <1>2
  <2>2. PICK i \in DOMAIN WalkOrder : b = WalkOrder[i]
    BY <2>1, BucketsFinite
  <2>3. P(R) \in SUBSET (1..n) /\ P(R) # {}
    BY <1>1, <2>1, <2>2
  <2>4. Max(P(R)) \in P(R) /\ \A j \in P(R) : j <= Max(P(R))
    <3> HIDE DEF P
    <3> QED  BY <1>1, <2>3, LastPlace
  <2>5. LastOf(R) = WalkOrder[Max(P(R))]
    BY DEF LastOf
  <2>6. WalkOrder[Max(P(R))] \in R
    BY <2>4
  <2> QED  BY <2>3, <2>4, <2>5, <2>6
<1>3. ASSUME NEW T \in SUBSET S, LastOf(S) \in T
      PROVE  LastOf(T) = LastOf(S)
  <2>1. T \in SUBSET Bucket /\ T # {}
    BY <1>3
  <2>2. P(T) \subseteq P(S) /\ Max(P(S)) \in P(T)
    BY <1>2, <1>3
  <2>3. Max(P(T)) = Max(P(S))
    <3>1. Max(P(T)) \in P(T) /\ \A j \in P(T) : j <= Max(P(T))
      BY <1>2, <2>1
    <3>2. \A j \in P(S) : j <= Max(P(S))
      BY <1>2
    <3>3. Max(P(T)) \in Nat /\ Max(P(S)) \in Nat
      <4>1. Max(P(T)) \in 1..n /\ Max(P(S)) \in 1..n
        BY <1>2, <2>1
      <4> QED  BY <1>1, <4>1
    <3> HIDE DEF P
    <3> QED  BY <2>2, <3>1, <3>2, <3>3
  <2> QED  BY <1>2, <2>1, <2>3
<1> QED  BY <1>2, <1>3
-----------------------------------------------------------------------------
(* Types.                                                                  *)

LEMMA TypedInit == Init => Typed
<1> SUFFICES ASSUME Init
             PROVE  Typed
  OBVIOUS
<1>1. files \in [Id -> [Bucket -> Content]]
  BY DEF Init, Content
<1>2. paths \in [Id -> Path] /\ search \in [Id -> Doc \cup {NoDoc}] /\ comp \subseteq Component \X Id
  BY DEF Init, Path
<1>3. request \in [Client -> {Idle} \cup Looked \cup Decided \cup Putting]
  BY DEF Init
<1>4. queue \in Seq(ToSet(LegacyOrder))
  BY EmptySeq DEF Init
<1>5. acked \in [Id -> Record \cup {NoRecord}] /\ tried \in [Id -> SUBSET Record]
  BY DEF Init
<1> QED  BY <1>1, <1>2, <1>3, <1>4, <1>5 DEF Init, Typed

\* A new request of one client is all that changes about requests.
LEMMA RequestType ==
  ASSUME Typed, NEW w \in Client, NEW r \in {Idle} \cup Looked \cup Decided \cup Putting,
         request' = [request EXCEPT ![w] = r]
  PROVE  /\ request' \in [Client -> {Idle} \cup Looked \cup Decided \cup Putting]
         /\ request'[w] = r
         /\ \A c \in Client : c # w => request'[c] = request[c]
BY DEF Typed

\* The record of a Put that has ended with an error may be what is stored.
LEMMA TriedType ==
  ASSUME Typed, NEW id \in Id, NEW rec \in Record,
         tried' = [tried EXCEPT ![id] = @ \cup {rec}]
  PROVE  /\ tried' \in [Id -> SUBSET Record]
         /\ tried'[id] = tried[id] \cup {rec}
         /\ \A x \in Id : x # id => tried'[x] = tried[x]
BY DEF Typed

LEMMA QueueType ==
  ASSUME Typed
  PROVE  /\ <<>> \in Seq(ToSet(LegacyOrder))
         /\ LegacyOrder \in Seq(ToSet(LegacyOrder))
         /\ queue # <<>> => /\ Head(queue) \in ToSet(LegacyOrder) /\ Head(queue) \in Id
                            /\ Tail(queue) \in Seq(ToSet(LegacyOrder))
                            /\ ToSet(queue) \subseteq ToSet(Tail(queue)) \cup {Head(queue)}
<1>1. <<>> \in Seq(ToSet(LegacyOrder))
  BY EmptySeq
<1>2. Len(LegacyOrder) \in Nat /\ DOMAIN LegacyOrder = 1..Len(LegacyOrder)
        /\ LegacyOrder \in [1..Len(LegacyOrder) -> Id]
  BY LegacyAssumption, LenProperties
<1>3. ToSet(LegacyOrder) \subseteq Id
  BY <1>2 DEF ToSet
<1>4. LegacyOrder \in Seq(ToSet(LegacyOrder))
  <2>1. LegacyOrder \in [1..Len(LegacyOrder) -> ToSet(LegacyOrder)]
    BY <1>2 DEF ToSet
  <2> QED  BY <1>2, <2>1, SeqDef
<1>5. ASSUME queue # <<>>
      PROVE  /\ Head(queue) \in ToSet(LegacyOrder) /\ Head(queue) \in Id
             /\ Tail(queue) \in Seq(ToSet(LegacyOrder))
             /\ ToSet(queue) \subseteq ToSet(Tail(queue)) \cup {Head(queue)}
  <2> DEFINE T == ToSet(LegacyOrder)
  <2>1. queue \in Seq(T) /\ ToSet(LegacyOrder) \subseteq Id
    BY <1>3 DEF Typed
  <2>2. Head(queue) \in T /\ Tail(queue) \in Seq(T)
    BY <1>5, <2>1, HeadTailProperties
  <2>3. ToSet(queue) \subseteq ToSet(Tail(queue)) \cup {Head(queue)}
    <3> HIDE DEF T
    <3> SUFFICES ASSUME NEW i \in DOMAIN queue
                 PROVE  queue[i] \in ToSet(Tail(queue)) \cup {Head(queue)}
      BY DEF ToSet
    <3>1. /\ Head(queue) = queue[1] /\ Len(queue) \in Nat /\ DOMAIN queue = 1..Len(queue)
          /\ DOMAIN Tail(queue) = 1..(Len(queue) - 1)
          /\ \A j \in 1..(Len(queue) - 1) : Tail(queue)[j] = queue[j + 1]
      BY <1>5, <2>1
    <3>2. CASE i = 1
      BY <3>1, <3>2
    <3>3. CASE i # 1
      <4>1. i - 1 \in 1..(Len(queue) - 1) /\ (i - 1) + 1 = i
        BY <3>1, <3>3
      <4>2. Tail(queue)[i - 1] = queue[i]
        BY <3>1, <4>1
      <4> QED  BY <3>1, <4>1, <4>2 DEF ToSet
    <3> QED  BY <3>2, <3>3
  <2> QED  BY <2>1, <2>2, <2>3
<1> QED  BY <1>1, <1>4, <1>5

\* Where the last copy is.
LEMMA LastCopy ==
  ASSUME Typed, NEW id \in Id
  PROVE  /\ Copies(id) # {} => LastOf(Copies(id)) \in Copies(id) /\ LastOf(Copies(id)) \in Bucket
         /\ LiveCopies(id) # {} =>
              /\ LastOf(LiveCopies(id)) \in LiveCopies(id)
              /\ LastOf(LiveCopies(id)) \in Bucket
              /\ files[id][LastOf(LiveCopies(id))] \in Record
         /\ \A b \in Copies(id) : b \in Bucket /\ files[id][b] \in Record
<1>1. Copies(id) \in SUBSET Bucket /\ LiveCopies(id) \in SUBSET Copies(id)
  BY DEF Copies, LiveCopies
<1>2. \A b \in Copies(id) : b \in Bucket /\ files[id][b] \in Record
  BY DEF Typed, Copies, Readable, Content
<1>3. Copies(id) # {} => LastOf(Copies(id)) \in Copies(id)
  BY <1>1, LastOfIs
<1>4. LiveCopies(id) # {} => LastOf(LiveCopies(id)) \in LiveCopies(id)
  <2>1. LiveCopies(id) \in SUBSET Bucket
    BY <1>1
  <2> QED  BY <2>1, LastOfIs
<1> QED  BY <1>1, <1>2, <1>3, <1>4

LEMMA RebuiltType ==
  ASSUME Typed, Rebuilt
  PROVE  /\ paths' \in [Id -> Path] /\ search' \in [Id -> Doc \cup {NoDoc}]
         /\ comp' \subseteq Component \X Id
<1>1. paths' \in [Id -> Path]
  BY LastCopy DEF Rebuilt, PathsRebuilt, Path
<1>2. search' \in [Id -> Doc \cup {NoDoc}]
  <2>1. ASSUME NEW id \in Id, LiveCopies(id) # {}
        PROVE  DocOf(files[id][LastOf(LiveCopies(id))]) \in Doc
    BY <2>1, LastCopy, DocType
  <2>2. \A id \in Id : search[id] \in Doc \cup {NoDoc}
    BY DEF Typed
  <2> QED  BY <2>1, <2>2 DEF Rebuilt
<1>3. comp' \subseteq Component \X Id
  BY DEF Rebuilt, ComponentsRebuilt
<1> QED  BY <1>1, <1>2, <1>3

\* One step of Put gives the file a new content.
LEMMA FileType ==
  ASSUME Typed, NEW id \in Id, NEW b \in Bucket, NEW x \in Content,
         files' = [files EXCEPT ![id][b] = x]
  PROVE  /\ files' \in [Id -> [Bucket -> Content]]
         /\ files'[id][b] = x
         /\ \A c \in Bucket : c # b => files'[id][c] = files[id][c]
         /\ \A y \in Id : y # id => files'[y] = files[y]
BY DEF Typed

LEMMA TypedNext ==
  ASSUME Typed, Locking, Next
  PROVE  Typed'
<1> USE DEF Typed
<1>1. ASSUME NEW w \in Worker, NEW id \in Id, NEW cmd \in Commands, Lookup(w, id, cmd)
      PROVE  Typed'
  <2> DEFINE r == [at |-> "looked", id |-> id, cmd |-> cmd, path |-> paths[id]]
  <2>1. r \in Looked /\ w \in Client
    BY CommandsAssumption DEF Looked, Client
  <2>2. request' = [request EXCEPT ![w] = r]
    BY <1>1 DEF Lookup
  <2> HIDE DEF r
  <2>3. request' \in [Client -> {Idle} \cup Looked \cup Decided \cup Putting]
    BY <2>1, <2>2, RequestType
  <2> QED  BY <1>1, <2>3 DEF Lookup, disk, memory, history
<1>2. ASSUME NEW w \in Worker, ReadAndDecide(w)
      PROVE  Typed'
  <2> DEFINE v == Found(ContentAt(request[w].id, request[w].path))
             r == [at |-> "decided", id |-> request[w].id, rec |-> Result(v, request[w].cmd)]
  <2>1. w \in Client /\ request[w].at = "looked" /\ Accepts(v, request[w].cmd)
    BY <1>2 DEF ReadAndDecide, Client
  <2>2. /\ request[w].id \in Id /\ request[w].cmd \in Command /\ request[w].path \in Path
    BY <2>1, AtLooked
  <2>3. v \in Record \cup {NoRecord}
    BY <2>2, ContentType
  <2>4. Result(v, request[w].cmd) \in Record
    <3> HIDE DEF v
    <3> QED  BY <2>1, <2>2, <2>3, ResultType
  <2>5. r \in Decided
    BY <2>2, <2>4 DEF Decided
  <2>6. request' = [request EXCEPT ![w] = r]
    BY <1>2 DEF ReadAndDecide
  <2> HIDE DEF r
  <2>7. request' \in [Client -> {Idle} \cup Looked \cup Decided \cup Putting]
    BY <2>1, <2>5, <2>6, RequestType
  <2> QED  BY <1>2, <2>7 DEF ReadAndDecide, disk, memory, history
<1>3. ASSUME NEW w \in Worker, ReadAndRefuse(w)
      PROVE  Typed'
  <2>1. request' \in [Client -> {Idle} \cup Looked \cup Decided \cup Putting]
    BY <1>3, RequestType DEF ReadAndRefuse, Client
  <2> QED  BY <1>3, <2>1 DEF ReadAndRefuse, disk, memory, history
<1>4. ASSUME NEW w \in Client, PutStart(w)
      PROVE  Typed'
  <2> DEFINE r == [at |-> "writing", id |-> request[w].id, rec |-> request[w].rec,
                   to |-> RangeBucket, old |-> paths[request[w].id]]
  <2>1. request[w].id \in Id /\ request[w].rec \in Record /\ RangeBucket \in Bucket
    BY <1>4, AtDecided, RangeBucketType DEF PutStart
  <2>2. r \in Putting
    BY <2>1 DEF Putting, Steps
  <2>3. request' = [request EXCEPT ![w] = r]
    BY <1>4 DEF PutStart
  <2> HIDE DEF r
  <2>4. request' \in [Client -> {Idle} \cup Looked \cup Decided \cup Putting]
    BY <2>2, <2>3, RequestType
  <2>5. files' \in [Id -> [Bucket -> Content]]
    BY <1>4, <2>1, FileType DEF PutStart, Content
  <2>6. damaged' \subseteq Id
    BY <1>4, <2>1 DEF PutStart
  <2> QED  BY <1>4, <2>4, <2>5, <2>6 DEF PutStart, memory
<1>5. ASSUME NEW w \in Client, Failed(w), request[w].id \in Id, request[w].rec \in Record,
             UNCHANGED <<disk, memory, phase, acked, damaged, doubled, touched>>,
             unindexed' \in {unindexed, unindexed \cup {request[w].id}}
      PROVE  Typed'
  <2>1. request' \in [Client -> {Idle} \cup Looked \cup Decided \cup Putting]
    BY <1>5, RequestType DEF Failed
  <2>2. tried' \in [Id -> SUBSET Record]
    BY <1>5, TriedType DEF Failed
  <2>3. queue' \in Seq(ToSet(LegacyOrder))
    BY <1>5, QueueType DEF Failed
  <2>4. unindexed' \subseteq Id
    BY <1>5
  <2> QED  BY <1>5, <2>1, <2>2, <2>3, <2>4 DEF Failed, disk, memory
<1>6. ASSUME NEW w \in Client, PutRefused(w)
      PROVE  Typed'
  <2>1. request[w].id \in Id /\ request[w].rec \in Record
    BY <1>6, AtDecided DEF PutRefused
  <2> QED  BY <1>5, <1>6, <2>1 DEF PutRefused
<1>7. ASSUME NEW w \in Client, WriteFails(w)
      PROVE  Typed'
  <2>1. request[w].id \in Id /\ request[w].rec \in Record
    BY <1>7, InPut DEF WriteFails, Steps
  <2> QED  BY <1>5, <1>7, <2>1 DEF WriteFails
<1>8. ASSUME NEW w \in Client, IndexFails(w)
      PROVE  Typed'
  <2>1. request[w].id \in Id /\ request[w].rec \in Record
    BY <1>8, InPut DEF IndexFails, Steps
  <2> QED  BY <1>5, <1>8, <2>1 DEF IndexFails
<1>9. ASSUME NEW w \in Client, Write(w)
      PROVE  Typed'
  <2>1. /\ request[w] \in Putting /\ request[w].id \in Id /\ request[w].rec \in Record
        /\ request[w].to \in Bucket
    BY <1>9, InPut DEF Write, Steps
  <2>2. [request[w] EXCEPT !.at = "written"] \in Putting
    BY <2>1 DEF Putting, Steps
  <2>3. request' \in [Client -> {Idle} \cup Looked \cup Decided \cup Putting]
    BY <1>9, <2>2, RequestType DEF Write
  <2>4. files' \in [Id -> [Bucket -> Content]]
    BY <1>9, <2>1, FileType DEF Write, Content
  <2>5. paths' \in [Id -> Path]
    BY <1>9, <2>1 DEF Write, Path
  <2>6. touched' \subseteq Id /\ damaged' \subseteq Id
    BY <1>9, <2>1 DEF Write
  <2> QED  BY <1>9, <2>3, <2>4, <2>5, <2>6 DEF Write
<1>10. ASSUME NEW w \in Client, RemoveOld(w)
       PROVE  Typed'
  <2>1. /\ request[w] \in Putting /\ request[w].id \in Id /\ request[w].old \in Path
    BY <1>10, InPut DEF RemoveOld, Steps
  <2>2. [request[w] EXCEPT !.at = "stored"] \in Putting
    BY <2>1 DEF Putting, Steps
  <2>3. request' \in [Client -> {Idle} \cup Looked \cup Decided \cup Putting]
    BY <1>10, <2>2, RequestType DEF RemoveOld
  <2>4. files' \in [Id -> [Bucket -> Content]]
    <3>1. CASE files' = files
      BY <3>1
    <3>2. CASE request[w].old # None /\ files' = [files EXCEPT ![request[w].id][request[w].old] = NoFile]
      BY <2>1, <3>2, FileType DEF Content, Path
    <3> QED  BY <1>10, <3>1, <3>2 DEF RemoveOld
  <2> QED  BY <1>10, <2>3, <2>4 DEF RemoveOld, memory, history
<1>11. ASSUME NEW w \in Client, RemoveFails(w)
       PROVE  Typed'
  <2>1. /\ request[w] \in Putting /\ request[w].id \in Id
    BY <1>11, InPut DEF RemoveFails, Steps
  <2>2. [request[w] EXCEPT !.at = "stored"] \in Putting
    BY <2>1 DEF Putting, Steps
  <2>3. request' \in [Client -> {Idle} \cup Looked \cup Decided \cup Putting]
    BY <1>11, <2>2, RequestType DEF RemoveFails
  <2> QED  BY <1>11, <2>1, <2>3 DEF RemoveFails, disk, memory
<1>12. ASSUME NEW w \in Client, Index(w)
       PROVE  Typed'
  <2>1. request[w].id \in Id /\ request[w].rec \in Record
    BY <1>12, InPut DEF Index, Steps
  <2>2. request' \in [Client -> {Idle} \cup Looked \cup Decided \cup Putting]
    BY <1>12, RequestType DEF Index
  <2>3. search' \in [Id -> Doc \cup {NoDoc}]
    BY <1>12, <2>1, DocType DEF Index, Indexed
  <2>4. comp' \subseteq Component \X Id
    BY <1>12, <2>1, RecordFields DEF Index, Indexed
  <2>5. acked' \in [Id -> Record \cup {NoRecord}] /\ tried' \in [Id -> SUBSET Record]
    BY <1>12, <2>1 DEF Index
  <2>6. doubled' \subseteq Id /\ unindexed' \subseteq Id
    BY <1>12 DEF Index
  <2> QED  BY <1>12, <2>2, <2>3, <2>4, <2>5, <2>6 DEF Index
<1>13. CASE Search
  BY <1>13 DEF Search, vars, disk, memory, history
<1>14. CASE MigrateNext
  <2> DEFINE state == LegacyState(Legacy[Head(queue)])
             r == IF state = NoRecord THEN Idle
                  ELSE [at |-> "decided", id |-> Head(queue), rec |-> state]
  <2>1. Head(queue) \in ToSet(LegacyOrder) /\ Head(queue) \in Id
          /\ Tail(queue) \in Seq(ToSet(LegacyOrder))
    BY <1>14, QueueType DEF MigrateNext
  <2>2. state \in Record \cup {NoRecord}
    BY <2>1, LegacyAssumption
  <2>3. r \in {Idle} \cup Decided
    <3> HIDE DEF state
    <3> QED  BY <2>1, <2>2 DEF Decided
  <2>4. request' = [request EXCEPT ![Main] = r] /\ Main \in Client
    BY <1>14 DEF MigrateNext, Client
  <2> HIDE DEF r
  <2>5. request' \in [Client -> {Idle} \cup Looked \cup Decided \cup Putting]
    BY <2>3, <2>4, RequestType
  <2> QED  BY <1>14, <2>1, <2>5 DEF MigrateNext, disk, memory, history
<1>15. CASE Rename
  BY <1>15 DEF Rename, memory, history
<1>16. CASE RenameFails
  BY <1>16 DEF RenameFails, disk, memory
<1>17. CASE Restart
  <2>1. /\ paths' \in [Id -> Path] /\ search' \in [Id -> Doc \cup {NoDoc}]
        /\ comp' \subseteq Component \X Id
    BY <1>17, RebuiltType DEF Restart
  <2>2. queue' \in Seq(ToSet(LegacyOrder))
    BY <1>17, QueueType DEF Restart
  <2>3. phase' \in {"down", "migrating", "up"} /\ unindexed' \subseteq Id
    BY <1>17 DEF Restart
  <2> QED  BY <1>17, <2>1, <2>2, <2>3 DEF Restart
<1>18. CASE Crash
  <2>1. request' \in [Client -> {Idle} \cup Looked \cup Decided \cup Putting]
    BY <1>18 DEF Crash
  <2>2. tried' \in [Id -> SUBSET Record]
    <3>1. \A c \in Client : request[c].at \in Steps => request[c].rec \in Record
      BY InPut
    <3>2. \A id \in Id : tried'[id] = tried[id] \cup
             {request[c].rec : c \in {d \in Client : request[d].at \in Steps /\ request[d].id = id}}
      BY <1>18 DEF Crash, Steps
    <3>3. DOMAIN tried' = Id /\ tried' = [id \in Id |-> tried'[id]]
      BY <1>18 DEF Crash
    <3> QED  BY <3>1, <3>2, <3>3
  <2>3. doubled' \subseteq Id
    BY <1>18 DEF Crash
  <2>4. queue' \in Seq(ToSet(LegacyOrder))
    BY <1>18, QueueType DEF Crash
  <2>5. paths' \in [Id -> Path] /\ comp' = {} /\ phase' = "down" /\ writer' = None
    BY <1>18 DEF Crash, Path
  <2> QED  BY <1>18, <2>1, <2>2, <2>3, <2>4, <2>5 DEF Crash, disk
<1> QED
  BY <1>1, <1>2, <1>3, <1>4, <1>6, <1>7, <1>8, <1>9, <1>10, <1>11, <1>12, <1>13, <1>14,
     <1>15, <1>16, <1>17, <1>18 DEF Next
-----------------------------------------------------------------------------
(* The lock.                                                               *)

\* A client that goes on with what it has begun keeps the lock in order.
LEMMA LockingStep ==
  ASSUME Typed, Locking, NEW w \in Client, NEW r,
         request' = [request EXCEPT ![w] = r], phase' = phase,
         r = Idle \/ request[w] # Idle,
         writer' = w <=> r.at \in Steps,
         \A c \in Client : c # w => (writer' = c <=> writer = c)
  PROVE  Locking'
<1>1. request'[w] = r /\ \A c \in Client : c # w => request'[c] = request[c]
  BY DEF Typed
<1>2. Main \in Client /\ \A x \in Worker : x \in Client
  BY DEF Client
<1>3. \A c \in Client : writer' = c <=> request'[c].at \in Steps
  BY <1>1 DEF Locking
<1>4. \A c \in Client : request[c] = Idle => request'[c] = Idle
  <2>1. request[w] = Idle => request'[w] = Idle
    BY <1>1
  <2> QED  BY <1>1, <2>1
<1> QED  BY <1>2, <1>3, <1>4 DEF Locking

LEMMA LockingInit == Init => Locking
BY ClientAssumption DEF Init, Locking, Idle, Steps, Client

LEMMA LockingNext ==
  ASSUME Typed, Locking, Next
  PROVE  Locking'
<1>0. Idle.at = "idle" /\ Idle.at \notin Steps /\ None \notin Client
  BY ClientAssumption DEF Idle, Steps
<1>1. ASSUME NEW w \in Worker, NEW id \in Id, NEW cmd \in Commands, Lookup(w, id, cmd)
      PROVE  Locking'
  <2> DEFINE r == [at |-> "looked", id |-> id, cmd |-> cmd, path |-> paths[id]]
  <2>1. /\ w \in Client /\ w # Main /\ phase' = "up" /\ phase = "up" /\ writer' = writer
        /\ request' = [request EXCEPT ![w] = r] /\ request[w].at = "idle"
    BY <1>1, ClientAssumption DEF Lookup, Client
  <2>2. request'[w] = r /\ \A c \in Client : c # w => request'[c] = request[c]
    <3> HIDE DEF r
    <3> QED  BY <2>1 DEF Typed
  <2>3. r.at \notin Steps /\ request[w].at \notin Steps
    BY <2>1 DEF Steps
  <2> HIDE DEF r
  <2>4. Main \in Client
    BY DEF Client
  <2> QED  BY <2>1, <2>2, <2>3, <2>4 DEF Locking
<1>2. ASSUME NEW w \in Worker, ReadAndDecide(w)
      PROVE  Locking'
  <2> DEFINE v == Found(ContentAt(request[w].id, request[w].path))
             r == [at |-> "decided", id |-> request[w].id, rec |-> Result(v, request[w].cmd)]
  <2>1. /\ w \in Client /\ phase' = phase /\ writer' = writer
        /\ request' = [request EXCEPT ![w] = r] /\ request[w].at = "looked"
    BY <1>2 DEF ReadAndDecide, Client, history
  <2>2. r.at \notin Steps /\ writer # w /\ request[w] # Idle
    BY <1>0, <2>1 DEF Steps, Locking
  <2> HIDE DEF r
  <2> QED  BY <2>1, <2>2, LockingStep
<1>3. ASSUME NEW w \in Worker, ReadAndRefuse(w)
      PROVE  Locking'
  <2>1. /\ w \in Client /\ phase' = phase /\ writer' = writer
        /\ request' = [request EXCEPT ![w] = Idle] /\ request[w].at = "looked"
    BY <1>3 DEF ReadAndRefuse, Client
  <2>2. writer # w
    BY <2>1 DEF Steps, Locking
  <2> QED  BY <1>0, <2>1, <2>2, LockingStep
<1>4. ASSUME NEW w \in Client, PutStart(w)
      PROVE  Locking'
  <2> DEFINE r == [at |-> "writing", id |-> request[w].id, rec |-> request[w].rec,
                   to |-> RangeBucket, old |-> paths[request[w].id]]
  <2>1. /\ phase' = phase /\ writer = None /\ writer' = w /\ request[w].at = "decided"
        /\ request' = [request EXCEPT ![w] = r]
    BY <1>4 DEF PutStart
  <2>2. r.at \in Steps /\ request[w] # Idle
    BY <1>0, <2>1 DEF Steps
  <2> HIDE DEF r
  <2> QED  BY <1>0, <2>1, <2>2, LockingStep
<1>5. ASSUME NEW w \in Client, phase' = phase, writer \in {w, None}, writer' = None,
             request' = [request EXCEPT ![w] = Idle]
      PROVE  Locking'
  BY <1>0, <1>5, LockingStep
<1>6. ASSUME NEW w \in Client, NEW r, phase' = phase, writer' = writer,
             request' = [request EXCEPT ![w] = r], request[w].at \in Steps, r.at \in Steps
      PROVE  Locking'
  <2>1. writer = w /\ request[w] # Idle
    BY <1>0, <1>6 DEF Locking
  <2> QED  BY <1>6, <2>1, LockingStep
<1>7. \A w \in Client : PutRefused(w) => Locking'
  BY <1>5 DEF PutRefused, Failed
<1>8. \A w \in Client : WriteFails(w) => Locking'
  BY <1>5, InPut DEF WriteFails, Failed, Steps
<1>9. \A w \in Client : IndexFails(w) => Locking'
  BY <1>5, InPut DEF IndexFails, Failed, Steps
<1>10. \A w \in Client : Index(w) => Locking'
  BY <1>5, InPut DEF Index, Steps
<1>11. ASSUME NEW w \in Client, NEW to \in {"written", "stored"}, phase' = phase, writer' = writer,
              request[w].at \in Steps, request' = [request EXCEPT ![w] = [request[w] EXCEPT !.at = to]]
       PROVE  Locking'
  <2>1. request[w] \in Putting
    BY <1>11, InPut
  <2>2. [request[w] EXCEPT !.at = to].at \in Steps
    BY <2>1 DEF Putting, Steps
  <2> QED  BY <1>6, <1>11, <2>2
<1>12. \A w \in Client : Write(w) => Locking'
  BY <1>11 DEF Write, Steps
<1>13. \A w \in Client : RemoveOld(w) => Locking'
  BY <1>11 DEF RemoveOld, Steps
<1>14. \A w \in Client : RemoveFails(w) => Locking'
  BY <1>11 DEF RemoveFails, Steps
<1>15. CASE Search
  BY <1>15 DEF Search, vars, Locking
<1>16. CASE MigrateNext
  <2> DEFINE state == LegacyState(Legacy[Head(queue)])
             r == IF state = NoRecord THEN Idle
                  ELSE [at |-> "decided", id |-> Head(queue), rec |-> state]
  <2>1. /\ Main \in Client /\ phase' = phase /\ phase = "migrating" /\ writer' = writer
        /\ request' = [request EXCEPT ![Main] = r] /\ request[Main].at = "idle"
    BY <1>16 DEF MigrateNext, Client, history
  <2>2. r.at \notin Steps /\ request[Main].at \notin Steps
    BY <1>0, <2>1 DEF Steps
  <2> HIDE DEF r
  <2>3. request'[Main] = r /\ \A c \in Client : c # Main => request'[c] = request[c]
    BY <2>1 DEF Typed
  <2>4. \A w \in Worker : w \in Client /\ w # Main
    BY ClientAssumption DEF Client
  <2> QED  BY <2>1, <2>2, <2>3, <2>4 DEF Locking
<1>17. ASSUME Migrated, UNCHANGED <<writer, request>>, phase' = "up"
       PROVE  Locking'
  BY <1>17, AtIdle DEF Migrated, Locking, Client
<1>18. CASE Rename
  BY <1>17, <1>18 DEF Rename
<1>19. CASE RenameFails
  BY <1>17, <1>19 DEF RenameFails
<1>20. CASE Restart
  BY <1>20 DEF Restart, Locking
<1>21. CASE Crash
  BY <1>0, <1>21 DEF Crash, Locking, Client
<1> QED
  BY <1>1, <1>2, <1>3, <1>4, <1>7, <1>8, <1>9, <1>10, <1>12, <1>13, <1>14, <1>15, <1>16,
     <1>18, <1>19, <1>20, <1>21 DEF Next
-----------------------------------------------------------------------------
(* What stays as it is.                                                    *)

\* A step that changes nothing a Put or a read is about.
Aside ==
  /\ UNCHANGED <<files, paths, search, comp, writer, acked, tried, damaged, doubled, unindexed>>
  /\ phase' = "down" <=> phase = "down"
  /\ writer # None => request'[writer] = request[writer]

LEMMA AsideKeeps ==
  ASSUME PutGoesOn, Kept, Aside
  PROVE  PutGoesOn' /\ Kept'
<1> USE DEF Aside
<1>1. PutGoesOn'
  BY DEF PutGoesOn
<1>2. ASSUME NEW id \in Id
      PROVE  KeptOf(id)' /\ TornIsDamaged(id)' /\ IndexKnows(id)'
  <2>1. Replaced(id)' <=> Replaced(id)
    BY DEF Replaced
  <2>2. Stored(id)' = Stored(id) /\ Copies(id)' = Copies(id)
    BY DEF Stored, ContentAt, Copies
  <2>3. KeptOf(id) /\ TornIsDamaged(id) /\ IndexKnows(id)
    BY DEF Kept
  <2>4. KeptOf(id)'
    BY <2>1, <2>2, <2>3 DEF KeptOf
  <2>5. TornIsDamaged(id)'
    BY <2>1, <2>2, <2>3 DEF TornIsDamaged
  <2>6. IndexKnows(id)'
    BY <2>1, <2>2, <2>3 DEF IndexKnows
  <2> QED  BY <2>4, <2>5, <2>6
<1> QED  BY <1>1, <1>2 DEF Kept

\* A change to the request of a client outside Put is such a step.
LEMMA OutsidePut ==
  ASSUME Typed, Locking, NEW w \in Client, request[w].at \notin Steps, NEW r,
         request' = [request EXCEPT ![w] = r],
         UNCHANGED <<files, paths, search, comp, writer, acked, tried, damaged, doubled, unindexed>>,
         phase' = phase
  PROVE  Aside
<1>1. writer # w
  BY DEF Locking
<1>2. writer # None => request'[writer] = request[writer]
  BY <1>1 DEF Typed
<1> QED  BY <1>2 DEF Aside

\* The commands before they put, a search and the moves of the migration.
LEMMA AsideSteps ==
  ASSUME Typed, Locking,
         \/ \E w \in Worker, id \in Id, cmd \in Commands : Lookup(w, id, cmd)
         \/ \E w \in Worker : ReadAndDecide(w) \/ ReadAndRefuse(w)
         \/ Search \/ MigrateNext \/ Rename \/ RenameFails
  PROVE  Aside
<1> USE DEF disk, memory, history
<1>0. Main \in Client /\ \A w \in Worker : w \in Client
  BY DEF Client
<1>1. ASSUME NEW w \in Worker, NEW id \in Id, NEW cmd \in Commands, Lookup(w, id, cmd)
      PROVE  Aside
  <2>1. w \in Client /\ request[w].at \notin Steps
    BY <1>0, <1>1 DEF Lookup, Steps
  <2> QED  BY <1>1, <2>1, OutsidePut DEF Lookup
<1>2. ASSUME NEW w \in Worker, ReadAndDecide(w)
      PROVE  Aside
  <2>1. w \in Client /\ request[w].at \notin Steps
    BY <1>0, <1>2 DEF ReadAndDecide, Steps
  <2> QED  BY <1>2, <2>1, OutsidePut DEF ReadAndDecide
<1>3. ASSUME NEW w \in Worker, ReadAndRefuse(w)
      PROVE  Aside
  <2>1. w \in Client /\ request[w].at \notin Steps
    BY <1>0, <1>3 DEF ReadAndRefuse, Steps
  <2> QED  BY <1>3, <2>1, OutsidePut DEF ReadAndRefuse
<1>4. CASE Search
  BY <1>4 DEF Search, vars, Aside
<1>5. CASE MigrateNext
  <2>1. request[Main].at \notin Steps
    BY <1>5 DEF MigrateNext, Steps
  <2> QED  BY <1>0, <1>5, <2>1, OutsidePut DEF MigrateNext
<1>6. CASE Rename
  BY <1>6 DEF Rename, Migrated, Aside
<1>7. CASE RenameFails
  BY <1>7 DEF RenameFails, Migrated, Aside
<1> QED  BY <1>1, <1>2, <1>3, <1>4, <1>5, <1>6, <1>7

\* A step of a Put on one record changes nothing about the others.
Only(i) ==
  /\ phase' = phase
  /\ \A id \in Id \ {i} :
       /\ files'[id] = files[id] /\ paths'[id] = paths[id] /\ search'[id] = search[id]
       /\ acked'[id] = acked[id] /\ tried'[id] = tried[id]
       /\ id \in damaged' <=> id \in damaged
       /\ id \in doubled' <=> id \in doubled
       /\ id \in unindexed' <=> id \in unindexed
       /\ \A c : <<c, id>> \in comp => <<c, id>> \in comp'
       /\ ~Replaced(id) /\ ~Replaced(id)'

LEMMA OthersKept ==
  ASSUME Kept, NEW i \in Id, Only(i), NEW id \in Id, id # i
  PROVE  KeptOf(id)' /\ TornIsDamaged(id)' /\ IndexKnows(id)'
<1>1. id \in Id \ {i}
  OBVIOUS
<1>2. Stored(id)' = Stored(id) /\ Copies(id)' = Copies(id)
  BY <1>1 DEF Stored, ContentAt, Copies, Only
<1>3. KeptOf(id) /\ TornIsDamaged(id) /\ IndexKnows(id)
  BY DEF Kept
<1>4. KeptOf(id)'
  BY <1>1, <1>2, <1>3 DEF KeptOf, Only
<1>5. TornIsDamaged(id)'
  BY <1>1, <1>2, <1>3 DEF TornIsDamaged, Only
<1>6. IndexKnows(id)'
  BY <1>1, <1>2, <1>3 DEF IndexKnows, Only
<1> QED  BY <1>4, <1>5, <1>6
-----------------------------------------------------------------------------
(* The steps of a Put.                                                     *)

\* A Put runs while the service does.
LEMMA PutWhileUp ==
  ASSUME Typed, Locking, NEW w \in Client, request[w].at # "idle"
  PROVE  phase # "down"
<1>1. request[w] # Idle
  BY DEF Idle
<1> QED  BY <1>1 DEF Locking, Client

\* With the step of one Put, all that is left to show is about its record.
LEMMA PutStep ==
  ASSUME Kept, NEW i \in Id, Only(i), KeptOf(i)', TornIsDamaged(i)', IndexKnows(i)'
  PROVE  Kept'
<1>1. \A id \in Id : KeptOf(id)' /\ TornIsDamaged(id)' /\ IndexKnows(id)'
  BY OthersKept
<1> QED  BY <1>1 DEF Kept

LEMMA PutStartKeeps ==
  ASSUME Typed, Locking, PutGoesOn, Kept, NEW w \in Client, PutStart(w),
         NEW i \in Id, request[w].id = i
  PROVE  PutGoesOn' /\ Kept'
<1> DEFINE to == RangeBucket
           r == [at |-> "writing", id |-> i, rec |-> request[w].rec, to |-> to, old |-> paths[i]]
<1>1. i \in Id /\ to \in Bucket /\ None \notin Client /\ paths[i] \in Path
  BY AtDecided, RangeBucketType, ClientAssumption DEF PutStart, Typed
<1>2. /\ request' = [request EXCEPT ![w] = r] /\ request'[w] = r
      /\ writer = None /\ writer' = w /\ w # None
  <2>1. request' = [request EXCEPT ![w] = r]
    BY DEF PutStart
  <2> HIDE DEF r
  <2> QED  BY <1>1, <2>1 DEF PutStart, Typed
<1>3. /\ files'[i][to] = Torn /\ \A b \in Bucket : b # to => files'[i][b] = files[i][b]
      /\ \A y \in Id : y # i => files'[y] = files[y]
  <2>1. files' = [files EXCEPT ![i][to] = Torn]
    BY DEF PutStart
  <2> HIDE DEF to
  <2> QED  BY <1>1, <2>1 DEF Typed
<1>4. /\ paths' = paths /\ search' = search /\ comp' = comp /\ phase' = phase
      /\ acked' = acked /\ tried' = tried /\ doubled' = doubled /\ unindexed' = unindexed
      /\ damaged' = IF to = paths[i] THEN damaged \cup {i} ELSE damaged
  BY DEF PutStart, memory
<1>5. r.at = "writing" /\ r.id = i /\ r.to = to /\ r.old = paths[i]
  OBVIOUS
<1> HIDE DEF r, to
<1>6. \A id \in Id : ~Replaced(id) /\ ~Replaced(id)'
  BY <1>2, <1>5 DEF Replaced
<1>7. PutGoesOn'
  BY <1>2, <1>3, <1>4, <1>5 DEF PutGoesOn
<1>8. Only(i)
  BY <1>3, <1>4, <1>6 DEF Only
<1>9. KeptOf(i) /\ TornIsDamaged(i) /\ IndexKnows(i)
  BY <1>1 DEF Kept
<1>10. CASE to = paths[i]
  <2>1. Stored(i)' = Torn /\ i \in damaged'
    BY <1>1, <1>3, <1>4, <1>10, BucketsFinite DEF Stored, ContentAt
  <2>2. phase' # "down"
    BY <1>4, PutWhileUp DEF PutStart
  <2>3. KeptOf(i)' /\ TornIsDamaged(i)'
    BY <2>1 DEF KeptOf, TornIsDamaged
  <2>4. Found(Stored(i)') = NoRecord
    BY <2>1 DEF Found, Readable
  <2>5. IndexKnows(i)'
    BY <2>4 DEF IndexKnows
  <2> QED  BY <1>1, <1>7, <1>8, <2>3, <2>5, PutStep
<1>11. CASE to # paths[i]
  <2>1. Stored(i)' = Stored(i)
    BY <1>1, <1>3, <1>4, <1>11 DEF Stored, ContentAt, Path
  <2>2. phase' # "down"
    BY <1>4, PutWhileUp DEF PutStart
  <2>3. KeptOf(i)'
    BY <1>1, <1>4, <1>6, <1>9, <1>11, <2>1, <2>2 DEF KeptOf
  <2>4. TornIsDamaged(i)'
    BY <1>4, <1>9, <1>11, <2>1 DEF TornIsDamaged
  <2>5. IndexKnows(i)'
    BY <1>1, <1>4, <1>6, <1>9, <2>1 DEF IndexKnows
  <2> QED  BY <1>1, <1>7, <1>8, <2>3, <2>4, <2>5, PutStep
<1> QED  BY <1>10, <1>11

\* A Put that ends with an error: the path leads to a record that was
\* acknowledged or tried, and the record of this Put is now one of those tried.
LEMMA FailedKeeps ==
  ASSUME Typed, Locking, PutGoesOn, Kept, NEW w \in Client, Failed(w),
         NEW i \in Id, request[w].id = i,
         request[w].at # "idle", writer \in {w, None},
         request[w].rec \in Record,
         UNCHANGED <<files, paths, search, comp, phase, acked, damaged, doubled>>,
         unindexed' = IF request[w].at = "stored" THEN unindexed \cup {request[w].id}
                      ELSE unindexed,
         request[w].at \in {"decided", "writing", "stored"}
  PROVE  PutGoesOn' /\ Kept'
<1>1. /\ writer' = None /\ phase # "down" /\ i \in Id /\ None \notin Client
  BY PutWhileUp, ClientAssumption DEF Failed
<1>2. tried'[i] = tried[i] \cup {request[w].rec} /\ \A y \in Id : y # i => tried'[y] = tried[y]
  BY TriedType DEF Failed
<1>3. PutGoesOn'
  BY <1>1 DEF PutGoesOn
<1>4. \A id \in Id : ~Replaced(id)' /\ (id # i => ~Replaced(id))
  BY <1>1 DEF Replaced
<1>5. Only(i)
  BY <1>2, <1>4 DEF Only
<1>6. Stored(i)' = Stored(i)
  BY DEF Stored, ContentAt
<1>7. KeptOf(i) /\ TornIsDamaged(i) /\ IndexKnows(i)
  BY <1>1 DEF Kept
<1>8. TornIsDamaged(i)'
  BY <1>6, <1>7 DEF TornIsDamaged
<1>9. CASE request[w].at = "stored"
  <2>1. writer = w
    BY <1>9, InPut DEF Steps
  <2>2. paths[i] = request[w].to /\ files[i][request[w].to] = request[w].rec
    BY <1>1, <1>9, <2>1 DEF PutGoesOn
  <2>3. request[w].to \in Bucket
    BY <1>9, InPut DEF Steps
  <2>4. Stored(i) = request[w].rec
    BY <2>2, <2>3, BucketsFinite DEF Stored, ContentAt
  <2>5. KeptOf(i)'
    BY <1>1, <1>2, <1>6, <2>4 DEF KeptOf
  <2>6. IndexKnows(i)'
    BY <1>9 DEF IndexKnows
  <2> QED  BY <1>1, <1>3, <1>5, <1>8, <2>5, <2>6, PutStep
<1>10. CASE request[w].at # "stored"
  <2>1. ~Replaced(i)
    BY <1>10 DEF Replaced
  <2>2. KeptOf(i)'
    BY <1>1, <1>2, <1>6, <1>7, <2>1 DEF KeptOf
  <2>3. IndexKnows(i)'
    BY <1>4, <1>6, <1>7, <1>10, <2>1 DEF IndexKnows
  <2> QED  BY <1>1, <1>3, <1>5, <1>8, <2>2, <2>3, PutStep
<1> QED  BY <1>9, <1>10

LEMMA WriteKeeps ==
  ASSUME Typed, Locking, PutGoesOn, Kept, NEW w \in Client, Write(w),
         NEW i \in Id, request[w].id = i
  PROVE  PutGoesOn' /\ Kept'
<1> DEFINE to == request[w].to
           rec == request[w].rec
           r == [request[w] EXCEPT !.at = "written"]
<1>1. /\ request[w] \in Putting /\ writer = w /\ i \in Id /\ to \in Bucket /\ rec \in Record
      /\ None \notin Client /\ None \notin Bucket
  BY InPut, ClientAssumption, BucketsFinite DEF Write, Steps
<1>2. r.at = "written" /\ r.id = i /\ r.to = to /\ r.rec = rec
  BY <1>1 DEF Putting
<1>3. request' = [request EXCEPT ![w] = r] /\ request'[w] = r /\ writer' = w
  <2>1. request' = [request EXCEPT ![w] = r]
    BY DEF Write
  <2> HIDE DEF r
  <2> QED  BY <1>1, <2>1 DEF Write, Typed
<1>4. files'[i][to] = rec /\ \A y \in Id : y # i => files'[y] = files[y]
  <2>1. files' = [files EXCEPT ![i][to] = rec]
    BY DEF Write
  <2> HIDE DEF to, rec
  <2> QED  BY <1>1, <2>1 DEF Typed
<1>5. paths'[i] = to /\ \A y \in Id : y # i => paths'[y] = paths[y]
  <2>1. paths' = [paths EXCEPT ![i] = to]
    BY DEF Write
  <2> HIDE DEF to
  <2> QED  BY <1>1, <2>1 DEF Typed
<1>6. /\ search' = search /\ comp' = comp /\ phase' = phase /\ acked' = acked /\ tried' = tried
      /\ doubled' = doubled /\ unindexed' = unindexed /\ damaged' = damaged \ {i}
  BY DEF Write
<1> HIDE DEF r, to, rec
<1>7. Replaced(i)' /\ \A id \in Id : id # i => ~Replaced(id) /\ ~Replaced(id)'
  <2>1. \A id \in Id : id # i => ~Replaced(id)
    BY <1>1 DEF Replaced
  <2> QED  BY <1>1, <1>2, <1>3, <2>1 DEF Replaced
<1>8. PutGoesOn'
  BY <1>2, <1>3, <1>4, <1>5 DEF PutGoesOn
<1>9. Only(i)
  BY <1>4, <1>5, <1>6, <1>7 DEF Only
<1>10. Stored(i)' = rec /\ rec # Torn /\ phase' # "down"
  BY <1>1, <1>4, <1>5, <1>6, KindsDiffer, PutWhileUp DEF Stored, ContentAt, Write
<1>11. KeptOf(i)' /\ TornIsDamaged(i)' /\ IndexKnows(i)'
  BY <1>7, <1>10 DEF KeptOf, TornIsDamaged, IndexKnows
<1> QED  BY <1>1, <1>8, <1>9, <1>11, PutStep

\* The old file is somewhere else: whether it is removed or stays, the new one
\* is there.
LEMMA RemoveKeeps ==
  ASSUME Typed, Locking, PutGoesOn, Kept, NEW w \in Client, request[w].at = "written",
         NEW i \in Id, request[w].id = i,
         request' = [request EXCEPT ![w] = [request[w] EXCEPT !.at = "stored"]],
         UNCHANGED <<paths, search, comp, writer, phase, acked, tried, damaged, unindexed>>,
         doubled' \in {doubled, doubled \cup {request[w].id}},
         \/ files' = files
         \/ /\ request[w].old \notin {None, request[w].to}
            /\ files' = [files EXCEPT ![request[w].id][request[w].old] = NoFile]
  PROVE  PutGoesOn' /\ Kept'
<1> DEFINE to == request[w].to
           rec == request[w].rec
           r == [request[w] EXCEPT !.at = "stored"]
<1>1. /\ request[w] \in Putting /\ writer = w /\ i \in Id /\ to \in Bucket /\ rec \in Record
      /\ request[w].old \in Path /\ None \notin Client /\ None \notin Bucket
  BY InPut, ClientAssumption, BucketsFinite DEF Steps
<1>2. r.at = "stored" /\ r.id = i /\ r.to = to /\ r.rec = rec
  BY <1>1 DEF Putting
<1>3. request'[w] = r
  <2>1. request' = [request EXCEPT ![w] = r]
    OBVIOUS
  <2> HIDE DEF r
  <2> QED  BY <2>1 DEF Typed
<1>4. files[i][to] = rec /\ paths[i] = to
  BY <1>1 DEF PutGoesOn
<1>5. files'[i][to] = rec /\ \A y \in Id : y # i => files'[y] = files[y]
  <2>1. CASE files' = files
    BY <1>4, <2>1
  <2>2. CASE /\ request[w].old \notin {None, to}
             /\ files' = [files EXCEPT ![i][request[w].old] = NoFile]
    <3>1. request[w].old \in Bucket /\ to # request[w].old
      BY <1>1, <2>2 DEF Path
    <3>2. /\ \A c \in Bucket : c # request[w].old => files'[i][c] = files[i][c]
          /\ \A y \in Id : y # i => files'[y] = files[y]
      BY <1>1, <2>2, <3>1, FileType DEF Content
    <3> QED  BY <1>1, <1>4, <3>1, <3>2
  <2> QED  BY <2>1, <2>2
<1> HIDE DEF r, to, rec
<1>6. Replaced(i)' /\ \A id \in Id : id # i => ~Replaced(id) /\ ~Replaced(id)'
  <2>1. \A id \in Id : id # i => ~Replaced(id)
    BY <1>1 DEF Replaced
  <2> QED  BY <1>1, <1>2, <1>3, <2>1 DEF Replaced
<1>7. PutGoesOn'
  BY <1>1, <1>2, <1>3, <1>4, <1>5 DEF PutGoesOn
<1>8. Only(i)
  BY <1>5, <1>6 DEF Only
<1>9. Stored(i)' = rec /\ rec # Torn /\ phase' # "down"
  BY <1>1, <1>4, <1>5, KindsDiffer, PutWhileUp DEF Stored, ContentAt
<1>10. KeptOf(i)' /\ TornIsDamaged(i)' /\ IndexKnows(i)'
  BY <1>6, <1>9 DEF KeptOf, TornIsDamaged, IndexKnows
<1> QED  BY <1>1, <1>7, <1>8, <1>10, PutStep

LEMMA IndexKeeps ==
  ASSUME Typed, Locking, PutGoesOn, Kept, NEW w \in Client, Index(w),
         NEW i \in Id, request[w].id = i
  PROVE  PutGoesOn' /\ Kept'
<1> DEFINE rec == request[w].rec
<1>1. /\ writer = w /\ i \in Id /\ rec \in Record /\ request[w].to \in Bucket
      /\ None \notin Client /\ None \notin Bucket
  BY InPut, ClientAssumption, BucketsFinite DEF Index, Steps
<1>2. files[i][request[w].to] = rec /\ paths[i] = request[w].to
  BY <1>1 DEF PutGoesOn, Index
<1>3. /\ writer' = None /\ files' = files /\ paths' = paths /\ phase' = phase /\ damaged' = damaged
      /\ unindexed' = unindexed \ {i} /\ doubled' \in {doubled, doubled \ {i}}
  BY DEF Index
<1>4. acked'[i] = rec /\ \A y \in Id : y # i => acked'[y] = acked[y] /\ tried'[y] = tried[y]
  BY <1>1 DEF Index, Typed
<1>5. /\ search'[i] = IF rec.deleted THEN NoDoc ELSE DocOf(rec)
      /\ \A y \in Id : y # i => search'[y] = search[y]
      /\ comp' = {e \in comp : e[2] # i} \cup (IF rec.deleted THEN {} ELSE (DOMAIN rec.affected) \X {i})
  BY <1>1 DEF Index, Indexed, Typed
<1> HIDE DEF rec
<1>6. \A id \in Id : ~Replaced(id)' /\ (id # i => ~Replaced(id))
  BY <1>1, <1>3 DEF Replaced
<1>7. \A id \in Id \ {i} : \A c : <<c, id>> \in comp => <<c, id>> \in comp'
  BY <1>5
<1>8. Only(i)
  BY <1>3, <1>4, <1>5, <1>6, <1>7 DEF Only
<1>9. PutGoesOn'
  BY <1>3 DEF PutGoesOn
<1>10. Stored(i)' = rec /\ phase' # "down"
  BY <1>1, <1>2, <1>3, PutWhileUp DEF Stored, ContentAt, Index, rec
<1>11. KeptOf(i)'
  BY <1>4, <1>10 DEF KeptOf
<1>12. TornIsDamaged(i)'
  BY <1>1, <1>10, KindsDiffer DEF TornIsDamaged
<1>13. IndexKnows(i)'
  <2>1. ASSUME Found(rec) # NoRecord
        PROVE  search'[i] = DocOf(rec) /\ \A c \in DOMAIN rec.affected : <<c, i>> \in comp'
    <3>1. ~rec.deleted
      BY <2>1 DEF Found
    <3> QED  BY <1>5, <3>1
  <2> QED  BY <1>10, <2>1 DEF IndexKnows
<1> QED  BY <1>1, <1>8, <1>9, <1>11, <1>12, <1>13, PutStep
-----------------------------------------------------------------------------
(* Starts and crashes.                                                     *)

\* While the service is down nobody does anything.
LEMMA NobodyWhileDown ==
  ASSUME Typed, Locking, phase = "down"
  PROVE  writer = None /\ \A c \in Client : request[c] = Idle
<1>1. \A c \in Client : request[c] = Idle
  BY DEF Locking, Client
<1>2. \A c \in Client : request[c].at \notin Steps
  BY <1>1 DEF Idle, Steps
<1> QED  BY <1>1, <1>2 DEF Locking, Typed

LEMMA RestartKeeps ==
  ASSUME Typed, Locking, Kept, Restart
  PROVE  PutGoesOn' /\ Kept'
<1>1. writer' = None /\ files' = files /\ acked' = acked /\ tried' = tried
        /\ damaged' = damaged /\ doubled' = doubled /\ unindexed' = {}
        /\ phase = "down" /\ phase' # "down"
  BY NobodyWhileDown DEF Restart
<1>2. PutGoesOn'
  BY <1>1 DEF PutGoesOn
<1>3. ASSUME NEW id \in Id
      PROVE  KeptOf(id)' /\ TornIsDamaged(id)' /\ IndexKnows(id)'
  <2>1. paths'[id] = IF Copies(id) = {} THEN None ELSE LastOf(Copies(id))
    BY DEF Restart, Rebuilt, PathsRebuilt
  <2>2. CASE Copies(id) = {}
    <3>1. Stored(id)' = NoFile
      BY <2>1, <2>2 DEF Stored, ContentAt
    <3>2. ~(acked[id] # NoRecord /\ id \notin damaged \cup doubled)
      BY <1>1, <2>2 DEF Kept, KeptOf
    <3>3. NoFile # Torn /\ Found(NoFile) = NoRecord
      BY KindsDiffer DEF Found, Readable
    <3> QED  BY <1>1, <3>1, <3>2, <3>3 DEF KeptOf, TornIsDamaged, IndexKnows
  <2>3. CASE Copies(id) # {}
    <3> DEFINE p == LastOf(Copies(id))
    <3>1. p \in Copies(id) /\ p \in Bucket /\ None \notin Bucket /\ files[id][p] \in Record
      BY <2>3, LastCopy, BucketsFinite
    <3>2. Stored(id)' = files[id][p]
      BY <1>1, <2>1, <2>3, <3>1 DEF Stored, ContentAt
    <3> HIDE DEF p
    <3>3. KeptOf(id)'
      <4>1. acked[id] # NoRecord /\ id \notin damaged \cup doubled =>
              files[id][p] \in {acked[id]} \cup tried[id]
        BY <1>1, <3>1 DEF Kept, KeptOf
      <4> QED  BY <1>1, <3>2, <4>1 DEF KeptOf
    <3>4. TornIsDamaged(id)'
      BY <3>1, <3>2, KindsDiffer DEF TornIsDamaged
    <3>5. IndexKnows(id)'
      <4> SUFFICES ASSUME Found(files[id][p]) # NoRecord
                   PROVE  /\ search'[id] = DocOf(files[id][p])
                          /\ \A c \in DOMAIN files[id][p].affected : <<c, id>> \in comp'
        BY <3>2 DEF IndexKnows
      <4>1. p \in LiveCopies(id)
        BY <3>1 DEF LiveCopies, Found
      <4>2. LastOf(LiveCopies(id)) = p
        <5>1. LiveCopies(id) \in SUBSET Copies(id) /\ Copies(id) \in SUBSET Bucket
          BY DEF LiveCopies, Copies
        <5> QED  BY <2>3, <4>1, <5>1, LastOfIs DEF p
      <4>3. search'[id] = DocOf(files[id][p])
        BY <4>1, <4>2 DEF Restart, Rebuilt
      <4>4. ASSUME NEW c \in DOMAIN files[id][p].affected
            PROVE  <<c, id>> \in comp'
        <5>1. c \in Component
          BY <3>1, RecordFields
        <5> QED  BY <4>1, <4>4, <5>1 DEF Restart, Rebuilt, ComponentsRebuilt
      <4> QED  BY <4>3, <4>4
    <3> QED  BY <3>3, <3>4, <3>5
  <2> QED  BY <2>2, <2>3
<1> QED  BY <1>2, <1>3 DEF Kept

\* A crash leaves the files.  Where a record has only one, it is the one the
\* path led to, and that of a Put under way is among those tried.
LEMMA CrashKeeps ==
  ASSUME Typed, Locking, PutGoesOn, Kept, Crash
  PROVE  PutGoesOn' /\ Kept'
<1>1. /\ writer' = None /\ files' = files /\ acked' = acked /\ damaged' = damaged
      /\ phase # "down" /\ phase' = "down"
  BY DEF Crash, disk
<1>2. PutGoesOn'
  BY <1>1 DEF PutGoesOn
<1>3. ASSUME NEW id \in Id
      PROVE  KeptOf(id)' /\ TornIsDamaged(id)' /\ IndexKnows(id)'
  <2>1. TornIsDamaged(id)' /\ IndexKnows(id)'
    BY <1>1 DEF TornIsDamaged, IndexKnows
  <2>2. Copies(id)' = Copies(id)
    BY <1>1 DEF Copies
  <2>3. tried'[id] = tried[id] \cup
          {request[c].rec : c \in {d \in Client : request[d].at \in Steps /\ request[d].id = id}}
    BY DEF Crash, Steps
  <2>4. ASSUME acked[id] # NoRecord, id \notin damaged, id \notin doubled, id \notin doubled'
        PROVE  \E b \in Bucket : Copies(id) = {b} /\ files[id][b] \in {acked[id]} \cup tried'[id]
    <3>1. ~(Cardinality(Copies(id)) > 1)
      BY <2>4 DEF Crash
    <3>2. \E b \in Bucket : files[id][b] \in Record /\ files[id][b] \in {acked[id]} \cup tried'[id]
      <4>1. CASE Replaced(id)
        <5>1. /\ writer \in Client /\ request[writer].at \in Steps /\ request[writer].id = id
              /\ request[writer].at \in {"written", "stored"}
          BY <4>1 DEF Replaced, Typed, Steps
        <5>2. request[writer].to \in Bucket /\ request[writer].rec \in Record
          BY <5>1, InPut
        <5>3. files[id][request[writer].to] = request[writer].rec
          BY <5>1, ClientAssumption DEF PutGoesOn
        <5>4. request[writer].rec \in tried'[id]
          BY <2>3, <5>1
        <5> QED  BY <5>2, <5>3, <5>4
      <4>2. CASE ~Replaced(id)
        <5>1. Stored(id) \in {acked[id]} \cup tried[id]
          BY <1>1, <2>4, <4>2 DEF Kept, KeptOf
        <5>2. Stored(id) \in Record
          BY <2>4, <5>1 DEF Typed
        <5>3. paths[id] \in Bucket /\ Stored(id) = files[id][paths[id]]
          BY <5>2, KindsDiffer DEF Stored, ContentAt, Typed, Path
        <5> QED  BY <2>3, <5>1, <5>2, <5>3
      <4> QED  BY <4>1, <4>2
    <3>3. PICK b \in Bucket : files[id][b] \in Record /\ files[id][b] \in {acked[id]} \cup tried'[id]
      BY <3>2
    <3>4. b \in Copies(id)
      BY <3>3, KindsDiffer DEF Copies, Readable
    <3>5. Copies(id) = {b}
      BY <3>1, <3>4, CopiesFinite
    <3> QED  BY <3>3, <3>5
  <2>5. KeptOf(id)'
    <3>1. doubled \subseteq doubled'
      BY DEF Crash
    <3> QED  BY <1>1, <2>2, <2>4, <3>1 DEF KeptOf
  <2> QED  BY <2>1, <2>5
<1> QED  BY <1>2, <1>3 DEF Kept

LEMMA KeptInit == Init => PutGoesOn /\ Kept
<1> SUFFICES ASSUME Init
             PROVE  PutGoesOn /\ Kept
  OBVIOUS
<1>1. writer = None /\ phase = "down" /\ \A id \in Id : acked[id] = NoRecord
  BY DEF Init
<1> QED  BY <1>1 DEF PutGoesOn, Kept, KeptOf, TornIsDamaged, IndexKnows

LEMMA KeptNext ==
  ASSUME Typed, Locking, PutGoesOn, Kept, Next
  PROVE  PutGoesOn' /\ Kept'
<1>1. ASSUME NEW w \in Client, PutStart(w)
      PROVE  PutGoesOn' /\ Kept'
  <2>1. request[w].id \in Id
    BY <1>1, AtDecided DEF PutStart
  <2> QED  BY <1>1, <2>1, PutStartKeeps
<1>2. ASSUME NEW w \in Client, PutRefused(w)
      PROVE  PutGoesOn' /\ Kept'
  <2>1. request[w].at = "decided" /\ writer = None /\ request[w].id \in Id /\ request[w].rec \in Record
    BY <1>2, AtDecided DEF PutRefused
  <2> QED  BY <1>2, <2>1, FailedKeeps DEF PutRefused, disk, memory
<1>3. ASSUME NEW w \in Client, WriteFails(w)
      PROVE  PutGoesOn' /\ Kept'
  <2>1. request[w].at = "writing" /\ writer = w /\ request[w].id \in Id /\ request[w].rec \in Record
    BY <1>3, InPut DEF WriteFails, Steps
  <2> QED  BY <1>3, <2>1, FailedKeeps DEF WriteFails, disk, memory
<1>4. ASSUME NEW w \in Client, IndexFails(w)
      PROVE  PutGoesOn' /\ Kept'
  <2>1. request[w].at = "stored" /\ writer = w /\ request[w].id \in Id /\ request[w].rec \in Record
    BY <1>4, InPut DEF IndexFails, Steps
  <2> QED  BY <1>4, <2>1, FailedKeeps DEF IndexFails, disk, memory
<1>5. ASSUME NEW w \in Client, Write(w)
      PROVE  PutGoesOn' /\ Kept'
  <2>1. request[w].id \in Id
    BY <1>5, InPut DEF Write, Steps
  <2> QED  BY <1>5, <2>1, WriteKeeps
<1>6. ASSUME NEW w \in Client, RemoveOld(w)
      PROVE  PutGoesOn' /\ Kept'
  <2>1. request[w].id \in Id
    BY <1>6, InPut DEF RemoveOld, Steps
  <2> QED  BY <1>6, <2>1, RemoveKeeps DEF RemoveOld, memory, history
<1>7. ASSUME NEW w \in Client, RemoveFails(w)
      PROVE  PutGoesOn' /\ Kept'
  <2>1. request[w].id \in Id
    BY <1>7, InPut DEF RemoveFails, Steps
  <2> QED  BY <1>7, <2>1, RemoveKeeps DEF RemoveFails, disk, memory
<1>8. ASSUME NEW w \in Client, Index(w)
      PROVE  PutGoesOn' /\ Kept'
  <2>1. request[w].id \in Id
    BY <1>8, InPut DEF Index, Steps
  <2> QED  BY <1>8, <2>1, IndexKeeps
<1>9. CASE Aside
  BY <1>9, AsideKeeps
<1> QED
  BY <1>1, <1>2, <1>3, <1>4, <1>5, <1>6, <1>7, <1>8, <1>9, AsideSteps, RestartKeeps, CrashKeeps
  DEF Next
-----------------------------------------------------------------------------
(* The legacy log.                                                         *)

LEMMA MigratingInit == Init => Migrating /\ NoneTouched
<1> SUFFICES ASSUME Init
             PROVE  Migrating /\ NoneTouched
  OBVIOUS
<1>1. phase = "down" /\ touched = {} /\ (~legacy => LegacyOrder = <<>>)
  BY DEF Init
<1>2. ~legacy => ToSet(LegacyOrder) = {}
  BY <1>1 DEF ToSet
<1> QED  BY <1>1, <1>2 DEF Migrating, NoneTouched

\* What has been acknowledged once stays so.
LEMMA TakenStays ==
  ASSUME \A id \in ToSet(LegacyOrder) : acked[id] # NoRecord => acked'[id] # NoRecord,
         NEW id \in ToSet(LegacyOrder), Taken(id)
  PROVE  Taken(id)'
BY DEF Taken

\* A step that is not one of the migration changes nothing about it.
LEMMA MigrationStays ==
  ASSUME Migrating, UNCHANGED <<legacy, phase, queue, troubles>>,
         \A id \in ToSet(LegacyOrder) : acked[id] # NoRecord => acked'[id] # NoRecord,
         request[Main] # Idle => request'[Main] # Idle /\ request'[Main].id = request[Main].id
  PROVE  Migrating'
<1>1. \A id \in ToSet(LegacyOrder) : Taken(id) => Taken(id)'
  BY TakenStays
<1>2. (troubles = {} /\ ~legacy => \A id \in ToSet(LegacyOrder) : Taken(id))'
  BY <1>1 DEF Migrating
<1>3. (troubles = {} /\ phase = "migrating" =>
         \A id \in ToSet(LegacyOrder) :
           Taken(id) \/ id \in ToSet(queue) \/ (request[Main] # Idle /\ request[Main].id = id))'
  BY <1>1 DEF Migrating
<1>4. (phase = "migrating" => legacy)' /\ (phase = "up" /\ "rename" \notin troubles => ~legacy)'
  BY DEF Migrating
<1> QED  BY <1>2, <1>3, <1>4 DEF Migrating

\* Main goes on with the stream it is putting, or somebody else does something.
LEMMA MainGoesOn ==
  ASSUME Typed, NEW w \in Client, NEW r, request' = [request EXCEPT ![w] = r],
         w = Main => r # Idle /\ r.id = request[Main].id
  PROVE  request[Main] # Idle => request'[Main] # Idle /\ request'[Main].id = request[Main].id
BY DEF Typed, Client

\* A Put of the migration that fails is remembered.
LEMMA FailedMigrating ==
  ASSUME Typed, Migrating, NoneTouched, NEW w \in Client, Failed(w),
         UNCHANGED <<legacy, phase, acked, touched>>
  PROVE  Migrating' /\ NoneTouched'
<1>1. "rename" \in troubles' <=> "rename" \in troubles
  BY DEF Failed
<1>2. NoneTouched'
  BY <1>1 DEF NoneTouched
<1>3. CASE w = Main
  <2>1. troubles' # {}
    BY <1>3 DEF Failed
  <2> QED  BY <1>1, <1>2, <2>1 DEF Migrating
<1>4. CASE w # Main
  <2>1. troubles' = troubles /\ queue' = queue /\ request' = [request EXCEPT ![w] = Idle]
    BY <1>4 DEF Failed
  <2>2. request'[Main] = request[Main]
    BY <1>4, <2>1 DEF Typed, Client
  <2> QED  BY <1>2, <2>1, <2>2, MigrationStays
<1> QED  BY <1>3, <1>4

LEMMA MigratingNext ==
  ASSUME Typed, Locking, Migrating, NoneTouched, Next
  PROVE  Migrating' /\ NoneTouched'
<1>0. Main \in Client /\ \A w \in Worker : w \in Client /\ w # Main
  BY ClientAssumption DEF Client
<1>1. ASSUME NEW w \in Client, NEW r, UNCHANGED <<legacy, phase, queue, troubles, acked, touched>>,
             request' = [request EXCEPT ![w] = r], w = Main => r # Idle /\ r.id = request[Main].id
      PROVE  Migrating' /\ NoneTouched'
  <2>1. Migrating'
    BY <1>1, MainGoesOn, MigrationStays
  <2> QED  BY <1>1, <2>1 DEF NoneTouched
<1>2. ASSUME NEW w \in Worker, NEW id \in Id, NEW cmd \in Commands, Lookup(w, id, cmd)
      PROVE  Migrating' /\ NoneTouched'
  BY <1>0, <1>1, <1>2 DEF Lookup, disk, history
<1>3. ASSUME NEW w \in Worker, ReadAndDecide(w)
      PROVE  Migrating' /\ NoneTouched'
  BY <1>0, <1>1, <1>3 DEF ReadAndDecide, disk, history
<1>4. ASSUME NEW w \in Worker, ReadAndRefuse(w)
      PROVE  Migrating' /\ NoneTouched'
  BY <1>0, <1>1, <1>4 DEF ReadAndRefuse, disk, history
<1>5. ASSUME NEW w \in Client, PutStart(w)
      PROVE  Migrating' /\ NoneTouched'
  <2> DEFINE r == [at |-> "writing", id |-> request[w].id, rec |-> request[w].rec,
                   to |-> RangeBucket, old |-> paths[request[w].id]]
  <2>1. request' = [request EXCEPT ![w] = r] /\ UNCHANGED <<legacy, phase, queue, troubles, acked, touched>>
    BY <1>5 DEF PutStart
  <2>2. r # Idle /\ r.id = request[w].id
    <3>1. r.at = "writing"
      OBVIOUS
    <3>2. Idle.at = "idle"
      BY DEF Idle
    <3> QED  BY <3>1, <3>2
  <2> HIDE DEF r
  <2> QED  BY <1>1, <2>1, <2>2
<1>6. ASSUME NEW w \in Client, NEW at \in {"written", "stored"}, request[w].at \in Steps,
             request' = [request EXCEPT ![w] = [request[w] EXCEPT !.at = at]]
      PROVE  \E r : /\ request' = [request EXCEPT ![w] = r]
                    /\ r # Idle /\ r.id = request[w].id
  <2> DEFINE r == [request[w] EXCEPT !.at = at]
  <2>1. request[w] \in Putting
    BY <1>6, InPut
  <2>2. r.at = at /\ r.id = request[w].id
    BY <2>1 DEF Putting
  <2>3. r # Idle
    BY <2>2 DEF Idle
  <2> QED  BY <1>6, <2>2, <2>3
<1>7. ASSUME NEW w \in Client, RemoveOld(w) \/ RemoveFails(w)
      PROVE  Migrating' /\ NoneTouched'
  <2>1. UNCHANGED <<legacy, phase, queue, troubles, acked, touched>>
    BY <1>7 DEF RemoveOld, RemoveFails, disk, history
  <2>2. \E r : request' = [request EXCEPT ![w] = r] /\ r # Idle /\ r.id = request[w].id
    BY <1>6, <1>7 DEF RemoveOld, RemoveFails, Steps
  <2> QED  BY <1>1, <2>1, <2>2
<1>8. ASSUME NEW w \in Client, Write(w)
      PROVE  Migrating' /\ NoneTouched'
  <2>1. UNCHANGED <<legacy, phase, queue, troubles, acked>>
    BY <1>8 DEF Write
  <2>2. \E r : request' = [request EXCEPT ![w] = r] /\ r # Idle /\ r.id = request[w].id
    BY <1>6, <1>8 DEF Write, Steps
  <2>3. Migrating'
    BY <2>1, <2>2, MainGoesOn, MigrationStays
  <2>4. CASE w = Main
    BY <1>8, <2>1, <2>3, <2>4 DEF Write, NoneTouched
  <2>5. CASE w # Main
    <3>1. w \in Worker /\ request[w] # Idle
      BY <1>8, <2>5 DEF Write, Client, Idle
    <3>2. phase = "up"
      BY <3>1 DEF Locking
    <3> QED  BY <2>1, <2>3, <3>2 DEF Migrating, NoneTouched
  <2> QED  BY <2>4, <2>5
<1>9. ASSUME NEW w \in Client, Index(w)
      PROVE  Migrating' /\ NoneTouched'
  <2>1. request[w].id \in Id /\ request[w].rec \in Record
    BY <1>9, InPut DEF Index, Steps
  <2>2. /\ UNCHANGED <<legacy, phase, queue, troubles, touched>>
        /\ request' = [request EXCEPT ![w] = Idle]
        /\ acked' = [acked EXCEPT ![request[w].id] = request[w].rec]
    BY <1>9 DEF Index
  <2>3. NoneTouched'
    BY <2>2 DEF NoneTouched
  <2>4. \A id \in ToSet(LegacyOrder) : id \in Id
    BY LegacyAssumption, ElementOfSeq DEF ToSet
  <2>5. acked'[request[w].id] # NoRecord /\
          \A id \in ToSet(LegacyOrder) : acked[id] # NoRecord => acked'[id] # NoRecord
    BY <2>1, <2>2, <2>4, KindsDiffer DEF Typed
  <2>6. CASE w # Main
    <3>1. request'[Main] = request[Main]
      BY <1>0, <2>2, <2>6 DEF Typed
    <3> QED  BY <2>2, <2>3, <2>5, <3>1, MigrationStays
  <2>7. CASE w = Main
    <3>1. \A id \in ToSet(LegacyOrder) : Taken(id) \/ request[Main].id = id => Taken(id)'
      BY <2>5, <2>7, TakenStays DEF Taken
    <3>2. (troubles = {} /\ ~legacy => \A id \in ToSet(LegacyOrder) : Taken(id))'
      BY <2>2, <3>1 DEF Migrating
    <3>3. troubles' = {} /\ phase' = "migrating" =>
            \A id \in ToSet(LegacyOrder) : Taken(id)' \/ id \in ToSet(queue')
      BY <2>2, <3>1 DEF Migrating
    <3> QED  BY <2>2, <2>3, <3>2, <3>3 DEF Migrating
  <2> QED  BY <2>6, <2>7
<1>10. ASSUME NEW w \in Client, PutRefused(w) \/ WriteFails(w) \/ IndexFails(w)
       PROVE  Migrating' /\ NoneTouched'
  BY <1>10, FailedMigrating DEF PutRefused, WriteFails, IndexFails, disk
<1>11. CASE Search
  BY <1>11, MigrationStays DEF Search, vars, disk, history, NoneTouched
<1>12. CASE MigrateNext
  <2>0. PICK h : h = Head(queue)
    OBVIOUS
  <2> DEFINE state == LegacyState(Legacy[h])
             r == [at |-> "decided", id |-> h, rec |-> state]
  <2>1. /\ UNCHANGED <<legacy, phase, troubles, acked, touched>>
        /\ phase = "migrating" /\ queue # <<>> /\ request[Main] = Idle
        /\ queue' = Tail(queue)
        /\ request' = [request EXCEPT ![Main] = IF state = NoRecord THEN Idle ELSE r]
    BY <1>0, <1>12, <2>0, AtIdle DEF MigrateNext, disk, history
  <2>2. request'[Main] = IF state = NoRecord THEN Idle ELSE r
    BY <1>0, <2>1 DEF Typed
  <2>3. ToSet(queue) \subseteq ToSet(queue') \cup {h}
    BY <2>0, <2>1, QueueType
  <2>4. \A id \in ToSet(LegacyOrder) : Taken(id) <=> Taken(id)'
    BY <2>1 DEF Taken
  <2>5. Taken(h)' \/ (request'[Main] # Idle /\ request'[Main].id = h)
    <3>1. CASE state = NoRecord
      BY <3>1 DEF Taken
    <3>2. CASE state # NoRecord
      <4>1. r.at = "decided" /\ r.id = h /\ Idle.at = "idle"
        BY DEF Idle
      <4> QED  BY <2>2, <3>2, <4>1
    <3> QED  BY <3>1, <3>2
  <2> HIDE DEF state, r
  <2>6. \A id \in ToSet(LegacyOrder) : troubles = {} =>
           Taken(id)' \/ id \in ToSet(queue') \/ (request'[Main] # Idle /\ request'[Main].id = id)
    BY <2>1, <2>3, <2>4, <2>5 DEF Migrating
  <2> QED  BY <2>1, <2>4, <2>6 DEF Migrating, NoneTouched
<1>13. Migrated => request[Main] = Idle /\ ToSet(queue) = {}
  BY <1>0, AtIdle DEF Migrated, ToSet
<1>14. CASE Rename
  <2>1. UNCHANGED <<acked, troubles, touched>> /\ phase' = "up" /\ legacy' = FALSE /\ phase = "migrating"
    BY <1>14 DEF Rename, Migrated, history
  <2>2. troubles = {} => \A id \in ToSet(LegacyOrder) : Taken(id)'
    BY <1>13, <1>14, <2>1 DEF Rename, Migrating, Taken
  <2> QED  BY <2>1, <2>2 DEF Migrating, NoneTouched
<1>15. CASE RenameFails
  <2>1. "rename" \in troubles' /\ phase' = "up"
    BY <1>15 DEF RenameFails
  <2> QED  BY <2>1 DEF Migrating, NoneTouched
<1>16. CASE Restart
  <2>1. /\ UNCHANGED <<legacy, acked, troubles, touched>>
        /\ phase' = IF legacy THEN "migrating" ELSE "up"
        /\ legacy => queue' = LegacyOrder
    BY <1>16 DEF Restart
  <2>2. \A id \in ToSet(LegacyOrder) : Taken(id) => Taken(id)'
    BY <2>1 DEF Taken
  <2>3. NoneTouched'
    BY <2>1 DEF NoneTouched
  <2>4. (troubles = {} /\ ~legacy => \A id \in ToSet(LegacyOrder) : Taken(id))'
    BY <2>1, <2>2 DEF Migrating
  <2>5. phase' = "migrating" => legacy' /\ queue' = LegacyOrder
    BY <2>1
  <2>6. phase' = "up" => ~legacy'
    BY <2>1
  <2> QED  BY <2>3, <2>4, <2>5, <2>6 DEF Migrating
<1>17. CASE Crash
  <2>1. UNCHANGED <<legacy, acked, troubles, touched>> /\ phase' = "down"
    BY <1>17 DEF Crash, disk
  <2>2. \A id \in ToSet(LegacyOrder) : Taken(id) => Taken(id)'
    BY <2>1 DEF Taken
  <2> QED  BY <2>1, <2>2 DEF Migrating, NoneTouched
<1> QED
  BY <1>2, <1>3, <1>4, <1>5, <1>7, <1>8, <1>9, <1>10, <1>11, <1>12, <1>14, <1>15, <1>16, <1>17
  DEF Next
-----------------------------------------------------------------------------
(* What a Get reads.                                                       *)

LEMMA ReadingInit == Init => Reading
<1> SUFFICES ASSUME Init
             PROVE  Reading
  OBVIOUS
<1>1. /\ \A id \in Id : files[id] = [b \in Bucket |-> NoFile]
      /\ \A w \in Worker : request[w] = Idle
      /\ seen \in [Worker -> SUBSET (Record \cup {NoRecord})]
  BY DEF Init, Client
<1>2. \A id \in Id : Copies(id) = {}
  BY <1>1 DEF Copies, Readable
<1>3. \A w \in Worker : request[w].at # "looked"
  BY <1>1 DEF Idle
<1> QED  BY <1>1, <1>2, <1>3 DEF Reading, FilesOf, GetOf

\* What the step of a Put changes outside its record, and what the Gets of its
\* record learn of it: those that it runs into when it begins know what it writes.
PutMoves(w, i) ==
  /\ phase' = phase /\ phase # "down"
  /\ writer \in {None, w} /\ writer' \in {None, w}
  /\ request[w].at # "looked" /\ request'[w].at # "looked"
  /\ \A c \in Client : c # w => request'[c] = request[c]
  /\ writer' = w => request'[w].id = i /\ request'[w].rec = request[w].rec
  /\ \A id \in Id : id # i =>
       /\ files'[id] = files[id] /\ paths'[id] = paths[id]
       /\ acked'[id] = acked[id] /\ tried'[id] = tried[id]
       /\ id \in doubled' <=> id \in doubled
  /\ \/ RunInto(i, request[w].rec)
     \/ reads' = reads /\ (writer = w \/ (writer' = writer /\ paths' = paths))

\* What a Get can find of the record then: what was there before or, unless a
\* second file was left behind, what the Put has written.
PutChanges(w, i) ==
  i \notin doubled' => \A b \in Bucket : Readable(files'[i][b]) =>
    \/ i \notin doubled /\ files'[i][b] = files[i][b]
    \/ writer = w /\ files'[i][b] = request[w].rec

\* The other records are where they were.
LEMMA OtherFiles ==
  ASSUME NEW w \in Client, NEW i \in Id, request[w].id = i, PutMoves(w, i),
         NEW id \in Id, id # i, FilesOf(id)
  PROVE  FilesOf(id)' /\ InFlight(id) = {} /\ InFlight(id)' = {}
<1>1. /\ files'[id] = files[id] /\ paths'[id] = paths[id]
      /\ acked'[id] = acked[id] /\ tried'[id] = tried[id]
      /\ id \in doubled' <=> id \in doubled
      /\ phase' = phase
  BY DEF PutMoves
<1>2. (writer # None => request[writer].id = i) /\ (writer' # None => request'[writer'].id = i)
  BY DEF PutMoves
<1>3. InFlight(id) = {} /\ InFlight(id)' = {} /\ Leftover(id) = {} /\ Leftover(id)' = {}
  BY <1>2 DEF InFlight, Leftover
<1>4. Copies(id)' = Copies(id)
  BY <1>1 DEF Copies
<1> QED  BY <1>1, <1>3, <1>4 DEF FilesOf

\* The Gets under way, when a Put on one record makes a step.
LEMMA GetsGoOn ==
  ASSUME Typed, Reading, NEW w \in Client, NEW i \in Id, request[w].id = i, w # None,
         request[w].rec \in Record, PutMoves(w, i), PutChanges(w, i), FilesOf(i)'
  PROVE  Reading'
<1>1. \A id \in Id : FilesOf(id)'
  BY OtherFiles DEF Reading
<1>2. seen' \in [Worker -> SUBSET (Record \cup {NoRecord})]
  BY DEF PutMoves, RunInto, Reading, reads
<1>3. \A v \in Worker : seen[v] \subseteq seen'[v] /\ (v \notin overtaken' => v \notin overtaken)
  BY DEF PutMoves, RunInto, Reading, reads
<1>4. ASSUME NEW v \in Worker, request'[v].at = "looked"
      PROVE  GetOf(v)'
  <2>1. v \in Client /\ v # w
    BY <1>4 DEF PutMoves, Client
  <2>2. request'[v] = request[v]
    BY <2>1 DEF PutMoves
  <2>3. PICK id, p : id = request[v].id /\ p = request[v].path
    OBVIOUS
  <2>4. request[v].at = "looked" /\ id \in Id /\ p \in Path
    BY <1>4, <2>1, <2>2, <2>3, AtLooked
  <2>5. /\ InFlight(id) \subseteq seen[v]
        /\ v \notin overtaken => InFlight(id) = {} /\ p = paths[id]
        /\ id \notin doubled /\ Readable(ContentAt(id, p)) => ContentAt(id, p) \in seen[v]
    BY <2>3, <2>4 DEF Reading, GetOf
  <2>6. SUFFICES /\ InFlight(id)' \subseteq seen'[v]
                 /\ v \notin overtaken' => InFlight(id)' = {} /\ p = paths'[id]
                 /\ id \notin doubled' /\ Readable(ContentAt(id, p)') => ContentAt(id, p)' \in seen'[v]
    BY <2>2, <2>3 DEF GetOf, ContentAt
  <2>7. CASE id # i
    <3>1. InFlight(id)' = {} /\ InFlight(id) = {}
      BY <2>4, <2>7, OtherFiles DEF Reading
    <3>2. ContentAt(id, p)' = ContentAt(id, p) /\ paths'[id] = paths[id] /\ (id \in doubled' <=> id \in doubled)
      BY <2>4, <2>7 DEF PutMoves, ContentAt
    <3> QED  BY <1>3, <2>5, <3>1, <3>2
  <2>8. CASE id = i
    <3>1. v \in Gets(i)
      BY <2>3, <2>4, <2>8 DEF Gets
    <3>2. RunInto(i, request[w].rec) => request[w].rec \in seen'[v] /\ v \in overtaken'
      BY <3>1 DEF RunInto
    <3>3. writer = w => request[w].rec \in seen[v] /\ v \in overtaken
      BY <2>5, <2>8 DEF InFlight
    <3>4. InFlight(id)' \subseteq {request[w].rec} /\ (writer' = None => InFlight(id)' = {})
      BY <2>8 DEF InFlight, PutMoves
    <3>5. InFlight(id)' \subseteq seen'[v]
      BY <1>3, <3>2, <3>3, <3>4 DEF PutMoves
    <3>6. v \notin overtaken' => InFlight(id)' = {} /\ p = paths'[id]
      BY <1>3, <2>5, <3>2, <3>3, <3>4 DEF PutMoves
    <3>7. ASSUME id \notin doubled', Readable(ContentAt(id, p)')
          PROVE  ContentAt(id, p)' \in seen'[v]
      <4>1. p # None /\ ContentAt(id, p)' = files'[i][p] /\ ContentAt(id, p) = files[i][p] /\ p \in Bucket
        BY <2>4, <2>8, <3>7 DEF ContentAt, Readable, Path
      <4>2. \/ i \notin doubled /\ files'[i][p] = files[i][p]
            \/ writer = w /\ files'[i][p] = request[w].rec
        BY <2>8, <3>7, <4>1 DEF PutChanges
      <4>3. CASE i \notin doubled /\ files'[i][p] = files[i][p]
        BY <1>3, <2>5, <2>8, <3>7, <4>1, <4>3
      <4>4. CASE writer = w /\ files'[i][p] = request[w].rec
        BY <1>3, <3>3, <4>1, <4>4
      <4> QED  BY <4>2, <4>3, <4>4
    <3> QED  BY <3>5, <3>6, <3>7
  <2> QED  BY <2>7, <2>8
<1>5. \A v \in Worker : GetOf(v)'
  BY <1>4 DEF GetOf
<1> QED  BY <1>1, <1>2, <1>5 DEF Reading

\* The steps a Put begins and ends with change requests so.
LEMMA NewRequest ==
  ASSUME Typed, NEW w \in Client, NEW r, request' = [request EXCEPT ![w] = r]
  PROVE  request'[w] = r /\ \A c \in Client : c # w => request'[c] = request[c]
BY DEF Typed

LEMMA PutStartReading ==
  ASSUME Typed, Locking, Reading, NEW w \in Client, PutStart(w)
  PROVE  Reading'
<1>0. PICK i : i = request[w].id
  OBVIOUS
<1> DEFINE to == RangeBucket
           r == [at |-> "writing", id |-> i, rec |-> request[w].rec, to |-> to, old |-> paths[i]]
<1>1. /\ i \in Id /\ to \in Bucket /\ request[w].rec \in Record /\ request[w].at = "decided"
      /\ phase # "down" /\ w # None
  BY <1>0, AtDecided, RangeBucketType, PutWhileUp, ClientAssumption DEF PutStart
<1>2. request' = [request EXCEPT ![w] = r] /\ writer = None /\ writer' = w
  BY <1>0 DEF PutStart
<1>3. r.at = "writing" /\ r.id = i /\ r.rec = request[w].rec
  OBVIOUS
<1>4. files' = [files EXCEPT ![i][to] = Torn]
  BY <1>0 DEF PutStart
<1> HIDE DEF r, to
<1>5. /\ \A b \in Bucket : files'[i][b] \in {files[i][b], Torn}
      /\ \A y \in Id : y # i => files'[y] = files[y]
  BY <1>1, <1>4, FileType DEF Content
<1>6. /\ paths' = paths /\ phase' = phase /\ acked' = acked /\ tried' = tried /\ doubled' = doubled
      /\ RunInto(i, request[w].rec)
  BY <1>0 DEF PutStart, memory
<1>7. request'[w] = r /\ \A c \in Client : c # w => request'[c] = request[c]
  BY <1>2, NewRequest
<1>8. PutMoves(w, i)
  BY <1>1, <1>2, <1>3, <1>5, <1>6, <1>7 DEF PutMoves
<1>9. PutChanges(w, i)
  BY <1>5, <1>6 DEF PutChanges, Readable
<1>10. FilesOf(i)'
  <2>1. FilesOf(i) /\ InFlight(i) = {} /\ Leftover(i) = {}
    BY <1>1, <1>2 DEF Reading, InFlight, Leftover
  <2>2. \A b \in Copies(i)' : b \in Copies(i) /\ files'[i][b] = files[i][b]
    BY <1>5 DEF Copies, Readable
  <2> QED  BY <1>1, <1>6, <2>1, <2>2 DEF FilesOf
<1> QED  BY <1>0, <1>1, <1>8, <1>9, <1>10, GetsGoOn

LEMMA FailedReading ==
  ASSUME Typed, Locking, Reading, NEW w \in Client, Failed(w),
         request[w].at \in {"decided", "writing", "stored"}, writer \in {w, None},
         request[w].id \in Id, request[w].rec \in Record,
         UNCHANGED <<files, paths, phase, acked, doubled, reads>>
  PROVE  Reading'
<1>0. PICK i : i = request[w].id
  OBVIOUS
<1>1. /\ i \in Id /\ phase # "down" /\ w # None
  BY <1>0, PutWhileUp, ClientAssumption
<1>2. request' = [request EXCEPT ![w] = Idle] /\ writer' = None
  BY DEF Failed
<1>3. request'[w] = Idle /\ \A c \in Client : c # w => request'[c] = request[c]
  BY <1>2, NewRequest
<1>4. tried'[i] = tried[i] \cup {request[w].rec} /\ \A y \in Id : y # i => tried'[y] = tried[y]
  BY <1>0, TriedType DEF Failed
<1>5. request[w].at # "looked" /\ request'[w].at # "looked"
  BY <1>3 DEF Idle
<1>6. PutMoves(w, i)
  BY <1>1, <1>2, <1>3, <1>4, <1>5 DEF PutMoves
<1>7. PutChanges(w, i)
  BY DEF PutChanges
<1>8. FilesOf(i)'
  <2>1. FilesOf(i) /\ InFlight(i) \subseteq {request[w].rec} /\ Leftover(i) = {}
    BY <1>1 DEF Reading, InFlight, Leftover
  <2>2. Copies(i)' = Copies(i)
    BY DEF Copies
  <2> QED  BY <1>1, <1>4, <2>1, <2>2 DEF FilesOf
<1> QED  BY <1>0, <1>1, <1>6, <1>7, <1>8, GetsGoOn

LEMMA WriteReading ==
  ASSUME Typed, Locking, PutGoesOn, Reading, NEW w \in Client, Write(w)
  PROVE  Reading'
<1>0. PICK i, to, rec : i = request[w].id /\ to = request[w].to /\ rec = request[w].rec
  OBVIOUS
<1> DEFINE r == [request[w] EXCEPT !.at = "written"]
<1>1. /\ request[w] \in Putting /\ writer = w /\ i \in Id /\ to \in Bucket /\ rec \in Record
      /\ request[w].at = "writing" /\ phase # "down" /\ w # None
  BY <1>0, InPut, PutWhileUp, ClientAssumption DEF Write, Steps
<1>2. r.at = "written" /\ r.id = i /\ r.rec = rec /\ r.old = request[w].old
  BY <1>0, <1>1 DEF Putting
<1>3. request' = [request EXCEPT ![w] = r] /\ writer' = w
  BY <1>1 DEF Write
<1> HIDE DEF r
<1>4. request'[w] = r /\ \A c \in Client : c # w => request'[c] = request[c]
  BY <1>3, NewRequest
<1>5. files' = [files EXCEPT ![i][to] = rec] /\ paths' = [paths EXCEPT ![i] = to]
  BY <1>0 DEF Write
<1>6. /\ files'[i][to] = rec /\ \A b \in Bucket : b # to => files'[i][b] = files[i][b]
      /\ \A y \in Id : y # i => files'[y] = files[y]
      /\ paths'[i] = to /\ \A y \in Id : y # i => paths'[y] = paths[y]
  BY <1>1, <1>5 DEF Typed
<1>7. /\ phase' = phase /\ acked' = acked /\ tried' = tried /\ doubled' = doubled /\ reads' = reads
  BY DEF Write
<1>8. PutMoves(w, i)
  BY <1>0, <1>1, <1>2, <1>3, <1>4, <1>6, <1>7 DEF PutMoves
<1>9. PutChanges(w, i)
  BY <1>0, <1>1, <1>6, <1>7 DEF PutChanges
<1>10. FilesOf(i)'
  <2>1. FilesOf(i) /\ InFlight(i) \subseteq {rec} /\ Leftover(i) = {} /\ paths[i] = request[w].old
    BY <1>0, <1>1 DEF Reading, InFlight, Leftover, PutGoesOn
  <2>2. InFlight(i)' = {rec} /\ Leftover(i)' = {request[w].old}
    BY <1>1, <1>2, <1>3, <1>4 DEF InFlight, Leftover
  <2>3. \A b \in Copies(i)' : b = to \/ (b \in Copies(i) /\ files'[i][b] = files[i][b])
    BY <1>6 DEF Copies
  <2> QED  BY <1>1, <1>6, <1>7, <2>1, <2>2, <2>3 DEF FilesOf
<1> QED  BY <1>0, <1>1, <1>8, <1>9, <1>10, GetsGoOn

\* The old file goes, or it stays and the record has two.
LEMMA RemoveReading ==
  ASSUME Typed, Locking, PutGoesOn, Reading, NEW w \in Client, RemoveOld(w) \/ RemoveFails(w)
  PROVE  Reading'
<1>0. PICK i, to, rec : i = request[w].id /\ to = request[w].to /\ rec = request[w].rec
  OBVIOUS
<1> DEFINE r == [request[w] EXCEPT !.at = "stored"]
           old == request[w].old
<1>1. /\ request[w] \in Putting /\ writer = w /\ i \in Id /\ to \in Bucket /\ rec \in Record
      /\ old \in Path /\ request[w].at = "written" /\ phase # "down" /\ w # None
  BY <1>0, InPut, PutWhileUp, ClientAssumption DEF RemoveOld, RemoveFails, Steps
<1>2. r.at = "stored" /\ r.id = i /\ r.rec = rec
  BY <1>0, <1>1 DEF Putting
<1>3. request' = [request EXCEPT ![w] = r] /\ writer' = w
  BY <1>1 DEF RemoveOld, RemoveFails
<1> HIDE DEF r
<1>4. request'[w] = r /\ \A c \in Client : c # w => request'[c] = request[c]
  BY <1>3, NewRequest
<1>5. paths' = paths /\ phase' = phase /\ acked' = acked /\ tried' = tried /\ reads' = reads
  BY DEF RemoveOld, RemoveFails, memory, history
<1>6. paths[i] = to
  BY <1>0, <1>1 DEF PutGoesOn
<1>7. CASE RemoveOld(w)
  <2>1. doubled' = doubled
    BY <1>7 DEF RemoveOld, history
  <2>2. /\ \A b \in Bucket : files'[i][b] \in {files[i][b], NoFile}
        /\ \A b \in Bucket : b = old /\ b # to => files'[i][b] = NoFile
        /\ \A y \in Id : y # i => files'[y] = files[y]
    <3>1. CASE files' = files /\ old \in {None, to}
      BY <3>1, BucketsFinite
    <3>2. CASE old \notin {None, to} /\ files' = [files EXCEPT ![i][old] = NoFile]
      <4>1. old \in Bucket
        BY <1>1, <3>2 DEF Path
      <4> HIDE DEF old
      <4> QED  BY <1>1, <3>2, <4>1, FileType DEF Content
    <3> QED  BY <1>0, <1>7, <3>1, <3>2 DEF RemoveOld
  <2>3. PutMoves(w, i)
    BY <1>0, <1>1, <1>2, <1>3, <1>4, <1>5, <2>1, <2>2 DEF PutMoves
  <2>4. PutChanges(w, i)
    BY <2>1, <2>2 DEF PutChanges, Readable
  <2>5. FilesOf(i)'
    <3>1. FilesOf(i) /\ InFlight(i) = {rec} /\ Leftover(i) = {old}
      BY <1>0, <1>1 DEF Reading, InFlight, Leftover
    <3>2. InFlight(i)' = {rec}
      BY <1>1, <1>2, <1>3, <1>4 DEF InFlight
    <3>3. \A b \in Copies(i)' : b \in Copies(i) /\ files'[i][b] = files[i][b] /\ (b = old => b = to)
      BY <2>2 DEF Copies, Readable
    <3> QED  BY <1>1, <1>5, <1>6, <2>1, <3>1, <3>2, <3>3 DEF FilesOf
  <2> QED  BY <1>0, <1>1, <2>3, <2>4, <2>5, GetsGoOn
<1>8. CASE RemoveFails(w)
  <2>1. files' = files /\ doubled' = doubled \cup {i}
    BY <1>0, <1>8 DEF RemoveFails, disk
  <2>2. PutMoves(w, i)
    BY <1>0, <1>1, <1>2, <1>3, <1>4, <1>5, <2>1 DEF PutMoves
  <2>3. PutChanges(w, i) /\ FilesOf(i)'
    BY <2>1 DEF PutChanges, FilesOf
  <2> QED  BY <1>0, <1>1, <2>2, <2>3, GetsGoOn
<1> QED  BY <1>7, <1>8

LEMMA IndexReading ==
  ASSUME Typed, Locking, PutGoesOn, Reading, NEW w \in Client, Index(w)
  PROVE  Reading'
<1>0. PICK i, to, rec : i = request[w].id /\ to = request[w].to /\ rec = request[w].rec
  OBVIOUS
<1>1. /\ writer = w /\ i \in Id /\ to \in Bucket /\ rec \in Record
      /\ request[w].at = "stored" /\ phase # "down" /\ w # None
  BY <1>0, InPut, PutWhileUp, ClientAssumption DEF Index, Steps
<1>2. request' = [request EXCEPT ![w] = Idle] /\ writer' = None
  BY DEF Index
<1>3. request'[w] = Idle /\ \A c \in Client : c # w => request'[c] = request[c]
  BY <1>2, NewRequest
<1>4. /\ files' = files /\ paths' = paths /\ phase' = phase /\ reads' = reads
      /\ doubled' = IF Cardinality(Copies(i)) = 1 THEN doubled \ {i} ELSE doubled
  BY <1>0 DEF Index
<1>5. acked'[i] = rec /\ \A y \in Id : y # i => acked'[y] = acked[y] /\ tried'[y] = tried[y]
  BY <1>0, <1>1 DEF Index, Typed
<1>6. request[w].at # "looked" /\ request'[w].at # "looked"
  BY <1>1, <1>3 DEF Idle
<1>7. PutMoves(w, i)
  BY <1>1, <1>2, <1>3, <1>4, <1>5, <1>6 DEF PutMoves
<1>8. files[i][to] = rec /\ paths[i] = to /\ to \in Copies(i)
  <2>1. files[i][to] = rec /\ paths[i] = to
    BY <1>0, <1>1 DEF PutGoesOn
  <2> QED  BY <1>1, <2>1, KindsDiffer DEF Copies, Readable
<1>9. i \notin doubled' => Copies(i) \subseteq {to}
  <2>1. CASE i \notin doubled
    <3>1. FilesOf(i) /\ Leftover(i) = {}
      BY <1>1 DEF Reading, Leftover
    <3> QED  BY <1>1, <1>8, <2>1, <3>1 DEF FilesOf
  <2>2. CASE Cardinality(Copies(i)) = 1
    <3>1. ~(Cardinality(Copies(i)) > 1)
      BY <2>2
    <3> QED  BY <1>8, <3>1, CopiesFinite
  <2> QED  BY <1>4, <2>1, <2>2
<1>10. PutChanges(w, i)
  <2>1. \A b \in Bucket : Readable(files[i][b]) => b \in Copies(i)
    BY DEF Copies
  <2> QED  BY <1>0, <1>1, <1>4, <1>8, <1>9, <2>1 DEF PutChanges
<1>11. FilesOf(i)'
  <2>1. Copies(i)' = Copies(i)
    BY <1>4 DEF Copies
  <2> QED  BY <1>1, <1>4, <1>5, <1>8, <1>9, <2>1 DEF FilesOf
<1> QED  BY <1>0, <1>1, <1>7, <1>10, <1>11, GetsGoOn

\* Steps that no Put makes leave the files and what may be in them as it is.
LEMMA AsideFiles ==
  ASSUME Reading, Aside, NEW id \in Id
  PROVE  FilesOf(id)' /\ InFlight(id)' = InFlight(id)
<1> USE DEF Aside
<1>1. InFlight(id)' = InFlight(id) /\ Leftover(id)' = Leftover(id)
  BY DEF InFlight, Leftover
<1>2. Copies(id)' = Copies(id)
  BY DEF Copies
<1> QED  BY <1>1, <1>2 DEF Reading, FilesOf

\* A Get that goes on while they are made still knows what it knew.
LEMMA AsideGet ==
  ASSUME Typed, Reading, Aside, NEW v \in Worker, request'[v] = request[v], seen'[v] = seen[v],
         v \in overtaken' <=> v \in overtaken
  PROVE  GetOf(v)'
<1> SUFFICES ASSUME request[v].at = "looked"
             PROVE  GetOf(v)'
  BY DEF GetOf
<1>1. PICK id, p : id = request[v].id /\ p = request[v].path
  OBVIOUS
<1>2. id \in Id
  BY <1>1, AtLooked DEF Client
<1>3. InFlight(id)' = InFlight(id)
  BY <1>2, AsideFiles
<1>4. ContentAt(id, p)' = ContentAt(id, p) /\ paths' = paths /\ doubled' = doubled
  BY DEF Aside, ContentAt
<1>5. GetOf(v)
  BY DEF Reading
<1> QED  BY <1>1, <1>3, <1>4, <1>5 DEF GetOf, ContentAt

LEMMA LookupReading ==
  ASSUME Typed, Locking, Reading, NEW w \in Worker, NEW id \in Id, NEW cmd \in Commands,
         Lookup(w, id, cmd)
  PROVE  Reading'
<1> DEFINE r == [at |-> "looked", id |-> id, cmd |-> cmd, path |-> paths[id]]
<1>1. Aside /\ w \in Client
  BY AsideSteps DEF Client
<1>2. request' = [request EXCEPT ![w] = r] /\ writer = None /\ writer' = None /\ phase # "down"
        /\ seen' = [seen EXCEPT ![w] = {acked[id]} \cup tried[id]]
        /\ overtaken' = overtaken \ {w}
  BY DEF Lookup, Begins
<1>3. r.at = "looked" /\ r.id = id /\ r.path = paths[id]
  OBVIOUS
<1> HIDE DEF r
<1>4. request'[w] = r /\ \A c \in Client : c # w => request'[c] = request[c]
  BY <1>1, <1>2, NewRequest
<1>5. {acked[id]} \cup tried[id] \in SUBSET (Record \cup {NoRecord})
  BY DEF Typed
<1>6. seen' \in [Worker -> SUBSET (Record \cup {NoRecord})]
  BY <1>2, <1>5 DEF Reading
<1>7. seen'[w] = {acked[id]} \cup tried[id] /\ \A v \in Worker : v # w => seen'[v] = seen[v]
  BY <1>2 DEF Reading
<1>8. ASSUME NEW v \in Worker, v # w
      PROVE  GetOf(v)'
  BY <1>1, <1>2, <1>4, <1>7, <1>8, AsideGet DEF Client
<1>9. GetOf(w)'
  <2>1. InFlight(id)' = {} /\ InFlight(id) = {} /\ Leftover(id) = {}
    BY <1>2 DEF InFlight, Leftover
  <2>2. paths' = paths /\ files' = files /\ doubled' = doubled
    BY <1>1 DEF Aside
  <2>3. PICK p : p = paths[id]
    OBVIOUS
  <2>4. p \in Path
    BY <2>3 DEF Typed
  <2>5. ASSUME id \notin doubled, Readable(ContentAt(id, p))
        PROVE  ContentAt(id, p) \in seen'[w]
    <3>1. p \in Bucket /\ ContentAt(id, p) = files[id][p]
      BY <2>4, <2>5 DEF ContentAt, Readable, Path
    <3>2. p \in Copies(id)
      BY <2>5, <3>1 DEF Copies
    <3> QED  BY <1>7, <2>1, <2>5, <3>1, <3>2 DEF Reading, FilesOf
  <2>6. ContentAt(id, p)' = ContentAt(id, p)
    BY <2>2 DEF ContentAt
  <2> QED  BY <1>3, <1>4, <2>1, <2>2, <2>3, <2>5, <2>6 DEF GetOf, ContentAt
<1> QED  BY <1>1, <1>6, <1>8, <1>9, AsideFiles DEF Reading

LEMMA GetEnds ==
  ASSUME Typed, Locking, Reading, NEW w \in Worker, ReadAndDecide(w) \/ ReadAndRefuse(w)
  PROVE  Reading'
<1>1. Aside /\ w \in Client
  BY AsideSteps DEF Client
<1>2. PICK r : request' = [request EXCEPT ![w] = r] /\ r.at # "looked"
  <2>1. CASE ReadAndDecide(w)
    <3> DEFINE r == [at |-> "decided", id |-> request[w].id,
                     rec |-> Result(Found(ContentAt(request[w].id, request[w].path)), request[w].cmd)]
    <3>1. request' = [request EXCEPT ![w] = r]
      BY <2>1 DEF ReadAndDecide
    <3>2. r.at # "looked"
      OBVIOUS
    <3> HIDE DEF r
    <3> QED  BY <3>1, <3>2
  <2>2. CASE ReadAndRefuse(w)
    <3>1. request' = [request EXCEPT ![w] = Idle]
      BY <2>2 DEF ReadAndRefuse
    <3>2. Idle.at # "looked"
      BY DEF Idle
    <3> QED  BY <3>1, <3>2
  <2> QED  BY <2>1, <2>2
<1>3. request'[w] = r /\ \A c \in Client : c # w => request'[c] = request[c]
  BY <1>1, <1>2, NewRequest
<1>4. Ends(w)
  BY DEF ReadAndDecide, ReadAndRefuse
<1>5. /\ seen' \in [Worker -> SUBSET (Record \cup {NoRecord})]
      /\ \A v \in Worker : v # w => seen'[v] = seen[v] /\ (v \in overtaken' <=> v \in overtaken)
  BY <1>4 DEF Ends, Reading
<1>6. ASSUME NEW v \in Worker, v # w
      PROVE  GetOf(v)'
  BY <1>1, <1>3, <1>5, <1>6, AsideGet DEF Client
<1>7. GetOf(w)'
  BY <1>2, <1>3 DEF GetOf
<1> QED  BY <1>1, <1>5, <1>6, <1>7, AsideFiles DEF Reading

\* A step that is no Get's.
LEMMA AsideReading ==
  ASSUME Typed, Reading, Aside, reads' = reads, \A v \in Worker : request'[v] = request[v]
  PROVE  Reading'
<1>1. seen' = seen /\ overtaken' = overtaken
  BY DEF reads
<1>2. \A v \in Worker : GetOf(v)'
  BY <1>1, AsideGet
<1> QED  BY <1>1, <1>2, AsideFiles DEF Reading

\* After a start the path leads to the one file there is.
LEMMA RestartReading ==
  ASSUME Typed, Locking, Reading, Restart
  PROVE  Reading'
<1>1. /\ writer' = None /\ writer = None /\ files' = files /\ acked' = acked /\ tried' = tried
      /\ doubled' = doubled /\ request' = request /\ reads' = reads
      /\ phase = "down" /\ phase' # "down" /\ \A c \in Client : request[c] = Idle
  BY NobodyWhileDown DEF Restart
<1>2. \A v \in Worker : request'[v].at # "looked"
  BY <1>1 DEF Idle, Client
<1>3. ASSUME NEW id \in Id
      PROVE  FilesOf(id)'
  <2>1. Copies(id)' = Copies(id)
    BY <1>1 DEF Copies
  <2>2. FilesOf(id) /\ InFlight(id) = {}
    BY <1>1 DEF Reading, InFlight
  <2>3. paths'[id] = IF Copies(id) = {} THEN None ELSE LastOf(Copies(id))
    BY DEF Restart, Rebuilt, PathsRebuilt
  <2>4. Copies(id) # {} => LastOf(Copies(id)) \in Copies(id)
    BY LastCopy
  <2>5. id \notin doubled => \A b \in Copies(id) : b = paths'[id]
    BY <1>1, <2>2, <2>3, <2>4 DEF FilesOf
  <2> QED  BY <1>1, <2>1, <2>2, <2>5 DEF FilesOf
<1> QED  BY <1>1, <1>2, <1>3 DEF Reading, GetOf, reads

LEMMA CrashReading ==
  ASSUME Typed, Locking, Reading, Crash
  PROVE  Reading'
<1>1. /\ files' = files /\ acked' = acked /\ phase' = "down"
      /\ seen' = [w \in Worker |-> {}] /\ \A v \in Worker : request'[v] = Idle
      /\ doubled' = doubled \cup {id \in Id : Cardinality(Copies(id)) > 1}
  BY DEF Crash, disk, Client
<1>2. \A v \in Worker : request'[v].at # "looked"
  BY <1>1 DEF Idle
<1>3. ASSUME NEW id \in Id
      PROVE  FilesOf(id)'
  <2>1. Copies(id)' = Copies(id)
    BY <1>1 DEF Copies
  <2>2. tried'[id] = tried[id] \cup
          {request[c].rec : c \in {d \in Client : request[d].at \in Steps /\ request[d].id = id}}
    BY DEF Crash, Steps
  <2>3. InFlight(id) \subseteq tried'[id]
    <3> SUFFICES ASSUME writer # None, request[writer].id = id
                 PROVE  request[writer].rec \in tried'[id]
      BY DEF InFlight
    <3>1. writer \in Client /\ request[writer].at \in Steps
      BY DEF Locking, Typed
    <3> QED  BY <2>2, <3>1
  <2>4. id \notin doubled' => id \notin doubled /\ \A b \in Copies(id) : Copies(id) = {b}
    BY <1>1, CopiesFinite
  <2>5. FilesOf(id)
    BY DEF Reading
  <2> QED  BY <1>1, <2>1, <2>2, <2>3, <2>4, <2>5 DEF FilesOf
<1>4. seen' \in [Worker -> SUBSET (Record \cup {NoRecord})]
  BY <1>1
<1> QED  BY <1>2, <1>3, <1>4 DEF Reading, GetOf

LEMMA ReadingNext ==
  ASSUME Typed, Locking, PutGoesOn, Reading, Next
  PROVE  Reading'
<1>0. \A v \in Worker : v \in Client /\ v # Main
  BY ClientAssumption DEF Client
<1>1. ASSUME NEW w \in Client, PutRefused(w)
      PROVE  Reading'
  <2>1. request[w].at = "decided" /\ writer = None /\ request[w].id \in Id /\ request[w].rec \in Record
    BY <1>1, AtDecided DEF PutRefused
  <2> QED  BY <1>1, <2>1, FailedReading DEF PutRefused, disk, memory
<1>2. ASSUME NEW w \in Client, WriteFails(w)
      PROVE  Reading'
  <2>1. request[w].at = "writing" /\ writer = w /\ request[w].id \in Id /\ request[w].rec \in Record
    BY <1>2, InPut DEF WriteFails, Steps
  <2> QED  BY <1>2, <2>1, FailedReading DEF WriteFails, disk, memory
<1>3. ASSUME NEW w \in Client, IndexFails(w)
      PROVE  Reading'
  <2>1. request[w].at = "stored" /\ writer = w /\ request[w].id \in Id /\ request[w].rec \in Record
    BY <1>3, InPut DEF IndexFails, Steps
  <2> QED  BY <1>3, <2>1, FailedReading DEF IndexFails, disk, memory
<1>4. ASSUME Search \/ Rename \/ RenameFails
      PROVE  Reading'
  <2>1. Aside
    BY <1>4, AsideSteps
  <2>2. reads' = reads /\ request' = request
    BY <1>4 DEF Search, Rename, RenameFails, vars
  <2> QED  BY <2>1, <2>2, AsideReading
<1>5. CASE MigrateNext
  <2>1. Aside
    BY <1>5, AsideSteps
  <2>2. \E r : reads' = reads /\ request' = [request EXCEPT ![Main] = r]
    BY <1>5 DEF MigrateNext
  <2>3. \A v \in Worker : request'[v] = request[v]
    BY <1>0, <2>2 DEF Typed
  <2> QED  BY <2>1, <2>2, <2>3, AsideReading
<1> QED
  BY <1>1, <1>2, <1>3, <1>4, <1>5, LookupReading, GetEnds, PutStartReading, WriteReading,
     RemoveReading, IndexReading, RestartReading, CrashReading
  DEF Next
-----------------------------------------------------------------------------
(* The theorems.                                                           *)

LEMMA SafeAlways == Spec => []Safe
<1>1. Init => Safe
  BY TypedInit, LockingInit, KeptInit, MigratingInit, ReadingInit DEF Safe
<1>2. Safe /\ [Next]_vars => Safe'
  <2>1. ASSUME Safe, Next
        PROVE  Safe'
    BY <2>1, TypedNext, LockingNext, KeptNext, MigratingNext, ReadingNext DEF Safe
  <2>2. ASSUME Safe, UNCHANGED vars
        PROVE  Safe'
    <3> USE <2>2 DEF vars, disk, memory, history, Safe
    <3>1. Typed' /\ Locking'
      BY DEF Typed, Locking
    <3>2. PutGoesOn' /\ Kept'
      BY AsideKeeps DEF Aside
    <3>3. Migrating' /\ NoneTouched'
      BY MigrationStays DEF NoneTouched
    <3>4. Reading'
      BY AsideReading DEF Aside, Client
    <3> QED  BY <3>1, <3>2, <3>3, <3>4
  <2> QED  BY <2>1, <2>2
<1> QED  BY <1>1, <1>2, PTL DEF Spec

\* The mutex of the store has one holder at most, the client that is in Put,
\* and what commands, migration and files hold are records (Store.mu, toRecord).
THEOREM TypeCorrect == Spec => []TypeOK
<1>1. Safe => TypeOK
  <2> SUFFICES ASSUME Safe
               PROVE  TypeOK
    OBVIOUS
  <2> USE DEF Safe
  <2>1. \A id \in Id, b \in Bucket : Readable(files[id][b]) => files[id][b] \in Record
    BY DEF Typed, Content, Readable
  <2>2. \A id \in Id : paths[id] \in Bucket \cup {None}
    BY DEF Typed, Path
  <2>3. ASSUME NEW c \in Client
        PROVE  /\ request[c].at \in {"idle", "looked", "decided", "writing", "written", "stored"}
               /\ request[c].at \in {"decided", "writing", "written", "stored"} => request[c].rec \in Record
               /\ (writer = c) <=> (request[c].at \in {"writing", "written", "stored"})
    <3>1. request[c].at \in {"idle", "looked", "decided", "writing", "written", "stored"}
      BY DEF Typed, Idle, Looked, Decided, Putting, Steps
    <3>2. request[c].at \in {"decided", "writing", "written", "stored"} => request[c].rec \in Record
      BY AtDecided, InPut DEF Steps
    <3>3. (writer = c) <=> (request[c].at \in {"writing", "written", "stored"})
      BY DEF Locking, Steps
    <3> QED  BY <3>1, <3>2, <3>3
  <2>4. \A id \in Id : acked[id] \in Record \cup {NoRecord}
    BY DEF Typed
  <2> QED  BY <2>1, <2>2, <2>3, <2>4 DEF TypeOK, Typed
<1> QED  BY <1>1, SafeAlways, PTL

\* Get takes the path under the lock and reads the file without it.  What it
\* reads, if it is a record, is one the id has had since it took the path; and if
\* no Put on the record has begun since then, the file is there and whole.
\* Exceptions are records with a second file left behind and, for the latter,
\* with their only file torn (store.go Get, Put).
THEOREM AckedIsAlwaysRead == Spec => []AckedIsRead
<1>1. Safe => AckedIsRead
  <2> SUFFICES ASSUME Safe, NEW w \in Worker, request[w].at = "looked",
                      NEW id, id = request[w].id, id \notin doubled,
                      NEW content, content = ContentAt(id, request[w].path)
               PROVE  /\ Readable(content) => content \in seen[w]
                      /\ acked[id] # NoRecord /\ id \notin damaged /\ w \notin overtaken =>
                           Readable(content)
    BY DEF AckedIsRead
  <2> USE DEF Safe
  <2>1. w \in Client /\ id \in Id /\ GetOf(w)
    BY AtLooked DEF Client, Reading
  <2>2. Readable(content) => content \in seen[w]
    BY <2>1 DEF GetOf
  <2>3. ASSUME acked[id] # NoRecord, id \notin damaged, w \notin overtaken
        PROVE  Readable(content)
    <3>1. InFlight(id) = {} /\ content = Stored(id)
      BY <2>1, <2>3 DEF GetOf, Stored
    <3>2. ~Replaced(id) /\ phase # "down"
      BY <2>1, <3>1, PutWhileUp DEF Replaced, InFlight
    <3>3. Stored(id) \in {acked[id]} \cup tried[id]
      BY <2>1, <2>3, <3>2 DEF Kept, KeptOf
    <3>4. Stored(id) \in Record
      BY <2>1, <2>3, <3>3 DEF Typed
    <3> QED  BY <3>1, <3>4, KindsDiffer DEF Readable
  <2> QED  BY <2>2, <2>3
<1> QED  BY <1>1, SafeAlways, PTL

\* At every moment some file of a record that was acknowledged holds it or a
\* later try (store.go:8 and Put).
THEOREM AckedIsAlwaysOnDisk == Spec => []AckedOnDisk
<1>1. Safe => AckedOnDisk
  <2> SUFFICES ASSUME Safe, NEW id \in Id, acked[id] # NoRecord, id \notin damaged \cup doubled
               PROVE  \E b \in Bucket : files[id][b] \in {acked[id]} \cup tried[id] \cup InFlight(id)
    BY DEF AckedOnDisk
  <2> USE DEF Safe
  <2>1. KeptOf(id)
    BY DEF Kept
  <2>2. CASE phase = "down"
    BY <2>1, <2>2 DEF KeptOf
  <2>3. CASE phase # "down" /\ Replaced(id)
    <3>1. writer \in Client /\ request[writer].at \in Steps /\ request[writer].id = id
      BY <2>3 DEF Replaced, Typed, Steps
    <3>2. request[writer].to \in Bucket
      BY <3>1, InPut
    <3>3. files[id][request[writer].to] = request[writer].rec
      BY <2>3 DEF Replaced, PutGoesOn
    <3>4. InFlight(id) = {request[writer].rec}
      BY <2>3 DEF Replaced, InFlight
    <3> QED  BY <3>2, <3>3, <3>4
  <2>4. CASE phase # "down" /\ ~Replaced(id)
    <3>1. Stored(id) \in {acked[id]} \cup tried[id]
      BY <2>1, <2>4 DEF KeptOf
    <3>2. Stored(id) \in Record
      BY <3>1 DEF Typed
    <3>3. paths[id] \in Bucket /\ Stored(id) = files[id][paths[id]]
      BY <3>2, KindsDiffer DEF Stored, ContentAt, Typed, Path
    <3> QED  BY <3>1, <3>3
  <2> QED  BY <2>2, <2>3, <2>4
<1> QED  BY <1>1, SafeAlways, PTL

\* Search and component index answer as the files would (store.go Query,
\* ComponentsFor, rebuildIndexFromFiles).
THEOREM IndexesAlwaysFollow == Spec => []IndexesFollow
<1>1. Safe => IndexesFollow
  <2> SUFFICES ASSUME Safe, phase # "down", writer = None
               PROVE  IndexesFollow
    BY DEF IndexesFollow
  <2> USE DEF Safe
  <2> DEFINE live == {id \in Id : Found(Stored(id)) # NoRecord}
  <2>1. ASSUME NEW id \in live, id \notin unindexed
        PROVE  /\ search[id] = DocOf(Stored(id)) /\ search[id] # NoDoc
               /\ \A c \in DOMAIN Stored(id).affected : <<c, id>> \in comp
    <3>1. IndexKnows(id) /\ ~Replaced(id)
      BY DEF Kept, Replaced
    <3>2. search[id] = DocOf(Stored(id)) /\ \A c \in DOMAIN Stored(id).affected : <<c, id>> \in comp
      BY <2>1, <3>1 DEF IndexKnows
    <3>3. paths[id] \in Path /\ Readable(Stored(id))
      BY <2>1 DEF Typed, Found
    <3>4. Stored(id) \in Record
      BY <2>1, <3>3, ContentType DEF Stored
    <3> QED  BY <3>2, <3>4, DocType
  <2>2. ASSUME NEW q \in Filter, QueryFails(q)
        PROVE  damaged # {}
    <3>1. PICK id \in Id : Stored(id) = Torn
      BY <2>2 DEF QueryFails, Hits
    <3>2. id \in damaged
      BY <3>1 DEF Kept, TornIsDamaged
    <3> QED  BY <3>2
  <2>3. ASSUME NEW q \in Filter
        PROVE  QueryItems(q) \ unindexed =
                 {id \in live : Satisfies(DocOf(Stored(id)), q)} \ unindexed
    BY <2>1 DEF QueryItems, Hits
  <2>4. \A id \in live \ unindexed : \A c \in DOMAIN Stored(id).affected : id \in ComponentsFor(c)
    BY <2>1 DEF ComponentsFor
  <2> QED  BY <2>2, <2>3, <2>4 DEF IndexesFollow
<1> QED  BY <1>1, SafeAlways, PTL

\* Requests are served when the legacy log is in the store (main.go:50-52).
THEOREM AlwaysMigratedAll == Spec => []MigratedAll
<1>1. Safe => MigratedAll
  BY DEF Safe, Migrating, Taken, MigratedAll
<1> QED  BY <1>1, SafeAlways, PTL

\* Its import never writes over a command (main.go:54-68, FromWAL).
THEOREM MigrationUndoesNothing == Spec => []MigrationNeverUndoes
<1>1. Safe => MigrationNeverUndoes
  <2> SUFFICES ASSUME Safe, request[Main] # Idle, "rename" \notin troubles
               PROVE  touched = {}
    BY DEF MigrationNeverUndoes
  <2>1. phase = "migrating"
    BY DEF Safe, Locking
  <2> QED  BY <2>1 DEF Safe, Migrating, NoneTouched
<1> QED  BY <1>1, SafeAlways, PTL
=============================================================================
