-------------------------- MODULE Envelopes_proofs ---------------------------
(***************************************************************************)
(* Lemmas about versions in a sequence of envelopes.                       *)
(***************************************************************************)
EXTENDS Envelopes, SequenceTheorems, WellFoundedInduction, TLAPS

\* A non-empty set of positions has a last one.
LEMMA LastExists ==
  ASSUME NEW n \in Nat, NEW S \in SUBSET (1..n), S # {}
  PROVE  \E i \in S : \A j \in S : j <= i
<1> DEFINE T == {n - i : i \in S}
<1>1. T \subseteq Nat /\ T # {}
  <2>1. \A i \in S : n - i \in Nat
    OBVIOUS
  <2>2. PICK i \in S : TRUE
    OBVIOUS
  <2> QED  BY <2>1, <2>2
<1>2. PICK t \in T : \A u \in T : ~ (<<u, t>> \in OpToRel(<, Nat))
  BY <1>1, NatLessThanWellFounded, WFMin, Zenon
<1>3. \A u \in T : ~ (u < t)
  BY <1>1, <1>2 DEF OpToRel
<1>4. PICK i \in S : t = n - i
  BY <1>2
<1>5. \A j \in S : j <= i
  BY <1>3, <1>4
<1> QED
  BY <1>5

\* The version of the last envelope of a stream is that of some envelope of
\* the stream after which no other follows.
LEMMA LastPosition ==
  ASSUME NEW m \in Seq(Envelope), NEW s, PositionsOf(m, s) # {}
  PROVE  \E i \in PositionsOf(m, s) :
           /\ \A j \in PositionsOf(m, s) : j <= i
           /\ LastVersion(m, s) = m[i].version
<1> DEFINE P == PositionsOf(m, s)
<1>1. \E i \in P : \A j \in P : j <= i
  <2>1. Len(m) \in Nat /\ P \in SUBSET (1..Len(m))
    BY DEF PositionsOf
  <2> QED  BY <2>1, LastExists
<1>2. \A i \in P : (\A j \in P : j <= i) =>
        i = CHOOSE k \in P : \A j \in P : j <= k
  <2>1. \A i, k \in P : (\A j \in P : j <= i) /\ (\A j \in P : j <= k) => i = k
    BY DEF PositionsOf
  <2> QED  BY <2>1
<1> QED
  BY <1>1, <1>2 DEF LastVersion

\* Every position of a sequence of envelopes holds an envelope.
LEMMA EnvelopeAt ==
  ASSUME NEW m \in Seq(Envelope), NEW i \in 1..Len(m)
  PROVE  m[i] \in Envelope /\ m[i].version \in Nat
<1>1. m[i] \in Envelope
  BY ElementOfSeq
<1> QED
  BY <1>1 DEF Envelope

\* The last version of a stream is a number, 0 if the stream has no envelope.
LEMMA LastVersionType ==
  ASSUME NEW m \in Seq(Envelope), NEW s
  PROVE  LastVersion(m, s) \in Nat
<1>1. CASE PositionsOf(m, s) = {}
  BY <1>1 DEF LastVersion
<1>2. CASE PositionsOf(m, s) # {}
  BY <1>2, LastPosition, EnvelopeAt DEF PositionsOf
<1> QED  BY <1>1, <1>2

\* In a sequence with increasing versions the last version is the highest.
LEMMA LastVersionHighest ==
  ASSUME NEW m \in Seq(Envelope), Monotone(m), NEW i \in 1..Len(m)
  PROVE  m[i].version <= LastVersion(m, m[i].stream)
<1>1. i \in PositionsOf(m, m[i].stream)
  BY DEF PositionsOf
<1>2. PICK k \in PositionsOf(m, m[i].stream) :
        /\ \A j \in PositionsOf(m, m[i].stream) : j <= k
        /\ LastVersion(m, m[i].stream) = m[k].version
  BY <1>1, LastPosition
<1>3. i <= k /\ k \in 1..Len(m) /\ m[k].stream = m[i].stream
  BY <1>1, <1>2 DEF PositionsOf
<1>4. m[i].version \in Nat /\ m[k].version \in Nat
  BY <1>3, EnvelopeAt
<1>5. CASE i = k
  BY <1>2, <1>4, <1>5
<1>6. CASE i < k
  BY <1>2, <1>3, <1>4, <1>6 DEF Monotone
<1> QED
  BY <1>3, <1>5, <1>6

\* What an Append does to the last versions: the stream of the batch gets
\* the version of the batch's last envelope, the other streams keep theirs.
LEMMA LastVersionOfConcat ==
  \A m, b \in Seq(Envelope), s \in Stream, v \in Nat :
    b # <<>> /\ (\A i \in 1..Len(b) : b[i].stream = s /\ b[i].version = v + i)
      => /\ LastVersion(m \o b, s) = v + Len(b)
         /\ \A t : t # s => LastVersion(m \o b, t) = LastVersion(m, t)
<1> SUFFICES ASSUME NEW m \in Seq(Envelope), NEW b \in Seq(Envelope),
                    NEW s \in Stream, NEW v \in Nat, b # <<>>,
                    \A i \in 1..Len(b) : b[i].stream = s /\ b[i].version = v + i
             PROVE  /\ LastVersion(m \o b, s) = v + Len(b)
                    /\ \A t : t # s => LastVersion(m \o b, t) = LastVersion(m, t)
  OBVIOUS
<1> DEFINE c == m \o b
<1>1. /\ c \in Seq(Envelope)
      /\ Len(c) = Len(m) + Len(b)
      /\ \A i \in 1..Len(c) : c[i] = IF i <= Len(m) THEN m[i] ELSE b[i - Len(m)]
  BY ConcatProperties
<1>2. Len(b) \in Nat \ {0} /\ Len(m) \in Nat
  BY EmptySeq
<1> HIDE DEF c
<1>3. LastVersion(c, s) = v + Len(b)
  <2>1. Len(c) \in PositionsOf(c, s) /\ c[Len(c)] = b[Len(b)]
    <3>1. Len(c) \in 1..Len(c) /\ ~ (Len(c) <= Len(m)) /\ Len(c) - Len(m) = Len(b)
      BY <1>1, <1>2
    <3>2. c[Len(c)] = b[Len(b)] /\ Len(b) \in 1..Len(b)
      BY <1>1, <1>2, <3>1
    <3> QED  BY <3>1, <3>2 DEF PositionsOf
  <2>2. PICK k \in PositionsOf(c, s) :
          /\ \A j \in PositionsOf(c, s) : j <= k
          /\ LastVersion(c, s) = c[k].version
    BY <1>1, <2>1, LastPosition
  <2>3. k = Len(c)
    <3>1. Len(c) <= k /\ k \in 1..Len(c) /\ Len(c) \in Nat
      BY <1>1, <1>2, <2>1, <2>2 DEF PositionsOf
    <3> QED  BY <3>1
  <2> QED
    BY <1>2, <2>1, <2>2, <2>3
<1>4. ASSUME NEW t, t # s
      PROVE  LastVersion(c, t) = LastVersion(m, t)
  <2>1. PositionsOf(c, t) = PositionsOf(m, t)
    <3>1. \A i \in 1..Len(c) : i \notin 1..Len(m) => c[i].stream # t
      <4> TAKE i \in 1..Len(c)
      <4>1. HAVE i \notin 1..Len(m)
      <4>2. ~ (i <= Len(m)) /\ i - Len(m) \in 1..Len(b)
        BY <1>1, <1>2, <4>1
      <4>3. c[i] = b[i - Len(m)]
        BY <1>1, <4>2
      <4> QED  BY <1>4, <4>2, <4>3
    <3>2. 1..Len(m) \subseteq 1..Len(c) /\ \A i \in 1..Len(m) : c[i] = m[i]
      BY <1>1, <1>2
    <3> QED  BY <3>1, <3>2 DEF PositionsOf
  <2>2. CASE PositionsOf(m, t) = {}
    BY <2>1, <2>2 DEF LastVersion
  <2>3. CASE PositionsOf(m, t) # {}
    <3>1. PICK k \in PositionsOf(c, t) :
            /\ \A j \in PositionsOf(c, t) : j <= k
            /\ LastVersion(c, t) = c[k].version
      BY <1>1, <2>1, <2>3, LastPosition
    <3>2. PICK l \in PositionsOf(m, t) :
            /\ \A j \in PositionsOf(m, t) : j <= l
            /\ LastVersion(m, t) = m[l].version
      BY <2>3, LastPosition
    <3>3. k = l
      BY <2>1, <3>1, <3>2 DEF PositionsOf
    <3>4. c[l] = m[l]
      BY <1>1, <1>2, <3>2 DEF PositionsOf
    <3> QED
      BY <3>1, <3>2, <3>3, <3>4
  <2> QED  BY <2>2, <2>3
<1> QED
  BY <1>3, <1>4 DEF c
==============================================================================
