------------------------------ MODULE EventLog -------------------------------
(***************************************************************************)
(* What the event store promises to its callers, without its file, its     *)
(* buffers and its mutex: a log to which batches are appended atomically   *)
(* under a version check, and whose acknowledged part survives crashes.    *)
(*                                                                         *)
(* A crash may hit an Append that has not succeeded: then a prefix of its  *)
(* batch, possibly empty and possibly all of it, is in the log afterwards. *)
(* Such unacknowledged entries are not guaranteed to be durable, a later   *)
(* crash may lose them.                                                    *)
(***************************************************************************)
EXTENDS Envelopes

CONSTANT MaxBatch   \* bound on the number of events of one Append

VARIABLES
  log,    \* the envelopes of the store, in the order they were appended
  safe,   \* length of the prefix of log that no crash can lose
  up      \* the service runs and log can be read

vars == <<log, safe, up>>

\* Non-empty batches; an Append of an empty batch changes nothing.
Batches == UNION {[1..n -> Event] : n \in 1..MaxBatch}

Init ==
  /\ log = <<>>
  /\ safe = 0
  /\ up = TRUE

\* A successful Append: the version check, then the whole batch, durable.
AppendBatch(s, expected, events) ==
  /\ up
  /\ expected = LastVersion(log, s)
  /\ log' = log \o Versioned(s, expected, events)
  /\ safe' = Len(log')
  /\ UNCHANGED up

\* Entries an earlier crash left behind become durable with a later flush.
Harden ==
  /\ up
  /\ safe' \in (safe + 1)..Len(log)
  /\ UNCHANGED <<log, up>>

\* A crash loses entries that were never acknowledged, and no others.
LoseTail ==
  /\ up /\ up' = FALSE
  /\ \E k \in safe..Len(log) :
       /\ log' = SubSeq(log, 1, k)
       /\ safe' \in safe..k

\* A crash leaves a prefix of a batch whose Append had not succeeded.
Partial(s, events) ==
  /\ up /\ up' = FALSE
  /\ \E k \in 1..Len(events) :
       /\ log' = log \o SubSeq(Versioned(s, LastVersion(log, s), events), 1, k)
       /\ safe' \in safe..Len(log')

Restart ==
  /\ ~up /\ up' = TRUE
  /\ UNCHANGED <<log, safe>>

Next ==
  \/ \E s \in Stream, events \in Batches :
       AppendBatch(s, LastVersion(log, s), events) \/ Partial(s, events)
  \/ Harden
  \/ LoseTail
  \/ Restart

Spec == Init /\ [][Next]_vars
==============================================================================
