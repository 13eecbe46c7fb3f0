------------------------------ MODULE Envelopes ------------------------------
(***************************************************************************)
(* The records the event store keeps: an envelope is one event with the    *)
(* stream it belongs to and its version in that stream.                    *)
(*                                                                         *)
(* The event identifier "<stream>-<version>" is a function of the two and  *)
(* the timestamp is read by nobody, so neither is kept.  The store's index *)
(* maps every stream to the slice of its envelopes; it is represented by   *)
(* one sequence m of envelopes, the slice of stream s being the entries of *)
(* m whose stream is s, in the order of m.                                 *)
(***************************************************************************)
EXTENDS Naturals, Sequences

CONSTANTS
  Stream,   \* stream identifiers
  Event     \* payloads of events

Envelope == [stream : Stream, version : Nat, event : Event]

\* The positions of the envelopes of stream s in m.
PositionsOf(m, s) == {i \in 1..Len(m) : m[i].stream = s}

\* The version of the last envelope of stream s in m, 0 if there is none.
LastVersion(m, s) ==
  IF PositionsOf(m, s) = {}
  THEN 0
  ELSE m[CHOOSE i \in PositionsOf(m, s) : \A j \in PositionsOf(m, s) : j <= i].version

\* The envelopes a batch of events is recorded as after version last.
Versioned(s, last, events) ==
  [i \in 1..Len(events) |->
     [stream |-> s, version |-> last + i, event |-> events[i]]]

\* In m every stream's versions strictly increase.
Monotone(m) ==
  \A i, j \in 1..Len(m) :
    i < j /\ m[i].stream = m[j].stream => m[i].version < m[j].version
==============================================================================
