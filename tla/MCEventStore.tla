---------------------------- MODULE MCEventStore -----------------------------
EXTENDS EventStore, TLC

Symmetry ==
  Permutations(Worker) \cup Permutations(Stream) \cup Permutations(Event)
==============================================================================
