------------------------------ MODULE MCOsvSync -------------------------------
EXTENDS OsvSync, TLC

CONSTANTS go, maven

GoMaven == <<go, maven>>
JustGo == <<go>>

Symmetry == Permutations(Record)
==============================================================================
