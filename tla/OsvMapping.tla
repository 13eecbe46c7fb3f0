------------------------------ MODULE OsvMapping -------------------------------
(***************************************************************************)
(* What comes in from outside, and what the program makes of it: an OSV    *)
(* record becomes the input of Import (service/internal/osv/mapping.go,    *)
(* osv/sync/sync.go), a CycloneDX document the components of a project     *)
(* (service/internal/sbom/cyclonedx.go).                                   *)
(*                                                                         *)
(* A coordinate is a name or a package URL together with the version that  *)
(* is written after its "@", Empty if there is none.  A record is its      *)
(* title and what it affects.                                              *)
(***************************************************************************)
EXTENDS Semver, VulnDomain

\* The version "0" of an introduced event.
Zero == [v |-> FALSE, parts |-> <<0>>, pre |-> 0]

normalizeVersion(s) == [s EXCEPT !.v = FALSE]

\* The version of the last event of a kind; <<>> if there is none.
LastOf(events, kind) ==
  LET at == {i \in DOMAIN events : events[i].kind = kind}
  IN  IF at = {} THEN <<>> ELSE <<events[Max(at)].version>>

BoundAsWritten(op, s) == <<[op |-> op, version |-> s]>>

Bound(op, s) == <<[op |-> op, version |-> normalizeVersion(s)]>>

Upper(fixed, lastAffected) ==
  IF fixed # <<>> THEN Bound("<", fixed[1])
  ELSE IF lastAffected # <<>> THEN Bound("<=", lastAffected[1])
  ELSE <<>>

Lower(introduced) ==
  IF introduced \in {<<>>, <<Zero>>} THEN <<>> ELSE Bound(">=", introduced[1])

\* rangeFromEvents: of each kind of event the last one counts.
rangeFromEvents(events) ==
  Lower(LastOf(events, "introduced"))
    \o Upper(LastOf(events, "fixed"), LastOf(events, "last_affected"))

\* The component of an affected entry: its package URL or else its name.
ComponentOf(a) == IF a.purl # Empty THEN a.purl ELSE a.name

\* Map, and upsert: the inputs of Import.
RangesOf(a) ==
  {[component |-> ComponentOf(a), range |-> rangeFromEvents(rg.events),
    ecosystem |-> a.ecosystem] :
     rg \in {x \in ToSet(a.ranges) : /\ x.type \in {"ECOSYSTEM", "SEMVER"}
                                    /\ rangeFromEvents(x.events) # <<>>}}

Map(adv) ==
  [op |-> "import", meta |-> adv.summary,
   inputs |-> UNION {RangesOf(a) : a \in {x \in ToSet(adv.affected) : ComponentOf(x) # Empty}}]

-----------------------------------------------------------------------------
\* The identifier of an SBOM component: package URL, name@version or bom-ref.
Identifier(c) ==
  CASE c.purl # Empty -> c.purl
    [] c.purl = Empty /\ c.packageURL # Empty -> c.packageURL
    [] c.purl = Empty /\ c.packageURL = Empty /\ c.name # Empty ->
         [name |-> c.name, at |-> c.version]
    [] OTHER -> c.bomRef

\* sbom.Parse: the components with an identifier and a version.
ParseSbom(doc) ==
  LET cs == SelectSeq(doc, LAMBDA c : Identifier(c) # Empty /\ c.version # Empty)
  IN  [i \in DOMAIN cs |-> [component |-> Identifier(cs[i]), version |-> cs[i].version]]
==============================================================================
