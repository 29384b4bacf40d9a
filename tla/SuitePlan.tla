------------------------------- MODULE SuitePlan -------------------------------
(***************************************************************************)
(* The plan of a suite (lib/ci/planner.nu, lib/ci/flow-order.nu): which    *)
(* cells depend on which, and the order they are taken in. The local       *)
(* suite runner and the CI workflows are both driven by it.                *)
(***************************************************************************)
EXTENDS Naturals, FiniteSets, Sequences

CONSTANTS
  Cells,      \* the cells of the matrix
  CellOf,     \* their flow, sender and receiver (a platform and a version)
  NoParty,    \* the receiver of a one-party cell
  IdRank,     \* the place of a cell's id in alphabetical order
  Flows,
  Parties,
  JobOrder,   \* github.job_order of config/ci/workflows.nuon
  Rules       \* capability_rules of config/ci/prerequisites.nuon

Roles   == {"sender", "receiver"}
Actions == {"run", "capability-skipped", "exclude-placeholder"}

Rule == [capability : Flows, required : SUBSET Flows, roles : SUBSET Roles]

ASSUME PlanAssumption ==
  /\ IsFiniteSet(Cells)
  /\ CellOf \in [Cells -> [flow : Flows, sender : Parties,
                           receiver : Parties \cup {NoParty}]]
  /\ NoParty \notin Parties
  /\ IdRank \in [Cells -> Nat]
  /\ \A c, d \in Cells : IdRank[c] = IdRank[d] => c = d
  /\ JobOrder \in Seq(Flows)
  /\ Rules \subseteq Rule

-----------------------------------------------------------------------------
(* A capability is a flow that has passed for a party.                     *)
Produces(c) ==
  {<<r.capability, CellOf[c].sender>> :
     r \in {x \in Rules : x.capability = CellOf[c].flow}}

PartiesOf(c, roles) == {CellOf[c][role] : role \in roles} \ {NoParty}

Needs(c) ==
  UNION {{r.capability} \X PartiesOf(c, r.roles) :
           r \in {x \in Rules : CellOf[c].flow \in x.required}}

Runnable(action) == {c \in Cells : action[c] = "run"}

(* depends_on: the runnable cells that produce a capability c needs. One   *)
(* that the capability gate keeps from running is no dependency.           *)
DependsOn(c, action) ==
  IF action[c] = "run"
  THEN {p \in Runnable(action) : Produces(p) \cap Needs(c) # {}}
  ELSE {}

-----------------------------------------------------------------------------
FlowPos(f) ==
  IF \E i \in DOMAIN JobOrder : JobOrder[i] = f
  THEN CHOOSE i \in DOMAIN JobOrder : JobOrder[i] = f
  ELSE 9999

(* sort-cells-by-flow-order: by the place of the flow, then by id.         *)
Before(c, d) ==
  LET p == FlowPos(CellOf[c].flow)
      q == FlowPos(CellOf[d].flow)
  IN  p < q \/ (p = q /\ IdRank[c] < IdRank[d])

(* What the shipped configuration satisfies and nothing checks: a flow     *)
(* comes after the flows whose capabilities it requires.                   *)
CapabilitiesFirst ==
  \A r \in Rules : \A f \in r.required : FlowPos(r.capability) < FlowPos(f)

-----------------------------------------------------------------------------
Failures == {"failed", "infra-failed", "cleanup-failed"}

(* run-status-precedence, of the statuses of the cells of a suite.         *)
OverallStatus(statuses) ==
  IF statuses \cap Failures # {} THEN "failed"
  ELSE IF "running" \in statuses THEN "running"
  ELSE IF "blocked" \in statuses THEN "blocked"
  ELSE IF "missing" \in statuses THEN "missing"
  ELSE IF statuses \subseteq {"passed", "capability-skipped"} THEN "passed"
  ELSE "unknown"

=============================================================================
