---------------------------- MODULE SuitePlanProofs ----------------------------
(***************************************************************************)
(* Facts about the plan, of any matrix and any rules, that both those who  *)
(* run the suite rest on.                                                  *)
(***************************************************************************)
EXTENDS SuitePlan, FiniteSetTheorems, TLAPS

(* Every flow has a place in the order, listed or not.                     *)
LEMMA FlowPosNat == \A f : FlowPos(f) \in Nat
<1> TAKE f
<1>1. CASE \E i \in DOMAIN JobOrder : JobOrder[i] = f
  BY <1>1, PlanAssumption DEF FlowPos
<1>2. CASE ~ \E i \in DOMAIN JobOrder : JobOrder[i] = f
  BY <1>2 DEF FlowPos
<1>3. QED
  BY <1>1, <1>2

(* Before is a strict total order of the cells.                            *)
LEMMA BeforeIsAnOrder ==
  ASSUME NEW c \in Cells, NEW d \in Cells, NEW e \in Cells
  PROVE  /\ ~Before(c, c)
         /\ Before(c, d) => ~Before(d, c)
         /\ Before(c, d) /\ Before(d, e) => Before(c, e)
         /\ c # d => Before(c, d) \/ Before(d, c)
<1> DEFINE P(x) == FlowPos(CellOf[x].flow)
<1>1. P(c) \in Nat /\ P(d) \in Nat /\ P(e) \in Nat
  BY FlowPosNat
<1>2. /\ IdRank[c] \in Nat /\ IdRank[d] \in Nat /\ IdRank[e] \in Nat
      /\ IdRank[c] = IdRank[d] => c = d
  BY PlanAssumption
<1>3. \A x, y : Before(x, y) <=> P(x) < P(y) \/ (P(x) = P(y) /\ IdRank[x] < IdRank[y])
  BY DEF Before
<1> HIDE DEF P
<1>4. QED
  BY <1>1, <1>2, <1>3

(* A cell depends on runnable cells only, and their flows come first.      *)
LEMMA DependenciesComeFirst ==
  ASSUME CapabilitiesFirst, NEW act, NEW c \in Cells, NEW d \in DependsOn(c, act)
  PROVE  /\ d \in Runnable(act) /\ c \in Runnable(act)
         /\ FlowPos(CellOf[d].flow) < FlowPos(CellOf[c].flow)
         /\ Before(d, c)
<1>1. /\ act[c] = "run" /\ d \in Runnable(act)
      /\ Produces(d) \cap Needs(c) # {}
  BY DEF DependsOn
<1>2. c \in Runnable(act) /\ d \in Cells
  BY <1>1 DEF Runnable
<1>3. PICK need : need \in Produces(d) /\ need \in Needs(c)
  BY <1>1
<1>4. PICK r \in Rules : /\ r.capability = CellOf[d].flow
                         /\ need = <<r.capability, CellOf[d].sender>>
  BY <1>3 DEF Produces
<1>5. PICK s \in Rules : /\ CellOf[c].flow \in s.required
                         /\ need \in {s.capability} \X PartiesOf(c, s.roles)
  BY <1>3 DEF Needs
<1>6. need[1] = s.capability /\ need[1] = CellOf[d].flow
  BY <1>4, <1>5
<1>7. FlowPos(CellOf[d].flow) < FlowPos(CellOf[c].flow)
  BY <1>5, <1>6 DEF CapabilitiesFirst
<1>8. QED
  BY <1>1, <1>2, <1>7 DEF Before

(* Any statuses of cells have a status of the suite.                       *)
LEMMA OverallStatusType ==
  \A S : OverallStatus(S) \in {"running", "passed", "failed", "blocked",
                               "missing", "unknown"}
BY DEF OverallStatus

LEMMA DisjointUnion ==
  ASSUME NEW A, NEW B, IsFiniteSet(A), IsFiniteSet(B), A \cap B = {}
  PROVE  /\ IsFiniteSet(A \cup B)
         /\ Cardinality(A \cup B) = Cardinality(A) + Cardinality(B)
<1>1. Cardinality(A \cap B) = 0
  BY FS_EmptySet
<1>2. Cardinality(A) \in Nat /\ Cardinality(B) \in Nat
  BY FS_CardinalityType
<1>3. /\ IsFiniteSet(A \cup B)
      /\ Cardinality(A \cup B) = Cardinality(A) + Cardinality(B) - Cardinality(A \cap B)
  BY FS_Union
<1>4. QED
  BY <1>1, <1>2, <1>3

=============================================================================
