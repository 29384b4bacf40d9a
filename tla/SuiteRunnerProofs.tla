--------------------------- MODULE SuiteRunnerProofs ---------------------------
(***************************************************************************)
(* The local suite runner keeps the promise of PrereqGate, for any matrix, *)
(* any rules and any options, provided that the order of the jobs puts     *)
(* capabilities first; and, in any order, its record, its marker and its   *)
(* exit code tell what has happened.                                       *)
(***************************************************************************)
EXTENDS SuiteRunner, SuitePlanProofs

-----------------------------------------------------------------------------
(* What --max leaves is an initial part of the order.                      *)
LEMMA ScheduledIsAPrefix ==
  ASSUME opts.max \in Nat, NEW c \in Scheduled, NEW d \in Runnable(action),
         Before(d, c)
  PROVE  d \in Scheduled
<1>1. c \in Cells /\ d \in Cells
  BY DEF Scheduled, Runnable
<1>2. Earlier(d) \subseteq Earlier(c)
  BY <1>1, BeforeIsAnOrder DEF Earlier, Runnable
<1>3. IsFiniteSet(Earlier(c)) /\ IsFiniteSet(Earlier(d))
  BY PlanAssumption, FS_Subset DEF Earlier, Runnable
<1>4. /\ Cardinality(Earlier(d)) <= Cardinality(Earlier(c))
      /\ Cardinality(Earlier(d)) \in Nat /\ Cardinality(Earlier(c)) \in Nat
  BY <1>2, <1>3, FS_Subset, FS_CardinalityType
<1>5. QED
  BY <1>4 DEF Scheduled

-----------------------------------------------------------------------------
(* Types.                                                                  *)
LEMMA WithIsCounted == ASSUME NEW o PROVE Cardinality(With(o)) \in Nat
<1>1. IsFiniteSet(With(o))
  BY PlanAssumption, FS_Subset DEF With
<1>2. QED
  BY <1>1, FS_CardinalityType

LEMMA CountsType == Counts \in [Outcomes \ {"none"} -> Nat]
BY WithIsCounted DEF Counts

LEMMA NoRecordType ==
  /\ NoRecord \in RecordState
  /\ [NoRecord EXCEPT !.status = "running"] \in RecordState
BY DEF NoRecord, NoCounts, RecordState, Outcomes

LEMMA AddEntryType ==
  ASSUME record \in RecordState, NEW c \in Cells, NEW s \in Results \cup Outcomes,
         NEW saved \in BOOLEAN, AddEntry(c, s, saved)
  PROVE  record' \in RecordState
<1>1. CASE record' = record
  BY <1>1
<1>2. CASE record' = [record EXCEPT !.entries = @ \cup {<<c, s>>}]
  BY <1>2 DEF RecordState
<1>3. QED
  BY <1>1, <1>2 DEF AddEntry

LEMMA AccountType ==
  ASSUME TypeOK, NEW c \in Cells, NEW s \in {"blocked", "capability-skipped"},
         Account(c, s)
  PROVE  /\ outcome' \in [Cells -> Outcomes]
         /\ record' \in RecordState
         /\ artifact' \in [Cells -> Results \cup {"none", "blocked", "capability-skipped"}]
         /\ saveFailed' \in BOOLEAN
<1>1. PICK emitted \in BOOLEAN, added \in BOOLEAN :
        Emit(c, s, emitted) /\ AddEntry(c, s, added) /\ Notice(emitted /\ added)
  BY DEF Account
<1>2. record' \in RecordState
  BY <1>1, AddEntryType, SMTT(20) DEF TypeOK, Outcomes
<1>3. artifact' \in [Cells -> Results \cup {"none", "blocked", "capability-skipped"}]
  BY <1>1 DEF Emit, TypeOK
<1>4. saveFailed' \in BOOLEAN
  BY <1>1 DEF Notice, TypeOK
<1>5. outcome' \in [Cells -> Outcomes]
  BY DEF Account, TypeOK, Outcomes
<1>6. QED
  BY <1>2, <1>3, <1>4, <1>5

LEMMA TypeStep == TypeOK /\ [Next]_vars => TypeOK'
<1> SUFFICES ASSUME TypeOK, [Next]_vars PROVE TypeOK'
  OBVIOUS
<1> USE DEF TypeOK
<1> HIDE DEF RecordState
<1>1. CASE InitRecord
  BY <1>1, NoRecordType DEF InitRecord, Pcs, Ended
<1>2. ASSUME NEW c \in Cells, SkipGated(c) PROVE TypeOK'
  BY <1>2, AccountType DEF SkipGated
<1>3. CASE StartLoop
  BY <1>3 DEF StartLoop, Pcs
<1>4. ASSUME NEW c \in Cells, BlockCell(c) PROVE TypeOK'
  BY <1>4, AccountType DEF BlockCell
<1>5. ASSUME NEW c \in Cells, RunCell(c) PROVE TypeOK'
  BY <1>5 DEF RunCell, Pcs
<1>6. CASE ChildReports
  <2>1. child \in Cells
    BY <1>6 DEF ChildReports
  <2>2. PICK r \in Results :
          /\ artifact' = [artifact EXCEPT ![child] = r]
          /\ \/ record' = [record EXCEPT !.entries = @ \cup {<<child, r>>}]
             \/ UNCHANGED record
    BY <1>6 DEF ChildReports
  <2>3. record' \in RecordState
    BY <2>1, <2>2 DEF RecordState
  <2>4. QED
    BY <1>6, <2>1, <2>2, <2>3 DEF ChildReports
<1>7. CASE ChildPasses
  BY <1>7 DEF ChildPasses, Notice, Pcs, Outcomes
<1>8. CASE ChildFails
  BY <1>8 DEF ChildFails, AfterFailure, Pcs, Outcomes
<1>9. ASSUME NEW c \in Cells, SkipCell(c) PROVE TypeOK'
  <2>1. PICK added \in BOOLEAN : AddEntry(c, "skipped", added) /\ Notice(added)
    BY <1>9 DEF SkipCell
  <2>2. record' \in RecordState
    BY <2>1, AddEntryType DEF Outcomes
  <2>3. QED
    BY <1>9, <2>1, <2>2 DEF SkipCell, Notice, Outcomes
<1>10. CASE EndLoop
  BY <1>10 DEF EndLoop, Pcs
<1>11. CASE FinishRecord
  <2>1. record' \in RecordState
    <3>1. CASE UNCHANGED record
      BY <3>1
    <3>2. CASE record' = [record EXCEPT !.status = OverallStatus(SyntheticStatuses),
                                        !.counts = Counts]
      BY <3>2, CountsType, OverallStatusType DEF RecordState
    <3>3. QED
      BY <1>11, <3>1, <3>2 DEF FinishRecord
  <2>2. QED
    BY <1>11, <2>1 DEF FinishRecord, Pcs
<1>12. CASE Mark
  BY <1>12 DEF Mark, LatestNow, Pcs, Ended
<1>13. CASE Publish
  BY <1>13 DEF Publish, ExitCode, Pcs, Ended
<1>14. CASE Kill
  BY <1>14 DEF Kill, Pcs, Ended
<1>15. CASE UNCHANGED vars
  BY <1>15 DEF vars
<1>16. QED
  BY <1>1, <1>2, <1>3, <1>4, <1>5, <1>6, <1>7, <1>8, <1>9, <1>10, <1>11, <1>12,
     <1>13, <1>14, <1>15 DEF Next, Step

LEMMA TypeInit == Init => TypeOK
BY NoRecordType DEF Init, TypeOK, Pcs, Ended, Outcomes

(* Every step keeps the runner's lists, the record, its counts and the     *)
(* artifacts within their types (cypress-suite.nu, index.nu).              *)
THEOREM TypeCorrect == Spec => []TypeOK
<1>1. QED
  BY TypeInit, TypeStep, PTL DEF Spec

-----------------------------------------------------------------------------
(* The invariant behind the refinement: where the cell that is running     *)
(* comes from, and which of the outcomes are possible where.               *)
ChildIsNext ==
  child # NoCell =>
    /\ pc \in {"child", "killed"}
    /\ IsNext(child)
    /\ ~IsBlocked(child)

ChildIsThere == pc = "child" => child # NoCell

SkipsComeLast ==
  pc \in {"init", "gated", "loop", "child"} \/ child # NoCell =>
    With("skipped") = {}

TailFollowsAFailure == pc = "tail" => With("failed") # {}

GatedOnly ==
  \A c \in Cells : outcome[c] = "capability-skipped" =>
    action[c] = "capability-skipped"

Inv == /\ TypeOK /\ ChildIsNext /\ ChildIsThere /\ SkipsComeLast
       /\ TailFollowsAFailure /\ GatedOnly

LEMMA InvInit == Init => Inv
<1> SUFFICES ASSUME Init PROVE Inv
  OBVIOUS
<1>1. TypeOK
  BY TypeInit
<1>2. ChildIsNext /\ ChildIsThere /\ SkipsComeLast /\ TailFollowsAFailure /\ GatedOnly
  BY DEF Init, ChildIsNext, ChildIsThere, SkipsComeLast, TailFollowsAFailure,
         GatedOnly, With
<1>3. QED
  BY <1>1, <1>2 DEF Inv

LEMMA InvStep == Inv /\ [Next]_vars => Inv'
<1> SUFFICES ASSUME Inv, [Next]_vars PROVE Inv'
  OBVIOUS
<1>0. TypeOK'
  BY TypeStep DEF Inv
<1> USE DEF Inv
<1> DEFINE Rest == /\ ChildIsNext /\ ChildIsThere /\ SkipsComeLast
                   /\ TailFollowsAFailure /\ GatedOnly
<1>1. ASSUME UNCHANGED <<action, opts, child, outcome>>,
             pc' = pc \/ pc' \notin {"init", "gated", "loop", "child", "tail"},
             child # NoCell => pc' \in {"child", "killed"}
      PROVE  Rest'
  BY <1>1 DEF ChildIsNext, ChildIsThere, SkipsComeLast, TailFollowsAFailure,
              GatedOnly, With, IsNext, IsBlocked, Remaining, Scheduled, Earlier,
              Unavailable, DependsOn, Runnable
<1>2. ASSUME UNCHANGED <<action, opts, child, outcome>>, child = NoCell,
             <<pc, pc'>> \in {<<"init", "gated">>, <<"gated", "loop">>}
      PROVE  Rest'
  BY <1>2 DEF ChildIsNext, ChildIsThere, SkipsComeLast, TailFollowsAFailure,
              GatedOnly, With
<1>3. CASE InitRecord
  <2>1. child = NoCell
    BY <1>3 DEF InitRecord, ChildIsNext
  <2>2. QED
    BY <1>0, <1>1, <1>2, <1>3, <2>1 DEF InitRecord
<1>4. CASE StartLoop
  <2>1. child = NoCell
    BY <1>4 DEF StartLoop, ChildIsNext
  <2>2. QED
    BY <1>0, <1>2, <1>4, <2>1 DEF StartLoop
<1>5. CASE ChildReports
  BY <1>0, <1>1, <1>5 DEF ChildReports, ChildIsNext
<1>6. CASE EndLoop \/ FinishRecord \/ Mark \/ Publish
  <2>1. child = NoCell
    BY <1>6 DEF EndLoop, FinishRecord, Mark, Publish, ChildIsNext
  <2>2. QED
    BY <1>0, <1>1, <1>6, <2>1 DEF EndLoop, FinishRecord, Mark, Publish
<1>7. CASE Kill
  BY <1>0, <1>1, <1>7 DEF Kill
<1>8. CASE UNCHANGED vars
  BY <1>0, <1>1, <1>8 DEF vars, ChildIsNext
<1>9. ASSUME NEW c \in Cells, SkipGated(c) PROVE Inv'
  <2>1. /\ UNCHANGED <<action, pc, child>> /\ pc = "gated"
        /\ outcome' = [outcome EXCEPT ![c] = "capability-skipped"]
        /\ action[c] = "capability-skipped" /\ child = NoCell
    BY <1>9 DEF SkipGated, Account, Gated, ChildIsNext
  <2>2. Rest'
    BY <2>1 DEF ChildIsNext, ChildIsThere, SkipsComeLast, TailFollowsAFailure,
                GatedOnly, With, TypeOK
  <2>3. QED
    BY <1>0, <2>2
<1>10. ASSUME NEW c \in Cells, BlockCell(c) PROVE Inv'
  <2>1. /\ UNCHANGED <<action, pc, child>> /\ pc = "loop" /\ child = NoCell
        /\ outcome' = [outcome EXCEPT ![c] = "blocked"]
    BY <1>10 DEF BlockCell, Account, ChildIsNext
  <2>2. Rest'
    BY <2>1 DEF ChildIsNext, ChildIsThere, SkipsComeLast, TailFollowsAFailure,
                GatedOnly, With, TypeOK
  <2>3. QED
    BY <1>0, <2>2
<1>11. ASSUME NEW c \in Cells, RunCell(c) PROVE Inv'
  <2>1. /\ UNCHANGED <<action, opts, outcome>> /\ pc = "loop" /\ pc' = "child"
        /\ child' = c /\ IsNext(c) /\ ~IsBlocked(c)
    BY <1>11 DEF RunCell
  <2>2. IsNext(c)' /\ ~IsBlocked(c)' /\ c # NoCell
    BY <2>1, RunnerAssumption
       DEF IsNext, IsBlocked, Remaining, Scheduled, Earlier, Unavailable, With,
           DependsOn, Runnable
  <2>3. ChildIsNext'
    BY <2>1, <2>2 DEF ChildIsNext, IsNext, IsBlocked, Remaining, Scheduled, Earlier,
                      Unavailable, With, DependsOn, Runnable
  <2>4. ChildIsThere' /\ SkipsComeLast' /\ TailFollowsAFailure' /\ GatedOnly'
    BY <2>1, <2>2 DEF ChildIsThere, SkipsComeLast, TailFollowsAFailure, GatedOnly, With
  <2>5. QED
    BY <1>0, <2>3, <2>4
<1>12. CASE ChildPasses \/ ChildFails
  <2>1. PICK s \in {"passed", "failed"} :
          /\ outcome' = [outcome EXCEPT ![child] = s]
          /\ child' = NoCell /\ pc' \in {"loop", "tail"}
          /\ pc' = "tail" => s = "failed"
          /\ action' = action /\ pc = "child"
    BY <1>12 DEF ChildPasses, ChildFails, AfterFailure
  <2>2. child \in Cells /\ With("skipped") = {}
    BY <2>1 DEF ChildIsThere, SkipsComeLast, TypeOK
  <2>3. Rest'
    BY <2>1, <2>2 DEF ChildIsNext, ChildIsThere, SkipsComeLast, TailFollowsAFailure,
                      GatedOnly, With, TypeOK
  <2>4. QED
    BY <1>0, <2>3
<1>13. ASSUME NEW c \in Cells, SkipCell(c) PROVE Inv'
  <2>1. /\ UNCHANGED <<action, pc, child>> /\ pc = "tail" /\ child = NoCell
        /\ outcome' = [outcome EXCEPT ![c] = "skipped"]
        /\ outcome[c] = "none"
    BY <1>13 DEF SkipCell, IsNext, Remaining, ChildIsNext
  <2>2. Rest'
    BY <2>1 DEF ChildIsNext, ChildIsThere, SkipsComeLast, TailFollowsAFailure,
                GatedOnly, With, TypeOK
  <2>3. QED
    BY <1>0, <2>2
<1>14. QED
  BY <1>3, <1>4, <1>5, <1>6, <1>7, <1>8, <1>9, <1>10, <1>11, <1>12, <1>13
     DEF Next, Step

-----------------------------------------------------------------------------
(* A cell that is next and not blocked has all its dependencies passed: in *)
(* the order of the jobs they come before it, so they have been decided,   *)
(* and not against it.                                                     *)
LEMMA DependenciesOfTheNext ==
  ASSUME CapabilitiesFirst, Inv, NEW c \in Cells,
         IsNext(c), ~IsBlocked(c), With("skipped") = {}
  PROVE  DependsOn(c, action) \subseteq With("passed")
<1> SUFFICES ASSUME NEW d \in DependsOn(c, action)
             PROVE  d \in With("passed")
  OBVIOUS
<1>1. d \in Runnable(action) /\ Before(d, c)
  BY DependenciesComeFirst
<1>2. d \in Cells
  BY <1>1 DEF Runnable
<1>3. d \in Scheduled
  <2>1. opts.max \in Nat /\ c \in Scheduled
    BY RunnerAssumption DEF Inv, TypeOK, IsNext, Remaining
  <2>2. QED
    BY <1>1, <2>1, ScheduledIsAPrefix
<1>4. d \notin Remaining
  BY <1>1, <1>2, BeforeIsAnOrder DEF IsNext
<1>5. outcome[d] # "none"
  BY <1>3, <1>4 DEF Remaining
<1>6. outcome[d] \notin {"failed", "blocked", "skipped"}
  BY <1>2 DEF IsBlocked, Unavailable, With
<1>7. outcome[d] # "capability-skipped"
  BY <1>1, <1>2 DEF Inv, GatedOnly, Runnable
<1>8. QED
  BY <1>2, <1>5, <1>6, <1>7 DEF With, Inv, TypeOK, Outcomes

(* Where the flows that produce capabilities come first in the order of    *)
(* the jobs, a cell is only run when all it depends on has passed          *)
(* (cypress-suite.nu:137-180).                                             *)
THEOREM DependenciesFirst ==
  ASSUME CapabilitiesFirst PROVE Spec => []DependenciesHavePassed
<1>1. Inv => DependenciesHavePassed
  <2> SUFFICES ASSUME Inv, child # NoCell
               PROVE  DependsOn(child, action) \subseteq With("passed")
    BY DEF DependenciesHavePassed
  <2>1. /\ child \in Cells /\ IsNext(child) /\ ~IsBlocked(child)
        /\ With("skipped") = {}
    BY DEF Inv, TypeOK, ChildIsNext, SkipsComeLast
  <2>2. QED
    BY <2>1, DependenciesOfTheNext
<1>2. QED
  BY <1>1, InvInit, InvStep, PTL DEF Spec

-----------------------------------------------------------------------------
(* The refinement, step by step.                                           *)
LEMMA GateDepsType == GateDeps \in [Cells -> SUBSET Cells]
BY DEF GateDeps, DependsOn, Runnable

LEMMA GateInit == Init => Gate!Init
<1> SUFFICES ASSUME Init PROVE Gate!Init
  OBVIOUS
<1>1. GateStatus = [c \in Cells |-> "pending"]
  BY RunnerAssumption DEF Init, GateStatus
<1>2. QED
  BY <1>1, GateDepsType DEF Gate!Init

(* A step of the runner that moves the cell c from one status to another.  *)
LEMMA GateBecomes ==
  ASSUME Inv, NEW c \in Cells, NEW s \in {"running", "passed", "failed", "blocked", "skipped"},
         UNCHANGED action,
         \/ child' = c /\ s = "running" /\ UNCHANGED outcome /\ child = NoCell
         \/ /\ child \in {c, NoCell} /\ child' = NoCell
            /\ s # "running" /\ outcome' = [outcome EXCEPT ![c] = s]
  PROVE  Gate!Becomes(c, s) /\ UNCHANGED GateDeps
<1>1. GateStatus' = [GateStatus EXCEPT ![c] = s]
  <2>1. \A d \in Cells : d # c => GateStatus'[d] = GateStatus[d]
    BY RunnerAssumption DEF GateStatus, Inv, TypeOK
  <2>2. GateStatus'[c] = s
    BY RunnerAssumption DEF GateStatus, Inv, TypeOK
  <2>3. /\ GateStatus' = [d \in Cells |-> GateStatus'[d]]
        /\ GateStatus = [d \in Cells |-> GateStatus[d]]
    BY DEF GateStatus
  <2>4. QED
    BY <2>1, <2>2, <2>3
<1>2. UNCHANGED GateDeps
  BY DEF GateDeps, DependsOn, Runnable
<1>3. QED
  BY <1>1, <1>2 DEF Gate!Becomes

LEMMA GateStep ==
  ASSUME CapabilitiesFirst, Inv, [Next]_vars
  PROVE  [Gate!Next]_(Gate!vars)
<1> USE DEF Inv
<1>1. ASSUME UNCHANGED <<action, child, outcome>>
      PROVE  UNCHANGED Gate!vars
  BY <1>1 DEF Gate!vars, GateStatus, GateDeps, DependsOn, Runnable
<1>2. ASSUME NEW c \in Cells, SkipGated(c) PROVE UNCHANGED Gate!vars
  <2>1. /\ UNCHANGED <<action, child>>
        /\ outcome' = [outcome EXCEPT ![c] = "capability-skipped"]
        /\ outcome[c] = "none"
    BY <1>2 DEF SkipGated, Account
  <2>2. UNCHANGED GateStatus
    BY <2>1 DEF GateStatus, TypeOK
  <2>3. QED
    BY <2>1, <2>2 DEF Gate!vars, GateDeps, DependsOn, Runnable
<1>3. ASSUME NEW c \in Cells, RunCell(c) PROVE Gate!Next
  <2>1. /\ child = NoCell /\ IsNext(c) /\ ~IsBlocked(c) /\ With("skipped") = {}
        /\ child' = c /\ UNCHANGED <<action, outcome>>
    BY <1>3 DEF RunCell, ChildIsNext, SkipsComeLast
  <2>2. GateStatus[c] = "pending"
    BY <2>1, RunnerAssumption DEF GateStatus, IsNext, Remaining
  <2>3. \A d \in GateDeps[c] : GateStatus[d] = "passed"
    <3> SUFFICES ASSUME NEW d \in GateDeps[c] PROVE GateStatus[d] = "passed"
      OBVIOUS
    <3>1. d \in With("passed")
      BY <2>1, DependenciesOfTheNext DEF GateDeps
    <3>2. d \in Cells /\ outcome[d] = "passed"
      BY <3>1 DEF With
    <3>3. QED
      BY <2>1, <3>2, RunnerAssumption DEF GateStatus
  <2>4. Gate!Becomes(c, "running") /\ UNCHANGED GateDeps
    BY <2>1, GateBecomes
  <2>5. QED
    BY <2>2, <2>3, <2>4 DEF Gate!Start, Gate!Next
<1>4. CASE ChildPasses \/ ChildFails
  <2>1. PICK s \in {"passed", "failed"} :
          /\ outcome' = [outcome EXCEPT ![child] = s]
          /\ child' = NoCell /\ action' = action /\ pc = "child"
    BY <1>4 DEF ChildPasses, ChildFails
  <2>2. child \in Cells
    BY <2>1 DEF ChildIsThere, TypeOK
  <2>3. GateStatus[child] = "running"
    BY <2>2 DEF GateStatus
  <2>4. Gate!Becomes(child, s) /\ UNCHANGED GateDeps
    BY <2>1, <2>2, GateBecomes
  <2>5. QED
    BY <2>2, <2>3, <2>4 DEF Gate!End, Gate!Next
<1>5. ASSUME NEW c \in Cells, BlockCell(c) PROVE Gate!Next
  <2>1. /\ child = NoCell /\ child' = NoCell /\ IsNext(c) /\ IsBlocked(c)
        /\ outcome' = [outcome EXCEPT ![c] = "blocked"] /\ UNCHANGED action
    BY <1>5 DEF BlockCell, Account, ChildIsNext
  <2>2. GateStatus[c] = "pending"
    BY <2>1, RunnerAssumption DEF GateStatus, IsNext, Remaining
  <2>3. PICK d \in DependsOn(c, action) : d \in Unavailable
    BY <2>1 DEF IsBlocked
  <2>4. d \in Cells /\ outcome[d] \in {"failed", "blocked"}
    BY <2>3 DEF Unavailable, With
  <2>5. GateStatus[d] \in Gate!Unavailable
    BY <2>1, <2>4, RunnerAssumption DEF GateStatus, Gate!Unavailable
  <2>6. Gate!Becomes(c, "blocked") /\ UNCHANGED GateDeps
    BY <2>1, GateBecomes
  <2>7. QED
    BY <2>2, <2>3, <2>5, <2>6 DEF Gate!Block, GateDeps, Gate!Next
<1>6. ASSUME NEW c \in Cells, SkipCell(c) PROVE Gate!Next
  <2>1. /\ child = NoCell /\ child' = NoCell /\ IsNext(c) /\ pc = "tail"
        /\ outcome' = [outcome EXCEPT ![c] = "skipped"] /\ UNCHANGED action
    BY <1>6 DEF SkipCell, ChildIsNext
  <2>2. GateStatus[c] = "pending"
    BY <2>1, RunnerAssumption DEF GateStatus, IsNext, Remaining
  <2>3. PICK d \in Cells : outcome[d] = "failed"
    BY <2>1 DEF TailFollowsAFailure, With
  <2>4. GateStatus[d] = "failed"
    BY <2>1, <2>3, RunnerAssumption DEF GateStatus
  <2>5. Gate!Becomes(c, "skipped") /\ UNCHANGED GateDeps
    BY <2>1, GateBecomes
  <2>6. QED
    BY <2>2, <2>4, <2>5 DEF Gate!Skip, Gate!Next
<1>7. CASE InitRecord \/ StartLoop \/ ChildReports \/ EndLoop \/ FinishRecord
           \/ Mark \/ Publish \/ Kill \/ UNCHANGED vars
  BY <1>1, <1>7 DEF InitRecord, StartLoop, ChildReports, EndLoop, FinishRecord,
                    Mark, Publish, Kill, vars
<1>8. QED
  BY <1>2, <1>3, <1>4, <1>5, <1>6, <1>7 DEF Next, Step

(* The local suite runner implements PrereqGate, for any matrix, rules,    *)
(* --max and --stop-on-fail, if the order of the jobs puts the flows that  *)
(* produce capabilities first (cypress-suite.nu:137-200, planner.nu).      *)
THEOREM RunnerKeepsTheGate ==
  ASSUME CapabilitiesFirst PROVE Spec => KeepsTheGate
<1>1. Inv /\ [Next]_vars => [Gate!Next]_(Gate!vars)
  BY GateStep
<1>2. QED
  BY <1>1, GateInit, InvInit, InvStep, PTL DEF Spec, KeepsTheGate, Gate!Spec

-----------------------------------------------------------------------------
(* The record, the exit code and the marker. Of each cell: what its        *)
(* artifact and its entries can be, given the list it is in.               *)
EntriesOf(c) == {s \in Results \cup Outcomes : <<c, s>> \in record.entries}

CellBooks(c) ==
  /\ outcome[c] = "none" /\ c # child => artifact[c] = "none" /\ EntriesOf(c) = {}
  /\ outcome[c] = "passed" =>
       artifact[c] = "passed" /\ (saveFailed \/ "passed" \in EntriesOf(c))
  /\ \A s \in EntriesOf(c) :
       IF s \in Results
       THEN artifact[c] = s /\ outcome[c] \in {"none", "passed", "failed"}
       ELSE outcome[c] = s /\ s # "none"

Books == \A c \in Cells : CellBooks(c)

(* Which cells are in which list, and what a failure ends.                 *)
ScheduledOnly ==
  \A c \in Cells :
    outcome[c] \in {"passed", "failed", "blocked", "skipped"} => c \in Scheduled

FailureFirst == With("blocked") \cup With("skipped") # {} => With("failed") # {}

StopMeansStop ==
  opts.stop /\ With("failed") # {} =>
    child = NoCell /\ pc \notin {"init", "gated", "loop", "child"}

GatedAreSkipped == \A c \in Gated : outcome[c] = "capability-skipped"

Progress ==
  /\ pc \in {"loop", "child", "tail", "finish", "mark", "publish", "done"} =>
       GatedAreSkipped
  /\ pc \in {"finish", "mark", "publish", "done"} => Remaining = {}

(* A finished record is never written again; one that could not be saved   *)
(* still says running.                                                     *)
Finished == record.status \notin {"absent", "running"}

Closed ==
  \/ Finished
  \/ record.status = "running" /\ saveFailed
  \/ record.status = "absent" /\ Scheduled \cup Gated = {}

Closing ==
  /\ pc = "init" => record = NoRecord
  /\ pc \in {"gated", "loop", "child", "tail", "finish"} => record.status = "running"
  /\ pc \in {"mark", "publish", "done"} => Closed
  /\ Finished =>
       /\ record.status = OverallStatus(SyntheticStatuses)
       /\ record.counts = Counts
       /\ pc \in {"mark", "publish", "done", "killed"} /\ child = NoCell
       /\ Remaining = {} /\ GatedAreSkipped
  /\ exit = "ok" => pc = "done" /\ With("failed") = {}
  /\ latest = "this" => opts.max = 0 /\ Closed

Lists == ScheduledOnly /\ FailureFirst /\ StopMeansStop /\ Progress

FullInv == Inv /\ Books /\ Lists /\ Closing


LEMMA SameCells ==
  [Next]_vars => /\ UNCHANGED <<action, opts>>
                 /\ Scheduled' = Scheduled /\ Gated' = Gated
<1> SUFFICES ASSUME [Next]_vars
             PROVE  UNCHANGED <<action, opts>> /\ Scheduled' = Scheduled /\ Gated' = Gated
  OBVIOUS
<1>1. UNCHANGED <<action, opts>>
  BY DEF Next, Step, vars, InitRecord, SkipGated, StartLoop, BlockCell, RunCell,
         ChildReports, ChildPasses, ChildFails, SkipCell, EndLoop, FinishRecord,
         Mark, Publish, Kill
<1>2. QED
  BY <1>1 DEF Scheduled, Gated, Earlier, Runnable

(* The books are kept by a step that touches neither lists nor record, ... *)
LEMMA BooksKeep ==
  ASSUME Books, UNCHANGED <<outcome, artifact>>, record'.entries = record.entries,
         child' = child \/ child = NoCell, saveFailed => saveFailed'
  PROVE  Books'
<1>1. \A c \in Cells : c # child' => c # child
  BY RunnerAssumption
<1>2. \A c \in Cells : EntriesOf(c)' = EntriesOf(c)
  BY DEF EntriesOf
<1>3. ASSUME NEW c \in Cells PROVE CellBooks(c)'
  <2>1. CellBooks(c)
    BY DEF Books
  <2>2. QED
    BY <1>1, <1>2, <2>1 DEF CellBooks
<1>4. QED
  BY <1>3 DEF Books

LEMMA EntriesAfter ==
  ASSUME TypeOK, NEW c \in Cells, NEW s,
         record' = [record EXCEPT !.entries = @ \cup {<<c, s>>}]
  PROVE  /\ \A d \in Cells \ {c} : EntriesOf(d)' = EntriesOf(d)
         /\ EntriesOf(c)' = EntriesOf(c) \cup ({s} \cap (Results \cup Outcomes))
<1>1. record'.entries = record.entries \cup {<<c, s>>}
  BY DEF TypeOK, RecordState
<1>2. QED
  BY <1>1 DEF EntriesOf

(* ... by one that is done with a cell without running it, ...             *)
LEMMA BooksSettle ==
  ASSUME TypeOK, Books, NEW c \in Cells, outcome[c] = "none",
         NEW s \in {"blocked", "skipped", "capability-skipped"},
         NEW added \in BOOLEAN, NEW emitted \in BOOLEAN,
         child = NoCell, UNCHANGED child,
         outcome' = [outcome EXCEPT ![c] = s],
         AddEntry(c, s, added), Emit(c, s, emitted),
         saveFailed => saveFailed'
  PROVE  Books'
<1>1. \A d \in Cells : d # child
  BY RunnerAssumption
<1>2. EntriesOf(c) = {}
  BY <1>1 DEF Books, CellBooks
<1>3. /\ \A d \in Cells \ {c} : EntriesOf(d)' = EntriesOf(d)
      /\ EntriesOf(c)' \subseteq {s}
  <2>1. CASE record' = record
    BY <1>2, <2>1 DEF EntriesOf
  <2>2. CASE record' = [record EXCEPT !.entries = @ \cup {<<c, s>>}]
    BY <1>2, <2>2, EntriesAfter
  <2>3. QED
    BY <2>1, <2>2 DEF AddEntry
<1>4. /\ outcome'[c] = s
      /\ \A d \in Cells \ {c} : outcome'[d] = outcome[d] /\ artifact'[d] = artifact[d]
  BY DEF TypeOK, Emit
<1>5. CellBooks(c)'
  BY <1>3, <1>4 DEF CellBooks, Results
<1>6. ASSUME NEW d \in Cells \ {c} PROVE CellBooks(d)'
  <2>1. CellBooks(d)
    BY DEF Books
  <2>2. QED
    BY <1>3, <1>4, <2>1 DEF CellBooks
<1>7. QED
  BY <1>5, <1>6 DEF Books

(* ... and by a child's report and its end.                                *)
LEMMA BooksOfTheChild ==
  ASSUME Inv, Books, NEW c \in Cells, c = child
  PROVE  /\ outcome[c] = "none"
         /\ EntriesOf(c) \subseteq Results
         /\ \A s \in EntriesOf(c) : artifact[c] = s
<1>1. outcome[c] = "none"
  BY RunnerAssumption DEF Inv, ChildIsNext, IsNext, Remaining
<1>2. CellBooks(c)
  BY DEF Books
<1>3. QED
  BY <1>1, <1>2 DEF CellBooks

LEMMA BooksReport ==
  ASSUME Inv, Books, ChildReports
  PROVE  Books'
<1>1. PICK c \in Cells : c = child
  BY DEF Inv, TypeOK, ChildReports
<1>2. PICK r \in Results :
        /\ artifact' = [artifact EXCEPT ![c] = r]
        /\ \/ record' = [record EXCEPT !.entries = @ \cup {<<c, r>>}]
           \/ UNCHANGED record
  BY <1>1 DEF ChildReports
<1>3. outcome[c] = "none" /\ EntriesOf(c) = {}
  <2>1. artifact[c] = "none"
    BY <1>1 DEF ChildReports
  <2>2. QED
    BY <1>1, <2>1, BooksOfTheChild DEF Results
<1>4. /\ \A d \in Cells \ {c} : EntriesOf(d)' = EntriesOf(d)
      /\ EntriesOf(c)' \subseteq {r}
  <2>1. CASE UNCHANGED record
    BY <1>3, <2>1 DEF EntriesOf
  <2>2. CASE record' = [record EXCEPT !.entries = @ \cup {<<c, r>>}]
    BY <1>1, <1>3, <2>2, EntriesAfter DEF Inv
  <2>3. QED
    BY <1>2, <2>1, <2>2
<1>5. /\ artifact'[c] = r /\ UNCHANGED <<outcome, child, saveFailed>>
      /\ \A d \in Cells \ {c} : artifact'[d] = artifact[d]
  BY <1>1, <1>2 DEF Inv, TypeOK, ChildReports
<1>6. CellBooks(c)'
  BY <1>1, <1>3, <1>4, <1>5 DEF CellBooks
<1>7. ASSUME NEW d \in Cells \ {c} PROVE CellBooks(d)'
  <2>1. CellBooks(d)
    BY DEF Books
  <2>2. QED
    BY <1>4, <1>5, <2>1 DEF CellBooks
<1>8. QED
  BY <1>6, <1>7 DEF Books

LEMMA BooksEnd ==
  ASSUME Inv, Books, ChildPasses \/ ChildFails
  PROVE  Books'
<1>1. PICK c \in Cells : c = child
  BY DEF Inv, TypeOK, ChildIsThere, ChildPasses, ChildFails
<1>2. EntriesOf(c) \subseteq Results /\ \A s \in EntriesOf(c) : artifact[c] = s
  BY <1>1, BooksOfTheChild
<1>3. /\ UNCHANGED <<artifact, record>> /\ child' = NoCell
      /\ \/ outcome' = [outcome EXCEPT ![c] = "passed"]
         \/ outcome' = [outcome EXCEPT ![c] = "failed"]
      /\ saveFailed => saveFailed'
  <2>1. CASE ChildPasses
    <3>1. saveFailed => saveFailed'
      BY <2>1 DEF ChildPasses, Notice
    <3>2. QED
      BY <1>1, <2>1, <3>1 DEF ChildPasses
  <2>2. CASE ChildFails
    BY <1>1, <2>2 DEF ChildFails
  <2>3. QED
    BY <2>1, <2>2
<1>4. \A d \in Cells : EntriesOf(d)' = EntriesOf(d)
  BY <1>3 DEF EntriesOf
<1>5. /\ outcome'[c] \in {"passed", "failed"}
      /\ \A d \in Cells \ {c} : outcome'[d] = outcome[d]
  BY <1>1, <1>3 DEF Inv, TypeOK
<1>6. outcome'[c] = "passed" =>
        artifact[c] = "passed" /\ (saveFailed' \/ "passed" \in EntriesOf(c))
  <2>1. CASE ChildPasses
    BY <1>1, <2>1 DEF ChildPasses, ExitsWithZero, Notice, EntriesOf, Results
  <2>2. CASE ChildFails
    BY <1>1, <2>2 DEF ChildFails, Inv, TypeOK
  <2>3. QED
    BY <2>1, <2>2
<1>7. CellBooks(c)'
  BY <1>2, <1>3, <1>4, <1>5, <1>6 DEF CellBooks
<1>8. ASSUME NEW d \in Cells \ {c} PROVE CellBooks(d)'
  <2>1. CellBooks(d)
    BY DEF Books
  <2>2. QED
    BY <1>1, <1>3, <1>4, <1>5, <2>1 DEF CellBooks
<1>9. QED
  BY <1>7, <1>8 DEF Books

LEMMA BooksStep ==
  ASSUME Inv, Books, Closing, [Next]_vars
  PROVE  Books'
<1>0. TypeOK
  BY DEF Inv
<1>1. CASE InitRecord
  <2>1. record'.entries = record.entries
    BY <1>1 DEF InitRecord, Closing, NoRecord
  <2>2. QED
    BY <1>1, <2>1, BooksKeep DEF InitRecord
<1>2. ASSUME NEW c \in Cells, SkipGated(c) \/ BlockCell(c) PROVE Books'
  <2>1. PICK s \in {"blocked", "capability-skipped"} :
          Account(c, s) /\ outcome[c] = "none" /\ child = NoCell /\ UNCHANGED child
    BY <1>2 DEF SkipGated, BlockCell, IsNext, Remaining, Inv, ChildIsNext
  <2>2. PICK emitted \in BOOLEAN, added \in BOOLEAN :
          /\ outcome' = [outcome EXCEPT ![c] = s]
          /\ Emit(c, s, emitted) /\ AddEntry(c, s, added)
          /\ Notice(emitted /\ added)
    BY <2>1 DEF Account
  <2>3. saveFailed => saveFailed'
    BY <2>2 DEF Notice
  <2>4. QED
    BY <1>0, <2>1, <2>2, <2>3, BooksSettle
<1>3. ASSUME NEW c \in Cells, SkipCell(c) PROVE Books'
  <2>1. outcome[c] = "none" /\ child = NoCell /\ UNCHANGED <<child, artifact>>
    BY <1>3 DEF SkipCell, IsNext, Remaining, Inv, ChildIsNext
  <2>2. PICK added \in BOOLEAN :
          /\ outcome' = [outcome EXCEPT ![c] = "skipped"]
          /\ AddEntry(c, "skipped", added) /\ Notice(added)
    BY <1>3 DEF SkipCell
  <2>3. Emit(c, "skipped", FALSE) /\ (saveFailed => saveFailed')
    BY <2>1, <2>2 DEF Notice, Emit
  <2>4. QED
    BY <1>0, <2>1, <2>2, <2>3, BooksSettle
<1>4. ASSUME NEW c \in Cells, RunCell(c) PROVE Books'
  <2>1. child = NoCell
    BY <1>4 DEF RunCell, Inv, ChildIsNext
  <2>2. QED
    BY <1>4, <2>1, BooksKeep DEF RunCell
<1>5. CASE ChildReports
  BY <1>5, BooksReport
<1>6. CASE ChildPasses \/ ChildFails
  BY <1>6, BooksEnd
<1>7. CASE FinishRecord
  <2>1. record'.entries = record.entries /\ (saveFailed => saveFailed')
    BY <1>0, <1>7 DEF FinishRecord, TypeOK, RecordState
  <2>2. QED
    BY <1>7, <2>1, BooksKeep DEF FinishRecord
<1>8. CASE StartLoop \/ EndLoop \/ Mark \/ Publish \/ Kill \/ UNCHANGED vars
  BY <1>8, BooksKeep DEF StartLoop, EndLoop, Mark, Publish, Kill, vars
<1>9. QED
  BY <1>1, <1>2, <1>3, <1>4, <1>5, <1>6, <1>7, <1>8 DEF Next, Step

-----------------------------------------------------------------------------
(* The lists.                                                              *)
LEMMA ListsKeep ==
  ASSUME Lists, [Next]_vars, UNCHANGED outcome, UNCHANGED child,
         \/ pc' = pc \/ pc' = "killed"
         \/ pc' \in {"loop", "tail", "publish", "done"} /\ Progress'
         \/ <<pc, pc'>> \in {<<"init", "gated">>, <<"finish", "mark">>}
         \/ pc' \in {"mark", "finish"} /\ Progress',
         pc' \in {"init", "gated", "loop", "child"} =>
           pc \in {"init", "gated", "loop", "child"}
  PROVE  Lists'
<1>1. Scheduled' = Scheduled /\ Gated' = Gated /\ UNCHANGED opts
  BY SameCells
<1>2. ScheduledOnly' /\ FailureFirst' /\ StopMeansStop'
  BY <1>1 DEF Lists, ScheduledOnly, FailureFirst, StopMeansStop, With
<1>3. Progress'
  BY <1>1 DEF Lists, Progress, GatedAreSkipped, Remaining
<1>4. QED
  BY <1>2, <1>3 DEF Lists

(* A cell that had no outcome gets one.                                    *)
LEMMA ListsSettle ==
  ASSUME Inv, Lists, [Next]_vars, NEW c \in Cells, outcome[c] = "none",
         NEW s \in {"passed", "failed", "blocked", "skipped", "capability-skipped"},
         outcome' = [outcome EXCEPT ![c] = s],
         s # "capability-skipped" => c \in Scheduled,
         s \in {"blocked", "skipped"} => With("failed") # {},
         s = "failed" /\ opts.stop => pc' = "tail",
         child' = NoCell,
         pc' \in {"gated", "loop", "tail"},
         opts.stop /\ With("failed") # {} => pc' = "tail",
         pc' # "gated" => pc # "gated" /\ pc \in {"loop", "child", "tail"}
  PROVE  Lists'
<1>1. Scheduled' = Scheduled /\ Gated' = Gated /\ UNCHANGED opts
  BY SameCells
<1>2. outcome'[c] = s /\ \A d \in Cells \ {c} : outcome'[d] = outcome[d]
  BY DEF Inv, TypeOK
<1>3. ScheduledOnly'
  BY <1>1, <1>2 DEF Lists, ScheduledOnly
<1>4. With("failed") \subseteq With("failed")'
  BY <1>2 DEF With
<1>5. FailureFirst'
  <2>1. CASE With("failed") # {}
    BY <1>4, <2>1 DEF FailureFirst
  <2>2. CASE With("failed") = {}
    BY <1>2, <2>2 DEF Lists, FailureFirst, With
  <2>3. QED
    BY <2>1, <2>2
<1>6. StopMeansStop'
  <2>1. CASE With("failed") # {}
    BY <1>1, <2>1 DEF StopMeansStop
  <2>2. CASE With("failed") = {}
    BY <1>1, <1>2, <2>2 DEF StopMeansStop, With
  <2>3. QED
    BY <2>1, <2>2
<1>7. Progress'
  <2>1. c \notin Gated \/ s = "capability-skipped"
    BY DEF Scheduled, Gated, Runnable
  <2>2. QED
    BY <1>1, <1>2, <2>1 DEF Lists, Progress, GatedAreSkipped, Gated
<1>8. QED
  BY <1>3, <1>5, <1>6, <1>7 DEF Lists

LEMMA ListsStep ==
  ASSUME Inv, Lists, Closing, [Next]_vars
  PROVE  Lists'
<1>0. Scheduled' = Scheduled /\ Gated' = Gated /\ UNCHANGED opts
  BY SameCells
<1>1. CASE InitRecord
  <2>1. Scheduled \cup Gated = {} => Progress'
    BY <1>0 DEF Progress, GatedAreSkipped, Remaining
  <2>2. QED
    BY <1>1, <2>1, ListsKeep DEF InitRecord
<1>2. ASSUME NEW c \in Cells, SkipGated(c) PROVE Lists'
  <2>1. /\ outcome[c] = "none" /\ pc = "gated" /\ pc' = "gated"
        /\ outcome' = [outcome EXCEPT ![c] = "capability-skipped"]
        /\ child' = NoCell
    BY <1>2 DEF SkipGated, Account, Inv, ChildIsNext
  <2>2. ~(opts.stop /\ With("failed") # {})
    BY <2>1 DEF Lists, StopMeansStop
  <2>3. QED
    BY <2>1, <2>2, ListsSettle
<1>3. CASE StartLoop
  <2>1. GatedAreSkipped
    BY <1>3 DEF StartLoop, GatedAreSkipped, Lists, ScheduledOnly, Inv, TypeOK,
                Outcomes, Scheduled, Runnable, Gated
  <2>2. Progress'
    BY <1>0, <1>3, <2>1 DEF StartLoop, Progress, GatedAreSkipped
  <2>3. QED
    BY <1>3, <2>2, ListsKeep DEF StartLoop
<1>4. ASSUME NEW c \in Cells, BlockCell(c) PROVE Lists'
  <2>1. /\ outcome[c] = "none" /\ c \in Scheduled /\ pc = "loop" /\ pc' = "loop"
        /\ outcome' = [outcome EXCEPT ![c] = "blocked"]
        /\ child' = NoCell
    BY <1>4 DEF BlockCell, Account, IsNext, Remaining, Inv, ChildIsNext
  <2>2. With("failed") # {}
    BY <1>4 DEF BlockCell, IsBlocked, Unavailable, Lists, FailureFirst
  <2>3. ~opts.stop
    BY <2>1, <2>2 DEF Lists, StopMeansStop
  <2>4. QED
    BY <2>1, <2>2, <2>3, ListsSettle
<1>5. ASSUME NEW c \in Cells, RunCell(c) PROVE Lists'
  <2>1. pc = "loop" /\ pc' = "child" /\ UNCHANGED <<outcome, opts>>
    BY <1>5 DEF RunCell
  <2>2. ~(opts.stop /\ With("failed") # {})
    BY <2>1 DEF Lists, StopMeansStop
  <2>3. StopMeansStop' /\ FailureFirst' /\ ScheduledOnly'
    BY <1>0, <2>1, <2>2
       DEF Lists, StopMeansStop, FailureFirst, ScheduledOnly, With
  <2>4. Progress'
    BY <1>0, <2>1 DEF Lists, Progress, GatedAreSkipped
  <2>5. QED
    BY <2>3, <2>4 DEF Lists
<1>6. CASE ChildReports
  BY <1>6, ListsKeep DEF ChildReports
<1>7. CASE ChildPasses \/ ChildFails
  <2>1. PICK s \in {"passed", "failed"} :
          /\ outcome' = [outcome EXCEPT ![child] = s]
          /\ child' = NoCell /\ pc = "child" /\ pc' \in {"loop", "tail"}
          /\ s = "failed" /\ opts.stop => pc' = "tail"
    BY <1>7 DEF ChildPasses, ChildFails, AfterFailure
  <2>2. child \in Cells /\ outcome[child] = "none" /\ child \in Scheduled
    BY <2>1 DEF Inv, TypeOK, ChildIsThere, ChildIsNext, IsNext, Remaining
  <2>3. ~(opts.stop /\ With("failed") # {})
    BY <2>1 DEF Lists, StopMeansStop
  <2>4. QED
    BY <2>1, <2>2, <2>3, ListsSettle
<1>8. ASSUME NEW c \in Cells, SkipCell(c) PROVE Lists'
  <2>1. /\ outcome[c] = "none" /\ c \in Scheduled /\ pc = "tail" /\ pc' = "tail"
        /\ outcome' = [outcome EXCEPT ![c] = "skipped"]
        /\ child' = NoCell
    BY <1>8 DEF SkipCell, IsNext, Remaining, Inv, ChildIsNext
  <2>2. With("failed") # {}
    BY <2>1 DEF Inv, TailFollowsAFailure
  <2>3. QED
    BY <2>1, <2>2, ListsSettle
<1>9. CASE EndLoop
  <2>1. Progress'
    BY <1>0, <1>9 DEF EndLoop, Lists, Progress, GatedAreSkipped, Remaining
  <2>2. QED
    BY <1>9, <2>1, ListsKeep DEF EndLoop
<1>10. CASE FinishRecord
  BY <1>10, ListsKeep DEF FinishRecord
<1>11. CASE Mark \/ Publish
  <2>1. Progress'
    BY <1>0, <1>11 DEF Mark, Publish, Lists, Progress, GatedAreSkipped, Remaining
  <2>2. QED
    BY <1>11, <2>1, ListsKeep DEF Mark, Publish
<1>12. CASE Kill \/ UNCHANGED vars
  BY <1>12, ListsKeep DEF Kill, vars
<1>13. QED
  BY <1>1, <1>2, <1>3, <1>4, <1>5, <1>6, <1>7, <1>8, <1>9, <1>10, <1>11, <1>12
     DEF Next, Step

-----------------------------------------------------------------------------
(* The record and what follows it.                                         *)
LEMMA SyntheticRange ==
  ASSUME TypeOK
  PROVE  /\ SyntheticStatuses \subseteq {"missing", "passed", "failed", "blocked",
                                         "capability-skipped"}
         /\ OverallStatus(SyntheticStatuses) \notin {"absent", "running"}
<1>1. SyntheticStatuses \subseteq {"missing", "passed", "failed", "blocked",
                                   "capability-skipped"}
  BY DEF SyntheticStatuses, TypeOK, Outcomes
<1>2. "running" \notin SyntheticStatuses
  BY <1>1
<1>3. QED
  BY <1>1, <1>2 DEF OverallStatus

LEMMA ClosingKeep ==
  ASSUME Closing, [Next]_vars,
         \/ pc \in {"gated", "loop", "child", "tail"}
         \/ pc = "killed" /\ child # NoCell,
         pc' = pc \/ (pc # "killed" /\ pc' \in {"loop", "child", "tail", "finish"}),
         record'.status = record.status,
         UNCHANGED <<latest, exit>>, saveFailed => saveFailed'
  PROVE  Closing'
<1>1. Scheduled' = Scheduled /\ Gated' = Gated /\ UNCHANGED opts
  BY SameCells
<1>2. ~Finished /\ ~Finished'
  BY DEF Closing, Finished
<1>3. Closed => Closed'
  BY <1>1 DEF Closed, Finished
<1>4. exit # "ok"
  BY DEF Closing
<1>5. QED
  BY <1>1, <1>2, <1>3, <1>4 DEF Closing

LEMMA ClosingStep ==
  ASSUME Inv, Lists, Closing, [Next]_vars
  PROVE  Closing'
<1>0. TypeOK /\ Scheduled' = Scheduled /\ Gated' = Gated /\ UNCHANGED <<action, opts>>
  BY SameCells DEF Inv
<1>1. CASE InitRecord
  <2>1. record = NoRecord /\ exit # "ok" /\ ~Finished
        /\ (latest = "this" => opts.max = 0 /\ Closed) /\ UNCHANGED <<latest, exit, saveFailed>>
    BY <1>1 DEF InitRecord, Closing, Finished, NoRecord
  <2>2. CASE Scheduled \cup Gated # {}
    <3>1. pc' = "gated" /\ record'.status = "running"
      BY <1>1, <2>2 DEF InitRecord, NoRecord
    <3>2. latest # "this"
      BY <2>1, <2>2 DEF Closed, Finished, NoRecord
    <3>3. QED
      BY <2>1, <3>1, <3>2 DEF Closing, Finished
  <2>3. CASE Scheduled \cup Gated = {}
    <3>1. pc' = "mark" /\ UNCHANGED record
      BY <1>1, <2>3 DEF InitRecord
    <3>2. Closed' /\ ~Finished'
      BY <1>0, <2>1, <2>3, <3>1 DEF Closed, Finished, NoRecord
    <3>3. QED
      BY <1>0, <2>1, <3>1, <3>2 DEF Closing
  <2>4. QED
    BY <2>2, <2>3
<1>2. ASSUME NEW c \in Cells, SkipGated(c) \/ BlockCell(c) PROVE Closing'
  <2>1. PICK s \in {"blocked", "capability-skipped"} :
          /\ Account(c, s) /\ pc \in {"gated", "loop"} /\ UNCHANGED <<pc, latest, exit>>
    BY <1>2 DEF SkipGated, BlockCell
  <2>2. PICK emitted \in BOOLEAN, added \in BOOLEAN :
          AddEntry(c, s, added) /\ Notice(emitted /\ added)
    BY <2>1 DEF Account
  <2>3. saveFailed => saveFailed'
    BY <2>2 DEF Notice
  <2>4. record'.status = record.status
    BY <1>0, <2>2 DEF AddEntry, TypeOK, RecordState
  <2>5. QED
    BY <2>1, <2>3, <2>4, ClosingKeep
<1>3. ASSUME NEW c \in Cells, SkipCell(c) PROVE Closing'
  <2>1. PICK added \in BOOLEAN : AddEntry(c, "skipped", added) /\ Notice(added)
    BY <1>3 DEF SkipCell
  <2>2. saveFailed => saveFailed'
    BY <2>1 DEF Notice
  <2>3. record'.status = record.status
    BY <1>0, <2>1 DEF AddEntry, TypeOK, RecordState
  <2>4. QED
    BY <1>3, <2>2, <2>3, ClosingKeep DEF SkipCell
<1>4. CASE StartLoop \/ EndLoop \/ ChildFails \/ (\E c \in Cells : RunCell(c))
  BY <1>4, ClosingKeep DEF StartLoop, EndLoop, ChildFails, AfterFailure, RunCell
<1>5. CASE ChildPasses
  <2>1. saveFailed => saveFailed'
    BY <1>5 DEF ChildPasses, Notice
  <2>2. QED
    BY <1>5, <2>1, ClosingKeep DEF ChildPasses
<1>6. CASE ChildReports
  <2>1. record'.status = record.status
    BY <1>0, <1>6 DEF ChildReports, TypeOK, RecordState
  <2>2. pc \in {"child", "killed"} /\ child # NoCell
    BY <1>6 DEF ChildReports, Inv, ChildIsNext
  <2>3. QED
    BY <1>6, <2>1, <2>2, ClosingKeep DEF ChildReports
<1>7. CASE FinishRecord
  <2>1. /\ child = NoCell /\ Remaining = {} /\ GatedAreSkipped /\ ~Finished
        /\ record.status = "running" /\ exit # "ok"
        /\ latest = "this" => opts.max = 0
    BY <1>7 DEF FinishRecord, Inv, ChildIsNext, Lists, Progress, Closing, Finished
  <2>2. /\ UNCHANGED <<child, outcome, latest, exit>> /\ pc' = "mark"
        /\ Remaining' = {} /\ GatedAreSkipped'
        /\ SyntheticStatuses' = SyntheticStatuses /\ Counts' = Counts
    BY <1>0, <1>7, <2>1 DEF FinishRecord, Remaining, GatedAreSkipped,
                            SyntheticStatuses, Counts, With
  <2>3. CASE record' = [record EXCEPT !.status = OverallStatus(SyntheticStatuses),
                                      !.counts = Counts]
    <3>1. /\ record'.status = OverallStatus(SyntheticStatuses)
          /\ record'.counts = Counts
      BY <1>0, <2>3 DEF TypeOK, RecordState
    <3>2. Finished'
      BY <1>0, <3>1, SyntheticRange DEF Finished
    <3>3. OverallStatus(SyntheticStatuses)' = OverallStatus(SyntheticStatuses)
      BY <2>2 DEF OverallStatus
    <3>4. QED
      BY <1>0, <2>1, <2>2, <3>1, <3>2, <3>3 DEF Closing, Closed
  <2>4. CASE saveFailed' = TRUE /\ UNCHANGED record
    BY <1>0, <2>1, <2>2, <2>4 DEF Closing, Closed, Finished
  <2>5. QED
    BY <1>7, <2>3, <2>4 DEF FinishRecord
<1>8. ASSUME UNCHANGED <<record, saveFailed, outcome, child>>,
             pc \in {"mark", "publish", "done"}, pc' \in {"publish", "done", "killed"},
             latest' = "this" => latest = "this" \/ opts.max = 0,
             exit' = "ok" => pc' = "done" /\ With("failed") = {}
      PROVE  Closing'
  <2>1. Closed /\ Closed' /\ Finished' = Finished
    BY <1>0, <1>8 DEF Closing, Closed, Finished
  <2>2. /\ Remaining' = Remaining /\ GatedAreSkipped' = GatedAreSkipped
        /\ SyntheticStatuses' = SyntheticStatuses /\ Counts' = Counts
        /\ With("failed")' = With("failed")
    BY <1>0, <1>8 DEF Remaining, GatedAreSkipped, SyntheticStatuses, Counts, With
  <2>3. OverallStatus(SyntheticStatuses)' = OverallStatus(SyntheticStatuses)
    BY <2>2 DEF OverallStatus
  <2>4. QED
    BY <1>0, <1>8, <2>1, <2>2, <2>3 DEF Closing
<1>9. CASE Mark
  <2>1. Scheduled = {} => With("failed") = {}
    BY DEF Lists, ScheduledOnly, With
  <2>2. exit # "ok"
    BY <1>9 DEF Mark, Closing
  <2>3. QED
    BY <1>8, <1>9, <2>1, <2>2 DEF Mark, LatestNow
<1>10. CASE Publish
  BY <1>8, <1>10 DEF Publish, ExitCode
<1>11. CASE Kill \/ UNCHANGED vars
  <2>1. /\ UNCHANGED <<record, outcome, child, latest, exit, saveFailed>>
        /\ pc' = pc \/ (pc' = "killed" /\ exit # "ok")
    BY <1>11 DEF Kill, vars, Closing, Ended
  <2>2. /\ Remaining' = Remaining /\ GatedAreSkipped' = GatedAreSkipped
        /\ SyntheticStatuses' = SyntheticStatuses /\ Counts' = Counts
        /\ With("failed")' = With("failed") /\ Closed' = Closed /\ Finished' = Finished
    BY <1>0, <2>1 DEF Remaining, GatedAreSkipped, SyntheticStatuses, Counts, With,
                      Closed, Finished
  <2>3. OverallStatus(SyntheticStatuses)' = OverallStatus(SyntheticStatuses)
    BY <2>2 DEF OverallStatus
  <2>4. QED
    BY <1>0, <2>1, <2>2, <2>3 DEF Closing
<1>12. QED
  BY <1>1, <1>2, <1>3, <1>4, <1>5, <1>6, <1>7, <1>9, <1>10, <1>11 DEF Next, Step

LEMMA FullInit == Init => FullInv
<1> SUFFICES ASSUME Init PROVE FullInv
  OBVIOUS
<1>1. Inv
  BY InvInit
<1>2. Books
  BY DEF Init, Books, CellBooks, EntriesOf, NoRecord
<1>3. Lists
  BY DEF Init, Lists, ScheduledOnly, FailureFirst, StopMeansStop, Progress, With
<1>4. Closing
  BY DEF Init, Closing, Finished, NoRecord
<1>5. QED
  BY <1>1, <1>2, <1>3, <1>4 DEF FullInv

LEMMA FullStep == FullInv /\ [Next]_vars => FullInv'
  BY InvStep, BooksStep, ListsStep, ClosingStep DEF FullInv

(* A record that says passed is backed by the artifact of every cell that  *)
(* was scheduled, and by its entry unless a save has failed, for any plan, *)
(* --max, --stop-on-fail and kills (index.nu:202-234).                     *)
THEOREM PassedIsBacked == Spec => []PassedMeansEveryCellPassed
<1>1. FullInv => PassedMeansEveryCellPassed
  <2> SUFFICES ASSUME FullInv, record.status = "passed", NEW c \in Scheduled
               PROVE  artifact[c] = "passed"
                      /\ (saveFailed \/ <<c, "passed">> \in record.entries)
    BY DEF PassedMeansEveryCellPassed
  <2>1. Finished /\ c \in Cells /\ TypeOK
    BY DEF Finished, Scheduled, Runnable, FullInv, Inv
  <2>2. OverallStatus(SyntheticStatuses) = "passed" /\ outcome[c] # "none"
    BY <2>1 DEF FullInv, Closing, Remaining
  <2>3. SyntheticStatuses \subseteq {"passed", "capability-skipped"}
    BY <2>2 DEF OverallStatus
  <2>4. outcome[c] \in {"passed", "capability-skipped"}
    BY <2>1, <2>2, <2>3 DEF SyntheticStatuses
  <2>5. outcome[c] # "capability-skipped"
    BY <2>1 DEF Scheduled, Runnable, FullInv, Inv, GatedOnly
  <2>6. CellBooks(c)
    BY <2>1 DEF FullInv, Books
  <2>7. QED
    BY <2>4, <2>5, <2>6 DEF CellBooks, EntriesOf
<1>2. QED
  BY <1>1, FullInit, FullStep, PTL DEF Spec

(* Without a failure every scheduled cell has passed: blocked and skipped  *)
(* cells have one before them.                                             *)
LEMMA NoFailureMeansAllPassed ==
  ASSUME FullInv, With("failed") = {}, Remaining = {}
  PROVE  \A c \in Scheduled : outcome[c] = "passed"
<1> SUFFICES ASSUME NEW c \in Scheduled PROVE outcome[c] = "passed"
  OBVIOUS
<1>1. c \in Cells /\ action[c] = "run" /\ outcome[c] \in Outcomes
  BY DEF Scheduled, Runnable, FullInv, Inv, TypeOK
<1>2. outcome[c] \notin {"none", "failed", "blocked", "skipped", "capability-skipped"}
  BY <1>1 DEF Remaining, With, FullInv, Lists, FailureFirst, Inv, GatedOnly
<1>3. QED
  BY <1>1, <1>2 DEF Outcomes

(* Exit code 0 means that every scheduled cell has passed and the record   *)
(* says so, if it could be saved (cypress-suite.nu:306-308).               *)
THEOREM ExitCodeIsHonest == Spec => []ExitAgreesWithRecord
<1>1. FullInv => ExitAgreesWithRecord
  <2> SUFFICES ASSUME FullInv, exit = "ok"
               PROVE  /\ \/ record.status \in {"passed", "absent"}
                         \/ saveFailed /\ record.status = "running"
                      /\ \A c \in Scheduled : outcome[c] = "passed"
    BY DEF ExitAgreesWithRecord
  <2>1. pc = "done" /\ With("failed") = {} /\ Closed /\ Remaining = {} /\ TypeOK
    BY DEF FullInv, Closing, Lists, Progress, Inv
  <2>2. \A c \in Scheduled : outcome[c] = "passed"
    BY <2>1, NoFailureMeansAllPassed
  <2>3. ASSUME Finished PROVE record.status = "passed"
    <3>1. \A c \in Cells : outcome[c] \in {"none", "passed", "capability-skipped"}
      BY <2>1, <2>2 DEF With, FullInv, Lists, FailureFirst, Inv, TypeOK, Outcomes
    <3>2. SyntheticStatuses \subseteq {"passed", "capability-skipped"}
      BY <3>1 DEF SyntheticStatuses
    <3>3. OverallStatus(SyntheticStatuses) = "passed"
      BY <3>2 DEF OverallStatus, Failures
    <3>4. QED
      BY <2>3, <3>3 DEF FullInv, Closing
  <2>4. QED
    BY <2>1, <2>2, <2>3 DEF Closed
<1>2. QED
  BY <1>1, FullInit, FullStep, PTL DEF Spec

(* The marker of the latest suite names a complete suite whose record is   *)
(* finished, or could not be (index.nu:66-70).                             *)
THEOREM LatestSuiteIsFinished == Spec => []LatestIsFinished
<1>1. FullInv => LatestIsFinished
  <2> SUFFICES ASSUME FullInv, latest = "this", Scheduled \cup Gated # {}
               PROVE  /\ opts.max = 0 /\ Scheduled = Runnable(action)
                      /\ record.status # "running" \/ saveFailed
    BY DEF LatestIsFinished
  <2>1. opts.max = 0 /\ Closed
    BY DEF FullInv, Closing
  <2>2. Scheduled = Runnable(action)
    BY <2>1 DEF Scheduled
  <2>3. QED
    BY <2>1, <2>2 DEF Closed, Finished
<1>2. QED
  BY <1>1, FullInit, FullStep, PTL DEF Spec

(* With --stop-on-fail nothing is started or blocked once a cell has       *)
(* failed (cypress-suite.nu:186-198).                                      *)
THEOREM FailureStopsTheSuite == Spec => StopsAtTheFirstFailure
<1>1. ASSUME FullInv, [Next]_vars, opts.stop, With("failed") # {}
      PROVE  child' = NoCell /\ \A c \in Cells : outcome'[c] = "blocked" => outcome[c] = "blocked"
  <2>1. child = NoCell /\ pc \notin {"init", "gated", "loop", "child"}
    BY <1>1 DEF FullInv, Lists, StopMeansStop
  <2>2. CASE \E c \in Cells : SkipCell(c)
    BY <2>1, <2>2 DEF SkipCell, FullInv, Inv, TypeOK
  <2>3. CASE EndLoop \/ FinishRecord \/ Mark \/ Publish \/ Kill \/ UNCHANGED vars
    BY <2>1, <2>3 DEF EndLoop, FinishRecord, Mark, Publish, Kill, vars
  <2>4. QED
    BY <1>1, <2>1, <2>2, <2>3
       DEF Next, Step, InitRecord, StartLoop, ChildReports, ChildPasses, ChildFails,
           SkipGated, BlockCell, RunCell
<1>2. FullInv /\ [Next]_vars =>
        [opts.stop /\ With("failed") # {} =>
           child' = NoCell /\ \A c \in Cells : outcome'[c] = "blocked" => outcome[c] = "blocked"]_vars
  BY <1>1
<1>3. QED
  BY <1>2, FullInit, FullStep, PTL DEF Spec, StopsAtTheFirstFailure

(* The four lists of the runner make up what was scheduled.                *)
LEMMA ListsAddUp ==
  ASSUME FullInv, Remaining = {}
  PROVE  Cardinality(With("passed")) + Cardinality(With("failed"))
           + Cardinality(With("blocked")) + Cardinality(With("skipped"))
         = Cardinality(Scheduled)
<1> DEFINE P == With("passed")  F == With("failed")
           B == With("blocked") S == With("skipped")
<1>1. /\ IsFiniteSet(P) /\ IsFiniteSet(F) /\ IsFiniteSet(B) /\ IsFiniteSet(S)
  BY PlanAssumption, FS_Subset DEF With
<1>2. /\ P \cap F = {} /\ (P \cup F) \cap B = {} /\ (P \cup F \cup B) \cap S = {}
  BY DEF With
<1>3. Scheduled = P \cup F \cup B \cup S
  <2>1. \A c \in Scheduled : c \in Cells /\ action[c] = "run" /\ outcome[c] \in Outcomes
    BY DEF Scheduled, Runnable, FullInv, Inv, TypeOK
  <2>2. \A c \in Scheduled : outcome[c] \notin {"none", "capability-skipped"}
    BY <2>1 DEF Remaining, FullInv, Inv, GatedOnly
  <2>3. Scheduled \subseteq P \cup F \cup B \cup S
    BY <2>1, <2>2 DEF With, Outcomes
  <2>4. P \cup F \cup B \cup S \subseteq Scheduled
    BY DEF With, FullInv, Lists, ScheduledOnly
  <2>5. QED
    BY <2>3, <2>4
<1> HIDE DEF P, F, B, S
<1>4. IsFiniteSet(P \cup F) /\ Cardinality(P \cup F) = Cardinality(P) + Cardinality(F)
  BY <1>1, <1>2, DisjointUnion
<1>5. /\ IsFiniteSet(P \cup F \cup B)
      /\ Cardinality(P \cup F \cup B) = Cardinality(P \cup F) + Cardinality(B)
  BY <1>1, <1>2, <1>4, DisjointUnion
<1>6. Cardinality(P \cup F \cup B \cup S) = Cardinality(P \cup F \cup B) + Cardinality(S)
  BY <1>1, <1>2, <1>5, DisjointUnion
<1>7. QED
  BY <1>3, <1>4, <1>5, <1>6 DEF P, F, B, S

(* A finished record counts every scheduled and gated cell once, and its   *)
(* entries contradict neither each other nor the counts; an entry whose    *)
(* save failed may be missing (index.nu:74-167).                           *)
THEOREM RecordAddsUp == Spec => []RecordIsComplete
<1>1. FullInv => RecordIsComplete
  <2> SUFFICES ASSUME FullInv, Finished
               PROVE  /\ record.counts["passed"] + record.counts["failed"]
                           + record.counts["blocked"] + record.counts["skipped"]
                         = Cardinality(Scheduled)
                      /\ record.counts["capability-skipped"] = Cardinality(Gated)
                      /\ \A c \in Cells, s, t \in Results \cup Outcomes :
                           <<c, s>> \in record.entries =>
                             /\ <<c, t>> \in record.entries => s = t
                             /\ s \notin Results => outcome[c] = s
                             /\ s \in Failures => outcome[c] = "failed"
    BY DEF RecordIsComplete, Finished
  <2>1. record.counts = Counts /\ child = NoCell /\ Remaining = {} /\ GatedAreSkipped
    BY DEF FullInv, Closing
  <2>2. \A o \in Outcomes \ {"none"} : record.counts[o] = Cardinality(With(o))
    BY <2>1 DEF Counts
  <2>3. record.counts["passed"] + record.counts["failed"]
          + record.counts["blocked"] + record.counts["skipped"]
        = Cardinality(Scheduled)
    BY <2>1, <2>2, ListsAddUp DEF Outcomes
  <2>4. With("capability-skipped") = Gated
    BY <2>1 DEF With, GatedAreSkipped, Gated, FullInv, Inv, GatedOnly
  <2>5. record.counts["capability-skipped"] = Cardinality(Gated)
    BY <2>2, <2>4 DEF Outcomes
  <2>6. ASSUME NEW c \in Cells, NEW s \in EntriesOf(c)
        PROVE  /\ s \in Results => artifact[c] = s /\ outcome[c] \in {"passed", "failed"}
               /\ s \notin Results => outcome[c] = s
               /\ outcome[c] = "passed" => artifact[c] = "passed"
    <3>1. CellBooks(c) /\ c # child
      BY <2>1, RunnerAssumption DEF FullInv, Books
    <3>2. QED
      BY <2>6, <3>1 DEF CellBooks
  <2>7. ASSUME NEW c \in Cells, NEW s \in EntriesOf(c), NEW t \in EntriesOf(c)
        PROVE  s = t
    <3>1. CASE s \in Results /\ t \in Results
      BY <2>6, <3>1
    <3>2. CASE s \notin Results /\ t \notin Results
      BY <2>6, <3>2
    <3>3. CASE s \in Results /\ t \notin Results
      BY <2>6, <3>3 DEF Results
    <3>4. CASE s \notin Results /\ t \in Results
      BY <2>6, <3>4 DEF Results
    <3>5. QED
      BY <3>1, <3>2, <3>3, <3>4
  <2>8. ASSUME NEW c \in Cells, NEW s \in EntriesOf(c), s \in Failures
        PROVE  outcome[c] = "failed"
    <3>1. s \in Results /\ s # "passed"
      BY <2>8 DEF Failures, Results
    <3>2. QED
      BY <2>6, <3>1
  <2>9. ASSUME NEW c \in Cells, NEW s \in Results \cup Outcomes,
               <<c, s>> \in record.entries
        PROVE  s \in EntriesOf(c)
    BY <2>9 DEF EntriesOf
  <2>10. QED
    BY <2>3, <2>5, <2>6, <2>7, <2>8, <2>9
<1>2. QED
  BY <1>1, FullInit, FullStep, PTL DEF Spec

=============================================================================
